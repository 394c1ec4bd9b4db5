-------------------------- MODULE EndpointExecution --------------------------
(***************************************************************************)
(* EndpointRuntime::execute of src/runtime/mod.rs: one request running the *)
(* layers of its endpoint's plan.                                          *)
(*                                                                         *)
(* A layer of one step runs inside the request's own future.  Any other    *)
(* layer is spawned into a JoinSet, on a clone of the variables; its tasks *)
(* run in parallel with each other and with the loop that joins them.  The *)
(* first error leaves execute and drops the JoinSet, which asks the        *)
(* remaining tasks to abort; so does dropping the future when the client   *)
(* goes away.  A task being polled when it is asked to abort runs on to    *)
(* its next await, or to its end.                                          *)
(*                                                                         *)
(* What a step does (a call, a command, a pipe) is abstracted to "it takes *)
(* a while, then yields a value or an error"; the value is the set of      *)
(* steps it was computed from, as in Dataflow.                             *)
(***************************************************************************)
EXTENDS PlanDefs

\* The endpoints the gateway serves: the reads, the sync boundaries and the
\* plan of each.
CONSTANT Endpoints

ASSUME EndpointsAssumption ==
    \A e \in Endpoints :
        /\ e.reads \in Graphs /\ ~HasCycle(e.reads)
        /\ e.sync \in BoundarySets
        /\ PlanContract(e.reads, e.sync, e.plan)

VARIABLES
    endpoint,   \* the endpoint requested
    layer,      \* index of the current layer; one past the last when done
    snapshot,   \* the variables the steps of the layer are evaluated on
    vars,       \* the value of each step's variable, {} when unset
    task,       \* how far each step is
    culprit,    \* {s} when step s ended the request with its error
    outcome     \* "running" | "responded" | "failed" | "dropped"

state == <<endpoint, layer, snapshot, vars, task, culprit, outcome>>


Bound(values) == {s \in Step : values[s] # {}}
ValueOn(s, values) == {s} \cup UNION {values[d] : d \in endpoint.reads[s]}

\* idle      not started
\* spawned   in the JoinSet, not polled yet
\* running   being evaluated
\* ok, err   a task that ended, its result waiting to be joined
\* joined    its value is in vars
\* aborting  polled when its JoinSet was dropped
\* gone      ended without its result being used
Status == {"idle", "spawned", "running", "ok", "err", "joined", "aborting", "gone"}
Values == [Step -> SUBSET Step]

TypeOK ==
    /\ endpoint.reads \in Graphs
    /\ endpoint.sync \in BoundarySets
    /\ endpoint.plan \in Seq(SUBSET Step)
    /\ layer \in 1 .. (Len(endpoint.plan) + 1)
    /\ snapshot \in Values
    /\ vars \in Values
    /\ task \in [Step -> Status]
    /\ culprit \in SUBSET Step
    /\ outcome \in {"running", "responded", "failed", "dropped"}

Init ==
    /\ endpoint \in Endpoints
    /\ layer = 1
    /\ snapshot = [s \in Step |-> {}]
    /\ vars = [s \in Step |-> {}]
    /\ task = [s \in Step |-> "idle"]
    /\ culprit = {}
    /\ outcome = "running"

\* execute is at a layer it has not finished.
Executing == outcome = "running" /\ layer \in DOMAIN endpoint.plan
Current == endpoint.plan[layer]
IsInline(s) == Current = {s}

-----------------------------------------------------------------------------
(* A layer of one step.                                                    *)

RunInline(s) ==
    /\ Executing /\ IsInline(s)
    /\ task[s] = "idle"
    /\ snapshot' = vars
    /\ task' = [task EXCEPT ![s] = "running"]
    /\ UNCHANGED <<endpoint, layer, vars, culprit, outcome>>

FinishInline(s) ==
    /\ Executing /\ IsInline(s)
    /\ task[s] = "running"
    /\ vars' = [vars EXCEPT ![s] = ValueOn(s, snapshot)]
    /\ task' = [task EXCEPT ![s] = "joined"]
    /\ layer' = layer + 1
    /\ UNCHANGED <<endpoint, snapshot, culprit, outcome>>

FailInline(s) ==
    /\ Executing /\ IsInline(s)
    /\ task[s] = "running"
    /\ task' = [task EXCEPT ![s] = "gone"]
    /\ culprit' = {s}
    /\ outcome' = "failed"
    /\ UNCHANGED <<endpoint, layer, snapshot, vars>>

-----------------------------------------------------------------------------
(* A layer of several steps, or of none.                                   *)

\* Mutant of SkipEmptyLayer: an empty JoinSet is waited for like any other.
AwaitEmptyLayer ==
    /\ Executing
    /\ Current = {}
    /\ snapshot' = vars
    /\ UNCHANGED <<endpoint, layer, vars, task, culprit, outcome>>

\* The sync pass can leave a layer empty: its JoinSet has nothing to join.
SkipEmptyLayer ==
    /\ Executing
    /\ Current = {}
    /\ snapshot' = vars
    /\ layer' = layer + 1
    /\ UNCHANGED <<endpoint, vars, task, culprit, outcome>>

\* Mutant of SpawnLayer: the tasks are given the variables of the last layer.
SpawnOnStaleVars ==
    /\ Executing
    /\ Current # {} /\ \A s \in Current : ~IsInline(s) /\ task[s] = "idle"
    /\ task' = [s \in Step |-> IF s \in Current THEN "spawned" ELSE task[s]]
    /\ UNCHANGED <<endpoint, layer, snapshot, vars, culprit, outcome>>

SpawnLayer ==
    /\ Executing
    /\ Current # {} /\ \A s \in Current : ~IsInline(s) /\ task[s] = "idle"
    /\ snapshot' = vars
    /\ task' = [s \in Step |-> IF s \in Current THEN "spawned" ELSE task[s]]
    /\ UNCHANGED <<endpoint, layer, vars, culprit, outcome>>

\* A worker thread polls a spawned task for the first time.
StartTask(s) ==
    /\ task[s] = "spawned"
    /\ task' = [task EXCEPT ![s] = "running"]
    /\ UNCHANGED <<endpoint, layer, snapshot, vars, culprit, outcome>>

\* A task ends, or panics: a JoinError is an error like any other.
EndTask(s) ==
    /\ Executing /\ ~IsInline(s)
    /\ task[s] = "running"
    /\ \E result \in {"ok", "err"} : task' = [task EXCEPT ![s] = result]
    /\ UNCHANGED <<endpoint, layer, snapshot, vars, culprit, outcome>>

\* s is the last task of its layer to be joined.
LayerJoined(s) == \A t \in Current \ {s} : task[t] = "joined"

\* Mutant of JoinTask: the first result ends the layer.
JoinFirstOnly(s) ==
    /\ Executing
    /\ task[s] = "ok"
    /\ vars' = [vars EXCEPT ![s] = ValueOn(s, snapshot)]
    /\ task' = [task EXCEPT ![s] = "joined"]
    /\ layer' = layer + 1
    /\ UNCHANGED <<endpoint, snapshot, culprit, outcome>>

\* join_next yields any task that has ended; the last one ends the layer.
JoinTask(s) ==
    /\ Executing
    /\ task[s] = "ok"
    /\ vars' = [vars EXCEPT ![s] = ValueOn(s, snapshot)]
    /\ task' = [task EXCEPT ![s] = "joined"]
    /\ layer' = IF LayerJoined(s) THEN layer + 1 ELSE layer
    /\ UNCHANGED <<endpoint, snapshot, culprit, outcome>>

\* Mutant of AbortTasks: the remaining tasks are detached, as when a
\* JoinHandle is dropped.
DetachTasks == task' = task

\* What dropping the JoinSet, or the future of the request, does to the steps.
AbortTasks ==
    task' = [s \in Step |->
               IF task[s] \in {"spawned", "ok", "err"} \/ (task[s] = "running" /\ IsInline(s))
               THEN "gone"
               ELSE IF task[s] = "running" THEN "aborting" ELSE task[s]]

\* `??` on a joined error: execute returns it and drops the JoinSet.
JoinError(s) ==
    /\ Executing
    /\ task[s] = "err"
    /\ culprit' = {s}
    /\ outcome' = "failed"
    /\ AbortTasks
    /\ UNCHANGED <<endpoint, layer, snapshot, vars>>

\* An aborted task reaches an await, or its end: its result goes nowhere.
TaskAborted(s) ==
    /\ task[s] = "aborting"
    /\ task' = [task EXCEPT ![s] = "gone"]
    /\ UNCHANGED <<endpoint, layer, snapshot, vars, culprit, outcome>>

-----------------------------------------------------------------------------
(* The end of the request.                                                 *)

\* Mutant of EvalResponse: a request whose last layer is still being joined
\* is answered.
RespondEarly ==
    /\ outcome = "running"
    /\ layer >= Len(endpoint.plan)
    /\ outcome' \in {"responded", "failed"}
    /\ UNCHANGED <<endpoint, layer, snapshot, vars, task, culprit>>

\* eval_response on the variables of all the layers; it too can fail.
EvalResponse ==
    /\ outcome = "running"
    /\ layer = Len(endpoint.plan) + 1
    /\ outcome' \in {"responded", "failed"}
    /\ UNCHANGED <<endpoint, layer, snapshot, vars, task, culprit>>

\* The client goes away while execute waits: the server drops its future.
DropRequest ==
    /\ Executing
    /\ \E s \in Current : task[s] # "idle"
    /\ outcome' = "dropped"
    /\ AbortTasks
    /\ UNCHANGED <<endpoint, layer, snapshot, vars, culprit>>

Settled ==
    /\ outcome # "running"
    /\ \A s \in Step : task[s] \in {"idle", "joined", "gone"}

Done == Settled /\ UNCHANGED state

StepNext(s) ==
    \/ RunInline(s) \/ FinishInline(s) \/ FailInline(s)
    \/ StartTask(s) \/ EndTask(s) \/ JoinTask(s) \/ JoinError(s) \/ TaskAborted(s)

Next ==
    \/ \E s \in Step : StepNext(s)
    \/ SkipEmptyLayer \/ SpawnLayer \/ EvalResponse
    \/ DropRequest
    \/ Done

Spec == Init /\ [][Next]_state

\* The executor polls every woken task, and every step ends: its calls answer
\* or time out.  Nothing makes the client leave.
Fairness ==
    /\ \A s \in Step : WF_state(StepNext(s))
    /\ WF_state(SkipEmptyLayer \/ SpawnLayer \/ EvalResponse)

FairSpec == Spec /\ Fairness

-----------------------------------------------------------------------------
(* Properties.                                                             *)

Begun == {s \in Step : task[s] # "idle"}

\* No step of a layer begins before every step of the layers above it has
\* handed over its value, however the tasks are scheduled.
LayersInOrder ==
    \A j, k \in DOMAIN endpoint.plan : j < k /\ endpoint.plan[k] \cap Begun # {}
        => endpoint.plan[j] \subseteq Bound(vars)

\* `sync` at run time: a step after a boundary begins only when every step
\* before it has handed over its value.
SyncStepsWait ==
    \A s, t \in Step : Parted(endpoint.sync, s, t) /\ t \in Begun => s \in Bound(vars)

\* The plan puts whatever a step reads in an earlier layer; without sync blocks
\* every plan does.
Carried == CarriesReads(endpoint.plan, endpoint.reads)

\* On such a plan every step is evaluated on variables that hold all it reads:
\* no request fails on an "undefined runtime variable".
ReadsAreBound ==
    Carried =>
        \A s \in Step : task[s] \in {"running", "ok"} => endpoint.reads[s] \subseteq Bound(snapshot)

\* What a step reads from the layers above its own, and the steps its value can be
\* traced back to through such reads.
ReadsAbove(s) ==
    {d \in endpoint.reads[s] :
       \E j, k \in DOMAIN endpoint.plan : j < k /\ d \in endpoint.plan[j] /\ s \in endpoint.plan[k]}
Origins(s) ==
    {t \in Step : \A S \in SUBSET Step : s \in S /\ (\A r \in S : ReadsAbove(r) \subseteq S) => t \in S}

\* The endpoint alone decides what is computed: however its tasks are scheduled and
\* joined, a variable has the value the layers give it, also where sync blocks
\* defer what it reads, and a response is built from all of them.
ValuesAreDetermined ==
    /\ \A s \in Bound(vars) : vars[s] = Origins(s)
    /\ outcome = "responded" => Bound(vars) = Step

\* Once the request has an outcome, no step begins and no variable changes:
\* a late sibling of a failed step cannot alter what was answered.
NothingAfterTheEnd ==
    [][outcome # "running" =>
         /\ UNCHANGED <<vars, outcome, culprit>>
         /\ \A s \in Step : task'[s] = "running" => task[s] = "running"]_state

\* How far a step is on its way from idle to joined or gone.
Far(status) ==
    CASE status = "idle" -> 0
      [] status = "spawned" -> 1
      [] status = "running" -> 2
      [] status \in {"ok", "err", "aborting"} -> 3
      [] OTHER -> 4

\* Nothing is done twice or undone: each step of the request takes some of its
\* steps further, its layers, or the request to its outcome, and none back.  So
\* a request goes round in no circle, and ends if it is not left waiting.
EveryStepIsProgress ==
    [][/\ \A s \in Step : task'[s] = task[s] \/ Far(task[s]) < Far(task'[s])
       /\ layer' \in {layer, layer + 1}
       /\ outcome' = outcome \/ outcome = "running"
       /\ task' # task \/ layer' # layer \/ outcome' # outcome]_state

\* Every request ends, and no task of it stays behind.
EveryRequestSettles == <>[]Settled

\* On such a plan the layers and tasks implement the dataflow promise; a request
\* on any other is shown to it as one that never moves.
Flow == INSTANCE Dataflow WITH
    reads <- endpoint.reads,
    vars <- IF Carried THEN vars ELSE [s \in Step |-> {}],
    culprit <- IF Carried THEN culprit ELSE {},
    outcome <- IF Carried THEN outcome ELSE "running"
ImplementsDataflow == Flow!FlowSpec

-----------------------------------------------------------------------------
(* The inductive invariant.                                                *)

\* Steps of earlier layers are joined, steps of later ones idle.
LayerInv ==
    /\ \A s \in Step : task[s] = "joined" <=> s \in Bound(vars)
    /\ \A k \in DOMAIN endpoint.plan :
         /\ k < layer => \A s \in endpoint.plan[k] : task[s] = "joined"
         /\ k > layer => \A s \in endpoint.plan[k] : task[s] = "idle"

\* While the layer runs, the snapshot still holds what the layers above left,
\* and some step of it is outstanding.
SnapshotInv ==
    /\ Bound(snapshot) \subseteq Bound(vars)
    /\ \A s \in Bound(snapshot) : snapshot[s] = vars[s]
    /\ Executing /\ Current \cap Begun # {} =>
         /\ \A k \in DOMAIN endpoint.plan : k < layer => endpoint.plan[k] \subseteq Bound(snapshot)
         /\ Current \ Bound(vars) # {}

\* No task of a request that has its outcome has anything left to hand over.
EndInv ==
    outcome # "running" => \A s \in Step : task[s] \in {"idle", "joined", "aborting", "gone"}

ExecInv == LayerInv /\ SnapshotInv /\ EndInv
=============================================================================
