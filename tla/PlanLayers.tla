----------------------------- MODULE PlanLayers -----------------------------
(***************************************************************************)
(* build_layers of src/planner.rs: the depth-first search that gives each  *)
(* step its depth (step_depth), the pass that applies the sync boundaries  *)
(* (apply_sync_boundaries) and the loop that fills the layers.             *)
(*                                                                         *)
(* The recursion of step_depth is an explicit stack: one frame per call in *)
(* progress, holding the step, the dependencies its fold has not consumed  *)
(* and the depth folded so far.                                            *)
(***************************************************************************)
EXTENDS PlanDefs

VARIABLES
    dependencies,     \* the input: steps[s].dependencies
    sync_boundaries,  \* the input: endpoint.sync_boundaries
    phase,            \* "visit" | "sync" | "fill" | "planned" | "cycle"
    cursor,           \* the index of the loop of the current phase
    stack,            \* the calls of step_depth in progress, innermost last
    state,            \* VisitState of each step
    depths,           \* depths of build_layers
    floor,            \* locals of apply_sync_boundaries
    previous_max,
    layers            \* the result, layer k at position k + 1

input == <<dependencies, sync_boundaries>>
locals == <<floor, previous_max>>
vars == <<input, phase, cursor, stack, state, depths, locals, layers>>

Frame == [step : Step, todo : SUBSET Step, depth : Nat]

TypeOK ==
    /\ dependencies \in Graphs
    /\ sync_boundaries \in BoundarySets
    /\ phase \in {"visit", "sync", "fill", "planned", "cycle"}
    /\ cursor \in 0 .. N
    /\ stack \in Seq(Frame)
    /\ state \in [Step -> {"Unvisited", "Visiting", "Visited"}]
    /\ depths \in [Step -> Nat]
    /\ floor \in Nat
    /\ previous_max \in Nat
    /\ layers \in Seq(SUBSET Step)

Init ==
    /\ dependencies \in Graphs
    /\ sync_boundaries \in BoundarySets
    /\ phase = "visit"
    /\ cursor = 0
    /\ stack = << >>
    /\ state = [s \in Step |-> "Unvisited"]
    /\ depths = [s \in Step |-> 0]
    /\ floor = 0
    /\ previous_max = 0
    /\ layers = << >>

-----------------------------------------------------------------------------
(* The depth-first search.                                                 *)

Top == stack[Len(stack)]
Pop == SubSeq(stack, 1, Len(stack) - 1)

\* The innermost call goes on with the given frame.
Continue(frame) == stack' = [stack EXCEPT ![Len(stack)] = frame]

\* step_depth(s) for an unvisited s: mark it and start folding over its
\* dependencies.
Enter(s) ==
    /\ state' = [state EXCEPT ![s] = "Visiting"]
    /\ stack' = Append(stack, [step |-> s, todo |-> dependencies[s], depth |-> 0])

\* The loop of build_layers: step_depth of the next step, at once when the
\* step has been visited from an earlier one.
VisitRoot ==
    /\ phase = "visit"
    /\ stack = << >>
    /\ cursor < N
    /\ IF state[cursor] = "Visited"
         THEN UNCHANGED <<state, stack>>
         ELSE Enter(cursor)
    /\ cursor' = cursor + 1
    /\ UNCHANGED <<input, phase, depths, locals, layers>>

\* d is the next dependency of the innermost call: BTreeSet order.
NextDependency(d) ==
    /\ phase = "visit"
    /\ stack # << >>
    /\ d \in Top.todo
    /\ \A e \in Top.todo : d <= e

\* Mutants of FoldDependency: the dependency is not consumed; the last depth
\* wins instead of the largest; a step being visited is taken for a visited
\* one.
FoldWithoutConsuming(d) ==
    /\ NextDependency(d)
    /\ state[d] = "Visited"
    /\ Continue([step |-> Top.step, todo |-> Top.todo,
                 depth |-> Larger(Top.depth, depths[d] + 1)])
    /\ UNCHANGED <<input, phase, cursor, state, depths, locals, layers>>
FoldLastOnly(d) ==
    /\ NextDependency(d)
    /\ state[d] = "Visited"
    /\ Continue([step |-> Top.step, todo |-> Top.todo \ {d},
                 depth |-> depths[d] + 1])
    /\ UNCHANGED <<input, phase, cursor, state, depths, locals, layers>>
FoldVisiting(d) ==
    /\ NextDependency(d)
    /\ state[d] # "Unvisited"
    /\ Continue([step |-> Top.step, todo |-> Top.todo \ {d},
                 depth |-> Larger(Top.depth, depths[d] + 1)])
    /\ UNCHANGED <<input, phase, cursor, state, depths, locals, layers>>

\* The dependency's depth is known: fold it.
FoldDependency(d) ==
    /\ NextDependency(d)
    /\ state[d] = "Visited"
    /\ Continue([step |-> Top.step, todo |-> Top.todo \ {d},
                 depth |-> Larger(Top.depth, depths[d] + 1)])
    /\ UNCHANGED <<input, phase, cursor, state, depths, locals, layers>>

\* The dependency is unvisited: recurse.  It stays in todo until the call
\* returns and FoldDependency takes its depth.
Recurse(d) ==
    /\ NextDependency(d)
    /\ state[d] = "Unvisited"
    /\ Enter(d)
    /\ UNCHANGED <<input, phase, cursor, depths, locals, layers>>

\* The dependency is being visited: every call returns Err, build_layers
\* returns PlanError::Cycle.
FindCycle(d) ==
    /\ NextDependency(d)
    /\ state[d] = "Visiting"
    /\ phase' = "cycle"
    /\ UNCHANGED <<input, cursor, stack, state, depths, locals, layers>>

\* The fold is over: the call records the depth and returns.
Return ==
    /\ phase = "visit"
    /\ stack # << >>
    /\ Top.todo = {}
    /\ state' = [state EXCEPT ![Top.step] = "Visited"]
    /\ depths' = [depths EXCEPT ![Top.step] = Top.depth]
    /\ stack' = Pop
    /\ UNCHANGED <<input, phase, cursor, locals, layers>>

EndVisits ==
    /\ phase = "visit"
    /\ stack = << >>
    /\ cursor = N
    /\ phase' = "sync"
    /\ cursor' = 0
    /\ UNCHANGED <<input, stack, state, depths, locals, layers>>

-----------------------------------------------------------------------------
(* The sync boundaries and the layers.                                     *)

\* Mutants of ApplyBoundary: the floor starts at the depth before the boundary;
\* it is lost after the boundary's own step.
FloorNotAbove ==
    /\ phase = "sync"
    /\ cursor < N
    /\ floor' = IF cursor \in sync_boundaries THEN previous_max ELSE floor
    /\ depths' = [depths EXCEPT ![cursor] = Larger(@, floor')]
    /\ previous_max' = Larger(previous_max, depths'[cursor])
    /\ cursor' = cursor + 1
    /\ UNCHANGED <<input, phase, stack, state, layers>>
FloorForgotten ==
    /\ phase = "sync"
    /\ cursor < N
    /\ floor' = IF cursor \in sync_boundaries THEN previous_max + 1 ELSE 0
    /\ depths' = [depths EXCEPT ![cursor] = Larger(@, floor')]
    /\ previous_max' = Larger(previous_max, depths'[cursor])
    /\ cursor' = cursor + 1
    /\ UNCHANGED <<input, phase, stack, state, layers>>

\* One iteration of apply_sync_boundaries, in source order.
ApplyBoundary ==
    /\ phase = "sync"
    /\ cursor < N
    /\ floor' = IF cursor \in sync_boundaries THEN previous_max + 1 ELSE floor
    /\ depths' = [depths EXCEPT ![cursor] = Larger(@, floor')]
    /\ previous_max' = Larger(previous_max, depths'[cursor])
    /\ cursor' = cursor + 1
    /\ UNCHANGED <<input, phase, stack, state, layers>>

EndBoundaries ==
    /\ phase = "sync"
    /\ cursor = N
    /\ phase' = "fill"
    /\ cursor' = 0
    /\ UNCHANGED <<input, stack, state, depths, locals, layers>>

\* Mutant of PlaceStep: layers is extended to the depth, not past it.
PlaceShort ==
    /\ phase = "fill"
    /\ cursor < N
    /\ layers' = [k \in 1 .. Larger(Len(layers), depths[cursor]) |->
                    (IF k <= Len(layers) THEN layers[k] ELSE {})
                      \cup {s \in {cursor} : depths[s] = k - 1}]
    /\ cursor' = cursor + 1
    /\ UNCHANGED <<input, phase, stack, state, depths, locals>>

\* One iteration of the loop that fills the layers: empty ones are added up to
\* the step's depth, and the step is pushed onto its own.
PlaceStep ==
    /\ phase = "fill"
    /\ cursor < N
    /\ layers' = [k \in 1 .. Larger(Len(layers), depths[cursor] + 1) |->
                    (IF k <= Len(layers) THEN layers[k] ELSE {})
                      \cup {s \in {cursor} : depths[s] = k - 1}]
    /\ cursor' = cursor + 1
    /\ UNCHANGED <<input, phase, stack, state, depths, locals>>

EndFill ==
    /\ phase = "fill"
    /\ cursor = N
    /\ phase' = "planned"
    /\ UNCHANGED <<input, cursor, stack, state, depths, locals, layers>>

Returned ==
    /\ phase \in {"planned", "cycle"}
    /\ UNCHANGED vars

Next ==
    \/ VisitRoot
    \/ \E d \in Step : FoldDependency(d) \/ Recurse(d) \/ FindCycle(d)
    \/ Return
    \/ EndVisits
    \/ ApplyBoundary
    \/ EndBoundaries
    \/ PlaceStep
    \/ EndFill
    \/ Returned

Spec == Init /\ [][Next]_vars

\* A plain synchronous call: it keeps running until it returns.
FairSpec == Spec /\ WF_vars(Next)

-----------------------------------------------------------------------------
(* Properties.                                                             *)

\* An endpoint is rejected with PlanError::Cycle only if its reads do form a
\* cycle: step_depth never mistakes two readers of one step for a loop.
CycleIsReal == phase = "cycle" => HasCycle(dependencies)

\* ... and no endpoint with a cycle of reads gets a plan.
CycleDetected == CycleIsReal /\ (phase = "planned" => ~HasCycle(dependencies))

\* The recursion, its memo table and the boundary loop together compute the
\* plan as defined without them: longest chains, lifted past boundaries.
PlanIsPlanOf ==
    phase = "planned" => layers = PlanOf(dependencies, sync_boundaries)

\* What `sync` is for: every step before a boundary ends up in an earlier
\* layer than every step after it, whatever either of them reads.
SyncParts ==
    phase = "planned" => PartsSteps(layers, sync_boundaries)

\* Raising depths never puts a step before one it reads, unless the step reads
\* a variable that a sync boundary defers past it.
SyncKeepsLooseOrder ==
    phase = "planned" =>
        \A j, k \in DOMAIN layers : \A d \in layers[j], s \in layers[k] :
            d \in dependencies[s] /\ ~Parted(sync_boundaries, s, d) => j <= k

\* Whatever a step reads is in an earlier layer: the layers carry the
\* dependency DAG.
LayersRespectDependencies ==
    phase = "planned" => CarriesReads(layers, dependencies)

\* An endpoint without sync blocks gets layers that carry its DAG.
DagRespectedWithoutSync == sync_boundaries = {} => LayersRespectDependencies

\* What EndpointExecution assumes of a plan: it loses no step, repeats none,
\* parts what sync parts and, without sync, carries the reads.
PlanMeetsContract ==
    phase = "planned" => PlanContract(dependencies, sync_boundaries, layers)

\* build_layers returns, with a plan or with a cycle, whatever the reads.
Terminates == <>(phase \in {"planned", "cycle"})

-----------------------------------------------------------------------------
(* The inductive invariant.  Frames, folded dependencies and visited steps  *)
(* while the search runs; processed and unprocessed steps while the         *)
(* boundaries are applied.                                                  *)

Calls == 1 .. Len(stack)

\* A step is being visited exactly while one call holds it.
FramesAreVisiting ==
    /\ \A i \in Calls : state[stack[i].step] = "Visiting"
    /\ \A i, j \in Calls : stack[i].step = stack[j].step => i = j
    /\ \A s \in Step : state[s] = "Visiting" => \E i \in Calls : stack[i].step = s

\* The calls in progress follow a chain of reads, so meeting one of their
\* steps again closes a cycle.
FramesFollowReads ==
    /\ \A i \in Calls : stack[i].todo \subseteq dependencies[stack[i].step]
    /\ \A i \in Calls : i + 1 \in Calls => stack[i + 1].step \in stack[i].todo

\* What a call has folded is visited and counted in its depth.
FramesCountReads ==
    \A i \in Calls : \A d \in dependencies[stack[i].step] \ stack[i].todo :
        state[d] = "Visited" /\ depths[d] < stack[i].depth

\* A visited step is deeper than everything it reads.
VisitedAboveReads ==
    \A s \in Step : state[s] = "Visited" =>
        \A d \in dependencies[s] : state[d] = "Visited" /\ depths[d] < depths[s]

VisitInv ==
    /\ FramesAreVisiting /\ FramesFollowReads
    /\ phase = "visit" =>
         /\ FramesCountReads
         /\ VisitedAboveReads
         /\ \A s \in Step : s < cursor => state[s] # "Unvisited"
         /\ floor = 0 /\ previous_max = 0
    /\ phase \in {"sync", "fill", "planned"} =>
         stack = << >> /\ \A s \in Step : state[s] = "Visited"

\* Steps apply_sync_boundaries has passed.
Passed == {s \in Step : phase = "sync" => s < cursor}

\* floor is above every passed step that a passed boundary cuts off, and at or
\* below every passed step that none does.
FloorInv ==
    /\ floor <= previous_max + 1
    /\ \A s \in Passed : depths[s] <= previous_max
    /\ \A s \in Passed :
         IF \E b \in sync_boundaries : s < b /\ b \in Passed
           THEN depths[s] < floor
           ELSE floor <= depths[s]

\* How each reader stands to what it reads, by which of the two is passed.
ReadsInv ==
    \A s \in Step : \A d \in dependencies[s] :
        /\ s \notin Passed /\ d \notin Passed => depths[d] < depths[s]
        /\ s \notin Passed /\ d \in Passed =>
             depths[d] < depths[s] \/ depths[d] <= floor
        /\ s \in Passed /\ d \notin Passed => depths[d] < depths[s]
        /\ s \in Passed /\ d \in Passed =>
             Parted(sync_boundaries, s, d) \/ depths[d] <= depths[s]

SyncInv ==
    phase \in {"sync", "fill", "planned"} =>
        /\ FloorInv
        /\ ReadsInv
        /\ \A s, t \in Passed :
             Parted(sync_boundaries, s, t) => depths[s] < depths[t]
        /\ sync_boundaries = {} =>
             /\ floor = 0
             /\ \A s \in Step : \A d \in dependencies[s] : depths[d] < depths[s]

\* Layer k + 1 holds the placed steps of depth k.
FillInv ==
    /\ phase \in {"visit", "sync"} => layers = << >>
    /\ phase = "planned" => cursor = N
    /\ phase \in {"fill", "planned"} =>
         /\ \A k \in 1 .. Len(layers) :
              layers[k] = {s \in Step : s < cursor /\ depths[s] = k - 1}
         /\ \A s \in Step : s < cursor => depths[s] < Len(layers)

\* The search and the two loops keep the facts above at every step: the
\* recursion of step_depth never loses track of a call, and each depth that is
\* recorded or raised is justified by the steps already handled.
PlanInv == VisitInv /\ SyncInv /\ FillInv /\ CycleIsReal

-----------------------------------------------------------------------------
(* Why the search ends.                                                     *)

Entered == {s \in Step : state[s] # "Unvisited"}
Visited == {s \in Step : state[s] = "Visited"}

\* The reads that have been folded into the depth of their reader.
Folded ==
    {read \in Step \X Step :
       /\ read[2] \in dependencies[read[1]]
       /\ \/ read[1] \in Visited
          \/ \E i \in Calls : stack[i].step = read[1] /\ read[2] \notin stack[i].todo}

Later(p, q) ==
    \/ p = "visit" /\ q \in {"sync", "cycle"}
    \/ p = "sync" /\ q = "fill"
    \/ p = "fill" /\ q = "planned"

\* No step of build_layers undoes or repeats work: it goes on to a later phase, or
\* what has been looped over, entered, folded and visited grows, none of which has room for
\* more than every step and every pair of steps.  step_depth therefore recurses into
\* a step once, whatever reads lead to it, and build_layers cannot go on for ever.
EveryStepIsProgress ==
    [][\/ Later(phase, phase')
       \/ /\ phase' = phase /\ cursor <= cursor'
          /\ Entered \subseteq Entered' /\ Folded \subseteq Folded' /\ Visited \subseteq Visited'
          /\ <<cursor, Entered, Folded, Visited>> # <<cursor, Entered, Folded, Visited>>']_vars
=============================================================================
