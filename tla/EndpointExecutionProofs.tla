----------------------- MODULE EndpointExecutionProofs -----------------------
(***************************************************************************)
(* What EndpointExecution establishes for any number of steps and any      *)
(* endpoints whose plans meet PlanContract, which PlanLayersProofs proves  *)
(* of the planner's plans.                                                 *)
(***************************************************************************)
EXTENDS EndpointExecution, TLAPS

Served == endpoint \in Endpoints

Inv == Served /\ TypeOK /\ ExecInv

\* What is known of the endpoint requested.
LEMMA EndpointFacts ==
    ASSUME Served
    PROVE  /\ endpoint.reads \in Graphs /\ ~HasCycle(endpoint.reads)
           /\ endpoint.sync \in BoundarySets
           /\ endpoint.plan \in Seq(SUBSET Step)
           /\ PlacesEachStepOnce(endpoint.plan)
           /\ PartsSteps(endpoint.plan, endpoint.sync)
BY EndpointsAssumption DEF Served, PlanContract

\* The layer being executed is a set of steps, none of which is in another.
LEMMA CurrentFacts ==
    ASSUME Served, TypeOK, Executing
    PROVE  /\ layer \in 1 .. Len(endpoint.plan)
           /\ layer + 1 \in 1 .. (Len(endpoint.plan) + 1)
           /\ Current \subseteq Step
           /\ \A k \in DOMAIN endpoint.plan : k # layer => endpoint.plan[k] \cap Current = {}
<1>1. endpoint.plan \in Seq(SUBSET Step) /\ PlacesEachStepOnce(endpoint.plan)
  BY EndpointFacts
<1>2. layer \in DOMAIN endpoint.plan /\ DOMAIN endpoint.plan = 1 .. Len(endpoint.plan)
  BY <1>1 DEF Executing
<1>3. endpoint.plan[layer] \in SUBSET Step
  BY <1>1, <1>2
<1>4. ASSUME NEW k \in DOMAIN endpoint.plan, k # layer
      PROVE  endpoint.plan[k] \cap Current = {}
  BY <1>1, <1>2, <1>4 DEF PlacesEachStepOnce, Current
<1> QED
  BY <1>1, <1>2, <1>3, <1>4 DEF Current

\* A request keeps its endpoint.
LEMMA EndpointKept == ASSUME [Next]_state PROVE endpoint' = endpoint
BY DEF Next, StepNext, RunInline, FinishInline, FailInline, StartTask, EndTask, JoinTask,
       JoinError, TaskAborted, SkipEmptyLayer, SpawnLayer, EvalResponse, DropRequest, Done, state

\* A step in progress, or whose result waits to be joined, is in the layer
\* being executed.
LEMMA InProgressIsCurrent ==
    ASSUME Served, TypeOK, LayerInv, NEW s \in Step, task[s] \notin {"idle", "joined"}
    PROVE  layer \in DOMAIN endpoint.plan /\ s \in endpoint.plan[layer]
<1>1. PICK k \in DOMAIN endpoint.plan : s \in endpoint.plan[k]
  BY EndpointFacts DEF PlacesEachStepOnce
<1>2. k \in Nat /\ layer \in Nat
  BY EndpointFacts DEF TypeOK
<1>3. ~(k < layer) /\ ~(k > layer)
  BY <1>1 DEF LayerInv
<1>4. k = layer
  BY <1>2, <1>3
<1> QED
  BY <1>1, <1>4

\* The request's variables, layers and tasks keep their types.
LEMMA TypeStep == ASSUME Served, TypeOK, [Next]_state PROVE Served' /\ TypeOK'
<1> USE DEF TypeOK, Served, Values, Status
<1>1. ASSUME NEW s \in Step, StepNext(s) PROVE Served' /\ TypeOK'
  <2>1. CASE RunInline(s)
    BY <2>1 DEF RunInline
  <2>2. CASE FinishInline(s)
    <3>1. ValueOn(s, snapshot) \in SUBSET Step
      BY DEF ValueOn, Graphs
    <3>2. Executing
      BY <2>2 DEF FinishInline
    <3> QED
      BY <2>2, <3>1, <3>2, CurrentFacts DEF FinishInline
  <2>3. CASE FailInline(s)
    BY <2>3 DEF FailInline
  <2>4. CASE StartTask(s)
    BY <2>4 DEF StartTask
  <2>5. CASE EndTask(s)
    BY <2>5 DEF EndTask
  <2>6. CASE JoinTask(s)
    <3>1. ValueOn(s, snapshot) \in SUBSET Step
      BY DEF ValueOn, Graphs
    <3>2. Executing
      BY <2>6 DEF JoinTask
    <3> QED
      BY <2>6, <3>1, <3>2, CurrentFacts DEF JoinTask
  <2>7. CASE JoinError(s)
    BY <2>7 DEF JoinError, AbortTasks
  <2>8. CASE TaskAborted(s)
    BY <2>8 DEF TaskAborted
  <2> QED
    BY <1>1, <2>1, <2>2, <2>3, <2>4, <2>5, <2>6, <2>7, <2>8 DEF StepNext
<1>2. CASE SkipEmptyLayer
  <2>1. Executing
    BY <1>2 DEF SkipEmptyLayer
  <2> QED
    BY <1>2, <2>1, CurrentFacts DEF SkipEmptyLayer
<1>3. CASE SpawnLayer
  BY <1>3 DEF SpawnLayer
<1>4. CASE EvalResponse
  BY <1>4 DEF EvalResponse
<1>5. CASE DropRequest
  BY <1>5 DEF DropRequest, AbortTasks
<1>6. CASE Done \/ UNCHANGED state
  BY <1>6 DEF Done, state
<1> QED
  BY <1>1, <1>2, <1>3, <1>4, <1>5, <1>6 DEF Next

\* Joined steps stay joined, and steps not begun stay idle, except those of the
\* layer being executed: what a step of the model has to show to keep LayerInv
\* when it does not end the layer.
LEMMA LayerKept ==
    ASSUME Served, TypeOK, TypeOK', LayerInv, UNCHANGED <<endpoint, layer>>,
           \A s \in Step : task'[s] = "joined" <=> s \in Bound(vars'),
           \A s \in Step : task[s] = "joined" => task'[s] = "joined",
           \A s \in Step : task[s] = "idle" /\ task'[s] # "idle" =>
               layer \in DOMAIN endpoint.plan /\ s \in endpoint.plan[layer]
    PROVE  LayerInv'
<1>1. ASSUME NEW k \in DOMAIN endpoint.plan, NEW s \in endpoint.plan[k]
      PROVE  /\ s \in Step
             /\ k < layer => task'[s] = "joined"
             /\ k > layer => task'[s] = "idle"
  <2>1. s \in Step /\ k \in Nat /\ layer \in Nat
    BY <1>1, EndpointFacts DEF TypeOK
  <2>2. k < layer => task'[s] = "joined"
    BY <1>1, <2>1 DEF LayerInv
  <2>3. ASSUME k > layer, task'[s] # "idle" PROVE FALSE
    <3>1. task[s] = "idle"
      BY <1>1, <2>3 DEF LayerInv
    <3>2. layer \in DOMAIN endpoint.plan /\ s \in endpoint.plan[layer]
      BY <2>1, <2>3, <3>1
    <3>3. layer = k
      BY <1>1, <2>1, <3>2, EndpointFacts DEF PlacesEachStepOnce
    <3> QED
      BY <2>1, <2>3, <3>3
  <2> QED
    BY <2>1, <2>2, <2>3
<1>2. \A k \in DOMAIN endpoint.plan :
        /\ k < layer => \A s \in endpoint.plan[k] : task'[s] = "joined"
        /\ k > layer => \A s \in endpoint.plan[k] : task'[s] = "idle"
  BY <1>1
<1> QED
  BY <1>2 DEF LayerInv

\* The layer ends: all its steps are joined.
LEMMA LayerEnded ==
    ASSUME Served, TypeOK, TypeOK', LayerInv, Executing,
           UNCHANGED endpoint, layer' = layer + 1,
           \A s \in Step : task'[s] = "joined" <=> s \in Bound(vars'),
           \A s \in Step : task[s] = "joined" => task'[s] = "joined",
           \A s \in Step \ Current : task'[s] = task[s],
           \A s \in Current : task'[s] = "joined"
    PROVE  LayerInv' /\ (Executing' => Current' \cap Begun' = {})
<1>1. layer \in Nat /\ DOMAIN endpoint.plan \subseteq Nat
  BY EndpointFacts DEF TypeOK
<1>2. ASSUME NEW k \in DOMAIN endpoint.plan, NEW s \in endpoint.plan[k]
      PROVE  /\ s \in Step
             /\ k < layer + 1 => task'[s] = "joined"
             /\ k > layer => task'[s] = IF k = layer THEN "joined" ELSE "idle"
  <2>1. s \in Step /\ k \in Nat
    BY <1>2, EndpointFacts
  <2>2. CASE k = layer
    BY <1>1, <1>2, <2>1, <2>2 DEF Current
  <2>3. CASE k # layer
    <3>1. s \notin Current
      BY <1>2, <2>3, CurrentFacts
    <3>2. task'[s] = task[s]
      BY <2>1, <3>1
    <3>3. k < layer + 1 => k < layer
      BY <1>1, <2>1, <2>3
    <3> QED
      BY <1>2, <2>1, <2>3, <3>2, <3>3 DEF LayerInv
  <2> QED
    BY <2>2, <2>3
<1>3. \A k \in DOMAIN endpoint.plan : \A s \in endpoint.plan[k] :
        /\ k < layer' => task'[s] = "joined"
        /\ k > layer => (k # layer => task'[s] = "idle")
  BY <1>2
<1>4. \A k \in DOMAIN endpoint.plan :
        /\ k < layer' => \A s \in endpoint.plan[k] : task'[s] = "joined"
        /\ k > layer' => \A s \in endpoint.plan[k] : task'[s] = "idle"
  BY <1>1, <1>3
<1>5. LayerInv'
  BY <1>4 DEF LayerInv
<1>6. ASSUME Executing', NEW s \in Step, s \in Current' PROVE task'[s] = "idle"
  <2>1. layer + 1 \in DOMAIN endpoint.plan /\ s \in endpoint.plan[layer + 1]
    BY <1>6 DEF Executing, Current
  <2> QED
    BY <1>1, <1>3, <2>1
<1> QED
  BY <1>5, <1>6 DEF Begun

\* A step of the model that only moves tasks along, between idle and joined.
LEMMA TasksMoved ==
    ASSUME Inv, TypeOK', UNCHANGED <<endpoint, layer, snapshot, vars>>,
           outcome' = "running" => outcome = "running",
           \A s \in Step : task'[s] = "idle" <=> task[s] = "idle",
           \A s \in Step : task'[s] = "joined" <=> task[s] = "joined"
    PROVE  LayerInv' /\ SnapshotInv'
<1> USE DEF Inv, ExecInv
<1>1. \A s \in Step : task'[s] = "joined" <=> s \in Bound(vars')
  BY DEF LayerInv
<1>2. LayerInv'
  BY <1>1, LayerKept
<1>3. Begun' = Begun
  BY DEF Begun
<1>4. Executing' => Executing /\ Current' = Current
  BY DEF Executing, Current
<1> QED
  BY <1>2, <1>3, <1>4 DEF SnapshotInv

\* A value handed over is never empty, so its variable is set.
LEMMA HandedOver ==
    ASSUME TypeOK, NEW s \in Step, vars' = [vars EXCEPT ![s] = ValueOn(s, snapshot)]
    PROVE  Bound(vars') = Bound(vars) \cup {s}
<1>1. vars'[s] # {}
  BY DEF ValueOn, TypeOK, Values
<1>2. \A t \in Step \ {s} : vars'[t] = vars[t]
  BY DEF TypeOK, Values
<1> QED
  BY <1>1, <1>2 DEF Bound

\* The step that hands over the last value of its layer.
LEMMA LastHandedOver ==
    ASSUME Inv, TypeOK', Executing, NEW s \in Current, task[s] # "joined",
           \A t \in Current \ {s} : task[t] = "joined",
           vars' = [vars EXCEPT ![s] = ValueOn(s, snapshot)],
           task' = [task EXCEPT ![s] = "joined"],
           layer' = layer + 1, UNCHANGED <<endpoint, snapshot, outcome>>
    PROVE  LayerInv' /\ SnapshotInv'
<1> USE DEF Inv, ExecInv
<1>1. s \in Step
  BY CurrentFacts
<1>2. Bound(vars') = Bound(vars) \cup {s}
  BY <1>1, HandedOver
<1>3. \A t \in Step : task'[t] = IF t = s THEN "joined" ELSE task[t]
  BY <1>1 DEF TypeOK
<1>4. \A t \in Step : task[t] = "joined" <=> t \in Bound(vars)
  BY DEF LayerInv
<1>5. \A t \in Step : task'[t] = "joined" <=> t \in Bound(vars')
  BY <1>2, <1>3, <1>4
<1>6. \A t \in Current : task'[t] = "joined"
  BY <1>3, CurrentFacts
<1>7. \A t \in Step \ Current : task'[t] = task[t]
  BY <1>3
<1>8. LayerInv' /\ (Executing' => Current' \cap Begun' = {})
  BY <1>3, <1>5, <1>6, <1>7, LayerEnded
<1>9. s \notin Bound(snapshot)
  BY <1>1, <1>4 DEF SnapshotInv
<1>10. \A t \in Bound(snapshot) : t \in Step /\ vars'[t] = vars[t]
  BY <1>1, <1>9 DEF Bound, TypeOK, Values
<1>11. Bound(snapshot') \subseteq Bound(vars') /\ \A t \in Bound(snapshot') : snapshot'[t] = vars'[t]
  BY <1>2, <1>10 DEF SnapshotInv
<1> QED
  BY <1>8, <1>11 DEF SnapshotInv

\* One step of a layer hands over its value; its layer may go on.
LEMMA JoinTaskKeeps ==
    ASSUME Inv, TypeOK', NEW s \in Step, JoinTask(s)
    PROVE  LayerInv' /\ SnapshotInv' /\ EndInv'
<1> USE DEF Inv, ExecInv
<1>1. Executing /\ task[s] = "ok" /\ outcome = "running" /\ s \in Current
  BY InProgressIsCurrent DEF JoinTask, Executing, Current
<1>2. EndInv'
  BY <1>1 DEF JoinTask, EndInv
<1>3. CASE LayerJoined(s)
  <2>1. LayerInv' /\ SnapshotInv'
    BY <1>1, <1>3, LastHandedOver DEF JoinTask, LayerJoined
  <2> QED
    BY <1>2, <2>1
<1>4. CASE ~LayerJoined(s)
  <2>1. Bound(vars') = Bound(vars) \cup {s}
    BY HandedOver DEF JoinTask
  <2>2. \A t \in Step : task'[t] = IF t = s THEN "joined" ELSE task[t]
    BY DEF JoinTask, TypeOK
  <2>3. \A t \in Step : task[t] = "joined" <=> t \in Bound(vars)
    BY DEF LayerInv
  <2>4. \A t \in Step : task'[t] = "joined" <=> t \in Bound(vars')
    BY <2>1, <2>2, <2>3
  <2>5. UNCHANGED <<endpoint, layer, snapshot, outcome>>
    BY <1>4 DEF JoinTask
  <2>6. LayerInv'
    BY <1>1, <2>2, <2>4, <2>5, LayerKept
  <2>7. s \notin Bound(snapshot)
    BY <1>1, <2>3 DEF SnapshotInv
  <2>8. \A t \in Bound(snapshot) : vars'[t] = vars[t]
    BY <2>7 DEF Bound, TypeOK, Values, JoinTask
  <2>9. PICK t \in Current \ {s} : task[t] # "joined"
    BY <1>4 DEF LayerJoined
  <2>10. t \in Step /\ t \notin Bound(vars')
    BY <2>1, <2>3, <2>9, <1>1, CurrentFacts
  <2>11. Executing /\ Current \cap Begun # {} /\ Current' = Current
    BY <1>1, <2>5 DEF Begun, Current
  <2>12. \A k \in DOMAIN endpoint.plan : k < layer => endpoint.plan[k] \subseteq Bound(snapshot)
    BY <2>11 DEF SnapshotInv
  <2>13. Bound(snapshot') \subseteq Bound(vars') /\ \A u \in Bound(snapshot') : snapshot'[u] = vars'[u]
    BY <2>1, <2>5, <2>8 DEF SnapshotInv
  <2>14. SnapshotInv'
    BY <2>5, <2>9, <2>10, <2>11, <2>12, <2>13 DEF SnapshotInv
  <2> QED
    BY <1>2, <2>6, <2>14
<1> QED
  BY <1>3, <1>4

\* A layer begins: its steps are handed the variables of the layers above.
LEMMA LayerBegun ==
    ASSUME Inv, TypeOK', Executing, Current # {}, \A s \in Current : task[s] = "idle",
           snapshot' = vars, UNCHANGED <<endpoint, layer, vars, outcome>>,
           \A s \in Step : task'[s] # "joined" \/ task[s] = "joined",
           \A s \in Step \ Current : task'[s] = task[s]
    PROVE  LayerInv' /\ SnapshotInv'
<1> USE DEF Inv, ExecInv
<1>1. \A s \in Step : task[s] = "joined" <=> s \in Bound(vars)
  BY DEF LayerInv
<1>2. \A s \in Step : task[s] = "joined" => s \notin Current
  BY <1>1
<1>3. \A s \in Step : task'[s] = "joined" <=> s \in Bound(vars')
  BY <1>1, <1>2
<1>4. \A s \in Step : task[s] = "joined" => task'[s] = "joined"
  BY <1>2
<1>5. \A s \in Step : task[s] = "idle" /\ task'[s] # "idle" =>
        layer \in DOMAIN endpoint.plan /\ s \in endpoint.plan[layer]
  BY DEF Executing, Current
<1>6. LayerInv'
  BY <1>3, <1>4, <1>5, LayerKept
<1>7. ASSUME NEW k \in DOMAIN endpoint.plan, k < layer
      PROVE  endpoint.plan[k] \subseteq Bound(vars)
  BY <1>1, <1>7, EndpointFacts DEF LayerInv
<1>8. Current' = Current /\ Current \ Bound(vars) # {}
  BY <1>1, <1>2, CurrentFacts DEF Current
<1>9. SnapshotInv'
  BY <1>7, <1>8 DEF SnapshotInv
<1> QED
  BY <1>6, <1>9

\* Dropping the tasks leaves what is joined and what is idle alone.
LEMMA AbortFacts ==
    ASSUME TypeOK, AbortTasks
    PROVE  /\ \A s \in Step : task'[s] \in {"idle", "joined", "aborting", "gone"}
           /\ \A s \in Step : task'[s] = "idle" <=> task[s] = "idle"
           /\ \A s \in Step : task'[s] = "joined" <=> task[s] = "joined"
BY DEF AbortTasks, TypeOK, Status

\* The invariant is inductive.
LEMMA InvStep == ASSUME Inv, [Next]_state PROVE Inv'
<1> USE DEF Inv, ExecInv
<1>1. Served' /\ TypeOK'
  BY TypeStep
<1>2. ASSUME NEW s \in Step, StepNext(s)
      PROVE  LayerInv' /\ SnapshotInv' /\ EndInv'
  <2>1. CASE RunInline(s)
    <3>1. \A t \in Step : task'[t] = IF t = s THEN "running" ELSE task[t]
      BY <2>1 DEF RunInline, TypeOK
    <3>2. LayerInv' /\ SnapshotInv'
      BY <1>1, <2>1, <3>1, LayerBegun DEF RunInline, IsInline
    <3>3. EndInv'
      BY <2>1 DEF RunInline, Executing, EndInv
    <3> QED
      BY <3>2, <3>3
  <2>2. CASE FinishInline(s)
    <3>1. LayerInv' /\ SnapshotInv'
      BY <1>1, <2>2, LastHandedOver DEF FinishInline, IsInline
    <3>2. EndInv'
      BY <2>2 DEF FinishInline, Executing, EndInv
    <3> QED
      BY <3>1, <3>2
  <2>3. CASE FailInline(s)
    <3>1. \A t \in Step : task'[t] = IF t = s THEN "gone" ELSE task[t]
      BY <2>3 DEF FailInline, TypeOK
    <3>2. LayerInv' /\ SnapshotInv'
      BY <1>1, <2>3, <3>1, TasksMoved DEF FailInline
    <3>3. \A t \in Step \ {s} : task[t] \in {"idle", "joined"}
      <4>1. SUFFICES ASSUME NEW t \in Step \ {s}, task[t] \notin {"idle", "joined"} PROVE FALSE
        OBVIOUS
      <4>2. t \in Current
        BY <4>1, InProgressIsCurrent DEF Current
      <4> QED
        BY <2>3, <4>1, <4>2 DEF FailInline, IsInline
    <3>4. EndInv'
      BY <3>1, <3>3 DEF EndInv
    <3> QED
      BY <3>2, <3>4
  <2>4. CASE StartTask(s) \/ TaskAborted(s)
    <3>1. \A t \in Step : t # s => task'[t] = task[t]
      BY <2>4 DEF StartTask, TaskAborted, TypeOK
    <3>2. /\ task[s] \in {"spawned", "aborting"} /\ task'[s] \in {"running", "gone"}
          /\ task[s] = "aborting" => task'[s] = "gone"
      BY <2>4 DEF StartTask, TaskAborted, TypeOK
    <3>3. LayerInv' /\ SnapshotInv'
      BY <1>1, <2>4, <3>1, <3>2, TasksMoved DEF StartTask, TaskAborted
    <3>4. EndInv'
      BY <2>4, <3>1, <3>2 DEF EndInv, StartTask, TaskAborted
    <3> QED
      BY <3>3, <3>4
  <2>5. CASE EndTask(s)
    <3>1. /\ \A t \in Step : t # s => task'[t] = task[t]
          /\ task[s] = "running" /\ task'[s] \in {"ok", "err"}
      BY <2>5 DEF EndTask, TypeOK
    <3>2. LayerInv' /\ SnapshotInv'
      BY <1>1, <2>5, <3>1, TasksMoved DEF EndTask
    <3>3. EndInv'
      BY <2>5 DEF EndTask, Executing, EndInv
    <3> QED
      BY <3>2, <3>3
  <2>6. CASE JoinTask(s)
    BY <1>1, <2>6, JoinTaskKeeps
  <2>7. CASE JoinError(s)
    <3>1. LayerInv' /\ SnapshotInv'
      BY <1>1, <2>7, AbortFacts, TasksMoved DEF JoinError
    <3>2. EndInv'
      BY <2>7, AbortFacts DEF JoinError, EndInv
    <3> QED
      BY <3>1, <3>2
  <2> QED
    BY <1>2, <2>1, <2>2, <2>3, <2>4, <2>5, <2>6, <2>7 DEF StepNext
<1>3. CASE SkipEmptyLayer
  <2>1. \A s \in Step : task[s] = "joined" <=> s \in Bound(vars)
    BY DEF LayerInv
  <2>2. LayerInv' /\ (Executing' => Current' \cap Begun' = {})
    BY <1>1, <1>3, <2>1, LayerEnded DEF SkipEmptyLayer
  <2>3. SnapshotInv'
    BY <1>3, <2>2 DEF SkipEmptyLayer, SnapshotInv
  <2>4. EndInv'
    BY <1>3 DEF SkipEmptyLayer, Executing, EndInv
  <2> QED
    BY <1>1, <2>2, <2>3, <2>4
<1>4. CASE SpawnLayer
  <2>1. \A s \in Step : task'[s] = IF s \in Current THEN "spawned" ELSE task[s]
    BY <1>4 DEF SpawnLayer
  <2>2. LayerInv' /\ SnapshotInv'
    BY <1>1, <1>4, <2>1, LayerBegun DEF SpawnLayer
  <2>3. EndInv'
    BY <1>4 DEF SpawnLayer, Executing, EndInv
  <2> QED
    BY <1>1, <2>2, <2>3
<1>5. CASE EvalResponse
  <2>1. LayerInv' /\ SnapshotInv'
    BY <1>1, <1>5, TasksMoved DEF EvalResponse
  <2>2. \A s \in Step : task[s] \in {"idle", "joined"}
    <3>1. layer \notin DOMAIN endpoint.plan
      BY <1>5, EndpointFacts DEF EvalResponse
    <3> QED
      BY <3>1, InProgressIsCurrent
  <2>3. EndInv'
    BY <1>5, <2>2 DEF EvalResponse, EndInv
  <2> QED
    BY <1>1, <2>1, <2>3
<1>6. CASE DropRequest
  <2>1. LayerInv' /\ SnapshotInv'
    BY <1>1, <1>6, AbortFacts, TasksMoved DEF DropRequest
  <2>2. EndInv'
    BY <1>6, AbortFacts DEF DropRequest, EndInv
  <2> QED
    BY <1>1, <2>1, <2>2
<1>7. CASE Done \/ UNCHANGED state
  <2>1. UNCHANGED state
    BY <1>7 DEF Done
  <2>2. LayerInv' /\ SnapshotInv'
    BY <1>1, <2>1, TasksMoved DEF state
  <2>3. EndInv'
    BY <2>1 DEF state, EndInv
  <2> QED
    BY <1>1, <2>2, <2>3
<1> QED
  BY <1>1, <1>2, <1>3, <1>4, <1>5, <1>6, <1>7 DEF Next

-----------------------------------------------------------------------------

LEMMA InitInv == Init => Inv
<1> SUFFICES ASSUME Init PROVE Inv
  OBVIOUS
<1>1. Served
  BY DEF Init, Served
<1>2. TypeOK
  BY <1>1, EndpointFacts DEF Init, TypeOK, Values, Status
<1>3. Bound(vars) = {} /\ Bound(snapshot) = {}
  BY DEF Init, Bound
<1>4. LayerInv
  <2>1. ASSUME NEW k \in DOMAIN endpoint.plan
        PROVE  ~(k < layer) /\ \A s \in endpoint.plan[k] : task[s] = "idle"
    <3>1. k \in 1 .. Len(endpoint.plan) /\ endpoint.plan[k] \subseteq Step
      BY <1>1, <2>1, EndpointFacts
    <3> QED
      BY <3>1 DEF Init
  <2>2. \A s \in Step : task[s] = "joined" <=> s \in Bound(vars)
    BY <1>3 DEF Init
  <2> QED
    BY <2>1, <2>2 DEF LayerInv
<1>5. SnapshotInv /\ EndInv
  BY <1>3 DEF Init, SnapshotInv, EndInv, Begun
<1> QED
  BY <1>1, <1>2, <1>4, <1>5 DEF Inv, ExecInv

\* Layers, snapshots and outcomes stay consistent with the tasks, for every
\* interleaving of tasks, errors and disconnections.
THEOREM Invariance == Spec => [](Served /\ TypeOK /\ ExecInv)
<1>1. Spec => []Inv
  BY InitInv, InvStep, PTL DEF Spec
<1> QED
  BY <1>1, PTL DEF Inv

\* The request's variables, layers and tasks have their types.
THEOREM TypeCorrect == Spec => []TypeOK
BY Invariance, PTL

\* No step begins before every step of the layers above its own has handed over
\* its value.
LEMMA InvLayersInOrder == Inv => LayersInOrder
<1> SUFFICES ASSUME Inv, NEW j \in DOMAIN endpoint.plan, NEW k \in DOMAIN endpoint.plan,
                    j < k, NEW t \in endpoint.plan[k], t \in Begun,
                    NEW s \in endpoint.plan[j]
             PROVE  s \in Bound(vars)
  BY DEF LayersInOrder
<1> USE DEF Inv, ExecInv
<1>1. j \in Nat /\ k \in Nat /\ layer \in Nat
  BY EndpointFacts DEF TypeOK
<1>2. ~(k > layer)
  BY DEF LayerInv, Begun
<1>3. task[s] = "joined"
  BY <1>1, <1>2 DEF LayerInv
<1>4. s \in Step
  BY EndpointFacts
<1> QED
  BY <1>3, <1>4 DEF LayerInv

\* The tasks of a layer run in any order, and still no step begins before the
\* layers above it are complete.
THEOREM LayersAreInOrder == Spec => []LayersInOrder
<1>1. Spec => []Inv
  BY Invariance, PTL DEF Inv
<1> QED
  BY <1>1, InvLayersInOrder, PTL

\* `sync` parts the steps of a request at run time: what is behind a boundary
\* waits for everything before it, for any endpoint.
THEOREM SyncIsHonoured == Spec => []SyncStepsWait
<1>1. Inv => SyncStepsWait
  <2> SUFFICES ASSUME Inv, NEW s \in Step, NEW t \in Step,
                      Parted(endpoint.sync, s, t), t \in Begun
               PROVE  s \in Bound(vars)
    BY DEF SyncStepsWait
  <2>1. PICK j \in DOMAIN endpoint.plan : s \in endpoint.plan[j]
    BY EndpointFacts DEF Inv, PlacesEachStepOnce
  <2>2. PICK k \in DOMAIN endpoint.plan : t \in endpoint.plan[k]
    BY EndpointFacts DEF Inv, PlacesEachStepOnce
  <2>3. j < k
    BY <2>1, <2>2, EndpointFacts DEF Inv, PartsSteps
  <2> QED
    BY <2>1, <2>2, <2>3, InvLayersInOrder DEF LayersInOrder
<1>2. Spec => []Inv
  BY Invariance, PTL DEF Inv
<1> QED
  BY <1>1, <1>2, PTL

\* A step of the layer being executed has everything it reads in its snapshot,
\* when the plan carries the reads.
LEMMA SnapshotHoldsReads ==
    ASSUME Inv, Carried, NEW s \in Step, task[s] \in {"running", "ok", "err"}
    PROVE  /\ Executing /\ s \in Current
           /\ endpoint.reads[s] \subseteq Bound(snapshot)
           /\ s \notin Bound(vars)
<1> USE DEF Inv, ExecInv
<1>1. outcome = "running"
  BY DEF EndInv
<1>2. layer \in DOMAIN endpoint.plan /\ s \in endpoint.plan[layer]
  BY InProgressIsCurrent
<1>3. Executing /\ s \in Current /\ s \in Begun
  BY <1>1, <1>2 DEF Executing, Current, Begun
<1>4. \A k \in DOMAIN endpoint.plan : k < layer => endpoint.plan[k] \subseteq Bound(snapshot)
  BY <1>3 DEF SnapshotInv
<1>5. ASSUME NEW d \in endpoint.reads[s] PROVE d \in Bound(snapshot)
  <2>1. PICK j \in 1 .. (layer - 1) : d \in endpoint.plan[j]
    BY <1>2, <1>5 DEF Carried, CarriesReads
  <2>2. j \in DOMAIN endpoint.plan /\ j < layer
    BY <1>3, CurrentFacts, EndpointFacts
  <2> QED
    BY <1>4, <2>1, <2>2
<1>6. s \notin Bound(vars)
  BY DEF LayerInv
<1> QED
  BY <1>3, <1>5, <1>6

\* On a plan that carries the reads, no step is evaluated on a snapshot that
\* lacks a variable it reads.
THEOREM ReadsAreAlwaysBound == Spec => []ReadsAreBound
<1>1. Inv => ReadsAreBound
  BY SnapshotHoldsReads DEF ReadsAreBound
<1>2. Spec => []Inv
  BY Invariance, PTL DEF Inv
<1> QED
  BY <1>1, <1>2, PTL

\* What was answered stays answered: no late task begins, or changes a variable
\* or the outcome, once the request has one.
THEOREM NothingHappensAfterTheEnd == Spec => NothingAfterTheEnd
<1>1. ASSUME Inv, [Next]_state, outcome # "running"
      PROVE  /\ UNCHANGED <<vars, outcome, culprit>>
             /\ \A s \in Step : task'[s] = "running" => task[s] = "running"
  <2>1. CASE UNCHANGED state
    BY <2>1 DEF state
  <2>2. CASE Next
    <3>1. \A s \in Step : task[s] \in {"idle", "joined", "aborting", "gone"}
      BY <1>1 DEF Inv, ExecInv, EndInv
    <3>2. ~Executing
      BY <1>1 DEF Executing
    <3>3. (\E s \in Step : TaskAborted(s)) \/ UNCHANGED state
      BY <1>1, <2>2, <3>1, <3>2
      DEF Next, StepNext, RunInline, FinishInline, FailInline, StartTask, EndTask, JoinTask,
          JoinError, SkipEmptyLayer, SpawnLayer, EvalResponse, DropRequest, Done
    <3>4. ASSUME NEW s \in Step, TaskAborted(s)
          PROVE  /\ UNCHANGED <<vars, outcome, culprit>>
                 /\ \A t \in Step : task'[t] = "running" => task[t] = "running"
      BY <1>1, <3>4 DEF TaskAborted, Inv, TypeOK
    <3> QED
      BY <2>1, <3>3, <3>4
  <2> QED
    BY <1>1, <2>1, <2>2
<1>2. Inv /\ [Next]_state =>
        [outcome # "running" =>
           /\ UNCHANGED <<vars, outcome, culprit>>
           /\ \A s \in Step : task'[s] = "running" => task[s] = "running"]_state
  BY <1>1
<1>3. Spec => []Inv
  BY Invariance, PTL DEF Inv
<1> QED
  BY <1>2, <1>3, PTL DEF Spec, NothingAfterTheEnd

-----------------------------------------------------------------------------
(* Progress.                                                               *)

\* Dropping the tasks takes each of them further, or leaves it where it is.
LEMMA AbortIsProgress ==
    ASSUME TypeOK, AbortTasks, NEW s \in Step
    PROVE  task'[s] = task[s] \/ Far(task[s]) < Far(task'[s])
<1>1. CASE task[s] \in {"spawned", "ok", "err"} \/ (task[s] = "running" /\ IsInline(s))
  BY <1>1 DEF AbortTasks, Far
<1>2. CASE task[s] = "running" /\ ~IsInline(s)
  BY <1>2 DEF AbortTasks, Far
<1>3. CASE task[s] \notin {"spawned", "ok", "err", "running"}
  BY <1>3 DEF AbortTasks
<1> QED
  BY <1>1, <1>2, <1>3

\* Progress: whatever the schedule, no step of a request is begun again, no layer is
\* gone back to, and every step of the model takes the request on.
THEOREM RequestsMoveOn == Spec => EveryStepIsProgress
<1> DEFINE Further ==
             /\ \A s \in Step : task'[s] = task[s] \/ Far(task[s]) < Far(task'[s])
             /\ layer' \in {layer, layer + 1}
             /\ outcome' = outcome \/ outcome = "running"
             /\ task' # task \/ layer' # layer \/ outcome' # outcome
<1>1. ASSUME TypeOK, NEW s \in Step, task'[s] # task[s], Far(task[s]) < Far(task'[s]),
             \A t \in Step \ {s} : task'[t] = task[t],
             layer' \in {layer, layer + 1}, outcome' = outcome \/ outcome = "running"
      PROVE  Further
  BY <1>1
<1>2. ASSUME Inv, NEW s \in Step, StepNext(s) PROVE Further
  <2> USE <1>2 DEF Inv
  <2>0. task \in [Step -> Status]
    BY DEF TypeOK
  <2>1. CASE RunInline(s) \/ FinishInline(s) \/ FailInline(s) \/ StartTask(s) \/ EndTask(s)
             \/ JoinTask(s) \/ TaskAborted(s)
    <3>1. \A t \in Step \ {s} : task'[t] = task[t]
      BY <2>0, <2>1 DEF RunInline, FinishInline, FailInline, StartTask, EndTask, JoinTask, TaskAborted
    <3>2. <<task[s], task'[s]>> \in {<<"idle", "running">>, <<"running", "joined">>,
             <<"running", "gone">>, <<"spawned", "running">>, <<"running", "ok">>,
             <<"running", "err">>, <<"ok", "joined">>, <<"aborting", "gone">>}
      BY <2>0, <2>1 DEF RunInline, FinishInline, FailInline, StartTask, EndTask, JoinTask, TaskAborted
    <3>3. task'[s] # task[s] /\ Far(task[s]) < Far(task'[s])
      BY <3>2 DEF Far
    <3>4. layer' \in {layer, layer + 1} /\ (outcome' = outcome \/ outcome = "running")
      BY <2>1 DEF RunInline, FinishInline, FailInline, StartTask, EndTask, JoinTask, TaskAborted, Executing
    <3> QED
      BY <1>1, <3>1, <3>3, <3>4
  <2>2. CASE JoinError(s)
    BY <2>2, AbortIsProgress DEF JoinError, Executing
  <2> QED
    BY <2>1, <2>2 DEF StepNext
<1>3. ASSUME Inv, SkipEmptyLayer PROVE Further
  BY <1>3, CurrentFacts DEF SkipEmptyLayer, Inv
<1>4. ASSUME Inv, SpawnLayer PROVE Further
  <2> USE <1>4 DEF SpawnLayer, Inv
  <2>1. \A t \in Step : task'[t] = task[t] \/ Far(task[t]) < Far(task'[t])
    BY DEF Far
  <2>2. PICK s \in Current : s \in Step
    BY CurrentFacts
  <2>3. task[s] = "idle" /\ task'[s] = "spawned"
    BY <2>2
  <2> QED
    BY <2>1, <2>3
<1>5. ASSUME Inv, EvalResponse \/ DropRequest PROVE Further
  BY <1>5, AbortIsProgress DEF EvalResponse, DropRequest, Executing, Inv
<1>6. Inv /\ [Next]_state => [Further]_state
  <2> HIDE DEF Further
  <2> QED
    BY <1>2, <1>3, <1>4, <1>5 DEF Next, Done
<1>7. Spec => []Inv
  BY Invariance, PTL DEF Inv
<1> QED
  BY <1>6, <1>7, PTL DEF Spec, EveryStepIsProgress

-----------------------------------------------------------------------------
(* The values the layers compute are the endpoint's.                       *)

\* The origins of a step take in what every one of them reads from above.
LEMMA OriginsClosed ==
    ASSUME Served, NEW s \in Step
    PROVE  /\ s \in Origins(s) /\ Origins(s) \subseteq Step
           /\ \A r \in Origins(s) : ReadsAbove(r) \subseteq Origins(s)
<1>1. \A r \in Step : ReadsAbove(r) \subseteq Step
  BY EndpointFacts DEF ReadsAbove, Graphs
<1> QED
  BY <1>1 DEF Origins

\* A step's value comes from the step and the origins of what it reads from above.
LEMMA OriginsUnfold ==
    ASSUME Served, NEW s \in Step
    PROVE  Origins(s) = {s} \cup UNION {Origins(d) : d \in ReadsAbove(s)}
<1> DEFINE U == {s} \cup UNION {Origins(d) : d \in ReadsAbove(s)}
<1>1. ReadsAbove(s) \subseteq Step
  BY OriginsClosed
<1>2. U \subseteq Step /\ s \in U
  BY <1>1, OriginsClosed
<1>3. ASSUME NEW r \in U PROVE ReadsAbove(r) \subseteq U
  <2>1. CASE r = s
    BY <1>1, <2>1, OriginsClosed
  <2>2. CASE r # s
    <3>1. PICK d \in ReadsAbove(s) : r \in Origins(d)
      BY <1>3, <2>2
    <3>2. ReadsAbove(r) \subseteq Origins(d)
      BY <1>1, <3>1, OriginsClosed
    <3> QED
      BY <3>1, <3>2
  <2> QED
    BY <2>1, <2>2
<1>4. Origins(s) \subseteq U
  <2> HIDE DEF U
  <2> QED
    BY <1>2, <1>3 DEF Origins
<1>5. ASSUME NEW d \in ReadsAbove(s) PROVE Origins(d) \subseteq Origins(s)
  BY <1>5 DEF Origins
<1>6. U \subseteq Origins(s)
  BY <1>5, OriginsClosed
<1> QED
  BY <1>4, <1>6

\* What decides a value is kept as long as the endpoint is.
LEMMA OriginsKept ==
    ASSUME endpoint' = endpoint
    PROVE  \A s \in Step : Origins(s)' = Origins(s)
BY DEF Origins, ReadsAbove

\* The steps of the layer being executed are not among the variables they are
\* evaluated on, so one that reads another of them finds nothing.
SnapshotIsAbove == Executing /\ Current \cap Begun # {} => Bound(snapshot) \cap Current = {}

DeterminedInv == ValuesAreDetermined /\ SnapshotIsAbove

\* A step evaluated on its snapshot gets the value its origins make.
LEMMA ValueHasOrigins ==
    ASSUME Inv, DeterminedInv, Executing, NEW s \in Current, task[s] \in {"running", "ok"}
    PROVE  ValueOn(s, snapshot) = Origins(s)
<1> USE DEF Inv, ExecInv
<1>1. /\ s \in Step /\ layer \in DOMAIN endpoint.plan /\ s \in endpoint.plan[layer]
      /\ Current \cap Begun # {}
  BY CurrentFacts DEF Executing, Current, Begun
<1>2. \A k \in DOMAIN endpoint.plan : k < layer => endpoint.plan[k] \subseteq Bound(snapshot)
  BY <1>1 DEF SnapshotInv
<1>3. ASSUME NEW d \in ReadsAbove(s)
      PROVE  d \in endpoint.reads[s] /\ snapshot[d] = Origins(d)
  <2>1. PICK j, k \in DOMAIN endpoint.plan : j < k /\ d \in endpoint.plan[j] /\ s \in endpoint.plan[k]
    BY <1>3 DEF ReadsAbove
  <2>2. k = layer
    BY <1>1, <2>1, EndpointFacts DEF PlacesEachStepOnce
  <2>3. d \in Bound(snapshot)
    BY <1>2, <2>1, <2>2
  <2>4. d \in Bound(vars) /\ snapshot[d] = vars[d]
    BY <2>3 DEF SnapshotInv
  <2> QED
    BY <2>4 DEF DeterminedInv, ValuesAreDetermined, ReadsAbove
<1>4. ASSUME NEW d \in endpoint.reads[s], d \notin ReadsAbove(s)
      PROVE  snapshot[d] = {}
  <2>1. d \in Step
    BY <1>1, EndpointFacts DEF Graphs
  <2>2. PICK j \in DOMAIN endpoint.plan : d \in endpoint.plan[j]
    BY <2>1, EndpointFacts DEF PlacesEachStepOnce
  <2>3. ~(j < layer)
    BY <1>1, <1>4, <2>2 DEF ReadsAbove
  <2>4. j \in Nat /\ layer \in Nat
    BY <1>1, EndpointFacts
  <2>5. CASE j = layer
    BY <1>1, <2>1, <2>2, <2>5 DEF DeterminedInv, SnapshotIsAbove, Current, Bound
  <2>6. CASE j > layer
    BY <2>1, <2>2, <2>6 DEF LayerInv, SnapshotInv, Bound
  <2> QED
    BY <2>3, <2>4, <2>5, <2>6
<1>5. UNION {snapshot[d] : d \in endpoint.reads[s]} = UNION {Origins(d) : d \in ReadsAbove(s)}
  BY <1>3, <1>4
<1> QED
  BY <1>1, <1>5, OriginsUnfold DEF ValueOn

\* Handing over the value of a step of the layer keeps the values determined.
LEMMA HandOverDetermined ==
    ASSUME Inv, DeterminedInv, Executing, NEW s \in Current, task[s] \in {"running", "ok"},
           vars' = [vars EXCEPT ![s] = ValueOn(s, snapshot)],
           UNCHANGED <<endpoint, outcome>>
    PROVE  ValuesAreDetermined'
<1> USE DEF Inv
<1>1. s \in Step
  BY CurrentFacts
<1>2. vars'[s] = Origins(s)
  BY <1>1, ValueHasOrigins DEF TypeOK, Values
<1>3. \A t \in Step \ {s} : vars'[t] = vars[t]
  BY DEF TypeOK, Values
<1>4. ASSUME NEW t \in Step, vars'[t] # {} PROVE vars'[t] = Origins(t)
  BY <1>2, <1>3, <1>4 DEF DeterminedInv, ValuesAreDetermined, Bound
<1>5. \A t \in Step : Origins(t)' = Origins(t)
  BY OriginsKept
<1>6. \A t \in Bound(vars') : vars'[t] = Origins(t)'
  BY <1>4, <1>5 DEF Bound
<1>7. outcome' # "responded"
  BY DEF Executing
<1> QED
  BY <1>6, <1>7 DEF ValuesAreDetermined

\* The layer is over, and nothing of the next one has begun.
LEMMA NextLayerIdle ==
    ASSUME Inv, Executing, UNCHANGED endpoint, layer' = layer + 1,
           \A t \in Step \ Current : task'[t] = task[t]
    PROVE  SnapshotIsAbove'
<1> SUFFICES ASSUME Executing', NEW t \in Current' PROVE t \notin Begun'
  BY DEF SnapshotIsAbove
<1>1. layer + 1 \in DOMAIN endpoint.plan /\ t \in endpoint.plan[layer + 1]
  BY DEF Executing, Current
<1>2. layer \in Nat /\ layer + 1 > layer /\ layer + 1 # layer
  BY DEF Inv, TypeOK, Executing
<1>3. task[t] = "idle"
  BY <1>1, <1>2 DEF Inv, ExecInv, LayerInv
<1>4. t \notin Current
  BY <1>1, <1>2, CurrentFacts DEF Inv
<1> QED
  BY <1>3, <1>4 DEF Begun

LEMMA DeterminedStep == ASSUME Inv, DeterminedInv, [Next]_state PROVE DeterminedInv'
<1> USE DEF Inv, ExecInv
<1>1. endpoint' = endpoint
  BY EndpointKept
<1>2. ASSUME UNCHANGED vars, outcome' = "responded" => Bound(vars) = Step
      PROVE  ValuesAreDetermined'
  <2>1. \A t \in Bound(vars) : vars[t] = Origins(t) /\ t \in Step
    BY DEF DeterminedInv, ValuesAreDetermined, Bound
  <2>2. \A t \in Bound(vars) : vars[t] = Origins(t)'
    BY <1>1, <2>1, OriginsKept
  <2>3. Bound(vars') = Bound(vars)
    BY <1>2
  <2> QED
    BY <1>2, <2>2, <2>3 DEF ValuesAreDetermined
<1>3. ASSUME UNCHANGED <<vars, outcome>> PROVE ValuesAreDetermined'
  BY <1>2, <1>3 DEF DeterminedInv, ValuesAreDetermined
<1>4. ASSUME UNCHANGED <<layer, snapshot>>,
             Executing' => Executing,
             \A t \in Step : task[t] = "idle" => task'[t] = "idle"
      PROVE  SnapshotIsAbove'
  <2>1. Current' = Current /\ Begun' \subseteq Begun /\ Bound(snapshot') = Bound(snapshot)
    BY <1>1, <1>4 DEF Current, Begun
  <2> QED
    BY <1>4, <2>1 DEF DeterminedInv, SnapshotIsAbove
<1>5. ASSUME Executing, UNCHANGED <<layer, outcome>>, snapshot' = vars,
             \A t \in Current : task[t] = "idle"
      PROVE  SnapshotIsAbove'
  <2>1. Current' = Current /\ Bound(snapshot') = Bound(vars)
    BY <1>1, <1>5 DEF Current
  <2>2. \A t \in Current : t \notin Bound(vars)
    BY <1>5, CurrentFacts DEF LayerInv
  <2> QED
    BY <2>1, <2>2 DEF SnapshotIsAbove
<1>6. ASSUME NEW s \in Step, StepNext(s) PROVE DeterminedInv'
  <2>1. CASE RunInline(s)
    BY <1>3, <1>5, <2>1 DEF RunInline, IsInline, DeterminedInv
  <2>2. CASE FinishInline(s) \/ (JoinTask(s) /\ LayerJoined(s))
    <3>1. Executing /\ task[s] \in {"running", "ok"} /\ s \in Current
      BY <2>2, InProgressIsCurrent DEF FinishInline, JoinTask, Executing, Current
    <3>2. ValuesAreDetermined'
      BY <2>2, <3>1, HandOverDetermined DEF FinishInline, JoinTask
    <3>3. SnapshotIsAbove'
      BY <1>1, <2>2, <3>1, NextLayerIdle DEF FinishInline, JoinTask, TypeOK
    <3> QED
      BY <3>2, <3>3 DEF DeterminedInv
  <2>3. CASE JoinTask(s) /\ ~LayerJoined(s)
    <3>1. Executing /\ task[s] = "ok" /\ s \in Current
      BY <2>3, InProgressIsCurrent DEF JoinTask, Executing, Current
    <3>2. ValuesAreDetermined'
      BY <2>3, <3>1, HandOverDetermined DEF JoinTask
    <3>3. SnapshotIsAbove'
      BY <1>4, <2>3, <3>1 DEF JoinTask, TypeOK
    <3> QED
      BY <3>2, <3>3 DEF DeterminedInv
  <2>4. CASE StartTask(s) \/ EndTask(s) \/ TaskAborted(s)
    <3>1. UNCHANGED <<vars, outcome, layer, snapshot>> /\ (Executing' => Executing)
      BY <1>1, <2>4 DEF StartTask, EndTask, TaskAborted, Executing
    <3>2. \A t \in Step : task[t] = "idle" => task'[t] = "idle"
      BY <2>4 DEF StartTask, EndTask, TaskAborted, TypeOK
    <3> QED
      BY <1>3, <1>4, <3>1, <3>2 DEF DeterminedInv
  <2>5. CASE FailInline(s) \/ JoinError(s)
    <3>1. UNCHANGED vars /\ outcome' = "failed"
      BY <2>5 DEF FailInline, JoinError
    <3> QED
      BY <1>2, <3>1 DEF DeterminedInv, SnapshotIsAbove, Executing
  <2> QED
    BY <1>6, <2>1, <2>2, <2>3, <2>4, <2>5 DEF StepNext
<1>7. CASE SkipEmptyLayer
  BY <1>1, <1>3, <1>7, NextLayerIdle DEF SkipEmptyLayer, DeterminedInv
<1>8. CASE SpawnLayer
  BY <1>3, <1>5, <1>8 DEF SpawnLayer, DeterminedInv
<1>9. CASE EvalResponse
  <2>1. \A k \in DOMAIN endpoint.plan : k < layer
    BY <1>9, EndpointFacts DEF EvalResponse
  <2>2. Bound(vars) = Step
    BY <2>1, EndpointFacts DEF PlacesEachStepOnce, LayerInv, Bound
  <2>3. ValuesAreDetermined' /\ ~Executing'
    BY <1>2, <1>9, <2>2 DEF EvalResponse, Executing
  <2> QED
    BY <2>3 DEF DeterminedInv, SnapshotIsAbove
<1>10. CASE DropRequest
  BY <1>2, <1>10 DEF DropRequest, DeterminedInv, SnapshotIsAbove, Executing
<1>11. CASE Done \/ UNCHANGED state
  <2>1. UNCHANGED state
    BY <1>11 DEF Done
  <2>2. DeterminedInv'
    BY <1>3, <1>4, <2>1 DEF state, DeterminedInv, Executing
  <2> QED
    BY <2>2
<1> QED
  BY <1>6, <1>7, <1>8, <1>9, <1>10, <1>11 DEF Next

\* Layers, snapshots and the order of the joins leave no trace in a value: each
\* variable holds what the endpoint alone makes of it, also across `sync` blocks
\* that defer what a step reads, and a response is built from every one of them.
THEOREM ValuesAreTheEndpoints == Spec => []ValuesAreDetermined
<1>1. Init => DeterminedInv
  BY DEF Init, DeterminedInv, ValuesAreDetermined, SnapshotIsAbove, Bound
<1>2. Inv /\ DeterminedInv /\ [Next]_state => DeterminedInv'
  BY DeterminedStep
<1>3. Spec => []Inv
  BY Invariance, PTL DEF Inv
<1>4. DeterminedInv => ValuesAreDetermined
  BY DEF DeterminedInv
<1> QED
  BY <1>1, <1>2, <1>3, <1>4, PTL DEF Spec

-----------------------------------------------------------------------------
(* The refinement of Dataflow.                                             *)

\* A step evaluated on its snapshot gets the value the promise gives it.
LEMMA SnapshotValue ==
    ASSUME Inv, Carried, NEW s \in Step, task[s] \in {"running", "ok", "err"}
    PROVE  ValueOn(s, snapshot) = Flow!ValueOn(s, endpoint.reads, vars)
<1>1. endpoint.reads[s] \subseteq Bound(snapshot)
  BY SnapshotHoldsReads
<1>2. \A d \in endpoint.reads[s] : snapshot[d] = vars[d]
  BY <1>1 DEF Inv, ExecInv, SnapshotInv
<1>3. {snapshot[d] : d \in endpoint.reads[s]} = {vars[d] : d \in endpoint.reads[s]}
  BY <1>2
<1> QED
  BY <1>3 DEF ValueOn, Flow!ValueOn

\* On a plan that carries the reads, a step of the model is a step of the
\* promise or changes nothing of it.
LEMMA CarriedStep ==
    ASSUME Inv, Carried, Carried', [Next]_state
    PROVE  [Flow!FlowNext]_(Flow!flow)
<1> USE DEF Inv, Flow!Step, Step, Flow!Bound
<1>1. Flow!Bound(vars) = Bound(vars)
  BY DEF Bound
<1>2. ASSUME NEW s \in Step, task[s] \in {"running", "ok", "err"}
      PROVE  outcome = "running" /\ Flow!Ready(s)
  <2>1. endpoint.reads[s] \subseteq Bound(vars)
    BY <1>2, SnapshotHoldsReads DEF ExecInv, SnapshotInv
  <2> QED
    BY <1>2, <2>1, SnapshotHoldsReads DEF Flow!Ready, Bound, Executing
<1>3. ASSUME NEW s \in Step, FinishInline(s) \/ JoinTask(s) PROVE Flow!Finish(s)
  <2>1. task[s] \in {"running", "ok"} /\ UNCHANGED <<endpoint, culprit, outcome>>
    BY <1>3 DEF FinishInline, JoinTask
  <2>2. vars' = [vars EXCEPT ![s] = Flow!ValueOn(s, endpoint.reads, vars)]
    BY <1>3, <2>1, SnapshotValue DEF FinishInline, JoinTask
  <2> QED
    BY <1>2, <2>1, <2>2 DEF Flow!Finish
<1>4. ASSUME NEW s \in Step, FailInline(s) \/ JoinError(s) PROVE Flow!Fail(s)
  <2>1. task[s] \in {"running", "err"} /\ UNCHANGED <<endpoint, vars>>
        /\ culprit' = {s} /\ outcome' = "failed"
    BY <1>4 DEF FailInline, JoinError
  <2> QED
    BY <1>2, <2>1 DEF Flow!Fail
<1>5. ASSUME EvalResponse PROVE Flow!Respond
  <2>1. \A k \in DOMAIN endpoint.plan : k < layer
    BY <1>5, EndpointFacts DEF EvalResponse
  <2>2. \A s \in Step : task[s] = "joined"
    BY <2>1, EndpointFacts DEF PlacesEachStepOnce, ExecInv, LayerInv
  <2>3. Bound(vars) = Step
    BY <2>2 DEF ExecInv, LayerInv, Bound
  <2> QED
    BY <1>5, <2>3 DEF EvalResponse, Flow!Respond, Bound
<1>6. ASSUME DropRequest PROVE Flow!Drop
  BY <1>6 DEF DropRequest, Executing, Flow!Drop
<1>7. ASSUME \/ \E s \in Step : RunInline(s) \/ StartTask(s) \/ EndTask(s) \/ TaskAborted(s)
             \/ SkipEmptyLayer \/ SpawnLayer \/ Done \/ UNCHANGED state
      PROVE  UNCHANGED Flow!flow
  BY <1>7 DEF RunInline, StartTask, EndTask, TaskAborted, SkipEmptyLayer, SpawnLayer, Done,
              state, Flow!flow
<1> QED
  BY <1>3, <1>4, <1>5, <1>6, <1>7 DEF Next, StepNext, Flow!FlowNext

\* Layers, snapshots, tasks, aborts: whatever the schedule, a request whose plan
\* carries the reads behaves as the dataflow promise says.
THEOREM Implementation == Spec => ImplementsDataflow
<1>1. Init => Flow!FlowInit
  <2> SUFFICES ASSUME Init PROVE Flow!FlowInit
    OBVIOUS
  <2>1. endpoint.reads \in Graphs /\ ~HasCycle(endpoint.reads)
    BY InitInv, EndpointFacts DEF Inv
  <2>2. endpoint.reads \in {graph \in Flow!Graphs : ~Flow!HasCycle(graph)}
    BY <2>1 DEF Graphs, Flow!Graphs, HasCycle, Flow!HasCycle, Step, Flow!Step
  <2> QED
    BY <2>2 DEF Init, Flow!FlowInit, Step, Flow!Step
<1>2. ASSUME Inv, [Next]_state PROVE [Flow!FlowNext]_(Flow!flow)
  <2>1. Carried' = Carried /\ endpoint' = endpoint
    BY <1>2, EndpointKept DEF Carried
  <2>2. CASE Carried
    BY <1>2, <2>1, <2>2, CarriedStep
  <2>3. CASE ~Carried
    BY <2>1, <2>3 DEF Flow!flow
  <2> QED
    BY <2>2, <2>3
<1>3. Spec => []Inv
  BY Invariance, PTL DEF Inv
<1>4. Inv /\ [Next]_state => [Flow!FlowNext]_(Flow!flow)
  BY <1>2
<1> QED
  BY <1>1, <1>3, <1>4, PTL DEF Spec, ImplementsDataflow, Flow!FlowSpec
=============================================================================
