-------------------------- MODULE PlanLayersProofs --------------------------
(***************************************************************************)
(* What PlanLayers establishes for an endpoint with any number of steps,   *)
(* any dependency sets and any sync boundaries.                            *)
(***************************************************************************)
EXTENDS PlanLayers, SequenceTheorems, FiniteSetTheorems, WellFoundedInduction, TLAPS

\* A function on an initial segment of the positions is a sequence.
LEMMA FunctionIsSeq ==
    ASSUME NEW S, NEW n \in Nat, NEW f \in [1 .. n -> S]
    PROVE  f \in Seq(S)
<1>1. f \in UNION {[1 .. m -> S] : m \in Nat}
  OBVIOUS
<1> QED
  BY <1>1, SeqDef, Zenon

\* The innermost call is a frame of the stack.
LEMMA TopIsFrame ==
    ASSUME TypeOK, stack # << >>
    PROVE  Len(stack) \in 1 .. Len(stack) /\ Top \in Frame
BY DEF TypeOK, Top

LEMMA CallsAreFrames ==
    ASSUME TypeOK, NEW i \in Calls
    PROVE  /\ stack[i] \in Frame
           /\ stack[i].step \in Step /\ stack[i].todo \subseteq Step /\ stack[i].depth \in Nat
<1>1. stack[i] \in Frame
  BY ElementOfSeq DEF TypeOK, Calls
<1> QED
  BY <1>1 DEF Frame

\* A new call and a call that goes on leave a stack of frames.
LEMMA EnterTypes ==
    ASSUME TypeOK, NEW s \in Step, Enter(s)
    PROVE  stack' \in Seq(Frame) /\ state' \in [Step -> {"Unvisited", "Visiting", "Visited"}]
<1>1. [step |-> s, todo |-> dependencies[s], depth |-> 0] \in Frame
  BY DEF TypeOK, Graphs, Frame
<1> QED
  BY <1>1 DEF TypeOK, Enter

LEMMA ContinueTypes ==
    ASSUME TypeOK, stack # << >>, NEW frame \in Frame, Continue(frame)
    PROVE  stack' \in Seq(Frame) /\ Len(stack') = Len(stack)
BY TopIsFrame DEF TypeOK, Continue

\* The calls of step_depth hold steps, sets of steps and natural depths; the
\* loops stay inside the arrays they index.
THEOREM TypeCorrect == Spec => []TypeOK
<1> USE NAssumption DEF TypeOK
<1>1. Init => TypeOK
  BY DEF Init, Step
<1>2. TypeOK /\ [Next]_vars => TypeOK'
  <2> SUFFICES ASSUME TypeOK, [Next]_vars
               PROVE  TypeOK'
    OBVIOUS
  <2> USE DEF input, locals
  <2>1. CASE VisitRoot
    <3>1. cursor \in Step /\ cursor + 1 \in 0 .. N
      BY <2>1 DEF VisitRoot, Step
    <3>2. stack' \in Seq(Frame) /\ state' \in [Step -> {"Unvisited", "Visiting", "Visited"}]
      BY <2>1, <3>1, EnterTypes DEF VisitRoot
    <3> QED
      BY <2>1, <3>1, <3>2 DEF VisitRoot
  <2>2. ASSUME NEW d \in Step, FoldDependency(d)
        PROVE  TypeOK'
    <3> DEFINE frame == [step |-> Top.step, todo |-> Top.todo \ {d},
                         depth |-> Larger(Top.depth, depths[d] + 1)]
    <3>1. stack # << >> /\ Continue(frame)
      BY <2>2 DEF FoldDependency, NextDependency
    <3>2. frame \in Frame
      BY <3>1, TopIsFrame DEF Frame, Larger
    <3>3. stack' \in Seq(Frame)
      BY <3>1, <3>2, ContinueTypes
    <3> QED
      BY <2>2, <3>3 DEF FoldDependency
  <2>3. ASSUME NEW d \in Step, Recurse(d)
        PROVE  TypeOK'
    BY <2>3, EnterTypes DEF Recurse
  <2>4. ASSUME NEW d \in Step, FindCycle(d)
        PROVE  TypeOK'
    BY <2>4 DEF FindCycle, NextDependency
  <2>5. CASE Return
    <3>1. Top.step \in Step /\ Top.depth \in Nat
      BY <2>5, TopIsFrame DEF Return, Frame
    <3>2. Pop \in Seq(Frame)
      BY <2>5 DEF Return, Pop
    <3> QED
      BY <2>5, <3>1, <3>2 DEF Return
  <2>6. CASE EndVisits
    BY <2>6 DEF EndVisits
  <2>7. CASE ApplyBoundary
    <3>1. cursor \in Step /\ cursor + 1 \in 0 .. N
      BY <2>7 DEF ApplyBoundary, Step
    <3> QED
      BY <2>7, <3>1 DEF ApplyBoundary, Larger
  <2>8. CASE EndBoundaries
    BY <2>8 DEF EndBoundaries
  <2>9. CASE PlaceStep
    <3>1. cursor \in Step /\ cursor + 1 \in 0 .. N
      BY <2>9 DEF PlaceStep, Step
    <3>2. Larger(Len(layers), depths[cursor] + 1) \in Nat
      BY <3>1 DEF Larger
    <3>3. \A k \in 1 .. Larger(Len(layers), depths[cursor] + 1) :
            (IF k <= Len(layers) THEN layers[k] ELSE {})
              \cup {s \in {cursor} : depths[s] = k - 1} \in SUBSET Step
      BY <3>1, <3>2
    <3>4. layers' \in [1 .. Larger(Len(layers), depths[cursor] + 1) -> SUBSET Step]
      BY <2>9, <3>3 DEF PlaceStep
    <3>5. layers' \in Seq(SUBSET Step)
      BY <3>2, <3>4, FunctionIsSeq
    <3> QED
      BY <2>9, <3>1, <3>5 DEF PlaceStep
  <2>10. CASE EndFill
    BY <2>10 DEF EndFill
  <2>11. CASE UNCHANGED vars
    BY <2>11 DEF vars
  <2> QED
    BY <2>1, <2>2, <2>3, <2>4, <2>5, <2>6, <2>7, <2>8, <2>9, <2>10, <2>11
    DEF Next, Returned
<1> QED
  BY <1>1, <1>2, PTL DEF Spec
-----------------------------------------------------------------------------
(* The inductive invariant.                                                *)

\* What the three stack operations do to each call in progress.
LEMMA PopCalls ==
    ASSUME TypeOK, stack # << >>
    PROVE  /\ Len(Pop) = Len(stack) - 1
           /\ \A i \in 1 .. Len(stack) - 1 : Pop[i] = stack[i]
<1>1. /\ Len(stack) \in Nat /\ Len(stack) > 0
      /\ \A i \in 1 .. Len(stack) - 1 : stack[i] \in Frame
  BY TopIsFrame DEF TypeOK
<1> DEFINE n == Len(stack) - 1
<1>2. n \in Nat /\ \A i \in 1 .. n : stack[i] \in Frame
  BY <1>1
<1>3. /\ Len(SubSeq(stack, 1, n)) = IF 1 <= n THEN n - 1 + 1 ELSE 0
      /\ \A i \in 1 .. (n - 1 + 1) : SubSeq(stack, 1, n)[i] = stack[1 + i - 1]
  <2> HIDE DEF n
  <2> QED
    BY <1>2, SubSeqProperties
<1>4. \A i \in 1 .. n : SubSeq(stack, 1, n)[i] = stack[i]
  <2> TAKE i \in 1 .. n
  <2>1. i \in 1 .. (n - 1 + 1) /\ 1 + i - 1 = i
    BY <1>2
  <2> QED
    BY <1>3, <2>1
<1>5. Len(SubSeq(stack, 1, n)) = n
  <2> HIDE DEF n
  <2> QED
    BY <1>2, <1>3
<1>6. Pop = SubSeq(stack, 1, n)
  BY DEF Pop
<1> HIDE DEF n
<1>7. Len(Pop) = n /\ \A i \in 1 .. n : Pop[i] = stack[i]
  BY <1>4, <1>5, <1>6
<1> QED
  BY <1>7 DEF n

LEMMA EnterCalls ==
    ASSUME TypeOK, NEW s \in Step, Enter(s)
    PROVE  /\ Len(stack') = Len(stack) + 1
           /\ \A i \in Calls : stack'[i] = stack[i]
           /\ stack'[Len(stack) + 1].step = s
           /\ stack'[Len(stack) + 1].todo = dependencies[s]
           /\ stack'[Len(stack) + 1].depth = 0
<1> DEFINE frame == [step |-> s, todo |-> dependencies[s], depth |-> 0]
<1>1. frame \in Frame
  BY DEF TypeOK, Graphs, Frame
<1> QED
  BY <1>1 DEF TypeOK, Enter, Calls

LEMMA ContinueCalls ==
    ASSUME TypeOK, stack # << >>, NEW frame \in Frame, Continue(frame)
    PROVE  /\ Len(stack') = Len(stack)
           /\ \A i \in Calls : stack'[i] = IF i = Len(stack) THEN frame ELSE stack[i]
BY TopIsFrame DEF TypeOK, Continue, Calls

\* Meeting a step whose call is in progress closes a cycle: the steps being
\* visited each read the next one, and the innermost reads the step met.
LEMMA VisitingIsCycle ==
    ASSUME TypeOK, FramesAreVisiting, FramesFollowReads,
           NEW d \in Step, stack # << >>, d \in Top.todo, state[d] = "Visiting"
    PROVE  HasCycle(dependencies)
<1> DEFINE S == {s \in Step : state[s] = "Visiting"}
<1>1. S \in (SUBSET Step) \ {{}}
  OBVIOUS
<1>2. ASSUME NEW s \in S
      PROVE  dependencies[s] \cap S # {}
  <2>1. PICK i \in Calls : stack[i].step = s
    BY DEF FramesAreVisiting
  <2>2. CASE i = Len(stack)
    BY <2>1, <2>2 DEF FramesFollowReads, Top
  <2>3. CASE i # Len(stack)
    <3>1. i + 1 \in Calls
      BY <2>1, <2>3 DEF TypeOK, Calls
    <3>2. stack[i + 1].step \in dependencies[s] /\ state[stack[i + 1].step] = "Visiting"
      BY <2>1, <3>1 DEF FramesFollowReads, FramesAreVisiting
    <3>3. stack[i + 1] \in Frame
      BY <3>1, ElementOfSeq DEF TypeOK, Calls
    <3>4. stack[i + 1].step \in Step
      BY <3>3 DEF Frame
    <3> QED
      BY <3>2, <3>4
  <2> QED
    BY <2>2, <2>3
<1> QED
  BY <1>1, <1>2 DEF HasCycle

LEMMA InitPlanInv == Init => TypeOK /\ PlanInv
<1> USE NAssumption
<1>1. ASSUME Init
      PROVE  TypeOK
  BY <1>1 DEF Init, TypeOK, Step
<1>2. ASSUME Init
      PROVE  PlanInv
  <2>1. VisitInv
    BY <1>2 DEF Init, VisitInv, FramesAreVisiting, FramesFollowReads,
       FramesCountReads, VisitedAboveReads, Calls, Step
  <2> QED
    BY <1>2, <2>1 DEF Init, PlanInv, SyncInv, FillInv, CycleIsReal
<1> QED
  BY <1>1, <1>2

\* A new call is for an unvisited step the innermost call is about to fold.
LEMMA EnterKeeps ==
    ASSUME TypeOK, VisitInv, phase = "visit",
           NEW s \in Step, state[s] = "Unvisited", Enter(s),
           stack = << >> \/ s \in Top.todo,
           UNCHANGED <<dependencies, depths>>
    PROVE  (FramesAreVisiting /\ FramesFollowReads /\ FramesCountReads /\ VisitedAboveReads)'
<1> DEFINE n == Len(stack)
<1>1. n \in Nat /\ Calls = 1 .. n /\ Calls' = 1 .. (n + 1) /\ Len(stack') = n + 1
  BY EnterCalls DEF TypeOK, Calls
<1>2. \A i \in 1 .. n : stack'[i] = stack[i] /\ stack[i].step \in Step
  BY <1>1, EnterCalls, CallsAreFrames
<1>3. stack'[n + 1].step = s /\ stack'[n + 1].todo = dependencies[s] /\ stack'[n + 1].depth = 0
  BY EnterCalls
<1>4. \A r \in Step : state'[r] = IF r = s THEN "Visiting" ELSE state[r]
  BY DEF TypeOK, Enter
<1>5. \A i \in 1 .. n : state[stack[i].step] = "Visiting" /\ stack[i].step # s
  BY <1>1 DEF VisitInv, FramesAreVisiting
<1>6. n + 1 \in 1 .. (n + 1) /\ \A i \in 1 .. (n + 1) : i = n + 1 \/ i \in 1 .. n
  BY <1>1
<1>a. FramesAreVisiting'
  <2>1. \A i \in 1 .. (n + 1) : state'[stack'[i].step] = "Visiting"
    BY <1>2, <1>3, <1>4, <1>5, <1>6
  <2>2. \A i, j \in 1 .. (n + 1) : stack'[i].step = stack'[j].step => i = j
    BY <1>1, <1>2, <1>3, <1>5, <1>6 DEF VisitInv, FramesAreVisiting
  <2>3. \A r \in Step : state'[r] = "Visiting" => \E i \in 1 .. (n + 1) : stack'[i].step = r
    <3> TAKE r \in Step
    <3>1. CASE r = s
      BY <3>1, <1>3, <1>6
    <3>2. ASSUME r # s, state'[r] = "Visiting"
          PROVE  \E i \in 1 .. (n + 1) : stack'[i].step = r
      <4>1. PICK i \in 1 .. n : stack[i].step = r
        BY <3>2, <1>1, <1>4 DEF VisitInv, FramesAreVisiting
      <4>2. i \in 1 .. (n + 1) /\ stack'[i].step = r
        BY <4>1, <1>1, <1>2
      <4> QED
        BY <4>2
    <3> QED
      BY <3>1, <3>2
  <2> QED
    BY <1>1, <2>1, <2>2, <2>3 DEF FramesAreVisiting
<1>b. FramesFollowReads'
  <2>1. \A i \in 1 .. (n + 1) : stack'[i].todo \subseteq dependencies'[stack'[i].step]
    BY <1>1, <1>2, <1>3, <1>6 DEF VisitInv, FramesFollowReads
  <2>2. ASSUME NEW i \in 1 .. (n + 1), i + 1 \in 1 .. (n + 1)
        PROVE  stack'[i + 1].step \in stack'[i].todo
    <3>1. i \in 1 .. n /\ (i = n \/ i + 1 \in 1 .. n)
      BY <2>2, <1>1
    <3>2. CASE i + 1 \in 1 .. n
      BY <3>1, <3>2, <1>1, <1>2 DEF VisitInv, FramesFollowReads
    <3>3. CASE i = n
      <4>1. stack # << >>
        BY <3>1, <1>1
      <4> QED
        BY <3>1, <3>3, <4>1, <1>2, <1>3 DEF Top
    <3> QED
      BY <3>1, <3>2, <3>3
  <2> QED
    BY <1>1, <2>1, <2>2 DEF FramesFollowReads
<1>c. FramesCountReads'
  <2> SUFFICES ASSUME NEW i \in 1 .. (n + 1),
                      NEW d \in dependencies[stack'[i].step] \ stack'[i].todo
               PROVE  state'[d] = "Visited" /\ depths[d] < stack'[i].depth
    BY <1>1 DEF FramesCountReads
  <2>1. i \in 1 .. n
    BY <1>3, <1>6
  <2>2. state[d] = "Visited" /\ depths[d] < stack[i].depth
    BY <2>1, <1>1, <1>2 DEF VisitInv, FramesCountReads
  <2>3. d \in Step
    BY <2>1, <1>2 DEF TypeOK, Graphs
  <2> QED
    BY <2>1, <2>2, <2>3, <1>2, <1>4
<1>d. VisitedAboveReads'
  <2> SUFFICES ASSUME NEW r \in Step, state'[r] = "Visited", NEW d \in dependencies[r]
               PROVE  state'[d] = "Visited" /\ depths[d] < depths[r]
    BY DEF VisitedAboveReads
  <2>1. state[r] = "Visited" /\ d \in Step
    BY <1>4 DEF TypeOK, Graphs
  <2> QED
    BY <2>1, <1>4 DEF VisitInv, VisitedAboveReads
<1> QED
  BY <1>a, <1>b, <1>c, <1>d

\* A call that folds a visited dependency.
LEMMA FoldKeeps ==
    ASSUME TypeOK, VisitInv, NEW d \in Step, FoldDependency(d)
    PROVE  (FramesAreVisiting /\ FramesFollowReads /\ FramesCountReads /\ VisitedAboveReads)'
<1> DEFINE n == Len(stack)
           frame == [step |-> Top.step, todo |-> Top.todo \ {d},
                     depth |-> Larger(Top.depth, depths[d] + 1)]
<1>1. /\ phase = "visit" /\ stack # << >> /\ Continue(frame) /\ state[d] = "Visited"
      /\ d \in Top.todo /\ UNCHANGED <<dependencies, phase, state, depths>>
  BY DEF FoldDependency, NextDependency, input
<1>2. Top \in Frame /\ n \in 1 .. n /\ n \in Nat /\ Calls = 1 .. n
  BY <1>1, TopIsFrame DEF Calls
<1>3. frame \in Frame
  BY <1>1, <1>2 DEF Frame, Larger, TypeOK
<1>4. /\ Calls' = 1 .. n
      /\ \A i \in 1 .. n : stack'[i] = IF i = n THEN frame ELSE stack[i]
  BY <1>1, <1>2, <1>3, ContinueCalls DEF Calls
<1>5. \A i \in 1 .. n : stack'[i].step = stack[i].step
  BY <1>4 DEF Top
<1>6. /\ stack'[n].todo = stack[n].todo \ {d}
      /\ \A i \in 1 .. n : i # n => stack'[i].todo = stack[i].todo
  BY <1>2, <1>4 DEF Top
<1>a. FramesAreVisiting'
  BY <1>1, <1>2, <1>4, <1>5 DEF VisitInv, FramesAreVisiting
<1>b. FramesFollowReads'
  <2>1. \A i \in 1 .. n : stack'[i].todo \subseteq dependencies[stack'[i].step]
    BY <1>2, <1>5, <1>6 DEF VisitInv, FramesFollowReads
  <2>2. ASSUME NEW i \in 1 .. n, i + 1 \in 1 .. n
        PROVE  stack'[i + 1].step \in stack'[i].todo
    BY <2>2, <1>2, <1>5, <1>6 DEF VisitInv, FramesFollowReads
  <2> QED
    BY <1>1, <1>4, <2>1, <2>2 DEF FramesFollowReads
<1>c. FramesCountReads'
  <2> SUFFICES ASSUME NEW i \in 1 .. n,
                      NEW e \in dependencies[stack'[i].step] \ stack'[i].todo
               PROVE  state[e] = "Visited" /\ depths[e] < stack'[i].depth
    BY <1>1, <1>4 DEF FramesCountReads
  <2>1. CASE i # n
    BY <2>1, <1>1, <1>2, <1>4 DEF VisitInv, FramesCountReads
  <2>2. CASE i = n
    <3>1. Top.depth \in Nat /\ depths[d] \in Nat /\ Top.step = stack[n].step
      BY <1>2 DEF Frame, Top, TypeOK
    <3>2. stack'[i].depth = Larger(Top.depth, depths[d] + 1)
      BY <2>2, <1>4
    <3>3. CASE e = d
      BY <3>1, <3>2, <3>3, <1>1 DEF Larger
    <3>4. CASE e # d
      <4>1. e \in dependencies[stack[n].step] \ stack[n].todo
        BY <2>2, <3>4, <1>5, <1>6
      <4>2. state[e] = "Visited" /\ depths[e] < Top.depth
        BY <4>1, <1>1, <1>2 DEF VisitInv, FramesCountReads, Top
      <4>3. e \in Step
        BY <4>1, <3>1, <1>2 DEF TypeOK, Graphs, Frame
      <4>4. depths[e] \in Nat
        BY <4>3 DEF TypeOK
      <4> QED
        BY <4>2, <4>4, <3>1, <3>2 DEF Larger
    <3> QED
      BY <3>3, <3>4
  <2> QED
    BY <2>1, <2>2
<1>d. VisitedAboveReads'
  BY <1>1 DEF VisitInv, VisitedAboveReads
<1> QED
  BY <1>a, <1>b, <1>c, <1>d

\* A call that returns: everything it reads is folded.
LEMMA ReturnKeeps ==
    ASSUME TypeOK, VisitInv, Return
    PROVE  (FramesAreVisiting /\ FramesFollowReads /\ FramesCountReads /\ VisitedAboveReads)'
<1> DEFINE n == Len(stack)
           t == Top.step
<1>1. /\ phase = "visit" /\ stack # << >> /\ Top.todo = {}
      /\ UNCHANGED <<dependencies, phase>> /\ stack' = Pop
  BY DEF Return, input
<1>2. Top \in Frame /\ n \in 1 .. n /\ n \in Nat /\ Calls = 1 .. n /\ t \in Step /\ Top.depth \in Nat
  BY <1>1, TopIsFrame DEF Calls, Frame
<1>3. /\ Calls' = 1 .. (n - 1)
      /\ \A i \in 1 .. (n - 1) : i \in 1 .. n /\ i # n /\ stack'[i] = stack[i]
  BY <1>1, <1>2, PopCalls DEF Calls
<1>4. \A r \in Step : /\ state'[r] = IF r = t THEN "Visited" ELSE state[r]
                      /\ depths'[r] = IF r = t THEN Top.depth ELSE depths[r]
  BY <1>2 DEF Return, TypeOK
<1>5. \A i \in 1 .. n : state[stack[i].step] = "Visiting" /\ stack[i].step \in Step
  BY <1>2, CallsAreFrames DEF VisitInv, FramesAreVisiting
<1>6. \A i \in 1 .. (n - 1) : stack[i].step # t
  BY <1>2, <1>3 DEF VisitInv, FramesAreVisiting, Top
<1>7. state[t] = "Visiting"
  BY <1>2, <1>5 DEF Top
<1>a. FramesAreVisiting'
  <2>1. ASSUME NEW i \in 1 .. (n - 1)
        PROVE  state'[stack'[i].step] = "Visiting"
    <3>1. i \in 1 .. n /\ stack'[i] = stack[i] /\ stack[i].step # t
      BY <1>3, <1>6
    <3> QED
      BY <1>4, <1>5, <3>1
  <2>2. ASSUME NEW i \in 1 .. (n - 1), NEW j \in 1 .. (n - 1), stack'[i].step = stack'[j].step
        PROVE  i = j
    <3>1. i \in 1 .. n /\ j \in 1 .. n /\ stack[i].step = stack[j].step
      BY <1>3, <2>2
    <3> QED
      BY <1>2, <3>1 DEF VisitInv, FramesAreVisiting
  <2>3. ASSUME NEW r \in Step, state'[r] = "Visiting"
        PROVE  \E i \in 1 .. (n - 1) : stack'[i].step = r
    <3>1. r # t /\ state[r] = "Visiting"
      BY <2>3, <1>4
    <3>2. PICK i \in 1 .. n : stack[i].step = r
      BY <3>1, <1>2 DEF VisitInv, FramesAreVisiting
    <3>3. i \in 1 .. (n - 1)
      BY <3>1, <3>2, <1>2 DEF Top
    <3> QED
      BY <3>2, <3>3, <1>3
  <2> QED
    BY <1>3, <2>1, <2>2, <2>3 DEF FramesAreVisiting
<1>b. FramesFollowReads'
  <2>1. \A i \in 1 .. (n - 1) : stack'[i].todo \subseteq dependencies[stack'[i].step]
    BY <1>2, <1>3 DEF VisitInv, FramesFollowReads
  <2>2. ASSUME NEW i \in 1 .. (n - 1), i + 1 \in 1 .. (n - 1)
        PROVE  stack'[i + 1].step \in stack'[i].todo
    <3>1. i \in 1 .. n /\ i + 1 \in 1 .. n /\ stack'[i] = stack[i] /\ stack'[i + 1] = stack[i + 1]
      BY <2>2, <1>3
    <3> QED
      BY <3>1, <1>2 DEF VisitInv, FramesFollowReads
  <2> QED
    BY <1>1, <1>3, <2>1, <2>2 DEF FramesFollowReads
<1>c. FramesCountReads'
  <2> SUFFICES ASSUME NEW i \in 1 .. (n - 1),
                      NEW e \in dependencies[stack'[i].step] \ stack'[i].todo
               PROVE  state'[e] = "Visited" /\ depths'[e] < stack'[i].depth
    BY <1>1, <1>3 DEF FramesCountReads
  <2>1. stack'[i] = stack[i] /\ i \in 1 .. n
    BY <1>3
  <2>2. state[e] = "Visited" /\ depths[e] < stack[i].depth
    BY <2>1, <1>1, <1>2 DEF VisitInv, FramesCountReads
  <2>3. e \in Step
    BY <2>1, <1>5 DEF TypeOK, Graphs
  <2> QED
    BY <2>1, <2>2, <2>3, <1>4, <1>7
<1>d. VisitedAboveReads'
  <2> SUFFICES ASSUME NEW r \in Step, state'[r] = "Visited", NEW e \in dependencies[r]
               PROVE  state'[e] = "Visited" /\ depths'[e] < depths'[r]
    BY <1>1 DEF VisitedAboveReads
  <2>1. e \in Step
    BY DEF TypeOK, Graphs
  <2>2. CASE r = t
    <3>1. state[e] = "Visited" /\ depths[e] < Top.depth
      BY <2>2, <1>1, <1>2 DEF VisitInv, FramesCountReads, Top
    <3> QED
      BY <2>1, <2>2, <3>1, <1>2, <1>4, <1>7
  <2>3. CASE r # t
    <3>1. state[e] = "Visited" /\ depths[e] < depths[r]
      BY <2>3, <1>1, <1>4 DEF VisitInv, VisitedAboveReads
    <3> QED
      BY <2>1, <2>3, <3>1, <1>4, <1>7
  <2> QED
    BY <2>2, <2>3
<1> QED
  BY <1>a, <1>b, <1>c, <1>d

\* Outside the search the stack is idle: nothing VisitInv says of the calls
\* changes.
LEMMA IdleKeeps ==
    ASSUME VisitInv, UNCHANGED <<dependencies, stack, state>>
    PROVE  (FramesAreVisiting /\ FramesFollowReads)'
BY DEF VisitInv, FramesAreVisiting, FramesFollowReads, Calls

LEMMA VisitStep == TypeOK /\ VisitInv /\ [Next]_vars => VisitInv'
<1> SUFFICES ASSUME TypeOK, VisitInv, [Next]_vars
             PROVE  VisitInv'
  OBVIOUS
<1> USE NAssumption DEF input, locals
<1>1. CASE VisitRoot
  <2>1. /\ phase = "visit" /\ phase' = "visit" /\ stack = << >>
        /\ cursor \in Step /\ cursor' = cursor + 1
        /\ UNCHANGED <<dependencies, depths, floor, previous_max>>
    BY <1>1 DEF VisitRoot, TypeOK, Step
  <2>2. state[cursor] # "Visiting"
    BY <2>1 DEF VisitInv, FramesAreVisiting, Calls
  <2>3. CASE state[cursor] = "Visited"
    <3>1. UNCHANGED <<stack, state>>
      BY <1>1, <2>3 DEF VisitRoot
    <3>2. \A s \in Step : s < cursor + 1 => state[s] # "Unvisited"
      BY <2>1, <2>3 DEF VisitInv, Step
    <3> QED
      BY <2>1, <3>1, <3>2, IdleKeeps DEF VisitInv, FramesCountReads, VisitedAboveReads, Calls
  <2>4. CASE state[cursor] # "Visited"
    <3>1. state[cursor] = "Unvisited" /\ Enter(cursor)
      BY <1>1, <2>1, <2>2, <2>4 DEF VisitRoot, TypeOK
    <3>2. \A s \in Step : s < cursor + 1 => state'[s] # "Unvisited"
      BY <2>1, <3>1 DEF VisitInv, Enter, Step, TypeOK
    <3>3. (FramesAreVisiting /\ FramesFollowReads /\ FramesCountReads /\ VisitedAboveReads)'
      BY <2>1, <3>1, EnterKeeps
    <3> QED
      BY <2>1, <3>2, <3>3 DEF VisitInv
  <2> QED
    BY <2>3, <2>4
<1>2. ASSUME NEW d \in Step, FoldDependency(d)
      PROVE  VisitInv'
  <2>1. /\ phase = "visit" /\ phase' = "visit"
        /\ UNCHANGED <<cursor, state, floor, previous_max>>
    BY <1>2 DEF FoldDependency, NextDependency
  <2> QED
    BY <1>2, <2>1, FoldKeeps DEF VisitInv
<1>3. ASSUME NEW d \in Step, Recurse(d)
      PROVE  VisitInv'
  <2>1. /\ phase = "visit" /\ phase' = "visit" /\ d \in Top.todo
        /\ state[d] = "Unvisited" /\ Enter(d)
        /\ UNCHANGED <<dependencies, depths, cursor, floor, previous_max>>
    BY <1>3 DEF Recurse, NextDependency
  <2>2. (FramesAreVisiting /\ FramesFollowReads /\ FramesCountReads /\ VisitedAboveReads)'
    BY <2>1, EnterKeeps
  <2>3. \A s \in Step : s < cursor => state'[s] # "Unvisited"
    BY <2>1 DEF VisitInv, Enter, TypeOK
  <2> QED
    BY <2>1, <2>2, <2>3 DEF VisitInv
<1>4. ASSUME NEW d \in Step, FindCycle(d)
      PROVE  VisitInv'
  BY <1>4, IdleKeeps DEF FindCycle, VisitInv
<1>5. CASE Return
  <2>1. /\ phase = "visit" /\ phase' = "visit" /\ UNCHANGED <<cursor, floor, previous_max>>
    BY <1>5 DEF Return
  <2>2. \A s \in Step : s < cursor => state'[s] # "Unvisited"
    BY <1>5, <2>1 DEF VisitInv, Return, TypeOK
  <2> QED
    BY <1>5, <2>1, <2>2, ReturnKeeps DEF VisitInv
<1>6. CASE EndVisits
  <2>1. \A s \in Step : state[s] = "Visited"
    BY <1>6 DEF EndVisits, VisitInv, FramesAreVisiting, Calls, TypeOK, Step
  <2> QED
    BY <1>6, <2>1, IdleKeeps DEF EndVisits, VisitInv
<1>7. CASE ApplyBoundary
  BY <1>7, IdleKeeps DEF ApplyBoundary, VisitInv
<1>8. CASE EndBoundaries
  BY <1>8, IdleKeeps DEF EndBoundaries, VisitInv
<1>9. CASE PlaceStep
  BY <1>9, IdleKeeps DEF PlaceStep, VisitInv
<1>10. CASE EndFill
  BY <1>10, IdleKeeps DEF EndFill, VisitInv
<1>11. CASE UNCHANGED vars
  BY <1>11 DEF vars, VisitInv, FramesAreVisiting, FramesFollowReads,
     FramesCountReads, VisitedAboveReads, Calls
<1> QED
  BY <1>1, <1>2, <1>3, <1>4, <1>5, <1>6, <1>7, <1>8, <1>9, <1>10, <1>11
  DEF Next, Returned

-----------------------------------------------------------------------------
\* The iteration that passes step c: its depth is raised to the floor, which
\* moves above every passed step when c is a boundary.
LEMMA BoundaryKeeps ==
    ASSUME TypeOK, SyncInv, ApplyBoundary
    PROVE  (FloorInv /\ ReadsInv)'
<1> USE NAssumption
<1> DEFINE c == cursor
           P == {s \in Step : s < c}
<1>1. /\ phase = "sync" /\ phase' = "sync" /\ c \in Step /\ c \in Nat
      /\ UNCHANGED <<dependencies, sync_boundaries>> /\ cursor' = c + 1
  BY DEF ApplyBoundary, TypeOK, Step, input
<1>2. /\ Passed = P /\ Passed' = P \cup {c} /\ c \notin P
      /\ \A s \in P : s < c /\ s \in Nat
  BY <1>1 DEF Passed, Step
<1>3. /\ floor' = IF c \in sync_boundaries THEN previous_max + 1 ELSE floor
      /\ floor \in Nat /\ previous_max \in Nat /\ floor' \in Nat
      /\ \A s \in Step : depths[s] \in Nat
  BY <1>1 DEF ApplyBoundary, TypeOK
<1>4. /\ depths'[c] = Larger(depths[c], floor')
      /\ \A s \in Step : s # c => depths'[s] = depths[s]
      /\ previous_max' = Larger(previous_max, depths'[c])
  BY <1>1 DEF ApplyBoundary, TypeOK
<1>5. /\ depths'[c] \in Nat /\ depths'[c] >= floor' /\ depths'[c] >= depths[c]
      /\ depths'[c] = depths[c] \/ depths'[c] = floor'
      /\ previous_max' \in Nat /\ previous_max' >= previous_max /\ previous_max' >= depths'[c]
  BY <1>1, <1>3, <1>4 DEF Larger
<1>6. FloorInv /\ ReadsInv
  BY <1>1 DEF SyncInv
<1>7. \A s \in P : depths'[s] = depths[s] /\ depths[s] <= previous_max
  BY <1>2, <1>4, <1>6 DEF FloorInv
<1>8. floor <= floor' /\ floor' <= previous_max + 1
  BY <1>3, <1>6 DEF FloorInv
<1>9. \A b \in P \cup {c} : b <= c
  BY <1>1, <1>2
<1>a. FloorInv'
  <2>1. floor' <= previous_max' + 1
    <3>1. /\ floor' \in Nat /\ previous_max \in Nat /\ previous_max' \in Nat
          /\ floor' <= previous_max + 1 /\ previous_max <= previous_max'
      BY <1>3, <1>5, <1>8
    <3>2. \A x, y, z \in Nat : x <= y + 1 /\ y <= z => x <= z + 1
      OBVIOUS
    <3> QED
      BY <3>1, <3>2
  <2>2. \A s \in P \cup {c} : depths'[s] <= previous_max'
    BY <1>2, <1>3, <1>5, <1>7
  <2>3. ASSUME NEW s \in P
        PROVE  IF \E b \in sync_boundaries : s < b /\ b \in P \cup {c}
                 THEN depths'[s] < floor' ELSE floor' <= depths'[s]
    <3>1. CASE c \in sync_boundaries
      <4>1. floor' = previous_max + 1 /\ depths'[s] < floor'
        BY <3>1, <1>2, <1>3, <1>7
      <4> QED
        BY <3>1, <4>1, <1>2
    <3>2. CASE c \notin sync_boundaries
      <4>1. floor' = floor
        BY <3>2, <1>3
      <4> QED
        BY <3>2, <4>1, <1>2, <1>6, <1>7 DEF FloorInv
    <3> QED
      BY <3>1, <3>2
  <2>4. ~\E b \in sync_boundaries : c < b /\ b \in P \cup {c}
    <3> SUFFICES ASSUME NEW b \in P \cup {c}, c < b
                 PROVE  FALSE
      OBVIOUS
    <3>1. b <= c /\ b \in Nat
      BY <1>1, <1>2, <1>9
    <3> QED
      BY <3>1, <1>1
  <2> QED
    BY <1>1, <1>2, <1>5, <2>1, <2>2, <2>3, <2>4 DEF FloorInv
<1>b. ReadsInv'
  <2> SUFFICES ASSUME NEW s \in Step, NEW d \in dependencies[s]
               PROVE  /\ s \notin P \cup {c} /\ d \notin P \cup {c} => depths'[d] < depths'[s]
                      /\ s \notin P \cup {c} /\ d \in P \cup {c} =>
                           depths'[d] < depths'[s] \/ depths'[d] <= floor'
                      /\ s \in P \cup {c} /\ d \notin P \cup {c} => depths'[d] < depths'[s]
                      /\ s \in P \cup {c} /\ d \in P \cup {c} =>
                           Parted(sync_boundaries, s, d) \/ depths'[d] <= depths'[s]
    BY <1>1, <1>2 DEF ReadsInv
  <2>0. d \in Step
    BY DEF TypeOK, Graphs
  <2>1. /\ s \notin P /\ d \notin P => depths[d] < depths[s]
        /\ s \notin P /\ d \in P => depths[d] < depths[s] \/ depths[d] <= floor
        /\ s \in P /\ d \notin P => depths[d] < depths[s]
        /\ s \in P /\ d \in P => Parted(sync_boundaries, s, d) \/ depths[d] <= depths[s]
    BY <1>2, <1>6 DEF ReadsInv
  <2>2. depths'[s] \in Nat /\ depths'[d] \in Nat /\ depths[s] \in Nat /\ depths[d] \in Nat
    BY <2>0, <1>3, <1>4, <1>5
  <2>3. CASE s \notin P \cup {c} /\ d \notin P \cup {c}
    BY <2>0, <2>1, <2>3, <1>4
  <2>4. CASE s \notin P \cup {c} /\ d \in P
    BY <2>0, <2>1, <2>2, <2>4, <1>2, <1>3, <1>4, <1>8
  <2>5. CASE s \notin P \cup {c} /\ d = c
    BY <2>1, <2>2, <2>5, <1>2, <1>3, <1>4, <1>5
  <2>6. CASE s \in P /\ d \notin P \cup {c}
    BY <2>0, <2>1, <2>6, <1>2, <1>4
  <2>7. CASE s = c /\ d \notin P \cup {c}
    BY <2>0, <2>1, <2>2, <2>7, <1>2, <1>4, <1>5
  <2>8. CASE s \in P /\ d \in P
    BY <2>1, <2>8, <1>2, <1>7
  <2>9. CASE s = c /\ d = c
    BY <2>2, <2>9
  <2>10. CASE s = c /\ d \in P
    <3>1. depths[d] < depths[c] \/ depths[d] <= floor
      BY <2>1, <2>10, <1>2
    <3> QED
      BY <2>2, <2>10, <3>1, <1>2, <1>3, <1>5, <1>7, <1>8
  <2>11. CASE s \in P /\ d = c
    <3>1. CASE \E b \in sync_boundaries : s < b /\ b \in P \cup {c}
      <4>1. PICK b \in sync_boundaries : s < b /\ b \in P \cup {c}
        BY <3>1
      <4>2. b <= c
        BY <4>1, <1>9
      <4> QED
        BY <2>11, <4>1, <4>2, <1>2 DEF Parted
    <3>2. CASE ~\E b \in sync_boundaries : s < b /\ b \in P \cup {c}
      <4>1. floor' <= depths'[s]
        BY <2>11, <3>2, <1>a, <1>1, <1>2 DEF FloorInv
      <4>2. depths[c] < depths[s]
        BY <2>1, <2>11, <1>2
      <4> QED
        BY <2>2, <2>11, <4>1, <4>2, <1>2, <1>3, <1>5, <1>7
    <3> QED
      BY <3>1, <3>2
  <2> QED
    BY <2>3, <2>4, <2>5, <2>6, <2>7, <2>8, <2>9, <2>10, <2>11, <1>2
<1> QED
  BY <1>a, <1>b

\* Steps a boundary parts are at different depths once both are passed.
LEMMA PartedKeeps ==
    ASSUME TypeOK, SyncInv, ApplyBoundary
    PROVE  \A s, t \in Passed' : Parted(sync_boundaries, s, t) => depths'[s] < depths'[t]
<1> USE NAssumption
<1> DEFINE c == cursor
           P == {s \in Step : s < c}
<1>1. /\ phase = "sync" /\ c \in Step /\ c \in Nat /\ c \notin P
      /\ Passed = P /\ Passed' = P \cup {c}
      /\ \A s \in P : s < c /\ s \in Nat
  BY DEF ApplyBoundary, TypeOK, Step, Passed
<1>2. /\ \A s \in P : depths'[s] = depths[s] /\ depths[s] \in Nat /\ depths[s] <= previous_max
      /\ depths'[c] \in Nat /\ floor' \in Nat /\ depths'[c] >= floor'
      /\ floor' = IF c \in sync_boundaries THEN previous_max + 1 ELSE floor
      /\ previous_max \in Nat /\ floor \in Nat
  BY <1>1 DEF ApplyBoundary, TypeOK, Larger, SyncInv, FloorInv
<1>3. ASSUME NEW s \in P, NEW t \in P, Parted(sync_boundaries, s, t)
      PROVE  depths'[s] < depths'[t]
  BY <1>1, <1>2, <1>3 DEF SyncInv
<1>4. ASSUME NEW s \in P, Parted(sync_boundaries, s, c)
      PROVE  depths'[s] < depths'[c]
  <2>1. PICK b \in sync_boundaries : s < b /\ b <= c
    BY <1>4 DEF Parted
  <2>2. CASE c \in sync_boundaries
    BY <2>2, <1>2
  <2>3. CASE c \notin sync_boundaries
    <3>1. b \in P
      BY <2>1, <2>3, <1>1 DEF TypeOK, BoundarySets, Step
    <3>2. depths[s] < floor
      BY <2>1, <3>1, <1>1 DEF SyncInv, FloorInv
    <3> QED
      BY <2>3, <3>2, <1>2
  <2> QED
    BY <2>2, <2>3
<1>5. ASSUME NEW s \in P \cup {c}
      PROVE  ~Parted(sync_boundaries, c, s)
  BY <1>1 DEF Parted, TypeOK, BoundarySets
<1> QED
  BY <1>1, <1>3, <1>4, <1>5

LEMMA SyncStep == TypeOK /\ VisitInv /\ SyncInv /\ [Next]_vars => SyncInv'
<1> SUFFICES ASSUME TypeOK, VisitInv, SyncInv, [Next]_vars, phase' \in {"sync", "fill", "planned"}
             PROVE  SyncInv'
  BY DEF SyncInv
<1> USE NAssumption DEF input, locals
<1>1. CASE EndVisits
  <2>1. /\ phase = "visit" /\ phase' = "sync" /\ cursor' = 0
        /\ UNCHANGED <<dependencies, sync_boundaries, depths, floor, previous_max>>
    BY <1>1 DEF EndVisits
  <2>2. Passed' = {} /\ floor = 0 /\ previous_max = 0
    BY <2>1 DEF Passed, Step, VisitInv
  <2>3. \A s \in Step : \A d \in dependencies[s] : depths[d] < depths[s]
    BY <1>1, <2>1 DEF EndVisits, VisitInv, VisitedAboveReads, FramesAreVisiting, Calls, TypeOK, Step
  <2>4. FloorInv'
    BY <2>1, <2>2 DEF FloorInv
  <2>5. ReadsInv'
    BY <2>1, <2>2, <2>3 DEF ReadsInv
  <2> QED
    BY <2>1, <2>2, <2>3, <2>4, <2>5 DEF SyncInv
<1>2. CASE ApplyBoundary
  <2>1. /\ phase = "sync" /\ UNCHANGED <<dependencies, sync_boundaries>>
        /\ cursor \in Step
    BY <1>2 DEF ApplyBoundary, TypeOK, Step
  <2>2. ASSUME sync_boundaries = {}
        PROVE  floor' = 0 /\ depths' = depths
    BY <1>2, <2>1, <2>2 DEF ApplyBoundary, SyncInv, Larger, TypeOK
  <2> QED
    BY <1>2, <2>1, <2>2, BoundaryKeeps, PartedKeeps DEF SyncInv
<1>3. CASE EndBoundaries
  <2>1. /\ phase = "sync" /\ phase' = "fill" /\ cursor = N
        /\ UNCHANGED <<dependencies, sync_boundaries, depths, floor, previous_max>>
    BY <1>3 DEF EndBoundaries
  <2>2. Passed = Passed'
    BY <2>1 DEF Passed, Step
  <2> QED
    BY <2>1, <2>2 DEF SyncInv, FloorInv, ReadsInv
<1>4. ASSUME phase \in {"fill", "planned"}, phase' \in {"fill", "planned"},
             UNCHANGED <<dependencies, sync_boundaries, depths, floor, previous_max>>
      PROVE  SyncInv'
  <2>1. Passed = Passed'
    BY <1>4 DEF Passed
  <2> QED
    BY <1>4, <2>1 DEF SyncInv, FloorInv, ReadsInv
<1>5. CASE PlaceStep \/ EndFill
  BY <1>4, <1>5 DEF PlaceStep, EndFill
<1>6. CASE UNCHANGED vars
  BY <1>6 DEF vars, SyncInv, FloorInv, ReadsInv, Passed
<1>7. ASSUME phase = "visit", UNCHANGED phase
      PROVE  FALSE
  BY <1>7
<1> QED
  BY <1>1, <1>2, <1>3, <1>5, <1>6, <1>7
  DEF Next, Returned, VisitRoot, FoldDependency, Recurse, FindCycle, NextDependency, Return

\* Placing a step puts it in the layer of its depth and nowhere else.
LEMMA FillStep == TypeOK /\ FillInv /\ [Next]_vars => FillInv'
<1> SUFFICES ASSUME TypeOK, FillInv, [Next]_vars
             PROVE  FillInv'
  OBVIOUS
<1> USE NAssumption DEF input, locals
<1>1. CASE PlaceStep
  <2> DEFINE m == Larger(Len(layers), depths[cursor] + 1)
             c == cursor
  <2>1. /\ phase = "fill" /\ phase' = "fill" /\ c \in Step /\ c \in Nat /\ cursor' = c + 1
        /\ UNCHANGED depths
    BY <1>1 DEF PlaceStep, TypeOK, Step
  <2>2. /\ Len(layers) \in Nat /\ \A s \in Step : depths[s] \in Nat
        /\ m \in Nat /\ m >= Len(layers) /\ m >= depths[c] + 1
    BY <2>1 DEF Larger, TypeOK
  <2>3. layers' = [k \in 1 .. m |-> (IF k <= Len(layers) THEN layers[k] ELSE {})
                                     \cup {s \in {c} : depths[s] = k - 1}]
    BY <1>1 DEF PlaceStep
  <2>4. Len(layers') = m
    BY <2>2, <2>3
  <2>5. ASSUME NEW k \in 1 .. m
        PROVE  layers'[k] = {s \in Step : s < c + 1 /\ depths[s] = k - 1}
    <3>1. (IF k <= Len(layers) THEN layers[k] ELSE {}) = {s \in Step : s < c /\ depths[s] = k - 1}
      <4>1. CASE k <= Len(layers)
        BY <4>1, <2>1, <2>2 DEF FillInv
      <4>2. CASE ~(k <= Len(layers))
        <5>1. \A s \in Step : s < c => depths[s] # k - 1
          <6> SUFFICES ASSUME NEW s \in Step, s < c, depths[s] = k - 1
                       PROVE  FALSE
            OBVIOUS
          <6>1. depths[s] < Len(layers) /\ k \in Nat
            BY <2>1, <2>2 DEF FillInv
          <6> QED
            BY <4>2, <6>1, <2>2
        <5> QED
          BY <4>2, <5>1
      <4> QED
        BY <4>1, <4>2
    <3>2. layers'[k] = {s \in Step : s < c /\ depths[s] = k - 1} \cup {s \in {c} : depths[s] = k - 1}
      BY <2>3, <3>1
    <3>3. \A s \in Step : s < c + 1 <=> s < c \/ s = c
      BY <2>1 DEF Step
    <3> QED
      BY <2>1, <3>2, <3>3
  <2>6. \A s \in Step : s < c + 1 => depths[s] < m
    <3> SUFFICES ASSUME NEW s \in Step, s < c + 1
                 PROVE  depths[s] < m
      OBVIOUS
    <3>1. s < c \/ s = c
      BY <2>1 DEF Step
    <3>2. s < c => depths[s] < Len(layers)
      BY <2>1 DEF FillInv
    <3> QED
      BY <2>2, <3>1, <3>2
  <2> QED
    BY <2>1, <2>4, <2>5, <2>6 DEF FillInv
<1>2. CASE EndBoundaries
  BY <1>2 DEF EndBoundaries, FillInv, TypeOK, Step
<1>3. CASE EndFill
  BY <1>3 DEF EndFill, FillInv
<1>4. CASE UNCHANGED vars
  BY <1>4 DEF vars, FillInv
<1>5. ASSUME phase \in {"visit", "sync"}, phase' \in {"visit", "sync", "cycle"}, UNCHANGED layers
      PROVE  FillInv'
  BY <1>5 DEF FillInv
<1> QED
  BY <1>1, <1>2, <1>3, <1>4, <1>5
  DEF Next, Returned, VisitRoot, FoldDependency, Recurse, FindCycle, NextDependency,
      Return, EndVisits, ApplyBoundary

LEMMA CycleStep == TypeOK /\ VisitInv /\ CycleIsReal /\ [Next]_vars => CycleIsReal'
<1> SUFFICES ASSUME TypeOK, VisitInv, CycleIsReal, [Next]_vars
             PROVE  CycleIsReal'
  OBVIOUS
<1> USE DEF input, locals
<1>1. ASSUME NEW d \in Step, FindCycle(d)
      PROVE  CycleIsReal'
  <2>1. HasCycle(dependencies)
    BY <1>1, VisitingIsCycle DEF FindCycle, NextDependency, VisitInv
  <2> QED
    BY <1>1, <2>1 DEF FindCycle, CycleIsReal
<1>2. CASE UNCHANGED <<phase, dependencies>>
  BY <1>2 DEF CycleIsReal
<1>3. CASE phase' # "cycle"
  BY <1>3 DEF CycleIsReal
<1> QED
  BY <1>1, <1>2, <1>3
  DEF Next, Returned, vars, VisitRoot, FoldDependency, Recurse, Return, EndVisits,
      ApplyBoundary, EndBoundaries, PlaceStep, EndFill

\* Throughout planning, the recursion's bookkeeping, the depths and the layers
\* built so far are consistent.
THEOREM PlanInvariant == Spec => []PlanInv
<1>1. Init => PlanInv
  BY InitPlanInv
<1>2. TypeOK /\ PlanInv /\ [Next]_vars => PlanInv'
  BY VisitStep, SyncStep, FillStep, CycleStep DEF PlanInv
<1> QED
  BY <1>1, <1>2, TypeCorrect, PTL DEF Spec

-----------------------------------------------------------------------------
(* What the invariant gives the rest of the system.                        *)

\* When the plan is ready, layer k holds exactly the steps of depth k - 1.
LEMMA PlannedLayers ==
    ASSUME TypeOK, PlanInv, phase = "planned"
    PROVE  /\ Passed = Step
           /\ \A k \in DOMAIN layers : \A s \in layers[k] :
                k \in Nat /\ s \in Step /\ depths[s] = k - 1
           /\ \A s \in Step : depths[s] \in Nat /\ s \in layers[depths[s] + 1]
                               /\ depths[s] + 1 \in DOMAIN layers
<1>1. /\ cursor = N /\ DOMAIN layers = 1 .. Len(layers) /\ Len(layers) \in Nat
      /\ \A k \in 1 .. Len(layers) : layers[k] = {s \in Step : s < cursor /\ depths[s] = k - 1}
      /\ \A s \in Step : s < cursor => depths[s] < Len(layers)
  BY DEF PlanInv, FillInv, TypeOK
<1>2. \A s \in Step : s < cursor /\ depths[s] \in Nat
  BY <1>1, NAssumption DEF Step, TypeOK
<1>3. ASSUME NEW s \in Step
      PROVE  s \in layers[depths[s] + 1] /\ depths[s] + 1 \in DOMAIN layers
  <2>1. depths[s] + 1 \in 1 .. Len(layers) /\ depths[s] = (depths[s] + 1) - 1
    BY <1>1, <1>2
  <2> QED
    BY <1>1, <1>2, <2>1
<1> QED
  BY <1>1, <1>2, <1>3 DEF Passed

\* step_depth reports a cycle only when the endpoint's reads have one.
THEOREM CycleErrorsAreReal == Spec => []CycleIsReal
<1>1. PlanInv => CycleIsReal
  BY DEF PlanInv
<1> QED
  BY <1>1, PlanInvariant, PTL

\* Every step before a sync boundary is in an earlier layer than every step
\* after it, for any number of steps, reads and sync blocks.
THEOREM SyncBoundariesPart == Spec => []SyncParts
<1>1. TypeOK /\ PlanInv => SyncParts
  <2> SUFFICES ASSUME TypeOK, PlanInv, phase = "planned",
                      NEW j \in DOMAIN layers, NEW k \in DOMAIN layers,
                      NEW s \in layers[j], NEW t \in layers[k],
                      Parted(sync_boundaries, s, t)
               PROVE  j < k
    BY DEF SyncParts, PartsSteps
  <2>1. /\ s \in Passed /\ t \in Passed /\ j \in Nat /\ k \in Nat
        /\ depths[s] = j - 1 /\ depths[t] = k - 1
    BY PlannedLayers
  <2>2. depths[s] < depths[t]
    BY <2>1 DEF PlanInv, SyncInv
  <2> QED
    BY <2>1, <2>2
<1> QED
  BY <1>1, TypeCorrect, PlanInvariant, PTL

\* A step never lands before one it reads, unless a sync boundary defers what
\* it reads past it.
THEOREM SyncKeepsOrder == Spec => []SyncKeepsLooseOrder
<1>1. TypeOK /\ PlanInv => SyncKeepsLooseOrder
  <2> SUFFICES ASSUME TypeOK, PlanInv, phase = "planned",
                      NEW j \in DOMAIN layers, NEW k \in DOMAIN layers,
                      NEW d \in layers[j], NEW s \in layers[k],
                      d \in dependencies[s], ~Parted(sync_boundaries, s, d)
               PROVE  j <= k
    BY DEF SyncKeepsLooseOrder
  <2>1. /\ s \in Passed /\ d \in Passed /\ s \in Step /\ j \in Nat /\ k \in Nat
        /\ depths[d] = j - 1 /\ depths[s] = k - 1
    BY PlannedLayers
  <2>2. depths[d] <= depths[s]
    BY <2>1 DEF PlanInv, SyncInv, ReadsInv
  <2> QED
    BY <2>1, <2>2
<1> QED
  BY <1>1, TypeCorrect, PlanInvariant, PTL

\* Without sync blocks, everything a step reads is in an earlier layer.
THEOREM LayersCarryTheDag == Spec => []DagRespectedWithoutSync
<1>1. TypeOK /\ PlanInv => DagRespectedWithoutSync
  <2> SUFFICES ASSUME TypeOK, PlanInv, phase = "planned", sync_boundaries = {},
                      NEW k \in DOMAIN layers, NEW s \in layers[k],
                      NEW d \in dependencies[s]
               PROVE  \E j \in 1 .. (k - 1) : d \in layers[j]
    BY DEF DagRespectedWithoutSync, LayersRespectDependencies, CarriesReads
  <2>1. s \in Step /\ k \in Nat /\ depths[s] = k - 1
    BY PlannedLayers
  <2>2. d \in Step
    BY <2>1 DEF TypeOK, Graphs
  <2>3. depths[d] \in Nat /\ d \in layers[depths[d] + 1]
    BY <2>2, PlannedLayers
  <2>4. depths[d] < depths[s]
    BY <2>1 DEF PlanInv, SyncInv
  <2>5. depths[d] + 1 \in 1 .. (k - 1)
    BY <2>1, <2>3, <2>4
  <2> QED
    BY <2>3, <2>5
<1> QED
  BY <1>1, TypeCorrect, PlanInvariant, PTL

\* A finished plan is what the runtime assumes of one.
THEOREM PlansMeetTheContract == Spec => []PlanMeetsContract
<1>1. TypeOK /\ PlanInv /\ SyncParts /\ DagRespectedWithoutSync => PlanMeetsContract
  <2> SUFFICES ASSUME TypeOK, PlanInv, SyncParts, DagRespectedWithoutSync, phase = "planned"
               PROVE  PlanContract(dependencies, sync_boundaries, layers)
    BY DEF PlanMeetsContract
  <2>1. layers \in Seq(SUBSET Step)
    BY DEF TypeOK
  <2>2. PlacesEachStepOnce(layers)
    <3>1. \A s \in Step : \E k \in DOMAIN layers : s \in layers[k]
      BY PlannedLayers
    <3>2. ASSUME NEW j \in DOMAIN layers, NEW k \in DOMAIN layers,
                 NEW s \in layers[j], s \in layers[k]
          PROVE  j = k
      <4>1. j \in Nat /\ k \in Nat /\ depths[s] = j - 1 /\ depths[s] = k - 1
        BY <3>2, PlannedLayers
      <4> QED
        BY <4>1
    <3> QED
      BY <3>1, <3>2 DEF PlacesEachStepOnce
  <2> QED
    BY <2>1, <2>2 DEF PlanContract, SyncParts, DagRespectedWithoutSync, LayersRespectDependencies
<1> QED
  BY <1>1, TypeCorrect, PlanInvariant, SyncBoundariesPart, LayersCarryTheDag, PTL

-----------------------------------------------------------------------------
(* The recursive functions a plan is defined with.  Each is the one         *)
(* solution of its equation, whatever solution CHOOSE takes: no induction   *)
(* is needed, because the planner exhibits a solution.                      *)

\* Every set of natural numbers that is not empty has a smallest one.
LEMMA SmallestExists ==
    ASSUME NEW T \in SUBSET Nat, T # {}
    PROVE  \E x \in T : \A y \in T : ~(y < x)
<1> DEFINE R == OpToRel(<, Nat)
<1>1. \A y, x \in Nat : <<y, x>> \in R <=> y < x
  BY DEF OpToRel
<1>2. IsWellFoundedOn(R, Nat)
  BY NatLessThanWellFounded
<1> HIDE DEF R
<1>3. PICK x \in T : \A y \in T : ~(<<y, x>> \in R)
  BY <1>2, WFMin
<1> QED
  BY <1>1, <1>3

LEMMA MaxIs ==
    ASSUME NEW S \in SUBSET Nat, NEW m \in S, \A y \in S : y <= m
    PROVE  Max(S) = m
<1>1. m \in S /\ \A y \in S : m >= y
  OBVIOUS
<1>2. Max(S) \in S /\ \A y \in S : Max(S) >= y
  BY <1>1 DEF Max
<1>3. Max(S) \in Nat /\ m \in Nat /\ Max(S) >= m /\ Max(S) <= m
  BY <1>2
<1> QED
  BY <1>3

\* v is the least depth above those of D; 0 when D has none.
LeastAbove(v, D, f) ==
    /\ \A d \in D : f[d] < v
    /\ v > 0 => \E d \in D : v = f[d] + 1

LEMMA LeastAboveIsMax ==
    ASSUME NEW D, D # {}, NEW f, \A d \in D : f[d] \in Nat, NEW v \in Nat, LeastAbove(v, D, f)
    PROVE  v = 1 + Max({f[d] : d \in D})
<1>1. PICK d \in D : v = f[d] + 1
  BY DEF LeastAbove
<1>2. /\ {f[e] : e \in D} \in SUBSET Nat /\ f[d] \in {f[e] : e \in D}
      /\ \A y \in {f[e] : e \in D} : y <= f[d]
  BY <1>1 DEF LeastAbove
<1>3. Max({f[e] : e \in D}) = f[d]
  <2> DEFINE S == {f[e] : e \in D}
  <2> HIDE DEF S
  <2> QED
    BY <1>2, MaxIs DEF S
<1> QED
  BY <1>1, <1>3

\* Depths that grow along every read show that there is no cycle of reads.
LEMMA GrowingIsAcyclic ==
    ASSUME NEW graph \in Graphs, NEW f \in [Step -> Nat],
           \A s \in Step : \A d \in graph[s] : f[d] < f[s]
    PROVE  ~HasCycle(graph)
<1> SUFFICES ASSUME NEW S \in (SUBSET Step) \ {{}}, \A s \in S : graph[s] \cap S # {}
             PROVE  FALSE
  BY DEF HasCycle
<1>1. {f[s] : s \in S} \in SUBSET Nat /\ {f[s] : s \in S} # {}
  OBVIOUS
<1>2. PICK x \in {f[s] : s \in S} : \A y \in {f[s] : s \in S} : ~(y < x)
  BY <1>1, SmallestExists
<1>3. PICK s \in S : x = f[s]
  OBVIOUS
<1>4. PICK d \in S : d \in graph[s]
  OBVIOUS
<1> QED
  BY <1>2, <1>3, <1>4

\* ChainLength has one solution on an acyclic graph: two would differ on a
\* set of steps each of which reads another.
LEMMA ChainLengthIs ==
    ASSUME NEW graph \in Graphs, NEW f \in [Step -> Nat],
           \A s \in Step : LeastAbove(f[s], graph[s], f)
    PROVE  ~HasCycle(graph) /\ ChainLength(graph) = f
<1> DEFINE longest(g) == [s \in Step |-> IF graph[s] = {} THEN 0 ELSE 1 + Max({g[d] : d \in graph[s]})]
<1>1. ~HasCycle(graph)
  BY GrowingIsAcyclic DEF LeastAbove
<1>2. f = longest(f)
  <2> SUFFICES ASSUME NEW s \in Step PROVE f[s] = longest(f)[s]
    OBVIOUS
  <2>1. CASE graph[s] = {}
    BY <2>1 DEF LeastAbove
  <2>2. CASE graph[s] # {}
    <3>1. \A d \in graph[s] : f[d] \in Nat
      BY DEF Graphs
    <3>2. f[s] = 1 + Max({f[d] : d \in graph[s]})
      BY <2>2, <3>1, LeastAboveIsMax
    <3> QED
      BY <2>2, <3>2
  <2> QED
    BY <2>1, <2>2
<1>3. ChainLength(graph) = CHOOSE g : g = longest(g)
  BY DEF ChainLength
<1>4. ChainLength(graph) = longest(ChainLength(graph))
  <2> HIDE DEF longest
  <2> QED
    BY <1>2, <1>3, Zenon
<1>5. ASSUME NEW g, g = longest(g) PROVE g = f
  <2> DEFINE S == {s \in Step : g[s] # f[s]}
  <2>1. ASSUME NEW s \in S, graph[s] \cap S = {}
        PROVE  FALSE
    <3>1. \A d \in graph[s] : g[d] = f[d]
      BY <2>1 DEF Graphs
    <3>2. {g[d] : d \in graph[s]} = {f[d] : d \in graph[s]}
      BY <3>1
    <3>3. longest(g)[s] = longest(f)[s]
      BY <3>2
    <3> QED
      BY <1>2, <1>5, <3>3
  <2>2. S = {}
    BY <1>1, <2>1 DEF HasCycle
  <2>3. \A s \in Step : g[s] = f[s]
    BY <2>2
  <2>4. g = [s \in Step |-> g[s]] /\ f = [s \in Step |-> f[s]]
    BY <1>5
  <2> HIDE DEF longest, S
  <2> QED
    BY <2>3, <2>4
<1> HIDE DEF longest
<1> QED
  BY <1>1, <1>4, <1>5

\* DepthsWithSync likewise: its depths are settled from the first step on.
FloorAt(l, c, boundaries, f) ==
    IF \A b \in boundaries : b > c THEN l = 0
    ELSE \E b \in boundaries :
           /\ b <= c /\ \A a \in boundaries : a <= c => a <= b
           /\ LeastAbove(l, 0 .. (b - 1), f)

LEMMA DepthsWithSyncIs ==
    ASSUME NEW boundaries \in BoundarySets, NEW base \in [Step -> Nat], NEW f \in [Step -> Nat],
           \A s \in Step : \E l \in Nat : FloorAt(l, s, boundaries, f) /\ f[s] = Larger(base[s], l)
    PROVE  DepthsWithSync(base, boundaries) = f
<1> USE NAssumption
<1> DEFINE Before(s) == {b \in boundaries : b <= s}
           lifted(g) == [s \in Step |->
             IF Before(s) = {} THEN base[s]
             ELSE Larger(base[s], 1 + Max({g[r] : r \in 0 .. (Max(Before(s)) - 1)}))]
<1>0. \A s \in Step : s \in Nat /\ 0 .. s \subseteq Step
  BY DEF Step
<1>1. boundaries \in SUBSET (1 .. N)
  BY DEF BoundarySets
<1>1a. \A b \in boundaries : b \in Nat /\ b >= 1
  BY <1>1
<1>1b. \A s \in Step : Before(s) \in SUBSET Nat
  BY <1>1a
<1>2. ASSUME NEW s \in Step, Before(s) # {}
      PROVE  /\ Max(Before(s)) \in 1 .. s
             /\ \E l \in Nat : /\ LeastAbove(l, 0 .. (Max(Before(s)) - 1), f)
                              /\ f[s] = Larger(base[s], l)
  <2>1. PICK l \in Nat : FloorAt(l, s, boundaries, f) /\ f[s] = Larger(base[s], l)
    OBVIOUS
  <2>2. PICK b \in boundaries : /\ b <= s /\ \A a \in boundaries : a <= s => a <= b
                               /\ LeastAbove(l, 0 .. (b - 1), f)
    <3>1. ~(\A b \in boundaries : b > s)
      BY <1>0, <1>1a, <1>2
    <3> QED
      BY <2>1, <3>1 DEF FloorAt
  <2>3. b \in Before(s) /\ \A a \in Before(s) : a <= b
    BY <2>2
  <2>4. Max(Before(s)) = b
    <3> HIDE DEF Before
    <3> QED
      BY <1>1b, <2>3, MaxIs
  <2>5. b \in 1 .. s
    BY <1>0, <1>1a, <2>2
  <2> HIDE DEF Before
  <2> QED
    BY <2>1, <2>2, <2>4, <2>5
<1>3. f = lifted(f)
  <2> SUFFICES ASSUME NEW s \in Step PROVE f[s] = lifted(f)[s]
    OBVIOUS
  <2>1. CASE Before(s) = {}
    <3>1. PICK l \in Nat : FloorAt(l, s, boundaries, f) /\ f[s] = Larger(base[s], l)
      OBVIOUS
    <3>2. \A b \in boundaries : b > s
      BY <1>1, <2>1 DEF Step
    <3>3. l = 0 /\ base[s] \in Nat
      BY <3>1, <3>2 DEF FloorAt
    <3> QED
      BY <2>1, <3>1, <3>3 DEF Larger
  <2>2. CASE Before(s) # {}
    <3> DEFINE b == Max(Before(s))
    <3>1. PICK l \in Nat : LeastAbove(l, 0 .. (b - 1), f) /\ f[s] = Larger(base[s], l)
      BY <1>2, <2>2
    <3>2. b \in 1 .. s
      BY <1>2, <2>2
    <3>3. 0 .. (b - 1) # {} /\ \A r \in 0 .. (b - 1) : f[r] \in Nat
      <4>1. \A r \in 0 .. (b - 1) : r \in 0 .. s
        <5> HIDE DEF b
        <5> QED
          BY <1>0, <3>2
      <4>2. 0 \in 0 .. (b - 1)
        <5> HIDE DEF b
        <5> QED
          BY <1>0, <3>2
      <4> HIDE DEF b
      <4> QED
        BY <1>0, <4>1, <4>2
    <3>4. l = 1 + Max({f[r] : r \in 0 .. (b - 1)})
      <4> HIDE DEF b
      <4> QED
        BY <3>1, <3>3, LeastAboveIsMax
    <3> QED
      BY <2>2, <3>1, <3>4
  <2> QED
    BY <2>1, <2>2
<1>4. DepthsWithSync(base, boundaries) = CHOOSE g : g = lifted(g)
  BY DEF DepthsWithSync
<1>5. DepthsWithSync(base, boundaries) = lifted(DepthsWithSync(base, boundaries))
  <2> HIDE DEF lifted
  <2> QED
    BY <1>3, <1>4, Zenon
<1>6. ASSUME NEW g, g = lifted(g) PROVE g = f
  <2> DEFINE S == {s \in Step : g[s] # f[s]}
  <2>1. ASSUME S # {}
        PROVE  FALSE
    <3>0. S \in SUBSET Nat
      BY <1>0
    <3>1. PICK s \in S : \A r \in S : ~(r < s)
      <4> HIDE DEF S
      <4> QED
        BY <2>1, <3>0, SmallestExists
    <3>2. CASE Before(s) = {}
      BY <1>3, <1>6, <3>2
    <3>3. CASE Before(s) # {}
      <4>1. ASSUME NEW r \in 0 .. (Max(Before(s)) - 1)
            PROVE  g[r] = f[r]
        <5>1. Max(Before(s)) \in 1 .. s /\ s \in Nat
          BY <1>0, <1>2, <3>3
        <5>2. r \in 0 .. s /\ r < s
          <6> HIDE DEF Before
          <6> QED
            BY <5>1
        <5>3. r \in Step
          BY <1>0, <5>2
        <5> QED
          BY <3>1, <5>2, <5>3
      <4>2. {g[r] : r \in 0 .. (Max(Before(s)) - 1)} = {f[r] : r \in 0 .. (Max(Before(s)) - 1)}
        BY <4>1
      <4>3. lifted(g)[s] = lifted(f)[s]
        BY <4>2
      <4> QED
        BY <1>3, <1>6, <4>3
    <3> QED
      BY <3>2, <3>3
  <2>2. \A s \in Step : g[s] = f[s]
    BY <2>1
  <2>3. g = [s \in Step |-> g[s]] /\ f = [s \in Step |-> f[s]]
    BY <1>6
  <2> HIDE DEF lifted, S
  <2> QED
    BY <2>2, <2>3
<1> HIDE DEF lifted
<1> QED
  BY <1>5, <1>6

LEMMA LayersOfDepthsIs ==
    ASSUME NEW f \in [Step -> Nat], NEW plan \in Seq(SUBSET Step),
           \A k \in 1 .. Len(plan) : plan[k] = {s \in Step : f[s] = k - 1},
           LeastAbove(Len(plan), Step, f)
    PROVE  plan = LayersOfDepths(f)
<1> USE NAssumption
<1>1. CASE N = 0
  <2>1. Len(plan) = 0
    BY <1>1 DEF LeastAbove, Step
  <2>2. plan = << >>
    BY <2>1
  <2> QED
    BY <1>1, <2>2 DEF LayersOfDepths
<1>2. CASE N # 0
  <2>1. Step # {} /\ Len(plan) \in Nat
    <3>1. 0 \in Step
      BY <1>2 DEF Step
    <3> QED
      BY <3>1
  <2>2. Len(plan) = 1 + Max({f[s] : s \in Step})
    BY <2>1, LeastAboveIsMax
  <2>3. plan = [k \in 1 .. Len(plan) |-> {s \in Step : f[s] = k - 1}]
    <3>1. plan = [k \in 1 .. Len(plan) |-> plan[k]]
      OBVIOUS
    <3> QED
      BY <3>1
  <2> QED
    BY <1>2, <2>2, <2>3 DEF LayersOfDepths
<1> QED
  BY <1>1, <1>2

LEMMA LeastAboveSame ==
    ASSUME NEW v, NEW D, NEW f, NEW g, \A d \in D : g[d] = f[d], LeastAbove(v, D, f)
    PROVE  LeastAbove(v, D, g)
BY DEF LeastAbove

LEMMA LeastAboveAdds ==
    ASSUME NEW v \in Nat, NEW D, NEW d, NEW f, \A e \in D \cup {d} : f[e] \in Nat,
           LeastAbove(v, D, f)
    PROVE  LeastAbove(Larger(v, f[d] + 1), D \cup {d}, f)
<1>1. \A e \in D \cup {d} : f[e] < Larger(v, f[d] + 1)
  BY DEF LeastAbove, Larger
<1>2. \E e \in D \cup {d} : Larger(v, f[d] + 1) = f[e] + 1
  <2>1. CASE v >= f[d] + 1
    BY <2>1 DEF LeastAbove, Larger
  <2>2. CASE ~(v >= f[d] + 1)
    BY <2>2 DEF Larger
  <2> QED
    BY <2>1, <2>2
<1> QED
  BY <1>1, <1>2 DEF LeastAbove

-----------------------------------------------------------------------------
(* The planner computes these functions.                                    *)

\* What a call has folded so far is the least depth above what it has folded, and
\* the depth of a visited step the least above everything it reads.
LongestBelow ==
    /\ \A i \in Calls :
         LeastAbove(stack[i].depth, dependencies[stack[i].step] \ stack[i].todo, depths)
    /\ \A s \in Step : state[s] = "Visited" => LeastAbove(depths[s], dependencies[s], depths)

\* The depths the search ends with.
chain == ChainLength(dependencies)

\* The loop of the boundaries lifts each step it passes to the floor there.
LiftedInv ==
    /\ ~HasCycle(dependencies) /\ chain \in [Step -> Nat]
    /\ \A s \in Passed :
         \E l \in Nat : FloorAt(l, s, sync_boundaries, depths) /\ depths[s] = Larger(chain[s], l)
    /\ \A s \in Step \ Passed : depths[s] = chain[s]

\* Its two locals are the floor at the last step passed and the largest depth so far.
LocalsInv ==
    /\ FloorAt(floor, cursor - 1, sync_boundaries, depths)
    /\ IF cursor = 0
         THEN previous_max = 0
         ELSE LeastAbove(previous_max + 1, 0 .. (cursor - 1), depths)

\* There are no more layers than the placed steps need.
TightInv == Len(layers) > 0 => \E s \in Step : s < cursor /\ Len(layers) = depths[s] + 1

ExactInv ==
    /\ phase = "visit" => LongestBelow
    /\ phase \in {"sync", "fill", "planned"} => LiftedInv
    /\ phase = "sync" => LocalsInv
    /\ phase \in {"fill", "planned"} => TightInv

LEMMA ExactInit == Init => ExactInv
BY DEF Init, ExactInv, LongestBelow, Calls

LEMMA ExactEnter ==
    ASSUME TypeOK, VisitInv, LongestBelow, NEW s \in Step, Enter(s), state[s] = "Unvisited",
           UNCHANGED <<dependencies, depths>>
    PROVE  LongestBelow'
<1> DEFINE n == Len(stack)
<1>1. n \in Nat /\ Calls = 1 .. n /\ Calls' = 1 .. (n + 1)
  BY EnterCalls DEF TypeOK, Calls
<1>2. ASSUME NEW i \in 1 .. (n + 1)
      PROVE  LeastAbove(stack'[i].depth, dependencies[stack'[i].step] \ stack'[i].todo, depths)
  <2>1. CASE i \in 1 .. n
    BY <1>1, <2>1, EnterCalls DEF LongestBelow
  <2>2. CASE i = n + 1
    <3>1. stack'[i].depth = 0 /\ dependencies[stack'[i].step] \ stack'[i].todo = {}
      BY <2>2, EnterCalls
    <3> QED
      BY <3>1 DEF LeastAbove
  <2> QED
    BY <1>1, <2>1, <2>2
<1>3. \A r \in Step : state'[r] = "Visited" => state[r] = "Visited"
  BY DEF Enter, TypeOK
<1> QED
  BY <1>1, <1>2, <1>3 DEF LongestBelow

LEMMA ExactFold ==
    ASSUME TypeOK, VisitInv, LongestBelow, NEW d \in Step, FoldDependency(d)
    PROVE  LongestBelow'
<1> DEFINE n == Len(stack)
           frame == [step |-> Top.step, todo |-> Top.todo \ {d},
                     depth |-> Larger(Top.depth, depths[d] + 1)]
<1>1. /\ phase = "visit" /\ stack # << >> /\ Continue(frame)
      /\ d \in Top.todo /\ UNCHANGED <<dependencies, state, depths>>
  BY DEF FoldDependency, NextDependency, input
<1>2. /\ Top \in Frame /\ n \in 1 .. n /\ n \in Nat /\ Calls = 1 .. n
      /\ Top.step \in Step /\ Top.todo \subseteq Step /\ Top.depth \in Nat
  BY <1>1, TopIsFrame DEF Calls, Frame
<1>3. frame \in Frame
  BY <1>1, <1>2 DEF Frame, Larger, TypeOK
<1>4. /\ Calls' = 1 .. n
      /\ \A i \in 1 .. n : stack'[i] = IF i = n THEN frame ELSE stack[i]
  BY <1>1, <1>2, <1>3, ContinueCalls DEF Calls
<1> DEFINE folded == dependencies[Top.step] \ Top.todo
<1>5. dependencies[Top.step] \ (Top.todo \ {d}) = folded \cup {d}
  BY <1>1, <1>2 DEF VisitInv, FramesFollowReads, Top
<1>6. LeastAbove(Larger(Top.depth, depths[d] + 1), folded \cup {d}, depths)
  <2>1. LeastAbove(Top.depth, folded, depths)
    BY <1>2 DEF LongestBelow, Top
  <2>2. \A e \in folded \cup {d} : depths[e] \in Nat
    BY <1>2 DEF TypeOK, Graphs
  <2> HIDE DEF folded
  <2> QED
    BY <1>2, <2>1, <2>2, LeastAboveAdds
<1>7. ASSUME NEW i \in 1 .. n
      PROVE  LeastAbove(stack'[i].depth, dependencies[stack'[i].step] \ stack'[i].todo, depths)
  <2>1. CASE i = n
    <3>1. stack'[i] = frame
      BY <1>4, <2>1
    <3>2. /\ stack'[i].depth = Larger(Top.depth, depths[d] + 1)
          /\ dependencies[stack'[i].step] \ stack'[i].todo = folded \cup {d}
      BY <1>5, <3>1
    <3> HIDE DEF folded, frame
    <3> QED
      BY <1>6, <3>2
  <2>2. CASE i # n
    BY <1>2, <1>4, <2>2 DEF LongestBelow
  <2> QED
    BY <2>1, <2>2
<1> QED
  BY <1>1, <1>4, <1>7 DEF LongestBelow

LEMMA ExactReturn ==
    ASSUME TypeOK, VisitInv, LongestBelow, Return
    PROVE  LongestBelow'
<1> DEFINE n == Len(stack)
           t == Top.step
<1>1. /\ phase = "visit" /\ stack # << >> /\ Top.todo = {}
      /\ UNCHANGED dependencies /\ stack' = Pop
  BY DEF Return, input
<1>2. Top \in Frame /\ n \in 1 .. n /\ n \in Nat /\ Calls = 1 .. n /\ t \in Step
  BY <1>1, TopIsFrame DEF Calls, Frame
<1>3. /\ Calls' = 1 .. (n - 1)
      /\ \A i \in 1 .. (n - 1) : i \in 1 .. n /\ stack'[i] = stack[i]
  BY <1>1, <1>2, PopCalls DEF Calls
<1>4. \A r \in Step : /\ state'[r] = IF r = t THEN "Visited" ELSE state[r]
                      /\ depths'[r] = IF r = t THEN Top.depth ELSE depths[r]
  BY <1>2 DEF Return, TypeOK
<1>5. state[t] = "Visiting"
  BY <1>2 DEF VisitInv, FramesAreVisiting, Top
<1>6. \A e \in Step : state[e] = "Visited" => depths'[e] = depths[e]
  BY <1>4, <1>5
<1>7. ASSUME NEW i \in 1 .. n
      PROVE  LeastAbove(stack[i].depth, dependencies[stack[i].step] \ stack[i].todo, depths')
  <2> DEFINE folded == dependencies[stack[i].step] \ stack[i].todo
  <2>1. LeastAbove(stack[i].depth, folded, depths)
    BY <1>2 DEF LongestBelow
  <2>2. \A e \in folded : e \in Step /\ state[e] = "Visited"
    BY <1>1, <1>2, CallsAreFrames DEF VisitInv, FramesCountReads, TypeOK, Graphs
  <2>3. \A e \in folded : depths'[e] = depths[e]
    BY <1>6, <2>2
  <2> HIDE DEF folded
  <2> QED
    BY <2>1, <2>3, LeastAboveSame DEF folded
<1>8. ASSUME NEW r \in Step, state'[r] = "Visited"
      PROVE  LeastAbove(depths'[r], dependencies[r], depths')
  <2>1. CASE r = t
    <3>1. LeastAbove(stack[n].depth, dependencies[stack[n].step] \ stack[n].todo, depths')
      BY <1>2, <1>7
    <3>2. /\ stack[n].depth = depths'[r] /\ stack[n].step = r
          /\ dependencies[stack[n].step] \ stack[n].todo = dependencies[r]
      BY <1>1, <1>4, <2>1 DEF Top
    <3> QED
      BY <3>1, <3>2
  <2>2. CASE r # t
    <3>1. state[r] = "Visited" /\ depths'[r] = depths[r]
      BY <1>4, <1>8, <2>2
    <3>2. LeastAbove(depths[r], dependencies[r], depths)
      BY <3>1 DEF LongestBelow
    <3>3. \A e \in dependencies[r] : e \in Step /\ state[e] = "Visited"
      BY <1>1, <3>1 DEF VisitInv, VisitedAboveReads, TypeOK, Graphs
    <3>4. \A e \in dependencies[r] : depths'[e] = depths[e]
      BY <1>6, <3>3
    <3> QED
      BY <3>1, <3>2, <3>4, LeastAboveSame
  <2> QED
    BY <2>1, <2>2
<1> QED
  BY <1>1, <1>3, <1>7, <1>8 DEF LongestBelow

\* The search has ended: the depths are the longest chains of reads.
LEMMA ExactEndVisits ==
    ASSUME TypeOK, VisitInv, LongestBelow, EndVisits
    PROVE  LiftedInv' /\ LocalsInv'
<1> USE NAssumption
<1>1. /\ phase = "visit" /\ phase' = "sync" /\ cursor' = 0
      /\ UNCHANGED <<dependencies, sync_boundaries, depths, floor, previous_max>>
  BY DEF EndVisits, input, locals
<1>2. \A s \in Step : state[s] = "Visited"
  BY DEF EndVisits, VisitInv, FramesAreVisiting, Calls, TypeOK, Step
<1>3. /\ dependencies \in Graphs /\ depths \in [Step -> Nat]
      /\ \A s \in Step : LeastAbove(depths[s], dependencies[s], depths)
  BY <1>2 DEF LongestBelow, TypeOK
<1>4. ~HasCycle(dependencies) /\ chain = depths
  BY <1>3, ChainLengthIs DEF chain
<1>5. Passed' = {} /\ floor = 0 /\ previous_max = 0
  BY <1>1 DEF Passed, Step, VisitInv
<1>6. LiftedInv'
  BY <1>1, <1>3, <1>4, <1>5 DEF LiftedInv, chain
<1>7. \A b \in sync_boundaries : b > 0 - 1
  BY DEF TypeOK, BoundarySets
<1> QED
  BY <1>1, <1>5, <1>6, <1>7 DEF LocalsInv, FloorAt

LEMMA ExactBoundary ==
    ASSUME TypeOK, LiftedInv, LocalsInv, ApplyBoundary
    PROVE  LiftedInv' /\ LocalsInv'
<1> USE NAssumption
<1> DEFINE c == cursor
           P == {s \in Step : s < c}
<1>1. /\ phase = "sync" /\ phase' = "sync" /\ c \in Step /\ c \in Nat /\ cursor' = c + 1
      /\ UNCHANGED <<dependencies, sync_boundaries>>
  BY DEF ApplyBoundary, TypeOK, Step, input
<1>2. /\ Passed = P /\ Passed' = P \cup {c} /\ c \notin P
      /\ \A s \in P : s < c /\ s \in Nat
      /\ \A s \in Nat : s < c => s \in P
  BY <1>1 DEF Passed, Step
<1>3. /\ floor' = IF c \in sync_boundaries THEN previous_max + 1 ELSE floor
      /\ floor \in Nat /\ previous_max \in Nat /\ floor' \in Nat /\ previous_max' \in Nat
  BY DEF ApplyBoundary, TypeOK, Larger
<1>4. /\ \A s \in Step : s # c => depths'[s] = depths[s]
      /\ depths'[c] = Larger(depths[c], floor')
      /\ previous_max' = Larger(previous_max, depths'[c])
      /\ \A s \in Step : depths[s] \in Nat /\ depths'[s] \in Nat
  BY <1>1, <1>3 DEF ApplyBoundary, TypeOK, Larger
<1>5. \A b \in sync_boundaries : b \in Nat /\ b >= 1
  BY DEF TypeOK, BoundarySets
\* Depths below a passed boundary do not change.
<1>6. ASSUME NEW l, NEW s \in Int, s <= c, FloorAt(l, s, sync_boundaries, depths)
      PROVE  FloorAt(l, s, sync_boundaries, depths')
  <2>1. CASE \A b \in sync_boundaries : b > s
    BY <1>6, <2>1 DEF FloorAt
  <2>2. CASE ~\A b \in sync_boundaries : b > s
    <3>1. PICK b \in sync_boundaries :
            /\ b <= s /\ \A a \in sync_boundaries : a <= s => a <= b
            /\ LeastAbove(l, 0 .. (b - 1), depths)
      BY <1>6, <2>2 DEF FloorAt
    <3>2. \A d \in 0 .. (b - 1) : d \in Nat /\ d < c
      BY <1>1, <1>5, <1>6, <3>1
    <3>3. \A d \in 0 .. (b - 1) : depths'[d] = depths[d]
      BY <1>1, <1>2, <1>4, <3>2
    <3>4. LeastAbove(l, 0 .. (b - 1), depths')
      BY <3>1, <3>3, LeastAboveSame
    <3> QED
      BY <2>2, <3>1, <3>4 DEF FloorAt
  <2> QED
    BY <2>1, <2>2
<1>7. FloorAt(floor', c, sync_boundaries, depths')
  <2>1. CASE c \in sync_boundaries
    <3>1. c # 0 /\ floor' = previous_max + 1
      BY <1>3, <1>5, <2>1
    <3>2. LeastAbove(floor', 0 .. (c - 1), depths)
      BY <3>1 DEF LocalsInv
    <3>3. \A d \in 0 .. (c - 1) : d \in Nat /\ d < c
      BY <1>1
    <3>4. \A d \in 0 .. (c - 1) : depths'[d] = depths[d]
      BY <1>1, <1>2, <1>4, <3>3
    <3>5. LeastAbove(floor', 0 .. (c - 1), depths')
      BY <3>2, <3>4, LeastAboveSame
    <3>6. c <= c /\ ~(c > c) /\ \A a \in sync_boundaries : a <= c => a <= c
      BY <1>1
    <3> QED
      BY <2>1, <3>5, <3>6 DEF FloorAt
  <2>2. CASE c \notin sync_boundaries
    <3>1. FloorAt(floor, c - 1, sync_boundaries, depths')
      BY <1>1, <1>6 DEF LocalsInv
    <3>2. \A b \in sync_boundaries : (b <= c <=> b <= c - 1) /\ (b > c <=> b > c - 1)
      BY <1>1, <1>5, <2>2
    <3> QED
      BY <1>3, <2>2, <3>1, <3>2 DEF FloorAt
  <2> QED
    BY <2>1, <2>2
<1>8. LiftedInv'
  <2>1. chain' = chain
    BY <1>1 DEF chain
  <2>2. \A s \in P \cup {c} :
          \E l \in Nat : FloorAt(l, s, sync_boundaries, depths') /\ depths'[s] = Larger(chain[s], l)
    <3>1. ASSUME NEW s \in P
          PROVE  \E l \in Nat : FloorAt(l, s, sync_boundaries, depths') /\ depths'[s] = Larger(chain[s], l)
      <4>1. PICK l \in Nat : FloorAt(l, s, sync_boundaries, depths) /\ depths[s] = Larger(chain[s], l)
        BY <1>2 DEF LiftedInv
      <4>2. s \in Int /\ s <= c /\ depths'[s] = depths[s]
        BY <1>1, <1>2, <1>4
      <4> QED
        BY <1>6, <4>1, <4>2
    <3>2. depths[c] = chain[c]
      BY <1>1, <1>2 DEF LiftedInv
    <3> QED
      BY <1>3, <1>4, <1>7, <3>1, <3>2
  <2>3. \A s \in Step \ (P \cup {c}) : depths'[s] = chain[s]
    BY <1>2, <1>4 DEF LiftedInv
  <2> QED
    BY <1>1, <1>2, <2>1, <2>2, <2>3 DEF LiftedInv
<1>9. LeastAbove(previous_max' + 1, 0 .. c, depths')
  <2>0. \A d \in 0 .. c : d \in Step
    BY <1>1 DEF Step
  <2>1. CASE c = 0
    <3>1. previous_max = 0
      BY <2>1 DEF LocalsInv
    <3>2. previous_max' = depths'[c] /\ 0 .. c = {c}
      BY <1>1, <1>4, <2>1, <3>1 DEF Larger
    <3> QED
      BY <1>1, <1>4, <3>2 DEF LeastAbove
  <2>2. CASE c # 0
    <3>1. LeastAbove(previous_max + 1, 0 .. (c - 1), depths)
      BY <2>2 DEF LocalsInv
    <3>2. \A d \in 0 .. (c - 1) : d \in Nat /\ d < c
      BY <1>1
    <3>3. \A d \in 0 .. (c - 1) : depths'[d] = depths[d]
      BY <1>1, <1>2, <1>4, <3>2
    <3>4. LeastAbove(previous_max + 1, 0 .. (c - 1), depths')
      BY <3>1, <3>3, LeastAboveSame
    <3>5. 0 .. c = (0 .. (c - 1)) \cup {c}
      BY <1>1
    <3>6. \A e \in (0 .. (c - 1)) \cup {c} : depths'[e] \in Nat
      BY <1>4, <2>0, <3>5
    <3>7. LeastAbove(Larger(previous_max + 1, depths'[c] + 1), (0 .. (c - 1)) \cup {c}, depths')
      <4>1. previous_max + 1 \in Nat
        BY <1>3
      <4> QED
        BY <3>4, <3>6, <4>1, LeastAboveAdds
    <3>8. Larger(previous_max + 1, depths'[c] + 1) = previous_max' + 1
      BY <1>1, <1>3, <1>4 DEF Larger
    <3> QED
      BY <3>5, <3>7, <3>8
  <2> QED
    BY <2>1, <2>2
<1>10. cursor' # 0 /\ cursor' - 1 = c
  BY <1>1
<1>11. LocalsInv'
  BY <1>1, <1>7, <1>9, <1>10 DEF LocalsInv
<1> QED
  BY <1>8, <1>11

LEMMA ExactPlace ==
    ASSUME TypeOK, FillInv, LiftedInv, TightInv, PlaceStep
    PROVE  LiftedInv' /\ TightInv'
<1> USE NAssumption
<1>1. /\ phase = "fill" /\ phase' = "fill" /\ cursor \in Step /\ cursor \in Nat /\ cursor' = cursor + 1
      /\ UNCHANGED <<dependencies, sync_boundaries, depths>>
  BY DEF PlaceStep, TypeOK, Step, input
<1>2. Len(layers) \in Nat /\ depths[cursor] \in Nat
  BY <1>1 DEF TypeOK
<1> DEFINE m == Larger(Len(layers), depths[cursor] + 1)
<1>3. m \in Nat
  BY <1>2 DEF Larger
<1>4. Len(layers') = m
  BY <1>3 DEF PlaceStep
<1>5. LiftedInv'
  BY <1>1 DEF LiftedInv, chain, Passed
<1>6. TightInv'
  <2>1. CASE Len(layers) >= depths[cursor] + 1
    <3>1. m = Len(layers) /\ Len(layers) > 0
      BY <1>2, <2>1 DEF Larger
    <3>2. PICK s \in Step : s < cursor /\ Len(layers) = depths[s] + 1
      BY <3>1 DEF TightInv
    <3>3. s < cursor'
      BY <1>1, <3>2 DEF Step
    <3> QED
      BY <1>1, <1>4, <3>1, <3>2, <3>3 DEF TightInv
  <2>2. CASE ~(Len(layers) >= depths[cursor] + 1)
    <3>1. m = depths[cursor] + 1 /\ cursor < cursor'
      BY <1>1, <2>2 DEF Larger
    <3> QED
      BY <1>1, <1>4, <3>1 DEF TightInv
  <2> QED
    BY <2>1, <2>2
<1> QED
  BY <1>5, <1>6

LEMMA ExactStep == TypeOK /\ PlanInv /\ ExactInv /\ [Next]_vars => ExactInv'
<1> SUFFICES ASSUME TypeOK, PlanInv, ExactInv, [Next]_vars
             PROVE  ExactInv'
  OBVIOUS
<1> USE NAssumption DEF input, locals
<1>0. VisitInv /\ FillInv
  BY DEF PlanInv
<1>1. CASE VisitRoot
  <2>1. /\ phase = "visit" /\ phase' = "visit" /\ stack = << >> /\ cursor \in Step
        /\ UNCHANGED <<dependencies, depths>>
    BY <1>1 DEF VisitRoot, TypeOK, Step
  <2>2. LongestBelow
    BY <2>1 DEF ExactInv
  <2>3. CASE state[cursor] = "Visited"
    <3>1. UNCHANGED <<stack, state>>
      BY <1>1, <2>3 DEF VisitRoot
    <3>2. LongestBelow'
      BY <2>1, <2>2, <3>1 DEF LongestBelow, Calls
    <3> QED
      BY <2>1, <3>2 DEF ExactInv
  <2>4. CASE state[cursor] # "Visited"
    <3>1. Enter(cursor)
      BY <1>1, <2>4 DEF VisitRoot
    <3>2. state[cursor] = "Unvisited"
      BY <1>0, <2>1, <2>4 DEF VisitInv, FramesAreVisiting, Calls, TypeOK
    <3>3. LongestBelow'
      BY <1>0, <2>1, <2>2, <3>1, <3>2, ExactEnter
    <3> QED
      BY <2>1, <3>3 DEF ExactInv
  <2> QED
    BY <2>3, <2>4
<1>2. ASSUME NEW d \in Step, FoldDependency(d)
      PROVE  ExactInv'
  <2>1. phase = "visit" /\ phase' = "visit"
    BY <1>2 DEF FoldDependency, NextDependency
  <2> QED
    BY <1>0, <1>2, <2>1, ExactFold DEF ExactInv
<1>3. ASSUME NEW d \in Step, Recurse(d)
      PROVE  ExactInv'
  <2>1. /\ phase = "visit" /\ phase' = "visit" /\ state[d] = "Unvisited" /\ Enter(d)
        /\ UNCHANGED <<dependencies, depths>>
    BY <1>3 DEF Recurse, NextDependency
  <2> QED
    BY <1>0, <2>1, ExactEnter DEF ExactInv
<1>4. ASSUME NEW d \in Step, FindCycle(d)
      PROVE  ExactInv'
  BY <1>4 DEF FindCycle, ExactInv
<1>5. CASE Return
  <2>1. phase = "visit" /\ phase' = "visit"
    BY <1>5 DEF Return
  <2> QED
    BY <1>0, <1>5, <2>1, ExactReturn DEF ExactInv
<1>6. CASE EndVisits
  <2>1. phase = "visit" /\ phase' = "sync"
    BY <1>6 DEF EndVisits
  <2> QED
    BY <1>0, <1>6, <2>1, ExactEndVisits DEF ExactInv
<1>7. CASE ApplyBoundary
  <2>1. phase = "sync" /\ phase' = "sync"
    BY <1>7 DEF ApplyBoundary
  <2> QED
    BY <1>7, <2>1, ExactBoundary DEF ExactInv
<1>8. CASE EndBoundaries
  <2>1. /\ phase = "sync" /\ phase' = "fill" /\ cursor = N
        /\ UNCHANGED <<dependencies, sync_boundaries, depths, layers>>
    BY <1>8 DEF EndBoundaries
  <2>2. Passed' = Passed
    BY <2>1 DEF Passed, Step
  <2>3. LiftedInv'
    BY <2>1, <2>2 DEF ExactInv, LiftedInv, chain
  <2>4. Len(layers) = 0
    BY <1>0, <2>1 DEF FillInv
  <2> QED
    BY <2>1, <2>3, <2>4 DEF ExactInv, TightInv
<1>9. CASE PlaceStep
  <2>1. phase = "fill" /\ phase' = "fill"
    BY <1>9 DEF PlaceStep
  <2> QED
    BY <1>0, <1>9, <2>1, ExactPlace DEF ExactInv
<1>10. CASE EndFill
  BY <1>10 DEF EndFill, ExactInv, LiftedInv, chain, Passed, TightInv
<1>11. CASE UNCHANGED vars
  BY <1>11 DEF vars, ExactInv, LongestBelow, Calls, LiftedInv, chain, Passed, LocalsInv, TightInv
<1> QED
  BY <1>1, <1>2, <1>3, <1>4, <1>5, <1>6, <1>7, <1>8, <1>9, <1>10, <1>11
  DEF Next, Returned

LEMMA ExactInvariant == Spec => []ExactInv
<1> QED
  BY ExactInit, ExactStep, TypeCorrect, PlanInvariant, PTL DEF Spec

\* A cycle of reads is reported, and nothing else is: for any number of steps, an
\* endpoint gets a plan exactly when step_depth has found no step that reads itself
\* through others.
THEOREM CyclesAreDetected == Spec => []CycleDetected
<1>1. PlanInv /\ ExactInv => CycleDetected
  BY DEF PlanInv, ExactInv, LiftedInv, CycleDetected
<1> QED
  BY <1>1, PlanInvariant, ExactInvariant, PTL

\* The planner computes the plan as defined without it: the search with its memo
\* table, the loop of the boundaries and the loop that fills the layers give longest
\* chains of reads, lifted past the boundaries, for any endpoint without a cycle.
THEOREM PlanIsDefined == Spec => []PlanIsPlanOf
<1>1. TypeOK /\ PlanInv /\ ExactInv => PlanIsPlanOf
  <2> SUFFICES ASSUME TypeOK, PlanInv, ExactInv, phase = "planned"
               PROVE  layers = PlanOf(dependencies, sync_boundaries)
    BY DEF PlanIsPlanOf
  <2>1. Passed = Step /\ \A s \in Step : depths[s] + 1 \in DOMAIN layers
    BY PlannedLayers
  <2>2. /\ sync_boundaries \in BoundarySets /\ depths \in [Step -> Nat] /\ chain \in [Step -> Nat]
        /\ layers \in Seq(SUBSET Step) /\ Len(layers) \in Nat /\ DOMAIN layers = 1 .. Len(layers)
    BY DEF TypeOK, ExactInv, LiftedInv
  <2>3. DepthsWithSync(chain, sync_boundaries) = depths
    <3>1. \A s \in Step : \E l \in Nat :
            FloorAt(l, s, sync_boundaries, depths) /\ depths[s] = Larger(chain[s], l)
      BY <2>1 DEF ExactInv, LiftedInv
    <3> QED
      BY <2>2, <3>1, DepthsWithSyncIs
  <2>4. \A k \in 1 .. Len(layers) : layers[k] = {s \in Step : depths[s] = k - 1}
    <3>1. cursor = N /\ \A s \in Step : s < N
      BY NAssumption DEF PlanInv, FillInv, Step
    <3> QED
      BY <3>1 DEF PlanInv, FillInv
  <2>5. LeastAbove(Len(layers), Step, depths)
    <3>1. \A s \in Step : depths[s] < Len(layers)
      BY <2>1, <2>2
    <3> QED
      BY <3>1 DEF ExactInv, TightInv, LeastAbove
  <2>6. layers = LayersOfDepths(depths)
    BY <2>2, <2>4, <2>5, LayersOfDepthsIs
  <2> QED
    BY <2>3, <2>6 DEF PlanOf, chain
<1> QED
  BY <1>1, TypeCorrect, PlanInvariant, ExactInvariant, PTL

-----------------------------------------------------------------------------
(* Every endpoint without a cycle of reads has a plan, and the plan meets   *)
(* the contract, whether or not a planner is run.                           *)

\* There is a least depth above any steps.
LEMMA LeastAboveExists ==
    ASSUME NEW D \in SUBSET Step, NEW f \in [Step -> Nat]
    PROVE  \E v \in Nat : LeastAbove(v, D, f)
<1> USE NAssumption
<1> DEFINE Above(k) == {v \in Nat : \A d \in D : d < k => f[d] < v}
           T == {k \in Nat : Above(k) = {}}
<1>0. \A d \in D : d \in Nat /\ d < N /\ f[d] \in Nat
  BY DEF Step
<1>1. T = {}
  <2> SUFFICES ASSUME T # {} PROVE FALSE
    OBVIOUS
  <2>1. PICK k \in T : \A j \in T : ~(j < k)
    <3>1. T \in SUBSET Nat
      OBVIOUS
    <3> HIDE DEF T
    <3> QED
      BY <3>1, SmallestExists
  <2>2. k # 0
    <3>1. 0 \in Above(0)
      BY <1>0
    <3> QED
      BY <2>1, <3>1
  <2>3. k \in Nat /\ k - 1 \in Nat /\ k - 1 < k
    BY <2>1, <2>2
  <2>4. PICK v : v \in Above(k - 1)
    BY <2>1, <2>3
  <2>5. CASE k - 1 \in D
    <3>1. Larger(v, f[k - 1] + 1) \in Nat
      BY <1>0, <2>4, <2>5 DEF Larger
    <3>2. \A d \in D : d < k => d < k - 1 \/ d = k - 1
      <4> HIDE DEF T
      <4> QED
        BY <1>0, <2>3
    <3>3. \A d \in D : d < k => f[d] < Larger(v, f[k - 1] + 1)
      BY <1>0, <2>4, <2>5, <3>2 DEF Larger
    <3> QED
      BY <2>1, <3>1, <3>3
  <2>6. CASE k - 1 \notin D
    <3>1. \A d \in D : d < k => d < k - 1
      <4> HIDE DEF T
      <4> QED
        BY <1>0, <2>3, <2>6
    <3> QED
      BY <2>1, <2>4, <3>1
  <2> QED
    BY <2>5, <2>6
<1>2. PICK v \in Above(N) : \A w \in Above(N) : ~(w < v)
  <2>1. Above(N) \in SUBSET Nat /\ Above(N) # {}
    BY <1>1
  <2> HIDE DEF Above
  <2> QED
    BY <2>1, SmallestExists
<1>3. \A d \in D : f[d] < v
  BY <1>0, <1>2
<1>4. ASSUME v > 0 PROVE \E d \in D : v = f[d] + 1
  <2>1. v - 1 \in Nat /\ v - 1 < v
    BY <1>2, <1>4
  <2>2. PICK d \in D : ~(f[d] < v - 1)
    BY <1>2, <2>1
  <2>3. v = f[d] + 1
    BY <1>0, <1>2, <1>3, <2>2
  <2> QED
    BY <2>3
<1> QED
  BY <1>2, <1>3, <1>4 DEF LeastAbove

\* Steps that read nothing but steps with a depth can be given one, and in an acyclic
\* graph there is such a step until all have one.
LEMMA ChainsExist ==
    ASSUME NEW graph \in Graphs, ~HasCycle(graph)
    PROVE  \E f \in [Step -> Nat] : \A s \in Step : LeastAbove(f[s], graph[s], f)
<1> USE NAssumption
<1> DEFINE Solved(S, f) == \A s \in S : graph[s] \subseteq S /\ LeastAbove(f[s], graph[s], f)
           Good == {S \in SUBSET Step : \E f \in [Step -> Nat] : Solved(S, f)}
           Left(S) == Cardinality(Step \ S)
           T == {Left(S) : S \in Good}
<1>1. IsFiniteSet(Step)
  BY FS_Interval DEF Step
<1>2. \A S \in SUBSET Step : IsFiniteSet(Step \ S) /\ Left(S) \in Nat
  BY <1>1, FS_Subset, FS_CardinalityType
<1>3. {} \in Good
  <2>1. [s \in Step |-> 0] \in [Step -> Nat] /\ Solved({}, [s \in Step |-> 0])
    OBVIOUS
  <2> HIDE DEF Solved
  <2> QED
    BY <2>1
<1>4. PICK S \in Good : \A R \in Good : ~(Left(R) < Left(S))
  <2>1. T \in SUBSET Nat /\ T # {}
    <3> HIDE DEF Left
    <3> QED
      BY <1>2, <1>3
  <2>2. PICK x \in T : \A y \in T : ~(y < x)
    <3> HIDE DEF T
    <3> QED
      BY <2>1, SmallestExists
  <2> HIDE DEF Left, Good
  <2> QED
    BY <2>2
<1>5. PICK f \in [Step -> Nat] : Solved(S, f)
  BY <1>4
<1>6. ASSUME NEW s \in Step \ S, graph[s] \subseteq S
      PROVE  FALSE
  <2>0. graph[s] \in SUBSET Step
    BY DEF Graphs
  <2>1. PICK v \in Nat : LeastAbove(v, graph[s], f)
    BY <2>0, LeastAboveExists
  <2> DEFINE g == [f EXCEPT ![s] = v]
  <2>2. g \in [Step -> Nat] /\ g[s] = v /\ \A t \in S : t # s /\ g[t] = f[t]
    BY <1>4
  <2>3. \A t \in S : graph[t] \subseteq S /\ LeastAbove(f[t], graph[t], f)
    BY <1>5
  <2>4. ASSUME NEW t \in S PROVE LeastAbove(g[t], graph[t], g)
    <3>1. \A d \in graph[t] : g[d] = f[d]
      BY <2>2, <2>3
    <3> HIDE DEF g
    <3> QED
      BY <2>2, <2>3, <3>1, LeastAboveSame
  <2>5. LeastAbove(g[s], graph[s], g)
    <3>1. \A d \in graph[s] : g[d] = f[d]
      BY <1>6, <2>2
    <3> HIDE DEF g
    <3> QED
      BY <2>1, <2>2, <3>1, LeastAboveSame
  <2>6. Solved(S \cup {s}, g)
    <3> HIDE DEF g
    <3> QED
      BY <1>6, <2>3, <2>4, <2>5
  <2>7. S \cup {s} \in Good
    <3> HIDE DEF g, Solved
    <3> QED
      BY <1>4, <2>2, <2>6
  <2>8. Left(S \cup {s}) < Left(S)
    <3>1. Step \ (S \cup {s}) = (Step \ S) \ {s} /\ s \in Step \ S
      OBVIOUS
    <3>2. Cardinality((Step \ S) \ {s}) = Cardinality(Step \ S) - 1
      BY <1>2, <1>4, FS_RemoveElement
    <3>3. Left(S) \in Nat
      BY <1>2, <1>4
    <3> QED
      BY <3>1, <3>2, <3>3
  <2> HIDE DEF Left, Good
  <2> QED
    BY <1>4, <2>7, <2>8
<1>7. Step \ S = {}
  <2> SUFFICES ASSUME Step \ S # {} PROVE FALSE
    OBVIOUS
  <2>1. Step \ S \in (SUBSET Step) \ {{}}
    OBVIOUS
  <2>2. PICK s \in Step \ S : graph[s] \cap (Step \ S) = {}
    BY <2>1 DEF HasCycle
  <2>3. graph[s] \subseteq S
    BY <2>2 DEF Graphs
  <2> QED
    BY <1>6, <2>3
<1>8. \A s \in Step : LeastAbove(f[s], graph[s], f)
  BY <1>5, <1>7
<1> QED
  BY <1>8

\* Where the floor is depends on the steps before a boundary only.
LEMMA FloorExists ==
    ASSUME NEW boundaries \in BoundarySets, NEW f \in [Step -> Nat], NEW s \in Step
    PROVE  \E l \in Nat : FloorAt(l, s, boundaries, f)
<1> USE NAssumption
<1>1. \A b \in boundaries : b \in Nat /\ b >= 1
  BY DEF BoundarySets
<1>2. s \in Nat /\ 0 .. s \subseteq Step
  BY DEF Step
<1>3. CASE \A b \in boundaries : b > s
  BY <1>3 DEF FloorAt
<1>4. ASSUME NEW c \in boundaries, ~(c > s)
      PROVE  \E l \in Nat : FloorAt(l, s, boundaries, f)
  <2> DEFINE T == {s - b : b \in {a \in boundaries : a <= s}}
  <2>1. T \in SUBSET Nat /\ T # {}
    BY <1>1, <1>2, <1>4
  <2>2. PICK x \in T : \A y \in T : ~(y < x)
    <3> HIDE DEF T
    <3> QED
      BY <2>1, SmallestExists
  <2>3. PICK b \in boundaries : b <= s /\ x = s - b
    BY <2>2
  <2>4. \A a \in boundaries : a <= s => a <= b
    BY <1>1, <1>2, <2>2, <2>3
  <2>5. 0 .. (b - 1) \in SUBSET Step
    BY <1>1, <1>2, <2>3
  <2>6. PICK l \in Nat : LeastAbove(l, 0 .. (b - 1), f)
    BY <2>5, LeastAboveExists
  <2> QED
    BY <1>4, <2>3, <2>4, <2>6 DEF FloorAt
<1> QED
  BY <1>3, <1>4

LEMMA FloorSame ==
    ASSUME NEW boundaries \in BoundarySets, NEW f, NEW g, NEW s \in Step, NEW l \in Nat,
           \A r \in Step : r < s => g[r] = f[r], FloorAt(l, s, boundaries, f)
    PROVE  FloorAt(l, s, boundaries, g)
<1> USE NAssumption
<1>1. CASE \A b \in boundaries : b > s
  BY <1>1 DEF FloorAt
<1>2. CASE ~\A b \in boundaries : b > s
  <2>1. PICK b \in boundaries : /\ b <= s /\ \A a \in boundaries : a <= s => a <= b
                               /\ LeastAbove(l, 0 .. (b - 1), f)
    BY <1>2 DEF FloorAt
  <2>2. b \in Nat /\ s \in Nat /\ s < N
    BY DEF BoundarySets, Step
  <2>3. \A d \in 0 .. (b - 1) : d \in Step /\ d < s
    BY <2>1, <2>2 DEF Step
  <2>4. \A d \in 0 .. (b - 1) : g[d] = f[d]
    BY <2>3
  <2>5. LeastAbove(l, 0 .. (b - 1), g)
    BY <2>1, <2>4, LeastAboveSame
  <2> QED
    BY <1>2, <2>1, <2>5 DEF FloorAt
<1> QED
  BY <1>1, <1>2

\* Depths that are lifted past the boundaries exist, one step after another.
Lifted(boundaries, base, f, s) ==
    \E l \in Nat : FloorAt(l, s, boundaries, f) /\ f[s] = Larger(base[s], l)

LEMMA LiftsExist ==
    ASSUME NEW boundaries \in BoundarySets, NEW base \in [Step -> Nat]
    PROVE  \E f \in [Step -> Nat] : \A s \in Step : Lifted(boundaries, base, f, s)
<1> USE NAssumption
<1> DEFINE Up(k) == {f \in [Step -> Nat] : \A s \in Step : s < k => Lifted(boundaries, base, f, s)}
           T == {k \in Nat : k <= N /\ Up(k) = {}}
<1>0. \A s \in Step : s \in Nat /\ s < N
  BY DEF Step
<1>1. T = {}
  <2> SUFFICES ASSUME T # {} PROVE FALSE
    OBVIOUS
  <2>1. PICK k \in T : \A j \in T : ~(j < k)
    <3>1. T \in SUBSET Nat
      OBVIOUS
    <3> HIDE DEF T
    <3> QED
      BY <3>1, SmallestExists
  <2>2. k # 0
    <3>1. base \in Up(0)
      BY <1>0
    <3> QED
      BY <2>1, <3>1
  <2>3. k \in Nat /\ k - 1 \in Step /\ k - 1 \in Nat /\ k - 1 < k /\ k - 1 <= N
    BY <2>1, <2>2 DEF Step
  <2>4. PICK f \in [Step -> Nat] : f \in Up(k - 1)
    <3>1. Up(k - 1) # {}
      BY <2>1, <2>3
    <3> QED
      BY <3>1
  <2>5. PICK l \in Nat : FloorAt(l, k - 1, boundaries, f)
    BY <2>3, FloorExists
  <2> DEFINE g == [f EXCEPT ![k - 1] = Larger(base[k - 1], l)]
  <2>6. g \in [Step -> Nat] /\ g[k - 1] = Larger(base[k - 1], l)
    BY <2>3 DEF Larger
  <2>7. \A r \in Step : r < k - 1 => g[r] = f[r]
    <3> HIDE DEF T, Up
    <3> QED
      BY <1>0, <2>3
  <2> HIDE DEF g
  <2>8. ASSUME NEW s \in Step, s < k - 1
        PROVE  Lifted(boundaries, base, g, s)
    <3>1. PICK m \in Nat : FloorAt(m, s, boundaries, f) /\ f[s] = Larger(base[s], m)
      BY <2>4, <2>8 DEF Lifted
    <3>2. \A r \in Step : r < s => g[r] = f[r]
      <4> HIDE DEF T, Up
      <4> QED
        BY <1>0, <2>3, <2>7, <2>8
    <3>3. FloorAt(m, s, boundaries, g)
      BY <3>1, <3>2, FloorSame
    <3> QED
      BY <2>7, <2>8, <3>1, <3>3 DEF Lifted
  <2>9. Lifted(boundaries, base, g, k - 1)
    <3>1. FloorAt(l, k - 1, boundaries, g)
      BY <2>3, <2>5, <2>7, FloorSame
    <3> QED
      BY <2>6, <3>1 DEF Lifted
  <2>10. \A s \in Step : s < k => s < k - 1 \/ s = k - 1
    <3> HIDE DEF T, Up
    <3> QED
      BY <1>0, <2>3
  <2>11. g \in Up(k)
    BY <2>6, <2>8, <2>9, <2>10
  <2> QED
    BY <2>1, <2>11
<1>2. N \notin T
  BY <1>1
<1>3. PICK f : f \in Up(N)
  BY <1>2
<1> QED
  BY <1>0, <1>3

\* Whatever boundaries part and reads ask for, depths that solve both meet it.
LEMMA LiftedMeetsContract ==
    ASSUME NEW graph \in Graphs, NEW boundaries \in BoundarySets,
           NEW base \in [Step -> Nat], \A s \in Step : LeastAbove(base[s], graph[s], base),
           NEW f \in [Step -> Nat], \A s \in Step : Lifted(boundaries, base, f, s)
    PROVE  PlanContract(graph, boundaries, LayersOfDepths(f))
<1> USE NAssumption
<1>0. \A s \in Step : s \in Nat /\ s < N /\ f[s] \in Nat /\ base[s] \in Nat
  BY DEF Step
<1>1. PICK v \in Nat : LeastAbove(v, Step, f)
  BY LeastAboveExists
<1> DEFINE plan == [k \in 1 .. v |-> {s \in Step : f[s] = k - 1}]
<1>2. plan \in Seq(SUBSET Step) /\ Len(plan) = v /\ DOMAIN plan = 1 .. v
  <2>1. plan \in [1 .. v -> SUBSET Step]
    OBVIOUS
  <2>2. plan \in Seq(SUBSET Step)
    <3> HIDE DEF plan
    <3> QED
      BY <2>1, FunctionIsSeq
  <2> QED
    BY <2>2
<1>3. \A k \in 1 .. v : plan[k] = {s \in Step : f[s] = k - 1}
  OBVIOUS
<1>4. plan = LayersOfDepths(f)
  <2> HIDE DEF plan
  <2> QED
    BY <1>1, <1>2, <1>3, LayersOfDepthsIs
<1> HIDE DEF plan
<1>5. \A s \in Step : f[s] + 1 \in 1 .. v /\ s \in plan[f[s] + 1]
  <2> SUFFICES ASSUME NEW s \in Step PROVE f[s] + 1 \in 1 .. v /\ s \in plan[f[s] + 1]
    OBVIOUS
  <2>1. f[s] < v /\ f[s] \in Nat
    BY <1>0, <1>1 DEF LeastAbove
  <2>2. f[s] + 1 \in 1 .. v /\ f[s] = (f[s] + 1) - 1
    BY <2>1
  <2> QED
    BY <1>3, <2>2
<1>6. \A k \in 1 .. v : \A s \in plan[k] : s \in Step /\ k = f[s] + 1
  BY <1>0, <1>3
<1>7. PlacesEachStepOnce(plan)
  BY <1>2, <1>5, <1>6 DEF PlacesEachStepOnce
<1>8. ASSUME NEW s \in Step, NEW t \in Step, NEW b \in boundaries, s < b, b <= t
      PROVE  f[s] < f[t]
  <2>1. b \in Nat /\ \A a \in boundaries : a \in Nat
    BY DEF BoundarySets
  <2>2. PICK l \in Nat : FloorAt(l, t, boundaries, f) /\ f[t] = Larger(base[t], l)
    BY DEF Lifted
  <2>3. ~(b > t)
    BY <1>0, <1>8, <2>1
  <2>4. PICK c \in boundaries : /\ c <= t /\ \A a \in boundaries : a <= t => a <= c
                               /\ LeastAbove(l, 0 .. (c - 1), f)
    BY <2>2, <2>3 DEF FloorAt
  <2>5. s \in 0 .. (c - 1)
    <3>1. b <= c /\ c \in Nat /\ s \in Nat
      BY <1>0, <1>8, <2>1, <2>4
    <3> QED
      BY <1>8, <2>1, <3>1
  <2>6. f[s] < l
    BY <2>4, <2>5 DEF LeastAbove
  <2> QED
    BY <1>0, <2>2, <2>6 DEF Larger
<1>9. PartsSteps(plan, boundaries)
  <2> SUFFICES ASSUME NEW j \in 1 .. v, NEW k \in 1 .. v, NEW s \in plan[j], NEW t \in plan[k],
                      Parted(boundaries, s, t)
               PROVE  j < k
    BY <1>2 DEF PartsSteps
  <2>1. s \in Step /\ t \in Step /\ j = f[s] + 1 /\ k = f[t] + 1
    BY <1>6
  <2>2. f[s] < f[t]
    BY <1>8, <2>1 DEF Parted
  <2> QED
    BY <1>0, <2>1, <2>2
<1>10. ASSUME boundaries = {} PROVE CarriesReads(plan, graph)
  <2> SUFFICES ASSUME NEW k \in 1 .. v, NEW s \in plan[k], NEW d \in graph[s]
               PROVE  \E j \in 1 .. (k - 1) : d \in plan[j]
    BY <1>2 DEF CarriesReads
  <2>1. s \in Step /\ d \in Step /\ k = f[s] + 1
    BY <1>6 DEF Graphs
  <2>2. \A t \in Step : f[t] = base[t]
    <3> SUFFICES ASSUME NEW t \in Step PROVE f[t] = base[t]
      OBVIOUS
    <3>1. PICK l \in Nat : FloorAt(l, t, boundaries, f) /\ f[t] = Larger(base[t], l)
      BY DEF Lifted
    <3>2. l = 0
      BY <1>10, <3>1 DEF FloorAt
    <3> QED
      BY <1>0, <3>1, <3>2 DEF Larger
  <2>3. f[d] < f[s]
    BY <2>1, <2>2 DEF LeastAbove
  <2>4. f[d] + 1 \in 1 .. (k - 1)
    BY <1>0, <2>1, <2>3
  <2> QED
    BY <1>5, <2>1, <2>4
<1> QED
  BY <1>2, <1>4, <1>7, <1>9, <1>10 DEF PlanContract

\* Plans: an endpoint whose reads form no cycle has a plan, whatever its sync blocks,
\* and that plan is one the runtime can rely on: it loses no step and repeats none,
\* parts what sync parts and, without sync, carries the reads.
THEOREM AcyclicEndpointsHavePlans ==
    ASSUME NEW graph \in Graphs, ~HasCycle(graph), NEW boundaries \in BoundarySets
    PROVE  PlanContract(graph, boundaries, PlanOf(graph, boundaries))
<1>1. PICK base \in [Step -> Nat] : \A s \in Step : LeastAbove(base[s], graph[s], base)
  BY ChainsExist
<1>2. ChainLength(graph) = base
  BY <1>1, ChainLengthIs
<1>3. PICK f \in [Step -> Nat] : \A s \in Step : Lifted(boundaries, base, f, s)
  BY LiftsExist
<1>4. DepthsWithSync(base, boundaries) = f
  BY <1>3, DepthsWithSyncIs DEF Lifted
<1>5. PlanContract(graph, boundaries, LayersOfDepths(f))
  BY <1>1, <1>3, LiftedMeetsContract
<1> QED
  BY <1>2, <1>4, <1>5 DEF PlanOf

-----------------------------------------------------------------------------
(* The search makes progress.                                               *)

HasFolded(s, d) == state[s] = "Visited" \/ \E i \in Calls : stack[i].step = s /\ d \notin stack[i].todo

LEMMA FoldedHas ==
    ASSUME NEW read \in Step \X Step
    PROVE  read \in Folded <=> read[2] \in dependencies[read[1]] /\ HasFolded(read[1], read[2])
BY DEF Folded, HasFolded, Visited

LEMMA FoldedHasNext ==
    ASSUME NEW read \in Step \X Step
    PROVE  read \in Folded' <=> read[2] \in dependencies'[read[1]] /\ HasFolded(read[1], read[2])'
BY DEF Folded, HasFolded, Visited

LEMMA FoldedGrows ==
    ASSUME dependencies' = dependencies, \A s, d \in Step : HasFolded(s, d) => HasFolded(s, d)'
    PROVE  Folded \subseteq Folded'
<1> SUFFICES ASSUME NEW read \in Folded PROVE read \in Folded'
  OBVIOUS
<1>1. read \in Step \X Step /\ read[1] \in Step /\ read[2] \in Step
  BY DEF Folded
<1>2. read[2] \in dependencies[read[1]] /\ HasFolded(read[1], read[2])
  BY <1>1, FoldedHas
<1>3. HasFolded(read[1], read[2])'
  BY <1>1, <1>2
<1>4. read \in Folded' <=> read[2] \in dependencies'[read[1]] /\ HasFolded(read[1], read[2])'
  BY <1>1, FoldedHasNext
<1> QED
  BY <1>2, <1>3, <1>4

\* A phase that goes on.
Grows ==
    /\ cursor <= cursor'
    /\ Entered \subseteq Entered' /\ Folded \subseteq Folded' /\ Visited \subseteq Visited'
    /\ <<cursor, Entered, Folded, Visited>> # <<cursor, Entered, Folded, Visited>>'

\* A call that begins enters its step.
LEMMA EnterGrows ==
    ASSUME TypeOK, NEW s \in Step, state[s] = "Unvisited", Enter(s), UNCHANGED dependencies
    PROVE  /\ Entered \subseteq Entered' /\ s \in Entered' /\ s \notin Entered
           /\ Folded \subseteq Folded' /\ Visited \subseteq Visited'
<1>1. \A r \in Step : state'[r] = IF r = s THEN "Visiting" ELSE state[r]
  BY DEF TypeOK, Enter
<1>2. Len(stack) \in Nat /\ Calls \subseteq Calls' /\ \A i \in Calls : stack'[i] = stack[i]
  BY EnterCalls DEF TypeOK, Calls
<1>3. ASSUME NEW r \in Step, NEW d \in Step, HasFolded(r, d) PROVE HasFolded(r, d)'
  BY <1>1, <1>2, <1>3 DEF HasFolded
<1>4. Folded \subseteq Folded'
  BY <1>3, FoldedGrows
<1> QED
  BY <1>1, <1>4 DEF Entered, Visited

\* A step that changes nothing but the cursor.
LEMMA CursorGrows ==
    ASSUME TypeOK, cursor' = cursor + 1, UNCHANGED <<dependencies, stack, state>>
    PROVE  Grows
<1>1. cursor <= cursor' /\ cursor # cursor'
  BY NAssumption DEF TypeOK
<1>2. Entered' = Entered /\ Visited' = Visited /\ Folded' = Folded
  BY DEF Entered, Visited, Folded, Calls
<1> QED
  BY <1>1, <1>2 DEF Grows

LEMMA RootGrows ==
    ASSUME TypeOK, VisitInv, VisitRoot
    PROVE  Grows
<1>1. cursor \in Step /\ cursor' = cursor + 1 /\ dependencies' = dependencies
  BY NAssumption DEF VisitRoot, TypeOK, Step, input
<1>2. CASE state[cursor] = "Visited"
  BY <1>1, <1>2, CursorGrows DEF VisitRoot
<1>3. CASE state[cursor] # "Visited"
  <2>1. state[cursor] = "Unvisited"
    BY <1>1, <1>3 DEF VisitRoot, VisitInv, FramesAreVisiting, Calls, TypeOK
  <2>2. Enter(cursor)
    BY <1>3 DEF VisitRoot
  <2>3. cursor <= cursor' /\ cursor # cursor'
    BY <1>1, NAssumption DEF TypeOK
  <2> QED
    BY <1>1, <2>1, <2>2, <2>3, EnterGrows DEF Grows
<1> QED
  BY <1>2, <1>3

LEMMA RecurseGrows ==
    ASSUME TypeOK, NEW d \in Step, Recurse(d)
    PROVE  Grows
<1>1. state[d] = "Unvisited" /\ Enter(d) /\ UNCHANGED <<dependencies, cursor>>
  BY DEF Recurse, input
<1>2. cursor <= cursor'
  BY <1>1, NAssumption DEF TypeOK
<1> QED
  BY <1>1, <1>2, EnterGrows DEF Grows

LEMMA FoldGrows ==
    ASSUME TypeOK, VisitInv, NEW d \in Step, FoldDependency(d)
    PROVE  Grows
<1> DEFINE n == Len(stack)
           frame == [step |-> Top.step, todo |-> Top.todo \ {d}, depth |-> Larger(Top.depth, depths[d] + 1)]
<1>1. /\ phase = "visit" /\ stack # << >> /\ d \in Top.todo /\ Continue(frame)
      /\ UNCHANGED <<dependencies, cursor, state>>
  BY DEF FoldDependency, NextDependency, input
<1>2. n \in 1 .. n /\ n \in Calls /\ Top = stack[n] /\ Top \in Frame
  BY <1>1, TopIsFrame DEF Calls, Top
<1>3. frame \in Frame
  BY <1>2 DEF Frame, Larger, TypeOK
<1>4. /\ Calls' = Calls /\ \A i \in Calls : stack'[i] = IF i = n THEN frame ELSE stack[i]
  <2> HIDE DEF frame
  <2> QED
    BY <1>1, <1>3, ContinueCalls DEF Calls
<1>5. ASSUME NEW r \in Step, NEW e \in Step, HasFolded(r, e) PROVE HasFolded(r, e)'
  BY <1>1, <1>2, <1>4, <1>5 DEF HasFolded
<1>6. Folded \subseteq Folded'
  BY <1>1, <1>5, FoldedGrows
<1>0. PICK s \in Step : s = Top.step
  BY <1>2 DEF Frame
<1>7. s \in Step /\ state[s] = "Visiting" /\ d \in dependencies[s]
  BY <1>0, <1>1, <1>2 DEF VisitInv, FramesAreVisiting, FramesFollowReads, Frame
<1>8. \A i \in Calls : stack[i].step = s => i = n
  BY <1>0, <1>2 DEF VisitInv, FramesAreVisiting
<1>9. ~HasFolded(s, d) /\ HasFolded(s, d)'
  <2>1. stack[n].todo = Top.todo /\ stack'[n] = frame /\ frame.step = s /\ d \notin frame.todo
    BY <1>0, <1>2, <1>4
  <2> HIDE DEF frame
  <2>2. ~HasFolded(s, d)
    BY <1>1, <1>7, <1>8, <2>1 DEF HasFolded
  <2>3. HasFolded(s, d)'
    BY <1>2, <1>4, <2>1 DEF HasFolded
  <2> QED
    BY <2>2, <2>3
<1>10. <<s, d>> \notin Folded /\ <<s, d>> \in Folded'
  <2>1. <<s, d>> \in Step \X Step /\ <<s, d>>[1] = s /\ <<s, d>>[2] = d
    BY <1>7
  <2>2. d \in dependencies'[s]
    BY <1>1, <1>7
  <2> DEFINE read == <<s, d>>
  <2> HIDE DEF read
  <2>3. read \in Step \X Step /\ read[1] = s /\ read[2] = d
    BY <2>1 DEF read
  <2>4. read \notin Folded
    BY <1>9, <2>3, FoldedHas
  <2>5. read \in Folded' <=> read[2] \in dependencies'[read[1]] /\ HasFolded(read[1], read[2])'
    BY <2>3, FoldedHasNext
  <2>6. read \in Folded'
    BY <1>9, <2>2, <2>3, <2>5
  <2> QED
    BY <2>4, <2>6 DEF read
<1>11. Entered' = Entered /\ Visited' = Visited /\ cursor <= cursor'
  BY <1>1, NAssumption DEF Entered, Visited, TypeOK
<1> QED
  BY <1>6, <1>10, <1>11 DEF Grows

LEMMA ReturnGrows ==
    ASSUME TypeOK, VisitInv, Return
    PROVE  Grows
<1> DEFINE n == Len(stack)
           s == Top.step
<1>1. /\ stack # << >> /\ state' = [state EXCEPT ![s] = "Visited"] /\ stack' = Pop
      /\ UNCHANGED <<dependencies, cursor>>
  BY DEF Return, input
<1>2. n \in Nat /\ n \in Calls /\ Top = stack[n] /\ Top \in Frame /\ s \in Step
  BY <1>1, TopIsFrame DEF Calls, Top, Frame
<1>3. state[s] = "Visiting"
  BY <1>2 DEF VisitInv, FramesAreVisiting
<1>4. \A r \in Step : state'[r] = IF r = s THEN "Visited" ELSE state[r]
  BY <1>1, <1>2 DEF TypeOK
<1>5. /\ \A i \in 1 .. (n - 1) : i \in Calls' /\ stack'[i] = stack[i]
      /\ \A i \in Calls : i = n \/ i \in 1 .. (n - 1)
  <2>1. Len(stack') = n - 1 /\ \A i \in 1 .. (n - 1) : stack'[i] = stack[i]
    BY <1>1, PopCalls
  <2> QED
    BY <1>2, <2>1 DEF Calls
<1>6. ASSUME NEW r \in Step, NEW e \in Step, HasFolded(r, e) PROVE HasFolded(r, e)'
  <2>1. CASE r = s
    BY <1>4, <2>1 DEF HasFolded
  <2>2. CASE r # s
    <3>1. \A i \in Calls : stack[i].step = r => i # n
      BY <1>2, <2>2
    <3> QED
      BY <1>4, <1>5, <1>6, <2>2, <3>1 DEF HasFolded
  <2> QED
    BY <2>1, <2>2
<1>7. Folded \subseteq Folded'
  BY <1>1, <1>6, FoldedGrows
<1>8. Entered \subseteq Entered' /\ Visited \subseteq Visited' /\ s \in Visited' /\ s \notin Visited
  BY <1>2, <1>3, <1>4 DEF Entered, Visited
<1>9. cursor <= cursor'
  BY <1>1, NAssumption DEF TypeOK
<1> QED
  BY <1>7, <1>8, <1>9 DEF Grows

\* The planner returns: every step of it goes on to a later phase or does work that
\* no step had done, of which there is no more than steps and pairs of steps.
THEOREM PlanningIsProgress == Spec => EveryStepIsProgress
<1>1. TypeOK /\ VisitInv /\ [Next]_vars =>
        [Later(phase, phase') \/ (phase' = phase /\ Grows)]_vars
  <2> SUFFICES ASSUME TypeOK, VisitInv, Next
               PROVE  Later(phase, phase') \/ (phase' = phase /\ Grows) \/ UNCHANGED vars
    OBVIOUS
  <2>1. CASE VisitRoot
    BY <2>1, RootGrows DEF VisitRoot
  <2>2. ASSUME NEW d \in Step, FoldDependency(d)
        PROVE  phase' = phase /\ Grows
    BY <2>2, FoldGrows DEF FoldDependency
  <2>3. ASSUME NEW d \in Step, Recurse(d)
        PROVE  phase' = phase /\ Grows
    BY <2>3, RecurseGrows DEF Recurse
  <2>4. ASSUME NEW d \in Step, FindCycle(d)
        PROVE  Later(phase, phase')
    BY <2>4 DEF FindCycle, NextDependency, Later
  <2>5. CASE Return
    BY <2>5, ReturnGrows DEF Return
  <2>6. CASE EndVisits \/ EndBoundaries \/ EndFill
    BY <2>6 DEF EndVisits, EndBoundaries, EndFill, Later
  <2>7. CASE ApplyBoundary
    BY <2>7, CursorGrows DEF ApplyBoundary, input
  <2>8. CASE PlaceStep
    BY <2>8, CursorGrows DEF PlaceStep, input
  <2>9. CASE Returned
    BY <2>9 DEF Returned
  <2> QED
    BY <2>1, <2>2, <2>3, <2>4, <2>5, <2>6, <2>7, <2>8, <2>9 DEF Next
<1>2. PlanInv => VisitInv
  BY DEF PlanInv
<1> QED
  BY <1>1, <1>2, TypeCorrect, PlanInvariant, PTL DEF Spec, EveryStepIsProgress, Grows
=============================================================================
