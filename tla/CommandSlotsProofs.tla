-------------------------- MODULE CommandSlotsProofs --------------------------
(***************************************************************************)
(* What CommandSlots establishes for any number of command steps, any      *)
(* process table and any configured maximum.                               *)
(***************************************************************************)
EXTENDS CommandSlots, FiniteSetTheorems, FunctionTheorems, SequenceTheorems, TLAPS

\* The children of the running steps: every shell alive is one of them.
ChildInv ==
    /\ \A t \in Task : pc[t] = "running" => mine[t] \in Proc
    /\ \A p \in Proc : "shell" \in proc[p] => \E t \in Task : pc[t] = "running" /\ mine[t] = p

Inv == TypeOK /\ SlotsConserved /\ ChildInv

\* There is at least one slot.
LEMMA SlotsNat == Slots \in Nat \ {0}
BY CommandAssumption DEF Slots

\* The sets that are counted are finite.
LEMMA Counted ==
    ASSUME TypeOK
    PROVE  /\ IsFiniteSet(granted) /\ Cardinality(granted) \in Nat
           /\ IsFiniteSet(Holders) /\ Cardinality(Holders) \in Nat
<1>1. granted \subseteq Task /\ Holders \subseteq Task
  BY DEF TypeOK, Holders
<1>2. IsFiniteSet(granted) /\ IsFiniteSet(Holders)
  BY <1>1, CommandAssumption, FS_Subset
<1> QED
  BY <1>2, FS_CardinalityType

\* Counting one element more.
LEMMA OneMore ==
    ASSUME NEW S, IsFiniteSet(S), NEW x, x \notin S
    PROVE  IsFiniteSet(S \cup {x}) /\ Cardinality(S \cup {x}) = Cardinality(S) + 1
BY FS_AddElement

\* Counting one element less.
LEMMA OneLess ==
    ASSUME NEW S, IsFiniteSet(S), NEW x \in S
    PROVE  /\ IsFiniteSet(S \ {x}) /\ Cardinality(S \ {x}) \in Nat
           /\ Cardinality(S) = Cardinality(S \ {x}) + 1
<1>1. IsFiniteSet(S \ {x}) /\ Cardinality(S \ {x}) = Cardinality(S) - 1
  BY FS_RemoveElement
<1>2. Cardinality(S) \in Nat /\ Cardinality(S \ {x}) \in Nat
  BY <1>1, FS_CardinalityType
<1> QED
  BY <1>1, <1>2

\* Without drops exactly the i-th element.
LEMMA WithoutElement ==
    ASSUME NEW S, NEW q \in Seq(S), NEW i \in 1 .. Len(q),
           \A j, k \in 1 .. Len(q) : q[j] = q[k] => j = k
    PROVE  /\ Without(q, i) \in Seq(S) /\ Len(Without(q, i)) = Len(q) - 1
           /\ \A j, k \in 1 .. Len(Without(q, i)) : Without(q, i)[j] = Without(q, i)[k] => j = k
           /\ {Without(q, i)[j] : j \in 1 .. Len(Without(q, i))}
                = {q[j] : j \in 1 .. Len(q)} \ {q[i]}
<1> DEFINE n == Len(q) - 1
           w == Without(q, i)
<1>1. n \in Nat /\ n + 1 = Len(q) /\ Len(q) \in Nat
  OBVIOUS
<1>2. w \in [1 .. n -> S] /\ \A j \in 1 .. n : w[j] = IF j < i THEN q[j] ELSE q[j + 1]
  BY <1>1 DEF Without
<1>3. w \in Seq(S) /\ Len(w) = n
  <2> HIDE DEF w, n
  <2>1. w \in UNION {[1 .. m -> S] : m \in Nat}
    BY <1>1, <1>2
  <2>2. w \in Seq(S)
    BY <2>1, SeqDef, Zenon
  <2>3. DOMAIN w = 1 .. n
    BY <1>2
  <2> QED
    BY <1>1, <2>2, <2>3
<1>4. ASSUME NEW j \in 1 .. n, NEW k \in 1 .. n, w[j] = w[k] PROVE j = k
  BY <1>1, <1>2, <1>4
<1>5. ASSUME NEW j \in 1 .. n PROVE w[j] \in {q[k] : k \in 1 .. Len(q)} \ {q[i]}
  BY <1>1, <1>2, <1>5
<1>6. ASSUME NEW k \in 1 .. Len(q), q[k] # q[i] PROVE \E j \in 1 .. n : w[j] = q[k]
  <2>1. CASE k < i
    BY <1>1, <1>2, <2>1
  <2>2. CASE k > i
    <3>1. k - 1 \in 1 .. n /\ ~(k - 1 < i) /\ (k - 1) + 1 = k
      BY <1>1, <2>2
    <3>2. w[k - 1] = q[k]
      BY <1>2, <3>1
    <3> QED
      BY <3>1, <3>2
  <2> QED
    BY <1>6, <2>1, <2>2
<1>7. {w[j] : j \in 1 .. n} = {q[j] : j \in 1 .. Len(q)} \ {q[i]}
  <2> HIDE DEF w, n
  <2>1. \A j \in 1 .. n : w[j] \in {q[k] : k \in 1 .. Len(q)} \ {q[i]}
    BY <1>5
  <2>2. \A k \in 1 .. Len(q) : q[k] # q[i] => q[k] \in {w[j] : j \in 1 .. n}
    BY <1>6
  <2> QED
    BY <2>1, <2>2
<1> QED
  BY <1>1, <1>3, <1>4, <1>7

-----------------------------------------------------------------------------
(* What a released permit does to the slots.                               *)

Waiting == {t \in Task : pc[t] = "waiting"}

Queued == {queue[i] : i \in 1 .. Len(queue)}

\* The head of a queue and what is left of it.
LEMMA HeadLeaves ==
    ASSUME TypeOK, QueueOfWaiters, queue # <<>>
    PROVE  /\ Head(queue) \in Task /\ Head(queue) \in Waiting \ granted
           /\ Tail(queue) \in Seq(Task)
           /\ \A i, j \in 1 .. Len(Tail(queue)) : Tail(queue)[i] = Tail(queue)[j] => i = j
           /\ {Tail(queue)[i] : i \in 1 .. Len(Tail(queue))} = Queued \ {Head(queue)}
<1> DEFINE tl == Tail(queue)
<1>1. /\ queue \in Seq(Task) /\ Len(queue) \in Nat /\ Len(queue) >= 1
      /\ Head(queue) = queue[1] /\ Head(queue) \in Task
  BY DEF TypeOK
<1>2. tl \in Seq(Task) /\ Len(tl) = Len(queue) - 1 /\ \A i \in 1 .. Len(tl) : tl[i] = queue[i + 1]
  BY <1>1
<1>3. Head(queue) \in Waiting \ granted
  BY <1>1 DEF QueueOfWaiters, Waiting
<1> HIDE DEF tl
<1>4. \A i, j \in 1 .. Len(tl) : tl[i] = tl[j] => i = j
  <2> SUFFICES ASSUME NEW i \in 1 .. Len(tl), NEW j \in 1 .. Len(tl), tl[i] = tl[j] PROVE i = j
    OBVIOUS
  <2>1. i + 1 \in 1 .. Len(queue) /\ j + 1 \in 1 .. Len(queue) /\ queue[i + 1] = queue[j + 1]
    BY <1>1, <1>2
  <2>2. i + 1 = j + 1
    BY <2>1 DEF QueueOfWaiters
  <2> QED
    BY <2>2
<1>5. \A i \in 1 .. Len(tl) : tl[i] \in Queued \ {Head(queue)}
  <2> SUFFICES ASSUME NEW i \in 1 .. Len(tl) PROVE tl[i] \in Queued \ {Head(queue)}
    OBVIOUS
  <2>1. i + 1 \in 1 .. Len(queue) /\ 1 \in 1 .. Len(queue) /\ i + 1 # 1 /\ tl[i] = queue[i + 1]
    BY <1>1, <1>2
  <2>2. queue[i + 1] # queue[1]
    BY <2>1 DEF QueueOfWaiters
  <2> QED
    BY <1>1, <2>1, <2>2 DEF Queued
<1>6. \A t \in Queued \ {Head(queue)} : t \in {tl[i] : i \in 1 .. Len(tl)}
  <2> SUFFICES ASSUME NEW k \in 1 .. Len(queue), queue[k] # Head(queue)
               PROVE  queue[k] \in {tl[i] : i \in 1 .. Len(tl)}
    BY DEF Queued
  <2>1. k # 1
    BY <1>1
  <2>2. k - 1 \in 1 .. Len(tl) /\ (k - 1) + 1 = k
    BY <1>1, <1>2, <2>1
  <2>3. tl[k - 1] = queue[k]
    BY <1>2, <2>2
  <2> QED
    BY <2>2, <2>3
<1>7. {tl[i] : i \in 1 .. Len(tl)} = Queued \ {Head(queue)}
  BY <1>5, <1>6
<1> QED
  BY <1>1, <1>2, <1>3, <1>4, <1>7 DEF tl

\* A permit comes back, from a holder t or from the waiter t it was assigned to.
LEMMA ReleaseKeeps ==
    ASSUME TypeOK, SlotsConserved, NEW t \in Task, NEW leaving, Release(leaving),
           \/ leaving = {} /\ t \in Holders /\ Holders' = Holders \ {t} /\ Waiting' = Waiting
           \/ leaving = {t} /\ t \in granted /\ Holders' = Holders /\ Waiting' = Waiting \ {t}
    PROVE  /\ SlotsConserved'
           /\ available' \in 0 .. Slots /\ queue' \in Seq(Task) /\ granted' \subseteq Task
<1> DEFINE rest == granted \ leaving
<1>1. /\ IsFiniteSet(rest) /\ Cardinality(rest) \in Nat /\ Cardinality(Holders') \in Nat
      /\ available + Cardinality(rest) + Cardinality(Holders') + 1 = Slots
  <2>1. available \in Nat /\ Slots \in Nat
    BY SlotsNat DEF TypeOK
  <2>2. available + Cardinality(granted) + Cardinality(Holders) = Slots
    BY DEF SlotsConserved
  <2>3. CASE leaving = {} /\ t \in Holders /\ Holders' = Holders \ {t}
    <3>1. rest = granted
      BY <2>3
    <3>2. Cardinality(Holders') \in Nat /\ Cardinality(Holders) = Cardinality(Holders') + 1
      BY <2>3, Counted, OneLess
    <3> QED
      BY <2>1, <2>2, <3>1, <3>2, Counted
  <2>4. CASE leaving = {t} /\ t \in granted /\ Holders' = Holders
    <3>1. IsFiniteSet(rest) /\ Cardinality(rest) \in Nat /\ Cardinality(granted) = Cardinality(rest) + 1
      BY <2>4, Counted, OneLess
    <3> QED
      BY <2>1, <2>2, <2>4, <3>1, Counted
  <2> QED
    BY <2>3, <2>4
<1>2. QueueOfWaiters /\ (queue # <<>> => available = 0) /\ granted \subseteq Task
  BY DEF SlotsConserved, TypeOK
<1>3. rest \subseteq Waiting' /\ Waiting' \ rest = Waiting \ granted
  BY <1>2 DEF QueueOfWaiters, Waiting
<1>4. available \in Nat /\ Slots \in Nat
  BY SlotsNat DEF TypeOK
<1>5. CASE queue = <<>>
  <2>1. available' = available + 1 /\ queue' = queue /\ granted' = rest
    BY <1>5 DEF Release
  <2>2. available' + Cardinality(granted') + Cardinality(Holders') = Slots
    BY <1>1, <1>4, <2>1
  <2>3. QueueOfWaiters'
    BY <1>2, <1>3, <2>1 DEF QueueOfWaiters, Waiting
  <2>4. available' \in 0 .. Slots
    BY <1>1, <1>4, <2>1
  <2> QED
    BY <1>2, <1>5, <2>1, <2>2, <2>3, <2>4 DEF SlotsConserved, TypeOK
<1>6. CASE queue # <<>>
  <2>1. available' = available /\ queue' = Tail(queue) /\ granted' = rest \cup {Head(queue)}
    BY <1>6 DEF Release
  <2>2. /\ Head(queue) \in Task /\ Head(queue) \in Waiting \ granted
        /\ queue' \in Seq(Task)
        /\ \A i, j \in 1 .. Len(queue') : queue'[i] = queue'[j] => i = j
        /\ {queue'[i] : i \in 1 .. Len(queue')} = Queued \ {Head(queue)}
    BY <1>2, <1>6, <2>1, HeadLeaves
  <2>3. Cardinality(granted') = Cardinality(rest) + 1
    BY <1>1, <2>1, <2>2, OneMore
  <2>4. available' + Cardinality(granted') + Cardinality(Holders') = Slots
    BY <1>1, <1>4, <2>1, <2>3
  <2>5. Queued = Waiting \ granted
    BY <1>2 DEF QueueOfWaiters, Queued, Waiting
  <2>6. {queue'[i] : i \in 1 .. Len(queue')} = Waiting' \ granted'
    BY <1>3, <2>1, <2>2, <2>5
  <2>7. granted' \subseteq Waiting'
    BY <1>3, <2>1, <2>2
  <2>8. QueueOfWaiters'
    BY <2>2, <2>6, <2>7 DEF QueueOfWaiters, Waiting
  <2>9. available' = 0
    BY <1>2, <1>6, <2>1
  <2> QED
    BY <1>2, <1>4, <2>1, <2>2, <2>4, <2>8, <2>9 DEF SlotsConserved, TypeOK
<1> QED
  BY <1>5, <1>6

\* Steps that leave the slots alone: nobody begins or ends holding or waiting.
LEMMA SlotsSame ==
    ASSUME SlotsConserved, UNCHANGED slots, Holders' = Holders, Waiting' = Waiting
    PROVE  SlotsConserved'
BY DEF SlotsConserved, QueueOfWaiters, slots, Waiting

\* Where a step is, after it moved.
LEMMA Moved ==
    ASSUME TypeOK, NEW t \in Task, NEW place, GoTo(t, place)
    PROVE  \A u \in Task : pc'[u] = IF u = t THEN place ELSE pc[u]
BY DEF GoTo, TypeOK

-----------------------------------------------------------------------------
(* Every action keeps the slots.                                           *)

\* A step takes a free permit or joins the end of the queue.
LEMMA AcquireKeepsSlots ==
    ASSUME TypeOK, SlotsConserved, NEW t \in Task, Acquire(t)
    PROVE  /\ SlotsConserved'
           /\ available' \in 0 .. Slots /\ queue' \in Seq(Task) /\ granted' \subseteq Task
<1>1. available \in 0 .. Slots /\ Slots \in Nat /\ queue \in Seq(Task) /\ granted \subseteq Task
  BY SlotsNat DEF TypeOK
<1>2. /\ available + Cardinality(granted) + Cardinality(Holders) = Slots
      /\ QueueOfWaiters /\ (queue # <<>> => available = 0)
  BY DEF SlotsConserved
<1>3. t \notin Holders /\ t \notin Waiting /\ pc[t] = "idle" /\ granted' = granted
  BY DEF Acquire, Holders, Waiting
<1>4. CASE available > 0
  <2>1. available' = available - 1 /\ queue' = queue /\ GoTo(t, "starting")
    BY <1>4 DEF Acquire
  <2>2. \A u \in Task : pc'[u] = IF u = t THEN "starting" ELSE pc[u]
    BY <2>1, Moved
  <2>3. Holders' = Holders \cup {t} /\ Waiting' = Waiting
    BY <1>3, <2>2 DEF Holders, Waiting
  <2>4. Cardinality(Holders') = Cardinality(Holders) + 1
    BY <1>3, <2>3, Counted, OneMore
  <2>5. available' + Cardinality(granted') + Cardinality(Holders') = Slots
    BY <1>1, <1>2, <1>3, <2>1, <2>4, Counted
  <2>6. QueueOfWaiters'
    BY <1>2, <1>3, <2>1, <2>3 DEF QueueOfWaiters, Waiting
  <2>7. queue = <<>>
    BY <1>2, <1>4
  <2> QED
    BY <1>1, <1>3, <1>4, <2>1, <2>5, <2>6, <2>7 DEF SlotsConserved
<1>5. CASE ~(available > 0)
  <2>1. available' = available /\ queue' = Append(queue, t) /\ GoTo(t, "waiting")
    BY <1>5 DEF Acquire
  <2>2. \A u \in Task : pc'[u] = IF u = t THEN "waiting" ELSE pc[u]
    BY <2>1, Moved
  <2>3. Holders' = Holders /\ Waiting' = Waiting \cup {t}
    BY <1>3, <2>2 DEF Holders, Waiting
  <2>4. available' + Cardinality(granted') + Cardinality(Holders') = Slots /\ available' = 0
    BY <1>1, <1>2, <1>3, <1>5, <2>1, <2>3
  <2>5. Queued = Waiting \ granted /\ granted \subseteq Waiting
    BY <1>2 DEF QueueOfWaiters, Queued, Waiting
  <2>6. /\ queue' \in Seq(Task) /\ Len(queue) \in Nat /\ Len(queue') = Len(queue) + 1
        /\ queue'[Len(queue) + 1] = t
        /\ \A i \in 1 .. Len(queue) : queue'[i] = queue[i] /\ queue[i] # t
    BY <1>1, <1>3, <2>1, <2>5 DEF Queued
  <2>7. \A i, j \in 1 .. Len(queue') : queue'[i] = queue'[j] => i = j
    <3> SUFFICES ASSUME NEW i \in 1 .. Len(queue'), NEW j \in 1 .. Len(queue'), queue'[i] = queue'[j]
                 PROVE  i = j
      OBVIOUS
    <3>1. i \in 1 .. Len(queue) \/ i = Len(queue) + 1
      BY <2>6
    <3>2. j \in 1 .. Len(queue) \/ j = Len(queue) + 1
      BY <2>6
    <3> QED
      BY <1>2, <2>6, <3>1, <3>2 DEF QueueOfWaiters
  <2>8. {queue'[i] : i \in 1 .. Len(queue')} = Queued \cup {t}
    <3>1. 1 .. Len(queue') = (1 .. Len(queue)) \cup {Len(queue) + 1}
      BY <2>6
    <3> QED
      BY <2>6, <3>1 DEF Queued
  <2>9. {queue'[i] : i \in 1 .. Len(queue')} = Waiting' \ granted' /\ granted' \subseteq Waiting'
    BY <1>3, <2>3, <2>5, <2>8
  <2>10. QueueOfWaiters'
    BY <2>7, <2>9 DEF QueueOfWaiters, Waiting
  <2> QED
    BY <1>1, <1>3, <2>1, <2>4, <2>6, <2>10 DEF SlotsConserved
<1> QED
  BY <1>4, <1>5

\* A waiter that takes the permit assigned to it becomes a holder.
LEMMA AcquiredKeepsSlots ==
    ASSUME TypeOK, SlotsConserved, NEW t \in Task, Acquired(t)
    PROVE  SlotsConserved'
<1>1. t \in granted /\ granted' = granted \ {t} /\ available' = available /\ queue' = queue
  BY DEF Acquired
<1>2. \A u \in Task : pc'[u] = IF u = t THEN "starting" ELSE pc[u]
  BY Moved DEF Acquired
<1>3. pc[t] = "waiting" /\ Holders' = Holders \cup {t} /\ t \notin Holders /\ Waiting' = Waiting \ {t}
  BY <1>2 DEF Acquired, Holders, Waiting
<1>4. Cardinality(Holders') = Cardinality(Holders) + 1
  BY <1>3, Counted, OneMore
<1>5. Cardinality(granted') \in Nat /\ Cardinality(granted) = Cardinality(granted') + 1
  BY <1>1, Counted, OneLess
<1>6. available \in Nat /\ Slots \in Nat
  BY SlotsNat DEF TypeOK
<1>7. available' + Cardinality(granted') + Cardinality(Holders') = Slots
  BY <1>1, <1>4, <1>5, <1>6, Counted DEF SlotsConserved
<1>8. QueueOfWaiters'
  <2>1. {queue[i] : i \in 1 .. Len(queue)} = Waiting \ granted /\ granted \subseteq Waiting
    BY DEF SlotsConserved, QueueOfWaiters, Waiting
  <2>2. {queue'[i] : i \in 1 .. Len(queue')} = Waiting' \ granted' /\ granted' \subseteq Waiting'
    BY <1>1, <1>3, <2>1
  <2> QED
    BY <1>1, <2>2 DEF SlotsConserved, QueueOfWaiters, Waiting
<1> QED
  BY <1>1, <1>7, <1>8 DEF SlotsConserved

\* A waiter that leaves the queue takes no permit with it.
LEMMA DropWaitingKeepsSlots ==
    ASSUME TypeOK, SlotsConserved, NEW t \in Task, DropWaiting(t)
    PROVE  SlotsConserved' /\ queue' \in Seq(Task)
<1>1. PICK i \in 1 .. Len(queue) : queue[i] = t /\ queue' = Without(queue, i)
  BY DEF DropWaiting
<1>2. queue \in Seq(Task) /\ QueueOfWaiters
  BY DEF TypeOK, SlotsConserved
<1>3. /\ queue' \in Seq(Task)
      /\ \A j, k \in 1 .. Len(queue') : queue'[j] = queue'[k] => j = k
      /\ {queue'[j] : j \in 1 .. Len(queue')} = Queued \ {t}
  <2>1. \A j, k \in 1 .. Len(queue) : queue[j] = queue[k] => j = k
    BY <1>2 DEF QueueOfWaiters
  <2>2. /\ Without(queue, i) \in Seq(Task)
        /\ \A j, k \in 1 .. Len(Without(queue, i)) : Without(queue, i)[j] = Without(queue, i)[k] => j = k
        /\ {Without(queue, i)[j] : j \in 1 .. Len(Without(queue, i))}
             = {queue[j] : j \in 1 .. Len(queue)} \ {queue[i]}
    BY <1>2, <2>1, WithoutElement, Zenon
  <2> QED
    BY <1>1, <2>2, Zenon DEF Queued
<1>4. \A u \in Task : pc'[u] = IF u = t THEN "idle" ELSE pc[u]
  BY Moved DEF DropWaiting
<1>5. Holders' = Holders /\ Waiting' = Waiting \ {t} /\ t \notin granted
  BY <1>4 DEF DropWaiting, Holders, Waiting
<1>6. granted' = granted /\ available' = available
  BY DEF DropWaiting
<1>7. Queued = Waiting \ granted /\ granted \subseteq Waiting
  BY <1>2 DEF QueueOfWaiters, Queued, Waiting
<1>8. {queue'[j] : j \in 1 .. Len(queue')} = Waiting' \ granted' /\ granted' \subseteq Waiting'
  BY <1>3, <1>5, <1>6, <1>7
<1>9. QueueOfWaiters'
  BY <1>3, <1>8 DEF QueueOfWaiters, Waiting
<1>10. queue # <<>>
  BY <1>1, <1>2
<1> QED
  BY <1>3, <1>5, <1>6, <1>9, <1>10 DEF SlotsConserved

\* No slot is lost or made up by any step.
LEMMA SlotsStep ==
    ASSUME TypeOK, SlotsConserved, [Next]_vars
    PROVE  /\ SlotsConserved'
           /\ available' \in 0 .. Slots /\ queue' \in Seq(Task) /\ granted' \subseteq Task
<1> USE DEF TypeOK
<1>1. ASSUME NEW t \in Task, Acquire(t) \/ Acquired(t) \/ DropWaiting(t)
      PROVE  /\ SlotsConserved'
             /\ available' \in 0 .. Slots /\ queue' \in Seq(Task) /\ granted' \subseteq Task
  <2>1. CASE Acquire(t)
    BY <2>1, AcquireKeepsSlots
  <2>2. CASE Acquired(t)
    BY <2>2, AcquiredKeepsSlots DEF Acquired
  <2>3. CASE DropWaiting(t)
    BY <2>3, DropWaitingKeepsSlots DEF DropWaiting
  <2> QED
    BY <1>1, <2>1, <2>2, <2>3
<1>2. ASSUME NEW t \in Task, NEW place, GoTo(t, place), UNCHANGED slots,
             \/ pc[t] = "starting" /\ place \in {"running", "releasing"}
             \/ pc[t] = "running" /\ place = "releasing"
      PROVE  SlotsConserved'
  <2>1. \A u \in Task : pc'[u] = IF u = t THEN place ELSE pc[u]
    BY <1>2, Moved
  <2>2. Holders' = Holders /\ Waiting' = Waiting
    BY <1>2, <2>1 DEF Holders, Waiting
  <2> QED
    BY <1>2, <2>2, SlotsSame
<1>3. ASSUME NEW t \in Task, \/ Spawn(t) \/ SpawnFails(t)
                            \/ CommandFailed(t) \/ CommandDone(t) \/ TimedOut(t) \/ DropRunning(t)
      PROVE  SlotsConserved' /\ UNCHANGED slots
  BY <1>2, <1>3 DEF Spawn, SpawnFails, CommandFailed, CommandDone, TimedOut, DropRunning, EndWork, slots
<1>4. ASSUME NEW t \in Task, DropPermit(t)
      PROVE  /\ SlotsConserved'
             /\ available' \in 0 .. Slots /\ queue' \in Seq(Task) /\ granted' \subseteq Task
  <2>1. pc[t] = "releasing" /\ Release({}) /\ GoTo(t, "idle")
    BY <1>4 DEF DropPermit
  <2>2. \A u \in Task : pc'[u] = IF u = t THEN "idle" ELSE pc[u]
    BY <2>1, Moved
  <2>3. t \in Holders /\ Holders' = Holders \ {t} /\ Waiting' = Waiting
    BY <2>1, <2>2 DEF Holders, Waiting
  <2> QED
    BY <2>1, <2>3, ReleaseKeeps
<1>5. ASSUME NEW t \in Task, DropGranted(t)
      PROVE  /\ SlotsConserved'
             /\ available' \in 0 .. Slots /\ queue' \in Seq(Task) /\ granted' \subseteq Task
  <2>1. pc[t] = "waiting" /\ t \in granted /\ Release({t}) /\ GoTo(t, "idle")
    BY <1>5 DEF DropGranted
  <2>2. \A u \in Task : pc'[u] = IF u = t THEN "idle" ELSE pc[u]
    BY <2>1, Moved
  <2>3. Holders' = Holders /\ Waiting' = Waiting \ {t}
    BY <2>1, <2>2 DEF Holders, Waiting
  <2> QED
    BY <2>1, <2>3, ReleaseKeeps
<1>6. ASSUME \/ \E t \in Task : OutputOverflows(t) \/ TimeoutExpires(t)
             \/ \E p \in Proc : ShellExits(p) \/ ProgramExits(p)
             \/ UNCHANGED vars
      PROVE  SlotsConserved' /\ UNCHANGED slots
  <2>1. UNCHANGED slots /\ pc' = pc
    BY <1>6 DEF OutputOverflows, TimeoutExpires, ShellExits, ProgramExits, vars
  <2>2. Holders' = Holders /\ Waiting' = Waiting
    BY <2>1 DEF Holders, Waiting
  <2> QED
    BY <2>1, <2>2, SlotsSame
<1> QED
  BY <1>1, <1>3, <1>4, <1>5, <1>6 DEF Next, Runtime, Dropped, slots

-----------------------------------------------------------------------------

\* The children keep their types, and every shell alive has its running step.
LEMMA ChildStep ==
    ASSUME TypeOK, ChildInv, [Next]_vars
    PROVE  /\ ChildInv'
           /\ pc' \in [Task -> {"idle", "waiting", "starting", "running", "releasing"}]
           /\ mine' \in [Task -> Proc \cup {NoProc}]
           /\ proc' \in [Proc -> SUBSET {"shell", "program"}]
           /\ expired' \subseteq Task /\ overflowed' \subseteq Task
<1> USE DEF TypeOK
<1>1. ASSUME NEW t \in Task, NEW place \in {"idle", "waiting", "starting", "releasing"},
             GoTo(t, place), pc[t] # "running", UNCHANGED <<mine, proc, expired, overflowed>>
      PROVE  /\ ChildInv'
             /\ pc' \in [Task -> {"idle", "waiting", "starting", "running", "releasing"}]
  <2>1. \A u \in Task : pc'[u] = "running" <=> pc[u] = "running"
    BY <1>1, Moved
  <2> QED
    BY <1>1, <2>1 DEF ChildInv, GoTo
<1>2. ASSUME NEW t \in Task, \/ Acquire(t) \/ Acquired(t) \/ SpawnFails(t) \/ DropPermit(t)
                            \/ DropWaiting(t) \/ DropGranted(t)
      PROVE  \E place \in {"idle", "waiting", "starting", "releasing"} :
               GoTo(t, place) /\ pc[t] # "running" /\ UNCHANGED <<mine, proc, expired, overflowed>>
  BY <1>2 DEF Acquire, Acquired, SpawnFails, DropPermit, DropWaiting, DropGranted
<1>3. ASSUME NEW t \in Task, Spawn(t)
      PROVE  /\ ChildInv'
             /\ pc' \in [Task -> {"idle", "waiting", "starting", "running", "releasing"}]
             /\ mine' \in [Task -> Proc \cup {NoProc}]
             /\ proc' \in [Proc -> SUBSET {"shell", "program"}]
  <2>1. PICK p \in Proc : /\ proc' = [proc EXCEPT ![p] = {"shell", "program"}]
                          /\ mine' = [mine EXCEPT ![t] = p]
    BY <1>3 DEF Spawn
  <2>2. pc[t] = "starting" /\ \A u \in Task : pc'[u] = IF u = t THEN "running" ELSE pc[u]
    BY <1>3, Moved DEF Spawn
  <2>3. ChildInv'
    BY <2>1, <2>2 DEF ChildInv
  <2> QED
    BY <1>3, <2>1, <2>3 DEF Spawn, GoTo
<1>4. ASSUME NEW t \in Task, pc[t] = "running", EndWork(t)
      PROVE  /\ ChildInv'
             /\ pc' \in [Task -> {"idle", "waiting", "starting", "running", "releasing"}]
             /\ mine' \in [Task -> Proc \cup {NoProc}]
             /\ proc' \in [Proc -> SUBSET {"shell", "program"}]
  <2>1. mine[t] \in Proc /\ proc' = [proc EXCEPT ![mine[t]] = @ \ {"shell"}]
        /\ mine' = [mine EXCEPT ![t] = NoProc]
    BY <1>4 DEF ChildInv, EndWork, DropChild
  <2>2. \A u \in Task : pc'[u] = IF u = t THEN "releasing" ELSE pc[u]
    BY <1>4, Moved DEF EndWork
  <2>3. ASSUME NEW p \in Proc, "shell" \in proc'[p]
        PROVE  \E u \in Task : pc'[u] = "running" /\ mine'[u] = p
    <3>1. p # mine[t] /\ "shell" \in proc[p]
      BY <2>1, <2>3
    <3>2. PICK u \in Task : pc[u] = "running" /\ mine[u] = p
      BY <3>1 DEF ChildInv
    <3>3. u # t
      BY <3>1, <3>2
    <3> QED
      BY <2>1, <2>2, <3>2, <3>3
  <2>4. \A u \in Task : pc'[u] = "running" => mine'[u] \in Proc
    BY <2>1, <2>2 DEF ChildInv
  <2>5. ChildInv'
    BY <2>3, <2>4 DEF ChildInv
  <2> QED
    BY <1>4, <2>1, <2>5 DEF EndWork, GoTo
<1>5. ASSUME NEW t \in Task, CommandFailed(t) \/ CommandDone(t) \/ TimedOut(t) \/ DropRunning(t)
      PROVE  pc[t] = "running" /\ EndWork(t)
  BY <1>5 DEF CommandFailed, CommandDone, TimedOut, DropRunning
<1>6. ASSUME NEW p \in Proc, ShellExits(p) \/ ProgramExits(p)
      PROVE  ChildInv' /\ proc' \in [Proc -> SUBSET {"shell", "program"}]
  <2>1. \A q \in Proc : proc'[q] \subseteq proc[q]
    BY <1>6 DEF ShellExits, ProgramExits
  <2>2. UNCHANGED <<pc, mine>>
    BY <1>6 DEF ShellExits, ProgramExits
  <2> QED
    BY <1>6, <2>1, <2>2 DEF ChildInv, ShellExits, ProgramExits
<1>7. ASSUME (\E t \in Task : OutputOverflows(t) \/ TimeoutExpires(t)) \/ UNCHANGED vars
      PROVE  UNCHANGED <<pc, mine, proc>> /\ expired' \subseteq Task /\ overflowed' \subseteq Task
  BY <1>7 DEF OutputOverflows, TimeoutExpires, vars
<1>8. CASE \E t \in Task : \/ Acquire(t) \/ Acquired(t) \/ SpawnFails(t) \/ DropPermit(t)
                          \/ DropWaiting(t) \/ DropGranted(t)
  BY <1>1, <1>2, <1>8
<1>9. CASE \E t \in Task : Spawn(t)
  BY <1>3, <1>9 DEF Spawn
<1>10. CASE \E t \in Task : CommandFailed(t) \/ CommandDone(t) \/ TimedOut(t) \/ DropRunning(t)
  BY <1>4, <1>5, <1>10 DEF EndWork
<1>11. CASE \E p \in Proc : ShellExits(p) \/ ProgramExits(p)
  BY <1>6, <1>11 DEF ShellExits, ProgramExits
<1>12. CASE (\E t \in Task : OutputOverflows(t) \/ TimeoutExpires(t)) \/ UNCHANGED vars
  BY <1>7, <1>12 DEF ChildInv
<1> QED
  BY <1>8, <1>9, <1>10, <1>11, <1>12 DEF Next, Runtime, Dropped

\* The invariant holds of a fresh runtime.
LEMMA InitInv == Init => Inv
<1> SUFFICES ASSUME Init PROVE Inv
  OBVIOUS
<1>1. TypeOK
  BY SlotsNat DEF Init, TypeOK
<1>2. Holders = {} /\ granted = {} /\ available = Slots /\ queue = <<>>
  BY DEF Init, Holders
<1>3. QueueOfWaiters
  BY DEF Init, QueueOfWaiters
<1>4. SlotsConserved
  BY <1>2, <1>3, SlotsNat, FS_EmptySet DEF SlotsConserved
<1>5. ChildInv
  BY DEF Init, ChildInv
<1> QED
  BY <1>1, <1>4, <1>5 DEF Inv

\* The slots, their waiters and the children stay consistent, whatever fails,
\* times out or is dropped, in any order.
THEOREM Invariance == Spec => [](TypeOK /\ SlotsConserved /\ ChildInv)
<1>1. Inv /\ [Next]_vars => Inv'
  BY SlotsStep, ChildStep DEF Inv, TypeOK
<1>2. Spec => []Inv
  BY <1>1, InitInv, PTL DEF Spec
<1> QED
  BY <1>2, PTL DEF Inv

\* The semaphore's state, the children and the places of the steps have their
\* types.
THEOREM TypeCorrect == Spec => []TypeOK
BY Invariance, PTL

\* Every permit is free, assigned to one waiter or held by one step, and nobody
\* waits while one is free.
THEOREM NoSlotIsLost == Spec => []SlotsConserved
BY Invariance, PTL

\* At most the configured maximum of shells is alive.
THEOREM ShellsAreBounded == Spec => []ShellsBounded
<1>1. Inv => ShellsBounded
  <2> SUFFICES ASSUME Inv PROVE ShellsBounded
    OBVIOUS
  <2> DEFINE Running == {t \in Task : pc[t] = "running"}
             Shells == {p \in Proc : "shell" \in proc[p]}
             Children == {mine[t] : t \in Running}
  <2>1. Running \subseteq Holders /\ IsFiniteSet(Running) /\ Cardinality(Running) <= Cardinality(Holders)
    <3>1. Running \subseteq Holders
      BY DEF Holders
    <3> QED
      BY <3>1, Counted, FS_Subset DEF Inv
  <2>2. IsFiniteSet(Children) /\ Cardinality(Children) <= Cardinality(Running)
    <3> DEFINE child == [t \in Running |-> mine[t]]
    <3>1. child \in Surjection(Running, Children)
      BY DEF Surjection
    <3> HIDE DEF child, Running, Children
    <3> QED
      BY <2>1, <3>1, FS_Surjection
  <2>3. Shells \subseteq Children
    BY DEF Inv, ChildInv
  <2>4. IsFiniteSet(Shells) /\ Cardinality(Shells) <= Cardinality(Children)
    BY <2>2, <2>3, FS_Subset
  <2>5. /\ Cardinality(Shells) \in Nat /\ Cardinality(Children) \in Nat
        /\ Cardinality(Running) \in Nat
    BY <2>1, <2>2, <2>4, FS_CardinalityType
  <2>6. Cardinality(Holders) <= Slots
    BY Counted, SlotsNat DEF Inv, TypeOK, SlotsConserved
  <2>7. Cardinality(Shells) <= Slots
    BY <2>1, <2>2, <2>4, <2>5, <2>6, Counted, SlotsNat DEF Inv
  <2> QED
    BY <2>7 DEF ShellsBounded
<1>2. Spec => []Inv
  BY Invariance, PTL DEF Inv
<1> QED
  BY <1>1, <1>2, PTL

-----------------------------------------------------------------------------
(* The queue is served in the order it was joined.                         *)

\* Those of line who were in queue already stand behind nobody new.
NobodyCutsIn(line) ==
    \A i, k \in 1 .. Len(line) :
        i < k /\ line[k] \in Queued =>
            \E i0, k0 \in 1 .. Len(queue) : i0 < k0 /\ queue[i0] = line[i] /\ queue[k0] = line[k]

\* A released permit goes to the head, and the rest of the queue moves up.
LEMMA ReleaseKeepsOrder ==
    ASSUME TypeOK, QueueOfWaiters, NEW leaving, Release(leaving)
    PROVE  /\ NobodyCutsIn(queue')
           /\ \A t \in {queue'[i] : i \in 1 .. Len(queue')} : granted' \ granted \subseteq Ahead(t)
<1>1. CASE queue = <<>>
  BY <1>1 DEF Release, NobodyCutsIn, Queued
<1>2. CASE queue # <<>>
  <2>1. /\ queue \in Seq(Task) /\ Len(queue) \in Nat /\ Len(queue) >= 1
        /\ Head(queue) = queue[1] /\ queue' = Tail(queue)
        /\ granted' \ granted \subseteq {queue[1]}
    BY <1>2 DEF TypeOK, Release
  <2>2. Len(queue') = Len(queue) - 1 /\ \A i \in 1 .. Len(queue') : queue'[i] = queue[i + 1]
    BY <2>1
  <2>3. \A i \in 1 .. Len(queue') : i + 1 \in 1 .. Len(queue) /\ i \in Nat /\ queue'[i] = queue[i + 1]
    BY <2>1, <2>2
  <2>4. NobodyCutsIn(queue')
    <3> SUFFICES ASSUME NEW i \in 1 .. Len(queue'), NEW k \in 1 .. Len(queue'), i < k
                 PROVE  \E i0, k0 \in 1 .. Len(queue) :
                            i0 < k0 /\ queue[i0] = queue'[i] /\ queue[k0] = queue'[k]
      BY DEF NobodyCutsIn
    <3>1. i + 1 < k + 1
      OBVIOUS
    <3> QED
      BY <2>3, <3>1
  <2>5. ASSUME NEW j \in 1 .. Len(queue') PROVE queue[1] \in Ahead(queue'[j])
    <3>1. j + 1 \in 1 .. Len(queue) /\ queue[j + 1] = queue'[j]
      BY <2>3
    <3>2. 1 \in 1 .. Len(queue) /\ 1 < j + 1
      BY <2>1
    <3> QED
      BY <3>1, <3>2 DEF Ahead
  <2> QED
    BY <2>1, <2>4, <2>5
<1> QED
  BY <1>1, <1>2

\* A waiter that leaves the queue lets those behind it move up.
LEMMA LeavingKeepsOrder ==
    ASSUME TypeOK, NEW t \in Task, DropWaiting(t)
    PROVE  NobodyCutsIn(queue')
<1>1. PICK n \in 1 .. Len(queue) : queue' = Without(queue, n)
  BY DEF DropWaiting
<1>2. Len(queue) \in Nat /\ Len(queue) - 1 \in Nat /\ n \in Nat
  BY DEF TypeOK
<1> DEFINE m == Len(queue) - 1
           Was(j) == IF j < n THEN j ELSE j + 1
<1>3. queue' = [j \in 1 .. m |-> queue[Was(j)]]
  BY <1>1 DEF Without
<1>4. Len(queue') = m /\ \A j \in 1 .. m : queue'[j] = queue[Was(j)]
  BY <1>2, <1>3
<1>5. \A j \in 1 .. m : Was(j) \in 1 .. Len(queue)
  BY <1>2
<1>6. \A i, k \in 1 .. m : i < k => Was(i) < Was(k)
  BY <1>2
<1> HIDE DEF m, Was
<1> QED
  BY <1>4, <1>5, <1>6 DEF NobodyCutsIn

\* A step that finds no permit free joins the end; one that finds one free
\* overtakes nobody.
LEMMA AcquireKeepsOrder ==
    ASSUME TypeOK, SlotsConserved, NEW t \in Task, Acquire(t)
    PROVE  /\ NobodyCutsIn(queue') /\ granted' = granted
           /\ Queued # {} => pc'[t] = "waiting"
<1>1. /\ queue \in Seq(Task) /\ Len(queue) \in Nat /\ available \in Nat
      /\ granted' = granted /\ (queue # <<>> => available = 0)
  BY SlotsNat DEF TypeOK, SlotsConserved, Acquire
<1>2. CASE available > 0
  <2>1. queue = <<>> /\ queue' = queue
    BY <1>1, <1>2 DEF Acquire
  <2> QED
    BY <1>1, <2>1 DEF NobodyCutsIn, Queued
<1>3. CASE ~(available > 0)
  <2>1. queue' = Append(queue, t) /\ GoTo(t, "waiting") /\ pc[t] = "idle"
    BY <1>3 DEF Acquire
  <2>2. /\ Len(queue') = Len(queue) + 1 /\ queue'[Len(queue) + 1] = t
        /\ \A i \in 1 .. Len(queue) : queue'[i] = queue[i]
    BY <1>1, <2>1
  <2>3. t \notin Queued
    BY <2>1 DEF SlotsConserved, QueueOfWaiters, Queued
  <2>4. NobodyCutsIn(queue')
    <3> SUFFICES ASSUME NEW i \in 1 .. Len(queue'), NEW k \in 1 .. Len(queue'),
                        i < k, queue'[k] \in Queued
                 PROVE  \E i0, k0 \in 1 .. Len(queue) :
                            i0 < k0 /\ queue[i0] = queue'[i] /\ queue[k0] = queue'[k]
      BY DEF NobodyCutsIn
    <3>1. k # Len(queue) + 1
      BY <2>2, <2>3
    <3>2. i \in 1 .. Len(queue) /\ k \in 1 .. Len(queue)
      BY <1>1, <2>2, <3>1
    <3> QED
      BY <2>2, <3>2
  <2>5. pc'[t] = "waiting"
    BY <2>1, Moved
  <2> QED
    BY <1>1, <2>4, <2>5
<1> QED
  BY <1>2, <1>3

\* Those who stay in the queue are served from its front, in its order.
ServedInOrder ==
    /\ NobodyCutsIn(queue')
    /\ \A t \in {queue'[i] : i \in 1 .. Len(queue')} : granted' \ granted \subseteq Ahead(t)
    /\ Queued # {} => \A u \in Task : pc[u] = "idle" => pc'[u] # "starting"

\* One step keeps the order of the queue and serves it from the front.
LEMMA OrderStep ==
    ASSUME TypeOK, SlotsConserved, [Next]_vars
    PROVE  ServedInOrder
<1>1. QueueOfWaiters
  BY DEF SlotsConserved
<1>2. ASSUME UNCHANGED queue PROVE NobodyCutsIn(queue')
  BY <1>2 DEF NobodyCutsIn
<1>3. ASSUME NEW t \in Task, NEW place, GoTo(t, place), pc[t] # "idle" \/ place # "starting"
      PROVE  \A u \in Task : pc[u] = "idle" => pc'[u] # "starting"
  BY <1>3, Moved
<1>4. ASSUME NEW t \in Task, Acquire(t) PROVE ServedInOrder
  <2>1. Queued # {} => GoTo(t, "waiting")
    BY <1>4, AcquireKeepsOrder, Moved DEF Acquire
  <2> QED
    BY <1>3, <1>4, <2>1, AcquireKeepsOrder DEF ServedInOrder
<1>5. ASSUME NEW t \in Task, DropWaiting(t) PROVE ServedInOrder
  BY <1>3, <1>5, LeavingKeepsOrder DEF DropWaiting, ServedInOrder
<1>6. ASSUME NEW t \in Task, DropPermit(t) \/ DropGranted(t) PROVE ServedInOrder
  BY <1>1, <1>3, <1>6, ReleaseKeepsOrder DEF DropPermit, DropGranted, ServedInOrder
<1>7. ASSUME NEW t \in Task, Acquired(t) PROVE ServedInOrder
  BY <1>2, <1>3, <1>7 DEF Acquired, ServedInOrder
<1>8. ASSUME NEW t \in Task, \/ Spawn(t) \/ SpawnFails(t) \/ CommandFailed(t) \/ CommandDone(t)
                            \/ TimedOut(t) \/ DropRunning(t)
      PROVE  ServedInOrder
  BY <1>2, <1>3, <1>8
     DEF Spawn, SpawnFails, CommandFailed, CommandDone, TimedOut, DropRunning, EndWork, slots,
         ServedInOrder
<1>9. ASSUME \/ \E t \in Task : OutputOverflows(t) \/ TimeoutExpires(t)
             \/ \E p \in Proc : ShellExits(p) \/ ProgramExits(p)
             \/ UNCHANGED vars
      PROVE  ServedInOrder
  <2>1. UNCHANGED slots /\ pc' = pc
    BY <1>9 DEF OutputOverflows, TimeoutExpires, ShellExits, ProgramExits, vars
  <2> QED
    BY <1>2, <2>1 DEF slots, ServedInOrder
<1> QED
  BY <1>4, <1>5, <1>6, <1>7, <1>8, <1>9 DEF Next, Runtime, Dropped

\* A step that waits for a slot is overtaken by nobody: whoever is assigned a
\* permit before it was ahead of it in the queue, and no step joins before it.
THEOREM WaitersAreServedInOrder == Spec => FirstComeFirstServed
<1>1. TypeOK /\ SlotsConserved /\ [Next]_vars =>
         [\A t \in {queue[i] : i \in 1 .. Len(queue)} \cap {queue'[i] : i \in 1 .. Len(queue')} :
            /\ Ahead(t)' \subseteq Ahead(t)
            /\ granted' \ granted \subseteq Ahead(t)
            /\ \A u \in Task : pc[u] = "idle" => pc'[u] # "starting"]_vars
  <2> SUFFICES ASSUME TypeOK, SlotsConserved, [Next]_vars,
                      NEW t \in Queued, t \in {queue'[i] : i \in 1 .. Len(queue')}
               PROVE  /\ Ahead(t)' \subseteq Ahead(t)
                      /\ granted' \ granted \subseteq Ahead(t)
                      /\ \A u \in Task : pc[u] = "idle" => pc'[u] # "starting"
    BY DEF Queued
  <2>1. Ahead(t)' \subseteq Ahead(t)
    <3> SUFFICES ASSUME NEW i \in 1 .. Len(queue'), NEW k \in 1 .. Len(queue'),
                        i < k, queue'[k] = t
                 PROVE  queue'[i] \in Ahead(t)
      BY DEF Ahead
    <3>1. PICK i0, k0 \in 1 .. Len(queue) : i0 < k0 /\ queue[i0] = queue'[i] /\ queue[k0] = t
      BY OrderStep DEF ServedInOrder, NobodyCutsIn
    <3> QED
      BY <3>1 DEF Ahead
  <2>2. Queued # {}
    OBVIOUS
  <2> QED
    BY <2>1, <2>2, OrderStep DEF ServedInOrder
<1>2. Spec => [](TypeOK /\ SlotsConserved)
  BY Invariance, PTL
<1> QED
  BY <1>1, <1>2, PTL DEF Spec, FirstComeFirstServed
===============================================================================
