-------------------------- MODULE UpstreamCallsProofs --------------------------
(***************************************************************************)
(* What outgoing calls keep to, for any number of calls, sources, retries  *)
(* and connections.                                                        *)
(***************************************************************************)
EXTENDS UpstreamCalls, FiniteSetTheorems, TLAPS

\* What a call is waiting for goes with its kind; a query that is past its pool has
\* one; attempts are counted, and none is left when the fetch gives up on its answer.
CallInv(c) ==
    /\ pc[c] \in {"sending", "reading", "sleeping"} => config[c].kind = "http"
    /\ pc[c] = "dialing" => config[c].kind = "grpc"
    /\ pc[c] = "acquiring" => config[c].kind = "db"
    /\ pc[c] \in {"building", "calling"} \/ pool[c] # Nobody => config[c].kind # "http"
    /\ pc[c] \in {"acquiring", "calling"} /\ config[c].kind = "db" => pool[c] # Nobody
    /\ pc[c] # "done" => outcome[c] = "none"
    /\ config[c].kind = "http" =>
         /\ pc[c] = "idle" => sent[c] = 0
         /\ sent[c] <= config[c].retries + 1
         /\ outcome[c] \in {"fallback", "timeout"} => sent[c] = config[c].retries + 1
         /\ pc[c] = "sleeping" => sent[c] <= config[c].retries

Inv == TypeOK /\ (\A c \in Call : CallInv(c)) /\ OneEntryPerSource

\* A query waits for its pool before it runs, so that no pool runs too many.
PoolInv == \A p \in Call : Cardinality(Connections(p)) <= MaxConnections

-----------------------------------------------------------------------------
(* Kinds of steps.                                                          *)

Results == {"answer", "fallback", "timeout", "error", "dropped"}

Ending(c) ==
    \E result \in Results :
        /\ End(c, result)
        /\ config[c].kind = "http" /\ result \in {"fallback", "timeout"} =>
             sent[c] = config[c].retries + 1

Sending(c) == config[c].kind = "http" /\ sent[c] <= config[c].retries /\ pc[c] # "done" /\ Send(c)

Moving(c) ==
    /\ \/ GoTo(c, "sleeping") /\ config[c].kind = "http" /\ sent[c] <= config[c].retries
       \/ GoTo(c, "reading") /\ config[c].kind = "http"
       \/ GoTo(c, "dialing") /\ config[c].kind = "grpc"
       \/ GoTo(c, "calling") /\ config[c].kind = "grpc"
       \/ /\ GoTo(c, "calling") /\ config[c].kind = "db" /\ pool[c] # Nobody
          /\ Cardinality(Connections(pool[c])) < MaxConnections
    /\ pc[c] \notin {"calling", "done"}
    /\ UNCHANGED <<config, sent, cache, pool, outcome>>

LookingUp(c) == config[c].kind # "http" /\ pc[c] \in {"idle", "dialing"} /\ LookUp(c)

LEMMA Configured ==
    ASSUME Inv, NEW c \in Call
    PROVE  config[c] \in Config
BY UpstreamAssumption DEF Inv, TypeOK

LEMMA FallbackEnds ==
    ASSUME NEW c \in Call, NEW result \in {"error", "timeout"}, FallBackOr(c, result),
           config[c].kind = "http" => sent[c] = config[c].retries + 1
    PROVE  Ending(c)
BY DEF FallBackOr, Ending, Results

LEMMA AttemptKinds ==
    ASSUME Inv, NEW c \in Call, Waiting(c, "http", "sending"), AttemptFailed(c)
    PROVE  Ending(c) \/ Sending(c) \/ Moving(c)
<1>1. CASE LastAttempt(c)
  BY <1>1, FallbackEnds DEF LastAttempt, AttemptFailed
<1>2. CASE ~LastAttempt(c)
  <2>1. sent[c] <= config[c].retries
    BY <1>2, Configured DEF Config, LastAttempt, Inv, TypeOK, CallInv, Waiting
  <2> QED
    BY <1>2, <2>1 DEF AttemptFailed, Sending, Moving, Waiting
<1> QED
  BY <1>1, <1>2

LEMMA StepKinds ==
    ASSUME Inv, NEW c \in Call, CallNext(c)
    PROVE  Ending(c) \/ Sending(c) \/ Moving(c) \/ LookingUp(c) \/ Built(c)
<1>1. CASE BadInput(c)
  BY <1>1 DEF BadInput, Ending, Results
<1>2. CASE Fetch(c) \/ Wake(c)
  BY <1>2, Configured DEF Fetch, Wake, Waiting, Sending, Inv, CallInv, Config, TypeOK
<1>3. CASE Query(c)
  BY <1>3 DEF Query, Waiting, LookingUp
<1>4. CASE Dial(c)
  BY <1>4 DEF Dial, Waiting, Moving
<1>5. CASE Refused(c) \/ AttemptTimedOut(c)
  BY <1>5, AttemptKinds DEF Refused, AttemptTimedOut
<1>6. CASE Responded(c)
  BY <1>6 DEF Responded, Waiting, Moving
<1>7. CASE BodyRead(c) \/ BodyFailed(c) \/ BodyTimedOut(c)
  BY <1>7 DEF BodyRead, BodyFailed, BodyTimedOut, Ending, Results
<1>8. CASE Dialed(c)
  BY <1>8 DEF Dialed, Waiting, LookingUp, Moving
<1>9. CASE Acquire(c)
  BY <1>9 DEF Acquire, Moving, Inv, CallInv
<1>10. CASE Answered(c) \/ Drop(c)
  BY <1>10 DEF Answered, Drop, Ending, Results
<1>11. CASE WorkFailed(c)
  <2>1. config[c].kind # "http"
    BY <1>11 DEF WorkFailed, Inv, CallInv
  <2> QED
    BY <1>11, <2>1, FallbackEnds DEF WorkFailed
<1>12. CASE WorkTimedOut(c)
  BY <1>12 DEF WorkTimedOut, Ending, Results, Inv, CallInv
<1> QED
  BY <1>1, <1>2, <1>3, <1>4, <1>5, <1>6, <1>7, <1>8, <1>9, <1>10, <1>11, <1>12
     DEF CallNext, Http, Work

-----------------------------------------------------------------------------
(* The invariant.                                                           *)

LEMMA InvInit == Init => Inv /\ PoolInv
<1> SUFFICES ASSUME Init PROVE Inv /\ PoolInv
  OBVIOUS
<1>1. TypeOK
  BY UpstreamAssumption DEF Init, TypeOK, Place
<1>2. \A c \in Call : CallInv(c)
  <2> SUFFICES ASSUME NEW c \in Call PROVE CallInv(c)
    OBVIOUS
  <2>1. config[c].retries \in Nat
    BY UpstreamAssumption DEF Init, Config
  <2> QED
    BY <2>1 DEF Init, CallInv
<1>3. OneEntryPerSource
  BY DEF Init, OneEntryPerSource
<1>4. \A p \in Call : Connections(p) = {}
  BY DEF Init, Connections, Waiting
<1> QED
  BY <1>1, <1>2, <1>3, <1>4, FS_EmptySet, UpstreamAssumption DEF Inv, PoolInv

LEMMA EntryIsCached ==
    ASSUME Inv, NEW c \in Call, config[c].kind # "http"
    PROVE  Entry(c) \in Caches
BY Configured DEF Config, Entry, Caches

LEMMA EndingKeepsInv ==
    ASSUME Inv, NEW c \in Call, Ending(c)
    PROVE  Inv'
<1>1. PICK result \in Results :
        /\ pc' = [pc EXCEPT ![c] = "done"]
        /\ outcome' = [outcome EXCEPT ![c] = result]
        /\ UNCHANGED <<config, sent, cache, pool>>
        /\ config[c].kind = "http" /\ result \in {"fallback", "timeout"} =>
             sent[c] = config[c].retries + 1
  BY DEF Ending, End, GoTo
<1>2. TypeOK'
  BY <1>1 DEF Inv, TypeOK, Place, Results
<1>3. \A d \in Call : CallInv(d)'
  <2> SUFFICES ASSUME NEW d \in Call PROVE CallInv(d)'
    OBVIOUS
  <2>1. CASE d = c
    <3>1. pc'[c] = "done" /\ outcome'[c] = result
      BY <1>1 DEF Inv, TypeOK
    <3>2. CallInv(c)
      BY DEF Inv
    <3> QED
      BY <1>1, <2>1, <3>1, <3>2 DEF CallInv
  <2>2. CASE d # c
    <3>1. pc'[d] = pc[d] /\ outcome'[d] = outcome[d] /\ CallInv(d)
      BY <1>1, <2>2 DEF Inv, TypeOK
    <3> QED
      BY <1>1, <3>1 DEF CallInv
  <2> QED
    BY <2>1, <2>2
<1>4. OneEntryPerSource'
  BY <1>1 DEF Inv, OneEntryPerSource, Entry
<1> QED
  BY <1>2, <1>3, <1>4 DEF Inv

LEMMA SendingKeepsInv ==
    ASSUME Inv, NEW c \in Call, Sending(c)
    PROVE  Inv'
<1>1. /\ config[c].kind = "http" /\ sent[c] <= config[c].retries /\ pc[c] # "done"
      /\ pc' = [pc EXCEPT ![c] = "sending"]
      /\ sent' = [sent EXCEPT ![c] = @ + 1]
      /\ UNCHANGED <<config, cache, pool, outcome>>
  BY DEF Sending, Send, GoTo
<1>2. TypeOK'
  BY <1>1 DEF Inv, TypeOK, Place
<1>3. \A d \in Call : CallInv(d)'
  <2> SUFFICES ASSUME NEW d \in Call PROVE CallInv(d)'
    OBVIOUS
  <2>1. CASE d = c
    <3>1. pc'[c] = "sending" /\ sent'[c] = sent[c] + 1 /\ sent[c] \in Nat /\ config[c].retries \in Nat
      BY <1>1, Configured DEF Inv, TypeOK, Config
    <3>2. CallInv(c)
      BY DEF Inv
    <3> QED
      BY <1>1, <2>1, <3>1, <3>2 DEF CallInv
  <2>2. CASE d # c
    <3>1. pc'[d] = pc[d] /\ sent'[d] = sent[d] /\ CallInv(d)
      BY <1>1, <2>2 DEF Inv, TypeOK
    <3> QED
      BY <1>1, <3>1 DEF CallInv
  <2> QED
    BY <2>1, <2>2
<1>4. OneEntryPerSource'
  BY <1>1 DEF Inv, OneEntryPerSource, Entry
<1> QED
  BY <1>2, <1>3, <1>4 DEF Inv

LEMMA MovingKeepsInv ==
    ASSUME Inv, NEW c \in Call, Moving(c)
    PROVE  Inv'
<1>1. /\ UNCHANGED <<config, sent, cache, pool, outcome>> /\ pc[c] # "done"
      /\ \E place \in {"sleeping", "reading", "dialing", "calling"} :
           /\ pc' = [pc EXCEPT ![c] = place]
           /\ place = "sleeping" => config[c].kind = "http" /\ sent[c] <= config[c].retries
           /\ place = "reading" => config[c].kind = "http"
           /\ place = "dialing" => config[c].kind = "grpc"
           /\ place = "calling" =>
                config[c].kind = "grpc" \/ (config[c].kind = "db" /\ pool[c] # Nobody)
  BY DEF Moving, GoTo
<1>2. TypeOK'
  BY <1>1 DEF Inv, TypeOK, Place
<1>3. \A d \in Call : CallInv(d)'
  <2> SUFFICES ASSUME NEW d \in Call PROVE CallInv(d)'
    OBVIOUS
  <2>1. CASE d = c
    <3>1. CallInv(c) /\ pc \in [Call -> Place]
      BY DEF Inv, TypeOK
    <3> QED
      BY <1>1, <2>1, <3>1 DEF CallInv
  <2>2. CASE d # c
    <3>1. pc'[d] = pc[d] /\ CallInv(d)
      BY <1>1, <2>2 DEF Inv, TypeOK
    <3> QED
      BY <1>1, <3>1 DEF CallInv
  <2> QED
    BY <2>1, <2>2
<1>4. OneEntryPerSource'
  BY <1>1 DEF Inv, OneEntryPerSource, Entry
<1> QED
  BY <1>2, <1>3, <1>4 DEF Inv

\* A call that takes an entry, found or built: it is in the cache, where it
\* stands for the source from the first time on.
LEMMA EntryKeepsInv ==
    ASSUME Inv, NEW c \in Call, config[c].kind # "http", pc[c] # "done",
           NEW place \in {"building", "acquiring", "calling"}, GoTo(c, place),
           UNCHANGED <<config, sent, outcome>>,
           cache' \in [Caches -> Call \cup {Nobody}],
           \A k \in Caches : cache[k] # Nobody => cache'[k] = cache[k],
           \/ place = "building" /\ UNCHANGED pool
           \/ /\ pool' = [pool EXCEPT ![c] = cache'[Entry(c)]] /\ cache'[Entry(c)] # Nobody
              /\ place = "acquiring" <=> config[c].kind = "db"
    PROVE  Inv'
<1>1. pc' = [pc EXCEPT ![c] = place]
  BY DEF GoTo
<1>2. Entry(c) \in Caches
  BY EntryIsCached
<1>3. TypeOK'
  <2>1. pool' \in [Call -> Call \cup {Nobody}]
    BY <1>2 DEF Inv, TypeOK
  <2> QED
    BY <1>1, <2>1 DEF Inv, TypeOK, Place
<1>4. \A d \in Call : CallInv(d)'
  <2> SUFFICES ASSUME NEW d \in Call PROVE CallInv(d)'
    OBVIOUS
  <2>1. CASE d = c
    <3>1. CallInv(c) /\ pc'[c] = place
      BY <1>1 DEF Inv, TypeOK
    <3>2. place = "building" \/ pool'[c] # Nobody
      BY DEF Inv, TypeOK
    <3>3. place = "acquiring" => config[c].kind = "db"
      OBVIOUS
    <3> QED
      BY <2>1, <3>1, <3>2, <3>3 DEF CallInv
  <2>2. CASE d # c
    <3>1. pc'[d] = pc[d] /\ pool'[d] = pool[d] /\ CallInv(d)
      BY <1>1, <2>2 DEF Inv, TypeOK
    <3> QED
      BY <3>1 DEF CallInv
  <2> QED
    BY <2>1, <2>2
<1>5. OneEntryPerSource'
  <2> SUFFICES ASSUME NEW d \in Call, pool'[d] # Nobody PROVE cache'[Entry(d)] = pool'[d]
    BY DEF OneEntryPerSource, Entry
  <2>1. CASE pool'[d] = pool[d]
    <3>1. config[d].kind # "http"
      BY <2>1 DEF Inv, CallInv
    <3>2. Entry(d) \in Caches
      BY <3>1, EntryIsCached
    <3>3. cache[Entry(d)] = pool[d]
      BY <2>1 DEF Inv, OneEntryPerSource
    <3> QED
      BY <2>1, <3>2, <3>3
  <2>2. CASE pool'[d] # pool[d]
    BY <2>2 DEF Inv, TypeOK
  <2> QED
    BY <2>1, <2>2
<1> QED
  BY <1>3, <1>4, <1>5 DEF Inv

LEMMA LookingUpKeepsInv ==
    ASSUME Inv, NEW c \in Call, LookingUp(c)
    PROVE  Inv'
<1>1. config[c].kind # "http" /\ pc[c] # "done" /\ UNCHANGED <<config, sent, cache, outcome>>
  BY DEF LookingUp, LookUp
<1>2. cache' \in [Caches -> Call \cup {Nobody}] /\ \A k \in Caches : cache'[k] = cache[k]
  BY <1>1 DEF Inv, TypeOK
<1>3. CASE cache[Entry(c)] # Nobody
  <2>1. pool' = [pool EXCEPT ![c] = cache'[Entry(c)]] /\ Use(c)
    BY <1>1, <1>3 DEF LookingUp, LookUp
  <2> DEFINE place == IF config[c].kind = "db" THEN "acquiring" ELSE "calling"
  <2>2. GoTo(c, place) /\ place \in {"acquiring", "calling"}
    BY <2>1 DEF Use
  <2>3. place = "acquiring" <=> config[c].kind = "db"
    OBVIOUS
  <2> HIDE DEF place
  <2> QED
    BY <1>1, <1>2, <1>3, <2>1, <2>2, <2>3, EntryKeepsInv
<1>4. CASE cache[Entry(c)] = Nobody
  <2>1. GoTo(c, "building") /\ UNCHANGED pool
    BY <1>4 DEF LookingUp, LookUp
  <2> QED
    BY <1>1, <1>2, <2>1, EntryKeepsInv
<1> QED
  BY <1>3, <1>4

LEMMA BuiltKeepsInv ==
    ASSUME Inv, NEW c \in Call, Built(c)
    PROVE  Inv'
<1>1. /\ pc[c] = "building"
      /\ cache' = [cache EXCEPT ![Entry(c)] = IF cache[Entry(c)] = Nobody THEN c ELSE cache[Entry(c)]]
      /\ pool' = [pool EXCEPT ![c] = cache'[Entry(c)]]
      /\ Use(c)
      /\ UNCHANGED <<config, sent, outcome>>
  BY DEF Built
<1>2. config[c].kind # "http"
  BY <1>1 DEF Inv, CallInv
<1>3. Entry(c) \in Caches
  BY <1>2, EntryIsCached
<1>4. /\ cache' \in [Caches -> Call \cup {Nobody}]
      /\ \A k \in Caches : cache[k] # Nobody => cache'[k] = cache[k]
      /\ cache'[Entry(c)] # Nobody
  BY <1>1, <1>3, UpstreamAssumption DEF Inv, TypeOK
<1> DEFINE place == IF config[c].kind = "db" THEN "acquiring" ELSE "calling"
<1>5. GoTo(c, place) /\ place \in {"acquiring", "calling"}
  BY <1>1 DEF Use
<1>6. place = "acquiring" <=> config[c].kind = "db"
  OBVIOUS
<1> HIDE DEF place
<1> QED
  BY <1>1, <1>2, <1>4, <1>5, <1>6, EntryKeepsInv

LEMMA Invariance == Spec => []Inv
<1>1. Inv /\ [Next]_vars => Inv'
  <2> SUFFICES ASSUME Inv, [Next]_vars PROVE Inv'
    OBVIOUS
  <2>1. CASE UNCHANGED vars
    BY <2>1 DEF vars, Inv, TypeOK, CallInv, OneEntryPerSource, Entry
  <2>2. ASSUME NEW c \in Call, CallNext(c) PROVE Inv'
    BY <2>2, StepKinds, EndingKeepsInv, SendingKeepsInv, MovingKeepsInv, LookingUpKeepsInv,
       BuiltKeepsInv
  <2> QED
    BY <2>1, <2>2 DEF Next, AllDone
<1> QED
  BY <1>1, InvInit, PTL DEF Spec

-----------------------------------------------------------------------------
(* Pools.                                                                   *)

LEMMA ConnectionsFinite ==
    ASSUME NEW p
    PROVE  IsFiniteSet(Connections(p))
BY FS_Subset, UpstreamAssumption DEF Connections

\* Unless a query gets its connection, no pool has more of them in use.
LEMMA FewerConnections ==
    ASSUME PoolInv, \A p \in Call : Connections(p)' \subseteq Connections(p)
    PROVE  PoolInv'
<1> SUFFICES ASSUME NEW p \in Call PROVE Cardinality(Connections(p)') <= MaxConnections
  BY DEF PoolInv
<1>1. Cardinality(Connections(p)') <= Cardinality(Connections(p))
  BY ConnectionsFinite, FS_Subset
<1>2. IsFiniteSet(Connections(p)')
  BY ConnectionsFinite, FS_Subset
<1> QED
  BY <1>1, <1>2, ConnectionsFinite, FS_CardinalityType, UpstreamAssumption DEF PoolInv

LEMMA PoolStep ==
    ASSUME Inv, PoolInv, NEW c \in Call, CallNext(c)
    PROVE  PoolInv'
<1>1. CASE Ending(c) \/ Sending(c)
  <2>1. /\ \E place \in {"done", "sending"} : pc' = [pc EXCEPT ![c] = place]
        /\ UNCHANGED <<config, pool>>
    BY <1>1 DEF Ending, End, Sending, Send, GoTo
  <2>2. \A p \in Call : Connections(p)' \subseteq Connections(p)
    BY <2>1 DEF Connections, Waiting, Inv, TypeOK
  <2> QED
    BY <2>2, FewerConnections
<1>2. CASE LookingUp(c) \/ Built(c)
  <2>1. /\ \E place \in {"building", "acquiring"} \cup (IF config[c].kind = "db" THEN {} ELSE {"calling"}) :
             pc' = [pc EXCEPT ![c] = place]
        /\ \E entry : pool' = [pool EXCEPT ![c] = entry]
        /\ UNCHANGED config
    <3>1. pool = [pool EXCEPT ![c] = pool[c]]
      BY DEF Inv, TypeOK
    <3>2. CASE LookingUp(c)
      BY <3>1, <3>2 DEF LookingUp, LookUp, Use, GoTo
    <3>3. CASE Built(c)
      BY <3>3 DEF Built, Use, GoTo
    <3> QED
      BY <1>2, <3>2, <3>3
  <2>2. \A p \in Call : Connections(p)' \subseteq Connections(p)
    BY <2>1 DEF Connections, Waiting, Inv, TypeOK
  <2> QED
    BY <2>2, FewerConnections
<1>3. CASE Moving(c)
  <2>1. UNCHANGED <<config, pool>> /\ pc[c] # "calling"
    BY <1>3 DEF Moving
  <2>2. CASE ~(GoTo(c, "calling") /\ config[c].kind = "db")
    <3>1. \E place \in {"sleeping", "reading", "dialing", "calling"} :
            pc' = [pc EXCEPT ![c] = place] /\ (place = "calling" => config[c].kind # "db")
      BY <1>3, <2>2 DEF Moving, GoTo
    <3>2. \A p \in Call : Connections(p)' \subseteq Connections(p)
      BY <2>1, <3>1 DEF Connections, Waiting, Inv, TypeOK
    <3> QED
      BY <3>2, FewerConnections
  <2>3. CASE GoTo(c, "calling") /\ config[c].kind = "db"
    <3>1. Cardinality(Connections(pool[c])) < MaxConnections /\ pool[c] \in Call
      BY <1>3, <2>3 DEF Moving, GoTo, Inv, TypeOK
    <3>2. Connections(pool[c])' = Connections(pool[c]) \cup {c} /\ c \notin Connections(pool[c])
      BY <2>1, <2>3 DEF Connections, Waiting, GoTo, Inv, TypeOK
    <3>3. \A p \in Call \ {pool[c]} : Connections(p)' = Connections(p)
      BY <2>1, <2>3 DEF Connections, Waiting, GoTo, Inv, TypeOK
    <3>4. Cardinality(Connections(pool[c]) \cup {c}) = Cardinality(Connections(pool[c])) + 1
      BY <3>2, ConnectionsFinite, FS_AddElement
    <3>5. Cardinality(Connections(pool[c])) \in Nat
      BY ConnectionsFinite, FS_CardinalityType
    <3>6. Cardinality(Connections(pool[c]) \cup {c}) <= MaxConnections
      BY <3>1, <3>4, <3>5, UpstreamAssumption
    <3> QED
      BY <2>1, <3>2, <3>3, <3>6 DEF PoolInv
  <2> QED
    BY <2>2, <2>3
<1> QED
  BY <1>1, <1>2, <1>3, StepKinds

\* Queries on a source are queries of its pool.
LEMMA QueriesShareAPool ==
    ASSUME Inv, PoolInv, NEW source \in Source
    PROVE  Cardinality(Querying(source)) <= MaxConnections
<1> DEFINE p == cache[<<"db", source>>]
<1>1. \A c \in Querying(source) : pool[c] = p /\ p # Nobody
  BY DEF Querying, Inv, CallInv, OneEntryPerSource, Entry
<1>2. p \in Call \cup {Nobody}
  BY DEF Inv, TypeOK, Caches
<1> HIDE DEF p
<1>3. CASE Querying(source) = {}
  BY <1>3, FS_EmptySet, UpstreamAssumption
<1>4. CASE Querying(source) # {}
  <2>1. p \in Call /\ Querying(source) \subseteq Connections(p)
    BY <1>1, <1>2, <1>4 DEF Querying, Connections, Waiting
  <2>2. Cardinality(Querying(source)) <= Cardinality(Connections(p)) /\ IsFiniteSet(Querying(source))
    BY <2>1, ConnectionsFinite, FS_Subset
  <2> QED
    BY <2>1, <2>2, ConnectionsFinite, FS_CardinalityType, UpstreamAssumption DEF PoolInv
<1> QED
  BY <1>3, <1>4

-----------------------------------------------------------------------------
(* Theorems.                                                                *)

\* Types: the calls and the caches keep theirs.
THEOREM TypeCorrect == Spec => []TypeOK
BY Invariance, PTL DEF Inv

\* Caches: calls that race to a source end up on one entry, which is never replaced,
\* for any number of calls, dropped or timed out anywhere.
THEOREM OneEntry == Spec => []OneEntryPerSource
BY Invariance, PTL DEF Inv

\* Attempts: a fetch gives up on its answer when its attempts are used up, never
\* before, for any number of retries.
THEOREM AttemptsUsedUp == Spec => []NoAttemptSkipped
<1>1. Inv => NoAttemptSkipped
  BY DEF Inv, CallInv, NoAttemptSkipped
<1> QED
  BY <1>1, Invariance, PTL

\* Pools: no source has more queries running than one pool has connections.
THEOREM Bounded == Spec => []QueriesBounded
<1>1. Inv /\ PoolInv /\ [Next]_vars => PoolInv'
  <2> SUFFICES ASSUME Inv, PoolInv, [Next]_vars PROVE PoolInv'
    OBVIOUS
  <2>1. CASE UNCHANGED vars
    <3>1. \A p \in Call : Connections(p)' \subseteq Connections(p)
      BY <2>1 DEF vars, Connections, Waiting
    <3> QED
      BY <3>1, FewerConnections
  <2> QED
    BY <2>1, PoolStep DEF Next, AllDone
<1>2. Inv /\ PoolInv => QueriesBounded
  BY QueriesShareAPool DEF QueriesBounded
<1> QED
  BY <1>1, <1>2, InvInit, Invariance, PTL DEF Spec

\* Fallbacks: one that evaluates stands in for every error but those of the input and
\* of the body of an HTTP response.
THEOREM FallbacksStand == Spec => FallbackStands
<1> DEFINE Stands(c) ==
             config[c].fallback = "value" /\ outcome'[c] = "error" => pc[c] \in {"idle", "reading", "done"}
<1>1. Inv /\ [Next]_vars => [\A c \in Call : Stands(c)]_vars
  <2> SUFFICES ASSUME Inv, Next, NEW c \in Call, config[c].fallback = "value", outcome'[c] = "error",
                      pc[c] \notin {"idle", "reading", "done"}
               PROVE  FALSE
    OBVIOUS
  <2>1. outcome[c] = "none"
    BY DEF Inv, CallInv
  <2>2. ASSUME NEW d \in Call, CallNext(d), d # c PROVE outcome'[c] = outcome[c]
    <3>1. Ending(d) \/ Sending(d) \/ Moving(d) \/ LookingUp(d) \/ Built(d)
      BY <2>2, StepKinds
    <3> QED
      BY <2>2, <3>1 DEF Ending, End, Sending, Send, Moving, LookingUp, LookUp, Built, Inv, TypeOK
  <2>3. CASE CallNext(c)
    <3>1. ~BadInput(c) /\ ~BodyFailed(c) /\ ~BodyTimedOut(c)
      BY DEF BadInput, BodyFailed, BodyTimedOut, Waiting
    <3>2. \A result : FallBackOr(c, result) => outcome'[c] = "fallback"
      BY DEF FallBackOr, End, Inv, TypeOK
    <3>3. ~Refused(c) /\ ~AttemptTimedOut(c)
      BY <2>1, <3>2 DEF Refused, AttemptTimedOut, AttemptFailed, Send
    <3>4. ~WorkFailed(c)
      BY <3>2 DEF WorkFailed
    <3>5. ~Answered(c) /\ ~Drop(c) /\ ~WorkTimedOut(c) /\ ~BodyRead(c)
      BY DEF Answered, Drop, WorkTimedOut, BodyRead, End, Inv, TypeOK
    <3>6. ~Fetch(c) /\ ~Wake(c) /\ ~Responded(c) /\ ~Query(c) /\ ~Dial(c) /\ ~Dialed(c) /\ ~Built(c) /\ ~Acquire(c)
      BY <2>1 DEF Fetch, Wake, Responded, Query, Dial, Dialed, Built, Acquire, Send, LookUp
    <3> QED
      BY <2>3, <3>1, <3>3, <3>4, <3>5, <3>6 DEF CallNext, Http, Work
  <2>4. CASE AllDone
    BY <2>1, <2>4 DEF AllDone, vars
  <2> QED
    BY <2>1, <2>2, <2>3, <2>4 DEF Next
<1> QED
  BY <1>1, Invariance, PTL DEF Spec, FallbackStands

-----------------------------------------------------------------------------
(* Progress.                                                                *)

LEMMA EndingIsFar ==
    ASSUME TypeOK, NEW c \in Call, pc[c] # "done", NEW result, End(c, result)
    PROVE  sent'[c] = sent[c] /\ Far(pc[c]) < Far(pc'[c])
<1>1. pc[c] \in Place /\ pc'[c] = "done" /\ sent' = sent
  BY DEF TypeOK, End, GoTo
<1>2. \A place \in Place \ {"done"} : Far(place) \in 0 .. 4
  BY DEF Place, Far
<1>3. Far("done") = 5
  BY DEF Far
<1> QED
  BY <1>1, <1>2, <1>3

LEMMA UsingIsFar ==
    ASSUME TypeOK, NEW c \in Call, pc[c] \in {"idle", "dialing", "building"}, Use(c), UNCHANGED sent
    PROVE  sent'[c] = sent[c] /\ Far(pc[c]) < Far(pc'[c])
<1>1. pc'[c] \in {"acquiring", "calling"}
  BY DEF TypeOK, Use, GoTo
<1> QED
  BY <1>1 DEF Far

LEMMA LookingUpIsFar ==
    ASSUME TypeOK, NEW c \in Call, pc[c] \in {"idle", "dialing"}, LookUp(c)
    PROVE  sent'[c] = sent[c] /\ Far(pc[c]) < Far(pc'[c])
<1>1. CASE cache[Entry(c)] # Nobody
  BY <1>1, UsingIsFar DEF LookUp
<1>2. CASE cache[Entry(c)] = Nobody
  <2>1. pc'[c] = "building" /\ sent' = sent
    BY <1>2 DEF LookUp, GoTo, TypeOK
  <2> QED
    BY <2>1 DEF Far
<1> QED
  BY <1>1, <1>2

\* A call that sends makes one of the attempts it has left.
LEMMA SendingCounts ==
    ASSUME Inv, NEW c \in Call, Sending(c)
    PROVE  sent'[c] = sent[c] + 1 /\ sent[c] <= config[c].retries /\ pc'[c] = "sending"
BY DEF Sending, Send, GoTo, Inv, TypeOK

LEMMA MovesOn ==
    ASSUME Inv, NEW c \in Call, CallNext(c)
    PROVE  /\ \/ sent'[c] = sent[c] /\ Far(pc[c]) < Far(pc'[c])
              \/ sent'[c] = sent[c] + 1 /\ sent[c] <= config[c].retries /\ pc'[c] = "sending"
           /\ pc[c] # "done"
<1> USE DEF Inv
<1>0. pc \in [Call -> Place]
  BY DEF TypeOK
<1>1. pc[c] # "done"
  BY DEF CallNext, Http, Work, BadInput, Fetch, Query, Dial, Refused, AttemptTimedOut, Wake, Responded,
         BodyRead, BodyFailed, BodyTimedOut, Dialed, Built, Acquire, Answered, WorkFailed, WorkTimedOut,
         Drop, Waiting
<1>2. CASE \E result : End(c, result)
  BY <1>1, <1>2, EndingIsFar
<1>3. CASE Sending(c)
  BY <1>1, <1>3, SendingCounts
<1>4. CASE Query(c)
  BY <1>1, <1>4, LookingUpIsFar DEF Query, Waiting
<1>5. CASE Dial(c)
  <2>1. pc[c] = "idle" /\ pc'[c] = "dialing" /\ sent' = sent
    BY <1>0, <1>5 DEF Dial, Waiting, GoTo
  <2> QED
    BY <1>1, <2>1 DEF Far
<1>6. CASE Dialed(c)
  <2>1. CASE LookUp(c)
    BY <1>1, <1>6, <2>1, LookingUpIsFar DEF Dialed, Waiting
  <2>2. CASE GoTo(c, "calling") /\ UNCHANGED sent
    <3>1. pc[c] = "dialing" /\ pc'[c] = "calling"
      BY <1>0, <1>6, <2>2 DEF Dialed, Waiting, GoTo
    <3> QED
      BY <1>1, <2>2, <3>1 DEF Far
  <2> QED
    BY <1>6, <2>1, <2>2 DEF Dialed
<1>7. CASE Built(c)
  BY <1>1, <1>7, UsingIsFar DEF Built
<1>8. CASE Acquire(c)
  <2>1. pc[c] = "acquiring" /\ pc'[c] = "calling" /\ sent' = sent
    BY <1>0, <1>8 DEF Acquire, GoTo
  <2> QED
    BY <1>1, <2>1 DEF Far
<1>9. CASE Responded(c)
  <2>1. pc[c] = "sending" /\ pc'[c] = "reading" /\ sent' = sent
    BY <1>0, <1>9 DEF Responded, Waiting, GoTo
  <2> QED
    BY <1>1, <2>1 DEF Far
<1>10. CASE Refused(c) \/ AttemptTimedOut(c)
  <2>1. Waiting(c, "http", "sending") /\ AttemptFailed(c)
    BY <1>10 DEF Refused, AttemptTimedOut
  <2>2. CASE LastAttempt(c)
    BY <1>2, <2>1, <2>2 DEF AttemptFailed, FallBackOr
  <2>3. CASE ~LastAttempt(c) /\ config[c].delay
    <3>1. pc[c] = "sending" /\ pc'[c] = "sleeping" /\ sent' = sent
      BY <1>0, <2>1, <2>3 DEF AttemptFailed, Waiting, GoTo
    <3> QED
      BY <1>1, <3>1 DEF Far
  <2>4. CASE ~LastAttempt(c) /\ ~config[c].delay
    <3>1. Ending(c) \/ Sending(c) \/ Moving(c)
      BY <2>1, AttemptKinds
    <3>2. Send(c)
      BY <2>1, <2>4 DEF AttemptFailed
    <3>3. sent[c] <= config[c].retries
      BY <2>1, <2>4, Configured DEF Config, LastAttempt, TypeOK, CallInv, Waiting
    <3>4. Sending(c)
      BY <1>1, <2>1, <3>2, <3>3 DEF Sending, Waiting
    <3> QED
      BY <1>3, <3>4
  <2> QED
    BY <2>2, <2>3, <2>4
<1>11. CASE Fetch(c) \/ Wake(c)
  <2>1. Sending(c)
    BY <1>11, Configured DEF Fetch, Wake, Waiting, Sending, CallInv, Config, TypeOK
  <2> QED
    BY <1>3, <2>1
<1>12. CASE BadInput(c) \/ BodyRead(c) \/ BodyFailed(c) \/ BodyTimedOut(c) \/ Answered(c)
            \/ WorkFailed(c) \/ WorkTimedOut(c) \/ Drop(c)
  BY <1>2, <1>12 DEF BadInput, BodyRead, BodyFailed, BodyTimedOut, Answered, WorkFailed, WorkTimedOut,
                     Drop, FallBackOr
<1> QED
  BY <1>4, <1>5, <1>6, <1>7, <1>8, <1>9, <1>10, <1>11, <1>12 DEF CallNext, Http, Work

\* Progress: no call comes to a place again but for its next attempt, of which it has a
\* bounded number, whatever the calls it shares sources with do; so none goes round in
\* a circle.
THEOREM CallsMoveOn == Spec => EveryStepIsProgress
<1>1. ASSUME Inv, NEW c \in Call, CallNext(c), NEW d \in Call \ {c}
      PROVE  pc'[d] = pc[d] /\ sent'[d] = sent[d] /\ pool'[d] = pool[d] /\ outcome'[d] = outcome[d]
  <2>1. Ending(c) \/ Sending(c) \/ Moving(c) \/ LookingUp(c) \/ Built(c)
    BY <1>1, StepKinds
  <2> USE <1>1 DEF Inv, TypeOK, GoTo
  <2>2. CASE Ending(c)
    BY <2>2 DEF Ending, End
  <2>3. CASE Sending(c)
    BY <2>3 DEF Sending, Send
  <2>4. CASE Moving(c)
    BY <2>4 DEF Moving
  <2>5. CASE LookingUp(c)
    BY <2>5 DEF LookingUp, LookUp, Use
  <2>6. CASE Built(c)
    BY <2>6 DEF Built, Use
  <2> QED
    BY <2>1, <2>2, <2>3, <2>4, <2>5, <2>6
<1> DEFINE Further(c) ==
             /\ \/ sent'[c] = sent[c] /\ Far(pc[c]) < Far(pc'[c])
                \/ sent'[c] = sent[c] + 1 /\ sent[c] <= config[c].retries /\ pc'[c] = "sending"
             /\ pc[c] # "done" /\ outcome[c] = "none"
             /\ \A d \in Call \ {c} :
                  pc'[d] = pc[d] /\ sent'[d] = sent[d] /\ pool'[d] = pool[d] /\ outcome'[d] = outcome[d]
<1>2. ASSUME Inv, NEW c \in Call, CallNext(c) PROVE Further(c)
  <2>1. outcome[c] = "none"
    BY <1>2, MovesOn DEF Inv, CallInv
  <2> QED
    BY <1>1, <1>2, <2>1, MovesOn
<1>3. Inv /\ [Next]_vars => [\E c \in Call : Further(c)]_vars
  <2> HIDE DEF Further
  <2> QED
    BY <1>2 DEF Next, AllDone
<1> QED
  BY <1>3, Invariance, PTL DEF Spec, EveryStepIsProgress
=============================================================================
