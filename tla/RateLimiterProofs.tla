--------------------------- MODULE RateLimiterProofs ---------------------------
(***************************************************************************)
(* The sharded table with its locks, clean-ups and stale clock readings is *)
(* a fixed-window limiter, for any number of clients, calls and shards,    *)
(* and stays within its bound as long as no two clean-ups overlap.         *)
(***************************************************************************)
EXTENDS RateLimiter, FiniteSetTheorems, TLAPS

\* A call's reading of the clock is at most MaxStall old.
TimeInv ==
    \A t \in Task : pc[t] # "idle" => now[t] <= clock /\ clock <= now[t] + MaxStall

\* The lock of a shard: a call that holds one has a client without an entry, and
\* no other call holds it.
LockInv ==
    /\ \A t \in Task : pc[t] \in Holding => key[t] \notin present
    /\ \A t, u \in Task :
         t # u /\ pc[t] \in Holding /\ pc[u] \in Holding => ShardOf[key[t]] # ShardOf[key[u]]

Inv == TypeOK /\ TimeInv /\ LockInv

LEMMA ShardsCounted ==
    ASSUME TypeOK, NEW n
    PROVE  Cardinality(InShard(n)) \in Nat
<1>1. InShard(n) \subseteq Client
  BY DEF InShard, TypeOK
<1> QED
  BY <1>1, LimiterAssumption, FS_Subset, FS_CardinalityType

\* The client of a call in progress.
LEMMA KeysAreClients ==
    ASSUME TypeOK, NEW t \in Task, pc[t] # "idle"
    PROVE  key[t] \in Client
BY DEF TypeOK

LEMMA InvInit == Init => Inv
<1> SUFFICES ASSUME Init PROVE Inv
  OBVIOUS
<1>1. TypeOK
  <2>1. /\ clock \in 0 .. MaxTime /\ calls \in 0 .. (CleanupEvery - 1)
        /\ tracked_clients \in 0 .. (Word - 1)
    BY LimiterAssumption DEF Init
  <2>2. /\ present \subseteq Client /\ started_at \in [Client -> 0 .. MaxTime]
        /\ used \in [Client -> 0 .. Limit] /\ \A c \in Client : c \in present <=> used[c] > 0
    BY LimiterAssumption DEF Init
  <2>3. /\ now \in [Task -> 0 .. MaxTime] /\ shard \in [Task -> 1 .. ShardCount]
        /\ before \in [Task -> Nat] /\ sum \in [Task -> Nat]
    BY LimiterAssumption DEF Init
  <2>4. /\ pc \in [Task -> {"idle", "count", "full", "entry"} \cup Cleaning \cup Holding]
        /\ key \in [Task -> Client \cup {NoClient}]
        /\ \A t \in Task : pc[t] = "idle" <=> key[t] = NoClient
    BY DEF Init
  <2> QED
    BY <2>1, <2>2, <2>3, <2>4 DEF Init, TypeOK
<1>2. TimeInv /\ LockInv
  BY DEF Init, TimeInv, LockInv, Holding
<1> QED
  BY <1>1, <1>2 DEF Inv

-----------------------------------------------------------------------------
(* What a step leaves alone.                                                *)

\* The places where a call neither is about to begin nor holds a lock.
Between == {"count", "full", "entry"} \cup Cleaning

\* A step inside a call that leaves the table alone and takes no lock.
Inside(t) ==
    /\ \E place \in Between : pc' = [pc EXCEPT ![t] = place]
    /\ pc[t] \in Between
    /\ UNCHANGED <<clock, table, key, now>>

LEMMA InsideKeepsLocks ==
    ASSUME Inv, NEW t \in Task, Inside(t)
    PROVE  TimeInv' /\ LockInv'
<1>1. PICK place \in Between : pc' = [pc EXCEPT ![t] = place]
  BY DEF Inside
<1>2. UNCHANGED <<clock, table, key, now>> /\ pc[t] # "idle"
  BY DEF Inside, Between, Cleaning
<1>3. TimeInv'
  BY <1>1, <1>2 DEF Inv, TypeOK, TimeInv
<1>4. \A u \in Task : pc'[u] \in Holding => pc[u] \in Holding
  BY <1>1 DEF Inv, TypeOK, Between, Cleaning, Holding
<1>5. LockInv'
  BY <1>2, <1>4 DEF Inv, LockInv, table
<1> QED
  BY <1>3, <1>5

\* What the steps inside a call do to the types of the counters.
LEMMA InsideKeepsTypes ==
    ASSUME TypeOK, NEW t \in Task, Inside(t),
           calls' \in 0 .. (CleanupEvery - 1), tracked_clients' \in 0 .. (Word - 1),
           shard' \in [Task -> 1 .. ShardCount], before' \in [Task -> Nat], sum' \in [Task -> Nat],
           alone' \in BOOLEAN, overlapped' \in BOOLEAN
    PROVE  TypeOK'
<1>1. PICK place \in Between : pc' = [pc EXCEPT ![t] = place]
  BY DEF Inside
<1>2. UNCHANGED <<clock, present, started_at, used, key, now>> /\ pc[t] # "idle"
  BY DEF Inside, table, Between, Cleaning
<1>3. pc' \in [Task -> {"idle", "count", "full", "entry"} \cup Cleaning \cup Holding]
  BY <1>1 DEF TypeOK, Between, Cleaning
<1>4. \A u \in Task : pc'[u] = "idle" <=> pc[u] = "idle"
  BY <1>1, <1>2 DEF TypeOK, Between, Cleaning
<1> QED
  BY <1>2, <1>3, <1>4 DEF TypeOK

-----------------------------------------------------------------------------
(* Steps that leave the table and the clock alone.                          *)

LEMMA CountKeepsInv ==
    ASSUME Inv, NEW t \in Task, CountCall(t) \/ CheckFull(t)
    PROVE  Inv'
<1>1. Inside(t)
  BY DEF CountCall, CheckFull, BeginCleanup, GoTo, Inside, Between, Cleaning
<1>2. calls' \in 0 .. (CleanupEvery - 1)
  <2>1. (calls + 1) % CleanupEvery \in 0 .. (CleanupEvery - 1)
    BY LimiterAssumption DEF Inv, TypeOK
  <2> QED
    BY <2>1 DEF CountCall, CheckFull, counters, Inv, TypeOK
<1>3. overlapped' \in BOOLEAN
  BY DEF CountCall, CheckFull, BeginCleanup, Inv, TypeOK
<1>4. UNCHANGED <<tracked_clients, lengths, alone>>
  BY DEF CountCall, CheckFull, counters
<1>5. TypeOK'
  BY <1>1, <1>2, <1>3, <1>4, InsideKeepsTypes DEF lengths, Inv, TypeOK
<1> QED
  BY <1>1, <1>5, InsideKeepsLocks DEF Inv

LEMMA LengthsKeepInv ==
    ASSUME Inv, NEW t \in Task, CountBefore(t) \/ CountAfter(t) \/ Subtract(t)
    PROVE  Inv'
<1>1. Inside(t)
  <2>1. pc' = [pc EXCEPT ![t] = pc[t]] \/ pc' # pc
    BY DEF Inv, TypeOK
  <2>2. CASE CountBefore(t)
    BY <2>1, <2>2 DEF CountBefore, GoTo, Inside, Between, Cleaning
  <2>3. CASE CountAfter(t) \/ Subtract(t)
    BY <2>3 DEF CountAfter, Subtract, GoTo, Inside, Between, Cleaning
  <2> QED
    BY <2>2, <2>3
<1>2. Cardinality(InShard(shard[t])) \in Nat
  BY ShardsCounted DEF Inv
<1>3. shard' \in [Task -> 1 .. ShardCount]
  BY LimiterAssumption DEF CountBefore, CountAfter, Subtract, NextShard, LastShard, Inv, TypeOK
<1>4. before' \in [Task -> Nat] /\ sum' \in [Task -> Nat]
  BY <1>2 DEF CountBefore, CountAfter, Subtract, Inv, TypeOK
<1>5. UNCHANGED calls /\ tracked_clients' \in 0 .. (Word - 1) /\ UNCHANGED <<alone, overlapped>>
  <2>1. CASE CountBefore(t) \/ CountAfter(t)
    BY <2>1 DEF CountBefore, CountAfter, counters, history, Inv, TypeOK
  <2>2. CASE Subtract(t)
    <3>1. Minus(before[t], sum[t]) \in Nat
      BY DEF Minus, Inv, TypeOK
    <3> QED
      BY <2>2, <3>1, LimiterAssumption DEF Subtract, Minus, history, Inv, TypeOK
  <2> QED
    BY <2>1, <2>2
<1>6. TypeOK'
  BY <1>1, <1>3, <1>4, <1>5, InsideKeepsTypes DEF Inv, TypeOK
<1> QED
  BY <1>1, <1>6, InsideKeepsLocks DEF Inv

LEMMA CallKeepsInv ==
    ASSUME Inv, NEW t \in Task, NEW c \in Client, Call(t, c)
    PROVE  Inv'
<1> USE DEF table, counters, lengths, history
<1>1. /\ pc[t] = "idle" /\ pc' = [pc EXCEPT ![t] = "count"]
      /\ key' = [key EXCEPT ![t] = c] /\ now' = [now EXCEPT ![t] = clock]
      /\ alone' \in BOOLEAN
      /\ UNCHANGED <<clock, counters, table, lengths, overlapped>>
  BY DEF Call, GoTo
<1>2. TypeOK'
  <2>1. /\ pc' \in [Task -> {"idle", "count", "full", "entry"} \cup Cleaning \cup Holding]
        /\ key' \in [Task -> Client \cup {NoClient}]
        /\ now' \in [Task -> 0 .. MaxTime]
    BY <1>1 DEF Inv, TypeOK
  <2>2. \A u \in Task : pc'[u] = "idle" <=> key'[u] = NoClient
    BY <1>1, LimiterAssumption DEF Inv, TypeOK
  <2> QED
    BY <1>1, <2>1, <2>2 DEF Inv, TypeOK
<1>3. TimeInv'
  BY <1>1, LimiterAssumption DEF Inv, TypeOK, TimeInv
<1>4. LockInv'
  BY <1>1 DEF Inv, TypeOK, LockInv, Holding
<1> QED
  BY <1>2, <1>3, <1>4 DEF Inv

\* A vacant entry locks its shard.
LEMMA ReserveKeepsInv ==
    ASSUME Inv, NEW t \in Task, Reserve(t)
    PROVE  Inv'
<1> USE DEF table, counters, lengths, history
<1>1. /\ pc[t] = "entry" /\ key[t] \notin present /\ ~Locked(ShardOf[key[t]])
      /\ \E place \in Holding : pc' = [pc EXCEPT ![t] = place]
      /\ tracked_clients' = (tracked_clients + 1) % Word
      /\ UNCHANGED <<clock, calls, table, key, now, lengths, history>>
  BY DEF Reserve, GoTo, Holding
<1>2. TypeOK'
  <2>1. pc' \in [Task -> {"idle", "count", "full", "entry"} \cup Cleaning \cup Holding]
    BY <1>1 DEF Inv, TypeOK
  <2>2. \A u \in Task : pc'[u] = "idle" <=> pc[u] = "idle"
    BY <1>1 DEF Inv, TypeOK, Holding
  <2>3. tracked_clients' \in 0 .. (Word - 1)
    BY <1>1, LimiterAssumption DEF Inv, TypeOK
  <2> QED
    BY <1>1, <2>1, <2>2, <2>3 DEF Inv, TypeOK
<1>3. TimeInv'
  BY <1>1 DEF Inv, TypeOK, TimeInv
<1>4. \A u \in Task \ {t} : pc'[u] = pc[u]
  BY <1>1 DEF Inv, TypeOK
<1>5. LockInv'
  BY <1>1, <1>4 DEF Inv, LockInv, Locked
<1> QED
  BY <1>2, <1>3, <1>5 DEF Inv

\* The end of a call.
Returning(t) ==
    /\ pc[t] # "idle"
    /\ pc' = [pc EXCEPT ![t] = "idle"]
    /\ key' = [key EXCEPT ![t] = NoClient]
    /\ now' = [now EXCEPT ![t] = 0]
    /\ UNCHANGED <<clock, calls, shard, before, sum, alone, overlapped>>

LEMMA ReturningKeepsInv ==
    ASSUME Inv, NEW t \in Task, Returning(t), tracked_clients' \in 0 .. (Word - 1),
           present' \subseteq Client, started_at' \in [Client -> 0 .. MaxTime],
           used' \in [Client -> 0 .. Limit], \A c \in Client : c \in present' <=> used'[c] > 0,
           \A u \in Task \ {t} : pc[u] \in Holding => key[u] \notin present'
    PROVE  Inv'
<1> USE DEF Returning
<1>1. TypeOK'
  <2>1. /\ pc' \in [Task -> {"idle", "count", "full", "entry"} \cup Cleaning \cup Holding]
        /\ key' \in [Task -> Client \cup {NoClient}]
        /\ now' \in [Task -> 0 .. MaxTime]
    BY LimiterAssumption DEF Inv, TypeOK
  <2>2. \A u \in Task : pc'[u] = "idle" <=> key'[u] = NoClient
    BY DEF Inv, TypeOK
  <2> QED
    BY <2>1, <2>2 DEF Inv, TypeOK
<1>2. TimeInv'
  BY DEF Inv, TypeOK, TimeInv
<1>3. \A u \in Task : /\ pc'[u] \in Holding => u # t
                      /\ u # t => pc'[u] = pc[u] /\ key'[u] = key[u]
  BY DEF Inv, TypeOK, Holding
<1>4. LockInv'
  BY <1>3 DEF Inv, LockInv
<1> QED
  BY <1>1, <1>2, <1>4 DEF Inv

LEMMA UndoKeepsInv ==
    ASSUME Inv, NEW t \in Task, Undo(t)
    PROVE  Inv'
<1>1. Returning(t) /\ UNCHANGED <<present, started_at, used>>
  BY DEF Undo, Returning, ReturnFrom, GoTo, table, lengths, history
<1>2. tracked_clients' \in 0 .. (Word - 1)
  BY LimiterAssumption DEF Undo, Inv, TypeOK
<1>3. \A u \in Task \ {t} : pc[u] \in Holding => key[u] \notin present'
  BY <1>1 DEF Inv, LockInv
<1> QED
  BY <1>1, <1>2, <1>3, ReturningKeepsInv DEF Inv, TypeOK

-----------------------------------------------------------------------------
(* Steps of the window: each keeps the invariant and is one of FixedWindow.  *)

LEMMA TickStep ==
    ASSUME Inv, Tick
    PROVE  Inv' /\ Promise!Tick
<1> USE DEF table, counters, lengths, history
<1>1. clock' \in 0 .. MaxTime /\ clock' = clock + 1
  BY LimiterAssumption DEF Tick, Inv, TypeOK
<1>2. TypeOK'
  BY <1>1 DEF Tick, Inv, TypeOK
<1>3. TimeInv'
  BY LimiterAssumption DEF Tick, Inv, TypeOK, TimeInv
<1>4. LockInv'
  BY DEF Tick, Inv, LockInv
<1> QED
  BY <1>2, <1>3, <1>4 DEF Inv, Tick, Promise!Tick

LEMMA RetainStep ==
    ASSUME Inv, NEW t \in Task, Retain(t)
    PROVE  Inv' /\ Promise!Forget
<1> USE DEF counters, history
<1> DEFINE expired == {c \in InShard(shard[t]) : Minus(now[t], started_at[c]) >= cleanup_after}
<1>1. /\ pc[t] = "retain"
      /\ present' = present \ expired
      /\ started_at' = [c \in Client |-> IF c \in expired THEN 0 ELSE started_at[c]]
      /\ used' = [c \in Client |-> IF c \in expired THEN 0 ELSE used[c]]
      /\ shard' = [shard EXCEPT ![t] = IF LastShard(t) THEN 1 ELSE shard[t] + 1]
      /\ pc' = [pc EXCEPT ![t] = IF LastShard(t) THEN "after" ELSE "retain"]
      /\ UNCHANGED <<clock, counters, key, now, before, sum, history>>
  BY DEF Retain, NextShard, GoTo
<1>2. expired \subseteq present /\ expired \subseteq Client
  BY DEF InShard, Inv, TypeOK
<1>3. \A c \in expired : Promise!Over(c, clock)
  <2> SUFFICES ASSUME NEW c \in expired PROVE clock >= started_at[c] + Window
    BY DEF Promise!Over
  <2>1. Minus(now[t], started_at[c]) >= cleanup_after
    OBVIOUS
  <2>2. now[t] <= clock
    BY <1>1 DEF Inv, TimeInv
  <2>3. now[t] \in Nat /\ clock \in Nat /\ started_at[c] \in Nat
    BY <1>2 DEF Inv, TypeOK
  <2> HIDE DEF expired
  <2> QED
    BY <2>1, <2>2, <2>3, LimiterAssumption DEF Minus, cleanup_after
<1> HIDE DEF expired
<1>4. Promise!Forget
  BY <1>1, <1>2, <1>3 DEF Promise!Forget
<1>5. TypeOK'
  <2>1. /\ present' \subseteq Client
        /\ started_at' \in [Client -> 0 .. MaxTime]
        /\ used' \in [Client -> 0 .. Limit]
        /\ \A c \in Client : c \in present' <=> used'[c] > 0
    BY <1>1, <1>2, LimiterAssumption DEF Inv, TypeOK
  <2>2. shard' \in [Task -> 1 .. ShardCount]
    BY <1>1, LimiterAssumption DEF LastShard, Inv, TypeOK
  <2>3. /\ pc' \in [Task -> {"idle", "count", "full", "entry"} \cup Cleaning \cup Holding]
        /\ \A u \in Task : pc'[u] = "idle" <=> pc[u] = "idle"
    BY <1>1 DEF Cleaning, Inv, TypeOK
  <2> QED
    BY <1>1, <2>1, <2>2, <2>3 DEF Inv, TypeOK
<1>6. TimeInv'
  BY <1>1 DEF Inv, TypeOK, TimeInv
<1>7. \A u \in Task : pc'[u] \in Holding => pc[u] \in Holding
  BY <1>1 DEF Holding, Inv, TypeOK
<1>8. LockInv'
  BY <1>1, <1>7 DEF Inv, LockInv
<1> QED
  BY <1>4, <1>5, <1>6, <1>8 DEF Inv

\* A reading that a call in progress can have.
LEMMA ReadingsAreFresh ==
    ASSUME Inv, NEW t \in Task, pc[t] # "idle"
    PROVE  /\ now[t] \in (clock - MaxStall) .. clock
           /\ now[t] <= clock /\ clock <= now[t] + MaxStall
BY LimiterAssumption DEF Inv, TimeInv, TypeOK

LEMMA HitStep ==
    ASSUME Inv, NEW t \in Task, Hit(t)
    PROVE  Inv' /\ (Promise!Admit(key[t], now[t]) \/ UNCHANGED Promise!window)
<1> DEFINE c == key[t]
           expired == Minus(now[t], started_at[c]) >= Window
           spent == IF expired THEN 0 ELSE used[c]
<1>1. /\ pc[t] = "entry" /\ c \in present
      /\ started_at' = [started_at EXCEPT ![c] = IF expired THEN now[t] ELSE started_at[c]]
      /\ used' = [used EXCEPT ![c] = IF spent < Limit THEN spent + 1 ELSE spent]
      /\ Returning(t)
      /\ UNCHANGED <<tracked_clients, present>>
  BY DEF Hit, Returning, ReturnFrom, GoTo, counters, lengths, history
<1>2. /\ c \in Client /\ now[t] \in 0 .. MaxTime /\ started_at[c] \in 0 .. MaxTime
      /\ used[c] \in 1 .. Limit
  BY <1>1 DEF Inv, TypeOK
<1>3. expired <=> Promise!Over(c, now[t])
  BY <1>2, LimiterAssumption DEF Promise!Over, Minus
<1> HIDE DEF c, expired
<1>4. spent \in 0 .. Limit
  BY <1>2, LimiterAssumption
<1> HIDE DEF spent
<1>5. /\ started_at' \in [Client -> 0 .. MaxTime]
      /\ used' \in [Client -> 0 .. Limit]
      /\ \A d \in Client : d \in present' <=> used'[d] > 0
  <2>1. started_at' \in [Client -> 0 .. MaxTime] /\ used' \in [Client -> 0 .. Limit]
    BY <1>1, <1>2, <1>4, LimiterAssumption DEF Inv, TypeOK
  <2>2. used'[c] > 0
    BY <1>1, <1>2, <1>4, LimiterAssumption DEF Inv, TypeOK
  <2>3. \A d \in Client \ {c} : used'[d] = used[d]
    BY <1>1 DEF Inv, TypeOK
  <2> QED
    BY <1>1, <2>1, <2>2, <2>3 DEF Inv, TypeOK
<1>6. \A u \in Task \ {t} : pc[u] \in Holding => key[u] \notin present'
  BY <1>1 DEF Inv, LockInv
<1>7. Inv'
  BY <1>1, <1>5, <1>6, ReturningKeepsInv DEF Inv, TypeOK
<1>8. now[t] <= clock /\ clock <= now[t] + MaxStall /\ UNCHANGED clock
  BY <1>1, ReadingsAreFresh DEF Returning
<1>9. CASE expired
  <2>1. spent = 0 /\ Promise!Over(c, now[t])
    BY <1>3, <1>9 DEF spent
  <2>2. used' = [used EXCEPT ![c] = 1]
    <3>1. (IF spent < Limit THEN spent + 1 ELSE spent) = 1
      BY <2>1, LimiterAssumption
    <3> QED
      BY <1>1, <3>1, Zenon
  <2>3. started_at' = [started_at EXCEPT ![c] = now[t]]
    BY <1>1, <1>9
  <2>4. Promise!Admit(c, now[t])
    BY <1>8, <2>1, <2>2, <2>3 DEF Promise!Admit
  <2> QED
    BY <1>7, <2>4 DEF c
<1>10. CASE ~expired /\ used[c] < Limit
  <2>1. spent = used[c] /\ ~Promise!Over(c, now[t])
    BY <1>3, <1>10 DEF spent
  <2>2. used' = [used EXCEPT ![c] = used[c] + 1] /\ UNCHANGED started_at
    BY <1>1, <1>2, <1>10, <2>1 DEF Inv, TypeOK
  <2>3. Promise!Admit(c, now[t])
    BY <1>8, <1>10, <2>1, <2>2 DEF Promise!Admit
  <2> QED
    BY <1>7, <2>3 DEF c
<1>11. CASE ~expired /\ ~(used[c] < Limit)
  <2>1. spent = used[c]
    BY <1>11 DEF spent
  <2>2. UNCHANGED <<used, started_at>>
    BY <1>1, <1>2, <1>11, <2>1 DEF Inv, TypeOK
  <2> QED
    BY <1>7, <1>8, <2>2 DEF Promise!window
<1> QED
  BY <1>9, <1>10, <1>11

LEMMA InsertStep ==
    ASSUME Inv, NEW t \in Task, Insert(t)
    PROVE  Inv' /\ Promise!Admit(key[t], now[t])
<1>1. /\ pc[t] = "insert"
      /\ present' = present \cup {key[t]}
      /\ started_at' = [started_at EXCEPT ![key[t]] = now[t]]
      /\ used' = [used EXCEPT ![key[t]] = 1]
      /\ Returning(t)
      /\ UNCHANGED tracked_clients
  BY DEF Insert, Returning, ReturnFrom, GoTo, counters, lengths, history
<1>2. key[t] \in Client /\ now[t] \in 0 .. MaxTime
  BY <1>1, KeysAreClients DEF Inv, TypeOK
<1>3. key[t] \notin present /\ used[key[t]] = 0
  BY <1>1, <1>2 DEF Inv, TypeOK, LockInv, Holding
<1>4. /\ present' \subseteq Client
      /\ started_at' \in [Client -> 0 .. MaxTime]
      /\ used' \in [Client -> 0 .. Limit]
      /\ \A c \in Client : c \in present' <=> used'[c] > 0
  BY <1>1, <1>2, LimiterAssumption DEF Inv, TypeOK
<1>5. \A u \in Task \ {t} : pc[u] \in Holding => key[u] \notin present'
  BY <1>1 DEF Inv, LockInv, Holding
<1>6. Inv'
  BY <1>1, <1>4, <1>5, ReturningKeepsInv DEF Inv, TypeOK
<1>7. now[t] <= clock /\ clock <= now[t] + MaxStall /\ UNCHANGED clock
  BY <1>1, ReadingsAreFresh DEF Returning
<1>8. Promise!Admit(key[t], now[t])
  BY <1>1, <1>3, <1>7 DEF Promise!Admit, Promise!Over
<1> QED
  BY <1>6, <1>8

-----------------------------------------------------------------------------
(* Theorems.                                                                *)

LEMMA Step ==
    ASSUME Inv, [Next]_vars
    PROVE  Inv' /\ [Promise!WindowNext]_(Promise!window)
<1>1. CASE UNCHANGED vars
  <2> USE DEF vars, table, counters, lengths, history
  <2>1. Inv'
    BY <1>1 DEF Inv, TypeOK, TimeInv, LockInv
  <2> QED
    BY <1>1, <2>1 DEF Promise!window
<1>2. CASE Tick
  BY <1>2, TickStep DEF Promise!WindowNext
<1>3. ASSUME NEW t \in Task, TaskNext(t)
      PROVE  Inv' /\ [Promise!WindowNext]_(Promise!window)
  <2>1. CASE Retain(t)
    BY <2>1, RetainStep DEF Promise!WindowNext
  <2>2. CASE Hit(t) \/ Insert(t)
    <3>1. key[t] \in Client /\ now[t] \in (clock - MaxStall) .. clock
      BY <2>2, KeysAreClients, ReadingsAreFresh DEF Hit, Insert, Inv
    <3>2. Inv' /\ (Promise!Admit(key[t], now[t]) \/ UNCHANGED Promise!window)
      BY <2>2, HitStep, InsertStep
    <3> QED
      BY <3>1, <3>2 DEF Promise!WindowNext
  <2>3. CASE ~Retain(t) /\ ~Hit(t) /\ ~Insert(t)
    <3>1. Inv'
      BY <1>3, <2>3, CallKeepsInv, CountKeepsInv, LengthsKeepInv, ReserveKeepsInv, UndoKeepsInv
         DEF TaskNext
    <3>2. UNCHANGED Promise!window
      BY <1>3, <2>3 DEF TaskNext, Call, CountCall, CheckFull, CountBefore, CountAfter, Subtract, Reserve,
                        Undo, table, Promise!window
    <3> QED
      BY <3>1, <3>2
  <2> QED
    BY <2>1, <2>2, <2>3
<1> QED
  BY <1>1, <1>2, <1>3 DEF Next

LEMMA Invariance == Spec => []Inv
<1>1. Inv /\ [Next]_vars => Inv'
  BY Step
<1> QED
  BY <1>1, InvInit, PTL DEF Spec

\* Types: the table, the counters and the calls keep theirs, and a client has an
\* entry exactly when it has a call in its window.
THEOREM TypeCorrect == Spec => []TypeOK
BY Invariance, PTL DEF Inv

\* Refinement: with any number of shards, calls and clean-ups in progress, each client is
\* admitted as by one fixed window, as old as the call's reading of the clock.
THEOREM Refinement == Spec => ImplementsFixedWindow
<1>1. Init => Promise!WindowInit
  BY DEF Init, Promise!WindowInit
<1>2. Inv /\ [Next]_vars => [Promise!WindowNext]_(Promise!window)
  BY Step
<1> QED
  BY <1>1, <1>2, Invariance, PTL DEF Spec, ImplementsFixedWindow, Promise!WindowSpec

-----------------------------------------------------------------------------
(* The bound on the table.                                                  *)

\* The counter has a value for every call that can be counting a client in.
WordIsWide == MaxTracked + Cardinality(Task) + 1 < Word

Held == {t \in Task : pc[t] \in Holding}
Refusing == {t \in Task : pc[t] = "undo"}
Below(n) == {c \in present : ShardOf[c] < n}

\* What the counter counts, reservations left out.
Counted == tracked_clients - Cardinality(Held)

\* A clean-up's lengths are no more than what the counter counts: its first is
\* of entries that were counted, and what it misses in its second has been counted in since.
Covered(t) ==
    /\ pc[t] = "before" => sum[t] <= Cardinality(Below(shard[t]))
    /\ pc[t] = "retain" => before[t] <= Counted
    /\ pc[t] = "after" => before[t] + Cardinality(Below(shard[t])) - sum[t] <= Counted
    /\ pc[t] = "subtract" => before[t] + Cardinality(present) - sum[t] <= Counted

Covering ==
    /\ Cardinality(present) <= Counted
    /\ tracked_clients <= MaxTracked + Cardinality(Refusing)
    /\ \A t, u \in Task : pc[t] \in Cleaning /\ pc[u] \in Cleaning => t = u
    /\ \A t \in Task : Covered(t)

\* Lengths begin at the first shard with nothing summed.
Sampled ==
    \A t \in Task :
      /\ pc[t] \notin {"before", "after", "subtract"} => sum[t] = 0
      /\ pc[t] \notin {"before", "retain", "after"} => shard[t] = 1

BoundInv == Sampled /\ (~overlapped => Covering)

LEMMA SetsCounted ==
    ASSUME TypeOK
    PROVE  /\ IsFiniteSet(present) /\ Cardinality(present) \in Nat
           /\ IsFiniteSet(Held) /\ Cardinality(Held) \in Nat
           /\ IsFiniteSet(Refusing) /\ Cardinality(Refusing) \in Nat
           /\ Cardinality(Refusing) <= Cardinality(Task) /\ Cardinality(Task) \in Nat
           /\ \A n \in Int : IsFiniteSet(Below(n)) /\ Cardinality(Below(n)) \in Nat
<1>1. IsFiniteSet(present) /\ IsFiniteSet(Held)
  BY LimiterAssumption, FS_Subset DEF TypeOK, Held
<1>2. IsFiniteSet(Refusing) /\ Cardinality(Refusing) <= Cardinality(Task)
  BY LimiterAssumption, FS_Subset DEF Refusing
<1>3. \A n \in Int : IsFiniteSet(Below(n))
  BY <1>1, FS_Subset DEF Below
<1> QED
  BY <1>1, <1>2, <1>3, LimiterAssumption, FS_CardinalityType

LEMMA NothingBelow ==
    ASSUME TypeOK
    PROVE  Cardinality(Below(1)) = 0
<1>1. Below(1) = {}
  BY LimiterAssumption DEF Below, TypeOK
<1> QED
  BY <1>1, FS_EmptySet

LEMMA AllBelow ==
    ASSUME TypeOK
    PROVE  Below(ShardCount + 1) = present
BY LimiterAssumption DEF Below, TypeOK

\* One shard more.
LEMMA ShardAbove ==
    ASSUME TypeOK, NEW n \in 1 .. ShardCount
    PROVE  Cardinality(Below(n + 1)) = Cardinality(Below(n)) + Cardinality(InShard(n))
<1>1. Below(n + 1) = Below(n) \cup InShard(n) /\ Below(n) \cap InShard(n) = {}
  BY LimiterAssumption DEF Below, InShard, TypeOK
<1>2. IsFiniteSet(Below(n)) /\ IsFiniteSet(InShard(n))
  BY LimiterAssumption, FS_Subset DEF Below, InShard, TypeOK
<1>3. Cardinality(Below(n) \cup InShard(n))
        = Cardinality(Below(n)) + Cardinality(InShard(n)) - Cardinality(Below(n) \cap InShard(n))
  BY <1>2, FS_Union
<1>4. Cardinality(Below(n)) \in Nat /\ Cardinality(InShard(n)) \in Nat
  BY <1>2, FS_CardinalityType
<1>5. Cardinality(Below(n) \cap InShard(n)) = 0
  BY <1>1, FS_EmptySet
<1>6. Cardinality(Below(n + 1)) = Cardinality(Below(n) \cup InShard(n))
  BY <1>1, Zenon
<1> HIDE DEF Below
<1> QED
  BY <1>3, <1>4, <1>5, <1>6

LEMMA BoundInit == Init => BoundInv
<1> SUFFICES ASSUME Init PROVE BoundInv
  OBVIOUS
<1>1. Sampled
  BY DEF Init, Sampled
<1>2. present = {} /\ Held = {} /\ Refusing = {}
  BY DEF Init, Held, Refusing, Holding
<1>3. Cardinality(present) = 0 /\ Cardinality(Held) = 0 /\ Cardinality(Refusing) = 0
  BY <1>2, FS_EmptySet
<1>4. \A t \in Task : pc[t] = "idle"
  BY DEF Init
<1> QED
  BY <1>1, <1>3, <1>4, LimiterAssumption DEF Init, BoundInv, Covering, Counted, Covered, Cleaning

\* Steps that touch neither the table nor its counter, one of which begins a clean-up.
LEMMA QuietStep ==
    ASSUME Inv, BoundInv, NEW t \in Task,
           UNCHANGED <<tracked_clients, present, lengths>>,
           NEW place \in {"idle", "count", "full", "entry", "before"},
           pc' = [pc EXCEPT ![t] = place], pc[t] \in {"idle", "count", "full", "entry"},
           IF place = "before"
             THEN overlapped' = (overlapped \/ \E u \in Task : pc[u] \in Cleaning)
             ELSE UNCHANGED overlapped
    PROVE  BoundInv'
<1>1. \A u \in Task \ {t} : pc'[u] = pc[u]
  BY DEF Inv, TypeOK
<1>2. pc'[t] = place
  BY DEF Inv, TypeOK
<1>3. UNCHANGED <<shard, before, sum>>
  BY DEF lengths
<1>4. Held' = Held /\ Refusing' = Refusing
  BY <1>1, <1>2 DEF Held, Refusing, Holding
<1>5. Sampled'
  BY <1>1, <1>2, <1>3 DEF BoundInv, Sampled
<1>6. Counted' = Counted /\ \A n : Below(n)' = Below(n)
  BY <1>4 DEF Counted, Below
<1>7. ASSUME ~overlapped' PROVE Covering'
  <2>1. Covering
    BY <1>7 DEF BoundInv, Inv, TypeOK
  <2>2. \A u, v \in Task : pc'[u] \in Cleaning /\ pc'[v] \in Cleaning => u = v
    <3>1. CASE place = "before"
      BY <1>1, <1>7, <3>1
    <3>2. CASE place # "before"
      BY <1>1, <1>2, <2>1, <3>2 DEF Covering, Cleaning
    <3> QED
      BY <3>1, <3>2
  <2>3. Covered(t)'
    <3>1. place = "before" => sum[t] = 0 /\ shard[t] = 1
      BY DEF BoundInv, Sampled
    <3> QED
      BY <1>2, <1>3, <1>6, <3>1, NothingBelow DEF Covered, Inv
  <2>4. \A u \in Task \ {t} : Covered(u)'
    BY <1>1, <1>3, <1>6, <2>1 DEF Covering, Covered
  <2> QED
    BY <1>4, <1>6, <2>1, <2>2, <2>3, <2>4 DEF Covering
<1> QED
  BY <1>5, <1>7 DEF BoundInv

-----------------------------------------------------------------------------
(* The clean-up.                                                            *)

\* Steps of a clean-up: the only one there is, it answers for its lengths alone.
LEMMA CleanStep ==
    ASSUME Inv, Inv', BoundInv, NEW t \in Task, pc[t] \in Cleaning,
           NEW place \in Cleaning \cup {"entry"}, pc' = [pc EXCEPT ![t] = place],
           \A u \in Task \ {t} : sum'[u] = sum[u] /\ shard'[u] = shard[u],
           place \notin {"before", "after", "subtract"} => sum'[t] = 0,
           place \notin {"before", "retain", "after"} => shard'[t] = 1,
           UNCHANGED overlapped,
           Covering => /\ Covered(t)' /\ Cardinality(present') <= Counted'
                       /\ tracked_clients' <= tracked_clients
    PROVE  BoundInv'
<1>1. \A u \in Task \ {t} : pc'[u] = pc[u]
  BY DEF Inv, TypeOK
<1>2. pc'[t] = place
  BY DEF Inv, TypeOK
<1>3. Sampled'
  BY <1>1, <1>2 DEF BoundInv, Sampled
<1>4. Refusing' = Refusing
  BY <1>1, <1>2 DEF Refusing, Cleaning
<1>5. ASSUME ~overlapped PROVE Covering'
  <2>1. Covering
    BY <1>5 DEF BoundInv
  <2>2. \A u \in Task \ {t} : pc'[u] \notin Cleaning
    BY <1>1, <2>1 DEF Covering
  <2>3. \A u \in Task \ {t} : Covered(u)'
    BY <2>2 DEF Covered, Cleaning
  <2>4. tracked_clients' <= MaxTracked + Cardinality(Refusing)
    BY <2>1, SetsCounted, LimiterAssumption DEF Covering, Inv, TypeOK
  <2> QED
    BY <1>4, <2>1, <2>2, <2>3, <2>4 DEF Covering
<1> QED
  BY <1>3, <1>5 DEF BoundInv

LEMMA HoldersOutside ==
    ASSUME Inv, NEW t \in Task, pc[t] \in Cleaning,
           NEW place \in Cleaning \cup {"entry"}, pc' = [pc EXCEPT ![t] = place]
    PROVE  Held' = Held
BY DEF Held, Holding, Cleaning, Inv, TypeOK

LEMMA BeforeStep ==
    ASSUME Inv, Inv', BoundInv, NEW t \in Task, CountBefore(t)
    PROVE  BoundInv'
<1>1. /\ pc[t] = "before" /\ shard[t] \in 1 .. ShardCount
      /\ shard' = [shard EXCEPT ![t] = IF LastShard(t) THEN 1 ELSE shard[t] + 1]
      /\ UNCHANGED <<tracked_clients, present, overlapped>>
  BY DEF CountBefore, NextShard, counters, table, history, Inv, TypeOK
<1>2. Cardinality(Below(shard[t] + 1)) = Cardinality(Below(shard[t])) + Cardinality(InShard(shard[t]))
  BY <1>1, ShardAbove DEF Inv
<1>3. Cardinality(InShard(shard[t])) \in Nat /\ Cardinality(Below(shard[t])) \in Nat /\ sum[t] \in Nat
  BY <1>1, ShardsCounted, SetsCounted DEF Inv, TypeOK
<1>4. CASE LastShard(t)
  <2>1. /\ before' = [before EXCEPT ![t] = sum[t] + Cardinality(InShard(shard[t]))]
        /\ sum' = [sum EXCEPT ![t] = 0]
        /\ pc' = [pc EXCEPT ![t] = "retain"]
    BY <1>4 DEF CountBefore, GoTo
  <2>2. Held' = Held
    BY <1>1, <2>1, HoldersOutside DEF Cleaning
  <2>3. Counted' = Counted
    BY <1>1, <2>2 DEF Counted
  <2>4. Below(shard[t] + 1) = present
    BY <1>4, AllBelow DEF LastShard, Inv
  <2>5. ASSUME Covering PROVE Covered(t)' /\ Cardinality(present') <= Counted'
    <3>1. sum[t] <= Cardinality(Below(shard[t])) /\ Cardinality(present) <= Counted
      BY <1>1, <2>5 DEF Covering, Covered
    <3>2. before'[t] <= Cardinality(present)
      BY <1>2, <1>3, <2>1, <2>4, <3>1 DEF Inv, TypeOK
    <3>3. before'[t] \in Nat /\ Cardinality(present) \in Nat /\ Counted \in Int
      BY SetsCounted DEF Inv, TypeOK, Counted
    <3>4. before'[t] <= Counted'
      BY <2>3, <3>1, <3>2, <3>3
    <3>5. pc'[t] = "retain"
      BY <2>1 DEF Inv, TypeOK
    <3> QED
      BY <1>1, <2>3, <3>1, <3>4, <3>5 DEF Covered
  <2>6. sum'[t] = 0 /\ \A u \in Task \ {t} : sum'[u] = sum[u] /\ shard'[u] = shard[u]
    BY <1>1, <2>1 DEF Inv, TypeOK
  <2>7. pc[t] \in Cleaning /\ "retain" \in Cleaning \cup {"entry"}
    BY <1>1 DEF Cleaning
  <2>8. tracked_clients' <= tracked_clients /\ shard'[t] = 1
    BY <1>1, <1>4 DEF Inv, TypeOK
  <2> QED
    BY <1>1, <2>1, <2>5, <2>6, <2>7, <2>8, CleanStep
<1>5. CASE ~LastShard(t)
  <2>1. /\ sum' = [sum EXCEPT ![t] = sum[t] + Cardinality(InShard(shard[t]))]
        /\ UNCHANGED <<before, pc>>
    BY <1>5 DEF CountBefore
  <2>2. pc' = [pc EXCEPT ![t] = "before"]
    BY <1>1, <2>1 DEF Inv, TypeOK
  <2>3. Counted' = Counted /\ \A n : Below(n)' = Below(n)
    BY <1>1, <2>1 DEF Counted, Held, Below
  <2>4. shard'[t] = shard[t] + 1 /\ sum'[t] = sum[t] + Cardinality(InShard(shard[t]))
    BY <1>1, <1>5, <2>1 DEF Inv, TypeOK
  <2>5. ASSUME Covering PROVE Covered(t)' /\ Cardinality(present') <= Counted'
    <3>1. sum[t] <= Cardinality(Below(shard[t])) /\ Cardinality(present) <= Counted
      BY <1>1, <2>5 DEF Covering, Covered
    <3>2. sum'[t] <= Cardinality(Below(shard'[t]))
      BY <1>2, <1>3, <2>4, <3>1
    <3>3. Below(shard[t])' = Below(shard'[t])
      BY <1>1 DEF Below
    <3> QED
      BY <1>1, <2>1, <2>3, <3>1, <3>2, <3>3 DEF Covered
  <2>6. \A u \in Task \ {t} : sum'[u] = sum[u] /\ shard'[u] = shard[u]
    BY <1>1, <2>1 DEF Inv, TypeOK
  <2>7. pc[t] \in Cleaning /\ "before" \in Cleaning \cup {"entry"}
    BY <1>1 DEF Cleaning
  <2>8. tracked_clients' <= tracked_clients
    BY <1>1 DEF Inv, TypeOK
  <2> QED
    BY <1>1, <2>2, <2>5, <2>6, <2>7, <2>8, CleanStep
<1> QED
  BY <1>4, <1>5

LEMMA RetainBound ==
    ASSUME Inv, Inv', BoundInv, NEW t \in Task, Retain(t)
    PROVE  BoundInv'
<1>1. /\ pc[t] = "retain"
      /\ present' \subseteq present
      /\ shard' = [shard EXCEPT ![t] = IF LastShard(t) THEN 1 ELSE shard[t] + 1]
      /\ UNCHANGED <<tracked_clients, before, sum, overlapped>>
  BY DEF Retain, NextShard, counters, history
<1> DEFINE place == IF LastShard(t) THEN "after" ELSE "retain"
<1>2. pc' = [pc EXCEPT ![t] = place] /\ pc'[t] = place
  BY DEF Retain, GoTo, Inv, TypeOK
<1>3. pc[t] \in Cleaning /\ place \in Cleaning \cup {"entry"}
  BY <1>1 DEF Cleaning
<1>4. Counted' = Counted
  <2>1. Held' = Held
    BY <1>2, <1>3, HoldersOutside
  <2> QED
    BY <1>1, <2>1 DEF Counted
<1>5. sum'[t] = 0 /\ (place = "after" => shard'[t] = 1)
  BY <1>1 DEF BoundInv, Sampled, Inv, TypeOK
<1>6. ASSUME Covering PROVE Covered(t)' /\ Cardinality(present') <= Counted'
  <2>1. before[t] <= Counted /\ Cardinality(present) <= Counted
    BY <1>1, <1>6 DEF Covering, Covered
  <2>2. Cardinality(present') <= Cardinality(present) /\ Cardinality(present') \in Nat
    BY <1>1, SetsCounted, FS_Subset, FS_CardinalityType DEF Inv
  <2>3. Counted \in Int /\ before[t] \in Nat /\ Cardinality(present) \in Nat
    BY SetsCounted DEF Counted, Inv, TypeOK
  <2>4. Cardinality(present') <= Counted'
    BY <1>4, <2>1, <2>2, <2>3
  <2>5. CASE LastShard(t)
    <3>0. Below(1)' = {}
      BY LimiterAssumption DEF Inv, Below, TypeOK
    <3>1. Cardinality(Below(1)') = 0
      BY <3>0, FS_EmptySet
    <3>2. Below(shard[t])' = Below(1)'
      BY <1>5, <2>5 DEF Below
    <3>3. before'[t] + Cardinality(Below(shard[t])') - sum'[t] <= Counted'
      BY <1>1, <1>4, <1>5, <2>1, <2>3, <3>1, <3>2
    <3> QED
      BY <1>2, <2>4, <2>5, <3>3 DEF Covered
  <2>6. CASE ~LastShard(t)
    BY <1>1, <1>2, <1>4, <2>1, <2>4, <2>6 DEF Covered
  <2> QED
    BY <2>5, <2>6
<1>7. /\ \A u \in Task \ {t} : sum'[u] = sum[u] /\ shard'[u] = shard[u]
      /\ tracked_clients' <= tracked_clients
  BY <1>1 DEF Inv, TypeOK
<1>8. place \notin {"before", "subtract", "entry"}
  OBVIOUS
<1> HIDE DEF place
<1> QED
  BY <1>1, <1>2, <1>3, <1>5, <1>6, <1>7, <1>8, CleanStep DEF Cleaning

LEMMA AfterStep ==
    ASSUME Inv, Inv', BoundInv, NEW t \in Task, CountAfter(t)
    PROVE  BoundInv'
<1>1. /\ pc[t] = "after" /\ shard[t] \in 1 .. ShardCount
      /\ shard' = [shard EXCEPT ![t] = IF LastShard(t) THEN 1 ELSE shard[t] + 1]
      /\ sum' = [sum EXCEPT ![t] = sum[t] + Cardinality(InShard(shard[t]))]
      /\ UNCHANGED <<tracked_clients, present, before, overlapped>>
  BY DEF CountAfter, NextShard, counters, table, history, Inv, TypeOK
<1> DEFINE place == IF LastShard(t) THEN "subtract" ELSE "after"
<1>2. pc' = [pc EXCEPT ![t] = place] /\ pc'[t] = place
  BY DEF CountAfter, GoTo, Inv, TypeOK
<1>3. pc[t] \in Cleaning /\ place \in Cleaning \cup {"entry"}
  BY <1>1 DEF Cleaning
<1>4. Counted' = Counted
  <2>1. Held' = Held
    BY <1>2, <1>3, HoldersOutside
  <2> QED
    BY <1>1, <2>1 DEF Counted
<1>5. Cardinality(Below(shard[t] + 1)) = Cardinality(Below(shard[t])) + Cardinality(InShard(shard[t]))
  BY <1>1, ShardAbove DEF Inv
<1>6. Cardinality(InShard(shard[t])) \in Nat /\ Cardinality(Below(shard[t])) \in Nat
  BY <1>1, ShardsCounted, SetsCounted DEF Inv
<1>7. /\ sum'[t] = sum[t] + Cardinality(InShard(shard[t]))
      /\ shard'[t] = IF LastShard(t) THEN 1 ELSE shard[t] + 1
      /\ before'[t] = before[t] /\ before[t] \in Nat /\ sum[t] \in Nat /\ Counted \in Int
  BY <1>1, SetsCounted DEF Inv, TypeOK, Counted
<1>8. ASSUME Covering PROVE Covered(t)' /\ Cardinality(present') <= Counted'
  <2>1. /\ before[t] + Cardinality(Below(shard[t])) - sum[t] <= Counted
        /\ Cardinality(present) <= Counted
    BY <1>1, <1>8 DEF Covering, Covered
  <2>2. before'[t] + Cardinality(Below(shard[t] + 1)) - sum'[t] <= Counted
    BY <1>5, <1>6, <1>7, <2>1
  <2>3. CASE LastShard(t)
    <3>1. Below(shard[t] + 1) = present
      BY <2>3, AllBelow DEF LastShard, Inv
    <3> QED
      BY <1>1, <1>2, <1>4, <2>1, <2>2, <2>3, <3>1 DEF Covered
  <2>4. CASE ~LastShard(t)
    <3>1. Below(shard[t])' = Below(shard[t] + 1)
      BY <1>1, <1>7, <2>4 DEF Below
    <3> QED
      BY <1>1, <1>2, <1>4, <2>1, <2>2, <2>4, <3>1 DEF Covered
  <2> QED
    BY <2>3, <2>4
<1>9. /\ \A u \in Task \ {t} : sum'[u] = sum[u] /\ shard'[u] = shard[u]
      /\ tracked_clients' <= tracked_clients
      /\ place = "subtract" => shard'[t] = 1
  BY <1>1, <1>7 DEF Inv, TypeOK
<1>10. place \in {"after", "subtract"}
  OBVIOUS
<1> HIDE DEF place
<1> QED
  BY <1>1, <1>2, <1>3, <1>8, <1>9, <1>10, CleanStep DEF Cleaning

LEMMA SubtractStep ==
    ASSUME Inv, Inv', BoundInv, NEW t \in Task, Subtract(t)
    PROVE  BoundInv'
<1>1. /\ pc[t] = "subtract"
      /\ tracked_clients' = Minus(tracked_clients, Minus(before[t], sum[t]))
      /\ pc' = [pc EXCEPT ![t] = "entry"]
      /\ sum' = [sum EXCEPT ![t] = 0]
      /\ UNCHANGED <<present, shard, overlapped>>
  BY DEF Subtract, GoTo, table, history
<1>2. pc[t] \in Cleaning /\ "entry" \in Cleaning \cup {"entry"}
  BY <1>1 DEF Cleaning
<1>3. Held' = Held
  BY <1>1, <1>2, HoldersOutside
<1>4. /\ tracked_clients \in Nat /\ before[t] \in Nat /\ sum[t] \in Nat
      /\ Cardinality(present) \in Nat /\ Cardinality(Held) \in Nat
  BY SetsCounted DEF Inv, TypeOK
<1>5. tracked_clients' <= tracked_clients
  BY <1>1, <1>4 DEF Minus
<1>6. ASSUME Covering PROVE Covered(t)' /\ Cardinality(present') <= Counted'
  <2>1. /\ before[t] + Cardinality(present) - sum[t] <= Counted
        /\ Cardinality(present) <= Counted
    BY <1>1, <1>6 DEF Covering, Covered
  <2>2. Cardinality(present) <= tracked_clients' - Cardinality(Held)
    BY <1>1, <1>4, <2>1 DEF Minus, Counted
  <2>3. pc'[t] = "entry"
    BY <1>1 DEF Inv, TypeOK
  <2> QED
    BY <1>1, <1>3, <2>2, <2>3 DEF Covered, Counted
<1>7. /\ \A u \in Task \ {t} : sum'[u] = sum[u] /\ shard'[u] = shard[u]
      /\ sum'[t] = 0 /\ shard'[t] = 1
  BY <1>1 DEF BoundInv, Sampled, Inv, TypeOK
<1> QED
  BY <1>1, <1>2, <1>5, <1>6, <1>7, CleanStep

-----------------------------------------------------------------------------
(* Entries.                                                                 *)

\* What a step of a call outside clean-ups owes the clean-up of another: the table
\* grows by no more than what is counted.
LEMMA EntryStep ==
    ASSUME Inv, Inv', BoundInv, NEW t \in Task, pc[t] \notin Cleaning,
           NEW place \in {"idle", "insert", "undo"}, pc' = [pc EXCEPT ![t] = place],
           UNCHANGED <<lengths, overlapped>>, present \subseteq present',
           Covering => /\ Cardinality(present') - Cardinality(present) <= Counted' - Counted
                       /\ Counted <= Counted'
                       /\ \A n \in Int : Cardinality(Below(n)') - Cardinality(Below(n)) <= Counted' - Counted
                       /\ tracked_clients' <= MaxTracked + Cardinality(Refusing')
    PROVE  BoundInv'
<1>1. \A u \in Task \ {t} : pc'[u] = pc[u]
  BY DEF Inv, TypeOK
<1>2. pc'[t] = place
  BY DEF Inv, TypeOK
<1>3. UNCHANGED <<shard, before, sum>>
  BY DEF lengths
<1>4. Sampled'
  BY <1>1, <1>2, <1>3 DEF BoundInv, Sampled, Cleaning
<1>5. ASSUME ~overlapped PROVE Covering'
  <2>1. Covering
    BY <1>5 DEF BoundInv
  <2>2. /\ Cardinality(present) \in Nat /\ Cardinality(present') \in Nat
        /\ Counted \in Int /\ Counted' \in Int
    <3>1. IsFiniteSet(present) /\ IsFiniteSet(present') /\ IsFiniteSet(Held) /\ IsFiniteSet(Held')
      BY LimiterAssumption, FS_Subset DEF Inv, TypeOK, Held
    <3>2. /\ Cardinality(present) \in Nat /\ Cardinality(present') \in Nat
          /\ Cardinality(Held) \in Nat /\ Cardinality(Held') \in Nat
      BY <3>1, FS_CardinalityType
    <3>3. tracked_clients \in Int /\ tracked_clients' \in Int
      BY LimiterAssumption DEF Inv, TypeOK
    <3> QED
      BY <3>2, <3>3 DEF Counted
  <2>3. Cardinality(present') <= Counted'
    BY <2>1, <2>2 DEF Covering
  <2>4. \A u, v \in Task : pc'[u] \in Cleaning /\ pc'[v] \in Cleaning => u = v
    BY <1>1, <1>2, <2>1 DEF Covering, Cleaning
  <2>5. ASSUME NEW u \in Task PROVE Covered(u)'
    <3>1. CASE u = t
      BY <1>2, <3>1 DEF Covered
    <3>2. CASE u # t
      <4>1. Covered(u) /\ pc'[u] = pc[u]
        BY <1>1, <2>1, <3>2 DEF Covering
      <4> DEFINE old == Cardinality(Below(shard[u]))
                 new == Cardinality(Below(shard[u])')
      <4>2. sum[u] \in Nat /\ before[u] \in Nat /\ shard[u] \in Int /\ shard'[u] = shard[u]
        BY <1>3 DEF Inv, TypeOK
      <4>3. old \in Nat /\ new \in Nat /\ old <= new /\ new - old <= Counted' - Counted
        <5>1. IsFiniteSet(Below(shard[u])) /\ IsFiniteSet(Below(shard[u])')
          BY LimiterAssumption, FS_Subset DEF Below, Inv, TypeOK
        <5>2. Below(shard[u]) \subseteq Below(shard[u])'
          BY <1>3 DEF Below
        <5>3. old \in Nat /\ new \in Nat
          BY <5>1, FS_CardinalityType
        <5>4. old <= new
          BY <5>1, <5>2, FS_Subset
        <5>5. PICK n \in Int : n = shard[u]
          BY <4>2
        <5>6. Below(n)' = Below(shard[u])' /\ Below(n) = Below(shard[u])
          BY <4>2, <5>5 DEF Below
        <5>7. Cardinality(Below(n)') - Cardinality(Below(n)) <= Counted' - Counted
          BY <2>1
        <5> QED
          BY <5>3, <5>4, <5>6, <5>7
      <4>4. Counted <= Counted' /\ Cardinality(present') - Cardinality(present) <= Counted' - Counted
        BY <2>1
      <4> QED
        BY <1>3, <2>2, <4>1, <4>2, <4>3, <4>4 DEF Covered
    <3> QED
      BY <3>1, <3>2
  <2> QED
    BY <2>1, <2>3, <2>4, <2>5 DEF Covering
<1> QED
  BY <1>4, <1>5 DEF BoundInv

\* Of the calls that hold a lock, one more or one less.
LEMMA HoldersCounted ==
    ASSUME Inv, Inv', NEW t \in Task, NEW place, pc' = [pc EXCEPT ![t] = place]
    PROVE  /\ place \in Holding /\ pc[t] \notin Holding => Cardinality(Held') = Cardinality(Held) + 1
           /\ place \notin Holding /\ pc[t] \in Holding => Cardinality(Held') = Cardinality(Held) - 1
           /\ place = "undo" /\ pc[t] # "undo" => Cardinality(Refusing') = Cardinality(Refusing) + 1
           /\ place # "undo" /\ pc[t] = "undo" => Cardinality(Refusing') = Cardinality(Refusing) - 1
           /\ place # "undo" /\ pc[t] # "undo" => Cardinality(Refusing') = Cardinality(Refusing)
<1>1. pc'[t] = place /\ \A u \in Task \ {t} : pc'[u] = pc[u]
  BY DEF Inv, TypeOK
<1>2. IsFiniteSet(Held) /\ IsFiniteSet(Refusing)
  BY SetsCounted DEF Inv
<1>3. /\ Cardinality(Held \cup {t}) = IF t \in Held THEN Cardinality(Held) ELSE Cardinality(Held) + 1
      /\ Cardinality(Held \ {t}) = IF t \in Held THEN Cardinality(Held) - 1 ELSE Cardinality(Held)
  BY <1>2, FS_AddElement, FS_RemoveElement
<1>4. /\ Cardinality(Refusing \cup {t})
           = IF t \in Refusing THEN Cardinality(Refusing) ELSE Cardinality(Refusing) + 1
      /\ Cardinality(Refusing \ {t})
           = IF t \in Refusing THEN Cardinality(Refusing) - 1 ELSE Cardinality(Refusing)
  BY <1>2, FS_AddElement, FS_RemoveElement
<1>5. place \in Holding => Held' = Held \cup {t}
  BY <1>1 DEF Held
<1>6. place \notin Holding => Held' = Held \ {t}
  BY <1>1 DEF Held
<1>7. place = "undo" => Refusing' = Refusing \cup {t}
  BY <1>1 DEF Refusing
<1>8. place # "undo" => Refusing' = Refusing \ {t}
  BY <1>1 DEF Refusing
<1>9. (t \in Held <=> pc[t] \in Holding) /\ (t \in Refusing <=> pc[t] = "undo")
  BY DEF Held, Refusing
<1> QED
  BY <1>3, <1>4, <1>5, <1>6, <1>7, <1>8, <1>9

LEMMA ReserveBound ==
    ASSUME WordIsWide, Inv, Inv', BoundInv, NEW t \in Task, Reserve(t)
    PROVE  BoundInv'
<1> DEFINE place == IF tracked_clients >= MaxTracked THEN "undo" ELSE "insert"
<1>1. /\ pc[t] = "entry"
      /\ tracked_clients' = (tracked_clients + 1) % Word
      /\ pc' = [pc EXCEPT ![t] = place]
      /\ UNCHANGED <<present, lengths, overlapped>>
  BY DEF Reserve, GoTo, table, history
<1>2. /\ tracked_clients \in Nat /\ MaxTracked \in Nat /\ Word \in Nat
      /\ Cardinality(Refusing) \in Nat /\ Cardinality(Held) \in Nat /\ Cardinality(Task) \in Nat
      /\ Cardinality(Refusing) <= Cardinality(Task)
  BY SetsCounted, LimiterAssumption DEF Inv, TypeOK
<1>3. Cardinality(Held') = Cardinality(Held) + 1
  <2>1. place \in Holding /\ pc[t] \notin Holding
    BY <1>1 DEF Holding
  <2> HIDE DEF place
  <2> QED
    BY <1>1, <2>1, HoldersCounted
<1>4. /\ place = "undo" => Cardinality(Refusing') = Cardinality(Refusing) + 1
      /\ place # "undo" => Cardinality(Refusing') = Cardinality(Refusing)
  <2>1. pc[t] # "undo"
    BY <1>1
  <2> HIDE DEF place
  <2> QED
    BY <1>1, <2>1, HoldersCounted
<1>5. ASSUME Covering
      PROVE  /\ Counted' = Counted
             /\ tracked_clients' <= MaxTracked + Cardinality(Refusing')
  <2>1. tracked_clients <= MaxTracked + Cardinality(Refusing)
    BY <1>5 DEF Covering
  <2>2. tracked_clients + 1 < Word
    BY <1>2, <2>1 DEF WordIsWide
  <2>3. tracked_clients' = tracked_clients + 1
    BY <1>1, <1>2, <2>2
  <2> QED
    BY <1>2, <1>3, <1>4, <2>1, <2>3 DEF Counted
<1>6. /\ Cardinality(present') = Cardinality(present)
      /\ \A n \in Int : Cardinality(Below(n)') = Cardinality(Below(n))
  BY <1>1 DEF Below
<1>7. /\ Cardinality(present) \in Nat /\ Counted \in Int
      /\ \A n \in Int : Cardinality(Below(n)) \in Nat
  BY <1>2, SetsCounted DEF Counted, Inv
<1>8. Covering => /\ Cardinality(present') - Cardinality(present) <= Counted' - Counted
                  /\ Counted <= Counted'
                  /\ \A n \in Int : Cardinality(Below(n)') - Cardinality(Below(n)) <= Counted' - Counted
                  /\ tracked_clients' <= MaxTracked + Cardinality(Refusing')
  BY <1>5, <1>6, <1>7
<1>9. place \in {"idle", "insert", "undo"} /\ pc[t] \notin Cleaning /\ present \subseteq present'
  BY <1>1 DEF Cleaning
<1>10. UNCHANGED <<lengths, overlapped>>
  BY <1>1
<1> HIDE DEF place
<1> QED
  BY <1>1, <1>8, <1>9, <1>10, EntryStep

LEMMA InsertBound ==
    ASSUME Inv, Inv', BoundInv, NEW t \in Task, Insert(t)
    PROVE  BoundInv'
<1>1. /\ pc[t] = "insert"
      /\ present' = present \cup {key[t]}
      /\ pc' = [pc EXCEPT ![t] = "idle"]
      /\ UNCHANGED <<tracked_clients, lengths, overlapped>>
  BY DEF Insert, ReturnFrom, GoTo, counters, history
<1>2. key[t] \notin present
  BY <1>1 DEF Inv, LockInv, Holding
<1>3. /\ Cardinality(Held') = Cardinality(Held) - 1
      /\ Cardinality(Refusing') = Cardinality(Refusing)
  <2>1. PICK place : place = "idle"
    OBVIOUS
  <2>2. pc[t] \in Holding /\ place \notin Holding /\ place # "undo" /\ pc' = [pc EXCEPT ![t] = place]
    BY <1>1, <2>1 DEF Holding
  <2>3. pc[t] = "insert"
    BY <1>1
  <2> QED
    BY <2>2, <2>3, HoldersCounted
<1>4. /\ tracked_clients \in Nat /\ Cardinality(Held) \in Nat /\ Cardinality(present) \in Nat
      /\ IsFiniteSet(present)
  BY SetsCounted, LimiterAssumption DEF Inv, TypeOK
<1>5. Counted' = Counted + 1 /\ Counted \in Int
  BY <1>1, <1>3, <1>4 DEF Counted
<1>6. Cardinality(present') = Cardinality(present) + 1
  BY <1>1, <1>2, <1>4, FS_AddElement
<1>7. ASSUME NEW n \in Int
      PROVE  Cardinality(Below(n)') - Cardinality(Below(n)) <= 1
  <2>1. IsFiniteSet(Below(n)) /\ Cardinality(Below(n)) \in Nat
    BY SetsCounted DEF Inv
  <2>2. Below(n)' \subseteq Below(n) \cup {key[t]}
    BY <1>1 DEF Below
  <2>3. /\ IsFiniteSet(Below(n) \cup {key[t]})
        /\ Cardinality(Below(n) \cup {key[t]})
             = IF key[t] \in Below(n) THEN Cardinality(Below(n)) ELSE Cardinality(Below(n)) + 1
    BY <2>1, FS_AddElement
  <2>4. Cardinality(Below(n)') <= Cardinality(Below(n) \cup {key[t]})
    BY <2>2, <2>3, FS_Subset
  <2>5. IsFiniteSet(Below(n)')
    BY <2>2, <2>3, FS_Subset
  <2>6. Cardinality(Below(n)') \in Nat
    BY <2>5, FS_CardinalityType
  <2> QED
    BY <2>1, <2>3, <2>4, <2>6
<1>8. Covering => tracked_clients' <= MaxTracked + Cardinality(Refusing')
  BY <1>1, <1>3 DEF Covering
<1>9. Covering => /\ Cardinality(present') - Cardinality(present) <= Counted' - Counted
                  /\ Counted <= Counted'
                  /\ \A n \in Int : Cardinality(Below(n)') - Cardinality(Below(n)) <= Counted' - Counted
                  /\ tracked_clients' <= MaxTracked + Cardinality(Refusing')
  <2>1. Counted' - Counted = 1 /\ Counted <= Counted' /\ Cardinality(present') - Cardinality(present) = 1
    BY <1>4, <1>5, <1>6
  <2> QED
    BY <1>7, <1>8, <2>1
<1>10. /\ "idle" \in {"idle", "insert", "undo"} /\ pc[t] \notin Cleaning /\ present \subseteq present'
       /\ UNCHANGED <<lengths, overlapped>>
  BY <1>1 DEF Cleaning
<1> QED
  BY <1>1, <1>9, <1>10, EntryStep

LEMMA UndoBound ==
    ASSUME Inv, Inv', BoundInv, NEW t \in Task, Undo(t)
    PROVE  BoundInv'
<1>1. /\ pc[t] = "undo"
      /\ tracked_clients' = IF tracked_clients = 0 THEN Word - 1 ELSE tracked_clients - 1
      /\ pc' = [pc EXCEPT ![t] = "idle"]
      /\ UNCHANGED <<present, lengths, overlapped>>
  BY DEF Undo, ReturnFrom, GoTo, table, history
<1>2. /\ Cardinality(Held') = Cardinality(Held) - 1
      /\ Cardinality(Refusing') = Cardinality(Refusing) - 1
  <2>1. PICK place : place = "idle"
    OBVIOUS
  <2>2. pc[t] \in Holding /\ place \notin Holding /\ place # "undo" /\ pc' = [pc EXCEPT ![t] = place]
    BY <1>1, <2>1 DEF Holding
  <2>3. pc[t] = "undo"
    BY <1>1
  <2> QED
    BY <2>2, <2>3, HoldersCounted
<1>3. /\ tracked_clients \in Nat /\ MaxTracked \in Nat /\ Cardinality(present) \in Nat
      /\ Cardinality(Held) \in Nat /\ Cardinality(Held') \in Nat /\ Cardinality(Refusing) \in Nat
  <2>1. IsFiniteSet(Held')
    BY LimiterAssumption, FS_Subset DEF Held
  <2>2. Cardinality(Held') \in Nat
    BY <2>1, FS_CardinalityType
  <2> QED
    BY <2>2, SetsCounted, LimiterAssumption DEF Inv, TypeOK
<1>4. ASSUME Covering
      PROVE  /\ Counted' = Counted
             /\ tracked_clients' <= MaxTracked + Cardinality(Refusing')
  <2>1. tracked_clients <= MaxTracked + Cardinality(Refusing) /\ Cardinality(present) <= Counted
    BY <1>4 DEF Covering
  <2>2. tracked_clients' = tracked_clients - 1
    BY <1>1, <1>2, <1>3, <2>1 DEF Counted
  <2> QED
    BY <1>2, <1>3, <2>1, <2>2 DEF Counted
<1>5. /\ Cardinality(present') = Cardinality(present)
      /\ \A n \in Int : Cardinality(Below(n)') = Cardinality(Below(n))
  BY <1>1 DEF Below
<1>6. Counted \in Int /\ \A n \in Int : Cardinality(Below(n)) \in Nat
  BY <1>3, SetsCounted DEF Counted, Inv
<1>7. Covering => /\ Cardinality(present') - Cardinality(present) <= Counted' - Counted
                  /\ Counted <= Counted'
                  /\ \A n \in Int : Cardinality(Below(n)') - Cardinality(Below(n)) <= Counted' - Counted
                  /\ tracked_clients' <= MaxTracked + Cardinality(Refusing')
  BY <1>3, <1>4, <1>5, <1>6
<1>8. /\ "idle" \in {"idle", "insert", "undo"} /\ pc[t] \notin Cleaning /\ present \subseteq present'
      /\ UNCHANGED <<lengths, overlapped>>
  BY <1>1 DEF Cleaning
<1> QED
  BY <1>1, <1>7, <1>8, EntryStep

-----------------------------------------------------------------------------
(* The theorem.                                                             *)

LEMMA CallsQuietly ==
    ASSUME Inv, BoundInv, NEW t \in Task,
           (\E c \in Client : Call(t, c)) \/ CountCall(t) \/ CheckFull(t) \/ Hit(t)
    PROVE  BoundInv'
<1>1. UNCHANGED <<tracked_clients, present, lengths>>
  BY DEF Call, CountCall, CheckFull, Hit, counters, table
<1>2. pc[t] \in {"idle", "count", "full", "entry"}
  BY DEF Call, CountCall, CheckFull, Hit
<1>3. \E place \in {"idle", "count", "full", "entry", "before"} :
         /\ pc' = [pc EXCEPT ![t] = place]
         /\ IF place = "before"
              THEN overlapped' = (overlapped \/ \E u \in Task : pc[u] \in Cleaning)
              ELSE UNCHANGED overlapped
  <2>1. CASE \E c \in Client : Call(t, c)
    BY <2>1 DEF Call, GoTo
  <2>2. CASE CountCall(t)
    BY <2>2 DEF CountCall, BeginCleanup, GoTo
  <2>3. CASE CheckFull(t)
    BY <2>3 DEF CheckFull, BeginCleanup, GoTo
  <2>4. CASE Hit(t)
    BY <2>4 DEF Hit, ReturnFrom, GoTo, history
  <2> QED
    BY <2>1, <2>2, <2>3, <2>4
<1> QED
  BY <1>1, <1>2, <1>3, QuietStep

LEMMA BoundStep ==
    ASSUME WordIsWide, Inv, Inv', BoundInv, [Next]_vars
    PROVE  BoundInv'
<1>1. CASE UNCHANGED vars
  BY <1>1 DEF vars, table, counters, lengths, history, BoundInv, Sampled, Covering, Covered, Counted,
              Held, Refusing, Below
<1>2. CASE Tick
  BY <1>2 DEF Tick, table, counters, lengths, history, BoundInv, Sampled, Covering, Covered, Counted,
              Held, Refusing, Below
<1>3. ASSUME NEW t \in Task, TaskNext(t) PROVE BoundInv'
  BY <1>3, CallsQuietly, BeforeStep, RetainBound, AfterStep, SubtractStep, ReserveBound, InsertBound,
     UndoBound
     DEF TaskNext
<1> QED
  BY <1>1, <1>2, <1>3 DEF Next

LEMMA BoundKept ==
    ASSUME Inv, BoundInv
    PROVE  BoundedUnlessOverlap
<1> SUFFICES ASSUME ~overlapped PROVE Cardinality(present) <= MaxTracked
  BY DEF BoundedUnlessOverlap, BoundedStorage
<1>1. /\ Cardinality(present) <= tracked_clients - Cardinality(Held)
      /\ tracked_clients <= MaxTracked + Cardinality(Refusing)
  BY DEF BoundInv, Covering, Counted
<1>2. Refusing \subseteq Held
  BY DEF Refusing, Held, Holding
<1>3. IsFiniteSet(Held)
  BY SetsCounted DEF Inv
<1>4. Cardinality(Refusing) <= Cardinality(Held)
  BY <1>2, <1>3, FS_Subset
<1>5. /\ Cardinality(present) \in Nat /\ Cardinality(Held) \in Nat /\ Cardinality(Refusing) \in Nat
      /\ tracked_clients \in Nat /\ MaxTracked \in Nat
  BY SetsCounted, LimiterAssumption DEF Inv, TypeOK
<1> QED
  BY <1>1, <1>4, <1>5

\* Storage: as long as no two clean-ups have overlapped, the table never has more than
\* rate_limit_max_clients entries, with any number of calls racing each clean-up.
THEOREM StorageBounded ==
    ASSUME WordIsWide
    PROVE  Spec => []BoundedUnlessOverlap
<1>1. BoundInv /\ Inv /\ Inv' /\ [Next]_vars => BoundInv'
  BY BoundStep
<1> QED
  BY <1>1, BoundInit, BoundKept, Invariance, PTL DEF Spec

\* A client that is refused is counted out from a counter above zero: fetch_sub wraps
\* around only after two clean-ups have overlapped.
NoWrapUnlessOverlap == ~overlapped => \A t \in Task : pc[t] = "undo" => tracked_clients > 0

LEMMA NoWrapKept ==
    ASSUME Inv, BoundInv
    PROVE  NoWrapUnlessOverlap
<1> SUFFICES ASSUME ~overlapped, NEW t \in Task, pc[t] = "undo" PROVE tracked_clients > 0
  BY DEF NoWrapUnlessOverlap
<1>1. Cardinality(present) <= tracked_clients - Cardinality(Held)
  BY DEF BoundInv, Covering, Counted
<1>2. t \in Held /\ IsFiniteSet(Held)
  BY SetsCounted DEF Held, Holding, Inv
<1>3. Cardinality(Held) # 0
  BY <1>2, FS_EmptySet
<1>4. Cardinality(present) \in Nat /\ Cardinality(Held) \in Nat /\ tracked_clients \in Nat
  BY SetsCounted, LimiterAssumption DEF Inv, TypeOK
<1> QED
  BY <1>1, <1>3, <1>4

\* Wrapping: the undo of a refused reservation does not make the counter the largest
\* number there is, whatever calls are in progress, unless two clean-ups have overlapped.
THEOREM CounterDoesNotWrap ==
    ASSUME WordIsWide
    PROVE  Spec => []NoWrapUnlessOverlap
<1>1. BoundInv /\ Inv /\ Inv' /\ [Next]_vars => BoundInv'
  BY BoundStep
<1> QED
  BY <1>1, BoundInit, NoWrapKept, Invariance, PTL DEF Spec

-----------------------------------------------------------------------------
(* Calls one after another.                                                 *)

\* What the only call in progress knows of the counter: it is the size of the table but
\* for the client being counted in or out, and a clean-up's lengths are exact.
Exact(t) ==
    /\ pc[t] \in {"count", "full", "before", "entry"} => tracked_clients = Cardinality(present)
    /\ pc[t] \in {"retain", "after", "subtract"} =>
         tracked_clients = before[t] /\ Cardinality(present) <= before[t]
    /\ pc[t] \in {"before", "after"} => sum[t] = Cardinality(Below(shard[t]))
    /\ pc[t] = "subtract" => sum[t] = Cardinality(present)
    /\ pc[t] \in Holding => tracked_clients = Cardinality(present) + 1
    /\ pc[t] = "insert" => Cardinality(present) < MaxTracked
    /\ pc[t] = "undo" => Cardinality(present) >= MaxTracked

Solo ==
    /\ \A t, u \in Task : ~Idle(t) /\ ~Idle(u) => t = u
    /\ \A t \in Task : Exact(t)
    /\ (\A t \in Task : Idle(t)) => tracked_clients = Cardinality(present)
    /\ Cardinality(present) <= MaxTracked

SoloInv == alone => Solo

LEMMA SoloInit == Init => SoloInv
<1> SUFFICES ASSUME Init PROVE SoloInv
  OBVIOUS
<1>1. Cardinality(present) = 0
  BY FS_EmptySet DEF Init
<1>2. \A t \in Task : pc[t] = "idle"
  BY DEF Init
<1>3. \A t \in Task : Exact(t)
  BY <1>2 DEF Exact, Holding
<1> QED
  BY <1>1, <1>2, <1>3, LimiterAssumption DEF Init, SoloInv, Solo, Idle

\* A call's step when there is no other call.
LEMMA SoloCallStep ==
    ASSUME Inv, SoloInv, NEW t \in Task, NEW place, pc' = [pc EXCEPT ![t] = place],
           alone' => alone, pc[t] = "idle" /\ alone' => \A u \in Task : Idle(u),
           Solo /\ alone' => /\ Exact(t)'
                             /\ place = "idle" => tracked_clients' = Cardinality(present')
                             /\ Cardinality(present') <= MaxTracked
    PROVE  SoloInv'
<1> SUFFICES ASSUME alone' PROVE Solo'
  BY DEF SoloInv
<1>1. Solo
  BY DEF SoloInv
<1>2. pc'[t] = place /\ \A u \in Task \ {t} : pc'[u] = pc[u]
  BY DEF Inv, TypeOK
<1>3. \A u \in Task \ {t} : pc'[u] = "idle"
  BY <1>1, <1>2 DEF Solo, Idle
<1>4. \A u \in Task \ {t} : Exact(u)'
  BY <1>3 DEF Exact, Holding
<1>5. (\A u \in Task : Idle(u))' => place = "idle"
  BY <1>2 DEF Idle
<1> QED
  BY <1>1, <1>3, <1>4, <1>5 DEF Solo, Idle

\* Steps that touch neither the table nor its counter.
LEMMA SoloQuietStep ==
    ASSUME Inv, BoundInv, SoloInv, NEW t \in Task,
           (\E c \in Client : Call(t, c)) \/ CountCall(t) \/ CheckFull(t) \/ Hit(t)
    PROVE  SoloInv'
<1>1. UNCHANGED <<tracked_clients, present, shard, before, sum>>
  BY DEF Call, CountCall, CheckFull, Hit, counters, table, lengths
<1>2. PICK place \in {"idle", "count", "full", "entry", "before"} : pc' = [pc EXCEPT ![t] = place]
  BY DEF Call, CountCall, CheckFull, Hit, BeginCleanup, ReturnFrom, GoTo
<1>3. /\ pc[t] \in {"idle", "count", "full", "entry"}
      /\ alone' => alone
      /\ pc[t] = "idle" /\ alone' => \A u \in Task : Idle(u)
  <2>1. CASE \E c \in Client : Call(t, c)
    <3>1. pc[t] = "idle"
      BY <2>1 DEF Call
    <3>2. alone' => alone /\ \A u \in Task : Idle(u)
      BY <2>1, Zenon DEF Call
    <3> QED
      BY <3>1, <3>2
  <2>2. CASE CountCall(t) \/ CheckFull(t) \/ Hit(t)
    <3>1. pc[t] \in {"count", "full", "entry"}
      BY <2>2 DEF CountCall, CheckFull, Hit
    <3>2. alone' = alone
      BY <2>2 DEF CountCall, CheckFull, Hit, history
    <3> QED
      BY <3>1, <3>2
  <2> QED
    BY <2>1, <2>2
<1>4. ASSUME Solo, alone' PROVE tracked_clients = Cardinality(present)
  BY <1>3, <1>4 DEF Solo, Exact
<1>5. sum[t] = 0 /\ shard[t] = 1
  BY <1>3 DEF BoundInv, Sampled
<1>6. Cardinality(Below(1)) = 0
  BY NothingBelow DEF Inv
<1>7. pc'[t] = place /\ Below(shard[t])' = Below(1)
  BY <1>1, <1>2, <1>5 DEF Below, Inv, TypeOK
<1>8. ASSUME Solo, alone'
      PROVE  /\ Exact(t)'
             /\ place = "idle" => tracked_clients' = Cardinality(present')
             /\ Cardinality(present') <= MaxTracked
  BY <1>1, <1>4, <1>5, <1>6, <1>7, <1>8 DEF Exact, Solo, Holding
<1> QED
  BY <1>2, <1>3, <1>8, SoloCallStep

\* The first length is the size of the table.
LEMMA SoloBeforeStep ==
    ASSUME Inv, BoundInv, SoloInv, NEW t \in Task, CountBefore(t)
    PROVE  SoloInv'
<1>1. /\ pc[t] = "before" /\ shard[t] \in 1 .. ShardCount
      /\ shard' = [shard EXCEPT ![t] = IF LastShard(t) THEN 1 ELSE shard[t] + 1]
      /\ UNCHANGED <<tracked_clients, present, alone>>
  BY DEF CountBefore, NextShard, counters, table, history, Inv, TypeOK
<1>2. Cardinality(Below(shard[t] + 1)) = Cardinality(Below(shard[t])) + Cardinality(InShard(shard[t]))
  BY <1>1, ShardAbove DEF Inv
<1>3. PICK place : place = IF LastShard(t) THEN "retain" ELSE "before"
  OBVIOUS
<1>4. pc' = [pc EXCEPT ![t] = place] /\ pc'[t] = place
  BY <1>1, <1>3 DEF CountBefore, GoTo, Inv, TypeOK
<1>5. ASSUME Solo
      PROVE  /\ Exact(t)'
             /\ place = "idle" => tracked_clients' = Cardinality(present')
             /\ Cardinality(present') <= MaxTracked
  <2>1. /\ tracked_clients = Cardinality(present) /\ sum[t] = Cardinality(Below(shard[t]))
        /\ Cardinality(present) <= MaxTracked
    BY <1>1, <1>5 DEF Solo, Exact
  <2>2. CASE LastShard(t)
    <3>1. before'[t] = sum[t] + Cardinality(InShard(shard[t]))
      BY <2>2 DEF CountBefore, Inv, TypeOK
    <3>2. Cardinality(Below(shard[t] + 1)) = Cardinality(present)
      BY <2>2, AllBelow DEF LastShard, Inv
    <3>3. before'[t] = tracked_clients /\ Cardinality(present) \in Nat
      BY <1>2, <2>1, <3>1, <3>2, SetsCounted DEF Inv
    <3> QED
      BY <1>1, <1>3, <1>4, <2>1, <2>2, <3>3 DEF Exact, Holding
  <2>3. CASE ~LastShard(t)
    <3>1. shard'[t] = shard[t] + 1 /\ sum'[t] = sum[t] + Cardinality(InShard(shard[t]))
      BY <1>1, <2>3 DEF CountBefore, Inv, TypeOK
    <3>2. Below(shard[t])' = Below(shard[t] + 1)
      BY <1>1, <3>1 DEF Below
    <3>3. sum'[t] = Cardinality(Below(shard[t])')
      BY <1>2, <2>1, <3>1, <3>2
    <3> QED
      BY <1>1, <1>3, <1>4, <2>1, <2>3, <3>3 DEF Exact, Holding
  <2> QED
    BY <2>2, <2>3
<1>6. alone' => alone
  BY <1>1
<1>7. pc[t] # "idle"
  BY <1>1
<1> QED
  BY <1>4, <1>5, <1>6, <1>7, SoloCallStep

\* Dropping entries leaves the counter behind by what the first length knows.
LEMMA SoloRetainStep ==
    ASSUME Inv, BoundInv, SoloInv, NEW t \in Task, Retain(t)
    PROVE  SoloInv'
<1>1. /\ pc[t] = "retain"
      /\ present' \subseteq present
      /\ shard' = [shard EXCEPT ![t] = IF LastShard(t) THEN 1 ELSE shard[t] + 1]
      /\ UNCHANGED <<tracked_clients, before, sum, alone>>
  BY DEF Retain, NextShard, counters, history
<1>2. PICK place : place = IF LastShard(t) THEN "after" ELSE "retain"
  OBVIOUS
<1>3. pc' = [pc EXCEPT ![t] = place] /\ pc'[t] = place
  BY <1>2 DEF Retain, GoTo, Inv, TypeOK
<1>4. Cardinality(present') <= Cardinality(present) /\ Cardinality(present') \in Nat
      /\ Cardinality(present) \in Nat
  BY <1>1, SetsCounted, FS_Subset, FS_CardinalityType DEF Inv
<1>5. sum'[t] = 0 /\ (LastShard(t) => shard'[t] = 1)
  BY <1>1 DEF BoundInv, Sampled, Inv, TypeOK
<1>6. LastShard(t) => Cardinality(Below(shard[t])') = 0
  <2>1. LastShard(t) => Below(shard[t])' = {}
    BY <1>1, <1>5, LimiterAssumption DEF Below, Inv, TypeOK
  <2> QED
    BY <2>1, FS_EmptySet
<1>7. ASSUME Solo
      PROVE  /\ Exact(t)'
             /\ place = "idle" => tracked_clients' = Cardinality(present')
             /\ Cardinality(present') <= MaxTracked
  <2>1. /\ tracked_clients = before[t] /\ Cardinality(present) <= before[t]
        /\ Cardinality(present) <= MaxTracked
    BY <1>1, <1>7 DEF Solo, Exact
  <2>2. Cardinality(present') <= before'[t] /\ Cardinality(present') <= MaxTracked
    BY <1>1, <1>4, <2>1, LimiterAssumption DEF Inv, TypeOK
  <2> QED
    BY <1>1, <1>2, <1>3, <1>5, <1>6, <2>1, <2>2 DEF Exact, Holding
<1>8. alone' => alone
  BY <1>1
<1>9. pc[t] # "idle"
  BY <1>1
<1> QED
  BY <1>3, <1>7, <1>8, <1>9, SoloCallStep

\* The second length is the size of the table again.
LEMMA SoloAfterStep ==
    ASSUME Inv, SoloInv, NEW t \in Task, CountAfter(t)
    PROVE  SoloInv'
<1>1. /\ pc[t] = "after" /\ shard[t] \in 1 .. ShardCount
      /\ shard' = [shard EXCEPT ![t] = IF LastShard(t) THEN 1 ELSE shard[t] + 1]
      /\ sum'[t] = sum[t] + Cardinality(InShard(shard[t]))
      /\ UNCHANGED <<tracked_clients, present, before, alone>>
  BY DEF CountAfter, NextShard, counters, table, history, Inv, TypeOK
<1>2. Cardinality(Below(shard[t] + 1)) = Cardinality(Below(shard[t])) + Cardinality(InShard(shard[t]))
  BY <1>1, ShardAbove DEF Inv
<1>3. PICK place : place = IF LastShard(t) THEN "subtract" ELSE "after"
  OBVIOUS
<1>4. pc' = [pc EXCEPT ![t] = place] /\ pc'[t] = place
  BY <1>3 DEF CountAfter, GoTo, Inv, TypeOK
<1>5. LastShard(t) => Below(shard[t] + 1) = present
  BY AllBelow DEF LastShard, Inv
<1>6. ~LastShard(t) => Below(shard[t])' = Below(shard[t] + 1)
  BY <1>1 DEF Below, Inv, TypeOK
<1>7. ASSUME Solo
      PROVE  /\ Exact(t)'
             /\ place = "idle" => tracked_clients' = Cardinality(present')
             /\ Cardinality(present') <= MaxTracked
  <2>1. /\ tracked_clients = before[t] /\ Cardinality(present) <= before[t]
        /\ Cardinality(present) <= MaxTracked /\ sum[t] = Cardinality(Below(shard[t]))
    BY <1>1, <1>7 DEF Solo, Exact
  <2>2. sum'[t] = Cardinality(Below(shard[t] + 1))
    BY <1>1, <1>2, <2>1
  <2> QED
    BY <1>1, <1>3, <1>4, <1>5, <1>6, <2>1, <2>2 DEF Exact, Holding
<1>8. alone' => alone
  BY <1>1
<1>9. pc[t] # "idle"
  BY <1>1
<1> QED
  BY <1>4, <1>7, <1>8, <1>9, SoloCallStep

\* The difference of the lengths is what the counter lacked.
LEMMA SoloSubtractStep ==
    ASSUME Inv, SoloInv, NEW t \in Task, Subtract(t)
    PROVE  SoloInv'
<1>1. /\ pc[t] = "subtract"
      /\ tracked_clients' = Minus(tracked_clients, Minus(before[t], sum[t]))
      /\ UNCHANGED <<present, alone>>
  BY DEF Subtract, table, history
<1>2. PICK place : place = "entry"
  OBVIOUS
<1>3. pc' = [pc EXCEPT ![t] = place] /\ pc'[t] = "entry"
  BY <1>2 DEF Subtract, GoTo, Inv, TypeOK
<1>4. ASSUME Solo
      PROVE  /\ Exact(t)'
             /\ place = "idle" => tracked_clients' = Cardinality(present')
             /\ Cardinality(present') <= MaxTracked
  <2>1. /\ tracked_clients = before[t] /\ Cardinality(present) <= before[t]
        /\ Cardinality(present) <= MaxTracked /\ sum[t] = Cardinality(present)
    BY <1>1, <1>4 DEF Solo, Exact
  <2>2. before[t] \in Nat /\ Cardinality(present) \in Nat
    BY SetsCounted DEF Inv, TypeOK
  <2>3. tracked_clients' = Cardinality(present)
    BY <1>1, <2>1, <2>2 DEF Minus
  <2> QED
    BY <1>1, <1>2, <1>3, <2>1, <2>3 DEF Exact, Holding
<1>5. alone' => alone
  BY <1>1
<1>6. pc[t] # "idle"
  BY <1>1
<1> QED
  BY <1>3, <1>4, <1>5, <1>6, SoloCallStep

\* A client is counted in, and then either inserted or counted out again.
LEMMA SoloReserveStep ==
    ASSUME WordIsWide, Inv, SoloInv, NEW t \in Task, Reserve(t)
    PROVE  SoloInv'
<1>1. /\ pc[t] = "entry"
      /\ tracked_clients' = (tracked_clients + 1) % Word
      /\ UNCHANGED <<present, alone>>
  BY DEF Reserve, table, history
<1>2. PICK place : place = IF tracked_clients >= MaxTracked THEN "undo" ELSE "insert"
  OBVIOUS
<1>3. pc' = [pc EXCEPT ![t] = place] /\ pc'[t] = place
  BY <1>2 DEF Reserve, GoTo, Inv, TypeOK
<1>4. ASSUME Solo
      PROVE  /\ Exact(t)'
             /\ place = "idle" => tracked_clients' = Cardinality(present')
             /\ Cardinality(present') <= MaxTracked
  <2>1. tracked_clients = Cardinality(present) /\ Cardinality(present) <= MaxTracked
    BY <1>1, <1>4 DEF Solo, Exact
  <2>2. tracked_clients \in Nat /\ MaxTracked \in Nat /\ Word \in Nat /\ Cardinality(Task) \in Nat
    BY SetsCounted, LimiterAssumption DEF Inv, TypeOK
  <2>3. tracked_clients + 1 < Word
    BY <2>1, <2>2 DEF WordIsWide
  <2>4. tracked_clients' = tracked_clients + 1
    BY <1>1, <2>2, <2>3
  <2>5. place = "insert" => tracked_clients < MaxTracked
    BY <1>2, <2>2
  <2>6. place \in Holding /\ (place = "undo" => tracked_clients >= MaxTracked)
    BY <1>2, <2>2 DEF Holding
  <2> QED
    BY <1>1, <1>3, <2>1, <2>4, <2>5, <2>6 DEF Exact, Holding
<1>5. alone' => alone
  BY <1>1
<1>6. pc[t] # "idle"
  BY <1>1
<1> QED
  BY <1>3, <1>4, <1>5, <1>6, SoloCallStep

LEMMA SoloReturnStep ==
    ASSUME Inv, SoloInv, NEW t \in Task, Insert(t) \/ Undo(t)
    PROVE  SoloInv'
<1>1. pc[t] \in Holding /\ UNCHANGED alone
  BY DEF Insert, Undo, Holding, history
<1>2. PICK place : place = "idle"
  OBVIOUS
<1>3. pc' = [pc EXCEPT ![t] = place] /\ pc'[t] = "idle"
  BY <1>2 DEF Insert, Undo, ReturnFrom, GoTo, Inv, TypeOK
<1>4. ASSUME Solo
      PROVE  /\ Exact(t)'
             /\ place = "idle" => tracked_clients' = Cardinality(present')
             /\ Cardinality(present') <= MaxTracked
  <2>1. tracked_clients = Cardinality(present) + 1 /\ Cardinality(present) <= MaxTracked
    BY <1>1, <1>4 DEF Solo, Exact
  <2>2. Cardinality(present) \in Nat /\ IsFiniteSet(present) /\ MaxTracked \in Nat
    BY SetsCounted, LimiterAssumption DEF Inv
  <2>3. CASE Insert(t)
    <3>1. pc[t] = "insert" /\ present' = present \cup {key[t]} /\ UNCHANGED tracked_clients
      BY <2>3 DEF Insert, counters
    <3>2. key[t] \notin present
      BY <1>1 DEF Inv, LockInv
    <3>3. Cardinality(present') = Cardinality(present) + 1
      BY <2>2, <3>1, <3>2, FS_AddElement
    <3>4. Cardinality(present) < MaxTracked
      BY <1>4, <3>1 DEF Solo, Exact
    <3>5. tracked_clients' = Cardinality(present') /\ Cardinality(present') <= MaxTracked
      BY <2>1, <2>2, <3>1, <3>3, <3>4
    <3> QED
      BY <1>3, <3>5 DEF Exact, Holding
  <2>4. CASE Undo(t)
    <3>1. UNCHANGED present
          /\ tracked_clients' = IF tracked_clients = 0 THEN Word - 1 ELSE tracked_clients - 1
      BY <2>4 DEF Undo, table
    <3>2. tracked_clients' = Cardinality(present')
      BY <2>1, <2>2, <3>1
    <3> QED
      BY <1>3, <2>1, <3>1, <3>2 DEF Exact, Holding
  <2> QED
    BY <2>3, <2>4
<1>5. alone' => alone
  BY <1>1
<1>6. pc[t] # "idle"
  BY <1>1 DEF Holding
<1> QED
  BY <1>3, <1>4, <1>5, <1>6, SoloCallStep

LEMMA SoloStep ==
    ASSUME WordIsWide, Inv, BoundInv, SoloInv, [Next]_vars
    PROVE  SoloInv'
<1>1. CASE UNCHANGED vars \/ Tick
  <2>1. UNCHANGED <<tracked_clients, present, pc, shard, before, sum, alone>>
    BY <1>1 DEF Tick, vars, table, counters, lengths, history
  <2> QED
    BY <2>1 DEF SoloInv, Solo, Exact, Idle, Below
<1>2. ASSUME NEW t \in Task, TaskNext(t) PROVE SoloInv'
  BY <1>2, SoloQuietStep, SoloBeforeStep, SoloRetainStep, SoloAfterStep, SoloSubtractStep,
     SoloReserveStep, SoloReturnStep
     DEF TaskNext
<1> QED
  BY <1>1, <1>2 DEF Next

LEMMA SoloInvariance ==
    ASSUME WordIsWide
    PROVE  Spec => []SoloInv
<1>1. BoundInv /\ Inv /\ Inv' /\ [Next]_vars => BoundInv'
  BY BoundStep
<1>2. SoloInv /\ BoundInv /\ Inv /\ [Next]_vars => SoloInv'
  BY SoloStep
<1> QED
  BY <1>1, <1>2, BoundInit, SoloInit, Invariance, PTL DEF Spec

\* Refusals: with calls one after another, a client without an entry is refused only when
\* the table, swept of its expired entries, has rate_limit_max_clients of them.
THEOREM RefusalsOnlyWhenFull ==
    ASSUME WordIsWide
    PROVE  Spec => []RefusedOnlyWhenFull
<1>1. SoloInv => RefusedOnlyWhenFull
  BY DEF SoloInv, Solo, Exact, RefusedOnlyWhenFull
<1> QED
  BY <1>1, SoloInvariance, PTL

\* The counter: with calls one after another, tracked_clients is the size of the table
\* whenever no call is in progress, however many clean-ups there have been.
THEOREM CounterIsExact ==
    ASSUME WordIsWide
    PROVE  Spec => []CounterMatchesTable
<1>1. SoloInv => CounterMatchesTable
  BY DEF SoloInv, Solo, CounterMatchesTable
<1> QED
  BY <1>1, SoloInvariance, PTL
=============================================================================
