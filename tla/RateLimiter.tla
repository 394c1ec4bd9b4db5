----------------------------- MODULE RateLimiter -----------------------------
(***************************************************************************)
(* rate_limited of src/runtime/rate_limit/functions.rs: one endpoint's     *)
(* limiter, called by concurrent requests.                                 *)
(*                                                                         *)
(* The table is a DashMap: shards behind a lock each.  Its length, its     *)
(* clean-up (`retain`) and the entry of a client each lock the shards they *)
(* visit, one after another; the two counters beside it are atomics that   *)
(* no lock covers.  A call reads the clock once, when it begins.           *)
(***************************************************************************)
EXTENDS Integers, FiniteSets

CONSTANTS
    Client, NoClient,   \* client keys, and the key of no call
    Task,               \* calls that can be in progress at once
    ShardCount,         \* shards of the table, visited in order
    ShardOf,            \* the shard of each client
    Limit, Window,      \* the endpoint's rate_limit option
    CleanupInterval,    \* rate_limit_cleanup_ms
    CleanupEvery,       \* 1024 in the code
    MaxTracked,         \* rate_limit_max_clients
    Word,               \* 2^64: the size of the usize counter
    MaxStall,           \* bound: clock ticks a call can span
    MaxTime             \* bound on the clock

ASSUME LimiterAssumption ==
    /\ IsFiniteSet(Client) /\ NoClient \notin Client /\ IsFiniteSet(Task)
    /\ ShardCount \in Nat \ {0} /\ ShardOf \in [Client -> 1 .. ShardCount]
    /\ Limit \in Nat \ {0} /\ Window \in Nat \ {0}
    /\ CleanupInterval \in Nat \ {0} /\ CleanupEvery \in Nat \ {0}
    /\ MaxTracked \in Nat \ {0} /\ Word \in Nat \ {0}
    /\ MaxStall \in Nat /\ MaxTime \in Nat

VARIABLES
    clock,
    calls,              \* policy.calls, modulo CleanupEvery
    tracked_clients,    \* policy.tracked_clients
    present,            \* the clients that have an entry in policy.states
    started_at, used,   \* the entry of each client; 0 when it has none
    pc,                 \* where each call is
    key, now,           \* its arguments and its reading of the clock
    shard,              \* the shard a length or a clean-up visits next
    before, sum,        \* its two lengths, the second being summed
    alone,              \* history: no two calls have been in progress at once
    overlapped          \* history: two clean-ups have overlapped

table == <<present, started_at, used>>
counters == <<calls, tracked_clients>>
lengths == <<shard, before, sum>>
history == <<alone, overlapped>>
vars == <<clock, counters, table, pc, key, now, lengths, history>>

Minus(a, b) == IF a >= b THEN a - b ELSE 0      \* saturating_sub, duration_since

\* Mutant of cleanup_after: the window is left out.
CleanupIntervalOnly == CleanupInterval

\* Entries are kept at least as long as their window.
cleanup_after == IF Window >= CleanupInterval THEN Window ELSE CleanupInterval

Cleaning == {"before", "retain", "after", "subtract"}
Holding == {"insert", "undo"}

TypeOK ==
    /\ clock \in 0 .. MaxTime
    /\ calls \in 0 .. (CleanupEvery - 1)
    /\ tracked_clients \in 0 .. (Word - 1)
    /\ present \subseteq Client
    /\ started_at \in [Client -> 0 .. MaxTime]
    /\ used \in [Client -> 0 .. Limit]
    /\ \A c \in Client : c \in present <=> used[c] > 0
    /\ pc \in [Task -> {"idle", "count", "full", "entry"} \cup Cleaning \cup Holding]
    /\ key \in [Task -> Client \cup {NoClient}]
    /\ \A t \in Task : pc[t] = "idle" <=> key[t] = NoClient
    /\ now \in [Task -> 0 .. MaxTime]
    /\ shard \in [Task -> 1 .. ShardCount]
    /\ before \in [Task -> Nat]
    /\ sum \in [Task -> Nat]
    /\ alone \in BOOLEAN /\ overlapped \in BOOLEAN

Init ==
    /\ clock = 0
    /\ calls = 0
    /\ tracked_clients = 0
    /\ present = {}
    /\ started_at = [c \in Client |-> 0]
    /\ used = [c \in Client |-> 0]
    /\ pc = [t \in Task |-> "idle"]
    /\ key = [t \in Task |-> NoClient]
    /\ now = [t \in Task |-> 0]
    /\ shard = [t \in Task |-> 1]
    /\ before = [t \in Task |-> 0]
    /\ sum = [t \in Task |-> 0]
    /\ alone = TRUE /\ overlapped = FALSE

\* The shard's write lock is held between a vacant entry and its outcome.
Locked(n) == \E t \in Task : pc[t] \in Holding /\ ShardOf[key[t]] = n
InShard(n) == {c \in present : ShardOf[c] = n}

Idle(t) == pc[t] = "idle"
GoTo(t, place) == pc' = [pc EXCEPT ![t] = place]

\* The call returns, and its variables with it.
ReturnFrom(t) ==
    /\ GoTo(t, "idle")
    /\ key' = [key EXCEPT ![t] = NoClient]
    /\ now' = [now EXCEPT ![t] = 0]

-----------------------------------------------------------------------------
(* The clock and the beginning of a call.                                  *)

\* Calls in progress can span at most MaxStall ticks.
Tick ==
    /\ clock < MaxTime
    /\ \A t \in Task : pc[t] # "idle" => clock - now[t] < MaxStall
    /\ clock' = clock + 1
    /\ UNCHANGED <<counters, table, pc, key, now, lengths, history>>

Call(t, c) ==
    /\ pc[t] = "idle"
    /\ GoTo(t, "count")
    /\ key' = [key EXCEPT ![t] = c]
    /\ now' = [now EXCEPT ![t] = clock]
    /\ alone' = (alone /\ \A u \in Task : Idle(u))
    /\ UNCHANGED <<clock, counters, table, lengths, overlapped>>

BeginCleanup(t) ==
    /\ GoTo(t, "before")
    /\ overlapped' = (overlapped \/ \E u \in Task : pc[u] \in Cleaning)

\* Every CleanupEvery-th call cleans up.
CountCall(t) ==
    /\ pc[t] = "count"
    /\ calls' = (calls + 1) % CleanupEvery
    /\ IF calls = 0 THEN BeginCleanup(t) ELSE GoTo(t, "full") /\ UNCHANGED overlapped
    /\ UNCHANGED <<clock, tracked_clients, table, key, now, lengths, alone>>

\* So does every call that finds the table full.
CheckFull(t) ==
    /\ pc[t] = "full"
    /\ IF tracked_clients >= MaxTracked
         THEN BeginCleanup(t)
         ELSE GoTo(t, "entry") /\ UNCHANGED overlapped
    /\ UNCHANGED <<clock, counters, table, key, now, lengths, alone>>

-----------------------------------------------------------------------------
(* The clean-up: length, retain, length, subtraction.                      *)

LastShard(t) == shard[t] = ShardCount
NextShard(t) ==
    shard' = [shard EXCEPT ![t] = IF LastShard(t) THEN 1 ELSE shard[t] + 1]

\* states.len() reads one shard.
CountBefore(t) ==
    /\ pc[t] = "before"
    /\ ~Locked(shard[t])
    /\ NextShard(t)
    /\ IF LastShard(t)
         THEN /\ before' = [before EXCEPT ![t] = sum[t] + Cardinality(InShard(shard[t]))]
              /\ sum' = [sum EXCEPT ![t] = 0]
              /\ GoTo(t, "retain")
         ELSE /\ sum' = [sum EXCEPT ![t] = @ + Cardinality(InShard(shard[t]))]
              /\ UNCHANGED <<before, pc>>
    /\ UNCHANGED <<clock, counters, table, key, now, history>>

\* states.retain drops the expired entries of one shard.
Retain(t) ==
    /\ pc[t] = "retain"
    /\ ~Locked(shard[t])
    /\ LET expired == {c \in InShard(shard[t]) : Minus(now[t], started_at[c]) >= cleanup_after}
       IN  /\ present' = present \ expired
           /\ started_at' = [c \in Client |-> IF c \in expired THEN 0 ELSE started_at[c]]
           /\ used' = [c \in Client |-> IF c \in expired THEN 0 ELSE used[c]]
    /\ NextShard(t)
    /\ GoTo(t, IF LastShard(t) THEN "after" ELSE "retain")
    /\ UNCHANGED <<clock, counters, key, now, before, sum, history>>

CountAfter(t) ==
    /\ pc[t] = "after"
    /\ ~Locked(shard[t])
    /\ NextShard(t)
    /\ sum' = [sum EXCEPT ![t] = @ + Cardinality(InShard(shard[t]))]
    /\ GoTo(t, IF LastShard(t) THEN "subtract" ELSE "after")
    /\ UNCHANGED <<clock, counters, table, key, now, before, history>>

\* Mutants of Subtract: the whole former length is subtracted; nothing is.
SubtractAll(t) ==
    /\ pc[t] = "subtract"
    /\ tracked_clients' = Minus(tracked_clients, before[t])
    /\ GoTo(t, "entry")
    /\ before' = [before EXCEPT ![t] = 0]
    /\ sum' = [sum EXCEPT ![t] = 0]
    /\ UNCHANGED <<clock, calls, table, key, now, shard, history>>
SubtractNothing(t) ==
    /\ pc[t] = "subtract"
    /\ GoTo(t, "entry")
    /\ before' = [before EXCEPT ![t] = 0]
    /\ sum' = [sum EXCEPT ![t] = 0]
    /\ UNCHANGED <<clock, counters, table, key, now, shard, history>>

\* tracked_clients.fetch_update by the difference of the two lengths.
Subtract(t) ==
    /\ pc[t] = "subtract"
    /\ tracked_clients' = Minus(tracked_clients, Minus(before[t], sum[t]))
    /\ GoTo(t, "entry")
    /\ before' = [before EXCEPT ![t] = 0]
    /\ sum' = [sum EXCEPT ![t] = 0]
    /\ UNCHANGED <<clock, calls, table, key, now, shard, history>>

-----------------------------------------------------------------------------
(* The client's entry.                                                     *)

\* An occupied entry: under its shard's lock, an expired window begins anew,
\* and the call is admitted if the window has room.
Hit(t) ==
    LET c == key[t] IN
    /\ pc[t] = "entry"
    /\ c \in present
    /\ ~Locked(ShardOf[c])
    /\ LET expired == Minus(now[t], started_at[c]) >= Window
           spent == IF expired THEN 0 ELSE used[c]
       IN  /\ started_at' = [started_at EXCEPT ![c] = IF expired THEN now[t] ELSE @]
           /\ used' = [used EXCEPT ![c] = IF spent < Limit THEN spent + 1 ELSE spent]
    /\ ReturnFrom(t)
    /\ UNCHANGED <<clock, counters, present, lengths, history>>

\* Mutant of Reserve: the table may hold one more.
ReserveOneMore(t) ==
    /\ pc[t] = "entry"
    /\ key[t] \notin present
    /\ ~Locked(ShardOf[key[t]])
    /\ tracked_clients' = (tracked_clients + 1) % Word
    /\ GoTo(t, IF tracked_clients > MaxTracked THEN "undo" ELSE "insert")
    /\ UNCHANGED <<clock, calls, table, key, now, lengths, history>>

\* A vacant entry: its shard stays locked while the client is counted in.
Reserve(t) ==
    /\ pc[t] = "entry"
    /\ key[t] \notin present
    /\ ~Locked(ShardOf[key[t]])
    /\ tracked_clients' = (tracked_clients + 1) % Word
    /\ GoTo(t, IF tracked_clients >= MaxTracked THEN "undo" ELSE "insert")
    /\ UNCHANGED <<clock, calls, table, key, now, lengths, history>>

\* The new entry's window begins and admits the call.
Insert(t) ==
    /\ pc[t] = "insert"
    /\ present' = present \cup {key[t]}
    /\ started_at' = [started_at EXCEPT ![key[t]] = now[t]]
    /\ used' = [used EXCEPT ![key[t]] = 1]
    /\ ReturnFrom(t)
    /\ UNCHANGED <<clock, counters, lengths, history>>

\* Mutant of Undo: the refused client stays counted in.
UndoNothing(t) ==
    /\ pc[t] = "undo"
    /\ ReturnFrom(t)
    /\ UNCHANGED <<clock, counters, table, lengths, history>>

\* The table is full: the client is counted out again and refused.  fetch_sub
\* wraps around.
Undo(t) ==
    /\ pc[t] = "undo"
    /\ tracked_clients' = IF tracked_clients = 0 THEN Word - 1 ELSE tracked_clients - 1
    /\ ReturnFrom(t)
    /\ UNCHANGED <<clock, calls, table, lengths, history>>

TaskNext(t) ==
    \/ \E c \in Client : Call(t, c)
    \/ CountCall(t) \/ CheckFull(t)
    \/ CountBefore(t) \/ Retain(t) \/ CountAfter(t) \/ Subtract(t)
    \/ Hit(t) \/ Reserve(t) \/ Insert(t) \/ Undo(t)

Next == Tick \/ \E t \in Task : TaskNext(t)

Spec == Init /\ [][Next]_vars

-----------------------------------------------------------------------------
(* Properties.                                                             *)

\* The sharded table, its clean-ups and its counters are a fixed-window
\* limiter: in particular no window is reset or dropped before it has run out
\* in real time, however old the clock reading of the call that does it.
Promise == INSTANCE FixedWindow WITH start <- started_at, spent <- used
ImplementsFixedWindow == Promise!WindowSpec

\* Each endpoint's limiter tracks at most rate_limit_max_clients clients.
BoundedStorage == Cardinality(present) <= MaxTracked

\* ... which holds as long as no two clean-ups have overlapped: inserts that
\* race a clean-up only make the counter err on the high side.
BoundedUnlessOverlap == ~overlapped => BoundedStorage

\* When calls come one after another, a client without an entry is refused only
\* while the table is full ...
RefusedOnlyWhenFull ==
    alone => \A t \in Task : pc[t] = "undo" => Cardinality(present) >= MaxTracked

\* ... and between calls the counter is the size of the table.
CounterMatchesTable ==
    alone /\ (\A t \in Task : Idle(t)) => tracked_clients = Cardinality(present)
=============================================================================
