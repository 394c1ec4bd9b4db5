----------------------------- MODULE CommandSlots -----------------------------
(***************************************************************************)
(* execute_command of src/runtime/mod.rs: the command steps of all the     *)
(* requests of one runtime, sharing its command slots.                     *)
(*                                                                         *)
(* A slot is a permit of a tokio semaphore, whose waiters are served first *)
(* come, first served; a released permit is assigned to the first waiter   *)
(* at once.  A command is a shell and the program the shell runs; both     *)
(* hold the command's output streams open until they exit.  The counters   *)
(* of /metrics, which nothing reads back, are left out.                    *)
(***************************************************************************)
EXTENDS Naturals, Sequences, FiniteSets

CONSTANTS
    Task,               \* command steps that can be in progress at once
    Proc,               \* the operating system's process table
    NoProc,
    MaxConcurrency      \* command_max_concurrency

ASSUME CommandAssumption ==
    /\ IsFiniteSet(Task)
    /\ NoProc \notin Proc
    /\ MaxConcurrency \in Nat

VARIABLES
    available,          \* permits of command_slots that nobody holds
    queue,              \* the steps waiting for a permit, in order
    granted,            \* waiting steps a permit is assigned to already
    pc,                 \* where each step is
    mine,               \* the child of each step
    proc,               \* what is alive of each process: its shell, its program
    expired,            \* the steps whose timeout has run out
    overflowed          \* the steps that read too much output, or failed to read

slots == <<available, queue, granted>>
vars == <<slots, pc, mine, proc, expired, overflowed>>

Slots == IF MaxConcurrency = 0 THEN 1 ELSE MaxConcurrency     \* max(1)

Holders == {t \in Task : pc[t] \in {"starting", "running", "releasing"}}

TypeOK ==
    /\ available \in 0 .. Slots
    /\ queue \in Seq(Task)
    /\ granted \subseteq Task
    /\ pc \in [Task -> {"idle", "waiting", "starting", "running", "releasing"}]
    /\ mine \in [Task -> Proc \cup {NoProc}]
    /\ proc \in [Proc -> SUBSET {"shell", "program"}]
    /\ expired \subseteq Task
    /\ overflowed \subseteq Task

Init ==
    /\ available = Slots
    /\ queue = <<>>
    /\ granted = {}
    /\ pc = [t \in Task |-> "idle"]
    /\ mine = [t \in Task |-> NoProc]
    /\ proc = [p \in Proc |-> {}]
    /\ expired = {}
    /\ overflowed = {}

GoTo(t, place) == pc' = [pc EXCEPT ![t] = place]

-----------------------------------------------------------------------------
(* The slots.                                                              *)

Acquire(t) ==
    /\ pc[t] = "idle"
    /\ IF available > 0
         THEN available' = available - 1 /\ GoTo(t, "starting") /\ UNCHANGED queue
         ELSE queue' = Append(queue, t) /\ GoTo(t, "waiting") /\ UNCHANGED available
    /\ UNCHANGED <<granted, mine, proc, expired, overflowed>>

\* A waiting step is polled and takes the permit assigned to it.
Acquired(t) ==
    /\ pc[t] = "waiting"
    /\ t \in granted
    /\ granted' = granted \ {t}
    /\ GoTo(t, "starting")
    /\ UNCHANGED <<available, queue, mine, proc, expired, overflowed>>

\* Mutants of Release: the last waiter is served first; a permit given up by a
\* waiter that left is lost with it.
ReleaseToLast(leaving) ==
    IF queue = <<>>
      THEN available' = available + 1 /\ queue' = queue /\ granted' = granted \ leaving
      ELSE /\ granted' = (granted \ leaving) \cup {queue[Len(queue)]}
           /\ queue' = SubSeq(queue, 1, Len(queue) - 1)
           /\ UNCHANGED available
ReleaseToLeaver(leaving) ==
    IF queue = <<>>
      THEN /\ available' = IF leaving = {} THEN available + 1 ELSE available
           /\ granted' = granted \ leaving
           /\ UNCHANGED queue
      ELSE /\ granted' = (granted \ leaving) \cup {Head(queue)}
           /\ queue' = Tail(queue)
           /\ UNCHANGED available

\* A permit comes back, from a holder or from the waiters leaving with theirs.
Release(leaving) ==
    IF queue = <<>>
      THEN available' = available + 1 /\ queue' = queue /\ granted' = granted \ leaving
      ELSE /\ granted' = (granted \ leaving) \cup {Head(queue)}
           /\ queue' = Tail(queue)
           /\ UNCHANGED available

-----------------------------------------------------------------------------
(* The child.                                                              *)

\* spawn fails when the process table is full, or for any other reason; the
\* permit is dropped on the way out.
SpawnFails(t) ==
    /\ pc[t] = "starting"
    /\ GoTo(t, "releasing")
    /\ UNCHANGED <<slots, mine, proc, expired, overflowed>>

Spawn(t) ==
    /\ pc[t] = "starting"
    /\ \E p \in Proc :
         /\ proc[p] = {}
         /\ p \notin {mine[u] : u \in Task}
         /\ proc' = [proc EXCEPT ![p] = {"shell", "program"}]
         /\ mine' = [mine EXCEPT ![t] = p]
    /\ GoTo(t, "running")
    /\ UNCHANGED <<slots, expired, overflowed>>

ShellExits(p) ==
    /\ "shell" \in proc[p]
    /\ proc' = [proc EXCEPT ![p] = @ \ {"shell"}]
    /\ UNCHANGED <<slots, pc, mine, expired, overflowed>>

ProgramExits(p) ==
    /\ "program" \in proc[p]
    /\ proc' = [proc EXCEPT ![p] = @ \ {"program"}]
    /\ UNCHANGED <<slots, pc, mine, expired, overflowed>>

\* read_limited gives up on a stream past max_output_bytes.
OutputOverflows(t) ==
    /\ pc[t] = "running"
    /\ overflowed' = overflowed \cup {t}
    /\ UNCHANGED <<slots, pc, mine, proc, expired>>

TimeoutExpires(t) ==
    /\ pc[t] = "running"
    /\ expired' = expired \cup {t}
    /\ UNCHANGED <<slots, pc, mine, proc, overflowed>>

\* Mutant of DropChild: the child outlives the future that awaited it.
LeaveChild(t) ==
    /\ mine' = [mine EXCEPT ![t] = NoProc]
    /\ UNCHANGED proc

\* kill_on_drop kills the shell, and nothing the shell has started.
DropChild(t) ==
    /\ proc' = [proc EXCEPT ![mine[t]] = @ \ {"shell"}]
    /\ mine' = [mine EXCEPT ![t] = NoProc]

\* The future of the work is dropped first, the permit after it.
EndWork(t) ==
    /\ DropChild(t)
    /\ GoTo(t, "releasing")
    /\ expired' = expired \ {t}
    /\ overflowed' = overflowed \ {t}
    /\ UNCHANGED slots

CommandFailed(t) ==
    /\ pc[t] = "running"
    /\ t \in overflowed
    /\ EndWork(t)

\* The shell has been waited for and both streams have ended.
CommandDone(t) ==
    /\ pc[t] = "running"
    /\ t \notin overflowed
    /\ proc[mine[t]] = {}
    /\ EndWork(t)

\* Mutant of TimedOut: a command that still writes is not timed out.
TimedOutSilent(t) ==
    /\ pc[t] = "running"
    /\ t \in expired \ overflowed
    /\ "program" \notin proc[mine[t]]
    /\ proc[mine[t]] # {}
    /\ EndWork(t)

\* timeout polls the work before it looks at the clock.
TimedOut(t) ==
    /\ pc[t] = "running"
    /\ t \in expired \ overflowed
    /\ proc[mine[t]] # {}
    /\ EndWork(t)

DropPermit(t) ==
    /\ pc[t] = "releasing"
    /\ Release({})
    /\ GoTo(t, "idle")
    /\ UNCHANGED <<mine, proc, expired, overflowed>>

-----------------------------------------------------------------------------
(* The step is dropped at an await: its client disconnects, or another     *)
(* step of its layer fails.                                                *)

\* s without its i-th element.
Without(s, i) == [j \in 1 .. (Len(s) - 1) |-> IF j < i THEN s[j] ELSE s[j + 1]]

DropWaiting(t) ==
    /\ pc[t] = "waiting"
    /\ t \notin granted
    /\ \E i \in 1 .. Len(queue) : queue[i] = t /\ queue' = Without(queue, i)
    /\ GoTo(t, "idle")
    /\ UNCHANGED <<available, granted, mine, proc, expired, overflowed>>

DropGranted(t) ==
    /\ pc[t] = "waiting"
    /\ t \in granted
    /\ Release({t})
    /\ GoTo(t, "idle")
    /\ UNCHANGED <<mine, proc, expired, overflowed>>

DropRunning(t) ==
    /\ pc[t] = "running"
    /\ EndWork(t)

-----------------------------------------------------------------------------
Runtime(t) ==
    \/ Acquired(t) \/ Spawn(t) \/ SpawnFails(t)
    \/ CommandFailed(t) \/ CommandDone(t) \/ TimedOut(t)
    \/ DropPermit(t)

Dropped(t) == DropWaiting(t) \/ DropGranted(t) \/ DropRunning(t)

Next ==
    \/ \E t \in Task : Acquire(t) \/ Runtime(t) \/ Dropped(t)
    \/ \E t \in Task : OutputOverflows(t) \/ TimeoutExpires(t)
    \/ \E p \in Proc : ShellExits(p) \/ ProgramExits(p)

\* The executor polls what is ready and the timer fires; nothing says that a
\* command exits.
Fairness ==
    \A t \in Task : WF_vars(Runtime(t)) /\ WF_vars(TimeoutExpires(t))

Spec == Init /\ [][Next]_vars /\ Fairness

-----------------------------------------------------------------------------
(* Properties.                                                             *)

\* The waiting steps are those in the queue and those a permit is assigned to,
\* each once.
QueueOfWaiters ==
    /\ \A i, j \in 1 .. Len(queue) : queue[i] = queue[j] => i = j
    /\ {queue[i] : i \in 1 .. Len(queue)} = {t \in Task : pc[t] = "waiting"} \ granted
    /\ granted \subseteq {t \in Task : pc[t] = "waiting"}

\* No slot is lost or made up, whatever fails, times out or is dropped, and no
\* step waits while a slot is free.
SlotsConserved ==
    /\ available + Cardinality(granted) + Cardinality(Holders) = Slots
    /\ QueueOfWaiters
    /\ queue # <<>> => available = 0

\* The steps that wait for a permit before t is served.
Ahead(t) == {queue[j] : j \in {i \in 1 .. Len(queue) : \E k \in 1 .. Len(queue) : i < k /\ queue[k] = t}}

\* Nobody overtakes a step that waits: who is served before it was ahead of it,
\* newcomers included, and only fewer steps come to be ahead of it, whoever else
\* is served, dropped or gives a permit back.
FirstComeFirstServed ==
    [][\A t \in {queue[i] : i \in 1 .. Len(queue)} \cap {queue'[i] : i \in 1 .. Len(queue')} :
         /\ Ahead(t)' \subseteq Ahead(t)
         /\ granted' \ granted \subseteq Ahead(t)
         /\ \A u \in Task : pc[u] = "idle" => pc'[u] # "starting"]_vars

\* At most command_max_concurrency shells run, those of abandoned steps included.
ShellsBounded == Cardinality({p \in Proc : "shell" \in proc[p]}) <= Slots

\* Every command step ends, even when no command ever exits and new steps keep
\* arriving.
EveryCommandSettles == \A t \in Task : pc[t] # "idle" ~> pc[t] = "idle"

\* At most command_max_concurrency commands execute concurrently.
CommandsBounded == Cardinality({p \in Proc : proc[p] # {}}) <= Slots
===============================================================================
