----------------------------- MODULE FixedWindow -----------------------------
(***************************************************************************)
(* What the rate limiter promises: each client is admitted at most Limit   *)
(* times in a window of Window time units.  A window begins with its first *)
(* admission and is over, for a call, once the call's reading of the clock *)
(* is Window past it; readings can be MaxStall old.  A window that is over *)
(* for everyone can be forgotten.  A call that is refused changes nothing. *)
(***************************************************************************)
EXTENDS Integers

CONSTANTS Client, Limit, Window, MaxStall

VARIABLES
    clock,
    start,      \* when the client's window began; 0 when it has none
    spent       \* admissions in the client's window; 0 when it has none

window == <<clock, start, spent>>

WindowInit ==
    /\ clock = 0
    /\ start = [c \in Client |-> 0]
    /\ spent = [c \in Client |-> 0]

Over(c, reading) == spent[c] = 0 \/ reading >= start[c] + Window

Admit(c, reading) ==
    /\ reading <= clock /\ clock <= reading + MaxStall
    /\ IF Over(c, reading)
         THEN /\ spent' = [spent EXCEPT ![c] = 1]
              /\ start' = [start EXCEPT ![c] = reading]
         ELSE /\ spent[c] < Limit
              /\ spent' = [spent EXCEPT ![c] = @ + 1]
              /\ UNCHANGED start
    /\ UNCHANGED clock

\* Clean-ups forget several clients at once.
Forget ==
    /\ \E C \in SUBSET {c \in Client : Over(c, clock)} :
         /\ spent' = [c \in Client |-> IF c \in C THEN 0 ELSE spent[c]]
         /\ start' = [c \in Client |-> IF c \in C THEN 0 ELSE start[c]]
    /\ UNCHANGED clock

Tick ==
    /\ clock' = clock + 1
    /\ UNCHANGED <<start, spent>>

WindowNext ==
    \/ \E c \in Client, reading \in (clock - MaxStall) .. clock : Admit(c, reading)
    \/ Forget
    \/ Tick

WindowSpec == WindowInit /\ [][WindowNext]_window
=============================================================================
