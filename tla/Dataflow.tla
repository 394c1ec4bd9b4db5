------------------------------ MODULE Dataflow ------------------------------
(***************************************************************************)
(* What running an endpoint promises, without layers or tasks: each step   *)
(* runs at most once, on the values of everything it reads, and the        *)
(* response is built from the values of all the steps.                     *)
(*                                                                         *)
(* A value is the set of steps it was computed from, its own step          *)
(* included; {} is an unset variable.                                      *)
(***************************************************************************)
EXTENDS PlanDefs

VARIABLES
    reads,      \* the endpoint's dependency graph
    vars,       \* the value of each step's variable
    culprit,    \* {s} when step s ended the request with its error
    outcome     \* "running" | "responded" | "failed" | "dropped"

flow == <<reads, vars, culprit, outcome>>

Bound(values) == {s \in Step : values[s] # {}}

\* The value of a step evaluated on the given variables.
ValueOn(s, graph, values) == {s} \cup UNION {values[d] : d \in graph[s]}

FlowInit ==
    /\ reads \in {graph \in Graphs : ~HasCycle(graph)}
    /\ vars = [s \in Step |-> {}]
    /\ culprit = {}
    /\ outcome = "running"

Ready(s) == s \notin Bound(vars) /\ reads[s] \subseteq Bound(vars)

Finish(s) ==
    /\ outcome = "running"
    /\ Ready(s)
    /\ vars' = [vars EXCEPT ![s] = ValueOn(s, reads, vars)]
    /\ UNCHANGED <<reads, culprit, outcome>>

\* A step fails only once it has everything it reads.
Fail(s) ==
    /\ outcome = "running"
    /\ Ready(s)
    /\ culprit' = {s}
    /\ outcome' = "failed"
    /\ UNCHANGED <<reads, vars>>

\* The response is evaluated on all the variables, which may fail.
Respond ==
    /\ outcome = "running"
    /\ Bound(vars) = Step
    /\ outcome' \in {"responded", "failed"}
    /\ UNCHANGED <<reads, vars, culprit>>

Drop ==
    /\ outcome = "running"
    /\ outcome' = "dropped"
    /\ UNCHANGED <<reads, vars, culprit>>

FlowNext == (\E s \in Step : Finish(s) \/ Fail(s)) \/ Respond \/ Drop

FlowSpec == FlowInit /\ [][FlowNext]_flow
=============================================================================
