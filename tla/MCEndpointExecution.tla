------------------------- MODULE MCEndpointExecution -------------------------
\* EndpointExecution on the plans PlanLayers computes.
EXTENDS EndpointExecution

Acyclic == {graph \in Graphs : (\A s \in Step : s \notin graph[s]) /\ ~HasCycle(graph)}

Planned(graph, boundaries) ==
    [reads |-> graph, sync |-> boundaries, plan |-> PlanOf(graph, boundaries)]

\* A boundary after the last step parts nothing and changes no plan.
MCEndpoints == {Planned(g, b) : g \in Acyclic, b \in SUBSET (1 .. (N - 1))}
=============================================================================
