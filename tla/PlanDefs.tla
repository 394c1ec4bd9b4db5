------------------------------ MODULE PlanDefs ------------------------------
(***************************************************************************)
(* What an endpoint's execution plan is, as a function of the endpoint:    *)
(* the dependency sets of its steps and its sync boundaries.  The planner  *)
(* (src/planner.rs) computes it with a depth-first search and two loops,   *)
(* modelled step by step in PlanLayers; EndpointExecution runs the result. *)
(*                                                                         *)
(* A step is named by its index in source order.  A dependency graph is a  *)
(* function from each step to the set of steps whose variables it reads.   *)
(* A boundary b forces every step before b to end before any step from b   *)
(* on begins.                                                              *)
(***************************************************************************)
EXTENDS FiniteSetsExt, Sequences

CONSTANT N                          \* steps of the endpoint
ASSUME NAssumption == N \in Nat

Step == 0 .. (N - 1)

\* Every assignment of dependency sets the planner can be handed, `let a = a`
\* and mutual references included: names are resolved whatever their order.
Graphs == [Step -> SUBSET Step]

Larger(a, b) == IF a >= b THEN a ELSE b

\* The boundaries the parser records (grammar.lalrpop) for an endpoint of N
\* steps: one before a sync block that is not first, one between two steps of
\* a block, one after it.  An empty block makes any single index a boundary.
BoundarySets == SUBSET (1 .. N)

\* A set of steps each of which reads another step of the set, or itself.
HasCycle(graph) ==
    \E S \in (SUBSET Step) \ {{}} : \A s \in S : graph[s] \cap S # {}

\* Length of the longest chain of reads below each step of an acyclic graph.
ChainLength(graph) ==
    LET length[s \in Step] ==
          IF graph[s] = {} THEN 0 ELSE 1 + Max({length[d] : d \in graph[s]})
    IN  length

\* Depths after the boundaries are applied: a step after a boundary is deeper
\* than every step before the last boundary at or before it.
DepthsWithSync(base, boundaries) ==
    LET Before(s) == {b \in boundaries : b <= s}
        depth[s \in Step] ==
          IF Before(s) = {} THEN base[s]
          ELSE Larger(base[s], 1 + Max({depth[r] : r \in 0 .. (Max(Before(s)) - 1)}))
    IN  depth

\* The steps of each depth, shallowest first; a depth nobody has is an empty
\* layer.
LayersOfDepths(depths) ==
    IF N = 0 THEN << >>
    ELSE [k \in 1 .. (1 + Max({depths[s] : s \in Step})) |->
            {s \in Step : depths[s] = k - 1}]

PlanOf(graph, boundaries) ==
    LayersOfDepths(DepthsWithSync(ChainLength(graph), boundaries))

\* s and t are parted by a boundary: s ends before t begins.
Parted(boundaries, s, t) == \E b \in boundaries : s < b /\ b <= t

-----------------------------------------------------------------------------
(* What the runtime relies on in a plan: PlanLayers proves it of the        *)
(* planner's result, EndpointExecution assumes it of its input.             *)

PlacesEachStepOnce(plan) ==
    /\ \A s \in Step : \E k \in DOMAIN plan : s \in plan[k]
    /\ \A j, k \in DOMAIN plan : \A s \in plan[j] : s \in plan[k] => j = k

\* Steps a boundary parts are in different layers, in order.
PartsSteps(plan, boundaries) ==
    \A j, k \in DOMAIN plan : \A s \in plan[j], t \in plan[k] :
        Parted(boundaries, s, t) => j < k

\* Whatever a step reads is in an earlier layer.
CarriesReads(plan, graph) ==
    \A k \in DOMAIN plan : \A s \in plan[k] : \A d \in graph[s] :
        \E j \in 1 .. (k - 1) : d \in plan[j]

PlanContract(graph, boundaries, plan) ==
    /\ plan \in Seq(SUBSET Step)
    /\ PlacesEachStepOnce(plan)
    /\ PartsSteps(plan, boundaries)
    /\ boundaries = {} => CarriesReads(plan, graph)
=============================================================================
