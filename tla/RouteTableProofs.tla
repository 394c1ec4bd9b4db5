-------------------------- MODULE RouteTableProofs --------------------------
(***************************************************************************)
(* The checks of the validator and of the router compared, and the         *)
(* dispatch of requests, for files of any length with any names.           *)
(***************************************************************************)
EXTENDS RouteLaws, FiniteSetTheorems, WellFoundedInduction, TLAPS

\* The paths a text can be read as: a lone colon is a parameter without a name.
IsPath(path) == \A i \in DOMAIN path : path[i].param \in BOOLEAN /\ (~path[i].param => path[i].text # NoName)

\* The operational paths are a list, and so are the endpoints.
IsList(list) == \E n \in Nat : DOMAIN list = 1 .. n

\* An accepted endpoint is one the runtime accepts too.
LEMMA EndpointsPass ==
    ASSUME NEW endpoints, IsList(endpoints), validate_endpoints(endpoints), NEW i \in DOMAIN endpoints
    PROVE  /\ validate_runtime_route(endpoints[i].path)
           /\ endpoints[i].method \in AxumMethods
           /\ ~\E j \in 1 .. (i - 1) :
                 /\ endpoints[j].method = endpoints[i].method
                 /\ route_pattern(endpoints[j].path) = route_pattern(endpoints[i].path)
<1>1. validate_endpoint_path(endpoints[i].path) /\ endpoints[i].method \in AxumMethods
  BY DEF validate_endpoints
<1>2. validate_runtime_route(endpoints[i].path)
  BY <1>1 DEF validate_endpoint_path, validate_runtime_route
<1>3. ASSUME NEW j \in 1 .. (i - 1)
      PROVE  \/ endpoints[j].method # endpoints[i].method
             \/ route_pattern(endpoints[j].path) # route_pattern(endpoints[i].path)
  <2>1. j \in DOMAIN endpoints /\ j # i
    BY DEF IsList
  <2> QED
    BY <2>1 DEF validate_endpoints, UniqueRoutes
<1> QED
  BY <1>1, <1>2, <1>3

\* No path is a panic exactly when every pattern is spelled one way.
LEMMA SpellingsPass ==
    ASSUME NEW endpoints, IsList(endpoints)
    PROVE  (\A i \in DOMAIN endpoints :
              axum_route({endpoints[j].path : j \in 1 .. (i - 1)}, endpoints[i].path))
           <=> OneSpelling(endpoints)
<1>1. PICK n \in Nat : DOMAIN endpoints = 1 .. n
  BY DEF IsList
<1>2. ASSUME OneSpelling(endpoints), NEW i \in DOMAIN endpoints
      PROVE  axum_route({endpoints[j].path : j \in 1 .. (i - 1)}, endpoints[i].path)
  <2>1. \A j \in 1 .. (i - 1) : j \in DOMAIN endpoints
    BY <1>1
  <2> QED
    BY <1>2, <2>1 DEF axum_route, OneSpelling
<1>3. ASSUME \A i \in DOMAIN endpoints :
               axum_route({endpoints[j].path : j \in 1 .. (i - 1)}, endpoints[i].path),
             NEW i \in DOMAIN endpoints, NEW j \in DOMAIN endpoints,
             route_pattern(endpoints[i].path) = route_pattern(endpoints[j].path)
      PROVE  endpoints[i].path = endpoints[j].path
  <2>1. i = j \/ j \in 1 .. (i - 1) \/ i \in 1 .. (j - 1)
    BY <1>1
  <2>2. CASE j \in 1 .. (i - 1)
    BY <1>3, <2>2 DEF axum_route
  <2>3. CASE i \in 1 .. (j - 1)
    BY <1>3, <2>3 DEF axum_route
  <2> QED
    BY <2>1, <2>2, <2>3
<1> QED
  BY <1>2, <1>3 DEF OneSpelling

\* The operational paths are accepted exactly when they are static paths of their own.
LEMMA OperationalPass ==
    ASSUME NEW endpoints, NEW operational, IsList(operational), \A k \in DOMAIN operational : IsPath(operational[k])
    PROVE  add_operational_routes(endpoints, operational)
           <=> /\ \A k \in DOMAIN operational :
                    /\ validate_runtime_route(operational[k]) /\ ParamsOf(operational[k]) = {}
                    /\ \A i \in DOMAIN endpoints :
                         endpoints[i].method = "GET" => endpoints[i].path # operational[k]
               /\ \A j, k \in DOMAIN operational : j # k => operational[j] # operational[k]
<1>1. PICK n \in Nat : DOMAIN operational = 1 .. n
  BY DEF IsList
<1>2. ASSUME NEW k \in DOMAIN operational
      PROVE  (\A s \in DOMAIN operational[k] : ~operational[k][s].param /\ operational[k][s].text # Reserved)
             <=> validate_runtime_route(operational[k]) /\ ParamsOf(operational[k]) = {}
  BY DEF validate_runtime_route, ParamsOf, IsPath
<1>3. (\A k \in DOMAIN operational : \A j \in 1 .. (k - 1) : operational[j] # operational[k])
      <=> (\A j, k \in DOMAIN operational : j # k => operational[j] # operational[k])
  <2>1. \A k \in DOMAIN operational : \A j \in 1 .. (k - 1) : j \in DOMAIN operational /\ j # k
    BY <1>1
  <2>2. \A j, k \in DOMAIN operational : j # k => j \in 1 .. (k - 1) \/ k \in 1 .. (j - 1)
    BY <1>1
  <2> QED
    BY <2>1, <2>2
<1> QED
  BY <1>2, <1>3 DEF add_operational_routes

\* Starting: whatever an accepted file says, the router is built or fails for one of four
\* reasons: an env_file that cannot be read or a constant that cannot be evaluated, a
\* pattern spelled two ways, a wildcard with credentials that the validator does not
\* know of, an operational path that is no static path of its own.
THEOREM AcceptedFilesOnlyFailKnowingly ==
    ASSUME NEW file, NEW operational, IsList(file.endpoints), IsList(operational),
           \A k \in DOMAIN operational : IsPath(operational[k])
    PROVE  AcceptedFilesStart(file, operational)
<1> DEFINE ends == file.endpoints
           BadEndpoint(i) ==
             \/ ~validate_runtime_route(ends[i].path)
             \/ \E j \in 1 .. (i - 1) : /\ ends[j].method = ends[i].method
                                        /\ route_pattern(ends[j].path) = route_pattern(ends[i].path)
             \/ ends[i].method \notin AxumMethods
           PanicAt(i) == ~axum_route({ends[j].path : j \in 1 .. (i - 1)}, ends[i].path)
           stops == {i \in DOMAIN ends : BadEndpoint(i) \/ PanicAt(i)}
           own == /\ \A k \in DOMAIN operational :
                       /\ validate_runtime_route(operational[k]) /\ ParamsOf(operational[k]) = {}
                       /\ \A i \in DOMAIN ends : ends[i].method = "GET" => ends[i].path # operational[k]
                  /\ \A j, k \in DOMAIN operational : j # k => operational[j] # operational[k]
<1>1. add_operational_routes(ends, operational) <=> own
  BY OperationalPass
<1> SUFFICES ASSUME validate_file(file)
             PROVE  router(file, operational) = "ok"
                    <=> VarsBound(file) /\ OneSpelling(ends) /\ cors_layer(file.cors) /\ own
  BY DEF AcceptedFilesStart
<1>2. ASSUME NEW i \in DOMAIN ends PROVE ~BadEndpoint(i)
  <2>1. validate_endpoints(file.endpoints)
    BY DEF validate_file
  <2>2. validate_endpoints(ends) /\ IsList(ends)
    BY <2>1
  <2>3. /\ validate_runtime_route(ends[i].path)
        /\ ends[i].method \in AxumMethods
        /\ ~\E j \in 1 .. (i - 1) : /\ ends[j].method = ends[i].method
                                    /\ route_pattern(ends[j].path) = route_pattern(ends[i].path)
    <3> HIDE DEF ends
    <3> QED
      BY <2>2, EndpointsPass, Zenon
  <2> QED
    BY <2>3
<1>3. stops = {} <=> OneSpelling(ends)
  BY <1>2, SpellingsPass
<1>4. router(file, operational) = "ok"
      <=> /\ VarsBound(file) /\ stops = {}
          /\ add_operational_routes(ends, operational) /\ cors_layer(file.cors)
  BY DEF router
<1> QED
  BY <1>1, <1>3, <1>4

-----------------------------------------------------------------------------
(* Dispatch.  A path is more specific than another by the leftmost place    *)
(* where only one of them has a text, which orders the paths a request      *)
(* matches, so that one of them comes first.                                *)

\* Paths one request matches, of any texts.
Rivals(p, q, segments) ==
    /\ p \in Seq(Segment) /\ q \in Seq(Segment)
    /\ Matches(p, segments) /\ Matches(q, segments)

LEMMA LeastPlace ==
    ASSUME NEW T \in SUBSET Nat, T # {}
    PROVE  \E x \in T : \A y \in T : ~(y < x)
<1> DEFINE R == OpToRel(<, Nat)
<1>1. \A y, x \in Nat : <<y, x>> \in R <=> y < x
  BY DEF OpToRel
<1>2. IsWellFoundedOn(R, Nat)
  BY NatLessThanWellFounded
<1> HIDE DEF R
<1>3. PICK x \in T : \A y \in T : ~(<<y, x>> \in R)
  BY <1>2, WFMin
<1> QED
  BY <1>1, <1>3

LEMMA RoutesHaveSegments ==
    ASSUME NEW p \in Seq(Segment)
    PROVE  /\ DOMAIN p = 1 .. Len(p) /\ Len(p) \in Nat
           /\ \A i \in DOMAIN p : p[i] \in Segment /\ p[i].param \in BOOLEAN
<1>1. DOMAIN p = 1 .. Len(p) /\ Len(p) \in Nat
  OBVIOUS
<1>2. ASSUME NEW i \in DOMAIN p PROVE p[i] \in Segment
  OBVIOUS
<1> QED
  BY <1>1, <1>2 DEF Segment

LEMMA RivalsAreAlike ==
    ASSUME NEW p, NEW q, NEW segments, Rivals(p, q, segments)
    PROVE  /\ DOMAIN p = DOMAIN q
           /\ DOMAIN p = 1 .. Len(p) /\ Len(p) \in Nat
           /\ \A i \in DOMAIN p : /\ p[i] \in Segment /\ q[i] \in Segment
                                  /\ p[i].param \in BOOLEAN /\ q[i].param \in BOOLEAN
<1>1. p \in Seq(Segment) /\ q \in Seq(Segment)
  BY DEF Rivals
<1>2. DOMAIN p = DOMAIN q
  BY DEF Rivals, Matches
<1> QED
  BY <1>1, <1>2, RoutesHaveSegments

\* Rivals with their parameters in the same places differ in names only.
LEMMA SamePlacesSamePattern ==
    ASSUME NEW p, NEW q, NEW segments, Rivals(p, q, segments),
           \A i \in DOMAIN p : p[i].param = q[i].param
    PROVE  route_pattern(p) = route_pattern(q)
<1>1. /\ DOMAIN p = DOMAIN q
      /\ \A i \in DOMAIN p : p[i] \in Segment /\ q[i] \in Segment
  BY RivalsAreAlike
<1>2. ASSUME NEW i \in DOMAIN p, ~p[i].param PROVE p[i] = q[i]
  <2>1. p[i].text = q[i].text
    BY <1>1, <1>2 DEF Rivals, Matches
  <2> QED
    BY <1>1, <2>1 DEF Segment
<1>3. \A i \in DOMAIN p : (IF p[i].param THEN Param("") ELSE p[i]) = (IF q[i].param THEN Param("") ELSE q[i])
  BY <1>2
<1> QED
  BY <1>1, <1>3 DEF route_pattern

\* Of two rivals of different patterns one is more specific.
LEMMA OneIsMoreSpecific ==
    ASSUME NEW p, NEW q, NEW segments, Rivals(p, q, segments), route_pattern(p) # route_pattern(q)
    PROVE  MoreSpecific(p, q) \/ MoreSpecific(q, p)
<1> DEFINE T == {i \in DOMAIN p : p[i].param # q[i].param}
<1>1. /\ DOMAIN p = DOMAIN q
      /\ DOMAIN p = 1 .. Len(p) /\ Len(p) \in Nat
      /\ \A i \in DOMAIN p : p[i].param \in BOOLEAN /\ q[i].param \in BOOLEAN
  BY RivalsAreAlike
<1>2. T # {}
  BY SamePlacesSamePattern
<1>3. T \in SUBSET Nat
  BY <1>1
<1>4. PICK i \in T : \A j \in T : ~(j < i)
  <2> HIDE DEF T
  <2> QED
    BY <1>2, <1>3, LeastPlace
<1>X2. \A j \in 1 .. (i - 1) : p[j].param = q[j].param /\ q[j].param = p[j].param
  BY <1>1, <1>4
<1>6. i \in DOMAIN p /\ i \in DOMAIN q /\ p[i].param # q[i].param
  BY <1>1, <1>4
<1> QED
  BY <1>1, <1>X2, <1>6 DEF MoreSpecific

\* No two paths are each more specific than the other, and none than itself.
LEMMA SpecificOneWay ==
    ASSUME NEW p \in Seq(Segment), NEW q \in Seq(Segment), DOMAIN p = DOMAIN q,
           MoreSpecific(p, q), MoreSpecific(q, p)
    PROVE  FALSE
<1>1. PICK i \in DOMAIN p : /\ ~p[i].param /\ q[i].param
                            /\ \A j \in 1 .. (i - 1) : p[j].param = q[j].param
  BY DEF MoreSpecific
<1>2. PICK k \in DOMAIN q : /\ ~q[k].param /\ p[k].param
                            /\ \A j \in 1 .. (k - 1) : q[j].param = p[j].param
  BY DEF MoreSpecific
<1>3. DOMAIN p = 1 .. Len(p) /\ Len(p) \in Nat
  OBVIOUS
<1>4. i = k \/ i \in 1 .. (k - 1) \/ k \in 1 .. (i - 1)
  BY <1>3
<1> QED
  BY <1>1, <1>2, <1>4

LEMMA SpecificTransitive ==
    ASSUME NEW p \in Seq(Segment), NEW q \in Seq(Segment), NEW r \in Seq(Segment),
           DOMAIN p = DOMAIN q, DOMAIN q = DOMAIN r, MoreSpecific(p, q), MoreSpecific(q, r)
    PROVE  MoreSpecific(p, r)
<1>1. PICK i \in DOMAIN p : /\ ~p[i].param /\ q[i].param
                            /\ \A j \in 1 .. (i - 1) : p[j].param = q[j].param
  BY DEF MoreSpecific
<1>2. PICK k \in DOMAIN q : /\ ~q[k].param /\ r[k].param
                            /\ \A j \in 1 .. (k - 1) : q[j].param = r[j].param
  BY DEF MoreSpecific
<1>3. DOMAIN p = 1 .. Len(p) /\ Len(p) \in Nat
  OBVIOUS
<1>4. CASE i < k
  <2>1. r[i].param
    BY <1>1, <1>2, <1>3, <1>4
  <2>2. \A j \in 1 .. (i - 1) : p[j].param = r[j].param
    BY <1>1, <1>2, <1>3, <1>4
  <2> QED
    BY <1>1, <2>1, <2>2 DEF MoreSpecific
<1>X2. CASE k < i
  <2>1. ~p[k].param
    BY <1>1, <1>2, <1>3, <1>X2
  <2>2. \A j \in 1 .. (k - 1) : p[j].param = r[j].param
    BY <1>1, <1>2, <1>3, <1>X2
  <2> QED
    BY <1>2, <2>1, <2>2 DEF MoreSpecific
<1>6. i # k
  BY <1>1, <1>2
<1> QED
  BY <1>3, <1>4, <1>X2, <1>6

\* Among finitely many paths of which of any two one is more specific, one is more
\* specific than all others: one with fewest before it has none.
LEMMA FirstPath ==
    ASSUME NEW F \in SUBSET Seq(Segment), F # {}, IsFiniteSet(F),
           \A p, q \in F : DOMAIN p = DOMAIN q,
           \A p, q \in F : p # q => MoreSpecific(p, q) \/ MoreSpecific(q, p)
    PROVE  \E p \in F : \A q \in F \ {p} : MoreSpecific(p, q)
<1> DEFINE Before(p) == {q \in F : MoreSpecific(q, p)}
           All == {Before(p) : p \in F}
<1>1. All # {} /\ All \subseteq FiniteSubsetsOf(F)
  <2>1. ASSUME NEW p \in F PROVE Before(p) \in SUBSET F /\ IsFiniteSet(Before(p))
    BY FS_Subset
  <2> QED
    BY <2>1 DEF FiniteSubsetsOf
<1>2. PICK least \in All : \A other \in All : ~(<<other, least>> \in StrictSubsetOrdering(F))
  <2>1. IsWellFoundedOn(StrictSubsetOrdering(F), FiniteSubsetsOf(F))
    BY FS_StrictSubsetOrderingWellFounded
  <2> HIDE DEF All
  <2> QED
    BY <1>1, <2>1, WFMin
<1>3. PICK p \in F : least = Before(p)
  OBVIOUS
<1>4. ASSUME NEW q \in F, MoreSpecific(q, p) PROVE FALSE
  <2>1. Before(q) \subseteq Before(p)
    BY <1>4, SpecificTransitive
  <2>2. q \in Before(p) /\ q \notin Before(q)
    BY <1>4, SpecificOneWay
  <2>3. <<Before(q), Before(p)>> \in StrictSubsetOrdering(F)
    BY <2>1, <2>2 DEF StrictSubsetOrdering
  <2> QED
    BY <1>2, <1>3, <2>3
<1> QED
  BY <1>4

\* What of an accepted file that starts the dispatch rests on.
Started(endpoints) ==
    /\ IsList(endpoints)
    /\ \A i \in DOMAIN endpoints : endpoints[i].path \in Seq(Segment)
    /\ UniqueRoutes(endpoints) /\ OneSpelling(endpoints)

Fitting(file, segments) ==
    {p \in {file.endpoints[i].path : i \in DOMAIN file.endpoints} : Matches(p, segments)}

LEMMA StartsWhenServed ==
    ASSUME NEW file, NEW operational, IsList(file.endpoints),
           \A i \in DOMAIN file.endpoints : file.endpoints[i].path \in Seq(Segment),
           validate_file(file), router(file, operational) = "ok"
    PROVE  Started(file.endpoints)
<1>1. UniqueRoutes(file.endpoints)
  BY DEF validate_file, validate_endpoints
<1>2. \A i \in DOMAIN file.endpoints :
        axum_route({file.endpoints[j].path : j \in 1 .. (i - 1)}, file.endpoints[i].path)
  BY DEF router
<1>3. OneSpelling(file.endpoints)
  <2> DEFINE ends == file.endpoints
  <2>1. IsList(ends) /\ \A i \in DOMAIN ends : axum_route({ends[j].path : j \in 1 .. (i - 1)}, ends[i].path)
    BY <1>2
  <2> HIDE DEF ends
  <2>2. OneSpelling(ends)
    BY <2>1, SpellingsPass, Zenon
  <2> QED
    BY <2>2 DEF ends
<1> QED
  BY <1>1, <1>3 DEF Started

\* Of two of them that a request matches one is more specific.
LEMMA FittingCompare ==
    ASSUME NEW file, Started(file.endpoints), NEW segments,
           NEW p \in Fitting(file, segments), NEW q \in Fitting(file, segments)
    PROVE  /\ p \in Seq(Segment) /\ Matches(p, segments)
           /\ DOMAIN p = DOMAIN q
           /\ p # q => MoreSpecific(p, q) \/ MoreSpecific(q, p)
           /\ ~(MoreSpecific(p, q) /\ MoreSpecific(q, p))
<1>1. PICK i \in DOMAIN file.endpoints : p = file.endpoints[i].path
  BY DEF Fitting
<1>2. PICK j \in DOMAIN file.endpoints : q = file.endpoints[j].path
  BY DEF Fitting
<1>3. Rivals(p, q, segments)
  BY <1>1, <1>2 DEF Rivals, Fitting, Started
<1>4. p # q => route_pattern(p) # route_pattern(q)
  BY <1>1, <1>2 DEF Started, OneSpelling
<1>X2. p \in Seq(Segment) /\ q \in Seq(Segment) /\ Matches(p, segments) /\ DOMAIN p = DOMAIN q
  BY <1>3, RivalsAreAlike DEF Rivals
<1> QED
  BY <1>3, <1>4, <1>X2, OneIsMoreSpecific, SpecificOneWay

LEMMA BestIsFitting ==
    ASSUME NEW file, NEW segments
    PROVE  BestPath(file, segments)
             = {p \in Fitting(file, segments) : \A q \in Fitting(file, segments) \ {p} : MoreSpecific(p, q)}
BY DEF BestPath, Fitting

LEMMA BestIsOne ==
    ASSUME NEW file, Started(file.endpoints), NEW segments,
           NEW p \in BestPath(file, segments), NEW q \in BestPath(file, segments)
    PROVE  p = q
<1>1. /\ p \in Fitting(file, segments) /\ q \in Fitting(file, segments)
      /\ p # q => MoreSpecific(p, q) /\ MoreSpecific(q, p)
  BY BestIsFitting
<1> QED
  BY <1>1, FittingCompare

\* A request that some path matches has a best one.
LEMMA BestExists ==
    ASSUME NEW file, Started(file.endpoints), NEW segments, NEW p \in Fitting(file, segments)
    PROVE  \E q \in BestPath(file, segments) : q = p \/ MoreSpecific(q, p)
<1> DEFINE F == Fitting(file, segments)
           paths == {file.endpoints[i].path : i \in DOMAIN file.endpoints}
<1>1. IsFiniteSet(F)
  <2>1. PICK n \in Nat : DOMAIN file.endpoints = 1 .. n
    BY DEF Started, IsList
  <2>2. IsFiniteSet(DOMAIN file.endpoints)
    BY <2>1, FS_Interval
  <2> DEFINE path(i) == file.endpoints[i].path
             place == [i \in DOMAIN file.endpoints |-> file.endpoints[i].path]
  <2>3. place \in Surjection(DOMAIN file.endpoints, paths)
    BY DEF Surjection
  <2>4. IsFiniteSet(paths)
    <3> HIDE DEF place, paths
    <3> QED
      BY <2>2, <2>3, FS_Surjection
  <2>5. F \in SUBSET paths
    BY DEF Fitting
  <2> HIDE DEF F, paths
  <2> QED
    BY <2>4, <2>5, FS_Subset
<1>2. /\ F \in SUBSET Seq(Segment) /\ F # {}
      /\ \A a, b \in F : DOMAIN a = DOMAIN b
      /\ \A a, b \in F : a # b => MoreSpecific(a, b) \/ MoreSpecific(b, a)
  BY FittingCompare
<1>3. PICK q \in F : \A r \in F \ {q} : MoreSpecific(q, r)
  <2> HIDE DEF F
  <2> QED
    BY <1>1, <1>2, FirstPath
<1>4. q \in BestPath(file, segments)
  BY <1>3, BestIsFitting
<1> QED
  BY <1>3, <1>4

\* A request runs one endpoint at most, and only one that it matches.
LEMMA OneIsRun ==
    ASSUME NEW file, Started(file.endpoints), NEW method, NEW segments,
           NEW i \in Dispatched(file, method, segments)
    PROVE  /\ i \in DOMAIN file.endpoints
           /\ Matches(file.endpoints[i].path, segments)
           /\ Dispatched(file, method, segments) = {i}
<1> DEFINE On(m) == {k \in DOMAIN file.endpoints : /\ file.endpoints[k].path \in BestPath(file, segments)
                                                   /\ file.endpoints[k].method = m}
<1>1. PICK m : Dispatched(file, method, segments) = On(m)
  <2>1. Dispatched(file, method, segments)
          = IF On(method) = {} /\ method = "HEAD" THEN On("GET") ELSE On(method)
    BY DEF Dispatched
  <2> QED
    BY <2>1
<1>2. i \in On(m)
  BY <1>1
<1>3. ASSUME NEW k \in On(m) PROVE k = i
  <2>1. file.endpoints[k].path = file.endpoints[i].path
    BY <1>2, <1>3, BestIsOne
  <2> QED
    BY <1>2, <1>3, <2>1 DEF Started, UniqueRoutes
<1>4. Matches(file.endpoints[i].path, segments)
  BY <1>2, BestIsFitting DEF Fitting
<1> QED
  BY <1>1, <1>2, <1>3, <1>4

-----------------------------------------------------------------------------
(* The texts in the places of parameters.                                   *)

Fresh(path) == [i \in DOMAIN path |-> IF path[i].param THEN "fresh" ELSE path[i].text]

\* With new texts for parameters no other path is as specific.
LEMMA OwnRequestIsBest ==
    ASSUME NEW file, Started(file.endpoints), FreshIsNew(file.endpoints), NEW e \in DOMAIN file.endpoints
    PROVE  file.endpoints[e].path \in BestPath(file, Fresh(file.endpoints[e].path))
<1> DEFINE path == file.endpoints[e].path
           fresh == Fresh(path)
<1>1. path \in Fitting(file, fresh)
  BY DEF Fitting, Matches, Fresh
<1>2. ASSUME NEW q \in Fitting(file, fresh), q # path PROVE MoreSpecific(path, q)
  <2>1. MoreSpecific(path, q) \/ MoreSpecific(q, path)
    <3> HIDE DEF path, fresh
    <3> QED
      BY <1>1, <1>2, FittingCompare
  <2>2. ASSUME NEW i \in DOMAIN q, ~q[i].param, path[i].param PROVE FALSE
    <3>1. PICK j \in DOMAIN file.endpoints : q = file.endpoints[j].path
      BY DEF Fitting
    <3>2. DOMAIN q = DOMAIN fresh /\ q[i].text = fresh[i]
      BY <2>2 DEF Fitting, Matches
    <3>3. fresh[i] = "fresh"
      BY <2>2, <3>2 DEF Fresh
    <3> QED
      BY <2>2, <3>1, <3>2, <3>3 DEF FreshIsNew
  <2>3. ~MoreSpecific(q, path)
    BY <2>2 DEF MoreSpecific
  <2> QED
    BY <2>1, <2>3
<1> QED
  BY <1>1, <1>2, BestIsFitting

\* Each parameter has a binding of its own.
LEMMA EveryParameterIsBound ==
    ASSUME NEW path \in Seq(Segment), validate_endpoint_path(path), NEW segments
    PROVE  Cardinality(DOMAIN PathParams(path, segments)) = Cardinality(ParamsOf(path))
<1> DEFINE name == [i \in ParamsOf(path) |-> path[i].text]
           names == {path[i].text : i \in ParamsOf(path)}
<1>1. IsFiniteSet(ParamsOf(path))
  <2>1. DOMAIN path = 1 .. Len(path) /\ Len(path) \in Nat
    BY RoutesHaveSegments
  <2>2. IsFiniteSet(DOMAIN path)
    BY <2>1, FS_Interval
  <2>3. ParamsOf(path) \in SUBSET DOMAIN path
    BY DEF ParamsOf
  <2> QED
    BY <2>2, <2>3, FS_Subset
<1>2. name \in Surjection(ParamsOf(path), names)
  BY DEF Surjection
<1>3. name \in Injection(ParamsOf(path), names)
  <2>1. \A i, j \in ParamsOf(path) : i # j => path[i].text # path[j].text
    BY DEF validate_endpoint_path
  <2>2. name \in [ParamsOf(path) -> names]
    OBVIOUS
  <2>3. \A i, j \in ParamsOf(path) : name[i] = name[j] => i = j
    BY <2>1
  <2> QED
    BY <2>2, <2>3 DEF Injection, IsInjective
<1>4. Cardinality(names) = Cardinality(ParamsOf(path))
  <2> HIDE DEF name, names
  <2> QED
    BY <1>1, <1>2, <1>3, FS_Surjection
<1> QED
  BY <1>4 DEF PathParams

\* Dispatch: whatever an accepted file that starts says, each of its endpoints is the
\* one its own requests run, with every parameter bound, no request has two
\* endpoints, and one an endpoint matches is run by none only when a more specific path
\* lacks its method.
THEOREM AcceptedRoutesReachTheirEndpoints ==
    ASSUME NEW file, NEW operational, NEW texts, IsList(file.endpoints),
           \A i \in DOMAIN file.endpoints : file.endpoints[i].path \in Seq(Segment),
           FreshIsNew(file.endpoints)
    PROVE  AcceptedRoutesAreServed(file, operational, texts)
<1> SUFFICES ASSUME validate_file(file), router(file, operational) = "ok", NEW e \in DOMAIN file.endpoints
             PROVE  LET endpoint == file.endpoints[e]
                        path == endpoint.path
                        fresh == [i \in DOMAIN path |-> IF path[i].param THEN "fresh" ELSE path[i].text]
                    IN  /\ Dispatched(file, endpoint.method, fresh) = {e}
                        /\ \A segments \in [DOMAIN path -> texts] :
                             LET run == Dispatched(file, endpoint.method, segments)
                             IN  /\ Cardinality(run) <= 1
                                 /\ (Matches(path, segments) /\ run = {}) =>
                                      \E q \in BestPath(file, segments) : MoreSpecific(q, path)
                                 /\ run = {e} =>
                                      /\ Matches(path, segments)
                                      /\ Cardinality(DOMAIN PathParams(path, segments))
                                           = Cardinality(ParamsOf(path))
  BY DEF AcceptedRoutesAreServed
<1> DEFINE method == file.endpoints[e].method
           path == file.endpoints[e].path
<1>1. Started(file.endpoints)
  BY StartsWhenServed
<1>2. ASSUME NEW segments, path \in BestPath(file, segments)
      PROVE  Dispatched(file, method, segments) = {e}
  <2>1. e \in Dispatched(file, method, segments)
    BY <1>2 DEF Dispatched
  <2> HIDE DEF method
  <2> QED
    BY <1>1, <2>1, OneIsRun
<1>3. Dispatched(file, method, Fresh(path)) = {e}
  BY <1>1, <1>2, OwnRequestIsBest
<1>4. path \in Seq(Segment) /\ validate_endpoint_path(path)
  <2>1. validate_endpoints(file.endpoints)
    BY DEF validate_file
  <2> QED
    BY <2>1 DEF validate_endpoints
<1>5. ASSUME NEW segments
      PROVE  /\ Cardinality(Dispatched(file, method, segments)) <= 1
             /\ (Matches(path, segments) /\ Dispatched(file, method, segments) = {}) =>
                  \E q \in BestPath(file, segments) : MoreSpecific(q, path)
             /\ Dispatched(file, method, segments) = {e} =>
                  /\ Matches(path, segments)
                  /\ Cardinality(DOMAIN PathParams(path, segments)) = Cardinality(ParamsOf(path))
  <2>1. Cardinality(Dispatched(file, method, segments)) <= 1
    <3>1. CASE Dispatched(file, method, segments) = {}
      BY <3>1, FS_EmptySet
    <3>2. CASE \E i : i \in Dispatched(file, method, segments)
      <4>1. PICK i \in Dispatched(file, method, segments) : TRUE
        BY <3>2
      <4>3. Dispatched(file, method, segments) = {i}
        <5> HIDE DEF method
        <5> QED
          BY <1>1, OneIsRun
      <4>2. Cardinality({i}) = 1
        BY FS_Singleton
      <4> QED
        BY <4>3, <4>2
    <3> QED
      BY <3>1, <3>2
  <2>2. ASSUME Matches(path, segments), Dispatched(file, method, segments) = {}
        PROVE  \E q \in BestPath(file, segments) : MoreSpecific(q, path)
    <3>1. path \in Fitting(file, segments)
      BY <2>2 DEF Fitting
    <3>2. PICK q \in BestPath(file, segments) : q = path \/ MoreSpecific(q, path)
      BY <1>1, <3>1, BestExists
    <3>3. ASSUME path \in BestPath(file, segments) PROVE FALSE
      <4>1. Dispatched(file, method, segments) = {e}
        BY <1>2, <3>3
      <4> QED
        BY <2>2, <4>1
    <3> QED
      BY <3>2, <3>3
  <2>3. ASSUME Dispatched(file, method, segments) = {e}
        PROVE  Matches(path, segments)
    <3>1. e \in Dispatched(file, method, segments)
      BY <2>3
    <3> HIDE DEF method
    <3> QED
      BY <1>1, <3>1, OneIsRun
  <2>4. Cardinality(DOMAIN PathParams(path, segments)) = Cardinality(ParamsOf(path))
    BY <1>4, EveryParameterIsBound
  <2> QED
    BY <2>1, <2>2, <2>3, <2>4
<1> QED
  BY <1>3, <1>5 DEF Fresh

-----------------------------------------------------------------------------
(* The exported document.                                                   *)

\* Two paths are written alike only when they are one.
LEMMA WrittenApart ==
    ASSUME NEW p \in Seq(Segment), NEW q \in Seq(Segment), openapi_path(p) = openapi_path(q)
    PROVE  p = q
<1>1. DOMAIN p = DOMAIN q
  BY DEF openapi_path
<1>2. ASSUME NEW i \in DOMAIN p PROVE p[i] = q[i]
  <2>1. p[i] \in Segment /\ q[i] \in Segment
    BY <1>1, RoutesHaveSegments
  <2>2. openapi_path(p)[i] = IF p[i].param THEN <<"{", p[i].text, "}">> ELSE <<p[i].text>>
    BY DEF openapi_path
  <2>3. openapi_path(q)[i] = IF q[i].param THEN <<"{", q[i].text, "}">> ELSE <<q[i].text>>
    BY <1>1 DEF openapi_path
  <2>4. p[i].param \in BOOLEAN /\ q[i].param \in BOOLEAN
    BY <1>1, RoutesHaveSegments
  <2>5. \A s, t : <<"{", s, "}">> # <<t>>
    OBVIOUS
  <2>6. p[i].param = q[i].param
    BY <2>2, <2>3, <2>4, <2>5
  <2>7. p[i].text = q[i].text
    <3>1. \A s, t : <<"{", s, "}">> = <<"{", t, "}">> => s = t
      OBVIOUS
    <3>2. \A s, t : <<s>> = <<t>> => s = t
      OBVIOUS
    <3> QED
      BY <2>2, <2>3, <2>4, <2>6, <3>1, <3>2
  <2> QED
    BY <2>1, <2>6, <2>7 DEF Segment
<1> QED
  BY <1>1, <1>2, RoutesHaveSegments

\* The parameters listed when the first n segments have been read.
Extend(path, n, list) ==
    IF path[n].param /\ path[n].text # NoName THEN Append(list, path[n].text) ELSE list
IsListing(path, n, f) == f = [k \in 0 .. n |-> IF k = 0 THEN << >> ELSE Extend(path, k, f[k - 1])]

LEMMA ListingExists ==
    ASSUME NEW path, NEW n \in Nat
    PROVE  \E f : IsListing(path, n, f)
<1> DEFINE T == {m \in Nat : ~\E f : IsListing(path, m, f)}
<1>1. SUFFICES ASSUME T # {} PROVE FALSE
  OBVIOUS
<1>2. PICK m \in T : \A y \in T : ~(y < m)
  <2>1. T \in SUBSET Nat
    OBVIOUS
  <2> HIDE DEF T
  <2> QED
    BY <1>1, <2>1, LeastPlace
<1>3. CASE m = 0
  <2>1. IsListing(path, 0, [k \in 0 .. 0 |-> << >>])
    BY DEF IsListing
  <2> QED
    BY <1>2, <1>3, <2>1
<1>4. CASE m # 0
  <2>1. m \in Nat /\ m - 1 \in Nat /\ m - 1 < m
    BY <1>2, <1>4
  <2>2. PICK f : IsListing(path, m - 1, f)
    BY <1>2, <2>1
  <2> DEFINE g == [k \in 0 .. m |-> IF k = m THEN Extend(path, m, f[m - 1]) ELSE f[k]]
  <2>3. ASSUME NEW k \in 0 .. m
        PROVE  g[k] = IF k = 0 THEN << >> ELSE Extend(path, k, g[k - 1])
    <3>1. CASE k = m
      BY <2>1, <3>1, <1>4
    <3>2. CASE k # m
      <4>1. k \in 0 .. (m - 1) /\ (k # 0 => k - 1 \in 0 .. (m - 1) /\ k - 1 # m)
        BY <2>1, <3>2
      <4>2. f[k] = IF k = 0 THEN << >> ELSE Extend(path, k, f[k - 1])
        BY <2>2, <4>1 DEF IsListing
      <4> QED
        BY <2>1, <3>2, <4>1, <4>2
    <3> QED
      BY <3>1, <3>2
  <2>4. IsListing(path, m, g)
    <3>1. g = [k \in 0 .. m |-> g[k]]
      OBVIOUS
    <3> HIDE DEF g
    <3> QED
      BY <2>3, <3>1 DEF IsListing
  <2> QED
    BY <1>2, <2>4
<1> QED
  BY <1>3, <1>4

\* What is listed of the first n segments: their parameters, each once.
Lists(path, n, list) ==
    /\ list \in Seq(STRING)
    /\ {list[k] : k \in DOMAIN list} = {path[i].text : i \in {j \in ParamsOf(path) : j <= n}}
    /\ \A j, k \in DOMAIN list : list[j] = list[k] => j = k

LEMMA ExtendLists ==
    ASSUME NEW path \in Seq(Segment), validate_endpoint_path(path), NEW n \in DOMAIN path,
           NEW list, Lists(path, n - 1, list)
    PROVE  Lists(path, n, Extend(path, n, list))
<1>1. path[n].param \in BOOLEAN /\ path[n].text \in STRING /\ n \in Nat /\ DOMAIN path \subseteq Nat
  BY RoutesHaveSegments DEF Segment
<1>2. path[n].text # NoName
  BY DEF validate_endpoint_path
<1>3. CASE ~path[n].param
  <2>1. {j \in ParamsOf(path) : j <= n} = {j \in ParamsOf(path) : j <= n - 1}
    BY <1>1, <1>3 DEF ParamsOf
  <2> QED
    BY <1>3, <2>1 DEF Lists, Extend
<1>4. CASE path[n].param
  <2> DEFINE text == path[n].text
             longer == Append(list, text)
  <2>1. Extend(path, n, list) = longer
    BY <1>2, <1>4 DEF Extend
  <2>2. /\ longer \in Seq(STRING) /\ Len(list) \in Nat /\ DOMAIN list = 1 .. Len(list)
        /\ DOMAIN longer = 1 .. (Len(list) + 1)
        /\ \A k \in DOMAIN list : longer[k] = list[k]
        /\ longer[Len(list) + 1] = text
    BY <1>1 DEF Lists
  <2>3. {longer[k] : k \in DOMAIN longer} = {list[k] : k \in DOMAIN list} \cup {text}
    <3> HIDE DEF longer, text
    <3>1. \A k : k \in DOMAIN longer <=> k \in DOMAIN list \/ k = Len(list) + 1
      BY <2>2
    <3>2. \A k \in DOMAIN longer : longer[k] \in {list[j] : j \in DOMAIN list} \cup {text}
      BY <2>2, <3>1
    <3>3. text \in {longer[k] : k \in DOMAIN longer}
      BY <2>2, <3>1
    <3>4. \A k \in DOMAIN list : list[k] \in {longer[j] : j \in DOMAIN longer}
      BY <2>2, <3>1
    <3> QED
      BY <3>2, <3>3, <3>4
  <2>4. {j \in ParamsOf(path) : j <= n} = {j \in ParamsOf(path) : j <= n - 1} \cup {n}
    BY <1>1, <1>4 DEF ParamsOf
  <2>5. {path[i].text : i \in {j \in ParamsOf(path) : j <= n}}
        = {path[i].text : i \in {j \in ParamsOf(path) : j <= n - 1}} \cup {text}
    BY <2>4
  <2>6. \A i \in {j \in ParamsOf(path) : j <= n - 1} : path[i].text # text
    <3>1. n \in ParamsOf(path)
      BY <1>4 DEF ParamsOf
    <3>2. \A i \in ParamsOf(path) : i <= n - 1 => i # n
      BY <1>1 DEF ParamsOf
    <3> QED
      BY <3>1, <3>2 DEF validate_endpoint_path
  <2>7. text \notin {list[k] : k \in DOMAIN list}
    BY <2>6 DEF Lists
  <2>8. \A k \in DOMAIN list : list[k] # text
    BY <2>7
  <2>9. ASSUME NEW j \in DOMAIN longer, NEW k \in DOMAIN longer, longer[j] = longer[k] PROVE j = k
    <3> HIDE DEF longer, text
    <3> QED
      BY <2>2, <2>8, <2>9 DEF Lists
  <2>10. Lists(path, n, longer)
    <3> HIDE DEF longer, text
    <3> QED
      BY <2>2, <2>3, <2>5, <2>9 DEF Lists
  <2> QED
    BY <2>1, <2>10
<1> QED
  BY <1>1, <1>3, <1>4

\* The document lists the parameters of a path, each once.
LEMMA ParametersAreListed ==
    ASSUME NEW path \in Seq(Segment), validate_endpoint_path(path)
    PROVE  /\ path_parameters(path) \in Seq(STRING)
           /\ {path_parameters(path)[k] : k \in DOMAIN path_parameters(path)}
              = {path[i].text : i \in ParamsOf(path)}
           /\ \A j, k \in DOMAIN path_parameters(path) :
                path_parameters(path)[j] = path_parameters(path)[k] => j = k
<1> DEFINE f == CHOOSE f : IsListing(path, Len(path), f)
           T == {m \in 0 .. Len(path) : ~Lists(path, m, f[m])}
<1>1. DOMAIN path = 1 .. Len(path) /\ Len(path) \in Nat
  BY RoutesHaveSegments
<1>2. path_parameters(path) = f[Len(path)]
  BY DEF path_parameters, IsListing, Extend
<1>3. IsListing(path, Len(path), f)
  BY <1>1, ListingExists
<1> HIDE DEF f
<1>4. ASSUME T # {} PROVE FALSE
  <2>1. T \in SUBSET Nat
    BY <1>1
  <2>2. PICK m \in T : \A y \in T : ~(y < m)
    <3> HIDE DEF T
    <3> QED
      BY <1>4, <2>1, LeastPlace
  <2>3. CASE m = 0
    <3>1. f[0] = << >>
      BY <1>1, <1>3 DEF IsListing
    <3>2. {j \in ParamsOf(path) : j <= 0} = {}
      BY <1>1 DEF ParamsOf
    <3>3. Lists(path, 0, << >>)
      BY <3>2 DEF Lists
    <3> QED
      BY <2>2, <2>3, <3>1, <3>3
  <2>4. CASE m # 0
    <3>1. m - 1 \in 0 .. Len(path) /\ m \in DOMAIN path /\ m - 1 < m /\ m \in 0 .. Len(path)
      BY <1>1, <2>2, <2>4
    <3>2. Lists(path, m - 1, f[m - 1])
      BY <2>2, <3>1
    <3>3. f[m] = Extend(path, m, f[m - 1])
      BY <1>3, <2>4, <3>1 DEF IsListing
    <3>4. Lists(path, m, f[m])
      BY <3>1, <3>2, <3>3, ExtendLists
    <3> QED
      BY <2>2, <3>4
  <2> QED
    BY <2>3, <2>4
<1>5. Lists(path, Len(path), f[Len(path)])
  BY <1>1, <1>4
<1>6. {j \in ParamsOf(path) : j <= Len(path)} = ParamsOf(path)
  BY <1>1 DEF ParamsOf
<1> QED
  BY <1>2, <1>5, <1>6 DEF Lists

\* The document: every endpoint of an accepted file has an operation of its own, and the
\* parameters it lists are the ones the endpoint's steps find.
THEOREM AcceptedRoutesAreExported ==
    ASSUME NEW file, IsList(file.endpoints),
           \A i \in DOMAIN file.endpoints : file.endpoints[i].path \in Seq(Segment)
    PROVE  EveryRouteIsExported(file)
<1> SUFFICES ASSUME validate_file(file), NEW i \in DOMAIN file.endpoints
             PROVE  LET path == file.endpoints[i].path
                        listed == path_parameters(path)
                        names == {listed[k] : k \in DOMAIN listed}
                    IN  /\ Operation(file.endpoints, openapi_path(path), file.endpoints[i].method) = i
                        /\ names = DOMAIN PathParams(path, [k \in DOMAIN path |-> "u"])
                        /\ Cardinality(names) = Len(listed)
  BY DEF EveryRouteIsExported
<1> DEFINE path == file.endpoints[i].path
           listed == path_parameters(path)
           names == {listed[k] : k \in DOMAIN listed}
           here == {j \in DOMAIN file.endpoints :
                      /\ openapi_path(file.endpoints[j].path) = openapi_path(path)
                      /\ file.endpoints[j].method = file.endpoints[i].method}
<1>1. path \in Seq(Segment) /\ validate_endpoint_path(path)
  BY DEF validate_file, validate_endpoints
<1>2. here = {i}
  <2>1. ASSUME NEW j \in here PROVE j = i
    <3>1. file.endpoints[j].path = path
      BY <1>1, WrittenApart
    <3> QED
      BY <3>1 DEF validate_file, validate_endpoints, UniqueRoutes
  <2> QED
    BY <2>1
<1>3. Operation(file.endpoints, openapi_path(path), file.endpoints[i].method)
      = CHOOSE j \in here : \A k \in here : k <= j
  BY DEF Operation
<1>4. Operation(file.endpoints, openapi_path(path), file.endpoints[i].method) = i
  <2>1. i <= i
    BY DEF IsList
  <2> QED
    BY <1>2, <1>3, <2>1
<1>5. names = DOMAIN PathParams(path, [k \in DOMAIN path |-> "u"])
  <2>1. DOMAIN PathParams(path, [k \in DOMAIN path |-> "u"]) = {path[k].text : k \in ParamsOf(path)}
    BY DEF PathParams
  <2> HIDE DEF path
  <2> QED
    BY <1>1, <2>1, ParametersAreListed
<1>6. Cardinality(names) = Len(listed)
  <2>1. listed \in Seq(STRING) /\ \A j, k \in DOMAIN listed : listed[j] = listed[k] => j = k
    <3> HIDE DEF path
    <3> QED
      BY <1>1, ParametersAreListed
  <2> HIDE DEF listed
  <2>2. Len(listed) \in Nat /\ DOMAIN listed = 1 .. Len(listed)
    BY <2>1
  <2>3. IsFiniteSet(DOMAIN listed) /\ Cardinality(DOMAIN listed) = Len(listed)
    <3>1. PICK n \in Nat : n = Len(listed) /\ DOMAIN listed = 1 .. n
      BY <2>2
    <3>2. IsFiniteSet(1 .. n) /\ Cardinality(1 .. n) = n
      BY FS_Interval
    <3> QED
      BY <3>1, <3>2
  <2> DEFINE name == [k \in DOMAIN listed |-> listed[k]]
  <2>4. name \in Surjection(DOMAIN listed, names)
    BY DEF Surjection
  <2>5. name \in Injection(DOMAIN listed, names)
    <3>1. name \in [DOMAIN listed -> names] /\ DOMAIN name = DOMAIN listed
      OBVIOUS
    <3>2. \A j, k \in DOMAIN listed : name[j] = name[k] => j = k
      BY <2>1
    <3> HIDE DEF name, names
    <3> QED
      BY <3>1, <3>2 DEF Injection, IsInjective
  <2> HIDE DEF name, names
  <2> QED
    BY <2>3, <2>4, <2>5, FS_Surjection
<1> QED
  BY <1>4, <1>5, <1>6

-----------------------------------------------------------------------------
(* The calls of the router.                                                 *)

\* What is known of the files and operational paths of a call.
LEMMA CallFacts ==
    ASSUME NEW call \in RouterCalls
    PROVE  /\ IsList(call[1].endpoints) /\ FreshIsNew(call[1].endpoints)
           /\ \A i \in DOMAIN call[1].endpoints : call[1].endpoints[i].path \in Seq(Segment)
           /\ IsList(call[2]) /\ \A k \in DOMAIN call[2] : IsPath(call[2][k])
<1>1. /\ call[1].endpoints \in Seq(Declaration) /\ FreshIsNew(call[1].endpoints)
      /\ call[2] \in Seq(Seq(Segment)) /\ \A k \in DOMAIN call[2] : call[2][k] \in PathsAsRead
  BY RouterCallsAssumption
<1>2. ASSUME NEW S, NEW list \in Seq(S) PROVE IsList(list) /\ \A i \in DOMAIN list : list[i] \in S
  BY DEF IsList
<1>3. IsList(call[1].endpoints) /\ \A i \in DOMAIN call[1].endpoints : call[1].endpoints[i] \in Declaration
  BY <1>1, <1>2
<1>4. \A i \in DOMAIN call[1].endpoints : call[1].endpoints[i].path \in Seq(Segment)
  BY <1>3 DEF Declaration
<1>5. IsList(call[2])
  BY <1>1, <1>2
<1>6. ASSUME NEW path \in PathsAsRead PROVE IsPath(path)
  BY RoutesHaveSegments DEF PathsAsRead, IsPath
<1> QED
  BY <1>1, <1>3, <1>4, <1>5, <1>6

LEMMA CallsAreRouterCalls == RouterSpec => [](Called("routes") => input \in RouterCalls)
<1> DEFINE RouterInv == Called("routes") => input \in RouterCalls
<1>1. input = << >> => RouterInv
  BY DEF Called
<1>2. RouterInv /\ [CallRouter \/ CallAnother]_<<family, input>> => RouterInv'
  BY DEF Called, CallRouter, CallAnother
<1> QED
  BY <1>1, <1>2, PTL DEF RouterSpec

\* Whatever files there are, an accepted one whose router is not built fails for one of the
\* four reasons.
THEOREM RoutersStart == RouterSpec => []AcceptedRoutersStart
<1>1. ASSUME NEW call \in RouterCalls PROVE AcceptedFilesStart(call[1], call[2])
  <2>1. PICK file, operational : file = call[1] /\ operational = call[2]
    OBVIOUS
  <2>2. /\ IsList(file.endpoints) /\ IsList(operational)
        /\ \A k \in DOMAIN operational : IsPath(operational[k])
    BY <2>1, CallFacts
  <2>3. AcceptedFilesStart(file, operational)
    BY <2>2, AcceptedFilesOnlyFailKnowingly
  <2> QED
    BY <2>1, <2>3
<1>2. (Called("routes") => input \in RouterCalls) => AcceptedRoutersStart
  BY <1>1 DEF AcceptedRoutersStart
<1> QED
  BY <1>2, CallsAreRouterCalls, PTL

\* Whatever files there are, and whatever texts requests are made of, the routes of one that
\* starts are served and documented.
THEOREM RoutesServed == RouterSpec => []RoutesAreServed
<1>1. ASSUME NEW call \in RouterCalls
      PROVE  /\ AcceptedRoutesAreServed(call[1], call[2], RequestTexts)
             /\ EveryRouteIsExported(call[1])
  <2>1. PICK file, operational : file = call[1] /\ operational = call[2]
    OBVIOUS
  <2>2. /\ IsList(file.endpoints) /\ FreshIsNew(file.endpoints)
        /\ \A i \in DOMAIN file.endpoints : file.endpoints[i].path \in Seq(Segment)
    BY <2>1, CallFacts
  <2>3. AcceptedRoutesAreServed(file, operational, RequestTexts)
    BY <2>2, AcceptedRoutesReachTheirEndpoints
  <2>4. EveryRouteIsExported(file)
    BY <2>2, AcceptedRoutesAreExported
  <2> QED
    BY <2>1, <2>3, <2>4
<1>2. (Called("routes") => input \in RouterCalls) => RoutesAreServed
  BY <1>1 DEF RoutesAreServed
<1> QED
  BY <1>2, CallsAreRouterCalls, PTL
=============================================================================
