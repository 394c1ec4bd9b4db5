------------------------------ MODULE RouteLaws ------------------------------
(***************************************************************************)
(* What a file's endpoints are served as, by RouteTable, and documented    *)
(* as, by export_openapi of src/export.rs, for every file of RouterCalls.  *)
(* It is the one family of LanguageLaws that needs no recursive operator.  *)
(***************************************************************************)
EXTENDS RouteTable

CONSTANTS
    RouterCalls,    \* pairs of a file and its operational paths
    RequestTexts    \* the texts requests are made of

\* A segment that is a text is not a lone colon: that is a parameter without a name.
Segment == [param : BOOLEAN, text : STRING]
PathsAsRead == {path \in Seq(Segment) : \A i \in DOMAIN path : ~path[i].param => path[i].text # NoName}
Declaration ==
    [method : STRING, path : Seq(Segment), status : Nat, limits : Seq([limit : Nat, unit : STRING])]

\* No text of a path is the new one.
FreshIsNew(endpoints) ==
    \A i \in DOMAIN endpoints : \A k \in DOMAIN endpoints[i].path :
      ~endpoints[i].path[k].param => endpoints[i].path[k].text # "fresh"

ASSUME RouterCallsAssumption ==
    \A call \in RouterCalls :
        /\ call[1].endpoints \in Seq(Declaration)
        /\ FreshIsNew(call[1].endpoints)
        /\ call[2] \in Seq(Seq(Segment)) /\ \A k \in DOMAIN call[2] : call[2][k] \in PathsAsRead

VARIABLES
    family,     \* what is called: the router, or another function of the language
    input       \* what it is called with; << >> before the call

Called(name) == family = name /\ input # << >>

CallRouter ==
    /\ family = "routes" /\ input = << >>
    /\ input' \in RouterCalls
    /\ UNCHANGED family

\* Whatever else is called is none of the router's business.
CallAnother == family # "routes" /\ UNCHANGED family

RouterSpec == input = << >> /\ [][CallRouter \/ CallAnother]_<<family, input>>

-----------------------------------------------------------------------------
(* export_openapi.                                                          *)

\* What is written for a path: names of parameters are put in braces.
openapi_path(path) ==
    [i \in DOMAIN path |-> IF path[i].param THEN <<"{", path[i].text, "}">> ELSE <<path[i].text>>]

\* The parameters listed for a path, in their order.
path_parameters(path) ==
    LET listed[n \in 0 .. Len(path)] ==
          IF n = 0 THEN << >>
          ELSE IF path[n].param /\ path[n].text # NoName THEN Append(listed[n - 1], path[n].text)
          ELSE listed[n - 1]
    IN  listed[Len(path)]

\* A later operation of the same path and method replaces an earlier one.
Operation(endpoints, path, method) ==
    LET here == {i \in DOMAIN endpoints : /\ openapi_path(endpoints[i].path) = path
                                          /\ endpoints[i].method = method}
    IN  CHOOSE i \in here : \A j \in here : j <= i

\* Every endpoint of an accepted file has its own operation, none is written over,
\* and the parameters it lists, each once, are the ones its steps find.
EveryRouteIsExported(file) ==
    validate_file(file) =>
      \A i \in DOMAIN file.endpoints :
        LET path == file.endpoints[i].path
            listed == path_parameters(path)
            names == {listed[k] : k \in DOMAIN listed}
        IN  /\ Operation(file.endpoints, openapi_path(path), file.endpoints[i].method) = i
            /\ names = DOMAIN PathParams(path, [k \in DOMAIN path |-> "u"])
            /\ Cardinality(names) = Len(listed)

-----------------------------------------------------------------------------
(* Properties.                                                              *)

\* For an accepted file the router fails for four reasons only: the variables of the
\* gateway, a pattern spelled two ways, a wildcard with credentials, the
\* operational paths.  Nothing else of what the validator accepts stops it.
AcceptedRoutersStart == Called("routes") => AcceptedFilesStart(input[1], input[2])

\* Each endpoint of a file that starts is reached by its own requests, with all its
\* parameters, no request has two endpoints, and each has an operation of its own
\* in the exported document.
RoutesAreServed ==
    Called("routes") =>
      /\ AcceptedRoutesAreServed(input[1], input[2], RequestTexts)
      /\ EveryRouteIsExported(input[1])
=============================================================================
