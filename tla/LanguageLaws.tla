---------------------------- MODULE LanguageLaws ----------------------------
(***************************************************************************)
(* The functions of the language applied to small inputs, one family after *)
(* another: pipes, names, constants, routes, edits and formatting.  Each   *)
(* behaviour is one call.  An input is a sequence of choices; what it      *)
(* stands for is spelled out per family.                                   *)
(***************************************************************************)
EXTENDS Exports, RouteLaws

Editor == INSTANCE EditorText

CONSTANTS
    MaxItems,       \* items of an array
    MaxCodes        \* pieces of the text of an endpoint

vars == <<family, input>>

Families == {"pipes", "steps", "constants", "routes", "edits", "formats"}
Init == family \in Families /\ input = << >>

Choices(n, k) == [1 .. n -> 1 .. k]

-----------------------------------------------------------------------------
(* Pipes: an array of items, a closure, a page size.                        *)

A == <<97>>
B == <<98>>
Pair(a, b) == Obj((A :> a) @@ (B :> b))
One == Float(10)
Corpus == <<One, Float(20), Integer(1), Float(100), Str(<<53>>), Str(B), Bool(TRUE), Null,
            Arr(<<One>>), Pair(One, Str(A)), Pair(One, Str(B))>>
Closures == <<Var("item"), Property(Var("item"), A), Property(Var("item"), B), Lit(One),
              MethodCall(Var("item"), "upper", << >>)>>

CallPipe ==
    /\ family = "pipes" /\ input = << >>
    /\ \E n \in 0 .. MaxItems : \E items \in Choices(n, Len(Corpus)) :
         \E closure \in DOMAIN Closures : \E size \in {2} \cup (IF closure = 1 THEN {1} ELSE {}) :
           input' = <<items, closure, size>>
    /\ UNCHANGED family

Items == [i \in DOMAIN input[1] |-> Corpus[input[1][i]]]

-----------------------------------------------------------------------------
(* Names: the steps of an endpoint, a body, an upstream that answers or not.*)

StepNames == <<"a", "b", "c", "g">>
StepOf(var, i) ==
    <<Let(var, Var("a")), Let(var, Var("b")), Let(var, BinaryOp(Var("g"), "+", Var("a"))),
      Let(var, Lit(One)), Command(var),
      PipeStep(var, Array(<<Lit(One), Lit(One)>>), <<Closure("filter", "a", Var("c")), NoneOp("count")>>),
      Let(var, Property(Object(A :> Var("b")), A)),
      Let(var, FunctionCall("string", <<Var("b")>>)),
      Let(var, MethodCall(Var("a"), "contains", <<Var("jwt")>>)),
      Call("fetch", var, <<Var("a")>>, <<Var("b")>>),
      Call("db", var, <<Var("g"), Var("p")>>, << >>),
      PipeStep(var, Array(<<Lit(One), Var("a")>>), <<Closure("map", "b", BinaryOp(Var("b"), "+", Var("g")))>>),
      PipeStep(var, Array(<<Lit(One), Lit(One)>>),
               <<Reduce("reduce", Var("a"), "a", "c", BinaryOp(Var("a"), "+", Var("c")))>>),
      PipeStep(var, Array(<<Lit(One), Lit(One)>>), <<ExprOp("take", Var("a")), NoneOp("first")>>)>>[i]
Bodies == <<BinaryOp(Var("a"), "+", FunctionCall("len", <<Var("b")>>)), Var("jwt")>>

CallSteps ==
    /\ family = "steps" /\ input = << >>
    /\ \/ \E names \in Choices(2, 4), steps \in Choices(2, 14), body \in DOMAIN Bodies, answered \in BOOLEAN :
            input' = <<names, steps, body, answered>>
       \/ \E names \in Choices(3, 3), steps \in Choices(3, 6) : input' = <<names, steps, 1, TRUE>>
    /\ UNCHANGED family

EndpointWith(steps, body) ==
    [params |-> {"p"}, rules |-> << >>, steps |-> steps, sync |-> {}, body |-> <<body>>,
     headers |-> << >>, cookies |-> << >>]
Steps == [i \in DOMAIN input[1] |-> StepOf(StepNames[input[1][i]], input[2][i])]
StepsEndpoint == EndpointWith(Steps, Bodies[input[3]])
StepsFile == [dbs |-> <<[name |-> "g", url |-> Str(A)]>>, constants |-> << >>,
              endpoints |-> <<StepsEndpoint>>]
RequestScope == [name \in {"p", "g", "query", "body"} |-> Str(B)]
StepScope == [name \in {"a", "b", "c", "g", "p"} |-> IF name = "a" THEN Float(20) ELSE Str(B)]

-----------------------------------------------------------------------------
(* Constants: their values in source order, one step, what is answered.     *)

ConstantNames == <<"g", "h", "k">>
ConstantValues == <<Lit(One), Var("g"), Var("h"), Var("k"), Property(Var("env"), A),
                    FunctionCall("len", <<Lit(One)>>)>>
ConstantReads == <<Var("g"), Var("h"), Var("a"), Lit(One)>>

CallConstants ==
    /\ family = "constants" /\ input = << >>
    /\ \E n \in 1 .. 3 : \E values \in Choices(n, Len(ConstantValues)) :
         \E reads \in Choices(2, Len(ConstantReads)), var \in {"a", "g"} : input' = <<values, reads, var>>
    /\ UNCHANGED family

ConstantsFile ==
    [dbs |-> << >>, env_file |-> <<[readable |-> TRUE, entries |-> Obj(A :> Str(B))]>>,
     constants |-> [i \in DOMAIN input[1] |-> [name |-> ConstantNames[i], value |-> ConstantValues[input[1][i]]]],
     endpoints |-> <<EndpointWith(<<Let(input[3], ConstantReads[input[2][1]])>>, ConstantReads[input[2][2]])>>]

-----------------------------------------------------------------------------
(* Routes: endpoints of a path and a method, CORS, operational paths, and   *)
(* what the gateway binds before them.                                      *)

Paths == {<<Text("u")>>, <<Param("x")>>, <<Param("y")>>, <<Text("u"), Param("x")>>, <<Param("x"), Text("v")>>,
          <<Text("u"), Text("v")>>, <<Param("y"), Param("x")>>}
OddPaths == {<<Param("x"), Param("x")>>, <<Param(NoName)>>, <<Text(Reserved)>>}
Declared(methods, paths) == [method : methods, path : paths, status : {200}, limits : {<< >>}]
CorsBlock(origins, methods, headers, expose_headers, credentials) ==
    [origins |-> origins, methods |-> methods, headers |-> headers,
     expose_headers |-> expose_headers, credentials |-> credentials]
CorsBlocks == {{}, {CorsBlock({"*"}, {"GET"}, {"h"}, {}, TRUE)}, {CorsBlock({"o"}, {}, {}, {}, FALSE)},
               {CorsBlock({"o"}, {"GET"}, {"h"}, {}, TRUE)}, {CorsBlock({"o"}, {"GET"}, {}, {}, TRUE)},
               {CorsBlock({"o"}, {"GET"}, {"h"}, {"*"}, TRUE)}}
OperationalPaths == {<< >>, <<<<Text("u")>>>>, <<<<Text("w")>>, <<Text("w")>>>>, <<<<Param("x")>>>>}

\* Constants with names that may be the same, reading one another, env and a database;
\* no env_file, one that is read, one that cannot be.
SmallConstants ==
    UNION {[1 .. n -> [name : {"g", "h"}, value : Elements(ConstantValues)]] : n \in 0 .. 2}
SmallEnvs == {<< >>, <<[readable |-> TRUE, entries |-> Obj(A :> Str(B))]>>,
              <<[readable |-> FALSE, entries |-> Obj(<< >>)]>>}
SmallDbs == {<< >>, <<[name |-> "k", url |-> Str(A)]>>}

SmallFiles(n, declared, cors) ==
    [port : {8080}, cors : cors, constants : {<< >>}, env_file : {<< >>}, dbs : {<< >>},
     endpoints : [1 .. n -> declared]]
BoundFiles ==
    [port : {8080}, cors : {{}}, constants : SmallConstants, env_file : SmallEnvs, dbs : SmallDbs,
     endpoints : [1 .. 1 -> Declared({"GET"}, {<<Text("u")>>, <<Param("x")>>})]]
SmallCalls ==
    (SmallFiles(2, Declared({"GET", "POST", "HEAD", "CONNECT"}, Paths \cup OddPaths), CorsBlocks)
       \X OperationalPaths)
    \cup (SmallFiles(3, Declared({"GET", "POST", "HEAD"}, Paths), {{}}) \X {<< >>})
    \cup (BoundFiles \X {<< >>, <<<<Text("u")>>>>})
GatewayBinds(file) == gateway_vars(file).ok
SmallTexts == {"u", "v", "w"}

-----------------------------------------------------------------------------
(* Edits and formats: pieces of the body of the first of two endpoints, and *)
(* a line between the gateway and them.                                     *)

Newline == Editor!Newline
Pieces == <<<<Newline>>, <<Editor!Quote>>, <<Editor!Backslash>>, <<Editor!Open>>, <<Editor!Close>>,
            <<Editor!Slashes>>, <<Space, Editor!Endpoint, Space>>, <<Editor!Step, Space>>, <<Editor!Letter>>,
            <<Newline, Editor!Letter, Editor!Quote, Editor!Backslash, Editor!Quote, Editor!Close, Editor!Quote>>>>
Between == <<<<Newline>>, <<Newline, Space, Newline, Newline>>,
             <<Editor!Slashes>> \o Editor!Header(Editor!Endpoint, <<Editor!Name(1)>>) \o <<Newline>>,
             <<Editor!Slashes, Editor!Endpoint, Editor!Letter, Newline>>>>

CallEditor ==
    /\ family \in {"edits", "formats"} /\ input = << >>
    /\ \E n \in 1 .. MaxCodes : \E pieces \in Choices(n, Len(Pieces)), between \in DOMAIN Between :
         /\ family = "formats" => between \in 1 .. 2
         /\ input' = <<pieces, between>>
    /\ UNCHANGED family

RECURSIVE Concatenated(_)
Concatenated(pieces) == IF pieces = << >> THEN << >> ELSE Pieces[Head(pieces)] \o Concatenated(Tail(pieces))
Body == Concatenated(input[1])
Source ==
    Editor!Header(Editor!Gateway, <<Editor!Name(0)>>)
      \o <<Space, Editor!Open, Newline, Editor!Letter, Newline, Editor!Close, Newline>>
      \o Between[input[2]] \o Editor!Header(Editor!Endpoint, <<Editor!Name(1)>>)
      \o <<Space, Editor!Open>> \o Body
      \o <<Newline, Editor!Step, Space, Editor!Letter, Newline, Editor!Respond, Editor!Close, Newline>>
      \o Editor!Header(Editor!Endpoint, <<Editor!Name(2)>>)
      \o <<Space, Editor!Open, Newline, Editor!Respond, Editor!Open, Editor!Close, Newline, Editor!Close>>

-----------------------------------------------------------------------------
Next == CallPipe \/ CallSteps \/ CallConstants \/ CallRouter \/ CallEditor

Spec == Init /\ [][Next]_vars

-----------------------------------------------------------------------------
(* Properties.                                                              *)

\* The pipe operations agree with one another: sorting is a stable permutation,
\* pages add up to the array, groups are filters, unique keeps one item of each
\* group, statistics are reductions; and arrays of one type of key are sorted by a
\* total order, which compare_json is not for numbers beside other keys.
PipesObeyTheirLaws ==
    Called("pipes") =>
      /\ PipeLaws(Items, "item", Closures[input[2]], input[3])
      /\ SortedByATotalOrder(Items, "item", Closures[input[2]])

\* The planner's reads of a step are all its value depends on, whatever else is in
\* scope and whatever its closures bind, and no name it needs is missing from
\* them; the edges of the exported graph are these reads.
ReadsAreAllThereIs ==
    Called("steps") =>
      \A i \in DOMAIN Steps :
        /\ \A names \in {DOMAIN StepScope, {}, {"a", "g"}} :
             StepNeedsOnlyItsReads(Steps[i], Restrict(StepScope, names), input[4])
        /\ EdgesAreReads(Steps[i], {"len", "string"})

\* Running the planned layers answers what the file says when it is read as a set of
\* definitions: no order of the source, no layer and no parallel step shows.
LayersComputeWhatIsMeant ==
    Called("steps") => LayersComputeTheMeaning(StepsEndpoint, StepsFile, RequestScope, input[4])

\* An endpoint is accepted exactly when every name it needs can be computed, so that
\* no accepted request fails for a name and no computable endpoint is turned away.
AcceptedIsComputable == Called("steps") => AcceptsWhatIsComputable(StepsEndpoint, StepsFile)

\* Following the linter's advice and deleting an unused constant changes no plan, no
\* start of the gateway that went well, and no answer.
UnusedConstantsAreUnused ==
    Called("constants") =>
      \A answered \in BOOLEAN :
        UnusedConstantsCanGo(ConstantsFile, RequestScope, answered)

\* An edit of the visual editor stays inside the block it is for, as long as comments
\* and strings hold nothing that looks like a block.
EditsStayInside ==
    (Called("edits") /\ Editor!IsBody(Body)) =>
      /\ \A n \in 0 .. 1 : Editor!EditsStayInTheirEndpoint(Source, n, <<Editor!Name(n + 1)>>)
      /\ Editor!GatewayEditKeepsEndpoints(Source, <<Editor!Name(0)>>, <<Editor!Name(9), Editor!Letter>>,
                                          <<Editor!Letter, Editor!Open, Editor!Close>>)

\* A saved file stays as it is when it is saved again or checked by the fmt command;
\* formatting adds and takes away white space only, none of it inside a token unless
\* a string goes over several lines.
FormatsSettle ==
    Called("formats") => Editor!FormattingSettles(IF input[2] = 1 THEN Body ELSE Source)
=============================================================================
