----------------------------- MODULE RouteTable -----------------------------
(***************************************************************************)
(* From an accepted file to the routes that are served: the checks of      *)
(* src/validator.rs, Runtime::router and what it calls (src/runtime/mod.rs)*)
(* with the router library axum and the layer of tower-http.               *)
(*                                                                         *)
(* A path is a sequence of segments; a segment is a text or, after a       *)
(* colon, a parameter.  The name of a parameter is in Names or it is none, *)
(* the text of a segment is in Texts or has a brace or a star in it.       *)
(* Whether the gateway's variables can be bound is a parameter, which      *)
(* NameResolution gives.                                                   *)
(***************************************************************************)
EXTENDS Integers, Sequences, FiniteSets

\* Whether gateway_vars binds the variables of a file, or ends with an error: an env_file
\* that cannot be read, a constant that cannot be evaluated.
CONSTANT VarsBound(_)

Text(text) == [param |-> FALSE, text |-> text]
Param(name) == [param |-> TRUE, text |-> name]

Reserved == "{*}"
NoName == ":"

AxumMethods == {"GET", "POST", "PUT", "PATCH", "DELETE", "HEAD", "OPTIONS", "TRACE"}

\* What two paths have in common when the router cannot tell them apart, but
\* for the names of their parameters.
route_pattern(path) == [i \in DOMAIN path |-> IF path[i].param THEN Param("") ELSE path[i]]

ParamsOf(path) == {i \in DOMAIN path : path[i].param}

-----------------------------------------------------------------------------
(* Validator.                                                               *)

\* Mutants of validate_endpoint_path: a parameter without a name, a name twice.
PathAnyName(path) ==
    /\ \A i \in DOMAIN path : path[i].text # Reserved
    /\ \A i, j \in ParamsOf(path) : i # j => path[i].text # path[j].text
PathRepeats(path) == \A i \in DOMAIN path : path[i].text \notin {Reserved, NoName}

validate_endpoint_path(path) ==
    /\ \A i \in DOMAIN path : path[i].text \notin {Reserved, NoName}
    /\ \A i, j \in ParamsOf(path) : i # j => path[i].text # path[j].text

UniqueRoutes(endpoints) ==
    \A i, j \in DOMAIN endpoints : i # j =>
       \/ endpoints[i].method # endpoints[j].method
       \/ route_pattern(endpoints[i].path) # route_pattern(endpoints[j].path)

validate_endpoints(endpoints) ==
    /\ UniqueRoutes(endpoints)
    /\ \A i \in DOMAIN endpoints :
         /\ validate_endpoint_path(endpoints[i].path)
         /\ endpoints[i].method \in AxumMethods
         /\ endpoints[i].status \in 100 .. 599
         /\ \A l \in DOMAIN endpoints[i].limits :
              endpoints[i].limits[l].limit # 0 /\ endpoints[i].limits[l].unit \in {"rps", "rpm", "rph"}

\* cors is empty, or has the one block of the gateway.  Its lists are sets, and "*"
\* may be among them.
validate_cors(cors) ==
    \A c \in cors : /\ c.origins # {}
                    /\ c.credentials => "*" \notin c.origins

ValidPort(port) == port \in 1 .. 65535

validate_unique_symbols(declared) ==
    \A i, j \in DOMAIN declared : i # j => declared[i].name # declared[j].name

\* Files that are named exist; what is in them is not looked at.
validate_gateway(file) ==
    /\ ValidPort(file.port)
    /\ validate_cors(file.cors)
    /\ validate_unique_symbols(file.constants)
    /\ validate_unique_symbols(file.dbs)

validate_file(file) ==
    /\ validate_gateway(file)
    /\ validate_endpoints(file.endpoints)

-----------------------------------------------------------------------------
(* Router.                                                                  *)

validate_runtime_route(path) == \A i \in DOMAIN path : path[i].text \notin {Reserved, NoName}

\* MethodRouter: one path, text for text, gets the methods of all its
\* endpoints; a path that differs from one before it in names only is a panic.
axum_route(routes, path) ==
    ~\E r \in routes : r # path /\ route_pattern(r) = route_pattern(path)

\* Whether any is allowed: none listed is any for methods and headers.
cors_allow_origin(origins) == "*" \in origins
cors_allow_methods(methods) == methods = {} \/ "*" \in methods
cors_allow_headers(headers) == headers = {} \/ "*" \in headers
cors_expose_headers(headers) == "*" \in headers

\* tower-http panics on credentials with any of them.
cors_layer(cors) ==
    \A c \in cors : c.credentials =>
       ~(\/ cors_allow_origin(c.origins) \/ cors_allow_methods(c.methods)
         \/ cors_allow_headers(c.headers) \/ cors_expose_headers(c.expose_headers))

\* The health, readiness and metrics paths must be static paths of their own.
add_operational_routes(endpoints, operational) ==
    \A k \in DOMAIN operational :
       /\ \A s \in DOMAIN operational[k] : ~operational[k][s].param /\ operational[k][s].text # Reserved
       /\ \A i \in DOMAIN endpoints : endpoints[i].method = "GET" => endpoints[i].path # operational[k]
       /\ \A j \in 1 .. (k - 1) : operational[j] # operational[k]

\* The router of a file, or how building it ends: an error of the runtime, a
\* panic of a library.  The variables of the gateway are bound first; endpoints are
\* added in their order, then the operational paths, then the layer.
router(file, operational) ==
    LET ends == file.endpoints
        BadEndpoint(i) ==
            \/ ~validate_runtime_route(ends[i].path)
            \/ \E j \in 1 .. (i - 1) : /\ ends[j].method = ends[i].method
                                       /\ route_pattern(ends[j].path) = route_pattern(ends[i].path)
            \/ ends[i].method \notin AxumMethods
        PanicAt(i) == ~axum_route({ends[j].path : j \in 1 .. (i - 1)}, ends[i].path)
        stops == {i \in DOMAIN ends : BadEndpoint(i) \/ PanicAt(i)}
        first == CHOOSE i \in stops : \A j \in stops : i <= j
    IN  IF ~VarsBound(file) THEN "error"
        ELSE IF stops # {} THEN (IF BadEndpoint(first) THEN "error" ELSE "panic")
        ELSE IF ~add_operational_routes(ends, operational) THEN "error"
        ELSE IF ~cors_layer(file.cors) THEN "panic"
        ELSE "ok"

-----------------------------------------------------------------------------
(* Dispatch, by axum.  A request is a method and a sequence of texts.       *)

Matches(path, segments) ==
    /\ DOMAIN path = DOMAIN segments
    /\ \A i \in DOMAIN path : IF path[i].param THEN segments[i] # "" ELSE path[i].text = segments[i]

\* Texts are preferred to parameters, from the left.
MoreSpecific(p, q) ==
    \E i \in DOMAIN p : /\ ~p[i].param /\ q[i].param
                        /\ \A j \in 1 .. (i - 1) : p[j].param = q[j].param

BestPath(file, segments) ==
    LET fitting == {p \in {file.endpoints[i].path : i \in DOMAIN file.endpoints} : Matches(p, segments)}
    IN  {p \in fitting : \A q \in fitting \ {p} : MoreSpecific(p, q)}

\* The endpoint that is run: the best path decides before the method is looked at.
\* A GET endpoint answers HEAD when no other does.
Dispatched(file, method, segments) ==
    LET On(m) == {i \in DOMAIN file.endpoints : /\ file.endpoints[i].path \in BestPath(file, segments)
                                                /\ file.endpoints[i].method = m}
    IN  IF On(method) = {} /\ method = "HEAD" THEN On("GET") ELSE On(method)

\* The parameters its steps find.
PathParams(path, segments) ==
    [name \in {path[i].text : i \in ParamsOf(path)} |->
       segments[CHOOSE i \in ParamsOf(path) : path[i].text = name]]

-----------------------------------------------------------------------------
(* What the parts promise one another.                                      *)

\* A pattern is written with one choice of names.
OneSpelling(endpoints) ==
    \A i, j \in DOMAIN endpoints :
       route_pattern(endpoints[i].path) = route_pattern(endpoints[j].path)
         => endpoints[i].path = endpoints[j].path

\* For an accepted file the router fails for four reasons only: an env_file that cannot
\* be read or a constant that cannot be evaluated, parameters of one pattern named
\* differently by two methods, credentials with a wildcard the validator does not
\* know of, and an operational path that is no static path of its own.
AcceptedFilesStart(file, operational) ==
    LET own == /\ \A k \in DOMAIN operational :
                    /\ validate_runtime_route(operational[k]) /\ ParamsOf(operational[k]) = {}
                    /\ \A i \in DOMAIN file.endpoints :
                         file.endpoints[i].method = "GET" => file.endpoints[i].path # operational[k]
               /\ \A j, k \in DOMAIN operational : j # k => operational[j] # operational[k]
    IN  validate_file(file) =>
          (router(file, operational) = "ok"
             <=> /\ VarsBound(file) /\ OneSpelling(file.endpoints)
                 /\ cors_layer(file.cors) /\ own)

\* Each endpoint of a file that starts is the one its own requests run, with every
\* parameter it declares bound to the text in its place, if the texts are new;
\* no request has two endpoints; and one an endpoint matches is run by none only
\* when a path with a text in the place of a parameter lacks its method.
AcceptedRoutesAreServed(file, operational, texts) ==
    (validate_file(file) /\ router(file, operational) = "ok") =>
      \A e \in DOMAIN file.endpoints :
        LET endpoint == file.endpoints[e]
            path == endpoint.path
            fresh == [i \in DOMAIN path |-> IF path[i].param THEN "fresh" ELSE path[i].text]
        IN  /\ Dispatched(file, endpoint.method, fresh) = {e}
            /\ \A segments \in [DOMAIN path -> texts] :
                 LET run == Dispatched(file, endpoint.method, segments)
                 IN  /\ Cardinality(run) <= 1
                     /\ (Matches(path, segments) /\ run = {}) =>
                          \E q \in BestPath(file, segments) : MoreSpecific(q, path)
                     /\ run = {e} =>
                          /\ Matches(path, segments)
                          /\ Cardinality(DOMAIN PathParams(path, segments)) = Cardinality(ParamsOf(path))
=============================================================================
