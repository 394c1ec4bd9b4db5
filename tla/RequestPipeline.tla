-------------------------- MODULE RequestPipeline --------------------------
(***************************************************************************)
(* The requests of one runtime from their arrival to their answer: the     *)
(* rate limit layer (src/runtime/rate_limit/traits.rs), the extractors and *)
(* EndpointRuntime::handle (src/runtime/mod.rs), and the counters of       *)
(* /metrics.                                                               *)
(*                                                                         *)
(* The limiter of an endpoint is FixedWindow, which RateLimiter            *)
(* implements, plus its refusal when its table is full.  What the secure   *)
(* rules say of a request is a parameter, which SecuredRequests gives; the *)
(* steps are EndpointExecution: here they end with a response or an error. *)
(* Requests are numbered as they arrive; a request is the place of its     *)
(* contents in Contents.                                                   *)
(***************************************************************************)
EXTENDS Integers, Sequences, FiniteSets

CONSTANTS
    Address,        \* what a header or a socket can name: IP addresses
    TrustedProxies, \* the addresses of the trusted networks
    Endpoints,      \* endpoint -> [limited, rules, status]
    Contents,       \* the requests that can arrive, a sequence; no step reads who they are from
    Verdict(_),     \* contents -> [ok, vars]: whether the rules let it in, its variables
    RuleHolds(_, _, _), \* what a rule asks of credentials and variables, for a property
    Errors,         \* the errors steps can end with
    MaxRequests,
    Limit, Window, MaxTime

RuntimeErrors == {"BadRequest", "Upstream", "Grpc", "Timeout", "Database", "Config", "Execution"}

ASSUME PipelineAssumption ==
    /\ TrustedProxies \subseteq Address
    /\ \A i \in DOMAIN Contents :
         /\ Contents[i].peer \in Address /\ Contents[i].from \in Address
         /\ Contents[i].endpoint \in DOMAIN Endpoints
         /\ Contents[i].forwarded_for # << >> => 1 \in DOMAIN Contents[i].forwarded_for
    /\ Errors \subseteq RuntimeErrors
    /\ MaxRequests \in Nat /\ Limit \in Nat \ {0} /\ Window \in Nat \ {0} /\ MaxTime \in Nat

VARIABLES
    clock, start, spent,    \* the limiters, one per endpoint that has one
    metrics,                \* RuntimeMetrics
    contents,               \* what each request is; 0 before it arrives
    pc,
    request_id,             \* the number handle gave the request; 0 without one
    request_vars,           \* the variables the steps start from
    answer,                 \* the status answered; 0 without an answer
    admitted_at             \* history, which no step reads: when the limiter let it past, or -1

vars == <<clock, start, spent, metrics, contents, pc, request_id, request_vars, answer, admitted_at>>
limiter == <<clock, start, spent>>
Request == 1 .. MaxRequests

Limited == {e \in DOMAIN Endpoints : Endpoints[e].limited}
Limiter == INSTANCE FixedWindow WITH Client <- Limited \X Address, MaxStall <- 0

Got(r) == Contents[contents[r]]
EndpointOf(r) == Endpoints[Got(r).endpoint]

\* The variables a request can be run with; none before its rules have been asked.
Bindings == {<< >>} \cup {Verdict(Contents[c]).vars : c \in DOMAIN Contents}

Places == {"idle", "limiting", "reading", "executing", "answered", "dropped"}

-----------------------------------------------------------------------------
(* Rate limit layer.                                                        *)

\* A header is the sequence of its parts; the first counts, if it is an address.
header_ip(parts) == IF parts # << >> /\ parts[1] \in Address THEN {parts[1]} ELSE {}

\* Mutant of client_ip_key: headers are believed whoever sends them.
KeyFromAnyone(content) ==
    IF header_ip(content.forwarded_for) # {} THEN content.forwarded_for[1]
    ELSE IF header_ip(content.real_ip) # {} THEN content.real_ip[1]
    ELSE content.peer

client_ip_key(content) ==
    IF content.peer \notin TrustedProxies THEN content.peer
    ELSE IF header_ip(content.forwarded_for) # {} THEN content.forwarded_for[1]
    ELSE IF header_ip(content.real_ip) # {} THEN content.real_ip[1]
    ELSE content.peer

Key(r) == <<Got(r).endpoint, client_ip_key(Got(r))>>

TypeOK ==
    /\ clock \in 0 .. MaxTime
    /\ start \in [Limited \X Address -> 0 .. MaxTime]
    /\ spent \in [Limited \X Address -> 0 .. Limit]
    /\ metrics \in [requests : Nat, failures : Nat, rate_limited : Nat]
    /\ contents \in [Request -> DOMAIN Contents \cup {0}]
    /\ pc \in [Request -> Places]
    /\ request_id \in [Request -> Nat]
    /\ request_vars \in [Request -> Bindings]
    /\ answer \in [Request -> 0 .. 999]
    /\ admitted_at \in [Request -> {-1} \cup 0 .. MaxTime]

Init ==
    /\ Limiter!WindowInit
    /\ metrics = [requests |-> 0, failures |-> 0, rate_limited |-> 0]
    /\ contents = [r \in Request |-> 0]
    /\ pc = [r \in Request |-> "idle"]
    /\ request_id = [r \in Request |-> 0]
    /\ request_vars = [r \in Request |-> << >>]
    /\ answer = [r \in Request |-> 0]
    /\ admitted_at = [r \in Request |-> -1]

Answer(r, status) ==
    /\ pc' = [pc EXCEPT ![r] = "answered"]
    /\ answer' = [answer EXCEPT ![r] = status]
GoTo(r, place) == pc' = [pc EXCEPT ![r] = place] /\ UNCHANGED answer

\* The router has dispatched a request to its endpoint.
Arrive(r) ==
    /\ pc[r] = "idle"
    /\ \A q \in Request : q < r => pc[q] # "idle"
    /\ \E c \in DOMAIN Contents :
         /\ contents' = [contents EXCEPT ![r] = c]
         /\ GoTo(r, IF Endpoints[Contents[c].endpoint].limited THEN "limiting" ELSE "reading")
    /\ UNCHANGED <<limiter, metrics, request_id, request_vars, admitted_at>>

Admitted(r) ==
    /\ pc[r] = "limiting"
    /\ Limiter!Admit(Key(r), clock)
    /\ GoTo(r, "reading")
    /\ admitted_at' = [admitted_at EXCEPT ![r] = clock]
    /\ UNCHANGED <<metrics, contents, request_id, request_vars>>

\* Mutant of Refused: a call over the limit waits for the next window.
RefusedWithoutRoom(r) ==
    /\ pc[r] = "limiting"
    /\ spent[Key(r)] = 0
    /\ metrics' = [metrics EXCEPT !.rate_limited = @ + 1]
    /\ Answer(r, 429)
    /\ UNCHANGED <<limiter, contents, request_id, request_vars, admitted_at>>

\* The window's calls are spent, or the table has no room for a new client.
Refused(r) ==
    /\ pc[r] = "limiting"
    /\ \/ spent[Key(r)] = Limit /\ ~Limiter!Over(Key(r), clock)
       \/ spent[Key(r)] = 0
    /\ metrics' = [metrics EXCEPT !.rate_limited = @ + 1]
    /\ Answer(r, 429)
    /\ UNCHANGED <<limiter, contents, request_id, request_vars, admitted_at>>

-----------------------------------------------------------------------------
(* Extractors and handler.                                                  *)

\* A body that is too long, a path or a query that cannot be parsed: axum answers
\* 413 or 400.
ExtractorRejects(r) ==
    /\ pc[r] = "reading"
    /\ Answer(r, 413)
    /\ UNCHANGED <<limiter, metrics, contents, request_id, request_vars, admitted_at>>

\* The body has been read.  Everything up to the first step is one poll.
Handle(r) ==
    LET verdict == Verdict(Got(r))
    IN  /\ pc[r] = "reading"
        /\ metrics' = [metrics EXCEPT !.requests = @ + 1]
        /\ request_id' = [request_id EXCEPT ![r] = metrics.requests + 1]
        /\ IF verdict.ok
             THEN /\ request_vars' = [request_vars EXCEPT ![r] = verdict.vars]
                  /\ GoTo(r, "executing")
             ELSE Answer(r, 401) /\ UNCHANGED request_vars
        /\ UNCHANGED <<limiter, contents, admitted_at>>

\* A status that is none becomes 200.
ExecuteSucceeds(r) ==
    /\ pc[r] = "executing"
    /\ Answer(r, IF EndpointOf(r).status \in 100 .. 999 THEN EndpointOf(r).status ELSE 200)
    /\ UNCHANGED <<limiter, metrics, contents, request_id, request_vars, admitted_at>>

error_status(error) ==
    CASE error = "BadRequest" -> 400
      [] error \in {"Upstream", "Grpc"} -> 502
      [] error = "Timeout" -> 504
      [] OTHER -> 500

\* Mutant of ExecuteFails: only errors that are the gateway's own are counted.
ExecuteFailsOwn(r) ==
    /\ pc[r] = "executing"
    /\ \E error \in Errors :
         /\ metrics' = [metrics EXCEPT !.failures = IF error_status(error) = 500 THEN @ + 1 ELSE @]
         /\ Answer(r, error_status(error))
    /\ UNCHANGED <<limiter, contents, request_id, request_vars, admitted_at>>

ExecuteFails(r) ==
    /\ pc[r] = "executing"
    /\ metrics' = [metrics EXCEPT !.failures = @ + 1]
    /\ \E error \in Errors : Answer(r, error_status(error))
    /\ UNCHANGED <<limiter, contents, request_id, request_vars, admitted_at>>

\* The client disconnects: its future is dropped at an await.
Drop(r) ==
    /\ pc[r] \in {"reading", "executing"}
    /\ GoTo(r, "dropped")
    /\ UNCHANGED <<limiter, metrics, contents, request_id, request_vars, admitted_at>>

\* Clean-ups of the tables, and time.
Background ==
    /\ \/ clock < MaxTime /\ Limiter!Tick
       \/ Limiter!Forget
    /\ UNCHANGED <<metrics, contents, pc, request_id, request_vars, answer, admitted_at>>

-----------------------------------------------------------------------------
Serve(r) ==
    \/ Admitted(r) \/ Refused(r)
    \/ ExtractorRejects(r) \/ Handle(r)
    \/ ExecuteSucceeds(r) \/ ExecuteFails(r)

Next ==
    \/ \E r \in Request : Arrive(r) \/ Serve(r) \/ Drop(r)
    \/ Background

\* The executor polls every handler that was woken, bodies end or are cut off,
\* and steps end (EndpointExecution); nothing makes a request arrive.
Fairness == \A r \in Request : WF_vars(Serve(r))

Spec == Init /\ [][Next]_vars /\ Fairness

-----------------------------------------------------------------------------
(* Properties.                                                              *)

\* Whether the gateway is told who a request is from: it comes from the client itself,
\* or through trusted proxies that put the client first in x-forwarded-for, or give
\* no address there and the client in x-real-ip.  A proxy that appends to the list
\* a client sent leaves the first place to the client: such a request is not Named.
Named(content) ==
    IF content.peer \notin TrustedProxies THEN content.from = content.peer
    ELSE LET list == content.forwarded_for
             real == content.real_ip
         IN  \/ list # << >> /\ list[1] = content.from
             \/ /\ \A i \in DOMAIN list : list[i] \notin Address
                /\ real # << >> /\ real[1] = content.from

NamedOf(a) == {q \in Request : pc[q] # "idle" /\ Named(Got(q)) /\ Got(q).from = a}
Unnamed == {q \in Request : pc[q] # "idle" /\ ~Named(Got(q))}

\* The requests to e among R that the limiter let past less than Window ago.
Recent(R, e) ==
    {q \in R : /\ Got(q).endpoint = e
               /\ admitted_at[q] >= 0 /\ admitted_at[q] > clock - Window}

\* Clients: as long as its requests name it, no client gets more than 2 * Limit - 1
\* requests past an endpoint's limiter in any stretch of time as long as a window,
\* whatever else their headers say, however windows follow and are forgotten; and
\* one is refused only after Limit requests of its own, or unnamed ones, were let
\* past in the last window's length, or when the table has no room for it: clients
\* that are named do not take from each other.
ClientsKeepTheirBudgets ==
    /\ [](\A a \in Address, e \in Limited : Cardinality(Recent(NamedOf(a), e)) < 2 * Limit)
    /\ [][\A r \in Request :
            (pc[r] = "limiting" /\ pc'[r] = "answered" /\ Named(Got(r))) =>
              LET e == Got(r).endpoint
                  a == Got(r).from
              IN  \/ Cardinality(Recent(NamedOf(a) \cup Unnamed, e)) >= Limit
                  \/ spent[<<e, a>>] = 0]_vars

\* No step runs for a request one of whose rules does not hold: the steps of
\* a request start from variables on which every rule of its endpoint holds with
\* the credentials of that request, and a request that was handled and not run
\* was told 401.
UnauthorisedRunsNothing ==
    \A r \in Request :
      LET ran == pc[r] = "executing" \/ request_vars[r] # << >>
      IN  /\ ran => \A i \in DOMAIN EndpointOf(r).rules :
                      RuleHolds(EndpointOf(r).rules[i], Got(r).authorization, request_vars[r])
          /\ (request_id[r] # 0 /\ ~ran) => answer[r] = 401

\* The counters of /metrics account for every request, whatever overlaps and
\* whoever disconnects: those handled carry the numbers 1 to requests, each its own,
\* failures are those told an error of their steps, and a refused
\* request is in no counter but rate_limited.  (For endpoints
\* whose own status is none of an error.)
CountersAddUp ==
    LET handled == {r \in Request : request_id[r] # 0}
        Count(S) == Cardinality(S)
    IN  /\ metrics.requests = Count(handled)
        /\ {request_id[r] : r \in handled} = 1 .. metrics.requests
        /\ metrics.failures =
             Count({r \in handled : pc[r] = "answered" /\ answer[r] \in {400, 500, 502, 504}})
        /\ metrics.rate_limited = Count({r \in Request : pc[r] = "answered" /\ answer[r] = 429})
        /\ \A r \in Request : (pc[r] = "answered" /\ answer[r] = 429) => r \notin handled

\* Every request that arrives is answered, unless its client leaves first: no
\* refusal, rejection or error is silent.
EveryRequestAnswered ==
    \A r \in Request : contents[r] # 0 ~> pc[r] \in {"answered", "dropped"}
=============================================================================
