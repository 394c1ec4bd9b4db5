---------------------------- MODULE UpstreamCalls ----------------------------
(***************************************************************************)
(* fetch_http, query_db and call_grpc of src/runtime/mod.rs: the outgoing  *)
(* calls of the requests of one runtime, which share the database pools    *)
(* and the compiled .proto files.                                          *)
(*                                                                         *)
(* A fetch makes up to retries + 1 attempts, each under a timeout of its   *)
(* own, and pauses between them.  A query or a gRPC call makes one, and    *)
(* its timeout covers everything: the connection, the pool and the answer. *)
(* Both caches are looked up before the entry is built and filled after it *)
(* by or_insert_with; an entry is named after the call that built it.      *)
(*                                                                         *)
(* What is sent and answered is abstracted to success or failure.          *)
(***************************************************************************)
EXTENDS Integers, FiniteSets

CONSTANTS
    Call,
    Nobody,
    Source,             \* database URLs and .proto paths
    Requests,           \* what the calls can be asked to do
    MaxConnections      \* connections of a database pool

\* fallback: there is none, it evaluates to a value, its evaluation fails.
\* A call that is not to a cached source, or has no retries, has the default.
Config == [kind : {"http", "db", "grpc"}, source : Source, retries : Nat,
           delay : BOOLEAN, timeout : BOOLEAN, fallback : {"none", "value", "fails"}]

ASSUME UpstreamAssumption ==
    /\ IsFiniteSet(Call)
    /\ Nobody \notin Call
    /\ Requests \subseteq [Call -> Config]
    /\ MaxConnections \in Nat \ {0}

VARIABLES
    config,     \* what each call was asked to do
    pc,         \* what each call is waiting for
    sent,       \* HTTP requests each call has sent
    cache,      \* db_pools and proto_pools: who built the entry of each source
    pool,       \* the entry each call uses
    outcome

vars == <<config, pc, sent, cache, pool, outcome>>

\* idle       not begun
\* sending    HTTP: the status of the response
\* reading    HTTP: its body
\* sleeping   HTTP: the delay before the next attempt
\* dialing    gRPC: the channel
\* building   the first connection of a new pool; a .proto being compiled
\* acquiring  a connection of the pool
\* calling    the rows, or the gRPC response
\* done
Place == {"idle", "sending", "reading", "sleeping", "dialing", "building",
          "acquiring", "calling", "done"}

Caches == {"db", "grpc"} \X Source
Entry(c) == <<config[c].kind, config[c].source>>

TypeOK ==
    /\ config \in Requests
    /\ pc \in [Call -> Place]
    /\ sent \in [Call -> Nat]
    /\ cache \in [Caches -> Call \cup {Nobody}]
    /\ pool \in [Call -> Call \cup {Nobody}]
    /\ outcome \in [Call -> {"none", "answer", "fallback", "timeout", "error", "dropped"}]

Init ==
    /\ config \in Requests
    /\ pc = [c \in Call |-> "idle"]
    /\ sent = [c \in Call |-> 0]
    /\ cache = [k \in Caches |-> Nobody]
    /\ pool = [c \in Call |-> Nobody]
    /\ outcome = [c \in Call |-> "none"]

GoTo(c, place) == pc' = [pc EXCEPT ![c] = place]

\* The call returns; what it holds goes back to its pool.
End(c, result) ==
    /\ GoTo(c, "done")
    /\ outcome' = [outcome EXCEPT ![c] = result]
    /\ UNCHANGED <<config, sent, cache, pool>>

\* Mutant of FallBackOr: the fallback is for fetches only.
FallBackFetchOnly(c, result) ==
    IF config[c].fallback = "none" \/ config[c].kind # "http" THEN End(c, result)
    ELSE End(c, IF config[c].fallback = "value" THEN "fallback" ELSE "error")

\* The errors a fallback stands in for.
FallBackOr(c, result) ==
    IF config[c].fallback = "none" THEN End(c, result)
    ELSE End(c, IF config[c].fallback = "value" THEN "fallback" ELSE "error")

Waiting(c, kind, place) == config[c].kind = kind /\ pc[c] = place

\* The URL, the method, a parameter or the payload does not evaluate.
BadInput(c) == pc[c] = "idle" /\ End(c, "error")

-----------------------------------------------------------------------------
(* HTTP.                                                                   *)

Send(c) ==
    /\ GoTo(c, "sending")
    /\ sent' = [sent EXCEPT ![c] = @ + 1]
    /\ UNCHANGED <<config, cache, pool, outcome>>

Fetch(c) == Waiting(c, "http", "idle") /\ Send(c)

\* Mutant of LastAttempt: one attempt too many.
LastRetry(c) == sent[c] > config[c].retries + 1

\* attempt + 1 = attempts
LastAttempt(c) == sent[c] = config[c].retries + 1

\* The attempt failed: sleep, try again at once, or give up.  The error is a
\* timeout when its text, the URL included, mentions one.
AttemptFailed(c) ==
    IF LastAttempt(c) THEN FallBackOr(c, "error") \/ FallBackOr(c, "timeout")
    ELSE IF config[c].delay
           THEN GoTo(c, "sleeping") /\ UNCHANGED <<config, sent, cache, pool, outcome>>
           ELSE Send(c)

\* The request could not be sent, or its status is an error.
Refused(c) == Waiting(c, "http", "sending") /\ AttemptFailed(c)

AttemptTimedOut(c) ==
    /\ Waiting(c, "http", "sending")
    /\ config[c].timeout
    /\ AttemptFailed(c)

Wake(c) == Waiting(c, "http", "sleeping") /\ Send(c)

Responded(c) ==
    /\ Waiting(c, "http", "sending")
    /\ GoTo(c, "reading")
    /\ UNCHANGED <<config, sent, cache, pool, outcome>>

BodyRead(c) == Waiting(c, "http", "reading") /\ End(c, "answer")

\* `?` on the body: no further attempt and no fallback.
BodyFailed(c) == Waiting(c, "http", "reading") /\ End(c, "error")

BodyTimedOut(c) ==
    /\ Waiting(c, "http", "reading")
    /\ config[c].timeout
    /\ End(c, "error")

-----------------------------------------------------------------------------
(* Databases and gRPC.                                                     *)

\* What a call does with its entry: a query needs a connection of the pool.
Use(c) == GoTo(c, IF config[c].kind = "db" THEN "acquiring" ELSE "calling")

LookUp(c) ==
    /\ IF cache[Entry(c)] # Nobody
         THEN pool' = [pool EXCEPT ![c] = cache[Entry(c)]] /\ Use(c)
         ELSE GoTo(c, "building") /\ UNCHANGED pool
    /\ UNCHANGED <<config, sent, cache, outcome>>

Query(c) == Waiting(c, "db", "idle") /\ LookUp(c)

Dial(c) ==
    /\ Waiting(c, "grpc", "idle")
    /\ GoTo(c, "dialing")
    /\ UNCHANGED <<config, sent, cache, pool, outcome>>

\* A call without a .proto uses no cache: it needs no descriptors.
Dialed(c) ==
    /\ Waiting(c, "grpc", "dialing")
    /\ \/ LookUp(c)
       \/ GoTo(c, "calling") /\ UNCHANGED <<config, sent, cache, pool, outcome>>

\* Mutant of Built: the entry replaces the one a faster call has made.
BuiltOver(c) ==
    /\ pc[c] = "building"
    /\ cache' = [cache EXCEPT ![Entry(c)] = c]
    /\ pool' = [pool EXCEPT ![c] = c]
    /\ Use(c)
    /\ UNCHANGED <<config, sent, outcome>>

\* or_insert_with: a slower call drops what it built and takes the entry.
Built(c) ==
    /\ pc[c] = "building"
    /\ cache' = [cache EXCEPT ![Entry(c)] = IF @ = Nobody THEN c ELSE @]
    /\ pool' = [pool EXCEPT ![c] = cache'[Entry(c)]]
    /\ Use(c)
    /\ UNCHANGED <<config, sent, outcome>>

\* Calls that run a query on a connection of the pool of a source.
Querying(source) ==
    {c \in Call : config[c].kind = "db" /\ config[c].source = source /\ pc[c] = "calling"}

Connections(p) == {c \in Call : pool[c] = p /\ Waiting(c, "db", "calling")}

Acquire(c) ==
    /\ pc[c] = "acquiring"
    /\ Cardinality(Connections(pool[c])) < MaxConnections
    /\ GoTo(c, "calling")
    /\ UNCHANGED <<config, sent, cache, pool, outcome>>

Answered(c) == pc[c] = "calling" /\ End(c, "answer")

\* Any error of the work, the pool's own timeout on acquiring included.
WorkFailed(c) ==
    /\ pc[c] \in {"dialing", "building", "acquiring", "calling"}
    /\ FallBackOr(c, "error")

\* Mutant of WorkTimedOut: the timeout begins with the call to the service.
CallTimedOut(c) ==
    /\ pc[c] = "calling"
    /\ config[c].timeout
    /\ End(c, "timeout")

\* `?` on the timeout: no fallback.  Compiling a .proto does not await.
WorkTimedOut(c) ==
    /\ pc[c] \in {"dialing", "building", "acquiring", "calling"}
    /\ ~Waiting(c, "grpc", "building")
    /\ config[c].timeout
    /\ End(c, "timeout")

\* The request is dropped while the call waits.
Drop(c) ==
    /\ pc[c] \notin {"idle", "done"}
    /\ ~Waiting(c, "grpc", "building")
    /\ End(c, "dropped")

-----------------------------------------------------------------------------
Http(c) ==
    Refused(c) \/ AttemptTimedOut(c) \/ Wake(c) \/ Responded(c)
      \/ BodyRead(c) \/ BodyFailed(c) \/ BodyTimedOut(c)

Work(c) ==
    Dialed(c) \/ Built(c) \/ Acquire(c) \/ Answered(c) \/ WorkFailed(c) \/ WorkTimedOut(c)

CallNext(c) ==
    BadInput(c) \/ Fetch(c) \/ Query(c) \/ Dial(c) \/ Http(c) \/ Work(c) \/ Drop(c)

AllDone == (\A c \in Call : pc[c] = "done") /\ UNCHANGED vars

Next == (\E c \in Call : CallNext(c)) \/ AllDone

\* Timers fire, and a pool gives up on a connection after its own timeout.
\* Nothing makes an upstream answer.
Fairness ==
    \A c \in Call :
        /\ WF_vars(AttemptTimedOut(c) \/ BodyTimedOut(c) \/ Wake(c) \/ WorkTimedOut(c))
        /\ WF_vars(pc[c] \in {"building", "acquiring"} /\ (Built(c) \/ Acquire(c) \/ WorkFailed(c)))

Spec == Init /\ [][Next]_vars /\ Fairness

-----------------------------------------------------------------------------
(* Properties.                                                             *)

\* Queries that race to open the first connection to a source, and calls that
\* race to compile a .proto, all end up on one entry, and it is never replaced.
OneEntryPerSource ==
    \A c \in Call : pool[c] # Nobody => cache[Entry(c)] = pool[c]

\* However first queries race, time out or are dropped, no more queries run at
\* once on a source than one pool has connections.
QueriesBounded ==
    \A source \in Source : Cardinality(Querying(source)) <= MaxConnections

\* A fetch gives up on its answer, for its fallback or for an error of its
\* attempts, exactly when every attempt has been made; no pause comes after the
\* last one.
NoAttemptSkipped ==
    \A c \in Call : config[c].kind = "http" =>
        /\ sent[c] <= config[c].retries + 1
        /\ outcome[c] \in {"fallback", "timeout"} => sent[c] = config[c].retries + 1
        /\ pc[c] = "sleeping" => sent[c] <= config[c].retries

\* A fallback that evaluates stands in for every error but those of the input
\* and of the body of an HTTP response.
FallbackStands ==
    [][\A c \in Call : config[c].fallback = "value" /\ outcome'[c] = "error" =>
          pc[c] \in {"idle", "reading", "done"}]_vars

\* How far a call is: but for the attempts of a fetch, no place comes again.
Far(place) ==
    CASE place = "idle" -> 0
      [] place \in {"sending", "dialing"} -> 1
      [] place \in {"reading", "sleeping", "building"} -> 2
      [] place = "acquiring" -> 3
      [] place = "calling" -> 4
      [] OTHER -> 5

\* Every step takes one call further, or to its next attempt, and leaves the
\* others where they are; what a call was answered with stays.  As attempts are
\* bounded, no call goes round in a circle, whatever the calls it shares with do.
EveryStepIsProgress ==
    [][\E c \in Call :
         /\ \/ sent'[c] = sent[c] /\ Far(pc[c]) < Far(pc'[c])
            \/ sent'[c] = sent[c] + 1 /\ sent[c] <= config[c].retries /\ pc'[c] = "sending"
         /\ pc[c] # "done" /\ outcome[c] = "none"
         /\ \A d \in Call \ {c} :
              pc'[d] = pc[d] /\ sent'[d] = sent[d] /\ pool'[d] = pool[d] /\ outcome'[d] = outcome[d]]_vars

\* Calls that have a timeout end whatever the upstream does; no call waits for
\* ever for a pool, for the entry of its source or for its next attempt.
CallsSettle ==
    \A c \in Call :
        /\ config[c].timeout /\ pc[c] # "idle" ~> pc[c] = "done"
        /\ pc[c] \in {"sleeping", "building", "acquiring"}
             ~> pc[c] \notin {"sleeping", "building", "acquiring"}

\* A timeout that runs out is what a fallback is for.
FallbackCoversTimeouts ==
    \A c \in Call : config[c].fallback # "none" => outcome[c] # "timeout"
=============================================================================
