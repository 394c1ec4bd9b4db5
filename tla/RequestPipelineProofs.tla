------------------------ MODULE RequestPipelineProofs ------------------------
(***************************************************************************)
(* What RequestPipeline establishes for any endpoints, proxies, contents,  *)
(* verdicts and limits, and any number of requests.                        *)
(***************************************************************************)
EXTENDS RequestPipeline, FiniteSetTheorems, TLAPS

\* Requests at a place have got as far as it says.
PlaceInv ==
    \A r \in Request :
      /\ pc[r] # "idle" => contents[r] \in DOMAIN Contents
      /\ pc[r] = "limiting" => Got(r).endpoint \in Limited
      /\ pc[r] \in {"idle", "limiting", "reading"} => request_id[r] = 0
      /\ pc[r] = "executing" => request_id[r] # 0
      /\ pc[r] # "answered" => answer[r] = 0

Inv == TypeOK /\ PlaceInv

-----------------------------------------------------------------------------
(* Types.                                                                   *)

\* The key of a request is an address.
LEMMA KeysAreAddresses ==
    ASSUME NEW c \in DOMAIN Contents
    PROVE  client_ip_key(Contents[c]) \in Address
BY PipelineAssumption DEF client_ip_key, header_ip

\* A request at the limiter has a window.
LEMMA LimitedKey ==
    ASSUME Inv, NEW r \in Request, pc[r] = "limiting"
    PROVE  Key(r) \in Limited \X Address
<1>1. contents[r] \in DOMAIN Contents /\ Got(r).endpoint \in Limited
  BY DEF Inv, PlaceInv
<1> QED
  BY <1>1, KeysAreAddresses DEF Key, Got

\* The statuses of errors are statuses.
LEMMA ErrorStatuses ==
    ASSUME NEW error
    PROVE  error_status(error) \in {400, 500, 502, 504}
<1>1. CASE error = "BadRequest"
  BY <1>1 DEF error_status
<1>2. CASE error \in {"Upstream", "Grpc"}
  BY <1>2 DEF error_status
<1>3. CASE error = "Timeout"
  BY <1>3 DEF error_status
<1>4. CASE error \notin {"BadRequest", "Upstream", "Grpc", "Timeout"}
  BY <1>4 DEF error_status
<1> QED
  BY <1>1, <1>2, <1>3, <1>4

LEMMA TypeInit == Init => Inv
BY PipelineAssumption DEF Init, Inv, TypeOK, PlaceInv, Places, Bindings, Limiter!WindowInit, Limited

\* Time and clean-ups keep the windows' types, and so do admissions.
LEMMA BackgroundKeepsTypes == Inv /\ Background => Inv'
<1> SUFFICES ASSUME Inv, Background PROVE Inv'
  OBVIOUS
<1>1. /\ UNCHANGED <<metrics, contents, pc, request_id, request_vars, answer, admitted_at>>
      /\ (clock < MaxTime /\ Limiter!Tick) \/ Limiter!Forget
  BY DEF Background
<1>2. /\ clock' \in 0 .. MaxTime
      /\ start' \in [Limited \X Address -> 0 .. MaxTime]
      /\ spent' \in [Limited \X Address -> 0 .. Limit]
  <2>1. CASE clock < MaxTime /\ Limiter!Tick
    BY <2>1, PipelineAssumption DEF Inv, TypeOK, Limiter!Tick
  <2>2. CASE Limiter!Forget
    BY <2>2, PipelineAssumption DEF Inv, TypeOK, Limiter!Forget
  <2> QED
    BY <1>1, <2>1, <2>2
<1> QED
  BY <1>1, <1>2 DEF Inv, TypeOK, PlaceInv, Got

LEMMA AdmissionsKeepTypes ==
    ASSUME Inv, NEW r \in Request, Admitted(r)
    PROVE  /\ clock' \in 0 .. MaxTime
           /\ start' \in [Limited \X Address -> 0 .. MaxTime]
           /\ spent' \in [Limited \X Address -> 0 .. Limit]
<1>1. PICK k \in Limited \X Address : k = Key(r)
  BY LimitedKey DEF Admitted
<1>2. Limiter!Admit(k, clock)
  BY <1>1 DEF Admitted
<1>3. /\ clock \in 0 .. MaxTime
      /\ start \in [Limited \X Address -> 0 .. MaxTime]
      /\ spent \in [Limited \X Address -> 0 .. Limit]
      /\ Limit \in Nat \ {0}
  BY PipelineAssumption DEF Inv, TypeOK
<1>4. clock' = clock
  BY <1>2 DEF Limiter!Admit
<1>5. CASE Limiter!Over(k, clock)
  <2>1. spent' = [spent EXCEPT ![k] = 1] /\ start' = [start EXCEPT ![k] = clock]
    BY <1>2, <1>5 DEF Limiter!Admit
  <2> QED
    BY <1>3, <1>4, <2>1
<1>6. CASE ~Limiter!Over(k, clock)
  <2>1. spent' = [spent EXCEPT ![k] = @ + 1] /\ start' = start /\ spent[k] < Limit
    BY <1>2, <1>6 DEF Limiter!Admit
  <2>2. spent[k] + 1 \in 0 .. Limit
    BY <1>3, <2>1
  <2> QED
    BY <1>3, <1>4, <2>1, <2>2
<1> QED
  BY <1>5, <1>6

\* A step that only moves a request on, and may answer it.
Moves(r) ==
    /\ contents' = contents /\ request_id' = request_id /\ request_vars' = request_vars
    /\ metrics' \in [requests : Nat, failures : Nat, rate_limited : Nat]
    /\ clock' \in 0 .. MaxTime
    /\ start' \in [Limited \X Address -> 0 .. MaxTime]
    /\ spent' \in [Limited \X Address -> 0 .. Limit]
    /\ admitted_at' \in [Request -> {-1} \cup 0 .. MaxTime]
    /\ pc' \in [Request -> Places] /\ answer' \in [Request -> 0 .. 999]
    /\ \A q \in Request \ {r} : pc'[q] = pc[q] /\ answer'[q] = answer[q]
    /\ pc[r] # "idle"
    /\ pc'[r] \in {"reading", "answered", "dropped"}
    /\ pc'[r] = "reading" => request_id[r] = 0
    /\ pc'[r] # "answered" => answer'[r] = 0

LEMMA MovesKeepTypes ==
    ASSUME Inv, NEW r \in Request, Moves(r)
    PROVE  Inv'
<1>1. contents' = contents /\ request_id' = request_id /\ request_vars' = request_vars
  BY DEF Moves
<1>2. TypeOK'
  BY <1>1 DEF Inv, TypeOK, Moves
<1>3. ASSUME NEW q \in Request
      PROVE  /\ pc'[q] # "idle" => contents'[q] \in DOMAIN Contents
             /\ pc'[q] = "limiting" => Got(q)'.endpoint \in Limited
             /\ pc'[q] \in {"idle", "limiting", "reading"} => request_id'[q] = 0
             /\ pc'[q] = "executing" => request_id'[q] # 0
             /\ pc'[q] # "answered" => answer'[q] = 0
  <2>1. Got(q)' = Got(q)
    BY <1>1 DEF Got
  <2>2. CASE q = r
    <3>1. contents[q] \in DOMAIN Contents
      BY <2>2 DEF Inv, PlaceInv, Moves
    <3>2. /\ pc'[q] \in {"reading", "answered", "dropped"}
          /\ pc'[q] = "reading" => request_id[q] = 0
          /\ pc'[q] # "answered" => answer'[q] = 0
      BY <2>2 DEF Moves
    <3> QED
      BY <1>1, <3>1, <3>2
  <2>3. CASE q # r
    <3>1. pc'[q] = pc[q] /\ answer'[q] = answer[q]
      BY <2>3 DEF Moves
    <3> QED
      BY <1>1, <2>1, <3>1 DEF Inv, PlaceInv
  <2> QED
    BY <2>2, <2>3
<1>4. PlaceInv'
  BY <1>3 DEF PlaceInv
<1> QED
  BY <1>2, <1>4 DEF Inv

\* The limiters keep their types when a step leaves them alone, and so do counters
\* that grow.
LEMMA QuietKeepsTypes ==
    ASSUME Inv, UNCHANGED limiter
    PROVE  /\ clock' \in 0 .. MaxTime
           /\ start' \in [Limited \X Address -> 0 .. MaxTime]
           /\ spent' \in [Limited \X Address -> 0 .. Limit]
BY DEF Inv, TypeOK, limiter

LEMMA CountersKeepTypes ==
    ASSUME Inv, \/ metrics' = metrics
                \/ metrics' = [metrics EXCEPT !.requests = @ + 1]
                \/ metrics' = [metrics EXCEPT !.failures = @ + 1]
                \/ metrics' = [metrics EXCEPT !.rate_limited = @ + 1]
    PROVE  metrics' \in [requests : Nat, failures : Nat, rate_limited : Nat]
<1>1. metrics \in [requests : Nat, failures : Nat, rate_limited : Nat]
  BY DEF Inv, TypeOK
<1> QED
  BY <1>1

Statuses == 0 .. 999

\* Answering or going to another place changes one request.
LEMMA AnswerChanges ==
    ASSUME Inv, NEW r \in Request, NEW status \in Statuses, Answer(r, status)
    PROVE  /\ pc' \in [Request -> Places] /\ answer' \in [Request -> 0 .. 999]
           /\ \A q \in Request \ {r} : pc'[q] = pc[q] /\ answer'[q] = answer[q]
           /\ pc'[r] = "answered"
<1>1. pc \in [Request -> Places] /\ answer \in [Request -> 0 .. 999]
  BY DEF Inv, TypeOK
<1>2. "answered" \in Places
  BY DEF Places
<1>3. pc' = [pc EXCEPT ![r] = "answered"] /\ answer' = [answer EXCEPT ![r] = status]
  BY DEF Answer
<1> QED
  BY <1>1, <1>2, <1>3 DEF Statuses

LEMMA GoingChanges ==
    ASSUME Inv, NEW r \in Request, NEW place \in Places, GoTo(r, place), pc[r] # "answered"
    PROVE  /\ pc' \in [Request -> Places] /\ answer' \in [Request -> 0 .. 999]
           /\ \A q \in Request \ {r} : pc'[q] = pc[q] /\ answer'[q] = answer[q]
           /\ pc'[r] = place /\ answer'[r] = 0
<1>1. pc \in [Request -> Places] /\ answer \in [Request -> 0 .. 999] /\ answer[r] = 0
  BY DEF Inv, TypeOK, PlaceInv
<1>2. pc' = [pc EXCEPT ![r] = place] /\ answer' = answer
  BY DEF GoTo
<1> QED
  BY <1>1, <1>2

\* An answer that leaves limiters and requests alone moves the request.
LEMMA AnswersMove ==
    ASSUME Inv, NEW r \in Request, pc[r] # "idle",
           \E status \in Statuses : Answer(r, status),
           metrics' \in [requests : Nat, failures : Nat, rate_limited : Nat],
           UNCHANGED limiter,
           contents' = contents, request_id' = request_id, request_vars' = request_vars,
           admitted_at' = admitted_at
    PROVE  Moves(r)
<1>1. /\ pc' \in [Request -> Places] /\ answer' \in [Request -> 0 .. 999]
      /\ \A q \in Request \ {r} : pc'[q] = pc[q] /\ answer'[q] = answer[q]
      /\ pc'[r] = "answered"
  <2>1. PICK status \in Statuses : Answer(r, status)
    OBVIOUS
  <2> QED
    BY <2>1, AnswerChanges
<1>2. admitted_at' \in [Request -> {-1} \cup 0 .. MaxTime]
  BY DEF Inv, TypeOK
<1> QED
  BY <1>1, <1>2, QuietKeepsTypes DEF Moves

LEMMA ArrivalsKeepTypes ==
    ASSUME Inv, NEW r \in Request, Arrive(r)
    PROVE  Inv'
<1>1. PICK c \in DOMAIN Contents :
        /\ contents' = [contents EXCEPT ![r] = c]
        /\ GoTo(r, IF Endpoints[Contents[c].endpoint].limited THEN "limiting" ELSE "reading")
  BY DEF Arrive
<1> DEFINE place == IF Endpoints[Contents[c].endpoint].limited THEN "limiting" ELSE "reading"
<1>2. /\ pc' = [pc EXCEPT ![r] = place] /\ answer' = answer /\ pc[r] = "idle"
      /\ UNCHANGED <<limiter, metrics, request_id, request_vars, admitted_at>>
  BY <1>1 DEF Arrive, GoTo
<1>3. place = "limiting" => Contents[c].endpoint \in Limited
  BY PipelineAssumption DEF Limited
<1>4. place \in Places /\ place \in {"limiting", "reading"}
  BY DEF Places
<1> HIDE DEF place
<1>5. /\ pc \in [Request -> Places] /\ contents \in [Request -> DOMAIN Contents \cup {0}]
      /\ request_id \in [Request -> Nat] /\ request_vars \in [Request -> Bindings]
      /\ answer \in [Request -> 0 .. 999]
      /\ metrics \in [requests : Nat, failures : Nat, rate_limited : Nat]
      /\ admitted_at \in [Request -> {-1} \cup 0 .. MaxTime]
  BY DEF Inv, TypeOK
<1>6. pc' \in [Request -> Places] /\ contents' \in [Request -> DOMAIN Contents \cup {0}]
  BY <1>1, <1>2, <1>4, <1>5
<1>7. TypeOK'
  BY <1>2, <1>5, <1>6, QuietKeepsTypes DEF TypeOK
<1>8. ASSUME NEW q \in Request
      PROVE  /\ pc'[q] # "idle" => contents'[q] \in DOMAIN Contents
             /\ pc'[q] = "limiting" => Got(q)'.endpoint \in Limited
             /\ pc'[q] \in {"idle", "limiting", "reading"} => request_id'[q] = 0
             /\ pc'[q] = "executing" => request_id'[q] # 0
             /\ pc'[q] # "answered" => answer'[q] = 0
  <2>1. CASE q = r
    <3>1. pc'[q] = place /\ contents'[q] = c /\ Got(q)' = Contents[c]
      BY <1>1, <1>2, <1>5, <2>1 DEF Got
    <3>2. request_id'[q] = 0 /\ answer'[q] = 0
      BY <1>2, <2>1 DEF Inv, PlaceInv
    <3> QED
      BY <1>3, <1>4, <3>1, <3>2
  <2>2. CASE q # r
    <3>1. pc'[q] = pc[q] /\ contents'[q] = contents[q] /\ Got(q)' = Got(q)
      BY <1>1, <1>2, <1>5, <2>2 DEF Got
    <3> QED
      BY <1>2, <3>1 DEF Inv, PlaceInv
  <2> QED
    BY <2>1, <2>2
<1>9. PlaceInv'
  BY <1>8 DEF PlaceInv
<1> QED
  BY <1>7, <1>9 DEF Inv

\* What the step of a handler does, whatever the rules say.
LEMMA HandleDoes ==
    ASSUME NEW r \in Request, Handle(r)
    PROVE  /\ pc[r] = "reading"
           /\ metrics' = [metrics EXCEPT !.requests = @ + 1]
           /\ request_id' = [request_id EXCEPT ![r] = metrics.requests + 1]
           /\ UNCHANGED <<limiter, contents, admitted_at>>
           /\ \/ /\ Verdict(Got(r)).ok
                 /\ request_vars' = [request_vars EXCEPT ![r] = Verdict(Got(r)).vars]
                 /\ GoTo(r, "executing")
              \/ ~Verdict(Got(r)).ok /\ Answer(r, 401) /\ UNCHANGED request_vars
BY DEF Handle

LEMMA HandlingsKeepTypes ==
    ASSUME Inv, NEW r \in Request, Handle(r)
    PROVE  Inv'
<1>1. /\ pc \in [Request -> Places] /\ contents \in [Request -> DOMAIN Contents \cup {0}]
      /\ request_id \in [Request -> Nat] /\ request_vars \in [Request -> Bindings]
      /\ answer \in [Request -> 0 .. 999] /\ metrics.requests \in Nat
      /\ admitted_at \in [Request -> {-1} \cup 0 .. MaxTime]
  BY DEF Inv, TypeOK
<1>2. /\ pc[r] = "reading" /\ contents[r] \in DOMAIN Contents
      /\ request_id' = [request_id EXCEPT ![r] = metrics.requests + 1]
      /\ UNCHANGED <<limiter, contents, admitted_at>>
      /\ metrics' \in [requests : Nat, failures : Nat, rate_limited : Nat]
  BY HandleDoes, CountersKeepTypes DEF Inv, PlaceInv
<1>3. /\ request_id' \in [Request -> Nat] /\ request_id'[r] # 0
      /\ \A q \in Request \ {r} : request_id'[q] = request_id[q]
  BY <1>1, <1>2
<1>4. request_vars' \in [Request -> Bindings]
  <2>1. Verdict(Got(r)).vars \in Bindings
    BY <1>2 DEF Bindings, Got
  <2> QED
    BY <1>1, <2>1, HandleDoes
<1>5. /\ pc' \in [Request -> Places] /\ answer' \in [Request -> 0 .. 999]
      /\ pc'[r] \in {"executing", "answered"}
      /\ pc'[r] = "executing" => answer'[r] = 0
      /\ \A q \in Request \ {r} : pc'[q] = pc[q] /\ answer'[q] = answer[q]
  <2>1. CASE GoTo(r, "executing")
    <3>1. answer[r] = 0
      BY <1>2 DEF Inv, PlaceInv
    <3>2. pc' = [pc EXCEPT ![r] = "executing"] /\ answer' = answer
      BY <2>1 DEF GoTo
    <3> QED
      BY <1>1, <3>1, <3>2 DEF Places
  <2>2. CASE Answer(r, 401)
    BY <1>1, <2>2 DEF Answer, Places
  <2> QED
    BY <2>1, <2>2, HandleDoes
<1>6. TypeOK'
  BY <1>1, <1>2, <1>3, <1>4, <1>5, QuietKeepsTypes DEF TypeOK
<1>7. ASSUME NEW q \in Request
      PROVE  /\ pc'[q] # "idle" => contents'[q] \in DOMAIN Contents
             /\ pc'[q] = "limiting" => Got(q)'.endpoint \in Limited
             /\ pc'[q] \in {"idle", "limiting", "reading"} => request_id'[q] = 0
             /\ pc'[q] = "executing" => request_id'[q] # 0
             /\ pc'[q] # "answered" => answer'[q] = 0
  <2>1. contents' = contents /\ Got(q)' = Got(q)
    BY <1>2 DEF Got
  <2>2. CASE q = r
    BY <1>2, <1>3, <1>5, <2>1, <2>2
  <2>3. CASE q # r
    <3>1. pc'[q] = pc[q] /\ answer'[q] = answer[q] /\ request_id'[q] = request_id[q]
      BY <1>3, <1>5, <2>3
    <3> QED
      BY <2>1, <3>1 DEF Inv, PlaceInv
  <2> QED
    BY <2>2, <2>3
<1>8. PlaceInv'
  BY <1>7 DEF PlaceInv
<1> QED
  BY <1>6, <1>8 DEF Inv

\* The steps of a request keep the types and the places.
LEMMA RequestKeepsTypes ==
    ASSUME Inv, NEW r \in Request, Arrive(r) \/ Serve(r) \/ Drop(r)
    PROVE  Inv'
<1>1. CASE Arrive(r)
  BY <1>1, ArrivalsKeepTypes
<1>2. CASE Admitted(r)
  <2>1. /\ clock' \in 0 .. MaxTime
        /\ start' \in [Limited \X Address -> 0 .. MaxTime]
        /\ spent' \in [Limited \X Address -> 0 .. Limit]
    BY <1>2, AdmissionsKeepTypes
  <2>2. metrics' \in [requests : Nat, failures : Nat, rate_limited : Nat]
    BY <1>2, CountersKeepTypes DEF Admitted
  <2>3. pc[r] = "limiting" /\ request_id[r] = 0 /\ answer[r] = 0
    BY <1>2 DEF Admitted, Inv, PlaceInv
  <2>4. /\ pc' \in [Request -> Places] /\ answer' \in [Request -> 0 .. 999]
        /\ \A q \in Request \ {r} : pc'[q] = pc[q] /\ answer'[q] = answer[q]
        /\ pc'[r] = "reading" /\ answer'[r] = 0
    <3>1. PICK place \in Places : place = "reading"
      BY DEF Places
    <3>2. GoTo(r, place)
      BY <1>2, <3>1 DEF Admitted
    <3>3. pc[r] # "answered"
      BY <2>3
    <3> QED
      BY <3>1, <3>2, <3>3, GoingChanges
  <2>5. contents' = contents /\ request_id' = request_id /\ request_vars' = request_vars
    BY <1>2 DEF Admitted
  <2>6. admitted_at' \in [Request -> {-1} \cup 0 .. MaxTime]
    BY <1>2 DEF Admitted, Inv, TypeOK
  <2>7. Moves(r)
    BY <2>1, <2>2, <2>3, <2>4, <2>5, <2>6 DEF Moves
  <2> QED
    BY <2>7, MovesKeepTypes
<1>3. CASE Refused(r)
  <2>1. pc[r] # "idle" /\ \E status \in Statuses : Answer(r, status)
    BY <1>3 DEF Statuses, Refused
  <2>2. metrics' \in [requests : Nat, failures : Nat, rate_limited : Nat]
    BY <1>3, CountersKeepTypes DEF Refused
  <2>3. Moves(r)
    BY <1>3, <2>1, <2>2, AnswersMove DEF Refused
  <2> QED
    BY <2>3, MovesKeepTypes
<1>4. CASE ExtractorRejects(r)
  <2>1. pc[r] # "idle" /\ \E status \in Statuses : Answer(r, status)
    BY <1>4 DEF Statuses, ExtractorRejects
  <2>2. metrics' \in [requests : Nat, failures : Nat, rate_limited : Nat]
    BY <1>4, CountersKeepTypes DEF ExtractorRejects
  <2>3. Moves(r)
    BY <1>4, <2>1, <2>2, AnswersMove DEF ExtractorRejects
  <2> QED
    BY <2>3, MovesKeepTypes
<1>5. CASE Handle(r)
  BY <1>5, HandlingsKeepTypes
<1>6. CASE ExecuteSucceeds(r)
  <2> DEFINE own == EndpointOf(r).status
             reply == IF own \in 100 .. 999 THEN own ELSE 200
  <2>1. reply \in Statuses
    <3> HIDE DEF own
    <3> QED
      BY DEF Statuses
  <2>2. pc[r] # "idle" /\ Answer(r, reply)
    BY <1>6 DEF ExecuteSucceeds
  <2>3. \E status \in Statuses : Answer(r, status)
    <3> HIDE DEF reply
    <3> QED
      BY <2>1, <2>2
  <2>4. metrics' \in [requests : Nat, failures : Nat, rate_limited : Nat]
    BY <1>6, CountersKeepTypes DEF ExecuteSucceeds
  <2>5. /\ UNCHANGED limiter
        /\ contents' = contents /\ request_id' = request_id /\ request_vars' = request_vars
        /\ admitted_at' = admitted_at
    BY <1>6 DEF ExecuteSucceeds
  <2>6. Moves(r)
    BY <2>2, <2>3, <2>4, <2>5, AnswersMove
  <2> QED
    BY <2>6, MovesKeepTypes
<1>7. CASE ExecuteFails(r)
  <2>1. PICK error \in Errors : Answer(r, error_status(error))
    BY <1>7 DEF ExecuteFails
  <2>2. error_status(error) \in Statuses
    BY ErrorStatuses DEF Statuses
  <2>3. pc[r] # "idle" /\ \E status \in Statuses : Answer(r, status)
    BY <1>7, <2>1, <2>2 DEF ExecuteFails
  <2>4. metrics' \in [requests : Nat, failures : Nat, rate_limited : Nat]
    BY <1>7, CountersKeepTypes DEF ExecuteFails
  <2>5. Moves(r)
    BY <1>7, <2>3, <2>4, AnswersMove DEF ExecuteFails
  <2> QED
    BY <2>5, MovesKeepTypes
<1>8. CASE Drop(r)
  <2>1. pc[r] # "idle" /\ answer[r] = 0
    BY <1>8 DEF Drop, Inv, PlaceInv
  <2>2. /\ pc' \in [Request -> Places] /\ answer' \in [Request -> 0 .. 999]
        /\ \A q \in Request \ {r} : pc'[q] = pc[q] /\ answer'[q] = answer[q]
        /\ pc'[r] = "dropped" /\ answer'[r] = 0
    <3>1. PICK place \in Places : place = "dropped"
      BY DEF Places
    <3>2. GoTo(r, place) /\ pc[r] # "answered"
      BY <1>8, <3>1 DEF Drop
    <3> QED
      BY <3>1, <3>2, GoingChanges
  <2>3. /\ contents' = contents /\ request_id' = request_id /\ request_vars' = request_vars
        /\ UNCHANGED limiter /\ metrics' = metrics
        /\ admitted_at' \in [Request -> {-1} \cup 0 .. MaxTime]
    BY <1>8 DEF Drop, Inv, TypeOK
  <2>4. metrics' \in [requests : Nat, failures : Nat, rate_limited : Nat]
    BY <2>3, CountersKeepTypes
  <2>5. Moves(r)
    BY <2>1, <2>2, <2>3, <2>4, QuietKeepsTypes DEF Moves
  <2> QED
    BY <2>5, MovesKeepTypes
<1> QED
  BY <1>1, <1>2, <1>3, <1>4, <1>5, <1>6, <1>7, <1>8 DEF Serve

\* A step of a request leaves all others alone.
LEMMA StepsChangeOne ==
    ASSUME Inv, NEW r \in Request, Arrive(r) \/ Serve(r) \/ Drop(r), NEW q \in Request, q # r
    PROVE  /\ pc'[q] = pc[q] /\ answer'[q] = answer[q] /\ contents'[q] = contents[q]
           /\ request_id'[q] = request_id[q] /\ request_vars'[q] = request_vars[q]
           /\ admitted_at'[q] = admitted_at[q]
<1>1. /\ pc \in [Request -> Places] /\ answer \in [Request -> 0 .. 999]
      /\ contents \in [Request -> DOMAIN Contents \cup {0}]
      /\ request_id \in [Request -> Nat] /\ request_vars \in [Request -> Bindings]
      /\ admitted_at \in [Request -> {-1} \cup 0 .. MaxTime]
  BY DEF Inv, TypeOK
<1>2. ASSUME NEW place, GoTo(r, place) PROVE pc'[q] = pc[q] /\ answer'[q] = answer[q]
  BY <1>1, <1>2 DEF GoTo
<1>3. ASSUME NEW status, Answer(r, status) PROVE pc'[q] = pc[q] /\ answer'[q] = answer[q]
  BY <1>1, <1>3 DEF Answer
<1>4. CASE Arrive(r)
  <2>1. PICK c \in DOMAIN Contents :
          /\ contents' = [contents EXCEPT ![r] = c]
          /\ GoTo(r, IF Endpoints[Contents[c].endpoint].limited THEN "limiting" ELSE "reading")
    BY <1>4 DEF Arrive
  <2>2. contents'[q] = contents[q]
    BY <1>1, <2>1
  <2>3. pc'[q] = pc[q] /\ answer'[q] = answer[q]
    BY <1>2, <2>1
  <2> QED
    BY <1>4, <2>2, <2>3 DEF Arrive
<1>5. CASE Admitted(r)
  <2>1. admitted_at'[q] = admitted_at[q]
    BY <1>1, <1>5 DEF Admitted
  <2> QED
    BY <1>2, <1>5, <2>1 DEF Admitted
<1>6. CASE Refused(r)
  BY <1>3, <1>6 DEF Refused
<1>7. CASE ExtractorRejects(r)
  BY <1>3, <1>7 DEF ExtractorRejects
<1>8. CASE Handle(r)
  <2>1. pc'[q] = pc[q] /\ answer'[q] = answer[q]
    BY <1>2, <1>3, <1>8, HandleDoes
  <2>2. request_id'[q] = request_id[q] /\ request_vars'[q] = request_vars[q]
    BY <1>1, <1>8, HandleDoes
  <2>3. contents' = contents /\ admitted_at' = admitted_at
    BY <1>8, HandleDoes
  <2> QED
    BY <2>1, <2>2, <2>3
<1>9. CASE ExecuteSucceeds(r)
  BY <1>3, <1>9 DEF ExecuteSucceeds
<1>10. CASE ExecuteFails(r)
  BY <1>3, <1>10 DEF ExecuteFails
<1>11. CASE Drop(r)
  BY <1>2, <1>11 DEF Drop
<1> QED
  BY <1>4, <1>5, <1>6, <1>7, <1>8, <1>9, <1>10, <1>11 DEF Serve

LEMMA Invariance == Spec => []Inv
<1>1. Inv /\ [Next]_vars => Inv'
  <2> SUFFICES ASSUME Inv, [Next]_vars PROVE Inv'
    OBVIOUS
  <2>1. CASE UNCHANGED vars
    BY <2>1 DEF vars, Inv, TypeOK, PlaceInv, Got
  <2>2. CASE \E r \in Request : Arrive(r) \/ Serve(r) \/ Drop(r)
    BY <2>2, RequestKeepsTypes
  <2>3. CASE Background
    BY <2>3, BackgroundKeepsTypes
  <2> QED
    BY <2>1, <2>2, <2>3 DEF Next
<1> QED
  BY <1>1, TypeInit, PTL DEF Spec

\* Types: the variables of the pipeline keep theirs, for any contents and limits.
THEOREM TypeCorrect == Spec => []TypeOK
BY Invariance, PTL DEF Inv

-----------------------------------------------------------------------------
(* Limits.                                                                  *)

\* Counting one request more.
LEMMA OneMore ==
    ASSUME NEW S, S \subseteq Request, NEW r, r \notin S
    PROVE  Cardinality(S \cup {r}) = Cardinality(S) + 1
<1>1. IsFiniteSet(Request)
  BY FS_Interval, PipelineAssumption DEF Request
<1>2. IsFiniteSet(S)
  BY <1>1, FS_Subset
<1> QED
  BY <1>2, FS_AddElement

\* A part of a set of requests is no larger than the set, and counts are numbers.
LEMMA PartsCount ==
    ASSUME NEW T, T \subseteq Request, NEW S, S \subseteq T
    PROVE  /\ IsFiniteSet(S) /\ IsFiniteSet(T)
           /\ Cardinality(S) \in Nat /\ Cardinality(T) \in Nat
           /\ Cardinality(S) <= Cardinality(T)
           /\ Cardinality(S) = Cardinality(T) => S = T
<1>1. IsFiniteSet(Request)
  BY FS_Interval, PipelineAssumption DEF Request
<1>2. IsFiniteSet(T)
  BY <1>1, FS_Subset
<1> QED
  BY <1>2, FS_Subset, FS_CardinalityType

\* What a limiter has let past for a key, and that after and before a time.
Charged(k) == {q \in Request : admitted_at[q] >= 0 /\ Key(q) = k}
Since(k, time) == {q \in Charged(k) : admitted_at[q] >= time}
Before(k, time) == {q \in Charged(k) : admitted_at[q] > time - Window /\ admitted_at[q] < time}

\* A window holds the requests let past since its start, at which there was one; those
\* of the window before it, one of which came at its start, have less than
\* Limit left in the time before this one.
WindowInv(k) ==
    IF spent[k] = 0
      THEN Since(k, clock) = {} /\ Cardinality(Before(k, clock)) < Limit
      ELSE /\ start[k] <= clock
           /\ Since(k, start[k] + Window) = {}
           /\ \E q \in Charged(k) : admitted_at[q] = start[k]
           /\ Cardinality(Since(k, start[k])) = spent[k]
           /\ Cardinality(Before(k, start[k])) < Limit

BudgetInv ==
    /\ \A r \in Request : pc[r] \in {"idle", "limiting"} => admitted_at[r] = -1
    /\ \A k \in Limited \X Address : WindowInv(k)

\* A request that is named is limited by the name.
LEMMA NamedKey ==
    ASSUME NEW c \in DOMAIN Contents, Named(Contents[c])
    PROVE  client_ip_key(Contents[c]) = Contents[c].from
<1> DEFINE content == Contents[c]
<1>1. content.from \in Address /\ (content.forwarded_for # << >> => 1 \in DOMAIN content.forwarded_for)
  BY PipelineAssumption
<1> HIDE DEF content
<1>2. Named(content)
  BY DEF content
<1>3. CASE content.peer \notin TrustedProxies
  BY <1>2, <1>3 DEF Named, client_ip_key, content
<1>4. CASE /\ content.peer \in TrustedProxies /\ content.forwarded_for # << >>
           /\ content.forwarded_for[1] = content.from
  BY <1>1, <1>4 DEF client_ip_key, header_ip, content
<1>5. CASE /\ content.peer \in TrustedProxies
           /\ \A i \in DOMAIN content.forwarded_for : content.forwarded_for[i] \notin Address
           /\ content.real_ip # << >> /\ content.real_ip[1] = content.from
  <2>1. header_ip(content.forwarded_for) = {}
    BY <1>1, <1>5 DEF header_ip
  <2>2. header_ip(content.real_ip) = {content.from}
    BY <1>1, <1>5 DEF header_ip
  <2> QED
    BY <1>5, <2>1, <2>2 DEF client_ip_key, content
<1> QED
  BY <1>2, <1>3, <1>4, <1>5 DEF Named

LEMMA BudgetInit == Init => BudgetInv
<1> SUFFICES ASSUME Init PROVE BudgetInv
  OBVIOUS
<1>1. \A r \in Request : admitted_at[r] = -1
  BY DEF Init
<1>2. ASSUME NEW k \in Limited \X Address PROVE WindowInv(k)
  <2>1. Charged(k) = {}
    BY <1>1 DEF Charged
  <2>2. Since(k, clock) = {} /\ Before(k, clock) = {}
    BY <2>1 DEF Since, Before
  <2>3. spent[k] = 0
    BY DEF Init, Limiter!WindowInit
  <2> QED
    BY <2>2, <2>3, FS_EmptySet, PipelineAssumption DEF WindowInv
<1> QED
  BY <1>1, <1>2 DEF BudgetInv

\* The types the windows rest on.
LEMMA WindowTypes ==
    ASSUME Inv, NEW k \in Limited \X Address
    PROVE  /\ clock \in Nat /\ start[k] \in Nat /\ spent[k] \in 0 .. Limit
           /\ Limit \in Nat \ {0} /\ Window \in Nat \ {0}
           /\ \A q \in Request : admitted_at[q] \in Int
           /\ Charged(k) \subseteq Request
<1>1. \A q \in Request : admitted_at[q] \in {-1} \cup 0 .. MaxTime
  BY DEF Inv, TypeOK
<1> QED
  BY <1>1, PipelineAssumption DEF Inv, TypeOK, Charged

\* As time passes less of it is in reach.
LEMMA TicksKeepBudget ==
    ASSUME Inv, BudgetInv, Limiter!Tick, UNCHANGED <<contents, pc, admitted_at>>
    PROVE  BudgetInv'
<1>1. clock' = clock + 1 /\ start' = start /\ spent' = spent
  BY DEF Limiter!Tick
<1>2. ASSUME NEW k \in Limited \X Address PROVE WindowInv(k)'
  <2>1. Charged(k)' = Charged(k)
    BY DEF Charged, Key, Got
  <2>2. WindowInv(k)
    BY DEF BudgetInv
  <2>3. CASE spent[k] = 0
    <3>1. Since(k, clock)' = {}
      BY <1>1, <2>1, <2>2, <2>3, WindowTypes DEF Since, WindowInv
    <3>2. Before(k, clock)' \subseteq Before(k, clock) /\ Before(k, clock) \subseteq Request
      BY <1>1, <2>1, <2>2, <2>3, WindowTypes DEF Since, Before, WindowInv
    <3>3. Cardinality(Before(k, clock)') < Limit
      BY <2>2, <2>3, <3>2, PartsCount, WindowTypes DEF WindowInv
    <3> QED
      BY <1>1, <2>3, <3>1, <3>3 DEF WindowInv
  <2>4. CASE spent[k] # 0
    <3>1. /\ Since(k, start[k] + Window)' = Since(k, start[k] + Window)
          /\ Since(k, start[k])' = Since(k, start[k])
          /\ Before(k, start[k])' = Before(k, start[k])
      BY <1>1, <2>1 DEF Since, Before
    <3>2. start'[k] <= clock'
      BY <1>1, <2>2, <2>4, WindowTypes DEF WindowInv
    <3> QED
      BY <1>1, <2>1, <2>2, <2>4, <3>1, <3>2 DEF WindowInv
  <2> QED
    BY <2>3, <2>4
<1> QED
  BY <1>2 DEF BudgetInv

\* A window that is over has let nothing past for as long as it has been.
LEMMA OverWindows ==
    ASSUME Inv, BudgetInv, NEW k \in Limited \X Address, Limiter!Over(k, clock)
    PROVE  Since(k, clock) = {} /\ Cardinality(Before(k, clock)) < Limit
<1>1. WindowInv(k)
  BY DEF BudgetInv
<1>2. CASE spent[k] = 0
  BY <1>1, <1>2 DEF WindowInv
<1>3. CASE spent[k] # 0
  <2>1. clock >= start[k] + Window
    BY <1>3 DEF Limiter!Over
  <2>2. Since(k, clock) = {}
    BY <1>1, <1>3, <2>1, WindowTypes DEF WindowInv, Since
  <2>3. PICK q \in Charged(k) : admitted_at[q] = start[k]
    BY <1>1, <1>3 DEF WindowInv
  <2>4. /\ Before(k, clock) \subseteq Since(k, start[k]) /\ Since(k, start[k]) \subseteq Request
        /\ q \in Since(k, start[k]) /\ q \notin Before(k, clock)
    BY <2>1, <2>3, WindowTypes DEF Before, Since
  <2>5. Cardinality(Before(k, clock)) < Cardinality(Since(k, start[k]))
    BY <2>4, PartsCount
  <2>6. Cardinality(Before(k, clock)) \in Nat
    BY <2>4, PartsCount
  <2> QED
    BY <1>1, <1>3, <2>2, <2>5, <2>6, WindowTypes DEF WindowInv
<1> QED
  BY <1>2, <1>3

LEMMA CleanUpsKeepBudget ==
    ASSUME Inv, BudgetInv, Limiter!Forget, UNCHANGED <<contents, pc, admitted_at>>
    PROVE  BudgetInv'
<1>1. PICK C \in SUBSET {k \in Limited \X Address : Limiter!Over(k, clock)} :
        /\ spent' = [k \in Limited \X Address |-> IF k \in C THEN 0 ELSE spent[k]]
        /\ start' = [k \in Limited \X Address |-> IF k \in C THEN 0 ELSE start[k]]
  BY DEF Limiter!Forget
<1>2. clock' = clock
  BY DEF Limiter!Forget
<1>3. ASSUME NEW k \in Limited \X Address PROVE WindowInv(k)'
  <2>1. Charged(k)' = Charged(k)
    BY DEF Charged, Key, Got
  <2>2. Since(k, clock)' = Since(k, clock) /\ Before(k, clock)' = Before(k, clock)
    BY <1>2, <2>1 DEF Since, Before
  <2>3. CASE k \in C
    <3>1. Since(k, clock) = {} /\ Cardinality(Before(k, clock)) < Limit
      BY <1>1, <2>3, OverWindows
    <3>2. spent'[k] = 0
      BY <1>1, <2>3
    <3> QED
      BY <2>2, <3>1, <3>2 DEF WindowInv
  <2>4. CASE k \notin C
    <3>1. spent'[k] = spent[k] /\ start'[k] = start[k]
      BY <1>1, <2>4
    <3>2. /\ Since(k, start[k] + Window)' = Since(k, start[k] + Window)
          /\ Since(k, start[k])' = Since(k, start[k])
          /\ Before(k, start[k])' = Before(k, start[k])
      BY <2>1, <3>1 DEF Since, Before
    <3> QED
      BY <1>2, <2>1, <2>2, <3>1, <3>2 DEF BudgetInv, WindowInv
  <2> QED
    BY <2>3, <2>4
<1> QED
  BY <1>3 DEF BudgetInv

\* An admission is charged to its own key, and to no other.
LEMMA AdmissionsCharge ==
    ASSUME Inv, BudgetInv, NEW r \in Request, Admitted(r), NEW own, own = Key(r)
    PROVE  /\ r \notin Charged(own) /\ admitted_at'[r] = clock
           /\ \A q \in Request \ {r} : admitted_at'[q] = admitted_at[q]
           /\ Charged(own)' = Charged(own) \cup {r}
           /\ \A k : k # own => Charged(k)' = Charged(k)
<1>1. /\ pc[r] = "limiting" /\ contents' = contents
      /\ admitted_at' = [admitted_at EXCEPT ![r] = clock]
  BY DEF Admitted
<1>2. admitted_at \in [Request -> {-1} \cup 0 .. MaxTime] /\ clock \in 0 .. MaxTime
  BY DEF Inv, TypeOK
<1>3. admitted_at[r] = -1
  BY <1>1 DEF BudgetInv
<1>4. \A q \in Request : Key(q)' = Key(q)
  BY <1>1 DEF Key, Got
<1>5. admitted_at'[r] = clock /\ clock >= 0
  BY <1>1, <1>2
<1>6. \A q \in Request \ {r} : admitted_at'[q] = admitted_at[q]
  BY <1>1, <1>2
<1>7. r \notin Charged(own)
  BY <1>3 DEF Charged
<1>8. ASSUME NEW k, NEW q \in Request
      PROVE  q \in Charged(k)' <=> (q \in Charged(k) \/ (q = r /\ k = own))
  <2>1. CASE q = r
    BY <1>3, <1>4, <1>5, <2>1 DEF Charged
  <2>2. CASE q # r
    BY <1>4, <1>6, <2>2 DEF Charged
  <2> QED
    BY <2>1, <2>2
<1> HIDE DEF Key
<1>9. \A k : Charged(k) \subseteq Request /\ Charged(k)' \subseteq Request
  BY DEF Charged
<1> QED
  BY <1>5, <1>6, <1>7, <1>8, <1>9

LEMMA AdmissionsKeepBudget ==
    ASSUME Inv, BudgetInv, NEW r \in Request, Admitted(r)
    PROVE  \A k \in Limited \X Address : WindowInv(k)'
<1>1. PICK own \in Limited \X Address : own = Key(r)
  BY LimitedKey DEF Admitted
<1>2. /\ r \notin Charged(own) /\ admitted_at'[r] = clock
      /\ \A q \in Request \ {r} : admitted_at'[q] = admitted_at[q]
      /\ Charged(own)' = Charged(own) \cup {r}
      /\ \A k : k # own => Charged(k)' = Charged(k)
  BY <1>1, AdmissionsCharge
<1>3. Limiter!Admit(own, clock) /\ clock' = clock
  BY <1>1 DEF Admitted, Limiter!Admit
<1>4. /\ spent \in [Limited \X Address -> 0 .. Limit]
      /\ start \in [Limited \X Address -> 0 .. MaxTime]
  BY DEF Inv, TypeOK
<1>5. ASSUME NEW k \in Limited \X Address, k # own PROVE WindowInv(k)'
  <2>1. spent'[k] = spent[k] /\ start'[k] = start[k]
    BY <1>3, <1>4, <1>5 DEF Limiter!Admit
  <2>2. Charged(k)' = Charged(k) /\ r \notin Charged(k)
    <3>1. r \notin Charged(k)
      BY <1>1, <1>5 DEF Charged
    <3> QED
      BY <1>2, <1>5, <3>1
  <2>3. \A q \in Charged(k) : admitted_at'[q] = admitted_at[q]
    BY <1>2, <2>2 DEF Charged
  <2>4. /\ Since(k, clock)' = Since(k, clock) /\ Before(k, clock)' = Before(k, clock)
        /\ Since(k, start[k] + Window)' = Since(k, start[k] + Window)
        /\ Since(k, start[k])' = Since(k, start[k])
        /\ Before(k, start[k])' = Before(k, start[k])
    BY <1>3, <2>1, <2>2, <2>3 DEF Since, Before
  <2> QED
    BY <1>3, <2>1, <2>2, <2>3, <2>4 DEF BudgetInv, WindowInv
<1>6. ASSUME Limiter!Over(own, clock) PROVE WindowInv(own)'
  <2>1. spent'[own] = 1 /\ start'[own] = clock
    BY <1>3, <1>4, <1>6 DEF Limiter!Admit
  <2>2. Since(own, clock) = {} /\ Cardinality(Before(own, clock)) < Limit
    BY <1>6, OverWindows
  <2>3. \A q \in Charged(own) : admitted_at'[q] = admitted_at[q] /\ admitted_at[q] < clock
    BY <1>2, <2>2, WindowTypes DEF Since, Charged
  <2>4. Since(own, start[own])' = {r}
    BY <1>2, <2>1, <2>3, WindowTypes DEF Since
  <2>5. Before(own, start[own])' = Before(own, clock)
    BY <1>2, <2>1, <2>3, WindowTypes DEF Before
  <2>6. Since(own, start[own] + Window)' = {}
    BY <1>2, <2>1, <2>3, WindowTypes DEF Since
  <2>7. \E q \in Charged(own)' : admitted_at'[q] = start'[own]
    BY <1>2, <2>1
  <2>8. Cardinality({r}) = 1
    BY FS_Singleton
  <2>9. start'[own] <= clock'
    BY <1>3, <2>1, WindowTypes
  <2> QED
    BY <2>1, <2>2, <2>4, <2>5, <2>6, <2>7, <2>8, <2>9 DEF WindowInv
<1>7. ASSUME ~Limiter!Over(own, clock) PROVE WindowInv(own)'
  <2>1. spent'[own] = spent[own] + 1 /\ start'[own] = start[own]
    BY <1>3, <1>4, <1>7 DEF Limiter!Admit
  <2>2. /\ spent[own] # 0 /\ clock < start[own] + Window
        /\ spent[own] \in Nat
    BY <1>7, WindowTypes DEF Limiter!Over
  <2>3. /\ start[own] <= clock /\ Since(own, start[own] + Window) = {}
        /\ \E q \in Charged(own) : admitted_at[q] = start[own]
        /\ Cardinality(Since(own, start[own])) = spent[own]
        /\ Cardinality(Before(own, start[own])) < Limit
    BY <2>2 DEF BudgetInv, WindowInv
  <2>4. \A q \in Charged(own) : admitted_at'[q] = admitted_at[q]
    BY <1>2 DEF Charged
  <2>5. Since(own, start[own])' = Since(own, start[own]) \cup {r}
    BY <1>2, <2>1, <2>3, <2>4, WindowTypes DEF Since
  <2>6. Before(own, start[own])' = Before(own, start[own])
    BY <1>2, <2>1, <2>3, <2>4, WindowTypes DEF Before
  <2>7. Since(own, start[own] + Window)' = {}
    BY <1>2, <2>1, <2>2, <2>3, <2>4, WindowTypes DEF Since
  <2>8. Cardinality(Since(own, start[own])') = spent'[own]
    <3>1. Since(own, start[own]) \subseteq Request /\ r \notin Since(own, start[own])
      BY <1>2 DEF Since, Charged
    <3>2. Cardinality(Since(own, start[own]) \cup {r}) = Cardinality(Since(own, start[own])) + 1
      BY <3>1, OneMore
    <3> QED
      BY <2>1, <2>3, <2>5, <3>2
  <2>9. \E q \in Charged(own)' : admitted_at'[q] = start'[own]
    BY <1>2, <2>1, <2>3, <2>4
  <2>10. spent'[own] # 0 /\ start'[own] <= clock'
    BY <1>3, <2>1, <2>2, <2>3
  <2> QED
    BY <2>1, <2>3, <2>6, <2>7, <2>8, <2>9, <2>10 DEF WindowInv
<1> QED
  BY <1>5, <1>6, <1>7

\* Other steps let nothing past, and what has been let past stays what it is.
LEMMA OthersKeepBudget ==
    ASSUME Inv, BudgetInv, NEW r \in Request, Arrive(r) \/ Serve(r) \/ Drop(r), ~Admitted(r)
    PROVE  \A k \in Limited \X Address : WindowInv(k)'
<1>1. UNCHANGED <<clock, start, spent, admitted_at>>
  BY DEF Arrive, Serve, Drop, Refused, ExtractorRejects, Handle, ExecuteSucceeds, ExecuteFails,
         limiter
<1>2. ASSUME NEW q \in Request, admitted_at[q] >= 0 PROVE Key(q)' = Key(q)
  <2>1. pc[q] # "idle"
    BY <1>2 DEF BudgetInv
  <2>2. contents'[q] = contents[q]
    <3>1. CASE q # r
      BY <3>1, StepsChangeOne
    <3>2. CASE q = r
      <4>1. ~Arrive(r)
        BY <2>1, <3>2 DEF Arrive
      <4> QED
        BY <3>2, <4>1 DEF Serve, Drop, Refused, ExtractorRejects, Handle, ExecuteSucceeds,
                          ExecuteFails
    <3> QED
      BY <3>1, <3>2
  <2> QED
    BY <2>2 DEF Key, Got
<1>3. ASSUME NEW k \in Limited \X Address PROVE WindowInv(k)'
  <2>1. Charged(k)' = Charged(k)
    <3>1. \A q \in Request : q \in Charged(k)' <=> q \in Charged(k)
      <4> HIDE DEF Key
      <4> QED
        BY <1>1, <1>2 DEF Charged
    <3>2. Charged(k) \subseteq Request /\ Charged(k)' \subseteq Request
      BY DEF Charged
    <3> QED
      BY <3>1, <3>2
  <2>2. WindowInv(k)
    BY DEF BudgetInv
  <2> QED
    BY <1>1, <2>1, <2>2 DEF WindowInv, Since, Before
<1> QED
  BY <1>3

\* A request that has not been let past has no time.
LEMMA TimesKept ==
    ASSUME Inv, BudgetInv, NEW r \in Request, Arrive(r) \/ Serve(r) \/ Drop(r), NEW q \in Request,
           pc'[q] \in {"idle", "limiting"}
    PROVE  admitted_at'[q] = -1
<1>1. CASE q # r
  <2>1. pc'[q] = pc[q] /\ admitted_at'[q] = admitted_at[q]
    BY <1>1, StepsChangeOne
  <2> QED
    BY <2>1 DEF BudgetInv
<1>2. CASE q = r
  <2>1. pc \in [Request -> Places]
    BY DEF Inv, TypeOK
  <2>2. ~Admitted(r) /\ ~Drop(r)
    BY <1>2, <2>1 DEF Admitted, Drop, GoTo
  <2>3. ~Refused(r) /\ ~ExtractorRejects(r) /\ ~ExecuteSucceeds(r) /\ ~ExecuteFails(r)
    BY <1>2, <2>1 DEF Refused, ExtractorRejects, ExecuteSucceeds, ExecuteFails, Answer
  <2>4. ~Handle(r)
    BY <1>2, <2>1, HandleDoes DEF GoTo, Answer
  <2>5. Arrive(r)
    BY <2>2, <2>3, <2>4 DEF Serve
  <2> QED
    BY <1>2, <2>5 DEF Arrive, BudgetInv
<1> QED
  BY <1>1, <1>2

LEMMA BudgetInvariance == Spec => []BudgetInv
<1>1. Inv /\ BudgetInv /\ [Next]_vars => BudgetInv'
  <2> SUFFICES ASSUME Inv, BudgetInv, [Next]_vars PROVE BudgetInv'
    OBVIOUS
  <2>1. CASE UNCHANGED vars
    <3>1. UNCHANGED <<clock, start, spent, contents, pc, admitted_at>>
      BY <2>1 DEF vars
    <3>2. ASSUME NEW k \in Limited \X Address PROVE WindowInv(k)'
      <4>1. Charged(k)' = Charged(k)
        <5>1. \A q \in Request : Key(q)' = Key(q)
          BY <3>1 DEF Key, Got
        <5> QED
          BY <3>1, <5>1 DEF Charged
      <4>2. WindowInv(k)
        BY DEF BudgetInv
      <4> QED
        BY <3>1, <4>1, <4>2 DEF WindowInv, Since, Before
    <3> QED
      BY <3>1, <3>2 DEF BudgetInv
  <2>2. CASE Background
    BY <2>2, TicksKeepBudget, CleanUpsKeepBudget DEF Background
  <2>3. ASSUME NEW r \in Request, Arrive(r) \/ Serve(r) \/ Drop(r) PROVE BudgetInv'
    <3>1. \A k \in Limited \X Address : WindowInv(k)'
      BY <2>3, AdmissionsKeepBudget, OthersKeepBudget
    <3>2. \A q \in Request : pc'[q] \in {"idle", "limiting"} => admitted_at'[q] = -1
      BY <2>3, TimesKept
    <3> QED
      BY <3>1, <3>2 DEF BudgetInv
  <2> QED
    BY <2>1, <2>2, <2>3 DEF Next
<1> QED
  BY <1>1, BudgetInit, Invariance, PTL DEF Spec

\* In the length of a window less than twice Limit is charged to a key.
LEMMA KeysBounded ==
    ASSUME Inv, BudgetInv, NEW k \in Limited \X Address
    PROVE  Cardinality(Since(k, clock - Window + 1)) < 2 * Limit
<1> DEFINE recent == Since(k, clock - Window + 1)
<1>1. recent \subseteq Request /\ WindowInv(k)
  BY DEF Since, Charged, BudgetInv
<1>2. CASE spent[k] = 0
  <2>1. recent \subseteq Before(k, clock) /\ Before(k, clock) \subseteq Request
    BY <1>1, <1>2, WindowTypes DEF Since, Before, WindowInv
  <2> HIDE DEF recent
  <2>2. Cardinality(recent) <= Cardinality(Before(k, clock)) /\ Cardinality(recent) \in Nat
        /\ Cardinality(Before(k, clock)) \in Nat
    BY <2>1, PartsCount
  <2>3. Cardinality(recent) < 2 * Limit
    BY <1>1, <1>2, <2>2, WindowTypes DEF WindowInv
  <2> QED
    BY <2>3 DEF recent
<1>3. CASE spent[k] # 0
  <2> DEFINE now == Since(k, start[k])
             then == Before(k, start[k])
  <2>1. now \subseteq Request /\ then \subseteq Request
    BY DEF Since, Before, Charged
  <2>2. recent \subseteq now \cup then
    BY <1>1, <1>3, WindowTypes DEF Since, Before, WindowInv
  <2>3. Cardinality(now) <= Limit /\ Cardinality(then) < Limit
    BY <1>1, <1>3, WindowTypes DEF WindowInv
  <2> HIDE DEF now, then, recent
  <2>4. /\ IsFiniteSet(now) /\ Cardinality(now) \in Nat
        /\ IsFiniteSet(then) /\ Cardinality(then) \in Nat
    BY <2>1, PartsCount
  <2>5. Cardinality(now \cup then) <= Cardinality(now) + Cardinality(then)
    <3>1. now \cap then \subseteq now
      OBVIOUS
    <3>2. Cardinality(now \cap then) \in Nat
      BY <2>1, <3>1, PartsCount
    <3>3. Cardinality(now \cup then)
            = Cardinality(now) + Cardinality(then) - Cardinality(now \cap then)
      BY <2>4, FS_Union
    <3> QED
      BY <2>4, <3>2, <3>3
  <2>6. now \cup then \subseteq Request
    BY <2>1
  <2>7. /\ Cardinality(recent) <= Cardinality(now \cup then)
        /\ Cardinality(recent) \in Nat /\ Cardinality(now \cup then) \in Nat
    BY <2>2, <2>6, PartsCount
  <2>8. Limit \in Nat
    BY PipelineAssumption
  <2> QED
    BY <2>3, <2>4, <2>5, <2>7, <2>8 DEF recent
<1> QED
  BY <1>2, <1>3, WindowTypes

\* What is charged to the name of a client is its own, or not named.
LEMMA ChargedAreOwn ==
    ASSUME Inv, BudgetInv, NEW a \in Address, NEW e \in Limited
    PROVE  /\ Recent(NamedOf(a), e) \subseteq Since(<<e, a>>, clock - Window + 1)
           /\ Since(<<e, a>>, clock - Window + 1) \subseteq Recent(NamedOf(a) \cup Unnamed, e)
<1> DEFINE k == <<e, a>>
<1>1. k \in Limited \X Address
  OBVIOUS
<1>2. /\ clock \in Nat /\ Window \in Nat /\ \A q \in Request : admitted_at[q] \in Int
  BY <1>1, WindowTypes
<1>3. ASSUME NEW q \in Request, pc[q] # "idle", Named(Got(q))
      PROVE  Key(q) = <<Got(q).endpoint, Got(q).from>>
  <2>1. contents[q] \in DOMAIN Contents
    BY <1>3 DEF Inv, PlaceInv
  <2> QED
    BY <1>3, <2>1, NamedKey DEF Key, Got
<1>4. ASSUME NEW q \in Recent(NamedOf(a), e) PROVE q \in Since(k, clock - Window + 1)
  <2>1. /\ q \in Request /\ pc[q] # "idle" /\ Named(Got(q)) /\ Got(q).from = a
        /\ Got(q).endpoint = e /\ admitted_at[q] >= 0 /\ admitted_at[q] > clock - Window
    BY <1>4 DEF Recent, NamedOf
  <2>2. Key(q) = k
    BY <1>3, <2>1
  <2> QED
    BY <1>2, <2>1, <2>2 DEF Since, Charged
<1>5. ASSUME NEW q \in Since(k, clock - Window + 1) PROVE q \in Recent(NamedOf(a) \cup Unnamed, e)
  <2>1. /\ q \in Request /\ admitted_at[q] >= 0 /\ Key(q) = k
        /\ admitted_at[q] >= clock - Window + 1
    BY <1>5 DEF Since, Charged
  <2>2. pc[q] # "idle"
    BY <2>1 DEF BudgetInv
  <2>3. Got(q).endpoint = e
    BY <2>1 DEF Key
  <2>4. q \in NamedOf(a) \cup Unnamed
    <3>1. CASE Named(Got(q))
      <4>1. Got(q).from = a
        BY <1>3, <2>1, <2>2, <3>1
      <4> QED
        BY <2>1, <2>2, <3>1, <4>1 DEF NamedOf
    <3>2. CASE ~Named(Got(q))
      BY <2>1, <2>2, <3>2 DEF Unnamed
    <3> QED
      BY <3>1, <3>2
  <2> QED
    BY <1>2, <2>1, <2>3, <2>4 DEF Recent
<1> QED
  BY <1>4, <1>5

\* Only the limiter answers a request at the limiter.
LEMMA OnlyRefusalsAnswer ==
    ASSUME Inv, Next, NEW r \in Request, pc[r] = "limiting", pc'[r] = "answered"
    PROVE  Refused(r)
<1> USE DEF Inv, TypeOK, Places, GoTo, Answer
<1>1. CASE Background
  BY <1>1 DEF Background
<1>2. ASSUME NEW q \in Request, Arrive(q) \/ Serve(q) \/ Drop(q)
      PROVE  Refused(r)
  <2>1. q = r
    BY <1>2, StepsChangeOne
  <2>2. ~Arrive(r) /\ ~Drop(r) /\ ~Admitted(r)
    BY DEF Arrive, Drop, Admitted
  <2>3. ~ExtractorRejects(r) /\ ~Handle(r) /\ ~ExecuteSucceeds(r) /\ ~ExecuteFails(r)
    BY DEF ExtractorRejects, Handle, ExecuteSucceeds, ExecuteFails
  <2> QED
    BY <1>2, <2>1, <2>2, <2>3 DEF Serve
<1> QED
  BY <1>1, <1>2 DEF Next

\* A client that is named is refused for what it was let past itself, or unnamed requests.
LEMMA RefusalsAreOwn ==
    ASSUME Inv, BudgetInv, NEW r \in Request, Refused(r), Named(Got(r))
    PROVE  LET e == Got(r).endpoint
               a == Got(r).from
           IN  \/ Cardinality(Recent(NamedOf(a) \cup Unnamed, e)) >= Limit
               \/ spent[<<e, a>>] = 0
<1> DEFINE e == Got(r).endpoint
           a == Got(r).from
           k == <<e, a>>
<1>1. /\ pc[r] = "limiting" /\ contents[r] \in DOMAIN Contents
      /\ \/ spent[Key(r)] = Limit /\ ~Limiter!Over(Key(r), clock)
         \/ spent[Key(r)] = 0
  BY DEF Refused, Inv, PlaceInv
<1>2. Key(r) = k /\ k \in Limited \X Address
  BY <1>1, NamedKey, LimitedKey DEF Key, Got
<1>3. a \in Address /\ e \in Limited
  BY <1>2
<1> HIDE DEF e, a
<1>4. CASE spent[k] = Limit /\ ~Limiter!Over(k, clock)
  <2>1. clock < start[k] + Window /\ spent[k] # 0
    BY <1>2, <1>4, WindowTypes DEF Limiter!Over
  <2>2. Cardinality(Since(k, start[k])) = Limit
    BY <1>2, <1>4, <2>1 DEF BudgetInv, WindowInv
  <2>3. Since(k, start[k]) \subseteq Since(k, clock - Window + 1)
    BY <1>2, <2>1, WindowTypes DEF Since
  <2>4. Since(k, start[k]) \subseteq Recent(NamedOf(a) \cup Unnamed, e)
    BY <1>3, <2>3, ChargedAreOwn
  <2>5. Recent(NamedOf(a) \cup Unnamed, e) \subseteq Request
    BY DEF Recent, NamedOf, Unnamed
  <2> QED
    BY <2>2, <2>4, <2>5, PartsCount DEF e, a
<1> QED
  BY <1>1, <1>2, <1>4 DEF e, a

\* Clients: whatever else the headers of its requests say, and whatever other clients do,
\* a client that is named keeps within its budget and is not refused for the
\* requests of another that is named.
THEOREM ClientsLimited == Spec => ClientsKeepTheirBudgets
<1>1. Inv /\ BudgetInv =>
        \A a \in Address, e \in Limited : Cardinality(Recent(NamedOf(a), e)) < 2 * Limit
  <2> SUFFICES ASSUME Inv, BudgetInv, NEW a \in Address, NEW e \in Limited
               PROVE  Cardinality(Recent(NamedOf(a), e)) < 2 * Limit
    OBVIOUS
  <2> DEFINE all == Since(<<e, a>>, clock - Window + 1)
             recent == Recent(NamedOf(a), e)
  <2>1. Cardinality(all) < 2 * Limit
    BY KeysBounded
  <2>2. recent \subseteq all /\ all \subseteq Request
    BY ChargedAreOwn DEF Since, Charged
  <2> HIDE DEF all, recent
  <2>3. /\ Cardinality(recent) <= Cardinality(all)
        /\ Cardinality(recent) \in Nat /\ Cardinality(all) \in Nat
    BY <2>2, PartsCount
  <2>4. Limit \in Nat
    BY PipelineAssumption
  <2>5. Cardinality(recent) < 2 * Limit
    BY <2>1, <2>3, <2>4
  <2> QED
    BY <2>5 DEF recent
<1> DEFINE Fair(r) ==
             (pc[r] = "limiting" /\ pc'[r] = "answered" /\ Named(Got(r))) =>
               LET e == Got(r).endpoint
                   a == Got(r).from
               IN  \/ Cardinality(Recent(NamedOf(a) \cup Unnamed, e)) >= Limit
                   \/ spent[<<e, a>>] = 0
<1>2. Inv /\ BudgetInv /\ [Next]_vars => [\A r \in Request : Fair(r)]_vars
  BY OnlyRefusalsAnswer, RefusalsAreOwn
<1> QED
  BY <1>1, <1>2, Invariance, BudgetInvariance, PTL DEF Spec, ClientsKeepTheirBudgets

-----------------------------------------------------------------------------
(* Counters.                                                                *)

\* No endpoint answers with a status of its own that is one of an error's, or 429.
PlainStatuses ==
    \A e \in DOMAIN Endpoints : Endpoints[e].status \notin {400, 429, 500, 502, 504}

Handled == {r \in Request : request_id[r] # 0}
Failed == {r \in Handled : pc[r] = "answered" /\ answer[r] \in {400, 500, 502, 504}}
TurnedAway == {r \in Request : pc[r] = "answered" /\ answer[r] = 429}

\* No request is both refused and handled, so that the sets the counters count
\* grow one request at a time.
CountInv ==
    /\ metrics.requests = Cardinality(Handled)
    /\ {request_id[r] : r \in Handled} = 1 .. metrics.requests
    /\ metrics.failures = Cardinality(Failed)
    /\ metrics.rate_limited = Cardinality(TurnedAway)
    /\ \A r \in TurnedAway : r \notin Handled

LEMMA CountInit == Init => CountInv
<1> SUFFICES ASSUME Init PROVE CountInv
  OBVIOUS
<1>1. Handled = {} /\ Failed = {} /\ TurnedAway = {}
  BY DEF Init, Handled, Failed, TurnedAway
<1>2. metrics = [requests |-> 0, failures |-> 0, rate_limited |-> 0]
  BY DEF Init
<1> QED
  BY <1>1, <1>2, FS_EmptySet DEF CountInv

\* A step that changes no set and no counter keeps the counts.
LEMMA SameCounts ==
    ASSUME CountInv, UNCHANGED <<metrics, request_id>>,
           Failed' = Failed, TurnedAway' = TurnedAway
    PROVE  CountInv'
<1>1. Handled' = Handled
  BY DEF Handled
<1>2. {request_id'[r] : r \in Handled'} = {request_id[r] : r \in Handled}
  BY <1>1
<1> QED
  BY <1>1, <1>2 DEF CountInv

LEMMA RefusalsCounted ==
    ASSUME Inv, CountInv, NEW r \in Request, Refused(r)
    PROVE  CountInv'
<1> USE DEF Inv, TypeOK, Places, Answer, Refused
<1>1. r \notin TurnedAway /\ r \notin Handled
  BY DEF TurnedAway, Handled, PlaceInv
<1>2. Handled' = Handled
  BY DEF Handled
<1>3. Failed' = Failed
  BY <1>1, <1>2 DEF Failed, Handled
<1>4. TurnedAway' = TurnedAway \cup {r}
  BY DEF TurnedAway
<1>5. Cardinality(TurnedAway') = Cardinality(TurnedAway) + 1
  <2>1. TurnedAway \subseteq Request
    BY DEF TurnedAway
  <2>2. Cardinality(TurnedAway \cup {r}) = Cardinality(TurnedAway) + 1
    BY <1>1, <2>1, OneMore
  <2> QED
    BY <1>4, <2>2
<1>6. metrics' = [metrics EXCEPT !.rate_limited = @ + 1]
  OBVIOUS
<1>7. {request_id'[q] : q \in Handled'} = {request_id[q] : q \in Handled}
  BY <1>2
<1> QED
  BY <1>1, <1>2, <1>3, <1>4, <1>5, <1>6, <1>7 DEF CountInv

LEMMA HandlingsCounted ==
    ASSUME Inv, CountInv, NEW r \in Request, Handle(r)
    PROVE  CountInv'
<1> USE DEF Inv, TypeOK, Places, Answer, GoTo
<1>1. /\ pc[r] = "reading"
      /\ metrics' = [metrics EXCEPT !.requests = @ + 1]
      /\ request_id' = [request_id EXCEPT ![r] = metrics.requests + 1]
      /\ \/ pc' = [pc EXCEPT ![r] = "executing"] /\ UNCHANGED answer
         \/ pc' = [pc EXCEPT ![r] = "answered"] /\ answer' = [answer EXCEPT ![r] = 401]
  BY DEF Handle
<1>2. r \notin Handled
  BY <1>1 DEF Handled, PlaceInv
<1>3. Handled' = Handled \cup {r}
  BY <1>1 DEF Handled
<1>4. Failed' = Failed
  <2>1. ~(pc'[r] = "answered" /\ answer'[r] \in {400, 500, 502, 504})
    BY <1>1
  <2>2. \A q \in Handled : pc'[q] = pc[q] /\ answer'[q] = answer[q]
    BY <1>1, <1>2 DEF Handled
  <2> QED
    BY <1>2, <1>3, <2>1, <2>2 DEF Failed
<1>5. TurnedAway' = TurnedAway
  BY <1>1 DEF TurnedAway
<1>6. Cardinality(Handled') = Cardinality(Handled) + 1
  <2>1. Handled \subseteq Request
    BY DEF Handled
  <2>2. Cardinality(Handled \cup {r}) = Cardinality(Handled) + 1
    BY <1>2, <2>1, OneMore
  <2> QED
    BY <1>3, <2>2
<1>7. {request_id'[q] : q \in Handled'} = 1 .. (metrics.requests + 1)
  <2>1. \A q \in Handled : request_id'[q] = request_id[q]
    BY <1>1, <1>2 DEF Handled
  <2>2. request_id'[r] = metrics.requests + 1
    BY <1>1
  <2>3. {request_id'[q] : q \in Handled'} = {request_id[q] : q \in Handled} \cup {metrics.requests + 1}
    BY <1>3, <2>1, <2>2
  <2>4. 1 .. (metrics.requests + 1) = (1 .. metrics.requests) \cup {metrics.requests + 1}
    OBVIOUS
  <2>5. {request_id[q] : q \in Handled} = 1 .. metrics.requests
    BY DEF CountInv
  <2> HIDE DEF Inv, TypeOK
  <2> QED
    BY <2>3, <2>4, <2>5
<1>8. r \notin TurnedAway
  BY <1>1 DEF TurnedAway
<1> QED
  BY <1>1, <1>3, <1>4, <1>5, <1>6, <1>7, <1>8 DEF CountInv

LEMMA FailuresCounted ==
    ASSUME Inv, CountInv, NEW r \in Request, ExecuteFails(r)
    PROVE  CountInv'
<1>1. PICK error \in Errors : Answer(r, error_status(error))
  BY DEF ExecuteFails
<1> USE DEF Inv, TypeOK, Places, Answer
<1>2. error_status(error) \in {400, 500, 502, 504}
  BY ErrorStatuses
<1>3. /\ pc[r] = "executing"
      /\ metrics' = [metrics EXCEPT !.failures = @ + 1]
      /\ UNCHANGED request_id
  BY DEF ExecuteFails
<1>4. r \in Handled /\ r \notin Failed
  BY <1>3 DEF Handled, Failed, PlaceInv
<1>5. Handled' = Handled
  BY <1>3 DEF Handled
<1>6. Failed' = Failed \cup {r}
  BY <1>1, <1>2, <1>4, <1>5 DEF Failed, Handled
<1>7. TurnedAway' = TurnedAway
  BY <1>1, <1>2, <1>3 DEF TurnedAway
<1>8. Cardinality(Failed') = Cardinality(Failed) + 1
  <2>1. Failed \subseteq Request
    BY DEF Failed, Handled
  <2>2. Cardinality(Failed \cup {r}) = Cardinality(Failed) + 1
    BY <1>4, <2>1, OneMore
  <2> QED
    BY <1>6, <2>2
<1>9. {request_id'[q] : q \in Handled'} = {request_id[q] : q \in Handled}
  BY <1>3, <1>5
<1> QED
  BY <1>3, <1>5, <1>6, <1>7, <1>8, <1>9 DEF CountInv

\* The other steps of a request answer with no status that is counted, or not at all.
LEMMA OthersUncounted ==
    ASSUME PlainStatuses, Inv, CountInv, NEW r \in Request,
           Arrive(r) \/ Admitted(r) \/ ExtractorRejects(r) \/ ExecuteSucceeds(r) \/ Drop(r)
    PROVE  CountInv'
<1>1. UNCHANGED <<metrics, request_id>>
  BY DEF Arrive, Admitted, ExtractorRejects, ExecuteSucceeds, Drop
<1>2. pc[r] # "answered"
  BY DEF Arrive, Admitted, ExtractorRejects, ExecuteSucceeds, Drop
<1> USE DEF Inv, TypeOK, Places, Answer, GoTo
<1>3. ASSUME NEW q \in Request \ {r} PROVE pc'[q] = pc[q] /\ answer'[q] = answer[q]
  BY <1>3, StepsChangeOne DEF Serve
<1>4. pc'[r] = "answered" => answer'[r] \notin {400, 429, 500, 502, 504}
  <2>1. CASE Arrive(r) \/ Admitted(r) \/ Drop(r)
    BY <2>1 DEF Arrive, Admitted, Drop
  <2>2. CASE ExtractorRejects(r)
    BY <2>2 DEF ExtractorRejects
  <2>3. CASE ExecuteSucceeds(r)
    <3>1. Got(r).endpoint \in DOMAIN Endpoints
      BY <2>3, PipelineAssumption DEF Got, PlaceInv, ExecuteSucceeds
    <3>2. EndpointOf(r).status \notin {400, 429, 500, 502, 504}
      BY <3>1 DEF PlainStatuses, EndpointOf
    <3> DEFINE own == EndpointOf(r).status
    <3>3. answer' = [answer EXCEPT ![r] = IF own \in 100 .. 999 THEN own ELSE 200]
      <4> HIDE DEF Inv, TypeOK
      <4> QED
        BY <2>3 DEF ExecuteSucceeds
    <3>4. answer \in [Request -> 0 .. 999]
      OBVIOUS
    <3>5. own \notin {400, 429, 500, 502, 504}
      BY <3>2
    <3> HIDE DEF own
    <3>6. answer'[r] = own \/ answer'[r] = 200
      BY <3>3, <3>4
    <3> QED
      BY <3>5, <3>6
  <2> QED
    BY <2>1, <2>2, <2>3
<1>5. Failed' = Failed
  BY <1>1, <1>2, <1>3, <1>4 DEF Failed, Handled
<1>6. TurnedAway' = TurnedAway
  BY <1>2, <1>3, <1>4 DEF TurnedAway
<1> QED
  BY <1>1, <1>5, <1>6, SameCounts

\* Counters: whatever requests overlap and whichever are dropped, the counters of
\* /metrics count the requests, the failures and the refusals there were.
THEOREM CountersTrue ==
    ASSUME PlainStatuses
    PROVE  Spec => []CountersAddUp
<1>1. Inv /\ CountInv /\ [Next]_vars => CountInv'
  <2> SUFFICES ASSUME Inv, CountInv, [Next]_vars PROVE CountInv'
    OBVIOUS
  <2>1. CASE UNCHANGED vars
    BY <2>1, SameCounts DEF vars, Failed, TurnedAway, Handled
  <2>2. CASE Background
    BY <2>2, SameCounts DEF Background, Failed, TurnedAway, Handled
  <2>3. ASSUME NEW r \in Request, Arrive(r) \/ Serve(r) \/ Drop(r) PROVE CountInv'
    BY <2>3, RefusalsCounted, HandlingsCounted, FailuresCounted, OthersUncounted DEF Serve
  <2> QED
    BY <2>1, <2>2, <2>3 DEF Next
<1>2. CountInv => CountersAddUp
  BY DEF CountInv, CountersAddUp, Handled, Failed, TurnedAway
<1> QED
  BY <1>1, <1>2, CountInit, Invariance, PTL DEF Spec

-----------------------------------------------------------------------------
(* Verdicts.                                                                *)

\* The request runs from the variables of its verdict, or was told 401.
Obeyed(r) ==
    \/ Verdict(Got(r)).ok /\ request_vars[r] = Verdict(Got(r)).vars
    \/ request_vars[r] = << >> /\ pc[r] = "answered" /\ answer[r] = 401

\* A request has no variables before it is handled.
VerdictInv ==
    \A r \in Request : IF request_id[r] = 0 THEN request_vars[r] = << >> ELSE Obeyed(r)

\* What the rules promise of a verdict: variables on which every rule of the endpoint
\* holds, and always some.
VerdictsAreSound ==
    \A c \in DOMAIN Contents :
      LET rules == Endpoints[Contents[c].endpoint].rules
          verdict == Verdict(Contents[c])
      IN  /\ verdict.vars # << >>
          /\ verdict.ok => \A i \in DOMAIN rules :
                             RuleHolds(rules[i], Contents[c].authorization, verdict.vars)

LEMMA HandlingsObey ==
    ASSUME Inv, VerdictInv, NEW r \in Request, Handle(r)
    PROVE  VerdictInv'
<1>1. /\ pc \in [Request -> Places] /\ answer \in [Request -> 0 .. 999]
      /\ request_id \in [Request -> Nat] /\ request_vars \in [Request -> Bindings]
      /\ request_id[r] = 0
  BY HandleDoes DEF Inv, TypeOK, PlaceInv
<1>2. contents' = contents /\ request_id' = [request_id EXCEPT ![r] = metrics.requests + 1]
  BY HandleDoes
<1>3. Obeyed(r)'
  <2>1. Got(r)' = Got(r) /\ request_vars[r] = << >>
    BY <1>1, <1>2 DEF Got, VerdictInv
  <2>2. CASE /\ Verdict(Got(r)).ok
             /\ request_vars' = [request_vars EXCEPT ![r] = Verdict(Got(r)).vars]
    BY <1>1, <2>1, <2>2 DEF Obeyed
  <2>3. CASE Answer(r, 401) /\ UNCHANGED request_vars
    <3>1. pc'[r] = "answered" /\ answer'[r] = 401 /\ request_vars'[r] = << >>
      BY <1>1, <2>1, <2>3 DEF Answer
    <3> QED
      BY <3>1 DEF Obeyed
  <2> QED
    BY <2>2, <2>3, HandleDoes
<1>4. ASSUME NEW q \in Request, q # r
      PROVE  IF request_id'[q] = 0 THEN request_vars'[q] = << >> ELSE Obeyed(q)'
  <2>1. Got(q)' = Got(q) /\ request_id'[q] = request_id[q]
    BY <1>1, <1>2, <1>4 DEF Got
  <2>2. request_vars'[q] = request_vars[q] /\ pc'[q] = pc[q] /\ answer'[q] = answer[q]
    BY <1>4, StepsChangeOne DEF Serve
  <2> QED
    BY <2>1, <2>2 DEF VerdictInv, Obeyed
<1>5. request_id'[r] # 0
  <2>1. metrics.requests \in Nat
    BY DEF Inv, TypeOK
  <2> QED
    BY <1>1, <1>2, <2>1
<1> QED
  BY <1>3, <1>4, <1>5 DEF VerdictInv

\* Every other step leaves numbers and variables alone, contents once a request is
\* there, and answers once they are given.
LEMMA OthersObey ==
    ASSUME Inv, VerdictInv, NEW r \in Request, Arrive(r) \/ Serve(r) \/ Drop(r), ~Handle(r)
    PROVE  VerdictInv'
<1>1. request_id' = request_id /\ request_vars' = request_vars
  BY DEF Arrive, Serve, Drop, Admitted, Refused, ExtractorRejects, ExecuteSucceeds, ExecuteFails
<1>2. ASSUME NEW q \in Request, request_id[q] # 0 PROVE Obeyed(q)'
  <2>1. Obeyed(q) /\ pc[q] \notin {"idle", "limiting", "reading"}
    BY <1>2 DEF VerdictInv, Inv, PlaceInv
  <2>2. CASE q = r
    <3>1. pc[q] = "executing" /\ contents' = contents
      BY <2>1, <2>2 DEF Arrive, Serve, Drop, Admitted, Refused, ExtractorRejects,
                        ExecuteSucceeds, ExecuteFails
    <3>2. Got(q)' = Got(q)
      BY <3>1 DEF Got
    <3> QED
      BY <1>1, <2>1, <3>1, <3>2 DEF Obeyed
  <2>3. CASE q # r
    <3>1. contents'[q] = contents[q]
      BY <2>3, StepsChangeOne
    <3>2. pc'[q] = pc[q] /\ answer'[q] = answer[q]
      BY <2>3, StepsChangeOne
    <3>3. Got(q)' = Got(q)
      BY <3>1 DEF Got
    <3> QED
      BY <1>1, <2>1, <3>2, <3>3 DEF Obeyed
  <2> QED
    BY <2>2, <2>3
<1> QED
  BY <1>1, <1>2 DEF VerdictInv

\* Rules: as long as the verdicts are sound, whatever requests overlap, are limited,
\* rejected or dropped, no step runs for one of which a rule does not hold.
THEOREM RulesAreObeyed ==
    ASSUME VerdictsAreSound
    PROVE  Spec => []UnauthorisedRunsNothing
<1>1. Init => VerdictInv
  BY DEF Init, VerdictInv
<1>2. Inv /\ VerdictInv /\ [Next]_vars => VerdictInv'
  <2> SUFFICES ASSUME Inv, VerdictInv, [Next]_vars PROVE VerdictInv'
    OBVIOUS
  <2>1. CASE UNCHANGED <<contents, pc, request_id, request_vars, answer>>
    BY <2>1 DEF VerdictInv, Obeyed, Got
  <2>2. ASSUME NEW r \in Request, Arrive(r) \/ Serve(r) \/ Drop(r) PROVE VerdictInv'
    BY <2>2, HandlingsObey, OthersObey
  <2>3. CASE Background
    BY <2>1, <2>3 DEF Background
  <2>4. CASE UNCHANGED vars
    BY <2>1, <2>4 DEF vars
  <2> QED
    BY <2>2, <2>3, <2>4 DEF Next
<1>3. Inv /\ VerdictInv => UnauthorisedRunsNothing
  <2> SUFFICES ASSUME Inv, VerdictInv, NEW r \in Request
               PROVE  LET ran == pc[r] = "executing" \/ request_vars[r] # << >>
                      IN  /\ ran => \A i \in DOMAIN EndpointOf(r).rules :
                                      RuleHolds(EndpointOf(r).rules[i], Got(r).authorization, request_vars[r])
                          /\ (request_id[r] # 0 /\ ~ran) => answer[r] = 401
    BY DEF UnauthorisedRunsNothing
  <2>1. CASE request_id[r] = 0
    BY <2>1 DEF VerdictInv, Inv, PlaceInv
  <2>2. CASE request_id[r] # 0
    <3>1. Obeyed(r) /\ contents[r] \in DOMAIN Contents
      BY <2>2 DEF VerdictInv, Inv, PlaceInv
    <3>2. /\ Verdict(Got(r)).vars # << >>
          /\ Verdict(Got(r)).ok => \A i \in DOMAIN EndpointOf(r).rules :
               RuleHolds(EndpointOf(r).rules[i], Got(r).authorization, Verdict(Got(r)).vars)
      BY <3>1 DEF VerdictsAreSound, Got, EndpointOf
    <3> QED
      BY <3>1, <3>2 DEF Obeyed
  <2> QED
    BY <2>1, <2>2
<1> QED
  BY <1>1, <1>2, <1>3, Invariance, PTL DEF Spec
=============================================================================
