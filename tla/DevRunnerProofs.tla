---------------------------- MODULE DevRunnerProofs ----------------------------
(***************************************************************************)
(* What the mutex of the dev server's runner keeps together, for any       *)
(* number of editor calls and gateways, with calls dropped anywhere.       *)
(***************************************************************************)
EXTENDS DevRunner, TLAPS

\* The call that awaits a gateway is alone, and has taken it out of the runner;
\* unless a call was dropped there, a gateway that is told is the one awaited.
AwaitInv ==
    /\ \A c, d \in Caller : Awaits(c) /\ Awaits(d) => c = d
    /\ \A c \in Caller : Awaits(c) => running = NoGateway
    /\ ~abandoned => \A g \in told : \E c \in Caller : Awaits(c) /\ target[c] = g

Inv == TypeOK /\ AwaitInv /\ NoGatewayOutOfReach /\ GatewayServesFile /\ ErrorIsCurrent

LEMMA InvInit == Init => Inv
<1> SUFFICES ASSUME Init PROVE Inv
  OBVIOUS
<1>1. running \in Gateway
  BY DevAssumption DEF Init
<1>2. TypeOK
  BY <1>1, DevAssumption DEF Init, TypeOK
<1>3. AwaitInv /\ NoGatewayOutOfReach
  BY <1>1 DEF Init, AwaitInv, Awaits, NoGatewayOutOfReach, Unfinished
<1>4. GatewayServesFile /\ ErrorIsCurrent
  BY <1>1 DEF Init, GatewayServesFile, ErrorIsCurrent
<1> QED
  BY <1>2, <1>3, <1>4 DEF Inv

\* With nobody awaiting, nothing that has been told is still ending.
LEMMA NobodyTold ==
    ASSUME Inv, ~abandoned, \A c \in Caller : Awaits(c) => ~Unfinished(target[c])
    PROVE  told = {}
BY DEF Inv, AwaitInv, TypeOK

\* One gateway at a time.
LEMMA OneFromInv == Inv => OneGateway
<1> SUFFICES ASSUME Inv, ~abandoned, NEW g \in Gateway, NEW h \in Gateway,
                    Unfinished(g), Unfinished(h)
             PROVE  g = h
  BY DEF OneGateway
<1>1. (g = running \/ g \in told) /\ (h = running \/ h \in told)
  BY DEF Inv, NoGatewayOutOfReach
<1>2. CASE g \in told
  <2>1. PICK c \in Caller : Awaits(c) /\ target[c] = g
    BY <1>2 DEF Inv, AwaitInv
  <2>2. running = NoGateway
    BY <2>1 DEF Inv, AwaitInv
  <2>3. h \in told
    BY <1>1, <2>2, DevAssumption
  <2>4. PICK d \in Caller : Awaits(d) /\ target[d] = h
    BY <2>3 DEF Inv, AwaitInv
  <2> QED
    BY <2>1, <2>4 DEF Inv, AwaitInv
<1>3. CASE g = running /\ h \in told
  <2>1. PICK d \in Caller : Awaits(d) /\ target[d] = h
    BY <1>3 DEF Inv, AwaitInv
  <2>2. running = NoGateway
    BY <2>1 DEF Inv, AwaitInv
  <2> QED
    BY <1>3, <2>2, DevAssumption
<1> QED
  BY <1>1, <1>2, <1>3

-----------------------------------------------------------------------------
(* The pieces the editor's calls are made of.                               *)

\* A call that ends, having awaited a gateway that has ended or none.
LEMMA ReturnKeepsInv ==
    ASSUME Inv, NEW c \in Caller, Return(c), UNCHANGED <<runner, gateways>>,
           Awaits(c) => ~Unfinished(target[c])
    PROVE  Inv'
<1> USE DEF runner, gateways
<1>1. /\ pc' = [pc EXCEPT ![c] = "idle"]
      /\ target' = [target EXCEPT ![c] = NoGateway]
      /\ UNCHANGED abandoned
  BY DEF Return, Forget
<1>2. TypeOK'
  BY <1>1 DEF Inv, TypeOK, Unfinished
<1>3. \A d \in Caller : Awaits(d)' => d # c /\ Awaits(d) /\ target'[d] = target[d]
  BY <1>1 DEF Inv, TypeOK, Awaits
<1>4. AwaitInv'
  <2>1. \A d \in Caller : Awaits(d) /\ Unfinished(target[d]) => Awaits(d)' /\ target'[d] = target[d]
    BY <1>1 DEF Inv, TypeOK, Awaits
  <2> QED
    BY <1>1, <1>3, <2>1 DEF Inv, AwaitInv, TypeOK
<1>5. NoGatewayOutOfReach' /\ GatewayServesFile' /\ ErrorIsCurrent'
  BY <1>1 DEF Inv, NoGatewayOutOfReach, GatewayServesFile, ErrorIsCurrent, Unfinished, Alive
<1> QED
  BY <1>2, <1>4, <1>5 DEF Inv

\* A call that ends by starting a gateway, when none is alive.
LEMMA LaunchKeepsInv ==
    ASSUME Inv, NEW c \in Caller, Return(c), Launch, ~Alive,
           \A d \in Caller : Awaits(d) => d = c /\ ~Unfinished(target[d])
    PROVE  Inv'
<1>1. CASE file \notin Valid
  BY <1>1, ReturnKeepsInv DEF Launch
<1>2. CASE file \in Valid
  <2>1. PICK g \in Free :
          /\ running' = g
          /\ last_error' = NoGateway
          /\ phase' = [phase EXCEPT ![g] = "spawned"]
          /\ loaded' = [loaded EXCEPT ![g] = file]
          /\ edited' = FALSE
          /\ UNCHANGED <<file, told, busy>>
    BY <1>2 DEF Launch
  <2>2. /\ pc' = [pc EXCEPT ![c] = "idle"]
        /\ target' = [target EXCEPT ![c] = NoGateway]
        /\ UNCHANGED abandoned
    BY DEF Return, Forget
  <2>3. g \in Gateway /\ ~Unfinished(g)
    BY DEF Free
  <2>4. \A h \in Gateway \ {g} : Unfinished(h)' <=> Unfinished(h)
    BY <2>1, <2>3 DEF Unfinished, Inv, TypeOK
  <2>5. TypeOK'
    <3>1. told' \subseteq {h \in Gateway : Unfinished(h)'}
      BY <2>1, <2>3, <2>4 DEF Inv, TypeOK
    <3>2. /\ file' \in Source /\ edited' \in BOOLEAN /\ running' \in Gateway \cup {NoGateway}
          /\ last_error' \in Gateway \cup {NoGateway} /\ busy' \subseteq Gateway
          /\ abandoned' \in BOOLEAN
      BY <2>1, <2>2, <2>3 DEF Inv, TypeOK
    <3>3. phase' \in [Gateway -> {"spawned", "serving", "draining", "finished", "panicked"}]
      BY <2>1, <2>3 DEF Inv, TypeOK
    <3>4. loaded' \in [Gateway -> Source \cup {"none"}]
      BY <2>1, <2>3 DEF Inv, TypeOK
    <3>5. /\ pc' \in [Caller -> {"idle", "waiting", "stopping", "restarting"}]
          /\ target' \in [Caller -> Gateway \cup {NoGateway}]
          /\ \A d \in Caller : target'[d] # NoGateway <=> pc'[d] \in {"stopping", "restarting"}
      BY <2>2 DEF Inv, TypeOK
    <3> QED
      BY <3>1, <3>2, <3>3, <3>4, <3>5 DEF TypeOK
  <2>6. \A d \in Caller : ~Awaits(d)'
    BY <2>2 DEF Awaits, Inv, TypeOK
  <2>7. ~abandoned => told' = {}
    BY <2>1, NobodyTold
  <2>8. AwaitInv'
    BY <2>2, <2>6, <2>7 DEF AwaitInv
  <2>9. NoGatewayOutOfReach'
    <3> SUFFICES ASSUME NEW h \in Gateway, Unfinished(h)', h # g PROVE h \in told'
      BY <2>1 DEF NoGatewayOutOfReach
    <3>1. Unfinished(h)
      BY <2>4
    <3>2. h # running
      BY <3>1, DevAssumption DEF Alive
    <3> QED
      BY <2>1, <3>1, <3>2 DEF Inv, NoGatewayOutOfReach
  <2>10. GatewayServesFile' /\ ErrorIsCurrent'
    BY <2>1, <2>3 DEF GatewayServesFile, ErrorIsCurrent, Inv, TypeOK
  <2> QED
    BY <2>5, <2>8, <2>9, <2>10 DEF Inv
<1> QED
  BY <1>1, <1>2

\* A call that takes the gateway out of the runner and awaits it.
LEMMA StopKeepsInv ==
    ASSUME Inv, NEW c \in Caller, NEW place \in {"stopping", "restarting"}, Stop(c, place),
           running # NoGateway, \A d \in Caller : ~Awaits(d),
           file' \in Source, edited' \in BOOLEAN
    PROVE  Inv'
<1> USE DEF gateways
<1>1. /\ running' = NoGateway
      /\ told' = told \cup {g \in {running} : Unfinished(g)}
      /\ target' = [target EXCEPT ![c] = running]
      /\ pc' = [pc EXCEPT ![c] = place]
      /\ UNCHANGED <<last_error, phase, loaded, busy, abandoned>>
  BY DEF Stop
<1>2. running \in Gateway
  BY DEF Inv, TypeOK
<1>3. \A g : Unfinished(g)' <=> Unfinished(g)
  BY <1>1 DEF Unfinished
<1>4. TypeOK'
  <2>1. told' \subseteq {g \in Gateway : Unfinished(g)'}
    BY <1>1, <1>2, <1>3 DEF Inv, TypeOK
  <2>2. /\ pc' \in [Caller -> {"idle", "waiting", "stopping", "restarting"}]
        /\ target' \in [Caller -> Gateway \cup {NoGateway}]
        /\ \A d \in Caller : target'[d] # NoGateway <=> pc'[d] \in {"stopping", "restarting"}
    BY <1>1, <1>2, DevAssumption DEF Inv, TypeOK
  <2> QED
    BY <1>1, <2>1, <2>2 DEF Inv, TypeOK
<1>5. \A d \in Caller : Awaits(d)' <=> d = c
  BY <1>1 DEF Awaits, Inv, TypeOK
<1>6. AwaitInv'
  <2>1. ~abandoned => told = {}
    BY NobodyTold
  <2>2. target'[c] = running
    BY <1>1 DEF Inv, TypeOK
  <2> QED
    BY <1>1, <1>5, <2>1, <2>2 DEF AwaitInv
<1>7. NoGatewayOutOfReach'
  BY <1>1, <1>3 DEF Inv, NoGatewayOutOfReach
<1>8. GatewayServesFile' /\ ErrorIsCurrent'
  BY <1>1 DEF GatewayServesFile, ErrorIsCurrent, Alive
<1> QED
  BY <1>4, <1>6, <1>7, <1>8 DEF Inv

-----------------------------------------------------------------------------
(* Steps.                                                                   *)

LEMMA EnterKeepsInv ==
    ASSUME Inv, NEW c \in Caller, Enter(c)
    PROVE  Inv'
<1>0. Enters(c)
  BY DEF Enter, EnterStart, EnterStop, EnterRestart, EnterSave
<1>1. \A d \in Caller : ~Awaits(d)
  BY <1>0 DEF Enters
<1>2. CASE EnterStart(c)
  <2>1. CASE Alive
    BY <1>1, <1>2, <2>1, ReturnKeepsInv DEF EnterStart, Start
  <2>2. CASE ~Alive
    BY <1>1, <1>2, <2>2, LaunchKeepsInv DEF EnterStart, Start
  <2> QED
    BY <2>1, <2>2
<1>3. CASE EnterStop(c)
  <2>1. CASE running = NoGateway
    BY <1>1, <1>3, <2>1, ReturnKeepsInv DEF EnterStop
  <2>2. CASE running # NoGateway
    <3>1. Stop(c, "stopping") /\ UNCHANGED <<file, edited>>
      BY <1>3, <2>2 DEF EnterStop
    <3>2. file' \in Source /\ edited' \in BOOLEAN
      BY <3>1 DEF Inv, TypeOK
    <3> QED
      BY <1>1, <2>2, <3>1, <3>2, StopKeepsInv
  <2> QED
    BY <2>1, <2>2
<1>4. CASE EnterRestart(c)
  <2>1. CASE running = NoGateway
    BY <1>1, <1>4, <2>1, LaunchKeepsInv DEF EnterRestart, Alive
  <2>2. CASE running # NoGateway
    <3>1. Stop(c, "restarting") /\ UNCHANGED <<file, edited>>
      BY <1>4, <2>2 DEF EnterRestart
    <3>2. file' \in Source /\ edited' \in BOOLEAN
      BY <3>1 DEF Inv, TypeOK
    <3> QED
      BY <1>1, <2>2, <3>1, <3>2, StopKeepsInv
  <2> QED
    BY <2>1, <2>2
<1>5. ASSUME NEW source \in Source, EnterSave(c, source) PROVE Inv'
  <2>1. CASE source \notin Valid
    BY <1>1, <1>5, <2>1, ReturnKeepsInv DEF EnterSave
  <2>2. CASE source \in Valid /\ Alive
    <3>1. Stop(c, "restarting") /\ file' = source /\ edited' = FALSE
      BY <1>5, <2>2 DEF EnterSave, Restarts
    <3>2. running # NoGateway
      BY <2>2 DEF Alive
    <3> QED
      BY <1>1, <3>1, <3>2, StopKeepsInv
  <2>3. CASE source \in Valid /\ ~Alive
    <3> USE DEF gateways
    <3>1. /\ file' = source /\ edited' = FALSE /\ Return(c)
          /\ UNCHANGED <<running, last_error, gateways>>
      BY <1>5, <2>3 DEF EnterSave, Restarts
    <3>2. /\ pc' = [pc EXCEPT ![c] = "idle"]
          /\ target' = [target EXCEPT ![c] = NoGateway]
          /\ UNCHANGED abandoned
      BY <3>1 DEF Return, Forget
    <3>3. TypeOK'
      BY <3>1, <3>2 DEF Inv, TypeOK, Unfinished
    <3>4. \A d \in Caller : ~Awaits(d)'
      BY <1>1, <3>2 DEF Awaits, Inv, TypeOK
    <3>5. AwaitInv'
      BY <1>1, <3>1, <3>2, <3>4 DEF Inv, AwaitInv
    <3>6. NoGatewayOutOfReach' /\ ErrorIsCurrent'
      BY <3>1, <3>2 DEF Inv, NoGatewayOutOfReach, ErrorIsCurrent, Unfinished
    <3>7. GatewayServesFile'
      BY <2>3, <3>1 DEF GatewayServesFile, Alive, Unfinished
    <3> QED
      BY <3>3, <3>5, <3>6, <3>7 DEF Inv
  <2> QED
    BY <2>1, <2>2, <2>3
<1> QED
  BY <1>2, <1>3, <1>4, <1>5 DEF Enter

LEMMA CallKeepsInv ==
    ASSUME Inv, NEW c \in Caller, Ask(c) \/ Joined(c) \/ Dropped(c)
    PROVE  Inv'
<1>1. CASE Ask(c)
  <2> USE DEF runner, gateways
  <2>1. pc' = [pc EXCEPT ![c] = "waiting"] /\ pc[c] = "idle" /\ UNCHANGED <<runner, gateways, target, abandoned>>
    BY <1>1 DEF Ask
  <2>2. \A d \in Caller : Awaits(d)' <=> Awaits(d)
    BY <2>1 DEF Awaits, Inv, TypeOK
  <2>3. TypeOK'
    BY <2>1 DEF Inv, TypeOK, Unfinished
  <2>4. AwaitInv'
    BY <2>1, <2>2 DEF Inv, AwaitInv
  <2>5. NoGatewayOutOfReach' /\ GatewayServesFile' /\ ErrorIsCurrent'
    BY <2>1 DEF Inv, NoGatewayOutOfReach, GatewayServesFile, ErrorIsCurrent, Unfinished, Alive
  <2> QED
    BY <2>3, <2>4, <2>5 DEF Inv
<1>2. CASE Joined(c)
  <2>1. Awaits(c) /\ ~Unfinished(target[c]) /\ Return(c)
    BY <1>2 DEF Joined
  <2>2. CASE UNCHANGED <<runner, gateways>>
    BY <2>1, <2>2, ReturnKeepsInv
  <2>3. CASE Launch
    <3>1. \A d \in Caller : Awaits(d) => d = c /\ ~Unfinished(target[d])
      BY <2>1 DEF Inv, AwaitInv
    <3>2. ~Alive
      BY <2>1 DEF Inv, AwaitInv, Alive
    <3> QED
      BY <2>1, <2>3, <3>1, <3>2, LaunchKeepsInv
  <2> QED
    BY <1>2, <2>2, <2>3 DEF Joined
<1>3. CASE Dropped(c)
  <2> USE DEF runner, gateways
  <2>1. /\ pc' = [pc EXCEPT ![c] = "idle"]
        /\ target' = [target EXCEPT ![c] = NoGateway]
        /\ abandoned' = (abandoned \/ Awaits(c))
        /\ UNCHANGED <<runner, gateways>>
    BY <1>3 DEF Dropped, Forget
  <2>2. TypeOK'
    BY <2>1 DEF Inv, TypeOK, Unfinished, Awaits
  <2>3. \A d \in Caller : (Awaits(d)' <=> (Awaits(d) /\ d # c)) /\ (d # c => target'[d] = target[d])
    BY <2>1 DEF Awaits, Inv, TypeOK
  <2>4. AwaitInv'
    BY <2>1, <2>3 DEF Inv, AwaitInv
  <2>5. NoGatewayOutOfReach' /\ GatewayServesFile' /\ ErrorIsCurrent'
    BY <2>1 DEF Inv, NoGatewayOutOfReach, GatewayServesFile, ErrorIsCurrent, Unfinished, Alive
  <2> QED
    BY <2>2, <2>4, <2>5 DEF Inv
<1> QED
  BY <1>1, <1>2, <1>3

LEMMA OutsideKeepsInv == Inv /\ EditOutside => Inv'
<1> SUFFICES ASSUME Inv, EditOutside PROVE Inv'
  OBVIOUS
<1> USE DEF runner, gateways, calls
<1>1. file' \in Source /\ edited' = TRUE /\ UNCHANGED <<running, last_error, gateways, calls>>
  BY DEF EditOutside
<1>2. TypeOK'
  BY <1>1 DEF Inv, TypeOK, Unfinished
<1>3. AwaitInv' /\ NoGatewayOutOfReach' /\ ErrorIsCurrent'
  BY <1>1 DEF Inv, AwaitInv, Awaits, NoGatewayOutOfReach, ErrorIsCurrent, Unfinished
<1>4. GatewayServesFile'
  BY <1>1 DEF GatewayServesFile
<1> QED
  BY <1>2, <1>3, <1>4 DEF Inv

\* A gateway that ends, with or without an error to show.
LEMMA EndsKeepsInv ==
    ASSUME Inv, NEW g \in Gateway, NEW how \in {"finished", "panicked"}, Ends(g, how), Unfinished(g),
           UNCHANGED last_error \/ last_error' = g
    PROVE  Inv'
<1> USE DEF runner, calls
<1>1. /\ phase' = [phase EXCEPT ![g] = how]
      /\ loaded' = [loaded EXCEPT ![g] = "none"]
      /\ told' = told \ {g}
      /\ UNCHANGED <<file, edited, running, busy, calls>>
  BY DEF Ends
<1>2. \A h \in Gateway : Unfinished(h)' <=> (Unfinished(h) /\ h # g)
  BY <1>1 DEF Unfinished, Inv, TypeOK
<1>3. TypeOK'
  <2>1. told' \subseteq {h \in Gateway : Unfinished(h)'}
    BY <1>1, <1>2 DEF Inv, TypeOK
  <2>2. /\ phase' \in [Gateway -> {"spawned", "serving", "draining", "finished", "panicked"}]
        /\ loaded' \in [Gateway -> Source \cup {"none"}]
    BY <1>1 DEF Inv, TypeOK
  <2> QED
    BY <1>1, <2>1, <2>2 DEF Inv, TypeOK
<1>4. AwaitInv' /\ NoGatewayOutOfReach'
  BY <1>1, <1>2 DEF Inv, AwaitInv, Awaits, NoGatewayOutOfReach
<1>5. GatewayServesFile'
  <2> SUFFICES ASSUME Alive' PROVE running # g /\ loaded'[running] = loaded[running] /\ Alive
    BY <1>1 DEF Inv, GatewayServesFile
  <2> QED
    BY <1>1, <1>2 DEF Alive, Inv, TypeOK
<1>6. ErrorIsCurrent'
  <2> SUFFICES ASSUME ~abandoned, running # NoGateway, last_error' = g PROVE g = running
    BY <1>1 DEF Inv, ErrorIsCurrent
  <2>1. g \notin told
    BY DEF Inv, AwaitInv
  <2> QED
    BY <2>1 DEF Inv, NoGatewayOutOfReach
<1> QED
  BY <1>3, <1>4, <1>5, <1>6 DEF Inv

LEMMA GatewayKeepsInv ==
    ASSUME Inv, NEW g \in Gateway, Serve(g) \/ Accept(g)
    PROVE  Inv'
<1> USE DEF runner, calls
<1>1. CASE Bind(g) \/ Shutdown(g)
  <2>1. /\ \E place \in {"serving", "draining"} : phase' = [phase EXCEPT ![g] = place]
        /\ Unfinished(g)
        /\ UNCHANGED <<runner, loaded, told, busy, calls>>
    BY <1>1 DEF Bind, Shutdown, Unfinished
  <2>2. \A h \in Gateway : Unfinished(h)' <=> Unfinished(h)
    BY <2>1 DEF Unfinished, Inv, TypeOK
  <2>3. TypeOK'
    BY <2>1, <2>2 DEF Inv, TypeOK
  <2>4. AwaitInv' /\ NoGatewayOutOfReach' /\ ErrorIsCurrent'
    BY <2>1, <2>2 DEF Inv, AwaitInv, Awaits, NoGatewayOutOfReach, ErrorIsCurrent
  <2>5. GatewayServesFile'
    BY <2>1, <2>2 DEF Inv, GatewayServesFile, Alive, TypeOK
  <2> QED
    BY <2>3, <2>4, <2>5 DEF Inv
<1>2. CASE BindFails(g) \/ RouterPanics(g) \/ Drained(g)
  <2>1. Unfinished(g)
    BY <1>2 DEF BindFails, RouterPanics, Drained, Unfinished
  <2> QED
    BY <1>2, <2>1, EndsKeepsInv DEF BindFails, RouterPanics, Drained
<1>3. CASE Accept(g) \/ RequestsEnd(g)
  <2>1. busy' \subseteq Gateway /\ UNCHANGED <<runner, phase, loaded, told, calls>>
    BY <1>3 DEF Accept, RequestsEnd, Inv, TypeOK
  <2>2. TypeOK'
    BY <2>1 DEF Inv, TypeOK, Unfinished
  <2>3. AwaitInv' /\ NoGatewayOutOfReach' /\ ErrorIsCurrent' /\ GatewayServesFile'
    BY <2>1 DEF Inv, AwaitInv, Awaits, NoGatewayOutOfReach, ErrorIsCurrent, GatewayServesFile,
                Alive, Unfinished
  <2> QED
    BY <2>2, <2>3 DEF Inv
<1> QED
  BY <1>1, <1>2, <1>3 DEF Serve

LEMMA Invariance == Spec => []Inv
<1>1. Inv /\ [Next]_vars => Inv'
  <2> SUFFICES ASSUME Inv, [Next]_vars PROVE Inv'
    OBVIOUS
  <2>1. CASE UNCHANGED vars
    BY <2>1 DEF vars, runner, gateways, calls, Inv, TypeOK, AwaitInv, Awaits, NoGatewayOutOfReach,
                GatewayServesFile, ErrorIsCurrent, Alive, Unfinished
  <2>2. CASE \E c \in Caller : Ask(c) \/ Enter(c) \/ Joined(c) \/ Dropped(c)
    BY <2>2, EnterKeepsInv, CallKeepsInv
  <2>3. CASE \E g \in Gateway : Serve(g) \/ Accept(g)
    BY <2>3, GatewayKeepsInv
  <2>4. CASE EditOutside
    BY <2>4, OutsideKeepsInv
  <2> QED
    BY <2>1, <2>2, <2>3, <2>4 DEF Next
<1> QED
  BY <1>1, InvInit, PTL DEF Spec

-----------------------------------------------------------------------------
(* Theorems.                                                                *)

\* Types: the runner, its gateways and the editor's calls keep theirs, and only tasks
\* that can hear are told to shut down.
THEOREM TypeCorrect == Spec => []TypeOK
BY Invariance, PTL DEF Inv

\* Reach: whichever calls are dropped, and wherever, a gateway whose task has not
\* ended is in the runner's hands or has been told to end.
THEOREM InReach == Spec => []NoGatewayOutOfReach
BY Invariance, PTL DEF Inv

\* Exclusion: as long as no call is dropped while it awaits a gateway, no two gateways
\* are there at once, for any number of calls.
THEOREM Alone == Spec => []OneGateway
<1>1. Inv => OneGateway
  BY OneFromInv
<1> QED
  BY <1>1, Invariance, PTL

\* Freshness: a gateway that runs serves what the file holds, unless the file was
\* changed by other means than the editor.
THEOREM Fresh == Spec => []GatewayServesFile
BY Invariance, PTL DEF Inv

\* Errors: the error that is shown is that of the gateway in the runner's hands.
THEOREM ErrorOfItsOwn == Spec => []ErrorIsCurrent
BY Invariance, PTL DEF Inv
=============================================================================
