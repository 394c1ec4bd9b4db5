------------------------------ MODULE DevRunner ------------------------------
(***************************************************************************)
(* ProjectRunner of src/dev.rs: the editor's calls, one at a time behind   *)
(* the runner's mutex, the .gate file they save, and the gateways they     *)
(* start and stop.                                                         *)
(*                                                                         *)
(* A gateway is a task of its own.  Dropping or using its one-shot sender  *)
(* tells it to shut down: it gives up its port, waits for the requests in  *)
(* progress and ends.  stop awaits that with the mutex held, and is the    *)
(* only await of a call; a call whose client goes away is dropped there,   *)
(* or while it waits for the mutex.                                        *)
(*                                                                         *)
(* A source is the text of a .gate file, its formatting left out.          *)
(***************************************************************************)
EXTENDS Integers, FiniteSets

CONSTANTS
    Caller,             \* editor requests that can be in progress at once
    Gateway,            \* gateways that can exist at once
    NoGateway,
    Source,
    Valid,              \* the sources that parse, validate and plan
    Crashing            \* the valid sources whose routes the router refuses

ASSUME DevAssumption ==
    /\ Gateway # {} /\ NoGateway \notin Gateway
    /\ Crashing \subseteq Valid /\ Valid \subseteq Source
    /\ "none" \notin Source

VARIABLES
    file,               \* what config_path holds
    edited,             \* history: the file was changed outside since it was
                        \* last written or loaded
    running,            \* the gateway in the runner's hands
    last_error,         \* the gateway whose error is shown
    phase,              \* how far each gateway is
    loaded,             \* the source each gateway serves
    told,               \* the gateways told to shut down
    busy,               \* the gateways with requests in progress
    pc,                 \* where each editor call is: idle, waiting for the mutex, or
                        \* for a gateway to stop, to start another one or not
    target,             \* the gateway it waits for
    abandoned           \* history: a call was dropped while it waited for one

gateways == <<phase, loaded, told, busy>>
runner == <<file, edited, running, last_error>>
calls == <<pc, target, abandoned>>
vars == <<runner, gateways, calls>>

\* The task of the gateway has not ended.
Unfinished(g) == phase[g] \in {"spawned", "serving", "draining"}

\* Calls keep a target as long as they await it, and only tasks that can hear are
\* told to shut down.
TypeOK ==
    /\ file \in Source /\ edited \in BOOLEAN
    /\ running \in Gateway \cup {NoGateway}
    /\ last_error \in Gateway \cup {NoGateway}
    /\ phase \in [Gateway -> {"spawned", "serving", "draining", "finished", "panicked"}]
    /\ loaded \in [Gateway -> Source \cup {"none"}]
    /\ busy \subseteq Gateway
    /\ pc \in [Caller -> {"idle", "waiting", "stopping", "restarting"}]
    /\ target \in [Caller -> Gateway \cup {NoGateway}]
    /\ \A c \in Caller : target[c] # NoGateway <=> pc[c] \in {"stopping", "restarting"}
    /\ told \subseteq {g \in Gateway : Unfinished(g)}
    /\ abandoned \in BOOLEAN

\* run_dev_server has started a gateway before it serves the editor.
Init ==
    /\ file \in Valid /\ edited = FALSE
    /\ running = CHOOSE g \in Gateway : TRUE
    /\ last_error = NoGateway
    /\ phase = [g \in Gateway |-> IF g = running THEN "spawned" ELSE "finished"]
    /\ loaded = [g \in Gateway |-> IF g = running THEN file ELSE "none"]
    /\ told = {} /\ busy = {}
    /\ pc = [c \in Caller |-> "idle"]
    /\ target = [c \in Caller |-> NoGateway]
    /\ abandoned = FALSE

\* running.is_some_and(|runtime| !runtime.task.is_finished())
Alive == running # NoGateway /\ Unfinished(running)

-----------------------------------------------------------------------------
(* The runner's operations, up to the await of stop.                       *)

\* A place for a new gateway.
Free == {g \in Gateway : ~Unfinished(g)}

\* Mutant of Launch: the error of the gateway before is kept.
LaunchKeepsError ==
    IF file \in Valid
      THEN \E g \in Free :
             /\ running' = g
             /\ phase' = [phase EXCEPT ![g] = "spawned"]
             /\ loaded' = [loaded EXCEPT ![g] = file]
             /\ edited' = FALSE
             /\ UNCHANGED <<file, last_error, told, busy>>
      ELSE UNCHANGED <<runner, gateways>>

\* start, when nothing runs: the file is read again, and may not parse.
Launch ==
    IF file \in Valid
      THEN \E g \in Free :
             /\ running' = g
             /\ last_error' = NoGateway
             /\ phase' = [phase EXCEPT ![g] = "spawned"]
             /\ loaded' = [loaded EXCEPT ![g] = file]
             /\ edited' = FALSE
             /\ UNCHANGED <<file, told, busy>>
      ELSE UNCHANGED <<runner, gateways>>

Start == IF Alive THEN UNCHANGED <<runner, gateways>> ELSE Launch

Forget(c) ==
    /\ pc' = [pc EXCEPT ![c] = "idle"]
    /\ target' = [target EXCEPT ![c] = NoGateway]

Return(c) == Forget(c) /\ UNCHANGED abandoned

\* Mutant of Stop: the gateway is let go of without being told.
StopSilently(c, place) ==
    /\ running' = NoGateway
    /\ target' = [target EXCEPT ![c] = running]
    /\ pc' = [pc EXCEPT ![c] = place]
    /\ UNCHANGED <<last_error, gateways, abandoned>>

\* stop: the gateway is taken out of the runner, told if it can hear, and awaited.
Stop(c, place) ==
    /\ running' = NoGateway
    /\ told' = told \cup {g \in {running} : Unfinished(g)}
    /\ target' = [target EXCEPT ![c] = running]
    /\ pc' = [pc EXCEPT ![c] = place]
    /\ UNCHANGED <<last_error, phase, loaded, busy, abandoned>>

-----------------------------------------------------------------------------
(* The editor's calls.                                                     *)

Ask(c) ==
    /\ pc[c] = "idle"
    /\ pc' = [pc EXCEPT ![c] = "waiting"]
    /\ UNCHANGED <<runner, gateways, target, abandoned>>

Awaits(c) == pc[c] \in {"stopping", "restarting"}

\* c gets the mutex, which only a call that awaits a gateway keeps.
Enters(c) == pc[c] = "waiting" /\ \A d \in Caller : ~Awaits(d)

EnterStart(c) ==
    /\ Enters(c)
    /\ Start
    /\ Return(c)

EnterStop(c) ==
    /\ Enters(c)
    /\ IF running = NoGateway
         THEN Return(c) /\ UNCHANGED <<runner, gateways>>
         ELSE Stop(c, "stopping") /\ UNCHANGED <<file, edited>>

EnterRestart(c) ==
    /\ Enters(c)
    /\ IF running = NoGateway
         THEN Launch /\ Return(c)
         ELSE Stop(c, "restarting") /\ UNCHANGED <<file, edited>>

\* Mutant of Restarts: only a gateway that answers is restarted.
RestartsServing == Alive /\ phase[running] = "serving"

\* save_source restarts a gateway that is running.
Restarts == Alive

\* save_source: what does not parse is not written.
EnterSave(c, source) ==
    /\ Enters(c)
    /\ IF source \in Valid
         THEN /\ file' = source
              /\ edited' = FALSE
              /\ IF Restarts THEN Stop(c, "restarting")
                 ELSE Return(c) /\ UNCHANGED <<running, last_error, gateways>>
         ELSE Return(c) /\ UNCHANGED <<runner, gateways>>

\* Mutants of Joined: the task is told, not awaited; one that panicked is never
\* joined.
JoinTold(c) ==
    /\ Awaits(c)
    /\ target[c] \in told
    /\ IF pc[c] = "stopping" THEN UNCHANGED <<runner, gateways>> ELSE Launch
    /\ Return(c)
JoinFinished(c) ==
    /\ Awaits(c)
    /\ phase[target[c]] = "finished"
    /\ IF pc[c] = "stopping" THEN UNCHANGED <<runner, gateways>> ELSE Launch
    /\ Return(c)

\* The task has ended.  If it panicked, stop fails and nothing starts.
Joined(c) ==
    /\ Awaits(c)
    /\ ~Unfinished(target[c])
    /\ IF pc[c] = "stopping" \/ phase[target[c]] = "panicked"
         THEN UNCHANGED <<runner, gateways>>
         ELSE Launch
    /\ Return(c)

\* The client goes away: the handler is dropped, and the mutex released.
Dropped(c) ==
    /\ pc[c] # "idle"
    /\ Forget(c)
    /\ abandoned' = (abandoned \/ Awaits(c))
    /\ UNCHANGED <<runner, gateways>>

\* Somebody edits the file by other means.
EditOutside ==
    /\ \E source \in Source \ {file} : file' = source
    /\ edited' = TRUE
    /\ UNCHANGED <<running, last_error, gateways, calls>>

-----------------------------------------------------------------------------
(* The gateways: serve_with_shutdown in the task start spawns.             *)

\* The task ends, and what it served goes with it.
Ends(g, how) ==
    /\ phase' = [phase EXCEPT ![g] = how]
    /\ loaded' = [loaded EXCEPT ![g] = "none"]
    /\ told' = told \ {g}
    /\ UNCHANGED <<file, edited, running, busy, calls>>

\* Another gateway serves already; every source has the same port.
PortTaken == \E g \in Gateway : phase[g] = "serving"

Bind(g) ==
    /\ phase[g] = "spawned"
    /\ loaded[g] \notin Crashing
    /\ ~PortTaken
    /\ phase' = [phase EXCEPT ![g] = "serving"]
    /\ UNCHANGED <<runner, loaded, told, busy, calls>>

\* The address is no good, or the port is taken, here or by another program.
BindFails(g) ==
    /\ phase[g] = "spawned"
    /\ Ends(g, "finished")
    /\ last_error' = g

\* The router library panics on the routes.
RouterPanics(g) ==
    /\ phase[g] = "spawned"
    /\ loaded[g] \in Crashing
    /\ Ends(g, "panicked")
    /\ UNCHANGED last_error

Accept(g) ==
    /\ phase[g] = "serving"
    /\ busy' = busy \cup {g}
    /\ UNCHANGED <<runner, phase, loaded, told, calls>>

RequestsEnd(g) ==
    /\ g \in busy
    /\ busy' = busy \ {g}
    /\ UNCHANGED <<runner, phase, loaded, told, calls>>

\* The listener is dropped; requests in progress go on.
Shutdown(g) ==
    /\ phase[g] = "serving"
    /\ g \in told
    /\ phase' = [phase EXCEPT ![g] = "draining"]
    /\ UNCHANGED <<runner, loaded, told, busy, calls>>

Drained(g) ==
    /\ phase[g] = "draining"
    /\ g \notin busy
    /\ Ends(g, "finished")
    /\ UNCHANGED last_error

-----------------------------------------------------------------------------
Enter(c) ==
    EnterStart(c) \/ EnterStop(c) \/ EnterRestart(c) \/ \E source \in Source : EnterSave(c, source)

Serve(g) ==
    Bind(g) \/ BindFails(g) \/ RouterPanics(g) \/ RequestsEnd(g) \/ Shutdown(g) \/ Drained(g)

Next ==
    \/ \E c \in Caller : Ask(c) \/ Enter(c) \/ Joined(c) \/ Dropped(c)
    \/ \E g \in Gateway : Serve(g) \/ Accept(g)
    \/ EditOutside

\* Tasks are polled and the requests in progress end.  The mutex is first come,
\* first served: a call that waits gets it if it is free again and again.
Fairness ==
    /\ \A c \in Caller : SF_vars(Enter(c)) /\ WF_vars(Joined(c))
    /\ \A g \in Gateway :
         /\ WF_vars(Bind(g) \/ BindFails(g) \/ RouterPanics(g) \/ Shutdown(g) \/ Drained(g))
         /\ WF_vars(RequestsEnd(g))

Spec == Init /\ [][Next]_vars /\ Fairness

-----------------------------------------------------------------------------
(* Properties.                                                             *)

\* Whatever is dropped when, no gateway gets out of reach: it is the runner's, or
\* it has been told to shut down.
NoGatewayOutOfReach ==
    \A g \in Gateway : Unfinished(g) => g = running \/ g \in told

\* One gateway at a time, the one that is being stopped included, unless a call
\* was dropped while it waited for one to stop.
OneGateway ==
    ~abandoned => \A g, h \in Gateway : Unfinished(g) /\ Unfinished(h) => g = h

\* Between calls, a gateway that runs serves what the file holds, unless the file
\* was changed outside the editor.
GatewayServesFile ==
    Alive /\ loaded[running] # file => edited

\* The error that is shown is that of the runner's gateway, not of one before it.
ErrorIsCurrent ==
    ~abandoned /\ running # NoGateway => last_error \in {NoGateway, running}

\* Every call of the editor ends, provided the requests of the gateway do.
EveryCallSettles == \A c \in Caller : pc[c] # "idle" ~> pc[c] = "idle"
=============================================================================
