----------------------------- MODULE SerialPort -----------------------------
(***************************************************************************)
(* Serial consoles: the manager's map and the worker thread of every open  *)
(* port (serial.rs), the commands, which run one at a time on the main     *)
(* thread, and the page around them (main.js: openSerial, closeTab).  A    *)
(* tab opens its port once, so that a session is named by its tab.  There  *)
(* is one device, which the system opens to one at a time.                 *)
(***************************************************************************)
EXTENDS Queues, SequencesExt

CONSTANTS
    Consoles,        \* serial tabs
    Keys,            \* what the user types
    Break, CloseCmd, \* Cmd::Break, Cmd::Close
    Nobody,
    MaxTyped,        \* bound: data commands accepted per session
    MaxRestarts      \* bound: times the web view is reloaded

ASSUME SerialAssumption ==
    /\ Break \notin Keys /\ CloseCmd \notin Keys \cup {Break}
    /\ Nobody \notin Consoles
    /\ MaxTyped \in Nat /\ MaxRestarts \in Nat

VARIABLES
    call,      \* where openSerial is
    view,      \* the tab on the screen
    dead,      \* tabs that markDead has marked
    heard,     \* tabs whose exit handler is registered
    news,      \* exit events on their way to a handler
    ports,     \* SerialManager.sessions
    device,    \* who has the device open
    worker,    \* where each worker thread is
    cmds,      \* the mpsc channel
    typed,     \* history: data commands a live receiver has accepted
    sent,      \* what the device has been given
    unheard,   \* history: exits nobody was registered for
    restarts

pageSide == <<call, view, dead, heard>>
flowVars == <<cmds, typed, sent>>
serialVars == <<pageSide, news, ports, device, worker, flowVars, unheard, restarts>>

SerialInit ==
    /\ call = [t \in Consoles |-> "none"]
    /\ view = [t \in Consoles |-> "none"]
    /\ dead = {} /\ heard = {} /\ news = {}
    /\ ports = {}
    /\ device = Nobody
    /\ worker = [t \in Consoles |-> "none"]
    /\ cmds = [t \in Consoles |-> <<>>]
    /\ typed = [t \in Consoles |-> <<>>]
    /\ sent = [t \in Consoles |-> <<>>]
    /\ unheard = {}
    /\ restarts = 0

(* sess.sid && !sess.dead                                                   *)
Talks(t) == call[t] = "named" /\ t \notin dead

(* rx is dropped when the worker returns.                                   *)
Hears(t) == worker[t] \in {"drain", "read", "leaving"}

-----------------------------------------------------------------------------
(* openSerial *)

OpenSerial(t) ==
    /\ call[t] = "none"
    /\ call' = [call EXCEPT ![t] = "asked"]
    /\ view' = [view EXCEPT ![t] = "open"]
    /\ UNCHANGED <<dead, heard, news, ports, device, worker, flowVars, unheard, restarts>>

(* SerialManager::connect: the device opens, or is busy or missing.         *)
SerialConnect(t) ==
    /\ call[t] = "asked"
    /\ \/ /\ device = Nobody
          /\ device' = t
          /\ ports' = ports \cup {t}
          /\ worker' = [worker EXCEPT ![t] = "drain"]
          /\ call' = [call EXCEPT ![t] = "opened"]
       \/ /\ call' = [call EXCEPT ![t] = "refused"]
          /\ UNCHANGED <<device, ports, worker>>
    /\ UNCHANGED <<view, dead, heard, news, flowVars, unheard, restarts>>

Goes(t, from, to) == call[t] = from /\ view[t] # "gone" /\ call' = [call EXCEPT ![t] = to]

(* The session id arrives, whether or not the tab is still there.           *)
Resume(t) ==
    /\ Goes(t, "opened", "named")
    /\ UNCHANGED <<view, dead, heard, news, ports, device, worker, flowVars, unheard, restarts>>

Refuse(t) ==
    /\ Goes(t, "refused", "failed")
    /\ dead' = dead \cup {t}
    /\ UNCHANGED <<view, heard, news, ports, device, worker, flowVars, unheard, restarts>>

(* listen(serial-exit).                                                     *)
Listen(t) ==
    /\ call[t] = "named" /\ view[t] # "gone"
    /\ t \notin heard
    /\ heard' = heard \cup {t}
    /\ UNCHANGED <<call, view, dead, news, ports, device, worker, flowVars, unheard, restarts>>

(* markDead.                                                                *)
HearExit(t) ==
    /\ t \in news
    /\ news' = news \ {t}
    /\ dead' = dead \cup {t}
    /\ UNCHANGED <<call, view, heard, ports, device, worker, flowVars, unheard, restarts>>

-----------------------------------------------------------------------------
(* Commands *)

(* SerialManager::send: Ok for an unknown id, an error when the worker has  *)
(* gone and its entry has stayed.  The page ignores either.                 *)
Tell(t, cmd) ==
    cmds' = IF t \in ports /\ Hears(t) THEN [cmds EXCEPT ![t] = Append(@, cmd)] ELSE cmds

SerialWrite(t, k) ==
    /\ view[t] = "open" /\ Talks(t)
    /\ Len(typed[t]) < MaxTyped
    /\ Tell(t, k)
    /\ typed' = IF cmds' # cmds THEN [typed EXCEPT ![t] = Append(@, k)] ELSE typed
    /\ UNCHANGED <<pageSide, news, ports, device, worker, sent, unheard, restarts>>

(* The menu asks for the id only.  Bound: one at a time.                    *)
SerialBreak(t) ==
    /\ view[t] = "open" /\ call[t] = "named"
    /\ ~Contains(cmds[t], Break)
    /\ Tell(t, Break)
    /\ UNCHANGED <<pageSide, news, ports, device, worker, typed, sent, unheard, restarts>>

(* Mutant: what is queued is dropped.                                       *)
ClosePurges(ts) ==
    /\ ports' = ports \ ts
    /\ cmds' = [t \in Consoles |->
                   IF t \in ts \cap ports /\ Hears(t) THEN <<CloseCmd>> ELSE cmds[t]]

(* SerialManager::close, for each of several ids.                           *)
ClosePorts(ts) ==
    /\ ports' = ports \ ts
    /\ cmds' = [t \in Consoles |->
                   IF t \in ts \cap ports /\ Hears(t) THEN Append(cmds[t], CloseCmd) ELSE cmds[t]]

(* Mutant: a tab counts as connected when its handler is registered.        *)
CloseTabUnheard(t) ==
    /\ view[t] = "open"
    /\ view' = [view EXCEPT ![t] = IF call[t] \in {"asked", "opened"} THEN "hasty" ELSE "closed"]
    /\ ClosePorts(IF Talks(t) /\ t \in heard THEN {t} ELSE {})
    /\ UNCHANGED <<call, dead, heard, news, device, worker, typed, sent, unheard, restarts>>

(* closeTab tells the back end if it has an id ("hasty" is one that has     *)
(* none yet) and the tab is not dead.  The handlers of a closed tab change  *)
(* nothing seen here.                                                       *)
CloseTab(t) ==
    /\ view[t] = "open"
    /\ view' = [view EXCEPT ![t] = IF call[t] \in {"asked", "opened"} THEN "hasty" ELSE "closed"]
    /\ ClosePorts(IF Talks(t) THEN {t} ELSE {})
    /\ UNCHANGED <<call, dead, heard, news, device, worker, typed, sent, unheard, restarts>>

(* Mutant: only the ports of tabs that were closed.                         *)
ReloadClosesSome ==
    /\ restarts < MaxRestarts
    /\ \A t \in Consoles : call[t] # "asked"
    /\ restarts' = restarts + 1
    /\ view' = [t \in Consoles |-> IF view[t] = "none" THEN "none" ELSE "gone"]
    /\ news' = {}
    /\ ClosePorts({t \in Consoles : view[t] \in {"closed", "hasty"}})
    /\ UNCHANGED <<call, dead, heard, device, worker, typed, sent, unheard>>

(* The page is loaded again and calls reset_sessions, after what the old    *)
(* one had asked for.                                                       *)
ReloadPage ==
    /\ restarts < MaxRestarts
    /\ \A t \in Consoles : call[t] # "asked"
    /\ restarts' = restarts + 1
    /\ view' = [t \in Consoles |-> IF view[t] = "none" THEN "none" ELSE "gone"]
    /\ news' = {}
    /\ ClosePorts(Consoles)
    /\ UNCHANGED <<call, dead, heard, device, worker, typed, sent, unheard>>

-----------------------------------------------------------------------------
(* The worker *)

(* Mutant: the event is sent, but only the inner loop is left.              *)
ExitGoesOn(t) ==
    /\ worker' = [worker EXCEPT ![t] = "read"]
    /\ news' = IF t \in heard /\ view[t] # "gone" THEN news \cup {t} ELSE news
    /\ unheard' = IF t \in heard THEN unheard ELSE unheard \cup {t}

(* An exit event, to those who are registered, and the end of the loop.     *)
Exit(t) ==
    /\ worker' = [worker EXCEPT ![t] = "leaving"]
    /\ news' = IF t \in heard /\ view[t] # "gone" THEN news \cup {t} ELSE news
    /\ unheard' = IF t \in heard THEN unheard ELSE unheard \cup {t}

(* Mutant: a failed write ends the worker in silence.                       *)
DrainQuits(t) ==
    /\ worker[t] = "drain" /\ cmds[t] # <<>>
    /\ cmds' = [cmds EXCEPT ![t] = Tail(@)]
    /\ LET cmd == Head(cmds[t])
       IN  CASE cmd = CloseCmd -> Exit(t) /\ UNCHANGED sent
             [] cmd = Break    -> UNCHANGED <<worker, news, unheard, sent>>
             [] OTHER          ->
                  \/ /\ sent' = [sent EXCEPT ![t] = Append(@, cmd)]
                     /\ UNCHANGED <<worker, news, unheard>>
                  \/ worker' = [worker EXCEPT ![t] = "leaving"] /\ UNCHANGED <<news, unheard, sent>>
    /\ UNCHANGED <<pageSide, ports, device, typed, restarts>>

(* One turn of `match rx.try_recv()`: a write may fail.                     *)
Drain(t) ==
    /\ worker[t] = "drain" /\ cmds[t] # <<>>
    /\ cmds' = [cmds EXCEPT ![t] = Tail(@)]
    /\ LET cmd == Head(cmds[t])
       IN  CASE cmd = CloseCmd -> Exit(t) /\ UNCHANGED sent
             [] cmd = Break    -> UNCHANGED <<worker, news, unheard, sent>>
             [] OTHER          ->
                  \/ /\ sent' = [sent EXCEPT ![t] = Append(@, cmd)]
                     /\ UNCHANGED <<worker, news, unheard>>
                  \/ Exit(t) /\ UNCHANGED sent
    /\ UNCHANGED <<pageSide, ports, device, typed, restarts>>

DrainEmpty(t) ==
    /\ worker[t] = "drain" /\ cmds[t] = <<>>
    /\ worker' = [worker EXCEPT ![t] = "read"]
    /\ UNCHANGED <<pageSide, news, ports, device, flowVars, unheard, restarts>>

(* Data, nothing within 60 ms, or an error.                                 *)
ReadPort(t) ==
    /\ worker[t] = "read"
    /\ \/ /\ worker' = [worker EXCEPT ![t] = "drain"]
          /\ UNCHANGED <<news, unheard>>
       \/ Exit(t)
    /\ UNCHANGED <<pageSide, ports, device, flowVars, restarts>>

(* The worker returns: device and receiver go, the entry is nobody's.       *)
WorkerReturns(t) ==
    /\ worker[t] = "leaving"
    /\ worker' = [worker EXCEPT ![t] = "ended"]
    /\ device' = Nobody
    /\ cmds' = [cmds EXCEPT ![t] = <<>>]
    /\ UNCHANGED <<pageSide, news, ports, typed, sent, unheard, restarts>>

SerialWorker(t) == Drain(t) \/ DrainEmpty(t) \/ ReadPort(t) \/ WorkerReturns(t)

SerialPage(t) == SerialConnect(t) \/ Resume(t) \/ Refuse(t) \/ Listen(t) \/ HearExit(t)

SerialNext ==
    \/ ReloadPage
    \/ \E t \in Consoles :
          \/ OpenSerial(t) \/ CloseTab(t) \/ SerialBreak(t)
          \/ SerialPage(t) \/ SerialWorker(t)
          \/ \E k \in Keys : SerialWrite(t, k)

(* Worker threads are scheduled (a read ends after 60 ms), and what the     *)
(* page has asked for is done.  Nothing is assumed of the user.             *)
SerialFairness ==
    \A t \in Consoles : WF_serialVars(SerialWorker(t)) /\ WF_serialVars(SerialPage(t))

SerialSpec == SerialInit /\ [][SerialNext]_serialVars /\ SerialFairness

-----------------------------------------------------------------------------
(* Properties *)

(* What was typed before a tab is closed reaches the device before it is    *)
(* let go, in order (Close travels in the queue, unlike pump_loop's flag);  *)
(* only a failing device loses input.                                       *)
TypedIsSent ==
    \A t \in Consoles :
        /\ IsPrefix(sent[t], typed[t])
        /\ worker[t] \in {"drain", "read"} =>
              sent[t] \o Only(cmds[t], Keys) = typed[t]

(* A closed tab gives its device back, and a reload gives back all devices, *)
(* so that they can be opened again.  A tab closed while serial_connect is  *)
(* under way ("hasty") keeps the device until the next reload.              *)
ClosedPortIsFree ==
    \A t \in Consoles : (view[t] \in {"closed", "gone"}) ~> (device # t)

(* A tab that looks alive has a worker, or hears of its end soon; unless    *)
(* the worker had ended before the page listened.                           *)
LiveConsoleIsLive ==
    \A t \in Consoles :
        Talks(t) /\ view[t] = "open" /\ worker[t] \in {"leaving", "ended"} =>
            t \in news \cup unheard
(* A serial session as its tab sees it.                                     *)
PortPhase(t) ==
    IF worker[t] = "none" THEN "new"
    ELSE IF worker[t] = "ended" THEN "over"
    ELSE IF worker[t] = "leaving" \/ Contains(cmds[t], CloseCmd) THEN "ending"
    ELSE "open"

PortLine == INSTANCE Terminal WITH
    Lines <- Consoles, Input <- Keys,
    phase <- [t \in Consoles |-> PortPhase(t)], given <- typed, taken <- sent

=============================================================================
