------------------------------ MODULE TermTab ------------------------------
(***************************************************************************)
(* Terminal tabs (ui/main.js) composed with the terminal back end of        *)
(* SshSession.  The page runs one task at a time; between two awaits of    *)
(* attachSsh anything else may run: an event handler, the user closing the *)
(* tab, the deletion of the host.  Typing is left to SshSession.           *)
(***************************************************************************)
EXTENDS SshSession

CONSTANT Tabs

ASSUME TabAssumption == None \notin Sessions

VARIABLES
    tab,       \* the page's session object of each tab
    listeners, \* <<tab, session>>: exit handlers known to the back end
    events,    \* <<tab, session>>: exit events on their way to the page
    requests,  \* ssh_close calls on their way to the back end
    replies,   \* hosts whose delete_host has returned, not yet handled
    orphaned,  \* history: attempts whose tab closed before it knew their id
    missed     \* history: sessions whose exit event had no handler yet

pageVars == <<tab, listeners, events, requests, replies, orphaned, missed>>
tabVars  == <<sshVars, pageVars>>

(* attachSsh: "invoking" awaits connect_host, "listening" awaits listen(),  *)
(* "listened" is registered but not resumed, "settled" is past the try.     *)
Phase == {"none", "invoking", "listening", "listened", "settled"}

NoTab == [ph |-> "none", host |-> None, sid |-> None, req |-> None, open |-> FALSE,
          dead |-> FALSE, dot |-> "conn", btn |-> FALSE, unl |-> {}]

TabInit ==
    /\ SshInit
    /\ tab = [t \in Tabs |-> NoTab]
    /\ listeners = {}
    /\ events = {}
    /\ requests = {}
    /\ replies = {}
    /\ orphaned = {}
    /\ missed = {}

Unused(s) == conn[s] = "none" /\ \A t \in Tabs : tab[t].req # s

(* Mutant: only a tab that was live gets the button.                        *)
DeadIfLive(r) == [r EXCEPT !.dead = TRUE, !.dot = "dead", !.btn = r.dot = "live"]

(* markDead: the button is added unless it is there.                        *)
Dead(r) == [r EXCEPT !.dead = TRUE, !.dot = "dead", !.btn = TRUE]

-----------------------------------------------------------------------------
(* Opening and attaching *)

(* openSession: the tab exists before the connection does.                  *)
OpenTab(t, h) ==
    /\ tab[t].ph = "none"
    /\ h \in hosts
    /\ \E s \in Sessions :
          /\ Unused(s)
          /\ tab' = [tab EXCEPT ![t] = [NoTab EXCEPT !.ph = "invoking", !.open = TRUE,
                                                     !.host = h, !.req = s]]
    /\ UNCHANGED <<sshVars, listeners, events, requests, replies, orphaned, missed>>

(* The back end starts on the call.                                         *)
StartConnect(t) ==
    /\ tab[t].ph = "invoking"
    /\ ConnectHost(tab[t].req, tab[t].host)
    /\ UNCHANGED pageVars

(* connect_host resolved: the id is stored even if the tab has been closed. *)
ResultOk(t) ==
    /\ tab[t].ph = "invoking"
    /\ conn[tab[t].req] = "up"
    /\ tab' = [tab EXCEPT ![t].ph = "listening", ![t].sid = tab[t].req]
    /\ UNCHANGED <<sshVars, listeners, events, requests, replies, orphaned, missed>>

(* connect_host rejected.                                                   *)
ResultErr(t) ==
    /\ tab[t].ph = "invoking"
    /\ conn[tab[t].req] = "failed"
    /\ tab' = [tab EXCEPT ![t] = [Dead(@) EXCEPT !.ph = "settled"]]
    /\ UNCHANGED <<sshVars, listeners, events, requests, replies, orphaned, missed>>

(* listen(`ssh-exit-...`) reaches the back end; the page has not resumed.   *)
RegisterExit(t) ==
    /\ tab[t].ph = "listening"
    /\ listeners' = listeners \cup {<<t, tab[t].sid>>}
    /\ tab' = [tab EXCEPT ![t].ph = "listened"]
    /\ UNCHANGED <<sshVars, events, requests, replies, orphaned, missed>>

(* The rest of the try block: the dot turns live, the button goes.          *)
Attached(t) ==
    /\ tab[t].ph = "listened"
    /\ tab' = [tab EXCEPT ![t] = [@ EXCEPT !.ph = "settled", !.dot = "live",
                                           !.btn = FALSE, !.unl = {<<t, tab[t].sid>>}]]
    /\ UNCHANGED <<sshVars, listeners, events, requests, replies, orphaned, missed>>

-----------------------------------------------------------------------------
(* The end of a session *)

(* Mutant: the event is delivered to a handler only if no tab is busy.      *)
EmitExitDropped(s) ==
    /\ EmitExit(s)
    /\ events' = events \cup {l \in listeners : l[2] = s /\ tab[l[1]].ph = "settled"}
    /\ missed' = IF \E l \in listeners : l[2] = s THEN missed ELSE missed \cup {s}
    /\ UNCHANGED <<tab, listeners, requests, replies, orphaned>>

(* The pump emits ssh-exit to whoever listens at that moment.               *)
EmitExitEvent(s) ==
    /\ EmitExit(s)
    /\ events' = events \cup {l \in listeners : l[2] = s}
    /\ missed' = IF \E l \in listeners : l[2] = s THEN missed ELSE missed \cup {s}
    /\ UNCHANGED <<tab, listeners, requests, replies, orphaned>>

(* The handler runs in the page, unless it was unlistened meanwhile.        *)
HandleExit(t, s) ==
    /\ <<t, s>> \in events
    /\ events' = events \ {<<t, s>>}
    /\ tab' = IF <<t, s>> \in listeners THEN [tab EXCEPT ![t] = Dead(@)] ELSE tab
    /\ UNCHANGED <<sshVars, listeners, requests, replies, orphaned, missed>>

-----------------------------------------------------------------------------
(* Closing, deleting, reconnecting *)

(* Mutant: closing sends ssh_close only once the tab has settled.           *)
CloseSettledTabs(T) ==
    /\ requests' = requests \cup {tab[t].sid : t \in {u \in T :
                       tab[u].ph = "settled" /\ tab[u].sid # None /\ ~tab[u].dead}}
    /\ orphaned' = orphaned \cup {tab[t].req : t \in {u \in T : tab[u].ph = "invoking"}}
    /\ listeners' = listeners \ UNION {tab[t].unl : t \in T}
    /\ tab' = [t \in Tabs |-> IF t \in T THEN [tab[t] EXCEPT !.open = FALSE] ELSE tab[t]]

(* closeTab for each tab of T: ssh_close only for an id that is known and   *)
(* not dead (while reconnecting that is the id of the previous session),    *)
(* and only the stored unlisteners are called.  A pending attachSsh goes on.*)
CloseTabs(T) ==
    /\ requests' = requests \cup {tab[t].sid : t \in {u \in T :
                                     tab[u].sid # None /\ ~tab[u].dead}}
    /\ orphaned' = orphaned \cup {tab[t].req : t \in {u \in T : tab[u].ph = "invoking"}}
    /\ listeners' = listeners \ UNION {tab[t].unl : t \in T}
    /\ tab' = [t \in Tabs |-> IF t \in T THEN [tab[t] EXCEPT !.open = FALSE] ELSE tab[t]]

UserCloses(t) ==
    /\ tab[t].open
    /\ CloseTabs({t})
    /\ UNCHANGED <<sshVars, events, replies, missed>>

(* ssh_close runs on the main thread, one call per tab.                     *)
HandleClose(s) ==
    /\ s \in requests
    /\ requests' = requests \ {s}
    /\ Close(s)
    /\ UNCHANGED <<tab, listeners, events, replies, orphaned, missed>>

UserDeletes(h) == DeleteHost(h) /\ UNCHANGED pageVars

(* The sweep ends; if it was delete_host's, its caller resumes.             *)
FinishSweep ==
    /\ SweepDone
    /\ replies' = replies \cup ({sweep.host} \ {None})
    /\ UNCHANGED <<tab, listeners, events, requests, orphaned, missed>>

(* `await invoke("delete_host")` is over: the host's tabs are closed.       *)
HostDeleted(h) ==
    /\ h \in replies
    /\ replies' = replies \ {h}
    /\ CloseTabs({t \in Tabs : tab[t].open /\ tab[t].host = h})
    /\ UNCHANGED <<sshVars, events, missed>>

(* reconnectSsh, by the button or R: the old id stays in the tab until the  *)
(* new session answers.  (R between the two halves of listen is not         *)
(* modelled: attachSsh has settled.)                                        *)
Reconnect(t) ==
    /\ tab[t].open
    /\ tab[t].btn
    /\ tab[t].ph = "settled"
    /\ \E s \in Sessions :
          /\ Unused(s)
          /\ tab' = [tab EXCEPT ![t] = [@ EXCEPT !.ph = "invoking", !.req = s, !.btn = FALSE,
                                          !.dead = FALSE, !.dot = "conn", !.unl = {}]]
    /\ listeners' = listeners \ tab[t].unl
    /\ UNCHANGED <<sshVars, events, requests, replies, orphaned, missed>>

-----------------------------------------------------------------------------
User(t) == UserCloses(t) \/ Reconnect(t) \/ \E h \in Hosts : OpenTab(t, h)

Page(t) ==
    \/ StartConnect(t) \/ ResultOk(t) \/ ResultErr(t) \/ RegisterExit(t) \/ Attached(t)
    \/ \E s \in Sessions : HandleExit(t, s)

BackEnd(s) ==
    \/ (Connect(s) \/ DrainOne(s) \/ DrainEnd(s) \/ PumpIo(s) \/ ClearAlive(s)
        \/ RemoveEntry(s)) /\ UNCHANGED pageVars
    \/ EmitExitEvent(s)

Main ==
    \/ FinishSweep
    \/ \E s \in Sessions : SweepSend(s) /\ UNCHANGED pageVars
    \/ \E s \in Sessions : HandleClose(s)

TabNext ==
    \/ \E t \in Tabs : User(t) \/ Page(t)
    \/ \E h \in Hosts : UserDeletes(h) \/ HostDeleted(h)
    \/ \E s \in Sessions : BackEnd(s)
    \/ Main

(* The page's event loop and the back end's threads keep running.  The user *)
(* and the remote shell owe nothing.                                        *)
TabSpec ==
    /\ TabInit
    /\ [][TabNext]_tabVars
    /\ \A t \in Tabs : WF_tabVars(Page(t))
    /\ \A s \in Sessions : WF_tabVars(BackEnd(s))
    /\ \A h \in Hosts : WF_tabVars(HostDeleted(h))
    /\ WF_tabVars(Main)

-----------------------------------------------------------------------------
(* Properties *)

(* closeTab sends nothing for a dead tab, so a tab may be dead only when    *)
(* the session it knows is out of the back end's map.                       *)
DeadTabHasNoSession ==
    \A t \in Tabs :
        tab[t].dead /\ tab[t].sid # None => tab[t].sid \notin entries

(* A session that runs has an open tab, or its end has been ordered, or it  *)
(* is one of the orphans: its tab was closed, by the user or by the         *)
(* deletion of the host, while connect_host was in flight.  There is no     *)
(* other way to lose a session (closeTab, the delete handler).              *)
NoOtherOrphans ==
    \A s \in Sessions :
        conn[s] = "up" /\ s \in entries =>
            \/ \E t \in Tabs : tab[t].open /\ tab[t].req = s
            \/ s \in requests \cup orphaned
            \/ Contains(queue[s], Disconnect) \/ disc[s]
            \/ ~Receiving(s)

(* A tab that shows a live session has one, or is about to be told that it  *)
(* ended, unless the exit event was emitted before the page listened: the   *)
(* only way a tab stays live for ever.                                      *)
LiveTabIsLive ==
    \A t \in Tabs :
        tab[t].ph = "settled" /\ tab[t].open /\ ~tab[t].dead =>
            \/ exits[tab[t].sid] = 0
            \/ <<t, tab[t].sid>> \in events
            \/ tab[t].sid \in missed

(* The release notes say R on a dead terminal reconnects, same as the       *)
(* button.  It needs the button: a failed attempt puts it back whatever     *)
(* happened before, and the one dead tab without it is the one whose exit   *)
(* was handled before attachSsh resumed, which then shows it live.          *)
DeadTabOffersReconnect ==
    \A t \in Tabs :
        tab[t].ph = "settled" /\ tab[t].open /\ tab[t].dead =>
            tab[t].btn \/ tab[t].dot = "live"

=============================================================================
