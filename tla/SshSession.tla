---------------------------- MODULE SshSession ----------------------------
(***************************************************************************)
(* The terminal back end: ssh::connect on a blocking-pool thread, the      *)
(* SshManager map, the I/O pump thread of every session, the X11 helper's  *)
(* write into the pump's queue, and the synchronous commands, which run    *)
(* one at a time on the main thread (ssh_write, ssh_close, delete_host,    *)
(* reset_sessions).  Resize and SetLog travel the same queue and touch     *)
(* nothing modelled here.                                                  *)
(***************************************************************************)
EXTENDS Queues, SequencesExt

CONSTANTS
    Sessions,      \* session ids; one connection attempt each
    Hosts,         \* saved hosts
    Inputs,        \* what the user types
    Hook, Export,  \* the shell-integration line and the X11 helper's export
    Disconnect,    \* SshCommand::Disconnect
    None,
    MaxInput,      \* bound: data commands accepted per session
    MaxReloads     \* bound: times the web view is reloaded

ASSUME SshAssumption ==
    /\ Disconnect \notin Inputs \cup {Hook, Export}
    /\ Hook \notin Inputs \cup {Export}
    /\ None \notin Hosts
    /\ MaxInput \in Nat /\ MaxReloads \in Nat

VARIABLES
    hosts,     \* ids in the HostStore
    conn,      \* progress of connect() for each session
    hostOf,    \* host of the attempt
    entries,   \* ids in SshManager.sessions
    queue,     \* the mpsc channel
    pump,      \* where the pump thread is
    disc,      \* the pump's local `disconnect` flag
    pending,   \* the pump's buffer of unwritten input
    written,   \* what the SSH channel has taken
    accepted,  \* history: data commands a live receiver has accepted
    alive,     \* the flag the tunnel and X11 helpers watch
    exits,     \* number of ssh-exit events emitted
    sweep,     \* disconnect_host / disconnect_all in progress
    closed,    \* sessions whose tab the user has closed
    reloads    \* reloads of the web view so far

connVars == <<conn, hostOf>>
pumpVars == <<pump, disc, pending, written, alive, exits>>
chanVars == <<queue, accepted>>
uiVars   == <<closed, reloads>>
sshVars  == <<hosts, conn, hostOf, entries, queue, pump, disc, pending, written,
              accepted, alive, exits, sweep, closed, reloads>>

Data == Inputs \cup {Hook, Export}

(* "failed" and "up" are the two ways connect() returns.                    *)
ConnPhase == {"none", "connecting", "inserted", "hooked", "failed", "up"}

(* "drain" and "io" are inside pump_loop; the others are the four lines     *)
(* after it returned.                                                       *)
PumpPhase == {"none", "drain", "io", "returned", "unalive", "removed", "exited"}

(* The receiver exists from mpsc::channel() until pump_loop returns.        *)
Receiving(s) == pump[s] \in {"none", "drain", "io"}

Idle == [op |-> "idle", host |-> None, ids |-> {}]

SshInit ==
    /\ hosts = Hosts
    /\ conn = [s \in Sessions |-> "none"]
    /\ hostOf = [s \in Sessions |-> None]
    /\ entries = {}
    /\ queue = [s \in Sessions |-> <<>>]
    /\ pump = [s \in Sessions |-> "none"]
    /\ disc = [s \in Sessions |-> FALSE]
    /\ pending = [s \in Sessions |-> <<>>]
    /\ written = [s \in Sessions |-> <<>>]
    /\ accepted = [s \in Sessions |-> <<>>]
    /\ alive = [s \in Sessions |-> FALSE]
    /\ exits = [s \in Sessions |-> 0]
    /\ sweep = Idle
    /\ closed = {}
    /\ reloads = 0

-----------------------------------------------------------------------------
(* Sending *)

(* tx.send: queued while the receiver lives, an error the callers drop      *)
(* afterwards.                                                              *)
Push(s, cmd) ==
    IF Receiving(s)
    THEN /\ queue' = [queue EXCEPT ![s] = Append(@, cmd)]
         /\ accepted' = IF cmd = Disconnect THEN accepted
                        ELSE [accepted EXCEPT ![s] = Append(@, cmd)]
    ELSE UNCHANGED chanVars

(* SshManager::send: an unknown id is silently Ok.                          *)
Send(s, cmd) == IF s \in entries THEN Push(s, cmd) ELSE UNCHANGED chanVars

-----------------------------------------------------------------------------
(* connect_host and ssh::connect *)

(* The command looks the host up when its task runs.                        *)
ConnectHost(s, h) ==
    /\ conn[s] = "none"
    /\ conn' = [conn EXCEPT ![s] = IF h \in hosts THEN "connecting" ELSE "failed"]
    /\ hostOf' = [hostOf EXCEPT ![s] = h]
    /\ UNCHANGED <<hosts, entries, chanVars, pumpVars, sweep, uiVars>>

EstablishFails(s) ==
    /\ conn[s] = "connecting"
    /\ conn' = [conn EXCEPT ![s] = "failed"]
    /\ UNCHANGED <<hosts, hostOf, entries, chanVars, pumpVars, sweep, uiVars>>

(* Connected, authenticated, shell requested: the entry becomes visible.    *)
InsertEntry(s) ==
    /\ conn[s] = "connecting"
    /\ conn' = [conn EXCEPT ![s] = "inserted"]
    /\ entries' = entries \cup {s}
    /\ UNCHANGED <<hosts, hostOf, chanVars, pumpVars, sweep, uiVars>>

(* alive is created, the shell-integration line is the connection's own     *)
(* first send; the helper threads start after it.                           *)
SendHook(s) ==
    /\ conn[s] = "inserted"
    /\ conn' = [conn EXCEPT ![s] = "hooked"]
    /\ alive' = [alive EXCEPT ![s] = TRUE]
    /\ Push(s, Hook)
    /\ UNCHANGED <<hosts, hostOf, entries, pump, disc, pending, written, exits, sweep, uiVars>>

(* The pump thread is spawned and the session id goes to the front end.     *)
SpawnPump(s) ==
    /\ conn[s] = "hooked"
    /\ conn' = [conn EXCEPT ![s] = "up"]
    /\ pump' = [pump EXCEPT ![s] = "drain"]
    /\ UNCHANGED <<hosts, hostOf, entries, chanVars, disc, pending, written,
                   alive, exits, sweep, uiVars>>

(* Mutant: the helpers are started before the line is queued.               *)
X11ExportEarly(s) ==
    /\ conn[s] \in {"inserted", "hooked", "up"}
    /\ ~Contains(accepted[s], Export)
    /\ Len(accepted[s]) < MaxInput
    /\ Push(s, Export)
    /\ UNCHANGED <<hosts, connVars, entries, pumpVars, sweep, uiVars>>

(* The X11 helper has its remote forward and types `export DISPLAY=...`     *)
(* through its own clone of the sender, once.                               *)
X11Export(s) ==
    /\ conn[s] \in {"hooked", "up"}
    /\ ~Contains(accepted[s], Export)
    /\ Len(accepted[s]) < MaxInput
    /\ Push(s, Export)
    /\ UNCHANGED <<hosts, connVars, entries, pumpVars, sweep, uiVars>>

-----------------------------------------------------------------------------
(* Synchronous commands *)

(* A tab types into its session and closes it at most once; both know the   *)
(* id only from the result of connect_host.                                 *)
Write(s, i) ==
    /\ sweep = Idle
    /\ conn[s] = "up"
    /\ s \notin closed
    /\ Len(accepted[s]) < MaxInput
    /\ Send(s, i)
    /\ UNCHANGED <<hosts, connVars, entries, pumpVars, sweep, uiVars>>

Close(s) ==
    /\ sweep = Idle
    /\ conn[s] = "up"
    /\ s \notin closed
    /\ closed' = closed \cup {s}
    /\ Send(s, Disconnect)
    /\ UNCHANGED <<hosts, connVars, entries, pumpVars, sweep, reloads>>

(* disconnect_host takes its list of ids under the lock and releases it.    *)
DeleteHost(h) ==
    /\ sweep = Idle
    /\ h \in hosts
    /\ sweep' = [op |-> "delete", host |-> h, ids |-> {s \in entries : hostOf[s] = h}]
    /\ UNCHANGED <<hosts, connVars, entries, chanVars, pumpVars, uiVars>>

(* The page calls reset_sessions once, when it is loaded again.             *)
ResetSessions ==
    /\ sweep = Idle
    /\ reloads < MaxReloads
    /\ reloads' = reloads + 1
    /\ sweep' = [op |-> "reset", host |-> None, ids |-> entries]
    /\ UNCHANGED <<hosts, connVars, entries, chanVars, pumpVars, closed>>

(* Mutant: the sweep passes over a session whose pump does not run yet.     *)
SweepSkipsStarting(s) ==
    /\ s \in sweep.ids
    /\ IF pump[s] = "none" THEN UNCHANGED chanVars ELSE Send(s, Disconnect)
    /\ sweep' = [sweep EXCEPT !.ids = @ \ {s}]
    /\ UNCHANGED <<hosts, connVars, entries, pumpVars, uiVars>>

(* One Disconnect per listed id, the lock taken anew for each.              *)
SweepSend(s) ==
    /\ s \in sweep.ids
    /\ Send(s, Disconnect)
    /\ sweep' = [sweep EXCEPT !.ids = @ \ {s}]
    /\ UNCHANGED <<hosts, connVars, entries, pumpVars, uiVars>>

(* The list is done; delete_host then removes the host from the store.      *)
SweepDone ==
    /\ sweep.op # "idle"
    /\ sweep.ids = {}
    /\ hosts' = hosts \ {sweep.host}
    /\ sweep' = Idle
    /\ UNCHANGED <<connVars, entries, chanVars, pumpVars, uiVars>>

-----------------------------------------------------------------------------
(* The pump thread *)

(* Mutant: a Disconnect is forgotten when input follows it in the queue.    *)
DrainForgets(s) ==
    /\ pump[s] = "drain"
    /\ queue[s] # <<>>
    /\ queue' = [queue EXCEPT ![s] = Tail(@)]
    /\ disc' = [disc EXCEPT ![s] = Head(queue[s]) = Disconnect]
    /\ pending' = IF Head(queue[s]) = Disconnect THEN pending
                  ELSE [pending EXCEPT ![s] = Append(@, Head(queue[s]))]
    /\ UNCHANGED <<hosts, connVars, entries, accepted, pump, written, alive, exits, sweep, uiVars>>

(* One turn of `while let Ok(cmd) = rx.try_recv()`.                         *)
DrainOne(s) ==
    /\ pump[s] = "drain"
    /\ queue[s] # <<>>
    /\ queue' = [queue EXCEPT ![s] = Tail(@)]
    /\ IF Head(queue[s]) = Disconnect
       THEN /\ disc' = [disc EXCEPT ![s] = TRUE]
            /\ UNCHANGED pending
       ELSE /\ pending' = [pending EXCEPT ![s] = Append(@, Head(queue[s]))]
            /\ UNCHANGED disc
    /\ UNCHANGED <<hosts, connVars, entries, accepted, pump, written, alive, exits, sweep, uiVars>>

(* pump_loop returns: receiver, session and channel are dropped, and with   *)
(* them what was queued or pending.                                         *)
Return(s) ==
    /\ pump' = [pump EXCEPT ![s] = "returned"]
    /\ queue' = [queue EXCEPT ![s] = <<>>]
    /\ pending' = [pending EXCEPT ![s] = <<>>]
    /\ UNCHANGED <<hosts, connVars, entries, accepted, disc, alive, exits, sweep, uiVars>>

(* The queue is empty: a Disconnect seen in it ends the loop even if input  *)
(* is pending.                                                              *)
DrainEnd(s) ==
    /\ pump[s] = "drain"
    /\ queue[s] = <<>>
    /\ IF disc[s]
       THEN Return(s) /\ UNCHANGED written
       ELSE /\ pump' = [pump EXCEPT ![s] = "io"]
            /\ UNCHANGED <<hosts, connVars, entries, chanVars, disc, pending,
                           written, alive, exits, sweep, uiVars>>

(* Mutant: a partial write drains one byte too many.                        *)
PumpIoSkips(s) ==
    /\ pump[s] = "io"
    /\ \E n \in 0..Len(pending[s]) :
          /\ written' = [written EXCEPT ![s] = @ \o SubSeq(pending[s], 1, n)]
          /\ pending' = [pending EXCEPT ![s] = SubSeq(@, n + 2, Len(@))]
          /\ pump' = [pump EXCEPT ![s] = "drain"]
          /\ UNCHANGED <<hosts, connVars, entries, chanVars, disc, alive, exits, sweep, uiVars>>

(* Write what the channel takes, read what it has, then loop (after the     *)
(* keepalive) or return: write error, end of file, or a dead connection.    *)
PumpIo(s) ==
    /\ pump[s] = "io"
    /\ \E n \in 0..Len(pending[s]) :
          /\ written' = [written EXCEPT ![s] = @ \o SubSeq(pending[s], 1, n)]
          /\ \/ /\ pending' = [pending EXCEPT ![s] = SubSeq(@, n + 1, Len(@))]
                /\ pump' = [pump EXCEPT ![s] = "drain"]
                /\ UNCHANGED <<hosts, connVars, entries, chanVars, disc, alive, exits, sweep, uiVars>>
             \/ Return(s)

ClearAlive(s) ==
    /\ pump[s] = "returned"
    /\ pump' = [pump EXCEPT ![s] = "unalive"]
    /\ alive' = [alive EXCEPT ![s] = FALSE]
    /\ UNCHANGED <<hosts, connVars, entries, chanVars, disc, pending, written, exits, sweep, uiVars>>

RemoveEntry(s) ==
    /\ pump[s] = "unalive"
    /\ pump' = [pump EXCEPT ![s] = "removed"]
    /\ entries' = entries \ {s}
    /\ UNCHANGED <<hosts, connVars, chanVars, disc, pending, written, alive, exits, sweep, uiVars>>

(* Mutant: the exit event is emitted as soon as the loop returns.           *)
EmitExitEarly(s) ==
    /\ pump[s] \in {"returned", "unalive", "removed"}
    /\ exits[s] = 0
    /\ pump' = [pump EXCEPT ![s] = IF @ = "removed" THEN "exited" ELSE @]
    /\ exits' = [exits EXCEPT ![s] = 1]
    /\ UNCHANGED <<hosts, connVars, entries, chanVars, disc, pending, written, alive, sweep, uiVars>>

EmitExit(s) ==
    /\ pump[s] = "removed"
    /\ pump' = [pump EXCEPT ![s] = "exited"]
    /\ exits' = [exits EXCEPT ![s] = @ + 1]
    /\ UNCHANGED <<hosts, connVars, entries, chanVars, disc, pending, written, alive, sweep, uiVars>>

Connect(s) == EstablishFails(s) \/ InsertEntry(s) \/ SendHook(s) \/ SpawnPump(s)

Pump(s) ==
    \/ DrainOne(s) \/ DrainEnd(s) \/ PumpIo(s)
    \/ ClearAlive(s) \/ RemoveEntry(s) \/ EmitExit(s)

Sweep == SweepDone \/ \E s \in Sessions : SweepSend(s)

Commands ==
    \/ \E s \in Sessions, h \in Hosts : ConnectHost(s, h)
    \/ \E s \in Sessions, i \in Inputs : Write(s, i)
    \/ \E s \in Sessions : Close(s)
    \/ \E h \in Hosts : DeleteHost(h)
    \/ ResetSessions

SshNext ==
    \/ Commands
    \/ Sweep
    \/ \E s \in Sessions : Connect(s) \/ Pump(s) \/ X11Export(s)

(* Threads that exist are scheduled; connect() returns (its network calls   *)
(* time out), a command that has begun on the main thread goes on.  Nothing *)
(* is assumed of the user, of the remote shell or of the X11 helper.        *)
SshFairness ==
    /\ WF_sshVars(Sweep)
    /\ \A s \in Sessions : WF_sshVars(Connect(s)) /\ WF_sshVars(Pump(s))

SshSpec == SshInit /\ [][SshNext]_sshVars /\ SshFairness

-----------------------------------------------------------------------------
(* Properties *)

SshTypeOK ==
    /\ hosts \subseteq Hosts
    /\ conn \in [Sessions -> ConnPhase]
    /\ hostOf \in [Sessions -> Hosts \cup {None}]
    /\ entries \subseteq Sessions
    /\ queue \in [Sessions -> Seq(Data \cup {Disconnect})]
    /\ pump \in [Sessions -> PumpPhase]
    /\ disc \in [Sessions -> BOOLEAN]
    /\ pending \in [Sessions -> Seq(Data)]
    /\ written \in [Sessions -> Seq(Data)]
    /\ accepted \in [Sessions -> Seq(Data)]
    /\ alive \in [Sessions -> BOOLEAN]
    /\ exits \in [Sessions -> 0..1]
    /\ sweep \in [op : {"idle", "delete", "reset"}, host : Hosts \cup {None},
                  ids : SUBSET Sessions]
    /\ closed \subseteq Sessions
    /\ reloads \in 0..MaxReloads

(* Keystrokes cross three buffers and two threads and are dropped at the    *)
(* end: while the pump lives nothing is lost, doubled or reordered, and     *)
(* what the shell got is always a prefix of what was accepted (pump_loop's  *)
(* drain and partial writes).                                               *)
InputConserved ==
    \A s \in Sessions :
        /\ IsPrefix(written[s], accepted[s])
        /\ Receiving(s) =>
              written[s] \o pending[s] \o Only(queue[s], Data)
                  = accepted[s]

(* The entry is visible before the shell-integration line is queued, so any *)
(* other thread could get in front of it; the shell must read that line     *)
(* first.                                                                   *)
HookFirst == \A s \in Sessions : written[s] # <<>> => Head(written[s]) = Hook

(* The front end takes ssh-exit as the end of the session: by then the id   *)
(* is out of the map, the helpers have been told, and no command is         *)
(* accepted any more.                                                       *)
ExitIsLast ==
    \A s \in Sessions :
        exits[s] > 0 => s \notin entries /\ ~alive[s] /\ ~Receiving(s)

(* A session as its tab sees it.                                            *)
SshPhase(s) ==
    IF ~Receiving(s) THEN "over"
    ELSE IF Contains(queue[s], Disconnect) \/ disc[s] THEN "ending"
    ELSE IF conn[s] \in {"inserted", "hooked", "up"} THEN "open"
    ELSE "new"

SshLine == INSTANCE Terminal WITH
    Lines <- Sessions, Input <- Data,
    phase <- [s \in Sessions |-> SshPhase(s)], given <- accepted, taken <- written

(* A Disconnect in the queue ends the session, however it is interleaved    *)
(* with input, with the spawn of the pump and with the end of the shell.    *)
DisconnectEndsSession ==
    \A s \in Sessions :
        (Contains(queue[s], Disconnect) \/ disc[s]) ~> (exits[s] = 1)

(* delete_host and reset_sessions end every session they listed, although   *)
(* sessions come and go between the listing and the sends.                  *)
ListedSessionsEnd == \A s \in Sessions : (s \in sweep.ids) ~> (s \notin entries)

=============================================================================
