---------------------------- MODULE SftpSession ----------------------------
(***************************************************************************)
(* One SFTP tab's back end: the SftpManager entry, the worker thread that  *)
(* services the queue, the blocking calls that wait for a reply, the       *)
(* transfer threads the worker spawns, and the edit watchers.  Transfer    *)
(* threads use the permit through what Semaphore promises, which           *)
(* TransferPermit is shown to implement.                                   *)
(***************************************************************************)
EXTENDS Naturals, Sequences, SequencesExt

CONSTANTS
    Calls,       \* list, mkdir, delete, rename, chmod calls: request and reply
    Edits,       \* edit_open calls and the watcher each one starts
    Transfers,   \* transfer messages, of the user or of a watcher
    Disconnect, None,
    MAX,         \* Permit::MAX
    MaxCloses    \* bound: Disconnect messages (tab closed, host deleted, reload)

ASSUME SftpAssumption ==
    /\ Disconnect \notin Calls \cup Edits \cup Transfers
    /\ None \notin Calls \cup Edits
    /\ MAX \in Nat \ {0} /\ MaxCloses \in Nat

VARIABLES
    entry,    \* the session is in SftpManager.sessions
    worker,   \* where the worker thread is; "broken": after the loop,
              \* "removed": after thread_mgr.remove, "ended": receiver dropped
    cur,      \* the call the worker is serving
    queue,    \* the mpsc channel
    call,     \* state of each blocking call
    edit,     \* state of each edit_open call, then of its watcher
    watches,  \* the entry's list of cancel flags, by owner
    cancel,   \* watchers whose flag has been flipped
    xfer,     \* state of each transfer
    asking, inside, \* the permit, as the semaphore sees it
    closes    \* Disconnect messages sent

workVars == <<worker, cur>>
permVars == <<asking, inside>>
sftpVars == <<entry, worker, cur, queue, call, edit, watches, cancel, xfer,
              asking, inside, closes>>

Permit == INSTANCE Semaphore WITH Clients <- Transfers, Slots <- MAX

SftpInit ==
    /\ entry = FALSE
    /\ worker = "none"
    /\ cur = None
    /\ queue = <<>>
    /\ call = [c \in Calls |-> "idle"]
    /\ edit = [e \in Edits |-> "idle"]
    /\ watches = {}
    /\ cancel = {}
    /\ xfer = [x \in Transfers |-> "idle"]
    /\ asking = {} /\ inside = {}
    /\ closes = 0

Opened == worker # "none"

(* The entry is inserted and the worker spawned.                            *)
Open ==
    /\ ~Opened
    /\ entry' = TRUE
    /\ worker' = "recv"
    /\ UNCHANGED <<cur, queue, call, edit, watches, cancel, xfer, permVars, closes>>

-----------------------------------------------------------------------------
(* Callers.  SftpManager::send refuses an unknown id; while the entry is in *)
(* the map the receiver exists.                                             *)

(* list, mkdir, delete, rename, chmod: send, then block on the reply.       *)
Request(c) ==
    /\ Opened
    /\ call[c] = "idle"
    /\ call' = [call EXCEPT ![c] = IF entry THEN "waiting" ELSE "refused"]
    /\ queue' = IF entry THEN Append(queue, c) ELSE queue
    /\ UNCHANGED <<entry, workVars, edit, watches, cancel, xfer, permVars, closes>>

RequestEdit(e) ==
    /\ Opened
    /\ edit[e] = "idle"
    /\ edit' = [edit EXCEPT ![e] = IF entry THEN "waiting" ELSE "refused"]
    /\ queue' = IF entry THEN Append(queue, e) ELSE queue
    /\ UNCHANGED <<entry, workVars, call, watches, cancel, xfer, permVars, closes>>

(* sftp_transfer does not wait.                                             *)
QueueTransfer(x) ==
    /\ Opened
    /\ xfer[x] = "idle"
    /\ xfer' = [xfer EXCEPT ![x] = IF entry THEN "queued" ELSE "refused"]
    /\ queue' = IF entry THEN Append(queue, x) ELSE queue
    /\ UNCHANGED <<entry, workVars, call, edit, watches, cancel, permVars, closes>>

(* close, disconnect_host, disconnect_all: the error is dropped.            *)
Close ==
    /\ Opened
    /\ closes < MaxCloses
    /\ closes' = closes + 1
    /\ queue' = IF entry THEN Append(queue, Disconnect) ELSE queue
    /\ UNCHANGED <<entry, workVars, call, edit, watches, cancel, xfer, permVars>>

-----------------------------------------------------------------------------
(* The worker thread *)

Receive ==
    /\ worker = "recv"
    /\ queue # <<>>
    /\ queue' = Tail(queue)

ReceiveCall ==
    /\ Receive
    /\ Head(queue) \in Calls \cup Edits
    /\ worker' = "serving"
    /\ cur' = Head(queue)
    /\ UNCHANGED <<entry, call, edit, watches, cancel, xfer, permVars, closes>>

(* Mutant: the transfer runs on the worker only if a permit is free now.    *)
ReceiveTransferIfFree ==
    /\ Receive
    /\ \E x \in Transfers :
          /\ Head(queue) = x
          /\ IF inside = {} THEN /\ Permit!Ask(x)
                                 /\ xfer' = [xfer EXCEPT ![x] = "started"]
                            ELSE UNCHANGED <<permVars, xfer>>
    /\ UNCHANGED <<entry, workVars, call, edit, watches, cancel, closes>>

(* A transfer gets a thread of its own, which asks for a permit.            *)
ReceiveTransfer ==
    /\ Receive
    /\ \E x \in Transfers :
          /\ Head(queue) = x
          /\ Permit!Ask(x)
          /\ xfer' = [xfer EXCEPT ![x] = "started"]
    /\ UNCHANGED <<entry, workVars, call, edit, watches, cancel, closes>>

ReceiveDisconnect ==
    /\ Receive
    /\ Head(queue) = Disconnect
    /\ worker' = "broken"
    /\ UNCHANGED <<entry, cur, call, edit, watches, cancel, xfer, permVars, closes>>

(* Ten seconds without a message and the keepalive fails.                   *)
KeepaliveFails ==
    /\ worker = "recv"
    /\ queue = <<>>
    /\ worker' = "broken"
    /\ UNCHANGED <<entry, cur, queue, call, edit, watches, cancel, xfer, permVars, closes>>

(* The reply: a result or an error; edit_open goes on only with a result.   *)
Reply ==
    /\ worker = "serving"
    /\ worker' = "recv"
    /\ cur' = None
    /\ \/ /\ cur \in Calls
          /\ call' = [call EXCEPT ![cur] = "answered"]
          /\ UNCHANGED edit
       \/ /\ cur \in Edits
          /\ \E r \in {"downloaded", "failed"} : edit' = [edit EXCEPT ![cur] = r]
          /\ UNCHANGED call
    /\ UNCHANGED <<entry, queue, watches, cancel, xfer, permVars, closes>>

(* Mutant: the entry is removed, the flags are left alone.                  *)
RemoveKeepsFlags ==
    /\ worker = "broken"
    /\ worker' = "removed"
    /\ entry' = FALSE
    /\ UNCHANGED <<cur, queue, call, edit, watches, cancel, xfer, permVars, closes>>

(* SftpManager::remove, under the map's lock: entry out, every flag of its  *)
(* list flipped.                                                            *)
RemoveEntry ==
    /\ worker = "broken"
    /\ worker' = "removed"
    /\ entry' = FALSE
    /\ cancel' = cancel \cup watches
    /\ UNCHANGED <<cur, queue, call, edit, watches, xfer, permVars, closes>>

(* Mutant: the receiver outlives the worker.                                *)
DropNothing ==
    /\ worker = "removed"
    /\ worker' = "ended"
    /\ UNCHANGED <<entry, cur, queue, call, edit, watches, cancel, xfer, permVars, closes>>

(* The receiver is dropped with what it holds: the reply senders of waiting *)
(* calls go, so their recv fails; a transfer just disappears.               *)
DropReceiver ==
    /\ worker = "removed"
    /\ worker' = "ended"
    /\ queue' = <<>>
    /\ call' = [c \in Calls |-> IF Contains(queue, c) THEN "failed" ELSE call[c]]
    /\ edit' = [e \in Edits |-> IF Contains(queue, e) THEN "failed" ELSE edit[e]]
    /\ xfer' = [x \in Transfers |-> IF Contains(queue, x) THEN "dropped" ELSE xfer[x]]
    /\ UNCHANGED <<entry, cur, watches, cancel, permVars, closes>>

-----------------------------------------------------------------------------
(* Transfer threads: they hold no reference to the session.                 *)

Enter(x) ==
    /\ Permit!Enter(x)
    /\ UNCHANGED <<entry, workVars, queue, call, edit, watches, cancel, xfer, closes>>

(* Own session, copy, sftp-done whatever the outcome, then the guard drops. *)
Finish(x) ==
    /\ Permit!Leave(x)
    /\ xfer' = [xfer EXCEPT ![x] = "done"]
    /\ UNCHANGED <<entry, workVars, queue, call, edit, watches, cancel, closes>>

-----------------------------------------------------------------------------
(* Edit watchers *)

(* edit_open after the reply: the flag is listed if the session is still    *)
(* there; the watcher starts in any case.                                   *)
StartWatch(e) ==
    /\ edit[e] = "downloaded"
    /\ edit' = [edit EXCEPT ![e] = "watching"]
    /\ watches' = IF entry THEN watches \cup {e} ELSE watches
    /\ UNCHANGED <<entry, workVars, queue, call, cancel, xfer, permVars, closes>>

(* The flag is seen at the top of the loop, or the local file is gone.      *)
StopWatch(e) ==
    /\ edit[e] = "watching"
    /\ edit' = [edit EXCEPT ![e] = "stopped"]
    /\ UNCHANGED <<entry, workVars, queue, call, watches, cancel, xfer, permVars, closes>>

SeeCancel(e) == e \in cancel /\ StopWatch(e)

(* A save is noticed after the sleep, the flag having been read before it:  *)
(* an upload is queued, or the watcher ends because the session is gone.    *)
UploadSave(e) ==
    /\ edit[e] = "watching"
    /\ \/ /\ entry
          /\ \E x \in Transfers :
                /\ xfer[x] = "idle"
                /\ xfer' = [xfer EXCEPT ![x] = "queued"]
                /\ queue' = Append(queue, x)
          /\ UNCHANGED edit
       \/ /\ ~entry
          /\ edit' = [edit EXCEPT ![e] = "stopped"]
          /\ UNCHANGED <<xfer, queue>>
    /\ UNCHANGED <<entry, workVars, call, watches, cancel, permVars, closes>>

-----------------------------------------------------------------------------
Worker ==
    \/ ReceiveCall \/ ReceiveTransfer \/ ReceiveDisconnect
    \/ Reply \/ RemoveEntry \/ DropReceiver

Threads ==
    \/ \E x \in Transfers : Enter(x) \/ Finish(x)
    \/ \E e \in Edits : StartWatch(e) \/ SeeCancel(e)

Environment ==
    \/ Open \/ Close \/ KeepaliveFails
    \/ \E c \in Calls : Request(c)
    \/ \E e \in Edits : RequestEdit(e) \/ StopWatch(e) \/ UploadSave(e)
    \/ \E x \in Transfers : QueueTransfer(x)

SftpNext == Worker \/ Threads \/ Environment

(* The worker and the other threads are scheduled, and sftp calls return.   *)
(* Nothing is assumed of the user, of saves, or of the connection dying.    *)
SftpSpec ==
    /\ SftpInit
    /\ [][SftpNext]_sftpVars
    /\ WF_sftpVars(Worker)
    /\ WF_sftpVars(\E x \in Transfers : Enter(x))
    /\ \A x \in Transfers : WF_sftpVars(Finish(x))
    /\ \A e \in Edits : WF_sftpVars(StartWatch(e)) /\ WF_sftpVars(SeeCancel(e))

-----------------------------------------------------------------------------
(* Properties *)

(* Once the entry is gone no listed watcher is left with its flag down: a   *)
(* flag cannot be added between the flipping and the removal                *)
(* (SftpManager::remove and edit_open under one lock).  A watcher that      *)
(* starts after the removal is not listed, and is never told.               *)
ListedWatchersCancelled == Opened /\ ~entry => watches \subseteq cancel

(* A blocking call always returns, also when its message is queued behind a *)
(* Disconnect or arrives after the worker left its loop: nothing but the    *)
(* dropped reply sender tells the caller.                                   *)
CallsReturn ==
    /\ \A c \in Calls : (call[c] = "waiting") ~> (call[c] \in {"answered", "failed"})
    /\ \A e \in Edits : (edit[e] = "waiting") ~> (edit[e] # "waiting")

(* A transfer queued before any Disconnect runs and reports (sftp-done),    *)
(* although the session may be closed right behind it.  One queued behind   *)
(* the Disconnect, or accepted when the worker has left its loop, is        *)
(* dropped without an event.                                                *)
Ahead(x) ==
    \E i \in DOMAIN queue :
        queue[i] = x /\ \A j \in 1..i : queue[j] # Disconnect

QueuedBeforeCloseIsDone ==
    \A x \in Transfers :
        (worker \in {"recv", "serving"} /\ Ahead(x)) ~> (xfer[x] = "done")

=============================================================================
