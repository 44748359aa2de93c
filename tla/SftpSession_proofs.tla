------------------------- MODULE SftpSession_proofs -------------------------
(***************************************************************************)
(* Theorems about one SFTP tab's back end, for every set of callers,       *)
(* editors and transfers.                                                  *)
(***************************************************************************)
EXTENDS SftpSession, TLAPS

(* The entry is there exactly while the worker may still serve, and from    *)
(* its removal on every listed flag is up: listing a flag needs the entry,  *)
(* and the entry goes with the flags.                                       *)
WatchInv ==
    /\ worker \in {"none", "recv", "serving", "broken", "removed", "ended"}
    /\ entry <=> worker \in {"recv", "serving", "broken"}
    /\ worker \in {"removed", "ended"} => watches \subseteq cancel

LEMMA InitWatchInv == SftpInit => WatchInv
BY DEF SftpInit, WatchInv

LEMMA WorkerKeepsWatchInv ==
    ASSUME WatchInv, Worker
    PROVE  WatchInv'
<1> USE DEF WatchInv, workVars
<1>1. CASE ReceiveCall
    BY <1>1 DEF ReceiveCall, Receive
<1>2. CASE ReceiveTransfer
    BY <1>2 DEF ReceiveTransfer
<1>3. CASE ReceiveDisconnect
    BY <1>3 DEF ReceiveDisconnect, Receive
<1>4. CASE Reply
    BY <1>4 DEF Reply
<1>5. CASE RemoveEntry
    BY <1>5 DEF RemoveEntry
<1>6. CASE DropReceiver
    BY <1>6 DEF DropReceiver
<1> QED
    BY <1>1, <1>2, <1>3, <1>4, <1>5, <1>6 DEF Worker

LEMMA ThreadsKeepWatchInv ==
    ASSUME WatchInv, Threads
    PROVE  WatchInv'
<1> USE DEF WatchInv, workVars
<1>1. ASSUME NEW x \in Transfers, Enter(x)
      PROVE  WatchInv'
    BY <1>1 DEF Enter
<1>2. ASSUME NEW x \in Transfers, Finish(x)
      PROVE  WatchInv'
    BY <1>2 DEF Finish
<1>3. ASSUME NEW e \in Edits, StartWatch(e)
      PROVE  WatchInv'
    BY <1>3 DEF StartWatch
<1>4. ASSUME NEW e \in Edits, SeeCancel(e)
      PROVE  WatchInv'
    BY <1>4 DEF SeeCancel, StopWatch
<1> QED
    BY <1>1, <1>2, <1>3, <1>4 DEF Threads

LEMMA EnvironmentKeepsWatchInv ==
    ASSUME WatchInv, Environment
    PROVE  WatchInv'
<1> USE DEF WatchInv, workVars
<1>1. CASE Open
    BY <1>1 DEF Open, Opened
<1>2. CASE Close
    BY <1>2 DEF Close
<1>3. CASE KeepaliveFails
    BY <1>3 DEF KeepaliveFails
<1>4. ASSUME NEW c \in Calls, Request(c)
      PROVE  WatchInv'
    BY <1>4 DEF Request
<1>5. ASSUME NEW e \in Edits, RequestEdit(e)
      PROVE  WatchInv'
    BY <1>5 DEF RequestEdit
<1>6. ASSUME NEW e \in Edits, StopWatch(e)
      PROVE  WatchInv'
    BY <1>6 DEF StopWatch
<1>7. ASSUME NEW e \in Edits, UploadSave(e)
      PROVE  WatchInv'
    BY <1>7 DEF UploadSave
<1>8. ASSUME NEW x \in Transfers, QueueTransfer(x)
      PROVE  WatchInv'
    BY <1>8 DEF QueueTransfer
<1> QED
    BY <1>1, <1>2, <1>3, <1>4, <1>5, <1>6, <1>7, <1>8 DEF Environment

(* A watcher listed while the session was in the map is told of its end,    *)
(* however the download, the removal and the end of the worker interleave   *)
(* (SftpManager::remove flips the flags under the lock that edit_open needs *)
(* to list one).                                                            *)
THEOREM SftpWatchersCancelled == SftpSpec => []ListedWatchersCancelled
<1>1. WatchInv /\ [SftpNext]_sftpVars => WatchInv'
  <2>1. WatchInv /\ UNCHANGED sftpVars => WatchInv'
    BY DEF WatchInv, sftpVars, workVars
  <2> QED
    BY <2>1, WorkerKeepsWatchInv, ThreadsKeepWatchInv, EnvironmentKeepsWatchInv DEF SftpNext
<1>2. SftpSpec => []WatchInv
    BY InitWatchInv, <1>1, PTL DEF SftpSpec
<1>3. WatchInv => ListedWatchersCancelled
    BY DEF WatchInv, ListedWatchersCancelled, Opened
<1> QED
    BY <1>2, <1>3, PTL

=============================================================================
