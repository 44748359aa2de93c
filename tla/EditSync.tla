------------------------------ MODULE EditSync ------------------------------
(***************************************************************************)
(* Editing a remote file in place (sftp.rs: edit_open, watch_edit), on top *)
(* of the transfers.  The worker copies the file, piece by piece, into a   *)
(* cache directory of the session, under the file's own name; a watcher    *)
(* polls the copy's modification time and has every later one uploaded by  *)
(* a transfer thread.  The watcher's end is SftpSession's business.        *)
(***************************************************************************)
EXTENDS TransferFile

CONSTANTS
    Edits,      \* edit_open calls
    Cache,      \* local path of a remote one: two may share it
    Own,        \* the pieces each remote file has at first
    MaxSaves,   \* bound: saves by the user's editor
    Sizes       \* bound: numbers of pieces a save may have

ASSUME EditAssumption ==
    Cache \in [Remotes -> Watched] /\ MaxSaves \in Nat /\ Sizes \subseteq Nat /\ None \notin Edits

VARIABLES
    edit,       \* each edit_open call, then its watcher
    saves,
    meddled,    \* history: downloads whose files somebody else has changed
    excused     \* history: remote files that may lawfully differ from their copy

syncVars == <<edit, saves, meddled, excused>>
editVars == <<copyVars, syncVars>>

NoEdit == [ph |-> "idle", remote |-> None, pos |-> 0, buf |-> None, last |-> 0]

EditInit ==
    /\ FileInit
    /\ edit = [e \in Edits |-> NoEdit]
    /\ saves = 0
    /\ meddled = {}
    /\ excused = {}

LocalOf(e) == Cache[edit[e].remote]

(* The download has opened both files.                                      *)
Downloading(e) == edit[e].ph \in {"reading", "writing"}

(* The downloads, except e's, that a change of p meddles with.              *)
Meddles(e, p) == {d \in Edits \ {e} : Downloading(d) /\ p \in {edit[d].remote, LocalOf(d)}}

-----------------------------------------------------------------------------
(* edit_open: the worker serves one at a time, copying the file itself *)

Sharers(l) == {r \in Remotes : Cache[r] = l}

Written(r) == \E x \in Transfers : Copying(x) /\ job[x].dst = r

(* The copy l gets another content from e's download.                       *)
Fills(e, l, content) ==
    /\ SetFile(l, content)
    /\ disturbed' = disturbed \cup Touches(None, l)
    /\ meddled' = meddled \cup Meddles(e, l)
    /\ excused' = excused \cup Sharers(l)
    /\ UNCHANGED <<job, saves>>

(* download_file opens the file, or the call is refused, and truncates the  *)
(* copy.                                                                    *)
EditOpen(e, r) ==
    /\ edit[e].ph = "idle"
    /\ \A d \in Edits : ~Downloading(d)
    /\ file[r] # None
    /\ edit' = [edit EXCEPT ![e] = [NoEdit EXCEPT !.ph = "reading", !.remote = r]]
    /\ Fills(e, Cache[r], <<>>)

(* io::copy reads the next piece.                                           *)
DownloadReads(e) ==
    /\ edit[e].ph = "reading"
    /\ edit[e].pos < Length(edit[e].remote)
    /\ LET d == edit[e]
       IN  edit' = [edit EXCEPT ![e] = [d EXCEPT !.ph = "writing", !.pos = @ + 1,
                                                !.buf = file[d.remote][d.pos + 1]]]
    /\ UNCHANGED <<copyVars, saves, meddled, excused>>

DownloadWrites(e) ==
    /\ edit[e].ph = "writing"
    /\ edit' = [edit EXCEPT ![e].ph = "reading", ![e].buf = None]
    /\ Fills(e, LocalOf(e), WriteAt(file[LocalOf(e)], edit[e].pos, edit[e].buf))

(* The end of the file ends the download.  It has the whole file if nobody  *)
(* else has changed either since the start, and an upload is not about to.  *)
DownloadEnds(e) ==
    /\ edit[e].ph = "reading"
    /\ edit[e].pos >= Length(edit[e].remote)
    /\ edit' = [edit EXCEPT ![e].ph = "starting", ![e].pos = 0]
    /\ meddled' = meddled \ {e}
    /\ excused' = IF e \in meddled \/ Written(edit[e].remote) THEN excused
                     ELSE excused \ {edit[e].remote}
    /\ UNCHANGED <<copyVars, saves>>

(* The download is cut off, and the call refused.                           *)
DownloadFails(e) ==
    /\ Downloading(e)
    /\ edit' = [edit EXCEPT ![e] = [NoEdit EXCEPT !.ph = "ended", !.remote = edit[e].remote]]
    /\ meddled' = meddled \ {e}
    /\ UNCHANGED <<copyVars, saves, excused>>

-----------------------------------------------------------------------------
(* The watcher *)

(* The copy's time when the thread first runs.                              *)
WatchStarts(e) ==
    /\ edit[e].ph = "starting"
    /\ edit' = [edit EXCEPT ![e].ph = "watching", ![e].last = mtime[LocalOf(e)]]
    /\ UNCHANGED <<copyVars, saves, meddled, excused>>

(* Mutant: the watcher remembers when it looked.                            *)
PollRemembersClock(e) ==
    /\ edit[e].ph = "watching"
    /\ mtime[LocalOf(e)] > edit[e].last
    /\ edit' = [edit EXCEPT ![e].last = now]
    /\ \E x \in Transfers : Request(x, LocalOf(e), edit[e].remote, FALSE)
    /\ UNCHANGED <<saves, meddled, excused>>

(* A later time than the last: an upload from the start.                    *)
Poll(e) ==
    /\ edit[e].ph = "watching"
    /\ mtime[LocalOf(e)] > edit[e].last
    /\ edit' = [edit EXCEPT ![e].last = mtime[LocalOf(e)]]
    /\ \E x \in Transfers : Request(x, LocalOf(e), edit[e].remote, FALSE)
    /\ UNCHANGED <<saves, meddled, excused>>

-----------------------------------------------------------------------------
(* The user, the clock, and transfers of other origin *)

(* The editor writes the copy; the time it gets may be the one it had, and  *)
(* a watcher still to start will take it for the download's.                *)
Unseen(l) ==
    mtime[l] = now \/ \E e \in Edits : (Downloading(e) \/ edit[e].ph = "starting") /\ LocalOf(e) = l

Save(l) ==
    /\ saves < MaxSaves
    /\ file[l] # None
    /\ saves' = saves + 1
    /\ \E n \in Sizes : SetFile(l, [i \in 1..n |-> 10 + saves])
    /\ disturbed' = disturbed \cup Touches(None, l)
    /\ meddled' = meddled \cup Meddles(None, l)
    /\ excused' = IF Unseen(l) THEN excused \cup Sharers(l) ELSE excused
    /\ UNCHANGED <<job, edit>>

Tick ==
    /\ now < MaxTime
    /\ now' = now + 1
    /\ UNCHANGED <<file, mtime, jobVars, syncVars>>

(* The user sends a file across, either way, perhaps to continue an earlier *)
(* attempt.  (No file of the panes is an edited copy.)                      *)
UserTransfers(x, r, resume) ==
    /\ \E p \in Locals \ Watched : Request(x, p, r, resume) \/ Request(x, r, p, resume)
    /\ UNCHANGED syncVars

(* A thread's step, and what it excuses: a remote file that two copies      *)
(* write at once, or whose upload fails, or whose copy is overwritten; an   *)
(* upload that starts alone makes up for what was.                          *)
Rivals(x) == {y \in Transfers \ {x} : Copying(y) /\ job[y].dst = job[x].dst}

Transfer(x) ==
    /\ Thread(x)
    /\ meddled' = IF file' = file THEN meddled ELSE meddled \cup Meddles(None, job[x].dst)
    /\ excused' =
          IF job'[x].ph = job[x].ph \/ job[x].ph = "queued" THEN excused
          ELSE IF job[x].dst \notin Remotes THEN excused
          ELSE IF job'[x].ph \in {"cut", "failed"} \/ Rivals(x) # {} \/ job[x].src \notin Watched
               THEN excused \cup {job[x].dst}
          ELSE IF job[x].ph = "open" THEN excused \ {job[x].dst}
          ELSE excused
    /\ UNCHANGED <<edit, saves>>

EditNext ==
    \/ \E x \in Transfers : Transfer(x)
    \/ \E x \in Transfers, r \in Remotes, resume \in BOOLEAN : UserTransfers(x, r, resume)
    \/ \E e \in Edits : DownloadReads(e) \/ DownloadWrites(e) \/ DownloadEnds(e) \/ DownloadFails(e)
    \/ \E e \in Edits : WatchStarts(e) \/ Poll(e)
    \/ \E e \in Edits, r \in Remotes : EditOpen(e, r)
    \/ \E l \in Watched : Save(l)
    \/ Tick

EditSpec == EditInit /\ [][EditNext]_editVars

-----------------------------------------------------------------------------
(* Properties *)

(* When a watcher has seen the copy's time and no transfer of the file is   *)
(* left, the server has what the user saved.  What can prevent it is a save *)
(* in a second the file already has as its time (watch_edit compares whole  *)
(* seconds), one before the watcher has looked, two transfers of the file   *)
(* that overlap, a failed one, and a download over the copy, which is made  *)
(* up for at its end unless something changed either file meanwhile.        *)
EditNotLost ==
    \A e \in Edits :
        /\ edit[e].ph = "watching" /\ edit[e].last = mtime[LocalOf(e)]
        /\ edit[e].remote \notin excused
        /\ \A x \in Transfers : job[x].dst = edit[e].remote => Ended(x)
        => file[edit[e].remote] = file[LocalOf(e)]

(* The page says that saving the local copy uploads it back: only what came *)
(* from a remote file, or was saved into its copy, is ever in that file.    *)
EditsStayHome ==
    \A r, s \in Remotes :
        r # s => \A i \in 1..Length(r) : file[r][i] \notin Own[s]

=============================================================================
