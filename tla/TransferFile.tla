---------------------------- MODULE TransferFile ----------------------------
(***************************************************************************)
(* What a transfer does to files (sftp.rs: the transfer thread,            *)
(* upload_path, download_path, copy_progress).  Upload and download differ *)
(* only in which side has the destination: both measure, open, and copy    *)
(* until the source has no more.  A file is a sequence of pieces, each     *)
(* named by who wrote it; a piece is read and written in two steps, and    *)
(* anybody may change either file between them.  The permit appears as its *)
(* cap, which TransferPermit is shown to keep.                             *)
(***************************************************************************)
EXTENDS Naturals, Sequences, SequencesExt

CONSTANTS
    Transfers,        \* transfer threads, one copy each
    MAX,              \* Permit::MAX
    Locals, Remotes,  \* paths on the two sides
    Watched,          \* local paths whose modification time anybody asks for
    Initial,          \* what the files may hold at first
    None,
    MaxTime           \* bound: seconds

ASSUME FileAssumption ==
    /\ MAX \in Nat \ {0}
    /\ Locals \cap Remotes = {} /\ Watched \subseteq Locals
    /\ None \notin Locals \cup Remotes \cup Transfers \cup Seq(Nat)
    /\ Initial \subseteq [Locals \cup Remotes -> Seq(Nat) \cup {None}]
    /\ MaxTime \in Nat

VARIABLES
    file,     \* contents of each path, or None
    mtime,    \* modification time of the watched paths, in whole seconds
    now,      \* the clock
    job,      \* the copy each thread is making
    disturbed \* history: copies whose files somebody else has changed

fileVars == <<file, mtime, now>>
jobVars  == <<job, disturbed>>
copyVars == <<fileVars, jobVars>>

(* A piece nobody wrote: what a write past the end leaves before it.        *)
Hole == 0

(* "stat" has a session of its own; "open" knows both lengths; "read" and   *)
(* "write" alternate in copy_progress.  An error is reported alike before    *)
(* the destination is opened ("failed") and after ("cut").                  *)
Phase == {"idle", "queued", "stat", "open", "read", "write", "ok", "cut", "failed"}

NoJob == [ph |-> "idle", src |-> None, dst |-> None, resume |-> FALSE,
          total |-> 0, pos |-> 0, app |-> FALSE, buf |-> None]

Job(src, dst, resume) == [NoJob EXCEPT !.ph = "queued", !.src = src, !.dst = dst, !.resume = resume]

FileInit ==
    /\ file \in Initial
    /\ mtime = [p \in Watched |-> 0]
    /\ now = 0
    /\ job = [x \in Transfers |-> NoJob]
    /\ disturbed = {}

(* What remains of a job that has ended.                                    *)
Over(j, ph) == [NoJob EXCEPT !.ph = ph, !.src = j.src, !.dst = j.dst]

Length(p) == IF file[p] = None THEN 0 ELSE Len(file[p])

Copying(x) == job[x].ph \in {"read", "write"}

Ended(x) == job[x].ph \in {"ok", "cut", "failed"}

(* Writing b at the 1-based position i, or at the end.                      *)
WriteAt(s, i, b) ==
    [j \in 1..(IF i > Len(s) THEN i ELSE Len(s)) |->
        IF j = i THEN b ELSE IF j <= Len(s) THEN s[j] ELSE Hole]

(* Everything that changes a file.                                          *)
SetFile(p, s) ==
    /\ file' = [file EXCEPT ![p] = s]
    /\ mtime' = IF p \in Watched THEN [mtime EXCEPT ![p] = now] ELSE mtime
    /\ UNCHANGED now

(* The copies, except x, that a change of p disturbs.                       *)
Touches(x, p) ==
    {y \in Transfers \ {x} : job[y].ph \notin {"idle", "queued", "stat"} /\ p \in {job[y].src, job[y].dst}}

-----------------------------------------------------------------------------
(* A copy *)

(* The lengths of both files; only a resume asks for the second.            *)
Stat(x) ==
    /\ job[x].ph = "stat"
    /\ job' = [job EXCEPT ![x] =
          IF file[job[x].src] = None THEN Over(@, "failed")
          ELSE [@ EXCEPT !.ph = "open", !.total = Length(job[x].src),
                         !.pos = IF job[x].resume THEN Length(job[x].dst) ELSE 0]]
    /\ UNCHANGED <<disturbed, fileVars>>

(* Mutant: a complete destination is taken for a partial one.               *)
ResumesAnything(j) == j.pos > 0

(* A resume continues only what is shorter than the source.                 *)
Resumes(j) == 0 < j.pos /\ j.pos < j.total

(* The destination is what an interrupted copy of this source left, or not  *)
(* shorter, so that only a start from scratch is right.                     *)
Partial(j) == Length(j.dst) < Length(j.src) => IsPrefix(file[j.dst], file[j.src])

(* Append to the partial destination, or truncate it and start over.        *)
OpenDst(x) ==
    /\ job[x].ph = "open"
    /\ IF Resumes(job[x])
       THEN /\ job' = [job EXCEPT ![x] = [@ EXCEPT !.ph = "read", !.total = 0, !.app = TRUE]]
            /\ disturbed' = IF Partial(job[x]) THEN disturbed ELSE disturbed \cup {x}
            /\ UNCHANGED fileVars
       ELSE /\ job' = [job EXCEPT ![x] = [@ EXCEPT !.ph = "read", !.total = 0, !.pos = 0]]
            /\ SetFile(job[x].dst, <<>>)
            /\ disturbed' = disturbed \cup Touches(x, job[x].dst)

(* The end of the source ends the copy, whatever was measured.              *)
Read(x) ==
    /\ job[x].ph = "read"
    /\ LET j == job[x]
       IN  job' = [job EXCEPT ![x] =
              IF j.pos >= Length(j.src) THEN Over(j, "ok")
              ELSE [j EXCEPT !.ph = "write", !.buf = file[j.src][j.pos + 1], !.pos = @ + 1]]
    /\ UNCHANGED <<disturbed, fileVars>>

Write(x) ==
    /\ job[x].ph = "write"
    /\ LET d == file[job[x].dst]
       IN  SetFile(job[x].dst, IF job[x].app THEN Append(d, job[x].buf)
                                  ELSE WriteAt(d, job[x].pos, job[x].buf))
    /\ job' = [job EXCEPT ![x].ph = "read", ![x].buf = None]
    /\ disturbed' = disturbed \cup Touches(x, job[x].dst)

(* The connection is lost, or a call refused: what is written stays.        *)
Fails(x) ==
    /\ job[x].ph \in {"stat", "open", "read", "write"}
    /\ job' = [job EXCEPT ![x] = Over(@, IF Copying(x) THEN "cut" ELSE "failed")]
    /\ UNCHANGED <<disturbed, fileVars>>

-----------------------------------------------------------------------------
(* The transfer thread *)

(* Bound: no two transfers feed each other.                                 *)
Request(x, src, dst, resume) ==
    /\ job[x].ph = "idle"
    /\ \A y \in Transfers : job[y].src = dst /\ job[y].dst = src => Ended(y)
    /\ job' = [job EXCEPT ![x] = Job(src, dst, resume)]
    /\ UNCHANGED <<disturbed, fileVars>>

(* A permit is free.  The thread gives it back when its copy has ended.     *)
Enter(x) ==
    /\ job[x].ph = "queued"
    /\ Cardinality({y \in Transfers : job[y].ph \in {"stat", "open", "read", "write"}}) < MAX
    /\ job' = [job EXCEPT ![x].ph = "stat"]
    /\ UNCHANGED <<disturbed, fileVars>>

Thread(x) == Enter(x) \/ Stat(x) \/ OpenDst(x) \/ Read(x) \/ Write(x) \/ Fails(x)

-----------------------------------------------------------------------------
(* Properties *)

(* A copy that nobody disturbed leaves a prefix of its source at every      *)
(* moment, wherever it is cut off, so that a later resume continues it      *)
(* rightly; and all of it when it reports success, resumed or not, whatever *)
(* the destination held (upload_path, download_path).  What disturbs it is  *)
(* another writer of one of its two files, and a partial destination that   *)
(* is not a prefix of the source.                                           *)
UndisturbedCopyIsFaithful ==
    \A x \in Transfers \ disturbed :
        /\ Copying(x) \/ job[x].ph = "cut" =>
              IsPrefix(file[job[x].dst], file[job[x].src])
        /\ job[x].ph = "ok" => file[job[x].dst] = file[job[x].src]

=============================================================================
