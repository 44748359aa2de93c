--------------------------- MODULE EditSync_proofs ---------------------------
(***************************************************************************)
(* Theorems about copies and about editing in place, for every number of   *)
(* transfers and edits, every set of paths and files of any length.        *)
(***************************************************************************)
EXTENDS EditSync, SequenceTheorems, TLAPS

Paths   == Locals \cup Remotes
Content == Seq(Nat)

JobState ==
    [ph : Phase, src : Paths \cup {None}, dst : Paths \cup {None}, resume : BOOLEAN,
     total : Nat, pos : Nat, app : BOOLEAN, buf : Nat \cup {None}]

Waiting(j) == j.ph \in {"idle", "queued", "stat"}

(* A copy never goes from a file to itself or into an edited copy, and what *)
(* goes out of an edited copy starts from scratch.                          *)
JobOK(j) ==
    /\ j \in JobState
    /\ j.ph # "idle" => j.src \in Paths /\ j.dst \in Paths \ Watched /\ j.src # j.dst
    /\ j.ph # "idle" /\ j.src \in Watched => j.dst \in Remotes /\ j.src = Cache[j.dst] /\ ~j.resume
    /\ j.ph = "open" /\ ~j.resume => j.pos = 0
    /\ j.ph = "write" => j.buf \in Nat

(* What a copy has opened is there, and nobody deletes it.                  *)
There(f, j) ==
    /\ j.ph \in {"open", "read", "write", "cut", "ok"} => f[j.src] # None
    /\ j.ph \in {"read", "write", "cut", "ok"} => f[j.dst] # None
    /\ j.ph = "open" /\ j.pos > 0 => f[j.dst] # None

Prefix(s, t) == Len(s) <= Len(t) /\ \A i \in 1..Len(s) : s[i] = t[i]

Size(f, p) == IF f[p] = None THEN 0 ELSE Len(f[p])

(* What a copy that nobody disturbs knows of its two files.                 *)
Faithful(f, j) ==
    /\ j.ph = "open" => j.total = Size(f, j.src) /\ j.pos = IF j.resume THEN Size(f, j.dst) ELSE 0
    /\ j.ph \in {"read", "write", "cut"} => Prefix(f[j.dst], f[j.src])
    /\ j.ph = "read" => j.pos = Len(f[j.dst])
    /\ j.ph = "write" => /\ j.pos = Len(f[j.dst]) + 1
                         /\ j.pos <= Len(f[j.src])
                         /\ j.buf = f[j.src][j.pos]
    /\ j.ph = "ok" => f[j.dst] = f[j.src]

FilesOK ==
    /\ file \in [Paths -> Content \cup {None}]
    /\ mtime \in [Watched -> Nat] /\ now \in Nat
    /\ \A l \in Watched : mtime[l] <= now

JobsOK ==
    /\ job \in [Transfers -> JobState]
    /\ \A x \in Transfers : JobOK(job[x]) /\ There(file, job[x])

EditState ==
    [ph : {"idle", "reading", "writing", "starting", "watching", "ended"},
     remote : Remotes \cup {None}, pos : Nat, buf : Nat \cup {None}, last : Nat]

EditOK(e) ==
    /\ edit[e].ph # "idle" => edit[e].remote \in Remotes
    /\ Downloading(e) => file[edit[e].remote] # None /\ file[LocalOf(e)] # None
    /\ edit[e].ph = "writing" => edit[e].buf \in Nat
    /\ edit[e].ph = "watching" => edit[e].last <= mtime[LocalOf(e)]

EditsOK ==
    /\ edit \in [Edits -> EditState] /\ saves \in Nat
    /\ meddled \subseteq Edits /\ excused \subseteq Remotes
    /\ \A e \in Edits : EditOK(e)

FaithOK == disturbed \subseteq Transfers /\ \A x \in Transfers \ disturbed : Faithful(file, job[x])

CopyInv == FilesOK /\ JobsOK /\ EditsOK /\ FaithOK

-----------------------------------------------------------------------------
(* Files as sequences *)

LEMMA PathSorts ==
    /\ Watched \subseteq Paths \ Remotes /\ Watched \subseteq Locals
    /\ None \notin Paths /\ None \notin Content /\ None \notin Transfers /\ None \notin Edits
    /\ \A r \in Remotes : Cache[r] \in Watched
BY FileAssumption, EditAssumption DEF Paths, Content

LEMMA PrefixIs ==
    ASSUME NEW s \in Content, NEW t \in Content
    PROVE  IsPrefix(s, t) <=> Prefix(s, t)
<1>1. Len(s) \in Nat /\ Len(t) \in Nat
    BY LenProperties DEF Content
<1>2. CASE Len(s) <= Len(t)
  <2> DEFINE n == Len(s)
  <2>1. \A i \in 1..n : s[i] \in Nat /\ t[i] \in Nat
      BY <1>1, <1>2, ElementOfSeq DEF Content
  <2>2. /\ SubSeq(s, 1, n) \in Content /\ Len(SubSeq(s, 1, n)) = n
        /\ \A i \in 1..n : SubSeq(s, 1, n)[i] = s[i]
      BY <1>1, <2>1 DEF Content
  <2>3. /\ SubSeq(t, 1, n) \in Content /\ Len(SubSeq(t, 1, n)) = n
        /\ \A i \in 1..n : SubSeq(t, 1, n)[i] = t[i]
      BY <1>1, <1>2, <2>1 DEF Content
  <2>4. (\A i \in 1..n : s[i] = t[i]) <=> SubSeq(s, 1, n) = SubSeq(t, 1, n)
    <3>1. (\A i \in 1..n : s[i] = t[i]) => SubSeq(s, 1, n) = SubSeq(t, 1, n)
        BY <2>2, <2>3, SeqEqual DEF Content
    <3>2. SubSeq(s, 1, n) = SubSeq(t, 1, n) => (\A i \in 1..n : s[i] = t[i])
        BY <2>2, <2>3
    <3> QED
        BY <3>1, <3>2
  <2> QED
      BY <1>2, <2>4 DEF IsPrefix, Prefix
<1>3. CASE ~(Len(s) <= Len(t))
    BY <1>3 DEF IsPrefix, Prefix
<1> QED
    BY <1>2, <1>3

LEMMA EmptyIsPrefix ==
    ASSUME NEW t \in Content
    PROVE  <<>> \in Content /\ Len(<<>>) = 0 /\ Prefix(<<>>, t)
<1>1. <<>> \in Content /\ Len(<<>>) = 0
    BY EmptySeq DEF Content
<1>2. Len(t) \in Nat
    BY LenProperties DEF Content
<1> QED
    BY <1>1, <1>2 DEF Prefix

LEMMA WholePrefix ==
    ASSUME NEW s \in Content, NEW t \in Content, Prefix(s, t), Len(s) >= Len(t)
    PROVE  s = t
<1>1. Len(s) \in Nat /\ Len(t) \in Nat
    BY LenProperties DEF Content
<1> QED
    BY <1>1, SeqEqual DEF Prefix, Content

LEMMA AppendingContent ==
    ASSUME NEW s \in Content, NEW b \in Nat
    PROVE  /\ Append(s, b) \in Content /\ Len(Append(s, b)) = Len(s) + 1
           /\ Append(s, b)[Len(s) + 1] = b
           /\ \A i \in 1..Len(s) : Append(s, b)[i] = s[i]
<1>1. Len(s) \in Nat
    BY LenProperties DEF Content
<1> QED
    BY <1>1, AppendProperties DEF Content

(* A write at any place leaves a file; at the end it is an append.          *)
LEMMA WritingAt ==
    ASSUME NEW s \in Content, NEW i \in Nat, NEW b \in Nat
    PROVE  /\ WriteAt(s, i, b) \in Content
           /\ i = Len(s) + 1 => WriteAt(s, i, b) = Append(s, b)
<1> DEFINE n == IF i > Len(s) THEN i ELSE Len(s)
           w == WriteAt(s, i, b)
<1>1. Len(s) \in Nat /\ n \in Nat
    BY LenProperties DEF Content
<1>2. \A k \in 1..Len(s) : s[k] \in Nat
    BY ElementOfSeq DEF Content
<1>3. w \in [1..n -> Nat]
    BY <1>1, <1>2 DEF WriteAt, Hole
<1>4. w \in Content
  <2> HIDE DEF w, n
  <2>1. w \in UNION {[1..m -> Nat] : m \in Nat}
      BY <1>1, <1>3
  <2> QED
      BY <2>1, SeqDef DEF Content
<1>5. ASSUME i = Len(s) + 1
      PROVE  w = Append(s, b)
  <2>1. /\ Append(s, b) \in Content /\ Len(Append(s, b)) = Len(s) + 1
        /\ Append(s, b)[Len(s) + 1] = b
        /\ \A k \in 1..Len(s) : Append(s, b)[k] = s[k]
      BY AppendingContent
  <2>2. n = Len(s) + 1
      BY <1>1, <1>5
  <2>3. Len(w) = n
      BY <1>1, <1>3, <1>4, LenProperties DEF Content
  <2>4. \A k \in 1..Len(w) : w[k] = Append(s, b)[k]
    <3>1. \A k \in 1..n : w[k] = IF k = i THEN b ELSE IF k <= Len(s) THEN s[k] ELSE Hole
        BY DEF WriteAt
    <3> HIDE DEF w
    <3> QED
        BY <1>1, <1>5, <2>1, <2>2, <2>3, <3>1
  <2> HIDE DEF w
  <2> QED
      BY <1>4, <2>1, <2>2, <2>3, <2>4, SeqEqual DEF Content
<1> QED
    BY <1>4, <1>5

(* The next piece of the source behind a prefix of it.                      *)
LEMMA LongerPrefix ==
    ASSUME NEW s \in Content, NEW t \in Content, Prefix(s, t), Len(s) + 1 <= Len(t)
    PROVE  Prefix(Append(s, t[Len(s) + 1]), t)
<1>1. Len(s) \in Nat /\ Len(t) \in Nat
    BY LenProperties DEF Content
<1>2. t[Len(s) + 1] \in Nat
    BY <1>1, ElementOfSeq DEF Content
<1> DEFINE b == t[Len(s) + 1]
           w == Append(s, b)
<1>3. Len(w) = Len(s) + 1 /\ w[Len(s) + 1] = b /\ \A i \in 1..Len(s) : w[i] = s[i]
    BY <1>2, AppendingContent
<1> HIDE DEF w
<1>4. \A i \in 1..Len(w) : w[i] = t[i]
    BY <1>1, <1>3 DEF Prefix
<1> QED
    BY <1>1, <1>3, <1>4 DEF Prefix, w

-----------------------------------------------------------------------------
(* What a step does to files *)

(* The two files of another copy are as they were, or it knows neither.     *)
Spared(y) ==
    \/ Waiting(job[y])
    \/ file'[job[y].src] = file[job[y].src] /\ file'[job[y].dst] = file[job[y].dst]

Grows == \A p \in Paths : file[p] # None => file'[p] # None

LEMMA Changing ==
    ASSUME FilesOK, NEW p \in Paths, NEW s \in Content, SetFile(p, s)
    PROVE  /\ FilesOK' /\ Grows /\ file'[p] = s
           /\ \A q \in Paths \ {p} : file'[q] = file[q]
           /\ p \notin Watched => mtime' = mtime
           /\ \A l \in Watched : mtime'[l] = IF l = p THEN now ELSE mtime[l]
<1>1. file' = [file EXCEPT ![p] = s] /\ file' \in [Paths -> Content \cup {None}]
    BY DEF SetFile, FilesOK
<1>2. \A q \in Paths : file'[q] = IF q = p THEN s ELSE file[q]
    BY <1>1 DEF FilesOK
<1>3. Grows
    BY <1>2, PathSorts DEF Grows
<1>4. \A l \in Watched : mtime'[l] = IF l = p THEN now ELSE mtime[l]
    BY DEF SetFile, FilesOK
<1>5. mtime' \in [Watched -> Nat] /\ now' = now
    BY DEF SetFile, FilesOK
<1>6. \A l \in Watched : mtime'[l] <= now'
    BY <1>4, <1>5 DEF FilesOK
<1> QED
    BY <1>1, <1>2, <1>3, <1>4, <1>5, <1>6 DEF FilesOK, SetFile

LEMMA Untouched ==
    ASSUME FilesOK, JobsOK, NEW p \in Paths, NEW s \in Content, SetFile(p, s),
           NEW x, NEW y \in Transfers \ {x}, y \notin Touches(x, p)
    PROVE  Spared(y)
<1>1. \A q \in Paths \ {p} : file'[q] = file[q]
    BY Changing
<1>2. Waiting(job[y]) \/ p \notin {job[y].src, job[y].dst}
    BY DEF Touches, Waiting
<1>3. job[y].ph # "idle" => job[y].src \in Paths /\ job[y].dst \in Paths
    BY DEF JobsOK, JobOK
<1> QED
    BY <1>1, <1>2, <1>3 DEF Spared, Waiting

LEMMA SparedFaithful ==
    ASSUME NEW y, Spared(y), job'[y] = job[y], Faithful(file, job[y])
    PROVE  Faithful(file', job'[y])
BY DEF Spared, Waiting, Faithful, Size

LEMMA StillThere ==
    ASSUME NEW j, JobOK(j), There(file, j), Grows
    PROVE  There(file', j)
BY DEF JobOK, There, Grows

-----------------------------------------------------------------------------
(* A step of a transfer thread *)

Follows(a, b) ==
    \/ a = "queued" /\ b = "stat"
    \/ a = "stat" /\ b \in {"open", "failed"}
    \/ a = "open" /\ b \in {"read", "failed"}
    \/ a = "read" /\ b \in {"write", "ok", "cut"}
    \/ a = "write" /\ b \in {"read", "cut"}

(* The thread changes its own job, and no file but its destination.         *)
Moves(x) ==
    /\ job' \in [Transfers -> JobState] /\ \A y \in Transfers \ {x} : job'[y] = job[y]
    /\ JobOK(job'[x]) /\ There(file', job'[x])
    /\ job'[x].src = job[x].src /\ job'[x].dst = job[x].dst /\ job[x].ph # "idle"
    /\ FilesOK' /\ Grows /\ UNCHANGED <<mtime, now>>
    /\ \A p \in Paths \ {job[x].dst} : file'[p] = file[p]
    /\ disturbed \subseteq disturbed' /\ disturbed' \subseteq Transfers
    /\ \A y \in Transfers \ {x} : y \notin disturbed' => Spared(y)

(* What the thread knows of its files it still knows, unless it appended to *)
(* something else; and it knows them when it starts from scratch.           *)
Learns(x) ==
    /\ Faithful(file, job[x]) /\ (job[x].ph = "open" => x \notin disturbed')
          => Faithful(file', job'[x])
    /\ job[x].ph = "open" /\ ~job[x].resume => Faithful(file', job'[x])

LEMMA QuietMove ==
    ASSUME FilesOK, JobsOK, disturbed \subseteq Transfers, NEW x \in Transfers, NEW n,
           job' = [job EXCEPT ![x] = n], JobOK(n), There(file, n), job[x].ph # "idle",
           n.src = job[x].src, n.dst = job[x].dst,
           UNCHANGED fileVars, disturbed \subseteq disturbed', disturbed' \subseteq Transfers
    PROVE  Moves(x) /\ job'[x] = n
<1>1. n \in JobState
    BY DEF JobOK
<1>2. job' \in [Transfers -> JobState] /\ job'[x] = n /\ \A y \in Transfers \ {x} : job'[y] = job[y]
    BY <1>1 DEF JobsOK
<1>3. FilesOK' /\ Grows
    BY DEF fileVars, FilesOK, Grows
<1>4. \A y : Spared(y)
    BY DEF fileVars, Spared
<1>5. There(file', n)
    BY DEF fileVars, There
<1> QED
    BY <1>2, <1>3, <1>4, <1>5 DEF Moves, fileVars

LEMMA WritingMove ==
    ASSUME FilesOK, JobsOK, disturbed \subseteq Transfers, NEW x \in Transfers, NEW n, NEW s \in Content,
           job' = [job EXCEPT ![x] = n], JobOK(n), job[x].ph \in {"open", "read", "write"},
           n.src = job[x].src, n.dst = job[x].dst, n.ph # "idle", file[n.src] # None,
           SetFile(job[x].dst, s), disturbed' = disturbed \cup Touches(x, job[x].dst)
    PROVE  Moves(x) /\ job'[x] = n /\ file'[n.dst] = s /\ file'[n.src] = file[n.src]
<1>1. n \in JobState /\ n.src \in Paths /\ n.dst \in Paths \ Watched /\ n.src # n.dst
    BY DEF JobOK
<1>2. job' \in [Transfers -> JobState] /\ job'[x] = n /\ \A y \in Transfers \ {x} : job'[y] = job[y]
    BY <1>1 DEF JobsOK
<1>3. /\ FilesOK' /\ Grows /\ file'[n.dst] = s /\ mtime' = mtime
      /\ \A q \in Paths \ {n.dst} : file'[q] = file[q]
    BY <1>1, Changing
<1>4. \A y \in Transfers \ {x} : y \notin disturbed' => Spared(y)
    BY <1>1, Untouched
<1>5. There(file', n)
    BY <1>1, <1>3, PathSorts DEF There
<1>6. disturbed' \subseteq Transfers /\ now' = now
    BY DEF Touches, SetFile
<1> QED
    BY <1>1, <1>2, <1>3, <1>4, <1>5, <1>6 DEF Moves

LEMMA OverOK ==
    ASSUME NEW j, JobOK(j), j.ph # "idle", NEW ph \in {"ok", "cut", "failed"}
    PROVE  /\ JobOK(Over(j, ph)) /\ Over(j, ph).ph = ph
           /\ Over(j, ph).src = j.src /\ Over(j, ph).dst = j.dst
BY DEF JobOK, JobState, Over, NoJob, Phase

LEMMA EnterMoves ==
    ASSUME CopyInv, NEW x \in Transfers, Enter(x)
    PROVE  Moves(x) /\ Learns(x) /\ Follows(job[x].ph, job'[x].ph)
<1> DEFINE n == [job[x] EXCEPT !.ph = "stat"]
<1>1. job[x] \in JobState /\ JobOK(job[x]) /\ job[x].ph = "queued"
    BY DEF Enter, CopyInv, JobsOK
<1>2. n \in JobState /\ n.ph = "stat" /\ n.src = job[x].src /\ n.dst = job[x].dst /\ n.resume = job[x].resume
    BY <1>1 DEF JobState, Phase
<1>3. job' = [job EXCEPT ![x] = n]
    BY <1>1 DEF Enter, CopyInv, JobsOK
<1> HIDE DEF n
<1>4. JobOK(n) /\ There(file, n)
    BY <1>1, <1>2 DEF JobOK, There
<1>5. Moves(x) /\ job'[x] = n
    BY <1>1, <1>2, <1>3, <1>4, QuietMove DEF Enter, CopyInv, FaithOK
<1> QED
    BY <1>1, <1>2, <1>5 DEF Learns, Faithful, Follows

LEMMA StatMoves ==
    ASSUME CopyInv, NEW x \in Transfers, Stat(x)
    PROVE  Moves(x) /\ Learns(x) /\ Follows(job[x].ph, job'[x].ph)
<1> DEFINE j == job[x]
           n == [j EXCEPT !.ph = "open", !.total = Length(j.src),
                          !.pos = IF j.resume THEN Length(j.dst) ELSE 0]
<1>1. j \in JobState /\ JobOK(j) /\ j.ph = "stat" /\ j.src \in Paths /\ j.dst \in Paths
    BY DEF Stat, CopyInv, JobsOK, JobOK
<1>2. CASE file[j.src] = None
  <2>1. job' = [job EXCEPT ![x] = Over(j, "failed")]
      BY <1>2 DEF Stat, CopyInv, JobsOK
  <2>2. JobOK(Over(j, "failed")) /\ Over(j, "failed").ph = "failed"
        /\ Over(j, "failed").src = j.src /\ Over(j, "failed").dst = j.dst
      BY <1>1, OverOK
  <2>3. There(file, Over(j, "failed"))
      BY <2>2 DEF There
  <2>4. Moves(x) /\ job'[x] = Over(j, "failed")
      BY <1>1, <2>1, <2>2, <2>3, QuietMove DEF Stat, CopyInv, FaithOK
  <2> QED
      BY <1>1, <2>2, <2>4 DEF Learns, Faithful, Follows
<1>3. CASE file[j.src] # None
  <2>1. job' = [job EXCEPT ![x] = n]
      BY <1>3 DEF Stat, CopyInv, JobsOK
  <2>2. Length(j.src) \in Nat /\ Length(j.dst) \in Nat
      BY <1>1, LenProperties DEF Length, CopyInv, FilesOK, Content
  <2>3. /\ n \in JobState /\ n.ph = "open" /\ n.src = j.src /\ n.dst = j.dst /\ n.resume = j.resume
        /\ n.total = Length(j.src) /\ n.pos = IF j.resume THEN Length(j.dst) ELSE 0
      BY <1>1, <2>2 DEF JobState, Phase
  <2> HIDE DEF n
  <2>4. JobOK(n)
      BY <1>1, <2>3 DEF JobOK
  <2>5. There(file, n)
      BY <1>3, <2>3 DEF There, Length
  <2>6. Moves(x) /\ job'[x] = n
      BY <1>1, <2>1, <2>3, <2>4, <2>5, QuietMove DEF Stat, CopyInv, FaithOK
  <2>7. Faithful(file', n)
      BY <2>3 DEF Stat, fileVars, Faithful, Size, Length
  <2> QED
      BY <1>1, <2>3, <2>6, <2>7 DEF Learns, Follows
<1> QED
    BY <1>2, <1>3

(* The contents behind a path that is there.                                *)
LEMMA ContentAt ==
    ASSUME FilesOK, NEW p \in Paths, file[p] # None
    PROVE  file[p] \in Content /\ Len(file[p]) \in Nat
BY LenProperties DEF FilesOK, Content

LEMMA ResumeMoves ==
    ASSUME CopyInv, NEW x \in Transfers, OpenDst(x), Resumes(job[x])
    PROVE  Moves(x) /\ Learns(x) /\ Follows(job[x].ph, job'[x].ph)
<1> DEFINE j == job[x]
           n == [j EXCEPT !.ph = "read", !.total = 0, !.app = TRUE]
<1>1. j \in JobState /\ JobOK(j) /\ There(file, j) /\ j.ph = "open" /\ j.src \in Paths /\ j.dst \in Paths
    BY DEF OpenDst, CopyInv, JobsOK, JobOK
<1>2. job' = [job EXCEPT ![x] = n]
    BY DEF OpenDst, CopyInv, JobsOK
<1>3. /\ n \in JobState /\ n.ph = "read" /\ n.src = j.src /\ n.dst = j.dst /\ n.pos = j.pos
      /\ n.resume = j.resume
    BY <1>1 DEF JobState, Phase
<1> HIDE DEF n
<1>4. j.pos \in Nat /\ j.pos > 0 /\ j.pos < j.total
    BY <1>1 DEF JobState, Resumes
<1>5. JobOK(n)
    BY <1>1, <1>3 DEF JobOK
<1>6. There(file, n)
    BY <1>1, <1>3, <1>4 DEF There
<1>7. Moves(x) /\ job'[x] = n
    BY <1>1, <1>2, <1>3, <1>5, <1>6, QuietMove DEF OpenDst, CopyInv, FaithOK
<1>8. j.resume
    BY <1>1, <1>4 DEF JobOK
<1>9. ASSUME Faithful(file, j), x \notin disturbed'
      PROVE  Faithful(file', n)
  <2>1. Partial(j)
      BY <1>9 DEF OpenDst
  <2>2. file[j.src] # None /\ file[j.dst] # None
      BY <1>1, <1>4 DEF There
  <2>3. file[j.src] \in Content /\ file[j.dst] \in Content
      BY <1>1, <2>2, ContentAt DEF CopyInv
  <2>4. j.total = Len(file[j.src]) /\ j.pos = Len(file[j.dst])
      BY <1>1, <1>8, <1>9, <2>2 DEF Faithful, Size
  <2>5. Prefix(file[j.dst], file[j.src])
      BY <1>4, <2>1, <2>2, <2>3, <2>4, PrefixIs DEF Partial, Length
  <2> QED
      BY <1>3, <2>4, <2>5 DEF OpenDst, fileVars, Faithful
<1> QED
    BY <1>1, <1>3, <1>7, <1>8, <1>9 DEF Learns, Follows

LEMMA TruncateMoves ==
    ASSUME CopyInv, NEW x \in Transfers, OpenDst(x), ~Resumes(job[x])
    PROVE  Moves(x) /\ Learns(x) /\ Follows(job[x].ph, job'[x].ph)
<1> DEFINE j == job[x]
           n == [j EXCEPT !.ph = "read", !.total = 0, !.pos = 0]
<1>1. j \in JobState /\ JobOK(j) /\ There(file, j) /\ j.ph = "open" /\ j.src \in Paths /\ j.dst \in Paths
    BY DEF OpenDst, CopyInv, JobsOK, JobOK
<1>2. job' = [job EXCEPT ![x] = n]
    BY DEF OpenDst, CopyInv, JobsOK
<1>3. /\ n \in JobState /\ n.ph = "read" /\ n.src = j.src /\ n.dst = j.dst /\ n.pos = 0
      /\ n.resume = j.resume
    BY <1>1 DEF JobState, Phase
<1> HIDE DEF n
<1>4. JobOK(n)
    BY <1>1, <1>3 DEF JobOK
<1>5. file[n.src] # None
    BY <1>1, <1>3 DEF There
<1>6. file[n.src] \in Content
    BY <1>1, <1>3, <1>5, ContentAt DEF CopyInv
<1>7. <<>> \in Content /\ Len(<<>>) = 0 /\ Prefix(<<>>, file[n.src])
    BY <1>6, EmptyIsPrefix
<1>8. Moves(x) /\ job'[x] = n /\ file'[n.dst] = <<>> /\ file'[n.src] = file[n.src]
    BY <1>1, <1>2, <1>3, <1>4, <1>5, <1>7, WritingMove DEF OpenDst, CopyInv, FaithOK
<1>9. Faithful(file', n)
    BY <1>3, <1>7, <1>8 DEF Faithful
<1> QED
    BY <1>1, <1>3, <1>8, <1>9 DEF Learns, Follows

LEMMA ReadMoves ==
    ASSUME CopyInv, NEW x \in Transfers, Read(x)
    PROVE  Moves(x) /\ Learns(x) /\ Follows(job[x].ph, job'[x].ph)
<1> DEFINE j == job[x]
           b == file[j.src][j.pos + 1]
           n == [j EXCEPT !.ph = "write", !.buf = b, !.pos = j.pos + 1]
<1>1. j \in JobState /\ JobOK(j) /\ There(file, j) /\ j.ph = "read" /\ j.src \in Paths /\ j.dst \in Paths
    BY DEF Read, CopyInv, JobsOK, JobOK
<1>2. file[j.src] # None /\ file[j.dst] # None
    BY <1>1 DEF There
<1>3. /\ file[j.src] \in Content /\ Len(file[j.src]) \in Nat
      /\ file[j.dst] \in Content /\ Len(file[j.dst]) \in Nat
      /\ Length(j.src) = Len(file[j.src]) /\ j.pos \in Nat
    BY <1>1, <1>2, ContentAt DEF CopyInv, Length, JobState
<1>4. CASE j.pos >= Length(j.src)
  <2>1. job' = [job EXCEPT ![x] = Over(j, "ok")]
      BY <1>4 DEF Read, CopyInv, JobsOK
  <2>2. JobOK(Over(j, "ok")) /\ Over(j, "ok").ph = "ok"
        /\ Over(j, "ok").src = j.src /\ Over(j, "ok").dst = j.dst
      BY <1>1, OverOK
  <2>3. There(file, Over(j, "ok"))
      BY <1>2, <2>2 DEF There
  <2>4. Moves(x) /\ job'[x] = Over(j, "ok")
      BY <1>1, <2>1, <2>2, <2>3, QuietMove DEF Read, CopyInv, FaithOK
  <2>5. ASSUME Faithful(file, j)
        PROVE  Faithful(file', Over(j, "ok"))
    <3>1. Prefix(file[j.dst], file[j.src]) /\ j.pos = Len(file[j.dst])
        BY <1>1, <2>5 DEF Faithful
    <3>2. file[j.dst] = file[j.src]
        BY <1>3, <1>4, <3>1, WholePrefix
    <3> QED
        BY <2>2, <3>2 DEF Read, fileVars, Faithful
  <2> QED
      BY <1>1, <2>2, <2>4, <2>5 DEF Learns, Follows
<1>5. CASE ~(j.pos >= Length(j.src))
  <2>1. job' = [job EXCEPT ![x] = n]
      BY <1>1, <1>5 DEF Read, CopyInv, JobsOK, JobState
  <2>2. b \in Nat /\ j.pos + 1 \in Nat /\ j \in JobState
    <3>1. j.pos + 1 \in 1..Len(file[j.src])
        BY <1>3, <1>5
    <3>2. b \in Nat
        BY <1>3, <3>1, ElementOfSeq DEF Content
    <3> QED
        BY <1>1, <1>3, <3>2
  <2> HIDE DEF b, j
  <2>3. /\ n \in JobState /\ n.ph = "write" /\ n.src = j.src /\ n.dst = j.dst /\ n.resume = j.resume
        /\ n.buf = b /\ n.pos = j.pos + 1
      BY <2>2 DEF JobState, Phase
  <2> USE DEF j
  <2> HIDE DEF n
  <2>4. JobOK(n) /\ There(file, n)
      BY <1>1, <1>2, <2>2, <2>3 DEF JobOK, There
  <2>5. Moves(x) /\ job'[x] = n
      BY <1>1, <2>1, <2>3, <2>4, QuietMove DEF Read, CopyInv, FaithOK
  <2>6. ASSUME Faithful(file, j)
        PROVE  Faithful(file', n)
    <3>1. Prefix(file[j.dst], file[j.src]) /\ j.pos = Len(file[j.dst])
        BY <1>1, <2>6 DEF Faithful
    <3>2. n.pos = Len(file[n.dst]) + 1 /\ n.pos <= Len(file[n.src])
        BY <1>3, <1>5, <2>3, <3>1
    <3>3. Prefix(file[n.dst], file[n.src]) /\ n.buf = file[n.src][n.pos]
        BY <2>3, <3>1 DEF b
    <3>4. file' = file
        BY DEF Read, fileVars
    <3> QED
        BY <2>3, <3>2, <3>3, <3>4 DEF Faithful
  <2> QED
      BY <1>1, <2>3, <2>5, <2>6 DEF Learns, Follows
<1> QED
    BY <1>4, <1>5

LEMMA WriteMoves ==
    ASSUME CopyInv, NEW x \in Transfers, Write(x)
    PROVE  Moves(x) /\ Learns(x) /\ Follows(job[x].ph, job'[x].ph)
<1> DEFINE j == job[x]
           d == file[j.dst]
           n == [j EXCEPT !.ph = "read", !.buf = None]
           s == IF j.app THEN Append(d, j.buf) ELSE WriteAt(d, j.pos, j.buf)
<1>1. /\ j \in JobState /\ JobOK(j) /\ There(file, j) /\ j.ph = "write"
      /\ j.src \in Paths /\ j.dst \in Paths /\ j.buf \in Nat /\ j.pos \in Nat
    BY DEF Write, CopyInv, JobsOK, JobOK, JobState
<1>2. file[j.src] # None /\ d # None
    BY <1>1 DEF There
<1>3. file[j.src] \in Content /\ Len(file[j.src]) \in Nat /\ d \in Content /\ Len(d) \in Nat
    BY <1>1, <1>2, ContentAt DEF CopyInv
<1>4. job' = [job EXCEPT ![x] = n]
    BY DEF Write, CopyInv, JobsOK
<1>5. /\ n \in JobState /\ n.ph = "read" /\ n.src = j.src /\ n.dst = j.dst /\ n.resume = j.resume
      /\ n.pos = j.pos
    BY <1>1 DEF JobState, Phase
<1>6. s \in Content
    BY <1>1, <1>3, AppendingContent, WritingAt
<1>7. SetFile(j.dst, s) /\ disturbed' = disturbed \cup Touches(x, j.dst)
    BY DEF Write
<1>8. ASSUME Faithful(file, j)
      PROVE  Prefix(s, file[j.src]) /\ Len(s) = j.pos
  <2>1. /\ Prefix(d, file[j.src]) /\ j.pos = Len(d) + 1 /\ j.pos <= Len(file[j.src])
        /\ j.buf = file[j.src][j.pos]
      BY <1>1, <1>8 DEF Faithful
  <2>2. s = Append(d, j.buf)
      BY <1>1, <1>3, <2>1, WritingAt
  <2>3. Len(s) = Len(d) + 1
      BY <1>1, <1>3, <2>2, AppendingContent
  <2>4. Prefix(s, file[j.src])
    <3>1. Len(d) + 1 <= Len(file[j.src]) /\ j.buf = file[j.src][Len(d) + 1]
        BY <2>1
    <3>2. Prefix(Append(d, file[j.src][Len(d) + 1]), file[j.src])
        BY <1>3, <2>1, <3>1, LongerPrefix
    <3> QED
        BY <2>2, <3>1, <3>2
  <2> QED
      BY <2>1, <2>3, <2>4
<1> HIDE DEF n, s, d
<1>9. JobOK(n)
    BY <1>1, <1>5 DEF JobOK
<1>10. Moves(x) /\ job'[x] = n /\ file'[n.dst] = s /\ file'[n.src] = file[n.src]
  <2>1. FilesOK /\ JobsOK /\ disturbed \subseteq Transfers
      BY DEF CopyInv, FaithOK
  <2>2. /\ job[x].ph \in {"open", "read", "write"} /\ n.ph # "idle" /\ file[n.src] # None
        /\ n.src = job[x].src /\ n.dst = job[x].dst
      BY <1>1, <1>2, <1>5
  <2>3. SetFile(job[x].dst, s) /\ disturbed' = disturbed \cup Touches(x, job[x].dst)
      BY <1>7
  <2> QED
      BY <1>4, <1>6, <1>9, <2>1, <2>2, <2>3, WritingMove
<1>11. Faithful(file, j) => Faithful(file', n)
    BY <1>5, <1>8, <1>10 DEF Faithful
<1> QED
    BY <1>1, <1>5, <1>10, <1>11 DEF Learns, Follows

LEMMA FailsMoves ==
    ASSUME CopyInv, NEW x \in Transfers, Fails(x)
    PROVE  Moves(x) /\ Learns(x) /\ Follows(job[x].ph, job'[x].ph)
<1> DEFINE j == job[x]
           ph == IF Copying(x) THEN "cut" ELSE "failed"
           n == Over(j, ph)
<1>1. /\ j \in JobState /\ JobOK(j) /\ There(file, j) /\ j.ph \in {"stat", "open", "read", "write"}
      /\ ph = IF j.ph \in {"read", "write"} THEN "cut" ELSE "failed"
    BY DEF Fails, CopyInv, JobsOK, Copying
<1>2. job' = [job EXCEPT ![x] = n]
    BY DEF Fails, CopyInv, JobsOK
<1>3. JobOK(n) /\ n.ph = ph /\ n.src = j.src /\ n.dst = j.dst
    BY <1>1, OverOK
<1> HIDE DEF n, ph
<1>4. There(file, n)
    BY <1>1, <1>3 DEF There
<1>5. Moves(x) /\ job'[x] = n
    BY <1>1, <1>2, <1>3, <1>4, QuietMove DEF Fails, CopyInv, FaithOK
<1>6. Faithful(file, j) => Faithful(file', n)
    BY <1>1, <1>3 DEF Fails, fileVars, Faithful
<1>7. ~(j.ph = "open" /\ ~j.resume) \/ Faithful(file', n)
    BY <1>1, <1>3 DEF Faithful
<1> QED
    BY <1>1, <1>3, <1>5, <1>6, <1>7 DEF Learns, Follows

LEMMA ThreadMoves ==
    ASSUME CopyInv, NEW x \in Transfers, Thread(x)
    PROVE  Moves(x) /\ Learns(x) /\ Follows(job[x].ph, job'[x].ph)
<1>1. OpenDst(x) => Moves(x) /\ Learns(x) /\ Follows(job[x].ph, job'[x].ph)
    BY ResumeMoves, TruncateMoves
<1> QED
    BY <1>1, EnterMoves, StatMoves, ReadMoves, WriteMoves, FailsMoves DEF Thread

-----------------------------------------------------------------------------
(* Every step keeps the types, and what the undisturbed copies know *)

LEMMA TransferKeeps ==
    ASSUME CopyInv, NEW x \in Transfers, Transfer(x)
    PROVE  CopyInv'
<1>1. Moves(x) /\ Learns(x)
    BY ThreadMoves DEF Transfer
<1>2. JobsOK'
  <2>1. \A y \in Transfers \ {x} : JobOK(job'[y]) /\ There(file', job'[y])
      BY <1>1, StillThere DEF Moves, CopyInv, JobsOK
  <2> QED
      BY <1>1, <2>1 DEF Moves, JobsOK
<1>3. EditsOK'
  <2>1. edit' = edit /\ saves' = saves /\ mtime' = mtime /\ Grows
      BY <1>1 DEF Transfer, Moves
  <2>2. meddled' \subseteq Edits /\ excused' \subseteq Remotes
      BY DEF Transfer, Meddles, CopyInv, EditsOK
  <2>3. ASSUME NEW e \in Edits
        PROVE  EditOK(e)'
    <3>1. EditOK(e)
        BY DEF CopyInv, EditsOK
    <3> QED
        BY <2>1, <3>1, PathSorts DEF EditOK, Downloading, LocalOf, Grows, Paths
  <2> QED
      BY <2>1, <2>2, <2>3 DEF CopyInv, EditsOK
<1>4. FaithOK'
  <2>1. ASSUME NEW y \in Transfers \ disturbed', y # x
        PROVE  Faithful(file', job'[y])
      BY <1>1, <2>1, SparedFaithful DEF Moves, CopyInv, FaithOK
  <2>2. x \notin disturbed' => Faithful(file', job'[x])
      BY <1>1 DEF Moves, Learns, CopyInv, FaithOK
  <2> QED
      BY <1>1, <2>1, <2>2 DEF Moves, FaithOK
<1> QED
    BY <1>1, <1>2, <1>3, <1>4 DEF Moves, CopyInv

LEMMA RequestedOK ==
    ASSUME NEW src \in Paths, NEW dst \in Paths \ Watched, src # dst, NEW resume \in BOOLEAN,
           src \in Watched => dst \in Remotes /\ src = Cache[dst] /\ ~resume
    PROVE  /\ JobOK(Job(src, dst, resume)) /\ Job(src, dst, resume).ph = "queued"
           /\ Job(src, dst, resume).src = src /\ Job(src, dst, resume).dst = dst
BY DEF Job, NoJob, JobOK, JobState, Phase

(* A request starts nothing yet.                                            *)
LEMMA RequestKeeps ==
    ASSUME CopyInv, NEW x \in Transfers, NEW src \in Paths, NEW dst \in Paths \ Watched, src # dst,
           NEW resume \in BOOLEAN, src \in Watched => dst \in Remotes /\ src = Cache[dst] /\ ~resume,
           Request(x, src, dst, resume)
    PROVE  /\ FilesOK' /\ JobsOK' /\ FaithOK'
           /\ job[x].ph = "idle" /\ job'[x] = Job(src, dst, resume)
           /\ \A y \in Transfers \ {x} : job'[y] = job[y]
<1> DEFINE n == Job(src, dst, resume)
<1>1. JobOK(n) /\ n.ph = "queued" /\ n \in JobState
    BY RequestedOK DEF JobOK
<1> HIDE DEF n
<1>2. job' = [job EXCEPT ![x] = n] /\ UNCHANGED <<disturbed, fileVars>> /\ job[x].ph = "idle"
    BY DEF Request, n
<1>3. job' \in [Transfers -> JobState] /\ job'[x] = n /\ \A y \in Transfers \ {x} : job'[y] = job[y]
    BY <1>1, <1>2 DEF CopyInv, JobsOK
<1>4. There(file, n) /\ Faithful(file, n)
    BY <1>1 DEF There, Faithful
<1>5. file' = file
    BY <1>2 DEF fileVars
<1>6. JobsOK'
    BY <1>1, <1>3, <1>4, <1>5 DEF CopyInv, JobsOK
<1>7. FaithOK'
    BY <1>2, <1>3, <1>4, <1>5 DEF CopyInv, FaithOK
<1>8. FilesOK'
    BY <1>2 DEF fileVars, CopyInv, FilesOK
<1> QED
    BY <1>2, <1>3, <1>6, <1>7, <1>8 DEF n

LEMMA UserTransfersKeeps ==
    ASSUME CopyInv, NEW x \in Transfers, NEW r \in Remotes, NEW resume \in BOOLEAN,
           UserTransfers(x, r, resume)
    PROVE  /\ CopyInv' /\ UNCHANGED <<fileVars, syncVars>>
           /\ job[x].ph = "idle" /\ job'[x].ph = "queued"
           /\ \A y \in Transfers \ {x} : job'[y] = job[y]
<1>1. PICK p \in Locals \ Watched : Request(x, p, r, resume) \/ Request(x, r, p, resume)
    BY DEF UserTransfers
<1>2. p \in Paths \ Watched /\ r \in Paths \ Watched /\ p # r
    BY FileAssumption DEF Paths
<1>3. /\ FilesOK' /\ JobsOK' /\ FaithOK' /\ job[x].ph = "idle"
      /\ \A y \in Transfers \ {x} : job'[y] = job[y]
    BY <1>1, <1>2, RequestKeeps
<1>4. job'[x].ph = "queued"
    BY <1>1, <1>2, RequestKeeps, RequestedOK
<1>5. UNCHANGED <<fileVars, syncVars>>
    BY <1>1 DEF UserTransfers, Request
<1>6. EditsOK'
    BY <1>5 DEF fileVars, syncVars, CopyInv, EditsOK, EditOK, Downloading, LocalOf
<1> QED
    BY <1>3, <1>4, <1>5, <1>6 DEF CopyInv

(* One edit goes on, the others stay where they are.                        *)
LEMMA EditMoves ==
    ASSUME EditsOK, NEW e \in Edits, NEW n \in EditState, edit' = [edit EXCEPT ![e] = n],
           \A l \in Watched : mtime[l] \in Nat /\ mtime'[l] \in Nat /\ mtime[l] <= mtime'[l],
           Grows, saves' = saves, meddled' \subseteq Edits, excused' \subseteq Remotes,
           n.ph # "idle", n.remote \in Remotes,
           n.ph \in {"reading", "writing"} => file'[n.remote] # None /\ file'[Cache[n.remote]] # None,
           n.ph = "writing" => n.buf \in Nat,
           n.ph = "watching" => n.last <= mtime'[Cache[n.remote]]
    PROVE  EditsOK' /\ edit'[e] = n /\ \A d \in Edits \ {e} : edit'[d] = edit[d]
<1>1. edit' \in [Edits -> EditState] /\ edit'[e] = n /\ \A d \in Edits \ {e} : edit'[d] = edit[d]
    BY DEF EditsOK
<1>2. ASSUME NEW d \in Edits \ {e}
      PROVE  EditOK(d)'
  <2>1. EditOK(d) /\ edit'[d] = edit[d] /\ edit[d].last \in Nat
      BY <1>1 DEF EditsOK, EditState
  <2> QED
      BY <2>1, PathSorts DEF EditOK, Downloading, LocalOf, Grows, Paths
<1>3. EditOK(e)'
    BY <1>1 DEF EditOK, Downloading, LocalOf
<1> QED
    BY <1>1, <1>2, <1>3 DEF EditsOK

(* A copy is written by a download, or by the user.                         *)
LEMMA OverwritingKeeps ==
    ASSUME CopyInv, NEW l \in Watched, NEW s \in Content, SetFile(l, s), job' = job,
           disturbed' = disturbed \cup Touches(None, l)
    PROVE  /\ FilesOK' /\ JobsOK' /\ FaithOK' /\ Grows /\ file'[l] = s
           /\ \A p \in Paths \ {l} : file'[p] = file[p]
           /\ \A k \in Watched : mtime'[k] = IF k = l THEN now ELSE mtime[k]
<1>1. /\ FilesOK' /\ Grows /\ file'[l] = s /\ l \in Paths
      /\ \A p \in Paths \ {l} : file'[p] = file[p]
      /\ \A k \in Watched : mtime'[k] = IF k = l THEN now ELSE mtime[k]
    BY PathSorts, Changing DEF CopyInv
<1>2. JobsOK'
    BY <1>1, StillThere DEF CopyInv, JobsOK
<1>3. \A y \in Transfers : y \notin disturbed' => Spared(y) /\ y \notin disturbed
    BY <1>1, Untouched, PathSorts DEF CopyInv
<1>4. FaithOK'
    BY <1>3, SparedFaithful DEF CopyInv, FaithOK, Touches
<1> QED
    BY <1>1, <1>2, <1>4

LEMMA MtimeRises ==
    ASSUME FilesOK, NEW p \in Watched,
           \A k \in Watched : mtime'[k] = IF k = p THEN now ELSE mtime[k]
    PROVE  \A l \in Watched : mtime[l] \in Nat /\ mtime'[l] \in Nat /\ mtime[l] <= mtime'[l]
BY DEF FilesOK

LEMMA FillsKeeps ==
    ASSUME CopyInv, NEW e \in Edits, NEW l \in Watched, NEW s \in Content, Fills(e, l, s)
    PROVE  /\ FilesOK' /\ JobsOK' /\ FaithOK' /\ Grows /\ file'[l] = s
           /\ \A p \in Paths \ {l} : file'[p] = file[p]
           /\ \A k \in Watched : mtime'[k] = IF k = l THEN now ELSE mtime[k]
           /\ \A k \in Watched : mtime[k] \in Nat /\ mtime'[k] \in Nat /\ mtime[k] <= mtime'[k]
           /\ job' = job /\ saves' = saves /\ meddled' \subseteq Edits /\ excused' \subseteq Remotes
           /\ \A r \in Remotes : r \notin excused' => r \notin excused /\ Cache[r] # l
<1>1. SetFile(l, s) /\ job' = job /\ saves' = saves /\ disturbed' = disturbed \cup Touches(None, l)
    BY DEF Fills
<1>2. /\ FilesOK' /\ JobsOK' /\ FaithOK' /\ Grows /\ file'[l] = s
      /\ \A p \in Paths \ {l} : file'[p] = file[p]
      /\ \A k \in Watched : mtime'[k] = IF k = l THEN now ELSE mtime[k]
    BY <1>1, OverwritingKeeps
<1>3. \A k \in Watched : mtime[k] \in Nat /\ mtime'[k] \in Nat /\ mtime[k] <= mtime'[k]
    BY <1>2, MtimeRises DEF CopyInv
<1>4. meddled' \subseteq Edits /\ excused' \subseteq Remotes
    BY DEF Fills, Meddles, Sharers, CopyInv, EditsOK
<1>5. \A r \in Remotes : r \notin excused' => r \notin excused /\ Cache[r] # l
    BY DEF Fills, Sharers
<1> QED
    BY <1>1, <1>2, <1>3, <1>4, <1>5

LEMMA EditOpenKeeps ==
    ASSUME CopyInv, NEW e \in Edits, NEW r \in Remotes, EditOpen(e, r)
    PROVE  /\ CopyInv' /\ file'[Cache[r]] = <<>> /\ file'[r] = file[r] /\ file[r] \in Content
           /\ edit'[e].ph = "reading" /\ edit'[e].remote = r /\ edit'[e].pos = 0
           /\ \A d \in Edits \ {e} : edit'[d] = edit[d]
<1> DEFINE n == [NoEdit EXCEPT !.ph = "reading", !.remote = r]
           l == Cache[r]
<1>1. n \in EditState /\ n.ph = "reading" /\ n.remote = r /\ n.pos = 0
    BY DEF EditState, NoEdit
<1>2. edit' = [edit EXCEPT ![e] = n] /\ Fills(e, l, <<>>) /\ file[r] # None
    BY DEF EditOpen
<1> HIDE DEF n
<1>3. l \in Watched /\ r \in Paths /\ l \in Paths /\ r # l
    BY PathSorts DEF Paths
<1>4. <<>> \in Content
    BY EmptySeq DEF Content
<1> HIDE DEF l
<1>5. /\ FilesOK' /\ JobsOK' /\ FaithOK' /\ Grows /\ file'[l] = <<>>
      /\ \A p \in Paths \ {l} : file'[p] = file[p]
      /\ \A k \in Watched : mtime[k] \in Nat /\ mtime'[k] \in Nat /\ mtime[k] <= mtime'[k]
      /\ saves' = saves /\ meddled' \subseteq Edits /\ excused' \subseteq Remotes
    BY <1>2, <1>3, <1>4, FillsKeeps
<1>6. file'[r] = file[r]
    BY <1>3, <1>5
<1>7. file'[n.remote] # None /\ file'[Cache[n.remote]] # None
    BY <1>1, <1>2, <1>4, <1>5, <1>6, PathSorts DEF l
<1>8. n.ph # "idle" /\ n.ph # "writing" /\ n.ph # "watching"
    BY <1>1
<1>9. EditsOK' /\ edit'[e] = n /\ \A d \in Edits \ {e} : edit'[d] = edit[d]
    BY <1>1, <1>2, <1>5, <1>7, <1>8, EditMoves DEF CopyInv
<1>10. file[r] \in Content
    BY <1>2, <1>3, ContentAt DEF CopyInv
<1> QED
    BY <1>1, <1>5, <1>6, <1>9, <1>10 DEF CopyInv, l

(* The two files of a download.                                             *)
LEMMA DownloadFiles ==
    ASSUME CopyInv, NEW e \in Edits, Downloading(e)
    PROVE  LET r == edit[e].remote
               l == LocalOf(e)
           IN  /\ edit[e] \in EditState /\ r \in Remotes /\ r \in Paths /\ l \in Watched /\ l \in Paths
               /\ r # l /\ file[r] # None /\ file[l] # None
               /\ file[r] \in Content /\ file[l] \in Content
               /\ Len(file[r]) \in Nat /\ Len(file[l]) \in Nat /\ Length(r) = Len(file[r])
               /\ edit[e].pos \in Nat /\ (edit[e].ph = "writing" => edit[e].buf \in Nat)
<1> DEFINE r == edit[e].remote
           l == LocalOf(e)
<1>1. edit[e] \in EditState /\ EditOK(e)
    BY DEF CopyInv, EditsOK
<1>2. r \in Remotes /\ file[r] # None /\ file[l] # None /\ (edit[e].ph = "writing" => edit[e].buf \in Nat)
    BY <1>1 DEF EditOK, Downloading
<1>3. l \in Watched /\ r \in Paths /\ l \in Paths /\ r # l
    BY <1>2, PathSorts DEF Paths, LocalOf
<1> HIDE DEF r, l
<1>4. file[r] \in Content /\ file[l] \in Content /\ Len(file[r]) \in Nat /\ Len(file[l]) \in Nat
    BY <1>2, <1>3, ContentAt DEF CopyInv
<1>5. Length(r) = Len(file[r]) /\ edit[e].pos \in Nat
    BY <1>1, <1>2 DEF Length, EditState
<1> QED
    BY <1>1, <1>2, <1>3, <1>4, <1>5 DEF r, l

LEMMA DownloadReadsKeeps ==
    ASSUME CopyInv, NEW e \in Edits, DownloadReads(e)
    PROVE  /\ CopyInv' /\ UNCHANGED <<copyVars, meddled, excused>>
           /\ Downloading(e) /\ edit[e].ph = "reading"
           /\ edit'[e].ph = "writing" /\ edit'[e].remote = edit[e].remote
           /\ edit'[e].pos = edit[e].pos + 1 /\ edit[e].pos + 1 <= Len(file[edit[e].remote])
           /\ edit'[e].buf = file[edit[e].remote][edit[e].pos + 1]
           /\ \A d \in Edits \ {e} : edit'[d] = edit[d]
<1> DEFINE r == edit[e].remote
           k == edit[e].pos
           b == file[r][k + 1]
           o == edit[e]
           n == [o EXCEPT !.ph = "writing", !.pos = k + 1, !.buf = b]
<1>1. o.ph = "reading" /\ Downloading(e) /\ k < Length(r)
    BY DEF DownloadReads, Downloading
<1>2. /\ o \in EditState /\ r \in Remotes /\ file[r] # None /\ file[Cache[r]] # None
      /\ file[r] \in Content /\ Len(file[r]) \in Nat /\ Length(r) = Len(file[r]) /\ k \in Nat
    BY <1>1, DownloadFiles DEF LocalOf
<1>3. k + 1 \in 1..Len(file[r]) /\ k + 1 \in Nat
    BY <1>1, <1>2
<1>4. b \in Nat
    BY <1>2, <1>3, ElementOfSeq DEF Content
<1>5. edit' = [edit EXCEPT ![e] = n]
    BY <1>2 DEF DownloadReads, CopyInv, EditsOK, EditState
<1>6. UNCHANGED <<copyVars, saves, meddled, excused>>
    BY DEF DownloadReads
<1>7. r = o.remote
    OBVIOUS
<1> HIDE DEF b, r, k, o
<1>8. n \in EditState /\ n.ph = "writing" /\ n.remote = r /\ n.pos = k + 1 /\ n.buf = b
    BY <1>2, <1>3, <1>4, <1>7 DEF EditState
<1> HIDE DEF n
<1>9. /\ \A l \in Watched : mtime[l] \in Nat /\ mtime'[l] \in Nat /\ mtime[l] <= mtime'[l]
      /\ Grows /\ meddled' \subseteq Edits /\ excused' \subseteq Remotes /\ file' = file
    BY <1>6 DEF copyVars, fileVars, CopyInv, FilesOK, EditsOK, Grows
<1>10. /\ n.ph # "idle" /\ n.ph # "watching" /\ n.remote \in Remotes /\ n.buf \in Nat
       /\ file'[n.remote] # None /\ file'[Cache[n.remote]] # None
    BY <1>2, <1>4, <1>8, <1>9
<1>11. EditsOK /\ saves' = saves
    BY <1>6 DEF CopyInv
<1>12. EditsOK' /\ edit'[e] = n /\ \A d \in Edits \ {e} : edit'[d] = edit[d]
    BY <1>5, <1>8, <1>9, <1>10, <1>11, EditMoves
<1>13. FilesOK' /\ JobsOK' /\ FaithOK'
    BY <1>6 DEF copyVars, fileVars, jobVars, CopyInv, FilesOK, JobsOK, FaithOK
<1> QED
    BY <1>1, <1>3, <1>6, <1>8, <1>12, <1>13 DEF CopyInv, r, k, b, o

LEMMA DownloadWritesKeeps ==
    ASSUME CopyInv, NEW e \in Edits, DownloadWrites(e)
    PROVE  LET r == edit[e].remote
               l == LocalOf(e)
           IN  /\ CopyInv' /\ Downloading(e) /\ edit[e].ph = "writing"
               /\ file'[l] = WriteAt(file[l], edit[e].pos, edit[e].buf) /\ file'[r] = file[r]
               /\ edit'[e].ph = "reading" /\ edit'[e].remote = r /\ edit'[e].pos = edit[e].pos
               /\ \A d \in Edits \ {e} : edit'[d] = edit[d]
<1> DEFINE r == edit[e].remote
           l == LocalOf(e)
           o == edit[e]
           s == WriteAt(file[l], o.pos, o.buf)
           n == [o EXCEPT !.ph = "reading", !.buf = None]
<1>1. o.ph = "writing" /\ Downloading(e) /\ Fills(e, l, s)
    BY DEF DownloadWrites, Downloading
<1>2. /\ o \in EditState /\ r \in Remotes /\ r \in Paths /\ l \in Watched /\ l \in Paths /\ r # l
      /\ file[r] # None /\ file[l] \in Content /\ o.pos \in Nat /\ o.buf \in Nat
    BY <1>1, DownloadFiles
<1>3. s \in Content
    BY <1>2, WritingAt
<1>4. edit' = [edit EXCEPT ![e] = n]
    BY <1>2 DEF DownloadWrites, CopyInv, EditsOK, EditState
<1>5. l = Cache[r]
    BY DEF LocalOf
<1>6. r = o.remote
    OBVIOUS
<1> HIDE DEF r, l, o, s
<1>7. n \in EditState /\ n.ph = "reading" /\ n.remote = r /\ n.pos = o.pos
    BY <1>2, <1>6 DEF EditState
<1> HIDE DEF n
<1>8. /\ FilesOK' /\ JobsOK' /\ FaithOK' /\ Grows /\ file'[l] = s
      /\ \A p \in Paths \ {l} : file'[p] = file[p]
      /\ \A k \in Watched : mtime[k] \in Nat /\ mtime'[k] \in Nat /\ mtime[k] <= mtime'[k]
      /\ saves' = saves /\ meddled' \subseteq Edits /\ excused' \subseteq Remotes
    BY <1>1, <1>2, <1>3, FillsKeeps
<1>9. file'[r] = file[r]
    BY <1>2, <1>8
<1>10. file'[n.remote] # None /\ file'[Cache[n.remote]] # None
    BY <1>2, <1>3, <1>5, <1>7, <1>8, <1>9, PathSorts
<1>11. n.ph # "idle" /\ n.ph # "writing" /\ n.ph # "watching" /\ n.remote \in Remotes
    BY <1>2, <1>7
<1>12. EditsOK' /\ edit'[e] = n /\ \A d \in Edits \ {e} : edit'[d] = edit[d]
    BY <1>4, <1>7, <1>8, <1>10, <1>11, EditMoves DEF CopyInv
<1> QED
    BY <1>1, <1>7, <1>8, <1>9, <1>12 DEF CopyInv, r, l, o, s

(* The download is over, in one way or the other.                           *)
LEMMA DownloadOverKeeps ==
    ASSUME CopyInv, NEW e \in Edits, Downloading(e), NEW n, edit' = [edit EXCEPT ![e] = n],
           n \in EditState, n.ph \in {"starting", "ended"}, n.remote = edit[e].remote,
           UNCHANGED <<copyVars, saves>>, meddled' = meddled \ {e}, excused' \subseteq excused
    PROVE  CopyInv' /\ edit'[e] = n /\ \A d \in Edits \ {e} : edit'[d] = edit[d]
<1>1. n.remote \in Remotes
    BY DownloadFiles
<1>2. /\ \A l \in Watched : mtime[l] \in Nat /\ mtime'[l] \in Nat /\ mtime[l] <= mtime'[l]
      /\ Grows /\ meddled' \subseteq Edits /\ excused' \subseteq Remotes
    BY DEF copyVars, fileVars, CopyInv, FilesOK, EditsOK, Grows
<1>3. EditsOK' /\ edit'[e] = n /\ \A d \in Edits \ {e} : edit'[d] = edit[d]
    BY <1>1, <1>2, EditMoves DEF CopyInv
<1>4. FilesOK' /\ JobsOK' /\ FaithOK'
    BY DEF copyVars, fileVars, jobVars, CopyInv, FilesOK, JobsOK, FaithOK
<1> QED
    BY <1>3, <1>4 DEF CopyInv

LEMMA DownloadEndsKeeps ==
    ASSUME CopyInv, NEW e \in Edits, DownloadEnds(e)
    PROVE  /\ CopyInv' /\ UNCHANGED copyVars /\ Downloading(e) /\ edit[e].ph = "reading"
           /\ edit'[e].ph = "starting" /\ edit'[e].remote = edit[e].remote
           /\ \A d \in Edits \ {e} : edit'[d] = edit[d]
<1> DEFINE o == edit[e]
           n == [o EXCEPT !.ph = "starting", !.pos = 0]
<1>1. o.ph = "reading" /\ Downloading(e)
    BY DEF DownloadEnds, Downloading
<1>2. o \in EditState
    BY <1>1, DownloadFiles
<1>3. /\ UNCHANGED <<copyVars, saves>> /\ meddled' = meddled \ {e}
      /\ excused' \subseteq excused
    BY DEF DownloadEnds
<1>4. edit' = [edit EXCEPT ![e] = n]
    BY <1>2 DEF DownloadEnds, CopyInv, EditsOK, EditState
<1>5. o.remote = edit[e].remote
    OBVIOUS
<1> HIDE DEF o
<1>6. n \in EditState /\ n.ph = "starting" /\ n.remote = o.remote
    BY <1>2 DEF EditState
<1> HIDE DEF n
<1>7. CopyInv' /\ edit'[e] = n /\ \A d \in Edits \ {e} : edit'[d] = edit[d]
    BY <1>1, <1>3, <1>4, <1>5, <1>6, DownloadOverKeeps
<1> QED
    BY <1>1, <1>3, <1>5, <1>6, <1>7 DEF o

LEMMA DownloadFailsKeeps ==
    ASSUME CopyInv, NEW e \in Edits, DownloadFails(e)
    PROVE  /\ CopyInv' /\ UNCHANGED <<copyVars, excused>>
           /\ edit'[e].ph = "ended" /\ \A d \in Edits \ {e} : edit'[d] = edit[d]
<1> DEFINE n == [NoEdit EXCEPT !.ph = "ended", !.remote = edit[e].remote]
<1>1. /\ Downloading(e) /\ edit' = [edit EXCEPT ![e] = n]
      /\ UNCHANGED <<copyVars, saves, excused>> /\ meddled' = meddled \ {e}
    BY DEF DownloadFails
<1>2. edit[e].remote \in Remotes
    BY <1>1, DownloadFiles
<1>3. n \in EditState /\ n.ph = "ended" /\ n.remote = edit[e].remote
    BY <1>2 DEF EditState, NoEdit
<1> HIDE DEF n
<1>4. CopyInv' /\ edit'[e] = n /\ \A d \in Edits \ {e} : edit'[d] = edit[d]
    BY <1>1, <1>3, DownloadOverKeeps
<1> QED
    BY <1>1, <1>3, <1>4

LEMMA WatchStartsKeeps ==
    ASSUME CopyInv, NEW e \in Edits, WatchStarts(e)
    PROVE  /\ CopyInv' /\ UNCHANGED <<copyVars, meddled, excused>>
           /\ edit[e].ph = "starting" /\ edit'[e].ph = "watching" /\ edit'[e].remote = edit[e].remote
           /\ \A d \in Edits \ {e} : edit'[d] = edit[d]
<1> DEFINE n == [edit[e] EXCEPT !.ph = "watching", !.last = mtime[LocalOf(e)]]
<1>1. edit[e] \in EditState /\ edit[e].remote \in Remotes /\ edit[e].ph = "starting"
    BY DEF WatchStarts, CopyInv, EditsOK, EditOK
<1>2. mtime[LocalOf(e)] \in Nat
    BY <1>1, PathSorts DEF LocalOf, CopyInv, FilesOK
<1>3. /\ n \in EditState /\ n.ph = "watching" /\ n.remote = edit[e].remote
      /\ n.last = mtime[Cache[n.remote]]
    BY <1>1, <1>2 DEF EditState, LocalOf
<1>4. edit' = [edit EXCEPT ![e] = n] /\ UNCHANGED <<copyVars, saves, meddled, excused>>
    BY <1>1 DEF WatchStarts, CopyInv, EditsOK
<1> HIDE DEF n
<1>5. /\ \A l \in Watched : mtime[l] \in Nat /\ mtime'[l] \in Nat /\ mtime[l] <= mtime'[l]
      /\ Grows /\ meddled' \subseteq Edits /\ excused' \subseteq Remotes /\ mtime' = mtime
    BY <1>4 DEF copyVars, fileVars, CopyInv, FilesOK, EditsOK, Grows
<1>6. n.last <= mtime'[Cache[n.remote]]
    BY <1>2, <1>3, <1>5 DEF LocalOf
<1>7. EditsOK' /\ edit'[e] = n /\ \A d \in Edits \ {e} : edit'[d] = edit[d]
    BY <1>1, <1>3, <1>4, <1>5, <1>6, EditMoves DEF CopyInv
<1>8. FilesOK' /\ JobsOK' /\ FaithOK'
    BY <1>4 DEF copyVars, fileVars, jobVars, CopyInv, FilesOK, JobsOK, FaithOK
<1> QED
    BY <1>1, <1>3, <1>4, <1>7, <1>8 DEF CopyInv

LEMMA PollKeeps ==
    ASSUME CopyInv, NEW e \in Edits, Poll(e)
    PROVE  /\ CopyInv' /\ UNCHANGED <<fileVars, meddled, excused>>
           /\ edit[e].ph = "watching" /\ edit'[e].remote = edit[e].remote /\ edit'[e].ph = "watching"
           /\ edit[e].remote \in Remotes
           /\ \A d \in Edits \ {e} : edit'[d] = edit[d]
           /\ \E x \in Transfers :
                 /\ job[x].ph = "idle" /\ job'[x].ph = "queued"
                 /\ job'[x].src = LocalOf(e) /\ job'[x].dst = edit[e].remote
                 /\ \A y \in Transfers \ {x} : job'[y] = job[y]
<1> DEFINE n == [edit[e] EXCEPT !.last = mtime[LocalOf(e)]]
           r == edit[e].remote
<1>1. edit[e] \in EditState /\ r \in Remotes /\ edit[e].ph = "watching"
    BY DEF Poll, CopyInv, EditsOK, EditOK
<1>2. mtime[LocalOf(e)] \in Nat /\ LocalOf(e) \in Watched
    BY <1>1, PathSorts DEF LocalOf, CopyInv, FilesOK
<1>3. n \in EditState /\ n.ph = "watching" /\ n.remote = r /\ n.last = mtime[Cache[n.remote]]
    BY <1>1, <1>2 DEF EditState, LocalOf
<1>4. edit' = [edit EXCEPT ![e] = n] /\ UNCHANGED <<saves, meddled, excused>>
    BY <1>1 DEF Poll, CopyInv, EditsOK
<1> HIDE DEF n
<1>5. PICK x \in Transfers : Request(x, LocalOf(e), r, FALSE)
    BY DEF Poll
<1>6. UNCHANGED fileVars
    BY <1>5 DEF Request
<1>7. /\ LocalOf(e) \in Paths /\ r \in Paths \ Watched /\ LocalOf(e) # r
      /\ LocalOf(e) = Cache[r]
    BY <1>1, <1>2, PathSorts DEF LocalOf, Paths
<1>8. /\ FilesOK' /\ JobsOK' /\ FaithOK' /\ job[x].ph = "idle" /\ job'[x] = Job(LocalOf(e), r, FALSE)
      /\ \A y \in Transfers \ {x} : job'[y] = job[y]
    BY <1>1, <1>5, <1>7, RequestKeeps
<1>9. job'[x].ph = "queued" /\ job'[x].src = LocalOf(e) /\ job'[x].dst = r
    BY <1>8 DEF Job, NoJob
<1>10. /\ \A l \in Watched : mtime[l] \in Nat /\ mtime'[l] \in Nat /\ mtime[l] <= mtime'[l]
       /\ Grows /\ meddled' \subseteq Edits /\ excused' \subseteq Remotes /\ mtime' = mtime
    BY <1>4, <1>6 DEF fileVars, CopyInv, FilesOK, EditsOK, Grows
<1>11. n.last <= mtime'[Cache[n.remote]]
    BY <1>2, <1>3, <1>10 DEF LocalOf
<1>12. EditsOK' /\ edit'[e] = n /\ \A d \in Edits \ {e} : edit'[d] = edit[d]
    BY <1>1, <1>3, <1>4, <1>10, <1>11, EditMoves DEF CopyInv
<1>13. CopyInv'
    BY <1>8, <1>12 DEF CopyInv
<1>14. \E y \in Transfers : /\ job[y].ph = "idle" /\ job'[y].ph = "queued"
                            /\ job'[y].src = LocalOf(e) /\ job'[y].dst = r
                            /\ \A z \in Transfers \ {y} : job'[z] = job[z]
    BY <1>8, <1>9
<1> QED
    BY <1>1, <1>3, <1>4, <1>6, <1>12, <1>13, <1>14

LEMMA SaveKeeps ==
    ASSUME CopyInv, NEW l \in Watched, Save(l)
    PROVE  /\ CopyInv' /\ UNCHANGED <<job, edit>>
           /\ \A p \in Paths \ {l} : file'[p] = file[p]
           /\ \A k \in Watched : mtime'[k] = IF k = l THEN now ELSE mtime[k]
<1>1. PICK n \in Sizes : SetFile(l, [i \in 1..n |-> 10 + saves])
    BY DEF Save
<1> DEFINE s == [i \in 1..n |-> 10 + saves]
<1>2. saves \in Nat /\ saves' = saves + 1 /\ n \in Nat
    BY EditAssumption DEF Save, CopyInv, EditsOK
<1>3. s \in [1..n -> Nat]
    BY <1>2
<1> HIDE DEF s
<1>4. s \in Content
    <2>1. s \in UNION {[1..m -> Nat] : m \in Nat}
        BY <1>2, <1>3
    <2> QED
        BY <2>1, SeqDef DEF Content
<1>5. SetFile(l, s)
    BY <1>1 DEF s
<1>6. /\ FilesOK' /\ JobsOK' /\ FaithOK' /\ Grows
      /\ \A p \in Paths \ {l} : file'[p] = file[p]
      /\ \A k \in Watched : mtime'[k] = IF k = l THEN now ELSE mtime[k]
    BY <1>4, <1>5, OverwritingKeeps DEF Save
<1>7. \A k \in Watched : mtime[k] \in Nat /\ mtime'[k] \in Nat /\ mtime[k] <= mtime'[k]
    BY <1>6, MtimeRises DEF CopyInv
<1>8. meddled' \subseteq Edits /\ excused' \subseteq Remotes /\ edit' = edit
    BY DEF Save, Meddles, Sharers, CopyInv, EditsOK
<1>9. ASSUME NEW e \in Edits
      PROVE  EditOK(e)'
  <2>1. EditOK(e) /\ edit[e].last \in Nat
      BY DEF CopyInv, EditsOK, EditState
  <2> QED
      BY <1>6, <1>7, <1>8, <2>1, PathSorts DEF EditOK, Downloading, LocalOf, Grows, Paths
<1>10. EditsOK'
    BY <1>2, <1>8, <1>9 DEF CopyInv, EditsOK
<1> QED
    BY <1>6, <1>10 DEF Save, CopyInv

LEMMA TickKeeps ==
    ASSUME CopyInv, Tick
    PROVE  CopyInv' /\ UNCHANGED <<file, mtime, jobVars, syncVars>>
<1>1. UNCHANGED <<file, mtime, jobVars, syncVars>> /\ now' = now + 1
    BY DEF Tick
<1>2. FilesOK'
    BY <1>1 DEF CopyInv, FilesOK
<1>3. JobsOK' /\ FaithOK' /\ EditsOK'
    BY <1>1 DEF jobVars, syncVars, CopyInv, JobsOK, FaithOK, EditsOK, EditOK, Downloading, LocalOf
<1> QED
    BY <1>1, <1>2, <1>3 DEF CopyInv

LEMMA InitCopyInv == EditInit => CopyInv
<1> SUFFICES ASSUME EditInit PROVE CopyInv
    OBVIOUS
<1>1. FilesOK
  <2>1. file \in [Paths -> Content \cup {None}]
      BY FileAssumption DEF EditInit, FileInit, Paths, Content
  <2>2. mtime = [p \in Watched |-> 0] /\ now = 0
      BY DEF EditInit, FileInit
  <2>3. mtime \in [Watched -> Nat] /\ now \in Nat /\ \A l \in Watched : mtime[l] <= now
      BY <2>2
  <2> QED
      BY <2>1, <2>3 DEF FilesOK
<1>2. NoJob \in JobState /\ JobOK(NoJob) /\ There(file, NoJob) /\ Faithful(file, NoJob)
    BY DEF NoJob, JobState, JobOK, There, Faithful, Phase
<1>3. job \in [Transfers -> JobState] /\ disturbed = {} /\ \A x \in Transfers : job[x] = NoJob
    BY <1>2 DEF EditInit, FileInit
<1>4. JobsOK /\ FaithOK
    BY <1>2, <1>3 DEF JobsOK, FaithOK
<1>5. EditsOK
    BY DEF EditInit, EditsOK, EditOK, Downloading, EditState, NoEdit
<1> QED
    BY <1>1, <1>4, <1>5 DEF CopyInv

LEMMA StepCopyInv == CopyInv /\ [EditNext]_editVars => CopyInv'
<1>1. ASSUME CopyInv, UNCHANGED editVars
      PROVE  CopyInv'
    BY <1>1 DEF editVars, copyVars, fileVars, jobVars, syncVars, CopyInv, FilesOK, JobsOK, EditsOK,
                EditOK, Downloading, LocalOf, FaithOK
<1> QED
    BY <1>1, TransferKeeps, UserTransfersKeeps, EditOpenKeeps, DownloadReadsKeeps,
       DownloadWritesKeeps, DownloadEndsKeeps, DownloadFailsKeeps, WatchStartsKeeps, PollKeeps,
       SaveKeeps, TickKeeps DEF EditNext

LEMMA CopyInvariant == EditSpec => []CopyInv
BY InitCopyInv, StepCopyInv, PTL DEF EditSpec

(* A transfer reads and writes piece by piece, from a source and to a       *)
(* destination that anybody may change, and may be cut off anywhere or      *)
(* continue what another one left: as long as nobody disturbs it, whatever  *)
(* is in the destination is a prefix of the source, and all of it when the  *)
(* transfer reports success (upload_path, download_path, copy_progress).    *)
THEOREM CopiesFaithful == EditSpec => []UndisturbedCopyIsFaithful
<1>1. ASSUME CopyInv, NEW x \in Transfers \ disturbed
      PROVE  /\ Copying(x) \/ job[x].ph = "cut" => IsPrefix(file[job[x].dst], file[job[x].src])
             /\ job[x].ph = "ok" => file[job[x].dst] = file[job[x].src]
  <2>1. JobOK(job[x]) /\ There(file, job[x]) /\ Faithful(file, job[x])
      BY <1>1 DEF CopyInv, JobsOK, FaithOK
  <2>2. ASSUME job[x].ph \in {"read", "write", "cut"}
        PROVE  IsPrefix(file[job[x].dst], file[job[x].src])
    <3>1. job[x].src \in Paths /\ job[x].dst \in Paths
        BY <2>1, <2>2 DEF JobOK
    <3>2. file[job[x].src] \in Content /\ file[job[x].dst] \in Content
        BY <1>1, <2>1, <2>2, <3>1, ContentAt DEF There, CopyInv
    <3>3. Prefix(file[job[x].dst], file[job[x].src])
        BY <2>1, <2>2 DEF Faithful
    <3> QED
        BY <3>2, <3>3, PrefixIs
  <2> QED
      BY <2>1, <2>2 DEF Copying, Faithful
<1>2. CopyInv => UndisturbedCopyIsFaithful
    BY <1>1 DEF UndisturbedCopyIsFaithful
<1> QED
    BY <1>2, CopyInvariant, PTL

-----------------------------------------------------------------------------
(* The download *)

(* A download with which nobody has meddled is a faithful copy so far.      *)
DownOK(e) ==
    Downloading(e) /\ e \notin meddled =>
        /\ Prefix(file[LocalOf(e)], file[edit[e].remote])
        /\ edit[e].ph = "reading" => edit[e].pos = Len(file[LocalOf(e)])
        /\ edit[e].ph = "writing" =>
              /\ edit[e].pos = Len(file[LocalOf(e)]) + 1
              /\ edit[e].pos <= Len(file[edit[e].remote])
              /\ edit[e].buf = file[edit[e].remote][edit[e].pos]

LEMMA DownStands ==
    ASSUME file' = file, NEW d \in Edits, edit'[d] = edit[d], d \in meddled => d \in meddled', DownOK(d)
    PROVE  DownOK(d)'
BY DEF DownOK, Downloading, LocalOf

(* Who is not in the way of a change of p still has its two files.          *)
LEMMA Unmeddled ==
    ASSUME CopyInv, NEW c, NEW p, \A q \in Paths \ {p} : file'[q] = file[q],
           meddled' = meddled \cup Meddles(c, p),
           NEW d \in Edits \ {c}, edit'[d] = edit[d], DownOK(d)
    PROVE  DownOK(d)'
<1> SUFFICES ASSUME Downloading(d)', d \notin meddled'
             PROVE  DownOK(d)'
    BY DEF DownOK
<1>1. Downloading(d) /\ d \notin meddled /\ d \notin Meddles(c, p)
    BY DEF Downloading
<1>2. edit[d].remote \in Paths /\ LocalOf(d) \in Paths
    BY <1>1, DownloadFiles
<1>3. p # edit[d].remote /\ p # LocalOf(d)
    BY <1>1 DEF Meddles
<1>4. file'[edit[d].remote] = file[edit[d].remote] /\ file'[LocalOf(d)] = file[LocalOf(d)]
    BY <1>2, <1>3
<1> QED
    BY <1>1, <1>4 DEF DownOK, LocalOf

LEMMA TransferDown ==
    ASSUME CopyInv, NEW x \in Transfers, Transfer(x), NEW d \in Edits, DownOK(d)
    PROVE  DownOK(d)'
<1>1. edit' = edit /\ \A p \in Paths \ {job[x].dst} : file'[p] = file[p]
    BY ThreadMoves DEF Transfer, Moves
<1>2. CASE file' = file
    BY <1>1, <1>2, DownStands DEF Transfer
<1>3. CASE file' # file
  <2>1. meddled' = meddled \cup Meddles(None, job[x].dst) /\ d \in Edits \ {None}
      BY <1>3, PathSorts DEF Transfer
  <2> QED
      BY <1>1, <2>1, Unmeddled
<1> QED
    BY <1>2, <1>3

LEMMA SaveDown ==
    ASSUME CopyInv, NEW l \in Watched, Save(l), NEW d \in Edits, DownOK(d)
    PROVE  DownOK(d)'
<1>1. edit' = edit /\ \A p \in Paths \ {l} : file'[p] = file[p]
    BY SaveKeeps
<1>2. meddled' = meddled \cup Meddles(None, l) /\ d \in Edits \ {None}
    BY PathSorts DEF Save
<1> QED
    BY <1>1, <1>2, Unmeddled

LEMMA EditOpenDown ==
    ASSUME CopyInv, NEW e \in Edits, NEW r \in Remotes, EditOpen(e, r), NEW d \in Edits, DownOK(d)
    PROVE  DownOK(d)'
<1> DEFINE l == Cache[r]
<1>1. /\ file'[l] = <<>> /\ file'[r] = file[r] /\ file[r] \in Content
      /\ edit'[e].ph = "reading" /\ edit'[e].remote = r /\ edit'[e].pos = 0
      /\ \A c \in Edits \ {e} : edit'[c] = edit[c]
    BY EditOpenKeeps
<1>2. Fills(e, l, <<>>) /\ l \in Watched
    BY PathSorts DEF EditOpen
<1>3. CASE d = e
  <2>1. Len(<<>>) = 0 /\ Prefix(<<>>, file[r])
      BY <1>1, EmptyIsPrefix
  <2> QED
      BY <1>1, <1>3, <2>1 DEF DownOK, LocalOf
<1>4. CASE d # e
  <2>1. <<>> \in Content
      BY EmptySeq DEF Content
  <2> HIDE DEF l
  <2>2. \A p \in Paths \ {l} : file'[p] = file[p]
      BY <1>2, <2>1, FillsKeeps
  <2>3. meddled' = meddled \cup Meddles(e, l)
      BY <1>2 DEF Fills
  <2> QED
      BY <1>1, <1>4, <2>2, <2>3, Unmeddled
<1> QED
    BY <1>3, <1>4

LEMMA DownloadReadsDown ==
    ASSUME CopyInv, NEW e \in Edits, DownloadReads(e), NEW d \in Edits, DownOK(d)
    PROVE  DownOK(d)'
<1> DEFINE r == edit[e].remote
           l == LocalOf(e)
           k == edit[e].pos
<1>1. /\ Downloading(e) /\ edit[e].ph = "reading" /\ edit'[e].ph = "writing" /\ edit'[e].remote = r
      /\ edit'[e].pos = k + 1 /\ k + 1 <= Len(file[r]) /\ edit'[e].buf = file[r][k + 1]
      /\ file' = file /\ meddled' = meddled
      /\ \A c \in Edits \ {e} : edit'[c] = edit[c]
    BY DownloadReadsKeeps DEF copyVars, fileVars
<1>2. CASE d = e
  <2> SUFFICES ASSUME e \notin meddled PROVE DownOK(e)'
      BY <1>1, <1>2 DEF DownOK
  <2>1. Prefix(file[l], file[r]) /\ k = Len(file[l])
      BY <1>1, <1>2 DEF DownOK
  <2>2. LocalOf(e)' = l
      BY <1>1 DEF LocalOf
  <2>3. edit'[e].pos = Len(file[l]) + 1 /\ edit'[e].pos <= Len(file[r]) /\ edit'[e].buf = file[r][edit'[e].pos]
      BY <1>1, <2>1
  <2> QED
      BY <1>1, <2>1, <2>2, <2>3 DEF DownOK
<1>3. CASE d # e
    BY <1>1, <1>3, DownStands
<1> QED
    BY <1>2, <1>3

LEMMA DownloadWritesDown ==
    ASSUME CopyInv, NEW e \in Edits, DownloadWrites(e), NEW d \in Edits, DownOK(d)
    PROVE  DownOK(d)'
<1> DEFINE r == edit[e].remote
           l == LocalOf(e)
           k == edit[e].pos
           b == edit[e].buf
           s == WriteAt(file[l], k, b)
<1>1. /\ Downloading(e) /\ edit[e].ph = "writing" /\ file'[l] = s /\ file'[r] = file[r]
      /\ edit'[e].ph = "reading" /\ edit'[e].remote = r /\ edit'[e].pos = k
      /\ \A c \in Edits \ {e} : edit'[c] = edit[c]
    BY DownloadWritesKeeps
<1>2. Fills(e, l, s) /\ meddled' = meddled \cup Meddles(e, l)
    BY DEF DownloadWrites, Fills
<1>3. /\ l \in Watched /\ file[l] \in Content /\ file[r] \in Content /\ k \in Nat /\ b \in Nat
      /\ Len(file[l]) \in Nat
    BY <1>1, DownloadFiles
<1>4. CASE d = e
  <2> SUFFICES ASSUME e \notin meddled PROVE DownOK(e)'
      BY <1>2, <1>4 DEF DownOK
  <2>1. /\ Prefix(file[l], file[r]) /\ k = Len(file[l]) + 1 /\ k <= Len(file[r]) /\ b = file[r][k]
      BY <1>1, <1>4 DEF DownOK
  <2>2. s = Append(file[l], b)
      BY <1>3, <2>1, WritingAt
  <2>3. Len(s) = k
      BY <1>3, <2>1, <2>2, AppendingContent
  <2>4. Prefix(s, file[r])
    <3>1. Len(file[l]) + 1 <= Len(file[r]) /\ b = file[r][Len(file[l]) + 1]
        BY <2>1
    <3>2. Prefix(Append(file[l], file[r][Len(file[l]) + 1]), file[r])
        BY <1>3, <2>1, <3>1, LongerPrefix
    <3> QED
        BY <2>2, <3>1, <3>2
  <2>5. LocalOf(e)' = l
      BY <1>1 DEF LocalOf
  <2> HIDE DEF s
  <2> QED
      BY <1>1, <2>3, <2>4, <2>5 DEF DownOK
<1>5. CASE d # e
  <2>1. s \in Content
      BY <1>3, WritingAt
  <2> HIDE DEF s, l
  <2>2. \A p \in Paths \ {l} : file'[p] = file[p]
      BY <1>2, <1>3, <2>1, FillsKeeps
  <2> QED
      BY <1>1, <1>2, <1>5, <2>2, Unmeddled
<1> QED
    BY <1>4, <1>5

LEMMA DownloadOverDown ==
    ASSUME CopyInv, NEW e \in Edits, DownloadEnds(e) \/ DownloadFails(e), NEW d \in Edits, DownOK(d)
    PROVE  DownOK(d)'
<1>1. /\ edit'[e].ph \in {"starting", "ended"} /\ file' = file
      /\ \A c \in Edits \ {e} : edit'[c] = edit[c]
    BY DownloadEndsKeeps, DownloadFailsKeeps DEF copyVars, fileVars
<1>2. meddled' = meddled \ {e}
    BY DEF DownloadEnds, DownloadFails
<1>3. CASE d = e
    BY <1>1, <1>3 DEF DownOK, Downloading
<1>4. CASE d # e
    BY <1>1, <1>2, <1>4, DownStands
<1> QED
    BY <1>3, <1>4

LEMMA WatcherDown ==
    ASSUME CopyInv, NEW e \in Edits, WatchStarts(e) \/ Poll(e), NEW d \in Edits, DownOK(d)
    PROVE  DownOK(d)'
<1>1. /\ edit'[e].ph = "watching" /\ file' = file /\ meddled' = meddled
      /\ \A c \in Edits \ {e} : edit'[c] = edit[c]
    BY WatchStartsKeeps, PollKeeps DEF copyVars, fileVars
<1>2. CASE d = e
    BY <1>1, <1>2 DEF DownOK, Downloading
<1>3. CASE d # e
    BY <1>1, <1>3, DownStands
<1> QED
    BY <1>2, <1>3

LEMMA StepDown ==
    ASSUME CopyInv, [EditNext]_editVars, NEW d \in Edits, DownOK(d)
    PROVE  DownOK(d)'
<1>1. CASE Tick \/ UNCHANGED editVars
    BY <1>1, DownStands DEF Tick, editVars, copyVars, fileVars, syncVars
<1>2. ASSUME NEW x \in Transfers, NEW r \in Remotes, NEW resume \in BOOLEAN, UserTransfers(x, r, resume)
      PROVE  DownOK(d)'
    BY <1>2, UserTransfersKeeps, DownStands DEF fileVars, syncVars
<1> QED
    BY <1>1, <1>2, TransferDown, SaveDown, EditOpenDown, DownloadReadsDown, DownloadWritesDown,
       DownloadOverDown, WatcherDown DEF EditNext

-----------------------------------------------------------------------------
(* What the watchers still owe the server *)

(* The only copy into the file is one out of its edited copy.               *)
LoneAt(r) ==
    \A x \in Transfers : Copying(x) /\ job[x].dst = r => job[x].src = Cache[r] /\ Rivals(x) = {}

(* An upload of the edited copy has not yet opened the file.                *)
Pending(r) ==
    \E x \in Transfers :
        job[x].ph \in {"queued", "stat", "open"} /\ job[x].dst = r /\ job[x].src = Cache[r]

(* What is in the file is the edited copy, or a prefix and the copy goes on.*)
Good(r) ==
    /\ \A x \in Transfers : Copying(x) /\ job[x].dst = r => Faithful(file, job[x])
    /\ ~Written(r) => file[r] = file[Cache[r]]

Settled(r) == Pending(r) \/ Good(r)

Unnoticed(e, r) == edit[e].ph = "watching" /\ edit[e].last < mtime[Cache[r]]

Watches(e, r) ==
    edit[e].ph \in {"reading", "writing", "starting", "watching"} /\ edit[e].remote = r

(* Unless excused, what the user saved has not been noticed, or is waiting, *)
(* or on its way, or there.                                                 *)
SyncAt(r) ==
    r \notin excused =>
        /\ LoneAt(r)
        /\ \A e \in Edits : Watches(e, r) => Unnoticed(e, r) \/ Settled(r)

SyncInv == CopyInv /\ (\A e \in Edits : DownOK(e)) /\ \A r \in Remotes : SyncAt(r)

(* What is known of a file that r's copy and r have no part in.             *)
Keeps(r) == LoneAt(r)' /\ (Settled(r) => Settled(r)')

(* A file into which the thread does not copy.                              *)
LEMMA Elsewhere ==
    ASSUME CopyInv, NEW x \in Transfers, Moves(x), NEW r \in Remotes, LoneAt(r), job[x].dst # r
    PROVE  Keeps(r)
<1>1. job'[x].dst # r /\ \A y \in Transfers \ {x} : job'[y] = job[y]
    BY DEF Moves
<1>2. job[x].dst \notin Watched
    BY DEF Moves, CopyInv, JobsOK, JobOK
<1>3. file'[r] = file[r] /\ file'[Cache[r]] = file[Cache[r]]
    BY <1>2, PathSorts DEF Moves, Paths
<1>4. \A y \in Transfers : job'[y].dst = r => job[y].dst = r /\ job'[y] = job[y]
    BY <1>1
<1>5. \A y \in Transfers : job[y].dst = r => job'[y] = job[y]
    BY <1>1
<1>6. LoneAt(r)'
    BY <1>4, <1>5 DEF LoneAt, Copying, Rivals
<1>7. Pending(r) => Pending(r)'
    BY <1>5 DEF Pending
<1>8. ASSUME Good(r)
      PROVE  Good(r)'
  <2>1. ASSUME NEW y \in Transfers, Copying(y)', job'[y].dst = r
        PROVE  Faithful(file', job'[y])
    <3>1. job'[y] = job[y] /\ Copying(y) /\ job[y].dst = r
        BY <1>4, <2>1 DEF Copying
    <3>2. job[y].src = Cache[r] /\ Faithful(file, job[y])
        BY <1>8, <3>1 DEF LoneAt, Good
    <3>3. Spared(y)
        BY <1>3, <3>1, <3>2 DEF Spared
    <3> QED
        BY <3>1, <3>2, <3>3, SparedFaithful
  <2>2. Written(r)' <=> Written(r)
      BY <1>4, <1>5 DEF Written, Copying
  <2> QED
      BY <1>3, <1>8, <2>1, <2>2 DEF Good
<1> QED
    BY <1>6, <1>7, <1>8 DEF Keeps, Settled

(* A new request copies nothing yet.                                        *)
LEMMA Requested ==
    ASSUME NEW x \in Transfers, job[x].ph = "idle", job'[x].ph = "queued",
           \A y \in Transfers \ {x} : job'[y] = job[y], file' = file, NEW r \in Remotes, LoneAt(r)
    PROVE  Keeps(r)
<1>1. \A y \in Transfers : Copying(y)' <=> Copying(y)
    BY DEF Copying
<1>2. \A y \in Transfers : Copying(y) => job'[y] = job[y]
    BY DEF Copying
<1>3. LoneAt(r)'
    BY <1>1, <1>2 DEF LoneAt, Rivals
<1>4. Pending(r) => Pending(r)'
    BY DEF Pending
<1>5. Good(r) => Good(r)'
    BY <1>1, <1>2 DEF Good, Written
<1> QED
    BY <1>3, <1>4, <1>5 DEF Keeps, Settled

(* A write to another copy.                                                 *)
LEMMA OtherCopy ==
    ASSUME CopyInv, NEW l \in Watched, \A p \in Paths \ {l} : file'[p] = file[p], job' = job,
           NEW r \in Remotes, LoneAt(r), Cache[r] # l
    PROVE  Keeps(r)
<1>1. file'[r] = file[r] /\ file'[Cache[r]] = file[Cache[r]]
    BY PathSorts DEF Paths
<1>2. LoneAt(r)' /\ (Pending(r) => Pending(r)')
    BY DEF LoneAt, Pending, Copying, Rivals
<1>3. ASSUME Good(r)
      PROVE  Good(r)'
  <2>1. ASSUME NEW y \in Transfers, Copying(y), job[y].dst = r
        PROVE  Faithful(file', job'[y])
    <3>1. job[y].src = Cache[r] /\ Faithful(file, job[y])
        BY <1>3, <2>1 DEF LoneAt, Good
    <3>2. Spared(y)
        BY <1>1, <2>1, <3>1 DEF Spared
    <3> QED
        BY <3>1, <3>2, SparedFaithful
  <2>2. (Written(r)' <=> Written(r)) /\ \A y \in Transfers : Copying(y)' <=> Copying(y)
      BY DEF Written, Copying
  <2> QED
      BY <1>1, <1>3, <2>1, <2>2 DEF Good
<1> QED
    BY <1>2, <1>3 DEF Keeps, Settled

LEMMA NothingMoves ==
    ASSUME UNCHANGED <<job, file>>, NEW r \in Remotes, LoneAt(r)
    PROVE  Keeps(r)
BY DEF Keeps, LoneAt, Settled, Pending, Good, Written, Copying, Rivals

(* The watchers of a file that is kept.                                     *)
LEMMA Kept ==
    ASSUME NEW r \in Remotes, SyncAt(r), r \notin excused,
           Keeps(r), mtime'[Cache[r]] = mtime[Cache[r]],
           \A e \in Edits : edit'[e] = edit[e] \/ ~Watches(e, r)' \/ Settled(r)'
    PROVE  SyncAt(r)'
<1>1. LoneAt(r)'
    BY DEF Keeps
<1>2. ASSUME NEW e \in Edits, Watches(e, r)'
      PROVE  Unnoticed(e, r)' \/ Settled(r)'
  <2>1. CASE edit'[e] = edit[e]
    <3>1. Watches(e, r)
        BY <1>2, <2>1 DEF Watches
    <3>2. Unnoticed(e, r) \/ Settled(r)
        BY <3>1 DEF SyncAt
    <3>3. Unnoticed(e, r) => Unnoticed(e, r)'
        BY <2>1 DEF Unnoticed
    <3> QED
        BY <3>2, <3>3 DEF Keeps
  <2> QED
      BY <1>2, <2>1
<1> QED
    BY <1>1, <1>2 DEF SyncAt

(* A thread that copies into r: either it excuses the file, or it is alone  *)
(* and goes on faithfully.                                                  *)
LEMMA TransferInto ==
    ASSUME CopyInv, NEW x \in Transfers, Transfer(x), NEW r \in Remotes, SyncAt(r),
           job[x].dst = r, r \notin excused'
    PROVE  SyncAt(r)'
<1>1. Moves(x) /\ Learns(x) /\ Follows(job[x].ph, job'[x].ph) /\ UNCHANGED <<edit, mtime>>
    BY ThreadMoves DEF Transfer, Moves
<1>2. job'[x].dst = r /\ job'[x].src = job[x].src /\ \A y \in Transfers \ {x} : job'[y] = job[y]
    BY <1>1 DEF Moves
<1>3. JobOK(job[x]) /\ job[x].ph # "idle" /\ job[x].src \in Paths
    BY <1>1 DEF Moves, CopyInv, JobsOK, JobOK
<1>4. \A y \in Transfers \ {x} : Copying(y)' <=> Copying(y)
    BY <1>2 DEF Copying
<1>5. CASE job[x].ph = "queued"
  <2>1. job'[x].ph = "stat" /\ excused' = excused /\ file' = file
      BY <1>5 DEF Transfer, Thread, Enter, Stat, OpenDst, Read, Write, Fails, fileVars, Follows,
                  CopyInv, JobsOK, JobState
  <2>2. \A y \in Transfers : Copying(y)' <=> Copying(y)
      BY <1>4, <1>5, <2>1 DEF Copying
  <2>3. \A y \in Transfers : Copying(y) => job'[y] = job[y]
      BY <1>2, <1>5 DEF Copying
  <2>4. LoneAt(r) => LoneAt(r)'
      BY <2>2, <2>3 DEF LoneAt, Rivals
  <2>5. Good(r) => Good(r)'
      BY <2>1, <2>2, <2>3 DEF Good, Written
  <2>6. ASSUME Pending(r)
        PROVE  Pending(r)'
    <3>1. PICK y \in Transfers : job[y].ph \in {"queued", "stat", "open"} /\ job[y].dst = r /\ job[y].src = Cache[r]
        BY <2>6 DEF Pending
    <3>2. job'[y].ph \in {"queued", "stat", "open"} /\ job'[y].dst = r /\ job'[y].src = Cache[r]
        BY <1>2, <2>1, <3>1
    <3> QED
        BY <3>2 DEF Pending
  <2> QED
      BY <1>1, <2>1, <2>4, <2>5, <2>6, Kept DEF Keeps, Settled, SyncAt
<1>6. CASE job[x].ph # "queued"
  <2>1. job'[x].ph # job[x].ph
      BY <1>1, <1>6 DEF Follows
  <2>2. /\ job'[x].ph \notin {"cut", "failed"} /\ Rivals(x) = {} /\ job[x].src \in Watched
        /\ excused' = IF job[x].ph = "open" THEN excused \ {r} ELSE excused
      BY <1>6, <2>1 DEF Transfer
  <2>3. job[x].src = Cache[r] /\ ~job[x].resume
      BY <1>3, <2>2 DEF JobOK
  <2>4. \A y \in Transfers : Copying(y)' /\ job'[y].dst = r => y = x
      BY <1>2, <1>4, <2>2 DEF Rivals
  <2>5. LoneAt(r)'
      BY <1>2, <1>4, <2>3, <2>4 DEF LoneAt, Rivals
  <2>6. ASSUME Faithful(file', job'[x]), job'[x].ph \in {"read", "write", "ok"}
        PROVE  Good(r)'
    <3>1. job'[x].ph \in {"read", "write"} => Written(r)'
        BY <1>2 DEF Written, Copying
    <3>2. job'[x].ph = "ok" => file'[r] = file'[Cache[r]]
        BY <1>2, <2>3, <2>6 DEF Faithful
    <3> QED
        BY <2>4, <2>6, <3>1, <3>2 DEF Good
  <2>7. CASE job[x].ph = "stat"
    <3>1. job'[x].ph = "open"
        BY <1>1, <2>2, <2>7 DEF Follows
    <3>2. Pending(r)'
        BY <1>2, <2>3, <3>1 DEF Pending
    <3> QED
        BY <2>5, <3>2 DEF SyncAt, Settled
  <2>8. CASE job[x].ph = "open"
    <3>1. job'[x].ph = "read" /\ Faithful(file', job'[x])
        BY <1>1, <2>2, <2>3, <2>8 DEF Follows, Learns
    <3> QED
        BY <2>5, <2>6, <3>1 DEF SyncAt, Settled
  <2>9. CASE job[x].ph \in {"read", "write"}
    <3>1. job'[x].ph \in {"read", "write", "ok"} /\ r \notin excused
        BY <1>1, <2>2, <2>9 DEF Follows
    <3>2. Good(r) => Good(r)'
        BY <1>1, <2>6, <2>9, <3>1 DEF Good, Copying, Learns
    <3>3. Pending(r) => Pending(r)'
        BY <1>2, <2>9 DEF Pending
    <3> QED
        BY <1>1, <2>5, <3>1, <3>2, <3>3, Kept DEF Keeps, Settled
  <2> QED
      BY <1>1, <1>6, <2>7, <2>8, <2>9 DEF Follows
<1> QED
    BY <1>5, <1>6

LEMMA TransferSyncs ==
    ASSUME CopyInv, NEW x \in Transfers, Transfer(x), NEW r \in Remotes, SyncAt(r)
    PROVE  SyncAt(r)'
<1>1. Moves(x) /\ UNCHANGED <<edit, mtime>>
    BY ThreadMoves DEF Transfer, Moves
<1>2. CASE r \in excused'
    BY <1>2 DEF SyncAt
<1>3. CASE r \notin excused' /\ job[x].dst # r
  <2>1. r \notin excused
      BY <1>3 DEF Transfer
  <2> QED
      BY <1>1, <1>3, <2>1, Elsewhere, Kept DEF SyncAt
<1> QED
    BY <1>2, <1>3, TransferInto

LEMMA UserTransfersSyncs ==
    ASSUME CopyInv, NEW x \in Transfers, NEW q \in Remotes, NEW resume \in BOOLEAN,
           UserTransfers(x, q, resume), NEW r \in Remotes, SyncAt(r)
    PROVE  SyncAt(r)'
<1>1. /\ job[x].ph = "idle" /\ job'[x].ph = "queued" /\ \A y \in Transfers \ {x} : job'[y] = job[y]
      /\ UNCHANGED <<file, mtime, edit, excused>>
    BY UserTransfersKeeps DEF fileVars, syncVars
<1>2. LoneAt(r) => Keeps(r)
    BY <1>1, Requested
<1> QED
    BY <1>1, <1>2, Kept DEF SyncAt

(* The watcher that has noticed a save has asked for the upload.            *)
LEMMA PollSyncs ==
    ASSUME CopyInv, NEW e \in Edits, Poll(e), NEW r \in Remotes, SyncAt(r)
    PROVE  SyncAt(r)'
<1>1. /\ UNCHANGED <<file, mtime, excused>> /\ edit'[e].remote = edit[e].remote
      /\ \A d \in Edits \ {e} : edit'[d] = edit[d]
    BY PollKeeps DEF fileVars
<1>2. PICK x \in Transfers :
         /\ job[x].ph = "idle" /\ job'[x].ph = "queued"
         /\ job'[x].src = LocalOf(e) /\ job'[x].dst = edit[e].remote
         /\ \A y \in Transfers \ {x} : job'[y] = job[y]
    BY PollKeeps
<1>3. LoneAt(r) => Keeps(r)
    BY <1>1, <1>2, Requested
<1>4. edit[e].remote = r => Pending(r)'
    BY <1>2 DEF Pending, LocalOf
<1>5. Watches(e, r)' => Settled(r)'
    BY <1>1, <1>4 DEF Watches, Settled
<1> QED
    BY <1>1, <1>3, <1>5, Kept DEF SyncAt

(* A file whose copy is not the one a download fills.                       *)
LEMMA FillsOther ==
    ASSUME CopyInv, NEW e \in Edits, NEW l \in Watched, NEW s \in Content, Fills(e, l, s),
           \A d \in Edits \ {e} : edit'[d] = edit[d],
           NEW r \in Remotes, SyncAt(r), r \notin excused, Cache[r] # l, ~Watches(e, r)'
    PROVE  SyncAt(r)'
<1>1. /\ job' = job /\ \A p \in Paths \ {l} : file'[p] = file[p]
      /\ \A k \in Watched : mtime'[k] = IF k = l THEN now ELSE mtime[k]
    BY FillsKeeps
<1>2. LoneAt(r)
    BY DEF SyncAt
<1>3. Keeps(r)
    BY <1>1, <1>2, OtherCopy
<1>4. mtime'[Cache[r]] = mtime[Cache[r]]
    BY <1>1, PathSorts
<1> QED
    BY <1>3, <1>4, Kept

LEMMA EditOpenSyncs ==
    ASSUME CopyInv, NEW e \in Edits, NEW q \in Remotes, EditOpen(e, q), NEW r \in Remotes, SyncAt(r)
    PROVE  SyncAt(r)'
<1> DEFINE l == Cache[q]
<1>1. edit'[e].remote = q /\ \A d \in Edits \ {e} : edit'[d] = edit[d]
    BY EditOpenKeeps
<1>2. Fills(e, l, <<>>) /\ l \in Watched /\ <<>> \in Content
    BY PathSorts, EmptySeq DEF EditOpen, Content
<1> HIDE DEF l
<1>3. CASE r \in excused'
    BY <1>3 DEF SyncAt
<1>4. CASE r \notin excused'
  <2>1. r \notin excused /\ Cache[r] # l
      BY <1>2, <1>4, FillsKeeps
  <2>2. ~Watches(e, r)'
      BY <1>1, <2>1 DEF Watches, l
  <2> QED
      BY <1>1, <1>2, <2>1, <2>2, FillsOther
<1> QED
    BY <1>3, <1>4

LEMMA DownloadReadsSyncs ==
    ASSUME CopyInv, NEW e \in Edits, DownloadReads(e), NEW r \in Remotes, SyncAt(r)
    PROVE  SyncAt(r)'
<1>1. /\ UNCHANGED <<job, file, mtime, excused>> /\ edit[e].ph = "reading"
      /\ edit'[e].remote = edit[e].remote /\ \A d \in Edits \ {e} : edit'[d] = edit[d]
    BY DownloadReadsKeeps DEF copyVars, fileVars, jobVars
<1>2. LoneAt(r) => Keeps(r)
    BY <1>1, NothingMoves
<1>3. Watches(e, r)' /\ r \notin excused => Settled(r)
    BY <1>1 DEF Watches, SyncAt, Unnoticed
<1> QED
    BY <1>1, <1>2, <1>3, Kept DEF SyncAt, Keeps

LEMMA DownloadWritesSyncs ==
    ASSUME CopyInv, NEW e \in Edits, DownloadWrites(e), NEW r \in Remotes, SyncAt(r)
    PROVE  SyncAt(r)'
<1> DEFINE l == LocalOf(e)
           s == WriteAt(file[l], edit[e].pos, edit[e].buf)
<1>1. /\ Downloading(e) /\ edit[e].ph = "writing" /\ edit'[e].remote = edit[e].remote
      /\ \A d \in Edits \ {e} : edit'[d] = edit[d]
    BY DownloadWritesKeeps
<1>2. Fills(e, l, s)
    BY DEF DownloadWrites
<1>3. l \in Watched /\ s \in Content
    BY <1>1, DownloadFiles, WritingAt
<1>4. l = Cache[edit[e].remote]
    BY DEF LocalOf
<1> HIDE DEF l, s
<1>5. CASE r \in excused'
    BY <1>5 DEF SyncAt
<1>6. CASE r \notin excused'
  <2>1. r \notin excused /\ Cache[r] # l
      BY <1>2, <1>3, <1>6, FillsKeeps
  <2>2. ~Watches(e, r)'
      BY <1>1, <1>4, <2>1 DEF Watches
  <2> QED
      BY <1>1, <1>2, <1>3, <2>1, <2>2, FillsOther
<1> QED
    BY <1>5, <1>6

(* Unless meddled with, the copy is now the file; and no upload is at work, *)
(* so that it stays so until something new begins.                          *)
LEMMA DownloadEndsSyncs ==
    ASSUME CopyInv, NEW e \in Edits, DownOK(e), DownloadEnds(e), NEW r \in Remotes, SyncAt(r)
    PROVE  SyncAt(r)'
<1> DEFINE q == edit[e].remote
           l == LocalOf(e)
<1>1. /\ UNCHANGED <<job, file, mtime>> /\ Downloading(e) /\ edit[e].ph = "reading"
      /\ edit'[e].remote = q /\ \A d \in Edits \ {e} : edit'[d] = edit[d]
    BY DownloadEndsKeeps DEF copyVars, fileVars, jobVars
<1>2. LoneAt(r) => Keeps(r)
    BY <1>1, NothingMoves
<1>3. CASE r \in excused'
    BY <1>3 DEF SyncAt
<1>4. CASE r \notin excused
  <2>1. Watches(e, r)' => Settled(r)
      BY <1>1, <1>4 DEF Watches, SyncAt, Unnoticed
  <2> QED
      BY <1>1, <1>2, <1>4, <2>1, Kept DEF SyncAt, Keeps
<1>5. CASE r \in excused /\ r \notin excused'
  <2>1. r = q /\ e \notin meddled /\ ~Written(q) /\ edit[e].pos >= Length(q)
      BY <1>5 DEF DownloadEnds
  <2>2. /\ file[q] \in Content /\ file[l] \in Content /\ Length(q) = Len(file[q])
      BY <1>1, DownloadFiles
  <2>3. Prefix(file[l], file[q]) /\ edit[e].pos = Len(file[l])
      BY <1>1, <2>1 DEF DownOK
  <2>4. file[l] = file[q]
    <3> HIDE DEF q, l
    <3> QED
        BY <2>1, <2>2, <2>3, WholePrefix
  <2>5. file'[r] = file'[Cache[r]]
      BY <1>1, <2>1, <2>4 DEF LocalOf
  <2>6. \A y \in Transfers : ~(Copying(y)' /\ job'[y].dst = r)
      BY <1>1, <2>1 DEF Written, Copying
  <2>7. LoneAt(r)' /\ Good(r)'
      BY <2>5, <2>6 DEF LoneAt, Good
  <2> QED
      BY <2>7 DEF SyncAt, Settled
<1> QED
    BY <1>3, <1>4, <1>5

LEMMA DownloadFailsSyncs ==
    ASSUME CopyInv, NEW e \in Edits, DownloadFails(e), NEW r \in Remotes, SyncAt(r)
    PROVE  SyncAt(r)'
<1>1. /\ UNCHANGED <<job, file, mtime, excused>> /\ edit'[e].ph = "ended"
      /\ \A d \in Edits \ {e} : edit'[d] = edit[d]
    BY DownloadFailsKeeps DEF copyVars, fileVars, jobVars
<1>2. LoneAt(r) => Keeps(r)
    BY <1>1, NothingMoves
<1>3. ~Watches(e, r)'
    BY <1>1 DEF Watches
<1> QED
    BY <1>1, <1>2, <1>3, Kept DEF SyncAt

(* What is in the copy when the watcher starts is what was downloaded.      *)
LEMMA WatchStartsSyncs ==
    ASSUME CopyInv, NEW e \in Edits, WatchStarts(e), NEW r \in Remotes, SyncAt(r)
    PROVE  SyncAt(r)'
<1>1. /\ UNCHANGED <<job, file, mtime, excused>> /\ edit[e].ph = "starting"
      /\ edit'[e].remote = edit[e].remote /\ \A d \in Edits \ {e} : edit'[d] = edit[d]
    BY WatchStartsKeeps DEF copyVars, fileVars, jobVars
<1>2. LoneAt(r) => Keeps(r)
    BY <1>1, NothingMoves
<1>3. Watches(e, r)' /\ r \notin excused => Settled(r)
    BY <1>1 DEF Watches, SyncAt, Unnoticed
<1> QED
    BY <1>1, <1>2, <1>3, Kept DEF SyncAt, Keeps

(* A save in a later second than the copy's will be noticed.                *)
LEMMA SaveSyncs ==
    ASSUME CopyInv, NEW l \in Watched, Save(l), NEW r \in Remotes, SyncAt(r)
    PROVE  SyncAt(r)'
<1>1. /\ UNCHANGED <<job, edit>> /\ \A p \in Paths \ {l} : file'[p] = file[p]
      /\ \A k \in Watched : mtime'[k] = IF k = l THEN now ELSE mtime[k]
    BY SaveKeeps
<1>2. excused' = IF Unseen(l) THEN excused \cup Sharers(l) ELSE excused
    BY DEF Save
<1>3. CASE r \in excused'
    BY <1>3 DEF SyncAt
<1>4. CASE r \notin excused' /\ Cache[r] # l
  <2>1. r \notin excused /\ LoneAt(r)
      BY <1>2, <1>4 DEF SyncAt
  <2>2. Keeps(r)
      BY <1>1, <1>4, <2>1, OtherCopy
  <2>3. mtime'[Cache[r]] = mtime[Cache[r]]
      BY <1>1, <1>4, PathSorts
  <2> QED
      BY <1>1, <2>1, <2>2, <2>3, Kept
<1>5. CASE r \notin excused' /\ Cache[r] = l
  <2>1. r \notin excused /\ ~Unseen(l)
      BY <1>2, <1>5 DEF Sharers
  <2>2. LoneAt(r)'
    <3>1. LoneAt(r)
        BY <2>1 DEF SyncAt
    <3> QED
        BY <1>1, <3>1 DEF LoneAt, Copying, Rivals
  <2>3. ASSUME NEW e \in Edits, Watches(e, r)'
        PROVE  Unnoticed(e, r)'
    <3>1. edit'[e] = edit[e] /\ edit[e].remote = r /\ edit[e].ph = "watching"
        BY <1>1, <1>5, <2>1, <2>3 DEF Watches, Unseen, Downloading, LocalOf
    <3>2. edit[e].last <= mtime[l] /\ edit[e].last \in Nat
        BY <1>5, <3>1 DEF CopyInv, EditsOK, EditOK, EditState, LocalOf
    <3>3. mtime[l] < now /\ mtime[l] \in Nat /\ now \in Nat
        BY <2>1 DEF Unseen, CopyInv, FilesOK
    <3>4. mtime'[Cache[r]] = now
        BY <1>1, <1>5
    <3>5. edit[e].last < mtime'[Cache[r]]
        BY <3>2, <3>3, <3>4
    <3> QED
        BY <3>1, <3>5 DEF Unnoticed
  <2> QED
      BY <2>2, <2>3 DEF SyncAt
<1> QED
    BY <1>3, <1>4, <1>5

LEMMA StandingSyncs ==
    ASSUME UNCHANGED <<job, file, mtime, edit, excused>>, NEW r \in Remotes, SyncAt(r)
    PROVE  SyncAt(r)'
<1>1. LoneAt(r) => Keeps(r)
    BY NothingMoves
<1> QED
    BY <1>1, Kept DEF SyncAt

LEMMA StepSyncInv == SyncInv /\ [EditNext]_editVars => SyncInv'
<1> SUFFICES ASSUME SyncInv, [EditNext]_editVars PROVE SyncInv'
    OBVIOUS
<1>1. CopyInv /\ CopyInv'
    BY StepCopyInv DEF SyncInv
<1>2. ASSUME NEW r \in Remotes
      PROVE  SyncAt(r)'
  <2>1. SyncAt(r)
      BY DEF SyncInv
  <2>2. CASE Tick \/ UNCHANGED editVars
      BY <2>1, <2>2, StandingSyncs DEF Tick, editVars, copyVars, fileVars, jobVars, syncVars
  <2> QED
      BY <1>1, <2>1, <2>2, TransferSyncs, UserTransfersSyncs, PollSyncs, EditOpenSyncs,
         WatchStartsSyncs, DownloadReadsSyncs, DownloadWritesSyncs, DownloadEndsSyncs,
         DownloadFailsSyncs, SaveSyncs DEF SyncInv, EditNext
<1>3. \A e \in Edits : DownOK(e)'
    BY <1>1, StepDown DEF SyncInv
<1> QED
    BY <1>1, <1>2, <1>3 DEF SyncInv

(* Polls, saves, uploads and downloads of one file in any order and number, *)
(* the last two piece by piece beside everything else: once a watcher has   *)
(* seen the copy's time and no transfer of the file is left, the server has *)
(* what the user saved, but for the excuses the property names (watch_edit, *)
(* edit_open, download_file, upload_path).                                  *)
THEOREM EditsNotLost == EditSpec => []EditNotLost
<1>1. EditInit => SyncInv
  <2> SUFFICES ASSUME EditInit PROVE SyncInv
      OBVIOUS
  <2>1. CopyInv
      BY InitCopyInv
  <2>2. \A x \in Transfers : ~Copying(x)
      BY DEF EditInit, FileInit, NoJob, Copying
  <2>3. \A r \in Remotes : \A e \in Edits : ~Watches(e, r)
      BY DEF EditInit, NoEdit, Watches
  <2>4. \A e \in Edits : DownOK(e)
      BY DEF EditInit, NoEdit, DownOK, Downloading
  <2> QED
      BY <2>1, <2>2, <2>3, <2>4 DEF SyncInv, SyncAt, LoneAt
<1>2. ASSUME SyncInv, NEW e \in Edits, edit[e].ph = "watching", edit[e].last = mtime[LocalOf(e)],
             edit[e].remote \notin excused,
             \A x \in Transfers : job[x].dst = edit[e].remote => Ended(x)
      PROVE  file[edit[e].remote] = file[LocalOf(e)]
  <2> DEFINE r == edit[e].remote
  <2>1. r \in Remotes
      BY <1>2 DEF SyncInv, CopyInv, EditsOK, EditOK
  <2>2. Unnoticed(e, r) \/ Settled(r)
      BY <1>2, <2>1 DEF SyncInv, SyncAt, Watches
  <2>3. mtime[LocalOf(e)] \in Nat
      BY <1>2, <2>1, PathSorts DEF SyncInv, CopyInv, FilesOK, LocalOf
  <2>4. ~Unnoticed(e, r)
      BY <1>2, <2>3 DEF Unnoticed, LocalOf
  <2>5. ~Pending(r) /\ ~Written(r)
      BY <1>2 DEF Pending, Written, Ended, Copying
  <2> QED
      BY <2>2, <2>4, <2>5 DEF Settled, Good, LocalOf
<1>3. SyncInv => EditNotLost
    BY <1>2 DEF EditNotLost
<1> QED
    BY <1>1, <1>3, StepSyncInv, PTL DEF EditSpec

=============================================================================
