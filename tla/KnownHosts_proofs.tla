-------------------------- MODULE KnownHosts_proofs --------------------------
(***************************************************************************)
(* Theorems about the concurrent use of known_hosts, for every set of      *)
(* connecting threads, servers and keys.                                   *)
(***************************************************************************)
EXTENDS KnownHosts, TLAPS

ConnState == [ph : {"idle", "check", "add", "write", "orphan"}, srv : Servers \cup {None},
              key : Keys \cup {None}, list : SUBSET Lines]
ResetState == [ph : {"idle", "read", "replace", "truncate", "write"},
               names : SUBSET UNION {Names[s] : s \in Servers}, list : SUBSET Lines]

(* A list that gives no name two keys, the patched ones left aside.         *)
Single(list) == \A l, m \in list : l.name = m.name /\ l.name \notin patched => l.key = m.key

GoodConn(r) ==
    /\ r \in ConnState
    /\ r.ph # "idle" => r.srv \in Servers /\ r.key \in Keys
    /\ Single(r.list)

(* Whoever writes the file back writes a list he has read, perhaps long     *)
(* ago, less some lines or with one line more; so all lists are single, and *)
(* stay so while the names patched only become more.                        *)
FileOK  == file \subseteq Lines /\ Single(file)
ConnOK  == conn \in [Conns -> ConnState] /\ \A c \in Conns : GoodConn(conn[c])
ResetOK == reset \in ResetState /\ Single(reset.list)
KeyOK   == key \in [Servers -> Keys] /\ changes \in 0..MaxChanges
HistOK  ==
    /\ trusted \in [Servers -> Keys \cup {None}]
    /\ overlap \subseteq Conns \cup {Main}
    /\ excused \subseteq Servers
    /\ patched \subseteq UNION {Names[s] : s \in Servers}

KeyInv == FileOK /\ ConnOK /\ ResetOK /\ KeyOK /\ HistOK

-----------------------------------------------------------------------------
(* Lists *)

LEMMA NewLine ==
    ASSUME NEW s \in Servers, NEW k \in Keys
    PROVE  [name |-> Line[s], key |-> k] \in Lines
BY HostKeyAssumption DEF Lines

LEMMA NoConnIsGood == GoodConn(NoConn)
BY DEF NoConn, GoodConn, ConnState, Single

LEMMA NoResetIsGood == NoReset \in ResetState /\ Single(NoReset.list)
BY DEF NoReset, ResetState, Single

(* A line for a server that no line concerns gives no name a second key.    *)
LEMMA AddingIsSingle ==
    ASSUME NEW s \in Servers, NEW k \in Keys, Single(file), Unknown(s, k)
    PROVE  Single(file \cup {[name |-> Line[s], key |-> k]})
<1>1. \A l \in file : l.name # Line[s]
    BY HostKeyAssumption DEF Unknown, Concern
<1> QED
    BY <1>1 DEF Single

LEMMA FilteringIsSingle ==
    ASSUME FileOK, NEW names
    PROVE  Without(names) \subseteq Lines /\ Single(Without(names))
BY DEF FileOK, Single, Without

LEMMA EmptyFileIsSingle == file' = {} => FileOK'
BY DEF FileOK, Single

(* A list lands on what another one has written: a name that gets two keys  *)
(* by it has a line behind the list's end.                                  *)
LEMMA LandingIsSingle ==
    ASSUME FileOK, HistOK, NEW list \in SUBSET Lines, Single(list), Lands(list)
    PROVE  /\ FileOK'
           /\ patched \subseteq patched'
           /\ patched' \subseteq UNION {Names[s] : s \in Servers}
<1>1. PICK rest \in SUBSET file :
          /\ file' = list \cup rest
          /\ patched' = patched \cup {l.name : l \in rest \ list}
    BY DEF Lands
<1>2. file' \subseteq Lines /\ rest \subseteq Lines
    BY <1>1 DEF FileOK
<1>3. ASSUME NEW l \in file', NEW m \in file', l.name = m.name, l.name \notin patched'
      PROVE  l.key = m.key
  <2>1. l \in list /\ m \in list
      BY <1>1, <1>3
  <2> QED
      BY <1>1, <1>3, <2>1 DEF Single
<1>4. \A l \in rest : l.name \in UNION {Names[s] : s \in Servers}
    BY <1>2 DEF Lines
<1>5. patched' \subseteq UNION {Names[s] : s \in Servers}
    BY <1>1, <1>4 DEF HistOK
<1>6. FileOK'
    BY <1>2, <1>3 DEF FileOK, Single, Lines
<1> QED
    BY <1>1, <1>5, <1>6

(* The history variables keep their types whoever reads and writes.         *)
LEMMA ReadingTypes ==
    ASSUME HistOK, NEW r \in Conns \cup {Main}, Reads(r)
    PROVE  overlap' \subseteq Conns \cup {Main}
BY DEF HistOK, Reads

LEMMA WritingTypes ==
    ASSUME HistOK, NEW w, Outdates(w) \/ Writes(w) \/ Leaves(w)
    PROVE  overlap' \subseteq Conns \cup {Main}
BY DEF HistOK, Outdates, Writes, Leaves, Holders

LEMMA BlamingTypes ==
    ASSUME HistOK, NEW w, NEW list
    PROVE  Blames(w, list) \subseteq Servers
BY DEF HistOK, Blames, Missing

(* The connection whose key is trusted has one.                             *)
LEMMA AcceptingTypes ==
    ASSUME HistOK, ConnOK, NEW c \in Conns, conn[c].ph # "idle", Accepted(c)
    PROVE  trusted' \in [Servers -> Keys \cup {None}]
<1>1. conn[c].key \in Keys
    BY DEF ConnOK, GoodConn
<1> QED
    BY <1>1 DEF HistOK, Accepted

-----------------------------------------------------------------------------
(* The connecting threads *)

(* What is single remains so.                                               *)
LEMMA SingleStays ==
    ASSUME patched \subseteq patched'
    PROVE  \A list : Single(list) => \A l, m \in list : l.name = m.name /\ l.name \notin patched' => l.key = m.key
BY DEF Single

(* One thread goes on, the others stay where they are.                      *)
LEMMA ConnMoves ==
    ASSUME ConnOK, NEW c \in Conns, NEW r, GoodConn(r), conn' = [conn EXCEPT ![c] = r],
           patched \subseteq patched'
    PROVE  ConnOK'
<1>1. r \in ConnState
    BY DEF GoodConn
<1>2. conn' \in [Conns -> ConnState]
    BY <1>1 DEF ConnOK
<1>3. \A d \in Conns : GoodConn(conn'[d])
    BY DEF ConnOK
<1>4. ASSUME NEW d \in Conns
      PROVE  GoodConn(conn[d])'
  <2>1. GoodConn(conn'[d])
      BY <1>3
  <2>2. Single(conn[d].list)'
      BY <2>1, SingleStays DEF GoodConn, Single
  <2> QED
      BY <2>1, <2>2 DEF GoodConn, ConnState, Lines
<1> QED
    BY <1>2, <1>4 DEF ConnOK, ConnState, Lines

(* The same where only the patched names have become more.                  *)
LEMMA FileStays ==
    ASSUME FileOK, file' = file, patched \subseteq patched'
    PROVE  FileOK'
BY SingleStays DEF FileOK, Single, Lines

LEMMA ConnStays ==
    ASSUME ConnOK, conn' = conn, patched \subseteq patched'
    PROVE  ConnOK'
BY SingleStays DEF ConnOK, GoodConn, ConnState, Lines, Single

LEMMA ResetStays ==
    ASSUME ResetOK, reset' = reset, patched \subseteq patched'
    PROVE  ResetOK'
BY SingleStays DEF ResetOK, ResetState, Lines, Single

LEMMA ResetMoves ==
    ASSUME NEW r, r \in ResetState, Single(r.list), reset' = r, patched \subseteq patched'
    PROVE  ResetOK'
<1>1. Single(reset'.list)
    OBVIOUS
<1>2. Single(reset.list)'
    BY <1>1, SingleStays DEF Single
<1> QED
    BY <1>2 DEF ResetOK, ResetState, Lines

LEMMA HandshakeKeeps ==
    ASSUME KeyInv, NEW c \in Conns, NEW s \in Servers, Handshake(c, s)
    PROVE  KeyInv'
<1> DEFINE r == [NoConn EXCEPT !.ph = "check", !.srv = s, !.key = key[s]]
<1>1. GoodConn(r)
    BY DEF NoConn, GoodConn, ConnState, Single, KeyInv, KeyOK
<1>2. conn' = [conn EXCEPT ![c] = r]
    BY DEF Handshake
<1> HIDE DEF r
<1>3. patched' = patched
    BY DEF Handshake
<1>4. ConnOK'
    BY <1>1, <1>2, <1>3, ConnMoves DEF KeyInv
<1>5. FileOK' /\ ResetOK'
    BY <1>3, FileStays, ResetStays DEF Handshake, KeyInv
<1> QED
    BY <1>4, <1>5 DEF Handshake, KeyInv, KeyOK, HistOK

LEMMA CheckKeeps ==
    ASSUME KeyInv, NEW c \in Conns, Check(c)
    PROVE  KeyInv'
<1> DEFINE s == conn[c].srv
           k == conn[c].key
           list == file \cup {[name |-> Line[s], key |-> k]}
           r == [conn[c] EXCEPT !.ph = "add", !.list = list]
<1>1. s \in Servers /\ k \in Keys /\ conn[c] \in ConnState /\ conn[c].ph = "check"
    BY DEF Check, KeyInv, ConnOK, GoodConn
<1>2. FileOK' /\ ResetOK' /\ KeyOK' /\ patched' = patched
    BY FileStays, ResetStays DEF Check, KeyInv, KeyOK
<1>3. CASE Accepted(c) /\ excused' = (IF reset.ph = "idle" THEN excused \ {s} ELSE excused)
           /\ conn' = [conn EXCEPT ![c] = NoConn] /\ UNCHANGED overlap
  <2>1. ConnOK'
      BY <1>2, <1>3, NoConnIsGood, ConnMoves DEF KeyInv
  <2>2. HistOK'
      BY <1>1, <1>2, <1>3, AcceptingTypes DEF KeyInv, HistOK
  <2> QED
      BY <1>2, <2>1, <2>2 DEF KeyInv
<1>4. CASE /\ Unknown(s, k) /\ Reads(c) /\ UNCHANGED <<trusted, excused>>
           /\ conn' = [conn EXCEPT ![c].ph = "add", ![c].list = list]
  <2>1. list \subseteq Lines /\ Single(list)
      BY <1>1, <1>4, NewLine, AddingIsSingle DEF KeyInv, FileOK
  <2>2. conn' = [conn EXCEPT ![c] = r]
      BY <1>1, <1>4 DEF KeyInv, ConnOK
  <2> HIDE DEF list
  <2>3. GoodConn(r)
      BY <1>1, <2>1 DEF GoodConn, ConnState
  <2> HIDE DEF r
  <2>4. ConnOK'
      BY <1>2, <2>2, <2>3, ConnMoves DEF KeyInv
  <2>5. HistOK'
      BY <1>2, <1>4, ReadingTypes DEF KeyInv, HistOK
  <2> QED
      BY <1>2, <2>4, <2>5 DEF KeyInv
<1>5. CASE conn' = [conn EXCEPT ![c] = NoConn] /\ UNCHANGED <<trusted, overlap, excused>>
  <2>1. ConnOK'
      BY <1>2, <1>5, NoConnIsGood, ConnMoves DEF KeyInv
  <2> QED
      BY <1>2, <1>5, <2>1 DEF KeyInv, HistOK
<1> QED
    BY <1>3, <1>4, <1>5 DEF Check

LEMMA AddBeginsKeeps ==
    ASSUME KeyInv, NEW c \in Conns, AddBegins(c)
    PROVE  KeyInv'
<1> DEFINE r == [conn[c] EXCEPT !.ph = "write"]
<1>1. conn[c] \in ConnState /\ conn[c].ph = "add"
    BY DEF AddBegins, KeyInv, ConnOK, GoodConn
<1>2. ResetOK' /\ KeyOK' /\ patched' = patched
    BY ResetStays DEF AddBegins, KeyInv, KeyOK
<1>3. HistOK'
    BY <1>2, WritingTypes DEF AddBegins, KeyInv, HistOK
<1>4. CASE file' = {} /\ conn' = [conn EXCEPT ![c].ph = "write"]
  <2>1. conn' = [conn EXCEPT ![c] = r]
      BY <1>1, <1>4 DEF KeyInv, ConnOK
  <2>2. GoodConn(r)
      BY <1>1 DEF GoodConn, ConnState, KeyInv, ConnOK
  <2> HIDE DEF r
  <2>3. ConnOK'
      BY <1>2, <2>1, <2>2, ConnMoves DEF KeyInv
  <2> QED
      BY <1>2, <1>3, <1>4, <2>3, EmptyFileIsSingle DEF KeyInv
<1>5. CASE conn' = [conn EXCEPT ![c] = NoConn] /\ UNCHANGED file
  <2>1. ConnOK'
      BY <1>2, <1>5, NoConnIsGood, ConnMoves DEF KeyInv
  <2> QED
      BY <1>2, <1>3, <1>5, <2>1, FileStays DEF KeyInv
<1> QED
    BY <1>4, <1>5 DEF AddBegins

LEMMA AddEndsKeeps ==
    ASSUME KeyInv, NEW c \in Conns, AddEnds(c)
    PROVE  KeyInv'
<1>1. conn[c] \in ConnState /\ conn[c].ph = "write" /\ Single(conn[c].list)
    BY DEF AddEnds, KeyInv, ConnOK, GoodConn
<1>2. overlap' \subseteq Conns \cup {Main}
    BY WritingTypes DEF AddEnds, KeyInv
<1>3. ASSUME FileOK', HistOK', patched \subseteq patched'
      PROVE  KeyInv'
  <2>1. ConnOK'
      BY <1>3, NoConnIsGood, ConnMoves DEF AddEnds, KeyInv
  <2>2. ResetOK' /\ KeyOK'
      BY <1>3, ResetStays DEF AddEnds, KeyInv, KeyOK
  <2> QED
      BY <1>3, <2>1, <2>2 DEF KeyInv
<1>4. CASE Lands(conn[c].list) /\ Accepted(c) /\ excused' = Blames(c, conn[c].list) \ {conn[c].srv}
  <2>1. conn[c].list \in SUBSET Lines
      BY <1>1 DEF ConnState
  <2>2. FileOK' /\ patched \subseteq patched' /\ patched' \subseteq UNION {Names[s] : s \in Servers}
      BY <1>1, <1>4, <2>1, LandingIsSingle DEF KeyInv
  <2>3. HistOK'
      BY <1>1, <1>2, <1>4, <2>2, AcceptingTypes, BlamingTypes DEF KeyInv, HistOK
  <2> QED
      BY <1>3, <2>2, <2>3
<1>5. CASE UNCHANGED <<file, trusted, patched>> /\ excused' = Servers
  <2>1. FileOK' /\ HistOK'
      BY <1>2, <1>5, FileStays DEF KeyInv, HistOK
  <2> QED
      BY <1>3, <1>5, <2>1
<1> QED
    BY <1>4, <1>5 DEF AddEnds

LEMMA AddsInVainKeeps ==
    ASSUME KeyInv, NEW c \in Conns, AddsInVain(c)
    PROVE  KeyInv'
<1>1. conn[c] \in ConnState /\ conn[c].ph = "orphan" /\ conn[c].srv \in Servers
    BY DEF AddsInVain, KeyInv, ConnOK, GoodConn
<1>2. FileOK' /\ ResetOK' /\ KeyOK' /\ patched' = patched
    BY FileStays, ResetStays DEF AddsInVain, KeyInv, KeyOK
<1>3. ConnOK'
    BY <1>2, NoConnIsGood, ConnMoves DEF AddsInVain, KeyInv
<1>4. overlap' \subseteq Conns \cup {Main}
    BY WritingTypes DEF AddsInVain, KeyInv
<1>5. trusted' \in [Servers -> Keys \cup {None}] /\ excused' \subseteq Servers
    BY <1>1, AcceptingTypes DEF AddsInVain, KeyInv, HistOK
<1> QED
    BY <1>2, <1>3, <1>4, <1>5 DEF KeyInv, HistOK

-----------------------------------------------------------------------------
(* The reset command, and the servers *)

LEMMA ResetKeeps ==
    ASSUME KeyInv, NEW s \in Servers, ResetHostKey(s)
    PROVE  KeyInv'
<1>1. ResetOK'
    BY DEF ResetHostKey, ResetOK, NoReset, ResetState, Single, Lines
<1>2. FileOK' /\ ConnOK'
    BY FileStays, ConnStays DEF ResetHostKey, KeyInv
<1> QED
    BY <1>1, <1>2 DEF ResetHostKey, KeyInv, KeyOK, HistOK

LEMMA KeygenReadsKeeps ==
    ASSUME KeyInv, KeygenReads
    PROVE  KeyInv'
<1>1. PICK n \in reset.names :
          reset' = [reset EXCEPT !.ph = "replace", !.names = @ \ {n}, !.list = Without({n})]
    BY DEF KeygenReads
<1>2. Without({n}) \subseteq Lines /\ Single(Without({n}))
    BY FilteringIsSingle DEF KeyInv
<1> DEFINE r == [reset EXCEPT !.ph = "replace", !.names = @ \ {n}, !.list = Without({n})]
<1>3. r \in ResetState /\ Single(r.list)
    BY <1>2 DEF KeyInv, ResetOK, ResetState
<1>4. reset' = r /\ patched' = patched
    BY <1>1 DEF KeygenReads
<1> HIDE DEF r
<1>5. ResetOK'
    BY <1>3, <1>4, ResetMoves
<1>6. HistOK'
    BY ReadingTypes DEF KeygenReads, KeyInv, HistOK, Forgotten
<1>7. FileOK' /\ ConnOK'
    BY FileStays, ConnStays DEF KeygenReads, KeyInv
<1> QED
    BY <1>5, <1>6, <1>7 DEF KeygenReads, KeyInv, KeyOK

(* The threads whose file is renamed away keep their lists.                 *)
LEMMA OrphaningKeeps ==
    ASSUME ConnOK, patched' = patched,
           conn' = [c \in Conns |->
                       IF conn[c].ph = "write" THEN [conn[c] EXCEPT !.ph = "orphan"] ELSE conn[c]]
    PROVE  ConnOK'
<1>1. ASSUME NEW c \in Conns
      PROVE  /\ conn'[c] \in ConnState
             /\ conn'[c].ph = "idle" <=> conn[c].ph = "idle"
             /\ conn'[c].srv = conn[c].srv /\ conn'[c].key = conn[c].key /\ conn'[c].list = conn[c].list
    BY <1>1 DEF ConnOK, ConnState
<1>2. conn' \in [Conns -> ConnState]
    BY <1>1
<1>3. \A c \in Conns : GoodConn(conn[c])'
    BY <1>1, SingleStays DEF ConnOK, GoodConn, ConnState, Lines, Single
<1> QED
    BY <1>2, <1>3 DEF ConnOK, ConnState, Lines

LEMMA KeygenReplacesKeeps ==
    ASSUME KeyInv, KeygenReplaces
    PROVE  KeyInv'
<1>1. FileOK'
    BY FileStays DEF KeygenReplaces, KeyInv, FileOK, ResetOK, ResetState, Single, Lines
<1>2. ConnOK'
    BY OrphaningKeeps, ConnStays DEF KeygenReplaces, KeyInv
<1>3. HistOK'
    BY WritingTypes, BlamingTypes DEF KeygenReplaces, KeyInv, HistOK
<1>4. CASE reset' = NoReset
    BY <1>1, <1>2, <1>3, <1>4, NoResetIsGood, ResetMoves DEF KeygenReplaces, KeyInv, KeyOK
<1>5. CASE reset' = [reset EXCEPT !.ph = "read", !.list = {}]
  <2> DEFINE r == [reset EXCEPT !.ph = "read", !.list = {}]
  <2>1. r \in ResetState /\ Single(r.list)
      BY DEF KeyInv, ResetOK, ResetState, Single
  <2>2. reset' = r /\ patched' = patched
      BY <1>5 DEF KeygenReplaces
  <2> HIDE DEF r
  <2>3. ResetOK'
      BY <2>1, <2>2, ResetMoves
  <2> QED
      BY <1>1, <1>2, <1>3, <2>3 DEF KeygenReplaces, KeyInv, KeyOK
<1> QED
    BY <1>4, <1>5 DEF KeygenReplaces

LEMMA FilterReadsKeeps ==
    ASSUME KeyInv, FilterReads
    PROVE  KeyInv'
<1>1. Without(reset.names) \subseteq Lines /\ Single(Without(reset.names))
    BY FilteringIsSingle DEF KeyInv
<1> DEFINE r == [reset EXCEPT !.ph = "truncate", !.names = {}, !.list = Without(reset.names)]
<1>2. r \in ResetState /\ Single(r.list)
    BY <1>1 DEF KeyInv, ResetOK, ResetState
<1>3. reset' = r /\ patched' = patched
    BY DEF FilterReads
<1> HIDE DEF r
<1>4. ResetOK'
    BY <1>2, <1>3, ResetMoves
<1>5. HistOK'
    BY ReadingTypes DEF FilterReads, KeyInv, HistOK, Forgotten
<1>6. FileOK' /\ ConnOK'
    BY FileStays, ConnStays DEF FilterReads, KeyInv
<1> QED
    BY <1>4, <1>5, <1>6 DEF FilterReads, KeyInv, KeyOK

LEMMA FilterTruncatesKeeps ==
    ASSUME KeyInv, FilterTruncates
    PROVE  KeyInv'
<1>1. ConnOK' /\ KeyOK' /\ patched' = patched
    BY ConnStays DEF FilterTruncates, KeyInv, KeyOK
<1>2. HistOK'
    BY WritingTypes DEF FilterTruncates, KeyInv, HistOK
<1>3. CASE file' = {} /\ reset' = [reset EXCEPT !.ph = "write"]
  <2> DEFINE r == [reset EXCEPT !.ph = "write"]
  <2>1. r \in ResetState /\ Single(r.list)
      BY DEF KeyInv, ResetOK, ResetState
  <2>2. reset' = r
      BY <1>3
  <2> HIDE DEF r
  <2>3. ResetOK'
      BY <1>1, <2>1, <2>2, ResetMoves
  <2> QED
      BY <1>1, <1>2, <1>3, <2>3, EmptyFileIsSingle DEF KeyInv
<1>4. CASE reset' = NoReset /\ UNCHANGED file
    BY <1>1, <1>2, <1>4, FileStays, NoResetIsGood, ResetMoves DEF KeyInv
<1> QED
    BY <1>3, <1>4 DEF FilterTruncates

LEMMA FilterWritesKeeps ==
    ASSUME KeyInv, FilterWrites
    PROVE  KeyInv'
<1>1. reset.list \in SUBSET Lines /\ Single(reset.list)
    BY DEF KeyInv, ResetOK, ResetState
<1>2. FileOK' /\ patched \subseteq patched' /\ patched' \subseteq UNION {Names[s] : s \in Servers}
  <2>1. CASE Lands(reset.list)
      BY <1>1, <2>1, LandingIsSingle DEF KeyInv
  <2>2. CASE UNCHANGED <<file, patched>>
      BY <2>2, FileStays DEF KeyInv, HistOK
  <2> QED
      BY <2>1, <2>2 DEF FilterWrites
<1>3. HistOK'
    BY <1>2, WritingTypes, BlamingTypes DEF FilterWrites, KeyInv, HistOK
<1>4. ResetOK'
    BY <1>2, NoResetIsGood, ResetMoves DEF FilterWrites
<1>5. ConnOK'
    BY <1>2, ConnStays DEF FilterWrites, KeyInv
<1> QED
    BY <1>2, <1>3, <1>4, <1>5 DEF FilterWrites, KeyInv, KeyOK

LEMMA KeyChangesKeeps ==
    ASSUME KeyInv, NEW s \in Servers, NEW k \in Keys, KeyChanges(s, k)
    PROVE  KeyInv'
<1>1. KeyOK'
    BY HostKeyAssumption DEF KeyChanges, KeyInv, KeyOK
<1>2. FileOK' /\ ConnOK' /\ ResetOK'
    BY FileStays, ConnStays, ResetStays DEF KeyChanges, KeyInv
<1> QED
    BY <1>1, <1>2 DEF KeyChanges, KeyInv, HistOK

-----------------------------------------------------------------------------
(* The theorems *)

LEMMA InitKeyInv == HostKeyInit => KeyInv
<1> SUFFICES ASSUME HostKeyInit PROVE KeyInv
    OBVIOUS
<1>1. FileOK /\ HistOK
    BY DEF HostKeyInit, FileOK, HistOK, Single
<1>2. ConnOK
    BY NoConnIsGood DEF HostKeyInit, ConnOK, GoodConn
<1>3. ResetOK
    BY NoResetIsGood DEF HostKeyInit, ResetOK
<1>4. KeyOK
    BY HostKeyAssumption DEF HostKeyInit, KeyOK
<1> QED
    BY <1>1, <1>2, <1>3, <1>4 DEF KeyInv

LEMMA StepKeyInv == KeyInv /\ [HostKeyNext]_hostKeyVars => KeyInv'
<1>1. ASSUME KeyInv, UNCHANGED hostKeyVars
      PROVE  KeyInv'
    BY <1>1, FileStays, ConnStays, ResetStays DEF hostKeyVars, KeyInv, KeyOK, HistOK
<1> QED
    BY <1>1, HandshakeKeeps, CheckKeeps, AddBeginsKeeps, AddEndsKeeps, AddsInVainKeeps, ResetKeeps,
       KeygenReadsKeeps, KeygenReplacesKeeps, FilterReadsKeeps, FilterTruncatesKeeps,
       FilterWritesKeeps, KeyChangesKeeps DEF HostKeyNext

LEMMA KeyInvariant == HostKeySpec => []KeyInv
BY InitKeyInv, StepKeyInv, PTL DEF HostKeySpec

(* Connections and resets read, hold, truncate and write known_hosts as     *)
(* they please, some of them lists long out of date, over what others have  *)
(* written since: the file still gives no name two keys, but for a name     *)
(* whose line was left behind by a shorter list (check_host_key adds a line *)
(* only when none concerns the server).                                     *)
THEOREM NamesHaveOneKey == HostKeySpec => []OneKeyPerName
<1>1. KeyInv => OneKeyPerName
    BY DEF KeyInv, FileOK, Single, OneKeyPerName
<1> QED
    BY <1>1, KeyInvariant, PTL

(* The types of the file, of the lists read from it and of the histories.   *)
THEOREM HostKeyTypes == HostKeySpec => []HostKeyTypeOK
<1>1. KeyInv => HostKeyTypeOK
    BY DEF KeyInv, FileOK, ConnOK, ResetOK, KeyOK, HistOK, HostKeyTypeOK, ConnState, ResetState
<1> QED
    BY <1>1, KeyInvariant, PTL

-----------------------------------------------------------------------------
(* What a list is worth to the one who holds it *)

(* A list that nobody has made out of date says what the file says, less    *)
(* the one lawful difference: the line a thread adds, and the lines of the  *)
(* reset servers.  While its holder is writing it the file is empty, and    *)
(* the list is all that is left.                                            *)
NewLineOf(r) == [name |-> Line[r.srv], key |-> r.key]

AddFresh(c) ==
    conn[c].ph = "add" /\ c \notin overlap =>
        ~Truncated /\ file \subseteq conn[c].list /\ Concern(conn[c].srv) = {}

WriteFresh(c) ==
    conn[c].ph = "write" /\ c \notin overlap =>
        /\ file = {}
        /\ Missing(conn[c].list) \subseteq excused
        /\ trusted[conn[c].srv] # None => conn[c].srv \in excused

LineHeld(c) == conn[c].ph \in {"add", "write"} => NewLineOf(conn[c]) \in conn[c].list

OrphanStale(c) == conn[c].ph = "orphan" => c \in overlap

ConnMem(c) == AddFresh(c) /\ WriteFresh(c) /\ LineHeld(c) /\ OrphanStale(c)

FilterFresh ==
    reset.ph \in {"replace", "truncate"} /\ Main \notin overlap =>
        ~Truncated /\ \A s \in Servers \ excused : Concern(s) \subseteq reset.list

RewriteFresh ==
    reset.ph = "write" /\ Main \notin overlap => file = {} /\ Missing(reset.list) \subseteq excused

ResetMem == FilterFresh /\ RewriteFresh

Mem == (\A c \in Conns : ConnMem(c)) /\ ResetMem /\ KeysRemembered

MemInv == KeyInv /\ Mem

(* The file stays as it is, and so does what is known of it.                *)
Quiet ==
    /\ UNCHANGED <<file, trusted>>
    /\ Truncated' <=> Truncated
    /\ excused \subseteq excused'

LEMMA QuietConn ==
    ASSUME Mem, Quiet, NEW d \in Conns, conn'[d] = conn[d], d \notin overlap' => d \notin overlap
    PROVE  ConnMem(d)'
<1>1. AddFresh(d)'
    BY DEF Mem, ConnMem, AddFresh, Quiet, Concern
<1>2. WriteFresh(d)'
    BY DEF Mem, ConnMem, WriteFresh, Quiet, Missing
<1>3. LineHeld(d)'
    BY DEF Mem, ConnMem, LineHeld, NewLineOf
<1>4. OrphanStale(d)'
    BY DEF Mem, ConnMem, OrphanStale
<1> QED
    BY <1>1, <1>2, <1>3, <1>4 DEF ConnMem

LEMMA QuietReset ==
    ASSUME Mem, Quiet, reset' = reset, Main \notin overlap' => Main \notin overlap
    PROVE  ResetMem'
<1>1. FilterFresh'
    BY DEF Mem, ResetMem, FilterFresh, Quiet, Concern
<1>2. RewriteFresh'
    BY DEF Mem, ResetMem, RewriteFresh, Quiet, Missing
<1> QED
    BY <1>1, <1>2 DEF ResetMem

LEMMA QuietFile ==
    ASSUME Mem, Quiet
    PROVE  KeysRemembered'
BY DEF Mem, Quiet, KeysRemembered, Missing

(* A writer takes the worth of every list but his own.                      *)
LEMMA OutdatedConn ==
    ASSUME Mem, NEW d \in Conns, NEW w, d # w, Outdates(w) \/ Writes(w), conn'[d] = conn[d]
    PROVE  ConnMem(d)'
<1>1. conn[d].ph \in {"add", "write", "orphan"} => d \in overlap'
    BY DEF Outdates, Writes, Holders
<1>2. AddFresh(d)' /\ WriteFresh(d)' /\ OrphanStale(d)'
    BY <1>1 DEF AddFresh, WriteFresh, OrphanStale
<1>3. LineHeld(d)'
    BY DEF Mem, ConnMem, LineHeld, NewLineOf
<1> QED
    BY <1>2, <1>3 DEF ConnMem

LEMMA OutdatedReset ==
    ASSUME NEW w, Main # w, Outdates(w) \/ Writes(w), reset' = reset
    PROVE  ResetMem'
<1>1. reset.ph \in {"replace", "truncate", "write"} => Main \in overlap'
    BY DEF Outdates, Writes, Holders
<1> QED
    BY <1>1 DEF ResetMem, FilterFresh, RewriteFresh

(* A list that is idle, or not yet read, is worth nothing.                  *)
LEMMA RestingConn ==
    ASSUME NEW d \in Conns, conn'[d].ph \in {"idle", "check"}
    PROVE  ConnMem(d)'
BY DEF ConnMem, AddFresh, WriteFresh, LineHeld, OrphanStale

LEMMA RestingReset ==
    ASSUME reset'.ph \in {"idle", "read"}
    PROVE  ResetMem'
BY DEF ResetMem, FilterFresh, RewriteFresh

(* Where the record of one thread changes and no other.                     *)
LEMMA OneConn ==
    ASSUME KeyInv, NEW c \in Conns, NEW r, conn' = [conn EXCEPT ![c] = r]
    PROVE  conn'[c] = r /\ \A d \in Conns \ {c} : conn'[d] = conn[d]
BY DEF KeyInv, ConnOK

LEMMA MainIsNoConn == \A c \in Conns : c # Main
BY HostKeyAssumption DEF Main

(* The file is open for writing as long as its writer says so.              *)
LEMMA SameWriters ==
    ASSUME \A d \in Conns : conn'[d].ph = "write" <=> conn[d].ph = "write",
           reset'.ph = "write" <=> reset.ph = "write"
    PROVE  Truncated' <=> Truncated
BY DEF Truncated

-----------------------------------------------------------------------------
(* The threads, again *)

LEMMA HandshakeRemembers ==
    ASSUME MemInv, NEW c \in Conns, NEW s \in Servers, Handshake(c, s)
    PROVE  Mem'
<1> DEFINE r == [NoConn EXCEPT !.ph = "check", !.srv = s, !.key = key[s]]
<1>1. r.ph = "check"
    BY DEF NoConn
<1>2. conn' = [conn EXCEPT ![c] = r] /\ conn[c].ph = "idle" /\ UNCHANGED <<file, reset, trusted, overlap, excused>>
    BY DEF Handshake
<1> HIDE DEF r
<1>3. conn'[c] = r /\ \A d \in Conns \ {c} : conn'[d] = conn[d]
    BY <1>2, OneConn DEF MemInv
<1>4. Quiet
    BY <1>1, <1>2, <1>3, SameWriters DEF Quiet
<1>5. ConnMem(c)'
    BY <1>1, <1>3, RestingConn
<1>6. \A d \in Conns \ {c} : ConnMem(d)'
    BY <1>2, <1>3, <1>4, QuietConn DEF MemInv
<1> QED
    BY <1>2, <1>4, <1>5, <1>6, QuietReset, QuietFile DEF MemInv, Mem

(* A match: the file has the key that is now trusted, and nobody holds it   *)
(* empty.                                                                   *)
LEMMA MatchRemembers ==
    ASSUME MemInv, NEW c \in Conns, conn[c].ph = "check",
           \E l \in Concern(conn[c].srv) : l.key = conn[c].key,
           conn' = [conn EXCEPT ![c] = NoConn], Accepted(c),
           excused' = IF reset.ph = "idle" THEN excused \ {conn[c].srv} ELSE excused,
           UNCHANGED <<file, reset, overlap>>
    PROVE  Mem'
<1> DEFINE s == conn[c].srv
<1>1. s \in Servers /\ conn[c].key \in Keys
    BY DEF MemInv, KeyInv, ConnOK, GoodConn
<1>2. conn'[c] = NoConn /\ \A d \in Conns \ {c} : conn'[d] = conn[d]
    BY OneConn DEF MemInv
<1>3. Truncated' <=> Truncated
    BY <1>2, SameWriters DEF NoConn
<1>4. file # {}
    BY DEF Concern
<1>5. ConnMem(c)'
    BY <1>2, RestingConn DEF NoConn
<1>6. ASSUME NEW d \in Conns \ {c}
      PROVE  ConnMem(d)'
  <2>1. conn'[d] = conn[d] /\ ConnMem(d)
      BY <1>2 DEF MemInv, Mem
  <2>2. AddFresh(d)'
      BY <1>3, <2>1 DEF ConnMem, AddFresh, Concern
  <2>3. WriteFresh(d)' /\ LineHeld(d)' /\ OrphanStale(d)'
      BY <1>4, <2>1 DEF ConnMem, WriteFresh, LineHeld, NewLineOf, OrphanStale
  <2> QED
      BY <2>2, <2>3 DEF ConnMem
<1>7. ResetMem'
  <2>1. ResetMem
      BY DEF MemInv, Mem
  <2>2. reset.ph # "idle" => FilterFresh'
      BY <1>3, <2>1 DEF ResetMem, FilterFresh, Concern
  <2>3. reset.ph = "idle" => FilterFresh'
      BY DEF FilterFresh
  <2>4. RewriteFresh'
      BY <1>4, <2>1 DEF ResetMem, RewriteFresh
  <2> QED
      BY <2>2, <2>3, <2>4 DEF ResetMem
<1>8. KeysRemembered'
  <2>1. ~Truncated' => Missing(file) \subseteq excused
      BY <1>3 DEF MemInv, Mem, KeysRemembered
  <2>2. trusted' = [trusted EXCEPT ![s] = conn[c].key] /\ trusted \in [Servers -> Keys \cup {None}]
      BY DEF Accepted, MemInv, KeyInv, HistOK
  <2>3. s \notin Missing(file)'
      BY <1>1, <2>2 DEF Missing, Concern
  <2>4. Missing(file)' \subseteq Missing(file)
      BY <2>2, <2>3 DEF Missing
  <2> QED
      BY <2>1, <2>3, <2>4 DEF KeysRemembered
<1> QED
    BY <1>5, <1>6, <1>7, <1>8 DEF Mem

(* NotFound: the thread's list is the file and one line more.               *)
LEMMA NotFoundRemembers ==
    ASSUME MemInv, NEW c \in Conns, conn[c].ph = "check", Unknown(conn[c].srv, conn[c].key),
           conn' = [conn EXCEPT ![c].ph = "add",
                                ![c].list = file \cup {[name |-> Line[conn[c].srv], key |-> conn[c].key]}],
           Reads(c), UNCHANGED <<file, reset, trusted, excused>>
    PROVE  Mem'
<1> DEFINE list == file \cup {NewLineOf(conn[c])}
           r == [conn[c] EXCEPT !.ph = "add", !.list = list]
<1>1. conn[c] \in ConnState /\ conn \in [Conns -> ConnState]
    BY DEF MemInv, KeyInv, ConnOK
<1>2. conn' = [conn EXCEPT ![c] = r]
    BY <1>1 DEF NewLineOf
<1>3. r.ph = "add" /\ r.list = list /\ r.srv = conn[c].srv /\ r.key = conn[c].key
    BY <1>1 DEF ConnState
<1> HIDE DEF r
<1>4. conn'[c] = r /\ \A d \in Conns \ {c} : conn'[d] = conn[d]
    BY <1>2, OneConn DEF MemInv
<1>5. Quiet
    BY <1>3, <1>4, SameWriters DEF Quiet
<1>6. \A d \in Conns \ {c} : ConnMem(d)'
  <2> SUFFICES ASSUME NEW d \in Conns \ {c} PROVE ConnMem(d)'
      OBVIOUS
  <2>1. d \notin overlap' => d \notin overlap
      BY DEF Reads
  <2> QED
      BY <1>4, <1>5, <2>1, QuietConn DEF MemInv
<1>7. AddFresh(c)'
  <2>1. c \notin overlap' => ~Truncated'
      BY <1>5 DEF Reads, Quiet
  <2> QED
      BY <1>3, <1>4, <2>1 DEF AddFresh, Unknown, Concern
<1>8. WriteFresh(c)' /\ LineHeld(c)' /\ OrphanStale(c)'
    BY <1>3, <1>4 DEF WriteFresh, LineHeld, NewLineOf, OrphanStale
<1>9. Main \notin overlap' => Main \notin overlap
    BY MainIsNoConn DEF Reads
<1> QED
    BY <1>5, <1>6, <1>7, <1>8, <1>9, QuietReset, QuietFile DEF MemInv, Mem, ConnMem

(* The thread leaves without having touched the file.                       *)
LEMMA LeavingRemembers ==
    ASSUME MemInv, NEW c \in Conns, conn[c].ph \in {"check", "add"},
           conn' = [conn EXCEPT ![c] = NoConn], overlap' = overlap \/ Leaves(c),
           UNCHANGED <<file, reset, trusted, excused>>
    PROVE  Mem'
<1>1. conn'[c] = NoConn /\ \A d \in Conns \ {c} : conn'[d] = conn[d]
    BY OneConn DEF MemInv
<1>2. Quiet
    BY <1>1, SameWriters DEF Quiet, NoConn
<1>3. ConnMem(c)'
    BY <1>1, RestingConn DEF NoConn
<1>4. \A d \in (Conns \cup {Main}) \ {c} : d \notin overlap' => d \notin overlap
    BY DEF Leaves
<1>5. \A d \in Conns \ {c} : ConnMem(d)'
    BY <1>1, <1>2, <1>4, QuietConn DEF MemInv
<1> QED
    BY <1>2, <1>3, <1>4, <1>5, MainIsNoConn, QuietReset, QuietFile DEF MemInv, Mem

LEMMA CheckRemembers ==
    ASSUME MemInv, NEW c \in Conns, Check(c)
    PROVE  Mem'
BY MatchRemembers, NotFoundRemembers, LeavingRemembers DEF Check

(* Truncating: what the list keeps is what the file had, and the line is    *)
(* new to it.                                                               *)
LEMMA TruncatingRemembers ==
    ASSUME MemInv, NEW c \in Conns, conn[c].ph = "add", file' = {},
           conn' = [conn EXCEPT ![c].ph = "write"], Outdates(c), UNCHANGED <<reset, trusted, excused>>
    PROVE  Mem'
<1> DEFINE r == [conn[c] EXCEPT !.ph = "write"]
<1>1. conn[c] \in ConnState /\ conn \in [Conns -> ConnState] /\ conn[c].srv \in Servers
    BY DEF MemInv, KeyInv, ConnOK, GoodConn
<1>2. conn' = [conn EXCEPT ![c] = r]
    BY <1>1
<1>3. r.ph = "write" /\ r.list = conn[c].list /\ r.srv = conn[c].srv /\ r.key = conn[c].key
    BY <1>1 DEF ConnState
<1> HIDE DEF r
<1>4. conn'[c] = r /\ \A d \in Conns \ {c} : conn'[d] = conn[d]
    BY <1>2, OneConn DEF MemInv
<1>5. \A d \in Conns \ {c} : ConnMem(d)'
    BY <1>4, OutdatedConn DEF MemInv
<1>6. ResetMem'
    BY MainIsNoConn, OutdatedReset
<1>7. ConnMem(c)'
  <2>1. ConnMem(c) /\ KeysRemembered
      BY DEF MemInv, Mem
  <2>2. AddFresh(c)' /\ LineHeld(c)' /\ OrphanStale(c)'
      BY <1>3, <1>4, <2>1 DEF ConnMem, AddFresh, LineHeld, NewLineOf, OrphanStale
  <2>3. ASSUME c \notin overlap
        PROVE  /\ Missing(conn[c].list) \subseteq excused
               /\ trusted[conn[c].srv] # None => conn[c].srv \in excused
    <3>1. Missing(file) \subseteq excused /\ file \subseteq conn[c].list /\ Concern(conn[c].srv) = {}
        BY <2>1, <2>3 DEF ConnMem, AddFresh, KeysRemembered
    <3>2. Missing(conn[c].list) \subseteq Missing(file)
        BY <3>1 DEF Missing
    <3>3. trusted[conn[c].srv] # None => conn[c].srv \in Missing(file)
        BY <1>1, <3>1 DEF Missing, Concern
    <3> QED
        BY <3>1, <3>2, <3>3
  <2>4. c \notin overlap' => c \notin overlap
      BY DEF Outdates
  <2>5. WriteFresh(c)'
      BY <1>3, <1>4, <2>3, <2>4 DEF WriteFresh, Missing
  <2> QED
      BY <2>2, <2>5 DEF ConnMem
<1>8. KeysRemembered'
    BY <1>3, <1>4 DEF KeysRemembered, Truncated
<1> QED
    BY <1>5, <1>6, <1>7, <1>8 DEF Mem

LEMMA AddBeginsRemembers ==
    ASSUME MemInv, NEW c \in Conns, AddBegins(c)
    PROVE  Mem'
BY TruncatingRemembers, LeavingRemembers DEF AddBegins

(* The list is in the file: a server whose accepted key it lacks was        *)
(* excused already, or is by now.                                           *)
LEMMA AddEndsRemembers ==
    ASSUME MemInv, NEW c \in Conns, AddEnds(c)
    PROVE  Mem'
<1>1. conn'[c] = NoConn /\ \A d \in Conns \ {c} : conn'[d] = conn[d]
    BY OneConn DEF AddEnds, MemInv
<1>2. ConnMem(c)'
    BY <1>1, RestingConn DEF NoConn
<1>3. \A d \in Conns \ {c} : ConnMem(d)'
    BY <1>1, OutdatedConn DEF AddEnds, MemInv
<1>4. ResetMem'
    BY MainIsNoConn, OutdatedReset DEF AddEnds
<1>5. KeysRemembered'
  <2> DEFINE s == conn[c].srv
  <2>1. CASE Lands(conn[c].list) /\ Accepted(c) /\ excused' = Blames(c, conn[c].list) \ {s}
    <3>1. s \in Servers /\ conn[c].key \in Keys /\ NewLineOf(conn[c]) \in conn[c].list
        BY DEF AddEnds, MemInv, KeyInv, ConnOK, GoodConn, Mem, ConnMem, LineHeld
    <3>2. trusted' = [trusted EXCEPT ![s] = conn[c].key] /\ trusted \in [Servers -> Keys \cup {None}]
        BY <2>1 DEF Accepted, MemInv, KeyInv, HistOK
    <3>0. conn[c].list \subseteq file'
        BY <2>1 DEF Lands
    <3>3. s \notin Missing(file)'
        BY <3>0, <3>1, <3>2, HostKeyAssumption DEF Missing, NewLineOf
    <3>4. Missing(file)' \subseteq Missing(conn[c].list)
        BY <3>0, <3>2, <3>3 DEF Missing
    <3>5. Missing(conn[c].list) \subseteq Blames(c, conn[c].list)
        BY DEF AddEnds, MemInv, Mem, ConnMem, WriteFresh, Blames
    <3> QED
        BY <2>1, <3>3, <3>4, <3>5 DEF KeysRemembered
  <2>2. CASE excused' = Servers
      BY <2>2 DEF KeysRemembered, Missing
  <2> QED
      BY <2>1, <2>2 DEF AddEnds
<1> QED
    BY <1>2, <1>3, <1>4, <1>5 DEF Mem

(* The list goes to a file without a name: its server is excused, and all   *)
(* other lists and the file are as they were.                               *)
LEMMA AddsInVainRemembers ==
    ASSUME MemInv, NEW c \in Conns, AddsInVain(c)
    PROVE  Mem'
<1> DEFINE s == conn[c].srv
<1>1. conn'[c] = NoConn /\ \A d \in Conns \ {c} : conn'[d] = conn[d]
    BY OneConn DEF AddsInVain, MemInv
<1>2. (Truncated' <=> Truncated) /\ UNCHANGED <<file, reset>> /\ excused \subseteq excused'
    BY <1>1, SameWriters DEF AddsInVain, NoConn
<1>3. \A d \in (Conns \cup {Main}) \ {c} : d \notin overlap' => d \notin overlap
    BY DEF AddsInVain, Leaves
<1>4. \A list : Missing(list)' \subseteq Missing(list) \cup excused'
    BY DEF AddsInVain, Accepted, Missing, MemInv, KeyInv, HistOK
<1>5. \A t \in Servers \ excused' : trusted'[t] = trusted[t]
    BY DEF AddsInVain, Accepted, MemInv, KeyInv, HistOK
<1>6. ConnMem(c)'
    BY <1>1, RestingConn DEF NoConn
<1>7. ASSUME NEW d \in Conns \ {c}
      PROVE  ConnMem(d)'
  <2>1. conn'[d] = conn[d] /\ ConnMem(d) /\ (d \notin overlap' => d \notin overlap)
      BY <1>1, <1>3 DEF MemInv, Mem
  <2>2. AddFresh(d)' /\ LineHeld(d)' /\ OrphanStale(d)'
      BY <1>2, <2>1 DEF ConnMem, AddFresh, Concern, LineHeld, NewLineOf, OrphanStale
  <2>3. ASSUME conn[d].ph = "write", d \notin overlap'
        PROVE  /\ file = {} /\ Missing(conn[d].list)' \subseteq excused'
               /\ trusted'[conn[d].srv] # None => conn[d].srv \in excused'
    <3>1. file = {} /\ Missing(conn[d].list) \subseteq excused
          /\ (trusted[conn[d].srv] # None => conn[d].srv \in excused)
        BY <2>1, <2>3 DEF ConnMem, WriteFresh
    <3>2. conn[d].srv \in Servers
        BY <2>3 DEF MemInv, KeyInv, ConnOK, GoodConn
    <3>3. Missing(conn[d].list)' \subseteq Missing(conn[d].list) \cup excused'
        BY <1>4, <2>1 DEF Missing
    <3> QED
        BY <1>2, <1>5, <3>1, <3>2, <3>3
  <2>4. WriteFresh(d)'
      BY <1>2, <2>1, <2>3 DEF WriteFresh, Missing
  <2> QED
      BY <2>2, <2>4 DEF ConnMem
<1>8. ResetMem'
  <2>1. ResetMem /\ (Main \notin overlap' => Main \notin overlap)
      BY <1>3, MainIsNoConn DEF MemInv, Mem
  <2>2. FilterFresh'
      BY <1>2, <2>1 DEF ResetMem, FilterFresh, Concern
  <2>3. Missing(reset.list)' \subseteq Missing(reset.list) \cup excused'
      BY <1>2, <1>4 DEF Missing
  <2>4. RewriteFresh'
      BY <1>2, <2>1, <2>3 DEF ResetMem, RewriteFresh, Missing
  <2> QED
      BY <2>2, <2>4 DEF ResetMem
<1>9. KeysRemembered'
  <2>1. Missing(file)' \subseteq Missing(file) \cup excused'
      BY <1>2, <1>4 DEF Missing
  <2> QED
      BY <1>2, <2>1 DEF MemInv, Mem, KeysRemembered
<1> QED
    BY <1>6, <1>7, <1>8, <1>9 DEF Mem

-----------------------------------------------------------------------------
(* The reset command, again *)

LEMMA ResetRemembers ==
    ASSUME MemInv, NEW s \in Servers, ResetHostKey(s)
    PROVE  Mem'
<1>1. Quiet
    BY SameWriters DEF ResetHostKey, Quiet, NoReset
<1>2. ResetMem'
    BY RestingReset DEF ResetHostKey, NoReset
<1> QED
    BY <1>1, <1>2, QuietConn, QuietFile DEF ResetHostKey, MemInv, Mem

(* What a filter of some names leaves out concerns the servers of those     *)
(* names, which are excused.                                                *)
LEMMA FilteringForgets ==
    ASSUME NEW names, NEW s \in Servers \ Forgotten(names)
    PROVE  Concern(s) \subseteq Without(names)
BY DEF Forgotten, Concern, Without

LEMMA ReadingRemembers ==
    ASSUME MemInv, reset.ph = "read", NEW names \in SUBSET reset.names,
           NEW ph \in {"replace", "truncate"},
           reset' \in ResetState, reset'.ph = ph, reset'.list = Without(names),
           excused' = excused \cup Forgotten(reset.names), Reads(Main),
           UNCHANGED <<file, conn, trusted>>
    PROVE  Mem'
<1>1. Quiet
    BY SameWriters DEF Quiet
<1>2. \A d \in Conns : d \notin overlap' => d \notin overlap
    BY MainIsNoConn DEF Reads
<1>3. FilterFresh'
  <2>1. Main \notin overlap' => ~Truncated'
      BY <1>1 DEF Reads, Quiet
  <2>2. \A s \in Servers \ excused' : Concern(s) \subseteq Without(names)
      BY FilteringForgets DEF Forgotten
  <2> QED
      BY <2>1, <2>2 DEF FilterFresh, Concern
<1>4. RewriteFresh'
    BY DEF RewriteFresh
<1> QED
    BY <1>1, <1>2, <1>3, <1>4, QuietConn, QuietFile DEF MemInv, Mem, ResetMem

LEMMA KeygenReadsRemembers ==
    ASSUME MemInv, KeygenReads
    PROVE  Mem'
<1>1. PICK n \in reset.names :
          reset' = [reset EXCEPT !.ph = "replace", !.names = @ \ {n}, !.list = Without({n})]
    BY DEF KeygenReads
<1>2. reset.ph = "read" /\ reset \in ResetState
    BY DEF KeygenReads, MemInv, KeyInv, ResetOK
<1>3. KeyInv'
    BY KeygenReadsKeeps DEF MemInv
<1>4. reset' \in ResetState /\ reset'.ph = "replace" /\ reset'.list = Without({n})
    BY <1>1, <1>2, <1>3 DEF KeyInv, ResetOK, ResetState
<1> QED
    BY <1>2, <1>4, ReadingRemembers DEF KeygenReads

LEMMA FilterReadsRemembers ==
    ASSUME MemInv, FilterReads
    PROVE  Mem'
<1>1. reset.ph = "read" /\ reset \in ResetState
    BY DEF FilterReads, MemInv, KeyInv, ResetOK
<1>2. KeyInv'
    BY FilterReadsKeeps DEF MemInv
<1>3. reset' \in ResetState /\ reset'.ph = "truncate" /\ reset'.list = Without(reset.names)
    BY <1>1, <1>2 DEF FilterReads, KeyInv, ResetOK, ResetState
<1> QED
    BY <1>1, <1>3, ReadingRemembers DEF FilterReads

(* A list no one has outdated lacks the accepted keys only of the excused.  *)
LEMMA FreshFilterForgetsTheExcused ==
    ASSUME MemInv, reset.ph \in {"replace", "truncate"}, Main \notin overlap
    PROVE  Missing(reset.list) \subseteq excused
<1>1. ~Truncated /\ \A s \in Servers \ excused : Concern(s) \subseteq reset.list
    BY DEF MemInv, Mem, ResetMem, FilterFresh
<1>2. Missing(file) \subseteq excused
    BY <1>1 DEF MemInv, Mem, KeysRemembered
<1> QED
    BY <1>1, <1>2 DEF Missing, Concern

(* All other lists are out of date, and the command holds none.             *)
LEMMA ResetWrites ==
    ASSUME MemInv, Writes(Main), conn' = conn, reset'.ph \in {"idle", "read"}
    PROVE  (\A c \in Conns : ConnMem(c)') /\ ResetMem'
BY OutdatedConn, MainIsNoConn, RestingReset DEF MemInv

LEMMA KeygenReplacesRemembers ==
    ASSUME MemInv, KeygenReplaces
    PROVE  Mem'
<1>1. reset'.ph \in {"idle", "read"}
    BY DEF KeygenReplaces, NoReset, MemInv, KeyInv, ResetOK, ResetState
<1>2. (\A c \in Conns : ConnMem(c)') /\ ResetMem'
  <2>1. ASSUME NEW d \in Conns, conn'[d] # conn[d]
        PROVE  ConnMem(d)'
    <3>1. conn[d].ph = "write" /\ conn'[d] = [conn[d] EXCEPT !.ph = "orphan"]
        BY <2>1 DEF KeygenReplaces
    <3>2. conn'[d].ph = "orphan"
        BY <3>1 DEF MemInv, KeyInv, ConnOK, ConnState
    <3>3. d \in overlap'
        BY <3>1, MainIsNoConn DEF KeygenReplaces, Writes, Holders
    <3> QED
        BY <3>2, <3>3 DEF ConnMem, AddFresh, WriteFresh, LineHeld, OrphanStale
  <2>2. ASSUME NEW d \in Conns, conn'[d] = conn[d]
        PROVE  ConnMem(d)'
      BY <2>2, OutdatedConn, MainIsNoConn DEF KeygenReplaces, MemInv
  <2> QED
      BY <1>1, <2>1, <2>2, RestingReset
<1>3. conn' = conn => (Truncated' <=> Truncated)
    BY <1>1, SameWriters DEF KeygenReplaces
<1>4. Missing(reset.list) \subseteq excused'
    BY FreshFilterForgetsTheExcused DEF KeygenReplaces, Blames
<1>5. ~Truncated => Missing(file) \subseteq excused'
    BY DEF KeygenReplaces, Blames, MemInv, Mem, KeysRemembered
<1>6. KeysRemembered'
  <2>1. CASE file' = reset.list
      BY <1>4, <2>1 DEF KeygenReplaces, KeysRemembered, Missing
  <2>2. CASE UNCHANGED <<file, conn>>
      BY <1>3, <1>5, <2>2 DEF KeygenReplaces, KeysRemembered, Missing
  <2> QED
      BY <2>1, <2>2 DEF KeygenReplaces
<1> QED
    BY <1>2, <1>6 DEF Mem

LEMMA FilterTruncatesRemembers ==
    ASSUME MemInv, FilterTruncates
    PROVE  Mem'
<1>1. CASE file' = {} /\ reset' = [reset EXCEPT !.ph = "write"] /\ Outdates(Main)
  <2>1. reset'.ph = "write" /\ reset'.list = reset.list
      BY <1>1 DEF MemInv, KeyInv, ResetOK, ResetState
  <2>2. \A c \in Conns : ConnMem(c)'
      BY <1>1, OutdatedConn, MainIsNoConn DEF FilterTruncates, MemInv
  <2>3. Main \notin overlap' => Missing(reset.list) \subseteq excused
      BY <1>1, FreshFilterForgetsTheExcused DEF FilterTruncates, Outdates
  <2>4. ResetMem'
      BY <1>1, <2>1, <2>3 DEF FilterTruncates, ResetMem, FilterFresh, RewriteFresh, Missing
  <2>5. KeysRemembered'
      BY <2>1 DEF KeysRemembered, Truncated
  <2> QED
      BY <2>2, <2>4, <2>5 DEF Mem
<1>2. CASE reset' = NoReset /\ Leaves(Main) /\ UNCHANGED file
  <2>1. Quiet
      BY <1>2, SameWriters DEF FilterTruncates, Quiet, NoReset
  <2>2. ResetMem'
      BY <1>2, RestingReset DEF NoReset
  <2>3. \A d \in Conns : d \notin overlap' => d \notin overlap
      BY <1>2, MainIsNoConn DEF Leaves
  <2> QED
      BY <1>2, <2>1, <2>2, <2>3, QuietConn, QuietFile DEF FilterTruncates, MemInv, Mem
<1> QED
    BY <1>1, <1>2 DEF FilterTruncates

LEMMA FilterWritesRemembers ==
    ASSUME MemInv, FilterWrites
    PROVE  Mem'
<1>1. (\A c \in Conns : ConnMem(c)') /\ ResetMem'
    BY ResetWrites DEF FilterWrites, NoReset
<1>2. Missing(reset.list) \subseteq Blames(Main, reset.list)
    BY DEF FilterWrites, Blames, MemInv, Mem, ResetMem, RewriteFresh
<1>3. KeysRemembered'
    BY <1>2 DEF FilterWrites, Lands, KeysRemembered, Missing
<1> QED
    BY <1>1, <1>3 DEF Mem

LEMMA KeyChangesRemembers ==
    ASSUME MemInv, NEW s \in Servers, NEW k \in Keys, KeyChanges(s, k)
    PROVE  Mem'
<1>1. Quiet
    BY SameWriters DEF KeyChanges, Quiet
<1> QED
    BY <1>1, QuietConn, QuietReset, QuietFile DEF KeyChanges, MemInv, Mem

LEMMA InitMem == HostKeyInit => Mem
<1> SUFFICES ASSUME HostKeyInit PROVE Mem
    OBVIOUS
<1>1. \A c \in Conns : ConnMem(c)
    BY DEF HostKeyInit, NoConn, ConnMem, AddFresh, WriteFresh, LineHeld, OrphanStale
<1>2. ResetMem
    BY DEF HostKeyInit, NoReset, ResetMem, FilterFresh, RewriteFresh
<1>3. KeysRemembered
    BY DEF HostKeyInit, KeysRemembered, Missing
<1> QED
    BY <1>1, <1>2, <1>3 DEF Mem

LEMMA StepMemInv == MemInv /\ [HostKeyNext]_hostKeyVars => MemInv'
<1> SUFFICES ASSUME MemInv, [HostKeyNext]_hostKeyVars PROVE MemInv'
    OBVIOUS
<1>1. KeyInv'
    BY StepKeyInv DEF MemInv
<1>2. ASSUME UNCHANGED hostKeyVars
      PROVE  Mem'
  <2>1. Quiet
      BY <1>2, SameWriters DEF hostKeyVars, Quiet
  <2> QED
      BY <1>2, <2>1, QuietConn, QuietReset, QuietFile DEF hostKeyVars, MemInv, Mem
<1>3. ASSUME HostKeyNext
      PROVE  Mem'
    BY <1>3, HandshakeRemembers, CheckRemembers, AddBeginsRemembers, AddEndsRemembers,
       AddsInVainRemembers,
       ResetRemembers, KeygenReadsRemembers, KeygenReplacesRemembers, FilterReadsRemembers,
       FilterTruncatesRemembers, FilterWritesRemembers, KeyChangesRemembers DEF HostKeyNext
<1> QED
    BY <1>1, <1>2, <1>3 DEF MemInv

LEMMA MemInvariant == HostKeySpec => []MemInv
<1>1. HostKeyInit => MemInv
    BY InitKeyInv, InitMem DEF MemInv
<1> QED
    BY <1>1, StepMemInv, PTL DEF HostKeySpec

(* Nobody locks known_hosts: a key accepted once is nevertheless in the     *)
(* file whenever the file is whole, unless the server was reset, a write    *)
(* failed or went to a file since replaced, or a list that another writer   *)
(* had outdated was put back (check_host_key, reset_host_key).              *)
THEOREM AcceptedKeysRemembered == HostKeySpec => []KeysRemembered
<1>1. MemInv => KeysRemembered
    BY DEF MemInv, Mem
<1> QED
    BY <1>1, MemInvariant, PTL

(* A key is trusted only by a match, or by the thread that adds it.         *)
LEMMA OnlyTheseTrust ==
    ASSUME MemInv, HostKeyNext, NEW s \in Servers, trusted'[s] # trusted[s]
    PROVE  \/ \E l \in Concern(s) : l.key = trusted'[s]
           \/ \E c \in Conns : conn[c].ph \in {"write", "orphan"} /\ conn[c].srv = s
<1>1. trusted \in [Servers -> Keys \cup {None}]
    BY DEF MemInv, KeyInv, HistOK
<1>2. ASSUME NEW c \in Conns, Accepted(c)
      PROVE  conn[c].srv = s /\ trusted'[s] = conn[c].key
    BY <1>1, <1>2 DEF Accepted
<1>3. ASSUME NEW c \in Conns, Check(c)
      PROVE  \E l \in Concern(s) : l.key = trusted'[s]
    BY <1>2, <1>3 DEF Check
<1>4. ASSUME NEW c \in Conns, AddEnds(c) \/ AddsInVain(c)
      PROVE  conn[c].ph \in {"write", "orphan"} /\ conn[c].srv = s
    BY <1>2, <1>4 DEF AddEnds, AddsInVain
<1> QED
    BY <1>3, <1>4 DEF HostKeyNext, Handshake, AddBegins, ResetHostKey, KeygenReads, KeygenReplaces,
       FilterReads, FilterTruncates, FilterWrites, KeyChanges

(* Trust on first use, for every number of connections and resets: another  *)
(* key than the one accepted last is accepted only where that one was       *)
(* lawfully or unluckily removed, by a thread whose reading overlapped a    *)
(* write, or because the file already has it for the address                *)
(* (check_host_key).                                                        *)
THEOREM KeyChangesNoticed == HostKeySpec => KeyChangeNoticed
<1> DEFINE Noticed ==
       \A s \in Servers :
          trusted[s] # None /\ trusted'[s] # trusted[s] =>
              \/ s \in excused
              \/ \E c \in overlap : c # Main /\ conn[c].srv = s
              \/ \E l \in Concern(s) : l.key = trusted'[s]
<1>1. ASSUME MemInv, [HostKeyNext]_hostKeyVars
      PROVE  Noticed
  <2> SUFFICES ASSUME NEW s \in Servers, trusted[s] # None, trusted'[s] # trusted[s],
                      ~\E l \in Concern(s) : l.key = trusted'[s]
               PROVE  s \in excused \/ \E c \in overlap : c # Main /\ conn[c].srv = s
      OBVIOUS
  <2>1. HostKeyNext
      BY <1>1 DEF hostKeyVars
  <2>2. PICK c \in Conns : conn[c].ph \in {"write", "orphan"} /\ conn[c].srv = s
      BY <1>1, <2>1, OnlyTheseTrust
  <2>3. c \notin overlap => s \in excused
      BY <1>1, <2>2 DEF MemInv, Mem, ConnMem, WriteFresh, OrphanStale
  <2> QED
      BY <2>2, <2>3, MainIsNoConn
<1>2. MemInv /\ [HostKeyNext]_hostKeyVars => [Noticed]_hostKeyVars
    BY <1>1
<1>3. HostKeySpec => [][Noticed]_hostKeyVars
    BY <1>2, MemInvariant, PTL DEF HostKeySpec
<1> QED
    BY <1>3 DEF KeyChangeNoticed

=============================================================================
