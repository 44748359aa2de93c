----------------------------- MODULE KnownHosts -----------------------------
(***************************************************************************)
(* Host keys (ssh.rs: check_host_key, called by establish for the jump     *)
(* host and for the host, and reset_host_key).  Every connecting thread    *)
(* reads the whole of known_hosts, adds to its own list, truncates the     *)
(* file and writes the list from its start, whatever others have written   *)
(* there since; the reset command does so on the main thread.  No lock is  *)
(* involved.  Hashed lines and comments are left out; lines have any       *)
(* length, a list goes out whole or not at all, and what is left of a line *)
(* that was cut names no server.                                           *)
(***************************************************************************)
EXTENDS Naturals

CONSTANTS
    Conns,       \* connecting threads
    Servers,     \* servers saved as hosts
    Names,       \* the lines that concern a server: its own and its address's
    Line,        \* the line a first connection adds
    Keys,
    None,
    MaxChanges   \* bound: times a server gets another key

ASSUME HostKeyAssumption ==
    /\ Line \in [Servers -> UNION {Names[s] : s \in Servers}]
    /\ \A s \in Servers : Line[s] \in Names[s]
    /\ None \notin Keys \cup Servers \cup Conns
    /\ MaxChanges \in Nat

VARIABLES
    file,     \* known_hosts: a set of lines
    key,      \* the key each server presents
    conn,     \* the check each thread is at
    reset,    \* the reset command
    changes,
    trusted,  \* history: the key of the last accepted connection to a server
    overlap,  \* history: holders of a list since, or at, whose reading another one wrote
    excused,  \* history: servers whose line was lawfully or unluckily removed
    patched   \* history: names of lines that another's write did not reach

hostKeyVars == <<file, key, conn, reset, changes, trusted, overlap, excused, patched>>

Lines == [name : UNION {Names[s] : s \in Servers}, key : Keys]

NoConn == [ph |-> "idle", srv |-> None, key |-> None, list |-> {}]
NoReset == [ph |-> "idle", names |-> {}, list |-> {}]

Main == None

HostKeyInit ==
    /\ file = {}
    /\ key \in [Servers -> Keys]
    /\ conn = [c \in Conns |-> NoConn]
    /\ reset = NoReset
    /\ changes = 0
    /\ trusted = [s \in Servers |-> None]
    /\ overlap = {}
    /\ excused = {}
    /\ patched = {}

-----------------------------------------------------------------------------
(* Readers, writers, and what they do to each other *)

(* Somebody has truncated the file, which is still the file of that name,   *)
(* and not yet written it.                                                  *)
Truncated == reset.ph = "write" \/ \E c \in Conns : conn[c].ph = "write"

(* Those who hold a list they have read.                                    *)
Holders == {c \in Conns : conn[c].ph \in {"add", "write", "orphan"}}
              \cup (IF reset.ph \in {"replace", "truncate", "write"} THEN {Main} ELSE {})

Reads(r) == overlap' = IF Truncated THEN overlap \cup {r} ELSE overlap \ {r}

(* w changes the file: whoever else has read it is out of date.             *)
Outdates(w) == overlap' = overlap \cup (Holders \ {w})

(* w is done with its list, having written it or not.                       *)
Writes(w) == overlap' = (overlap \cup Holders) \ {w}

Leaves(w) == overlap' = overlap \ {w}

(* The servers that a list has no accepted key of.                          *)
Missing(list) ==
    {s \in Servers : trusted[s] # None /\ ~\E l \in list : l.name \in Names[s] /\ l.key = trusted[s]}

Blames(w, list) == IF w \in overlap THEN excused \cup Missing(list) ELSE excused

(* The lines are written from the start of the file.  What another one has  *)
(* written there since the truncation, and is longer, stays behind them.    *)
Lands(lines) ==
    \E rest \in SUBSET file :
        /\ file' = lines \cup rest
        /\ patched' = patched \cup {l.name : l \in rest \ lines}

-----------------------------------------------------------------------------
(* check_host_key *)

(* establish has connected and shaken hands: the server's key is known.     *)
Handshake(c, s) ==
    /\ conn[c].ph = "idle"
    /\ conn' = [conn EXCEPT ![c] = [NoConn EXCEPT !.ph = "check", !.srv = s, !.key = key[s]]]
    /\ UNCHANGED <<file, key, reset, changes, trusted, overlap, excused, patched>>

(* Known_hosts::check_port: any line of the server with the key it has is a *)
(* match, even if another one disagrees.                                    *)
Concern(s) == {l \in file : l.name \in Names[s]}

Accepted(c) == trusted' = [trusted EXCEPT ![conn[c].srv] = conn[c].key]

(* Mutant: an unknown key counts as a first connection.                     *)
UnknownKey(s, k) == \A l \in Concern(s) : l.key # k

(* NotFound: no line concerns the server.                                   *)
Unknown(s, k) == Concern(s) = {}

(* Match; NotFound, a list with one line more; Mismatch, or unreadable.     *)
Check(c) ==
    /\ conn[c].ph = "check"
    /\ LET s == conn[c].srv
           k == conn[c].key
       IN  \/ /\ \E l \in Concern(s) : l.key = k
              /\ conn' = [conn EXCEPT ![c] = NoConn]
              /\ Accepted(c)
              /\ excused' = IF reset.ph = "idle" THEN excused \ {s} ELSE excused
              /\ UNCHANGED overlap
           \/ /\ Unknown(s, k)
              /\ conn' = [conn EXCEPT ![c].ph = "add",
                                      ![c].list = file \cup {[name |-> Line[s], key |-> k]}]
              /\ Reads(c)
              /\ UNCHANGED <<trusted, excused>>
           \/ /\ conn' = [conn EXCEPT ![c] = NoConn]
              /\ UNCHANGED <<trusted, overlap, excused>>
    /\ UNCHANGED <<file, key, reset, changes, patched>>

(* write_file opens and truncates the file, or cannot.                      *)
AddBegins(c) ==
    /\ conn[c].ph = "add"
    /\ \/ /\ file' = {}
          /\ conn' = [conn EXCEPT ![c].ph = "write"]
          /\ Outdates(c)
       \/ /\ conn' = [conn EXCEPT ![c] = NoConn]
          /\ Leaves(c)
          /\ UNCHANGED file
    /\ UNCHANGED <<key, reset, changes, trusted, excused, patched>>

(* Mutant: the connection is accepted although its key was not stored.      *)
AddEndsRegardless(c) ==
    /\ conn[c].ph = "write"
    /\ \/ Lands(conn[c].list) /\ excused' = Blames(c, conn[c].list) \ {conn[c].srv}
       \/ UNCHANGED <<file, patched>> /\ excused' = Servers \ {conn[c].srv}
    /\ Accepted(c)
    /\ Writes(c)
    /\ conn' = [conn EXCEPT ![c] = NoConn]
    /\ UNCHANGED <<key, reset, changes>>

(* The list is written, and the connection accepted; or the write fails and *)
(* with it the connection, and what was known is gone.                      *)
AddEnds(c) ==
    /\ conn[c].ph = "write"
    /\ \/ /\ Lands(conn[c].list)
          /\ Accepted(c)
          /\ excused' = Blames(c, conn[c].list) \ {conn[c].srv}
       \/ /\ UNCHANGED <<file, trusted, patched>>
          /\ excused' = Servers
    /\ Writes(c)
    /\ conn' = [conn EXCEPT ![c] = NoConn]
    /\ UNCHANGED <<key, reset, changes>>

(* The file that was truncated is no longer the one of that name: the list  *)
(* goes nowhere, and the connection is accepted all the same, or the write  *)
(* fails.                                                                   *)
AddsInVain(c) ==
    /\ conn[c].ph = "orphan"
    /\ \/ Accepted(c) /\ excused' = excused \cup {conn[c].srv}
       \/ UNCHANGED <<trusted, excused>>
    /\ Leaves(c)
    /\ conn' = [conn EXCEPT ![c] = NoConn]
    /\ UNCHANGED <<file, key, reset, changes, patched>>

-----------------------------------------------------------------------------
(* reset_host_key, one at a time: a port other than 22 has two patterns     *)

Without(names) == {l \in file : l.name \notin names}

Forgotten(names) == {s \in Servers : Names[s] \cap names # {}}

ResetHostKey(s) ==
    /\ reset.ph = "idle"
    /\ reset' = [NoReset EXCEPT !.ph = "read", !.names = Names[s]]
    /\ UNCHANGED <<file, key, conn, changes, trusted, overlap, excused, patched>>

(* ssh-keygen -R, once per pattern: it reads the file, ...                  *)
KeygenReads ==
    /\ reset.ph = "read"
    /\ \E n \in reset.names :
          reset' = [reset EXCEPT !.ph = "replace", !.names = @ \ {n}, !.list = Without({n})]
    /\ excused' = excused \cup Forgotten(reset.names)
    /\ Reads(Main)
    /\ UNCHANGED <<file, key, conn, changes, trusted, patched>>

(* ... and renames a new one over it, so that those about to write the old  *)
(* one write to a file without a name; or it finds nothing, or fails.       *)
KeygenReplaces ==
    /\ reset.ph = "replace"
    /\ \/ /\ file' = reset.list
          /\ conn' = [c \in Conns |->
                          IF conn[c].ph = "write" THEN [conn[c] EXCEPT !.ph = "orphan"] ELSE conn[c]]
       \/ UNCHANGED <<file, conn>>
    /\ excused' = Blames(Main, reset.list)
    /\ Writes(Main)
    /\ reset' = IF reset.names = {} THEN NoReset ELSE [reset EXCEPT !.ph = "read", !.list = {}]
    /\ UNCHANGED <<key, changes, trusted, patched>>

(* Without ssh-keygen all patterns are filtered at once, ...                *)
FilterReads ==
    /\ reset.ph = "read"
    /\ reset' = [reset EXCEPT !.ph = "truncate", !.names = {}, !.list = Without(reset.names)]
    /\ excused' = excused \cup Forgotten(reset.names)
    /\ Reads(Main)
    /\ UNCHANGED <<file, key, conn, changes, trusted, patched>>

(* ... and fs::write truncates the file and writes it.                      *)
FilterTruncates ==
    /\ reset.ph = "truncate"
    /\ \/ file' = {} /\ reset' = [reset EXCEPT !.ph = "write"] /\ Outdates(Main)
       \/ reset' = NoReset /\ Leaves(Main) /\ UNCHANGED file
    /\ UNCHANGED <<key, conn, changes, trusted, excused, patched>>

FilterWrites ==
    /\ reset.ph = "write"
    /\ reset' = NoReset
    /\ \/ Lands(reset.list) /\ excused' = Blames(Main, reset.list)
       \/ UNCHANGED <<file, patched>> /\ excused' = Servers
    /\ Writes(Main)
    /\ UNCHANGED <<key, conn, changes, trusted>>

-----------------------------------------------------------------------------
(* A server is installed anew, or somebody else answers in its place.       *)
KeyChanges(s, k) ==
    /\ changes < MaxChanges
    /\ k # key[s]
    /\ changes' = changes + 1
    /\ key' = [key EXCEPT ![s] = k]
    /\ UNCHANGED <<file, conn, reset, trusted, overlap, excused, patched>>

HostKeyNext ==
    \/ \E c \in Conns : Check(c) \/ AddBegins(c) \/ AddEnds(c) \/ AddsInVain(c)
    \/ \E c \in Conns, s \in Servers : Handshake(c, s)
    \/ \E s \in Servers : ResetHostKey(s)
    \/ KeygenReads \/ KeygenReplaces \/ FilterReads \/ FilterTruncates \/ FilterWrites
    \/ \E s \in Servers, k \in Keys : KeyChanges(s, k)

HostKeySpec == HostKeyInit /\ [][HostKeyNext]_hostKeyVars

-----------------------------------------------------------------------------
(* Properties *)

HostKeyTypeOK ==
    /\ file \subseteq Lines
    /\ key \in [Servers -> Keys]
    /\ conn \in [Conns -> [ph : {"idle", "check", "add", "write", "orphan"}, srv : Servers \cup {None},
                           key : Keys \cup {None}, list : SUBSET Lines]]
    /\ reset \in [ph : {"idle", "read", "replace", "truncate", "write"},
                  names : SUBSET UNION {Names[s] : s \in Servers}, list : SUBSET Lines]
    /\ changes \in 0..MaxChanges
    /\ trusted \in [Servers -> Keys \cup {None}]
    /\ overlap \subseteq Conns \cup {Main}
    /\ excused \subseteq Servers
    /\ patched \subseteq UNION {Names[s] : s \in Servers}

(* Two connections and a reset that overlap rewrite the file from lists     *)
(* they read at different times.  Still a name never gets two keys, which   *)
(* would make both of them acceptable (check_host_key adds only NotFound),  *)
(* but where two of them have truncated the file before either wrote it and *)
(* the shorter list, written last, leaves the name's line behind it.        *)
OneKeyPerName ==
    \A l, m \in file : l.name = m.name /\ l.name \notin patched => l.key = m.key

(* The key of an accepted connection stays in the file until the server or  *)
(* another one of its address is reset, a write fails or goes to a file     *)
(* that was replaced, or a writer whose reading overlaps another write puts *)
(* back a list without it.                                                  *)
KeysRemembered == ~Truncated => Missing(file) \subseteq excused

(* The documentation promises trust on first use: another key than the one  *)
(* accepted last is accepted only if the accepted one was removed in one of *)
(* these ways, or read during a write, or if the file has the new key under *)
(* a name of the same address.                                              *)
KeyChangeNoticed ==
    [][\A s \in Servers :
          trusted[s] # None /\ trusted'[s] # trusted[s] =>
              \/ s \in excused
              \/ \E c \in overlap : c # Main /\ conn[c].srv = s
              \/ \E l \in Concern(s) : l.key = trusted'[s]]_hostKeyVars

=============================================================================
