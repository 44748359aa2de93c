----------------------------- MODULE HostStore -----------------------------
(***************************************************************************)
(* The host store (hosts.rs) with the OS keyring (secrets.rs), hosts.json  *)
(* and what happens behind its back: the process dies; a connecting thread *)
(* re-stores a secret in the keyring after a prompt (ssh.rs, `heal`); a    *)
(* file tab saves the copy of the host it has held since it was opened     *)
(* (main.js, the bookmark star).  The commands run one at a time on the    *)
(* main thread.  Of a host only its id and authentication matter here.     *)
(***************************************************************************)
EXTENDS Naturals

CONSTANTS
    Ids,       \* host ids, in the order of use: none is used twice
    Secrets,   \* what a user may type
    Fields,    \* the secret fields an authentication may have
    None,
    Clients,   \* which of the two clients there are: "connection", "tab"
    MaxCrashes \* bound: times the process dies

ASSUME StoreAssumption ==
    /\ None \notin Secrets /\ None \notin Ids
    /\ Fields \subseteq {"password", "passphrase"}
    /\ Clients \subseteq {"connection", "tab"}
    /\ MaxCrashes \in Nat

VARIABLES
    hosts,      \* HostStore.hosts: id -> authentication
    disk,       \* hosts.json: a list of hosts, or Torn
    keyring,    \* <<id, field>> -> secret or None
    available,  \* a keyring backend answers
    writing,    \* persist() has truncated the file and not written it yet
    unsaved,    \* the last persist() failed: memory is ahead of the file
    used,       \* history: ids ever given out
    deleted,    \* history: ids whose delete_host has run
    stranded,   \* history: ids whose entry has stayed, or come back, without its host
    conn,       \* the connection being made: host as it was, and what was typed
    tab,        \* the file tab: the host as it was when the tab last saw it
    crashes

storeVars == <<hosts, disk, keyring, available, writing, unsaved, used, deleted,
               stranded, conn, tab, crashes>>
histVars == <<used, deleted, stranded>>
clientVars == <<conn, tab>>

(* A secret field holds nothing, the text itself, or the marker of an entry.*)
Plain(s) == [form |-> "plain", of |-> s]
Marker(id, f) == [form |-> "marker", of |-> <<id, f>>]
Empty == [form |-> "none", of |-> None]

Slots == {Empty} \cup {Plain(s) : s \in Secrets} \cup {Marker(id, f) : id \in Ids, f \in Fields}

(* AuthMethod: "agent" has no secret field.                                 *)
Auth == [field : Fields \cup {"agent"}, slot : Slots]

Torn == [torn |-> TRUE]

NoHosts == [id \in {} |-> Empty]

StoreInit ==
    /\ hosts = NoHosts
    /\ disk = NoHosts
    /\ keyring = [k \in Ids \X Fields |-> None]
    /\ available \in BOOLEAN
    /\ writing = FALSE
    /\ unsaved = FALSE
    /\ used = {} /\ deleted = {} /\ stranded = {}
    /\ conn = None /\ tab = None
    /\ crashes = 0

-----------------------------------------------------------------------------
(* secrets.rs *)

(* load: the entry behind a marker, if a backend answers and has it.        *)
Resolve(slot) ==
    CASE slot.form = "plain"  -> slot.of
      [] slot.form = "marker" -> IF available THEN keyring[slot.of] ELSE None
      [] OTHER                -> None

(* Mutant: the marker is written whether or not a backend took the text.    *)
ProtectBlindly(id, auth) ==
    /\ hosts' = [i \in DOMAIN hosts \cup {id} |->
                    IF i # id THEN hosts[i]
                    ELSE IF auth.slot.form # "plain" THEN auth
                    ELSE [auth EXCEPT !.slot = Marker(id, auth.field)]]
    /\ keyring' = IF auth.slot.form = "plain" /\ available
                  THEN [keyring EXCEPT ![<<id, auth.field>>] = auth.slot.of] ELSE keyring

(* protect: plain text goes to the keyring under the host's own key; with   *)
(* no backend it stays as it is.                                            *)
Protect(id, auth) ==
    IF auth.slot.form = "plain" /\ available
    THEN /\ keyring' = [keyring EXCEPT ![<<id, auth.field>>] = auth.slot.of]
         /\ hosts' = [i \in DOMAIN hosts \cup {id} |->
                         IF i = id THEN [auth EXCEPT !.slot = Marker(id, auth.field)]
                         ELSE hosts[i]]
    ELSE /\ hosts' = [i \in DOMAIN hosts \cup {id} |-> IF i = id THEN auth ELSE hosts[i]]
         /\ UNCHANGED keyring

-----------------------------------------------------------------------------
(* persist: create the directory and truncate the file, then write it.      *)

PersistBegins ==
    \/ disk' = Torn /\ writing' = TRUE /\ UNCHANGED unsaved
    \/ UNCHANGED <<disk, writing>> /\ unsaved' = TRUE

PersistEnds ==
    /\ writing
    /\ writing' = FALSE
    /\ \/ disk' = hosts /\ unsaved' = FALSE
       \/ UNCHANGED disk /\ unsaved' = TRUE
    /\ UNCHANGED <<hosts, keyring, available, histVars, clientVars, crashes>>

-----------------------------------------------------------------------------
(* The commands *)

(* What the form or a copy sends: a field, and a text or nothing.           *)
Typed == [field : Fields \cup {"agent"}, slot : {Empty} \cup {Plain(s) : s \in Secrets}]

ValidAuth(a) == a.field = "agent" => a.slot = Empty

(* save_host of a new host: upsert gives it a fresh id.                     *)
SaveNew(id, auth) ==
    /\ ~writing
    /\ id \notin used
    /\ used' = used \cup {id}
    /\ Protect(id, auth)
    /\ PersistBegins
    /\ UNCHANGED <<available, deleted, stranded, clientVars, crashes>>

(* Mutant: a blank secret clears the stored one.                            *)
KeptBlank(old, new) == new

(* A blank secret keeps the stored one if the kind has not changed.         *)
Kept(old, new) ==
    IF new.slot = Empty /\ new.field = old.field THEN old ELSE new

(* save_host of an existing host.                                           *)
SaveEdit(id, auth) ==
    /\ ~writing
    /\ id \in DOMAIN hosts
    /\ Protect(id, Kept(hosts[id], auth))
    /\ PersistBegins
    /\ UNCHANGED <<available, histVars, clientVars, crashes>>

(* Mutant: the copy keeps the original's marker.                            *)
DuplicateShares(id, copy) ==
    /\ ~writing
    /\ id \in DOMAIN hosts
    /\ copy \notin used
    /\ used' = used \cup {copy}
    /\ Protect(copy, hosts[id])
    /\ PersistBegins
    /\ UNCHANGED <<available, deleted, stranded, clientVars, crashes>>

(* Mutant: the copy takes what the marker resolves to, if to anything.      *)
DuplicateUnchecked(id, copy) ==
    /\ ~writing
    /\ id \in DOMAIN hosts
    /\ copy \notin used
    /\ used' = used \cup {copy}
    /\ Protect(copy, [hosts[id] EXCEPT !.slot = IF @ = Empty THEN Empty ELSE Plain(Resolve(@))])
    /\ PersistBegins
    /\ UNCHANGED <<available, deleted, stranded, clientVars, crashes>>

(* duplicate_host: the marker is resolved first, so that the copy gets an   *)
(* entry of its own; what does not resolve is left blank.                   *)
Duplicate(id, copy) ==
    /\ ~writing
    /\ id \in DOMAIN hosts
    /\ copy \notin used
    /\ used' = used \cup {copy}
    /\ LET s == Resolve(hosts[id].slot)
       IN  Protect(copy, [hosts[id] EXCEPT !.slot = IF s = None THEN Empty ELSE Plain(s)])
    /\ PersistBegins
    /\ UNCHANGED <<available, deleted, stranded, clientVars, crashes>>

HasEntry(id) == \E f \in Fields : keyring[<<id, f>>] # None

(* History: with no backend the entries stay.                               *)
Strands(id) ==
    stranded' = IF available \/ ~HasEntry(id) THEN stranded \ {id} ELSE stranded \cup {id}

(* Mutant: the deletion is not written.                                     *)
DeleteUnsaved(id) ==
    /\ ~writing
    /\ id \in DOMAIN hosts
    /\ keyring' = IF available THEN [k \in Ids \X Fields |-> IF k[1] = id THEN None ELSE keyring[k]]
                  ELSE keyring
    /\ hosts' = [i \in DOMAIN hosts \ {id} |-> hosts[i]]
    /\ deleted' = deleted \cup {id}
    /\ Strands(id)
    /\ UNCHANGED <<disk, writing, unsaved, available, used, clientVars, crashes>>

(* Mutant: only the entry of the authentication in use is deleted.          *)
DeleteInUse(id) ==
    /\ ~writing
    /\ id \in DOMAIN hosts
    /\ keyring' = IF available /\ hosts[id].field \in Fields
                  THEN [keyring EXCEPT ![<<id, hosts[id].field>>] = None] ELSE keyring
    /\ hosts' = [i \in DOMAIN hosts \ {id} |-> hosts[i]]
    /\ deleted' = deleted \cup {id}
    /\ Strands(id)
    /\ PersistBegins
    /\ UNCHANGED <<available, used, clientVars, crashes>>

(* delete_host, after the sessions: both keyring entries, then the host.    *)
Delete(id) ==
    /\ ~writing
    /\ id \in DOMAIN hosts
    /\ keyring' = IF available THEN [k \in Ids \X Fields |-> IF k[1] = id THEN None ELSE keyring[k]]
                  ELSE keyring
    /\ hosts' = [i \in DOMAIN hosts \ {id} |-> hosts[i]]
    /\ deleted' = deleted \cup {id}
    /\ Strands(id)
    /\ PersistBegins
    /\ UNCHANGED <<available, used, clientVars, crashes>>

-----------------------------------------------------------------------------
(* Behind its back *)

(* The thread of a connection works on a clone of the host.                *)
ConnectBegins(id) ==
    /\ "connection" \in Clients /\ conn = None
    /\ id \in DOMAIN hosts
    /\ hosts[id].slot.form = "marker"
    /\ conn' = [id |-> id, auth |-> hosts[id], typed |-> None]
    /\ UNCHANGED <<hosts, disk, keyring, available, writing, unsaved, histVars, tab, crashes>>

(* Its marker does not resolve: the user types the secret.                  *)
AskLost(s) ==
    /\ conn # None
    /\ conn.typed = None
    /\ Resolve(conn.auth.slot) = None
    /\ conn' = [conn EXCEPT !.typed = s]
    /\ UNCHANGED <<hosts, disk, keyring, available, writing, unsaved, histVars, tab, crashes>>

(* It authenticates and re-stores what was typed, or it fails.              *)
ConnectEnds ==
    /\ conn # None
    /\ conn' = None
    /\ \/ /\ conn.typed # None
          /\ available
          /\ keyring' = [keyring EXCEPT ![<<conn.id, conn.auth.field>>] = conn.typed]
          /\ stranded' = stranded \cup ({conn.id} \ DOMAIN hosts)
       \/ UNCHANGED <<keyring, stranded>>
    /\ UNCHANGED <<hosts, disk, available, writing, unsaved, used, deleted, tab, crashes>>

(* A file tab opens with the sidebar's copy of the host, and closes.        *)
OpenTab(id) ==
    /\ "tab" \in Clients /\ tab = None
    /\ id \in DOMAIN hosts
    /\ tab' = [id |-> id, auth |-> hosts[id]]
    /\ UNCHANGED <<hosts, disk, keyring, available, writing, unsaved, histVars, conn, crashes>>

CloseTab ==
    /\ tab # None
    /\ tab' = None
    /\ UNCHANGED <<hosts, disk, keyring, available, writing, unsaved, histVars, conn, crashes>>

(* The star: save_host with the tab's copy, which upsert takes even when    *)
(* the host is gone; an error leaves the tab with the copy it had.          *)
Star ==
    /\ tab # None
    /\ ~writing
    /\ Protect(tab.id, IF tab.id \in DOMAIN hosts THEN Kept(hosts[tab.id], tab.auth) ELSE tab.auth)
    /\ PersistBegins
    /\ tab' \in {tab, [id |-> tab.id, auth |-> hosts'[tab.id]]}
    /\ UNCHANGED <<available, histVars, conn, crashes>>

(* The keyring is locked, or unlocked.                                      *)
KeyringToggles ==
    /\ available' = ~available
    /\ UNCHANGED <<hosts, disk, keyring, writing, unsaved, histVars, clientVars, crashes>>

(* The process dies and starts again: load() takes what cannot be parsed    *)
(* for an empty list.                                                       *)
Crash ==
    /\ crashes < MaxCrashes
    /\ crashes' = crashes + 1
    /\ hosts' = IF disk = Torn THEN NoHosts ELSE disk
    /\ writing' = FALSE
    /\ unsaved' = FALSE
    /\ conn' = None /\ tab' = None
    /\ stranded' = stranded \cup {id \in DOMAIN hosts \ DOMAIN hosts' : HasEntry(id)}
    /\ UNCHANGED <<disk, keyring, available, used, deleted>>

StoreNext ==
    \/ PersistEnds \/ KeyringToggles \/ Crash \/ ConnectEnds \/ CloseTab \/ Star
    \/ \E id \in Ids : Delete(id) \/ ConnectBegins(id) \/ OpenTab(id)
    \/ \E s \in Secrets : AskLost(s)
    \/ \E id \in Ids, a \in Typed : ValidAuth(a) /\ (SaveNew(id, a) \/ SaveEdit(id, a))
    \/ \E id, copy \in Ids : Duplicate(id, copy)

StoreSpec == StoreInit /\ [][StoreNext]_storeVars

-----------------------------------------------------------------------------
(* Properties *)

StoreTypeOK ==
    /\ DOMAIN hosts \subseteq Ids
    /\ \A id \in DOMAIN hosts : hosts[id] \in Auth /\ ValidAuth(hosts[id])
    /\ disk = Torn \/ (DOMAIN disk \subseteq Ids /\ \A id \in DOMAIN disk : disk[id] \in Auth)
    /\ keyring \in [Ids \X Fields -> Secrets \cup {None}]
    /\ <<available, writing, unsaved>> \in BOOLEAN \X BOOLEAN \X BOOLEAN
    /\ used \subseteq Ids /\ deleted \subseteq used /\ stranded \subseteq Ids
    /\ conn # None => conn \in [id : Ids, auth : Auth, typed : Secrets \cup {None}]
    /\ tab # None => tab \in [id : Ids, auth : Auth]
    /\ crashes \in 0..MaxCrashes

(* hosts.json is what a restart would restore, unless a write is under way, *)
(* has failed, or was cut by a crash (then the store starts empty and       *)
(* agrees with nothing until the next save).                                *)
DiskMatches ==
    ~writing /\ ~unsaved /\ disk # Torn => disk = hosts

(* A marker names an entry of its own host: deleting the original of a      *)
(* duplicate leaves the copy its secret (HostStore::duplicate).             *)
MarkersAreOwn ==
    \A id \in DOMAIN hosts :
        hosts[id].slot.form = "marker" => hosts[id].slot.of = <<id, hosts[id].field>>

(* A saved secret is never lost by the store: a marker has its entry.  The  *)
(* exception is a host that came back after delete_host: from disk, when    *)
(* the deletion was not written, or from a tab that still held it.          *)
MarkersHaveEntries ==
    \A id \in DOMAIN hosts :
        hosts[id].slot.form = "marker" =>
            keyring[hosts[id].slot.of] # None \/ id \in deleted

(* The other direction: a secret outlives its host in the keyring only if   *)
(* the keyring did not answer when the host was deleted, if a connection    *)
(* that had begun before stored it again (authenticate's `heal`), or if the *)
(* host itself went in a crash.  Deleting a host takes the entries of       *)
(* authentications it no longer uses (secrets::delete_host).                *)
NoOtherLeftovers ==
    \A id \in Ids \ DOMAIN hosts, f \in Fields : keyring[<<id, f>>] # None => id \in stranded

(* A save with a blank secret field keeps the stored secret                 *)
(* (save_host in the README's table).                                       *)
BlankKeepsSecret ==
    [][\A id \in DOMAIN hosts \cap DOMAIN hosts' :
          (hosts'[id].field = hosts[id].field /\ hosts[id].slot # Empty /\ crashes' = crashes)
              => hosts'[id].slot # Empty]_storeVars

=============================================================================
