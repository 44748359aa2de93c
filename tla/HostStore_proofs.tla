-------------------------- MODULE HostStore_proofs --------------------------
(***************************************************************************)
(* Theorems about the host store, for every set of ids, secrets and secret *)
(* fields and any number of crashes.                                       *)
(***************************************************************************)
EXTENDS HostStore, TLAPS

(* An authentication that host i may have under keyring kr when the hosts   *)
(* in del have been deleted: its marker, if any, is its own and has an      *)
(* entry.                                                                   *)
Good(a, i, kr, del) ==
    /\ a \in Auth /\ ValidAuth(a)
    /\ a.slot.form = "marker" =>
          a.slot.of = <<i, a.field>> /\ (kr[<<i, a.field>>] # None \/ i \in del)

GoodHosts(h, kr, del, us) ==
    /\ DOMAIN h \subseteq us
    /\ \A i \in DOMAIN h : Good(h[i], i, kr, del)

GoodTab(t, kr, del, us) ==
    t # None => t \in [id : Ids, auth : Auth] /\ t.id \in us /\ Good(t.auth, t.id, kr, del)

Keyrings == [Ids \X Fields -> Secrets \cup {None}]

(* Hosts come back from the file and from a tab: what is good of those in   *)
(* memory must be good of all three copies.                                 *)
StoreInv ==
    /\ keyring \in Keyrings
    /\ used \subseteq Ids /\ deleted \subseteq used
    /\ GoodHosts(hosts, keyring, deleted, used)
    /\ disk = Torn \/ GoodHosts(disk, keyring, deleted, used)
    /\ GoodTab(tab, keyring, deleted, used)
    /\ conn # None => conn \in [id : Ids, auth : Auth, typed : Secrets \cup {None}]
    /\ crashes \in 0..MaxCrashes

-----------------------------------------------------------------------------
(* Slots *)

LEMMA SlotKinds ==
    /\ Empty \in Slots /\ Empty.form = "none"
    /\ \A s \in Secrets : Plain(s) \in Slots /\ Plain(s).form = "plain" /\ Plain(s).of = s
    /\ \A i \in Ids, f \in Fields :
          Marker(i, f) \in Slots /\ Marker(i, f).form = "marker" /\ Marker(i, f).of = <<i, f>>
<1>1. Empty \in Slots /\ Empty.form = "none"
    BY DEF Slots, Empty
<1>2. ASSUME NEW s \in Secrets
      PROVE  Plain(s) \in Slots /\ Plain(s).form = "plain" /\ Plain(s).of = s
    BY DEF Slots, Plain
<1>3. ASSUME NEW i \in Ids, NEW f \in Fields
      PROVE  Marker(i, f) \in Slots /\ Marker(i, f).form = "marker" /\ Marker(i, f).of = <<i, f>>
    BY DEF Slots, Marker
<1> QED
    BY <1>1, <1>2, <1>3

LEMMA SlotCases ==
    ASSUME NEW x \in Slots
    PROVE  \/ x = Empty
           \/ x.form = "plain" /\ x.of \in Secrets
           \/ x.form = "marker" /\ x.of \in Ids \X Fields
BY DEF Slots, Empty, Plain, Marker

LEMMA EmptyIsNoMarker ==
    /\ \A s \in Secrets : Plain(s) # Empty
    /\ \A i \in Ids, f \in Fields : Marker(i, f) # Empty
BY DEF Empty, Plain, Marker

(* Only agents have no field for a secret.                                  *)
LEMMA SecretHasField ==
    ASSUME NEW a \in Auth, ValidAuth(a), a.slot # Empty
    PROVE  a.field \in Fields
BY DEF Auth, ValidAuth

(* Replacing the secret.                                                    *)
LEMMA NewSlot ==
    ASSUME NEW a \in Auth, NEW x \in Slots
    PROVE  /\ [a EXCEPT !.slot = x] \in Auth
           /\ [a EXCEPT !.slot = x].slot = x
           /\ [a EXCEPT !.slot = x].field = a.field
BY DEF Auth

-----------------------------------------------------------------------------
(* The keyring only loses the entries of deleted hosts *)

Later(kr, kr2, del, del2) ==
    /\ del \subseteq del2
    /\ \A k \in Ids \X Fields : kr[k] # None => kr2[k] # None \/ k[1] \in del2

LEMMA GoodLater ==
    ASSUME NEW a, NEW i \in Ids, NEW kr, NEW kr2, NEW del, NEW del2,
           Good(a, i, kr, del), Later(kr, kr2, del, del2)
    PROVE  Good(a, i, kr2, del2)
<1>1. CASE a.slot.form = "marker"
  <2>1. a.field \in Fields
      BY <1>1, SlotKinds, SecretHasField DEF Good
  <2>2. <<i, a.field>> \in Ids \X Fields /\ <<i, a.field>>[1] = i
      BY <2>1
  <2> QED
      BY <1>1, <2>2 DEF Good, Later
<1> QED
    BY <1>1 DEF Good

(* What a command that changes the keyring and the ids in this way leaves   *)
(* of the three copies.                                                     *)
LEMMA CopiesStayGood ==
    ASSUME StoreInv, Later(keyring, keyring', deleted, deleted'), used \subseteq used'
    PROVE  /\ GoodHosts(hosts, keyring', deleted', used')
           /\ disk = Torn \/ GoodHosts(disk, keyring', deleted', used')
           /\ GoodTab(tab, keyring', deleted', used')
<1>1. ASSUME NEW h, GoodHosts(h, keyring, deleted, used)
      PROVE  GoodHosts(h, keyring', deleted', used')
    BY <1>1, GoodLater DEF StoreInv, GoodHosts
<1>2. GoodTab(tab, keyring', deleted', used')
    BY GoodLater DEF StoreInv, GoodTab
<1> QED
    BY <1>1, <1>2 DEF StoreInv

LEMMA SameKeyring ==
    ASSUME StoreInv, keyring' = keyring, deleted' = deleted
    PROVE  Later(keyring, keyring', deleted, deleted')
BY DEF Later

-----------------------------------------------------------------------------
(* protect *)

LEMMA ProtectKeeps ==
    ASSUME StoreInv, NEW id \in Ids, NEW a, Good(a, id, keyring, deleted), Protect(id, a)
    PROVE  /\ keyring' \in Keyrings
           /\ Later(keyring, keyring', deleted, deleted)
           /\ DOMAIN hosts' = DOMAIN hosts \cup {id}
           /\ \A i \in DOMAIN hosts' : Good(hosts'[i], i, keyring', deleted)
           /\ \A i \in DOMAIN hosts : i # id => hosts'[i] = hosts[i]
           /\ hosts'[id].field = a.field
           /\ a.slot # Empty => hosts'[id].slot # Empty
<1>1. CASE a.slot.form = "plain" /\ available
  <2> DEFINE k == <<id, a.field>>
             b == [a EXCEPT !.slot = Marker(id, a.field)]
  <2>1. a \in Auth /\ a.slot \in Slots /\ ValidAuth(a)
      BY DEF Good, Auth
  <2>2. a.slot # Empty /\ a.slot.of \in Secrets
      BY <1>1, <2>1, SlotKinds, SlotCases
  <2>3. a.field \in Fields
      BY <2>1, <2>2, SecretHasField
  <2>4. k \in Ids \X Fields
      BY <2>3
  <2>5. keyring' = [keyring EXCEPT ![k] = a.slot.of]
      BY <1>1 DEF Protect
  <2>6. hosts' = [i \in DOMAIN hosts \cup {id} |-> IF i = id THEN b ELSE hosts[i]]
      BY <1>1 DEF Protect
  <2>7. b \in Auth /\ b.slot = Marker(id, a.field) /\ b.field = a.field
      BY <2>1, <2>3, NewSlot, SlotKinds
  <2> HIDE DEF b, k
  <2>8. keyring' \in Keyrings
      BY <2>2, <2>4, <2>5 DEF StoreInv, Keyrings
  <2>9. keyring'[k] # None
      BY <2>2, <2>4, <2>5, StoreAssumption DEF StoreInv, Keyrings
  <2>10. Later(keyring, keyring', deleted, deleted)
      BY <2>2, <2>5, StoreAssumption DEF StoreInv, Keyrings, Later
  <2>11. Good(b, id, keyring', deleted)
    <3>1. ValidAuth(b)
        BY <2>3, <2>7, StoreAssumption DEF ValidAuth
    <3>2. b.slot.of = <<id, a.field>>
        BY <2>3, <2>7, SlotKinds
    <3>3. keyring'[<<id, a.field>>] # None
        BY <2>9 DEF k
    <3> QED
        BY <2>7, <3>1, <3>2, <3>3 DEF Good
  <2>12. \A i \in DOMAIN hosts : Good(hosts[i], i, keyring', deleted)
      BY <2>10, GoodLater DEF StoreInv, GoodHosts
  <2>13. DOMAIN hosts' = DOMAIN hosts \cup {id} /\ hosts'[id] = b
      BY <2>6
  <2>14. \A i \in DOMAIN hosts : i # id => hosts'[i] = hosts[i]
      BY <2>6
  <2>15. \A i \in DOMAIN hosts' : Good(hosts'[i], i, keyring', deleted)
      BY <2>11, <2>12, <2>13, <2>14
  <2>16. hosts'[id].field = a.field /\ hosts'[id].slot # Empty
      BY <2>3, <2>7, <2>13, EmptyIsNoMarker
  <2> QED
      BY <2>8, <2>10, <2>13, <2>14, <2>15, <2>16
<1>2. CASE ~(a.slot.form = "plain" /\ available)
  <2>1. /\ keyring' = keyring
        /\ hosts' = [i \in DOMAIN hosts \cup {id} |-> IF i = id THEN a ELSE hosts[i]]
      BY <1>2 DEF Protect
  <2>2. Later(keyring, keyring', deleted, deleted)
      BY <2>1 DEF Later
  <2>3. \A i \in DOMAIN hosts : Good(hosts[i], i, keyring, deleted)
      BY DEF StoreInv, GoodHosts
  <2>4. DOMAIN hosts' = DOMAIN hosts \cup {id} /\ hosts'[id] = a
      BY <2>1
  <2>5. \A i \in DOMAIN hosts : i # id => hosts'[i] = hosts[i]
      BY <2>1
  <2>6. \A i \in DOMAIN hosts' : Good(hosts'[i], i, keyring', deleted)
      BY <2>1, <2>3, <2>4, <2>5
  <2> QED
      BY <2>1, <2>2, <2>4, <2>5, <2>6 DEF StoreInv
<1> QED
    BY <1>1, <1>2

(* The command around it: a host is stored under an id that is, or becomes, *)
(* one of those given out, and the file is opened or not.                   *)
LEMMA StoringKeeps ==
    ASSUME StoreInv, NEW id \in Ids, NEW a, Good(a, id, keyring, deleted), Protect(id, a),
           deleted' = deleted, used \subseteq used', used' \subseteq Ids, id \in used',
           PersistBegins, crashes' = crashes, conn' = conn, GoodTab(tab', keyring', deleted', used')
    PROVE  StoreInv'
<1>1. /\ keyring' \in Keyrings
      /\ Later(keyring, keyring', deleted, deleted')
      /\ DOMAIN hosts' = DOMAIN hosts \cup {id}
      /\ \A i \in DOMAIN hosts' : Good(hosts'[i], i, keyring', deleted')
    BY ProtectKeeps
<1>2. disk = Torn \/ GoodHosts(disk, keyring', deleted', used')
    BY <1>1, CopiesStayGood
<1>3. disk' = Torn \/ GoodHosts(disk', keyring', deleted', used')
    BY <1>2 DEF PersistBegins
<1>4. GoodHosts(hosts', keyring', deleted', used')
    BY <1>1 DEF GoodHosts, StoreInv
<1> QED
    BY <1>1, <1>3, <1>4 DEF StoreInv

(* What is typed, and what a copy starts from, has no marker.               *)
LEMMA PlainIsGood ==
    ASSUME NEW a \in Auth, ValidAuth(a), a.slot.form # "marker", NEW i, NEW kr, NEW del
    PROVE  Good(a, i, kr, del)
BY DEF Good

LEMMA TypedIsGood ==
    ASSUME NEW a \in Typed, ValidAuth(a), NEW i
    PROVE  Good(a, i, keyring, deleted)
<1>1. a.slot = Empty \/ \E s \in Secrets : a.slot = Plain(s)
    BY DEF Typed
<1>2. a.slot \in Slots /\ a.slot.form # "marker"
    BY <1>1, SlotKinds
<1>3. a \in Auth
    BY <1>2 DEF Typed, Auth
<1> QED
    BY <1>2, <1>3, PlainIsGood

LEMMA TabStays ==
    ASSUME StoreInv, NEW id \in Ids, NEW a, Good(a, id, keyring, deleted), Protect(id, a),
           deleted' = deleted, used \subseteq used', tab' = tab
    PROVE  GoodTab(tab', keyring', deleted', used')
BY ProtectKeeps, CopiesStayGood

LEMMA SaveNewKeeps ==
    ASSUME StoreInv, NEW id \in Ids, NEW a \in Typed, ValidAuth(a), SaveNew(id, a)
    PROVE  StoreInv'
<1>1. Good(a, id, keyring, deleted)
    BY TypedIsGood
<1>2. /\ Protect(id, a) /\ PersistBegins
      /\ UNCHANGED <<deleted, crashes, conn, tab>>
      /\ used' = used \cup {id}
    BY DEF SaveNew, clientVars
<1>3. GoodTab(tab', keyring', deleted', used')
    BY <1>1, <1>2, TabStays
<1> QED
    BY <1>1, <1>2, <1>3, StoringKeeps DEF StoreInv

LEMMA KeptIsGood ==
    ASSUME StoreInv, NEW id \in DOMAIN hosts, NEW a, Good(a, id, keyring, deleted)
    PROVE  Good(Kept(hosts[id], a), id, keyring, deleted)
BY DEF Kept, StoreInv, GoodHosts

LEMMA SaveEditKeeps ==
    ASSUME StoreInv, NEW id \in Ids, NEW a \in Typed, ValidAuth(a), SaveEdit(id, a)
    PROVE  StoreInv'
<1> DEFINE b == Kept(hosts[id], a)
<1>1. id \in DOMAIN hosts /\ id \in used
    BY DEF SaveEdit, StoreInv, GoodHosts
<1>2. Good(b, id, keyring, deleted)
    BY <1>1, TypedIsGood, KeptIsGood
<1>3. /\ Protect(id, b) /\ PersistBegins
      /\ UNCHANGED <<deleted, crashes, conn, tab, used>>
    BY DEF SaveEdit, clientVars, histVars
<1> HIDE DEF b
<1>4. GoodTab(tab', keyring', deleted', used')
    BY <1>2, <1>3, TabStays
<1> QED
    BY <1>1, <1>2, <1>3, <1>4, StoringKeeps DEF StoreInv

(* The resolved secret is the text of a slot or the entry of the keyring.   *)
LEMMA ResolveTypes ==
    ASSUME StoreInv, NEW x \in Slots
    PROVE  Resolve(x) \in Secrets \cup {None}
<1>1. CASE x = Empty
    BY <1>1, SlotKinds DEF Resolve
<1>2. CASE x.form = "plain" /\ x.of \in Secrets
    BY <1>2 DEF Resolve
<1>3. CASE x.form = "marker" /\ x.of \in Ids \X Fields
    BY <1>3 DEF Resolve, StoreInv, Keyrings
<1> QED
    BY <1>1, <1>2, <1>3, SlotCases

LEMMA DuplicateKeeps ==
    ASSUME StoreInv, NEW id \in Ids, NEW copy \in Ids, Duplicate(id, copy)
    PROVE  StoreInv'
<1> DEFINE s == Resolve(hosts[id].slot)
           x == IF s = None THEN Empty ELSE Plain(s)
           a == [hosts[id] EXCEPT !.slot = x]
<1>1. hosts[id] \in Auth /\ ValidAuth(hosts[id])
    BY DEF Duplicate, StoreInv, GoodHosts, Good
<1>2. hosts[id].slot \in Slots
    BY <1>1 DEF Auth
<1>3. s \in Secrets \cup {None}
    BY <1>2, ResolveTypes
<1>4. hosts[id].slot = Empty => s = None
    BY SlotKinds DEF Resolve
<1>5. /\ Protect(copy, a) /\ PersistBegins
      /\ UNCHANGED <<deleted, crashes, conn, tab>>
      /\ used' = used \cup {copy}
    BY DEF Duplicate, clientVars
<1> HIDE DEF s
<1>6. x \in Slots /\ x.form # "marker"
    BY <1>3, SlotKinds
<1>7. hosts[id].slot = Empty => x = Empty
    BY <1>4
<1> HIDE DEF x
<1>8. a \in Auth /\ a.slot = x /\ a.field = hosts[id].field
    BY <1>1, <1>6, NewSlot
<1> HIDE DEF a
<1>9. ValidAuth(a)
    BY <1>1, <1>7, <1>8 DEF ValidAuth
<1>10. Good(a, copy, keyring, deleted)
    BY <1>6, <1>8, <1>9, PlainIsGood
<1>11. GoodTab(tab', keyring', deleted', used')
    BY <1>5, <1>10, TabStays
<1> QED
    BY <1>5, <1>10, <1>11, StoringKeeps DEF StoreInv

(* The star stores what the tab holds, and the tab takes what was stored.   *)
LEMMA StarKeeps ==
    ASSUME StoreInv, Star
    PROVE  StoreInv'
<1> DEFINE a == IF tab.id \in DOMAIN hosts THEN Kept(hosts[tab.id], tab.auth) ELSE tab.auth
<1>1. tab.id \in Ids /\ tab.id \in used /\ Good(tab.auth, tab.id, keyring, deleted)
    BY DEF Star, StoreInv, GoodTab
<1>2. Good(a, tab.id, keyring, deleted)
    BY <1>1, KeptIsGood
<1>3. /\ Protect(tab.id, a) /\ PersistBegins
      /\ UNCHANGED <<deleted, crashes, conn, used>>
      /\ tab' \in {tab, [id |-> tab.id, auth |-> hosts'[tab.id]]}
    BY DEF Star, histVars
<1> HIDE DEF a
<1>4. CASE tab' = tab
  <2>1. GoodTab(tab', keyring', deleted', used')
      BY <1>1, <1>2, <1>3, <1>4, TabStays
  <2> QED
      BY <1>1, <1>2, <1>3, <2>1, StoringKeeps DEF StoreInv
<1>5. CASE tab' = [id |-> tab.id, auth |-> hosts'[tab.id]]
  <2>1. Good(hosts'[tab.id], tab.id, keyring', deleted')
      BY <1>1, <1>2, <1>3, ProtectKeeps
  <2>2. GoodTab(tab', keyring', deleted', used')
      BY <1>1, <1>3, <1>5, <2>1 DEF GoodTab, Good
  <2> QED
      BY <1>1, <1>2, <1>3, <2>2, StoringKeeps DEF StoreInv
<1> QED
    BY <1>3, <1>4, <1>5

LEMMA DeleteKeeps ==
    ASSUME StoreInv, NEW id \in Ids, Delete(id)
    PROVE  StoreInv'
<1>1. keyring' \in Keyrings
    BY DEF Delete, StoreInv, Keyrings
<1>2. deleted' = deleted \cup {id} /\ id \in used /\ used' = used
    BY DEF Delete, StoreInv, GoodHosts
<1>3. Later(keyring, keyring', deleted, deleted')
    BY <1>2 DEF Delete, Later
<1>4. /\ GoodHosts(hosts, keyring', deleted', used')
      /\ disk = Torn \/ GoodHosts(disk, keyring', deleted', used')
      /\ GoodTab(tab, keyring', deleted', used')
    BY <1>2, <1>3, CopiesStayGood
<1>5. GoodHosts(hosts', keyring', deleted', used')
    BY <1>4 DEF Delete, GoodHosts
<1>6. disk' = Torn \/ GoodHosts(disk', keyring', deleted', used')
    BY <1>4 DEF Delete, PersistBegins
<1> QED
    BY <1>1, <1>2, <1>4, <1>5, <1>6 DEF Delete, StoreInv, clientVars

-----------------------------------------------------------------------------
(* Behind its back *)

LEMMA ConnectBeginsKeeps ==
    ASSUME StoreInv, NEW id \in Ids, ConnectBegins(id)
    PROVE  StoreInv'
<1>1. hosts[id] \in Auth
    BY DEF ConnectBegins, StoreInv, GoodHosts, Good
<1>2. conn' \in [id : Ids, auth : Auth, typed : Secrets \cup {None}]
    BY <1>1 DEF ConnectBegins
<1> QED
    BY <1>2 DEF ConnectBegins, StoreInv, histVars

LEMMA AskLostKeeps ==
    ASSUME StoreInv, NEW s \in Secrets, AskLost(s)
    PROVE  StoreInv'
<1>1. conn' \in [id : Ids, auth : Auth, typed : Secrets \cup {None}]
    BY DEF AskLost, StoreInv
<1> QED
    BY <1>1 DEF AskLost, StoreInv, histVars

(* What is put back in the keyring is a secret.                             *)
LEMMA ConnectEndsKeeps ==
    ASSUME StoreInv, ConnectEnds
    PROVE  StoreInv'
<1>1. conn.typed \in Secrets \cup {None}
    BY DEF ConnectEnds, StoreInv
<1>2. keyring' \in Keyrings
    BY <1>1 DEF ConnectEnds, StoreInv, Keyrings
<1>3. \A k \in Ids \X Fields : keyring[k] # None => keyring'[k] # None
    BY <1>1 DEF ConnectEnds, StoreInv, Keyrings
<1>4. deleted' = deleted /\ used' = used
    BY DEF ConnectEnds, histVars
<1>5. Later(keyring, keyring', deleted, deleted')
    BY <1>3, <1>4 DEF Later
<1>6. /\ GoodHosts(hosts, keyring', deleted', used')
      /\ disk = Torn \/ GoodHosts(disk, keyring', deleted', used')
      /\ GoodTab(tab, keyring', deleted', used')
    BY <1>4, <1>5, CopiesStayGood
<1> QED
    BY <1>2, <1>4, <1>6 DEF ConnectEnds, StoreInv

LEMMA OpenTabKeeps ==
    ASSUME StoreInv, NEW id \in Ids, OpenTab(id)
    PROVE  StoreInv'
<1>1. Good(hosts[id], id, keyring, deleted) /\ id \in used
    BY DEF OpenTab, StoreInv, GoodHosts
<1>2. GoodTab(tab', keyring, deleted, used)
    BY <1>1 DEF OpenTab, GoodTab, Good
<1> QED
    BY <1>2 DEF OpenTab, StoreInv, histVars

LEMMA CloseTabKeeps ==
    ASSUME StoreInv, CloseTab
    PROVE  StoreInv'
<1>1. GoodTab(tab', keyring, deleted, used)
    BY DEF CloseTab, GoodTab
<1> QED
    BY <1>1 DEF CloseTab, StoreInv, histVars

LEMMA PersistEndsKeeps ==
    ASSUME StoreInv, PersistEnds
    PROVE  StoreInv'
BY DEF PersistEnds, StoreInv, histVars, clientVars

LEMMA KeyringTogglesKeeps ==
    ASSUME StoreInv, KeyringToggles
    PROVE  StoreInv'
BY DEF KeyringToggles, StoreInv, histVars, clientVars

LEMMA CrashKeeps ==
    ASSUME StoreInv, Crash
    PROVE  StoreInv'
<1>1. GoodHosts(NoHosts, keyring, deleted, used)
    BY DEF NoHosts, GoodHosts
<1>2. GoodHosts(hosts', keyring, deleted, used)
    BY <1>1 DEF Crash, StoreInv
<1>3. crashes' \in 0..MaxCrashes
    BY StoreAssumption DEF Crash, StoreInv
<1> QED
    BY <1>2, <1>3 DEF Crash, StoreInv, GoodTab, histVars

-----------------------------------------------------------------------------
(* The theorems *)

LEMMA InitStoreInv == StoreInit => StoreInv
<1> SUFFICES ASSUME StoreInit PROVE StoreInv
    OBVIOUS
<1>1. keyring \in Keyrings
    BY DEF StoreInit, Keyrings
<1>2. GoodHosts(NoHosts, keyring, deleted, used)
    BY DEF NoHosts, GoodHosts
<1>3. crashes \in 0..MaxCrashes
    BY StoreAssumption DEF StoreInit
<1> QED
    BY <1>1, <1>2, <1>3 DEF StoreInit, StoreInv, GoodTab

LEMMA StepStoreInv == StoreInv /\ [StoreNext]_storeVars => StoreInv'
<1>1. ASSUME StoreInv, UNCHANGED storeVars
      PROVE  StoreInv'
    BY <1>1 DEF storeVars, StoreInv
<1> QED
    BY <1>1, SaveNewKeeps, SaveEditKeeps, DuplicateKeeps, StarKeeps, DeleteKeeps,
       ConnectBeginsKeeps, AskLostKeeps, ConnectEndsKeeps, OpenTabKeeps, CloseTabKeeps,
       PersistEndsKeeps, KeyringTogglesKeeps, CrashKeeps DEF StoreNext

LEMMA StoreInvariant == StoreSpec => []StoreInv
BY InitStoreInv, StepStoreInv, PTL DEF StoreSpec

-----------------------------------------------------------------------------
(* Secrets that outlive their host *)

LeftInv == NoOtherLeftovers /\ stranded \subseteq Ids

(* A command that stores a host touches only its own entry.                 *)
LEMMA ProtectLeaves ==
    ASSUME StoreInv, NEW id \in Ids, NEW a, Protect(id, a)
    PROVE  /\ DOMAIN hosts' = DOMAIN hosts \cup {id}
           /\ \A i \in Ids, f \in Fields : i # id => keyring'[<<i, f>>] = keyring[<<i, f>>]
<1>1. DOMAIN hosts' = DOMAIN hosts \cup {id}
    BY DEF Protect
<1>2. \A i \in Ids, f \in Fields : i # id => <<i, f>> # <<id, a.field>>
    OBVIOUS
<1>3. keyring' = keyring \/ keyring' = [keyring EXCEPT ![<<id, a.field>>] = a.slot.of]
    BY DEF Protect
<1>4. \A i \in Ids, f \in Fields : i # id => keyring'[<<i, f>>] = keyring[<<i, f>>]
    BY <1>2, <1>3 DEF StoreInv, Keyrings
<1> QED
    BY <1>1, <1>4

LEMMA StoringLeaves ==
    ASSUME StoreInv, LeftInv, NEW id \in Ids, NEW a, Protect(id, a), stranded' = stranded
    PROVE  LeftInv'
<1>1. /\ DOMAIN hosts' = DOMAIN hosts \cup {id}
      /\ \A i \in Ids, f \in Fields : i # id => keyring'[<<i, f>>] = keyring[<<i, f>>]
    BY ProtectLeaves
<1>2. ASSUME NEW i \in Ids \ DOMAIN hosts', NEW f \in Fields, keyring'[<<i, f>>] # None
      PROVE  i \in stranded'
    BY <1>1, <1>2 DEF LeftInv, NoOtherLeftovers
<1> QED
    BY <1>2 DEF LeftInv, NoOtherLeftovers

(* With a backend both entries go; without one the id is stranded if it has *)
(* any.                                                                     *)
LEMMA DeleteLeaves ==
    ASSUME StoreInv, LeftInv, NEW id \in Ids, Delete(id)
    PROVE  LeftInv'
<1>1. /\ keyring' = IF available THEN [k \in Ids \X Fields |-> IF k[1] = id THEN None ELSE keyring[k]]
                    ELSE keyring
      /\ DOMAIN hosts' = DOMAIN hosts \ {id}
      /\ stranded' = IF available \/ ~HasEntry(id) THEN stranded \ {id} ELSE stranded \cup {id}
    BY DEF Delete, Strands
<1>2. ASSUME NEW i \in Ids \ DOMAIN hosts', NEW f \in Fields, keyring'[<<i, f>>] # None
      PROVE  i \in stranded'
  <2>1. <<i, f>> \in Ids \X Fields /\ <<i, f>>[1] = i
      OBVIOUS
  <2>2. keyring[<<i, f>>] # None /\ (available => i # id)
      BY <1>1, <1>2, <2>1
  <2>3. CASE i = id
    <3>1. HasEntry(id)
        BY <2>2, <2>3 DEF HasEntry
    <3> QED
        BY <1>1, <2>2, <2>3, <3>1
  <2>4. CASE i # id
    <3>1. i \in stranded
        BY <1>1, <2>2, <2>4 DEF LeftInv, NoOtherLeftovers
    <3> QED
        BY <1>1, <2>4, <3>1
  <2> QED
      BY <2>3, <2>4
<1>3. stranded' \subseteq Ids
    BY <1>1 DEF LeftInv
<1> QED
    BY <1>2, <1>3 DEF LeftInv, NoOtherLeftovers

(* The connection puts an entry back; if the host is gone it is stranded.   *)
LEMMA ConnectEndsLeaves ==
    ASSUME StoreInv, LeftInv, ConnectEnds
    PROVE  LeftInv'
<1> DEFINE k == <<conn.id, conn.auth.field>>
<1>1. hosts' = hosts /\ conn.id \in Ids
    BY DEF ConnectEnds, StoreInv
<1>2. CASE UNCHANGED <<keyring, stranded>>
    BY <1>1, <1>2 DEF LeftInv, NoOtherLeftovers
<1>3. CASE /\ keyring' = [keyring EXCEPT ![k] = conn.typed]
           /\ stranded' = stranded \cup ({conn.id} \ DOMAIN hosts)
  <2>1. ASSUME NEW i \in Ids \ DOMAIN hosts', NEW f \in Fields, keyring'[<<i, f>>] # None
        PROVE  i \in stranded'
    <3>1. CASE i = conn.id
        BY <1>1, <1>3, <2>1, <3>1
    <3>2. CASE i # conn.id
      <4>1. <<i, f>> # k
          BY <3>2
      <4>2. keyring'[<<i, f>>] = keyring[<<i, f>>]
          BY <1>3, <4>1 DEF StoreInv, Keyrings
      <4> QED
          BY <1>1, <1>3, <2>1, <4>2 DEF LeftInv, NoOtherLeftovers
    <3> QED
        BY <3>1, <3>2
  <2> QED
      BY <1>1, <1>3, <2>1 DEF LeftInv, NoOtherLeftovers
<1> QED
    BY <1>2, <1>3 DEF ConnectEnds

(* What a crash loses and had an entry is stranded.                         *)
LEMMA CrashLeaves ==
    ASSUME StoreInv, LeftInv, Crash
    PROVE  LeftInv'
<1>1. /\ keyring' = keyring
      /\ stranded' = stranded \cup {i \in DOMAIN hosts \ DOMAIN hosts' : HasEntry(i)}
    BY DEF Crash
<1>2. DOMAIN hosts \subseteq Ids
    BY DEF StoreInv, GoodHosts
<1>3. ASSUME NEW i \in Ids \ DOMAIN hosts', NEW f \in Fields, keyring[<<i, f>>] # None
      PROVE  i \in stranded'
  <2>1. HasEntry(i)
      BY <1>3 DEF HasEntry
  <2> QED
      BY <1>1, <1>3, <2>1 DEF LeftInv, NoOtherLeftovers
<1> QED
    BY <1>1, <1>2, <1>3 DEF LeftInv, NoOtherLeftovers

LEMMA StepLeaves == StoreInv /\ LeftInv /\ [StoreNext]_storeVars => LeftInv'
<1> SUFFICES ASSUME StoreInv, LeftInv, [StoreNext]_storeVars PROVE LeftInv'
    OBVIOUS
<1>1. CASE UNCHANGED <<hosts, keyring, stranded>>
    BY <1>1 DEF LeftInv, NoOtherLeftovers
<1>2. ASSUME NEW id \in Ids, NEW a \in Typed, SaveNew(id, a)
      PROVE  LeftInv'
    BY <1>2, StoringLeaves DEF SaveNew
<1>3. ASSUME NEW id \in Ids, NEW a \in Typed, SaveEdit(id, a)
      PROVE  LeftInv'
    BY <1>3, StoringLeaves DEF SaveEdit, histVars
<1>4. ASSUME NEW id \in Ids, NEW copy \in Ids, Duplicate(id, copy)
      PROVE  LeftInv'
    BY <1>4, StoringLeaves DEF Duplicate
<1>5. CASE Star
  <2>1. tab.id \in Ids
      BY <1>5 DEF Star, StoreInv, GoodTab
  <2> QED
      BY <1>5, <2>1, StoringLeaves DEF Star, histVars
<1>6. CASE PersistEnds \/ KeyringToggles \/ CloseTab
    BY <1>1, <1>6 DEF PersistEnds, KeyringToggles, CloseTab, histVars
<1>7. ASSUME NEW id \in Ids, ConnectBegins(id) \/ OpenTab(id)
      PROVE  LeftInv'
    BY <1>1, <1>7 DEF ConnectBegins, OpenTab, histVars
<1>8. ASSUME NEW s \in Secrets, AskLost(s)
      PROVE  LeftInv'
    BY <1>1, <1>8 DEF AskLost, histVars
<1>9. CASE UNCHANGED storeVars
    BY <1>1, <1>9 DEF storeVars
<1> QED
    BY <1>2, <1>3, <1>4, <1>5, <1>6, <1>7, <1>8, <1>9, DeleteLeaves, ConnectEndsLeaves,
       CrashLeaves DEF StoreNext

(* The keyring keeps a secret of a host that is gone only if no backend     *)
(* answered the deletion, a connection that had begun before put it back,   *)
(* or the process died before the host was on disk.                         *)
THEOREM NoOtherLeftoversEver == StoreSpec => []NoOtherLeftovers
<1>1. StoreInit => LeftInv
    BY DEF StoreInit, LeftInv, NoOtherLeftovers
<1>2. LeftInv => NoOtherLeftovers
    BY DEF LeftInv
<1> QED
    BY <1>1, <1>2, StoreInvariant, StepLeaves, PTL DEF StoreSpec

-----------------------------------------------------------------------------
(* The types *)

Flags == available \in BOOLEAN /\ writing \in BOOLEAN /\ unsaved \in BOOLEAN

LEMMA StepFlags == Flags /\ [StoreNext]_storeVars => Flags'
<1> SUFFICES ASSUME Flags, [StoreNext]_storeVars PROVE Flags'
    OBVIOUS
<1>1. CASE UNCHANGED <<available, writing, unsaved>>
    BY <1>1 DEF Flags
<1>2. ASSUME PersistBegins, available' = available
      PROVE  Flags'
    BY <1>2 DEF PersistBegins, Flags
<1>3. CASE PersistEnds
    BY <1>3 DEF PersistEnds, Flags
<1>4. CASE KeyringToggles \/ ConnectEnds \/ CloseTab
    BY <1>4 DEF KeyringToggles, ConnectEnds, CloseTab, Flags
<1>5. CASE Crash
    BY <1>5 DEF Crash, Flags
<1>6. CASE Star
    BY <1>2, <1>6 DEF Star
<1>7. ASSUME NEW id \in Ids, Delete(id) \/ ConnectBegins(id) \/ OpenTab(id)
      PROVE  Flags'
    BY <1>1, <1>2, <1>7 DEF Delete, ConnectBegins, OpenTab
<1>8. ASSUME NEW id \in Ids, NEW a \in Typed, SaveNew(id, a) \/ SaveEdit(id, a)
      PROVE  Flags'
    BY <1>2, <1>8 DEF SaveNew, SaveEdit
<1>9. ASSUME NEW id \in Ids, NEW copy \in Ids, Duplicate(id, copy)
      PROVE  Flags'
    BY <1>2, <1>9 DEF Duplicate
<1>10. ASSUME NEW s \in Secrets, AskLost(s)
       PROVE  Flags'
    BY <1>1, <1>10 DEF AskLost
<1>11. CASE UNCHANGED storeVars
    BY <1>1, <1>11 DEF storeVars
<1> QED
    BY <1>3, <1>4, <1>5, <1>6, <1>7, <1>8, <1>9, <1>10, <1>11 DEF StoreNext

(* The types of the store, of its file and of the copies others hold.       *)
THEOREM StoreTypes == StoreSpec => []StoreTypeOK
<1>1. StoreInit => Flags
    BY DEF StoreInit, Flags
<1>2. StoreInv /\ Flags /\ LeftInv => StoreTypeOK
    BY DEF StoreInv, Flags, LeftInv, StoreTypeOK, GoodHosts, GoodTab, Good, Keyrings
<1>3. StoreInit => LeftInv
    BY DEF StoreInit, LeftInv, NoOtherLeftovers
<1> QED
    BY StoreInvariant, <1>1, <1>2, <1>3, StepFlags, StepLeaves, PTL DEF StoreSpec

(* Whatever is saved, duplicated, deleted, starred from a stale tab or      *)
(* restored from an old file, no host names another host's keyring entry.   *)
THEOREM MarkersStayOwn == StoreSpec => []MarkersAreOwn
<1>1. StoreInv => MarkersAreOwn
    BY DEF StoreInv, GoodHosts, Good, MarkersAreOwn
<1> QED
    BY <1>1, StoreInvariant, PTL

(* A marker has its entry in the keyring, however often the keyring comes   *)
(* and goes and the process dies, unless its host had been deleted.         *)
THEOREM MarkersKeepEntries == StoreSpec => []MarkersHaveEntries
<1>1. StoreInv => MarkersHaveEntries
    BY DEF StoreInv, GoodHosts, Good, MarkersHaveEntries
<1> QED
    BY <1>1, StoreInvariant, PTL

(* hosts.json agrees with memory except while persist() is between its      *)
(* truncation and its write, after it failed, or when a crash cut it.       *)
THEOREM FileMatches == StoreSpec => []DiskMatches
<1>1. StoreInit => DiskMatches
    BY DEF StoreInit, DiskMatches
<1>2. ASSUME DiskMatches, StoreNext
      PROVE  DiskMatches'
  <2>1. CASE PersistEnds
      BY <2>1 DEF PersistEnds, DiskMatches
  <2>2. ASSUME PersistBegins, ~writing
        PROVE  DiskMatches'
      BY <2>2 DEF PersistBegins, DiskMatches
  <2>3. CASE Crash
      BY <1>2, <2>3 DEF Crash, DiskMatches
  <2>4. CASE UNCHANGED <<hosts, disk, writing, unsaved>>
      BY <1>2, <2>4 DEF DiskMatches
  <2>5. ASSUME NEW id \in Ids, Delete(id) \/ ConnectBegins(id) \/ OpenTab(id)
        PROVE  DiskMatches'
      BY <2>2, <2>4, <2>5 DEF Delete, ConnectBegins, OpenTab
  <2>6. ASSUME NEW id \in Ids, NEW a \in Typed, SaveNew(id, a) \/ SaveEdit(id, a)
        PROVE  DiskMatches'
      BY <2>2, <2>6 DEF SaveNew, SaveEdit
  <2>7. ASSUME NEW id \in Ids, NEW copy \in Ids, Duplicate(id, copy)
        PROVE  DiskMatches'
      BY <2>2, <2>7 DEF Duplicate
  <2>8. CASE Star
      BY <2>2, <2>8 DEF Star
  <2>9. CASE KeyringToggles \/ ConnectEnds \/ CloseTab
      BY <2>4, <2>9 DEF KeyringToggles, ConnectEnds, CloseTab
  <2>10. ASSUME NEW s \in Secrets, AskLost(s)
         PROVE  DiskMatches'
      BY <2>4, <2>10 DEF AskLost
  <2> QED
      BY <1>2, <2>1, <2>3, <2>5, <2>6, <2>7, <2>8, <2>9, <2>10 DEF StoreNext
<1>3. DiskMatches /\ UNCHANGED storeVars => DiskMatches'
    BY DEF DiskMatches, storeVars
<1> QED
    BY <1>1, <1>2, <1>3, PTL DEF StoreSpec

-----------------------------------------------------------------------------
(* A step that leaves no host of the same kind without its secret.          *)
SecretsStay ==
    \A id \in DOMAIN hosts \cap DOMAIN hosts' :
        (hosts'[id].field = hosts[id].field /\ hosts[id].slot # Empty /\ crashes' = crashes)
            => hosts'[id].slot # Empty

LEMMA StoringKeepsSecrets ==
    ASSUME StoreInv, NEW id \in Ids, NEW a, Good(a, id, keyring, deleted), Protect(id, a),
           id \in DOMAIN hosts /\ a.field = hosts[id].field /\ hosts[id].slot # Empty => a.slot # Empty
    PROVE  SecretsStay
<1>1. /\ \A i \in DOMAIN hosts : i # id => hosts'[i] = hosts[i]
      /\ hosts'[id].field = a.field
      /\ a.slot # Empty => hosts'[id].slot # Empty
    BY ProtectKeeps
<1> QED
    BY <1>1 DEF SecretsStay

LEMMA KeptKeepsSecret ==
    ASSUME NEW old, NEW new, old.slot # Empty, Kept(old, new).field = old.field
    PROVE  Kept(old, new).slot # Empty
BY DEF Kept

(* A new id is not in use; an old one keeps what it has.                    *)
LEMMA StepKeepsSecrets == StoreInv /\ StoreNext => SecretsStay
<1> SUFFICES ASSUME StoreInv, StoreNext PROVE SecretsStay
    OBVIOUS
<1>1. ASSUME NEW id \in Ids, NEW a \in Typed, ValidAuth(a), SaveNew(id, a)
      PROVE  SecretsStay
  <2>1. id \notin DOMAIN hosts
      BY <1>1 DEF SaveNew, StoreInv, GoodHosts
  <2> QED
      BY <1>1, <2>1, TypedIsGood, StoringKeepsSecrets DEF SaveNew
<1>2. ASSUME NEW id \in Ids, NEW a \in Typed, ValidAuth(a), SaveEdit(id, a)
      PROVE  SecretsStay
  <2>1. id \in DOMAIN hosts /\ Protect(id, Kept(hosts[id], a))
      BY <1>2 DEF SaveEdit
  <2>2. Good(Kept(hosts[id], a), id, keyring, deleted)
      BY <1>2, <2>1, TypedIsGood, KeptIsGood
  <2> QED
      BY <2>1, <2>2, KeptKeepsSecret, StoringKeepsSecrets
<1>3. ASSUME NEW id \in Ids, NEW copy \in Ids, Duplicate(id, copy)
      PROVE  SecretsStay
  <2>1. \A i \in DOMAIN hosts : i # copy
      BY <1>3 DEF Duplicate, StoreInv, GoodHosts
  <2>2. \A i \in DOMAIN hosts : i # copy => hosts'[i] = hosts[i]
      BY <1>3 DEF Duplicate, Protect
  <2> QED
      BY <2>1, <2>2 DEF SecretsStay
<1>4. CASE Star
  <2> DEFINE a == IF tab.id \in DOMAIN hosts THEN Kept(hosts[tab.id], tab.auth) ELSE tab.auth
  <2>1. tab.id \in Ids /\ Good(tab.auth, tab.id, keyring, deleted)
      BY <1>4 DEF Star, StoreInv, GoodTab
  <2>2. Good(a, tab.id, keyring, deleted)
      BY <2>1, KeptIsGood
  <2>3. Protect(tab.id, a)
      BY <1>4 DEF Star
  <2>4. tab.id \in DOMAIN hosts /\ a.field = hosts[tab.id].field /\ hosts[tab.id].slot # Empty
            => a.slot # Empty
      BY KeptKeepsSecret
  <2> HIDE DEF a
  <2> QED
      BY <2>1, <2>2, <2>3, <2>4, StoringKeepsSecrets
<1>5. ASSUME NEW id \in Ids, Delete(id)
      PROVE  SecretsStay
    BY <1>5 DEF Delete, SecretsStay
<1>6. CASE Crash
  <2>1. crashes' # crashes
      BY <1>6 DEF Crash, StoreInv
  <2> QED
      BY <2>1 DEF SecretsStay
<1>7. CASE hosts' = hosts
    BY <1>7 DEF SecretsStay
<1>8. CASE PersistEnds \/ KeyringToggles \/ ConnectEnds \/ CloseTab
    BY <1>7, <1>8 DEF PersistEnds, KeyringToggles, ConnectEnds, CloseTab
<1>9. ASSUME NEW id \in Ids, ConnectBegins(id) \/ OpenTab(id)
      PROVE  SecretsStay
    BY <1>7, <1>9 DEF ConnectBegins, OpenTab
<1>10. ASSUME NEW s \in Secrets, AskLost(s)
       PROVE  SecretsStay
    BY <1>7, <1>10 DEF AskLost
<1> QED
    BY <1>1, <1>2, <1>3, <1>4, <1>5, <1>6, <1>8, <1>9, <1>10 DEF StoreNext

(* A save that leaves the secret field blank keeps the stored secret, and   *)
(* so do copies, stars and deletions of other hosts.                        *)
THEOREM BlankFieldKeepsSecret == StoreSpec => BlankKeepsSecret
<1>1. StoreInv /\ [StoreNext]_storeVars => [SecretsStay]_storeVars
    BY StepKeepsSecrets
<1>2. StoreSpec => [][SecretsStay]_storeVars
    BY StoreInvariant, <1>1, PTL DEF StoreSpec
<1> QED
    BY <1>2 DEF BlankKeepsSecret, SecretsStay

=============================================================================
