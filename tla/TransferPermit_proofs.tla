----------------------- MODULE TransferPermit_proofs -----------------------
(***************************************************************************)
(* For every set of transfers and every cap: the counter is the number of  *)
(* live guards, the cap is kept, no wakeup is lost, and every step of the  *)
(* permit is a step of the semaphore or a stutter.                         *)
(***************************************************************************)
EXTENDS TransferPermit, FiniteSetTheorems, TLAPS

(* The inductive invariant: each conjunct needs the ones before it.         *)
PermitInv == TypeOK /\ CapKept /\ NoLostWakeup

(* The threads at a label form a finite set, before and after a step.       *)
LEMMA AtFinite ==
    ASSUME NEW l
    PROVE  /\ IsFiniteSet(At(l)) /\ Cardinality(At(l)) \in Nat
           /\ IsFiniteSet(At(l)') /\ Cardinality(At(l)') \in Nat
<1>1. At(l) \in SUBSET Transfers /\ At(l)' \in SUBSET Transfers
    BY DEF At
<1>2. IsFiniteSet(At(l)) /\ IsFiniteSet(At(l)')
    BY <1>1, FS_Subset, PermitAssumption
<1> QED
    BY <1>2, FS_CardinalityType

(* A step that sends thread t from label a to label b moves t from one set  *)
(* of threads to the other.                                                 *)
LEMMA MoveOne ==
    ASSUME TypeOK, NEW t \in Transfers, NEW a, NEW b, a # b,
           pc[t] = a, pc' = [pc EXCEPT ![t] = b]
    PROVE  /\ At(a)' = At(a) \ {t} /\ t \in At(a)
           /\ At(b)' = At(b) \cup {t} /\ t \notin At(b)
BY DEF At, TypeOK

(* The same in numbers: one thread less at a, one more at b.                *)
LEMMA CountOne ==
    ASSUME TypeOK, NEW t \in Transfers, NEW a, NEW b, a # b,
           pc[t] = a, pc' = [pc EXCEPT ![t] = b]
    PROVE  /\ Cardinality(At(a)') = Cardinality(At(a)) - 1
           /\ Cardinality(At(b)') = Cardinality(At(b)) + 1
<1>1. IsFiniteSet(At(a)) /\ IsFiniteSet(At(b))
    BY AtFinite
<1>2. /\ At(a)' = At(a) \ {t} /\ t \in At(a)
      /\ At(b)' = At(b) \cup {t} /\ t \notin At(b)
    BY MoveOne
<1>3. Cardinality(At(a) \ {t}) = Cardinality(At(a)) - 1
    BY <1>1, <1>2, FS_RemoveElement
<1>4. Cardinality(At(b) \cup {t}) = Cardinality(At(b)) + 1
    BY <1>1, <1>2, FS_AddElement
<1> QED
    BY <1>2, <1>3, <1>4

(* NotifyOne with a waiter moves two threads at once.                       *)
LEMMA MoveTwo ==
    ASSUME TypeOK, NEW t \in Transfers, NEW w \in Transfers,
           pc[t] = "notifying", pc[w] = "waiting",
           pc' = [pc EXCEPT ![t] = "finished", ![w] = "woken"]
    PROVE  /\ At("notifying")' = At("notifying") \ {t} /\ t \in At("notifying")
           /\ At("woken")' = At("woken") \cup {w} /\ w \notin At("woken")
           /\ At("waiting")' = At("waiting") \ {w}
           /\ At("holding")' = At("holding")
           /\ At("acquiring")' = At("acquiring")
BY DEF At, TypeOK

(* A thread that moves is at another label afterwards, and still at one.    *)
LEMMA TypeMove ==
    ASSUME TypeOK, NEW t \in Transfers, NEW b \in PC, pc' = [pc EXCEPT ![t] = b]
    PROVE  pc' \in [Transfers -> PC]
BY DEF TypeOK

-----------------------------------------------------------------------------
(* The invariant holds at the start: no thread, no permit taken.            *)
LEMMA InitInv == Init => PermitInv
<1> SUFFICES ASSUME Init PROVE PermitInv
    OBVIOUS
<1>1. TypeOK
    BY PermitAssumption DEF Init, TypeOK, PC
<1>2. \A l : l # "unborn" => At(l) = {}
    BY DEF Init, At
<1>3. Cardinality(Holders) = 0 /\ At("waiting") = {}
    BY <1>2, FS_EmptySet DEF Holders
<1> QED
    BY <1>1, <1>3, PermitAssumption DEF PermitInv, CapKept, NoLostWakeup, Init

LEMMA SpawnInv ==
    ASSUME PermitInv, NEW t \in Transfers, Spawn(t)
    PROVE  PermitInv'
<1> USE DEF PermitInv
<1>1. TypeOK'
    BY TypeMove DEF Spawn, Goto, TypeOK, PC
<1>2. /\ At("holding")' = At("holding") /\ At("waiting")' = At("waiting")
      /\ At("woken")' = At("woken") /\ At("notifying")' = At("notifying")
    BY DEF Spawn, Goto, At, TypeOK
<1> QED
    BY <1>1, <1>2 DEF CapKept, NoLostWakeup, Holders, Spawn

(* Taking a permit: one holder more; if the thread had been woken, one      *)
(* woken thread less pays for the free permit it takes.                     *)
LEMMA AcquireInv ==
    ASSUME PermitInv, NEW t \in Transfers, Acquire(t)
    PROVE  PermitInv'
<1> USE DEF PermitInv
<1>0. PICK l \in {"acquiring", "woken"} : pc[t] = l
    BY DEF Acquire
<1>n. /\ count \in Nat /\ count < MAX /\ count' = count + 1 /\ MAX \in Nat
      /\ pc' = [pc EXCEPT ![t] = "holding"]
    BY PermitAssumption DEF Acquire, Goto, TypeOK
<1>1. TypeOK'
    BY <1>n, TypeMove DEF TypeOK, PC
<1>2. /\ Cardinality(At("holding")') = Cardinality(At("holding")) + 1
      /\ Cardinality(At(l)') = Cardinality(At(l)) - 1
    BY <1>0, <1>n, CountOne
<1>3. CapKept'
    BY <1>2, <1>n DEF CapKept, Holders
<1>4. /\ At("waiting")' = At("waiting") /\ At("notifying")' = At("notifying")
      /\ l = "acquiring" => At("woken")' = At("woken")
    BY <1>0, <1>n DEF At, TypeOK
<1>5. Cardinality(At("woken")') >= Cardinality(At("woken")) - 1
    BY <1>0, <1>2, <1>4, AtFinite
<1>6. NoLostWakeup'
    BY <1>4, <1>5, <1>n, AtFinite DEF NoLostWakeup
<1> QED
    BY <1>1, <1>3, <1>6

(* Parking happens only when no permit is free, so nothing is owed to the   *)
(* thread that parks.                                                       *)
LEMMA ParkInv ==
    ASSUME PermitInv, NEW t \in Transfers, Park(t)
    PROVE  PermitInv'
<1> USE DEF PermitInv
<1>0. PICK l \in {"acquiring", "woken"} : pc[t] = l
    BY DEF Park
<1>n. /\ count \in Nat /\ count >= MAX /\ count' = count /\ MAX \in Nat
      /\ pc' = [pc EXCEPT ![t] = "waiting"]
    BY PermitAssumption DEF Park, Goto, TypeOK
<1>1. TypeOK'
    BY <1>n, TypeMove DEF TypeOK, PC
<1>2. At("holding")' = At("holding")
    BY <1>0, <1>n DEF At, TypeOK
<1>3. CapKept'
    BY <1>2, <1>n DEF CapKept, Holders
<1>4. MAX - count' <= 0
    BY <1>n
<1>5. NoLostWakeup'
    BY <1>4, <1>n, AtFinite DEF NoLostWakeup
<1> QED
    BY <1>1, <1>3, <1>5

LEMMA SpuriousInv ==
    ASSUME PermitInv, NEW t \in Transfers, SpuriousWakeup(t)
    PROVE  PermitInv'
<1> USE DEF PermitInv
<1>n. /\ pc[t] = "waiting" /\ count' = count /\ count \in Nat /\ MAX \in Nat
      /\ pc' = [pc EXCEPT ![t] = "woken"]
    BY PermitAssumption DEF SpuriousWakeup, Goto, TypeOK
<1>1. TypeOK'
    BY <1>n, TypeMove DEF TypeOK, PC
<1>2. /\ At("holding")' = At("holding") /\ At("notifying")' = At("notifying")
      /\ t \in At("waiting")
    BY <1>n DEF At, TypeOK
<1>3. Cardinality(At("woken")') = Cardinality(At("woken")) + 1
    BY <1>n, CountOne
<1>4. CapKept'
    BY <1>2, <1>n DEF CapKept, Holders
<1>5. NoLostWakeup'
    BY <1>2, <1>3, <1>n, AtFinite DEF NoLostWakeup
<1> QED
    BY <1>1, <1>4, <1>5

(* Dropping the guard frees a permit and owes a notification.               *)
LEMMA DropInv ==
    ASSUME PermitInv, NEW t \in Transfers, DropGuard(t)
    PROVE  PermitInv'
<1> USE DEF PermitInv
<1>n. /\ pc[t] = "holding" /\ count' = count - 1 /\ count \in Nat /\ MAX \in Nat
      /\ pc' = [pc EXCEPT ![t] = "notifying"]
    BY PermitAssumption DEF DropGuard, Goto, TypeOK
<1>2. /\ Cardinality(At("holding")') = Cardinality(At("holding")) - 1
      /\ Cardinality(At("notifying")') = Cardinality(At("notifying")) + 1
      /\ Cardinality(At("holding")') \in Nat
    BY <1>n, CountOne, AtFinite
<1>3. /\ At("waiting")' = At("waiting") /\ At("woken")' = At("woken")
    BY <1>n DEF At, TypeOK
<1>4. CapKept'
    BY <1>2, <1>n DEF CapKept, Holders
<1>1. TypeOK'
    <2>1. count' \in 0..MAX
        BY <1>2, <1>4, <1>n DEF CapKept, Holders
    <2>2. pc' \in [Transfers -> PC]
        BY <1>n, TypeMove DEF PC
    <2> QED
        BY <2>1, <2>2 DEF TypeOK
<1>5. NoLostWakeup'
    BY <1>2, <1>3, <1>n, AtFinite DEF NoLostWakeup
<1> QED
    BY <1>1, <1>4, <1>5

(* The notification turns into a woken thread, or nobody was waiting.       *)
LEMMA NotifyInv ==
    ASSUME PermitInv, NEW t \in Transfers, NotifyOne(t)
    PROVE  PermitInv'
<1> USE DEF PermitInv
<1>n. pc[t] = "notifying" /\ count' = count /\ count \in Nat /\ MAX \in Nat
    BY PermitAssumption DEF NotifyOne, TypeOK
<1>1. CASE At("waiting") = {}
    <2>1. pc' = [pc EXCEPT ![t] = "finished"]
        BY <1>1 DEF NotifyOne, Goto
    <2>2. TypeOK'
        BY <1>n, <2>1, TypeMove DEF TypeOK, PC
    <2>3. At("holding")' = At("holding") /\ At("waiting")' = {}
        BY <1>n, <1>1, <2>1 DEF At, TypeOK
    <2> QED
        BY <1>n, <2>2, <2>3 DEF CapKept, NoLostWakeup, Holders
<1>2. CASE At("waiting") # {}
    <2>1. PICK w \in At("waiting") :
              pc' = [pc EXCEPT ![t] = "finished", ![w] = "woken"]
        BY <1>2 DEF NotifyOne
    <2>2. w \in Transfers /\ pc[w] = "waiting"
        BY DEF At
    <2>3. TypeOK'
        BY <1>n, <2>1, <2>2 DEF TypeOK, PC
    <2>4. /\ At("notifying")' = At("notifying") \ {t} /\ t \in At("notifying")
          /\ At("woken")' = At("woken") \cup {w} /\ w \notin At("woken")
          /\ At("holding")' = At("holding")
        BY <1>n, <2>1, <2>2, MoveTwo
    <2>5. /\ Cardinality(At("notifying")') = Cardinality(At("notifying")) - 1
          /\ Cardinality(At("woken")') = Cardinality(At("woken")) + 1
        BY <2>4, AtFinite, FS_AddElement, FS_RemoveElement
    <2>6. CapKept'
        BY <2>4, <1>n DEF CapKept, Holders
    <2>7. NoLostWakeup'
        BY <2>5, <1>2, <1>n, AtFinite DEF NoLostWakeup
    <2> QED
        BY <2>3, <2>6, <2>7
<1> QED
    BY <1>1, <1>2

LEMMA StepInv == PermitInv /\ [Next]_vars => PermitInv'
<1> SUFFICES ASSUME PermitInv, [Next]_vars PROVE PermitInv'
    OBVIOUS
<1>1. CASE UNCHANGED vars
    BY <1>1 DEF vars, PermitInv, TypeOK, CapKept, NoLostWakeup, Holders, At
<1>2. ASSUME NEW t \in Transfers, Spawn(t) PROVE PermitInv'
    BY <1>2, SpawnInv
<1>3. ASSUME NEW t \in Transfers, Run(t) PROVE PermitInv'
    BY <1>3, AcquireInv, ParkInv, DropInv, NotifyInv DEF Run
<1>4. ASSUME NEW t \in Transfers, SpuriousWakeup(t) PROVE PermitInv'
    BY <1>4, SpuriousInv
<1> QED
    BY <1>1, <1>2, <1>3, <1>4 DEF Next

(* The permit's invariant, for every set of transfers and every cap.        *)
LEMMA PermitInvariant == Spec => []PermitInv
<1>1. Init => PermitInv
    BY InitInv
<1>2. PermitInv /\ [Next]_vars => PermitInv'
    BY StepInv
<1> QED
    BY <1>1, <1>2, PTL DEF Spec

(* The counter stays within 0..MAX: the usize never underflows in a drop.   *)
THEOREM PermitTypeOK == Spec => []TypeOK
<1>1. PermitInv => TypeOK
    BY DEF PermitInv
<1> QED
    BY <1>1, PermitInvariant, PTL

(* The counter counts the live guards and never lets more than MAX          *)
(* transfer sessions in (Permit::acquire, PermitGuard::drop).               *)
THEOREM PermitCapKept == Spec => []CapKept
<1>1. PermitInv => CapKept
    BY DEF PermitInv
<1> QED
    BY <1>1, PermitInvariant, PTL

(* Notifying after the lock is released loses no wakeup.                    *)
THEOREM PermitNoLostWakeup == Spec => []NoLostWakeup
<1>1. PermitInv => NoLostWakeup
    BY DEF PermitInv
<1> QED
    BY <1>1, PermitInvariant, PTL

-----------------------------------------------------------------------------
(* The semaphore's copy of Cardinality is the same operator.                *)
LEMMA SameCardinality ==
    ASSUME NEW S PROVE Promise!Cardinality(S) = Cardinality(S)
BY DEF Promise!Cardinality, Cardinality

(* Under the refinement mapping every step is a semaphore step or a stutter. *)
LEMMA StepSimulates ==
    PermitInv /\ [Next]_vars => [Promise!SNext]_(Promise!svars)
<1> SUFFICES ASSUME PermitInv, [Next]_vars
             PROVE  [Promise!SNext]_(Promise!svars)
    OBVIOUS
<1> DEFINE ask == At("acquiring") \cup At("waiting") \cup At("woken")
           in  == At("holding")
           Stutter == ask' = ask /\ in' = in
<1>s. Stutter => [Promise!SNext]_(Promise!svars)
    BY DEF Promise!svars, Holders
<1>1. CASE UNCHANGED vars
    BY <1>1, <1>s DEF vars, At
<1>2. ASSUME NEW t \in Transfers, Spawn(t) PROVE Promise!SNext
    <2>1. t \notin ask \cup in /\ ask' = ask \cup {t} /\ in' = in
        BY <1>2 DEF Spawn, Goto, At, PermitInv, TypeOK
    <2> QED
        BY <2>1 DEF Promise!SNext, Promise!Ask, Holders
<1>3. ASSUME NEW t \in Transfers, Acquire(t) PROVE Promise!SNext
    <2>1. t \in ask /\ ask' = ask \ {t} /\ in' = in \cup {t}
        BY <1>3 DEF Acquire, Goto, At, PermitInv, TypeOK
    <2>2. Cardinality(in) < MAX
        BY <1>3 DEF Acquire, PermitInv, CapKept, Holders
    <2> QED
        BY <2>1, <2>2, SameCardinality DEF Promise!SNext, Promise!EnterSome, Promise!Enter, Holders
<1>4. ASSUME NEW t \in Transfers, DropGuard(t) PROVE Promise!SNext
    <2>1. t \in in /\ ask' = ask /\ in' = in \ {t}
        BY <1>4 DEF DropGuard, Goto, At, PermitInv, TypeOK
    <2> QED
        BY <2>1 DEF Promise!SNext, Promise!Leave, Holders
<1>5. ASSUME NEW t \in Transfers, Park(t) \/ SpuriousWakeup(t) PROVE Stutter
    BY <1>5 DEF Park, SpuriousWakeup, Goto, At, PermitInv, TypeOK
<1>6. ASSUME NEW t \in Transfers, NotifyOne(t) PROVE Stutter
    BY <1>6 DEF NotifyOne, Goto, At, PermitInv, TypeOK
<1> QED
    BY <1>s, <1>1, <1>2, <1>3, <1>4, <1>5, <1>6 DEF Next, Run

(* The permit implements the safety part of the semaphore: admissions and   *)
(* releases are exactly those of a counting semaphore of MAX, whatever the  *)
(* condition variable does in between.                                      *)
THEOREM PermitSimulatesSemaphore == Spec => Promise!SSafety
<1>1. Init => Promise!SInit
    <2>1. ASSUME Init PROVE \A l : l # "unborn" => At(l) = {}
        BY <2>1 DEF Init, At
    <2> QED
        BY <2>1 DEF Promise!SInit, Holders
<1>2. PermitInv /\ [Next]_vars => [Promise!SNext]_(Promise!svars)
    BY StepSimulates
<1> QED
    BY <1>1, <1>2, PermitInvariant, PTL DEF Spec, Promise!SSafety
=============================================================================
