--------------------------- MODULE TransferPermit ---------------------------
(***************************************************************************)
(* The permit that caps the concurrent transfer sessions of one SFTP tab   *)
(* (sftp.rs, struct Permit and the transfer threads of the worker): a      *)
(* counter under a mutex, a condition variable, and a guard whose drop     *)
(* decrements the counter and THEN, with the mutex released, notifies one  *)
(* waiter.  A section under the mutex is one action.                       *)
(***************************************************************************)
EXTENDS Naturals, FiniteSets

CONSTANTS
    Transfers,   \* the transfer threads the worker may spawn
    MAX          \* Permit::MAX

ASSUME PermitAssumption == IsFiniteSet(Transfers) /\ MAX \in Nat \ {0}

VARIABLES
    count,   \* Permit.count
    pc       \* where each transfer thread is

vars == <<count, pc>>

(* "unborn"    not spawned yet          "waiting"   parked in free.wait()   *)
(* "acquiring" before the lock          "woken"     returned from the wait, *)
(* "holding"   owns a PermitGuard                   contends for the lock   *)
(* "notifying" count decremented, notify_one not called yet                 *)
(* "finished"  the thread has ended                                         *)
PC == {"unborn", "acquiring", "waiting", "woken", "holding", "notifying", "finished"}

At(l) == {t \in Transfers : pc[t] = l}

Goto(t, l) == pc' = [pc EXCEPT ![t] = l]

Init ==
    /\ count = 0
    /\ pc = [t \in Transfers |-> "unborn"]

(* The worker handles SftpMsg::Transfer: it spawns the thread.              *)
Spawn(t) ==
    /\ pc[t] = "unborn"
    /\ Goto(t, "acquiring")
    /\ UNCHANGED count

(* Mutant: the loop of acquire() as an if, a woken thread does not re-check. *)
AcquireWithIf(t) ==
    /\ pc[t] = "woken" \/ (pc[t] = "acquiring" /\ count < MAX)
    /\ count' = count + 1
    /\ Goto(t, "holding")

(* acquire() takes the lock, or wait() has re-taken it: the loop condition  *)
(* is false, the permit is granted.                                         *)
Acquire(t) ==
    /\ pc[t] \in {"acquiring", "woken"}
    /\ count < MAX
    /\ count' = count + 1
    /\ Goto(t, "holding")

(* The loop condition is true: the thread parks, releasing the lock.        *)
Park(t) ==
    /\ pc[t] \in {"acquiring", "woken"}
    /\ count >= MAX
    /\ Goto(t, "waiting")
    /\ UNCHANGED count

(* A condition variable may return from wait() unasked.                     *)
SpuriousWakeup(t) ==
    /\ pc[t] = "waiting"
    /\ Goto(t, "woken")
    /\ UNCHANGED count

(* Mutant: the drop skips the decrement while somebody waits.               *)
DropKeepsCount(t) ==
    /\ pc[t] = "holding"
    /\ count' = IF At("waiting") = {} THEN count - 1 ELSE count
    /\ Goto(t, "notifying")

(* The transfer is over (its own session, the copy, the done event): the    *)
(* guard is dropped, first half: the decrement under the lock.              *)
DropGuard(t) ==
    /\ pc[t] = "holding"
    /\ count' = count - 1
    /\ Goto(t, "notifying")

(* Mutant: the guard is dropped without notify_one.                         *)
DropSilently(t) ==
    /\ pc[t] = "notifying"
    /\ Goto(t, "finished")
    /\ UNCHANGED count

(* Second half of the drop: notify_one, no lock held.  Any waiter may be    *)
(* the one that is woken; without a waiter the notification is lost.        *)
NotifyOne(t) ==
    /\ pc[t] = "notifying"
    /\ IF At("waiting") = {}
       THEN Goto(t, "finished")
       ELSE \E w \in At("waiting") :
               pc' = [pc EXCEPT ![t] = "finished", ![w] = "woken"]
    /\ UNCHANGED count

(* What the thread itself does once it is scheduled.                        *)
Run(t) == Acquire(t) \/ Park(t) \/ DropGuard(t) \/ NotifyOne(t)

Next == \E t \in Transfers : Spawn(t) \/ Run(t) \/ SpuriousWakeup(t)

(* Every spawned thread is scheduled and every transfer ends (ssh2 calls    *)
(* return or fail).  Nothing is assumed of the user spawning transfers, of  *)
(* spurious wakeups, or of which waiter notify_one picks.                   *)
Spec == Init /\ [][Next]_vars /\ \A t \in Transfers : WF_vars(Run(t))

-----------------------------------------------------------------------------
Holders == At("holding")

TypeOK ==
    /\ count \in 0..MAX
    /\ pc \in [Transfers -> PC]

(* The counter is exactly the number of live guards, so the cap of          *)
(* Permit::MAX sessions is kept although a woken thread re-checks the       *)
(* counter only after others may have overtaken it.                         *)
CapKept ==
    /\ count = Cardinality(Holders)
    /\ Cardinality(Holders) <= MAX

(* notify_one is called after the lock is released, so for a moment there   *)
(* is a free permit, a parked thread and nobody told.  Each free permit is  *)
(* then backed by a thread that will either take it or pass it on: no       *)
(* wakeup is lost, in any order of drops, arrivals and wakeups.             *)
NoLostWakeup ==
    At("waiting") # {} =>
        MAX - count <= Cardinality(At("woken")) + Cardinality(At("notifying"))

(* Every queued transfer eventually runs and ends.                          *)
EveryTransferEnds ==
    \A t \in Transfers : (pc[t] = "acquiring") ~> (pc[t] = "finished")

(* The permit implements the semaphore: a thread asks from its spawn on,    *)
(* and is inside while it holds the guard.                                  *)
Promise == INSTANCE Semaphore WITH
    Clients <- Transfers,
    Slots   <- MAX,
    asking  <- At("acquiring") \cup At("waiting") \cup At("woken"),
    inside  <- Holders

ImplementsSemaphore == Promise!SSpec

=============================================================================
