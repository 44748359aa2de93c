------------------------------ MODULE Terminal ------------------------------
(***************************************************************************)
(* What a terminal back end promises its tab, with no queue, buffer, map   *)
(* or thread: a line is opened once and ends once; while it lasts, what it *)
(* is given goes out in order; told to end, it ends.  ssh.rs and serial.rs *)
(* keep this promise in different ways.                                    *)
(***************************************************************************)
EXTENDS Naturals, Sequences

CONSTANTS Lines, Input

VARIABLES
    phase,   \* "new", "open", "ending" (told to end, or about to) or "over"
    given,   \* what was accepted of the user's input
    taken    \* what the shell, or the device, has got of it

tvars == <<phase, given, taken>>

Lasts(l) == phase[l] \in {"open", "ending"}

TInit ==
    /\ phase = [l \in Lines |-> "new"]
    /\ given = [l \in Lines |-> <<>>]
    /\ taken = [l \in Lines |-> <<>>]

Open(l) ==
    /\ phase[l] = "new"
    /\ phase' = [phase EXCEPT ![l] = "open"]
    /\ UNCHANGED <<given, taken>>

Give(l, i) ==
    /\ Lasts(l)
    /\ given' = [given EXCEPT ![l] = Append(@, i)]
    /\ UNCHANGED <<phase, taken>>

(* More of what was given goes out, in order.                               *)
Deliver(l) ==
    /\ Lasts(l)
    /\ \E n \in Len(taken[l])..Len(given[l]) :
           taken' = [taken EXCEPT ![l] = SubSeq(given[l], 1, n)]
    /\ UNCHANGED given

Take(l) == Deliver(l) /\ UNCHANGED phase

(* Told by the page, or a failure that will end it.  Open lines among ls.   *)
TellEnd(ls) ==
    /\ phase' = [l \in Lines |-> IF l \in ls /\ phase[l] = "open" THEN "ending" ELSE phase[l]]
    /\ UNCHANGED <<given, taken>>

(* The end loses what was not taken, and nothing is given afterwards.       *)
End(l) ==
    /\ Deliver(l)
    /\ phase' = [phase EXCEPT ![l] = "over"]

TNext ==
    \/ \E ls \in SUBSET Lines : TellEnd(ls)
    \/ \E l \in Lines : Open(l) \/ Take(l) \/ End(l) \/ \E i \in Input : Give(l, i)

TSafety == TInit /\ [][TNext]_tvars

TSpec == TSafety /\ \A l \in Lines : WF_tvars(phase[l] = "ending" /\ End(l))

=============================================================================
