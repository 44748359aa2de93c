----------------------------- MODULE Semaphore -----------------------------
(***************************************************************************)
(* What the transfer permits of sftp.rs promise, with no counter, lock or  *)
(* condition variable: at most Slots clients are inside at a time, and while *)
(* there is room and somebody asks, somebody gets in.                      *)
(***************************************************************************)
EXTENDS Naturals, FiniteSets

CONSTANTS Clients, Slots

VARIABLES asking, inside

svars == <<asking, inside>>

SInit == asking = {} /\ inside = {}

Ask(c) ==
    /\ c \notin asking \cup inside
    /\ asking' = asking \cup {c}
    /\ UNCHANGED inside

Enter(c) ==
    /\ c \in asking
    /\ Cardinality(inside) < Slots
    /\ asking' = asking \ {c}
    /\ inside' = inside \cup {c}

Leave(c) ==
    /\ c \in inside
    /\ inside' = inside \ {c}
    /\ UNCHANGED asking

EnterSome == \E c \in Clients : Enter(c)

SNext == EnterSome \/ \E c \in Clients : Ask(c) \/ Leave(c)

SSafety == SInit /\ [][SNext]_svars

SSpec == SSafety /\ WF_svars(EnterSome)

=============================================================================
