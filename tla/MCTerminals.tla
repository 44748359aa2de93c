---------------------------- MODULE MCTerminals ----------------------------
(* The two terminal back ends have no state in common: a behaviour is one   *)
(* of either, and the other stays where it starts.                          *)
EXTENDS SshSession, SerialPort

CONSTANTS s1, h1, a, b, t1, t2

VARIABLE back

MCSessions == {s1}
MCHosts == {h1}
MCInputs == {a, b}
MCConsoles == {t1, t2}
MCKeys == {a}

MCInit == back \in {"ssh", "serial"} /\ SshInit /\ SerialInit

MCNext ==
    \/ back = "ssh" /\ SshNext /\ UNCHANGED <<back, serialVars>>
    \/ back = "serial" /\ SerialNext /\ UNCHANGED <<back, sshVars>>

MCSpec == MCInit /\ [][MCNext]_<<back, sshVars, serialVars>> /\ SshFairness /\ SerialFairness

(* What a tab may count on, whichever back end it has: a line that is told  *)
(* to end ends, takes its input in order while it lasts (the pump's drain   *)
(* and partial writes, the worker's loop), and accepts none afterwards.     *)
ImplementsTerminal == SshLine!TSpec /\ PortLine!TSpec
=============================================================================
