---------------------------- MODULE MCKnownHosts ----------------------------
EXTENDS KnownHosts, TLC

CONSTANTS c1, c2, k1, k2

MCConns == {c1, c2}
MCKeys == {k1, k2}

(* Two servers behind one address, one of them on port 22.                  *)
MCServers == {"plain", "ported"}
MCNames == [s \in MCServers |-> {"plain", s}]
MCLine == [s \in MCServers |-> s]

Symmetric == Permutations(MCConns) \cup Permutations(MCKeys)
=============================================================================
