----------------------------- MODULE MCEditSync -----------------------------
EXTENDS EditSync

CONSTANTS x1, x2, e1, e2, l1, l2, r1, r2

MCTwo == {x1, x2}
MCEdits == {e1, e2}
MCLocals == {l1, l2}
MCCacheOnly == {l1}
MCOneRemote == {r1}
MCRemotes == {r1, r2}

(* The server's file, and a longer one in the other pane that begins alike. *)
MCInitial == {(r1 :> <<1>>) @@ (l1 :> None) @@ (l2 :> <<1, 2>>)}
MCCache == r1 :> l1
MCOwn == r1 :> {1}
MCSizes == {2}

(* Two remote files of one name.                                            *)
MCNamesakes == {(r1 :> <<1>>) @@ (r2 :> <<2>>) @@ (l1 :> None)}
MCSharedCache == (r1 :> l1) @@ (r2 :> l1)
MCTwoOwn == (r1 :> {1}) @@ (r2 :> {2})

SymmetricFiles == Permutations(MCTwo) \cup Permutations(MCEdits)
=============================================================================
