------------------------------- MODULE Queues -------------------------------
(***************************************************************************)
(* What the properties of the command queues are stated with.  (SelectSeq  *)
(* would do for checking; its recursive definition is out of the provers'  *)
(* reach, the table below is not.)                                         *)
(***************************************************************************)
EXTENDS Naturals, Sequences

(* The elements of q that are in S, in their order.                         *)
Only(q, S) ==
    LET f[i \in 0..Len(q)] ==
            IF i = 0 THEN <<>>
            ELSE IF q[i] \in S THEN Append(f[i - 1], q[i]) ELSE f[i - 1]
    IN  f[Len(q)]

=============================================================================
