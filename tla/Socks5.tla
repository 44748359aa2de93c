------------------------------- MODULE Socks5 -------------------------------
(***************************************************************************)
(* socks5_target (tunnels.rs): what a dynamic tunnel reads from the socket *)
(* before the loop of Splice takes it over.  The client may send all it    *)
(* has to say at once, and more behind it; it may also stop anywhere.      *)
(***************************************************************************)
EXTENDS Splice

CONSTANT Asks   \* what a client may ask for

VARIABLES
    ask,     \* what this one asks for
    field,   \* the part that is read next
    need,    \* its length
    target   \* the address and the port that have been read

askVars == <<ask, field, need, target>>

(* The request as RFC 1928 encodes it, a greeting before it.                *)
Hello(a) ==
    <<a.version, Len(a.methods)>> \o a.methods
        \o <<a.again, a.command, 0, a.kind>>
        \o (IF a.kind = 3 THEN <<Len(a.addr)>> ELSE <<>>) \o a.addr \o a.port

ASSUME AskAssumption ==
    \A a \in Asks :
        /\ {a.version, a.again, a.command, a.kind} \subseteq 0..255
        /\ a.methods \in Seq(0..255) /\ Len(a.methods) <= 255
        /\ a.addr \in Seq(0..255) /\ Len(a.addr) <= 255
        /\ a.kind = 1 => Len(a.addr) = 4
        /\ a.kind = 4 => Len(a.addr) = 16
        /\ a.port \in Seq(0..255) /\ Len(a.port) = 2

AskInit ==
    /\ ask \in Asks
    /\ field = "greeting" /\ need = 2
    /\ target = <<>>

(* What the client's byte n says; behind the request it is payload.         *)
Says(n) == IF n <= Len(Hello(ask)) THEN Hello(ask)[n] ELSE 0

(* Mutant: the port comes with one big read.                                *)
ReadAhead ==
    /\ Len(wire["sock"]) >= need
    /\ wire' = [wire EXCEPT !["sock"] = IF field = "port" THEN <<>> ELSE SubSeq(@, need + 1, Len(@))]
    /\ skipped' = IF field = "port" THEN sent["sock"] ELSE skipped + need
    /\ UNCHANGED <<pc, eof, sEof, buf, got, sent, alive>>

(* read_exact: as many bytes as the field has, no more.                     *)
ReadExact ==
    /\ Len(wire["sock"]) >= need
    /\ wire' = [wire EXCEPT !["sock"] = SubSeq(@, need + 1, Len(@))]
    /\ skipped' = skipped + need
    /\ UNCHANGED <<pc, eof, sEof, buf, got, sent, alive>>

(* The field is as it should be and f of n bytes follows, or it is refused. *)
Follows(ok, f, n) ==
    /\ field' = IF ok THEN f ELSE "refused"
    /\ need' = IF ok THEN n ELSE 0

(* How the address is given decides how long it is.                         *)
AddressFollows(ok, k) ==
    \/ k = 1 /\ Follows(ok, "address", 4)
    \/ k = 3 /\ Follows(ok, "length", 1)
    \/ k = 4 /\ Follows(ok, "address", 16)
    \/ k \notin {1, 3, 4} /\ Follows(FALSE, "refused", 0)

ReadField ==
    LET b == [i \in 1..need |-> Says(wire["sock"][i])]
    IN  /\ ReadExact
        /\ \/ field = "greeting" /\ Follows(b[1] = 5, "methods", b[2])
           \/ field = "methods" /\ Follows(\E i \in 1..need : b[i] = 0, "request", 4)
           \/ field = "request" /\ AddressFollows(b[1] = 5 /\ b[2] = 1, b[4])
           \/ field = "length" /\ Follows(TRUE, "address", b[1])
           \/ field = "address" /\ Follows(TRUE, "port", 2)
           \/ field = "port" /\ Follows(TRUE, "read", 0)
        /\ target' = IF field \in {"address", "port"} THEN Append(target, b) ELSE target
        /\ UNCHANGED ask

-----------------------------------------------------------------------------
(* Properties *)

(* What the tunnel serves: a version, no authentication, CONNECT.           *)
Acceptable(a) ==
    /\ a.version = 5 /\ a.again = 5 /\ a.command = 1
    /\ a.kind \in {1, 3, 4}
    /\ \E i \in 1..Len(a.methods) : a.methods[i] = 0

=============================================================================
