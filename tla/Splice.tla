------------------------------- MODULE Splice -------------------------------
(***************************************************************************)
(* splice_channel (ssh.rs): the loop that copies bytes both ways between a *)
(* nonblocking SSH channel and a nonblocking TCP socket.  It carries the   *)
(* jump bridge, every connection of a local or dynamic tunnel, and every   *)
(* channel of a remote tunnel.                                             *)
(***************************************************************************)
EXTENDS Naturals, Sequences

CONSTANT MaxSend   \* bound: bytes each peer sends

ASSUME SpliceAssumption == MaxSend \in Nat

VARIABLES
    pc,     \* the statement of the loop
    wire,   \* bytes a peer has sent and the loop has not read
    eof,    \* the peer has closed its sending side
    sEof,   \* the loop's flag for the socket's end of file
    buf,    \* bytes read from an end, not yet written to the other one
    got,    \* bytes an end has been given
    sent,   \* number of bytes each peer has sent; byte n is n itself
    skipped, \* how many of the socket's were read before the loop began
    alive   \* the flag of the owning session

spliceVars == <<pc, wire, eof, sEof, buf, got, sent, skipped, alive>>

Ends == {"chan", "sock"}

Other(e) == IF e = "chan" THEN "sock" ELSE "chan"

(* The statements of the loop in their order, and the ways out of it.       *)
Loop == {"top", "read chan", "read sock", "write sock", "write chan", "check"}
Exit == {"complete", "stopped", "failed"}

After(l) ==
    CASE l = "top"        -> "read chan"
      [] l = "read chan"  -> "read sock"
      [] l = "read sock"  -> "write sock"
      [] l = "write sock" -> "write chan"
      [] l = "write chan" -> "check"
      [] l = "check"      -> "top"

Running == pc \notin Exit

SpliceInit ==
    /\ pc = "top"
    /\ wire = [e \in Ends |-> <<>>]
    /\ eof = [e \in Ends |-> FALSE]
    /\ sEof = FALSE
    /\ buf = [e \in Ends |-> <<>>]
    /\ got = [e \in Ends |-> <<>>]
    /\ sent = [e \in Ends |-> 0]
    /\ skipped = 0
    /\ alive = TRUE

Skipped(e) == IF e = "sock" THEN skipped ELSE 0

(* Channel::eof is true once the remote has closed and all it sent is read. *)
ChanEof == eof["chan"] /\ wire["chan"] = <<>>

-----------------------------------------------------------------------------
(* The loop *)

(* Mutant: the flag is looked at only when nothing is buffered.             *)
TopWhenFlushed ==
    /\ pc = "top"
    /\ pc' = IF alive \/ \E e \in Ends : buf[e] # <<>> THEN After("top") ELSE "stopped"
    /\ UNCHANGED <<wire, eof, sEof, buf, got, sent, skipped, alive>>

(* The flag is looked at once per turn.                                     *)
Top ==
    /\ pc = "top"
    /\ pc' = IF alive THEN After("top") ELSE "stopped"
    /\ UNCHANGED <<wire, eof, sEof, buf, got, sent, skipped, alive>>

(* Mutant: the whole read array goes to the buffer, not the n bytes read.   *)
TakeWholeArray(e) ==
    \E n \in 1..Len(wire[e]) :
        /\ buf' = [buf EXCEPT ![e] = Append(@ \o SubSeq(wire[e], 1, n), 0)]
        /\ wire' = [wire EXCEPT ![e] = SubSeq(@, n + 1, Len(@))]

(* Some of what has arrived goes to the end's buffer.                       *)
Take(e) ==
    \E n \in 1..Len(wire[e]) :
        /\ buf' = [buf EXCEPT ![e] = @ \o SubSeq(wire[e], 1, n)]
        /\ wire' = [wire EXCEPT ![e] = SubSeq(@, n + 1, Len(@))]

(* A read of the channel that has nothing returns Ok(0) or WouldBlock: both *)
(* are ignored.                                                             *)
ReadChan ==
    /\ pc = "read chan"
    /\ pc' = After("read chan")
    /\ IF wire["chan"] = <<>> THEN UNCHANGED <<wire, buf>> ELSE Take("chan")
    /\ UNCHANGED <<eof, sEof, got, sent, skipped, alive>>

(* Mutant: the socket's Ok(0) is ignored, as the channel's is.              *)
ReadSockNoEof ==
    /\ pc = "read sock"
    /\ pc' = After("read sock")
    /\ IF wire["sock"] = <<>> THEN UNCHANGED <<wire, buf>> ELSE Take("sock")
    /\ UNCHANGED <<eof, sEof, got, sent, skipped, alive>>

(* The socket's Ok(0) is its end of file, and it is not read again.         *)
ReadSock ==
    /\ pc = "read sock"
    /\ pc' = After("read sock")
    /\ IF wire["sock"] = <<>>
       THEN sEof' = (sEof \/ eof["sock"]) /\ UNCHANGED <<wire, buf>>
       ELSE Take("sock") /\ UNCHANGED sEof
    /\ UNCHANGED <<eof, got, sent, skipped, alive>>

WriteAt(e) == IF e = "chan" THEN "write chan" ELSE "write sock"

(* Mutant: a short write forgets the rest of the buffer.                    *)
WriteForgetful(e) ==
    /\ pc = WriteAt(e)
    /\ pc' = After(WriteAt(e))
    /\ \E n \in 0..Len(buf[Other(e)]) :
          /\ got' = [got EXCEPT ![e] = @ \o SubSeq(buf[Other(e)], 1, n)]
          /\ buf' = [buf EXCEPT ![Other(e)] = IF n = 0 THEN @ ELSE <<>>]
    /\ UNCHANGED <<wire, eof, sEof, sent, skipped, alive>>

(* Write to an end as much as it takes (the inner while loop, which breaks  *)
(* on Ok(0) and WouldBlock).                                                *)
WriteTo(e) ==
    /\ pc = WriteAt(e)
    /\ pc' = After(WriteAt(e))
    /\ \E n \in 0..Len(buf[Other(e)]) :
          /\ got' = [got EXCEPT ![e] = @ \o SubSeq(buf[Other(e)], 1, n)]
          /\ buf' = [buf EXCEPT ![Other(e)] = SubSeq(@, n + 1, Len(@))]
    /\ UNCHANGED <<wire, eof, sEof, sent, skipped, alive>>

(* Mutant: the exit test forgets what is still buffered for the socket.     *)
CheckEarly ==
    /\ pc = "check"
    /\ pc' = IF ChanEof /\ sEof /\ buf["sock"] = <<>> THEN "complete" ELSE After("check")
    /\ UNCHANGED <<wire, eof, sEof, buf, got, sent, skipped, alive>>

(* Both ends are over and both buffers empty: the only orderly way out.     *)
Check ==
    /\ pc = "check"
    /\ pc' = IF ChanEof /\ sEof /\ buf["sock"] = <<>> /\ buf["chan"] = <<>>
             THEN "complete" ELSE After("check")
    /\ UNCHANGED <<wire, eof, sEof, buf, got, sent, skipped, alive>>

(* Any read or write may return an error: connection reset, channel closed. *)
Fail ==
    /\ \/ pc = "read chan" /\ ~ChanEof
       \/ pc = "read sock" /\ ~sEof
       \/ pc = "write sock" /\ buf["chan"] # <<>>
       \/ pc = "write chan" /\ buf["sock"] # <<>>
    /\ pc' = "failed"
    /\ UNCHANGED <<wire, eof, sEof, buf, got, sent, skipped, alive>>

-----------------------------------------------------------------------------
(* The peers and the owner *)

PeerSends(e) ==
    /\ ~eof[e]
    /\ sent' = [sent EXCEPT ![e] = @ + 1]
    /\ wire' = [wire EXCEPT ![e] = Append(@, sent[e] + 1)]
    /\ UNCHANGED <<pc, eof, sEof, buf, got, skipped, alive>>

PeerCloses(e) ==
    /\ ~eof[e]
    /\ eof' = [eof EXCEPT ![e] = TRUE]
    /\ UNCHANGED <<pc, wire, sEof, buf, got, sent, skipped, alive>>

OwnerEnds ==
    /\ alive
    /\ alive' = FALSE
    /\ UNCHANGED <<pc, wire, eof, sEof, buf, got, sent, skipped>>

Step == Top \/ ReadChan \/ ReadSock \/ Check \/ \E e \in Ends : WriteTo(e)

Environment ==
    \/ OwnerEnds
    \/ \E e \in Ends : (sent[e] < MaxSend /\ PeerSends(e)) \/ PeerCloses(e)

SpliceNext == (Running /\ (Step \/ Fail)) \/ Environment

(* The thread is scheduled.  Peers may send, close, or stay silent, and may *)
(* accept or refuse bytes.                                                  *)
SpliceSpec == SpliceInit /\ [][SpliceNext]_spliceVars /\ WF_spliceVars(Running /\ Step)

-----------------------------------------------------------------------------
(* Properties *)

SpliceTypeOK ==
    /\ pc \in Loop \cup Exit
    /\ wire \in [Ends -> Seq(Nat)]
    /\ eof \in [Ends -> BOOLEAN]
    /\ sEof \in BOOLEAN
    /\ buf \in [Ends -> Seq(Nat)]
    /\ got \in [Ends -> Seq(Nat)]
    /\ sent \in [Ends -> Nat]
    /\ skipped \in 0..sent["sock"]
    /\ alive \in BOOLEAN

(* Partial reads and writes, errors and the owner's end never lose, double  *)
(* or reorder a byte: what one peer sent is what the other got, followed by *)
(* what is buffered and what is on the wire, from the first byte on that no *)
(* handshake has read.                                                      *)
BytesInOrder ==
    \A e \in Ends :
        got[Other(e)] \o buf[e] \o wire[e]
            = [i \in 1..sent[e] - Skipped(e) |-> Skipped(e) + i]

(* An orderly exit leaves nothing behind: both peers had closed and each    *)
(* got every byte of the other.                                             *)
CompleteDeliversAll ==
    pc = "complete" => \A e \in Ends : eof[e] /\ Len(got[Other(e)]) = sent[e] - Skipped(e)

(* The comment on splice_channel says it copies until either side closes.   *)
(* It takes both: when both have closed and all is delivered it returns,    *)
(* although neither end wakes it (with one side silent it goes on).         *)
BothClosedEndSplice ==
    (\A e \in Ends : eof[e] /\ wire[e] = <<>> /\ buf[e] = <<>>) ~> ~Running

=============================================================================
