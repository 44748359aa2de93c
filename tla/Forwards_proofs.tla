--------------------------- MODULE Forwards_proofs ---------------------------
(***************************************************************************)
(* For every number of bytes: the splice loses, doubles and reorders       *)
(* nothing, and an orderly exit has delivered everything, on its own and   *)
(* in the threads of the tunnels and of the jump bridge.  For every SOCKS  *)
(* request: the handshake takes its bytes and none behind them.            *)
(* For every block of an X client and every way of cutting it into reads:  *)
(* the X server sees the local cookie in its place and all that follows.   *)
(***************************************************************************)
EXTENDS Forwards, SequenceTheorems, TLAPS

Byte == Nat

(* Why the exit test is enough: the flag for the socket's end of file is    *)
(* only set once the wire is empty and nothing more can arrive, and after   *)
(* the exit both peers are past sending.                                    *)
Ending ==
    /\ sEof => eof["sock"] /\ wire["sock"] = <<>>
    /\ pc = "complete" =>
          ChanEof /\ sEof /\ buf["sock"] = <<>> /\ buf["chan"] = <<>>

SpliceInv == SpliceTypeOK /\ BytesInOrder /\ Ending

-----------------------------------------------------------------------------
(* Sequences *)

(* A partial read or write splits a buffer in two and loses nothing.        *)
LEMMA SplitWhole ==
    ASSUME NEW T, NEW q \in Seq(T), NEW n \in 0..Len(q)
    PROVE  /\ SubSeq(q, 1, n) \in Seq(T)
           /\ SubSeq(q, n + 1, Len(q)) \in Seq(T)
           /\ SubSeq(q, 1, n) \o SubSeq(q, n + 1, Len(q)) = q
<1>1. Len(q) \in Nat /\ \A i \in 1..Len(q) : q[i] \in T
    BY LenProperties, ElementOfSeq
<1>2. SubSeq(q, 1, n) \in Seq(T)
    BY <1>1, SubSeqProperties
<1>3. SubSeq(q, n + 1, Len(q)) \in Seq(T)
    BY <1>1, SubSeqProperties
<1>4. SubSeq(q, 1, n) \o SubSeq(q, n + 1, Len(q)) = SubSeq(q, 1, Len(q))
    <2>1. 1 \in 1..Len(q) + 1 /\ n \in 1 - 1..Len(q) /\ Len(q) \in n..Len(q)
        BY <1>1
    <2> QED
        BY <2>1, ConcatAdjacentSubSeq
<1> QED
    BY <1>2, <1>3, <1>4, SubSeqFull

(* Concatenation under a name of its own: the solvers instantiate laws of   *)
(* an operator they need not look into.                                     *)
Cat(p, q) == p \o q

LEMMA CatLaws ==
    ASSUME NEW T
    PROVE  /\ \A p, q \in Seq(T) : Cat(p, q) \in Seq(T)
           /\ \A p, q, r \in Seq(T) : Cat(Cat(p, q), r) = Cat(p, Cat(q, r))
<1>1. ASSUME NEW p \in Seq(T), NEW q \in Seq(T)
      PROVE  Cat(p, q) \in Seq(T)
    BY ConcatProperties DEF Cat
<1>2. ASSUME NEW p \in Seq(T), NEW q \in Seq(T), NEW r \in Seq(T)
      PROVE  Cat(Cat(p, q), r) = Cat(p, Cat(q, r))
    BY ConcatAssociative DEF Cat
<1> QED
    BY <1>1, <1>2

(* Moving the head of the wire to the end of the buffer.                    *)
LEMMA ReadKeepsOrder ==
    ASSUME NEW T, NEW g \in Seq(T), NEW b \in Seq(T), NEW w \in Seq(T),
           NEW n \in 0..Len(w)
    PROVE  Cat(Cat(g, b \o SubSeq(w, 1, n)), SubSeq(w, n + 1, Len(w)))
               = Cat(Cat(g, b), w)
<1> DEFINE p == SubSeq(w, 1, n)
           r == SubSeq(w, n + 1, Len(w))
<1>1. p \in Seq(T) /\ r \in Seq(T) /\ Cat(p, r) = w
    BY SplitWhole DEF Cat
<1> HIDE DEF p, r
<1>2. Cat(Cat(g, Cat(b, p)), r) = Cat(Cat(g, b), w)
    BY <1>1, CatLaws
<1>3. Cat(b, p) = b \o p
    BY DEF Cat
<1> QED
    BY <1>2, <1>3 DEF p, r

(* Moving the head of the buffer to the end of what was delivered.          *)
LEMMA WriteKeepsOrder ==
    ASSUME NEW T, NEW g \in Seq(T), NEW b \in Seq(T), NEW w \in Seq(T),
           NEW n \in 0..Len(b)
    PROVE  Cat(Cat(g \o SubSeq(b, 1, n), SubSeq(b, n + 1, Len(b))), w)
               = Cat(Cat(g, b), w)
<1> DEFINE p == SubSeq(b, 1, n)
           r == SubSeq(b, n + 1, Len(b))
<1>1. p \in Seq(T) /\ r \in Seq(T) /\ Cat(p, r) = b
    BY SplitWhole DEF Cat
<1> HIDE DEF p, r
<1>2. Cat(Cat(Cat(g, p), r), w) = Cat(Cat(g, b), w)
    BY <1>1, CatLaws
<1>3. Cat(g, p) = g \o p
    BY DEF Cat
<1> QED
    BY <1>2, <1>3 DEF p, r

(* A byte sent is a byte at the end of the wire.                            *)
LEMMA SendKeepsOrder ==
    ASSUME NEW T, NEW g \in Seq(T), NEW b \in Seq(T), NEW w \in Seq(T), NEW x \in T
    PROVE  Cat(Cat(g, b), Append(w, x)) = Append(Cat(Cat(g, b), w), x)
<1> DEFINE y == <<x>>
<1>1. y \in Seq(T)
    OBVIOUS
<1>2. Append(w, x) = Cat(w, y)
    BY AppendIsConcat DEF Cat
<1>3. Cat(Cat(g, b), w) \in Seq(T)
    BY CatLaws
<1>4. ASSUME NEW q \in Seq(T) PROVE Append(q, x) = Cat(q, y)
    BY AppendIsConcat DEF Cat
<1> HIDE DEF y
<1>5. Cat(Cat(Cat(g, b), w), y) = Cat(Cat(g, b), Cat(w, y))
    BY <1>1, CatLaws
<1> QED
    BY <1>2, <1>3, <1>4, <1>5

LEMMA NextByte ==
    ASSUME NEW k \in Nat, NEW j \in Nat
    PROVE  Append([i \in 1..k |-> j + i], j + (k + 1)) = [i \in 1..k + 1 |-> j + i]
OBVIOUS

-----------------------------------------------------------------------------
LEMMA InitSpliceInv == SpliceInit => SpliceInv
<1> SUFFICES ASSUME SpliceInit PROVE SpliceInv
    OBVIOUS
<1>1. SpliceTypeOK
    <2>1. <<>> \in Seq(Nat) /\ 0 \in 0..0
        OBVIOUS
    <2> QED
        BY <2>1 DEF SpliceInit, Ends, SpliceTypeOK, Loop
<1>2. BytesInOrder
    BY DEF SpliceInit, BytesInOrder, Skipped, Other, Ends
<1>3. Ending
    BY DEF SpliceInit, Ending, ChanEof
<1> QED
    BY <1>1, <1>2, <1>3 DEF SpliceInv

(* The loop's successor is a label of the loop.                             *)
LEMMA AfterTyped == \A l \in Loop : After(l) \in Loop
BY DEF After, Loop

(* Steps that only hand bytes on.                                           *)
LEMMA OrderKept ==
    ASSUME BytesInOrder, UNCHANGED <<sent, skipped>>,
           \A d \in Ends : got'[Other(d)] \o buf'[d] \o wire'[d]
                               = got[Other(d)] \o buf[d] \o wire[d]
    PROVE  BytesInOrder'
<1>1. ASSUME NEW d \in Ends
      PROVE  got'[Other(d)] \o buf'[d] \o wire'[d]
                 = [i \in 1..sent'[d] - Skipped(d)' |-> Skipped(d)' + i]
  <2>1. Skipped(d)' = Skipped(d) /\ sent' = sent
      BY DEF Skipped
  <2>2. got[Other(d)] \o buf[d] \o wire[d]
            = [i \in 1..sent[d] - Skipped(d) |-> Skipped(d) + i]
      BY DEF BytesInOrder
  <2> QED
      BY <2>1, <2>2
<1> QED
    BY <1>1 DEF BytesInOrder

(* A read takes bytes from the wire to the buffer.                          *)
LEMMA TakeInv ==
    ASSUME SpliceTypeOK, BytesInOrder, NEW e \in Ends, Take(e),
           UNCHANGED <<got, sent, skipped>>
    PROVE  /\ wire' \in [Ends -> Seq(Byte)] /\ buf' \in [Ends -> Seq(Byte)]
           /\ BytesInOrder'
<1>0. PICK n \in 1..Len(wire[e]) :
          /\ buf' = [buf EXCEPT ![e] = @ \o SubSeq(wire[e], 1, n)]
          /\ wire' = [wire EXCEPT ![e] = SubSeq(@, n + 1, Len(@))]
    BY DEF Take
<1>1. \A d \in Ends : /\ wire[d] \in Seq(Byte) /\ buf[d] \in Seq(Byte)
                      /\ got[Other(d)] \in Seq(Byte)
    BY DEF SpliceTypeOK, Other, Ends, Byte
<1>2. n \in 0..Len(wire[e])
    OBVIOUS
<1>3. /\ SubSeq(wire[e], 1, n) \in Seq(Byte)
      /\ SubSeq(wire[e], n + 1, Len(wire[e])) \in Seq(Byte)
    BY <1>1, <1>2, SplitWhole
<1>4. wire' \in [Ends -> Seq(Byte)]
    BY <1>0, <1>3 DEF SpliceTypeOK, Byte
<1>5. buf[e] \o SubSeq(wire[e], 1, n) \in Seq(Byte)
    BY <1>1, <1>3, ConcatProperties
<1>6. buf' \in [Ends -> Seq(Byte)]
    BY <1>0, <1>5 DEF SpliceTypeOK, Byte
<1>7. got[Other(e)] \o buf'[e] \o wire'[e] = got[Other(e)] \o buf[e] \o wire[e]
    <2>1. /\ buf'[e] = buf[e] \o SubSeq(wire[e], 1, n)
          /\ wire'[e] = SubSeq(wire[e], n + 1, Len(wire[e]))
        BY <1>0 DEF SpliceTypeOK
    <2>2. Cat(Cat(got[Other(e)], buf'[e]), wire'[e])
              = Cat(Cat(got[Other(e)], buf[e]), wire[e])
        BY <2>1, <1>1, <1>2, ReadKeepsOrder
    <2> QED
        BY <2>2 DEF Cat
<1>8. \A d \in Ends \ {e} : buf'[d] = buf[d] /\ wire'[d] = wire[d]
    BY <1>0 DEF SpliceTypeOK
<1>9. \A d \in Ends : got[Other(d)] \o buf'[d] \o wire'[d]
                          = got[Other(d)] \o buf[d] \o wire[d]
    BY <1>7, <1>8
<1>10. \A d \in Ends : got'[Other(d)] \o buf'[d] \o wire'[d]
                          = got[Other(d)] \o buf[d] \o wire[d]
    BY <1>9
<1>11. BytesInOrder'
    BY <1>10, OrderKept
<1> QED
    BY <1>4, <1>6, <1>11

(* A write takes bytes from the buffer to the end's peer.                   *)
LEMMA WriteInv ==
    ASSUME SpliceInv, Running, NEW e \in Ends, WriteTo(e)
    PROVE  SpliceInv'
<1> USE DEF SpliceInv
<1> DEFINE o == Other(e)
<1>0. PICK n \in 0..Len(buf[o]) :
          /\ got' = [got EXCEPT ![e] = @ \o SubSeq(buf[o], 1, n)]
          /\ buf' = [buf EXCEPT ![o] = SubSeq(@, n + 1, Len(@))]
    BY DEF WriteTo
<1>a. /\ UNCHANGED <<wire, eof, sEof, sent, skipped, alive>>
      /\ pc' = After(pc) /\ pc \in Loop
    BY DEF WriteTo, WriteAt, Running, SpliceTypeOK, Exit
<1>o. o \in Ends /\ Other(o) = e /\ \A d \in Ends : Other(d) = e <=> d = o
    BY DEF Other, Ends
<1> HIDE DEF o
<1>1. got[e] \in Seq(Byte) /\ buf[o] \in Seq(Byte) /\ wire[o] \in Seq(Byte)
    BY <1>o DEF SpliceTypeOK, Byte
<1>2. /\ SubSeq(buf[o], 1, n) \in Seq(Byte)
      /\ SubSeq(buf[o], n + 1, Len(buf[o])) \in Seq(Byte)
    BY <1>1, SplitWhole
<1>3. buf' \in [Ends -> Seq(Byte)]
    BY <1>0, <1>2 DEF SpliceTypeOK, Byte
<1>4. got[e] \o SubSeq(buf[o], 1, n) \in Seq(Byte)
    BY <1>1, <1>2, ConcatProperties
<1>5. got' \in [Ends -> Seq(Byte)]
    BY <1>0, <1>4 DEF SpliceTypeOK, Byte
<1>6. SpliceTypeOK'
    BY <1>a, <1>3, <1>5, AfterTyped DEF SpliceTypeOK, Byte
<1>7. got'[Other(o)] \o buf'[o] \o wire[o] = got[Other(o)] \o buf[o] \o wire[o]
    <2>1. /\ got'[e] = got[e] \o SubSeq(buf[o], 1, n)
          /\ buf'[o] = SubSeq(buf[o], n + 1, Len(buf[o]))
        BY <1>0, <1>o DEF SpliceTypeOK
    <2>2. Cat(Cat(got'[e], buf'[o]), wire[o]) = Cat(Cat(got[e], buf[o]), wire[o])
        BY <2>1, <1>1, WriteKeepsOrder
    <2> QED
        BY <2>2, <1>o DEF Cat
<1>8. \A d \in Ends \ {o} : got'[Other(d)] = got[Other(d)] /\ buf'[d] = buf[d]
    BY <1>0, <1>o DEF SpliceTypeOK, Other, Ends
<1>9. \A d \in Ends : got'[Other(d)] \o buf'[d] \o wire[d]
                          = got[Other(d)] \o buf[d] \o wire[d]
    BY <1>7, <1>8
<1>b. BytesInOrder'
    BY <1>9, <1>a, OrderKept
<1>c. Ending'
    BY <1>a, AfterTyped DEF Ending, Loop
<1> QED
    BY <1>6, <1>b, <1>c

(* A read of the channel; its end of file is no event of the loop.          *)
LEMMA ReadChanInv ==
    ASSUME SpliceInv, Running, ReadChan
    PROVE  SpliceInv'
<1> USE DEF SpliceInv
<1>1. /\ UNCHANGED <<eof, sEof, got, sent, skipped, alive>>
      /\ pc' = "read sock" /\ wire'["sock"] = wire["sock"]
    BY DEF ReadChan, After, Take, SpliceTypeOK, Ends
<1>2. /\ wire' \in [Ends -> Seq(Byte)] /\ buf' \in [Ends -> Seq(Byte)]
      /\ BytesInOrder'
    <2>1. CASE UNCHANGED <<wire, buf>>
        BY <1>1, <2>1 DEF SpliceTypeOK, BytesInOrder, Skipped, Byte
    <2>2. CASE Take("chan")
        BY <1>1, <2>2, TakeInv DEF Ends
    <2> QED
        BY <2>1, <2>2 DEF ReadChan
<1>3. SpliceTypeOK'
    BY <1>1, <1>2 DEF SpliceTypeOK, Loop, Byte
<1>4. Ending'
    BY <1>1 DEF Ending
<1> QED
    BY <1>2, <1>3, <1>4

(* A read of the socket: once the flag is set there is nothing to take.     *)
LEMMA ReadSockInv ==
    ASSUME SpliceInv, Running, ReadSock
    PROVE  SpliceInv'
<1> USE DEF SpliceInv
<1>1. UNCHANGED <<eof, got, sent, skipped, alive>> /\ pc' = "write sock"
    BY DEF ReadSock, After
<1>2. CASE wire["sock"] = <<>>
    <2>1. UNCHANGED <<wire, buf>> /\ sEof' = (sEof \/ eof["sock"])
        BY <1>2 DEF ReadSock
    <2>2. SpliceTypeOK'
        BY <1>1, <2>1 DEF SpliceTypeOK, Loop, Ends
    <2>3. BytesInOrder'
        BY <1>1, <2>1 DEF BytesInOrder, Skipped
    <2>4. Ending'
        BY <1>1, <1>2, <2>1 DEF Ending
    <2> QED
        BY <2>2, <2>3, <2>4
<1>3. CASE wire["sock"] # <<>>
    <2>1. Take("sock") /\ UNCHANGED sEof
        BY <1>3 DEF ReadSock
    <2>2. /\ wire' \in [Ends -> Seq(Byte)] /\ buf' \in [Ends -> Seq(Byte)]
          /\ BytesInOrder'
        BY <1>1, <2>1, TakeInv DEF Ends
    <2>3. SpliceTypeOK'
        BY <1>1, <2>1, <2>2 DEF SpliceTypeOK, Loop, Byte
    <2>4. Ending'
        BY <1>1, <1>3, <2>1 DEF Ending
    <2> QED
        BY <2>2, <2>3, <2>4
<1> QED
    BY <1>2, <1>3

(* The steps that only move the control.                                    *)
LEMMA ControlInv ==
    ASSUME SpliceInv, Running, Top \/ Check \/ Fail
    PROVE  SpliceInv'
<1> USE DEF SpliceInv
<1>1. UNCHANGED <<wire, eof, sEof, buf, got, sent, skipped, alive>>
    BY DEF Top, Check, Fail
<1>2. pc' \in Loop \cup Exit
    BY DEF Top, Check, Fail, After, Loop, Exit
<1>3. pc' = "complete" => ChanEof /\ sEof /\ buf["sock"] = <<>> /\ buf["chan"] = <<>>
    BY DEF Top, Check, Fail, After
<1>4. SpliceTypeOK'
    BY <1>1, <1>2 DEF SpliceTypeOK
<1>5. BytesInOrder'
    BY <1>1 DEF BytesInOrder, Skipped
<1>6. Ending'
    BY <1>1, <1>3 DEF Ending, ChanEof
<1> QED
    BY <1>4, <1>5, <1>6

(* A peer sends only before it closes, so never after an orderly exit.      *)
LEMMA SendInv ==
    ASSUME SpliceInv, NEW e \in Ends, PeerSends(e)
    PROVE  SpliceInv'
<1> USE DEF SpliceInv
<1> DEFINE x == sent[e] + 1
           sk == Skipped(e)
<1>0. /\ UNCHANGED <<pc, eof, sEof, buf, got, skipped, alive>> /\ ~eof[e]
      /\ sent' = [sent EXCEPT ![e] = x]
      /\ wire' = [wire EXCEPT ![e] = Append(@, x)]
    BY DEF PeerSends
<1>1. /\ sent[e] \in Nat /\ x \in Byte /\ x \in Nat
      /\ sk \in 0..sent[e] /\ sent["sock"] \in Nat /\ skipped \in 0..sent["sock"]
    BY DEF SpliceTypeOK, Byte, Skipped, Ends
<1>2. /\ wire[e] \in Seq(Byte) /\ buf[e] \in Seq(Byte) /\ got[Other(e)] \in Seq(Byte)
    BY DEF SpliceTypeOK, Other, Ends, Byte
<1>e. /\ sent' \in [Ends -> Nat] /\ sent'[e] = sent[e] + 1
      /\ \A d \in Ends \ {e} : sent'[d] = sent[d]
    BY <1>0, <1>1 DEF SpliceTypeOK
<1>f. skipped' \in 0..sent'["sock"]
    BY <1>0, <1>1, <1>e DEF Ends
<1>g. sent[e] - sk \in Nat /\ x = sk + ((sent[e] - sk) + 1) /\ x - sk = (sent[e] - sk) + 1
    BY <1>1
<1> HIDE DEF x, sk
<1>3. Append(wire[e], x) \in Seq(Byte)
    BY <1>1, <1>2, AppendProperties
<1>4. wire' \in [Ends -> Seq(Byte)]
    BY <1>0, <1>3 DEF SpliceTypeOK, Byte
<1>6. SpliceTypeOK'
    BY <1>0, <1>4, <1>e, <1>f DEF SpliceTypeOK, Byte
<1>7. got[Other(e)] \o buf[e] \o wire'[e] = [i \in 1..sent'[e] - sk |-> sk + i]
    <2>1. wire'[e] = Append(wire[e], x) /\ sent'[e] = x
        BY <1>0 DEF SpliceTypeOK
    <2>2. Cat(Cat(got[Other(e)], buf[e]), Append(wire[e], x))
              = Append(Cat(Cat(got[Other(e)], buf[e]), wire[e]), x)
        <3> DEFINE g == got[Other(e)]
                   b == buf[e]
                   w == wire[e]
        <3>1. g \in Seq(Byte) /\ b \in Seq(Byte) /\ w \in Seq(Byte) /\ x \in Byte
            BY <1>1, <1>2
        <3> HIDE DEF g, b, w
        <3>2. Cat(Cat(g, b), Append(w, x)) = Append(Cat(Cat(g, b), w), x)
            BY <3>1, SendKeepsOrder
        <3> QED
            BY <3>2 DEF g, b, w
    <2>3. got[Other(e)] \o buf[e] \o wire[e] = [i \in 1..sent[e] - sk |-> sk + i]
        BY DEF BytesInOrder, sk
    <2>4. Append([i \in 1..sent[e] - sk |-> sk + i], x) = [i \in 1..x - sk |-> sk + i]
        <3> DEFINE k == sent[e] - sk
        <3>1. k \in Nat /\ sk \in Nat /\ x = sk + (k + 1) /\ x - sk = k + 1
            BY <1>1, <1>g
        <3> HIDE DEF k
        <3>2. Append([i \in 1..k |-> sk + i], sk + (k + 1)) = [i \in 1..k + 1 |-> sk + i]
            BY <3>1, NextByte
        <3> QED
            BY <3>1, <3>2 DEF k
    <2> QED
        BY <2>1, <2>2, <2>3, <2>4 DEF Cat
<1>8. \A d \in Ends \ {e} : wire'[d] = wire[d] /\ sent'[d] = sent[d]
    BY <1>0 DEF SpliceTypeOK
<1>9. BytesInOrder'
    <2>1. \A d \in Ends : Skipped(d)' = Skipped(d)
        BY <1>0 DEF Skipped
    <2>2. got'[Other(e)] \o buf'[e] \o wire'[e]
              = [i \in 1..sent'[e] - Skipped(e)' |-> Skipped(e)' + i]
        BY <1>0, <1>7, <2>1 DEF sk
    <2>3. ASSUME NEW d \in Ends \ {e}
          PROVE  got'[Other(d)] \o buf'[d] \o wire'[d]
                     = [i \in 1..sent'[d] - Skipped(d)' |-> Skipped(d)' + i]
        BY <1>0, <1>8, <2>1 DEF BytesInOrder
    <2> QED
        BY <2>2, <2>3 DEF BytesInOrder
<1>a. Ending'
    BY <1>0 DEF Ending, ChanEof, Ends, SpliceTypeOK
<1> QED
    BY <1>6, <1>9, <1>a

LEMMA PeerInv ==
    ASSUME SpliceInv, OwnerEnds \/ \E e \in Ends : PeerCloses(e)
    PROVE  SpliceInv'
<1> USE DEF SpliceInv
<1>1. UNCHANGED <<pc, wire, sEof, buf, got, sent, skipped>>
    BY DEF OwnerEnds, PeerCloses
<1>2. /\ eof' \in [Ends -> BOOLEAN] /\ alive' \in BOOLEAN
      /\ \A e \in Ends : eof[e] => eof'[e]
    BY DEF OwnerEnds, PeerCloses, SpliceTypeOK
<1>3. SpliceTypeOK'
    BY <1>1, <1>2 DEF SpliceTypeOK
<1>4. BytesInOrder'
    BY <1>1 DEF BytesInOrder, Skipped
<1>5. Ending'
    BY <1>1, <1>2 DEF Ending, ChanEof, Ends
<1> QED
    BY <1>3, <1>4, <1>5

(* A step of the loop, of a peer or of the owner, or none.                  *)
LEMMA SpliceStepInv ==
    ASSUME SpliceInv,
           \/ Running /\ (Step \/ Fail)
           \/ OwnerEnds
           \/ \E e \in Ends : PeerSends(e) \/ PeerCloses(e)
           \/ UNCHANGED spliceVars
    PROVE  SpliceInv'
<1>1. CASE UNCHANGED spliceVars
  <2>1. /\ pc' = pc /\ wire' = wire /\ eof' = eof /\ sEof' = sEof /\ buf' = buf
        /\ got' = got /\ sent' = sent /\ skipped' = skipped /\ alive' = alive
      BY <1>1 DEF spliceVars
  <2>2. BytesInOrder'
      BY <2>1, OrderKept DEF SpliceInv
  <2> QED
      BY <2>1, <2>2 DEF SpliceInv, SpliceTypeOK, Ending, ChanEof
<1>2. CASE Running /\ (Step \/ Fail)
    BY <1>2, ControlInv, ReadChanInv, ReadSockInv, WriteInv DEF Step
<1>3. CASE OwnerEnds \/ \E e \in Ends : PeerCloses(e)
    BY <1>3, PeerInv
<1>4. CASE \E e \in Ends : PeerSends(e)
    BY <1>4, SendInv
<1> QED
    BY <1>1, <1>2, <1>3, <1>4

LEMMA StepSpliceInv == SpliceInv /\ [SpliceNext]_spliceVars => SpliceInv'
BY SpliceStepInv DEF SpliceNext, Environment

LEMMA SpliceInvariant == SpliceSpec => []SpliceInv
<1>1. SpliceInit => SpliceInv
    BY InitSpliceInv
<1>2. SpliceInv /\ [SpliceNext]_spliceVars => SpliceInv'
    BY StepSpliceInv
<1> QED
    BY <1>1, <1>2, PTL DEF SpliceSpec

(* What one peer sent is what the other got, followed by what is buffered   *)
(* and what is on the wire, through partial reads and writes, errors, and   *)
(* the end of the owning session.                                           *)
THEOREM SpliceBytesInOrder == SpliceSpec => []BytesInOrder
<1>1. SpliceInv => BytesInOrder
    BY DEF SpliceInv
<1> QED
    BY <1>1, SpliceInvariant, PTL

(* An orderly exit, with everything empty, has delivered every byte.        *)
LEMMA CompleteFromInv ==
    ASSUME SpliceInv
    PROVE  CompleteDeliversAll
<1> SUFFICES ASSUME pc = "complete", NEW e \in Ends
             PROVE  eof[e] /\ Len(got[Other(e)]) = sent[e] - Skipped(e)
    BY DEF CompleteDeliversAll
<1> DEFINE sk == Skipped(e)
<1>1. eof[e] /\ wire[e] = <<>> /\ buf[e] = <<>>
    BY DEF SpliceInv, Ending, ChanEof, Ends
<1>2. got[Other(e)] \in Seq(Byte) /\ sent[e] \in Nat /\ sk \in 0..sent[e]
    BY DEF SpliceInv, SpliceTypeOK, Other, Ends, Byte, Skipped
<1>3. got[Other(e)] \o <<>> \o <<>> = got[Other(e)]
    BY <1>2, ConcatEmptySeq
<1>4. got[Other(e)] = [i \in 1..sent[e] - sk |-> sk + i]
    BY <1>1, <1>3 DEF SpliceInv, BytesInOrder
<1> HIDE DEF sk
<1>5. Len([i \in 1..sent[e] - sk |-> sk + i]) = sent[e] - sk
    <2>1. sent[e] - sk \in Nat
        BY <1>2
    <2> QED
        BY <2>1
<1> QED
    BY <1>1, <1>4, <1>5 DEF sk

(* When splice_channel returns in order, both peers had closed and each got *)
(* every byte of the other.                                                 *)
THEOREM SpliceCompleteDeliversAll == SpliceSpec => []CompleteDeliversAll
BY CompleteFromInv, SpliceInvariant, PTL

-----------------------------------------------------------------------------
(* Numbers of an X11 setup block *)

Bytes == Seq(Nat)

(* Rounding by arithmetic, as in the code, and by what rounding means.     *)
LEMMA PaddingRounds ==
    ASSUME NEW n \in Nat
    PROVE  Pad4(n) \in Nat /\ Pad4(n) \in n..n + 3 /\ Round4(n) = Pad4(n)
<1>1. Pad4(n) \in Nat /\ Pad4(n) \in n..n + 3 /\ Pad4(n) % 4 = 0
    BY DEF Pad4
<1>2. \A m \in n..n + 3 : m % 4 = 0 => m = Pad4(n)
    BY DEF Pad4
<1> HIDE DEF Pad4
<1> QED
    BY <1>1, <1>2 DEF Round4

(* A number written in the client's byte order is read back.               *)
LEMMA WordIsNumber ==
    ASSUME NEW b, NEW n \in Nat
    PROVE  /\ Word(b, n) \in Bytes /\ Len(Word(b, n)) = 2
           /\ n = IF BigEndian(b) THEN 256 * Word(b, n)[1] + Word(b, n)[2]
                                  ELSE Word(b, n)[1] + 256 * Word(b, n)[2]
<1>1. n \div 256 \in Nat /\ n % 256 \in Nat /\ n = 256 * (n \div 256) + (n % 256)
  <2>1. \A q \in Nat, r \in 0..255 : (256 * q + r) % 256 = r
      OBVIOUS
  <2>2. n \div 256 \in Nat /\ 256 * (n \div 256) <= n /\ n <= 256 * (n \div 256) + 255
      OBVIOUS
  <2>3. PICK q \in Nat : q = n \div 256
      BY <2>2
  <2>4. n - 256 * q \in 0..255 /\ n = 256 * q + (n - 256 * q)
      BY <2>2, <2>3
  <2>5. PICK r \in 0..255 : n = 256 * q + r
      BY <2>4
  <2> QED
      BY <2>1, <2>3, <2>5
<1>2. CASE BigEndian(b)
    BY <1>1, <1>2 DEF Word, Bytes
<1>3. CASE ~BigEndian(b)
    BY <1>1, <1>3 DEF Word, Bytes
<1> QED
    BY <1>2, <1>3

(* The announced lengths are in the first twelve bytes.                     *)
LEMMA BlockNumbers ==
    ASSUME NEW b \in Bytes, Len(b) >= 12
    PROVE  Num(b, 6) \in Nat /\ Num(b, 8) \in Nat /\ Total(b) \in Nat /\ Total(b) >= 12
<1>1. b[7] \in Nat /\ b[8] \in Nat /\ b[9] \in Nat /\ b[10] \in Nat
  <2>1. Len(b) \in Nat /\ \A i \in 1..Len(b) : b[i] \in Nat
      BY LenProperties, ElementOfSeq DEF Bytes
  <2> QED
      BY <2>1
<1>2. Num(b, 6) \in Nat /\ Num(b, 8) \in Nat
  <2>1. PICK i, j, k, l \in Nat : b[7] = i /\ b[8] = j /\ b[9] = k /\ b[10] = l
      BY <1>1
  <2>2. 6 + 1 = 7 /\ 6 + 2 = 8 /\ 8 + 1 = 9 /\ 8 + 2 = 10
      OBVIOUS
  <2>3. CASE BigEndian(b)
    <3>1. Num(b, 6) = (256 * i) + j /\ Num(b, 8) = (256 * k) + l
        BY <2>1, <2>2, <2>3 DEF Num
    <3> QED
        BY <3>1
  <2>4. CASE ~BigEndian(b)
    <3>1. Num(b, 6) = i + (256 * j) /\ Num(b, 8) = k + (256 * l)
        BY <2>1, <2>2, <2>4 DEF Num
    <3> QED
        BY <3>1
  <2> QED
      BY <2>3, <2>4
<1>3. \A n \in Nat : Pad4(n) \in Nat
    BY PaddingRounds
<1>4. 12 + Pad4(Num(b, 6)) + Pad4(Num(b, 8)) \in Nat /\ 12 + Pad4(Num(b, 6)) + Pad4(Num(b, 8)) >= 12
  <2>1. \A p, q \in Nat : 12 + p + q \in Nat /\ 12 + p + q >= 12
      OBVIOUS
  <2> QED
      BY <1>2, <1>3, <2>1
<1> QED
    BY <1>2, <1>4 DEF Total

(* The code waits for what the protocol calls a whole block.               *)
LEMMA CompleteIsWhole ==
    ASSUME NEW b \in Bytes
    PROVE  Complete(b) <=> Whole(b)
<1>1. Len(b) \in Nat
    BY LenProperties DEF Bytes
<1>2. CASE Len(b) >= 12
    BY <1>2, BlockNumbers, PaddingRounds DEF Complete, Whole, Total
<1> QED
    BY <1>2 DEF Complete, Whole

(* The same block with more behind it.                                      *)
LEMMA LongerBlock ==
    ASSUME NEW b \in Bytes, NEW d \in Bytes, Len(b) >= 12, Len(d) >= Len(b),
           \A i \in 1..12 : d[i] = b[i]
    PROVE  Num(d, 6) = Num(b, 6) /\ Num(d, 8) = Num(b, 8) /\ Total(d) = Total(b)
<1>1. d[1] = b[1] /\ d[7] = b[7] /\ d[8] = b[8] /\ d[9] = b[9] /\ d[10] = b[10]
    OBVIOUS
<1>2. BigEndian(d) <=> BigEndian(b)
    BY <1>1 DEF BigEndian
<1>3. Num(d, 6) = Num(b, 6) /\ Num(d, 8) = Num(b, 8)
  <2>1. 6 + 1 = 7 /\ 6 + 2 = 8 /\ 8 + 1 = 9 /\ 8 + 2 = 10
      OBVIOUS
  <2>2. CASE BigEndian(b)
      BY <1>1, <1>2, <2>1, <2>2 DEF Num
  <2>3. CASE ~BigEndian(b)
      BY <1>1, <1>2, <2>1, <2>3 DEF Num
  <2> QED
      BY <2>2, <2>3
<1> QED
    BY <1>3 DEF Total

-----------------------------------------------------------------------------
(* What rewrite_setup makes of a complete block *)

(* The new block, place by place, and what was behind the old one.          *)
Replaced(w, b) ==
    LET at == 32 + Pad4(Len(cookie))
    IN  /\ Len(w) = at + (Len(b) - Total(b))
        /\ \A i \in 1..6 : w[i] = b[i]
        /\ w[7] = Word(b, 18)[1] /\ w[8] = Word(b, 18)[2]
        /\ w[9] = Word(b, Len(cookie))[1] /\ w[10] = Word(b, Len(cookie))[2]
        /\ w[11] = b[11] /\ w[12] = b[12]
        /\ \A i \in 1..18 : w[12 + i] = Magic[i]
        /\ \A i \in 1..Len(cookie) : w[32 + i] = cookie[i]
        /\ \A i \in 1..Len(b) - Total(b) : w[at + i] = b[Total(b) + i]

(* What a piece put together of two, or cut out of one, holds.             *)
LEMMA Joined ==
    ASSUME NEW s \in Bytes, NEW t \in Bytes
    PROVE  /\ s \o t \in Bytes /\ Len(s \o t) = Len(s) + Len(t)
           /\ \A i \in 1..Len(s) : (s \o t)[i] = s[i]
           /\ \A i \in 1..Len(t) : (s \o t)[Len(s) + i] = t[i]
           /\ Len(s) \in Nat /\ Len(t) \in Nat
<1> DEFINE u == s \o t
<1>1. Len(s) \in Nat /\ Len(t) \in Nat
    BY LenProperties DEF Bytes
<1>2. /\ u \in Bytes /\ Len(u) = Len(s) + Len(t)
      /\ \A i \in 1..Len(s) + Len(t) : u[i] = IF i <= Len(s) THEN s[i] ELSE t[i - Len(s)]
    BY ConcatProperties DEF Bytes
<1> HIDE DEF u
<1>3. \A i \in 1..Len(s) : u[i] = s[i]
    BY <1>1, <1>2
<1>4. \A i \in 1..Len(t) : u[Len(s) + i] = t[i]
    BY <1>1, <1>2
<1> QED
    BY <1>1, <1>2, <1>3, <1>4 DEF u

LEMMA Cut ==
    ASSUME NEW s \in Bytes, NEW m \in Nat, NEW n \in Nat, 1 <= m, n <= Len(s)
    PROVE  /\ SubSeq(s, m, n) \in Bytes
           /\ Len(SubSeq(s, m, n)) = IF m <= n THEN n - m + 1 ELSE 0
           /\ m <= n => \A i \in 1..n - m + 1 : SubSeq(s, m, n)[i] = s[m + i - 1]
<1>1. \A i \in m..n : s[i] \in Nat
    BY LenProperties, ElementOfSeq DEF Bytes
<1> QED
    BY <1>1, SubSeqProperties DEF Bytes

LEMMA PaddedIs ==
    ASSUME NEW s \in Bytes
    PROVE  /\ Padded(s) \in Bytes /\ Len(Padded(s)) = Pad4(Len(s))
           /\ \A i \in 1..Len(s) : Padded(s)[i] = s[i]
<1> DEFINE n == Pad4(Len(s))
           k == n - Len(s)
<1>1. Len(s) \in Nat
    BY LenProperties DEF Bytes
<1>2. n \in Nat /\ n \in Len(s)..Len(s) + 3
    BY <1>1, PaddingRounds
<1> HIDE DEF n
<1>3. k \in Nat /\ Len(s) + k = n
    BY <1>1, <1>2
<1> HIDE DEF k
<1>4. Zeros(k) \in [1..k -> Nat]
    BY DEF Zeros
<1>5. Zeros(k) \in Bytes
  <2>1. Zeros(k) \in UNION {[1..m -> Nat] : m \in Nat}
      BY <1>3, <1>4
  <2> QED
      BY <2>1, SeqDef DEF Bytes
<1>6. Len(Zeros(k)) = k
    BY <1>3, <1>4, <1>5, LenProperties DEF Bytes
<1>7. Padded(s) = s \o Zeros(k)
    BY DEF Padded, n, k
<1>8. /\ s \o Zeros(k) \in Bytes /\ Len(s \o Zeros(k)) = n
      /\ \A i \in 1..Len(s) : (s \o Zeros(k))[i] = s[i]
    BY <1>3, <1>5, <1>6, Joined
<1> QED
    BY <1>7, <1>8 DEF n

LEMMA MagicIs == Magic \in Bytes /\ Len(Magic) = 18
<1>1. Magic \in [1..18 -> Nat]
    BY DEF Magic
<1>2. Magic \in Seq(Nat)
  <2>1. Magic \in UNION {[1..m -> Nat] : m \in Nat}
      BY <1>1
  <2> QED
      BY <2>1, SeqDef
<1> QED
    BY <1>1, <1>2, LenProperties DEF Bytes

LEMMA RewrittenIs ==
    ASSUME cookie \in Bytes, NEW b \in Bytes, Complete(b)
    PROVE  Rewritten(b) \in Bytes /\ Replaced(Rewritten(b), b)
<1> DEFINE lc == Len(cookie)
           pc4 == Pad4(lc)
           tot == Total(b)
           p1 == SubSeq(b, 1, 6)
           p2 == Word(b, 18)
           p3 == Word(b, lc)
           p4 == SubSeq(b, 11, 12)
           p5 == Padded(Magic)
           p6 == Padded(cookie)
           p7 == SubSeq(b, tot + 1, Len(b))
           r2 == p1 \o p2
           r3 == r2 \o p3
           r4 == r3 \o p4
           r5 == r4 \o p5
           r6 == r5 \o p6
           r7 == r6 \o p7
<1>1. lc \in Nat /\ Len(b) \in Nat
    BY LenProperties DEF Bytes
<1>2. pc4 \in Nat /\ pc4 \in lc..lc + 3
    BY <1>1, PaddingRounds
<1>3. Len(b) >= 12 /\ tot \in Nat /\ tot >= 12 /\ tot <= Len(b)
    BY BlockNumbers, <1>1 DEF Complete
<1>4. Magic \in Bytes /\ Len(Magic) = 18
    BY MagicIs
<1> HIDE DEF lc, tot
<1>5. p1 \in Bytes /\ Len(p1) = 6 /\ \A i \in 1..6 : p1[i] = b[i]
  <2>1. 6 <= Len(b) /\ 1 <= 1 /\ 1 <= 6
      BY <1>1, <1>3
  <2>2. /\ p1 \in Bytes /\ Len(p1) = (6 - 1) + 1
        /\ \A i \in 1..(6 - 1) + 1 : p1[i] = b[(1 + i) - 1]
      BY <2>1, Cut
  <2> HIDE DEF p1
  <2> QED
      BY <2>2
<1>6. p2 \in Bytes /\ Len(p2) = 2
    BY WordIsNumber
<1>7. p3 \in Bytes /\ Len(p3) = 2
    BY <1>1, WordIsNumber
<1>8. p4 \in Bytes /\ Len(p4) = 2 /\ p4[1] = b[11] /\ p4[2] = b[12]
  <2>1. 12 <= Len(b) /\ 1 <= 11 /\ 11 <= 12
      BY <1>1, <1>3
  <2>2. /\ p4 \in Bytes /\ Len(p4) = (12 - 11) + 1
        /\ \A i \in 1..(12 - 11) + 1 : p4[i] = b[(11 + i) - 1]
      BY <2>1, Cut
  <2> HIDE DEF p4
  <2> QED
      BY <2>2
<1>9. p5 \in Bytes /\ Len(p5) = 20 /\ \A i \in 1..18 : p5[i] = Magic[i]
  <2>1. Pad4(18) = 20
      BY DEF Pad4
  <2>2. /\ p5 \in Bytes /\ Len(p5) = Pad4(Len(Magic))
        /\ \A i \in 1..Len(Magic) : p5[i] = Magic[i]
      BY <1>4, PaddedIs
  <2> HIDE DEF p5
  <2> QED
      BY <1>4, <2>1, <2>2
<1>10. p6 \in Bytes /\ Len(p6) = pc4 /\ \A i \in 1..lc : p6[i] = cookie[i]
    BY PaddedIs DEF lc
<1>11. p7 \in Bytes /\ Len(p7) = Len(b) - tot /\ \A i \in 1..Len(b) - tot : p7[i] = b[tot + i]
  <2>1. 1 <= tot + 1 /\ Len(b) <= Len(b) /\ tot + 1 \in Nat
      BY <1>1, <1>3
  <2>2. /\ p7 \in Bytes /\ Len(p7) = IF tot + 1 <= Len(b) THEN (Len(b) - (tot + 1)) + 1 ELSE 0
        /\ tot + 1 <= Len(b) =>
              \A i \in 1..(Len(b) - (tot + 1)) + 1 : p7[i] = b[((tot + 1) + i) - 1]
      BY <1>1, <2>1, Cut
  <2> HIDE DEF p7
  <2>3. Len(b) - tot = IF tot + 1 <= Len(b) THEN (Len(b) - (tot + 1)) + 1 ELSE 0
      BY <1>1, <1>3
  <2>4. ASSUME NEW i \in 1..Len(b) - tot
        PROVE  /\ tot + 1 <= Len(b) /\ i \in 1..(Len(b) - (tot + 1)) + 1
               /\ ((tot + 1) + i) - 1 = tot + i
      BY <1>1, <1>3
  <2> QED
      BY <2>2, <2>3, <2>4
<1> HIDE DEF p1, p2, p3, p4, p5, p6, p7, pc4
<1>12. /\ r2 \in Bytes /\ Len(r2) = 8 /\ \A i \in 1..6 : r2[i] = b[i]
       /\ r2[7] = p2[1] /\ r2[8] = p2[2]
  <2>1. /\ r2 \in Bytes /\ Len(r2) = Len(p1) + Len(p2)
        /\ \A i \in 1..Len(p1) : r2[i] = p1[i]
        /\ \A i \in 1..Len(p2) : r2[Len(p1) + i] = p2[i]
      BY <1>5, <1>6, Joined
  <2> HIDE DEF r2
  <2> QED
      BY <1>5, <1>6, <2>1
<1> HIDE DEF r2
<1>13. /\ r3 \in Bytes /\ Len(r3) = 10 /\ \A i \in 1..8 : r3[i] = r2[i]
       /\ r3[9] = p3[1] /\ r3[10] = p3[2]
  <2>1. /\ r3 \in Bytes /\ Len(r3) = Len(r2) + Len(p3)
        /\ \A i \in 1..Len(r2) : r3[i] = r2[i]
        /\ \A i \in 1..Len(p3) : r3[Len(r2) + i] = p3[i]
      BY <1>12, <1>7, Joined
  <2> HIDE DEF r3
  <2> QED
      BY <1>12, <1>7, <2>1
<1> HIDE DEF r3
<1>14. /\ r4 \in Bytes /\ Len(r4) = 12 /\ \A i \in 1..10 : r4[i] = r3[i]
       /\ r4[11] = b[11] /\ r4[12] = b[12]
  <2>1. /\ r4 \in Bytes /\ Len(r4) = Len(r3) + Len(p4)
        /\ \A i \in 1..Len(r3) : r4[i] = r3[i]
        /\ \A i \in 1..Len(p4) : r4[Len(r3) + i] = p4[i]
      BY <1>13, <1>8, Joined
  <2> HIDE DEF r4
  <2> QED
      BY <1>13, <1>8, <2>1
<1> HIDE DEF r4
<1>15. /\ r5 \in Bytes /\ Len(r5) = 32 /\ \A i \in 1..12 : r5[i] = r4[i]
       /\ \A i \in 1..18 : r5[12 + i] = Magic[i]
  <2>1. /\ r5 \in Bytes /\ Len(r5) = Len(r4) + Len(p5)
        /\ \A i \in 1..Len(r4) : r5[i] = r4[i]
        /\ \A i \in 1..Len(p5) : r5[Len(r4) + i] = p5[i]
    <3>1. r4 \in Bytes /\ p5 \in Bytes
        BY <1>14, <1>9
    <3> QED
        BY <3>1, Joined
  <2> HIDE DEF r5
  <2> QED
      BY <1>14, <1>9, <2>1
<1> HIDE DEF r5
<1>16. /\ r6 \in Bytes /\ Len(r6) = 32 + pc4 /\ \A i \in 1..32 : r6[i] = r5[i]
       /\ \A i \in 1..lc : r6[32 + i] = cookie[i]
  <2>1. /\ r6 \in Bytes /\ Len(r6) = Len(r5) + Len(p6)
        /\ \A i \in 1..Len(r5) : r6[i] = r5[i]
        /\ \A i \in 1..Len(p6) : r6[Len(r5) + i] = p6[i]
    <3>1. r5 \in Bytes /\ p6 \in Bytes
        BY <1>15, <1>10
    <3> QED
        BY <3>1, Joined
  <2> HIDE DEF r6
  <2>2. \A i \in 1..lc : i \in 1..Len(p6)
      BY <1>1, <1>2, <1>10
  <2> QED
      BY <1>15, <1>10, <2>1, <2>2
<1> HIDE DEF r6
<1>17. /\ r7 \in Bytes /\ Len(r7) = (32 + pc4) + (Len(b) - tot)
       /\ \A i \in 1..32 + pc4 : r7[i] = r6[i]
       /\ \A i \in 1..Len(b) - tot : r7[(32 + pc4) + i] = b[tot + i]
  <2>1. /\ r7 \in Bytes /\ Len(r7) = Len(r6) + Len(p7)
        /\ \A i \in 1..Len(r6) : r7[i] = r6[i]
        /\ \A i \in 1..Len(p7) : r7[Len(r6) + i] = p7[i]
      BY <1>16, <1>11, Joined
  <2> HIDE DEF r7
  <2> QED
      BY <1>16, <1>11, <2>1
<1> HIDE DEF r7
<1>18. Rewritten(b) = r7
    BY <1>4 DEF Rewritten, r2, r3, r4, r5, r6, r7, p1, p2, p3, p4, p5, p6, p7, lc, tot
<1>19. /\ \A i \in 1..6 : r7[i] = b[i]
       /\ r7[7] = p2[1] /\ r7[8] = p2[2] /\ r7[9] = p3[1] /\ r7[10] = p3[2]
       /\ r7[11] = b[11] /\ r7[12] = b[12]
  <2>1. ASSUME NEW i \in 1..12 PROVE r7[i] = r4[i]
    <3>1. i \in 1..32 /\ i \in 1..32 + pc4
        BY <1>2
    <3>2. r7[i] = r6[i] /\ r6[i] = r5[i] /\ r5[i] = r4[i]
        BY <3>1, <1>15, <1>16, <1>17
    <3> QED
        BY <3>2
  <2>2. \A i \in 1..8 : r7[i] = r2[i]
      BY <2>1, <1>13, <1>14
  <2> QED
      BY <2>1, <2>2, <1>12, <1>13, <1>14
<1>20. ASSUME NEW i \in 1..18 PROVE r7[12 + i] = Magic[i]
  <2>1. 12 + i \in 1..32 /\ 12 + i \in 1..32 + pc4
      BY <1>2
  <2>2. r7[12 + i] = r6[12 + i] /\ r6[12 + i] = r5[12 + i] /\ r5[12 + i] = Magic[i]
      BY <2>1, <1>15, <1>16, <1>17
  <2> QED
      BY <2>2
<1>21. ASSUME NEW i \in 1..lc PROVE r7[32 + i] = cookie[i]
  <2>1. 32 + i \in 1..32 + pc4
      BY <1>1, <1>2
  <2>2. r7[32 + i] = r6[32 + i] /\ r6[32 + i] = cookie[i]
      BY <2>1, <1>16, <1>17
  <2> QED
      BY <2>2
<1>22. Len(r7) = (32 + pc4) + (Len(b) - tot)
    BY <1>1, <1>2, <1>3, <1>17
<1> QED
    BY <1>17, <1>18, <1>19, <1>20, <1>21, <1>22 DEF Replaced, lc, tot, pc4, p2, p3

(* What follows the block goes to the X server as it is.                    *)
LEMMA LongerReplaced ==
    ASSUME cookie \in Bytes, NEW b \in Bytes, NEW w \in Bytes, NEW s \in Bytes,
           Complete(b), Replaced(w, b)
    PROVE  Complete(b \o s) /\ Replaced(w \o s, b \o s)
<1> DEFINE d == b \o s
           v == w \o s
           lc == Len(cookie)
           pc4 == Pad4(lc)
           tot == Total(b)
<1>1. lc \in Nat /\ Len(b) \in Nat /\ Len(s) \in Nat /\ Len(w) \in Nat
    BY LenProperties DEF Bytes
<1>2. pc4 \in Nat /\ pc4 \in lc..lc + 3
    BY <1>1, PaddingRounds
<1>3. Len(b) >= 12 /\ tot \in Nat /\ tot <= Len(b)
    BY BlockNumbers, <1>1 DEF Complete
<1>4. /\ d \in Bytes /\ Len(d) = Len(b) + Len(s)
      /\ \A i \in 1..Len(b) : d[i] = b[i]
      /\ \A i \in 1..Len(s) : d[Len(b) + i] = s[i]
    BY Joined
<1>5. /\ v \in Bytes /\ Len(v) = Len(w) + Len(s)
      /\ \A i \in 1..Len(w) : v[i] = w[i]
      /\ \A i \in 1..Len(s) : v[Len(w) + i] = s[i]
    BY Joined
<1>6. /\ Len(w) = (32 + pc4) + (Len(b) - tot)
      /\ \A i \in 1..6 : w[i] = b[i]
      /\ w[7] = Word(b, 18)[1] /\ w[8] = Word(b, 18)[2]
      /\ w[9] = Word(b, lc)[1] /\ w[10] = Word(b, lc)[2]
      /\ w[11] = b[11] /\ w[12] = b[12]
      /\ \A i \in 1..18 : w[12 + i] = Magic[i]
      /\ \A i \in 1..lc : w[32 + i] = cookie[i]
      /\ \A i \in 1..Len(b) - tot : w[(32 + pc4) + i] = b[tot + i]
    BY DEF Replaced
<1> HIDE DEF d, v, lc, pc4, tot
<1>7. Len(d) >= 12 /\ Len(d) >= Len(b) /\ \A i \in 1..12 : d[i] = b[i]
    BY <1>1, <1>3, <1>4
<1>8. Total(d) = tot
    BY <1>3, <1>4, <1>7, LongerBlock DEF tot
<1>9. Complete(d)
    BY <1>1, <1>3, <1>4, <1>7, <1>8 DEF Complete
<1>10. ASSUME NEW n PROVE Word(d, n) = Word(b, n)
  <2>1. d[1] = b[1]
      BY <1>7
  <2> QED
      BY <2>1 DEF Word, BigEndian
<1>11. Len(w) = (32 + pc4) + (Len(b) - tot) /\ 32 + pc4 <= Len(w) /\ 32 + lc <= Len(w)
  <2>1. Len(w) = (32 + pc4) + (Len(b) - tot)
      BY <1>6
  <2> QED
      BY <2>1, <1>1, <1>2, <1>3
<1>12. \A i \in 1..12 : v[i] = w[i]
    BY <1>1, <1>2, <1>5, <1>11
<1>13. Len(v) = (32 + pc4) + (Len(d) - tot)
    BY <1>1, <1>2, <1>3, <1>4, <1>5, <1>11
<1>14. ASSUME NEW i \in 1..18 PROVE v[12 + i] = Magic[i]
  <2>1. 12 + i \in 1..Len(w)
      BY <1>1, <1>2, <1>11
  <2> QED
      BY <2>1, <1>5, <1>6
<1>15. ASSUME NEW i \in 1..lc PROVE v[32 + i] = cookie[i]
  <2>1. 32 + i \in 1..Len(w)
      BY <1>1, <1>11
  <2> QED
      BY <2>1, <1>5, <1>6
<1>16. ASSUME NEW i \in 1..Len(d) - tot PROVE v[(32 + pc4) + i] = d[tot + i]
  <2>1. CASE i <= Len(b) - tot
    <3>1. i \in 1..Len(b) - tot /\ tot + i \in 1..Len(b) /\ (32 + pc4) + i \in 1..Len(w)
        BY <1>1, <1>2, <1>3, <1>4, <1>11, <2>1
    <3> QED
        BY <3>1, <1>4, <1>5, <1>6
  <2>2. CASE ~(i <= Len(b) - tot)
    <3> DEFINE k == i - (Len(b) - tot)
    <3>1. k \in 1..Len(s) /\ tot + i = Len(b) + k /\ (32 + pc4) + i = Len(w) + k
        BY <1>1, <1>2, <1>3, <1>4, <1>11, <2>2
    <3> HIDE DEF k
    <3> QED
        BY <3>1, <1>4, <1>5
  <2> QED
      BY <2>1, <2>2
<1>17. Replaced(v, d)
  <2>1. ASSUME NEW i \in 1..6 PROVE v[i] = d[i]
    <3>1. i \in 1..12
        OBVIOUS
    <3> QED
        BY <3>1, <1>6, <1>7, <1>12
  <2>2. /\ v[7] = w[7] /\ v[8] = w[8] /\ v[9] = w[9] /\ v[10] = w[10]
        /\ v[11] = w[11] /\ v[12] = w[12] /\ d[11] = b[11] /\ d[12] = b[12]
      BY <1>7, <1>12
  <2>3. /\ v[7] = Word(d, 18)[1] /\ v[8] = Word(d, 18)[2]
        /\ v[9] = Word(d, lc)[1] /\ v[10] = Word(d, lc)[2]
        /\ v[11] = d[11] /\ v[12] = d[12]
      BY <1>6, <1>10, <2>2
  <2> QED
      BY <1>8, <1>13, <1>14, <1>15, <1>16, <2>1, <2>3 DEF Replaced, lc, pc4
<1> QED
    BY <1>9, <1>17 DEF d, v

(* The X protocol finds the cookie in the new block, and the rest behind it.*)
LEMMA ReplacedAuthorizes ==
    ASSUME cookie \in Bytes, NEW b \in Bytes, NEW w \in Bytes, Complete(b), Replaced(w, b)
    PROVE  Authorization(w) = [Authorization(b) EXCEPT !.name = Magic, !.data = cookie]
<1> DEFINE lc == Len(cookie)
           pc4 == Pad4(lc)
           tot == Total(b)
<1>1. lc \in Nat /\ Len(b) \in Nat /\ Len(w) \in Nat
    BY LenProperties DEF Bytes
<1>2. pc4 \in Nat /\ pc4 \in lc..lc + 3 /\ Round4(lc) = pc4
    BY <1>1, PaddingRounds
<1>3. Len(b) >= 12 /\ tot \in Nat /\ tot >= 12 /\ tot <= Len(b)
    BY BlockNumbers, <1>1 DEF Complete
<1>4. /\ Len(w) = (32 + pc4) + (Len(b) - tot)
      /\ \A i \in 1..6 : w[i] = b[i]
      /\ w[7] = Word(b, 18)[1] /\ w[8] = Word(b, 18)[2]
      /\ w[9] = Word(b, lc)[1] /\ w[10] = Word(b, lc)[2]
      /\ w[11] = b[11] /\ w[12] = b[12]
      /\ \A i \in 1..18 : w[12 + i] = Magic[i]
      /\ \A i \in 1..lc : w[32 + i] = cookie[i]
      /\ \A i \in 1..Len(b) - tot : w[(32 + pc4) + i] = b[tot + i]
    BY DEF Replaced
<1>5. 12 + (Round4(Num(b, 6)) + Round4(Num(b, 8))) = tot
  <2>1. Num(b, 6) \in Nat /\ Num(b, 8) \in Nat
      BY <1>3, BlockNumbers
  <2> QED
      BY <2>1, PaddingRounds DEF Total
<1> HIDE DEF lc, pc4, tot
<1>15. Len(w) = (32 + pc4) + (Len(b) - tot) /\ 32 + pc4 <= Len(w) /\ 32 + lc <= Len(w) /\ 32 <= Len(w)
  <2>1. Len(w) = (32 + pc4) + (Len(b) - tot)
      BY <1>4
  <2> QED
      BY <2>1, <1>1, <1>2, <1>3
<1>6. Num(w, 6) = 18 /\ Num(w, 8) = lc
  <2>1. w[1] = b[1]
      BY <1>4
  <2>2. BigEndian(w) <=> BigEndian(b)
      BY <2>1 DEF BigEndian
  <2>3. /\ 18 = IF BigEndian(b) THEN 256 * Word(b, 18)[1] + Word(b, 18)[2]
                                ELSE Word(b, 18)[1] + 256 * Word(b, 18)[2]
        /\ lc = IF BigEndian(b) THEN 256 * Word(b, lc)[1] + Word(b, lc)[2]
                                ELSE Word(b, lc)[1] + 256 * Word(b, lc)[2]
      BY <1>1, WordIsNumber
  <2>4. /\ Num(w, 6) = IF BigEndian(b) THEN 256 * w[7] + w[8] ELSE w[7] + 256 * w[8]
        /\ Num(w, 8) = IF BigEndian(b) THEN 256 * w[9] + w[10] ELSE w[9] + 256 * w[10]
      BY <2>2 DEF Num
  <2>5. w[7] = Word(b, 18)[1] /\ w[8] = Word(b, 18)[2] /\ w[9] = Word(b, lc)[1] /\ w[10] = Word(b, lc)[2]
      BY <1>4
  <2> QED
      BY <2>3, <2>4, <2>5
<1>7. Round4(18) = 20
  <2>1. Pad4(18) = 20
      BY DEF Pad4
  <2> QED
      BY <2>1, PaddingRounds
<1>8. Magic \in Bytes /\ Len(Magic) = 18
    BY MagicIs
<1>9. SubSeq(w, 13, 30) = Magic
  <2> DEFINE c == SubSeq(w, 13, 30)
  <2>1. 1 <= 13 /\ 30 <= Len(w) /\ 13 <= 30
      BY <1>1, <1>2, <1>3, <1>15
  <2>2. c \in Bytes /\ Len(c) = (30 - 13) + 1 /\ \A i \in 1..(30 - 13) + 1 : c[i] = w[(13 + i) - 1]
      BY <2>1, Cut
  <2> HIDE DEF c
  <2>3. Len(c) = Len(Magic)
      BY <1>8, <2>2
  <2>4. ASSUME NEW i \in 1..Len(c) PROVE c[i] = Magic[i]
    <3>1. i \in 1..18 /\ (13 + i) - 1 = 12 + i /\ i \in 1..(30 - 13) + 1
        BY <2>2
    <3> QED
        BY <1>4, <2>2, <3>1
  <2>5. c = Magic
      BY <1>8, <2>2, <2>3, <2>4, SeqEqual DEF Bytes
  <2> QED
      BY <2>5 DEF c
<1>10. SubSeq(w, 33, 32 + lc) = cookie
  <2> DEFINE c == SubSeq(w, 33, 32 + lc)
  <2>1. 1 <= 33 /\ 32 + lc <= Len(w) /\ 32 + lc \in Nat
      BY <1>1, <1>2, <1>3, <1>15
  <2>2. /\ c \in Bytes /\ Len(c) = IF 33 <= 32 + lc THEN ((32 + lc) - 33) + 1 ELSE 0
        /\ 33 <= 32 + lc => \A i \in 1..((32 + lc) - 33) + 1 : c[i] = w[(33 + i) - 1]
      BY <2>1, Cut
  <2> HIDE DEF c
  <2>3. Len(c) = lc
      BY <1>1, <2>2
  <2>4. ASSUME NEW i \in 1..Len(c) PROVE c[i] = cookie[i]
    <3>1. /\ i \in 1..lc /\ (33 + i) - 1 = 32 + i
          /\ 33 <= 32 + lc /\ i \in 1..((32 + lc) - 33) + 1
        BY <1>1, <2>3
    <3> QED
        BY <1>4, <2>2, <3>1
  <2>5. c = cookie
      BY <2>2, <2>3, <2>4, SeqEqual DEF Bytes, lc
  <2> QED
      BY <2>5 DEF c
<1>11. SubSeq(w, (32 + pc4) + 1, Len(w)) = SubSeq(b, tot + 1, Len(b))
  <2> DEFINE at == 32 + pc4
             c == SubSeq(w, at + 1, Len(w))
             e == SubSeq(b, tot + 1, Len(b))
  <2>1. at \in Nat /\ at <= Len(w) /\ at + 1 \in Nat /\ tot + 1 \in Nat /\ 1 <= at + 1 /\ 1 <= tot + 1
        /\ Len(w) - at = Len(b) - tot
      BY <1>1, <1>2, <1>3, <1>15
  <2> HIDE DEF at
  <2>2. /\ c \in Bytes /\ Len(c) = IF at + 1 <= Len(w) THEN (Len(w) - (at + 1)) + 1 ELSE 0
        /\ at + 1 <= Len(w) => \A i \in 1..(Len(w) - (at + 1)) + 1 : c[i] = w[((at + 1) + i) - 1]
    <3>1. Len(w) <= Len(w)
        BY <1>1
    <3> QED
        BY <1>1, <2>1, <3>1, Cut
  <2>3. /\ e \in Bytes /\ Len(e) = IF tot + 1 <= Len(b) THEN (Len(b) - (tot + 1)) + 1 ELSE 0
        /\ tot + 1 <= Len(b) => \A i \in 1..(Len(b) - (tot + 1)) + 1 : e[i] = b[((tot + 1) + i) - 1]
    <3>1. Len(b) <= Len(b)
        BY <1>1
    <3> QED
        BY <1>1, <2>1, <3>1, Cut
  <2> HIDE DEF c, e
  <2>4. Len(c) = Len(e) /\ Len(c) = Len(b) - tot
      BY <1>1, <1>3, <2>1, <2>2, <2>3
  <2>5. ASSUME NEW i \in 1..Len(c) PROVE c[i] = e[i]
    <3>1. /\ i \in 1..Len(b) - tot
          /\ at + 1 <= Len(w) /\ i \in 1..(Len(w) - (at + 1)) + 1 /\ ((at + 1) + i) - 1 = at + i
          /\ tot + 1 <= Len(b) /\ i \in 1..(Len(b) - (tot + 1)) + 1 /\ ((tot + 1) + i) - 1 = tot + i
        BY <1>1, <1>3, <2>1, <2>4
    <3>2. c[i] = w[at + i] /\ e[i] = b[tot + i]
        BY <2>2, <2>3, <3>1
    <3> QED
        BY <1>4, <3>1, <3>2 DEF at
  <2>6. c = e
      BY <2>2, <2>3, <2>4, <2>5, SeqEqual DEF Bytes
  <2> QED
      BY <2>6 DEF c, e, at
<1>12. SubSeq(w, 1, 6) \o SubSeq(w, 11, 12) = SubSeq(b, 1, 6) \o SubSeq(b, 11, 12)
  <2>1. ASSUME NEW m \in 1..12, NEW n \in 1..12, m <= n, \A i \in m..n : w[i] = b[i]
        PROVE  SubSeq(w, m, n) = SubSeq(b, m, n)
    <3> DEFINE c == SubSeq(w, m, n)
               e == SubSeq(b, m, n)
    <3>1. m \in Nat /\ n \in Nat /\ 1 <= m /\ n <= Len(w) /\ n <= Len(b)
        BY <1>1, <1>2, <1>3, <1>15
    <3>2. /\ c \in Bytes /\ Len(c) = (n - m) + 1 /\ \A i \in 1..(n - m) + 1 : c[i] = w[(m + i) - 1]
          /\ e \in Bytes /\ Len(e) = (n - m) + 1 /\ \A i \in 1..(n - m) + 1 : e[i] = b[(m + i) - 1]
        BY <2>1, <3>1, Cut
    <3> HIDE DEF c, e
    <3>3. ASSUME NEW i \in 1..Len(c) PROVE c[i] = e[i]
      <4>1. i \in 1..(n - m) + 1 /\ (m + i) - 1 \in m..n
          BY <3>1, <3>2
      <4> QED
          BY <2>1, <3>2, <4>1
    <3>4. c = e
        BY <3>2, <3>3, SeqEqual DEF Bytes
    <3> QED
        BY <3>4 DEF c, e
  <2>2. SubSeq(w, 1, 6) = SubSeq(b, 1, 6)
    <3>1. 1 \in 1..12 /\ 6 \in 1..12 /\ 1 <= 6
        OBVIOUS
    <3> QED
        BY <1>4, <2>1, <3>1
  <2>3. SubSeq(w, 11, 12) = SubSeq(b, 11, 12)
    <3>1. 11 \in 1..12 /\ 12 \in 1..12 /\ 11 <= 12
        OBVIOUS
    <3>2. \A i \in 11..12 : i = 11 \/ i = 12
        OBVIOUS
    <3> QED
        BY <1>4, <2>1, <3>1, <3>2
  <2> QED
      BY <2>2, <2>3
<1>13. Authorization(w) =
           [name |-> Magic, data |-> cookie, rest |-> SubSeq(b, tot + 1, Len(b)),
            kept |-> SubSeq(b, 1, 6) \o SubSeq(b, 11, 12)]
  <2>1. /\ 12 + 18 = 30 /\ (12 + 20) + 1 = 33 /\ (12 + 20) + lc = 32 + lc
        /\ ((12 + 20) + pc4) + 1 = (32 + pc4) + 1
      BY <1>1, <1>2
  <2>2. Authorization(w) =
           [name |-> SubSeq(w, 13, 12 + 18), data |-> SubSeq(w, (12 + 20) + 1, (12 + 20) + lc),
            rest |-> SubSeq(w, ((12 + 20) + pc4) + 1, Len(w)),
            kept |-> SubSeq(w, 1, 6) \o SubSeq(w, 11, 12)]
      BY <1>2, <1>6, <1>7 DEF Authorization
  <2> QED
      BY <1>9, <1>10, <1>11, <1>12, <2>1, <2>2
<1> DEFINE z == SubSeq(b, tot + 1, Len(b))
           u == SubSeq(b, 1, 6) \o SubSeq(b, 11, 12)
<1>14. PICK x, y : Authorization(b) = [name |-> x, data |-> y, rest |-> z, kept |-> u]
  <2>1. (12 + Round4(Num(b, 6))) + Round4(Num(b, 8)) = tot
    <3>1. Num(b, 6) \in Nat /\ Num(b, 8) \in Nat
        BY <1>3, BlockNumbers
    <3>2. Round4(Num(b, 6)) \in Nat /\ Round4(Num(b, 8)) \in Nat
        BY <3>1, PaddingRounds
    <3> QED
        BY <1>5, <3>2
  <2> QED
      BY <2>1 DEF Authorization
<1> DEFINE r == Authorization(b)
<1> HIDE DEF z, u, r
<1>16. [r EXCEPT !.name = Magic, !.data = cookie] = [[r EXCEPT !.name = Magic] EXCEPT !.data = cookie]
    OBVIOUS
<1>17. [[name |-> x, data |-> y, rest |-> z, kept |-> u] EXCEPT !.name = Magic] =
            [name |-> Magic, data |-> y, rest |-> z, kept |-> u]
    OBVIOUS
<1>18. [[name |-> Magic, data |-> y, rest |-> z, kept |-> u] EXCEPT !.data = cookie] =
            [name |-> Magic, data |-> cookie, rest |-> z, kept |-> u]
    OBVIOUS
<1>19. [r EXCEPT !.name = Magic, !.data = cookie] = [name |-> Magic, data |-> cookie, rest |-> z, kept |-> u]
    BY <1>14, <1>16, <1>17, <1>18 DEF r
<1> QED
    BY <1>13, <1>19 DEF r, z, u

-----------------------------------------------------------------------------
(* The handshake *)

(* What has been read and not passed on is what is kept; once the block was *)
(* complete, all that was read has been passed on behind the new block.     *)
SetupInv ==
    LET in  == SubSeq(stream, 1, taken)
        out == shown \o toLocal
    IN  /\ stream \in Bytes /\ cookie \in Bytes \cup {NoCookie} /\ NoCookie \notin Bytes
        /\ taken \in 0..Len(stream)
        /\ hs \in Bytes /\ toLocal \in Bytes /\ shown \in Bytes
        /\ hsDone \in BOOLEAN
        /\ cookie = NoCookie => hsDone /\ out = in
        /\ ~hsDone => hs = in /\ ~Complete(in) /\ out = <<>>
        /\ hsDone /\ cookie # NoCookie => Complete(in) /\ Replaced(out, in)

LEMMA InitSetup == SetupInit => SetupInv
<1> SUFFICES ASSUME SetupInit PROVE SetupInv
    OBVIOUS
<1>1. /\ stream \in Bytes /\ cookie \in Bytes \cup {NoCookie} /\ NoCookie \notin Bytes
    BY SetupAssumption DEF SetupInit, Bytes
<1>2. Len(stream) \in Nat /\ <<>> \in Bytes /\ Len(<<>>) = 0
    BY <1>1, LenProperties, EmptySeq DEF Bytes
<1>3. SubSeq(stream, 1, 0) = <<>>
    BY SubSeqEmpty, <1>1 DEF Bytes
<1>4. shown \o toLocal = <<>>
  <2>1. <<>> \o <<>> = <<>>
      BY <1>2, ConcatEmptySeq DEF Bytes
  <2> QED
      BY <2>1 DEF SetupInit
<1>5. ~Complete(<<>>)
    BY <1>2 DEF Complete
<1>6. /\ taken = 0 /\ hs = <<>> /\ hsDone = (cookie = NoCookie) /\ toLocal = <<>> /\ shown = <<>>
    BY DEF SetupInit
<1>7. SubSeq(stream, 1, taken) = <<>> /\ taken \in 0..Len(stream)
    BY <1>2, <1>3, <1>6
<1> QED
    BY <1>1, <1>2, <1>4, <1>5, <1>6, <1>7 DEF SetupInv

LEMMA WriteSetup == SetupInv /\ WriteServer => SetupInv'
<1> SUFFICES ASSUME SetupInv, WriteServer PROVE SetupInv'
    OBVIOUS
<1> DEFINE out == shown \o toLocal
<1>1. /\ shown' = out /\ toLocal' = <<>>
      /\ stream' = stream /\ cookie' = cookie /\ taken' = taken /\ hs' = hs /\ hsDone' = hsDone
    BY DEF WriteServer
<1>2. out \in Bytes /\ <<>> \in Bytes
  <2>1. shown \in Bytes /\ toLocal \in Bytes
      BY DEF SetupInv
  <2> QED
      BY <2>1, Joined, EmptySeq DEF Bytes
<1>3. out \o <<>> = out
    BY <1>2, ConcatEmptySeq DEF Bytes
<1> HIDE DEF out
<1>4. shown' \o toLocal' = out
    BY <1>1, <1>3
<1>5. Complete(SubSeq(stream, 1, taken))' = Complete(SubSeq(stream, 1, taken))
    BY <1>1 DEF Complete, Total, Num, BigEndian
<1>6. Replaced(shown \o toLocal, SubSeq(stream, 1, taken))' = Replaced(out, SubSeq(stream, 1, taken))
    BY <1>1, <1>4 DEF Replaced, Total, Num, BigEndian, Word
<1> QED
    BY <1>1, <1>2, <1>4, <1>5, <1>6 DEF SetupInv, out

(* A read of the channel, wherever it cuts the block.                       *)
LEMMA ReadSetup == SetupInv /\ ReadClient => SetupInv'
<1> SUFFICES ASSUME SetupInv, ReadClient PROVE SetupInv'
    OBVIOUS
<1> DEFINE in == SubSeq(stream, 1, taken)
           out == shown \o toLocal
<1>1. PICK n \in taken + 1..Len(stream) :
        LET new == SubSeq(stream, taken + 1, n)
            all == hs \o new
        IN  /\ taken' = n
            /\ IF hsDone      THEN toLocal' = toLocal \o new /\ UNCHANGED <<hs, hsDone>>
               ELSE IF Complete(all)
                    THEN toLocal' = toLocal \o Rewritten(all) /\ hsDone' = TRUE /\ hs' = <<>>
                    ELSE hs' = all /\ UNCHANGED <<toLocal, hsDone>>
            /\ UNCHANGED <<stream, cookie, shown>>
    BY DEF ReadClient
<1> DEFINE new == SubSeq(stream, taken + 1, n)
           more == SubSeq(stream, 1, n)
<1>2. /\ stream \in Bytes /\ cookie \in Bytes \cup {NoCookie} /\ hs \in Bytes /\ toLocal \in Bytes /\ shown \in Bytes
      /\ taken \in 0..Len(stream) /\ hsDone \in BOOLEAN
      /\ cookie = NoCookie => hsDone /\ out = in
      /\ ~hsDone => hs = in /\ ~Complete(in) /\ out = <<>>
      /\ hsDone /\ cookie # NoCookie => Complete(in) /\ Replaced(out, in)
    BY DEF SetupInv
<1>3. Len(stream) \in Nat
    BY <1>2, LenProperties DEF Bytes
<1>4. taken \in Nat /\ n \in Nat /\ n \in 0..Len(stream) /\ taken + 1 <= n /\ n <= Len(stream)
    BY <1>2, <1>3
<1>5. in \in Bytes /\ new \in Bytes /\ more \in Bytes
  <2>1. taken + 1 \in Nat /\ 1 <= taken + 1 /\ 1 <= 1 /\ taken <= Len(stream) /\ 1 \in Nat
      BY <1>3, <1>4
  <2> QED
      BY <2>1, <1>2, <1>4, Cut
<1>6. in \o new = more
  <2>1. 1 \in 1..Len(stream) + 1 /\ taken \in 1 - 1..Len(stream) /\ n \in taken..Len(stream)
      BY <1>2, <1>3, <1>4
  <2> QED
      BY <1>2, <2>1, ConcatAdjacentSubSeq DEF Bytes
<1>7. out \in Bytes
    BY <1>2, Joined
<1>8. /\ taken' = n /\ stream' = stream /\ cookie' = cookie /\ shown' = shown
      /\ hsDone => toLocal' = toLocal \o new /\ hs' = hs /\ hsDone' = hsDone
      /\ ~hsDone /\ Complete(hs \o new) =>
            toLocal' = toLocal \o Rewritten(hs \o new) /\ hsDone' = TRUE /\ hs' = <<>>
      /\ ~hsDone /\ ~Complete(hs \o new) =>
            hs' = hs \o new /\ toLocal' = toLocal /\ hsDone' = hsDone
    BY <1>1
<1>9. SubSeq(stream, 1, taken)' = more
    BY <1>8
<1> HIDE DEF in, new, more
<1>10. ASSUME NEW s \in Bytes PROVE shown \o (toLocal \o s) = out \o s /\ toLocal \o s \in Bytes
  <2>1. toLocal \o s \in Bytes
      BY <1>2, Joined
  <2>2. (shown \o toLocal) \o s = shown \o (toLocal \o s)
    <3>1. shown \in Seq(Nat) /\ toLocal \in Seq(Nat) /\ s \in Seq(Nat)
        BY <1>2 DEF Bytes
    <3> QED
        BY <3>1, ConcatAssociative
  <2> QED
      BY <2>1, <2>2
<1>11. <<>> \in Bytes /\ \A s \in Bytes : <<>> \o s = s
    BY EmptySeq, ConcatEmptySeq DEF Bytes
<1> DEFINE o2 == shown' \o toLocal'
<1>12. Complete(SubSeq(stream, 1, taken))' = Complete(more)
  <2>1. stream' = stream
      BY <1>8
  <2>2. Complete(SubSeq(stream, 1, taken))' = Complete(SubSeq(stream, 1, taken'))
      BY <2>1 DEF Complete, Total, Num, BigEndian
  <2>3. SubSeq(stream, 1, taken') = more
      BY <1>9, <2>1
  <2> QED
      BY <2>2, <2>3
<1>13. Replaced(shown \o toLocal, SubSeq(stream, 1, taken))' = Replaced(o2, more)
  <2>1. cookie' = cookie /\ stream' = stream
      BY <1>8
  <2>2. Replaced(shown \o toLocal, SubSeq(stream, 1, taken))' = Replaced(o2, SubSeq(stream, 1, taken'))
      BY <2>1 DEF Replaced, Total, Num, BigEndian, Word
  <2>3. SubSeq(stream, 1, taken') = more
      BY <1>9, <2>1
  <2> QED
      BY <2>2, <2>3
<1> HIDE DEF out
<1>14. CASE hsDone
  <2>1. hs' = hs /\ hsDone' = hsDone /\ toLocal' = toLocal \o new
      BY <1>8, <1>14
  <2>2. o2 = out \o new /\ toLocal' \in Bytes
      BY <1>5, <1>8, <1>10, <2>1
  <2>3. cookie = NoCookie => o2 = more
      BY <1>2, <1>6, <2>2
  <2>4. cookie # NoCookie => Complete(more) /\ Replaced(o2, more)
    <3>1. SUFFICES ASSUME cookie # NoCookie PROVE Complete(in \o new) /\ Replaced(out \o new, in \o new)
        BY <1>6, <2>2
    <3>2. Complete(in) /\ Replaced(out, in)
        BY <1>2, <1>14, <3>1
    <3>3. cookie \in Bytes
        BY <1>2, <3>1
    <3> QED
        BY <1>2, <1>5, <1>7, <3>2, <3>3, LongerReplaced
  <2> HIDE DEF o2
  <2>5. /\ cookie = NoCookie => hsDone' /\ o2 = more
        /\ ~hsDone' => hs' = more /\ ~Complete(more) /\ o2 = <<>>
        /\ hsDone' /\ cookie # NoCookie => Complete(more) /\ Replaced(o2, more)
      BY <1>14, <2>1, <2>3, <2>4
  <2> QED
      BY <1>2, <1>4, <1>8, <1>9, <1>12, <1>13, <2>1, <2>2, <2>5 DEF SetupInv, o2
<1>15. CASE ~hsDone /\ Complete(hs \o new)
  <2>1. hs = in /\ out = <<>> /\ cookie # NoCookie
      BY <1>2, <1>15
  <2>2. Complete(more) /\ toLocal' = toLocal \o Rewritten(more) /\ hsDone' = TRUE /\ hs' = <<>>
      BY <1>6, <1>8, <1>15, <2>1
  <2>3. Rewritten(more) \in Bytes /\ Replaced(Rewritten(more), more)
    <3>1. cookie \in Bytes
        BY <1>2, <2>1
    <3> QED
        BY <1>5, <2>2, <3>1, RewrittenIs
  <2>4. o2 = Rewritten(more) /\ toLocal' \in Bytes
    <3>1. o2 = out \o Rewritten(more) /\ toLocal' \in Bytes
        BY <1>8, <1>10, <2>2, <2>3
    <3> QED
        BY <1>11, <2>1, <2>3, <3>1
  <2> HIDE DEF o2
  <2>5. /\ cookie = NoCookie => hsDone' /\ o2 = more
        /\ ~hsDone' => hs' = more /\ ~Complete(more) /\ o2 = <<>>
        /\ hsDone' /\ cookie # NoCookie => Complete(more) /\ Replaced(o2, more)
      BY <2>1, <2>2, <2>3, <2>4
  <2> QED
      BY <1>2, <1>4, <1>8, <1>9, <1>11, <1>12, <1>13, <2>2, <2>4, <2>5 DEF SetupInv, o2
<1>16. CASE ~hsDone /\ ~Complete(hs \o new)
  <2>1. hs = in /\ out = <<>> /\ cookie # NoCookie
      BY <1>2, <1>16
  <2>2. ~Complete(more) /\ toLocal' = toLocal /\ hsDone' = hsDone /\ hs' = more
      BY <1>6, <1>8, <1>16, <2>1
  <2>3. o2 = <<>>
      BY <1>8, <2>1, <2>2 DEF out
  <2> HIDE DEF o2
  <2>4. /\ cookie = NoCookie => hsDone' /\ o2 = more
        /\ ~hsDone' => hs' = more /\ ~Complete(more) /\ o2 = <<>>
        /\ hsDone' /\ cookie # NoCookie => Complete(more) /\ Replaced(o2, more)
      BY <1>16, <2>1, <2>2, <2>3
  <2> QED
      BY <1>2, <1>4, <1>5, <1>8, <1>9, <1>12, <1>13, <2>2, <2>4 DEF SetupInv, o2
<1> QED
    BY <1>14, <1>15, <1>16

LEMMA StepSetup == SetupInv /\ [ForwardsNext]_forwardVars => SetupInv'
<1> SUFFICES ASSUME SetupInv, [ForwardsNext]_forwardVars PROVE SetupInv'
    OBVIOUS
<1>1. ReadClient \/ WriteServer \/ UNCHANGED setupVars
  <2>1. Helper \/ Peers \/ OwnerGoes => UNCHANGED setupVars
      BY DEF Helper, Start, CheckAlive, Accept, Peers, OwnerGoes
  <2>2. Handshake \/ Serve \/ ConnectLocal \/ CopyStep => UNCHANGED setupVars
      BY DEF Handshake, Serve, ConnectLocal, Goes, CopyStep
  <2>3. XTurn => ReadClient \/ WriteServer \/ UNCHANGED setupVars
      BY DEF XTurn
  <2>4. UNCHANGED forwardVars => UNCHANGED setupVars
      BY DEF forwardVars
  <2> QED
      BY <2>1, <2>2, <2>3, <2>4 DEF ForwardsNext, Connection
<1>2. UNCHANGED setupVars => SetupInv'
  <2> SUFFICES ASSUME UNCHANGED setupVars PROVE SetupInv'
      OBVIOUS
  <2>1. /\ stream' = stream /\ cookie' = cookie /\ taken' = taken /\ hs' = hs
        /\ hsDone' = hsDone /\ toLocal' = toLocal /\ shown' = shown
      BY DEF setupVars
  <2>2. Complete(SubSeq(stream, 1, taken))' = Complete(SubSeq(stream, 1, taken))
      BY <2>1 DEF Complete, Total, Num, BigEndian
  <2>3. Replaced(shown \o toLocal, SubSeq(stream, 1, taken))' =
            Replaced(shown \o toLocal, SubSeq(stream, 1, taken))
      BY <2>1 DEF Replaced, Total, Num, BigEndian, Word
  <2> QED
      BY <2>1, <2>2, <2>3 DEF SetupInv
<1> QED
    BY <1>1, <1>2, ReadSetup, WriteSetup

LEMMA SetupShows == SetupInv => XServerSeesOwnCookie
<1> SUFFICES ASSUME SetupInv PROVE XServerSeesOwnCookie
    OBVIOUS
<1> DEFINE in == SubSeq(stream, 1, taken)
           out == shown \o toLocal
<1>1. /\ stream \in Bytes /\ cookie \in Bytes \cup {NoCookie} /\ toLocal \in Bytes /\ shown \in Bytes
      /\ taken \in 0..Len(stream)
      /\ cookie = NoCookie => hsDone /\ out = in
      /\ ~hsDone => hs = in /\ ~Complete(in) /\ out = <<>>
      /\ hsDone /\ cookie # NoCookie => Complete(in) /\ Replaced(out, in)
    BY DEF SetupInv
<1>2. out \in Bytes
    BY <1>1, Joined
<1>3. in \in Bytes
  <2>1. Len(stream) \in Nat
      BY <1>1, LenProperties DEF Bytes
  <2>2. taken \in Nat /\ 1 <= 1 /\ taken <= Len(stream) /\ 1 \in Nat
      BY <1>1, <2>1
  <2> QED
      BY <1>1, <2>2, Cut
<1> HIDE DEF in, out
<1>4. Complete(in) <=> Whole(in)
    BY <1>3, CompleteIsWhole
<1>5. cookie # NoCookie /\ Whole(in) =>
          Authorization(out) = [Authorization(in) EXCEPT !.name = Magic, !.data = cookie]
  <2>1. SUFFICES ASSUME cookie # NoCookie, Whole(in)
                 PROVE  Authorization(out) = [Authorization(in) EXCEPT !.name = Magic, !.data = cookie]
      OBVIOUS
  <2>2. Complete(in) /\ Replaced(out, in)
      BY <1>1, <1>4, <2>1
  <2>3. cookie \in Bytes
      BY <1>1, <2>1
  <2> QED
      BY <1>2, <1>3, <2>2, <2>3, ReplacedAuthorizes
<1>6. cookie # NoCookie /\ ~Whole(in) => out = <<>>
    BY <1>1, <1>4
<1>7. cookie = NoCookie => out = in
    BY <1>1
<1>8. CASE cookie # NoCookie /\ Whole(in) /\ Authorization(out) =
                 [Authorization(in) EXCEPT !.name = Magic, !.data = cookie]
    BY <1>8 DEF XServerSeesOwnCookie, in, out
<1>9. CASE cookie # NoCookie /\ ~Whole(in) /\ out = <<>>
    BY <1>9 DEF XServerSeesOwnCookie, in, out
<1>10. CASE cookie = NoCookie /\ out = in
    BY <1>10 DEF XServerSeesOwnCookie, in, out
<1> QED
    BY <1>5, <1>6, <1>7, <1>8, <1>9, <1>10

(* However the client's setup block is cut into reads: the X server sees    *)
(* nothing of it, or a block with the local cookie and then what followed   *)
(* the client's block (rewrite_setup, proxy).                               *)
THEOREM XServerGetsOwnCookie == ForwardsSpec => []XServerSeesOwnCookie
<1>1. ForwardsInit => SetupInv
    BY InitSetup DEF ForwardsInit
<1> QED
    BY <1>1, StepSetup, SetupShows, PTL DEF ForwardsSpec

-----------------------------------------------------------------------------
(* A SOCKS request, place by place *)

(* Where the request, the address and the port begin.                       *)
RequestAt(a) == 2 + Len(a.methods)
AddressAt(a) == RequestAt(a) + (IF a.kind = 3 THEN 5 ELSE 4)
PortAt(a) == AddressAt(a) + Len(a.addr)

LEMMA AskTypes ==
    ASSUME NEW a \in Asks
    PROVE  /\ a.methods \in Bytes /\ a.addr \in Bytes /\ a.port \in Bytes
           /\ Len(a.methods) \in Nat /\ Len(a.addr) \in Nat /\ Len(a.port) = 2
           /\ a.version \in Nat /\ a.again \in Nat /\ a.command \in Nat /\ a.kind \in Nat
           /\ a.kind = 1 => Len(a.addr) = 4
           /\ a.kind = 4 => Len(a.addr) = 16
           /\ RequestAt(a) \in Nat /\ AddressAt(a) \in Nat /\ PortAt(a) \in Nat
<1>1. ASSUME NEW q \in Seq(0..255) PROVE q \in Bytes /\ Len(q) \in Nat
  <2>1. Len(q) \in Nat /\ q \in [1..Len(q) -> 0..255]
      BY LenProperties
  <2>2. q \in [1..Len(q) -> Nat]
    <3>1. \A i \in 0..255 : i \in Nat
        OBVIOUS
    <3> DEFINE n == Len(q)
    <3>2. q \in [1..n -> 0..255]
        BY <2>1
    <3> HIDE DEF n
    <3>3. q \in [1..n -> Nat]
        BY <3>1, <3>2
    <3> QED
        BY <3>3 DEF n
  <2>3. q \in UNION {[1..m -> Nat] : m \in Nat}
      BY <2>1, <2>2
  <2> QED
      BY <2>1, <2>3, SeqDef DEF Bytes
<1>2. /\ {a.version, a.again, a.command, a.kind} \subseteq 0..255
      /\ a.methods \in Seq(0..255) /\ a.addr \in Seq(0..255)
      /\ a.kind = 1 => Len(a.addr) = 4
      /\ a.kind = 4 => Len(a.addr) = 16
      /\ a.port \in Seq(0..255) /\ Len(a.port) = 2
    BY AskAssumption
<1>3. /\ a.methods \in Bytes /\ a.addr \in Bytes /\ a.port \in Bytes
      /\ Len(a.methods) \in Nat /\ Len(a.addr) \in Nat
    BY <1>1, <1>2
<1>4. RequestAt(a) \in Nat
    BY <1>3 DEF RequestAt
<1>5. AddressAt(a) \in Nat
    BY <1>4 DEF AddressAt
<1>6. PortAt(a) \in Nat
    BY <1>3, <1>5 DEF PortAt
<1>7. a.version \in Nat /\ a.again \in Nat /\ a.command \in Nat /\ a.kind \in Nat
  <2>1. \A i \in 0..255 : i \in Nat
      OBVIOUS
  <2>2. {a.version, a.again, a.command, a.kind} \subseteq 0..255
      BY AskAssumption
  <2>3. /\ a.version \in 0..255 /\ a.again \in 0..255
        /\ a.command \in 0..255 /\ a.kind \in 0..255
      BY <2>2, Zenon
  <2> QED
      BY <2>1, <2>3
<1> QED
    BY <1>2, <1>3, <1>4, <1>5, <1>6, <1>7

LEMMA HelloIs ==
    ASSUME NEW a \in Asks
    PROVE  /\ Len(Hello(a)) = PortAt(a) + 2
           /\ Hello(a)[1] = a.version /\ Hello(a)[2] = Len(a.methods)
           /\ \A i \in 1..Len(a.methods) : Hello(a)[2 + i] = a.methods[i]
           /\ Hello(a)[RequestAt(a) + 1] = a.again
           /\ Hello(a)[RequestAt(a) + 2] = a.command
           /\ Hello(a)[RequestAt(a) + 4] = a.kind
           /\ a.kind = 3 => Hello(a)[RequestAt(a) + 5] = Len(a.addr)
           /\ \A i \in 1..Len(a.addr) : Hello(a)[AddressAt(a) + i] = a.addr[i]
           /\ \A i \in 1..2 : Hello(a)[PortAt(a) + i] = a.port[i]
<1> DEFINE m == Len(a.methods)
           d == Len(a.addr)
           ra == RequestAt(a)
           aa == AddressAt(a)
           pa == PortAt(a)
           p1 == <<a.version, m>>
           p3 == <<a.again, a.command, 0, a.kind>>
           p4 == IF a.kind = 3 THEN <<d>> ELSE <<>>
           r2 == p1 \o a.methods
           r3 == r2 \o p3
           r4 == r3 \o p4
           r5 == r4 \o a.addr
           r6 == r5 \o a.port
<1>1. /\ a.methods \in Bytes /\ a.addr \in Bytes /\ a.port \in Bytes
      /\ m \in Nat /\ d \in Nat /\ Len(a.port) = 2
      /\ a.version \in Nat /\ a.again \in Nat /\ a.command \in Nat /\ a.kind \in Nat
    BY AskTypes
<1>2. /\ ra = 2 + m /\ aa = ra + (IF a.kind = 3 THEN 5 ELSE 4) /\ pa = aa + d
      /\ ra \in Nat /\ aa \in Nat /\ pa \in Nat
    BY AskTypes DEF RequestAt, AddressAt, PortAt
<1>3. Hello(a) = r6
    BY DEF Hello
<1> HIDE DEF m, d, ra, aa, pa
<1>4. p1 \in Bytes /\ Len(p1) = 2 /\ p1[1] = a.version /\ p1[2] = m
    BY <1>1 DEF Bytes
<1>5. /\ p3 \in Bytes /\ Len(p3) = 4
      /\ p3[1] = a.again /\ p3[2] = a.command /\ p3[4] = a.kind
    BY <1>1 DEF Bytes
<1>6. /\ p4 \in Bytes /\ Len(p4) = (IF a.kind = 3 THEN 1 ELSE 0)
      /\ a.kind = 3 => p4[1] = d
  <2>1. CASE a.kind = 3
    <3>1. p4 = <<d>> /\ <<d>> \in Seq(Nat) /\ Len(<<d>>) = 1
        BY <1>1, <2>1
    <3> QED
        BY <2>1, <3>1 DEF Bytes
  <2>2. CASE a.kind # 3
    <3>1. p4 = <<>> /\ <<>> \in Seq(Nat) /\ Len(<<>>) = 0
        BY <2>2
    <3> QED
        BY <2>2, <3>1 DEF Bytes
  <2> QED
      BY <2>1, <2>2
<1> HIDE DEF p1, p3, p4
<1>7. /\ r2 \in Bytes /\ Len(r2) = ra /\ r2[1] = a.version /\ r2[2] = m
      /\ \A i \in 1..m : r2[2 + i] = a.methods[i]
  <2>1. /\ r2 \in Bytes /\ Len(r2) = Len(p1) + Len(a.methods)
        /\ \A i \in 1..Len(p1) : r2[i] = p1[i]
        /\ \A i \in 1..Len(a.methods) : r2[Len(p1) + i] = a.methods[i]
      BY <1>1, <1>4, Joined
  <2> HIDE DEF r2
  <2> QED
      BY <1>2, <1>4, <2>1 DEF m
<1> HIDE DEF r2
<1>8. /\ r3 \in Bytes /\ Len(r3) = ra + 4 /\ \A i \in 1..ra : r3[i] = r2[i]
      /\ r3[ra + 1] = a.again /\ r3[ra + 2] = a.command /\ r3[ra + 4] = a.kind
  <2>1. /\ r3 \in Bytes /\ Len(r3) = Len(r2) + Len(p3)
        /\ \A i \in 1..Len(r2) : r3[i] = r2[i]
        /\ \A i \in 1..Len(p3) : r3[Len(r2) + i] = p3[i]
      BY <1>5, <1>7, Joined
  <2> HIDE DEF r3
  <2> QED
      BY <1>5, <1>7, <2>1
<1> HIDE DEF r3
<1>9. /\ r4 \in Bytes /\ Len(r4) = aa /\ \A i \in 1..ra + 4 : r4[i] = r3[i]
      /\ a.kind = 3 => r4[ra + 5] = d
  <2>1. /\ r4 \in Bytes /\ Len(r4) = Len(r3) + Len(p4)
        /\ \A i \in 1..Len(r3) : r4[i] = r3[i]
        /\ \A i \in 1..Len(p4) : r4[Len(r3) + i] = p4[i]
      BY <1>6, <1>8, Joined
  <2> HIDE DEF r4
  <2>2. a.kind = 3 => r4[(ra + 4) + 1] = d
      BY <1>6, <1>8, <2>1
  <2>3. (ra + 4) + 1 = ra + 5
      BY <1>2
  <2> QED
      BY <1>2, <1>6, <1>8, <2>1, <2>2, <2>3
<1> HIDE DEF r4
<1>10. /\ r5 \in Bytes /\ Len(r5) = pa /\ \A i \in 1..aa : r5[i] = r4[i]
       /\ \A i \in 1..d : r5[aa + i] = a.addr[i]
  <2>1. /\ r5 \in Bytes /\ Len(r5) = Len(r4) + Len(a.addr)
        /\ \A i \in 1..Len(r4) : r5[i] = r4[i]
        /\ \A i \in 1..Len(a.addr) : r5[Len(r4) + i] = a.addr[i]
      BY <1>1, <1>9, Joined
  <2> HIDE DEF r5
  <2> QED
      BY <1>2, <1>9, <2>1 DEF d
<1> HIDE DEF r5
<1>11. /\ r6 \in Bytes /\ Len(r6) = pa + 2 /\ \A i \in 1..pa : r6[i] = r5[i]
       /\ \A i \in 1..2 : r6[pa + i] = a.port[i]
  <2>1. /\ r6 \in Bytes /\ Len(r6) = Len(r5) + Len(a.port)
        /\ \A i \in 1..Len(r5) : r6[i] = r5[i]
        /\ \A i \in 1..Len(a.port) : r6[Len(r5) + i] = a.port[i]
      BY <1>1, <1>10, Joined
  <2> HIDE DEF r6
  <2> QED
      BY <1>1, <1>10, <2>1
<1> HIDE DEF r6
<1>12. ASSUME NEW i \in 1..aa PROVE r6[i] = r4[i]
  <2>1. i \in 1..pa
      BY <1>1, <1>2
  <2> QED
      BY <1>10, <1>11, <2>1
<1>13. ASSUME NEW i \in 1..ra + 4 PROVE r6[i] = r3[i]
  <2>1. i \in 1..aa
      BY <1>2
  <2> QED
      BY <1>9, <1>12, <2>1
<1>14. ASSUME NEW i \in 1..ra PROVE r6[i] = r2[i]
  <2>1. i \in 1..ra + 4
      BY <1>2
  <2> QED
      BY <1>8, <1>13, <2>1
<1>15. r6[1] = a.version /\ r6[2] = m /\ \A i \in 1..m : r6[2 + i] = a.methods[i]
  <2>1. 1 \in 1..ra /\ 2 \in 1..ra /\ \A i \in 1..m : 2 + i \in 1..ra
      BY <1>1, <1>2
  <2> QED
      BY <1>7, <1>14, <2>1
<1>16. r6[ra + 1] = a.again /\ r6[ra + 2] = a.command /\ r6[ra + 4] = a.kind
  <2>1. ra + 1 \in 1..ra + 4 /\ ra + 2 \in 1..ra + 4 /\ ra + 4 \in 1..ra + 4
      BY <1>2
  <2> QED
      BY <1>8, <1>13, <2>1
<1>17. a.kind = 3 => r6[ra + 5] = d
  <2>1. a.kind = 3 => ra + 5 \in 1..aa
      BY <1>2
  <2> QED
      BY <1>9, <1>12, <2>1
<1>18. \A i \in 1..d : r6[aa + i] = a.addr[i]
  <2>1. \A i \in 1..d : aa + i \in 1..pa
      BY <1>1, <1>2
  <2> QED
      BY <1>10, <1>11, <2>1
<1> QED
    BY <1>3, <1>11, <1>15, <1>16, <1>17, <1>18 DEF m, d, ra, aa, pa

-----------------------------------------------------------------------------
(* The SOCKS handshake *)

(* A field read whole takes the front of the wire.                          *)
LEMMA ReadExactInv ==
    ASSUME SpliceInv, got["chan"] = <<>>, buf["sock"] = <<>>, need \in Nat, ReadExact
    PROVE  /\ SpliceInv'
           /\ got'["chan"] = <<>> /\ buf'["sock"] = <<>>
           /\ Len(wire["sock"]) >= need /\ skipped' = skipped + need
           /\ \A i \in 1..need : wire["sock"][i] = skipped + i
<1> DEFINE w == wire["sock"]
           v == SubSeq(w, need + 1, Len(w))
           k == sent["sock"] - skipped
<1>0. /\ UNCHANGED <<pc, eof, sEof, buf, got, sent, alive>>
      /\ skipped' = skipped + need /\ need <= Len(w)
      /\ wire' = [wire EXCEPT !["sock"] = v]
    BY DEF ReadExact
<1>1. /\ w \in Bytes /\ wire \in [Ends -> Seq(Nat)] /\ "sock" \in Ends /\ "chan" \in Ends
      /\ skipped \in Nat /\ sent["sock"] \in Nat /\ k \in Nat
    BY DEF SpliceInv, SpliceTypeOK, Ends, Bytes
<1>2. w = [i \in 1..k |-> skipped + i]
  <2>1. got["chan"] \o buf["sock"] \o w = [i \in 1..k |-> skipped + i]
      BY <1>1 DEF SpliceInv, BytesInOrder, Skipped, Other
  <2>2. <<>> \o <<>> \o w = w
      BY <1>1, EmptySeq, ConcatEmptySeq DEF Bytes
  <2> QED
      BY <2>1, <2>2
<1> HIDE DEF k
<1>3. Len(w) = k
    BY <1>1, <1>2
<1>4. wire'["sock"] = v /\ wire'["chan"] = wire["chan"]
    BY <1>0, <1>1
<1> HIDE DEF w
<1>5. \A i \in 1..k : w[i] = skipped + i
    BY <1>2
<1>6. \A i \in 1..need : w[i] = skipped + i
    BY <1>0, <1>1, <1>3, <1>5
<1>7. v \in Bytes /\ Len(v) = k - need /\ \A i \in 1..k - need : v[i] = (skipped + need) + i
  <2>1. /\ need + 1 \in Nat /\ Len(w) \in Nat /\ 1 <= need + 1 /\ Len(w) <= Len(w)
      BY <1>1, <1>3
  <2>2. /\ v \in Bytes
        /\ Len(v) = IF need + 1 <= Len(w) THEN (Len(w) - (need + 1)) + 1 ELSE 0
        /\ need + 1 <= Len(w) =>
              \A i \in 1..(Len(w) - (need + 1)) + 1 : v[i] = w[((need + 1) + i) - 1]
      BY <1>1, <2>1, Cut
  <2> HIDE DEF v
  <2>3. Len(v) = k - need
      BY <1>0, <1>1, <1>3, <2>2
  <2>4. ASSUME NEW i \in 1..k - need PROVE v[i] = (skipped + need) + i
    <3>1. /\ need + 1 <= Len(w) /\ i \in 1..(Len(w) - (need + 1)) + 1
          /\ ((need + 1) + i) - 1 = need + i /\ need + i \in 1..k
          /\ skipped + (need + i) = (skipped + need) + i
        BY <1>0, <1>1, <1>3
    <3>2. v[i] = w[need + i]
        BY <2>2, <3>1
    <3> QED
        BY <1>5, <3>1, <3>2
  <2> QED
      BY <2>2, <2>3, <2>4
<1> HIDE DEF v
<1>8. SpliceTypeOK'
  <2>1. wire' \in [Ends -> Seq(Nat)]
      BY <1>0, <1>1, <1>7 DEF Bytes
  <2>2. skipped' \in 0..sent'["sock"]
      BY <1>0, <1>1, <1>3 DEF k
  <2> QED
      BY <1>0, <2>1, <2>2 DEF SpliceInv, SpliceTypeOK
<1>9. BytesInOrder'
  <2>1. CASE k - need \in Nat
    <3> DEFINE u == [i \in 1..k - need |-> (skipped + need) + i]
    <3>1. u \in Bytes /\ Len(u) = k - need
      <4>1. u \in [1..k - need -> Nat]
          BY <1>1
      <4> HIDE DEF u
      <4>2. u \in UNION {[1..m -> Nat] : m \in Nat}
          BY <2>1, <4>1
      <4>3. u \in Seq(Nat)
          BY <4>2, SeqDef
      <4> QED
          BY <2>1, <4>1, <4>3, LenProperties DEF Bytes
    <3>2. \A i \in 1..k - need : u[i] = (skipped + need) + i
        OBVIOUS
    <3> HIDE DEF u
    <3>3. v = u
        BY <1>7, <3>1, <3>2, SeqEqual DEF Bytes
    <3>4. <<>> \o <<>> \o v = v
        BY <1>7, EmptySeq, ConcatEmptySeq DEF Bytes
    <3>5. sent'["sock"] - skipped' = k - need /\ skipped' = skipped + need
        BY <1>0, <1>1 DEF k
    <3>6. got'["chan"] \o buf'["sock"] \o wire'["sock"]
              = [i \in 1..sent'["sock"] - skipped' |-> skipped' + i]
      <4>1. got'["chan"] \o buf'["sock"] \o wire'["sock"] = u
          BY <1>0, <1>4, <3>3, <3>4
      <4> QED
          BY <3>5, <4>1 DEF u
    <3>7. got'["sock"] \o buf'["chan"] \o wire'["chan"]
              = [i \in 1..sent'["chan"] - 0 |-> 0 + i]
      <4>1. got["sock"] \o buf["chan"] \o wire["chan"] = [i \in 1..sent["chan"] - 0 |-> 0 + i]
          BY DEF SpliceInv, BytesInOrder, Skipped, Other, Ends
      <4> QED
          BY <1>0, <1>4, <4>1
    <3>8. /\ Skipped("sock")' = skipped' /\ Skipped("chan")' = 0
          /\ Other("sock") = "chan" /\ Other("chan") = "sock"
        BY DEF Skipped, Other
    <3>9. ASSUME NEW d \in Ends
          PROVE  got'[Other(d)] \o buf'[d] \o wire'[d]
                     = [i \in 1..sent'[d] - Skipped(d)' |-> Skipped(d)' + i]
      <4>1. CASE d = "sock"
        <5>1. Skipped(d)' = skipped' /\ Other(d) = "chan"
            BY <4>1 DEF Skipped, Other
        <5> QED
            BY <3>6, <4>1, <5>1
      <4>2. CASE d = "chan"
        <5>1. Skipped(d)' = 0 /\ Other(d) = "sock"
            BY <4>2 DEF Skipped, Other
        <5> QED
            BY <3>7, <4>2, <5>1
      <4> QED
          BY <4>1, <4>2 DEF Ends
    <3> QED
        BY <3>9 DEF BytesInOrder
  <2> QED
      BY <1>0, <1>1, <1>3, <2>1
<1>10. Ending'
  <2>1. w = <<>> => v = <<>>
    <3>1. SUFFICES ASSUME w = <<>> PROVE v = <<>>
        OBVIOUS
    <3>2. Len(<<>>) = 0 /\ k = 0
        BY <1>3, <3>1
    <3>3. Len(v) = 0
        BY <1>0, <1>3, <1>7, <3>2
    <3> QED
        BY <1>7, <3>3, EmptySeq DEF Bytes
  <2>2. (sEof => eof["sock"] /\ w = <<>>)
        /\ (pc = "complete" =>
               eof["chan"] /\ wire["chan"] = <<>> /\ sEof /\ buf["sock"] = <<>> /\ buf["chan"] = <<>>)
      BY DEF SpliceInv, Ending, ChanEof, w
  <2> QED
      BY <1>0, <1>4, <2>1, <2>2 DEF Ending, ChanEof
<1> QED
    BY <1>0, <1>6, <1>8, <1>9, <1>10 DEF SpliceInv, w

(* What has been read, and how much the next field takes.                   *)
AskInv ==
    /\ ask \in Asks
    /\ need \in Nat
    /\ field \in {"greeting", "methods", "request", "length", "address", "port", "read", "refused"}
    /\ field = "greeting" => skipped = 0 /\ need = 2 /\ target = <<>>
    /\ field = "methods" =>
          skipped = 2 /\ need = Len(ask.methods) /\ target = <<>> /\ ask.version = 5
    /\ field = "request" =>
          /\ skipped = RequestAt(ask) /\ need = 4 /\ target = <<>> /\ ask.version = 5
          /\ \E i \in 1..Len(ask.methods) : ask.methods[i] = 0
    /\ field = "length" =>
          skipped = RequestAt(ask) + 4 /\ need = 1 /\ target = <<>> /\ ask.kind = 3 /\ Acceptable(ask)
    /\ field = "address" =>
          skipped = AddressAt(ask) /\ need = Len(ask.addr) /\ target = <<>> /\ Acceptable(ask)
    /\ field = "port" =>
          skipped = PortAt(ask) /\ need = 2 /\ target = <<ask.addr>> /\ Acceptable(ask)
    /\ field = "read" =>
          /\ skipped = PortAt(ask) + 2 /\ need = 0
          /\ target = <<ask.addr, ask.port>> /\ Acceptable(ask)
    /\ field = "refused" => ~Acceptable(ask)

LEMMA AppendTwo == \A x, y : Append(<<x>>, y) = <<x, y>>
<1>1. ASSUME NEW x, NEW y PROVE Append(<<x>>, y) = <<x, y>>
  <2> DEFINE T == {x, y}
             s == <<x>>
             t == <<x, y>>
             u == Append(s, y)
  <2>1. s \in Seq(T) /\ Len(s) = 1 /\ s[1] = x /\ y \in T
      OBVIOUS
  <2>2. t \in Seq(T) /\ Len(t) = 2 /\ t[1] = x /\ t[2] = y
      OBVIOUS
  <2> HIDE DEF s, t, T
  <2>a. s \in Seq(T)
      BY <2>1
  <2>b. y \in T
      BY <2>1
  <2>c. /\ u \in Seq(T) /\ Len(u) = Len(s) + 1
        /\ \A i \in 1..Len(s) : u[i] = s[i]
        /\ u[Len(s) + 1] = y
      BY <2>a, <2>b, AppendProperties
  <2> HIDE DEF u
  <2>3. u \in Seq(T) /\ Len(u) = 2 /\ u[1] = x /\ u[2] = y
      BY <2>1, <2>c
  <2>4. u = t
      BY <2>2, <2>3, SeqEqual
  <2> QED
      BY <2>4 DEF s, t, u
<1> QED
    BY <1>1

(* Every field is read where the encoding has it.                           *)
LEMMA ReadFieldInv ==
    ASSUME SpliceInv, AskInv, got["chan"] = <<>>, buf["sock"] = <<>>, ReadField
    PROVE  AskInv'
<1> DEFINE a == ask
           h == Hello(ask)
           b == [i \in 1..need |-> Says(wire["sock"][i])]
<1>1. /\ need \in Nat /\ ReadExact /\ ask' = a /\ a \in Asks
      /\ target' = IF field \in {"address", "port"} THEN Append(target, b) ELSE target
    BY DEF ReadField, AskInv
<1>2. /\ skipped' = skipped + need /\ skipped \in Nat
      /\ \A i \in 1..need : wire["sock"][i] = skipped + i
  <2>1. skipped \in Nat
      BY DEF SpliceInv, SpliceTypeOK, Ends
  <2> QED
      BY <1>1, <2>1, ReadExactInv
<1>3. \/ field = "greeting" /\ Follows(b[1] = 5, "methods", b[2])
      \/ field = "methods" /\ Follows(\E i \in 1..need : b[i] = 0, "request", 4)
      \/ field = "request" /\ AddressFollows(b[1] = 5 /\ b[2] = 1, b[4])
      \/ field = "length" /\ Follows(TRUE, "address", b[1])
      \/ field = "address" /\ Follows(TRUE, "port", 2)
      \/ field = "port" /\ Follows(TRUE, "read", 0)
    BY DEF ReadField
<1>4. ASSUME NEW i \in 1..need, skipped + need <= Len(h) PROVE b[i] = h[skipped + i]
  <2>1. Len(h) = PortAt(a) + 2 /\ PortAt(a) \in Nat
      BY <1>1, HelloIs, AskTypes
  <2>2. skipped + i <= Len(h)
      BY <1>1, <1>2, <1>4, <2>1
  <2> QED
      BY <1>2, <2>2 DEF Says
<1>5. /\ Len(h) = PortAt(a) + 2
      /\ h[1] = a.version /\ h[2] = Len(a.methods)
      /\ \A i \in 1..Len(a.methods) : h[2 + i] = a.methods[i]
      /\ h[RequestAt(a) + 1] = a.again
      /\ h[RequestAt(a) + 2] = a.command
      /\ h[RequestAt(a) + 4] = a.kind
      /\ a.kind = 3 => h[RequestAt(a) + 5] = Len(a.addr)
      /\ \A i \in 1..Len(a.addr) : h[AddressAt(a) + i] = a.addr[i]
      /\ \A i \in 1..2 : h[PortAt(a) + i] = a.port[i]
    BY <1>1, HelloIs
<1>6. /\ a.methods \in Bytes /\ a.addr \in Bytes /\ a.port \in Bytes
      /\ Len(a.methods) \in Nat /\ Len(a.addr) \in Nat /\ Len(a.port) = 2
      /\ a.kind = 1 => Len(a.addr) = 4
      /\ a.kind = 4 => Len(a.addr) = 16
      /\ RequestAt(a) \in Nat /\ AddressAt(a) \in Nat /\ PortAt(a) \in Nat
      /\ RequestAt(a) = 2 + Len(a.methods)
      /\ AddressAt(a) = RequestAt(a) + (IF a.kind = 3 THEN 5 ELSE 4)
      /\ PortAt(a) = AddressAt(a) + Len(a.addr)
    BY <1>1, AskTypes DEF RequestAt, AddressAt, PortAt
<1>7. ASSUME NEW q \in Bytes, need = Len(q), \A i \in 1..need : b[i] = q[i] PROVE b = q
  <2>1. q = [i \in 1..need |-> q[i]]
      BY <1>7, LenProperties DEF Bytes
  <2> QED
      BY <1>7, <2>1
<1>8. /\ a.again = 5 /\ a.command = 1 /\ a.version = 5 /\ a.kind \in {1, 3, 4}
         /\ (\E i \in 1..Len(a.methods) : a.methods[i] = 0) <=> Acceptable(a)
    BY DEF Acceptable
<1> HIDE DEF a, h, b
<1>15. /\ 2 <= Len(h) /\ RequestAt(a) <= Len(h) /\ RequestAt(a) + 4 <= Len(h)
       /\ a.kind = 3 => RequestAt(a) + 5 <= Len(h) /\ RequestAt(a) + 5 = AddressAt(a)
       /\ AddressAt(a) + Len(a.addr) <= Len(h) /\ PortAt(a) + 2 <= Len(h)
       /\ 2 + Len(a.methods) = RequestAt(a)
  <2> DEFINE m == Len(a.methods)
             d == Len(a.addr)
             ra == RequestAt(a)
             aa == AddressAt(a)
             pa == PortAt(a)
             lh == Len(h)
  <2>1. /\ m \in Nat /\ d \in Nat /\ ra \in Nat /\ aa \in Nat /\ pa \in Nat
        /\ ra = 2 + m /\ aa = ra + (IF a.kind = 3 THEN 5 ELSE 4)
        /\ pa = aa + d /\ lh = pa + 2
      BY <1>5, <1>6
  <2> HIDE DEF m, d, ra, aa, pa, lh
  <2>2. /\ 2 <= lh /\ ra <= lh /\ ra + 4 <= lh
        /\ a.kind = 3 => ra + 5 <= lh /\ ra + 5 = aa
        /\ aa + d <= lh /\ pa + 2 <= lh /\ 2 + m = ra
      BY <2>1
  <2> QED
      BY <2>2 DEF m, d, ra, aa, pa, lh
<1>9. CASE field = "greeting"
  <2>1. skipped = 0 /\ need = 2 /\ target = <<>>
      BY <1>9 DEF AskInv
  <2>2. b[1] = a.version /\ b[2] = Len(a.methods)
    <3>1. /\ skipped + need <= Len(h) /\ 1 \in 1..need /\ 2 \in 1..need
          /\ skipped + 1 = 1 /\ skipped + 2 = 2
        BY <1>15, <2>1
    <3>2. b[1] = h[skipped + 1] /\ b[2] = h[skipped + 2]
        BY <1>4, <3>1
    <3> QED
        BY <1>5, <3>1, <3>2
  <2>3. Follows(b[1] = 5, "methods", b[2])
      BY <1>3, <1>9
  <2>4. skipped' = 2 /\ target' = <<>>
      BY <1>1, <1>2, <1>9, <2>1
  <2>5. CASE a.version = 5
    <3>1. field' = "methods" /\ need' = Len(a.methods)
        BY <2>2, <2>3, <2>5 DEF Follows
    <3> QED
        BY <1>1, <1>6, <2>4, <2>5, <3>1 DEF AskInv
  <2>6. CASE a.version # 5
    <3>1. field' = "refused" /\ need' = 0 /\ ~Acceptable(a)
        BY <2>2, <2>3, <2>6 DEF Follows, Acceptable
    <3> QED
        BY <1>1, <3>1 DEF AskInv
  <2> QED
      BY <2>5, <2>6
<1>10. CASE field = "methods"
  <2>1. skipped = 2 /\ need = Len(a.methods) /\ target = <<>> /\ a.version = 5
      BY <1>10 DEF AskInv, a
  <2>2. skipped + need <= Len(h) /\ skipped + need = RequestAt(a)
      BY <1>15, <2>1
  <2>3. \A i \in 1..need : b[i] = a.methods[i]
      BY <1>4, <1>5, <2>1, <2>2
  <2>4. Follows(\E i \in 1..need : b[i] = 0, "request", 4)
      BY <1>3, <1>10
  <2>5. skipped' = RequestAt(a) /\ target' = <<>>
      BY <1>1, <1>2, <1>10, <2>1, <2>2
  <2>6. CASE \E i \in 1..Len(a.methods) : a.methods[i] = 0
    <3>1. field' = "request" /\ need' = 4
        BY <2>1, <2>3, <2>4, <2>6 DEF Follows
    <3> QED
        BY <1>1, <2>1, <2>5, <2>6, <3>1 DEF AskInv
  <2>7. CASE ~\E i \in 1..Len(a.methods) : a.methods[i] = 0
    <3>1. field' = "refused" /\ need' = 0 /\ ~Acceptable(a)
        BY <2>1, <2>3, <2>4, <2>7 DEF Follows, Acceptable
    <3> QED
        BY <1>1, <3>1 DEF AskInv
  <2> QED
      BY <2>6, <2>7
<1>11. CASE field = "request"
  <2>1. /\ skipped = RequestAt(a) /\ need = 4 /\ target = <<>> /\ a.version = 5
        /\ \E i \in 1..Len(a.methods) : a.methods[i] = 0
      BY <1>11 DEF AskInv, a
  <2>2. skipped + need <= Len(h)
      BY <1>15, <2>1
  <2>3. b[1] = a.again /\ b[2] = a.command /\ b[4] = a.kind
      BY <1>4, <1>5, <2>1, <2>2
  <2>4. AddressFollows(b[1] = 5 /\ b[2] = 1, b[4])
      BY <1>3, <1>11
  <2>5. skipped' = RequestAt(a) + 4 /\ target' = <<>>
      BY <1>1, <1>2, <1>11, <2>1
  <2>6. CASE ~Acceptable(a)
    <3>1. ~(a.again = 5 /\ a.command = 1) \/ a.kind \notin {1, 3, 4}
        BY <1>8, <2>1, <2>6
    <3>2. field' = "refused" /\ need' = 0
        BY <2>3, <2>4, <3>1 DEF AddressFollows, Follows
    <3> QED
        BY <1>1, <2>6, <3>2 DEF AskInv
  <2>7. CASE Acceptable(a) /\ a.kind = 3
    <3>1. field' = "length" /\ need' = 1
        BY <1>8, <2>3, <2>4, <2>7 DEF AddressFollows, Follows
    <3> QED
        BY <1>1, <2>5, <2>7, <3>1 DEF AskInv
  <2>8. CASE Acceptable(a) /\ a.kind # 3
    <3>1. field' = "address" /\ need' = Len(a.addr)
        BY <1>6, <1>8, <2>3, <2>4, <2>8 DEF AddressFollows, Follows
    <3>2. skipped' = AddressAt(a)
        BY <1>6, <2>5, <2>8
    <3> QED
        BY <1>1, <1>6, <2>5, <2>8, <3>1, <3>2 DEF AskInv
  <2> QED
      BY <2>6, <2>7, <2>8
<1>12. CASE field = "length"
  <2>1. skipped = RequestAt(a) + 4 /\ need = 1 /\ target = <<>> /\ a.kind = 3 /\ Acceptable(a)
      BY <1>12 DEF AskInv, a
  <2>2. skipped + need <= Len(h) /\ skipped + 1 = RequestAt(a) + 5 /\ skipped + 1 = AddressAt(a)
    <3>1. RequestAt(a) \in Nat
        BY <1>6
    <3>2. (RequestAt(a) + 4) + 1 = RequestAt(a) + 5
        BY <3>1
    <3> QED
        BY <1>15, <2>1, <3>2
  <2>3. b[1] = Len(a.addr)
    <3>1. 1 \in 1..need /\ h[skipped + 1] = Len(a.addr)
        BY <1>5, <2>1, <2>2
    <3> QED
        BY <1>4, <2>2, <3>1
  <2>4. field' = "address" /\ need' = Len(a.addr)
      BY <1>3, <1>12, <2>3 DEF Follows
  <2>5. skipped' = AddressAt(a) /\ target' = <<>>
      BY <1>1, <1>2, <1>12, <2>1, <2>2
  <2> QED
      BY <1>1, <1>6, <2>1, <2>4, <2>5 DEF AskInv
<1>13. CASE field = "address"
  <2>1. skipped = AddressAt(a) /\ need = Len(a.addr) /\ target = <<>> /\ Acceptable(a)
      BY <1>13 DEF AskInv, a
  <2>2. skipped + need <= Len(h) /\ skipped + need = PortAt(a)
      BY <1>6, <1>15, <2>1
  <2>3. b = a.addr
    <3>1. \A i \in 1..need : b[i] = a.addr[i]
        BY <1>4, <1>5, <2>1, <2>2
    <3> QED
        BY <1>6, <1>7, <2>1, <3>1
  <2>4. field' = "port" /\ need' = 2
      BY <1>3, <1>13 DEF Follows
  <2>5. skipped' = PortAt(a) /\ target' = <<a.addr>>
    <3>1. target' = Append(<<>>, a.addr)
        BY <1>1, <1>13, <2>1, <2>3
    <3> QED
        BY <1>2, <2>2, <3>1
  <2> QED
      BY <1>1, <2>1, <2>4, <2>5 DEF AskInv
<1>14. CASE field = "port"
  <2>1. skipped = PortAt(a) /\ need = 2 /\ target = <<a.addr>> /\ Acceptable(a)
      BY <1>14 DEF AskInv, a
  <2>2. skipped + need <= Len(h) /\ skipped + need = PortAt(a) + 2
      BY <1>5, <1>6, <2>1
  <2>3. b = a.port
    <3>1. \A i \in 1..need : b[i] = a.port[i]
        BY <1>4, <1>5, <2>1, <2>2
    <3> QED
        BY <1>6, <1>7, <2>1, <3>1
  <2>4. field' = "read" /\ need' = 0
      BY <1>3, <1>14 DEF Follows
  <2>5. skipped' = PortAt(a) + 2 /\ target' = <<a.addr, a.port>>
    <3>1. target' = Append(<<a.addr>>, a.port)
        BY <1>1, <1>14, <2>1, <2>3
    <3>3. target' = <<a.addr, a.port>>
        BY <3>1, AppendTwo
    <3>4. skipped' = PortAt(a) + 2
        BY <1>2, <2>2
    <3> QED
        BY <3>3, <3>4
  <2> QED
      BY <1>1, <2>1, <2>4, <2>5 DEF AskInv
<1> QED
    BY <1>3, <1>9, <1>10, <1>11, <1>12, <1>13, <1>14

-----------------------------------------------------------------------------
(* The helpers *)

(* The copying finds the connection as the handshake leaves it.             *)
ForwardsInv ==
    /\ SpliceInv /\ AskInv
    /\ kind \in Kinds
    /\ conn \notin {"copying", "ended"} => got["chan"] = <<>> /\ buf["sock"] = <<>>
    /\ conn = "handshake" => kind = "dynamic"
    /\ conn = "connect" => kind # "dynamic"
    /\ kind = "dynamic" /\ conn \in {"establish", "open", "copying"} => field = "read"

LEMMA InitForwards == ForwardsInit => ForwardsInv
<1> SUFFICES ASSUME ForwardsInit PROVE ForwardsInv
    OBVIOUS
<1>1. SpliceInv
    BY InitSpliceInv DEF ForwardsInit
<1>2. AskInv
    BY DEF ForwardsInit, AskInit, AskInv, SpliceInit
<1>3. got["chan"] = <<>> /\ buf["sock"] = <<>>
    BY DEF ForwardsInit, SpliceInit, Ends
<1> QED
    BY <1>1, <1>2, <1>3 DEF ForwardsInit, ForwardsInv

(* AskInv reads nothing but these.                                          *)
LEMMA AskKept == AskInv /\ UNCHANGED askVars /\ skipped' = skipped => AskInv'
BY DEF AskInv, askVars

LEMMA HandshakeKeeps == ForwardsInv /\ Handshake => ForwardsInv'
<1> SUFFICES ASSUME ForwardsInv, Handshake PROVE ForwardsInv'
    OBVIOUS
<1>1. /\ SpliceInv /\ AskInv /\ kind \in Kinds /\ kind' = kind /\ kind = "dynamic"
      /\ got["chan"] = <<>> /\ buf["sock"] = <<>> /\ need \in Nat /\ conn = "handshake"
    BY DEF ForwardsInv, Handshake, AskInv
<1>2. CASE ReadField /\ conn' = ConnAt(field')
  <2>1. AskInv'
      BY <1>1, <1>2, ReadFieldInv
  <2>2. ReadExact
      BY <1>2 DEF ReadField
  <2>3. SpliceInv' /\ got'["chan"] = <<>> /\ buf'["sock"] = <<>>
      BY <1>1, <2>2, ReadExactInv
  <2>4. /\ conn' \in {"establish", "open", "copying"} => field' = "read"
        /\ conn' # "connect"
      BY <1>2 DEF ConnAt
  <2> QED
      BY <1>1, <2>1, <2>3, <2>4 DEF ForwardsInv
<1>3. CASE conn' = "ended" /\ UNCHANGED <<spliceVars, askVars>>
  <2>1. SpliceInv'
      BY <1>1, <1>3, SpliceStepInv
  <2>2. AskInv'
      BY <1>1, <1>3, AskKept DEF spliceVars
  <2> QED
      BY <1>1, <1>3, <2>1, <2>2 DEF ForwardsInv
<1> QED
    BY <1>2, <1>3 DEF Handshake

(* The helper and the connecting touch no byte.                             *)
LEMMA ConnectingKeeps ==
    ForwardsInv /\ (Helper \/ Serve \/ ConnectLocal \/ XTurn \/ UNCHANGED forwardVars) => ForwardsInv'
<1> SUFFICES ASSUME ForwardsInv, Helper \/ Serve \/ ConnectLocal \/ XTurn \/ UNCHANGED forwardVars
             PROVE  ForwardsInv'
    OBVIOUS
<1>1. UNCHANGED spliceVars /\ UNCHANGED askVars /\ kind' = kind
    BY DEF Helper, Start, CheckAlive, Accept, Serve, ConnectLocal, Goes, XTurn, forwardVars
<1>2. SpliceInv' /\ AskInv'
    BY <1>1, SpliceStepInv, AskKept DEF ForwardsInv, spliceVars
<1>3. got' = got /\ buf' = buf /\ field' = field
    BY <1>1 DEF spliceVars, askVars
<1>4. \/ conn' = conn
      \/ conn = "none" /\ conn' = FirstStep
      \/ conn' = "ended"
      \/ conn = "establish" /\ conn' = "open"
      \/ conn = "open" /\ conn' = "copying"
      \/ conn = "connect" /\ conn' = "copying"
    BY DEF Helper, Start, CheckAlive, Accept, Serve, ConnectLocal, Goes, XTurn, forwardVars
<1>5. /\ FirstStep = "handshake" => kind = "dynamic"
      /\ FirstStep = "connect" => kind # "dynamic"
      /\ kind = "dynamic" => FirstStep = "handshake"
  <2>1. kind \in {"local", "remote", "dynamic", "x11", "jump"}
      BY ForwardsAssumption DEF ForwardsInv
  <2> QED
      BY <2>1 DEF FirstStep
<1> QED
    BY <1>1, <1>2, <1>3, <1>4, <1>5 DEF ForwardsInv

(* The copying and the peers leave the handshake alone.                     *)
LEMMA CopyingKeeps == ForwardsInv /\ (CopyStep \/ Peers \/ OwnerGoes) => ForwardsInv'
<1> SUFFICES ASSUME ForwardsInv, CopyStep \/ Peers \/ OwnerGoes PROVE ForwardsInv'
    OBVIOUS
<1>1. UNCHANGED askVars /\ kind' = kind /\ conn' = conn
    BY DEF CopyStep, Peers, OwnerGoes, askVars
<1>2. \/ Copies /\ Running /\ (Step \/ Fail)
      \/ OwnerEnds
      \/ \E e \in Ends : PeerSends(e) \/ PeerCloses(e)
    BY DEF CopyStep, Peers, OwnerGoes
<1>3. SpliceInv'
    BY <1>2, SpliceStepInv DEF ForwardsInv
<1>4. skipped' = skipped
    BY <1>2 DEF Step, Top, ReadChan, ReadSock, Check, WriteTo, Fail, OwnerEnds, PeerSends, PeerCloses
<1>5. AskInv'
    BY <1>1, <1>4, AskKept DEF ForwardsInv
<1>6. (got' = got /\ buf' = buf) \/ conn = "copying"
    BY <1>2 DEF Copies, OwnerEnds, PeerSends, PeerCloses
<1> QED
    BY <1>1, <1>3, <1>5, <1>6 DEF ForwardsInv, askVars

LEMMA ForwardsInvariant == ForwardsSpec => []ForwardsInv
<1>1. ForwardsInv /\ [ForwardsNext]_forwardVars => ForwardsInv'
    BY HandshakeKeeps, ConnectingKeeps, CopyingKeeps DEF ForwardsNext, Connection
<1> QED
    BY <1>1, InitForwards, PTL DEF ForwardsSpec

(* However the handshake arrives, and whatever the client sends behind it   *)
(* without waiting: the copying begins at the first byte after the request, *)
(* with what was asked for, and only what is no request for a connection    *)
(* without authentication is refused (socks5_target).                       *)
THEOREM SocksTakesItsOwn == ForwardsSpec => []HandshakeTakesItsOwn
<1>1. ForwardsInv => HandshakeTakesItsOwn
  <2> SUFFICES ASSUME ForwardsInv PROVE HandshakeTakesItsOwn
      OBVIOUS
  <2>1. Len(Hello(ask)) = PortAt(ask) + 2
      BY HelloIs DEF ForwardsInv, AskInv
  <2> QED
      BY <2>1 DEF ForwardsInv, AskInv, HandshakeTakesItsOwn
<1> QED
    BY <1>1, ForwardsInvariant, PTL

(* No byte of a forwarded connection is lost, doubled or reordered.         *)
THEOREM ForwardedBytesInOrder == ForwardsSpec => []BytesInOrder
<1>1. ForwardsInv => BytesInOrder
    BY DEF ForwardsInv, SpliceInv
<1> QED
    BY <1>1, ForwardsInvariant, PTL

(* A forwarded connection that ends in order has delivered everything.      *)
THEOREM ForwardedCompleteDelivers == ForwardsSpec => []CompleteDeliversAll
<1>1. ForwardsInv => CompleteDeliversAll
    BY CompleteFromInv DEF ForwardsInv
<1> QED
    BY <1>1, ForwardsInvariant, PTL

=============================================================================
