------------------------------ MODULE X11Setup ------------------------------
(***************************************************************************)
(* The first thing an X client sends is a block with its authorization;    *)
(* x11.rs replaces that by the local cookie (xauthority_cookie,            *)
(* rewrite_setup, the handshake part of proxy).  The block arrives in any  *)
(* fragments.  A byte is a number; where nothing depends on its value it   *)
(* tells where it came from.                                               *)
(***************************************************************************)
EXTENDS Naturals, Sequences

CONSTANTS
    Display,   \* number of the local display
    Files,     \* what ~/.Xauthority may hold: sequences of records
    Clients,   \* what the client may send: streams of bytes
    NoCookie   \* xauthority_cookie's None, which is not an empty cookie

VARIABLES
    stream,    \* all the client sends
    cookie,    \* of the local display, or NoCookie
    taken,     \* bytes of it that proxy has read
    hs,        \* the unfinished block
    hsDone,
    toLocal,   \* to be written to the X server
    shown      \* what the X server has got

setupVars == <<stream, cookie, taken, hs, hsDone, toLocal, shown>>

Magic == [i \in 1..18 |-> 100 + i]

(* The first record of the display, else the first of family 0xffff.  Its   *)
(* data may be empty.                                                       *)
XauthorityCookie(records) ==
    LET magic == SelectSeq(records, LAMBDA r : r.magic)
        own   == SelectSeq(magic, LAMBDA r : r.display = Display)
        wild  == SelectSeq(magic, LAMBDA r : r.wildcard)
    IN  IF own # <<>>       THEN Head(own).cookie
        ELSE IF wild # <<>> THEN Head(wild).cookie
        ELSE NoCookie

ASSUME SetupAssumption ==
    /\ Clients \subseteq Seq(Nat)
    /\ \A f \in Files : XauthorityCookie(f) \in Seq(Nat) \cup {NoCookie}
    /\ NoCookie \notin Seq(Nat)

SetupInit ==
    /\ stream \in Clients
    /\ cookie \in {XauthorityCookie(f) : f \in Files}
    /\ taken = 0
    /\ hs = <<>>
    /\ hsDone = (cookie = NoCookie)
    /\ toLocal = <<>> /\ shown = <<>>

-----------------------------------------------------------------------------
(* rewrite_setup *)

Pad4(n) == ((n + 3) \div 4) * 4

Zeros(n) == [i \in 1..n |-> 0]

BigEndian(b) == b[1] = 66

(* The 16-bit number at the 0-based offset o.                               *)
Num(b, o) == IF BigEndian(b) THEN 256 * b[o + 1] + b[o + 2] ELSE b[o + 1] + 256 * b[o + 2]

Word(b, n) == IF BigEndian(b) THEN <<n \div 256, n % 256>> ELSE <<n % 256, n \div 256>>

Total(b) == 12 + Pad4(Num(b, 6)) + Pad4(Num(b, 8))

Complete(b) == Len(b) >= 12 /\ Len(b) >= Total(b)

Padded(s) == s \o Zeros(Pad4(Len(s)) - Len(s))

(* Mutant: what was read past the block is dropped.                         *)
RewriteOnlyBlock(b) ==
    SubSeq(b, 1, 6) \o Word(b, Len(Magic)) \o Word(b, Len(cookie)) \o SubSeq(b, 11, 12)
        \o Padded(Magic) \o Padded(cookie)

Rewritten(b) ==
    SubSeq(b, 1, 6) \o Word(b, Len(Magic)) \o Word(b, Len(cookie)) \o SubSeq(b, 11, 12)
        \o Padded(Magic) \o Padded(cookie) \o SubSeq(b, Total(b) + 1, Len(b))

-----------------------------------------------------------------------------
(* proxy: a read of the channel, a write to the X server *)

ReadClient ==
    \E n \in taken + 1..Len(stream) :
        LET new == SubSeq(stream, taken + 1, n)
            all == hs \o new
        IN  /\ taken' = n
            /\ IF hsDone      THEN toLocal' = toLocal \o new /\ UNCHANGED <<hs, hsDone>>
               ELSE IF Complete(all)
                    THEN toLocal' = toLocal \o Rewritten(all) /\ hsDone' = TRUE /\ hs' = <<>>
                    ELSE hs' = all /\ UNCHANGED <<toLocal, hsDone>>
            /\ UNCHANGED <<stream, cookie, shown>>

(* Short writes are Splice's business.                                      *)
WriteServer ==
    /\ toLocal # <<>>
    /\ shown' = shown \o toLocal
    /\ toLocal' = <<>>
    /\ UNCHANGED <<stream, cookie, taken, hs, hsDone>>

-----------------------------------------------------------------------------
(* Properties *)

Round4(n) == CHOOSE m \in n..n + 3 : m % 4 = 0

(* What the X protocol makes of a stream that starts with a block.          *)
Authorization(b) ==
    LET name == Num(b, 6)
        data == Num(b, 8)
        at   == 12 + Round4(name)
    IN  [name |-> SubSeq(b, 13, 12 + name), data |-> SubSeq(b, at + 1, at + data),
         rest |-> SubSeq(b, at + Round4(data) + 1, Len(b)),
         kept |-> SubSeq(b, 1, 6) \o SubSeq(b, 11, 12)]

Whole(b) == Len(b) >= 12 /\ Len(b) >= 12 + Round4(Num(b, 6)) + Round4(Num(b, 8))

(* Whatever the fragments, the byte order and the lengths of the block: the *)
(* X server sees nothing of it until it is complete, then a block that asks *)
(* for the local cookie in the client's byte order, then the client's bytes *)
(* from the end of its own block on.  An empty cookie is a cookie; only     *)
(* without any it sees the client's bytes (rewrite_setup, proxy).           *)
XServerSeesOwnCookie ==
    LET in  == SubSeq(stream, 1, taken)
        out == shown \o toLocal
    IN  IF cookie = NoCookie THEN out = in
        ELSE IF ~Whole(in) THEN out = <<>>
        ELSE Authorization(out) =
                [Authorization(in) EXCEPT !.name = Magic, !.data = cookie]

=============================================================================
