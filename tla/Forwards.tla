------------------------------ MODULE Forwards ------------------------------
(***************************************************************************)
(* A helper of a terminal session and one connection it forwards: a local, *)
(* remote or dynamic tunnel (tunnels.rs), the X11 forward (x11.rs), or the *)
(* bridge through a jump host (ssh.rs), which has no owner.  The copying   *)
(* is Splice, behind Socks5's handshake on a dynamic tunnel, except for    *)
(* X11, whose stream begins with X11Setup's block.                         *)
(***************************************************************************)
EXTENDS Socks5, X11Setup

CONSTANT Kinds   \* which helpers there are

ASSUME ForwardsAssumption == Kinds \subseteq {"local", "remote", "dynamic", "x11", "jump"}

VARIABLES
    kind,    \* of the helper
    helper,  \* where its thread is
    conn     \* where the thread of the connection is

forwardVars == <<spliceVars, askVars, setupVars, kind, helper, conn>>

ForwardsInit ==
    /\ SpliceInit
    /\ AskInit
    /\ SetupInit
    /\ kind \in Kinds
    /\ kind # "dynamic" => ask = CHOOSE a \in Asks : TRUE
    /\ kind # "x11" => stream = CHOOSE s \in Clients : TRUE
    /\ kind # "x11" => cookie = XauthorityCookie(CHOOSE f \in Files : TRUE)
    /\ helper = "start"
    /\ conn = "none"

-----------------------------------------------------------------------------
(* The helper thread *)

Listening == IF kind = "jump" THEN "accept" ELSE "check"

(* A port is bound here, or on the server through a session of its own,     *)
(* which may take its time; the bridge has had its host connected for it.   *)
Start ==
    /\ helper = "start"
    /\ helper' \in {Listening, "unavailable"}
    /\ UNCHANGED <<spliceVars, askVars, setupVars, kind, conn>>

(* Mutant: accept blocks, so that the flag is looked at after a connection. *)
CheckAliveLater ==
    /\ helper = "check"
    /\ helper' = IF alive \/ conn = "none" THEN "accept" ELSE "closed"
    /\ UNCHANGED <<spliceVars, askVars, setupVars, kind, conn>>

(* Once per turn.  A session of its own may have failed to stay alive.      *)
CheckAlive ==
    /\ helper = "check"
    /\ \/ helper' = IF alive THEN "accept" ELSE "closed"
       \/ kind \in {"remote", "x11"} /\ helper' = "closed"
    /\ UNCHANGED <<spliceVars, askVars, setupVars, kind, conn>>

FirstStep ==
    CASE kind = "dynamic"          -> "handshake"
      [] kind = "local"            -> "establish"
      [] kind \in {"remote", "x11"} -> "connect"
      [] kind = "jump"             -> "open"

(* A connection, which gets a thread of its own (the bridge's is the one    *)
(* that has accepted); an error; or nobody, for which the bridge waits.     *)
(* Bound: one connection.                                                   *)
Accept ==
    /\ helper = "accept"
    /\ \/ /\ conn = "none"
          /\ conn' = FirstStep
          /\ helper' = IF kind = "jump" THEN "closed" ELSE "check"
       \/ helper' = "unavailable" /\ UNCHANGED conn
       \/ kind # "jump" /\ helper' = "check" /\ UNCHANGED conn
    /\ UNCHANGED <<spliceVars, askVars, setupVars, kind>>

-----------------------------------------------------------------------------
(* The thread of the connection, until it copies *)

Goes(from, to) ==
    /\ conn = from
    /\ conn' \in {to, "ended"}
    /\ UNCHANGED <<spliceVars, askVars, setupVars, kind, helper>>

ConnAt(f) ==
    CASE f = "read"    -> "establish"
      [] f = "refused" -> "ended"
      [] OTHER         -> "handshake"

(* Mutant: no read timeout.                                                 *)
HandshakeWaits ==
    /\ conn = "handshake"
    /\ ReadField /\ conn' = ConnAt(field')
    /\ UNCHANGED <<setupVars, kind, helper>>

(* A refusal, an early end, or a silence of 10 s ends the connection; the   *)
(* request is answered with success before anything is tried.               *)
Handshake ==
    /\ conn = "handshake"
    /\ \/ ReadField /\ conn' = ConnAt(field')
       \/ conn' = "ended" /\ UNCHANGED <<spliceVars, askVars>>
    /\ UNCHANGED <<setupVars, kind, helper>>

(* serve: a session of its own, then the channel.                           *)
Serve == Goes("establish", "open") \/ Goes("open", "copying")

(* proxy_to_local, and proxy for X11.                                       *)
ConnectLocal == Goes("connect", "copying")

Copies == conn = "copying" /\ kind # "x11"

CopyStep ==
    /\ Copies
    /\ Running /\ (Step \/ Fail)
    /\ UNCHANGED <<askVars, setupVars, kind, helper, conn>>

(* A turn of proxy's loop; it ends with the owner, on an error, or when     *)
(* both ends are over.                                                      *)
XTurn ==
    /\ conn = "copying" /\ kind = "x11"
    /\ \/ /\ alive
          /\ ReadClient \/ WriteServer
          /\ UNCHANGED conn
       \/ conn' = "ended" /\ UNCHANGED setupVars
    /\ UNCHANGED <<spliceVars, askVars, kind, helper>>

Over == conn = "ended" \/ (Copies /\ ~Running)

-----------------------------------------------------------------------------
(* The peers and the owner *)

(* When an end can send: the channel's opens late, or first.                *)
Open(e) ==
    /\ kind # "x11" /\ ~Over
    /\ \/ conn = "copying"
       \/ kind = "remote" /\ e = "chan" /\ conn # "none"
       \/ kind \in {"local", "dynamic", "jump"} /\ e = "sock" /\ conn # "none"

(* Bound: MaxSend bytes, behind the request if there is one.                *)
MaySend(e) ==
    sent[e] < IF kind = "dynamic" /\ e = "sock" THEN Len(Hello(ask)) + MaxSend ELSE MaxSend

Peers ==
    /\ \E e \in Ends : Open(e) /\ ((MaySend(e) /\ PeerSends(e)) \/ PeerCloses(e))
    /\ UNCHANGED <<askVars, setupVars, kind, helper, conn>>

OwnerGoes ==
    /\ kind # "jump"
    /\ OwnerEnds
    /\ UNCHANGED <<askVars, setupVars, kind, helper, conn>>

Helper == Start \/ CheckAlive \/ Accept
Connection == Handshake \/ Serve \/ ConnectLocal \/ CopyStep \/ XTurn

ForwardsNext == Helper \/ Connection \/ Peers \/ OwnerGoes

(* The threads are scheduled, and what they block in ends, by a timeout or  *)
(* because the server answers or the connection breaks, except for the      *)
(* bridge's accept.                                                         *)
ForwardsSpec ==
    /\ ForwardsInit
    /\ [][ForwardsNext]_forwardVars
    /\ WF_forwardVars(kind # "jump" /\ Helper)
    /\ WF_forwardVars(Handshake \/ Serve \/ ConnectLocal \/ XTurn)
    /\ WF_forwardVars(Copies /\ Running /\ Step /\ UNCHANGED <<askVars, setupVars, kind, helper, conn>>)

-----------------------------------------------------------------------------
(* Properties *)

(* However the handshake arrives, and whatever the client sends behind it   *)
(* without waiting for the answer: the copying begins at the first byte     *)
(* after the request, with the address and the port that were asked for;    *)
(* what is refused is no request for a connection without authentication    *)
(* (socks5_target).                                                         *)
HandshakeTakesItsOwn ==
    kind = "dynamic" =>
        /\ conn \in {"establish", "open", "copying"} =>
              /\ Acceptable(ask)
              /\ skipped = Len(Hello(ask))
              /\ target = <<ask.addr, ask.port>>
        /\ field = "refused" => ~Acceptable(ask)

(* The comment on start_all: all helpers stop when the session ends.  So do *)
(* their connections, whatever they were at, and the ports are free for the *)
(* session that takes its place.                                            *)
OwnerEndStopsForwards ==
    ~alive ~> helper \in {"closed", "unavailable"} /\ (conn = "none" \/ Over)

(* An accepted connection is forwarded or closed: nobody who was promised   *)
(* success by the SOCKS reply, or has not finished asking, keeps a thread.  *)
ConnectionSettles == (conn # "none") ~> (conn \in {"copying", "ended"})

(* The comment on jump_bridge: the bridge serves exactly one connection,    *)
(* the inner session, and exits when it does.  But the loop tells neither   *)
(* end that the other is over: with the inner session's socket closed, all  *)
(* delivered and the target silent, it goes on, as it has no owner.         *)
BridgeEndsWithSession ==
    ~<>[](/\ kind = "jump" /\ Copies /\ Running
          /\ eof["sock"]
          /\ \A e \in Ends : wire[e] = <<>> /\ buf[e] = <<>>)

=============================================================================
