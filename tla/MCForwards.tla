----------------------------- MODULE MCForwards -----------------------------
EXTENDS Forwards

(* Records of ~/.Xauthority.                                                *)
Rec(display, wildcard, magic, c) ==
    [display |-> display, wildcard |-> wildcard, magic |-> magic, cookie |-> c]

MCFiles == {<<>>,
            <<Rec(1, FALSE, TRUE, <<31>>), Rec(0, FALSE, FALSE, <<32>>)>>,
            <<Rec(1, TRUE, TRUE, <<33, 34, 35, 36, 37>>), Rec(0, FALSE, TRUE, <<41, 42, 43, 44>>)>>,
            <<Rec(1, TRUE, TRUE, <<33, 34, 35, 36, 37>>), Rec(2, TRUE, TRUE, <<38>>)>>,
            <<Rec(0, FALSE, TRUE, <<>>)>>}

Fill(n, tag) == [i \in 1..n |-> tag + i] \o [i \in 1..((4 - (n % 4)) % 4) |-> 0]

Both(order, n) == IF order = 66 THEN <<0, n>> ELSE <<n, 0>>

(* A block of either byte order, and three bytes of the first request.      *)
MCClients ==
    {<<order, 0, 11, 0, 0, 0>> \o Both(order, n) \o Both(order, d) \o <<7, 8>>
        \o Fill(n, 50) \o Fill(d, 60) \o <<71, 72, 73>>
        : order \in {66, 108}, n \in {0, 1, 4, 7}, d \in {0, 3, 4}}

Ask(version, methods, again, command, k, addr) ==
    [version |-> version, methods |-> methods, again |-> again, command |-> command,
     kind |-> k, addr |-> addr, port |-> <<1, 187>>]

(* The three kinds of address, a name of no length, and what is refused at  *)
(* every place.                                                             *)
MCAsks ==
    {Ask(5, <<0>>, 5, 1, 1, <<10, 0, 5, 1>>),
     Ask(5, <<2, 0>>, 5, 1, 3, <<120, 3>>),
     Ask(5, <<0>>, 5, 1, 3, <<>>),
     Ask(5, <<1, 0>>, 5, 1, 4, [i \in 1..16 |-> i]),
     Ask(4, <<0>>, 5, 1, 1, <<10, 0, 5, 1>>),
     Ask(5, <<>>, 5, 1, 1, <<10, 0, 5, 1>>),
     Ask(5, <<2>>, 5, 1, 1, <<10, 0, 5, 1>>),
     Ask(5, <<0>>, 4, 1, 1, <<10, 0, 5, 1>>),
     Ask(5, <<0>>, 5, 3, 3, <<120>>),
     Ask(5, <<0>>, 5, 1, 2, <<>>)}

MCTunnels == {"local", "remote", "dynamic", "x11", "jump"}
MCJump == {"jump"}
=============================================================================
