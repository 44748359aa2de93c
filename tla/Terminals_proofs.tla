-------------------------- MODULE Terminals_proofs --------------------------
(***************************************************************************)
(* The terminals, for every set of sessions, hosts, tabs and inputs.  In   *)
(* order: lemmas on sequences and on Only; the SSH back end (SshSession);  *)
(* the tabs of the page over it (TermTab); serial consoles (SerialPort).   *)
(***************************************************************************)
EXTENDS TermTab, SerialPort, SequenceTheorems, WellFoundedInduction, TLAPS

-----------------------------------------------------------------------------
(* Counting up, and what Only tabulates *)

(* Every set of numbers that is not empty has a least one. *)
LEMMA LeastNumber ==
    ASSUME NEW T, T \subseteq Nat, T # {}
    PROVE  \E n \in T : \A m \in T : ~(m < n)
<1>1. PICK n \in T : \A m \in T : ~(<<m, n>> \in OpToRel(<, Nat))
    BY NatLessThanWellFounded, WFMin
<1>2. \A m \in T : m < n => <<m, n>> \in OpToRel(<, Nat)
    BY DEF OpToRel
<1> QED
    BY <1>1, <1>2

(* f is what Only tabulates for the first n elements of q. *)
Table(q, S, n, f) ==
    f = [i \in 0..n |-> IF i = 0 THEN <<>>
                        ELSE IF q[i] \in S THEN Append(f[i - 1], q[i]) ELSE f[i - 1]]

LEMMA TableExists ==
    ASSUME NEW q, NEW S, NEW n \in Nat
    PROVE  \E f : Table(q, S, n, f)
<1> DEFINE Without == {k \in Nat : ~\E f : Table(q, S, k, f)}
<1>1. SUFFICES ASSUME Without # {} PROVE FALSE
    OBVIOUS
<1>2. PICK k \in Without : \A m \in Without : ~(m < k)
    <2> HIDE DEF Without
    <2>1. Without \subseteq Nat
        BY DEF Without
    <2> QED
        BY <1>1, <2>1, LeastNumber
<1>3. k # 0
    <2>1. Table(q, S, 0, [i \in 0..0 |-> <<>>])
        BY DEF Table
    <2> QED
        BY <1>2, <2>1
<1>4. PICK g : Table(q, S, k - 1, g)
    <2>1. k - 1 \in Nat /\ k - 1 < k
        BY <1>3
    <2> QED
        BY <1>2, <2>1
<1> DEFINE h == [i \in 0..k |-> IF i = k THEN IF q[k] \in S THEN Append(g[k - 1], q[k]) ELSE g[k - 1]
                                ELSE g[i]]
<1>5. Table(q, S, k, h)
    <2>1. k \in Nat \ {0}
        BY <1>3
    <2>2. \A i \in 0..k - 1 : h[i] = g[i]
        BY <2>1
    <2>3. \A i \in 0..k - 1 :
              g[i] = IF i = 0 THEN <<>> ELSE IF q[i] \in S THEN Append(g[i - 1], q[i]) ELSE g[i - 1]
        BY <1>4, <2>1 DEF Table
    <2>4. \A i \in 0..k :
              h[i] = IF i = 0 THEN <<>> ELSE IF q[i] \in S THEN Append(h[i - 1], q[i]) ELSE h[i - 1]
        <3> SUFFICES ASSUME NEW i \in 0..k
                     PROVE  h[i] = IF i = 0 THEN <<>> ELSE IF q[i] \in S THEN Append(h[i - 1], q[i]) ELSE h[i - 1]
            OBVIOUS
        <3>1. i # 0 => i - 1 \in 0..k - 1
            BY <2>1
        <3>2. CASE i = k
            <4>1. h[k] = IF q[k] \in S THEN Append(g[k - 1], q[k]) ELSE g[k - 1]
                BY <2>1
            <4> QED
                BY <2>1, <2>2, <3>1, <3>2, <4>1
        <3>3. CASE i # k
            <4>1. i \in 0..k - 1
                BY <2>1, <3>3
            <4> HIDE DEF h
            <4> QED
                BY <2>2, <2>3, <3>1, <4>1
        <3> QED
            BY <3>2, <3>3
    <2>5. h = [i \in 0..k |-> h[i]]
        OBVIOUS
    <2> HIDE DEF h
    <2> QED
        BY <2>4, <2>5 DEF Table
<1> HIDE DEF h
<1> QED
    BY <1>2, <1>5

LEMMA OnlyIsTable ==
    ASSUME NEW q, NEW S, Len(q) \in Nat
    PROVE  \E f : Table(q, S, Len(q), f) /\ Only(q, S) = f[Len(q)]
<1> DEFINE f == CHOOSE f : Table(q, S, Len(q), f)
<1>1. Table(q, S, Len(q), f)
    BY TableExists
<1>2. Only(q, S) = f[Len(q)]
    BY DEF Only, Table
<1> QED
    BY <1>1, <1>2

LEMMA TableStart ==
    ASSUME NEW q, NEW S, NEW n \in Nat, NEW f, Table(q, S, n, f)
    PROVE  f[0] = <<>>
<1>1. 0 \in 0..n
    OBVIOUS
<1> QED
    BY <1>1 DEF Table

LEMMA TableStep ==
    ASSUME NEW q, NEW S, NEW n \in Nat, NEW f, Table(q, S, n, f), NEW i \in 1..n
    PROVE  f[i] = IF q[i] \in S THEN Append(f[i - 1], q[i]) ELSE f[i - 1]
<1>1. i \in 0..n /\ i # 0
    OBVIOUS
<1> QED
    BY <1>1 DEF Table

(* What holds at 0 and passes from each number to the next holds up to n.   *)
LEMMA UpTo ==
    ASSUME NEW n \in Nat, NEW G, 0 \in G, \A i \in 1..n : i - 1 \in G => i \in G
    PROVE  \A i \in 0..n : i \in G
<1> DEFINE Bad == {i \in 0..n : i \notin G}
<1>1. SUFFICES ASSUME Bad # {} PROVE FALSE
    OBVIOUS
<1>2. PICK k \in Bad : \A m \in Bad : ~(m < k)
    <2>1. Bad \subseteq Nat
        OBVIOUS
    <2> HIDE DEF Bad
    <2> QED
        BY <1>1, <2>1, LeastNumber
<1>3. k \in 1..n
    BY <1>2
<1>4. k - 1 \in 0..n /\ k - 1 < k
    BY <1>3
<1> QED
    BY <1>2, <1>3, <1>4

LEMMA TableTyped ==
    ASSUME NEW q, NEW S, NEW n \in Nat, NEW f, Table(q, S, n, f)
    PROVE  \A i \in 0..n : f[i] \in Seq(S)
<1> DEFINE G == {i \in 0..n : f[i] \in Seq(S)}
<1>1. 0 \in G
    <2>1. f[0] \in Seq(S)
        BY TableStart, EmptySeq
    <2> QED
        BY <2>1
<1>2. ASSUME NEW i \in 1..n, i - 1 \in G PROVE i \in G
    <2>1. i \in 0..n /\ f[i - 1] \in Seq(S)
        BY <1>2
    <2>2. f[i] = IF q[i] \in S THEN Append(f[i - 1], q[i]) ELSE f[i - 1]
        BY TableStep
    <2>3. f[i] \in Seq(S)
        BY <2>1, <2>2
    <2> QED
        BY <2>1, <2>3
<1> HIDE DEF G
<1>3. \A i \in 0..n : i \in G
    BY <1>1, <1>2, UpTo
<1> QED
    BY <1>3 DEF G

(* Tables of sequences with a common beginning agree on it.                 *)
LEMMA TablesAgree ==
    ASSUME NEW q, NEW p, NEW S, NEW n \in Nat, NEW m \in Nat, NEW f, NEW g,
           Table(q, S, n, f), Table(p, S, m, g),
           n <= m, \A i \in 1..n : q[i] = p[i]
    PROVE  f[n] = g[n]
<1> DEFINE G == {i \in 0..n : f[i] = g[i]}
<1>1. 0 \in G
    <2>1. f[0] = g[0]
        BY TableStart
    <2> QED
        BY <2>1
<1>2. ASSUME NEW i \in 1..n, i - 1 \in G PROVE i \in G
    <2>1. i \in 0..n /\ i \in 1..m /\ q[i] = p[i] /\ f[i - 1] = g[i - 1]
        BY <1>2
    <2>2. f[i] = IF q[i] \in S THEN Append(f[i - 1], q[i]) ELSE f[i - 1]
        BY TableStep
    <2>3. g[i] = IF p[i] \in S THEN Append(g[i - 1], p[i]) ELSE g[i - 1]
        BY <2>1, TableStep
    <2>4. f[i] = g[i]
        BY <2>1, <2>2, <2>3
    <2> QED
        BY <2>1, <2>4
<1> HIDE DEF G
<1>3. n \in G
    <2>1. \A i \in 0..n : i \in G
        BY <1>1, <1>2, UpTo
    <2> QED
        BY <2>1
<1> QED
    BY <1>3 DEF G

LEMMA OnlyTyped ==
    ASSUME NEW T, NEW q \in Seq(T), NEW S
    PROVE  Only(q, S) \in Seq(S)
<1>1. Len(q) \in Nat
    BY LenProperties
<1>2. PICK f : Table(q, S, Len(q), f) /\ Only(q, S) = f[Len(q)]
    BY <1>1, OnlyIsTable
<1>3. \A i \in 0..Len(q) : f[i] \in Seq(S)
    BY <1>1, <1>2, TableTyped
<1> QED
    BY <1>1, <1>2, <1>3

LEMMA OnlyEmpty ==
    ASSUME NEW S
    PROVE  Only(<<>>, S) = <<>>
<1> DEFINE e == <<>>
<1>1. Len(e) = 0
    OBVIOUS
<1> HIDE DEF e
<1>2. PICK f : Table(e, S, 0, f) /\ Only(e, S) = f[0]
    BY <1>1, OnlyIsTable
<1>3. f[0] = <<>>
    BY <1>2, TableStart
<1>4. Only(e, S) = <<>>
    BY <1>2, <1>3
<1> QED
    BY <1>4 DEF e

LEMMA OnlyAppend ==
    ASSUME NEW T, NEW q \in Seq(T), NEW x \in T, NEW S
    PROVE  Only(Append(q, x), S) = IF x \in S THEN Append(Only(q, S), x) ELSE Only(q, S)
<1> DEFINE p == Append(q, x)
           n == Len(q)
<1>1. /\ n \in Nat /\ Len(p) = n + 1
      /\ \A i \in 1..n : q[i] = p[i]
      /\ p[n + 1] = x
    BY LenProperties, AppendProperties
<1>2. PICK f : Table(q, S, n, f) /\ Only(q, S) = f[n]
    BY <1>1, OnlyIsTable
<1> HIDE DEF p
<1>3. PICK g : Table(p, S, n + 1, g) /\ Only(p, S) = g[n + 1]
    BY <1>1, OnlyIsTable
<1> HIDE DEF n
<1>4. f[n] = g[n]
    BY <1>1, <1>2, <1>3, TablesAgree
<1>5. g[n + 1] = IF p[n + 1] \in S THEN Append(g[(n + 1) - 1], p[n + 1]) ELSE g[(n + 1) - 1]
    BY <1>1, <1>3, TableStep
<1>6. (n + 1) - 1 = n
    BY <1>1
<1> QED
    BY <1>1, <1>2, <1>3, <1>4, <1>5, <1>6 DEF p

LEMMA OnlyHeadTail ==
    ASSUME NEW T, NEW q \in Seq(T), q # <<>>, NEW S
    PROVE  Only(q, S) = IF Head(q) \in S THEN <<Head(q)>> \o Only(Tail(q), S)
                                         ELSE Only(Tail(q), S)
<1> DEFINE t == Tail(q)
           n == Len(t)
           h == IF Head(q) \in S THEN <<Head(q)>> ELSE <<>>
<1>1. /\ t \in Seq(T) /\ n \in Nat /\ Len(q) = n + 1
      /\ \A i \in 1..n : t[i] = q[i + 1]
      /\ Head(q) = q[1]
    BY HeadTailProperties, LenProperties
<1>2. h \in Seq(S)
    OBVIOUS
<1>3. PICK f : Table(t, S, n, f) /\ Only(t, S) = f[n]
    BY <1>1, OnlyIsTable
<1>4. PICK g : Table(q, S, n + 1, g) /\ Only(q, S) = g[n + 1]
    BY <1>1, OnlyIsTable
<1> DEFINE G == {i \in 0..n : g[i + 1] = h \o f[i]}
<1> HIDE DEF t, n
<1>e. \A i \in 0..n : f[i] \in Seq(S)
    BY <1>1, <1>3, TableTyped
<1>5. 0 \in G
    <2>1. 1 \in 1..n + 1 /\ n + 1 \in Nat /\ 0 \in 0..n
        BY <1>1
    <2>2. g[1] = IF q[1] \in S THEN Append(g[1 - 1], q[1]) ELSE g[1 - 1]
        BY <1>4, <2>1, TableStep
    <2>3. g[0] = <<>> /\ f[0] = <<>>
        BY <1>1, <1>3, <1>4, <2>1, TableStart
    <2>4. g[1] = h
        <3>1. 1 - 1 = 0 /\ q[1] = Head(q)
            BY <1>1
        <3>2. CASE q[1] \in S
            <4>1. g[1] = Append(g[0], q[1])
                BY <2>2, <3>1, <3>2
            <4>2. g[1] = Append(<<>>, q[1])
                BY <2>3, <4>1
            <4> QED
                BY <3>1, <3>2, <4>2
        <3>3. CASE q[1] \notin S
            <4>1. g[1] = g[0]
                BY <2>2, <3>1, <3>3
            <4>2. h = <<>>
                BY <3>1, <3>3
            <4> HIDE DEF h
            <4> QED
                BY <2>3, <4>1, <4>2
        <3> QED
            BY <3>2, <3>3
    <2> HIDE DEF h
    <2>5. h \o <<>> = h
        BY <1>2, ConcatEmptySeq
    <2>6. g[0 + 1] = h \o f[0]
        BY <2>3, <2>4, <2>5
    <2> QED
        BY <2>1, <2>6
<1> HIDE DEF h
<1>6. ASSUME NEW i \in 1..n, i - 1 \in G PROVE i \in G
    <2>1. /\ i + 1 \in 1..n + 1 /\ n + 1 \in Nat /\ (i + 1) - 1 = i /\ (i - 1) + 1 = i
          /\ i - 1 \in 0..n /\ i \in 0..n
        BY <1>1
    <2>2. f[i] = IF t[i] \in S THEN Append(f[i - 1], t[i]) ELSE f[i - 1]
        BY <1>1, <1>3, TableStep
    <2>3. g[i + 1] = IF q[i + 1] \in S THEN Append(g[(i + 1) - 1], q[i + 1]) ELSE g[(i + 1) - 1]
        <3> DEFINE k == i + 1
                   m == n + 1
        <3>1. k \in 1..m /\ m \in Nat /\ Table(q, S, m, g)
            BY <1>4, <2>1
        <3> HIDE DEF k, m
        <3>2. g[k] = IF q[k] \in S THEN Append(g[k - 1], q[k]) ELSE g[k - 1]
            BY <3>1, TableStep
        <3> QED
            BY <3>2 DEF k
    <2>4. g[i] = h \o f[i - 1]
        BY <1>6, <2>1
    <2>5. f[i - 1] \in Seq(S)
        BY <1>e, <2>1
    <2>6. ASSUME t[i] \in S
          PROVE  Append(h \o f[i - 1], t[i]) = h \o Append(f[i - 1], t[i])
        <3> DEFINE u == f[i - 1]
                   x == t[i]
        <3>1. u \in Seq(S) /\ x \in S
            BY <2>5, <2>6
        <3> HIDE DEF u, x
        <3>2. h \o u \in Seq(S) /\ <<x>> \in Seq(S)
            BY <1>2, <3>1, ConcatProperties
        <3>3. Append(h \o u, x) = (h \o u) \o <<x>> /\ Append(u, x) = u \o <<x>>
            BY <3>1, <3>2, AppendIsConcat
        <3>4. (h \o u) \o <<x>> = h \o (u \o <<x>>)
            BY <1>2, <3>1, <3>2, ConcatAssociative
        <3> QED
            BY <3>3, <3>4 DEF u, x
    <2>7. g[i + 1] = h \o f[i]
        BY <1>1, <2>1, <2>2, <2>3, <2>4, <2>6
    <2> QED
        BY <2>1, <2>7
<1>7. g[n + 1] = h \o f[n]
    <2> HIDE DEF G
    <2>1. \A i \in 0..n : i \in G
        BY <1>1, <1>5, <1>6, UpTo
    <2>2. n \in G
        BY <1>1, <2>1
    <2> QED
        BY <2>2 DEF G
<1>8. Only(t, S) \in Seq(S)
    BY <1>1, OnlyTyped
<1>9. <<>> \o Only(t, S) = Only(t, S)
    BY <1>8, ConcatEmptySeq
<1>10. Only(q, S) = h \o Only(t, S)
    BY <1>3, <1>4, <1>7
<1>11. Head(q) \in S => h = <<Head(q)>>
    BY DEF h
<1>12. Head(q) \notin S => h = <<>>
    BY DEF h
<1> QED
    BY <1>9, <1>10, <1>11, <1>12 DEF t

-----------------------------------------------------------------------------
(* Sequences that pass from buffer to buffer *)

(* A command is queued: what is on its way grows at its end. *)
LEMMA QueuedAtEnd ==
    ASSUME NEW T, NEW u \in Seq(T), NEW o \in Seq(T), NEW x \in T
    PROVE  u \o Append(o, x) = Append(u \o o, x)
<1>1. u \o o \in Seq(T) /\ <<x>> \in Seq(T)
    BY ConcatProperties
<1>2. Append(u \o o, x) = (u \o o) \o <<x>> /\ Append(o, x) = o \o <<x>>
    BY <1>1, AppendIsConcat
<1>3. (u \o o) \o <<x>> = u \o (o \o <<x>>)
    BY <1>1, ConcatAssociative
<1> QED
    BY <1>2, <1>3

(* One is taken from the front of what follows u and put behind u. *)
LEMMA TakenFromFront ==
    ASSUME NEW T, NEW u \in Seq(T), NEW o \in Seq(T), NEW x \in T
    PROVE  Append(u, x) \o o = u \o (<<x>> \o o)
<1>1. <<x>> \in Seq(T)
    OBVIOUS
<1>2. Append(u, x) = u \o <<x>>
    BY AppendIsConcat
<1>3. (u \o <<x>>) \o o = u \o (<<x>> \o o)
    BY <1>1, ConcatAssociative
<1> QED
    BY <1>2, <1>3

(* A partial write moves the border between two buffers. *)
LEMMA SplitWhole ==
    ASSUME NEW T, NEW q \in Seq(T), NEW n \in 0..Len(q)
    PROVE  SubSeq(q, 1, n) \o SubSeq(q, n + 1, Len(q)) = q
<1> DEFINE a == SubSeq(q, 1, n)
           b == SubSeq(q, n + 1, Len(q))
           L == Len(q)
<1>1. L \in Nat /\ n \in 0..L
    BY LenProperties
<1>2. /\ a \in Seq(T) /\ Len(a) = n /\ \A i \in 1..n : a[i] = q[i]
      /\ b \in Seq(T) /\ Len(b) = L - n /\ \A i \in 1..(L - n) : b[i] = q[n + i]
    <2>1. \A i \in 1..n : i \in 1..L
        BY <1>1
    <2>2. \A i \in (n + 1)..L : i \in 1..L
        BY <1>1
    <2>3. a \in Seq(T) /\ Len(a) = n /\ \A i \in 1..n : a[i] = q[i]
        BY <1>1, <2>1, SubSeqProperties
    <2>4. b \in Seq(T) /\ Len(b) = L - n /\ \A i \in 1..(L - n) : b[i] = q[n + i]
        BY <1>1, <2>2, SubSeqProperties
    <2> QED
        BY <2>3, <2>4
<1> HIDE DEF a, b
<1>3. /\ a \o b \in Seq(T) /\ Len(a \o b) = L
      /\ \A i \in 1..L : (a \o b)[i] = IF i <= n THEN a[i] ELSE b[i - n]
    BY <1>1, <1>2, ConcatProperties
<1>4. ASSUME NEW i \in 1..L PROVE (a \o b)[i] = q[i]
    <2>1. CASE i <= n
        BY <1>1, <1>2, <1>3, <2>1
    <2>2. CASE i > n
        <3>1. i - n \in 1..(L - n) /\ n + (i - n) = i /\ ~(i <= n)
            BY <1>1, <2>2
        <3>2. (a \o b)[i] = b[i - n]
            BY <1>3, <3>1
        <3> DEFINE j == i - n
        <3>3. b[j] = q[n + j]
            BY <1>2, <3>1
        <3> QED
            BY <3>1, <3>2, <3>3
    <2>3. i <= n \/ i > n
        BY <1>1
    <2> QED
        BY <2>1, <2>2, <2>3
<1>5. a \o b = q
    <2> DEFINE r == a \o b
    <2>1. r \in Seq(T) /\ Len(r) = L /\ \A i \in 1..Len(r) : r[i] = q[i]
        BY <1>3, <1>4
    <2> HIDE DEF r
    <2>2. r = q
        BY <2>1, SeqEqual
    <2> QED
        BY <2>2 DEF r
<1> QED
    BY <1>5 DEF a, b

LEMMA PrefixOfConcat ==
    ASSUME NEW T, NEW p \in Seq(T), NEW q \in Seq(T)
    PROVE  IsPrefix(p, p \o q)
<1> DEFINE r == p \o q
           L == Len(p)
<1>1. /\ r \in Seq(T) /\ L \in Nat /\ Len(r) \in Nat /\ L <= Len(r)
      /\ \A i \in 1..L : r[i] = p[i]
    BY LenProperties, ConcatProperties
<1> HIDE DEF r
<1>2. SubSeq(p, 1, L) \in Seq(T) /\ Len(SubSeq(p, 1, L)) = L /\ \A i \in 1..L : SubSeq(p, 1, L)[i] = p[i]
    BY <1>1, SubSeqProperties
<1>3. SubSeq(r, 1, L) \in Seq(T) /\ Len(SubSeq(r, 1, L)) = L /\ \A i \in 1..L : SubSeq(r, 1, L)[i] = r[i]
    <2>1. \A i \in 1..L : i \in 1..Len(r)
        BY <1>1
    <2> QED
        BY <1>1, <2>1, SubSeqProperties
<1>4. SubSeq(p, 1, L) = SubSeq(r, 1, L)
    BY <1>1, <1>2, <1>3, SeqEqual
<1>5. IsPrefix(p, r)
    BY <1>1, <1>4 DEF IsPrefix
<1> QED
    BY <1>5 DEF r

LEMMA PrefixHead ==
    ASSUME NEW T, NEW p \in Seq(T), NEW q \in Seq(T), IsPrefix(p, q), p # <<>>
    PROVE  q # <<>> /\ Head(p) = Head(q)
<1>1. Len(p) \in Nat /\ Len(q) \in Nat /\ Len(p) >= 1 /\ Len(q) >= 1
    BY LenProperties, EmptySeq DEF IsPrefix
<1>2. SubSeq(p, 1, Len(p))[1] = p[1] /\ SubSeq(q, 1, Len(p))[1] = q[1]
    BY <1>1 DEF IsPrefix
<1>3. p[1] = q[1]
    BY <1>2 DEF IsPrefix
<1>4. q # <<>>
    BY <1>1
<1> QED
    BY <1>3, <1>4

-----------------------------------------------------------------------------
(* SshSession: types, and ssh-exit as the last thing that happens *)

(* What the four lines after pump_loop leave behind them, and why connect() *)
(* cannot undo it: the pump is spawned by connect()'s last step.            *)
Teardown ==
    \A s \in Sessions :
        /\ exits[s] = 1 <=> pump[s] = "exited"
        /\ pump[s] \in {"removed", "exited"} => s \notin entries
        /\ pump[s] \in {"unalive", "removed", "exited"} => ~alive[s]
        /\ pump[s] # "none" => conn[s] = "up"

SshInv == SshTypeOK /\ Teardown

-----------------------------------------------------------------------------
(* Sequences *)

LEMMA AppendTyped ==
    ASSUME NEW T, NEW q \in Seq(T), NEW x \in T
    PROVE  Append(q, x) \in Seq(T)
OBVIOUS

LEMMA TailTyped ==
    ASSUME NEW T, NEW q \in Seq(T), q # <<>>
    PROVE  Head(q) \in T /\ Tail(q) \in Seq(T)
BY HeadTailProperties

(* A partial write splits the buffer in two.                                *)
LEMMA SplitTyped ==
    ASSUME NEW T, NEW q \in Seq(T), NEW n \in 0..Len(q)
    PROVE  SubSeq(q, 1, n) \in Seq(T) /\ SubSeq(q, n + 1, Len(q)) \in Seq(T)
<1>1. Len(q) \in Nat
    BY LenProperties
<1>2. \A i \in 1..n : i \in 1..Len(q)
    BY <1>1
<1>3. \A i \in (n + 1)..Len(q) : i \in 1..Len(q)
    BY <1>1
<1> QED
    BY <1>1, <1>2, <1>3, SubSeqProperties

LEMMA ConcatTyped ==
    ASSUME NEW T, NEW p \in Seq(T), NEW q \in Seq(T)
    PROVE  p \o q \in Seq(T)
BY ConcatProperties

LEMMA EmptyTyped == ASSUME NEW T PROVE <<>> \in Seq(T)
OBVIOUS

(* Sending keeps the queues and the history typed.                          *)
LEMMA PushTyped ==
    ASSUME SshTypeOK, NEW s \in Sessions, NEW cmd \in Data \cup {Disconnect},
           Push(s, cmd)
    PROVE  /\ queue' \in [Sessions -> Seq(Data \cup {Disconnect})]
           /\ accepted' \in [Sessions -> Seq(Data)]
<1>1. CASE ~Receiving(s)
    BY <1>1 DEF Push, chanVars, SshTypeOK
<1>2. CASE Receiving(s)
    <2>1. Append(queue[s], cmd) \in Seq(Data \cup {Disconnect})
        BY AppendTyped DEF SshTypeOK
    <2>2. cmd # Disconnect => Append(accepted[s], cmd) \in Seq(Data)
        BY AppendTyped DEF SshTypeOK
    <2>3. queue' \in [Sessions -> Seq(Data \cup {Disconnect})]
        BY <1>2, <2>1 DEF Push, SshTypeOK
    <2>4. accepted' \in [Sessions -> Seq(Data)]
        BY <1>2, <2>2 DEF Push, SshTypeOK
    <2> QED
        BY <2>3, <2>4
<1> QED
    BY <1>1, <1>2

LEMMA SendTyped ==
    ASSUME SshTypeOK, NEW s \in Sessions, NEW cmd \in Data \cup {Disconnect},
           Send(s, cmd)
    PROVE  /\ queue' \in [Sessions -> Seq(Data \cup {Disconnect})]
           /\ accepted' \in [Sessions -> Seq(Data)]
BY PushTyped DEF Send, chanVars, SshTypeOK

(* A step that leaves the pumps, the map and the connections alone leaves   *)
(* Teardown alone.                                                          *)
LEMMA TeardownKept ==
    ASSUME Teardown, UNCHANGED <<connVars, entries, pumpVars>>
    PROVE  Teardown'
BY DEF Teardown, connVars, pumpVars

-----------------------------------------------------------------------------
LEMMA InitSshInv == SshInit => SshInv
<1> SUFFICES ASSUME SshInit PROVE SshInv
    OBVIOUS
<1>1. SshTypeOK
    BY SshAssumption, EmptyTyped
    DEF SshInit, SshTypeOK, ConnPhase, PumpPhase, Idle
<1>2. Teardown
    BY DEF SshInit, Teardown
<1> QED
    BY <1>1, <1>2 DEF SshInv

(* connect_host and ssh::connect *)
LEMMA ConnectInv ==
    ASSUME SshInv, NEW s \in Sessions,
           Connect(s) \/ (\E h \in Hosts : ConnectHost(s, h))
    PROVE  SshInv'
<1> USE DEF SshInv
<1>1. ASSUME NEW h \in Hosts, ConnectHost(s, h) PROVE SshInv'
    <2>1. SshTypeOK'
        BY <1>1 DEF ConnectHost, SshTypeOK, ConnPhase, chanVars, pumpVars, uiVars
    <2>2. Teardown'
        BY <1>1 DEF ConnectHost, Teardown, SshTypeOK, pumpVars
    <2> QED
        BY <2>1, <2>2
<1>2. ASSUME EstablishFails(s) PROVE SshInv'
    <2>1. SshTypeOK'
        BY <1>2 DEF EstablishFails, SshTypeOK, ConnPhase, chanVars, pumpVars, uiVars
    <2>2. Teardown'
        BY <1>2 DEF EstablishFails, Teardown, SshTypeOK, pumpVars
    <2> QED
        BY <2>1, <2>2
<1>3. ASSUME InsertEntry(s) PROVE SshInv'
    <2>1. SshTypeOK'
        BY <1>3 DEF InsertEntry, SshTypeOK, ConnPhase, chanVars, pumpVars, uiVars
    <2>2. Teardown'
        BY <1>3 DEF InsertEntry, Teardown, SshTypeOK, pumpVars
    <2> QED
        BY <2>1, <2>2
<1>4. ASSUME SendHook(s) PROVE SshInv'
    <2>1. /\ queue' \in [Sessions -> Seq(Data \cup {Disconnect})]
          /\ accepted' \in [Sessions -> Seq(Data)]
        BY <1>4, PushTyped DEF SendHook, Data
    <2>2. SshTypeOK'
        BY <1>4, <2>1 DEF SendHook, SshTypeOK, ConnPhase, uiVars
    <2>3. Teardown'
        BY <1>4 DEF SendHook, Teardown, SshTypeOK
    <2> QED
        BY <2>2, <2>3
<1>5. ASSUME SpawnPump(s) PROVE SshInv'
    <2>1. SshTypeOK'
        BY <1>5 DEF SpawnPump, SshTypeOK, ConnPhase, PumpPhase, chanVars, uiVars
    <2>2. Teardown'
        BY <1>5 DEF SpawnPump, Teardown, SshTypeOK
    <2> QED
        BY <2>1, <2>2
<1> QED
    BY <1>1, <1>2, <1>3, <1>4, <1>5 DEF Connect

(* Whatever sends on a session's queue and touches no pump: the X11 helper, *)
(* ssh_write, ssh_close and the sweeps.                                     *)
LEMMA SenderInv ==
    ASSUME SshInv, NEW s \in Sessions,
           X11Export(s) \/ (\E i \in Inputs : Write(s, i)) \/ Close(s) \/ SweepSend(s)
    PROVE  SshInv'
<1> USE DEF SshInv
<1>1. /\ queue' \in [Sessions -> Seq(Data \cup {Disconnect})]
      /\ accepted' \in [Sessions -> Seq(Data)]
    BY PushTyped, SendTyped DEF X11Export, Write, Close, SweepSend, Data
<1>2. UNCHANGED <<hosts, connVars, entries, pumpVars, reloads>>
    BY DEF X11Export, Write, Close, SweepSend, uiVars
<1>3. /\ closed' \subseteq Sessions
      /\ sweep' \in [op : {"idle", "delete", "reset"}, host : Hosts \cup {None},
                     ids : SUBSET Sessions]
    BY DEF X11Export, Write, Close, SweepSend, uiVars, SshTypeOK
<1>4. SshTypeOK'
    BY <1>1, <1>2, <1>3 DEF SshTypeOK, connVars, pumpVars
<1> QED
    BY <1>2, <1>4, TeardownKept

(* delete_host and reset_sessions, around their sends.                      *)
LEMMA SweepInv ==
    ASSUME SshInv, SweepDone \/ ResetSessions \/ (\E h \in Hosts : DeleteHost(h))
    PROVE  SshInv'
<1> USE DEF SshInv
<1>1. UNCHANGED <<connVars, entries, chanVars, pumpVars, closed>>
    BY DEF SweepDone, ResetSessions, DeleteHost, uiVars
<1>2. /\ hosts' \subseteq Hosts
      /\ sweep' \in [op : {"idle", "delete", "reset"}, host : Hosts \cup {None},
                     ids : SUBSET Sessions]
    BY DEF SweepDone, ResetSessions, DeleteHost, Idle, SshTypeOK
<1>3. reloads' \in 0..MaxReloads
    BY SshAssumption DEF SweepDone, ResetSessions, DeleteHost, uiVars, SshTypeOK
<1>4. SshTypeOK'
    BY <1>1, <1>2, <1>3 DEF SshTypeOK, connVars, chanVars, pumpVars
<1> QED
    BY <1>1, <1>4, TeardownKept

(* pump_loop: it returns with nothing queued or pending.                    *)
LEMMA LoopInv ==
    ASSUME SshInv, NEW s \in Sessions, DrainOne(s) \/ DrainEnd(s) \/ PumpIo(s)
    PROVE  SshInv'
<1> USE DEF SshInv
<1>0. /\ queue[s] \in Seq(Data \cup {Disconnect})
      /\ pending[s] \in Seq(Data) /\ written[s] \in Seq(Data)
    BY DEF SshTypeOK
<1>r. ASSUME Return(s), pump[s] \in {"drain", "io"},
             written' \in [Sessions -> Seq(Data)]
      PROVE  SshInv'
    <2>1. SshTypeOK'
        BY <1>r, EmptyTyped DEF Return, SshTypeOK, PumpPhase, connVars, uiVars
    <2>2. Teardown'
        BY <1>r DEF Return, Teardown, SshTypeOK, connVars
    <2> QED
        BY <2>1, <2>2
<1>1. ASSUME DrainOne(s) PROVE SshInv'
    <2>1. /\ Tail(queue[s]) \in Seq(Data \cup {Disconnect})
          /\ Head(queue[s]) \in Data \cup {Disconnect}
        BY <1>0, <1>1, TailTyped DEF DrainOne
    <2>2. queue' \in [Sessions -> Seq(Data \cup {Disconnect})]
        BY <1>1, <2>1 DEF DrainOne, SshTypeOK
    <2>3. Head(queue[s]) # Disconnect => Append(pending[s], Head(queue[s])) \in Seq(Data)
        BY <1>0, <2>1, AppendTyped
    <2>6. pending' \in [Sessions -> Seq(Data)]
        BY <1>1, <2>3 DEF DrainOne, SshTypeOK
    <2>7. disc' \in [Sessions -> BOOLEAN]
        BY <1>1 DEF DrainOne, SshTypeOK
    <2>4. SshTypeOK'
        BY <1>1, <2>2, <2>6, <2>7 DEF DrainOne, SshTypeOK, connVars, uiVars
    <2>5. Teardown'
        BY <1>1 DEF DrainOne, Teardown, connVars
    <2> QED
        BY <2>4, <2>5
<1>2. ASSUME DrainEnd(s) PROVE SshInv'
    <2>1. CASE disc[s]
        BY <1>2, <1>r, <2>1 DEF DrainEnd, SshTypeOK
    <2>2. CASE ~disc[s]
        <3>1. SshTypeOK'
            BY <1>2, <2>2 DEF DrainEnd, SshTypeOK, PumpPhase, connVars, chanVars, uiVars
        <3>2. Teardown'
            BY <1>2, <2>2 DEF DrainEnd, Teardown, SshTypeOK, connVars
        <3> QED
            BY <3>1, <3>2
    <2> QED
        BY <2>1, <2>2
<1>3. ASSUME PumpIo(s) PROVE SshInv'
    <2>1. PICK n \in 0..Len(pending[s]) :
              /\ written' = [written EXCEPT ![s] = @ \o SubSeq(pending[s], 1, n)]
              /\ \/ /\ pending' = [pending EXCEPT ![s] = SubSeq(@, n + 1, Len(@))]
                    /\ pump' = [pump EXCEPT ![s] = "drain"]
                    /\ UNCHANGED <<hosts, connVars, entries, chanVars, disc, alive,
                                   exits, sweep, uiVars>>
                 \/ Return(s)
        BY <1>3 DEF PumpIo
    <2>2. /\ SubSeq(pending[s], 1, n) \in Seq(Data)
          /\ SubSeq(pending[s], n + 1, Len(pending[s])) \in Seq(Data)
        BY <1>0, SplitTyped
    <2>3. written' \in [Sessions -> Seq(Data)]
        BY <1>0, <2>1, <2>2, ConcatTyped DEF SshTypeOK
    <2>4. CASE Return(s)
        BY <1>3, <1>r, <2>3, <2>4 DEF PumpIo
    <2>5. CASE ~Return(s)
        <3>0. pending' \in [Sessions -> Seq(Data)]
            BY <2>1, <2>2, <2>5 DEF SshTypeOK
        <3>1. SshTypeOK'
            BY <2>1, <2>3, <2>5, <3>0 DEF SshTypeOK, PumpPhase, connVars, chanVars, uiVars
        <3>2. Teardown'
            BY <1>3, <2>1, <2>5 DEF PumpIo, Teardown, SshTypeOK, connVars
        <3> QED
            BY <3>1, <3>2
    <2> QED
        BY <2>4, <2>5
<1> QED
    BY <1>1, <1>2, <1>3

(* The lines after pump_loop: each adds its conjunct to Teardown.           *)
LEMMA TeardownInv ==
    ASSUME SshInv, NEW s \in Sessions, ClearAlive(s) \/ RemoveEntry(s) \/ EmitExit(s)
    PROVE  SshInv'
<1> USE DEF SshInv
<1>1. ASSUME ClearAlive(s) PROVE SshInv'
    <2>1. SshTypeOK'
        BY <1>1 DEF ClearAlive, SshTypeOK, PumpPhase, connVars, chanVars, uiVars
    <2>2. Teardown'
        BY <1>1 DEF ClearAlive, Teardown, SshTypeOK, connVars
    <2> QED
        BY <2>1, <2>2
<1>2. ASSUME RemoveEntry(s) PROVE SshInv'
    <2>1. SshTypeOK'
        BY <1>2 DEF RemoveEntry, SshTypeOK, PumpPhase, connVars, chanVars, uiVars
    <2>2. Teardown'
        BY <1>2 DEF RemoveEntry, Teardown, SshTypeOK, connVars
    <2> QED
        BY <2>1, <2>2
<1>3. ASSUME EmitExit(s) PROVE SshInv'
    <2>1. exits[s] = 0
        BY <1>3 DEF EmitExit, Teardown, SshTypeOK
    <2>2. SshTypeOK'
        BY <1>3, <2>1 DEF EmitExit, SshTypeOK, PumpPhase, connVars, chanVars, uiVars
    <2>3. Teardown'
        BY <1>3, <2>1 DEF EmitExit, Teardown, SshTypeOK, connVars
    <2> QED
        BY <2>2, <2>3
<1> QED
    BY <1>1, <1>2, <1>3

LEMMA StepSshInv == SshInv /\ [SshNext]_sshVars => SshInv'
<1> SUFFICES ASSUME SshInv, [SshNext]_sshVars PROVE SshInv'
    OBVIOUS
<1>1. CASE UNCHANGED sshVars
    BY <1>1 DEF sshVars, SshInv, SshTypeOK, Teardown
<1>2. CASE Commands
    BY <1>2, ConnectInv, SenderInv, SweepInv DEF Commands
<1>3. CASE Sweep
    BY <1>3, SenderInv, SweepInv DEF Sweep
<1>4. ASSUME NEW s \in Sessions, Connect(s) \/ Pump(s) \/ X11Export(s) PROVE SshInv'
    BY <1>4, ConnectInv, SenderInv, LoopInv, TeardownInv DEF Pump
<1> QED
    BY <1>1, <1>2, <1>3, <1>4 DEF SshNext

LEMMA SshInvariant == SshSpec => []SshInv
<1>1. SshInit => SshInv
    BY InitSshInv
<1>2. SshInv /\ [SshNext]_sshVars => SshInv'
    BY StepSshInv
<1> QED
    BY <1>1, <1>2, PTL DEF SshSpec

(* The variables keep their types; in particular every session emits        *)
(* ssh-exit at most once (exits stays within 0..1).                         *)
THEOREM SshTypes == SshSpec => []SshTypeOK
<1>1. SshInv => SshTypeOK
    BY DEF SshInv
<1> QED
    BY <1>1, SshInvariant, PTL

(* ssh-exit is the last thing that happens to a session: its id is out of   *)
(* the map, its helpers have been told, its receiver is gone.               *)
THEOREM SshExitIsLast == SshSpec => []ExitIsLast
<1>1. SshInv => ExitIsLast
    BY DEF SshInv, SshTypeOK, Teardown, ExitIsLast, Receiving
<1> QED
    BY <1>1, SshInvariant, PTL

-----------------------------------------------------------------------------
(* SshSession: input is conserved *)

(* What is between the user and the shell is typed.                         *)
LEMMA BuffersTyped ==
    ASSUME SshTypeOK, NEW s \in Sessions
    PROVE  /\ queue[s] \in Seq(Data \cup {Disconnect})
           /\ pending[s] \in Seq(Data) /\ written[s] \in Seq(Data)
           /\ accepted[s] \in Seq(Data) /\ Only(queue[s], Data) \in Seq(Data)
           /\ written[s] \o pending[s] \in Seq(Data)
<1>1. /\ queue[s] \in Seq(Data \cup {Disconnect})
      /\ pending[s] \in Seq(Data) /\ written[s] \in Seq(Data) /\ accepted[s] \in Seq(Data)
    BY DEF SshTypeOK
<1>2. Only(queue[s], Data) \in Seq(Data)
    BY <1>1, OnlyTyped
<1>3. written[s] \o pending[s] \in Seq(Data)
    BY <1>1, ConcatTyped
<1> QED
    BY <1>1, <1>2, <1>3

LEMMA DisconnectIsNoData == Disconnect \notin Data
BY SshAssumption DEF Data

(* The equation alone makes what was written a prefix.                      *)
LEMMA BuffersMakePrefix ==
    ASSUME NEW T, NEW w \in Seq(T), NEW r \in Seq(T), NEW o \in Seq(T)
    PROVE  IsPrefix(w, (w \o r) \o o)
<1>1. r \o o \in Seq(T)
    BY ConcatProperties
<1>2. (w \o r) \o o = w \o (r \o o)
    BY <1>1, ConcatAssociative
<1>3. IsPrefix(w, w \o (r \o o))
    BY <1>1, PrefixOfConcat
<1> QED
    BY <1>2, <1>3

(* A session whose buffers and receiver are left alone.                     *)
LEMMA InputKept ==
    ASSUME InputConserved, NEW s \in Sessions,
           queue'[s] = queue[s], accepted'[s] = accepted[s],
           pending'[s] = pending[s], written'[s] = written[s],
           Receiving(s)' => Receiving(s)
    PROVE  /\ IsPrefix(written[s], accepted[s])'
           /\ (Receiving(s) => written[s] \o pending[s] \o Only(queue[s], Data) = accepted[s])'
BY DEF InputConserved

(* tx.send, of input or of Disconnect.                                      *)
LEMMA PushConserves ==
    ASSUME SshTypeOK, InputConserved, NEW s \in Sessions,
           NEW cmd \in Data \cup {Disconnect}, Push(s, cmd), UNCHANGED <<pump, pending, written>>
    PROVE  InputConserved'
<1>0. SshTypeOK!5 /\ SshTypeOK!10
    BY DEF SshTypeOK
<1>1. CASE ~Receiving(s)
    BY <1>1 DEF Push, chanVars, InputConserved, Receiving
<1>2. CASE Receiving(s)
    <2> DEFINE w == written[s] \o pending[s]
               o == Only(queue[s], Data)
               k == accepted[s]
    <2>1. /\ w \in Seq(Data) /\ o \in Seq(Data) /\ k \in Seq(Data)
          /\ written[s] \in Seq(Data) /\ pending[s] \in Seq(Data)
          /\ queue[s] \in Seq(Data \cup {Disconnect})
        BY BuffersTyped
    <2>2. w \o o = k
        BY <1>2 DEF InputConserved
    <2>3. queue'[s] = Append(queue[s], cmd)
        BY <1>0, <1>2 DEF Push
    <2>4. Only(queue'[s], Data) = IF cmd \in Data THEN Append(o, cmd) ELSE o
        <3> DEFINE q == queue[s]
        <3>1. q \in Seq(Data \cup {Disconnect})
            BY <2>1
        <3> HIDE DEF q
        <3>2. Only(Append(q, cmd), Data) = IF cmd \in Data THEN Append(Only(q, Data), cmd)
                                          ELSE Only(q, Data)
            BY <3>1, OnlyAppend
        <3> QED
            BY <2>3, <3>2 DEF q
    <2>5. cmd \in Data => accepted'[s] = Append(k, cmd)
        BY <1>0, <1>2, DisconnectIsNoData DEF Push
    <2>6. cmd \notin Data => accepted'[s] = k
        BY <1>2 DEF Push
    <2>7. CASE cmd \notin Data
        <3>1. /\ IsPrefix(written[s], accepted[s])'
              /\ (Receiving(s) => written[s] \o pending[s] \o Only(queue[s], Data) = accepted[s])'
            BY <2>4, <2>6, <2>7 DEF InputConserved, Receiving
        <3> QED
            BY <1>0, <1>2, <2>7, <3>1 DEF InputConserved, Push, Receiving
    <2>8. CASE cmd \in Data
        <3> HIDE DEF w, o, k
        <3>1. w \o Append(o, cmd) = Append(w \o o, cmd)
            BY <2>1, <2>8, QueuedAtEnd
        <3>2. w \o Append(o, cmd) = Append(k, cmd)
            BY <2>2, <3>1
        <3>3. (written[s] \o pending[s]) \o Only(queue'[s], Data) = accepted'[s]
            BY <2>4, <2>5, <2>8, <3>2 DEF w
        <3>4. Only(queue'[s], Data) \in Seq(Data)
            BY <2>1, <2>4, <2>8, AppendTyped
        <3> DEFINE z == Only(queue'[s], Data)
        <3>5. IsPrefix(written[s], (written[s] \o pending[s]) \o z)
            <4> HIDE DEF z
            <4> QED
                BY <2>1, <3>4, BuffersMakePrefix DEF z
        <3>6. ASSUME NEW r \in Sessions, r # s
              PROVE  queue'[r] = queue[r] /\ accepted'[r] = accepted[r]
            BY <1>0, <1>2, <3>6 DEF Push
        <3> QED
            BY <3>3, <3>5, <3>6 DEF InputConserved, Receiving
    <2> QED
        BY <2>7, <2>8
<1> QED
    BY <1>1, <1>2

(* One session's share of InputConserved, rebuilt from its new buffers.     *)
LEMMA InputRebuilt ==
    ASSUME SshTypeOK', InputConserved, NEW s \in Sessions,
           \A r \in Sessions \ {s} :
               /\ queue'[r] = queue[r] /\ accepted'[r] = accepted[r] /\ pump'[r] = pump[r]
               /\ pending'[r] = pending[r] /\ written'[r] = written[r],
           IF Receiving(s)'
           THEN (written'[s] \o pending'[s]) \o Only(queue'[s], Data) = accepted'[s]
           ELSE IsPrefix(written'[s], accepted'[s])
    PROVE  InputConserved'
<1>1. ASSUME NEW r \in Sessions \ {s}
      PROVE  /\ IsPrefix(written[r], accepted[r])'
             /\ (Receiving(r) => written[r] \o pending[r] \o Only(queue[r], Data) = accepted[r])'
    BY InputKept DEF Receiving
<1>2. IsPrefix(written'[s], accepted'[s])
    <2>1. CASE ~Receiving(s)'
        BY <2>1
    <2>2. CASE Receiving(s)'
        <3> DEFINE w == written'[s]
                   r == pending'[s]
                   z == Only(queue'[s], Data)
        <3>1. w \in Seq(Data) /\ r \in Seq(Data) /\ queue'[s] \in Seq(Data \cup {Disconnect})
            BY DEF SshTypeOK
        <3>2. z \in Seq(Data)
            BY <3>1, OnlyTyped
        <3>3. accepted'[s] = (w \o r) \o z
            BY <2>2
        <3> HIDE DEF r, z
        <3>4. IsPrefix(w, (w \o r) \o z)
            BY <3>1, <3>2, BuffersMakePrefix
        <3> QED
            BY <3>3, <3>4
    <2> QED
        BY <2>1, <2>2
<1> QED
    BY <1>1, <1>2 DEF InputConserved

(* One turn of the drain: from the queue to the buffer.                     *)
LEMMA DrainConserves ==
    ASSUME SshInv, InputConserved, NEW s \in Sessions, DrainOne(s)
    PROVE  InputConserved'
<1>1. SshTypeOK /\ SshTypeOK'
    BY LoopInv DEF SshInv
<1> DEFINE w == written[s] \o pending[s]
           q == queue[s]
           x == Head(q)
           o == Only(Tail(q), Data)
<1>2. /\ w \in Seq(Data) /\ q \in Seq(Data \cup {Disconnect}) /\ q # <<>>
      /\ written[s] \in Seq(Data) /\ pending[s] \in Seq(Data)
    BY <1>1, BuffersTyped DEF DrainOne
<1>3. x \in Data \cup {Disconnect} /\ Tail(q) \in Seq(Data \cup {Disconnect})
    BY <1>2, TailTyped
<1>4. w \o Only(q, Data) = accepted[s]
    BY DEF InputConserved, DrainOne, Receiving
<1>5. Only(q, Data) = IF x \in Data THEN <<x>> \o o ELSE o
    <2> HIDE DEF q
    <2> QED
        BY <1>2, OnlyHeadTail
<1>6. o \in Seq(Data)
    BY <1>3, OnlyTyped
<1>7. /\ queue'[s] = Tail(q) /\ written' = written /\ accepted' = accepted /\ pump' = pump
      /\ Receiving(s)'
    BY <1>1 DEF DrainOne, SshTypeOK, Receiving
<1>8. pending'[s] = IF x \in Data THEN Append(pending[s], x) ELSE pending[s]
    BY <1>1, <1>3, DisconnectIsNoData DEF DrainOne, SshTypeOK
<1>9. (written'[s] \o pending'[s]) \o Only(queue'[s], Data) = accepted'[s]
    <2>1. CASE x \notin Data
        BY <1>4, <1>5, <1>7, <1>8, <2>1
    <2>2. CASE x \in Data
        <3> HIDE DEF x, o
        <3>1. Append(w, x) \o o = w \o (<<x>> \o o)
            <4> HIDE DEF w
            <4> QED
                BY <1>2, <1>6, <2>2, TakenFromFront
        <3>2. written[s] \o Append(pending[s], x) = Append(w, x)
            <4> DEFINE u == written[s]
                       v == pending[s]
            <4>1. u \in Seq(Data) /\ v \in Seq(Data)
                BY <1>2
            <4> HIDE DEF u, v
            <4>2. u \o Append(v, x) = Append(u \o v, x)
                BY <2>2, <4>1, QueuedAtEnd
            <4> QED
                BY <4>2 DEF u, v
        <3>3. (written[s] \o Append(pending[s], x)) \o o = accepted[s]
            <4> HIDE DEF w
            <4> QED
                BY <1>4, <1>5, <2>2, <3>1, <3>2
        <3> QED
            BY <1>7, <1>8, <2>2, <3>3 DEF o
    <2> QED
        BY <2>1, <2>2
<1>10. \A r \in Sessions \ {s} : queue'[r] = queue[r] /\ pending'[r] = pending[r]
    BY <1>1 DEF DrainOne, SshTypeOK
<1> QED
    BY <1>1, <1>7, <1>9, <1>10, InputRebuilt

(* A write, whether the loop goes on or returns.                            *)
LEMMA WriteConserves ==
    ASSUME SshInv, InputConserved, NEW s \in Sessions, PumpIo(s)
    PROVE  InputConserved'
<1>1. SshTypeOK /\ SshTypeOK'
    BY LoopInv DEF SshInv
<1>2. PICK n \in 0..Len(pending[s]) :
          /\ written' = [written EXCEPT ![s] = @ \o SubSeq(pending[s], 1, n)]
          /\ \/ /\ pending' = [pending EXCEPT ![s] = SubSeq(@, n + 1, Len(@))]
                /\ pump' = [pump EXCEPT ![s] = "drain"]
                /\ UNCHANGED <<hosts, connVars, entries, chanVars, disc, alive,
                               exits, sweep, uiVars>>
             \/ Return(s)
    BY DEF PumpIo
<1> DEFINE w == written[s]
           p == pending[s]
           a == SubSeq(p, 1, n)
           b == SubSeq(p, n + 1, Len(p))
           o == Only(queue[s], Data)
<1>3. w \in Seq(Data) /\ p \in Seq(Data) /\ o \in Seq(Data)
    BY <1>1, BuffersTyped
<1>4. (w \o p) \o o = accepted[s]
    BY DEF InputConserved, PumpIo, Receiving
<1>5. a \in Seq(Data) /\ b \in Seq(Data)
    <2> HIDE DEF p
    <2> QED
        BY <1>2, <1>3, SplitTyped DEF p
<1>s. a \o b = p
    <2> HIDE DEF p
    <2> QED
        BY <1>2, <1>3, SplitWhole DEF p
<1>6. written'[s] = w \o a
    BY <1>1, <1>2 DEF SshTypeOK
<1>7. accepted' = accepted /\ pump[s] = "io"
    BY <1>2 DEF PumpIo, Return, chanVars
<1>8. \A r \in Sessions \ {s} :
          /\ queue'[r] = queue[r] /\ pump'[r] = pump[r]
          /\ pending'[r] = pending[r] /\ written'[r] = written[r]
    BY <1>1, <1>2 DEF Return, chanVars, SshTypeOK
<1>9. (w \o a) \o b = w \o p
    <2> HIDE DEF a, b, w, p
    <2>1. (w \o a) \o b = w \o (a \o b)
        BY <1>3, <1>5, ConcatAssociative
    <2> QED
        BY <1>s, <2>1
<1>10. ((w \o a) \o b) \o o = accepted[s]
    <2> HIDE DEF a, b, w, p, o
    <2> QED
        BY <1>4, <1>9
<1>11. CASE Return(s)
    <2>1. ~Receiving(s)'
        BY <1>1, <1>11 DEF Return, Receiving, SshTypeOK
    <2>2. w \o a \in Seq(Data)
        BY <1>3, <1>5, ConcatTyped
    <2>3. IsPrefix(w \o a, ((w \o a) \o b) \o o)
        <3> DEFINE c == w \o a
        <3> HIDE DEF a, b, c, o
        <3> QED
            BY <1>3, <1>5, <2>2, BuffersMakePrefix DEF c
    <2>4. IsPrefix(written'[s], accepted'[s])
        <3> HIDE DEF a, b, o
        <3> QED
            BY <1>6, <1>7, <1>10, <2>3
    <2> QED
        BY <1>1, <1>7, <1>8, <2>1, <2>4, InputRebuilt
<1>12. CASE ~Return(s)
    <2>1. pending'[s] = b /\ queue' = queue /\ Receiving(s)'
        BY <1>1, <1>2, <1>12 DEF Receiving, SshTypeOK, chanVars
    <2>2. (written'[s] \o pending'[s]) \o Only(queue'[s], Data) = accepted'[s]
        <3> HIDE DEF a, b
        <3> QED
            BY <1>6, <1>7, <1>10, <2>1
    <2> QED
        BY <1>1, <1>7, <1>8, <2>1, <2>2, InputRebuilt
<1> QED
    BY <1>11, <1>12

(* Whatever touches no queue and no buffer, and makes no receiver.          *)
LEMMA QuietConserves ==
    ASSUME InputConserved, UNCHANGED <<queue, accepted, pending, written>>,
           \A s \in Sessions : Receiving(s)' => Receiving(s)
    PROVE  InputConserved'
BY InputKept DEF InputConserved

LEMMA StepInput == SshInv /\ InputConserved /\ [SshNext]_sshVars => InputConserved'
<1> SUFFICES ASSUME SshInv, InputConserved, [SshNext]_sshVars PROVE InputConserved'
    OBVIOUS
<1>0. SshTypeOK /\ Teardown
    BY DEF SshInv
<1>1. CASE UNCHANGED sshVars
    BY <1>1, QuietConserves DEF sshVars, Receiving
<1>2. ASSUME NEW s \in Sessions, NEW cmd \in Data \cup {Disconnect},
             Send(s, cmd) \/ Push(s, cmd), UNCHANGED pumpVars
      PROVE  InputConserved'
    <2>1. CASE Push(s, cmd)
        BY <1>0, <1>2, <2>1, PushConserves DEF pumpVars
    <2>2. CASE UNCHANGED chanVars
        BY <1>2, <2>2, QuietConserves DEF pumpVars, chanVars, Receiving
    <2> QED
        BY <1>2, <2>1, <2>2 DEF Send
<1>3. ASSUME NEW s \in Sessions, NEW i \in Inputs, Write(s, i) PROVE InputConserved'
    BY <1>2, <1>3 DEF Write, Data
<1>4. ASSUME NEW s \in Sessions, Close(s) PROVE InputConserved'
    BY <1>2, <1>4 DEF Close
<1>5. ASSUME NEW s \in Sessions, SweepSend(s) PROVE InputConserved'
    BY <1>2, <1>5 DEF SweepSend
<1>6. ASSUME NEW s \in Sessions, X11Export(s) PROVE InputConserved'
    BY <1>2, <1>6 DEF X11Export, Data
<1>7. ASSUME NEW s \in Sessions, SendHook(s) PROVE InputConserved'
    BY <1>0, <1>7, PushConserves DEF SendHook, Data
<1>8. ASSUME NEW s \in Sessions,
             EstablishFails(s) \/ InsertEntry(s) \/ SpawnPump(s)
                 \/ \E h \in Hosts : ConnectHost(s, h)
      PROVE  InputConserved'
    <2>1. UNCHANGED <<queue, accepted, pending, written>>
        BY <1>8 DEF EstablishFails, InsertEntry, SpawnPump, ConnectHost, chanVars, pumpVars
    <2>2. \A r \in Sessions : Receiving(r)' => Receiving(r)
        BY <1>0, <1>8
        DEF EstablishFails, InsertEntry, SpawnPump, ConnectHost, pumpVars, Receiving,
            Teardown, SshTypeOK, PumpPhase
    <2> QED
        BY <2>1, <2>2, QuietConserves
<1>9. ASSUME SweepDone \/ ResetSessions \/ \E h \in Hosts : DeleteHost(h)
      PROVE  InputConserved'
    BY <1>9, QuietConserves
    DEF SweepDone, ResetSessions, DeleteHost, chanVars, pumpVars, Receiving
<1>10. ASSUME NEW s \in Sessions, DrainEnd(s) PROVE InputConserved'
    <2>1. CASE ~disc[s]
        BY <1>0, <1>10, <2>1, QuietConserves DEF DrainEnd, chanVars, Receiving, SshTypeOK
    <2>2. CASE disc[s]
        <3>1. SshTypeOK'
            BY <1>10, LoopInv DEF SshInv
        <3>2. IsPrefix(written[s], accepted[s])
            BY DEF InputConserved
        <3>3. /\ ~Receiving(s)' /\ written' = written /\ accepted' = accepted
              /\ \A r \in Sessions \ {s} :
                     queue'[r] = queue[r] /\ pump'[r] = pump[r] /\ pending'[r] = pending[r]
            BY <1>0, <1>10, <2>2 DEF DrainEnd, Return, Receiving, SshTypeOK
        <3> QED
            BY <3>1, <3>2, <3>3, InputRebuilt
    <2> QED
        BY <2>1, <2>2
<1>11. ASSUME NEW s \in Sessions, ClearAlive(s) \/ RemoveEntry(s) \/ EmitExit(s)
       PROVE  InputConserved'
    <2>1. UNCHANGED <<queue, accepted, pending, written>>
        BY <1>11 DEF ClearAlive, RemoveEntry, EmitExit, chanVars
    <2>2. \A r \in Sessions : Receiving(r)' => Receiving(r)
        BY <1>0, <1>11 DEF ClearAlive, RemoveEntry, EmitExit, Receiving, SshTypeOK
    <2> QED
        BY <2>1, <2>2, QuietConserves
<1>12. CASE Commands
    BY <1>3, <1>4, <1>8, <1>9, <1>12 DEF Commands
<1>13. CASE Sweep
    BY <1>5, <1>9, <1>13 DEF Sweep
<1>14. ASSUME NEW s \in Sessions, Connect(s) \/ Pump(s) PROVE InputConserved'
    BY <1>7, <1>8, <1>10, <1>11, <1>14, DrainConserves, WriteConserves DEF Connect, Pump
<1> QED
    BY <1>1, <1>6, <1>12, <1>13, <1>14 DEF SshNext

LEMMA InitInput == SshInit => InputConserved
<1> SUFFICES ASSUME SshInit, NEW s \in Sessions
             PROVE  /\ IsPrefix(written[s], accepted[s])
                    /\ written[s] \o pending[s] \o Only(queue[s], Data) = accepted[s]
    BY DEF InputConserved
<1> DEFINE e == <<>>
<1>1. /\ written[s] = e /\ pending[s] = e /\ queue[s] = e /\ accepted[s] = e
    BY DEF SshInit
<1>2. e \in Seq(Data) /\ e \o e = e /\ Only(e, Data) = e
    BY EmptySeq, OnlyEmpty
<1> HIDE DEF e
<1>3. IsPrefix(e, e \o e)
    BY <1>2, PrefixOfConcat
<1> QED
    BY <1>1, <1>2, <1>3

(* Nothing typed into a session is lost, doubled or reordered on its way    *)
(* through queue and buffer, and what the shell got is a prefix of it.      *)
THEOREM SshInputConserved == SshSpec => []InputConserved
<1>1. SshInit => InputConserved
    BY InitInput
<1>2. SshInv /\ InputConserved /\ [SshNext]_sshVars => InputConserved'
    BY StepInput
<1> QED
    BY <1>1, <1>2, SshInvariant, PTL DEF SshSpec

-----------------------------------------------------------------------------
(* SshSession: the shell-integration line comes first *)

(* Nothing is accepted before connect() itself has sent its line.           *)
HookAccepted ==
    \A s \in Sessions :
        IF conn[s] \in {"hooked", "up"}
        THEN accepted[s] # <<>> /\ Head(accepted[s]) = Hook
        ELSE accepted[s] = <<>>

LEMMA AppendHead ==
    ASSUME NEW T, NEW q \in Seq(T), NEW x \in T
    PROVE  /\ Append(q, x) # <<>>
           /\ Head(Append(q, x)) = IF q = <<>> THEN x ELSE Head(q)
<1> DEFINE r == Append(q, x)
<1>1. /\ r \in Seq(T) /\ Len(r) = Len(q) + 1 /\ Len(q) \in Nat
      /\ r[Len(q) + 1] = x /\ \A i \in 1..Len(q) : r[i] = q[i]
    BY AppendProperties, LenProperties
<1> HIDE DEF r
<1>2. r # <<>> /\ Head(r) = r[1]
    BY <1>1
<1>3. q = <<>> => r[1] = x
    BY <1>1
<1>4. q # <<>> => r[1] = Head(q)
    BY <1>1, EmptySeq
<1> QED
    BY <1>2, <1>3, <1>4 DEF r

(* Everybody else sends to a session that has the line.                     *)
LEMMA PushAfterHook ==
    ASSUME SshTypeOK, HookAccepted, NEW s \in Sessions, NEW cmd \in Data \cup {Disconnect},
           Push(s, cmd) \/ Send(s, cmd), conn[s] \in {"hooked", "up"} \/ cmd = Disconnect,
           UNCHANGED conn
    PROVE  HookAccepted'
<1>1. CASE UNCHANGED accepted
    BY <1>1 DEF HookAccepted
<1>2. CASE accepted' # accepted
    <2>1. /\ accepted' = [accepted EXCEPT ![s] = Append(@, cmd)]
          /\ cmd \in Data /\ conn[s] \in {"hooked", "up"}
        BY <1>2, DisconnectIsNoData DEF Push, Send, chanVars
    <2>2. accepted[s] \in Seq(Data) /\ accepted[s] # <<>> /\ Head(accepted[s]) = Hook
        BY <2>1 DEF SshTypeOK, HookAccepted
    <2>3. Append(accepted[s], cmd) # <<>> /\ Head(Append(accepted[s], cmd)) = Hook
        BY <2>1, <2>2, AppendHead
    <2> QED
        BY <2>1, <2>3 DEF HookAccepted, SshTypeOK
<1> QED
    BY <1>1, <1>2

LEMMA StepHook == SshInv /\ HookAccepted /\ [SshNext]_sshVars => HookAccepted'
<1> SUFFICES ASSUME SshInv, HookAccepted, [SshNext]_sshVars PROVE HookAccepted'
    OBVIOUS
<1>0. SshTypeOK /\ Teardown
    BY DEF SshInv
<1>1. CASE UNCHANGED <<conn, accepted>>
    BY <1>1 DEF HookAccepted
<1>2. CASE Commands
    <2>1. ASSUME NEW s \in Sessions, NEW i \in Inputs, Write(s, i) PROVE HookAccepted'
        BY <1>0, <2>1, PushAfterHook DEF Write, connVars, Data
    <2>2. ASSUME NEW s \in Sessions, Close(s) PROVE HookAccepted'
        BY <1>0, <2>2, PushAfterHook DEF Close, connVars
    <2>3. ASSUME NEW s \in Sessions, NEW h \in Hosts, ConnectHost(s, h) PROVE HookAccepted'
        BY <1>0, <2>3 DEF ConnectHost, chanVars, HookAccepted, SshTypeOK
    <2>4. CASE ResetSessions \/ \E h \in Hosts : DeleteHost(h)
        BY <1>1, <2>4 DEF ResetSessions, DeleteHost, connVars, chanVars
    <2> QED
        BY <1>2, <2>1, <2>2, <2>3, <2>4 DEF Commands
<1>3. CASE Sweep
    <2>1. ASSUME NEW s \in Sessions, SweepSend(s) PROVE HookAccepted'
        BY <1>0, <2>1, PushAfterHook DEF SweepSend, connVars
    <2>2. CASE SweepDone
        BY <1>1, <2>2 DEF SweepDone, connVars, chanVars
    <2> QED
        BY <1>3, <2>1, <2>2 DEF Sweep
<1>4. ASSUME NEW s \in Sessions, Connect(s) PROVE HookAccepted'
    <2>1. CASE EstablishFails(s) \/ InsertEntry(s) \/ SpawnPump(s)
        BY <1>0, <2>1
        DEF EstablishFails, InsertEntry, SpawnPump, chanVars, HookAccepted, SshTypeOK
    <2>2. CASE SendHook(s)
        <3>1. Receiving(s) /\ accepted[s] = <<>>
            BY <1>0, <2>2 DEF SendHook, Teardown, HookAccepted, Receiving, SshTypeOK, PumpPhase
        <3>2. accepted' = [accepted EXCEPT ![s] = Append(@, Hook)] /\ Hook \in Data
            BY <2>2, <3>1, DisconnectIsNoData DEF SendHook, Push, Data
        <3>3. Append(accepted[s], Hook) # <<>> /\ Head(Append(accepted[s], Hook)) = Hook
            BY <1>0, <3>1, <3>2, AppendHead DEF SshTypeOK
        <3>4. conn' = [conn EXCEPT ![s] = "hooked"]
            BY <2>2 DEF SendHook
        <3> QED
            BY <1>0, <3>2, <3>3, <3>4 DEF HookAccepted, SshTypeOK
    <2> QED
        BY <1>4, <2>1, <2>2 DEF Connect
<1>5. ASSUME NEW s \in Sessions, X11Export(s) PROVE HookAccepted'
    BY <1>0, <1>5, PushAfterHook DEF X11Export, connVars, Data
<1>6. ASSUME NEW s \in Sessions, Pump(s) PROVE HookAccepted'
    BY <1>1, <1>6
    DEF Pump, DrainOne, DrainEnd, PumpIo, Return, ClearAlive, RemoveEntry, EmitExit,
        connVars, chanVars
<1>7. CASE UNCHANGED sshVars
    BY <1>1, <1>7 DEF sshVars
<1> QED
    BY <1>2, <1>3, <1>4, <1>5, <1>6, <1>7 DEF SshNext

(* The entry is visible before the line is queued, and yet nothing that any *)
(* thread sends can get in front of it.                                     *)
THEOREM SshHookFirst == SshSpec => []HookFirst
<1>1. SshInit => HookAccepted
    BY DEF SshInit, HookAccepted
<1>2. SshInv /\ HookAccepted /\ [SshNext]_sshVars => HookAccepted'
    BY StepHook
<1>3. SshInv /\ InputConserved /\ HookAccepted => HookFirst
    <2> SUFFICES ASSUME SshInv, InputConserved, HookAccepted,
                        NEW s \in Sessions, written[s] # <<>>
                 PROVE  Head(written[s]) = Hook
        BY DEF HookFirst
    <2>1. written[s] \in Seq(Data) /\ accepted[s] \in Seq(Data)
        BY DEF SshInv, SshTypeOK
    <2>2. accepted[s] # <<>> /\ Head(written[s]) = Head(accepted[s])
        BY <2>1, PrefixHead DEF InputConserved
    <2> QED
        BY <2>2 DEF HookAccepted
<1> QED
    BY <1>1, <1>2, <1>3, SshInvariant, SshInputConserved, PTL DEF SshSpec

-----------------------------------------------------------------------------
(* TermTab: the invariant *)

TabRecord ==
    [ph : Phase, host : Hosts \cup {None}, sid : Sessions \cup {None},
     req : Sessions \cup {None}, open : BOOLEAN, dead : BOOLEAN,
     dot : {"conn", "live", "dead"}, btn : BOOLEAN, unl : SUBSET (Tabs \X Sessions)]

TabTypeOK ==
    /\ tab \in [Tabs -> TabRecord]
    /\ listeners \subseteq Tabs \X Sessions
    /\ events \subseteq Tabs \X Sessions
    /\ requests \subseteq Sessions
    /\ replies \subseteq Hosts
    /\ orphaned \subseteq Sessions
    /\ missed \subseteq Sessions

(* What each phase of attachSsh knows of the attempt and of the tab.        *)
PhaseOK(t) ==
    LET r == tab[t]
    IN  /\ r.ph = "none" <=> r.req = None
        /\ r.ph # "none" => r.host \in Hosts
        /\ r.open => r.ph # "none"
        /\ r.sid # None => conn[r.sid] = "up"
        /\ r.ph = "invoking" => ~r.dead
        /\ r.ph = "invoking" /\ ~r.open => r.req \in orphaned
        /\ r.ph = "listening" => ~r.dead
        /\ r.ph \in {"listening", "listened"} => r.sid = r.req
        /\ r.ph = "settled" => r.sid = r.req \/ conn[r.req] = "failed"

(* A session a tab has given up is out of the map: that of a dead tab, and  *)
(* the old one of a tab that reconnects.                                    *)
GivenUpOK(t) ==
    LET r == tab[t]
    IN  /\ r.btn => r.dead
        /\ (r.dead \/ r.ph = "invoking") /\ r.sid # None => r.sid \notin entries
        /\ r.ph = "settled" /\ r.dead => r.btn \/ r.dot = "live"

(* Who is registered with the back end, and who can unregister it.          *)
ListenOK(t) ==
    LET r == tab[t]
    IN  /\ \A s \in Sessions :
               <<t, s>> \in listeners => r.ph \in {"listened", "settled"} /\ s = r.sid
        /\ r.unl \subseteq {<<t, r.sid>>}
        /\ r.unl # {} => r.ph = "settled"
        /\ \A s \in Sessions : <<t, s>> \in listeners /\ r.ph = "settled" => <<t, s>> \in r.unl
        /\ r.ph \in {"listened", "settled"} /\ r.open /\ ~r.dead => <<t, r.sid>> \in listeners

(* An exit that has happened is on its way, or was missed.                  *)
NewsOK(t) ==
    LET r == tab[t]
    IN  /\ \A s \in Sessions : <<t, s>> \in events => exits[s] = 1
        /\ r.ph \in {"invoking", "listening"} /\ exits[r.req] = 1 => r.req \in missed
        /\ r.ph \in {"listened", "settled"} /\ r.open /\ ~r.dead /\ exits[r.sid] = 1 =>
               <<t, r.sid>> \in events \/ r.sid \in missed

(* An id belongs to one tab, as its attempt or as its session.              *)
Own(t, u) ==
    /\ tab[t].req # None => tab[t].req # tab[u].req
    /\ tab[t].sid # None => tab[t].sid # tab[u].sid /\ tab[t].sid # tab[u].req

(* An attempt under way, or a session in the map.                           *)
Begun(s) ==
    /\ conn[s] \in {"connecting", "inserted", "hooked", "up"}
    /\ conn[s] = "up" => s \in entries

EndOrdered(s) == Contains(queue[s], Disconnect) \/ disc[s] \/ ~Receiving(s)

(* NoOtherOrphans from the start of the attempt on.                         *)
Traced(s) ==
    Begun(s) =>
        \/ \E t \in Tabs : tab[t].open /\ tab[t].req = s
        \/ s \in requests \cup orphaned
        \/ EndOrdered(s)

TabInv ==
    /\ TabTypeOK
    /\ \A t \in Tabs : PhaseOK(t) /\ GivenUpOK(t) /\ ListenOK(t) /\ NewsOK(t)
    /\ \A t, u \in Tabs : t # u => Own(t, u)
    /\ \A s \in Sessions : Traced(s)

(* A step of the page and its back end is a step of the back end, or none.  *)
LEMMA TabStepIsSshStep ==
    ASSUME TabInv, [TabNext]_tabVars
    PROVE  [SshNext]_sshVars
<1>1. CASE UNCHANGED tabVars
    BY <1>1 DEF tabVars
<1>2. ASSUME NEW t \in Tabs, StartConnect(t) PROVE SshNext
    <2>1. /\ tab[t].req \in Sessions \cup {None} /\ tab[t].req # None
          /\ tab[t].host \in Hosts
        BY <1>2 DEF StartConnect, TabInv, TabTypeOK, TabRecord, PhaseOK
    <2> QED
        BY <1>2, <2>1 DEF StartConnect, SshNext, Commands
<1>3. ASSUME NEW t \in Tabs, User(t) \/ Page(t) PROVE SshNext \/ UNCHANGED sshVars
    BY <1>2, <1>3
    DEF User, Page, UserCloses, Reconnect, OpenTab, ResultOk, ResultErr, RegisterExit,
        Attached, HandleExit
<1>4. ASSUME NEW h \in Hosts, UserDeletes(h) \/ HostDeleted(h) PROVE SshNext \/ UNCHANGED sshVars
    BY <1>4 DEF UserDeletes, HostDeleted, SshNext, Commands
<1>5. ASSUME NEW s \in Sessions, BackEnd(s) PROVE SshNext
    BY <1>5 DEF BackEnd, EmitExitEvent, SshNext, Pump
<1>6. CASE Main
    BY <1>6 DEF Main, FinishSweep, HandleClose, SshNext, Sweep, Commands
<1> QED
    BY <1>1, <1>3, <1>4, <1>5, <1>6 DEF TabNext

(* What a step of the back end leaves to the page: a result is final, and   *)
(* the id of a session that came up and has left the map never returns.     *)
LEMMA BackEndIsFinal ==
    ASSUME SshInv, [SshNext]_sshVars, NEW s \in Sessions
    PROVE  /\ conn[s] \in {"up", "failed"} => conn'[s] = conn[s]
           /\ conn[s] = "up" /\ s \notin entries => s \notin entries'
<1>0. SshTypeOK
    BY DEF SshInv
<1>1. CASE UNCHANGED <<conn, entries>>
    BY <1>1
<1>2. ASSUME NEW r \in Sessions, NEW h \in Hosts, ConnectHost(r, h)
      PROVE  entries' = entries /\ (conn[s] \in {"up", "failed"} => conn'[s] = conn[s])
    BY <1>0, <1>2 DEF ConnectHost, SshTypeOK
<1>3. ASSUME NEW r \in Sessions, Connect(r)
      PROVE  /\ conn[s] \in {"up", "failed"} => conn'[s] = conn[s]
             /\ conn[s] = "up" /\ s \notin entries => s \notin entries'
    BY <1>0, <1>3
    DEF Connect, EstablishFails, InsertEntry, SendHook, SpawnPump, SshTypeOK
<1>4. ASSUME NEW r \in Sessions, Pump(r) PROVE conn' = conn /\ entries' \subseteq entries
    BY <1>4
    DEF Pump, DrainOne, DrainEnd, PumpIo, Return, ClearAlive, RemoveEntry, EmitExit, connVars
<1>5. CASE Commands
    BY <1>1, <1>2, <1>5 DEF Commands, Write, Close, DeleteHost, ResetSessions, connVars
<1>6. CASE Sweep
    BY <1>1, <1>6 DEF Sweep, SweepDone, SweepSend, connVars
<1>7. ASSUME NEW r \in Sessions, X11Export(r) PROVE UNCHANGED <<conn, entries>>
    BY <1>7 DEF X11Export, connVars
<1>8. CASE UNCHANGED sshVars
    BY <1>1, <1>8 DEF sshVars
<1> QED
    BY <1>1, <1>3, <1>4, <1>5, <1>6, <1>7, <1>8 DEF SshNext

(* The tab's own part of the invariant outlives what others do.             *)
LEMMA TabKept ==
    ASSUME SshInv, TabInv, [SshNext]_sshVars, NEW t \in Tabs, tab'[t] = tab[t],
           orphaned \subseteq orphaned',
           \A s \in Sessions : <<t, s>> \in listeners' <=> <<t, s>> \in listeners
    PROVE  PhaseOK(t)' /\ GivenUpOK(t)' /\ ListenOK(t)'
<1> DEFINE r == tab[t]
<1>1. /\ PhaseOK(t) /\ GivenUpOK(t) /\ ListenOK(t)
      /\ r.sid \in Sessions \cup {None} /\ r.req \in Sessions \cup {None}
    BY DEF TabInv, TabTypeOK, TabRecord
<1>2. PhaseOK(t)'
    <2>1. r.sid # None => conn'[r.sid] = "up"
        BY <1>1, BackEndIsFinal DEF PhaseOK
    <2>2. r.ph = "settled" => r.sid = r.req \/ conn'[r.req] = "failed"
        BY <1>1, BackEndIsFinal DEF PhaseOK
    <2> QED
        BY <1>1, <2>1, <2>2 DEF PhaseOK
<1>3. GivenUpOK(t)'
    <2>1. r.sid # None /\ r.sid \notin entries => r.sid \notin entries'
        BY <1>1, BackEndIsFinal DEF PhaseOK
    <2> QED
        BY <1>1, <2>1 DEF GivenUpOK
<1>4. ListenOK(t)'
    <2>1. <<t, r.sid>> \in listeners => r.sid \in Sessions
        BY DEF TabInv, TabTypeOK
    <2> QED
        BY <1>1, <2>1 DEF ListenOK
<1> QED
    BY <1>2, <1>3, <1>4

LEMMA NewsKept ==
    ASSUME TabInv, NEW t \in Tabs, tab'[t] = tab[t], exits' = exits, missed \subseteq missed',
           \A s \in Sessions : <<t, s>> \in events' <=> <<t, s>> \in events
    PROVE  NewsOK(t)'
<1>1. NewsOK(t) /\ events \subseteq Tabs \X Sessions
    BY DEF TabInv, TabTypeOK
<1> QED
    BY <1>1 DEF NewsOK

(* A step of the page that forgets no attempt.                              *)
LEMMA TracedKept ==
    ASSUME NEW s \in Sessions, Traced(s), UNCHANGED sshVars,
           s \in requests \cup orphaned => s \in requests' \cup orphaned',
           \A t \in Tabs : tab[t].open /\ tab[t].req = s => tab'[t].open /\ tab'[t].req = s
    PROVE  Traced(s)'
BY DEF Traced, Begun, EndOrdered, sshVars, Receiving

(* A step of the page that changes one tab.                                 *)
LEMMA PageStep ==
    ASSUME SshInv, TabInv, UNCHANGED sshVars, NEW t \in Tabs, TabTypeOK',
           \A u \in Tabs \ {t} : tab'[u] = tab[u],
           \A u \in Tabs \ {t}, s \in Sessions :
               /\ <<u, s>> \in listeners' <=> <<u, s>> \in listeners
               /\ <<u, s>> \in events' <=> <<u, s>> \in events,
           orphaned \subseteq orphaned', missed' = missed,
           PhaseOK(t)', GivenUpOK(t)', ListenOK(t)', NewsOK(t)',
           \A u \in Tabs \ {t} : Own(t, u)' /\ Own(u, t)',
           \A s \in Sessions : Traced(s)'
    PROVE  TabInv'
<1>1. ASSUME NEW u \in Tabs \ {t} PROVE PhaseOK(u)' /\ GivenUpOK(u)' /\ ListenOK(u)'
    BY TabKept
<1>2. ASSUME NEW u \in Tabs \ {t} PROVE NewsOK(u)'
    BY NewsKept DEF sshVars
<1>3. ASSUME NEW u \in Tabs, NEW v \in Tabs, u # v PROVE Own(u, v)'
    BY <1>3 DEF TabInv, Own
<1> QED
    BY <1>1, <1>2, <1>3 DEF TabInv

(* The tab keeps its attempt, and takes at most the id of that attempt.     *)
LEMMA OwnKept ==
    ASSUME TabInv, NEW t \in Tabs, NEW u \in Tabs \ {t}, tab'[u] = tab[u],
           tab'[t].req = tab[t].req, tab'[t].sid \in {tab[t].sid, tab[t].req}
    PROVE  Own(t, u)' /\ Own(u, t)'
<1>1. Own(t, u) /\ Own(u, t)
    BY DEF TabInv
<1> QED
    BY <1>1 DEF Own

(* The tab begins an attempt.                                               *)
LEMMA OwnNew ==
    ASSUME TabInv, NEW t \in Tabs, NEW u \in Tabs \ {t}, tab'[u] = tab[u],
           NEW s \in Sessions, Unused(s),
           tab'[t].req = s, tab'[t].sid \in {tab[t].sid, None}
    PROVE  Own(t, u)' /\ Own(u, t)'
<1>1. Own(t, u) /\ Own(u, t) /\ PhaseOK(u)
    BY DEF TabInv
<1>2. tab[u].sid # s
    BY <1>1, TabAssumption DEF Unused, PhaseOK
<1> QED
    BY <1>1, <1>2 DEF Own, Unused

LEMMA OpenTabInv ==
    ASSUME SshInv, TabInv, NEW t \in Tabs, NEW h \in Hosts, OpenTab(t, h)
    PROVE  TabInv'
<1>1. PICK s \in Sessions :
          /\ Unused(s)
          /\ tab' = [tab EXCEPT ![t] = [NoTab EXCEPT !.ph = "invoking", !.open = TRUE,
                                                     !.host = h, !.req = s]]
    BY DEF OpenTab
<1>2. /\ tab'[t].ph = "invoking" /\ tab'[t].req = s /\ tab'[t].sid = None /\ tab'[t].open
      /\ tab'[t].host = h /\ tab'[t].dead = FALSE /\ tab'[t].btn = FALSE /\ tab'[t].unl = {}
      /\ \A u \in Tabs \ {t} : tab'[u] = tab[u]
    BY <1>1 DEF TabInv, TabTypeOK, NoTab
<1>3. UNCHANGED <<sshVars, listeners, events, requests, replies, orphaned, missed>>
    BY DEF OpenTab
<1>4. TabTypeOK'
    BY <1>1, <1>3 DEF TabInv, TabTypeOK, TabRecord, NoTab, Phase
<1>5. conn[s] = "none" /\ exits[s] = 0
    <2>1. conn[s] = "none" /\ pump[s] # "exited" /\ exits[s] \in 0..1
        BY <1>1 DEF Unused, SshInv, SshTypeOK, Teardown
    <2>2. exits[s] # 1
        BY <2>1 DEF SshInv, Teardown
    <2> QED
        BY <2>1, <2>2
<1>6. /\ tab[t].ph = "none"
      /\ PhaseOK(t) /\ ListenOK(t) /\ NewsOK(t) /\ tab[t].req = None
    BY DEF OpenTab, TabInv, PhaseOK
<1>7. PhaseOK(t)'
    BY <1>2, TabAssumption DEF PhaseOK
<1>8. GivenUpOK(t)'
    BY <1>2 DEF GivenUpOK
<1>9. ListenOK(t)'
    BY <1>2, <1>3, <1>6 DEF ListenOK
<1>10. NewsOK(t)'
    BY <1>2, <1>3, <1>5, <1>6 DEF NewsOK, sshVars
<1>11. \A u \in Tabs \ {t} : Own(t, u)' /\ Own(u, t)'
    BY <1>1, <1>2, OwnNew
<1>12. ASSUME NEW r \in Sessions PROVE Traced(r)'
    <2>1. \A u \in Tabs : tab[u].open /\ tab[u].req = r => tab'[u].open /\ tab'[u].req = r
        BY <1>2, <1>6, TabAssumption
    <2> QED
        BY <1>3, <2>1, TracedKept DEF TabInv
<1> QED
    BY <1>2, <1>3, <1>4, <1>7, <1>8, <1>9, <1>10, <1>11, <1>12, PageStep

LEMMA ResultOkInv ==
    ASSUME SshInv, TabInv, NEW t \in Tabs, ResultOk(t)
    PROVE  TabInv'
<1> DEFINE r == tab[t]
<1>1. /\ tab'[t].ph = "listening" /\ tab'[t].sid = r.req /\ tab'[t].req = r.req
      /\ tab'[t].open = r.open /\ tab'[t].host = r.host /\ tab'[t].dead = r.dead
      /\ tab'[t].btn = r.btn /\ tab'[t].unl = r.unl
      /\ \A u \in Tabs \ {t} : tab'[u] = tab[u]
    BY DEF ResultOk, TabInv, TabTypeOK, TabRecord
<1>2. UNCHANGED <<sshVars, listeners, events, requests, replies, orphaned, missed>>
    BY DEF ResultOk
<1>3. /\ r.ph = "invoking" /\ conn[r.req] = "up" /\ r \in TabRecord
      /\ PhaseOK(t) /\ GivenUpOK(t) /\ ListenOK(t) /\ NewsOK(t)
    BY DEF ResultOk, TabInv, TabTypeOK
<1>4. TabTypeOK'
    BY <1>2, <1>3 DEF ResultOk, TabInv, TabTypeOK, TabRecord, Phase
<1>5. PhaseOK(t)'
    BY <1>1, <1>2, <1>3 DEF PhaseOK, sshVars
<1>6. GivenUpOK(t)'
    BY <1>1, <1>2, <1>3 DEF GivenUpOK, PhaseOK
<1>7. ListenOK(t)'
    BY <1>1, <1>2, <1>3 DEF ListenOK
<1>8. NewsOK(t)'
    BY <1>1, <1>2, <1>3 DEF NewsOK, sshVars
<1>9. \A u \in Tabs \ {t} : Own(t, u)' /\ Own(u, t)'
    BY <1>1, OwnKept
<1>10. ASSUME NEW s \in Sessions PROVE Traced(s)'
    <2>1. \A u \in Tabs : tab[u].open /\ tab[u].req = s => tab'[u].open /\ tab'[u].req = s
        BY <1>1
    <2> QED
        BY <1>2, <2>1, TracedKept DEF TabInv
<1> QED
    BY <1>1, <1>2, <1>4, <1>5, <1>6, <1>7, <1>8, <1>9, <1>10, PageStep

LEMMA ResultErrInv ==
    ASSUME SshInv, TabInv, NEW t \in Tabs, ResultErr(t)
    PROVE  TabInv'
<1> DEFINE r == tab[t]
<1>1. /\ tab'[t].ph = "settled" /\ tab'[t].sid = r.sid /\ tab'[t].req = r.req
      /\ tab'[t].open = r.open /\ tab'[t].host = r.host /\ tab'[t].dead = TRUE
      /\ tab'[t].btn = TRUE /\ tab'[t].unl = r.unl
      /\ \A u \in Tabs \ {t} : tab'[u] = tab[u]
    BY DEF ResultErr, Dead, TabInv, TabTypeOK, TabRecord
<1>2. UNCHANGED <<sshVars, listeners, events, requests, replies, orphaned, missed>>
    BY DEF ResultErr
<1>3. /\ r.ph = "invoking" /\ conn[r.req] = "failed" /\ r \in TabRecord
      /\ PhaseOK(t) /\ GivenUpOK(t) /\ ListenOK(t) /\ NewsOK(t)
    BY DEF ResultErr, TabInv, TabTypeOK
<1>4. TabTypeOK'
    BY <1>2, <1>3 DEF ResultErr, Dead, TabInv, TabTypeOK, TabRecord, Phase
<1>5. PhaseOK(t)'
    BY <1>1, <1>2, <1>3 DEF PhaseOK, sshVars
<1>6. GivenUpOK(t)'
    BY <1>1, <1>2, <1>3 DEF GivenUpOK, sshVars
<1>7. ListenOK(t)'
    BY <1>1, <1>2, <1>3 DEF ListenOK
<1>8. NewsOK(t)'
    BY <1>1, <1>2, <1>3 DEF NewsOK, sshVars
<1>9. \A u \in Tabs \ {t} : Own(t, u)' /\ Own(u, t)'
    BY <1>1, OwnKept
<1>10. ASSUME NEW s \in Sessions PROVE Traced(s)'
    <2>1. \A u \in Tabs : tab[u].open /\ tab[u].req = s => tab'[u].open /\ tab'[u].req = s
        BY <1>1
    <2> QED
        BY <1>2, <2>1, TracedKept DEF TabInv
<1> QED
    BY <1>1, <1>2, <1>4, <1>5, <1>6, <1>7, <1>8, <1>9, <1>10, PageStep

LEMMA RegisterExitInv ==
    ASSUME SshInv, TabInv, NEW t \in Tabs, RegisterExit(t)
    PROVE  TabInv'
<1> DEFINE r == tab[t]
<1>1. /\ tab'[t].ph = "listened" /\ tab'[t].sid = r.sid /\ tab'[t].req = r.req
      /\ tab'[t].open = r.open /\ tab'[t].host = r.host /\ tab'[t].dead = r.dead
      /\ tab'[t].btn = r.btn /\ tab'[t].unl = r.unl
      /\ \A u \in Tabs \ {t} : tab'[u] = tab[u]
    BY DEF RegisterExit, TabInv, TabTypeOK, TabRecord
<1>2. /\ UNCHANGED <<sshVars, events, requests, replies, orphaned, missed>>
      /\ listeners' = listeners \cup {<<t, r.sid>>}
    BY DEF RegisterExit
<1>3. /\ r.ph = "listening" /\ r \in TabRecord
      /\ PhaseOK(t) /\ GivenUpOK(t) /\ ListenOK(t) /\ NewsOK(t)
    BY DEF RegisterExit, TabInv, TabTypeOK
<1>4. r.sid = r.req /\ r.sid \in Sessions
    BY <1>3 DEF PhaseOK, TabRecord
<1>5. TabTypeOK'
    BY <1>2, <1>3, <1>4 DEF RegisterExit, TabInv, TabTypeOK, TabRecord, Phase
<1>6. PhaseOK(t)'
    BY <1>1, <1>2, <1>3 DEF PhaseOK, sshVars
<1>7. GivenUpOK(t)'
    BY <1>1, <1>2, <1>3 DEF GivenUpOK, sshVars
<1>8. ListenOK(t)'
    BY <1>1, <1>2, <1>3 DEF ListenOK
<1>9. NewsOK(t)'
    BY <1>1, <1>2, <1>3, <1>4 DEF NewsOK, sshVars
<1>10. \A u \in Tabs \ {t} : Own(t, u)' /\ Own(u, t)'
    BY <1>1, OwnKept
<1>11. ASSUME NEW s \in Sessions PROVE Traced(s)'
    <2>1. \A u \in Tabs : tab[u].open /\ tab[u].req = s => tab'[u].open /\ tab'[u].req = s
        BY <1>1
    <2> QED
        BY <1>2, <2>1, TracedKept DEF TabInv
<1> QED
    BY <1>1, <1>2, <1>5, <1>6, <1>7, <1>8, <1>9, <1>10, <1>11, PageStep

LEMMA AttachedInv ==
    ASSUME SshInv, TabInv, NEW t \in Tabs, Attached(t)
    PROVE  TabInv'
<1> DEFINE r == tab[t]
<1>1. /\ tab'[t].ph = "settled" /\ tab'[t].sid = r.sid /\ tab'[t].req = r.req
      /\ tab'[t].open = r.open /\ tab'[t].host = r.host /\ tab'[t].dead = r.dead
      /\ tab'[t].dot = "live" /\ tab'[t].btn = FALSE /\ tab'[t].unl = {<<t, r.sid>>}
      /\ \A u \in Tabs \ {t} : tab'[u] = tab[u]
    BY DEF Attached, TabInv, TabTypeOK, TabRecord
<1>2. UNCHANGED <<sshVars, listeners, events, requests, replies, orphaned, missed>>
    BY DEF Attached
<1>3. /\ r.ph = "listened" /\ r \in TabRecord
      /\ PhaseOK(t) /\ GivenUpOK(t) /\ ListenOK(t) /\ NewsOK(t)
    BY DEF Attached, TabInv, TabTypeOK
<1>4. r.sid = r.req /\ r.sid \in Sessions
    BY <1>3 DEF PhaseOK, TabRecord
<1>5. TabTypeOK'
    <2> DEFINE z == {<<t, r.sid>>}
               n == [r EXCEPT !.ph = "settled", !.dot = "live", !.btn = FALSE, !.unl = z]
    <2>1. z \in SUBSET (Tabs \X Sessions)
        BY <1>4
    <2>2. tab' = [tab EXCEPT ![t] = n]
        BY DEF Attached
    <2> HIDE DEF z
    <2>3. n \in TabRecord
        BY <1>3, <2>1 DEF TabRecord, Phase
    <2> HIDE DEF n
    <2> QED
        BY <1>2, <2>2, <2>3 DEF TabInv, TabTypeOK
<1>6. PhaseOK(t)'
    BY <1>1, <1>2, <1>3 DEF PhaseOK, sshVars
<1>7. GivenUpOK(t)'
    BY <1>1, <1>2, <1>3 DEF GivenUpOK, sshVars
<1>8. ListenOK(t)'
    BY <1>1, <1>2, <1>3 DEF ListenOK
<1>9. NewsOK(t)'
    BY <1>1, <1>2, <1>3 DEF NewsOK, sshVars
<1>10. \A u \in Tabs \ {t} : Own(t, u)' /\ Own(u, t)'
    BY <1>1, OwnKept
<1>11. ASSUME NEW s \in Sessions PROVE Traced(s)'
    <2>1. \A u \in Tabs : tab[u].open /\ tab[u].req = s => tab'[u].open /\ tab'[u].req = s
        BY <1>1
    <2> QED
        BY <1>2, <2>1, TracedKept DEF TabInv
<1> QED
    BY <1>1, <1>2, <1>5, <1>6, <1>7, <1>8, <1>9, <1>10, <1>11, PageStep

(* By the time the handler runs the session has left the map.               *)
LEMMA HandleExitInv ==
    ASSUME SshInv, TabInv, NEW t \in Tabs, NEW s \in Sessions, HandleExit(t, s)
    PROVE  TabInv'
<1> DEFINE r == tab[t]
<1>1. /\ UNCHANGED <<sshVars, listeners, requests, replies, orphaned, missed>>
      /\ <<t, s>> \in events /\ events' = events \ {<<t, s>>}
    BY DEF HandleExit
<1>2. /\ r \in TabRecord /\ PhaseOK(t) /\ GivenUpOK(t) /\ ListenOK(t) /\ NewsOK(t)
    BY DEF TabInv, TabTypeOK
<1>3. CASE <<t, s>> \in listeners
    <2>1. /\ tab'[t].ph = r.ph /\ tab'[t].sid = r.sid /\ tab'[t].req = r.req
          /\ tab'[t].open = r.open /\ tab'[t].host = r.host /\ tab'[t].dead = TRUE
          /\ tab'[t].btn = TRUE /\ tab'[t].unl = r.unl
          /\ \A u \in Tabs \ {t} : tab'[u] = tab[u]
        BY <1>3 DEF HandleExit, Dead, TabInv, TabTypeOK, TabRecord
    <2>2. r.ph \in {"listened", "settled"} /\ r.sid = s
        BY <1>2, <1>3 DEF ListenOK
    <2>3. s \notin entries
        <3>1. exits[s] = 1
            BY <1>1, <1>2 DEF NewsOK
        <3> QED
            BY <3>1 DEF SshInv, Teardown
    <2>4. TabTypeOK'
        BY <1>1, <1>2, <1>3 DEF HandleExit, Dead, TabInv, TabTypeOK, TabRecord
    <2>5. PhaseOK(t)'
        BY <1>1, <1>2, <2>1, <2>2 DEF PhaseOK, sshVars
    <2>6. GivenUpOK(t)'
        BY <1>1, <2>1, <2>2, <2>3 DEF GivenUpOK, sshVars
    <2>7. ListenOK(t)'
        BY <1>1, <1>2, <2>1 DEF ListenOK
    <2>8. NewsOK(t)'
        BY <1>1, <1>2, <2>1, <2>2 DEF NewsOK, sshVars
    <2>9. \A u \in Tabs \ {t} : Own(t, u)' /\ Own(u, t)'
        BY <2>1, OwnKept
    <2>10. ASSUME NEW q \in Sessions PROVE Traced(q)'
        <3>1. \A u \in Tabs : tab[u].open /\ tab[u].req = q => tab'[u].open /\ tab'[u].req = q
            BY <2>1
        <3> QED
            BY <1>1, <3>1, TracedKept DEF TabInv
    <2> QED
        BY <1>1, <2>1, <2>4, <2>5, <2>6, <2>7, <2>8, <2>9, <2>10, PageStep
<1>4. CASE <<t, s>> \notin listeners
    <2>1. tab' = tab
        BY <1>4 DEF HandleExit
    <2>2. TabTypeOK'
        BY <1>1, <2>1 DEF TabInv, TabTypeOK
    <2>3. PhaseOK(t)' /\ GivenUpOK(t)' /\ ListenOK(t)'
        BY <1>1, <2>1, TabKept
    <2>4. NewsOK(t)'
        BY <1>1, <1>2, <1>4, <2>1 DEF NewsOK, ListenOK, sshVars
    <2>5. \A u \in Tabs \ {t} : Own(t, u)' /\ Own(u, t)'
        BY <2>1, OwnKept
    <2>6. \A q \in Sessions : Traced(q)'
        BY <1>1, <2>1, TracedKept DEF TabInv
    <2> QED
        BY <1>1, <2>1, <2>2, <2>3, <2>4, <2>5, <2>6, PageStep
<1> QED
    BY <1>3, <1>4

(* The attempt given up on reconnecting had failed, or its session is over. *)
LEMMA ReconnectInv ==
    ASSUME SshInv, TabInv, NEW t \in Tabs, Reconnect(t)
    PROVE  TabInv'
<1> DEFINE r == tab[t]
<1>1. PICK s \in Sessions :
          /\ Unused(s)
          /\ tab' = [tab EXCEPT ![t] = [@ EXCEPT !.ph = "invoking", !.req = s, !.btn = FALSE,
                                          !.dead = FALSE, !.dot = "conn", !.unl = {}]]
    BY DEF Reconnect
<1>2. /\ tab'[t].ph = "invoking" /\ tab'[t].req = s /\ tab'[t].sid = r.sid
      /\ tab'[t].open = r.open /\ tab'[t].host = r.host /\ tab'[t].dead = FALSE
      /\ tab'[t].btn = FALSE /\ tab'[t].unl = {}
      /\ \A u \in Tabs \ {t} : tab'[u] = tab[u]
    BY <1>1 DEF TabInv, TabTypeOK, TabRecord
<1>3. /\ UNCHANGED <<sshVars, events, requests, replies, orphaned, missed>>
      /\ listeners' = listeners \ r.unl
    BY DEF Reconnect
<1>4. /\ r.ph = "settled" /\ r.btn /\ r.open /\ r \in TabRecord
      /\ PhaseOK(t) /\ GivenUpOK(t) /\ ListenOK(t) /\ NewsOK(t)
    BY DEF Reconnect, TabInv, TabTypeOK
<1>5. conn[s] = "none" /\ exits[s] = 0
    <2>1. conn[s] = "none" /\ pump[s] # "exited" /\ exits[s] \in 0..1
        BY <1>1 DEF Unused, SshInv, SshTypeOK, Teardown
    <2>2. exits[s] # 1
        BY <2>1 DEF SshInv, Teardown
    <2> QED
        BY <2>1, <2>2
<1>6. TabTypeOK'
    <2> DEFINE n == [r EXCEPT !.ph = "invoking", !.req = s, !.btn = FALSE,
                              !.dead = FALSE, !.dot = "conn", !.unl = {}]
    <2>1. n \in TabRecord
        BY <1>4 DEF TabRecord, Phase
    <2>2. tab' = [tab EXCEPT ![t] = n]
        BY <1>1
    <2> HIDE DEF n
    <2> QED
        BY <1>3, <2>1, <2>2 DEF TabInv, TabTypeOK
<1>7. PhaseOK(t)'
    BY <1>2, <1>3, <1>4, TabAssumption DEF PhaseOK, sshVars
<1>8. GivenUpOK(t)'
    BY <1>2, <1>3, <1>4 DEF GivenUpOK, sshVars
<1>9. ListenOK(t)'
    BY <1>2, <1>3, <1>4 DEF ListenOK
<1>10. NewsOK(t)'
    BY <1>2, <1>3, <1>4, <1>5 DEF NewsOK, sshVars
<1>11. \A u \in Tabs \ {t} : Own(t, u)' /\ Own(u, t)'
    BY <1>1, <1>2, OwnNew
<1>12. \A u \in Tabs \ {t}, q \in Sessions : <<u, q>> \in listeners' <=> <<u, q>> \in listeners
    BY <1>3, <1>4 DEF ListenOK
<1>13. ASSUME NEW q \in Sessions PROVE Traced(q)'
    <2>1. CASE q = r.req
        <3>1. conn[q] = "failed" \/ (conn[q] = "up" /\ q \notin entries)
            BY <1>4, <2>1, TabAssumption DEF PhaseOK, GivenUpOK
        <3> QED
            BY <1>3, <3>1 DEF Traced, Begun, sshVars
    <2>2. CASE q # r.req
        <3>1. \A u \in Tabs : tab[u].open /\ tab[u].req = q => tab'[u].open /\ tab'[u].req = q
            BY <1>2, <2>2
        <3> QED
            BY <1>3, <3>1, TracedKept DEF TabInv
    <2> QED
        BY <2>1, <2>2
<1> QED
    BY <1>2, <1>3, <1>6, <1>7, <1>8, <1>9, <1>10, <1>11, <1>12, <1>13, PageStep

(* closeTab: whatever tab is closed, its session is asked to end, or its    *)
(* attempt is one of the orphans, or there is nothing left to end.          *)
LEMMA CloseTabsInv ==
    ASSUME SshInv, TabInv, NEW T \in SUBSET Tabs, \A t \in T : tab[t].open, CloseTabs(T),
           UNCHANGED <<sshVars, events, missed>>, replies' \subseteq replies
    PROVE  TabInv'
<1>1. ASSUME NEW t \in Tabs
      PROVE  /\ tab[t] \in TabRecord
             /\ PhaseOK(t) /\ GivenUpOK(t) /\ ListenOK(t) /\ NewsOK(t)
             /\ tab'[t].ph = tab[t].ph /\ tab'[t].host = tab[t].host
             /\ tab'[t].sid = tab[t].sid /\ tab'[t].req = tab[t].req
             /\ tab'[t].dead = tab[t].dead /\ tab'[t].btn = tab[t].btn
             /\ tab'[t].dot = tab[t].dot /\ tab'[t].unl = tab[t].unl
             /\ tab'[t].open = IF t \in T THEN FALSE ELSE tab[t].open
             /\ tab'[t] \in TabRecord
    <2>1. /\ tab[t] \in TabRecord
          /\ PhaseOK(t) /\ GivenUpOK(t) /\ ListenOK(t) /\ NewsOK(t)
        BY DEF TabInv, TabTypeOK
    <2>2. tab'[t] = IF t \in T THEN [tab[t] EXCEPT !.open = FALSE] ELSE tab[t]
        BY DEF CloseTabs
    <2>3. [tab[t] EXCEPT !.open = FALSE] \in TabRecord
        BY <2>1 DEF TabRecord
    <2>4. tab'[t] \in TabRecord
        BY <2>1, <2>2, <2>3
    <2> QED
        BY <2>1, <2>2, <2>4 DEF TabRecord
<1>2. /\ orphaned' = orphaned \cup {tab[t].req : t \in {u \in T : tab[u].ph = "invoking"}}
      /\ requests' = requests \cup {tab[t].sid : t \in {u \in T :
                                        tab[u].sid # None /\ ~tab[u].dead}}
      /\ listeners' = listeners \ UNION {tab[t].unl : t \in T}
    BY DEF CloseTabs
<1>3. \A t \in T : tab[t].ph = "invoking" => tab[t].req \in Sessions
    BY <1>1 DEF PhaseOK, TabRecord
<1>4. \A t \in T : tab[t].sid # None => tab[t].sid \in Sessions
    BY <1>1 DEF TabRecord
<1>5. TabTypeOK'
    <2>1. tab' \in [Tabs -> TabRecord]
        <3>1. tab' = [t \in Tabs |-> tab'[t]]
            BY DEF CloseTabs
        <3> QED
            BY <1>1, <3>1
    <2>2. requests' \subseteq Sessions /\ orphaned' \subseteq Sessions
        BY <1>2, <1>3, <1>4 DEF TabInv, TabTypeOK
    <2> QED
        BY <1>2, <2>1, <2>2 DEF TabInv, TabTypeOK
<1>6. ASSUME NEW t \in Tabs PROVE PhaseOK(t)' /\ GivenUpOK(t)' /\ ListenOK(t)' /\ NewsOK(t)'
    <2>1. PhaseOK(t)'
        <3>1. t \in T /\ tab[t].ph = "invoking" => tab[t].req \in orphaned'
            BY <1>2
        <3>2. orphaned \subseteq orphaned' /\ conn' = conn
            BY <1>2 DEF sshVars
        <3>3. /\ PhaseOK(t)
              /\ tab'[t].ph = tab[t].ph /\ tab'[t].host = tab[t].host
              /\ tab'[t].sid = tab[t].sid /\ tab'[t].req = tab[t].req
              /\ tab'[t].dead = tab[t].dead
              /\ tab'[t].open = IF t \in T THEN FALSE ELSE tab[t].open
            BY <1>1
        <3>4. \A u \in T : tab[u].open
            OBVIOUS
        <3>5. tab'[t].ph = "invoking" /\ ~tab'[t].open => tab'[t].req \in orphaned'
            BY <3>1, <3>2, <3>3 DEF PhaseOK
        <3> QED
            BY <3>2, <3>3, <3>5 DEF PhaseOK
    <2>2. GivenUpOK(t)'
        BY <1>1 DEF GivenUpOK, sshVars
    <2>3. ListenOK(t)'
        <3>1. t \notin T => \A s \in Sessions : <<t, s>> \in listeners => <<t, s>> \in listeners'
            <4>1. ASSUME NEW u \in T, NEW s \in Sessions, <<t, s>> \in tab[u].unl PROVE t = u
                BY <1>1, <4>1 DEF ListenOK
            <4> QED
                BY <1>2, <4>1
        <3>2. tab[t].ph \in {"listened", "settled"} /\ tab[t].open /\ ~tab[t].dead =>
                  tab[t].sid \in Sessions
            BY <1>1 DEF ListenOK, TabInv, TabTypeOK
        <3>3. listeners' \subseteq listeners
            BY <1>2
        <3>4. /\ ListenOK(t)
              /\ tab'[t].ph = tab[t].ph /\ tab'[t].sid = tab[t].sid
              /\ tab'[t].dead = tab[t].dead /\ tab'[t].unl = tab[t].unl
              /\ tab'[t].open = IF t \in T THEN FALSE ELSE tab[t].open
            BY <1>1
        <3> QED
            BY <3>1, <3>2, <3>3, <3>4 DEF ListenOK
    <2>4. NewsOK(t)'
        BY <1>1 DEF NewsOK, sshVars
    <2> QED
        BY <2>1, <2>2, <2>3, <2>4
<1>7. ASSUME NEW t \in Tabs, NEW u \in Tabs, t # u PROVE Own(t, u)'
    <2>1. Own(t, u)
        BY <1>7 DEF TabInv
    <2>2. /\ tab'[t].sid = tab[t].sid /\ tab'[t].req = tab[t].req
          /\ tab'[u].sid = tab[u].sid /\ tab'[u].req = tab[u].req
        BY <1>1
    <2> QED
        BY <2>1, <2>2 DEF Own
<1>8. ASSUME NEW s \in Sessions PROVE Traced(s)'
    <2>1. SUFFICES ASSUME Begun(s)', ~EndOrdered(s)'
                   PROVE  (\E t \in Tabs : tab'[t].open /\ tab'[t].req = s)
                              \/ s \in requests' \cup orphaned'
        BY DEF Traced
    <2>2. Begun(s) /\ ~EndOrdered(s) /\ Traced(s)
        BY <2>1 DEF Begun, EndOrdered, Receiving, sshVars, TabInv
    <2>3. CASE s \in requests \cup orphaned
        BY <1>2, <2>3
    <2>4. ASSUME NEW t \in Tabs, tab[t].open, tab[t].req = s
          PROVE  (\E u \in Tabs : tab'[u].open /\ tab'[u].req = s)
                     \/ s \in requests' \cup orphaned'
        <3>1. CASE t \notin T
            BY <1>1, <2>4, <3>1
        <3>2. CASE t \in T /\ tab[t].ph = "invoking"
            BY <1>2, <2>4, <3>2
        <3>3. CASE t \in T /\ tab[t].ph # "invoking"
            <4>1. tab[t].sid = s
                BY <1>1, <2>2, <2>4, <3>3 DEF PhaseOK, TabRecord, Phase, Begun
            <4>2. tab[t].sid # None /\ conn[s] = "up"
                BY <1>1, <4>1, TabAssumption DEF PhaseOK
            <4>3. ~tab[t].dead
                BY <1>1, <2>2, <4>1, <4>2 DEF GivenUpOK, Begun
            <4> QED
                BY <1>2, <3>3, <4>1, <4>2, <4>3
        <3> QED
            BY <3>1, <3>2, <3>3
    <2> QED
        BY <2>2, <2>3, <2>4 DEF Traced
<1> QED
    BY <1>5, <1>6, <1>7, <1>8 DEF TabInv

-----------------------------------------------------------------------------
(* TermTab: steps of the back end *)

(* A queue keeps its Disconnect until the pump takes it.                    *)
LEMMA ContainsAppend ==
    ASSUME NEW X, NEW q \in Seq(X), NEW x \in X, NEW d
    PROVE  /\ Contains(q, d) => Contains(Append(q, x), d)
           /\ Contains(Append(q, x), x)
<1> DEFINE r == Append(q, x)
           n == Len(q)
<1>1. /\ n \in Nat /\ Len(r) = n + 1 /\ r[n + 1] = x /\ \A i \in 1..n : r[i] = q[i]
    BY AppendProperties, LenProperties
<1> HIDE DEF r
<1>2. ASSUME Contains(q, d) PROVE Contains(r, d)
    <2>1. PICK i \in 1..n : q[i] = d
        BY <1>2 DEF Contains
    <2>2. i \in 1..Len(r) /\ r[i] = d
        BY <1>1, <2>1
    <2> QED
        BY <2>2 DEF Contains
<1>3. Contains(r, x)
    <2>1. n + 1 \in 1..Len(r)
        BY <1>1
    <2> QED
        BY <1>1, <2>1 DEF Contains
<1> QED
    BY <1>2, <1>3 DEF r

LEMMA ContainsTail ==
    ASSUME NEW X, NEW q \in Seq(X), q # <<>>, NEW d, Contains(q, d), Head(q) # d
    PROVE  Contains(Tail(q), d)
<1> DEFINE r == Tail(q)
           n == Len(q)
<1>1. /\ n \in Nat /\ Len(r) = n - 1 /\ \A i \in 1..Len(r) : r[i] = q[i + 1]
      /\ Head(q) = q[1]
    BY HeadTailProperties, LenProperties
<1> HIDE DEF r
<1>2. PICK i \in 1..n : q[i] = d
    BY DEF Contains
<1> DEFINE j == i - 1
<1>3. i # 1
    BY <1>1, <1>2
<1>4. j \in 1..Len(r) /\ j + 1 = i
    BY <1>1, <1>3
<1>5. r[j] = d
    <2> HIDE DEF j
    <2> QED
        BY <1>1, <1>2, <1>4
<1> HIDE DEF j
<1> QED
    BY <1>4, <1>5 DEF Contains, r

LEMMA PushKeepsOrder ==
    ASSUME SshTypeOK, NEW r \in Sessions, NEW cmd \in Data \cup {Disconnect},
           Push(r, cmd) \/ Send(r, cmd), UNCHANGED <<pump, disc>>, NEW s \in Sessions,
           EndOrdered(s)
    PROVE  EndOrdered(s)'
<1>1. CASE queue' = queue
    BY <1>1 DEF EndOrdered, Receiving
<1>2. CASE queue' # queue
    <2>1. queue' = [queue EXCEPT ![r] = Append(@, cmd)]
        BY <1>2 DEF Push, Send, chanVars
    <2>2. queue[s] \in Seq(Data \cup {Disconnect})
        BY DEF SshTypeOK
    <2>3. Contains(queue[s], Disconnect) => Contains(queue'[s], Disconnect)
        BY <2>1, <2>2, ContainsAppend DEF SshTypeOK
    <2> QED
        BY <2>3 DEF EndOrdered, Receiving
<1> QED
    BY <1>1, <1>2

LEMMA EndStaysOrdered ==
    ASSUME SshInv, [SshNext]_sshVars, NEW s \in Sessions, EndOrdered(s)
    PROVE  EndOrdered(s)'
<1>0. SshTypeOK /\ Teardown
    BY DEF SshInv
<1>1. CASE UNCHANGED <<queue, pump, disc>>
    BY <1>1 DEF EndOrdered, Receiving
<1>2. CASE Commands
    <2>1. ASSUME NEW r \in Sessions, NEW i \in Inputs, Write(r, i) PROVE EndOrdered(s)'
        BY <1>0, <2>1, PushKeepsOrder DEF Write, pumpVars, Data
    <2>2. ASSUME NEW r \in Sessions, Close(r) PROVE EndOrdered(s)'
        BY <1>0, <2>2, PushKeepsOrder DEF Close, pumpVars
    <2>3. CASE ResetSessions \/ (\E h \in Hosts : DeleteHost(h))
               \/ \E r \in Sessions, h \in Hosts : ConnectHost(r, h)
        BY <1>1, <2>3 DEF ResetSessions, DeleteHost, ConnectHost, chanVars, pumpVars
    <2> QED
        BY <1>2, <2>1, <2>2, <2>3 DEF Commands
<1>3. CASE Sweep
    <2>1. ASSUME NEW r \in Sessions, SweepSend(r) PROVE EndOrdered(s)'
        BY <1>0, <2>1, PushKeepsOrder DEF SweepSend, pumpVars
    <2> QED
        BY <1>1, <1>3, <2>1 DEF Sweep, SweepDone, chanVars, pumpVars
<1>4. ASSUME NEW r \in Sessions, Connect(r) PROVE EndOrdered(s)'
    <2>1. CASE EstablishFails(r) \/ InsertEntry(r)
        BY <1>1, <2>1 DEF EstablishFails, InsertEntry, chanVars, pumpVars
    <2>2. CASE SendHook(r)
        BY <1>0, <2>2, PushKeepsOrder DEF SendHook, Data
    <2>3. CASE SpawnPump(r)
        <3>1. pump[r] = "none"
            BY <1>0, <2>3 DEF SpawnPump, Teardown
        <3> QED
            BY <1>0, <2>3, <3>1 DEF SpawnPump, EndOrdered, Receiving, chanVars, SshTypeOK
    <2> QED
        BY <1>4, <2>1, <2>2, <2>3 DEF Connect
<1>5. ASSUME NEW r \in Sessions, X11Export(r) PROVE EndOrdered(s)'
    BY <1>0, <1>5, PushKeepsOrder DEF X11Export, pumpVars, Data
<1>6. ASSUME NEW r \in Sessions, Pump(r) PROVE EndOrdered(s)'
    <2>1. CASE DrainOne(r)
        <3>1. queue[r] \in Seq(Data \cup {Disconnect}) /\ queue[r] # <<>>
            BY <1>0, <2>1 DEF DrainOne, SshTypeOK
        <3>2. Contains(queue[r], Disconnect) /\ Head(queue[r]) # Disconnect =>
                  Contains(Tail(queue[r]), Disconnect)
            BY <3>1, ContainsTail
        <3> QED
            BY <1>0, <2>1, <3>2 DEF DrainOne, EndOrdered, Receiving, SshTypeOK
    <2>2. CASE Return(r) /\ pump[r] \in {"drain", "io"}
        BY <1>0, <2>2 DEF Return, EndOrdered, Receiving, SshTypeOK
    <2>3. CASE DrainEnd(r) /\ ~disc[r]
        BY <1>0, <2>3 DEF DrainEnd, EndOrdered, Receiving, chanVars, SshTypeOK
    <2>4. CASE PumpIo(r) /\ ~Return(r)
        BY <1>0, <2>4 DEF PumpIo, EndOrdered, Receiving, chanVars, SshTypeOK
    <2>5. CASE ClearAlive(r) \/ RemoveEntry(r) \/ EmitExit(r)
        BY <1>0, <2>5
        DEF ClearAlive, RemoveEntry, EmitExit, EndOrdered, Receiving, chanVars, SshTypeOK
    <2> QED
        BY <1>6, <2>1, <2>2, <2>3, <2>4, <2>5 DEF Pump, DrainEnd, PumpIo
<1>7. CASE UNCHANGED sshVars
    BY <1>1, <1>7 DEF sshVars
<1> QED
    BY <1>2, <1>3, <1>4, <1>5, <1>6, <1>7 DEF SshNext

(* Nothing but the command itself begins an attempt.                        *)
LEMMA BegunBefore ==
    ASSUME SshInv, [SshNext]_sshVars, NEW s \in Sessions, Begun(s)',
           ~\E h \in Hosts : ConnectHost(s, h)
    PROVE  Begun(s)
<1>0. SshTypeOK
    BY DEF SshInv
<1>1. CASE UNCHANGED conn /\ entries' \subseteq entries
    BY <1>1 DEF Begun
<1>2. CASE Commands
    <2>1. ASSUME NEW r \in Sessions \ {s}, NEW h \in Hosts, ConnectHost(r, h) PROVE Begun(s)
        BY <1>0, <2>1 DEF ConnectHost, Begun, SshTypeOK
    <2>2. CASE ResetSessions \/ (\E h \in Hosts : DeleteHost(h))
               \/ \E r \in Sessions : Close(r) \/ \E i \in Inputs : Write(r, i)
        BY <1>1, <2>2 DEF ResetSessions, DeleteHost, Close, Write, connVars
    <2> QED
        BY <1>2, <2>1, <2>2 DEF Commands
<1>3. CASE Sweep
    BY <1>1, <1>3 DEF Sweep, SweepDone, SweepSend, connVars
<1>4. ASSUME NEW r \in Sessions, Connect(r) PROVE Begun(s)
    BY <1>0, <1>4
    DEF Connect, EstablishFails, InsertEntry, SendHook, SpawnPump, Begun, SshTypeOK
<1>5. ASSUME NEW r \in Sessions, X11Export(r) PROVE Begun(s)
    BY <1>1, <1>5 DEF X11Export, connVars
<1>6. ASSUME NEW r \in Sessions, Pump(r) PROVE Begun(s)
    BY <1>1, <1>6
    DEF Pump, DrainOne, DrainEnd, PumpIo, Return, ClearAlive, RemoveEntry, EmitExit, connVars
<1>7. CASE UNCHANGED sshVars
    BY <1>1, <1>7 DEF sshVars
<1> QED
    BY <1>2, <1>3, <1>4, <1>5, <1>6, <1>7 DEF SshNext

LEMMA TracedThrough ==
    ASSUME SshInv, TabInv, [SshNext]_sshVars, NEW s \in Sessions, UNCHANGED <<tab, orphaned>>,
           s \in requests => s \in requests' \/ (Begun(s)' => EndOrdered(s)'),
           \A h \in Hosts : ConnectHost(s, h) =>
               (\E t \in Tabs : tab[t].open /\ tab[t].req = s) \/ s \in orphaned
    PROVE  Traced(s)'
<1>1. CASE \E h \in Hosts : ConnectHost(s, h)
    BY <1>1 DEF Traced
<1>2. CASE ~\E h \in Hosts : ConnectHost(s, h)
    <2>1. Begun(s)' => Begun(s)
        BY <1>2, BegunBefore
    <2>2. EndOrdered(s) => EndOrdered(s)'
        BY EndStaysOrdered
    <2>3. Traced(s)
        BY DEF TabInv
    <2> QED
        BY <2>1, <2>2, <2>3 DEF Traced
<1> QED
    BY <1>1, <1>2

(* A step of the back end that reports no exit.                             *)
LEMMA BackStep ==
    ASSUME SshInv, TabInv, [SshNext]_sshVars,
           UNCHANGED <<tab, listeners, orphaned>>, TabTypeOK',
           \A t \in Tabs : NewsOK(t)', \A s \in Sessions : Traced(s)'
    PROVE  TabInv'
<1>1. ASSUME NEW t \in Tabs PROVE PhaseOK(t)' /\ GivenUpOK(t)' /\ ListenOK(t)'
    BY TabKept
<1>2. \A t, u \in Tabs : t # u => Own(t, u)'
    BY DEF TabInv, Own
<1> QED
    BY <1>1, <1>2 DEF TabInv

LEMMA QuietBackStep ==
    ASSUME SshInv, TabInv, [SshNext]_sshVars, UNCHANGED <<pageVars, exits>>,
           \A s \in Sessions, h \in Hosts : ConnectHost(s, h) =>
               (\E t \in Tabs : tab[t].open /\ tab[t].req = s) \/ s \in orphaned
    PROVE  TabInv'
<1>1. TabTypeOK'
    BY DEF TabInv, TabTypeOK, pageVars
<1>2. \A t \in Tabs : NewsOK(t)'
    BY NewsKept DEF pageVars
<1>3. \A s \in Sessions : Traced(s)'
    BY TracedThrough DEF pageVars
<1> QED
    BY <1>1, <1>2, <1>3, BackStep DEF pageVars

LEMMA StartConnectInv ==
    ASSUME SshInv, TabInv, NEW t \in Tabs, StartConnect(t)
    PROVE  TabInv'
<1>1. [SshNext]_sshVars
    BY TabStepIsSshStep DEF TabNext, Page
<1>2. exits' = exits
    BY DEF StartConnect, ConnectHost, pumpVars
<1>3. PhaseOK(t) /\ tab[t] \in TabRecord
    BY DEF TabInv, TabTypeOK
<1>4. tab[t].req \in Sessions
    BY <1>3 DEF StartConnect, PhaseOK, TabRecord
<1>5. ASSUME NEW s \in Sessions, NEW h \in Hosts, ConnectHost(s, h)
      PROVE  s = tab[t].req
    BY <1>4, <1>5 DEF StartConnect, ConnectHost, SshInv, SshTypeOK
<1>6. tab[t].open \/ tab[t].req \in orphaned
    BY <1>3 DEF StartConnect, PhaseOK
<1> QED
    BY <1>1, <1>2, <1>5, <1>6, QuietBackStep DEF StartConnect

(* The exit goes to whoever listens, and is missed by the tab that does not *)
(* listen yet.                                                              *)
LEMMA EmitExitEventInv ==
    ASSUME SshInv, TabInv, NEW s \in Sessions, EmitExitEvent(s)
    PROVE  TabInv'
<1>1. [SshNext]_sshVars
    BY TabStepIsSshStep DEF TabNext, BackEnd
<1>2. /\ events' = events \cup {l \in listeners : l[2] = s}
      /\ missed' = IF \E l \in listeners : l[2] = s THEN missed ELSE missed \cup {s}
      /\ UNCHANGED <<tab, listeners, requests, replies, orphaned>>
    BY DEF EmitExitEvent
<1>3. exits'[s] = 1 /\ \A r \in Sessions \ {s} : exits'[r] = exits[r]
    <2>1. exits[s] # 1 /\ exits[s] \in 0..1
        BY DEF EmitExitEvent, EmitExit, SshInv, SshTypeOK, Teardown
    <2> QED
        BY <2>1 DEF EmitExitEvent, EmitExit, SshInv, SshTypeOK
<1>4. TabTypeOK'
    BY <1>2 DEF TabInv, TabTypeOK
<1>5. ASSUME NEW t \in Tabs PROVE NewsOK(t)'
    <2>1. NewsOK(t) /\ ListenOK(t) /\ PhaseOK(t) /\ tab[t] \in TabRecord
        BY DEF TabInv, TabTypeOK
    <2>2. ASSUME NEW r \in Sessions, <<t, r>> \in events' PROVE exits'[r] = 1
        BY <1>2, <1>3, <2>1, <2>2 DEF NewsOK
    <2>3. ASSUME tab[t].ph \in {"invoking", "listening"}, exits'[tab[t].req] = 1
          PROVE  tab[t].req \in missed'
        <3>1. CASE tab[t].req # s
            BY <1>2, <1>3, <2>1, <2>3, <3>1 DEF NewsOK, PhaseOK, TabRecord
        <3>2. CASE tab[t].req = s
            <4>1. ASSUME NEW l \in listeners, l[2] = s PROVE FALSE
                <5>1. PICK u \in Tabs, r \in Sessions : l = <<u, r>>
                    BY DEF TabInv, TabTypeOK
                <5>2. <<u, s>> \in listeners
                    BY <4>1, <5>1
                <5>3. ListenOK(u) /\ (u # t => Own(u, t))
                    BY DEF TabInv
                <5>4. tab[u].sid = s /\ tab[u].ph \in {"listened", "settled"}
                    BY <5>2, <5>3 DEF ListenOK
                <5> QED
                    BY <2>3, <3>2, <5>3, <5>4, TabAssumption DEF Own
            <4> QED
                BY <1>2, <3>2, <4>1
        <3> QED
            BY <3>1, <3>2
    <2>4. ASSUME tab[t].ph \in {"listened", "settled"}, tab[t].open, ~tab[t].dead,
                 exits'[tab[t].sid] = 1
          PROVE  <<t, tab[t].sid>> \in events' \/ tab[t].sid \in missed'
        <3>1. <<t, tab[t].sid>> \in listeners /\ tab[t].sid \in Sessions
            BY <2>1, <2>4 DEF ListenOK, TabInv, TabTypeOK
        <3>2. CASE tab[t].sid # s
            BY <1>2, <1>3, <2>1, <2>4, <3>1, <3>2 DEF NewsOK
        <3>3. CASE tab[t].sid = s
            BY <1>2, <3>1, <3>3
        <3> QED
            BY <3>2, <3>3
    <2> QED
        BY <1>2, <2>2, <2>3, <2>4 DEF NewsOK
<1>6. ASSUME NEW r \in Sessions, NEW h \in Hosts, ConnectHost(r, h) PROVE FALSE
    BY <1>3, <1>6 DEF ConnectHost, EmitExitEvent, EmitExit, pumpVars, SshInv, SshTypeOK, Teardown
<1>7. \A r \in Sessions : Traced(r)'
    BY <1>1, <1>2, <1>6, TracedThrough
<1> QED
    BY <1>1, <1>2, <1>4, <1>5, <1>7, BackStep

(* ssh_close: the request is replaced by a Disconnect in the queue.         *)
LEMMA HandleCloseInv ==
    ASSUME SshInv, TabInv, NEW s \in Sessions, HandleClose(s)
    PROVE  TabInv'
<1>1. [SshNext]_sshVars
    BY TabStepIsSshStep DEF TabNext, Main
<1>2. /\ UNCHANGED <<tab, listeners, events, replies, orphaned, missed, exits, conn, entries, pump>>
      /\ requests' = requests \ {s} /\ Close(s)
    BY DEF HandleClose, Close, pumpVars, connVars
<1>3. TabTypeOK'
    BY <1>2 DEF TabInv, TabTypeOK
<1>4. \A t \in Tabs : NewsOK(t)'
    BY <1>2, NewsKept
<1>5. Begun(s)' => EndOrdered(s)'
    <2>1. SUFFICES ASSUME Begun(s)', Receiving(s) PROVE Contains(queue'[s], Disconnect)
        BY <1>2 DEF EndOrdered, Receiving
    <2>2. s \in entries
        BY <1>2, <2>1 DEF Begun, Close
    <2>3. queue[s] \in Seq(Data \cup {Disconnect}) /\ queue' = [queue EXCEPT ![s] = Append(@, Disconnect)]
        BY <1>2, <2>1, <2>2 DEF Close, Send, Push, SshInv, SshTypeOK
    <2>4. queue'[s] = Append(queue[s], Disconnect)
        BY <2>3 DEF SshInv, SshTypeOK
    <2> QED
        BY <2>3, <2>4, ContainsAppend
<1>6. ASSUME NEW r \in Sessions, NEW h \in Hosts, ConnectHost(r, h) PROVE FALSE
    BY <1>2, <1>6 DEF ConnectHost, SshInv, SshTypeOK
<1>7. ASSUME NEW r \in Sessions PROVE Traced(r)'
    BY <1>1, <1>2, <1>5, <1>6, TracedThrough
<1> QED
    BY <1>1, <1>2, <1>3, <1>4, <1>7, BackStep

LEMMA FinishSweepInv ==
    ASSUME SshInv, TabInv, FinishSweep
    PROVE  TabInv'
<1>1. [SshNext]_sshVars
    BY TabStepIsSshStep DEF TabNext, Main
<1>2. /\ UNCHANGED <<tab, listeners, events, requests, orphaned, missed, exits, conn>>
      /\ replies' = replies \cup ({sweep.host} \ {None})
    BY DEF FinishSweep, SweepDone, connVars, pumpVars
<1>3. TabTypeOK'
    BY <1>2 DEF TabInv, TabTypeOK, SshInv, SshTypeOK
<1>4. \A t \in Tabs : NewsOK(t)'
    BY <1>2, NewsKept
<1>5. ASSUME NEW r \in Sessions, NEW h \in Hosts, ConnectHost(r, h) PROVE FALSE
    BY <1>2, <1>5 DEF ConnectHost, SshInv, SshTypeOK
<1>6. \A s \in Sessions : Traced(s)'
    BY <1>1, <1>2, <1>5, TracedThrough
<1> QED
    BY <1>1, <1>2, <1>3, <1>4, <1>6, BackStep

-----------------------------------------------------------------------------
(* TermTab: theorems *)

LEMMA InitTabInv == TabInit => TabInv
<1> SUFFICES ASSUME TabInit PROVE TabInv
    OBVIOUS
<1>1. \A t \in Tabs : tab[t] = NoTab
    BY DEF TabInit
<1>2. TabTypeOK
    <2>1. NoTab \in TabRecord
        BY DEF NoTab, TabRecord, Phase
    <2> QED
        BY <2>1 DEF TabInit, TabTypeOK
<1>3. \A t \in Tabs : PhaseOK(t) /\ GivenUpOK(t) /\ ListenOK(t) /\ NewsOK(t)
    BY <1>1 DEF TabInit, PhaseOK, GivenUpOK, ListenOK, NewsOK, NoTab
<1>4. \A t, u \in Tabs : t # u => Own(t, u)
    BY <1>1 DEF Own, NoTab
<1>5. \A s \in Sessions : Traced(s)
    BY DEF TabInit, SshInit, Traced, Begun
<1> QED
    BY <1>2, <1>3, <1>4, <1>5 DEF TabInv

LEMMA StepTabInv == SshInv /\ TabInv /\ [TabNext]_tabVars => TabInv'
<1> SUFFICES ASSUME SshInv, TabInv, [TabNext]_tabVars PROVE TabInv'
    OBVIOUS
<1>0. [SshNext]_sshVars
    BY TabStepIsSshStep
<1>q. ASSUME UNCHANGED pageVars, UNCHANGED <<conn, exits>> PROVE TabInv'
    <2>1. ASSUME NEW r \in Sessions, NEW h \in Hosts, ConnectHost(r, h) PROVE FALSE
        BY <1>q, <2>1 DEF ConnectHost, SshInv, SshTypeOK
    <2> QED
        BY <1>0, <1>q, <2>1, QuietBackStep
<1>1. CASE UNCHANGED tabVars
    BY <1>q, <1>1 DEF tabVars, sshVars
<1>2. ASSUME NEW t \in Tabs, User(t) PROVE TabInv'
    <2>1. CASE UserCloses(t)
        BY <2>1, CloseTabsInv DEF UserCloses
    <2> QED
        BY <1>2, <2>1, ReconnectInv, OpenTabInv DEF User
<1>3. ASSUME NEW t \in Tabs, Page(t) PROVE TabInv'
    BY <1>3, StartConnectInv, ResultOkInv, ResultErrInv, RegisterExitInv, AttachedInv,
       HandleExitInv
    DEF Page
<1>4. ASSUME NEW h \in Hosts, UserDeletes(h) PROVE TabInv'
    BY <1>q, <1>4 DEF UserDeletes, DeleteHost, connVars, pumpVars
<1>5. ASSUME NEW h \in Hosts, HostDeleted(h) PROVE TabInv'
    <2>1. replies' \subseteq replies
        BY <1>5 DEF HostDeleted
    <2> DEFINE T == {t \in Tabs : tab[t].open /\ tab[t].host = h}
    <2>2. T \in SUBSET Tabs /\ \A t \in T : tab[t].open
        OBVIOUS
    <2>3. CloseTabs(T) /\ UNCHANGED <<sshVars, events, missed>>
        BY <1>5 DEF HostDeleted
    <2> HIDE DEF T
    <2> QED
        BY <2>1, <2>2, <2>3, CloseTabsInv
<1>6. ASSUME NEW s \in Sessions, BackEnd(s) PROVE TabInv'
    <2>1. CASE EmitExitEvent(s)
        BY <2>1, EmitExitEventInv
    <2>2. CASE /\ Connect(s) \/ DrainOne(s) \/ DrainEnd(s) \/ PumpIo(s) \/ ClearAlive(s)
                  \/ RemoveEntry(s)
               /\ UNCHANGED pageVars
        <3>1. exits' = exits
            BY <2>2
            DEF Connect, EstablishFails, InsertEntry, SendHook, SpawnPump, DrainOne,
                DrainEnd, PumpIo, Return, ClearAlive, RemoveEntry, pumpVars
        <3>2. ASSUME NEW r \in Sessions, NEW h \in Hosts, ConnectHost(r, h) PROVE FALSE
            BY <2>2, <3>2
            DEF ConnectHost, Connect, EstablishFails, InsertEntry, SendHook, SpawnPump,
                DrainOne, DrainEnd, PumpIo, Return, ClearAlive, RemoveEntry, connVars,
                SshInv, SshTypeOK
        <3> QED
            BY <1>0, <2>2, <3>1, <3>2, QuietBackStep
    <2> QED
        BY <1>6, <2>1, <2>2 DEF BackEnd
<1>7. CASE Main
    <2>1. ASSUME NEW s \in Sessions, SweepSend(s), UNCHANGED pageVars PROVE TabInv'
        BY <1>q, <2>1 DEF SweepSend, connVars, pumpVars
    <2> QED
        BY <1>7, <2>1, FinishSweepInv, HandleCloseInv DEF Main
<1> QED
    BY <1>1, <1>2, <1>3, <1>4, <1>5, <1>6, <1>7 DEF TabNext

LEMMA TabInvariant == TabSpec => [](SshInv /\ TabInv)
<1>1. TabInit => SshInv /\ TabInv
    BY InitSshInv, InitTabInv DEF TabInit
<1>2. (SshInv /\ TabInv) /\ [TabNext]_tabVars => (SshInv /\ TabInv)'
    BY StepTabInv, StepSshInv, TabStepIsSshStep
<1> QED
    BY <1>1, <1>2, PTL DEF TabSpec

(* closeTab sends nothing for a dead tab, and rightly: the session it knows *)
(* has left the map, whatever the attempts and exits were before.           *)
THEOREM DeadTabsHaveNoSession == TabSpec => []DeadTabHasNoSession
<1>1. TabInv => DeadTabHasNoSession
    BY DEF TabInv, GivenUpOK, DeadTabHasNoSession
<1> QED
    BY <1>1, TabInvariant, PTL

(* The page loses a session in no other way than by closing its tab while   *)
(* connect_host is in flight.                                               *)
THEOREM NoOtherOrphansEver == TabSpec => []NoOtherOrphans
<1>1. TabInv => NoOtherOrphans
    BY DEF TabInv, Traced, Begun, EndOrdered, NoOtherOrphans
<1> QED
    BY <1>1, TabInvariant, PTL

(* A tab that looks alive is, or learns of the end, or had missed it.       *)
THEOREM LiveTabsAreLive == TabSpec => []LiveTabIsLive
<1>1. SshInv /\ TabInv => LiveTabIsLive
    <2> SUFFICES ASSUME SshInv, TabInv, NEW t \in Tabs,
                        tab[t].ph = "settled", tab[t].open, ~tab[t].dead,
                        exits[tab[t].sid] # 0
                 PROVE  <<t, tab[t].sid>> \in events \/ tab[t].sid \in missed
        BY DEF LiveTabIsLive
    <2>1. ListenOK(t) /\ NewsOK(t)
        BY DEF TabInv
    <2>2. tab[t].sid \in Sessions
        BY <2>1 DEF ListenOK, TabInv, TabTypeOK
    <2>3. exits[tab[t].sid] = 1
        BY <2>2 DEF SshInv, SshTypeOK
    <2> QED
        BY <2>1, <2>3 DEF NewsOK
<1> QED
    BY <1>1, TabInvariant, PTL

(* A dead tab has its button, except the one that shows itself live.        *)
THEOREM DeadTabsOfferReconnect == TabSpec => []DeadTabOffersReconnect
<1>1. TabInv => DeadTabOffersReconnect
    BY DEF TabInv, GivenUpOK, DeadTabOffersReconnect
<1> QED
    BY <1>1, TabInvariant, PTL

(* Seen from the back end the tabs are one of its users: every behaviour of *)
(* the composition is one of SshSession, so that what is proved of the back *)
(* end holds under the tabs too.                                            *)
THEOREM TabsImplementSessions == TabSpec => SshInit /\ [][SshNext]_sshVars
<1>1. TabInit => SshInit
    BY DEF TabInit
<1>2. SshInv /\ TabInv /\ [TabNext]_tabVars => [SshNext]_sshVars
    BY TabStepIsSshStep
<1> QED
    BY <1>1, <1>2, TabInvariant, PTL DEF TabSpec

-----------------------------------------------------------------------------
(* SerialPort *)

SerialTypeOK ==
    /\ call \in [Consoles -> {"none", "asked", "refused", "opened", "named", "failed"}]
    /\ view \in [Consoles -> {"none", "open", "hasty", "closed", "gone"}]
    /\ worker \in [Consoles -> {"none", "drain", "read", "leaving", "ended"}]
    /\ cmds \in [Consoles -> Seq(Keys \cup {Break, CloseCmd})]
    /\ typed \in [Consoles -> Seq(Keys)]
    /\ sent \in [Consoles -> Seq(Keys)]

(* A worker exists only for a console that serial_connect has opened, and   *)
(* nothing travels before there is one.                                     *)
WorkerOpened ==
    \A t \in Consoles :
        /\ call[t] \in {"none", "asked", "refused", "failed"} => worker[t] = "none"
        /\ worker[t] = "none" => cmds[t] = <<>> /\ typed[t] = <<>> /\ sent[t] = <<>>

(* LiveConsoleIsLive from the moment the tab is there, before it has an id. *)
EndIsNews ==
    \A t \in Consoles :
        view[t] = "open" /\ worker[t] \in {"leaving", "ended"} =>
            t \in news \cup unheard \cup dead

SerialInv == SerialTypeOK /\ WorkerOpened /\ EndIsNews /\ TypedIsSent

LEMMA InitSerialInv == SerialInit => SerialInv
<1> SUFFICES ASSUME SerialInit PROVE SerialInv
    OBVIOUS
<1> DEFINE e == <<>>
<1>0. /\ cmds = [t \in Consoles |-> e] /\ typed = [t \in Consoles |-> e]
      /\ sent = [t \in Consoles |-> e]
    BY DEF SerialInit
<1>e. (\A X : e \in Seq(X)) /\ e \o e = e /\ Only(e, Keys) = e
    BY EmptySeq, OnlyEmpty
<1> HIDE DEF e
<1>1. SerialTypeOK
    BY <1>0, <1>e DEF SerialInit, SerialTypeOK
<1>2. WorkerOpened
    BY <1>0 DEF SerialInit, WorkerOpened, e
<1>3. EndIsNews
    BY DEF SerialInit, EndIsNews
<1>4. TypedIsSent
    <2>1. IsPrefix(e, e \o e)
        BY <1>e, PrefixOfConcat
    <2>2. ASSUME NEW t \in Consoles
          PROVE  /\ IsPrefix(sent[t], typed[t])
                 /\ sent[t] \o Only(cmds[t], Keys) = typed[t]
        BY <1>0, <1>e, <2>1
    <2> QED
        BY <2>2 DEF TypedIsSent
<1> QED
    BY <1>1, <1>2, <1>3, <1>4 DEF SerialInv

(* One console's share of the flow, when the others are left alone.         *)
LEMMA FlowRebuilt ==
    ASSUME SerialTypeOK, TypedIsSent, NEW t \in Consoles,
           \A u \in Consoles \ {t} :
               /\ sent'[u] = sent[u] /\ typed'[u] = typed[u]
               /\ worker'[u] \in {"drain", "read"} =>
                      worker[u] \in {"drain", "read"} /\ cmds'[u] = cmds[u],
           IsPrefix(sent'[t], typed'[t]),
           worker'[t] \in {"drain", "read"} => sent'[t] \o Only(cmds'[t], Keys) = typed'[t]
    PROVE  TypedIsSent'
<1>1. ASSUME NEW u \in Consoles \ {t}
      PROVE  /\ IsPrefix(sent'[u], typed'[u])
             /\ worker'[u] \in {"drain", "read"} =>
                    sent'[u] \o Only(cmds'[u], Keys) = typed'[u]
    BY DEF TypedIsSent
<1> QED
    BY <1>1 DEF TypedIsSent

(* The flow of a console is what it was, or the worker has left its loop.   *)
LEMMA FlowKept ==
    ASSUME TypedIsSent, UNCHANGED <<sent, typed>>,
           \A u \in Consoles : worker'[u] \in {"drain", "read"} =>
               worker[u] \in {"drain", "read"} /\ Only(cmds'[u], Keys) = Only(cmds[u], Keys)
    PROVE  TypedIsSent'
BY DEF TypedIsSent

LEMMA PrefixGrows ==
    ASSUME NEW X, NEW p \in Seq(X), NEW q \in Seq(X), NEW x \in X, IsPrefix(p, q)
    PROVE  IsPrefix(p, Append(q, x))
<1> DEFINE r == Append(q, x)
           n == Len(p)
<1>1. /\ n \in Nat /\ Len(q) \in Nat /\ Len(r) = Len(q) + 1
      /\ r \in Seq(X) /\ \A i \in 1..Len(q) : r[i] = q[i]
    BY AppendProperties, LenProperties
<1>2. n <= Len(q) /\ SubSeq(p, 1, n) = SubSeq(q, 1, n)
    BY DEF IsPrefix
<1> HIDE DEF r, n
<1>3. /\ SubSeq(q, 1, n) \in Seq(X) /\ Len(SubSeq(q, 1, n)) = n
      /\ \A i \in 1..n : SubSeq(q, 1, n)[i] = q[i]
    <2>1. \A i \in 1..n : q[i] \in X
        BY <1>1, <1>2
    <2> QED
        BY <1>1, <2>1, SubSeqProperties
<1>4. /\ SubSeq(r, 1, n) \in Seq(X) /\ Len(SubSeq(r, 1, n)) = n
      /\ \A i \in 1..n : SubSeq(r, 1, n)[i] = r[i]
    <2>1. \A i \in 1..n : r[i] \in X
        BY <1>1, <1>2
    <2> QED
        BY <1>1, <2>1, SubSeqProperties
<1>5. \A i \in 1..n : r[i] = q[i]
    BY <1>1, <1>2
<1>6. SubSeq(r, 1, n) = SubSeq(q, 1, n)
    <2> DEFINE c == SubSeq(r, 1, n)
               d == SubSeq(q, 1, n)
    <2>1. c \in Seq(X) /\ d \in Seq(X) /\ Len(c) = Len(d) /\ \A i \in 1..Len(c) : c[i] = d[i]
        BY <1>3, <1>4, <1>5
    <2> HIDE DEF c, d
    <2>2. c = d
        BY <2>1, SeqEqual
    <2> QED
        BY <2>2 DEF c, d
<1>7. n <= Len(r)
    BY <1>1, <1>2
<1> QED
    BY <1>2, <1>6, <1>7 DEF IsPrefix, n, r

(* What the page does without a worker: openSerial and the exit handler.    *)
LEMMA PageSerialInv ==
    ASSUME SerialInv, NEW t \in Consoles,
           OpenSerial(t) \/ Resume(t) \/ Refuse(t) \/ Listen(t) \/ HearExit(t)
    PROVE  SerialInv'
<1> USE DEF SerialInv
<1>1. UNCHANGED <<worker, cmds, typed, sent, unheard>>
    BY DEF OpenSerial, Resume, Refuse, Listen, HearExit, flowVars
<1>2. SerialTypeOK'
    BY <1>1 DEF OpenSerial, Resume, Refuse, Listen, HearExit, Goes, SerialTypeOK
<1>3. WorkerOpened'
    BY <1>1 DEF OpenSerial, Resume, Refuse, Listen, HearExit, Goes, WorkerOpened, SerialTypeOK
<1>4. EndIsNews'
    BY <1>1
    DEF OpenSerial, Resume, Refuse, Listen, HearExit, Goes, EndIsNews, WorkerOpened, SerialTypeOK
<1>5. TypedIsSent'
    BY <1>1, FlowKept
<1> QED
    BY <1>2, <1>3, <1>4, <1>5

(* The worker starts on an empty queue.                                     *)
LEMMA SerialConnectInv ==
    ASSUME SerialInv, NEW t \in Consoles, SerialConnect(t)
    PROVE  SerialInv'
<1> USE DEF SerialInv
<1>1. UNCHANGED <<cmds, typed, sent, unheard, news, view, dead>>
    BY DEF SerialConnect, flowVars
<1>2. SerialTypeOK'
    BY <1>1 DEF SerialConnect, SerialTypeOK
<1>3. WorkerOpened'
    BY <1>1 DEF SerialConnect, WorkerOpened, SerialTypeOK
<1>4. EndIsNews'
    BY <1>1 DEF SerialConnect, EndIsNews, SerialTypeOK
<1>5. TypedIsSent'
    <2>1. /\ IsPrefix(sent[t], typed[t])
          /\ cmds[t] = <<>> /\ typed[t] = <<>> /\ sent[t] = <<>>
        BY DEF SerialConnect, WorkerOpened, TypedIsSent
    <2> DEFINE e == <<>>
    <2>2. e \o e = e /\ Only(e, Keys) = e
        BY EmptySeq, OnlyEmpty
    <2>3. cmds[t] = e /\ typed[t] = e /\ sent[t] = e
        BY <2>1
    <2> HIDE DEF e
    <2>4. sent[t] \o Only(cmds[t], Keys) = typed[t]
        BY <2>2, <2>3
    <2>5. \A u \in Consoles \ {t} : worker'[u] = worker[u]
        BY DEF SerialConnect, SerialTypeOK
    <2> QED
        BY <1>1, <2>1, <2>4, <2>5, FlowRebuilt
<1> QED
    BY <1>2, <1>3, <1>4, <1>5

(* A key that the worker's receiver takes is noted as typed.                *)
LEMMA SerialWriteInv ==
    ASSUME SerialInv, NEW t \in Consoles, NEW k \in Keys, SerialWrite(t, k)
    PROVE  SerialInv'
<1> USE DEF SerialInv
<1>1. UNCHANGED <<call, view, dead, news, worker, sent, unheard>>
    BY DEF SerialWrite, pageSide
<1>2. CASE cmds' = cmds
    <2>1. typed' = typed
        BY <1>2 DEF SerialWrite
    <2>2. SerialTypeOK' /\ WorkerOpened' /\ EndIsNews'
        BY <1>1, <1>2, <2>1 DEF SerialTypeOK, WorkerOpened, EndIsNews
    <2>3. TypedIsSent'
        BY <1>1, <1>2, <2>1, FlowKept
    <2> QED
        BY <2>2, <2>3
<1>3. CASE cmds' # cmds
    <2>1. /\ cmds' = [cmds EXCEPT ![t] = Append(@, k)] /\ Hears(t)
          /\ typed' = [typed EXCEPT ![t] = Append(@, k)]
        BY <1>3 DEF SerialWrite, Tell
    <2>2. /\ cmds[t] \in Seq(Keys \cup {Break, CloseCmd})
          /\ typed[t] \in Seq(Keys) /\ sent[t] \in Seq(Keys)
        BY DEF SerialTypeOK
    <2>3. Append(cmds[t], k) \in Seq(Keys \cup {Break, CloseCmd}) /\ Append(typed[t], k) \in Seq(Keys)
        BY <2>2, AppendTyped
    <2>4. SerialTypeOK'
        BY <1>1, <2>1, <2>3 DEF SerialTypeOK
    <2>5. WorkerOpened'
        BY <1>1, <2>1 DEF WorkerOpened, Hears, SerialTypeOK
    <2>6. EndIsNews'
        BY <1>1 DEF EndIsNews
    <2>7. TypedIsSent'
        <3> DEFINE u == sent[t]
                   q == cmds[t]
                   o == Only(cmds[t], Keys)
        <3>1. cmds'[t] = Append(q, k) /\ typed'[t] = Append(typed[t], k)
            BY <2>1 DEF SerialTypeOK
        <3>2. o \in Seq(Keys) /\ u \in Seq(Keys) /\ q \in Seq(Keys \cup {Break, CloseCmd})
            BY <2>2, OnlyTyped
        <3>3. Only(Append(q, k), Keys) = Append(Only(q, Keys), k)
            <4>1. q \in Seq(Keys \cup {Break, CloseCmd}) /\ k \in Keys \cup {Break, CloseCmd}
                BY <3>2
            <4> HIDE DEF q
            <4>2. Only(Append(q, k), Keys) =
                      IF k \in Keys THEN Append(Only(q, Keys), k) ELSE Only(q, Keys)
                BY <4>1, OnlyAppend
            <4> QED
                BY <4>2
        <3>4. u \o Append(o, k) = Append(u \o o, k)
            <4> HIDE DEF u, o
            <4> QED
                BY <3>2, QueuedAtEnd
        <3>5. worker[t] \in {"drain", "read"} => u \o o = typed[t]
            BY DEF TypedIsSent
        <3>6. worker'[t] \in {"drain", "read"} => sent'[t] \o Only(cmds'[t], Keys) = typed'[t]
            <4>1. Only(cmds'[t], Keys) = Append(o, k)
                BY <3>1, <3>3
            <4> HIDE DEF o
            <4> QED
                BY <1>1, <3>1, <3>4, <3>5, <4>1
        <3>7. IsPrefix(sent'[t], typed'[t])
            <4>1. IsPrefix(sent[t], typed[t])
                BY DEF TypedIsSent
            <4> QED
                BY <1>1, <2>2, <3>1, <4>1, PrefixGrows
        <3>8. \A c \in Consoles \ {t} : cmds'[c] = cmds[c] /\ typed'[c] = typed[c]
            BY <2>1 DEF SerialTypeOK
        <3> QED
            BY <1>1, <3>6, <3>7, <3>8, FlowRebuilt
    <2> QED
        BY <2>4, <2>5, <2>6, <2>7
<1> QED
    BY <1>2, <1>3

(* Break and Close join the queue, and are no keys.                         *)
LEMMA OrderInv ==
    ASSUME SerialInv, NEW x \in {Break, CloseCmd}, NEW R \in SUBSET Consoles,
           \A t \in R : Hears(t),
           cmds' = [t \in Consoles |-> IF t \in R THEN Append(cmds[t], x) ELSE cmds[t]],
           UNCHANGED <<call, worker, typed, sent, unheard, dead>>,
           view' \in [Consoles -> {"none", "open", "hasty", "closed", "gone"}],
           \A t \in Consoles : view'[t] = "open" => view[t] = "open" /\ news' = news
    PROVE  SerialInv'
<1> USE DEF SerialInv
<1>1. \A t \in Consoles :
          /\ cmds[t] \in Seq(Keys \cup {Break, CloseCmd})
          /\ Append(cmds[t], x) \in Seq(Keys \cup {Break, CloseCmd})
    BY AppendTyped DEF SerialTypeOK
<1>2. SerialTypeOK'
    BY <1>1 DEF SerialTypeOK
<1>3. WorkerOpened'
    BY DEF WorkerOpened, Hears
<1>4. EndIsNews'
    BY DEF EndIsNews
<1>5. TypedIsSent'
    <2>1. ASSUME NEW t \in Consoles PROVE Only(cmds'[t], Keys) = Only(cmds[t], Keys)
        <3> DEFINE q == cmds[t]
        <3>1. q \in Seq(Keys \cup {Break, CloseCmd}) /\ x \in Keys \cup {Break, CloseCmd}
            BY <1>1
        <3>2. x \notin Keys
            BY SerialAssumption
        <3>3. cmds'[t] = q \/ cmds'[t] = Append(q, x)
            OBVIOUS
        <3> HIDE DEF q
        <3>4. Only(Append(q, x), Keys) = Only(q, Keys)
            BY <3>1, <3>2, OnlyAppend
        <3> QED
            BY <3>3, <3>4 DEF q
    <2> QED
        BY <2>1, FlowKept
<1> QED
    BY <1>2, <1>3, <1>4, <1>5

LEMMA SerialBreakInv ==
    ASSUME SerialInv, NEW t \in Consoles, SerialBreak(t)
    PROVE  SerialInv'
<1> DEFINE R == IF t \in ports /\ Hears(t) THEN {t} ELSE {}
<1>1. cmds' = [u \in Consoles |-> IF u \in R THEN Append(cmds[u], Break) ELSE cmds[u]]
    BY DEF SerialBreak, Tell, SerialInv, SerialTypeOK
<1>2. R \in SUBSET Consoles /\ \A u \in R : Hears(u)
    OBVIOUS
<1>3. UNCHANGED <<call, view, worker, typed, sent, unheard, dead, news>>
    BY DEF SerialBreak, pageSide
<1>4. view' \in [Consoles -> {"none", "open", "hasty", "closed", "gone"}]
    BY <1>3 DEF SerialInv, SerialTypeOK
<1> HIDE DEF R
<1> QED
    BY <1>1, <1>2, <1>3, <1>4, OrderInv

(* SerialManager::close, for the tab that is closed or for all.             *)
LEMMA SerialCloseInv ==
    ASSUME SerialInv, ReloadPage \/ \E t \in Consoles : CloseTab(t)
    PROVE  SerialInv'
<1>1. PICK ts \in SUBSET Consoles : ClosePorts(ts)
    BY DEF ReloadPage, CloseTab
<1> DEFINE R == {t \in ts \cap ports : Hears(t)}
<1>2. cmds' = [t \in Consoles |-> IF t \in R THEN Append(cmds[t], CloseCmd) ELSE cmds[t]]
    BY <1>1 DEF ClosePorts
<1>3. R \in SUBSET Consoles /\ \A t \in R : Hears(t)
    OBVIOUS
<1>4. UNCHANGED <<call, worker, typed, sent, unheard, dead>>
    BY DEF ReloadPage, CloseTab
<1>5. /\ view' \in [Consoles -> {"none", "open", "hasty", "closed", "gone"}]
      /\ \A t \in Consoles : view'[t] = "open" => view[t] = "open" /\ news' = news
    BY DEF ReloadPage, CloseTab, SerialInv, SerialTypeOK
<1> HIDE DEF R
<1> QED
    BY <1>2, <1>3, <1>4, <1>5, OrderInv

(* The worker gives up its loop: those who listen hear of it, the others    *)
(* are noted, and nothing more is sent.                                     *)
LEMMA ExitInv ==
    ASSUME SerialInv, NEW t \in Consoles, Exit(t), worker[t] \in {"drain", "read"},
           UNCHANGED <<call, view, dead, typed, sent>>,
           cmds' \in [Consoles -> Seq(Keys \cup {Break, CloseCmd})],
           \A u \in Consoles \ {t} : cmds'[u] = cmds[u]
    PROVE  SerialInv'
<1> USE DEF SerialInv
<1>1. SerialTypeOK'
    BY DEF Exit, SerialTypeOK
<1>2. WorkerOpened'
    BY DEF Exit, WorkerOpened, SerialTypeOK
<1>3. EndIsNews'
    BY DEF Exit, EndIsNews, SerialTypeOK
<1>4. TypedIsSent'
    BY FlowKept DEF Exit, SerialTypeOK
<1> QED
    BY <1>1, <1>2, <1>3, <1>4

LEMMA DrainInv ==
    ASSUME SerialInv, NEW t \in Consoles, Drain(t)
    PROVE  SerialInv'
<1> USE DEF SerialInv
<1> DEFINE C == Keys \cup {Break, CloseCmd}
           q == cmds[t]
           x == Head(q)
           u == sent[t]
           o == Only(Tail(q), Keys)
<1>1. /\ q \in Seq(C) /\ q # <<>> /\ u \in Seq(Keys) /\ typed[t] \in Seq(Keys)
      /\ worker[t] = "drain"
    BY DEF Drain, SerialTypeOK
<1>2. x \in C /\ Tail(q) \in Seq(C)
    BY <1>1, TailTyped
<1>3. /\ cmds' = [cmds EXCEPT ![t] = Tail(@)]
      /\ UNCHANGED <<call, view, dead, typed>>
    BY DEF Drain, pageSide
<1>4. cmds'[t] = Tail(q) /\ (\A c \in Consoles \ {t} : cmds'[c] = cmds[c])
    BY <1>3 DEF SerialTypeOK
<1>5. cmds' \in [Consoles -> Seq(C)]
    BY <1>2, <1>3 DEF SerialTypeOK
<1>6. CASE Exit(t) /\ UNCHANGED sent
    BY <1>1, <1>3, <1>4, <1>5, <1>6, ExitInv
<1>7. Only(q, Keys) = IF x \in Keys THEN <<x>> \o o ELSE o
    <2> HIDE DEF q
    <2> QED
        BY <1>1, OnlyHeadTail
<1>8. u \o Only(q, Keys) = typed[t]
    BY <1>1 DEF TypedIsSent
<1>9. CASE x = Break /\ UNCHANGED <<worker, news, unheard, sent>>
    <2>1. SerialTypeOK'
        BY <1>3, <1>5, <1>9 DEF SerialTypeOK
    <2>2. WorkerOpened'
        BY <1>1, <1>3, <1>4, <1>9 DEF WorkerOpened
    <2>3. EndIsNews'
        BY <1>3, <1>9 DEF EndIsNews
    <2>4. TypedIsSent'
        <3>1. Only(cmds'[t], Keys) = Only(cmds[t], Keys)
            BY <1>4, <1>7, <1>9, SerialAssumption
        <3> QED
            BY <1>3, <1>4, <1>9, <3>1, FlowKept
    <2> QED
        BY <2>1, <2>2, <2>3, <2>4
<1>10. CASE /\ x \in Keys /\ sent' = [sent EXCEPT ![t] = Append(@, x)]
            /\ UNCHANGED <<worker, news, unheard>>
    <2>0. sent'[t] = Append(u, x) /\ Append(u, x) \in Seq(Keys)
        BY <1>1, <1>10, AppendTyped DEF SerialTypeOK
    <2>1. SerialTypeOK'
        BY <1>3, <1>5, <1>10, <2>0 DEF SerialTypeOK
    <2>2. WorkerOpened'
        BY <1>1, <1>3, <1>4, <1>10 DEF WorkerOpened, SerialTypeOK
    <2>3. EndIsNews'
        BY <1>3, <1>10 DEF EndIsNews
    <2>4. TypedIsSent'
        <3>1. o \in Seq(Keys)
            BY <1>2, OnlyTyped
        <3>2. Append(u, x) \o o = u \o (<<x>> \o o)
            <4> HIDE DEF u, x, o
            <4> QED
                BY <1>1, <1>10, <3>1, TakenFromFront
        <3>3. Append(u, x) \o o = typed[t]
            <4> HIDE DEF u, x, o, q
            <4> QED
                BY <1>7, <1>8, <1>10, <3>2
        <3>4. IsPrefix(Append(u, x), Append(u, x) \o o)
            <4> DEFINE c == Append(u, x)
            <4>1. c \in Seq(Keys)
                BY <2>0
            <4> HIDE DEF c, o
            <4> QED
                BY <3>1, <4>1, PrefixOfConcat DEF c
        <3>5. IsPrefix(sent'[t], typed'[t]) /\ sent'[t] \o Only(cmds'[t], Keys) = typed'[t]
            <4>1. Only(cmds'[t], Keys) = o /\ typed'[t] = typed[t]
                BY <1>3, <1>4
            <4> HIDE DEF u, x, o, q
            <4> QED
                BY <2>0, <3>3, <3>4, <4>1
        <3>6. \A c \in Consoles \ {t} : sent'[c] = sent[c]
            BY <1>10 DEF SerialTypeOK
        <3> QED
            BY <1>3, <1>4, <1>10, <3>5, <3>6, FlowRebuilt
    <2> QED
        BY <2>1, <2>2, <2>3, <2>4
<1> QED
    BY <1>2, <1>6, <1>9, <1>10, SerialAssumption DEF Drain

LEMMA WorkerInv ==
    ASSUME SerialInv, NEW t \in Consoles, DrainEmpty(t) \/ ReadPort(t) \/ WorkerReturns(t)
    PROVE  SerialInv'
<1> USE DEF SerialInv
<1>1. CASE ReadPort(t) /\ Exit(t)
    BY <1>1, ExitInv DEF ReadPort, pageSide, flowVars, SerialTypeOK
<1>2. CASE \/ DrainEmpty(t)
           \/ /\ ReadPort(t) /\ worker' = [worker EXCEPT ![t] = "drain"]
              /\ UNCHANGED <<news, unheard>>
    <2>0. UNCHANGED <<call, view, dead, news, unheard, cmds, typed, sent>>
        BY <1>2 DEF DrainEmpty, ReadPort, pageSide, flowVars
    <2>1. SerialTypeOK'
        BY <1>2, <2>0 DEF DrainEmpty, SerialTypeOK
    <2>2. WorkerOpened'
        BY <1>2, <2>0 DEF DrainEmpty, ReadPort, WorkerOpened, SerialTypeOK
    <2>3. EndIsNews'
        BY <1>2, <2>0 DEF DrainEmpty, ReadPort, EndIsNews, SerialTypeOK
    <2>4. TypedIsSent'
        BY <1>2, <2>0, FlowKept DEF DrainEmpty, ReadPort, SerialTypeOK
    <2> QED
        BY <2>1, <2>2, <2>3, <2>4
<1>3. CASE WorkerReturns(t)
    <2>0. UNCHANGED <<call, view, dead, news, unheard, typed, sent>>
        BY <1>3 DEF WorkerReturns, pageSide
    <2>1. SerialTypeOK'
        BY <1>3, <2>0, EmptyTyped DEF WorkerReturns, SerialTypeOK
    <2>2. WorkerOpened'
        BY <1>3, <2>0 DEF WorkerReturns, WorkerOpened, SerialTypeOK
    <2>3. EndIsNews'
        BY <1>3, <2>0 DEF WorkerReturns, EndIsNews, SerialTypeOK
    <2>4. TypedIsSent'
        BY <1>3, <2>0, FlowKept DEF WorkerReturns, SerialTypeOK
    <2> QED
        BY <2>1, <2>2, <2>3, <2>4
<1> QED
    BY <1>1, <1>2, <1>3 DEF ReadPort

LEMMA SerialInvariant == SerialSpec => []SerialInv
<1>1. SerialInit => SerialInv
    BY InitSerialInv
<1>2. SerialInv /\ [SerialNext]_serialVars => SerialInv'
    <2> SUFFICES ASSUME SerialInv, [SerialNext]_serialVars PROVE SerialInv'
        OBVIOUS
    <2>1. CASE UNCHANGED serialVars
        <3>1. UNCHANGED <<call, view, dead, news, worker, cmds, typed, sent, unheard>>
            BY <2>1 DEF serialVars, pageSide, flowVars
        <3>2. SerialTypeOK' /\ WorkerOpened' /\ EndIsNews'
            BY <3>1 DEF SerialInv, SerialTypeOK, WorkerOpened, EndIsNews
        <3>3. TypedIsSent'
            BY <3>1, FlowKept DEF SerialInv
        <3> QED
            BY <3>2, <3>3 DEF SerialInv
    <2>2. CASE ReloadPage
        BY <2>2, SerialCloseInv
    <2>3. ASSUME NEW t \in Consoles, SerialPage(t) \/ SerialWorker(t) PROVE SerialInv'
        BY <2>3, PageSerialInv, SerialConnectInv, DrainInv, WorkerInv DEF SerialPage, SerialWorker
    <2>4. ASSUME NEW t \in Consoles, OpenSerial(t) \/ CloseTab(t) \/ SerialBreak(t)
          PROVE  SerialInv'
        BY <2>4, PageSerialInv, SerialCloseInv, SerialBreakInv
    <2> QED
        BY <2>1, <2>2, <2>3, <2>4, SerialWriteInv DEF SerialNext
<1> QED
    BY <1>1, <1>2, PTL DEF SerialSpec

(* The device is given a prefix of what was typed, in order; while the      *)
(* worker is in its loop the rest is in the queue, whatever else is.        *)
THEOREM TypedReachesDevice == SerialSpec => []TypedIsSent
<1>1. SerialInv => TypedIsSent
    BY DEF SerialInv
<1> QED
    BY <1>1, SerialInvariant, PTL

(* A console that looks alive has a worker, or hears of its end, or the     *)
(* worker had ended before the page listened.                               *)
THEOREM LiveConsolesAreLive == SerialSpec => []LiveConsoleIsLive
<1>1. SerialInv => LiveConsoleIsLive
    BY DEF SerialInv, EndIsNews, LiveConsoleIsLive, Talks
<1> QED
    BY <1>1, SerialInvariant, PTL

-----------------------------------------------------------------------------
(* SshSession and SerialPort implement Terminal *)

(* What one line may do in a step, seen as Terminal sees it.                *)
Endures(a, b, D) ==
    \/ b = a
    \/ a.phase = "new" /\ b = [a EXCEPT !.phase = "open"]
    \/ a.phase = "open" /\ b = [a EXCEPT !.phase = "ending"]
    \/ /\ a.phase \in {"open", "ending"}
       /\ \E i \in D : b = [a EXCEPT !.given = Append(@, i)]

Delivers(a, b) ==
    /\ a.phase \in {"open", "ending"} /\ b.phase \in {a.phase, "over"}
    /\ b.given = a.given
    /\ \E n \in Len(a.taken)..Len(a.given) : b.taken = SubSeq(a.given, 1, n)

LineMoves(a, b, D) == Endures(a, b, D) \/ Delivers(a, b)

SshAt(s) == [phase |-> SshPhase(s), given |-> accepted[s], taken |-> written[s]]

PortAt(t) == [phase |-> PortPhase(t), given |-> typed[t], taken |-> sent[t]]

(* A prefix is a cut of the whole.                                          *)
LEMMA PrefixIsCut ==
    ASSUME NEW T, NEW p \in Seq(T), NEW q \in Seq(T), IsPrefix(p, q)
    PROVE  Len(p) \in Nat /\ Len(q) \in Nat /\ Len(p) <= Len(q) /\ p = SubSeq(q, 1, Len(p))
<1> DEFINE n == Len(p)
<1>1. n \in Nat /\ Len(q) \in Nat /\ n <= Len(q)
    BY LenProperties DEF IsPrefix
<1>2. SubSeq(p, 1, n) = SubSeq(q, 1, n)
    BY DEF IsPrefix
<1> DEFINE c == SubSeq(p, 1, n)
<1>3. c \in Seq(T) /\ Len(c) = n /\ \A i \in 1..n : c[i] = p[i]
    <2>1. \A i \in 1..n : p[i] \in T
        BY ElementOfSeq
    <2> QED
        BY <1>1, <2>1, SubSeqProperties
<1> HIDE DEF c
<1>4. c = p
    BY <1>3, SeqEqual
<1> QED
    BY <1>1, <1>2, <1>4 DEF c

(* What a queue holds after a send and after a receive.                     *)
LEMMA ContainsMore ==
    ASSUME NEW X, NEW q \in Seq(X), NEW x \in X, NEW d
    PROVE  Contains(Append(q, x), d) <=> Contains(q, d) \/ x = d
<1> DEFINE r == Append(q, x)
           n == Len(q)
<1>1. /\ n \in Nat /\ Len(r) = n + 1 /\ r[n + 1] = x /\ \A i \in 1..n : r[i] = q[i]
    BY AppendProperties, LenProperties
<1> HIDE DEF r
<1>2. ASSUME Contains(r, d), x # d PROVE Contains(q, d)
    <2>1. PICK i \in 1..Len(r) : r[i] = d
        BY <1>2 DEF Contains
    <2>2. i \in 1..n
        BY <1>1, <1>2, <2>1
    <2>3. q[i] = d
        BY <1>1, <2>1, <2>2
    <2> QED
        BY <2>2, <2>3 DEF Contains
<1> QED
    BY <1>2, ContainsAppend DEF r

LEMMA ContainsLess ==
    ASSUME NEW X, NEW q \in Seq(X), q # <<>>, NEW d
    PROVE  Contains(q, d) <=> Head(q) = d \/ Contains(Tail(q), d)
<1> DEFINE r == Tail(q)
           n == Len(q)
<1>1. /\ n \in Nat /\ n >= 1 /\ Len(r) = n - 1 /\ \A i \in 1..Len(r) : r[i] = q[i + 1]
      /\ Head(q) = q[1]
    BY HeadTailProperties, LenProperties, EmptySeq
<1> HIDE DEF r
<1>2. ASSUME Contains(r, d) PROVE Contains(q, d)
    <2>1. PICK i \in 1..Len(r) : r[i] = d
        BY <1>2 DEF Contains
    <2> DEFINE j == i + 1
    <2>2. j \in 1..n
        BY <1>1, <2>1
    <2>3. q[j] = d
        BY <1>1, <2>1
    <2> HIDE DEF j
    <2> QED
        BY <2>2, <2>3 DEF Contains
<1>3. ASSUME Head(q) = d PROVE Contains(q, d)
    <2>1. 1 \in 1..n /\ q[1] = d
        BY <1>1, <1>3
    <2> QED
        BY <2>1 DEF Contains
<1> QED
    BY <1>2, <1>3, ContainsTail DEF r

LEMMA EmptyHoldsNothing == ASSUME NEW d PROVE ~Contains(<<>>, d)
BY EmptySeq DEF Contains

-----------------------------------------------------------------------------
(* SshSession as a Terminal *)

(* One session's move is a step of Terminal.                                *)
LEMMA SshLineStep ==
    ASSUME SshTypeOK, SshTypeOK', NEW s \in Sessions,
           \A r \in Sessions \ {s} : SshAt(r)' = SshAt(r),
           LineMoves(SshAt(s), SshAt(s)', Data)
    PROVE  [SshLine!TNext]_(SshLine!tvars)
<1> DEFINE ph == [r \in Sessions |-> SshPhase(r)]
           p == SshPhase(s)
           p2 == SshPhase(s)'
<1>1. \A r \in Sessions \ {s} :
          SshPhase(r)' = SshPhase(r) /\ accepted'[r] = accepted[r] /\ written'[r] = written[r]
    BY DEF SshAt
<1>2. ph' = [ph EXCEPT ![s] = p2]
    BY <1>1
<1>3. accepted' = [accepted EXCEPT ![s] = accepted'[s]]
    BY <1>1 DEF SshTypeOK
<1>4. written' = [written EXCEPT ![s] = written'[s]]
    BY <1>1 DEF SshTypeOK
<1>5. ph[s] = p
    OBVIOUS
<1>6. CASE p2 = p /\ accepted'[s] = accepted[s] /\ written'[s] = written[s]
    <2>1. ph' = ph
        BY <1>2, <1>6
    <2>2. accepted' = accepted /\ written' = written
        BY <1>3, <1>4, <1>6 DEF SshTypeOK
    <2> QED
        BY <2>1, <2>2 DEF SshLine!tvars
<1>7. CASE /\ p = "new" /\ p2 = "open"
           /\ accepted'[s] = accepted[s] /\ written'[s] = written[s]
    <2>1. accepted' = accepted /\ written' = written
        BY <1>3, <1>4, <1>7 DEF SshTypeOK
    <2>2. SshLine!Open(s)
        BY <1>2, <1>5, <1>7, <2>1 DEF SshLine!Open
    <2> QED
        BY <2>2 DEF SshLine!TNext
<1>8. CASE /\ p = "open" /\ p2 = "ending"
           /\ accepted'[s] = accepted[s] /\ written'[s] = written[s]
    <2>1. accepted' = accepted /\ written' = written
        BY <1>3, <1>4, <1>8 DEF SshTypeOK
    <2>2. ph' = [r \in Sessions |-> IF r \in {s} /\ ph[r] = "open" THEN "ending" ELSE ph[r]]
        BY <1>2, <1>5, <1>8
    <2>3. SshLine!TellEnd({s})
        BY <2>1, <2>2 DEF SshLine!TellEnd
    <2> QED
        BY <2>3 DEF SshLine!TNext
<1>9. CASE /\ p \in {"open", "ending"} /\ p2 = p /\ written'[s] = written[s]
           /\ \E i \in Data : accepted'[s] = Append(accepted[s], i)
    <2>1. PICK i \in Data : accepted'[s] = Append(accepted[s], i)
        BY <1>9
    <2>2. ph' = ph
        BY <1>2, <1>9
    <2>3. written' = written
        BY <1>4, <1>9 DEF SshTypeOK
    <2>4. accepted' = [accepted EXCEPT ![s] = Append(@, i)]
        BY <1>3, <2>1 DEF SshTypeOK
    <2>5. SshLine!Give(s, i)
        BY <1>5, <1>9, <2>2, <2>3, <2>4 DEF SshLine!Give, SshLine!Lasts
    <2> QED
        BY <2>5 DEF SshLine!TNext
<1>10. CASE /\ p \in {"open", "ending"} /\ p2 \in {p, "over"} /\ accepted'[s] = accepted[s]
            /\ \E n \in Len(written[s])..Len(accepted[s]) :
                   written'[s] = SubSeq(accepted[s], 1, n)
    <2>1. PICK n \in Len(written[s])..Len(accepted[s]) :
              written'[s] = SubSeq(accepted[s], 1, n)
        BY <1>10
    <2>2. accepted' = accepted
        BY <1>3, <1>10 DEF SshTypeOK
    <2>3. written' = [written EXCEPT ![s] = SubSeq(accepted[s], 1, n)]
        BY <1>4, <2>1
    <2>4. SshLine!Deliver(s)
        BY <1>5, <1>10, <2>1, <2>2, <2>3 DEF SshLine!Deliver, SshLine!Lasts
    <2>5. CASE p2 = p
        <3>1. ph' = ph
            BY <1>2, <2>5
        <3> QED
            BY <2>4, <3>1 DEF SshLine!Take, SshLine!TNext
    <2>6. CASE p2 = "over"
        <3>1. ph' = [ph EXCEPT ![s] = "over"]
            BY <1>2, <2>6
        <3> QED
            BY <2>4, <3>1 DEF SshLine!End, SshLine!TNext
    <2> QED
        BY <1>10, <2>5, <2>6
<1> HIDE DEF ph, p, p2
<1>11. SshAt(s) = [phase |-> p, given |-> accepted[s], taken |-> written[s]]
    BY DEF SshAt, p
<1>12. SshAt(s)' = [phase |-> p2, given |-> accepted'[s], taken |-> written'[s]]
    BY DEF SshAt, p2
<1> DEFINE a == SshAt(s)
           b == SshAt(s)'
<1>13. /\ a.phase = p /\ a.given = accepted[s] /\ a.taken = written[s]
       /\ b.phase = p2 /\ b.given = accepted'[s] /\ b.taken = written'[s]
    BY <1>11, <1>12
<1>14. LineMoves(a, b, Data)
    OBVIOUS
<1> HIDE DEF a, b
<1>15. CASE Delivers(a, b)
    BY <1>10, <1>13, <1>15 DEF Delivers
<1>16. CASE b = a
    BY <1>6, <1>13, <1>16
<1>17. CASE a.phase = "new" /\ b = [a EXCEPT !.phase = "open"]
    <2>1. /\ b.phase = "open" /\ b.given = a.given /\ b.taken = a.taken
        BY <1>11, <1>17 DEF a
    <2> QED
        BY <1>7, <1>13, <1>17, <2>1
<1>18. CASE a.phase = "open" /\ b = [a EXCEPT !.phase = "ending"]
    <2>1. /\ b.phase = "ending" /\ b.given = a.given /\ b.taken = a.taken
        BY <1>11, <1>18 DEF a
    <2> QED
        BY <1>8, <1>13, <1>18, <2>1
<1>19. CASE /\ a.phase \in {"open", "ending"}
            /\ \E i \in Data : b = [a EXCEPT !.given = Append(@, i)]
    <2>1. PICK i \in Data : b = [a EXCEPT !.given = Append(@, i)]
        BY <1>19
    <2>2. /\ b.phase = a.phase /\ b.given = Append(a.given, i) /\ b.taken = a.taken
        BY <1>11, <2>1 DEF a
    <2> QED
        BY <1>9, <1>13, <1>19, <2>2
<1> QED
    BY <1>14, <1>15, <1>16, <1>17, <1>18, <1>19 DEF LineMoves, Endures

Up == {"inserted", "hooked", "up"}

Told(s) == Contains(queue[s], Disconnect) \/ disc[s]

(* Nothing moves that Terminal sees.                                        *)
LEMMA SshQuiet ==
    ASSUME SshTypeOK, SshTypeOK', UNCHANGED <<accepted, written>>,
           \A r \in Sessions : /\ Receiving(r)' <=> Receiving(r)
                               /\ Told(r)' <=> Told(r)
                               /\ conn'[r] \in Up <=> conn[r] \in Up
    PROVE  UNCHANGED SshLine!tvars
<1>1. \A r \in Sessions : SshPhase(r)' = SshPhase(r)
    BY DEF SshPhase, Told, Up
<1> QED
    BY <1>1 DEF SshLine!tvars

(* A session that has an entry is known to connect() as such.               *)
Entered == \A s \in entries : conn[s] \in Up

LEMMA StepEntered == SshInv /\ Entered /\ [SshNext]_sshVars => Entered'
<1> SUFFICES ASSUME SshInv, Entered, [SshNext]_sshVars PROVE Entered'
    OBVIOUS
<1>0. SshTypeOK
    BY DEF SshInv
<1>1. CASE UNCHANGED <<conn, entries>>
    BY <1>1 DEF Entered
<1>2. ASSUME NEW s \in Sessions, NEW h \in Hosts, ConnectHost(s, h) PROVE Entered'
    BY <1>0, <1>2 DEF ConnectHost, Entered, Up, SshTypeOK
<1>3. ASSUME NEW s \in Sessions, Connect(s) PROVE Entered'
    <2>1. /\ \A r \in Sessions \ {s} : conn'[r] = conn[r]
          /\ conn[s] \in Up => conn'[s] \in Up
          /\ entries' = entries \/ (entries' = entries \cup {s} /\ conn'[s] \in Up)
        <3>0. conn \in [Sessions -> ConnPhase]
            BY <1>0 DEF SshTypeOK
        <3>1. CASE EstablishFails(s)
            BY <3>0, <3>1 DEF EstablishFails, Up
        <3>2. CASE InsertEntry(s)
            BY <3>0, <3>2 DEF InsertEntry, Up
        <3>3. CASE SendHook(s)
            BY <3>0, <3>3 DEF SendHook, Up
        <3>4. CASE SpawnPump(s)
            BY <3>0, <3>4 DEF SpawnPump, Up
        <3> QED
            BY <1>3, <3>1, <3>2, <3>3, <3>4 DEF Connect
    <2>2. entries \subseteq Sessions
        BY <1>0 DEF SshTypeOK
    <2> QED
        BY <2>1, <2>2 DEF Entered
<1>4. ASSUME NEW s \in Sessions, RemoveEntry(s) PROVE Entered'
    BY <1>0, <1>4 DEF RemoveEntry, connVars, Entered, SshTypeOK
<1>5. CASE \/ Sweep \/ ResetSessions \/ \E h \in Hosts : DeleteHost(h)
           \/ \E s \in Sessions : Close(s) \/ X11Export(s) \/ \E i \in Inputs : Write(s, i)
    BY <1>1, <1>5
    DEF Sweep, SweepDone, SweepSend, ResetSessions, DeleteHost, Close, X11Export, Write, connVars
<1>6. ASSUME NEW s \in Sessions, Pump(s) PROVE Entered'
    BY <1>1, <1>4, <1>6
    DEF Pump, DrainOne, DrainEnd, PumpIo, Return, ClearAlive, EmitExit, connVars
<1>7. CASE UNCHANGED sshVars
    BY <1>1, <1>7 DEF sshVars
<1> QED
    BY <1>2, <1>3, <1>5, <1>6, <1>7 DEF SshNext, Commands

(* A send is accepted by a session that lasts, or changes nothing.          *)
LEMMA SshSends ==
    ASSUME SshTypeOK, SshTypeOK', NEW s \in Sessions, NEW cmd \in Data \cup {Disconnect},
           Push(s, cmd), conn[s] \in Up, UNCHANGED <<pump, disc, written>>,
           \A r \in Sessions : conn'[r] \in Up <=> conn[r] \in Up
    PROVE  [SshLine!TNext]_(SshLine!tvars)
<1>1. CASE ~Receiving(s)
    BY <1>1, SshQuiet DEF Push, chanVars, Receiving, Told
<1>2. CASE Receiving(s)
    <2>1. queue' = [queue EXCEPT ![s] = Append(@, cmd)]
        BY <1>2 DEF Push
    <2>2. queue[s] \in Seq(Data \cup {Disconnect})
        BY DEF SshTypeOK
    <2>3. queue'[s] = Append(queue[s], cmd) /\ \A r \in Sessions \ {s} : queue'[r] = queue[r]
        BY <2>1 DEF SshTypeOK
    <2>4. Contains(queue'[s], Disconnect) <=> Contains(queue[s], Disconnect) \/ cmd = Disconnect
        BY <2>2, <2>3, ContainsMore
    <2>5. \A r \in Sessions \ {s} : accepted'[r] = accepted[r]
        BY <1>2 DEF Push, SshTypeOK
    <2>6. \A r \in Sessions \ {s} : SshAt(r)' = SshAt(r)
        <3>1. \A r \in Sessions \ {s} : SshPhase(r)' = SshPhase(r)
            BY <2>3 DEF SshPhase, Receiving, Up
        <3> QED
            BY <2>5, <3>1 DEF SshAt
    <2>7. SshPhase(s) = IF Told(s) THEN "ending" ELSE "open"
        BY <1>2 DEF SshPhase, Told, Up
    <2>8. SshPhase(s)' = IF Told(s) \/ cmd = Disconnect THEN "ending" ELSE "open"
        BY <1>2, <2>4 DEF SshPhase, Told, Up, Receiving
    <2>9. CASE cmd = Disconnect
        <3>1. accepted' = accepted
            BY <1>2, <2>9 DEF Push
        <3>2. SshAt(s) = [phase |-> SshPhase(s), given |-> accepted[s], taken |-> written[s]]
            BY DEF SshAt
        <3>3. SshAt(s)' = [phase |-> "ending", given |-> accepted[s], taken |-> written[s]]
            BY <2>8, <2>9, <3>1 DEF SshAt
        <3>4. LineMoves(SshAt(s), SshAt(s)', Data)
            <4> DEFINE a == SshAt(s)
                       b == SshAt(s)'
            <4>1. CASE Told(s)
                <5>1. b = a
                    BY <2>7, <3>2, <3>3, <4>1
                <5> QED
                    BY <5>1 DEF LineMoves, Endures
            <4>2. CASE ~Told(s)
                <5>1. a.phase = "open" /\ b = [a EXCEPT !.phase = "ending"]
                    BY <2>7, <3>2, <3>3, <4>2
                <5> QED
                    BY <5>1 DEF LineMoves, Endures
            <4> QED
                BY <4>1, <4>2
        <3> QED
            BY <2>6, <3>4, SshLineStep
    <2>10. CASE cmd # Disconnect
        <3>1. accepted'[s] = Append(accepted[s], cmd) /\ cmd \in Data
            BY <1>2, <2>10 DEF Push, SshTypeOK
        <3>2. SshPhase(s)' = SshPhase(s) /\ SshPhase(s) \in {"open", "ending"}
            BY <2>7, <2>8, <2>10
        <3>3. SshAt(s) = [phase |-> SshPhase(s), given |-> accepted[s], taken |-> written[s]]
            BY DEF SshAt
        <3>4. SshAt(s)' = [phase |-> SshPhase(s), given |-> Append(accepted[s], cmd),
                           taken |-> written[s]]
            BY <3>1, <3>2 DEF SshAt
        <3>5. LineMoves(SshAt(s), SshAt(s)', Data)
            <4> DEFINE a == SshAt(s)
                       b == SshAt(s)'
            <4>1. a.phase \in {"open", "ending"} /\ a.given = accepted[s]
                BY <3>2, <3>3
            <4>2. b = [a EXCEPT !.given = Append(accepted[s], cmd)]
                <5> DEFINE k == Append(accepted[s], cmd)
                <5>1. b = [phase |-> SshPhase(s), given |-> k, taken |-> written[s]]
                    BY <3>4
                <5> HIDE DEF k, b
                <5>2. b = [a EXCEPT !.given = k]
                    BY <3>3, <5>1
                <5> QED
                    BY <5>2 DEF k
            <4>3. LineMoves(a, b, Data)
                BY <3>1, <4>1, <4>2 DEF LineMoves, Endures
            <4> QED
                BY <4>3 DEF a, b
        <3> QED
            BY <2>6, <3>5, SshLineStep
    <2> QED
        BY <2>9, <2>10
<1> QED
    BY <1>1, <1>2

(* What the shell gets, and the end of the loop.                            *)
LEMMA SshTakes ==
    ASSUME SshTypeOK, SshTypeOK', Teardown, InputConserved', NEW s \in Sessions,
           pump[s] \in {"drain", "io"}, UNCHANGED <<conn, accepted, disc>>,
           \A r \in Sessions \ {s} :
               queue'[r] = queue[r] /\ pump'[r] = pump[r] /\ written'[r] = written[r],
           NEW e \in Seq(Data), written'[s] = written[s] \o e,
           \/ pump'[s] = "returned"
           \/ pump'[s] \in {"drain", "io"} /\ queue'[s] = queue[s]
    PROVE  [SshLine!TNext]_(SshLine!tvars)
<1>1. \A r \in Sessions \ {s} : SshAt(r)' = SshAt(r)
    <2>1. \A r \in Sessions \ {s} : SshPhase(r)' = SshPhase(r)
        BY DEF SshPhase, Receiving
    <2> QED
        BY <2>1 DEF SshAt
<1>2. SshPhase(s) \in {"open", "ending"}
    BY DEF SshPhase, Receiving, Teardown
<1>3. SshPhase(s)' \in {SshPhase(s), "over"}
    BY DEF SshPhase, Receiving
<1>4. written[s] \in Seq(Data) /\ written'[s] \in Seq(Data) /\ accepted[s] \in Seq(Data)
    BY DEF SshTypeOK
<1>5. IsPrefix(written'[s], accepted[s])
    BY DEF InputConserved
<1> DEFINE w == written[s]
           z == written'[s]
           k == accepted[s]
<1>6. Len(z) \in Nat /\ Len(k) \in Nat /\ Len(z) <= Len(k) /\ z = SubSeq(k, 1, Len(z))
    <2>1. z \in Seq(Data) /\ k \in Seq(Data) /\ IsPrefix(z, k)
        BY <1>4, <1>5
    <2> HIDE DEF z, k
    <2> QED
        BY <2>1, PrefixIsCut
<1>7. Len(w) \in Nat /\ Len(w) <= Len(z)
    <2>1. w \in Seq(Data) /\ z = w \o e
        BY <1>4
    <2> HIDE DEF w, z
    <2> QED
        BY <2>1, ConcatProperties, LenProperties
<1>8. Len(z) \in Len(w)..Len(k)
    BY <1>6, <1>7
<1> DEFINE a == SshAt(s)
           b == SshAt(s)'
<1>9. a = [phase |-> SshPhase(s), given |-> k, taken |-> w]
    BY DEF SshAt
<1>10. b = [phase |-> SshPhase(s)', given |-> k, taken |-> z]
    BY DEF SshAt
<1> HIDE DEF a, b, w, z, k
<1>11. /\ a.phase \in {"open", "ending"} /\ b.phase \in {a.phase, "over"}
       /\ b.given = a.given /\ a.given = k /\ a.taken = w /\ b.taken = z
    BY <1>2, <1>3, <1>9, <1>10
<1>12. Delivers(a, b)
    BY <1>6, <1>8, <1>11 DEF Delivers
<1>13. LineMoves(SshAt(s), SshAt(s)', Data)
    BY <1>12 DEF LineMoves, a, b
<1> QED
    BY <1>1, <1>13, SshLineStep

LEMMA SshSimulates ==
    SshInv /\ SshInv' /\ InputConserved' /\ Entered /\ [SshNext]_sshVars
        => [SshLine!TNext]_(SshLine!tvars)
<1> SUFFICES ASSUME SshInv, SshInv', InputConserved', Entered, [SshNext]_sshVars
             PROVE  [SshLine!TNext]_(SshLine!tvars)
    OBVIOUS
<1>0. SshTypeOK /\ SshTypeOK' /\ Teardown
    BY DEF SshInv
<1>1. ASSUME UNCHANGED <<accepted, written, queue, disc, pump>>,
             \A r \in Sessions : conn'[r] \in Up <=> conn[r] \in Up
      PROVE  [SshLine!TNext]_(SshLine!tvars)
    BY <1>0, <1>1, SshQuiet DEF Receiving, Told
<1>2. ASSUME NEW s \in Sessions, NEW cmd \in Data \cup {Disconnect},
             Push(s, cmd), conn[s] \in Up, UNCHANGED <<conn, pumpVars>>
      PROVE  [SshLine!TNext]_(SshLine!tvars)
    BY <1>0, <1>2, SshSends DEF pumpVars
<1>3. ASSUME NEW s \in Sessions, NEW cmd \in Data \cup {Disconnect},
             Send(s, cmd), UNCHANGED <<conn, pumpVars>>
      PROVE  [SshLine!TNext]_(SshLine!tvars)
    <2>1. CASE s \in entries
        BY <1>2, <1>3, <2>1 DEF Send, Entered
    <2>2. CASE s \notin entries
        BY <1>1, <1>3, <2>2 DEF Send, chanVars, pumpVars
    <2> QED
        BY <2>1, <2>2
<1>4. CASE Commands
    <2>1. ASSUME NEW s \in Sessions, NEW h \in Hosts, ConnectHost(s, h)
          PROVE  [SshLine!TNext]_(SshLine!tvars)
        <3>1. \A r \in Sessions : conn'[r] \in Up <=> conn[r] \in Up
            BY <1>0, <2>1 DEF ConnectHost, Up, SshTypeOK
        <3> QED
            BY <1>1, <2>1, <3>1 DEF ConnectHost, chanVars, pumpVars
    <2>2. ASSUME NEW s \in Sessions, NEW i \in Inputs, Write(s, i)
          PROVE  [SshLine!TNext]_(SshLine!tvars)
        BY <1>3, <2>2 DEF Write, Data, connVars
    <2>3. ASSUME NEW s \in Sessions, Close(s)
          PROVE  [SshLine!TNext]_(SshLine!tvars)
        BY <1>3, <2>3 DEF Close, connVars
    <2>4. CASE ResetSessions \/ \E h \in Hosts : DeleteHost(h)
        BY <1>1, <2>4 DEF ResetSessions, DeleteHost, connVars, chanVars, pumpVars
    <2> QED
        BY <1>4, <2>1, <2>2, <2>3, <2>4 DEF Commands
<1>5. CASE Sweep
    <2>1. CASE SweepDone
        BY <1>1, <2>1 DEF SweepDone, connVars, chanVars, pumpVars
    <2>2. ASSUME NEW s \in Sessions, SweepSend(s)
          PROVE  [SshLine!TNext]_(SshLine!tvars)
        BY <1>3, <2>2 DEF SweepSend, connVars
    <2> QED
        BY <1>5, <2>1, <2>2 DEF Sweep
<1>6. ASSUME NEW s \in Sessions, X11Export(s)
      PROVE  [SshLine!TNext]_(SshLine!tvars)
    BY <1>2, <1>6 DEF X11Export, Data, Up, connVars
<1>7. ASSUME NEW s \in Sessions, Connect(s)
      PROVE  [SshLine!TNext]_(SshLine!tvars)
    <2>1. CASE EstablishFails(s)
        <3>1. \A r \in Sessions : conn'[r] \in Up <=> conn[r] \in Up
            BY <1>0, <2>1 DEF EstablishFails, Up, SshTypeOK
        <3> QED
            BY <1>1, <2>1, <3>1 DEF EstablishFails, chanVars, pumpVars
    <2>2. CASE InsertEntry(s)
        <3>1. /\ conn[s] \notin Up /\ conn'[s] \in Up
              /\ \A r \in Sessions \ {s} : conn'[r] = conn[r]
              /\ UNCHANGED <<accepted, written, queue, disc, pump>>
            BY <1>0, <2>2 DEF InsertEntry, Up, chanVars, pumpVars, SshTypeOK
        <3>2. \A r \in Sessions \ {s} : SshAt(r)' = SshAt(r)
            <4>1. \A r \in Sessions \ {s} : SshPhase(r)' = SshPhase(r)
                BY <3>1 DEF SshPhase, Receiving
            <4> QED
                BY <3>1, <4>1 DEF SshAt
        <3>3. \/ SshPhase(s)' = SshPhase(s)
              \/ SshPhase(s) = "new" /\ SshPhase(s)' = "open"
            BY <3>1 DEF SshPhase, Receiving, Up
        <3>4. LineMoves(SshAt(s), SshAt(s)', Data)
            <4>1. SshAt(s) = [phase |-> SshPhase(s), given |-> accepted[s], taken |-> written[s]]
                BY DEF SshAt
            <4>2. SshAt(s)' = [phase |-> SshPhase(s)', given |-> accepted[s], taken |-> written[s]]
                BY <3>1 DEF SshAt
            <4> QED
                BY <3>3, <4>1, <4>2 DEF LineMoves, Endures
        <3> QED
            BY <1>0, <3>2, <3>4, SshLineStep
    <2>3. CASE SendHook(s)
        <3>1. /\ Push(s, Hook) /\ Hook \in Data /\ conn[s] \in Up
              /\ UNCHANGED <<pump, disc, written>>
            BY <2>3 DEF SendHook, Up, Data
        <3>2. \A r \in Sessions : conn'[r] \in Up <=> conn[r] \in Up
            BY <1>0, <2>3 DEF SendHook, Up, SshTypeOK
        <3> QED
            BY <1>0, <3>1, <3>2, SshSends
    <2>4. CASE SpawnPump(s)
        <3>1. \A r \in Sessions : conn'[r] \in Up <=> conn[r] \in Up
            BY <1>0, <2>4 DEF SpawnPump, Up, SshTypeOK
        <3>2. \A r \in Sessions : Receiving(r)' <=> Receiving(r)
            BY <1>0, <2>4 DEF SpawnPump, Receiving, Teardown, SshTypeOK
        <3> QED
            BY <1>0, <2>4, <3>1, <3>2, SshQuiet DEF SpawnPump, chanVars, Told
    <2> QED
        BY <1>7, <2>1, <2>2, <2>3, <2>4 DEF Connect
<1>8. ASSUME NEW s \in Sessions, Pump(s)
      PROVE  [SshLine!TNext]_(SshLine!tvars)
    <2>1. CASE DrainOne(s)
        <3>1. UNCHANGED <<accepted, written, conn, pump>>
            BY <2>1 DEF DrainOne, connVars
        <3>2. queue[s] \in Seq(Data \cup {Disconnect}) /\ queue[s] # <<>>
            BY <1>0, <2>1 DEF DrainOne, SshTypeOK
        <3>3. Contains(queue[s], Disconnect) <=>
                  Head(queue[s]) = Disconnect \/ Contains(Tail(queue[s]), Disconnect)
            BY <3>2, ContainsLess
        <3>4. /\ queue'[s] = Tail(queue[s])
              /\ disc'[s] = (disc[s] \/ Head(queue[s]) = Disconnect)
              /\ \A r \in Sessions \ {s} : queue'[r] = queue[r] /\ disc'[r] = disc[r]
            BY <1>0, <2>1 DEF DrainOne, SshTypeOK
        <3>5. \A r \in Sessions : Told(r)' <=> Told(r)
            BY <3>3, <3>4 DEF Told
        <3> QED
            BY <1>0, <3>1, <3>5, SshQuiet DEF Receiving
    <2>2. CASE DrainEnd(s)
        <3>1. CASE ~disc[s]
            <4>1. UNCHANGED <<accepted, written, conn, queue, disc>>
                BY <2>2, <3>1 DEF DrainEnd, connVars, chanVars
            <4>2. \A r \in Sessions : Receiving(r)' <=> Receiving(r)
                BY <1>0, <2>2, <3>1 DEF DrainEnd, Receiving, SshTypeOK
            <4> QED
                BY <1>0, <4>1, <4>2, SshQuiet DEF Told
        <3>2. CASE disc[s]
            <4>1. Return(s) /\ written' = written /\ pump[s] = "drain"
                BY <2>2, <3>2 DEF DrainEnd
            <4>2. UNCHANGED <<conn, accepted, disc>>
                BY <4>1 DEF Return, connVars
            <4>3. /\ pump'[s] = "returned"
                  /\ \A r \in Sessions \ {s} : queue'[r] = queue[r] /\ pump'[r] = pump[r]
                BY <1>0, <4>1 DEF Return, SshTypeOK
            <4> DEFINE e == <<>>
            <4>4. e \in Seq(Data) /\ written[s] \in Seq(Data)
                BY <1>0, EmptyTyped DEF SshTypeOK
            <4>5. written'[s] = written[s] \o e
                BY <4>1, <4>4, ConcatEmptySeq
            <4> HIDE DEF e
            <4> QED
                BY <1>0, <4>1, <4>2, <4>3, <4>4, <4>5, SshTakes
        <3> QED
            BY <3>1, <3>2
    <2>3. CASE PumpIo(s)
        <3>1. PICK n \in 0..Len(pending[s]) :
                  /\ written' = [written EXCEPT ![s] = @ \o SubSeq(pending[s], 1, n)]
                  /\ \/ /\ pump' = [pump EXCEPT ![s] = "drain"]
                        /\ UNCHANGED <<connVars, chanVars, disc>>
                     \/ Return(s)
            BY <2>3 DEF PumpIo
        <3> DEFINE e == SubSeq(pending[s], 1, n)
        <3>2. e \in Seq(Data)
            BY <1>0, SplitTyped DEF SshTypeOK
        <3> HIDE DEF e
        <3>3. written' = [written EXCEPT ![s] = @ \o e]
            BY <3>1 DEF e
        <3>4. /\ written'[s] = written[s] \o e
              /\ \A r \in Sessions \ {s} : written'[r] = written[r]
            BY <1>0, <3>3 DEF SshTypeOK
        <3>5. pump[s] = "io" /\ UNCHANGED <<conn, accepted, disc>>
            BY <2>3, <3>1 DEF PumpIo, Return, connVars, chanVars
        <3>6. /\ \A r \in Sessions \ {s} : queue'[r] = queue[r] /\ pump'[r] = pump[r]
              /\ \/ pump'[s] = "returned"
                 \/ pump'[s] \in {"drain", "io"} /\ queue'[s] = queue[s]
            BY <1>0, <3>1 DEF Return, chanVars, SshTypeOK
        <3> QED
            BY <1>0, <3>2, <3>4, <3>5, <3>6, SshTakes
    <2>4. CASE ClearAlive(s) \/ RemoveEntry(s) \/ EmitExit(s)
        <3>1. UNCHANGED <<accepted, written, conn, queue, disc>>
            BY <2>4 DEF ClearAlive, RemoveEntry, EmitExit, connVars, chanVars
        <3>2. \A r \in Sessions : Receiving(r)' <=> Receiving(r)
            BY <1>0, <2>4 DEF ClearAlive, RemoveEntry, EmitExit, Receiving, SshTypeOK
        <3> QED
            BY <1>0, <3>1, <3>2, SshQuiet DEF Told
    <2> QED
        BY <1>8, <2>1, <2>2, <2>3, <2>4 DEF Pump
<1>9. CASE UNCHANGED sshVars
    BY <1>1, <1>9 DEF sshVars
<1> QED
    BY <1>4, <1>5, <1>6, <1>7, <1>8, <1>9 DEF SshNext

(* The SSH back end keeps the promise of Terminal: what its sessions do,    *)
(* with connect(), the queue, the pump and the sweeps, is what a line may   *)
(* do.                                                                      *)
THEOREM SessionsAreTerminals == SshSpec => SshLine!TSafety
<1>1. SshInit => SshLine!TInit
    <2> SUFFICES ASSUME SshInit PROVE SshLine!TInit
        OBVIOUS
    <2>1. \A s \in Sessions : SshPhase(s) = "new"
        BY EmptyHoldsNothing DEF SshInit, SshPhase, Receiving
    <2> QED
        BY <2>1 DEF SshInit, SshLine!TInit
<1>2. SshInit => Entered
    BY DEF SshInit, Entered
<1>3. SshInv /\ Entered /\ [SshNext]_sshVars => Entered'
    BY StepEntered
<1>4. SshInv /\ SshInv' /\ InputConserved' /\ Entered /\ [SshNext]_sshVars
          => [SshLine!TNext]_(SshLine!tvars)
    BY SshSimulates
<1> QED
    BY <1>1, <1>2, <1>3, <1>4, SshInvariant, SshInputConserved, PTL
    DEF SshSpec, SshLine!TSafety

-----------------------------------------------------------------------------
(* SerialPort as a Terminal *)

(* One console's move is a step of Terminal.                                *)
LEMMA PortLineStep ==
    ASSUME SerialTypeOK, SerialTypeOK', NEW s \in Consoles,
           \A r \in Consoles \ {s} : PortAt(r)' = PortAt(r),
           LineMoves(PortAt(s), PortAt(s)', Keys)
    PROVE  [PortLine!TNext]_(PortLine!tvars)
<1> DEFINE ph == [r \in Consoles |-> PortPhase(r)]
           p == PortPhase(s)
           p2 == PortPhase(s)'
<1>1. \A r \in Consoles \ {s} :
          PortPhase(r)' = PortPhase(r) /\ typed'[r] = typed[r] /\ sent'[r] = sent[r]
    BY DEF PortAt
<1>2. ph' = [ph EXCEPT ![s] = p2]
    BY <1>1
<1>3. typed' = [typed EXCEPT ![s] = typed'[s]]
    BY <1>1 DEF SerialTypeOK
<1>4. sent' = [sent EXCEPT ![s] = sent'[s]]
    BY <1>1 DEF SerialTypeOK
<1>5. ph[s] = p
    OBVIOUS
<1>6. CASE p2 = p /\ typed'[s] = typed[s] /\ sent'[s] = sent[s]
    <2>1. ph' = ph
        BY <1>2, <1>6
    <2>2. typed' = typed /\ sent' = sent
        BY <1>3, <1>4, <1>6 DEF SerialTypeOK
    <2> QED
        BY <2>1, <2>2 DEF PortLine!tvars
<1>7. CASE /\ p = "new" /\ p2 = "open"
           /\ typed'[s] = typed[s] /\ sent'[s] = sent[s]
    <2>1. typed' = typed /\ sent' = sent
        BY <1>3, <1>4, <1>7 DEF SerialTypeOK
    <2>2. PortLine!Open(s)
        BY <1>2, <1>5, <1>7, <2>1 DEF PortLine!Open
    <2> QED
        BY <2>2 DEF PortLine!TNext
<1>8. CASE /\ p = "open" /\ p2 = "ending"
           /\ typed'[s] = typed[s] /\ sent'[s] = sent[s]
    <2>1. typed' = typed /\ sent' = sent
        BY <1>3, <1>4, <1>8 DEF SerialTypeOK
    <2>2. ph' = [r \in Consoles |-> IF r \in {s} /\ ph[r] = "open" THEN "ending" ELSE ph[r]]
        BY <1>2, <1>5, <1>8
    <2>3. PortLine!TellEnd({s})
        BY <2>1, <2>2 DEF PortLine!TellEnd
    <2> QED
        BY <2>3 DEF PortLine!TNext
<1>9. CASE /\ p \in {"open", "ending"} /\ p2 = p /\ sent'[s] = sent[s]
           /\ \E i \in Keys : typed'[s] = Append(typed[s], i)
    <2>1. PICK i \in Keys : typed'[s] = Append(typed[s], i)
        BY <1>9
    <2>2. ph' = ph
        BY <1>2, <1>9
    <2>3. sent' = sent
        BY <1>4, <1>9 DEF SerialTypeOK
    <2>4. typed' = [typed EXCEPT ![s] = Append(@, i)]
        BY <1>3, <2>1 DEF SerialTypeOK
    <2>5. PortLine!Give(s, i)
        BY <1>5, <1>9, <2>2, <2>3, <2>4 DEF PortLine!Give, PortLine!Lasts
    <2> QED
        BY <2>5 DEF PortLine!TNext
<1>10. CASE /\ p \in {"open", "ending"} /\ p2 \in {p, "over"} /\ typed'[s] = typed[s]
            /\ \E n \in Len(sent[s])..Len(typed[s]) :
                   sent'[s] = SubSeq(typed[s], 1, n)
    <2>1. PICK n \in Len(sent[s])..Len(typed[s]) :
              sent'[s] = SubSeq(typed[s], 1, n)
        BY <1>10
    <2>2. typed' = typed
        BY <1>3, <1>10 DEF SerialTypeOK
    <2>3. sent' = [sent EXCEPT ![s] = SubSeq(typed[s], 1, n)]
        BY <1>4, <2>1
    <2>4. PortLine!Deliver(s)
        BY <1>5, <1>10, <2>1, <2>2, <2>3 DEF PortLine!Deliver, PortLine!Lasts
    <2>5. CASE p2 = p
        <3>1. ph' = ph
            BY <1>2, <2>5
        <3> QED
            BY <2>4, <3>1 DEF PortLine!Take, PortLine!TNext
    <2>6. CASE p2 = "over"
        <3>1. ph' = [ph EXCEPT ![s] = "over"]
            BY <1>2, <2>6
        <3> QED
            BY <2>4, <3>1 DEF PortLine!End, PortLine!TNext
    <2> QED
        BY <1>10, <2>5, <2>6
<1> HIDE DEF ph, p, p2
<1>11. PortAt(s) = [phase |-> p, given |-> typed[s], taken |-> sent[s]]
    BY DEF PortAt, p
<1>12. PortAt(s)' = [phase |-> p2, given |-> typed'[s], taken |-> sent'[s]]
    BY DEF PortAt, p2
<1> DEFINE a == PortAt(s)
           b == PortAt(s)'
<1>13. /\ a.phase = p /\ a.given = typed[s] /\ a.taken = sent[s]
       /\ b.phase = p2 /\ b.given = typed'[s] /\ b.taken = sent'[s]
    BY <1>11, <1>12
<1>14. LineMoves(a, b, Keys)
    OBVIOUS
<1> HIDE DEF a, b
<1>15. CASE Delivers(a, b)
    BY <1>10, <1>13, <1>15 DEF Delivers
<1>16. CASE b = a
    BY <1>6, <1>13, <1>16
<1>17. CASE a.phase = "new" /\ b = [a EXCEPT !.phase = "open"]
    <2>1. /\ b.phase = "open" /\ b.given = a.given /\ b.taken = a.taken
        BY <1>11, <1>17 DEF a
    <2> QED
        BY <1>7, <1>13, <1>17, <2>1
<1>18. CASE a.phase = "open" /\ b = [a EXCEPT !.phase = "ending"]
    <2>1. /\ b.phase = "ending" /\ b.given = a.given /\ b.taken = a.taken
        BY <1>11, <1>18 DEF a
    <2> QED
        BY <1>8, <1>13, <1>18, <2>1
<1>19. CASE /\ a.phase \in {"open", "ending"}
            /\ \E i \in Keys : b = [a EXCEPT !.given = Append(@, i)]
    <2>1. PICK i \in Keys : b = [a EXCEPT !.given = Append(@, i)]
        BY <1>19
    <2>2. /\ b.phase = a.phase /\ b.given = Append(a.given, i) /\ b.taken = a.taken
        BY <1>11, <2>1 DEF a
    <2> QED
        BY <1>9, <1>13, <1>19, <2>2
<1> QED
    BY <1>14, <1>15, <1>16, <1>17, <1>18, <1>19 DEF LineMoves, Endures

LEMMA PortQuiet ==
    ASSUME UNCHANGED <<typed, sent>>, \A t \in Consoles : PortPhase(t)' = PortPhase(t)
    PROVE  UNCHANGED PortLine!tvars
BY DEF PortLine!tvars

(* Lines that last, and are told to end together.                           *)
LEMMA PortsTold ==
    ASSUME UNCHANGED <<typed, sent>>,
           \A t \in Consoles : \/ PortPhase(t)' = PortPhase(t)
                               \/ PortPhase(t) = "open" /\ PortPhase(t)' = "ending"
    PROVE  [PortLine!TNext]_(PortLine!tvars)
<1> DEFINE R == {t \in Consoles : PortPhase(t)' # PortPhase(t)}
           ph == [t \in Consoles |-> PortPhase(t)]
<1>1. ph' = [t \in Consoles |-> IF t \in R /\ ph[t] = "open" THEN "ending" ELSE ph[t]]
    OBVIOUS
<1>2. PortLine!TellEnd(R)
    BY <1>1 DEF PortLine!TellEnd
<1>3. R \in SUBSET Consoles
    OBVIOUS
<1> QED
    BY <1>2, <1>3 DEF PortLine!TNext

(* A worker that leaves its loop, whatever it has read of the queue.        *)
LEMMA PortExits ==
    ASSUME SerialTypeOK, NEW t \in Consoles, Exit(t), worker[t] \in {"drain", "read"},
           UNCHANGED <<typed, sent>>, \A u \in Consoles \ {t} : cmds'[u] = cmds[u]
    PROVE  [PortLine!TNext]_(PortLine!tvars)
<1>1. worker'[t] = "leaving" /\ \A u \in Consoles \ {t} : worker'[u] = worker[u]
    BY DEF Exit, SerialTypeOK
<1>2. PortPhase(t)' = "ending" /\ PortPhase(t) \in {"open", "ending"}
    BY <1>1 DEF PortPhase
<1>3. \A u \in Consoles \ {t} : PortPhase(u)' = PortPhase(u)
    BY <1>1 DEF PortPhase
<1> QED
    BY <1>2, <1>3, PortsTold

(* Orders that join the queues of workers that hear them.                   *)
LEMMA PortOrders ==
    ASSUME SerialTypeOK, NEW x \in {Break, CloseCmd}, NEW R \in SUBSET Consoles,
           \A t \in R : Hears(t),
           cmds' = [t \in Consoles |-> IF t \in R THEN Append(cmds[t], x) ELSE cmds[t]],
           UNCHANGED <<worker, typed, sent>>
    PROVE  [PortLine!TNext]_(PortLine!tvars)
<1>1. ASSUME NEW t \in Consoles
      PROVE  \/ PortPhase(t)' = PortPhase(t)
             \/ PortPhase(t) = "open" /\ PortPhase(t)' = "ending"
    <2>1. CASE t \notin R
        <3>1. cmds'[t] = cmds[t]
            BY <2>1
        <3> QED
            BY <3>1 DEF PortPhase
    <2>2. CASE t \in R
        <3>1. cmds'[t] = Append(cmds[t], x)
            BY <2>2
        <3>2. cmds[t] \in Seq(Keys \cup {Break, CloseCmd})
            BY DEF SerialTypeOK
        <3>3. Contains(cmds'[t], CloseCmd) <=> Contains(cmds[t], CloseCmd) \/ x = CloseCmd
            BY <3>1, <3>2, ContainsMore
        <3>4. worker[t] \in {"drain", "read", "leaving"}
            BY <2>2 DEF Hears
        <3> QED
            BY <3>3, <3>4 DEF PortPhase
    <2> QED
        BY <2>1, <2>2
<1> QED
    BY <1>1, PortsTold

(* What the device gets, and the end of the worker.                         *)
LEMMA PortTakes ==
    ASSUME SerialTypeOK, SerialTypeOK', TypedIsSent', NEW t \in Consoles,
           UNCHANGED typed, PortPhase(t) \in {"open", "ending"},
           PortPhase(t)' \in {PortPhase(t), "over"},
           \A u \in Consoles \ {t} : PortPhase(u)' = PortPhase(u) /\ sent'[u] = sent[u],
           Len(sent[t]) <= Len(sent'[t])
    PROVE  [PortLine!TNext]_(PortLine!tvars)
<1> DEFINE w == sent[t]
           z == sent'[t]
           k == typed[t]
<1>1. w \in Seq(Keys) /\ z \in Seq(Keys) /\ k \in Seq(Keys) /\ IsPrefix(z, k)
    BY DEF SerialTypeOK, TypedIsSent
<1>2. Len(z) \in Nat /\ Len(k) \in Nat /\ Len(z) <= Len(k) /\ z = SubSeq(k, 1, Len(z))
    <2> HIDE DEF z, k
    <2> QED
        BY <1>1, PrefixIsCut
<1>3. Len(z) \in Len(w)..Len(k)
    <2>1. Len(w) \in Nat
        BY <1>1, LenProperties
    <2> QED
        BY <1>2, <2>1
<1>4. \A u \in Consoles \ {t} : PortAt(u)' = PortAt(u)
    BY DEF PortAt
<1> DEFINE a == PortAt(t)
           b == PortAt(t)'
<1>5. a = [phase |-> PortPhase(t), given |-> k, taken |-> w]
    BY DEF PortAt
<1>6. b = [phase |-> PortPhase(t)', given |-> k, taken |-> z]
    BY DEF PortAt
<1> HIDE DEF a, b, w, z, k
<1>7. /\ a.phase \in {"open", "ending"} /\ b.phase \in {a.phase, "over"}
      /\ b.given = a.given /\ a.given = k /\ a.taken = w /\ b.taken = z
    BY <1>5, <1>6
<1>8. Delivers(a, b)
    BY <1>2, <1>3, <1>7 DEF Delivers
<1>9. LineMoves(PortAt(t), PortAt(t)', Keys)
    BY <1>8 DEF LineMoves, a, b
<1> QED
    BY <1>4, <1>9, PortLineStep

LEMMA PortSimulates ==
    SerialInv /\ SerialInv' /\ [SerialNext]_serialVars
        => [PortLine!TNext]_(PortLine!tvars)
<1> SUFFICES ASSUME SerialInv, SerialInv', [SerialNext]_serialVars
             PROVE  [PortLine!TNext]_(PortLine!tvars)
    OBVIOUS
<1>0. SerialTypeOK /\ SerialTypeOK' /\ WorkerOpened /\ TypedIsSent'
    BY DEF SerialInv
<1>1. ASSUME UNCHANGED <<worker, cmds, typed, sent>>
      PROVE  [PortLine!TNext]_(PortLine!tvars)
    BY <1>1, PortQuiet DEF PortPhase
<1>2. ASSUME NEW t \in Consoles,
             OpenSerial(t) \/ Resume(t) \/ Refuse(t) \/ Listen(t) \/ HearExit(t)
      PROVE  [PortLine!TNext]_(PortLine!tvars)
    BY <1>1, <1>2 DEF OpenSerial, Resume, Refuse, Listen, HearExit, Goes, flowVars
<1>3. ASSUME NEW t \in Consoles, SerialConnect(t)
      PROVE  [PortLine!TNext]_(PortLine!tvars)
    <2>1. UNCHANGED <<cmds, typed, sent>> /\ worker[t] = "none"
        BY <1>0, <1>3 DEF SerialConnect, WorkerOpened, flowVars
    <2>2. CASE UNCHANGED worker
        BY <1>1, <2>1, <2>2
    <2>3. CASE worker' = [worker EXCEPT ![t] = "drain"]
        <3>1. worker'[t] = "drain" /\ \A u \in Consoles \ {t} : worker'[u] = worker[u]
            BY <1>0, <2>3 DEF SerialTypeOK
        <3>2. cmds'[t] = <<>>
            BY <1>0, <2>1 DEF WorkerOpened
        <3>3. PortPhase(t) = "new" /\ PortPhase(t)' = "open"
            BY <2>1, <3>1, <3>2, EmptyHoldsNothing DEF PortPhase
        <3>4. \A u \in Consoles \ {t} : PortAt(u)' = PortAt(u)
            <4>1. \A u \in Consoles \ {t} : PortPhase(u)' = PortPhase(u)
                BY <2>1, <3>1 DEF PortPhase
            <4> QED
                BY <2>1, <4>1 DEF PortAt
        <3>5. LineMoves(PortAt(t), PortAt(t)', Keys)
            <4>1. PortAt(t) = [phase |-> "new", given |-> typed[t], taken |-> sent[t]]
                BY <3>3 DEF PortAt
            <4>2. PortAt(t)' = [phase |-> "open", given |-> typed[t], taken |-> sent[t]]
                BY <2>1, <3>3 DEF PortAt
            <4> QED
                BY <4>1, <4>2 DEF LineMoves, Endures
        <3> QED
            BY <1>0, <3>4, <3>5, PortLineStep
    <2> QED
        BY <1>3, <2>2, <2>3 DEF SerialConnect
<1>4. ASSUME NEW t \in Consoles, NEW k \in Keys, SerialWrite(t, k)
      PROVE  [PortLine!TNext]_(PortLine!tvars)
    <2>1. UNCHANGED <<worker, sent>>
        BY <1>4 DEF SerialWrite
    <2>2. CASE cmds' = cmds
        <3>1. typed' = typed
            BY <1>4, <2>2 DEF SerialWrite
        <3> QED
            BY <1>1, <2>1, <2>2, <3>1
    <2>3. CASE cmds' # cmds
        <3>1. /\ cmds' = [cmds EXCEPT ![t] = Append(@, k)] /\ Hears(t)
              /\ typed' = [typed EXCEPT ![t] = Append(@, k)]
            BY <1>4, <2>3 DEF SerialWrite, Tell
        <3>2. /\ cmds'[t] = Append(cmds[t], k) /\ typed'[t] = Append(typed[t], k)
              /\ \A u \in Consoles \ {t} : cmds'[u] = cmds[u] /\ typed'[u] = typed[u]
            BY <1>0, <3>1 DEF SerialTypeOK
        <3>3. Contains(cmds'[t], CloseCmd) <=> Contains(cmds[t], CloseCmd)
            <4>1. cmds[t] \in Seq(Keys \cup {Break, CloseCmd}) /\ k # CloseCmd
                BY <1>0, SerialAssumption DEF SerialTypeOK
            <4> QED
                BY <3>2, <4>1, ContainsMore
        <3>4. PortPhase(t)' = PortPhase(t) /\ PortPhase(t) \in {"open", "ending"}
            BY <2>1, <3>1, <3>3 DEF PortPhase, Hears
        <3>5. \A u \in Consoles \ {t} : PortAt(u)' = PortAt(u)
            <4>1. \A u \in Consoles \ {t} : PortPhase(u)' = PortPhase(u)
                BY <2>1, <3>2 DEF PortPhase
            <4> QED
                BY <2>1, <3>2, <4>1 DEF PortAt
        <3>6. LineMoves(PortAt(t), PortAt(t)', Keys)
            <4> DEFINE a == PortAt(t)
                       b == PortAt(t)'
                       g == typed[t]
                       h == Append(g, k)
            <4>1. a = [phase |-> PortPhase(t), given |-> g, taken |-> sent[t]]
                BY DEF PortAt
            <4>2. b = [phase |-> PortPhase(t), given |-> h, taken |-> sent[t]]
                BY <2>1, <3>2, <3>4 DEF PortAt
            <4> HIDE DEF a, b, h
            <4>3. a.phase \in {"open", "ending"} /\ a.given = g /\ b = [a EXCEPT !.given = h]
                BY <3>4, <4>1, <4>2
            <4>4. LineMoves(a, b, Keys)
                BY <4>3 DEF LineMoves, Endures, h
            <4> QED
                BY <4>4 DEF a, b
        <3> QED
            BY <1>0, <3>5, <3>6, PortLineStep
    <2> QED
        BY <2>2, <2>3
<1>5. ASSUME NEW t \in Consoles, SerialBreak(t)
      PROVE  [PortLine!TNext]_(PortLine!tvars)
    <2> DEFINE R == IF t \in ports /\ Hears(t) THEN {t} ELSE {}
    <2>1. cmds' = [u \in Consoles |-> IF u \in R THEN Append(cmds[u], Break) ELSE cmds[u]]
        BY <1>0, <1>5 DEF SerialBreak, Tell, SerialTypeOK
    <2>2. R \in SUBSET Consoles /\ \A u \in R : Hears(u)
        OBVIOUS
    <2>3. UNCHANGED <<worker, typed, sent>>
        BY <1>5 DEF SerialBreak
    <2> HIDE DEF R
    <2> QED
        BY <1>0, <2>1, <2>2, <2>3, PortOrders
<1>6. ASSUME ReloadPage \/ \E t \in Consoles : CloseTab(t)
      PROVE  [PortLine!TNext]_(PortLine!tvars)
    <2>1. PICK ts \in SUBSET Consoles : ClosePorts(ts)
        BY <1>6 DEF ReloadPage, CloseTab
    <2> DEFINE R == {t \in ts \cap ports : Hears(t)}
    <2>2. cmds' = [t \in Consoles |-> IF t \in R THEN Append(cmds[t], CloseCmd) ELSE cmds[t]]
        BY <2>1 DEF ClosePorts
    <2>3. R \in SUBSET Consoles /\ \A t \in R : Hears(t)
        OBVIOUS
    <2>4. UNCHANGED <<worker, typed, sent>>
        BY <1>6 DEF ReloadPage, CloseTab
    <2> HIDE DEF R
    <2> QED
        BY <1>0, <2>2, <2>3, <2>4, PortOrders
<1>7. ASSUME NEW t \in Consoles, Drain(t)
      PROVE  [PortLine!TNext]_(PortLine!tvars)
    <2> DEFINE C == Keys \cup {Break, CloseCmd}
               q == cmds[t]
               x == Head(q)
    <2>1. q \in Seq(C) /\ q # <<>> /\ worker[t] = "drain" /\ typed' = typed
        BY <1>0, <1>7 DEF Drain, SerialTypeOK
    <2>2. cmds'[t] = Tail(q) /\ \A u \in Consoles \ {t} : cmds'[u] = cmds[u]
        BY <1>0, <1>7 DEF Drain, SerialTypeOK
    <2>3. CASE Exit(t) /\ UNCHANGED sent
        BY <1>0, <2>1, <2>2, <2>3, PortExits
    <2>4. ASSUME x # CloseCmd, UNCHANGED worker
          PROVE  \A u \in Consoles : PortPhase(u)' = PortPhase(u)
        <3>1. Contains(q, CloseCmd) <=> Contains(Tail(q), CloseCmd)
            <4> HIDE DEF q
            <4> QED
                BY <2>1, <2>4, ContainsLess
        <3> QED
            BY <2>2, <2>4, <3>1 DEF PortPhase
    <2>5. CASE x = Break /\ UNCHANGED <<worker, sent>>
        <3>1. x # CloseCmd
            BY <2>5, SerialAssumption
        <3> QED
            BY <2>1, <2>4, <2>5, <3>1, PortQuiet
    <2>6. CASE /\ x # CloseCmd /\ x # Break
               /\ sent' = [sent EXCEPT ![t] = Append(@, x)] /\ UNCHANGED worker
        <3>1. \A u \in Consoles : PortPhase(u)' = PortPhase(u)
            BY <2>4, <2>6
        <3>2. PortPhase(t) \in {"open", "ending"}
            BY <2>1 DEF PortPhase
        <3>3. /\ sent'[t] = Append(sent[t], x)
              /\ \A u \in Consoles \ {t} : sent'[u] = sent[u]
            BY <1>0, <2>6 DEF SerialTypeOK
        <3>4. Len(sent[t]) <= Len(sent'[t])
            <4>1. sent[t] \in Seq(Keys) /\ x \in C
                BY <1>0, <2>1, TailTyped DEF SerialTypeOK
            <4>2. x \in Keys
                BY <2>6, <4>1
            <4> HIDE DEF x
            <4>3. Len(sent[t]) \in Nat /\ Len(Append(sent[t], x)) = Len(sent[t]) + 1
                BY <4>1, <4>2, LenProperties, AppendProperties
            <4> QED
                BY <3>3, <4>3
        <3> QED
            BY <1>0, <2>1, <3>1, <3>2, <3>3, <3>4, PortTakes
    <2> QED
        BY <1>7, <2>3, <2>5, <2>6, SerialAssumption DEF Drain
<1>8. ASSUME NEW t \in Consoles,
             \/ DrainEmpty(t)
             \/ ReadPort(t) /\ worker' = [worker EXCEPT ![t] = "drain"]
      PROVE  [PortLine!TNext]_(PortLine!tvars)
    <2>1. UNCHANGED <<cmds, typed, sent>>
        BY <1>8 DEF DrainEmpty, ReadPort, flowVars
    <2>2. /\ worker[t] \in {"drain", "read"} /\ worker'[t] \in {"drain", "read"}
          /\ \A u \in Consoles \ {t} : worker'[u] = worker[u]
        BY <1>0, <1>8 DEF DrainEmpty, ReadPort, SerialTypeOK
    <2> QED
        BY <2>1, <2>2, PortQuiet DEF PortPhase
<1>9. ASSUME NEW t \in Consoles, ReadPort(t), Exit(t)
      PROVE  [PortLine!TNext]_(PortLine!tvars)
    BY <1>0, <1>9, PortExits DEF ReadPort, flowVars
<1>10. ASSUME NEW t \in Consoles, WorkerReturns(t)
       PROVE  [PortLine!TNext]_(PortLine!tvars)
    <2>1. worker[t] = "leaving" /\ worker'[t] = "ended" /\ UNCHANGED <<typed, sent>>
        BY <1>0, <1>10 DEF WorkerReturns, SerialTypeOK
    <2>2. \A u \in Consoles \ {t} : worker'[u] = worker[u] /\ cmds'[u] = cmds[u]
        BY <1>0, <1>10 DEF WorkerReturns, SerialTypeOK
    <2>3. PortPhase(t) = "ending" /\ PortPhase(t)' = "over"
        BY <2>1 DEF PortPhase
    <2>4. \A u \in Consoles \ {t} : PortPhase(u)' = PortPhase(u)
        BY <2>2 DEF PortPhase
    <2>5. Len(sent[t]) <= Len(sent'[t])
        <3>1. Len(sent[t]) \in Nat
            BY <1>0, LenProperties DEF SerialTypeOK
        <3> QED
            BY <2>1, <3>1
    <2> QED
        BY <1>0, <2>1, <2>3, <2>4, <2>5, PortTakes
<1>11. CASE UNCHANGED serialVars
    BY <1>1, <1>11 DEF serialVars, flowVars
<1>12. ASSUME NEW t \in Consoles, SerialPage(t) \/ SerialWorker(t)
       PROVE  [PortLine!TNext]_(PortLine!tvars)
    BY <1>2, <1>3, <1>7, <1>8, <1>9, <1>10, <1>12 DEF SerialPage, SerialWorker, ReadPort
<1> QED
    BY <1>2, <1>4, <1>5, <1>6, <1>11, <1>12 DEF SerialNext

(* Serial consoles keep the same promise, with a worker, a queue in which   *)
(* Close waits its turn, and a device that may fail.                        *)
THEOREM ConsolesAreTerminals == SerialSpec => PortLine!TSafety
<1>1. SerialInit => PortLine!TInit
    <2> SUFFICES ASSUME SerialInit PROVE PortLine!TInit
        OBVIOUS
    <2>1. \A t \in Consoles : PortPhase(t) = "new"
        BY DEF SerialInit, PortPhase
    <2> QED
        BY <2>1 DEF SerialInit, PortLine!TInit
<1>2. SerialInv /\ SerialInv' /\ [SerialNext]_serialVars
          => [PortLine!TNext]_(PortLine!tvars)
    BY PortSimulates
<1> QED
    BY <1>1, <1>2, SerialInvariant, PTL DEF SerialSpec, PortLine!TSafety

=============================================================================
