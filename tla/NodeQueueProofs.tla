---------------------------- MODULE NodeQueueProofs ----------------------------
(***************************************************************************)
(* Theorems about NodeQueue, for any requests, of whatever classes, and    *)
(* any depths and weights of the class queues.                             *)
(***************************************************************************)
EXTENDS NodeQueue, FiniteSetTheorems, SequenceTheorems, WellFoundedInduction, TLAPS

-----------------------------------------------------------------------------
\* The requests of one class in a sequence of requests.

\* Induction up to n, over the set of the numbers for which a fact holds.
LEMMA UpTo ==
    ASSUME NEW n \in Nat, NEW S, 0 \in S,
           \A k \in 1..n : k - 1 \in S => k \in S
    PROVE  0..n \subseteq S
<1> DEFINE T == {k \in 0..n : k \notin S}
<1> SUFFICES ASSUME T # {} PROVE FALSE
  OBVIOUS
<1>1. PICK m \in T : \A y \in T : ~ (<<y, m>> \in OpToRel(<, Nat))
  <2>1. T \subseteq Nat
    OBVIOUS
  <2> HIDE DEF T
  <2> QED BY <2>1, NatLessThanWellFounded, WFMin
<1>2. m \in 0..n /\ m \notin S
  BY <1>1
<1>3. m \in 1..n /\ m - 1 \in 0..n /\ m - 1 \in Nat /\ m \in Nat /\ m - 1 < m
  BY <1>2
<1>4. <<m - 1, m>> \in OpToRel(<, Nat)
  <2> DEFINE j == m - 1
  <2>1. j \in Nat /\ j < m
    BY <1>3
  <2> HIDE DEF j
  <2>2. <<j, m>> \in OpToRel(<, Nat)
    BY <1>3, <2>1 DEF OpToRel
  <2> QED BY <2>2 DEF j
<1>5. m - 1 \notin T
  BY <1>1, <1>4
<1> QED BY <1>2, <1>3, <1>5

\* g is how OfClass goes through the first n entries of s.
Selects(g, s, c, n) ==
    g = [i \in 0..n |-> IF i = 0 THEN <<>>
                        ELSE IF QueueOf(s[i]) = c THEN Append(g[i - 1], s[i]) ELSE g[i - 1]]

LEMMA SelectionExists ==
    ASSUME NEW s, NEW c, NEW n \in Nat
    PROVE  \E g : Selects(g, s, c, n)
<1> DEFINE S == {m \in Nat : \E g : Selects(g, s, c, m)}
<1>1. 0 \in S
  <2>1. Selects([i \in 0..0 |-> <<>>], s, c, 0)
    BY DEF Selects
  <2> QED BY <2>1
<1>2. ASSUME NEW m \in 1..n, m - 1 \in S PROVE m \in S
  <2>1. PICK g : Selects(g, s, c, m - 1)
    BY <1>2
  <2> DEFINE h == [i \in 0..m |-> IF i < m THEN g[i]
                                  ELSE IF QueueOf(s[m]) = c THEN Append(g[m - 1], s[m])
                                  ELSE g[m - 1]]
  <2>2. ASSUME NEW i \in 0..m
        PROVE  h[i] = IF i = 0 THEN <<>>
                      ELSE IF QueueOf(s[i]) = c THEN Append(h[i - 1], s[i]) ELSE h[i - 1]
    <3>1. CASE i = m
      BY <3>1
    <3>2. CASE i # m
      <4>1. i \in 0..(m - 1) /\ h[i] = g[i]
        BY <3>2
      <4>2. i # 0 => h[i - 1] = g[i - 1]
        <5>1. i # 0 => i - 1 \in 0..m /\ i - 1 < m
          BY <4>1
        <5> QED BY <5>1
      <4>3. g[i] = IF i = 0 THEN <<>>
                   ELSE IF QueueOf(s[i]) = c THEN Append(g[i - 1], s[i]) ELSE g[i - 1]
        BY <2>1, <4>1 DEF Selects
      <4> HIDE DEF h
      <4> QED BY <4>1, <4>2, <4>3
    <3> QED BY <3>1, <3>2
  <2>3. Selects(h, s, c, m)
    BY <2>2 DEF Selects
  <2>4. m \in Nat
    OBVIOUS
  <2> HIDE DEF h
  <2> QED BY <2>3, <2>4
<1>3. 0..n \subseteq S
  <2> HIDE DEF S
  <2> QED BY <1>1, <1>2, UpTo
<1> QED BY <1>3

LEMMA SelectionIsUnique ==
    ASSUME NEW n \in Nat, NEW m \in Nat, n <= m, NEW c, NEW s, NEW t, NEW g, NEW h,
           Selects(g, s, c, n), Selects(h, t, c, m),
           \A i \in 1..n : s[i] = t[i]
    PROVE  g[n] = h[n]
<1> DEFINE S == {k \in 0..n : g[k] = h[k]}
<1>1. 0 \in S
  BY DEF Selects
<1>2. ASSUME NEW k \in 1..n, k - 1 \in S PROVE k \in S
  <2>1. /\ k \in 0..n /\ k \in 0..m /\ k # 0 /\ s[k] = t[k] /\ g[k - 1] = h[k - 1]
    BY <1>2
  <2>2. g[k] = IF QueueOf(s[k]) = c THEN Append(g[k - 1], s[k]) ELSE g[k - 1]
    BY <2>1 DEF Selects
  <2>3. h[k] = IF QueueOf(t[k]) = c THEN Append(h[k - 1], t[k]) ELSE h[k - 1]
    BY <2>1 DEF Selects
  <2> QED BY <2>1, <2>2, <2>3
<1>3. 0..n \subseteq S
  <2> HIDE DEF S
  <2> QED BY <1>1, <1>2, UpTo
<1> QED BY <1>3

LEMMA OfClassSelects ==
    ASSUME NEW s, NEW c, Len(s) \in Nat
    PROVE  \E g : Selects(g, s, c, Len(s)) /\ OfClass(s, c) = g[Len(s)]
<1> DEFINE g == CHOOSE g : Selects(g, s, c, Len(s))
<1>1. Selects(g, s, c, Len(s))
  <2>1. \E f : Selects(f, s, c, Len(s))
    BY SelectionExists
  <2> QED BY <2>1
<1>2. OfClass(s, c) = g[Len(s)]
  BY DEF OfClass, Selects
<1> HIDE DEF g
<1> QED BY <1>1, <1>2

LEMMA OfClassEmpty ==
    ASSUME NEW c
    PROVE  OfClass(<<>>, c) = <<>>
<1>1. Len(<<>>) = 0
  OBVIOUS
<1>2. PICK g : Selects(g, <<>>, c, 0) /\ OfClass(<<>>, c) = g[0]
  BY <1>1, OfClassSelects
<1> QED BY <1>2 DEF Selects

LEMMA OfClassAppend ==
    ASSUME NEW S, NEW s \in Seq(S), NEW x \in S, NEW c
    PROVE  OfClass(Append(s, x), c)
             = IF QueueOf(x) = c THEN Append(OfClass(s, c), x) ELSE OfClass(s, c)
<1> DEFINE t == Append(s, x)
           n == Len(s)
<1>1. n \in Nat /\ Len(t) = n + 1 /\ t[n + 1] = x /\ \A i \in 1..n : s[i] = t[i]
  OBVIOUS
<1>2. PICK g : Selects(g, s, c, n) /\ OfClass(s, c) = g[n]
  BY <1>1, OfClassSelects
<1> HIDE DEF t, n
<1>3. PICK h : Selects(h, t, c, n + 1) /\ OfClass(t, c) = h[n + 1]
  BY <1>1, OfClassSelects
<1>4. g[n] = h[n]
  BY <1>1, <1>2, <1>3, SelectionIsUnique
<1>5. h[n + 1] = IF QueueOf(t[n + 1]) = c THEN Append(h[n], t[n + 1]) ELSE h[n]
  <2>1. n + 1 \in 0..(n + 1) /\ n + 1 # 0 /\ (n + 1) - 1 = n
    BY <1>1
  <2> QED BY <1>3, <2>1 DEF Selects
<1> QED BY <1>1, <1>2, <1>3, <1>4, <1>5 DEF t

\* What OfClass selects is of the class.
LEMMA OfClassType ==
    ASSUME NEW S, NEW s \in Seq(S), NEW c
    PROVE  /\ OfClass(s, c) \in Seq(S)
           /\ \A i \in 1..Len(OfClass(s, c)) : QueueOf(OfClass(s, c)[i]) = c
<1> DEFINE n == Len(s)
<1>1. n \in Nat /\ \A i \in 1..n : s[i] \in S
  OBVIOUS
<1>2. PICK g : Selects(g, s, c, n) /\ OfClass(s, c) = g[n]
  BY <1>1, OfClassSelects
<1> HIDE DEF n
<1> DEFINE K == {k \in 0..n : g[k] \in Seq(S) /\ \A i \in 1..Len(g[k]) : QueueOf(g[k][i]) = c}
<1>3. 0 \in K
  <2>1. 0 \in 0..n
    BY <1>1
  <2>2. g[0] = <<>>
    BY <1>2, <2>1 DEF Selects
  <2>3. <<>> \in Seq(S) /\ Len(<<>>) = 0
    OBVIOUS
  <2>4. g[0] \in Seq(S) /\ \A i \in 1..Len(g[0]) : QueueOf(g[0][i]) = c
    <3> DEFINE u == g[0]
    <3>1. u \in Seq(S) /\ Len(u) = 0
      BY <2>2, <2>3
    <3> HIDE DEF u
    <3>2. \A i \in 1..Len(u) : QueueOf(u[i]) = c
      BY <3>1
    <3> QED BY <3>1, <3>2 DEF u
  <2> QED BY <2>1, <2>4
<1>4. ASSUME NEW k \in 1..n, k - 1 \in K PROVE k \in K
  <2>1. k \in 0..n /\ k # 0 /\ s[k] \in S
    BY <1>1
  <2>2. g[k] = IF QueueOf(s[k]) = c THEN Append(g[k - 1], s[k]) ELSE g[k - 1]
    BY <1>2, <2>1 DEF Selects
  <2> DEFINE u == g[k - 1]
  <2>3. u \in Seq(S) /\ \A i \in 1..Len(u) : QueueOf(u[i]) = c
    BY <1>4
  <2> HIDE DEF u
  <2>4. CASE QueueOf(s[k]) = c
    <3>1. g[k] = Append(u, s[k])
      BY <2>2, <2>4 DEF u
    <3>2. /\ g[k] \in Seq(S) /\ Len(g[k]) = Len(u) + 1 /\ Len(u) \in Nat
          /\ \A i \in 1..Len(u) : g[k][i] = u[i]
          /\ g[k][Len(u) + 1] = s[k]
      BY <2>1, <2>3, <3>1
    <3>3. ASSUME NEW i \in 1..Len(g[k]) PROVE QueueOf(g[k][i]) = c
      <4>1. i \in 1..Len(u) \/ i = Len(u) + 1
        BY <3>2
      <4> QED BY <2>3, <2>4, <3>2, <4>1
    <3> QED BY <2>1, <3>2, <3>3
  <2>5. CASE QueueOf(s[k]) # c
    BY <2>1, <2>2, <2>3, <2>5 DEF u
  <2> QED BY <2>4, <2>5
<1>5. 0..n \subseteq K
  <2> HIDE DEF K
  <2> QED BY <1>1, <1>3, <1>4, UpTo
<1>6. n \in K
  BY <1>1, <1>5
<1> QED BY <1>2, <1>6

\* A prefix is the one before it with one entry more.
LEMMA PrefixGrows ==
    ASSUME NEW S, NEW s \in Seq(S), NEW k \in 1..Len(s)
    PROVE  /\ SubSeq(s, 1, k - 1) \in Seq(S) /\ s[k] \in S
           /\ SubSeq(s, 1, k) = Append(SubSeq(s, 1, k - 1), s[k])
<1>1. Len(s) \in Nat /\ k \in Nat /\ s[k] \in S /\ k - 1 \in Int
  OBVIOUS
<1>2. SubSeq(s, 1, k) = SubSeq(s, 1, k - 1) \o <<s[k]>>
  <2>1. 1 \in 1..Len(s) /\ k \in 1..Len(s)
    BY <1>1
  <2> QED BY <2>1, SubSeqRecursiveSecond
<1>3. SubSeq(s, 1, k - 1) \in Seq(S)
  <2>1. \A i \in 1..(k - 1) : s[i] \in S
    BY <1>1
  <2> QED BY <1>1, <2>1, SubSeqProperties
<1>4. Append(SubSeq(s, 1, k - 1), s[k]) = SubSeq(s, 1, k - 1) \o <<s[k]>>
  BY <1>1, <1>3, AppendIsConcat
<1> QED BY <1>1, <1>2, <1>3, <1>4

LEMMA PrefixEnds ==
    ASSUME NEW S, NEW s \in Seq(S)
    PROVE  SubSeq(s, 1, 0) = <<>> /\ SubSeq(s, 1, Len(s)) = s /\ Len(s) \in Nat
<1>1. SubSeq(s, 1, 0) = <<>>
  BY SubSeqEmpty
<1>2. SubSeq(s, 1, Len(s)) = s
  BY SubSeqFull
<1> QED BY <1>1, <1>2

LEMMA ConcatAppend ==
    \A S : \A s, t \in Seq(S), x \in S : s \o Append(t, x) = Append(s \o t, x)
<1> TAKE S
<1> TAKE s, t \in Seq(S), x \in S
<1>1. Append(t, x) = t \o <<x>> /\ <<x>> \in Seq(S)
  BY AppendIsConcat
<1>2. Append(s \o t, x) = (s \o t) \o <<x>>
  <2>1. s \o t \in Seq(S)
    BY ConcatProperties
  <2> QED BY <2>1, AppendIsConcat
<1> QED BY <1>1, <1>2, ConcatAssociative

\* Of two sequences one after the other it selects what it selects of each.
LEMMA OfClassConcat ==
    ASSUME NEW S, NEW s \in Seq(S), NEW t \in Seq(S), NEW c
    PROVE  OfClass(s \o t, c) = OfClass(s, c) \o OfClass(t, c)
<1> DEFINE P(u) == OfClass(s \o u, c) = OfClass(s, c) \o OfClass(u, c)
           n == Len(t)
           K == {k \in 0..n : P(SubSeq(t, 1, k))}
<1>1. n \in Nat /\ SubSeq(t, 1, 0) = <<>> /\ SubSeq(t, 1, n) = t
  BY PrefixEnds
<1>2. OfClass(s, c) \in Seq(S)
  BY OfClassType
<1>3. P(<<>>)
  BY <1>2, OfClassEmpty, ConcatEmptySeq
<1>4. 0 \in K
  <2>8. 0 \in 0..n
    BY <1>1
  <2>9. P(SubSeq(t, 1, 0))
    BY ONLY <1>1, <1>3, Zenon
  <2> HIDE DEF P, n
  <2> QED BY <2>8, <2>9
<1>5. ASSUME NEW k \in 1..n, k - 1 \in K PROVE k \in K
  <2> DEFINE u == SubSeq(t, 1, k - 1)
             x == t[k]
  <2>1. u \in Seq(S) /\ x \in S /\ SubSeq(t, 1, k) = Append(u, x) /\ P(u)
    BY <1>5, PrefixGrows
  <2> HIDE DEF u, x
  <2>2. s \o u \in Seq(S)
    BY <2>1, ConcatProperties
  <2>3. OfClass(s \o Append(u, x), c)
           = IF QueueOf(x) = c THEN Append(OfClass(s \o u, c), x) ELSE OfClass(s \o u, c)
    <3>1. s \o Append(u, x) = Append(s \o u, x)
      BY ONLY <2>1, s \in Seq(S), ConcatAppend
    <3>2. OfClass(Append(s \o u, x), c)
             = IF QueueOf(x) = c THEN Append(OfClass(s \o u, c), x) ELSE OfClass(s \o u, c)
      BY ONLY <2>1, <2>2, OfClassAppend
    <3> QED BY ONLY <3>1, <3>2, Zenon
  <2>4. OfClass(Append(u, x), c)
           = IF QueueOf(x) = c THEN Append(OfClass(u, c), x) ELSE OfClass(u, c)
    BY <2>1, OfClassAppend
  <2>5. OfClass(u, c) \in Seq(S)
    BY <2>1, OfClassType
  <2>6. Append(OfClass(s, c) \o OfClass(u, c), x) = OfClass(s, c) \o Append(OfClass(u, c), x)
    <3>1. PICK p \in Seq(S), q \in Seq(S) : p = OfClass(s, c) /\ q = OfClass(u, c)
      BY <1>2, <2>5
    <3>2. p \o Append(q, x) = Append(p \o q, x)
      BY ONLY <2>1, p \in Seq(S), q \in Seq(S), ConcatAppend, SMTT(30)
    <3> QED BY ONLY <3>1, <3>2, Zenon
  <2>7. P(Append(u, x))
    <3>1. CASE QueueOf(x) = c
      BY ONLY <2>1, <2>3, <2>4, <2>6, <3>1, Zenon DEF P
    <3>2. CASE QueueOf(x) # c
      BY ONLY <2>1, <2>3, <2>4, <3>2, Zenon DEF P
    <3> QED BY <3>1, <3>2
  <2>8. k \in 0..n
    BY <1>1
  <2> HIDE DEF P, n
  <2> QED BY <2>1, <2>7, <2>8
<1>6. 0..n \subseteq K
  <2> HIDE DEF K, n
  <2> QED BY <1>1, <1>4, <1>5, UpTo
<1>7. n \in K
  <2> HIDE DEF K, n
  <2> QED BY <1>1, <1>6
<1> QED BY <1>1, <1>7

\* All of a sequence of one class, and nothing of it for another class.
LEMMA OfClassSame ==
    ASSUME NEW S, NEW t \in Seq(S), NEW d, \A i \in 1..Len(t) : QueueOf(t[i]) = d, NEW c
    PROVE  OfClass(t, c) = IF c = d THEN t ELSE <<>>
<1> DEFINE P(u) == OfClass(u, c) = IF c = d THEN u ELSE <<>>
           n == Len(t)
           K == {k \in 0..n : P(SubSeq(t, 1, k))}
<1>1. n \in Nat /\ SubSeq(t, 1, 0) = <<>> /\ SubSeq(t, 1, n) = t
  BY PrefixEnds
<1>2. 0 \in K
  <2>1. P(<<>>)
    BY OfClassEmpty
  <2>8. 0 \in 0..n
    BY <1>1
  <2>9. P(SubSeq(t, 1, 0))
    BY ONLY <1>1, <2>1, Zenon
  <2> HIDE DEF P, n
  <2> QED BY <2>8, <2>9
<1>3. ASSUME NEW k \in 1..n, k - 1 \in K PROVE k \in K
  <2> DEFINE u == SubSeq(t, 1, k - 1)
             x == t[k]
  <2>1. u \in Seq(S) /\ x \in S /\ SubSeq(t, 1, k) = Append(u, x) /\ P(u)
    BY <1>3, PrefixGrows
  <2>2. QueueOf(x) = d
    OBVIOUS
  <2> HIDE DEF u, x
  <2>3. OfClass(Append(u, x), c)
           = IF QueueOf(x) = c THEN Append(OfClass(u, c), x) ELSE OfClass(u, c)
    BY <2>1, OfClassAppend
  <2>4. P(Append(u, x))
    BY <2>1, <2>2, <2>3
  <2>5. k \in 0..n
    BY <1>1
  <2> HIDE DEF P, n
  <2> QED BY <2>1, <2>4, <2>5
<1>4. 0..n \subseteq K
  <2> HIDE DEF K, n
  <2> QED BY <1>1, <1>2, <1>3, UpTo
<1>5. n \in K
  <2> HIDE DEF K, n
  <2> QED BY <1>1, <1>4
<1> QED BY <1>1, <1>5

\* It takes from the front what is taken there.
LEMMA OfClassHead ==
    ASSUME NEW S, NEW s \in Seq(S), s # <<>>, NEW c
    PROVE  OfClass(s, c) = (IF QueueOf(Head(s)) = c THEN <<Head(s)>> ELSE <<>>)
                             \o OfClass(Tail(s), c)
<1> DEFINE x == Head(s)
           t == Tail(s)
<1>1. x \in S /\ t \in Seq(S) /\ s = <<x>> \o t
  <2>1. x \in S /\ t \in Seq(S)
    BY HeadTailProperties
  <2>2. s = <<x>> \o t
    OBVIOUS
  <2> QED BY <2>1, <2>2
<1> HIDE DEF x, t
<1>2. <<x>> \in Seq(S) /\ \A i \in 1..Len(<<x>>) : QueueOf(<<x>>[i]) = QueueOf(x)
  BY <1>1
<1>3. OfClass(<<x>>, c) = IF c = QueueOf(x) THEN <<x>> ELSE <<>>
  BY <1>2, OfClassSame
<1>4. OfClass(s, c) = OfClass(<<x>>, c) \o OfClass(t, c)
  <2> DEFINE y == <<x>>
  <2>1. y \in Seq(S) /\ t \in Seq(S) /\ s = y \o t
    BY <1>1, <1>2
  <2> HIDE DEF y
  <2>2. OfClass(y \o t, c) = OfClass(y, c) \o OfClass(t, c)
    BY <2>1, OfClassConcat
  <2> QED BY ONLY <2>1, <2>2, Zenon DEF y
<1> QED BY <1>3, <1>4 DEF x, t
-----------------------------------------------------------------------------
\* The inductive invariant, in parts.

Accepted == {accepted[i] : i \in DOMAIN accepted}

\* What is anywhere in the node was accepted, and waits in the queue of its class.
Known ==
    /\ running \subseteq Accepted /\ completed \subseteq Accepted
    /\ output \in Seq(Accepted)
    /\ \A c \in Class : queues[c] \in Seq({r \in Accepted : QueueOf(r) = c})

NodeInv == NodeTypeOK /\ Known /\ FifoPerClass

-----------------------------------------------------------------------------
\* What a cycle of the scheduler takes from a queue and what it leaves there.

\* A queue cut in two.
LEMMA CutQueue ==
    ASSUME NEW S, NEW q \in Seq(S), NEW k \in 0..Len(q)
    PROVE  /\ SubSeq(q, 1, k) \in Seq(S) /\ Len(SubSeq(q, 1, k)) = k
           /\ \A i \in 1..k : SubSeq(q, 1, k)[i] = q[i]
           /\ SubSeq(q, k + 1, Len(q)) \in Seq(S) /\ Len(SubSeq(q, k + 1, Len(q))) = Len(q) - k
           /\ SubSeq(q, 1, k) \o SubSeq(q, k + 1, Len(q)) = q
<1> DEFINE n == Len(q)
<1>1. n \in Nat /\ \A i \in 1..n : q[i] \in S
  OBVIOUS
<1>2. SubSeq(q, 1, n) = q
  BY SubSeqFull
<1>3. k \in Int /\ k + 1 \in Int /\ k \in Nat
  OBVIOUS
<1>4. SubSeq(q, 1, k) \in Seq(S) /\ Len(SubSeq(q, 1, k)) = k
      /\ \A i \in 1..k : SubSeq(q, 1, k)[i] = q[i]
  <2>1. \A i \in 1..k : q[i] \in S
    BY <1>1
  <2>2. /\ SubSeq(q, 1, k) \in Seq(S)
        /\ Len(SubSeq(q, 1, k)) = IF 1 <= k THEN k - 1 + 1 ELSE 0
        /\ \A i \in 1..(k - 1 + 1) : SubSeq(q, 1, k)[i] = q[1 + i - 1]
    BY ONLY <1>3, <2>1, SubSeqProperties
  <2>3. (IF 1 <= k THEN k - 1 + 1 ELSE 0) = k /\ k - 1 + 1 = k /\ \A i \in 1..k : 1 + i - 1 = i
    BY <1>3
  <2> QED BY <2>2, <2>3
<1>5. SubSeq(q, k + 1, n) \in Seq(S) /\ Len(SubSeq(q, k + 1, n)) = n - k
  <2>1. \A i \in (k + 1)..n : q[i] \in S
    BY <1>1, <1>3
  <2>2. k <= n
    OBVIOUS
  <2> HIDE DEF n
  <2>3. /\ SubSeq(q, k + 1, n) \in Seq(S)
        /\ Len(SubSeq(q, k + 1, n)) = IF k + 1 <= n THEN n - (k + 1) + 1 ELSE 0
    BY <1>1, <1>3, <2>1, SubSeqProperties
  <2> QED BY <1>1, <1>3, <2>2, <2>3
<1>6. SubSeq(q, 1, k) \o SubSeq(q, k + 1, n) = SubSeq(q, 1, n)
  <2>1. 1 \in 1..(Len(q) + 1) /\ k \in (1 - 1)..Len(q) /\ n \in k..Len(q)
    BY <1>1
  <2> HIDE DEF n
  <2> QED BY <2>1, ConcatAdjacentSubSeq
<1> QED BY <1>2, <1>4, <1>5, <1>6

\* A share is part of the queue, and at most the weight.
LEMMA ShareFacts ==
    ASSUME NEW S, NEW c \in Class, queues[c] \in Seq(S)
    PROVE  /\ Share(c) \in 0..Len(queues[c]) /\ Share(c) \in Nat /\ Share(c) <= Weight[c]
           /\ Share(c) < Weight[c] => Share(c) = Len(queues[c])
<1>1. Len(queues[c]) \in Nat /\ Weight[c] \in Nat \ {0}
  BY NodeAssumption
<1> QED BY <1>1 DEF Share

\* What the next cycle takes of each class, and what it leaves.
Take(c) == SubSeq(queues[c], 1, Share(c))
Leave(c) == SubSeq(queues[c], Share(c) + 1, Len(queues[c]))

LEMMA TakeAndLeave ==
    ASSUME NEW S, NEW c \in Class, queues[c] \in Seq(S)
    PROVE  /\ Take(c) \in Seq(S) /\ Len(Take(c)) = Share(c)
           /\ Leave(c) \in Seq(S) /\ Len(Leave(c)) = Len(queues[c]) - Share(c)
           /\ Take(c) \o Leave(c) = queues[c]
<1> DEFINE q == queues[c]
           k == Share(c)
<1>1. q \in Seq(S) /\ k \in 0..Len(q)
  BY ShareFacts
<1> HIDE DEF q, k
<1>2. /\ SubSeq(q, 1, k) \in Seq(S) /\ Len(SubSeq(q, 1, k)) = k
      /\ SubSeq(q, k + 1, Len(q)) \in Seq(S) /\ Len(SubSeq(q, k + 1, Len(q))) = Len(q) - k
      /\ SubSeq(q, 1, k) \o SubSeq(q, k + 1, Len(q)) = q
  BY <1>1, CutQueue
<1> QED BY <1>2 DEF q, k, Take, Leave

\* A cycle takes the share of each class from the front of its queue.
LEMMA CycleTakes ==
    ASSUME NEW S, \A c \in Class : queues[c] \in Seq({r \in S : QueueOf(r) = c})
    PROVE  /\ CycleOrder \in Seq(S)
           /\ \A c \in Class : OfClass(CycleOrder, c) = Take(c)
<1> DEFINE L == Take("Light")
           M == Take("Medium")
           H == Take("Heavy")
<1>1. ASSUME NEW c \in Class
      PROVE  /\ Take(c) \in Seq(S)
             /\ \A d : OfClass(Take(c), d) = IF d = c THEN Take(c) ELSE <<>>
  <2> DEFINE Q == {r \in S : QueueOf(r) = c}
             t == Take(c)
  <2>1. t \in Seq(Q)
    BY TakeAndLeave
  <2>2. Q \subseteq S /\ \A r \in Q : QueueOf(r) = c
    OBVIOUS
  <2> HIDE DEF Q, t
  <2>3. t \in Seq(S)
    BY <2>1, <2>2, SeqMonotonic
  <2>4. \A i \in 1..Len(t) : QueueOf(t[i]) = c
    BY <2>1, <2>2
  <2>5. \A d : OfClass(t, d) = IF d = c THEN t ELSE <<>>
    BY <2>3, <2>4, OfClassSame
  <2> QED BY <2>3, <2>5 DEF t
<1>2. /\ L \in Seq(S) /\ M \in Seq(S) /\ H \in Seq(S)
      /\ \A d : OfClass(L, d) = IF d = "Light" THEN L ELSE <<>>
      /\ \A d : OfClass(M, d) = IF d = "Medium" THEN M ELSE <<>>
      /\ \A d : OfClass(H, d) = IF d = "Heavy" THEN H ELSE <<>>
  BY <1>1 DEF Class
<1>3. CycleOrder = (L \o M) \o H
  BY DEF CycleOrder, Take
<1>4. \A c \in Class : Take(c) = IF c = "Light" THEN L ELSE IF c = "Medium" THEN M ELSE H
  BY DEF Class
<1> HIDE DEF L, M, H
<1>5. L \o M \in Seq(S) /\ (L \o M) \o H \in Seq(S)
  BY <1>2, ConcatProperties
<1>6. ASSUME NEW c \in Class PROVE OfClass(CycleOrder, c) = Take(c)
  <2>1. OfClass((L \o M) \o H, c) = OfClass(L \o M, c) \o OfClass(H, c)
    <3> DEFINE u == L \o M
    <3>1. u \in Seq(S) /\ H \in Seq(S)
      BY <1>2, <1>5
    <3> HIDE DEF u
    <3>2. OfClass(u \o H, c) = OfClass(u, c) \o OfClass(H, c)
      BY ONLY <3>1, OfClassConcat, SMTT(30)
    <3> QED BY ONLY <3>2, Zenon DEF u
  <2>2. OfClass(L \o M, c) = OfClass(L, c) \o OfClass(M, c)
    BY <1>2, OfClassConcat
  <2>3. L \o <<>> = L /\ <<>> \o M = M /\ <<>> \o <<>> = <<>> /\ <<>> \o H = H
        /\ M \o <<>> = M
    BY <1>2, ConcatEmptySeq
  <2>4. CASE c = "Light"
    BY <1>2, <1>3, <1>4, <2>1, <2>2, <2>3, <2>4
  <2>5. CASE c = "Medium"
    BY <1>2, <1>3, <1>4, <2>1, <2>2, <2>3, <2>5
  <2>6. CASE c = "Heavy"
    BY <1>2, <1>3, <1>4, <2>1, <2>2, <2>3, <2>6
  <2> QED BY <2>4, <2>5, <2>6 DEF Class
<1> QED BY <1>3, <1>5, <1>6

-----------------------------------------------------------------------------
\* The invariant is inductive.

LEMMA AcceptedIsRange ==
    ASSUME NodeTypeOK
    PROVE  /\ Accepted \subseteq Req /\ accepted \in Seq(Req) /\ Len(accepted) \in Nat
           /\ Accepted = {accepted[i] : i \in 1..Len(accepted)}
           /\ \A r \in Req : QueueOf(r) \in Class
<1>1. accepted \in Seq(Req)
  BY DEF NodeTypeOK
<1>2. \A r \in Req : QueueOf(r) \in Class
  BY NodeAssumption DEF QueueOf, WireClass, Class
<1> QED BY <1>1, <1>2 DEF Accepted

\* A queue may be regarded as one of any requests among which its own are.
LEMMA QueueTypes ==
    ASSUME NodeTypeOK, Known, NEW c \in Class
    PROVE  /\ queues[c] \in Seq(Req) /\ queues[c] \in Seq(Accepted)
           /\ output \in Seq(Req) /\ taken \in Seq(Req)
           /\ \A i \in 1..Len(queues[c]) : QueueOf(queues[c][i]) = c
<1> DEFINE Q == {r \in Accepted : QueueOf(r) = c}
           q == queues[c]
<1>1. q \in Seq(Q) /\ Q \subseteq Accepted /\ \A r \in Q : QueueOf(r) = c
  BY DEF Known
<1>2. q \in Seq(Req) /\ output \in Seq(Req) /\ taken \in Seq(Req)
  BY DEF NodeTypeOK
<1> HIDE DEF Q, q
<1>3. q \in Seq(Accepted)
  BY <1>1, SeqMonotonic
<1>4. \A i \in 1..Len(q) : QueueOf(q[i]) = c
  BY <1>1
<1> QED BY <1>2, <1>3, <1>4 DEF q

LEMMA NodeInitInv == Init => NodeInv
<1> SUFFICES ASSUME Init PROVE NodeInv
  OBVIOUS
<1>1. NodeTypeOK
  BY NodeAssumption DEF Init, NodeTypeOK
<1>2. Known
  BY DEF Init, Known
<1>3. FifoPerClass
  <2> SUFFICES ASSUME NEW c \in Class
               PROVE  OfClass(accepted, c) = OfClass(taken \o output, c) \o queues[c]
    BY DEF FifoPerClass
  <2>1. accepted = <<>> /\ taken = <<>> /\ output = <<>> /\ queues[c] = <<>>
    BY DEF Init
  <2>2. <<>> \o <<>> = <<>>
    OBVIOUS
  <2> QED BY <2>1, <2>2, OfClassEmpty
<1> QED BY <1>1, <1>2, <1>3 DEF NodeInv

\* A request is accepted.
LEMMA AcceptKeeps ==
    ASSUME NodeInv, NEW r \in Req, AcceptRequest(r),
           UNCHANGED <<holder, output, running, completed, taken, drained>>
    PROVE  NodeInv'
<1> DEFINE d == QueueOf(r)
<1>1. NodeTypeOK /\ Known /\ FifoPerClass
  BY DEF NodeInv
<1>2. d \in Class /\ accepted \in Seq(Req)
  BY <1>1, AcceptedIsRange
<1>3. /\ queues' = [queues EXCEPT ![d] = Append(@, r)] /\ Len(queues[d]) < MaxDepth[d]
      /\ reported' = [Depths EXCEPT ![d] = @ + 1] /\ accepted' = Append(accepted, r)
      /\ rejected' = rejected
  BY DEF AcceptRequest
<1> HIDE DEF d
<1>4. \A c \in Class : queues[c] \in Seq(Req) /\ Len(queues[c]) \in Nat
                       /\ MaxDepth[c] \in Nat /\ Len(queues[c]) <= MaxDepth[c]
  BY <1>1, NodeAssumption DEF NodeTypeOK
<1>5. /\ queues'[d] = Append(queues[d], r)
      /\ \A c \in Class : c # d => queues'[c] = queues[c]
      /\ queues' \in [Class -> Seq(Req)]
      /\ Len(queues'[d]) = Len(queues[d]) + 1
  <2>1. queues \in [Class -> Seq(Req)]
    BY <1>1 DEF NodeTypeOK
  <2>2. queues[d] \in Seq(Req)
    BY <1>2, <2>1
  <2>3. Append(queues[d], r) \in Seq(Req)
    BY <2>2
  <2>4. queues'[d] = Append(queues[d], r) /\ queues' \in [Class -> Seq(Req)]
    BY <1>2, <1>3, <2>1, <2>3
  <2> QED BY <1>3, <2>1, <2>2, <2>4
<1>6. NodeTypeOK'
  <2>1. reported' \in [Class -> Nat]
    BY <1>2, <1>3, <1>4 DEF Depths
  <2>2. accepted' \in Seq(Req)
    BY <1>2, <1>3
  <2>3. ASSUME NEW c \in Class PROVE Len(queues'[c]) <= MaxDepth[c]
    BY <1>2, <1>3, <1>4, <1>5
  <2> QED BY <1>1, <1>3, <1>5, <2>1, <2>2, <2>3 DEF NodeTypeOK
<1>7. Accepted \subseteq Accepted' /\ r \in Accepted'
  <2>1. /\ Len(accepted) \in Nat /\ Len(accepted') = Len(accepted) + 1
        /\ accepted'[Len(accepted) + 1] = r
        /\ \A i \in 1..Len(accepted) : accepted'[i] = accepted[i]
    BY <1>2, <1>3
  <2>2. Accepted = {accepted[i] : i \in 1..Len(accepted)}
        /\ Accepted' = {accepted'[i] : i \in 1..Len(accepted')}
    <3>1. accepted' \in Seq(Req)
      BY <1>6 DEF NodeTypeOK
    <3>2. DOMAIN accepted' = 1..Len(accepted')
      BY <3>1
    <3>3. Accepted' = {accepted'[i] : i \in 1..Len(accepted')}
      BY <3>2 DEF Accepted
    <3> QED BY <1>1, <3>3, AcceptedIsRange
  <2> QED BY <2>1, <2>2
<1>8. Known'
  <2>1. output' \in Seq(Accepted')
    BY <1>1, <1>7, SeqMonotonic DEF Known
  <2>2. ASSUME NEW c \in Class PROVE queues'[c] \in Seq({x \in Accepted' : QueueOf(x) = c})
    <3> DEFINE Q == {x \in Accepted : QueueOf(x) = c}
               T == {x \in Accepted' : QueueOf(x) = c}
    <3>1. queues[c] \in Seq(Q) /\ Q \subseteq T
      BY <1>1, <1>7 DEF Known
    <3>2. c = d => r \in T
      BY <1>7 DEF d
    <3> HIDE DEF Q, T
    <3>3. queues[c] \in Seq(T)
      BY <3>1, SeqMonotonic
    <3>4. CASE c = d
      <4>1. Append(queues[c], r) \in Seq(T)
        BY <3>2, <3>3, <3>4
      <4> QED BY <1>5, <3>4, <4>1 DEF T
    <3>5. CASE c # d
      BY <1>5, <3>3, <3>5 DEF T
    <3> QED BY <3>4, <3>5
  <2> QED BY <1>1, <1>7, <2>1, <2>2 DEF Known
<1>9. FifoPerClass'
  <2> SUFFICES ASSUME NEW c \in Class
               PROVE  OfClass(accepted', c) = OfClass(taken \o output, c) \o queues'[c]
    BY DEF FifoPerClass
  <2> DEFINE a == OfClass(taken \o output, c)
  <2>1. OfClass(accepted, c) = a \o queues[c]
    BY <1>1 DEF FifoPerClass
  <2>2. OfClass(Append(accepted, r), c)
          = IF QueueOf(r) = c THEN Append(OfClass(accepted, c), r) ELSE OfClass(accepted, c)
    BY <1>2, OfClassAppend
  <2>3. a \in Seq(Req)
    <3>1. output \in Seq(Req) /\ taken \in Seq(Req)
      BY <1>1 DEF NodeTypeOK
    <3>2. taken \o output \in Seq(Req)
      BY <3>1, ConcatProperties
    <3> QED BY <3>2, OfClassType
  <2> HIDE DEF a
  <2>4. a \o Append(queues[c], r) = Append(a \o queues[c], r)
    <3>1. queues[c] \in Seq(Req)
      BY <1>4
    <3> QED BY ONLY <2>3, <3>1, r \in Req, ConcatAppend
  <2>5. CASE c = d
    BY <1>3, <1>5, <2>1, <2>2, <2>4, <2>5 DEF d, a
  <2>6. CASE c # d
    BY <1>3, <1>5, <2>1, <2>2, <2>6 DEF d, a
  <2> QED BY <2>5, <2>6
<1> QED BY <1>6, <1>8, <1>9 DEF NodeInv

\* The scheduler moves the shares of a cycle to the output queue, which changes for
\* no class what waits in the two of them.
LEMMA CycleMoves ==
    ASSUME NodeTypeOK, Known, ScheduleCycle, NEW c \in Class,
           NEW S, NEW s \in Seq(S), Req \subseteq S
    PROVE  OfClass(s \o CycleOrder, c) \o queues'[c] = OfClass(s, c) \o queues[c]
<1>1. queues'[c] = Leave(c)
  BY DEF ScheduleCycle, Leave
<1>2. CycleOrder \in Seq(S) /\ OfClass(CycleOrder, c) = Take(c)
  <2>1. \A d \in Class : queues[d] \in Seq({r \in Accepted : QueueOf(r) = d})
    BY DEF Known
  <2>2. CycleOrder \in Seq(Accepted) /\ OfClass(CycleOrder, c) = Take(c)
    BY <2>1, CycleTakes
  <2>3. Accepted \subseteq S
    BY AcceptedIsRange
  <2> QED BY <2>2, <2>3, SeqMonotonic
<1>3. OfClass(s \o CycleOrder, c) = OfClass(s, c) \o Take(c)
  <2>1. OfClass(s \o CycleOrder, c) = OfClass(s, c) \o OfClass(CycleOrder, c)
    <3> HIDE DEF ScheduleCycle
    <3> QED BY ONLY <1>2, s \in Seq(S), OfClassConcat
  <2> QED BY ONLY <1>2, <2>1, Zenon
<1>4. Take(c) \in Seq(S) /\ Leave(c) \in Seq(S) /\ Take(c) \o Leave(c) = queues[c]
  <2>1. queues[c] \in Seq(Req)
    BY QueueTypes
  <2>2. Take(c) \in Seq(Req) /\ Leave(c) \in Seq(Req) /\ Take(c) \o Leave(c) = queues[c]
    BY <2>1, TakeAndLeave
  <2> QED BY <2>2, SeqMonotonic
<1>5. OfClass(s, c) \in Seq(S)
  BY OfClassType
<1>6. (OfClass(s, c) \o Take(c)) \o Leave(c) = OfClass(s, c) \o (Take(c) \o Leave(c))
  <2>1. PICK u \in Seq(S), v \in Seq(S), w \in Seq(S) :
          u = OfClass(s, c) /\ v = Take(c) /\ w = Leave(c)
    BY <1>4, <1>5
  <2>2. (u \o v) \o w = u \o (v \o w)
    BY ONLY u \in Seq(S), v \in Seq(S), w \in Seq(S), ConcatAssociative
  <2> QED BY ONLY <2>1, <2>2, Zenon
<1> QED BY ONLY <1>1, <1>3, <1>4, <1>6, Zenon

LEMMA CycleKeeps ==
    ASSUME NodeInv, ScheduleCycle
    PROVE  NodeInv'
<1>1. NodeTypeOK /\ Known /\ FifoPerClass
  BY DEF NodeInv
<1>2. /\ output' = output \o CycleOrder /\ drained' = drained \o CycleOrder
      /\ queues' = [c \in Class |-> Leave(c)]
      /\ UNCHANGED <<holder, running, completed, rejected, reported, accepted, taken>>
  BY DEF ScheduleCycle, Leave
<1>3. CycleOrder \in Seq(Accepted) /\ CycleOrder \in Seq(Req)
  <2>1. \A d \in Class : queues[d] \in Seq({r \in Accepted : QueueOf(r) = d})
    BY <1>1 DEF Known
  <2>2. CycleOrder \in Seq(Accepted)
    BY <2>1, CycleTakes
  <2> QED BY <1>1, <2>2, AcceptedIsRange, SeqMonotonic
<1>4. ASSUME NEW c \in Class
      PROVE  /\ queues'[c] \in Seq({r \in Accepted : QueueOf(r) = c}) /\ queues'[c] \in Seq(Req)
             /\ Len(queues'[c]) <= MaxDepth[c]
  <2> DEFINE Q == {r \in Accepted : QueueOf(r) = c}
  <2>1. queues[c] \in Seq(Q) /\ Len(queues[c]) <= MaxDepth[c]
    BY <1>1 DEF Known, NodeTypeOK
  <2>2. Q \subseteq Req
    BY <1>1, AcceptedIsRange
  <2>3. MaxDepth[c] \in Nat
    BY NodeAssumption
  <2> HIDE DEF Q
  <2>4. Leave(c) \in Seq(Q) /\ Len(Leave(c)) = Len(queues[c]) - Share(c)
    BY <2>1, TakeAndLeave
  <2>5. Share(c) \in Nat /\ Len(queues[c]) \in Nat
    BY <2>1, ShareFacts
  <2>6. Leave(c) \in Seq(Req)
    BY <2>2, <2>4, SeqMonotonic
  <2>7. queues'[c] = Leave(c)
    BY <1>2
  <2>8. Len(queues'[c]) <= MaxDepth[c]
    BY <2>1, <2>3, <2>4, <2>5, <2>7
  <2> QED BY <2>4, <2>6, <2>7, <2>8 DEF Q
<1>5. output' \in Seq(Req) /\ drained' \in Seq(Req)
  <2>1. output \in Seq(Req) /\ drained \in Seq(Req)
    BY <1>1 DEF NodeTypeOK
  <2> QED BY <1>2, <1>3, <2>1, ConcatProperties
<1>6. NodeTypeOK'
  <2>1. queues' \in [Class -> Seq(Req)]
    BY <1>2, <1>4
  <2> QED BY <1>1, <1>2, <1>4, <1>5, <2>1 DEF NodeTypeOK
<1>7. Known'
  <2>1. output' \in Seq(Accepted)
    <3>1. output \in Seq(Accepted)
      BY <1>1 DEF Known
    <3> QED BY <1>2, <1>3, <3>1, ConcatProperties
  <2>2. Accepted' = Accepted
    BY <1>2 DEF Accepted
  <2> QED BY <1>1, <1>2, <1>4, <2>1, <2>2 DEF Known
<1>8. FifoPerClass'
  <2> SUFFICES ASSUME NEW c \in Class
               PROVE  OfClass(accepted', c) = OfClass(taken' \o output', c) \o queues'[c]
    BY DEF FifoPerClass
  <2>1. taken \in Seq(Req) /\ output \in Seq(Req)
    BY <1>1 DEF NodeTypeOK
  <2> DEFINE s == taken \o output
  <2>2. s \in Seq(Req)
    BY <2>1, ConcatProperties
  <2>3. taken' \o output' = s \o CycleOrder
    <3>1. PICK p \in Seq(Req), q \in Seq(Req), r \in Seq(Req) :
            p = taken /\ q = output /\ r = CycleOrder
      BY <1>3, <2>1
    <3>2. (p \o q) \o r = p \o (q \o r)
      BY ONLY p \in Seq(Req), q \in Seq(Req), r \in Seq(Req), ConcatAssociative
    <3> QED BY ONLY <1>2, <3>1, <3>2, Zenon
  <2>4. OfClass(accepted, c) = OfClass(s, c) \o queues[c]
    BY <1>1 DEF FifoPerClass
  <2> HIDE DEF s
  <2>5. OfClass(s \o CycleOrder, c) \o queues'[c] = OfClass(s, c) \o queues[c]
    BY <1>1, <2>2, CycleMoves
  <2>6. accepted' = accepted
    BY <1>2
  <2> QED BY ONLY <2>3, <2>4, <2>5, <2>6, Zenon
<1> QED BY <1>6, <1>7, <1>8 DEF NodeInv

\* The executor takes from the front of the output queue.
LEMMA TakeKeeps ==
    ASSUME NodeInv, ExecutorTakes
    PROVE  NodeInv'
<1> DEFINE x == Head(output)
           t == Tail(output)
<1>1. NodeTypeOK /\ Known /\ FifoPerClass
  BY DEF NodeInv
<1>2. /\ output # <<>> /\ running' = running \cup {x} /\ output' = t /\ taken' = Append(taken, x)
      /\ UNCHANGED <<holder, queues, completed, rejected, reported, accepted, drained>>
  BY DEF ExecutorTakes
<1>3. output \in Seq(Req) /\ output \in Seq(Accepted) /\ taken \in Seq(Req)
  BY <1>1 DEF NodeTypeOK, Known
<1>4. x \in Req /\ x \in Accepted /\ t \in Seq(Req) /\ t \in Seq(Accepted)
  BY <1>2, <1>3, HeadTailProperties
<1>5. output = <<x>> \o t
  BY <1>2, <1>3
<1> HIDE DEF x, t
<1>6. taken' \in Seq(Req)
  BY <1>2, <1>3, <1>4
<1>7. NodeTypeOK'
  BY <1>1, <1>2, <1>4, <1>6 DEF NodeTypeOK
<1>8. Known'
  BY <1>1, <1>2, <1>4 DEF Known, Accepted
<1>9. taken' \o output' = taken \o output
  <2> DEFINE y == <<x>>
  <2>1. y \in Seq(Req) /\ output = y \o t
    BY <1>4, <1>5
  <2>2. Append(taken, x) = taken \o y
    BY <1>3, <1>4, AppendIsConcat
  <2> HIDE DEF y
  <2>3. (taken \o y) \o t = taken \o (y \o t)
    BY <1>3, <1>4, <2>1, ConcatAssociative
  <2> QED BY ONLY <1>2, <2>1, <2>2, <2>3, Zenon
<1>10. FifoPerClass'
  <2>1. queues' = queues /\ accepted' = accepted
    BY <1>2
  <2> QED BY ONLY <1>1, <1>9, <2>1, Zenon DEF FifoPerClass
<1> QED BY <1>7, <1>8, <1>10 DEF NodeInv

\* What the other steps change the invariant's parts do not depend on.
LEMMA OtherStepsKeep ==
    ASSUME NodeInv,
           \/ \E r \in Req : \/ FinishExecution(r)
                             \/ /\ RejectRequest(r)
                                /\ UNCHANGED <<holder, output, running, completed, taken, drained>>
           \/ SchedulerWakes \/ SchedulerSleeps \/ MetricsUpdate \/ UNCHANGED nodeVars
    PROVE  NodeInv'
<1>1. NodeTypeOK /\ Known /\ FifoPerClass
  BY DEF NodeInv
<1>2. Depths \in [Class -> Nat]
  BY <1>1 DEF Depths, NodeTypeOK
<1>3. /\ UNCHANGED <<queues, output, accepted, taken>>
      /\ holder' \in {"loop", "scheduler"} /\ drained' \in Seq(Req)
      /\ rejected' \subseteq Req /\ reported' \in [Class -> Nat]
      /\ running' \subseteq running /\ completed' \subseteq completed \cup running
  <2>1. CASE \E r \in Req : FinishExecution(r)
    BY <1>1, <2>1 DEF FinishExecution, NodeTypeOK
  <2>2. CASE \E r \in Req : /\ RejectRequest(r)
                            /\ UNCHANGED <<holder, output, running, completed, taken, drained>>
    BY <1>1, <2>2 DEF RejectRequest, NodeTypeOK
  <2>3. CASE SchedulerWakes \/ SchedulerSleeps
    <3>1. <<>> \in Seq(Req)
      OBVIOUS
    <3>2. drained' = <<>> \/ drained' = drained
      BY <2>3 DEF SchedulerWakes, SchedulerSleeps
    <3>3. drained' \in Seq(Req)
      BY <1>1, <3>1, <3>2 DEF NodeTypeOK
    <3> QED BY <1>1, <2>3, <3>3 DEF SchedulerWakes, SchedulerSleeps, NodeTypeOK
  <2>4. CASE MetricsUpdate
    BY <1>1, <1>2, <2>4 DEF MetricsUpdate, NodeTypeOK
  <2>5. CASE UNCHANGED nodeVars
    BY <1>1, <2>5 DEF nodeVars, NodeTypeOK
  <2> QED BY <2>1, <2>2, <2>3, <2>4, <2>5
<1>4. NodeTypeOK'
  BY <1>1, <1>3 DEF NodeTypeOK
<1>5. Known'
  BY <1>1, <1>3 DEF Known, Accepted
<1>6. FifoPerClass'
  BY ONLY <1>1, <1>3 DEF FifoPerClass
<1> QED BY <1>4, <1>5, <1>6 DEF NodeInv

LEMMA NodeStep == NodeInv /\ [Next]_nodeVars => NodeInv'
BY AcceptKeeps, CycleKeeps, TakeKeeps, OtherStepsKeep DEF Next, RouteRequest

THEOREM NodeInvariant == Spec => []NodeInv
BY NodeInitInv, NodeStep, PTL DEF Spec

THEOREM NodeTypes == Spec => []NodeTypeOK
<1>1. NodeInv => NodeTypeOK
  BY DEF NodeInv
<1> QED BY <1>1, NodeInvariant, PTL

\* Whatever the depths and weights of the queues and the interleaving of the tasks, no
\* accepted request is lost, duplicated or overtaken by one of its class.
THEOREM KeepsClassOrder == Spec => []FifoPerClass
<1>1. NodeInv => FifoPerClass
  BY DEF NodeInv
<1> QED BY <1>1, NodeInvariant, PTL

-----------------------------------------------------------------------------
\* Every step of the node is one of the service it promises, or none.

LEMMA WaitingType ==
    ASSUME NodeInv, NEW c \in Class
    PROVE  /\ OfClass(output, c) \in Seq(Accepted) /\ OfClass(output, c) \in Seq(Req)
           /\ Waiting[c] = OfClass(output, c) \o queues[c]
           /\ Waiting[c] \in Seq(Accepted) /\ Len(Waiting[c]) >= Len(queues[c])
<1>1. queues[c] \in Seq(Accepted) /\ output \in Seq(Accepted) /\ output \in Seq(Req)
  BY QueueTypes DEF NodeInv, Known
<1>2. OfClass(output, c) \in Seq(Accepted) /\ OfClass(output, c) \in Seq(Req)
  BY <1>1, OfClassType
<1>3. Waiting[c] = OfClass(output, c) \o queues[c]
  BY DEF Waiting
<1> DEFINE a == OfClass(output, c)
<1>4. a \in Seq(Accepted)
  BY <1>2
<1> HIDE DEF a
<1>5. a \o queues[c] \in Seq(Accepted) /\ Len(a \o queues[c]) = Len(a) + Len(queues[c])
  BY <1>1, <1>4, ConcatProperties
<1>6. Len(a) \in Nat /\ Len(queues[c]) \in Nat
  BY <1>1, <1>4
<1> QED BY <1>2, <1>3, <1>5, <1>6 DEF a

\* Who was answered was delivered.
LEMMA AnsweredWereDelivered ==
    ASSUME NodeInv
    PROVE  Service!Answered \subseteq Delivered
<1>1. Delivered = rejected \cup Accepted
  BY DEF Delivered, Accepted
<1>2. running \subseteq Accepted /\ completed \subseteq Accepted
  BY DEF NodeInv, Known
<1>3. ASSUME NEW c \in Class, NEW i \in DOMAIN Waiting[c] PROVE Waiting[c][i] \in Accepted
  <2> DEFINE w == Waiting[c]
  <2>1. w \in Seq(Accepted) /\ i \in DOMAIN w
    BY WaitingType
  <2> HIDE DEF w
  <2>2. w[i] \in Accepted
    BY <2>1
  <2> QED BY <2>2 DEF w
<1> QED BY <1>1, <1>2, <1>3 DEF Service!Answered

LEMMA ServiceInit == Init => Service!Init
<1> SUFFICES ASSUME Init PROVE Service!Init
  OBVIOUS
<1>1. output = <<>> /\ running = {} /\ completed = {} /\ rejected = {}
      /\ \A c \in Class : queues[c] = <<>>
  BY DEF Init
<1>2. <<>> \o <<>> = <<>>
  OBVIOUS
<1>3. \A c \in Class : OfClass(output, c) \o queues[c] = <<>>
  BY <1>1, <1>2, OfClassEmpty
<1>4. Waiting = [c \in Class |-> <<>>]
  BY <1>3 DEF Waiting
<1> QED BY <1>1, <1>4 DEF Service!Init

LEMMA AcceptIsService ==
    ASSUME NodeInv, NEW r \in Req, r \notin Delivered, AcceptRequest(r),
           UNCHANGED <<holder, output, running, completed, taken, drained>>
    PROVE  Service!Accept(r)
<1> DEFINE d == QueueOf(r)
<1>1. d \in Class /\ r \notin Service!Answered
  BY AcceptedIsRange, AnsweredWereDelivered DEF NodeInv
<1>2. queues' = [queues EXCEPT ![d] = Append(@, r)] /\ rejected' = rejected
      /\ queues \in [Class -> Seq(Req)]
  BY DEF AcceptRequest, NodeInv, NodeTypeOK
<1> HIDE DEF d
<1>3. ASSUME NEW c \in Class
      PROVE  OfClass(output', c) \o queues'[c]
               = IF c = d THEN Append(OfClass(output, c) \o queues[c], r)
                 ELSE OfClass(output, c) \o queues[c]
  <2>1. PICK a \in Seq(Req) : a = OfClass(output, c)
    BY WaitingType
  <2>2. queues[c] \in Seq(Req)
    BY <1>2
  <2>3. a \o Append(queues[c], r) = Append(a \o queues[c], r)
    BY ONLY <2>2, a \in Seq(Req), r \in Req, ConcatAppend
  <2>4. output' = output /\ queues'[c] = IF c = d THEN Append(queues[c], r) ELSE queues[c]
    BY <1>1, <1>2
  <2> QED BY ONLY <2>1, <2>3, <2>4, Zenon
<1>4. Waiting' = [Waiting EXCEPT ![d] = Append(@, r)]
  <2>1. Waiting' = [c \in Class |-> OfClass(output', c) \o queues'[c]]
    BY DEF Waiting
  <2>2. Waiting' = [c \in Class |-> IF c = d THEN Append(OfClass(output, c) \o queues[c], r)
                                    ELSE OfClass(output, c) \o queues[c]]
    BY ONLY <1>3, <2>1
  <2>3. [Waiting EXCEPT ![d] = Append(@, r)]
           = [c \in Class |-> IF c = d THEN Append(OfClass(output, c) \o queues[c], r)
                              ELSE OfClass(output, c) \o queues[c]]
    BY ONLY <1>1 DEF Waiting
  <2> QED BY ONLY <2>2, <2>3
<1> QED BY <1>1, <1>2, <1>4 DEF Service!Accept, d

LEMMA TakeIsService ==
    ASSUME NodeInv, ExecutorTakes
    PROVE  Service!Begin(QueueOf(Head(output)))
<1> DEFINE x == Head(output)
           t == Tail(output)
           d == QueueOf(x)
<1>1. /\ output # <<>> /\ running' = running \cup {x} /\ output' = t
      /\ queues' = queues /\ completed' = completed /\ rejected' = rejected
  BY DEF ExecutorTakes
<1>2. output \in Seq(Req)
  BY DEF NodeInv, NodeTypeOK
<1>3. x \in Req /\ t \in Seq(Req) /\ d \in Class
  BY <1>1, <1>2, HeadTailProperties, AcceptedIsRange DEF NodeInv
<1>4. \A c : OfClass(output, c) = (IF d = c THEN <<x>> ELSE <<>>) \o OfClass(t, c)
  BY <1>1, <1>2, OfClassHead
<1> HIDE DEF x, t, d
<1>5. ASSUME NEW c \in Class
      PROVE  /\ c # d => OfClass(t, c) \o queues[c] = OfClass(output, c) \o queues[c]
             /\ c = d => LET w == OfClass(output, c) \o queues[c]
                         IN  /\ w # <<>> /\ Head(w) = x
                             /\ Tail(w) = OfClass(t, c) \o queues[c]
  <2>1. PICK a \in Seq(Req), q \in Seq(Req) : a = OfClass(t, c) /\ q = queues[c]
    BY <1>3, OfClassType DEF NodeInv, NodeTypeOK
  <2>2. a \o q \in Seq(Req)
    BY ConcatProperties
  <2>3. CASE c # d
    <3>1. <<>> \o a = a
      BY ConcatEmptySeq
    <3> QED BY ONLY <1>4, <2>1, <2>3, <3>1, Zenon
  <2>4. CASE c = d
    <3> DEFINE y == <<x>>
               w == OfClass(output, c) \o queues[c]
    <3>1. y \in Seq(Req)
      BY <1>3
    <3>2. OfClass(output, c) = y \o a
      BY ONLY <1>4, <2>1, <2>4, Zenon
    <3>3. \A v \in Seq(Req) : y \o v # <<>> /\ Head(y \o v) = x /\ Tail(y \o v) = v
      BY <1>3
    <3> HIDE DEF y
    <3>4. (y \o a) \o q = y \o (a \o q)
      BY ONLY <3>1, a \in Seq(Req), q \in Seq(Req), ConcatAssociative
    <3>5. w = y \o (a \o q)
      BY ONLY <2>1, <3>2, <3>4, Zenon
    <3>6. w # <<>> /\ Head(w) = x /\ Tail(w) = a \o q
      BY ONLY <2>2, <3>3, <3>5, Zenon
    <3> QED BY ONLY <2>1, <2>4, <3>6, Zenon
  <2> QED BY <2>3, <2>4
<1>6. Waiting[d] # <<>> /\ Head(Waiting[d]) = x
  BY <1>3, <1>5 DEF Waiting
<1>7. Waiting' = [Waiting EXCEPT ![d] = Tail(@)]
  <2>1. Waiting' = [c \in Class |-> OfClass(t, c) \o queues[c]]
    BY <1>1 DEF Waiting
  <2>2. Waiting = [c \in Class |-> OfClass(output, c) \o queues[c]]
    BY DEF Waiting
  <2>3. [Waiting EXCEPT ![d] = Tail(@)]
           = [c \in Class |-> IF c = d THEN Tail(OfClass(output, c) \o queues[c])
                              ELSE OfClass(output, c) \o queues[c]]
    BY ONLY <1>3, <2>2
  <2>4. \A c \in Class : (IF c = d THEN Tail(OfClass(output, c) \o queues[c])
                          ELSE OfClass(output, c) \o queues[c]) = OfClass(t, c) \o queues[c]
    BY ONLY <1>5, Zenon
  <2> QED BY ONLY <2>1, <2>3, <2>4
<1>8. Service!Begin(d)
  BY <1>1, <1>6, <1>7 DEF Service!Begin
<1> QED BY <1>8 DEF d, x

LEMMA ServiceStep ==
    ASSUME NodeInv, [Next]_nodeVars
    PROVE  [Service!Next]_(Service!serviceVars)
<1>1. CASE \E r \in Req : RouteRequest(r)
  <2>1. PICK r \in Req : RouteRequest(r)
    BY <1>1
  <2>2. r \notin Delivered /\ UNCHANGED <<holder, output, running, completed, taken, drained>>
    BY <2>1 DEF RouteRequest
  <2>3. CASE AcceptRequest(r)
    BY <2>2, <2>3, AcceptIsService DEF Service!Next
  <2>4. CASE RejectRequest(r)
    <3> DEFINE d == QueueOf(r)
    <3>1. d \in Class /\ r \notin Service!Answered
      BY <2>2, AcceptedIsRange, AnsweredWereDelivered DEF NodeInv
    <3>2. Len(queues[d]) >= MaxDepth[d] /\ rejected' = rejected \cup {r} /\ queues' = queues
      BY <2>4 DEF RejectRequest
    <3> HIDE DEF d
    <3>3. Len(Waiting[d]) >= MaxDepth[d]
      <4>1. Len(Waiting[d]) >= Len(queues[d]) /\ Waiting[d] \in Seq(Accepted)
            /\ queues[d] \in Seq(Req)
        BY <3>1, WaitingType DEF NodeInv, NodeTypeOK
      <4>2. Len(Waiting[d]) \in Nat /\ Len(queues[d]) \in Nat /\ MaxDepth[d] \in Nat
        BY <3>1, <4>1, NodeAssumption
      <4> QED BY ONLY <3>2, <4>1, <4>2
    <3>4. Waiting' = Waiting
      BY <2>2, <3>2 DEF Waiting
    <3>5. Service!Refuse(r)
      BY <2>2, <3>1, <3>2, <3>3, <3>4 DEF Service!Refuse, d
    <3> QED BY <3>5 DEF Service!Next
  <2> QED BY <2>1, <2>3, <2>4 DEF RouteRequest
<1>2. CASE \E r \in Req : FinishExecution(r)
  <2>1. PICK r \in Req : FinishExecution(r)
    BY <1>2
  <2>2. Service!End(r)
    BY <2>1 DEF FinishExecution, Service!End, Waiting
  <2> QED BY <2>2 DEF Service!Next
<1>3. CASE ScheduleCycle
  <2>1. \A c \in Class : OfClass(output', c) \o queues'[c] = OfClass(output, c) \o queues[c]
    <3>1. output' = output \o CycleOrder /\ output \in Seq(Req) /\ NodeTypeOK /\ Known
      BY <1>3 DEF ScheduleCycle, NodeInv, NodeTypeOK
    <3>2. \A c \in Class : OfClass(output \o CycleOrder, c) \o queues'[c]
                             = OfClass(output, c) \o queues[c]
      BY <1>3, <3>1, CycleMoves
    <3> QED BY ONLY <3>1, <3>2, Zenon
  <2>2. Waiting' = Waiting
    BY ONLY <2>1 DEF Waiting
  <2> QED BY <1>3, <2>2 DEF ScheduleCycle, Service!serviceVars
<1>4. CASE ExecutorTakes
  <2>1. Service!Begin(QueueOf(Head(output))) /\ Head(output) \in Req
    BY <1>4, TakeIsService DEF ExecutorTakes, NodeInv, NodeTypeOK
  <2>2. QueueOf(Head(output)) \in Class
    BY <2>1, AcceptedIsRange DEF NodeInv
  <2> QED BY <2>1, <2>2 DEF Service!Next
<1>5. CASE SchedulerWakes \/ SchedulerSleeps \/ MetricsUpdate \/ UNCHANGED nodeVars
  BY <1>5 DEF SchedulerWakes, SchedulerSleeps, MetricsUpdate, nodeVars, Waiting,
     Service!serviceVars
<1> QED BY <1>1, <1>2, <1>3, <1>4, <1>5 DEF Next

\* But for what is fair, ImplementsService: each accepted request begins in its class's
\* order, once, and none is refused that has room.
THEOREM StepsAreService ==
    Spec => Service!Init /\ [][Service!Next]_(Service!serviceVars)
<1>1. NodeInv /\ [Next]_nodeVars => [Service!Next]_(Service!serviceVars)
  BY ServiceStep
<1> QED BY <1>1, ServiceInit, NodeInvariant, PTL DEF Spec

-----------------------------------------------------------------------------
\* What was dequeued in a drain falls into cycles.

\* The order of the classes within a cycle.
Rank == [c \in Class |-> IF c = "Light" THEN 1 ELSE IF c = "Medium" THEN 2 ELSE 3]

\* The entries of class c that f puts into cycle k of s.
Turn(s, f, k, c) == {i \in 1..Len(s) : f[i] = k /\ QueueOf(s[i]) = c}

\* f puts the entries of s into m cycles, each with at most its weight of a class, in
\* the classes' order; a class that has less in one has nothing in a later one, and is
\* among those whose queue has run out.
InCycles(s, f, m, out) ==
    /\ f \in [1..Len(s) -> 1..m]
    /\ \A i, j \in 1..Len(s) : i <= j =>
          /\ f[i] <= f[j]
          /\ f[i] = f[j] => Rank[QueueOf(s[i])] <= Rank[QueueOf(s[j])]
    /\ \A k \in 1..m, c \in Class :
          /\ Cardinality(Turn(s, f, k, c)) <= Weight[c]
          /\ Cardinality(Turn(s, f, k, c)) < Weight[c] =>
                c \in out /\ \A i \in 1..Len(s) : f[i] > k => QueueOf(s[i]) # c

RunOut == IF holder = "scheduler" THEN {c \in Class : queues[c] = <<>>} ELSE Class

Rounds == \E m \in Nat : \E f : InCycles(drained, f, m, RunOut)

LEMMA RankFacts ==
    /\ \A c \in Class : Rank[c] \in 1..3
    /\ \A c, d \in Class : c # d => Rank[c] < Rank[d] \/ Rank[d] < Rank[c]
BY DEF Rank, Class

LEMMA TurnsAreFinite ==
    ASSUME NEW s, Len(s) \in Nat, NEW f, NEW k, NEW c
    PROVE  IsFiniteSet(Turn(s, f, k, c)) /\ Cardinality(Turn(s, f, k, c)) \in Nat
<1>1. IsFiniteSet(1..Len(s))
  BY FS_Interval
<1>2. Turn(s, f, k, c) \subseteq 1..Len(s)
  BY DEF Turn
<1>3. IsFiniteSet(Turn(s, f, k, c))
  BY <1>1, <1>2, FS_Subset
<1> QED BY <1>3, FS_CardinalityType

\* So no class takes a second share before every other class has had its own.
LEMMA CyclesAreFair ==
    ASSUME NodeTypeOK, Rounds
    PROVE  WeightedDrain
<1> DEFINE n == Len(drained)
           ClassAt(i) == QueueOf(drained[i])
           Among(e, a, b) == {k \in a..b : ClassAt(k) = e}
<1>0. PICK m \in Nat : \E f : InCycles(drained, f, m, RunOut)
  BY DEF Rounds
<1>1. PICK f : m \in Nat /\ InCycles(drained, f, m, RunOut)
  BY <1>0
<1>2. n \in Nat /\ DOMAIN drained = 1..n /\ \A i \in 1..n : ClassAt(i) \in Class
  <2>1. drained \in Seq(Req)
    BY DEF NodeTypeOK
  <2>2. \A i \in 1..n : drained[i] \in Req
    BY <2>1
  <2> QED BY <2>1, <2>2, AcceptedIsRange
<1>3. \A c \in Class : Weight[c] \in Nat \ {0}
  BY NodeAssumption
<1>4. /\ f \in [1..n -> 1..m]
      /\ \A i, j \in 1..n : i <= j =>
            /\ f[i] <= f[j]
            /\ f[i] = f[j] => Rank[ClassAt(i)] <= Rank[ClassAt(j)]
      /\ \A k \in 1..m, c \in Class :
            /\ Cardinality(Turn(drained, f, k, c)) <= Weight[c]
            /\ Cardinality(Turn(drained, f, k, c)) < Weight[c] =>
                  c \in RunOut /\ \A i \in 1..n : f[i] > k => ClassAt(i) # c
  BY <1>1 DEF InCycles
<1>5. \A k, c : Turn(drained, f, k, c) = {i \in 1..n : f[i] = k /\ ClassAt(i) = c}
  BY DEF Turn
<1>6. \A k, c : IsFiniteSet(Turn(drained, f, k, c)) /\ Cardinality(Turn(drained, f, k, c)) \in Nat
  BY <1>2, TurnsAreFinite
<1> SUFFICES ASSUME NEW i \in 1..n, NEW j \in 1..n, NEW c \in Class, c # ClassAt(i),
                    ClassAt(j) = ClassAt(i),
                    Cardinality(Among(ClassAt(i), i, j)) > Weight[ClassAt(i)],
                    Cardinality(Among(c, i, j)) < Weight[c]
             PROVE  /\ Among(c, j, n) = {}
                    /\ holder = "scheduler" => queues[c] = <<>>
  BY <1>2 DEF WeightedDrain
<1> DEFINE d == ClassAt(i)
<1> HIDE DEF n, ClassAt
<1>7. ASSUME NEW e PROVE IsFiniteSet(Among(e, i, j)) /\ Cardinality(Among(e, i, j)) \in Nat
  <2>1. i \in Int /\ j \in Int
    BY <1>2
  <2>2. IsFiniteSet(i..j)
    BY <2>1, FS_Interval
  <2>3. IsFiniteSet(Among(e, i, j))
    BY <2>2, FS_Subset
  <2> HIDE DEF Among
  <2> QED BY <2>3, FS_CardinalityType
<1>8. d \in Class /\ Weight[d] \in Nat
  BY <1>2, <1>3
<1>9. i <= j
  <2> SUFFICES ASSUME ~(i <= j) PROVE FALSE
    OBVIOUS
  <2>1. Among(d, i, j) = {}
    BY <1>2
  <2>2. Cardinality(Among(d, i, j)) = 0
    BY <2>1, FS_EmptySet
  <2> QED BY <1>8, <2>2
<1>10. \A k \in i..j : k \in 1..n
  BY <1>2
<1>11. f[i] \in 1..m /\ f[j] \in 1..m /\ f[i] < f[j]
  <2>1. f[i] \in 1..m /\ f[j] \in 1..m /\ f[i] <= f[j]
    BY <1>4, <1>9
  <2>2. ASSUME f[i] = f[j] PROVE FALSE
    <3>1. ASSUME NEW k \in i..j PROVE f[k] = f[i]
      <4>1. k \in 1..n /\ i <= k /\ k <= j /\ f[k] \in 1..m
        BY <1>2, <1>4, <1>10
      <4>2. f[i] <= f[k] /\ f[k] <= f[j]
        BY <1>4, <4>1
      <4> QED BY <2>1, <2>2, <4>1, <4>2
    <3>2. Among(d, i, j) \subseteq Turn(drained, f, f[i], d)
      BY <1>5, <1>10, <3>1
    <3>3. Cardinality(Among(d, i, j)) <= Cardinality(Turn(drained, f, f[i], d))
      BY <1>6, <3>2, FS_Subset
    <3>4. Cardinality(Turn(drained, f, f[i], d)) <= Weight[d]
      BY <1>4, <1>8, <2>1
    <3> HIDE DEF Among, d
    <3>5. Cardinality(Among(d, i, j)) > Weight[d]
      BY DEF d
    <3> QED BY <1>6, <1>7, <1>8, <3>3, <3>4, <3>5
  <2> QED BY <2>1, <2>2
<1>12. PICK k \in 1..m :
         /\ \A p \in 1..n : f[p] = k /\ ClassAt(p) = c => p \in i..j
         /\ k < f[j] \/ (k = f[j] /\ Rank[c] < Rank[d])
  <2>1. CASE f[i] + 1 < f[j]
    <3>1. f[i] + 1 \in 1..m
      BY <1>11, <2>1
    <3>2. ASSUME NEW p \in 1..n, f[p] = f[i] + 1 PROVE p \in i..j
      <4>1. p <= i => f[p] <= f[i]
        BY <1>4
      <4>2. j <= p => f[j] <= f[p]
        BY <1>4
      <4> QED BY <1>2, <1>11, <2>1, <3>2, <4>1, <4>2
    <3> QED BY <2>1, <3>1, <3>2
  <2>2. CASE f[i] + 1 = f[j] /\ Rank[d] < Rank[c]
    <3>1. ASSUME NEW p \in 1..n, f[p] = f[i], ClassAt(p) = c PROVE p \in i..j
      <4>1. p <= i => Rank[c] <= Rank[d]
        BY <1>4, <3>1
      <4>2. j <= p => f[j] <= f[p]
        BY <1>4
      <4>3. Rank[c] \in 1..3 /\ Rank[d] \in 1..3
        BY <1>8, RankFacts
      <4>4. ~(p <= i) /\ ~(j <= p)
        BY <1>11, <2>2, <3>1, <4>1, <4>2, <4>3
      <4> QED BY <1>2, <4>4
    <3> QED BY <1>11, <3>1
  <2>3. CASE f[i] + 1 = f[j] /\ Rank[c] < Rank[d]
    <3>1. ASSUME NEW p \in 1..n, f[p] = f[j], ClassAt(p) = c PROVE p \in i..j
      <4>1. j <= p => Rank[d] <= Rank[c]
        BY <1>4, <3>1
      <4>2. p <= i => f[p] <= f[i]
        BY <1>4
      <4>3. Rank[c] \in 1..3 /\ Rank[d] \in 1..3
        BY <1>8, RankFacts
      <4>4. ~(j <= p) /\ ~(p <= i)
        BY <1>11, <2>3, <3>1, <4>1, <4>2, <4>3
      <4> QED BY <1>2, <4>4
    <3> QED BY <1>11, <2>3, <3>1
  <2>4. f[i] + 1 < f[j] \/ f[i] + 1 = f[j]
    BY <1>11
  <2>5. Rank[d] < Rank[c] \/ Rank[c] < Rank[d]
    BY <1>8, RankFacts
  <2> QED BY <2>1, <2>2, <2>3, <2>4, <2>5
<1>13. Cardinality(Turn(drained, f, k, c)) < Weight[c]
  <2>1. Turn(drained, f, k, c) \subseteq Among(c, i, j)
    BY <1>5, <1>12
  <2> HIDE DEF Among
  <2>2. Cardinality(Turn(drained, f, k, c)) <= Cardinality(Among(c, i, j))
    BY <1>7, <2>1, FS_Subset
  <2>3. Weight[c] \in Nat /\ Cardinality(Turn(drained, f, k, c)) \in Nat
    BY <1>3, <1>6
  <2> QED BY <1>7, <2>2, <2>3
<1>14. c \in RunOut /\ \A p \in 1..n : f[p] > k => ClassAt(p) # c
  BY <1>4, <1>13
<1>15. ASSUME NEW p \in Among(c, j, n) PROVE FALSE
  <2>1. p \in 1..n /\ j <= p /\ ClassAt(p) = c /\ f[p] \in 1..m
    BY <1>2, <1>4
  <2>2. f[j] <= f[p] /\ (f[j] = f[p] => Rank[d] <= Rank[c])
    BY <1>4, <2>1
  <2>3. Rank[c] \in 1..3 /\ Rank[d] \in 1..3
    BY <1>8, RankFacts
  <2>4. ~(f[p] > k)
    BY <1>14, <2>1
  <2> HIDE DEF d
  <2> QED BY <1>11, <1>12, <2>1, <2>2, <2>3, <2>4
<1>16. holder = "scheduler" => queues[c] = <<>>
  BY <1>14 DEF RunOut
<1> QED BY <1>15, <1>16

\* Where the shares of a cycle are in its order.
LEMMA CyclePositions ==
    ASSUME NodeTypeOK, Known
    PROVE  /\ CycleOrder \in Seq(Req)
           /\ Len(CycleOrder) = Share("Light") + Share("Medium") + Share("Heavy")
           /\ \A j \in 1..Len(CycleOrder) :
                 QueueOf(CycleOrder[j])
                   = IF j <= Share("Light") THEN "Light"
                     ELSE IF j <= Share("Light") + Share("Medium") THEN "Medium" ELSE "Heavy"
<1> DEFINE L == Take("Light")
           M == Take("Medium")
           H == Take("Heavy")
           l == Share("Light")
           m == Share("Medium")
           h == Share("Heavy")
<1>1. ASSUME NEW c \in Class
      PROVE  /\ Take(c) \in Seq(Req) /\ Len(Take(c)) = Share(c) /\ Share(c) \in Nat
             /\ \A i \in 1..Share(c) : QueueOf(Take(c)[i]) = c
  <2> DEFINE Q == {r \in Accepted : QueueOf(r) = c}
             t == Take(c)
  <2>1. queues[c] \in Seq(Q) /\ Q \subseteq Req /\ \A r \in Q : QueueOf(r) = c
    BY AcceptedIsRange DEF Known
  <2> HIDE DEF Q
  <2>2. t \in Seq(Q) /\ Len(t) = Share(c) /\ Share(c) \in Nat
    BY <2>1, TakeAndLeave, ShareFacts
  <2> HIDE DEF t
  <2>3. t \in Seq(Req) /\ \A i \in 1..Len(t) : QueueOf(t[i]) = c
    BY <2>1, <2>2, SeqMonotonic
  <2> QED BY <2>2, <2>3 DEF t
<1>2. /\ L \in Seq(Req) /\ Len(L) = l /\ l \in Nat /\ \A i \in 1..l : QueueOf(L[i]) = "Light"
      /\ M \in Seq(Req) /\ Len(M) = m /\ m \in Nat /\ \A i \in 1..m : QueueOf(M[i]) = "Medium"
      /\ H \in Seq(Req) /\ Len(H) = h /\ h \in Nat /\ \A i \in 1..h : QueueOf(H[i]) = "Heavy"
  BY <1>1 DEF Class
<1>3. CycleOrder = (L \o M) \o H
  BY DEF CycleOrder, Take
<1> HIDE DEF L, M, H, l, m, h
<1> DEFINE u == L \o M
           w == CycleOrder
<1>4. u \in Seq(Req) /\ Len(u) = l + m
      /\ \A i \in 1..(l + m) : u[i] = IF i <= l THEN L[i] ELSE M[i - l]
  BY <1>2, ConcatProperties
<1>5. w = u \o H
  BY <1>3
<1> HIDE DEF u, w
<1>6. w \in Seq(Req) /\ Len(w) = (l + m) + h
      /\ \A i \in 1..((l + m) + h) : w[i] = IF i <= l + m THEN u[i] ELSE H[i - (l + m)]
  BY <1>2, <1>4, <1>5, ConcatProperties
<1>7. ASSUME NEW j \in 1..Len(w)
      PROVE  QueueOf(w[j]) = IF j <= l THEN "Light" ELSE IF j <= l + m THEN "Medium" ELSE "Heavy"
  <2>1. CASE j <= l
    <3>1. j \in 1..l /\ j \in 1..(l + m) /\ j <= l + m /\ j \in 1..((l + m) + h)
      BY <1>2, <1>6, <2>1
    <3>2. w[j] = L[j]
      BY <1>4, <1>6, <2>1, <3>1
    <3> QED BY <1>2, <2>1, <3>1, <3>2
  <2>2. CASE ~(j <= l) /\ j <= l + m
    <3>1. j - l \in 1..m /\ j \in 1..(l + m) /\ j \in 1..((l + m) + h)
      BY <1>2, <1>6, <2>2
    <3>2. w[j] = M[j - l]
      BY <1>4, <1>6, <2>2, <3>1
    <3> QED BY <1>2, <2>2, <3>1, <3>2
  <2>3. CASE ~(j <= l) /\ ~(j <= l + m)
    <3>1. j - (l + m) \in 1..h /\ j \in 1..((l + m) + h)
      BY <1>2, <1>6, <2>3
    <3>2. w[j] = H[j - (l + m)]
      BY <1>6, <2>3, <3>1
    <3> QED BY <1>2, <2>3, <3>1, <3>2
  <2> QED BY <1>2, <1>6, <2>1, <2>2, <2>3
<1> QED BY <1>2, <1>6, <1>7 DEF w, l, m, h

\* A cycle more.
LEMMA OneCycleMore ==
    ASSUME NEW s \in Seq(Req), NEW m \in Nat, NEW f, NEW out, InCycles(s, f, m, out),
           NEW u \in Seq(Req), NEW share \in [Class -> Nat],
           Len(u) = share["Light"] + share["Medium"] + share["Heavy"],
           \A j \in 1..Len(u) :
               QueueOf(u[j]) = IF j <= share["Light"] THEN "Light"
                               ELSE IF j <= share["Light"] + share["Medium"] THEN "Medium"
                               ELSE "Heavy",
           \A c \in Class : share[c] <= Weight[c],
           NEW left, \A c \in Class : share[c] < Weight[c] => c \in left,
           \A c \in out \cap Class : share[c] = 0
    PROVE  \E g : InCycles(s \o u, g, m + 1, left)
<1> DEFINE n == Len(s)
           t == s \o u
           N == Len(t)
           l == share["Light"]
           e == share["Medium"]
           h == share["Heavy"]
           ClassAt(i) == QueueOf(t[i])
           g == [i \in 1..N |-> IF i <= n THEN f[i] ELSE m + 1]
           From(c) == IF c = "Light" THEN n ELSE IF c = "Medium" THEN n + l ELSE n + (l + e)
<1>1. l \in Nat /\ e \in Nat /\ h \in Nat /\ n \in Nat /\ Len(u) = l + e + h
  BY DEF Class
<1>2. t \in Seq(Req) /\ N = n + (l + e + h)
      /\ \A i \in 1..N : t[i] = IF i <= n THEN s[i] ELSE u[i - n]
  <2>1. t \in Seq(Req) /\ N = n + Len(u)
        /\ \A i \in 1..(n + Len(u)) : t[i] = IF i <= n THEN s[i] ELSE u[i - n]
    BY ONLY s \in Seq(Req), u \in Seq(Req), ConcatProperties, Zenon
  <2> HIDE DEF t, N, n, l, e, h
  <2> QED BY <1>1, <2>1
<1>3. \A c \in Class : Weight[c] \in Nat \ {0} /\ share[c] \in Nat
  BY NodeAssumption
<1>4. /\ f \in [1..n -> 1..m]
      /\ \A i, j \in 1..n : i <= j =>
            /\ f[i] <= f[j]
            /\ f[i] = f[j] => Rank[QueueOf(s[i])] <= Rank[QueueOf(s[j])]
      /\ \A k \in 1..m, c \in Class :
            /\ Cardinality(Turn(s, f, k, c)) <= Weight[c]
            /\ Cardinality(Turn(s, f, k, c)) < Weight[c] =>
                  c \in out /\ \A i \in 1..n : f[i] > k => QueueOf(s[i]) # c
  BY DEF InCycles
<1>5. \A j \in 1..(l + e + h) : QueueOf(u[j]) = IF j <= l THEN "Light"
                                                ELSE IF j <= l + e THEN "Medium" ELSE "Heavy"
  BY <1>1
<1> HIDE DEF n, t, N, l, e, h
<1>6. /\ \A i \in 1..n : i \in 1..N /\ ClassAt(i) = QueueOf(s[i]) /\ g[i] = f[i] /\ f[i] \in 1..m
      /\ \A i \in 1..N : i > n => /\ g[i] = m + 1
                                  /\ ClassAt(i) = IF i <= n + l THEN "Light"
                                                  ELSE IF i <= n + (l + e) THEN "Medium" ELSE "Heavy"
  <2>1. ASSUME NEW i \in 1..n
        PROVE  i \in 1..N /\ ClassAt(i) = QueueOf(s[i]) /\ g[i] = f[i] /\ f[i] \in 1..m
    BY <1>1, <1>2, <1>4
  <2>2. ASSUME NEW i \in 1..N, i > n
        PROVE  /\ g[i] = m + 1
               /\ ClassAt(i) = IF i <= n + l THEN "Light"
                               ELSE IF i <= n + (l + e) THEN "Medium" ELSE "Heavy"
    <3>1. i - n \in 1..(l + e + h) /\ ~(i <= n)
      BY <1>1, <1>2, <2>2
    <3>2. ClassAt(i) = QueueOf(u[i - n])
      BY <1>2, <3>1
    <3>3. (i - n <= l <=> i <= n + l) /\ (i - n <= l + e <=> i <= n + (l + e))
      BY <1>1, <1>2
    <3> QED BY <1>5, <3>1, <3>2, <3>3
  <2> QED BY <2>1, <2>2
<1>7. g \in [1..N -> 1..(m + 1)]
  BY <1>4, <1>6, <1>2, <1>1
<1> HIDE DEF g
<1>8. ASSUME NEW i \in 1..N, NEW j \in 1..N, i <= j
      PROVE  g[i] <= g[j] /\ (g[i] = g[j] => Rank[ClassAt(i)] <= Rank[ClassAt(j)])
  <2>1. CASE j <= n
    <3>1. i \in 1..n /\ j \in 1..n
      BY <1>1, <1>2, <1>8, <2>1
    <3>2. f[i] <= f[j] /\ (f[i] = f[j] => Rank[QueueOf(s[i])] <= Rank[QueueOf(s[j])])
      BY <1>4, <1>8, <3>1
    <3>3. g[i] = f[i] /\ g[j] = f[j] /\ ClassAt(i) = QueueOf(s[i]) /\ ClassAt(j) = QueueOf(s[j])
      BY <1>6, <3>1
    <3> HIDE DEF ClassAt
    <3> QED BY ONLY <3>2, <3>3
  <2>2. CASE i <= n /\ j > n
    <3>1. i \in 1..n
      BY <1>1, <1>2, <2>2
    <3>2. g[i] \in 1..m /\ g[j] = m + 1
      BY <1>6, <2>2, <3>1
    <3>3. g[i] < g[j]
      BY <3>2
    <3> QED BY <3>2, <3>3
  <2>3. CASE i > n
    <3>1. j > n /\ g[i] = m + 1 /\ g[j] = m + 1
      <4>1. i \in Int /\ j \in Int
        BY <1>1, <1>2
      <4>2. j > n
        BY <1>1, <1>8, <2>3, <4>1
      <4> QED BY <1>6, <2>3, <4>2
    <3>2. Rank["Light"] = 1 /\ Rank["Medium"] = 2 /\ Rank["Heavy"] = 3
      BY DEF Rank, Class
    <3>3. /\ ClassAt(i) = IF i <= n + l THEN "Light"
                          ELSE IF i <= n + (l + e) THEN "Medium" ELSE "Heavy"
          /\ ClassAt(j) = IF j <= n + l THEN "Light"
                          ELSE IF j <= n + (l + e) THEN "Medium" ELSE "Heavy"
      BY <1>6, <2>3, <3>1
    <3> HIDE DEF ClassAt
    <3> QED BY <1>1, <1>2, <1>8, <3>1, <3>2, <3>3
  <2>4. j <= n \/ (i <= n /\ j > n) \/ i > n
    <3>1. i \in Int /\ j \in Int
      BY <1>1, <1>2
    <3> QED BY ONLY <1>1, <3>1
  <2> QED BY <2>1, <2>2, <2>3, <2>4
<1>9. ASSUME NEW c \in Class
      PROVE  /\ Turn(t, g, m + 1, c) = (From(c) + 1)..(From(c) + share[c])
             /\ Cardinality(Turn(t, g, m + 1, c)) = share[c]
  <2> DEFINE T == Turn(t, g, m + 1, c)
             a == From(c) + 1
             b == From(c) + share[c]
  <2>1. T = {i \in 1..N : g[i] = m + 1 /\ ClassAt(i) = c}
    BY DEF Turn, N
  <2>2. T = {i \in 1..N : i > n /\ ClassAt(i) = c}
    <3>1. ASSUME NEW i \in 1..N PROVE g[i] = m + 1 <=> i > n
      <4>1. i <= n => i \in 1..n
        BY <1>1, <1>2
      <4>2. i <= n => g[i] \in 1..m
        BY <1>6, <4>1
      <4>3. i <= n => g[i] # m + 1
        BY <4>2
      <4> QED BY <1>1, <1>2, <1>6, <4>3
    <3> QED BY <2>1, <3>1
  <2>3. a \in Int /\ b \in Int /\ share[c] = b - a + 1
    <3>1. From(c) \in Nat /\ share[c] \in Nat
      BY <1>1, <1>3
    <3> HIDE DEF From
    <3> QED BY <3>1
  <2>4. T = a..b
    <3> HIDE DEF T, ClassAt
    <3>0. N = n + (l + e + h)
      BY <1>2
    <3>1. ASSUME NEW i \in 1..N, i > n
          PROVE  ClassAt(i) = IF i <= n + l THEN "Light"
                              ELSE IF i <= n + (l + e) THEN "Medium" ELSE "Heavy"
      BY <1>6, <3>1
    <3>2. CASE c = "Light"
      <4>1. a = n + 1 /\ b = n + l
        BY <3>2 DEF l
      <4> HIDE DEF a, b
      <4>2. \A i \in 1..N : i > n => (ClassAt(i) = c <=> i \in a..b)
        BY ONLY <1>1, <3>0, <3>1, <3>2, <4>1
      <4>3. \A i \in a..b : i \in 1..N /\ i > n
        BY ONLY <1>1, <3>0, <4>1
      <4> QED BY <2>2, <4>2, <4>3
    <3>3. CASE c = "Medium"
      <4>1. a = n + l + 1 /\ b = n + l + e
        BY <3>3 DEF e
      <4> HIDE DEF a, b
      <4>2. \A i \in 1..N : i > n => (ClassAt(i) = c <=> i \in a..b)
        BY ONLY <1>1, <3>0, <3>1, <3>3, <4>1
      <4>3. \A i \in a..b : i \in 1..N /\ i > n
        BY ONLY <1>1, <3>0, <4>1
      <4> QED BY <2>2, <4>2, <4>3
    <3>4. CASE c = "Heavy"
      <4>1. a = n + (l + e) + 1 /\ b = n + (l + e) + h
        BY <3>4 DEF h
      <4> HIDE DEF a, b
      <4>2. \A i \in 1..N : i > n => (ClassAt(i) = c <=> i \in a..b)
        BY ONLY <1>1, <3>0, <3>1, <3>4, <4>1
      <4>3. \A i \in a..b : i \in 1..N /\ i > n
        BY ONLY <1>1, <3>0, <4>1
      <4> QED BY <2>2, <4>2, <4>3
    <3> QED BY <3>2, <3>3, <3>4 DEF Class
  <2>5. Cardinality(a..b) = share[c]
    <3> HIDE DEF a, b
    <3>1. Cardinality(a..b) = IF a > b THEN 0 ELSE b - a + 1
      BY <2>3, FS_Interval
    <3>2. share[c] \in Nat
      BY <1>3
    <3> QED BY <2>3, <3>1, <3>2
  <2> QED BY <2>4, <2>5
<1>10. ASSUME NEW k \in 1..(m + 1), NEW c \in Class
       PROVE  /\ Cardinality(Turn(t, g, k, c)) <= Weight[c]
              /\ Cardinality(Turn(t, g, k, c)) < Weight[c] =>
                    c \in left /\ \A i \in 1..N : g[i] > k => ClassAt(i) # c
  <2>1. CASE k = m + 1
    <3>1. ASSUME NEW i \in 1..N PROVE ~(g[i] > k)
      BY <1>7, <2>1
    <3> QED BY <1>9, <2>1, <3>1
  <2>2. CASE k # m + 1
    <3>1. k \in 1..m
      BY <2>2
    <3>2. Turn(t, g, k, c) = Turn(s, f, k, c)
      <4>1. Turn(t, g, k, c) = {i \in 1..N : g[i] = k /\ ClassAt(i) = c}
        BY DEF Turn, N
      <4>2. Turn(s, f, k, c) = {i \in 1..n : f[i] = k /\ QueueOf(s[i]) = c}
        BY DEF Turn, n
      <4>3. ASSUME NEW i \in 1..N, g[i] = k PROVE i \in 1..n
        <5>1. ~(i > n)
          BY <1>6, <2>2, <4>3
        <5> QED BY <1>1, <1>2, <5>1
      <4> HIDE DEF ClassAt
      <4> QED BY <1>6, <4>1, <4>2, <4>3
    <3>3. SUFFICES ASSUME Cardinality(Turn(s, f, k, c)) < Weight[c]
                   PROVE  c \in left /\ \A i \in 1..N : g[i] > k => ClassAt(i) # c
      BY <1>4, <3>1, <3>2
    <3>4. c \in out /\ \A i \in 1..n : f[i] > k => QueueOf(s[i]) # c
      BY <1>4, <3>1, <3>3
    <3>5. share[c] = 0
      BY <3>4
    <3>6. c \in left
      BY <1>3, <3>5
    <3>7. ASSUME NEW i \in 1..N, g[i] > k, ClassAt(i) = c PROVE FALSE
      <4>1. CASE i <= n
        <5>1. i \in 1..n
          BY <1>1, <1>2, <4>1
        <5> HIDE DEF ClassAt
        <5> QED BY <1>6, <3>4, <3>7, <5>1
      <4>2. CASE i > n
        <5>1. i \in Turn(t, g, m + 1, c)
          BY <1>6, <3>7, <4>2 DEF Turn, N
        <5>2. i \in (From(c) + 1)..(From(c) + 0)
          BY <1>9, <3>5, <5>1
        <5>3. From(c) \in Nat
          BY <1>1
        <5> HIDE DEF From
        <5> QED BY <5>2, <5>3
      <4> QED BY <1>1, <1>2, <4>1, <4>2
    <3> QED BY <3>6, <3>7
  <2> QED BY <2>1, <2>2
<1>11. InCycles(t, g, m + 1, left)
  BY <1>7, <1>8, <1>10 DEF InCycles, N
<1> HIDE DEF InCycles
<1> QED BY <1>11 DEF t

\* A drain begins without a cycle, and while it lasts nothing else runs, so that nothing
\* is put into a queue that has run out.
LEMMA RoundsKept ==
    ASSUME NodeInv, Rounds, [Next]_nodeVars
    PROVE  Rounds'
<1>1. CASE drained' = drained /\ RunOut \subseteq RunOut'
  <2>0. PICK m \in Nat : \E f : InCycles(drained, f, m, RunOut)
    BY DEF Rounds
  <2>1. PICK f : m \in Nat /\ InCycles(drained, f, m, RunOut)
    BY <2>0
  <2>2. ASSUME NEW o, RunOut \subseteq o PROVE InCycles(drained, f, m, o)
    BY <2>1, <2>2 DEF InCycles
  <2>3. InCycles(drained, f, m, RunOut')
    BY <1>1, <2>2
  <2>4. InCycles(drained', f, m, RunOut')
    BY ONLY <1>1, <2>3, Zenon
  <2> QED BY <2>1, <2>4 DEF Rounds
<1>2. CASE drained' = <<>>
  <2>1. ASSUME NEW o PROVE InCycles(<<>>, [i \in 1..0 |-> 0], 0, o)
    <3>1. Len(<<>>) = 0
      OBVIOUS
    <3> QED BY <3>1 DEF InCycles
  <2>2. \E f : InCycles(drained', f, 0, RunOut')
    BY ONLY <1>2, <2>1, Zenon
  <2> QED BY <2>2 DEF Rounds
<1>3. CASE ScheduleCycle
  <2> DEFINE share == [c \in Class |-> Share(c)]
             left == {c \in Class : queues'[c] = <<>>}
  <2>1. /\ holder = "scheduler" /\ holder' = "scheduler" /\ drained' = drained \o CycleOrder
        /\ \A c \in Class : queues'[c] = Leave(c)
    BY <1>3 DEF ScheduleCycle, Leave
  <2>2. RunOut = {c \in Class : queues[c] = <<>>} /\ RunOut' = left
    BY <2>1 DEF RunOut
  <2>0. PICK m \in Nat : \E f : InCycles(drained, f, m, RunOut)
    BY DEF Rounds
  <2>3. PICK f : m \in Nat /\ InCycles(drained, f, m, RunOut)
    BY <2>0
  <2>4. ASSUME NEW c \in Class
        PROVE  /\ queues[c] \in Seq(Req) /\ Len(queues[c]) \in Nat
               /\ Share(c) \in 0..Len(queues[c]) /\ Share(c) <= Weight[c]
               /\ Share(c) < Weight[c] => Share(c) = Len(queues[c])
               /\ Leave(c) \in Seq(Req) /\ Len(Leave(c)) = Len(queues[c]) - Share(c)
    <3>1. queues[c] \in Seq(Req)
      BY DEF NodeInv, NodeTypeOK
    <3> QED BY <3>1, ShareFacts, TakeAndLeave
  <2>5. ASSUME NEW c \in Class, Share(c) < Weight[c] PROVE c \in left
    <3>1. Len(Leave(c)) = 0 /\ Leave(c) \in Seq(Req)
      BY <2>4, <2>5
    <3>2. Leave(c) = <<>>
      BY <3>1
    <3> QED BY <2>1, <3>2
  <2>6. ASSUME NEW c \in RunOut \cap Class PROVE Share(c) = 0
    <3>1. Len(queues[c]) = 0
      BY <2>2
    <3> QED BY <2>4, <3>1
  <2>7. /\ share \in [Class -> Nat]
        /\ share["Light"] = Share("Light") /\ share["Medium"] = Share("Medium")
        /\ share["Heavy"] = Share("Heavy")
        /\ \A c \in Class : share[c] = Share(c)
    BY <2>4 DEF Class
  <2>8. drained \in Seq(Req) /\ CycleOrder \in Seq(Req)
        /\ Len(CycleOrder) = Share("Light") + Share("Medium") + Share("Heavy")
        /\ \A j \in 1..Len(CycleOrder) :
              QueueOf(CycleOrder[j])
                = IF j <= Share("Light") THEN "Light"
                  ELSE IF j <= Share("Light") + Share("Medium") THEN "Medium" ELSE "Heavy"
    BY CyclePositions DEF NodeInv, NodeTypeOK
  <2> HIDE DEF share, left
  <2> DEFINE u == CycleOrder
  <2>9. /\ u \in Seq(Req) /\ Len(u) = share["Light"] + share["Medium"] + share["Heavy"]
        /\ \A j \in 1..Len(u) :
              QueueOf(u[j]) = IF j <= share["Light"] THEN "Light"
                              ELSE IF j <= share["Light"] + share["Medium"] THEN "Medium"
                              ELSE "Heavy"
    BY ONLY <2>7, <2>8
  <2> HIDE DEF u
  <2>10. /\ \A c \in Class : share[c] <= Weight[c]
         /\ \A c \in Class : share[c] < Weight[c] => c \in left
         /\ \A c \in RunOut \cap Class : share[c] = 0
    BY <2>4, <2>5, <2>6, <2>7
  <2>11. \E g : InCycles(drained \o u, g, m + 1, left)
    BY ONLY <2>3, <2>7, <2>8, <2>9, <2>10, OneCycleMore
  <2>12. PICK g : InCycles(drained', g, m + 1, RunOut')
    BY ONLY <2>1, <2>2, <2>11, Zenon DEF u
  <2>13. m + 1 \in Nat
    OBVIOUS
  <2> QED BY <2>12, <2>13 DEF Rounds
<1>4. CASE \E r \in Req : RouteRequest(r) \/ FinishExecution(r)
  BY <1>1, <1>4 DEF RouteRequest, FinishExecution, RunOut
<1>5. CASE ExecutorTakes \/ MetricsUpdate \/ UNCHANGED nodeVars
  BY <1>1, <1>5 DEF ExecutorTakes, MetricsUpdate, nodeVars, RunOut
<1>6. CASE SchedulerWakes
  BY <1>2, <1>6 DEF SchedulerWakes
<1>7. CASE SchedulerSleeps
  BY <1>1, <1>7 DEF SchedulerSleeps, RunOut
<1> QED BY <1>3, <1>4, <1>5, <1>6, <1>7 DEF Next

THEOREM DrainsInRounds == Spec => []Rounds
<1>1. Init => Rounds
  <2> SUFFICES ASSUME Init PROVE Rounds
    OBVIOUS
  <2>1. drained = <<>> /\ Len(<<>>) = 0
    BY DEF Init
  <2>2. InCycles(<<>>, [i \in 1..0 |-> 0], 0, RunOut)
    BY <2>1 DEF InCycles
  <2> QED BY ONLY <2>1, <2>2, 0 \in Nat, Zenon DEF Rounds
<1>2. NodeInv /\ Rounds /\ [Next]_nodeVars => Rounds'
  BY RoundsKept
<1> QED BY <1>1, <1>2, NodeInvariant, PTL DEF Spec

\* Whatever the weights, and however many cycles a drain takes, no class takes a second
\* share of it before every other class has had its own.
THEOREM SharesAreWeighted == Spec => []WeightedDrain
<1>1. NodeInv /\ Rounds => WeightedDrain
  BY CyclesAreFair DEF NodeInv
<1> QED BY <1>1, NodeInvariant, DrainsInRounds, PTL

=============================================================================
