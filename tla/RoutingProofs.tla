----------------------------- MODULE RoutingProofs -----------------------------
(***************************************************************************)
(* Theorems about Routing, for any number of nodes, metrics, forecasts and *)
(* threshold that satisfy RoutingAssumption.                               *)
(***************************************************************************)
EXTENDS Routing, FiniteSetTheorems, WellFoundedInduction, TLAPS

-----------------------------------------------------------------------------
\* Least elements.

\* A non-empty set of naturals has a least element, and Min returns it.
LEMMA LeastNatural ==
    ASSUME NEW T, T \subseteq Nat, T # {}
    PROVE  \E x \in T : \A y \in T : x <= y
<1>1. PICK x \in T : \A y \in T : ~ (<<y, x>> \in OpToRel(<, Nat))
  BY NatLessThanWellFounded, WFMin
<1>2. \A y \in T : ~ (y < x)
  BY <1>1 DEF OpToRel
<1> QED BY <1>2

LEMMA MinFacts ==
    ASSUME NEW T, T \subseteq Nat, T # {}
    PROVE  Min(T) \in T /\ \A y \in T : Min(T) <= y
BY LeastNatural DEF Min

-----------------------------------------------------------------------------
\* Powers of two, and the ring of the finger tables.

\* The recursion that defines Pow2 has a solution.
LEMMA Pow2Defined ==
    Pow2 = [k \in 0..N |-> IF k = 0 THEN 1 ELSE 2 * Pow2[k - 1]]
<1> DEFINE Solves(g, m) == g = [k \in 0..m |-> IF k = 0 THEN 1 ELSE 2 * g[k - 1]]
           T == {m \in Nat : ~ \E g : Solves(g, m)}
<1>1. T = {}
  <2> SUFFICES ASSUME T # {} PROVE FALSE
    OBVIOUS
  <2>1. PICK m \in T : \A y \in T : m <= y
    <3>1. T \subseteq Nat
      OBVIOUS
    <3> HIDE DEF T
    <3> QED BY <3>1, LeastNatural
  <2>2. CASE m = 0
    <3>1. Solves([k \in 0..0 |-> 1], 0)
      OBVIOUS
    <3> QED BY <2>1, <2>2, <3>1
  <2>3. CASE m # 0
    <3>1. m - 1 \in Nat /\ m - 1 \notin T
      <4>1. m \in Nat
        BY <2>1
      <4>2. m - 1 \in Nat /\ ~(m <= m - 1)
        BY <2>3, <4>1
      <4> HIDE DEF T
      <4> QED BY <2>1, <4>2
    <3>2. PICK g : Solves(g, m - 1)
      BY <3>1
    <3> DEFINE h == [k \in 0..m |-> IF k = m THEN 2 * g[m - 1] ELSE g[k]]
    <3>3. ASSUME NEW k \in 0..m
          PROVE  h[k] = IF k = 0 THEN 1 ELSE 2 * h[k - 1]
      BY <2>1, <2>3, <3>2
    <3>4. Solves(h, m)
      BY <3>3
    <3> QED BY <2>1, <3>4
  <2> QED BY <2>2, <2>3
<1>2. \E g : Solves(g, N)
  BY <1>1, RoutingAssumption
<1> QED BY <1>2 DEF Pow2

LEMMA Pow2Facts ==
    /\ Pow2[0] = 1
    /\ \A k \in 0..N : Pow2[k] \in Nat /\ Pow2[k] > k
    /\ \A k \in 1..N : Pow2[k] = 2 * Pow2[k - 1]
    /\ \A k \in 0..N : \A j \in 0..N : j < k => Pow2[j] < Pow2[k]
<1> USE RoutingAssumption
<1>1. Pow2[0] = 1
  BY Pow2Defined
<1>2. ASSUME NEW k \in 1..N PROVE Pow2[k] = 2 * Pow2[k - 1]
  BY Pow2Defined
<1>3. ASSUME NEW k \in 0..N PROVE Pow2[k] \in Nat /\ Pow2[k] > k
  <2> DEFINE T == {i \in 0..N : ~(Pow2[i] \in Nat /\ Pow2[i] > i)}
  <2> SUFFICES T = {}
    OBVIOUS
  <2> SUFFICES ASSUME T # {} PROVE FALSE
    OBVIOUS
  <2>1. PICK m \in T : \A y \in T : m <= y
    <3>1. T \subseteq Nat
      OBVIOUS
    <3> HIDE DEF T
    <3> QED BY <3>1, LeastNatural
  <2>2. m # 0
    BY <1>1, <2>1
  <2>3. m - 1 \in 0..N /\ m \in 1..N /\ m - 1 \notin T
    BY <2>1, <2>2
  <2>4. Pow2[m - 1] \in Nat /\ Pow2[m - 1] > m - 1
    BY <2>3
  <2>5. Pow2[m] = 2 * Pow2[m - 1]
    BY <1>2, <2>3
  <2>6. Pow2[m] \in Nat /\ Pow2[m] > m
    BY <2>3, <2>4, <2>5
  <2> QED BY <2>1, <2>6
<1>4. ASSUME NEW k \in 0..N, NEW j \in 0..N, j < k PROVE Pow2[j] < Pow2[k]
  <2> DEFINE T == {i \in 0..N : j < i /\ ~(Pow2[j] < Pow2[i])}
  <2> SUFFICES T = {}
    BY <1>4
  <2> SUFFICES ASSUME T # {} PROVE FALSE
    OBVIOUS
  <2>1. PICK m \in T : \A y \in T : m <= y
    <3>1. T \subseteq Nat
      OBVIOUS
    <3> HIDE DEF T
    <3> QED BY <3>1, LeastNatural
  <2>2. m \in 1..N /\ m - 1 \in 0..N /\ m - 1 \notin T /\ j <= m - 1
    BY <2>1
  <2>3. Pow2[j] \in Nat /\ Pow2[m - 1] \in Nat /\ Pow2[m - 1] > 0 /\ Pow2[m] = 2 * Pow2[m - 1]
    BY <1>2, <1>3, <2>2
  <2>4. Pow2[j] <= Pow2[m - 1]
    BY <2>2, <2>3
  <2>5. Pow2[j] < Pow2[m]
    BY <2>3, <2>4
  <2> QED BY <2>1, <2>5
<1> QED BY <1>1, <1>2, <1>3, <1>4

\* The ring has an id for each node, and every finger's reach is less than the nodes'
\* number, when there are several.
LEMMA RingFacts ==
    /\ Bits \in 1..N /\ RingSize \in Nat /\ RingSize >= N
    /\ N = 1 => Bits = 1
    /\ N > 1 => \A k \in 0..(Bits - 1) : Pow2[k] \in 1..(N - 1)
<1> USE RoutingAssumption
<1> DEFINE T == {m \in 1..N : Pow2[m] >= N}
<1>1. N \in T
  BY Pow2Facts
<1>2. T \subseteq Nat /\ T # {}
  BY <1>1
<1>3. Bits \in T /\ \A m \in T : Bits <= m
  <2> HIDE DEF T
  <2>1. Min(T) \in T /\ \A m \in T : Min(T) <= m
    BY <1>2, MinFacts
  <2> QED BY <2>1 DEF Bits, T
<1>4. Bits \in 1..N /\ RingSize \in Nat /\ RingSize >= N
  BY <1>3, Pow2Facts DEF RingSize
<1>5. ASSUME N > 1, NEW k \in 0..(Bits - 1) PROVE Pow2[k] \in 1..(N - 1)
  <2>1. k \in 0..N /\ k \notin T
    BY <1>3, <1>4
  <2>2. Pow2[k] \in Nat /\ Pow2[k] > 0
    BY <2>1, Pow2Facts
  <2>3. Pow2[k] < N
    <3>1. CASE k = 0
      BY <1>5, <3>1, Pow2Facts
    <3>2. CASE k # 0
      BY <2>1, <2>2, <3>2
    <3> QED BY <3>1, <3>2
  <2> QED BY <2>2, <2>3
<1> QED BY <1>4, <1>5

-----------------------------------------------------------------------------
\* Finger tables.

\* The way clockwise from id to n.
Way(id, n) == (n - id) % RingSize

\* The remainder of a number that is not far from the ring.
LEMMA RemainderFacts ==
    ASSUME NEW M \in Nat \ {0}, NEW a \in Int
    PROVE  /\ a \in 0..(M - 1) => a % M = a
           /\ a >= M /\ a < 2 * M => a % M = a - M
           /\ a < 0 /\ a >= -M => a % M = a + M
           /\ a < -M /\ a >= -(2 * M) => a % M = a + 2 * M
<1>1. PICK q \in Int, r \in 0..(M - 1) : q = a \div M /\ r = a % M /\ a = M * q + r
  OBVIOUS
<1>2. ASSUME NEW d \in Int, NEW t \in 0..(M - 1), a = M * d + t PROVE a % M = t
  <2>1. M * (q - d) = t - r
    BY <1>1, <1>2
  <2>2. t - r < M /\ t - r > -M
    BY <1>1
  <2>3. q - d = 0
    <3>1. ASSUME q - d >= 1 PROVE FALSE
      <4>1. M * (q - d - 1) >= 0
        BY <1>1, <3>1
      <4> QED BY <1>1, <2>1, <2>2, <4>1
    <3>2. ASSUME q - d <= -1 PROVE FALSE
      <4>1. M * (d - q - 1) >= 0
        BY <1>1, <3>2
      <4> QED BY <1>1, <2>1, <2>2, <4>1
    <3> QED BY <1>1, <3>1, <3>2
  <2> QED BY <1>1, <2>1, <2>3
<1>3. ASSUME a \in 0..(M - 1) PROVE a % M = a
  <2>1. a = M * 0 + a
    OBVIOUS
  <2> QED BY <1>2, <1>3, <2>1
<1>4. ASSUME a >= M /\ a < 2 * M PROVE a % M = a - M
  <2>1. a = M * 1 + (a - M) /\ a - M \in 0..(M - 1)
    BY <1>4
  <2> QED BY <1>2, <2>1
<1>5. ASSUME a < 0 /\ a >= -M PROVE a % M = a + M
  <2>1. a = M * (-1) + (a + M) /\ a + M \in 0..(M - 1)
    BY <1>5
  <2> QED BY <1>2, <2>1
<1>6. ASSUME a < -M /\ a >= -(2 * M) PROVE a % M = a + 2 * M
  <2>1. a = M * (-2) + (a + 2 * M) /\ a + 2 * M \in 0..(M - 1)
    BY <1>6
  <2> QED BY <1>2, <2>1
<1> QED BY <1>3, <1>4, <1>5, <1>6

\* Where the finger with reach 2^k is, on the arc with nodes, past it, or beyond id 0.
LEMMA FingerIs ==
    ASSUME N > 1, NEW n \in Node, NEW k \in 0..(Bits - 1)
    PROVE  FingerTable(n)[k] = IF n + Pow2[k] < N THEN n + Pow2[k]
                               ELSE IF n + Pow2[k] < RingSize THEN 0
                               ELSE n + Pow2[k] - RingSize
<1> USE RoutingAssumption
<1>1. /\ RingSize \in Nat \ {0} /\ RingSize >= N /\ Pow2[k] \in 1..(N - 1) /\ n \in 0..(N - 1)
  BY RingFacts DEF Node
<1>2. PICK t \in Nat : t = n + Pow2[k]
  BY <1>1
<1>3. /\ t < RingSize => t % RingSize = t
      /\ t >= RingSize => t % RingSize = t - RingSize /\ t - RingSize \in Node
  <2>1. t < 2 * RingSize /\ t \in Int
    BY <1>1, <1>2
  <2>2. /\ t \in 0..(RingSize - 1) => t % RingSize = t
        /\ t >= RingSize /\ t < 2 * RingSize => t % RingSize = t - RingSize
    BY <1>1, <2>1, RemainderFacts
  <2>3. t >= RingSize => t - RingSize \in Node
    BY <1>1, <1>2 DEF Node
  <2> QED BY <1>1, <2>1, <2>2, <2>3
<1>4. FingerTable(n)[k] = FindSuccessor(t % RingSize)
  BY <1>2 DEF FingerTable
<1>5. CASE t < N
  <2>1. t \in Node /\ t < RingSize
    BY <1>1, <1>5 DEF Node
  <2> QED BY <1>2, <1>3, <1>4, <1>5, <2>1 DEF FindSuccessor
<1>6. CASE t >= N /\ t < RingSize
  <2>1. t \notin Node
    BY <1>6 DEF Node
  <2> QED BY <1>2, <1>3, <1>4, <1>6, <2>1 DEF FindSuccessor
<1>7. CASE t >= RingSize
  <2>1. ~(t < N) /\ ~(t < RingSize)
    BY <1>1, <1>7
  <2>2. FingerTable(n)[k] = t - RingSize
    BY <1>3, <1>4, <1>7 DEF FindSuccessor
  <2>3. ~(n + Pow2[k] < N) /\ ~(n + Pow2[k] < RingSize) /\ t - RingSize = n + Pow2[k] - RingSize
    BY <1>1, <1>2, <2>1
  <2> QED BY <2>2, <2>3
<1>8. t < N \/ (t >= N /\ t < RingSize) \/ t >= RingSize
  BY <1>1, <1>2
<1> QED BY <1>5, <1>6, <1>7, <1>8

\* A finger is another node, and how far clockwise it is.
LEMMA FingerFacts ==
    ASSUME N > 1, NEW n \in Node, NEW k \in 0..(Bits - 1)
    PROVE  /\ FingerTable(n)[k] \in Node \ {n}
           /\ Way(n, FingerTable(n)[k]) = IF n + Pow2[k] < N THEN Pow2[k]
                                          ELSE IF n + Pow2[k] < RingSize THEN RingSize - n
                                          ELSE Pow2[k]
<1> USE RoutingAssumption
<1>1. /\ RingSize \in Nat \ {0} /\ RingSize >= N /\ Pow2[k] \in 1..(N - 1) /\ n \in 0..(N - 1)
  BY RingFacts DEF Node
<1>2. PICK f \in Int : f = FingerTable(n)[k]
                       /\ f = IF n + Pow2[k] < N THEN n + Pow2[k]
                              ELSE IF n + Pow2[k] < RingSize THEN 0
                              ELSE n + Pow2[k] - RingSize
  BY <1>1, FingerIs
<1>3. f \in Node \ {n}
  BY <1>1, <1>2 DEF Node
<1>4. PICK d \in Int : d = f - n
  BY <1>2, <1>1
<1>5. /\ d \in 0..(RingSize - 1) => d % RingSize = d
      /\ d < 0 /\ d >= -RingSize => d % RingSize = d + RingSize
  BY <1>1, RemainderFacts
<1>6. Way(n, f) = IF n + Pow2[k] < N THEN Pow2[k]
                  ELSE IF n + Pow2[k] < RingSize THEN RingSize - n
                  ELSE Pow2[k]
  <2>1. Way(n, f) = d % RingSize
    BY <1>4 DEF Way
  <2>2. CASE n + Pow2[k] < N
    BY <1>1, <1>2, <1>4, <1>5, <2>1, <2>2
  <2>3. CASE ~(n + Pow2[k] < N) /\ n + Pow2[k] < RingSize
    BY <1>1, <1>2, <1>4, <1>5, <2>1, <2>3
  <2>4. CASE ~(n + Pow2[k] < N) /\ ~(n + Pow2[k] < RingSize)
    BY <1>1, <1>2, <1>4, <1>5, <2>1, <2>4
  <2> QED BY <2>2, <2>3, <2>4
<1> QED BY <1>2, <1>3, <1>6

\* Later fingers are further away clockwise, or the same.
LEMMA FingersAscend ==
    ASSUME N > 1, NEW n \in Node,
           NEW j \in 0..(Bits - 1), NEW k \in 0..(Bits - 1), j <= k
    PROVE  Way(n, FingerTable(n)[j]) <= Way(n, FingerTable(n)[k])
<1> USE RoutingAssumption
<1>1. /\ RingSize \in Nat \ {0} /\ RingSize >= N /\ n \in 0..(N - 1)
      /\ Pow2[j] \in 1..(N - 1) /\ Pow2[k] \in 1..(N - 1)
  BY RingFacts DEF Node
<1>2. Pow2[j] <= Pow2[k]
  <2>1. j \in 0..N /\ k \in 0..N /\ (j < k \/ j = k)
    BY RingFacts
  <2> QED BY <1>1, <2>1, Pow2Facts
<1>3. PICK wj \in Int : wj = Way(n, FingerTable(n)[j])
                        /\ wj = IF n + Pow2[j] < N THEN Pow2[j]
                                ELSE IF n + Pow2[j] < RingSize THEN RingSize - n ELSE Pow2[j]
  BY <1>1, FingerFacts
<1>4. PICK wk \in Int : wk = Way(n, FingerTable(n)[k])
                        /\ wk = IF n + Pow2[k] < N THEN Pow2[k]
                                ELSE IF n + Pow2[k] < RingSize THEN RingSize - n ELSE Pow2[k]
  BY <1>1, FingerFacts
<1>5. wj <= wk
  BY <1>1, <1>2, <1>3, <1>4
<1> QED BY <1>3, <1>4, <1>5

\* Of all nodes the finger is the first from n + 2^k on, clockwise, and no other.
LEMMA FingerIsNearest ==
    ASSUME N > 1, NEW n \in Node, NEW k \in 0..(Bits - 1), NEW other \in Node
    PROVE  /\ Way(n + Pow2[k], FingerTable(n)[k]) \in Nat /\ Way(n + Pow2[k], other) \in Nat
           /\ other # FingerTable(n)[k] =>
                  Way(n + Pow2[k], FingerTable(n)[k]) < Way(n + Pow2[k], other)
<1> USE RoutingAssumption
<1>1. /\ RingSize \in Nat \ {0} /\ RingSize >= N /\ Pow2[k] \in 1..(N - 1) /\ n \in 0..(N - 1)
      /\ other \in 0..(N - 1)
  BY RingFacts DEF Node
<1>2. PICK f \in Node : f = FingerTable(n)[k]
                       /\ f = IF n + Pow2[k] < N THEN n + Pow2[k]
                              ELSE IF n + Pow2[k] < RingSize THEN 0
                              ELSE n + Pow2[k] - RingSize
  BY FingerIs, FingerFacts
<1>3. PICK t \in Nat : t = n + Pow2[k] /\ t < 2 * RingSize
  BY <1>1
\* The ways, once the remainder is worked out.
<1>4. ASSUME NEW m \in Node
      PROVE  Way(t, m) = IF m >= t THEN m - t
                         ELSE IF m - t >= -RingSize THEN m - t + RingSize
                         ELSE m - t + 2 * RingSize
  <2>1. PICK d \in Int : d = m - t
    BY <1>3 DEF Node
  <2>2. m \in 0..(N - 1)
    BY DEF Node
  <2>3. Way(t, m) = d % RingSize
    BY <2>1 DEF Way
  <2>4. /\ d \in 0..(RingSize - 1) => d % RingSize = d
        /\ d < 0 /\ d >= -RingSize => d % RingSize = d + RingSize
        /\ d < -RingSize /\ d >= -(2 * RingSize) => d % RingSize = d + 2 * RingSize
    BY <1>1, RemainderFacts
  <2>5. /\ m >= t => d \in 0..(RingSize - 1)
        /\ ~(m >= t) => d < 0
        /\ ~(m - t >= -RingSize) => d < -RingSize /\ d >= -(2 * RingSize) /\ ~(m >= t)
    BY <1>1, <1>3, <2>1, <2>2
  <2>6. CASE m >= t
    BY <2>1, <2>3, <2>4, <2>5, <2>6
  <2>7. CASE ~(m >= t) /\ m - t >= -RingSize
    BY <2>1, <2>3, <2>4, <2>5, <2>7
  <2>8. CASE ~(m - t >= -RingSize)
    BY <2>1, <2>3, <2>4, <2>5, <2>8
  <2> QED BY <2>6, <2>7, <2>8
<1>5. f \in 0..(N - 1)
  BY DEF Node
<1>6. CASE n + Pow2[k] < N
  <2>1. f = t /\ Way(t, f) = 0
    BY <1>1, <1>2, <1>3, <1>4, <1>5, <1>6
  <2>2. Way(t, other) \in Nat /\ (other # f => Way(t, other) > 0)
    BY <1>1, <1>3, <1>4, <1>6, <2>1
  <2> QED BY <1>2, <1>3, <2>1, <2>2
<1>7. CASE ~(n + Pow2[k] < N) /\ n + Pow2[k] < RingSize
  <2>1. f = 0 /\ Way(t, f) = RingSize - t /\ RingSize - t \in Nat
    BY <1>1, <1>2, <1>3, <1>4, <1>5, <1>7
  <2>2. Way(t, other) = other - t + RingSize /\ Way(t, other) \in Nat
    BY <1>1, <1>3, <1>4, <1>7
  <2>3. other # f => Way(t, f) < Way(t, other)
    BY <1>1, <1>3, <2>1, <2>2
  <2> QED BY <1>2, <1>3, <2>1, <2>2, <2>3
<1>8. CASE ~(n + Pow2[k] < N) /\ ~(n + Pow2[k] < RingSize)
  <2>1. f = t - RingSize /\ Way(t, f) = 0
    BY <1>1, <1>2, <1>3, <1>4, <1>5, <1>8
  <2>2. Way(t, other) \in Nat /\ (other # f => Way(t, other) > 0)
    BY <1>1, <1>3, <1>4, <1>8, <2>1
  <2> QED BY <1>2, <1>3, <2>1, <2>2
<1> QED BY <1>6, <1>7, <1>8

-----------------------------------------------------------------------------
\* Choices.

ScoresOf == [Node -> Nat]

\* min over a dict returns an entry with the least value.
LEMMA FirstLeastFacts ==
    ASSUME NEW k \in Nat \ {0}, NEW s \in [1..k -> Node], NEW value \in ScoresOf
    PROVE  /\ FirstLeast(s, value) \in Node
           /\ \E i \in 1..k : FirstLeast(s, value) = s[i]
           /\ \A i \in 1..k : value[FirstLeast(s, value)] <= value[s[i]]
<1> DEFINE values == {value[s[j]] : j \in 1..k}
           least  == {i \in 1..k : \A j \in 1..k : value[s[i]] <= value[s[j]]}
<1>1. \A i \in 1..k : s[i] \in Node /\ value[s[i]] \in Nat
  BY DEF ScoresOf
<1>2. PICK v \in values : \A y \in values : v <= y
  <2>1. values \subseteq Nat
    BY <1>1
  <2>2. value[s[1]] \in values
    OBVIOUS
  <2> HIDE DEF values
  <2> QED BY <2>1, <2>2, LeastNatural
<1>3. least # {} /\ least \subseteq Nat
  BY <1>2
<1>4. Min(least) \in least
  <2> HIDE DEF least
  <2> QED BY <1>3, MinFacts
<1>5. FirstLeast(s, value) = s[Min(least)]
  BY DEF FirstLeast
<1> QED BY <1>1, <1>4, <1>5

LEMMA LeastLoadedFacts ==
    ASSUME NEW scores \in ScoresOf
    PROVE  /\ LeastLoaded(scores) \in Node
           /\ \A n \in Node : scores[LeastLoaded(scores)] <= scores[n]
<1> USE RoutingAssumption
<1>1. [i \in 1..N |-> i - 1] \in [1..N -> Node] /\ N \in Nat \ {0}
  BY DEF Node
<1>2. \A i \in 1..N : [j \in 1..N |-> j - 1][i] = i - 1
  OBVIOUS
<1> DEFINE s == [i \in 1..N |-> i - 1]
<1> HIDE DEF s
<1>3. /\ FirstLeast(s, scores) \in Node
      /\ \A i \in 1..N : scores[FirstLeast(s, scores)] <= scores[s[i]]
  BY <1>1, FirstLeastFacts DEF s
<1>4. \A n \in Node : n + 1 \in 1..N /\ s[n + 1] = n
  BY <1>2 DEF Node, s
<1> QED BY <1>3, <1>4 DEF LeastLoaded, s

\* The candidates are a list, and there is one at least.
LEMMA CandidateFacts ==
    ASSUME NEW c \in CandidateLists
    PROVE  \E k \in Nat \ {0} : c \in [1..k -> Node]
<1>1. {3, N} \subseteq Nat \ {0} /\ {3, N} # {} /\ {3, N} \subseteq Nat
  BY RoutingAssumption
<1>2. Min({3, N}) \in {3, N}
  BY <1>1, MinFacts
<1>3. Min({3, N}) \in Nat \ {0}
  BY <1>1, <1>2
<1>4. c \in [1..Min({3, N}) -> Node]
  BY DEF CandidateLists
<1> QED BY <1>3, <1>4

\* How many fingers there are: at most Bits, none for a node alone, and every step of
\* a walk is counted.
LEMMA HopsFacts ==
    ASSUME NEW n \in Node
    PROVE  /\ Fingers(n) \subseteq 0..(Bits - 1)
           /\ N = 1 => Fingers(n) = {}
           /\ N > 1 => Fingers(n) = 0..(Bits - 1)
           /\ Cardinality(Fingers(n)) \in (IF N = 1 THEN 0 ELSE 1)..MaxHops
           /\ \A k \in Fingers(n) : Hops(n, k) \in 1..MaxHops
<1> USE RoutingAssumption
<1>1. Bits \in 1..N /\ (N = 1 => Bits = 1)
  BY RingFacts
<1>2. MaxHops \in Nat /\ Bits <= MaxHops
  BY <1>1 DEF MaxHops
<1>3. Fingers(n) \subseteq 0..(Bits - 1)
  BY DEF Fingers
<1>4. ASSUME N = 1 PROVE Fingers(n) = {}
  <2>1. Node = {0} /\ n = 0
    BY <1>4 DEF Node
  <2>2. \A k \in 0..(Bits - 1) : FingerTable(n)[k] = 0
    BY <2>1 DEF FingerTable, FindSuccessor
  <2> QED BY <2>1, <2>2 DEF Fingers
<1>5. ASSUME N > 1 PROVE Fingers(n) = 0..(Bits - 1)
  <2>1. \A k \in 0..(Bits - 1) : FingerTable(n)[k] # n
    BY <1>5, FingerFacts
  <2> QED BY <2>1 DEF Fingers
<1>6. IsFiniteSet(0..(Bits - 1)) /\ Cardinality(0..(Bits - 1)) = Bits
  <2>1. 0 \in Int /\ Bits - 1 \in Int /\ ~(0 > Bits - 1) /\ (Bits - 1) - 0 + 1 = Bits
    BY <1>1
  <2> QED BY <2>1, FS_Interval
<1>7. ASSUME NEW S, S \subseteq 0..(Bits - 1)
      PROVE  Cardinality(S) \in 0..MaxHops /\ (S # {} => Cardinality(S) \in 1..MaxHops)
  <2>1. IsFiniteSet(S) /\ Cardinality(S) <= Bits
    <3> DEFINE all == 0..(Bits - 1)
    <3>1. S \in SUBSET all /\ IsFiniteSet(all) /\ Cardinality(all) = Bits
      BY <1>6, <1>7
    <3> HIDE DEF all
    <3>2. IsFiniteSet(S) /\ Cardinality(S) <= Cardinality(all)
      BY <3>1, FS_Subset
    <3> QED BY <3>1, <3>2
  <2>2. Cardinality(S) \in Nat
    BY <2>1, FS_CardinalityType
  <2>3. S # {} => Cardinality(S) # 0
    BY <2>1, FS_EmptySet
  <2> QED BY <1>1, <1>2, <2>1, <2>2, <2>3
<1>8. Cardinality(Fingers(n)) \in (IF N = 1 THEN 0 ELSE 1)..MaxHops
  <2>1. N > 1 => Fingers(n) # {}
    <3>1. 0 \in 0..(Bits - 1)
      BY <1>1
    <3> QED BY <1>5, <3>1
  <2> QED BY <1>3, <1>7, <2>1
<1>9. ASSUME NEW k \in Fingers(n) PROVE Hops(n, k) \in 1..MaxHops
  <2>1. k \in {j \in Fingers(n) : j <= k} /\ {j \in Fingers(n) : j <= k} \subseteq 0..(Bits - 1)
    BY <1>1, <1>3
  <2> QED BY <1>7, <2>1 DEF Hops
<1> QED BY <1>3, <1>4, <1>5, <1>8, <1>9

\* An overflow ends at the first finger below the threshold, or else at the least
\* loaded node.
Overflow(n, scores, route) ==
    \/ /\ route.method = "chord_router"
       /\ \E k \in Fingers(n) :
              /\ route.node = FingerTable(n)[k]
              /\ scores[FingerTable(n)[k]] < Threshold
              /\ \A j \in Fingers(n) : j < k => scores[FingerTable(n)[j]] >= Threshold
    \/ /\ route.method = "least_connections_fallback"
       /\ route.node = LeastLoaded(scores)

Answers ==
    [node : Node, hops : (IF N = 1 THEN 0 ELSE 1)..MaxHops,
     method : {"allocation_engine", "chord_router", "least_connections_fallback"}]

LEMMA RouteFacts ==
    ASSUME NEW n \in Node, NEW scores \in ScoresOf
    PROVE  Route(n, scores) \in Answers /\ Overflow(n, scores, Route(n, scores))
<1> USE RoutingAssumption
<1> DEFINE acceptable == {k \in Fingers(n) : Hops(n, k) <= MaxHops
                                             /\ scores[FingerTable(n)[k]] < Threshold}
<1>1. /\ Fingers(n) \subseteq Nat /\ acceptable \subseteq Nat
      /\ \A k \in Fingers(n) : Hops(n, k) \in 1..MaxHops /\ FingerTable(n)[k] \in Node
  <2>1. \A k \in Fingers(n) : FingerTable(n)[k] \in Node
    BY DEF Fingers, FingerTable, FindSuccessor, Node
  <2>2. Fingers(n) \subseteq Nat
    BY HopsFacts, RingFacts
  <2> QED BY <2>1, <2>2, HopsFacts
<1>2. MaxHops \in Nat \ {0} /\ Cardinality(Fingers(n)) \in (IF N = 1 THEN 0 ELSE 1)..MaxHops
  BY HopsFacts, RingFacts DEF MaxHops
<1>3. CASE acceptable # {}
  <2>1. Min(acceptable) \in acceptable /\ \A j \in acceptable : Min(acceptable) <= j
    <3> HIDE DEF acceptable
    <3> QED BY <1>1, <1>3, MinFacts
  <2>2. PICK k \in acceptable : k = Min(acceptable) /\ \A j \in acceptable : k <= j
    BY <2>1
  <2>3. Route(n, scores) = [node |-> FingerTable(n)[k], hops |-> Hops(n, k), method |-> "chord_router"]
    BY <1>3, <2>2 DEF Route
  <2>4. \A j \in Fingers(n) : j < k => scores[FingerTable(n)[j]] >= Threshold
    <3> SUFFICES ASSUME NEW j \in Fingers(n), j < k, ~(scores[FingerTable(n)[j]] >= Threshold)
                 PROVE  FALSE
      OBVIOUS
    <3>1. scores[FingerTable(n)[j]] \in Nat
      BY <1>1 DEF ScoresOf
    <3>2. j \in acceptable
      BY <1>1, <3>1
    <3>3. k <= j /\ k \in Nat /\ j \in Nat
      BY <1>1, <2>2, <3>2
    <3> QED BY <3>3
  <2>5. k \in Fingers(n) /\ scores[FingerTable(n)[k]] < Threshold
    OBVIOUS
  <2>6. Hops(n, k) \in (IF N = 1 THEN 0 ELSE 1)..MaxHops /\ FingerTable(n)[k] \in Node
    BY <1>1, <1>2, <2>5
  <2> HIDE DEF acceptable
  <2>7. Route(n, scores) \in Answers
    BY <2>3, <2>6 DEF Answers
  <2>8. Overflow(n, scores, Route(n, scores))
    BY <2>3, <2>4, <2>5 DEF Overflow
  <2> QED BY <2>7, <2>8
<1>4. CASE acceptable = {}
  <2>1. PICK h \in Nat : h = Cardinality(Fingers(n)) /\ h \in (IF N = 1 THEN 0 ELSE 1)..MaxHops
    BY <1>2
  <2>2. Min({h, MaxHops}) = h
    <3>1. {h, MaxHops} \subseteq Nat /\ {h, MaxHops} # {} /\ h <= MaxHops
      BY <1>2, <2>1
    <3>2. Min({h, MaxHops}) \in {h, MaxHops} /\ \A y \in {h, MaxHops} : Min({h, MaxHops}) <= y
      BY <3>1, MinFacts
    <3> QED BY <1>2, <3>1, <3>2
  <2>3. Route(n, scores) = [node |-> LeastLoaded(scores), hops |-> h,
                            method |-> "least_connections_fallback"]
    BY <1>4, <2>1, <2>2 DEF Route
  <2>4. LeastLoaded(scores) \in Node
    BY LeastLoadedFacts
  <2> QED BY <2>1, <2>3, <2>4 DEF Answers, Overflow
<1> QED BY <1>3, <1>4

\* The decision for a request with these candidates.
Decision(c, scores) ==
    LET choice == PredictiveChoice(c, scores)
    IN  [node |-> choice.node, hops |-> choice.hops, method |-> choice.method,
         candidates |-> c, scores |-> scores]

\* select_node takes the best candidate, unless it is above the threshold.
LEMMA DecisionFacts ==
    ASSUME NEW c \in CandidateLists, NEW scores \in ScoresOf, NEW d, d = Decision(c, scores)
    PROVE  LET best == FirstLeast(c, scores)
           IN  /\ d.candidates = c /\ d.scores = scores
               /\ best \in Node /\ d.node \in Node
               /\ d.hops \in (IF N = 1 THEN 0 ELSE 1)..MaxHops
               /\ \A i \in DOMAIN c : c[i] \in Node /\ scores[best] <= scores[c[i]]
               /\ \/ /\ d.node = best /\ d.method = "allocation_engine"
                     /\ scores[best] <= Threshold
                  \/ scores[best] > Threshold /\ Overflow(best, scores, d)
<1> USE RoutingAssumption
<1> DEFINE best == FirstLeast(c, scores)
           choice == PredictiveChoice(c, scores)
<1>1. PICK k \in Nat \ {0} : c \in [1..k -> Node]
  BY CandidateFacts
<1>2. /\ best \in Node /\ \A i \in 1..k : scores[best] <= scores[c[i]]
      /\ DOMAIN c = 1..k /\ \A i \in 1..k : c[i] \in Node
  BY <1>1, FirstLeastFacts
<1>3. choice \in Answers /\ (\/ choice.node = best /\ choice.method = "allocation_engine"
                                /\ scores[best] <= Threshold
                             \/ scores[best] > Threshold /\ Overflow(best, scores, choice))
  <2> HIDE DEF best
  <2>1. scores[best] \in Nat
    BY <1>2 DEF ScoresOf
  <2>2. CASE scores[best] > Threshold
    <3>1. choice = Route(best, scores)
      BY <2>2 DEF PredictiveChoice, best
    <3> QED BY <1>2, <2>2, <3>1, RouteFacts
  <2>3. CASE ~(scores[best] > Threshold)
    <3>1. choice = [node |-> best, hops |-> 1, method |-> "allocation_engine"]
      BY <2>3 DEF PredictiveChoice, best, Direct
    <3>2. 1 \in (IF N = 1 THEN 0 ELSE 1)..MaxHops
      BY RingFacts DEF MaxHops
    <3> QED BY <1>2, <2>1, <2>3, <3>1, <3>2 DEF Answers
  <2> QED BY <2>2, <2>3
<1> HIDE DEF choice
<1>4. /\ d.candidates = c /\ d.scores = scores
      /\ d.node = choice.node /\ d.hops = choice.hops /\ d.method = choice.method
  BY DEF Decision, choice
<1>5. Overflow(best, scores, d) <=> Overflow(best, scores, choice)
  BY <1>4 DEF Overflow
<1>6. choice.node \in Node /\ choice.hops \in (IF N = 1 THEN 0 ELSE 1)..MaxHops
  BY <1>3 DEF Answers
<1> QED BY <1>2, <1>3, <1>4, <1>5, <1>6

-----------------------------------------------------------------------------
\* The inductive invariant.  While a decision waits to be acted on, the metrics are
\* still those it was made by.
Inputs ==
    /\ mode \in Modes /\ turn \in Node
    /\ metrics \in [Node -> Measure] /\ stale \subseteq Node /\ forecast \in Forecast

Decisions ==
    \/ last = NoDecision
    \/ mode # "predictive"
       /\ last \in [node : Node, hops : {1}, method : {"allocation_engine"}]
    \/ mode = "predictive"
       /\ \E c \in CandidateLists : last = Decision(c, AllScores(c))

RoutingInv == Inputs /\ Decisions

\* The scores are natural numbers, and a stale node's is half the scale or more.
LEMMA ScoreFacts ==
    ASSUME Inputs, NEW c
    PROVE  AllScores(c) \in ScoresOf /\ \A n \in stale : AllScores(c)[n] >= 5000
<1>1. ASSUME NEW n \in Node, NEW p \in 0..100
      PROVE  Score(n, p) \in Nat /\ (n \in stale => Score(n, p) >= 5000)
  <2>1. metrics[n] \in [cpu : 0..100, queue : 0..100, latency : 0..100]
    BY RoutingAssumption DEF Inputs
  <2>2. PICK x \in 0..100, y \in 0..100, z \in 0..100 :
            x = metrics[n].cpu /\ y = metrics[n].queue /\ z = metrics[n].latency
    BY <2>1
  <2>3. Score(n, p) = 35 * x + 30 * y + 20 * z + 15 * p + (IF n \in stale THEN 5000 ELSE 0)
    BY <2>2 DEF Score
  <2> QED BY <2>3
<1>2. ASSUME NEW n \in Node
      PROVE  (IF n \in Range(c) THEN forecast ELSE 0) \in 0..100
  BY RoutingAssumption DEF Inputs
<1> QED BY <1>1, <1>2 DEF AllScores, ScoresOf, Inputs

LEMMA InitInv == Init => RoutingInv
BY RoutingAssumption DEF Init, RoutingInv, Inputs, Decisions, Node

LEMMA StepInv == RoutingInv /\ [Next]_routingVars => RoutingInv'
<1> SUFFICES ASSUME RoutingInv, [Next]_routingVars PROVE RoutingInv'
  OBVIOUS
<1> USE RoutingAssumption DEF RoutingInv
<1>1. CASE UNCHANGED routingVars
  BY <1>1 DEF routingVars, Inputs, Decisions, AllScores, Score
<1>2. ASSUME NEW n \in Node, NEW m \in Measure, UpdateNodeMetrics(n, m) PROVE RoutingInv'
  BY <1>2 DEF UpdateNodeMetrics, Inputs, Decisions
<1>3. ASSUME NEW n \in Node, GrowStale(n) PROVE RoutingInv'
  BY <1>3 DEF GrowStale, Inputs, Decisions
<1>4. CASE ForecastChanges
  BY <1>4 DEF ForecastChanges, Inputs, Decisions
<1>5. ASSUME NEW c \in CandidateLists, RouteRequest(c) PROVE RoutingInv'
  <2>1. UNCHANGED <<mode, metrics, stale, forecast>>
    BY <1>5 DEF RouteRequest
  <2>2. Inputs'
    <3>1. turn' \in Node
      <4>1. (turn + 1) % N \in 0..(N - 1)
        BY DEF Inputs, Node
      <4> QED BY <1>5, <4>1 DEF RouteRequest, Inputs, Node
    <3> QED BY <2>1, <3>1 DEF Inputs
  <2>3. Decisions'
    <3>1. CASE mode = "predictive"
      <4>1. last' = Decision(c, AllScores(c))
        BY <1>5, <3>1 DEF RouteRequest, Decision
      <4>2. AllScores(c)' = AllScores(c)
        BY <2>1 DEF AllScores, Score
      <4> QED BY <2>1, <3>1, <4>1, <4>2 DEF Decisions
    <3>2. CASE mode # "predictive"
      <4>1. last' = BaselineChoice(c) /\ mode \in {"round_robin", "least_conn", "static_hash"}
        BY <1>5, <3>2 DEF RouteRequest, Inputs, Modes
      <4>2. PICK k \in Nat \ {0} : c \in [1..k -> Node]
        BY CandidateFacts
      <4>3. \E n \in Node : last' = Direct(n)
        <5>1. CASE mode = "round_robin"
          BY <4>1, <5>1 DEF BaselineChoice, RoundRobinChoice, Inputs
        <5>2. CASE mode = "least_conn"
          <6> DEFINE queues == [n \in Node |-> metrics[n].queue]
          <6>1. queues \in ScoresOf
            BY DEF Inputs, ScoresOf
          <6> HIDE DEF queues
          <6>2. FirstLeast(c, queues) \in Node
            BY <4>2, <6>1, FirstLeastFacts
          <6>3. last' = Direct(FirstLeast(c, queues))
            BY <4>1, <5>2 DEF BaselineChoice, LeastConnectionsChoice, queues
          <6> QED BY <6>2, <6>3
        <5>3. CASE mode = "static_hash"
          BY <4>1, <4>2, <5>3 DEF BaselineChoice, StaticHashChoice
        <5> QED BY <4>1, <5>1, <5>2, <5>3
      <4> QED BY <2>1, <3>2, <4>3 DEF Direct, Decisions
    <3> QED BY <3>1, <3>2
  <2> QED BY <2>2, <2>3
<1>6. CASE Forward
  BY <1>6 DEF Forward, Inputs, Decisions
<1> QED BY <1>1, <1>2, <1>3, <1>4, <1>5, <1>6 DEF Next

THEOREM RoutingInvariant == Spec => []RoutingInv
BY InitInv, StepInv, PTL DEF Spec

-----------------------------------------------------------------------------
\* The variables have their types, and every decision names a node and stays within
\* the hop limit of the code, whatever the number of nodes.
THEOREM RoutingTypes == Spec => []RoutingTypeOK
<1>1. ASSUME RoutingInv PROVE RoutingTypeOK
  <2>1. CASE last = NoDecision
    BY <1>1, <2>1 DEF RoutingInv, Inputs, RoutingTypeOK, Decided
  <2>2. CASE mode # "predictive"
             /\ last \in [node : Node, hops : {1}, method : {"allocation_engine"}]
    <3>1. 1 \in (IF N = 1 THEN 0 ELSE 1)..MaxHops
      BY RingFacts, RoutingAssumption DEF MaxHops
    <3> QED BY <1>1, <2>2, <3>1 DEF RoutingInv, Inputs, RoutingTypeOK
  <2>3. CASE \E c \in CandidateLists : last = Decision(c, AllScores(c))
    <3>1. PICK c \in CandidateLists : last = Decision(c, AllScores(c))
      BY <2>3
    <3>2. AllScores(c) \in ScoresOf
      BY <1>1, ScoreFacts DEF RoutingInv
    <3>3. last.node \in Node /\ last.hops \in (IF N = 1 THEN 0 ELSE 1)..MaxHops
      BY <3>1, <3>2, DecisionFacts
    <3> QED BY <1>1, <3>3 DEF RoutingInv, Inputs, RoutingTypeOK
  <2> QED BY <1>1, <2>1, <2>2, <2>3 DEF RoutingInv, Decisions
<1> QED BY <1>1, RoutingInvariant, PTL

\* A predictive decision, whatever it is, in terms of its own candidates and scores.
LEMMA Predictive ==
    ASSUME RoutingInv, Decided, mode = "predictive" \/ last.method = "chord_router"
    PROVE  /\ last.candidates \in CandidateLists /\ last.scores \in ScoresOf
           /\ last = Decision(last.candidates, last.scores)
           /\ \A n \in stale : last.scores[n] >= 5000
<1>1. PICK c \in CandidateLists : last = Decision(c, AllScores(c))
  BY DEF RoutingInv, Decisions, Decided
<1>2. AllScores(c) \in ScoresOf /\ \A n \in stale : AllScores(c)[n] >= 5000
  BY ScoreFacts DEF RoutingInv
<1>3. last.candidates = c /\ last.scores = AllScores(c)
  BY <1>1, <1>2, DecisionFacts
<1> QED BY <1>1, <1>2, <1>3

\* With any threshold and any number of nodes, a request goes to an overloaded node
\* only if every node is overloaded.
THEOREM NoNeedlessOverload == Spec => []AvoidsOverload
<1>1. ASSUME RoutingInv PROVE AvoidsOverload
  <2> SUFFICES ASSUME Decided, mode = "predictive", last.scores[last.node] > Threshold,
                      NEW n \in Node
               PROVE  last.scores[n] > Threshold
    BY DEF AvoidsOverload
  <2>1. PICK c \in CandidateLists, scores \in ScoresOf :
            last = Decision(c, scores) /\ c = last.candidates /\ scores = last.scores
    BY <1>1, Predictive
  <2> DEFINE best == FirstLeast(c, scores)
  <2>2. /\ best \in Node /\ last.node \in Node
        /\ \/ last.node = best /\ scores[best] <= Threshold
           \/ Overflow(best, scores, last)
    BY <2>1, DecisionFacts
  <2>3. \A m \in Node : scores[m] \in Nat
    BY DEF ScoresOf
  <2>4. scores[last.node] > Threshold /\ Threshold \in Nat
    BY <2>1, RoutingAssumption
  <2> HIDE DEF best
  <2>5. last.node = LeastLoaded(scores)
    BY <2>2, <2>3, <2>4 DEF Overflow
  <2>6. LeastLoaded(scores) \in Node /\ scores[LeastLoaded(scores)] <= scores[n]
    BY LeastLoadedFacts
  <2> QED BY <2>1, <2>3, <2>4, <2>5, <2>6
<1> QED BY <1>1, RoutingInvariant, PTL

\* With any threshold, a silent node gets a request only when no candidate that
\* answers is less than half loaded.
THEOREM SilentNodesYield == Spec => []StaleYields
<1>1. ASSUME RoutingInv PROVE StaleYields
  <2> SUFFICES ASSUME Decided, mode = "predictive", last.node \in stale,
                      NEW i \in DOMAIN last.candidates
               PROVE  last.scores[last.candidates[i]] >= 5000
    BY DEF StaleYields
  <2>1. PICK c \in CandidateLists, scores \in ScoresOf :
            /\ last = Decision(c, scores) /\ c = last.candidates /\ scores = last.scores
            /\ \A n \in stale : scores[n] >= 5000
    BY <1>1, Predictive
  <2> DEFINE best == FirstLeast(c, scores)
  <2>2. /\ best \in Node /\ last.node \in Node
        /\ c[i] \in Node /\ scores[best] <= scores[c[i]]
        /\ \/ last.node = best /\ scores[best] <= Threshold
           \/ scores[best] > Threshold /\ Overflow(best, scores, last)
    BY <2>1, DecisionFacts
  <2>3. \A m \in Node : scores[m] \in Nat
    BY DEF ScoresOf
  <2>4. scores[last.node] >= 5000 /\ Threshold \in Nat
    BY <2>1, RoutingAssumption
  <2> HIDE DEF best
  <2>5. scores[c[i]] >= 5000
    <3>1. CASE last.node = best
      BY <2>2, <2>3, <2>4, <3>1
    <3>2. CASE last.node = LeastLoaded(scores)
      <4>1. scores[LeastLoaded(scores)] <= scores[c[i]]
        BY <2>2, LeastLoadedFacts
      <4> QED BY <2>2, <2>3, <2>4, <3>2, <4>1
    <3>3. CASE scores[best] > Threshold /\ scores[last.node] < Threshold
      BY <2>2, <2>3, <2>4, <3>3
    <3> QED BY <2>2, <3>1, <3>2, <3>3 DEF Overflow
  <2> QED BY <2>1, <2>5
<1> QED BY <1>1, RoutingInvariant, PTL

\* For any number of nodes, power of two or not, an overflow goes to a node that is the
\* successor of some n + 2^k, and no finger clockwise before it could take the request.
THEOREM OverflowIsClockwise == Spec => []OverflowGoesClockwise
<1>1. ASSUME RoutingInv PROVE OverflowGoesClockwise
  <2> DEFINE from == FirstLeast(last.candidates, last.scores)
             fingers == {n \in Node \ {from} : \E k \in 0..(Bits - 1) : \A other \in Node :
                             Way(from + Pow2[k], n) <= Way(from + Pow2[k], other)}
  <2> SUFFICES ASSUME Decided, last.method = "chord_router"
               PROVE  /\ last.node \in fingers
                      /\ last.scores[last.node] < Threshold
                      /\ \A n \in fingers : Way(from, n) < Way(from, last.node)
                                             => last.scores[n] >= Threshold
    BY DEF OverflowGoesClockwise, Way
  <2>1. PICK c \in CandidateLists, scores \in ScoresOf :
            last = Decision(c, scores) /\ c = last.candidates /\ scores = last.scores
    BY <1>1, Predictive
  <2>2. PICK b \in Node : b = from
    BY <2>1, DecisionFacts
  <2>3. Overflow(b, scores, last)
    BY <2>1, <2>2, DecisionFacts
  <2>4. PICK k \in Fingers(b) :
            /\ last.node = FingerTable(b)[k]
            /\ scores[FingerTable(b)[k]] < Threshold
            /\ \A j \in Fingers(b) : j < k => scores[FingerTable(b)[j]] >= Threshold
    BY <2>3 DEF Overflow
  <2>5. N > 1 /\ Fingers(b) = 0..(Bits - 1) /\ Bits \in Nat
    BY <2>4, HopsFacts, RingFacts, RoutingAssumption
  <2>6. ASSUME NEW j \in 0..(Bits - 1)
        PROVE  /\ FingerTable(b)[j] \in Node \ {b}
               /\ \A other \in Node :
                      /\ Way(b + Pow2[j], other) \in Nat
                      /\ other # FingerTable(b)[j] =>
                             Way(b + Pow2[j], FingerTable(b)[j]) < Way(b + Pow2[j], other)
    BY <2>5, FingerFacts, FingerIsNearest
  <2>7. fingers = {FingerTable(b)[j] : j \in 0..(Bits - 1)}
    <3>1. ASSUME NEW n \in fingers PROVE \E j \in 0..(Bits - 1) : n = FingerTable(b)[j]
      <4>1. PICK j \in 0..(Bits - 1) : \A other \in Node : Way(b + Pow2[j], n) <= Way(b + Pow2[j], other)
        BY <2>2
      <4>2. Way(b + Pow2[j], n) <= Way(b + Pow2[j], FingerTable(b)[j])
        BY <2>6, <4>1
      <4>3. n \in Node /\ Way(b + Pow2[j], n) \in Nat /\ Way(b + Pow2[j], FingerTable(b)[j]) \in Nat
        BY <2>6
      <4>4. ~(Way(b + Pow2[j], FingerTable(b)[j]) < Way(b + Pow2[j], n))
        BY <4>2, <4>3
      <4> QED BY <2>6, <4>3, <4>4
    <3>2. ASSUME NEW j \in 0..(Bits - 1) PROVE FingerTable(b)[j] \in fingers
      <4>1. ASSUME NEW other \in Node
            PROVE  Way(b + Pow2[j], FingerTable(b)[j]) <= Way(b + Pow2[j], other)
        BY <2>6
      <4> QED BY <2>2, <2>6, <4>1
    <3> HIDE DEF fingers
    <3> QED BY <3>1, <3>2
  <2> HIDE DEF fingers, from
  <2>8. last.node \in fingers
    BY <2>4, <2>5, <2>7
  <2>9. ASSUME NEW n \in fingers, Way(b, n) < Way(b, last.node) PROVE scores[n] >= Threshold
    <3>1. PICK j \in 0..(Bits - 1) : n = FingerTable(b)[j]
      BY <2>7
    <3>2. CASE j < k
      BY <2>4, <2>5, <3>1, <3>2
    <3>3. CASE k <= j
      <4>1. Way(b, FingerTable(b)[k]) <= Way(b, FingerTable(b)[j])
        BY <2>4, <2>5, <3>3, FingersAscend
      <4>2. Way(b, FingerTable(b)[k]) \in Int /\ Way(b, FingerTable(b)[j]) \in Int
        BY <2>5, RingFacts, RoutingAssumption DEF Way, FingerTable, FindSuccessor, Node
      <4> QED BY <2>4, <2>9, <3>1, <4>1, <4>2
    <3>4. j < k \/ k <= j
      BY <2>4, <2>5
    <3> QED BY <3>2, <3>3, <3>4
  <2> QED BY <2>1, <2>2, <2>4, <2>8, <2>9
<1> QED BY <1>1, RoutingInvariant, PTL
=============================================================================
