--------------------------- MODULE DatastoresProofs ---------------------------
(***************************************************************************)
(* Theorems about Datastores, for any nodes, rings and series, any size of *)
(* a batch and of a window, and any number of writes and failures.         *)
(***************************************************************************)
EXTENDS Datastores, SequenceTheorems, WellFoundedInduction, TLAPS

-----------------------------------------------------------------------------
\* The inductive invariant of the caches.  A call of write_node_metrics that is under
\* way has metrics to write, and of every set of positions each node has one.
OnePerNode(entries) == \A e, f \in entries : e[2] = f[2] => e = f

Metrics ==
    /\ local \in [CacheNode -> 0..MaxWrites] /\ hash \in [CacheNode -> 0..MaxWrites]
    /\ mortal \subseteq {n \in CacheNode : hash[n] # 0}
    /\ writing \in [CacheNode -> {NoCall} \cup [next : 1..2, metrics : 1..MaxWrites]]
    /\ \/ reading = Nothing
       \/ \E h \in [CacheNode -> 0..MaxWrites] : reading = [read |-> TRUE, hash |-> h]
    /\ writes \in 0..MaxWrites

Ring ==
    /\ OnePerNode(sortedSet) /\ OnePerNode(snapshot)
    /\ \/ ringReading = Nothing
       \/ \E e : OnePerNode(e) /\ ringReading = [read |-> TRUE, entries |-> e]

CacheInv ==
    /\ cacheRunning \in BOOLEAN /\ cacheFaults \in 0..MaxCacheFaults
    /\ Metrics /\ Ring /\ HashesAreMortal

\* The inductive invariant of the time series, given the buffer b, what is kept, the
\* points so far and those acknowledged: the buffer and every series are in order, and
\* a point that is kept is older than the buffer or, after a batch that failed but was
\* written, in it.
Ascending(b) == \A i, j \in 1..Len(b) : i < j => b[i] < b[j]

SeriesOK(b, keeps, all, acknowledged) ==
    /\ b \in Seq(1..Len(all)) /\ Ascending(b)
    /\ keeps \in [Series -> Seq(1..Len(all))]
    /\ \A s \in Series : \A i, j \in 1..Len(keeps[s]) : i < j => keeps[s][i] <= keeps[s][j]
    /\ \A s \in Series : \A i \in 1..Len(keeps[s]) :
           \/ \A j \in 1..Len(b) : keeps[s][i] < b[j]
           \/ all[keeps[s][i]] = s /\ \E j \in 1..Len(b) : b[j] = keeps[s][i]
    /\ acknowledged \subseteq 1..Len(all)
    /\ \A s \in Series : \A p \in acknowledged :
           all[p] = s => keeps[s] # <<>> /\ p <= Last(keeps[s])

SeriesInv ==
    /\ seriesPhase \in {"running", "stopped"}
    /\ points \in Seq(Series) /\ Len(points) <= MaxPoints
    /\ seriesFaults \in 0..MaxSeriesFaults
    /\ SeriesOK(buffer, kept, points, written)

DatastoresInv == CacheInv /\ SeriesInv

-----------------------------------------------------------------------------
\* A set of positions has a last one.
LEMMA LastPlace ==
    ASSUME NEW n \in Nat, NEW S, S \subseteq 1..n, S # {}
    PROVE  Max(S) \in S /\ \A i \in S : i <= Max(S)
<1> DEFINE T == {k \in Nat : n - k \in S}
<1>1. PICK i \in S : TRUE
  OBVIOUS
<1>2. n - i \in T
  <2>1. i \in 1..n /\ n - (n - i) = i
    OBVIOUS
  <2> QED BY <2>1
<1>3. PICK x \in T : \A y \in T : ~ (<<y, x>> \in OpToRel(<, Nat))
  <2>1. T \subseteq Nat /\ T # {}
    BY <1>2
  <2> HIDE DEF T
  <2> QED BY <2>1, NatLessThanWellFounded, WFMin
<1>4. \A y \in T : x <= y
  <2>1. \A y \in T : ~ (y < x)
    BY <1>3 DEF OpToRel
  <2> QED BY <2>1
<1>5. n - x \in S /\ \A j \in S : j <= n - x
  <2>1. x \in Nat /\ n - x \in S
    OBVIOUS
  <2>2. ASSUME NEW j \in S PROVE j <= n - x
    <3>1. j \in 1..n /\ n - (n - j) = j /\ n - j \in Nat
      OBVIOUS
    <3>2. n - j \in T
      BY <3>1
    <3>3. x <= n - j /\ x \in Int /\ j \in Int
      BY <1>4, <2>1, <3>1, <3>2
    <3> HIDE DEF T
    <3> QED BY <3>3
  <2> QED BY <2>1, <2>2
<1>6. n - x \in Int /\ \A j \in S : j \in Int
  OBVIOUS
<1> QED BY <1>5, <1>6 DEF Max

\* A point is handed over.
LEMMA PointAdded ==
    ASSUME NEW all \in Seq(Series), NEW b, NEW keeps, NEW w, SeriesOK(b, keeps, all, w),
           NEW s \in Series
    PROVE  SeriesOK(Append(b, Len(all) + 1), keeps, Append(all, s), w)
<1> DEFINE n == Len(all)
           c == Append(b, n + 1)
           more == Append(all, s)
<1>1. /\ n \in Nat /\ b \in Seq(1..n) /\ Len(b) \in Nat
      /\ more \in Seq(Series) /\ Len(more) = n + 1
      /\ \A p \in 1..n : more[p] = all[p] /\ p \in 1..(n + 1) /\ p < n + 1
  BY DEF SeriesOK
<1>2. /\ Len(c) = Len(b) + 1 /\ c[Len(b) + 1] = n + 1
      /\ \A j \in 1..Len(b) : c[j] = b[j] /\ b[j] \in 1..n /\ j \in 1..Len(c)
      /\ 1..Len(c) = 1..Len(b) \cup {Len(b) + 1}
      /\ c \in Seq(1..(n + 1))
  <2>1. b \in Seq(1..(n + 1))
    BY <1>1
  <2> QED BY <1>1, <2>1
<1> HIDE DEF c, more
<1>3. Ascending(c)
  <2> SUFFICES ASSUME NEW i \in 1..Len(c), NEW j \in 1..Len(c), i < j PROVE c[i] < c[j]
    BY DEF Ascending
  <2>1. i \in 1..Len(b) /\ (j \in 1..Len(b) \/ j = Len(b) + 1)
    BY <1>1, <1>2
  <2>2. j \in 1..Len(b) => b[i] < b[j]
    BY <2>1 DEF SeriesOK, Ascending
  <2>3. b[i] < n + 1
    BY <1>1, <1>2, <2>1
  <2> QED BY <1>2, <2>1, <2>2, <2>3
<1>4. keeps \in [Series -> Seq(1..(n + 1))]
  <2>1. Seq(1..n) \subseteq Seq(1..(n + 1))
    BY <1>1
  <2> QED BY <2>1 DEF SeriesOK
<1>5. ASSUME NEW r \in Series, NEW i \in 1..Len(keeps[r])
      PROVE  \/ \A j \in 1..Len(c) : keeps[r][i] < c[j]
             \/ more[keeps[r][i]] = r /\ \E j \in 1..Len(c) : c[j] = keeps[r][i]
  <2>1. keeps[r][i] \in 1..n
    <3>1. keeps[r] \in Seq(1..n)
      BY DEF SeriesOK
    <3> QED BY <3>1
  <2>2. CASE \A j \in 1..Len(b) : keeps[r][i] < b[j]
    BY <2>1, <2>2, <1>1, <1>2
  <2>3. CASE all[keeps[r][i]] = r /\ \E j \in 1..Len(b) : b[j] = keeps[r][i]
    BY <2>1, <2>3, <1>1, <1>2
  <2> QED BY <2>2, <2>3 DEF SeriesOK
<1>6. w \subseteq 1..(n + 1) /\ \A r \in Series : \A p \in w :
          more[p] = r => keeps[r] # <<>> /\ p <= Last(keeps[r])
  BY <1>1 DEF SeriesOK
<1>7. \A r \in Series : \A i, j \in 1..Len(keeps[r]) : i < j => keeps[r][i] <= keeps[r][j]
  BY DEF SeriesOK
<1>8. SeriesOK(c, keeps, more, w)
  BY <1>1, <1>2, <1>3, <1>4, <1>5, <1>6, <1>7 DEF SeriesOK
<1> QED BY <1>8 DEF c, more

\* What a batch adds to a series, if anything: the last of its points, none of which
\* is newer, nor is any point the series had.
LEMMA BatchAdds ==
    ASSUME NEW all \in Seq(Series), NEW b, NEW w, SeriesOK(b, kept, all, w), NEW s \in Series
    PROVE  \/ /\ \A i \in 1..Len(b) : all[b[i]] # s
              /\ KeptAfter(b, all)[s] = kept[s]
           \/ \E m \in 1..Len(b) :
              /\ all[b[m]] = s
              /\ KeptAfter(b, all)[s] = Append(kept[s], b[m])
              /\ \A i \in 1..Len(b) : all[b[i]] = s => b[i] <= b[m]
              /\ \A i \in 1..Len(kept[s]) : kept[s][i] <= b[m]
<1> DEFINE places == {i \in DOMAIN b : all[b[i]] = s}
<1>1. b \in Seq(1..Len(all)) /\ DOMAIN b = 1..Len(b) /\ Len(b) \in Nat
  BY DEF SeriesOK
<1>2. KeptAfter(b, all)[s] = IF places = {} THEN kept[s] ELSE Append(kept[s], b[Max(places)])
  BY DEF KeptAfter
<1>3. CASE places = {}
  <2>1. \A i \in 1..Len(b) : all[b[i]] # s
    BY <1>1, <1>3
  <2> QED BY <2>1, <1>2, <1>3
<1>4. CASE places # {}
  <2>1. Max(places) \in places /\ \A i \in places : i <= Max(places)
    BY <1>1, <1>4, LastPlace
  <2>2. PICK m \in 1..Len(b) : m = Max(places)
    BY <1>1, <2>1
  <2>3. all[b[m]] = s /\ KeptAfter(b, all)[s] = Append(kept[s], b[m])
    BY <1>2, <1>4, <2>1, <2>2
  <2>4. ASSUME NEW i \in 1..Len(b), all[b[i]] = s PROVE b[i] <= b[m]
    <3>1. i \in Int /\ m \in Int /\ b[i] \in Int /\ b[m] \in Int
      BY <1>1
    <3>2. i <= m
      BY <1>1, <2>1, <2>2, <2>4
    <3>3. CASE i = m
      BY <3>1, <3>3
    <3>4. CASE i < m
      <4>1. b[i] < b[m]
        BY <3>4 DEF SeriesOK, Ascending
      <4> QED BY <3>1, <4>1
    <3> QED BY <3>1, <3>2, <3>3, <3>4
  <2>5. ASSUME NEW i \in 1..Len(kept[s]) PROVE kept[s][i] <= b[m]
    <3>1. kept[s][i] \in Int /\ b[m] \in Int
      <4>1. kept[s] \in Seq(1..Len(all))
        BY DEF SeriesOK
      <4> QED BY <4>1, <1>1
    <3>2. CASE \A j \in 1..Len(b) : kept[s][i] < b[j]
      BY <3>1, <3>2
    <3>3. CASE all[kept[s][i]] = s /\ \E j \in 1..Len(b) : b[j] = kept[s][i]
      BY <3>3, <2>4
    <3> QED BY <3>2, <3>3 DEF SeriesOK
  <2> QED BY <2>3, <2>4, <2>5
<1> QED BY <1>3, <1>4

\* The database has the points of a batch, whether the write is acknowledged or not.
LEMMA BatchWritten ==
    ASSUME NEW all \in Seq(Series), NEW b, NEW w, SeriesOK(b, kept, all, w)
    PROVE  /\ SeriesOK(b, KeptAfter(b, all), all, w)
           /\ SeriesOK(<<>>, KeptAfter(b, all), all, w \cup Range(b))
<1> DEFINE k == KeptAfter(b, all)
           n == Len(all)
<1>1. /\ n \in Nat /\ b \in Seq(1..n) /\ Len(b) \in Nat /\ Ascending(b) /\ w \subseteq 1..n
      /\ kept \in [Series -> Seq(1..n)]
      /\ DOMAIN b = 1..Len(b) /\ \A i \in 1..Len(b) : b[i] \in 1..n
  BY DEF SeriesOK
<1>2. DOMAIN k = Series /\ k = [s \in Series |-> k[s]]
  BY DEF KeptAfter
<1>3. ASSUME NEW s \in Series
      PROVE  /\ k[s] \in Seq(1..n)
             /\ \A i, j \in 1..Len(k[s]) : i < j => k[s][i] <= k[s][j]
             /\ \A i \in 1..Len(k[s]) :
                    \/ \A j \in 1..Len(b) : k[s][i] < b[j]
                    \/ all[k[s][i]] = s /\ \E j \in 1..Len(b) : b[j] = k[s][i]
             /\ \A p \in w \cup Range(b) : all[p] = s => k[s] # <<>> /\ p <= Last(k[s])
  <2>1. /\ kept[s] \in Seq(1..n) /\ Len(kept[s]) \in Nat
        /\ \A i \in 1..Len(kept[s]) : kept[s][i] \in 1..n
        /\ \A i, j \in 1..Len(kept[s]) : i < j => kept[s][i] <= kept[s][j]
        /\ \A i \in 1..Len(kept[s]) :
               \/ \A j \in 1..Len(b) : kept[s][i] < b[j]
               \/ all[kept[s][i]] = s /\ \E j \in 1..Len(b) : b[j] = kept[s][i]
        /\ \A p \in w : all[p] = s => kept[s] # <<>> /\ p <= Last(kept[s])
    <3>1. kept[s] \in Seq(1..n)
      BY <1>1
    <3>2. Len(kept[s]) \in Nat /\ \A i \in 1..Len(kept[s]) : kept[s][i] \in 1..n
      BY <3>1
    <3> QED BY <3>1, <3>2 DEF SeriesOK
  <2>2. \A p \in Range(b) : \E i \in 1..Len(b) : p = b[i]
    BY <1>1 DEF Range
  <2>3. CASE (\A i \in 1..Len(b) : all[b[i]] # s) /\ k[s] = kept[s]
    <3>1. \A p \in w \cup Range(b) : all[p] = s => p \in w
      BY <2>2, <2>3
    <3> HIDE DEF k
    <3> QED BY <2>1, <2>3, <3>1
  <2>4. ASSUME NEW m \in 1..Len(b), all[b[m]] = s, k[s] = Append(kept[s], b[m]),
               \A i \in 1..Len(b) : all[b[i]] = s => b[i] <= b[m],
               \A i \in 1..Len(kept[s]) : kept[s][i] <= b[m]
        PROVE  /\ k[s] \in Seq(1..n)
               /\ \A i, j \in 1..Len(k[s]) : i < j => k[s][i] <= k[s][j]
               /\ \A i \in 1..Len(k[s]) :
                      \/ \A j \in 1..Len(b) : k[s][i] < b[j]
                      \/ all[k[s][i]] = s /\ \E j \in 1..Len(b) : b[j] = k[s][i]
               /\ \A p \in w \cup Range(b) : all[p] = s => k[s] # <<>> /\ p <= Last(k[s])
    <3> DEFINE l == Len(kept[s])
    <3>1. /\ k[s] \in Seq(1..n) /\ Len(k[s]) = l + 1 /\ k[s][l + 1] = b[m] /\ b[m] \in 1..n
          /\ \A i \in 1..l : k[s][i] = kept[s][i]
          /\ 1..Len(k[s]) = 1..l \cup {l + 1} /\ l \in Nat
      <4>1. b[m] \in 1..n /\ kept[s] \in Seq(1..n)
        BY <1>1, <2>1
      <4> DEFINE a == Append(kept[s], b[m])
      <4>2. /\ a \in Seq(1..n) /\ Len(a) = l + 1 /\ a[l + 1] = b[m] /\ l \in Nat
            /\ \A i \in 1..l : a[i] = kept[s][i]
            /\ 1..(l + 1) = 1..l \cup {l + 1}
        BY <4>1
      <4> HIDE DEF a, k
      <4> QED BY <2>4, <4>1, <4>2 DEF a
    <3> HIDE DEF k
    <3>2. \A i, j \in 1..Len(k[s]) : i < j => k[s][i] <= k[s][j]
      <4> SUFFICES ASSUME NEW i \in 1..Len(k[s]), NEW j \in 1..Len(k[s]), i < j
                   PROVE  k[s][i] <= k[s][j]
        OBVIOUS
      <4>1. i \in 1..l
        BY <3>1
      <4>2. CASE j \in 1..l
        BY <2>1, <3>1, <4>1, <4>2
      <4>3. CASE j = l + 1
        BY <2>4, <3>1, <4>1, <4>3
      <4> QED BY <3>1, <4>2, <4>3
    <3>3. ASSUME NEW i \in 1..Len(k[s])
          PROVE  \/ \A j \in 1..Len(b) : k[s][i] < b[j]
                 \/ all[k[s][i]] = s /\ \E j \in 1..Len(b) : b[j] = k[s][i]
      <4>1. CASE i \in 1..l
        BY <2>1, <3>1, <4>1
      <4>2. CASE i = l + 1
        BY <2>4, <3>1, <4>2
      <4> QED BY <3>1, <4>1, <4>2
    <3>4. ASSUME NEW p \in w \cup Range(b), all[p] = s PROVE k[s] # <<>> /\ p <= Last(k[s])
      <4>1. k[s] # <<>> /\ Last(k[s]) = b[m]
        BY <3>1 DEF Last
      <4>2. CASE p \in w
        <5>1. kept[s] # <<>> /\ p <= Last(kept[s])
          BY <2>1, <3>4, <4>2
        <5>2. l \in 1..l /\ Last(kept[s]) = kept[s][l]
          BY <2>1, <5>1 DEF Last
        <5>3. kept[s][l] <= b[m] /\ kept[s][l] \in Int /\ b[m] \in Int /\ p \in Int
          <6>1. kept[s][l] \in 1..n /\ b[m] \in 1..n /\ p \in 1..n
          BY <1>1, <2>1, <4>2, <5>2
        <6>2. kept[s][l] <= b[m]
          BY <2>4, <5>2
        <6> QED BY <6>1, <6>2
        <5> QED BY <4>1, <5>1, <5>2, <5>3
      <4>3. CASE p \in Range(b)
        BY <2>2, <2>4, <3>4, <4>1, <4>3
      <4> QED BY <3>4, <4>2, <4>3
    <3> QED BY <3>1, <3>2, <3>3, <3>4
  <2> QED BY <2>3, <2>4, BatchAdds
<1>4. k \in [Series -> Seq(1..n)]
  BY <1>2, <1>3
<1>5. Range(b) \subseteq 1..n
  BY <1>1 DEF Range
<1> HIDE DEF k
<1>6. SeriesOK(b, k, all, w)
  BY <1>1, <1>3, <1>4 DEF SeriesOK
<1>7. SeriesOK(<<>>, k, all, w \cup Range(b))
  <2> DEFINE e == <<>>
  <2>1. e \in Seq(1..n) /\ Len(e) = 0 /\ 1..0 = {}
    OBVIOUS
  <2> HIDE DEF e
  <2>2. Ascending(e) /\ \A x : \A j \in 1..Len(e) : x < e[j]
    BY <2>1 DEF Ascending
  <2>3. SeriesOK(e, k, all, w \cup Range(b))
    BY <1>1, <1>3, <1>4, <1>5, <2>1, <2>2 DEF SeriesOK
  <2> QED BY <2>3 DEF e
<1> QED BY <1>6, <1>7 DEF k

-----------------------------------------------------------------------------
\* A flush, whatever comes of it.
LEMMA FlushKeeps ==
    ASSUME SeriesInv, NEW all \in Seq(Series), NEW b, SeriesOK(b, kept, all, written),
           FlushBuffer(b, all)
    PROVE  SeriesOK(buffer', kept', all, written') /\ seriesFaults' \in 0..MaxSeriesFaults
<1>0. seriesFaults \in 0..MaxSeriesFaults /\ MaxSeriesFaults \in Nat
  BY SeriesAssumption DEF SeriesInv
<1>1. /\ SeriesOK(b, KeptAfter(b, all), all, written)
      /\ SeriesOK(<<>>, KeptAfter(b, all), all, written \cup Range(b))
  BY BatchWritten
<1>2. CASE /\ kept' = KeptAfter(b, all) /\ buffer' = <<>>
           /\ written' = written \cup Range(b)
           /\ UNCHANGED seriesFaults
  BY <1>0, <1>1, <1>2
<1>3. CASE /\ seriesFaults < MaxSeriesFaults /\ seriesFaults' = seriesFaults + 1
           /\ kept' = KeptAfter(b, all) \/ UNCHANGED kept
           /\ buffer' = Rebuffer(b)
           /\ UNCHANGED written
  <2>1. buffer' = b /\ written' = written
    BY <1>3 DEF Rebuffer
  <2>2. seriesFaults' \in 0..MaxSeriesFaults
    BY <1>0, <1>3
  <2> QED BY <1>1, <1>3, <2>1, <2>2
<1> QED BY <1>2, <1>3 DEF FlushBuffer

LEMMA SeriesStarts == SeriesInit => SeriesInv
<1> SUFFICES ASSUME SeriesInit PROVE SeriesInv
  OBVIOUS
<1> DEFINE e == <<>>
<1>1. e \in Seq(Series) /\ Len(e) = 0 /\ 1..0 = {} /\ e \in Seq(1..0)
  OBVIOUS
<1> HIDE DEF e
<1>2. /\ seriesPhase = "running" /\ points = e /\ buffer = e /\ kept = [s \in Series |-> e]
      /\ written = {} /\ seriesFaults = 0
  BY DEF SeriesInit, e
<1>3. SeriesOK(buffer, kept, points, written)
  <2>1. kept \in [Series -> Seq(1..0)] /\ \A s \in Series : 1..Len(kept[s]) = {}
    BY <1>1, <1>2
  <2> QED BY <1>1, <1>2, <2>1 DEF SeriesOK, Ascending
<1> QED BY <1>1, <1>2, <1>3, SeriesAssumption DEF SeriesInv

LEMMA SeriesKeeps ==
    ASSUME SeriesInv, SeriesStep \/ StopSeries \/ UNCHANGED seriesVars
    PROVE  SeriesInv'
<1>0. MaxPoints \in Nat /\ points \in Seq(Series) /\ Len(points) \in Nat
      /\ Len(points) <= MaxPoints
      /\ SeriesOK(buffer, kept, points, written) /\ seriesPhase \in {"running", "stopped"}
  BY SeriesAssumption DEF SeriesInv
<1>1. ASSUME NEW s \in Series, WritePoint(s) PROVE SeriesInv'
  <2> DEFINE all == Append(points, s)
             b == Append(buffer, Len(all))
  <2>1. all \in Seq(Series) /\ Len(all) = Len(points) + 1 /\ Len(points) < MaxPoints
    BY <1>0, <1>1 DEF WritePoint
  <2>2. SeriesOK(b, kept, all, written)
    BY <1>0, <2>1, PointAdded
  <2>3. /\ points' = all /\ seriesPhase' = seriesPhase
        /\ FlushBuffer(b, all) \/ (buffer' = b /\ UNCHANGED <<kept, written, seriesFaults>>)
    BY <1>1 DEF WritePoint
  <2> HIDE DEF all, b
  <2>4. SeriesOK(buffer', kept', all, written') /\ seriesFaults' \in 0..MaxSeriesFaults
    <3>1. CASE FlushBuffer(b, all)
      BY <2>1, <2>2, <3>1, FlushKeeps
    <3>2. CASE buffer' = b /\ UNCHANGED <<kept, written, seriesFaults>>
      BY <2>2, <3>2 DEF SeriesInv
    <3> QED BY <2>3, <3>1, <3>2
  <2>5. Len(all) <= MaxPoints
    BY <1>0, <2>1
  <2> QED BY <1>0, <2>1, <2>3, <2>4, <2>5 DEF SeriesInv
<1>2. CASE SeriesLoopWakes
  <2>1. FlushBuffer(buffer, points) /\ points' = points /\ seriesPhase' = seriesPhase
    BY <1>2 DEF SeriesLoopWakes
  <2>2. SeriesOK(buffer', kept', points, written') /\ seriesFaults' \in 0..MaxSeriesFaults
    BY <1>0, <2>1, FlushKeeps
  <2> QED BY <1>0, <2>1, <2>2 DEF SeriesInv
<1>3. CASE StopSeries
  <2>1. /\ points' = points /\ seriesPhase' = "stopped"
        /\ FlushBuffer(buffer, points) \/ UNCHANGED <<buffer, kept, written, seriesFaults>>
    BY <1>3 DEF StopSeries
  <2>2. CASE FlushBuffer(buffer, points)
    <3>1. SeriesOK(buffer', kept', points, written') /\ seriesFaults' \in 0..MaxSeriesFaults
      BY <1>0, <2>2, FlushKeeps
    <3> QED BY <1>0, <2>1, <3>1 DEF SeriesInv
  <2>3. CASE UNCHANGED <<buffer, kept, written, seriesFaults>>
    BY <1>0, <2>1, <2>3 DEF SeriesInv
  <2> QED BY <2>1, <2>2, <2>3
<1>4. CASE UNCHANGED seriesVars
  BY <1>4 DEF seriesVars, SeriesInv
<1> QED BY <1>1, <1>2, <1>3, <1>4 DEF SeriesStep

-----------------------------------------------------------------------------
\* The caches.  First what a call under way is.
LEMMA CallFacts ==
    ASSUME CacheInv, NEW n \in CacheNode, writing[n] # NoCall
    PROVE  /\ writing[n] \in [next : 1..2, metrics : 1..MaxWrites]
           /\ Serve(n) =>
                  \/ /\ writing[n].next = 1 /\ hash' = [hash EXCEPT ![n] = writing[n].metrics]
                     /\ mortal' = mortal
                  \/ /\ writing[n].next = 2 /\ hash' = hash
                     /\ mortal' = IF hash[n] # 0 THEN mortal \cup {n} ELSE mortal
<1>1. writing[n] \in [next : 1..2, metrics : 1..MaxWrites]
  BY DEF CacheInv, Metrics
<1>2. writing[n].next = 1 \/ writing[n].next = 2
  BY <1>1
<1>3. Commands[1] = "hset" /\ Commands[2] = "expire" /\ "hset" # "expire"
  BY DEF Commands
<1>4. CASE writing[n].next = 1
  <2>1. Commands[writing[n].next] = "hset"
    BY <1>3, <1>4
  <2>2. ASSUME Serve(n) PROVE hash' = [hash EXCEPT ![n] = writing[n].metrics] /\ UNCHANGED mortal
    BY <2>1, <2>2 DEF Serve
  <2> QED BY <1>1, <1>4, <2>2
<1>5. CASE writing[n].next = 2
  <2>1. Commands[writing[n].next] = "expire" /\ Commands[writing[n].next] # "hset"
    BY <1>3, <1>5
  <2>2. ASSUME Serve(n)
        PROVE  mortal' = (IF hash[n] # 0 THEN mortal \cup {n} ELSE mortal) /\ UNCHANGED hash
    BY <2>1, <2>2 DEF Serve
  <2> QED BY <1>1, <1>5, <2>2
<1> QED BY <1>1, <1>2, <1>4, <1>5

\* A command is served: the hash and its time to live.
LEMMA ServedFacts ==
    ASSUME CacheInv, NEW n \in CacheNode, writing[n] # NoCall, Serve(n)
    PROVE  /\ hash' \in [CacheNode -> 0..MaxWrites]
           /\ mortal' \subseteq {m \in CacheNode : hash'[m] # 0}
           /\ \A m \in CacheNode : m # n => hash'[m] = hash[m] /\ (m \in mortal' <=> m \in mortal)
           /\ writing[n].next = 2 /\ hash'[n] # 0 => n \in mortal'
<1>1. /\ writing[n].next \in 1..2 /\ writing[n].metrics \in 1..MaxWrites
      /\ hash \in [CacheNode -> 0..MaxWrites] /\ mortal \subseteq {m \in CacheNode : hash[m] # 0}
  BY CallFacts DEF CacheInv, Metrics
<1>2. CASE /\ writing[n].next = 1 /\ hash' = [hash EXCEPT ![n] = writing[n].metrics]
           /\ mortal' = mortal
  <2>1. hash'[n] # 0 /\ \A m \in CacheNode : m # n => hash'[m] = hash[m]
    BY <1>1, <1>2
  <2>2. hash' \in [CacheNode -> 0..MaxWrites]
    BY <1>1, <1>2
  <2> QED BY <1>1, <1>2, <2>1, <2>2
<1>3. CASE /\ writing[n].next = 2 /\ hash' = hash
           /\ mortal' = IF hash[n] # 0 THEN mortal \cup {n} ELSE mortal
  BY <1>1, <1>3
<1> QED BY <1>2, <1>3, CallFacts

LEMMA CacheStarts == CacheInit => CacheInv
<1> SUFFICES ASSUME CacheInit PROVE CacheInv
  OBVIOUS
<1>1. MaxWrites \in Nat /\ MaxCacheFaults \in Nat
  BY CacheAssumption
<1>2. Metrics
  BY <1>1 DEF CacheInit, MetricsCacheInit, Metrics
<1>3. Ring
  BY DEF CacheInit, RingCacheInit, Ring, OnePerNode
<1>4. HashesAreMortal
  BY DEF CacheInit, MetricsCacheInit, HashesAreMortal
<1> QED BY <1>1, <1>2, <1>3, <1>4 DEF CacheInit, CacheInv

\* Of the positions written every node has one.
LEMMA OneMember == ASSUME NEW ring PROVE OnePerNode(SortedSetOf(ring))
BY DEF OnePerNode, SortedSetOf

LEMMA CacheKeeps ==
    ASSUME CacheInv, CacheStep \/ StopCaches \/ UNCHANGED cacheVars
    PROVE  CacheInv'
<1>0. /\ MaxWrites \in Nat /\ MaxCacheFaults \in Nat
      /\ cacheRunning \in BOOLEAN /\ cacheFaults \in 0..MaxCacheFaults
      /\ Metrics /\ Ring /\ HashesAreMortal
  BY CacheAssumption DEF CacheInv
<1>1. /\ local \in [CacheNode -> 0..MaxWrites] /\ hash \in [CacheNode -> 0..MaxWrites]
      /\ mortal \subseteq {n \in CacheNode : hash[n] # 0}
      /\ writing \in [CacheNode -> {NoCall} \cup [next : 1..2, metrics : 1..MaxWrites]]
      /\ writes \in 0..MaxWrites
  BY <1>0 DEF Metrics
<1>2. CacheFault => cacheFaults' \in 0..MaxCacheFaults /\ cacheFaults' > 0
  BY <1>0 DEF CacheFault
<1>3. ASSUME NEW n \in CacheNode, WriteNodeMetrics(n) PROVE CacheInv'
  <2>1. /\ writes' = writes + 1 /\ writes < MaxWrites /\ local' = [local EXCEPT ![n] = writes']
        /\ writing' = [writing EXCEPT ![n] = [next |-> 1, metrics |-> writes']]
        /\ UNCHANGED <<cacheRunning, hash, mortal, reading, ringVars, cacheFaults>>
    BY <1>3 DEF WriteNodeMetrics
  <2>2. writes' \in 1..MaxWrites
    BY <1>0, <1>1, <2>1
  <2>3. [next |-> 1, metrics |-> writes'] \in [next : 1..2, metrics : 1..MaxWrites]
        /\ [next |-> 1, metrics |-> writes'] # NoCall
    BY <2>2 DEF NoCall
  <2>4. Metrics'
    BY <1>0, <1>1, <2>1, <2>2, <2>3 DEF Metrics
  <2>5. HashesAreMortal'
    BY <1>0, <1>1, <2>1, <2>3 DEF HashesAreMortal
  <2> QED BY <1>0, <2>1, <2>4, <2>5 DEF CacheInv, Ring, ringVars
<1>4. ASSUME NEW n \in CacheNode, CommandServed(n) PROVE CacheInv'
  <2>1. /\ writing[n] # NoCall /\ Serve(n)
        /\ writing' = [writing EXCEPT ![n] =
               IF @.next = Len(Commands) THEN NoCall
               ELSE [next |-> @.next + 1, metrics |-> @.metrics]]
        /\ UNCHANGED <<cacheRunning, local, reading, writes, ringVars, cacheFaults>>
    BY <1>4 DEF CommandServed
  <2>2. Len(Commands) = 2
    BY DEF Commands
  <2>3. writing[n] \in [next : 1..2, metrics : 1..MaxWrites]
    BY <2>1, CallFacts
  <2>4. /\ writing'[n] \in {NoCall} \cup [next : 1..2, metrics : 1..MaxWrites]
        /\ writing[n].next = 2 \/ writing'[n] # NoCall
        /\ writing' = [writing EXCEPT ![n] = writing'[n]]
    <3> DEFINE c == IF writing[n].next = 2 THEN NoCall
                    ELSE [next |-> writing[n].next + 1, metrics |-> writing[n].metrics]
    <3>1. writing' = [writing EXCEPT ![n] = c]
      BY <1>1, <2>1, <2>2
    <3>2. writing[n].next # 2 => c \in [next : 1..2, metrics : 1..MaxWrites]
      BY <2>3
    <3>3. \A d \in [next : 1..2, metrics : 1..MaxWrites] : d # NoCall
      BY DEF NoCall
    <3>4. c \in {NoCall} \cup [next : 1..2, metrics : 1..MaxWrites]
          /\ (writing[n].next = 2 \/ c # NoCall)
      BY <3>2, <3>3
    <3> HIDE DEF c
    <3>5. writing'[n] = c
      BY <1>1, <3>1
    <3> QED BY <3>1, <3>4, <3>5
  <2>5. /\ hash' \in [CacheNode -> 0..MaxWrites]
        /\ mortal' \subseteq {m \in CacheNode : hash'[m] # 0}
        /\ \A m \in CacheNode : m # n => hash'[m] = hash[m] /\ (m \in mortal' <=> m \in mortal)
        /\ writing[n].next = 2 /\ hash'[n] # 0 => n \in mortal'
    BY <2>1, ServedFacts
  <2>6. Metrics'
    BY <1>0, <1>1, <2>1, <2>4, <2>5 DEF Metrics
  <2>7. HashesAreMortal'
    BY <1>0, <1>1, <2>1, <2>4, <2>5 DEF HashesAreMortal
  <2> QED BY <1>0, <2>1, <2>6, <2>7 DEF CacheInv, Ring, ringVars
<1>5. ASSUME NEW n \in CacheNode, CommandFails(n) PROVE CacheInv'
  <2>1. /\ writing[n] # NoCall /\ CacheFault
        /\ Serve(n) \/ UNCHANGED <<hash, mortal>>
        /\ writing' = [writing EXCEPT ![n] = NoCall]
        /\ UNCHANGED <<cacheRunning, local, reading, writes, ringVars>>
    BY <1>5 DEF CommandFails
  <2>2. /\ hash' \in [CacheNode -> 0..MaxWrites]
        /\ mortal' \subseteq {m \in CacheNode : hash'[m] # 0}
    BY <1>1, <2>1, ServedFacts
  <2>3. Metrics'
    BY <1>0, <1>1, <2>1, <2>2 DEF Metrics
  <2>4. HashesAreMortal'
    BY <1>2, <2>1 DEF HashesAreMortal
  <2> QED BY <1>0, <1>2, <2>1, <2>3, <2>4 DEF CacheInv, Ring, ringVars
<1>6. ASSUME NEW n \in CacheNode, Expires(n) PROVE CacheInv'
  <2>1. /\ hash' = [hash EXCEPT ![n] = 0] /\ mortal' = mortal \ {n}
        /\ UNCHANGED <<cacheRunning, local, writing, reading, writes, ringVars, cacheFaults>>
    BY <1>6 DEF Expires
  <2>2. Metrics'
    BY <1>0, <1>1, <2>1 DEF Metrics
  <2>3. HashesAreMortal'
    BY <1>0, <1>1, <2>1 DEF HashesAreMortal
  <2> QED BY <1>0, <2>1, <2>2, <2>3 DEF CacheInv, Ring, ringVars
<1>7. CASE RefreshReads
  <2>1. /\ reading' = [read |-> TRUE, hash |-> hash]
        /\ UNCHANGED <<cacheRunning, local, hash, mortal, writing, writes, ringVars, cacheFaults>>
    BY <1>7 DEF RefreshReads
  <2>2. Metrics'
    BY <1>0, <1>1, <2>1 DEF Metrics
  <2> QED BY <1>0, <2>1, <2>2 DEF CacheInv, Ring, ringVars, HashesAreMortal
<1>8. CASE RefreshEnds
  <2>1. /\ reading # Nothing /\ reading' = Nothing
        /\ local' = [n \in CacheNode |-> Refreshed(n, reading.hash[n])]
        /\ UNCHANGED <<cacheRunning, hash, mortal, writing, writes, ringVars, cacheFaults>>
    BY <1>8 DEF RefreshEnds
  <2>2. reading.hash \in [CacheNode -> 0..MaxWrites]
    BY <1>0, <2>1 DEF Metrics
  <2>3. local' \in [CacheNode -> 0..MaxWrites]
    BY <1>1, <2>1, <2>2 DEF Refreshed
  <2>4. Metrics'
    BY <1>0, <1>1, <2>1, <2>3 DEF Metrics
  <2> QED BY <1>0, <2>1, <2>4 DEF CacheInv, Ring, ringVars, HashesAreMortal
<1>9. CASE RefreshFails
  <2>1. /\ CacheFault /\ reading' = Nothing
        /\ UNCHANGED <<cacheRunning, local, hash, mortal, writing, writes, ringVars>>
    BY <1>9 DEF RefreshFails
  <2>2. Metrics'
    BY <1>0, <2>1 DEF Metrics
  <2>3. HashesAreMortal'
    BY <1>2, <2>1 DEF HashesAreMortal
  <2> QED BY <1>0, <1>2, <2>1, <2>2, <2>3 DEF CacheInv, Ring, ringVars
<1>10. CASE WriteRing
  <2>1. /\ OnePerNode(sortedSet')
        /\ UNCHANGED <<cacheRunning, metricsVars, ringReading, snapshot, cacheFaults>>
    BY <1>10, OneMember DEF WriteRing
  <2> QED BY <1>0, <2>1 DEF CacheInv, Ring, Metrics, HashesAreMortal, metricsVars
<1>11. CASE RingRefreshReads
  <2>1. /\ ringReading' = [read |-> TRUE, entries |-> sortedSet]
        /\ UNCHANGED <<cacheRunning, metricsVars, sortedSet, snapshot, ringWrites, cacheFaults>>
    BY <1>11 DEF RingRefreshReads
  <2> QED BY <1>0, <2>1 DEF CacheInv, Ring, Metrics, HashesAreMortal, metricsVars
<1>12. CASE RingRefreshEnds
  <2>1. /\ ringReading # Nothing /\ ringReading' = Nothing /\ snapshot' = ringReading.entries
        /\ UNCHANGED <<cacheRunning, metricsVars, sortedSet, ringWrites, cacheFaults>>
    BY <1>12 DEF RingRefreshEnds
  <2>2. OnePerNode(ringReading.entries)
    BY <1>0, <2>1 DEF Ring
  <2> QED BY <1>0, <2>1, <2>2 DEF CacheInv, Ring, Metrics, HashesAreMortal, metricsVars
<1>13. CASE RingRefreshFails
  <2>1. /\ CacheFault /\ ringReading' = Nothing
        /\ UNCHANGED <<cacheRunning, metricsVars, sortedSet, snapshot, ringWrites>>
    BY <1>13 DEF RingRefreshFails
  <2>2. HashesAreMortal'
    BY <1>2, <2>1 DEF HashesAreMortal
  <2> QED BY <1>0, <1>2, <2>1, <2>2 DEF CacheInv, Ring, Metrics, metricsVars
<1>14. CASE StopCaches
  BY <1>0, <1>14 DEF StopCaches, CacheInv, Ring, Metrics, HashesAreMortal, metricsVars, ringVars
<1>15. CASE UNCHANGED cacheVars
  BY <1>0, <1>15 DEF cacheVars, CacheInv, Ring, Metrics, HashesAreMortal, metricsVars, ringVars
<1> QED BY <1>3, <1>4, <1>5, <1>6, <1>7, <1>8, <1>9, <1>10, <1>11, <1>12, <1>13, <1>14, <1>15
        DEF CacheStep

-----------------------------------------------------------------------------
\* The invariant is inductive.
THEOREM DatastoresInvariant == Spec => []DatastoresInv
<1>1. Init => DatastoresInv
  BY CacheStarts, SeriesStarts DEF Init, DatastoresInv
<1>2. DatastoresInv /\ [Next]_datastoreVars => DatastoresInv'
  <2> SUFFICES ASSUME DatastoresInv, [Next]_datastoreVars PROVE DatastoresInv'
    OBVIOUS
  <2>1. CacheStep \/ StopCaches \/ UNCHANGED cacheVars
    BY DEF Next, datastoreVars
  <2>2. SeriesStep \/ StopSeries \/ UNCHANGED seriesVars
    BY DEF Next, datastoreVars
  <2> QED BY <2>1, <2>2, CacheKeeps, SeriesKeeps DEF DatastoresInv
<1> QED BY <1>1, <1>2, PTL DEF Spec

\* The types; a hash has a time to live only while it exists, a snapshot shows one
\* position of each node, and no point is twice in the buffer.
THEOREM DatastoresTypes == Spec => []DatastoresTypeOK
<1>1. ASSUME DatastoresInv PROVE CacheTypeOK
  <2>1. CacheInv /\ Metrics /\ Ring /\ MaxWrites \in Nat
    BY <1>1, CacheAssumption DEF DatastoresInv, CacheInv
  <2>2. writing \in [CacheNode -> [next : 0..2, metrics : 0..MaxWrites]]
    <3>1. {NoCall} \cup [next : 1..2, metrics : 1..MaxWrites] \subseteq [next : 0..2, metrics : 0..MaxWrites]
      BY <2>1 DEF NoCall
    <3> QED BY <2>1, <3>1 DEF Metrics
  <2> QED BY <2>1, <2>2 DEF CacheTypeOK, CacheInv, Metrics, Ring, OnePerNode
<1>2. ASSUME DatastoresInv PROVE SeriesTypeOK
  <2>1. SeriesInv /\ SeriesOK(buffer, kept, points, written) /\ points \in Seq(Series)
        /\ Len(points) <= MaxPoints /\ MaxPoints \in Nat /\ Len(points) \in Nat
    BY <1>2, SeriesAssumption DEF DatastoresInv, SeriesInv
  <2>2. buffer \in Seq(1..Len(points)) /\ DOMAIN buffer = 1..Len(buffer) /\ Len(buffer) \in Nat
        /\ DOMAIN points = 1..Len(points)
    BY <2>1 DEF SeriesOK
  <2>3. Range(buffer) \cup written \subseteq DOMAIN points
    <3>1. written \subseteq 1..Len(points)
      BY <2>1 DEF SeriesOK
    <3>2. \A i \in 1..Len(buffer) : buffer[i] \in 1..Len(points)
      BY <2>2
    <3> QED BY <2>2, <3>1, <3>2 DEF Range
  <2>4. IsInjective(buffer)
    <3> SUFFICES ASSUME NEW i \in 1..Len(buffer), NEW j \in 1..Len(buffer), buffer[i] = buffer[j]
                 PROVE  i = j
      BY <2>2 DEF IsInjective
    <3>1. buffer[i] \in Int /\ i \in Int /\ j \in Int
      BY <2>2
    <3>2. (i < j => buffer[i] < buffer[j]) /\ (j < i => buffer[j] < buffer[i])
      BY <2>1 DEF SeriesOK, Ascending
    <3> QED BY <3>1, <3>2
  <2>5. kept \in [Series -> Seq(1..MaxPoints)]
    <3>1. Seq(1..Len(points)) \subseteq Seq(1..MaxPoints)
      BY <2>1
    <3> QED BY <2>1, <3>1 DEF SeriesOK
  <2> QED BY <2>1, <2>3, <2>4, <2>5 DEF SeriesTypeOK, SeriesInv
<1> QED BY <1>1, <1>2, DatastoresInvariant, PTL DEF DatastoresTypeOK

\* A hash without a time to live is about to get one, unless a command failed.
THEOREM NoHashForever == Spec => []HashesAreMortal
<1>1. DatastoresInv => HashesAreMortal
  BY DEF DatastoresInv, CacheInv
<1> QED BY <1>1, DatastoresInvariant, PTL

\* The last q elements of a sequence.
LEMMA LastElements ==
    ASSUME NEW S, NEW k \in Seq(S), NEW q \in Nat, q < Len(k)
    PROVE  LET w == SubSeq(k, Len(k) - q + 1, Len(k))
           IN  w \in Seq(S) /\ Len(w) = q /\ \A i \in 1..q : w[i] = k[Len(k) - q + i]
<1> DEFINE m == Len(k) - q + 1
           w == SubSeq(k, m, Len(k))
<1>1. /\ m \in 1..(Len(k) + 1) /\ Len(k) \in Nat /\ Len(k) - m + 1 = q
      /\ \A i \in m..Len(k) : i \in 1..Len(k) /\ k[i] \in S
      /\ \A i \in 1..q : m + i - 1 = Len(k) - q + i
  OBVIOUS
<1> HIDE DEF m
<1>2. w \in Seq(S) /\ Len(w) = q
  BY <1>1
<1>3. \A i \in 1..q : w[i] = k[m + i - 1]
  BY <1>1
<1> QED BY <1>1, <1>2, <1>3 DEF m

\* Whatever is written again after a failure, a window is read back oldest first and
\* ends with the newest point written.
THEOREM WindowsInOrder == Spec => []WindowEndsWithNewest
<1>1. ASSUME DatastoresInv PROVE WindowEndsWithNewest
  <2> SUFFICES ASSUME NEW s \in Series
               PROVE  LET w == RollingWindow(s) IN
                      /\ \A i \in 1..(Len(w) - 1) : w[i] <= w[i + 1]
                      /\ \A p \in written : points[p] = s => w # <<>> /\ p <= Last(w)
    BY DEF WindowEndsWithNewest
  <2> DEFINE k == kept[s]
             w == RollingWindow(s)
             d == Len(k) - Len(w)
  <2>1. /\ k \in Seq(1..Len(points)) /\ Len(k) \in Nat /\ QueryPoints \in Nat \ {0}
        /\ \A i, j \in 1..Len(k) : i < j => k[i] <= k[j]
        /\ \A p \in written : points[p] = s => k # <<>> /\ p <= Last(k)
    <3>1. SeriesOK(buffer, kept, points, written)
      BY <1>1 DEF DatastoresInv, SeriesInv
    <3>2. k \in Seq(1..Len(points)) /\ QueryPoints \in Nat \ {0}
      BY <3>1, SeriesAssumption DEF SeriesOK
    <3> QED BY <3>1, <3>2 DEF SeriesOK
  <2>2. /\ w \in Seq(1..Len(points)) /\ Len(w) \in Nat /\ d \in Nat
        /\ \A i \in 1..Len(w) : w[i] = k[d + i]
        /\ Len(w) = 0 => Len(k) = 0
    <3>1. CASE Len(k) > QueryPoints
      <4> DEFINE v == SubSeq(k, Len(k) - QueryPoints + 1, Len(k))
      <4>1. w = v
        BY <3>1 DEF RollingWindow
      <4>2. /\ v \in Seq(1..Len(points)) /\ Len(v) = QueryPoints
            /\ \A i \in 1..QueryPoints : v[i] = k[Len(k) - QueryPoints + i]
        <5> HIDE DEF k, w
        <5> QED BY <2>1, <3>1, LastElements
      <4> HIDE DEF v, w, k
      <4> QED BY <2>1, <3>1, <4>1, <4>2
    <3>2. CASE ~(Len(k) > QueryPoints)
      <4>1. w = k
        BY <3>2 DEF RollingWindow
      <4> HIDE DEF w, k
      <4> QED BY <2>1, <4>1
    <3> QED BY <3>1, <3>2
  <2> HIDE DEF k, w
  <2>3. ASSUME NEW i \in 1..(Len(w) - 1) PROVE w[i] <= w[i + 1]
    <3>1. /\ i \in 1..Len(w) /\ i + 1 \in 1..Len(w)
          /\ d + i \in 1..Len(k) /\ d + (i + 1) \in 1..Len(k) /\ d + i < d + (i + 1)
      BY <2>1, <2>2
    <3> QED BY <2>1, <2>2, <3>1
  <2>4. ASSUME NEW p \in written, points[p] = s PROVE w # <<>> /\ p <= Last(w)
    <3>1. k # <<>> /\ p <= Last(k)
      BY <2>1, <2>4
    <3>2. Len(k) # 0
      BY <2>1, <3>1
    <3>3. Len(w) # 0 /\ Len(w) \in 1..Len(w) /\ d + Len(w) = Len(k)
      BY <2>1, <2>2, <3>2
    <3>4. w[Len(w)] = k[Len(k)] /\ w # <<>>
      BY <2>2, <3>3
    <3> QED BY <3>1, <3>4 DEF Last
  <2> QED BY <2>3, <2>4 DEF w
<1> QED BY <1>1, DatastoresInvariant, PTL

=============================================================================
