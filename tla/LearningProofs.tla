---------------------------- MODULE LearningProofs ----------------------------
(***************************************************************************)
(* Theorems about Learning, for windows of any size, any number of         *)
(* requests and whatever the models answer.                                *)
(***************************************************************************)
EXTENDS Learning, FiniteSetTheorems, WellFoundedInduction, TLAPS

-----------------------------------------------------------------------------
\* The inductive invariant, in parts.

Sample == [latency : {0}, queue : {0}, requests : Nat, burst : BOOLEAN]

\* The types, with what nobody feeds: no sample has a latency or a queue.
Values ==
    /\ FeatureTypeOK /\ ForecasterTypeOK
    /\ loaded \in BOOLEAN /\ reference \in BOOLEAN
    /\ outcomes \in Seq(BOOLEAN) /\ Len(outcomes) <= MaxOutcomes
    /\ samples \in Seq(Sample) /\ Len(samples) <= MaxSamples
    /\ submitted \in 0..MaxRequests
    /\ forecastWait \in 0..ForecastTicks /\ checkWait \in 0..CheckTicks
    /\ driftDetected \in BOOLEAN /\ accuracyAlert \in BOOLEAN

\* What a mode leaves out.
Modes ==
    /\ mode \in {"predictive", "ablation_classifier_only", "ablation_forecaster_only"}
    /\ ~HasClassifier => samples = <<>>
    /\ ~HasForecaster => points = <<>> /\ heavyCount = 0 /\ forecastWait = 0

\* The average has at least three tenths of the window it was last told of, which was
\* that of the last sample once it is kept.
Rising ==
    /\ BurstFeatureNeedsRise
    /\ Len(samples) <= submitted
    /\ totalRequests = IF submitted < WarmupRequests THEN submitted ELSE WarmupRequests
    /\ samples # <<>> /\ submitted >= WarmupRequests
          => 300 * Last(samples).requests <= countEma

\* Drift that was detected lasts, since the samples that show it do not get fewer.
Drift ==
    /\ driftAlerts = IF driftDetected THEN 1 ELSE 0
    /\ driftDetected => reference /\ Len(samples) >= MinSamples

LearningInv == Values /\ Modes /\ Rising /\ Drift

LEMMA ConstantTypes ==
    /\ WindowTicks \in Nat \ {0} /\ WarmupRequests \in Nat \ {0}
    /\ MinSamples \in Nat \ {0} /\ MaxSamples \in Nat \ {0} /\ MaxOutcomes \in Nat \ {0}
    /\ WindowSize \in Nat \ {0} /\ ForecastTicks \in Nat /\ CheckTicks \in Nat
    /\ MaxRequests \in Nat /\ MaxAlerts \in Nat /\ MaxAlerts > 1
    /\ GruValues \subseteq Nat
BY FeatureAssumption, ClassifierAssumption, ForecasterAssumption, LearningAssumption

-----------------------------------------------------------------------------
\* The moving averages and counts that are defined by recursion.

\* Induction up to n, over the set of the numbers for which a fact holds.
LEMMA UpTo ==
    ASSUME NEW n \in Nat, NEW S, 0 \in S,
           \A k \in 1..n : k - 1 \in S => k \in S
    PROVE  0..n \subseteq S
<1> DEFINE T == {k \in 0..n : k \notin S}
<1> SUFFICES ASSUME T # {} PROVE FALSE
  OBVIOUS
<1>1. PICK m \in T : \A y \in T : ~ (<<y, m>> \in OpToRel(<, Nat))
  <2>1. T \subseteq Nat
    OBVIOUS
  <2> HIDE DEF T
  <2> QED BY <2>1, NatLessThanWellFounded, WFMin
<1>2. m \in 0..n /\ m \notin S
  BY <1>1
<1>3. m \in 1..n /\ m - 1 \in 0..n /\ m - 1 \in Nat /\ m \in Nat /\ m - 1 < m
  BY <1>2
<1>4. <<m - 1, m>> \in OpToRel(<, Nat)
  <2> DEFINE j == m - 1
  <2>1. j \in Nat /\ j < m
    BY <1>3
  <2> HIDE DEF j
  <2>2. <<j, m>> \in OpToRel(<, Nat)
    BY <1>3, <2>1 DEF OpToRel
  <2> QED BY <2>2 DEF j
<1>5. m - 1 \notin T
  BY <1>1, <1>4
<1> QED BY <1>2, <1>3, <1>5

\* A window of counts has a count.
LEMMA WindowCountType ==
    ASSUME NEW w \in [Age -> Nat]
    PROVE  WindowCount(w) \in Nat
<1> DEFINE Solves(g, m) == g = [a \in 0..m |-> IF a = 0 THEN 0 ELSE g[a - 1] + w[a - 1]]
           S == {m \in Nat : \E g : Solves(g, m)}
           count == CHOOSE g : Solves(g, WindowTicks)
<1>1. 0..WindowTicks \subseteq S
  <2>1. Solves([a \in 0..0 |-> 0], 0)
    OBVIOUS
  <2>2. ASSUME NEW m \in 1..WindowTicks, m - 1 \in S PROVE m \in S
    <3>1. PICK g : Solves(g, m - 1)
      BY <2>2
    <3> DEFINE h == [a \in 0..m |-> IF a = m THEN g[m - 1] + w[m - 1] ELSE g[a]]
    <3>2. ASSUME NEW a \in 0..m PROVE h[a] = IF a = 0 THEN 0 ELSE h[a - 1] + w[a - 1]
      BY <3>1
    <3>3. Solves(h, m)
      BY <3>2
    <3>4. m \in Nat
      OBVIOUS
    <3> HIDE DEF Solves, h
    <3> QED BY <3>3, <3>4
  <2>3. 0 \in S
    BY <2>1
  <2>4. WindowTicks \in Nat
    BY ConstantTypes
  <2> HIDE DEF S
  <2> QED BY <2>2, <2>3, <2>4, UpTo
<1>2. Solves(count, WindowTicks)
  <2>1. \E g : Solves(g, WindowTicks)
    <3>1. WindowTicks \in 0..WindowTicks
      BY ConstantTypes
    <3> HIDE DEF Solves
    <3> QED BY <1>1, <3>1
  <2> HIDE DEF Solves
  <2> QED BY <2>1
<1> HIDE DEF count
<1> DEFINE R == {a \in 0..WindowTicks : count[a] \in Nat}
<1>3. 0..WindowTicks \subseteq R
  <2>0. WindowTicks \in Nat
    BY ConstantTypes
  <2>1. 0 \in R
    BY <1>2, <2>0
  <2>2. ASSUME NEW a \in 1..WindowTicks, a - 1 \in R PROVE a \in R
    <3>1. a - 1 \in Age /\ a \in 0..WindowTicks /\ a # 0
      BY <2>0 DEF Age
    <3>2. count[a] = count[a - 1] + w[a - 1]
      BY <1>2, <3>1
    <3>3. w[a - 1] \in Nat
      BY <3>1
    <3> QED BY <2>2, <3>1, <3>2, <3>3
  <2> HIDE DEF R
  <2> QED BY <2>0, <2>1, <2>2, UpTo
<1>4. WindowCount(w) = count[WindowTicks]
  BY DEF WindowCount, count
<1>5. WindowTicks \in 0..WindowTicks
  BY ConstantTypes
<1> QED BY <1>3, <1>4, <1>5

LEMMA TenthType ==
    ASSUME NEW x \in Nat
    PROVE  x \div 10 \in Nat /\ 10 * (x \div 10) <= x /\ x < 10 * (x \div 10) + 10
OBVIOUS

LEMMA StepType ==
    ASSUME NEW x \in Nat, NEW y \in Nat
    PROVE  (3 * Milli * x + 7 * y) \div 10 \in Nat
<1> DEFINE z == 3 * Milli * x + 7 * y
<1>1. z \in Nat
  BY DEF Milli
<1> HIDE DEF z
<1>2. z \div 10 \in Nat
  BY <1>1, TenthType
<1> QED BY <1>2 DEF z

\* And a moving average.
LEMMA EmaFallbackType ==
    ASSUME NEW w \in Seq(Nat)
    PROVE  EmaFallback(w) \in Nat
<1> DEFINE Solves(g, m) ==
               g = [i \in 1..m |-> IF i = 1 THEN Milli * w[1]
                                   ELSE (3 * Milli * w[i] + 7 * g[i - 1]) \div 10]
           n == Len(w)
           S == {m \in Nat : \E g : Solves(g, m)}
           ema == CHOOSE g : Solves(g, n)
<1>1. 0..n \subseteq S
  <2>1. Solves([i \in 1..0 |-> 0], 0)
    OBVIOUS
  <2>2. ASSUME NEW m \in 1..n, m - 1 \in S PROVE m \in S
    <3>1. PICK g : Solves(g, m - 1)
      BY <2>2
    <3> DEFINE h == [i \in 1..m |-> IF i = m
                                    THEN IF m = 1 THEN Milli * w[1]
                                         ELSE (3 * Milli * w[m] + 7 * g[m - 1]) \div 10
                                    ELSE g[i]]
    <3>2. ASSUME NEW i \in 1..m
          PROVE  h[i] = IF i = 1 THEN Milli * w[1]
                        ELSE (3 * Milli * w[i] + 7 * h[i - 1]) \div 10
      <4>1. CASE i = m /\ m = 1
        BY <4>1
      <4>2. CASE i = m /\ m # 1
        <5>1. i - 1 \in 1..m /\ i - 1 # m
          BY <4>2
        <5>2. h[i - 1] = g[m - 1]
          BY <4>2, <5>1
        <5>3. h[i] = (3 * Milli * w[m] + 7 * g[m - 1]) \div 10
          BY <4>2
        <5> HIDE DEF h
        <5> QED BY <4>2, <5>2, <5>3
      <4>3. CASE i # m
        <5>1. i \in 1..(m - 1) /\ h[i] = g[i]
          BY <4>3
        <5>2. g[i] = IF i = 1 THEN Milli * w[1]
                     ELSE (3 * Milli * w[i] + 7 * g[i - 1]) \div 10
          BY <3>1, <5>1
        <5>3. i # 1 => h[i - 1] = g[i - 1]
          <6>1. i # 1 => i - 1 \in 1..m /\ i - 1 # m
            BY <5>1
          <6> QED BY <6>1
        <5> HIDE DEF h
        <5> QED BY <5>1, <5>2, <5>3
      <4> QED BY <4>1, <4>2, <4>3
    <3>3. Solves(h, m)
      BY <3>2
    <3>4. m \in Nat
      OBVIOUS
    <3> HIDE DEF Solves, h
    <3> QED BY <3>3, <3>4
  <2>3. 0 \in S
    BY <2>1
  <2>4. n \in Nat
    OBVIOUS
  <2> HIDE DEF S, n
  <2> QED BY <2>2, <2>3, <2>4, UpTo
<1>2. Solves(ema, n)
  <2>1. n \in 0..n
    OBVIOUS
  <2>2. \E g : Solves(g, n)
    <3> HIDE DEF n, Solves
    <3> QED BY <1>1, <2>1
  <2> QED BY <2>2
<1> HIDE DEF ema
<1> DEFINE R == {i \in 0..n : i > 0 => ema[i] \in Nat}
<1>3. 0..n \subseteq R
  <2>1. 0 \in R
    OBVIOUS
  <2>2. ASSUME NEW i \in 1..n, i - 1 \in R PROVE i \in R
    <3>1. w[i] \in Nat /\ w[1] \in Nat
      BY ONLY w \in Seq(Nat), i \in 1..Len(w)
    <3>2. CASE i = 1
      <4>1. ema[i] = Milli * w[1] /\ i \in 0..n
        BY <1>2, <3>2
      <4> QED BY <3>1, <4>1 DEF Milli
    <3>3. CASE i # 1
      <4>1. ema[i] = (3 * Milli * w[i] + 7 * ema[i - 1]) \div 10
        BY <1>2, <3>3
      <4>2. ema[i - 1] \in Nat
        BY <2>2, <3>3
      <4>3. (3 * Milli * w[i] + 7 * ema[i - 1]) \div 10 \in Nat
        BY <3>1, <4>2, StepType
      <4>4. ema[i] \in Nat /\ i \in 0..n
        BY <4>1, <4>3
      <4> QED BY <4>4
    <3> QED BY <3>2, <3>3
  <2>3. n \in Nat
    OBVIOUS
  <2> HIDE DEF R, n
  <2> QED BY <2>1, <2>2, <2>3, UpTo
<1>4. w # <<>> => EmaFallback(w) = ema[n]
  BY DEF EmaFallback, ema
<1>5. n \in Nat /\ (w # <<>> => n \in 1..n)
  OBVIOUS
<1>6. w = <<>> => EmaFallback(w) = 0
  BY DEF EmaFallback
<1>7. w # <<>> => ema[n] \in Nat
  <2> HIDE DEF n
  <2> QED BY <1>3, <1>5
<1> HIDE DEF n
<1> QED BY <1>4, <1>6, <1>7
-----------------------------------------------------------------------------
\* The windows of the classifier.

\* Window w is s with x after it, but for the first of s perhaps.
Slides(s, x, w) ==
    /\ Len(w) >= Len(s) /\ w # <<>> /\ Last(w) = x /\ w[Len(w)] = x
    /\ Len(w) > 1 => s # <<>> /\ w[Len(w) - 1] = Last(s)
    /\ \E d \in {0, 1} : /\ Len(w) + d = Len(s) + 1
                        /\ \A i \in 1..(Len(w) - 1) :
                              d + i \in 1..Len(s) /\ w[i] = s[d + i]

\* A window that gets one more entry keeps it last, with the entries before it.
LEMMA WindowGrows ==
    ASSUME NEW S, NEW s \in Seq(S), NEW x \in S, NEW n \in Nat \ {0}, Len(s) <= n,
           NEW w, w = LastOf(Append(s, x), n)
    PROVE  w \in Seq(S) /\ Len(w) \in 1..n /\ Slides(s, x, w)
<1> DEFINE a == Append(s, x)
           l == Len(s)
<1>0. w = LastOf(a, n)
  OBVIOUS
<1>1. /\ a \in Seq(S) /\ Len(a) = l + 1 /\ l \in Nat /\ a[l + 1] = x
      /\ \A i \in 1..l : a[i] = s[i]
  OBVIOUS
<1>2. \E d \in {0, 1} : /\ w \in Seq(S) /\ Len(w) \in 1..n /\ Len(w) >= l /\ Len(w) + d = l + 1
                        /\ \A i \in 1..Len(w) : w[i] = a[d + i]
  <2>1. CASE l + 1 > n
    <3>1. l = n /\ w = SubSeq(a, 2, n + 1)
      <4>1. l = n
        BY <2>1
      <4>2. w = SubSeq(a, Len(a) - n + 1, Len(a))
        <5> HIDE DEF a, l
        <5> QED BY <1>0, <1>1, <2>1 DEF LastOf
      <4>3. Len(a) - n + 1 = 2 /\ Len(a) = n + 1
        <5> HIDE DEF a, l
        <5> QED BY <1>1, <4>1
      <4> HIDE DEF a, l
      <4> QED BY <4>1, <4>2, <4>3
    <3>2. 2 \in 1..(n + 2) /\ (n + 1) - 2 + 1 = n /\ \A i \in 2..(n + 1) : a[i] \in S
      BY <1>1, <3>1
    <3> HIDE DEF a, l
    <3>3. w \in Seq(S) /\ Len(w) = n /\ \A i \in 1..n : w[i] = a[i + 1]
      BY <1>1, <3>1, <3>2
    <3> WITNESS 1 \in {0, 1}
    <3> QED BY <3>1, <3>3
  <2>2. CASE ~ (l + 1 > n)
    <3>1. w = a
      BY <1>0, <1>1, <2>2 DEF LastOf
    <3> HIDE DEF a, l
    <3> WITNESS 0 \in {0, 1}
    <3> QED BY <1>1, <2>2, <3>1
  <2> QED BY <2>1, <2>2
<1>3. PICK d \in {0, 1} : /\ w \in Seq(S) /\ Len(w) \in 1..n /\ Len(w) >= l /\ Len(w) + d = l + 1
                          /\ \A i \in 1..Len(w) : w[i] = a[d + i]
  BY <1>2
<1>4. Last(s) = s[l]
  BY DEF Last
<1>5. l > 0 => s # <<>>
  OBVIOUS
<1> HIDE DEF a, l
<1> DEFINE m == Len(w)
<1>10. /\ m \in 1..n /\ m \in Nat /\ m >= l /\ m + d = l + 1 /\ d \in {0, 1} /\ m > 0
      /\ \A i \in 1..m : w[i] = a[d + i]
  BY <1>3
<1>6. w # <<>>
  <2>1. Len(<<>>) = 0
    OBVIOUS
  <2> QED BY <1>10, <2>1
<1> HIDE DEF m
<1>11. w[m] = x
  <2>1. m \in 1..m /\ d + m = l + 1
    BY <1>1, <1>10
  <2>2. w[m] = a[d + m]
    BY <1>10, <2>1
  <2> QED BY <1>1, <2>1, <2>2
<1>7. Last(w) = x
  BY <1>11 DEF Last, m
<1>8. ASSUME NEW i \in 1..(m - 1) PROVE d + i \in 1..l /\ w[i] = s[d + i]
  <2>1. i \in 1..m /\ d + i \in 1..l
    BY <1>1, <1>10
  <2>2. w[i] = a[d + i]
    BY <1>10, <2>1
  <2> QED BY <1>1, <2>1, <2>2
<1>9. m > 1 => s # <<>> /\ w[m - 1] = s[l]
  <2> SUFFICES ASSUME m > 1 PROVE s # <<>> /\ w[m - 1] = s[l]
    OBVIOUS
  <2>1. m - 1 \in 1..(m - 1) /\ l > 0 /\ d + (m - 1) = l
    BY <1>1, <1>10
  <2>2. w[m - 1] = s[d + (m - 1)]
    BY <1>8, <2>1
  <2> QED BY <1>5, <2>1, <2>2
<1> QED BY <1>3, <1>4, <1>6, <1>11, <1>7, <1>8, <1>9 DEF a, l, m, Slides

\* Once there are samples enough they show a drift: not one of them has a latency.
LEMMA NoLatencyIsDrift ==
    ASSUME samples \in Seq(Sample), reference, Len(samples) >= MinSamples
    PROVE  DriftDetected
<1> DEFINE low == {i \in DOMAIN samples : samples[i].latency = 0}
           n == Len(samples)
<1>1. n \in Nat \ {0} /\ DOMAIN samples = 1..n
  BY ConstantTypes
<1>2. low = 1..n
  <2>1. ASSUME NEW i \in 1..n PROVE samples[i].latency = 0
    <3>1. samples[i] \in Sample
      BY <1>1
    <3> QED BY <3>1 DEF Sample
  <2> HIDE DEF n
  <2> QED BY <1>1, <2>1
<1>3. Cardinality(1..n) = n
  <2> HIDE DEF n
  <2>1. 1 \in Int /\ n \in Int
    BY <1>1
  <2>2. Cardinality(1..n) = IF 1 > n THEN 0 ELSE n - 1 + 1
    BY <2>1, FS_Interval
  <2> QED BY <1>1, <2>2
<1>4. LowShare("latency") = (1000 * Cardinality(low)) \div n
  BY DEF LowShare
<1>5. (1000 * n) \div n = 1000
  <2> HIDE DEF n
  <2> QED BY <1>1
<1>6. LowShare("latency") = 1000
  <2> HIDE DEF n, low
  <2> QED BY <1>2, <1>3, <1>4, <1>5
<1>7. "latency" \in DOMAIN Usual /\ 1000 \notin Usual["latency"]
  BY DEF Usual
<1>8. "latency" \in Drifted
  <2>1. ~ (Len(samples) < MinSamples)
    BY <1>1, ConstantTypes
  <2> QED BY <1>6, <1>7, <2>1 DEF Drifted
<1> QED BY <1>8 DEF DriftDetected

\* And no drift is found before there are samples enough, nor without a reference.
LEMMA DriftNeedsSamples ==
    ASSUME samples \in Seq(Sample), DriftDetected
    PROVE  reference /\ Len(samples) >= MinSamples
<1>1. ASSUME ~reference PROVE ~DriftDetected
  BY <1>1 DEF DriftDetected, Drifted
<1>2. ASSUME Len(samples) < MinSamples PROVE ~DriftDetected
  BY <1>2 DEF DriftDetected, Drifted
<1>3. Len(samples) >= MinSamples \/ Len(samples) < MinSamples
  <2>1. Len(samples) \in Nat
    OBVIOUS
  <2> QED BY <2>1, ConstantTypes
<1> QED BY <1>1, <1>2, <1>3

-----------------------------------------------------------------------------
\* Bursts.

\* The average after a count is at least three tenths of it.
LEMMA AverageFollows ==
    ASSUME NEW c \in Nat, NEW e \in Nat
    PROVE  Smoothed(Unit * c, e) \in Nat /\ 300 * c <= Smoothed(Unit * c, e)
<1> DEFINE z == 3 * (Unit * c) + 7 * e
<1>1. z \in Nat /\ 3000 * c <= z
  BY DEF Unit
<1>2. Smoothed(Unit * c, e) = z \div 10
  BY DEF Smoothed
<1> HIDE DEF z
<1>3. z \div 10 \in Nat /\ z < 10 * (z \div 10) + 10
  BY <1>1, TenthType
<1>4. 300 * c <= z \div 10
  BY <1>1, <1>3
<1> QED BY <1>2, <1>3, <1>4

\* A count that is twice the average after it is more than the one before it, of which
\* the average has three tenths.
LEMMA BurstIsARise ==
    ASSUME NEW before \in Nat, NEW c \in Nat, countEma \in Nat, 300 * before <= countEma,
           NEW n, IsBurst(n, c)
    PROVE  before < c
<1> SUFFICES ASSUME c <= before PROVE FALSE
  OBVIOUS
<1> DEFINE z == 3 * (Unit * c) + 7 * countEma
<1>1. z \in Nat /\ 5100 * c <= z
  BY DEF Unit
<1>2. 1000 * c > 2 * (z \div 10)
  BY DEF IsBurst, Smoothed, Unit
<1> HIDE DEF z
<1>3. z \div 10 \in Nat /\ z < 10 * (z \div 10) + 10
  BY <1>1, TenthType
<1> QED BY <1>1, <1>2, <1>3

-----------------------------------------------------------------------------
\* The invariant is inductive: first what each component's part of a step does.

\* Extract keeps the types, and its features are those of a sample.
LEMMA ExtractStep ==
    ASSUME FeatureTypeOK, Extract
    PROVE  LET f == Features(0, 0) IN
           /\ FeatureTypeOK' /\ f \in Sample
           /\ totalRequests' = IF totalRequests < WarmupRequests THEN totalRequests + 1
                               ELSE totalRequests
           /\ totalRequests' >= WarmupRequests => 300 * f.requests <= countEma'
           /\ \A before \in Nat :
                 f.burst /\ 300 * before <= countEma => before < f.requests
<1> DEFINE n == IF totalRequests < WarmupRequests THEN totalRequests + 1 ELSE totalRequests
           w == [recent EXCEPT ![0] = @ + 1]
           c == WindowCount(w)
           f == Features(0, 0)
<1>1. w \in [Age -> Nat] /\ n \in 0..WarmupRequests /\ countEma \in Nat
  <2>1. recent \in [Age -> Nat] /\ totalRequests \in 0..WarmupRequests /\ countEma \in Nat
    BY DEF FeatureTypeOK
  <2>2. 0 \in Age
    BY ConstantTypes DEF Age
  <2>3. n \in 0..WarmupRequests
    BY ONLY <2>1, ConstantTypes
  <2>4. w \in [Age -> Nat]
    BY ONLY <2>1, <2>2
  <2> QED BY <2>1, <2>3, <2>4
<1>2. c \in Nat
  <2> HIDE DEF w
  <2> QED BY <1>1, WindowCountType
<1>3. f = [latency |-> 0, queue |-> 0, requests |-> c, burst |-> IsBurst(n, c)]
  BY DEF Features
<1>4. /\ recent' = w /\ totalRequests' = n
      /\ countEma' = IF n >= WarmupRequests THEN Smoothed(Unit * c, countEma) ELSE countEma
  BY DEF Extract
<1>5. IsBurst(n, c) \in BOOLEAN /\ (IsBurst(n, c) => n >= WarmupRequests)
  BY DEF IsBurst
<1> HIDE DEF n, w, c, f
<1>6. FeatureTypeOK'
  BY <1>1, <1>2, <1>4, AverageFollows DEF FeatureTypeOK, Age
<1>7. f \in Sample /\ f.requests = c /\ f.burst = IsBurst(n, c)
  BY <1>2, <1>3, <1>5 DEF Sample
<1>8. n >= WarmupRequests => 300 * f.requests <= countEma'
  BY <1>1, <1>2, <1>4, <1>5, <1>7, AverageFollows
<1>9. ASSUME NEW before \in Nat, f.burst, 300 * before <= countEma PROVE before < f.requests
  BY <1>1, <1>2, <1>7, <1>9, BurstIsARise
<1> QED BY <1>4, <1>6, <1>7, <1>8, <1>9 DEF f, n

\* The window of the forecaster is one of counts.
LEMMA NextWindowType ==
    ASSUME ForecasterTypeOK
    PROVE  NextWindow \in Seq(Nat) /\ Len(NextWindow) <= WindowSize
<1> DEFINE w == Append(points, heavyCount)
<1>1. w \in Seq(Nat) /\ w # <<>> /\ Len(w) = Len(points) + 1 /\ Len(points) \in Nat
      /\ Len(points) <= WindowSize
  <2>1. points \in Seq(Nat) /\ heavyCount \in Nat /\ Len(points) <= WindowSize
    BY DEF ForecasterTypeOK
  <2>2. w \in Seq(Nat) /\ Len(w) = Len(points) + 1 /\ Len(points) \in Nat
    BY <2>1
  <2>3. w # <<>>
    <3>1. Len(<<>>) = 0 /\ Len(w) > 0
      BY <2>2
    <3> HIDE DEF w
    <3> QED BY <3>1
  <2> QED BY <2>1, <2>2, <2>3
<1> HIDE DEF w
<1>2. Tail(w) \in Seq(Nat) /\ Len(Tail(w)) = Len(w) - 1
  BY ONLY <1>1
<1>3. NextWindow = IF Len(w) > WindowSize THEN Tail(w) ELSE w
  BY DEF NextWindow, w
<1>4. CASE Len(w) > WindowSize
  <2>1. NextWindow = Tail(w)
    BY <1>3, <1>4
  <2>2. Len(Tail(w)) <= WindowSize
    BY ONLY <1>1, <1>2, ConstantTypes
  <2> QED BY ONLY <1>2, <2>1, <2>2
<1>5. CASE ~ (Len(w) > WindowSize)
  <2>1. NextWindow = w
    BY <1>3, <1>5
  <2>2. Len(w) <= WindowSize
    BY ONLY <1>1, <1>5, ConstantTypes
  <2> QED BY ONLY <1>1, <2>1, <2>2
<1> QED BY <1>4, <1>5

\* So is its prediction of it.
LEMMA ForecastStep ==
    ASSUME ForecasterTypeOK, ForecastCycle
    PROVE  ForecasterTypeOK'
<1> DEFINE w == NextWindow
<1>1. w \in Seq(Nat) /\ Len(w) <= WindowSize
  BY NextWindowType
<1>2. PICK p \in Predictions(w) :
        /\ points' = w /\ heavyCount' = 0 /\ prediction' = p
        /\ burst' = BurstImminent(p, w)
        /\ Notify(burst, BurstImminent(p, w)) /\ gru' = gru
  BY DEF ForecastCycle
<1> HIDE DEF w
<1>3. EmaFallback(w) \in Nat
  BY <1>1, EmaFallbackType
<1>4. p \in Nat
  BY <1>3, ConstantTypes DEF Predictions, GruPredictions
<1>5. BurstImminent(p, w) \in BOOLEAN
  BY DEF BurstImminent
<1>6. daaBurst' \in BOOLEAN
  BY <1>2, <1>5 DEF Notify, ForecasterTypeOK
<1> QED BY <1>1, <1>2, <1>4, <1>5, <1>6 DEF ForecasterTypeOK

LEMMA InvariantHoldsFirst == Init => LearningInv
<1> SUFFICES ASSUME Init PROVE LearningInv
  OBVIOUS
<1>1. Values
  <2>1. FeatureTypeOK
    <3>1. 0 \in 0..WarmupRequests
      BY ConstantTypes
    <3> QED BY <3>1 DEF Init, FeatureInit, FeatureTypeOK
  <2>2. ForecasterTypeOK
    <3>1. <<>> \in Seq(Nat) /\ Len(<<>>) <= WindowSize
      BY ConstantTypes
    <3>2. gru \in BOOLEAN /\ heavyCount = 0 /\ points = <<>> /\ prediction = 0 /\ burst = FALSE
          /\ daaBurst = FALSE
      BY DEF Init, ForecasterInit
    <3> QED BY ONLY <3>1, <3>2 DEF ForecasterTypeOK
  <2>3. /\ outcomes \in Seq(BOOLEAN) /\ Len(outcomes) <= MaxOutcomes
        /\ samples \in Seq(Sample) /\ Len(samples) <= MaxSamples
    <3>1. outcomes = <<>> /\ samples = <<>>
      BY DEF Init, ClassifierInit
    <3>2. Len(<<>>) = 0 /\ 0 <= MaxOutcomes /\ 0 <= MaxSamples
      BY ConstantTypes
    <3> QED BY <3>1, <3>2
  <2>4. /\ loaded \in BOOLEAN /\ reference = loaded /\ submitted = 0 /\ forecastWait = 0
        /\ checkWait = 0 /\ driftDetected = FALSE /\ accuracyAlert = FALSE
    BY DEF Init, ClassifierInit
  <2>5. loaded \in BOOLEAN /\ reference \in BOOLEAN
    BY <2>4
  <2>6. driftDetected \in BOOLEAN /\ accuracyAlert \in BOOLEAN
    BY <2>4
  <2>7. submitted \in 0..MaxRequests /\ forecastWait \in 0..ForecastTicks
        /\ checkWait \in 0..CheckTicks
    BY ONLY <2>4, ConstantTypes
  <2> QED BY ONLY <2>1, <2>2, <2>3, <2>5, <2>6, <2>7 DEF Values
<1>2. Modes
  BY DEF Init, Modes, ClassifierInit, ForecasterInit
<1>3. Rising
  <2>1. samples = <<>> /\ submitted = 0 /\ totalRequests = 0 /\ Len(<<>>) = 0
    BY DEF Init, ClassifierInit, FeatureInit
  <2> QED BY <2>1, ConstantTypes DEF Rising, BurstFeatureNeedsRise
<1>4. Drift
  BY DEF Init, Drift
<1> QED BY <1>1, <1>2, <1>3, <1>4 DEF LearningInv

LEMMA SubmitKeepsInvariant ==
    ASSUME LearningInv, NEW rule \in Class, Submit(rule)
    PROVE  LearningInv'
<1> DEFINE f == Features(0, 0)
<1> USE DEF LearningInv
<1>1. PICK class \in Predicted(rule) :
        /\ IF class = "Heavy" /\ HasForecaster THEN RecordHeavyRequest ELSE heavyCount' = heavyCount
        /\ RecordPrediction(class)
  BY DEF Submit
<1>2. /\ Extract /\ submitted' = submitted + 1 /\ submitted < MaxRequests
      /\ gru' = gru /\ points' = points /\ prediction' = prediction /\ burst' = burst
      /\ daaBurst' = daaBurst /\ mode' = mode /\ forecastWait' = forecastWait
      /\ checkWait' = checkWait /\ driftDetected' = driftDetected
      /\ driftAlerts' = driftAlerts /\ accuracyAlert' = accuracyAlert
  BY DEF Submit, loopVars
<1>3. /\ FeatureTypeOK' /\ f \in Sample
      /\ totalRequests' = IF totalRequests < WarmupRequests THEN totalRequests + 1
                          ELSE totalRequests
      /\ totalRequests' >= WarmupRequests => 300 * f.requests <= countEma'
      /\ \A before \in Nat : f.burst /\ 300 * before <= countEma => before < f.requests
  BY <1>2, ExtractStep DEF Values
<1>4. HasClassifier' = HasClassifier /\ HasForecaster' = HasForecaster
  BY <1>2 DEF HasClassifier, HasForecaster
<1> HIDE DEF f
<1>5. ForecasterTypeOK'
  <2>1. ForecasterTypeOK
    BY DEF Values
  <2>2. heavyCount' \in Nat
    BY <1>1, <2>1 DEF ForecasterTypeOK, RecordHeavyRequest
  <2> QED BY <1>2, <2>1, <2>2 DEF ForecasterTypeOK
<1>6. submitted' \in 0..MaxRequests
  <2>1. submitted \in 0..MaxRequests
    BY DEF Values
  <2> QED BY ONLY <1>2, <2>1, ConstantTypes
<1>6a. /\ submitted \in Nat /\ Len(samples) <= submitted /\ WarmupRequests \in Nat \ {0}
       /\ totalRequests = IF submitted < WarmupRequests THEN submitted ELSE WarmupRequests
       /\ totalRequests' = IF submitted' < WarmupRequests THEN submitted' ELSE WarmupRequests
  <2>1. /\ submitted \in 0..MaxRequests /\ Len(samples) <= submitted
        /\ totalRequests = IF submitted < WarmupRequests THEN submitted ELSE WarmupRequests
    BY DEF Values, Rising
  <2>2. totalRequests' = IF submitted' < WarmupRequests THEN submitted' ELSE WarmupRequests
    BY ONLY <1>2, <1>3, <2>1, ConstantTypes
  <2> QED BY <2>1, <2>2, ConstantTypes
<1>7. ~HasForecaster' => points' = <<>> /\ heavyCount' = 0 /\ forecastWait' = 0
  BY <1>1, <1>2, <1>4 DEF Modes
<1>8. CASE ~HasClassifier
  <2>1. UNCHANGED <<loaded, reference, outcomes, samples>> /\ samples = <<>>
    BY <1>1, <1>8 DEF RecordPrediction, classifierVars, Modes
  <2>2. Values'
    BY <1>2, <1>3, <1>5, <1>6, <2>1 DEF Values
  <2>3. Modes'
    BY <1>2, <1>4, <1>7, <2>1 DEF Modes
  <2>4. Rising'
    <3>1. samples' = <<>> /\ Len(<<>>) = 0
      BY <2>1
    <3> QED BY <1>2, <1>6a, <3>1 DEF Rising, BurstFeatureNeedsRise
  <2>5. Drift'
    BY <1>2, <2>1 DEF Drift
  <2> QED BY <2>2, <2>3, <2>4, <2>5
<1>9. CASE HasClassifier
  <2>1. /\ outcomes' = LastOf(Append(outcomes, TRUE), MaxOutcomes)
        /\ samples' = LastOf(Append(samples, f), MaxSamples)
        /\ loaded' = loaded /\ reference' = reference
    BY <1>1, <1>9 DEF RecordPrediction, RecordOutcome, f
  <2>2. outcomes' \in Seq(BOOLEAN) /\ Len(outcomes') <= MaxOutcomes
    <3>1. outcomes \in Seq(BOOLEAN) /\ TRUE \in BOOLEAN /\ Len(outcomes) <= MaxOutcomes
      BY DEF Values
    <3>2. outcomes' \in Seq(BOOLEAN) /\ Len(outcomes') \in 1..MaxOutcomes
      BY ONLY <2>1, <3>1, ConstantTypes, WindowGrows
    <3> QED BY ONLY <3>2, ConstantTypes
  <2>3. /\ samples' \in Seq(Sample) /\ Len(samples') \in 1..MaxSamples
        /\ Len(samples') >= Len(samples)
        /\ samples' # <<>> /\ Last(samples') = f /\ samples'[Len(samples')] = f
        /\ Len(samples') > 1 => samples # <<>> /\ samples'[Len(samples') - 1] = Last(samples)
        /\ \E d \in {0, 1} : /\ Len(samples') + d = Len(samples) + 1
                            /\ \A i \in 1..(Len(samples') - 1) :
                                  d + i \in 1..Len(samples) /\ samples'[i] = samples[d + i]
    <3>1. samples \in Seq(Sample) /\ f \in Sample /\ Len(samples) <= MaxSamples
      BY <1>3 DEF Values
    <3>2. MaxSamples \in Nat \ {0}
      BY ConstantTypes
    <3>3. samples' = LastOf(Append(samples, f), MaxSamples)
      BY <2>1
    <3>4. samples' \in Seq(Sample) /\ Len(samples') \in 1..MaxSamples /\ Slides(samples, f, samples')
      BY ONLY <3>1, <3>2, <3>3, WindowGrows
    <3> QED BY <3>4 DEF Slides
  <2>4. Values'
    <3>1. Len(samples') <= MaxSamples
      BY <2>3, ConstantTypes
    <3> QED BY <1>2, <1>3, <1>5, <1>6, <2>1, <2>2, <2>3, <3>1 DEF Values
  <2>5. Modes'
    BY <1>2, <1>4, <1>7, <1>9 DEF Modes
  <2>6. Drift'
    <3>1. Len(samples') \in Nat /\ Len(samples) \in Nat /\ MinSamples \in Nat
      BY <2>3, ConstantTypes DEF Values
    <3>2. driftDetected => Len(samples') >= MinSamples
      <4>1. driftDetected => Len(samples) >= MinSamples
        BY DEF Drift
      <4>2. Len(samples') >= Len(samples)
        BY <2>3
      <4> QED BY ONLY <3>1, <4>1, <4>2
    <3>3. /\ driftDetected' = driftDetected /\ driftAlerts' = driftAlerts
          /\ reference' = reference
      BY <1>2, <2>1
    <3>4. /\ driftAlerts = IF driftDetected THEN 1 ELSE 0
          /\ driftDetected => reference
      BY DEF Drift
    <3> QED BY ONLY <3>2, <3>3, <3>4 DEF Drift
  <2>7. Rising'
    <3> DEFINE l == Len(samples')
               k == Len(samples)
    <3>1. PICK d \in {0, 1} : /\ l + d = k + 1
                              /\ \A i \in 1..(l - 1) :
                                    d + i \in 1..k /\ samples'[i] = samples[d + i]
      BY <2>3
    <3>2. /\ l \in Nat /\ k \in Nat /\ samples'[l] = f /\ Last(samples') = f
          /\ l > 1 => samples # <<>> /\ samples'[l - 1] = Last(samples)
      BY <2>3, ConstantTypes DEF Values
    <3>3. l <= submitted'
      <4> HIDE DEF l, k
      <4> QED BY ONLY <1>2, <1>6a, <3>1, <3>2 DEF k
    <3>4. submitted' >= WarmupRequests => 300 * Last(samples').requests <= countEma'
      <4>1. submitted' >= WarmupRequests => totalRequests' >= WarmupRequests
        BY ONLY <1>2, <1>6a
      <4> QED BY <1>3, <3>2, <4>1
    <3>5. ASSUME NEW i \in 1..(l - 1), submitted' - l + i >= WarmupRequests,
                 samples'[i + 1].burst
          PROVE  samples'[i].requests < samples'[i + 1].requests
      <4>1. CASE i = l - 1
        <5>1. l > 1 /\ i + 1 = l /\ submitted >= WarmupRequests
          <6> HIDE DEF l
          <6> QED BY ONLY <1>2, <1>6a, <3>2, <3>5, <4>1
        <5>2. samples'[i] = Last(samples) /\ samples'[i + 1] = f /\ samples # <<>>
          BY ONLY <3>2, <4>1, <5>1
        <5>3. Last(samples) \in Sample
          <6>1. samples \in Seq(Sample)
            BY DEF Values
          <6>2. Len(samples) \in 1..Len(samples)
            BY ONLY <5>2, <6>1
          <6> QED BY ONLY <6>1, <6>2 DEF Last
        <5>4. Last(samples).requests \in Nat /\ 300 * Last(samples).requests <= countEma
          BY <5>1, <5>2, <5>3 DEF Rising, Sample
        <5> QED BY <1>3, <3>5, <5>2, <5>4
      <4>2. CASE i # l - 1
        <5> HIDE DEF l, k
        <5>1. i \in 1..(l - 1) /\ i + 1 \in 1..(l - 1)
          BY ONLY <3>2, <3>5, <4>2
        <5>2. /\ d + i \in 1..k /\ samples'[i] = samples[d + i]
              /\ d + (i + 1) \in 1..k /\ samples'[i + 1] = samples[d + (i + 1)]
          BY ONLY <3>1, <5>1
        <5>3. /\ d + i \in 1..(k - 1) /\ d + (i + 1) = d + i + 1
              /\ submitted - k + (d + i) >= WarmupRequests
          BY ONLY <1>2, <1>6a, <3>1, <3>2, <3>5, <5>1, <5>2
        <5>4. \A j \in 1..(k - 1) : submitted - k + j >= WarmupRequests /\ samples[j + 1].burst
                                       => samples[j].requests < samples[j + 1].requests
          BY DEF Rising, BurstFeatureNeedsRise, NumberOf, k
        <5>5. samples[d + i + 1].burst
          BY ONLY <3>5, <5>2, <5>3
        <5>6. samples[d + i].requests < samples[d + i + 1].requests
          BY ONLY <5>3, <5>4, <5>5
        <5> QED BY ONLY <5>2, <5>3, <5>6
      <4> QED BY <4>1, <4>2
    <3> QED BY <1>6a, <3>3, <3>4, <3>5 DEF Rising, BurstFeatureNeedsRise, NumberOf
  <2> QED BY <2>4, <2>5, <2>6, <2>7
<1> QED BY <1>8, <1>9

LEMMA OtherStepsKeepInvariant ==
    ASSUME LearningInv, Forecast \/ Check \/ Tick \/ UNCHANGED learningVars
    PROVE  LearningInv'
<1> USE DEF LearningInv
<1>1. CASE Forecast
  <2>1. /\ forecastWait' = ForecastTicks /\ HasForecaster /\ ForecastCycle
        /\ UNCHANGED <<recent, countEma, totalRequests, loaded, reference, outcomes, samples,
                       mode, submitted, checkWait, driftDetected, driftAlerts, accuracyAlert>>
    BY <1>1 DEF Forecast, featureVars, classifierVars
  <2>2. ForecasterTypeOK'
    BY <2>1, ForecastStep DEF Values
  <2>3. Values'
    <3>1. forecastWait' \in 0..ForecastTicks
      BY <2>1, ConstantTypes
    <3>2. FeatureTypeOK'
      BY <2>1 DEF Values, FeatureTypeOK
    <3> QED BY <2>1, <2>2, <3>1, <3>2 DEF Values
  <2>4. Modes'
    BY <2>1 DEF Modes, HasClassifier, HasForecaster
  <2>5. Rising' /\ Drift'
    BY <2>1 DEF Rising, BurstFeatureNeedsRise, NumberOf, Drift
  <2> QED BY <2>3, <2>4, <2>5
<1>2. CASE Check
  <2>1. /\ checkWait' = CheckTicks
        /\ UNCHANGED <<recent, countEma, totalRequests, loaded, reference, outcomes, samples, gru,
                       heavyCount, points, prediction, burst, daaBurst, mode, submitted,
                       forecastWait>>
    BY <1>2 DEF Check, featureVars, classifierVars, forecasterVars
  <2>2. accuracyAlert' \in BOOLEAN /\ driftDetected' \in BOOLEAN
    BY <1>2 DEF Check, Values, DriftDetected
  <2>3. Values'
    <3>1. checkWait' \in 0..CheckTicks
      BY <2>1, ConstantTypes
    <3>2. FeatureTypeOK' /\ ForecasterTypeOK'
      BY <2>1 DEF Values, FeatureTypeOK, ForecasterTypeOK
    <3> QED BY <2>1, <2>2, <3>1, <3>2 DEF Values
  <2>4. Modes'
    BY <2>1 DEF Modes, HasClassifier, HasForecaster
  <2>5. Rising'
    BY <2>1 DEF Rising, BurstFeatureNeedsRise, NumberOf
  <2>6. driftDetected => DriftDetected
    BY NoLatencyIsDrift DEF Drift, Values
  <2>7. CASE HasClassifier
    <3>1. /\ driftDetected' = DriftDetected
          /\ IF DriftDetected /\ ~driftDetected THEN Alert ELSE driftAlerts' = driftAlerts
      BY <1>2, <2>7 DEF Check
    <3>2. driftAlerts' = IF driftDetected' THEN 1 ELSE 0
      <4>1. CASE driftDetected
        BY <2>6, <3>1, <4>1 DEF Drift
      <4>2. CASE ~driftDetected /\ DriftDetected
        BY <3>1, <4>2, ConstantTypes DEF Drift, Alert
      <4>3. CASE ~DriftDetected
        BY <2>6, <3>1, <4>3 DEF Drift
      <4> QED BY <4>1, <4>2, <4>3
    <3>3. driftDetected' => reference' /\ Len(samples') >= MinSamples
      <4>1. samples \in Seq(Sample)
        BY DEF Values
      <4>2. samples' = samples /\ reference' = reference
        BY <2>1
      <4> QED BY ONLY <3>1, <4>1, <4>2, DriftNeedsSamples
    <3>4. Drift'
      BY ONLY <3>2, <3>3 DEF Drift
    <3> QED BY <2>3, <2>4, <2>5, <3>4
  <2>8. CASE ~HasClassifier
    BY <1>2, <2>1, <2>3, <2>4, <2>5, <2>8 DEF Check, Drift
  <2> QED BY <2>7, <2>8
<1>3. CASE Tick
  <2>1. /\ checkWait > 0 /\ (HasForecaster => forecastWait > 0)
        /\ checkWait' = checkWait - 1
        /\ forecastWait' = IF HasForecaster THEN forecastWait - 1 ELSE 0
        /\ recent' = [a \in Age |-> IF a = 0 THEN 0 ELSE recent[a - 1]]
        /\ UNCHANGED <<countEma, totalRequests, loaded, reference, outcomes, samples, gru,
                       heavyCount, points, prediction, burst, daaBurst, mode, submitted,
                       driftDetected, driftAlerts, accuracyAlert>>
    BY <1>3 DEF Tick, WindowSlides, classifierVars, forecasterVars
  <2>2. recent' \in [Age -> Nat]
    <3>1. \A a \in Age : a # 0 => a - 1 \in Age
      BY ConstantTypes DEF Age
    <3> QED BY <2>1, <3>1 DEF Values, FeatureTypeOK
  <2>3. Values'
    <3>1. checkWait' \in 0..CheckTicks /\ forecastWait' \in 0..ForecastTicks
      <4>1. checkWait \in 0..CheckTicks /\ forecastWait \in 0..ForecastTicks
        BY DEF Values
      <4> QED BY ONLY <2>1, <4>1, ConstantTypes
    <3>2. FeatureTypeOK'
      BY <2>1, <2>2 DEF Values, FeatureTypeOK
    <3>3. ForecasterTypeOK'
      BY <2>1 DEF Values, ForecasterTypeOK
    <3> QED BY <2>1, <3>1, <3>2, <3>3 DEF Values
  <2>4. Modes'
    BY <2>1 DEF Modes, HasClassifier, HasForecaster
  <2>5. Rising' /\ Drift'
    BY <2>1 DEF Rising, BurstFeatureNeedsRise, NumberOf, Drift
  <2> QED BY <2>3, <2>4, <2>5
<1>4. CASE UNCHANGED learningVars
  BY <1>4 DEF learningVars, featureVars, classifierVars, forecasterVars, loopVars, Values,
     FeatureTypeOK, ForecasterTypeOK, Modes, HasClassifier, HasForecaster, Rising,
     BurstFeatureNeedsRise, NumberOf, Drift
<1> QED BY <1>1, <1>2, <1>3, <1>4

\* Every reachable state is one of the invariant.
THEOREM LearningInvariant == Spec => []LearningInv
<1>1. LearningInv /\ [Next]_learningVars => LearningInv'
  BY SubmitKeepsInvariant, OtherStepsKeepInvariant DEF Next
<1> QED BY <1>1, InvariantHoldsFirst, PTL DEF Spec

\* The types, the bounds of the three windows and what a mode leaves alone.
THEOREM LearningTypes == Spec => []LearningTypeOK
<1>1. ASSUME LearningInv PROVE LearningTypeOK
  <2> USE <1>1 DEF LearningInv
  <2>1. ClassifierTypeOK
    <3>1. Sample \subseteq [latency : Nat, queue : Nat, requests : Nat, burst : BOOLEAN]
      BY DEF Sample
    <3>2. samples \in Seq([latency : Nat, queue : Nat, requests : Nat, burst : BOOLEAN])
      <4> DEFINE T == [latency : Nat, queue : Nat, requests : Nat, burst : BOOLEAN]
      <4>1. samples \in Seq(Sample) /\ Sample \subseteq T
        BY <3>1 DEF Values
      <4> HIDE DEF T
      <4>2. samples \in Seq(T)
        BY <4>1
      <4> QED BY <4>2 DEF T
    <3> QED BY <3>2 DEF Values, ClassifierTypeOK
  <2>2. driftAlerts \in 0..MaxAlerts
    <3>1. driftAlerts \in {0, 1}
      BY DEF Drift
    <3> QED BY ONLY <3>1, ConstantTypes
  <2> QED BY <2>1, <2>2 DEF Values, Modes, LearningTypeOK
<1> QED BY <1>1, LearningInvariant, PTL

\* A request flagged as a burst, other than the one that ends the warm-up, has more requests
\* in its window than the request before it, whatever the window's length and however many
\* requests there are.
THEOREM BurstsNeedARise == Spec => []BurstFeatureNeedsRise
<1>1. LearningInv => BurstFeatureNeedsRise
  BY DEF LearningInv, Rising
<1> QED BY <1>1, LearningInvariant, PTL

\* However often the optimizer checks, the drift alert is raised once: no sample has a
\* latency, so what shows a drift at one check shows it at every later one.
THEOREM DriftIsAlertedOnce == Spec => []DriftAlertedOnce
<1>1. LearningInv => DriftAlertedOnce
  BY DEF LearningInv, Drift, DriftAlertedOnce, Values
<1> QED BY <1>1, LearningInvariant, PTL

=============================================================================
