--------------------------- MODULE ControlLoopProofs ---------------------------
(***************************************************************************)
(* Theorems about ControlLoop, for any nodes, bases, loads, intervals and  *)
(* thresholds that satisfy ControlAssumption.                              *)
(***************************************************************************)
EXTENDS ControlLoop, TLAPS

-----------------------------------------------------------------------------
\* The arithmetic of the DAA.

\* Max and Min of two integers.
LEMMA MaxMinOfTwo ==
    ASSUME NEW a \in Int, NEW b \in Int
    PROVE  /\ Max({a, b}) = IF a >= b THEN a ELSE b
           /\ Min({a, b}) = IF a <= b THEN a ELSE b
<1>1. \E x \in {a, b} : \A y \in {a, b} : x >= y
  OBVIOUS
<1>2. \E x \in {a, b} : \A y \in {a, b} : x <= y
  OBVIOUS
<1>3. Max({a, b}) \in {a, b} /\ \A y \in {a, b} : Max({a, b}) >= y
  BY <1>1 DEF Max
<1>4. Min({a, b}) \in {a, b} /\ \A y \in {a, b} : Min({a, b}) <= y
  BY <1>2 DEF Min
<1> QED BY <1>3, <1>4

\* Multiplying by a natural number keeps the order.
LEMMA ProductMonotone ==
    ASSUME NEW a \in Nat, NEW b \in Nat, NEW c \in Nat, a <= b
    PROVE  a * c \in Nat /\ b * c \in Nat /\ a * c <= b * c
<1>1. (b - a) * c >= 0
  OBVIOUS
<1>2. (b - a) * c = b * c - a * c
  OBVIOUS
<1> QED BY <1>1, <1>2

\* The factors are positive and fall as the load rises, across the thresholds.
LEMMA CpuFactorFalls ==
    ASSUME NEW x \in Int, 0 <= x, NEW y \in Int, y <= 100, x <= y
    PROVE  CpuFactor(x) \in Nat /\ CpuFactor(y) \in Nat /\ CpuFactor(y) <= CpuFactor(x)
<1>1. ASSUME NEW z \in 0..100
      PROVE  CpuFactor(z) = IF z < 50 THEN 1300 - 6 * z
                            ELSE IF z > 80 THEN (IF 500 >= 1000 - 25 * (z - 80)
                                                 THEN 500 ELSE 1000 - 25 * (z - 80))
                            ELSE 1000
  <2> DEFINE w == 1000 - 25 * (z - 80)
  <2>1. w \in Int
    OBVIOUS
  <2> HIDE DEF w
  <2>2. Max({500, w}) = IF 500 >= w THEN 500 ELSE w
    BY <2>1, MaxMinOfTwo
  <2> QED BY <2>2 DEF CpuFactor, w
<1>2. x \in 0..100 /\ y \in 0..100 /\ x <= y
  OBVIOUS
<1> QED BY <1>1, <1>2

LEMMA QueueFactorFalls ==
    ASSUME NEW x \in Int, 0 <= x, NEW y \in Int, y <= 100, x <= y
    PROVE  QueueFactor(x) \in Nat /\ QueueFactor(y) \in Nat /\ QueueFactor(y) <= QueueFactor(x)
<1>1. ASSUME NEW z \in 0..100
      PROVE  QueueFactor(z) = IF z < 20 THEN 1200 - 10 * z
                            ELSE IF z > 80 THEN (IF 600 >= 1000 - 20 * (z - 80)
                                                 THEN 600 ELSE 1000 - 20 * (z - 80))
                            ELSE 1000
  <2> DEFINE w == 1000 - 20 * (z - 80)
  <2>1. w \in Int
    OBVIOUS
  <2> HIDE DEF w
  <2>2. Max({600, w}) = IF 600 >= w THEN 600 ELSE w
    BY <2>1, MaxMinOfTwo
  <2> QED BY <2>2 DEF QueueFactor, w
<1>2. x \in 0..100 /\ y \in 0..100 /\ x <= y
  OBVIOUS
<1> QED BY <1>1, <1>2

\* Rounding halves to even keeps the order.
LEMMA RoundingMonotone ==
    ASSUME NEW b \in Nat \ {0}, NEW a \in Nat, NEW c \in Nat, a <= c
    PROVE  /\ RoundHalfEven(a, b) \in Nat
           /\ RoundHalfEven(a, b) <= RoundHalfEven(c, b)
<1>1. PICK q1 \in Nat, r1 \in 0..(b - 1) : q1 = a \div b /\ r1 = a % b /\ a = b * q1 + r1
  OBVIOUS
<1>2. PICK q2 \in Nat, r2 \in 0..(b - 1) : q2 = c \div b /\ r2 = c % b /\ c = b * q2 + r2
  OBVIOUS
<1>3. q1 <= q2
  <2> SUFFICES ASSUME q2 + 1 <= q1 PROVE FALSE
    OBVIOUS
  <2>1. (q2 + 1) * b <= q1 * b
    BY ProductMonotone
  <2>2. (q2 + 1) * b = b * q2 + b /\ q1 * b = b * q1
    OBVIOUS
  <2> QED BY <1>1, <1>2, <2>1, <2>2
<1>4. q1 = q2 => r1 <= r2
  BY <1>1, <1>2
<1>5. /\ RoundHalfEven(a, b) = IF 2 * r1 > b \/ (2 * r1 = b /\ q1 % 2 = 1) THEN q1 + 1 ELSE q1
      /\ RoundHalfEven(c, b) = IF 2 * r2 > b \/ (2 * r2 = b /\ q2 % 2 = 1) THEN q2 + 1 ELSE q2
  BY <1>1, <1>2 DEF RoundHalfEven
<1> QED BY <1>3, <1>4, <1>5

\* The count the DAA computes, before the clamps.
RawVnodes(base, l, b) ==
    RoundHalfEven(base * CpuFactor(l.cpu) * QueueFactor(l.queue) * (IF b THEN 7 ELSE 10),
                  10000000)

\* The percentages.
Loads100 == [cpu : 0..100, queue : 0..100]

LEMMA RawVnodesFall ==
    ASSUME NEW base \in Nat, NEW l \in Loads100, NEW m \in Loads100, NEW b \in BOOLEAN,
           l.cpu <= m.cpu, l.queue <= m.queue
    PROVE  /\ RawVnodes(base, m, b) \in Nat /\ RawVnodes(base, l, b) \in Nat
           /\ RawVnodes(base, m, b) <= RawVnodes(base, l, b)
<1>1. /\ l.cpu \in 0..100 /\ l.queue \in 0..100 /\ m.cpu \in 0..100 /\ m.queue \in 0..100
  BY DEF Loads100
<1>2. PICK lc \in 0..100, mc \in 0..100 : lc = l.cpu /\ mc = m.cpu /\ lc <= mc
  BY <1>1
<1>3. PICK lq \in 0..100, mq \in 0..100 : lq = l.queue /\ mq = m.queue /\ lq <= mq
  BY <1>1
<1>4. PICK cl \in Nat, cm \in Nat : cl = CpuFactor(lc) /\ cm = CpuFactor(mc) /\ cm <= cl
  <2>1. lc \in Int /\ 0 <= lc /\ mc \in Int /\ mc <= 100 /\ lc <= mc
    BY <1>2
  <2>2. CpuFactor(lc) \in Nat /\ CpuFactor(mc) \in Nat /\ CpuFactor(mc) <= CpuFactor(lc)
    BY ONLY <2>1, CpuFactorFalls
  <2> QED BY <2>2
<1>5. PICK ql \in Nat, qm \in Nat : ql = QueueFactor(lq) /\ qm = QueueFactor(mq) /\ qm <= ql
  <2>1. lq \in Int /\ 0 <= lq /\ mq \in Int /\ mq <= 100 /\ lq <= mq
    BY <1>3
  <2>2. QueueFactor(lq) \in Nat /\ QueueFactor(mq) \in Nat /\ QueueFactor(mq) <= QueueFactor(lq)
    BY ONLY <2>1, QueueFactorFalls
  <2> QED BY <2>2
<1>6. cm <= cl /\ qm <= ql
  BY <1>4, <1>5
<1>7. PICK k \in Nat : k = IF b THEN 7 ELSE 10
  OBVIOUS
<1>8. base * cm \in Nat /\ base * cl \in Nat /\ base * cm <= base * cl
  <2>1. cm * base <= cl * base /\ cm * base \in Nat /\ cl * base \in Nat
    BY <1>6, ProductMonotone
  <2> QED BY <2>1
<1>9. PICK x \in Nat : x = base * cm
  BY <1>8
<1>10. PICK y \in Nat : y = base * cl
  BY <1>8
<1>11. x * qm \in Nat /\ y * ql \in Nat /\ x * qm <= y * ql
  <2>1. x <= y
    BY <1>8, <1>9, <1>10
  <2>2. x * qm <= y * qm /\ x * qm \in Nat /\ y * qm \in Nat
    BY <2>1, ProductMonotone
  <2>3. qm * y <= ql * y /\ ql * y \in Nat
    BY <1>6, ProductMonotone
  <2>4. qm * y = y * qm /\ ql * y = y * ql
    OBVIOUS
  <2> QED BY <2>2, <2>3, <2>4
<1>12. x * qm * k \in Nat /\ y * ql * k \in Nat /\ x * qm * k <= y * ql * k
  BY <1>11, ProductMonotone
<1>13. PICK d \in Nat \ {0} : d = 10000000
  BY SMT
<1>14. /\ RawVnodes(base, m, b) = RoundHalfEven(x * qm * k, d)
       /\ RawVnodes(base, l, b) = RoundHalfEven(y * ql * k, d)
  BY SMT, <1>2, <1>3, <1>4, <1>5, <1>7, <1>9, <1>10, <1>13 DEF RawVnodes
<1>15. /\ RoundHalfEven(x * qm * k, d) \in Nat /\ RoundHalfEven(y * ql * k, d) \in Nat
       /\ RoundHalfEven(x * qm * k, d) <= RoundHalfEven(y * ql * k, d)
  <2>1. \A z \in Nat : z <= z
    OBVIOUS
  <2> HIDE <1>13
  <2> QED BY <1>12, <2>1, RoundingMonotone
<1> QED BY <1>14, <1>15

\* What a cycle leaves is within the clamps, and falls as the load rises.
LEMMA NewVnodesFall ==
    ASSUME NEW base \in Nat, MinCount <= base,
           NEW l \in Loads100, NEW m \in Loads100, NEW b \in BOOLEAN,
           l.cpu <= m.cpu, l.queue <= m.queue
    PROVE  /\ NewVnodes(base, l, b) \in MinCount..(2 * base)
           /\ NewVnodes(base, m, b) <= NewVnodes(base, l, b)
<1>1. PICK rl \in Nat : rl = RawVnodes(base, l, b)
  BY RawVnodesFall
<1>2. PICK rm \in Nat : rm = RawVnodes(base, m, b)
  BY RawVnodesFall
<1>3. rm <= rl
  BY <1>1, <1>2, RawVnodesFall
<1>4. MinCount \in Nat /\ 2 * base \in Nat /\ MinCount <= 2 * base
  BY ControlAssumption
<1>5. /\ NewVnodes(base, l, b) = Max({MinCount, Min({rl, 2 * base})})
      /\ NewVnodes(base, m, b) = Max({MinCount, Min({rm, 2 * base})})
  BY SMT, <1>1, <1>2 DEF NewVnodes, RawVnodes
<1>6. PICK d \in Nat : d = 2 * base
  BY <1>4
<1>7. /\ Min({rl, d}) = IF rl <= d THEN rl ELSE d
      /\ Min({rm, d}) = IF rm <= d THEN rm ELSE d
  BY MaxMinOfTwo
<1>8. PICK vl \in Nat, vm \in Nat : vl = Min({rl, d}) /\ vm = Min({rm, d})
  BY <1>7
<1>9. /\ Max({MinCount, vl}) = IF MinCount >= vl THEN MinCount ELSE vl
      /\ Max({MinCount, vm}) = IF MinCount >= vm THEN MinCount ELSE vm
  BY <1>4, MaxMinOfTwo
<1> QED BY <1>3, <1>4, <1>5, <1>6, <1>7, <1>8, <1>9

-----------------------------------------------------------------------------
\* The inductive invariant: the types, and that the vnodes are those given at startup
\* until the first cycle, and then those the last cycle computed from what it judged
\* by, whatever was polled, forecast or checked since.
Steering ==
    \/ judged = [metrics |-> [n \in Node |-> None], burst |-> FALSE] /\ vnodes = StartVnodes
    \/ /\ judged \in [metrics : [Node -> Load], burst : BOOLEAN]
       /\ vnodes = [n \in Node |-> NewVnodes(Base[n], judged.metrics[n], judged.burst)]

Environment ==
    /\ load \in [Node -> Load] /\ up \subseteq Node /\ changes \in 0..MaxChanges

Polling ==
    /\ round \in Seq(Node)
    /\ answer \in Load \cup {None} /\ cached \in [Node -> Load]

Clocks ==
    /\ burst \in BOOLEAN /\ pending \in BOOLEAN /\ alerted \subseteq Node
    /\ alertSince \in [Node -> -1..AlertDuration]
    /\ wait \in [Task -> Nat]

ControlInv == Environment /\ Polling /\ Clocks /\ Steering

LEMMA InitInv == Init => ControlInv
<1> SUFFICES ASSUME Init PROVE ControlInv
  OBVIOUS
<1> USE ControlAssumption DEF Init
<1>1. Environment /\ Polling /\ Steering
  BY DEF Environment, Polling, Steering
<1>2. AlertDuration \in Nat
  OBVIOUS
<1>3. alertSince \in [Node -> -1..AlertDuration] /\ wait \in [Task -> Nat]
  BY <1>2
<1>4. Clocks
  BY <1>3 DEF Clocks
<1> QED BY <1>1, <1>4 DEF ControlInv

\* The clock of an alert stops at AlertDuration.
LEMMA CappedClock ==
    ASSUME NEW a \in Nat
    PROVE  Min({a + 1, AlertDuration}) \in -1..AlertDuration
<1>1. AlertDuration \in Nat
  BY ControlAssumption
<1>2. PICK x \in Nat : x = a + 1
  OBVIOUS
<1>3. Min({x, AlertDuration}) = IF x <= AlertDuration THEN x ELSE AlertDuration
  BY <1>1, MaxMinOfTwo
<1> QED BY <1>1, <1>2, <1>3

LEMMA StepInv == ControlInv /\ [Next]_controlVars => ControlInv'
<1> SUFFICES ASSUME ControlInv, [Next]_controlVars PROVE ControlInv'
  OBVIOUS
<1> USE ControlAssumption DEF ControlInv, Environment, Polling, Clocks
<1>1. CASE UNCHANGED controlVars
  BY <1>1 DEF controlVars, Steering
<1>2. CASE NodesChange
  <2>1. Environment'
    <3>1. changes' \in 0..MaxChanges
      BY <1>2 DEF NodesChange
    <3>2. CASE \E n \in Node, l \in Load : load' = [load EXCEPT ![n] = l] /\ UNCHANGED up
      <4>1. load \in [Node -> Load] /\ up \subseteq Node
        OBVIOUS
      <4>2. load' \in [Node -> Load] /\ up' = up
        BY ONLY <3>2, <4>1
      <4> QED BY <3>1, <4>1, <4>2
    <3>3. CASE \E n \in Node : /\ up' = (IF n \in up THEN up \ {n} ELSE up \cup {n})
                             /\ UNCHANGED load
      BY <3>1, <3>3
    <3> QED BY <1>2, <3>2, <3>3 DEF NodesChange
  <2> QED BY <1>2, <2>1 DEF NodesChange, Steering
<1>3. CASE BurstChanges
  <2>1. changes' \in 0..MaxChanges
    BY <1>3 DEF BurstChanges
  <2> QED BY <1>3, <2>1 DEF BurstChanges, Steering
<1>4. CASE Tick
  <2>1. wait' \in [Task -> Nat]
    BY <1>4 DEF Tick
  <2>2. alertSince' \in [Node -> -1..AlertDuration]
    <3>1. ASSUME NEW n \in Node, alertSince[n] # -1
          PROVE  Min({alertSince[n] + 1, AlertDuration}) \in -1..AlertDuration
      <4>1. alertSince[n] \in Nat
        BY <3>1
      <4> QED BY ONLY <4>1, CappedClock
    <3> QED BY <1>4, <3>1 DEF Tick
  <2> QED BY <1>4, <2>1, <2>2 DEF Tick, Steering
<1>5. CASE PollWakes
  BY <1>5 DEF PollWakes, Steering, Task
<1>6. CASE NodeAnswers
  <2>1. Head(round) \in Node
    BY <1>6 DEF NodeAnswers
  <2> QED BY <1>6, <2>1 DEF NodeAnswers, Steering
<1>7. ASSUME NextPoll, round # <<>>
      PROVE  round' \in Seq(Node) /\ answer' = None /\ wait' \in [Task -> Nat]
  <2>1. Tail(round) \in Seq(Node)
    BY <1>7
  <2>2. (IF Len(round) > 1 THEN FetchTimeout ELSE PollInterval) \in Nat
    OBVIOUS
  <2> QED BY <1>7, <2>1, <2>2 DEF NextPoll
<1>8. CASE PollSucceeds
  <2>1. Head(round) \in Node /\ answer \in Load
    BY <1>8 DEF PollSucceeds
  <2> QED BY <1>7, <1>8, <2>1 DEF PollSucceeds, Steering
<1>9. CASE PollFails
  BY <1>7, <1>9 DEF PollFails, Steering
<1>10. CASE DaaRuns
  <2>1. Steering'
    BY <1>10 DEF DaaRuns, Steering
  <2>2. wait' \in [Task -> Nat]
    BY <1>10 DEF DaaRuns
  <2> QED BY <1>10, <2>1, <2>2 DEF DaaRuns
<1>11. CASE FeedbackChecks
  <2>1. alertSince' \in [Node -> -1..AlertDuration] /\ alerted' \subseteq Node
    BY <1>11 DEF FeedbackChecks, AlertClocks, Hot, LongHot
  <2>2. pending' \in BOOLEAN /\ wait' \in [Task -> Nat]
    <3>1. Unbalanced(cached) \in BOOLEAN
      BY DEF Unbalanced
    <3> QED BY <1>11, <3>1 DEF FeedbackChecks
  <2> QED BY <1>11, <2>1, <2>2 DEF FeedbackChecks, Steering
<1> QED BY <1>1, <1>2, <1>3, <1>4, <1>5, <1>6, <1>8, <1>9, <1>10, <1>11 DEF Next

THEOREM ControlInvariant == Spec => []ControlInv
BY InitInv, StepInv, PTL DEF Spec

-----------------------------------------------------------------------------
\* The loads are percentages, so that an answer is never None.
LEMMA LoadFacts == Load \subseteq Loads100 /\ None \notin Load
<1>1. Load \subseteq Loads100
  BY ControlAssumption DEF Loads100
<1>2. None.cpu = -1 /\ \A l \in Loads100 : l.cpu \in 0..100
  BY DEF None, Loads100
<1>3. -1 \notin 0..100
  OBVIOUS
<1> QED BY <1>1, <1>2, <1>3

\* The variables have their types, and no metrics, forecast or order of the loops
\* makes a cycle give a node fewer vnodes than the minimum or more than twice its base.
THEOREM ControlTypes == Spec => []ControlTypeOK
<1>1. ASSUME ControlInv PROVE ControlTypeOK
  <2>1. ASSUME NEW n \in Node
        PROVE  vnodes[n] = StartVnodes[n] \/ vnodes[n] \in MinCount..(2 * Base[n])
    <3>1. CASE vnodes = StartVnodes
      BY <3>1
    <3>2. CASE /\ judged \in [metrics : [Node -> Load], burst : BOOLEAN]
               /\ vnodes = [m \in Node |-> NewVnodes(Base[m], judged.metrics[m], judged.burst)]
      <4>1. judged.metrics[n] \in Loads100 /\ judged.burst \in BOOLEAN
        BY <3>2, LoadFacts
      <4>2. judged.metrics[n].cpu \in Int /\ judged.metrics[n].queue \in Int
        BY <4>1 DEF Loads100
      <4>3. Base[n] \in Nat /\ MinCount <= Base[n]
        BY ControlAssumption
      <4>4. NewVnodes(Base[n], judged.metrics[n], judged.burst) \in MinCount..(2 * Base[n])
        BY <4>1, <4>2, <4>3, NewVnodesFall
      <4> QED BY <3>2, <4>4
    <3> QED BY <1>1, <3>1, <3>2 DEF ControlInv, Steering
  <2> QED BY <1>1, <2>1 DEF ControlInv, Environment, Polling, Clocks, ControlTypeOK
<1> QED BY <1>1, ControlInvariant, PTL

\* Whatever the bases and the loads, of two nodes with one base the DAA never gives
\* the more loaded one more vnodes.
THEOREM LoadIsMonotone == Spec => []LessLoadedGetsMore
<1>1. ASSUME ControlInv PROVE LessLoadedGetsMore
  <2> DEFINE m == judged.metrics
  <2> SUFFICES ASSUME NEW a \in Node, NEW b \in Node, m[a] # None, Base[a] = Base[b],
                      m[a].cpu <= m[b].cpu, m[a].queue <= m[b].queue
               PROVE  vnodes[a] >= vnodes[b]
    BY DEF LessLoadedGetsMore
  <2>1. /\ judged \in [metrics : [Node -> Load], burst : BOOLEAN]
        /\ vnodes = [n \in Node |-> NewVnodes(Base[n], m[n], judged.burst)]
    BY <1>1 DEF ControlInv, Steering
  <2>2. m[a] \in Loads100 /\ m[b] \in Loads100 /\ judged.burst \in BOOLEAN
    BY <2>1, LoadFacts
  <2>3. Base[a] \in Nat /\ MinCount <= Base[a] /\ MinCount \in Nat
    BY ControlAssumption
  <2>4. m[b].cpu \in Int /\ m[b].queue \in Int
    BY <2>2 DEF Loads100
  <2>5. /\ NewVnodes(Base[a], m[a], judged.burst) \in MinCount..(2 * Base[a])
        /\ NewVnodes(Base[a], m[b], judged.burst) \in MinCount..(2 * Base[a])
        /\ NewVnodes(Base[a], m[b], judged.burst) <= NewVnodes(Base[a], m[a], judged.burst)
    BY <2>2, <2>3, <2>4, NewVnodesFall
  <2>6. /\ vnodes[a] = NewVnodes(Base[a], m[a], judged.burst)
        /\ vnodes[b] = NewVnodes(Base[a], m[b], judged.burst)
    BY <2>1
  <2> QED BY <2>3, <2>5, <2>6
<1> QED BY <1>1, ControlInvariant, PTL

\* A cycle that judges by what the last one judged by leaves every count as it is.
THEOREM CyclesDoNotRatchet == Spec => NoRatchet
<1>1. ASSUME ControlInv, Next, judged' = judged PROVE vnodes' = vnodes
  <2>1. CASE DaaRuns
    <3>1. /\ judged' = [metrics |-> cached, burst |-> burst]
          /\ vnodes' = [n \in Node |-> NewVnodes(Base[n], cached[n], burst)]
          /\ cached \in [Node -> Load]
      BY <1>1, <2>1 DEF DaaRuns, ControlInv, Polling
    <3>2. judged.metrics = cached /\ judged.burst = burst
      BY <1>1, <3>1
    <3>3. CASE judged = [metrics |-> [n \in Node |-> None], burst |-> FALSE] /\ vnodes = StartVnodes
      <4>1. \A n \in Node : cached[n] = None
        BY <3>2, <3>3
      <4>2. Node = {}
        BY <3>1, <4>1, LoadFacts
      <4> QED BY <3>1, <3>3, <4>2, ControlAssumption
    <3>4. CASE vnodes = [n \in Node |-> NewVnodes(Base[n], judged.metrics[n], judged.burst)]
      BY <3>1, <3>2, <3>4
    <3> QED BY <1>1, <3>3, <3>4 DEF ControlInv, Steering
  <2>2. CASE ~DaaRuns
    BY <1>1, <2>2 DEF Next, NodesChange, BurstChanges, Tick, PollWakes, NodeAnswers,
                      PollSucceeds, PollFails, FeedbackChecks
  <2> QED BY <2>1, <2>2
<1>2. ControlInv /\ [Next]_controlVars => [judged' = judged => vnodes' = vnodes]_controlVars
  BY <1>1
<1> QED BY <1>2, ControlInvariant, PTL DEF Spec, NoRatchet
=============================================================================
