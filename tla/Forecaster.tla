------------------------------ MODULE Forecaster ------------------------------
(***************************************************************************)
(* The traffic forecaster (coordinator/ml/forecaster.py): it counts the    *)
(* Heavy requests of each interval, predicts their rate from a window of   *)
(* those counts, by a GRU, which may answer anything, or by a moving       *)
(* average, and tells the DAA when a burst is coming and when it no longer *)
(* is.  It looks for a query_heavy_counts of the InfluxDB client and for a *)
(* _redis of the ring cache, which have neither: the window is its own and *)
(* nothing is written.                                                     *)
(***************************************************************************)
EXTENDS Integers, Sequences

CONSTANTS
    WindowSize,     \* the counts it keeps (60)
    WarmupPoints,   \* the counts the GRU needs (60)
    RecentPoints,   \* the counts the prediction is compared with (10)
    GruValues       \* what the GRU may predict, in thousandths

ASSUME ForecasterAssumption ==
    /\ {WindowSize, WarmupPoints, RecentPoints} \subseteq Nat \ {0}
    /\ GruValues \subseteq Nat

VARIABLES
    gru,            \* _loaded
    heavyCount,     \* _total_requests_heavy
    points,         \* _window
    prediction,     \* _last_prediction, in thousandths
    burst,          \* _burst_imminent
    daaBurst        \* what the DAA was told

forecasterVars == <<gru, heavyCount, points, prediction, burst, daaBurst>>

Milli == 1000

ForecasterInit ==
    /\ gru \in BOOLEAN
    /\ heavyCount = 0 /\ points = <<>>
    /\ prediction = 0
    /\ burst = FALSE /\ daaBurst = FALSE

RecordHeavyRequest == heavyCount' = heavyCount + 1

\* _ema_fallback, in thousandths.
EmaFallback(w) ==
    LET ema[i \in 1..Len(w)] ==
            IF i = 1 THEN Milli * w[1] ELSE (3 * Milli * w[i] + 7 * ema[i - 1]) \div 10
    IN  IF w = <<>> THEN 0 ELSE ema[Len(w)]

\* The average of the last counts of w, in thousandths.
RecentAverage(w) ==
    LET n == IF Len(w) > RecentPoints THEN RecentPoints ELSE Len(w)
        sum[i \in 0..n] == IF i = 0 THEN 0 ELSE sum[i - 1] + w[Len(w) - i + 1]
    IN  (Milli * sum[n]) \div n

\* The window at the next cycle.
NextWindow ==
    LET w == Append(points, heavyCount)
    IN  IF Len(w) > WindowSize THEN Tail(w) ELSE w

\* _gru_predict: the model may answer anything, and falls back when it fails.
GruPredictions(w) == GruValues \cup {EmaFallback(w)}

Predictions(w) == IF gru /\ Len(w) >= WarmupPoints THEN GruPredictions(w) ELSE {EmaFallback(w)}

\* More than half as much again as lately, which counts as 0.1 at least.
BurstImminent(p, w) ==
    LET average == RecentAverage(w)
    IN  10 * p > 15 * (IF average > 100 THEN average ELSE 100)

\* Broken variant of Notify: the DAA hears of bursts, not of their end.
NotifyOfBursts(before, after) == daaBurst' = (daaBurst \/ after)

\* The DAA is told when the flag changes.
Notify(before, after) == daaBurst' = IF before # after THEN after ELSE daaBurst

\* _forecast_cycle.
ForecastCycle ==
    LET w == NextWindow IN
    \E p \in Predictions(w) :
        /\ points' = w /\ heavyCount' = 0
        /\ prediction' = p
        /\ burst' = BurstImminent(p, w)
        /\ Notify(burst, BurstImminent(p, w))
        /\ UNCHANGED gru

ForecasterTypeOK ==
    /\ gru \in BOOLEAN
    /\ heavyCount \in Nat
    /\ points \in Seq(Nat) /\ Len(points) <= WindowSize
    /\ prediction \in Nat
    /\ burst \in BOOLEAN /\ daaBurst \in BOOLEAN
=============================================================================
