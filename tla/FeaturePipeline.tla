---------------------------- MODULE FeaturePipeline ----------------------------
(***************************************************************************)
(* The features of a request that depend on earlier ones                   *)
(* (coordinator/intake/feature_pipeline.py): the requests of the last five *)
(* seconds, and whether they are a burst against their moving average.     *)
(* The router passes neither a latency, a queue depth nor a client, and    *)
(* nobody records errors or cache results, so the features made of those   *)
(* keep their first value.                                                 *)
(***************************************************************************)
EXTENDS Integers, Sequences

CONSTANTS
    WindowTicks,        \* the five seconds, in ticks
    WarmupRequests      \* the requests before the average is kept (10)

ASSUME FeatureAssumption == {WindowTicks, WarmupRequests} \subseteq Nat \ {0}

VARIABLES
    recent,         \* _request_count_window: how many requests are how many ticks old
    countEma,       \* _request_count_ema, in thousandths
    totalRequests   \* _total_requests, as far as it is compared

featureVars == <<recent, countEma, totalRequests>>

Age == 0..(WindowTicks - 1)

Unit == 1000

\* A moving average with the smoothing factor of the code, 0.3.
Smoothed(value, average) == (3 * value + 7 * average) \div 10

FeatureInit ==
    /\ recent = [a \in Age |-> 0]
    /\ countEma = 0 /\ totalRequests = 0

\* _get_requests_last_5s, over the window w.
WindowCount(w) ==
    LET count[a \in 0..WindowTicks] == IF a = 0 THEN 0 ELSE count[a - 1] + w[a - 1]
    IN  count[WindowTicks]

\* Broken variant of IsBurst: the window is compared with the average itself.
IsBurstOverAverage(n, c) == n >= WarmupRequests /\ Unit * c > Smoothed(Unit * c, countEma)

\* _is_burst, for the n-th request, with c requests in the window.
IsBurst(n, c) == n >= WarmupRequests /\ Unit * c > 2 * Smoothed(Unit * c, countEma)

\* extract_features, by its effects; Features is what it returns.
Extract ==
    LET n == IF totalRequests < WarmupRequests THEN totalRequests + 1 ELSE totalRequests
        w == [recent EXCEPT ![0] = @ + 1]
    IN  /\ recent' = w
        /\ totalRequests' = n
        /\ countEma' = IF n >= WarmupRequests
                       THEN Smoothed(Unit * WindowCount(w), countEma) ELSE countEma

Features(latency, queue) ==
    LET n == IF totalRequests < WarmupRequests THEN totalRequests + 1 ELSE totalRequests
        c == WindowCount([recent EXCEPT ![0] = @ + 1])
    IN  [latency |-> latency, queue |-> queue, requests |-> c, burst |-> IsBurst(n, c)]

\* A tick: what is too old leaves the window.
WindowSlides == recent' = [a \in Age |-> IF a = 0 THEN 0 ELSE recent[a - 1]]

FeatureTypeOK ==
    /\ recent \in [Age -> Nat]
    /\ countEma \in Nat
    /\ totalRequests \in 0..WarmupRequests
=============================================================================
