-------------------------------- MODULE Routing --------------------------------
(***************************************************************************)
(* How the coordinator chooses a node for a request: route_request         *)
(* (intake/router.py) scores the candidates of the ring by cached metrics  *)
(* (routing/allocation_engine.py), overflows over finger tables when all   *)
(* of them are overloaded (routing/chord_router.py), and in the baseline   *)
(* modes asks a baseline balancer instead (routing/baselines.py).          *)
(*                                                                         *)
(* route_request never suspends, so a decision is one step; metrics, their *)
(* age and the forecast change between decisions.  Node i is the (i+1)-th  *)
(* of the configuration, which lists the nodes in the order of their names *)
(* and so in the order of their ids in the finger tables.                  *)
(***************************************************************************)
EXTENDS Integers, Sequences, FiniteSetsExt, Functions

CONSTANTS
    N,           \* how many nodes there are
    Measure,     \* metrics a node may have: [cpu, queue, latency], in percent
    Seed,        \* the metrics every node is given at startup
    Forecast,    \* values of get_predicted_load, in percent; 0 is one of them
    Threshold    \* overflow_threshold, in ten-thousandths

Node == 0..(N - 1)

ASSUME RoutingAssumption ==
    /\ N \in Nat \ {0}
    /\ Measure \subseteq [cpu : 0..100, queue : 0..100, latency : 0..100]
    /\ Seed \in Measure
    /\ Forecast \subseteq 0..100 /\ 0 \in Forecast
    /\ Threshold \in Nat

Modes == {"predictive", "round_robin", "least_conn", "static_hash"}

\* get_candidates returns three distinct nodes, or all of them if there are fewer.
CandidateLists ==
    {c \in [1..Min({3, N}) -> Node] : IsInjective(c)}

VARIABLES
    mode,       \* ROUTING_MODE, read once at startup
    metrics,    \* _node_metrics
    stale,      \* the nodes whose metrics are more than 10 s old
    forecast,   \* get_predicted_load, the same for every node
    turn,       \* RoundRobinBalancer._counter, modulo N
    last        \* the decision that submit_request is about to act on, if any, and
                \* (history) the candidates and scores of a predictive one

routingVars == <<mode, metrics, stale, forecast, turn, last>>

NoDecision == [method |-> "none"]

-----------------------------------------------------------------------------
\* Finger tables.

Pow2[k \in 0..N] == IF k = 0 THEN 1 ELSE 2 * Pow2[k - 1]

\* m, the least from 1 on with 2^m >= N, and the ids on the ring.
Bits == Min({m \in 1..N : Pow2[m] >= N})
RingSize == Pow2[Bits]

MaxHops == IF N > 1 THEN Bits + 2 ELSE 2

\* Broken variant of FindSuccessor: an id past the last node wraps by itself.
SuccessorModulo(target) == target % N

\* The node with the least id that is at least target, or else the first.
FindSuccessor(target) == IF target \in Node THEN target ELSE 0

\* finger[k] is the successor of n + 2^k, for k from 0 on.
FingerTable(n) == [k \in 0..(Bits - 1) |-> FindSuccessor((n + Pow2[k]) % RingSize)]

\* The entries kept: those for n itself are left out.
Fingers(n) == {k \in 0..(Bits - 1) : FingerTable(n)[k] # n}

\* How many fingers a walk has passed at k.
Hops(n, k) == Cardinality({j \in Fingers(n) : j <= k})

-----------------------------------------------------------------------------
\* Scores, in ten-thousandths: 0.35 cpu + 0.30 queue + 0.20 latency + 0.15 predicted
\* load, and 0.5 for stale metrics (0.1 for each second, at most 0.5, once they are
\* more than ten seconds old).

\* Broken variant of Score: the age does not count.
FreshScore(n, predicted) ==
    35 * metrics[n].cpu + 30 * metrics[n].queue + 20 * metrics[n].latency + 15 * predicted

Score(n, predicted) ==
    35 * metrics[n].cpu + 30 * metrics[n].queue + 20 * metrics[n].latency + 15 * predicted
        + (IF n \in stale THEN 5000 ELSE 0)

\* get_all_scores: only the candidates come with a predicted load.
AllScores(candidates) ==
    [n \in Node |-> Score(n, IF n \in Range(candidates) THEN forecast ELSE 0)]

\* Python's min over a dict: the first of the least, in the order of insertion.
FirstLeast(s, value) ==
    LET least == {i \in DOMAIN s : \A j \in DOMAIN s : value[s[i]] <= value[s[j]]}
    IN  s[Min(least)]

\* Broken variant of LeastLoaded: the first node takes what nobody wants.
FirstNode(scores) == 0

\* _fallback_least_loaded, over the nodes in the order of the configuration.
LeastLoaded(scores) == FirstLeast([i \in 1..N |-> i - 1], scores)

\* Broken variant of Route: only the nodes passed on the way are counted.
RouteFromZero(n, scores) ==
    LET acceptable == {k \in Fingers(n) : scores[FingerTable(n)[k]] < Threshold}
    IN  IF acceptable # {}
        THEN [node |-> FingerTable(n)[Min(acceptable)], hops |-> Hops(n, Min(acceptable)) - 1,
              method |-> "chord_router"]
        ELSE [node |-> LeastLoaded(scores), hops |-> Cardinality(Fingers(n)),
              method |-> "least_connections_fallback"]

\* ChordRouter.route: the first finger below the threshold, within the hop limit.
\* A finger seen before has the same score again, so "visited" only costs a hop.
Route(n, scores) ==
    LET acceptable == {k \in Fingers(n) : Hops(n, k) <= MaxHops
                                          /\ scores[FingerTable(n)[k]] < Threshold}
    IN  IF acceptable # {}
        THEN [node |-> FingerTable(n)[Min(acceptable)], hops |-> Hops(n, Min(acceptable)),
              method |-> "chord_router"]
        ELSE [node |-> LeastLoaded(scores), hops |-> Min({Cardinality(Fingers(n)), MaxHops}),
              method |-> "least_connections_fallback"]

\* The engine's choice, where there is no overflow.
Direct(n) == [node |-> n, hops |-> 1, method |-> "allocation_engine"]

\* AllocationEngine.select_node, and the overflow when all candidates are above.
PredictiveChoice(candidates, scores) ==
    LET best == FirstLeast(candidates, scores)
    IN  IF scores[best] > Threshold THEN Route(best, scores) ELSE Direct(best)

\* select_node of the balancers: the next in turn, the first of the candidates with
\* the least cached queue, the first candidate.
RoundRobinChoice == Direct(turn)
LeastConnectionsChoice(candidates) ==
    Direct(FirstLeast(candidates, [n \in Node |-> metrics[n].queue]))
StaticHashChoice(candidates) == Direct(candidates[1])

BaselineChoice(candidates) ==
    CASE mode = "round_robin" -> RoundRobinChoice
      [] mode = "least_conn"  -> LeastConnectionsChoice(candidates)
      [] mode = "static_hash" -> StaticHashChoice(candidates)

-----------------------------------------------------------------------------
Init ==
    /\ mode \in Modes
    /\ metrics = [n \in Node |-> Seed]
    /\ stale = {} /\ forecast = 0 /\ turn = 0
    /\ last = NoDecision

\* The poller caches new metrics of n.
UpdateNodeMetrics(n, m) ==
    /\ last = NoDecision
    /\ metrics' = [metrics EXCEPT ![n] = m]
    /\ stale' = stale \ {n}
    /\ UNCHANGED <<mode, forecast, turn, last>>

\* n has not answered for ten seconds.
GrowStale(n) ==
    /\ last = NoDecision
    /\ n \notin stale
    /\ stale' = stale \cup {n}
    /\ UNCHANGED <<mode, metrics, forecast, turn, last>>

\* A new prediction, or the last one is no longer fresh; the baseline modes have
\* no forecaster.
ForecastChanges ==
    /\ last = NoDecision
    /\ mode = "predictive"
    /\ forecast' \in Forecast \ {forecast}
    /\ UNCHANGED <<mode, metrics, stale, turn, last>>

\* route_request, for a request whose candidates on the ring are these.
RouteRequest(candidates) ==
    /\ last = NoDecision
    /\ IF mode = "predictive"
       THEN LET scores == AllScores(candidates)
                choice == PredictiveChoice(candidates, scores)
            IN  last' = [node |-> choice.node, hops |-> choice.hops, method |-> choice.method,
                         candidates |-> candidates, scores |-> scores]
       ELSE last' = BaselineChoice(candidates)
    /\ turn' = IF mode = "round_robin" THEN (turn + 1) % N ELSE turn
    /\ UNCHANGED <<mode, metrics, stale, forecast>>

\* submit_request starts forwarding the request to the node, without suspending
\* after route_request.
Forward ==
    /\ last # NoDecision
    /\ last' = NoDecision
    /\ UNCHANGED <<mode, metrics, stale, forecast, turn>>

Next ==
    \/ \E n \in Node, m \in Measure : UpdateNodeMetrics(n, m)
    \/ \E n \in Node : GrowStale(n)
    \/ ForecastChanges
    \/ \E c \in CandidateLists : RouteRequest(c)
    \/ Forward

Spec == Init /\ [][Next]_routingVars

-----------------------------------------------------------------------------
Decided == last # NoDecision

\* The types; a request is answered with a node and, as docs/architecture_decisions.md
\* 5.1 has it, within ceil(log2 N) + 2 hops; with none only where the one node there
\* is has no finger.
RoutingTypeOK ==
    /\ mode \in Modes /\ turn \in Node
    /\ metrics \in [Node -> Measure] /\ stale \subseteq Node /\ forecast \in Forecast
    /\ Decided => last.node \in Node /\ last.hops \in (IF N = 1 THEN 0 ELSE 1)..MaxHops

\* In predictive mode no request goes to an overloaded node while any node of the
\* cluster is not: not one of the candidates, not a finger of the best of them, nor
\* one that is neither, which only the fallback finds (select_node, route,
\* _fallback_least_loaded; the two compare with the threshold differently).
AvoidsOverload ==
    Decided /\ mode = "predictive" /\ last.scores[last.node] > Threshold
        => \A n \in Node : last.scores[n] > Threshold

\* docs/architecture_decisions.md 5.1, "finger[k] = first node with ID >= (n + 2^k)
\* mod 2^m", on a ring of 2^m ids of which the last have no node: an overflow goes
\* to a finger, and to the first one clockwise whose score is below the threshold.  The
\* score is all that counts (chord_router.py:144).  It does not say that a finger which has
\* stopped answering is skipped, as docs/architecture_decisions.md:148 has it: the code
\* gives it the overflow if its last metrics leave its score below the threshold.
OverflowGoesClockwise ==
    Decided /\ last.method = "chord_router" =>
        LET from == FirstLeast(last.candidates, last.scores)
            Distance(id, n) == (n - id) % RingSize
            fingers == {n \in Node \ {from} : \E k \in 0..(Bits - 1) : \A other \in Node :
                            Distance(from + Pow2[k], n) <= Distance(from + Pow2[k], other)}
        IN  /\ last.node \in fingers
            /\ last.scores[last.node] < Threshold
            /\ \A n \in fingers : Distance(from, n) < Distance(from, last.node)
                                   => last.scores[n] >= Threshold

\* A node that has stopped answering keeps its last metrics and is not taken off
\* the ring; still no request goes to it while a candidate that answers is less
\* than half loaded, however idle the silent one looked (compute_score).  It says
\* nothing of an overflow, when all candidates are above the threshold.
StaleYields ==
    Decided /\ mode = "predictive" /\ last.node \in stale =>
        \A i \in DOMAIN last.candidates :
            last.candidates[i] \notin stale => last.scores[last.candidates[i]] >= 5000

=============================================================================
