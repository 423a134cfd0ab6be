------------------------------ MODULE ControlLoop ------------------------------
(***************************************************************************)
(* The loops of the coordinator that steer the ring: the poller of node    *)
(* metrics (coordinator/main.py), the dynamic allocation algorithm         *)
(* (routing/daa.py) and the feedback optimizer (feedback/optimizer.py),    *)
(* with the burst flag of the forecaster (ml/forecaster.py).  They meet in *)
(* the metrics cache of the allocation engine and in the vnode counts.     *)
(*                                                                         *)
(* Time advances in ticks.  A loop sleeps for its interval after its work; *)
(* the work of the DAA and of the optimizer does not suspend, so each of   *)
(* their cycles is one step.  The poller asks one node after the other and *)
(* is suspended while it waits for each answer.  It fetches on a thread of *)
(* the default pool, and one is taken to be free: Dispatch models the pool *)
(* and how old the metrics grow.                                           *)
(***************************************************************************)
EXTENDS Integers, Sequences, FiniteSetsExt

CONSTANTS
    Node,
    PollOrder,         \* node_http_addresses: the nodes, in the order they are polled
    Base,              \* base_vnodes of each node
    StartVnodes,       \* the vnodes each node got at startup
    MinCount,          \* vnode_min_count
    Load,              \* loads a node may have: [cpu, queue], in percent
    SeedLoad,          \* the metrics every node is given at startup
    PollInterval, FetchTimeout, DaaInterval, FeedbackInterval,
    CpuAlert,          \* cpu_alert_threshold
    AlertDuration,     \* cpu_alert_duration
    VarianceThreshold, \* variance_threshold, of the standard deviation
    MaxChanges         \* bound: how often loads, nodes and the forecast change

ASSUME ControlAssumption ==
    /\ PollOrder \in Seq(Node)
    /\ \A n \in Node : \E i \in DOMAIN PollOrder : PollOrder[i] = n
    /\ Base \in [Node -> Nat \ {0}] /\ StartVnodes \in [Node -> Nat] /\ MinCount \in Nat \ {0}
    /\ \A n \in Node : MinCount <= StartVnodes[n] /\ MinCount <= Base[n]
    /\ Load \subseteq [cpu : 0..100, queue : 0..100] /\ SeedLoad \in Load
    /\ PollInterval \in Nat \ {0} /\ FetchTimeout \in Nat \ {0}
    /\ DaaInterval \in Nat \ {0} /\ FeedbackInterval \in Nat \ {0}
    /\ CpuAlert \in Nat /\ AlertDuration \in Nat \ {0} /\ VarianceThreshold \in Nat
    /\ MaxChanges \in Nat

Task == {"poll", "daa", "feedback"}

\* Neither a load nor an answer.
None == [cpu |-> -1, queue |-> -1]

VARIABLES
    load,        \* external: the load of each node now
    up,          \* external: the nodes that answer
    changes,     \* how often load, up and burst have changed
    round,       \* the poller: the nodes still to be polled in this round
    answer,      \* the answer of the node being polled, once it has been sent
    cached,      \* AllocationEngine._node_metrics
    vnodes,      \* vnodes of each node on the ring
    judged,      \* history: the metrics and the flag the last DAA cycle went by
    burst,       \* _burst_imminent, of the forecaster and of the DAA
    pending,     \* the DAA's _pending_trigger is set
    wait,        \* ticks until each loop wakes, or the poller's fetch times out
    alertSince,  \* _cpu_alert_start, as ticks gone by; -1 when there is none
    alerted      \* history: the nodes an alert was raised for

controlVars == <<load, up, changes, round, answer, cached, vnodes, judged, burst,
                 pending, wait, alertSince, alerted>>

-----------------------------------------------------------------------------
\* The factors of the DAA, in thousandths, with the thresholds of config.yaml.

\* Broken variant of CpuFactor: the overshoot is added.
CpuFactorRising(cpu) ==
    IF cpu < 50 THEN 1300 - 6 * cpu
    ELSE IF cpu > 80 THEN 1000 + 25 * (cpu - 80) ELSE 1000

CpuFactor(cpu) ==
    IF cpu < 50 THEN 1300 - 6 * cpu
    ELSE IF cpu > 80 THEN Max({500, 1000 - 25 * (cpu - 80)}) ELSE 1000

QueueFactor(queue) ==
    IF queue < 20 THEN 1200 - 10 * queue
    ELSE IF queue > 80 THEN Max({600, 1000 - 20 * (queue - 80)}) ELSE 1000

\* Python's round: to the nearest integer, halves to the even one.
RoundHalfEven(a, b) ==
    LET q == a \div b
        r == 2 * (a % b)
    IN  IF r > b \/ (r = b /\ q % 2 = 1) THEN q + 1 ELSE q

\* Broken variant of NewVnodes: the minimum is forgotten.
NewVnodesUnclamped(base, l, b) ==
    Min({RoundHalfEven(base * CpuFactor(l.cpu) * QueueFactor(l.queue) * (IF b THEN 7 ELSE 10),
                       10000000),
         2 * base})

\* The vnodes for a node of that base with load l, where b says if a burst is due.
NewVnodes(base, l, b) ==
    LET raw == RoundHalfEven(base * CpuFactor(l.cpu) * QueueFactor(l.queue)
                                  * (IF b THEN 7 ELSE 10), 10000000)
    IN  Max({MinCount, Min({raw, 2 * base})})

\* statistics.stdev of the nodes' cpu above the threshold, squared.
Unbalanced(metrics) ==
    LET N     == Cardinality(Node)
        total == SumFunction([n \in Node |-> metrics[n].cpu])
        sumSq == SumFunction([n \in Node |-> metrics[n].cpu * metrics[n].cpu])
    IN  N > 1 /\ N * sumSq - total * total > VarianceThreshold * VarianceThreshold * N * (N - 1)

-----------------------------------------------------------------------------
Init ==
    /\ load \in [Node -> Load] /\ up \in SUBSET Node /\ changes = 0
    /\ round = <<>> /\ answer = None
    /\ cached = [n \in Node |-> SeedLoad]
    /\ vnodes = StartVnodes
    /\ judged = [metrics |-> [n \in Node |-> None], burst |-> FALSE]
    /\ burst = FALSE /\ pending = FALSE
    /\ wait = [t \in Task |-> 0]
    /\ alertSince = [n \in Node |-> -1] /\ alerted = {}

\* What the coordinator does not control: loads change and nodes come and go.
NodesChange ==
    /\ changes < MaxChanges
    /\ changes' = changes + 1
    /\ \/ \E n \in Node, l \in Load : load' = [load EXCEPT ![n] = l] /\ UNCHANGED up
       \/ \E n \in Node : up' = (IF n \in up THEN up \ {n} ELSE up \cup {n}) /\ UNCHANGED load
    /\ UNCHANGED <<round, answer, cached, vnodes, judged, burst, pending, wait,
                   alertSince, alerted>>

\* _forecast_cycle finds that a burst is due, or no more, and tells the DAA.
BurstChanges ==
    /\ changes < MaxChanges
    /\ changes' = changes + 1
    /\ burst' = ~burst
    /\ UNCHANGED <<load, up, round, answer, cached, vnodes, judged, pending, wait,
                   alertSince, alerted>>

\* A tick: nobody is due.  Alerts are counted as far as it matters.
Tick ==
    /\ \A t \in Task : wait[t] > 0
    /\ wait' = [t \in Task |-> wait[t] - 1]
    /\ alertSince' = [n \in Node |->
           IF alertSince[n] = -1 THEN -1 ELSE Min({alertSince[n] + 1, AlertDuration})]
    /\ UNCHANGED <<load, up, changes, round, answer, cached, vnodes, judged, burst, pending,
                   alerted>>

-----------------------------------------------------------------------------
\* The poller's next round begins.
PollWakes ==
    /\ round = <<>> /\ wait["poll"] = 0
    /\ round' = PollOrder
    /\ wait' = [wait EXCEPT !["poll"] = FetchTimeout]
    /\ UNCHANGED <<load, up, changes, answer, cached, vnodes, judged, burst, pending,
                   alertSince, alerted>>

\* The node being polled answers with its load at that moment.
NodeAnswers ==
    /\ round # <<>> /\ answer = None
    /\ Head(round) \in up
    /\ answer' = load[Head(round)]
    /\ UNCHANGED <<load, up, changes, round, cached, vnodes, judged, burst, pending,
                   wait, alertSince, alerted>>

\* The poller turns to the next node, or sleeps.
NextPoll ==
    /\ round' = Tail(round)
    /\ answer' = None
    /\ wait' = [wait EXCEPT !["poll"] = IF Len(round) > 1 THEN FetchTimeout ELSE PollInterval]

\* The answer arrives and update_node_metrics caches it.
PollSucceeds ==
    /\ round # <<>> /\ answer # None
    /\ cached' = [cached EXCEPT ![Head(round)] = answer]
    /\ NextPoll
    /\ UNCHANGED <<load, up, changes, vnodes, judged, burst, pending, alertSince, alerted>>

\* Broken variant of PollFails: an error ends the round.
PollFailsForAll ==
    /\ round # <<>> /\ answer = None
    /\ Head(round) \notin up
    /\ round' = <<>>
    /\ wait' = [wait EXCEPT !["poll"] = PollInterval]
    /\ UNCHANGED <<load, up, changes, answer, cached, vnodes, judged, burst, pending,
                   alertSince, alerted>>

\* The node refuses the connection, or the fetch times out: what is cached stays.
PollFails ==
    /\ round # <<>> /\ answer = None
    /\ Head(round) \notin up
    /\ NextPoll
    /\ UNCHANGED <<load, up, changes, cached, vnodes, judged, burst, pending,
                   alertSince, alerted>>

-----------------------------------------------------------------------------
\* Broken variant of DaaRuns: the factors are applied to the present count.
DaaRunsFromCurrent ==
    /\ wait["daa"] = 0
    /\ vnodes' = [n \in Node |-> NewVnodes(vnodes[n], cached[n], burst)]
    /\ judged' = [metrics |-> cached, burst |-> burst]
    /\ pending' = FALSE
    /\ wait' = [wait EXCEPT !["daa"] = DaaInterval]
    /\ UNCHANGED <<load, up, changes, round, answer, cached, burst, alertSince, alerted>>

\* One cycle of the DAA: it gives each node its vnodes by the cached metrics.
DaaRuns ==
    /\ wait["daa"] = 0
    /\ vnodes' = [n \in Node |-> NewVnodes(Base[n], cached[n], burst)]
    /\ judged' = [metrics |-> cached, burst |-> burst]
    /\ pending' = FALSE
    /\ wait' = [wait EXCEPT !["daa"] = DaaInterval]
    /\ UNCHANGED <<load, up, changes, round, answer, cached, burst, alertSince, alerted>>

\* The nodes whose cpu is above the threshold, and those of them long enough.
Hot == {n \in Node : cached[n].cpu > CpuAlert}
LongHot == {n \in Hot : alertSince[n] >= AlertDuration}

\* Broken variant of AlertClocks: every check starts the clock again.
AlertClocksRestarted == [n \in Node |-> IF n \in Hot THEN 0 ELSE -1]

\* _cpu_alert_start after the check: it starts, or starts again, or goes on.
AlertClocks ==
    [n \in Node |-> IF n \notin Hot THEN -1
                    ELSE IF alertSince[n] = -1 \/ n \in LongHot THEN 0 ELSE alertSince[n]]

\* One check of the optimizer: alerts, then the spread of the load.
FeedbackChecks ==
    /\ wait["feedback"] = 0
    /\ alerted' = alerted \cup LongHot
    /\ alertSince' = AlertClocks
    /\ pending' = (pending \/ Unbalanced(cached))
    /\ wait' = [wait EXCEPT !["feedback"] = FeedbackInterval]
    /\ UNCHANGED <<load, up, changes, round, answer, cached, vnodes, judged, burst>>

-----------------------------------------------------------------------------
Next ==
    \/ NodesChange \/ BurstChanges \/ Tick
    \/ PollWakes \/ NodeAnswers \/ PollSucceeds \/ PollFails
    \/ DaaRuns \/ FeedbackChecks

\* Time passes, a node that is up answers, and the event loop resumes whatever
\* is due.  Nothing is assumed of the changes outside.
Fairness ==
    /\ WF_controlVars(Tick)
    /\ WF_controlVars(PollWakes) /\ WF_controlVars(NodeAnswers)
    /\ WF_controlVars(PollSucceeds) /\ WF_controlVars(PollFails)
    /\ WF_controlVars(DaaRuns) /\ WF_controlVars(FeedbackChecks)

Spec == Init /\ [][Next]_controlVars /\ Fairness

-----------------------------------------------------------------------------
\* Types.  Once the DAA has run, the vnodes of each node are between the minimum
\* and twice its base, whatever was measured.
ControlTypeOK ==
    /\ load \in [Node -> Load] /\ up \subseteq Node /\ changes \in 0..MaxChanges
    /\ answer \in Load \cup {None} /\ cached \in [Node -> Load \cup {SeedLoad}]
    /\ \A n \in Node : \/ vnodes[n] = StartVnodes[n]
                      \/ vnodes[n] \in MinCount..(2 * Base[n])
    /\ burst \in BOOLEAN /\ pending \in BOOLEAN /\ alerted \subseteq Node
    /\ alertSince \in [Node -> -1..AlertDuration]
    /\ wait \in [Task -> Nat]

\* Of two nodes with one base, the DAA never gives the more loaded one (in both
\* respects) more vnodes, across all its thresholds, roundings and clamps
\* (_cpu_factor, _queue_factor, _recalculate).
LessLoadedGetsMore ==
    LET m == judged.metrics
    IN  \A a, b \in Node :
            m[a] # None /\ Base[a] = Base[b] /\ m[a].cpu <= m[b].cpu /\ m[a].queue <= m[b].queue
                => vnodes[a] >= vnodes[b]

\* The DAA does not ratchet: the count it left goes back to what it was as soon
\* as the metrics and the burst flag do, so a cycle on unchanged metrics moves
\* no vnode and hence no key (_recalculate starts from base_vnodes).
NoRatchet == [][judged' = judged => vnodes' = vnodes]_controlVars

\* Once loads, nodes and forecast settle, each node that answers has, and keeps,
\* the vnodes its load asks for, through the delays of poller and DAA and while
\* other nodes fail.
ConvergesToTarget ==
    <>[](\A n \in up : vnodes[n] = NewVnodes(Base[n], load[n], burst))

\* A node that stays overloaded and answers is reported in the end, although the
\* clock of its alert is only read at the checks (_check).
OverloadReported ==
    \A n \in Node : <>[](n \in up /\ load[n].cpu > CpuAlert) => <>(n \in alerted)
=============================================================================
