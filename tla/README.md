# Verification of the predictive allocation framework

This directory holds a TLA+ model of the coordinator and the nodes of the
framework, TLC runs that check it on small instances, and proofs, checked by
TLAPS, that hold for every instance. `PROJECT.json` maps every definition that
models code to the lines it stands for.

## 1. The system

A coordinator (one asyncio process, FastAPI) receives requests over HTTP,
classifies each one, finds candidate nodes on a consistent hash ring, picks one by
a score over cached metrics, forwards the request to it in the background and
buffers two rows for PostgreSQL. Each node (one asyncio process) queues requests
by class, schedules them by weighted fair queuing and simulates their execution.
Background tasks of the coordinator poll the nodes' metrics, resize the nodes on
the ring, look for overload and forecast bursts.

| Component | State | Operations | Interacts with | What is hard |
|---|---|---|---|---|
| Hash ring (`coordinator/routing/hash_ring.py`) | sorted positions, owner map, per-node vnode lists, capacities | `add_node`, `remove_node`, `update_node_vnodes`, `get_node`, `get_candidates` | called by startup, the DAA and the router | three redundant structures updated piecemeal, hash collisions, wrap-around, long histories |
| Router (`intake/router.py`, `routing/allocation_engine.py`, `chord_router.py`, `baselines.py`) | metrics cache with ages, finger tables, round-robin counter, request counter | `route_request`, `update_node_metrics`, `select_node`, `route` | ring, forecaster, metrics poller | stale metrics, thresholds compared in three places, clusters whose size is no power of two |
| Control loop (`_poll_node_metrics` in `coordinator/main.py`, `routing/daa.py`, `feedback/optimizer.py`) | metrics cache, vnode counts, pending trigger, alert clocks | poll round, recalculation, check | nodes over HTTP, ring, forecaster | late or missing answers, repeated adjustments, clocks sampled at checks |
| Batch writer (`coordinator/db/postgres_writer.py`) | two buffers, a lock, the flush loop's task | `buffer_request`, `buffer_prediction`, `_flush`, `stop` | `submit_request` handlers, PostgreSQL | suspension inside the critical section, failed and refused batches, cancellation |
| Node (`node/scheduler.py`, `executor.py`, `main.py`) | class queues, output queue, tasks, counters, reported depths | `RouteRequest`, `enqueue`, `_schedule_cycle`, `execute_request`, the metrics loop | the coordinator's forwards and polls | interleaving on one event loop, full queues, two writers of the reported depths |
| Feature pipeline, classifier, forecaster (`intake/feature_pipeline.py`, `coordinator/ml`) | sliding windows and moving averages, outcome and sample windows, last prediction, burst flag | `extract_features`, `classify`, `record_outcome`, `get_drift_info`, the forecast cycle | router, DAA, optimizer | windows over time read by loops and by requests; flags told only on a change; the models themselves are numerical |
| Redis caches (`coordinator/db/redis_cache.py`) | a copy of the metrics hashes and of the ring's sorted set | refresh loops, `write_node_metrics`, `write_ring_to_redis` | Redis | a refresh that comes late overwrites a newer write; value and expiry are set by two commands |
| InfluxDB client (`coordinator/db/influxdb_client.py`) | point buffer | `write_point`, flush loop, `stop`, `query_rolling_window` | InfluxDB | failed writes are repeated later; points without a time |
| Coordinator process (`coordinator/main.py`) | the singletons above, node addresses, the default thread pool | startup, `submit_request`, forwarding, polling, shutdown | everything | restart loses the request counter; forwards are not retried; one thread pool for forwards and polls |

What makes each part correct:

* ring: its structures describe one ring; no node starves; a change moves keys
  only to or from the node it concerns; the ring does not depend on its history;
* router: no request to an overloaded node while another is not, nor to a silent
  candidate while a better one is known;
* control loop: vnode counts follow the load, in bounds, without ratcheting, and
  settle; no node's metrics go stale by another's failure; overload is reported;
* batch writer: nothing buffered is lost, reordered or duplicated without cause,
  and no handler hangs;
* node: every accepted request is executed once, in the order of its class, the
  classes share by weight, and what the node reports is true in the end;
* coordinator: a request reaches its node at most once, over timeouts, crashes and
  restarts, and is not lost without cause; nobody's rows are taken for another's;
* learning: a flag is raised when what it names happens, once, and is taken back;
* datastores: caches and stores agree in the end, nothing buffered is lost, and
  what is read back is in order.

### Not modelled

The gRPC stubs are generated, the training scripts, the evaluation scripts, the
traffic generator and the dashboard are outside the running system; none of them
is modelled. Of the coordinator the status endpoints, authentication and Prometheus
counters are left out, of the node its simulated CPU, memory, throughput and latency
figures, and of the learning components the numerical models themselves, which are a
choice of any answer.

## 2. Modules

| Module | Models | Proofs |
|---|---|---|
| `HashRing` | the ring: one action per mutating method | `HashRingProofs` |
| `RingLookup` | `get_node` and `get_candidates` as the walk of the code, with a reference definition and the failover property | in `HashRingProofs` |
| `HashRingMC` | instances of both | |
| `NodeQueue` | one node: handler, scheduler, executor, callback, metrics loop | `NodeQueueProofs` |
| `NodeService` | abstract specification of a node, implemented by `NodeQueue` | |
| `NodeQueueMC` | instances | |
| `BatchWriter` | the writer with handlers, flush loop, `stop()` and the database | `BatchWriterProofs` |
| `BatchWriterMC` | instances | |
| `ControlLoop` | poller, DAA, optimizer and burst flag over discrete time | `ControlLoopProofs` |
| `ControlLoopMC` | an instance | |
| `Routing` | the choice of a node in all four routing modes | `RoutingProofs` |
| `RoutingMC` | an instance | |
| `Dispatch` | what happens to a request that has a node: thread pool, forwards and polls, rows, shutdown, crash and restart | `DispatchProofs` |
| `Delivery` | abstract specification of forwarding, implemented by `Dispatch` | |
| `DispatchMC` | instances | |
| `FeaturePipeline` | the window of requests and the burst flag of a request | |
| `Classifier` | what `classify` may return, the outcome and sample windows, drift | |
| `Forecaster` | the counts of Heavy requests, the prediction, the burst flag | |
| `Learning` | the three composed: requests, forecast loop, the optimizer's drift check | `LearningProofs`, of the three too |
| `LearningMC` | an instance | |
| `RedisCache` | both caches, Redis, refresh loops and writers | |
| `TimeSeries` | the InfluxDB client, the database's points | |
| `Datastores` | both side by side, started and stopped as `lifespan` does | `DatastoresProofs`, of both too |
| `DatastoresMC` | an instance | |

An operator introduced as "Broken variant of X" is X with a bug a programmer
might write. No specification uses it: put in the place of X it must make one of
the properties fail, which shows that the property depends on that code.
`PROJECT.json` lists which property each one breaks.

### HashRing and RingLookup

Every method of the class is synchronous, so one call is one step. `positions`,
`positionToNode`, `nodeVnodes` and `nodeCapacities` are the fields `_positions`,
`_position_to_node`, `_node_vnodes` and `_node_capacities`. `VnodeHash[n][i]` is the
sequence of positions the code tries for vnode i of n: the hash of its key, then
one rehash for every collision. `FirstFree` is the collision loop, `Placed` the
loop over the vnodes. `AddNode` of a node that is present removes it first, in the
same step. `UpdateNodeVnodes` clamps, then grows at the end of the vnode list or
drops from the end. Bounds: `MaxVnodes` and `MaxProbes`; an operation that would
need more is not taken. `int(base * (cap / avg))` is modelled as exact integer
division, where the code's floats may round differently.

### NodeQueue and NodeService

Code between two suspension points is one step. `put` on a queue with room does
not suspend, so when the scheduler has found work it keeps the event loop, cycle
after cycle, until the class queues are empty: `holder` says who has the loop.
`AcceptRequest` and `RejectRequest` are `RouteRequest` with `enqueue`,
`ScheduleCycle` is `_schedule_cycle`, `ExecutorTakes` and `FinishExecution` are the
executor's loop and a task with its completion callback, `MetricsUpdate` is one
turn of the metrics loop. `NodeService` says what a node promises without any of
this; the mapping lets a request "wait" until the executor takes it.

### BatchWriter

The lock is a queue of tasks whose head holds it; asyncio grants it in FIFO order
and does not suspend a task that finds it free, so a handler without contention
does everything in one step. The only other suspension is the insert. `Flush`,
`FlushPredictions`, `AddRequest`, `AddPrediction` and `Continue` are the code
between suspension points, composed into the actions of handlers, loop and stopper.
The database accepts a batch or refuses it whole (`executemany` is a transaction),
`requests` with `ON CONFLICT DO NOTHING`; `InsertFails` is a connection that breaks
before or after the commit. `Stop` cancels the loop wherever it is. The web server
waits for running handlers before the shutdown code, so `Stop` needs them done.
The mode without a database pool writes nothing and is left out.

### ControlLoop

Time is in ticks and nothing is due when one passes. The poller's round names the
nodes still to be asked; `NodeAnswers` samples a node's load and `PollSucceeds`
caches it later, `PollFails` is a refusal or a time-out, after which the round goes
on. `DaaRuns` and `FeedbackChecks` do not suspend and are one step each. The factors
are exact, in thousandths (config.yaml's thresholds); Python's `round` is
`RoundHalfEven`. `BurstChanges` is a forecast cycle that changes the flag. Fetches
use the default thread pool; here a thread is taken to be free, `Dispatch` models the
pool. Drift detection is in `Learning`; the run histories are left out. Bound:
`MaxChanges`, how often load, reachability and forecast change.

### Routing

`route_request` does not suspend, so a decision is one step, `RouteRequest`, for any
list of distinct candidates (that `get_candidates` returns one is checked in
`ring_spread`). Scores are exact, in ten-thousandths. Metrics, age and forecast change
between decisions. `FingerTable(n)` has an entry for every power of two, `Fingers(n)`
are those the code keeps and `Hops` counts them along a walk. Nodes are numbered in the
order of their names, which config.yaml also lists them in, so "first in the dict" and
"least id" coincide there. Classification and feature extraction do not influence the
choice; `Learning` has them.

### Dispatch and Delivery

`submit_request` creates a task that hands `_send_to_node` to the default executor,
the same one the poller hands `_fetch_node_metrics` to. `backlog` is the executor's
queue, `threads` its threads with the ticks each job has used. A node is `up`,
`full` (its class queue refuses), `down` or `hangs`. A call ends whenever its node
answers or breaks the connection, at once or after any time up to `CallLimit`; a node's
handling and its answer are one step, with the delay before it. The timeout given to
`urlopen` is one of the socket, so that a call whose every operation just meets it lasts
`Operations` times as long; a hanging node makes the call time out from the first timeout
on. Whether it, or a node that broke the connection, had got the request is open. Errors
are swallowed and nothing is retried. `Stop` is
lifespan's shutdown (the poller is cancelled, the writer flushes), `Cancel` and `Exit`
what the event loop does afterwards with jobs that wait and jobs that run, `Crash`
the end of the process at any moment, `Start` the next process, whose
`RequestRouter` counts from zero. `FlushRows` is a flush without failures
(`BatchWriter` has those): a taken id keeps its row, and a prediction refers to the
row its id has. The coordinator's own steps take no time: a job takes the free thread,
and the poller wakes, before the next tick. `age` counts only while a node answers. `Delivery` knows open and
closed requests and the number of times each arrived; the mapping calls a request
open while it is in the backlog or a thread, and excuses its loss when its node does
not take requests or the coordinator is not up. Bounds: `MaxRequests`, `MaxChanges`,
`MaxRestarts`; `Operations` for a call, since the code sets none.

### FeaturePipeline, Classifier, Forecaster and Learning

`recent` counts the requests of each tick of the five-second window; averages are
integers in thousandths. Of the feature vector the model keeps what depends on
earlier requests: the count, the burst flag, the latency and the queue depth, the
last two of which the router never passes, so that they stay zero (`Features(0, 0)`).
`Classes` is everything `classify` may return: the model's class, Medium for want of
confidence, or the heuristic's. PSI is modelled by its verdict: `Usual` holds the
shares of the lowest bin for which the PSI over "lowest bin or not" stays below 0.20,
given the reference `lifespan` draws. `GruPredictions` is any answer of the GRU, or
the moving average when it fails. `Learning.Submit` is `route_request` up to the
choice of a node, and what `submit_request` records. Bounds: `MaxRequests`, and
`MaxAlerts`, the count of drift alerts (above 1, or a second alert would not be seen).

### RedisCache, TimeSeries and Datastores

Redis serves a command, a pipeline or a transaction at once; the task that sent it
goes on later, so `RefreshReads` and `RefreshEnds` are apart and a write may come
between. Two overlapping calls of `write_node_metrics` for one node are left out: every
call sets the hash before its EXPIRE, so they would change none of the properties. Metrics are told apart by the number of the write they come from. HSET keeps
a time to live, EXPIRE gives one to a hash that exists, DEL takes everything. A
sorted set has one score per member, and the members are node names (`SortedSetOf`).
The coordinator passes no client (main.py:430-431), which makes every call return
early; the module models the class with one. In `TimeSeries` the write is
synchronous and under the lock, so a flush is one step; a failed write may have
reached the database. Points carry no time (nothing sets `timestamp`), and InfluxDB
keeps one point of a series per time: `KeptAfter`. The simulation mode and mock data
are left out. In `Datastores` the client is stopped after the caches, as `lifespan`
does. Bounds: the numbers of writes, rings, points and failures.

## 3. Runs

| Run | Instance | Shows |
|---|---|---|
| `ring_collisions` | 3 nodes, 2 capacities, a small ring where first hashes and rehashes collide | `RingTypeOK`, `RingConsistent`, `NoNodeStarved`, `MinimalMovement` over every history of additions, removals and resizes |
| `ring_spread` | 3 nodes, no two hashes alike | `HistoryIndependent`, `CandidatesNearestFirst`, `FailoverInCandidateOrder` |
| `node_service` | 5 requests, three Light ones and one of an unknown class among them, 2 places per queue, equal weights | `NodeTypeOK`, `FifoPerClass`, `WeightedDrain`, `ReportedSettles`, `ImplementsService` |
| `writer_retries` | 4 requests, batches of 2, one database failure | `WriterTypeOK`, `NothingForgotten`, `PendingInOrder`, `FlushIsAccepted`, `DuplicatesNeedFaults`, `SubmitCompletes`, `StoredInTheEnd` |
| `writer_stop` | 3 requests, no failure | *violation* of `NothingLostByStop` |
| `writer_atleastonce` | 3 requests, one of which the table refuses | *violation* of `AtLeastOnce` |
| `control_steer` | 2 nodes of one base, 3 loads, one change | `ControlTypeOK`, `LessLoadedGetsMore`, `NoRatchet`, `ConvergesToTarget`, `OverloadReported` |
| `routing_choice` | 5 nodes, 3 loads, 2 forecasts, all modes | `RoutingTypeOK`, `AvoidsOverload`, `OverflowGoesClockwise`, `StaleYields` |
| `dispatch_faults` | 2 nodes, 1 thread, 2 requests, timeouts of 1 and 2 ticks, calls of 2 operations, 2 changes of a node, 1 stop or crash | `DispatchTypeOK`, `StalenessUnderLoad`, `ImplementsDelivery` |
| `dispatch_restart` | the same | *violation* of `PredictionOfOwnRow` |
| `learning_drift` | 4 requests, windows of 2 to 4, with and without each model | `LearningTypeOK`, `BurstFeatureNeedsRise`, `DriftAlertedOnce`, `BurstEnds` |
| `datastores_faults` | 1 node of 2 vnodes, 2 writes of metrics, 1 of a ring, 3 points of 2 series, 1 failure of each store | `DatastoresTypeOK`, `HashesAreMortal`, `WindowEndsWithNewest`, `CachesSettle`, `PointsWritten` |

Each property is stated in words above its definition.

Why the bounds are enough. Two nodes suffice for a key to move between nodes a
change does not concern only if there is a third, so the ring has three; its hash
sequences make every kind of collision happen (within a node's rehash, between
nodes, with a departed vnode). Two places per class queue and three Light requests
let a queue fill and drain in several cycles. Batches of two with four requests
let handlers, loop and stopper all flush and queue for the lock behind each other.
In the control loop the initial loads and reachability are arbitrary and differ
from the seeded metrics, so that one further change already lets a node fail or
recover, or a burst begin, in the middle of any round; the intervals are pairwise
different so that the loops meet in every phase, and the alert's duration is longer
than one interval of the checks. Five nodes are the least cluster in which, of the
two nodes that are no candidates, one may be no finger, and whose size is no power
of two; a saturated node without a forecast scores exactly the threshold.

One thread and two requests put a fetch behind two forwards, to nodes that are slow, hang
or recover in between. A fetch and a forward differ in their timeouts, and two operations
let a call outlast its timeout. The bound of `StalenessUnderLoad`, 13 ticks, is reached
there: both nodes take as long as they may over a fetch, and each forward over its own. One restart is enough for an
id to come again, since the counter starts at zero each time. The learning windows
are as short as they can be and still fill up, slide and hold a burst and its end;
the forecast interval and the check interval have every phase against the
requests, and the sequence "warm-up, flagged request, flagged request" occurs. Two
writes let a refresh read one and end after the other; with one failure each command
may be the one that is lost; three points and batches of two let a repeated batch
fall behind, or together with, a newer point of its series.

Deadlock is checked except in the writer's runs and `datastores_faults`, where the
system stops.

### Fairness

* `NodeQueue`: weak fairness of each task's steps. asyncio runs every ready task,
  a simulated execution is a sleep that ends, the metrics loop wakes every second.
  Arrivals are not fair.
* `BatchWriter`: weak fairness of each task's turn, of the flush loop's timer and of
  the database's answer of whatever kind. Submissions and `stop()` are not fair.
* `ControlLoop`: weak fairness of the clock, of an answer by a node that is up, and
  of each loop when it is due. Changes outside are not fair, only bounded.
* `Dispatch`: weak fairness of the thread pool (a queued job starts when a thread is
  free, a running one ends with an answer, an error or its timeout), of the poller,
  the clock and the steps of a shutdown. Requests, changes of a node, stop and crash
  are not fair.
* `Learning`: weak fairness of the forecast loop, the drift check and the clock.
* `Datastores`: weak fairness of the refresh loops, of Redis serving a command that was
  sent, and of the flush loop's timer. Failures are bounded; expiry, writes and
  `stop` are not fair.

## 4. What the runs found

* *Shutdown* (`writer_stop`). `stop()` cancels the flush loop inside an insert;
  `CancelledError` is not an `Exception`, so the batch is not put back.
* *At least once* (`writer_atleastonce`). A row the table refuses for good keeps its
  whole batch, and every later one, from being written.
* *Restart* (`dispatch_restart`). Request ids are made of a counter that starts at zero
  with the process, and the table keeps the first row of an id, so after a restart
  new requests lose their rows and their predictions refer to those of old requests.

Noticed while modelling, without a run of their own:

* *Startup.* `add_node` scales a count by the average capacity of the nodes added so
  far, so the first node gets the base count whatever its capacity and the counts
  depend on the order; docs/architecture_decisions.md:65-73 gives the average over all.
* *Weights.* The output queue has no bound and the scheduler drains the class queues
  into it at once, so the weights order only one drain (`WeightedDrain`): a later Light
  request waits behind every Heavy one drained before, where scheduler.py:34-36 speaks
  of service "3× more frequently".
* *Triggers.* `trigger_immediate` sets a flag that the DAA's loop reads after its full
  sleep, as the label of the cycle that was due anyway (daa.py:132 says immediate).
* *Nodes.* An unreachable node is never taken off the ring
  (docs/architecture_decisions.md:106); the staleness penalty is capped at 0.5 where
  :134 has it grow, so a silent node that looked idle still beats one that is more
  than half loaded (`StaleYields` is what remains true of a choice among candidates).
* *Silent fingers.* docs/architecture_decisions.md:148 has an unreachable finger skipped and
  marked dead. The Chord router looks at a finger's score only: one that stopped answering
  keeps its table entry and its last metrics, and if it looked idle the capped penalty
  leaves it below 0.85, so it gets the overflow. `OverflowGoesClockwise` states what the code
  does, that the score alone decides; on the instance of `routing_choice` TLC refutes
  `Decided /\ last.method = "chord_router" => last.node \notin stale` in a few steps (the
  candidates saturated under a forecast, an idle finger gone silent).
* *Scores.* Without a forecast the weights add up to the overflow threshold itself, so
  only stale metrics can cause an overflow; ties go to the first candidate on the
  ring, not to the lowest id; a cluster of one node reports an overflow with zero hops.
* *Drift.* The latency and queue depth features are always zero, far from the
  reference drawn for them, so from the hundredth request on drift is always detected,
  whatever the traffic, where main.py:372-373 says PSI "will only trigger when real
  traffic drastically departs". Outcomes are recorded as predicted and the callback
  that main.py:707-708 promises does not exist, so the accuracy alert cannot be raised.
* *Bursts.* The request that ends the warm-up is always flagged `is_burst`. A steady flow
  of Heavy requests that ends makes the forecaster announce a burst, because the
  average it compares with falls faster than the smoothed forecast. After an error of
  the GRU the forecaster falls back to the moving average, where
  Project_Task_Workflow.md has it retain the last forecast.
* *Stores.* Nothing calls `write_point` or `write_node_metrics`, `query_heavy_counts` and
  `_redis`, which the forecaster looks for, do not exist; the sorted set keeps one
  vnode per node; points of a series flushed together collapse into one; a failed
  query answers with mock data.
* *Features.* The pipeline returns twelve features, the trained model takes eight; an
  inference that fails for it falls back to the heuristic.

## 5. What is proved

Every theorem holds for all constants that satisfy the named assumption of its module,
which gives the constants their types and says what the code needs of them (positive
intervals, depths and sizes; every node is polled; `MinCount` is at most the base).
The bounds of section 2 are constants like others: a theorem holds whatever they are.
TLC finds each inductive invariant to hold on the runs' instances (`RoutingInv`, which
tries every list of candidates in every state, on one of three nodes; `Staleness` on 2 nodes
with 1 and 2 threads, and on 3 nodes with 1).
In every module a first theorem (`...Invariant`, `RingInvariance`) proves the inductive
invariant, with a lemma for each action that does more than set a field, and the
properties follow from it.

| Property of a run | Theorem | Module |
|---|---|---|
| `RingTypeOK`, `RingConsistent` | `RingTypeCorrect`, `RingStructuresAgree` | `HashRingProofs` |
| `NoNodeStarved`, `MinimalMovement`, `HistoryIndependent` | `NoStarvation`, `KeyMovement`, `HistoryIndependence` | |
| `CandidatesNearestFirst`, `FailoverInCandidateOrder` | `NearestCandidates`, `FailoverOrderKept` | |
| `NodeTypeOK`, `FifoPerClass`, `WeightedDrain` | `NodeTypes`, `KeepsClassOrder`, `SharesAreWeighted` | `NodeQueueProofs` |
| steps of `ImplementsService` | `StepsAreService` | |
| `WriterTypeOK`, `NothingForgotten`, `PendingInOrder` | `WriterTypes`, `ForgetsNothing`, `KeepsOrder` | `BatchWriterProofs` |
| `DuplicatesNeedFaults`, `FlushIsAccepted` | `DuplicatesAreBounded`, `FlushNeedsNoRetry` | |
| `ControlTypeOK`, `LessLoadedGetsMore`, `NoRatchet` | `ControlTypes`, `LoadIsMonotone`, `CyclesDoNotRatchet` | `ControlLoopProofs` |
| `RoutingTypeOK`, `AvoidsOverload` | `RoutingTypes`, `NoNeedlessOverload` | `RoutingProofs` |
| `StaleYields`, `OverflowGoesClockwise` | `SilentNodesYield`, `OverflowIsClockwise` | |
| `DispatchTypeOK`, `StalenessUnderLoad` | `DispatchTypes`, `MetricsStayFresh` | `DispatchProofs` |
| steps of `ImplementsDelivery` | `StepsAreDelivery` | |
| `LearningTypeOK`, `BurstFeatureNeedsRise`, `DriftAlertedOnce` | `LearningTypes`, `BurstsNeedARise`, `DriftIsAlertedOnce` | `LearningProofs` |
| `DatastoresTypeOK`, `HashesAreMortal`, `WindowEndsWithNewest` | `DatastoresTypes`, `NoHashForever`, `WindowsInOrder` | `DatastoresProofs` |

### HashRing and RingLookup (`RingAssumption`)

`RingInv` adds to types and consistency that every list has between `MinCount` and
`MaxVnodes` vnodes: without the lower bound a resize could empty a list, without the
upper one a grown vnode would have no hash. The actions share `NewVnodesAreFree`, that
the collision loop yields distinct free positions. `NoStarvation` follows since a node
with a vnode owns that vnode's key. For `KeyMovement`, `GetNodeIsFirst` describes
`get_node` by the first position clockwise, each action has a lemma that it changes no
owner of a position except those of one node (`...ConcernsOnly`), and `MovedKeys` puts
the two together. `HistoryIndependence` needs that every vnode is at its own hash;
`NoRehash` shows that the collision loop then stops at once.

`get_candidates` is described in two steps. `WalkIsClockwise`: counting indices from
`bisect_left` on, modulo the number of positions, meets every position once, by
increasing clockwise distance (`BelowMonotone`, `IndexHasPosition`, `DistanceIs`).
`CandidatesCollected`: what the loop has after the first i owners met has no node twice,
lists nodes in the order of their first visit, and misses one only if it is full
(`Collected`, kept by `CollectKeeps`). The first visit to a node is at its nearest vnode,
so the candidates are the nearest nodes by distance (`CandidatesByDistance`); there are as
many as asked for or on the ring (`ByDistanceLength`), and the first is `get_node`'s, whose
own search takes another path (`FirstCandidate`). This is `NearestCandidates`. Nothing
turns on equal distances, since two nodes share no position. For `FailoverOrderKept`, only
`remove_node` makes the ring lose a node, and it leaves the vnodes of the others
(`OnlyRemoved`); a set is listed by a key in one way (`OrderedUnique`), and the old order
without the node that left is such a list of the others (`OrderedRemove`).

### NodeQueue (`NodeAssumption`)

`NodeInv` is `NodeTypeOK`, `FifoPerClass` and `Known`: whatever waits, runs or completed
was accepted, and a class queue holds requests of its class only. Without `Known` a
cycle could take a request of another class and `FifoPerClass` would not be kept. The
lemmas on `OfClass` (of a request appended, of two sequences joined, of one class only,
of the head) carry the argument. `StepsAreService`: an arrival is an arrival of the
service, taking a request begins it, which must be the oldest of its class that waits
(from `FifoPerClass`), and every other step changes nothing the service sees.

`WeightedDrain` is not inductive: it speaks of stretches of a drain, not of how they came
about. `DrainsInRounds` proves that what was drained falls into cycles, each with at most
a class's weight of it, in the classes' order, and with less only if the class has nothing
in later cycles and its queue has run out (`Rounds`); `CyclesAreFair` shows that any such
sequence has the property, since a stretch with more than one share of a class has a
boundary of cycles in it.

### BatchWriter (`WriterAssumption`)

`WriterInv` relates the lock, the insert under way, the buffers and how far each handler
is. `Critical`: the lock names a task once, and while an insert runs the buffer it was
taken from stays empty; this is why a batch that is put back is in order (`KeepsOrder`).
`Progress`: a record is buffered once its handler is past the point that appends it, so it
is not buffered twice. `Records`: what was buffered is stored, pending or dropped, what is
pending is the end of what was buffered, and a pending prediction has at most as many rows
as there were failures, which is what keeps `DuplicatesAreBounded` when it is retried.
`FlushOrder`: a flush comes to the predictions with the request buffer empty, so the
requests they refer to are stored (`FlushNeedsNoRetry`).

### ControlLoop (`ControlAssumption`)

`ControlInv`: the vnodes are the initial ones, or what the last cycle computes from the
metrics and the flag it judged by and the base, whatever happened since (`Steering`).
`CyclesDoNotRatchet` follows at once, where a cycle that starts from the present counts
would break `Steering`. `LoadIsMonotone` follows from `NewVnodesFall`: both factors fall
with the load, and product, rounding half to even and the clamps are monotone.

### Routing (`RoutingAssumption`)

`RoutingInv`: a decision is one that `route_request` takes for some candidates. The rest
is arithmetic of finger tables. `RingFacts`: the ring has at least as many ids as nodes
and fewer than twice as many. `FingerIsNearest`: the successor the code finds, with ids
past the last node that wrap to the first, is the nearest node clockwise;
`FingersAscend`: fingers come in clockwise order, so the first acceptable one is the
nearest that is. `RouteFacts`: the hop limit is above the number of fingers, so the limit
never cuts a walk short, whatever the size of the cluster.

### Dispatch (`DispatchAssumption`)

`DispatchInv`: every job that waits or runs is a fetch or the one forward of a request
that was submitted (`Jobs`); the poller has its one fetch in the queue or in a thread
(`Poller`); no more jobs run than there are threads, and none outlive the process
(`Pool`); a request that has reached its node has no forward any more (`Arrivals`). The
last gives `ReachesAtMostOnce`, and is not inductive without the uniqueness of forwards in
`Jobs`. `StepsAreDelivery`: a thread that ends delivers, or loses a request with an excuse
(`ThreadTurnDelivers`, `LossIsExcused`); a crash or a cancelled queue closes requests only
while the coordinator is not up; every other step changes nothing that `Delivery` sees.

`StalenessUnderLoad` bounds how old the metrics of an answering node can be, and needs an
account of the time that may pass before its fetch has ended (`Staleness`). For a node n,
`Ahead` is the time of the poller's round up to the end of n's fetch, each fetch at its
limit: what is left of the one under way, those of the nodes between, n's own, and the
pause if n's turn is past. `Owed` is the time that forwards, those under way, those in the
queue and those of requests still to come, may yet hold a thread. With W threads, W times
the age and what is ahead, plus what is owed, stays within W rounds (`Round`) plus the whole
allowance of forwards. A tick in which a fetch runs, or the poller sleeps, adds to the age
what it takes from `Ahead`; a tick in which the fetch waits in the queue takes nothing from
`Ahead`, but then all W threads are busy with forwards and W ticks less are owed
(`BusyTick`, `TickStaleness`). An answer before the limit only takes more from `Ahead` and
`Owed`. The bound on the age alone is not inductive.

### Learning (`FeatureAssumption`, `ClassifierAssumption`, `ForecasterAssumption`, `LearningAssumption`)

`LearningInv`. `Values`: the types, and that no sample has a latency or a queue depth,
which is what makes drift last. `Rising`: from the end of the warm-up on the moving average
holds at least three tenths of the last request's window, flagged or not, so that the next
flagged one needs a larger window (`BurstIsARise`); `BurstFeatureNeedsRise` alone, which
speaks of samples only, is not inductive. The request that ends the warm-up is the only one
the property exempts: the average starts from nothing there and any count is above it. `Drift`: drift that was detected goes on being detected
(`NoLatencyIsDrift`: all samples lie in the lowest bin), so the alert is not raised again.
That the type of the moving average fits rests on what `EmaFallback` and
`RecentRequestCount` compute, by induction (`EmaFallbackType`, `WindowCountType`).

### Datastores (`CacheAssumption`, `SeriesAssumption`)

`CacheInv`: a call under way has metrics to write, only hashes that exist have a time to
live, and every set of positions, also one that a refresh has read and not yet published,
has one of each node. `SeriesInv`: buffer and series are in order, and a point the database
keeps is older than all of the buffer, unless its batch failed after it was written and is
still in the buffer, of the same series. Without this exception the invariant fails at the
first such failure; with it, writing the batch again keeps the order.

### How far the proofs go

Recursive functions are reasoned about by induction on numbers, as the least
counterexample of a set (`LeastNatural`, `UpTo`): powers of two, the moving average, the
window's count, the requests of a class, the candidates collected on a walk. The fold of
`GetCandidates` is unfolded to its definition, and `FoldExists` shows that the function it
chooses exists. `FailoverInCandidateOrder` says that the node is taken out of its place,
not that it is filtered out, because `SelectSeq` is recursive and the prover does not see
into it; as no node is in the order twice, the two are the same.

Every safety property of the runs that pass is proved, and so are the steps of both
refinements. Only model-checked remains liveness: `ReportedSettles`, `SubmitCompletes`,
`StoredInTheEnd`, `ConvergesToTarget`, `OverloadReported`, `BurstEnds`, `CachesSettle`,
`PointsWritten`, and the fairness of `ImplementsService` and `ImplementsDelivery`. It needs
ENABLED, which the prover does not support.

## 6. Plan

Done in this order: ring, node, writer, control loop, routing; proofs of the ring;
dispatch, learning, datastores; proofs of all other components, with the steps of both
refinements; the freshness of metrics under load; the candidates and the failover order.
What is left is the parts listed as not modelled in section 1, and the hazards of
`PROJECT.json` that have no property, each with the reason why.
