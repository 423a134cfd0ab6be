------------------------------- MODULE NodeQueue -------------------------------
(***************************************************************************)
(* One simulated server node: the weighted fair queuing scheduler          *)
(* (node/scheduler.py), the executor (node/executor.py) and the handlers   *)
(* and loops around them (node/main.py), which share one asyncio event     *)
(* loop.                                                                   *)
(*                                                                         *)
(* Code between two suspension points is one step.  A put on a queue with  *)
(* room and get_nowait do not suspend, and neither does put on the output  *)
(* queue, which has no bound; so once the scheduler finds work it keeps    *)
(* the loop, cycle after cycle, until the class queues are empty and it    *)
(* sleeps.  "holder" says who has the loop: while it is the scheduler,     *)
(* no handler and no other task runs.                                      *)
(***************************************************************************)
EXTENDS Integers, Sequences, FiniteSets

CONSTANTS
    Req,         \* requests the coordinator may deliver, each once
    ClassOf,     \* the class each one carries on the wire
    MaxDepth,    \* max_depths, per class
    Weight       \* weights, per class

Class == {"Light", "Medium", "Heavy"}

\* What a request says of itself; "Unknown" stands for every other value.
WireClass == Class \cup {"Unknown"}

ASSUME NodeAssumption ==
    /\ ClassOf \in [Req -> WireClass]
    /\ MaxDepth \in [Class -> Nat \ {0}]
    /\ Weight \in [Class -> Nat \ {0}]

VARIABLES
    holder,       \* "loop": tasks and handlers take turns; "scheduler": see above
    queues,       \* WFQScheduler._queues
    output,       \* WFQScheduler._output_queue
    running,      \* requests the executor has created a task for, until it ends
    completed,    \* requests whose completion callback has run
    rejected,     \* requests answered accepted: false
    reported,     \* node_state.queue_depth_*, what /health shows the coordinator
    accepted,     \* history: the requests accepted, in order
    taken,        \* history: the requests the executor took, in order
    drained       \* history: what the scheduler dequeued since it last slept

nodeVars == <<holder, queues, output, running, completed, rejected, reported, accepted, taken, drained>>

\* The queue a request goes to; an unknown class goes to the Medium one.
QueueOf(r) == IF ClassOf[r] = "Unknown" THEN "Medium" ELSE ClassOf[r]

Depths == [c \in Class |-> Len(queues[c])]

\* Broken variant of HasWork: the Heavy queue is forgotten.
HasUrgentWork == \E c \in Class \ {"Heavy"} : queues[c] # <<>>

HasWork == \E c \in Class : queues[c] # <<>>

Delivered == rejected \cup {accepted[i] : i \in DOMAIN accepted}

-----------------------------------------------------------------------------
Init ==
    /\ holder = "loop"
    /\ queues = [c \in Class |-> <<>>]
    /\ output = <<>>
    /\ running = {} /\ completed = {} /\ rejected = {}
    /\ reported = [c \in Class |-> 0]
    /\ accepted = <<>> /\ taken = <<>> /\ drained = <<>>

\* Broken variant of RejectRequest: one full queue closes them all.
RejectWhenAnyFull(r) ==
    /\ \E c \in Class : Len(queues[c]) >= MaxDepth[c]
    /\ rejected' = rejected \cup {r}
    /\ UNCHANGED <<queues, reported, accepted>>

\* RouteRequest, when enqueue finds the class queue full.  The depths the node
\* reports are not refreshed.
RejectRequest(r) ==
    /\ Len(queues[QueueOf(r)]) >= MaxDepth[QueueOf(r)]
    /\ rejected' = rejected \cup {r}
    /\ UNCHANGED <<queues, reported, accepted>>

\* Broken variant of AcceptRequest: one request more than there is room for.
AcceptWhenFull(r) ==
    /\ Len(queues[QueueOf(r)]) <= MaxDepth[QueueOf(r)]
    /\ queues' = [queues EXCEPT ![QueueOf(r)] = Append(@, r)]
    /\ reported' = [Depths EXCEPT ![QueueOf(r)] = @ + 1]
    /\ accepted' = Append(accepted, r)
    /\ UNCHANGED rejected

\* RouteRequest, when it does not: put, then copy the depths of all queues.
AcceptRequest(r) ==
    /\ Len(queues[QueueOf(r)]) < MaxDepth[QueueOf(r)]
    /\ queues' = [queues EXCEPT ![QueueOf(r)] = Append(@, r)]
    /\ reported' = [Depths EXCEPT ![QueueOf(r)] = @ + 1]
    /\ accepted' = Append(accepted, r)
    /\ UNCHANGED rejected

RouteRequest(r) ==
    /\ holder = "loop"
    /\ r \notin Delivered
    /\ RejectRequest(r) \/ AcceptRequest(r)
    /\ UNCHANGED <<holder, output, running, completed, taken, drained>>

-----------------------------------------------------------------------------
\* Broken variant of Share: the Light queue is emptied whatever its weight.
ShareLightWhole(c) ==
    IF c = "Light" \/ Len(queues[c]) < Weight[c] THEN Len(queues[c]) ELSE Weight[c]

\* How many requests of class c one cycle dequeues.
Share(c) == IF Len(queues[c]) < Weight[c] THEN Len(queues[c]) ELSE Weight[c]

\* The requests one cycle dequeues, in order.
CycleOrder ==
    SubSeq(queues["Light"], 1, Share("Light"))
        \o SubSeq(queues["Medium"], 1, Share("Medium"))
        \o SubSeq(queues["Heavy"], 1, Share("Heavy"))

\* The scheduler's 1 ms sleep ends and it finds work.
SchedulerWakes ==
    /\ holder = "loop"
    /\ HasWork
    /\ holder' = "scheduler"
    /\ drained' = <<>>
    /\ UNCHANGED <<queues, output, running, completed, rejected, reported, accepted, taken>>

\* Broken variant of ScheduleCycle: each class loses the request after its share.
ScheduleCycleDropsOne ==
    /\ holder = "scheduler"
    /\ HasWork
    /\ queues' = [c \in Class |-> SubSeq(queues[c], Share(c) + 2, Len(queues[c]))]
    /\ output' = output \o CycleOrder
    /\ drained' = drained \o CycleOrder
    /\ UNCHANGED <<holder, running, completed, rejected, reported, accepted, taken>>

\* One cycle: up to the weight of each class, Light first.
ScheduleCycle ==
    /\ holder = "scheduler"
    /\ HasWork
    /\ queues' = [c \in Class |-> SubSeq(queues[c], Share(c) + 1, Len(queues[c]))]
    /\ output' = output \o CycleOrder
    /\ drained' = drained \o CycleOrder
    /\ UNCHANGED <<holder, running, completed, rejected, reported, accepted, taken>>

\* No work is left: the scheduler sleeps and the loop is free again.
SchedulerSleeps ==
    /\ holder = "scheduler"
    /\ ~HasWork
    /\ holder' = "loop"
    /\ UNCHANGED <<queues, output, running, completed, rejected, reported, accepted, taken, drained>>

-----------------------------------------------------------------------------
\* The executor's loop takes the next request and creates a task for it, which
\* runs up to its sleep when its turn comes; until then nothing tells the two apart.
ExecutorTakes ==
    /\ holder = "loop"
    /\ output # <<>>
    /\ running' = running \cup {Head(output)}
    /\ output' = Tail(output)
    /\ taken' = Append(taken, Head(output))
    /\ UNCHANGED <<holder, queues, completed, rejected, reported, accepted, drained>>

\* The sleep ends; the task completes and calls on_request_completed, which does
\* not suspend.
FinishExecution(r) ==
    /\ holder = "loop"
    /\ r \in running
    /\ running' = running \ {r}
    /\ completed' = completed \cup {r}
    /\ UNCHANGED <<holder, queues, output, rejected, reported,
                   accepted, taken, drained>>

\* Broken variant of MetricsUpdate: only arrivals refresh the depths.
MetricsUpdateWithoutDepths == holder = "loop" /\ UNCHANGED nodeVars

\* metrics_update_loop refreshes the depths the node reports.
MetricsUpdate ==
    /\ holder = "loop"
    /\ reported' = Depths
    /\ UNCHANGED <<holder, queues, output, running, completed, rejected, accepted, taken, drained>>

Next ==
    \/ \E r \in Req : RouteRequest(r) \/ FinishExecution(r)
    \/ SchedulerWakes \/ ScheduleCycle \/ SchedulerSleeps
    \/ ExecutorTakes
    \/ MetricsUpdate

\* The event loop runs every ready task in turn and every sleep ends; only the
\* arrival of requests is not assured.
Fairness ==
    /\ WF_nodeVars(SchedulerWakes) /\ WF_nodeVars(ScheduleCycle) /\ WF_nodeVars(SchedulerSleeps)
    /\ WF_nodeVars(ExecutorTakes)
    /\ \A r \in Req : WF_nodeVars(FinishExecution(r))
    /\ WF_nodeVars(MetricsUpdate)

Spec == Init /\ [][Next]_nodeVars /\ Fairness

-----------------------------------------------------------------------------
\* The types, with the bound asyncio.Queue(maxsize) puts on the class queues.
NodeTypeOK ==
    /\ holder \in {"loop", "scheduler"}
    /\ queues \in [Class -> Seq(Req)]
    /\ \A c \in Class : Len(queues[c]) <= MaxDepth[c]
    /\ output \in Seq(Req)
    /\ running \subseteq Req /\ completed \subseteq Req /\ rejected \subseteq Req
    /\ reported \in [Class -> Nat]
    /\ accepted \in Seq(Req) /\ taken \in Seq(Req) /\ drained \in Seq(Req)

\* The requests of s that belong to the queue of class c, in order.
OfClass(s, c) ==
    LET of[i \in 0..Len(s)] ==
            IF i = 0 THEN <<>>
            ELSE IF QueueOf(s[i]) = c THEN Append(of[i - 1], s[i]) ELSE of[i - 1]
    IN  of[Len(s)]

\* Through two queues and a task per request, no accepted request is lost,
\* duplicated or overtaken by one of its class: what the executor took, what
\* waits for it and what waits for the scheduler are, class by class, the
\* requests accepted, in that order.
FifoPerClass ==
    \A c \in Class :
        OfClass(accepted, c) = OfClass(taken \o output, c) \o queues[c]

\* No class takes a second share of a drain before every other class has had its
\* own: between requests of class d that fill more than one share, each other class
\* has as many as its weight, or its queue ran out and none of it comes later.
WeightedDrain ==
    \A i, j \in DOMAIN drained : \A c \in Class :
        LET d       == QueueOf(drained[i])
            Among(e, from, to) == {k \in from..to : QueueOf(drained[k]) = e}
        IN  /\ c # d /\ QueueOf(drained[j]) = d
            /\ Cardinality(Among(d, i, j)) > Weight[d]
            /\ Cardinality(Among(c, i, j)) < Weight[c]
            => /\ Among(c, j, Len(drained)) = {}
               /\ holder = "scheduler" => queues[c] = <<>>

\* When requests stop arriving the depths the node reports go to zero and stay
\* there, although they are written by two tasks and not by the scheduler that
\* empties the queues: the coordinator does not see an idle node as loaded.
ReportedSettles == <>[](reported = [c \in Class |-> 0])

\* The node implements the service it promises, in which every accepted request
\* begins and completes.
Waiting == [c \in Class |-> OfClass(output, c) \o queues[c]]

Service == INSTANCE NodeService WITH
    QueueClass <- QueueOf, Limit <- MaxDepth,
    waiting <- Waiting, done <- completed, refused <- rejected

ImplementsService == Service!Spec

=============================================================================
