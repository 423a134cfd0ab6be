------------------------------- MODULE Dispatch -------------------------------
(***************************************************************************)
(* What the coordinator does with a request once it has a node for it      *)
(* (coordinator/main.py): a task forwards it over HTTP from the default    *)
(* thread pool, which the metrics poller shares, and its rows wait for the *)
(* next flush.  Nodes may be slow, refuse, be down or hang, nothing is     *)
(* retried, and the coordinator is stopped, crashes and starts again with  *)
(* its request counter at zero (intake/router.py).                         *)
(*                                                                         *)
(* Time passes in ticks.  A call takes any time up to its limit, whether   *)
(* it is answered or not; the coordinator's own steps take none.           *)
(***************************************************************************)
EXTENDS Integers, Sequences, FiniteSets, SequencesExt

CONSTANTS
    NodeCount,      \* the nodes, polled in the order of their numbers
    Workers,        \* the threads of the default executor
    PollInterval, FetchTimeout, ForwardTimeout,  \* in ticks
    Operations,     \* how many socket operations a call takes at most: the connection,
                    \* the request and each piece of the reply
    MaxRequests,    \* bound: how many requests are submitted
    MaxChanges,     \* bound: how many times a node changes its behaviour
    MaxRestarts     \* bound: how many times the coordinator stops or crashes

ASSUME DispatchAssumption ==
    /\ {NodeCount, Workers, PollInterval, FetchTimeout, ForwardTimeout, Operations}
           \subseteq Nat \ {0}
    /\ {MaxRequests, MaxChanges, MaxRestarts} \subseteq Nat

Node == 1..NodeCount

\* Requests are numbered as they are submitted, across restarts.
Request == 1..MaxRequests

\* A node takes requests; answers, but its queue refuses them; refuses or breaks the
\* connection; or lets the caller wait for longer than its timeout.
Behaviour == {"up", "full", "down", "hangs"}

VARIABLES
    phase,      \* "up"; "stopping" in lifespan's shutdown; "closing" when the event
                \* loop waits for the pool; "down"
    counter,    \* the request router's _counter
    submitted,  \* history: the id and the node of every request
    pending,    \* the requests whose rows wait for a flush
    rows,       \* the table of requests: whose row has each id, 0 if nobody's
    linked,     \* the table of predictions: whose row each request's refers to
    backlog,    \* the jobs that wait for a thread
    threads,    \* the jobs that have one, and for how long
    poller,     \* the node whose metrics the poller awaits, 0 in its sleep
    sleep,      \* what is left of that sleep
    behaves,    \* the nodes
    arrivals,   \* how many times each request has reached its node
    age,        \* for how long an answering node's metrics have not been updated
    changes, restarts

coordinatorVars == <<counter, submitted, pending, rows, linked>>
dispatchVars == <<phase, coordinatorVars, backlog, threads, poller, sleep, behaves,
                  arrivals, age, changes, restarts>>

Forward(u, n) == [kind |-> "forward", to |-> n, request |-> u]
Fetch(n)      == [kind |-> "fetch", to |-> n, request |-> 0]

Job == [kind : {"forward", "fetch"}, to : Node, request : 0..MaxRequests]

\* Broken variant of Timeout: the fetch is given too long.
TimeoutTooLong(job) == IF job.kind = "fetch" THEN 4 * FetchTimeout ELSE ForwardTimeout

\* The timeouts given to urlopen.
Timeout(job) == IF job.kind = "fetch" THEN FetchTimeout ELSE ForwardTimeout

\* The timeout is one of the socket: each operation of the call may take that long.
CallLimit(job) == Operations * Timeout(job)

Answers(n) == behaves[n] \in {"up", "full"}

-----------------------------------------------------------------------------
\* start of lifespan: the poller asks the first node, metrics are fresh.
Begin ==
    /\ phase' = "up"
    /\ counter' = 0
    /\ backlog' = <<Fetch(1)>>
    /\ poller' = 1 /\ sleep' = 0
    /\ age' = [n \in Node |-> 0]

Init ==
    /\ phase = "up"
    /\ counter = 0
    /\ submitted = <<>> /\ pending = <<>>
    /\ rows = [i \in Request |-> 0]
    /\ linked = [u \in Request |-> 0]
    /\ backlog = <<Fetch(1)>>
    /\ threads = {}
    /\ poller = 1 /\ sleep = 0
    /\ behaves = [n \in Node |-> "up"]
    /\ arrivals = [u \in Request |-> 0]
    /\ age = [n \in Node |-> 0]
    /\ changes = 0 /\ restarts = 0

\* submit_request, routed to node n: the id is taken from the counter, a task is
\* created that hands the forward to the pool, and both rows are buffered.
Submit(n) ==
    LET u == Len(submitted) + 1 IN
    /\ phase = "up"
    /\ u <= MaxRequests
    /\ counter' = counter + 1
    /\ submitted' = Append(submitted, [id |-> counter', node |-> n])
    /\ backlog' = Append(backlog, Forward(u, n))
    /\ pending' = Append(pending, u)
    /\ UNCHANGED <<phase, rows, linked, threads, poller, sleep, behaves, arrivals, age,
                   changes, restarts>>

\* Broken variant of ThreadStarts: every job gets a thread of its own.
ThreadStartsAnyway ==
    /\ backlog # <<>> /\ phase # "closing"
    /\ backlog' = Tail(backlog)
    /\ threads' = threads \cup {[job |-> Head(backlog), used |-> 0]}
    /\ UNCHANGED <<phase, coordinatorVars, poller, sleep, behaves, arrivals, age, changes, restarts>>

\* A thread that is free takes the job that waited longest.
ThreadStarts ==
    /\ backlog # <<>> /\ phase # "closing"
    /\ Cardinality(threads) < Workers
    /\ backlog' = Tail(backlog)
    /\ threads' = threads \cup {[job |-> Head(backlog), used |-> 0]}
    /\ UNCHANGED <<phase, coordinatorVars, poller, sleep, behaves, arrivals, age, changes, restarts>>

-----------------------------------------------------------------------------
\* The poller goes on from node n: to the next one, or to its sleep.
PollerGoesOn(n) ==
    IF n < NodeCount
    THEN poller' = n + 1 /\ sleep' = sleep /\ backlog' = Append(backlog, Fetch(n + 1))
    ELSE poller' = 0 /\ sleep' = PollInterval /\ backlog' = backlog

\* The thread of t is done; the poller, unless cancelled, hears of its fetch.
ThreadEnds(t) ==
    /\ threads' = threads \ {t}
    /\ IF t.job.kind = "fetch" /\ phase = "up"
       THEN PollerGoesOn(t.job.to)
       ELSE UNCHANGED <<poller, sleep, backlog>>
    /\ UNCHANGED <<phase, coordinatorVars, behaves, changes, restarts>>

Arrives(job) == arrivals' = [arrivals EXCEPT ![job.request] = @ + 1]

\* The node answers, sooner or later: handle_http_request gives it the request, which
\* its queue takes or refuses, or its metrics.
NodeAnswers(t) ==
    /\ Answers(t.job.to)
    /\ ThreadEnds(t)
    /\ IF t.job.kind = "forward" /\ behaves[t.job.to] = "up"
       THEN Arrives(t.job) ELSE UNCHANGED arrivals
    /\ age' = IF t.job.kind = "fetch" /\ phase = "up"
              THEN [age EXCEPT ![t.job.to] = 0] ELSE age

\* The connection is refused, or breaks when the node may have the request already: the
\* error is swallowed.
JobFails(t) ==
    /\ behaves[t.job.to] = "down"
    /\ ThreadEnds(t)
    /\ UNCHANGED arrivals \/ (t.job.kind = "forward" /\ Arrives(t.job))
    /\ UNCHANGED age

\* Broken variant of JobTimesOut: a forward is tried again.
JobTimesOutRetried(t) ==
    /\ behaves[t.job.to] = "hangs"
    /\ t.used >= Timeout(t.job)
    /\ IF t.job.kind = "fetch"
       THEN ThreadEnds(t) /\ UNCHANGED arrivals
       ELSE /\ threads' = threads \ {t}
            /\ backlog' = Append(backlog, t.job)
            /\ Arrives(t.job) \/ UNCHANGED arrivals
            /\ UNCHANGED <<phase, coordinatorVars, poller, sleep, behaves, changes, restarts>>
    /\ UNCHANGED age

\* An operation took too long, the first one or a later piece of the reply; whether the
\* node got the request nobody knows.
JobTimesOut(t) ==
    /\ behaves[t.job.to] = "hangs"
    /\ t.used >= Timeout(t.job)
    /\ ThreadEnds(t)
    /\ UNCHANGED arrivals \/ (t.job.kind = "forward" /\ Arrives(t.job))
    /\ UNCHANGED age

\* The poller's sleep is over.
PollerWakes ==
    /\ phase = "up" /\ poller = 0 /\ sleep = 0
    /\ poller' = 1
    /\ backlog' = Append(backlog, Fetch(1))
    /\ UNCHANGED <<phase, coordinatorVars, threads, sleep, behaves, arrivals, age, changes, restarts>>

-----------------------------------------------------------------------------
\* The rows after a flush of the requests in p: an id that is taken keeps its row,
\* and each prediction refers to the row its id has then.
FlushRows(p) ==
    LET written == [i \in Request |->
            IF rows[i] # 0 THEN rows[i]
            ELSE IF \E u \in Range(p) : submitted[u].id = i
            THEN CHOOSE u \in Range(p) : submitted[u].id = i ELSE 0]
    IN  /\ rows' = written
        /\ linked' = [u \in Request |-> IF u \in Range(p) THEN written[submitted[u].id] ELSE linked[u]]
        /\ pending' = <<>>

\* The writer's loop; BatchWriter says how it goes when an insert fails.
Flush ==
    /\ phase = "up" /\ pending # <<>>
    /\ FlushRows(pending)
    /\ UNCHANGED <<phase, counter, submitted, backlog, threads, poller, sleep, behaves, arrivals,
                   age, changes, restarts>>

\* Shutdown: the poller is cancelled and the rows are flushed.
Stop ==
    /\ phase = "up" /\ restarts < MaxRestarts
    /\ phase' = "stopping" /\ restarts' = restarts + 1
    /\ poller' = 0 /\ sleep' = 0
    /\ age' = [n \in Node |-> 0]
    /\ FlushRows(pending)
    /\ UNCHANGED <<counter, submitted, backlog, threads, behaves, arrivals, changes>>

\* After lifespan the event loop cancels what waits for a thread, and then waits
\* for the threads.
Cancel ==
    /\ phase = "stopping"
    /\ phase' = "closing" /\ backlog' = <<>>
    /\ UNCHANGED <<coordinatorVars, threads, poller, sleep, behaves, arrivals, age, changes, restarts>>

Exit ==
    /\ phase = "closing" /\ threads = {}
    /\ phase' = "down"
    /\ UNCHANGED <<coordinatorVars, backlog, threads, poller, sleep, behaves, arrivals, age, changes, restarts>>

\* The process dies: what waits is lost, and of the forwards under way any may have
\* reached its node.
Crash ==
    /\ phase # "down" /\ restarts < MaxRestarts
    /\ phase' = "down" /\ restarts' = restarts + 1
    /\ pending' = <<>> /\ backlog' = <<>> /\ threads' = {}
    /\ poller' = 0 /\ sleep' = 0
    /\ age' = [n \in Node |-> 0]
    /\ \E sent \in SUBSET {u \in Request : \E t \in threads : t.job.request = u} :
          arrivals' = [u \in Request |-> arrivals[u] + IF u \in sent THEN 1 ELSE 0]
    /\ UNCHANGED <<counter, submitted, rows, linked, behaves, changes>>

Start ==
    /\ phase = "down"
    /\ Begin
    /\ UNCHANGED <<submitted, pending, rows, linked, threads, behaves, arrivals, changes, restarts>>

-----------------------------------------------------------------------------
\* The nodes change as they please.
NodesChange ==
    /\ changes < MaxChanges
    /\ changes' = changes + 1
    /\ \E n \in Node, b \in Behaviour :
          /\ behaves[n] # b
          /\ behaves' = [behaves EXCEPT ![n] = b]
          /\ age' = IF b \in {"up", "full"} THEN age ELSE [age EXCEPT ![n] = 0]
    /\ UNCHANGED <<phase, coordinatorVars, backlog, threads, poller, sleep, arrivals, restarts>>

\* Something is to be done before time passes: a job gets the thread that is free, a
\* call at its limit is over, and so is the poller's sleep.
Due ==
    \/ backlog # <<>> /\ phase # "closing" /\ Cardinality(threads) < Workers
    \/ \E t \in threads : t.used = CallLimit(t.job)
    \/ phase = "up" /\ poller = 0 /\ sleep = 0

Tick ==
    /\ phase # "down" /\ ~Due
    /\ threads' = {[t EXCEPT !.used = @ + 1] : t \in threads}
    /\ sleep' = IF sleep > 0 THEN sleep - 1 ELSE 0
    /\ age' = [n \in Node |-> IF phase = "up" /\ Answers(n) THEN age[n] + 1 ELSE 0]
    /\ UNCHANGED <<phase, coordinatorVars, backlog, poller, behaves, arrivals, changes, restarts>>

ThreadTurn(t) == NodeAnswers(t) \/ JobFails(t) \/ JobTimesOut(t)

Next ==
    \/ \E n \in Node : Submit(n)
    \/ ThreadStarts
    \/ \E t \in threads : NodeAnswers(t) \/ JobFails(t) \/ JobTimesOut(t)
    \/ PollerWakes \/ Flush
    \/ Stop \/ Cancel \/ Exit \/ Crash \/ Start
    \/ NodesChange \/ Tick

\* Threads run, sleeps and timeouts end, and a shutdown goes through; nothing says
\* that requests come, that nodes recover or that the coordinator is restarted.
Fairness ==
    /\ WF_dispatchVars(ThreadStarts)
    /\ WF_dispatchVars(\E t \in threads : ThreadTurn(t))
    /\ WF_dispatchVars(PollerWakes) /\ WF_dispatchVars(Tick)
    /\ WF_dispatchVars(Cancel) /\ WF_dispatchVars(Exit)

Spec == Init /\ [][Next]_dispatchVars /\ Fairness

-----------------------------------------------------------------------------
Outstanding == {u \in Request :
    \/ \E i \in DOMAIN backlog : backlog[i].request = u
    \/ \E t \in threads : t.job.request = u}

FetchesWaiting == {i \in DOMAIN backlog : backlog[i].kind = "fetch"}

FetchesRunning == {t \in threads : t.job.kind = "fetch"}

\* The types; there are never more jobs running than threads, and the poller has
\* one fetch on its way exactly when it awaits one.
DispatchTypeOK ==
    /\ phase \in {"up", "stopping", "closing", "down"}
    /\ counter \in 0..MaxRequests
    /\ submitted \in Seq([id : Request, node : Node])
    /\ pending \in Seq(Request)
    /\ rows \in [Request -> 0..MaxRequests] /\ linked \in [Request -> 0..MaxRequests]
    /\ backlog \in Seq(Job)
    /\ threads \subseteq [job : Job, used : 0..(Operations * (FetchTimeout + ForwardTimeout))]
    /\ Cardinality(threads) <= Workers
    /\ poller \in 0..NodeCount /\ sleep \in 0..PollInterval
    /\ behaves \in [Node -> Behaviour]
    /\ arrivals \in [Request -> Nat] /\ age \in [Node -> Nat]
    /\ changes \in 0..MaxChanges /\ restarts \in 0..MaxRestarts
    /\ phase = "up" => Cardinality(FetchesWaiting) + Cardinality(FetchesRunning)
                       = (IF poller = 0 THEN 0 ELSE 1)

D == INSTANCE Delivery WITH
    open <- Outstanding,
    closed <- DOMAIN submitted \ Outstanding,
    excused <- IF phase # "up" THEN Request
               ELSE {u \in DOMAIN submitted : behaves[submitted[u].node] # "up"}

\* Forwarding implements its abstract specification: over timeouts, crashes and
\* restarts a request reaches its node at most once, every forward is over in the
\* end, and a request whose node takes requests is not lost while the coordinator
\* runs, however many forwards and fetches wait for a thread.
ImplementsDelivery == D!Spec

\* The poller's fetches share the pool with the forwards, each of which holds a thread
\* for as long as its node is slow or hangs: an answering node's metrics get no older
\* than a round of fetches, its own among them, that each last as long as a call can, and
\* the time for which the forwards can hold all threads.
StalenessUnderLoad ==
    \A n \in Node : age[n] <= PollInterval + NodeCount * (Operations * FetchTimeout)
                                + (MaxRequests * (Operations * ForwardTimeout)) \div Workers

\* "Stores ML classification results and execution outcomes for every request. Links
\* to requests table via request_id" (db/schema.sql:77-78), "Verify no data loss on
\* coordinator restart" (Project_Task_Workflow.md:156): the prediction of a request
\* refers to the row of that request.
PredictionOfOwnRow == \A u \in Request : linked[u] \in {0, u}

=============================================================================
