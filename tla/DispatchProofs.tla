---------------------------- MODULE DispatchProofs ----------------------------
(***************************************************************************)
(* Theorems about Dispatch, for any number of nodes, threads, requests,    *)
(* operations in a call, changes of the nodes and restarts, and for any    *)
(* timeouts.                                                               *)
(***************************************************************************)
EXTENDS Dispatch, FiniteSetTheorems, SequenceTheorems, TLAPS

-----------------------------------------------------------------------------
\* The inductive invariant, in parts.

\* The types of what a job is not part of.
Records ==
    /\ phase \in {"up", "stopping", "closing", "down"}
    /\ counter \in 0..Len(submitted)
    /\ submitted \in Seq([id : Request, node : Node]) /\ Len(submitted) <= MaxRequests
    /\ pending \in Seq(1..Len(submitted))
    /\ rows \in [Request -> 0..MaxRequests] /\ linked \in [Request -> 0..MaxRequests]
    /\ poller \in 0..NodeCount /\ sleep \in 0..PollInterval
    /\ behaves \in [Node -> Behaviour]
    /\ age \in [Node -> Nat]
    /\ changes \in 0..MaxChanges /\ restarts \in 0..MaxRestarts

\* A forward is one of a request that was submitted, to the node it was routed to.
IsJob(j, asked) ==
    \/ \E n \in Node : j = Fetch(n)
    \/ \E u \in 1..Len(asked) : j = Forward(u, asked[u].node)

\* The jobs that wait and those that have a thread, given the requests asked for; a
\* request has one forward at most.
JobsOK(wait, run, asked) ==
    /\ wait \in Seq(Job) /\ \A i \in 1..Len(wait) : IsJob(wait[i], asked)
    /\ run \subseteq [job : Job, used : Nat]
    /\ \A t \in run : IsJob(t.job, asked) /\ t.used <= CallLimit(t.job)
    /\ \A i, k \in 1..Len(wait) :
           wait[i].kind = "forward" /\ wait[k] = wait[i] => i = k
    /\ \A t \in run : \A i \in 1..Len(wait) : t.job.kind = "forward" => wait[i] # t.job
    /\ \A t, v \in run : t.job.kind = "forward" /\ v.job = t.job => t = v

Jobs == JobsOK(backlog, threads, submitted)

\* The requests whose forward waits or runs, and where the fetches are.
OpenIn(wait, run) == {u \in Request :
    \/ \E i \in 1..Len(wait) : wait[i].request = u
    \/ \E t \in run : t.job.request = u}

FetchAt(wait) == {i \in 1..Len(wait) : wait[i].kind = "fetch"}

FetchIn(run) == {t \in run : t.job.kind = "fetch"}

\* The threads, and what is left to them as the process ends.
Pool ==
    /\ IsFiniteSet(threads) /\ Cardinality(threads) <= Workers
    /\ phase \in {"closing", "down"} => backlog = <<>>
    /\ phase = "down" => threads = {}

\* The poller has one fetch on its way, or none in its sleep.
PollerOK(asks, wait, run) ==
    \/ asks = 0 /\ FetchAt(wait) = {} /\ FetchIn(run) = {}
    \/ asks # 0 /\ FetchAt(wait) = {} /\ \E t \in run : FetchIn(run) = {t}
    \/ asks # 0 /\ FetchIn(run) = {} /\ \E i \in 1..Len(wait) : FetchAt(wait) = {i}

Poller == phase = "up" => PollerOK(poller, backlog, threads)

\* A request has not reached its node, or it has once and its forward is over.
ArrivalsOK(reached, wait, run, asked) ==
    /\ reached \in [Request -> 0..1]
    /\ \A u \in Request : reached[u] = 1 => u <= Len(asked) /\ u \notin OpenIn(wait, run)

Arrivals == ArrivalsOK(arrivals, backlog, threads, submitted)

DispatchInv == Records /\ Jobs /\ Pool /\ Poller /\ Arrivals


-----------------------------------------------------------------------------
LEMMA CallLimitType ==
    ASSUME NEW job
    PROVE  /\ Operations * FetchTimeout \in Nat \ {0}
           /\ Operations * ForwardTimeout \in Nat \ {0}
           /\ CallLimit(job) = IF job.kind = "fetch" THEN Operations * FetchTimeout
                              ELSE Operations * ForwardTimeout
           /\ CallLimit(job) \in Nat \ {0}
<1>1. ASSUME NEW a \in Nat \ {0}, NEW b \in Nat \ {0} PROVE a * b \in Nat \ {0}
  BY <1>1
<1>2. /\ Operations * FetchTimeout \in Nat \ {0}
      /\ Operations * ForwardTimeout \in Nat \ {0}
  BY <1>1, DispatchAssumption
<1>3. CallLimit(job) = IF job.kind = "fetch" THEN Operations * FetchTimeout
                       ELSE Operations * ForwardTimeout
  BY DEF CallLimit, Timeout
<1> QED BY <1>2, <1>3

Asked == [id : Request, node : Node]

\* What a job is, field by field.
LEMMA JobFields ==
    ASSUME NEW asked \in Seq(Asked), Len(asked) <= MaxRequests, NEW j, IsJob(j, asked)
    PROVE  /\ j \in Job
           /\ j.kind = "fetch" <=> j.kind # "forward"
           /\ j.kind = "fetch" => j = Fetch(j.to) /\ j.request = 0
           /\ j.kind = "forward" =>
                  /\ j.request \in 1..Len(asked) /\ j.request \in Request
                  /\ j = Forward(j.request, asked[j.request].node)
                  /\ j.to = asked[j.request].node
<1>0. MaxRequests \in Nat /\ Len(asked) \in Nat
  BY DispatchAssumption
<1>1. CASE \E n \in Node : j = Fetch(n)
  BY <1>1, <1>0 DEF Fetch, Job
<1>2. CASE \E u \in 1..Len(asked) : j = Forward(u, asked[u].node)
  <2>1. PICK u \in 1..Len(asked) : j = Forward(u, asked[u].node)
    BY <1>2
  <2>2. u \in Request /\ asked[u] \in Asked
    BY <1>0 DEF Request
  <2> QED BY <2>1, <2>2, <1>0 DEF Forward, Job, Asked, Request
<1> QED BY <1>1, <1>2 DEF IsJob

\* A fetch is appended.
LEMMA FetchWaits ==
    ASSUME NEW asked \in Seq(Asked), Len(asked) <= MaxRequests, NEW wait, NEW run,
           JobsOK(wait, run, asked), NEW n \in Node
    PROVE  /\ JobsOK(Append(wait, Fetch(n)), run, asked)
           /\ OpenIn(Append(wait, Fetch(n)), run) = OpenIn(wait, run)
           /\ FetchAt(Append(wait, Fetch(n))) = FetchAt(wait) \cup {Len(wait) + 1}
<1> DEFINE w == Append(wait, Fetch(n))
<1>0. MaxRequests \in Nat
  BY DispatchAssumption
<1>1. Fetch(n) \in Job /\ Fetch(n).kind = "fetch" /\ Fetch(n).request = 0 /\ IsJob(Fetch(n), asked)
  BY <1>0 DEF Fetch, Job, IsJob
<1>2. /\ wait \in Seq(Job) /\ w \in Seq(Job) /\ Len(w) = Len(wait) + 1 /\ Len(wait) \in Nat
      /\ \A i \in 1..Len(wait) : w[i] = wait[i]
      /\ w[Len(wait) + 1] = Fetch(n)
      /\ 1..Len(w) = 1..Len(wait) \cup {Len(wait) + 1}
  BY <1>1 DEF JobsOK
<1> HIDE DEF w
<1>3. JobsOK(w, run, asked)
  <2>1. \A i \in 1..Len(w) : IsJob(w[i], asked)
    BY <1>1, <1>2 DEF JobsOK
  <2>2. \A i, k \in 1..Len(w) : w[i].kind = "forward" /\ w[k] = w[i] => i = k
    BY <1>1, <1>2 DEF JobsOK
  <2>3. \A t \in run : \A i \in 1..Len(w) : t.job.kind = "forward" => w[i] # t.job
    BY <1>1, <1>2 DEF JobsOK
  <2> QED BY <1>2, <2>1, <2>2, <2>3 DEF JobsOK
<1>4. OpenIn(w, run) = OpenIn(wait, run)
  BY <1>1, <1>2 DEF OpenIn, Request
<1>5. FetchAt(w) = FetchAt(wait) \cup {Len(wait) + 1}
  BY <1>1, <1>2 DEF FetchAt
<1> QED BY <1>3, <1>4, <1>5 DEF w

\* A request is submitted.
LEMMA ForwardWaits ==
    ASSUME NEW asked \in Seq(Asked), Len(asked) < MaxRequests, NEW wait, NEW run,
           JobsOK(wait, run, asked), NEW r \in Asked
    PROVE  LET u == Len(asked) + 1
               w == Append(wait, Forward(u, r.node))
           IN  /\ JobsOK(w, run, Append(asked, r))
               /\ OpenIn(w, run) = OpenIn(wait, run) \cup {u}
               /\ FetchAt(w) = FetchAt(wait)
<1> DEFINE u == Len(asked) + 1
           j == Forward(u, r.node)
           w == Append(wait, j)
           a == Append(asked, r)
<1>0. MaxRequests \in Nat /\ Len(asked) \in Nat
  BY DispatchAssumption
<1>1. /\ a \in Seq(Asked) /\ Len(a) = u /\ a[u] = r /\ u \in Request /\ r.node \in Node
      /\ \A i \in 1..Len(asked) : a[i] = asked[i]
  BY <1>0 DEF Asked, Request
<1>2. j \in Job /\ j.kind = "forward" /\ j.request = u /\ IsJob(j, a)
  BY <1>0, <1>1 DEF Forward, Job, IsJob, Request
<1>3. /\ wait \in Seq(Job) /\ w \in Seq(Job) /\ Len(w) = Len(wait) + 1 /\ Len(wait) \in Nat
      /\ \A i \in 1..Len(wait) : w[i] = wait[i]
      /\ w[Len(wait) + 1] = j
      /\ 1..Len(w) = 1..Len(wait) \cup {Len(wait) + 1}
  BY <1>2 DEF JobsOK
<1>4. ASSUME NEW k, IsJob(k, asked) PROVE IsJob(k, a) /\ k.request # u
  <2>1. IsJob(k, a)
    BY <1>4, <1>1, <1>0 DEF IsJob
  <2>2. k.request # u
    BY <1>4, <1>0 DEF IsJob, Fetch, Forward
  <2> QED BY <2>1, <2>2
<1>5. /\ \A i \in 1..Len(wait) : IsJob(wait[i], a) /\ wait[i].request # u
      /\ \A t \in run : IsJob(t.job, a) /\ t.job.request # u
  BY <1>4 DEF JobsOK
<1> HIDE DEF a, j, w, u
<1>6. JobsOK(w, run, a)
  <2>1. \A i \in 1..Len(w) : IsJob(w[i], a)
    BY <1>5, <1>2, <1>3
  <2>2. \A i, k \in 1..Len(w) : w[i].kind = "forward" /\ w[k] = w[i] => i = k
    BY <1>5, <1>2, <1>3 DEF JobsOK
  <2>3. \A t \in run : \A i \in 1..Len(w) : t.job.kind = "forward" => w[i] # t.job
    BY <1>5, <1>2, <1>3 DEF JobsOK
  <2> QED BY <1>3, <1>5, <2>1, <2>2, <2>3 DEF JobsOK
<1>7. OpenIn(w, run) = OpenIn(wait, run) \cup {u}
  BY <1>1, <1>2, <1>3 DEF OpenIn
<1>8. FetchAt(w) = FetchAt(wait)
  BY <1>2, <1>3 DEF FetchAt
<1> QED BY <1>6, <1>7, <1>8 DEF a, j, w, u

\* What is as it was, and what moves, when a thread takes the job at the head as t.
Taken(wait, run, asked, t) ==
    /\ JobsOK(Tail(wait), run \cup {t}, asked)
    /\ OpenIn(Tail(wait), run \cup {t}) = OpenIn(wait, run)
    /\ FetchAt(Tail(wait)) = {i \in 1..(Len(wait) - 1) : i + 1 \in FetchAt(wait)}
    /\ FetchIn(run \cup {t}) = FetchIn(run) \cup (IF 1 \in FetchAt(wait) THEN {t} ELSE {})

\* A thread takes the job at the head.
LEMMA JobStarts ==
    ASSUME NEW asked \in Seq(Asked), Len(asked) <= MaxRequests, NEW wait, NEW run,
           JobsOK(wait, run, asked), wait # <<>>
    PROVE  Taken(wait, run, asked, [job |-> Head(wait), used |-> 0])
<1> DEFINE j == Head(wait)
           t == [job |-> j, used |-> 0]
           w == Tail(wait)
<1>1. /\ wait \in Seq(Job) /\ w \in Seq(Job) /\ Len(wait) \in Nat \ {0} /\ Len(w) = Len(wait) - 1
      /\ \A i \in 1..Len(w) : w[i] = wait[i + 1] /\ i + 1 \in 1..Len(wait) /\ i + 1 # 1
      /\ j = wait[1] /\ 1 \in 1..Len(wait)
  BY DEF JobsOK
<1>2. /\ t.job = j /\ t.used = 0 /\ j \in Job /\ IsJob(j, asked) /\ 0 <= CallLimit(j)
      /\ t \in [job : Job, used : Nat]
  <2>1. j \in Job /\ IsJob(j, asked)
    BY <1>1 DEF JobsOK
  <2>2. 0 <= CallLimit(j)
    BY CallLimitType
  <2> QED BY <2>1, <2>2
<1> HIDE DEF t, w, j
<1>3. JobsOK(w, run \cup {t}, asked)
  <2>1. \A i \in 1..Len(w) : IsJob(w[i], asked)
    BY <1>1 DEF JobsOK
  <2>2. \A i, k \in 1..Len(w) : w[i].kind = "forward" /\ w[k] = w[i] => i = k
    <3> TAKE i, k \in 1..Len(w)
    <3> HAVE w[i].kind = "forward" /\ w[k] = w[i]
    <3>1. i + 1 = k + 1
      BY <1>1 DEF JobsOK
    <3> QED BY <3>1
  <2>3. \A v \in run \cup {t} : \A i \in 1..Len(w) : v.job.kind = "forward" => w[i] # v.job
    <3> TAKE v \in run \cup {t}
    <3> TAKE i \in 1..Len(w)
    <3>1. CASE v \in run
      BY <3>1, <1>1 DEF JobsOK
    <3>2. CASE v = t
      <4>1. wait[1].kind = "forward" => wait[i + 1] # wait[1]
        BY <1>1 DEF JobsOK
      <4> QED BY <3>2, <4>1, <1>1, <1>2
    <3> QED BY <3>1, <3>2
  <2>4. \A v, x \in run \cup {t} : v.job.kind = "forward" /\ x.job = v.job => v = x
    <3>1. \A v \in run : v.job.kind = "forward" => v.job # j
      BY <1>1 DEF JobsOK
    <3>2. \A v, x \in run : v.job.kind = "forward" /\ x.job = v.job => v = x
      BY DEF JobsOK
    <3> QED BY <3>1, <3>2, <1>2
  <2>5. run \cup {t} \subseteq [job : Job, used : Nat]
    BY <1>2 DEF JobsOK
  <2>6. \A v \in run \cup {t} : IsJob(v.job, asked) /\ v.used <= CallLimit(v.job)
    BY <1>2 DEF JobsOK
  <2> QED BY <1>1, <2>1, <2>2, <2>3, <2>4, <2>5, <2>6 DEF JobsOK
<1>4. OpenIn(w, run \cup {t}) = OpenIn(wait, run)
  <2>1. ASSUME NEW u PROVE (\E i \in 1..Len(wait) : wait[i].request = u)
                           <=> (\E i \in 1..Len(w) : w[i].request = u) \/ j.request = u
    <3>1. \A i \in 1..Len(wait) : i = 1 \/ (i - 1 \in 1..Len(w) /\ wait[i] = w[i - 1])
      BY <1>1
    <3> QED BY <1>1, <3>1
  <2> QED BY <2>1, <1>2 DEF OpenIn
<1>5. FetchAt(w) = {i \in 1..(Len(wait) - 1) : i + 1 \in FetchAt(wait)}
  BY <1>1 DEF FetchAt
<1>6. FetchIn(run \cup {t}) = FetchIn(run) \cup (IF 1 \in FetchAt(wait) THEN {t} ELSE {})
  BY <1>1, <1>2 DEF FetchAt, FetchIn
<1> QED BY ONLY <1>3, <1>4, <1>5, <1>6 DEF t, w, j, Taken

\* A thread is done.
LEMMA JobEnds ==
    ASSUME NEW asked \in Seq(Asked), Len(asked) <= MaxRequests, NEW wait, NEW run,
           JobsOK(wait, run, asked), NEW t \in run,
           NEW left, left = run \ {t}
    PROVE  /\ JobsOK(wait, left, asked)
           /\ OpenIn(wait, left) = OpenIn(wait, run) \ {t.job.request}
           /\ FetchIn(left) = FetchIn(run) \ {t}
<1>1. JobsOK(wait, left, asked)
  BY DEF JobsOK
<1>2. /\ \A i \in 1..Len(wait) : IsJob(wait[i], asked)
      /\ \A v \in run : IsJob(v.job, asked)
  BY DEF JobsOK
<1>3. OpenIn(wait, left) = OpenIn(wait, run) \ {t.job.request}
  <2>1. CASE t.job.kind = "fetch"
    <3>1. t.job.request = 0 /\ 0 \notin Request
      BY <2>1, <1>2, JobFields DEF Request
    <3> QED BY <3>1 DEF OpenIn
  <2>2. CASE t.job.kind = "forward"
    <3> DEFINE u == t.job.request
    <3>1. u \in 1..Len(asked) /\ u # 0 /\ t.job = Forward(u, asked[u].node)
      BY <2>2, <1>2, JobFields
    <3>2. ASSUME NEW j, IsJob(j, asked), j.request = u PROVE j = t.job
      <4>1. j.kind # "fetch"
        BY <3>2, <3>1, JobFields
      <4>2. j.kind = "forward" /\ j = Forward(j.request, asked[j.request].node)
        BY <3>2, <4>1, JobFields
      <4> QED BY <4>2, <3>1, <3>2
    <3>3. \A i \in 1..Len(wait) : wait[i].request # u
      BY <3>2, <1>2, <2>2 DEF JobsOK
    <3>4. \A v \in left : v.job.request # u
      BY <3>2, <1>2, <2>2 DEF JobsOK
    <3>5. OpenIn(wait, left) \subseteq OpenIn(wait, run) \ {u}
      BY <3>3, <3>4 DEF OpenIn
    <3>6. OpenIn(wait, run) \ {u} \subseteq OpenIn(wait, left)
      BY DEF OpenIn
    <3> QED BY <3>5, <3>6
  <2> QED BY <2>1, <2>2, <1>2, JobFields
<1>4. FetchIn(left) = FetchIn(run) \ {t}
  BY DEF FetchIn
<1> QED BY <1>1, <1>3, <1>4

\* The jobs that wait are cancelled, or all of them are lost.
LEMMA JobsGone ==
    ASSUME NEW asked \in Seq(Asked), NEW wait, NEW run, JobsOK(wait, run, asked)
    PROVE  JobsOK(<<>>, run, asked) /\ JobsOK(<<>>, {}, asked)
<1>1. <<>> \in Seq(Job) /\ Len(<<>>) = 0 /\ 1..0 = {}
  OBVIOUS
<1> QED BY <1>1 DEF JobsOK

\* A narrower set of elements makes a narrower set of sequences.
LEMMA SeqMonotone ==
    ASSUME NEW S, NEW T, S \subseteq T, NEW s \in Seq(S)
    PROVE  s \in Seq(T)
<1>1. Len(s) \in Nat /\ s \in [1..Len(s) -> S]
  OBVIOUS
<1>2. s \in [1..Len(s) -> T]
  BY <1>1
<1> QED BY <1>1, <1>2

-----------------------------------------------------------------------------
\* The invariant holds of the state the coordinator starts in.
LEMMA DispatchStarts == Init => DispatchInv
<1> SUFFICES ASSUME Init PROVE DispatchInv
  OBVIOUS
<1>0. /\ MaxRequests \in Nat /\ NodeCount \in Nat \ {0} /\ 1 \in Node /\ Workers \in Nat \ {0}
      /\ PollInterval \in Nat \ {0} /\ MaxChanges \in Nat /\ MaxRestarts \in Nat
  BY DispatchAssumption DEF Node
<1>1. submitted = <<>> /\ submitted \in Seq(Asked) /\ Len(submitted) = 0 /\ pending \in Seq(1..0)
  BY DEF Init
<1>2. JobsOK(<<>>, {}, submitted) /\ backlog = Append(<<>>, Fetch(1)) /\ threads = {}
      /\ FetchAt(<<>>) = {} /\ Len(<<>>) = 0 /\ FetchIn({}) = {} /\ OpenIn(<<>>, {}) = {}
  <2>1. <<>> \in Seq(Job) /\ Len(<<>>) = 0 /\ 1..0 = {}
    OBVIOUS
  <2>2. backlog = Append(<<>>, Fetch(1)) /\ threads = {}
    BY DEF Init
  <2> QED BY <2>1, <2>2 DEF JobsOK, FetchAt, FetchIn, OpenIn
<1>3. /\ JobsOK(backlog, threads, submitted)
      /\ OpenIn(backlog, threads) = {}
      /\ FetchAt(backlog) = {1} /\ FetchIn(threads) = {}
      /\ 1 \in 1..Len(backlog)
  <2>1. Len(submitted) <= MaxRequests
    BY <1>0, <1>1
  <2>2. Len(backlog) = 1
    BY <1>2
  <2> DEFINE e == <<>>
             none == {}
  <2>3. JobsOK(e, none, submitted) /\ FetchAt(e) = {} /\ OpenIn(e, none) = {} /\ Len(e) = 0
    BY <1>2
  <2> HIDE DEF e, none
  <2>4. /\ JobsOK(Append(e, Fetch(1)), none, submitted)
        /\ OpenIn(Append(e, Fetch(1)), none) = {}
        /\ FetchAt(Append(e, Fetch(1))) = {1}
    <3>1. /\ JobsOK(Append(e, Fetch(1)), none, submitted)
          /\ OpenIn(Append(e, Fetch(1)), none) = OpenIn(e, none)
          /\ FetchAt(Append(e, Fetch(1))) = FetchAt(e) \cup {Len(e) + 1}
      <4>1. submitted \in Seq(Asked) /\ Len(submitted) <= MaxRequests /\ 1 \in Node
        BY <1>0, <1>1, <2>1
      <4>2. JobsOK(e, none, submitted)
        BY <2>3
      <4> QED BY <4>1, <4>2, FetchWaits
    <3>2. Len(e) + 1 = 1
      BY <2>3
    <3> QED BY <2>3, <3>1, <3>2
  <2>5. backlog = Append(e, Fetch(1)) /\ threads = none /\ FetchIn(none) = {}
    BY <1>2 DEF e, none
  <2> QED BY <2>2, <2>4, <2>5
<1>4. Records
  BY <1>0, <1>1 DEF Init, Records, Asked, Behaviour
<1>5. Pool
  BY <1>0, <1>2, FS_EmptySet DEF Init, Pool
<1>6. Poller
  BY <1>3 DEF Init, Poller, PollerOK
<1>7. Arrivals
  BY <1>0 DEF Init, Arrivals, ArrivalsOK
<1> QED BY <1>3, <1>4, <1>5, <1>6, <1>7 DEF DispatchInv, Jobs

\* A request is submitted.
LEMMA SubmitKeeps ==
    ASSUME DispatchInv, NEW n \in Node, Submit(n)
    PROVE  /\ DispatchInv'
           /\ OpenIn(backlog', threads') = OpenIn(backlog, threads) \cup {Len(submitted) + 1}
<1> DEFINE u == Len(submitted) + 1
           r == [id |-> counter', node |-> n]
<1>0. MaxRequests \in Nat /\ Len(submitted) \in Nat /\ Len(submitted) < MaxRequests
      /\ submitted \in Seq(Asked) /\ counter \in 0..Len(submitted)
  <2>1. MaxRequests \in Nat
    BY DispatchAssumption
  <2>2. Len(submitted) + 1 <= MaxRequests
    BY DEF Submit
  <2>3. submitted \in Seq(Asked) /\ counter \in 0..Len(submitted)
    BY DEF DispatchInv, Records, Asked
  <2> QED BY <2>1, <2>2, <2>3
<1>1. /\ counter' = counter + 1 /\ counter' \in 1..u /\ r \in Asked /\ r.node = n
      /\ submitted' = Append(submitted, r) /\ submitted' \in Seq(Asked) /\ Len(submitted') = u
      /\ backlog' = Append(backlog, Forward(u, r.node)) /\ threads' = threads
  <2>1. counter' = counter + 1 /\ counter' \in 1..u /\ counter' \in Request
    BY <1>0 DEF Submit, Request
  <2>2. r \in Asked /\ r.node = n
    BY <2>1 DEF Asked
  <2> QED BY <1>0, <2>1, <2>2 DEF Submit
<1>2. /\ JobsOK(backlog', threads', submitted')
      /\ OpenIn(backlog', threads') = OpenIn(backlog, threads) \cup {u}
      /\ FetchAt(backlog') = FetchAt(backlog)
      /\ backlog \in Seq(Job) /\ Len(backlog') = Len(backlog) + 1 /\ Len(backlog) \in Nat
  <2>1. JobsOK(backlog, threads, submitted) /\ backlog \in Seq(Job)
    BY DEF DispatchInv, Jobs, JobsOK
  <2> QED BY <1>0, <1>1, <2>1, ForwardWaits
<1>3. Records'
  <2>1. pending' \in Seq(1..u)
    <3>1. pending \in Seq(1..u)
      BY <1>0, SeqMonotone DEF DispatchInv, Records
    <3> QED BY <1>0, <3>1 DEF Submit
  <2>2. UNCHANGED <<phase, rows, linked, poller, sleep, behaves, age, changes, restarts>>
    BY DEF Submit
  <2>3. /\ submitted' \in Seq([id : Request, node : Node]) /\ Len(submitted') <= MaxRequests
        /\ counter' \in 0..Len(submitted') /\ pending' \in Seq(1..Len(submitted'))
    BY <1>0, <1>1, <2>1 DEF Asked
  <2>4. Records
    BY DEF DispatchInv
  <2> HIDE DEF u, r
  <2> QED BY ONLY <2>2, <2>3, <2>4 DEF Records
<1>4. Pool'
  BY <1>1 DEF DispatchInv, Pool, Submit
<1>5. Poller'
  <2>1. PollerOK(poller, backlog, threads)
    BY DEF DispatchInv, Poller, Submit
  <2>2. PollerOK(poller, backlog', threads)
    BY <2>1, <1>2 DEF PollerOK
  <2> QED BY <1>1, <2>2 DEF Poller, Submit
<1>6. Arrivals'
  <2>1. arrivals' = arrivals
    BY DEF Submit
  <2> QED BY <1>0, <1>1, <1>2, <2>1 DEF DispatchInv, Arrivals, ArrivalsOK, Request
<1> QED BY <1>2, <1>3, <1>4, <1>5, <1>6 DEF DispatchInv, Jobs

\* A thread takes a job.
LEMMA ThreadStartsKeeps ==
    ASSUME DispatchInv, ThreadStarts
    PROVE  DispatchInv' /\ OpenIn(backlog', threads') = OpenIn(backlog, threads)
<1> DEFINE t == [job |-> Head(backlog), used |-> 0]
<1>1. /\ submitted \in Seq(Asked) /\ Len(submitted) <= MaxRequests
      /\ JobsOK(backlog, threads, submitted) /\ backlog # <<>> /\ backlog \in Seq(Job)
      /\ backlog' = Tail(backlog) /\ threads' = threads \cup {t}
  BY DEF DispatchInv, Records, Asked, Jobs, JobsOK, ThreadStarts
<1>2. UNCHANGED <<phase, counter, submitted, pending, rows, linked, poller, sleep, behaves,
                  arrivals, age, changes, restarts>>
  BY DEF ThreadStarts, coordinatorVars
<1>3. /\ JobsOK(backlog', threads', submitted)
      /\ OpenIn(backlog', threads') = OpenIn(backlog, threads)
      /\ FetchAt(backlog') = {i \in 1..(Len(backlog) - 1) : i + 1 \in FetchAt(backlog)}
      /\ FetchIn(threads') = FetchIn(threads) \cup (IF 1 \in FetchAt(backlog) THEN {t} ELSE {})
      /\ Len(backlog') = Len(backlog) - 1 /\ Len(backlog) \in Nat \ {0}
  <2>1. Len(backlog') = Len(backlog) - 1 /\ Len(backlog) \in Nat \ {0}
    BY <1>1
  <2>2. /\ JobsOK(Tail(backlog), threads \cup {t}, submitted)
        /\ OpenIn(Tail(backlog), threads \cup {t}) = OpenIn(backlog, threads)
        /\ FetchAt(Tail(backlog)) = {i \in 1..(Len(backlog) - 1) : i + 1 \in FetchAt(backlog)}
        /\ FetchIn(threads \cup {t}) = FetchIn(threads) \cup (IF 1 \in FetchAt(backlog) THEN {t} ELSE {})
    <3>1. submitted \in Seq(Asked) /\ Len(submitted) <= MaxRequests
          /\ JobsOK(backlog, threads, submitted) /\ backlog # <<>>
      BY <1>1
    <3>2. Taken(backlog, threads, submitted, t)
      BY ONLY <3>1, JobStarts
    <3> QED BY ONLY <3>2 DEF Taken
  <2> QED BY <1>1, <2>1, <2>2
<1> HIDE DEF t
<1>4. Records'
  BY <1>2 DEF DispatchInv, Records
<1>5. Pool'
  <2>1. IsFiniteSet(threads) /\ Cardinality(threads) < Workers /\ Workers \in Nat
    BY DispatchAssumption DEF DispatchInv, Pool, ThreadStarts
  <2>2. IsFiniteSet(threads') /\ Cardinality(threads') <= Workers
    <3>1. Cardinality(threads) \in Nat
      BY <2>1, FS_CardinalityType
    <3>2. /\ IsFiniteSet(threads \cup {t})
          /\ Cardinality(threads \cup {t}) \in {Cardinality(threads), Cardinality(threads) + 1}
      BY <2>1, FS_AddElement
    <3> QED BY <1>1, <2>1, <3>1, <3>2
  <2>3. phase \notin {"closing", "down"}
    BY <1>1 DEF DispatchInv, Pool
  <2> QED BY <1>2, <2>2, <2>3 DEF Pool
<1>6. Poller'
  <2> SUFFICES ASSUME phase = "up" PROVE PollerOK(poller, backlog', threads')
    BY <1>2 DEF Poller
  <2>1. PollerOK(poller, backlog, threads)
    BY DEF DispatchInv, Poller
  <2>2. CASE FetchAt(backlog) = {}
    BY <2>1, <2>2, <1>1, <1>3 DEF PollerOK
  <2>3. CASE poller # 0 /\ FetchIn(threads) = {} /\ \E i \in 1..Len(backlog) : FetchAt(backlog) = {i}
    <3>1. PICK i \in 1..Len(backlog) : FetchAt(backlog) = {i}
      BY <2>3
    <3>2. CASE i = 1
      <4>1. FetchAt(backlog') = {} /\ FetchIn(threads') = {t} /\ t \in threads'
        <5>1. 1 \in FetchAt(backlog) /\ \A k \in 1..(Len(backlog) - 1) : k + 1 \notin FetchAt(backlog)
        BY <3>1, <3>2
      <5> QED BY <5>1, <2>3, <1>1, <1>3
      <4> QED BY <4>1, <2>3 DEF PollerOK
    <3>3. CASE i # 1
      <4>1. FetchAt(backlog') = {i - 1} /\ FetchIn(threads') = {} /\ i - 1 \in 1..Len(backlog')
        <5>1. 1 \notin FetchAt(backlog) /\ i - 1 \in 1..(Len(backlog) - 1)
          BY <3>1, <3>3, <1>3
        <5>2. \A k \in 1..(Len(backlog) - 1) : k + 1 \in FetchAt(backlog) <=> k = i - 1
          BY <3>1, <1>3
        <5> QED BY <5>1, <5>2, <2>3, <1>3
      <4> QED BY <4>1, <2>3 DEF PollerOK
    <3> QED BY <3>2, <3>3
  <2> QED BY <2>1, <2>2, <2>3 DEF PollerOK
<1>7. Arrivals'
  BY <1>2, <1>3 DEF DispatchInv, Arrivals, ArrivalsOK
<1> QED BY <1>2, <1>3, <1>4, <1>5, <1>6, <1>7 DEF DispatchInv, Jobs

\* What the invariant says of a job that has a thread.
LEMMA RunningJob ==
    ASSUME DispatchInv, NEW t \in threads
    PROVE  /\ submitted \in Seq(Asked) /\ Len(submitted) <= MaxRequests
           /\ JobsOK(backlog, threads, submitted) /\ backlog \in Seq(Job)
           /\ t.job.to \in Node
           /\ t.job.kind = "fetch" <=> t.job.kind # "forward"
           /\ t.job.kind = "fetch" => t.job.request = 0
           /\ t.job.kind = "forward" =>
                  /\ t.job.request \in 1..Len(submitted) /\ t.job.request \in Request
                  /\ t.job.request \in OpenIn(backlog, threads)
                  /\ arrivals[t.job.request] = 0
                  /\ t.job.to = submitted[t.job.request].node
<1>1. /\ submitted \in Seq(Asked) /\ Len(submitted) <= MaxRequests
      /\ JobsOK(backlog, threads, submitted) /\ backlog \in Seq(Job)
  BY DEF DispatchInv, Records, Asked, Jobs, JobsOK
<1>2. IsJob(t.job, submitted)
  BY <1>1 DEF JobsOK
<1>3. t.job.to \in Node
  BY <1>1, <1>2, JobFields DEF Job
<1>4. ASSUME t.job.kind = "forward"
      PROVE  t.job.request \in OpenIn(backlog, threads) /\ arrivals[t.job.request] = 0
  <2>1. t.job.request \in Request
    BY <1>1, <1>2, <1>4, JobFields
  <2>2. t.job.request \in OpenIn(backlog, threads)
    BY <2>1 DEF OpenIn
  <2> QED BY <2>1, <2>2 DEF DispatchInv, Arrivals, ArrivalsOK
<1> QED BY <1>1, <1>2, <1>3, <1>4, JobFields

\* Whatever a job comes to, its thread is free and the poller goes on.
LEMMA ThreadEndsFacts ==
    ASSUME DispatchInv, NEW t \in threads, ThreadEnds(t)
    PROVE  /\ Jobs' /\ Pool' /\ Poller'
           /\ OpenIn(backlog', threads') = OpenIn(backlog, threads) \ {t.job.request}
           /\ poller' \in 0..NodeCount /\ sleep' \in 0..PollInterval
           /\ UNCHANGED <<phase, counter, submitted, pending, rows, linked, behaves, changes,
                          restarts>>
<1> DEFINE run == threads \ {t}
<1>0. NodeCount \in Nat \ {0} /\ PollInterval \in Nat \ {0} /\ Workers \in Nat
  BY DispatchAssumption
<1>1. /\ submitted \in Seq(Asked) /\ Len(submitted) <= MaxRequests
      /\ JobsOK(backlog, threads, submitted) /\ backlog \in Seq(Job) /\ Len(backlog) \in Nat
      /\ t.job.to \in Node
  BY RunningJob
<1>2. /\ threads' = run
      /\ UNCHANGED <<phase, counter, submitted, pending, rows, linked, behaves, changes, restarts>>
  BY DEF ThreadEnds, coordinatorVars
<1>3. /\ JobsOK(backlog, run, submitted)
      /\ OpenIn(backlog, run) = OpenIn(backlog, threads) \ {t.job.request}
      /\ FetchIn(run) = FetchIn(threads) \ {t}
  <2>1. /\ submitted \in Seq(Asked) /\ Len(submitted) <= MaxRequests
        /\ JobsOK(backlog, threads, submitted)
    BY <1>1
  <2>2. t \in threads /\ run = threads \ {t}
    OBVIOUS
  <2> HIDE DEF run
  <2> QED BY <2>1, <2>2, JobEnds
<1>4. ASSUME phase \in {"closing", "down"} => backlog' = <<>> PROVE Pool'
  <2>1. IsFiniteSet(threads) /\ Cardinality(threads) <= Workers /\ phase # "down"
    BY DEF DispatchInv, Pool
  <2>2. IsFiniteSet(run) /\ Cardinality(run) = Cardinality(threads) - 1 /\ Cardinality(threads) \in Nat
    BY <2>1, FS_RemoveElement, FS_CardinalityType
  <2>3. Cardinality(run) <= Workers
    BY <2>1, <2>2, <1>0
  <2> QED BY <1>2, <1>4, <2>1, <2>2, <2>3 DEF Pool
<1> HIDE DEF run
<1>5. CASE t.job.kind = "fetch" /\ phase = "up"
  <2> DEFINE n == t.job.to
  <2>1. PollerGoesOn(n)
    BY <1>5 DEF ThreadEnds
  <2>2. FetchAt(backlog) = {} /\ FetchIn(run) = {}
    <3>1. t \in FetchIn(threads)
      BY <1>5 DEF FetchIn
    <3> QED BY <3>1, <1>3, <1>5 DEF DispatchInv, Poller, PollerOK
  <2>3. CASE n < NodeCount
    <3>1. /\ poller' = n + 1 /\ sleep' = sleep /\ backlog' = Append(backlog, Fetch(n + 1))
          /\ n + 1 \in Node /\ n + 1 # 0 /\ n + 1 \in 0..NodeCount
      BY <2>1, <2>3, <1>0, <1>1 DEF PollerGoesOn, Node
    <3>2. /\ JobsOK(backlog', run, submitted)
          /\ OpenIn(backlog', run) = OpenIn(backlog, run)
          /\ FetchAt(backlog') = {Len(backlog) + 1}
      BY <3>1, <1>1, <1>3, <2>2, FetchWaits
    <3>3. Len(backlog) + 1 \in 1..Len(backlog')
      BY <3>1, <1>1
    <3>4. PollerOK(poller', backlog', run)
      BY <3>1, <3>2, <3>3, <2>2 DEF PollerOK
    <3> QED BY <1>2, <1>3, <1>4, <1>5, <3>1, <3>2, <3>4 DEF Jobs, Poller, DispatchInv, Records
  <2>4. CASE ~(n < NodeCount)
    <3>1. poller' = 0 /\ sleep' = PollInterval /\ backlog' = backlog
      BY <2>1, <2>4 DEF PollerGoesOn
    <3>2. PollerOK(poller', backlog', run)
      BY <3>1, <2>2 DEF PollerOK
    <3> QED BY <1>0, <1>2, <1>3, <1>4, <1>5, <3>1, <3>2 DEF Jobs, Poller
  <2> QED BY <2>3, <2>4
<1>6. CASE ~(t.job.kind = "fetch" /\ phase = "up")
  <2>1. poller' = poller /\ sleep' = sleep /\ backlog' = backlog
    BY <1>6 DEF ThreadEnds
  <2>2. Pool'
    BY <1>4, <2>1 DEF DispatchInv, Pool
  <2>3. Poller'
    <3> SUFFICES ASSUME phase = "up" PROVE PollerOK(poller, backlog, run)
      BY <1>2, <2>1 DEF Poller
    <3>1. t \notin FetchIn(threads)
      BY <1>6 DEF FetchIn
    <3>2. FetchIn(run) = FetchIn(threads) /\ FetchIn(threads) \subseteq threads
      BY <1>3, <3>1 DEF FetchIn
    <3>3. PollerOK(poller, backlog, threads)
      BY DEF DispatchInv, Poller
    <3>4. ASSUME NEW v \in threads, FetchIn(threads) = {v} PROVE v \in run
      BY <3>4, <3>1 DEF run
    <3> QED BY <3>2, <3>3, <3>4 DEF PollerOK
  <2> QED BY <1>2, <1>3, <2>1, <2>2, <2>3 DEF Jobs, DispatchInv, Records
<1> QED BY <1>5, <1>6

\* A node answers, refuses the connection, or does not answer in time.
LEMMA ThreadTurnKeeps ==
    ASSUME DispatchInv, NEW t \in threads, ThreadTurn(t)
    PROVE  DispatchInv'
<1>1. ThreadEnds(t)
  BY DEF ThreadTurn, NodeAnswers, JobFails, JobTimesOut
<1>2. /\ Jobs' /\ Pool' /\ Poller'
      /\ OpenIn(backlog', threads') = OpenIn(backlog, threads) \ {t.job.request}
      /\ poller' \in 0..NodeCount /\ sleep' \in 0..PollInterval
      /\ UNCHANGED <<phase, counter, submitted, pending, rows, linked, behaves, changes, restarts>>
  BY <1>1, ThreadEndsFacts
<1>3. age' \in [Node -> Nat]
  <2>1. age \in [Node -> Nat]
    BY DEF DispatchInv, Records
  <2>2. age' = age \/ age' = [age EXCEPT ![t.job.to] = 0]
    BY DEF ThreadTurn, NodeAnswers, JobFails, JobTimesOut
  <2> QED BY <2>1, <2>2
<1>4. Records'
  BY <1>2, <1>3 DEF DispatchInv, Records
<1>5. Arrivals'
  <2>1. arrivals' = arrivals \/ (t.job.kind = "forward" /\ Arrives(t.job))
    BY DEF ThreadTurn, NodeAnswers, JobFails, JobTimesOut
  <2>2. arrivals \in [Request -> 0..1] /\ Len(submitted) \in Nat
    BY DEF DispatchInv, Arrivals, ArrivalsOK, Records
  <2>3. CASE arrivals' = arrivals
    BY <2>3, <1>2 DEF DispatchInv, Arrivals, ArrivalsOK
  <2>4. CASE t.job.kind = "forward" /\ Arrives(t.job)
    <3>1. /\ t.job.request \in 1..Len(submitted) /\ t.job.request \in Request
          /\ arrivals[t.job.request] = 0
      BY <2>4, RunningJob
    <3>2. arrivals' = [arrivals EXCEPT ![t.job.request] = 1]
      BY <2>4, <3>1 DEF Arrives
    <3> QED BY <3>1, <3>2, <2>2, <1>2 DEF DispatchInv, Arrivals, ArrivalsOK
  <2> QED BY <2>1, <2>3, <2>4
<1> QED BY <1>2, <1>4, <1>5 DEF DispatchInv

\* The poller's sleep is over.
LEMMA PollerWakesKeeps ==
    ASSUME DispatchInv, PollerWakes
    PROVE  DispatchInv' /\ OpenIn(backlog', threads') = OpenIn(backlog, threads)
<1>0. NodeCount \in Nat \ {0} /\ 1 \in Node
  BY DispatchAssumption DEF Node
<1>1. /\ submitted \in Seq(Asked) /\ Len(submitted) <= MaxRequests
      /\ JobsOK(backlog, threads, submitted) /\ backlog \in Seq(Job) /\ Len(backlog) \in Nat
  <2>1. JobsOK(backlog, threads, submitted) /\ backlog \in Seq(Job)
    BY DEF DispatchInv, Jobs, JobsOK
  <2> QED BY <2>1 DEF DispatchInv, Records, Asked
<1>2. /\ poller = 0 /\ poller' = 1 /\ backlog' = Append(backlog, Fetch(1)) /\ phase = "up"
      /\ UNCHANGED <<phase, counter, submitted, pending, rows, linked, threads, sleep, behaves,
                     arrivals, age, changes, restarts>>
  BY DEF PollerWakes, coordinatorVars
<1>3. /\ JobsOK(backlog', threads, submitted)
      /\ OpenIn(backlog', threads) = OpenIn(backlog, threads)
      /\ FetchAt(backlog') = FetchAt(backlog) \cup {Len(backlog) + 1}
  BY <1>0, <1>1, <1>2, FetchWaits
<1>4. FetchAt(backlog) = {} /\ FetchIn(threads) = {}
  BY <1>2 DEF DispatchInv, Poller, PollerOK
<1>5. Poller'
  <2>1. Len(backlog) + 1 \in 1..Len(backlog') /\ FetchAt(backlog') = {Len(backlog) + 1}
    BY <1>1, <1>2, <1>3, <1>4
  <2> QED BY <1>2, <1>4, <2>1 DEF Poller, PollerOK
<1>6. Records'
  BY <1>0, <1>2 DEF DispatchInv, Records
<1>7. Pool'
  BY <1>2 DEF DispatchInv, Pool
<1>8. Arrivals'
  BY <1>2, <1>3 DEF DispatchInv, Arrivals, ArrivalsOK
<1> QED BY <1>2, <1>3, <1>5, <1>6, <1>7, <1>8 DEF DispatchInv, Jobs

\* What a flush leaves in the tables.
LEMMA FlushRowsFacts ==
    ASSUME DispatchInv, FlushRows(pending)
    PROVE  /\ rows' \in [Request -> 0..MaxRequests] /\ linked' \in [Request -> 0..MaxRequests]
           /\ pending' = <<>>
<1> DEFINE written == [i \in Request |->
               IF rows[i] # 0 THEN rows[i]
               ELSE IF \E u \in Range(pending) : submitted[u].id = i
               THEN CHOOSE u \in Range(pending) : submitted[u].id = i ELSE 0]
<1>1. /\ MaxRequests \in Nat /\ submitted \in Seq(Asked) /\ Len(submitted) <= MaxRequests
      /\ pending \in Seq(1..Len(submitted))
      /\ rows \in [Request -> 0..MaxRequests] /\ linked \in [Request -> 0..MaxRequests]
  BY DispatchAssumption DEF DispatchInv, Records, Asked
<1>2. /\ Range(pending) \subseteq 1..Len(submitted) /\ Range(pending) \subseteq 0..MaxRequests
      /\ \A u \in Range(pending) : submitted[u].id \in Request
  <2>1. Range(pending) \subseteq 1..Len(submitted)
    BY <1>1 DEF Range
  <2>2. \A u \in 1..Len(submitted) : submitted[u] \in Asked /\ u \in 0..MaxRequests
    BY <1>1
  <2> QED BY <2>1, <2>2 DEF Asked
<1>3. ASSUME NEW i \in Request PROVE written[i] \in 0..MaxRequests
  <2>1. (\E u \in Range(pending) : submitted[u].id = i)
        => (CHOOSE u \in Range(pending) : submitted[u].id = i) \in Range(pending)
    OBVIOUS
  <2>2. 0 \in 0..MaxRequests /\ rows[i] \in 0..MaxRequests
    BY <1>1
  <2> QED BY <1>2, <2>1, <2>2
<1>4. rows' = written /\ pending' = <<>>
      /\ linked' = [u \in Request |-> IF u \in Range(pending) THEN written[submitted[u].id] ELSE linked[u]]
  BY DEF FlushRows
<1>5. written \in [Request -> 0..MaxRequests]
  BY <1>3
<1> HIDE DEF written
<1>6. linked' \in [Request -> 0..MaxRequests]
  BY <1>1, <1>2, <1>4, <1>5
<1> QED BY <1>4, <1>5, <1>6

\* A flush, the one of the shutdown among them.
LEMMA FlushKeeps ==
    ASSUME DispatchInv, Flush \/ Stop
    PROVE  DispatchInv'
<1>1. /\ UNCHANGED <<counter, submitted, backlog, threads, behaves, arrivals, changes>>
      /\ FlushRows(pending)
  BY DEF Flush, Stop
<1>2. /\ rows' \in [Request -> 0..MaxRequests] /\ linked' \in [Request -> 0..MaxRequests]
      /\ pending' = <<>>
  BY <1>1, FlushRowsFacts
<1>3. /\ phase' \in {"up", "stopping"} /\ poller' \in 0..NodeCount /\ sleep' \in 0..PollInterval
      /\ age' \in [Node -> Nat] /\ restarts' \in 0..MaxRestarts
  <2>1. /\ phase = "up" /\ poller \in 0..NodeCount /\ sleep \in 0..PollInterval /\ age \in [Node -> Nat]
        /\ restarts \in 0..MaxRestarts
    BY DEF DispatchInv, Records, Flush, Stop
  <2>2. NodeCount \in Nat /\ PollInterval \in Nat /\ MaxRestarts \in Nat
    BY DispatchAssumption
  <2>3. CASE Flush
    BY <2>1, <2>3 DEF Flush
  <2>4. CASE Stop
    BY <2>1, <2>2, <2>4 DEF Stop
  <2> QED BY <2>3, <2>4
<1>4. pending' \in Seq(1..Len(submitted'))
  BY <1>2
<1>5. Records'
  BY <1>1, <1>2, <1>3, <1>4 DEF DispatchInv, Records
<1>6. Pool'
  BY <1>1, <1>3 DEF DispatchInv, Pool
<1>7. Poller'
  <2>1. phase' = "up" => phase = "up" /\ poller' = poller
    BY DEF Flush, Stop
  <2> QED BY <1>1, <2>1 DEF DispatchInv, Poller
<1> QED BY <1>1, <1>5, <1>6, <1>7 DEF DispatchInv, Jobs, Arrivals

\* What waits is cancelled, or everything is lost.
LEMMA JobsLostKeeps ==
    ASSUME DispatchInv, Cancel \/ Crash
    PROVE  DispatchInv' /\ OpenIn(backlog', threads') \subseteq OpenIn(backlog, threads)
<1>0. MaxRestarts \in Nat /\ NodeCount \in Nat /\ PollInterval \in Nat
  BY DispatchAssumption
<1>1. /\ submitted \in Seq(Asked) /\ JobsOK(backlog, threads, submitted) /\ backlog \in Seq(Job)
      /\ Len(submitted) \in Nat
  <2>1. JobsOK(backlog, threads, submitted) /\ backlog \in Seq(Job)
    BY DEF DispatchInv, Jobs, JobsOK
  <2> QED BY <2>1 DEF DispatchInv, Records, Asked
<1>2. /\ backlog' = <<>> /\ threads' \in {threads, {}} /\ phase' \in {"closing", "down"}
      /\ phase' = "down" => threads' = {}
      /\ UNCHANGED <<counter, submitted, rows, linked, behaves, changes>>
  BY DEF Cancel, Crash, coordinatorVars
<1>3. JobsOK(backlog', threads', submitted')
  <2>1. JobsOK(<<>>, threads, submitted) /\ JobsOK(<<>>, {}, submitted)
    BY <1>1, JobsGone
  <2> QED BY <1>2, <2>1
<1>4. OpenIn(backlog', threads') \subseteq OpenIn(backlog, threads)
  <2>1. 1..Len(backlog') = {}
    BY <1>2
  <2> QED BY <1>2, <2>1 DEF OpenIn
<1>5. Pool'
  <2>1. IsFiniteSet(threads) /\ Cardinality(threads) <= Workers /\ Workers \in Nat
    BY DispatchAssumption DEF DispatchInv, Pool
  <2>2. IsFiniteSet({}) /\ Cardinality({}) <= Workers
    BY <2>1, FS_EmptySet
  <2> QED BY <1>2, <2>1, <2>2 DEF Pool
<1>6. Poller'
  BY <1>2 DEF Poller
<1>7. Records'
  <2>1. /\ pending' \in Seq(1..Len(submitted)) /\ poller' \in 0..NodeCount /\ sleep' \in 0..PollInterval
        /\ age' \in [Node -> Nat] /\ restarts' \in 0..MaxRestarts
    <3>1. CASE Cancel
      BY <3>1 DEF Cancel, DispatchInv, Records, coordinatorVars
    <3>2. CASE Crash
      <4>1. <<>> \in Seq(1..Len(submitted))
        OBVIOUS
      <4> QED BY <1>0, <3>2, <4>1 DEF Crash, DispatchInv, Records
    <3> QED BY <3>1, <3>2
  <2> QED BY <1>2, <2>1 DEF DispatchInv, Records
<1>8. Arrivals'
  <2>1. /\ arrivals \in [Request -> 0..1]
        /\ \A u \in Request : arrivals[u] = 1 => u <= Len(submitted) /\ u \notin OpenIn(backlog, threads)
    BY DEF DispatchInv, Arrivals, ArrivalsOK
  <2>2. CASE Cancel
    BY <1>2, <1>4, <2>1, <2>2 DEF Cancel, Arrivals, ArrivalsOK
  <2>3. CASE Crash
    <3>1. PICK sent \in SUBSET {u \in Request : \E t \in threads : t.job.request = u} :
             arrivals' = [u \in Request |-> arrivals[u] + IF u \in sent THEN 1 ELSE 0]
      BY <2>3 DEF Crash
    <3>2. sent \subseteq Request /\ \A u \in sent : \E t \in threads : t.job.request = u
      OBVIOUS
    <3>3. ASSUME NEW u \in sent PROVE arrivals[u] = 0 /\ u <= Len(submitted)
      <4>1. PICK t \in threads : t.job.request = u
        BY <3>2
      <4>2. u \in Request /\ u # 0
        BY <3>2 DEF Request
      <4>3. t.job.kind = "forward"
        BY <4>1, <4>2, RunningJob
      <4> QED BY <4>1, <4>3, <1>1, RunningJob
    <3>4. OpenIn(backlog', threads') = {}
      <4>1. backlog' = <<>> /\ threads' = {} /\ 1..Len(backlog') = {}
        BY <2>3 DEF Crash
      <4> QED BY <4>1 DEF OpenIn
    <3>5. arrivals' \in [Request -> 0..1]
      BY <2>1, <3>1, <3>2, <3>3
    <3>6. \A u \in Request : arrivals'[u] = 1 => u <= Len(submitted)
      BY <2>1, <3>1, <3>2, <3>3
    <3> QED BY <1>2, <3>4, <3>5, <3>6 DEF Arrivals, ArrivalsOK
  <2> QED BY <2>2, <2>3
<1> QED BY <1>3, <1>4, <1>5, <1>6, <1>7, <1>8 DEF DispatchInv, Jobs

\* The process is gone, and is started again.
LEMMA RestartKeeps ==
    ASSUME DispatchInv, Exit \/ Start
    PROVE  DispatchInv' /\ OpenIn(backlog', threads') = OpenIn(backlog, threads)
<1>0. NodeCount \in Nat \ {0} /\ 1 \in Node /\ PollInterval \in Nat
  BY DispatchAssumption DEF Node
<1>1. backlog = <<>> /\ threads = {} /\ threads' = {}
  BY DEF DispatchInv, Pool, Exit, Start
<1>2. /\ submitted \in Seq(Asked) /\ Len(submitted) <= MaxRequests /\ Len(submitted) \in Nat
      /\ JobsOK(backlog, threads, submitted)
  BY DEF DispatchInv, Records, Asked, Jobs
<1>3. CASE Exit
  <2>1. /\ UNCHANGED <<counter, submitted, pending, rows, linked, backlog, threads, poller, sleep,
                       behaves, arrivals, age, changes, restarts>>
        /\ phase' = "down"
    BY <1>3 DEF Exit, coordinatorVars
  <2>2. Pool'
    BY <1>1, <2>1 DEF DispatchInv, Pool
  <2> QED BY <2>1, <2>2 DEF DispatchInv, Records, Jobs, Poller, Arrivals
<1>4. CASE Start
  <2>1. /\ UNCHANGED <<submitted, pending, rows, linked, threads, behaves, arrivals, changes, restarts>>
        /\ phase' = "up" /\ counter' = 0 /\ backlog' = <<Fetch(1)>> /\ poller' = 1 /\ sleep' = 0
        /\ age' = [n \in Node |-> 0]
    BY <1>4 DEF Start, Begin
  <2>2. /\ JobsOK(backlog', threads, submitted)
        /\ OpenIn(backlog', threads) = OpenIn(backlog, threads)
        /\ FetchAt(backlog') = {1}
    <3> DEFINE w == Append(backlog, Fetch(1))
    <3>1. /\ JobsOK(w, threads, submitted)
          /\ OpenIn(w, threads) = OpenIn(backlog, threads)
          /\ FetchAt(w) = FetchAt(backlog) \cup {Len(backlog) + 1}
      BY <1>0, <1>2, FetchWaits
    <3>2. backlog' = w /\ FetchAt(backlog) = {} /\ Len(backlog) + 1 = 1
      BY <1>1, <2>1 DEF FetchAt
    <3> HIDE DEF w
    <3> QED BY <3>1, <3>2
  <2>3. Records'
    BY <1>0, <1>2, <2>1 DEF DispatchInv, Records
  <2>4. Pool'
    BY <2>1 DEF DispatchInv, Pool
  <2>5. Poller'
    <3>1. FetchIn(threads) = {} /\ 1 \in 1..Len(backlog')
      BY <1>1, <2>1 DEF FetchIn
    <3> QED BY <2>1, <2>2, <3>1 DEF Poller, PollerOK
  <2>6. Arrivals'
    BY <2>1, <2>2 DEF DispatchInv, Arrivals, ArrivalsOK
  <2> QED BY <2>1, <2>2, <2>3, <2>4, <2>5, <2>6 DEF DispatchInv, Jobs
<1> QED BY <1>3, <1>4

\* The nodes change.
LEMMA NodesChangeKeeps ==
    ASSUME DispatchInv, NodesChange
    PROVE  DispatchInv'
<1>1. UNCHANGED <<phase, counter, submitted, pending, rows, linked, backlog, threads, poller, sleep,
                  arrivals, restarts>>
  BY DEF NodesChange, coordinatorVars
<1>2. behaves' \in [Node -> Behaviour] /\ age' \in [Node -> Nat]
  BY DEF NodesChange, DispatchInv, Records
<1>3. changes' \in 0..MaxChanges
  <2>1. changes \in 0..MaxChanges /\ changes < MaxChanges /\ changes' = changes + 1 /\ MaxChanges \in Nat
    BY DispatchAssumption DEF NodesChange, DispatchInv, Records
  <2> QED BY <2>1
<1>4. Records'
  BY <1>1, <1>2, <1>3 DEF DispatchInv, Records
<1> QED BY <1>1, <1>4 DEF DispatchInv, Jobs, Pool, Poller, Arrivals

Aged(t) == [t EXCEPT !.used = @ + 1]

\* Every thread has used a tick more; none was at its limit.
LEMMA JobsAge ==
    ASSUME NEW asked, NEW wait, NEW run, JobsOK(wait, run, asked), IsFiniteSet(run),
           \A t \in run : t.used # CallLimit(t.job),
           NEW older, \A t \in run : Aged(t) \in older,
           \A v \in older : \E t \in run : v = Aged(t)
    PROVE  /\ JobsOK(wait, older, asked)
           /\ OpenIn(wait, older) = OpenIn(wait, run)
           /\ \A v \in run : FetchIn(run) = {v} =>
                  \E w \in older : FetchIn(older) = {w}
           /\ FetchIn(run) = {} => FetchIn(older) = {}
           /\ IsFiniteSet(older) /\ Cardinality(older) <= Cardinality(run)
<1>1. ASSUME NEW t \in run
      PROVE  /\ Aged(t) \in [job : Job, used : Nat]
             /\ Aged(t).job = t.job /\ Aged(t).used <= CallLimit(t.job) /\ IsJob(t.job, asked)
  <2>1. t \in [job : Job, used : Nat] /\ t.used <= CallLimit(t.job) /\ t.used # CallLimit(t.job)
        /\ IsJob(t.job, asked)
    BY DEF JobsOK
  <2>2. CallLimit(t.job) \in Nat
    BY CallLimitType
  <2> QED BY <2>1, <2>2 DEF Aged
<1>2. older = {Aged(t) : t \in run}
  OBVIOUS
<1>3. JobsOK(wait, older, asked)
  <2>1. older \subseteq [job : Job, used : Nat]
        /\ \A v \in older : IsJob(v.job, asked) /\ v.used <= CallLimit(v.job)
    BY <1>1, <1>2
  <2>2. \A v \in older : \A i \in 1..Len(wait) : v.job.kind = "forward" => wait[i] # v.job
    BY <1>1, <1>2 DEF JobsOK
  <2>3. \A v, w \in older : v.job.kind = "forward" /\ w.job = v.job => v = w
    <3> SUFFICES ASSUME NEW v \in older, NEW w \in older, v.job.kind = "forward", w.job = v.job
                 PROVE  v = w
      OBVIOUS
    <3>1. PICK t \in run, x \in run : v = Aged(t) /\ w = Aged(x)
      BY <1>2
    <3>2. t = x
      BY <3>1, <1>1 DEF JobsOK
    <3> QED BY <3>1, <3>2
  <2> QED BY <2>1, <2>2, <2>3 DEF JobsOK
<1>4. OpenIn(wait, older) = OpenIn(wait, run)
  BY <1>1, <1>2 DEF OpenIn
<1>5. FetchIn(older) = {Aged(t) : t \in FetchIn(run)}
  BY <1>1, <1>2 DEF FetchIn
<1>6. IsFiniteSet(older) /\ Cardinality(older) <= Cardinality(run)
  <2> DEFINE f == [t \in run |-> Aged(t)]
  <2>1. f \in Surjection(run, older)
    BY <1>2 DEF Surjection
  <2> QED BY <2>1, FS_Surjection
<1>7. \A v \in run : FetchIn(run) = {v} => Aged(v) \in older /\ FetchIn(older) = {Aged(v)}
  BY <1>2, <1>5
<1>8. FetchIn(run) = {} => FetchIn(older) = {}
  BY <1>5
<1> QED BY <1>3, <1>4, <1>6, <1>7, <1>8

\* Time passes.
LEMMA TickKeeps ==
    ASSUME DispatchInv, Tick
    PROVE  DispatchInv' /\ OpenIn(backlog', threads') = OpenIn(backlog, threads)
<1>1. /\ threads' = {[t EXCEPT !.used = @ + 1] : t \in threads}
      /\ \A t \in threads : t.used # CallLimit(t.job)
      /\ UNCHANGED <<phase, counter, submitted, pending, rows, linked, backlog, poller, behaves,
                     arrivals, changes, restarts>>
      /\ phase # "down"
  BY DEF Tick, Due, coordinatorVars
<1>2. JobsOK(backlog, threads, submitted) /\ IsFiniteSet(threads)
      /\ Cardinality(threads) <= Workers /\ Workers \in Nat
  BY DispatchAssumption DEF DispatchInv, Jobs, Pool
<1>3. /\ JobsOK(backlog, threads', submitted)
      /\ OpenIn(backlog, threads') = OpenIn(backlog, threads)
      /\ \A v \in threads : FetchIn(threads) = {v} => \E w \in threads' : FetchIn(threads') = {w}
      /\ FetchIn(threads) = {} => FetchIn(threads') = {}
      /\ IsFiniteSet(threads') /\ Cardinality(threads') <= Cardinality(threads)
  <2>1. \A t \in threads : t.used # CallLimit(t.job)
    BY <1>1
  <2>2. PICK older : older = {Aged(t) : t \in threads}
    OBVIOUS
  <2>3. /\ JobsOK(backlog, older, submitted)
        /\ OpenIn(backlog, older) = OpenIn(backlog, threads)
        /\ \A v \in threads : FetchIn(threads) = {v} => \E w \in older : FetchIn(older) = {w}
        /\ FetchIn(threads) = {} => FetchIn(older) = {}
        /\ IsFiniteSet(older) /\ Cardinality(older) <= Cardinality(threads)
    <3>1. (\A t \in threads : Aged(t) \in older) /\ \A v \in older : \E t \in threads : v = Aged(t)
      BY <2>2
    <3> QED BY <1>2, <2>1, <3>1, JobsAge
  <2>4. threads' = older
    BY <1>1, <2>2 DEF Aged
  <2> QED BY <2>3, <2>4
<1>4. sleep' \in 0..PollInterval /\ age' \in [Node -> Nat]
  <2>1. sleep \in 0..PollInterval /\ age \in [Node -> Nat] /\ PollInterval \in Nat
    BY DispatchAssumption DEF DispatchInv, Records
  <2>2. /\ sleep' = IF sleep > 0 THEN sleep - 1 ELSE 0
        /\ age' = [n \in Node |-> IF phase = "up" /\ Answers(n) THEN age[n] + 1 ELSE 0]
    BY DEF Tick
  <2>3. sleep' \in 0..PollInterval
    BY <2>1, <2>2
  <2>4. age' \in [Node -> Nat]
    BY <2>1, <2>2
  <2> QED BY <2>3, <2>4
<1>5. Records'
  BY <1>1, <1>4 DEF DispatchInv, Records
<1>6. Pool'
  <2>1. Cardinality(threads') \in Nat /\ Cardinality(threads) \in Nat
    BY <1>2, <1>3, FS_CardinalityType
  <2>2. Cardinality(threads') <= Workers
    BY <2>1, <1>2, <1>3
  <2> QED BY <1>1, <1>3, <2>2 DEF DispatchInv, Pool
<1>7. Poller'
  <2> SUFFICES ASSUME phase = "up" PROVE PollerOK(poller, backlog, threads')
    BY <1>1 DEF Poller
  <2>1. PollerOK(poller, backlog, threads)
    BY DEF DispatchInv, Poller
  <2> QED BY <2>1, <1>3 DEF PollerOK
<1>8. Arrivals'
  BY <1>1, <1>3 DEF DispatchInv, Arrivals, ArrivalsOK
<1> QED BY <1>1, <1>3, <1>5, <1>6, <1>7, <1>8 DEF DispatchInv, Jobs

-----------------------------------------------------------------------------
\* The invariant is inductive.
THEOREM DispatchInvariant == Spec => []DispatchInv
<1>1. Init => DispatchInv
  BY DispatchStarts
<1>2. DispatchInv /\ [Next]_dispatchVars => DispatchInv'
  <2> SUFFICES ASSUME DispatchInv, [Next]_dispatchVars PROVE DispatchInv'
    OBVIOUS
  <2>1. CASE \E n \in Node : Submit(n)
    BY <2>1, SubmitKeeps
  <2>2. CASE ThreadStarts
    BY <2>2, ThreadStartsKeeps
  <2>3. CASE \E t \in threads : NodeAnswers(t) \/ JobFails(t) \/ JobTimesOut(t)
    BY <2>3, ThreadTurnKeeps DEF ThreadTurn
  <2>4. CASE PollerWakes
    BY <2>4, PollerWakesKeeps
  <2>5. CASE Flush \/ Stop
    BY <2>5, FlushKeeps
  <2>6. CASE Cancel \/ Crash
    BY <2>6, JobsLostKeeps
  <2>7. CASE Exit \/ Start
    BY <2>7, RestartKeeps
  <2>8. CASE NodesChange
    BY <2>8, NodesChangeKeeps
  <2>9. CASE Tick
    BY <2>9, TickKeeps
  <2>10. CASE UNCHANGED dispatchVars
    BY <2>10 DEF dispatchVars, coordinatorVars, DispatchInv, Records, Jobs, Pool, Poller, Arrivals
  <2> QED BY <2>1, <2>2, <2>3, <2>4, <2>5, <2>6, <2>7, <2>8, <2>9, <2>10 DEF Next
<1> QED BY <1>1, <1>2, PTL DEF Spec

\* What the invariant says in the terms of the specification.
LEMMA SameSets ==
    ASSUME DispatchInv
    PROVE  /\ FetchesWaiting = FetchAt(backlog) /\ FetchesRunning = FetchIn(threads)
           /\ Outstanding = OpenIn(backlog, threads)
           /\ DOMAIN submitted = 1..Len(submitted) /\ DOMAIN submitted \subseteq Request
<1>1. backlog \in Seq(Job)
  BY DEF DispatchInv, Jobs, JobsOK
<1>2. DOMAIN backlog = 1..Len(backlog)
  BY <1>1
<1>3. submitted \in Seq(Asked) /\ Len(submitted) <= MaxRequests /\ MaxRequests \in Nat
  BY DispatchAssumption DEF DispatchInv, Records, Asked
<1>4. DOMAIN submitted = 1..Len(submitted) /\ DOMAIN submitted \subseteq Request
  BY <1>3 DEF Request
<1> QED BY <1>2, <1>4 DEF FetchesWaiting, FetchesRunning, FetchAt, FetchIn, Outstanding, OpenIn

\* Only a request that was submitted is outstanding.
LEMMA OpenIsAsked ==
    ASSUME DispatchInv, NEW u \in OpenIn(backlog, threads)
    PROVE  u \in 1..Len(submitted)
<1>1. u \in Request /\ u # 0
  BY DEF OpenIn, Request
<1>2. PICK j : IsJob(j, submitted) /\ j.request = u
  <2>1. /\ \A i \in 1..Len(backlog) : IsJob(backlog[i], submitted)
        /\ \A t \in threads : IsJob(t.job, submitted)
    BY DEF DispatchInv, Jobs, JobsOK
  <2> QED BY <2>1 DEF OpenIn
<1>3. submitted \in Seq(Asked) /\ Len(submitted) <= MaxRequests
  BY DEF DispatchInv, Records, Asked
<1> QED BY <1>1, <1>2, <1>3, JobFields

\* The types; no more jobs run than there are threads, whatever the nodes do, and the
\* poller has one fetch on its way exactly when it awaits one.
THEOREM DispatchTypes == Spec => []DispatchTypeOK
<1>1. ASSUME DispatchInv PROVE DispatchTypeOK
  <2>0. /\ MaxRequests \in Nat /\ FetchTimeout \in Nat /\ ForwardTimeout \in Nat
    BY DispatchAssumption
  <2>1. /\ Records /\ JobsOK(backlog, threads, submitted) /\ Pool /\ Poller /\ Arrivals
    BY <1>1 DEF DispatchInv, Jobs
  <2>2. submitted \in Seq(Asked) /\ Len(submitted) <= MaxRequests /\ Len(submitted) \in Nat
    BY <2>1 DEF Records, Asked
  <2>3. pending \in Seq(Request)
    <3>1. 1..Len(submitted) \subseteq Request /\ pending \in Seq(1..Len(submitted))
      BY <2>0, <2>1, <2>2 DEF Request, Records
    <3> QED BY <3>1, SeqMonotone
  <2>4. threads \subseteq [job : Job, used : 0..(Operations * (FetchTimeout + ForwardTimeout))]
    <3> SUFFICES ASSUME NEW t \in threads
                 PROVE  t \in [job : Job, used : 0..(Operations * (FetchTimeout + ForwardTimeout))]
      OBVIOUS
    <3>1. t \in [job : Job, used : Nat] /\ t.used <= CallLimit(t.job)
      BY <2>1 DEF JobsOK
    <3> DEFINE a == Operations * FetchTimeout
               b == Operations * ForwardTimeout
    <3>2. CallLimit(t.job) \in {a, b} /\ a \in Nat /\ b \in Nat
      BY CallLimitType
    <3>3. Operations * (FetchTimeout + ForwardTimeout) = a + b
      BY DispatchAssumption
    <3> HIDE DEF a, b
    <3>4. t.used \in 0..(Operations * (FetchTimeout + ForwardTimeout))
      BY <3>1, <3>2, <3>3
    <3> QED BY <3>1, <3>4
  <2>5. arrivals \in [Request -> Nat]
    BY <2>1 DEF Arrivals, ArrivalsOK
  <2>6. counter \in 0..MaxRequests
    BY <2>0, <2>1, <2>2 DEF Records
  <2>7. ASSUME phase = "up"
        PROVE  Cardinality(FetchesWaiting) + Cardinality(FetchesRunning)
                   = (IF poller = 0 THEN 0 ELSE 1)
    <3>1. \A S : (S = {} => Cardinality(S) = 0) /\ \A x : S = {x} => Cardinality(S) = 1
      BY FS_EmptySet, FS_Singleton
    <3>2. \/ poller = 0 /\ FetchesWaiting = {} /\ FetchesRunning = {}
          \/ poller # 0 /\ FetchesWaiting = {} /\ \E t : FetchesRunning = {t}
          \/ poller # 0 /\ FetchesRunning = {} /\ \E i : FetchesWaiting = {i}
      BY <1>1, <2>1, <2>7, SameSets DEF Poller, PollerOK
    <3> QED BY <3>1, <3>2
  <2>8. backlog \in Seq(Job) /\ Cardinality(threads) <= Workers
    BY <2>1 DEF JobsOK, Pool
  <2> QED BY <2>1, <2>2, <2>3, <2>4, <2>5, <2>6, <2>7, <2>8 DEF DispatchTypeOK, Records, Asked
<1> QED BY <1>1, DispatchInvariant, PTL

\* However forwards time out, and however often the coordinator stops or crashes with
\* forwards under way, a request reaches its node at most once.
ReachedOnce == \A u \in Request : arrivals[u] <= 1

THEOREM ReachesAtMostOnce == Spec => []ReachedOnce
<1>1. DispatchInv => ReachedOnce
  BY DEF DispatchInv, Arrivals, ArrivalsOK, ReachedOnce
<1> QED BY <1>1, DispatchInvariant, PTL

-----------------------------------------------------------------------------
\* What is outstanding after a step, and which requests may be given up.
LEMMA SameSetsNext ==
    ASSUME DispatchInv'
    PROVE  /\ Outstanding' = OpenIn(backlog', threads')
           /\ DOMAIN submitted' = 1..Len(submitted')
<1>1. backlog' \in Seq(Job)
  BY DEF DispatchInv, Jobs, JobsOK
<1>2. DOMAIN backlog' = 1..Len(backlog')
  BY <1>1
<1>3. submitted' \in Seq(Asked)
  BY DEF DispatchInv, Records, Asked
<1>4. DOMAIN submitted' = 1..Len(submitted')
  BY <1>3
<1> QED BY <1>2, <1>4 DEF Outstanding, OpenIn

\* A job of a thread comes to its end: its request, if it has one, is dealt with.
LEMMA ThreadTurnDelivers ==
    ASSUME DispatchInv, DispatchInv', NEW t \in threads, ThreadTurn(t)
    PROVE  D!Next
<1>1. /\ Outstanding = OpenIn(backlog, threads) /\ Outstanding' = OpenIn(backlog', threads')
      /\ Outstanding' = Outstanding \ {t.job.request}
      /\ submitted' = submitted /\ phase' = phase /\ behaves' = behaves
      /\ DOMAIN submitted = 1..Len(submitted)
  <2>1. ThreadEnds(t)
    BY DEF ThreadTurn, NodeAnswers, JobFails, JobTimesOut
  <2> QED BY <2>1, ThreadEndsFacts, SameSets, SameSetsNext
<1>2. CASE t.job.kind = "fetch"
  <2>1. t.job.request = 0 /\ 0 \notin Outstanding
    BY <1>2, RunningJob DEF Outstanding, Request
  <2>2. arrivals' = arrivals
    BY <1>2 DEF ThreadTurn, NodeAnswers, JobFails, JobTimesOut
  <2> QED BY <1>1, <2>1, <2>2 DEF D!Next
<1>3. CASE t.job.kind = "forward"
  <2> DEFINE u == t.job.request
  <2>1. /\ u \in Request /\ u \in Outstanding /\ u \in DOMAIN submitted
        /\ t.job.to = submitted[u].node /\ arrivals[u] = 0
    BY <1>1, <1>3, RunningJob
  <2>2. arrivals \in [Request -> 0..1]
    BY DEF DispatchInv, Arrivals, ArrivalsOK
  <2> DEFINE may == IF phase # "up" THEN Request
                    ELSE {v \in DOMAIN submitted : behaves[submitted[v].node] # "up"}
  <2>3. Arrives(t.job) \/ (arrivals' = arrivals /\ behaves[t.job.to] # "up")
    BY <1>3 DEF ThreadTurn, NodeAnswers, JobFails, JobTimesOut, Answers
  <2>4. PICK given \in SUBSET {u} :
            /\ {u} \ given \subseteq may
            /\ arrivals' = [r \in Request |-> IF r \in given THEN arrivals[r] + 1 ELSE arrivals[r]]
    <3>1. CASE Arrives(t.job)
      <4>1. arrivals' = [r \in Request |-> IF r \in {u} THEN arrivals[r] + 1 ELSE arrivals[r]]
        BY <2>1, <2>2, <3>1 DEF Arrives
      <4> QED BY <4>1
    <3>2. CASE arrivals' = arrivals /\ behaves[t.job.to] # "up"
      <4> DEFINE no == {}
      <4>1. /\ arrivals' = [r \in Request |-> IF r \in no THEN arrivals[r] + 1 ELSE arrivals[r]]
            /\ no \in SUBSET {u}
        BY <2>2, <3>2
      <4>2. u \in may
        BY <2>1, <3>2
      <4> HIDE DEF no, may
      <4> QED BY <4>1, <4>2
    <3> QED BY <2>3, <3>1, <3>2
  <2>5. D!Close({u}, given)
    <3>1. {u} \subseteq Outstanding /\ {u} # {} /\ given \subseteq {u}
      BY <2>1
    <3>2. Outstanding' = Outstanding \ {u}
      BY <1>1
    <3>3. DOMAIN submitted' \ Outstanding' = (DOMAIN submitted \ Outstanding) \cup {u}
      BY <1>1, <2>1
    <3> QED BY <2>4, <3>1, <3>2, <3>3 DEF D!Close
  <2>6. {u} \in SUBSET Request /\ given \in SUBSET {u}
    BY <2>1
  <2> QED BY <2>5, <2>6 DEF D!Next
<1> QED BY <1>2, <1>3, RunningJob

\* The requests that are outstanding are given up, because the coordinator goes down;
\* some of them may have reached their node.
LEMMA LossIsExcused ==
    ASSUME DispatchInv, DispatchInv', Cancel \/ Crash
    PROVE  D!Next
<1> DEFINE gone == Outstanding \ Outstanding'
<1>1. /\ Outstanding' \subseteq Outstanding /\ Outstanding \subseteq 1..Len(submitted)
      /\ submitted' = submitted /\ phase' # "up"
      /\ DOMAIN submitted = 1..Len(submitted) /\ Outstanding \subseteq Request
  <2>1. /\ Outstanding = OpenIn(backlog, threads) /\ Outstanding' = OpenIn(backlog', threads')
        /\ OpenIn(backlog', threads') \subseteq OpenIn(backlog, threads)
        /\ DOMAIN submitted = 1..Len(submitted)
    BY SameSets, SameSetsNext, JobsLostKeeps
  <2>2. submitted' = submitted /\ phase' # "up"
    BY DEF Cancel, Crash, coordinatorVars
  <2>3. ASSUME NEW u \in Outstanding PROVE u \in 1..Len(submitted)
    BY <2>1, OpenIsAsked
  <2>4. Outstanding \subseteq Request
    BY DEF Outstanding
  <2> QED BY <2>1, <2>2, <2>3, <2>4
<1>2. PICK sent \in SUBSET gone :
          arrivals' = [r \in Request |-> IF r \in sent THEN arrivals[r] + 1 ELSE arrivals[r]]
  <2>1. arrivals \in [Request -> 0..1]
    BY DEF DispatchInv, Arrivals, ArrivalsOK
  <2>2. CASE Cancel
    <3> DEFINE no == {}
    <3>1. /\ arrivals' = [r \in Request |-> IF r \in no THEN arrivals[r] + 1 ELSE arrivals[r]]
          /\ no \in SUBSET gone
      BY <2>1, <2>2 DEF Cancel
    <3> HIDE DEF no
    <3> QED BY <3>1
  <2>3. CASE Crash
    <3>1. PICK some \in SUBSET {u \in Request : \E t \in threads : t.job.request = u} :
             arrivals' = [u \in Request |-> arrivals[u] + IF u \in some THEN 1 ELSE 0]
      BY <2>3 DEF Crash
    <3>2. some \subseteq Outstanding
      BY DEF Outstanding
    <3>3. Outstanding' = {}
      <4>1. backlog' = <<>> /\ threads' = {} /\ DOMAIN backlog' = {}
        BY <2>3 DEF Crash
      <4> QED BY <4>1 DEF Outstanding
    <3>4. arrivals' = [r \in Request |-> IF r \in some THEN arrivals[r] + 1 ELSE arrivals[r]]
      BY <2>1, <3>1
    <3> QED BY <3>2, <3>3, <3>4
  <2> QED BY <2>2, <2>3
<1>3. CASE gone = {}
  <2>1. arrivals' = arrivals
    <3>1. arrivals \in [Request -> 0..1]
      BY DEF DispatchInv, Arrivals, ArrivalsOK
    <3> QED BY <1>2, <1>3, <3>1
  <2>2. Outstanding' = Outstanding
    BY <1>1, <1>3
  <2> QED BY <1>1, <2>1, <2>2 DEF D!Next
<1>4. CASE gone # {}
  <2>1. D!Close(gone, sent)
    <3>1. gone \subseteq Outstanding /\ gone # {} /\ sent \subseteq gone
      BY <1>4
    <3>2. gone \ sent \subseteq Request
      BY <1>1
    <3>3. Outstanding' = Outstanding \ gone
      BY <1>1
    <3>4. DOMAIN submitted' \ Outstanding' = (DOMAIN submitted \ Outstanding) \cup gone
      BY <1>1
    <3> HIDE DEF gone
    <3> QED BY <1>1, <1>2, <3>1, <3>2, <3>3, <3>4 DEF D!Close
  <2>2. gone \in SUBSET Request /\ sent \in SUBSET gone
    BY <1>1
  <2> HIDE DEF gone
  <2> QED BY <2>1, <2>2 DEF D!Next
<1> QED BY <1>3, <1>4

\* Every step of the coordinator and its nodes accepts a request, deals with some, each
\* delivered once or given up for a reason, or changes nothing a client sees.
THEOREM StepsAreDelivery == Spec => D!Init /\ [][D!Next]_(D!deliveryVars)
<1>1. ASSUME Init PROVE D!Init
  <2>1. DispatchInv
    BY <1>1, DispatchStarts
  <2>2. /\ DOMAIN backlog = {1} /\ backlog[1].request = 0 /\ threads = {} /\ DOMAIN submitted = {}
        /\ 0 \notin Request
    <3>1. backlog = <<Fetch(1)>> /\ threads = {} /\ submitted = <<>>
      BY <1>1 DEF Init
    <3> QED BY <3>1 DEF Fetch, Request
  <2>3. Outstanding = {}
    BY <2>2 DEF Outstanding
  <2>4. DOMAIN submitted \subseteq Request
    BY <2>2
  <2> QED BY <1>1, <2>2, <2>3, <2>4 DEF D!Init, Init
<1>2. ASSUME DispatchInv, DispatchInv', [Next]_dispatchVars PROVE [D!Next]_(D!deliveryVars)
  <2>1. /\ Outstanding = OpenIn(backlog, threads) /\ Outstanding' = OpenIn(backlog', threads')
        /\ DOMAIN submitted = 1..Len(submitted) /\ DOMAIN submitted' = 1..Len(submitted')
    BY <1>2, SameSets, SameSetsNext
  <2>2. CASE \E n \in Node : Submit(n)
    <3> DEFINE u == Len(submitted) + 1
    <3>1. PICK n \in Node : Submit(n)
      BY <2>2
    <3>2. /\ submitted \in Seq(Asked) /\ Len(submitted) \in Nat /\ u \in Request
          /\ u <= MaxRequests /\ MaxRequests \in Nat
      <4>1. submitted \in Seq(Asked) /\ Len(submitted) \in Nat
        BY <1>2 DEF DispatchInv, Records, Asked
      <4>2. u <= MaxRequests /\ MaxRequests \in Nat
        BY <3>1, DispatchAssumption DEF Submit
      <4> QED BY <4>1, <4>2 DEF Request
    <3>3. Outstanding' = Outstanding \cup {u} /\ u \notin Outstanding
      <4>1. OpenIn(backlog', threads') = OpenIn(backlog, threads) \cup {u}
        BY <1>2, <3>1, SubmitKeeps
      <4>2. u \notin OpenIn(backlog, threads)
        BY <1>2, <3>1, <3>2, OpenIsAsked
      <4> QED BY <4>1, <4>2, <2>1
    <3>4. DOMAIN submitted' = DOMAIN submitted \cup {u} /\ u \notin DOMAIN submitted
      <4>1. Len(submitted') = u
        BY <3>1, <3>2 DEF Submit
      <4> QED BY <4>1, <2>1, <3>2
    <3>5. arrivals' = arrivals
      BY <3>1 DEF Submit
    <3>6. D!Accept(u)
      BY <3>3, <3>4, <3>5 DEF D!Accept
    <3> QED BY <3>2, <3>6 DEF D!Next
  <2>3. CASE \E t \in threads : NodeAnswers(t) \/ JobFails(t) \/ JobTimesOut(t)
    BY <1>2, <2>3, ThreadTurnDelivers DEF ThreadTurn
  <2>4. CASE Cancel \/ Crash
    BY <1>2, <2>4, LossIsExcused
  <2>5. ASSUME OpenIn(backlog', threads') = OpenIn(backlog, threads),
               submitted' = submitted, arrivals' = arrivals
        PROVE  D!Next
    BY <2>1, <2>5 DEF D!Next
  <2>6. CASE ThreadStarts
    BY <1>2, <2>5, <2>6, ThreadStartsKeeps DEF ThreadStarts, coordinatorVars
  <2>7. CASE PollerWakes
    BY <1>2, <2>5, <2>7, PollerWakesKeeps DEF PollerWakes, coordinatorVars
  <2>8. CASE Flush \/ Stop \/ NodesChange
    BY <2>5, <2>8 DEF Flush, Stop, NodesChange, coordinatorVars
  <2>9. CASE Exit \/ Start
    <3>1. OpenIn(backlog', threads') = OpenIn(backlog, threads)
      BY <1>2, <2>9, RestartKeeps
    <3>2. submitted' = submitted /\ arrivals' = arrivals
      BY <2>9 DEF Exit, Start, coordinatorVars
    <3> QED BY <2>5, <3>1, <3>2
  <2>10. CASE Tick
    <3>1. OpenIn(backlog', threads') = OpenIn(backlog, threads)
      BY <1>2, <2>10, TickKeeps
    <3>2. submitted' = submitted /\ arrivals' = arrivals
      BY <2>10 DEF Tick, coordinatorVars
    <3> QED BY <2>5, <3>1, <3>2
  <2>11. CASE UNCHANGED dispatchVars
    BY <2>5, <2>11 DEF dispatchVars, coordinatorVars
  <2> QED BY <1>2, <2>2, <2>3, <2>4, <2>6, <2>7, <2>8, <2>9, <2>10, <2>11 DEF Next
<1> QED BY <1>1, <1>2, DispatchInvariant, PTL DEF Spec

-----------------------------------------------------------------------------
\* How old metrics get.

\* How long a fetch and a forward can last.
FetchLimit   == Operations * FetchTimeout
ForwardLimit == Operations * ForwardTimeout

\* A round of the poller in which every fetch lasts as long as it can.
Round == PollInterval + NodeCount * FetchLimit

\* From the end of the fetch of node k to the end of the one of n, at most.
Between(k, n) ==
    IF k < n THEN (n - k) * FetchLimit
    ELSE (NodeCount - k) * FetchLimit + PollInterval + n * FetchLimit

\* How long the fetch under way may still run.
FetchLeft(run) ==
    IF FetchIn(run) = {} THEN FetchLimit
    ELSE FetchLimit - (CHOOSE t \in FetchIn(run) : TRUE).used

\* The same to the end of n's fetch from where the poller is, but for the time for which
\* a fetch waits for a thread.
Ahead(asks, nap, left, n) ==
    IF asks = 0 THEN nap + n * FetchLimit
    ELSE IF asks = n THEN left ELSE left + Between(asks, n)

\* The ticks for which forwards, of the requests to come as well, may still hold a
\* thread: tick s of the forward of u is <<u, s>>.
Owed(asked, wait, run) == {w \in Request \X (1..ForwardLimit) :
    \/ w[1] > Len(asked)
    \/ \E i \in 1..Len(wait) : wait[i].request = w[1]
    \/ \E t \in run : t.job.request = w[1] /\ t.used < w[2]}

Allowance == Workers * Round + MaxRequests * ForwardLimit

\* What is left of the round and of the forwards keeps n's metrics from getting older
\* than they may.
Fits(old, ahead, owed) == Workers * (old + ahead) + Cardinality(owed) <= Allowance

PollersFetch(asks, wait, run) ==
    /\ \A t \in run : t.job.kind = "fetch" => t.job.to = asks
    /\ \A i \in 1..Len(wait) : wait[i].kind = "fetch" => wait[i].to = asks

\* While the coordinator runs: the fetch under way is of the node the poller awaits, the
\* age of a node that does not answer is not counted, and every other one fits.
Staleness == phase = "up" =>
    /\ PollersFetch(poller, backlog, threads)
    /\ \A n \in Node : ~Answers(n) => age[n] = 0
    /\ \A n \in Node : Fits(age[n], Ahead(poller, sleep, FetchLeft(threads), n),
                            Owed(submitted, backlog, threads))

LEMMA NumberFacts ==
    /\ NodeCount \in Nat \ {0} /\ Workers \in Nat \ {0} /\ PollInterval \in Nat \ {0}
    /\ FetchLimit \in Nat \ {0} /\ ForwardLimit \in Nat \ {0} /\ MaxRequests \in Nat
    /\ Node = 1..NodeCount
BY DispatchAssumption, CallLimitType DEF Node, FetchLimit, ForwardLimit

LEMMA TimesMonotone ==
    ASSUME NEW a \in Int, NEW b \in Int, a <= b, NEW f \in Nat
    PROVE  f * a <= f * b /\ f * a \in Int /\ f * b \in Int
<1>1. PICK d \in Nat : b = a + d
  OBVIOUS
<1>2. f * d \in Nat /\ f * a \in Int
  OBVIOUS
<1>3. f * b = f * a + f * d
  BY <1>1
<1> QED BY <1>2, <1>3

\* The way to any node's fetch is at most a round.
LEMMA AheadInRound ==
    ASSUME NEW asks \in 0..NodeCount, NEW nap \in 0..PollInterval,
           NEW left \in 0..FetchLimit, NEW n \in Node
    PROVE  Ahead(asks, nap, left, n) \in Nat /\ Ahead(asks, nap, left, n) <= Round
<1> DEFINE f == FetchLimit
           N == NodeCount
<1>1. f \in Nat /\ N \in Nat \ {0} /\ n \in 1..N /\ PollInterval \in Nat /\ asks \in 0..N
  BY NumberFacts
<1>2. f * n \in Nat /\ f * n <= f * N /\ f <= f * N /\ f * N \in Nat
  <2>1. f * 1 <= f * N /\ f * 1 = f /\ f * N \in Nat
    BY <1>1, TimesMonotone
  <2> QED BY <1>1, <2>1, TimesMonotone
<1>3. CASE asks = 0
  BY ONLY <1>1, <1>2, <1>3, nap \in 0..PollInterval DEF Ahead, Round
<1>4. CASE asks = n
  BY <1>1, <1>2, <1>4 DEF Ahead, Round
<1>5. CASE asks # 0 /\ asks < n
  <2>1. f * (n - asks) \in Nat /\ f * (n - asks) <= f * (N - 1)
    <3>1. n - asks \in Nat /\ n - asks <= N - 1 /\ N - 1 \in Nat
      BY <1>1, <1>5
    <3> QED BY <3>1, <1>1, TimesMonotone
  <2>2. f * N = f * (N - 1) + f
    BY <1>1
  <2>3. Ahead(asks, nap, left, n) = left + f * (n - asks)
    BY <1>1, <1>5 DEF Ahead, Between
  <2>4. Round = PollInterval + f * N
    BY <1>1 DEF Round
  <2>5. f * (N - 1) \in Int /\ f * N \in Int
    BY <1>1
  <2> DEFINE x == f * (n - asks)
             y == f * (N - 1)
  <2> HIDE DEF x, y
  <2> QED BY <1>1, <2>1, <2>2, <2>3, <2>4, <2>5 DEF x, y
<1>6. CASE asks > n
  <2>1. f * (N - asks) \in Nat /\ f * n \in Nat
    BY <1>1
  <2>2. f * (N - asks) + f * n <= f * (N - 1)
    <3>1. f * (N - asks) + f * n = f * (N - asks + n)
      BY <1>1
    <3>2. N - asks + n \in Int /\ N - asks + n <= N - 1 /\ N - 1 \in Int
      BY <1>1, <1>6
    <3> QED BY <3>1, <3>2, <1>1, TimesMonotone
  <2>3. f * N = f * (N - 1) + f /\ f * (N - 1) \in Int
    BY <1>1
  <2>4. Ahead(asks, nap, left, n) = left + (f * (N - asks) + PollInterval + f * n)
    BY <1>1, <1>6 DEF Ahead, Between
  <2>5. Round = PollInterval + f * N
    BY <1>1 DEF Round
  <2> DEFINE x == f * (N - asks)
             z == f * n
             y == f * (N - 1)
  <2> HIDE DEF x, y, z
  <2> QED BY <1>1, <2>1, <2>2, <2>3, <2>4, <2>5 DEF x, y, z
<1> QED BY <1>1, <1>3, <1>4, <1>5, <1>6

\* When a fetch ends the way to another node's is no longer than it was.
LEMMA AheadGoesOn ==
    ASSUME NEW asks \in 1..NodeCount, NEW nap, NEW left \in 0..FetchLimit,
           NEW n \in Node, n # asks
    PROVE  /\ asks < NodeCount =>
                 Ahead(asks + 1, nap, FetchLimit, n) <= Ahead(asks, nap, left, n)
           /\ asks = NodeCount =>
                 Ahead(0, PollInterval, FetchLimit, n) <= Ahead(asks, nap, left, n)
<1> DEFINE f == FetchLimit
           N == NodeCount
<1>1. /\ f \in Nat /\ N \in Nat \ {0} /\ n \in 1..N /\ PollInterval \in Nat /\ asks \in 1..N
      /\ left \in Nat /\ asks # 0 /\ asks + 1 # 0
  BY NumberFacts
<1>2. CASE asks < n
  <2>1. Ahead(asks, nap, left, n) = left + f * (n - asks)
    BY <1>1, <1>2 DEF Ahead, Between
  <2>2. f * (n - asks) \in Nat
    BY <1>1, <1>2
  <2>3. CASE asks + 1 = n
    <3>1. Ahead(asks + 1, nap, f, n) = f
      BY <1>1, <2>3 DEF Ahead
    <3>2. n - asks = 1 /\ f * 1 = f
      BY <1>1, <2>3
    <3> QED BY <1>1, <1>2, <2>1, <2>3, <3>1, <3>2
  <2>4. CASE asks + 1 < n
    <3>1. Ahead(asks + 1, nap, f, n) = f + f * (n - (asks + 1))
      BY <1>1, <2>4 DEF Ahead, Between
    <3>2. f + f * (n - (asks + 1)) = f * (n - asks)
      BY <1>1
    <3> QED BY <1>1, <1>2, <2>1, <2>2, <3>1, <3>2
  <2> QED BY <1>1, <1>2, <2>3, <2>4
<1>3. CASE asks > n
  <2>1. Ahead(asks, nap, left, n) = left + (f * (N - asks) + PollInterval + f * n)
    BY <1>1, <1>3 DEF Ahead, Between
  <2>2. f * (N - asks) \in Nat /\ f * n \in Nat
    BY <1>1
  <2>3. CASE asks < N
    <3>1. Ahead(asks + 1, nap, f, n) = f + (f * (N - (asks + 1)) + PollInterval + f * n)
      BY <1>1, <1>3 DEF Ahead, Between
    <3>2. f + f * (N - (asks + 1)) = f * (N - asks) /\ f * (N - (asks + 1)) \in Int
      BY <1>1
    <3> QED BY <1>1, <2>1, <2>2, <2>3, <3>1, <3>2
  <2>4. CASE asks = N
    <3>1. Ahead(0, PollInterval, f, n) = PollInterval + f * n
      BY <1>1 DEF Ahead
    <3>2. f * (N - asks) = 0
      BY <1>1, <2>4
    <3> QED BY <1>1, <2>1, <2>2, <2>4, <3>1, <3>2
  <2> QED BY <1>1, <2>3, <2>4
<1> QED BY <1>1, <1>2, <1>3

\* Nor is it when the poller wakes.
LEMMA AheadWakes ==
    ASSUME NEW nap, NEW left, NEW n \in Node
    PROVE  Ahead(1, nap, FetchLimit, n) <= Ahead(0, 0, left, n)
<1> DEFINE f == FetchLimit
<1>1. f \in Nat /\ n \in Nat /\ n >= 1
  BY NumberFacts
<1>2. Ahead(0, 0, left, n) = f * n /\ f * n \in Nat
  BY <1>1 DEF Ahead
<1>3. CASE n = 1
  BY <1>1, <1>2, <1>3 DEF Ahead
<1>4. CASE n # 1
  <2>1. Ahead(1, nap, f, n) = f + f * (n - 1)
    BY <1>1, <1>4 DEF Ahead, Between
  <2>2. f + f * (n - 1) = f * n
    BY <1>1
  <2> QED BY <1>2, <2>1, <2>2
<1> QED BY <1>3, <1>4

\* What fits still fits when less is ahead or less is owed.
LEMMA FitsLess ==
    ASSUME NEW old \in Nat, NEW older \in Nat, NEW ahead \in Nat, NEW nearer \in Nat,
           NEW owed, NEW less, Cardinality(owed) \in Nat, Cardinality(less) \in Nat,
           Cardinality(less) <= Cardinality(owed), older + nearer <= old + ahead,
           Fits(old, ahead, owed)
    PROVE  Fits(older, nearer, less)
<1> DEFINE x == old + ahead
           y == older + nearer
           c == Cardinality(owed)
           d == Cardinality(less)
<1>1. Workers \in Nat /\ x \in Int /\ y \in Int /\ y <= x /\ c \in Nat /\ d \in Nat /\ d <= c
  BY NumberFacts
<1>2. Workers * x + c <= Allowance /\ Allowance \in Int
  <2>1. Allowance \in Int
    BY NumberFacts DEF Allowance, Round
  <2> QED BY <2>1 DEF Fits
<1> HIDE DEF x, y, c, d
<1>3. Workers * y <= Workers * x /\ Workers * y \in Int /\ Workers * x \in Int
  BY <1>1, TimesMonotone
<1>4. Workers * y + d <= Allowance
  <2> DEFINE p == Workers * y
             q == Workers * x
  <2> HIDE DEF p, q
  <2> QED BY <1>1, <1>2, <1>3 DEF p, q
<1> QED BY <1>4 DEF Fits, y, d

\* A tick in which forwards hold every thread is paid for by what they are owed.
LEMMA FitsBusy ==
    ASSUME NEW old \in Nat, NEW ahead \in Nat, NEW owed, NEW less,
           Cardinality(owed) \in Nat, Cardinality(less) \in Nat,
           Cardinality(less) + Workers <= Cardinality(owed),
           Fits(old, ahead, owed)
    PROVE  Fits(old + 1, ahead, less)
<1> DEFINE x == old + ahead
           c == Cardinality(owed)
           d == Cardinality(less)
<1>1. Workers \in Nat /\ x \in Int /\ c \in Nat /\ d \in Nat /\ d + Workers <= c
  BY NumberFacts
<1>2. Workers * x + c <= Allowance /\ Allowance \in Int
  <2>1. Allowance \in Int
    BY NumberFacts DEF Allowance, Round
  <2> QED BY <2>1 DEF Fits
<1>3. (old + 1) + ahead = x + 1
  OBVIOUS
<1> HIDE DEF x, c, d
<1>4. Workers * (x + 1) = Workers * x + Workers /\ Workers * x \in Int
  BY <1>1
<1>5. Workers * (x + 1) + d <= Allowance
  <2> DEFINE q == Workers * x
  <2> HIDE DEF q
  <2> QED BY <1>1, <1>2, <1>4 DEF q
<1> QED BY <1>3, <1>5 DEF Fits, d

\* There are as many ticks owed as forwards have, at most.
LEMMA OwedCounted ==
    ASSUME NEW asked, NEW wait, NEW run
    PROVE  /\ IsFiniteSet(Owed(asked, wait, run)) /\ Cardinality(Owed(asked, wait, run)) \in Nat
           /\ Cardinality(Owed(asked, wait, run)) <= MaxRequests * ForwardLimit
<1> DEFINE all == Request \X (1..ForwardLimit)
<1>1. IsFiniteSet(Request) /\ Cardinality(Request) = MaxRequests
  BY NumberFacts, FS_Interval DEF Request
<1>2. IsFiniteSet(1..ForwardLimit) /\ Cardinality(1..ForwardLimit) = ForwardLimit
  BY NumberFacts, FS_Interval
<1>3. IsFiniteSet(all) /\ Cardinality(all) = MaxRequests * ForwardLimit
  BY <1>1, <1>2, FS_Product
<1>4. Owed(asked, wait, run) \in SUBSET all
  BY DEF Owed
<1> HIDE DEF all
<1>5. /\ IsFiniteSet(Owed(asked, wait, run))
      /\ Cardinality(Owed(asked, wait, run)) <= Cardinality(all)
  BY <1>3, <1>4, FS_Subset
<1> QED BY <1>3, <1>5, FS_CardinalityType

LEMMA OwedFewer ==
    ASSUME NEW owed, NEW less, less \subseteq owed, IsFiniteSet(owed)
    PROVE  Cardinality(less) <= Cardinality(owed)
BY FS_Subset

\* A node whose metrics have just come fits.
LEMMA FreshFits ==
    ASSUME NEW ahead \in Nat, ahead <= Round, NEW asked, NEW wait, NEW run
    PROVE  Fits(0, ahead, Owed(asked, wait, run))
<1> DEFINE c == Cardinality(Owed(asked, wait, run))
<1>1. c \in Nat /\ c <= MaxRequests * ForwardLimit
  BY OwedCounted
<1>2. Round \in Int /\ Workers \in Nat /\ MaxRequests * ForwardLimit \in Int
  BY NumberFacts DEF Round
<1>3. Workers * ahead <= Workers * Round /\ Workers * ahead \in Int /\ Workers * Round \in Int
  BY <1>2, TimesMonotone
<1>4. Workers * (0 + ahead) = Workers * ahead
  OBVIOUS
<1> HIDE DEF c
<1>5. Workers * ahead + c <= Allowance
  <2> DEFINE p == Workers * ahead
             q == Workers * Round
             r == MaxRequests * ForwardLimit
  <2>1. Allowance = q + r
    BY DEF Allowance
  <2> HIDE DEF p, q, r
  <2> QED BY <1>1, <1>2, <1>3, <2>1 DEF p, q, r
<1> QED BY <1>4, <1>5 DEF Fits, c

\* The fetch under way has at most its limit left.
LEMMA FetchLeftType ==
    ASSUME NEW asked, NEW wait, NEW run, JobsOK(wait, run, asked)
    PROVE  /\ FetchLeft(run) \in 0..FetchLimit
           /\ \A t \in run : FetchIn(run) = {t} => FetchLeft(run) = FetchLimit - t.used
<1>1. CASE FetchIn(run) = {}
  BY <1>1, NumberFacts DEF FetchLeft
<1>2. CASE FetchIn(run) # {}
  <2>1. PICK t : t = (CHOOSE v \in FetchIn(run) : TRUE)
    OBVIOUS
  <2>2. t \in FetchIn(run)
    BY <1>2, <2>1
  <2>3. t.used \in Nat /\ t.used <= FetchLimit
    BY <2>2, CallLimitType DEF FetchIn, JobsOK, FetchLimit
  <2>4. FetchLeft(run) = FetchLimit - t.used
    BY <1>2, <2>1 DEF FetchLeft
  <2> QED BY <2>2, <2>3, <2>4, NumberFacts
<1> QED BY <1>1, <1>2

\* Nothing gets older against what is ahead, or it is fresh.
LEMMA StalenessStep ==
    ASSUME DispatchInv, DispatchInv', phase = "up", Staleness,
           PollersFetch(poller', backlog', threads'),
           \A n \in Node : ~Answers(n)' => age'[n] = 0,
           Owed(submitted', backlog', threads') \subseteq Owed(submitted, backlog, threads),
           \A n \in Node :
               \/ age'[n] = 0
               \/ age'[n] + Ahead(poller', sleep', FetchLeft(threads'), n)
                      <= age[n] + Ahead(poller, sleep, FetchLeft(threads), n)
    PROVE  Staleness'
<1> SUFFICES ASSUME NEW n \in Node
             PROVE  Fits(age'[n], Ahead(poller', sleep', FetchLeft(threads'), n),
                         Owed(submitted', backlog', threads'))
  BY DEF Staleness, PollersFetch
<1> DEFINE a == Ahead(poller, sleep, FetchLeft(threads), n)
           b == Ahead(poller', sleep', FetchLeft(threads'), n)
           o == Owed(submitted, backlog, threads)
           p == Owed(submitted', backlog', threads')
<1>1. /\ age[n] \in Nat /\ age'[n] \in Nat
      /\ poller \in 0..NodeCount /\ sleep \in 0..PollInterval
      /\ poller' \in 0..NodeCount /\ sleep' \in 0..PollInterval
  BY DEF DispatchInv, Records
<1>2. FetchLeft(threads) \in 0..FetchLimit /\ FetchLeft(threads') \in 0..FetchLimit
  <2>1. JobsOK(backlog, threads, submitted) /\ JobsOK(backlog', threads', submitted')
    BY DEF DispatchInv, Jobs
  <2> QED BY <2>1, FetchLeftType
<1>3. a \in Nat /\ b \in Nat /\ b <= Round
  BY <1>1, <1>2, AheadInRound
<1>4. IsFiniteSet(o) /\ Cardinality(o) \in Nat /\ Cardinality(p) \in Nat
  BY OwedCounted
<1>5. Cardinality(p) <= Cardinality(o)
  BY <1>4, OwedFewer
<1>6. Fits(age[n], a, o)
  BY DEF Staleness
<1>7. CASE age'[n] = 0
  BY <1>3, <1>7, FreshFits
<1>8. CASE age'[n] + b <= age[n] + a
  <2> HIDE DEF a, b, o, p
  <2>1. Fits(age'[n], b, p)
    BY ONLY <1>1, <1>3, <1>4, <1>5, <1>6, <1>8, FitsLess
  <2> QED BY <2>1 DEF b, p
<1> QED BY <1>7, <1>8

\* The same where only what waits and what runs has changed.
LEMMA StalenessKept ==
    ASSUME DispatchInv, DispatchInv', phase = "up", Staleness,
           UNCHANGED <<poller, sleep, age, behaves>>,
           PollersFetch(poller, backlog', threads'),
           FetchLeft(threads') = FetchLeft(threads),
           Owed(submitted', backlog', threads') \subseteq Owed(submitted, backlog, threads)
    PROVE  Staleness'
<1>1. \A n \in Node : ~Answers(n)' => age'[n] = 0
  BY DEF Staleness, Answers
<1>2. ASSUME NEW n \in Node
      PROVE  age'[n] + Ahead(poller', sleep', FetchLeft(threads'), n)
                 <= age[n] + Ahead(poller, sleep, FetchLeft(threads), n)
  <2> DEFINE a == Ahead(poller, sleep, FetchLeft(threads), n)
  <2>1. age[n] \in Nat /\ poller \in 0..NodeCount /\ sleep \in 0..PollInterval
        /\ FetchLeft(threads) \in 0..FetchLimit
    BY FetchLeftType DEF DispatchInv, Records, Jobs
  <2>2. a \in Nat
    BY <2>1, AheadInRound
  <2> HIDE DEF a
  <2>3. age'[n] + a <= age[n] + a
    BY <2>1, <2>2
  <2> QED BY <2>3 DEF a
<1>3. PollersFetch(poller', backlog', threads')
  OBVIOUS
<1> QED BY <1>1, <1>2, <1>3, StalenessStep

LEMMA SubmitStaleness ==
    ASSUME DispatchInv, DispatchInv', Staleness, phase = "up", NEW m \in Node, Submit(m)
    PROVE  Staleness'
<1> DEFINE u == Len(submitted) + 1
           j == Forward(u, m)
<1>1. /\ backlog' = Append(backlog, j) /\ threads' = threads
      /\ Len(submitted') = u /\ Len(submitted) \in Nat /\ backlog \in Seq(Job)
      /\ j.kind = "forward" /\ j.request = u
      /\ UNCHANGED <<poller, sleep, age, behaves>>
  BY DEF Submit, DispatchInv, Records, Jobs, JobsOK, Forward
<1>2. /\ Len(backlog') = Len(backlog) + 1 /\ backlog'[Len(backlog) + 1] = j
      /\ \A i \in 1..Len(backlog) : backlog'[i] = backlog[i]
      /\ Len(backlog) \in Nat
  BY <1>1
<1> HIDE DEF u, j
<1>3. \A i \in 1..Len(backlog') : i \in 1..Len(backlog) \/ backlog'[i] = j
  BY <1>2
<1>4. PollersFetch(poller, backlog', threads')
  BY <1>1, <1>2, <1>3 DEF Staleness, PollersFetch
<1>5. Owed(submitted', backlog', threads') \subseteq Owed(submitted, backlog, threads)
  <2> SUFFICES ASSUME NEW w \in Owed(submitted', backlog', threads')
               PROVE  w \in Owed(submitted, backlog, threads)
    OBVIOUS
  <2>1. w \in Request \X (1..ForwardLimit) /\ w[1] \in Nat
    BY NumberFacts DEF Owed, Request
  <2>2. CASE w[1] > Len(submitted')
    BY <1>1, <2>1, <2>2 DEF Owed, u
  <2>3. CASE \E i \in 1..Len(backlog') : backlog'[i].request = w[1]
    BY <1>1, <1>2, <1>3, <2>1, <2>3 DEF Owed, u
  <2>4. CASE \E t \in threads' : t.job.request = w[1] /\ t.used < w[2]
    BY <1>1, <2>1, <2>4 DEF Owed
  <2> QED BY <2>2, <2>3, <2>4 DEF Owed
<1> QED BY <1>1, <1>4, <1>5, StalenessKept

LEMMA ThreadStartsStaleness ==
    ASSUME DispatchInv, DispatchInv', Staleness, phase = "up", ThreadStarts
    PROVE  Staleness'
<1> DEFINE t == [job |-> Head(backlog), used |-> 0]
<1>1. /\ submitted \in Seq(Asked) /\ Len(submitted) <= MaxRequests
      /\ JobsOK(backlog, threads, submitted) /\ backlog # <<>> /\ backlog \in Seq(Job)
      /\ backlog' = Tail(backlog) /\ threads' = threads \cup {t} /\ submitted' = submitted
      /\ UNCHANGED <<poller, sleep, age, behaves>>
      /\ PollerOK(poller, backlog, threads)
      /\ PollersFetch(poller, backlog, threads)
  BY DEF DispatchInv, Records, Asked, Jobs, JobsOK, ThreadStarts, coordinatorVars, Poller, Staleness
<1>2. /\ Len(backlog') = Len(backlog) - 1 /\ Len(backlog) \in Nat \ {0}
      /\ \A i \in 1..Len(backlog') : i + 1 \in 1..Len(backlog) /\ backlog'[i] = backlog[i + 1]
      /\ t.job = backlog[1] /\ t.used = 0 /\ 1 \in 1..Len(backlog)
  BY <1>1
<1>3. FetchIn(threads') = FetchIn(threads) \cup (IF 1 \in FetchAt(backlog) THEN {t} ELSE {})
  <2>1. Taken(backlog, threads, submitted, t)
    BY ONLY <1>1, JobStarts
  <2> QED BY <1>1, <2>1 DEF Taken
<1> HIDE DEF t
<1>4. PollersFetch(poller, backlog', threads')
  BY <1>1, <1>2 DEF PollersFetch
<1>5. FetchLeft(threads') = FetchLeft(threads)
  <2>1. CASE 1 \in FetchAt(backlog)
    <3>1. FetchIn(threads) = {} /\ FetchIn(threads') = {t}
      BY <1>1, <1>3, <2>1 DEF PollerOK
    <3>2. FetchLeft(threads') = FetchLimit - t.used
      BY <3>1 DEF FetchLeft
    <3> QED BY <1>2, <3>1, <3>2, NumberFacts DEF FetchLeft
  <2>2. CASE 1 \notin FetchAt(backlog)
    BY <1>3, <2>2 DEF FetchLeft
  <2> QED BY <2>1, <2>2
<1>6. Owed(submitted', backlog', threads') \subseteq Owed(submitted, backlog, threads)
  BY <1>1, <1>2 DEF Owed
<1> QED BY <1>1, <1>4, <1>5, <1>6, StalenessKept

LEMMA ThreadTurnStaleness ==
    ASSUME DispatchInv, DispatchInv', Staleness, phase = "up", NEW t \in threads, ThreadTurn(t)
    PROVE  Staleness'
<1>1. /\ ThreadEnds(t) /\ threads' = threads \ {t}
      /\ UNCHANGED <<phase, submitted, behaves>>
  BY DEF ThreadTurn, NodeAnswers, JobFails, JobTimesOut, ThreadEnds, coordinatorVars
<1>2. /\ t.job.to \in Node /\ t.job.kind \in {"fetch", "forward"}
      /\ JobsOK(backlog, threads, submitted) /\ backlog \in Seq(Job)
      /\ PollersFetch(poller, backlog, threads) /\ PollerOK(poller, backlog, threads)
  <2>1. t.job.to \in Node /\ (t.job.kind = "fetch" <=> t.job.kind # "forward")
        /\ JobsOK(backlog, threads, submitted) /\ backlog \in Seq(Job)
    BY RunningJob
  <2> QED BY <2>1 DEF Staleness, DispatchInv, Poller
<1>3. CASE t.job.kind = "forward"
  <2>1. UNCHANGED <<poller, sleep, backlog, age>>
    BY <1>1, <1>3 DEF ThreadTurn, NodeAnswers, JobFails, JobTimesOut, ThreadEnds
  <2>2. FetchLeft(threads') = FetchLeft(threads)
    <3>1. FetchIn(threads') = FetchIn(threads)
      BY <1>1, <1>3 DEF FetchIn
    <3> QED BY <3>1 DEF FetchLeft
  <2>3. PollersFetch(poller, backlog', threads')
    BY <1>1, <1>2, <2>1 DEF PollersFetch
  <2>4. Owed(submitted', backlog', threads') \subseteq Owed(submitted, backlog, threads)
    BY <1>1, <2>1 DEF Owed
  <2> QED BY <1>1, <2>1, <2>2, <2>3, <2>4, StalenessKept
<1>4. CASE t.job.kind = "fetch"
  <2>1. /\ poller = t.job.to /\ poller \in 1..NodeCount /\ PollerGoesOn(poller)
        /\ NodeCount \in Nat
    BY <1>1, <1>2, <1>4, NumberFacts DEF ThreadEnds, PollersFetch
  <2>2. FetchAt(backlog) = {} /\ FetchIn(threads) = {t} /\ FetchIn(threads') = {}
    <3>1. t \in FetchIn(threads)
      BY <1>4 DEF FetchIn
    <3>2. FetchAt(backlog) = {} /\ FetchIn(threads) = {t}
      BY <1>2, <3>1 DEF PollerOK
    <3> QED BY <1>1, <3>2 DEF FetchIn
  <2>3. FetchLeft(threads') = FetchLimit /\ FetchLeft(threads) \in 0..FetchLimit
    BY <1>2, <2>2, FetchLeftType DEF FetchLeft
  <2>4. \/ /\ poller < NodeCount /\ poller' = poller + 1 /\ sleep' = sleep
           /\ backlog' = Append(backlog, Fetch(poller + 1))
        \/ poller = NodeCount /\ poller' = 0 /\ sleep' = PollInterval /\ backlog' = backlog
    BY <2>1 DEF PollerGoesOn
  <2>5. PollersFetch(poller', backlog', threads')
    <3>1. \A v \in threads' : v.job.kind # "fetch"
      BY <2>2 DEF FetchIn
    <3>2. \A i \in 1..Len(backlog) : backlog[i].kind # "fetch"
      BY <2>2 DEF FetchAt
    <3>3. CASE backlog' = backlog
      BY <3>1, <3>2, <3>3 DEF PollersFetch
    <3>4. CASE poller' = poller + 1 /\ backlog' = Append(backlog, Fetch(poller + 1))
      <4>1. Fetch(poller + 1).to = poller'
        BY <3>4 DEF Fetch
      <4>2. \A i \in 1..Len(backlog') :
               (i \in 1..Len(backlog) /\ backlog'[i] = backlog[i]) \/ backlog'[i] = Fetch(poller + 1)
        BY <1>2, <3>4
      <4> QED BY <3>1, <3>2, <4>1, <4>2 DEF PollersFetch
    <3> QED BY <2>4, <3>3, <3>4
  <2>6. Owed(submitted', backlog', threads') \subseteq Owed(submitted, backlog, threads)
    <3>1. \A i \in 1..Len(backlog') :
              (i \in 1..Len(backlog) /\ backlog'[i] = backlog[i]) \/ backlog'[i].request = 0
      BY <1>2, <2>4 DEF Fetch
    <3>2. 0 \notin Request
      BY DEF Request
    <3> QED BY <1>1, <3>1, <3>2 DEF Owed
  <2>7. \A n \in Node : ~Answers(n)' => age'[n] = 0
    <3>1. age \in [Node -> Nat] /\ (age' = age \/ age' = [age EXCEPT ![t.job.to] = 0])
      BY DEF ThreadTurn, NodeAnswers, JobFails, JobTimesOut, DispatchInv, Records
    <3> QED BY <1>1, <3>1 DEF Staleness, Answers
  <2>8. ASSUME NEW n \in Node
        PROVE  \/ age'[n] = 0
               \/ age'[n] + Ahead(poller', sleep', FetchLeft(threads'), n)
                      <= age[n] + Ahead(poller, sleep, FetchLeft(threads), n)
    <3>1. CASE n = poller
      <4>1. CASE NodeAnswers(t)
        <5>1. age' = [age EXCEPT ![t.job.to] = 0] /\ age \in [Node -> Nat]
          BY <1>4, <4>1 DEF NodeAnswers, DispatchInv, Records
        <5> QED BY <5>1, <3>1, <2>1
      <4>2. CASE JobFails(t) \/ JobTimesOut(t)
        <5>1. age' = age /\ ~Answers(n)
          BY <4>2, <3>1, <2>1 DEF JobFails, JobTimesOut, Answers
        <5> QED BY <5>1 DEF Staleness
      <4> QED BY <4>1, <4>2 DEF ThreadTurn
    <3>2. CASE n # poller
      <4> DEFINE a == Ahead(poller, sleep, FetchLeft(threads), n)
                 b == Ahead(poller', sleep', FetchLeft(threads'), n)
      <4>1. /\ age'[n] = age[n] /\ age[n] \in Nat
            /\ sleep \in 0..PollInterval /\ sleep' \in 0..PollInterval /\ poller' \in 0..NodeCount
        BY <2>1, <3>2 DEF ThreadTurn, NodeAnswers, JobFails, JobTimesOut, DispatchInv, Records
      <4>2. a \in Nat /\ b \in Nat
        <5>1. poller \in 0..NodeCount /\ FetchLeft(threads') \in 0..FetchLimit
          BY <2>1, <2>3, NumberFacts
        <5> QED BY <2>3, <4>1, <5>1, AheadInRound
      <4>3. b <= a
        BY <2>1, <2>3, <2>4, <3>2, AheadGoesOn
      <4> HIDE DEF a, b
      <4>4. age'[n] + b <= age[n] + a
        BY <4>1, <4>2, <4>3
      <4> QED BY <4>4 DEF a, b
    <3> QED BY <3>1, <3>2
  <2> QED BY <2>5, <2>6, <2>7, <2>8, StalenessStep
<1> QED BY <1>2, <1>3, <1>4

LEMMA PollerWakesStaleness ==
    ASSUME DispatchInv, DispatchInv', Staleness, PollerWakes
    PROVE  Staleness'
<1>1. /\ phase = "up" /\ poller = 0 /\ sleep = 0 /\ poller' = 1 /\ sleep' = 0
      /\ backlog' = Append(backlog, Fetch(1)) /\ backlog \in Seq(Job)
      /\ UNCHANGED <<submitted, threads, behaves, age>>
  BY DEF PollerWakes, coordinatorVars, DispatchInv, Jobs, JobsOK
<1>2. FetchAt(backlog) = {} /\ FetchIn(threads) = {}
  BY <1>1 DEF DispatchInv, Poller, PollerOK
<1>3. \A i \in 1..Len(backlog') :
         (i \in 1..Len(backlog) /\ backlog'[i] = backlog[i]) \/ backlog'[i] = Fetch(1)
  BY <1>1
<1>4. PollersFetch(poller', backlog', threads')
  <2>1. \A v \in threads' : v.job.kind # "fetch"
    BY <1>1, <1>2 DEF FetchIn
  <2>2. \A i \in 1..Len(backlog) : backlog[i].kind # "fetch"
    BY <1>2 DEF FetchAt
  <2>3. Fetch(1).to = 1
    BY DEF Fetch
  <2> QED BY <1>1, <1>3, <2>1, <2>2, <2>3 DEF PollersFetch
<1>5. Owed(submitted', backlog', threads') \subseteq Owed(submitted, backlog, threads)
  <2>1. Fetch(1).request = 0 /\ 0 \notin Request
    BY DEF Fetch, Request
  <2> QED BY <1>1, <1>3, <2>1 DEF Owed
<1>6. \A n \in Node : ~Answers(n)' => age'[n] = 0
  BY <1>1 DEF Staleness, Answers
<1>7. FetchLeft(threads) = FetchLimit
  BY <1>2 DEF FetchLeft
<1>8. ASSUME NEW n \in Node
      PROVE  age'[n] + Ahead(poller', sleep', FetchLeft(threads'), n)
                 <= age[n] + Ahead(poller, sleep, FetchLeft(threads), n)
  <2> DEFINE a == Ahead(0, 0, FetchLimit, n)
             b == Ahead(1, 0, FetchLimit, n)
  <2>1. a \in Nat /\ b \in Nat
    <3>1. /\ 0 \in 0..NodeCount /\ 1 \in 0..NodeCount /\ 0 \in 0..PollInterval
          /\ FetchLimit \in 0..FetchLimit
      BY NumberFacts
    <3> QED BY <3>1, AheadInRound
  <2>2. b <= a
    BY AheadWakes
  <2>3. age[n] \in Nat
    BY DEF DispatchInv, Records
  <2> HIDE DEF a, b
  <2>4. age[n] + b <= age[n] + a
    BY <2>1, <2>2, <2>3
  <2> QED BY <1>1, <1>7, <2>4 DEF a, b
<1> QED BY <1>1, <1>4, <1>5, <1>6, <1>8, StalenessStep

LEMMA FlushStaleness ==
    ASSUME DispatchInv, DispatchInv', Staleness, Flush
    PROVE  Staleness'
<1>1. phase = "up" /\ UNCHANGED <<submitted, backlog, threads, poller, sleep, behaves, age>>
  BY DEF Flush
<1>2. PollersFetch(poller, backlog', threads')
  BY <1>1 DEF Staleness, PollersFetch
<1> QED BY <1>1, <1>2, StalenessKept

LEMMA NodesChangeStaleness ==
    ASSUME DispatchInv, DispatchInv', Staleness, phase = "up", NodesChange
    PROVE  Staleness'
<1>1. /\ UNCHANGED <<submitted, backlog, threads, poller, sleep>>
      /\ age \in [Node -> Nat] /\ behaves \in [Node -> Behaviour]
  BY DEF NodesChange, coordinatorVars, DispatchInv, Records
<1>2. PICK m \in Node, b \in Behaviour :
         /\ behaves' = [behaves EXCEPT ![m] = b]
         /\ age' = IF b \in {"up", "full"} THEN age ELSE [age EXCEPT ![m] = 0]
  BY DEF NodesChange
<1>3. PollersFetch(poller', backlog', threads')
  BY <1>1 DEF Staleness, PollersFetch
<1>4. \A n \in Node : ~Answers(n)' => age'[n] = 0
  BY <1>1, <1>2 DEF Staleness, Answers
<1>5. ASSUME NEW n \in Node
      PROVE  \/ age'[n] = 0
             \/ age'[n] + Ahead(poller', sleep', FetchLeft(threads'), n)
                    <= age[n] + Ahead(poller, sleep, FetchLeft(threads), n)
  <2> DEFINE a == Ahead(poller, sleep, FetchLeft(threads), n)
  <2>1. age[n] \in Nat /\ poller \in 0..NodeCount /\ sleep \in 0..PollInterval
        /\ FetchLeft(threads) \in 0..FetchLimit
    BY FetchLeftType DEF DispatchInv, Records, Jobs
  <2>2. a \in Nat
    BY <2>1, AheadInRound
  <2>3. age'[n] = 0 \/ age'[n] = age[n]
    BY <1>1, <1>2
  <2> HIDE DEF a
  <2>4. age[n] + a <= age[n] + a
    BY <2>1, <2>2
  <2> QED BY <1>1, <2>3, <2>4 DEF a
<1>6. Owed(submitted', backlog', threads') \subseteq Owed(submitted, backlog, threads)
  BY <1>1
<1> QED BY <1>3, <1>4, <1>5, <1>6, StalenessStep

\* Only one job is about a request that was submitted.
LEMMA JobOfRequest ==
    ASSUME NEW asked \in Seq(Asked), Len(asked) <= MaxRequests, NEW j, IsJob(j, asked),
           NEW k, IsJob(k, asked), j.kind = "forward", k.request = j.request
    PROVE  k = j
<1>1. j.request \in 1..Len(asked) /\ j = Forward(j.request, asked[j.request].node)
  BY JobFields
<1>2. k.kind = "forward"
  <2>1. j.request # 0
    BY <1>1
  <2> QED BY <2>1, JobFields
<1>3. k = Forward(k.request, asked[k.request].node)
  BY <1>2, JobFields
<1> QED BY <1>1, <1>3

\* A tick in which forwards hold all threads is owed no more after it.
LEMMA BusyTick ==
    ASSUME NEW asked \in Seq(Asked), Len(asked) <= MaxRequests, NEW wait, NEW run,
           JobsOK(wait, run, asked), IsFiniteSet(run), Cardinality(run) >= Workers,
           FetchIn(run) = {}, \A t \in run : t.used # CallLimit(t.job),
           NEW older, older = {Aged(t) : t \in run}
    PROVE  Cardinality(Owed(asked, wait, older)) + Workers <= Cardinality(Owed(asked, wait, run))
<1> DEFINE owed == Owed(asked, wait, run)
           less == Owed(asked, wait, older)
           f == [t \in run |-> <<t.job.request, t.used + 1>>]
           paid == {<<t.job.request, t.used + 1>> : t \in run}
<1>1. ASSUME NEW t \in run
      PROVE  /\ IsJob(t.job, asked) /\ t.job.kind = "forward" /\ t.used \in Nat
             /\ t.job.request \in 1..Len(asked) /\ t.job.request \in Request
             /\ t.used + 1 \in 1..ForwardLimit
             /\ Aged(t).job = t.job /\ Aged(t).used = t.used + 1
  <2>1. IsJob(t.job, asked) /\ t.used \in Nat /\ t.used <= CallLimit(t.job) /\ t.job.kind # "fetch"
        /\ t \in [job : Job, used : Nat]
    BY DEF JobsOK, FetchIn
  <2>2. t.job.kind = "forward" /\ t.job.request \in 1..Len(asked) /\ t.job.request \in Request
    BY <2>1, JobFields
  <2>3. t.used + 1 \in 1..ForwardLimit
    BY <2>1, NumberFacts, CallLimitType DEF ForwardLimit
  <2> QED BY <2>1, <2>2, <2>3 DEF Aged
<1>2. ASSUME NEW t \in run, NEW v \in run, t.job.request = v.job.request PROVE t = v
  <2>1. v.job = t.job
    BY <1>1, <1>2, JobOfRequest
  <2> QED BY <1>1, <2>1 DEF JobsOK
<1>3. f \in Injection(run, paid)
  <2>1. f \in [run -> paid]
    OBVIOUS
  <2>2. \A t, v \in run : f[t] = f[v] => t = v
    BY <1>2
  <2> HIDE DEF f, paid
  <2> QED BY <2>1, <2>2 DEF Injection, IsInjective
<1>4. paid \subseteq owed
  BY <1>1 DEF Owed
<1>5. less \subseteq owed
  <2> SUFFICES ASSUME NEW w \in less PROVE w \in owed
    OBVIOUS
  <2>1. CASE \E v \in older : v.job.request = w[1] /\ v.used < w[2]
    <3>1. PICK t \in run : Aged(t).job.request = w[1] /\ Aged(t).used < w[2]
      BY <2>1
    <3>2. t.job.request = w[1] /\ t.used < w[2]
      <4>1. w[2] \in Nat
        BY NumberFacts DEF Owed
      <4> QED BY <1>1, <3>1, <4>1
    <3> QED BY <3>2 DEF Owed
  <2>2. CASE ~ \E v \in older : v.job.request = w[1] /\ v.used < w[2]
    BY <2>2 DEF Owed
  <2> QED BY <2>1, <2>2
<1>6. less \cap paid = {}
  <2> SUFFICES ASSUME NEW t \in run, <<t.job.request, t.used + 1>> \in less PROVE FALSE
    OBVIOUS
  <2> DEFINE w == <<t.job.request, t.used + 1>>
  <2>1. w[1] = t.job.request /\ w[2] = t.used + 1
    OBVIOUS
  <2> HIDE DEF w
  <2>2. \/ w[1] > Len(asked)
        \/ \E i \in 1..Len(wait) : wait[i].request = w[1]
        \/ \E v \in older : v.job.request = w[1] /\ v.used < w[2]
    BY DEF Owed, w
  <2>3. ~ (w[1] > Len(asked))
    BY <1>1, <2>1
  <2>4. ASSUME NEW i \in 1..Len(wait), wait[i].request = w[1] PROVE FALSE
    <3>1. IsJob(wait[i], asked)
      BY DEF JobsOK
    <3>2. wait[i] = t.job
      BY <1>1, <2>1, <2>4, <3>1, JobOfRequest
    <3> QED BY <1>1, <3>2 DEF JobsOK
  <2>5. ASSUME NEW v \in older, v.job.request = w[1], v.used < w[2] PROVE FALSE
    <3>1. PICK x \in run : v = Aged(x)
      OBVIOUS
    <3>2. x = t
      BY <1>1, <1>2, <2>1, <2>5, <3>1
    <3> QED BY <1>1, <2>1, <2>5, <3>1, <3>2
  <2> QED BY <2>2, <2>3, <2>4, <2>5
<1>7. IsFiniteSet(owed) /\ IsFiniteSet(less) /\ Cardinality(less) \in Nat
      /\ Cardinality(owed) \in Nat
  BY OwedCounted
<1> HIDE DEF owed, less, f, paid
<1>8. IsFiniteSet(paid) /\ Cardinality(run) <= Cardinality(paid)
  BY <1>3, <1>4, <1>7, FS_Subset, FS_Injection
<1>9. Cardinality(less \cup paid) = Cardinality(less) + Cardinality(paid) - 0
  BY <1>6, <1>7, <1>8, FS_Union, FS_EmptySet
<1>10. Cardinality(less \cup paid) <= Cardinality(owed)
  <2>1. less \cup paid \in SUBSET owed
    BY <1>4, <1>5
  <2> QED BY <2>1, <1>7, FS_Subset
<1>11. Cardinality(paid) \in Nat /\ Cardinality(run) \in Nat /\ Workers \in Nat
  BY <1>8, FS_CardinalityType, NumberFacts
<1> QED BY <1>7, <1>8, <1>9, <1>10, <1>11 DEF owed, less

\* In a tick what is ahead gets nearer, or forwards hold all threads.
LEMMA TickStaleness ==
    ASSUME DispatchInv, DispatchInv', Staleness, phase = "up", Tick
    PROVE  Staleness'
<1>1. /\ UNCHANGED <<submitted, backlog, poller, behaves>>
      /\ \A t \in threads : t.used # CallLimit(t.job)
      /\ backlog # <<>> => ~ (Cardinality(threads) < Workers)
      /\ ~ (poller = 0 /\ sleep = 0)
      /\ sleep' = (IF sleep > 0 THEN sleep - 1 ELSE 0)
      /\ \A n \in Node : age'[n] = IF Answers(n) THEN age[n] + 1 ELSE 0
  BY DEF Tick, Due, coordinatorVars
<1>2. /\ submitted \in Seq(Asked) /\ Len(submitted) <= MaxRequests
      /\ JobsOK(backlog, threads, submitted) /\ IsFiniteSet(threads)
      /\ PollerOK(poller, backlog, threads) /\ PollersFetch(poller, backlog, threads)
      /\ age \in [Node -> Nat] /\ poller \in 0..NodeCount /\ sleep \in 0..PollInterval
      /\ JobsOK(backlog', threads', submitted')
      /\ poller' \in 0..NodeCount /\ sleep' \in 0..PollInterval
  BY DEF DispatchInv, Records, Asked, Jobs, Pool, Poller, Staleness
<1>3. threads' = {Aged(t) : t \in threads}
  BY DEF Tick, Aged
<1>4. /\ \A t \in threads : Aged(t).job = t.job /\ Aged(t).used = t.used + 1 /\ t.used \in Nat
      /\ FetchIn(threads') = {Aged(t) : t \in FetchIn(threads)}
  <2>1. \A t \in threads : t \in [job : Job, used : Nat]
    BY <1>2 DEF JobsOK
  <2>2. \A t \in threads : Aged(t).job = t.job /\ Aged(t).used = t.used + 1 /\ t.used \in Nat
    BY <2>1 DEF Aged
  <2> QED BY <1>3, <2>2 DEF FetchIn
<1>5. PollersFetch(poller', backlog', threads')
  BY <1>1, <1>2, <1>3, <1>4 DEF PollersFetch
<1>6. \A n \in Node : ~Answers(n)' => age'[n] = 0
  BY <1>1 DEF Answers
<1>7. Owed(submitted', backlog', threads') \subseteq Owed(submitted, backlog, threads)
  <2> SUFFICES ASSUME NEW w \in Owed(submitted, backlog, threads')
               PROVE  w \in Owed(submitted, backlog, threads)
    BY <1>1
  <2>1. CASE \E v \in threads' : v.job.request = w[1] /\ v.used < w[2]
    <3>1. PICK t \in threads : Aged(t).job.request = w[1] /\ Aged(t).used < w[2]
      BY <1>3, <2>1
    <3>2. t.job.request = w[1] /\ t.used < w[2]
      <4>1. w[2] \in Nat
        BY NumberFacts DEF Owed
      <4> QED BY <1>4, <3>1, <4>1
    <3> QED BY <3>2 DEF Owed
  <2>2. CASE ~ \E v \in threads' : v.job.request = w[1] /\ v.used < w[2]
    BY <2>2 DEF Owed
  <2> QED BY <2>1, <2>2
<1>8. CASE poller = 0
  <2>1. ASSUME NEW n \in Node
        PROVE  \/ age'[n] = 0
               \/ age'[n] + Ahead(poller', sleep', FetchLeft(threads'), n)
                      <= age[n] + Ahead(poller, sleep, FetchLeft(threads), n)
    <3> DEFINE d == n * FetchLimit
    <3>1. /\ Ahead(poller', sleep', FetchLeft(threads'), n) = (sleep - 1) + d
          /\ Ahead(poller, sleep, FetchLeft(threads), n) = sleep + d
      BY <1>1, <1>2, <1>8 DEF Ahead
    <3>2. d \in Int /\ sleep \in Int /\ age[n] \in Nat
      BY <1>2, NumberFacts
    <3> HIDE DEF d
    <3>3. (age[n] + 1) + ((sleep - 1) + d) <= age[n] + (sleep + d)
      BY <3>2
    <3> QED BY <1>1, <3>1, <3>3
  <2> QED BY <1>5, <1>6, <1>7, <2>1, StalenessStep
<1>9. ASSUME poller # 0, NEW t \in threads, FetchIn(threads) = {t} PROVE Staleness'
  <2>1. t.job.to = poller /\ FetchIn(threads') = {Aged(t)} /\ Aged(t) \in threads'
    BY <1>2, <1>3, <1>4, <1>9 DEF PollersFetch, FetchIn
  <2>2. FetchLeft(threads) = FetchLimit - t.used /\ FetchLeft(threads') = FetchLimit - (t.used + 1)
    BY <1>2, <1>4, <1>9, <2>1, FetchLeftType
  <2>3. ASSUME NEW n \in Node
        PROVE  \/ age'[n] = 0
               \/ age'[n] + Ahead(poller', sleep', FetchLeft(threads'), n)
                      <= age[n] + Ahead(poller, sleep, FetchLeft(threads), n)
    <3>1. CASE n = poller
      <4>1. /\ Ahead(poller', sleep', FetchLeft(threads'), n) = FetchLimit - (t.used + 1)
            /\ Ahead(poller, sleep, FetchLeft(threads), n) = FetchLimit - t.used
        BY <1>1, <1>9, <2>2, <3>1 DEF Ahead
      <4>2. FetchLimit \in Int /\ t.used \in Int /\ age[n] \in Nat
        BY <1>2, <1>4, NumberFacts
      <4>3. (age[n] + 1) + (FetchLimit - (t.used + 1)) <= age[n] + (FetchLimit - t.used)
        BY <4>2
      <4> QED BY <1>1, <4>1, <4>3
    <3>2. CASE n # poller
      <4> DEFINE d == Between(poller, n)
      <4>1. /\ Ahead(poller', sleep', FetchLeft(threads'), n) = (FetchLimit - (t.used + 1)) + d
            /\ Ahead(poller, sleep, FetchLeft(threads), n) = (FetchLimit - t.used) + d
        BY <1>1, <1>9, <2>2, <3>2 DEF Ahead
      <4>2. d \in Int /\ FetchLimit \in Int /\ t.used \in Int /\ age[n] \in Nat
        <5>1. \A a, b \in Int : a * b \in Int
          OBVIOUS
        <5>2. /\ FetchLimit \in Int /\ PollInterval \in Int /\ n \in Int
              /\ n - poller \in Int /\ NodeCount - poller \in Int
          BY <1>2, NumberFacts
        <5>3. /\ (n - poller) * FetchLimit \in Int /\ (NodeCount - poller) * FetchLimit \in Int
              /\ n * FetchLimit \in Int
          BY ONLY <5>1, <5>2
        <5>4. d \in Int
          BY ONLY <5>2, <5>3 DEF Between
        <5> QED BY <1>2, <1>4, <5>2, <5>4
      <4> HIDE DEF d
      <4>3. (age[n] + 1) + ((FetchLimit - (t.used + 1)) + d) <= age[n] + ((FetchLimit - t.used) + d)
        BY <4>2
      <4> QED BY <1>1, <4>1, <4>3
    <3> QED BY <3>1, <3>2
  <2> QED BY <1>5, <1>6, <1>7, <2>3, StalenessStep
<1>10. ASSUME poller # 0, FetchIn(threads) = {}, NEW i \in 1..Len(backlog) PROVE Staleness'
  <2>1. backlog # <<>>
    BY <1>2, <1>10 DEF JobsOK
  <2>2. Cardinality(threads) >= Workers /\ FetchIn(threads') = {}
    BY <1>1, <1>2, <1>4, <1>10, <2>1, FS_CardinalityType, NumberFacts
  <2>3. FetchLeft(threads') = FetchLeft(threads)
    BY <1>10, <2>2 DEF FetchLeft
  <2> DEFINE owed == Owed(submitted, backlog, threads)
             less == Owed(submitted, backlog, threads')
  <2>4. Cardinality(less) + Workers <= Cardinality(owed)
    BY <1>1, <1>2, <1>3, <1>10, <2>2, BusyTick
  <2>5. Cardinality(less) \in Nat /\ Cardinality(owed) \in Nat
    BY OwedCounted
  <2>6. ASSUME NEW n \in Node
        PROVE  Fits(age'[n], Ahead(poller', sleep', FetchLeft(threads'), n), less)
    <3> DEFINE a == Ahead(poller, sleep, FetchLeft(threads), n)
    <3>1. Ahead(poller', sleep', FetchLeft(threads'), n) = a
      BY <1>1, <1>10, <2>3 DEF Ahead
    <3>2. a \in Nat /\ a <= Round /\ age[n] \in Nat
      BY <1>2, FetchLeftType, AheadInRound
    <3>3. Fits(age[n], a, owed)
      BY DEF Staleness
    <3> HIDE DEF a, owed
    <3>4. CASE Answers(n)
      <4>1. Fits(age[n] + 1, a, less)
        BY ONLY <2>4, <2>5, <3>2, <3>3, FitsBusy
      <4> QED BY <1>1, <3>1, <3>4, <4>1
    <3>5. CASE ~Answers(n)
      <4>1. Fits(0, a, less)
        BY <3>2, FreshFits
      <4> QED BY <1>1, <3>1, <3>5, <4>1
    <3> QED BY <3>4, <3>5
  <2> QED BY <1>1, <1>5, <1>6, <2>6 DEF Staleness, PollersFetch
<1> QED BY <1>2, <1>8, <1>9, <1>10 DEF PollerOK

\* Metrics are fresh as the coordinator starts, for the first time or again.
LEMMA BeginStaleness ==
    ASSUME NEW asked, NEW fresh, fresh = [n \in Node |-> 0], NEW n \in Node
    PROVE  Fits(fresh[n], Ahead(1, 0, FetchLeft({}), n), Owed(asked, <<Fetch(1)>>, {}))
<1>1. FetchLeft({}) = FetchLimit
  BY DEF FetchLeft, FetchIn
<1>2. /\ Ahead(1, 0, FetchLeft({}), n) \in Nat
      /\ Ahead(1, 0, FetchLeft({}), n) <= Round
  <2>1. /\ 1 \in 0..NodeCount /\ 0 \in 0..PollInterval
        /\ FetchLimit \in 0..FetchLimit
    BY NumberFacts
  <2> QED BY <1>1, <2>1, AheadInRound
<1> QED BY <1>2, FreshFits

LEMMA FirstFetch == PollersFetch(1, <<Fetch(1)>>, {})
<1>1. Fetch(1).to = 1 /\ Len(<<Fetch(1)>>) = 1 /\ <<Fetch(1)>>[1] = Fetch(1)
  BY DEF Fetch
<1> QED BY <1>1 DEF PollersFetch

LEMMA InitStaleness == Init => Staleness
  BY BeginStaleness, FirstFetch DEF Init, Staleness

LEMMA StartStaleness ==
    ASSUME DispatchInv, Start
    PROVE  Staleness'
<1>1. /\ threads' = {} /\ backlog' = <<Fetch(1)>> /\ poller' = 1 /\ sleep' = 0
      /\ age' = [n \in Node |-> 0] /\ submitted' = submitted
  BY DEF Start, Begin, DispatchInv, Pool
<1>2. PollersFetch(poller', backlog', threads')
  BY <1>1, FirstFetch
<1>3. \A n \in Node : age'[n] = 0
  BY <1>1
<1>4. ASSUME NEW n \in Node
      PROVE  Fits(age'[n], Ahead(poller', sleep', FetchLeft(threads'), n),
                  Owed(submitted', backlog', threads'))
  <2>1. Fits(age'[n], Ahead(1, 0, FetchLeft({}), n), Owed(submitted, <<Fetch(1)>>, {}))
    BY <1>1, BeginStaleness
  <2> QED BY <1>1, <2>1
<1> QED BY <1>2, <1>3, <1>4 DEF Staleness, PollersFetch

LEMMA NextStaleness ==
    ASSUME DispatchInv, DispatchInv', Staleness, [Next]_dispatchVars
    PROVE  Staleness'
<1>1. CASE \E n \in Node : Submit(n)
  BY <1>1, SubmitStaleness DEF Submit
<1>2. CASE ThreadStarts
  <2>1. CASE phase = "up"
    BY <1>2, <2>1, ThreadStartsStaleness
  <2>2. CASE phase # "up"
    BY <1>2, <2>2 DEF ThreadStarts, Staleness
  <2> QED BY <2>1, <2>2
<1>3. CASE \E t \in threads : NodeAnswers(t) \/ JobFails(t) \/ JobTimesOut(t)
  <2>1. PICK t \in threads : ThreadTurn(t)
    BY <1>3 DEF ThreadTurn
  <2>2. CASE phase = "up"
    BY <2>1, <2>2, ThreadTurnStaleness
  <2>3. CASE phase # "up"
    BY <2>1, <2>3 DEF ThreadTurn, NodeAnswers, JobFails, JobTimesOut, ThreadEnds, Staleness
  <2> QED BY <2>2, <2>3
<1>4. CASE PollerWakes
  BY <1>4, PollerWakesStaleness
<1>5. CASE Flush
  BY <1>5, FlushStaleness
<1>6. CASE Stop \/ Cancel \/ Exit \/ Crash
  <2>1. phase' # "up"
    BY <1>6 DEF Stop, Cancel, Exit, Crash
  <2> QED BY <2>1 DEF Staleness
<1>7. CASE Start
  BY <1>7, StartStaleness
<1>8. CASE NodesChange
  <2>1. CASE phase = "up"
    BY <1>8, <2>1, NodesChangeStaleness
  <2>2. CASE phase # "up"
    BY <1>8, <2>2 DEF NodesChange, Staleness
  <2> QED BY <2>1, <2>2
<1>9. CASE Tick
  <2>1. CASE phase = "up"
    BY <1>9, <2>1, TickStaleness
  <2>2. CASE phase # "up"
    BY <1>9, <2>2 DEF Tick, Staleness
  <2> QED BY <2>1, <2>2
<1>10. CASE UNCHANGED dispatchVars
  BY <1>10 DEF dispatchVars, coordinatorVars, Staleness, Answers, PollersFetch
<1> QED BY <1>1, <1>2, <1>3, <1>4, <1>5, <1>6, <1>7, <1>8, <1>9, <1>10 DEF Next

\* Division rounds down.
LEMMA Quotient ==
    ASSUME NEW w \in Nat \ {0}, NEW a \in Nat, NEW r \in Nat, NEW b \in Nat,
           w * a <= w * r + b
    PROVE  a <= r + b \div w
<1> DEFINE q == b \div w
<1>1. q \in Int /\ b < w * (q + 1)
  OBVIOUS
<1> HIDE DEF q
<1>2. ASSUME a >= r + q + 1 PROVE FALSE
  <2>1. w * (r + q + 1) <= w * a
    <3>1. r + q + 1 \in Int /\ a \in Int
      BY <1>1
    <3> QED BY <3>1, <1>2, TimesMonotone
  <2>2. w * (r + q + 1) = w * r + w * (q + 1)
    BY <1>1
  <2>3. w * (q + 1) \in Int /\ w * r \in Int /\ w * a \in Int
    BY <1>1
  <2> DEFINE x == w * (q + 1)
             y == w * r
             z == w * a
  <2> HIDE DEF x, y, z
  <2> QED BY <1>1, <2>1, <2>2, <2>3 DEF x, y, z
<1> QED BY <1>1, <1>2 DEF q

\* Ages are not counted while the coordinator does not run.
LEMMA NextIdle ==
    ASSUME DispatchInv, phase # "up" => \A n \in Node : age[n] = 0, [Next]_dispatchVars
    PROVE  (phase # "up" => \A n \in Node : age[n] = 0)'
<1> SUFFICES ASSUME phase' # "up" PROVE \A n \in Node : age'[n] = 0
  OBVIOUS
<1>1. CASE \E n \in Node : Submit(n)
  BY <1>1 DEF Submit
<1>2. CASE ThreadStarts \/ PollerWakes \/ Flush \/ Cancel \/ Exit \/ UNCHANGED dispatchVars
  BY <1>2 DEF ThreadStarts, PollerWakes, Flush, Cancel, Exit, dispatchVars
<1>3. CASE \E t \in threads : NodeAnswers(t) \/ JobFails(t) \/ JobTimesOut(t)
  BY <1>3 DEF NodeAnswers, JobFails, JobTimesOut, ThreadEnds
<1>4. CASE Stop \/ Crash
  BY <1>4 DEF Stop, Crash
<1>5. CASE Start
  BY <1>5 DEF Start, Begin
<1>6. CASE NodesChange
  <2>1. age \in [Node -> Nat] /\ phase' = phase
    BY <1>6 DEF DispatchInv, Records, NodesChange
  <2>2. PICK m \in Node : age' = age \/ age' = [age EXCEPT ![m] = 0]
    BY <1>6 DEF NodesChange
  <2> QED BY <2>1, <2>2
<1>7. CASE Tick
  BY <1>7 DEF Tick
<1> QED BY <1>1, <1>2, <1>3, <1>4, <1>5, <1>6, <1>7 DEF Next

\* Whatever waits for the threads, an answering node's metrics get no older than a round
\* of fetches that each last as long as a call can and the time for which forwards can hold
\* all threads.
THEOREM MetricsStayFresh == Spec => []StalenessUnderLoad
<1> DEFINE Idle == phase # "up" => \A n \in Node : age[n] = 0
<1>1. Init => Staleness /\ Idle
  BY InitStaleness DEF Init
<1>2. DispatchInv /\ DispatchInv' /\ Staleness /\ [Next]_dispatchVars => Staleness'
  BY NextStaleness
<1>3. DispatchInv /\ Idle /\ [Next]_dispatchVars => Idle'
  BY NextIdle
<1>4. ASSUME DispatchInv, Staleness, Idle PROVE StalenessUnderLoad
  <2> SUFFICES ASSUME NEW n \in Node
               PROVE  age[n] <= Round + (MaxRequests * ForwardLimit) \div Workers
    BY DEF StalenessUnderLoad, Round, FetchLimit, ForwardLimit
  <2> DEFINE b == MaxRequests * ForwardLimit
  <2>1. /\ Workers \in Nat \ {0} /\ b \in Nat /\ Round \in Nat /\ age[n] \in Nat
        /\ 0 <= b \div Workers /\ b \div Workers \in Int
    <3>1. Round \in Nat
      <4>1. NodeCount * FetchLimit \in Nat
        BY NumberFacts
      <4> QED BY <4>1, NumberFacts DEF Round
    <3>2. Workers \in Nat \ {0} /\ b \in Nat
      BY NumberFacts
    <3> HIDE DEF b
    <3>3. 0 <= b \div Workers /\ b \div Workers \in Int
      BY <3>2
    <3> QED BY <1>4, <3>1, <3>2, <3>3 DEF DispatchInv, Records
  <2>2. CASE phase # "up"
    <3>1. age[n] = 0
      BY <1>4, <2>2
    <3> HIDE DEF b
    <3>2. age[n] <= Round + b \div Workers
      BY <2>1, <3>1
    <3> QED BY <3>2 DEF b
  <2>3. CASE phase = "up"
    <3> DEFINE a == Ahead(poller, sleep, FetchLeft(threads), n)
               c == Cardinality(Owed(submitted, backlog, threads))
    <3>1. Workers * (age[n] + a) + c <= Workers * Round + b
      BY <1>4, <2>3 DEF Staleness, Fits, Allowance
    <3>2. a \in Nat /\ c \in Nat
      <4>1. /\ poller \in 0..NodeCount /\ sleep \in 0..PollInterval
            /\ FetchLeft(threads) \in 0..FetchLimit
        BY <1>4, FetchLeftType DEF DispatchInv, Records, Jobs
      <4> QED BY <4>1, AheadInRound, OwedCounted
    <3> HIDE DEF a, b, c
    <3>3. Workers * age[n] <= Workers * (age[n] + a)
      BY <2>1, <3>2, TimesMonotone
    <3>4. Workers * age[n] <= Workers * Round + b
      <4> DEFINE x == Workers * age[n]
                 y == Workers * (age[n] + a)
                 z == Workers * Round
      <4>1. x \in Int /\ y \in Int /\ z \in Int
        BY <2>1, <3>2
      <4> HIDE DEF x, y, z
      <4>2. x <= z + b
        BY <2>1, <3>1, <3>2, <3>3, <4>1 DEF x, y, z
      <4> QED BY <4>2 DEF x, z
    <3>5. age[n] <= Round + b \div Workers
      BY ONLY <2>1, <3>4, Quotient
    <3> QED BY <3>5 DEF b
  <2> QED BY <2>2, <2>3
<1> HIDE DEF Idle
<1> QED BY <1>1, <1>2, <1>3, <1>4, DispatchInvariant, PTL DEF Spec

=============================================================================
