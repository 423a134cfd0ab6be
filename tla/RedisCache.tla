------------------------------ MODULE RedisCache ------------------------------
(***************************************************************************)
(* The two caches over Redis (coordinator/db/redis_cache.py), with a       *)
(* client: a loop refreshes each from Redis, a caller writes through them. *)
(* Redis serves a command or a pipeline at once, and the task that sent it *)
(* goes on some time later; any of them may fail, served or not.           *)
(***************************************************************************)
EXTENDS Integers, Sequences, SequencesExt

CONSTANTS
    CacheNode,      \* the nodes whose metrics are cached
    Rings,          \* the rings that are written: each node's positions
    MaxWrites,      \* bound: how many metrics are written
    MaxRingWrites,  \* bound: how many rings are written
    MaxCacheFaults  \* bound: how many commands and pipelines fail

ASSUME CacheAssumption ==
    /\ {MaxWrites, MaxRingWrites, MaxCacheFaults} \subseteq Nat
    /\ \A r \in Rings : DOMAIN r = CacheNode

VARIABLES
    cacheRunning,   \* _running, of both
    local,          \* _metrics_cache: the number of the write it is from, 0 if empty
    hash,           \* the metrics:{node} hashes, likewise
    mortal,         \* the nodes whose hashes have a time to live
    writing,        \* write_node_metrics of each node: its next command, and its metrics
    reading,        \* what the refresh under way has read, if any
    writes,         \* how many metrics were written
    sortedSet,      \* ring:vnodes: the members and their scores
    ringReading,    \* what the ring's refresh under way has read, if any
    snapshot,       \* _ring_snapshot: positions and their nodes
    ringWrites, cacheFaults

metricsVars == <<local, hash, mortal, writing, reading, writes>>
ringVars == <<sortedSet, ringReading, snapshot, ringWrites>>
cacheVars == <<cacheRunning, metricsVars, ringVars, cacheFaults>>

NoCall == [next |-> 0, metrics |-> 0]

Nothing == [read |-> FALSE]

\* Both caches are started on an empty Redis.
MetricsCacheInit ==
    /\ local = [n \in CacheNode |-> 0]
    /\ hash = [n \in CacheNode |-> 0]
    /\ mortal = {}
    /\ writing = [n \in CacheNode |-> NoCall]
    /\ reading = Nothing /\ writes = 0

RingCacheInit == sortedSet = {} /\ ringReading = Nothing /\ snapshot = {} /\ ringWrites = 0

CacheInit ==
    /\ cacheRunning = TRUE
    /\ MetricsCacheInit /\ RingCacheInit
    /\ cacheFaults = 0

CacheFault == cacheFaults < MaxCacheFaults /\ cacheFaults' = cacheFaults + 1

-----------------------------------------------------------------------------
\* Broken variant of Commands: the time to live is set first.
CommandsSwapped == <<"expire", "hset">>

\* What write_node_metrics sends, each command when the one before was answered.
Commands == <<"hset", "expire">>

\* write_node_metrics is called: the cache is updated at once.  Calls for one node do not
\* overlap here; each sets the hash before it gives it a time to live, so none needs another.
WriteNodeMetrics(n) ==
    /\ writing[n] = NoCall /\ writes < MaxWrites
    /\ writes' = writes + 1
    /\ local' = [local EXCEPT ![n] = writes']
    /\ writing' = [writing EXCEPT ![n] = [next |-> 1, metrics |-> writes']]
    /\ UNCHANGED <<cacheRunning, hash, mortal, reading, ringVars, cacheFaults>>

\* Redis serves the command of node n: HSET keeps the time to live of the hash, and
\* EXPIRE gives a hash one, if it exists.
Serve(n) ==
    CASE Commands[writing[n].next] = "hset" ->
             hash' = [hash EXCEPT ![n] = writing[n].metrics] /\ UNCHANGED mortal
      [] Commands[writing[n].next] = "expire" ->
             mortal' = (IF hash[n] # 0 THEN mortal \cup {n} ELSE mortal) /\ UNCHANGED hash

CommandServed(n) ==
    /\ writing[n] # NoCall
    /\ Serve(n)
    /\ writing' = [writing EXCEPT ![n] =
           IF @.next = Len(Commands) THEN NoCall
           ELSE [next |-> @.next + 1, metrics |-> @.metrics]]
    /\ UNCHANGED <<cacheRunning, local, reading, writes, ringVars, cacheFaults>>

\* A command fails, and the call with it.
CommandFails(n) ==
    /\ writing[n] # NoCall /\ CacheFault
    /\ Serve(n) \/ UNCHANGED <<hash, mortal>>
    /\ writing' = [writing EXCEPT ![n] = NoCall]
    /\ UNCHANGED <<cacheRunning, local, reading, writes, ringVars>>

\* A time to live ends.
Expires(n) ==
    /\ n \in mortal
    /\ hash' = [hash EXCEPT ![n] = 0] /\ mortal' = mortal \ {n}
    /\ UNCHANGED <<cacheRunning, local, writing, reading, writes, ringVars, cacheFaults>>

-----------------------------------------------------------------------------
\* _refresh_all: the pipeline reads every hash at once.
RefreshReads ==
    /\ cacheRunning /\ reading = Nothing
    /\ reading' = [read |-> TRUE, hash |-> hash]
    /\ UNCHANGED <<cacheRunning, local, hash, mortal, writing, writes, ringVars, cacheFaults>>

\* Broken variant of Refreshed: only what is missing is taken from Redis.
RefreshedGaps(n, read) == IF local[n] = 0 THEN read ELSE local[n]

\* The metrics of node n after a refresh: a hash that is gone changes nothing.
Refreshed(n, read) == IF read # 0 THEN read ELSE local[n]

RefreshEnds ==
    /\ reading # Nothing
    /\ local' = [n \in CacheNode |-> Refreshed(n, reading.hash[n])]
    /\ reading' = Nothing
    /\ UNCHANGED <<cacheRunning, hash, mortal, writing, writes, ringVars, cacheFaults>>

RefreshFails ==
    /\ reading # Nothing /\ CacheFault
    /\ reading' = Nothing
    /\ UNCHANGED <<cacheRunning, local, hash, mortal, writing, writes, ringVars>>

-----------------------------------------------------------------------------
\* write_ring_to_redis: one transaction deletes the sorted set and adds every
\* position under its node's name, so that of each node the last one is kept.
SortedSetOf(ring) == {<<Last(ring[n]), n>> : n \in {m \in CacheNode : ring[m] # <<>>}}

WriteRing ==
    /\ ringWrites < MaxRingWrites
    /\ ringWrites' = ringWrites + 1
    /\ \E ring \in Rings : sortedSet' = SortedSetOf(ring)
    /\ UNCHANGED <<cacheRunning, metricsVars, ringReading, snapshot, cacheFaults>>

RingRefreshReads ==
    /\ cacheRunning /\ ringReading = Nothing
    /\ ringReading' = [read |-> TRUE, entries |-> sortedSet]
    /\ UNCHANGED <<cacheRunning, metricsVars, sortedSet, snapshot, ringWrites, cacheFaults>>

\* _refresh: positions are the keys of the snapshot.
RingRefreshEnds ==
    /\ ringReading # Nothing
    /\ snapshot' = ringReading.entries
    /\ ringReading' = Nothing
    /\ UNCHANGED <<cacheRunning, metricsVars, sortedSet, ringWrites, cacheFaults>>

RingRefreshFails ==
    /\ ringReading # Nothing /\ CacheFault
    /\ ringReading' = Nothing
    /\ UNCHANGED <<cacheRunning, metricsVars, sortedSet, snapshot, ringWrites>>

-----------------------------------------------------------------------------
\* stop() of both: the loops end with the refresh that is under way.
StopCaches ==
    /\ cacheRunning
    /\ cacheRunning' = FALSE
    /\ UNCHANGED <<metricsVars, ringVars, cacheFaults>>

CacheStep ==
    \/ \E n \in CacheNode : WriteNodeMetrics(n) \/ CommandServed(n) \/ CommandFails(n) \/ Expires(n)
    \/ RefreshReads \/ RefreshEnds \/ RefreshFails
    \/ WriteRing \/ RingRefreshReads \/ RingRefreshEnds \/ RingRefreshFails

\* Redis answers and the loops go round; it fails of its own at most MaxCacheFaults
\* times.
CacheFairness ==
    /\ \A n \in CacheNode : WF_cacheVars(CommandServed(n))
    /\ WF_cacheVars(RefreshReads) /\ WF_cacheVars(RefreshEnds)
    /\ WF_cacheVars(RingRefreshReads) /\ WF_cacheVars(RingRefreshEnds)

-----------------------------------------------------------------------------
CacheTypeOK ==
    /\ cacheRunning \in BOOLEAN
    /\ local \in [CacheNode -> 0..MaxWrites] /\ hash \in [CacheNode -> 0..MaxWrites]
    /\ mortal \subseteq {n \in CacheNode : hash[n] # 0}
    /\ writing \in [CacheNode -> [next : 0..2, metrics : 0..MaxWrites]]
    /\ \A e, f \in snapshot : e[2] = f[2] => e = f
    /\ cacheFaults \in 0..MaxCacheFaults

\* A refresh overwrites the cache with what it read some time ago, also what was
\* written through the cache in between, and a write whose HSET failed is in the
\* cache alone; when the writes end the caches agree with Redis as long as the loops
\* run, except that they keep what Redis has forgotten.
CachesSettle ==
    <>[](cacheRunning => /\ \A n \in CacheNode : hash[n] \in {0, local[n]}
                         /\ snapshot = sortedSet)

\* The value and its time to live are set by two commands: unless one failed, a hash
\* without a time to live is about to get one.
HashesAreMortal ==
    \A n \in CacheNode :
        hash[n] # 0 /\ n \notin mortal => writing[n] # NoCall \/ cacheFaults > 0
=============================================================================
