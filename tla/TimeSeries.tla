------------------------------ MODULE TimeSeries ------------------------------
(***************************************************************************)
(* The InfluxDB client (coordinator/db/influxdb_client.py): points are     *)
(* buffered and written in batches.  The write is synchronous and under    *)
(* the lock, so nothing comes between its parts.  The points carry no      *)
(* time: InfluxDB gives those of one write the same, and keeps one point   *)
(* of a series at a time.                                                  *)
(***************************************************************************)
EXTENDS Integers, Sequences, FiniteSets, SequencesExt

CONSTANTS
    Series,         \* the series: a measurement and its tags
    FlushSize,      \* DEFAULT_BATCH_SIZE
    QueryPoints,    \* window_points of a query
    MaxPoints,      \* bound: how many points are written
    MaxSeriesFaults \* bound: how many writes fail

ASSUME SeriesAssumption ==
    /\ {FlushSize, QueryPoints} \subseteq Nat \ {0}
    /\ {MaxPoints, MaxSeriesFaults} \subseteq Nat

VARIABLES
    seriesPhase,    \* "running", or "stopped"
    points,         \* history: the series of each point handed over, in order
    buffer,         \* _buffer: the numbers of the points
    kept,           \* the database: what it keeps of each series, in the order of time
    written,        \* history: the points that were in a write acknowledged
    seriesFaults

seriesVars == <<seriesPhase, points, buffer, kept, written, seriesFaults>>

SeriesInit ==
    /\ seriesPhase = "running"
    /\ points = <<>> /\ buffer = <<>>
    /\ kept = [s \in Series |-> <<>>]
    /\ written = {} /\ seriesFaults = 0

\* What the database keeps after a write of the points in b: of each series the
\* last, at a time of its own.
KeptAfter(b, all) ==
    [s \in Series |->
        LET places == {i \in DOMAIN b : all[b[i]] = s}
        IN  IF places = {} THEN kept[s] ELSE Append(kept[s], b[Max(places)])]

\* Broken variant of Rebuffer: the points go back one by one, to the front.
RebufferAtFront(b) == Reverse(b)

\* Broken variant of Rebuffer: the buffer was never cleared.
RebufferUncleared(b) == b \o b

\* Broken variant of Rebuffer: the batch is given up.
RebufferNothing(b) == <<>>

\* _flush_buffer puts a batch that failed back.
Rebuffer(b) == b

\* _flush_buffer, when the buffer is b and the points so far are "all": the write is
\* acknowledged; or it fails, before the database has the batch or after.
FlushBuffer(b, all) ==
    \/ /\ kept' = KeptAfter(b, all) /\ buffer' = <<>>
       /\ written' = written \cup Range(b)
       /\ UNCHANGED seriesFaults
    \/ /\ seriesFaults < MaxSeriesFaults /\ seriesFaults' = seriesFaults + 1
       /\ kept' = KeptAfter(b, all) \/ UNCHANGED kept
       /\ buffer' = Rebuffer(b)
       /\ UNCHANGED written

\* write_point, and with it write_node_metrics and write_request_rate.
WritePoint(s) ==
    LET all == Append(points, s)
        b   == Append(buffer, Len(all))
    IN  /\ seriesPhase = "running" /\ Len(points) < MaxPoints
        /\ points' = all
        /\ IF Len(b) >= FlushSize
           THEN FlushBuffer(b, all)
           ELSE buffer' = b /\ UNCHANGED <<kept, written, seriesFaults>>
        /\ UNCHANGED seriesPhase

\* The flush loop's sleep is over.
SeriesLoopWakes ==
    /\ seriesPhase = "running" /\ buffer # <<>>
    /\ FlushBuffer(buffer, points)
    /\ UNCHANGED <<seriesPhase, points>>

\* stop(): one more flush, and the client is closed.
StopSeries ==
    /\ seriesPhase = "running"
    /\ seriesPhase' = "stopped"
    /\ IF buffer # <<>> THEN FlushBuffer(buffer, points)
       ELSE UNCHANGED <<buffer, kept, written, seriesFaults>>
    /\ UNCHANGED points

SeriesStep == (\E s \in Series : WritePoint(s)) \/ SeriesLoopWakes

\* The flush loop's sleep ends.
SeriesFairness == WF_seriesVars(SeriesLoopWakes)

\* query_rolling_window for one series, when the query does not fail.
RollingWindow(s) ==
    IF Len(kept[s]) > QueryPoints
    THEN SubSeq(kept[s], Len(kept[s]) - QueryPoints + 1, Len(kept[s])) ELSE kept[s]

-----------------------------------------------------------------------------
SeriesTypeOK ==
    /\ seriesPhase \in {"running", "stopped"}
    /\ points \in Seq(Series)
    /\ Range(buffer) \cup written \subseteq DOMAIN points /\ IsInjective(buffer)
    /\ kept \in [Series -> Seq(1..MaxPoints)]
    /\ seriesFaults \in 0..MaxSeriesFaults

\* A batch that failed after the database had it is written again, at a later time
\* and with later points; of each series the window that is read back still has the
\* oldest first, and ends with the newest point written.
WindowEndsWithNewest ==
    \A s \in Series :
        LET w == RollingWindow(s) IN
        /\ \A i \in 1..(Len(w) - 1) : w[i] <= w[i + 1]
        /\ \A p \in written : points[p] = s => w # <<>> /\ p <= Last(w)

\* A batch that failed waits for the next flush, by the loop or by a point that fills
\* the buffer again; when the points end every one of them is written, unless the
\* client has been stopped.
PointsWritten == <>[](written = DOMAIN points \/ seriesPhase = "stopped")
=============================================================================
