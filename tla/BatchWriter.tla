------------------------------ MODULE BatchWriter ------------------------------
(***************************************************************************)
(* The PostgreSQL batch writer of the coordinator                          *)
(* (coordinator/db/postgres_writer.py) and the three kinds of tasks that   *)
(* use it: submit_request handlers, each of which buffers its request and  *)
(* then its prediction (coordinator/main.py), the background flush loop,   *)
(* and stop() at shutdown.                                                 *)
(*                                                                         *)
(* One asyncio.Lock guards both buffers.  It is granted in FIFO order, and *)
(* taking it when it is free and nobody waits does not suspend, so a       *)
(* handler that finds no contention does all its work in one step.  The    *)
(* only other suspension point is the insert, which the database answers   *)
(* some time later, while the lock is held.                                *)
(***************************************************************************)
EXTENDS Integers, Sequences, SequencesExt

CONSTANTS
    Req,          \* the requests submitted, each once, with distinct request ids
    Refused,      \* those whose row violates a constraint of the table
    BatchSize,    \* batch_size
    MaxFaults,    \* bound: how many inserts fail for a reason of the database's own
    Loop, Stopper \* the flush loop's task and the one that calls stop()

Table == {"requests", "predictions"}

Flusher == {Loop, Stopper}

ASSUME WriterAssumption ==
    /\ Refused \subseteq Req
    /\ BatchSize \in Nat \ {0}
    /\ MaxFaults \in Nat
    /\ Loop # Stopper /\ Flusher \cap Req = {}

VARIABLES
    phase,      \* "running", "stopping" once stop() is called, "stopped" when it returns
    handler,    \* which call each submit_request is in
    lock,       \* _lock: who holds it, then who waits for it, in order
    buffer,     \* _request_buffer and _prediction_buffer, by request
    insert,     \* the insert under way, if any, by the holder of the lock
    stored,     \* the database: how many rows each request has in each table
    faults,     \* how many inserts failed for a reason of the database's own
    buffered,   \* history: everything buffered so far, in order, per table
    dropped     \* history: what was in an insert that stop() cancelled

writerVars == <<phase, handler, lock, buffer, insert, stored, faults, buffered, dropped>>

NoInsert == [table |-> "none", batch |-> <<>>]

Inserting == insert # NoInsert

-----------------------------------------------------------------------------
\* What follows a suspension point, for a task that holds the lock or takes it
\* without waiting.  "bufs" are the buffers at that moment and "behind" the tasks
\* that wait for the lock.

\* Broken variant of StartInsert: the buffer keeps the batch.
StartInsertKeeping(t, table, bufs, behind) ==
    /\ insert' = [table |-> table, batch |-> bufs[table]]
    /\ buffer' = bufs
    /\ lock' = <<t>> \o behind

\* The holder hands a buffer over to an insert and suspends until it is answered.
StartInsert(t, table, bufs, behind) ==
    /\ insert' = [table |-> table, batch |-> bufs[table]]
    /\ buffer' = [bufs EXCEPT ![table] = <<>>]
    /\ lock' = <<t>> \o behind

\* The holder leaves the critical section.
Release(bufs, behind) ==
    /\ insert' = NoInsert
    /\ buffer' = bufs
    /\ lock' = behind

\* buffer_prediction, from the moment it has the lock; "log" is the history so far.
AddPrediction(r, bufs, log, behind) ==
    LET added == [bufs EXCEPT !["predictions"] = Append(@, r)]
    IN  /\ buffered' = [log EXCEPT !["predictions"] = Append(@, r)]
        /\ IF Len(added["predictions"]) < BatchSize
           THEN Release(added, behind) /\ handler' = [handler EXCEPT ![r] = "done"]
           ELSE /\ StartInsert(r, "predictions", added, behind)
                /\ handler' = [handler EXCEPT ![r] = "prediction"]

\* submit_request, when buffer_request has left the lock: it calls
\* buffer_prediction, which waits its turn if another task does.
CallBufferPrediction(r, bufs, log, behind) ==
    IF behind = <<>>
    THEN AddPrediction(r, bufs, log, behind)
    ELSE /\ Release(bufs, Append(behind, r))
         /\ handler' = [handler EXCEPT ![r] = "prediction"]
         /\ buffered' = log

\* buffer_request, from the moment it has the lock.
AddRequest(r, bufs, behind) ==
    LET added == [bufs EXCEPT !["requests"] = Append(@, r)]
        log   == [buffered EXCEPT !["requests"] = Append(@, r)]
    IN  IF Len(added["requests"]) < BatchSize
        THEN CallBufferPrediction(r, added, log, behind)
        ELSE /\ StartInsert(r, "requests", added, behind)
             /\ handler' = [handler EXCEPT ![r] = "request"]
             /\ buffered' = log

\* Broken variant of FlushPredictions: only requests are flushed.
FlushNoPredictions(t, bufs, behind) ==
    /\ Release(bufs, behind)
    /\ phase' = IF t = Stopper THEN "stopped" ELSE phase

\* _flush, when its requests are dealt with; at its end stop() returns, and the
\* flush loop sleeps again.
FlushPredictions(t, bufs, behind) ==
    IF bufs["predictions"] # <<>>
    THEN /\ StartInsert(t, "predictions", bufs, behind)
         /\ phase' = IF t = Stopper THEN "stopping" ELSE phase
    ELSE /\ Release(bufs, behind)
         /\ phase' = IF t = Stopper THEN "stopped" ELSE phase

\* Broken variant of Flush: predictions go first.
FlushPredictionsFirst(t, bufs, behind) ==
    IF bufs["predictions"] = <<>> /\ bufs["requests"] # <<>>
    THEN /\ StartInsert(t, "requests", bufs, behind)
         /\ phase' = IF t = Stopper THEN "stopping" ELSE phase
    ELSE FlushPredictions(t, bufs, behind)

\* _flush, from the moment it has the lock.
Flush(t, bufs, behind) ==
    IF bufs["requests"] # <<>>
    THEN /\ StartInsert(t, "requests", bufs, behind)
         /\ phase' = IF t = Stopper THEN "stopping" ELSE phase
    ELSE FlushPredictions(t, bufs, behind)

-----------------------------------------------------------------------------
Init ==
    /\ phase = "running"
    /\ handler = [r \in Req |-> "idle"]
    /\ lock = <<>>
    /\ buffer = [t \in Table |-> <<>>]
    /\ insert = NoInsert
    /\ stored = [t \in Table |-> [r \in Req |-> 0]]
    /\ faults = 0
    /\ buffered = [t \in Table |-> <<>>]
    /\ dropped = [t \in Table |-> {}]

\* Broken variant of Submit: the request is appended without the lock.
SubmitWithoutLock(r) ==
    /\ phase = "running"
    /\ handler[r] = "idle"
    /\ IF lock = <<>>
       THEN AddRequest(r, buffer, <<>>)
       ELSE /\ buffer' = [buffer EXCEPT !["requests"] = Append(@, r)]
            /\ buffered' = [buffered EXCEPT !["requests"] = Append(@, r)]
            /\ lock' = Append(lock, r)
            /\ handler' = [handler EXCEPT ![r] = "prediction"]
            /\ UNCHANGED insert
    /\ UNCHANGED <<phase, stored, faults, dropped>>

\* submit_request reaches buffer_request.
Submit(r) ==
    /\ phase = "running"
    /\ handler[r] = "idle"
    /\ IF lock = <<>>
       THEN AddRequest(r, buffer, <<>>)
       ELSE /\ lock' = Append(lock, r)
            /\ handler' = [handler EXCEPT ![r] = "request"]
            /\ UNCHANGED <<buffer, insert, buffered>>
    /\ UNCHANGED <<phase, stored, faults, dropped>>

\* Broken variant of LoopWakes: the interval does not wait for the flush to end.
LoopWakesAgain ==
    /\ phase = "running"
    /\ IF lock = <<>>
       THEN Flush(Loop, buffer, <<>>)
       ELSE /\ lock' = Append(lock, Loop)
            /\ UNCHANGED <<phase, buffer, insert>>
    /\ UNCHANGED <<handler, stored, faults, buffered, dropped>>

\* The flush loop's sleep ends and it calls _flush.
LoopWakes ==
    /\ phase = "running"
    /\ Loop \notin Range(lock)
    /\ IF lock = <<>>
       THEN Flush(Loop, buffer, <<>>)
       ELSE /\ lock' = Append(lock, Loop)
            /\ UNCHANGED <<phase, buffer, insert>>
    /\ UNCHANGED <<handler, stored, faults, buffered, dropped>>

\* The task that waited longest has got the lock and runs.
HandlerTurn(r) ==
    /\ ~Inserting
    /\ lock # <<>> /\ Head(lock) = r
    /\ \/ handler[r] = "request" /\ AddRequest(r, buffer, Tail(lock))
       \/ handler[r] = "prediction" /\ AddPrediction(r, buffer, buffered, Tail(lock))
    /\ UNCHANGED <<phase, stored, faults, dropped>>

LoopTurn ==
    /\ ~Inserting
    /\ lock # <<>> /\ Head(lock) = Loop
    /\ Flush(Loop, buffer, Tail(lock))
    /\ UNCHANGED <<handler, stored, faults, buffered, dropped>>

-----------------------------------------------------------------------------
\* What the database accepts: executemany is one transaction, so one bad row
\* refuses the batch.  A prediction needs the row of its request.
Insertable(i) ==
    IF i.table = "requests"
    THEN Range(i.batch) \cap Refused = {}
    ELSE \A r \in Range(i.batch) : stored["requests"][r] > 0

\* The rows after insert i: ON CONFLICT DO NOTHING for requests, no such clause
\* for predictions.
RowsAfter(i) ==
    [stored EXCEPT ![i.table] =
        [r \in Req |-> IF r \notin Range(i.batch) THEN @[r]
                       ELSE IF i.table = "requests" THEN 1 ELSE @[r] + 1]]

\* Broken variant of Rebuffer: a failed batch is given up.
RebufferNothing(i) == buffer

\* A failed batch goes back to its buffer.
Rebuffer(i) == [buffer EXCEPT ![i.table] = @ \o i.batch]

\* What the holder does when its insert has been answered: bufs are the buffers
\* then.
Continue(bufs) ==
    LET t == Head(lock) behind == Tail(lock) IN
    \/ /\ t \in Flusher
       /\ IF insert.table = "requests"
          THEN FlushPredictions(t, bufs, behind)
          ELSE /\ Release(bufs, behind)
               /\ phase' = IF t = Stopper THEN "stopped" ELSE phase
       /\ UNCHANGED <<handler, buffered>>
    \/ /\ t \in Req
       /\ IF insert.table = "requests"
          THEN CallBufferPrediction(t, bufs, buffered, behind)
          ELSE /\ Release(bufs, behind)
               /\ handler' = [handler EXCEPT ![t] = "done"]
               /\ UNCHANGED buffered
       /\ UNCHANGED phase

InsertCommits ==
    /\ Inserting /\ Insertable(insert)
    /\ stored' = RowsAfter(insert)
    /\ Continue(buffer)
    /\ UNCHANGED <<faults, dropped>>

\* Broken variant of InsertRefused: the lock is not released on an error.
InsertRefusedKeepsLock ==
    /\ Inserting /\ ~Insertable(insert)
    /\ insert' = NoInsert
    /\ buffer' = Rebuffer(insert)
    /\ handler' = [r \in Req |-> IF r = Head(lock) THEN "done" ELSE handler[r]]
    /\ UNCHANGED <<phase, lock, stored, faults, buffered, dropped>>

\* A row violates a constraint.
InsertRefused ==
    /\ Inserting /\ ~Insertable(insert)
    /\ Continue(Rebuffer(insert))
    /\ UNCHANGED <<stored, faults, dropped>>

\* The connection breaks, before or after the commit.
InsertFails ==
    /\ Inserting
    /\ faults < MaxFaults
    /\ faults' = faults + 1
    /\ \/ UNCHANGED stored
       \/ Insertable(insert) /\ stored' = RowsAfter(insert)
    /\ Continue(Rebuffer(insert))
    /\ UNCHANGED dropped

-----------------------------------------------------------------------------
\* stop(), at shutdown, when no handler is under way: the flush loop is cancelled,
\* in its sleep or in an insert, which is not an error that re-buffers the batch,
\* and stop() then calls _flush itself.
Stop ==
    /\ phase = "running"
    /\ \A r \in Req : handler[r] \in {"idle", "done"}
    /\ \/ ~Inserting /\ UNCHANGED <<stored, dropped>>
       \/ /\ Inserting
          /\ UNCHANGED stored \/ (Insertable(insert) /\ stored' = RowsAfter(insert))
          /\ dropped' = [dropped EXCEPT ![insert.table] = @ \cup Range(insert.batch)]
    /\ Flush(Stopper, buffer, <<>>)
    /\ UNCHANGED <<handler, faults, buffered>>

Next ==
    \/ \E r \in Req : Submit(r) \/ HandlerTurn(r)
    \/ LoopWakes \/ LoopTurn
    \/ InsertCommits \/ InsertRefused \/ InsertFails
    \/ Stop

\* The event loop runs every ready task, the flush loop's sleep ends and the
\* database answers every insert; it fails of its own at most MaxFaults times.
\* Requests need not arrive and the coordinator need not stop.
Fairness ==
    /\ \A r \in Req : WF_writerVars(HandlerTurn(r))
    /\ WF_writerVars(LoopWakes) /\ WF_writerVars(LoopTurn)
    /\ WF_writerVars(InsertCommits \/ InsertRefused \/ InsertFails)

Spec == Init /\ [][Next]_writerVars /\ Fairness

-----------------------------------------------------------------------------
\* What is buffered in table t and neither acknowledged nor dropped: the batch an
\* insert has taken out of the buffer, then the buffer.
Pending(t) == (IF insert.table = t THEN insert.batch ELSE <<>>) \o buffer[t]

\* The types; the lock names a task once, and an insert is made by its holder.
WriterTypeOK ==
    /\ phase \in {"running", "stopping", "stopped"}
    /\ handler \in [Req -> {"idle", "request", "prediction", "done"}]
    /\ lock \in Seq(Req \cup Flusher) /\ IsInjective(lock)
    /\ buffer \in [Table -> Seq(Req)]
    /\ insert \in [table : Table \cup {"none"}, batch : Seq(Req)]
    /\ Inserting => lock # <<>>
    /\ stored \in [Table -> [Req -> Nat]]
    /\ faults \in 0..MaxFaults
    /\ buffered \in [Table -> Seq(Req)]
    /\ dropped \in [Table -> SUBSET Req]

\* A batch leaves its buffer before the database has it, and every error puts it
\* back: a record that was buffered is stored, or pending, or was in an insert
\* that stop() cancelled.
NothingForgotten ==
    \A t \in Table : \A r \in Range(buffered[t]) :
        stored[t][r] > 0 \/ r \in Range(Pending(t)) \/ r \in dropped[t]

\* A batch goes back at the end of its buffer, behind whatever came in during the
\* insert; the lock lets nothing come in, so the records pending are the last ones
\* buffered, in that order.
PendingInOrder == \A t \in Table : IsSuffix(Pending(t), buffered[t])

\* The request row a prediction refers to is written by the same flush or an
\* earlier one: as long as the database has not failed, the predictions of the
\* flush loop and of the final flush are not refused.
FlushIsAccepted ==
    (/\ Inserting /\ Head(lock) \in Flusher
     /\ faults = 0 /\ Refused = {} /\ dropped["requests"] = {})
    => Insertable(insert)

\* A batch that is retried has no row yet unless the database failed after it
\* committed: every row too many is due to such a failure.
DuplicatesNeedFaults == \A t \in Table : \A r \in Req : stored[t][r] <= 1 + faults

\* submit_request waits for the lock behind inserts of other tasks, which may be
\* refused or fail, and always comes through.
SubmitCompletes == \A r \in Req : (handler[r] # "idle") ~> (handler[r] = "done")

\* While the coordinator runs, every record is stored in the end: predictions whose
\* insert was refused because the row of their request was not there yet, and
\* batches whose insert failed, are retried by the flush loop.
StoredInTheEnd ==
    \A t \in Table : \A r \in Req :
        (r \in Range(buffered[t])) ~> (stored[t][r] > 0 \/ phase # "running")

\* "Stop the flush loop and flush remaining records" (postgres_writer.py:113), "Zero
\* data loss: flushed count == buffered count" (validate_datastores.py:60): after
\* stop(), on a database that has not failed, every record is stored.
NothingLostByStop ==
    (phase = "stopped" /\ faults = 0) =>
        \A t \in Table : \A r \in Range(buffered[t]) : stored[t][r] > 0

\* "Re-buffer failed records (at-least-once semantics)" (postgres_writer.py:189): a
\* record the database accepts is stored in the end, whatever it is batched with.
AtLeastOnce ==
    \A r \in Req \ Refused :
        (r \in Range(buffered["requests"])) ~> (stored["requests"][r] > 0 \/ phase # "running")

=============================================================================
