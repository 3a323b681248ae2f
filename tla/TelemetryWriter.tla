--------------------------- MODULE TelemetryWriter ---------------------------
(***************************************************************************)
(* ems/history/influx_writer.py, InfluxTelemetryWriter: the control loop   *)
(* hands batches of telemetry to a bounded queue, a worker thread writes   *)
(* them to InfluxDB, which may be missing, slow or refuse.                 *)
(*                                                                         *)
(* A batch is numbered in the order the control loop offers it.  Nil is    *)
(* the None that stop() puts in the queue to wake the worker.              *)
(***************************************************************************)
EXTENDS Naturals, Sequences, SequencesExt

CONSTANTS
    MaxQueue,               \* max_queue
    BatchMax,               \* batch_max, in batches of one line each
    SchemaReports,          \* SCHEMA_CHECK_REPORTS
    SchemaFailures,         \* SCHEMA_CHECK_FAILURES
    Probes,                 \* requests of one schema check
    MaxBatches              \* bound: batches offered

ASSUME WriterAssumption ==
    /\ MaxQueue \in Nat \ {0} /\ BatchMax \in Nat \ {0} /\ MaxBatches \in Nat
    /\ SchemaReports \in Nat /\ SchemaFailures \in Nat /\ Probes \in Nat \ {0}

VARIABLES
    queue,          \* _queue
    stopping,       \* _stop
    worker,         \* where the worker is: idle, draining, writing, checking, over
    hand,           \* the batch the worker holds
    offered,        \* batches offered so far
    written,        \* what InfluxDB stored, in order
    dropped,        \* the batches _dropped counts: refused by a full queue
    failed,         \* history: batches given up, without a client or by a write that raised
    schema,         \* [checked, reports, failures, probe, due]
    stopped         \* stop(): not called, in it, or returned

writerVars == <<worker, hand>>
ends == <<written, dropped, failed>>
vars == <<queue, stopping, writerVars, offered, ends, schema, stopped>>

Nil == 0

Init ==
    /\ queue = <<>> /\ stopping = FALSE /\ stopped = "no"
    /\ worker = "idle" /\ hand = <<>>
    /\ offered = 0 /\ written = <<>> /\ dropped = {} /\ failed = {}
    /\ schema = [checked |-> FALSE, reports |-> 0, failures |-> 0, probe |-> 0, due |-> TRUE]

(***************************************************************************)
(* The control loop.                                                       *)
(***************************************************************************)
\* Mutant: a full queue makes room by dropping its oldest batch uncounted.
EnqueueOverOldest ==
    /\ stopped = "no" /\ offered < MaxBatches
    /\ offered' = offered + 1
    /\ queue' = Append(IF Len(queue) < MaxQueue THEN queue ELSE Tail(queue), offered + 1)
    /\ UNCHANGED <<stopping, writerVars, ends, schema, stopped>>

\* enqueue: never waits; a full queue refuses the new batch.
Enqueue ==
    /\ stopped = "no" /\ offered < MaxBatches
    /\ offered' = offered + 1
    /\ IF Len(queue) < MaxQueue
       THEN queue' = Append(queue, offered + 1) /\ UNCHANGED dropped
       ELSE dropped' = dropped \cup {offered + 1} /\ UNCHANGED queue
    /\ UNCHANGED <<stopping, writerVars, written, failed, schema, stopped>>

\* stop: the flag, then the wake-up where the queue has room for it.
Stop ==
    /\ stopped = "no"
    /\ stopped' = "flagged"
    /\ stopping' = TRUE
    /\ UNCHANGED <<queue, writerVars, offered, ends, schema>>

WakeUp ==
    /\ stopped = "flagged"
    /\ stopped' = "yes"
    /\ queue' = IF Len(queue) < MaxQueue THEN Append(queue, Nil) ELSE queue
    /\ UNCHANGED <<stopping, writerVars, offered, ends, schema>>

(***************************************************************************)
(* The worker.                                                             *)
(***************************************************************************)
\* Mutant: only the None in the queue ends the worker.
never_told == FALSE

told_to_stop == stopping

Ends ==
    /\ worker = "idle" /\ told_to_stop
    /\ worker' = "over"
    /\ UNCHANGED <<queue, stopping, hand, offered, ends, schema, stopped>>

Take ==
    /\ worker = "idle" /\ ~ told_to_stop /\ queue # <<>>
    /\ queue' = Tail(queue)
    /\ IF Head(queue) = Nil
       THEN worker' = "over" /\ UNCHANGED hand
       ELSE worker' = "draining" /\ hand' = <<Head(queue)>>
    /\ UNCHANGED <<stopping, offered, ends, schema, stopped>>

\* _drain_batch: take what is there, up to the limit; a None ends the drain
\* and sets the flag, the batch in hand is still written.
Drain ==
    /\ worker = "draining"
    /\ IF queue = <<>> \/ Len(hand) >= BatchMax
       THEN worker' = "writing" /\ UNCHANGED <<queue, hand, stopping>>
       ELSE /\ queue' = Tail(queue)
            /\ IF Head(queue) = Nil
               THEN stopping' = TRUE /\ worker' = "writing" /\ UNCHANGED hand
               ELSE hand' = Append(hand, Head(queue)) /\ UNCHANGED <<worker, stopping>>
    /\ UNCHANGED <<offered, ends, schema, stopped>>

\* Mutant: a failed batch goes back to the end of the queue.
Requeue ==
    IF Len(queue) + Len(hand) <= MaxQueue
    THEN queue' = queue \o hand /\ UNCHANGED failed
    ELSE failed' = failed \cup Range(hand) /\ UNCHANGED queue

GiveUp == failed' = failed \cup Range(hand) /\ UNCHANGED queue

\* What InfluxDB may have stored of a request that raised at this end: a read that
\* timed out, a batch refused in part.
parts(s) ==
    UNION {{[i \in 1..n |-> s[f[i]]] :
               f \in {g \in [1..n -> 1..Len(s)] : \A i, j \in 1..n : i < j => g[i] < g[j]}} :
           n \in 0..Len(s)}

\* No client (unreachable, unconfigured) or a write that raised: the batch is
\* given up and the worker backs off in a wait that stop() ends.
WriteFails ==
    /\ worker = "writing"
    /\ GiveUp
    /\ \E part \in parts(hand) : written' = written \o part
    /\ hand' = <<>>
    /\ worker' = "idle"
    /\ UNCHANGED <<stopping, offered, dropped, schema, stopped>>

may_check ==
    /\ ~ schema.checked /\ schema.due
    /\ schema.reports < SchemaReports /\ schema.failures < SchemaFailures

Write ==
    /\ worker = "writing"
    /\ written' = written \o hand
    /\ hand' = <<>>
    /\ worker' = IF may_check THEN "checking" ELSE "idle"
    /\ schema' = IF may_check THEN [schema EXCEPT !.probe = 0] ELSE schema
    /\ UNCHANGED <<queue, stopping, offered, dropped, failed, stopped>>

(***************************************************************************)
(* _report_schema_gap_once: one request after the other, each only while   *)
(* the writer is not stopping and the check's budget lasts.                *)
(***************************************************************************)
over_with(s) == schema' = s /\ worker' = "idle"

\* A whole check reports a gap or latches; one that gave up costs a failure.
completed(gap) == IF gap THEN [schema EXCEPT !.reports = @ + 1, !.due = FALSE]
                         ELSE [schema EXCEPT !.checked = TRUE, !.due = FALSE]

gave_up == [schema EXCEPT !.failures = @ + 1, !.due = FALSE]

probing == schema.probe < Probes /\ ~ stopping

Probe ==
    /\ worker = "checking" /\ probing
    /\ schema' = [schema EXCEPT !.probe = @ + 1]
    /\ UNCHANGED <<queue, stopping, writerVars, offered, ends, stopped>>

\* A request failed or the budget ran out; the token may not read, which
\* settles the question; or something unexpected ends the diagnostic.
ProbeFails ==
    /\ worker = "checking" /\ probing
    /\ \/ over_with(gave_up)
       \/ over_with([schema EXCEPT !.checked = TRUE])
       \/ over_with([schema EXCEPT !.failures = SchemaFailures])
    /\ UNCHANGED <<queue, stopping, hand, offered, ends, stopped>>

CheckEnds ==
    /\ worker = "checking" /\ ~ probing
    /\ IF schema.probe = Probes
       THEN \E gap \in BOOLEAN : over_with(completed(gap))
       ELSE over_with(schema)
    /\ UNCHANGED <<queue, stopping, hand, offered, ends, stopped>>

\* SCHEMA_CHECK_RETRY_SECONDS pass.
CheckDue ==
    /\ ~ schema.due
    /\ schema' = [schema EXCEPT !.due = TRUE]
    /\ UNCHANGED <<queue, stopping, writerVars, offered, ends, stopped>>

WorkerStep == Ends \/ Take \/ Drain \/ WriteFails \/ Write \/ Probe \/ ProbeFails \/ CheckEnds

Next == Enqueue \/ Stop \/ WakeUp \/ WorkerStep \/ CheckDue

\* The worker thread runs on; a request to InfluxDB ends or times out.
Spec == Init /\ [][Next]_vars /\ WF_vars(WorkerStep)

(***************************************************************************)
(* Properties.                                                             *)
(***************************************************************************)
\* Types of the writer's state; the queue never exceeds its limit.
TypeOK ==
    /\ queue \in Seq(Nat) /\ Len(queue) <= MaxQueue
    /\ hand \in Seq(Nat) /\ Len(hand) <= BatchMax
    /\ worker \in {"idle", "draining", "writing", "checking", "over"}
    /\ schema.reports \in 0..SchemaReports /\ schema.failures \in 0..SchemaFailures

\* InfluxDB gets every batch at most once and in the order the control loop
\* offered them, whatever was refused, given up, stored in part or drained together.
StoredInOrder == \A i, j \in 1..Len(written) : i < j => written[i] < written[j]

\* No batch disappears: each one offered waits, is in hand, was refused and counted
\* (_dropped), or its write ended, and no two of these (enqueue, _drain_batch, _run).
\* A write that ended stored it or gave it up uncounted; one that raised may have
\* done both, and nothing here can tell.
Accounted ==
    LET places == <<Range(queue) \ {Nil}, Range(hand), Range(written) \cup failed, dropped>>
    IN  /\ 1..offered = UNION Range(places)
        /\ \A i, j \in 1..4 : i # j => places[i] \cap places[j] = {}

\* The worker ends after stop(), although a full queue may have no room for
\* the wake-up and InfluxDB may never answer (_run, _sleep_backoff).
WorkerEnds == stopped # "no" ~> worker = "over"
=============================================================================
