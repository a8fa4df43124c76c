------------------------------ MODULE Telemetry ------------------------------
(***************************************************************************)
(* The telemetry pipeline: the sink in the API process, SQS, the worker    *)
(* and the store.                                                          *)
(***************************************************************************)
EXTENDS TelemetrySink, TelemetryWorker

vars == <<msg, sinkVars, workerVars>>

TelemetryTypeOK == QueueTypeOK /\ SinkTypeOK /\ WorkerTypeOK

Init == QueueInit /\ SinkInit /\ WorkerInit

SinkStep   == (Emit \/ Pump \/ Close \/ Exit) /\ UNCHANGED workerVars
WorkerStep == (Work \/ Disturb) /\ UNCHANGED sinkVars
QueueStep  == (\E m \in Message : Redeliver(m) \/ RedeliverHeld(m)) /\ UNCHANGED sinkVars

\* Somebody else sends a message to the queue.
JunkArrives ==
  /\ msg[Junk].at = "unsent"
  /\ lostAcks < StrayBound
  /\ msg' = Moved({Junk}, "visible")
  /\ UNCHANGED <<sinkVars, workerVars>>

Next == SinkStep \/ WorkerStep \/ QueueStep \/ JunkArrives

Spec == Init /\ [][Next]_vars

\* The pump thread runs and each of its requests returns (sqs_sink.py:79-89);
\* so does the worker, while its process is up; visibility timeouts pass, and
\* the join of a close returns (sqs_sink.py:127).
\* Nobody is assumed to start a worker that has died: docker-compose.yml has no
\* restart policy.
Fairness ==
  /\ WF_vars(Pump /\ UNCHANGED workerVars)
  /\ WF_vars(Exit /\ UNCHANGED workerVars)
  /\ WF_vars(Work /\ UNCHANGED sinkVars)
  /\ WF_vars((\E m \in Message : Redeliver(m)) /\ UNCHANGED sinkVars)

FairSpec == Spec /\ Fairness

-----------------------------------------------------------------------------
(* Properties.                                                             *)

\* sqs_sink.py:104-122, health.py:19-23: the three counters account for every
\* event that was emitted and is no longer in memory, each once, through partial
\* failures, lost answers and retries.
CountersBalance ==
  emitted = sent + dropped_overflow + dropped_send + Len(q) + Cardinality(batch)
              + Cardinality(lost)

\* m7-telemetry.md:90 "A message is deleted only after its event is durably
\* stored", whichever messages share a batch with it and whatever fails.
DeletedOnlyStored ==
  \A m \in At("deleted") : m \in Poison \/ rows[Body(m)] > 0

\* m7-telemetry.md:91-92 "never data loss on the queue side": an event that was
\* accepted is in memory, on a queue, stored, counted as dropped or was in the
\* memory of a process that exited.
NothingVanishes ==
  \A e \in accepted :
    \/ e \in InMemory \union dropped \union lost
    \/ rows[e] > 0
    \/ \E m \in Message : Body(m) = e /\ msg[m].at \in {"visible", "inflight", "parked"}

\* m7-telemetry.md:90-91 "at-least-once": a row too many has a cause.  Each lost
\* answer of SQS makes at most one more message of an event, and each message is
\* stored once more at most for each time it was stored and not deleted.
DuplicatesHaveCause ==
  \A e \in Event : rows[e] <= (1 + lostAcks) * (1 + repeats)

\* The pipeline keeps the promise of EventDelivery.
ParkedEvents == {Body(m) : m \in At("parked") \ Poison}

Delivery == INSTANCE EventDelivery
  WITH stored  <- {e \in Event : rows[e] > 0},
       givenUp <- dropped \union lost \union ParkedEvents,
       serving <- (worker # "down")

DeliverySpec == Delivery!Spec
=============================================================================
