---------------------------- MODULE TelemetrySink ----------------------------
(***************************************************************************)
(* telemetry/sqs_sink.py: emit on the callers' threads, the pump thread    *)
(* and close.  The queue between them is a queue.Queue, so each put and    *)
(* each get is atomic; what interleaves is emit, the assembly of a batch,  *)
(* the send attempts, close and the end of the process.  Serialisation and *)
(* the backoff between attempts are left out.                              *)
(*                                                                         *)
(* A send attempt is acknowledged in full or in part, or raises: then SQS  *)
(* may have taken any part of the batch all the same.                      *)
(***************************************************************************)
EXTENDS SqsQueue, Sequences, FiniteSets

CONSTANTS
  MaxQueue,     \* max_queue
  BatchSize     \* batch_size

ASSUME SinkAssumption == /\ MaxQueue \in Nat \ {0}
                         /\ BatchSize \in Nat \ {0}

VARIABLES
  q,                 \* _q
  stop,              \* _stop
  pump,              \* where the pump thread is
  batch,             \* entries: the events it still has to get acknowledged
  attempt,           \* attempt, 1 outside _send
  sent,              \* the three counters of /health
  dropped_overflow,
  dropped_send,
  alive,             \* the process has not exited
  emitted,           \* observer: calls of emit so far, one event each
  accepted,          \* observer: the events emit put on the queue
  dropped,           \* observer: the events counted in dropped_send
  lost,              \* observer: the events that were in memory at the exit
  lostAcks           \* observer: attempts that raised after SQS took something

counters  == <<sent, dropped_overflow, dropped_send>>
observers == <<emitted, accepted, dropped, lost, lostAcks>>
sinkVars  == <<q, stop, pump, batch, attempt, counters, alive, observers>>

SinkTypeOK ==
  /\ q \in Seq(Event) /\ Len(q) <= MaxQueue
  /\ stop \in BOOLEAN
  /\ pump \in {"running", "filling", "sending", "draining", "refilling", "flushing", "ended"}
  /\ batch \subseteq Event /\ Cardinality(batch) <= BatchSize
  /\ attempt \in 1..SendRetries
  /\ sent \in Nat /\ dropped_overflow \in Nat /\ dropped_send \in Nat
  /\ alive \in BOOLEAN
  /\ emitted \in 0..EventBound
  /\ accepted \subseteq 1..emitted
  /\ dropped \subseteq accepted
  /\ lost \subseteq accepted
  /\ lostAcks \in 0..StrayBound

SinkInit ==
  /\ q = <<>>
  /\ stop = FALSE
  /\ pump = "running"
  /\ batch = {}
  /\ attempt = 1
  /\ sent = 0 /\ dropped_overflow = 0 /\ dropped_send = 0
  /\ alive = TRUE
  /\ emitted = 0
  /\ accepted = {} /\ dropped = {} /\ lost = {}
  /\ lostAcks = 0

InMemory == {q[i] : i \in DOMAIN q} \union batch

-----------------------------------------------------------------------------
\* Mutant: put instead of dropping.
RoomForever == TRUE

Room == Len(q) < MaxQueue

\* emit: put_nowait, or count the event as dropped.
Emit ==
  /\ alive
  /\ emitted < EventBound
  /\ emitted' = emitted + 1
  /\ \/ /\ Room
        /\ q' = Append(q, emitted')
        /\ accepted' = accepted \union {emitted'}
        /\ UNCHANGED dropped_overflow
     \/ /\ ~Room
        /\ dropped_overflow' = dropped_overflow + 1
        /\ UNCHANGED <<q, accepted>>
  /\ UNCHANGED <<msg, stop, pump, batch, attempt, sent, dropped_send, alive, dropped, lost,
                 lostAcks>>

-----------------------------------------------------------------------------
(* The pump thread.                                                        *)

\* _next_batch: the first event, waited for or not.
TakeFirst ==
  /\ pump \in {"running", "draining"}
  /\ q # <<>>
  /\ batch' = {Head(q)}
  /\ q' = Tail(q)
  /\ pump' = IF pump = "running" THEN "filling" ELSE "refilling"
  /\ UNCHANGED <<msg, stop, attempt, counters, alive, observers>>

Filling == pump \in {"filling", "refilling"}

\* ... then whatever is there by then, up to the batch size.
TakeNext ==
  /\ Filling
  /\ q # <<>>
  /\ Cardinality(batch) < BatchSize
  /\ batch' = batch \union {Head(q)}
  /\ q' = Tail(q)
  /\ UNCHANGED <<msg, stop, pump, attempt, counters, alive, observers>>

\* Mutant: only full batches are sent.
BatchFull ==
  /\ Filling
  /\ Cardinality(batch) >= BatchSize
  /\ pump' = IF pump = "filling" THEN "sending" ELSE "flushing"
  /\ UNCHANGED <<msg, q, stop, batch, attempt, counters, alive, observers>>

BatchComplete ==
  /\ Filling
  /\ q = <<>> \/ Cardinality(batch) >= BatchSize
  /\ pump' = IF pump = "filling" THEN "sending" ELSE "flushing"
  /\ UNCHANGED <<msg, q, stop, batch, attempt, counters, alive, observers>>

\* Nothing came within the poll interval, and close was called meanwhile.
LeaveLoop ==
  /\ pump = "running"
  /\ q = <<>>
  /\ stop
  /\ pump' = "draining"
  /\ UNCHANGED <<msg, q, stop, batch, attempt, counters, alive, observers>>

Sending == pump \in {"sending", "flushing"}

\* Back from _send: to the loop's condition, or on with the final drain.
Resumed == IF pump = "sending" /\ ~stop THEN "running" ELSE "draining"

Done == batch' = {} /\ attempt' = 1 /\ pump' = Resumed

\* Mutant: what SQS refused is not sent again.
ForgetRest(rest) ==
  /\ Done
  /\ UNCHANGED <<dropped_send, dropped>>

\* The end of one attempt that left `rest' unacknowledged.
AfterAttempt(rest) ==
  \/ /\ rest = {}
     /\ Done
     /\ UNCHANGED <<dropped_send, dropped>>
  \/ /\ rest # {}
     /\ attempt < SendRetries
     /\ batch' = rest
     /\ attempt' = attempt + 1
     /\ UNCHANGED <<pump, dropped_send, dropped>>
  \/ /\ rest # {}
     /\ attempt = SendRetries
     /\ dropped_send' = dropped_send + Cardinality(rest)
     /\ dropped' = dropped \union rest
     /\ Done

Enqueued(es) == Moved({<<e, attempt>> : e \in es}, "visible")

\* Mutant: the whole batch is sent again after a partial failure.
SendAcknowledgedWhole ==
  /\ Sending
  /\ \E failed \in SUBSET batch :
       /\ msg' = Enqueued(batch \ failed)
       /\ sent' = sent + Cardinality(batch \ failed)
       /\ AfterAttempt(IF failed = {} THEN {} ELSE batch)
  /\ UNCHANGED <<q, stop, dropped_overflow, alive, emitted, accepted, lost, lostAcks>>

\* send_message_batch returned, with the entries SQS refused.
SendAcknowledged ==
  /\ Sending
  /\ \E failed \in SUBSET batch :
       /\ msg' = Enqueued(batch \ failed)
       /\ sent' = sent + Cardinality(batch \ failed)
       /\ AfterAttempt(failed)
  /\ UNCHANGED <<q, stop, dropped_overflow, alive, emitted, accepted, lost, lostAcks>>

\* send_message_batch raised; everything is sent again.
SendRaises ==
  /\ Sending
  /\ \E taken \in SUBSET batch :
       /\ msg' = Enqueued(taken)
       /\ lostAcks' = IF taken = {} THEN lostAcks ELSE lostAcks + 1
       /\ lostAcks' + JunkSeen <= StrayBound
  /\ AfterAttempt(batch)
  /\ UNCHANGED <<q, stop, sent, dropped_overflow, alive, emitted, accepted, lost>>

PumpEnds ==
  /\ pump = "draining"
  /\ q = <<>>
  /\ pump' = "ended"
  /\ UNCHANGED <<msg, q, stop, batch, attempt, counters, alive, observers>>

Pump == TakeFirst \/ TakeNext \/ BatchComplete \/ LeaveLoop \/ SendAcknowledged \/ SendRaises \/ PumpEnds

-----------------------------------------------------------------------------
(* Shutdown.                                                               *)

\* close, at the end of the application's lifespan.
Close ==
  /\ alive
  /\ ~stop
  /\ stop' = TRUE
  /\ UNCHANGED <<msg, q, pump, batch, attempt, counters, alive, observers>>

\* The join returned, with the pump ended or timed out; the process exits and
\* the daemon thread with it.
Exit ==
  /\ alive
  /\ stop
  /\ alive' = FALSE
  /\ lost' = lost \union InMemory
  /\ q' = <<>>
  /\ batch' = {}
  /\ pump' = "ended"
  /\ attempt' = 1
  /\ UNCHANGED <<msg, stop, counters, emitted, accepted, dropped, lostAcks>>
=============================================================================
