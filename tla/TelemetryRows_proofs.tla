------------------------- MODULE TelemetryRows_proofs -------------------------
(***************************************************************************)
(* How many rows an event can get, for any number of attempts, deliveries  *)
(* and repetitions.                                                        *)
(***************************************************************************)
EXTENDS Telemetry_proofs

\* The messages that were sent of an event, and those of them that will be
\* stored if nothing is repeated: the ones about to be written, and the ones a
\* worker may still receive.
MessagesOf(e) == {m \in Message : Body(m) = e /\ msg[m].at # "unsent"}

Pending(e) ==
  {m \in MessagesOf(e) : \/ worker = "write" /\ m \in held
                         \/ /\ msg[m].at \in {"visible", "inflight"}
                            /\ worker = "delete" => m \notin held}

HeldOf(e) == {m \in held : Body(m) = e}

(***************************************************************************)
(* The rows an event has and the ones it is about to get are paid for by   *)
(* its messages and the repetitions so far; its messages by the answers    *)
(* that were lost, and one more once SQS has acknowledged it.              *)
(***************************************************************************)
RowsPaid(e) ==
  rows[e] + Cardinality(Pending(e)) <= Cardinality(MessagesOf(e)) * (1 + repeats)

MessagesPaid(e) ==
  /\ Cardinality(MessagesOf(e)) <= 1 + lostAcks
  /\ e \in batch => Cardinality(MessagesOf(e)) <= lostAcks

RowsInv == \A e \in Event : RowsPaid(e) /\ MessagesPaid(e)

-----------------------------------------------------------------------------
(* Sizes.                                                                  *)

LEMMA Sizes ==
  ASSUME NEW S \in SUBSET Message
  PROVE  /\ IsFiniteSet(S) /\ Cardinality(S) \in Nat
         /\ \A T \in SUBSET S : Cardinality(T) <= Cardinality(S)
         /\ \A x : x \notin S => Cardinality(S \union {x}) = Cardinality(S) + 1
<1>1. IsFiniteSet(S) /\ Cardinality(S) \in Nat
  BY Messages, FS_Subset, FS_CardinalityType
<1>2. ASSUME NEW T \in SUBSET S PROVE Cardinality(T) <= Cardinality(S)
  BY <1>1, FS_Subset
<1>3. ASSUME NEW x, x \notin S PROVE Cardinality(S \union {x}) = Cardinality(S) + 1
  BY <1>1, <1>3, FS_AddElement
<1> QED BY <1>1, <1>2, <1>3

LEMMA PendingAreSent ==
  ASSUME NEW e PROVE MessagesOf(e) \in SUBSET Message /\ Pending(e) \in SUBSET MessagesOf(e)
  BY DEF MessagesOf, Pending

LEMMA StoredCount ==
  ASSUME Inv, NEW e \in Event
  PROVE  /\ Stored(held)[e] = rows[e] + Cardinality(HeldOf(e))
         /\ \A ms \in SUBSET held : /\ Stored(ms)[e] \in Nat
                                   /\ Stored(ms)[e] <= rows[e] + Cardinality(HeldOf(e))
<1>1. Stored(held)[e] = rows[e] + Cardinality(HeldOf(e))
  BY DEF Stored, HeldOf
<1>2. ASSUME NEW ms \in SUBSET held
      PROVE  /\ Stored(ms)[e] \in Nat
             /\ Stored(ms)[e] <= rows[e] + Cardinality(HeldOf(e))
  <2> DEFINE part == {m \in ms : Body(m) = e}
  <2>1. HeldOf(e) \in SUBSET Message /\ part \in SUBSET HeldOf(e) /\ rows[e] \in Nat
    BY DEF HeldOf, Inv, WorkerInv, WorkerTypeOK
  <2>2. /\ Cardinality(part) \in Nat /\ Cardinality(HeldOf(e)) \in Nat
        /\ Cardinality(part) <= Cardinality(HeldOf(e))
    BY <2>1, Sizes
  <2>3. Stored(ms)[e] = rows[e] + Cardinality(part)
    BY DEF Stored
  <2> HIDE DEF part
  <2> QED BY <2>1, <2>2, <2>3
<1> QED BY <1>1, <1>2

-----------------------------------------------------------------------------
(* Steps of the worker and of the queue.                                   *)

Repeats == repeats' = repeats + 1

(***************************************************************************)
(* What is stored was pending and no longer is, what becomes pending again *)
(* or is stored without ceasing to be is a repetition.                     *)
(***************************************************************************)
LEMMA PendingStep ==
  ASSUME Inv, [Next]_vars, ~Sent, NEW e \in Event
  PROVE  /\ MessagesOf(e)' = MessagesOf(e)
         /\ HeldOf(e) \in SUBSET MessagesOf(e)
         /\ \/ rows' = rows /\ repeats' = repeats /\ Pending(e)' \subseteq Pending(e)
            \/ rows' = rows /\ Repeats
            \/ /\ rows' = Stored(held) /\ repeats' = repeats
               /\ HeldOf(e) \subseteq Pending(e) /\ Pending(e)' \subseteq Pending(e) \ HeldOf(e)
            \/ /\ \E ms \in SUBSET held : rows' = Stored(ms)
               /\ Repeats /\ Pending(e)' \subseteq Pending(e)
<1>1. \A m \in Message : MessageStep(m) /\ msg[m].at \in Place /\ msg'[m].at \in Place
  BY MessagesMove DEF Inv, QueueInv, QueueTypeOK
<1>2. \A m \in Message : Body(m) = e => m # Junk
  BY Messages
<1>3. MessagesOf(e)' = MessagesOf(e)
  BY <1>1, <1>2 DEF MessagesOf, MessageStep
<1>4. HeldOf(e) \in SUBSET MessagesOf(e)
  BY DEF HeldOf, MessagesOf, Inv, WorkerInv, WorkerTypeOK
<1>5. \A m \in MessagesOf(e) : /\ m \in Message /\ m # Junk
                               /\ msg'[m].at \in {"visible", "inflight"} =>
                                    msg[m].at \in {"visible", "inflight"}
  BY <1>1, <1>2 DEF MessagesOf, MessageStep, Place
<1>6. CASE UNCHANGED workerVars
  BY <1>3, <1>4, <1>5, <1>6 DEF Pending, workerVars
<1>7. CASE Receive
  BY <1>3, <1>4, <1>5, <1>7 DEF Pending, Receive, At
<1>8. CASE Write
  BY <1>3, <1>4, <1>8 DEF Pending, HeldOf, Write, ToDelete
<1>9. CASE WriteRaises
  <2>1. worker = "write" /\ UNCHANGED msg /\ held' = held \intersect {Junk}
    BY <1>9 DEF WriteRaises, ToDelete, DeleteAfterFailure, Poison
  <2>2. Pending(e)' \subseteq Pending(e)
    BY <1>3, <2>1 DEF Pending
  <2> QED BY <1>3, <1>4, <1>9, <2>2 DEF WriteRaises, Repeats
<1>10. CASE Delete
  <2>1. \A m \in held : m \in Message /\ (msg[m].at = "parked" \/ msg'[m].at = "deleted")
    BY <1>10, DeletedMessages DEF Delete, Inv, QueueInv, WorkerInv, WorkerTypeOK
  <2>2. \A m \in held : msg'[m].at \notin {"visible", "inflight"}
    BY <1>1, <2>1 DEF MessageStep
  <2> QED BY <1>3, <1>4, <1>5, <1>10, <2>2 DEF Pending, Delete
<1>11. CASE DeletePart \/ DieUndeleted \/ \E m \in Message : RedeliverHeld(m)
  BY <1>3, <1>4, <1>11 DEF DeletePart, DieUndeleted, RedeliverHeld, Repeats
<1>12. CASE Die \/ Start
  BY <1>3, <1>4, <1>5, <1>12 DEF Pending, Die, Start
<1> QED BY <1>6, <1>7, <1>8, <1>9, <1>10, <1>11, <1>12
  DEF Next, vars, SinkStep, WorkerStep, QueueStep, JunkArrives, Work, Disturb, Redeliver

LEMMA WorkerKeepsRows ==
  ASSUME Inv, [Next]_vars, ~Sent, NEW e \in Event, RowsPaid(e) PROVE RowsPaid(e)'
<1> DEFINE all == Cardinality(MessagesOf(e))
           before == Cardinality(Pending(e))
           after == Cardinality(Pending(e)')
           written == Cardinality(HeldOf(e))
<1>1. all \in Nat /\ before \in Nat /\ rows[e] \in Nat /\ repeats \in Nat
  BY PendingAreSent, Sizes, WorkerAssumption DEF Inv, WorkerInv, WorkerTypeOK
<1>2. MessagesOf(e)' = MessagesOf(e) /\ HeldOf(e) \in SUBSET MessagesOf(e)
  BY PendingStep
<1>3. /\ Pending(e)' \in SUBSET MessagesOf(e) /\ after \in Nat /\ after <= all
      /\ written \in Nat /\ written <= all
  <2>1. Pending(e)' \in SUBSET MessagesOf(e)
    BY <1>2 DEF Pending
  <2> QED BY <1>2, <2>1, PendingAreSent, Sizes
<1>4. Pending(e)' \subseteq Pending(e) => after <= before
  BY PendingAreSent, Sizes
<1>5. HeldOf(e) \subseteq Pending(e) /\ Pending(e)' \subseteq Pending(e) \ HeldOf(e) =>
        after + written <= before
  <2> SUFFICES ASSUME HeldOf(e) \subseteq Pending(e), Pending(e)' \subseteq Pending(e) \ HeldOf(e)
               PROVE  after + written <= before
    OBVIOUS
  <2>1. IsFiniteSet(Pending(e)) /\ Pending(e) \ HeldOf(e) \in SUBSET Message
    BY PendingAreSent, Sizes
  <2>2. before = written + Cardinality(Pending(e) \ HeldOf(e))
    BY <2>1, CardinalityOfParts
  <2>3. after <= Cardinality(Pending(e) \ HeldOf(e)) /\ Cardinality(Pending(e) \ HeldOf(e)) \in Nat
    BY <2>1, Sizes
  <2> QED BY <1>1, <1>3, <2>2, <2>3
<1>6. /\ rows' = Stored(held) => rows'[e] = rows[e] + written
      /\ (\E ms \in SUBSET held : rows' = Stored(ms)) =>
           rows'[e] \in Nat /\ rows'[e] <= rows[e] + written
  BY StoredCount
<1>7. rows[e] + before <= all * (1 + repeats)
  BY DEF RowsPaid
<1>8. all * (1 + (repeats + 1)) = all * (1 + repeats) + all /\ all * (1 + repeats) \in Nat
  <2> HIDE DEF all
  <2> QED BY <1>1
<1>9. rows'[e] + after <= all * (1 + repeats')
  <2> HIDE DEF all, before, after, written
  <2>1. CASE rows' = rows /\ repeats' = repeats /\ after <= before
    BY <1>1, <1>3, <1>7, <1>8, <2>1
  <2>2. CASE rows' = rows /\ Repeats
    BY <1>1, <1>3, <1>7, <1>8, <2>2 DEF Repeats
  <2>3. CASE rows' = Stored(held) /\ repeats' = repeats /\ after + written <= before
    BY <1>1, <1>3, <1>6, <1>7, <1>8, <2>3
  <2>4. CASE (\E ms \in SUBSET held : rows' = Stored(ms)) /\ Repeats /\ after <= before
    BY <1>1, <1>3, <1>6, <1>7, <1>8, <2>4 DEF Repeats
  <2> QED BY PendingStep, <1>4, <1>5, <2>1, <2>2, <2>3, <2>4
<1> QED BY <1>2, <1>9 DEF RowsPaid

LEMMA WorkerKeepsMessages ==
  ASSUME Inv, [Next]_vars, ~Sent, NEW e \in Event, MessagesPaid(e) PROVE MessagesPaid(e)'
<1>1. MessagesOf(e)' = MessagesOf(e) /\ lostAcks' = lostAcks
  BY PendingStep DEF Sent, Next, vars, sinkVars, observers, SinkStep, WorkerStep, QueueStep,
    JunkArrives, Pump, Emit, TakeFirst, TakeNext, BatchComplete, LeaveLoop, PumpEnds, Close, Exit
<1>2. CASE e \in batch' => e \in batch
  BY <1>1, <1>2 DEF MessagesPaid
<1>3. CASE e \in batch' /\ e \notin batch
  <2>1. q # <<>> /\ e = Head(q)
    BY <1>3 DEF Sent, Next, vars, sinkVars, SinkStep, WorkerStep, QueueStep, JunkArrives, Pump,
      Emit, TakeFirst, TakeNext, BatchComplete, LeaveLoop, PumpEnds, Close, Exit
  <2>2. 1 \in DOMAIN q /\ q[1] = e
    BY <2>1 DEF Inv, SinkInv, SinkTypeOK
  <2>3. \A m \in Message : Body(m) = e => m # Junk /\ m[1] = e /\ ~Spent(m[1], m[2])
    BY <2>2, Messages DEF Spent
  <2>4. MessagesOf(e) = {}
    BY <2>3 DEF MessagesOf, Inv, QueueInv
  <2>5. lostAcks \in Nat
    BY QueueAssumption DEF Inv, SinkInv, SinkTypeOK
  <2>6. MessagesOf(e)' = {} /\ Cardinality({}) = 0
    BY <1>1, <2>4, FS_EmptySet
  <2>7. 0 <= 1 + lostAcks /\ 0 <= lostAcks
    BY <2>5
  <2> QED BY <1>1, <2>6, <2>7 DEF MessagesPaid
<1> QED BY <1>2, <1>3

-----------------------------------------------------------------------------
(* Send attempts.                                                          *)

(***************************************************************************)
(* An attempt makes at most one message of an event, which did not exist   *)
(* before; it leaves the batch, or the answer was lost.                    *)
(***************************************************************************)
LEMMA SendLeavesWorker ==
  ASSUME Inv, [Next]_vars, Sent PROVE UNCHANGED workerVars
<1>1. ~UNCHANGED <<pump, attempt>>
  <2>1. attempt \in Nat
    BY QueueAssumption DEF Inv, SinkInv, SinkTypeOK
  <2>2. PICK rest : AfterAttempt(rest)
    BY DEF Sent, SendAcknowledged, SendRaises
  <2>3. Sending
    BY DEF Sent, SendAcknowledged, SendRaises
  <2> QED BY <2>1, <2>2, <2>3 DEF AfterAttempt, Done, Resumed, Sending
<1> QED BY <1>1 DEF Next, vars, sinkVars, SinkStep, WorkerStep, QueueStep, JunkArrives

LEMMA SendStep ==
  ASSUME Inv, [Next]_vars, Sent, NEW e \in Event
  PROVE  \/ /\ MessagesOf(e)' = MessagesOf(e) /\ Pending(e)' = Pending(e)
            /\ lostAcks' \in {lostAcks, lostAcks + 1}
         \/ \E m \in Message \ MessagesOf(e) :
              /\ e \in batch
              /\ MessagesOf(e)' = MessagesOf(e) \union {m}
              /\ Pending(e)' \subseteq Pending(e) \union {m}
              /\ \/ lostAcks' = lostAcks /\ e \notin batch'
                 \/ lostAcks' = lostAcks + 1
<1>1. PICK es \in SUBSET batch :
        /\ msg' = Enqueued(es) /\ UNCHANGED workerVars
        /\ \/ lostAcks' = lostAcks /\ es \intersect batch' = {}
           \/ lostAcks' = lostAcks + 1
  <2>0. UNCHANGED workerVars
    BY SendLeavesWorker
  <2>1. CASE SendAcknowledged
    <3>1. PICK failed \in SUBSET batch : msg' = Enqueued(batch \ failed) /\ AfterAttempt(failed)
      BY <2>1 DEF SendAcknowledged
    <3>2. (batch \ failed) \intersect batch' = {} /\ batch \ failed \in SUBSET batch
      BY <3>1 DEF AfterAttempt, Done
    <3>3. lostAcks' = lostAcks
      BY <2>1 DEF SendAcknowledged
    <3> QED BY <2>0, <3>1, <3>2, <3>3
  <2>2. CASE SendRaises
    <3>1. PICK taken \in SUBSET batch :
            msg' = Enqueued(taken) /\ lostAcks' = IF taken = {} THEN lostAcks ELSE lostAcks + 1
      BY <2>2 DEF SendRaises
    <3> QED BY <2>0, <3>1
  <2> QED BY <2>1, <2>2 DEF Sent
<1> DEFINE new == <<e, attempt>>
           ms == {<<x, attempt>> : x \in es}
<1>2. /\ \A m \in Message : /\ msg'[m].at = IF m \in ms THEN "visible" ELSE msg[m].at
      /\ attempt \in 1..SendRetries
  <2>1. QueueTypeOK /\ "visible" \in Place
    BY DEF Inv, QueueInv, Place
  <2> QED BY <1>1, <2>1, MovedMessages DEF Enqueued, Inv, SinkInv, SinkTypeOK
<1>3. \A m \in Message : Body(m) = e => (m \in ms <=> e \in es /\ m = new)
  <2> SUFFICES ASSUME NEW m \in Message, Body(m) = e PROVE m \in ms <=> e \in es /\ m = new
    OBVIOUS
  <2> QED BY DEF Body
<1>4. CASE e \notin es
  <2>1. \A m \in Message : Body(m) = e => msg'[m].at = msg[m].at
    BY <1>2, <1>3, <1>4
  <2>2. MessagesOf(e)' = MessagesOf(e)
    BY <2>1 DEF MessagesOf
  <2>3. Pending(e)' = Pending(e)
    BY <1>1, <2>1, <2>2 DEF Pending, MessagesOf, workerVars
  <2> QED BY <1>1, <2>2, <2>3
<1>5. CASE e \in es
  <2>1. new \in Message /\ Body(new) = e /\ e \in batch
    BY <1>2, <1>5, Messages
  <2>2. new \notin MessagesOf(e)
    <3>1. ~Spent(e, attempt) /\ new # Junk /\ new[1] = e /\ new[2] = attempt
      BY <1>2, <2>1, Messages DEF Spent
    <3> QED BY <2>1, <3>1 DEF MessagesOf, Inv, QueueInv
  <2>3. /\ msg'[new].at = "visible"
        /\ \A m \in Message : Body(m) = e /\ m # new => msg'[m].at = msg[m].at
    BY <1>2, <1>3, <1>5, <2>1
  <2>4. MessagesOf(e)' = MessagesOf(e) \union {new}
    BY <2>1, <2>3 DEF MessagesOf
  <2>5. Pending(e)' \subseteq Pending(e) \union {new}
    BY <1>1, <2>3, <2>4 DEF Pending, MessagesOf, workerVars
  <2>6. \/ lostAcks' = lostAcks /\ e \notin batch'
        \/ lostAcks' = lostAcks + 1
    BY <1>1, <1>5
  <2> HIDE DEF new
  <2> QED BY <2>1, <2>2, <2>4, <2>5, <2>6
<1> QED BY <1>4, <1>5

LEMMA SendKeepsRows ==
  ASSUME Inv, [Next]_vars, Sent, NEW e \in Event, RowsPaid(e), MessagesPaid(e)
  PROVE  RowsPaid(e)' /\ MessagesPaid(e)'
<1> DEFINE all == Cardinality(MessagesOf(e))
           pending == Cardinality(Pending(e))
<1>1. all \in Nat /\ pending \in Nat /\ rows[e] \in Nat /\ repeats \in Nat /\ lostAcks \in Nat
  BY PendingAreSent, Sizes, WorkerAssumption, QueueAssumption
  DEF Inv, WorkerInv, WorkerTypeOK, SinkInv, SinkTypeOK
<1>2. UNCHANGED <<rows, repeats>> /\ batch' \in SUBSET batch
  BY SendLeavesWorker, BatchShrinks DEF workerVars
<1>3. rows[e] + pending <= all * (1 + repeats)
  BY DEF RowsPaid
<1>4. all <= 1 + lostAcks /\ (e \in batch => all <= lostAcks)
  BY DEF MessagesPaid
<1>5. CASE /\ MessagesOf(e)' = MessagesOf(e) /\ Pending(e)' = Pending(e)
           /\ lostAcks' \in {lostAcks, lostAcks + 1}
  <2>1. RowsPaid(e)'
    BY <1>2, <1>3, <1>5 DEF RowsPaid
  <2>2. all <= 1 + lostAcks' /\ (e \in batch' => all <= lostAcks')
    <3>1. lostAcks' = lostAcks \/ lostAcks' = lostAcks + 1
      BY <1>5
    <3> HIDE DEF all
    <3> QED BY <1>1, <1>2, <1>4, <3>1
  <2> QED BY <1>5, <2>1, <2>2 DEF MessagesPaid
<1>6. ASSUME NEW m \in Message \ MessagesOf(e), e \in batch,
             MessagesOf(e)' = MessagesOf(e) \union {m}, Pending(e)' \subseteq Pending(e) \union {m},
             \/ lostAcks' = lostAcks /\ e \notin batch'
             \/ lostAcks' = lostAcks + 1
      PROVE  RowsPaid(e)' /\ MessagesPaid(e)'
  <2>1. Cardinality(MessagesOf(e)') = all + 1
    BY <1>6, PendingAreSent, Sizes
  <2>2. Cardinality(Pending(e)') \in Nat /\ Cardinality(Pending(e)') <= pending + 1
    <3>1. m \notin Pending(e) /\ Pending(e) \union {m} \in SUBSET Message
      BY <1>6, PendingAreSent
    <3>2. Cardinality(Pending(e) \union {m}) = pending + 1
      BY <3>1, PendingAreSent, Sizes
    <3> QED BY <1>6, <3>1, <3>2, Sizes
  <2>3. (all + 1) * (1 + repeats) = all * (1 + repeats) + 1 + repeats /\ all * (1 + repeats) \in Nat
    <3> HIDE DEF all
    <3> QED BY <1>1
  <2>4. rows[e] + Cardinality(Pending(e)') <= (all + 1) * (1 + repeats)
    <3> DEFINE after == Cardinality(Pending(e)')
    <3> HIDE DEF all, pending, after
    <3>1. after \in Nat /\ after <= pending + 1
      BY <2>2 DEF after
    <3>2. rows[e] + after <= (all + 1) * (1 + repeats)
      BY <1>1, <1>3, <2>3, <3>1
    <3> QED BY <3>2 DEF after
  <2>5. all + 1 <= 1 + lostAcks' /\ (e \in batch' => all + 1 <= lostAcks')
    <3> HIDE DEF all
    <3> QED BY <1>1, <1>4, <1>6
  <2> QED BY <1>2, <2>1, <2>4, <2>5 DEF RowsPaid, MessagesPaid
<1> QED BY <1>5, <1>6, SendStep

-----------------------------------------------------------------------------
LEMMA RowsKept == Inv /\ RowsInv /\ [Next]_vars => RowsInv'
  BY WorkerKeepsRows, WorkerKeepsMessages, SendKeepsRows DEF RowsInv

LEMMA RowsStart == Init => RowsInv
<1> SUFFICES ASSUME Init, NEW e \in Event PROVE RowsPaid(e) /\ MessagesPaid(e)
  BY DEF RowsInv
<1>1. MessagesOf(e) = {} /\ Pending(e) = {}
  BY DEF Init, QueueInit, MessagesOf, Pending
<1>2. Cardinality({}) = 0
  BY FS_EmptySet
<1> QED BY <1>1, <1>2 DEF Init, SinkInit, WorkerInit, RowsPaid, MessagesPaid

(***************************************************************************)
(* At least once (m7-telemetry.md:90-91), and not more often than there    *)
(* are causes: an event has at most one row for each message of it, made   *)
(* by the acknowledged attempt and by those whose answer was lost          *)
(* (sqs_sink.py:104-120), and each time it stayed undeleted after a write  *)
(* (telemetry_worker.py:53-95).                                            *)
(***************************************************************************)
THEOREM DuplicatesCaused == Spec => []DuplicatesHaveCause
<1>1. Inv /\ RowsInv => DuplicatesHaveCause
  <2> SUFFICES ASSUME Inv, NEW e \in Event, RowsPaid(e), MessagesPaid(e)
               PROVE  rows[e] <= (1 + lostAcks) * (1 + repeats)
    BY DEF RowsInv, DuplicatesHaveCause
  <2> DEFINE all == Cardinality(MessagesOf(e))
             pending == Cardinality(Pending(e))
  <2>1. all \in Nat /\ pending \in Nat /\ rows[e] \in Nat /\ repeats \in Nat /\ lostAcks \in Nat
    BY PendingAreSent, Sizes, WorkerAssumption, QueueAssumption
    DEF Inv, WorkerInv, WorkerTypeOK, SinkInv, SinkTypeOK
  <2>2. rows[e] + pending <= all * (1 + repeats) /\ all <= 1 + lostAcks
    BY DEF RowsPaid, MessagesPaid
  <2> HIDE DEF all, pending
  <2>3. all * (1 + repeats) <= (1 + lostAcks) * (1 + repeats)
    BY <2>1, <2>2
  <2>4. all * (1 + repeats) \in Nat /\ (1 + lostAcks) * (1 + repeats) \in Nat
    BY <2>1
  <2> QED BY <2>1, <2>2, <2>3, <2>4
<1> QED BY <1>1, RowsStart, RowsKept, Inductive, PTL DEF Spec
=============================================================================
