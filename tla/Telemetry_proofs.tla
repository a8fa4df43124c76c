--------------------------- MODULE Telemetry_proofs ---------------------------
(***************************************************************************)
(* What holds of the telemetry pipeline for any number of events, any      *)
(* queue and batch sizes and any number of retries and deliveries.         *)
(***************************************************************************)
EXTENDS Telemetry, FiniteSetTheorems, TLAPS

(***************************************************************************)
(* The sink: the events in memory are accepted ones, each in one place,    *)
(* and what the pump holds is what it is working on.                       *)
(***************************************************************************)
SinkInv ==
  /\ SinkTypeOK
  /\ \A i \in DOMAIN q : q[i] \in accepted \ batch
  /\ \A i, j \in DOMAIN q : i # j => q[i] # q[j]
  /\ batch \subseteq accepted
  /\ ~Filling /\ ~Sending => batch = {}
  /\ ~Sending => attempt = 1

(***************************************************************************)
(* The queue: a message that was sent carries an accepted event and the    *)
(* number of an attempt that is over, so no attempt sends over another's   *)
(* message.                                                                *)
(***************************************************************************)
Spent(e, a) ==
  /\ e \in accepted
  /\ \A i \in DOMAIN q : q[i] # e
  /\ e \in batch => a < attempt

QueueInv ==
  /\ QueueTypeOK
  /\ \A m \in Message : /\ msg[m].at = "unsent" => msg[m].received = 0
                        /\ msg[m].at = "visible" => msg[m].received < MaxReceive
                        /\ msg[m].at # "unsent" => m = Junk \/ Spent(m[1], m[2])

(***************************************************************************)
(* The worker: it holds messages that were sent, and is about to delete    *)
(* only poison and what it has stored.                                     *)
(***************************************************************************)
WorkerInv ==
  /\ WorkerTypeOK
  /\ \A m \in held : msg[m].at # "unsent"
  /\ worker = "delete" => \A m \in held : m = Junk \/ rows[Body(m)] > 0

-----------------------------------------------------------------------------
(* Messages and what the operations of the queue do to them.               *)

LEMMA Messages ==
  /\ IsFiniteSet(Message)
  /\ Junk \in Message
  /\ \A e \in Event, a \in 1..SendRetries :
       <<e, a>> \in Message /\ <<e, a>> # Junk /\ Body(<<e, a>>) = e
  /\ \A m \in Message : m # Junk => /\ m[1] \in Event /\ m[2] \in 1..SendRetries
                                    /\ m = <<m[1], m[2]>> /\ Body(m) = m[1]
  /\ Body(Junk) \notin Event
<1> USE QueueAssumption DEF Event, Junk, Message, Body
<1>1. IsFiniteSet(Event) /\ IsFiniteSet(1..SendRetries)
  BY FS_Interval
<1>2. IsFiniteSet(Event \X (1..SendRetries))
  BY <1>1, FS_Product
<1>3. IsFiniteSet({Junk})
  BY FS_Singleton
<1>4. IsFiniteSet(Message)
  BY <1>2, <1>3, FS_Union
<1> QED BY <1>4

LEMMA MovedMessages ==
  ASSUME QueueTypeOK, NEW ms, NEW place \in Place
  PROVE  /\ Moved(ms, place) \in [Message -> [at : Place, received : 0..MaxReceive]]
         /\ \A m \in Message :
              /\ Moved(ms, place)[m].at = IF m \in ms THEN place ELSE msg[m].at
              /\ Moved(ms, place)[m].received = msg[m].received
  BY DEF Moved, QueueTypeOK

LEMMA DeletedMessages ==
  ASSUME QueueTypeOK, NEW ms
  PROVE  /\ Deleted(ms) \in [Message -> [at : Place, received : 0..MaxReceive]]
         /\ \A m \in Message :
              /\ m \notin ms \/ msg[m].at = "parked" => Deleted(ms)[m] = msg[m]
              /\ m \in ms /\ msg[m].at # "parked" => Deleted(ms)[m].at = "deleted"
  BY QueueAssumption DEF Deleted, QueueTypeOK, Place

LEMMA TakenMessages ==
  ASSUME QueueTypeOK, NEW ms, \A m \in ms : msg[m].received < MaxReceive
  PROVE  /\ Taken(ms) \in [Message -> [at : Place, received : 0..MaxReceive]]
         /\ \A m \in Message :
              /\ m \notin ms => Taken(ms)[m] = msg[m]
              /\ m \in ms => Taken(ms)[m].at = "inflight"
  BY QueueAssumption DEF Taken, QueueTypeOK, Place

(***************************************************************************)
(* A write adds rows for the events of its messages and takes none away.   *)
(***************************************************************************)
LEMMA StoredRows ==
  ASSUME rows \in [Event -> Nat], NEW ms \in SUBSET Message
  PROVE  /\ Stored(ms) \in [Event -> Nat]
         /\ \A e \in Event : rows[e] > 0 => Stored(ms)[e] > 0
         /\ \A m \in ms : m # Junk => Stored(ms)[Body(m)] > 0
         /\ \A e \in Event : Stored(ms)[e] > 0 /\ rows[e] = 0 => \E m \in ms : Body(m) = e
<1> DEFINE Of(e) == {m \in ms : Body(m) = e}
<1>1. \A e : IsFiniteSet(Of(e)) /\ Cardinality(Of(e)) \in Nat
             /\ (Cardinality(Of(e)) = 0 <=> Of(e) = {})
  <2> TAKE e
  <2>1. Of(e) \in SUBSET Message
    OBVIOUS
  <2>2. IsFiniteSet(Of(e))
    BY <2>1, Messages, FS_Subset
  <2> QED BY <2>2, FS_CardinalityType, FS_EmptySet
<1>2. Stored(ms) = [e \in Event |-> rows[e] + Cardinality(Of(e))]
  BY DEF Stored
<1>3. ASSUME NEW m \in ms, m # Junk PROVE Stored(ms)[Body(m)] > 0
  <2>1. Body(m) \in Event /\ Of(Body(m)) # {}
    BY <1>3, Messages
  <2>2. Cardinality(Of(Body(m))) > 0
    <3> HIDE DEF Of
    <3>1. Cardinality(Of(Body(m))) \in Nat /\ Cardinality(Of(Body(m))) # 0
      BY <2>1, <1>1
    <3> QED BY <3>1
  <2>3. Stored(ms)[Body(m)] = rows[Body(m)] + Cardinality(Of(Body(m)))
    BY <2>1, <1>2
  <2>4. Cardinality(Of(Body(m))) \in Nat /\ rows[Body(m)] \in Nat
    BY <2>1, <1>1
  <2> HIDE DEF Of
  <2> QED BY <2>2, <2>3, <2>4
<1>4. ASSUME NEW e \in Event, Stored(ms)[e] > 0, rows[e] = 0
      PROVE  \E m \in ms : Body(m) = e
  <2>1. Cardinality(Of(e)) # 0
    <3> HIDE DEF Of
    <3> QED BY <1>2, <1>1, <1>4
  <2>2. Of(e) # {}
    <3> HIDE DEF Of
    <3> QED BY <2>1, <1>1
  <2> QED BY <2>2
<1>5. Stored(ms) \in [Event -> Nat] /\ \A e \in Event : rows[e] > 0 => Stored(ms)[e] > 0
  <2> HIDE DEF Of
  <2> QED BY <1>1, <1>2
<1> QED BY <1>3, <1>4, <1>5

-----------------------------------------------------------------------------
(* The sink.                                                               *)

LEMMA BatchCardinality ==
  ASSUME NEW b \in SUBSET Event
  PROVE  /\ IsFiniteSet(b) /\ Cardinality(b) \in Nat
         /\ \A x : Cardinality(b \union {x}) <= Cardinality(b) + 1
         /\ \A r \in SUBSET b : Cardinality(r) \in Nat /\ Cardinality(r) <= Cardinality(b)
<1>0. IsFiniteSet(Event)
  BY QueueAssumption, FS_Interval DEF Event
<1>1. IsFiniteSet(b)
  BY <1>0, FS_Subset
<1>2. Cardinality(b) \in Nat
  BY <1>1, FS_CardinalityType
<1>3. ASSUME NEW x PROVE Cardinality(b \union {x}) <= Cardinality(b) + 1
  <2>1. Cardinality(b \union {x}) = IF x \in b THEN Cardinality(b) ELSE Cardinality(b) + 1
    BY <1>1, FS_AddElement
  <2> QED BY <2>1, <1>2
<1>4. ASSUME NEW r \in SUBSET b
      PROVE  Cardinality(r) \in Nat /\ Cardinality(r) <= Cardinality(b)
  BY <1>1, FS_Subset, FS_CardinalityType
<1> QED BY <1>1, <1>2, <1>3, <1>4

(***************************************************************************)
(* The queue without its first event.                                      *)
(***************************************************************************)
LEMMA TailOfQueue ==
  ASSUME SinkInv, q # <<>>
  PROVE  /\ Head(q) \in Event /\ Head(q) \in accepted \ batch
         /\ Tail(q) \in Seq(Event) /\ Len(Tail(q)) <= MaxQueue
         /\ \A i \in DOMAIN Tail(q) : /\ Tail(q)[i] \in accepted \ (batch \union {Head(q)})
                                     /\ i + 1 \in DOMAIN q /\ Tail(q)[i] = q[i + 1]
         /\ \A i, j \in DOMAIN Tail(q) : i # j => Tail(q)[i] # Tail(q)[j]
         /\ \A i \in DOMAIN q : q[i] = Head(q) \/ \E j \in DOMAIN Tail(q) : Tail(q)[j] = q[i]
<1> USE SinkAssumption
<1>1. q \in Seq(Event) /\ Len(q) \in Nat /\ Len(q) > 0 /\ Len(q) <= MaxQueue
      /\ DOMAIN q = 1..Len(q)
  BY DEF SinkInv, SinkTypeOK
<1>2. Head(q) = q[1] /\ 1 \in DOMAIN q
  BY <1>1
<1>3. /\ Tail(q) \in Seq(Event) /\ Len(Tail(q)) = Len(q) - 1
      /\ \A i \in 1..(Len(q) - 1) : Tail(q)[i] = q[i + 1]
  BY <1>1
<1>4. DOMAIN Tail(q) = 1..(Len(q) - 1)
  BY <1>1, <1>3
<1>5. ASSUME NEW i \in DOMAIN Tail(q)
      PROVE  i + 1 \in DOMAIN q /\ Tail(q)[i] = q[i + 1] /\ i + 1 # 1
  BY <1>1, <1>3, <1>4
<1>6. ASSUME NEW i \in DOMAIN q
      PROVE  q[i] = Head(q) \/ \E j \in DOMAIN Tail(q) : Tail(q)[j] = q[i]
  <2>1. CASE i = 1
    BY <2>1, <1>2
  <2>2. CASE i # 1
    <3>1. i - 1 \in DOMAIN Tail(q) /\ (i - 1) + 1 = i
      BY <2>2, <1>1, <1>4
    <3> QED BY <3>1, <1>5
  <2> QED BY <2>1, <2>2
<1>7. \A i, j \in DOMAIN Tail(q) : i # j => Tail(q)[i] # Tail(q)[j]
  BY <1>1, <1>4, <1>5 DEF SinkInv
<1>8. \A i \in DOMAIN Tail(q) : Tail(q)[i] \in accepted \ (batch \union {Head(q)})
  BY <1>2, <1>5 DEF SinkInv
<1>9. Head(q) \in Event
  BY <1>1, <1>2
<1> QED BY <1>1, <1>2, <1>3, <1>5, <1>6, <1>7, <1>8, <1>9 DEF SinkInv

(***************************************************************************)
(* A batch loses what SQS took; if nothing is left or the attempts are     *)
(* used up, it is gone.                                                    *)
(***************************************************************************)
LEMMA AttemptKeepsSink ==
  ASSUME SinkInv, Sending, NEW rest \in SUBSET batch, AfterAttempt(rest),
         sent' \in Nat, lostAcks' \in 0..StrayBound,
         UNCHANGED <<q, stop, dropped_overflow, alive, emitted, accepted, lost>>
  PROVE  SinkInv' /\ batch' \in SUBSET batch /\ (batch' # {} => attempt' = attempt + 1)
<1> USE SinkAssumption, QueueAssumption
<1>0. batch \in SUBSET Event /\ Cardinality(batch) <= BatchSize
  BY DEF SinkInv, SinkTypeOK
<1>1. Cardinality(rest) \in Nat /\ Cardinality(rest) <= BatchSize /\ Cardinality({}) <= BatchSize
  BY <1>0, BatchCardinality, FS_EmptySet
<1>2. CASE attempt < SendRetries /\ batch' = rest /\ attempt' = attempt + 1
           /\ UNCHANGED <<pump, dropped_send, dropped>>
  <2>1. attempt' \in 1..SendRetries
    BY <1>2 DEF SinkInv, SinkTypeOK
  <2>2. batch' \subseteq Event /\ Cardinality(batch') <= BatchSize
    BY <1>0, <1>1, <1>2
  <2>3. SinkTypeOK'
    BY <1>2, <2>1, <2>2 DEF SinkInv, SinkTypeOK
  <2> QED BY <1>2, <2>3 DEF SinkInv, Filling, Sending
<1>3. CASE Done /\ UNCHANGED <<dropped_send, dropped>>
  BY <1>0, <1>1, <1>3 DEF SinkInv, SinkTypeOK, Filling, Sending, Done, Resumed
<1>4. CASE /\ dropped_send' = dropped_send + Cardinality(rest)
           /\ dropped' = dropped \union rest
           /\ Done
  BY <1>0, <1>1, <1>4 DEF SinkInv, SinkTypeOK, Filling, Sending, Done, Resumed
<1> QED BY <1>2, <1>3, <1>4 DEF AfterAttempt

(***************************************************************************)
(* SinkInv is inductive.                                                   *)
(***************************************************************************)
LEMMA SinkStarts == Init => SinkInv
<1> SUFFICES ASSUME SinkInit PROVE SinkInv
  BY DEF Init
<1> USE SinkAssumption, QueueAssumption
<1>1. Cardinality({}) = 0
  BY FS_EmptySet
<1>2. q = <<>> /\ DOMAIN q = {} /\ q \in Seq(Event) /\ Len(q) = 0
  BY DEF SinkInit
<1>3. SinkTypeOK
  <2>1. batch \subseteq Event /\ Cardinality(batch) <= BatchSize
    BY <1>1 DEF SinkInit
  <2>2. stop \in BOOLEAN /\ alive \in BOOLEAN
    BY DEF SinkInit
  <2>3. attempt \in 1..SendRetries /\ emitted \in 0..EventBound /\ lostAcks \in 0..StrayBound
    BY DEF SinkInit
  <2> QED BY <1>2, <2>1, <2>2, <2>3 DEF SinkInit, SinkTypeOK
<1> QED BY <1>2, <1>3 DEF SinkInit, SinkInv

LEMMA SinkKept == SinkInv /\ [Next]_vars => SinkInv'
<1> SUFFICES ASSUME SinkInv, [Next]_vars PROVE SinkInv'
  OBVIOUS
<1> USE SinkAssumption, QueueAssumption
<1>1. CASE UNCHANGED sinkVars
  BY <1>1 DEF sinkVars, counters, observers, SinkInv, SinkTypeOK, Filling, Sending
<1>2. CASE Emit
  <2>1. CASE Room /\ q' = Append(q, emitted') /\ accepted' = accepted \union {emitted'}
             /\ UNCHANGED dropped_overflow
    <3>1. /\ q \in Seq(Event) /\ Len(q) \in Nat /\ Len(q) < MaxQueue /\ DOMAIN q = 1..Len(q)
          /\ emitted' = emitted + 1 /\ emitted' \in Event /\ emitted' \notin accepted
      BY <1>2, <2>1 DEF SinkInv, SinkTypeOK, Emit, Room, Event
    <3>2. /\ q' \in Seq(Event) /\ Len(q') = Len(q) + 1 /\ DOMAIN q' = 1..(Len(q) + 1)
          /\ \A i \in 1..Len(q) : q'[i] = q[i]
          /\ q'[Len(q) + 1] = emitted'
      BY <2>1, <3>1
    <3>3. \A i \in DOMAIN q' : q'[i] \in accepted' \ batch
      BY <2>1, <3>1, <3>2 DEF SinkInv
    <3>4. \A i, j \in DOMAIN q' : i # j => q'[i] # q'[j]
      BY <3>1, <3>2 DEF SinkInv
    <3>5. SinkTypeOK'
      BY <1>2, <2>1, <3>1, <3>2 DEF SinkInv, SinkTypeOK, Emit
    <3>6. batch' \subseteq accepted' /\ UNCHANGED <<batch, pump, attempt>>
      BY <1>2, <2>1 DEF SinkInv, Emit
    <3> QED BY <3>3, <3>4, <3>5, <3>6 DEF SinkInv, Filling, Sending
  <2>2. CASE dropped_overflow' = dropped_overflow + 1 /\ UNCHANGED <<q, accepted>>
    BY <1>2, <2>2 DEF SinkInv, SinkTypeOK, Emit, Filling, Sending
  <2> QED BY <1>2, <2>1, <2>2 DEF Emit
<1>3. CASE TakeFirst
  <2>1. batch = {} /\ q # <<>>
    BY <1>3 DEF SinkInv, TakeFirst, Filling, Sending
  <2>2. batch' = batch \union {Head(q)} /\ Cardinality(batch') <= BatchSize
    <3>1. Cardinality({Head(q)}) = 1
      BY FS_Singleton
    <3> QED BY <1>3, <2>1, <3>1 DEF TakeFirst
  <2> QED BY <1>3, <2>1, <2>2, TailOfQueue
    DEF TakeFirst, SinkInv, SinkTypeOK, Filling, Sending, counters, observers
<1>4. CASE TakeNext
  <2>1. batch \in SUBSET Event /\ Cardinality(batch) < BatchSize
    BY <1>4 DEF SinkInv, SinkTypeOK, TakeNext
  <2>2. batch' = batch \union {Head(q)} /\ Cardinality(batch') <= BatchSize
    <3>1. Cardinality(batch \union {Head(q)}) <= Cardinality(batch) + 1
      BY <2>1, BatchCardinality
    <3>2. Cardinality(batch) \in Nat
      BY <2>1, BatchCardinality
    <3>3. batch \union {Head(q)} \in SUBSET Event
      BY <1>4, <2>1, TailOfQueue DEF TakeNext
    <3>4. Cardinality(batch \union {Head(q)}) \in Nat
      BY <3>3, BatchCardinality
    <3> QED BY <1>4, <2>1, <3>1, <3>2, <3>4 DEF TakeNext
  <2> QED BY <1>4, <2>2, TailOfQueue
    DEF TakeNext, SinkInv, SinkTypeOK, Filling, Sending, counters, observers
<1>5. CASE BatchComplete \/ LeaveLoop \/ PumpEnds \/ Close
  BY <1>5 DEF BatchComplete, LeaveLoop, PumpEnds, Close, SinkInv, SinkTypeOK, Filling,
              Sending, counters, observers
<1>6. CASE SendAcknowledged
  <2>1. PICK failed \in SUBSET batch : /\ sent' = sent + Cardinality(batch \ failed)
                                       /\ AfterAttempt(failed)
    BY <1>6 DEF SendAcknowledged
  <2>2. batch \in SUBSET Event /\ batch \ failed \in SUBSET batch
    BY DEF SinkInv, SinkTypeOK
  <2>3. sent' \in Nat
    BY <2>1, <2>2, BatchCardinality DEF SinkInv, SinkTypeOK
  <2> QED BY <1>6, <2>1, <2>3, AttemptKeepsSink DEF SendAcknowledged, SinkInv, SinkTypeOK
<1>7. CASE SendRaises
  <2>1. lostAcks' \in 0..StrayBound
    BY <1>7 DEF SendRaises, SinkInv, SinkTypeOK, JunkSeen
  <2> QED BY <1>7, <2>1, AttemptKeepsSink DEF SendRaises, SinkInv, SinkTypeOK
<1>8. CASE Exit
  <2>1. InMemory \subseteq accepted
    BY DEF SinkInv, InMemory
  <2>2. Cardinality({}) = 0
    BY FS_EmptySet
  <2>3. q' = <<>> /\ DOMAIN q' = {} /\ q' \in Seq(Event) /\ Len(q') = 0
    BY <1>8 DEF Exit
  <2>4. SinkTypeOK'
    <3>1. batch' \subseteq Event /\ Cardinality(batch') <= BatchSize
      BY <1>8, <2>2 DEF Exit
    <3>2. stop' \in BOOLEAN /\ alive' \in BOOLEAN
      BY <1>8 DEF Exit, SinkInv, SinkTypeOK
    <3>3. attempt' \in 1..SendRetries
      BY <1>8 DEF Exit
    <3> QED BY <1>8, <2>1, <2>3, <3>1, <3>2, <3>3 DEF Exit, SinkInv, SinkTypeOK, counters
  <2> QED BY <1>8, <2>3, <2>4 DEF Exit, SinkInv
<1> QED BY <1>1, <1>2, <1>3, <1>4, <1>5, <1>6, <1>7, <1>8
  DEF Next, vars, SinkStep, WorkerStep, QueueStep, JunkArrives, Pump

-----------------------------------------------------------------------------
(* The queue.                                                              *)

Inv == SinkInv /\ QueueInv /\ WorkerInv

Sent == SendAcknowledged \/ SendRaises

(***************************************************************************)
(* All that a step does to a message.                                      *)
(***************************************************************************)
MessageStep(m) ==
  /\ msg'[m].at = "unsent" => msg'[m].received = 0
  /\ msg'[m].at = "visible" => msg'[m].received < MaxReceive
  /\ msg[m].at = "parked" => msg'[m].at = "parked"
  /\ msg[m].at = "deleted" => msg'[m].at = "deleted"
  /\ msg'[m].at = "parked" => msg[m].at = "parked" \/ QueueStep
  /\ msg[m].at # "unsent" => msg'[m].at # "unsent"
  /\ msg[m].at = "unsent" /\ msg'[m].at # "unsent" =>
       m = Junk \/ (Sent /\ m[1] \in batch /\ m[2] = attempt)
  /\ msg'[m].at = "deleted" => msg[m].at = "deleted" \/ (worker = "delete" /\ m \in held)

LEMMA EnqueuedMessages ==
  ASSUME Inv, Sent, NEW es \in SUBSET batch, msg' = Enqueued(es)
  PROVE  /\ QueueTypeOK' /\ \A m \in Message : MessageStep(m)
         /\ \A e \in es : <<e, attempt>> \in Message /\ msg'[<<e, attempt>>].at = "visible"
<1> DEFINE ms == {<<e, attempt>> : e \in es}
<1>1. batch \subseteq Event /\ attempt \in 1..SendRetries
  BY DEF Inv, SinkInv, SinkTypeOK
<1>2. ASSUME NEW e \in es PROVE <<e, attempt>> \in Message /\ msg[<<e, attempt>>].at = "unsent"
  <2>1. <<e, attempt>> \in Message /\ <<e, attempt>> # Junk
    BY <1>1, Messages
  <2>2. ~Spent(e, attempt)
    BY <1>1 DEF Spent
  <2> QED BY <2>1, <2>2 DEF Inv, QueueInv
<1>3. QueueTypeOK /\ "visible" \in Place
  BY DEF Inv, QueueInv, Place
<1>4. /\ QueueTypeOK'
      /\ \A m \in Message : /\ msg'[m].at = IF m \in ms THEN "visible" ELSE msg[m].at
                            /\ msg'[m].received = msg[m].received
  BY <1>3, MovedMessages DEF Enqueued, QueueTypeOK
<1>5. ASSUME NEW m \in Message PROVE MessageStep(m)
  <2>1. CASE m \in ms
    <3>1. PICK e \in es : m = <<e, attempt>>
      BY <2>1
    <3>2. msg[m].at = "unsent" /\ msg[m].received = 0
      BY <3>1, <1>2 DEF Inv, QueueInv
    <3>3. m[1] \in batch /\ m[2] = attempt
      BY <3>1
    <3> QED BY <2>1, <3>2, <3>3, <1>4, QueueAssumption DEF MessageStep
  <2>2. CASE m \notin ms
    BY <2>2, <1>4 DEF MessageStep, Inv, QueueInv
  <2> QED BY <2>1, <2>2
<1> QED BY <1>2, <1>4, <1>5

LEMMA MessagesMove ==
  ASSUME Inv, [Next]_vars PROVE QueueTypeOK' /\ \A m \in Message : MessageStep(m)
<1> USE QueueAssumption
<1>0. QueueTypeOK /\ {"visible", "parked"} \subseteq Place
  BY DEF Inv, QueueInv, Place
<1>1. CASE msg' = msg
  BY <1>0, <1>1 DEF MessageStep, Inv, QueueInv, QueueTypeOK
<1>2. CASE SendAcknowledged
  BY <1>2, EnqueuedMessages DEF SendAcknowledged, Sent
<1>3. CASE SendRaises
  BY <1>3, EnqueuedMessages DEF SendRaises, Sent
<1>4. CASE Receive
  <2>1. PICK ms \in SUBSET At("visible") : msg' = Taken(ms)
    BY <1>4 DEF Receive
  <2>2. \A m \in ms : m \in Message /\ msg[m].at = "visible" /\ msg[m].received < MaxReceive
    BY <2>1 DEF At, Inv, QueueInv
  <2>3. QueueTypeOK' /\ \A m \in Message : /\ m \notin ms => msg'[m] = msg[m]
                                           /\ m \in ms => msg'[m].at = "inflight"
    BY <1>0, <2>1, <2>2, TakenMessages DEF QueueTypeOK
  <2> QED BY <2>2, <2>3 DEF MessageStep, Inv, QueueInv
<1>5. ASSUME NEW ms \in SUBSET held, worker = "delete", msg' = Deleted(ms)
      PROVE  QueueTypeOK' /\ \A m \in Message : MessageStep(m)
  <2>1. /\ QueueTypeOK'
        /\ \A m \in Message :
             /\ m \notin ms \/ msg[m].at = "parked" => msg'[m] = msg[m]
             /\ m \in ms /\ msg[m].at # "parked" => msg'[m].at = "deleted"
    BY <1>0, <1>5, DeletedMessages DEF QueueTypeOK
  <2>2. \A m \in ms : m \in held /\ msg[m].at # "unsent"
    BY DEF Inv, WorkerInv
  <2> QED BY <1>5, <2>1, <2>2 DEF MessageStep, Inv, QueueInv
<1>6. CASE Delete
  BY <1>5, <1>6 DEF Delete
<1>7. CASE DeletePart
  BY <1>5, <1>7 DEF DeletePart
<1>8. CASE QueueStep
  <2>1. PICK x \in Message : msg[x].at = "inflight" /\ msg' = Expired(x)
    BY <1>8 DEF QueueStep, Redeliver, RedeliverHeld, At
  <2> DEFINE place == IF msg[x].received < MaxReceive THEN "visible" ELSE "parked"
  <2>2. /\ QueueTypeOK'
        /\ \A m \in Message : /\ msg'[m].at = IF m \in {x} THEN place ELSE msg[m].at
                              /\ msg'[m].received = msg[m].received
    BY <1>0, <2>1, MovedMessages DEF Expired, QueueTypeOK
  <2> QED BY <1>8, <2>1, <2>2 DEF MessageStep, Inv, QueueInv
<1>9. CASE JunkArrives
  <2>1. /\ QueueTypeOK'
        /\ \A m \in Message : /\ msg'[m].at = IF m \in {Junk} THEN "visible" ELSE msg[m].at
                              /\ msg'[m].received = msg[m].received
    BY <1>0, <1>9, MovedMessages DEF JunkArrives, QueueTypeOK
  <2>2. msg[Junk].at = "unsent" /\ msg[Junk].received = 0
    BY <1>9, Messages DEF JunkArrives, Inv, QueueInv
  <2> QED BY <2>1, <2>2 DEF MessageStep, Inv, QueueInv
<1> QED BY <1>1, <1>2, <1>3, <1>4, <1>6, <1>7, <1>8, <1>9
  DEF Next, vars, SinkStep, WorkerStep, Pump, Work, Disturb, Emit, TakeFirst, TakeNext,
      BatchComplete, LeaveLoop, PumpEnds, Close, Exit, Write, WriteRaises, Die, DieUndeleted,
      Start

(***************************************************************************)
(* An attempt number that is spent for an event stays spent, and so is the *)
(* one whose batch has just been sent.                                     *)
(***************************************************************************)
LEMMA AcceptedGrow == ASSUME Inv, [Next]_vars PROVE accepted \subseteq accepted'
  BY DEF Next, vars, sinkVars, observers, SinkStep, WorkerStep, QueueStep, JunkArrives, Pump,
         Emit, TakeFirst, TakeNext, BatchComplete, LeaveLoop, SendAcknowledged, SendRaises,
         PumpEnds, Close, Exit

LEMMA BatchShrinks ==
  ASSUME Inv, Sent
  PROVE  batch' \in SUBSET batch /\ (batch' # {} => attempt' = attempt + 1)
<1>1. CASE SendAcknowledged
  <2>1. PICK failed \in SUBSET batch : /\ sent' = sent + Cardinality(batch \ failed)
                                       /\ AfterAttempt(failed)
    BY <1>1 DEF SendAcknowledged
  <2>2. batch \in SUBSET Event /\ batch \ failed \in SUBSET batch
    BY DEF Inv, SinkInv, SinkTypeOK
  <2>3. sent' \in Nat
    BY <2>1, <2>2, BatchCardinality DEF Inv, SinkInv, SinkTypeOK
  <2> QED BY <1>1, <2>1, <2>3, AttemptKeepsSink DEF SendAcknowledged, Inv, SinkInv, SinkTypeOK
<1>2. CASE SendRaises
  <2>1. lostAcks' \in 0..StrayBound
    BY <1>2, QueueAssumption DEF SendRaises, Inv, SinkInv, SinkTypeOK, JunkSeen
  <2> QED BY <1>2, <2>1, AttemptKeepsSink DEF SendRaises, Inv, SinkInv, SinkTypeOK
<1> QED BY <1>1, <1>2 DEF Sent

LEMMA SpentStays ==
  ASSUME Inv, [Next]_vars, NEW e, NEW a \in Nat \ {0}, Spent(e, a)
  PROVE  Spent(e, a)'
<1>0. e \in accepted'
  BY AcceptedGrow DEF Spent
<1>1. CASE UNCHANGED <<q, batch, attempt>>
  BY <1>0, <1>1 DEF Spent
<1>2. CASE Emit
  <2>1. q' = q \/ (q' = Append(q, emitted') /\ emitted' \notin accepted)
    BY <1>2, QueueAssumption DEF Emit, Inv, SinkInv, SinkTypeOK
  <2>2. \A i \in DOMAIN q' : q'[i] # e
    BY <2>1 DEF Spent, Inv, SinkInv, SinkTypeOK
  <2> QED BY <1>0, <1>2, <2>2 DEF Spent, Emit
<1>3. CASE TakeFirst \/ TakeNext
  <2>1. q # <<>> /\ q' = Tail(q) /\ batch' \subseteq batch \union {Head(q)} /\ attempt' = attempt
    BY <1>3 DEF TakeFirst, TakeNext
  <2>2. e # Head(q) /\ \A i \in DOMAIN q' : q'[i] # e
    BY <2>1, TailOfQueue DEF Spent, Inv, SinkInv, SinkTypeOK
  <2> QED BY <1>0, <2>1, <2>2 DEF Spent
<1>4. CASE Sent
  <2>1. UNCHANGED q /\ batch' \in SUBSET batch /\ (batch' # {} => attempt' = attempt + 1)
    BY <1>4, BatchShrinks DEF Sent, SendAcknowledged, SendRaises
  <2>2. attempt \in Nat
    BY QueueAssumption DEF Inv, SinkInv, SinkTypeOK
  <2> QED BY <1>0, <2>1, <2>2 DEF Spent
<1>5. CASE Exit
  <2>1. q' = <<>> /\ DOMAIN q' = {} /\ batch' = {}
    BY <1>5 DEF Exit
  <2> QED BY <1>0, <2>1 DEF Spent
<1> QED BY <1>1, <1>2, <1>3, <1>4, <1>5
  DEF Next, vars, sinkVars, SinkStep, WorkerStep, QueueStep, JunkArrives, Pump, BatchComplete,
      LeaveLoop, PumpEnds, Close, Sent

LEMMA NewlySpent ==
  ASSUME Inv, Sent, NEW e \in batch, NEW a, a = attempt
  PROVE  Spent(e, a)'
<1>1. UNCHANGED <<q, accepted>> /\ batch' \in SUBSET batch /\ (batch' # {} => attempt' = attempt + 1)
  BY BatchShrinks DEF Sent, SendAcknowledged, SendRaises
<1>2. attempt \in Nat /\ e \in accepted /\ \A i \in DOMAIN q : q[i] # e
  BY QueueAssumption DEF Inv, SinkInv, SinkTypeOK
<1> QED BY <1>1, <1>2 DEF Spent

LEMMA QueueStarts == Init => QueueInv
  BY QueueAssumption DEF Init, QueueInit, QueueInv, QueueTypeOK, Place

LEMMA QueueKept == Inv /\ [Next]_vars => QueueInv'
<1> SUFFICES ASSUME Inv, [Next]_vars PROVE QueueInv'
  OBVIOUS
<1>1. QueueTypeOK' /\ \A m \in Message : MessageStep(m)
  BY MessagesMove
<1>2. ASSUME NEW m \in Message, m # Junk, msg'[m].at # "unsent" PROVE Spent(m[1], m[2])'
  <2>1. m[1] \in Event /\ m[2] \in Nat \ {0} /\ m[2] \in 1..SendRetries
    BY <1>2, Messages, QueueAssumption
  <2>2. CASE msg[m].at # "unsent"
    BY <1>2, <2>1, <2>2, SpentStays DEF Inv, QueueInv
  <2>3. CASE msg[m].at = "unsent"
    <3>1. Sent /\ m[1] \in batch /\ m[2] = attempt
      BY <1>1, <1>2, <2>3 DEF MessageStep
    <3> QED BY <3>1, NewlySpent
  <2> QED BY <2>2, <2>3
<1> QED BY <1>1, <1>2 DEF QueueInv, MessageStep

-----------------------------------------------------------------------------
(* The worker.                                                             *)

LEMMA WorkerStarts == Init => WorkerInv
  BY WorkerAssumption DEF Init, WorkerInit, WorkerInv, WorkerTypeOK

(***************************************************************************)
(* Rows are never taken away; a step that leaves the store alone leaves    *)
(* them, and one that does not stores what the worker holds, or some of it. *)
(***************************************************************************)
LEMMA RowsGrow ==
  ASSUME Inv, [Next]_vars
  PROVE  /\ rows' \in [Event -> Nat]
         /\ \A e \in Event : rows[e] > 0 => rows'[e] > 0
         /\ \/ rows' = rows
            \/ (Write \/ WriteRaises) /\ \E ms \in SUBSET held : rows' = Stored(ms)
<1>1. rows \in [Event -> Nat] /\ held \in SUBSET Message
  BY DEF Inv, WorkerInv, WorkerTypeOK
<1>2. \/ rows' = rows
      \/ (Write \/ WriteRaises) /\ \E ms \in SUBSET held : rows' = Stored(ms)
  BY DEF Next, vars, workerVars, SinkStep, WorkerStep, QueueStep, JunkArrives, Work, Disturb,
         Redeliver, RedeliverHeld, Receive, Write, WriteRaises, Delete, DeletePart, Die,
         DieUndeleted, Start
<1> QED BY <1>1, <1>2, StoredRows

LEMMA WorkerKept == Inv /\ [Next]_vars => WorkerInv'
<1> SUFFICES ASSUME Inv, [Next]_vars PROVE WorkerInv'
  OBVIOUS
<1> USE WorkerAssumption
<1>1. /\ \A m \in Message : msg[m].at # "unsent" => msg'[m].at # "unsent"
      /\ rows' \in [Event -> Nat] /\ \A e \in Event : rows[e] > 0 => rows'[e] > 0
  BY MessagesMove, RowsGrow DEF MessageStep
<1>2. \A m \in Message : m # Junk => Body(m) \in Event
  BY Messages
<1>3. held \subseteq Message /\ repeats \in 0..RepeatBound
  BY DEF Inv, WorkerInv, WorkerTypeOK
<1>4. CASE UNCHANGED <<worker, held, repeats>>
  BY <1>1, <1>2, <1>3, <1>4 DEF Inv, WorkerInv, WorkerTypeOK
<1>5. CASE Receive
  <2>1. held' \subseteq Message /\ worker' = "write" /\ repeats' = repeats
    BY <1>5 DEF Receive, At
  <2>2. \A m \in held' : msg[m].at # "unsent"
    BY <1>5 DEF Receive, At
  <2> QED BY <1>1, <1>3, <2>1, <2>2 DEF WorkerInv, WorkerTypeOK
<1>6. CASE Write
  <2>1. /\ held' = held /\ repeats' = repeats /\ worker' \in {"receive", "delete"}
        /\ rows' = Stored(held)
    BY <1>6 DEF Write, ToDelete
  <2>2. \A m \in held : m = Junk \/ rows'[Body(m)] > 0
    BY <1>3, <2>1, StoredRows DEF Inv, WorkerInv, WorkerTypeOK
  <2> QED BY <1>1, <1>3, <2>1, <2>2 DEF Inv, WorkerInv, WorkerTypeOK
<1>7. CASE WriteRaises
  <2>1. held' = held \intersect {Junk} /\ worker' \in {"receive", "delete"} /\ repeats' \in 0..RepeatBound
    BY <1>3, <1>7 DEF WriteRaises, ToDelete, DeleteAfterFailure, Poison
  <2> QED BY <1>1, <1>3, <2>1 DEF Inv, WorkerInv, WorkerTypeOK
<1>8. CASE Delete \/ DeletePart \/ Die \/ DieUndeleted
  <2>1. held' = {} /\ worker' \in {"receive", "down"} /\ repeats' \in 0..RepeatBound
    BY <1>3, <1>8 DEF Delete, DeletePart, Die, DieUndeleted
  <2> QED BY <1>1, <2>1 DEF WorkerInv, WorkerTypeOK
<1>9. CASE Start
  BY <1>1, <1>3, <1>9 DEF Start, Inv, WorkerInv, WorkerTypeOK
<1>10. CASE \E m \in Message : RedeliverHeld(m)
  <2>1. UNCHANGED <<worker, held>> /\ repeats' \in 0..RepeatBound
    BY <1>3, <1>10 DEF RedeliverHeld
  <2> QED BY <1>1, <1>2, <1>3, <2>1 DEF Inv, WorkerInv, WorkerTypeOK
<1> QED BY <1>4, <1>5, <1>6, <1>7, <1>8, <1>9, <1>10
  DEF Next, vars, workerVars, SinkStep, WorkerStep, QueueStep, JunkArrives, Work, Disturb,
      Redeliver

-----------------------------------------------------------------------------
(* The theorems.                                                           *)

LEMMA Inductive == Spec => []Inv
<1>1. Init => Inv
  BY SinkStarts, QueueStarts, WorkerStarts DEF Inv
<1>2. Inv /\ [Next]_vars => Inv'
  BY SinkKept, QueueKept, WorkerKept DEF Inv
<1> QED BY <1>1, <1>2, PTL DEF Spec

(***************************************************************************)
(* The variables of the pipeline keep their types, its bounded queue and   *)
(* batches (sqs_sink.py:53, 99) included.                                  *)
(***************************************************************************)
THEOREM TelemetryTypeCorrect == Spec => []TelemetryTypeOK
<1>1. Inv => TelemetryTypeOK
  BY DEF Inv, SinkInv, QueueInv, WorkerInv, TelemetryTypeOK
<1> QED BY <1>1, Inductive, PTL

(***************************************************************************)
(* The worker deletes only what it stored and what cannot be stored        *)
(* (telemetry_worker.py:66-95), whatever shares a batch and whatever       *)
(* fails.                                                                  *)
(***************************************************************************)
THEOREM DeletesOnlyStored == Spec => []DeletedOnlyStored
<1>1. Init => DeletedOnlyStored
  BY DEF Init, QueueInit, DeletedOnlyStored, At
<1>2. Inv /\ DeletedOnlyStored /\ [Next]_vars => DeletedOnlyStored'
  <2> SUFFICES ASSUME Inv, DeletedOnlyStored, [Next]_vars,
                      NEW m \in Message, msg'[m].at = "deleted", m # Junk
               PROVE  rows'[Body(m)] > 0
    BY DEF DeletedOnlyStored, At, Poison
  <2>1. msg[m].at = "deleted" \/ (worker = "delete" /\ m \in held)
    BY MessagesMove DEF MessageStep
  <2>2. rows[Body(m)] > 0
    BY <2>1 DEF DeletedOnlyStored, At, Poison, Inv, WorkerInv
  <2> QED BY <2>2, RowsGrow, Messages
<1> QED BY <1>1, <1>2, Inductive, PTL DEF Spec

(***************************************************************************)
(* Where an accepted event can be found.                                   *)
(***************************************************************************)
OnQueue(e) == \E m \in Message : Body(m) = e /\ msg[m].at \in {"visible", "inflight", "parked"}

Known(e) == e \in InMemory \union dropped \union lost \/ rows[e] > 0 \/ OnQueue(e)

LEMMA OnQueueStays ==
  ASSUME Inv, [Next]_vars, NEW e \in Event, OnQueue(e) PROVE OnQueue(e)' \/ rows'[e] > 0
<1>1. PICK m \in Message : Body(m) = e /\ msg[m].at \in {"visible", "inflight", "parked"}
  BY DEF OnQueue
<1>2. m # Junk /\ MessageStep(m) /\ msg'[m].at \in Place
  BY <1>1, Messages, MessagesMove DEF QueueTypeOK
<1>3. CASE msg'[m].at = "deleted"
  <2>1. rows[e] > 0
    BY <1>1, <1>2, <1>3 DEF MessageStep, Inv, WorkerInv
  <2> QED BY <2>1, RowsGrow
<1>4. CASE msg'[m].at # "deleted"
  BY <1>1, <1>2, <1>4 DEF MessageStep, Place, OnQueue
<1> QED BY <1>3, <1>4

LEMMA HeldInMemoryStays ==
  ASSUME Inv, [Next]_vars, NEW e \in InMemory PROVE Known(e)'
<1>1. CASE UNCHANGED <<q, batch>>
  BY <1>1 DEF InMemory, Known
<1>2. CASE Emit
  <2>1. \A i \in DOMAIN q : i \in DOMAIN q' /\ q'[i] = q[i]
    BY <1>2 DEF Emit, Inv, SinkInv, SinkTypeOK
  <2> QED BY <1>2, <2>1 DEF InMemory, Known, Emit
<1>3. CASE TakeFirst \/ TakeNext
  <2>1. q # <<>> /\ q' = Tail(q) /\ batch \union {Head(q)} \subseteq batch'
    BY <1>3 DEF TakeFirst, TakeNext, Inv, SinkInv, Filling, Sending
  <2> QED BY <2>1, TailOfQueue DEF InMemory, Known, Inv
<1>4. CASE Sent /\ e \in batch
  <2>1. PICK es \in SUBSET batch, rest \in SUBSET batch :
          msg' = Enqueued(es) /\ AfterAttempt(rest) /\ batch \ es \subseteq rest
    <3>1. CASE SendAcknowledged
      <4>1. PICK failed \in SUBSET batch : msg' = Enqueued(batch \ failed) /\ AfterAttempt(failed)
        BY <3>1 DEF SendAcknowledged
      <4>2. batch \ failed \in SUBSET batch /\ batch \ (batch \ failed) \subseteq failed
        OBVIOUS
      <4> QED BY <4>1, <4>2
    <3>2. CASE SendRaises
      <4>1. PICK taken \in SUBSET batch : msg' = Enqueued(taken)
        BY <3>2 DEF SendRaises
      <4>2. AfterAttempt(batch) /\ batch \in SUBSET batch
        BY <3>2 DEF SendRaises
      <4> QED BY <4>1, <4>2
    <3> QED BY <1>4, <3>1, <3>2 DEF Sent
  <2>2. CASE e \in es
    <3>1. <<e, attempt>> \in Message /\ msg'[<<e, attempt>>].at = "visible"
      BY <1>4, <2>1, <2>2, EnqueuedMessages
    <3>2. Body(<<e, attempt>>) = e
      BY DEF Body
    <3> QED BY <3>1, <3>2 DEF Known, OnQueue
  <2>3. CASE e \in rest
    <3>1. e \in batch' \/ e \in dropped'
      BY <2>1, <2>3 DEF AfterAttempt
    <3> QED BY <3>1 DEF Known, InMemory
  <2> QED BY <1>4, <2>1, <2>2, <2>3
<1>5. CASE Sent /\ e \notin batch
  BY <1>5 DEF InMemory, Known, Sent, SendAcknowledged, SendRaises
<1>6. CASE Exit
  BY <1>6 DEF InMemory, Known, Exit
<1> QED BY <1>1, <1>2, <1>3, <1>4, <1>5, <1>6
  DEF Next, vars, sinkVars, SinkStep, WorkerStep, QueueStep, JunkArrives, Pump, BatchComplete,
      LeaveLoop, PumpEnds, Close, Sent

(***************************************************************************)
(* An accepted event is in memory, on a queue, stored, counted as dropped  *)
(* (sqs_sink.py:119-122) or was in the memory of a process that exited.    *)
(***************************************************************************)
THEOREM NothingLost == Spec => []NothingVanishes
<1>1. NothingVanishes <=> \A e \in accepted : Known(e)
  BY DEF NothingVanishes, Known, OnQueue
<1>2. Init => NothingVanishes
  BY DEF Init, SinkInit, NothingVanishes
<1>3. Inv /\ NothingVanishes /\ [Next]_vars => NothingVanishes'
  <2> SUFFICES ASSUME Inv, NothingVanishes, [Next]_vars, NEW e \in accepted' PROVE Known(e)'
    BY DEF NothingVanishes, Known, OnQueue
  <2>1. CASE e \in accepted
    <3>1. e \in Event /\ Known(e)
      BY <1>1, <2>1, QueueAssumption DEF Inv, SinkInv, SinkTypeOK, Event
    <3>2. dropped \union lost \subseteq dropped' \union lost'
      BY DEF Next, vars, sinkVars, observers, SinkStep, WorkerStep, QueueStep, JunkArrives, Pump,
             Emit, TakeFirst, TakeNext, BatchComplete, LeaveLoop, SendAcknowledged, SendRaises,
             PumpEnds, Close, Exit, AfterAttempt
    <3> QED BY <3>1, <3>2, OnQueueStays, HeldInMemoryStays, RowsGrow DEF Known
  <2>2. CASE e \notin accepted
    <3>1. Emit /\ q' = Append(q, e)
      BY <2>2 DEF Next, vars, sinkVars, observers, SinkStep, WorkerStep, QueueStep, JunkArrives,
                  Pump, Emit, TakeFirst, TakeNext, BatchComplete, LeaveLoop, SendAcknowledged,
                  SendRaises, PumpEnds, Close, Exit
    <3>2. Len(q) + 1 \in DOMAIN q' /\ q'[Len(q) + 1] = e
      BY <3>1, QueueAssumption DEF Inv, SinkInv, SinkTypeOK
    <3> QED BY <3>2 DEF Known, InMemory
  <2> QED BY <2>1, <2>2
<1> QED BY <1>2, <1>3, Inductive, PTL DEF Spec

-----------------------------------------------------------------------------
(* The counters.                                                           *)

LEMMA CardinalityOfParts ==
  ASSUME NEW S, IsFiniteSet(S), NEW T \in SUBSET S
  PROVE  /\ Cardinality(S) \in Nat /\ Cardinality(T) \in Nat /\ Cardinality(S \ T) \in Nat
         /\ Cardinality(S) = Cardinality(T) + Cardinality(S \ T)
<1>1. S \intersect T = T
  OBVIOUS
<1>2. IsFiniteSet(T) /\ IsFiniteSet(S \ T) /\ Cardinality(S \ T) = Cardinality(S) - Cardinality(S \intersect T)
  BY FS_Subset, FS_Difference
<1>3. Cardinality(S) \in Nat /\ Cardinality(T) \in Nat /\ Cardinality(S \ T) \in Nat
  BY <1>2, FS_CardinalityType
<1>4. Cardinality(S \ T) = Cardinality(S) - Cardinality(T)
  BY <1>1, <1>2, Zenon
<1> QED BY <1>3, <1>4

(***************************************************************************)
(* The events in memory are as many as the queue and the batch are long.   *)
(***************************************************************************)
LEMMA MemoryCount ==
  ASSUME SinkInv
  PROVE  /\ Cardinality(InMemory) = Len(q) + Cardinality(batch)
         /\ Len(q) \in Nat /\ Cardinality(batch) \in Nat
<1> DEFINE waiting == {q[i] : i \in DOMAIN q}
<1>1. q \in Seq(Event) /\ Len(q) \in Nat /\ DOMAIN q = 1..Len(q) /\ batch \in SUBSET Event
  BY DEF SinkInv, SinkTypeOK
<1>2. q \in [1..Len(q) -> waiting]
  BY <1>1
<1>3. q \in Bijection(1..Len(q), waiting)
  BY <1>1, <1>2 DEF Bijection, Injection, IsInjective, Surjection, SinkInv
<1>4. IsFiniteSet(1..Len(q)) /\ Cardinality(1..Len(q)) = Len(q)
  BY <1>1, FS_Interval
<1>5. IsFiniteSet(waiting) /\ Cardinality(waiting) = Len(q)
  <2>1. ExistsBijection(1..Len(q), waiting)
    BY <1>3 DEF ExistsBijection
  <2> HIDE DEF waiting
  <2> QED BY <1>4, <2>1, FS_Bijection
<1>6. IsFiniteSet(batch) /\ Cardinality(batch) \in Nat
  BY <1>1, BatchCardinality
<1>7. waiting \intersect batch = {} /\ InMemory = waiting \union batch
  BY DEF SinkInv, InMemory
<1>8. Cardinality(waiting \union batch) = Cardinality(waiting) + Cardinality(batch) - Cardinality({})
  <2> HIDE DEF waiting
  <2> QED BY <1>5, <1>6, <1>7, FS_Union
<1>9. Cardinality({}) = 0
  BY FS_EmptySet
<1> HIDE DEF waiting
<1> QED BY <1>1, <1>5, <1>6, <1>7, <1>8, <1>9

LEMMA AttemptCounts ==
  ASSUME Inv, NEW rest \in SUBSET batch, AfterAttempt(rest)
  PROVE  dropped_send' + Cardinality(batch') = dropped_send + Cardinality(rest)
<1>1. dropped_send \in Nat /\ Cardinality(rest) \in Nat /\ Cardinality({}) = 0
  BY BatchCardinality, FS_EmptySet DEF Inv, SinkInv, SinkTypeOK
<1>2. CASE rest = {} /\ Done /\ UNCHANGED <<dropped_send, dropped>>
  BY <1>1, <1>2 DEF Done
<1>3. CASE batch' = rest /\ UNCHANGED dropped_send
  BY <1>1, <1>3
<1>4. CASE dropped_send' = dropped_send + Cardinality(rest) /\ Done
  BY <1>1, <1>4 DEF Done
<1> QED BY <1>2, <1>3, <1>4 DEF AfterAttempt

(***************************************************************************)
(* The counters of /health (sqs_sink.py:104-122) and what is in memory     *)
(* account for every event emitted.  Nothing is lost before the exit.      *)
(***************************************************************************)
THEOREM CountersAccount == Spec => []CountersBalance
<1> DEFINE Total == sent + dropped_overflow + dropped_send + Len(q) + Cardinality(batch)
                      + Cardinality(lost)
           Balance == CountersBalance /\ (alive => lost = {})
<1>1. Init => Balance
  <2>1. Cardinality({}) = 0
    BY FS_EmptySet
  <2> QED BY <2>1 DEF Init, SinkInit, CountersBalance
<1>2. Inv /\ Balance /\ [Next]_vars => Balance'
  <2> SUFFICES ASSUME Inv, Balance, [Next]_vars PROVE Balance'
    OBVIOUS
  <2>1. /\ sent \in Nat /\ dropped_overflow \in Nat /\ dropped_send \in Nat /\ emitted \in Nat
        /\ q \in Seq(Event) /\ Len(q) \in Nat /\ batch \in SUBSET Event /\ lost \in SUBSET Event
        /\ Cardinality(batch) \in Nat /\ Cardinality(lost) \in Nat /\ Cardinality({}) = 0
    <3>1. batch \in SUBSET Event /\ lost \in SUBSET Event
      BY QueueAssumption DEF Inv, SinkInv, SinkTypeOK, Event
    <3>2. emitted \in Nat
      BY QueueAssumption DEF Inv, SinkInv, SinkTypeOK
    <3> QED BY <3>1, <3>2, BatchCardinality, FS_EmptySet DEF Inv, SinkInv, SinkTypeOK
  <2>2. emitted = Total
    BY DEF CountersBalance
  <2>3. CASE UNCHANGED <<emitted, sent, dropped_overflow, dropped_send, q, batch, lost, alive>>
    BY <2>3 DEF CountersBalance
  <2>4. CASE Emit
    <3>1. UNCHANGED <<sent, dropped_send, batch, lost, alive>> /\ emitted' = emitted + 1
      BY <2>4 DEF Emit
    <3>2. dropped_overflow' + Len(q') = dropped_overflow + Len(q) + 1
      BY <2>1, <2>4 DEF Emit
    <3>3. dropped_overflow' \in Nat /\ Len(q') \in Nat
      BY <2>1, <2>4 DEF Emit
    <3> DEFINE inBatch == Cardinality(batch)
               gone == Cardinality(lost)
    <3>4. /\ inBatch \in Nat /\ gone \in Nat /\ inBatch' = inBatch /\ gone' = gone
          /\ emitted = sent + dropped_overflow + dropped_send + Len(q) + inBatch + gone
      BY <2>1, <2>2, <3>1
    <3>5. emitted' = sent' + dropped_overflow' + dropped_send' + Len(q') + inBatch' + gone'
      <4> HIDE DEF inBatch, gone
      <4>1. PICK d \in Nat, n \in Nat : dropped_overflow' = d /\ Len(q') = n
        BY <3>3
      <4>2. emitted + 1 = sent + d + dropped_send + n + inBatch + gone
        BY <2>1, <3>2, <3>4, <4>1
      <4> QED BY <3>1, <3>4, <4>1, <4>2
    <3> QED BY <3>1, <3>5 DEF CountersBalance
  <2>5. CASE TakeFirst \/ TakeNext
    <3>1. q # <<>> /\ q' = Tail(q) /\ batch' = batch \union {Head(q)}
      BY <2>5 DEF TakeFirst, TakeNext, Inv, SinkInv, Filling, Sending
    <3>2. Len(q') = Len(q) - 1
      BY <2>1, <3>1
    <3>3. Head(q) \notin batch
      BY <3>1, TailOfQueue DEF Inv
    <3>4. Cardinality(batch') = Cardinality(batch) + 1
      <4>1. IsFiniteSet(batch)
        BY <2>1, BatchCardinality
      <4> QED BY <3>1, <3>3, <4>1, FS_AddElement
    <3>5. UNCHANGED <<emitted, sent, dropped_overflow, dropped_send, lost, alive>>
      BY <2>5 DEF TakeFirst, TakeNext, counters, observers
    <3> QED BY <2>1, <2>2, <3>2, <3>4, <3>5 DEF CountersBalance
  <2>6. CASE Sent
    <3>1. PICK rest \in SUBSET batch :
            sent' = sent + Cardinality(batch \ rest) /\ AfterAttempt(rest)
      <4>1. CASE SendAcknowledged
        BY <4>1 DEF SendAcknowledged
      <4>2. CASE SendRaises
        <5>1. batch \ batch = {} /\ batch \in SUBSET batch
          OBVIOUS
        <5>2. sent' = sent /\ AfterAttempt(batch)
          BY <4>2 DEF SendRaises
        <5>3. sent' = sent + Cardinality(batch \ batch)
          <6>1. Cardinality(batch \ batch) = 0
            BY <2>1, <5>1, Zenon
          <6> QED BY <2>1, <5>2, <6>1
        <5> QED BY <5>1, <5>2, <5>3
      <4> QED BY <2>6, <4>1, <4>2 DEF Sent
    <3>2. IsFiniteSet(batch)
      BY <2>1, BatchCardinality
    <3>3. /\ Cardinality(batch) = Cardinality(rest) + Cardinality(batch \ rest)
          /\ Cardinality(rest) \in Nat /\ Cardinality(batch \ rest) \in Nat
      BY <3>2, CardinalityOfParts
    <3>4. dropped_send' + Cardinality(batch') = dropped_send + Cardinality(rest)
      BY <3>1, AttemptCounts
    <3>5. dropped_send' \in Nat /\ Cardinality(batch') \in Nat
      <4>1. Inv' => dropped_send' \in Nat /\ batch' \in SUBSET Event
        BY DEF Inv, SinkInv, SinkTypeOK
      <4>2. Inv'
        BY SinkKept, QueueKept, WorkerKept DEF Inv
      <4> QED BY <4>1, <4>2, BatchCardinality
    <3>6. UNCHANGED <<emitted, dropped_overflow, q, lost, alive>>
      BY <2>6 DEF Sent, SendAcknowledged, SendRaises
    <3> DEFINE before == Cardinality(batch)
               after == Cardinality(batch')
               acknowledged == Cardinality(batch \ rest)
               left == Cardinality(rest)
               waiting == Len(q)
               gone == Cardinality(lost)
    <3>7. /\ before \in Nat /\ after \in Nat /\ acknowledged \in Nat /\ left \in Nat
          /\ dropped_send' \in Nat
          /\ sent' = sent + acknowledged /\ before = left + acknowledged
          /\ dropped_send' + after = dropped_send + left
      BY <2>1, <3>1, <3>3, <3>4, <3>5
    <3>8. /\ sent \in Nat /\ dropped_overflow \in Nat /\ dropped_send \in Nat
          /\ waiting \in Nat /\ gone \in Nat
          /\ emitted = sent + dropped_overflow + dropped_send + waiting + before + gone
      BY <2>1, <2>2
    <3>9. emitted = sent' + dropped_overflow + dropped_send' + waiting + after + gone
      <4> HIDE DEF before, after, acknowledged, left, waiting, gone
      <4>1. PICK s \in Nat, d \in Nat : sent' = s /\ dropped_send' = d
        BY <3>7, <3>8
      <4>2. emitted = s + dropped_overflow + d + waiting + after + gone
        BY <3>7, <3>8, <4>1
      <4> QED BY <4>1, <4>2
    <3> QED BY <3>6, <3>9 DEF CountersBalance
  <2>7. CASE Exit
    <3>1. lost' = InMemory /\ q' = <<>> /\ batch' = {} /\ ~alive'
      BY <2>7 DEF Exit
    <3>2. Cardinality(lost') = Len(q) + Cardinality(batch) /\ Cardinality(lost) = 0
      BY <2>1, <2>7, <3>1, MemoryCount DEF Exit, Inv
    <3>3. Len(q') = 0 /\ Cardinality(batch') = 0
      BY <2>1, <3>1
    <3>4. UNCHANGED <<emitted, sent, dropped_overflow, dropped_send>>
      BY <2>7 DEF Exit, counters
    <3> QED BY <2>1, <2>2, <3>1, <3>2, <3>3, <3>4 DEF CountersBalance
  <2> QED BY <2>3, <2>4, <2>5, <2>6, <2>7
    DEF Next, vars, sinkVars, counters, observers, SinkStep, WorkerStep, QueueStep, JunkArrives,
        Pump, BatchComplete, LeaveLoop, PumpEnds, Close, Sent
<1> QED BY <1>1, <1>2, Inductive, PTL DEF Spec

-----------------------------------------------------------------------------
(* The refinement.                                                         *)

StoredEvents == {e \in Event : rows[e] > 0}

GivenUpEvents == dropped \union lost \union ParkedEvents

(***************************************************************************)
(* Only accepted events are given up, and none is taken back.              *)
(***************************************************************************)
LEMMA AcceptedGivenUp == ASSUME Inv' PROVE GivenUpEvents' \subseteq accepted'
<1>1. ASSUME NEW m \in Message, m # Junk, msg'[m].at # "unsent" PROVE Body(m) \in accepted'
  BY <1>1, Messages DEF Inv, QueueInv, Spent
<1> QED BY <1>1 DEF GivenUpEvents, ParkedEvents, At, Poison, Inv, SinkInv, SinkTypeOK

LEMMA GivenUpGrow == ASSUME Inv, [Next]_vars PROVE GivenUpEvents \subseteq GivenUpEvents'
<1>1. dropped \union lost \subseteq dropped' \union lost'
  BY DEF Next, vars, sinkVars, observers, SinkStep, WorkerStep, QueueStep, JunkArrives, Pump,
         Emit, TakeFirst, TakeNext, BatchComplete, LeaveLoop, SendAcknowledged, SendRaises,
         PumpEnds, Close, Exit, AfterAttempt
<1>2. At("parked") \subseteq At("parked")'
  BY MessagesMove DEF At, MessageStep
<1> QED BY <1>1, <1>2 DEF GivenUpEvents, ParkedEvents

LEMMA GivenUpStay ==
  ASSUME Inv, [Next]_vars, ~QueueStep, UNCHANGED <<dropped, lost>>
  PROVE  UNCHANGED GivenUpEvents
<1>1. At("parked")' = At("parked")
  BY MessagesMove DEF At, MessageStep
<1> QED BY <1>1 DEF GivenUpEvents, ParkedEvents

(***************************************************************************)
(* Only accepted events are stored.                                        *)
(***************************************************************************)
LEMMA StoreAccepted ==
  ASSUME Inv, NEW ms \in SUBSET held, rows' = Stored(ms)
  PROVE  StoredEvents \subseteq StoredEvents' /\ StoredEvents' \ StoredEvents \subseteq accepted
<1>1. rows \in [Event -> Nat] /\ ms \in SUBSET Message
  BY DEF Inv, WorkerInv, WorkerTypeOK
<1>2. StoredEvents \subseteq StoredEvents'
  BY <1>1, StoredRows DEF StoredEvents
<1>3. ASSUME NEW e \in Event, rows'[e] > 0, ~(rows[e] > 0) PROVE e \in accepted
  <2>1. rows[e] = 0
    BY <1>1, <1>3
  <2>2. PICK m \in ms : Body(m) = e
    BY <1>1, <1>3, <2>1, StoredRows
  <2>3. m \in Message /\ m # Junk /\ msg[m].at # "unsent"
    BY <1>1, <2>2, Messages DEF Inv, WorkerInv
  <2> QED BY <2>2, <2>3, Messages DEF Inv, QueueInv, Spent
<1> QED BY <1>2, <1>3 DEF StoredEvents

(***************************************************************************)
(* Every step of the pipeline is a step of its promise, or none (the       *)
(* safety of DeliverySpec; its liveness stays with the run): it stores     *)
(* only what was accepted, stores nothing while no worker is up            *)
(* (telemetry_worker.py:66-95), and takes neither a row nor a loss back.   *)
(***************************************************************************)
THEOREM DeliveryRefined == Spec => Delivery!Init /\ [][Delivery!Next]_(Delivery!vars)
<1>1. Init => Delivery!Init
  <2> SUFFICES ASSUME Init PROVE Delivery!Init
    OBVIOUS
  <2>1. /\ rows = [e \in Event |-> 0] /\ worker = "receive"
        /\ dropped = {} /\ lost = {} /\ accepted = {}
    BY DEF Init, WorkerInit, SinkInit
  <2>2. At("parked") = {}
    BY DEF Init, QueueInit, At
  <2> QED BY <2>1, <2>2 DEF Delivery!Init, ParkedEvents
<1>2. Inv /\ Inv' /\ [Next]_vars => [Delivery!Next]_(Delivery!vars)
  <2> SUFFICES ASSUME Inv, Inv', [Next]_vars PROVE [Delivery!Next]_(Delivery!vars)
    OBVIOUS
  <2>1. CASE UNCHANGED <<accepted, rows>> /\ (worker' = "down" <=> worker = "down")
    <3>1. GivenUpEvents \subseteq GivenUpEvents' /\ GivenUpEvents' \subseteq accepted
      BY <2>1, AcceptedGivenUp, GivenUpGrow
    <3>2. GivenUpEvents' = GivenUpEvents \union GivenUpEvents'
      BY <3>1
    <3>3. Delivery!GiveUp
      BY <2>1, <3>1, <3>2 DEF Delivery!GiveUp, GivenUpEvents
    <3> QED BY <3>3 DEF Delivery!Next
  <2>2. CASE Emit /\ UNCHANGED workerVars /\ accepted' = accepted \union {emitted'}
    <3>1. emitted' \in Event /\ emitted' \notin accepted
      BY <2>2, QueueAssumption DEF Inv, SinkInv, SinkTypeOK, Emit, Event
    <3>2. UNCHANGED <<ParkedEvents, dropped, lost, rows, worker>>
      BY <2>2 DEF Emit, workerVars, ParkedEvents, At
    <3>3. Delivery!Accept
      BY <2>2, <3>1, <3>2 DEF Delivery!Accept
    <3> QED BY <3>3 DEF Delivery!Next
  <2>3. CASE /\ (Write \/ WriteRaises) /\ UNCHANGED sinkVars
             /\ \E ms \in SUBSET held : rows' = Stored(ms)
    <3>1. /\ worker # "down" /\ worker' # "down"
          /\ UNCHANGED <<ParkedEvents, dropped, lost, accepted>>
      BY <2>3 DEF Write, WriteRaises, ToDelete, sinkVars, observers, ParkedEvents, At
    <3>2. /\ StoredEvents' \ StoredEvents \in SUBSET accepted
          /\ StoredEvents' = StoredEvents \union (StoredEvents' \ StoredEvents)
      BY <2>3, StoreAccepted
    <3>3. Delivery!Store
      BY <3>1, <3>2 DEF Delivery!Store, StoredEvents
    <3> QED BY <3>3 DEF Delivery!Next
  <2>4. CASE /\ DeletePart \/ Die \/ DieUndeleted \/ Start
             /\ UNCHANGED sinkVars
             /\ (worker' = "down") # (worker = "down")
    <3>1. ~QueueStep
      BY <2>4 DEF QueueStep, Redeliver, RedeliverHeld, workerVars
    <3>2. UNCHANGED <<rows, accepted, dropped, lost>>
      BY <2>4 DEF DeletePart, Die, DieUndeleted, Start, sinkVars, observers
    <3>3. UNCHANGED GivenUpEvents
      BY <3>1, <3>2, GivenUpStay
    <3>4. Delivery!StartOrStop
      BY <2>4, <3>2, <3>3 DEF Delivery!StartOrStop, GivenUpEvents
    <3> QED BY <3>4 DEF Delivery!Next
  <2>5. CASE SinkStep
    BY <2>1, <2>2, <2>5 DEF SinkStep, workerVars, Pump, Emit, TakeFirst, TakeNext,
       BatchComplete, LeaveLoop, SendAcknowledged, SendRaises, PumpEnds, Close, Exit, observers
  <2>6. CASE WorkerStep
    <3>1. UNCHANGED accepted
      BY <2>6 DEF WorkerStep, sinkVars, observers
    <3>2. CASE Write \/ WriteRaises
      BY <2>1, <2>3, <2>6, <3>1, <3>2 DEF WorkerStep, Write, WriteRaises, ToDelete
    <3>3. CASE Receive \/ Delete
      BY <2>1, <3>1, <3>3 DEF Receive, Delete
    <3>4. CASE DeletePart \/ Die \/ DieUndeleted \/ Start
      BY <2>1, <2>4, <2>6, <3>1, <3>4 DEF WorkerStep, DeletePart, Die, DieUndeleted, Start
    <3> QED BY <2>6, <3>2, <3>3, <3>4 DEF WorkerStep, Work, Disturb
  <2>7. CASE QueueStep \/ JunkArrives \/ UNCHANGED vars
    BY <2>1, <2>7 DEF QueueStep, Redeliver, RedeliverHeld, JunkArrives, vars, sinkVars,
       observers, workerVars
  <2> QED BY <2>5, <2>6, <2>7 DEF Next
<1> QED BY <1>1, <1>2, Inductive, PTL DEF Spec
=============================================================================
