------------------------------ MODULE SqsQueue ------------------------------
(***************************************************************************)
(* The telemetry queue and its dead-letter queue, as SQS provides them and *)
(* scripts/localstack-init.sh configures them: at least once, in any       *)
(* order.  A message that was received and not deleted becomes visible     *)
(* again when its visibility timeout is over, until it has been received   *)
(* maxReceiveCount times; then it is parked.                               *)
(***************************************************************************)
EXTENDS Naturals

CONSTANTS
  EventBound,   \* bound of the model: events emitted
  SendRetries,  \* send_retries: a batch is sent at most that often
  MaxReceive,   \* maxReceiveCount of the redrive policy
  StrayBound    \* bound of the model: junk, and attempts whose answer is lost

ASSUME QueueAssumption == /\ EventBound \in Nat
                          /\ SendRetries \in Nat \ {0}
                          /\ MaxReceive \in Nat \ {0}
                          /\ StrayBound \in Nat

VARIABLE msg  \* where each message is, and how often it was received

Event == 1..EventBound

\* A message carries one event: it is named for that event and for the attempt
\* that sent it.  Junk is a message of somebody else whose body does not parse.
Junk    == <<0, 1>>
Message == (Event \X (1..SendRetries)) \union {Junk}
Body(m) == m[1]

Place == {"unsent", "visible", "inflight", "deleted", "parked"}

QueueTypeOK == msg \in [Message -> [at : Place, received : 0..MaxReceive]]

QueueInit ==
  msg = [m \in Message |-> [at |-> "unsent", received |-> 0]]

JunkSeen == IF msg[Junk].at = "unsent" THEN 0 ELSE 1

At(place) == {m \in Message : msg[m].at = place}

Moved(ms, place) ==
  [m \in Message |-> IF m \in ms THEN [msg[m] EXCEPT !.at = place] ELSE msg[m]]

\* A delete works for a message that is visible again, not for a parked one.
\* Deleted messages need no count.
Deleted(ms) ==
  [m \in Message |-> IF m \in ms /\ msg[m].at # "parked" THEN [at |-> "deleted", received |-> 0] ELSE msg[m]]

\* What a receive does to the messages it returns.
Taken(ms) ==
  [m \in Message |-> IF m \in ms THEN [at |-> "inflight", received |-> msg[m].received + 1]
                                 ELSE msg[m]]

\* The visibility timeout of a message is over.
Expired(m) == Moved({m}, IF msg[m].received < MaxReceive THEN "visible" ELSE "parked")
=============================================================================
