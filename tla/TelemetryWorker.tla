--------------------------- MODULE TelemetryWorker ---------------------------
(***************************************************************************)
(* workers/telemetry_worker.py over telemetry/store.py: one process that   *)
(* receives a batch, stores its events with one write_many and deletes     *)
(* what it stored, together with what did not parse.  Each of the three    *)
(* calls is an action; the process may die before any of them, and does    *)
(* when a receive or a delete raises.                                      *)
(*                                                                         *)
(* The store is Postgres, external: a write_many that returns has stored   *)
(* the whole batch, one that raises any part of it.  The connection commits *)
(* by itself (store.py:61) and no transaction is opened around the         *)
(* executemany (lines 71-75): it is all or nothing only where psycopg sends *)
(* it in one pipeline, and then its success can still go unheard.  Nothing *)
(* says that a write succeeds sooner or later: the connection is opened    *)
(* once per process, and a database that restarts makes every later write  *)
(* of this process raise.                                                  *)
(***************************************************************************)
EXTENDS SqsQueue, FiniteSets

CONSTANTS
  ReceiveBatch,   \* _BATCH
  RepeatBound     \* bound of the model: times a stored message stays undeleted

ASSUME WorkerAssumption == ReceiveBatch \in Nat \ {0} /\ RepeatBound \in Nat

VARIABLES
  worker,  \* what the process does next
  held,    \* messages: what it received, then what it is about to delete
  rows,    \* how many rows of call_events each event has
  repeats  \* observer: times messages that were stored stayed undeleted

workerVars == <<worker, held, rows, repeats>>

WorkerTypeOK ==
  /\ worker \in {"receive", "write", "delete", "down"}
  /\ held \subseteq Message
  /\ rows \in [Event -> Nat]
  /\ repeats \in 0..RepeatBound

WorkerInit ==
  /\ worker = "receive"
  /\ held = {}
  /\ rows = [e \in Event |-> 0]
  /\ repeats = 0

Poison == {Junk}

\* What a write_many of these messages' events adds.
Stored(ms) == [e \in Event |-> rows[e] + Cardinality({m \in ms : Body(m) = e})]

-----------------------------------------------------------------------------
\* receive_message: any visible messages, up to the batch size.
Receive ==
  /\ worker = "receive"
  /\ \E ms \in SUBSET At("visible") :
       /\ ms # {}
       /\ Cardinality(ms) <= ReceiveBatch
       /\ msg' = Taken(ms)
       /\ held' = ms
  /\ worker' = "write"
  /\ UNCHANGED <<rows, repeats>>

\* On to the deletion of these messages, if there are any.
ToDelete(ms) ==
  /\ held' = ms
  /\ worker' = IF ms = {} THEN "receive" ELSE "delete"

\* write_many returned, or there was nothing to write.
Write ==
  /\ worker = "write"
  /\ rows' = Stored(held)
  /\ ToDelete(held)
  /\ UNCHANGED <<msg, repeats>>

\* Mutant: the batch is deleted although it was not stored.
DeleteAnyway(ms) == ms

\* stored_receipts = []: only poison is deleted after a failed write.
DeleteAfterFailure(ms) == ms \intersect Poison

\* write_many raised: nothing was written, or a part of the batch, or all of it.
WriteRaises ==
  /\ worker = "write"
  /\ ~(held \subseteq Poison)
  /\ \/ UNCHANGED <<rows, repeats>>
     \/ /\ repeats < RepeatBound
        /\ \E ms \in SUBSET held : ms # {} /\ rows' = Stored(ms)
        /\ repeats' = repeats + 1
  /\ ToDelete(DeleteAfterFailure(held))
  /\ UNCHANGED msg

\* Mutant: only poison is deleted.
DeletePoison ==
  /\ worker = "delete"
  /\ msg' = Deleted(held \intersect Poison)
  /\ held' = {}
  /\ worker' = "receive"
  /\ UNCHANGED <<rows, repeats>>

\* delete_message_batch took every message.
Delete ==
  /\ worker = "delete"
  /\ msg' = Deleted(held)
  /\ held' = {}
  /\ worker' = "receive"
  /\ UNCHANGED <<rows, repeats>>

\* It left some of them, which its response says and nobody reads; or it raised,
\* and the process ends.
DeletePart ==
  /\ worker = "delete"
  /\ repeats < RepeatBound
  /\ \E ms \in SUBSET held : ms # held /\ msg' = Deleted(ms)
  /\ repeats' = repeats + 1
  /\ held' = {}
  /\ worker' \in {"receive", "down"}
  /\ UNCHANGED rows

Work == Receive \/ Write \/ WriteRaises \/ Delete \/ DeletePart

-----------------------------------------------------------------------------
\* The process ends: told to, or killed, or a receive raised.
Die ==
  /\ worker \in {"receive", "write"}
  /\ worker' = "down"
  /\ held' = {}
  /\ UNCHANGED <<msg, rows, repeats>>

\* ... after the write and before the delete.
DieUndeleted ==
  /\ worker = "delete"
  /\ repeats < RepeatBound
  /\ repeats' = repeats + 1
  /\ worker' = "down"
  /\ held' = {}
  /\ UNCHANGED <<msg, rows>>

\* Somebody starts it again.
Start ==
  /\ worker = "down"
  /\ worker' = "receive"
  /\ UNCHANGED <<msg, held, rows, repeats>>

Disturb == Die \/ DieUndeleted \/ Start

-----------------------------------------------------------------------------
(* The visibility timeout.                                                 *)

\* Of a message nobody is working on.
Redeliver(m) ==
  /\ m \in At("inflight") \ held
  /\ msg' = Expired(m)
  /\ UNCHANGED workerVars

\* Of one the worker still holds: the store was slow.
RedeliverHeld(m) ==
  /\ m \in At("inflight") \intersect held
  /\ repeats < RepeatBound
  /\ repeats' = repeats + 1
  /\ msg' = Expired(m)
  /\ UNCHANGED <<worker, held, rows>>
=============================================================================
