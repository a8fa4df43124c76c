--------------------------- MODULE CircuitBreaker ---------------------------
(***************************************************************************)
(* resilience/circuit_breaker.py: the one breaker all calls share, with    *)
(* the Tier 2 worker threads that go through it.  The lock makes the       *)
(* admission check and each of the two outcome handlers atomic; the        *)
(* guarded call itself runs outside the lock, so a thread sits in          *)
(* "calling" while others come and go.                                     *)
(*                                                                         *)
(* The clock is counted in steps since opened_at, up to the reset timeout; *)
(* the failure count is only compared with the threshold and saturates     *)
(* there.                                                                  *)
(***************************************************************************)
EXTENDS Naturals

CONSTANTS
  Thread,       \* the Tier 2 worker threads, one per live call
  Threshold,    \* failure_threshold
  ResetTimeout  \* reset_timeout, in clock steps

ASSUME ThresholdAssumption == Threshold \in Nat \ {0}
ASSUME ResetAssumption     == ResetTimeout \in Nat

VARIABLES
  breaker,    \* _state
  failures,   \* _failures
  openFor,    \* _clock() - _opened_at
  calling,    \* the threads inside the guarded call
  sinceTrip,  \* observer: clock steps since a failure last opened the breaker
  healed      \* observer: a call has succeeded since then

vars == <<breaker, failures, openFor, calling, sinceTrip, healed>>

BreakerState == {"CLOSED", "OPEN", "HALF_OPEN"}

TypeOK ==
  /\ breaker \in BreakerState
  /\ failures \in 0..Threshold
  /\ openFor \in 0..ResetTimeout
  /\ calling \subseteq Thread
  /\ sinceTrip \in 0..ResetTimeout
  /\ healed \in BOOLEAN

Init ==
  /\ breaker = "CLOSED"
  /\ failures = 0
  /\ openFor = 0
  /\ calling = {}
  /\ sinceTrip = 0
  /\ healed = TRUE

-----------------------------------------------------------------------------
\* The `state' property: an OPEN breaker whose timeout is over is HALF_OPEN to
\* whoever looks, and stays so.
Seen == IF breaker = "OPEN" /\ openFor >= ResetTimeout THEN "HALF_OPEN" ELSE breaker

\* /health reads the property and changes nothing else.
Look ==
  /\ breaker' = Seen
  /\ UNCHANGED <<failures, openFor, calling, sinceTrip, healed>>

\* call: admitted, the guarded function starts outside the lock.
Admit(t) ==
  /\ t \notin calling
  /\ Seen # "OPEN"
  /\ breaker' = Seen
  /\ calling' = calling \union {t}
  /\ UNCHANGED <<failures, openFor, sinceTrip, healed>>

\* Mutant: a rejected call starts the timeout again.
RejectRestarting(t) ==
  /\ t \notin calling
  /\ Seen = "OPEN"
  /\ openFor' = 0
  /\ UNCHANGED <<breaker, failures, calling, sinceTrip, healed>>

\* call: CircuitOpenError, nothing changes.
Reject(t) ==
  /\ t \notin calling
  /\ Seen = "OPEN"
  /\ UNCHANGED vars

Leave(t) ==
  /\ t \in calling
  /\ calling' = calling \ {t}

\* Mutant: a success takes one failure back.
SuccessDecays(t) ==
  /\ Leave(t)
  /\ failures' = failures - 1
  /\ breaker' = "CLOSED"
  /\ healed' = TRUE
  /\ UNCHANGED <<openFor, sinceTrip>>

\* Mutant: a success leaves the count alone.
SuccessKeepingCount(t) ==
  /\ Leave(t)
  /\ breaker' = "CLOSED"
  /\ healed' = TRUE
  /\ UNCHANGED <<failures, openFor, sinceTrip>>

\* _on_success, whatever happened since the call was admitted.
Success(t) ==
  /\ Leave(t)
  /\ failures' = 0
  /\ breaker' = "CLOSED"
  /\ healed' = TRUE
  /\ UNCHANGED <<openFor, sinceTrip>>

Counted == IF failures < Threshold THEN failures + 1 ELSE failures

Trips == breaker = "HALF_OPEN" \/ Counted >= Threshold

\* Mutant: a breaker that re-opens keeps its old opened_at.
TripKeepingClock ==
  /\ breaker' = "OPEN"
  /\ UNCHANGED openFor
  /\ sinceTrip' = 0
  /\ healed' = FALSE

\* _opened_at is taken afresh, also by a breaker that was open already.
Trip ==
  /\ breaker' = "OPEN"
  /\ openFor' = 0
  /\ sinceTrip' = 0
  /\ healed' = FALSE

\* _on_failure: reads the raw state, not the property.
Failure(t) ==
  /\ Leave(t)
  /\ failures' = Counted
  /\ \/ Trips /\ Trip
     \/ /\ ~Trips
        /\ UNCHANGED <<breaker, openFor, sinceTrip, healed>>

Tick ==
  /\ openFor < ResetTimeout \/ sinceTrip < ResetTimeout
  /\ openFor' = IF openFor < ResetTimeout THEN openFor + 1 ELSE openFor
  /\ sinceTrip' = IF sinceTrip < ResetTimeout THEN sinceTrip + 1 ELSE sinceTrip
  /\ UNCHANGED <<breaker, failures, calling, healed>>

Next ==
  \/ Look
  \/ Tick
  \/ \E t \in Thread : Admit(t) \/ Reject(t) \/ Success(t) \/ Failure(t)

Spec == Init /\ [][Next]_vars

\* Time passes, and a guarded call ends: it has a timeout (client.py:111-118,
\* stream.py:75, 255).  Nobody is assumed to call or to look.
Fairness ==
  /\ WF_vars(Tick)
  /\ \A t \in Thread : WF_vars(Success(t) \/ Failure(t))

FairSpec == Spec /\ Fairness

-----------------------------------------------------------------------------
(* Properties.                                                             *)

\* circuit_breaker.py:67-77: the breaker lets calls through as healthy exactly
\* while fewer than the threshold of failures have been counted since the last
\* success, however the threads' outcomes interleave.
ClosedIffHealthy == breaker = "CLOSED" <=> failures < Threshold

\* circuit_breaker.py:3-5 "stop hammering it, fail fast": after a failure opened
\* (or re-opened) the breaker, no call is admitted before the reset timeout has
\* passed in full, unless some call has succeeded meanwhile.
FailsFast ==
  [][\A t \in Thread : t \notin calling /\ t \in calling' =>
       sinceTrip >= ResetTimeout \/ healed]_vars

\* circuit_breaker.py:46-53: a breaker does not reject calls for ever; failures
\* of calls admitted earlier may extend the timeout, but only finitely often.
Recovers == Seen = "OPEN" ~> Seen # "OPEN"
=============================================================================
