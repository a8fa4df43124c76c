------------------------ MODULE CircuitBreaker_proofs ------------------------
(***************************************************************************)
(* What holds of the shared breaker for any set of threads, threshold and  *)
(* reset timeout.                                                          *)
(***************************************************************************)
EXTENDS CircuitBreaker, TLAPS

(***************************************************************************)
(* Type correctness (circuit_breaker.py:40-44): the breaker's counters     *)
(* stay in range whatever the threads do.                                  *)
(***************************************************************************)
THEOREM TypeCorrect == Spec => []TypeOK
<1> USE ThresholdAssumption, ResetAssumption DEF TypeOK, BreakerState, Seen
<1>1. Init => TypeOK
  BY DEF Init
<1>2. TypeOK /\ [Next]_vars => TypeOK'
  <2> SUFFICES ASSUME TypeOK, [Next]_vars PROVE TypeOK'
    OBVIOUS
  <2>1. CASE Look
    BY <2>1 DEF Look
  <2>2. CASE Tick
    BY <2>2 DEF Tick
  <2>3. ASSUME NEW t \in Thread, Admit(t) PROVE TypeOK'
    BY <2>3 DEF Admit
  <2>4. ASSUME NEW t \in Thread, Reject(t) PROVE TypeOK'
    BY <2>4 DEF Reject, vars
  <2>5. ASSUME NEW t \in Thread, Success(t) PROVE TypeOK'
    BY <2>5 DEF Success, Leave
  <2>6. ASSUME NEW t \in Thread, Failure(t) PROVE TypeOK'
    <3>1. failures' \in 0..Threshold
      BY <2>6 DEF Failure, Trip, Counted
    <3>2. calling' \subseteq Thread
      BY <2>6 DEF Failure, Leave
    <3>3. healed' \in BOOLEAN
      BY <2>6 DEF Failure, Trip
    <3>4. breaker' \in BreakerState /\ openFor' \in 0..ResetTimeout
          /\ sinceTrip' \in 0..ResetTimeout
      BY <2>6 DEF Failure, Trip
    <3> QED BY <3>1, <3>2, <3>3, <3>4
  <2>7. CASE UNCHANGED vars
    BY <2>7 DEF vars
  <2> QED BY <2>1, <2>2, <2>3, <2>4, <2>5, <2>6, <2>7 DEF Next
<1> QED BY <1>1, <1>2, PTL DEF Spec

(***************************************************************************)
(* The breaker is CLOSED exactly while fewer failures than the threshold   *)
(* have been counted since the last success (circuit_breaker.py:67-77).    *)
(* Inductive with the types alone: HALF_OPEN keeps the count that opened   *)
(* the breaker, so a failed trial finds it at the threshold still.         *)
(***************************************************************************)
THEOREM Healthy == Spec => []ClosedIffHealthy
<1> USE ThresholdAssumption, ResetAssumption
    DEF TypeOK, BreakerState, Seen, ClosedIffHealthy
<1>1. Init => ClosedIffHealthy
  BY DEF Init
<1>2. TypeOK /\ ClosedIffHealthy /\ [Next]_vars => ClosedIffHealthy'
  <2> SUFFICES ASSUME TypeOK, ClosedIffHealthy, [Next]_vars
               PROVE  ClosedIffHealthy'
    OBVIOUS
  <2>1. CASE Look
    BY <2>1 DEF Look
  <2>2. CASE Tick
    BY <2>2 DEF Tick
  <2>3. ASSUME NEW t \in Thread, Admit(t) PROVE ClosedIffHealthy'
    BY <2>3 DEF Admit
  <2>4. ASSUME NEW t \in Thread, Reject(t) PROVE ClosedIffHealthy'
    BY <2>4 DEF Reject, vars
  <2>5. ASSUME NEW t \in Thread, Success(t) PROVE ClosedIffHealthy'
    BY <2>5 DEF Success, Leave
  <2>6. ASSUME NEW t \in Thread, Failure(t) PROVE ClosedIffHealthy'
    BY <2>6 DEF Failure, Trip, Leave, Counted, Trips
  <2>7. CASE UNCHANGED vars
    BY <2>7 DEF vars
  <2> QED BY <2>1, <2>2, <2>3, <2>4, <2>5, <2>6, <2>7 DEF Next
<1> QED BY <1>1, <1>2, TypeCorrect, PTL DEF Spec

-----------------------------------------------------------------------------
(***************************************************************************)
(* Fail fast.  The clock the breaker reads runs with the observer's since  *)
(* the failure that opened it, and the breaker is CLOSED, or half open,    *)
(* only after a success or a full timeout.                                 *)
(***************************************************************************)
TripClock ==
  ~healed => /\ breaker # "CLOSED"
             /\ breaker = "OPEN" => openFor = sinceTrip
             /\ breaker = "HALF_OPEN" => sinceTrip >= ResetTimeout

(***************************************************************************)
(* After a failure opened the breaker no call is admitted before the reset *)
(* timeout is over, unless a call has succeeded since (the promise of      *)
(* circuit_breaker.py:3-5).                                                *)
(***************************************************************************)
THEOREM NoEarlyCall == Spec => FailsFast
<1> USE ThresholdAssumption, ResetAssumption
    DEF TypeOK, BreakerState, Seen, TripClock
<1>1. Init => TripClock
  BY DEF Init
<1>2. TypeOK /\ TripClock /\ [Next]_vars => TripClock'
  <2> SUFFICES ASSUME TypeOK, TripClock, [Next]_vars PROVE TripClock'
    OBVIOUS
  <2>1. CASE Look
    BY <2>1 DEF Look
  <2>2. CASE Tick
    BY <2>2 DEF Tick
  <2>3. ASSUME NEW t \in Thread, Admit(t) PROVE TripClock'
    BY <2>3 DEF Admit
  <2>4. ASSUME NEW t \in Thread, Reject(t) PROVE TripClock'
    BY <2>4 DEF Reject, vars
  <2>5. ASSUME NEW t \in Thread, Success(t) PROVE TripClock'
    BY <2>5 DEF Success, Leave
  <2>6. ASSUME NEW t \in Thread, Failure(t) PROVE TripClock'
    BY <2>6 DEF Failure, Trip, Leave, Counted, Trips
  <2>7. CASE UNCHANGED vars
    BY <2>7 DEF vars
  <2> QED BY <2>1, <2>2, <2>3, <2>4, <2>5, <2>6, <2>7 DEF Next
<1>3. TypeOK /\ TripClock /\ [Next]_vars =>
        [\A t \in Thread : t \notin calling /\ t \in calling' =>
           sinceTrip >= ResetTimeout \/ healed]_vars
  <2> SUFFICES ASSUME TypeOK, TripClock, Next,
                      NEW u \in Thread, u \notin calling, u \in calling'
               PROVE  sinceTrip >= ResetTimeout \/ healed
    OBVIOUS
  <2>1. CASE Look
    BY <2>1 DEF Look
  <2>2. CASE Tick
    BY <2>2 DEF Tick
  <2>3. ASSUME NEW t \in Thread, Admit(t)
        PROVE  sinceTrip >= ResetTimeout \/ healed
    BY <2>3 DEF Admit
  <2>4. ASSUME NEW t \in Thread, Reject(t) \/ Success(t) \/ Failure(t)
        PROVE  calling' \subseteq calling
    BY <2>4 DEF Reject, Success, Failure, Leave, vars
  <2> QED BY <2>1, <2>2, <2>3, <2>4 DEF Next
<1> QED BY <1>1, <1>2, <1>3, TypeCorrect, PTL DEF Spec, FailsFast
=============================================================================
