-------------------------- MODULE Tier2Call_proofs --------------------------
(***************************************************************************)
(* What holds of a Tier 2 call for any threads, any deadlines and any      *)
(* listening time, whether or not the deadlines keep the code's order.     *)
(***************************************************************************)
EXTENDS Tier2Call, CircuitBreaker_proofs

LEMMA Deadlines ==
  /\ Pause \in Nat /\ Listen \in Nat /\ CloseTimeout \in Nat
  /\ Limit \in Nat /\ MaxWait \in Nat /\ Limit <= MaxWait
<1>1. /\ Pause \in Nat /\ Listen \in Nat /\ CloseTimeout \in Nat
      /\ Backstop \in Nat /\ MenuTimeout \in Nat /\ JoinSlack \in Nat
  BY CallAssumption
<1>2. MenuTimeout + JoinSlack \in Nat
  BY <1>1
<1> QED BY <1>1, <1>2 DEF Limit, MaxWait

(***************************************************************************)
(* Type correctness of a call: its exchange runs exactly while its thread  *)
(* is inside the breaker (circuit_breaker.py:55-65), nothing is waited for *)
(* beyond the thread's own deadline (client.py:115, stream.py:255), and no *)
(* frame is judged that was not queued (bridge.py:158-171).                *)
(***************************************************************************)
THEOREM CallTypeCorrect == Tier2Spec => []Tier2TypeOK
<1> USE Deadlines
<1>1. Tier2Init => Tier2TypeOK
  <2>1. 0 \in 0..MaxWait /\ 0 \in 0..CloseTimeout /\ 0 \in 0..Pause /\ 0 \in 0..0 /\ 0 \in 0..Listen
    OBVIOUS
  <2> QED BY <2>1 DEF Tier2Init, Init, Tier2TypeOK
<1>2. Tier2TypeOK /\ [Tier2Next]_allVars => Tier2TypeOK'
  <2> SUFFICES ASSUME Tier2TypeOK, [Tier2Next]_allVars PROVE Tier2TypeOK'
    OBVIOUS
  <2> USE DEF Tier2TypeOK, around, feeding, timing, reading
  <2>1. ASSUME NEW k \in {"menu", "probe"}, Ask(k) PROVE Tier2TypeOK'
    BY <2>1 DEF Ask, MayAsk, Admit
  <2>2. CASE AskInVain
    BY <2>2 DEF AskInVain, Reject, vars
  <2>3. CASE Connected
    <3>1. feeder' \in {"none", "sleeping", "draining", "asked"} /\ paused' \in 0..Pause
      BY <2>3 DEF Connected
    <3> QED BY <2>3, <3>1 DEF Connected, vars
  <2>4. CASE WakeFeeder \/ Feed \/ AskVerdict
    BY <2>4 DEF WakeFeeder, Feed, AskVerdict, vars
  <2>5. ASSUME NEW v \in {"human", "not_human"}, ReadVerdict(v) PROVE Tier2TypeOK'
    BY <2>5 DEF ReadVerdict, Leaving, vars
  <2>6. CASE ReadNoVerdict
    BY <2>6 DEF ReadNoVerdict, vars
  <2>7. CASE ReadMenuReply \/ ReadError
    <3>1. \E r \in {"digits", "abstain", "failed"} : Leaving(r)
      BY <2>7 DEF ReadMenuReply, ReadError, MenuResults
    <3> QED BY <2>7, <3>1 DEF ReadMenuReply, ReadError, Leaving, vars
  <2>8. CASE NotConnected \/ ClosedCleanly \/ ConnectionLost \/ SocketCloses
    <3>1. \E r \in {"none", "digits", "abstain", "human", "not_human", "failed"} : Left(r)
      BY <2>8 DEF NotConnected, ClosedCleanly, ConnectionLost, SocketCloses, MenuResults
    <3> QED BY <2>8, <3>1
      DEF NotConnected, ClosedCleanly, ConnectionLost, SocketCloses, Left, vars
  <2>9. CASE TimesOut
    BY <2>9 DEF TimesOut, Running, Unavailable, Left, Leaving, vars
  <2>10. CASE Resume
    <3>1. Caller \notin calling'
      BY <2>10 DEF Resume, Return, StopWaiting, Success, Failure, Leave
    <3>2. Reset /\ {live', orphan', lineUp', inbound'} \subseteq BOOLEAN
      BY <2>10 DEF Resume, Return, StopWaiting, EndsSession
    <3>3. 0 \in 0..MaxWait /\ 0 \in 0..CloseTimeout /\ 0 \in 0..Pause /\ 0 \in 0..0 /\ 0 \in 0..Listen
      OBVIOUS
    <3> QED BY <3>1, <3>2, <3>3 DEF Reset
  <2>11. CASE OrphanEnds \/ LineDrops
    BY <2>11 DEF OrphanEnds, LineDrops, vars
  <2>12. CASE Second
    <3>1. ~(waited >= Limit)
      BY <2>12 DEF Second, Urgent
    <3>2. waited' \in 0..MaxWait
      BY <2>12, <3>1 DEF Second
    <3>3. closing' \in 0..CloseTimeout /\ paused' \in 0..Pause
      BY <2>12 DEF Second, Less
    <3>4. Heard \in {0, 1} /\ queued + Heard <= Listen
      BY DEF Heard
    <3>5. early' \in 0..queued' /\ fed' \in 0..queued' /\ queued' \in 0..Listen
      BY <2>12, <3>4 DEF Second
    <3> QED BY <2>12, <3>2, <3>3, <3>5 DEF Second, vars
  <2>13. CASE Others
    <3>1. UNCHANGED callVars /\ (Caller \in calling' <=> Caller \in calling)
      BY <2>13 DEF Others, Look, Tick, Admit, Reject, Success, Failure, Leave, vars
    <3> QED BY <3>1 DEF callVars
  <2>14. CASE UNCHANGED allVars
    BY <2>14 DEF allVars, callVars, vars
  <2> QED BY <2>1, <2>2, <2>3, <2>4, <2>5, <2>6, <2>7, <2>8, <2>9, <2>10, <2>11, <2>12, <2>13, <2>14
    DEF Tier2Next, Begin, Exchange, Resume
<1> QED BY <1>1, <1>2, PTL DEF Tier2Spec

-----------------------------------------------------------------------------
\* Every step of the call is one of the breaker's, or leaves it alone.
LEMMA CallIsGuarded == Tier2Spec => Spec
<1>1. Tier2Init => Init
  BY DEF Tier2Init
<1>2. [Tier2Next]_allVars => [Next]_vars
  <2> SUFFICES ASSUME [Tier2Next]_allVars PROVE [Next]_vars
    OBVIOUS
  <2> USE CallAssumption
  <2>1. CASE Begin
    <3>1. Admit(Caller) \/ Reject(Caller)
      BY <2>1 DEF Begin, Ask, AskInVain
    <3> QED BY <3>1 DEF Next
  <2>2. CASE Exchange
    BY <2>2 DEF Exchange, Connected, NotConnected, WakeFeeder, Feed, AskVerdict, ReadVerdict,
                ReadNoVerdict, ReadMenuReply, ReadError, ClosedCleanly, ConnectionLost,
                SocketCloses, TimesOut
  <2>3. CASE Resume
    <3>1. Success(Caller) \/ Failure(Caller)
      BY <2>3 DEF Resume, Return, StopWaiting
    <3> QED BY <3>1 DEF Next
  <2>4. CASE OrphanEnds \/ LineDrops \/ Second
    BY <2>4 DEF OrphanEnds, LineDrops, Second
  <2>5. CASE Others
    BY <2>5 DEF Others, Next
  <2>6. CASE UNCHANGED allVars
    BY <2>6 DEF allVars
  <2> QED BY <2>1, <2>2, <2>3, <2>4, <2>5, <2>6 DEF Tier2Next
<1> QED BY <1>1, <1>2, PTL DEF Tier2Spec, Spec

(***************************************************************************)
(* The breaker around the calls as they are, not as CircuitBreaker sees    *)
(* them: it is CLOSED exactly while fewer failures than the threshold have *)
(* been counted, and after a trip no call starts before the timeout is     *)
(* over unless one has succeeded (circuit_breaker.py:55-88).               *)
(***************************************************************************)
THEOREM CallsFailFast == Tier2Spec => []TypeOK /\ []ClosedIffHealthy /\ FailsFast
BY CallIsGuarded, TypeCorrect, Healthy, NoEarlyCall, PTL

-----------------------------------------------------------------------------
(***************************************************************************)
(* An exchange nobody waits for any more was a probe that failed, so its   *)
(* session has ended and asks for nothing again.                           *)
(***************************************************************************)
QueueOwned ==
  /\ asking = "probe" /\ Running => inbound
  /\ orphan => ~live
  /\ ~live => asking = "nothing"

(***************************************************************************)
(* A running probe has its inbound queue: the finally of an abandoned one  *)
(* (bridge.py:173) takes no other's away.                                  *)
(***************************************************************************)
THEOREM QueueKept == Tier2Spec => []OwnInbound
<1>1. Tier2Init => QueueOwned
  BY DEF Tier2Init, QueueOwned
<1>2. QueueOwned /\ [Tier2Next]_allVars => QueueOwned'
  <2> SUFFICES ASSUME QueueOwned, [Tier2Next]_allVars PROVE QueueOwned'
    OBVIOUS
  <2> USE DEF QueueOwned, Running, around, feeding, timing, reading
  <2>1. ASSUME NEW k \in {"menu", "probe"}, Ask(k) PROVE QueueOwned'
    <3>1. live /\ ~orphan
      BY <2>1 DEF Ask, MayAsk
    <3>2. asking' = "probe" => inbound'
      BY <2>1 DEF Ask
    <3>3. UNCHANGED <<live, orphan>>
      BY <2>1 DEF Ask
    <3> QED BY <3>1, <3>2, <3>3
  <2>2. CASE AskInVain
    BY <2>2 DEF AskInVain, MayAsk
  <2>3. CASE Exchange
    BY <2>3 DEF Exchange, Connected, NotConnected, WakeFeeder, Feed, AskVerdict, ReadVerdict,
                ReadNoVerdict, ReadMenuReply, ReadError, ClosedCleanly, ConnectionLost,
                SocketCloses, TimesOut, Left, Leaving
  <2>4. CASE Return
    <3>1. asking' = "nothing"
      BY <2>4 DEF Return, Reset
    <3>2. orphan' => ~live'
      BY <2>4 DEF Return
    <3> QED BY <3>1, <3>2
  <2>5. CASE StopWaiting
    <3>1. asking' = "nothing"
      BY <2>5 DEF StopWaiting, Reset
    <3>2. orphan' => ~live'
      BY <2>5 DEF StopWaiting, EndsSession
    <3> QED BY <3>1, <3>2
  <2>6. CASE OrphanEnds
    BY <2>6 DEF OrphanEnds
  <2>7. CASE LineDrops \/ Second
    BY <2>7 DEF LineDrops, Second
  <2>8. CASE Others \/ UNCHANGED allVars
    BY <2>8 DEF Others, callVars, allVars
  <2> QED BY <2>1, <2>2, <2>3, <2>4, <2>5, <2>6, <2>7, <2>8 DEF Tier2Next, Begin, Resume
<1>3. QueueOwned => OwnInbound
  BY DEF QueueOwned, OwnInbound
<1> QED BY <1>1, <1>2, <1>3, PTL DEF Tier2Spec

-----------------------------------------------------------------------------
(***************************************************************************)
(* A probe has read a verdict only when it has left the loop over the      *)
(* events, with that verdict as its result; the timeout overrides it, from *)
(* the closing handshake too, and nothing after it reads any more.         *)
(***************************************************************************)
Ending == stage \in {"closing", "over"}

ReadsKept ==
  /\ asking = "nothing" => stage = "idle"
  /\ verdict # "none" => Ending /\ (cancelled \/ result = verdict)
  /\ Ending /\ asking = "probe" /\ result = "human" => verdict = "human"
  /\ cancelled => Ending /\ result = "failed"

(***************************************************************************)
(* Whichever of verdict, timeout, error and socket comes first, a probe    *)
(* that timed out has failed, a human is reported only on a verdict read   *)
(* in this exchange, and a verdict that was read is reported unless the    *)
(* timeout came (stream.py:148-171, bridge.py:158-175).                    *)
(***************************************************************************)
THEOREM ReadsReported == Tier2Spec => []AnswersAreReads
<1>1. Tier2Init => ReadsKept
  BY DEF Tier2Init, ReadsKept
<1>2. ReadsKept /\ [Tier2Next]_allVars => ReadsKept'
  <2> SUFFICES ASSUME ReadsKept, [Tier2Next]_allVars PROVE ReadsKept'
    OBVIOUS
  <2> USE DEF ReadsKept, Ending, around, feeding, timing, reading
  <2>1. CASE Begin
    BY <2>1 DEF Begin, Ask, AskInVain, MayAsk
  <2>2. CASE Connected \/ NotConnected
    BY <2>2 DEF Connected, NotConnected, Left
  <2>3. CASE WakeFeeder \/ Feed \/ AskVerdict
    <3>1. CASE WakeFeeder
      BY <3>1 DEF WakeFeeder
    <3>2. CASE Feed
      BY <3>2 DEF Feed
    <3>3. CASE AskVerdict
      BY <3>3 DEF AskVerdict
    <3> QED BY <2>3, <3>1, <3>2, <3>3
  <2>4. CASE \E v \in {"human", "not_human"} : ReadVerdict(v)
    BY <2>4 DEF ReadVerdict, Leaving
  <2>5. CASE ReadNoVerdict \/ ReadMenuReply \/ ReadError \/ ClosedCleanly \/ ConnectionLost
    BY <2>5 DEF ReadNoVerdict, ReadMenuReply, MenuResults, ReadError, ClosedCleanly,
                ConnectionLost, Left, Leaving
  <2>6. CASE SocketCloses \/ TimesOut
    BY <2>6 DEF SocketCloses, TimesOut, Running, Unavailable, Left, Leaving
  <2>7. CASE Resume
    BY <2>7 DEF Resume, Return, StopWaiting, Reset
  <2>8. CASE OrphanEnds \/ LineDrops \/ Second
    BY <2>8 DEF OrphanEnds, LineDrops, Second
  <2>9. CASE Others \/ UNCHANGED allVars
    BY <2>9 DEF Others, callVars, allVars
  <2> QED BY <2>1, <2>2, <2>3, <2>4, <2>5, <2>6, <2>7, <2>8, <2>9 DEF Tier2Next, Exchange
<1>3. ReadsKept => AnswersAreReads
  BY DEF ReadsKept, Ending, AnswersAreReads
<1> QED BY <1>1, <1>2, <1>3, PTL DEF Tier2Spec
=============================================================================
