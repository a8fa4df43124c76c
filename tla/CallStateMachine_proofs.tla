----------------------- MODULE CallStateMachine_proofs -----------------------
(***************************************************************************)
(* Type correctness of the call-phase machine, for every configuration of  *)
(* its thresholds and every classifier.  The lemmas are about one step and *)
(* serve every module that embeds the machine.                             *)
(***************************************************************************)
EXTENDS CallStateMachine, TLAPS

\* A countdown stays within its range.
LEMMA LeftType == \A cap \in Nat : \A t \in 0..cap, e \in Nat : Left(t, e) \in 0..cap
  BY DEF Left

\* A saturating count stays within its cap.
LEMMA CappedType == \A cap \in Nat : \A n \in Nat : Capped(n, cap) \in 0..cap
  BY DEF Capped

\* Every threshold is a positive number within the streak's cap.
LEMMA FrameType == \A f \in Frames : f \in Nat /\ f >= 1 /\ f <= StreakCap
  BY FramesAssumption, StreakCapAssumption

\* The streak handed to the handlers is within the cap.
LEMMA StreakType ==
  ASSUME TypeOK, NEW l \in Label, NEW c \in BOOLEAN
  PROVE  StreakFor(l, c) \in 0..StreakCap
<1>1. StreakCap \in Nat /\ 1 <= StreakCap
  BY FrameType, StreakCapAssumption DEF Frames
<1>2. Capped(streak + 1, StreakCap) \in 0..StreakCap
  <2>1. streak + 1 \in Nat
    BY <1>1 DEF TypeOK
  <2> QED BY <1>1, <2>1, CappedType
<1> QED BY <1>1, <1>2 DEF StreakFor

\* Entering a phase leaves the variables it assigns well typed.
LEMMA EnterType ==
  ASSUME TypeOK, NEW s \in CallState, Enter(s)
  PROVE  /\ state' \in CallState
         /\ streakLabel' \in Label \union {NoLabel}
         /\ streak' \in 0..StreakCap
         /\ gapSeen' \in BOOLEAN
         /\ noops' \in 0..MenuNoopsBeforeHold
<1>1. StreakCap \in Nat
  BY StreakCapAssumption
<1>2. gapSeen' \in BOOLEAN
  BY DEF Enter, TypeOK
<1>3. noops' \in 0..MenuNoopsBeforeHold
  BY CountsAssumption DEF Enter, TypeOK
<1> QED BY <1>1, <1>2, <1>3 DEF Enter, TypeOK

\* A tick preserves the types.
LEMMA ObserveType ==
  ASSUME TypeOK, NEW l \in Heard, NEW c \in BOOLEAN, NEW e \in Elapsed,
         Observe(l, c, e)
  PROVE  TypeOK'
<1> DEFINE n == StreakFor(l, c)
<1>1. l \in Label /\ e \in Nat
  BY LabelsAssumption, ElapsedAssumption
<1>2. n \in 0..StreakCap
  BY <1>1, StreakType
<1>3. /\ Left(refractoryLeft, e) \in 0..Refractory
      /\ Left(menuRefractoryLeft, e) \in 0..MenuRefractory
  BY <1>1, LeftType, CountsAssumption DEF TypeOK
<1>4. Refractory \in 0..Refractory
  BY CountsAssumption
<1>5. presses' = presses
  BY DEF Observe, GiveUp, ToMenu, ToHold, ToEvaluating, StandDown,
         WakeForSubmenu, KeepListening
<1> HIDE DEF n
<1>6. CASE \/ GiveUp(l, n, e) \/ ToMenu(l, n, e) \/ ToHold(l, n, e)
           \/ ToEvaluating(l, n, e)
  <2>1. PICK s \in CallState : Enter(s)
    BY <1>6 DEF GiveUp, ToMenu, ToHold, ToEvaluating, CallState, LiveStates
  <2>2. /\ asked' \in Action
        /\ refractoryLeft' = Left(refractoryLeft, e)
        /\ menuRefractoryLeft' = Left(menuRefractoryLeft, e)
    BY <1>6 DEF GiveUp, ToMenu, ToHold, ToEvaluating, Action, Elapse, ElapseMenu
  <2> QED BY <1>3, <1>5, <2>1, <2>2, EnterType DEF TypeOK
<1>7. CASE StandDown(l, n, e)
  <2>1. /\ Enter("ON_HOLD")
        /\ asked' \in Action
        /\ refractoryLeft' = Refractory
        /\ menuRefractoryLeft' = Left(menuRefractoryLeft, e)
    BY <1>7 DEF StandDown, FallBackToHold, ElapseMenu, Action
  <2>2. "ON_HOLD" \in CallState
    BY DEF CallState, LiveStates
  <2> QED BY <1>3, <1>4, <1>5, <2>1, <2>2, EnterType DEF TypeOK
<1>8. CASE WakeForSubmenu(l, n, e) \/ KeepListening(l, n, e)
  <2>1. /\ Count(l, n)
        /\ asked' \in Action
        /\ refractoryLeft' = Left(refractoryLeft, e)
        /\ menuRefractoryLeft' = Left(menuRefractoryLeft, e)
        /\ UNCHANGED <<state, noops>>
    BY <1>8 DEF WakeForSubmenu, KeepListening, Action, Elapse, ElapseMenu
  <2>2. streakLabel' \in Label \union {NoLabel} /\ streak' \in 0..StreakCap
    BY <1>1, <1>2, <2>1 DEF Count, TypeOK
  <2>3. gapSeen' \in BOOLEAN
    BY <1>8 DEF WakeForSubmenu, KeepListening, TypeOK
  <2> QED BY <1>3, <1>5, <2>1, <2>2, <2>3 DEF TypeOK
<1> QED BY <1>6, <1>7, <1>8 DEF Observe, n

\* A verdict preserves the types.
LEMMA ProbeResultType ==
  ASSUME TypeOK, NEW h \in BOOLEAN, ProbeResult(h)
  PROVE  TypeOK'
<1>1. asked' \in Action
  BY DEF ProbeResult, Action
<1>2. refractoryLeft' \in 0..Refractory
  BY CountsAssumption DEF ProbeResult, FallBackToHold, TypeOK
<1>3. CASE state # "EVALUATING_SPEECH"
  BY <1>1, <1>2, <1>3 DEF ProbeResult, TypeOK
<1>4. CASE state = "EVALUATING_SPEECH"
  <2>1. Enter("HUMAN_DETECTED") \/ Enter("ON_HOLD")
    BY <1>4 DEF ProbeResult, FallBackToHold
  <2>2. "ON_HOLD" \in CallState /\ "HUMAN_DETECTED" \in CallState
    BY DEF CallState, LiveStates
  <2> QED BY <1>1, <1>2, <2>1, <2>2, EnterType DEF ProbeResult, TypeOK
<1> QED BY <1>3, <1>4

\* The remaining calls preserve the types.
LEMMA SignalType ==
  ASSUME TypeOK,
         NoteMenuAction \/ NoteMenuAbstained \/ Bridged \/ Completed \/ Failed
  PROVE  TypeOK'
<1>1. CASE NoteMenuAction
  <2>1. presses' \in 0..PressBound
    BY <1>1, CountsAssumption DEF NoteMenuAction, RestartMenuRefractory, TypeOK
  <2>2. gapSeen' \in BOOLEAN
    BY <1>1 DEF NoteMenuAction, RestartMenuRefractory, TypeOK
  <2>3. /\ noops' \in 0..MenuNoopsBeforeHold
        /\ menuRefractoryLeft' \in 0..MenuRefractory
    BY <1>1, CountsAssumption DEF NoteMenuAction, RestartMenuRefractory, TypeOK
  <2> QED BY <1>1, <2>1, <2>2, <2>3 DEF NoteMenuAction, RestartMenuRefractory, TypeOK, Action
<1>2. CASE NoteMenuAbstained
  <2>1. noops' \in 0..MenuNoopsBeforeHold
    BY <1>2, CappedType, CountsAssumption DEF NoteMenuAbstained, TypeOK
  <2> QED BY <1>2, <2>1 DEF NoteMenuAbstained, TypeOK, Action
<1>3. CASE Bridged
  <2>1. Enter("BRIDGING") /\ "BRIDGING" \in CallState
    BY <1>3 DEF Bridged, CallState, LiveStates
  <2> QED BY <1>3, <2>1, EnterType DEF Bridged, TypeOK, Action
<1>4. CASE Completed \/ Failed
  BY <1>4 DEF Completed, Failed, TypeOK, Action, CallState
<1> QED BY <1>1, <1>2, <1>3, <1>4

\* Every step of the machine preserves the types.
LEMMA FsmStepType == TypeOK /\ [FsmNext]_fsmVars => TypeOK'
<1> SUFFICES ASSUME TypeOK, [FsmNext]_fsmVars PROVE TypeOK'
  OBVIOUS
<1>1. CASE UNCHANGED fsmVars
  BY <1>1 DEF fsmVars, TypeOK
<1>2. CASE FsmNext
  BY <1>2, ObserveType, ProbeResultType, SignalType DEF FsmNext
<1> QED BY <1>1, <1>2

\* The machine starts well typed.
LEMMA FsmInitType == FsmInit => TypeOK
<1> SUFFICES ASSUME FsmInit PROVE TypeOK
  OBVIOUS
<1>1. gapSeen \in BOOLEAN
  BY DEF FsmInit
<1>2. state \in CallState /\ asked \in Action
  BY DEF FsmInit, CallState, LiveStates, Action
<1>3. /\ streak \in 0..StreakCap
      /\ refractoryLeft \in 0..Refractory
      /\ menuRefractoryLeft \in 0..MenuRefractory
      /\ presses \in 0..PressBound
      /\ noops \in 0..MenuNoopsBeforeHold
  BY CountsAssumption, StreakCapAssumption DEF FsmInit
<1> QED BY <1>1, <1>2, <1>3 DEF FsmInit, TypeOK

(***************************************************************************)
(* The machine of state.py stays in its phases and its counters in range,  *)
(* whoever calls its methods in whatever order.                            *)
(***************************************************************************)
THEOREM FsmTypeCorrect == FsmSpec => []TypeOK
  BY FsmInitType, FsmStepType, PTL DEF FsmSpec
=============================================================================
