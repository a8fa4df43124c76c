------------------------ MODULE AgentSession_proofs ------------------------
(***************************************************************************)
(* Safety of one live call, for every classifier, every setting of the     *)
(* thresholds and every way Tier 2 can fail.  The session calls the        *)
(* call-phase machine by its methods only, so its types carry over; the    *)
(* rest is about what the session adds: the single Tier 2 slot, the end of *)
(* the call and the keypresses.                                            *)
(***************************************************************************)
EXTENDS AgentSession, CallStateMachine_proofs

\* Every step of the session is a step of the machine, or leaves it alone.
LEMMA MachineStep == [Next]_vars => [FsmNext]_fsmVars
  BY DEF Next, MediaLoop, SomeTick, Tick, FeedAfterEnd, Dispatch, DispatchNone,
         DispatchMenuWake, DispatchProbeWake, DispatchFail, MenuWake, FireMenuWake,
         KeepCollecting, Poll, PollNothing, PollError, ApplyMenu, ApplyProbe, Bridge,
         StartHandoff, HandoffUnavailable, CompleteCall, Abort, Work, FsmNext, vars, fsmVars

\* So what is proved of the machine's specification holds of the session's.
LEMMA SessionRefinesMachine == Spec => FsmSpec
  BY MachineStep, PTL DEF Spec, Init, FsmSpec

\* The machine inside a session is well typed throughout.
LEMMA MachineTyped == Spec => []TypeOK
  BY SessionRefinesMachine, FsmTypeCorrect, PTL

-----------------------------------------------------------------------------
(* The Tier 2 slot.                                                        *)

(***************************************************************************)
(* The single-slot contract of executor.py:34-37: of the Tier 2 calls      *)
(* submitted, of whatever kind, at most one still has its answer to be     *)
(* taken, so none is submitted over another (session.py:172, 186) and no   *)
(* answer is lost, however late Tier 2 answers.                            *)
(***************************************************************************)
THEOREM SlotNeverOverwritten == Spec => []SlotHonoured
<1>1. Init => SlotHonoured
  BY DEF Init, SlotHonoured
<1>2. SlotHonoured /\ [Next]_vars => SlotHonoured'
  <2> SUFFICES ASSUME SlotHonoured, [Next]_vars PROVE SlotHonoured'
    OBVIOUS
  <2> USE DEF SlotHonoured
  <2>1. CASE SomeTick \/ FeedAfterEnd \/ Abort \/ UNCHANGED vars
    BY <2>1 DEF SomeTick, Tick, FeedAfterEnd, Abort, vars, sessionVars
  <2>2. CASE DispatchNone \/ DispatchMenuWake \/ DispatchFail
    BY <2>2 DEF DispatchNone, DispatchMenuWake, DispatchFail
  <2>3. CASE DispatchProbeWake
    <3>1. CASE kind = "none" /\ StartTier2("probe")
      BY <3>1 DEF StartTier2
    <3>2. CASE UNCHANGED <<kind, job, unread>>
      BY <3>2
    <3> QED BY <2>3, <3>1, <3>2 DEF DispatchProbeWake
  <2>4. CASE MenuWake
    <3>1. CASE kind = "none" /\ StartTier2("menu")
      BY <3>1 DEF StartTier2
    <3>2. CASE UNCHANGED <<kind, job, unread>>
      BY <3>2
    <3> QED BY <2>4, <3>1, <3>2 DEF MenuWake, FireMenuWake, MayStartMenu, KeepCollecting
  <2>5. CASE Poll
    <3>1. CASE TakeResult
      BY <3>1 DEF TakeResult
    <3>2. CASE PollNothing
      BY <3>2 DEF PollNothing
    <3> QED BY <2>5, <3>1, <3>2 DEF Poll, PollError, ApplyMenu, ApplyProbe
  <2>6. CASE Bridge
    BY <2>6 DEF Bridge, StartHandoff, HandoffUnavailable, CompleteCall
  <2>7. CASE Work
    BY <2>7, SessionAssumption DEF Work, Answer, Errors
  <2> QED BY <2>1, <2>2, <2>3, <2>4, <2>5, <2>6, <2>7 DEF Next, MediaLoop, Dispatch
<1> QED BY <1>1, <1>2, PTL DEF Spec

-----------------------------------------------------------------------------
(* The end of the call.                                                    *)

\* A tick that goes on after the call has ended goes on in FAILED, where a
\* verdict is ignored and no menu is read; a handoff under way belongs to a
\* call that has not ended.
Ending ==
  /\ finished <=> outcomes # {}
  /\ pc = "dispatch" => ~finished /\ (asked = "FAIL" => state = "FAILED")
  /\ pc \in {"wake", "poll"} /\ finished => state = "FAILED"
  /\ pc = "handoff" => ~finished /\ state = "HUMAN_DETECTED"
  /\ pc = "complete" => ~finished /\ state = "BRIDGING"
  /\ "completed" \in outcomes => pc = "feed" /\ "failed" \notin outcomes

LEMMA EndingInductive == Ending /\ [Next]_vars => Ending'
<1> SUFFICES ASSUME Ending, [Next]_vars PROVE Ending'
  OBVIOUS
<1> USE DEF Ending
<1>1. CASE SomeTick
  <2>1. PICK l \in Heard, c \in BOOLEAN, e \in Elapsed : Tick(l, c, e)
    BY <1>1 DEF SomeTick
  <2>2. asked' = "FAIL" => state' = "FAILED"
    BY <2>1 DEF Tick, Observe, GiveUp, ToMenu, ToHold, ToEvaluating, StandDown,
                WakeForSubmenu, KeepListening, Enter
  <2> QED BY <2>1, <2>2 DEF Tick
<1>2. CASE Dispatch
  BY <1>2 DEF Dispatch, DispatchNone, DispatchMenuWake, DispatchProbeWake, DispatchFail,
              Fail, fsmVars
<1>3. CASE MenuWake
  BY <1>3 DEF MenuWake, FireMenuWake, KeepCollecting, fsmVars
<1>4. CASE PollNothing
  BY <1>4 DEF PollNothing, fsmVars
<1>5. CASE PollError
  BY <1>5 DEF PollError, TakeResult, Fail, fsmVars
<1>6. CASE ApplyMenu
  BY <1>6 DEF ApplyMenu, TakeResult
<1>7. CASE ApplyProbe
  <2>1. pc' = "handoff" => state = "EVALUATING_SPEECH" /\ state' = "HUMAN_DETECTED"
    BY <1>7 DEF ApplyProbe, ProbeResult, Enter
  <2> QED BY <1>7, <2>1 DEF ApplyProbe, TakeResult
<1>8. CASE Bridge
  BY <1>8 DEF Bridge, StartHandoff, HandoffUnavailable, CompleteCall, Bridged, Completed,
              Enter, Fail, fsmVars
<1>9. CASE FeedAfterEnd \/ Abort \/ Work \/ UNCHANGED vars
  BY <1>9 DEF FeedAfterEnd, Abort, Work, Fail, vars, sessionVars, fsmVars
<1> QED BY <1>1, <1>2, <1>3, <1>4, <1>5, <1>6, <1>7, <1>8, <1>9 DEF Next, MediaLoop, Poll

\* A new call has not ended.
LEMMA EndingInit == Init => Ending
  BY DEF Init, Ending

(***************************************************************************)
(* A call reported failed is never handed off, and one handed off is never *)
(* reported failed (session.py:267-298), although the tick that fails the  *)
(* call still polls Tier 2.                                                *)
(***************************************************************************)
THEOREM OneOutcome == Spec => []OutcomesExclusive
<1>1. Ending => OutcomesExclusive
  BY DEF Ending, OutcomesExclusive
<1> QED BY <1>1, EndingInit, EndingInductive, PTL DEF Spec

(***************************************************************************)
(* A finished session starts no Tier 2 call (session.py:169-175), although *)
(* the tick that finishes it still looks for a menu wake that is due.      *)
(***************************************************************************)
THEOREM QuietAfterEnd == Spec => NoCallAfterEnd
<1>1. Ending /\ [Next]_vars => [job = "empty" /\ job' = "running" => ~finished]_vars
  <2> SUFFICES ASSUME Ending, Next, job = "empty", job' = "running" PROVE ~finished
    OBVIOUS
  <2>1. \/ DispatchProbeWake
        \/ FireMenuWake /\ state = "IVR_MENU"
    BY DEF Next, MediaLoop, SomeTick, Tick, FeedAfterEnd, Dispatch, DispatchNone,
           DispatchMenuWake, DispatchFail, MenuWake, FireMenuWake, MayStartMenu,
           KeepCollecting, Poll, PollNothing, PollError, ApplyMenu, ApplyProbe, TakeResult,
           Bridge, StartHandoff, HandoffUnavailable, CompleteCall, Abort, Work,
           vars, sessionVars
  <2> QED BY <2>1 DEF DispatchProbeWake, FireMenuWake, Ending
<1> QED BY <1>1, EndingInit, EndingInductive, PTL DEF Spec, NoCallAfterEnd

\* A machine that has left the live phases is on its way to the end of the call.
Settling ==
  /\ pc \in {"feed", "wake", "poll"} /\ state \notin LiveStates => finished
  /\ pc = "dispatch" /\ state \notin LiveStates => asked = "FAIL"

LEMMA SettlingInductive == Settling /\ [Next]_vars => Settling'
<1> SUFFICES ASSUME Settling, [Next]_vars PROVE Settling'
  OBVIOUS
<1> USE DEF Settling
<1>1. CASE SomeTick
  <2>1. PICK l \in Heard, c \in BOOLEAN, e \in Elapsed : Tick(l, c, e)
    BY <1>1 DEF SomeTick
  <2>2. state \in LiveStates
    BY <2>1 DEF Tick
  <2>3. state' \in LiveStates \/ asked' = "FAIL"
    BY <2>1, <2>2 DEF Tick, Observe, GiveUp, ToMenu, ToHold, ToEvaluating, StandDown,
                      FallBackToHold, WakeForSubmenu, KeepListening, Enter, LiveStates
  <2> QED BY <2>1, <2>3 DEF Tick
<1>2. CASE Dispatch
  BY <1>2 DEF Dispatch, DispatchNone, DispatchMenuWake, DispatchProbeWake, DispatchFail,
              Fail, fsmVars
<1>3. CASE MenuWake
  BY <1>3 DEF MenuWake, FireMenuWake, KeepCollecting, fsmVars
<1>4. CASE PollNothing \/ PollError
  BY <1>4 DEF PollNothing, PollError, TakeResult, Fail, fsmVars
<1>5. CASE ApplyMenu
  BY <1>5 DEF ApplyMenu, TakeResult, NoteMenuAction, NoteMenuAbstained
<1>6. CASE ApplyProbe
  <2>1. pc = "poll" /\ finished' = finished
    BY <1>6 DEF ApplyProbe, TakeResult
  <2>2. \/ pc' = "handoff"
        \/ pc' = "feed" /\ (state' \in LiveStates \/ state' = state)
    BY <1>6 DEF ApplyProbe, ProbeResult, FallBackToHold, Enter, LiveStates
  <2> QED BY <2>1, <2>2
<1>7. CASE Bridge
  BY <1>7 DEF Bridge, StartHandoff, HandoffUnavailable, CompleteCall, Fail
<1>8. CASE FeedAfterEnd \/ Abort \/ Work \/ UNCHANGED vars
  BY <1>8 DEF FeedAfterEnd, Abort, Work, Fail, vars, sessionVars, fsmVars
<1> QED BY <1>1, <1>2, <1>3, <1>4, <1>5, <1>6, <1>7, <1>8 DEF Next, MediaLoop, Poll

(***************************************************************************)
(* No dead end: a machine that nothing heard can move any more belongs,    *)
(* between ticks, to a session that has ended (session.py:267-298), on     *)
(* every path out of the live phases, the failed hand-off included.        *)
(***************************************************************************)
THEOREM EndsWithMachine == Spec => []NoDeadEnd
<1>1. Init => Settling
  BY DEF Init, FsmInit, Settling, LiveStates
<1>2. Settling => NoDeadEnd
  BY DEF Settling, NoDeadEnd
<1> QED BY <1>1, <1>2, SettlingInductive, PTL DEF Spec

-----------------------------------------------------------------------------
(* The keypresses.                                                         *)

\* The presses still to come of what was already asked: a wake about to be
\* dispatched, a wake collecting audio, a menu call in the slot.
Asking   == IF pc = "dispatch" /\ asked = "WAKE_TIER2_MENU" THEN 1 ELSE 0
Waiting  == IF wakePending THEN 1 ELSE 0
Reading  == IF kind = "menu" THEN 1 ELSE 0
InFlight == Asking + Waiting + Reading

\* Past the cap, only the entries into a menu pay for presses; and whoever is
\* in a menu has entered it.
Budget ==
  /\ entries \in Nat
  /\ state = "IVR_MENU" => entries >= 1
  /\ presses >= MaxMenuPresses => presses + InFlight <= MaxMenuPresses + entries

\* A tick asks for a menu call by entering a menu or below the cap.
LEMMA TickAsks ==
  ASSUME NEW l \in Heard, NEW c \in BOOLEAN, NEW e \in Elapsed, Observe(l, c, e)
  PROVE  /\ presses' = presses
         /\ asked' = "WAKE_TIER2_MENU" => EntersMenu \/ presses < MaxMenuPresses
  BY DEF Observe, GiveUp, ToMenu, MenuHeard, ToHold, ToEvaluating, StandDown,
         WakeForSubmenu, SubmenuHeard, KeepListening, Enter, EntersMenu

LEMMA BudgetInductive == TypeOK /\ Budget /\ [Next]_vars => Budget'
<1> SUFFICES ASSUME TypeOK, Budget, [Next]_vars PROVE Budget'
  OBVIOUS
<1>1. MaxMenuPresses \in Nat /\ presses \in Nat /\ entries \in Nat
  BY CountsAssumption DEF TypeOK, Budget
<1>2. CASE SomeTick
  <2>1. PICK l \in Heard, c \in BOOLEAN, e \in Elapsed : Tick(l, c, e)
    BY <1>2 DEF SomeTick
  <2>2. /\ pc = "feed"
        /\ presses' = presses
        /\ asked' = "WAKE_TIER2_MENU" => EntersMenu \/ presses < MaxMenuPresses
        /\ entries' = IF EntersMenu THEN entries + 1 ELSE entries
        /\ UNCHANGED <<wakePending, kind>>
    BY <2>1, TickAsks DEF Tick
  <2>3. entries' \in Nat /\ (state' = "IVR_MENU" => entries' >= 1)
    BY <1>1, <2>2 DEF Budget, EntersMenu
  <2> USE DEF Budget, InFlight, Asking, Waiting, Reading
  <2>4. CASE EntersMenu
    <3>1. entries' = entries + 1
      BY <2>2, <2>4
    <3> QED BY <1>1, <2>2, <2>3, <3>1
  <2>5. CASE ~EntersMenu
    <3>1. entries' = entries
      BY <2>2, <2>5
    <3>2. asked' = "WAKE_TIER2_MENU" => presses < MaxMenuPresses
      BY <2>2, <2>5
    <3> QED BY <1>1, <2>2, <2>3, <3>1, <3>2
  <2> QED BY <2>4, <2>5
<1>3. CASE Dispatch
  BY <1>1, <1>3 DEF Dispatch, DispatchNone, DispatchMenuWake, DispatchProbeWake, DispatchFail,
              StartTier2, fsmVars, Budget, InFlight, Asking, Waiting, Reading
<1>4. CASE MenuWake
  <2>1. CASE FireMenuWake
    <3>1. /\ pc = "wake" /\ pc' = "poll"
          /\ UNCHANGED <<state, presses, entries>>
          /\ kind' = "menu" \/ kind' = kind
      BY <2>1 DEF FireMenuWake, StartTier2, fsmVars
    <3>2. wakePending = TRUE /\ wakePending' = FALSE
      BY <2>1 DEF FireMenuWake, WakeDue, TypeOK
    <3> QED BY <1>1, <3>1, <3>2 DEF Budget, InFlight, Asking, Waiting, Reading
  <2>2. CASE KeepCollecting
    BY <1>1, <2>2 DEF KeepCollecting, fsmVars, Budget, InFlight, Asking, Waiting, Reading
  <2> QED BY <1>4, <2>1, <2>2 DEF MenuWake
<1>5. CASE PollNothing \/ PollError
  BY <1>1, <1>5 DEF PollNothing, PollError, TakeResult, fsmVars, Budget, InFlight, Asking, Waiting, Reading
<1>6. CASE ApplyMenu
  <2>1. /\ pc = "poll" /\ pc' = "feed"
        /\ kind = "menu" /\ kind' = "none"
        /\ UNCHANGED <<state, wakePending, entries>>
        /\ \/ state = "IVR_MENU" /\ presses' = presses + 1
           \/ presses' = presses
    BY <1>6 DEF ApplyMenu, TakeResult, NoteMenuAction, NoteMenuAbstained
  <2>2. InFlight = Waiting + 1 /\ InFlight' = Waiting
    BY <2>1 DEF InFlight, Asking, Waiting, Reading
  <2>3. Waiting \in {0, 1}
    BY DEF Waiting
  <2> QED BY <1>1, <2>1, <2>2, <2>3 DEF Budget
<1>7. CASE ApplyProbe
  <2>1. /\ pc' # "dispatch"
        /\ kind = "probe" /\ kind' = "none"
        /\ UNCHANGED <<presses, wakePending, entries>>
        /\ state' = "IVR_MENU" => state = "IVR_MENU"
    BY <1>7 DEF ApplyProbe, TakeResult, ProbeResult, FallBackToHold, Enter
  <2> QED BY <1>1, <2>1 DEF Budget, InFlight, Asking, Waiting, Reading
<1>8. CASE Bridge
  <2>1. /\ pc \in {"handoff", "complete"} /\ pc' \in {"feed", "complete"}
        /\ UNCHANGED <<presses, wakePending, kind, entries>>
        /\ state' = "IVR_MENU" => state = "IVR_MENU"
    BY <1>8 DEF Bridge, StartHandoff, HandoffUnavailable, CompleteCall, Bridged, Completed,
                Enter, fsmVars
  <2> QED BY <1>1, <2>1 DEF Budget, InFlight, Asking, Waiting, Reading
<1>9. CASE FeedAfterEnd \/ Abort \/ Work \/ UNCHANGED vars
  BY <1>9 DEF FeedAfterEnd, Abort, Work, vars, sessionVars, fsmVars, Budget, InFlight, Asking, Waiting, Reading
<1> QED BY <1>2, <1>3, <1>4, <1>5, <1>6, <1>7, <1>8, <1>9 DEF Next, MediaLoop, Poll

(***************************************************************************)
(* The press cap of state.py:85 and 294, as far as the code keeps it: the  *)
(* number of keypresses never exceeds the cap by more than the number of   *)
(* times the line led into a menu, whatever Tier 2 answers and however     *)
(* late it answers.                                                        *)
(***************************************************************************)
THEOREM PressesBounded == Spec => []PressBudget
<1>1. Init => Budget
  BY CountsAssumption DEF Init, FsmInit, Budget, InFlight, Asking, Waiting, Reading
<1>2. TypeOK /\ Budget => PressBudget
  BY CountsAssumption DEF TypeOK, Budget, InFlight, Asking, Waiting, Reading, PressBudget
<1> QED BY <1>1, <1>2, MachineTyped, BudgetInductive, PTL DEF Spec

-----------------------------------------------------------------------------
(* Digits pressed too late.                                                *)

\* The one read that may still be pressed outside the menu it was asked in.
Late ==
  /\ entries \in Nat
  /\ late \in Nat
  /\ late + (IF state = "IVR_MENU" \/ kind = "menu" THEN 1 ELSE 0) <= entries

\* A menu is entered only by what is heard, and read only when in it.
LEMMA LateSteps ==
  ASSUME [Next]_vars
  PROVE  \/ EntersMenu /\ entries' = entries + 1 /\ UNCHANGED late
         \/ ~EntersMenu /\ UNCHANGED <<entries, late>> /\ (kind' = "menu" => kind = "menu")
         \/ state = "IVR_MENU" /\ state' = "IVR_MENU" /\ UNCHANGED <<entries, late>>
         \/ /\ kind = "menu" /\ kind' = "none" /\ state # "IVR_MENU" /\ UNCHANGED <<entries, state>>
            /\ late' = late + 1
<1>1. CASE SomeTick
  BY <1>1 DEF SomeTick, Tick
<1>2. CASE Dispatch
  BY <1>2 DEF Dispatch, DispatchNone, DispatchMenuWake, DispatchProbeWake, DispatchFail,
              StartTier2, EntersMenu, fsmVars
<1>3. CASE MenuWake
  BY <1>3 DEF MenuWake, FireMenuWake, MayStartMenu, KeepCollecting, StartTier2, EntersMenu,
              fsmVars
<1>4. CASE PollNothing \/ PollError
  BY <1>4 DEF PollNothing, PollError, TakeResult, EntersMenu, fsmVars
<1>5. CASE ApplyMenu
  BY <1>5 DEF ApplyMenu, TakeResult, NoteMenuAction, NoteMenuAbstained, EntersMenu
<1>6. CASE ApplyProbe
  BY <1>6 DEF ApplyProbe, TakeResult, ProbeResult, FallBackToHold, Enter, EntersMenu
<1>7. CASE Bridge
  BY <1>7 DEF Bridge, StartHandoff, HandoffUnavailable, CompleteCall, Bridged, Completed,
              Enter, EntersMenu, fsmVars
<1>8. CASE FeedAfterEnd \/ Abort \/ Work \/ UNCHANGED vars
  BY <1>8 DEF FeedAfterEnd, Abort, Work, EntersMenu, vars, sessionVars, fsmVars
<1> QED BY <1>1, <1>2, <1>3, <1>4, <1>5, <1>6, <1>7, <1>8 DEF Next, MediaLoop, Poll

(***************************************************************************)
(* A menu that was left leaves at most one digit behind to be pressed      *)
(* where it no longer belongs (session.py:245-260), however long Tier 2    *)
(* takes over it and however often the line leads into a menu.             *)
(***************************************************************************)
THEOREM LatePresses == Spec => []OneLatePress
<1>1. Init => Late
  BY DEF Init, FsmInit, Late
<1>2. Late /\ [Next]_vars => Late'
  BY LateSteps DEF Late, EntersMenu
<1>3. Late => OneLatePress
  BY DEF Late, OneLatePress
<1> QED BY <1>1, <1>2, <1>3, PTL DEF Spec

-----------------------------------------------------------------------------
(* Types.                                                                  *)

LEMMA SessionTypeInductive ==
  SessionTypeOK /\ SlotHonoured /\ SlotHonoured' /\ [Next]_vars => SessionTypeOK'
<1> SUFFICES ASSUME SessionTypeOK, SlotHonoured, SlotHonoured', [Next]_vars PROVE SessionTypeOK'
  OBVIOUS
<1>1. TypeOK'
  BY MachineStep, FsmStepType DEF SessionTypeOK
<1>2. pc' \in Phase
  BY DEF SessionTypeOK, Phase, Next, MediaLoop, SomeTick, Tick, FeedAfterEnd, Dispatch,
         DispatchNone, DispatchMenuWake, DispatchProbeWake, DispatchFail, MenuWake,
         FireMenuWake, KeepCollecting, Poll, PollNothing, PollError, ApplyMenu, ApplyProbe,
         Bridge, StartHandoff, HandoffUnavailable, CompleteCall, Abort, Work, vars, sessionVars
<1>3. wakeLeft' \in 0..MenuCollect
  <2>1. \/ wakeLeft' \in {wakeLeft, MenuCollect}
        \/ \E e \in Elapsed : wakeLeft' = Left(wakeLeft, e)
    BY DEF Next, MediaLoop, SomeTick, Tick, FeedAfterEnd, Dispatch, DispatchNone,
         DispatchMenuWake, DispatchProbeWake, DispatchFail, MenuWake, FireMenuWake,
         KeepCollecting, Poll, PollNothing, PollError, ApplyMenu, ApplyProbe, TakeResult,
         Bridge, StartHandoff, HandoffUnavailable, CompleteCall, Abort, Work, vars, sessionVars
  <2>2. wakeLeft \in 0..MenuCollect /\ MenuCollect \in Nat
    BY SessionAssumption DEF SessionTypeOK
  <2>3. \A e \in Elapsed : Left(wakeLeft, e) \in 0..MenuCollect
    BY <2>2, LeftType, ElapsedAssumption
  <2> QED BY <2>1, <2>2, <2>3
<1>4. entries' \in 0..MenuEntryBound
  <2>1. \/ entries' = entries
        \/ entries' = entries + 1 /\ entries' <= MenuEntryBound
    BY DEF Next, MediaLoop, SomeTick, Tick, FeedAfterEnd, Dispatch, DispatchNone,
         DispatchMenuWake, DispatchProbeWake, DispatchFail, MenuWake, FireMenuWake,
         KeepCollecting, Poll, PollNothing, PollError, ApplyMenu, ApplyProbe, TakeResult,
         Bridge, StartHandoff, HandoffUnavailable, CompleteCall, Abort, Work, vars, sessionVars
  <2> QED BY <2>1, SessionAssumption DEF SessionTypeOK
<1>5. kind' \in Kind \union {"none"} /\ job' \in Job
  <2>1. CASE Work
    BY <2>1, SessionAssumption DEF Work, SessionTypeOK, Answer, Job, Errors
  <2>2. CASE ~Work
    BY <2>2 DEF SessionTypeOK, Kind, Job, Next, MediaLoop, SomeTick, Tick, FeedAfterEnd,
         Dispatch, DispatchNone, DispatchMenuWake, DispatchProbeWake, DispatchFail, MenuWake,
         FireMenuWake, KeepCollecting, Poll, PollNothing, PollError, ApplyMenu, ApplyProbe,
         TakeResult, StartTier2, Bridge, StartHandoff, HandoffUnavailable, CompleteCall,
         Abort, vars, sessionVars
  <2> QED BY <2>1, <2>2
<1>6. /\ wakePending' \in BOOLEAN
      /\ finished' \in BOOLEAN
      /\ stale' \in BOOLEAN
      /\ outcomes' \subseteq {"completed", "failed"}
  BY DEF SessionTypeOK, Next, MediaLoop, SomeTick, Tick, FeedAfterEnd,
         Dispatch, DispatchNone, DispatchMenuWake, DispatchProbeWake, DispatchFail, MenuWake,
         FireMenuWake, KeepCollecting, Poll, PollNothing, PollError, ApplyMenu, ApplyProbe,
         TakeResult, StartTier2, Fail, Bridge, StartHandoff, HandoffUnavailable, CompleteCall,
         Abort, Work, vars, sessionVars
<1>7. late' \in Nat
  <2>1. late' \in {late, late + 1}
    BY LateSteps
  <2> QED BY <2>1 DEF SessionTypeOK
<1>8. unread' \in Nat
  BY DEF SlotHonoured
<1> QED BY <1>1, <1>2, <1>3, <1>4, <1>5, <1>6, <1>7, <1>8 DEF SessionTypeOK

(***************************************************************************)
(* The session of session.py stays well typed under every interleaving of  *)
(* the media loop, the Tier 2 worker and an abort.                         *)
(***************************************************************************)
THEOREM SessionTypeCorrect == Spec => []SessionTypeOK
<1>1. Init => SessionTypeOK
  <2> SUFFICES ASSUME Init PROVE SessionTypeOK
    OBVIOUS
  <2>1. TypeOK
    BY FsmInitType DEF Init
  <2>2. /\ wakePending \in BOOLEAN
        /\ finished \in BOOLEAN
        /\ stale \in BOOLEAN
        /\ outcomes \subseteq {"completed", "failed"}
        /\ unread \in Nat
        /\ late \in Nat
    BY DEF Init
  <2>3. wakeLeft \in 0..MenuCollect /\ entries \in 0..MenuEntryBound
    BY SessionAssumption DEF Init
  <2>4. /\ pc \in Phase
        /\ kind \in Kind \union {"none"}
        /\ job \in Job
    BY DEF Init, Phase, Job
  <2> QED BY <2>1, <2>2, <2>3, <2>4 DEF SessionTypeOK
<1> QED BY <1>1, SessionTypeInductive, SlotNeverOverwritten, PTL DEF Spec
=============================================================================
