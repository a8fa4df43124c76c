------------------------- MODULE CallTimeline_proofs -------------------------
(***************************************************************************)
(* Debounce, refractory period and submenu spacing, for every setting of   *)
(* FsmConfig.  Each rests on an invariant that ties one of the machine's   *)
(* own counters to what the observer has really seen.                      *)
(***************************************************************************)
EXTENDS CallTimeline, CallStateMachine_proofs

\* The machine under observation takes the machine's own steps.
LEMMA StepOfMachine == [Next]_vars => [FsmNext]_fsmVars
  BY DEF Next, Listen, Verdict, Press, Abstain, Finish, FsmNext, vars, fsmVars

\* So it is well typed throughout.
LEMMA MachineTyped == Spec => []TypeOK
<1>1. Init => TypeOK
  BY FsmInitType DEF Init
<1>2. TypeOK /\ [Next]_vars => TypeOK'
  BY StepOfMachine, FsmStepType
<1> QED BY <1>1, <1>2, PTL DEF Spec

\* A frame that does not count reaches no threshold; one that counts carries
\* the streak of its label.
LEMMA StreakOf ==
  ASSUME TypeOK, NEW l \in Label, NEW c \in BOOLEAN
  PROVE  /\ ~c => StreakFor(l, c) = 0
         /\ c => /\ StreakFor(l, c) >= 1
                 /\ l # streakLabel => StreakFor(l, c) = 1
                 /\ l = streakLabel => StreakFor(l, c) <= streak + 1
<1>1. StreakCap \in Nat /\ 1 <= StreakCap
  BY FrameType, StreakCapAssumption DEF Frames
<1> QED BY <1>1 DEF StreakFor, Capped, TypeOK

-----------------------------------------------------------------------------
(* The refractory period.                                                  *)

\* What is left of the period and what has passed of it make up the whole.
CooldownClock ==
  /\ sinceFallback \in 0..Refractory
  /\ refractoryLeft + sinceFallback >= Refractory

\* A clock that counts down and one that counts up by the same step.
LEMMA Countdown ==
  ASSUME NEW cap \in Nat, NEW t \in 0..cap, NEW s \in 0..cap, NEW e \in Nat,
         t + s >= cap
  PROVE  /\ Capped(s + e, cap) \in 0..cap
         /\ Left(t, e) + Capped(s + e, cap) >= cap
         /\ t <= e => Capped(s + e, cap) >= cap
  BY DEF Capped, Left

\* Of a tick only the stand-down restarts the period.
LEMMA TickRefractory ==
  ASSUME NEW l \in Heard, NEW c \in BOOLEAN, NEW e \in Elapsed, Observe(l, c, e)
  PROVE  \/ Retreat /\ refractoryLeft' = Refractory
         \/ ~Retreat /\ refractoryLeft' = Left(refractoryLeft, e)
<1> DEFINE n == StreakFor(l, c)
<1> HIDE DEF n
<1>1. CASE GiveUp(l, n, e)
  BY <1>1 DEF GiveUp, Enter, Elapse, Retreat
<1>2. CASE ToMenu(l, n, e)
  BY <1>2 DEF ToMenu, Enter, Elapse, Retreat
<1>3. CASE ToHold(l, n, e)
  BY <1>3 DEF ToHold, QueueHeard, NotNavigable, Enter, Elapse, Retreat
<1>4. CASE ToEvaluating(l, n, e)
  BY <1>4 DEF ToEvaluating, Enter, Elapse, Retreat
<1>5. CASE StandDown(l, n, e)
  BY <1>5 DEF StandDown, HoldResumed, FallBackToHold, Enter, Retreat
<1>6. CASE WakeForSubmenu(l, n, e) \/ KeepListening(l, n, e)
  BY <1>6 DEF WakeForSubmenu, KeepListening, Elapse, Retreat
<1> QED BY <1>1, <1>2, <1>3, <1>4, <1>5, <1>6 DEF Observe, n

\* A tick enters EVALUATING_SPEECH only when nothing of the period is left.
LEMMA TickEvaluates ==
  ASSUME NEW l \in Heard, NEW c \in BOOLEAN, NEW e \in Elapsed, Observe(l, c, e),
         state = "ON_HOLD", state' = "EVALUATING_SPEECH"
  PROVE  refractoryLeft <= e
  BY DEF Observe, GiveUp, ToMenu, ToHold, ToEvaluating, StandDown, WakeForSubmenu,
         KeepListening, FallBackToHold, Enter, SpeechHeard

\* The two sides of the period keep adding up.
LEMMA CooldownInductive == TypeOK /\ CooldownClock /\ [Next]_vars => CooldownClock'
<1> SUFFICES ASSUME TypeOK, CooldownClock, [Next]_vars PROVE CooldownClock'
  OBVIOUS
<1> USE DEF CooldownClock
<1>1. ASSUME NEW l \in Heard, NEW c \in BOOLEAN, NEW e \in Elapsed, Listen(l, c, e)
      PROVE  CooldownClock'
  <2>1. e \in Nat /\ Refractory \in Nat /\ refractoryLeft \in 0..Refractory
    BY ElapsedAssumption, CountsAssumption DEF TypeOK
  <2>2. CASE Retreat
    BY <1>1, <2>1, <2>2, TickRefractory DEF Listen
  <2>3. CASE ~Retreat
    <3>1. /\ refractoryLeft' = Left(refractoryLeft, e)
          /\ sinceFallback' = Capped(sinceFallback + e, Refractory)
      BY <1>1, <2>3, TickRefractory DEF Listen
    <3> QED BY <2>1, <3>1, Countdown
  <2> QED BY <2>2, <2>3
<1>2. ASSUME NEW h \in BOOLEAN, Verdict(h) PROVE CooldownClock'
  BY <1>2, CountsAssumption
     DEF Verdict, ProbeResult, FallBackToHold, Enter, Retreat, TypeOK
<1>3. CASE Press \/ Abstain
  BY <1>3 DEF Press, Abstain, NoteMenuAction, NoteMenuAbstained
<1>4. CASE Finish
  BY <1>4 DEF Finish, Bridged, Completed, Failed, Unheard
<1>5. CASE UNCHANGED vars
  BY <1>5 DEF vars, fsmVars, observer
<1> QED BY <1>1, <1>2, <1>3, <1>4, <1>5 DEF Next

(***************************************************************************)
(* No re-evaluation inside the refractory period (state.py:149-153): the   *)
(* countdown the machine keeps never runs ahead of the time that has       *)
(* really passed since it fell back to hold, on both of the ways it does.  *)
(***************************************************************************)
THEOREM Cooldown == Spec => CooldownHolds
<1>1. Init => CooldownClock
  BY CountsAssumption DEF Init, FsmInit, CooldownClock
<1>2. TypeOK /\ CooldownClock /\ [Next]_vars =>
        [state = "ON_HOLD" /\ state' = "EVALUATING_SPEECH" =>
           sinceFallback' >= Refractory]_vars
  <2> SUFFICES ASSUME TypeOK, CooldownClock, Next,
                      state = "ON_HOLD", state' = "EVALUATING_SPEECH"
               PROVE  sinceFallback' >= Refractory
    OBVIOUS
  <2>1. ASSUME NEW l \in Heard, NEW c \in BOOLEAN, NEW e \in Elapsed, Listen(l, c, e)
        PROVE  sinceFallback' >= Refractory
    <3>1. e \in Nat /\ Refractory \in Nat /\ refractoryLeft \in 0..Refractory
      BY ElapsedAssumption, CountsAssumption DEF TypeOK
    <3>2. refractoryLeft <= e /\ ~Retreat
      BY <2>1, TickEvaluates DEF Listen, Retreat
    <3>3. sinceFallback' = Capped(sinceFallback + e, Refractory)
      BY <2>1, <3>2 DEF Listen
    <3> QED BY <3>1, <3>2, <3>3, Countdown DEF CooldownClock
  <2>2. ASSUME NEW h \in BOOLEAN, Verdict(h) PROVE FALSE
    BY <2>2 DEF Verdict, ProbeResult, FallBackToHold, Enter
  <2>3. CASE Press \/ Abstain \/ Finish
    BY <2>3 DEF Press, Abstain, Finish, NoteMenuAction, NoteMenuAbstained,
                Bridged, Completed, Failed, Enter
  <2> QED BY <2>1, <2>2, <2>3 DEF Next
<1> QED BY <1>1, <1>2, MachineTyped, CooldownInductive, PTL DEF Spec, CooldownHolds

-----------------------------------------------------------------------------
(* Debounce and hysteresis.                                                *)

\* What the machine counts as a streak was heard, and heard in this phase.
RunHeard ==
  /\ held \in [label : Label \union {NoLabel}, phase : CallState, frames : 0..StreakCap]
  /\ state \in LiveStates /\ streakLabel # NoLabel =>
       /\ held.label = streakLabel
       /\ held.phase = state
       /\ held.frames >= streak

\* The observer's own record is well typed.
LEMMA NothingType ==
  Nothing \in [label : Label \union {NoLabel}, phase : CallState, frames : 0..StreakCap]
<1>1. 0 \in 0..StreakCap /\ "DIALING" \in CallState
  BY StreakCapAssumption DEF CallState, LiveStates
<1> QED BY <1>1 DEF Nothing

LEMMA ExtendType ==
  ASSUME TypeOK, RunHeard, NEW l \in Label
  PROVE  Extend(l) \in [label : Label \union {NoLabel}, phase : CallState, frames : 0..StreakCap]
<1>1. StreakCap \in Nat /\ 1 <= StreakCap
  BY FrameType, StreakCapAssumption DEF Frames
<1>2. Capped(held.frames + 1, StreakCap) \in 0..StreakCap
  BY <1>1 DEF Capped, RunHeard
<1>3. [held EXCEPT !.frames = Capped(held.frames + 1, StreakCap)]
        \in [label : Label \union {NoLabel}, phase : CallState, frames : 0..StreakCap]
  BY <1>2 DEF RunHeard
<1>4. [label |-> l, phase |-> state, frames |-> 1]
        \in [label : Label \union {NoLabel}, phase : CallState, frames : 0..StreakCap]
  BY <1>1 DEF TypeOK
<1> QED BY <1>3, <1>4 DEF Extend

\* With this frame included, the run is at least as long as the streak.
LEMMA RunCovers ==
  ASSUME TypeOK, RunHeard, state \in LiveStates, NEW l \in Label
  PROVE  /\ Extend(l) \in [label : Label \union {NoLabel}, phase : CallState, frames : 0..StreakCap]
         /\ Extend(l).label = l
         /\ Extend(l).phase = state
         /\ Extend(l).frames >= StreakFor(l, TRUE)
<1>1. StreakCap \in Nat /\ 1 <= StreakCap
  BY FrameType, StreakCapAssumption DEF Frames
<1>2. held.frames \in 0..StreakCap /\ streak \in 0..StreakCap /\ state \in CallState
  BY DEF RunHeard, TypeOK
<1>3. l # NoLabel
  BY DEF Label, NoLabel, SpeechyLabels, MenuLabels, NonConnectLabels, HoldLabels
<1>4. CASE held.label = l /\ held.phase = state
  <2>1. Extend(l) = [held EXCEPT !.frames = Capped(held.frames + 1, StreakCap)]
    BY <1>4 DEF Extend
  <2>2. Capped(held.frames + 1, StreakCap) \in 0..StreakCap
    BY <1>1, <1>2 DEF Capped
  <2>3. Capped(held.frames + 1, StreakCap) >= StreakFor(l, TRUE)
    BY <1>1, <1>2, <1>3, <1>4 DEF StreakFor, Capped, RunHeard
  <2> QED BY <1>4, <2>1, <2>2, <2>3 DEF RunHeard
<1>5. CASE ~(held.label = l /\ held.phase = state)
  <2>1. Extend(l) = [label |-> l, phase |-> state, frames |-> 1]
    BY <1>5 DEF Extend
  <2>2. streakLabel # l
    BY <1>3, <1>5 DEF RunHeard
  <2>3. /\ Extend(l).label = l
        /\ Extend(l).phase = state
        /\ Extend(l).frames = 1
    BY <2>1
  <2>4. Extend(l).frames >= StreakFor(l, TRUE)
    BY <2>2, <2>3 DEF StreakFor
  <2> QED BY <2>3, <2>4, ExtendType
<1> QED BY <1>4, <1>5

\* A tick that moves the phase starts the new one with no streak; one that
\* stays counts the frame or leaves the streak alone.
LEMMA TickStreak ==
  ASSUME TypeOK, NEW l \in Heard, NEW c \in BOOLEAN, NEW e \in Elapsed, Observe(l, c, e)
  PROVE  \/ streakLabel' = NoLabel
         \/ state' = state /\ Count(l, StreakFor(l, c))
  BY DEF Observe, GiveUp, ToMenu, ToHold, ToEvaluating, StandDown, WakeForSubmenu,
         KeepListening, FallBackToHold, Enter

\* A frame that does not count moves no phase, and a frame that does moves it
\* only along an edge whose threshold the streak of its label has reached.
LEMMA TickEdge ==
  ASSUME TypeOK, NEW l \in Heard, NEW c \in BOOLEAN, NEW e \in Elapsed,
         Observe(l, c, e), state' # state
  PROVE  /\ c
         /\ state \in LiveStates
         /\ Edge(state, state', l, StreakFor(l, c))
<1> DEFINE n == StreakFor(l, c)
<1>1. /\ NonConnectFrames >= 1 /\ EnterMenuFrames >= 1 /\ EnterHoldFrames >= 1
      /\ DialingToHoldFrames >= 1 /\ ReenterMenuFrames >= 1 /\ EnterEvalFrames >= 1
      /\ LeaveEvalFrames >= 1 /\ MenuSpeechToHoldFrames >= 1
  BY FrameType DEF Frames
<1>5. Frames \subseteq Nat
  BY FrameType
<1>2. n \in 0..StreakCap /\ (~c => n = 0)
  BY LabelsAssumption, StreakOf, StreakType
<1> HIDE DEF n
<1>3. state \in LiveStates /\ Edge(state, state', l, n)
  <2>1. CASE GiveUp(l, n, e)
    BY <2>1 DEF GiveUp, GivesUp, Enter, Edge
  <2>2. CASE ToMenu(l, n, e)
    BY <2>2 DEF ToMenu, MenuHeard, Enter, Edge, LiveStates
  <2>3. CASE ToHold(l, n, e)
    BY <2>3 DEF ToHold, QueueHeard, NotNavigable, Enter, Edge, LiveStates, HoldLabels
  <2>4. CASE ToEvaluating(l, n, e)
    BY <2>4 DEF ToEvaluating, SpeechHeard, Enter, Edge, LiveStates
  <2>5. CASE StandDown(l, n, e)
    BY <2>5 DEF StandDown, HoldResumed, FallBackToHold, Enter, Edge, LiveStates
  <2>6. CASE WakeForSubmenu(l, n, e) \/ KeepListening(l, n, e)
    BY <2>6 DEF WakeForSubmenu, KeepListening
  <2> QED BY <2>1, <2>2, <2>3, <2>4, <2>5, <2>6 DEF Observe, n
<1>4. n >= 1
  BY <1>1, <1>5, <1>2, <1>3 DEF Edge, Frames
<1> QED BY <1>2, <1>3, <1>4 DEF n

\* An edge earned by n frames is earned by more.
LEMMA EdgeMonotone ==
  ASSUME NEW n \in Nat, NEW m \in Nat, m >= n, NEW l, Edge(state, state', l, n)
  PROVE  Edge(state, state', l, m)
<1>1. Frames \subseteq Nat
  BY FramesAssumption
<1> QED BY <1>1 DEF Edge, Frames

\* The run of frames covers the streak for ever.
LEMMA RunInductive == TypeOK /\ RunHeard /\ [Next]_vars => RunHeard'
<1> SUFFICES ASSUME TypeOK, RunHeard, [Next]_vars PROVE RunHeard'
  OBVIOUS
<1>1. ASSUME NEW l \in Heard, NEW c \in BOOLEAN, NEW e \in Elapsed, Listen(l, c, e)
      PROVE  RunHeard'
  <2>1. Observe(l, c, e) /\ l \in Label
    BY <1>1, LabelsAssumption DEF Listen
  <2>2. held' = IF c THEN Extend(l) ELSE held
    BY <1>1 DEF Listen
  <2>3. CASE state \notin LiveStates
    <3>1. state' = state
      BY <2>1, <2>3, TickEdge
    <3>2. held' \in [label : Label \union {NoLabel}, phase : CallState, frames : 0..StreakCap]
      BY <2>1, <2>2, ExtendType DEF RunHeard
    <3> QED BY <2>3, <3>1, <3>2 DEF RunHeard
  <2>4. CASE state \in LiveStates /\ c
    <3>1. /\ held' \in [label : Label \union {NoLabel}, phase : CallState, frames : 0..StreakCap]
          /\ held'.label = l
          /\ held'.phase = state
          /\ held'.frames >= StreakFor(l, c)
      BY <2>1, <2>2, <2>4, RunCovers
    <3>2. \/ streakLabel' = NoLabel
          \/ state' = state /\ Count(l, StreakFor(l, c))
      BY <2>1, TickStreak
    <3>3. StreakFor(l, c) >= 1 /\ StreakFor(l, c) \in 0..StreakCap
      BY <2>1, <2>4, StreakOf, StreakType
    <3> QED BY <3>1, <3>2, <3>3 DEF RunHeard, Count
  <2>5. CASE state \in LiveStates /\ ~c
    <3>1. held' = held /\ StreakFor(l, c) = 0
      BY <2>1, <2>2, <2>5, StreakOf
    <3>2. state' = state
      BY <2>1, <2>5, TickEdge
    <3>3. streakLabel' = NoLabel \/ Count(l, StreakFor(l, c))
      BY <2>1, TickStreak
    <3> QED BY <3>1, <3>2, <3>3 DEF RunHeard, Count
  <2> QED BY <2>3, <2>4, <2>5
<1>2. ASSUME NEW h \in BOOLEAN, Verdict(h) PROVE RunHeard'
  BY <1>2, NothingType DEF Verdict, ProbeResult, FallBackToHold, Enter, Unheard, RunHeard
<1>3. CASE Press \/ Abstain
  BY <1>3 DEF Press, Abstain, NoteMenuAction, NoteMenuAbstained, RunHeard
<1>4. CASE Finish
  BY <1>4, NothingType
     DEF Finish, Bridged, Completed, Failed, Enter, Unheard, RunHeard, LiveStates
<1>5. CASE UNCHANGED vars
  BY <1>5 DEF vars, fsmVars, observer, RunHeard
<1> QED BY <1>1, <1>2, <1>3, <1>4, <1>5 DEF Next

(***************************************************************************)
(* A tick changes the phase only along an edge of the machine and after    *)
(* the edge's threshold of frames (state.py:134-147), for every setting of *)
(* the thresholds: no phase inherits a streak from the one before it.      *)
(***************************************************************************)
THEOREM Debounce == Spec => Debounced
<1>1. Init => RunHeard
  BY NothingType DEF Init, FsmInit, RunHeard
<1>2. TypeOK /\ RunHeard /\ [Next]_vars =>
        [op' = "observe" /\ state' # state =>
           /\ held'.phase = state
           /\ Edge(state, state', held'.label, held'.frames)]_vars
  <2> SUFFICES ASSUME TypeOK, RunHeard, Next, op' = "observe", state' # state
               PROVE  /\ held'.phase = state
                      /\ Edge(state, state', held'.label, held'.frames)
    OBVIOUS
  <2>1. PICK l \in Heard, c \in BOOLEAN, e \in Elapsed : Listen(l, c, e)
    BY DEF Next, Verdict, Press, Abstain, Finish
  <2>2. /\ c
        /\ state \in LiveStates
        /\ Edge(state, state', l, StreakFor(l, c))
        /\ held' = Extend(l)
    BY <2>1, TickEdge DEF Listen
  <2>3. /\ held'.label = l
        /\ held'.phase = state
        /\ held'.frames >= StreakFor(l, c)
        /\ held' \in [label : Label \union {NoLabel}, phase : CallState, frames : 0..StreakCap]
    BY <2>2, LabelsAssumption, RunCovers
  <2>4. held'.frames \in Nat /\ StreakFor(l, c) \in Nat
    BY <2>3, LabelsAssumption, StreakCapAssumption, StreakType
  <2> QED BY <2>2, <2>3, <2>4, EdgeMonotone
<1> QED BY <1>1, <1>2, MachineTyped, RunInductive, PTL DEF Spec, Debounced

-----------------------------------------------------------------------------
(* Submenu spacing.                                                        *)

\* What is left of the menu refractory time and what has passed since the last
\* press make it up.
PressClock ==
  /\ sincePress \in 0..MenuRefractory
  /\ menuRefractoryLeft + sincePress >= MenuRefractory

\* A gap flag that is up in a menu stands for a gap that was heard, after the
\* last wake and after the last press.
GapClock ==
  /\ gapSince \subseteq Moment
  /\ state = "IVR_MENU" /\ gapSeen => gapSince = Moment

\* Every tick counts the menu refractory time down.
LEMMA TickMenuRefractory ==
  ASSUME NEW l \in Heard, NEW c \in BOOLEAN, NEW e \in Elapsed, Observe(l, c, e)
  PROVE  menuRefractoryLeft' = Left(menuRefractoryLeft, e)
  BY DEF Observe, GiveUp, ToMenu, ToHold, ToEvaluating, StandDown, WakeForSubmenu,
         KeepListening, ElapseMenu

\* A tick that ends in a menu entered it, woke Tier 2 for a submenu, or listened.
LEMMA TickInMenu ==
  ASSUME NEW l \in Heard, NEW c \in BOOLEAN, NEW e \in Elapsed, Observe(l, c, e),
         state' = "IVR_MENU"
  PROVE  \/ /\ state # "IVR_MENU"
            /\ streakLabel' = NoLabel
            /\ ~gapSeen'
         \/ WakeForSubmenu(l, StreakFor(l, c), e)
         \/ KeepListening(l, StreakFor(l, c), e)
  BY DEF Observe, GiveUp, ToMenu, MenuHeard, ToHold, ToEvaluating, StandDown,
         FallBackToHold, Enter

\* The two clocks start and keep what they claim.
LEMMA PressInductive == TypeOK /\ PressClock /\ [Next]_vars => PressClock'
<1> SUFFICES ASSUME TypeOK, PressClock, [Next]_vars PROVE PressClock'
  OBVIOUS
<1>1. ASSUME NEW l \in Heard, NEW c \in BOOLEAN, NEW e \in Elapsed, Listen(l, c, e)
      PROVE  PressClock'
  <2>1. /\ menuRefractoryLeft' = Left(menuRefractoryLeft, e)
        /\ sincePress' = Capped(sincePress + e, MenuRefractory)
    BY <1>1, TickMenuRefractory DEF Listen
  <2>2. e \in Nat /\ MenuRefractory \in Nat /\ menuRefractoryLeft \in 0..MenuRefractory
    BY ElapsedAssumption, CountsAssumption DEF TypeOK
  <2> QED BY <2>1, <2>2, Countdown DEF PressClock
<1>2. ASSUME NEW h \in BOOLEAN, Verdict(h) PROVE PressClock'
  BY <1>2 DEF Verdict, ProbeResult, PressClock
<1>3. CASE Press
  BY <1>3, CountsAssumption DEF Press, NoteMenuAction, RestartMenuRefractory, PressClock, TypeOK
<1>4. CASE Abstain \/ Finish
  BY <1>4 DEF Abstain, NoteMenuAbstained, Finish, Bridged, Completed, Failed, PressClock
<1>5. CASE UNCHANGED vars
  BY <1>5 DEF vars, fsmVars, observer, PressClock
<1> QED BY <1>1, <1>2, <1>3, <1>4, <1>5 DEF Next

\* The flag is raised only by a run of frames that was really heard.
LEMMA PromptEndHeard ==
  ASSUME TypeOK, RunHeard, state \in LiveStates, NEW l \in Label, NEW c \in BOOLEAN,
         held' = IF c THEN Extend(l) ELSE held, PromptEnded(l, StreakFor(l, c))
  PROVE  c /\ GapHeard
<1>1. MenuGapFrames \in Nat /\ MenuGapFrames >= 1
  BY FrameType DEF Frames
<1>2. StreakFor(l, c) >= MenuGapFrames /\ l \in HoldLabels
  BY DEF PromptEnded
<1>3. c
  BY <1>1, <1>2, StreakOf
<1>4. /\ held'.label = l
      /\ held'.frames >= StreakFor(l, c)
      /\ held'.frames \in 0..StreakCap
  BY <1>3, RunCovers
<1>5. StreakFor(l, c) \in Nat /\ held'.frames \in Nat
  BY <1>4, StreakType, StreakCapAssumption
<1>6. held'.frames >= MenuGapFrames
  BY <1>1, <1>2, <1>4, <1>5
<1> QED BY <1>2, <1>3, <1>4, <1>6 DEF GapHeard

LEMMA GapInductive == TypeOK /\ RunHeard /\ GapClock /\ [Next]_vars => GapClock'
<1> SUFFICES ASSUME TypeOK, RunHeard, GapClock, [Next]_vars PROVE GapClock'
  OBVIOUS
<1>1. ASSUME NEW l \in Heard, NEW c \in BOOLEAN, NEW e \in Elapsed, Listen(l, c, e)
      PROVE  GapClock'
  <2> DEFINE n == StreakFor(l, c)
  <2>1. Observe(l, c, e) /\ l \in Label
    BY <1>1, LabelsAssumption DEF Listen
  <2>2. /\ held' = IF c THEN Extend(l) ELSE held
        /\ gapSince' = (IF c /\ GapHeard THEN Moment ELSE gapSince)
                         \ (IF MenuWake THEN {"wake"} ELSE {})
    BY <1>1 DEF Listen
  <2>3. gapSince' \subseteq Moment
    BY <2>2 DEF GapClock
  <2> HIDE DEF n
  <2>4. CASE state' # "IVR_MENU" \/ ~gapSeen'
    BY <2>3, <2>4 DEF GapClock
  <2>5. CASE state' = "IVR_MENU" /\ WakeForSubmenu(l, n, e)
    BY <2>4, <2>5 DEF WakeForSubmenu
  <2>6. CASE state' = "IVR_MENU" /\ KeepListening(l, n, e)
    <3>1. /\ state = "IVR_MENU"
          /\ ~MenuWake
          /\ gapSeen' <=> gapSeen \/ PromptEnded(l, n)
      BY <2>6 DEF KeepListening, MenuWake, TypeOK
    <3>2. gapSeen => gapSince' = Moment
      BY <2>2, <3>1 DEF GapClock
    <3>3. PromptEnded(l, n) => gapSince' = Moment
      BY <2>1, <2>2, <3>1, PromptEndHeard DEF LiveStates, n
    <3> QED BY <2>3, <3>1, <3>2, <3>3 DEF GapClock
  <2> QED BY <2>1, <2>4, <2>5, <2>6, TickInMenu DEF n
<1>2. ASSUME NEW h \in BOOLEAN, Verdict(h) PROVE GapClock'
  BY <1>2 DEF Verdict, ProbeResult, FallBackToHold, Enter, GapClock
<1>3. CASE Press \/ Abstain
  BY <1>3 DEF Press, Abstain, NoteMenuAction, NoteMenuAbstained, GapClock
<1>4. CASE Finish
  BY <1>4 DEF Finish, Bridged, Completed, Failed, Enter, GapClock
<1>5. CASE UNCHANGED vars
  BY <1>5 DEF vars, fsmVars, observer, GapClock
<1> QED BY <1>1, <1>2, <1>3, <1>4, <1>5 DEF Next

(***************************************************************************)
(* Within one menu Tier 2 is woken again only by speech that resumed after *)
(* a gap, one that lasted past the last wake and the last digit, and only  *)
(* outside the refractory time of that digit (state.py:284-298), for every *)
(* setting of FsmConfig.                                                   *)
(***************************************************************************)
THEOREM Submenus == Spec => SubmenuSpacing
<1>1. Init => PressClock /\ GapClock /\ RunHeard
  <2> SUFFICES ASSUME Init PROVE PressClock /\ GapClock /\ RunHeard
    OBVIOUS
  <2>1. PressClock
    BY CountsAssumption DEF Init, FsmInit, PressClock
  <2>2. GapClock /\ RunHeard
    BY NothingType DEF Init, FsmInit, GapClock, RunHeard
  <2> QED BY <2>1, <2>2
<1>2. TypeOK /\ PressClock /\ GapClock /\ RunHeard /\ [Next]_vars =>
        [state = "IVR_MENU" /\ state' = "IVR_MENU" /\ op' = "observe" /\ MenuWake =>
           /\ held'.phase = "IVR_MENU" /\ held'.label \in SpeechyLabels /\ held'.frames >= 2
           /\ gapSince = Moment
           /\ sincePress' >= MenuRefractory]_vars
  <2> SUFFICES ASSUME TypeOK, PressClock, GapClock, RunHeard, Next,
                      state = "IVR_MENU", state' = "IVR_MENU", op' = "observe", MenuWake
               PROVE  /\ held'.phase = "IVR_MENU" /\ held'.label \in SpeechyLabels
                      /\ held'.frames >= 2
                      /\ gapSince = Moment
                      /\ sincePress' >= MenuRefractory
    OBVIOUS
  <2>1. PICK l \in Heard, c \in BOOLEAN, e \in Elapsed : Listen(l, c, e)
    BY DEF Next, Verdict, Press, Abstain, Finish
  <2>2. SubmenuHeard(l, StreakFor(l, c), e)
    BY <2>1, TickInMenu DEF Listen, WakeForSubmenu, KeepListening, MenuWake
  <2>3. e \in Nat /\ MenuRefractory \in Nat /\ menuRefractoryLeft \in 0..MenuRefractory
    BY ElapsedAssumption, CountsAssumption DEF TypeOK
  <2>4. menuRefractoryLeft <= e /\ sincePress' = Capped(sincePress + e, MenuRefractory)
    BY <2>1, <2>2 DEF SubmenuHeard, Listen
  <2>5. sincePress' >= MenuRefractory
    BY <2>3, <2>4, Countdown DEF PressClock
  <2>6. l \in SpeechyLabels /\ gapSeen /\ StreakFor(l, c) >= 2 /\ l \in Label
    BY <2>2, LabelsAssumption DEF SubmenuHeard
  <2>7. c /\ held' = Extend(l)
    BY <2>1, <2>6, StreakOf DEF Listen
  <2>8. /\ held'.label = l
        /\ held'.phase = "IVR_MENU"
        /\ held'.frames >= StreakFor(l, c)
        /\ held'.frames \in 0..StreakCap
    BY <2>6, <2>7, RunCovers DEF LiveStates
  <2>9. StreakFor(l, c) \in Nat /\ held'.frames \in Nat
    BY <2>6, <2>8, StreakType, StreakCapAssumption
  <2>10. held'.frames >= 2
    BY <2>6, <2>8, <2>9
  <2> QED BY <2>5, <2>6, <2>8, <2>10 DEF GapClock
<1> QED BY <1>1, <1>2, MachineTyped, PressInductive, RunInductive, GapInductive, PTL
        DEF Spec, SubmenuSpacing

\* The observer names one of the methods.
OpTyped == op \in Op

(***************************************************************************)
(* The machine and its observer stay well typed; with it, no counter of    *)
(* state.py leaves its range under any sequence of frames and calls.       *)
(***************************************************************************)
THEOREM TimelineTypeCorrect == Spec => []TimelineTypeOK
<1>1. Init => CooldownClock /\ PressClock /\ GapClock /\ RunHeard /\ OpTyped
  <2> SUFFICES ASSUME Init
               PROVE  CooldownClock /\ PressClock /\ GapClock /\ RunHeard /\ OpTyped
    OBVIOUS
  <2>1. CooldownClock /\ PressClock
    BY CountsAssumption DEF Init, FsmInit, CooldownClock, PressClock
  <2>2. GapClock
    BY DEF Init, FsmInit, GapClock
  <2>3. RunHeard /\ OpTyped
    BY NothingType DEF Init, FsmInit, RunHeard, OpTyped, Op
  <2> QED BY <2>1, <2>2, <2>3
<1>2. OpTyped /\ [Next]_vars => OpTyped'
  BY DEF OpTyped, Next, Listen, Verdict, Press, Abstain, Finish, vars, observer, Op
<1>3. TypeOK /\ CooldownClock /\ PressClock /\ GapClock /\ RunHeard /\ OpTyped
        => TimelineTypeOK
  BY DEF CooldownClock, PressClock, GapClock, RunHeard, OpTyped, TimelineTypeOK
<1> QED BY <1>1, <1>2, <1>3, MachineTyped, CooldownInductive, PressInductive,
           GapInductive, RunInductive, PTL DEF Spec
=============================================================================
