---------------------------- MODULE CallTimeline ----------------------------
(***************************************************************************)
(* The call-phase machine next to an observer of its inputs.  The observer *)
(* keeps, from the frames and calls alone, what docs/design-decisions.md   *)
(* ("Hysteresis / debouncing") promises a transition rests on: how long a  *)
(* label has really held within a phase, how long ago the last probe       *)
(* failed and the last digit was pressed, and whether the line has paused  *)
(* since.  The machine's own counters and flag are checked against it.     *)
(***************************************************************************)
EXTENDS CallStateMachine

VARIABLES
  held,          \* [label, phase, frames]: the run of equal counted frames heard in a phase
  gapSince,      \* the moments the line has paused after: the last menu wake, the last press
  sinceFallback, \* intervals since the last retreat to hold after a probe, capped
  sincePress,    \* intervals since the last digit pressed in a menu, capped
  op             \* the method called last

observer == <<held, gapSince, sinceFallback, sincePress, op>>
vars == <<fsmVars, observer>>

Op == {"observe", "probe_result", "note_menu", "bridged", "completed", "failed"}
Nothing == [label |-> NoLabel, phase |-> "DIALING", frames |-> 0]
Moment == {"wake", "press"}

TimelineTypeOK ==
  /\ TypeOK
  /\ held \in [label : Label \union {NoLabel}, phase : CallState, frames : 0..StreakCap]
  /\ gapSince \subseteq Moment
  /\ sinceFallback \in 0..Refractory
  /\ sincePress \in 0..MenuRefractory
  /\ op \in Op

Init ==
  /\ FsmInit
  /\ held = Nothing
  /\ gapSince = {}
  /\ sinceFallback = Refractory
  /\ sincePress = MenuRefractory
  /\ op = "observe"

\* The run of equal labels heard in this phase, the current frame included.
Extend(l) ==
  IF held.label = l /\ held.phase = state
    THEN [held EXCEPT !.frames = Capped(@ + 1, StreakCap)]
    ELSE [label |-> l, phase |-> state, frames |-> 1]

Retreat == state = "EVALUATING_SPEECH" /\ state' = "ON_HOLD"
MenuWake == asked' = "WAKE_TIER2_MENU"

\* The line has been without speech for a whole gap, this frame included.
GapHeard == held'.label \in HoldLabels /\ held'.frames >= MenuGapFrames

Listen(l, confident, e) ==
  /\ Observe(l, confident, e)
  /\ op' = "observe"
  /\ held' = IF confident THEN Extend(l) ELSE held
  /\ gapSince' = (IF confident /\ GapHeard THEN Moment ELSE gapSince)
                   \ (IF MenuWake THEN {"wake"} ELSE {})
  /\ sinceFallback' = IF Retreat THEN 0 ELSE Capped(sinceFallback + e, Refractory)
  /\ sincePress' = Capped(sincePress + e, MenuRefractory)

\* A call between two frames: a phase it enters has heard nothing yet.
Unheard == held' = IF state' = state THEN held ELSE Nothing

Verdict(isHuman) ==
  /\ ProbeResult(isHuman)
  /\ op' = "probe_result"
  /\ Unheard
  /\ sinceFallback' = IF Retreat THEN 0 ELSE sinceFallback
  /\ UNCHANGED <<gapSince, sincePress>>

Press ==
  /\ NoteMenuAction
  /\ op' = "note_menu"
  /\ sincePress' = IF state = "IVR_MENU" THEN 0 ELSE sincePress
  /\ gapSince' = IF state = "IVR_MENU" THEN gapSince \ {"press"} ELSE gapSince
  /\ UNCHANGED <<held, sinceFallback>>

Abstain ==
  /\ NoteMenuAbstained
  /\ op' = "note_menu"
  /\ UNCHANGED <<held, gapSince, sinceFallback, sincePress>>

Finish ==
  /\ \/ Bridged /\ op' = "bridged"
     \/ Completed /\ op' = "completed"
     \/ Failed /\ op' = "failed"
  /\ Unheard
  /\ UNCHANGED <<gapSince, sinceFallback, sincePress>>

Next ==
  \/ \E l \in Heard, c \in BOOLEAN, e \in Elapsed : Listen(l, c, e)
  \/ \E h \in BOOLEAN : Verdict(h)
  \/ Press
  \/ Abstain
  \/ Finish

Spec == Init /\ [][Next]_vars

-----------------------------------------------------------------------------
(* Properties.                                                             *)

\* The documented edges a tick may take, each with what the phase must have
\* heard before it is taken: the label l, for so many frames (FsmConfig).
Edge(from, to, l, frames) ==
  \/ to = "FAILED" /\ l \in NonConnectLabels /\ frames >= NonConnectFrames
  \/ from = "DIALING" /\ to = "IVR_MENU" /\ l \in SpeechyLabels /\ frames >= EnterMenuFrames
  \/ from = "DIALING" /\ to = "ON_HOLD" /\ l = "HOLD_MUSIC" /\ frames >= DialingToHoldFrames
  \/ from = "IVR_MENU" /\ to = "ON_HOLD" /\ l \in HoldLabels /\ frames >= EnterHoldFrames
  \/ /\ from = "IVR_MENU" /\ to = "ON_HOLD"
     /\ l = "LIVE_SPEECH_CANDIDATE" /\ frames >= MenuSpeechToHoldFrames
  \/ from = "ON_HOLD" /\ to = "IVR_MENU" /\ l \in MenuLabels /\ frames >= ReenterMenuFrames
  \/ /\ from = "ON_HOLD" /\ to = "EVALUATING_SPEECH"
     /\ l = "LIVE_SPEECH_CANDIDATE" /\ frames >= EnterEvalFrames
  \/ /\ from = "EVALUATING_SPEECH" /\ to = "ON_HOLD"
     /\ l \in HoldLabels /\ frames >= LeaveEvalFrames

\* Debounce and hysteresis (state.py:134-147, design-decisions.md:331-336): a
\* tick changes the phase only along a documented edge, and only after the
\* label of that edge was heard for the edge's threshold of counted frames in
\* a row, all of them heard in the phase being left.
Debounced ==
  [][op' = "observe" /\ state' # state =>
       /\ held'.phase = state
       /\ Edge(state, state', held'.label, held'.frames)]_vars

\* Refractory period (state.py:149-153, design-decisions.md:340-343): after a
\* probe failed, or was given up, EVALUATING_SPEECH is not entered again before
\* the refractory period has gone by.
CooldownHolds ==
  [][state = "ON_HOLD" /\ state' = "EVALUATING_SPEECH" =>
       sinceFallback' >= Refractory]_vars

\* Submenu re-wake (m4-menu-nav.md:80-85, state.py:259-261): within a menu Tier 2
\* is woken again only by speech that has resumed after a gap, a gap that lasted
\* past the last wake and past the digit pressed last, and never inside the
\* refractory time of that digit.  Narration that goes on does not wake it.
SubmenuSpacing ==
  [][state = "IVR_MENU" /\ state' = "IVR_MENU" /\ op' = "observe" /\ MenuWake =>
       /\ held'.phase = "IVR_MENU" /\ held'.label \in SpeechyLabels /\ held'.frames >= 2
       /\ gapSince = Moment
       /\ sincePress' >= MenuRefractory]_vars
=============================================================================
