-------------------------- MODULE CallStateMachine --------------------------
(***************************************************************************)
(* The call-phase machine of agent/state.py: one action per method of      *)
(* CallStateMachine, its attributes as variables.                          *)
(*                                                                         *)
(* Time is the audio clock, counted in classifier intervals.  A deadline   *)
(* the code keeps as an absolute time (_refractory_until) is kept here as  *)
(* the number of intervals left until it, which every observation counts   *)
(* down; "now >= deadline" is "nothing left".  A streak and the count of   *)
(* fruitless menu reads are only ever compared with thresholds, so they    *)
(* saturate at a cap no smaller than those thresholds.  _menu_woken is     *)
(* assigned but never read and is left out.                                *)
(***************************************************************************)
EXTENDS Naturals, Labels

CONSTANTS
  Heard,              \* the labels the configured classifier can emit
  Elapsed,            \* intervals the audio clock may advance between two ticks
  EnterMenuFrames,    \* DIALING -> IVR_MENU
  EnterHoldFrames,    \* IVR_MENU -> ON_HOLD
  DialingToHoldFrames,
  ReenterMenuFrames,  \* ON_HOLD -> IVR_MENU
  EnterEvalFrames,    \* ON_HOLD -> EVALUATING_SPEECH
  LeaveEvalFrames,    \* EVALUATING_SPEECH -> ON_HOLD
  NonConnectFrames,   \* any live state -> FAILED
  MenuRefractory,     \* menu_refractory_s, in intervals
  MenuGapFrames,
  MaxMenuPresses,
  MenuNoopsBeforeHold,
  MenuSpeechToHoldFrames,
  Refractory,         \* refractory_s, in intervals
  StreakCap,          \* bound of the model: where the streak saturates
  PressBound          \* bound of the model: keypresses explored per call

Frames == {EnterMenuFrames, EnterHoldFrames, DialingToHoldFrames,
           ReenterMenuFrames, EnterEvalFrames, LeaveEvalFrames,
           NonConnectFrames, MenuGapFrames, MenuSpeechToHoldFrames, 2}

ASSUME LabelsAssumption  == Heard \subseteq Label
ASSUME ElapsedAssumption == Elapsed \subseteq Nat \ {0}
ASSUME FramesAssumption  == Frames \subseteq Nat \ {0}
ASSUME StreakCapAssumption == StreakCap \in Nat /\ \A f \in Frames : f <= StreakCap
ASSUME CountsAssumption  == /\ MenuRefractory \in Nat
                            /\ Refractory \in Nat
                            /\ MaxMenuPresses \in Nat
                            /\ MenuNoopsBeforeHold \in Nat
                            /\ PressBound \in Nat

VARIABLES
  state,              \* the call phase
  streakLabel,        \* _streak_label
  streak,             \* _streak
  refractoryLeft,     \* intervals until _refractory_until
  menuRefractoryLeft, \* intervals until _menu_refractory_until
  gapSeen,            \* _menu_gap_seen
  presses,            \* _menu_presses
  noops,              \* _menu_noops
  asked               \* the Action the last call returned

fsmVars == <<state, streakLabel, streak, refractoryLeft, menuRefractoryLeft,
             gapSeen, presses, noops, asked>>

LiveStates == {"DIALING", "IVR_MENU", "ON_HOLD", "EVALUATING_SPEECH"}
CallState  == LiveStates \union {"HUMAN_DETECTED", "BRIDGING", "DONE", "FAILED"}
Action     == {"NONE", "WAKE_TIER2_MENU", "WAKE_TIER2_PROBE", "BRIDGE", "FAIL"}

TypeOK ==
  /\ state \in CallState
  /\ streakLabel \in Label \union {NoLabel}
  /\ streak \in 0..StreakCap
  /\ refractoryLeft \in 0..Refractory
  /\ menuRefractoryLeft \in 0..MenuRefractory
  /\ gapSeen \in BOOLEAN
  /\ presses \in 0..PressBound
  /\ noops \in 0..MenuNoopsBeforeHold
  /\ asked \in Action

Capped(n, cap) == IF n < cap THEN n ELSE cap
Left(t, e)     == IF t > e THEN t - e ELSE 0

FsmInit ==
  /\ state = "DIALING"
  /\ streakLabel = NoLabel
  /\ streak = 0
  /\ refractoryLeft = 0
  /\ menuRefractoryLeft = 0
  /\ gapSeen = FALSE
  /\ presses = 0
  /\ noops = 0
  /\ asked = "NONE"

-----------------------------------------------------------------------------
(* Streak and transition bookkeeping.                                      *)

\* The streak a tick hands to the handlers: 0 for a frame that does not count.
StreakFor(l, confident) ==
  IF ~confident THEN 0
  ELSE IF l = streakLabel THEN Capped(streak + 1, StreakCap) ELSE 1

\* Mutant: the streak is carried over into the new phase.
EnterKeepingStreak(s) ==
  /\ state' = s
  /\ UNCHANGED <<streakLabel, streak>>
  /\ gapSeen' = (gapSeen /\ s # "IVR_MENU")
  /\ noops' = IF s = "IVR_MENU" THEN 0 ELSE noops

\* _enter: a fresh state inherits no progress from the old one.
Enter(s) ==
  /\ state' = s
  /\ streakLabel' = NoLabel
  /\ streak' = 0
  /\ gapSeen' = (gapSeen /\ s # "IVR_MENU")
  /\ noops' = IF s = "IVR_MENU" THEN 0 ELSE noops

\* Mutant: a plain transition, without the refractory period.
FallBackAtOnce == UNCHANGED refractoryLeft /\ Enter("ON_HOLD")

\* _fall_back_to_hold, without the clock of the other deadline.
FallBackToHold ==
  /\ refractoryLeft' = Refractory
  /\ Enter("ON_HOLD")

\* The clock moved e intervals: both deadlines come nearer.
Elapse(e)     == refractoryLeft' = Left(refractoryLeft, e)
ElapseMenu(e) == menuRefractoryLeft' = Left(menuRefractoryLeft, e)

-----------------------------------------------------------------------------
(* What the handlers recognise: label l has held for n frames, e intervals *)
(* after the previous tick.                                                *)

GivesUp(l, n) ==
  /\ state \in LiveStates
  /\ l \in NonConnectLabels
  /\ n >= NonConnectFrames

MenuHeard(l, n) ==
  \/ state = "DIALING" /\ l \in SpeechyLabels /\ n >= EnterMenuFrames
  \/ state = "ON_HOLD" /\ l \in MenuLabels /\ n >= ReenterMenuFrames

QueueHeard(l, n) ==
  /\ l = "HOLD_MUSIC"
  /\ \/ state = "DIALING" /\ n >= DialingToHoldFrames
     \/ state = "IVR_MENU" /\ n >= EnterHoldFrames

\* The model read this "menu" a few times and found nothing to press.
NotNavigable(l, n, e) ==
  /\ state = "IVR_MENU"
  /\ noops >= MenuNoopsBeforeHold
  /\ menuRefractoryLeft <= e
  /\ \/ l \in HoldLabels /\ n >= EnterHoldFrames
     \/ l = "LIVE_SPEECH_CANDIDATE" /\ n >= MenuSpeechToHoldFrames

\* Mutant: any hold-like frame ends the prompt.
PromptEndedAtOnce(l, n) == state = "IVR_MENU" /\ l \in HoldLabels /\ n >= 1

PromptEnded(l, n) ==
  /\ state = "IVR_MENU"
  /\ l \in HoldLabels
  /\ n >= MenuGapFrames

\* Mutant: the press cap is not looked at.
SubmenuHeardUncapped(l, n, e) ==
  /\ state = "IVR_MENU"
  /\ l \in SpeechyLabels
  /\ gapSeen
  /\ menuRefractoryLeft <= e
  /\ n >= 2

SubmenuHeard(l, n, e) ==
  /\ state = "IVR_MENU"
  /\ l \in SpeechyLabels
  /\ gapSeen
  /\ menuRefractoryLeft <= e
  /\ n >= 2
  /\ presses < MaxMenuPresses

SpeechHeard(l, n, e) ==
  /\ state = "ON_HOLD"
  /\ l = "LIVE_SPEECH_CANDIDATE"
  /\ refractoryLeft <= e
  /\ n >= EnterEvalFrames

HoldResumed(l, n) ==
  /\ state = "EVALUATING_SPEECH"
  /\ l \in HoldLabels
  /\ n >= LeaveEvalFrames

-----------------------------------------------------------------------------
(* observe(label, confidence, now): one disjunct per way it can return.    *)

GiveUp(l, n, e) ==
  /\ GivesUp(l, n)
  /\ Enter("FAILED")
  /\ asked' = "FAIL"
  /\ Elapse(e) /\ ElapseMenu(e)
  /\ UNCHANGED presses

ToMenu(l, n, e) ==
  /\ MenuHeard(l, n)
  /\ Enter("IVR_MENU")
  /\ asked' = "WAKE_TIER2_MENU"
  /\ Elapse(e) /\ ElapseMenu(e)
  /\ UNCHANGED presses

ToHold(l, n, e) ==
  /\ QueueHeard(l, n) \/ NotNavigable(l, n, e)
  /\ Enter("ON_HOLD")
  /\ asked' = "NONE"
  /\ Elapse(e) /\ ElapseMenu(e)
  /\ UNCHANGED presses

ToEvaluating(l, n, e) ==
  /\ SpeechHeard(l, n, e)
  /\ Enter("EVALUATING_SPEECH")
  /\ asked' = "WAKE_TIER2_PROBE"
  /\ Elapse(e) /\ ElapseMenu(e)
  /\ UNCHANGED presses

StandDown(l, n, e) ==
  /\ HoldResumed(l, n)
  /\ FallBackToHold
  /\ asked' = "NONE"
  /\ ElapseMenu(e)
  /\ UNCHANGED presses

\* The streak moves only on a frame that counts.
Count(l, n) ==
  /\ streakLabel' = IF n = 0 THEN streakLabel ELSE l
  /\ streak' = IF n = 0 THEN streak ELSE n

WakeForSubmenu(l, n, e) ==
  /\ SubmenuHeard(l, n, e)
  /\ ~NotNavigable(l, n, e)
  /\ Count(l, n)
  /\ gapSeen' = FALSE
  /\ asked' = "WAKE_TIER2_MENU"
  /\ Elapse(e) /\ ElapseMenu(e)
  /\ UNCHANGED <<state, presses, noops>>

KeepListening(l, n, e) ==
  /\ ~(\/ GivesUp(l, n) \/ MenuHeard(l, n) \/ QueueHeard(l, n)
       \/ NotNavigable(l, n, e) \/ SubmenuHeard(l, n, e)
       \/ SpeechHeard(l, n, e) \/ HoldResumed(l, n))
  /\ Count(l, n)
  /\ gapSeen' = (gapSeen \/ PromptEnded(l, n))
  /\ asked' = "NONE"
  /\ Elapse(e) /\ ElapseMenu(e)
  /\ UNCHANGED <<state, presses, noops>>

Observe(l, confident, e) ==
  LET n == StreakFor(l, confident)
  IN  \/ GiveUp(l, n, e)
      \/ ToMenu(l, n, e)
      \/ ToHold(l, n, e)
      \/ ToEvaluating(l, n, e)
      \/ StandDown(l, n, e)
      \/ WakeForSubmenu(l, n, e)
      \/ KeepListening(l, n, e)

-----------------------------------------------------------------------------
(* External signals.                                                       *)

\* Mutant: a verdict counts in every phase.
ProbeResultAnyPhase(isHuman) ==
  /\ UNCHANGED <<menuRefractoryLeft, presses>>
  /\ \/ isHuman /\ Enter("HUMAN_DETECTED") /\ asked' = "BRIDGE" /\ UNCHANGED refractoryLeft
     \/ ~isHuman /\ FallBackToHold /\ asked' = "NONE"

\* probe_result: a verdict that arrives outside EVALUATING_SPEECH is ignored.
ProbeResult(isHuman) ==
  /\ UNCHANGED <<menuRefractoryLeft, presses>>
  /\ \/ /\ state = "EVALUATING_SPEECH"
        /\ isHuman
        /\ Enter("HUMAN_DETECTED")
        /\ asked' = "BRIDGE"
        /\ UNCHANGED refractoryLeft
     \/ /\ state = "EVALUATING_SPEECH"
        /\ ~isHuman
        /\ FallBackToHold
        /\ asked' = "NONE"
     \/ /\ state # "EVALUATING_SPEECH"
        /\ asked' = "NONE"
        /\ UNCHANGED <<state, streakLabel, streak, refractoryLeft, gapSeen, noops>>

\* Mutant: a second press extends the refractory time of the first.
ExtendMenuRefractory == menuRefractoryLeft' = menuRefractoryLeft + MenuRefractory

RestartMenuRefractory == menuRefractoryLeft' = MenuRefractory

\* Mutant: the gap heard before the press still counts.
NoteMenuActionKeepingGap ==
  /\ asked' = "NONE"
  /\ \/ /\ state = "IVR_MENU"
        /\ presses < PressBound
        /\ presses' = presses + 1
        /\ noops' = 0
        /\ RestartMenuRefractory
     \/ /\ state # "IVR_MENU"
        /\ UNCHANGED <<presses, noops, menuRefractoryLeft>>
  /\ UNCHANGED <<state, streakLabel, streak, refractoryLeft, gapSeen>>

NoteMenuAction ==
  /\ asked' = "NONE"
  /\ \/ /\ state = "IVR_MENU"
        /\ presses < PressBound
        /\ presses' = presses + 1
        /\ gapSeen' = FALSE
        /\ noops' = 0
        /\ RestartMenuRefractory
     \/ /\ state # "IVR_MENU"
        /\ UNCHANGED <<presses, gapSeen, noops, menuRefractoryLeft>>
  /\ UNCHANGED <<state, streakLabel, streak, refractoryLeft>>

NoteMenuAbstained ==
  /\ asked' = "NONE"
  /\ noops' = IF state = "IVR_MENU" THEN Capped(noops + 1, MenuNoopsBeforeHold)
                                    ELSE noops
  /\ UNCHANGED <<state, streakLabel, streak, refractoryLeft,
                 menuRefractoryLeft, gapSeen, presses>>

Bridged ==
  /\ state = "HUMAN_DETECTED"
  /\ Enter("BRIDGING")
  /\ asked' = "NONE"
  /\ UNCHANGED <<refractoryLeft, menuRefractoryLeft, presses>>

\* completed() assigns the state without _enter, and without a look at it.
Completed ==
  /\ state' = "DONE"
  /\ asked' = "NONE"
  /\ UNCHANGED <<streakLabel, streak, refractoryLeft, menuRefractoryLeft,
                 gapSeen, presses, noops>>

\* failed(): the manual override.
Failed ==
  /\ state' = "FAILED"
  /\ asked' = "NONE"
  /\ UNCHANGED <<streakLabel, streak, refractoryLeft, menuRefractoryLeft,
                 gapSeen, presses, noops>>

-----------------------------------------------------------------------------
FsmNext ==
  \/ \E l \in Heard, c \in BOOLEAN, e \in Elapsed : Observe(l, c, e)
  \/ \E h \in BOOLEAN : ProbeResult(h)
  \/ NoteMenuAction
  \/ NoteMenuAbstained
  \/ Bridged
  \/ Completed
  \/ Failed

FsmSpec == FsmInit /\ [][FsmNext]_fsmVars
=============================================================================
