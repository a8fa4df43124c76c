\* The orders between the thresholds are those of FsmConfig's defaults; the
\* values are smaller.
SPECIFICATION Spec
CONSTANTS
  Heard <- MCHeard
  Elapsed <- MCElapsed
  EnterMenuFrames = 3
  EnterHoldFrames = 2
  DialingToHoldFrames = 4
  ReenterMenuFrames = 2
  EnterEvalFrames = 2
  LeaveEvalFrames = 3
  NonConnectFrames = 2
  MenuRefractory = 4
  MenuGapFrames = 3
  MaxMenuPresses = 2
  MenuNoopsBeforeHold = 2
  MenuSpeechToHoldFrames = 4
  Refractory = 4
  StreakCap = 4
  PressBound = 3
INVARIANT TimelineTypeOK
PROPERTIES Debounced CooldownHolds SubmenuSpacing
