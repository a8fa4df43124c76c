\* The bounds of MCAgentSession.cfg, one claim of state.py.
SPECIFICATION FairSpec
CONSTANTS
  Heard <- MCHeard
  Elapsed <- MCElapsed
  EnterMenuFrames = 2
  EnterHoldFrames = 2
  DialingToHoldFrames = 3
  ReenterMenuFrames = 2
  EnterEvalFrames = 1
  LeaveEvalFrames = 2
  NonConnectFrames = 2
  MenuRefractory = 3
  MenuGapFrames = 2
  MaxMenuPresses = 1
  MenuNoopsBeforeHold = 1
  MenuSpeechToHoldFrames = 3
  Refractory = 3
  StreakCap = 3
  PressBound = 3
  MenuCollect = 2
  Tier2Error = {"Tier2Unavailable", "CircuitOpenError", "NotImplementedError", "Exception"}
  MenuEntryBound = 2
PROPERTY StaleVerdictIgnored
