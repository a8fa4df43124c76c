\* Three threads, one of them looked at closely; the code's times in steps of two
\* seconds, in the code's order: the probe's timeout and the closing handshake
\* together last as long as the backstop, a menu's join ends before its handshake
\* need.
SPECIFICATION Tier2Spec
CONSTANTS
  Thread = {t1, t2, t3}
  Caller = t1
  Threshold = 2
  ResetTimeout = 2
  Pause = 1
  Listen = 2
  ProbeTimeout = 8
  MenuTimeout = 5
  JoinSlack = 2
  CloseTimeout = 5
  Backstop = 13
INVARIANTS Tier2TypeOK TypeOK ClosedIffHealthy AnswersAreReads OwnInbound
PROPERTIES FailsFast Recovers GuardedCallEnds
