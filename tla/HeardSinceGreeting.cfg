SPECIFICATION Tier2Spec
CONSTANTS
  Thread = {t1, t2, t3}
  Caller = t1
  Threshold = 2
  ResetTimeout = 2
  Pause = 1
  Listen = 2
  ProbeTimeout = 8
  MenuTimeout = 5
  JoinSlack = 2
  CloseTimeout = 5
  Backstop = 13
INVARIANT HeardSinceGreeting
