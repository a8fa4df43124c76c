\* _MAX_REDIALS as in the code and a bridge for each attempt; a socket more, for
\* the reconnect after one keypress.
SPECIFICATION FairSpec
CONSTANTS
  MaxRedials = 2
  BridgeBound = 3
  SocketBound = 4
  PressBound = 1
INVARIANTS MediaTypeOK OneOpenBridge RedialBudget OneFallback
PROPERTIES ReconnectResolves NoCallAfterReason AbandonedByKeypress PromiseSpec
CHECK_DEADLOCK FALSE
