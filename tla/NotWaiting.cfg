\* The bounds of CallMedia.cfg, one claim of bridge.py and fallback.py.
SPECIFICATION FairSpec
CONSTANTS
  MaxRedials = 2
  BridgeBound = 3
  SocketBound = 4
  PressBound = 1
CHECK_DEADLOCK FALSE
PROPERTY NotWaiting
