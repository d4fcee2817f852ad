CONSTANTS
  AlertEvent = {e1}
  UncertainEvent = {}
  Worker = {w1, w2}
  MaxAttempts = 1
  MaxReceives = 3
  MaxCopies = 1
  MaxFailures = 1
  MaxCrashes = 0
  AmbiguousSend = FALSE
SPECIFICATION NSpec
INVARIANT NothingVanishes
CHECK_DEADLOCK FALSE
