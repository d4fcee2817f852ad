CONSTANTS
  AlertEvent = {}
  UncertainEvent = {u1}
  Worker = {w1}
  MaxAttempts = 1
  MaxReceives = 3
  MaxCopies = 1
  MaxFailures = 0
  MaxCrashes = 0
  AmbiguousSend = FALSE
SPECIFICATION NFairSpec
PROPERTY UncertainIsEmailed
CHECK_DEADLOCK FALSE
