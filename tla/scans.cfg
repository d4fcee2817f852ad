CONSTANTS
  f1 = f1
  f2 = f2
  Employee = {"ann", "bob"}
  employee_ids <- TwoEmployees
  Evidence <- SomeEvidence
  Manager = {}
  Cooldown = 0
  MaxDay = 2
  MaxVersion = 20
  Request = {r1, r2}
  Window = {w1, w2}
  MaxDeaths = 1
  AlertEvent = {alert}
  UncertainEvent = {notice}
  Worker = {k1, k2}
  MaxAttempts = 3
  MaxReceives = 2
  MaxCopies = 2
  MaxFailures = 1
  MaxCrashes = 1
  AmbiguousSend = TRUE
SPECIFICATION BothSpec
INVARIANTS
  WindowScannedOnce
  CompletedIsCovered
  DuplicatesSendOnce
  StatesAreTrue
PROPERTIES
  ScanFinishes
  AlertIsEmailed
CHECK_DEADLOCK FALSE
