CONSTANTS
  Employees = {"ann", "bob", "dee"}
  EmployeeOrder <- Order
  TopTasks = 1
  Snapshots <- ProjectStates
  Questions <- AskedQuestions
  Plans <- ModelPlans
  Wirings <- WiringsUsed
  MaxPlanAttempts = 2
  MaxInvocations = 2
  FailureThreshold = 3
  Configuration <- Adapters
  Served <- ServedRequests
  Replies <- ModelReplies
  MaxCalls = 2
  Issues = {"i1", "i2"}
  Contents <- IssueContents
  MaxResults = 1
  MaxReadAttempts = 2
  CircuitThreshold = 2
  ResetTicks = 2
  MaxDay = 1
  SoonDays = 1
SPECIFICATION ServicesSpec
INVARIANTS
  AnswersAddressTheQuestion
  LimitsAreKept
  AnswersAreSound
  TimeoutsAreContained
  ReadersAgree
PROPERTIES
  RequestsEnd
  ReadsRecover
CHECK_DEADLOCK FALSE
