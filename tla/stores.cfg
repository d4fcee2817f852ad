CONSTANTS
  none = none
  ann = ann
  zed = zed
  away = away
  held = held
  secret = secret
  x = x
  y = y
  z = z
  b1 = b1
  b2 = b2
  Tx = {t1, t2}
  Payload <- OtherSubjects
  MaxSeq = 3
  Employee = {e1, e2}
  Capacity = {h1, h2}
  Issue = {i1}
  Build = {b1, b2}
  TaskState <- TaskStates
  Done <- DoneStatuses
  Unset = none
  MaxChanges = 2
  MaxWeek = 2
  Writer = {w1, w2}
  Tasks = {k1}
  Load = {l1, l2}
  MaxTime = 3
  Author = {ann, zed}
  Employees = {ann}
  Managers = {ann}
  Reviewers = {}
  Automation = {}
  Category = {away, held}
  Temporary = away
  Texts <- CommentTexts
  Callers = {n1, n2}
  LastTick = 3
  Day = 1
  Generator = {g1, g2}
  Content = {x1, x2, secret}
  Prohibited = {secret}
  MaxObjects = 3
  Factors <- ScoreFactors
  Rules <- ScoreRules
  MaxValue = 2
  CorrelationIds = {"id1", "id2"}
  Projects = {"p1", "p2"}
  Slots = {"r1", "r2"}
  CacheTicks = 1
  MaxLag = 1
  Clients = {"c1", "c2"}
  Allowed = 2
  WindowTicks = 2
  MaxWindows = 1
  ChatProjects = {"p", "q"}
  MaxChats = 3
  MaxRetries = 1
SYMMETRY Symmetric
SPECIFICATION SSpec
INVARIANTS
  ChainVerifies
  AcceptedIsComplete
  ChangesAreAudited
  HistoryExplainsChanges
  EvidenceIsFaithful
  SignalsAreTrue
  LinksMatchChecksum
  GapsAreWithinConfidence
  SimulationsAreSound
  AccessIsRecent
  RequestsAreLimited
  ChatIsUnderControl
PROPERTIES
  ScoreFollowsTheSituation
  ContextsMoveForward
CHECK_DEADLOCK FALSE
