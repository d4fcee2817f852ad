CONSTANTS
  i1 = i1
  ann = ann
  bob = bob
  cal = cal
  f1 = f1
  f2 = f2
  Proposal = {p1, p2}
  Issue = {i1}
  Account = {ann, bob, cal}
  Fingerprint = {f1}
  SimId = {s1}
  SimData <- TwoData
  Decider = {m1}
  DecisionKey = {k1, k2}
  MaxTtl = 1
  Caller = {c1, c2}
  Reconciler = {r1}
  Limit = 1
  AbandonedAfter = 0
  LeaseDuration = 0
  MaxCrashes = 0
SPECIFICATION PairFairSpec
PROPERTY ExecutingIsLeft
CHECK_DEADLOCK FALSE
