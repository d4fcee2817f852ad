CONSTANTS
  i1 = i1
  ann = ann
  bob = bob
  cal = cal
  f1 = f1
  f2 = f2
  Proposal = {p1}
  Issue = {i1}
  Account = {ann, bob, cal}
  Fingerprint = {f1}
  SimId = {s1}
  SimData <- OneData
  Decider = {m1}
  DecisionKey = {k1}
  MaxTtl = 1
  Caller = {c1}
  Reconciler = {r1, r2}
  Limit = 1
  AbandonedAfter = 1
  LeaseDuration = 1
  MaxCrashes = 1
SPECIFICATION FairSpec
PROPERTY ExecutingIsLeft
