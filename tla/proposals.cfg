CONSTANTS
  i1 = i1
  a = a
  b = b
  f1 = f1
  Proposal = {p1, p2}
  Issue = {i1}
  Account = {a, b}
  Fingerprint = {f1, f2}
  SimId = {s1}
  SimData <- Data
  Decider = {m1, m2}
  DecisionKey = {k1, k2}
  MaxTtl = 1
SYMMETRY Symmetric
SPECIFICATION PSpec
INVARIANTS
  OneDecision
  DecisionExplainsState
  VersionIdentifiesState
