CONSTANTS
  f1 = f1
  f2 = f2
  Employee = {e1}
  Evidence <- SomeEvidence
  Manager = {m1, m2}
  Cooldown = 1
  MaxDay = 1
  MaxVersion = 3
SYMMETRY Symmetric
SPECIFICATION ASpec
INVARIANTS
  ETagIdentifiesAlert
  RecurrenceIsRecorded
  EscalationIsAnnounced
PROPERTIES
  TransitionsAreLegal
CHECK_DEADLOCK FALSE
