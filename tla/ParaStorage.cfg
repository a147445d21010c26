SPECIFICATION Spec
CONSTANTS
  Callers = {c1, c2}
  ZeroSums <- MCZeroSums
  MaxChanges = 3
INVARIANTS
  AckedSurvives
  BackupAgrees
PROPERTY
  ImplementsAtomicStore
