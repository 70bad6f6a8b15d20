CONSTANTS
  Keys = {k1, k2}
  MaxTime = 3
  MaxSets = 4
SPECIFICATION Spec
INVARIANTS TypeOK AnswersAsOf
PROPERTY PastImmutable
