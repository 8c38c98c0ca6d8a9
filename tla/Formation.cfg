CONSTANTS
  W1 = W1
  W2 = W2
  None = None
  Workers <- MCWorkers
  Evidence <- MCEvidence
  PageSize = 1
  MaxFaults = 1
  MaxDeletions = 1
SPECIFICATION Spec
SYMMETRY MCSymmetry
INVARIANTS
  TypeOK
  PaidOnce
  OneOwner
  NothingLost
  CompleteIsCurrent
CONSTRAINT MCBusy
CHECK_DEADLOCK FALSE
