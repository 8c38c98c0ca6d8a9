CONSTANTS
  W1 = W1
  W2 = W2
  None = None
  Workers <- MCWorkers
  Evidence <- MCEvidence
  PageSize = 1
  MaxFaults = 1
  MaxDeletions = 0
SPECIFICATION FairSpec
PROPERTIES
  FormationCompletes
CHECK_DEADLOCK FALSE
