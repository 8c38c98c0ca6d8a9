CONSTANTS
  W1 = W1
  W2 = W2
  Workers = {W1}
  Sources = {1,2,3,4}
  SourceDay <- MCSourceDay
  MAX_BRIEFS = 1
  MAX_ATTEMPTS = 1
  MaxDay = 2
  MaxMemory = 7
  MaxChange = 0
SPECIFICATION Spec
CHECK_DEADLOCK FALSE
INVARIANT SentOnce
CONSTRAINT MCSmooth
