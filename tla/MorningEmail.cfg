CONSTANTS
  W1 = W1
  W2 = W2
  Workers <- MCWorkers
  Sources = {1, 2, 3}
  SourceDay <- MCSourceDay
  MAX_BRIEFS = 2
  MAX_ATTEMPTS = 2
  MaxDay = 2
  MaxMemory = 4
  MaxChange = 1
SPECIFICATION Spec
SYMMETRY MCSymmetry
INVARIANTS
  TypeOK
  ConsentInFlight
  InFlightIsOrganized
  CoverageIsTrue
  ReceiptIsTrue
  DeletedStaysOut
PROPERTIES
  ImplementsContract
CONSTRAINT MCThird
CHECK_DEADLOCK FALSE
