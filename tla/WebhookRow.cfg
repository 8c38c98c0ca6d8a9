SPECIFICATION Spec
CONSTANTS
    Accounts = {1}
    Episodes = {1}
    Subs = {1}
    Workers = {w1, w2}
    EpAccount <- EpisodesOfOne
    SubAccount <- SubsOfOne
    Deletable = {1}
    Revocable = {1}
    Closable = {1}
    MAX_ATTEMPTS = 2
    MaxRevision = 2
    MaxClock = 2
    NoRow = NoRow
SYMMETRY WorkerSymmetry
INVARIANTS TypeOK AtMostOnce HonestOutcome RevocationDrains
PROPERTIES SettledIsFinal ImplementsContract
CHECK_DEADLOCK FALSE
