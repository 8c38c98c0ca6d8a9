SPECIFICATION Spec
CONSTANTS
    Accounts = {1}
    Episodes = {1, 2}
    Subs = {1}
    Workers = {w1, w2}
    EpAccount <- EpisodesOfOne
    SubAccount <- SubsOfOne
    Deletable = {}
    Revocable = {}
    Closable = {}
    MAX_ATTEMPTS = 2
    MaxRevision = 1
    MaxClock = 3
    NoRow = NoRow
SYMMETRY WorkerSymmetry
INVARIANTS LaneSerializes
PROPERTIES NoOvertaking
CHECK_DEADLOCK FALSE
