SPECIFICATION FairSpec
CONSTANTS
    Accounts = {1}
    Episodes = {1}
    Subs = {1}
    Workers = {w1}
    EpAccount <- EpisodesOfOne
    SubAccount <- SubsOfOne
    Deletable = {1}
    Revocable = {1}
    Closable = {1}
    MAX_ATTEMPTS = 2
    MaxRevision = 1
    MaxClock = 2
    NoRow = NoRow
PROPERTIES LaneReleased RowSettles AccountDrains
CHECK_DEADLOCK FALSE
