SPECIFICATION FairSpec
CONSTANTS
    Jobs = {1, 2}
    Workers = {w1}
    Bodies = {b1}
    Unplannable = {}
    Answers = {"ok"}
    LocalFailures = {"vertex_daily_budget"}
    MaxMembers = 2
    Deletable = {1, 2}
    MAX_ATTEMPTS = 1
    RESURRECTION_TOTAL_ATTEMPT_CAP = 1
    MAX_MEDIA_PROVIDER_ATTEMPTS = 1
    MaxLosses = 1
    Nobody = Nobody
INVARIANTS ClaimIsWhole
PROPERTIES MediaSettles
CHECK_DEADLOCK FALSE
