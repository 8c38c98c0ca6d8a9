SPECIFICATION Spec
CONSTANTS
    Jobs = {1, 2}
    Workers = {w1, w2}
    Bodies = {b1, b2}
    Unplannable = {2}
    Answers = {"ok", "gap", "garbled", "rejected", "server_error"}
    LocalFailures = {"processing_error", "media_integrity", "vertex_daily_budget"}
    MaxMembers = 2
    Deletable = {1}
    MAX_ATTEMPTS = 2
    RESURRECTION_TOTAL_ATTEMPT_CAP = 3
    MAX_MEDIA_PROVIDER_ATTEMPTS = 2
    MaxLosses = 2
    Nobody = Nobody
INVARIANTS TypeOK PaidOnce NotBilledIsTrue ProjectedOnce SuccessIsMetered
CHECK_DEADLOCK FALSE
SYMMETRY Symmetry
