SPECIFICATION Spec
CONSTANTS
    Handlers = {h1}
    Reconcilers = {r1}
    Channels = {c1}
    Calls = {v1}
    Clients = {a1}
    Requests = {q1, q2}
    Rejoinable = TRUE
    SoftDelete = TRUE
SYMMETRY Symmetry
INVARIANTS TypeOK DrainedBeforeErasure NothingLeftBehind
CHECK_DEADLOCK FALSE
