SPECIFICATION FairSpec
CONSTANTS
    Handlers = {h1}
    Reconcilers = {r1}
    Channels = {c1}
    Calls = {}
    Clients = {}
    Requests = {q1}
    Rejoinable = FALSE
    SoftDelete = TRUE
PROPERTIES DeletionCompletes
CHECK_DEADLOCK FALSE
