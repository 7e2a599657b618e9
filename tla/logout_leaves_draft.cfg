SPECIFICATION Spec
CONSTANTS
    Docs = {1}
    MaxEdits = 1
    Forgotten = {}
    MaxWrites = 1
    MaxStamp = 1
    MaxRequests = 1
CHECK_DEADLOCK FALSE
INVARIANT NothingLeftBehind
