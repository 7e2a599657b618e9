SPECIFICATION Spec
CONSTANTS
    Docs = {1, 2}
    MaxEdits = 2
    Forgotten = {}
    MaxWrites = 1
    MaxStamp = 2
    MaxRequests = 1
CHECK_DEADLOCK FALSE
INVARIANTS TypeOK DraftFollowsForm CleanMeansSaved SavedOnce
