SPECIFICATION FairSpec
CONSTANTS
    Docs = {1, 2}
    MaxEdits = 1
    Forgotten = {}
    MaxWrites = 1
    MaxStamp = 2
    MaxRequests = 1
CHECK_DEADLOCK FALSE
PROPERTIES EditIsKept ButtonsComeBack
