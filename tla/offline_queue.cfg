SPECIFICATION FairSpec
CONSTANTS
    Tabs = {a}
    Companies = {1, 2}
    Runs = {1, 2}
    Unnamed = {}
    MaxChanges = 2
INVARIANTS TypeOK SyncedIsMade MadeOnce InItsCompany
PROPERTIES RunsEnd
