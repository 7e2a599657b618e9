SPECIFICATION FairSpec
CONSTANTS
    Tabs = {t1, t2}
    Limits = {1, 2}
    MaxToken = 2
    MaxLogouts = 1
CHECK_DEADLOCK FALSE
INVARIANTS TypeOK TimersFollowUser
PROPERTIES EndedOnlyWhenIdle SessionEnds
