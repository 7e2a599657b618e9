SPECIFICATION FairSpec
CONSTANTS
    Users = {"amal", "basel"}
    Companies = {1, 2}
    Books = {7}
    Offices = {1, 2}
    Founding <- MCFounding
    Employed <- MCEmployed
    Owner <- MCOwner
    MaxVersion = 3
    MaxPosts = 1
CHECK_DEADLOCK FALSE
INVARIANTS TypeOK NothingRestored RequestsGoWhereShown OfficeOwnsBook
PROPERTIES CompaniesOfTheUser LoadingEnds
