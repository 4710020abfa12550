SPECIFICATION FairSpec
CONSTANTS
    MaxCatchupDays = 366
    ann = ann
    Persons = {ann}
    Keys = {k1}
    Requests <- MCWaits
    Versions = {1, 2, 3}
    Starts <- MCCapped
    FirstTerms = {1}
    PoolSize = 2
    OperatorStatuses = {"SOFT_FROZEN"}
    MaxDay = 1
    Sessions = {s1, s2, s3}
    MaxBegun = 3
    None = None
CHECK_DEADLOCK FALSE
PROPERTIES EveryRequestEnds
