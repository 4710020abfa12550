SPECIFICATION Spec
CONSTANTS
    MaxCatchupDays = 366
    ann = ann
    Persons = {ann}
    Keys = {k1, k2}
    Requests <- MCRequests
    Versions = {1, 2}
    Starts <- MCStarts
    FirstTerms = {1}
    PoolSize = 2
    OperatorStatuses = {"SOFT_FROZEN", "DELETED"}
    MaxDay = 2
    Sessions = {s1, s2}
    MaxBegun = 3
    None = None
SYMMETRY Alike
CHECK_DEADLOCK FALSE
INVARIANTS HistoryReconciles RewardsFollowLevels DaysPaidBefore OneLoadout
PROPERTIES RebirthFromCap AcceptedWasCurrent
