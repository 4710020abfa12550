SPECIFICATION Spec
CONSTANTS
    MaxCatchupDays = 366
    ann = ann
    Persons = {ann}
    Keys = {k1}
    Requests <- MCTerms
    Versions = {1, 2, 3}
    Starts <- MCStarts
    FirstTerms = {1}
    PoolSize = 2
    OperatorStatuses = {"SOFT_FROZEN"}
    MaxDay = 1
    Sessions = {s1, s2}
    MaxBegun = 2
    None = None
CHECK_DEADLOCK FALSE
PROPERTIES TermsNeverBack
