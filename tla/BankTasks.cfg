SPECIFICATION FairSpec
CONSTANTS
    p1 = p1
    Players = {p1}
    Keys = {k1}
    Sessions = {s1, s2}
    NoSession = NoSession
    NoKey = NoKey
    OperatorStatuses = {"HARD_FROZEN", "DELETED"}
    Requests <- MCRequests
    Growth <- MCGrowth
    InitialWallet = 60000
    MaxMoney = 1000000
    DayLength = 1
    Q32One = 1
    MaxCatchupDays = 366
    MaxTime = 1
INVARIANTS TypeOK
PROPERTIES ImplementsSerial EveryTaskEnds
