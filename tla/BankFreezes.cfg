SPECIFICATION FreezeSpec
CONSTANTS
    p1 = p1
    Players = {p1}
    Keys = {k1}
    Sessions = {s1}
    NoSession = NoSession
    NoKey = NoKey
    OperatorStatuses = {"ACTIVE", "HARD_FROZEN"}
    Requests <- MCDeposits
    Growth <- MCGrowth
    InitialWallet = 60000
    MaxMoney = 1000000
    DayLength = 1
    Q32One = 1
    MaxCatchupDays = 366
    MaxTime = 3
SYMMETRY Symmetry
INVARIANTS
    HardFreezePauses
