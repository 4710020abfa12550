SPECIFICATION Spec
CONSTANTS
    p1 = p1
    Players = {p1}
    Keys = {k1, k2, k3}
    Sessions = {s1, s2}
    NoSession = NoSession
    NoKey = NoKey
    OperatorStatuses = {"ACTIVE", "HARD_FROZEN"}
    Requests <- MCSpanning
    Growth <- MCGrowth
    InitialWallet = 60000
    MaxMoney = 60000
    DayLength = 1
    Q32One = 1
    MaxCatchupDays = 1
    MaxTime = 2
SYMMETRY Symmetry
INVARIANTS RepliesAgree LotsReconcile LedgerReconciles InterestBehindCursor
PROPERTIES FifoDebit
