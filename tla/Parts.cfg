SPECIFICATION FairSpec
CONSTANTS
    DayLength = 1
    Q32One = 2
    MaxCatchupDays = 1
    Times = {0, 1, 7, 30}
    Principals = {1, 400, 501}
    Amounts = {400, 500, 902}
    Priors = {0, 99500, 999500, 9999500}
    Surpluses = {0, 999500, 9999500, 99999500}
    MaxLots = 3
    UnitTime = 2
    MaxUnits = 9
    MaxFuel = 6
    MaxNow = 12
    NoJob = NoJob
    MaxTried = 400
    Players = {1, 2, 3}
    BatchSize = 2
    MaxBatches = 2
    LastDay = 2
CHECK_DEADLOCK FALSE
INVARIANTS WithdrawalExact AllocationExact EndBalances WorkIsCounted ActivityLevelExact UpgradeCostExact RepairInPieces
PROPERTIES EverybodyCaughtUp
