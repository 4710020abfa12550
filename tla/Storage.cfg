SPECIFICATION FairSpec
CONSTANTS
    Defs = {"coal", "ore"}
    StackLimit <- MCLimit
    Initial <- MCInitial
    ItemBagSlots = 3
    CatchBagGrams = 4
    Ops = {"full", "cast", "claim", "smelt", "gift"}
    Plans <- MCPlans
    Sessions = {s1, s2}
    MaxBegun = 3
CHECK_DEADLOCK FALSE
INVARIANTS WithinCapacity StacksBalance EventsAccountForItems
PROPERTIES NoOvertaking EveryTransactionEnds
