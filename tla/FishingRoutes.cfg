SPECIFICATION Spec
CONSTANTS
    Defs = {"SCHOOL", "QUALITY", "RARE", "TREASURE_BAIT", "STURDY", "ORE", "JUNK"}
    StackLimit <- MCStackLimit
    Initial <- MCInitial
    ItemBagSlots = 4
    CatchBagGrams = 5
    Keys = {k1}
    Places = {"STARTER_POOL", "DEEP_SEA"}
    RodRows <- AllRods
    Roots <- AllRoots
    Selections <- ManyBaits
    Levels = {100}
    MaxRebirths = 1
    Sessions = {s1}
    MaxBegun = 2
    None = None
CHECK_DEADLOCK FALSE
INVARIANTS AllOrNothing RodsAccountForWear TerminalAgrees
