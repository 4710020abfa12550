SPECIFICATION Spec
CONSTANTS
    Defs = {"SCHOOL", "QUALITY", "RARE", "TREASURE_BAIT", "STURDY", "ORE", "JUNK"}
    StackLimit <- MCStackLimit
    Initial <- MCInitial
    ItemBagSlots = 4
    CatchBagGrams = 5
    Keys = {k1, k2}
    Places = {"STARTER_POOL", "RIVER"}
    RodRows <- TwoRods
    Roots <- FewRoots
    Selections <- SchoolOrNone
    Levels = {10}
    MaxRebirths = 0
    Sessions = {s1, s2}
    MaxBegun = 3
    None = None
CHECK_DEADLOCK FALSE
SYMMETRY Symmetry
INVARIANTS BaitsBalance UnlocksStand
PROPERTIES ImplementsSerial
