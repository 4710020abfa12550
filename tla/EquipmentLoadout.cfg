SPECIFICATION FairSpec
CONSTANTS
    p1 = p1
    Players = {p1}
    OwnerOf <- MCOwnerOf
    SlotOf <- MCSlotOf
    Starters = {1}
    Controlled = {1}
    ArmorSlots <- MCArmor
    FamilyOf <- MCFamilyOf
    PlacedOn <- MCPlacedOn
    MaxEnchantLevel <- MCLevels
    ItemConflicts <- MCItemConflicts
    LoadoutConflicts <- MCLoadoutConflicts
    NativeSlots <- MCNative
    MaxSlots <- MCMax
    OrbLevel <- MCOrbLevel
    Appraisal <- MCAppraisal
    Cooldown = 2
    Sessions = {s1, s2}
    Reborn = {p1}
    NoItem = NoItem
    NoKey = NoKey
    NoRow = NoRow
    NoRequest = NoRequest
    Items = {1, 2, 3}
    SoulBindable = {2}
    Enchants = {"GUARDIAN", "NINELIFE"}
    Keys = {k1, k2}
    Requests <- LoadoutRequests
    Statuses = {"ACTIVE"}
    Wealth = 0
    MaxUpgrade = 0
    MaxTime = 0
INVARIANTS LoadoutMatches NoActiveConflict
PROPERTIES EveryTaskEnds
