SPECIFICATION Spec
CONSTANTS
    p1 = p1
    Players = {p1}
    OwnerOf <- MCOwnerOf
    SlotOf <- MCSlotOf
    Starters = {1}
    Controlled = {1}
    ArmorSlots <- MCArmor
    FamilyOf <- MCFamilyOf
    PlacedOn <- MCPlacedOn
    MaxEnchantLevel <- MCLevels
    ItemConflicts <- MCItemConflicts
    LoadoutConflicts <- MCLoadoutConflicts
    NativeSlots <- MCNative
    MaxSlots <- MCMax
    OrbLevel <- MCOrbLevel
    Appraisal <- MCAppraisal
    Cooldown = 2
    Sessions = {s1, s2}
    Reborn = {p1}
    NoItem = NoItem
    NoKey = NoKey
    NoRow = NoRow
    NoRequest = NoRequest
    Items = {1, 2}
    SoulBindable = {2}
    Enchants = {"THORN", "REINFORCE", "PROTECTION"}
    Keys = {k1}
    Requests <- ItemRequests
    Statuses = {"ACTIVE", "FROZEN"}
    Wealth = 6
    MaxUpgrade = 2
    MaxTime = 2
SYMMETRY Symmetry
INVARIANTS AlwaysSound
PROPERTIES CooldownHolds UnbindPaysCurrent
