--------------------------- MODULE EquipmentRules ---------------------------
(***************************************************************************)
(* One piece of equipment and what may be done to it: embedded enchants,   *)
(* enchant slots, +N level and SoulBind.  Source: crates/graphite-services *)
(* (enchant_apply, slot_orb, upgrade_state_writer, soulbind) and           *)
(* crates/graphite-items.                                                  *)
(*                                                                         *)
(* The catalogs are constants: which body slot an item goes in, where an   *)
(* enchant may be placed, which enchants conflict.  A conflict is a set of *)
(* two enchants.  An item row holds what the code keeps in item_instances  *)
(* and in its three child tables; enchants[e] is 0 where the row of e is   *)
(* absent.                                                                 *)
(***************************************************************************)
EXTENDS Integers, FiniteSets

CONSTANTS Items,            \* item ids, in the order of their UUIDs
          SlotOf,           \* the body slot the item's definition names
          Starters,         \* items issued at registration
          SoulBindable,     \* items of a tier that SoulBind accepts
          Controlled,       \* items marked Favorite or Protected
          ArmorSlots,       \* the slots of the armor loadout
          Enchants,
          FamilyOf,         \* the slot family an enchant occupies
          PlacedOn,         \* the body slots an enchant may be placed on
          MaxEnchantLevel,
          ItemConflicts,    \* pairs excluded on one item
          LoadoutConflicts, \* pairs excluded on the worn armor as well
          NativeSlots,      \* enchant slots of a family at creation
          MaxSlots,         \* and with every Slot Orb applied
          OrbLevel,         \* OrbLevel[f][n]: the +N that unlocks slot n
          MaxUpgrade,       \* bound: the highest +N
          Cooldown,         \* clock ticks in the seven days before a rebind
          Appraisal(_, _, _) \* value of item, +N, enchants

Families == DOMAIN NativeSlots

ASSUME ItemsAssumption == Items \subseteq Nat /\ Starters \subseteq Items
ASSUME EnchantsAssumption == IsFiniteSet(Enchants)
ASSUME ConflictsAssumption ==
    \A pair \in ItemConflicts \cup LoadoutConflicts :
        pair \subseteq Enchants /\ Cardinality(pair) = 2
ASSUME SlotsAssumption ==
    /\ NativeSlots \in [Families -> Nat]
    /\ MaxSlots \in [Families -> Nat]
    /\ \A f \in Families : NativeSlots[f] <= MaxSlots[f]
    /\ FamilyOf \in [Enchants -> Families]
ASSUME CooldownAssumption == Cooldown \in Nat \ {0}

Locations == {"TOOL_LOCKER", "EQUIPPED"}

ItemRow == [location : Locations,
            level    : Nat,
            capacity : [Families -> Nat],
            enchants : [Enchants -> Nat],
            soul     : {"NEVER_BOUND", "BOUND", "UNBOUND"},
            until    : Nat]

NewItem(i) ==
    [location |-> IF i \in Starters THEN "EQUIPPED" ELSE "TOOL_LOCKER",
     level |-> 0, capacity |-> NativeSlots, enchants |-> [e \in Enchants |-> 0],
     soul |-> "NEVER_BOUND", until |-> 0]

Embedded(row) == {e \in Enchants : row.enchants[e] > 0}
Occupancy(row, f) == Cardinality({e \in Embedded(row) : FamilyOf[e] = f})
Clear(conflicts, S) == \A pair \in conflicts : ~ pair \subseteq S

---------------------------------------------------------------------------
(* Enchants.                                                               *)

\* validate_existing_state, with the range check of the slot capacities.
Sound(i, row) ==
    /\ \A f \in Families : row.capacity[f] \in NativeSlots[f] .. MaxSlots[f]
    /\ \A f \in Families : Occupancy(row, f) <= row.capacity[f]
    /\ \A e \in Embedded(row) : /\ row.enchants[e] <= MaxEnchantLevel[e]
                                /\ SlotOf[i] \in PlacedOn[e]
    /\ Clear(ItemConflicts \cup LoadoutConflicts, Embedded(row))

\* Mistaken: the slots the item has unlocked are not counted.
CanEnchantUncounted(i, row, e, n) ==
    /\ i \notin Starters
    /\ n \in 1 .. MaxEnchantLevel[e]
    /\ SlotOf[i] \in PlacedOn[e]
    /\ Sound(i, row)
    /\ Clear(ItemConflicts \cup LoadoutConflicts, Embedded(row) \cup {e})
    /\ n > row.enchants[e]

\* preview_standard_finished_book_application: a book replaces the same enchant
\* at a lower level, or takes a free slot of its family.
CanEnchant(i, row, e, n) ==
    /\ i \notin Starters
    /\ n \in 1 .. MaxEnchantLevel[e]
    /\ SlotOf[i] \in PlacedOn[e]
    /\ Sound(i, row)
    /\ Clear(ItemConflicts \cup LoadoutConflicts, Embedded(row) \cup {e})
    /\ IF e \in Embedded(row)
       THEN n > row.enchants[e]
       ELSE Occupancy(row, FamilyOf[e]) < row.capacity[FamilyOf[e]]

Enchanted(row, e, n) == [row EXCEPT !.enchants[e] = n]

\* The caller names the level it saw.
CanStrip(row, e, n) == n > 0 /\ row.enchants[e] = n

Stripped(row, e) == [row EXCEPT !.enchants[e] = 0]

---------------------------------------------------------------------------
(* Slot Orbs and +N.                                                       *)

\* An orb unlocks exactly the next slot of its family.
CanUnlock(i, row, f, n) ==
    /\ i \notin Starters
    /\ Sound(i, row)
    /\ row.capacity[f] = n - 1
    /\ row.level >= OrbLevel[f][n]

Unlocked(row, f, n) == [row EXCEPT !.capacity[f] = n]

\* A resolved outcome moves the level by one from the level it was resolved at.
CanMoveLevel(i, row, from, to) ==
    /\ i \notin Starters
    /\ row.level = from
    /\ to \in {from - 1, from + 1} \cap (0 .. MaxUpgrade)

Moved(row, to) == [row EXCEPT !.level = to]

---------------------------------------------------------------------------
(* SoulBind.                                                               *)

\* Mistaken: whatever was unbound may be bound again.
CanBindAtOnce(i, row, time) ==
    /\ i \in SoulBindable
    /\ row.soul \in {"NEVER_BOUND", "UNBOUND"}

\* The cooldown is over at the instant it names.
CanBind(i, row, time) ==
    /\ i \in SoulBindable
    /\ \/ row.soul = "NEVER_BOUND"
       \/ row.soul = "UNBOUND" /\ row.until <= time

Bound(row) == [row EXCEPT !.soul = "BOUND", !.until = 0]

CeilPercent(amount, percent) == (amount * percent + 99) \div 100

\* The price of an unbind, 20 percent of the enhanced appraisal.
UnbindFee(i, row) == CeilPercent(Appraisal(i, row.level, row.enchants), 20)

CanUnbind(i, row) ==
    i \in SoulBindable /\ row.soul = "BOUND" /\ i \notin Controlled

Unbound(row, time) == [row EXCEPT !.soul = "UNBOUND", !.until = time + Cooldown]
=============================================================================
