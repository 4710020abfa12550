----------------------------- MODULE EquipmentMC -----------------------------
(***************************************************************************)
(* Small instances of Equipment.  Slot families have one or two slots at   *)
(* creation instead of three or four, and the orbs' +N are scaled with     *)
(* them; item 1 is the starter chest, item 2 a chest and item 3 a helmet.  *)
(***************************************************************************)
EXTENDS Equipment, TLC

CONSTANTS p1

MCOwnerOf == [i \in Items |-> p1]
MCSlotOf == [i \in Items |-> IF i = 3 THEN "HELMET" ELSE "CHEST"]
MCArmor == {"CHEST", "HELMET"}

\* Guardian and Phoenix go on a chest, Nine Life anywhere; Thorn and Reinforce
\* exclude each other on one item; Master is of the special family.
MCFamilyOf == [e \in Enchants |-> IF e = "MASTER" THEN "SPECIAL" ELSE "NORMAL"]
MCPlacedOn == [e \in Enchants |-> IF e \in {"GUARDIAN", "PHOENIX"}
                                  THEN {"CHEST"} ELSE {"CHEST", "HELMET"}]
MCLevels == [e \in Enchants |-> 2]
MCItemConflicts == {pair \in SUBSET Enchants : pair = {"THORN", "REINFORCE"}}
MCLoadoutConflicts == {pair \in SUBSET (Enchants \cap {"GUARDIAN", "NINELIFE", "PHOENIX"}) :
                          Cardinality(pair) = 2}
MCNative == [f \in {"NORMAL", "SPECIAL"} |-> 1]
MCMax == [f \in {"NORMAL", "SPECIAL"} |-> IF f = "NORMAL" THEN 3 ELSE 2]
MCOrbLevel == [f \in {"NORMAL", "SPECIAL"} |-> [n \in 2 .. 3 |-> IF f = "NORMAL" THEN n - 1 ELSE 2]]

\* Rises with +N and with every embedded level; 20 percent of it is not whole.
MCAppraisal(i, n, enchants) ==
    10 + 5 * n + 4 * Cardinality({e \in Enchants : enchants[e] > 0})

Plain(kind, i) == [kind |-> kind, item |-> i]
Book(i, e, n) == [kind |-> "APPLY", item |-> i, enchant |-> e, to |-> n]
Take(i, e, n) == [kind |-> "REMOVE", item |-> i, enchant |-> e, from |-> n]
Orb(i, f, n) == [kind |-> "ORB", item |-> i, family |-> f, to |-> n]
Step(i, n, m) == [kind |-> "UPGRADE", item |-> i, from |-> n, to |-> m]

LoadoutRequests ==
    {Plain("EQUIP", 2), Plain("EQUIP", 3), Plain("UNEQUIP", 3),
     Book(2, "GUARDIAN", 1), Book(3, "NINELIFE", 1), Take(3, "NINELIFE", 1)}

ItemRequests ==
    {Plain("BIND", 2), Plain("UNBIND", 2), Book(2, "THORN", 1), Book(2, "REINFORCE", 1),
     Book(2, "PROTECTION", 1), Take(2, "THORN", 1), Orb(2, "NORMAL", 2), Orb(2, "NORMAL", 3),
     Step(2, 0, 1), Step(2, 1, 2), Step(2, 2, 1)}

Symmetry == Permutations(Sessions)
=============================================================================
