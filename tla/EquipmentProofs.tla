---------------------------- MODULE EquipmentProofs ----------------------------
(***************************************************************************)
(* Proofs about Equipment.  A row lock has one session, and what a session *)
(* has read of a row it has locked is still the row: so the item a handler *)
(* decides on is the item it writes, and the armor it compares has at most *)
(* lost enchants since.                                                    *)
(***************************************************************************)
EXTENDS Equipment, FiniteSetTheorems, WellFoundedInduction, TLAPS

Held(s) == task[s].held
Request(s) == task[s].request

\* Two sessions share no lock but one on enchant rows.
Exclusive ==
    \A s \in Sessions, t \in Sessions :
        s # t => \A lock \in Held(s) \cap Held(t) : lock[1] = "enchants"

\* What a session has locked is of its request, and in the handler's order.
InOrder(s) ==
    /\ ~ Open(s) => Held(s) = {}
    /\ Open(s) => /\ Request(s) \in Requests
                  /\ Request(s).kind \in Keyed => task[s].key \in Keys
    /\ \A p \in Players : <<"player", p>> \in Held(s) => p = Owner(Request(s))
    /\ Request(s).kind \in PlayerLocked =>
           \A i \in Items : <<"enchants", i>> \in Held(s) =>
                                <<"player", Owner(Request(s))>> \in Held(s)
    /\ <<"enchants", Request(s).item>> \in Held(s) => <<"item", Request(s).item>> \in Held(s)

\* Two rows agree but for the enchants.
SameBody(a, b) ==
    /\ a.location = b.location /\ a.level = b.level /\ a.capacity = b.capacity
    /\ a.soul = b.soul /\ a.until = b.until

\* What a session has read is what is there; enchants of other items may have gone.
Current(s) ==
    /\ \A p \in Players : <<"player", p>> \in Held(s) => PlayerRow(s) = players[p]
    /\ <<"item", Request(s).item>> \in Held(s) => SameBody(Target(s), items[Request(s).item])
    /\ <<"enchants", Request(s).item>> \in Held(s) =>
           Target(s).enchants = items[Request(s).item].enchants
    /\ \A i \in Items :
           <<"enchants", i>> \in Held(s) /\ <<"player", OwnerOf[i]>> \in Held(s) =>
               Embedded(items[i]) \subseteq Embedded(task[s].view.rows[i])

LocksOK == Exclusive /\ \A s \in Sessions : InOrder(s) /\ Current(s)

IInv == TypeOK /\ LocksOK /\ LoadoutMatches /\ NoActiveConflict /\ AlwaysSound

---------------------------------------------------------------------------
(* The locks a request asks for.                                           *)

\* What is in a slot, and what is worn, are items.
LEMMA WornItems ==
    ASSUME slots \in [Players -> [BodySlots -> Items \cup {NoItem}]]
    PROVE  /\ \A p \in Players : Worn(p) \subseteq Items
           /\ \A i \in Items : InSlot([item |-> i]) \in Items \cup {NoItem}
           /\ \A r \in Requests : /\ InSlot(r) \in Items \cup {NoItem}
                                  /\ Displaced(r) \subseteq Items
                                  /\ Prospective(r) \subseteq Items
                                  /\ FirstItems(r) \subseteq Items
                                  /\ ReadItems(r) \subseteq Items
                                  /\ LastItems(r) \subseteq Items
<1>1. \A i \in Items : OwnerOf[i] \in Players /\ SlotOf[i] \in BodySlots
  BY OwnersAssumption DEF BodySlots
<1>2. \A p \in Players : Worn(p) \subseteq Items
  BY DEF Worn, BodySlots
<1>3. \A r \in Requests : r.item \in Items
  BY RequestsAssumption
<1>4. \A r \in Requests : InSlot(r) \in Items \cup {NoItem} /\ Worn(Owner(r)) \subseteq Items
  BY <1>1, <1>2, <1>3 DEF InSlot, Owner
<1>5. \A i \in Items : InSlot([item |-> i]) \in Items \cup {NoItem}
  BY <1>1 DEF InSlot, Owner
<1>6. \A r \in Requests : Displaced(r) \subseteq Items /\ Prospective(r) \subseteq Items
  BY <1>3, <1>4 DEF Displaced, Prospective
<1> QED BY <1>2, <1>3, <1>4, <1>5, <1>6 DEF FirstItems, ReadItems, LastItems

\* A session with nothing left to lock has every lock of its five stages.
LEMMA AllHeld ==
    ASSUME NEW s \in Sessions, Pending(s) = {}
    PROVE  LET r == Request(s)
           IN  /\ r.kind \in Keyed => <<"operation", task[s].key>> \in Held(s)
               /\ r.kind \in PlayerLocked => <<"player", Owner(r)>> \in Held(s)
               /\ \A i \in FirstItems(r) \cup LastItems(r) : <<"item", i>> \in Held(s)
               /\ \A i \in ReadItems(r) : <<"enchants", i>> \in Held(s)
<1> DEFINE r == Request(s)
           stages == Stages(r, task[s].key)
<1>1. \A n \in 1 .. 5 : stages[n] \subseteq Held(s)
  BY DEF Pending, Stages, Held, Request
<1>2. /\ stages[1] = IF r.kind \in Keyed THEN {<<"operation", task[s].key>>} ELSE {}
      /\ stages[2] = IF r.kind \in PlayerLocked THEN {<<"player", Owner(r)>>} ELSE {}
      /\ stages[3] = ItemLocks(FirstItems(r))
      /\ stages[4] = EnchantLocks(ReadItems(r))
      /\ stages[5] = ItemLocks(LastItems(r))
  BY DEF Stages
<1> HIDE DEF stages, r
<1>3. /\ stages[1] \subseteq Held(s) /\ stages[2] \subseteq Held(s) /\ stages[3] \subseteq Held(s)
      /\ stages[4] \subseteq Held(s) /\ stages[5] \subseteq Held(s)
  BY <1>1
<1> QED BY <1>2, <1>3 DEF ItemLocks, EnchantLocks, r

\* The lock a session asks for next is one of its stages, and those before are held.
LEMMA NextLock ==
    ASSUME NEW s \in Sessions, NEW lock, Asks(s, lock)
    PROVE  LET r == Request(s)
           IN  /\ lock \notin Held(s)
               /\ \/ lock = <<"operation", task[s].key>> /\ r.kind \in Keyed
                  \/ lock = <<"player", Owner(r)>> /\ r.kind \in PlayerLocked
                  \/ \E i \in FirstItems(r) \cup LastItems(r) : lock = <<"item", i>>
                  \/ \E i \in ReadItems(r) :
                         /\ lock = <<"enchants", i>>
                         /\ r.kind \in PlayerLocked => <<"player", Owner(r)>> \in Held(s)
                         /\ \A j \in FirstItems(r) : <<"item", j>> \in Held(s)
<1> DEFINE r == Request(s)
           stages == Stages(r, task[s].key)
<1>1. PICK n \in Pending(s) : /\ \A m \in Pending(s) : n <= m
                              /\ lock \in stages[n] \ Held(s)
  BY DEF Asks, Held, Request
<1>2. n \in 1 .. 5 /\ \A m \in 1 .. 5 : m < n => stages[m] \subseteq Held(s)
  BY <1>1 DEF Pending, Stages, Held, Request
<1>3. /\ stages[1] = IF r.kind \in Keyed THEN {<<"operation", task[s].key>>} ELSE {}
      /\ stages[2] = IF r.kind \in PlayerLocked THEN {<<"player", Owner(r)>>} ELSE {}
      /\ stages[3] = ItemLocks(FirstItems(r))
      /\ stages[4] = EnchantLocks(ReadItems(r))
      /\ stages[5] = ItemLocks(LastItems(r))
  BY DEF Stages
<1> HIDE DEF stages, r
<1>4. CASE n = 1
  BY <1>1, <1>3, <1>4 DEF r
<1>5. CASE n = 2
  BY <1>1, <1>3, <1>5 DEF r
<1>6. CASE n = 3
  BY <1>1, <1>3, <1>6 DEF r, ItemLocks
<1>7. CASE n = 4
  <2>1. stages[2] \subseteq Held(s) /\ stages[3] \subseteq Held(s)
    BY <1>2, <1>7
  <2> QED BY <1>1, <1>3, <1>7, <2>1 DEF r, ItemLocks, EnchantLocks
<1>8. CASE n = 5
  BY <1>1, <1>3, <1>8 DEF r, ItemLocks
<1> QED BY <1>2, <1>4, <1>5, <1>6, <1>7, <1>8
---------------------------------------------------------------------------
(* What a session reads.                                                   *)

View == [rows : [Items -> ItemRow], account : Account]

\* A row is its fields.
LEMMA RowIsItsFields ==
    ASSUME NEW a \in ItemRow, NEW b \in ItemRow, SameBody(a, b), a.enchants = b.enchants
    PROVE  a = b
BY DEF ItemRow, SameBody

\* The row a statement reads replaces that row in view and nothing else.
LEMMA SeenRow ==
    ASSUME items \in [Items -> ItemRow], players \in [Players -> Account],
           NEW view \in View, NEW lock
    PROVE  /\ \A k : lock = <<"operation", k>> => Seen(view, lock) = view
           /\ \A p \in Players : lock = <<"player", p>> =>
                  Seen(view, lock) = [rows |-> view.rows, account |-> players[p]]
           /\ \A i \in Items : lock = <<"item", i>> =>
                  /\ Seen(view, lock) \in View
                  /\ Seen(view, lock).account = view.account
                  /\ \A j \in Items \ {i} : Seen(view, lock).rows[j] = view.rows[j]
                  /\ SameBody(Seen(view, lock).rows[i], items[i])
                  /\ Seen(view, lock).rows[i].enchants = view.rows[i].enchants
           /\ \A i \in Items : lock = <<"enchants", i>> =>
                  /\ Seen(view, lock) \in View
                  /\ Seen(view, lock).account = view.account
                  /\ \A j \in Items \ {i} : Seen(view, lock).rows[j] = view.rows[j]
                  /\ SameBody(Seen(view, lock).rows[i], view.rows[i])
                  /\ Seen(view, lock).rows[i].enchants = items[i].enchants
<1>1. ASSUME NEW k, lock = <<"operation", k>> PROVE Seen(view, lock) = view
  BY <1>1 DEF Seen
<1>2. ASSUME NEW p \in Players, lock = <<"player", p>>
      PROVE  Seen(view, lock) = [rows |-> view.rows, account |-> players[p]]
  BY <1>2 DEF Seen, View
<1>3. ASSUME NEW i \in Items, lock = <<"item", i>>
      PROVE  /\ Seen(view, lock) \in View
             /\ Seen(view, lock).account = view.account
             /\ \A j \in Items \ {i} : Seen(view, lock).rows[j] = view.rows[j]
             /\ SameBody(Seen(view, lock).rows[i], items[i])
             /\ Seen(view, lock).rows[i].enchants = view.rows[i].enchants
  <2> DEFINE new == [items[i] EXCEPT !.enchants = view.rows[i].enchants]
  <2>1. new \in ItemRow /\ SameBody(new, items[i]) /\ new.enchants = view.rows[i].enchants
    <3>1. items[i] \in ItemRow /\ view.rows[i] \in ItemRow
      BY DEF View
    <3> QED BY <3>1 DEF ItemRow, SameBody
  <2>2. Seen(view, lock) = [view EXCEPT !.rows[i] = new]
    BY <1>3 DEF Seen
  <2> HIDE DEF new
  <2> QED BY <2>1, <2>2 DEF View
<1>4. ASSUME NEW i \in Items, lock = <<"enchants", i>>
      PROVE  /\ Seen(view, lock) \in View
             /\ Seen(view, lock).account = view.account
             /\ \A j \in Items \ {i} : Seen(view, lock).rows[j] = view.rows[j]
             /\ SameBody(Seen(view, lock).rows[i], view.rows[i])
             /\ Seen(view, lock).rows[i].enchants = items[i].enchants
  <2> DEFINE new == [view.rows[i] EXCEPT !.enchants = items[i].enchants]
  <2>1. new \in ItemRow /\ SameBody(new, view.rows[i]) /\ new.enchants = items[i].enchants
    <3>1. items[i] \in ItemRow /\ view.rows[i] \in ItemRow
      BY DEF View
    <3> QED BY <3>1 DEF ItemRow, SameBody
  <2>2. Seen(view, lock) = [view EXCEPT !.rows[i] = new]
    BY <1>4 DEF Seen
  <2> HIDE DEF new
  <2> QED BY <2>1, <2>2 DEF View
<1> QED BY <1>1, <1>2, <1>3, <1>4

\* An item row that is read, without its enchants.
LEMMA SeenItem ==
    ASSUME items \in [Items -> ItemRow], players \in [Players -> Account],
           NEW view \in View, NEW i \in Items
    PROVE  LET seen == Seen(view, <<"item", i>>)
           IN  /\ seen.account = view.account
               /\ \A j \in Items \ {i} : seen.rows[j] = view.rows[j]
               /\ SameBody(seen.rows[i], items[i])
               /\ seen.rows[i].enchants = view.rows[i].enchants
BY SeenRow

\* The enchant rows of an item that are read.
LEMMA SeenEnchants ==
    ASSUME items \in [Items -> ItemRow], players \in [Players -> Account],
           NEW view \in View, NEW i \in Items
    PROVE  LET seen == Seen(view, <<"enchants", i>>)
           IN  /\ seen.account = view.account
               /\ \A j \in Items \ {i} : seen.rows[j] = view.rows[j]
               /\ SameBody(seen.rows[i], view.rows[i])
               /\ seen.rows[i].enchants = items[i].enchants
BY SeenRow

\* A handler that locks the item and its enchants decides on the row itself.
LEMMA ReadsTrue ==
    ASSUME IInv, NEW s \in Sessions, Open(s), Pending(s) = {}
    PROVE  LET r == Request(s)
           IN  /\ r \in Requests /\ r.item \in Items /\ Owner(r) \in Players
               /\ SlotOf[r.item] \in BodySlots
               /\ <<"item", r.item>> \in Held(s)
               /\ r.kind \in PlayerLocked => /\ <<"player", Owner(r)>> \in Held(s)
                                             /\ PlayerRow(s) = players[Owner(r)]
               /\ Target(s).location = items[r.item].location
               /\ r.kind \notin {"EQUIP", "UNEQUIP"} => Target(s) = items[r.item]
<1> DEFINE r == Request(s)
<1>1. r \in Requests /\ InOrder(s) /\ Current(s) /\ TypeOK
  BY DEF IInv, LocksOK, InOrder
<1>2. r.item \in Items /\ Owner(r) \in Players /\ SlotOf[r.item] \in BodySlots
  BY <1>1, RequestsAssumption, OwnersAssumption DEF Owner, BodySlots
<1>3. r.item \in FirstItems(r)
  BY DEF FirstItems
<1>4. <<"item", r.item>> \in Held(s) /\ (r.kind \in PlayerLocked => <<"player", Owner(r)>> \in Held(s))
  BY <1>3, AllHeld
<1>5. SameBody(Target(s), items[r.item])
  BY <1>1, <1>4 DEF Current
<1>6. r.kind \in PlayerLocked => PlayerRow(s) = players[Owner(r)]
  BY <1>1, <1>2, <1>4 DEF Current
<1>7. ASSUME r.kind \notin {"EQUIP", "UNEQUIP"} PROVE Target(s) = items[r.item]
  <2>1. r.item \in ReadItems(r)
    BY <1>3, <1>7 DEF ReadItems
  <2>2. Target(s).enchants = items[r.item].enchants
    BY <1>1, <2>1, AllHeld DEF Current
  <2>3. Target(s) \in ItemRow /\ items[r.item] \in ItemRow
    BY <1>1, <1>2 DEF TypeOK, Target, Request
  <2> QED BY <1>5, <2>2, <2>3, RowIsItsFields
<1> QED BY <1>1, <1>2, <1>4, <1>5, <1>6, <1>7 DEF SameBody

---------------------------------------------------------------------------
(* Steps that open a transaction, lock a row or end one.                   *)

\* The first loadouts and rows satisfy the invariant.
LEMMA InitHolds == Init => IInv
<1> SUFFICES ASSUME Init PROVE IInv
  OBVIOUS
<1>1. \A i \in Items : NewItem(i) \in ItemRow
  BY SlotsAssumption DEF NewItem, ItemRow, Locations
<1>2. TypeOK
  <2>1. items \in [Items -> ItemRow]
    BY <1>1 DEF Init
  <2>2. slots \in [Players -> [BodySlots -> Items \cup {NoItem}]]
    BY ItemsAssumption DEF Init
  <2>3. players \in [Players -> Account]
    BY StatusesAssumption, WealthAssumption DEF Init, Account
  <2>4. operations \in [Keys -> Requests \cup {NoRow}] /\ now \in Nat
    BY DEF Init
  <2>5. NoView \in View
    BY <1>1, StatusesAssumption DEF NoView, View, Account
  <2>6. task = [s \in Sessions |-> IdleTask]
    BY DEF Init
  <2> QED BY <2>1, <2>2, <2>3, <2>4, <2>5, <2>6 DEF TypeOK, IdleTask, NewTask, View
<1>3. LocksOK
  <2>1. \A s \in Sessions : Held(s) = {} /\ ~ Open(s)
    BY DEF Init, IdleTask, NewTask, Held, Open
  <2> QED BY <2>1 DEF LocksOK, Exclusive, InOrder, Current
<1>4. \A i \in Items : Embedded(items[i]) = {}
  BY DEF Init, NewItem, Embedded
<1>5. LoadoutMatches
  <2>1. ASSUME NEW p \in Players, NEW k \in BodySlots
        PROVE  \/ /\ slots[p][k] \in Starters
                  /\ OwnerOf[slots[p][k]] = p /\ SlotOf[slots[p][k]] = k
               \/ /\ slots[p][k] = NoItem
                  /\ ~ \E i \in Starters : OwnerOf[i] = p /\ SlotOf[i] = k
    BY DEF Init
  <2>2. \A i \in Items : OwnerOf[i] \in Players /\ SlotOf[i] \in BodySlots
    BY OwnersAssumption DEF BodySlots
  <2>3. ASSUME NEW i \in Items
        PROVE  (items[i].location = "EQUIPPED") <=> slots[OwnerOf[i]][SlotOf[i]] = i
    <3>1. (items[i].location = "EQUIPPED") <=> i \in Starters
      BY DEF Init, NewItem
    <3>2. i \in Starters => slots[OwnerOf[i]][SlotOf[i]] = i
      BY <2>1, <2>2, StartersAssumption, ItemsAssumption
    <3>3. slots[OwnerOf[i]][SlotOf[i]] = i => i \in Starters
      BY <2>1, <2>2, NoItemAssumption
    <3> QED BY <3>1, <3>2, <3>3
  <2> QED BY <2>1, <2>3 DEF LoadoutMatches
<1>6. ASSUME NEW pair \in ItemConflicts \cup LoadoutConflicts PROVE pair # {}
  BY <1>6, ConflictsAssumption, FS_EmptySet
<1>7. NoActiveConflict
  <2>1. \A p \in Players : Worn(p) \subseteq Items
    BY <1>2, WornItems DEF TypeOK
  <2>2. \A p \in Players : UNION {Embedded(items[i]) : i \in Worn(p)} = {}
    BY <1>4, <2>1
  <2> QED BY <1>6, <2>2 DEF NoActiveConflict, Clear
<1>8. AlwaysSound
  <2>1. ASSUME NEW i \in Items PROVE Sound(i, items[i])
    <3>1. items[i].capacity = NativeSlots
      BY DEF Init, NewItem
    <3>2. \A f \in Families : Occupancy(items[i], f) = 0
      BY <1>4, FS_EmptySet DEF Occupancy
    <3>3. Clear(ItemConflicts \cup LoadoutConflicts, Embedded(items[i]))
      BY <1>4, <1>6 DEF Clear
    <3>4. \A f \in Families : /\ NativeSlots[f] \in NativeSlots[f] .. MaxSlots[f]
                              /\ 0 <= NativeSlots[f]
      BY SlotsAssumption
    <3> QED BY <1>4, <3>1, <3>2, <3>3, <3>4 DEF Sound
  <2> QED BY <2>1 DEF AlwaysSound
<1> QED BY <1>2, <1>3, <1>5, <1>7, <1>8 DEF IInv

\* Nothing of the loadout depends on the transactions under way.
LEMMA SameLoadout ==
    ASSUME IInv, items' = items, slots' = slots
    PROVE  LoadoutMatches' /\ NoActiveConflict' /\ AlwaysSound'
<1>1. \A p \in Players : Worn(p)' = Worn(p)
  BY DEF Worn
<1> QED BY <1>1 DEF IInv, LoadoutMatches, NoActiveConflict, AlwaysSound

\* A transaction that begins holds nothing and has read nothing.
LEMMA BeginKeeps ==
    ASSUME IInv, NEW s \in Sessions, Begin(s)
    PROVE  IInv'
<1>1. PICK r \in Requests : \E k \in IF r.kind \in Keyed THEN Keys ELSE {NoKey} :
          task' = [task EXCEPT ![s] = NewTask("OPEN", r, k)]
  BY DEF Begin
<1>2. PICK k \in IF r.kind \in Keyed THEN Keys ELSE {NoKey} :
          task' = [task EXCEPT ![s] = NewTask("OPEN", r, k)]
  BY <1>1
<1> DEFINE new == [phase |-> "OPEN", request |-> r, key |-> k, held |-> {}, view |-> NoView]
<1>3. task' = [task EXCEPT ![s] = new]
  BY <1>2 DEF NewTask
<1>4. TypeOK
  BY DEF IInv
<1>5. NoView \in View
  <2>1. \A i \in Items : NewItem(i) \in ItemRow
    BY SlotsAssumption DEF NewItem, ItemRow, Locations
  <2> QED BY <2>1, StatusesAssumption DEF NoView, View, Account
<1>6. TypeOK'
  BY <1>3, <1>4, <1>5 DEF TypeOK, Begin, View
<1>7. LocksOK'
  <2>1. task'[s] = new /\ \A t \in Sessions \ {s} : task'[t] = task[t]
    BY <1>3, <1>4 DEF TypeOK
  <2>2. Exclusive'
    BY <2>1 DEF IInv, LocksOK, Exclusive, Held
  <2>3. /\ Held(s)' = {} /\ Request(s)' = r /\ task'[s].key = k /\ Open(s)'
        /\ r.kind \in Keyed => k \in Keys
    BY <2>1 DEF Held, Open, Request
  <2>4. ASSUME NEW t \in Sessions \ {s} PROVE InOrder(t)' /\ Current(t)'
    <3>1. task'[t] = task[t] /\ InOrder(t) /\ Current(t) /\ items' = items /\ players' = players
      BY <2>1 DEF IInv, LocksOK, Begin
    <3>2. InOrder(t)'
      BY <3>1 DEF InOrder, Held, Open, Request, Owner
    <3>3. Current(t)'
      BY <3>1 DEF Current, Held, Request, Target, PlayerRow
    <3> QED BY <3>2, <3>3
  <2>5. InOrder(s)' /\ Current(s)'
    BY <2>3 DEF InOrder, Current
  <2> QED BY <2>2, <2>4, <2>5 DEF LocksOK
<1>8. LoadoutMatches' /\ NoActiveConflict' /\ AlwaysSound'
  BY SameLoadout DEF Begin
<1> QED BY <1>6, <1>7, <1>8 DEF IInv

\* A session that ends lets its locks go; the rows it wrote were its own.
LEMMA Ends ==
    ASSUME IInv, NEW s \in Sessions, Open(s), End(s),
           items' \in [Items -> ItemRow],
           slots' \in [Players -> [BodySlots -> Items \cup {NoItem}]],
           players' \in [Players -> Account],
           operations' \in [Keys -> Requests \cup {NoRow}], now' \in Nat,
           \A i \in Items : items'[i] # items[i] =>
               /\ <<"item", i>> \in Held(s)
               /\ \/ Embedded(items'[i]) \subseteq Embedded(items[i])
                  \/ <<"player", OwnerOf[i]>> \in Held(s),
           \A p \in Players : players'[p] # players[p] => <<"player", p>> \in Held(s)
    PROVE  TypeOK' /\ LocksOK'
<1>1. TypeOK
  BY DEF IInv
<1>2. task'[s] = IdleTask /\ \A t \in Sessions \ {s} : task'[t] = task[t]
  BY <1>1 DEF TypeOK, End
<1>3. TypeOK'
  <2>1. NoView \in View
    <3>1. \A i \in Items : NewItem(i) \in ItemRow
      BY SlotsAssumption DEF NewItem, ItemRow, Locations
    <3> QED BY <3>1, StatusesAssumption DEF NoView, View, Account
  <2> QED BY <1>1, <2>1 DEF TypeOK, End, IdleTask, NewTask, View
<1>4. InOrder(s)' /\ Current(s)'
  BY <1>2 DEF InOrder, Current, Held, Open, Request, IdleTask, NewTask
<1>5. Exclusive'
  BY <1>2 DEF IInv, LocksOK, Exclusive, Held, IdleTask, NewTask
<1>6. ASSUME NEW t \in Sessions \ {s} PROVE InOrder(t)' /\ Current(t)'
  <2>1. /\ InOrder(t) /\ Current(t) /\ task'[t] = task[t]
        /\ \A lock \in Held(s) \cap Held(t) : lock[1] = "enchants"
    BY <1>2 DEF IInv, LocksOK, Exclusive
  <2>2. InOrder(t)'
    BY <2>1 DEF InOrder, Held, Open, Request, Owner
  <2>0. /\ \A k : <<"player", k>> \in Held(t) => <<"player", k>> \notin Held(s)
        /\ \A k : <<"item", k>> \in Held(t) => <<"item", k>> \notin Held(s)
    BY <2>1
  <2>3. ASSUME NEW p \in Players, <<"player", p>> \in Held(t)
        PROVE  players'[p] = players[p]
    BY <2>0, <2>3
  <2>4. ASSUME NEW i \in Items, <<"item", i>> \in Held(t)
        PROVE  items'[i] = items[i]
    BY <2>0, <2>4
  <2>5. ASSUME NEW i \in Items, <<"player", OwnerOf[i]>> \in Held(t)
        PROVE  Embedded(items'[i]) \subseteq Embedded(items[i])
    <3>1. CASE items'[i] = items[i]
      BY <3>1
    <3>2. CASE items'[i] # items[i]
      BY <2>0, <2>5, <3>2
    <3> QED BY <3>1, <3>2
  <2>6. <<"item", Request(t).item>> \in Held(t) => Request(t).item \in Items
    BY <2>1, RequestsAssumption DEF InOrder
  <2>7. Current(t)'
    <3>1. \A p \in Players : <<"player", p>> \in Held(t) => PlayerRow(t) = players'[p]
      BY <2>1, <2>3 DEF Current
    <3>2. <<"item", Request(t).item>> \in Held(t) =>
              SameBody(Target(t), items'[Request(t).item])
      BY <2>1, <2>4, <2>6 DEF Current
    <3>3. <<"enchants", Request(t).item>> \in Held(t) =>
              Target(t).enchants = items'[Request(t).item].enchants
      BY <2>1, <2>4, <2>6 DEF Current, InOrder
    <3>4. \A i \in Items :
              <<"enchants", i>> \in Held(t) /\ <<"player", OwnerOf[i]>> \in Held(t) =>
                  Embedded(items'[i]) \subseteq Embedded(task[t].view.rows[i])
      BY <2>1, <2>5 DEF Current
    <3> QED BY <2>1, <3>1, <3>2, <3>3, <3>4
            DEF Current, Held, Request, PlayerRow, Target, SameBody, Embedded
  <2> QED BY <2>2, <2>7
<1> QED BY <1>3, <1>4, <1>5, <1>6 DEF LocksOK

\* The row a lock is asked on, by kind.
LockOf(r, k, lock) ==
    \/ lock = <<"operation", k>> /\ k \in Keys
    \/ lock = <<"player", Owner(r)>>
    \/ \E i \in Items : lock = <<"item", i>> \/ lock = <<"enchants", i>>

\* A row that is granted is free until then, and what is read of it is what is there.
LEMMA LockKeeps ==
    ASSUME IInv, NEW s \in Sessions, Lock(s)
    PROVE  IInv'
<1> DEFINE r == Request(s)
<1>1. PICK lock : /\ Asks(s, lock) /\ Free(s, lock)
                  /\ task' = [task EXCEPT ![s].held = @ \cup {lock},
                                          ![s].view = Seen(@, lock)]
  BY DEF Lock
<1>2. TypeOK /\ InOrder(s) /\ Current(s) /\ Open(s) /\ r \in Requests
  BY DEF IInv, LocksOK, InOrder, Lock
<1>3. /\ r.item \in Items /\ Owner(r) \in Players
      /\ FirstItems(r) \subseteq Items /\ ReadItems(r) \subseteq Items /\ LastItems(r) \subseteq Items
      /\ r.item \in FirstItems(r)
  BY <1>2, WornItems, RequestsAssumption, OwnersAssumption DEF TypeOK, Owner, FirstItems
<1>4. /\ lock \notin Held(s)
      /\ \/ lock = <<"operation", task[s].key>> /\ r.kind \in Keyed
         \/ lock = <<"player", Owner(r)>> /\ r.kind \in PlayerLocked
         \/ \E i \in FirstItems(r) \cup LastItems(r) : lock = <<"item", i>>
         \/ \E i \in ReadItems(r) :
                /\ lock = <<"enchants", i>>
                /\ r.kind \in PlayerLocked => <<"player", Owner(r)>> \in Held(s)
                /\ \A j \in FirstItems(r) : <<"item", j>> \in Held(s)
  BY <1>1, NextLock
<1>5. LockOf(r, task[s].key, lock)
  BY <1>2, <1>3, <1>4 DEF LockOf, InOrder
<1> DEFINE seen == Seen(task[s].view, lock)
           now2 == task'[s]
<1>6. /\ items \in [Items -> ItemRow] /\ players \in [Players -> Account]
      /\ task[s].view \in View
  BY <1>2 DEF TypeOK, View
<1>7. seen \in View
  BY <1>3, <1>5, <1>6, SeenRow DEF LockOf, View
<1>8. /\ now2.held = Held(s) \cup {lock} /\ now2.view = seen
      /\ now2.request = r /\ now2.key = task[s].key /\ now2.phase = "OPEN"
      /\ now2 \in [phase : {"IDLE", "OPEN"}, request : Requests \cup {NoRequest},
                   key : Keys \cup {NoKey},
                   held : SUBSET ({"operation", "player", "item", "enchants"}
                                      \X (Keys \cup Players \cup Items)),
                   view : View]
      /\ task' = [task EXCEPT ![s] = now2]
      /\ \A t \in Sessions \ {s} : task'[t] = task[t]
  <2>1. lock \in {"operation", "player", "item", "enchants"} \X (Keys \cup Players \cup Items)
    BY <1>3, <1>5 DEF LockOf
  <2> HIDE DEF seen
  <2>2. task' = [task EXCEPT ![s].held = @ \cup {lock}, ![s].view = seen]
    BY <1>1 DEF seen
  <2>3. /\ task = [t \in Sessions |-> task[t]]
        /\ task[s] \in [phase : {"IDLE", "OPEN"}, request : Requests \cup {NoRequest},
                        key : Keys \cup {NoKey},
                        held : SUBSET ({"operation", "player", "item", "enchants"}
                                           \X (Keys \cup Players \cup Items)),
                        view : View]
    BY <1>2 DEF TypeOK, View
  <2>4. now2 = [task[s] EXCEPT !.held = @ \cup {lock}, !.view = seen]
    BY <2>2, <2>3
  <2>5. task' = [task EXCEPT ![s] = now2] /\ \A t \in Sessions \ {s} : task'[t] = task[t]
    BY <2>2, <2>3
  <2> HIDE DEF now2
  <2>6. /\ now2.held = Held(s) \cup {lock} /\ now2.view = seen
        /\ now2.request = r /\ now2.key = task[s].key /\ now2.phase = "OPEN"
    BY <1>2, <2>3, <2>4 DEF Held, Request, Open
  <2>7. now2 \in [phase : {"IDLE", "OPEN"}, request : Requests \cup {NoRequest},
                 key : Keys \cup {NoKey},
                 held : SUBSET ({"operation", "player", "item", "enchants"}
                                    \X (Keys \cup Players \cup Items)),
                 view : View]
    BY <1>7, <2>1, <2>3, <2>4
  <2> QED BY <2>5, <2>6, <2>7
<1> HIDE DEF now2, seen
<1>9. TypeOK'
  BY <1>2, <1>8 DEF TypeOK, Lock, View
<1>10. Exclusive'
  <2>1. \A t \in Sessions : Held(t)' = IF t = s THEN Held(s) \cup {lock} ELSE Held(t)
    BY <1>8 DEF Held, now2
  <2>2. \A t \in Sessions \ {s} : lock \in Held(t) => lock[1] = "enchants"
    BY <1>1 DEF Free, InTheWay, Held
  <2> QED BY <2>1, <2>2 DEF IInv, LocksOK, Exclusive
<1>11. ASSUME NEW t \in Sessions \ {s} PROVE InOrder(t)' /\ Current(t)'
  <2>1. InOrder(t) /\ Current(t) /\ task'[t] = task[t]
    BY <1>8 DEF IInv, LocksOK
  <2>2. InOrder(t)'
    BY <2>1 DEF InOrder, Held, Open, Request, Owner
  <2>3. items' = items /\ players' = players
    BY DEF Lock
  <2> QED BY <2>1, <2>2, <2>3 DEF Current, Held, Request, Target, PlayerRow, SameBody, Embedded
<1>12. InOrder(s)'
  <2>1. /\ Held(s)' = Held(s) \cup {lock} /\ Request(s)' = r /\ Open(s)'
        /\ task'[s].key = task[s].key
    BY <1>8 DEF Held, Request, Open, now2
  <2>2. \A p \in Players : <<"player", p>> \in Held(s)' => p = Owner(r)
    BY <1>2, <1>4, <2>1 DEF InOrder
  <2>3. r.kind \in PlayerLocked =>
            \A i \in Items : <<"enchants", i>> \in Held(s)' =>
                                 <<"player", Owner(r)>> \in Held(s)'
    BY <1>2, <1>4, <2>1 DEF InOrder
  <2>4. <<"enchants", r.item>> \in Held(s)' => <<"item", r.item>> \in Held(s)'
    BY <1>2, <1>3, <1>4, <2>1 DEF InOrder
  <2> QED BY <1>2, <2>1, <2>2, <2>3, <2>4 DEF InOrder, Owner
<1>13. Current(s)'
  <2> DEFINE view == task[s].view
  <2>1. /\ Held(s)' = Held(s) \cup {lock} /\ Request(s)' = r
        /\ PlayerRow(s)' = seen.account /\ Target(s)' = seen.rows[r.item]
        /\ task'[s].view = seen
        /\ items' = items /\ players' = players
    BY <1>8 DEF Held, Request, PlayerRow, Target, now2, Lock
  <2>2. /\ \A p \in Players : <<"player", p>> \in Held(s) => view.account = players[p]
        /\ <<"item", r.item>> \in Held(s) => SameBody(view.rows[r.item], items[r.item])
        /\ <<"enchants", r.item>> \in Held(s) =>
               view.rows[r.item].enchants = items[r.item].enchants
        /\ \A i \in Items :
               <<"enchants", i>> \in Held(s) /\ <<"player", OwnerOf[i]>> \in Held(s) =>
                   Embedded(items[i]) \subseteq Embedded(view.rows[i])
    BY <1>2 DEF Current, PlayerRow, Target, Request
  <2>3. CASE lock = <<"operation", task[s].key>>
    <3>1. seen = view
      BY <1>6, <2>3, SeenRow DEF seen
    <3> QED BY <2>1, <2>2, <2>3, <3>1 DEF Current, SameBody, Embedded
  <2>4. CASE lock = <<"player", Owner(r)>> /\ r.kind \in PlayerLocked
    <3>1. seen = [rows |-> view.rows, account |-> players[Owner(r)]]
      BY <1>3, <1>6, <2>4, SeenRow DEF seen
    <3>2. \A i \in Items : <<"enchants", i>> \notin Held(s)
      BY <1>2, <1>4, <2>4 DEF InOrder
    <3>3. \A p \in Players : <<"player", p>> \in Held(s)' => seen.account = players[p]
      BY <1>2, <2>1, <2>2, <2>4, <3>1 DEF InOrder
    <3> QED BY <1>3, <2>1, <2>2, <2>4, <3>1, <3>2, <3>3 DEF Current, SameBody, Embedded
  <2>5. ASSUME NEW i \in Items, lock = <<"item", i>> PROVE Current(s)'
    <3>1. /\ seen.account = view.account
          /\ \A j \in Items \ {i} : seen.rows[j] = view.rows[j]
          /\ SameBody(seen.rows[i], items[i])
          /\ seen.rows[i].enchants = view.rows[i].enchants
      <4> HIDE DEF view
      <4>1. view \in View
        BY <1>6 DEF view
      <4>2. seen = Seen(view, lock)
        BY DEF seen, view
      <4> QED BY <1>6, <2>5, <4>1, <4>2, SeenItem
    <3>2. \A j \in Items : seen.rows[j].enchants = view.rows[j].enchants
      BY <3>1
    <3>3. \A j \in Items : Embedded(seen.rows[j]) = Embedded(view.rows[j])
      BY <3>2 DEF Embedded
    <3>4. <<"item", r.item>> \in Held(s)' => SameBody(seen.rows[r.item], items[r.item])
      BY <1>3, <2>1, <2>2, <2>5, <3>1
    <3>5. <<"enchants", r.item>> \in Held(s)' =>
              seen.rows[r.item].enchants = items[r.item].enchants
      BY <1>3, <2>1, <2>2, <2>5, <3>2
    <3>6. \A j \in Items :
              <<"enchants", j>> \in Held(s)' /\ <<"player", OwnerOf[j]>> \in Held(s)' =>
                  Embedded(items[j]) \subseteq Embedded(seen.rows[j])
      BY <2>1, <2>2, <2>5, <3>3
    <3>7. \A p \in Players : <<"player", p>> \in Held(s)' => seen.account = players[p]
      BY <2>1, <2>2, <2>5, <3>1
    <3> QED BY <2>1, <3>4, <3>5, <3>6, <3>7 DEF Current, SameBody, Embedded
  <2>6. ASSUME NEW i \in Items, lock = <<"enchants", i>> PROVE Current(s)'
    <3>1. /\ seen.account = view.account
          /\ \A j \in Items \ {i} : seen.rows[j] = view.rows[j]
          /\ SameBody(seen.rows[i], view.rows[i])
          /\ seen.rows[i].enchants = items[i].enchants
      <4>1. view \in View
        BY <1>6 DEF view
      <4>2. seen = Seen(view, <<"enchants", i>>)
        BY <2>6 DEF seen, view
      <4> QED BY <1>6, <4>1, <4>2, SeenEnchants
    <3>2. \A j \in Items \ {i} : Embedded(seen.rows[j]) = Embedded(view.rows[j])
      BY <3>1
    <3>3. Embedded(seen.rows[i]) = Embedded(items[i])
      BY <3>1 DEF Embedded
    <3>4. <<"item", r.item>> \in Held(s)' => SameBody(seen.rows[r.item], items[r.item])
      BY <1>3, <2>1, <2>2, <2>6, <3>1 DEF SameBody
    <3>5. <<"enchants", r.item>> \in Held(s)' =>
              seen.rows[r.item].enchants = items[r.item].enchants
      BY <1>3, <2>1, <2>2, <2>6, <3>1
    <3>6. \A j \in Items :
              <<"enchants", j>> \in Held(s)' /\ <<"player", OwnerOf[j]>> \in Held(s)' =>
                  Embedded(items[j]) \subseteq Embedded(seen.rows[j])
      BY <2>1, <2>2, <2>6, <3>2, <3>3
    <3>7. \A p \in Players : <<"player", p>> \in Held(s)' => seen.account = players[p]
      BY <2>1, <2>2, <2>6, <3>1
    <3> QED BY <2>1, <3>4, <3>5, <3>6, <3>7 DEF Current, SameBody, Embedded
  <2> QED BY <1>3, <1>4, <2>3, <2>4, <2>5, <2>6
<1>14. LoadoutMatches' /\ NoActiveConflict' /\ AlwaysSound'
  BY SameLoadout DEF Lock
<1> QED BY <1>9, <1>10, <1>11, <1>12, <1>13, <1>14 DEF IInv, LocksOK

---------------------------------------------------------------------------
(* What the writers do to a row.                                           *)

\* Soundness of a row depends on its slots and enchants only.
LEMMA SoundSame ==
    ASSUME NEW i, NEW a, NEW b, a.capacity = b.capacity, a.enchants = b.enchants, Sound(i, a)
    PROVE  Sound(i, b)
<1>1. Embedded(a) = Embedded(b)
  BY DEF Embedded
<1>2. \A f \in Families : Occupancy(a, f) = Occupancy(b, f)
  BY <1>1 DEF Occupancy
<1> QED BY <1>1, <1>2 DEF Sound

\* The enchants of a family on an item are finitely many.
LEMMA Occupied ==
    ASSUME NEW row, NEW f
    PROVE  /\ IsFiniteSet({e \in Embedded(row) : FamilyOf[e] = f})
           /\ Occupancy(row, f) \in Nat
<1>1. {e \in Embedded(row) : FamilyOf[e] = f} \subseteq Enchants
  BY DEF Embedded
<1>2. IsFiniteSet({e \in Embedded(row) : FamilyOf[e] = f})
  BY <1>1, EnchantsAssumption, FS_Subset
<1> QED BY <1>2, FS_CardinalityType DEF Occupancy

\* What writing an enchant changes of a row, and what it leaves.
LEMMA EnchantedRow ==
    ASSUME NEW row \in ItemRow, NEW e \in Enchants, NEW n \in Nat
    PROVE  /\ Enchanted(row, e, n) \in ItemRow
           /\ Enchanted(row, e, n).enchants = [row.enchants EXCEPT ![e] = n]
           /\ Enchanted(row, e, n).location = row.location
           /\ Enchanted(row, e, n).capacity = row.capacity
           /\ Enchanted(row, e, n).soul = row.soul
           /\ Enchanted(row, e, n).until = row.until
           /\ Embedded(Enchanted(row, e, n)) =
                  IF n > 0 THEN Embedded(row) \cup {e} ELSE Embedded(row) \ {e}
<1> DEFINE new == [row.enchants EXCEPT ![e] = n]
           written == Enchanted(row, e, n)
<1>1. new \in [Enchants -> Nat]
  BY DEF ItemRow
<1>2. written = [row EXCEPT !.enchants = new]
  BY DEF Enchanted
<1>3. \A d \in Enchants : new[d] = IF d = e THEN n ELSE row.enchants[d]
  BY DEF ItemRow
<1> HIDE DEF new, written
<1>4. /\ written \in ItemRow /\ written.enchants = new
      /\ written.location = row.location /\ written.capacity = row.capacity
      /\ written.soul = row.soul /\ written.until = row.until
  BY <1>1, <1>2 DEF ItemRow
<1>5. Embedded(written) = IF n > 0 THEN Embedded(row) \cup {e} ELSE Embedded(row) \ {e}
  BY <1>3, <1>4 DEF Embedded
<1> QED BY <1>4, <1>5 DEF new, written

\* An enchant that passed the checks leaves the item sound.
LEMMA EnchantedSound ==
    ASSUME NEW i \in Items, NEW row \in ItemRow, NEW e \in Enchants, NEW n, CanEnchant(i, row, e, n)
    PROVE  n \in Nat \ {0} /\ Sound(i, Enchanted(row, e, n))
<1>1. n \in Nat \ {0} /\ n <= MaxEnchantLevel[e] /\ SlotOf[i] \in PlacedOn[e] /\ Sound(i, row)
  BY DEF CanEnchant
<1> DEFINE new == Enchanted(row, e, n)
<1>2. /\ new.capacity = row.capacity /\ new.enchants = [row.enchants EXCEPT ![e] = n]
      /\ Embedded(new) = Embedded(row) \cup {e}
  BY <1>1, EnchantedRow
<1>3. \A d \in Enchants : new.enchants[d] = IF d = e THEN n ELSE row.enchants[d]
  BY <1>2 DEF ItemRow
<1> HIDE DEF new
<1>4. ASSUME NEW f \in Families PROVE Occupancy(new, f) <= row.capacity[f]
  <2> DEFINE old == {d \in Embedded(row) : FamilyOf[d] = f}
             grown == {d \in Embedded(new) : FamilyOf[d] = f}
  <2>1. /\ Cardinality(old) <= row.capacity[f] /\ Cardinality(old) \in Nat /\ IsFiniteSet(old)
        /\ row.capacity[f] \in Nat
    BY <1>1, Occupied DEF Sound, Occupancy, ItemRow
  <2>2. CASE e \in Embedded(row) \/ FamilyOf[e] # f
    <3>1. grown = old
      BY <1>2, <2>2
    <3> QED BY <2>1, <3>1 DEF Occupancy
  <2>3. CASE e \notin Embedded(row) /\ FamilyOf[e] = f
    <3>1. Cardinality(old) < row.capacity[f]
      BY <2>3 DEF CanEnchant, Occupancy
    <3>2. grown = old \cup {e} /\ e \notin old
      BY <1>2, <2>3
    <3>3. Cardinality(grown) = Cardinality(old) + 1
      BY <2>1, <3>2, FS_AddElement
    <3> QED BY <2>1, <3>1, <3>3 DEF Occupancy
  <2> QED BY <2>2, <2>3
<1>5. \A d \in Embedded(new) : new.enchants[d] <= MaxEnchantLevel[d] /\ SlotOf[i] \in PlacedOn[d]
  <2>1. Embedded(new) \subseteq Enchants
    BY DEF Embedded
  <2> QED BY <1>1, <1>2, <1>3, <2>1 DEF Sound
<1>6. Clear(ItemConflicts \cup LoadoutConflicts, Embedded(new))
  BY <1>2 DEF CanEnchant
<1> QED BY <1>1, <1>2, <1>4, <1>5, <1>6 DEF Sound, new

\* A written enchant is embedded, and the rest of the row stands.
LEMMA PlacedRow ==
    ASSUME NEW row \in ItemRow, NEW e \in Enchants, NEW n \in Nat \ {0}
    PROVE  /\ Enchanted(row, e, n) \in ItemRow
           /\ Enchanted(row, e, n).location = row.location
           /\ Enchanted(row, e, n).soul = row.soul
           /\ Enchanted(row, e, n).until = row.until
           /\ Embedded(Enchanted(row, e, n)) = Embedded(row) \cup {e}
<1>1. n \in Nat /\ n > 0
  OBVIOUS
<1>2. /\ Enchanted(row, e, n) \in ItemRow
      /\ Enchanted(row, e, n).location = row.location
      /\ Enchanted(row, e, n).soul = row.soul
      /\ Enchanted(row, e, n).until = row.until
      /\ Embedded(Enchanted(row, e, n)) = IF n > 0 THEN Embedded(row) \cup {e}
                                           ELSE Embedded(row) \ {e}
  BY <1>1, EnchantedRow
<1> QED BY <1>1, <1>2

\* A removed enchant is gone, and the rest of the row stands.
LEMMA StrippedRow ==
    ASSUME NEW row \in ItemRow, NEW e \in Enchants
    PROVE  /\ Enchanted(row, e, 0) \in ItemRow
           /\ Enchanted(row, e, 0).location = row.location
           /\ Enchanted(row, e, 0).soul = row.soul
           /\ Enchanted(row, e, 0).until = row.until
           /\ Embedded(Enchanted(row, e, 0)) \subseteq Embedded(row)
<1> DEFINE n == 0
<1>1. n \in Nat /\ ~ n > 0
  OBVIOUS
<1> HIDE DEF n
<1>2. /\ Enchanted(row, e, n) \in ItemRow
      /\ Enchanted(row, e, n).location = row.location
      /\ Enchanted(row, e, n).soul = row.soul
      /\ Enchanted(row, e, n).until = row.until
      /\ Embedded(Enchanted(row, e, n)) = IF n > 0 THEN Embedded(row) \cup {e}
                                           ELSE Embedded(row) \ {e}
  BY <1>1, EnchantedRow
<1> QED BY <1>1, <1>2 DEF n

\* Taking an enchant off leaves the item sound.
LEMMA StrippedSound ==
    ASSUME NEW i \in Items, NEW row \in ItemRow, NEW e \in Enchants, Sound(i, row)
    PROVE  Sound(i, Enchanted(row, e, 0))
<1> DEFINE new == Enchanted(row, e, 0)
<1>1. /\ new.capacity = row.capacity /\ new.enchants = [row.enchants EXCEPT ![e] = 0]
      /\ Embedded(new) = Embedded(row) \ {e}
  BY EnchantedRow
<1>2. \A d \in Enchants : new.enchants[d] = IF d = e THEN 0 ELSE row.enchants[d]
  BY <1>1 DEF ItemRow
<1> HIDE DEF new
<1>3. ASSUME NEW f \in Families PROVE Occupancy(new, f) <= row.capacity[f]
  <2> DEFINE old == {d \in Embedded(row) : FamilyOf[d] = f}
             rest == {d \in Embedded(new) : FamilyOf[d] = f}
  <2>1. rest \in SUBSET old
    BY <1>1
  <2>2. IsFiniteSet(old) /\ Cardinality(old) \in Nat /\ Cardinality(rest) \in Nat
    BY Occupied DEF Occupancy
  <2>3. Cardinality(old) <= row.capacity[f] /\ row.capacity[f] \in Nat
    BY DEF Sound, ItemRow, Occupancy
  <2> HIDE DEF old, rest
  <2>4. Cardinality(rest) <= Cardinality(old)
    BY <2>1, <2>2, FS_Subset
  <2>5. Cardinality(rest) <= row.capacity[f]
    BY <2>2, <2>3, <2>4
  <2> QED BY <2>5 DEF Occupancy, rest
<1>4. \A d \in Embedded(new) : new.enchants[d] <= MaxEnchantLevel[d] /\ SlotOf[i] \in PlacedOn[d]
  <2>1. Embedded(new) \subseteq Enchants
    BY DEF Embedded
  <2> QED BY <1>1, <1>2, <2>1 DEF Sound
<1>5. Clear(ItemConflicts \cup LoadoutConflicts, Embedded(new))
  BY <1>1 DEF Sound, Clear
<1> QED BY <1>1, <1>3, <1>4, <1>5 DEF Sound, new

\* What unlocking a slot changes of a row, and what it leaves.
LEMMA UnlockedRow ==
    ASSUME NEW i \in Items, NEW row \in ItemRow, NEW f \in Families,
           NEW n \in NativeSlots[f] + 1 .. MaxSlots[f], CanUnlock(i, row, f, n)
    PROVE  /\ Unlocked(row, f, n) \in ItemRow
           /\ Unlocked(row, f, n).enchants = row.enchants
           /\ Unlocked(row, f, n).location = row.location
           /\ Unlocked(row, f, n).soul = row.soul
           /\ Unlocked(row, f, n).until = row.until
           /\ Sound(i, Unlocked(row, f, n))
<1> DEFINE new == [row.capacity EXCEPT ![f] = n]
           written == Unlocked(row, f, n)
<1>0. NativeSlots[f] \in Nat /\ MaxSlots[f] \in Nat /\ n \in Nat
  BY SlotsAssumption
<1>1. new \in [Families -> Nat]
  BY <1>0 DEF ItemRow
<1>2. written = [row EXCEPT !.capacity = new]
  BY DEF Unlocked
<1>3. \A g \in Families : new[g] = IF g = f THEN n ELSE row.capacity[g]
  BY DEF ItemRow
<1> HIDE DEF new, written
<1>4. /\ written \in ItemRow /\ written.enchants = row.enchants /\ written.capacity = new
      /\ written.location = row.location
      /\ written.soul = row.soul /\ written.until = row.until
  BY <1>1, <1>2 DEF ItemRow
<1>5. Embedded(written) = Embedded(row)
  BY <1>4 DEF Embedded
<1>6. Sound(i, written)
  <2>1. Sound(i, row) /\ row.capacity[f] = n - 1
    BY DEF CanUnlock
  <2>2. \A g \in Families : Occupancy(written, g) = Occupancy(row, g)
    BY <1>5 DEF Occupancy
  <2>3. \A g \in Families : written.capacity[g] \in NativeSlots[g] .. MaxSlots[g]
    BY <1>0, <1>3, <1>4, <2>1 DEF Sound
  <2>4. ASSUME NEW g \in Families PROVE Occupancy(written, g) <= written.capacity[g]
    <3>1. Occupancy(row, g) \in Nat /\ Occupancy(row, g) <= row.capacity[g]
      BY <2>1, Occupied DEF Sound
    <3> QED BY <1>0, <1>3, <1>4, <2>1, <2>2, <3>1
  <2> QED BY <1>4, <1>5, <2>1, <2>3, <2>4 DEF Sound
<1> QED BY <1>4, <1>6 DEF written

\* The level and the SoulBind of a row are not about its enchants.
LEMMA OtherRows ==
    ASSUME NEW row \in ItemRow, NEW n \in Nat
    PROVE  /\ Moved(row, n) \in ItemRow /\ Moved(row, n).enchants = row.enchants
           /\ Moved(row, n).location = row.location /\ Moved(row, n).capacity = row.capacity
           /\ Moved(row, n).soul = row.soul /\ Moved(row, n).until = row.until
           /\ Bound(row) \in ItemRow /\ Bound(row).enchants = row.enchants
           /\ Bound(row).location = row.location /\ Bound(row).capacity = row.capacity
           /\ Bound(row).soul = "BOUND"
           /\ Unbound(row, n) \in ItemRow /\ Unbound(row, n).enchants = row.enchants
           /\ Unbound(row, n).location = row.location /\ Unbound(row, n).capacity = row.capacity
           /\ Unbound(row, n).soul = "UNBOUND" /\ Unbound(row, n).until = n + Cooldown
<1>1. n + Cooldown \in Nat
  BY CooldownAssumption
<1> QED BY <1>1 DEF ItemRow, Moved, Bound, Unbound

---------------------------------------------------------------------------
(* Steps that commit.                                                      *)

\* A row rewritten where it is keeps the loadout, if it gains no enchant.
LEMMA InPlace ==
    ASSUME IInv, NEW s \in Sessions, Open(s), End(s),
           NEW i \in Items, <<"item", i>> \in Held(s),
           NEW row \in ItemRow, items' = [items EXCEPT ![i] = row],
           row.location = items[i].location, Sound(i, row),
           Embedded(row) \subseteq Embedded(items[i]),
           slots' = slots, now' = now,
           operations' \in [Keys -> Requests \cup {NoRow}],
           players' \in [Players -> Account],
           \A p \in Players : players'[p] # players[p] => <<"player", p>> \in Held(s)
    PROVE  IInv'
<1>1. TypeOK
  BY DEF IInv
<1>2. /\ items' \in [Items -> ItemRow] /\ items'[i] = row
      /\ \A j \in Items \ {i} : items'[j] = items[j]
  BY <1>1 DEF TypeOK
<1>3. TypeOK' /\ LocksOK'
  <2>1. \A j \in Items : items'[j] # items[j] =>
            <<"item", j>> \in Held(s) /\ Embedded(items'[j]) \subseteq Embedded(items[j])
    BY <1>2
  <2>2. slots' \in [Players -> [BodySlots -> Items \cup {NoItem}]] /\ now' \in Nat
    BY <1>1 DEF TypeOK
  <2> QED BY <1>2, <2>1, <2>2, Ends
<1>4. LoadoutMatches'
  BY <1>2 DEF IInv, LoadoutMatches
<1>5. NoActiveConflict'
  <2>1. \A p \in Players : Worn(p)' = Worn(p) /\ Worn(p) \subseteq Items
    BY <1>1, WornItems DEF Worn, TypeOK
  <2>2. \A j \in Items : Embedded(items'[j]) \subseteq Embedded(items[j])
    BY <1>2
  <2>3. \A p \in Players : UNION {Embedded(items'[j]) : j \in Worn(p)} \subseteq
                               UNION {Embedded(items[j]) : j \in Worn(p)}
    BY <2>1, <2>2
  <2> QED BY <2>1, <2>3 DEF IInv, NoActiveConflict, Clear, Embedded
<1>6. AlwaysSound'
  BY <1>2 DEF IInv, AlwaysSound, Sound, Occupancy, Embedded, Clear
<1> QED BY <1>3, <1>4, <1>5, <1>6 DEF IInv

\* A step of a session that writes no row it shares.
LEMMA NothingWritten ==
    ASSUME IInv, NEW s \in Sessions, Open(s), End(s), items' = items, slots' = slots,
           players' = players, now' = now, operations' \in [Keys -> Requests \cup {NoRow}]
    PROVE  IInv'
<1>1. TypeOK' /\ LocksOK'
  BY Ends DEF IInv, TypeOK
<1> QED BY <1>1, SameLoadout DEF IInv

\* What a keyed handler records, under a key nobody has committed.
LEMMA Recorded ==
    ASSUME IInv, NEW s \in Sessions, Open(s), Pending(s) = {}, ~ Answered(s),
           Request(s).kind \in Keyed, Record(s)
    PROVE  /\ task[s].key \in Keys /\ operations[task[s].key] = NoRow
           /\ operations'[task[s].key] = Request(s)
           /\ \A k \in Keys \ {task[s].key} : operations'[k] = operations[k]
           /\ operations' \in [Keys -> Requests \cup {NoRow}]
<1>1. TypeOK /\ task[s].key \in Keys /\ Request(s) \in Requests
  BY DEF IInv, LocksOK, InOrder
<1>2. <<"operation", task[s].key>> \in Held(s)
  BY AllHeld
<1>3. operations[task[s].key] = NoRow
  BY <1>2 DEF Answered, Held, Request
<1> QED BY <1>1, <1>3 DEF Record, Request, TypeOK

\* A transaction that writes nothing but its own end keeps the invariant.
LEMMA QuietEnds ==
    ASSUME IInv, NEW s \in Sessions,
           AnswerFromRow(s) \/ Refuse(s) \/ Abort(s) \/ EquipAgain(s)
    PROVE  IInv'
<1>1. CASE AnswerFromRow(s) \/ Refuse(s) \/ Abort(s)
  BY <1>1, NothingWritten DEF AnswerFromRow, Refuse, Abort, Holds, IInv, TypeOK
<1>2. CASE EquipAgain(s)
  <2>1. /\ Open(s) /\ Pending(s) = {} /\ ~ Answered(s) /\ Request(s).kind \in Keyed
        /\ Record(s) /\ End(s)
        /\ items' = items /\ slots' = slots /\ players' = players /\ now' = now
    BY <1>2 DEF EquipAgain, Holds, Request, Keyed
  <2> QED BY <2>1, Recorded, NothingWritten
<1> QED BY <1>1, <1>2

\* A removal keeps the invariant, though it does not hold the player row.
LEMMA RemoveKeeps ==
    ASSUME IInv, NEW s \in Sessions, Remove(s)
    PROVE  IInv'
<1> DEFINE r == Request(s)
           row == Enchanted(items[r.item], r.enchant, 0)
<1>1. /\ Open(s) /\ End(s) /\ Pending(s) = {} /\ r.kind = "REMOVE"
      /\ items' = [items EXCEPT ![r.item] = Stripped(items[r.item], r.enchant)]
      /\ slots' = slots /\ players' = players /\ now' = now /\ operations' = operations
  BY DEF Remove, Holds, Request
<1>2. /\ r.item \in Items /\ <<"item", r.item>> \in Held(s) /\ r \in Requests
      /\ r.enchant \in Enchants
  BY <1>1, ReadsTrue, RequestsAssumption
<1>3. items[r.item] \in ItemRow /\ Sound(r.item, items[r.item]) /\ TypeOK
  BY <1>2 DEF IInv, TypeOK, AlwaysSound
<1>4. /\ row \in ItemRow /\ row.location = items[r.item].location
      /\ Embedded(row) \subseteq Embedded(items[r.item])
  BY <1>2, <1>3, StrippedRow
<1>5. Sound(r.item, row)
  BY <1>2, <1>3, StrippedSound
<1>6. Stripped(items[r.item], r.enchant) = row
  BY DEF Stripped, Enchanted
<1> HIDE DEF row, r
<1> QED BY <1>1, <1>2, <1>3, <1>4, <1>5, <1>6, InPlace DEF TypeOK

\* Unlocking a slot keeps the invariant.
LEMMA UnlockSlotKeeps ==
    ASSUME IInv, NEW s \in Sessions, UnlockSlot(s)
    PROVE  IInv'
<1> DEFINE r == Request(s)
           row == Unlocked(items[r.item], r.family, r.to)
<1>1. /\ Open(s) /\ End(s) /\ Pending(s) = {} /\ r.kind = "ORB"
      /\ CanUnlock(r.item, Target(s), r.family, r.to)
      /\ items' = [items EXCEPT ![r.item] = row]
      /\ slots' = slots /\ players' = players /\ now' = now /\ operations' = operations
  BY DEF UnlockSlot, Holds, Request
<1>2. /\ r.item \in Items /\ <<"item", r.item>> \in Held(s) /\ r \in Requests
      /\ r.family \in Families /\ r.to \in NativeSlots[r.family] + 1 .. MaxSlots[r.family]
      /\ Target(s) = items[r.item]
  BY <1>1, ReadsTrue, RequestsAssumption
<1>3. items[r.item] \in ItemRow /\ TypeOK
  BY <1>2 DEF IInv, TypeOK
<1>4. /\ row \in ItemRow /\ row.location = items[r.item].location
      /\ row.enchants = items[r.item].enchants /\ Sound(r.item, row)
  BY <1>1, <1>2, <1>3, UnlockedRow
<1>5. Embedded(row) \subseteq Embedded(items[r.item])
  BY <1>4 DEF Embedded
<1> HIDE DEF row, r
<1> QED BY <1>1, <1>2, <1>3, <1>4, <1>5, InPlace DEF TypeOK

\* Writing a +N level keeps the invariant.
LEMMA MoveLevelKeeps ==
    ASSUME IInv, NEW s \in Sessions, MoveLevel(s)
    PROVE  IInv'
<1> DEFINE r == Request(s)
           row == Moved(items[r.item], r.to)
<1>1. /\ Open(s) /\ End(s) /\ Pending(s) = {} /\ r.kind = "UPGRADE"
      /\ CanMoveLevel(r.item, Target(s), r.from, r.to)
      /\ items' = [items EXCEPT ![r.item] = row]
      /\ slots' = slots /\ players' = players /\ now' = now /\ operations' = operations
  BY DEF MoveLevel, Holds, Request
<1>2. r.item \in Items /\ <<"item", r.item>> \in Held(s) /\ r.to \in Nat
  <2>1. r.to \in 0 .. MaxUpgrade
    BY <1>1 DEF CanMoveLevel
  <2>2. r.to \in Nat
    BY <2>1
  <2> QED BY <1>1, <2>2, ReadsTrue
<1>3. items[r.item] \in ItemRow /\ Sound(r.item, items[r.item]) /\ TypeOK
  BY <1>2 DEF IInv, TypeOK, AlwaysSound
<1>4. /\ row \in ItemRow /\ row.location = items[r.item].location
      /\ row.enchants = items[r.item].enchants /\ row.capacity = items[r.item].capacity
  BY <1>2, <1>3, OtherRows
<1>5. Sound(r.item, row)
  BY <1>3, <1>4, SoundSame
<1>6. Embedded(row) \subseteq Embedded(items[r.item])
  BY <1>4 DEF Embedded
<1> HIDE DEF row, r
<1> QED BY <1>1, <1>2, <1>3, <1>4, <1>5, <1>6, InPlace DEF TypeOK

\* Binding an item keeps the invariant.
LEMMA BindKeeps ==
    ASSUME IInv, NEW s \in Sessions, Bind(s)
    PROVE  IInv'
<1> DEFINE r == Request(s)
           row == Bound(items[r.item])
<1>1. /\ Open(s) /\ End(s) /\ Pending(s) = {}
      /\ items' = [items EXCEPT ![r.item] = row]
      /\ slots' = slots /\ players' = players /\ now' = now /\ operations' = operations
  BY DEF Bind, Holds, Request
<1>2. r.item \in Items /\ <<"item", r.item>> \in Held(s)
  BY <1>1, ReadsTrue
<1>3. items[r.item] \in ItemRow /\ Sound(r.item, items[r.item]) /\ TypeOK
  BY <1>2 DEF IInv, TypeOK, AlwaysSound
<1>4. /\ row \in ItemRow /\ row.location = items[r.item].location
      /\ row.enchants = items[r.item].enchants /\ row.capacity = items[r.item].capacity
  BY <1>3, OtherRows
<1>5. Sound(r.item, row) /\ Embedded(row) \subseteq Embedded(items[r.item])
  BY <1>3, <1>4, SoundSame DEF Embedded
<1> HIDE DEF row, r
<1> QED BY <1>1, <1>2, <1>3, <1>4, <1>5, InPlace DEF TypeOK

\* The wallet an unbind leaves is the one it locked, less a fee it can pay.
LEMMA UnbindCharges ==
    ASSUME IInv, NEW s \in Sessions, Unbind(s)
    PROVE  LET r == Request(s)
               p == Owner(r)
               fee == UnbindFee(r.item, items[r.item])
           IN  /\ p \in Players /\ <<"player", p>> \in Held(s)
               /\ players'[p] = [status |-> players[p].status, wallet |-> players[p].wallet - fee]
               /\ players'[p] \in Account
               /\ \A q \in Players \ {p} : players'[q] = players[q]
               /\ players' \in [Players -> Account]
               /\ items[r.item].soul = "BOUND" /\ r.item \in Items
<1> DEFINE r == Request(s)
           p == Owner(r)
           fee == UnbindFee(r.item, items[r.item])
<1>1. /\ Open(s) /\ End(s) /\ Pending(s) = {} /\ r.kind = "UNBIND" /\ CanUnbindNow(s)
      /\ players' = [players EXCEPT ![p].wallet = PlayerRow(s).wallet - UnbindFee(r.item, Target(s))]
  BY DEF Unbind, Holds, Request
<1>2. /\ r.item \in Items /\ p \in Players /\ <<"player", p>> \in Held(s)
      /\ PlayerRow(s) = players[p] /\ Target(s) = items[r.item]
  BY <1>1, ReadsTrue DEF PlayerLocked
<1>3. fee \in 1 .. players[p].wallet /\ items[r.item].soul = "BOUND"
  BY <1>1, <1>2 DEF CanUnbindNow, CanUnbind, Request
<1>4. players \in [Players -> Account]
  BY DEF IInv, TypeOK
<1>5. players' = [players EXCEPT ![p].wallet = players[p].wallet - fee]
  BY <1>1, <1>2
<1> HIDE DEF fee, p, r
<1>6. players[p].wallet - fee \in Nat
  BY <1>2, <1>3, <1>4 DEF Account
<1>7. /\ players'[p] = [status |-> players[p].status, wallet |-> players[p].wallet - fee]
      /\ \A q \in Players \ {p} : players'[q] = players[q]
      /\ players' \in [Players -> Account]
  BY <1>2, <1>4, <1>5, <1>6 DEF Account
<1> QED BY <1>2, <1>3, <1>7 DEF fee, p, r

\* Unbinding an item keeps the invariant.
LEMMA UnbindKeeps ==
    ASSUME IInv, NEW s \in Sessions, Unbind(s)
    PROVE  IInv'
<1> DEFINE r == Request(s)
           row == Unbound(items[r.item], now)
<1>1. /\ Open(s) /\ End(s) /\ Pending(s) = {} /\ ~ Answered(s) /\ r.kind \in Keyed /\ Record(s)
      /\ items' = [items EXCEPT ![r.item] = row]
      /\ slots' = slots /\ now' = now
  BY DEF Unbind, Holds, Request, Keyed
<1>2. r.item \in Items /\ <<"item", r.item>> \in Held(s)
  BY <1>1, ReadsTrue
<1>3. items[r.item] \in ItemRow /\ Sound(r.item, items[r.item]) /\ now \in Nat
  BY <1>2 DEF IInv, TypeOK, AlwaysSound
<1>4. /\ row \in ItemRow /\ row.location = items[r.item].location
      /\ row.enchants = items[r.item].enchants /\ row.capacity = items[r.item].capacity
  BY <1>3, OtherRows
<1>5. Sound(r.item, row) /\ Embedded(row) \subseteq Embedded(items[r.item])
  BY <1>3, <1>4, SoundSame DEF Embedded
<1>6. operations' \in [Keys -> Requests \cup {NoRow}]
  BY <1>1, Recorded
<1>7. /\ players' \in [Players -> Account]
      /\ \A p \in Players : players'[p] # players[p] => <<"player", p>> \in Held(s)
  BY UnbindCharges
<1> HIDE DEF row, r
<1> QED BY <1>1, <1>2, <1>4, <1>5, <1>6, <1>7, InPlace

\* The clock and an operator keep the invariant.
LEMMA SurroundingsKeep ==
    ASSUME IInv, Tick \/ \E p \in Players, status \in Statuses : SetStatus(p, status)
    PROVE  IInv'
<1>1. /\ items' = items /\ slots' = slots /\ operations' = operations /\ task' = task
  BY DEF Tick, SetStatus
<1>2. /\ players' \in [Players -> Account] /\ now' \in Nat
      /\ \A p \in Players : players'[p] # players[p] =>
             \A s \in Sessions : <<"player", p>> \notin Held(s)
  <2>1. CASE Tick
    BY <2>1 DEF Tick, IInv, TypeOK
  <2>2. ASSUME NEW p \in Players, NEW status \in Statuses, SetStatus(p, status)
        PROVE  /\ players' \in [Players -> Account]
               /\ \A q \in Players \ {p} : players'[q] = players[q]
               /\ \A s \in Sessions : <<"player", p>> \notin Held(s)
               /\ now' \in Nat
    <3>1. /\ players' = [players EXCEPT ![p].status = status] /\ now' = now
          /\ \A s \in Sessions : <<"player", p>> \notin Held(s)
      BY <2>2 DEF SetStatus, Held
    <3>2. players \in [Players -> Account] /\ now \in Nat
      BY DEF IInv, TypeOK
    <3>3. [players[p] EXCEPT !.status = status] \in Account
      BY <3>2 DEF Account
    <3>4. players' = [players EXCEPT ![p] = [players[p] EXCEPT !.status = status]]
      BY <3>1
    <3> QED BY <3>1, <3>2, <3>3, <3>4
  <2> QED BY <2>1, <2>2
<1>3. TypeOK'
  BY <1>1, <1>2 DEF IInv, TypeOK
<1>4. Exclusive'
  BY <1>1 DEF IInv, LocksOK, Exclusive, Held
<1>5. ASSUME NEW s \in Sessions PROVE InOrder(s)' /\ Current(s)'
  <2>1. InOrder(s) /\ Current(s)
    BY DEF IInv, LocksOK
  <2>2. InOrder(s)'
    BY <1>1, <2>1 DEF InOrder, Held, Open, Request, Owner
  <2>3. \A p \in Players : <<"player", p>> \in Held(s) => PlayerRow(s) = players'[p]
    BY <1>2, <2>1 DEF Current
  <2> QED BY <1>1, <2>1, <2>2, <2>3
          DEF Current, Held, Request, Target, PlayerRow, SameBody, Embedded
<1> QED BY <1>1, <1>3, <1>4, <1>5, SameLoadout DEF IInv, LocksOK

\* Moving an item changes nothing its validator looks at.
LEMMA Relocated ==
    ASSUME NEW row \in ItemRow, NEW place \in Locations,
           NEW moved, moved = [row EXCEPT !.location = place]
    PROVE  /\ moved \in ItemRow /\ moved.location = place
           /\ moved.enchants = row.enchants /\ moved.capacity = row.capacity
           /\ moved.soul = row.soul /\ moved.until = row.until
BY DEF ItemRow

\* The armor worn is of the player who wears it, each piece in its own slot.
LEMMA OwnArmor ==
    ASSUME TypeOK, LoadoutMatches, NEW p \in Players, NEW i \in Worn(p)
    PROVE  /\ i \in Items /\ OwnerOf[i] = p /\ SlotOf[i] \in ArmorSlots
           /\ slots[p][SlotOf[i]] = i
<1>1. PICK k \in ArmorSlots : i = slots[p][k] /\ i # NoItem
  BY DEF Worn
<1>2. k \in BodySlots
  BY DEF BodySlots
<1> QED BY <1>1, <1>2 DEF LoadoutMatches, TypeOK

\* Taking an item off keeps the invariant.
LEMMA UnequipKeeps ==
    ASSUME IInv, NEW s \in Sessions, Unequip(s)
    PROVE  IInv'
<1> DEFINE r == Request(s)
           x == r.item
           p == Owner(r)
           row == [items[x] EXCEPT !.location = "TOOL_LOCKER"]
           emptied == [k \in BodySlots |-> IF slots[p][k] = x THEN NoItem ELSE slots[p][k]]
<1>1. /\ Open(s) /\ End(s) /\ Pending(s) = {} /\ ~ Answered(s) /\ r.kind \in Keyed /\ Record(s)
      /\ items' = [items EXCEPT ![x] = row]
      /\ slots' = [slots EXCEPT ![p] = emptied]
      /\ players' = players /\ now' = now
  BY DEF Unequip, Holds, Request, Keyed
<1>2. /\ x \in Items /\ <<"item", x>> \in Held(s) /\ p \in Players /\ p = OwnerOf[x]
      /\ SlotOf[x] \in BodySlots
  BY <1>1, ReadsTrue DEF Owner
<1>3. TypeOK /\ items[x] \in ItemRow /\ LoadoutMatches
  BY <1>2 DEF IInv, TypeOK
<1>4. /\ row \in ItemRow /\ row.location = "TOOL_LOCKER"
      /\ row.enchants = items[x].enchants /\ row.capacity = items[x].capacity
  BY <1>3, Relocated DEF Locations
<1>5. emptied \in [BodySlots -> Items \cup {NoItem}]
  BY <1>2, <1>3 DEF TypeOK
<1>6. \A k \in BodySlots : emptied[k] = IF slots[p][k] = x THEN NoItem ELSE slots[p][k]
  OBVIOUS
<1> HIDE DEF row, emptied, x, p, r
<1>7. /\ items' \in [Items -> ItemRow] /\ items'[x] = row
      /\ \A i \in Items \ {x} : items'[i] = items[i]
      /\ slots' \in [Players -> [BodySlots -> Items \cup {NoItem}]]
      /\ slots'[p] = emptied /\ \A q \in Players \ {p} : slots'[q] = slots[q]
  BY <1>1, <1>2, <1>3, <1>4, <1>5 DEF TypeOK
<1>8. \A i \in Items : Embedded(items'[i]) = Embedded(items[i])
  BY <1>4, <1>7 DEF Embedded
<1>9. TypeOK' /\ LocksOK'
  <2>1. operations' \in [Keys -> Requests \cup {NoRow}]
    BY <1>1, Recorded DEF r
  <2>2. \A i \in Items : items'[i] # items[i] =>
            <<"item", i>> \in Held(s) /\ Embedded(items'[i]) \subseteq Embedded(items[i])
    BY <1>2, <1>7, <1>8
  <2>3. players' \in [Players -> Account] /\ now' \in Nat
    BY <1>1, <1>3 DEF TypeOK
  <2> QED BY <1>1, <1>7, <2>1, <2>2, <2>3, Ends
<1>10. LoadoutMatches'
  <2>1. ASSUME NEW i \in Items
        PROVE  (items'[i].location = "EQUIPPED") <=> slots'[OwnerOf[i]][SlotOf[i]] = i
    <3>1. OwnerOf[i] \in Players /\ SlotOf[i] \in BodySlots /\ i # NoItem
      BY OwnersAssumption, NoItemAssumption DEF BodySlots
    <3>2. (items[i].location = "EQUIPPED") <=> slots[OwnerOf[i]][SlotOf[i]] = i
      BY <1>3 DEF LoadoutMatches
    <3>3. CASE i = x
      BY <1>2, <1>4, <1>6, <1>7, <3>1, <3>3
    <3>4. CASE i # x
      BY <1>6, <1>7, <3>1, <3>2, <3>4
    <3> QED BY <3>3, <3>4
  <2>2. ASSUME NEW q \in Players, NEW k \in BodySlots, slots'[q][k] # NoItem
        PROVE  slots'[q][k] = slots[q][k]
    BY <1>6, <1>7, <2>2
  <2> QED BY <1>3, <2>1, <2>2 DEF LoadoutMatches
<1>11. NoActiveConflict'
  <2>1. \A q \in Players : Worn(q)' \subseteq Worn(q) /\ Worn(q) \subseteq Items
    <3>1. \A q \in Players : Worn(q) \subseteq Items
      BY <1>3, WornItems DEF TypeOK
    <3>2. ASSUME NEW q \in Players, NEW k \in ArmorSlots, slots'[q][k] # NoItem
          PROVE  slots'[q][k] = slots[q][k]
      BY <1>6, <1>7, <3>2 DEF BodySlots
    <3> QED BY <3>1, <3>2 DEF Worn
  <2>2. \A q \in Players : UNION {Embedded(items'[i]) : i \in Worn(q)'} \subseteq
                               UNION {Embedded(items[i]) : i \in Worn(q)}
    BY <1>8, <2>1
  <2> QED BY <2>2 DEF IInv, NoActiveConflict, Clear, Embedded
<1>12. AlwaysSound'
  <2>1. ASSUME NEW i \in Items PROVE Sound(i, items'[i])
    <3>1. Sound(i, items[i])
      BY DEF IInv, AlwaysSound
    <3>2. items'[i].capacity = items[i].capacity /\ items'[i].enchants = items[i].enchants
      BY <1>4, <1>7
    <3> QED BY <3>1, <3>2, SoundSame
  <2> QED BY <2>1 DEF AlwaysSound, Sound, Occupancy, Embedded, Clear
<1> QED BY <1>9, <1>10, <1>11, <1>12 DEF IInv

\* The rows Equip writes are rows of the locked items with a new place.
LEMMA EquipWrites ==
    ASSUME IInv, NEW s \in Sessions, Equip(s)
    PROVE  LET r == Request(s)
           IN  /\ items' \in [Items -> ItemRow]
               /\ \A i \in Items : /\ items'[i].enchants = items[i].enchants
                                   /\ items'[i].capacity = items[i].capacity
                                   /\ items'[i].soul = items[i].soul
                                   /\ items'[i].until = items[i].until
               /\ items'[r.item].location = "EQUIPPED"
               /\ \A i \in Displaced(r) : items'[i].location = "TOOL_LOCKER"
               /\ \A i \in Items \ (Displaced(r) \cup {r.item}) : items'[i] = items[i]
<1> DEFINE r == Request(s)
           x == r.item
           out == Displaced(r)
           Place(i) == IF i = x THEN "EQUIPPED" ELSE "TOOL_LOCKER"
<1>1. /\ Open(s) /\ Pending(s) = {}
      /\ items' = [i \in Items |->
                    CASE i = x      -> [items[i] EXCEPT !.location = "EQUIPPED"]
                      [] i \in out  -> [items[i] EXCEPT !.location = "TOOL_LOCKER"]
                      [] OTHER      -> items[i]]
  BY DEF Equip, Holds, Request
<1>2. x \in Items /\ r \in Requests /\ TypeOK /\ x \notin out
  BY <1>1, ReadsTrue DEF IInv, Displaced
<1>3. out \subseteq Items
  BY <1>2, WornItems DEF TypeOK
<1>4. \A i \in Items : items[i] \in ItemRow
  BY <1>2 DEF TypeOK
<1> HIDE DEF x, out, r
<1>5. items'[x] = [items[x] EXCEPT !.location = "EQUIPPED"]
  BY <1>1, <1>2
<1>6. \A i \in out : items'[i] = [items[i] EXCEPT !.location = "TOOL_LOCKER"]
  BY <1>1, <1>2, <1>3
<1>7. \A i \in Items \ (out \cup {x}) : items'[i] = items[i]
  BY <1>1
<1>8. /\ items'[x] \in ItemRow /\ items'[x].location = "EQUIPPED"
      /\ items'[x].enchants = items[x].enchants /\ items'[x].capacity = items[x].capacity
      /\ items'[x].soul = items[x].soul /\ items'[x].until = items[x].until
  BY <1>2, <1>4, <1>5, Relocated DEF Locations
<1>9. ASSUME NEW i \in out
      PROVE  /\ items'[i] \in ItemRow /\ items'[i].location = "TOOL_LOCKER"
             /\ items'[i].enchants = items[i].enchants /\ items'[i].capacity = items[i].capacity
             /\ items'[i].soul = items[i].soul /\ items'[i].until = items[i].until
  BY <1>3, <1>4, <1>6, Relocated DEF Locations
<1>10. items' \in [Items -> ItemRow]
  <2>1. \A i \in Items : items'[i] \in ItemRow
    BY <1>4, <1>7, <1>8, <1>9
  <2> QED BY <1>1, <2>1
<1>11. ASSUME NEW i \in Items
       PROVE  /\ items'[i].enchants = items[i].enchants
              /\ items'[i].capacity = items[i].capacity
              /\ items'[i].soul = items[i].soul
              /\ items'[i].until = items[i].until
  BY <1>7, <1>8, <1>9
<1> QED BY <1>7, <1>8, <1>9, <1>10, <1>11 DEF x, out, r

\* Equipping keeps the invariant: what is worn then is within what was validated.
LEMMA EquipKeeps ==
    ASSUME IInv, NEW s \in Sessions, Equip(s)
    PROVE  IInv'
<1> DEFINE r == Request(s)
           x == r.item
           p == Owner(r)
           out == Displaced(r)
           filled == [slots[p] EXCEPT ![SlotOf[x]] = x]
<1>1. /\ Open(s) /\ End(s) /\ Pending(s) = {} /\ ~ Answered(s) /\ r.kind = "EQUIP" /\ Record(s)
      /\ CanEquip(s)
      /\ slots' = [slots EXCEPT ![p] = filled]
      /\ players' = players /\ now' = now
  BY DEF Equip, Holds, Request
<1>2. /\ x \in Items /\ r \in Requests /\ <<"item", x>> \in Held(s) /\ p \in Players
      /\ p = OwnerOf[x] /\ SlotOf[x] \in BodySlots
      /\ <<"player", p>> \in Held(s) /\ Target(s).location = items[x].location
  BY <1>1, ReadsTrue DEF Owner, PlayerLocked
<1>3. TypeOK /\ LoadoutMatches /\ InSlot(r) = slots[p][SlotOf[x]]
  BY DEF IInv, InSlot
<1>4. InSlot(r) # x
  <2>1. items[x].location = "TOOL_LOCKER"
    BY <1>1, <1>2 DEF CanEquip
  <2> QED BY <1>2, <1>3, <2>1 DEF LoadoutMatches
<1>5. out = {slots[p][SlotOf[x]]} \ {NoItem, x} /\ out \subseteq Items
  BY <1>2, <1>3, WornItems DEF Displaced, TypeOK
<1>6. /\ items' \in [Items -> ItemRow]
      /\ \A i \in Items : /\ items'[i].enchants = items[i].enchants
                          /\ items'[i].capacity = items[i].capacity
      /\ items'[x].location = "EQUIPPED"
      /\ \A i \in out : items'[i].location = "TOOL_LOCKER"
      /\ \A i \in Items \ (out \cup {x}) : items'[i] = items[i]
  BY EquipWrites
<1>7. /\ filled \in [BodySlots -> Items \cup {NoItem}]
      /\ \A k \in BodySlots : filled[k] = IF k = SlotOf[x] THEN x ELSE slots[p][k]
  BY <1>2, <1>3 DEF TypeOK
<1>8. \A i \in Items : Embedded(items'[i]) = Embedded(items[i])
  BY <1>6 DEF Embedded
<1>9. \A i \in out : <<"item", i>> \in Held(s)
  BY <1>1, AllHeld DEF LastItems
<1>10. SlotOf[x] \in ArmorSlots =>
           /\ LoadoutClear(task[s].view, Prospective(r))
           /\ \A i \in Prospective(r) : <<"enchants", i>> \in Held(s)
  <2>1. SlotOf[x] \in ArmorSlots => ReadItems(r) = Prospective(r)
    BY <1>1, <1>4 DEF ReadItems
  <2> QED BY <1>1, <2>1, AllHeld DEF CanEquip, Request
<1>11. Prospective(r) = (Worn(p) \ out) \cup {x}
  BY DEF Prospective
<1> HIDE DEF filled, out, x, p, r
<1>12. /\ slots' \in [Players -> [BodySlots -> Items \cup {NoItem}]]
       /\ slots'[p] = filled /\ \A q \in Players \ {p} : slots'[q] = slots[q]
  BY <1>1, <1>2, <1>3, <1>7 DEF TypeOK
<1>13. TypeOK' /\ LocksOK'
  <2>1. operations' \in [Keys -> Requests \cup {NoRow}]
    BY <1>1, Recorded DEF r, Keyed
  <2>2. \A i \in Items : items'[i] # items[i] =>
            <<"item", i>> \in Held(s) /\ Embedded(items'[i]) \subseteq Embedded(items[i])
    BY <1>2, <1>6, <1>8, <1>9
  <2>3. players' \in [Players -> Account] /\ now' \in Nat
    BY <1>1, <1>3 DEF TypeOK
  <2> QED BY <1>1, <1>6, <1>12, <2>1, <2>2, <2>3, Ends
<1>14. LoadoutMatches'
  <2>1. ASSUME NEW i \in Items
        PROVE  (items'[i].location = "EQUIPPED") <=> slots'[OwnerOf[i]][SlotOf[i]] = i
    <3>1. OwnerOf[i] \in Players /\ SlotOf[i] \in BodySlots /\ i # NoItem
      BY OwnersAssumption, NoItemAssumption DEF BodySlots
    <3>2. (items[i].location = "EQUIPPED") <=> slots[OwnerOf[i]][SlotOf[i]] = i
      BY <1>3 DEF LoadoutMatches
    <3>3. CASE i = x
      BY <1>2, <1>6, <1>7, <1>12, <3>1, <3>3
    <3>4. CASE i # x /\ i \in out
      <4>1. i = slots[p][SlotOf[x]]
        BY <1>5, <3>4
      <4>2. OwnerOf[i] = p /\ SlotOf[i] = SlotOf[x]
        BY <1>2, <1>3, <3>1, <4>1 DEF LoadoutMatches
      <4> QED BY <1>2, <1>6, <1>7, <1>12, <3>4, <4>2
    <3>5. CASE i # x /\ i \notin out
      <4>1. CASE OwnerOf[i] = p /\ SlotOf[i] = SlotOf[x]
        <5>1. slots[p][SlotOf[x]] # i
          BY <1>5, <3>1, <3>5
        <5> QED BY <1>2, <1>6, <1>7, <1>12, <3>2, <3>5, <4>1, <5>1
      <4>2. CASE ~ (OwnerOf[i] = p /\ SlotOf[i] = SlotOf[x])
        <5>1. slots'[OwnerOf[i]][SlotOf[i]] = slots[OwnerOf[i]][SlotOf[i]]
          BY <1>7, <1>12, <3>1, <4>2
        <5> QED BY <1>6, <3>2, <3>5, <5>1
      <4> QED BY <4>1, <4>2
    <3> QED BY <3>3, <3>4, <3>5
  <2>2. ASSUME NEW q \in Players, NEW k \in BodySlots, slots'[q][k] # NoItem
        PROVE  OwnerOf[slots'[q][k]] = q /\ SlotOf[slots'[q][k]] = k
    <3>1. CASE q = p /\ k = SlotOf[x]
      BY <1>2, <1>7, <1>12, <3>1
    <3>2. CASE ~ (q = p /\ k = SlotOf[x])
      <4>1. slots'[q][k] = slots[q][k]
        BY <1>7, <1>12, <3>2
      <4> QED BY <1>3, <2>2, <4>1 DEF LoadoutMatches
    <3> QED BY <3>1, <3>2
  <2> QED BY <2>1, <2>2 DEF LoadoutMatches
<1>15. NoActiveConflict'
  <2> SUFFICES ASSUME NEW q \in Players, NEW pair \in LoadoutConflicts,
                      pair \subseteq UNION {Embedded(items'[i]) : i \in Worn(q)'}
               PROVE  FALSE
    BY DEF NoActiveConflict, Clear, Embedded
  <2>1. ASSUME NEW k \in ArmorSlots PROVE k \in BodySlots
    BY DEF BodySlots
  <2>2. Worn(q) \subseteq Items
    BY <1>3, WornItems DEF TypeOK
  <2>3. CASE q # p \/ SlotOf[x] \notin ArmorSlots
    <3>1. Worn(q)' = Worn(q)
      <4>1. \A k \in ArmorSlots : slots'[q][k] = slots[q][k]
        BY <1>7, <1>12, <2>1, <2>3
      <4> QED BY <4>1 DEF Worn
    <3>2. pair \subseteq UNION {Embedded(items[i]) : i \in Worn(q)}
      BY <1>8, <2>2, <3>1
    <3> QED BY <3>2 DEF IInv, NoActiveConflict, Clear
  <2>4. CASE q = p /\ SlotOf[x] \in ArmorSlots
    <3>1. Worn(q)' \subseteq Prospective(r)
      <4>1. ASSUME NEW k \in ArmorSlots, slots'[p][k] # NoItem
            PROVE  slots'[p][k] \in Prospective(r)
        <5>1. CASE k = SlotOf[x]
          BY <1>7, <1>11, <1>12, <2>1, <5>1
        <5>2. CASE k # SlotOf[x]
          <6>1. slots'[p][k] = slots[p][k]
            BY <1>7, <1>12, <2>1, <5>2
          <6>2. slots[p][k] # slots[p][SlotOf[x]]
            BY <1>2, <1>3, <2>1, <4>1, <5>2, <6>1 DEF LoadoutMatches
          <6>3. slots[p][k] \in Worn(p) \ out
            BY <1>5, <4>1, <6>1, <6>2 DEF Worn
          <6> QED BY <1>11, <6>1, <6>3
        <5> QED BY <5>1, <5>2
      <4> QED BY <2>4, <4>1 DEF Worn
    <3>2. ASSUME NEW i \in Prospective(r)
          PROVE  i \in Items /\ Embedded(items[i]) \subseteq Embedded(task[s].view.rows[i])
      <4>1. i \in Items /\ OwnerOf[i] = p
        BY <1>2, <1>3, <1>11, OwnArmor
      <4>2. <<"enchants", i>> \in Held(s)
        BY <1>10, <2>4
      <4> QED BY <1>2, <4>1, <4>2 DEF IInv, LocksOK, Current
    <3>3. pair \subseteq UNION {Embedded(task[s].view.rows[i]) : i \in Prospective(r)}
      <4>1. ASSUME NEW e \in pair
            PROVE  \E i \in Prospective(r) : e \in Embedded(task[s].view.rows[i])
        <5>1. PICK i \in Worn(q)' : e \in Embedded(items'[i])
          OBVIOUS
        <5> QED BY <1>8, <3>1, <3>2, <5>1
      <4> QED BY <4>1
    <3> QED BY <1>10, <2>4, <3>3 DEF LoadoutClear, Clear
  <2> QED BY <2>3, <2>4
<1>16. AlwaysSound'
  <2>1. ASSUME NEW i \in Items PROVE Sound(i, items'[i])
    <3>1. Sound(i, items[i])
      BY DEF IInv, AlwaysSound
    <3> QED BY <1>6, <3>1, SoundSame
  <2> QED BY <2>1 DEF AlwaysSound, Sound, Occupancy, Embedded, Clear
<1> QED BY <1>13, <1>14, <1>15, <1>16 DEF IInv

\* Applying a book keeps the invariant: a pair would lie on the item, which its own check
\* excludes, or across two, which the check against the other worn items excludes.
LEMMA ApplyKeeps ==
    ASSUME IInv, NEW s \in Sessions, Apply(s)
    PROVE  IInv'
<1> DEFINE r == Request(s)
           x == r.item
           p == Owner(r)
           e == r.enchant
           row == Enchanted(items[x], e, r.to)
           view == task[s].view
           others == UNION {Embedded(view.rows[i]) : i \in Worn(p) \ {x}}
<1>1. /\ Open(s) /\ End(s) /\ Pending(s) = {} /\ r.kind = "APPLY" /\ CanApply(s)
      /\ items' = [items EXCEPT ![x] = row]
      /\ slots' = slots /\ players' = players /\ now' = now /\ operations' = operations
  BY DEF Apply, Holds, Request
<1>2. /\ x \in Items /\ r \in Requests /\ <<"item", x>> \in Held(s) /\ p \in Players
      /\ p = OwnerOf[x] /\ <<"player", p>> \in Held(s) /\ Target(s) = items[x]
      /\ e \in Enchants
  BY <1>1, ReadsTrue, RequestsAssumption DEF Owner, PlayerLocked
<1>3. TypeOK /\ LoadoutMatches /\ items[x] \in ItemRow
  BY <1>2 DEF IInv, TypeOK
<1>4. /\ CanEnchant(x, items[x], e, r.to)
      /\ x \in Worn(p) => \A d \in others : {d, e} \notin LoadoutConflicts
  BY <1>1, <1>2 DEF CanApply, Request
<1>5. r.to \in Nat \ {0} /\ Sound(x, row)
  BY <1>2, <1>3, <1>4, EnchantedSound
<1>6. /\ row \in ItemRow /\ row.location = items[x].location
      /\ Embedded(row) = Embedded(items[x]) \cup {e}
  BY <1>2, <1>3, <1>5, PlacedRow
<1>7. \A i \in Worn(p) : <<"enchants", i>> \in Held(s)
  <2>1. Worn(p) \subseteq ReadItems(r)
    BY <1>1 DEF ReadItems, FirstItems
  <2> QED BY <1>1, <2>1, AllHeld
<1>8. Clear(ItemConflicts \cup LoadoutConflicts, Embedded(items[x]) \cup {e})
  BY <1>4 DEF CanEnchant
<1> HIDE DEF row, x, p, e, r
<1>9. /\ items' \in [Items -> ItemRow] /\ items'[x] = row
      /\ \A i \in Items \ {x} : items'[i] = items[i]
  BY <1>1, <1>2, <1>3, <1>6 DEF TypeOK
<1>10. TypeOK' /\ LocksOK'
  <2>1. \A i \in Items : items'[i] # items[i] =>
            <<"item", i>> \in Held(s) /\ <<"player", OwnerOf[i]>> \in Held(s)
    BY <1>2, <1>9
  <2>2. /\ slots' \in [Players -> [BodySlots -> Items \cup {NoItem}]] /\ now' \in Nat
        /\ players' \in [Players -> Account]
        /\ operations' \in [Keys -> Requests \cup {NoRow}]
    BY <1>1, <1>3 DEF TypeOK
  <2> QED BY <1>1, <1>9, <2>1, <2>2, Ends
<1>11. LoadoutMatches'
  BY <1>1, <1>3, <1>6, <1>9 DEF LoadoutMatches
<1>12. NoActiveConflict'
  <2>1. \A q \in Players : Worn(q)' = Worn(q)
    BY <1>1 DEF Worn
  <2> SUFFICES ASSUME NEW q \in Players, NEW pair \in LoadoutConflicts,
                      pair \subseteq UNION {Embedded(items'[i]) : i \in Worn(q)}
               PROVE  FALSE
    BY <2>1 DEF NoActiveConflict, Clear, Embedded
  <2>2. \A i \in Worn(q) : i \in Items /\ OwnerOf[i] = q
    BY <1>3, OwnArmor
  <2>3. ~ pair \subseteq UNION {Embedded(items[i]) : i \in Worn(q)}
    BY DEF IInv, NoActiveConflict, Clear
  <2>4. \A d \in pair \ {e} : \E i \in Worn(q) : d \in Embedded(items[i])
    <3> TAKE d \in pair \ {e}
    <3>1. PICK i \in Worn(q) : d \in Embedded(items'[i])
      OBVIOUS
    <3>2. d \in Embedded(items[i])
      BY <1>6, <1>9, <2>2, <3>1
    <3> QED BY <3>2
  <2>5. e \in pair
    BY <2>3, <2>4
  <2>6. PICK d \in pair : d # e /\ pair = {d, e}
    <3>1. pair \subseteq Enchants /\ Cardinality(pair) = 2 /\ IsFiniteSet(pair)
      BY ConflictsAssumption, EnchantsAssumption, FS_Subset
    <3>2. IsFiniteSet(pair \ {e}) /\ Cardinality(pair \ {e}) = 1
      BY <2>5, <3>1, FS_RemoveElement
    <3>3. PICK d : pair \ {e} = {d}
      BY <3>2, FS_Singleton
    <3> QED BY <2>5, <3>3
  <2>7. x \in Worn(q)
    <3>1. PICK i \in Worn(q) : e \in Embedded(items'[i])
      BY <2>5
    <3>2. CASE i = x
      BY <3>1, <3>2
    <3>3. CASE x \notin Worn(q)
      <4>1. pair \subseteq UNION {Embedded(items[i2]) : i2 \in Worn(q)}
        BY <1>9, <2>2, <3>3
      <4> QED BY <2>3, <4>1
    <3> QED BY <3>2, <3>3
  <2>8. q = p
    BY <1>2, <2>2, <2>7
  <2>9. d \notin Embedded(items[x])
    BY <1>8, <2>6 DEF Clear
  <2>10. PICK i \in Worn(p) : d \in Embedded(items[i])
    BY <2>4, <2>6, <2>8
  <2>11. Embedded(items[i]) \subseteq Embedded(view.rows[i])
    BY <1>2, <1>7, <2>2, <2>8, <2>10 DEF IInv, LocksOK, Current
  <2>12. d \in others
    BY <2>9, <2>10, <2>11
  <2> QED BY <1>4, <2>6, <2>7, <2>8, <2>12
<1>13. AlwaysSound'
  BY <1>5, <1>9 DEF IInv, AlwaysSound, Sound, Occupancy, Embedded, Clear
<1> QED BY <1>10, <1>11, <1>12, <1>13 DEF IInv

\* Every step keeps the invariant.
LEMMA StepHolds == IInv /\ [Next]_vars => IInv'
<1> SUFFICES ASSUME IInv, [Next]_vars PROVE IInv'
  OBVIOUS
<1>1. ASSUME NEW s \in Sessions, Begin(s) \/ Lock(s) \/ Settle(s) \/ Abort(s) PROVE IInv'
  BY <1>1, BeginKeeps, LockKeeps, QuietEnds, EquipKeeps, UnequipKeeps, ApplyKeeps,
     RemoveKeeps, UnlockSlotKeeps, MoveLevelKeeps, BindKeeps, UnbindKeeps DEF Settle
<1>2. CASE UNCHANGED vars
  <2>1. TypeOK' /\ Exclusive'
    BY <1>2 DEF vars, IInv, TypeOK, LocksOK, Exclusive, Held
  <2>2. ASSUME NEW s \in Sessions PROVE InOrder(s)' /\ Current(s)'
    <3>1. InOrder(s) /\ Current(s)
      BY DEF IInv, LocksOK
    <3>2. InOrder(s)'
      BY <1>2, <3>1 DEF vars, InOrder, Held, Open, Request, Owner
    <3> QED BY <1>2, <3>1, <3>2
            DEF vars, Current, Held, Request, Target, PlayerRow, SameBody, Embedded
  <2> QED BY <1>2, <2>1, <2>2, SameLoadout DEF IInv, LocksOK, vars
<1> QED BY <1>1, <1>2, SurroundingsKeep DEF Next

---------------------------------------------------------------------------
(* Theorems.                                                               *)

\* The row locks have one session each, what a session has read of a locked row is
\* the row, and the loadout and the items are sound.
THEOREM EquipmentInvariant == Spec => []IInv
BY InitHolds, StepHolds, PTL DEF Spec

\* Every variable keeps its type, however sessions interleave.
THEOREM Typed == Spec => []TypeOK
BY EquipmentInvariant, PTL DEF IInv

\* item_instances.location and equipment_slots never disagree at a commit.
THEOREM LoadoutStaysMatched == Spec => []LoadoutMatches
BY EquipmentInvariant, PTL DEF IInv

\* Equipping and applying a book never leave two excluded enchants on worn armor.
THEOREM NoConflictIsWorn == Spec => []NoActiveConflict
BY EquipmentInvariant, PTL DEF IInv

\* No writer leaves an item its own validator would reject.
THEOREM ItemsStaySound == Spec => []AlwaysSound
BY EquipmentInvariant, PTL DEF IInv

\* The SoulBind of an item changes by a bind or an unbind of that item alone.
LEMMA SoulMoves ==
    ASSUME IInv, [Next]_vars, NEW i \in Items
    PROVE  \/ items'[i].soul = items[i].soul /\ items'[i].until = items[i].until
           \/ \E s \in Sessions : /\ Bind(s) /\ Request(s).item = i
                                  /\ items'[i] = Bound(items[i])
                                  /\ CanBind(i, items[i], now)
           \/ \E s \in Sessions : /\ Unbind(s) /\ Request(s).item = i
                                  /\ items'[i] = Unbound(items[i], now)
                                  /\ items[i].soul = "BOUND"
<1> DEFINE Kept == items'[i].soul = items[i].soul /\ items'[i].until = items[i].until
<1>0. TypeOK /\ items[i] \in ItemRow
  BY DEF IInv, TypeOK
<1>1. CASE items' = items
  BY <1>1
<1>2. ASSUME NEW s \in Sessions, Equip(s) PROVE Kept
  BY <1>2, EquipWrites
<1> DEFINE Elsewhere(s) == i # task[s].request.item
<1>3. ASSUME NEW s \in Sessions, Unequip(s) PROVE Kept
  <2>1. items' = [items EXCEPT ![Request(s).item].location = "TOOL_LOCKER"]
    BY <1>3 DEF Unequip, Request
  <2>2. CASE i # Request(s).item
    BY <1>0, <2>1, <2>2 DEF TypeOK
  <2>3. CASE i = Request(s).item
    <3>1. items'[i] = [items[i] EXCEPT !.location = "TOOL_LOCKER"]
      BY <1>0, <2>1, <2>3 DEF TypeOK
    <3> QED BY <1>0, <3>1, Relocated DEF Locations
  <2> QED BY <2>2, <2>3
<1>4. ASSUME NEW s \in Sessions, Apply(s) PROVE Kept
  <2> DEFINE r == Request(s)
  <2>1. /\ Open(s) /\ Pending(s) = {} /\ r.kind = "APPLY" /\ CanApply(s)
        /\ items' = [items EXCEPT ![r.item] = Enchanted(@, r.enchant, r.to)]
    BY <1>4 DEF Apply, Holds, Request
  <2>2. r \in Requests /\ r.item \in Items /\ Target(s) = items[r.item]
    BY <2>1, ReadsTrue
  <2>3. r.enchant \in Enchants /\ CanEnchant(r.item, items[r.item], r.enchant, r.to)
    BY <2>1, <2>2, RequestsAssumption DEF CanApply, Request
  <2>4. items'[i] = IF i = r.item THEN Enchanted(items[i], r.enchant, r.to) ELSE items[i]
    BY <1>0, <2>1 DEF TypeOK
  <2>5. i = r.item => r.to \in Nat \ {0}
    BY <1>0, <2>2, <2>3, EnchantedSound
  <2> HIDE DEF r
  <2> QED BY <1>0, <2>3, <2>4, <2>5, PlacedRow
<1>5. ASSUME NEW s \in Sessions, Remove(s) PROVE Kept
  <2> DEFINE r == Request(s)
  <2>1. /\ Open(s) /\ Pending(s) = {} /\ r.kind = "REMOVE"
        /\ items' = [items EXCEPT ![r.item] = Stripped(@, r.enchant)]
    BY <1>5 DEF Remove, Holds, Request
  <2>2. r.enchant \in Enchants
    BY <2>1, ReadsTrue, RequestsAssumption
  <2>3. items'[i] = IF i = r.item THEN Enchanted(items[i], r.enchant, 0) ELSE items[i]
    BY <1>0, <2>1 DEF TypeOK, Stripped, Enchanted
  <2> HIDE DEF r
  <2> QED BY <1>0, <2>2, <2>3, StrippedRow
<1>6. ASSUME NEW s \in Sessions, UnlockSlot(s) PROVE Kept
  <2> DEFINE r == Request(s)
  <2>1. /\ Open(s) /\ Pending(s) = {} /\ r.kind = "ORB"
        /\ CanUnlock(r.item, Target(s), r.family, r.to)
        /\ items' = [items EXCEPT ![r.item] = Unlocked(@, r.family, r.to)]
    BY <1>6 DEF UnlockSlot, Holds, Request
  <2>2. /\ r.family \in Families /\ r.to \in NativeSlots[r.family] + 1 .. MaxSlots[r.family]
        /\ Target(s) = items[r.item]
    BY <2>1, ReadsTrue, RequestsAssumption
  <2>3. items'[i] = IF i = r.item THEN Unlocked(items[i], r.family, r.to) ELSE items[i]
    BY <1>0, <2>1 DEF TypeOK
  <2>4. i = r.item => CanUnlock(i, items[i], r.family, r.to)
    BY <2>1, <2>2
  <2> HIDE DEF r
  <2> QED BY <1>0, <2>2, <2>3, <2>4, UnlockedRow
<1>7. ASSUME NEW s \in Sessions, MoveLevel(s) PROVE Kept
  <2> DEFINE r == Request(s)
  <2>1. /\ CanMoveLevel(r.item, Target(s), r.from, r.to)
        /\ items' = [items EXCEPT ![r.item] = Moved(@, r.to)]
    BY <1>7 DEF MoveLevel, Request
  <2>2. r.to \in 0 .. MaxUpgrade
    BY <2>1 DEF CanMoveLevel
  <2>3. items'[i] = IF i = r.item THEN Moved(items[i], r.to) ELSE items[i]
    BY <1>0, <2>1 DEF TypeOK
  <2> HIDE DEF r
  <2>4. r.to \in Nat
    BY <2>2
  <2>5. items[i] \in ItemRow
    BY <1>0 DEF TypeOK
  <2> DEFINE row == items[i]
             moved == Moved(row, r.to)
  <2>6. /\ moved \in ItemRow /\ moved.enchants = row.enchants
        /\ moved.location = row.location /\ moved.capacity = row.capacity
        /\ moved.soul = row.soul /\ moved.until = row.until
    BY <2>4, <2>5, OtherRows
  <2> HIDE DEF moved
  <2> QED BY <1>0, <2>3, <2>6 DEF moved
<1>8. ASSUME NEW s \in Sessions, Bind(s)
      PROVE  Kept \/ /\ Request(s).item = i
                     /\ items'[i] = Bound(items[i])
                     /\ CanBind(i, items[i], now)
  <2> DEFINE r == Request(s)
  <2>1. /\ Open(s) /\ Pending(s) = {} /\ r.kind = "BIND" /\ CanBind(r.item, Target(s), now)
        /\ items' = [items EXCEPT ![r.item] = Bound(@)]
    BY <1>8 DEF Bind, Holds, Request, CanBindNow
  <2>2. Target(s) = items[r.item]
    BY <2>1, ReadsTrue
  <2>3. items'[i] = IF i = r.item THEN Bound(items[i]) ELSE items[i]
    BY <1>0, <2>1 DEF TypeOK
  <2> QED BY <2>1, <2>2, <2>3
<1>9. ASSUME NEW s \in Sessions, Unbind(s)
      PROVE  Kept \/ /\ Request(s).item = i
                     /\ items'[i] = Unbound(items[i], now)
                     /\ items[i].soul = "BOUND"
  <2> DEFINE r == Request(s)
  <2>1. items' = [items EXCEPT ![r.item] = Unbound(@, now)]
    BY <1>9 DEF Unbind, Request
  <2>2. items[r.item].soul = "BOUND"
    BY <1>9, UnbindCharges
  <2>3. items'[i] = IF i = r.item THEN Unbound(items[i], now) ELSE items[i]
    BY <1>0, <2>1 DEF TypeOK
  <2> QED BY <2>2, <2>3
<1> HIDE DEF Kept
<1>10. \/ items' = items
       \/ \E s \in Sessions : \/ Equip(s) \/ Unequip(s) \/ Apply(s) \/ Remove(s) \/ UnlockSlot(s)
                              \/ MoveLevel(s) \/ Bind(s) \/ Unbind(s)
  BY DEF Next, vars, Begin, Lock, Settle, AnswerFromRow, Refuse, Abort, EquipAgain, SetStatus, Tick
<1> QED BY <1>1, <1>2, <1>3, <1>4, <1>5, <1>6, <1>7, <1>8, <1>9, <1>10 DEF Kept

\* Between an unbind and the next bind of an item lies the whole cooldown.
THEOREM CooldownIsKept == Spec => CooldownHolds
<1>1. ASSUME IInv, [Next]_vars, NEW i \in Items
      PROVE  /\ items'[i].soul = "BOUND" /\ items[i].soul = "UNBOUND" => now >= items[i].until
             /\ items'[i].soul = "UNBOUND" /\ items[i].soul # "UNBOUND" =>
                    items'[i].until = now + Cooldown
             /\ items[i].soul = "UNBOUND" /\ items'[i].soul = "UNBOUND" =>
                    items'[i].until = items[i].until
  <2>0. items[i] \in ItemRow /\ now \in Nat
    BY <1>1 DEF IInv, TypeOK
  <2>1. CASE items'[i].soul = items[i].soul /\ items'[i].until = items[i].until
    BY <2>1
  <2>2. CASE items'[i] = Bound(items[i]) /\ CanBind(i, items[i], now)
    <3>1. items'[i].soul = "BOUND"
      BY <2>0, <2>2, OtherRows
    <3>2. items[i].soul = "UNBOUND" => items[i].until <= now
      BY <2>2 DEF CanBind
    <3>3. items[i].until \in Nat
      BY <2>0 DEF ItemRow
    <3> QED BY <2>0, <3>1, <3>2, <3>3
  <2>3. CASE items'[i] = Unbound(items[i], now) /\ items[i].soul = "BOUND"
    <3>1. items'[i].soul = "UNBOUND" /\ items'[i].until = now + Cooldown
      BY <2>0, <2>3, OtherRows
    <3> QED BY <2>3, <3>1
  <2> QED BY <1>1, <2>1, <2>2, <2>3, SoulMoves
<1>2. IInv /\ [Next]_vars => [\A i \in Items :
          /\ items'[i].soul = "BOUND" /\ items[i].soul = "UNBOUND" => now >= items[i].until
          /\ items'[i].soul = "UNBOUND" /\ items[i].soul # "UNBOUND" =>
                 items'[i].until = now + Cooldown
          /\ items[i].soul = "UNBOUND" /\ items'[i].soul = "UNBOUND" =>
                 items'[i].until = items[i].until]_vars
  BY <1>1
<1> QED BY <1>2, EquipmentInvariant, PTL DEF Spec, CooldownHolds

\* The items of player p that a step unbinds.
Freed(p) == {i \in Items : /\ OwnerOf[i] = p
                           /\ items[i].soul = "BOUND"
                           /\ items'[i].soul = "UNBOUND"}

\* A wallet pays for an unbind, for nothing else, and at the price of the moment.
THEOREM UnbindPaysItsFee == Spec => UnbindPaysCurrent
<1>1. ASSUME IInv, [Next]_vars, NEW p \in Players
      PROVE  IF Freed(p) = {}
             THEN players'[p].wallet = players[p].wallet
             ELSE \E i \in Freed(p) :
                     /\ Freed(p) = {i}
                     /\ players'[p].wallet =
                            players[p].wallet - UnbindFee(i, items[i])
  <2>1. ASSUME NEW s \in Sessions, Unbind(s)
        PROVE  IF p = Owner(Request(s))
               THEN /\ Freed(p) = {Request(s).item}
                    /\ players'[p].wallet = players[p].wallet
                                                - UnbindFee(Request(s).item, items[Request(s).item])
               ELSE Freed(p) = {} /\ players'[p] = players[p]
    <3> DEFINE r == Request(s)
    <3>1. /\ r.item \in Items /\ items[r.item].soul = "BOUND"
          /\ items' = [items EXCEPT ![r.item] = Unbound(@, now)]
          /\ items \in [Items -> ItemRow] /\ now \in Nat
      BY <1>1, <2>1, UnbindCharges DEF Unbind, Request, IInv, TypeOK
    <3>2. items'[r.item].soul = "UNBOUND" /\ \A j \in Items \ {r.item} : items'[j] = items[j]
      BY <3>1, OtherRows
    <3>3. \A j \in Items : items[j].soul = "BOUND" /\ items'[j].soul = "UNBOUND" <=> j = r.item
      BY <3>1, <3>2
    <3>4. Freed(p) = IF p = Owner(r) THEN {r.item} ELSE {}
      BY <3>1, <3>3 DEF Freed, Owner
    <3>5. /\ players'[Owner(r)] = [status |-> players[Owner(r)].status,
                                  wallet |-> players[Owner(r)].wallet
                                                 - UnbindFee(r.item, items[r.item])]
          /\ \A q \in Players \ {Owner(r)} : players'[q] = players[q]
      BY <1>1, <2>1, UnbindCharges
    <3>6. CASE p = Owner(r)
      <4>1. players'[p].wallet = players[p].wallet - UnbindFee(r.item, items[r.item])
        BY <3>5, <3>6
      <4> QED BY <3>4, <3>6, <4>1
    <3>7. CASE p # Owner(r)
      BY <3>4, <3>5, <3>7
    <3> QED BY <3>6, <3>7
  <2>2. ASSUME ~ \E s \in Sessions : Unbind(s)
        PROVE  Freed(p) = {} /\ players'[p].wallet = players[p].wallet
    <3>1. \A i \in Items : ~ (items[i].soul = "BOUND" /\ items'[i].soul = "UNBOUND")
      <4> TAKE i \in Items
      <4>1. items[i] \in ItemRow
        BY <1>1 DEF IInv, TypeOK
      <4>2. items'[i].soul = items[i].soul \/ items'[i] = Bound(items[i])
        BY <1>1, <2>2, SoulMoves
      <4>3. Bound(items[i]).soul = "BOUND"
        BY <4>1, OtherRows
      <4> QED BY <4>2, <4>3
    <3>2. players'[p].wallet = players[p].wallet
      <4>1. CASE players' = players
        BY <4>1
      <4>2. ASSUME NEW q \in Players, NEW status \in Statuses, SetStatus(q, status)
            PROVE  players'[p].wallet = players[p].wallet
        BY <1>1, <4>2 DEF SetStatus, IInv, TypeOK, Account
      <4> QED BY <1>1, <2>2, <4>1, <4>2
              DEF Next, vars, Begin, Lock, Settle, AnswerFromRow, Refuse, Abort, Equip,
                  EquipAgain, Unequip, Apply, Remove, UnlockSlot, MoveLevel, Bind, Tick
    <3> QED BY <3>1, <3>2 DEF Freed
  <2>3. CASE \E s \in Sessions : Unbind(s)
    <3>1. PICK s \in Sessions : Unbind(s)
      BY <2>3
    <3> QED BY <2>1, <3>1
  <2> QED BY <2>2, <2>3
<1>2. IInv /\ [Next]_vars =>
      [\A p \in Players :
          LET freed == {i \in Items : /\ OwnerOf[i] = p
                                      /\ items[i].soul = "BOUND"
                                      /\ items'[i].soul = "UNBOUND"}
          IN  IF freed = {}
              THEN players'[p].wallet = players[p].wallet
              ELSE \E i \in freed :
                      /\ freed = {i}
                      /\ players'[p].wallet =
                             players[p].wallet - UnbindFee(i, items[i])]_vars
  BY <1>1 DEF Freed
<1> QED BY <1>2, EquipmentInvariant, PTL DEF Spec, UnbindPaysCurrent

\* A slot changes with the record of one new equip or unequip, and with no other step.
THEOREM LoadoutChangesWithRecord == Spec => LoadoutChangesOnce
<1>1. ASSUME IInv, [Next]_vars, slots' # slots
      PROVE  \E k \in Keys :
                 /\ operations[k] = NoRow
                 /\ operations'[k] # NoRow
                 /\ operations'[k].kind \in {"EQUIP", "UNEQUIP"}
                 /\ \A other \in Keys \ {k} : operations'[other] = operations[other]
  <2>1. PICK s \in Sessions : Equip(s) \/ Unequip(s)
    BY <1>1 DEF Next, vars, Begin, Lock, Settle, AnswerFromRow, Refuse, Abort, EquipAgain, Apply,
                Remove, UnlockSlot, MoveLevel, Bind, Unbind, SetStatus, Tick
  <2>2. /\ Open(s) /\ Pending(s) = {} /\ ~ Answered(s) /\ Record(s)
        /\ Request(s).kind \in {"EQUIP", "UNEQUIP"}
    BY <2>1 DEF Equip, Unequip, Holds, Request
  <2>3. /\ task[s].key \in Keys /\ operations[task[s].key] = NoRow
        /\ operations'[task[s].key] = Request(s) /\ Request(s) \in Requests
        /\ \A k \in Keys \ {task[s].key} : operations'[k] = operations[k]
    BY <1>1, <2>2, Recorded, ReadsTrue DEF Keyed
  <2> QED BY <2>2, <2>3, NoRowAssumption
<1>2. IInv /\ [Next]_vars => [slots' # slots =>
          \E k \in Keys :
              /\ operations[k] = NoRow
              /\ operations'[k] # NoRow
              /\ operations'[k].kind \in {"EQUIP", "UNEQUIP"}
              /\ \A other \in Keys \ {k} : operations'[other] = operations[other]]_vars
  BY <1>1
<1> QED BY <1>2, EquipmentInvariant, PTL DEF Spec, LoadoutChangesOnce

\* A frozen or deleted player's loadout stands still.
THEOREM FrozenLoadoutStands == Spec => FrozenLoadoutKept
<1>1. ASSUME IInv, [Next]_vars, NEW p \in Players, players[p].status # "ACTIVE"
      PROVE  slots'[p] = slots[p]
  <2>1. ASSUME NEW s \in Sessions, Equip(s) \/ Unequip(s) PROVE slots'[p] = slots[p]
    <3>1. /\ Open(s) /\ Pending(s) = {} /\ Request(s).kind \in PlayerLocked /\ Active(s)
      BY <2>1 DEF Equip, Unequip, CanEquip, CanUnequip, Holds, Request, PlayerLocked
    <3>2. p # Owner(Request(s)) /\ Owner(Request(s)) \in Players
      BY <1>1, <3>1, ReadsTrue DEF Active
    <3> QED BY <1>1, <2>1, <3>2 DEF Equip, Unequip, Request, IInv, TypeOK
  <2> QED BY <1>1, <2>1
      DEF Next, vars, Begin, Lock, Settle, AnswerFromRow, Refuse, Abort, EquipAgain, Apply,
          Remove, UnlockSlot, MoveLevel, Bind, Unbind, SetStatus, Tick
<1>2. IInv /\ [Next]_vars =>
      [\A p \in Players : players[p].status # "ACTIVE" => slots'[p] = slots[p]]_vars
  BY <1>1
<1> QED BY <1>2, EquipmentInvariant, PTL DEF Spec, FrozenLoadoutKept

---------------------------------------------------------------------------
(* Waits.  Equipping locks an item after the enchants of others, and the   *)
(* writers of one item take its enchants after the item, so no order of    *)
(* the rows rules out a deadlock.  What does is whose the rows are.        *)

\* A session waits for another that holds the lock it asks for next.
WaitsFor(s, t) ==
    /\ s # t /\ Open(s) /\ ~ Answered(s)
    /\ \E lock \in Held(t) : Asks(s, lock) /\ InTheWay(t, lock)

\* A session has something to do: to lock a free row, or to answer or settle.
Goes(s) ==
    \/ Answered(s) \/ Pending(s) = {}
    \/ \E lock : Asks(s, lock) /\ Free(s, lock)

\* Whoever cannot go waits for somebody, and of four sessions in a row that wait for
\* the next one the last waits for nobody: no wait closes a cycle.
WaitsEnd ==
    /\ \A s \in Sessions : Open(s) => Goes(s) \/ \E t \in Sessions : WaitsFor(s, t)
    /\ \A s, t, u, v, w \in Sessions :
           ~ (WaitsFor(s, t) /\ WaitsFor(t, u) /\ WaitsFor(u, v) /\ WaitsFor(v, w))

HasKey(s) == <<"operation", task[s].key>> \in Held(s)
HasOwner(s) == <<"player", Owner(Request(s))>> \in Held(s)

\* The locks a session has: its key, its player, and items of its player or their
\* enchants, behind the player row or else of the one item of the request.  Enchants
\* without their item are of an equip, and not of the item that is to go.
Mine(s) ==
    LET r == Request(s)
    IN  /\ \A lock \in Held(s) :
               \/ lock = <<"operation", task[s].key>> /\ r.kind \in Keyed
               \/ lock = <<"player", Owner(r)>> /\ r.kind \in PlayerLocked
               \/ \E i \in Items : OwnerOf[i] = Owner(r)
                                   /\ lock \in {<<"item", i>>, <<"enchants", i>>}
        /\ r.kind \in Keyed /\ Held(s) # {} => HasKey(s)
        /\ \A i \in Items :
               <<"item", i>> \in Held(s) \/ <<"enchants", i>> \in Held(s) =>
                   IF r.kind \in PlayerLocked THEN HasOwner(s) ELSE i = r.item
        /\ \A i \in Items :
               <<"enchants", i>> \in Held(s) =>
                   IF r.kind = "EQUIP" THEN i \notin Displaced(r) ELSE <<"item", i>> \in Held(s)

WInv == IInv /\ \A s \in Sessions : Mine(s)

\* The lock a session asks for next, and what its handler has taken before.
LEMMA LockOrder ==
    ASSUME NEW s \in Sessions, NEW lock, Asks(s, lock)
    PROVE  LET r == Request(s)
               first == /\ r.kind \in Keyed => HasKey(s)
                        /\ r.kind \in PlayerLocked => HasOwner(s)
           IN  /\ lock \notin Held(s)
               /\ \/ lock = <<"operation", task[s].key>> /\ r.kind \in Keyed
                  \/ /\ lock = <<"player", Owner(r)>> /\ r.kind \in PlayerLocked
                     /\ r.kind \in Keyed => HasKey(s)
                  \/ \E i \in FirstItems(r) \cup LastItems(r) : lock = <<"item", i>> /\ first
                  \/ \E i \in ReadItems(r) :
                         /\ lock = <<"enchants", i>> /\ first
                         /\ \A j \in FirstItems(r) : <<"item", j>> \in Held(s)
<1> DEFINE r == Request(s)
           stages == Stages(r, task[s].key)
<1>1. PICK n \in Pending(s) : /\ \A m \in Pending(s) : n <= m
                              /\ lock \in stages[n] \ Held(s)
  BY DEF Asks, Held, Request
<1>2. n \in 1 .. 5 /\ \A m \in 1 .. 5 : m < n => stages[m] \subseteq Held(s)
  BY <1>1 DEF Pending, Stages, Held, Request
<1>3. /\ stages[1] = IF r.kind \in Keyed THEN {<<"operation", task[s].key>>} ELSE {}
      /\ stages[2] = IF r.kind \in PlayerLocked THEN {<<"player", Owner(r)>>} ELSE {}
      /\ stages[3] = ItemLocks(FirstItems(r))
      /\ stages[4] = EnchantLocks(ReadItems(r))
      /\ stages[5] = ItemLocks(LastItems(r))
  BY DEF Stages
<1> HIDE DEF stages, r
<1>4. n > 1 => (r.kind \in Keyed => HasKey(s))
  <2>1. n > 1 => stages[1] \subseteq Held(s)
    BY <1>2
  <2> QED BY <1>3, <2>1 DEF HasKey
<1>5. n > 2 => (r.kind \in PlayerLocked => HasOwner(s))
  <2>1. n > 2 => stages[2] \subseteq Held(s)
    BY <1>2
  <2> QED BY <1>3, <2>1 DEF HasOwner, r
<1>6. n > 3 => \A j \in FirstItems(r) : <<"item", j>> \in Held(s)
  <2>1. n > 3 => stages[3] \subseteq Held(s)
    BY <1>2
  <2> QED BY <1>3, <2>1 DEF ItemLocks
<1>7. CASE n = 1
  BY <1>1, <1>3, <1>7 DEF r
<1>8. CASE n = 2
  BY <1>1, <1>3, <1>4, <1>8 DEF r
<1>9. CASE n = 3
  BY <1>1, <1>3, <1>4, <1>5, <1>9 DEF r, ItemLocks
<1>10. CASE n = 4
  BY <1>1, <1>3, <1>4, <1>5, <1>6, <1>10 DEF r, EnchantLocks
<1>11. CASE n = 5
  BY <1>1, <1>3, <1>4, <1>5, <1>11 DEF r, ItemLocks
<1> QED BY <1>2, <1>7, <1>8, <1>9, <1>10, <1>11

\* A session that has all that it asks for, or asks for a free row, goes; another
\* waits for whoever has the row.
LEMMA WaitsForSomebody ==
    ASSUME TypeOK, NEW s \in Sessions, Open(s), Request(s) \in Requests
    PROVE  Goes(s) \/ \E t \in Sessions : WaitsFor(s, t)
<1> DEFINE r == Request(s)
           stages == Stages(r, task[s].key)
           rest(n) == stages[n] \ Held(s)
<1> SUFFICES ASSUME Pending(s) # {}, ~ Answered(s) PROVE Goes(s) \/ \E t \in Sessions : WaitsFor(s, t)
  BY DEF Goes
<1>1. PICK n \in Pending(s) : \A m \in Pending(s) : n <= m
  <2>1. Pending(s) \subseteq 1 .. 5
    BY DEF Pending, Stages
  <2> HIDE DEF stages
  <2> QED BY <2>1
<1>2. n \in 1 .. 5 /\ rest(n) # {}
  BY <1>1 DEF Pending, Stages, Held, Request
<1>3. /\ stages[1] = IF r.kind \in Keyed THEN {<<"operation", task[s].key>>} ELSE {}
      /\ stages[2] = IF r.kind \in PlayerLocked THEN {<<"player", Owner(r)>>} ELSE {}
      /\ stages[3] = ItemLocks(FirstItems(r))
      /\ stages[4] = EnchantLocks(ReadItems(r))
      /\ stages[5] = ItemLocks(LastItems(r))
  BY DEF Stages
<1>4. r \in Requests /\ FirstItems(r) \subseteq Items /\ ReadItems(r) \subseteq Items
      /\ LastItems(r) \subseteq Items
  BY WornItems DEF TypeOK
<1>5. Items \subseteq Nat
  BY ItemsAssumption
<1> HIDE DEF stages, r
<1>6. PICK lock \in rest(n) : \A other \in rest(n) \ {lock} : lock[2] < other[2]
  <2>1. CASE n \in {1, 2}
    <3>1. \A a, b \in rest(n) : a = b
      BY <1>3, <2>1
    <3> QED BY <1>2, <3>1
  <2>2. CASE n \in 3 .. 5
    <3> DEFINE what == IF n = 4 THEN "enchants" ELSE "item"
               T == {i \in Items : <<what, i>> \in rest(n)}
    <3>1. \A a \in rest(n) : a = <<what, a[2]>> /\ a[2] \in T
      BY <1>3, <1>4, <2>2 DEF ItemLocks, EnchantLocks
    <3>2. T # {} /\ T \subseteq Nat
      BY <1>2, <1>5, <3>1
    <3> HIDE DEF T
    <3>3. PICK x \in T : \A y \in T : ~ (<<y, x>> \in OpToRel(<, Nat))
      BY <3>2, NatLessThanWellFounded, WFMin
    <3>4. \A y \in T : ~ (y < x)
      BY <3>2, <3>3 DEF OpToRel
    <3>5. <<what, x>> \in rest(n)
      BY DEF T
    <3>6. ASSUME NEW other \in rest(n), other # <<what, x>> PROVE x < other[2]
      <4>1. other = <<what, other[2]>> /\ other[2] \in T
        BY <3>1
      <4>2. other[2] # x /\ other[2] \in Nat /\ x \in Nat
        BY <3>2, <3>6, <4>1
      <4> QED BY <3>4, <4>1, <4>2
    <3> QED BY <3>5, <3>6
  <2> QED BY <1>2, <2>1, <2>2
<1>7. Asks(s, lock)
  BY <1>1, <1>6 DEF Asks, Held, Request, stages, r
<1>8. CASE Free(s, lock)
  BY <1>7, <1>8 DEF Goes
<1>9. CASE ~ Free(s, lock)
  <2>1. PICK t \in Sessions \ {s} : InTheWay(t, lock)
    BY <1>9 DEF Free
  <2> QED BY <1>7, <2>1 DEF WaitsFor, InTheWay, Held
<1> QED BY <1>8, <1>9

\* The worn armor of a player, and what is displaced, are the player's.
LEMMA OwnItems ==
    ASSUME IInv, NEW r \in Requests
    PROVE  /\ r.item \in Items /\ Owner(r) \in Players /\ OwnerOf[r.item] = Owner(r)
           /\ FirstItems(r) \subseteq Items /\ ReadItems(r) \subseteq Items
           /\ LastItems(r) \subseteq Items
           /\ \A i \in FirstItems(r) \cup ReadItems(r) \cup LastItems(r) : OwnerOf[i] = Owner(r)
<1>1. r.item \in Items /\ Owner(r) \in Players /\ OwnerOf[r.item] = Owner(r)
  BY RequestsAssumption, OwnersAssumption DEF Owner
<1>2. /\ FirstItems(r) \subseteq Items /\ ReadItems(r) \subseteq Items
      /\ LastItems(r) \subseteq Items /\ ArmorSlots \subseteq BodySlots
      /\ SlotOf[r.item] \in BodySlots
  BY <1>1, WornItems DEF IInv, TypeOK, BodySlots
<1>3. \A i \in Worn(Owner(r)) : OwnerOf[i] = Owner(r)
  BY <1>1, <1>2 DEF Worn, IInv, LoadoutMatches
<1>4. \A i \in Displaced(r) : OwnerOf[i] = Owner(r)
  BY <1>1, <1>2 DEF Displaced, InSlot, IInv, LoadoutMatches
<1>5. \A i \in FirstItems(r) : OwnerOf[i] = Owner(r)
  BY <1>1, <1>3 DEF FirstItems
<1>6. \A i \in Prospective(r) : OwnerOf[i] = Owner(r)
  BY <1>1, <1>3 DEF Prospective
<1>7. \A i \in ReadItems(r) : OwnerOf[i] = Owner(r)
  BY <1>5, <1>6 DEF ReadItems
<1>8. \A i \in LastItems(r) : OwnerOf[i] = Owner(r)
  BY <1>4 DEF LastItems
<1> QED BY <1>1, <1>2, <1>5, <1>7, <1>8

\* The locks of a session stay its own while its player's slots do.
LEMMA MineStays ==
    ASSUME NEW s \in Sessions, Mine(s), task'[s] = task[s],
           HasOwner(s) => slots'[Owner(Request(s))] = slots[Owner(Request(s))]
    PROVE  Mine(s)'
<1> DEFINE r == Request(s)
<1>1. /\ Held(s)' = Held(s) /\ Request(s)' = r /\ task'[s].key = task[s].key
      /\ Owner(r)' = Owner(r) /\ Owner(Request(s))' = Owner(r)
      /\ HasKey(s)' = HasKey(s) /\ HasOwner(s)' = HasOwner(s)
  BY DEF Held, Request, Owner, HasKey, HasOwner
<1>2. HasOwner(s) => Displaced(r)' = Displaced(r)
  BY <1>1 DEF Displaced, InSlot, Owner
<1>3. \A i \in Items : <<"enchants", i>> \in Held(s) /\ r.kind = "EQUIP" => i \notin Displaced(r)'
  BY <1>2 DEF Mine, PlayerLocked
<1>4. Displaced(Request(s))' = Displaced(r)'
  BY <1>1 DEF Displaced, InSlot, Owner
<1> QED BY <1>1, <1>3, <1>4 DEF Mine

\* What a session is granted is its own too.
LEMMA MineGrows ==
    ASSUME IInv, NEW s \in Sessions, Mine(s), Lock(s)
    PROVE  Mine(s)'
<1> DEFINE r == Request(s)
           key == <<"operation", task[s].key>>
           owner == <<"player", Owner(r)>>
<1>1. PICK lock : Asks(s, lock) /\ task' = [task EXCEPT ![s].held = @ \cup {lock},
                                                        ![s].view = Seen(@, lock)]
  BY DEF Lock
<1>2. /\ Held(s)' = Held(s) \cup {lock} /\ Request(s)' = r /\ task'[s].key = task[s].key
      /\ r \in Requests
  <2>1. r \in Requests
    BY DEF IInv, LocksOK, InOrder, Lock
  <2>2. /\ task = [t \in Sessions |-> task[t]]
        /\ task[s] \in [phase : {"IDLE", "OPEN"}, request : Requests \cup {NoRequest},
                        key : Keys \cup {NoKey},
                        held : SUBSET ({"operation", "player", "item", "enchants"}
                                           \X (Keys \cup Players \cup Items)),
                        view : View]
    BY DEF IInv, TypeOK, View
  <2> DEFINE seen == Seen(task[s].view, lock)
  <2>3. task' = [task EXCEPT ![s].held = @ \cup {lock}, ![s].view = seen]
    BY <1>1
  <2> HIDE DEF seen
  <2>4. task'[s] = [task[s] EXCEPT !.held = @ \cup {lock}, !.view = seen]
    BY <2>2, <2>3
  <2> QED BY <2>1, <2>2, <2>4 DEF Held, Request
<1>3. /\ Displaced(Request(s))' = Displaced(r) /\ Owner(Request(s))' = Owner(r)
      /\ HasKey(s)' <=> key \in Held(s) \cup {lock}
      /\ HasOwner(s)' <=> owner \in Held(s) \cup {lock}
  BY <1>2 DEF Displaced, InSlot, Owner, HasKey, HasOwner, Lock
<1>4. /\ \A l \in Held(s) : \/ l = key /\ r.kind \in Keyed
                            \/ l = owner /\ r.kind \in PlayerLocked
                            \/ \E i \in Items : OwnerOf[i] = Owner(r)
                                                /\ l \in {<<"item", i>>, <<"enchants", i>>}
      /\ r.kind \in Keyed /\ Held(s) # {} => key \in Held(s)
      /\ \A i \in Items :
             <<"item", i>> \in Held(s) \/ <<"enchants", i>> \in Held(s) =>
                 IF r.kind \in PlayerLocked THEN owner \in Held(s) ELSE i = r.item
      /\ \A i \in Items :
             <<"enchants", i>> \in Held(s) =>
                 IF r.kind = "EQUIP" THEN i \notin Displaced(r) ELSE <<"item", i>> \in Held(s)
  BY DEF Mine, HasKey, HasOwner
<1> DEFINE first == /\ r.kind \in Keyed => key \in Held(s)
                    /\ r.kind \in PlayerLocked => owner \in Held(s)
<1>5. \/ lock = key /\ r.kind \in Keyed
      \/ lock = owner /\ r.kind \in PlayerLocked /\ (r.kind \in Keyed => key \in Held(s))
      \/ \E i \in FirstItems(r) \cup LastItems(r) : lock = <<"item", i>> /\ first
      \/ \E i \in ReadItems(r) : /\ lock = <<"enchants", i>> /\ first
                                 /\ \A j \in FirstItems(r) : <<"item", j>> \in Held(s)
  <2>1. HasKey(s) = (key \in Held(s)) /\ HasOwner(s) = (owner \in Held(s))
    BY DEF HasKey, HasOwner
  <2>2. Asks(s, lock)
    BY <1>1
  <2> QED BY <2>1, <2>2, LockOrder, Zenon
<1>6. /\ FirstItems(r) \subseteq Items /\ ReadItems(r) \subseteq Items /\ LastItems(r) \subseteq Items
      /\ \A i \in FirstItems(r) \cup ReadItems(r) \cup LastItems(r) : OwnerOf[i] = Owner(r)
  BY <1>2, OwnItems
<1>7. /\ r.kind \notin PlayerLocked => /\ FirstItems(r) \cup LastItems(r) \subseteq {r.item}
                                       /\ ReadItems(r) \subseteq {r.item}
      /\ r.kind = "EQUIP" => \A i \in ReadItems(r) : i \notin Displaced(r)
      /\ r.kind # "EQUIP" => ReadItems(r) \subseteq FirstItems(r)
  BY DEF PlayerLocked, FirstItems, LastItems, ReadItems, Prospective, Displaced
<1> DEFINE held == Held(s) \cup {lock}
<1> HIDE DEF r, key, owner
<1>8. \A l \in held : \/ l = key /\ r.kind \in Keyed
                      \/ l = owner /\ r.kind \in PlayerLocked
                      \/ \E i \in Items : OwnerOf[i] = Owner(r)
                                          /\ l \in {<<"item", i>>, <<"enchants", i>>}
  <2>1. \/ lock = key /\ r.kind \in Keyed
        \/ lock = owner /\ r.kind \in PlayerLocked
        \/ \E i \in Items : OwnerOf[i] = Owner(r) /\ lock \in {<<"item", i>>, <<"enchants", i>>}
    BY <1>5, <1>6
  <2> QED BY <1>4, <2>1
<1>9. r.kind \in Keyed => key \in held
  BY <1>5
<1>10. ASSUME NEW i \in Items, <<"item", i>> \in held \/ <<"enchants", i>> \in held
       PROVE  IF r.kind \in PlayerLocked THEN owner \in held ELSE i = r.item
  <2>1. CASE <<"item", i>> \in Held(s) \/ <<"enchants", i>> \in Held(s)
    BY <1>4, <2>1
  <2>2. CASE <<"item", i>> = lock \/ <<"enchants", i>> = lock
    <3>1. first /\ i \in FirstItems(r) \cup LastItems(r) \cup ReadItems(r)
      BY <1>5, <2>2 DEF key, owner
    <3> QED BY <1>7, <3>1
  <2> QED BY <1>10, <2>1, <2>2
<1>11. ASSUME NEW i \in Items, <<"enchants", i>> \in held
       PROVE  IF r.kind = "EQUIP" THEN i \notin Displaced(r) ELSE <<"item", i>> \in held
  <2>1. CASE <<"enchants", i>> \in Held(s)
    BY <1>4, <2>1
  <2>2. CASE <<"enchants", i>> = lock
    <3>1. i \in ReadItems(r) /\ \A j \in FirstItems(r) : <<"item", j>> \in Held(s)
      BY <1>5, <2>2 DEF key, owner
    <3> QED BY <1>7, <3>1
  <2> QED BY <1>11, <2>1, <2>2
<1> QED BY <1>2, <1>3, <1>8, <1>9, <1>10, <1>11 DEF Mine, key, owner, r

\* The slots of a player change in the hands of who has locked the player row.
LEMMA SlotsOfOwner ==
    ASSUME IInv, [Next]_vars, NEW t \in Sessions, HasOwner(t), task'[t] = task[t],
           Request(t) \in Requests
    PROVE  slots'[Owner(Request(t))] = slots[Owner(Request(t))]
<1>1. Owner(Request(t)) \in Players
  BY OwnItems
<1>2. ASSUME NEW s \in Sessions, Equip(s) \/ Unequip(s)
      PROVE  slots'[Owner(Request(t))] = slots[Owner(Request(t))]
  <2>1. /\ Open(s) /\ Pending(s) = {} /\ Request(s).kind \in PlayerLocked /\ End(s)
    BY <1>2 DEF Equip, Unequip, Holds, Request, PlayerLocked
  <2>2. HasOwner(s) /\ Owner(Request(s)) \in Players
    BY <2>1, ReadsTrue DEF HasOwner
  <2>3. s # t
    <3>1. task'[s] = IdleTask
      BY <2>1 DEF End, IInv, TypeOK
    <3> QED BY <2>2, <3>1 DEF HasOwner, Held, IdleTask, NewTask
  <2>4. Owner(Request(s)) # Owner(Request(t))
    BY <2>2, <2>3 DEF HasOwner, IInv, LocksOK, Exclusive
  <2> QED BY <1>1, <1>2, <2>2, <2>4 DEF Equip, Unequip, Request, IInv, TypeOK
<1> QED BY <1>2
    DEF Next, vars, Begin, Lock, Settle, AnswerFromRow, Refuse, Abort, EquipAgain, Apply,
        Remove, UnlockSlot, MoveLevel, Bind, Unbind, SetStatus, Tick

\* A step of one session leaves what another holds as it is.
LEMMA MineHolds == WInv /\ [Next]_vars => WInv'
<1> SUFFICES ASSUME WInv, [Next]_vars PROVE WInv'
  OBVIOUS
<1>1. IInv /\ IInv' /\ TypeOK
  BY StepHolds DEF WInv, IInv
<1>2. ASSUME NEW s \in Sessions PROVE Mine(s)'
  <2>1. CASE task'[s] = task[s]
    <3>1. HasOwner(s) => Request(s) \in Requests
      BY <1>1 DEF HasOwner, IInv, LocksOK, InOrder
    <3> QED BY <1>1, <1>2, <2>1, <3>1, SlotsOfOwner, MineStays DEF WInv
  <2>2. CASE task'[s].held = {}
    BY <2>2 DEF Mine, Held
  <2>3. CASE Lock(s)
    BY <1>1, <2>3, MineGrows DEF WInv
  <2>4. \/ task'[s] = task[s] \/ task'[s].held = {} \/ Lock(s)
    <3>1. ASSUME NEW t \in Sessions, Begin(t) PROVE task'[s] = task[s] \/ task'[s].held = {}
      BY <1>1, <3>1 DEF Begin, TypeOK, NewTask
    <3>2. ASSUME NEW t \in Sessions, End(t) PROVE task'[s] = task[s] \/ task'[s].held = {}
      BY <1>1, <3>2 DEF End, TypeOK, IdleTask, NewTask
    <3>3. ASSUME NEW t \in Sessions, Lock(t), t # s PROVE task'[s] = task[s]
      BY <1>1, <3>3 DEF Lock, TypeOK
    <3>4. ASSUME NEW t \in Sessions, Settle(t) \/ Abort(t) PROVE End(t)
      BY <3>4 DEF Settle, Abort, AnswerFromRow, Refuse, Equip, EquipAgain, Unequip, Apply,
                  Remove, UnlockSlot, MoveLevel, Bind, Unbind
    <3>5. CASE UNCHANGED task
      BY <3>5
    <3> QED BY <3>1, <3>2, <3>3, <3>4, <3>5 DEF Next, vars, SetStatus, Tick
  <2> QED BY <2>1, <2>2, <2>3, <2>4
<1> QED BY <1>1, <1>2 DEF WInv

Waiting(s) == \E t \in Sessions : WaitsFor(s, t)

\* How far a session has come: nothing locked, something, the player, or free to go.
Rank(s) ==
    IF ~ Waiting(s) THEN 3 ELSE IF HasOwner(s) THEN 2 ELSE IF Held(s) # {} THEN 1 ELSE 0

\* Two sessions do not have one player, nor one item.
LEMMA Apart ==
    ASSUME WInv, NEW s \in Sessions, NEW t \in Sessions, s # t
    PROVE  /\ HasOwner(s) /\ HasOwner(t) => Owner(Request(s)) # Owner(Request(t))
           /\ \A i \in Items : ~ (<<"item", i>> \in Held(s) /\ <<"item", i>> \in Held(t))
BY DEF WInv, IInv, LocksOK, Exclusive, HasOwner

\* What holds up a session that has its player row is a writer of one item, and that
\* one waits for nobody.
LEMMA WriterGoes ==
    ASSUME WInv, NEW s \in Sessions, NEW t \in Sessions, WaitsFor(s, t), HasOwner(s)
    PROVE  ~ Waiting(t)
<1> DEFINE r == Request(s)
           q == Request(t)
<1>1. PICK lock \in Held(t) : Asks(s, lock)
  BY DEF WaitsFor
<1>2. /\ s # t /\ Mine(s) /\ Mine(t) /\ Open(s) /\ r \in Requests /\ Held(t) # {}
      /\ InOrder(s) /\ InOrder(t)
  BY <1>1 DEF WaitsFor, WInv, IInv, LocksOK, InOrder
<1>3. /\ q \in Requests /\ lock \notin Held(s)
      /\ r.kind \in Keyed => HasKey(s)
  <2>1. q \in Requests
    BY <1>2 DEF InOrder
  <2>2. lock \notin Held(s)
    BY <1>1, LockOrder
  <2>3. r.kind \in Keyed => HasKey(s)
    BY <1>2 DEF Mine, HasOwner
  <2> QED BY <2>1, <2>2, <2>3
<1>4. PICK i \in Items : /\ OwnerOf[i] = Owner(r)
                         /\ \/ lock = <<"item", i>> /\ i \in FirstItems(r) \cup LastItems(r)
                            \/ lock = <<"enchants", i>>
  <2>1. /\ lock # <<"operation", task[s].key>> \/ r.kind \notin Keyed
        /\ lock # <<"player", Owner(r)>>
    BY <1>3 DEF HasKey, HasOwner
  <2>2. \/ \E i \in FirstItems(r) \cup LastItems(r) : lock = <<"item", i>>
        \/ \E i \in ReadItems(r) : lock = <<"enchants", i>>
    BY <1>1, <2>1, LockOrder
  <2>3. IInv
    BY DEF WInv
  <2> QED BY <1>2, <2>2, <2>3, OwnItems
<1>5. Owner(q) = Owner(r)
  BY <1>2, <1>4 DEF Mine
<1>6. q.kind \notin PlayerLocked
  BY <1>2, <1>4, <1>5, Apart DEF Mine
<1>7. i = q.item
  BY <1>2, <1>4, <1>6 DEF Mine
<1>8. <<"item", i>> \in Held(t)
  BY <1>2, <1>4, <1>7 DEF InOrder
<1>9. SUFFICES ASSUME NEW u \in Sessions, WaitsFor(t, u) PROVE FALSE
  BY DEF Waiting
<1>10. PICK other \in Held(u) : Asks(t, other)
  BY <1>9 DEF WaitsFor
<1>11. t # u /\ Mine(u) /\ InOrder(u) /\ Request(u) \in Requests
  BY <1>9, <1>10 DEF WaitsFor, WInv, IInv, LocksOK, InOrder
<1>12. other = <<"enchants", i>>
  <2>1. q.kind \notin Keyed
    BY <1>6 DEF Keyed, PlayerLocked
  <2>2. FirstItems(q) = {i} /\ LastItems(q) = {} /\ ReadItems(q) \subseteq {i}
    BY <1>6, <1>7 DEF PlayerLocked, FirstItems, LastItems, ReadItems
  <2>3. \/ \E j \in {i} : other = <<"item", j>>
        \/ \E j \in {i} : other = <<"enchants", j>>
    BY <1>6, <1>10, <2>1, <2>2, LockOrder
  <2>4. other # <<"item", i>>
    BY <1>8, <1>10, LockOrder
  <2> QED BY <2>3, <2>4
<1>13. <<"item", i>> \notin Held(u)
  BY <1>8, <1>11, Apart
<1>14. Request(u).kind = "EQUIP" /\ i \notin Displaced(Request(u))
  BY <1>10, <1>11, <1>12, <1>13 DEF Mine
<1>15. HasOwner(u) /\ Owner(Request(u)) = Owner(r)
  BY <1>4, <1>10, <1>11, <1>12, <1>14 DEF Mine, PlayerLocked
<1>16. u = s
  BY <1>15, Apart
<1>17. lock = <<"item", i>> /\ i \in FirstItems(r) \cup LastItems(r)
  BY <1>3, <1>4, <1>10, <1>12, <1>16
<1>18. i = r.item
  BY <1>14, <1>16, <1>17 DEF FirstItems, LastItems
<1> QED BY <1>2, <1>10, <1>12, <1>13, <1>16, <1>18 DEF InOrder

\* A wait goes to a session that has come further.  One that has locked something and
\* not its player waits for one that has locked the player.
LEMMA Higher ==
    ASSUME WInv, NEW s \in Sessions, NEW t \in Sessions, WaitsFor(s, t)
    PROVE  Rank(s) < Rank(t)
<1> DEFINE r == Request(s)
           q == Request(t)
<1>1. PICK lock \in Held(t) : Asks(s, lock)
  BY DEF WaitsFor
<1>2. /\ s # t /\ Mine(s) /\ Mine(t) /\ Open(s) /\ r \in Requests /\ Held(t) # {}
      /\ InOrder(s) /\ InOrder(t) /\ lock \notin Held(s)
  BY <1>1, LockOrder DEF WaitsFor, WInv, IInv, LocksOK, InOrder
<1>3. Waiting(s) /\ Rank(t) \in 1 .. 3
  BY <1>2 DEF Waiting, Rank
<1>4. CASE Held(s) = {}
  <2>1. Rank(s) = 0
    BY <1>3, <1>4 DEF Rank, HasOwner
  <2> QED BY <1>3, <2>1
<1>5. CASE HasOwner(s)
  <2>1. Rank(s) = 2 /\ Rank(t) = 3
    BY <1>3, <1>5, WriterGoes DEF Rank
  <2> QED BY <2>1
<1>6. CASE Held(s) # {} /\ ~ HasOwner(s)
  <2>1. Rank(s) = 1
    BY <1>3, <1>6 DEF Rank
  <2>2. SUFFICES HasOwner(t)
    BY <2>1 DEF Rank
  <2>3. lock # <<"operation", task[s].key>> \/ r.kind \notin Keyed
    BY <1>2, <1>6 DEF Mine, HasKey
  <2>4. CASE lock = <<"player", Owner(r)>> /\ r.kind \in PlayerLocked
    BY <1>1, <1>2, <2>4 DEF Mine, HasOwner
  <2>5. CASE r.kind \notin PlayerLocked
    <3>1. FirstItems(r) = {r.item} /\ LastItems(r) = {} /\ ReadItems(r) \subseteq {r.item}
      BY <2>5 DEF PlayerLocked, FirstItems, LastItems, ReadItems
    <3>2. <<"item", r.item>> \in Held(s) /\ r.item \in Items
      <4>1. r.item \in Items
        BY <1>2, RequestsAssumption
      <4>2. PICK l \in Held(s) : TRUE
        BY <1>6
      <4>3. PICK i \in Items : l \in {<<"item", i>>, <<"enchants", i>>}
        BY <1>2, <2>5, <4>2 DEF Mine, Keyed, PlayerLocked
      <4>4. i = r.item
        BY <1>2, <2>5, <4>2, <4>3 DEF Mine
      <4> QED BY <1>2, <4>1, <4>2, <4>3, <4>4 DEF InOrder
    <3>3. lock = <<"enchants", r.item>>
      <4>1. \/ \E i \in {r.item} : lock = <<"item", i>>
            \/ \E i \in {r.item} : lock = <<"enchants", i>>
        <5>1. r.kind \notin Keyed
          BY <2>5 DEF Keyed, PlayerLocked
        <5> QED BY <1>1, <2>5, <3>1, <5>1, LockOrder
      <4> QED BY <1>2, <3>2, <4>1
    <3>4. <<"item", r.item>> \notin Held(t)
      BY <1>2, <3>2, Apart
    <3>5. q.kind = "EQUIP"
      BY <1>1, <1>2, <3>2, <3>3, <3>4 DEF Mine
    <3> QED BY <1>1, <1>2, <3>2, <3>3, <3>5 DEF Mine, PlayerLocked
  <2>6. \/ lock = <<"player", Owner(r)>> /\ r.kind \in PlayerLocked
        \/ r.kind \notin PlayerLocked
    BY <1>1, <1>6, <2>3, LockOrder
  <2> QED BY <2>4, <2>5, <2>6
<1> QED BY <1>4, <1>5, <1>6

\* A session that cannot go waits for another, and a wait goes to a session that has
\* come further: equipping, applying a book and the writers of one item never wait for
\* each other in a circle.
THEOREM NoDeadlock == Spec => []WaitsEnd
<1>1. Init => WInv
  <2> SUFFICES ASSUME Init PROVE WInv
    OBVIOUS
  <2>1. \A s \in Sessions : Held(s) = {}
    BY DEF Init, IdleTask, NewTask, Held
  <2> QED BY <2>1, InitHolds DEF WInv, Mine
<1>2. WInv => WaitsEnd
  <2> SUFFICES ASSUME WInv PROVE WaitsEnd
    OBVIOUS
  <2>1. ASSUME NEW s \in Sessions, Open(s)
        PROVE  Goes(s) \/ \E t \in Sessions : WaitsFor(s, t)
    BY <2>1, WaitsForSomebody DEF WInv, IInv, LocksOK, InOrder
  <2>2. ASSUME NEW s \in Sessions, NEW t \in Sessions, NEW u \in Sessions,
               NEW v \in Sessions, NEW w \in Sessions,
               WaitsFor(s, t), WaitsFor(t, u), WaitsFor(u, v), WaitsFor(v, w)
        PROVE  FALSE
    <3>1. Rank(s) < Rank(t) /\ Rank(t) < Rank(u) /\ Rank(u) < Rank(v) /\ Rank(v) < Rank(w)
      BY <2>2, Higher
    <3>2. \A x \in Sessions : Rank(x) \in 0 .. 3
      BY DEF Rank
    <3> QED BY <3>1, <3>2
  <2> QED BY <2>1, <2>2 DEF WaitsEnd
<1> QED BY <1>1, <1>2, MineHolds, PTL DEF Spec
=============================================================================
