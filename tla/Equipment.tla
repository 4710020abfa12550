------------------------------ MODULE Equipment ------------------------------
(***************************************************************************)
(* Equipment under concurrent requests.  Source: ItemService::equip and    *)
(* unequip with equip_enchant_guard (crates/graphite-items), and the       *)
(* Enchant, Slot Orb, +N and SoulBind writers (crates/graphite-services).  *)
(*                                                                         *)
(* A session is one database transaction.  It locks rows one at a time, in *)
(* the order of its handler's SELECT ... FOR UPDATE statements, copies     *)
(* what it reads into view as the code does into local variables, decides  *)
(* on view, writes, and commits.  Nobody sees its writes earlier, so they  *)
(* happen in the committing action.                                        *)
(*                                                                         *)
(* Locks are <<"operation", k>>, <<"player", p>>, <<"item", i>> for an     *)
(* item_instances row with the structural and SoulBind rows that are only  *)
(* ever locked after it, and <<"enchants", i>> for the item's embedded     *)
(* enchant rows.  A request names an item of its own player: one that does *)
(* not finds no row.                                                       *)
(*                                                                         *)
(* The Enchant, Slot Orb, +N and bind writers run in a transaction of      *)
(* their caller; here that transaction does nothing else.                  *)
(***************************************************************************)
EXTENDS EquipmentRules, Sequences

CONSTANTS Players,
          OwnerOf,          \* the player who owns an item
          Reborn,           \* players with a Rebirth or more
          Wealth,           \* every wallet at the start
          Keys,             \* external request keys
          Requests,         \* the requests sessions may carry
          Sessions,
          Statuses,         \* the account statuses explored
          MaxTime,          \* bound on the clock
          NoItem, NoKey, NoRow, NoRequest

ASSUME WealthAssumption == Wealth \in Nat
ASSUME OwnersAssumption == OwnerOf \in [Items -> Players]
\* A player is given at most one starter item for a slot.
ASSUME StartersAssumption ==
    \A i \in Starters, j \in Starters :
        OwnerOf[i] = OwnerOf[j] /\ SlotOf[i] = SlotOf[j] => i = j
ASSUME NoItemAssumption == NoItem \notin Items
ASSUME NoRowAssumption == NoRow \notin Requests
ASSUME StatusesAssumption ==
    "ACTIVE" \in Statuses /\ Statuses \subseteq {"ACTIVE", "FROZEN", "DELETED"}
ASSUME RequestsAssumption ==
    \A r \in Requests :
        /\ r.kind \in {"EQUIP", "UNEQUIP", "APPLY", "REMOVE", "ORB", "UPGRADE",
                       "BIND", "UNBIND"}
        /\ r.item \in Items
        /\ r.kind \in {"APPLY", "REMOVE"} => r.enchant \in Enchants
        /\ r.kind = "ORB" => /\ r.family \in Families
                             /\ r.to \in NativeSlots[r.family] + 1 .. MaxSlots[r.family]

VARIABLES items,      \* item_instances with their child rows
          slots,      \* equipment_slots
          players,    \* players and player_balances
          operations, \* operations, by external request key
          now,        \* clock_timestamp()
          task        \* the transaction of each session

vars == <<items, slots, players, operations, now, task>>

BodySlots == ArmorSlots \cup {SlotOf[i] : i \in Items}
Account == [status : Statuses, wallet : Nat]

NoView == [rows |-> [i \in Items |-> NewItem(i)],
           account |-> [status |-> "ACTIVE", wallet |-> 0]]
NewTask(phase, r, k) == [phase |-> phase, request |-> r, key |-> k,
                         held |-> {}, view |-> NoView]
IdleTask == NewTask("IDLE", NoRequest, NoKey)

Init ==
    /\ items = [i \in Items |-> NewItem(i)]
    /\ slots = [p \in Players |-> [k \in BodySlots |->
                    IF \E i \in Starters : OwnerOf[i] = p /\ SlotOf[i] = k
                    THEN CHOOSE i \in Starters : OwnerOf[i] = p /\ SlotOf[i] = k
                    ELSE NoItem]]
    /\ players = [p \in Players |-> [status |-> "ACTIVE", wallet |-> Wealth]]
    /\ operations = [k \in Keys |-> NoRow]
    /\ now = 0
    /\ task = [s \in Sessions |-> IdleTask]

---------------------------------------------------------------------------
(* What a request locks, in order.                                         *)

Keyed == {"EQUIP", "UNEQUIP", "UNBIND"}

\* Mistaken: applying a book relies on the item locks alone.
PlayerLockedButApply == {"EQUIP", "UNEQUIP", "BIND", "UNBIND"}

\* The handlers that lock the player row.
PlayerLocked == {"EQUIP", "UNEQUIP", "APPLY", "BIND", "UNBIND"}

Owner(r) == OwnerOf[r.item]
InSlot(r) == slots[Owner(r)][SlotOf[r.item]]
Worn(p) == {slots[p][k] : k \in ArmorSlots} \ {NoItem}

\* Mistaken: what was worn in the slot is left where it is.
NoneDisplaced(r) == {}

\* The item that leaves the slot, and the armor worn once it has.
Displaced(r) == {InSlot(r)} \ {NoItem, r.item}
Prospective(r) == (Worn(Owner(r)) \ Displaced(r)) \cup {r.item}

ItemLocks(S) == {<<"item", i>> : i \in S}
EnchantLocks(S) == {<<"enchants", i>> : i \in S}

\* The items whose rows are locked first, whose enchants are read, and whose rows are
\* locked in the end.
FirstItems(r) == IF r.kind = "APPLY" THEN Worn(Owner(r)) \cup {r.item} ELSE {r.item}
ReadItems(r) ==
    CASE r.kind = "UNEQUIP" -> {}
      [] r.kind = "EQUIP" -> IF SlotOf[r.item] \in ArmorSlots /\ InSlot(r) # r.item
                             THEN Prospective(r) ELSE {}
      [] OTHER -> FirstItems(r)
LastItems(r) == IF r.kind = "EQUIP" THEN Displaced(r) ELSE {}

\* Rows locked by one statement form a set; the statement locks them by id.
Stages(r, k) ==
    <<IF r.kind \in Keyed THEN {<<"operation", k>>} ELSE {},
      IF r.kind \in PlayerLocked THEN {<<"player", Owner(r)>>} ELSE {},
      ItemLocks(FirstItems(r)), EnchantLocks(ReadItems(r)), ItemLocks(LastItems(r))>>

Pending(s) ==
    LET stages == Stages(task[s].request, task[s].key)
    IN  {n \in DOMAIN stages : ~ stages[n] \subseteq task[s].held}

\* The lock the session asks for next.
Asks(s, lock) ==
    \E n \in Pending(s) :
        /\ \A m \in Pending(s) : n <= m
        /\ LET rest == Stages(task[s].request, task[s].key)[n] \ task[s].held
           IN  lock \in rest /\ \A other \in rest \ {lock} : lock[2] < other[2]

\* FOR UPDATE on enchant rows covers the rows there were, none if there were none.
InTheWay(t, lock) ==
    /\ lock \in task[t].held
    /\ lock[1] = "enchants" =>
           Embedded(task[t].view.rows[lock[2]]) \cap Embedded(items[lock[2]]) # {}

Free(s, lock) == \A t \in Sessions \ {s} : ~ InTheWay(t, lock)

Open(s) == task[s].phase = "OPEN"

\* resolve_operation found a row committed under this key.
Answered(s) ==
    /\ task[s].request.kind \in Keyed
    /\ <<"operation", task[s].key>> \in task[s].held
    /\ operations[task[s].key] # NoRow

Holds(s, kinds) ==
    /\ Open(s)
    /\ task[s].request.kind \in kinds
    /\ Pending(s) = {}
    /\ ~ Answered(s)

---------------------------------------------------------------------------
(* What a request reads and decides.                                       *)

\* Mistaken: the item is read with the player, before it is locked.
SeenEarly(view, lock) ==
    IF lock[1] = "player"
    THEN [rows |-> items, account |-> players[lock[2]]]
    ELSE view

\* A row is read by the statement that locks it.
Seen(view, lock) ==
    CASE lock[1] = "player" -> [view EXCEPT !.account = players[lock[2]]]
      [] lock[1] = "item" ->
            [view EXCEPT !.rows[lock[2]] =
                [items[lock[2]] EXCEPT !.enchants = view.rows[lock[2]].enchants]]
      [] lock[1] = "enchants" ->
            [view EXCEPT !.rows[lock[2]].enchants = items[lock[2]].enchants]
      [] OTHER -> view

Target(s) == task[s].view.rows[task[s].request.item]
PlayerRow(s) == task[s].view.account

\* ensure_mutable.
Active(s) == PlayerRow(s).status = "ACTIVE"

\* lock_validate_prospective_equipped_armor_enchant_conflicts.
LoadoutClear(view, S) == Clear(LoadoutConflicts, UNION {Embedded(view.rows[i]) : i \in S})

CanEquip(s) ==
    LET r == task[s].request IN
    /\ Active(s)
    /\ Target(s).location = "TOOL_LOCKER"
    /\ SlotOf[r.item] \in ArmorSlots => LoadoutClear(task[s].view, Prospective(r))

CanEquipAgain(s) ==
    /\ Active(s)
    /\ Target(s).location = "EQUIPPED"
    /\ InSlot(task[s].request) = task[s].request.item

CanUnequip(s) == Active(s) /\ Target(s).location = "EQUIPPED"

\* The worn armor is validated, then the book, then the book against the others.
CanApply(s) ==
    LET r == task[s].request
        worn == Worn(Owner(r))
        view == task[s].view
        others == UNION {Embedded(view.rows[i]) : i \in worn \ {r.item}}
    IN  /\ PlayerRow(s).status # "DELETED"
        /\ \A i \in worn : Clear(ItemConflicts, Embedded(view.rows[i]))
        /\ LoadoutClear(view, worn)
        /\ CanEnchant(r.item, Target(s), r.enchant, r.to)
        /\ r.item \in worn =>
               \A e \in others : {e, r.enchant} \notin LoadoutConflicts

CanBindNow(s) ==
    LET r == task[s].request IN
    Active(s) /\ Owner(r) \in Reborn /\ CanBind(r.item, Target(s), now)

CanUnbindNow(s) ==
    LET r == task[s].request IN
    /\ Active(s)
    /\ CanUnbind(r.item, Target(s))
    /\ UnbindFee(r.item, Target(s)) \in 1 .. PlayerRow(s).wallet

Permitted(s) ==
    LET r == task[s].request IN
    CASE r.kind = "EQUIP"   -> CanEquip(s) \/ CanEquipAgain(s)
      [] r.kind = "UNEQUIP" -> CanUnequip(s)
      [] r.kind = "APPLY"   -> CanApply(s)
      [] r.kind = "REMOVE"  -> CanStrip(Target(s), r.enchant, r.from)
      [] r.kind = "ORB"     -> CanUnlock(r.item, Target(s), r.family, r.to)
      [] r.kind = "UPGRADE" -> CanMoveLevel(r.item, Target(s), r.from, r.to)
      [] r.kind = "BIND"    -> CanBindNow(s)
      [] r.kind = "UNBIND"  -> CanUnbindNow(s)

---------------------------------------------------------------------------
(* Steps of a session.                                                     *)

Begin(s) ==
    /\ task[s].phase = "IDLE"
    /\ \E r \in Requests :
       \E k \in IF r.kind \in Keyed THEN Keys ELSE {NoKey} :
          task' = [task EXCEPT ![s] = NewTask("OPEN", r, k)]
    /\ UNCHANGED <<items, slots, players, operations, now>>

Lock(s) ==
    /\ Open(s)
    /\ ~ Answered(s)
    /\ \E lock \in UNION {Stages(task[s].request, task[s].key)[n] : n \in Pending(s)} :
          /\ Asks(s, lock)
          /\ Free(s, lock)
          /\ task' = [task EXCEPT ![s].held = @ \cup {lock},
                                  ![s].view = Seen(@, lock)]
    /\ UNCHANGED <<items, slots, players, operations, now>>

End(s) == task' = [task EXCEPT ![s] = IdleTask]

\* The stored receipt, or a conflict if the key served another request.
AnswerFromRow(s) ==
    /\ Open(s)
    /\ Answered(s)
    /\ End(s)
    /\ UNCHANGED <<items, slots, players, operations, now>>

Refuse(s) ==
    /\ Holds(s, {task[s].request.kind})
    /\ ~ Permitted(s)
    /\ End(s)
    /\ UNCHANGED <<items, slots, players, operations, now>>

\* An early return, an error or a lost connection: everything is rolled back.
Abort(s) ==
    /\ Open(s)
    /\ End(s)
    /\ UNCHANGED <<items, slots, players, operations, now>>

Record(s) == operations' = [operations EXCEPT ![task[s].key] = task[s].request]

Equip(s) ==
    LET r == task[s].request IN
    /\ Holds(s, {"EQUIP"})
    /\ CanEquip(s)
    /\ items' = [i \in Items |->
                    CASE i = r.item         -> [items[i] EXCEPT !.location = "EQUIPPED"]
                      [] i \in Displaced(r) -> [items[i] EXCEPT !.location = "TOOL_LOCKER"]
                      [] OTHER              -> items[i]]
    /\ slots' = [slots EXCEPT ![Owner(r)][SlotOf[r.item]] = r.item]
    /\ Record(s) /\ End(s)
    /\ UNCHANGED <<players, now>>

EquipAgain(s) ==
    /\ Holds(s, {"EQUIP"})
    /\ CanEquipAgain(s)
    /\ Record(s) /\ End(s)
    /\ UNCHANGED <<items, slots, players, now>>

Unequip(s) ==
    LET r == task[s].request IN
    /\ Holds(s, {"UNEQUIP"})
    /\ CanUnequip(s)
    /\ items' = [items EXCEPT ![r.item].location = "TOOL_LOCKER"]
    /\ slots' = [slots EXCEPT ![Owner(r)] =
                    [k \in BodySlots |-> IF @[k] = r.item THEN NoItem ELSE @[k]]]
    /\ Record(s) /\ End(s)
    /\ UNCHANGED <<players, now>>

Apply(s) ==
    LET r == task[s].request IN
    /\ Holds(s, {"APPLY"})
    /\ CanApply(s)
    /\ items' = [items EXCEPT ![r.item] = Enchanted(@, r.enchant, r.to)]
    /\ End(s)
    /\ UNCHANGED <<slots, players, operations, now>>

Remove(s) ==
    LET r == task[s].request IN
    /\ Holds(s, {"REMOVE"})
    /\ CanStrip(Target(s), r.enchant, r.from)
    /\ items' = [items EXCEPT ![r.item] = Stripped(@, r.enchant)]
    /\ End(s)
    /\ UNCHANGED <<slots, players, operations, now>>

UnlockSlot(s) ==
    LET r == task[s].request IN
    /\ Holds(s, {"ORB"})
    /\ CanUnlock(r.item, Target(s), r.family, r.to)
    /\ items' = [items EXCEPT ![r.item] = Unlocked(@, r.family, r.to)]
    /\ End(s)
    /\ UNCHANGED <<slots, players, operations, now>>

MoveLevel(s) ==
    LET r == task[s].request IN
    /\ Holds(s, {"UPGRADE"})
    /\ CanMoveLevel(r.item, Target(s), r.from, r.to)
    /\ items' = [items EXCEPT ![r.item] = Moved(@, r.to)]
    /\ End(s)
    /\ UNCHANGED <<slots, players, operations, now>>

Bind(s) ==
    LET r == task[s].request IN
    /\ Holds(s, {"BIND"})
    /\ CanBindNow(s)
    /\ items' = [items EXCEPT ![r.item] = Bound(@)]
    /\ End(s)
    /\ UNCHANGED <<slots, players, operations, now>>

\* The fee is the one of the locked row; the cooldown starts at the write.
Unbind(s) ==
    LET r == task[s].request IN
    /\ Holds(s, {"UNBIND"})
    /\ CanUnbindNow(s)
    /\ players' = [players EXCEPT ![Owner(r)].wallet =
                      PlayerRow(s).wallet - UnbindFee(r.item, Target(s))]
    /\ items' = [items EXCEPT ![r.item] = Unbound(@, now)]
    /\ Record(s) /\ End(s)
    /\ UNCHANGED <<slots, now>>

---------------------------------------------------------------------------
(* The surroundings: freezes and deletions update the player row, and the  *)
(* clock advances.                                                         *)

SetStatus(p, status) ==
    /\ \A s \in Sessions : <<"player", p>> \notin task[s].held
    /\ players[p].status \notin {status, "DELETED"}
    /\ players' = [players EXCEPT ![p].status = status]
    /\ UNCHANGED <<items, slots, operations, now, task>>

Tick ==
    /\ now < MaxTime
    /\ now' = now + 1
    /\ UNCHANGED <<items, slots, players, operations, task>>

Settle(s) ==
    \/ AnswerFromRow(s) \/ Refuse(s)
    \/ Equip(s) \/ EquipAgain(s) \/ Unequip(s)
    \/ Apply(s) \/ Remove(s) \/ UnlockSlot(s) \/ MoveLevel(s)
    \/ Bind(s) \/ Unbind(s)

Next ==
    \/ \E s \in Sessions : Begin(s) \/ Lock(s) \/ Settle(s) \/ Abort(s)
    \/ \E p \in Players, status \in Statuses : SetStatus(p, status)
    \/ Tick

Spec == Init /\ [][Next]_vars

\* A handler keeps running, and a released row lock goes to the longest waiter.
FairSpec == Spec /\ \A s \in Sessions : SF_vars(Lock(s)) /\ WF_vars(Settle(s))

---------------------------------------------------------------------------
(* Properties.                                                             *)

\* Every variable has its type (players, equipment_slots, item_instances and the
\* open transactions).
TypeOK ==
    /\ items \in [Items -> ItemRow]
    /\ slots \in [Players -> [BodySlots -> Items \cup {NoItem}]]
    /\ players \in [Players -> Account]
    /\ operations \in [Keys -> Requests \cup {NoRow}]
    /\ now \in Nat
    /\ task \in [Sessions ->
           [phase : {"IDLE", "OPEN"}, request : Requests \cup {NoRequest},
            key : Keys \cup {NoKey},
            held : SUBSET ({"operation", "player", "item", "enchants"}
                               \X (Keys \cup Players \cup Items)),
            view : [rows : [Items -> ItemRow], account : Account]]]

\* location and equipment_slots are two records of the same fact: an item is
\* EQUIPPED exactly if its owner's slot of its kind holds it.  So the deferred
\* trigger that compares the two (0004_storage_equipment.sql) never rejects a commit.
LoadoutMatches ==
    /\ \A i \in Items : (items[i].location = "EQUIPPED") <=>
                            slots[OwnerOf[i]][SlotOf[i]] = i
    /\ \A p \in Players, k \in BodySlots :
           slots[p][k] # NoItem => OwnerOf[slots[p][k]] = p /\ SlotOf[slots[p][k]] = k

\* The armor a player wears never carries two survival-core enchants that exclude
\* each other, however equipping and applying a book interleave.
NoActiveConflict ==
    \A p \in Players :
        Clear(LoadoutConflicts, UNION {Embedded(items[i]) : i \in Worn(p)})

\* Every item stays in a state its own validator accepts: slots within their
\* family's range, no more enchants than slots, no conflict, no wrong body part.
AlwaysSound == \A i \in Items : Sound(i, items[i])

\* An item unbound at one instant is not bound again before the cooldown is over,
\* whatever requests intervene.
CooldownHolds ==
    [][\A i \in Items :
          /\ items'[i].soul = "BOUND" /\ items[i].soul = "UNBOUND" => now >= items[i].until
          /\ items'[i].soul = "UNBOUND" /\ items[i].soul # "UNBOUND" =>
                 items'[i].until = now + Cooldown
          /\ items[i].soul = "UNBOUND" /\ items'[i].soul = "UNBOUND" =>
                 items'[i].until = items[i].until]_vars

\* A wallet is charged exactly when an item of the player is unbound, and what it
\* is charged is the fee of the item as it is then, not as it was when priced.
UnbindPaysCurrent ==
    [][\A p \in Players :
          LET freed == {i \in Items : /\ OwnerOf[i] = p
                                      /\ items[i].soul = "BOUND"
                                      /\ items'[i].soul = "UNBOUND"}
          IN  IF freed = {}
              THEN players'[p].wallet = players[p].wallet
              ELSE \E i \in freed :
                      /\ freed = {i}
                      /\ players'[p].wallet =
                             players[p].wallet - UnbindFee(i, items[i])]_vars

\* A loadout changes only in the step that commits one new operation, and never
\* when a delivered key is sent again.
LoadoutChangesOnce ==
    [][slots' # slots =>
          \E k \in Keys :
              /\ operations[k] = NoRow
              /\ operations'[k] # NoRow
              /\ operations'[k].kind \in {"EQUIP", "UNEQUIP"}
              /\ \A other \in Keys \ {k} : operations'[other] = operations[other]]_vars

\* Once a freeze is in force the loadout stands still, even for a request that
\* was under way.
FrozenLoadoutKept ==
    [][\A p \in Players : players[p].status # "ACTIVE" => slots'[p] = slots[p]]_vars

\* Every transaction comes to an end.
EveryTaskEnds == \A s \in Sessions : Open(s) ~> ~ Open(s)
=============================================================================
