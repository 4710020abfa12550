----------------------------- MODULE StorageRules -----------------------------
(***************************************************************************)
(* What one storage primitive does to the rows of one player.  Source:     *)
(* the stack, unique-item and consumption mutations of graphite-items, and *)
(* the fish delivery, the claim and the reservation of graphite-services.  *)
(*                                                                         *)
(* A leg is one call of a primitive: its mutation key and its input.  The  *)
(* rows a leg works on are a record w:                                     *)
(*   status   players.status                                               *)
(*   stack    item_stacks in ITEM_BAG, a quantity of 0 for no row          *)
(*   items    item_instances in order of insertion, with their location    *)
(*   pending  pending_asset_deliveries that link an item                   *)
(*   owed     pending_asset_deliveries of a stack                          *)
(*   log      the rows a retried leg finds: asset_events with a mutation   *)
(*            key, service_jobs by operation, smelting_job_runtimes by job *)
(*                                                                         *)
(* Keys, versions, flags and provenance are what tells one leg from        *)
(* another; the capacities a player's bag levels give are constants, since *)
(* nothing in the code changes a level after registration.                 *)
(***************************************************************************)
EXTENDS Integers, Sequences, FiniteSets, Functions

CONSTANTS Defs,            \* stackable definition versions
          StackLimit,      \* stack_limit of a definition
          Initial,         \* the stacks at the start
          ItemBagSlots,    \* item_bag_capacity_slots of the player's level
          CatchBagGrams    \* catch_bag_capacity_grams of the player's level

ASSUME FiniteDefs == IsFiniteSet(Defs)
ASSUME LimitAssumption == StackLimit \in [Defs -> Nat \ {0}]
ASSUME InitialAssumption == Initial \in [Defs -> Nat]
ASSUME CapacityAssumption == ItemBagSlots \in Nat /\ CatchBagGrams \in Nat

Bags == {"ITEM_BAG", "CATCH_BAG"}
StackKinds == {"DELIVER", "COMMAND"}
InstanceKinds == {"UNIQUE", "FISH"}

---------------------------------------------------------------------------
(* Room.                                                                   *)

SlotsFor(quantity, limit) == (quantity + limit - 1) \div limit

StackSlots(stack) == SumFunction([d \in Defs |-> SlotsFor(stack[d], StackLimit[d])])

\* What the player has at the start has its place.
ASSUME InitialFits == StackSlots(Initial) <= ItemBagSlots

In(w, place) == {i \in DOMAIN w.items : w.items[i].at = place}

SizeOf(w, S) == SumFunction([i \in S |-> w.items[i].size])

\* Slots of the Item Bag, a unique item taking one; grams of the Catch Bag.
Used(w, bag) ==
    SizeOf(w, In(w, bag)) + IF bag = "ITEM_BAG" THEN StackSlots(w.stack) ELSE 0

Capacity(bag) == IF bag = "ITEM_BAG" THEN ItemBagSlots ELSE CatchBagGrams

---------------------------------------------------------------------------
(* Stacks.                                                                 *)

\* Mistaken: what is to be added is not counted.
StackFitsBefore(w, d, quantity) == Used(w, "ITEM_BAG") <= ItemBagSlots

\* The slots of the definition's own stack are counted anew.
StackFits(w, d, quantity) ==
    Used(w, "ITEM_BAG") - SlotsFor(w.stack[d], StackLimit[d])
        + SlotsFor(w.stack[d] + quantity, StackLimit[d]) <= ItemBagSlots

Entry(o, leg, overflow) == [op |-> o, leg |-> leg, overflow |-> overflow]

\* All of the quantity goes in, or all of it is owed.  The command, which is
\* an operation of its own, writes no event of an overflow.
StackDelivered(w, o, leg) ==
    IF StackFits(w, leg.def, leg.quantity)
    THEN [w EXCEPT !.stack[leg.def] = @ + leg.quantity,
                   !.log = @ \cup {Entry(o, leg, FALSE)}]
    ELSE [w EXCEPT !.owed = Append(@, [op |-> o, leg |-> leg]),
                   !.log = IF leg.kind = "COMMAND" THEN @
                           ELSE @ \cup {Entry(o, leg, TRUE)}]

Held(w, leg) == w.stack[leg.def] >= leg.quantity

Consumed(w, o, leg) ==
    [w EXCEPT !.stack[leg.def] = @ - leg.quantity, !.log = @ \cup {Entry(o, leg, FALSE)}]

---------------------------------------------------------------------------
(* Unique items and fish.                                                  *)

Waiting(w, bag) ==
    {i \in DOMAIN w.pending : w.pending[i].bag = bag /\ w.pending[i].state = "PENDING"}

\* An earlier operation's overflow must be claimed first; its own may grow.
MayMint(w, o, bag) == \A i \in Waiting(w, bag) : w.pending[i].op = o

\* Mistaken: a full bag's item is stored without its pending row.
MintedUnlinked(w, o, leg, began) ==
    LET fits == Used(w, leg.bag) + leg.size <= Capacity(leg.bag)
        item == [op |-> o, key |-> leg.key, size |-> leg.size,
                 at |-> IF fits THEN leg.bag ELSE "TEMP_OVERFLOW"]
    IN  [w EXCEPT !.items = Append(@, item), !.log = @ \cup {Entry(o, leg, ~ fits)}]

\* The item is created in its bag, or in TEMP_OVERFLOW with a pending row whose
\* created_at is the start of the transaction.
Minted(w, o, leg, began) ==
    LET fits == Used(w, leg.bag) + leg.size <= Capacity(leg.bag)
        item == [op |-> o, key |-> leg.key, size |-> leg.size,
                 at |-> IF fits THEN leg.bag ELSE "TEMP_OVERFLOW"]
        row == [op |-> o, key |-> leg.key, item |-> Len(w.items) + 1, bag |-> leg.bag,
                state |-> "PENDING", created |-> began]
    IN  [w EXCEPT !.items = Append(@, item),
                  !.pending = IF fits THEN @ ELSE Append(@, row),
                  !.log = @ \cup {Entry(o, leg, ~ fits)}]

\* ORDER BY created_at, id.
Before(w, i, j) ==
    \/ w.pending[i].created < w.pending[j].created
    \/ w.pending[i].created = w.pending[j].created /\ i < j

Items(w, rows) == {w.pending[i].item : i \in rows}

\* Mistaken: a row that does not fit is passed over.
ClaimableAny(w, bag) ==
    {i \in Waiting(w, bag) : Used(w, bag) + SizeOf(w, Items(w, {i})) <= Capacity(bag)}

\* The rows up to the first whose item does not fit after those before it.
Claimable(w, bag) ==
    {i \in Waiting(w, bag) :
        LET upTo == {j \in Waiting(w, bag) : j = i \/ Before(w, j, i)}
        IN  Used(w, bag) + SizeOf(w, Items(w, upTo)) <= Capacity(bag)}

\* The pass looks at rows up to the one it stops at; each must link an item in overflow.
Intact(w, bag) ==
    \A i \in Waiting(w, bag) :
        (\A j \in Waiting(w, bag) : Before(w, j, i) => j \in Claimable(w, bag))
            => w.items[w.pending[i].item].at = "TEMP_OVERFLOW"

Claimed(w, o, leg) ==
    LET rows == Claimable(w, leg.bag)
        moved == Items(w, rows)
    IN  [w EXCEPT !.items = [i \in DOMAIN @ |-> IF i \in moved THEN [@[i] EXCEPT !.at = leg.bag]
                                                ELSE @[i]],
                  !.pending = [i \in DOMAIN @ |-> IF i \in rows
                                                  THEN [@[i] EXCEPT !.state = "CLAIMED"]
                                                  ELSE @[i]],
                  !.log = @ \cup {Entry(o, leg, FALSE)}]

---------------------------------------------------------------------------
(* Service jobs.  A reservation's stacks have a role, a definition and a   *)
(* quantity; the same definition may be both input and fuel.               *)

Required(stacks, d) == SumFunction([r \in {s \in stacks : s.def = d} |-> r.quantity])

CanReserve(w, leg) == \A d \in Defs : Required(leg.stacks, d) <= w.stack[d]

Reserved(w, o, leg) ==
    [w EXCEPT !.stack = [d \in Defs |-> @[d] - Required(leg.stacks, d)],
              !.log = @ \cup {Entry(o, leg, FALSE)}]

InRole(stacks, role) == {r.quantity : r \in {r \in stacks : r.role = role}}

\* One INPUT and one FUEL row, of the snapshot's quantities.
Matches(leg, stacks) ==
    /\ Cardinality(stacks) = 2
    /\ InRole(stacks, "INPUT") = {leg.units}
    /\ InRole(stacks, "FUEL") = {leg.fuel}

CanAttach(w, o, leg) ==
    \E entry \in w.log : /\ entry.op = o /\ entry.leg.kind = "RESERVE"
                         /\ Matches(leg, entry.leg.stacks)

Attached(w, o, leg) == [w EXCEPT !.log = @ \cup {Entry(o, leg, FALSE)}]
=============================================================================
