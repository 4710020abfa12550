-------------------------------- MODULE Storage --------------------------------
(***************************************************************************)
(* A player's bags under concurrent transactions.  Source: the primitives  *)
(* of StorageRules, which run in a transaction their caller owns, and      *)
(* ItemService::deliver_stack_to_item_bag, which owns its own.             *)
(*                                                                         *)
(* A session is such a transaction for one operation.  It takes the        *)
(* operation row, then the player row, both FOR UPDATE, and runs its legs  *)
(* one by one.  What the legs read and write is guarded by the player row, *)
(* so a session works on a copy taken when it gets that row, and others    *)
(* see it when the transaction commits.  A leg that is refused rolls the   *)
(* transaction back, as does a lost connection at any point.               *)
(*                                                                         *)
(* The caller commits its operation with the legs, or commits the legs and *)
(* leaves the operation PENDING for a later transaction, as the tests of   *)
(* the primitives do.  Operations are there as PENDING rows from the start.*)
(***************************************************************************)
EXTENDS StorageRules, SequencesExt

CONSTANTS Ops,
          Plans,        \* the sequences of legs a caller may run for an operation
          Sessions,
          MaxBegun      \* bound on the transactions begun

ASSUME BoundAssumption == MaxBegun \in Nat
ASSUME PlansAssumption == \A o \in Ops : \A plan \in Plans[o] :
    /\ plan \in Seq(Range(plan))
    /\ \A leg \in Range(plan) :
          /\ leg.kind \in StackKinds \cup InstanceKinds
                              \cup {"CONSUME", "CLAIM", "RESERVE", "ATTACH"}
          /\ leg.key \in STRING
          /\ leg.kind \in StackKinds \cup {"CONSUME"} =>
                 leg.def \in Defs /\ leg.quantity \in Nat \ {0}
          /\ leg.kind = "RESERVE" =>
                 /\ IsFiniteSet(leg.stacks)
                 /\ \A r \in leg.stacks : r.quantity \in Nat \ {0}
          /\ leg.kind \in InstanceKinds => leg.size \in Nat \ {0}
          /\ leg.kind = "UNIQUE" => leg.bag = "ITEM_BAG"
          /\ leg.kind = "FISH" => leg.bag = "CATCH_BAG"
          /\ leg.kind = "CLAIM" => leg.bag \in Bags
          /\ leg.kind = "COMMAND" => Len(plan) = 1

VARIABLES db,        \* the player's committed rows
          operation, \* operations.state
          tx,        \* the transaction of each session
          begun      \* transactions begun so far, their now()

vars == <<db, operation, tx, begun>>

NoOp == "none"
Empty == [status |-> "ACTIVE", stack |-> Initial, items |-> <<>>, pending |-> <<>>,
          owed |-> <<>>, log |-> {}]
Idle == [phase |-> "IDLE", op |-> NoOp, legs |-> <<>>, work |-> Empty, began |-> 0]

Init ==
    /\ db = Empty
    /\ operation = [o \in Ops |-> "PENDING"]
    /\ tx = [s \in Sessions |-> Idle]
    /\ begun = 0

HasOperation(s) == tx[s].phase \in {"OPEN", "LOCKED"}
HasPlayer(s) == tx[s].phase = "LOCKED"

PlayerFree == \A s \in Sessions : ~ HasPlayer(s)

\* What the session's statements see.
Sees(s) == IF HasPlayer(s) THEN tx[s].work ELSE db

Leg(s) == Head(tx[s].legs)
More(s) == HasOperation(s) /\ tx[s].legs # <<>>

\* Mistaken: a leg that has run is not looked up.
NeverFound(s) == {}

\* The rows a retry of the leg finds.
Found(s) == {entry \in Sees(s).log : entry.op = tx[s].op /\ entry.leg.key = Leg(s).key}

Leave(s) == tx' = [tx EXCEPT ![s] = Idle] /\ UNCHANGED begun

---------------------------------------------------------------------------
(* The course of a transaction.                                            *)

Begin(s) ==
    /\ tx[s].phase = "IDLE"
    /\ begun < MaxBegun
    /\ begun' = begun + 1
    /\ \E o \in Ops : \E plan \in Plans[o] :
           tx' = [tx EXCEPT ![s] = [phase |-> "WAITING", op |-> o, legs |-> plan,
                                       work |-> Empty, began |-> begun + 1]]
    /\ UNCHANGED <<db, operation>>

LockOperation(s) ==
    /\ tx[s].phase = "WAITING"
    /\ \A t \in Sessions : HasOperation(t) => tx[t].op # tx[s].op
    /\ tx' = [tx EXCEPT ![s].phase = "OPEN"]
    /\ UNCHANGED <<db, operation, begun>>

IsOpen(o) == operation[o] = "PENDING"

\* A command that finds its operation committed answers from its row.
Answered(s) == Leg(s).kind = "COMMAND" /\ ~ IsOpen(tx[s].op)

\* A leg looks for its own row before it locks the player; the smelting runtime after.
LockPlayer(s) ==
    /\ More(s) /\ ~ HasPlayer(s) /\ ~ Answered(s)
    /\ (Found(s) = {} /\ IsOpen(tx[s].op)) \/ Leg(s).kind = "ATTACH"
    /\ PlayerFree
    /\ tx' = [tx EXCEPT ![s].phase = "LOCKED", ![s].work = db]
    /\ UNCHANGED <<db, operation, begun>>

---------------------------------------------------------------------------
(* The legs.                                                               *)

IsActive(w) == w.status = "ACTIVE"

Fresh(s, kinds) ==
    /\ More(s) /\ HasPlayer(s)
    /\ Leg(s).kind \in kinds
    /\ Found(s) = {} /\ IsOpen(tx[s].op) /\ IsActive(tx[s].work)

Writes(s, w) ==
    /\ tx' = [tx EXCEPT ![s].work = w, ![s].legs = Tail(@)]
    /\ UNCHANGED <<db, operation, begun>>

DeliverStack(s) ==
    /\ Fresh(s, StackKinds)
    /\ Writes(s, StackDelivered(tx[s].work, tx[s].op, Leg(s)))

ConsumeStack(s) ==
    /\ Fresh(s, {"CONSUME"})
    /\ Held(tx[s].work, Leg(s))
    /\ Writes(s, Consumed(tx[s].work, tx[s].op, Leg(s)))

DeliverUnique(s) ==
    /\ Fresh(s, {"UNIQUE"})
    /\ MayMint(tx[s].work, tx[s].op, "ITEM_BAG")
    /\ Writes(s, Minted(tx[s].work, tx[s].op, Leg(s), tx[s].began))

DeliverFish(s) ==
    /\ Fresh(s, {"FISH"})
    /\ MayMint(tx[s].work, tx[s].op, "CATCH_BAG")
    /\ Writes(s, Minted(tx[s].work, tx[s].op, Leg(s), tx[s].began))

ClaimItems(s) ==
    /\ Fresh(s, {"CLAIM"}) /\ Leg(s).bag = "ITEM_BAG"
    /\ Intact(tx[s].work, "ITEM_BAG")
    /\ Writes(s, Claimed(tx[s].work, tx[s].op, Leg(s)))

ClaimCatches(s) ==
    /\ Fresh(s, {"CLAIM"}) /\ Leg(s).bag = "CATCH_BAG"
    /\ Intact(tx[s].work, "CATCH_BAG")
    /\ Writes(s, Claimed(tx[s].work, tx[s].op, Leg(s)))

Reserve(s) ==
    /\ Fresh(s, {"RESERVE"})
    /\ CanReserve(tx[s].work, Leg(s))
    /\ Writes(s, Reserved(tx[s].work, tx[s].op, Leg(s)))

Attach(s) ==
    /\ Fresh(s, {"ATTACH"})
    /\ CanAttach(tx[s].work, tx[s].op, Leg(s))
    /\ Writes(s, Attached(tx[s].work, tx[s].op, Leg(s)))

\* A leg that has run under its key with the same input is answered from its row.
Replay(s) ==
    /\ More(s) /\ ~ Answered(s)
    /\ Leg(s).kind = "ATTACH" => HasPlayer(s)
    /\ \E entry \in Found(s) : entry.leg = Leg(s)
    /\ tx' = [tx EXCEPT ![s].legs = Tail(@)]
    /\ UNCHANGED <<db, operation, begun>>

---------------------------------------------------------------------------
(* The ways a transaction ends.                                            *)

\* Mistaken: quantities that are not there are waited for.
ImpossibleButStacks(w, o, leg) ==
    CASE leg.kind \in InstanceKinds -> ~ MayMint(w, o, leg.bag)
      [] leg.kind = "CLAIM" -> ~ Intact(w, leg.bag)
      [] leg.kind = "ATTACH" -> ~ CanAttach(w, o, leg)
      [] OTHER -> FALSE

\* The primitive's own reason to refuse a leg that has not run.
Impossible(w, o, leg) ==
    CASE leg.kind \in StackKinds -> FALSE
      [] leg.kind = "CONSUME" -> ~ Held(w, leg)
      [] leg.kind \in InstanceKinds -> ~ MayMint(w, o, leg.bag)
      [] leg.kind = "CLAIM" -> ~ Intact(w, leg.bag)
      [] leg.kind = "RESERVE" -> ~ CanReserve(w, leg)
      [] leg.kind = "ATTACH" -> ~ CanAttach(w, o, leg)

Refuse(s) ==
    /\ More(s) /\ ~ Answered(s)
    /\ \/ \E entry \in Found(s) : entry.leg # Leg(s)
       \/ Found(s) = {} /\ ~ IsOpen(tx[s].op)
       \/ /\ Found(s) = {} /\ HasPlayer(s)
          /\ ~ IsActive(tx[s].work) \/ Impossible(tx[s].work, tx[s].op, Leg(s))
    /\ Leave(s)
    /\ UNCHANGED <<db, operation>>

RollBack(s) ==
    /\ tx[s].phase # "IDLE"
    /\ Leave(s)
    /\ UNCHANGED <<db, operation>>

\* The legs and the operation commit together.
Finish(s) ==
    /\ HasOperation(s) /\ tx[s].legs = <<>> /\ IsOpen(tx[s].op)
    /\ db' = Sees(s)
    /\ operation' = [operation EXCEPT ![tx[s].op] = "COMMITTED"]
    /\ Leave(s)

\* Every leg was a replay, or the command's row has the answer.
Answer(s) ==
    /\ HasOperation(s) /\ ~ IsOpen(tx[s].op)
    /\ More(s) => Answered(s)
    /\ Leave(s)
    /\ UNCHANGED <<db, operation>>

\* The legs so far are committed, the operation stays PENDING.
Save(s) ==
    /\ HasPlayer(s)
    /\ \A plan \in Plans[tx[s].op] : \A n \in DOMAIN plan : plan[n].kind # "COMMAND"
    /\ db' = tx[s].work
    /\ Leave(s)
    /\ UNCHANGED operation

---------------------------------------------------------------------------
(* What else happens to the player's rows, with the player row locked.     *)

\* A fish is sold or a book used, as no code in the repository does yet.
TakeOut(i) ==
    /\ PlayerFree /\ IsActive(db)
    /\ db.items[i].at \in Bags
    /\ db' = [db EXCEPT !.items[i].at = "ELSEWHERE"]
    /\ UNCHANGED <<operation, tx, begun>>

SetStatus(status) ==
    /\ PlayerFree /\ db.status # status
    /\ db' = [db EXCEPT !.status = status]
    /\ UNCHANGED <<operation, tx, begun>>

Step(s) ==
    \/ LockOperation(s) \/ LockPlayer(s)
    \/ DeliverStack(s) \/ ConsumeStack(s) \/ DeliverUnique(s) \/ DeliverFish(s)
    \/ ClaimItems(s) \/ ClaimCatches(s) \/ Reserve(s) \/ Attach(s)
    \/ Replay(s) \/ Refuse(s) \/ Finish(s) \/ Answer(s)

Next ==
    \/ \E s \in Sessions : Begin(s) \/ Step(s) \/ Save(s) \/ RollBack(s)
    \/ \E i \in DOMAIN db.items : TakeOut(i)
    \/ \E status \in {"ACTIVE", "FROZEN"} : SetStatus(status)

Spec == Init /\ [][Next]_vars

\* PostgreSQL grants row locks and the executor runs the transaction on; neither a
\* lost connection nor a commit half-way is needed for it to end.
FairSpec == Spec /\ \A s \in Sessions : WF_vars(Step(s))

---------------------------------------------------------------------------
(* Properties.                                                             *)

Legs == UNION {Range(plan) : plan \in UNION {Plans[o] : o \in Ops}}
Places == Bags \cup {"TEMP_OVERFLOW", "ELSEWHERE"}
Rows ==
    [status : {"ACTIVE", "FROZEN"},
     stack : [Defs -> Nat],
     items : Seq([op : Ops, key : STRING, size : Nat, at : Places]),
     pending : Seq([op : Ops, key : STRING, item : Nat, bag : Bags,
                    state : {"PENDING", "CLAIMED"}, created : 1 .. MaxBegun]),
     owed : Seq([op : Ops, leg : Legs]),
     log : SUBSET [op : Ops, leg : Legs, overflow : BOOLEAN]]

\* Every stack stays a natural number: neither a consumption nor a reservation
\* whose input and fuel are the same definition takes more than is there.
TypeOK ==
    /\ db \in Rows
    /\ operation \in [Ops -> {"PENDING", "COMMITTED"}]
    /\ begun \in 0 .. MaxBegun
    /\ tx \in [Sessions -> [phase : {"IDLE", "WAITING", "OPEN", "LOCKED"},
                             op : Ops \cup {NoOp}, legs : Seq(Legs), work : Rows,
                             began : 0 .. MaxBegun]]

\* However deliveries and claims of several transactions interleave, no bag ever
\* holds more than the player's level allows.
WithinCapacity == \A bag \in Bags : Used(db, bag) <= Capacity(bag)

\* Kinds of log entries that took from, and put into, a stack.
Taken(entry, d) ==
    CASE entry.leg.kind = "CONSUME" -> IF entry.leg.def = d THEN entry.leg.quantity ELSE 0
      [] entry.leg.kind = "RESERVE" -> Required(entry.leg.stacks, d)
      [] OTHER -> 0
Put(entry, d) ==
    IF entry.leg.kind \in StackKinds /\ entry.leg.def = d /\ ~ entry.overflow
    THEN entry.leg.quantity ELSE 0

\* The stacks are what the audit rows say: the deliveries that fitted less the
\* consumptions and reservations, so no leg was applied twice, lost to another
\* transaction's write, or applied without its row; and none is negative, though input
\* and fuel of a job may be the same definition.
StacksBalance ==
    \A d \in Defs :
        /\ db.stack[d] >= 0
        /\ db.stack[d] + SumFunction([e \in db.log |-> Taken(e, d)])
              = Initial[d] + SumFunction([e \in db.log |-> Put(e, d)])

\* Every event of an item has exactly one item and says truly whether it had to
\* wait, and every stack that overflowed is owed exactly once.
EventsAccountForItems ==
    /\ \A entry \in db.log :
          /\ entry.leg.kind \in InstanceKinds =>
                 /\ Cardinality({i \in DOMAIN db.items : db.items[i].op = entry.op
                                     /\ db.items[i].key = entry.leg.key}) = 1
                 /\ entry.overflow <=> \E j \in DOMAIN db.pending :
                        db.pending[j].op = entry.op /\ db.pending[j].key = entry.leg.key
          /\ entry.leg.kind = "DELIVER" =>
                 entry.overflow <=> \E j \in DOMAIN db.owed :
                        db.owed[j] = [op |-> entry.op, leg |-> entry.leg]
    /\ \A i \in DOMAIN db.items : \E entry \in db.log :
          entry.op = db.items[i].op /\ entry.leg.key = db.items[i].key
    /\ \A i, j \in DOMAIN db.owed : db.owed[i] = db.owed[j] => i = j

\* An item is in TEMP_OVERFLOW exactly while one pending row waits for it, and a
\* claimed row's item is never back there.
OverflowLinked ==
    \A i \in DOMAIN db.items :
        Cardinality({j \in DOMAIN db.pending :
                        db.pending[j].item = i /\ db.pending[j].state = "PENDING"})
            = IF db.items[i].at = "TEMP_OVERFLOW" THEN 1 ELSE 0

\* What waits for a bag is of one operation: the overflow is bounded by what one
\* cast can catch.
OneOverflowOwner ==
    \A bag \in Bags : \A i, j \in Waiting(db, bag) : db.pending[i].op = db.pending[j].op

\* A claim never lets an item into a bag before one whose row was created earlier.
NoOvertaking ==
    [][\A bag \in Bags : \A i, j \in Waiting(db, bag) :
          Before(db, i, j) /\ db'.pending[j].state = "CLAIMED"
              => db'.pending[i].state = "CLAIMED"]_vars

\* Once an operation is COMMITTED no transaction, however early it began, adds a
\* leg to it.
CommittedStands ==
    [][\A o \in Ops : operation[o] = "COMMITTED" =>
          {e \in db'.log : e.op = o} = {e \in db.log : e.op = o}]_vars

\* While an account is frozen nothing enters or leaves its stacks and nothing is
\* created or claimed for it, also by a transaction that began before.
FrozenKept ==
    [][db.status = "FROZEN" =>
          <<db'.stack, db'.items, db'.pending, db'.owed>>
              = <<db.stack, db.items, db.pending, db.owed>>]_vars

\* Every transaction that begins comes to an end: lock order rules out a wait of
\* each for the other.
EveryTransactionEnds ==
    \A s \in Sessions : tx[s].phase # "IDLE" ~> tx[s].phase = "IDLE"
=============================================================================
