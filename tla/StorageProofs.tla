----------------------------- MODULE StorageProofs -----------------------------
(***************************************************************************)
(* Proofs about Storage, for every set of operations, plans and sessions,  *)
(* every capacity and every number of transactions.                        *)
(*                                                                         *)
(* The argument is that of a lock: a session that holds the player row     *)
(* works on a copy that differs from the committed rows only by its own    *)
(* operation's legs, so what a leg preserves a commit preserves.  The sums *)
(* of a stack's events, of a bag's contents and of a delivery are followed *)
(* leg by leg with the lemmas of SumTheorems.                              *)
(***************************************************************************)
EXTENDS Storage, SequenceTheorems, SumTheorems

---------------------------------------------------------------------------
(* The rows a transaction works on.                                        *)

ItemRow == [op : Ops, key : STRING, size : Nat, at : Places]
PendingRow == [op : Ops, key : STRING, item : Nat, bag : Bags,
               state : {"PENDING", "CLAIMED"}, created : Nat]

Shape(w) ==
    /\ w = [status |-> w.status, stack |-> w.stack, items |-> w.items,
            pending |-> w.pending, owed |-> w.owed, log |-> w.log]
    /\ w.items \in Seq(ItemRow)
    /\ w.pending \in Seq(PendingRow)

Open(w) == {j \in DOMAIN w.pending : w.pending[j].state = "PENDING"}

\* A pending row waits for an item in overflow, each item in overflow has such
\* a row, no two rows are for one item, and a bag's open rows have one operation.
Linked(w) ==
    /\ \A j \in DOMAIN w.pending : w.pending[j].item \in DOMAIN w.items
    /\ \A j \in Open(w) : w.items[w.pending[j].item].at = "TEMP_OVERFLOW"
    /\ \A i \in DOMAIN w.items : w.items[i].at = "TEMP_OVERFLOW" =>
          \E j \in Open(w) : w.pending[j].item = i
    /\ \A j, k \in DOMAIN w.pending : w.pending[j].item = w.pending[k].item => j = k
    /\ \A j, k \in Open(w) :
          w.pending[j].bag = w.pending[k].bag => w.pending[j].op = w.pending[k].op

Sound(w) == Shape(w) /\ Linked(w)

OthersLog(w, o) == {e \in w.log : e.op # o}

\* What a leg of operation o may do to the rows.
Extends(w, new, o) ==
    /\ Sound(new)
    /\ new.status = w.status
    /\ OthersLog(new, o) = OthersLog(w, o)

---------------------------------------------------------------------------
(* Every leg keeps the rows sound and leaves other operations' log alone.  *)

\* A delivery of stack items, whether they fit the bag or go to its overflow.
LEMMA StackLeg ==
    ASSUME NEW w, Sound(w), NEW o \in Ops, NEW leg
    PROVE  /\ Extends(w, StackDelivered(w, o, leg), o)
           /\ Extends(w, Consumed(w, o, leg), o)
           /\ Extends(w, Reserved(w, o, leg), o)
           /\ Extends(w, Attached(w, o, leg), o)
<1>1. ASSUME NEW new, new.status = w.status, new.items = w.items, new.pending = w.pending,
             new = [status |-> new.status, stack |-> new.stack, items |-> new.items,
                    pending |-> new.pending, owed |-> new.owed, log |-> new.log],
             OthersLog(new, o) = OthersLog(w, o)
      PROVE  Extends(w, new, o)
  BY <1>1 DEF Extends, Sound, Shape, Linked, Open
<1>2. ASSUME NEW overflow
      PROVE  {e \in w.log \cup {Entry(o, leg, overflow)} : e.op # o} = OthersLog(w, o)
  BY DEF Entry, OthersLog
<1>3. Extends(w, StackDelivered(w, o, leg), o)
  <2> DEFINE new == StackDelivered(w, o, leg)
  <2>1. CASE StackFits(w, leg.def, leg.quantity)
    <3>1. new = [w EXCEPT !.stack[leg.def] = @ + leg.quantity,
                          !.log = @ \cup {Entry(o, leg, FALSE)}]
      BY <2>1 DEF StackDelivered
    <3> QED BY <1>1, <1>2, <3>1 DEF Sound, Shape, OthersLog
  <2>2. CASE ~ StackFits(w, leg.def, leg.quantity)
    <3>1. new = [w EXCEPT !.owed = Append(@, [op |-> o, leg |-> leg]),
                          !.log = IF leg.kind = "COMMAND" THEN @
                                  ELSE @ \cup {Entry(o, leg, TRUE)}]
      BY <2>2 DEF StackDelivered
    <3> QED BY <1>1, <1>2, <3>1 DEF Sound, Shape, OthersLog
  <2> QED BY <2>1, <2>2
<1>4. Extends(w, Consumed(w, o, leg), o)
  <2> DEFINE new == Consumed(w, o, leg)
  <2>1. new = [w EXCEPT !.stack[leg.def] = @ - leg.quantity,
                        !.log = @ \cup {Entry(o, leg, FALSE)}]
    BY DEF Consumed
  <2> QED BY <1>1, <1>2, <2>1 DEF Sound, Shape, OthersLog
<1>5. Extends(w, Reserved(w, o, leg), o)
  <2> DEFINE new == Reserved(w, o, leg)
  <2>1. new = [w EXCEPT !.stack = [d \in Defs |-> @[d] - Required(leg.stacks, d)],
                        !.log = @ \cup {Entry(o, leg, FALSE)}]
    BY DEF Reserved
  <2> QED BY <1>1, <1>2, <2>1 DEF Sound, Shape, OthersLog
<1>6. Extends(w, Attached(w, o, leg), o)
  <2> DEFINE new == Attached(w, o, leg)
  <2>1. new = [w EXCEPT !.log = @ \cup {Entry(o, leg, FALSE)}]
    BY DEF Attached
  <2> QED BY <1>1, <1>2, <2>1 DEF Sound, Shape, OthersLog
<1> QED BY <1>3, <1>4, <1>5, <1>6

\* A session mints only into a bag where nothing of another operation waits.
LEMMA MintLeg ==
    ASSUME NEW w, Sound(w), NEW o \in Ops, NEW leg, NEW began \in Nat,
           leg.key \in STRING, leg.size \in Nat, leg.bag \in Bags,
           MayMint(w, o, leg.bag)
    PROVE  Extends(w, Minted(w, o, leg, began), o)
<1> DEFINE fits == Used(w, leg.bag) + leg.size <= Capacity(leg.bag)
           item == [op |-> o, key |-> leg.key, size |-> leg.size,
                    at |-> IF fits THEN leg.bag ELSE "TEMP_OVERFLOW"]
           row == [op |-> o, key |-> leg.key, item |-> Len(w.items) + 1, bag |-> leg.bag,
                   state |-> "PENDING", created |-> began]
           new == Minted(w, o, leg, began)
<1>1. w.items \in Seq(ItemRow) /\ w.pending \in Seq(PendingRow)
  BY DEF Sound, Shape
<1>2. /\ new = [status |-> w.status, stack |-> w.stack, items |-> Append(w.items, item),
                pending |-> IF fits THEN w.pending ELSE Append(w.pending, row),
                owed |-> w.owed, log |-> w.log \cup {Entry(o, leg, ~ fits)}]
  <2>1. new = [w EXCEPT !.items = Append(@, item),
                        !.pending = IF fits THEN @ ELSE Append(@, row),
                        !.log = @ \cup {Entry(o, leg, ~ fits)}]
    BY Zenon DEF Minted
  <2> HIDE DEF new, fits, item, row
  <2> QED BY <2>1 DEF Sound, Shape
<1>3. item \in ItemRow /\ row \in PendingRow
  BY <1>1 DEF ItemRow, PendingRow, Places, Bags
<1>4. OthersLog(new, o) = OthersLog(w, o) /\ new.status = w.status
  BY <1>2 DEF OthersLog, Entry
<1>5. Shape(new)
  BY <1>1, <1>2, <1>3 DEF Shape
<1>6. /\ Len(w.items) \in Nat /\ DOMAIN w.items = 1 .. Len(w.items)
      /\ new.items \in Seq(ItemRow)
      /\ DOMAIN new.items = 1 .. Len(w.items) + 1
      /\ \A i \in DOMAIN w.items : new.items[i] = w.items[i]
      /\ new.items[Len(w.items) + 1] = item
  BY <1>1, <1>2, <1>3
<1> HIDE DEF item, row, fits
<1>7. CASE fits
  <2>1. new.pending = w.pending
    BY <1>2, <1>7
  <2>2. item.at # "TEMP_OVERFLOW"
    BY <1>7 DEF item, Bags
  <2>3. Open(new) = Open(w)
    BY <2>1 DEF Open
  <2>4. \A j \in DOMAIN new.pending : new.pending[j].item \in DOMAIN new.items
    BY <1>6, <2>1 DEF Linked, Sound
  <2>5. \A j \in Open(new) : new.items[new.pending[j].item].at = "TEMP_OVERFLOW"
    <3> SUFFICES ASSUME NEW j \in Open(w) PROVE new.items[w.pending[j].item].at = "TEMP_OVERFLOW"
      BY <2>1, <2>3
    <3>1. w.pending[j].item \in DOMAIN w.items
      BY DEF Linked, Sound, Open
    <3>2. w.items[w.pending[j].item].at = "TEMP_OVERFLOW"
      BY DEF Linked, Sound
    <3> QED BY <1>6, <3>1, <3>2
  <2>6. \A i \in DOMAIN new.items : new.items[i].at = "TEMP_OVERFLOW" =>
            \E j \in Open(new) : new.pending[j].item = i
    BY <1>6, <2>1, <2>2, <2>3 DEF Linked, Sound
  <2>7. /\ \A j, k \in DOMAIN new.pending :
               new.pending[j].item = new.pending[k].item => j = k
        /\ \A j, k \in Open(new) : new.pending[j].bag = new.pending[k].bag
               => new.pending[j].op = new.pending[k].op
    BY <2>1, <2>3 DEF Linked, Sound
  <2> QED BY <1>4, <1>5, <2>4, <2>5, <2>6, <2>7 DEF Extends, Sound, Linked
<1>8. CASE ~ fits
  <2>1. /\ new.pending = Append(w.pending, row)
        /\ Len(w.pending) \in Nat /\ DOMAIN w.pending = 1 .. Len(w.pending)
        /\ DOMAIN new.pending = 1 .. Len(w.pending) + 1
        /\ \A j \in DOMAIN w.pending : new.pending[j] = w.pending[j]
        /\ new.pending[Len(w.pending) + 1] = row
    BY <1>1, <1>2, <1>3, <1>8
  <2>2. item.at = "TEMP_OVERFLOW"
    BY <1>8 DEF item
  <2>3. /\ row.state = "PENDING" /\ row.item = Len(w.items) + 1
        /\ row.op = o /\ row.bag = leg.bag
    BY DEF row
  <2>4. Open(new) = Open(w) \cup {Len(w.pending) + 1}
    BY <2>1, <2>3 DEF Open
  <2>5. \A j \in Open(w) : w.pending[j].bag = leg.bag => w.pending[j].op = o
    BY DEF MayMint, Waiting, Open
  <2>6. \A j \in DOMAIN new.pending : new.pending[j].item \in DOMAIN new.items
    <3>1. \A j \in DOMAIN w.pending : w.pending[j].item \in 1 .. Len(w.items) + 1
      BY <1>6 DEF Linked, Sound
    <3>2. new.pending[Len(w.pending) + 1].item = Len(w.items) + 1
      BY <2>1, <2>3
    <3> QED BY <1>6, <2>1, <3>1, <3>2
  <2>7. \A j \in Open(new) : new.items[new.pending[j].item].at = "TEMP_OVERFLOW"
    <3> SUFFICES ASSUME NEW j \in Open(new)
                 PROVE  new.items[new.pending[j].item].at = "TEMP_OVERFLOW"
      OBVIOUS
    <3>1. CASE j \in Open(w)
      <4>1. j \in DOMAIN w.pending
        BY <3>1 DEF Open
      <4>2. w.pending[j].item \in DOMAIN w.items
        BY <4>1 DEF Linked, Sound
      <4>3. w.items[w.pending[j].item].at = "TEMP_OVERFLOW"
        BY <3>1 DEF Linked, Sound
      <4> QED BY <1>6, <2>1, <4>1, <4>2, <4>3
    <3>2. CASE j = Len(w.pending) + 1
      BY <1>6, <2>1, <2>2, <2>3, <3>2
    <3> QED BY <2>4, <3>1, <3>2
  <2>8. \A i \in DOMAIN new.items : new.items[i].at = "TEMP_OVERFLOW" =>
            \E j \in Open(new) : new.pending[j].item = i
    <3> SUFFICES ASSUME NEW i \in DOMAIN new.items, new.items[i].at = "TEMP_OVERFLOW"
                 PROVE  \E j \in Open(new) : new.pending[j].item = i
      OBVIOUS
    <3>1. CASE i \in DOMAIN w.items
      <4>1. w.items[i].at = "TEMP_OVERFLOW"
        BY <1>6, <3>1
      <4>2. PICK j \in Open(w) : w.pending[j].item = i
        BY <3>1, <4>1 DEF Linked, Sound
      <4>3. j \in DOMAIN w.pending
        BY DEF Open
      <4> QED BY <2>1, <2>4, <4>2, <4>3
    <3>2. CASE i = Len(w.items) + 1
      BY <2>1, <2>3, <2>4, <3>2
    <3> QED BY <1>6, <3>1, <3>2
  <2>9. \A j, k \in DOMAIN new.pending : new.pending[j].item = new.pending[k].item => j = k
    <3>1. \A j, k \in DOMAIN w.pending : w.pending[j].item = w.pending[k].item => j = k
      BY DEF Linked, Sound
    <3>2. \A j \in DOMAIN w.pending : w.pending[j].item # Len(w.items) + 1
      BY <1>6 DEF Linked, Sound
    <3> QED BY <2>1, <2>3, <3>1, <3>2
  <2>10. \A j, k \in Open(new) :
            new.pending[j].bag = new.pending[k].bag => new.pending[j].op = new.pending[k].op
    <3>1. \A j \in Open(w) : new.pending[j] = w.pending[j]
      BY <2>1 DEF Open
    <3>2. \A j, k \in Open(w) :
             w.pending[j].bag = w.pending[k].bag => w.pending[j].op = w.pending[k].op
      BY DEF Linked, Sound
    <3>3. new.pending[Len(w.pending) + 1].bag = leg.bag
          /\ new.pending[Len(w.pending) + 1].op = o
      BY <2>1, <2>3
    <3> QED BY <2>4, <2>5, <3>1, <3>2, <3>3
  <2> QED BY <1>4, <1>5, <2>6, <2>7, <2>8, <2>9, <2>10 DEF Extends, Sound, Linked
<1> QED BY <1>7, <1>8

\* A claim moves the items of the rows it closes, and only those.
LEMMA ClaimLeg ==
    ASSUME NEW w, Sound(w), NEW o \in Ops, NEW leg, leg.bag \in Bags
    PROVE  Extends(w, Claimed(w, o, leg), o)
<1> DEFINE rows == Claimable(w, leg.bag)
           moved == Items(w, rows)
           new == Claimed(w, o, leg)
<1>1. w.items \in Seq(ItemRow) /\ w.pending \in Seq(PendingRow)
  BY DEF Sound, Shape
<1>2. rows \subseteq Open(w)
  BY DEF Claimable, Waiting, Open
<1>3. /\ new.status = w.status
      /\ new.log = w.log \cup {Entry(o, leg, FALSE)}
      /\ new.items = [i \in DOMAIN w.items |-> IF i \in moved
                         THEN [w.items[i] EXCEPT !.at = leg.bag] ELSE w.items[i]]
      /\ new.pending = [i \in DOMAIN w.pending |-> IF i \in rows
                           THEN [w.pending[i] EXCEPT !.state = "CLAIMED"] ELSE w.pending[i]]
      /\ new = [status |-> new.status, stack |-> new.stack, items |-> new.items,
                pending |-> new.pending, owed |-> new.owed, log |-> new.log]
  <2>1. new = [w EXCEPT
                 !.items = [i \in DOMAIN @ |-> IF i \in moved
                              THEN [@[i] EXCEPT !.at = leg.bag] ELSE @[i]],
                 !.pending = [i \in DOMAIN @ |-> IF i \in rows
                                THEN [@[i] EXCEPT !.state = "CLAIMED"] ELSE @[i]],
                 !.log = @ \cup {Entry(o, leg, FALSE)}]
    BY Zenon DEF Claimed
  <2> HIDE DEF new, rows, moved
  <2> QED BY <2>1 DEF Sound, Shape
<1>4. \A i \in DOMAIN w.items : w.items[i] \in ItemRow
  BY <1>1
<1>5. \A i \in DOMAIN w.pending : w.pending[i] \in PendingRow
  BY <1>1
<1>6. \A i \in moved : \E j \in rows : w.pending[j].item = i
  BY DEF Items
<1>7. \A j \in rows : w.pending[j].item \in moved
  BY DEF Items
<1> HIDE DEF rows, moved, new
<1>8. new.items \in Seq(ItemRow) /\ DOMAIN new.items = DOMAIN w.items
  <2>1. \A i \in DOMAIN w.items : new.items[i] \in ItemRow
    BY <1>3, <1>4 DEF ItemRow, Places
  <2>2. Len(w.items) \in Nat /\ DOMAIN w.items = 1 .. Len(w.items)
    BY <1>1
  <2>3. new.items \in [1 .. Len(w.items) -> ItemRow]
    BY <1>3, <2>1, <2>2
  <2> QED BY <1>3, <2>2, <2>3, SeqDef
<1>9. new.pending \in Seq(PendingRow) /\ DOMAIN new.pending = DOMAIN w.pending
  <2>1. \A i \in DOMAIN w.pending : new.pending[i] \in PendingRow
    BY <1>3, <1>5 DEF PendingRow
  <2>2. Len(w.pending) \in Nat /\ DOMAIN w.pending = 1 .. Len(w.pending)
    BY <1>1
  <2>3. new.pending \in [1 .. Len(w.pending) -> PendingRow]
    BY <1>3, <2>1, <2>2
  <2> QED BY <1>3, <2>2, <2>3, SeqDef
<1>10. \A j \in DOMAIN w.pending :
          /\ new.pending[j].item = w.pending[j].item
          /\ new.pending[j].op = w.pending[j].op
          /\ new.pending[j].bag = w.pending[j].bag
          /\ new.pending[j].state = IF j \in rows THEN "CLAIMED" ELSE w.pending[j].state
  BY <1>3, <1>5 DEF PendingRow
<1>11. Open(new) = Open(w) \ rows
  BY <1>9, <1>10 DEF Open
<1>12. \A i \in DOMAIN w.items :
          new.items[i].at = IF i \in moved THEN leg.bag ELSE w.items[i].at
  BY <1>3, <1>4 DEF ItemRow
<1>13. \A j \in DOMAIN new.pending : new.pending[j].item \in DOMAIN new.items
  BY <1>8, <1>9, <1>10 DEF Linked, Sound
<1>14. \A j \in Open(new) : new.items[new.pending[j].item].at = "TEMP_OVERFLOW"
  <2> SUFFICES ASSUME NEW j \in Open(new)
               PROVE  new.items[new.pending[j].item].at = "TEMP_OVERFLOW"
    OBVIOUS
  <2>1. j \in Open(w) /\ j \notin rows /\ j \in DOMAIN w.pending
    BY <1>11 DEF Open
  <2>2. w.pending[j].item \notin moved
    BY <1>2, <1>6, <2>1 DEF Linked, Sound, Open
  <2> QED BY <1>10, <1>12, <2>1, <2>2 DEF Linked, Sound
<1>15. \A i \in DOMAIN new.items : new.items[i].at = "TEMP_OVERFLOW" =>
          \E j \in Open(new) : new.pending[j].item = i
  <2> SUFFICES ASSUME NEW i \in DOMAIN w.items, new.items[i].at = "TEMP_OVERFLOW"
               PROVE  \E j \in Open(new) : new.pending[j].item = i
    BY <1>8
  <2>1. i \notin moved /\ w.items[i].at = "TEMP_OVERFLOW"
    BY <1>12 DEF Bags
  <2>2. PICK j \in Open(w) : w.pending[j].item = i
    BY <2>1 DEF Linked, Sound
  <2>3. j \notin rows /\ j \in DOMAIN w.pending
    BY <1>7, <2>1, <2>2 DEF Open
  <2> QED BY <1>10, <1>11, <2>2, <2>3
<1>16. \A j, k \in DOMAIN new.pending : new.pending[j].item = new.pending[k].item => j = k
  BY <1>9, <1>10 DEF Linked, Sound
<1>17. \A j, k \in Open(new) :
          new.pending[j].bag = new.pending[k].bag => new.pending[j].op = new.pending[k].op
  BY <1>10, <1>11 DEF Linked, Sound, Open
<1>18. OthersLog(new, o) = OthersLog(w, o)
  BY <1>3 DEF OthersLog, Entry
<1>19. Shape(new)
  BY <1>3, <1>8, <1>9 DEF Shape
<1> QED BY <1>3, <1>13, <1>14, <1>15, <1>16, <1>17, <1>18, <1>19
        DEF Extends, Sound, Linked, new

---------------------------------------------------------------------------
(* The inductive invariant.                                                *)

TxRow(r) ==
    /\ r = [phase |-> r.phase, op |-> r.op, legs |-> r.legs, work |-> r.work,
            began |-> r.began]
    /\ r.phase \in {"IDLE", "WAITING", "OPEN", "LOCKED"}
    /\ r.phase # "IDLE" => r.op \in Ops
    /\ r.legs \in Seq(Legs)
    /\ Sound(r.work)
    /\ r.began \in Nat

Typed ==
    /\ Sound(db)
    /\ operation \in [Ops -> {"PENDING", "COMMITTED"}]
    /\ begun \in Nat
    /\ tx = [s \in Sessions |-> tx[s]]
    /\ \A s \in Sessions : TxRow(tx[s])

\* The rows are locked by one session each.
Exclusive ==
    /\ \A s, t \in Sessions : HasPlayer(s) /\ HasPlayer(t) => s = t
    /\ \A s, t \in Sessions :
          HasOperation(s) /\ HasOperation(t) /\ tx[s].op = tx[t].op => s = t

\* The copy of the session that has the player row: only its own operation's log
\* differs, and nothing if the operation has ended or the account is frozen.
Copied ==
    \A s \in Sessions : HasPlayer(s) =>
        /\ tx[s].work.status = db.status
        /\ OthersLog(tx[s].work, tx[s].op) = OthersLog(db, tx[s].op)
        /\ operation[tx[s].op] = "COMMITTED" => tx[s].work = db
        /\ db.status = "FROZEN" => tx[s].work = db

IInv == Typed /\ Exclusive /\ Copied

\* What a leg of each kind brings.
LEMMA LegFacts ==
    ASSUME NEW leg \in Legs
    PROVE  /\ leg.key \in STRING
           /\ leg.kind \in InstanceKinds => leg.size \in Nat
           /\ leg.kind = "UNIQUE" => leg.bag = "ITEM_BAG"
           /\ leg.kind = "FISH" => leg.bag = "CATCH_BAG"
<1>1. PICK o \in Ops : \E plan \in Plans[o] : leg \in Range(plan)
  BY Zenon DEF Legs
<1>2. PICK plan \in Plans[o] : leg \in Range(plan)
  BY <1>1
<1>3. \A l \in Range(plan) :
          /\ l.key \in STRING
          /\ l.kind \in InstanceKinds => l.size \in Nat \ {0}
          /\ l.kind = "UNIQUE" => l.bag = "ITEM_BAG"
          /\ l.kind = "FISH" => l.bag = "CATCH_BAG"
  BY PlansAssumption, Zenon
<1> QED BY <1>2, <1>3

\* The legs of a plan, and what is left of them.
LEMMA PlanFacts ==
    ASSUME NEW o \in Ops, NEW plan \in Plans[o]
    PROVE  plan \in Seq(Legs)
<1>1. plan \in Seq(Range(plan))
  BY PlansAssumption
<1>2. Range(plan) \subseteq Legs
  BY DEF Legs
<1> QED BY <1>1, <1>2, SeqMonotonic

\* The empty storage is sound.
LEMMA EmptySound == Sound(Empty)
BY DEF Sound, Shape, Linked, Open, Empty

\* Initially nothing is locked.
LEMMA InitIInv == Init => IInv
<1> SUFFICES ASSUME Init PROVE IInv
  OBVIOUS
<1>1. \A s \in Sessions : tx[s] = Idle
  BY DEF Init
<1>2. TxRow(Idle)
  BY EmptySound DEF TxRow, Idle
<1>3. Typed
  BY <1>1, <1>2, EmptySound DEF Typed, Init
<1>4. Exclusive /\ Copied
  BY <1>1 DEF Exclusive, Copied, HasPlayer, HasOperation, Idle
<1> QED BY <1>3, <1>4 DEF IInv

\* A transaction that ends without a commit frees its rows.
LEMMA LeaveStep ==
    ASSUME IInv, NEW s \in Sessions, Leave(s), UNCHANGED <<db, operation>>
    PROVE  IInv'
<1>1. /\ tx' = [t \in Sessions |-> tx'[t]]
      /\ tx'[s] = Idle
      /\ \A t \in Sessions \ {s} : tx'[t] = tx[t]
  BY DEF Leave, IInv, Typed
<1>2. TxRow(Idle)
  BY EmptySound DEF TxRow, Idle
<1>3. Typed'
  BY <1>1, <1>2 DEF IInv, Typed, Leave
<1>4. Exclusive' /\ Copied'
  BY <1>1 DEF IInv, Exclusive, Copied, HasPlayer, HasOperation, Idle, OthersLog
<1> QED BY <1>3, <1>4 DEF IInv

\* A leg writes to the copy of its session only.
LEMMA WriteStep ==
    ASSUME IInv, NEW s \in Sessions, More(s), HasPlayer(s), NEW new,
           Extends(tx[s].work, new, tx[s].op), IsOpen(tx[s].op), IsActive(tx[s].work),
           Writes(s, new)
    PROVE  IInv'
<1>1. /\ tx' = [t \in Sessions |-> tx'[t]]
      /\ tx'[s] = [phase |-> tx[s].phase, op |-> tx[s].op, legs |-> Tail(tx[s].legs),
                   work |-> new, began |-> tx[s].began]
      /\ \A t \in Sessions \ {s} : tx'[t] = tx[t]
      /\ UNCHANGED <<db, operation, begun>>
  <2>1. tx = [t \in Sessions |-> tx[t]]
    BY DEF IInv, Typed
  <2>2. tx' = [tx EXCEPT ![s].work = new, ![s].legs = Tail(@)]
    BY DEF Writes
  <2>3. tx'[s] = [tx[s] EXCEPT !.work = new, !.legs = Tail(tx[s].legs)]
    BY <2>1, <2>2
  <2>4. TxRow(tx[s])
    BY DEF IInv, Typed
  <2>5. ASSUME NEW r, TxRow(r), NEW l, NEW q, q = [r EXCEPT !.work = new, !.legs = l]
        PROVE  q = [phase |-> r.phase, op |-> r.op, legs |-> l, work |-> new,
                    began |-> r.began]
    BY <2>5 DEF TxRow
  <2>6. \A t \in Sessions \ {s} : tx'[t] = tx[t]
    BY <2>1, <2>2
  <2>7. tx' = [t \in Sessions |-> tx'[t]]
    BY <2>1, <2>2
  <2>8. tx'[s] = [phase |-> tx[s].phase, op |-> tx[s].op, legs |-> Tail(tx[s].legs),
                  work |-> new, began |-> tx[s].began]
    BY <2>3, <2>4, <2>5, Zenon
  <2> QED BY <2>6, <2>7, <2>8 DEF Writes
<1>2. Tail(tx[s].legs) \in Seq(Legs)
  BY DEF IInv, Typed, TxRow, More
<1>3. TxRow(tx'[s])
  BY <1>1, <1>2 DEF IInv, Typed, TxRow, Extends
<1>4. Typed'
  BY <1>1, <1>3 DEF IInv, Typed
<1>5. Exclusive'
  BY <1>1 DEF IInv, Exclusive, HasPlayer, HasOperation
<1>6. operation[tx[s].op] # "COMMITTED" /\ db.status # "FROZEN"
  BY DEF IsOpen, IsActive, IInv, Copied
<1>7. Copied'
  <2> SUFFICES ASSUME NEW t \in Sessions, HasPlayer(t)'
               PROVE  /\ tx'[t].work.status = db.status
                      /\ OthersLog(tx'[t].work, tx'[t].op) = OthersLog(db, tx'[t].op)
                      /\ operation[tx'[t].op] = "COMMITTED" => tx'[t].work = db
                      /\ db.status = "FROZEN" => tx'[t].work = db
    BY <1>1 DEF Copied, OthersLog
  <2>1. CASE t = s
    BY <1>1, <1>6, <2>1 DEF Extends, IInv, Copied, OthersLog
  <2>2. CASE t # s
    BY <1>1, <2>2 DEF IInv, Copied, HasPlayer
  <2> QED BY <2>1, <2>2
<1> QED BY <1>4, <1>5, <1>7 DEF IInv

\* A session's row is replaced by r; Held says what r may claim to hold.
Moves(s, r) ==
    /\ tx' = [t \in Sessions |-> tx'[t]]
    /\ tx'[s] = r
    /\ \A t \in Sessions \ {s} : tx'[t] = tx[t]

MayHold(s, r) ==
    /\ r.phase \in {"OPEN", "LOCKED"} =>
          \A t \in Sessions \ {s} : HasOperation(t) => tx[t].op # r.op
    /\ r.phase = "LOCKED" =>
          /\ \A t \in Sessions \ {s} : ~ HasPlayer(t)
          /\ \/ r.work = db
             \/ HasPlayer(s) /\ r.work = tx[s].work /\ r.op = tx[s].op

\* Whatever a transaction goes on to, holding only what nobody else holds.
LEMMA MoveStep ==
    ASSUME IInv, NEW s \in Sessions, NEW r, TxRow(r), Moves(s, r), MayHold(s, r),
           UNCHANGED <<db, operation>>, begun' \in Nat
    PROVE  IInv'
<1>1. Typed'
  BY DEF IInv, Typed, Moves
<1>2. Exclusive'
  BY DEF IInv, Exclusive, HasPlayer, HasOperation, Moves, MayHold
<1>3. Copied'
  <2> SUFFICES ASSUME NEW t \in Sessions, HasPlayer(t)'
               PROVE  /\ tx'[t].work.status = db.status
                      /\ OthersLog(tx'[t].work, tx'[t].op) = OthersLog(db, tx'[t].op)
                      /\ operation[tx'[t].op] = "COMMITTED" => tx'[t].work = db
                      /\ db.status = "FROZEN" => tx'[t].work = db
    BY DEF Copied, OthersLog
  <2>1. CASE t = s
    BY <2>1 DEF IInv, Copied, HasPlayer, Moves, MayHold
  <2>2. CASE t # s
    BY <2>2 DEF IInv, Copied, HasPlayer, Moves
  <2> QED BY <2>1, <2>2
<1> QED BY <1>1, <1>2, <1>3 DEF IInv

\* Begin: the new transaction holds nothing.
LEMMA BeginStep ==
    ASSUME IInv, NEW s \in Sessions, Begin(s) PROVE IInv'
<1>1. PICK o \in Ops : \E plan \in Plans[o] :
        tx' = [tx EXCEPT ![s] = [phase |-> "WAITING", op |-> o, legs |-> plan,
                                 work |-> Empty, began |-> begun + 1]]
  BY DEF Begin
<1>2. PICK plan \in Plans[o] :
        tx' = [tx EXCEPT ![s] = [phase |-> "WAITING", op |-> o, legs |-> plan,
                                 work |-> Empty, began |-> begun + 1]]
  BY <1>1
<1> DEFINE r == [phase |-> "WAITING", op |-> o, legs |-> plan,
                 work |-> Empty, began |-> begun + 1]
<1>3. plan \in Seq(Legs)
  BY PlanFacts
<1>4. begun \in Nat /\ begun' = begun + 1 /\ UNCHANGED <<db, operation>>
  BY DEF Begin, IInv, Typed
<1>5. TxRow(r)
  BY <1>3, <1>4, EmptySound DEF TxRow
<1>6. r.phase = "WAITING"
  OBVIOUS
<1>7. tx' = [tx EXCEPT ![s] = r]
  BY <1>2
<1> HIDE DEF r
<1>8. Moves(s, r)
  BY <1>7 DEF Moves, IInv, Typed
<1>9. MayHold(s, r)
  BY <1>6 DEF MayHold
<1> QED BY <1>4, <1>5, <1>8, <1>9, MoveStep

\* LockOperation: no other session has the row.
LEMMA LockOperationStep ==
    ASSUME IInv, NEW s \in Sessions, LockOperation(s) PROVE IInv'
<1> DEFINE r == [phase |-> "OPEN", op |-> tx[s].op, legs |-> tx[s].legs,
                 work |-> tx[s].work, began |-> tx[s].began]
<1>1. TxRow(tx[s]) /\ tx = [t \in Sessions |-> tx[t]] /\ begun \in Nat
  BY DEF IInv, Typed
<1>2. tx' = [tx EXCEPT ![s] = [tx[s] EXCEPT !.phase = "OPEN"]]
  BY <1>1 DEF LockOperation
<1>3. ASSUME NEW q, NEW old, TxRow(old), q = [old EXCEPT !.phase = "OPEN"]
      PROVE  q = [phase |-> "OPEN", op |-> old.op, legs |-> old.legs,
                  work |-> old.work, began |-> old.began]
  BY <1>3 DEF TxRow
<1>4. [tx[s] EXCEPT !.phase = "OPEN"] = r
  BY <1>1, <1>3, Zenon
<1>5. TxRow(r) /\ r.phase = "OPEN" /\ r.op = tx[s].op
  BY <1>1 DEF TxRow, LockOperation
<1> HIDE DEF r
<1>6. Moves(s, r)
  BY <1>1, <1>2, <1>4 DEF Moves
<1>7. MayHold(s, r)
  BY <1>5 DEF MayHold, LockOperation
<1>8. UNCHANGED <<db, operation, begun>>
  BY DEF LockOperation
<1> QED BY <1>1, <1>5, <1>6, <1>7, <1>8, MoveStep

\* LockPlayer: no other session has the player, and the copy is the rows.
LEMMA LockPlayerStep ==
    ASSUME IInv, NEW s \in Sessions, LockPlayer(s) PROVE IInv'
<1> DEFINE r == [phase |-> "LOCKED", op |-> tx[s].op, legs |-> tx[s].legs,
                 work |-> db, began |-> tx[s].began]
<1>1. TxRow(tx[s]) /\ tx = [t \in Sessions |-> tx[t]] /\ begun \in Nat
      /\ Sound(db)
  BY DEF IInv, Typed
<1>2. tx' = [tx EXCEPT ![s] = [tx[s] EXCEPT !.phase = "LOCKED", !.work = db]]
  BY <1>1 DEF LockPlayer
<1>3. ASSUME NEW q, NEW old, TxRow(old), NEW w,
             q = [old EXCEPT !.phase = "LOCKED", !.work = w]
      PROVE  q = [phase |-> "LOCKED", op |-> old.op, legs |-> old.legs,
                  work |-> w, began |-> old.began]
  BY <1>3 DEF TxRow
<1>4. tx'[s] = r
  <2>1. tx'[s] = [tx[s] EXCEPT !.phase = "LOCKED", !.work = db]
    BY <1>1, <1>2
  <2> QED BY <1>1, <1>3, <2>1, Zenon
<1>5. /\ HasOperation(s) /\ PlayerFree
      /\ UNCHANGED <<db, operation, begun>>
  BY DEF LockPlayer, More
<1>6. TxRow(r) /\ r.phase = "LOCKED" /\ r.op = tx[s].op /\ r.work = db
  BY <1>1, <1>5 DEF TxRow, HasOperation
<1> HIDE DEF r
<1>7. Moves(s, r)
  BY <1>1, <1>2, <1>4 DEF Moves
<1>8. MayHold(s, r)
  <2>1. \A t \in Sessions \ {s} : HasOperation(t) => tx[t].op # tx[s].op
    BY <1>5 DEF IInv, Exclusive
  <2> QED BY <1>5, <1>6, <2>1 DEF MayHold, PlayerFree
<1> QED BY <1>1, <1>5, <1>6, <1>7, <1>8, MoveStep

\* Replay: the leg is done with and the rows are as they were.
LEMMA ReplayStep ==
    ASSUME IInv, NEW s \in Sessions, Replay(s) PROVE IInv'
<1> DEFINE rest == Tail(tx[s].legs)
           r == [phase |-> tx[s].phase, op |-> tx[s].op, legs |-> rest,
                 work |-> tx[s].work, began |-> tx[s].began]
<1>1. TxRow(tx[s]) /\ tx = [t \in Sessions |-> tx[t]] /\ begun \in Nat
  BY DEF IInv, Typed
<1>2. tx' = [tx EXCEPT ![s] = [tx[s] EXCEPT !.legs = rest]]
  BY <1>1 DEF Replay
<1>3. ASSUME NEW q, NEW old, TxRow(old), NEW l, q = [old EXCEPT !.legs = l]
      PROVE  q = [phase |-> old.phase, op |-> old.op, legs |-> l,
                  work |-> old.work, began |-> old.began]
  BY <1>3 DEF TxRow
<1>4. tx'[s] = r
  <2>1. tx'[s] = [tx[s] EXCEPT !.legs = rest]
    BY <1>1, <1>2
  <2> QED BY <1>1, <1>3, <2>1, Zenon
<1>5. HasOperation(s) /\ UNCHANGED <<db, operation, begun>> /\ rest \in Seq(Legs)
  BY <1>1 DEF Replay, More, TxRow
<1>6. TxRow(r) /\ r.phase = tx[s].phase /\ r.op = tx[s].op /\ r.work = tx[s].work
  BY <1>1, <1>5 DEF TxRow
<1> HIDE DEF r, rest
<1>7. Moves(s, r)
  BY <1>1, <1>2, <1>4 DEF Moves
<1>8. MayHold(s, r)
  BY <1>5, <1>6 DEF MayHold, HasPlayer, HasOperation, IInv, Exclusive
<1> QED BY <1>1, <1>5, <1>6, <1>7, <1>8, MoveStep

\* The leg at hand is one of the plans'.
LEMMA HeadFacts ==
    ASSUME IInv, NEW s \in Sessions, More(s)
    PROVE  Leg(s) \in Legs /\ tx[s].op \in Ops /\ Sound(tx[s].work) /\ tx[s].began \in Nat
<1>1. TxRow(tx[s])
  BY DEF IInv, Typed
<1>2. tx[s].legs \in Seq(Legs) /\ tx[s].legs # <<>> /\ tx[s].phase # "IDLE"
  BY <1>1 DEF TxRow, More, HasOperation
<1>3. Head(tx[s].legs) \in Legs
  BY <1>2
<1> QED BY <1>1, <1>2, <1>3 DEF TxRow, Leg

\* The legs.
LEMMA LegStep ==
    ASSUME IInv, NEW s \in Sessions,
           \/ DeliverStack(s) \/ ConsumeStack(s) \/ DeliverUnique(s) \/ DeliverFish(s)
           \/ ClaimItems(s) \/ ClaimCatches(s) \/ Reserve(s) \/ Attach(s)
    PROVE  IInv'
<1> DEFINE w == tx[s].work
           o == tx[s].op
           leg == Leg(s)
<1>1. ASSUME NEW kinds, Fresh(s, kinds)
      PROVE  /\ More(s) /\ HasPlayer(s) /\ IsOpen(o) /\ IsActive(w) /\ leg.kind \in kinds
             /\ leg \in Legs /\ o \in Ops /\ Sound(w) /\ tx[s].began \in Nat
  <2>1. /\ More(s) /\ HasPlayer(s) /\ IsOpen(o) /\ IsActive(w) /\ leg.kind \in kinds
    BY <1>1 DEF Fresh
  <2>2. leg \in Legs /\ o \in Ops /\ Sound(w) /\ tx[s].began \in Nat
    BY <2>1, HeadFacts
  <2> QED BY <2>1, <2>2
<1> HIDE DEF w, o, leg
<1>2. ASSUME NEW kinds, Fresh(s, kinds), NEW new, Extends(w, new, o), Writes(s, new)
      PROVE  IInv'
  <2>1. /\ More(s) /\ HasPlayer(s) /\ IsOpen(o) /\ IsActive(w)
    BY <1>1, <1>2
  <2> QED BY <1>2, <2>1, WriteStep DEF w, o
<1>3. CASE DeliverStack(s)
  <2>1. Fresh(s, StackKinds) /\ Writes(s, StackDelivered(w, o, leg))
    BY <1>3 DEF DeliverStack, w, o, leg
  <2>2. Extends(w, StackDelivered(w, o, leg), o)
    BY <1>1, <2>1, StackLeg
  <2> QED BY <1>2, <2>1, <2>2
<1>4. CASE ConsumeStack(s)
  <2>1. Fresh(s, {"CONSUME"}) /\ Writes(s, Consumed(w, o, leg))
    BY <1>4 DEF ConsumeStack, w, o, leg
  <2>2. Extends(w, Consumed(w, o, leg), o)
    BY <1>1, <2>1, StackLeg
  <2> QED BY <1>2, <2>1, <2>2
<1>5. CASE DeliverUnique(s)
  <2>1. /\ Fresh(s, {"UNIQUE"}) /\ MayMint(w, o, "ITEM_BAG")
        /\ Writes(s, Minted(w, o, leg, tx[s].began))
    BY <1>5 DEF DeliverUnique, w, o, leg
  <2>2. /\ leg.key \in STRING /\ leg.size \in Nat /\ leg.bag = "ITEM_BAG"
        /\ o \in Ops /\ Sound(w) /\ tx[s].began \in Nat
    BY <1>1, <2>1, LegFacts DEF InstanceKinds
  <2>3. Extends(w, Minted(w, o, leg, tx[s].began), o)
    BY <2>1, <2>2, MintLeg DEF Bags
  <2> QED BY <1>2, <2>1, <2>3
<1>6. CASE DeliverFish(s)
  <2>1. /\ Fresh(s, {"FISH"}) /\ MayMint(w, o, "CATCH_BAG")
        /\ Writes(s, Minted(w, o, leg, tx[s].began))
    BY <1>6 DEF DeliverFish, w, o, leg
  <2>2. /\ leg.key \in STRING /\ leg.size \in Nat /\ leg.bag = "CATCH_BAG"
        /\ o \in Ops /\ Sound(w) /\ tx[s].began \in Nat
    BY <1>1, <2>1, LegFacts DEF InstanceKinds
  <2>3. Extends(w, Minted(w, o, leg, tx[s].began), o)
    BY <2>1, <2>2, MintLeg DEF Bags
  <2> QED BY <1>2, <2>1, <2>3
<1>7. CASE ClaimItems(s) \/ ClaimCatches(s)
  <2>1. /\ Fresh(s, {"CLAIM"}) /\ leg.bag \in Bags /\ Writes(s, Claimed(w, o, leg))
    BY <1>7 DEF ClaimItems, ClaimCatches, Bags, w, o, leg
  <2>2. Extends(w, Claimed(w, o, leg), o)
    BY <1>1, <2>1, ClaimLeg
  <2> QED BY <1>2, <2>1, <2>2
<1>8. CASE Reserve(s)
  <2>1. Fresh(s, {"RESERVE"}) /\ Writes(s, Reserved(w, o, leg))
    BY <1>8 DEF Reserve, w, o, leg
  <2>2. Extends(w, Reserved(w, o, leg), o)
    BY <1>1, <2>1, StackLeg
  <2> QED BY <1>2, <2>1, <2>2
<1>9. CASE Attach(s)
  <2>1. Fresh(s, {"ATTACH"}) /\ Writes(s, Attached(w, o, leg))
    BY <1>9 DEF Attach, w, o, leg
  <2>2. Extends(w, Attached(w, o, leg), o)
    BY <1>1, <2>1, StackLeg
  <2> QED BY <1>2, <2>1, <2>2
<1> QED BY <1>3, <1>4, <1>5, <1>6, <1>7, <1>8, <1>9

\* A commit makes the session's rows everyone's and frees them.
LEMMA CommitStep ==
    ASSUME IInv, NEW s \in Sessions, HasOperation(s), db' = Sees(s), Leave(s),
           operation' = operation
             \/ operation' = [operation EXCEPT ![tx[s].op] = "COMMITTED"]
    PROVE  IInv'
<1>1. /\ tx' = [t \in Sessions |-> tx'[t]]
      /\ tx'[s] = Idle
      /\ \A t \in Sessions \ {s} : tx'[t] = tx[t]
      /\ begun' = begun
  BY DEF Leave, IInv, Typed
<1>2. TxRow(Idle)
  BY EmptySound DEF TxRow, Idle
<1>3. Sound(Sees(s)) /\ TxRow(tx[s]) /\ tx[s].op \in Ops
  BY DEF IInv, Typed, Sees, TxRow, HasOperation
<1>4. Typed'
  BY <1>1, <1>2, <1>3 DEF IInv, Typed
<1>5. Exclusive'
  BY <1>1 DEF IInv, Exclusive, HasPlayer, HasOperation, Idle
<1>6. Copied'
  <2> SUFFICES ASSUME NEW t \in Sessions \ {s}, HasPlayer(t)
               PROVE  /\ tx[t].work.status = db'.status
                      /\ OthersLog(tx[t].work, tx[t].op) = OthersLog(db', tx[t].op)
                      /\ operation'[tx[t].op] = "COMMITTED" => tx[t].work = db'
                      /\ db'.status = "FROZEN" => tx[t].work = db'
    BY <1>1 DEF Copied, OthersLog, HasPlayer, Idle
  <2>1. ~ HasPlayer(s)
    BY DEF IInv, Exclusive
  <2>2. db' = db
    BY <2>1 DEF Sees
  <2>3. tx[t].op # tx[s].op
    BY DEF IInv, Exclusive, HasPlayer, HasOperation
  <2>4. operation'[tx[t].op] = operation[tx[t].op]
    BY <1>3, <2>3 DEF IInv, Typed, TxRow, HasPlayer
  <2> QED BY <2>2, <2>4 DEF IInv, Copied
<1> QED BY <1>4, <1>5, <1>6 DEF IInv

\* With the player row free, the rows may change as long as they stay sound.
LEMMA OutsideStep ==
    ASSUME IInv, PlayerFree, Sound(db'), UNCHANGED <<operation, tx, begun>>
    PROVE  IInv'
<1>1. \A s \in Sessions : ~ HasPlayer(s)
  BY DEF PlayerFree
<1> QED BY <1>1 DEF IInv, Typed, Exclusive, Copied, HasPlayer, HasOperation

\* An operator changes the account's status and no row of its bags.
LEMMA StatusStep ==
    ASSUME IInv, NEW status, SetStatus(status) PROVE IInv'
<1>1. Sound(db) /\ db' = [db EXCEPT !.status = status]
  BY DEF IInv, Typed, SetStatus
<1>2. /\ db' = [status |-> db'.status, stack |-> db'.stack, items |-> db'.items,
                pending |-> db'.pending, owed |-> db'.owed, log |-> db'.log]
      /\ db'.items = db.items /\ db'.pending = db.pending
  BY <1>1 DEF Sound, Shape
<1>3. Sound(db')
  BY <1>1, <1>2 DEF Sound, Shape, Linked, Open
<1> QED BY <1>3, OutsideStep DEF SetStatus

\* What leaves a bag is not what a pending row waits for.
LEMMA TakeOutStep ==
    ASSUME IInv, NEW i \in DOMAIN db.items, TakeOut(i) PROVE IInv'
<1>1. Sound(db) /\ db.items[i].at \in Bags
      /\ db' = [db EXCEPT !.items[i].at = "ELSEWHERE"]
  BY DEF IInv, Typed, TakeOut
<1>2. db.items \in Seq(ItemRow) /\ db.pending \in Seq(PendingRow)
  BY <1>1 DEF Sound, Shape
<1>3. /\ db' = [status |-> db'.status, stack |-> db'.stack, items |-> db'.items,
                pending |-> db'.pending, owed |-> db'.owed, log |-> db'.log]
      /\ db'.items = [db.items EXCEPT ![i].at = "ELSEWHERE"] /\ db'.pending = db.pending
  BY <1>1 DEF Sound, Shape
<1>4. /\ db'.items \in Seq(ItemRow) /\ DOMAIN db'.items = DOMAIN db.items
      /\ db'.items[i].at = "ELSEWHERE"
      /\ \A k \in DOMAIN db.items \ {i} : db'.items[k] = db.items[k]
  <2>1. db'.items = [db.items EXCEPT ![i] = [db.items[i] EXCEPT !.at = "ELSEWHERE"]]
    BY <1>3
  <2>2. db.items[i] \in ItemRow
    BY <1>2
  <2>3. [db.items[i] EXCEPT !.at = "ELSEWHERE"] \in ItemRow
    BY <2>2 DEF ItemRow, Places
  <2>4. [db.items[i] EXCEPT !.at = "ELSEWHERE"].at = "ELSEWHERE"
    BY <2>2 DEF ItemRow
  <2> QED BY <1>2, <2>1, <2>3, <2>4
<1>5. Linked(db')
  BY <1>1, <1>3, <1>4 DEF Linked, Sound, Open, Bags
<1>6. Sound(db')
  BY <1>2, <1>3, <1>4, <1>5 DEF Sound, Shape
<1> QED BY <1>6, OutsideStep DEF TakeOut

\* The invariant is inductive.
LEMMA NextIInv == IInv /\ [Next]_vars => IInv'
<1> SUFFICES ASSUME IInv, [Next]_vars PROVE IInv'
  OBVIOUS
<1>1. CASE UNCHANGED vars
  BY <1>1 DEF vars, IInv, Typed, Exclusive, Copied, HasPlayer, HasOperation, OthersLog
<1>2. ASSUME NEW s \in Sessions, Step(s) PROVE IInv'
  <2>1. CASE Refuse(s) \/ Answer(s)
    BY <2>1, LeaveStep DEF Refuse, Answer
  <2>2. CASE Finish(s)
    BY <2>2, CommitStep DEF Finish
  <2> QED BY <1>2, <2>1, <2>2, LockOperationStep, LockPlayerStep, LegStep, ReplayStep
          DEF Step
<1>3. ASSUME NEW s \in Sessions, Begin(s) \/ Save(s) \/ RollBack(s) PROVE IInv'
  <2>1. CASE Save(s)
    BY <2>1, CommitStep DEF Save, Sees, HasOperation, HasPlayer
  <2>2. CASE RollBack(s)
    BY <2>2, LeaveStep DEF RollBack
  <2> QED BY <1>3, <2>1, <2>2, BeginStep
<1> QED BY <1>1, <1>2, <1>3, StatusStep, TakeOutStep DEF Next

---------------------------------------------------------------------------
(* The results.                                                            *)

\* Sound rows, exclusive locks and faithful copies in every reachable state.
THEOREM Invariance == Spec => []IInv
BY InitIInv, NextIInv, PTL DEF Spec

\* An item is in TEMP_OVERFLOW exactly while one pending row waits for it,
\* whatever deliveries, claims and sales interleave.
THEOREM ItemsAreLinked == Spec => []OverflowLinked
<1>1. IInv => OverflowLinked
  <2> SUFFICES ASSUME IInv, NEW i \in DOMAIN db.items
               PROVE  Cardinality({j \in DOMAIN db.pending :
                         db.pending[j].item = i /\ db.pending[j].state = "PENDING"})
                        = IF db.items[i].at = "TEMP_OVERFLOW" THEN 1 ELSE 0
    BY DEF OverflowLinked
  <2> DEFINE rows == {j \in DOMAIN db.pending :
                        db.pending[j].item = i /\ db.pending[j].state = "PENDING"}
  <2>1. Linked(db)
    BY DEF IInv, Typed, Sound
  <2>2. CASE db.items[i].at = "TEMP_OVERFLOW"
    <3>1. PICK j \in Open(db) : db.pending[j].item = i
      BY <2>1, <2>2 DEF Linked
    <3>2. rows = {j}
      BY <2>1, <3>1 DEF Linked, Open
    <3> QED BY <2>2, <3>2, FS_Singleton
  <2>3. CASE db.items[i].at # "TEMP_OVERFLOW"
    <3>1. rows = {}
      BY <2>1, <2>3 DEF Linked, Open
    <3> QED BY <2>3, <3>1, FS_EmptySet
  <2> QED BY <2>2, <2>3
<1> QED BY <1>1, Invariance, PTL

\* What waits for a bag belongs to one operation.
THEOREM OverflowHasOneOwner == Spec => []OneOverflowOwner
<1>1. IInv => OneOverflowOwner
  BY DEF IInv, Typed, Sound, Linked, Open, OneOverflowOwner, Waiting
<1> QED BY <1>1, Invariance, PTL

\* What a step can do to the committed rows: a commit by the session that has
\* the player, or one of the changes from outside.
LEMMA DbSteps ==
    ASSUME IInv, [Next]_vars
    PROVE  \/ db' = db
           \/ \E s \in Sessions : HasPlayer(s) /\ db' = tx[s].work
           \/ \E i \in DOMAIN db.items : TakeOut(i)
           \/ \E status \in {"ACTIVE", "FROZEN"} : SetStatus(status)
<1>1. CASE UNCHANGED vars
  BY <1>1 DEF vars
<1>2. ASSUME NEW s \in Sessions, Step(s)
      PROVE  db' = db \/ (HasPlayer(s) /\ db' = tx[s].work)
  <2>1. CASE Finish(s)
    BY <2>1 DEF Finish, Sees
  <2>2. CASE ~ Finish(s)
    BY <1>2, <2>2 DEF Step, LockOperation, LockPlayer, DeliverStack, ConsumeStack,
       DeliverUnique, DeliverFish, ClaimItems, ClaimCatches, Reserve, Attach, Replay,
       Refuse, Answer, Writes
  <2> QED BY <2>1, <2>2
<1>3. ASSUME NEW s \in Sessions, Begin(s) \/ Save(s) \/ RollBack(s)
      PROVE  db' = db \/ (HasPlayer(s) /\ db' = tx[s].work)
  BY <1>3 DEF Begin, Save, RollBack
<1> QED BY <1>1, <1>2, <1>3 DEF Next

\* No transaction adds a leg to an operation that has committed: one that gets
\* the operation row after the commit sees the end.
THEOREM CommittedStays == Spec => CommittedStands
<1>1. IInv /\ [Next]_vars =>
        \A o \in Ops : operation[o] = "COMMITTED" =>
           {e \in db'.log : e.op = o} = {e \in db.log : e.op = o}
  <2> SUFFICES ASSUME IInv, [Next]_vars, NEW o \in Ops, operation[o] = "COMMITTED"
               PROVE  {e \in db'.log : e.op = o} = {e \in db.log : e.op = o}
    OBVIOUS
  <2>1. ASSUME NEW s \in Sessions, HasPlayer(s), db' = tx[s].work
        PROVE  {e \in db'.log : e.op = o} = {e \in db.log : e.op = o}
    <3>1. CASE tx[s].op = o
      BY <2>1, <3>1 DEF IInv, Copied
    <3>2. CASE tx[s].op # o
      <4>1. {e \in OthersLog(tx[s].work, tx[s].op) : e.op = o}
              = {e \in OthersLog(db, tx[s].op) : e.op = o}
        BY <2>1 DEF IInv, Copied
      <4> QED BY <2>1, <3>2, <4>1 DEF OthersLog
    <3> QED BY <3>1, <3>2
  <2>2. ASSUME NEW i \in DOMAIN db.items, TakeOut(i) PROVE db'.log = db.log
    BY <2>2 DEF TakeOut, IInv, Typed, Sound, Shape
  <2>3. ASSUME NEW status, SetStatus(status) PROVE db'.log = db.log
    BY <2>3 DEF SetStatus, IInv, Typed, Sound, Shape
  <2> QED BY <2>1, <2>2, <2>3, DbSteps
<1> QED BY <1>1, Invariance, PTL DEF Spec, CommittedStands

\* A frozen account's bags stand still: a copy taken while it was active is
\* committed before the status can change.
THEOREM FrozenStays == Spec => FrozenKept
<1>1. IInv /\ [Next]_vars =>
        (db.status = "FROZEN" =>
           <<db'.stack, db'.items, db'.pending, db'.owed>>
              = <<db.stack, db.items, db.pending, db.owed>>)
  <2> SUFFICES ASSUME IInv, [Next]_vars, db.status = "FROZEN"
               PROVE  /\ db'.stack = db.stack /\ db'.items = db.items
                      /\ db'.pending = db.pending /\ db'.owed = db.owed
    OBVIOUS
  <2>1. ASSUME NEW s \in Sessions, HasPlayer(s), db' = tx[s].work PROVE db' = db
    BY <2>1 DEF IInv, Copied
  <2>2. ASSUME NEW i \in DOMAIN db.items, TakeOut(i) PROVE FALSE
    BY <2>2 DEF TakeOut, IsActive
  <2>3. ASSUME NEW status, SetStatus(status)
        PROVE  /\ db'.stack = db.stack /\ db'.items = db.items
               /\ db'.pending = db.pending /\ db'.owed = db.owed
    BY <2>3 DEF SetStatus, IInv, Typed, Sound, Shape
  <2> QED BY <2>1, <2>2, <2>3, DbSteps
<1> QED BY <1>1, Invariance, PTL DEF Spec, FrozenKept

---------------------------------------------------------------------------
(* What a leg takes from the stacks and puts into them.                    *)

LogRow == [op : Ops, leg : Legs, overflow : BOOLEAN]
TakenOf(d) == [e \in LogRow |-> Taken(e, d)]
PutOf(d) == [e \in LogRow |-> Put(e, d)]

\* What a leg says of stacks.
LEMMA LegStacks ==
    ASSUME NEW leg \in Legs
    PROVE  /\ leg.kind \in StackKinds \cup {"CONSUME"} =>
                 leg.def \in Defs /\ leg.quantity \in Nat /\ leg.quantity > 0
           /\ leg.kind = "RESERVE" => \A d \in Defs : Required(leg.stacks, d) \in Nat
<1>1. PICK o \in Ops : \E plan \in Plans[o] : leg \in Range(plan)
  BY Zenon DEF Legs
<1>2. PICK plan \in Plans[o] : leg \in Range(plan)
  BY <1>1
<1>3. \A l \in Range(plan) :
          /\ l.kind \in StackKinds \cup {"CONSUME"} =>
                 l.def \in Defs /\ l.quantity \in Nat \ {0}
          /\ l.kind = "RESERVE" =>
                 /\ IsFiniteSet(l.stacks)
                 /\ \A r \in l.stacks : r.quantity \in Nat \ {0}
  BY PlansAssumption, Zenon
<1>4. /\ leg.kind \in StackKinds \cup {"CONSUME"} =>
             leg.def \in Defs /\ leg.quantity \in Nat \ {0}
      /\ leg.kind = "RESERVE" =>
             IsFiniteSet(leg.stacks) /\ \A r \in leg.stacks : r.quantity \in Nat \ {0}
  BY <1>2, <1>3
<1>5. ASSUME leg.kind = "RESERVE", NEW d \in Defs PROVE Required(leg.stacks, d) \in Nat
  <2> DEFINE S == {s \in leg.stacks : s.def = d}
             f == [r \in S |-> r.quantity]
  <2>1. S \in SUBSET leg.stacks
    OBVIOUS
  <2>2. IsFiniteSet(S)
    BY <1>4, <1>5, <2>1, FS_Subset
  <2>3. \A r \in S : f[r] \in Nat
    BY <1>4, <1>5
  <2>4. Required(leg.stacks, d) = SumFunctionOnSet(f, S)
    BY DEF Required, SumFunction
  <2> HIDE DEF f, S
  <2> QED
    BY <2>2, <2>3, <2>4, SumNat
<1> QED
  BY <1>4, <1>5

\* A log entry takes and puts whole amounts.
LEMMA EntryAmounts ==
    ASSUME NEW e \in LogRow, NEW d \in Defs
    PROVE  /\ Taken(e, d) \in Nat /\ TakenOf(d)[e] = Taken(e, d)
           /\ Put(e, d) \in Nat /\ PutOf(d)[e] = Put(e, d)
<1>1. e.leg \in Legs
  BY DEF LogRow
<1>2. Put(e, d) \in Nat
  BY <1>1, LegStacks DEF Put
<1>3. Taken(e, d) \in Nat
  <2>1. CASE e.leg.kind = "CONSUME"
    BY <1>1, <2>1, LegStacks DEF Taken
  <2>2. CASE e.leg.kind = "RESERVE"
    BY <1>1, <2>2, LegStacks DEF Taken
  <2>3. CASE e.leg.kind # "CONSUME" /\ e.leg.kind # "RESERVE"
    BY <2>3 DEF Taken
  <2> QED
    BY <2>1, <2>2, <2>3
<1> QED
  BY <1>2, <1>3 DEF TakenOf, PutOf

\* The stacks are what the log put into them less what it took.
Balanced(w) ==
    /\ w.stack \in [Defs -> Nat]
    /\ w.log \subseteq LogRow /\ IsFiniteSet(w.log)
    /\ \A d \in Defs : w.stack[d] + SumFunctionOnSet(TakenOf(d), w.log)
                          = Initial[d] + SumFunctionOnSet(PutOf(d), w.log)

\* A leg that changes the stacks as its log entry says keeps them balanced.
LEMMA EntryBalances ==
    ASSUME NEW w, Balanced(w), NEW e \in LogRow, e \notin w.log,
           NEW new, new.log = w.log \cup {e}, new.stack \in [Defs -> Nat],
           \A d \in Defs : new.stack[d] = w.stack[d] + Put(e, d) - Taken(e, d)
    PROVE  Balanced(new)
<1>1. new.log \subseteq LogRow /\ IsFiniteSet(new.log)
  BY FS_AddElement DEF Balanced
<1>2. ASSUME NEW d \in Defs
      PROVE  new.stack[d] + SumFunctionOnSet(TakenOf(d), new.log)
               = Initial[d] + SumFunctionOnSet(PutOf(d), new.log)
  <2> DEFINE took == SumFunctionOnSet(TakenOf(d), w.log)
             put == SumFunctionOnSet(PutOf(d), w.log)
  <2>1. /\ w.log \subseteq LogRow /\ IsFiniteSet(w.log)
        /\ w.stack[d] + took = Initial[d] + put /\ w.stack[d] \in Nat
    BY DEF Balanced
  <2>2. \A f \in LogRow : /\ TakenOf(d)[f] \in Int /\ TakenOf(d)[f] = Taken(f, d)
                          /\ PutOf(d)[f] \in Int /\ PutOf(d)[f] = Put(f, d)
    BY EntryAmounts
  <2>3. /\ SumFunctionOnSet(TakenOf(d), w.log \cup {e}) = took + TakenOf(d)[e]
        /\ SumFunctionOnSet(PutOf(d), w.log \cup {e}) = put + PutOf(d)[e]
        /\ took \in Int /\ put \in Int
    BY <2>1, <2>2, SumAdd, SumInt
  <2>4. /\ SumFunctionOnSet(TakenOf(d), new.log) = took + Taken(e, d)
        /\ SumFunctionOnSet(PutOf(d), new.log) = put + Put(e, d)
    BY <2>2, <2>3, Zenon
  <2>5. Taken(e, d) \in Int /\ Put(e, d) \in Int /\ Initial[d] \in Int
    BY EntryAmounts, InitialAssumption
  <2>6. new.stack[d] = w.stack[d] + Put(e, d) - Taken(e, d)
    OBVIOUS
  <2> HIDE DEF took, put
  <2> QED
    BY <2>1, <2>3, <2>4, <2>5, <2>6
<1> QED
  BY <1>1, <1>2 DEF Balanced

\* A leg of operation o whose rows were not found is not in the log.
Unfound(w, o, leg) == \A e \in w.log : ~ (e.op = o /\ e.leg.key = leg.key)

\* Stack deliveries, consumptions, reservations and the other legs keep the
\* stacks balanced.
LEMMA DeliveryBalances ==
    ASSUME NEW w, Sound(w), Balanced(w), NEW o \in Ops, NEW leg \in Legs,
           Unfound(w, o, leg), leg.kind \in StackKinds
    PROVE  Balanced(StackDelivered(w, o, leg))
<1> DEFINE new == StackDelivered(w, o, leg)
<1>1. /\ w.stack \in [Defs -> Nat] /\ leg.def \in Defs /\ leg.quantity \in Nat
  BY LegStacks DEF Balanced
<1>2. CASE StackFits(w, leg.def, leg.quantity)
  <2> DEFINE e == Entry(o, leg, FALSE)
  <2>1. new = [w EXCEPT !.stack[leg.def] = @ + leg.quantity, !.log = @ \cup {e}]
    BY <1>2 DEF StackDelivered
  <2>2. e \in LogRow /\ e \notin w.log /\ e.leg = leg /\ e.overflow = FALSE
    BY DEF Entry, LogRow, Unfound
  <2> HIDE DEF e, new
  <2>3. /\ new.log = w.log \cup {e}
        /\ new.stack = [w.stack EXCEPT ![leg.def] = @ + leg.quantity]
    BY <2>1 DEF Sound, Shape
  <2>4. new.stack \in [Defs -> Nat]
    BY <1>1, <2>3
  <2>5. ASSUME NEW d \in Defs
        PROVE  new.stack[d] = w.stack[d] + Put(e, d) - Taken(e, d)
    <3>1. Taken(e, d) = 0
      BY <2>2 DEF Taken, StackKinds
    <3>2. Put(e, d) = IF leg.def = d THEN leg.quantity ELSE 0
      BY <2>2 DEF Put
    <3> QED
      BY <1>1, <2>3, <3>1, <3>2
  <2>6. Balanced(new)
    BY <2>2, <2>3, <2>4, <2>5, EntryBalances
  <2> QED
    BY <2>6 DEF new
<1>3. CASE ~ StackFits(w, leg.def, leg.quantity)
  <2> DEFINE e == Entry(o, leg, TRUE)
  <2>1. new = [w EXCEPT !.owed = Append(@, [op |-> o, leg |-> leg]),
                        !.log = IF leg.kind = "COMMAND" THEN @ ELSE @ \cup {e}]
    BY <1>3 DEF StackDelivered
  <2>2. e \in LogRow /\ e \notin w.log /\ e.leg = leg /\ e.overflow = TRUE
    BY DEF Entry, LogRow, Unfound
  <2> HIDE DEF e, new
  <2>3. /\ new.log = IF leg.kind = "COMMAND" THEN w.log ELSE w.log \cup {e}
        /\ new.stack = w.stack
    BY <2>1 DEF Sound, Shape
  <2>4. CASE leg.kind = "COMMAND"
    BY <2>3, <2>4 DEF Balanced, new
  <2>5. CASE leg.kind # "COMMAND"
    <3>1. ASSUME NEW d \in Defs
          PROVE  new.stack[d] = w.stack[d] + Put(e, d) - Taken(e, d)
      <4>1. Taken(e, d) = 0 /\ Put(e, d) = 0
        BY <2>2 DEF Taken, Put, StackKinds
      <4> QED
        BY <1>1, <2>3, <4>1
    <3>2. new.log = w.log \cup {e}
      BY <2>3, <2>5
    <3>3. Balanced(new)
      BY <1>1, <2>2, <2>3, <3>1, <3>2, EntryBalances
    <3> QED
      BY <3>3 DEF new
  <2> QED
    BY <2>4, <2>5
<1> QED
  BY <1>2, <1>3

\* A consumption takes from the stack what its event says.
LEMMA ConsumptionBalances ==
    ASSUME NEW w, Sound(w), Balanced(w), NEW o \in Ops, NEW leg \in Legs,
           Unfound(w, o, leg), leg.kind = "CONSUME", Held(w, leg)
    PROVE  Balanced(Consumed(w, o, leg))
<1> DEFINE new == Consumed(w, o, leg)
           e == Entry(o, leg, FALSE)
<1>1. /\ w.stack \in [Defs -> Nat] /\ leg.def \in Defs /\ leg.quantity \in Nat
      /\ w.stack[leg.def] >= leg.quantity
  BY LegStacks DEF Balanced, Held
<1>2. new = [w EXCEPT !.stack[leg.def] = @ - leg.quantity, !.log = @ \cup {e}]
  BY DEF Consumed
<1>3. e \in LogRow /\ e \notin w.log /\ e.leg = leg
  BY DEF Entry, LogRow, Unfound
<1> HIDE DEF e, new
<1>4. /\ new.log = w.log \cup {e}
      /\ new.stack = [w.stack EXCEPT ![leg.def] = @ - leg.quantity]
  BY <1>2 DEF Sound, Shape
<1>5. new.stack \in [Defs -> Nat]
  BY <1>1, <1>4
<1>6. ASSUME NEW d \in Defs
      PROVE  new.stack[d] = w.stack[d] + Put(e, d) - Taken(e, d)
  <2>1. Put(e, d) = 0
    BY <1>3 DEF Put, StackKinds
  <2>2. Taken(e, d) = IF leg.def = d THEN leg.quantity ELSE 0
    BY <1>3 DEF Taken
  <2> QED
    BY <1>1, <1>4, <2>1, <2>2
<1>7. Balanced(new)
  BY <1>3, <1>4, <1>5, <1>6, EntryBalances
<1> QED
  BY <1>7 DEF new

\* A reservation moves from the stack what its event says.
LEMMA ReservationBalances ==
    ASSUME NEW w, Sound(w), Balanced(w), NEW o \in Ops, NEW leg \in Legs,
           Unfound(w, o, leg), leg.kind = "RESERVE", CanReserve(w, leg)
    PROVE  Balanced(Reserved(w, o, leg))
<1> DEFINE new == Reserved(w, o, leg)
           e == Entry(o, leg, FALSE)
<1>1. /\ w.stack \in [Defs -> Nat]
      /\ \A d \in Defs : Required(leg.stacks, d) \in Nat /\ Required(leg.stacks, d) <= w.stack[d]
  BY LegStacks DEF Balanced, CanReserve
<1>2. new = [w EXCEPT !.stack = [d \in Defs |-> @[d] - Required(leg.stacks, d)],
                      !.log = @ \cup {e}]
  BY DEF Reserved
<1>3. e \in LogRow /\ e \notin w.log /\ e.leg = leg
  BY DEF Entry, LogRow, Unfound
<1> HIDE DEF e, new
<1>4. /\ new.log = w.log \cup {e}
      /\ new.stack = [d \in Defs |-> w.stack[d] - Required(leg.stacks, d)]
  BY <1>2 DEF Sound, Shape
<1>5. new.stack \in [Defs -> Nat]
  BY <1>1, <1>4
<1>6. ASSUME NEW d \in Defs
      PROVE  new.stack[d] = w.stack[d] + Put(e, d) - Taken(e, d)
  <2>1. Put(e, d) = 0
    BY <1>3 DEF Put, StackKinds
  <2>2. Taken(e, d) = Required(leg.stacks, d)
    BY <1>3 DEF Taken
  <2> QED
    BY <1>1, <1>4, <2>1, <2>2
<1>7. Balanced(new)
  BY <1>3, <1>4, <1>5, <1>6, EntryBalances
<1> QED
  BY <1>7 DEF new

\* A leg that leaves the stacks alone is of a kind that takes and puts nothing.
LEMMA OtherBalances ==
    ASSUME NEW w, Balanced(w), NEW e \in LogRow, e \notin w.log,
           e.leg.kind \notin StackKinds \cup {"CONSUME", "RESERVE"},
           NEW new, new.log = w.log \cup {e}, new.stack = w.stack
    PROVE  Balanced(new)
<1>1. w.stack \in [Defs -> Nat]
  BY DEF Balanced
<1>2. \A d \in Defs : new.stack[d] = w.stack[d] + Put(e, d) - Taken(e, d)
  <2> SUFFICES ASSUME NEW d \in Defs
               PROVE  new.stack[d] = w.stack[d] + Put(e, d) - Taken(e, d)
    OBVIOUS
  <2>1. Put(e, d) = 0 /\ Taken(e, d) = 0
    BY DEF Put, Taken
  <2> QED
    BY <1>1, <2>1
<1> QED
  BY <1>1, <1>2, EntryBalances

---------------------------------------------------------------------------
(* Room in the bags.                                                       *)

Slots(stack) == [d \in Defs |-> SlotsFor(stack[d], StackLimit[d])]
Sizes(w) == [i \in DOMAIN w.items |-> w.items[i].size]

\* A larger quantity takes no fewer slots.
LEMMA SlotFacts ==
    ASSUME NEW limit \in Nat \ {0}, NEW q \in Nat, NEW r \in Nat, q <= r
    PROVE  SlotsFor(q, limit) \in Nat /\ SlotsFor(q, limit) <= SlotsFor(r, limit)
<1> DEFINE a == q + limit - 1
           b == r + limit - 1
<1>1. a \in Nat /\ b \in Nat /\ a <= b
  OBVIOUS
<1>2. SlotsFor(q, limit) = a \div limit /\ SlotsFor(r, limit) = b \div limit
  BY DEF SlotsFor
<1> HIDE DEF a, b
<1> QED
  <2>1. a \div limit \in Nat /\ a \div limit <= b \div limit
    BY <1>1, Division, DivisionMonotone
  <2> QED BY <1>1, <1>2, <2>1

\* The slots of the stacks are a sum.
LEMMA SlotSums ==
    ASSUME NEW stack \in [Defs -> Nat]
    PROVE  /\ StackSlots(stack) = SumFunctionOnSet(Slots(stack), Defs)
           /\ StackSlots(stack) \in Nat
           /\ \A d \in Defs : /\ Slots(stack)[d] = SlotsFor(stack[d], StackLimit[d])
                              /\ Slots(stack)[d] \in Nat /\ Slots(stack)[d] \in Int
<1>1. \A d \in Defs : /\ Slots(stack)[d] = SlotsFor(stack[d], StackLimit[d])
                      /\ Slots(stack)[d] \in Nat /\ Slots(stack)[d] \in Int
  <2> SUFFICES ASSUME NEW d \in Defs
               PROVE  /\ Slots(stack)[d] = SlotsFor(stack[d], StackLimit[d])
                      /\ Slots(stack)[d] \in Nat /\ Slots(stack)[d] \in Int
    OBVIOUS
  <2>1. StackLimit[d] \in Nat \ {0} /\ stack[d] \in Nat /\ stack[d] <= stack[d]
    BY LimitAssumption
  <2>2. SlotsFor(stack[d], StackLimit[d]) \in Nat
    BY <2>1, SlotFacts
  <2> QED
    BY <2>2 DEF Slots
<1>2. StackSlots(stack) = SumFunctionOnSet(Slots(stack), Defs)
  BY DEF StackSlots, Slots, SumFunction
<1>3. SumFunctionOnSet(Slots(stack), Defs) \in Nat
  BY <1>1, FiniteDefs, SumNat
<1> QED
  BY <1>1, <1>2, <1>3

\* Smaller stacks take no more slots.
LEMMA FewerSlots ==
    ASSUME NEW old \in [Defs -> Nat], NEW new \in [Defs -> Nat],
           \A d \in Defs : new[d] <= old[d]
    PROVE  StackSlots(new) <= StackSlots(old)
<1>1. \A d \in Defs : /\ Slots(new)[d] \in Int /\ Slots(old)[d] \in Int
                      /\ Slots(new)[d] <= Slots(old)[d]
  <2> SUFFICES ASSUME NEW d \in Defs
               PROVE  /\ Slots(new)[d] \in Int /\ Slots(old)[d] \in Int
                      /\ Slots(new)[d] <= Slots(old)[d]
    OBVIOUS
  <2>1. StackLimit[d] \in Nat \ {0} /\ new[d] \in Nat /\ old[d] \in Nat /\ new[d] <= old[d]
    BY LimitAssumption
  <2>2. SlotsFor(new[d], StackLimit[d]) <= SlotsFor(old[d], StackLimit[d])
    BY <2>1, SlotFacts
  <2> QED
    BY <2>2, SlotSums
<1>2. SumFunctionOnSet(Slots(new), Defs) <= SumFunctionOnSet(Slots(old), Defs)
  BY <1>1, FiniteDefs, SumMonotone
<1> QED
  BY <1>2, SlotSums

\* A change of one stack changes the slots by those of that stack.
LEMMA OneStack ==
    ASSUME NEW old \in [Defs -> Nat], NEW d \in Defs, NEW q \in Nat
    PROVE  StackSlots([old EXCEPT ![d] = q]) =
             StackSlots(old) - SlotsFor(old[d], StackLimit[d]) + SlotsFor(q, StackLimit[d])
<1> DEFINE new == [old EXCEPT ![d] = q]
           rest == Defs \ {d}
<1>1. new \in [Defs -> Nat] /\ new[d] = q /\ \A x \in rest : new[x] = old[x]
  OBVIOUS
<1>2. rest \in SUBSET Defs /\ IsFiniteSet(rest)
  <2>1. rest \in SUBSET Defs
    OBVIOUS
  <2> QED
    BY <2>1, FiniteDefs, FS_Subset
<1> HIDE DEF new
<1>3. \A x \in Defs : Slots(old)[x] \in Int /\ Slots(new)[x] \in Int
  BY <1>1, SlotSums
<1>4. /\ SumFunctionOnSet(Slots(old), Defs) = Slots(old)[d] + SumFunctionOnSet(Slots(old), rest)
      /\ SumFunctionOnSet(Slots(new), Defs) = Slots(new)[d] + SumFunctionOnSet(Slots(new), rest)
  BY <1>3, FiniteDefs, SumRemove
<1>5. \A x \in rest : Slots(new)[x] = Slots(old)[x]
  BY <1>1, SlotSums
<1> HIDE DEF rest
<1>6. \A x \in rest : Slots(old)[x] \in Int /\ Slots(new)[x] = Slots(old)[x]
  BY <1>2, <1>3, <1>5
<1>7. SumFunctionOnSet(Slots(new), rest) = SumFunctionOnSet(Slots(old), rest)
      /\ SumFunctionOnSet(Slots(old), rest) \in Int
  BY <1>2, <1>6, SumSame, SumInt
<1>8. /\ Slots(old)[d] = SlotsFor(old[d], StackLimit[d])
      /\ Slots(new)[d] = SlotsFor(q, StackLimit[d])
  BY <1>1, SlotSums
<1>9. /\ StackSlots(old) = SumFunctionOnSet(Slots(old), Defs)
      /\ StackSlots(new) = SumFunctionOnSet(Slots(new), Defs)
  BY <1>1, SlotSums
<1>10. StackSlots(new) = StackSlots(old) - Slots(old)[d] + Slots(new)[d]
  BY <1>3, <1>4, <1>7, <1>9
<1> QED
  BY <1>8, <1>10 DEF new

\* What items take up is a sum.
LEMMA SizeSums ==
    ASSUME NEW w, w.items \in Seq(ItemRow), NEW S \in SUBSET DOMAIN w.items
    PROVE  /\ IsFiniteSet(S)
           /\ SizeOf(w, S) = SumFunctionOnSet(Sizes(w), S)
           /\ SizeOf(w, S) \in Nat
           /\ \A i \in DOMAIN w.items : /\ Sizes(w)[i] = w.items[i].size
                                        /\ Sizes(w)[i] \in Nat /\ Sizes(w)[i] \in Int
<1> DEFINE part == [i \in S |-> w.items[i].size]
<1>1. DOMAIN w.items = 1 .. Len(w.items) /\ Len(w.items) \in Nat
  OBVIOUS
<1>2. IsFiniteSet(DOMAIN w.items)
  BY <1>1, FS_Interval
<1>3. IsFiniteSet(S)
  BY <1>2, FS_Subset
<1>4. \A i \in DOMAIN w.items : /\ Sizes(w)[i] = w.items[i].size
                                /\ Sizes(w)[i] \in Nat /\ Sizes(w)[i] \in Int
  <2> SUFFICES ASSUME NEW i \in DOMAIN w.items
               PROVE  /\ Sizes(w)[i] = w.items[i].size /\ Sizes(w)[i] \in Nat
    OBVIOUS
  <2>1. w.items[i] \in ItemRow
    OBVIOUS
  <2> QED
    BY <2>1 DEF Sizes, ItemRow
<1>5. \A i \in S : Sizes(w)[i] \in Nat /\ Sizes(w)[i] \in Int /\ part[i] = Sizes(w)[i]
  BY <1>4
<1>6. SizeOf(w, S) = SumFunctionOnSet(part, S)
  BY DEF SizeOf, SumFunction
<1> HIDE DEF part
<1>7. SumFunctionOnSet(part, S) = SumFunctionOnSet(Sizes(w), S)
  BY <1>3, <1>5, SumSame
<1>8. SumFunctionOnSet(Sizes(w), S) \in Nat
  BY <1>3, <1>5, SumNat
<1> QED
  BY <1>3, <1>4, <1>6, <1>7, <1>8

\* Every item and every stack has its place in a bag.
Fits(w) == \A bag \in Bags : Used(w, bag) <= Capacity(bag)

\* What a bag holds besides its items.
Beside(w, bag) == IF bag = "ITEM_BAG" THEN StackSlots(w.stack) ELSE 0

\* The use of a bag, taken apart: the instances in it and the stack items it holds.
LEMMA UsedFacts ==
    ASSUME NEW w, w.items \in Seq(ItemRow), w.stack \in [Defs -> Nat], NEW bag \in Bags
    PROVE  /\ Used(w, bag) = SizeOf(w, In(w, bag)) + Beside(w, bag)
           /\ SizeOf(w, In(w, bag)) \in Nat /\ Beside(w, bag) \in Nat
           /\ In(w, bag) \in SUBSET DOMAIN w.items
           /\ Capacity(bag) \in Nat
<1>1. In(w, bag) \in SUBSET DOMAIN w.items
  BY DEF In
<1> QED
  BY <1>1, SizeSums, SlotSums, CapacityAssumption DEF Used, Beside, Capacity

\* Items that come into a bag add their size.
LEMMA SizeAdded ==
    ASSUME NEW w, w.items \in Seq(ItemRow), NEW new, new.items \in Seq(ItemRow),
           NEW S \in SUBSET DOMAIN w.items, NEW M \in SUBSET DOMAIN new.items,
           S \subseteq DOMAIN new.items, S \cap M = {},
           \A i \in S : new.items[i].size = w.items[i].size
    PROVE  SizeOf(new, S \cup M) = SizeOf(w, S) + SizeOf(new, M)
<1> DEFINE U == S \cup M
<1>1. /\ IsFiniteSet(S) /\ SizeOf(w, S) = SumFunctionOnSet(Sizes(w), S)
      /\ \A i \in S : Sizes(w)[i] = w.items[i].size /\ Sizes(w)[i] \in Int
  BY SizeSums
<1>2. /\ U \in SUBSET DOMAIN new.items /\ S \in SUBSET U /\ U \ S = M
  OBVIOUS
<1>3. /\ IsFiniteSet(U) /\ SizeOf(new, U) = SumFunctionOnSet(Sizes(new), U)
      /\ SizeOf(new, M) = SumFunctionOnSet(Sizes(new), M)
      /\ \A i \in U : Sizes(new)[i] = new.items[i].size /\ Sizes(new)[i] \in Int
  BY <1>2, SizeSums
<1>4. \A i \in S : Sizes(w)[i] \in Int /\ Sizes(new)[i] = Sizes(w)[i]
  BY <1>1, <1>2, <1>3
<1> HIDE DEF U
<1>5. SumFunctionOnSet(Sizes(new), U) =
        SumFunctionOnSet(Sizes(new), S) + SumFunctionOnSet(Sizes(new), U \ S)
  BY <1>2, <1>3, SumSplit
<1>6. SumFunctionOnSet(Sizes(new), S) = SumFunctionOnSet(Sizes(w), S)
  BY <1>1, <1>4, SumSame
<1>7. SumFunctionOnSet(Sizes(new), U) =
        SumFunctionOnSet(Sizes(w), S) + SumFunctionOnSet(Sizes(new), M)
  BY <1>2, <1>5, <1>6, Zenon
<1> QED
  BY <1>1, <1>3, <1>7 DEF U

\* Fewer of the same items take up no more.
LEMMA SizeLess ==
    ASSUME NEW w, w.items \in Seq(ItemRow), NEW new, new.items \in Seq(ItemRow),
           NEW S \in SUBSET DOMAIN w.items, NEW T \in SUBSET S,
           T \subseteq DOMAIN new.items,
           \A i \in T : new.items[i].size = w.items[i].size
    PROVE  SizeOf(new, T) <= SizeOf(w, S)
<1>1. T \in SUBSET DOMAIN w.items /\ T \in SUBSET DOMAIN new.items
  OBVIOUS
<1>2. /\ IsFiniteSet(S) /\ SizeOf(w, S) = SumFunctionOnSet(Sizes(w), S)
      /\ IsFiniteSet(T) /\ SizeOf(w, T) = SumFunctionOnSet(Sizes(w), T)
      /\ SizeOf(new, T) = SumFunctionOnSet(Sizes(new), T)
  BY <1>1, SizeSums
<1>3. \A i \in S : Sizes(w)[i] \in Nat
  BY SizeSums
<1>4. \A i \in T : Sizes(w)[i] \in Int /\ Sizes(new)[i] = Sizes(w)[i]
  BY <1>1, SizeSums
<1>5. SumFunctionOnSet(Sizes(new), T) = SumFunctionOnSet(Sizes(w), T)
  BY <1>2, <1>4, SumSame
<1>6. SumFunctionOnSet(Sizes(w), T) <= SumFunctionOnSet(Sizes(w), S)
  BY <1>2, <1>3, SumPart
<1> QED
  BY <1>2, <1>5, <1>6

\* A leg that touches no item keeps the bags within capacity if its stacks have
\* their place.
LEMMA StacksFit ==
    ASSUME NEW w, w.items \in Seq(ItemRow), w.stack \in [Defs -> Nat], Fits(w),
           NEW new, new.items = w.items, new.stack \in [Defs -> Nat],
           SizeOf(w, In(w, "ITEM_BAG")) + StackSlots(new.stack) <= ItemBagSlots
    PROVE  Fits(new)
<1> SUFFICES ASSUME NEW bag \in Bags PROVE Used(new, bag) <= Capacity(bag)
  BY DEF Fits
<1>1. In(new, bag) = In(w, bag) /\ SizeOf(new, In(new, bag)) = SizeOf(w, In(w, bag))
  BY DEF In, SizeOf
<1>2. Used(new, bag) = SizeOf(w, In(w, bag)) + Beside(new, bag)
  BY <1>1, UsedFacts
<1>3. CASE bag = "ITEM_BAG"
  BY <1>2, <1>3 DEF Beside, Capacity
<1>4. CASE bag # "ITEM_BAG"
  <2>1. Used(w, bag) = SizeOf(w, In(w, bag)) + Beside(w, bag) /\ Used(w, bag) <= Capacity(bag)
    BY UsedFacts DEF Fits
  <2> QED
    BY <1>2, <1>4, <2>1 DEF Beside
<1> QED
  BY <1>3, <1>4

\* In particular if no stack grows.
LEMMA LessFits ==
    ASSUME NEW w, w.items \in Seq(ItemRow), w.stack \in [Defs -> Nat], Fits(w),
           NEW new, new.items = w.items, new.stack \in [Defs -> Nat],
           \A d \in Defs : new.stack[d] <= w.stack[d]
    PROVE  Fits(new)
<1>1. /\ Used(w, "ITEM_BAG") = SizeOf(w, In(w, "ITEM_BAG")) + StackSlots(w.stack)
      /\ SizeOf(w, In(w, "ITEM_BAG")) \in Nat
      /\ Used(w, "ITEM_BAG") <= ItemBagSlots
  <2>1. "ITEM_BAG" \in Bags
    BY DEF Bags
  <2> QED
    BY <2>1, UsedFacts DEF Beside, Fits, Capacity
<1>2. StackSlots(new.stack) <= StackSlots(w.stack)
  BY FewerSlots
<1>3. StackSlots(new.stack) \in Nat /\ StackSlots(w.stack) \in Nat
  BY SlotSums
<1>4. SizeOf(w, In(w, "ITEM_BAG")) + StackSlots(new.stack) <= ItemBagSlots
  BY <1>1, <1>2, <1>3, CapacityAssumption
<1> QED
  BY <1>4, StacksFit

\* A stack goes in only if the slots it then needs are there.
LEMMA DeliveryFits ==
    ASSUME NEW w, Sound(w), Balanced(w), Fits(w), NEW o \in Ops, NEW leg \in Legs,
           leg.kind \in StackKinds
    PROVE  Fits(StackDelivered(w, o, leg))
<1> DEFINE new == StackDelivered(w, o, leg)
<1>1. /\ w.stack \in [Defs -> Nat] /\ w.items \in Seq(ItemRow)
      /\ leg.def \in Defs /\ leg.quantity \in Nat
  BY LegStacks DEF Balanced, Sound, Shape
<1>2. CASE StackFits(w, leg.def, leg.quantity)
  <2> DEFINE q == w.stack[leg.def] + leg.quantity
  <2>1. new = [w EXCEPT !.stack[leg.def] = @ + leg.quantity,
                        !.log = @ \cup {Entry(o, leg, FALSE)}]
    BY <1>2 DEF StackDelivered
  <2> HIDE DEF new
  <2>2. new.items = w.items /\ new.stack = [w.stack EXCEPT ![leg.def] = q]
    BY <2>1 DEF Sound, Shape
  <2>3. q \in Nat
    BY <1>1
  <2>4. Used(w, "ITEM_BAG") - SlotsFor(w.stack[leg.def], StackLimit[leg.def])
            + SlotsFor(q, StackLimit[leg.def]) <= ItemBagSlots
    BY <1>2 DEF StackFits
  <2> HIDE DEF q
  <2>5. StackSlots(new.stack) = StackSlots(w.stack)
            - SlotsFor(w.stack[leg.def], StackLimit[leg.def]) + SlotsFor(q, StackLimit[leg.def])
    <3>1. StackSlots([w.stack EXCEPT ![leg.def] = q]) = StackSlots(w.stack)
            - SlotsFor(w.stack[leg.def], StackLimit[leg.def]) + SlotsFor(q, StackLimit[leg.def])
      BY <1>1, <2>3, OneStack
    <3> QED
      BY <2>2, <3>1, Zenon
  <2>6. /\ SlotsFor(w.stack[leg.def], StackLimit[leg.def]) \in Int
        /\ SlotsFor(q, StackLimit[leg.def]) \in Int
    <3>1. StackLimit[leg.def] \in Nat \ {0} /\ w.stack[leg.def] \in Nat
      BY <1>1, LimitAssumption
    <3>2. w.stack[leg.def] <= w.stack[leg.def] /\ q <= q
      BY <2>3, <3>1
    <3>3. /\ SlotsFor(w.stack[leg.def], StackLimit[leg.def]) \in Nat
          /\ SlotsFor(q, StackLimit[leg.def]) \in Nat
      BY <2>3, <3>1, <3>2, SlotFacts
    <3> QED
      BY <3>3
  <2>7. /\ Used(w, "ITEM_BAG") = SizeOf(w, In(w, "ITEM_BAG")) + StackSlots(w.stack)
        /\ SizeOf(w, In(w, "ITEM_BAG")) \in Nat /\ StackSlots(w.stack) \in Nat
    <3>1. "ITEM_BAG" \in Bags
      BY DEF Bags
    <3> QED
      BY <1>1, <3>1, UsedFacts, SlotSums DEF Beside
  <2>8. SizeOf(w, In(w, "ITEM_BAG")) + StackSlots(new.stack) <= ItemBagSlots
    BY <2>4, <2>5, <2>6, <2>7, CapacityAssumption
  <2>9. new.stack \in [Defs -> Nat]
    BY <1>1, <2>2, <2>3
  <2>10. Fits(new)
    BY <1>1, <2>2, <2>8, <2>9, StacksFit
  <2> QED
    BY <2>10 DEF new
<1>3. CASE ~ StackFits(w, leg.def, leg.quantity)
  <2>1. new = [w EXCEPT !.owed = Append(@, [op |-> o, leg |-> leg]),
                        !.log = IF leg.kind = "COMMAND" THEN @
                                ELSE @ \cup {Entry(o, leg, TRUE)}]
    BY <1>3 DEF StackDelivered
  <2> HIDE DEF new
  <2>2. new.items = w.items /\ new.stack = w.stack
    BY <2>1 DEF Sound, Shape
  <2>3. \A d \in Defs : new.stack[d] <= w.stack[d]
    BY <1>1, <2>2
  <2>4. Fits(new)
    BY <1>1, <2>2, <2>3, LessFits
  <2> QED
    BY <2>4 DEF new
<1> QED
  BY <1>2, <1>3

\* A bag that items come into, if at all, fits if they do; the stacks stay.
LEMMA ItemsFit ==
    ASSUME NEW w, w.items \in Seq(ItemRow), w.stack \in [Defs -> Nat], Fits(w),
           NEW new, new.items \in Seq(ItemRow), new.stack = w.stack,
           DOMAIN w.items \subseteq DOMAIN new.items,
           \A i \in DOMAIN w.items : new.items[i].size = w.items[i].size,
           NEW bag \in Bags, NEW M \in SUBSET DOMAIN new.items, M \cap In(w, bag) = {},
           In(new, bag) = In(w, bag) \cup M,
           Used(w, bag) + SizeOf(new, M) <= Capacity(bag),
           \A other \in Bags : other # bag => In(new, other) = In(w, other)
    PROVE  Fits(new)
<1> SUFFICES ASSUME NEW b \in Bags PROVE Used(new, b) <= Capacity(b)
  BY DEF Fits
<1>1. /\ Used(w, b) = SizeOf(w, In(w, b)) + Beside(w, b)
      /\ Used(new, b) = SizeOf(new, In(new, b)) + Beside(new, b)
      /\ Beside(new, b) = Beside(w, b)
      /\ In(w, b) \in SUBSET DOMAIN w.items
      /\ SizeOf(w, In(w, b)) \in Nat /\ Beside(w, b) \in Nat /\ Capacity(b) \in Nat
  BY UsedFacts DEF Beside
<1>2. \A i \in In(w, b) : new.items[i].size = w.items[i].size
  BY <1>1
<1>3. CASE b = bag
  <2> DEFINE S == In(w, b)
  <2>1. /\ S \in SUBSET DOMAIN w.items /\ S \subseteq DOMAIN new.items /\ S \cap M = {}
        /\ \A i \in S : new.items[i].size = w.items[i].size
    BY <1>1, <1>2, <1>3
  <2>2. SizeOf(new, In(w, b) \cup M) = SizeOf(w, In(w, b)) + SizeOf(new, M)
    <3> HIDE DEF S
    <3>1. SizeOf(new, S \cup M) = SizeOf(w, S) + SizeOf(new, M)
      BY <2>1, SizeAdded
    <3> QED
      BY <3>1 DEF S
  <2>3. SizeOf(new, In(new, b)) = SizeOf(w, In(w, b)) + SizeOf(new, M)
    BY <1>3, <2>2, Zenon
  <2>4. SizeOf(new, M) \in Nat
    BY SizeSums
  <2>5. Used(w, b) + SizeOf(new, M) <= Capacity(b)
    BY <1>3
  <2> QED
    BY <1>1, <2>3, <2>4, <2>5
<1>4. CASE b # bag
  <2>1. In(new, b) = In(w, b)
    BY <1>4
  <2>2. In(w, b) \in SUBSET In(w, b) /\ In(w, b) \subseteq DOMAIN new.items
    BY <1>1
  <2>3. SizeOf(new, In(w, b)) <= SizeOf(w, In(w, b))
    BY <1>1, <1>2, <2>2, SizeLess
  <2>4. SizeOf(new, In(w, b)) \in Nat
    BY <2>2, SizeSums
  <2>5. SizeOf(new, In(new, b)) = SizeOf(new, In(w, b))
    BY <2>1, Zenon
  <2>6. Used(w, b) <= Capacity(b)
    BY DEF Fits
  <2> QED
    BY <1>1, <2>3, <2>4, <2>5, <2>6
<1> QED
  BY <1>3, <1>4

\* A minted item goes into its bag only if it fits there.
LEMMA MintFits ==
    ASSUME NEW w, Sound(w), Balanced(w), Fits(w), NEW o \in Ops, NEW leg, NEW began \in Nat,
           leg.size \in Nat, leg.bag \in Bags, leg.key \in STRING
    PROVE  Fits(Minted(w, o, leg, began))
<1> DEFINE fits == Used(w, leg.bag) + leg.size <= Capacity(leg.bag)
           item == [op |-> o, key |-> leg.key, size |-> leg.size,
                    at |-> IF fits THEN leg.bag ELSE "TEMP_OVERFLOW"]
           new == Minted(w, o, leg, began)
           n == Len(w.items) + 1
           M == IF fits THEN {n} ELSE {}
<1>1. w.items \in Seq(ItemRow) /\ w.stack \in [Defs -> Nat]
  BY DEF Sound, Shape, Balanced
<1>2. new.items = Append(w.items, item) /\ new.stack = w.stack
  BY DEF Minted, Sound, Shape
<1>3. /\ item \in ItemRow /\ item.size = leg.size
      /\ item.at = IF fits THEN leg.bag ELSE "TEMP_OVERFLOW"
  BY DEF ItemRow, Places, Bags
<1> HIDE DEF item, new
<1>4. /\ new.items \in Seq(ItemRow) /\ DOMAIN new.items = DOMAIN w.items \cup {n}
      /\ n \notin DOMAIN w.items
      /\ new.items[n] = item /\ \A i \in DOMAIN w.items : new.items[i] = w.items[i]
  BY <1>1, <1>2, <1>3
<1>5. M \in SUBSET DOMAIN new.items /\ M \cap In(w, leg.bag) = {}
  BY <1>4 DEF In
<1> HIDE DEF n
<1>6. \A b \in Bags : In(new, b) = IF fits /\ b = leg.bag THEN In(w, b) \cup {n} ELSE In(w, b)
  <2> SUFFICES ASSUME NEW b \in Bags, NEW i
               PROVE  i \in In(new, b) <=> \/ i \in In(w, b)
                                           \/ fits /\ b = leg.bag /\ i = n
    BY Zenon
  <2>1. CASE i \in DOMAIN w.items
    BY <1>4, <2>1 DEF In
  <2>2. CASE i = n
    <3>1. item.at = b <=> fits /\ b = leg.bag
      <4> HIDE DEF fits
      <4> QED
        BY <1>3 DEF Bags
    <3> HIDE DEF fits
    <3> QED
      BY <1>4, <2>2, <3>1 DEF In
  <2>3. CASE i \notin DOMAIN new.items
    <3> HIDE DEF fits
    <3> QED
      BY <1>4, <2>3 DEF In
  <2> QED
    BY <1>4, <2>1, <2>2, <2>3
<1>7. SizeOf(new, M) = IF fits THEN leg.size ELSE 0
  <2>1. SizeOf(new, M) = SumFunctionOnSet(Sizes(new), M)
    BY <1>4, <1>5, SizeSums
  <2>2. SumFunctionOnSet(Sizes(new), {}) = 0
    BY SumEmpty
  <2>3. SumFunctionOnSet(Sizes(new), {n}) = leg.size
    <3>1. Sizes(new)[n] = leg.size /\ Sizes(new)[n] \in Int
      BY <1>3, <1>4 DEF Sizes
    <3>2. SumFunctionOnSet(Sizes(new), {n}) = Sizes(new)[n]
      BY <3>1, SumSingle
    <3> QED
      BY <3>1, <3>2, Zenon
  <2>4. CASE fits
    <3>1. M = {n}
      BY <2>4
    <3> QED
      BY <2>1, <2>3, <2>4, <3>1, Zenon
  <2>5. CASE ~ fits
    <3>1. M = {}
      BY <2>5
    <3> QED
      BY <2>1, <2>2, <2>5, <3>1, Zenon
  <2> QED
    BY <2>4, <2>5
<1>8. Used(w, leg.bag) + SizeOf(new, M) <= Capacity(leg.bag)
  <2>1. CASE fits
    BY <1>7, <2>1
  <2>2. CASE ~ fits
    <3>1. SizeOf(new, M) = 0 /\ Used(w, leg.bag) <= Capacity(leg.bag)
      BY <1>7, <2>2 DEF Fits
    <3>2. Used(w, leg.bag) \in Int /\ Capacity(leg.bag) \in Int
      BY <1>1, UsedFacts
    <3> QED
      BY <3>1, <3>2
  <2> QED
    BY <2>1, <2>2
<1>9. In(new, leg.bag) = In(w, leg.bag) \cup M
  BY <1>6
<1>10. \A b \in Bags : b # leg.bag => In(new, b) = In(w, b)
  BY <1>6
<1>11. DOMAIN w.items \subseteq DOMAIN new.items
       /\ \A i \in DOMAIN w.items : new.items[i].size = w.items[i].size
  BY <1>4
<1> HIDE DEF M, fits
<1>12. Fits(new)
  BY <1>1, <1>2, <1>4, <1>5, <1>8, <1>9, <1>10, <1>11, ItemsFit
<1> QED
  BY <1>12 DEF new

\* The items of the rows a claim closes have room: those of the last of them and
\* of all rows before it do.
LEMMA ClaimableFits ==
    ASSUME NEW w, Sound(w), Balanced(w), Fits(w), NEW bag \in Bags
    PROVE  /\ Items(w, Claimable(w, bag)) \in SUBSET DOMAIN w.items
           /\ Used(w, bag) + SizeOf(w, Items(w, Claimable(w, bag))) <= Capacity(bag)
<1> DEFINE S == Waiting(w, bag)
           before == [i \in S |-> {j \in S : Before(w, j, i)}]
           T == Claimable(w, bag)
           UpTo(i) == {j \in Waiting(w, bag) : j = i \/ Before(w, j, i)}
<1>1. /\ w.items \in Seq(ItemRow) /\ w.stack \in [Defs -> Nat]
      /\ w.pending \in Seq(PendingRow)
      /\ \A j \in DOMAIN w.pending : w.pending[j].item \in DOMAIN w.items
  BY DEF Sound, Shape, Balanced, Linked
<1>2. /\ S \in SUBSET DOMAIN w.pending /\ T \in SUBSET S
      /\ DOMAIN w.pending = 1 .. Len(w.pending) /\ Len(w.pending) \in Nat
  BY <1>1 DEF Waiting, Claimable
<1>3. \A i \in S : i \in Nat /\ w.pending[i].created \in Nat
  <2> SUFFICES ASSUME NEW i \in S PROVE i \in Nat /\ w.pending[i].created \in Nat
    OBVIOUS
  <2>1. i \in DOMAIN w.pending
    BY <1>2
  <2>2. w.pending[i] \in PendingRow
    BY <1>1, <2>1
  <2> QED
    BY <1>2, <2>1, <2>2 DEF PendingRow
<1>4. IsFiniteSet(T)
  <2>1. IsFiniteSet(DOMAIN w.pending) /\ T \in SUBSET DOMAIN w.pending
    BY <1>2, FS_Interval
  <2> QED
    BY <2>1, FS_Subset
<1>5. /\ \A i \in S : Items(w, UpTo(i)) \in SUBSET DOMAIN w.items
      /\ Items(w, T) \in SUBSET DOMAIN w.items
  BY <1>1, <1>2 DEF Items
<1>6. \A i \in T : Used(w, bag) + SizeOf(w, Items(w, UpTo(i))) <= Capacity(bag)
  BY DEF Claimable
<1>7. Used(w, bag) \in Int /\ Capacity(bag) \in Int /\ Used(w, bag) <= Capacity(bag)
  BY <1>1, UsedFacts DEF Fits
<1>8. CASE T = {}
  <2>1. Items(w, T) = {}
    BY <1>8 DEF Items
  <2>2. SizeOf(w, Items(w, T)) = SumFunctionOnSet(Sizes(w), Items(w, T))
    BY <1>1, <1>5, SizeSums
  <2>3. SumFunctionOnSet(Sizes(w), {}) = 0
    BY SumEmpty
  <2>4. SizeOf(w, Items(w, T)) = 0
    BY <2>1, <2>2, <2>3, Zenon
  <2> QED
    BY <1>5, <1>7, <2>4
<1>9. CASE T # {}
  <2>1. TotalOrder(before, S)
    BY <1>3 DEF TotalOrder, Before
  <2>2. PICK i \in T : T \ {i} \subseteq before[i]
    <3> HIDE DEF before, T, S
    <3> QED
      BY <1>2, <1>4, <1>9, <2>1, LastMember
  <2>3. i \in S /\ T \subseteq UpTo(i)
    BY <1>2, <2>2
  <2>4. Items(w, T) \in SUBSET Items(w, UpTo(i))
    BY <2>3 DEF Items
  <2> DEFINE M == Items(w, T)
             U == Items(w, UpTo(i))
  <2>5. /\ M \in SUBSET U /\ U \in SUBSET DOMAIN w.items /\ M \in SUBSET DOMAIN w.items
        /\ Used(w, bag) + SizeOf(w, U) <= Capacity(bag)
    BY <1>5, <1>6, <2>3, <2>4
  <2> HIDE DEF M, U, T, S
  <2>6. \A x \in M : w.items[x].size = w.items[x].size
    OBVIOUS
  <2>7. SizeOf(w, M) <= SizeOf(w, U)
    BY <1>1, <2>5, <2>6, SizeLess
  <2>8. SizeOf(w, M) \in Nat /\ SizeOf(w, U) \in Nat
    BY <1>1, <2>5, SizeSums
  <2>9. Used(w, bag) + SizeOf(w, M) <= Capacity(bag)
    BY <1>7, <2>5, <2>7, <2>8
  <2> QED
    BY <2>5, <2>9 DEF M, T
<1> QED
  BY <1>8, <1>9

\* A claim of leg took rows w to new by moving the given items into the bag.
ClaimMoves(w, o, leg, new, moved) ==
    /\ new.stack = w.stack /\ new.owed = w.owed
    /\ new.log = w.log \cup {Entry(o, leg, FALSE)}
    /\ new.items \in Seq(ItemRow) /\ DOMAIN new.items = DOMAIN w.items
    /\ \A i \in DOMAIN w.items :
          /\ new.items[i].size = w.items[i].size
          /\ new.items[i].op = w.items[i].op /\ new.items[i].key = w.items[i].key
          /\ new.items[i].at = IF i \in moved THEN leg.bag ELSE w.items[i].at
    /\ DOMAIN new.pending = DOMAIN w.pending
    /\ \A j \in DOMAIN w.pending :
          /\ new.pending[j].op = w.pending[j].op
          /\ new.pending[j].key = w.pending[j].key
          /\ new.pending[j].item = w.pending[j].item
    /\ \A i \in moved : w.items[i].at = "TEMP_OVERFLOW"

ClaimOf(w, o, leg, new, moved) ==
    new = Claimed(w, o, leg) /\ moved = Items(w, Claimable(w, leg.bag))

\* A claim moves the rows it claims into the bag and leaves the others.
LEMMA ClaimRows ==
    ASSUME NEW w, Sound(w), NEW o \in Ops, NEW leg, leg.bag \in Bags,
           NEW new, NEW moved, ClaimOf(w, o, leg, new, moved)
    PROVE  ClaimMoves(w, o, leg, new, moved)
<1> DEFINE rows == Claimable(w, leg.bag)
<1>0. new = Claimed(w, o, leg) /\ moved = Items(w, rows)
  BY Zenon DEF ClaimOf
<1>1. w.items \in Seq(ItemRow) /\ w.pending \in Seq(PendingRow)
  BY DEF Sound, Shape
<1>2. /\ new.log = w.log \cup {Entry(o, leg, FALSE)}
      /\ new.stack = w.stack /\ new.owed = w.owed
      /\ new.items = [i \in DOMAIN w.items |-> IF i \in moved
                         THEN [w.items[i] EXCEPT !.at = leg.bag] ELSE w.items[i]]
      /\ new.pending = [i \in DOMAIN w.pending |-> IF i \in rows
                           THEN [w.pending[i] EXCEPT !.state = "CLAIMED"] ELSE w.pending[i]]
  <2>1. new = [w EXCEPT
                 !.items = [i \in DOMAIN @ |-> IF i \in moved
                              THEN [@[i] EXCEPT !.at = leg.bag] ELSE @[i]],
                 !.pending = [i \in DOMAIN @ |-> IF i \in rows
                                THEN [@[i] EXCEPT !.state = "CLAIMED"] ELSE @[i]],
                 !.log = @ \cup {Entry(o, leg, FALSE)}]
    BY <1>0, Zenon DEF Claimed
  <2> HIDE DEF rows
  <2> QED
    BY <2>1 DEF Sound, Shape
<1>3. \A i \in moved : w.items[i].at = "TEMP_OVERFLOW"
  <2> SUFFICES ASSUME NEW j \in rows PROVE w.items[w.pending[j].item].at = "TEMP_OVERFLOW"
    BY <1>0 DEF Items
  <2>1. j \in Open(w)
    BY DEF Claimable, Waiting, Open
  <2> QED
    BY <2>1 DEF Sound, Linked
<1>4. \A i \in DOMAIN w.items : w.items[i] \in ItemRow
  BY <1>1
<1>5. \A j \in DOMAIN w.pending : w.pending[j] \in PendingRow
  BY <1>1
<1> HIDE DEF rows
<1>6. \A i \in DOMAIN w.items : /\ new.items[i] \in ItemRow
                                /\ new.items[i].size = w.items[i].size
                                /\ new.items[i].op = w.items[i].op
                                /\ new.items[i].key = w.items[i].key
                                /\ new.items[i].at = IF i \in moved THEN leg.bag
                                                     ELSE w.items[i].at
  BY <1>2, <1>4 DEF ItemRow, Places
<1>7. /\ DOMAIN new.pending = DOMAIN w.pending
      /\ \A j \in DOMAIN w.pending : /\ new.pending[j].op = w.pending[j].op
                                     /\ new.pending[j].key = w.pending[j].key
                                     /\ new.pending[j].item = w.pending[j].item
  BY <1>2, <1>5 DEF PendingRow
<1>8. new.items \in Seq(ItemRow) /\ DOMAIN new.items = DOMAIN w.items
  <2>1. Len(w.items) \in Nat /\ DOMAIN w.items = 1 .. Len(w.items)
    BY <1>1
  <2>2. new.items \in [1 .. Len(w.items) -> ItemRow]
    BY <1>2, <1>6, <2>1
  <2> QED
    BY <1>2, <2>1, <2>2, SeqDef
<1> QED
  BY <1>2, <1>3, <1>6, <1>7, <1>8 DEF ClaimMoves

\* A claim keeps the bags within capacity.
LEMMA ClaimFits ==
    ASSUME NEW w, Sound(w), Balanced(w), Fits(w), NEW o \in Ops, NEW leg, leg.bag \in Bags
    PROVE  Fits(Claimed(w, o, leg))
<1> DEFINE M == Items(w, Claimable(w, leg.bag))
           new == Claimed(w, o, leg)
<1>1. /\ w.items \in Seq(ItemRow) /\ w.stack \in [Defs -> Nat]
  BY DEF Sound, Shape, Balanced
<1>2. /\ new.stack = w.stack
      /\ new.items \in Seq(ItemRow) /\ DOMAIN new.items = DOMAIN w.items
      /\ \A i \in DOMAIN w.items :
            /\ new.items[i].size = w.items[i].size
            /\ new.items[i].at = IF i \in M THEN leg.bag ELSE w.items[i].at
      /\ \A i \in M : w.items[i].at = "TEMP_OVERFLOW"
  <2>1. ClaimOf(w, o, leg, new, M)
    BY DEF ClaimOf
  <2> HIDE DEF new, M
  <2>2. ClaimMoves(w, o, leg, new, M)
    BY <2>1, ClaimRows
  <2> QED
    BY <2>2 DEF ClaimMoves
<1>3. /\ M \in SUBSET DOMAIN w.items
      /\ Used(w, leg.bag) + SizeOf(w, M) <= Capacity(leg.bag)
  BY ClaimableFits
<1> HIDE DEF M, new
<1>4. M \in SUBSET DOMAIN new.items /\ M \cap In(w, leg.bag) = {}
  BY <1>2, <1>3 DEF In, Bags
<1>5. In(new, leg.bag) = In(w, leg.bag) \cup M
  BY <1>2, <1>3 DEF In
<1>6. \A b \in Bags : b # leg.bag => In(new, b) = In(w, b)
  BY <1>2, <1>3 DEF In, Bags
<1>7. SizeOf(new, M) <= SizeOf(w, M)
  <2>1. /\ M \in SUBSET M /\ M \subseteq DOMAIN new.items
        /\ \A i \in M : new.items[i].size = w.items[i].size
    BY <1>2, <1>3
  <2> QED
    BY <1>1, <1>2, <1>3, <2>1, SizeLess
<1>8. Used(w, leg.bag) + SizeOf(new, M) <= Capacity(leg.bag)
  <2>1. /\ SizeOf(new, M) \in Nat /\ SizeOf(w, M) \in Nat
        /\ Used(w, leg.bag) \in Int /\ Capacity(leg.bag) \in Int
    BY <1>1, <1>2, <1>3, <1>4, SizeSums, UsedFacts
  <2> QED
    BY <1>3, <1>7, <2>1
<1>9. DOMAIN w.items \subseteq DOMAIN new.items
      /\ \A i \in DOMAIN w.items : new.items[i].size = w.items[i].size
  BY <1>2
<1>10. Fits(new)
  BY <1>1, <1>2, <1>4, <1>5, <1>6, <1>8, <1>9, ItemsFit
<1> QED
  BY <1>10 DEF new

---------------------------------------------------------------------------
(* The events and the items and rows they account for.                     *)

OwedRow == [op : Ops, leg : Legs]

\* Every item has its event and every event of an item its item, the only one.
ItemsOf(log, items) ==
    /\ \A e \in log : e.leg.kind \in InstanceKinds =>
          \E i \in DOMAIN items : items[i].op = e.op /\ items[i].key = e.leg.key
    /\ \A i, k \in DOMAIN items :
          items[i].op = items[k].op /\ items[i].key = items[k].key => i = k
    /\ \A i \in DOMAIN items : \E e \in log :
          e.op = items[i].op /\ e.leg.key = items[i].key

\* A pending row is its item's, and there is one where the event says so.
RowsOf(log, items, pending) ==
    /\ \A j \in DOMAIN pending : /\ pending[j].op = items[pending[j].item].op
                                 /\ pending[j].key = items[pending[j].item].key
    /\ \A e \in log : e.leg.kind \in InstanceKinds =>
          (e.overflow <=> \E j \in DOMAIN pending :
                             pending[j].op = e.op /\ pending[j].key = e.leg.key)

\* A stack is owed once, and a delivery's event says whether it is.
OwedOf(log, owed) ==
    /\ owed \in Seq(OwedRow)
    /\ \A j \in DOMAIN owed :
          /\ owed[j].leg.kind \in StackKinds
          /\ owed[j].leg.kind = "DELIVER" => Entry(owed[j].op, owed[j].leg, TRUE) \in log
    /\ \A e \in log : e.leg.kind = "DELIVER" =>
          (e.overflow <=> \E j \in DOMAIN owed : owed[j] = [op |-> e.op, leg |-> e.leg])
    /\ \A i, j \in DOMAIN owed : owed[i] = owed[j] => i = j

Booked(w) ==
    /\ ItemsOf(w.log, w.items)
    /\ RowsOf(w.log, w.items, w.pending)
    /\ OwedOf(w.log, w.owed)

\* The same items and rows, wherever the items are.
SameRows(w, new) ==
    /\ DOMAIN new.items = DOMAIN w.items
    /\ \A i \in DOMAIN w.items :
          new.items[i].op = w.items[i].op /\ new.items[i].key = w.items[i].key
    /\ DOMAIN new.pending = DOMAIN w.pending
    /\ \A j \in DOMAIN w.pending :
          /\ new.pending[j].op = w.pending[j].op /\ new.pending[j].key = w.pending[j].key
          /\ new.pending[j].item = w.pending[j].item
    /\ new.owed = w.owed

\* A leg that leaves the rows of instances alone leaves their events right.
LEMMA SameBooked ==
    ASSUME NEW w, Linked(w), Booked(w), NEW new, SameRows(w, new), new.log = w.log
    PROVE  Booked(new)
<1>1. ItemsOf(new.log, new.items)
  BY DEF Booked, ItemsOf, SameRows
<1>2. RowsOf(new.log, new.items, new.pending)
  BY DEF Booked, RowsOf, SameRows, Linked
<1>3. OwedOf(new.log, new.owed)
  BY Zenon DEF Booked, SameRows
<1> QED
  BY <1>1, <1>2, <1>3 DEF Booked

\* An event of a leg that creates nothing that waits.
LEMMA EntryBooked ==
    ASSUME NEW w, Linked(w), Booked(w), NEW new, SameRows(w, new),
           NEW e, Unfound(w, e.op, e.leg), new.log = w.log \cup {e},
           e.leg.kind \notin InstanceKinds,
           e.leg.kind = "DELIVER" => e.overflow = FALSE
    PROVE  Booked(new)
<1>1. ItemsOf(new.log, new.items)
  <2>1. \A f \in new.log : f.leg.kind \in InstanceKinds => f \in w.log
    OBVIOUS
  <2> QED
    BY <2>1 DEF Booked, ItemsOf, SameRows
<1>2. RowsOf(new.log, new.items, new.pending)
  <2>1. \A f \in new.log : f.leg.kind \in InstanceKinds => f \in w.log
    OBVIOUS
  <2> QED
    BY <2>1 DEF Booked, RowsOf, SameRows, Linked
<1>3. OwedOf(new.log, new.owed)
  <2>1. ASSUME e.leg.kind = "DELIVER", NEW j \in DOMAIN w.owed
        PROVE  w.owed[j] # [op |-> e.op, leg |-> e.leg]
    <3> SUFFICES ASSUME w.owed[j] = [op |-> e.op, leg |-> e.leg] PROVE FALSE
      OBVIOUS
    <3>1. w.owed[j].op = e.op /\ w.owed[j].leg = e.leg
      OBVIOUS
    <3>2. Entry(e.op, e.leg, TRUE) \in w.log
      BY <2>1, <3>1 DEF Booked, OwedOf
    <3> QED
      BY <3>2 DEF Unfound, Entry
  <2>2. new.owed = w.owed
    BY DEF SameRows
  <2>3. w.log \subseteq new.log /\ \A f \in new.log : f \in w.log \/ f = e
    OBVIOUS
  <2>4. OwedOf(new.log, w.owed)
    BY <2>1, <2>3 DEF Booked, OwedOf
  <2> QED
    BY <2>2, <2>4, Zenon
<1> QED
  BY <1>1, <1>2, <1>3 DEF Booked

\* A stack that does not fit is owed, and was not before.
LEMMA OwedBooked ==
    ASSUME NEW w, Linked(w), Booked(w), NEW o \in Ops, NEW leg \in Legs,
           Unfound(w, o, leg), leg.kind \in StackKinds,
           \A j \in DOMAIN w.owed : w.owed[j].leg.kind = "COMMAND" => w.owed[j].op # o,
           NEW new, new.items = w.items, new.pending = w.pending,
           new.owed = Append(w.owed, [op |-> o, leg |-> leg]),
           new.log = IF leg.kind = "COMMAND" THEN w.log ELSE w.log \cup {Entry(o, leg, TRUE)}
    PROVE  Booked(new)
<1> DEFINE e == Entry(o, leg, TRUE)
           row == [op |-> o, leg |-> leg]
           n == Len(w.owed) + 1
<1>1. e.op = o /\ e.leg = leg /\ e.overflow = TRUE /\ row \in OwedRow
      /\ row.op = o /\ row.leg = leg
  BY DEF Entry, OwedRow
<1>2. /\ new.owed = Append(w.owed, row)
      /\ new.log = IF leg.kind = "COMMAND" THEN w.log ELSE w.log \cup {e}
  OBVIOUS
<1> HIDE DEF e
<1>3. \A f \in new.log : f \in w.log \/ (leg.kind # "COMMAND" /\ f = e)
  BY <1>2
<1>4. leg.kind \notin InstanceKinds
  BY DEF StackKinds, InstanceKinds
<1>5. \A f \in new.log : f.leg.kind \in InstanceKinds => f \in w.log
  BY <1>1, <1>3, <1>4
<1>6. w.log \subseteq new.log
  BY <1>2
<1>7. ItemsOf(new.log, new.items)
  <2>1. new.items = w.items
    OBVIOUS
  <2>2. ItemsOf(new.log, w.items)
    <3>1. ItemsOf(w.log, w.items)
      BY DEF Booked
    <3> QED
      BY <1>1, <1>3, <1>5, <1>6, <3>1 DEF ItemsOf
  <2> QED
    BY <2>1, <2>2, Zenon
<1>8. RowsOf(new.log, new.items, new.pending)
  <2>1. new.items = w.items /\ new.pending = w.pending
    OBVIOUS
  <2>2. RowsOf(new.log, w.items, w.pending)
    <3>1. RowsOf(w.log, w.items, w.pending)
      BY DEF Booked
    <3> QED
      BY <1>5, <3>1 DEF RowsOf
  <2> QED
    BY <2>1, <2>2, Zenon
<1>9. OwedOf(new.log, new.owed)
  <2>1. w.owed \in Seq(OwedRow)
    BY DEF Booked, OwedOf
  <2> HIDE DEF row
  <2>2. /\ new.owed \in Seq(OwedRow) /\ DOMAIN new.owed = DOMAIN w.owed \cup {n}
        /\ n \notin DOMAIN w.owed /\ new.owed[n] = row
        /\ \A j \in DOMAIN w.owed : new.owed[j] = w.owed[j]
    BY <1>1, <1>2, <2>1
  <2> HIDE DEF n
  <2>3. \A j \in DOMAIN w.owed : w.owed[j] # row
    <3> SUFFICES ASSUME NEW j \in DOMAIN w.owed, w.owed[j] = row PROVE FALSE
      OBVIOUS
    <3>1. w.owed[j].op = o /\ w.owed[j].leg = leg
      BY <1>1
    <3>2. leg.kind = "DELIVER"
      BY <3>1 DEF StackKinds
    <3>3. Entry(o, leg, TRUE) \in w.log
      BY <3>1, <3>2 DEF Booked, OwedOf
    <3> QED
      BY <3>3 DEF Unfound, Entry
  <2>4. \A j \in DOMAIN new.owed :
          /\ new.owed[j].leg.kind \in StackKinds
          /\ new.owed[j].leg.kind = "DELIVER" =>
                Entry(new.owed[j].op, new.owed[j].leg, TRUE) \in new.log
    <3> SUFFICES ASSUME NEW j \in DOMAIN new.owed
                 PROVE  /\ new.owed[j].leg.kind \in StackKinds
                        /\ new.owed[j].leg.kind = "DELIVER" =>
                              Entry(new.owed[j].op, new.owed[j].leg, TRUE) \in new.log
      OBVIOUS
    <3>1. CASE j \in DOMAIN w.owed
      BY <1>6, <2>2, <3>1 DEF Booked, OwedOf
    <3>2. CASE j = n
      <4>1. new.owed[j].op = o /\ new.owed[j].leg = leg
        BY <1>1, <2>2, <3>2
      <4>2. leg.kind = "DELIVER" => Entry(o, leg, TRUE) \in new.log
        BY <1>2 DEF e
      <4> QED
        BY <4>1, <4>2
    <3> QED
      BY <2>2, <3>1, <3>2
  <2>5. ASSUME NEW f \in new.log, f.leg.kind = "DELIVER"
        PROVE  f.overflow <=> \E j \in DOMAIN new.owed :
                                 new.owed[j] = [op |-> f.op, leg |-> f.leg]
    <3> DEFINE its == [op |-> f.op, leg |-> f.leg]
    <3>1. CASE f \in w.log
      <4>1. its # row
        BY <3>1 DEF row, Unfound
      <4>2. f.overflow <=> \E j \in DOMAIN w.owed : w.owed[j] = its
        BY <2>5, <3>1 DEF Booked, OwedOf
      <4> HIDE DEF its
      <4>3. (\E j \in DOMAIN new.owed : new.owed[j] = its)
              <=> \E j \in DOMAIN w.owed : w.owed[j] = its
        BY <2>2, <4>1
      <4> QED
        BY <4>2, <4>3 DEF its
    <3>2. CASE f = e
      <4>1. its = row /\ f.overflow = TRUE
        BY <1>1, <3>2 DEF row
      <4> QED
        BY <2>2, <4>1
    <3> QED
      BY <1>3, <3>1, <3>2
  <2>6. \A i, j \in DOMAIN new.owed : new.owed[i] = new.owed[j] => i = j
    <3>1. \A i, j \in DOMAIN w.owed : w.owed[i] = w.owed[j] => i = j
      BY DEF Booked, OwedOf
    <3> QED
      BY <2>2, <2>3, <3>1
  <2> QED
    BY <2>2, <2>4, <2>5, <2>6 DEF OwedOf
<1> QED
  BY <1>7, <1>8, <1>9 DEF Booked

\* A minted item has its event, and a row if it has to wait.
LEMMA MintBooked ==
    ASSUME NEW w, Sound(w), Booked(w), NEW o \in Ops, NEW leg \in Legs,
           Unfound(w, o, leg), leg.kind \in InstanceKinds, NEW began \in Nat,
           leg.size \in Nat, leg.bag \in Bags, leg.key \in STRING
    PROVE  Booked(Minted(w, o, leg, began))
<1> DEFINE fits == Used(w, leg.bag) + leg.size <= Capacity(leg.bag)
           item == [op |-> o, key |-> leg.key, size |-> leg.size,
                    at |-> IF fits THEN leg.bag ELSE "TEMP_OVERFLOW"]
           row == [op |-> o, key |-> leg.key, item |-> Len(w.items) + 1, bag |-> leg.bag,
                   state |-> "PENDING", created |-> began]
           e == Entry(o, leg, ~ fits)
           new == Minted(w, o, leg, began)
           n == Len(w.items) + 1
           m == Len(w.pending) + 1
<1>1. /\ w.items \in Seq(ItemRow) /\ w.pending \in Seq(PendingRow)
      /\ \A j \in DOMAIN w.pending : w.pending[j].item \in DOMAIN w.items
  BY DEF Sound, Shape, Linked
<1>2. /\ new.items = Append(w.items, item) /\ new.owed = w.owed
      /\ new.pending = IF fits THEN w.pending ELSE Append(w.pending, row)
      /\ new.log = w.log \cup {e}
  <2>1. new = [w EXCEPT !.items = Append(@, item),
                        !.pending = IF fits THEN @ ELSE Append(@, row),
                        !.log = @ \cup {e}]
    BY Zenon DEF Minted
  <2> HIDE DEF new, fits, item, row, e
  <2> QED
    BY <2>1 DEF Sound, Shape
<1>3. /\ item \in ItemRow /\ item.op = o /\ item.key = leg.key
      /\ row \in PendingRow /\ row.op = o /\ row.key = leg.key /\ row.item = n
      /\ e.op = o /\ e.leg = leg /\ e.overflow = ~ fits
  BY <1>1 DEF ItemRow, PendingRow, Places, Bags, Entry
<1> HIDE DEF item, row, e, new, fits
<1>4. /\ DOMAIN new.items = DOMAIN w.items \cup {n} /\ n \notin DOMAIN w.items
      /\ new.items[n] = item /\ \A i \in DOMAIN w.items : new.items[i] = w.items[i]
  BY <1>1, <1>2, <1>3
<1>5. /\ w.log \subseteq new.log /\ e \in new.log
      /\ \A f \in new.log : f \in w.log \/ f = e
  BY <1>2
<1> HIDE DEF n
<1>6. \A i \in DOMAIN w.items : ~ (w.items[i].op = o /\ w.items[i].key = leg.key)
  BY DEF Booked, ItemsOf, Unfound
<1>7. ItemsOf(new.log, new.items)
  <2>1. ItemsOf(w.log, w.items)
    BY DEF Booked
  <2>2. \A f \in new.log : f.leg.kind \in InstanceKinds =>
          \E i \in DOMAIN new.items : new.items[i].op = f.op /\ new.items[i].key = f.leg.key
    <3> SUFFICES ASSUME NEW f \in new.log, f.leg.kind \in InstanceKinds
                 PROVE  \E i \in DOMAIN new.items :
                           new.items[i].op = f.op /\ new.items[i].key = f.leg.key
      OBVIOUS
    <3>1. CASE f \in w.log
      BY <1>4, <2>1, <3>1 DEF ItemsOf
    <3>2. CASE f = e
      BY <1>3, <1>4, <3>2
    <3> QED
      BY <1>5, <3>1, <3>2
  <2>3. \A i, k \in DOMAIN new.items :
          new.items[i].op = new.items[k].op /\ new.items[i].key = new.items[k].key => i = k
    <3>1. \A i, k \in DOMAIN w.items :
            w.items[i].op = w.items[k].op /\ w.items[i].key = w.items[k].key => i = k
      BY <2>1 DEF ItemsOf
    <3> QED
      BY <1>3, <1>4, <1>6, <3>1
  <2>4. \A i \in DOMAIN new.items : \E f \in new.log :
          f.op = new.items[i].op /\ f.leg.key = new.items[i].key
    <3> SUFFICES ASSUME NEW i \in DOMAIN new.items
                 PROVE  \E f \in new.log : f.op = new.items[i].op
                                              /\ f.leg.key = new.items[i].key
      OBVIOUS
    <3>1. CASE i \in DOMAIN w.items
      BY <1>4, <1>5, <2>1, <3>1 DEF ItemsOf
    <3>2. CASE i = n
      BY <1>3, <1>4, <1>5, <3>2
    <3> QED
      BY <1>4, <3>1, <3>2
  <2> QED
    BY <2>2, <2>3, <2>4 DEF ItemsOf
<1>8. /\ DOMAIN w.pending \subseteq DOMAIN new.pending
      /\ \A j \in DOMAIN w.pending : new.pending[j] = w.pending[j]
      /\ fits => DOMAIN new.pending = DOMAIN w.pending
      /\ ~ fits => /\ DOMAIN new.pending = DOMAIN w.pending \cup {m}
                   /\ new.pending[m] = row
  BY <1>1, <1>2, <1>3
<1> HIDE DEF m
<1>9. RowsOf(w.log, w.items, w.pending)
  BY DEF Booked
<1>10. \A j \in DOMAIN w.pending : ~ (w.pending[j].op = o /\ w.pending[j].key = leg.key)
  BY <1>1, <1>6, <1>9 DEF RowsOf
<1>11. RowsOf(new.log, new.items, new.pending)
  <2>1. \A j \in DOMAIN new.pending :
           /\ new.pending[j].op = new.items[new.pending[j].item].op
           /\ new.pending[j].key = new.items[new.pending[j].item].key
    <3> SUFFICES ASSUME NEW j \in DOMAIN new.pending
                 PROVE  /\ new.pending[j].op = new.items[new.pending[j].item].op
                        /\ new.pending[j].key = new.items[new.pending[j].item].key
      OBVIOUS
    <3>1. CASE j \in DOMAIN w.pending
      BY <1>1, <1>4, <1>8, <1>9, <3>1 DEF RowsOf
    <3>2. CASE j = m /\ ~ fits
      BY <1>3, <1>4, <1>8, <3>2
    <3> QED
      BY <1>8, <3>1, <3>2
  <2>2. ASSUME NEW f \in new.log, f.leg.kind \in InstanceKinds
        PROVE  f.overflow <=> \E j \in DOMAIN new.pending :
                  new.pending[j].op = f.op /\ new.pending[j].key = f.leg.key
    <3>1. CASE f \in w.log
      <4>1. ~ (f.op = o /\ f.leg.key = leg.key)
        BY <3>1 DEF Unfound
      <4>2. f.overflow <=> \E j \in DOMAIN w.pending :
                w.pending[j].op = f.op /\ w.pending[j].key = f.leg.key
        BY <1>9, <2>2, <3>1 DEF RowsOf
      <4>3. (\E j \in DOMAIN new.pending :
                new.pending[j].op = f.op /\ new.pending[j].key = f.leg.key)
              <=> \E j \in DOMAIN w.pending :
                    w.pending[j].op = f.op /\ w.pending[j].key = f.leg.key
        BY <1>3, <1>8, <4>1
      <4> QED
        BY <4>2, <4>3
    <3>2. CASE f = e
      BY <1>3, <1>8, <1>10, <3>2
    <3> QED
      BY <1>5, <3>1, <3>2
  <2> QED
    BY <2>1, <2>2 DEF RowsOf
<1>12. OwedOf(new.log, new.owed)
  <2>1. OwedOf(w.log, w.owed)
    BY DEF Booked
  <2>2. leg.kind # "DELIVER"
    BY DEF InstanceKinds
  <2>3. OwedOf(new.log, w.owed)
    BY <1>3, <1>5, <2>1, <2>2 DEF OwedOf
  <2> QED
    BY <1>2, <2>3, Zenon
<1>13. Booked(new)
  BY <1>7, <1>11, <1>12 DEF Booked
<1> QED
  BY <1>13 DEF new

---------------------------------------------------------------------------
(* Every leg keeps the rows accounted for.                                 *)

Accounted(w) == Balanced(w) /\ Fits(w) /\ Booked(w)

\* No stack of a command of operation o is owed.
NoCommand(w, o) ==
    \A j \in DOMAIN w.owed : w.owed[j].leg.kind = "COMMAND" => w.owed[j].op # o

\* A delivery writes the one event that accounts for its items.
LEMMA DeliveryAccounted ==
    ASSUME NEW w, Sound(w), Accounted(w), NEW o \in Ops, NEW leg \in Legs,
           Unfound(w, o, leg), NoCommand(w, o), leg.kind \in StackKinds
    PROVE  Accounted(StackDelivered(w, o, leg))
<1> DEFINE new == StackDelivered(w, o, leg)
<1>1. Balanced(new) /\ Fits(new)
  BY DeliveryBalances, DeliveryFits DEF Accounted
<1>2. CASE StackFits(w, leg.def, leg.quantity)
  <2> DEFINE e == Entry(o, leg, FALSE)
  <2>1. new = [w EXCEPT !.stack[leg.def] = @ + leg.quantity, !.log = @ \cup {e}]
    BY <1>2 DEF StackDelivered
  <2>2. e.op = o /\ e.leg = leg /\ e.overflow = FALSE /\ leg.kind \notin InstanceKinds
    BY DEF Entry, StackKinds, InstanceKinds
  <2> HIDE DEF e, new
  <2>3. SameRows(w, new) /\ new.log = w.log \cup {e}
    BY <2>1 DEF Sound, Shape, SameRows
  <2>4. Unfound(w, e.op, e.leg) /\ e.leg.kind \notin InstanceKinds
    BY <2>2
  <2>5. Booked(new)
    BY <2>2, <2>3, <2>4, EntryBooked DEF Sound, Accounted
  <2> QED
    BY <1>1, <2>5 DEF Accounted, new
<1>3. CASE ~ StackFits(w, leg.def, leg.quantity)
  <2>1. new = [w EXCEPT !.owed = Append(@, [op |-> o, leg |-> leg]),
                        !.log = IF leg.kind = "COMMAND" THEN @
                                ELSE @ \cup {Entry(o, leg, TRUE)}]
    BY <1>3 DEF StackDelivered
  <2> HIDE DEF new
  <2>2. /\ new.items = w.items /\ new.pending = w.pending
        /\ new.owed = Append(w.owed, [op |-> o, leg |-> leg])
        /\ new.log = IF leg.kind = "COMMAND" THEN w.log ELSE w.log \cup {Entry(o, leg, TRUE)}
    BY <2>1 DEF Sound, Shape
  <2>3. Booked(new)
    BY <2>2, OwedBooked DEF Sound, Accounted, NoCommand
  <2> QED
    BY <1>1, <2>3 DEF Accounted, new
<1> QED
  BY <1>2, <1>3

\* A consumption writes the one event that accounts for what it takes.
LEMMA ConsumptionAccounted ==
    ASSUME NEW w, Sound(w), Accounted(w), NEW o \in Ops, NEW leg \in Legs,
           Unfound(w, o, leg), leg.kind = "CONSUME", Held(w, leg)
    PROVE  Accounted(Consumed(w, o, leg))
<1> DEFINE new == Consumed(w, o, leg)
           e == Entry(o, leg, FALSE)
<1>1. Balanced(new)
  BY ConsumptionBalances DEF Accounted
<1>2. new = [w EXCEPT !.stack[leg.def] = @ - leg.quantity, !.log = @ \cup {e}]
  BY DEF Consumed
<1>3. e.op = o /\ e.leg = leg /\ e.overflow = FALSE /\ leg.kind \notin InstanceKinds
  BY DEF Entry, InstanceKinds
<1> HIDE DEF e, new
<1>4. /\ SameRows(w, new) /\ new.log = w.log \cup {e} /\ new.items = w.items
      /\ new.stack = [w.stack EXCEPT ![leg.def] = @ - leg.quantity]
  BY <1>2 DEF Sound, Shape, SameRows
<1>5. Unfound(w, e.op, e.leg) /\ e.leg.kind \notin InstanceKinds
  BY <1>3
<1>6. Booked(new)
  BY <1>3, <1>4, <1>5, EntryBooked DEF Sound, Accounted
<1>7. /\ w.stack \in [Defs -> Nat] /\ leg.def \in Defs /\ leg.quantity \in Nat
      /\ new.stack \in [Defs -> Nat] /\ w.items \in Seq(ItemRow) /\ Fits(w)
  BY <1>1, LegStacks DEF Balanced, Accounted, Sound, Shape
<1>8. \A d \in Defs : new.stack[d] <= w.stack[d]
  BY <1>4, <1>7
<1>9. Fits(new)
  BY <1>4, <1>7, <1>8, LessFits
<1> QED
  BY <1>1, <1>6, <1>9 DEF Accounted, new

\* A reservation writes the one event that accounts for what it moves.
LEMMA ReservationAccounted ==
    ASSUME NEW w, Sound(w), Accounted(w), NEW o \in Ops, NEW leg \in Legs,
           Unfound(w, o, leg), leg.kind = "RESERVE", CanReserve(w, leg)
    PROVE  Accounted(Reserved(w, o, leg))
<1> DEFINE new == Reserved(w, o, leg)
           e == Entry(o, leg, FALSE)
<1>1. Balanced(new)
  BY ReservationBalances DEF Accounted
<1>2. new = [w EXCEPT !.stack = [d \in Defs |-> @[d] - Required(leg.stacks, d)],
                      !.log = @ \cup {e}]
  BY DEF Reserved
<1>3. e.op = o /\ e.leg = leg /\ e.overflow = FALSE /\ leg.kind \notin InstanceKinds
  BY DEF Entry, InstanceKinds
<1> HIDE DEF e, new
<1>4. /\ SameRows(w, new) /\ new.log = w.log \cup {e} /\ new.items = w.items
      /\ new.stack = [d \in Defs |-> w.stack[d] - Required(leg.stacks, d)]
  BY <1>2 DEF Sound, Shape, SameRows
<1>5. Unfound(w, e.op, e.leg) /\ e.leg.kind \notin InstanceKinds
  BY <1>3
<1>6. Booked(new)
  BY <1>3, <1>4, <1>5, EntryBooked DEF Sound, Accounted
<1>7. /\ w.stack \in [Defs -> Nat] /\ \A d \in Defs : Required(leg.stacks, d) \in Nat
      /\ new.stack \in [Defs -> Nat] /\ w.items \in Seq(ItemRow) /\ Fits(w)
  BY <1>1, LegStacks DEF Balanced, Accounted, Sound, Shape
<1>8. \A d \in Defs : new.stack[d] <= w.stack[d]
  BY <1>4, <1>7
<1>9. Fits(new)
  BY <1>4, <1>7, <1>8, LessFits
<1> QED
  BY <1>1, <1>6, <1>9 DEF Accounted, new

\* An attachment writes an event and moves no item.
LEMMA AttachmentAccounted ==
    ASSUME NEW w, Sound(w), Accounted(w), NEW o \in Ops, NEW leg \in Legs,
           Unfound(w, o, leg), leg.kind = "ATTACH"
    PROVE  Accounted(Attached(w, o, leg))
<1> DEFINE new == Attached(w, o, leg)
           e == Entry(o, leg, FALSE)
<1>1. new = [w EXCEPT !.log = @ \cup {e}]
  BY DEF Attached
<1>2. /\ e.op = o /\ e.leg = leg /\ e.overflow = FALSE /\ leg.kind \notin InstanceKinds
      /\ leg.kind \notin StackKinds \cup {"CONSUME", "RESERVE"}
      /\ e \in LogRow /\ e \notin w.log
  BY DEF Entry, InstanceKinds, StackKinds, LogRow, Unfound
<1> HIDE DEF e, new
<1>3. /\ SameRows(w, new) /\ new.log = w.log \cup {e} /\ new.items = w.items
      /\ new.stack = w.stack
  BY <1>1 DEF Sound, Shape, SameRows
<1>4. Unfound(w, e.op, e.leg) /\ e.leg.kind \notin InstanceKinds
      /\ e.leg.kind \notin StackKinds \cup {"CONSUME", "RESERVE"}
  BY <1>2
<1>5. Booked(new)
  BY <1>2, <1>3, <1>4, EntryBooked DEF Sound, Accounted
<1>6. Balanced(new)
  BY <1>2, <1>3, <1>4, OtherBalances DEF Accounted
<1>7. /\ w.stack \in [Defs -> Nat] /\ new.stack \in [Defs -> Nat]
      /\ w.items \in Seq(ItemRow) /\ Fits(w)
  BY <1>6 DEF Balanced, Accounted, Sound, Shape
<1>8. \A d \in Defs : new.stack[d] <= w.stack[d]
  BY <1>3, <1>7
<1>9. Fits(new)
  BY <1>3, <1>7, <1>8, LessFits
<1> QED
  BY <1>5, <1>6, <1>9 DEF Accounted, new

\* A new instance has its event, and its pending row if the bag was full.
LEMMA MintAccounted ==
    ASSUME NEW w, Sound(w), Accounted(w), NEW o \in Ops, NEW leg \in Legs,
           Unfound(w, o, leg), leg.kind \in InstanceKinds, NEW began \in Nat,
           leg.size \in Nat, leg.bag \in Bags, leg.key \in STRING
    PROVE  Accounted(Minted(w, o, leg, began))
<1> DEFINE fits == Used(w, leg.bag) + leg.size <= Capacity(leg.bag)
           new == Minted(w, o, leg, began)
           e == Entry(o, leg, ~ fits)
<1>1. Booked(new) /\ Fits(new)
  BY MintBooked, MintFits DEF Accounted
<1>2. new.stack = w.stack /\ new.log = w.log \cup {e}
  BY DEF Minted, Sound, Shape
<1>3. /\ e \in LogRow /\ e \notin w.log
      /\ e.leg.kind \notin StackKinds \cup {"CONSUME", "RESERVE"}
  <2>1. (~ fits) \in BOOLEAN
    OBVIOUS
  <2> HIDE DEF fits
  <2>2. e.op = o /\ e.leg = leg /\ e \in LogRow
    BY <2>1 DEF Entry, LogRow
  <2> HIDE DEF e
  <2>3. e \notin w.log
    BY <2>2 DEF Unfound
  <2> QED
    BY <2>2, <2>3 DEF InstanceKinds, StackKinds
<1> HIDE DEF e, new
<1>4. Balanced(new)
  BY <1>2, <1>3, OtherBalances DEF Accounted
<1> QED
  BY <1>1, <1>4 DEF Accounted, new

\* A claim writes an event for each row it settles.
LEMMA ClaimAccounted ==
    ASSUME NEW w, Sound(w), Accounted(w), NEW o \in Ops, NEW leg \in Legs,
           Unfound(w, o, leg), leg.kind = "CLAIM", leg.bag \in Bags
    PROVE  Accounted(Claimed(w, o, leg))
<1> DEFINE M == Items(w, Claimable(w, leg.bag))
           new == Claimed(w, o, leg)
           e == Entry(o, leg, FALSE)
<1>1. Fits(new)
  BY ClaimFits DEF Accounted
<1>2. ClaimMoves(w, o, leg, new, M)
  <2>1. ClaimOf(w, o, leg, new, M)
    BY DEF ClaimOf
  <2> HIDE DEF new, M
  <2> QED
    BY <2>1, ClaimRows
<1>3. /\ e.op = o /\ e.leg = leg /\ e.overflow = FALSE /\ leg.kind \notin InstanceKinds
      /\ leg.kind \notin StackKinds \cup {"CONSUME", "RESERVE"}
      /\ e \in LogRow /\ e \notin w.log
  BY DEF Entry, InstanceKinds, StackKinds, LogRow, Unfound
<1>4. new.log = w.log \cup {e}
  BY <1>2 DEF ClaimMoves
<1> HIDE DEF e, new, M
<1>5. SameRows(w, new) /\ new.stack = w.stack
  BY <1>2 DEF ClaimMoves, SameRows
<1>6. Unfound(w, e.op, e.leg) /\ e.leg.kind \notin InstanceKinds
      /\ e.leg.kind \notin StackKinds \cup {"CONSUME", "RESERVE"}
  BY <1>3
<1>7. Booked(new)
  BY <1>3, <1>4, <1>5, <1>6, EntryBooked DEF Sound, Accounted
<1>8. Balanced(new)
  BY <1>3, <1>4, <1>5, <1>6, OtherBalances DEF Accounted
<1> QED
  BY <1>1, <1>7, <1>8 DEF Accounted, new

\* An item that leaves its bag, and a change of status.
LEMMA LossAccounted ==
    ASSUME NEW w, Sound(w), Accounted(w), NEW new, SameRows(w, new),
           new.log = w.log, new.stack = w.stack, new.items \in Seq(ItemRow),
           \A i \in DOMAIN w.items : new.items[i].size = w.items[i].size,
           \A bag \in Bags : In(new, bag) \subseteq In(w, bag)
    PROVE  Accounted(new)
<1>1. Booked(new)
  BY SameBooked DEF Sound, Accounted
<1>2. Balanced(new)
  BY DEF Accounted, Balanced
<1>3. Fits(new)
  <2> SUFFICES ASSUME NEW bag \in Bags PROVE Used(new, bag) <= Capacity(bag)
    BY DEF Fits
  <2>1. /\ w.items \in Seq(ItemRow) /\ w.stack \in [Defs -> Nat]
        /\ new.items \in Seq(ItemRow) /\ new.stack \in [Defs -> Nat]
    BY <1>2 DEF Sound, Shape, Accounted, Balanced
  <2>2. /\ Used(w, bag) = SizeOf(w, In(w, bag)) + Beside(w, bag)
        /\ Used(new, bag) = SizeOf(new, In(new, bag)) + Beside(new, bag)
        /\ Beside(new, bag) = Beside(w, bag)
        /\ Beside(w, bag) \in Nat /\ Capacity(bag) \in Nat
        /\ SizeOf(w, In(w, bag)) \in Nat /\ SizeOf(new, In(new, bag)) \in Nat
        /\ In(w, bag) \in SUBSET DOMAIN w.items /\ In(new, bag) \in SUBSET DOMAIN new.items
    BY <2>1, UsedFacts DEF Beside
  <2>3. Used(w, bag) <= Capacity(bag)
    BY DEF Accounted, Fits
  <2> DEFINE S == In(w, bag)
             T == In(new, bag)
  <2>4. /\ S \in SUBSET DOMAIN w.items /\ T \in SUBSET S /\ T \subseteq DOMAIN new.items
        /\ \A i \in T : new.items[i].size = w.items[i].size
    BY <2>2
  <2> HIDE DEF S, T
  <2>5. SizeOf(new, T) <= SizeOf(w, S)
    BY <2>1, <2>4, SizeLess
  <2>6. SizeOf(new, In(new, bag)) <= SizeOf(w, In(w, bag))
    BY <2>5 DEF S, T
  <2> QED
    BY <2>2, <2>3, <2>6
<1> QED
  BY <1>1, <1>2, <1>3 DEF Accounted

---------------------------------------------------------------------------
(* The invariant: what is committed and what a session that has the player *)
(* row works on are accounted for.  A command's overflow leaves no event   *)
(* to find, so what keeps it from being owed twice is that it is the only  *)
(* leg of its operation, and commits with it.                              *)

IsCommandOp(o) == \E plan \in Plans[o] : \E n \in DOMAIN plan : plan[n].kind = "COMMAND"

\* What a command owes is of an operation that committed.
CommandsEnded(w, ops) ==
    \A j \in DOMAIN w.owed : w.owed[j].leg.kind = "COMMAND" =>
        ops[w.owed[j].op] = "COMMITTED"

\* Or of the session's own operation, which is at its end.
CommandsOf(r, ops) ==
    \A j \in DOMAIN r.work.owed : r.work.owed[j].leg.kind = "COMMAND" =>
        \/ ops[r.work.owed[j].op] = "COMMITTED"
        \/ r.work.owed[j].op = r.op /\ r.legs = <<>> /\ IsCommandOp(r.op)

\* A command is the last leg.
CommandsAlone(r) ==
    \A n \in DOMAIN r.legs : r.legs[n].kind = "COMMAND" =>
        Len(r.legs) = 1 /\ IsCommandOp(r.op)

SessionBook(r, ops) ==
    /\ r.phase = "LOCKED" => Accounted(r.work) /\ CommandsOf(r, ops)
    /\ r.phase # "IDLE" => CommandsAlone(r)

Books ==
    /\ Accounted(db) /\ CommandsEnded(db, operation)
    /\ \A s \in Sessions : SessionBook(tx[s], operation)

BookInv == IInv /\ Books

\* Only one session's row moves on.
LEMMA MoveBooks ==
    ASSUME BookInv, NEW s \in Sessions, \A t \in Sessions \ {s} : tx'[t] = tx[t],
           SessionBook(tx'[s], operation), UNCHANGED <<db, operation>>
    PROVE  Books'
<1>1. \A t \in Sessions : SessionBook(tx'[t], operation')
  BY DEF BookInv, Books
<1>2. Accounted(db') /\ CommandsEnded(db', operation')
  BY DEF BookInv, Books
<1> QED
  BY <1>1, <1>2 DEF Books

\* At the start no operation has written an event.
LEMMA InitBooks == Init => Books
<1> SUFFICES ASSUME Init PROVE Books
  OBVIOUS
<1>1. /\ Empty.stack = Initial /\ Empty.items = <<>> /\ Empty.pending = <<>>
      /\ Empty.owed = <<>> /\ Empty.log = {}
  BY DEF Empty
<1>2. Balanced(Empty)
  <2>1. Initial \in [Defs -> Nat]
    BY InitialAssumption
  <2>2. ASSUME NEW d \in Defs
        PROVE  /\ SumFunctionOnSet(TakenOf(d), Empty.log) = 0
               /\ SumFunctionOnSet(PutOf(d), Empty.log) = 0
    BY <1>1, SumEmpty, Zenon
  <2>3. \A d \in Defs : Empty.stack[d] + SumFunctionOnSet(TakenOf(d), Empty.log)
                          = Initial[d] + SumFunctionOnSet(PutOf(d), Empty.log)
    BY <1>1, <2>1, <2>2
  <2> QED
    BY <1>1, <2>1, <2>3, FS_EmptySet DEF Balanced
<1>3. Fits(Empty)
  <2> SUFFICES ASSUME NEW bag \in Bags PROVE Used(Empty, bag) <= Capacity(bag)
    BY DEF Fits
  <2>1. /\ Empty.items \in Seq(ItemRow) /\ Empty.stack \in [Defs -> Nat]
        /\ In(Empty, bag) = {}
    BY <1>1, InitialAssumption DEF In
  <2>2. /\ In(Empty, bag) \in SUBSET DOMAIN Empty.items
        /\ SumFunctionOnSet(Sizes(Empty), {}) = 0
    BY <2>1, SumEmpty
  <2>3. SizeOf(Empty, In(Empty, bag)) = SumFunctionOnSet(Sizes(Empty), In(Empty, bag))
    BY <2>1, <2>2, SizeSums
  <2>4. SizeOf(Empty, In(Empty, bag)) = 0
    BY <2>1, <2>2, <2>3, Zenon
  <2>5. Used(Empty, bag) = SizeOf(Empty, In(Empty, bag)) + Beside(Empty, bag)
    BY <2>1, UsedFacts
  <2>6. StackSlots(Initial) \in Nat
    BY InitialAssumption, SlotSums
  <2>7. Beside(Empty, bag) = IF bag = "ITEM_BAG" THEN StackSlots(Initial) ELSE 0
    BY <1>1 DEF Beside
  <2> QED
    BY <2>4, <2>5, <2>6, <2>7, InitialFits, CapacityAssumption DEF Capacity
<1>4. Booked(Empty)
  BY <1>1 DEF Booked, ItemsOf, RowsOf, OwedOf
<1>5. CommandsEnded(Empty, operation)
  BY <1>1 DEF CommandsEnded
<1>6. \A s \in Sessions : SessionBook(tx[s], operation)
  BY DEF Init, Idle, SessionBook
<1> QED
  BY <1>2, <1>3, <1>4, <1>5, <1>6 DEF Books, Accounted, Init

\* A transaction that ends has nothing to account for.
LEMMA LeaveBooks ==
    ASSUME BookInv, NEW s \in Sessions, Leave(s), UNCHANGED <<db, operation>>
    PROVE  Books'
<1>1. tx'[s] = Idle /\ \A t \in Sessions \ {s} : tx'[t] = tx[t]
  BY DEF Leave, BookInv, IInv, Typed
<1>2. SessionBook(tx'[s], operation)
  BY <1>1 DEF Idle, SessionBook
<1> QED
  BY <1>1, <1>2, MoveBooks

\* A new transaction holds no row and has written none.
LEMMA BeginBooks ==
    ASSUME BookInv, NEW s \in Sessions, Begin(s) PROVE Books'
<1>1. PICK o \in Ops : \E plan \in Plans[o] :
        tx' = [tx EXCEPT ![s] = [phase |-> "WAITING", op |-> o, legs |-> plan,
                                 work |-> Empty, began |-> begun + 1]]
  BY DEF Begin
<1>2. PICK plan \in Plans[o] :
        tx' = [tx EXCEPT ![s] = [phase |-> "WAITING", op |-> o, legs |-> plan,
                                 work |-> Empty, began |-> begun + 1]]
  BY <1>1
<1> DEFINE r == [phase |-> "WAITING", op |-> o, legs |-> plan,
                 work |-> Empty, began |-> begun + 1]
<1>3. /\ tx'[s] = r /\ \A t \in Sessions \ {s} : tx'[t] = tx[t]
  BY <1>2 DEF BookInv, IInv, Typed
<1>4. CommandsAlone(r)
  <2>1. plan \in Seq(Range(plan))
        /\ \A leg \in Range(plan) : leg.kind = "COMMAND" => Len(plan) = 1
    BY PlansAssumption, Zenon
  <2>2. \A n \in DOMAIN plan : plan[n] \in Range(plan)
    BY <2>1
  <2>3. \A n \in DOMAIN plan : plan[n].kind = "COMMAND" => Len(plan) = 1 /\ IsCommandOp(o)
    BY <2>1, <2>2 DEF IsCommandOp
  <2> QED
    BY <2>3 DEF CommandsAlone
<1>5. r.phase = "WAITING"
  OBVIOUS
<1> HIDE DEF r
<1>6. SessionBook(r, operation)
  BY <1>4, <1>5 DEF SessionBook
<1>7. SessionBook(tx'[s], operation)
  BY <1>3, <1>6
<1> QED
  BY <1>3, <1>7, MoveBooks DEF Begin

\* The rows of a session after the changes its actions make.
Opens(r, q) == q = [r EXCEPT !.phase = "OPEN"]
Locks(r, q, w) == q = [r EXCEPT !.phase = "LOCKED", !.work = w]
Leaves(r, q, w, l) == q = [r EXCEPT !.work = w, !.legs = l]
Skips(r, q, l) == q = [r EXCEPT !.legs = l]

\* The columns of a transaction that takes its operation row.
LEMMA OpenedRow ==
    ASSUME NEW r, TxRow(r), NEW q, Opens(r, q)
    PROVE  q.phase = "OPEN" /\ q.op = r.op /\ q.legs = r.legs /\ q.work = r.work
BY DEF TxRow, Opens

\* The columns of a transaction that takes the player row.
LEMMA LockedRow ==
    ASSUME NEW r, TxRow(r), NEW w, NEW q, Locks(r, q, w)
    PROVE  q.phase = "LOCKED" /\ q.op = r.op /\ q.legs = r.legs /\ q.work = w
BY DEF TxRow, Locks

\* The columns of a transaction whose leg has written.
LEMMA WrittenRow ==
    ASSUME NEW r, TxRow(r), NEW w, NEW l, NEW q, Leaves(r, q, w, l)
    PROVE  q.phase = r.phase /\ q.op = r.op /\ q.legs = l /\ q.work = w
BY DEF TxRow, Leaves

\* The columns of a transaction whose leg was answered from its event.
LEMMA ReplayedRow ==
    ASSUME NEW r, TxRow(r), NEW l, NEW q, Skips(r, q, l)
    PROVE  q.phase = r.phase /\ q.op = r.op /\ q.legs = l /\ q.work = r.work
BY DEF TxRow, Skips

\* A lock changes no row of the player.
LEMMA LockBooks ==
    ASSUME BookInv, NEW s \in Sessions, LockOperation(s) \/ LockPlayer(s) PROVE Books'
<1>1. TxRow(tx[s]) /\ tx = [t \in Sessions |-> tx[t]]
  BY DEF BookInv, IInv, Typed
<1>2. Accounted(db) /\ CommandsEnded(db, operation) /\ SessionBook(tx[s], operation)
  BY DEF BookInv, Books
<1>3. CASE LockOperation(s)
  <2>1. tx' = [tx EXCEPT ![s] = [tx[s] EXCEPT !.phase = "OPEN"]] /\ tx[s].phase = "WAITING"
    BY <1>1, <1>3 DEF LockOperation
  <2>2. /\ Opens(tx[s], tx'[s])
        /\ \A t \in Sessions \ {s} : tx'[t] = tx[t]
    BY <1>1, <2>1 DEF Opens
  <2>3. /\ tx'[s].phase = "OPEN" /\ tx'[s].op = tx[s].op /\ tx'[s].legs = tx[s].legs
    BY <1>1, <2>2, OpenedRow
  <2>4. SessionBook(tx'[s], operation)
    BY <1>2, <2>1, <2>3 DEF SessionBook, CommandsAlone
  <2> QED
    BY <1>3, <2>2, <2>4, MoveBooks DEF LockOperation
<1>4. CASE LockPlayer(s)
  <2>1. /\ tx' = [tx EXCEPT ![s] = [tx[s] EXCEPT !.phase = "LOCKED", !.work = db]]
        /\ tx[s].phase = "OPEN"
    BY <1>1, <1>4 DEF LockPlayer, More, HasOperation, HasPlayer
  <2>2. /\ Locks(tx[s], tx'[s], db)
        /\ \A t \in Sessions \ {s} : tx'[t] = tx[t]
    BY <1>1, <2>1 DEF Locks
  <2>3. /\ tx'[s].phase = "LOCKED" /\ tx'[s].op = tx[s].op /\ tx'[s].legs = tx[s].legs
        /\ tx'[s].work = db
    BY <1>1, <2>2, LockedRow
  <2>4. CommandsAlone(tx'[s])
    BY <1>2, <2>1, <2>3 DEF SessionBook, CommandsAlone
  <2>5. CommandsOf(tx'[s], operation)
    BY <1>2, <2>3 DEF CommandsOf, CommandsEnded
  <2>6. SessionBook(tx'[s], operation)
    BY <1>2, <2>3, <2>4, <2>5 DEF SessionBook
  <2> QED
    BY <1>4, <2>2, <2>6, MoveBooks DEF LockPlayer
<1> QED
  BY <1>3, <1>4

\* What is left of a plan after a leg has no command.
LEMMA RestAlone ==
    ASSUME NEW r, TxRow(r), CommandsAlone(r), r.legs # <<>>
    PROVE  /\ \A n \in DOMAIN Tail(r.legs) : Tail(r.legs)[n].kind # "COMMAND"
           /\ Head(r.legs).kind = "COMMAND" => Tail(r.legs) = <<>> /\ IsCommandOp(r.op)
<1>1. r.legs \in Seq(Legs)
  BY DEF TxRow
<1>2. /\ Len(r.legs) \in Nat /\ Len(r.legs) > 0 /\ DOMAIN r.legs = 1 .. Len(r.legs)
      /\ Head(r.legs) = r.legs[1] /\ Tail(r.legs) \in Seq(Legs)
      /\ Len(Tail(r.legs)) = Len(r.legs) - 1
      /\ DOMAIN Tail(r.legs) = 1 .. Len(r.legs) - 1
      /\ \A n \in 1 .. Len(r.legs) - 1 : Tail(r.legs)[n] = r.legs[n + 1]
  BY <1>1
<1>3. \A n \in DOMAIN r.legs : r.legs[n].kind = "COMMAND" =>
         Len(r.legs) = 1 /\ IsCommandOp(r.op)
  BY DEF CommandsAlone
<1>4. ASSUME NEW n \in DOMAIN Tail(r.legs) PROVE Tail(r.legs)[n].kind # "COMMAND"
  <2>1. n + 1 \in DOMAIN r.legs /\ Tail(r.legs)[n] = r.legs[n + 1] /\ Len(r.legs) # 1
    BY <1>2
  <2> QED
    BY <1>3, <2>1
<1>5. ASSUME Head(r.legs).kind = "COMMAND" PROVE Tail(r.legs) = <<>> /\ IsCommandOp(r.op)
  <2>1. 1 \in DOMAIN r.legs
    BY <1>2
  <2>2. Len(r.legs) = 1 /\ IsCommandOp(r.op)
    BY <1>2, <1>3, <1>5, <2>1
  <2>3. Tail(r.legs) = <<>>
    BY <1>2, <2>2
  <2> QED
    BY <2>2, <2>3
<1> QED
  BY <1>4, <1>5
\* An answer from an event changes no row.
LEMMA ReplayBooks ==
    ASSUME BookInv, NEW s \in Sessions, Replay(s) PROVE Books'
<1>1. TxRow(tx[s]) /\ tx = [t \in Sessions |-> tx[t]]
  BY DEF BookInv, IInv, Typed
<1>2. SessionBook(tx[s], operation)
  BY DEF BookInv, Books
<1>3. /\ tx[s].legs # <<>> /\ tx[s].phase # "IDLE"
      /\ tx' = [tx EXCEPT ![s] = [tx[s] EXCEPT !.legs = Tail(tx[s].legs)]]
      /\ UNCHANGED <<db, operation>>
  BY <1>1 DEF Replay, More, HasOperation
<1>4. /\ Skips(tx[s], tx'[s], Tail(tx[s].legs))
      /\ \A t \in Sessions \ {s} : tx'[t] = tx[t]
  BY <1>1, <1>3 DEF Skips
<1>5. /\ tx'[s].phase = tx[s].phase /\ tx'[s].op = tx[s].op
      /\ tx'[s].legs = Tail(tx[s].legs) /\ tx'[s].work = tx[s].work
  BY <1>1, <1>4, ReplayedRow
<1>6. CommandsAlone(tx[s])
  BY <1>2, <1>3 DEF SessionBook
<1>7. \A n \in DOMAIN Tail(tx[s].legs) : Tail(tx[s].legs)[n].kind # "COMMAND"
  BY <1>1, <1>3, <1>6, RestAlone
<1>8. CommandsAlone(tx'[s])
  BY <1>5, <1>7 DEF CommandsAlone
<1>9. tx[s].phase = "LOCKED" => CommandsOf(tx'[s], operation) /\ Accounted(tx'[s].work)
  BY <1>2, <1>3, <1>5 DEF SessionBook, CommandsOf
<1>10. SessionBook(tx'[s], operation)
  BY <1>5, <1>8, <1>9 DEF SessionBook
<1> QED
  BY <1>3, <1>4, <1>10, MoveBooks

\* A leg writes rows that are accounted for, with no command's debt but those of
\* before and, if it was the command, its own.
LEMMA WriteBooks ==
    ASSUME BookInv, NEW s \in Sessions, More(s), HasPlayer(s), NEW new,
           Writes(s, new), Accounted(new),
           \A j \in DOMAIN new.owed : new.owed[j].leg.kind = "COMMAND" =>
               \/ j \in DOMAIN tx[s].work.owed /\ new.owed[j] = tx[s].work.owed[j]
               \/ new.owed[j].op = tx[s].op /\ Leg(s).kind = "COMMAND"
    PROVE  Books'
<1>1. TxRow(tx[s]) /\ tx = [t \in Sessions |-> tx[t]]
  BY DEF BookInv, IInv, Typed
<1>2. SessionBook(tx[s], operation)
  BY DEF BookInv, Books
<1>3. /\ tx[s].legs # <<>> /\ tx[s].phase = "LOCKED"
      /\ tx' = [tx EXCEPT ![s] = [tx[s] EXCEPT !.work = new, !.legs = Tail(tx[s].legs)]]
      /\ UNCHANGED <<db, operation>>
  BY <1>1 DEF Writes, More, HasPlayer
<1>4. /\ Leaves(tx[s], tx'[s], new, Tail(tx[s].legs))
      /\ \A t \in Sessions \ {s} : tx'[t] = tx[t]
  BY <1>1, <1>3 DEF Leaves
<1>5. /\ tx'[s].phase = tx[s].phase /\ tx'[s].op = tx[s].op
      /\ tx'[s].legs = Tail(tx[s].legs) /\ tx'[s].work = new
  BY <1>1, <1>4, WrittenRow
<1>6. CommandsAlone(tx[s]) /\ CommandsOf(tx[s], operation)
  BY <1>2, <1>3 DEF SessionBook
<1>7. /\ \A n \in DOMAIN Tail(tx[s].legs) : Tail(tx[s].legs)[n].kind # "COMMAND"
      /\ Leg(s).kind = "COMMAND" => Tail(tx[s].legs) = <<>> /\ IsCommandOp(tx[s].op)
  BY <1>1, <1>3, <1>6, RestAlone DEF Leg
<1>8. CommandsAlone(tx'[s])
  BY <1>5, <1>7 DEF CommandsAlone
<1>9. \A j \in DOMAIN tx[s].work.owed : tx[s].work.owed[j].leg.kind = "COMMAND" =>
          operation[tx[s].work.owed[j].op] = "COMMITTED"
  BY <1>3, <1>6 DEF CommandsOf
<1>10. CommandsOf(tx'[s], operation)
  <2> SUFFICES ASSUME NEW j \in DOMAIN new.owed, new.owed[j].leg.kind = "COMMAND"
               PROVE  \/ operation[new.owed[j].op] = "COMMITTED"
                      \/ /\ new.owed[j].op = tx[s].op
                         /\ Tail(tx[s].legs) = <<>> /\ IsCommandOp(tx[s].op)
    BY <1>5 DEF CommandsOf
  <2> QED
    BY <1>7, <1>9
<1>11. SessionBook(tx'[s], operation)
  BY <1>3, <1>5, <1>8, <1>10 DEF SessionBook
<1> QED
  BY <1>3, <1>4, <1>11, MoveBooks

\* The rows a session commits, with the operation or without it.
LEMMA CommitBooks ==
    ASSUME BookInv, NEW s \in Sessions, Finish(s) \/ Save(s) PROVE Books'
<1>1. /\ HasOperation(s) /\ db' = Sees(s) /\ Leave(s)
      /\ \/ operation' = [operation EXCEPT ![tx[s].op] = "COMMITTED"] /\ tx[s].legs = <<>>
         \/ operation' = operation /\ ~ IsCommandOp(tx[s].op)
  BY DEF Finish, Save, Sees, HasOperation, HasPlayer, IsCommandOp
<1>2. /\ operation \in [Ops -> {"PENDING", "COMMITTED"}] /\ tx[s].op \in Ops
      /\ tx = [t \in Sessions |-> tx[t]]
  BY <1>1 DEF BookInv, IInv, Typed, TxRow, HasOperation
<1>3. /\ tx'[s] = Idle /\ \A t \in Sessions \ {s} : tx'[t] = tx[t]
  BY <1>1, <1>2 DEF Leave
<1>4. \A o \in Ops : operation[o] = "COMMITTED" => operation'[o] = "COMMITTED"
  <2>1. CASE operation' = operation
    BY <2>1
  <2>2. CASE operation' = [operation EXCEPT ![tx[s].op] = "COMMITTED"]
    BY <1>2, <2>2
  <2> QED
    BY <1>1, <2>1, <2>2
<1>5. Accounted(db) /\ CommandsEnded(db, operation) /\ SessionBook(tx[s], operation)
      /\ \A t \in Sessions : SessionBook(tx[t], operation)
  BY DEF BookInv, Books
<1>6. ASSUME NEW w, Accounted(w) PROVE \A j \in DOMAIN w.owed : w.owed[j].op \in Ops
  <2>1. w.owed \in Seq(OwedRow)
    BY <1>6, Zenon DEF Accounted, Booked, OwedOf
  <2>2. \A j \in DOMAIN w.owed : w.owed[j] \in OwedRow
    <3> HIDE DEF OwedRow
    <3> QED
      BY <2>1
  <2> QED
    BY <2>2 DEF OwedRow
<1>7. Accounted(db') /\ CommandsEnded(db', operation')
  <2>1. CASE HasPlayer(s)
    <3>1. db' = tx[s].work /\ tx[s].phase = "LOCKED"
      BY <1>1, <2>1 DEF Sees, HasPlayer
    <3>2. Accounted(tx[s].work) /\ CommandsOf(tx[s], operation)
      BY <1>5, <3>1 DEF SessionBook
    <3>3. operation' = [operation EXCEPT ![tx[s].op] = "COMMITTED"]
             => operation'[tx[s].op] = "COMMITTED"
      BY <1>2
    <3>4. CommandsEnded(tx[s].work, operation')
      BY <1>1, <1>4, <1>6, <3>2, <3>3 DEF CommandsOf, CommandsEnded
    <3> QED
      BY <3>1, <3>2, <3>4
  <2>2. CASE ~ HasPlayer(s)
    <3>1. db' = db
      BY <1>1, <2>2 DEF Sees
    <3>2. CommandsEnded(db, operation')
      BY <1>4, <1>5, <1>6 DEF CommandsEnded
    <3> QED
      BY <1>5, <3>1, <3>2
  <2> QED
    BY <2>1, <2>2
<1>8. ASSUME NEW t \in Sessions PROVE SessionBook(tx'[t], operation')
  <2>1. CASE t = s
    BY <1>3, <2>1 DEF Idle, SessionBook
  <2>2. CASE t # s
    <3>1. tx'[t] = tx[t] /\ SessionBook(tx[t], operation)
      BY <1>3, <1>5, <2>2
    <3>2. Accounted(tx[t].work) /\ CommandsOf(tx[t], operation) => CommandsOf(tx[t], operation')
      BY <1>4, <1>6 DEF CommandsOf
    <3> QED
      BY <3>1, <3>2, Zenon DEF SessionBook
  <2> QED
    BY <2>1, <2>2
<1> QED
  BY <1>7, <1>8 DEF Books

\* A leg that has not run finds rows that are accounted for.
LEMMA FreshBooks ==
    ASSUME BookInv, NEW s \in Sessions, NEW kinds, Fresh(s, kinds)
    PROVE  /\ More(s) /\ HasPlayer(s) /\ Leg(s).kind \in kinds
           /\ Leg(s) \in Legs /\ tx[s].op \in Ops /\ tx[s].began \in Nat
           /\ Sound(tx[s].work) /\ Accounted(tx[s].work)
           /\ Unfound(tx[s].work, tx[s].op, Leg(s)) /\ NoCommand(tx[s].work, tx[s].op)
<1>1. /\ More(s) /\ HasPlayer(s) /\ Leg(s).kind \in kinds
      /\ Found(s) = {} /\ IsOpen(tx[s].op) /\ tx[s].phase = "LOCKED" /\ tx[s].legs # <<>>
  BY DEF Fresh, HasPlayer, More
<1>2. /\ Leg(s) \in Legs /\ tx[s].op \in Ops /\ tx[s].began \in Nat /\ Sound(tx[s].work)
  BY <1>1, HeadFacts DEF BookInv
<1>3. Accounted(tx[s].work) /\ CommandsOf(tx[s], operation)
  BY <1>1 DEF BookInv, Books, SessionBook
<1>4. Unfound(tx[s].work, tx[s].op, Leg(s))
  BY <1>1 DEF Found, Sees, Unfound
<1>5. NoCommand(tx[s].work, tx[s].op)
  BY <1>1, <1>3 DEF CommandsOf, NoCommand, IsOpen
<1> QED
  BY <1>1, <1>2, <1>3, <1>4, <1>5

\* Only a command leaves a command's debt.
LEMMA DeliveryOwed ==
    ASSUME NEW w, Sound(w), Accounted(w), NEW o \in Ops, NEW leg \in Legs,
           NEW j \in DOMAIN StackDelivered(w, o, leg).owed,
           StackDelivered(w, o, leg).owed[j].leg.kind = "COMMAND"
    PROVE  \/ j \in DOMAIN w.owed /\ StackDelivered(w, o, leg).owed[j] = w.owed[j]
           \/ StackDelivered(w, o, leg).owed[j].op = o /\ leg.kind = "COMMAND"
<1> DEFINE new == StackDelivered(w, o, leg)
           row == [op |-> o, leg |-> leg]
<1>1. new.owed = IF StackFits(w, leg.def, leg.quantity) THEN w.owed ELSE Append(w.owed, row)
  <2>1. CASE StackFits(w, leg.def, leg.quantity)
    BY <2>1 DEF StackDelivered, Sound, Shape
  <2>2. CASE ~ StackFits(w, leg.def, leg.quantity)
    BY <2>2 DEF StackDelivered, Sound, Shape
  <2> QED
    BY <2>1, <2>2
<1>2. w.owed \in Seq(OwedRow) /\ row \in OwedRow /\ row.op = o /\ row.leg = leg
  BY DEF Accounted, Booked, OwedOf, OwedRow
<1> HIDE DEF row
<1>3. CASE StackFits(w, leg.def, leg.quantity)
  BY <1>1, <1>3
<1>4. CASE ~ StackFits(w, leg.def, leg.quantity)
  <2>1. new.owed = Append(w.owed, row)
    BY <1>1, <1>4
  <2>2. j \in DOMAIN new.owed /\ new.owed[j].leg.kind = "COMMAND"
    OBVIOUS
  <2> HIDE DEF new
  <2>3. \/ j \in DOMAIN w.owed /\ new.owed[j] = w.owed[j]
        \/ new.owed[j] = row
    BY <1>2, <2>1, <2>2
  <2>4. \/ j \in DOMAIN w.owed /\ new.owed[j] = w.owed[j]
        \/ new.owed[j].op = o /\ leg.kind = "COMMAND"
    BY <1>2, <2>2, <2>3
  <2> QED
    BY <2>4 DEF new
<1> QED
  BY <1>3, <1>4

\* The legs.
LEMMA LegBooks ==
    ASSUME BookInv, NEW s \in Sessions,
           \/ DeliverStack(s) \/ ConsumeStack(s) \/ DeliverUnique(s) \/ DeliverFish(s)
           \/ ClaimItems(s) \/ ClaimCatches(s) \/ Reserve(s) \/ Attach(s)
    PROVE  Books'
<1> DEFINE w == tx[s].work
           o == tx[s].op
           leg == Leg(s)
<1>1. ASSUME NEW kinds, Fresh(s, kinds)
      PROVE  /\ More(s) /\ HasPlayer(s) /\ leg.kind \in kinds
             /\ leg \in Legs /\ o \in Ops /\ tx[s].began \in Nat
             /\ Sound(w) /\ Accounted(w) /\ Unfound(w, o, leg) /\ NoCommand(w, o)
  BY <1>1, FreshBooks
<1>2. ASSUME NEW new, More(s), HasPlayer(s), Writes(s, new), Accounted(new),
             \A j \in DOMAIN new.owed : new.owed[j].leg.kind = "COMMAND" =>
                 \/ j \in DOMAIN w.owed /\ new.owed[j] = w.owed[j]
                 \/ new.owed[j].op = o /\ leg.kind = "COMMAND"
      PROVE  Books'
  BY <1>2, WriteBooks
<1>3. ASSUME NEW new, More(s), HasPlayer(s), Writes(s, new), Accounted(new), new.owed = w.owed
      PROVE  Books'
  <2>1. \A j \in DOMAIN new.owed : j \in DOMAIN w.owed /\ new.owed[j] = w.owed[j]
    BY <1>3
  <2> HIDE DEF w, o, leg
  <2> QED
    BY <1>2, <1>3, <2>1
<1> HIDE DEF w, o, leg
<1>4. CASE DeliverStack(s)
  <2>1. Fresh(s, StackKinds) /\ Writes(s, StackDelivered(w, o, leg))
    BY <1>4 DEF DeliverStack, w, o, leg
  <2>2. /\ More(s) /\ HasPlayer(s) /\ leg.kind \in StackKinds /\ leg \in Legs /\ o \in Ops
        /\ Sound(w) /\ Accounted(w) /\ Unfound(w, o, leg) /\ NoCommand(w, o)
    BY <1>1, <2>1
  <2>3. Accounted(StackDelivered(w, o, leg))
    BY <2>2, DeliveryAccounted
  <2>4. \A j \in DOMAIN StackDelivered(w, o, leg).owed :
           StackDelivered(w, o, leg).owed[j].leg.kind = "COMMAND" =>
               \/ j \in DOMAIN w.owed /\ StackDelivered(w, o, leg).owed[j] = w.owed[j]
               \/ StackDelivered(w, o, leg).owed[j].op = o /\ leg.kind = "COMMAND"
    BY <2>2, DeliveryOwed
  <2> QED
    BY <1>2, <2>1, <2>2, <2>3, <2>4
<1>5. CASE ConsumeStack(s)
  <2>1. Fresh(s, {"CONSUME"}) /\ Held(w, leg) /\ Writes(s, Consumed(w, o, leg))
    BY <1>5 DEF ConsumeStack, w, o, leg
  <2>2. /\ More(s) /\ HasPlayer(s) /\ leg.kind = "CONSUME" /\ leg \in Legs /\ o \in Ops
        /\ Sound(w) /\ Accounted(w) /\ Unfound(w, o, leg)
    BY <1>1, <2>1
  <2>3. Accounted(Consumed(w, o, leg))
    BY <2>1, <2>2, ConsumptionAccounted
  <2>4. Consumed(w, o, leg).owed = w.owed
    BY <2>2 DEF Consumed, Sound, Shape
  <2> QED
    BY <1>3, <2>1, <2>2, <2>3, <2>4
<1>6. CASE DeliverUnique(s) \/ DeliverFish(s)
  <2>1. /\ Fresh(s, {"UNIQUE"}) \/ Fresh(s, {"FISH"})
        /\ Writes(s, Minted(w, o, leg, tx[s].began))
    BY <1>6 DEF DeliverUnique, DeliverFish, w, o, leg
  <2>2. /\ More(s) /\ HasPlayer(s) /\ leg.kind \in InstanceKinds /\ leg \in Legs /\ o \in Ops
        /\ Sound(w) /\ Accounted(w) /\ Unfound(w, o, leg) /\ tx[s].began \in Nat
    BY <1>1, <2>1 DEF InstanceKinds
  <2>3. leg.key \in STRING /\ leg.size \in Nat /\ leg.bag \in Bags
    BY <2>2, LegFacts DEF InstanceKinds, Bags
  <2>4. Accounted(Minted(w, o, leg, tx[s].began))
    BY <2>2, <2>3, MintAccounted
  <2>5. Minted(w, o, leg, tx[s].began).owed = w.owed
    BY <2>2 DEF Minted, Sound, Shape
  <2> QED
    BY <1>3, <2>1, <2>2, <2>4, <2>5
<1>7. CASE ClaimItems(s) \/ ClaimCatches(s)
  <2>1. /\ Fresh(s, {"CLAIM"}) /\ leg.bag \in Bags /\ Writes(s, Claimed(w, o, leg))
    BY <1>7 DEF ClaimItems, ClaimCatches, Bags, w, o, leg
  <2>2. /\ More(s) /\ HasPlayer(s) /\ leg.kind = "CLAIM" /\ leg \in Legs /\ o \in Ops
        /\ Sound(w) /\ Accounted(w) /\ Unfound(w, o, leg)
    BY <1>1, <2>1
  <2>3. Accounted(Claimed(w, o, leg))
    BY <2>1, <2>2, ClaimAccounted
  <2>4. Claimed(w, o, leg).owed = w.owed
    BY <2>2 DEF Claimed, Sound, Shape
  <2> QED
    BY <1>3, <2>1, <2>2, <2>3, <2>4
<1>8. CASE Reserve(s)
  <2>1. Fresh(s, {"RESERVE"}) /\ CanReserve(w, leg) /\ Writes(s, Reserved(w, o, leg))
    BY <1>8 DEF Reserve, w, o, leg
  <2>2. /\ More(s) /\ HasPlayer(s) /\ leg.kind = "RESERVE" /\ leg \in Legs /\ o \in Ops
        /\ Sound(w) /\ Accounted(w) /\ Unfound(w, o, leg)
    BY <1>1, <2>1
  <2>3. Accounted(Reserved(w, o, leg))
    BY <2>1, <2>2, ReservationAccounted
  <2>4. Reserved(w, o, leg).owed = w.owed
    BY <2>2 DEF Reserved, Sound, Shape
  <2> QED
    BY <1>3, <2>1, <2>2, <2>3, <2>4
<1>9. CASE Attach(s)
  <2>1. Fresh(s, {"ATTACH"}) /\ Writes(s, Attached(w, o, leg))
    BY <1>9 DEF Attach, w, o, leg
  <2>2. /\ More(s) /\ HasPlayer(s) /\ leg.kind = "ATTACH" /\ leg \in Legs /\ o \in Ops
        /\ Sound(w) /\ Accounted(w) /\ Unfound(w, o, leg)
    BY <1>1, <2>1
  <2>3. Accounted(Attached(w, o, leg))
    BY <2>2, AttachmentAccounted
  <2>4. Attached(w, o, leg).owed = w.owed
    BY <2>2 DEF Attached, Sound, Shape
  <2> QED
    BY <1>3, <2>1, <2>2, <2>3, <2>4
<1> QED
  BY <1>4, <1>5, <1>6, <1>7, <1>8, <1>9

\* With the player row free, only the rows of everyone change.
LEMMA OutsideBooks ==
    ASSUME BookInv, Accounted(db'), db'.owed = db.owed, UNCHANGED <<operation, tx, begun>>
    PROVE  Books'
<1>1. CommandsEnded(db', operation')
  BY DEF BookInv, Books, CommandsEnded
<1>2. \A s \in Sessions : SessionBook(tx'[s], operation')
  BY DEF BookInv, Books
<1> QED
  BY <1>1, <1>2 DEF Books

\* A change of status changes no item and no event.
LEMMA StatusBooks ==
    ASSUME BookInv, NEW status, SetStatus(status) PROVE Books'
<1>1. Sound(db) /\ Accounted(db) /\ db' = [db EXCEPT !.status = status]
  BY DEF BookInv, Books, IInv, Typed, SetStatus
<1>2. /\ SameRows(db, db') /\ db'.log = db.log /\ db'.stack = db.stack /\ db'.items = db.items
      /\ db'.owed = db.owed /\ db.items \in Seq(ItemRow)
  BY <1>1 DEF Sound, Shape, SameRows
<1>3. Accounted(db')
  BY <1>1, <1>2, LossAccounted DEF In
<1> QED
  BY <1>2, <1>3, OutsideBooks DEF SetStatus

\* An instance that leaves a bag leaves no row behind that is open.
LEMMA TakeOutBooks ==
    ASSUME BookInv, NEW i \in DOMAIN db.items, TakeOut(i) PROVE Books'
<1>1. Sound(db) /\ Accounted(db) /\ db' = [db EXCEPT !.items[i].at = "ELSEWHERE"]
  BY DEF BookInv, Books, IInv, Typed, TakeOut
<1>2. /\ db'.items = [db.items EXCEPT ![i] = [db.items[i] EXCEPT !.at = "ELSEWHERE"]]
      /\ db'.pending = db.pending /\ db'.log = db.log /\ db'.stack = db.stack
      /\ db'.owed = db.owed /\ db.items \in Seq(ItemRow)
  BY <1>1 DEF Sound, Shape
<1>3. /\ db.items[i] \in ItemRow
      /\ [db.items[i] EXCEPT !.at = "ELSEWHERE"] \in ItemRow
      /\ [db.items[i] EXCEPT !.at = "ELSEWHERE"].at = "ELSEWHERE"
      /\ [db.items[i] EXCEPT !.at = "ELSEWHERE"].op = db.items[i].op
      /\ [db.items[i] EXCEPT !.at = "ELSEWHERE"].key = db.items[i].key
      /\ [db.items[i] EXCEPT !.at = "ELSEWHERE"].size = db.items[i].size
  <2>1. db.items[i] \in ItemRow
    BY <1>2
  <2> QED
    BY <2>1 DEF ItemRow, Places
<1>4. /\ db'.items \in Seq(ItemRow) /\ DOMAIN db'.items = DOMAIN db.items
      /\ db'.items[i] = [db.items[i] EXCEPT !.at = "ELSEWHERE"]
      /\ \A k \in DOMAIN db.items \ {i} : db'.items[k] = db.items[k]
  BY <1>2, <1>3
<1>5. /\ db'.items[i].at = "ELSEWHERE"
      /\ \A k \in DOMAIN db.items : /\ db'.items[k].op = db.items[k].op
                                    /\ db'.items[k].key = db.items[k].key
                                    /\ db'.items[k].size = db.items[k].size
  BY <1>3, <1>4
<1>6. SameRows(db, db')
  BY <1>2, <1>4, <1>5 DEF SameRows
<1>7. \A bag \in Bags : In(db', bag) \subseteq In(db, bag)
  BY <1>4, <1>5 DEF In, Bags
<1>8. Accounted(db')
  BY <1>1, <1>2, <1>4, <1>5, <1>6, <1>7, LossAccounted
<1> QED
  BY <1>2, <1>8, OutsideBooks DEF TakeOut

\* The invariant is inductive.
LEMMA NextBookInv == BookInv /\ [Next]_vars => BookInv'
<1> SUFFICES ASSUME BookInv, [Next]_vars PROVE BookInv'
  OBVIOUS
<1>1. IInv'
  BY NextIInv DEF BookInv
<1>2. CASE UNCHANGED vars
  BY <1>1, <1>2 DEF vars, BookInv, Books
<1>3. ASSUME NEW s \in Sessions, Step(s) PROVE Books'
  <2>1. CASE Refuse(s) \/ Answer(s)
    BY <2>1, LeaveBooks DEF Refuse, Answer
  <2> QED
    BY <1>3, <2>1, CommitBooks, LockBooks, LegBooks, ReplayBooks DEF Step
<1>4. ASSUME NEW s \in Sessions, Begin(s) \/ Save(s) \/ RollBack(s) PROVE Books'
  <2>1. CASE RollBack(s)
    BY <2>1, LeaveBooks DEF RollBack
  <2> QED
    BY <1>4, <2>1, CommitBooks, BeginBooks
<1>5. ASSUME Next PROVE Books'
  <2>1. CASE \E s \in Sessions : Begin(s) \/ Step(s) \/ Save(s) \/ RollBack(s)
    <3>1. PICK s \in Sessions : Begin(s) \/ Step(s) \/ Save(s) \/ RollBack(s)
      BY <2>1, Zenon
    <3> QED
      BY <3>1, <1>3, <1>4, Zenon
  <2>2. CASE \E i \in DOMAIN db.items : TakeOut(i)
    BY <2>2, TakeOutBooks, Zenon
  <2>3. CASE \E status \in {"ACTIVE", "FROZEN"} : SetStatus(status)
    <3>1. PICK status \in {"ACTIVE", "FROZEN"} : SetStatus(status)
      BY <2>3, Zenon
    <3> QED
      BY <3>1, StatusBooks, Zenon
  <2> QED
    BY <1>5, <2>1, <2>2, <2>3, Zenon DEF Next
<1> QED
  BY <1>1, <1>2, <1>5, Zenon DEF BookInv

\* The rows that are committed, and those at work, are accounted for in every
\* reachable state.
THEOREM RowsAccounted == Spec => []BookInv
<1>1. Init => BookInv
  BY InitIInv, InitBooks DEF BookInv
<1> QED
  BY <1>1, NextBookInv, PTL DEF Spec

\* The stacks are what the audit rows of deliveries, consumptions and reservations
\* say, and none is negative.
THEOREM StacksAgree == Spec => []StacksBalance
<1>1. BookInv => StacksBalance
  <2> SUFFICES ASSUME Balanced(db), NEW d \in Defs
               PROVE  /\ db.stack[d] >= 0
                      /\ db.stack[d] + SumFunction([e \in db.log |-> Taken(e, d)])
                           = Initial[d] + SumFunction([e \in db.log |-> Put(e, d)])
    BY DEF StacksBalance, BookInv, Books, Accounted
  <2> DEFINE took == [e \in db.log |-> Taken(e, d)]
             put == [e \in db.log |-> Put(e, d)]
  <2>1. db.log \subseteq LogRow /\ IsFiniteSet(db.log) /\ db.stack[d] \in Nat
    BY DEF Balanced
  <2>2. \A e \in db.log : /\ TakenOf(d)[e] \in Int /\ took[e] = TakenOf(d)[e]
                          /\ PutOf(d)[e] \in Int /\ put[e] = PutOf(d)[e]
    BY <2>1, EntryAmounts
  <2>3. SumFunction(took) = SumFunctionOnSet(took, db.log)
        /\ SumFunction(put) = SumFunctionOnSet(put, db.log)
    BY DEF SumFunction
  <2> HIDE DEF took, put
  <2>4. SumFunctionOnSet(took, db.log) = SumFunctionOnSet(TakenOf(d), db.log)
    BY <2>1, <2>2, SumSame
  <2>5. SumFunctionOnSet(put, db.log) = SumFunctionOnSet(PutOf(d), db.log)
    BY <2>1, <2>2, SumSame
  <2>6. db.stack[d] + SumFunctionOnSet(TakenOf(d), db.log)
          = Initial[d] + SumFunctionOnSet(PutOf(d), db.log)
    BY DEF Balanced
  <2>7. /\ db.stack[d] >= 0
        /\ db.stack[d] + SumFunction(took) = Initial[d] + SumFunction(put)
    BY <2>1, <2>3, <2>4, <2>5, <2>6
  <2> QED
    BY <2>7 DEF took, put
<1> QED
  BY <1>1, RowsAccounted, PTL

\* No bag ever holds more than the player's level allows.
THEOREM BagsFit == Spec => []WithinCapacity
<1>1. BookInv => WithinCapacity
  BY DEF BookInv, Books, Accounted, Fits, WithinCapacity
<1> QED
  BY <1>1, RowsAccounted, PTL

\* Every event of an item has its item and every overflow its one row.
THEOREM EventsAreKept == Spec => []EventsAccountForItems
<1>1. BookInv => EventsAccountForItems
  <2> SUFFICES ASSUME Booked(db) PROVE EventsAccountForItems
    BY DEF BookInv, Books, Accounted
  <2>1. ASSUME NEW entry \in db.log, entry.leg.kind \in InstanceKinds
        PROVE  Cardinality({i \in DOMAIN db.items : db.items[i].op = entry.op
                                /\ db.items[i].key = entry.leg.key}) = 1
    <3>1. PICK i \in DOMAIN db.items : /\ db.items[i].op = entry.op
                                       /\ db.items[i].key = entry.leg.key
      BY <2>1 DEF Booked, ItemsOf
    <3>2. {k \in DOMAIN db.items : db.items[k].op = entry.op
               /\ db.items[k].key = entry.leg.key} = {i}
      BY <3>1 DEF Booked, ItemsOf
    <3> QED
      BY <3>2, FS_Singleton
  <2>2. \A entry \in db.log : entry.leg.kind \in InstanceKinds =>
           (entry.overflow <=> \E j \in DOMAIN db.pending :
              db.pending[j].op = entry.op /\ db.pending[j].key = entry.leg.key)
    BY DEF Booked, RowsOf
  <2>3. \A entry \in db.log : entry.leg.kind = "DELIVER" =>
           (entry.overflow <=> \E j \in DOMAIN db.owed :
              db.owed[j] = [op |-> entry.op, leg |-> entry.leg])
    BY DEF Booked, OwedOf
  <2>4. /\ \A i \in DOMAIN db.items : \E entry \in db.log :
              entry.op = db.items[i].op /\ entry.leg.key = db.items[i].key
        /\ \A i, j \in DOMAIN db.owed : db.owed[i] = db.owed[j] => i = j
    BY DEF Booked, ItemsOf, OwedOf
  <2> QED
    BY <2>1, <2>2, <2>3, <2>4 DEF EventsAccountForItems
<1> QED
  BY <1>1, RowsAccounted, PTL

---------------------------------------------------------------------------
(* Claims in order.                                                        *)

\* From old to w no row was claimed before an earlier row of its bag.
InOrder(old, w) ==
    /\ DOMAIN old.pending \subseteq DOMAIN w.pending
    /\ \A j \in DOMAIN old.pending : /\ w.pending[j].created = old.pending[j].created
                                     /\ w.pending[j].bag = old.pending[j].bag
    /\ \A bag \in Bags : \A i, j \in Waiting(old, bag) :
          Before(old, i, j) /\ w.pending[j].state = "CLAIMED" => w.pending[i].state = "CLAIMED"

Orderly == \A s \in Sessions : HasPlayer(s) => InOrder(db, tx[s].work)

OrderInv == BookInv /\ Orderly

\* A row that can be claimed leaves no earlier one behind: with less before it, it
\* fits too.
LEMMA ClaimableDown ==
    ASSUME NEW w, Sound(w), Balanced(w), NEW bag \in Bags,
           NEW j \in Claimable(w, bag), NEW i \in Waiting(w, bag), Before(w, i, j)
    PROVE  i \in Claimable(w, bag)
<1> DEFINE UpTo(k) == {l \in Waiting(w, bag) : l = k \/ Before(w, l, k)}
           S == Items(w, UpTo(j))
           T == Items(w, UpTo(i))
<1>1. /\ w.items \in Seq(ItemRow) /\ w.stack \in [Defs -> Nat]
      /\ w.pending \in Seq(PendingRow)
      /\ \A k \in DOMAIN w.pending : w.pending[k].item \in DOMAIN w.items
  BY DEF Sound, Shape, Balanced, Linked
<1>2. /\ j \in Waiting(w, bag) /\ Used(w, bag) + SizeOf(w, S) <= Capacity(bag)
  BY DEF Claimable
<1>3. \A k \in Waiting(w, bag) : k \in Nat /\ w.pending[k].created \in Nat
  <2> SUFFICES ASSUME NEW k \in Waiting(w, bag)
               PROVE  k \in Nat /\ w.pending[k].created \in Nat
    OBVIOUS
  <2>1. k \in DOMAIN w.pending
    BY DEF Waiting
  <2>2. w.pending[k] \in PendingRow /\ k \in Nat
    BY <1>1, <2>1
  <2> QED
    BY <2>2 DEF PendingRow
<1>4. UpTo(i) \subseteq UpTo(j)
  BY <1>2, <1>3 DEF Before
<1>5. S \in SUBSET DOMAIN w.items /\ T \in SUBSET S /\ T \subseteq DOMAIN w.items
  BY <1>1, <1>4 DEF Items, Waiting
<1> HIDE DEF S, T
<1>6. \A k \in T : w.items[k].size = w.items[k].size
  OBVIOUS
<1>7. SizeOf(w, T) <= SizeOf(w, S)
  BY <1>1, <1>5, <1>6, SizeLess
<1>8. /\ SizeOf(w, S) \in Nat /\ Used(w, bag) \in Int /\ Capacity(bag) \in Int
  BY <1>1, <1>5, SizeSums, UsedFacts
<1>9. T \in SUBSET DOMAIN w.items
  BY <1>5
<1>10. SizeOf(w, T) \in Nat
  BY <1>1, <1>9, SizeSums
<1>11. Used(w, bag) + SizeOf(w, T) <= Capacity(bag)
  BY <1>2, <1>7, <1>8, <1>10
<1> QED
  BY <1>11 DEF T, Claimable

\* Every leg keeps the order.
LEMMA SamePendingOrder ==
    ASSUME NEW old, NEW w, InOrder(old, w), NEW new, new.pending = w.pending
    PROVE  InOrder(old, new)
BY DEF InOrder

\* A new instance joins the end of its bag's queue.
LEMMA MintOrder ==
    ASSUME NEW old, NEW w, InOrder(old, w), Sound(w), NEW o, NEW leg, NEW began
    PROVE  InOrder(old, Minted(w, o, leg, began))
<1> DEFINE fits == Used(w, leg.bag) + leg.size <= Capacity(leg.bag)
           row == [op |-> o, key |-> leg.key, item |-> Len(w.items) + 1, bag |-> leg.bag,
                   state |-> "PENDING", created |-> began]
           new == Minted(w, o, leg, began)
<1>1. new.pending = IF fits THEN w.pending ELSE Append(w.pending, row)
  BY DEF Minted, Sound, Shape
<1>2. w.pending \in Seq(PendingRow)
  BY DEF Sound, Shape
<1> HIDE DEF new, fits, row
<1>3. /\ DOMAIN w.pending \subseteq DOMAIN new.pending
      /\ \A j \in DOMAIN w.pending : new.pending[j] = w.pending[j]
  BY <1>1, <1>2
<1>4. \A bag \in Bags : Waiting(old, bag) \subseteq DOMAIN old.pending
  BY DEF Waiting
<1>5. InOrder(old, new)
  BY <1>3, <1>4 DEF InOrder
<1> QED
  BY <1>5 DEF new

\* A claim serves the queue of its bag from the front.
LEMMA ClaimOrder ==
    ASSUME NEW old, NEW w, InOrder(old, w), Sound(w), Balanced(w),
           NEW o \in Ops, NEW leg, leg.bag \in Bags
    PROVE  InOrder(old, Claimed(w, o, leg))
<1> DEFINE rows == Claimable(w, leg.bag)
           new == Claimed(w, o, leg)
<1>1. w.pending \in Seq(PendingRow)
  BY DEF Sound, Shape
<1>2. \A j \in DOMAIN w.pending : w.pending[j] \in PendingRow
  BY <1>1
<1>3. new.pending = [j \in DOMAIN w.pending |-> IF j \in rows
                        THEN [w.pending[j] EXCEPT !.state = "CLAIMED"] ELSE w.pending[j]]
  <2> HIDE DEF rows
  <2> QED
    BY DEF Claimed, rows, Sound, Shape
<1>4. rows \subseteq Waiting(w, leg.bag)
  BY DEF Claimable
<1> HIDE DEF rows, new
<1>5. /\ DOMAIN new.pending = DOMAIN w.pending
      /\ \A j \in DOMAIN w.pending :
            /\ new.pending[j].created = w.pending[j].created
            /\ new.pending[j].bag = w.pending[j].bag
            /\ new.pending[j].state = IF j \in rows THEN "CLAIMED" ELSE w.pending[j].state
  BY <1>2, <1>3 DEF PendingRow
<1>6. ASSUME NEW bag \in Bags, NEW i \in Waiting(old, bag), NEW j \in Waiting(old, bag),
             Before(old, i, j), new.pending[j].state = "CLAIMED"
      PROVE  new.pending[i].state = "CLAIMED"
  <2>1. i \in DOMAIN w.pending /\ j \in DOMAIN w.pending
        /\ i \in DOMAIN old.pending /\ j \in DOMAIN old.pending
    BY DEF Waiting, InOrder
  <2>2. CASE w.pending[j].state = "CLAIMED"
    <3>1. w.pending[i].state = "CLAIMED"
      BY <1>6, <2>2 DEF InOrder
    <3> QED
      BY <1>5, <2>1, <3>1
  <2>3. CASE w.pending[j].state # "CLAIMED"
    <3>1. j \in rows
      BY <1>5, <1>6, <2>1, <2>3
    <3>2. bag = leg.bag
      BY <1>4, <2>1, <3>1 DEF Waiting, InOrder
    <3>3. CASE w.pending[i].state = "CLAIMED"
      BY <1>5, <2>1, <3>3
    <3>4. CASE w.pending[i].state # "CLAIMED"
      <4>1. w.pending[i].state = "PENDING"
        BY <1>2, <2>1, <3>4 DEF PendingRow
      <4>2. w.pending[i].bag = leg.bag
        BY <2>1, <3>2 DEF InOrder, Waiting
      <4>3. i \in Waiting(w, leg.bag)
        BY <2>1, <4>1, <4>2 DEF Waiting
      <4>4. Before(w, i, j)
        BY <1>6, <2>1 DEF InOrder, Before
      <4>5. i \in rows
        BY <3>1, <4>3, <4>4, ClaimableDown DEF rows
      <4> QED
        BY <1>5, <2>1, <4>5
    <3> QED
      BY <3>3, <3>4
  <2> QED
    BY <2>2, <2>3
<1>7. /\ DOMAIN old.pending \subseteq DOMAIN new.pending
      /\ \A j \in DOMAIN old.pending : /\ new.pending[j].created = old.pending[j].created
                                       /\ new.pending[j].bag = old.pending[j].bag
  BY <1>5 DEF InOrder
<1>8. InOrder(old, new)
  BY <1>6, <1>7 DEF InOrder
<1> QED
  BY <1>8 DEF new

\* Rows are in order with themselves.
LEMMA OrderReflexive ==
    ASSUME NEW w PROVE InOrder(w, w)
BY DEF InOrder, Waiting

\* A session that has the player row has kept its copy or just taken it.
LEMMA MoveOrderly ==
    ASSUME OrderInv, NEW s \in Sessions, \A t \in Sessions \ {s} : tx'[t] = tx[t],
           tx'[s].phase = "LOCKED" =>
               \/ HasPlayer(s) /\ tx'[s].work = tx[s].work
               \/ tx'[s].work = db
               \/ InOrder(db, tx'[s].work),
           db' = db
    PROVE  Orderly'
<1> SUFFICES ASSUME NEW t \in Sessions, tx'[t].phase = "LOCKED"
             PROVE  InOrder(db, tx'[t].work)
  BY DEF Orderly, HasPlayer, InOrder, Waiting, Before
<1>1. CASE t = s
  BY <1>1, OrderReflexive DEF OrderInv, Orderly
<1>2. CASE t # s
  <2>1. tx'[t] = tx[t] /\ HasPlayer(t)
    BY <1>2 DEF HasPlayer
  <2> QED
    BY <2>1 DEF OrderInv, Orderly
<1> QED
  BY <1>1, <1>2

\* A leg that has not run keeps the order of its session's copy.
LEMMA LegOrderly ==
    ASSUME OrderInv, NEW s \in Sessions,
           \/ DeliverStack(s) \/ ConsumeStack(s) \/ DeliverUnique(s) \/ DeliverFish(s)
           \/ ClaimItems(s) \/ ClaimCatches(s) \/ Reserve(s) \/ Attach(s)
    PROVE  Orderly'
<1> DEFINE w == tx[s].work
           o == tx[s].op
           leg == Leg(s)
<1>1. ASSUME NEW kinds, Fresh(s, kinds)
      PROVE  /\ HasPlayer(s) /\ o \in Ops /\ Sound(w) /\ Balanced(w) /\ InOrder(db, w)
  <2>1. /\ HasPlayer(s) /\ o \in Ops /\ Sound(w) /\ Balanced(w)
    BY <1>1, FreshBooks DEF OrderInv, Accounted
  <2> QED
    BY <2>1 DEF OrderInv, Orderly
<1>2. ASSUME NEW new, Writes(s, new), InOrder(db, new) PROVE Orderly'
  <2>1. TxRow(tx[s]) /\ tx = [t \in Sessions |-> tx[t]]
    BY DEF OrderInv, BookInv, IInv, Typed
  <2>2. /\ Leaves(tx[s], tx'[s], new, Tail(tx[s].legs))
        /\ \A t \in Sessions \ {s} : tx'[t] = tx[t]
        /\ db' = db
    BY <1>2, <2>1 DEF Writes, Leaves
  <2>3. tx'[s].work = new
    BY <2>1, <2>2, WrittenRow
  <2>4. InOrder(db, tx'[s].work)
    BY <1>2, <2>3
  <2> QED
    BY <2>2, <2>4, MoveOrderly
<1> HIDE DEF w, o, leg
<1>3. ASSUME NEW kinds, Fresh(s, kinds), NEW new, Writes(s, new), new.pending = w.pending
      PROVE  Orderly'
  <2>1. InOrder(db, new)
    BY <1>1, <1>3, SamePendingOrder
  <2> QED
    BY <1>2, <1>3, <2>1
<1>4. CASE DeliverStack(s)
  <2>1. Fresh(s, StackKinds) /\ Writes(s, StackDelivered(w, o, leg))
    BY <1>4 DEF DeliverStack, w, o, leg
  <2>2. StackDelivered(w, o, leg).pending = w.pending
    <3>1. Sound(w)
      BY <1>1, <2>1
    <3>2. CASE StackFits(w, leg.def, leg.quantity)
      BY <3>1, <3>2 DEF StackDelivered, Sound, Shape
    <3>3. CASE ~ StackFits(w, leg.def, leg.quantity)
      BY <3>1, <3>3 DEF StackDelivered, Sound, Shape
    <3> QED
      BY <3>2, <3>3
  <2> QED
    BY <1>3, <2>1, <2>2
<1>5. CASE ConsumeStack(s)
  <2>1. Fresh(s, {"CONSUME"}) /\ Writes(s, Consumed(w, o, leg))
    BY <1>5 DEF ConsumeStack, w, o, leg
  <2>2. Consumed(w, o, leg).pending = w.pending
    BY <1>1, <2>1 DEF Consumed, Sound, Shape
  <2> QED
    BY <1>3, <2>1, <2>2
<1>6. CASE DeliverUnique(s) \/ DeliverFish(s)
  <2>1. /\ Fresh(s, {"UNIQUE"}) \/ Fresh(s, {"FISH"})
        /\ Writes(s, Minted(w, o, leg, tx[s].began))
    BY <1>6 DEF DeliverUnique, DeliverFish, w, o, leg
  <2>2. Sound(w) /\ InOrder(db, w)
    BY <1>1, <2>1
  <2>3. InOrder(db, Minted(w, o, leg, tx[s].began))
    BY <2>2, MintOrder
  <2> QED
    BY <1>2, <2>1, <2>3
<1>7. CASE ClaimItems(s) \/ ClaimCatches(s)
  <2>1. /\ Fresh(s, {"CLAIM"}) /\ leg.bag \in Bags /\ Writes(s, Claimed(w, o, leg))
    BY <1>7 DEF ClaimItems, ClaimCatches, Bags, w, o, leg
  <2>2. Sound(w) /\ InOrder(db, w) /\ Balanced(w) /\ o \in Ops
    BY <1>1, <2>1
  <2>3. InOrder(db, Claimed(w, o, leg))
    BY <2>1, <2>2, ClaimOrder
  <2> QED
    BY <1>2, <2>1, <2>3
<1>8. CASE Reserve(s)
  <2>1. Fresh(s, {"RESERVE"}) /\ Writes(s, Reserved(w, o, leg))
    BY <1>8 DEF Reserve, w, o, leg
  <2>2. Reserved(w, o, leg).pending = w.pending
    BY <1>1, <2>1 DEF Reserved, Sound, Shape
  <2> QED
    BY <1>3, <2>1, <2>2
<1>9. CASE Attach(s)
  <2>1. Fresh(s, {"ATTACH"}) /\ Writes(s, Attached(w, o, leg))
    BY <1>9 DEF Attach, w, o, leg
  <2>2. Attached(w, o, leg).pending = w.pending
    BY <1>1, <2>1 DEF Attached, Sound, Shape
  <2> QED
    BY <1>3, <2>1, <2>2
<1> QED
  BY <1>4, <1>5, <1>6, <1>7, <1>8, <1>9

\* The other actions of a session move on without writing to its copy, or leave.
LEMMA OtherOrderly ==
    ASSUME OrderInv, NEW s \in Sessions,
           \/ Begin(s) \/ LockOperation(s) \/ LockPlayer(s) \/ Replay(s)
           \/ Leave(s) /\ db' = db
    PROVE  Orderly'
<1>1. TxRow(tx[s]) /\ tx = [t \in Sessions |-> tx[t]]
  BY DEF OrderInv, BookInv, IInv, Typed
<1>2. CASE Leave(s) /\ db' = db
  <2>1. tx'[s] = Idle /\ (\A t \in Sessions \ {s} : tx'[t] = tx[t]) /\ db' = db
    BY <1>1, <1>2 DEF Leave
  <2>2. tx'[s].phase # "LOCKED"
    BY <2>1 DEF Idle
  <2> QED
    BY <2>1, <2>2, MoveOrderly
<1>3. CASE Begin(s)
  <2>1. PICK r : tx' = [tx EXCEPT ![s] = r] /\ r.phase = "WAITING"
    <3> DEFINE made(o, plan) == [phase |-> "WAITING", op |-> o, legs |-> plan,
                                 work |-> Empty, began |-> begun + 1]
    <3>1. PICK o \in Ops : \E plan \in Plans[o] : tx' = [tx EXCEPT ![s] = made(o, plan)]
      BY <1>3, Zenon DEF Begin
    <3>2. PICK plan \in Plans[o] : tx' = [tx EXCEPT ![s] = made(o, plan)]
      BY <3>1, Zenon
    <3>3. made(o, plan).phase = "WAITING"
      OBVIOUS
    <3> HIDE DEF made
    <3> QED
      BY <3>2, <3>3, Zenon
  <2>2. tx'[s].phase # "LOCKED" /\ \A t \in Sessions \ {s} : tx'[t] = tx[t]
    BY <1>1, <2>1
  <2> QED
    BY <1>3, <2>2, MoveOrderly DEF Begin
<1>4. CASE LockOperation(s)
  <2>1. tx' = [tx EXCEPT ![s] = [tx[s] EXCEPT !.phase = "OPEN"]]
    BY <1>1, <1>4 DEF LockOperation
  <2>2. Opens(tx[s], tx'[s]) /\ \A t \in Sessions \ {s} : tx'[t] = tx[t]
    BY <1>1, <2>1 DEF Opens
  <2>3. tx'[s].phase # "LOCKED"
    BY <1>1, <2>2, OpenedRow
  <2> QED
    BY <1>4, <2>2, <2>3, MoveOrderly DEF LockOperation
<1>5. CASE LockPlayer(s)
  <2>1. tx' = [tx EXCEPT ![s] = [tx[s] EXCEPT !.phase = "LOCKED", !.work = db]]
    BY <1>1, <1>5 DEF LockPlayer
  <2>2. Locks(tx[s], tx'[s], db) /\ \A t \in Sessions \ {s} : tx'[t] = tx[t]
    BY <1>1, <2>1 DEF Locks
  <2>3. tx'[s].work = db
    BY <1>1, <2>2, LockedRow
  <2> QED
    BY <1>5, <2>2, <2>3, MoveOrderly DEF LockPlayer
<1>6. CASE Replay(s)
  <2>1. tx' = [tx EXCEPT ![s] = [tx[s] EXCEPT !.legs = Tail(tx[s].legs)]]
    BY <1>1, <1>6 DEF Replay
  <2>2. /\ Skips(tx[s], tx'[s], Tail(tx[s].legs))
        /\ \A t \in Sessions \ {s} : tx'[t] = tx[t]
    BY <1>1, <2>1 DEF Skips
  <2>3. tx'[s].work = tx[s].work /\ tx'[s].phase = tx[s].phase
    BY <1>1, <2>2, ReplayedRow
  <2> QED
    BY <1>6, <2>2, <2>3, MoveOrderly DEF Replay, HasPlayer
<1> QED
  BY <1>2, <1>3, <1>4, <1>5, <1>6

\* What a transaction commits has overtaken no row that was waiting.
LEMMA CommitOrderly ==
    ASSUME OrderInv, NEW s \in Sessions, Finish(s) \/ Save(s) PROVE Orderly'
<1>1. /\ tx'[s] = Idle /\ \A t \in Sessions \ {s} : tx'[t] = tx[t]
  BY DEF Finish, Save, Leave, OrderInv, BookInv, IInv, Typed
<1>2. CASE HasPlayer(s)
  <2>1. \A t \in Sessions : tx'[t].phase # "LOCKED"
    BY <1>1, <1>2 DEF Idle, OrderInv, BookInv, IInv, Exclusive, HasPlayer
  <2> QED
    BY <2>1 DEF Orderly, HasPlayer
<1>3. CASE ~ HasPlayer(s)
  <2>1. db' = db /\ Leave(s)
    BY <1>3 DEF Finish, Save, Sees
  <2> QED
    BY <2>1, OtherOrderly
<1> QED
  BY <1>2, <1>3

\* Every step keeps the copies in order.
LEMMA NextOrderInv == OrderInv /\ [Next]_vars => OrderInv'
<1> SUFFICES ASSUME OrderInv, [Next]_vars PROVE OrderInv'
  OBVIOUS
<1>1. BookInv'
  BY NextBookInv DEF OrderInv
<1>2. CASE UNCHANGED vars
  BY <1>1, <1>2 DEF vars, OrderInv, Orderly, HasPlayer
<1>3. ASSUME NEW s \in Sessions, Step(s) PROVE Orderly'
  <2>1. CASE Refuse(s) \/ Answer(s)
    BY <2>1, OtherOrderly DEF Refuse, Answer
  <2> QED
    BY <1>3, <2>1, OtherOrderly, LegOrderly, CommitOrderly DEF Step
<1>4. ASSUME NEW s \in Sessions, Begin(s) \/ Save(s) \/ RollBack(s) PROVE Orderly'
  <2>1. CASE RollBack(s)
    BY <2>1, OtherOrderly DEF RollBack
  <2> QED
    BY <1>4, <2>1, OtherOrderly, CommitOrderly
<1>5. ASSUME PlayerFree, tx' = tx PROVE Orderly'
  BY <1>5 DEF Orderly, PlayerFree, HasPlayer
<1>6. ASSUME Next PROVE Orderly'
  <2>1. CASE \E s \in Sessions : Begin(s) \/ Step(s) \/ Save(s) \/ RollBack(s)
    <3>1. PICK s \in Sessions : Begin(s) \/ Step(s) \/ Save(s) \/ RollBack(s)
      BY <2>1, Zenon
    <3> QED
      BY <3>1, <1>3, <1>4, Zenon
  <2>2. ASSUME NEW i \in DOMAIN db.items, TakeOut(i) PROVE Orderly'
    BY <1>5, <2>2 DEF TakeOut
  <2>3. ASSUME NEW status, SetStatus(status) PROVE Orderly'
    BY <1>5, <2>3 DEF SetStatus
  <2> QED
    BY <1>6, <2>1, <2>2, <2>3, Zenon DEF Next
<1> QED
  BY <1>1, <1>2, <1>6, Zenon DEF OrderInv

\* A claim never lets an item into a bag before one whose row was created earlier.
THEOREM ClaimsInOrder == Spec => NoOvertaking
<1>1. Init => OrderInv
  <2>1. Init => BookInv
    BY InitIInv, InitBooks DEF BookInv
  <2>2. Init => Orderly
    BY DEF Init, Orderly, HasPlayer, Idle
  <2> QED
    BY <2>1, <2>2 DEF OrderInv
<1>2. OrderInv /\ [Next]_vars =>
        \A bag \in Bags : \A i, j \in Waiting(db, bag) :
           Before(db, i, j) /\ db'.pending[j].state = "CLAIMED"
               => db'.pending[i].state = "CLAIMED"
  <2> SUFFICES ASSUME OrderInv, [Next]_vars
               PROVE  InOrder(db, db')
    BY DEF InOrder
  <2>1. CASE db' = db
    BY <2>1, OrderReflexive
  <2>2. ASSUME NEW s \in Sessions, HasPlayer(s), db' = tx[s].work
        PROVE  InOrder(db, db')
    BY <2>2 DEF OrderInv, Orderly
  <2>3. Sound(db)
    BY DEF OrderInv, BookInv, IInv, Typed
  <2>4. ASSUME db'.pending = db.pending PROVE InOrder(db, db')
    BY <2>4, OrderReflexive, SamePendingOrder
  <2>5. ASSUME NEW i \in DOMAIN db.items, TakeOut(i) PROVE db'.pending = db.pending
    BY <2>3, <2>5 DEF TakeOut, Sound, Shape
  <2>6. ASSUME NEW status, SetStatus(status) PROVE db'.pending = db.pending
    BY <2>3, <2>6 DEF SetStatus, Sound, Shape
  <2> QED
    BY <2>1, <2>2, <2>4, <2>5, <2>6, DbSteps DEF OrderInv, BookInv
<1> QED
  BY <1>1, <1>2, NextOrderInv, PTL DEF Spec, NoOvertaking
=============================================================================
