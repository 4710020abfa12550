------------------------------- MODULE FishingCast -------------------------------
(***************************************************************************)
(* Manual fishing casts of one player by concurrent transactions.          *)
(* Source: commit_supported_manual_fishing_cast_request_v1 and what it     *)
(* calls: the keyed operation, the preflight, the bait settlement, the     *)
(* staging of the route's outcome and its terminal.                        *)
(*                                                                         *)
(* A request has a key and an area.  Its transaction finds or inserts the  *)
(* operation row of the key, which pins the root of all draws, and holds   *)
(* it; then it takes the player row and works on a copy of the player's    *)
(* rows that is seen when it commits.  An error or a lost connection at    *)
(* any step drops the transaction, an inserted operation row included.     *)
(*                                                                         *)
(* The parts are public: a caller may also commit the operation row alone, *)
(* or with the settled baits, and cast later.                              *)
(***************************************************************************)
EXTENDS FishingRules, SequencesExt

CONSTANTS Keys,         \* external request keys
          Places,       \* the areas asked for
          RodRows,      \* the player's rods at the start, a function on their names
          Roots,        \* what the draws of an operation may give
          Selections,   \* the bait selections the player may make
          Levels,       \* account levels the player may have
          MaxRebirths,  \* bound on the Rebirths of the player
          Sessions,
          MaxBegun,     \* bound on the transactions begun
          None

ASSUME PlacesAssumption == Places \subseteq Areas
ASSUME DefsAssumption == Baits \cup {"ORE", "JUNK"} \subseteq Defs
ASSUME RodsAssumption == /\ RodRows = [r \in DOMAIN RodRows |-> RodRows[r]]
                         /\ \A r \in DOMAIN RodRows : IsRod(RodRows[r])
ASSUME RootsAssumption == \A root \in Roots : IsRoot(root)
ASSUME SelectionsAssumption == Selections \subseteq SUBSET Baits
ASSUME BoundAssumption == MaxBegun \in Nat

RodNames == DOMAIN RodRows

VARIABLES db,         \* the player's committed rows
          operation,  \* the committed operation row of each key
          tx,         \* the transaction of each session
          told,       \* the receipts that callers have been given
          begun       \* transactions begun so far, their now()

vars == <<db, operation, tx, told, begun>>

Rows(r) == [status |-> "ACTIVE", stack |-> Initial, items |-> <<>>, pending |-> <<>>,
            owed |-> <<>>, log |-> {}, rods |-> RodRows, equipped |-> r,
            selection |-> {}, unlocked |-> {}, level |-> 1, rebirths |-> 0]
Idle == [phase |-> "IDLE", key |-> None, area |-> None, row |-> None, work |-> None,
         cast |-> None, legs |-> <<>>, began |-> 0]

Init ==
    /\ db \in {Rows(r) : r \in RodNames}
    /\ operation = [k \in Keys |-> NoRow]
    /\ tx = [s \in Sessions |-> Idle]
    /\ told = {}
    /\ begun = 0

Inserted(area, root) == [state |-> "PENDING", area |-> area, root |-> root, receipt |-> None]

HasRow(s) == tx[s].phase \notin {"IDLE", "WAITING"}
HasPlayer(s) == tx[s].phase \in {"LOCKED", "BAITED", "STAGING", "LANDED", "WORN"}
PlayerFree == \A s \in Sessions : ~ HasPlayer(s)

\* FOR UPDATE on the key's row, or the wait for an insertion of the same key.
RowFree(s) == \A t \in Sessions : HasRow(t) => tx[t].key # tx[s].key

Leave(s) == tx' = [tx EXCEPT ![s] = Idle] /\ UNCHANGED begun

---------------------------------------------------------------------------
(* The operation.                                                          *)

Begin(s) ==
    /\ tx[s].phase = "IDLE"
    /\ begun < MaxBegun
    /\ begun' = begun + 1
    /\ \E k \in Keys : \E area \in Places :
           tx' = [tx EXCEPT ![s] = [Idle EXCEPT !.phase = "WAITING", !.key = k, !.area = area,
                                                !.began = begun + 1]]
    /\ UNCHANGED <<db, operation, told>>

Resolve(s) ==
    /\ tx[s].phase = "WAITING"
    /\ RowFree(s)
    /\ \E row \in IF operation[tx[s].key] # NoRow THEN {operation[tx[s].key]}
                  ELSE {Inserted(tx[s].area, root) : root \in Roots} :
           tx' = [tx EXCEPT ![s].phase = "OPEN", ![s].row = row]
    /\ UNCHANGED <<db, operation, told, begun>>

\* Mistaken: the row's area is not compared.
IsAlwaysOfRequest(s) == TRUE

\* The request hash of the row is the request's.
IsOfRequest(s) == tx[s].row.area = tx[s].area

\* A COMMITTED row's typed receipt answers, whatever the account has become.
Answer(s) ==
    /\ tx[s].phase = "OPEN"
    /\ IsOfRequest(s) /\ tx[s].row.state = "COMMITTED"
    /\ told' = told \cup {[key |-> tx[s].key, area |-> tx[s].area, receipt |-> tx[s].row.receipt]}
    /\ Leave(s)
    /\ UNCHANGED <<db, operation>>

---------------------------------------------------------------------------
(* Preflight and baits.                                                    *)

Castable(s) == tx[s].phase = "OPEN" /\ IsOfRequest(s) /\ tx[s].row.state = "PENDING"

IsActive(w) == w.status = "ACTIVE"

CastOf(w, area) == [name |-> w.equipped, rod |-> Rod(w), area |-> area, plan |-> None]

Preflight(s) ==
    /\ Castable(s)
    /\ PlayerFree
    /\ IsActive(db) /\ MayFish(db, tx[s].area)
    /\ tx' = [tx EXCEPT ![s].phase = "LOCKED",
                        ![s].work = Entered(db, tx[s].key, tx[s].area),
                        ![s].cast = CastOf(db, tx[s].area)]
    /\ UNCHANGED <<db, operation, told, begun>>

\* Mistaken: a settlement of the operation is not looked up.
NeverSettled(w, o) == {}

\* The settlement an earlier transaction of the operation has committed.
Settlement(w, o) == {entry \in w.log : entry.op = o /\ entry.leg.kind = "BAITS"}

\* It is answered from its event, whatever is selected or equipped by now.
SettleBaits(s) ==
    LET w == tx[s].work
        settled == Settlement(w, tx[s].key)
        plan == IF settled # {} THEN (CHOOSE e \in settled : TRUE).leg.plan ELSE BaitPlan(w)
    IN  /\ tx[s].phase = "LOCKED"
        /\ settled # {} \/ MayBait(w)
        /\ tx' = [tx EXCEPT ![s].phase = "BAITED",
                            ![s].work = IF settled # {} THEN w ELSE Baited(w, tx[s].key),
                            ![s].cast.plan = plan]
        /\ UNCHANGED <<db, operation, told, begun>>

---------------------------------------------------------------------------
(* The outcome of the route, leg by leg, and its terminal.                 *)

OutcomeFor(s) == OutcomeOf(RouteOf(tx[s].cast), tx[s].cast, tx[s].row.root)
ReceiptFor(s) == ReceiptOf(RouteOf(tx[s].cast), tx[s].cast, OutcomeFor(s))

Ends(c, root) == Supported(c) /\ OutcomeOf(RouteOf(c), c, root).kind # "PENDING"

Select(s) ==
    /\ tx[s].phase = "BAITED"
    /\ Ends(tx[s].cast, tx[s].row.root)
    /\ tx' = [tx EXCEPT ![s].phase = "STAGING", ![s].legs = LegsOf(OutcomeFor(s), tx[s].row.root)]
    /\ UNCHANGED <<db, operation, told, begun>>

Deliver(s) ==
    LET leg == Head(tx[s].legs)
    IN  /\ tx[s].phase = "STAGING" /\ tx[s].legs # <<>>
        /\ MayDeliver(tx[s].work, tx[s].key, leg)
        /\ tx' = [tx EXCEPT ![s].work = Delivered(@, tx[s].key, leg, tx[s].began),
                            ![s].legs = Tail(@)]
        /\ UNCHANGED <<db, operation, told, begun>>

Progress(s) ==
    /\ tx[s].phase = "STAGING" /\ tx[s].legs = <<>>
    /\ tx' = [tx EXCEPT ![s].phase = "LANDED",
                        ![s].work = Progressed(@, tx[s].key, OutcomeFor(s))]
    /\ UNCHANGED <<db, operation, told, begun>>

\* The Starter Basic rod has no durability.
Wears(c) == Ordinary(c.rod)

Wear(s) ==
    LET c == tx[s].cast
    IN  /\ tx[s].phase = "LANDED"
        /\ Wears(c) => MayWear(tx[s].work, c)
        /\ tx' = [tx EXCEPT ![s].phase = "WORN",
                            ![s].work = IF Wears(c) THEN Worn(@, tx[s].key, c, OutcomeFor(s).wear)
                                        ELSE @]
        /\ UNCHANGED <<db, operation, told, begun>>

Committed(row, receipt) == [row EXCEPT !.state = "COMMITTED", !.receipt = receipt]

\* Mistaken: the terminal commits what is staged so far.
TerminalTooSoon(s) == tx[s].phase \in {"LANDED", "WORN"}

\* Everything the receipt names has been staged.
TerminalReached(s) == tx[s].phase = "WORN"

Commit(s) ==
    /\ TerminalReached(s)
    /\ Checks(ReceiptFor(s))
    /\ db' = tx[s].work
    /\ operation' = [operation EXCEPT ![tx[s].key] = Committed(tx[s].row, ReceiptFor(s))]
    /\ told' = told \cup {[key |-> tx[s].key, area |-> tx[s].area, receipt |-> ReceiptFor(s)]}
    /\ Leave(s)

---------------------------------------------------------------------------
(* The other ends of a transaction.                                        *)

\* The error returns, in the order of the steps.
Hopeless(s) ==
    \/ tx[s].phase = "OPEN" /\ ~ IsOfRequest(s)
    \/ Castable(s) /\ PlayerFree /\ ~ (IsActive(db) /\ MayFish(db, tx[s].area))
    \/ tx[s].phase = "LOCKED" /\ Settlement(tx[s].work, tx[s].key) = {} /\ ~ MayBait(tx[s].work)
    \/ tx[s].phase = "BAITED" /\ ~ Ends(tx[s].cast, tx[s].row.root)
    \/ /\ tx[s].phase = "STAGING" /\ tx[s].legs # <<>>
       /\ ~ MayDeliver(tx[s].work, tx[s].key, Head(tx[s].legs))
    \/ tx[s].phase = "LANDED" /\ Wears(tx[s].cast) /\ ~ MayWear(tx[s].work, tx[s].cast)
    \/ TerminalReached(s) /\ ~ Checks(ReceiptFor(s))

Refuse(s) ==
    /\ Hopeless(s)
    /\ Leave(s)
    /\ UNCHANGED <<db, operation, told>>

RollBack(s) ==
    /\ tx[s].phase # "IDLE"
    /\ Leave(s)
    /\ UNCHANGED <<db, operation, told>>

SaveRow(s) ==
    /\ Castable(s)
    /\ operation' = [operation EXCEPT ![tx[s].key] = tx[s].row]
    /\ Leave(s)
    /\ UNCHANGED <<db, told>>

SaveBaits(s) ==
    /\ tx[s].phase = "BAITED"
    /\ db' = tx[s].work
    /\ operation' = [operation EXCEPT ![tx[s].key] = tx[s].row]
    /\ Leave(s)
    /\ UNCHANGED told

---------------------------------------------------------------------------
(* What else happens to the player's rows, with the player row locked.     *)

Elsewhere(w) == PlayerFree /\ db' = w /\ UNCHANGED <<operation, tx, told, begun>>

Equip(r) == IsActive(db) /\ db.equipped # r /\ Elsewhere([db EXCEPT !.equipped = r])

ReplaceBaits(S) ==
    /\ IsActive(db) /\ db.selection # S
    /\ Cardinality(S) <= BaitRoom(Rod(db))
    /\ Elsewhere([db EXCEPT !.selection = S])

ClaimCatches ==
    /\ IsActive(db) /\ Claimable(db, "CATCH_BAG") # {}
    /\ Elsewhere([Claimed(db, None, [bag |-> "CATCH_BAG"]) EXCEPT !.log = db.log])

\* A fish is sold or a book used, as no code in the repository does yet.
TakeOut(i) ==
    /\ IsActive(db) /\ db.items[i].at \in Bags
    /\ Elsewhere([db EXCEPT !.items[i].at = "ELSEWHERE"])

SetStatus(status) == db.status # status /\ Elsewhere([db EXCEPT !.status = status])

Level(n) == IsActive(db) /\ db.level < n /\ Elsewhere([db EXCEPT !.level = n])

Rebirth ==
    /\ IsActive(db) /\ db.rebirths < MaxRebirths
    /\ Elsewhere([db EXCEPT !.level = 1, !.rebirths = @ + 1])

Step(s) ==
    \/ Resolve(s) \/ Answer(s) \/ Preflight(s) \/ SettleBaits(s) \/ Select(s)
    \/ Deliver(s) \/ Progress(s) \/ Wear(s) \/ Commit(s) \/ Refuse(s)

Else ==
    \/ \E r \in RodNames : Equip(r)
    \/ \E S \in Selections : ReplaceBaits(S)
    \/ ClaimCatches
    \/ \E i \in DOMAIN db.items : TakeOut(i)
    \/ \E status \in {"ACTIVE", "FROZEN"} : SetStatus(status)
    \/ \E n \in Levels : Level(n)
    \/ Rebirth

Next ==
    \/ \E s \in Sessions : Begin(s) \/ Step(s) \/ SaveRow(s) \/ SaveBaits(s) \/ RollBack(s)
    \/ Else

Spec == Init /\ [][Next]_vars

---------------------------------------------------------------------------
(* Properties.                                                             *)

Events(w, o) == {entry \in w.log : entry.op = o}
Done(k) == operation[k] # NoRow /\ operation[k].state = "COMMITTED"

\* The rows have the columns' types: no stack is negative, no rod has more than
\* its durability or less than none, and a transaction has what its phase needs.
TypeOK ==
    /\ db.stack \in [Defs -> Nat]
    /\ \A r \in RodNames : db.rods[r].left \in 0 .. db.rods[r].max
    /\ db.equipped \in RodNames /\ db.selection \subseteq Baits
    /\ \A k \in Keys : operation[k] # NoRow => /\ operation[k].area \in Places
                                            /\ operation[k].root \in Roots
                                            /\ operation[k].receipt = None <=> ~ Done(k)
    /\ \A s \in Sessions :
           /\ tx[s].phase \in {"IDLE", "WAITING", "OPEN", "LOCKED", "BAITED", "STAGING",
                               "LANDED", "WORN"}
           /\ HasRow(s) <=> tx[s].row # None
           /\ HasPlayer(s) <=> tx[s].work # None

\* The events that a receipt stands for, whatever bag its items were put into.
Promised(k, worn) ==
    LET outcome == operation[k].receipt.outcome
    IN  Range(LegsOf(outcome, operation[k].root))
            \cup (IF Landed(outcome) THEN {ProgressLeg} ELSE {})
            \cup (IF operation[k].receipt.route = "STARTER" THEN {}
                  ELSE {WearLeg(worn, outcome.wear)})

\* A COMMITTED operation has every event of its receipt and no other, one item for
\* each fish or book; one that is PENDING has nothing but its baits, and one that
\* nobody has committed has nothing: the many settlements of a cast are all there or
\* none is (fishing_terminal, the terminal functions).
AllOrNothing ==
    \A k \in Keys :
        LET done == {entry.leg : entry \in {e \in Events(db, k) :
                                             e.leg.kind \notin {"BAITS", "CONSUME"}}}
            minted == {i \in DOMAIN db.items : db.items[i].op = k}
        IN  /\ Done(k) =>
                   /\ \E r \in RodNames : \E left \in 1 .. RodRows[r].max + 1 :
                          done = Promised(k, [name |-> r, rod |-> [left |-> left]])
                   /\ Cardinality(minted) =
                          IF operation[k].receipt.outcome.kind \in {"FISH", "BOOK"}
                          THEN operation[k].receipt.outcome.n ELSE 0
            /\ ~ Done(k) => done = {} /\ minted = {}
            /\ operation[k] = NoRow => Events(db, k) = {}

\* A rod has lost one durability for every event that wore it and all of it by a
\* broken line; a spared cast costs nothing (fishing_rod_durability_state).
RodsAccountForWear ==
    \A r \in RodNames :
        LET wear(how) == {e \in db.log : /\ e.leg.kind = "WEAR"
                                         /\ e.leg.rod = r /\ e.leg.how = how}
        IN  db.rods[r].left = IF wear("LINE_BREAK") # {} THEN 0
                              ELSE RodRows[r].left - Cardinality(wear("WORN"))

\* Every unit of a stack is one that was there at the start, less one for each
\* operation that settled that bait, however often it was entered, plus what the
\* casts put into the bag (settle_active_fishing_baits_for_cast).
BaitsBalance ==
    \A d \in Defs :
        LET events(kind) == {e \in db.log : /\ e.leg.kind = kind /\ e.leg.def = d
                                            /\ ~ e.overflow}
        IN  db.stack[d] = Initial[d] - Cardinality(events("CONSUME"))
                                     + Cardinality(events("DELIVER"))

\* Whoever asks again under a key, with whatever area, is refused or told what the
\* first caller was told (resolve_manual_fishing_operation_v1).
RepliesAgree ==
    \A a \in told, b \in told : a.key = b.key => a = b

\* Once an operation row exists its root, from which all its draws come, and its
\* request never change, and a receipt stands for ever: nobody casts again for a
\* better fish (lock_or_create_manual_fishing_operation_v1).
RootsPinned ==
    [][\A k \in Keys :
           operation[k] # NoRow =>
               /\ operation'[k] # NoRow
               /\ operation'[k].root = operation[k].root
               /\ operation'[k].area = operation[k].area
               /\ Done(k) => operation'[k] = operation[k]]_vars

\* What a route stages is what its terminal, written apart from it, accepts: the
\* transaction is refused at its end only when its baits were settled on a rod with
\* Bait Rack and the rod is another by now (validate_bait_settlement).
TerminalAgrees ==
    \A s \in Sessions :
        tx[s].phase = "WORN" => Checks(ReceiptFor(s)) \/ tx[s].cast.plan.rack > 0

\* Nothing of a frozen account changes but its status, though a cast may have begun
\* before the freeze (lock_manual_fishing_cast_preflight).
FrozenKept ==
    [][db.status = "FROZEN" => db' = [db EXCEPT !.status = db'.status]]_vars

\* Whoever has fished outside the Starter Pool has a row that opened the area, one
\* for the area, written by an operation that exists; no row is ever taken back
\* (lock_or_grant_manual_fishing_area_access).
UnlocksStand ==
    /\ \A a \in db.unlocked, b \in db.unlocked : a.area = b.area => a = b
    /\ \A row \in db.unlocked : operation[row.op] # NoRow
    /\ \A k \in Keys : Done(k) => Open(db, operation[k].area)

---------------------------------------------------------------------------
(* Each request is one indivisible step on the rows of that moment.        *)

Serial == INSTANCE FishingSerial WITH rows <- db, requests <- operation

ImplementsSerial == Serial!Spec
=============================================================================
