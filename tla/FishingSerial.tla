----------------------------- MODULE FishingSerial -----------------------------
(***************************************************************************)
(* What a manual fishing cast promises: a request is pinned, its baits are *)
(* settled, and it is cast, each at most once and each in one indivisible  *)
(* step on the player's rows as they are then.  There are no transactions, *)
(* locks or sessions here; FishingCast.tla implements this specification.  *)
(***************************************************************************)
EXTENDS FishingRules

CONSTANTS Keys, Places, RodRows, Roots, Selections, Levels, MaxRebirths, MaxBegun, None

VARIABLES rows,      \* the player's rows
          requests   \* the operation of each key

vars == <<rows, requests>>

Init ==
    /\ \E r \in DOMAIN RodRows :
           rows = [status |-> "ACTIVE", stack |-> Initial, items |-> <<>>, pending |-> <<>>,
                   owed |-> <<>>, log |-> {}, rods |-> RodRows, equipped |-> r,
                   selection |-> {}, unlocked |-> {}, level |-> 1,
                   rebirths |-> 0]
    /\ requests = [k \in Keys |-> NoRow]

\* The request as it is known, or as it is pinned now.
Known(k, area) ==
    IF requests[k] = NoRow
    THEN {[state |-> "PENDING", area |-> area, root |-> root, receipt |-> None] : root \in Roots}
    ELSE {row \in {requests[k]} : row.area = area /\ row.state = "PENDING"}

\* The plan of an operation's first entry, however often it is entered.
SettledPlans(k) ==
    {e.leg.plan : e \in {e \in rows.log : e.op = k /\ e.leg.kind = "BAITS"}}

PlanFor(k) == IF SettledPlans(k) = {} THEN BaitPlan(rows)
              ELSE CHOOSE plan \in SettledPlans(k) : TRUE

MayEnter(k, area) ==
    /\ rows.status = "ACTIVE" /\ MayFish(rows, area)
    /\ SettledPlans(k) # {} \/ MayBait(rows)

Prepared(k, area) ==
    LET open == Entered(rows, k, area)
    IN  IF SettledPlans(k) = {} THEN Baited(open, k) ELSE open

Pin(k, area) ==
    /\ requests' \in {[requests EXCEPT ![k] = row] : row \in Known(k, area)}
    /\ UNCHANGED rows

Bait(k, area) ==
    /\ MayEnter(k, area)
    /\ requests' \in {[requests EXCEPT ![k] = row] : row \in Known(k, area)}
    /\ rows' = Prepared(k, area)

\* The rows w with all the legs delivered, in their order.
DeliveredAll(w, k, legs, began) ==
    LET after[n \in 0 .. Len(legs)] ==
            IF n = 0 THEN w ELSE Delivered(after[n - 1], k, legs[n], began)
    IN  after[Len(legs)]

\* The whole of a route, its outcome and its legs, under the row's root.
Cast(k, area) ==
    \E row \in Known(k, area) :
        LET c == [name |-> rows.equipped, rod |-> Rod(rows), area |-> area, plan |-> PlanFor(k)]
            outcome == OutcomeOf(RouteOf(c), c, row.root)
            receipt == ReceiptOf(RouteOf(c), c, outcome)
            legs == LegsOf(outcome, row.root)
            landed(began) ==
                Progressed(DeliveredAll(Prepared(k, area), k, legs, began), k, outcome)
        IN  /\ MayEnter(k, area)
            /\ Supported(c) /\ Checks(receipt)
            /\ requests' = [requests EXCEPT ![k] = [row EXCEPT !.state = "COMMITTED",
                                                              !.receipt = receipt]]
            /\ \A i \in DOMAIN legs : MayDeliver(rows, k, legs[i])
            /\ \E began \in 1 .. MaxBegun :
                   rows' = IF Ordinary(c.rod) THEN Worn(landed(began), k, c, outcome.wear)
                           ELSE landed(began)

\* What the player and others do to the rows in between.
Live(w) == rows' = w /\ UNCHANGED requests

Elsewhere ==
    \/ /\ rows.status = "ACTIVE"
       /\ \/ \E r \in DOMAIN RodRows : Live([rows EXCEPT !.equipped = r])
          \/ \E S \in Selections : Live([rows EXCEPT !.selection = S])
          \/ \E n \in Levels : Live([rows EXCEPT !.level = n])
          \/ Live([rows EXCEPT !.level = 1, !.rebirths = @ + 1])
          \/ \E i \in DOMAIN rows.items : Live([rows EXCEPT !.items[i].at = "ELSEWHERE"])
          \/ Live([Claimed(rows, None, [bag |-> "CATCH_BAG"]) EXCEPT !.log = rows.log])
    \/ \E status \in {"ACTIVE", "FROZEN"} : Live([rows EXCEPT !.status = status])

Next ==
    \/ \E k \in Keys, area \in Places :
           Pin(k, area) \/ Bait(k, area) \/ Cast(k, area)
    \/ Elsewhere

Spec == Init /\ [][Next]_vars
=============================================================================
