----------------------------- MODULE FishingProofs -----------------------------
(***************************************************************************)
(* Proofs about FishingCast, for every set of keys, sessions, rods, baits  *)
(* and roots and any number of transactions.                               *)
(*                                                                         *)
(* A session that holds the operation row of its key and the player row    *)
(* works on a copy that differs from the committed rows by what its own    *)
(* operation has staged.  What is staged and what is still to be staged    *)
(* make up the selected outcome; a commit makes both copy and receipt      *)
(* everyone's, and nothing else does.  The copy is at every step what a    *)
(* cast on the committed rows would have made of them by then, so that the *)
(* commit is the whole cast, done on the rows of that moment.              *)
(***************************************************************************)
EXTENDS FishingCast, SumTheorems, SequenceTheorems, FiniteSetTheorems, TLAPS

---------------------------------------------------------------------------
(* What a route decides.                                                   *)

Draws(d) ==
    /\ d.branch \in Branches /\ d.line \in LineEnds
    /\ d.fish \in Nat \ {0} /\ d.goods \in 1 .. 3

\* The draws of a loadout without modifiers.
LEMMA PlainDraws ==
    ASSUME NEW c, NEW root, IsRoot(root)
    PROVE  LET d == UnmodifiedDraws(c, root)
           IN  /\ Draws(d) /\ d.wear = "WORN" /\ d.fish = 1 /\ d.goods = 1
               /\ d = [branch |-> d.branch, book |-> d.book, line |-> d.line, fish |-> d.fish,
                       goods |-> d.goods, wear |-> d.wear]
  BY SMT DEF UnmodifiedDraws, Draws, IsRoot, Line, LineEnds

\* A fish or a line that breaks; junk, goods or books; or a fish that is over the line.
Decided(outcome) ==
    /\ outcome = [kind |-> outcome.kind, n |-> outcome.n, wear |-> outcome.wear,
                  counted |-> outcome.counted]
    /\ outcome.n \in Nat /\ outcome.counted \in Nat
    /\ \/ outcome.kind = "FISH" /\ outcome.n > 0
       \/ outcome.kind = "BROKEN" /\ outcome.n = 0 /\ outcome.wear = "LINE_BREAK"
       \/ outcome.kind \in {"BOOK", "GOODS"} /\ outcome.n \in 1 .. 3
       \/ outcome.kind = "JUNK" /\ outcome.n = 1
       \/ outcome.kind = "PENDING"

\* What the draws select, with and without the number of fish.
LEMMA Selects ==
    ASSUME NEW d, Draws(d)
    PROVE  /\ Decided(Selected(d)) /\ Decided(SelectedOf(d))
           /\ Selected(d).kind \notin {"BROKEN", "PENDING"} => Selected(d).wear = d.wear
           /\ SelectedOf(d).kind \notin {"BROKEN", "PENDING"} => SelectedOf(d).wear = d.wear
           /\ Selected(d).kind = "FISH" => Selected(d).n = d.fish
           /\ Selected(d).kind = "BOOK" => Selected(d).n = d.goods
           /\ SelectedOf(d).kind = "BOOK" => SelectedOf(d).n = d.goods
           /\ SelectedOf(d).kind # "PENDING" => CountPasses(SelectedOf(d))
  BY SMTT(30) DEF Draws, Selected, SelectedOf, Fished, NonFish, Outcome, Decided, CountPasses,
     Branches, LineEnds

\* The draws of every route: what its modifiers can change, and nothing else.
DrawsOf(r, c, root) ==
    CASE r = "STARTER" -> StarterDraws(c, root)
      [] r = "UNMODIFIED" -> UnmodifiedDraws(c, root)
      [] r = "UNBREAKING" -> UnbreakingXDraws(c, root)
      [] r = "STRENGTHEN" -> StrengthenDraws(c, root)
      [] r = "SHARP_HOOK" -> SharpHookDraws(c, root)
      [] r = "TREASURE" -> TreasureXDraws(c, root)
      [] r = "BAIT_RACK" -> BaitRackDraws(c, root)
      [] r = "MULTICATCH" -> MulticatchDraws(c, root)
      [] r = "MULTI_TREASURE" -> MultiTreasureDraws(c, root)
      [] r = "STURDY" -> SturdyDraws(c, root)
      [] r = "SCHOOL" -> SchoolDraws(c, root)

Routes == {"STARTER", "UNMODIFIED", "UNBREAKING", "STRENGTHEN", "SHARP_HOOK", "TREASURE",
           "BAIT_RACK", "MULTICATCH", "MULTI_TREASURE", "STURDY", "SCHOOL"}
Counting == {"MULTICATCH", "SCHOOL"}

DrawnBy(r, c, d) ==
    /\ Draws(d)
    /\ r \notin Counting => d.fish = 1
    /\ r # "MULTI_TREASURE" => d.goods = 1
    /\ d.wear \in {"NONE", "WORN", "SPARED"}
    /\ d.wear = "NONE" <=> r = "STARTER"
    /\ d.wear = "SPARED" => r = "UNBREAKING"
    /\ (r = "STARTER" /\ c.area = "STARTER_POOL") => d.line = "LANDED"

\* What each route draws with: its own modifiers, and no other's.
LEMMA RouteDraws ==
    ASSUME NEW c, NEW root, IsRoot(root), NEW r \in Routes
    PROVE  DrawnBy(r, c, DrawsOf(r, c, root))
<1> DEFINE d == UnmodifiedDraws(c, root)
<1>1. /\ Draws(d) /\ d.wear = "WORN" /\ d.fish = 1 /\ d.goods = 1
      /\ d = [branch |-> d.branch, book |-> d.book, line |-> d.line, fish |-> d.fish,
              goods |-> d.goods, wear |-> d.wear]
  BY PlainDraws
<1>2. c.area = "STARTER_POOL" => d.line = "LANDED"
  BY DEF UnmodifiedDraws, Line
<1> HIDE DEF d
<1>3. CASE r = "STARTER"
  BY <1>1, <1>2, <1>3 DEF DrawsOf, StarterDraws, d, DrawnBy, Draws, Counting
<1>4. CASE r \in {"UNMODIFIED", "SHARP_HOOK", "BAIT_RACK"}
  BY <1>1, <1>4 DEF DrawsOf, SharpHookDraws, BaitRackDraws, d, DrawnBy, Counting
<1>5. CASE r = "UNBREAKING"
  BY <1>1, <1>5 DEF DrawsOf, UnbreakingXDraws, d, DrawnBy, Draws, Counting
<1>6. CASE r = "STRENGTHEN"
  BY <1>1, <1>6 DEF DrawsOf, StrengthenDraws, d, DrawnBy, Draws, Counting, Line, IsRoot, LineEnds
<1>7. CASE r = "TREASURE"
  BY <1>1, <1>7 DEF DrawsOf, TreasureXDraws, d, DrawnBy, Draws, Counting, IsRoot
<1>8. CASE r = "MULTICATCH"
  <2>1. DrawsOf(r, c, root) = [d EXCEPT !.fish = root.fish, !.line = Loaded(c, root, root.fish)]
    BY <1>8 DEF DrawsOf, MulticatchDraws, d
  <2>2. Loaded(c, root, root.fish) \in LineEnds
    BY DEF Loaded, Line, IsRoot, LineEnds
  <2> QED BY <1>1, <1>8, <2>1, <2>2 DEF DrawnBy, Draws, Counting, IsRoot
<1>9. CASE r = "MULTI_TREASURE"
  BY <1>1, <1>9 DEF DrawsOf, MultiTreasureDraws, d, DrawnBy, Draws, Counting, IsRoot
<1>10. CASE r = "STURDY"
  BY <1>1, <1>10 DEF DrawsOf, SturdyDraws, d, DrawnBy, Draws, Counting, Line, IsRoot, LineEnds
<1>11. CASE r = "SCHOOL"
  <2>1. DrawsOf(r, c, root) = [d EXCEPT !.fish = root.school, !.line = Loaded(c, root, root.school)]
    BY <1>11 DEF DrawsOf, SchoolDraws, d
  <2>2. Loaded(c, root, root.school) \in LineEnds
    BY DEF Loaded, Line, IsRoot, LineEnds
  <2> QED BY <1>1, <1>11, <2>1, <2>2 DEF DrawnBy, Draws, Counting, IsRoot
<1> QED BY <1>3, <1>4, <1>5, <1>6, <1>7, <1>8, <1>9, <1>10, <1>11 DEF Routes

\* The routes that count the fish record the count.
LEMMA RouteSelects ==
    ASSUME NEW c, NEW root, NEW r \in Routes
    PROVE  OutcomeOf(r, c, root) = IF r \in Counting THEN SelectedOf(DrawsOf(r, c, root))
                                   ELSE Selected(DrawsOf(r, c, root))
<1>1. CASE r \in {"STARTER", "UNMODIFIED", "UNBREAKING", "STRENGTHEN", "SHARP_HOOK", "TREASURE"}
  BY <1>1, Zenon DEF OutcomeOf, DrawsOf, Counting, StarterOutcome, UnmodifiedOutcome,
     UnbreakingXOutcome, StrengthenOutcome, SharpHookOutcome, TreasureXOutcome
<1>2. CASE r \in {"BAIT_RACK", "MULTICATCH", "MULTI_TREASURE", "STURDY", "SCHOOL"}
  BY <1>2, Zenon DEF OutcomeOf, DrawsOf, Counting, BaitRackOutcome, MulticatchOutcome,
     MultiTreasureOutcome, SturdyOutcome, SchoolOutcome
<1> QED BY <1>1, <1>2 DEF Routes

Settles(o) == o.kind \notin {"BROKEN", "PENDING"}
DecidedBy(r, c, o) ==
    /\ Decided(o)
    /\ (r \notin Counting /\ o.kind = "FISH") => o.n = 1
    /\ (r # "MULTI_TREASURE" /\ o.kind = "BOOK") => o.n = 1
    /\ (r \in Counting /\ o.kind # "PENDING") => CountPasses(o)
    /\ Settles(o) => o.wear \in {"NONE", "WORN", "SPARED"}
    /\ Settles(o) => (o.wear = "NONE" <=> r = "STARTER")
    /\ Settles(o) => (o.wear = "SPARED" => r = "UNBREAKING")
    /\ (r = "STARTER" /\ c.area = "STARTER_POOL") => Settles(o)

\* What every route decides.
LEMMA RouteDecides ==
    ASSUME NEW c, NEW root, IsRoot(root), NEW r \in Routes
    PROVE  DecidedBy(r, c, OutcomeOf(r, c, root))
<1> DEFINE d == DrawsOf(r, c, root)
<1>1. DrawnBy(r, c, d)
  BY RouteDraws
<1>2. d.line = "LANDED" => Settles(Selected(d))
  BY DEF Selected, Fished, NonFish, Outcome, Settles
<1> HIDE DEF d
<1>3. CASE r \in Counting
  <2>1. OutcomeOf(r, c, root) = SelectedOf(d)
    BY <1>3, RouteSelects DEF d
  <2> QED BY <1>1, <1>3, <2>1, Selects DEF Counting, DrawnBy, DecidedBy, Settles
<1>4. CASE r \notin Counting
  <2>1. OutcomeOf(r, c, root) = Selected(d)
    BY <1>4, RouteSelects DEF d
  <2> QED BY <1>1, <1>2, <1>4, <2>1, Selects DEF DrawnBy, DecidedBy, Settles
<1> QED BY <1>3, <1>4

---------------------------------------------------------------------------
(* What the terminal of a route makes sure of.                             *)

\* A supported loadout has a route, which serves it.
LEMMA RouteServes ==
    ASSUME NEW c, Supported(c)
    PROVE  RouteOf(c) \in RoutesOf(c) /\ RouteOf(c) \in Routes
  BY DEF Supported, RouteOf, RoutesOf, Routes

Leveled == {"STRENGTHEN", "SHARP_HOOK", "BAIT_RACK", "MULTICATCH", "MULTI_TREASURE"}

\* What its receipt takes from the cast.
LEMMA RouteReceipts ==
    ASSUME NEW c, NEW r \in RoutesOf(c), IsRod(c.rod), c.plan.rack = 0, NEW o
    PROVE  /\ ReceiptOf(r, c, o).route = r /\ ReceiptOf(r, c, o).outcome = o
           /\ r = "STARTER" => c.area = "STARTER_POOL"
           /\ r \in Leveled => ReceiptOf(r, c, o).level \in 1 .. MaxLevel(r)
           /\ r \in {"STURDY", "SCHOOL"} => BaitPasses(ReceiptOf(r, c, o), r)
<1>1. CASE r \in Leveled
  <2>1. c.rod.ench[r] \in 1 .. MaxLevel(r)
    BY <1>1 DEF RoutesOf, StrengthenOnly, SharpHookOnly, BaitRackOnly, MulticatchOnly,
       MultiTreasureOnly, OnlyWith, Leveled
  <2>2. ReceiptOf(r, c, o) = LeveledReceipt(r, c, o)
    BY <1>1 DEF ReceiptOf, StrengthenReceipt, SharpHookReceipt, BaitRackReceipt,
       MulticatchReceipt, MultiTreasureReceipt, Leveled
  <2> QED BY <1>1, <2>1, <2>2 DEF LeveledReceipt, Receipt, Leveled
<1>2. CASE r \in {"STURDY", "SCHOOL"}
  <2>1. c.plan.used = {r}
    BY <1>2 DEF RoutesOf, SturdyOnly, SchoolOnly, OnlyOn
  <2>2. ReceiptOf(r, c, o) = BaitedReceipt(r, c, o)
    BY <1>2 DEF ReceiptOf, SturdyReceipt, SchoolReceipt
  <2> QED BY <1>2, <2>1, <2>2 DEF BaitedReceipt, Receipt, BaitPasses, Leveled
<1>3. CASE r \in {"STARTER", "UNMODIFIED", "UNBREAKING", "TREASURE"}
  <2>1. r = "STARTER" => c.area = "STARTER_POOL"
    BY DEF RoutesOf, StarterOnly
  <2>2. ReceiptOf(r, c, o) = Receipt(r, c, o)
    BY <1>3 DEF ReceiptOf, StarterReceipt, UnmodifiedReceipt, UnbreakingXReceipt,
       TreasureXReceipt
  <2> QED BY <1>3, <2>1, <2>2 DEF Receipt, Leveled
<1> QED BY <1>1, <1>2, <1>3 DEF RoutesOf, Leveled

\* A route's own outcome passes its terminal, unless the baits were settled on
\* another rod.
LEMMA RouteChecks ==
    ASSUME NEW c, NEW root, IsRoot(root), IsRod(c.rod), Ends(c, root), c.plan.rack = 0
    PROVE  Checks(ReceiptOf(RouteOf(c), c, OutcomeOf(RouteOf(c), c, root)))
<1> DEFINE r == RouteOf(c)
<1> DEFINE o == OutcomeOf(r, c, root)
<1> DEFINE receipt == ReceiptOf(r, c, o)
<1>1. r \in RoutesOf(c) /\ r \in Routes /\ o.kind # "PENDING"
  BY RouteServes DEF Ends
<1>2. DecidedBy(r, c, o)
  BY <1>1, RouteDecides
<1>3. /\ receipt.route = r /\ receipt.outcome = o
      /\ r = "STARTER" => c.area = "STARTER_POOL"
      /\ r \in Leveled => receipt.level \in 1 .. MaxLevel(r)
      /\ r \in {"STURDY", "SCHOOL"} => BaitPasses(receipt, r)
  BY <1>1, RouteReceipts
<1> HIDE DEF o, r, receipt
<1>4. r # "MULTI_TREASURE" => BooksPass(o, {1})
  BY <1>1, <1>2 DEF DecidedBy, BooksPass
<1>5. BooksPass(o, 1 .. 3)
  BY <1>2 DEF DecidedBy, Decided, BooksPass
<1>6. r \notin {"STARTER", "UNBREAKING"} => WearPasses(o, {"WORN"})
  BY <1>1, <1>2 DEF DecidedBy, Decided, WearPasses, Settles
<1>7. r = "UNBREAKING" => WearPasses(o, {"WORN", "SPARED"})
  BY <1>1, <1>2 DEF DecidedBy, Decided, WearPasses, Settles
<1>8. r \in Counting => CountPasses(o)
  BY <1>1, <1>2 DEF DecidedBy
<1>9. (r \notin Counting /\ o.kind = "FISH") => o.n = 1
  BY <1>2 DEF DecidedBy
<1>10. r = "STARTER" => o.kind # "BROKEN"
  BY <1>2, <1>3 DEF DecidedBy, Settles
<1>11. Checks(receipt)
  <2>1. r \notin Counting /\ r \notin {"STARTER", "UNBREAKING", "MULTI_TREASURE"}
            => OneOfEach(receipt.outcome)
    BY <1>3, <1>4, <1>6, <1>9 DEF OneOfEach
  <2>2. r \in Counting => ManyPass(receipt.outcome)
    BY <1>3, <1>4, <1>6, <1>8 DEF ManyPass, Counting
  <2>3. r \in Leveled => LevelPasses(receipt, r)
    BY <1>3 DEF LevelPasses
  <2>4. CASE r \in {"STARTER", "UNBREAKING", "MULTI_TREASURE"}
    BY <1>1, <1>3, <1>4, <1>5, <1>6, <1>7, <1>9, <1>10, <2>3, <2>4
       DEF Checks, StarterChecks, UnbreakingXChecks, MultiTreasureChecks, Leveled, Counting
  <2>5. CASE r \in {"UNMODIFIED", "STRENGTHEN", "SHARP_HOOK", "TREASURE", "BAIT_RACK", "STURDY"}
    BY <1>1, <1>3, <2>1, <2>3, <2>5 DEF Checks, UnmodifiedChecks, StrengthenChecks,
       SharpHookChecks, TreasureXChecks, BaitRackChecks, SturdyChecks, Leveled, Counting
  <2>6. CASE r \in Counting
    BY <1>1, <1>3, <2>2, <2>3, <2>6 DEF Checks, MulticatchChecks, SchoolChecks, Leveled, Counting
  <2> QED BY <1>1, <2>4, <2>5, <2>6 DEF Routes, Counting
<1> QED BY <1>11 DEF receipt, o, r

---------------------------------------------------------------------------
(* What a session has at each phase.                                       *)

Owning == {"LOCKED", "BAITED", "STAGING", "LANDED", "WORN"}
Holding == {"OPEN"} \cup Owning

\* The player's rows: their columns, their rods, no area opened twice, and the
\* bait plans that later transactions of an operation are answered with.
PlayerOK(w) ==
    /\ w = [status |-> w.status, stack |-> w.stack, items |-> w.items, pending |-> w.pending,
            owed |-> w.owed, log |-> w.log, rods |-> w.rods, equipped |-> w.equipped,
            selection |-> w.selection, unlocked |-> w.unlocked, level |-> w.level,
            rebirths |-> w.rebirths]
    /\ w.rods = [r \in RodNames |-> w.rods[r]] /\ \A r \in RodNames : IsRod(w.rods[r])
    /\ w.equipped \in RodNames
    /\ \A a \in w.unlocked, b \in w.unlocked : a.area = b.area => a = b
    /\ \A e \in w.log : e.leg.kind = "BAITS" => e.leg.plan.rack \in Nat

RowOK(row) ==
    /\ row = [state |-> row.state, area |-> row.area, root |-> row.root,
              receipt |-> row.receipt]
    /\ row.state \in {"PENDING", "COMMITTED"} /\ row.area \in Places /\ row.root \in Roots

\* The row a session has is the committed one, or one it has inserted.
Follows(t, rows) == t.row = rows[t.key] \/ (rows[t.key] = NoRow /\ t.row.state = "PENDING")

WorkOK(t, w, rows) ==
    /\ PlayerOK(t.work) /\ w.status = "ACTIVE" /\ t.work.status = "ACTIVE"
    /\ w.unlocked \subseteq t.work.unlocked /\ Open(t.work, t.area)
    /\ \A row \in t.work.unlocked :
           row.op \in Keys /\ (row.op = t.key \/ rows[row.op] # NoRow)

CastOK(c, area) ==
    c = [name |-> c.name, rod |-> c.rod, area |-> area, plan |-> c.plan] /\ IsRod(c.rod)

CastLegs ==
    {FishLeg(i, grams) : i \in Nat, grams \in Nat} \cup {BookLeg(i) : i \in Nat}
        \cup {GoodsLeg(i) : i \in Nat} \cup {JunkLeg}

TxOK(t, w, rows) ==
    /\ t = [phase |-> t.phase, key |-> t.key, area |-> t.area, row |-> t.row, work |-> t.work,
            cast |-> t.cast, legs |-> t.legs, began |-> t.began]
    /\ t.phase \in {"IDLE", "WAITING"} \cup Holding
    /\ t.phase # "IDLE" => t.key \in Keys /\ t.area \in Places
    /\ t.phase \in Holding => RowOK(t.row) /\ Follows(t, rows)
    /\ t.phase \in Owning =>
           /\ t.row.state = "PENDING" /\ t.row.area = t.area
           /\ WorkOK(t, w, rows) /\ CastOK(t.cast, t.area)
    /\ t.phase \in Owning \ {"LOCKED"} => t.cast.plan.rack \in Nat
    /\ t.phase \in {"STAGING", "LANDED", "WORN"} => Ends(t.cast, t.row.root)
    /\ t.phase = "STAGING" => t.legs \in Seq(CastLegs)

\* One session has the operation row of a key, and one the player row.
Exclusive ==
    \A s, t \in Sessions :
        s # t => /\ tx[s].phase \in Holding /\ tx[t].phase \in Holding => tx[s].key # tx[t].key
                 /\ ~ (tx[s].phase \in Owning /\ tx[t].phase \in Owning)

\* What callers were told is what the committed rows say.
ToldFromRows ==
    \A a \in told :
        /\ a.key \in Keys /\ operation[a.key].state = "COMMITTED"
        /\ a = [key |-> a.key, area |-> operation[a.key].area,
                receipt |-> operation[a.key].receipt]

\* A row that opened an area was written by an operation, and nobody has cast in
\* an area that is not open.
Unlocked ==
    /\ \A row \in db.unlocked : row.op \in Keys /\ operation[row.op] # NoRow
    /\ \A k \in Keys : operation[k].state = "COMMITTED" => Open(db, operation[k].area)

IInv ==
    /\ tx = [s \in Sessions |-> tx[s]]
    /\ operation = [k \in Keys |-> operation[k]]
    /\ \A k \in Keys : operation[k] = NoRow \/ RowOK(operation[k])
    /\ PlayerOK(db)
    /\ \A s \in Sessions : TxOK(tx[s], db, operation)
    /\ Exclusive
    /\ Unlocked
    /\ ToldFromRows

---------------------------------------------------------------------------
(* What a step of a cast does to the player's rows.                        *)

\* The columns that no step of a cast writes.
Kept(new, w) ==
    /\ PlayerOK(new) /\ new.status = w.status /\ new.equipped = w.equipped
    /\ new.level = w.level /\ new.rebirths = w.rebirths

\* A copy with other values in the columns that casts write.
LEMMA Columns ==
    ASSUME NEW w, PlayerOK(w), NEW new,
           new = [w EXCEPT !.stack = new.stack, !.items = new.items, !.pending = new.pending,
                           !.owed = new.owed, !.log = new.log, !.rods = new.rods,
                           !.selection = new.selection, !.unlocked = new.unlocked],
           new.rods = w.rods
               \/ (new.rods = [r \in RodNames |-> new.rods[r]]
                     /\ \A r \in RodNames : IsRod(new.rods[r])),
           \A a \in new.unlocked, b \in new.unlocked : a.area = b.area => a = b,
           \A e \in new.log : e \in w.log \/ e.leg.kind # "BAITS" \/ e.leg.plan.rack \in Nat
    PROVE  Kept(new, w)
<1>1. new = [status |-> w.status, stack |-> new.stack, items |-> new.items,
             pending |-> new.pending, owed |-> new.owed, log |-> new.log, rods |-> new.rods,
             equipped |-> w.equipped, selection |-> new.selection,
             unlocked |-> new.unlocked, level |-> w.level, rebirths |-> w.rebirths]
  BY DEF PlayerOK
<1>2. /\ new.status = w.status /\ new.equipped = w.equipped /\ new.level = w.level
      /\ new.rebirths = w.rebirths
  BY <1>1
<1>3. new.rods = [r \in RodNames |-> new.rods[r]] /\ \A r \in RodNames : IsRod(new.rods[r])
  BY DEF PlayerOK
<1>4. \A e \in new.log : e.leg.kind = "BAITS" => e.leg.plan.rack \in Nat
  BY DEF PlayerOK
<1>5. w.equipped \in RodNames
  BY DEF PlayerOK
<1> QED BY <1>1, <1>2, <1>3, <1>4, <1>5, Zenon DEF Kept, PlayerOK

\* A first visit writes the one row of its area.
LEMMA EnteredKeeps ==
    ASSUME NEW w, PlayerOK(w), NEW o, NEW area
    PROVE  /\ Kept(Entered(w, o, area), w) /\ Open(Entered(w, o, area), area)
           /\ w.unlocked \subseteq Entered(w, o, area).unlocked
           /\ \A row \in Entered(w, o, area).unlocked : row \in w.unlocked \/ row.op = o
<1>1. CASE Open(w, area)
  BY <1>1 DEF Entered, Kept
<1>2. CASE ~ Open(w, area)
  <2> DEFINE new == Entered(w, o, area)
  <2>1. new = [w EXCEPT !.unlocked = w.unlocked \cup {[area |-> area, op |-> o]}]
    BY <1>2 DEF Entered
  <2> HIDE DEF new
  <2>2. new = [w EXCEPT !.unlocked = new.unlocked]
        /\ new.unlocked = w.unlocked \cup {[area |-> area, op |-> o]}
    BY <2>1 DEF PlayerOK
  <2>3. \A a \in new.unlocked, b \in new.unlocked : a.area = b.area => a = b
    BY <1>2, <2>2 DEF PlayerOK, Open
  <2>4. new = [w EXCEPT !.stack = new.stack, !.items = new.items, !.pending = new.pending,
                        !.owed = new.owed, !.log = new.log, !.rods = new.rods,
                        !.selection = new.selection, !.unlocked = new.unlocked]
        /\ new.rods = w.rods /\ new.log = w.log
    BY <2>2 DEF PlayerOK
  <2>5. Kept(new, w)
    BY <2>3, <2>4, Columns
  <2>6. Open(new, area)
    <3> DEFINE row == [area |-> area, op |-> o]
    <3>1. row \in new.unlocked /\ row.area = area
      BY <2>2
    <3> HIDE DEF row
    <3> QED BY <3>1 DEF Open
  <2> QED BY <2>2, <2>5, <2>6 DEF new
<1> QED BY <1>1, <1>2

\* What is delivered, with room for it or not.
LEMMA DeliveredKeeps ==
    ASSUME NEW w, PlayerOK(w), NEW o, NEW leg \in CastLegs, NEW began
    PROVE  /\ Kept(Delivered(w, o, leg, began), w)
           /\ Delivered(w, o, leg, began).unlocked = w.unlocked
<1> DEFINE new == Delivered(w, o, leg, began)
<1>1. leg.kind \in {"FISH", "UNIQUE", "DELIVER"}
  BY DEF CastLegs, FishLeg, BookLeg, GoodsLeg, JunkLeg
<1>2. \E overflow \in BOOLEAN :
          \/ new = [w EXCEPT !.stack = new.stack, !.log = w.log \cup {Entry(o, leg, overflow)}]
          \/ new = [w EXCEPT !.owed = new.owed, !.log = w.log \cup {Entry(o, leg, overflow)}]
          \/ new = [w EXCEPT !.items = new.items, !.pending = new.pending,
                             !.log = w.log \cup {Entry(o, leg, overflow)}]
  <2>1. CASE leg.kind \in InstanceKinds
    <3>1. new = Minted(w, o, leg, began)
      BY <2>1 DEF Delivered
    <3> HIDE DEF new
    <3>2. \E overflow \in BOOLEAN : \E items, pending :
              new = [w EXCEPT !.items = items, !.pending = pending,
                              !.log = w.log \cup {Entry(o, leg, overflow)}]
      BY <3>1, Zenon DEF Minted
    <3> QED BY <3>2 DEF PlayerOK
  <2>2. CASE leg.kind \notin InstanceKinds
    <3>1. new = StackDelivered(w, o, leg) /\ leg.kind # "COMMAND"
      BY <1>1, <2>2 DEF Delivered
    <3> HIDE DEF new
    <3>2. \/ \E stack : new = [w EXCEPT !.stack = stack, !.log = w.log \cup {Entry(o, leg, FALSE)}]
          \/ \E owed : new = [w EXCEPT !.owed = owed, !.log = w.log \cup {Entry(o, leg, TRUE)}]
      BY <3>1, Zenon DEF StackDelivered
    <3> QED BY <3>2 DEF PlayerOK
  <2> QED BY <2>1, <2>2
<1> HIDE DEF new
<1>3. PICK overflow \in BOOLEAN :
          \/ new = [w EXCEPT !.stack = new.stack, !.log = w.log \cup {Entry(o, leg, overflow)}]
          \/ new = [w EXCEPT !.owed = new.owed, !.log = w.log \cup {Entry(o, leg, overflow)}]
          \/ new = [w EXCEPT !.items = new.items, !.pending = new.pending,
                             !.log = w.log \cup {Entry(o, leg, overflow)}]
  BY <1>2
<1> DEFINE entry == Entry(o, leg, overflow)
<1>4. entry.leg.kind # "BAITS"
  BY <1>1 DEF Entry
<1> HIDE DEF entry
<1>5. /\ new = [w EXCEPT !.stack = new.stack, !.items = new.items, !.pending = new.pending,
                         !.owed = new.owed, !.log = new.log, !.rods = new.rods,
                         !.selection = new.selection, !.unlocked = new.unlocked]
      /\ new.rods = w.rods /\ new.unlocked = w.unlocked /\ new.log = w.log \cup {entry}
  BY <1>3 DEF PlayerOK, entry
<1>6. /\ \A a \in new.unlocked, b \in new.unlocked : a.area = b.area => a = b
      /\ \A e \in new.log : e \in w.log \/ e.leg.kind # "BAITS" \/ e.leg.plan.rack \in Nat
  BY <1>4, <1>5 DEF PlayerOK
<1>7. Kept(new, w)
  BY <1>5, <1>6, Columns
<1> QED BY <1>5, <1>7 DEF new

\* The settlement of the baits, whose plan is pinned with the rack of the rod.
LEMMA BaitedKeeps ==
    ASSUME NEW w, PlayerOK(w), NEW o
    PROVE  /\ BaitPlan(w).rack \in Nat
           /\ Kept(Baited(w, o), w) /\ Baited(w, o).unlocked = w.unlocked
<1> DEFINE new == Baited(w, o)
           plan == BaitPlan(w)
<1>1. plan.rack \in Nat
  <2>1. IsRod(Rod(w)) /\ plan.rack = Rack(Rod(w))
    BY DEF PlayerOK, Rod, BaitPlan
  <2>2. MaxLevel("BAIT_RACK") = 3
    BY DEF MaxLevel
  <2>3. Rack(Rod(w)) \in Nat
    BY <2>1, <2>2 DEF IsRod, Rack
  <2> QED BY <2>1, <2>3
<1> DEFINE log == w.log \cup {Entry(o, BaitLeg(b), FALSE) : b \in plan.used}
                      \cup {Entry(o, PlanLeg(plan), FALSE)}
<1> HIDE DEF plan
<1>2. \A e \in log : e \in w.log \/ e.leg.kind # "BAITS" \/ e.leg.plan.rack \in Nat
  <2>1. \A b : Entry(o, BaitLeg(b), FALSE).leg.kind # "BAITS"
    BY DEF Entry, BaitLeg
  <2>2. Entry(o, PlanLeg(plan), FALSE).leg.plan = plan
    BY DEF Entry, PlanLeg
  <2> QED BY <1>1, <2>1, <2>2
<1>3. \E stack, selection :
          new = [w EXCEPT !.stack = stack, !.selection = selection, !.log = log]
  BY Zenon DEF Baited, plan
<1> HIDE DEF new, log
<1>4. PICK stack, selection :
          new = [w EXCEPT !.stack = stack, !.selection = selection, !.log = log]
  BY <1>3
<1>5. /\ new = [w EXCEPT !.stack = new.stack, !.items = new.items, !.pending = new.pending,
                         !.owed = new.owed, !.log = new.log, !.rods = new.rods,
                         !.selection = new.selection, !.unlocked = new.unlocked]
      /\ new.rods = w.rods /\ new.unlocked = w.unlocked /\ new.log = log
  BY <1>4 DEF PlayerOK
<1>6. \A a \in new.unlocked, b \in new.unlocked : a.area = b.area => a = b
  BY <1>5 DEF PlayerOK
<1>7. Kept(new, w)
  BY <1>2, <1>5, <1>6, Columns
<1> QED BY <1>1, <1>5, <1>7 DEF new, plan

\* Experience is an entry of the log.
LEMMA ProgressedKeeps ==
    ASSUME NEW w, PlayerOK(w), NEW o, NEW outcome
    PROVE  /\ Kept(Progressed(w, o, outcome), w)
           /\ Progressed(w, o, outcome).unlocked = w.unlocked
<1> DEFINE new == Progressed(w, o, outcome)
           entry == Entry(o, ProgressLeg, FALSE)
<1>1. CASE ~ Landed(outcome)
  BY <1>1 DEF Progressed, Kept
<1>2. CASE Landed(outcome)
  <2>1. new = [w EXCEPT !.log = w.log \cup {entry}] /\ entry.leg.kind # "BAITS"
    BY <1>2 DEF Progressed, Entry, ProgressLeg
  <2> HIDE DEF new, entry
  <2>2. /\ new = [w EXCEPT !.stack = new.stack, !.items = new.items, !.pending = new.pending,
                           !.owed = new.owed, !.log = new.log, !.rods = new.rods,
                           !.selection = new.selection, !.unlocked = new.unlocked]
        /\ new.rods = w.rods /\ new.unlocked = w.unlocked /\ new.log = w.log \cup {entry}
    BY <2>1 DEF PlayerOK
  <2>3. /\ \A a \in new.unlocked, b \in new.unlocked : a.area = b.area => a = b
        /\ \A e \in new.log : e \in w.log \/ e.leg.kind # "BAITS" \/ e.leg.plan.rack \in Nat
    BY <2>1, <2>2 DEF PlayerOK
  <2>4. Kept(new, w)
    BY <2>2, <2>3, Columns
  <2> QED BY <2>2, <2>4 DEF new
<1> QED BY <1>1, <1>2

\* A cast wears the rod by one, spares it or destroys it.
LEMMA WornKeeps ==
    ASSUME NEW w, PlayerOK(w), NEW o, NEW c, MayWear(w, c),
           NEW wear \in {"LINE_BREAK", "SPARED", "WORN"}
    PROVE  Kept(Worn(w, o, c, wear), w) /\ Worn(w, o, c, wear).unlocked = w.unlocked
<1> DEFINE new == Worn(w, o, c, wear)
           entry == Entry(o, WearLeg(c, wear), FALSE)
           rods == [w.rods EXCEPT ![c.name].left = Left(@, wear)]
<1>1. new = [w EXCEPT !.rods = rods, !.log = w.log \cup {entry}]
  BY Zenon DEF Worn, PlayerOK
<1>2. entry.leg.kind # "BAITS"
  BY DEF Entry, WearLeg
<1>3. rods = [r \in RodNames |-> rods[r]] /\ \A r \in RodNames : IsRod(rods[r])
  <2> DEFINE old == w.rods[c.name]
             rod == [old EXCEPT !.left = Left(old.left, wear)]
  <2>1. c.name \in RodNames /\ IsRod(old) /\ old.left > 0
    BY DEF MayWear, Rod, PlayerOK
  <2>2. rods = [r \in RodNames |-> IF r = c.name THEN rod ELSE w.rods[r]]
    BY <2>1 DEF PlayerOK
  <2>3. Left(old.left, wear) \in 0 .. old.max
    BY <2>1 DEF IsRod, Left
  <2>4. rod = [kind |-> old.kind, tier |-> old.tier, ench |-> old.ench,
               left |-> Left(old.left, wear), max |-> old.max]
    <3> DEFINE left == Left(old.left, wear)
    <3>1. rod = [old EXCEPT !.left = left]
      OBVIOUS
    <3> HIDE DEF left, rod
    <3>2. rod = [kind |-> old.kind, tier |-> old.tier, ench |-> old.ench, left |-> left,
                 max |-> old.max]
      BY <2>1, <3>1 DEF IsRod
    <3> QED BY <3>2 DEF left
  <2> HIDE DEF rod
  <2>5. IsRod(rod)
    BY <2>1, <2>3, <2>4 DEF IsRod
  <2> HIDE DEF rods
  <2>6. \A r \in RodNames : rods[r] = IF r = c.name THEN rod ELSE w.rods[r]
    BY <2>2
  <2>7. rods = [r \in RodNames |-> rods[r]]
    BY <2>2
  <2> QED BY <2>5, <2>6, <2>7 DEF PlayerOK
<1> HIDE DEF new, entry, rods
<1>4. /\ new = [w EXCEPT !.stack = new.stack, !.items = new.items, !.pending = new.pending,
                         !.owed = new.owed, !.log = new.log, !.rods = new.rods,
                         !.selection = new.selection, !.unlocked = new.unlocked]
      /\ new.rods = rods /\ new.unlocked = w.unlocked /\ new.log = w.log \cup {entry}
  BY <1>1 DEF PlayerOK
<1>5. /\ \A a \in new.unlocked, b \in new.unlocked : a.area = b.area => a = b
      /\ \A e \in new.log : e \in w.log \/ e.leg.kind # "BAITS" \/ e.leg.plan.rack \in Nat
  BY <1>2, <1>4 DEF PlayerOK
<1>6. Kept(new, w)
  BY <1>3, <1>4, <1>5, Columns
<1> QED BY <1>4, <1>6 DEF new

\* What an outcome that a route ends with is made of.
LEMMA EndsWith ==
    ASSUME NEW c, NEW root, IsRoot(root), Ends(c, root)
    PROVE  LET o == OutcomeOf(RouteOf(c), c, root)
           IN  /\ Decided(o) /\ LegsOf(o, root) \in Seq(CastLegs)
               /\ Wears(c) => o.wear \in {"LINE_BREAK", "SPARED", "WORN"}
<1> DEFINE r == RouteOf(c)
           o == OutcomeOf(r, c, root)
<1>1. r \in RoutesOf(c) /\ r \in Routes /\ o.kind # "PENDING"
  BY RouteServes DEF Ends
<1>2. DecidedBy(r, c, o)
  BY <1>1, RouteDecides
<1>3. r = "STARTER" => ~ Ordinary(c.rod)
  BY <1>1 DEF RoutesOf, StarterOnly
<1> HIDE DEF r, o
<1>4. Decided(o) /\ o.n \in Nat
  BY <1>2 DEF DecidedBy, Decided
<1>5. Wears(c) => o.wear \in {"LINE_BREAK", "SPARED", "WORN"}
  BY <1>1, <1>2, <1>3 DEF DecidedBy, Decided, Settles, Wears
<1>6. LegsOf(o, root) \in Seq(CastLegs)
  <2>1. \A i \in 1 .. o.n : {FishLeg(i, root.grams), BookLeg(i), GoodsLeg(i)} \subseteq CastLegs
    BY DEF CastLegs, IsRoot
  <2>2. JunkLeg \in CastLegs
    BY DEF CastLegs
  <2>3. \A f \in [1 .. o.n -> CastLegs] : f \in Seq(CastLegs)
    BY <1>4, SeqDef
  <2>4. /\ [i \in 1 .. o.n |-> FishLeg(i, root.grams)] \in Seq(CastLegs)
        /\ [i \in 1 .. o.n |-> BookLeg(i)] \in Seq(CastLegs)
        /\ [i \in 1 .. o.n |-> GoodsLeg(i)] \in Seq(CastLegs)
    BY <2>1, <2>3
  <2>5. <<JunkLeg>> \in Seq(CastLegs) /\ <<>> \in Seq(CastLegs)
    BY <2>2
  <2> QED BY <2>4, <2>5 DEF LegsOf
<1>7. Decided(o) /\ LegsOf(o, root) \in Seq(CastLegs)
      /\ (Wears(c) => o.wear \in {"LINE_BREAK", "SPARED", "WORN"})
  BY <1>4, <1>5, <1>6
<1> QED BY <1>7 DEF o, r

---------------------------------------------------------------------------
(* Steps of one session that leave the tables alone.                       *)

\* A session that moves to a sound transaction, and takes no row that another has,
\* keeps the invariant.
LEMMA Moves ==
    ASSUME IInv, NEW s \in Sessions, NEW new,
           tx' = [tx EXCEPT ![s] = new],
           TxOK(new, db, operation),
           new.phase \in Holding =>
               \/ tx[s].phase \in Holding /\ new.key = tx[s].key
               \/ \A t \in Sessions \ {s} : tx[t].phase \in Holding => tx[t].key # new.key,
           new.phase \in Owning =>
               tx[s].phase \in Owning \/ \A t \in Sessions \ {s} : tx[t].phase \notin Owning,
           UNCHANGED <<db, operation>>,
           ToldFromRows'
    PROVE  IInv'
<1>1. tx' = [t \in Sessions |-> IF t = s THEN new ELSE tx[t]]
  BY DEF IInv
<1>2. \A t \in Sessions : TxOK(tx'[t], db, operation)
  BY <1>1 DEF IInv
<1>3. Exclusive'
  <2> SUFFICES ASSUME NEW a \in Sessions, NEW b \in Sessions, a # b
               PROVE  /\ (tx'[a].phase \in Holding /\ tx'[b].phase \in Holding)
                              => tx'[a].key # tx'[b].key
                      /\ ~ (tx'[a].phase \in Owning /\ tx'[b].phase \in Owning)
    BY DEF Exclusive
  <2>1. Exclusive
    BY DEF IInv
  <2> QED BY <1>1, <2>1 DEF Exclusive
<1>4. Unlocked' /\ tx' = [t \in Sessions |-> tx'[t]]
  BY <1>1 DEF IInv, Unlocked
<1> QED BY <1>2, <1>3, <1>4 DEF IInv

\* Whoever leaves, whether refused, rolled back or answered, disturbs nothing.
LEMMA Leaves ==
    ASSUME IInv, NEW s \in Sessions, Leave(s), UNCHANGED <<db, operation>>, ToldFromRows'
    PROVE  IInv'
<1>1. Idle.phase \notin Holding /\ Idle.phase \notin Owning
  BY DEF Idle, Holding, Owning
<1>2. TxOK(Idle, db, operation)
  BY DEF TxOK, Idle, Holding, Owning
<1>3. tx' = [tx EXCEPT ![s] = Idle]
  BY DEF Leave
<1> QED BY <1>1, <1>2, <1>3, Moves

\* The same names for the phases that have a row.
LEMMA Names ==
    \A s \in Sessions : TxOK(tx[s], db, operation) =>
        /\ HasRow(s) <=> tx[s].phase \in Holding
        /\ HasPlayer(s) <=> tx[s].phase \in Owning
  BY DEF TxOK, HasRow, HasPlayer, Holding, Owning

\* A session begins, with neither row.
LEMMA BeginKeeps ==
    ASSUME IInv, NEW s \in Sessions, Begin(s)
    PROVE  IInv'
<1>1. PICK k \in Keys : \E area \in Places :
          tx' = [tx EXCEPT ![s] = [Idle EXCEPT !.phase = "WAITING", !.key = k, !.area = area,
                                               !.began = begun + 1]]
  BY DEF Begin
<1>2. PICK area \in Places :
          tx' = [tx EXCEPT ![s] = [Idle EXCEPT !.phase = "WAITING", !.key = k, !.area = area,
                                               !.began = begun + 1]]
  BY <1>1
<1> DEFINE new == [Idle EXCEPT !.phase = "WAITING", !.key = k, !.area = area, !.began = begun + 1]
           count == begun + 1
<1> HIDE DEF count
<1>0. new = [Idle EXCEPT !.phase = "WAITING", !.key = k, !.area = area, !.began = count]
  BY DEF count
<1> HIDE DEF new
<1>3. new = [phase |-> "WAITING", key |-> k, area |-> area, row |-> Idle.row, work |-> Idle.work,
             cast |-> Idle.cast, legs |-> Idle.legs, began |-> count]
  <2>1. Idle = [phase |-> Idle.phase, key |-> Idle.key, area |-> Idle.area, row |-> Idle.row,
                work |-> Idle.work, cast |-> Idle.cast, legs |-> Idle.legs,
                began |-> Idle.began]
    BY DEF Idle
  <2> QED BY <1>0, <2>1
<1>4. TxOK(new, db, operation) /\ new.phase \notin Holding /\ new.phase \notin Owning
  BY <1>3 DEF TxOK, Holding, Owning
<1>5. UNCHANGED <<db, operation>> /\ ToldFromRows' /\ tx' = [tx EXCEPT ![s] = new]
  BY <1>2 DEF Begin, IInv, ToldFromRows, new
<1> QED BY <1>4, <1>5, Moves

\* A session finds the committed row, or inserts one when there is none.
LEMMA ResolveKeeps ==
    ASSUME IInv, NEW s \in Sessions, Resolve(s)
    PROVE  IInv'
<1>1. TxOK(tx[s], db, operation) /\ tx = [t \in Sessions |-> tx[t]] /\ tx[s].phase = "WAITING"
  BY DEF IInv, Resolve
<1> DEFINE entry == operation[tx[s].key]
<1>2. PICK row : /\ tx' = [tx EXCEPT ![s].phase = "OPEN", ![s].row = row]
                 /\ IF entry # NoRow THEN row = entry
                    ELSE \E root \in Roots : row = Inserted(tx[s].area, root)
  BY DEF Resolve
<1>3. RowOK(row) /\ (row = entry \/ (entry = NoRow /\ row.state = "PENDING"))
  <2>1. CASE entry # NoRow
    BY <1>1, <1>2, <2>1 DEF IInv, TxOK
  <2>2. CASE entry = NoRow
    BY <1>1, <1>2, <2>2 DEF Inserted, RowOK, TxOK
  <2> QED BY <2>1, <2>2
<1> DEFINE new == [tx[s] EXCEPT !.phase = "OPEN", !.row = row]
<1>4. tx' = [tx EXCEPT ![s] = new]
  BY <1>1, <1>2
<1>5. new = [tx[s] EXCEPT !.phase = "OPEN", !.row = row]
  OBVIOUS
<1> HIDE DEF new, entry
<1>6. new = [phase |-> "OPEN", key |-> tx[s].key, area |-> tx[s].area, row |-> row,
             work |-> tx[s].work, cast |-> tx[s].cast, legs |-> tx[s].legs,
             began |-> tx[s].began]
  BY <1>1, <1>5 DEF TxOK
<1>7. TxOK(new, db, operation) /\ new.phase \notin Owning
  BY <1>1, <1>3, <1>6 DEF TxOK, Holding, Owning, Follows, entry
<1>8. \A t \in Sessions \ {s} : tx[t].phase \in Holding => tx[t].key # new.key
  BY <1>6, Names DEF Resolve, RowFree, IInv
<1>9. UNCHANGED <<db, operation>> /\ ToldFromRows'
  BY DEF Resolve, IInv, ToldFromRows
<1> QED BY <1>4, <1>7, <1>8, <1>9, Moves

---------------------------------------------------------------------------
(* The steps of a cast under its two rows.                                 *)

\* A session with the player row, or that finds it free, goes on to a sound state.
LEMMA WorksOn ==
    ASSUME IInv, NEW s \in Sessions, NEW new, tx' = [tx EXCEPT ![s] = new],
           TxOK(new, db, operation), tx[s].phase \in Holding, new.key = tx[s].key,
           tx[s].phase \in Owning \/ PlayerFree, UNCHANGED <<db, operation, told>>
    PROVE  IInv'
<1>1. tx[s].phase \in Owning \/ \A t \in Sessions \ {s} : tx[t].phase \notin Owning
  BY Names DEF IInv, PlayerFree
<1>2. ToldFromRows'
  BY DEF IInv, ToldFromRows
<1> QED BY <1>1, <1>2, Moves

\* A step that leaves the areas alone leaves the copy as sound as it was.
LEMMA SameAreas ==
    ASSUME NEW t, NEW new, NEW w, NEW rows, WorkOK(t, w, rows),
           new.key = t.key, new.area = t.area, Kept(new.work, t.work),
           new.work.unlocked = t.work.unlocked
    PROVE  WorkOK(new, w, rows)
  BY DEF WorkOK, Kept, Open

\* The player row is locked and the area opened.
LEMMA PreflightKeeps ==
    ASSUME IInv, NEW s \in Sessions, Preflight(s)
    PROVE  IInv'
<1>1. TxOK(tx[s], db, operation) /\ tx = [t \in Sessions |-> tx[t]] /\ PlayerOK(db) /\ Unlocked
  BY DEF IInv
<1>2. /\ tx[s].phase = "OPEN" /\ tx[s].row.area = tx[s].area /\ tx[s].row.state = "PENDING"
      /\ db.status = "ACTIVE" /\ PlayerFree /\ UNCHANGED <<db, operation, told>>
  BY DEF Preflight, Castable, IsOfRequest, IsActive
<1> DEFINE work == Entered(db, tx[s].key, tx[s].area)
           cast == CastOf(db, tx[s].area)
           new == [tx[s] EXCEPT !.phase = "LOCKED", !.work = work, !.cast = cast]
<1>3. tx' = [tx EXCEPT ![s] = new]
  BY <1>1 DEF Preflight
<1>4. /\ Kept(work, db) /\ Open(work, tx[s].area) /\ db.unlocked \subseteq work.unlocked
      /\ \A row \in work.unlocked : row \in db.unlocked \/ row.op = tx[s].key
  BY <1>1, EnteredKeeps
<1>5. CastOK(cast, tx[s].area)
  BY <1>1 DEF CastOK, CastOf, Rod, PlayerOK
<1> HIDE DEF work, cast
<1>6. new = [tx[s] EXCEPT !.phase = "LOCKED", !.work = work, !.cast = cast]
  OBVIOUS
<1> HIDE DEF new
<1>7. new = [phase |-> "LOCKED", key |-> tx[s].key, area |-> tx[s].area, row |-> tx[s].row,
             work |-> work, cast |-> cast, legs |-> tx[s].legs, began |-> tx[s].began]
  BY <1>1, <1>6 DEF TxOK
<1>8. WorkOK(new, db, operation)
  BY <1>1, <1>2, <1>4, <1>7 DEF WorkOK, Kept, Unlocked, TxOK
<1>9. TxOK(new, db, operation)
  BY <1>1, <1>2, <1>5, <1>7, <1>8 DEF TxOK, Holding, Owning, Follows
<1>10. tx[s].phase \in Holding /\ new.key = tx[s].key
  BY <1>2, <1>7 DEF Holding
<1> QED BY <1>2, <1>3, <1>9, <1>10, WorksOn

\* The plan is the settled one or the one settled now.
LEMMA SettleBaitsKeeps ==
    ASSUME IInv, NEW s \in Sessions, SettleBaits(s)
    PROVE  IInv'
<1>1. TxOK(tx[s], db, operation) /\ tx = [t \in Sessions |-> tx[t]] /\ tx[s].phase = "LOCKED"
  BY DEF IInv, SettleBaits
<1> DEFINE w == tx[s].work
           settled == Settlement(w, tx[s].key)
           plan == IF settled # {} THEN (CHOOSE e \in settled : TRUE).leg.plan ELSE BaitPlan(w)
           work == IF settled # {} THEN w ELSE Baited(w, tx[s].key)
           cast == [tx[s].cast EXCEPT !.plan = plan]
           new == [tx[s] EXCEPT !.phase = "BAITED", !.work = work, !.cast = cast]
<1>2. tx' = [tx EXCEPT ![s] = new] /\ UNCHANGED <<db, operation, told>>
  <2>1. /\ tx' = [tx EXCEPT ![s].phase = "BAITED", ![s].work = work, ![s].cast.plan = plan]
        /\ UNCHANGED <<db, operation, told>>
    BY DEF SettleBaits
  <2> HIDE DEF work, plan
  <2> QED BY <1>1, <2>1
<1>3. WorkOK(tx[s], db, operation) /\ PlayerOK(w) /\ CastOK(tx[s].cast, tx[s].area)
  BY <1>1 DEF TxOK, WorkOK, Owning
<1>4. plan.rack \in Nat
  <2>1. CASE settled # {}
    <3>1. PICK e : e \in settled /\ plan = e.leg.plan
      BY <2>1
    <3>2. e \in w.log /\ e.leg.kind = "BAITS"
      BY <3>1 DEF Settlement
    <3> QED BY <1>3, <3>1, <3>2 DEF PlayerOK
  <2>2. CASE settled = {}
    BY <1>3, <2>2, BaitedKeeps
  <2> QED BY <2>1, <2>2
<1>5. Kept(work, w) /\ work.unlocked = w.unlocked
  BY <1>3, BaitedKeeps DEF Kept
<1> HIDE DEF plan, work
<1>6. CastOK(cast, tx[s].area) /\ cast.plan = plan
  BY <1>3 DEF CastOK
<1> HIDE DEF cast
<1>7. new = [tx[s] EXCEPT !.phase = "BAITED", !.work = work, !.cast = cast]
  OBVIOUS
<1> HIDE DEF new
<1>8. new = [phase |-> "BAITED", key |-> tx[s].key, area |-> tx[s].area, row |-> tx[s].row,
             work |-> work, cast |-> cast, legs |-> tx[s].legs, began |-> tx[s].began]
  BY <1>1, <1>7 DEF TxOK
<1>9. WorkOK(new, db, operation)
  BY <1>3, <1>5, <1>8, SameAreas
<1>10. TxOK(new, db, operation)
  BY <1>1, <1>4, <1>6, <1>8, <1>9 DEF TxOK, Holding, Owning, Follows
<1>11. tx[s].phase \in Holding /\ tx[s].phase \in Owning /\ new.key = tx[s].key
  BY <1>1, <1>8 DEF Holding, Owning
<1> QED BY <1>2, <1>10, <1>11, WorksOn

\* The legs of the outcome are what is to be staged.
LEMMA SelectKeeps ==
    ASSUME IInv, NEW s \in Sessions, Select(s)
    PROVE  IInv'
<1>1. TxOK(tx[s], db, operation) /\ tx = [t \in Sessions |-> tx[t]] /\ tx[s].phase = "BAITED"
  BY DEF IInv, Select
<1> DEFINE c == tx[s].cast
           root == tx[s].row.root
           legs == LegsOf(OutcomeFor(s), root)
           new == [tx[s] EXCEPT !.phase = "STAGING", !.legs = legs]
<1>2. tx' = [tx EXCEPT ![s] = new] /\ UNCHANGED <<db, operation, told>> /\ Ends(c, root)
  BY <1>1 DEF Select
<1>3. WorkOK(tx[s], db, operation) /\ PlayerOK(tx[s].work) /\ IsRoot(root)
  BY <1>1, RootsAssumption DEF TxOK, WorkOK, Owning, Holding, RowOK
<1>4. legs \in Seq(CastLegs)
  BY <1>2, <1>3, EndsWith DEF OutcomeFor
<1> HIDE DEF legs
<1>5. new = [tx[s] EXCEPT !.phase = "STAGING", !.legs = legs]
  OBVIOUS
<1> HIDE DEF new
<1>6. new = [phase |-> "STAGING", key |-> tx[s].key, area |-> tx[s].area, row |-> tx[s].row,
             work |-> tx[s].work, cast |-> c, legs |-> legs, began |-> tx[s].began]
  BY <1>1, <1>5 DEF TxOK
<1>7. Kept(tx[s].work, tx[s].work)
  BY <1>3 DEF Kept
<1>8. WorkOK(new, db, operation)
  BY <1>3, <1>6, <1>7, SameAreas
<1>9. TxOK(new, db, operation)
  BY <1>1, <1>2, <1>4, <1>6, <1>8 DEF TxOK, Holding, Owning, Follows
<1>10. tx[s].phase \in Holding /\ tx[s].phase \in Owning /\ new.key = tx[s].key
  BY <1>1, <1>6 DEF Holding, Owning
<1> QED BY <1>2, <1>9, <1>10, WorksOn

\* The settlements of an outcome: a leg, the experience, the rod.
LEMMA SettlesKeep ==
    ASSUME IInv, NEW s \in Sessions, NEW phase \in {"STAGING", "LANDED", "WORN"},
           NEW work, NEW legs, Kept(work, tx[s].work), work.unlocked = tx[s].work.unlocked,
           phase = "STAGING" => legs \in Seq(CastLegs),
           tx[s].phase \in {"STAGING", "LANDED"},
           tx' = [tx EXCEPT ![s] = [tx[s] EXCEPT !.phase = phase, !.work = work, !.legs = legs]],
           UNCHANGED <<db, operation, told>>
    PROVE  IInv'
<1>1. TxOK(tx[s], db, operation)
  BY DEF IInv
<1> DEFINE new == [tx[s] EXCEPT !.phase = phase, !.work = work, !.legs = legs]
<1>2. tx' = [tx EXCEPT ![s] = new] /\ new = [tx[s] EXCEPT !.phase = phase, !.work = work, !.legs = legs]
  OBVIOUS
<1> HIDE DEF new
<1>3. new = [phase |-> phase, key |-> tx[s].key, area |-> tx[s].area, row |-> tx[s].row,
             work |-> work, cast |-> tx[s].cast, legs |-> legs, began |-> tx[s].began]
  BY <1>1, <1>2 DEF TxOK
<1>4. WorkOK(tx[s], db, operation)
  BY <1>1 DEF TxOK, Owning
<1>5. WorkOK(new, db, operation)
  BY <1>3, <1>4, SameAreas
<1>6. TxOK(new, db, operation)
  BY <1>1, <1>3, <1>5 DEF TxOK, Holding, Owning, Follows
<1>7. tx[s].phase \in Holding /\ tx[s].phase \in Owning /\ new.key = tx[s].key
  BY <1>3 DEF Holding, Owning
<1> QED BY <1>2, <1>6, <1>7, WorksOn

\* A leg, the experience, the rod.
LEMMA StagesKeep ==
    ASSUME IInv, NEW s \in Sessions, Deliver(s) \/ Progress(s) \/ Wear(s)
    PROVE  IInv'
<1>1. /\ TxOK(tx[s], db, operation) /\ tx = [t \in Sessions |-> tx[t]]
      /\ tx[s].phase \in {"STAGING", "LANDED"}
  BY DEF IInv, Deliver, Progress, Wear
<1>2. PlayerOK(tx[s].work) /\ IsRoot(tx[s].row.root) /\ Ends(tx[s].cast, tx[s].row.root)
  BY <1>1, RootsAssumption DEF TxOK, WorkOK, Owning, Holding, RowOK
<1> DEFINE w == tx[s].work
<1>3. CASE Deliver(s)
  <2> DEFINE leg == Head(tx[s].legs)
             work == Delivered(w, tx[s].key, leg, tx[s].began)
             legs == Tail(tx[s].legs)
  <2>1. tx[s].phase = "STAGING" /\ tx[s].legs # <<>> /\ UNCHANGED <<db, operation, told>>
    BY <1>3 DEF Deliver
  <2>2. leg \in CastLegs /\ legs \in Seq(CastLegs)
    BY <1>1, <2>1 DEF TxOK
  <2>3. Kept(work, w) /\ work.unlocked = w.unlocked
    BY <1>2, <2>2, DeliveredKeeps
  <2>4. tx' = [tx EXCEPT ![s] = [tx[s] EXCEPT !.phase = "STAGING", !.work = work, !.legs = legs]]
    <3>1. tx' = [tx EXCEPT ![s] = [tx[s] EXCEPT !.work = work, !.legs = legs]]
      BY <1>1, <1>3, Zenon DEF Deliver
    <3> HIDE DEF work, legs
    <3>2. [tx[s] EXCEPT !.work = work, !.legs = legs]
              = [tx[s] EXCEPT !.phase = "STAGING", !.work = work, !.legs = legs]
      BY <1>1, <2>1 DEF TxOK
    <3> QED BY <3>1, <3>2
  <2> HIDE DEF work, legs
  <2> QED BY <1>1, <2>1, <2>2, <2>3, <2>4, SettlesKeep
<1>4. CASE Progress(s)
  <2> DEFINE work == Progressed(w, tx[s].key, OutcomeFor(s))
  <2>1. UNCHANGED <<db, operation, told>>
    BY <1>4 DEF Progress
  <2>2. Kept(work, w) /\ work.unlocked = w.unlocked
    BY <1>2, ProgressedKeeps
  <2>3. tx' = [tx EXCEPT ![s] = [tx[s] EXCEPT !.phase = "LANDED", !.work = work,
                                              !.legs = tx[s].legs]]
    <3>1. tx' = [tx EXCEPT ![s] = [tx[s] EXCEPT !.phase = "LANDED", !.work = work]]
      BY <1>1, <1>4, Zenon DEF Progress
    <3> HIDE DEF work
    <3>2. [tx[s] EXCEPT !.phase = "LANDED", !.work = work]
              = [tx[s] EXCEPT !.phase = "LANDED", !.work = work, !.legs = tx[s].legs]
      BY <1>1 DEF TxOK
    <3> QED BY <3>1, <3>2
  <2> HIDE DEF work
  <2> QED BY <1>1, <2>1, <2>2, <2>3, SettlesKeep
<1>5. CASE Wear(s)
  <2> DEFINE c == tx[s].cast
             work == IF Wears(c) THEN Worn(w, tx[s].key, c, OutcomeFor(s).wear) ELSE w
  <2>1. UNCHANGED <<db, operation, told>> /\ (Wears(c) => MayWear(w, c))
    BY <1>5 DEF Wear
  <2>2. Kept(work, w) /\ work.unlocked = w.unlocked
    <3>1. CASE Wears(c)
      <4>1. OutcomeFor(s).wear \in {"LINE_BREAK", "SPARED", "WORN"}
        BY <1>2, <3>1, EndsWith DEF OutcomeFor
      <4> QED BY <1>2, <2>1, <3>1, <4>1, WornKeeps
    <3>2. CASE ~ Wears(c)
      BY <1>2, <3>2 DEF Kept
    <3> QED BY <3>1, <3>2
  <2>3. tx' = [tx EXCEPT ![s] = [tx[s] EXCEPT !.phase = "WORN", !.work = work,
                                              !.legs = tx[s].legs]]
    <3>1. tx' = [tx EXCEPT ![s] = [tx[s] EXCEPT !.phase = "WORN", !.work = work]]
      BY <1>1, <1>5, Zenon DEF Wear
    <3> HIDE DEF work
    <3>2. [tx[s] EXCEPT !.phase = "WORN", !.work = work]
              = [tx[s] EXCEPT !.phase = "WORN", !.work = work, !.legs = tx[s].legs]
      BY <1>1 DEF TxOK
    <3> QED BY <3>1, <3>2
  <2> HIDE DEF work
  <2> QED BY <1>1, <2>1, <2>2, <2>3, SettlesKeep
<1> QED BY <1>3, <1>4, <1>5

---------------------------------------------------------------------------
(* The steps that write the tables.                                        *)

\* A row under a key that had none committed, alone or with the work of its session.
LEMMA Writes ==
    ASSUME IInv, NEW s \in Sessions, NEW row, tx[s].phase \in Holding,
           tx' = [tx EXCEPT ![s] = Idle],
           operation' = [operation EXCEPT ![tx[s].key] = row], RowOK(row),
           operation[tx[s].key].state # "COMMITTED",
           db' = db \/ (tx[s].phase \in Owning /\ db' = tx[s].work),
           row.state = "COMMITTED" => Open(db', row.area),
           ToldFromRows'
    PROVE  IInv'
<1>1. /\ TxOK(tx[s], db, operation) /\ tx[s].key \in Keys
      /\ tx[s].phase \in Owning => WorkOK(tx[s], db, operation)
  BY DEF IInv, TxOK, Holding, Owning
<1>2. tx' = [t \in Sessions |-> IF t = s THEN Idle ELSE tx[t]]
  BY DEF IInv
<1>3. operation' = [k \in Keys |-> IF k = tx[s].key THEN row ELSE operation[k]]
  BY DEF IInv
<1>4. row # NoRow
  BY DEF RowOK, NoRow
<1>5. PlayerOK(db') /\ db.unlocked \subseteq db'.unlocked
  BY <1>1 DEF IInv, WorkOK
<1>6. TxOK(Idle, db', operation') /\ Idle.phase \notin Holding /\ Idle.phase \notin Owning
  BY DEF TxOK, Idle, Holding, Owning
<1>7. ASSUME NEW t \in Sessions, t # s
      PROVE  TxOK(tx[t], db', operation')
  <2>1. TxOK(tx[t], db, operation)
    BY DEF IInv
  <2>2. CASE tx[t].phase \in Holding
    <3>1. tx[t].key # tx[s].key
      BY <1>7, <2>2 DEF IInv, Exclusive
    <3>2. Follows(tx[t], operation) => Follows(tx[t], operation')
      BY <1>3, <2>1, <2>2, <3>1 DEF Follows, TxOK, Holding
    <3>3. tx[t].phase \in Owning => db' = db
      BY <1>7 DEF IInv, Exclusive
    <3>4. tx[t].phase \in Owning => WorkOK(tx[t], db', operation')
      BY <1>3, <1>4, <2>1, <3>3 DEF TxOK, WorkOK
    <3> QED BY <2>1, <3>2, <3>4 DEF TxOK
  <2>3. CASE tx[t].phase \notin Holding
    BY <2>1, <2>3 DEF TxOK, Holding, Owning
  <2> QED BY <2>2, <2>3
<1>8. Exclusive'
  BY <1>2, <1>6 DEF IInv, Exclusive
<1>9. Unlocked'
  <2>1. \A a \in db'.unlocked : a.op \in Keys /\ operation'[a.op] # NoRow
    BY <1>1, <1>3, <1>4 DEF IInv, Unlocked, WorkOK
  <2>2. \A k \in Keys : operation'[k].state = "COMMITTED" => Open(db', operation'[k].area)
    BY <1>3, <1>5 DEF IInv, Unlocked, Open
  <2> QED BY <2>1, <2>2 DEF Unlocked
<1>10. \A k \in Keys : operation'[k] = NoRow \/ RowOK(operation'[k])
  BY <1>3 DEF IInv
<1>11. \A t \in Sessions : TxOK(tx'[t], db', operation')
  BY <1>2, <1>6, <1>7
<1>12. tx' = [t \in Sessions |-> tx'[t]] /\ operation' = [k \in Keys |-> operation'[k]]
  BY <1>2, <1>3
<1> QED BY <1>5, <1>8, <1>9, <1>10, <1>11, <1>12 DEF IInv

\* The row of a key whose session casts is not committed.
LEMMA NotCommitted ==
    ASSUME IInv, NEW s \in Sessions, tx[s].phase \in Holding, tx[s].row.state = "PENDING"
    PROVE  /\ operation[tx[s].key].state # "COMMITTED" /\ RowOK(tx[s].row)
           /\ tx[s].key \in Keys
  BY DEF IInv, TxOK, Follows, Holding, Owning, NoRow

\* The copy becomes the rows and the receipt the answer.
LEMMA CommitKeeps ==
    ASSUME IInv, NEW s \in Sessions, Commit(s)
    PROVE  IInv'
<1> DEFINE old == tx[s].row
           receipt == ReceiptFor(s)
           row == Committed(old, receipt)
           answer == [key |-> tx[s].key, area |-> tx[s].area, receipt |-> receipt]
<1>1. /\ tx[s].phase = "WORN" /\ db' = tx[s].work /\ tx' = [tx EXCEPT ![s] = Idle]
      /\ operation' = [operation EXCEPT ![tx[s].key] = row]
      /\ told' = told \cup {answer}
  BY DEF Commit, TerminalReached, Leave
<1> HIDE DEF receipt
<1>2. /\ TxOK(tx[s], db, operation) /\ tx[s].phase \in Holding /\ tx[s].phase \in Owning
  BY <1>1 DEF IInv, Holding, Owning
<1>3. old.state = "PENDING" /\ old.area = tx[s].area /\ Open(tx[s].work, tx[s].area)
  BY <1>2 DEF TxOK, WorkOK
<1>4. operation[tx[s].key].state # "COMMITTED" /\ RowOK(old) /\ tx[s].key \in Keys
  BY <1>2, <1>3, NotCommitted
<1>0. row = [old EXCEPT !.state = "COMMITTED", !.receipt = receipt]
  BY DEF Committed
<1> HIDE DEF row, old
<1>5. row = [state |-> "COMMITTED", area |-> old.area, root |-> old.root, receipt |-> receipt]
  BY <1>0, <1>4 DEF RowOK, old
<1>6. RowOK(row) /\ row.area = tx[s].area
  BY <1>3, <1>4, <1>5 DEF RowOK, old
<1>7. ToldFromRows'
  <2>1. operation' = [k \in Keys |-> IF k = tx[s].key THEN row ELSE operation[k]]
    BY <1>1 DEF IInv
  <2>2. ToldFromRows
    BY DEF IInv
  <2> QED BY <1>1, <1>3, <1>4, <1>5, <2>1, <2>2 DEF ToldFromRows, old
<1> QED BY <1>1, <1>2, <1>3, <1>4, <1>6, <1>7, Writes

\* An operation row alone, or with the settled baits.
LEMMA SavesKeep ==
    ASSUME IInv, NEW s \in Sessions, SaveRow(s) \/ SaveBaits(s)
    PROVE  IInv'
<1>1. /\ tx' = [tx EXCEPT ![s] = Idle] /\ UNCHANGED told
      /\ operation' = [operation EXCEPT ![tx[s].key] = tx[s].row]
      /\ tx[s].phase \in {"OPEN", "BAITED"}
      /\ db' = db \/ (tx[s].phase = "BAITED" /\ db' = tx[s].work)
      /\ tx[s].phase = "OPEN" => tx[s].row.state = "PENDING"
  BY DEF SaveRow, SaveBaits, Leave, Castable
<1>2. TxOK(tx[s], db, operation) /\ tx[s].phase \in Holding
  BY <1>1 DEF IInv, Holding, Owning
<1>3. tx[s].row.state = "PENDING"
  BY <1>1, <1>2 DEF TxOK, Owning
<1>4. operation[tx[s].key].state # "COMMITTED" /\ RowOK(tx[s].row) /\ tx[s].key \in Keys
  BY <1>2, <1>3, NotCommitted
<1>5. ToldFromRows'
  <2>1. operation' = [k \in Keys |-> IF k = tx[s].key THEN tx[s].row ELSE operation[k]]
    BY <1>1 DEF IInv
  <2>2. ToldFromRows
    BY DEF IInv
  <2> QED BY <1>1, <1>4, <2>1, <2>2 DEF ToldFromRows
<1>6. db' = db \/ (tx[s].phase \in Owning /\ db' = tx[s].work)
  BY <1>1 DEF Owning
<1> QED BY <1>1, <1>2, <1>3, <1>4, <1>5, <1>6, Writes

\* A session that is answered, refused or rolled back.
LEMMA EndsKeep ==
    ASSUME IInv, NEW s \in Sessions, Answer(s) \/ Refuse(s) \/ RollBack(s)
    PROVE  IInv'
<1>1. Leave(s) /\ UNCHANGED <<db, operation>>
  BY DEF Answer, Refuse, RollBack
<1>2. ToldFromRows
  BY DEF IInv
<1>3. ToldFromRows'
  <2>1. CASE Answer(s)
    <3>1. /\ tx[s].phase = "OPEN" /\ tx[s].row.state = "COMMITTED"
          /\ tx[s].row.area = tx[s].area
          /\ told' = told \cup {[key |-> tx[s].key, area |-> tx[s].area,
                                 receipt |-> tx[s].row.receipt]}
      BY <2>1 DEF Answer, IsOfRequest
    <3>2. tx[s].row = operation[tx[s].key] /\ tx[s].key \in Keys
      BY <3>1 DEF IInv, TxOK, Holding, Follows
    <3> QED BY <1>1, <1>2, <3>1, <3>2 DEF ToldFromRows
  <2>2. CASE Refuse(s) \/ RollBack(s)
    BY <1>1, <1>2, <2>2 DEF ToldFromRows, Refuse, RollBack
  <2> QED BY <2>1, <2>2
<1> QED BY <1>1, <1>3, Leaves

\* What happens to the rows while no session has the player row.
LEMMA ElseKeeps ==
    ASSUME IInv, NEW w, Elsewhere(w), PlayerOK(w), w.unlocked = db.unlocked
    PROVE  IInv'
<1>1. db' = w /\ UNCHANGED <<operation, tx, told>>
  BY DEF Elsewhere
<1>2. \A s \in Sessions : tx[s].phase \notin Owning
  BY Names DEF Elsewhere, PlayerFree, IInv
<1>3. \A s \in Sessions : TxOK(tx[s], w, operation)
  BY <1>2 DEF IInv, TxOK, Owning
<1>4. Unlocked'
  BY <1>1 DEF IInv, Unlocked, Open
<1>5. ToldFromRows' /\ Exclusive'
  BY <1>1 DEF IInv, ToldFromRows, Exclusive
<1> QED BY <1>1, <1>3, <1>4, <1>5 DEF IInv

\* What else happens to the rows.
LEMMA ElsesKeep ==
    ASSUME IInv, Else
    PROVE  IInv'
<1>1. PlayerOK(db)
  BY DEF IInv
<1>2. ASSUME NEW w, Elsewhere(w),
             w = [status |-> w.status, stack |-> db.stack, items |-> w.items,
                  pending |-> w.pending, owed |-> db.owed, log |-> db.log, rods |-> db.rods,
                  equipped |-> w.equipped, selection |-> w.selection,
                  unlocked |-> db.unlocked, level |-> w.level, rebirths |-> w.rebirths],
             w.equipped \in RodNames
      PROVE  IInv'
  <2>1. w.rods = db.rods /\ w.unlocked = db.unlocked /\ w.log = db.log
    BY <1>2
  <2>2. w = [status |-> w.status, stack |-> w.stack, items |-> w.items, pending |-> w.pending,
             owed |-> w.owed, log |-> w.log, rods |-> w.rods, equipped |-> w.equipped,
             selection |-> w.selection, unlocked |-> w.unlocked, level |-> w.level,
             rebirths |-> w.rebirths]
    BY <1>2
  <2>3. PlayerOK(w)
    BY <1>1, <1>2, <2>1, <2>2 DEF PlayerOK
  <2> QED BY <1>2, <2>1, <2>3, ElseKeeps
<1>3. ASSUME NEW r \in RodNames, Equip(r) PROVE IInv'
  <2> DEFINE w == [db EXCEPT !.equipped = r]
  <2>1. Elsewhere(w) /\ w = [db EXCEPT !.equipped = r]
    BY <1>3 DEF Equip
  <2> HIDE DEF w
  <2> QED BY <1>1, <1>2, <2>1 DEF PlayerOK
<1>4. ASSUME NEW S, ReplaceBaits(S) PROVE IInv'
  <2> DEFINE w == [db EXCEPT !.selection = S]
  <2>1. Elsewhere(w) /\ w = [db EXCEPT !.selection = S]
    BY <1>4 DEF ReplaceBaits
  <2> HIDE DEF w
  <2> QED BY <1>1, <1>2, <2>1 DEF PlayerOK
<1>5. ASSUME ClaimCatches PROVE IInv'
  <2> DEFINE made == Claimed(db, None, [bag |-> "CATCH_BAG"])
             w == [made EXCEPT !.log = db.log]
  <2>1. Elsewhere(w)
    BY <1>5 DEF ClaimCatches
  <2>2. \E items, pending, log :
            made = [db EXCEPT !.items = items, !.pending = pending, !.log = log]
    BY Zenon DEF Claimed
  <2>3. w = [made EXCEPT !.log = db.log]
    OBVIOUS
  <2> HIDE DEF made, w
  <2>4. PICK items, pending, log :
            made = [db EXCEPT !.items = items, !.pending = pending, !.log = log]
    BY <2>2
  <2>5. made = [status |-> db.status, stack |-> db.stack, items |-> items,
                pending |-> pending, owed |-> db.owed, log |-> log, rods |-> db.rods,
                equipped |-> db.equipped, selection |-> db.selection,
                unlocked |-> db.unlocked, level |-> db.level, rebirths |-> db.rebirths]
    BY <1>1, <2>4 DEF PlayerOK
  <2>6. w = [status |-> db.status, stack |-> db.stack, items |-> items,
             pending |-> pending, owed |-> db.owed, log |-> db.log, rods |-> db.rods,
             equipped |-> db.equipped, selection |-> db.selection,
             unlocked |-> db.unlocked, level |-> db.level, rebirths |-> db.rebirths]
    BY <2>3, <2>5
  <2>7. w.equipped \in RodNames
    BY <1>1, <2>6 DEF PlayerOK
  <2> QED BY <1>2, <2>1, <2>6, <2>7
<1>6. ASSUME NEW i \in DOMAIN db.items, TakeOut(i) PROVE IInv'
  <2> DEFINE items == [db.items EXCEPT ![i].at = "ELSEWHERE"]
             w == [db EXCEPT !.items = items]
  <2>1. Elsewhere(w)
    BY <1>6, Zenon DEF TakeOut
  <2>2. w = [db EXCEPT !.items = items]
    OBVIOUS
  <2> HIDE DEF items, w
  <2> QED BY <1>1, <1>2, <2>1, <2>2 DEF PlayerOK
<1>7. ASSUME NEW status, SetStatus(status) PROVE IInv'
  <2> DEFINE w == [db EXCEPT !.status = status]
  <2>1. Elsewhere(w) /\ w = [db EXCEPT !.status = status]
    BY <1>7 DEF SetStatus
  <2> HIDE DEF w
  <2> QED BY <1>1, <1>2, <2>1 DEF PlayerOK
<1>8. ASSUME NEW n, Level(n) PROVE IInv'
  <2> DEFINE w == [db EXCEPT !.level = n]
  <2>1. Elsewhere(w) /\ w = [db EXCEPT !.level = n]
    BY <1>8 DEF Level
  <2> HIDE DEF w
  <2> QED BY <1>1, <1>2, <2>1 DEF PlayerOK
<1>9. ASSUME Rebirth PROVE IInv'
  <2> DEFINE count == db.rebirths + 1
             w == [db EXCEPT !.level = 1, !.rebirths = count]
  <2>1. Elsewhere(w)
    BY <1>9 DEF Rebirth
  <2> HIDE DEF count
  <2>2. w = [db EXCEPT !.level = 1, !.rebirths = count]
    OBVIOUS
  <2> HIDE DEF w
  <2>3. w = [status |-> db.status, stack |-> db.stack, items |-> db.items,
             pending |-> db.pending, owed |-> db.owed, log |-> db.log, rods |-> db.rods,
             equipped |-> db.equipped, selection |-> db.selection,
             unlocked |-> db.unlocked, level |-> 1, rebirths |-> count]
    BY <1>1, <2>2 DEF PlayerOK
  <2>4. w.equipped \in RodNames
    BY <1>1, <2>3 DEF PlayerOK
  <2> QED BY <1>2, <2>1, <2>3, <2>4
<1> QED BY <1>3, <1>4, <1>5, <1>6, <1>7, <1>8, <1>9 DEF Else

---------------------------------------------------------------------------
(* The invariant.                                                          *)

\* At the start nobody has a row.
LEMMA InitHolds == Init => IInv
<1> SUFFICES ASSUME Init PROVE IInv
  OBVIOUS
<1>1. PICK r \in RodNames : db = Rows(r)
  BY DEF Init
<1>2. PlayerOK(db) /\ db.unlocked = {}
  BY <1>1, RodsAssumption DEF PlayerOK, Rows, RodNames
<1>3. tx = [s \in Sessions |-> Idle] /\ operation = [k \in Keys |-> NoRow] /\ told = {}
  BY DEF Init
<1>4. TxOK(Idle, db, operation) /\ Idle.phase \notin Holding /\ Idle.phase \notin Owning
  BY DEF TxOK, Idle, Holding, Owning
<1>5. Exclusive
  BY <1>3, <1>4 DEF Exclusive
<1>6. Unlocked /\ ToldFromRows
  BY <1>2, <1>3 DEF Unlocked, ToldFromRows, NoRow
<1> QED BY <1>2, <1>3, <1>4, <1>5, <1>6 DEF IInv

\* Every step keeps the invariant.
LEMMA NextKeeps == IInv /\ [Next]_vars => IInv'
<1> SUFFICES ASSUME IInv, [Next]_vars PROVE IInv'
  OBVIOUS
<1>1. CASE UNCHANGED vars
  BY <1>1 DEF vars, IInv, Exclusive, Unlocked, ToldFromRows
<1>2. ASSUME NEW s \in Sessions, Begin(s) \/ Step(s) \/ SaveRow(s) \/ SaveBaits(s) \/ RollBack(s)
      PROVE  IInv'
  BY <1>2, BeginKeeps, ResolveKeeps, PreflightKeeps, SettleBaitsKeeps, SelectKeeps, StagesKeep,
     CommitKeeps, SavesKeep, EndsKeep DEF Step
<1> QED BY <1>1, <1>2, ElsesKeep DEF Next

\* One session has the operation row of a key and one the player row, and what each
\* works on follows from what is committed.
THEOREM RowsHeld == Spec => []IInv
  BY InitHolds, NextKeeps, PTL DEF Spec

\* A request is told what the first one under its key was told: all answers are read
\* from the row that one of them committed.
THEOREM OneReceipt == Spec => []RepliesAgree
<1>1. IInv => RepliesAgree
  BY DEF IInv, ToldFromRows, RepliesAgree
<1> QED BY <1>1, RowsHeld, PTL

\* An area is opened once, by an operation that exists, and nobody has cast in an
\* area that is not open.
THEOREM AreasStayOpen == Spec => []UnlocksStand
<1>1. IInv => UnlocksStand
  <2> SUFFICES ASSUME IInv PROVE UnlocksStand
    OBVIOUS
  <2>1. \A a \in db.unlocked, b \in db.unlocked : a.area = b.area => a = b
    BY DEF IInv, PlayerOK
  <2>2. Unlocked
    BY DEF IInv
  <2> QED BY <2>1, <2>2 DEF Unlocked, UnlocksStand, Done
<1> QED BY <1>1, RowsHeld, PTL

\* The terminal of a route accepts every outcome the route ends with, for every rod,
\* area and root, unless the baits were settled on a rod with Bait Rack.
THEOREM TerminalAccepts == Spec => []TerminalAgrees
<1>1. IInv => TerminalAgrees
  <2> SUFFICES ASSUME IInv, NEW s \in Sessions, tx[s].phase = "WORN",
                      ~ (tx[s].cast.plan.rack > 0)
               PROVE  Checks(ReceiptFor(s))
    BY DEF TerminalAgrees
  <2> DEFINE c == tx[s].cast
             root == tx[s].row.root
  <2>1. /\ IsRoot(root) /\ IsRod(c.rod) /\ Ends(c, root) /\ c.plan.rack \in Nat
    BY RootsAssumption DEF IInv, TxOK, Holding, Owning, RowOK, CastOK
  <2>2. c.plan.rack = 0
    BY <2>1
  <2>3. Checks(ReceiptOf(RouteOf(c), c, OutcomeOf(RouteOf(c), c, root)))
    BY <2>1, <2>2, RouteChecks
  <2> QED BY <2>3 DEF ReceiptFor, OutcomeFor
<1> QED BY <1>1, RowsHeld, PTL

---------------------------------------------------------------------------
(* What a step may not do.                                                 *)

\* Whoever writes the row of a key has it, and the row keeps its request and root.
LEMMA RowWrites ==
    ASSUME IInv, [Next]_vars, operation' # operation
    PROVE  \E s \in Sessions : \E row :
               /\ tx[s].phase \in Holding /\ tx[s].key \in Keys
               /\ operation' = [operation EXCEPT ![tx[s].key] = row]
               /\ row # NoRow /\ operation[tx[s].key].state # "COMMITTED"
               /\ row.area = tx[s].row.area /\ row.root = tx[s].row.root
<1>1. PICK s \in Sessions : SaveRow(s) \/ SaveBaits(s) \/ Commit(s)
  BY DEF Next, Step, Begin, Resolve, Answer, Preflight, SettleBaits, Select, Deliver,
     Progress, Wear, Refuse, RollBack, Else, Equip, ReplaceBaits, ClaimCatches, TakeOut,
     SetStatus, Level, Rebirth, Elsewhere, vars
<1>2. tx[s].phase \in Holding /\ TxOK(tx[s], db, operation)
  BY <1>1 DEF SaveRow, SaveBaits, Commit, Castable, TerminalReached, Holding, Owning, IInv
<1>3. tx[s].row.state = "PENDING"
  BY <1>1, <1>2 DEF SaveRow, SaveBaits, Commit, Castable, TerminalReached, TxOK, Owning
<1>4. operation[tx[s].key].state # "COMMITTED" /\ RowOK(tx[s].row) /\ tx[s].key \in Keys
  BY <1>2, <1>3, NotCommitted
<1>5. CASE SaveRow(s) \/ SaveBaits(s)
  <2>1. operation' = [operation EXCEPT ![tx[s].key] = tx[s].row] /\ tx[s].row # NoRow
    BY <1>4, <1>5 DEF SaveRow, SaveBaits, RowOK, NoRow
  <2> QED BY <1>2, <1>4, <2>1
<1>6. CASE Commit(s)
  <2> DEFINE old == tx[s].row
             receipt == ReceiptFor(s)
             row == [old EXCEPT !.state = "COMMITTED", !.receipt = receipt]
  <2>1. operation' = [operation EXCEPT ![tx[s].key] = row]
    BY <1>6 DEF Commit, Committed
  <2>2. row = [old EXCEPT !.state = "COMMITTED", !.receipt = receipt]
    OBVIOUS
  <2> HIDE DEF row, receipt
  <2>3. row = [state |-> "COMMITTED", area |-> old.area, root |-> old.root,
               receipt |-> receipt]
    BY <1>4, <2>2 DEF RowOK
  <2>4. row # NoRow /\ row.area = old.area /\ row.root = old.root
    BY <2>3 DEF NoRow
  <2> QED BY <1>2, <1>4, <2>1, <2>4
<1> QED BY <1>1, <1>5, <1>6

\* A root, once drawn, and a receipt, once given, stand.
THEOREM RootsStand == Spec => RootsPinned
<1>1. IInv /\ [Next]_vars =>
          [\A k \in Keys :
              operation[k] # NoRow =>
                  /\ operation'[k] # NoRow
                  /\ operation'[k].root = operation[k].root
                  /\ operation'[k].area = operation[k].area
                  /\ Done(k) => operation'[k] = operation[k]]_vars
  <2> SUFFICES ASSUME IInv, [Next]_vars, NEW k \in Keys, operation[k] # NoRow
               PROVE  /\ operation'[k] # NoRow
                      /\ operation'[k].root = operation[k].root
                      /\ operation'[k].area = operation[k].area
                      /\ Done(k) => operation'[k] = operation[k]
    OBVIOUS
  <2>1. CASE operation' = operation
    BY <2>1
  <2>2. CASE operation' # operation
    <3>0. PICK s \in Sessions : \E row :
                  /\ tx[s].phase \in Holding /\ tx[s].key \in Keys
                  /\ operation' = [operation EXCEPT ![tx[s].key] = row]
                  /\ row # NoRow /\ operation[tx[s].key].state # "COMMITTED"
                  /\ row.area = tx[s].row.area /\ row.root = tx[s].row.root
      BY <2>2, RowWrites
    <3>1. PICK row :
              /\ tx[s].phase \in Holding /\ tx[s].key \in Keys
              /\ operation' = [operation EXCEPT ![tx[s].key] = row]
              /\ row # NoRow /\ operation[tx[s].key].state # "COMMITTED"
              /\ row.area = tx[s].row.area /\ row.root = tx[s].row.root
      BY <3>0
    <3>2. operation' = [q \in Keys |-> IF q = tx[s].key THEN row ELSE operation[q]]
      BY <3>1 DEF IInv
    <3>3. k = tx[s].key => tx[s].row = operation[k]
      BY <3>1 DEF IInv, TxOK, Follows
    <3> QED BY <3>1, <3>2, <3>3 DEF Done
  <2> QED BY <2>1, <2>2
<1> QED BY <1>1, RowsHeld, PTL DEF Spec, RootsPinned

\* A frozen account's rows are written by nobody: a cast commits while it has the
\* player row of an active one.
THEOREM FrozenStands == Spec => FrozenKept
<1>1. IInv /\ [Next]_vars =>
          [db.status = "FROZEN" => db' = [db EXCEPT !.status = db'.status]]_vars
  <2> SUFFICES ASSUME IInv, [Next]_vars, db.status = "FROZEN"
               PROVE  db' = [db EXCEPT !.status = db'.status]
    OBVIOUS
  <2>1. PlayerOK(db)
    BY DEF IInv
  <2>2. CASE db' = db
    BY <2>1, <2>2 DEF PlayerOK
  <2>3. CASE \E status : db' = [db EXCEPT !.status = status]
    BY <2>1, <2>3 DEF PlayerOK
  <2>4. \A s \in Sessions : ~ Commit(s) /\ ~ SaveBaits(s)
    BY DEF Commit, SaveBaits, TerminalReached, IInv, TxOK, Owning, WorkOK
  <2>5. db' = db \/ \E status : db' = [db EXCEPT !.status = status]
    BY <2>4 DEF Next, Step, Begin, Resolve, Answer, Preflight, SettleBaits, Select, Deliver,
       Progress, Wear, Refuse, RollBack, SaveRow, Else, Equip, ReplaceBaits, ClaimCatches,
       TakeOut, SetStatus, Level, Rebirth, Elsewhere, IsActive, vars
  <2> QED BY <2>2, <2>3, <2>5
<1> QED BY <1>1, RowsHeld, PTL DEF Spec, FrozenKept

---------------------------------------------------------------------------
(* The events and items of an operation: what a cast has settled so far.   *)

\* The legs an operation has paid beside its baits, and the items it made.
Paid(w, o) == {e.leg : e \in {e \in Events(w, o) : e.leg.kind \notin {"BAITS", "CONSUME"}}}
Mine(w, o) == {i \in DOMAIN w.items : w.items[i].op = o}

WearEvents(w, r, how) ==
    {e \in w.log : e.leg.kind = "WEAR" /\ e.leg.rod = r /\ e.leg.how = how}

ItemKeys == {"fishing:fish:slot", "fishing:book:slot"}
ItemPlaces == Bags \cup {"TEMP_OVERFLOW", "ELSEWHERE"}
ItemRows == [op : Keys, key : ItemKeys, size : Nat, at : ItemPlaces]

RodsCounted(w) ==
    \A r \in RodNames :
        /\ w.rods[r].max = RodRows[r].max /\ IsFiniteSet(WearEvents(w, r, "WORN"))
        /\ w.rods[r].left = IF WearEvents(w, r, "LINE_BREAK") # {} THEN 0
                            ELSE RodRows[r].left - Cardinality(WearEvents(w, r, "WORN"))

BooksOK(w) == w.items \in Seq(ItemRows) /\ RodsCounted(w)

\* Another operation's events and items, which a cast leaves alone.
Alone(new, w, o) ==
    \A q \in Keys \ {o} : Events(new, q) = Events(w, q) /\ Mine(new, q) = Mine(w, q)

\* What an outcome is paid with: its items, its experience, the rod.
ItemsOf(outcome) == IF outcome.kind \in {"FISH", "BOOK"} THEN outcome.n ELSE 0
Experience(outcome) == IF Landed(outcome) THEN {ProgressLeg} ELSE {}
WearOf(c, outcome) == IF Wears(c) THEN {WearLeg(c, outcome.wear)} ELSE {}

OutcomeIn(t) == OutcomeOf(RouteOf(t.cast), t.cast, t.row.root)

\* What is paid and what is still to be paid make up the outcome.
Staged(t, w) ==
    LET o == OutcomeIn(t)
        all == Range(LegsOf(o, t.row.root))
    IN  /\ BooksOK(t.work) /\ Alone(t.work, w, t.key)
        /\ t.phase \in {"LOCKED", "BAITED"} => Paid(t.work, t.key) = {} /\ Mine(t.work, t.key) = {}
        /\ IsFiniteSet(Mine(t.work, t.key))
        /\ t.phase = "STAGING" =>
               /\ Paid(t.work, t.key) \cup Range(t.legs) = all
               /\ Cardinality(Mine(t.work, t.key))
                      + (IF o.kind \in {"FISH", "BOOK"} THEN Len(t.legs) ELSE 0) = ItemsOf(o)
        /\ t.phase \in {"LANDED", "WORN"} => Cardinality(Mine(t.work, t.key)) = ItemsOf(o)
        /\ t.phase = "LANDED" => Paid(t.work, t.key) = all \cup Experience(o)
        /\ t.phase = "WORN" =>
               /\ Paid(t.work, t.key) = all \cup Experience(o) \cup WearOf(t.cast, o)
               /\ Wears(t.cast) => /\ t.cast.name \in RodNames
                                   /\ t.cast.rod.left \in 1 .. RodRows[t.cast.name].max

PromisedBy(row, worn) ==
    LET outcome == row.receipt.outcome
    IN  Range(LegsOf(outcome, row.root))
            \cup (IF Landed(outcome) THEN {ProgressLeg} ELSE {})
            \cup (IF row.receipt.route = "STARTER" THEN {} ELSE {WearLeg(worn, outcome.wear)})

\* The books of one key: all of what its receipt promises, or nothing.
KeyBooks(w, k, row) ==
    LET done == row # NoRow /\ row.state = "COMMITTED"
    IN  /\ done =>
               /\ \E r \in RodNames : \E left \in 1 .. RodRows[r].max + 1 :
                      Paid(w, k) = PromisedBy(row, [name |-> r, rod |-> [left |-> left]])
               /\ Cardinality(Mine(w, k)) = ItemsOf(row.receipt.outcome)
        /\ ~ done => Paid(w, k) = {} /\ Mine(w, k) = {}
        /\ row = NoRow => Events(w, k) = {}

Books ==
    /\ IInv
    /\ BooksOK(db) /\ \A k \in Keys : KeyBooks(db, k, operation[k])
    /\ \A s \in Sessions : tx[s].phase \in Owning => Staged(tx[s], db)

\* An event of an operation is one more leg it has paid, and nobody else's.
LEMMA Enters ==
    ASSUME NEW w, NEW new, NEW o, NEW leg, NEW overflow,
           new.log = w.log \cup {Entry(o, leg, overflow)}
    PROVE  /\ \A q : q # o => Events(new, q) = Events(w, q)
           /\ leg.kind \notin {"BAITS", "CONSUME"} => Paid(new, o) = Paid(w, o) \cup {leg}
<1> DEFINE entry == Entry(o, leg, overflow)
<1>1. new.log = w.log \cup {entry} /\ entry.op = o /\ entry.leg = leg
  BY DEF Entry
<1> HIDE DEF entry
<1> QED BY <1>1 DEF Events, Paid

\* A log that grows by an event of another kind counts the same wear.
LEMMA NoWear ==
    ASSUME NEW w, NEW new, RodsCounted(w), new.rods = w.rods, NEW o, NEW leg, NEW overflow,
           new.log = w.log \cup {Entry(o, leg, overflow)}, leg.kind # "WEAR"
    PROVE  RodsCounted(new)
<1> DEFINE entry == Entry(o, leg, overflow)
<1>1. new.log = w.log \cup {entry} /\ entry.leg.kind # "WEAR"
  BY DEF Entry
<1> HIDE DEF entry
<1>2. \A r, how : WearEvents(new, r, how) = WearEvents(w, r, how)
  BY <1>1 DEF WearEvents
<1> QED BY <1>2 DEF RodsCounted

\* An item that is made is its operation's.
LEMMA Made ==
    ASSUME NEW w, w.items \in Seq(ItemRows), NEW new, NEW item \in ItemRows,
           new.items = Append(w.items, item)
    PROVE  /\ new.items \in Seq(ItemRows)
           /\ \A q : q # item.op => Mine(new, q) = Mine(w, q)
           /\ Mine(new, item.op) = Mine(w, item.op) \cup {Len(w.items) + 1}
           /\ Len(w.items) + 1 \notin Mine(w, item.op)
<1>1. /\ DOMAIN new.items = DOMAIN w.items \cup {Len(w.items) + 1}
      /\ DOMAIN w.items = 1 .. Len(w.items) /\ Len(w.items) \in Nat
      /\ \A i \in DOMAIN w.items : new.items[i] = w.items[i]
      /\ new.items[Len(w.items) + 1] = item
  OBVIOUS
<1>2. Len(w.items) + 1 \notin DOMAIN w.items
  BY <1>1
<1> QED BY <1>1, <1>2 DEF Mine

\* A leg is an event more, and one item more when it is an item.
LEMMA DeliveredPays ==
    ASSUME NEW w, PlayerOK(w), BooksOK(w), NEW o \in Keys, NEW leg \in CastLegs, NEW began
    PROVE  LET new == Delivered(w, o, leg, began)
           IN  /\ BooksOK(new) /\ Alone(new, w, o) /\ Paid(new, o) = Paid(w, o) \cup {leg}
               /\ IF leg.kind \in InstanceKinds
                  THEN \E i : i \notin Mine(w, o) /\ Mine(new, o) = Mine(w, o) \cup {i}
                  ELSE Mine(new, o) = Mine(w, o)
<1> DEFINE new == Delivered(w, o, leg, began)
<1>1. leg.kind \in {"FISH", "UNIQUE", "DELIVER"}
  BY DEF CastLegs, FishLeg, BookLeg, GoodsLeg, JunkLeg
<1>2. ASSUME NEW overflow, new.log = w.log \cup {Entry(o, leg, overflow)}, new.rods = w.rods
      PROVE  /\ RodsCounted(new) /\ Paid(new, o) = Paid(w, o) \cup {leg}
             /\ \A q : q # o => Events(new, q) = Events(w, q)
  <2> HIDE DEF new
  <2>1. /\ \A q : q # o => Events(new, q) = Events(w, q)
        /\ Paid(new, o) = Paid(w, o) \cup {leg}
    BY <1>1, <1>2, Enters
  <2>2. RodsCounted(new)
    BY <1>1, <1>2, NoWear DEF BooksOK
  <2> QED BY <2>1, <2>2
<1>3. CASE leg.kind \in InstanceKinds
  <2> DEFINE fits == Used(w, leg.bag) + leg.size <= Capacity(leg.bag)
             at == IF fits THEN leg.bag ELSE "TEMP_OVERFLOW"
             item == [op |-> o, key |-> leg.key, size |-> leg.size, at |-> at]
             items == Append(w.items, item)
  <2>1. \E pending, overflow :
            new = [w EXCEPT !.items = items, !.pending = pending,
                            !.log = w.log \cup {Entry(o, leg, overflow)}]
    BY <1>3, Zenon DEF Delivered, Minted
  <2>2. leg.key \in ItemKeys /\ leg.size \in Nat /\ leg.bag \in Bags
    <3>1. CASE \E i \in Nat, grams \in Nat : leg = FishLeg(i, grams)
      BY <3>1 DEF FishLeg, ItemKeys, Bags
    <3>2. CASE \E i \in Nat : leg = BookLeg(i)
      BY <3>2 DEF BookLeg, ItemKeys, Bags
    <3> QED BY <1>3, <3>1, <3>2 DEF CastLegs, GoodsLeg, JunkLeg, InstanceKinds
  <2> HIDE DEF fits
  <2>0. at \in ItemPlaces
    BY <2>2 DEF ItemPlaces
  <2> HIDE DEF at
  <2>3. item \in ItemRows /\ item.op = o
    BY <2>0, <2>2 DEF ItemRows
  <2> HIDE DEF new, item, items
  <2>4. PICK pending, overflow :
            new = [w EXCEPT !.items = items, !.pending = pending,
                            !.log = w.log \cup {Entry(o, leg, overflow)}]
    BY <2>1
  <2>5. /\ new.items = items /\ new.rods = w.rods
        /\ new.log = w.log \cup {Entry(o, leg, overflow)}
    BY <2>4 DEF PlayerOK
  <2>6. /\ new.items \in Seq(ItemRows)
        /\ \A q : q # o => Mine(new, q) = Mine(w, q)
        /\ Mine(new, o) = Mine(w, o) \cup {Len(w.items) + 1}
        /\ Len(w.items) + 1 \notin Mine(w, o)
    <3>1. new.items = Append(w.items, item) /\ w.items \in Seq(ItemRows)
      BY <2>5 DEF BooksOK, items
    <3>2. /\ new.items \in Seq(ItemRows)
          /\ \A q : q # item.op => Mine(new, q) = Mine(w, q)
          /\ Mine(new, item.op) = Mine(w, item.op) \cup {Len(w.items) + 1}
          /\ Len(w.items) + 1 \notin Mine(w, item.op)
      BY <2>3, <3>1, Made
    <3> QED BY <2>3, <3>2
  <2>7. /\ RodsCounted(new) /\ Paid(new, o) = Paid(w, o) \cup {leg}
        /\ \A q : q # o => Events(new, q) = Events(w, q)
    BY <1>2, <2>5
  <2>8. BooksOK(new) /\ Alone(new, w, o)
    BY <2>6, <2>7 DEF BooksOK, Alone
  <2> QED BY <1>3, <2>6, <2>7, <2>8 DEF new
<1>4. CASE leg.kind \notin InstanceKinds
  <2>1. \/ \E stack : new = [w EXCEPT !.stack = stack, !.log = w.log \cup {Entry(o, leg, FALSE)}]
        \/ \E owed : new = [w EXCEPT !.owed = owed, !.log = w.log \cup {Entry(o, leg, TRUE)}]
    BY <1>1, <1>4, Zenon DEF Delivered, StackDelivered
  <2> HIDE DEF new
  <2>2. PICK overflow :
            \/ \E stack : new = [w EXCEPT !.stack = stack,
                                          !.log = w.log \cup {Entry(o, leg, overflow)}]
            \/ \E owed : new = [w EXCEPT !.owed = owed,
                                         !.log = w.log \cup {Entry(o, leg, overflow)}]
    BY <2>1, Zenon
  <2>3. /\ new.items = w.items /\ new.rods = w.rods
        /\ new.log = w.log \cup {Entry(o, leg, overflow)}
    BY <2>2 DEF PlayerOK
  <2>4. \A q : Mine(new, q) = Mine(w, q)
    BY <2>3 DEF Mine
  <2>5. /\ RodsCounted(new) /\ Paid(new, o) = Paid(w, o) \cup {leg}
        /\ \A q : q # o => Events(new, q) = Events(w, q)
    BY <1>2, <2>3
  <2>6. BooksOK(new) /\ Alone(new, w, o)
    BY <2>3, <2>4, <2>5 DEF BooksOK, Alone
  <2> QED BY <1>4, <2>4, <2>5, <2>6 DEF new
<1> QED BY <1>3, <1>4

\* The baits and their plan are no part of what the receipt promises.
LEMMA BaitedPays ==
    ASSUME NEW w, PlayerOK(w), BooksOK(w), NEW o \in Keys
    PROVE  LET new == Baited(w, o)
           IN  /\ BooksOK(new) /\ Alone(new, w, o)
               /\ Paid(new, o) = Paid(w, o) /\ Mine(new, o) = Mine(w, o)
<1> DEFINE new == Baited(w, o)
           plan == BaitPlan(w)
           S == {Entry(o, BaitLeg(b), FALSE) : b \in plan.used}
                    \cup {Entry(o, PlanLeg(plan), FALSE)}
<1>1. \E stack, selection :
          new = [w EXCEPT !.stack = stack, !.selection = selection,
                          !.log = w.log \cup {Entry(o, BaitLeg(b), FALSE) : b \in plan.used}
                                       \cup {Entry(o, PlanLeg(plan), FALSE)}]
  BY Zenon DEF Baited
<1> HIDE DEF plan
<1>2. \A e \in S : e.op = o /\ e.leg.kind \in {"BAITS", "CONSUME"}
  BY DEF Entry, BaitLeg, PlanLeg
<1> HIDE DEF new
<1>3. /\ new.items = w.items /\ new.rods = w.rods
      /\ new.log = w.log \cup {Entry(o, BaitLeg(b), FALSE) : b \in plan.used}
                         \cup {Entry(o, PlanLeg(plan), FALSE)}
  BY <1>1 DEF PlayerOK
<1>4. new.log = w.log \cup S
  BY <1>3
<1> HIDE DEF S
<1>5. \A q : Mine(new, q) = Mine(w, q)
  BY <1>3 DEF Mine
<1>7. /\ \A q : q # o => Events(new, q) = Events(w, q)
      /\ Paid(new, o) = Paid(w, o)
  BY <1>2, <1>4 DEF Events, Paid
<1>8. RodsCounted(new)
  <2>1. \A r, how : WearEvents(new, r, how) = WearEvents(w, r, how)
    BY <1>2, <1>4 DEF WearEvents
  <2> QED BY <1>3, <2>1 DEF RodsCounted, BooksOK
<1>9. BooksOK(new) /\ Alone(new, w, o)
  BY <1>3, <1>5, <1>7, <1>8 DEF BooksOK, Alone
<1> QED BY <1>5, <1>7, <1>9 DEF new

\* Rows with the same events, items and rods have the same books.
LEMMA SameBooks ==
    ASSUME NEW w, NEW new, new.items = w.items, new.log = w.log, new.rods = w.rods
    PROVE  /\ BooksOK(w) => BooksOK(new)
           /\ \A q : /\ Events(new, q) = Events(w, q) /\ Mine(new, q) = Mine(w, q)
                    /\ Paid(new, q) = Paid(w, q)
<1>1. /\ \A q : Events(new, q) = Events(w, q) /\ Mine(new, q) = Mine(w, q)
      /\ \A r, how : WearEvents(new, r, how) = WearEvents(w, r, how)
  BY DEF Events, Mine, WearEvents
<1>2. \A q : Paid(new, q) = Paid(w, q)
  BY <1>1 DEF Paid
<1>3. BooksOK(w) => BooksOK(new)
  BY <1>1 DEF BooksOK, RodsCounted
<1> QED BY <1>1, <1>2, <1>3

\* Experience is an event more.
LEMMA ProgressedPays ==
    ASSUME NEW w, PlayerOK(w), BooksOK(w), NEW o \in Keys, NEW outcome
    PROVE  LET new == Progressed(w, o, outcome)
           IN  /\ BooksOK(new) /\ Alone(new, w, o) /\ Mine(new, o) = Mine(w, o)
               /\ Paid(new, o) = Paid(w, o) \cup Experience(outcome)
<1> DEFINE new == Progressed(w, o, outcome)
<1>1. CASE ~ Landed(outcome)
  BY <1>1 DEF Progressed, Experience, Alone
<1>2. CASE Landed(outcome)
  <2> DEFINE overflow == FALSE
  <2>1. new = [w EXCEPT !.log = w.log \cup {Entry(o, ProgressLeg, overflow)}]
    BY <1>2 DEF Progressed
  <2> HIDE DEF new, overflow
  <2>2. /\ new.log = w.log \cup {Entry(o, ProgressLeg, overflow)} /\ new.rods = w.rods
        /\ new.items = w.items
    BY <2>1 DEF PlayerOK
  <2>3. ProgressLeg.kind \notin {"BAITS", "CONSUME"} /\ ProgressLeg.kind # "WEAR"
    BY DEF ProgressLeg
  <2>4. /\ \A q : q # o => Events(new, q) = Events(w, q)
        /\ Paid(new, o) = Paid(w, o) \cup {ProgressLeg}
    BY <2>2, <2>3, Enters
  <2>5. RodsCounted(new)
    BY <2>2, <2>3, NoWear DEF BooksOK
  <2>6. \A q : Mine(new, q) = Mine(w, q)
    BY <2>2 DEF Mine
  <2>7. BooksOK(new) /\ Alone(new, w, o)
    BY <2>2, <2>4, <2>5, <2>6 DEF BooksOK, Alone
  <2> QED BY <1>2, <2>4, <2>6, <2>7 DEF Experience, new
<1> QED BY <1>1, <1>2

\* A rod that wears has one event more, and what it had left before.
LEMMA WornPays ==
    ASSUME NEW w, PlayerOK(w), BooksOK(w), NEW o \in Keys, NEW c, MayWear(w, c),
           NEW wear \in {"LINE_BREAK", "SPARED", "WORN"}, WearLeg(c, wear) \notin Paid(w, o)
    PROVE  LET new == Worn(w, o, c, wear)
           IN  /\ BooksOK(new) /\ Alone(new, w, o) /\ Mine(new, o) = Mine(w, o)
               /\ Paid(new, o) = Paid(w, o) \cup {WearLeg(c, wear)}
               /\ c.name \in RodNames /\ c.rod.left \in 1 .. RodRows[c.name].max
<1> DEFINE new == Worn(w, o, c, wear)
           leg == WearLeg(c, wear)
           overflow == FALSE
           entry == Entry(o, leg, overflow)
           rods == [w.rods EXCEPT ![c.name].left = Left(@, wear)]
<1>1. new = [w EXCEPT !.rods = rods, !.log = w.log \cup {entry}]
  BY Zenon DEF Worn, PlayerOK
<1>2. /\ c.name \in RodNames /\ IsRod(w.rods[c.name]) /\ c.rod.left = w.rods[c.name].left
      /\ w.rods[c.name].left > 0 /\ w.rods[c.name].max = RodRows[c.name].max
  BY DEF MayWear, Rod, PlayerOK, BooksOK, RodsCounted
<1>3. /\ \A r \in RodNames \ {c.name} : rods[r] = w.rods[r]
      /\ rods[c.name].left = Left(w.rods[c.name].left, wear)
      /\ rods[c.name].max = w.rods[c.name].max
  BY <1>2 DEF PlayerOK, IsRod
<1>4. /\ leg.kind = "WEAR" /\ leg.kind \notin {"BAITS", "CONSUME"} /\ leg.rod = c.name /\ leg.how = wear
      /\ entry.op = o /\ entry.leg = leg
  BY DEF WearLeg, Entry
<1> HIDE DEF new, rods, leg, overflow
<1>5. /\ new.rods = rods /\ new.items = w.items
      /\ new.log = w.log \cup {Entry(o, leg, overflow)}
  BY <1>1 DEF PlayerOK
<1>6. /\ \A q : q # o => Events(new, q) = Events(w, q)
      /\ Paid(new, o) = Paid(w, o) \cup {leg}
  <2>1. leg.kind \notin {"BAITS", "CONSUME"} /\ new.log = w.log \cup {Entry(o, leg, overflow)}
    BY <1>4, <1>5
  <2> QED BY <2>1, Enters
<1> HIDE DEF entry
<1>7. entry \notin w.log
  <2> SUFFICES ASSUME entry \in w.log PROVE FALSE
    OBVIOUS
  <2>1. entry \in {e \in Events(w, o) : e.leg.kind \notin {"BAITS", "CONSUME"}}
    BY <1>4 DEF Events
  <2> QED BY <1>4, <2>1 DEF Paid, leg
<1>8. \A q : Mine(new, q) = Mine(w, q)
  BY <1>5 DEF Mine
<1>9. RodsCounted(new)
  <2> SUFFICES ASSUME NEW r \in RodNames
               PROVE  /\ new.rods[r].max = RodRows[r].max
                      /\ IsFiniteSet(WearEvents(new, r, "WORN"))
                      /\ new.rods[r].left =
                             IF WearEvents(new, r, "LINE_BREAK") # {} THEN 0
                             ELSE RodRows[r].left - Cardinality(WearEvents(new, r, "WORN"))
    BY DEF RodsCounted
  <2>1. /\ w.rods[r].max = RodRows[r].max /\ IsFiniteSet(WearEvents(w, r, "WORN"))
        /\ w.rods[r].left = IF WearEvents(w, r, "LINE_BREAK") # {} THEN 0
                            ELSE RodRows[r].left - Cardinality(WearEvents(w, r, "WORN"))
    BY DEF BooksOK, RodsCounted
  <2>2. /\ \A how : ~ (r = c.name /\ how = wear) => WearEvents(new, r, how) = WearEvents(w, r, how)
        /\ r = c.name => WearEvents(new, r, wear) = WearEvents(w, r, wear) \cup {entry}
        /\ r = c.name => entry \in WearEvents(new, r, wear)
    BY <1>4, <1>5 DEF WearEvents, entry
  <2>3. CASE r # c.name
    BY <1>3, <1>5, <2>1, <2>2, <2>3
  <2>4. CASE r = c.name /\ wear = "LINE_BREAK"
    <3>1. /\ WearEvents(new, r, "WORN") = WearEvents(w, r, "WORN")
          /\ entry \in WearEvents(new, r, "LINE_BREAK")
      BY <2>2, <2>4
    <3>2. new.rods[r].left = 0 /\ new.rods[r].max = w.rods[r].max
      BY <1>3, <1>5, <2>4 DEF Left
    <3> QED BY <2>1, <3>1, <3>2
  <2>5. CASE r = c.name /\ wear = "SPARED"
    <3>1. /\ WearEvents(new, r, "WORN") = WearEvents(w, r, "WORN")
          /\ WearEvents(new, r, "LINE_BREAK") = WearEvents(w, r, "LINE_BREAK")
      BY <2>2, <2>5
    <3>2. new.rods[r].left = w.rods[r].left /\ new.rods[r].max = w.rods[r].max
      BY <1>3, <1>5, <2>5 DEF Left
    <3> QED BY <2>1, <3>1, <3>2
  <2>6. CASE r = c.name /\ wear = "WORN"
    <3>1. /\ WearEvents(new, r, "WORN") = WearEvents(w, r, "WORN") \cup {entry}
          /\ WearEvents(new, r, "LINE_BREAK") = WearEvents(w, r, "LINE_BREAK")
          /\ entry \notin WearEvents(w, r, "WORN")
      BY <1>7, <2>2, <2>6 DEF WearEvents
    <3>2. /\ IsFiniteSet(WearEvents(new, r, "WORN"))
          /\ Cardinality(WearEvents(new, r, "WORN")) = Cardinality(WearEvents(w, r, "WORN")) + 1
      BY <2>1, <3>1, FS_AddElement
    <3>3. WearEvents(w, r, "LINE_BREAK") = {} /\ RodRows[r].left \in Nat
      BY <1>2, <2>1, <2>6, RodsAssumption DEF RodNames, IsRod
    <3>4. Cardinality(WearEvents(w, r, "WORN")) \in Nat
      BY <2>1, FS_CardinalityType
    <3>5. new.rods[r].left = w.rods[r].left - 1 /\ new.rods[r].max = w.rods[r].max
      BY <1>3, <1>5, <2>6 DEF Left
    <3> QED BY <2>1, <3>1, <3>2, <3>3, <3>4, <3>5
  <2> QED BY <2>3, <2>4, <2>5, <2>6
<1>10. BooksOK(new) /\ Alone(new, w, o)
  BY <1>5, <1>6, <1>8, <1>9 DEF BooksOK, Alone
<1>11. c.rod.left \in 1 .. RodRows[c.name].max
  BY <1>2 DEF IsRod
<1> QED BY <1>2, <1>6, <1>8, <1>10, <1>11 DEF new, leg

---------------------------------------------------------------------------
(* What a cast settles, step by step.                                      *)

\* What the terminal is told of an outcome, and which rods it wears.
LEMMA Tells ==
    ASSUME NEW c, Supported(c), NEW o
    PROVE  LET receipt == ReceiptOf(RouteOf(c), c, o)
           IN  /\ receipt.outcome = o
               /\ receipt.route = "STARTER" <=> ~ Wears(c)
<1> DEFINE r == RouteOf(c)
<1>1. r \in RoutesOf(c) /\ r \in Routes
  BY RouteServes
<1>2. r = "STARTER" <=> ~ Wears(c)
  BY <1>1 DEF RoutesOf, Routes, StarterOnly, UnmodifiedOnly, UnbreakingXOnly, StrengthenOnly,
     SharpHookOnly, TreasureXOnly, BaitRackOnly, MulticatchOnly, MultiTreasureOnly,
     SturdyOnly, SchoolOnly, OnlyWith, OnlyOn, Plain, Wears
<1> HIDE DEF r
<1>3. ReceiptOf(r, c, o).route = r /\ ReceiptOf(r, c, o).outcome = o
  BY <1>1 DEF Routes, ReceiptOf, StarterReceipt, UnmodifiedReceipt, UnbreakingXReceipt,
     StrengthenReceipt, SharpHookReceipt, TreasureXReceipt, BaitRackReceipt, MulticatchReceipt,
     MultiTreasureReceipt, SturdyReceipt, SchoolReceipt, Receipt, LeveledReceipt, BaitedReceipt
<1> QED BY <1>2, <1>3 DEF r

\* The legs of an outcome: as many items as it has, of the kinds that are items.
LEMMA LegsOfOutcome ==
    ASSUME NEW o, Decided(o), NEW root
    PROVE  LET legs == LegsOf(o, root)
               items == o.kind \in {"FISH", "BOOK"}
           IN  /\ items => Len(legs) = o.n
               /\ \A leg \in Range(legs) : leg.kind \in InstanceKinds <=> items
<1>1. o.n \in Nat /\ o.kind \in {"FISH", "BROKEN", "BOOK", "GOODS", "JUNK", "PENDING"}
  BY DEF Decided
<1>2. CASE o.kind = "FISH"
  <2>1. LegsOf(o, root) = [i \in 1 .. o.n |-> FishLeg(i, root.grams)]
    BY <1>2 DEF LegsOf
  <2> QED BY <1>1, <1>2, <2>1 DEF Range, FishLeg, InstanceKinds
<1>3. CASE o.kind = "BOOK"
  <2>1. LegsOf(o, root) = [i \in 1 .. o.n |-> BookLeg(i)]
    BY <1>3 DEF LegsOf
  <2> QED BY <1>1, <1>3, <2>1 DEF Range, BookLeg, InstanceKinds
<1>4. CASE o.kind = "GOODS"
  <2>1. LegsOf(o, root) = [i \in 1 .. o.n |-> GoodsLeg(i)]
    BY <1>4 DEF LegsOf
  <2> QED BY <1>1, <1>4, <2>1 DEF Range, GoodsLeg, InstanceKinds
<1>5. CASE o.kind \in {"JUNK", "BROKEN", "PENDING"}
  <2>1. LegsOf(o, root) = <<JunkLeg>> \/ LegsOf(o, root) = <<>>
    BY <1>5 DEF LegsOf
  <2> QED BY <1>5, <2>1 DEF Range, JunkLeg, InstanceKinds
<1> QED BY <1>1, <1>2, <1>3, <1>4, <1>5

\* A sequence is its head and its tail.
LEMMA HeadAndTail ==
    ASSUME NEW S, NEW legs \in Seq(S), legs # <<>>
    PROVE  /\ Range(legs) = {Head(legs)} \cup Range(Tail(legs))
           /\ Len(legs) = Len(Tail(legs)) + 1 /\ Len(Tail(legs)) \in Nat
<1>1. /\ Len(legs) \in Nat \ {0} /\ DOMAIN legs = 1 .. Len(legs) /\ Head(legs) = legs[1]
      /\ Len(Tail(legs)) = Len(legs) - 1 /\ DOMAIN Tail(legs) = 1 .. Len(legs) - 1
      /\ \A i \in 1 .. Len(legs) - 1 : Tail(legs)[i] = legs[i + 1]
  OBVIOUS
<1>2. \A i \in 1 .. Len(legs) : i = 1 \/ (i - 1 \in 1 .. Len(legs) - 1 /\ legs[i] = Tail(legs)[i - 1])
  BY <1>1
<1>3. Range(legs) \subseteq {Head(legs)} \cup Range(Tail(legs))
  <2> SUFFICES ASSUME NEW i \in 1 .. Len(legs)
               PROVE  legs[i] \in {Head(legs)} \cup Range(Tail(legs))
    BY <1>1 DEF Range
  <2>1. CASE i = 1
    BY <1>1, <2>1
  <2>2. CASE i # 1
    <3>1. i - 1 \in DOMAIN Tail(legs) /\ legs[i] = Tail(legs)[i - 1]
      BY <1>1, <1>2, <2>2
    <3> QED BY <3>1 DEF Range
  <2> QED BY <2>1, <2>2
<1>4. {Head(legs)} \cup Range(Tail(legs)) \subseteq Range(legs)
  <2>1. \A i \in 1 .. Len(legs) - 1 : i + 1 \in DOMAIN legs /\ Tail(legs)[i] = legs[i + 1]
    BY <1>1
  <2> QED BY <1>1, <2>1 DEF Range
<1> QED BY <1>1, <1>3, <1>4

\* A session that moves, its own copy staged, keeps the books.
LEMMA BooksMove ==
    ASSUME Books, IInv', NEW s \in Sessions, UNCHANGED <<db, operation>>,
           \A t \in Sessions \ {s} : tx'[t] = tx[t],
           tx'[s].phase \in Owning => Staged(tx'[s], db)
    PROVE  Books'
<1>1. \A t \in Sessions : tx'[t].phase \in Owning => Staged(tx'[t], db)
  BY DEF Books
<1>2. BooksOK(db') /\ \A k \in Keys : KeyBooks(db', k, operation'[k])
  BY DEF Books
<1>3. \A t \in Sessions : tx'[t].phase \in Owning => Staged(tx'[t], db')
  BY <1>1
<1> QED BY <1>2, <1>3 DEF Books

\* A cast starts with nothing paid: its key has no receipt yet.
LEMMA PreflightPays ==
    ASSUME Books, NEW s \in Sessions, Preflight(s)
    PROVE  Books'
<1> DEFINE u == tx'[s]
<1>1. /\ IInv /\ TxOK(tx[s], db, operation) /\ tx = [t \in Sessions |-> tx[t]]
      /\ tx[s].phase = "OPEN" /\ tx[s].row.state = "PENDING" /\ PlayerOK(db)
      /\ tx[s].phase \in Holding
  BY DEF Books, IInv, Preflight, Castable, Holding
<1>2. /\ UNCHANGED <<db, operation>> /\ \A t \in Sessions \ {s} : tx'[t] = tx[t]
      /\ u.phase = "LOCKED" /\ u.key = tx[s].key
      /\ u.work = Entered(db, tx[s].key, tx[s].area)
  BY <1>1 DEF Preflight, TxOK
<1>3. /\ operation[tx[s].key].state # "COMMITTED" /\ tx[s].key \in Keys
  BY <1>1, NotCommitted
<1>4. Paid(db, tx[s].key) = {} /\ Mine(db, tx[s].key) = {} /\ BooksOK(db)
  BY <1>3 DEF Books, KeyBooks
<1> HIDE DEF u
<1>5. u.work.items = db.items /\ u.work.log = db.log /\ u.work.rods = db.rods
  BY <1>1, <1>2 DEF Entered, PlayerOK
<1>6. BooksOK(u.work) /\ \A q : /\ Events(u.work, q) = Events(db, q)
                              /\ Mine(u.work, q) = Mine(db, q) /\ Paid(u.work, q) = Paid(db, q)
  BY <1>4, <1>5, SameBooks
<1>7. IsFiniteSet(Mine(u.work, u.key))
  BY <1>2, <1>4, <1>6, FS_EmptySet
<1>8. Staged(u, db)
  BY <1>2, <1>4, <1>6, <1>7 DEF Staged, Alone
<1>9. IInv'
  BY <1>1, PreflightKeeps
<1> QED BY <1>2, <1>8, <1>9, BooksMove DEF u

\* Baits are no part of what an operation is paid.
LEMMA SettleBaitsPays ==
    ASSUME Books, NEW s \in Sessions, SettleBaits(s)
    PROVE  Books'
<1> DEFINE u == tx'[s]
           w == tx[s].work
           o == tx[s].key
<1>1. /\ IInv /\ TxOK(tx[s], db, operation) /\ tx = [t \in Sessions |-> tx[t]]
      /\ tx[s].phase = "LOCKED" /\ tx[s].phase \in Owning
  BY DEF Books, IInv, SettleBaits, Owning
<1>2. PlayerOK(w) /\ o \in Keys /\ Staged(tx[s], db)
  BY <1>1 DEF TxOK, WorkOK, Books
<1>3. /\ UNCHANGED <<db, operation>> /\ \A t \in Sessions \ {s} : tx'[t] = tx[t]
      /\ u.phase = "BAITED" /\ u.key = o /\ (u.work = w \/ u.work = Baited(w, o))
  <2>1. CASE Settlement(w, o) # {}
    BY <1>1, <2>1 DEF SettleBaits, TxOK
  <2>2. CASE Settlement(w, o) = {}
    BY <1>1, <2>2 DEF SettleBaits, TxOK
  <2> QED BY <2>1, <2>2
<1>4. /\ BooksOK(w) /\ Alone(w, db, o) /\ Paid(w, o) = {} /\ Mine(w, o) = {}
  BY <1>1, <1>2 DEF Staged
<1> HIDE DEF u
<1>5. /\ BooksOK(u.work) /\ Alone(u.work, w, o) /\ Paid(u.work, o) = Paid(w, o)
      /\ Mine(u.work, o) = Mine(w, o)
  <2>1. CASE u.work = w
    BY <1>4, <2>1 DEF Alone
  <2>2. CASE u.work = Baited(w, o)
    BY <1>2, <1>4, <2>2, BaitedPays
  <2> QED BY <1>3, <2>1, <2>2
<1>6. Alone(u.work, db, o)
  BY <1>4, <1>5 DEF Alone
<1>7. IsFiniteSet(Mine(u.work, o))
  BY <1>4, <1>5, FS_EmptySet
<1>8. Staged(u, db)
  BY <1>3, <1>4, <1>5, <1>6, <1>7 DEF Staged
<1>9. IInv'
  BY <1>1, SettleBaitsKeeps
<1> QED BY <1>3, <1>8, <1>9, BooksMove DEF u

\* All of the outcome is to be paid.
LEMMA SelectPays ==
    ASSUME Books, NEW s \in Sessions, Select(s)
    PROVE  Books'
<1> DEFINE u == tx'[s]
           w == tx[s].work
           o == tx[s].key
           outcome == OutcomeIn(tx[s])
           root == tx[s].row.root
<1>1. /\ IInv /\ TxOK(tx[s], db, operation) /\ tx = [t \in Sessions |-> tx[t]]
      /\ tx[s].phase = "BAITED" /\ tx[s].phase \in Owning /\ tx[s].phase \in Holding
  BY DEF Books, IInv, Select, Owning, Holding
<1>2. Staged(tx[s], db) /\ IsRoot(root) /\ Ends(tx[s].cast, root)
  BY <1>1, RootsAssumption DEF Books, TxOK, RowOK, Select
<1>3. /\ UNCHANGED <<db, operation>> /\ \A t \in Sessions \ {s} : tx'[t] = tx[t]
      /\ u.phase = "STAGING" /\ u.key = o /\ u.work = w /\ u.cast = tx[s].cast
      /\ u.row = tx[s].row /\ u.legs = LegsOf(outcome, root)
  BY <1>1 DEF Select, TxOK, OutcomeFor, OutcomeIn
<1>4. /\ BooksOK(w) /\ Alone(w, db, o) /\ Paid(w, o) = {} /\ Mine(w, o) = {}
      /\ IsFiniteSet(Mine(w, o))
  BY <1>1, <1>2 DEF Staged
<1>5. Decided(outcome)
  BY <1>2, EndsWith DEF OutcomeIn
<1> HIDE DEF outcome
<1>6. outcome.kind \in {"FISH", "BOOK"} => Len(LegsOf(outcome, root)) = outcome.n
  BY <1>5, LegsOfOutcome
<1> HIDE DEF u
<1>7. OutcomeIn(u) = outcome
  BY <1>3 DEF OutcomeIn, outcome
<1>8. Cardinality(Mine(w, o)) = 0 /\ outcome.n \in Nat
  BY <1>4, <1>5, FS_EmptySet DEF Decided
<1>9. Cardinality(Mine(w, o)) + (IF outcome.kind \in {"FISH", "BOOK"}
                                THEN Len(LegsOf(outcome, root)) ELSE 0) = ItemsOf(outcome)
  BY <1>6, <1>8 DEF ItemsOf
<1>10. Staged(u, db)
  BY <1>3, <1>4, <1>7, <1>9 DEF Staged
<1>11. IInv'
  BY <1>1, SelectKeeps
<1> QED BY <1>3, <1>10, <1>11, BooksMove DEF u

\* A leg goes from what is to be paid to what is.
LEMMA DeliverPays ==
    ASSUME Books, NEW s \in Sessions, Deliver(s)
    PROVE  Books'
<1> DEFINE u == tx'[s]
           w == tx[s].work
           o == tx[s].key
           legs == tx[s].legs
           outcome == OutcomeIn(tx[s])
           root == tx[s].row.root
           items == outcome.kind \in {"FISH", "BOOK"}
           new == Delivered(w, o, Head(legs), tx[s].began)
<1>1. /\ IInv /\ TxOK(tx[s], db, operation) /\ tx = [t \in Sessions |-> tx[t]]
      /\ tx[s].phase = "STAGING" /\ tx[s].phase \in Owning /\ tx[s].phase \in Holding
      /\ legs # <<>>
  BY DEF Books, IInv, Deliver, Owning, Holding
<1>2. /\ Staged(tx[s], db) /\ IsRoot(root) /\ Ends(tx[s].cast, root) /\ PlayerOK(w)
      /\ o \in Keys /\ legs \in Seq(CastLegs)
  BY <1>1, RootsAssumption DEF Books, TxOK, RowOK, WorkOK
<1>3. /\ UNCHANGED <<db, operation>> /\ \A t \in Sessions \ {s} : tx'[t] = tx[t]
      /\ u.phase = "STAGING" /\ u.key = o /\ u.work = new /\ u.cast = tx[s].cast
      /\ u.row = tx[s].row /\ u.legs = Tail(legs)
  BY <1>1 DEF Deliver, TxOK
<1>4. /\ BooksOK(w) /\ Alone(w, db, o) /\ IsFiniteSet(Mine(w, o))
      /\ Paid(w, o) \cup Range(legs) = Range(LegsOf(outcome, root))
      /\ Cardinality(Mine(w, o)) + (IF items THEN Len(legs) ELSE 0) = ItemsOf(outcome)
  BY <1>1, <1>2 DEF Staged
<1>5. Decided(outcome)
  BY <1>2, EndsWith DEF OutcomeIn
<1>6. /\ Head(legs) \in CastLegs /\ Range(legs) = {Head(legs)} \cup Range(Tail(legs))
      /\ Len(legs) = Len(Tail(legs)) + 1 /\ Len(Tail(legs)) \in Nat
  BY <1>1, <1>2, HeadAndTail
<1>7. OutcomeIn(u) = outcome
  BY <1>3 DEF OutcomeIn
<1>8. /\ BooksOK(new) /\ Alone(new, w, o) /\ Paid(new, o) = Paid(w, o) \cup {Head(legs)}
      /\ IF Head(legs).kind \in InstanceKinds
         THEN \E i : i \notin Mine(w, o) /\ Mine(new, o) = Mine(w, o) \cup {i}
         ELSE Mine(new, o) = Mine(w, o)
  BY <1>2, <1>4, <1>6, DeliveredPays
<1> HIDE DEF u, new, outcome
<1>9. Head(legs).kind \in InstanceKinds <=> items
  <2>1. Head(legs) \in Range(LegsOf(outcome, root))
    BY <1>4, <1>6
  <2> QED BY <1>5, <2>1, LegsOfOutcome
<1>10. /\ IsFiniteSet(Mine(new, o))
       /\ Cardinality(Mine(new, o)) + (IF items THEN Len(Tail(legs)) ELSE 0) = ItemsOf(outcome)
  <2>1. Cardinality(Mine(w, o)) \in Nat
    BY <1>4, FS_CardinalityType
  <2>2. CASE items
    <3>1. PICK i : i \notin Mine(w, o) /\ Mine(new, o) = Mine(w, o) \cup {i}
      BY <1>8, <1>9, <2>2
    <3>2. /\ IsFiniteSet(Mine(new, o))
          /\ Cardinality(Mine(new, o)) = Cardinality(Mine(w, o)) + 1
      BY <1>4, <3>1, FS_AddElement
    <3> QED BY <1>4, <1>6, <2>1, <2>2, <3>2
  <2>3. CASE ~ items
    BY <1>4, <1>8, <1>9, <2>3
  <2> QED BY <2>2, <2>3
<1>11. Paid(new, o) \cup Range(Tail(legs)) = Range(LegsOf(outcome, root))
  BY <1>4, <1>6, <1>8
<1>12. Alone(new, db, o)
  BY <1>4, <1>8 DEF Alone
<1>13. Staged(u, db)
  BY <1>3, <1>7, <1>8, <1>10, <1>11, <1>12 DEF Staged
<1>14. IInv'
  BY <1>1, StagesKeep
<1> QED BY <1>3, <1>13, <1>14, BooksMove DEF u

\* With no leg left, the experience is all that is missing, and the rod.
LEMMA ProgressPays ==
    ASSUME Books, NEW s \in Sessions, Progress(s)
    PROVE  Books'
<1> DEFINE u == tx'[s]
           w == tx[s].work
           o == tx[s].key
           outcome == OutcomeIn(tx[s])
           root == tx[s].row.root
           new == Progressed(w, o, outcome)
<1>1. /\ IInv /\ TxOK(tx[s], db, operation) /\ tx = [t \in Sessions |-> tx[t]]
      /\ tx[s].phase = "STAGING" /\ tx[s].phase \in Owning /\ tx[s].legs = <<>>
  BY DEF Books, IInv, Progress, Owning
<1>2. Staged(tx[s], db) /\ PlayerOK(w) /\ o \in Keys
  BY <1>1 DEF Books, TxOK, WorkOK
<1>3. /\ UNCHANGED <<db, operation>> /\ \A t \in Sessions \ {s} : tx'[t] = tx[t]
      /\ u.phase = "LANDED" /\ u.key = o /\ u.work = new /\ u.cast = tx[s].cast
      /\ u.row = tx[s].row
  BY <1>1 DEF Progress, TxOK, OutcomeFor, OutcomeIn
<1>4. /\ BooksOK(w) /\ Alone(w, db, o) /\ IsFiniteSet(Mine(w, o))
      /\ Paid(w, o) \cup Range(<<>>) = Range(LegsOf(outcome, root))
      /\ Cardinality(Mine(w, o)) + (IF outcome.kind \in {"FISH", "BOOK"} THEN Len(<<>>) ELSE 0)
             = ItemsOf(outcome)
  BY <1>1, <1>2 DEF Staged
<1>5. /\ BooksOK(new) /\ Alone(new, w, o) /\ Mine(new, o) = Mine(w, o)
      /\ Paid(new, o) = Paid(w, o) \cup Experience(outcome)
  BY <1>2, <1>4, ProgressedPays
<1>6. OutcomeIn(u) = outcome
  BY <1>3 DEF OutcomeIn
<1> HIDE DEF u, new, outcome
<1>7. Range(<<>>) = {} /\ Len(<<>>) = 0
  BY DEF Range
<1>8. Cardinality(Mine(new, o)) = ItemsOf(outcome)
  <2>1. Cardinality(Mine(w, o)) \in Nat
    BY <1>4, FS_CardinalityType
  <2> QED BY <1>4, <1>5, <1>7, <2>1
<1>9. Paid(new, o) = Range(LegsOf(outcome, root)) \cup Experience(outcome)
  BY <1>4, <1>5, <1>7
<1>10. Alone(new, db, o) /\ IsFiniteSet(Mine(new, o))
  BY <1>4, <1>5 DEF Alone
<1>11. Staged(u, db)
  BY <1>3, <1>5, <1>6, <1>8, <1>9, <1>10 DEF Staged
<1>12. IInv'
  BY <1>1, StagesKeep
<1> QED BY <1>3, <1>11, <1>12, BooksMove DEF u

\* The rod is the last thing an operation pays.
LEMMA WearPays ==
    ASSUME Books, NEW s \in Sessions, Wear(s)
    PROVE  Books'
<1> DEFINE u == tx'[s]
           w == tx[s].work
           o == tx[s].key
           c == tx[s].cast
           outcome == OutcomeIn(tx[s])
           root == tx[s].row.root
           new == IF Wears(c) THEN Worn(w, o, c, outcome.wear) ELSE w
<1>1. /\ IInv /\ TxOK(tx[s], db, operation) /\ tx = [t \in Sessions |-> tx[t]]
      /\ tx[s].phase = "LANDED" /\ tx[s].phase \in Owning /\ tx[s].phase \in Holding
  BY DEF Books, IInv, Wear, Owning, Holding
<1>2. /\ Staged(tx[s], db) /\ PlayerOK(w) /\ o \in Keys /\ IsRoot(root) /\ Ends(c, root)
  BY <1>1, RootsAssumption DEF Books, TxOK, WorkOK, RowOK
<1>3. /\ UNCHANGED <<db, operation>> /\ \A t \in Sessions \ {s} : tx'[t] = tx[t]
      /\ u.phase = "WORN" /\ u.key = o /\ u.work = new /\ u.cast = c /\ u.row = tx[s].row
      /\ Wears(c) => MayWear(w, c)
  BY <1>1 DEF Wear, TxOK, OutcomeFor, OutcomeIn
<1>4. /\ BooksOK(w) /\ Alone(w, db, o) /\ IsFiniteSet(Mine(w, o))
      /\ Paid(w, o) = Range(LegsOf(outcome, root)) \cup Experience(outcome)
      /\ Cardinality(Mine(w, o)) = ItemsOf(outcome)
  BY <1>1, <1>2 DEF Staged
<1>5. /\ Wears(c) => outcome.wear \in {"LINE_BREAK", "SPARED", "WORN"}
      /\ LegsOf(outcome, root) \in Seq(CastLegs)
  BY <1>2, EndsWith DEF OutcomeIn
<1>6. OutcomeIn(u) = outcome
  BY <1>3 DEF OutcomeIn
<1> HIDE DEF u, outcome
<1>7. WearLeg(c, outcome.wear) \notin Paid(w, o)
  <2>1. \A leg \in Range(LegsOf(outcome, root)) : leg \in CastLegs
    BY <1>5 DEF Range
  <2>2. \A leg \in CastLegs : leg.kind # "WEAR"
    BY DEF CastLegs, FishLeg, BookLeg, GoodsLeg, JunkLeg
  <2>3. WearLeg(c, outcome.wear).kind = "WEAR" /\ ProgressLeg.kind # "WEAR"
    BY DEF WearLeg, ProgressLeg
  <2> QED BY <1>4, <2>1, <2>2, <2>3 DEF Experience
<1>8. /\ BooksOK(new) /\ Alone(new, w, o) /\ Mine(new, o) = Mine(w, o)
      /\ Paid(new, o) = Paid(w, o) \cup WearOf(c, outcome)
      /\ Wears(c) => c.name \in RodNames /\ c.rod.left \in 1 .. RodRows[c.name].max
  <2>1. CASE Wears(c)
    <3>1. new = Worn(w, o, c, outcome.wear) /\ WearOf(c, outcome) = {WearLeg(c, outcome.wear)}
      BY <2>1 DEF WearOf
    <3> QED BY <1>2, <1>3, <1>4, <1>5, <1>7, <2>1, <3>1, WornPays
  <2>2. CASE ~ Wears(c)
    BY <1>4, <2>2 DEF WearOf, Alone
  <2> QED BY <2>1, <2>2
<1> HIDE DEF new
<1>9. Alone(new, db, o) /\ IsFiniteSet(Mine(new, o))
  BY <1>4, <1>8 DEF Alone
<1>10. Staged(u, db)
  BY <1>3, <1>4, <1>6, <1>8, <1>9 DEF Staged
<1>11. IInv'
  BY <1>1, StagesKeep
<1> QED BY <1>3, <1>10, <1>11, BooksMove DEF u

\* A row that is written with the books of its key; those of the others are kept.
LEMMA BooksWrite ==
    ASSUME Books, IInv', NEW s \in Sessions, NEW row, tx[s].phase \in Holding,
           tx' = [tx EXCEPT ![s] = Idle],
           operation' = [operation EXCEPT ![tx[s].key] = row],
           KeyBooks(db', tx[s].key, row),
           db' = db \/ (tx[s].phase \in Owning /\ db' = tx[s].work)
    PROVE  Books'
<1>1. /\ tx' = [t \in Sessions |-> IF t = s THEN Idle ELSE tx[t]]
      /\ operation' = [k \in Keys |-> IF k = tx[s].key THEN row ELSE operation[k]]
      /\ Idle.phase \notin Owning
  BY DEF Books, IInv, Idle, Owning
<1>2. BooksOK(db') /\ \A q \in Keys \ {tx[s].key} : Events(db', q) = Events(db, q)
                                                     /\ Mine(db', q) = Mine(db, q)
  <2>1. CASE db' = db
    BY <2>1 DEF Books
  <2>2. CASE tx[s].phase \in Owning /\ db' = tx[s].work
    <3>1. Staged(tx[s], db)
      BY <2>2 DEF Books
    <3> QED BY <2>2, <3>1 DEF Staged, Alone
  <2> QED BY <2>1, <2>2
<1>3. ASSUME NEW k \in Keys PROVE KeyBooks(db', k, operation'[k])
  <2>1. CASE k = tx[s].key
    BY <1>1, <2>1
  <2>2. CASE k # tx[s].key
    <3>1. KeyBooks(db, k, operation[k]) /\ operation'[k] = operation[k]
      BY <1>1, <2>2 DEF Books
    <3>2. /\ Events(db', k) = Events(db, k) /\ Mine(db', k) = Mine(db, k)
          /\ Paid(db', k) = Paid(db, k)
      BY <1>2, <2>2 DEF Paid
    <3> QED BY <3>1, <3>2 DEF KeyBooks
  <2> QED BY <2>1, <2>2
<1>4. ASSUME NEW t \in Sessions, tx'[t].phase \in Owning PROVE Staged(tx'[t], db')
  <2>1. t # s /\ tx'[t] = tx[t]
    BY <1>1, <1>4
  <2>2. tx[s].phase \notin Owning
    BY <1>4, <2>1 DEF Books, IInv, Exclusive
  <2> QED BY <1>4, <2>1, <2>2 DEF Books
<1> QED BY <1>2, <1>3, <1>4 DEF Books

\* What is committed is all that the receipt names.
LEMMA CommitPays ==
    ASSUME Books, NEW s \in Sessions, Commit(s)
    PROVE  Books'
<1> DEFINE w == tx[s].work
           o == tx[s].key
           c == tx[s].cast
           old == tx[s].row
           outcome == OutcomeIn(tx[s])
           receipt == ReceiptFor(s)
           row == Committed(old, receipt)
<1>1. /\ IInv /\ TxOK(tx[s], db, operation) /\ tx[s].phase = "WORN"
      /\ tx[s].phase \in Owning /\ tx[s].phase \in Holding
      /\ db' = w /\ tx' = [tx EXCEPT ![s] = Idle]
      /\ operation' = [operation EXCEPT ![o] = row]
  BY DEF Books, IInv, Commit, TerminalReached, Leave, Owning, Holding
<1>2. /\ Staged(tx[s], db) /\ Ends(c, old.root) /\ RowOK(old) /\ PlayerOK(w)
  BY <1>1 DEF Books, TxOK, WorkOK
<1>3. receipt.outcome = outcome /\ (receipt.route = "STARTER" <=> ~ Wears(c))
  BY <1>2, Tells DEF Ends, ReceiptFor, OutcomeFor, OutcomeIn
<1>4. /\ Paid(w, o) = Range(LegsOf(outcome, old.root)) \cup Experience(outcome)
                          \cup WearOf(c, outcome)
      /\ Cardinality(Mine(w, o)) = ItemsOf(outcome)
      /\ Wears(c) => c.name \in RodNames /\ c.rod.left \in 1 .. RodRows[c.name].max
  BY <1>1, <1>2 DEF Staged
<1>5. row = [old EXCEPT !.state = "COMMITTED", !.receipt = receipt]
  BY DEF Committed
<1> HIDE DEF receipt, row, old, outcome
<1>6. row = [state |-> "COMMITTED", area |-> old.area, root |-> old.root, receipt |-> receipt]
  BY <1>2, <1>5 DEF RowOK
<1>7. row # NoRow /\ row.state = "COMMITTED" /\ row.root = old.root /\ row.receipt = receipt
  BY <1>6 DEF NoRow
<1>8. \E r \in RodNames : \E left \in 1 .. RodRows[r].max + 1 :
          Paid(w, o) = PromisedBy(row, [name |-> r, rod |-> [left |-> left]])
  <2>1. ASSUME NEW r \in RodNames, NEW left \in 1 .. RodRows[r].max + 1,
               WearOf(c, outcome) =
                   IF receipt.route = "STARTER" THEN {}
                   ELSE {WearLeg([name |-> r, rod |-> [left |-> left]], outcome.wear)}
        PROVE  Paid(w, o) = PromisedBy(row, [name |-> r, rod |-> [left |-> left]])
    BY <1>3, <1>4, <1>7, <2>1 DEF PromisedBy, Experience
  <2>2. CASE Wears(c)
    <3>1. c.name \in RodNames /\ c.rod.left \in 1 .. RodRows[c.name].max + 1
      BY <1>4, <2>2, RodsAssumption DEF RodNames, IsRod
    <3>2. WearOf(c, outcome) =
              {WearLeg([name |-> c.name, rod |-> [left |-> c.rod.left]], outcome.wear)}
      BY <2>2 DEF WearOf, WearLeg
    <3> QED BY <1>3, <2>1, <2>2, <3>1, <3>2
  <2>3. CASE ~ Wears(c)
    <3>1. w.equipped \in RodNames /\ 1 \in 1 .. RodRows[w.equipped].max + 1
      <4>1. w.equipped \in RodNames
        BY <1>2 DEF PlayerOK
      <4>2. RodRows[w.equipped].max \in Nat
        BY <4>1, RodsAssumption DEF RodNames, IsRod
      <4> QED BY <4>1, <4>2
    <3>2. WearOf(c, outcome) = {} /\ receipt.route = "STARTER"
      BY <1>3, <2>3 DEF WearOf
    <3> QED BY <2>1, <3>1, <3>2
  <2> QED BY <2>2, <2>3
<1>9. KeyBooks(w, o, row)
  <2>1. Cardinality(Mine(w, o)) = ItemsOf(row.receipt.outcome)
    BY <1>3, <1>4, <1>7
  <2> QED BY <1>7, <1>8, <2>1 DEF KeyBooks
<1>10. IInv'
  BY <1>1, CommitKeeps
<1> QED BY <1>1, <1>9, <1>10, BooksWrite DEF row, receipt, old

\* An operation that is saved before its end has paid nothing but its baits.
LEMMA SavesPay ==
    ASSUME Books, NEW s \in Sessions, SaveRow(s) \/ SaveBaits(s)
    PROVE  Books'
<1> DEFINE o == tx[s].key
           row == tx[s].row
<1>1. /\ IInv /\ tx' = [tx EXCEPT ![s] = Idle] /\ operation' = [operation EXCEPT ![o] = row]
      /\ tx[s].phase \in {"OPEN", "BAITED"} /\ TxOK(tx[s], db, operation)
      /\ db' = db \/ (tx[s].phase = "BAITED" /\ db' = tx[s].work)
      /\ tx[s].phase = "OPEN" => row.state = "PENDING"
  BY DEF Books, IInv, SaveRow, SaveBaits, Leave, Castable
<1>2. tx[s].phase \in Holding /\ (tx[s].phase = "BAITED" => tx[s].phase \in Owning)
  BY <1>1 DEF Holding, Owning
<1>3. row.state = "PENDING"
  BY <1>1, <1>2 DEF TxOK
<1>4. operation[o].state # "COMMITTED" /\ RowOK(row) /\ o \in Keys
  BY <1>1, <1>2, <1>3, NotCommitted
<1>5. Paid(db', o) = {} /\ Mine(db', o) = {}
  <2>1. CASE db' = db
    BY <1>4, <2>1 DEF Books, KeyBooks
  <2>2. CASE tx[s].phase = "BAITED" /\ db' = tx[s].work
    <3>1. Staged(tx[s], db)
      BY <1>2, <2>2 DEF Books
    <3> QED BY <2>2, <3>1 DEF Staged
  <2> QED BY <1>1, <2>1, <2>2
<1>6. KeyBooks(db', o, row)
  BY <1>3, <1>4, <1>5 DEF KeyBooks, RowOK, NoRow
<1>7. IInv'
  BY <1>1, SavesKeep
<1> QED BY <1>1, <1>2, <1>6, <1>7, BooksWrite

\* A session without the player row owes nothing.
LEMMA OthersPay ==
    ASSUME Books, NEW s \in Sessions,
           Begin(s) \/ Resolve(s) \/ Answer(s) \/ Refuse(s) \/ RollBack(s)
    PROVE  Books'
<1>1. IInv /\ tx = [t \in Sessions |-> tx[t]] /\ TxOK(tx[s], db, operation)
  BY DEF Books, IInv
<1>2. IInv'
  BY <1>1, BeginKeeps, ResolveKeeps, EndsKeep
<1>3. UNCHANGED <<db, operation>> /\ \A t \in Sessions \ {s} : tx'[t] = tx[t]
  BY <1>1 DEF Begin, Resolve, Answer, Refuse, RollBack, Leave
<1>4. tx'[s].phase \in {"WAITING", "OPEN", "IDLE"}
  <2>1. CASE Begin(s)
    BY <1>1, <2>1 DEF Begin, Idle
  <2>2. CASE Resolve(s)
    BY <1>1, <2>2 DEF Resolve, TxOK
  <2>3. CASE Answer(s) \/ Refuse(s) \/ RollBack(s)
    BY <1>1, <2>3 DEF Answer, Refuse, RollBack, Leave, Idle
  <2> QED BY <2>1, <2>2, <2>3
<1>5. tx'[s].phase \notin Owning
  BY <1>4 DEF Owning
<1> QED BY <1>2, <1>3, <1>5, BooksMove

\* Nobody else makes an item, an event or wear; a claim and a sale move items.
LEMMA ElsesPay ==
    ASSUME Books, Else
    PROVE  Books'
<1>1. IInv /\ PlayerOK(db) /\ BooksOK(db)
  BY DEF Books, IInv
<1>2. IInv'
  BY <1>1, ElsesKeep
<1>3. UNCHANGED <<operation, tx>> /\ PlayerFree
  BY DEF Else, Equip, ReplaceBaits, ClaimCatches, TakeOut, SetStatus, Level, Rebirth, Elsewhere
<1>4. db'.log = db.log /\ db'.rods = db.rods
  <2>1. CASE ClaimCatches
    <3> DEFINE made == Claimed(db, None, [bag |-> "CATCH_BAG"])
    <3>1. db' = [made EXCEPT !.log = db.log]
      BY <2>1 DEF ClaimCatches, Elsewhere
    <3>2. \E items, pending, log :
              made = [db EXCEPT !.items = items, !.pending = pending, !.log = log]
      BY Zenon DEF Claimed
    <3> HIDE DEF made
    <3> QED BY <1>1, <3>1, <3>2 DEF PlayerOK
  <2>2. CASE \E i \in DOMAIN db.items : TakeOut(i)
    <3>1. \E items : db' = [db EXCEPT !.items = items]
      BY <2>2, Zenon DEF TakeOut, Elsewhere
    <3> QED BY <1>1, <3>1 DEF PlayerOK
  <2>3. CASE Rebirth
    <3>1. \E level, rebirths : db' = [db EXCEPT !.level = level, !.rebirths = rebirths]
      BY <2>3, Zenon DEF Rebirth, Elsewhere
    <3> QED BY <1>1, <3>1 DEF PlayerOK
  <2>4. CASE \/ \E r \in RodNames : Equip(r)
             \/ \E S \in Selections : ReplaceBaits(S)
             \/ \E status \in {"ACTIVE", "FROZEN"} : SetStatus(status)
             \/ \E n \in Levels : Level(n)
    BY <1>1, <2>4 DEF Equip, ReplaceBaits, SetStatus, Level, Elsewhere, PlayerOK
  <2> QED BY <2>1, <2>2, <2>3, <2>4 DEF Else
<1>5. db'.items \in Seq(ItemRows) /\ \A q : Mine(db', q) = Mine(db, q)
  <2>1. ASSUME NEW items, items = [i \in DOMAIN db.items |-> items[i]],
               \A i \in DOMAIN db.items :
                   /\ items[i] \in ItemRows /\ items[i].op = db.items[i].op
               , db'.items = items
        PROVE  db'.items \in Seq(ItemRows) /\ \A q : Mine(db', q) = Mine(db, q)
    <3>1. db.items \in Seq(ItemRows)
      BY <1>1 DEF BooksOK
    <3>2. DOMAIN db.items = 1 .. Len(db.items) /\ Len(db.items) \in Nat
      BY <3>1
    <3>3. items \in [1 .. Len(db.items) -> ItemRows]
      BY <2>1, <3>2
    <3>4. items \in Seq(ItemRows)
      BY <3>2, <3>3, SeqDef
    <3>5. \A q : Mine(db', q) = Mine(db, q)
      BY <2>1 DEF Mine
    <3> QED BY <2>1, <3>4, <3>5
  <2>2. /\ \A i \in DOMAIN db.items : db.items[i] \in ItemRows
        /\ db.items = [i \in DOMAIN db.items |-> db.items[i]]
    BY <1>1 DEF BooksOK
  <2>3. ASSUME NEW i \in DOMAIN db.items, NEW at \in ItemPlaces
        PROVE  /\ [db.items[i] EXCEPT !.at = at] \in ItemRows
               /\ [db.items[i] EXCEPT !.at = at].op = db.items[i].op
    BY <2>2 DEF ItemRows
  <2>4. CASE ClaimCatches
    <3> DEFINE made == Claimed(db, None, [bag |-> "CATCH_BAG"])
               moved == Items(db, Claimable(db, "CATCH_BAG"))
               items == [i \in DOMAIN db.items |->
                            IF i \in moved THEN [db.items[i] EXCEPT !.at = "CATCH_BAG"]
                            ELSE db.items[i]]
    <3>1. db' = [made EXCEPT !.log = db.log]
      BY <2>4 DEF ClaimCatches, Elsewhere
    <3>2. \E pending, log :
              made = [db EXCEPT !.items = items, !.pending = pending, !.log = log]
      BY Zenon DEF Claimed
    <3>3. \A i \in DOMAIN db.items : items[i] \in ItemRows /\ items[i].op = db.items[i].op
      BY <2>2, <2>3 DEF ItemPlaces, Bags
    <3>4. items = [i \in DOMAIN db.items |-> items[i]]
      OBVIOUS
    <3> HIDE DEF made, items
    <3>5. db'.items = items
      BY <1>1, <3>1, <3>2 DEF PlayerOK
    <3> QED BY <2>1, <3>3, <3>4, <3>5
  <2>5. CASE \E i \in DOMAIN db.items : TakeOut(i)
    <3>1. PICK j \in DOMAIN db.items : TakeOut(j)
      BY <2>5
    <3> DEFINE items == [db.items EXCEPT ![j].at = "ELSEWHERE"]
    <3>2. db' = [db EXCEPT !.items = items]
      BY <3>1, Zenon DEF TakeOut, Elsewhere
    <3>3. items = [i \in DOMAIN db.items |->
                      IF i = j THEN [db.items[i] EXCEPT !.at = "ELSEWHERE"] ELSE db.items[i]]
      BY <2>2
    <3> HIDE DEF items
    <3>4. \A i \in DOMAIN db.items : items[i] \in ItemRows /\ items[i].op = db.items[i].op
      BY <2>2, <2>3, <3>3 DEF ItemPlaces
    <3>5. items = [i \in DOMAIN db.items |-> items[i]]
      BY <3>3
    <3>6. db'.items = items
      BY <1>1, <3>2 DEF PlayerOK
    <3> QED BY <2>1, <3>4, <3>5, <3>6
  <2>6. CASE db'.items = db.items
    BY <2>1, <2>2, <2>6
  <2>7. db'.items = db.items \/ ClaimCatches \/ \E i \in DOMAIN db.items : TakeOut(i)
    BY <1>1 DEF Else, Equip, ReplaceBaits, SetStatus, Level, Rebirth, Elsewhere, PlayerOK
  <2> QED BY <2>4, <2>5, <2>6, <2>7
<1>6. \A q : Events(db', q) = Events(db, q) /\ Paid(db', q) = Paid(db, q)
  BY <1>4 DEF Events, Paid
<1>7. BooksOK(db')
  <2>1. \A r, how : WearEvents(db', r, how) = WearEvents(db, r, how)
    BY <1>4 DEF WearEvents
  <2> QED BY <1>1, <1>4, <1>5, <2>1 DEF BooksOK, RodsCounted
<1>8. \A k \in Keys : KeyBooks(db', k, operation'[k])
  BY <1>3, <1>5, <1>6 DEF Books, KeyBooks
<1>9. \A s \in Sessions : tx'[s].phase \notin Owning
  BY <1>1, <1>3, Names DEF PlayerFree, IInv
<1> QED BY <1>2, <1>7, <1>8, <1>9 DEF Books

\* At the start nobody has paid anything.
LEMMA InitPays == Init => Books
<1> SUFFICES ASSUME Init PROVE Books
  OBVIOUS
<1>1. IInv
  BY InitHolds
<1>2. PICK r \in RodNames : db = Rows(r)
  BY DEF Init
<1>3. /\ operation = [k \in Keys |-> NoRow] /\ tx = [s \in Sessions |-> Idle]
      /\ Idle.phase \notin Owning
  BY DEF Init, Idle, Owning
<1>4. /\ \A q : Events(db, q) = {} /\ Mine(db, q) = {}
      /\ \A q, how : WearEvents(db, q, how) = {}
  BY <1>2 DEF Events, Mine, WearEvents, Rows
<1>5. BooksOK(db)
  <2>1. db.items \in Seq(ItemRows)
    BY <1>2 DEF Rows
  <2>2. db.rods = RodRows /\ \A q \in RodNames : RodRows[q].left \in Nat
    BY <1>2, RodsAssumption DEF Rows, RodNames, IsRod
  <2>3. IsFiniteSet({}) /\ Cardinality({}) = 0
    BY FS_EmptySet
  <2>4. ASSUME NEW q \in RodNames
        PROVE  /\ db.rods[q].max = RodRows[q].max /\ IsFiniteSet(WearEvents(db, q, "WORN"))
               /\ db.rods[q].left = IF WearEvents(db, q, "LINE_BREAK") # {} THEN 0
                     ELSE RodRows[q].left - Cardinality(WearEvents(db, q, "WORN"))
    <3>1. WearEvents(db, q, "WORN") = {} /\ WearEvents(db, q, "LINE_BREAK") = {}
      BY <1>4
    <3> HIDE DEF WearEvents
    <3> QED BY <2>2, <2>3, <3>1
  <2> QED BY <2>1, <2>4 DEF BooksOK, RodsCounted
<1>6. \A k \in Keys : KeyBooks(db, k, operation[k])
  BY <1>3, <1>4 DEF KeyBooks, Paid
<1> QED BY <1>1, <1>3, <1>5, <1>6 DEF Books

\* Every step keeps the books.
LEMMA NextPays == Books /\ [Next]_vars => Books'
<1> SUFFICES ASSUME Books, [Next]_vars PROVE Books'
  OBVIOUS
<1>1. CASE UNCHANGED vars
  <2>1. IInv'
    BY <1>1, NextKeeps DEF Books
  <2> QED BY <1>1, <2>1 DEF Books, vars
<1>2. ASSUME NEW s \in Sessions,
             Begin(s) \/ Step(s) \/ SaveRow(s) \/ SaveBaits(s) \/ RollBack(s)
      PROVE  Books'
  BY <1>2, PreflightPays, SettleBaitsPays, SelectPays, DeliverPays, ProgressPays, WearPays,
     CommitPays, SavesPay, OthersPay DEF Step
<1> QED BY <1>1, <1>2, ElsesPay DEF Next

\* Nothing is paid but what the receipts say.
LEMMA BooksHold == Spec => []Books
BY InitPays, NextPays, PTL DEF Spec

\* The settlements of a cast, made one by one on a copy, are all there with its
\* receipt and none is without it, whoever else cast, claimed or rolled back.
THEOREM CastsAreWhole == Spec => []AllOrNothing
<1>1. Books => AllOrNothing
  <2> SUFFICES ASSUME Books, NEW k \in Keys
               PROVE  LET done == Paid(db, k)
                          minted == Mine(db, k)
                      IN  /\ Done(k) =>
                                 /\ \E r \in RodNames : \E left \in 1 .. RodRows[r].max + 1 :
                                        done = Promised(k, [name |-> r, rod |-> [left |-> left]])
                                 /\ Cardinality(minted) =
                                        IF operation[k].receipt.outcome.kind \in {"FISH", "BOOK"}
                                        THEN operation[k].receipt.outcome.n ELSE 0
                          /\ ~ Done(k) => done = {} /\ minted = {}
                          /\ operation[k] = NoRow => Events(db, k) = {}
    BY DEF AllOrNothing, Paid, Mine
  <2>1. KeyBooks(db, k, operation[k])
    BY DEF Books
  <2> QED BY <2>1 DEF KeyBooks, Done, Promised, PromisedBy, ItemsOf
<1> QED BY <1>1, BooksHold, PTL

\* What a rod has left is what it had, less its wear, however the casts interleave.
THEOREM WearIsAccounted == Spec => []RodsAccountForWear
<1>1. Books => RodsAccountForWear
  BY DEF Books, BooksOK, RodsCounted, RodsAccountForWear, WearEvents
<1> QED BY <1>1, BooksHold, PTL

---------------------------------------------------------------------------
(* The stacks: what the baits took and what the casts put in.              *)

\* The events that moved a stack; an overflow did not.
Moved(w, d, kind) ==
    {e \in w.log : /\ e.leg.kind = kind /\ e.leg.def = d
                   /\ ~ e.overflow}

StackCounted(w) ==
    /\ w.stack = [d \in Defs |-> w.stack[d]]
    /\ \A d \in Defs :
           /\ w.stack[d] \in Nat
           /\ IsFiniteSet(Moved(w, d, "CONSUME")) /\ IsFiniteSet(Moved(w, d, "DELIVER"))
           /\ w.stack[d] = Initial[d] - Cardinality(Moved(w, d, "CONSUME"))
                                      + Cardinality(Moved(w, d, "DELIVER"))

\* Whoever has taken a bait has settled all of them: it is not entered again.
TakenOnce(w) ==
    \A e \in w.log : e.leg.kind = "CONSUME" => Settlement(w, e.op) # {}

StockOK(w) == StackCounted(w) /\ TakenOnce(w)

\* What is to be paid is not paid yet, and each leg of it is another.
Unpaid(t) ==
    /\ \A i, j \in DOMAIN t.legs : t.legs[i] = t.legs[j] => i = j
    /\ \A i \in DOMAIN t.legs : t.legs[i] \notin Paid(t.work, t.key)

Stocked(t) == StockOK(t.work) /\ (t.phase = "STAGING" => Unpaid(t))

Stocks ==
    /\ Books /\ StockOK(db)
    /\ \A s \in Sessions : tx[s].phase \in Owning => Stocked(tx[s])

\* The same stacks and the same log: the same balance.
LEMMA SameStock ==
    ASSUME NEW w, StockOK(w), NEW new, new.stack = w.stack, new.log = w.log
    PROVE  StockOK(new)
<1>1. /\ \A d, kind : Moved(new, d, kind) = Moved(w, d, kind)
      /\ \A o : Settlement(new, o) = Settlement(w, o)
  BY DEF Moved, Settlement
<1>2. StackCounted(new)
  BY <1>1 DEF StockOK, StackCounted
<1>3. TakenOnce(new)
  BY <1>1 DEF StockOK, TakenOnce
<1> QED BY <1>2, <1>3 DEF StockOK

\* An event that moves no stack.
LEMMA NoMove ==
    ASSUME NEW w, StockOK(w), NEW new, new.stack = w.stack, NEW o, NEW leg,
           NEW overflow \in BOOLEAN, new.log = w.log \cup {Entry(o, leg, overflow)},
           leg.kind \notin {"CONSUME", "DELIVER"} \/ (leg.kind = "DELIVER" /\ overflow)
    PROVE  StockOK(new)
<1> DEFINE entry == Entry(o, leg, overflow)
<1>1. /\ new.log = w.log \cup {entry} /\ entry.leg.kind # "CONSUME"
      /\ entry.leg.kind = "DELIVER" => entry.overflow
  BY DEF Entry
<1> HIDE DEF entry
<1>2. \A d : /\ Moved(new, d, "CONSUME") = Moved(w, d, "CONSUME")
             /\ Moved(new, d, "DELIVER") = Moved(w, d, "DELIVER")
  BY <1>1 DEF Moved
<1>3. StackCounted(new)
  BY <1>2 DEF StockOK, StackCounted
<1>4. TakenOnce(new)
  BY <1>1 DEF StockOK, TakenOnce, Settlement
<1> QED BY <1>3, <1>4 DEF StockOK

\* One unit of a stack is put in with an event that was not there.
LEMMA OneMore ==
    ASSUME NEW w, StockOK(w), NEW new, NEW o, NEW leg, leg.kind = "DELIVER",
           leg.def \in Defs,
           new.stack = [w.stack EXCEPT ![leg.def] = @ + 1],
           new.log = w.log \cup {Entry(o, leg, FALSE)}, Entry(o, leg, FALSE) \notin w.log
    PROVE  StockOK(new)
<1> DEFINE entry == Entry(o, leg, FALSE)
           d == leg.def
<1>1. /\ new.log = w.log \cup {entry} /\ entry \notin w.log /\ entry.leg.kind = "DELIVER"
      /\ entry.leg.def = d /\ ~ entry.overflow /\ d \in Defs
      /\ new.stack = [w.stack EXCEPT ![d] = @ + 1]
  BY DEF Entry
<1> HIDE DEF entry, d
<1>2. /\ \A q : Moved(new, q, "CONSUME") = Moved(w, q, "CONSUME")
      /\ \A q : q # d => Moved(new, q, "DELIVER") = Moved(w, q, "DELIVER")
      /\ Moved(new, d, "DELIVER") = Moved(w, d, "DELIVER") \cup {entry}
      /\ entry \notin Moved(w, d, "DELIVER")
  BY <1>1 DEF Moved
<1>3. StackCounted(w) /\ \A q \in Defs : Initial[q] \in Int
  BY InitialAssumption DEF StockOK
<1>4. /\ IsFiniteSet(Moved(new, d, "DELIVER"))
      /\ Cardinality(Moved(new, d, "DELIVER")) = Cardinality(Moved(w, d, "DELIVER")) + 1
  BY <1>1, <1>2, <1>3, FS_AddElement DEF StackCounted
<1>5. /\ new.stack = [q \in Defs |-> new.stack[q]]
      /\ new.stack[d] = w.stack[d] + 1
      /\ \A q \in Defs \ {d} : new.stack[q] = w.stack[q]
  BY <1>1, <1>3 DEF StackCounted
<1>6. /\ Cardinality(Moved(w, d, "CONSUME")) \in Nat
      /\ Cardinality(Moved(w, d, "DELIVER")) \in Nat
  BY <1>1, <1>3, FS_CardinalityType DEF StackCounted
<1>7. ASSUME NEW q \in Defs
      PROVE  /\ new.stack[q] \in Nat
             /\ IsFiniteSet(Moved(new, q, "CONSUME")) /\ IsFiniteSet(Moved(new, q, "DELIVER"))
             /\ new.stack[q] = Initial[q] - Cardinality(Moved(new, q, "CONSUME"))
                                          + Cardinality(Moved(new, q, "DELIVER"))
  <2>1. CASE q # d
    <3>1. /\ Moved(new, q, "CONSUME") = Moved(w, q, "CONSUME")
          /\ Moved(new, q, "DELIVER") = Moved(w, q, "DELIVER")
      BY <1>2, <2>1
    <3> QED BY <1>3, <1>5, <2>1, <3>1 DEF StackCounted
  <2>2. CASE q = d
    <3>1. Moved(new, d, "CONSUME") = Moved(w, d, "CONSUME")
      BY <1>2
    <3>2. /\ w.stack[d] \in Nat /\ IsFiniteSet(Moved(w, d, "CONSUME"))
          /\ w.stack[d] = Initial[d] - Cardinality(Moved(w, d, "CONSUME"))
                                     + Cardinality(Moved(w, d, "DELIVER"))
      BY <1>1, <1>3 DEF StackCounted
    <3>3. new.stack[d] = Initial[d] - Cardinality(Moved(w, d, "CONSUME"))
                                    + Cardinality(Moved(new, d, "DELIVER"))
      BY <1>1, <1>3, <1>4, <1>5, <1>6, <3>2
    <3>4. new.stack[d] \in Nat
      BY <1>5, <3>2
    <3> QED BY <1>4, <2>2, <3>1, <3>2, <3>3, <3>4
  <2> QED BY <2>1, <2>2
<1>8. StackCounted(new)
  BY <1>5, <1>7 DEF StackCounted
<1>9. TakenOnce(new)
  <2> SUFFICES ASSUME NEW e \in new.log, e.leg.kind = "CONSUME"
               PROVE  Settlement(new, e.op) # {}
    BY DEF TakenOnce
  <2>1. e \in w.log
    BY <1>1
  <2>2. Settlement(w, e.op) # {}
    BY <2>1 DEF StockOK, TakenOnce
  <2>3. Settlement(w, e.op) \subseteq Settlement(new, e.op)
    BY <1>1 DEF Settlement
  <2> QED BY <2>2, <2>3
<1> QED BY <1>8, <1>9 DEF StockOK

\* The baits of a plan are taken, a unit and an event each, when none was settled.
LEMMA BaitedStock ==
    ASSUME NEW w, PlayerOK(w), StockOK(w), NEW o, Settlement(w, o) = {}
    PROVE  StockOK(Baited(w, o))
<1> DEFINE new == Baited(w, o)
           used == BaitPlan(w).used
           taken == {Entry(o, BaitLeg(b), FALSE) : b \in used}
           plan == Entry(o, PlanLeg(BaitPlan(w)), FALSE)
<1>1. \E selection :
          new = [w EXCEPT !.stack = [d \in Defs |-> IF d \in used THEN w.stack[d] - 1
                                                    ELSE w.stack[d]],
                          !.selection = selection, !.log = w.log \cup taken \cup {plan}]
  BY Zenon DEF Baited
<1>2. \A d \in Defs : d \in used => w.stack[d] >= 1
  BY DEF BaitPlan
<1>3. plan.leg.kind = "BAITS" /\ plan.op = o
  BY DEF Entry, PlanLeg
<1>4. \A e \in taken : /\ e.leg.kind = "CONSUME" /\ e.op = o /\ ~ e.overflow
                       /\ \A d : e.leg.def = d <=> e = Entry(o, BaitLeg(d), FALSE)
  BY DEF Entry, BaitLeg
<1>5. \A d : Entry(o, BaitLeg(d), FALSE) \in taken <=> d \in used
  BY DEF Entry, BaitLeg
<1>6. \A d : Entry(o, BaitLeg(d), FALSE).leg.kind = "CONSUME"
             /\ Entry(o, BaitLeg(d), FALSE).op = o
  BY DEF Entry, BaitLeg
<1>7. \A d : Entry(o, BaitLeg(d), FALSE) \notin w.log
  BY <1>6 DEF StockOK, TakenOnce
<1> HIDE DEF used, taken, plan, new
<1>8. /\ new.stack = [d \in Defs |-> IF d \in used THEN w.stack[d] - 1 ELSE w.stack[d]]
      /\ new.log = w.log \cup taken \cup {plan}
  BY <1>1 DEF PlayerOK
<1>9. ASSUME NEW d \in Defs
      PROVE  /\ Moved(new, d, "DELIVER") = Moved(w, d, "DELIVER")
             /\ Moved(new, d, "CONSUME") =
                    IF d \in used THEN Moved(w, d, "CONSUME") \cup {Entry(o, BaitLeg(d), FALSE)}
                    ELSE Moved(w, d, "CONSUME")
  <2> DEFINE mine == Entry(o, BaitLeg(d), FALSE)
  <2>1. mine \in taken <=> d \in used
    BY <1>5
  <2>2. \A e \in taken : /\ e.leg.kind = "CONSUME" /\ ~ e.overflow
                         /\ e.leg.def = d <=> e = mine
    BY <1>4
  <2> HIDE DEF mine
  <2> QED BY <1>3, <1>8, <2>1, <2>2 DEF Moved, mine
<1>10. StackCounted(w) /\ \A d \in Defs : Initial[d] \in Int
  BY InitialAssumption DEF StockOK
<1>11. ASSUME NEW d \in Defs
       PROVE  /\ new.stack[d] \in Nat
              /\ IsFiniteSet(Moved(new, d, "CONSUME")) /\ IsFiniteSet(Moved(new, d, "DELIVER"))
              /\ new.stack[d] = Initial[d] - Cardinality(Moved(new, d, "CONSUME"))
                                           + Cardinality(Moved(new, d, "DELIVER"))
  <2> DEFINE mine == Entry(o, BaitLeg(d), FALSE)
             out == Moved(w, d, "CONSUME")
             in == Moved(w, d, "DELIVER")
  <2>1. /\ w.stack[d] \in Nat /\ IsFiniteSet(out) /\ IsFiniteSet(in)
        /\ w.stack[d] = Initial[d] - Cardinality(out) + Cardinality(in)
        /\ Initial[d] \in Int
    BY <1>10 DEF StackCounted
  <2>2. Cardinality(out) \in Nat /\ Cardinality(in) \in Nat
    BY <2>1, FS_CardinalityType
  <2>3. Moved(new, d, "DELIVER") = in
    BY <1>9
  <2>4. CASE d \in used
    <3>1. Moved(new, d, "CONSUME") = out \cup {mine}
      BY <1>9, <2>4
    <3>2. mine \notin out
      BY <1>7 DEF Moved
    <3>3. IsFiniteSet(out \cup {mine}) /\ Cardinality(out \cup {mine}) = Cardinality(out) + 1
      BY <2>1, <3>2, FS_AddElement
    <3>4. new.stack[d] = w.stack[d] - 1 /\ w.stack[d] >= 1
      BY <1>2, <1>8, <2>4
    <3>5. IsFiniteSet(Moved(new, d, "CONSUME"))
          /\ Cardinality(Moved(new, d, "CONSUME")) = Cardinality(out) + 1
      BY <3>1, <3>3, Zenon
    <3>6. Cardinality(Moved(new, d, "DELIVER")) = Cardinality(in)
          /\ IsFiniteSet(Moved(new, d, "DELIVER"))
      BY <2>1, <2>3, Zenon
    <3> HIDE DEF out, in
    <3> QED BY <2>1, <2>2, <3>4, <3>5, <3>6
  <2>5. CASE d \notin used
    <3>1. Moved(new, d, "CONSUME") = out
      BY <1>9, <2>5
    <3>2. new.stack[d] = w.stack[d]
      BY <1>8, <2>5
    <3> QED BY <2>1, <2>3, <3>1, <3>2
  <2> QED BY <2>4, <2>5
<1>12. StackCounted(new)
  BY <1>8, <1>11 DEF StackCounted
<1>13. TakenOnce(new)
  <2>1. \A q : Settlement(w, q) \subseteq Settlement(new, q)
    BY <1>8 DEF Settlement
  <2>2. plan \in Settlement(new, o)
    BY <1>3, <1>8 DEF Settlement
  <2> SUFFICES ASSUME NEW e \in new.log, e.leg.kind = "CONSUME"
               PROVE  Settlement(new, e.op) # {}
    BY DEF TakenOnce
  <2>3. CASE e \in w.log
    <3>1. Settlement(w, e.op) # {}
      BY <2>3 DEF StockOK, TakenOnce
    <3> QED BY <2>1, <3>1
  <2>4. CASE e \in taken
    BY <1>4, <2>2, <2>4
  <2> QED BY <1>3, <1>8, <2>3, <2>4
<1> QED BY <1>12, <1>13 DEF StockOK, new

\* What a leg puts into a stack, it enters.
LEMMA DeliveredStock ==
    ASSUME NEW w, PlayerOK(w), StockOK(w), NEW o, NEW leg \in CastLegs, NEW began,
           leg \notin Paid(w, o)
    PROVE  StockOK(Delivered(w, o, leg, began))
<1> DEFINE new == Delivered(w, o, leg, began)
<1>1. CASE leg.kind \in InstanceKinds
  <2> DEFINE fits == Used(w, leg.bag) + leg.size <= Capacity(leg.bag)
             overflow == ~ fits
  <2>1. \E items, pending :
            new = [w EXCEPT !.items = items, !.pending = pending,
                            !.log = w.log \cup {Entry(o, leg, overflow)}]
    BY <1>1, Zenon DEF Delivered, Minted
  <2>2. overflow \in BOOLEAN
    OBVIOUS
  <2> HIDE DEF new, overflow
  <2>3. new.stack = w.stack /\ new.log = w.log \cup {Entry(o, leg, overflow)}
    BY <2>1 DEF PlayerOK
  <2>4. leg.kind \notin {"CONSUME", "DELIVER"}
    BY <1>1 DEF InstanceKinds
  <2>5. StockOK(new)
    BY <2>2, <2>3, <2>4, NoMove
  <2> QED BY <2>5 DEF new
<1>2. CASE leg.kind \notin InstanceKinds
  <2>1. leg.kind = "DELIVER" /\ leg.def \in Defs /\ leg.quantity = 1
    BY <1>2, DefsAssumption DEF CastLegs, FishLeg, BookLeg, GoodsLeg, JunkLeg, InstanceKinds
  <2>2. CASE StackFits(w, leg.def, leg.quantity)
    <3>1. new = [w EXCEPT !.stack[leg.def] = @ + leg.quantity,
                          !.log = @ \cup {Entry(o, leg, FALSE)}]
      BY <1>2, <2>2, Zenon DEF Delivered, StackDelivered
    <3> HIDE DEF new
    <3>2. /\ new.stack = [w.stack EXCEPT ![leg.def] = @ + 1]
          /\ new.log = w.log \cup {Entry(o, leg, FALSE)}
      BY <2>1, <3>1 DEF PlayerOK
    <3>3. Entry(o, leg, FALSE) \notin w.log
      <4>1. Entry(o, leg, FALSE).op = o /\ Entry(o, leg, FALSE).leg = leg
        BY DEF Entry
      <4> QED BY <2>1, <4>1 DEF Paid, Events
    <3>4. StockOK(new)
      BY <2>1, <3>2, <3>3, OneMore
    <3> QED BY <3>4 DEF new
  <2>3. CASE ~ StackFits(w, leg.def, leg.quantity)
    <3> DEFINE overflow == TRUE
    <3>1. \E owed : new = [w EXCEPT !.owed = owed, !.log = w.log \cup {Entry(o, leg, overflow)}]
      BY <1>2, <2>1, <2>3, Zenon DEF Delivered, StackDelivered
    <3>2. overflow \in BOOLEAN /\ overflow
      OBVIOUS
    <3> HIDE DEF new, overflow
    <3>3. new.stack = w.stack /\ new.log = w.log \cup {Entry(o, leg, overflow)}
      BY <3>1 DEF PlayerOK
    <3>4. StockOK(new)
      BY <2>1, <3>2, <3>3, NoMove
    <3> QED BY <3>4 DEF new
  <2> QED BY <2>2, <2>3
<1> QED BY <1>1, <1>2

\* Experience and wear move no stack.
LEMMA ProgressedStock ==
    ASSUME NEW w, PlayerOK(w), StockOK(w), NEW o, NEW outcome
    PROVE  StockOK(Progressed(w, o, outcome))
<1> DEFINE new == Progressed(w, o, outcome)
<1>1. CASE ~ Landed(outcome)
  BY <1>1 DEF Progressed
<1>2. CASE Landed(outcome)
  <2> DEFINE overflow == FALSE
  <2>1. new = [w EXCEPT !.log = w.log \cup {Entry(o, ProgressLeg, overflow)}]
    BY <1>2 DEF Progressed
  <2>2. overflow \in BOOLEAN /\ ProgressLeg.kind \notin {"CONSUME", "DELIVER"}
    BY DEF ProgressLeg
  <2> HIDE DEF new, overflow
  <2>3. new.stack = w.stack /\ new.log = w.log \cup {Entry(o, ProgressLeg, overflow)}
    BY <2>1 DEF PlayerOK
  <2>4. StockOK(new)
    BY <2>2, <2>3, NoMove
  <2> QED BY <2>4 DEF new
<1> QED BY <1>1, <1>2

\* Wear moves no stack.
LEMMA WornStock ==
    ASSUME NEW w, PlayerOK(w), StockOK(w), NEW o, NEW c, NEW wear
    PROVE  StockOK(Worn(w, o, c, wear))
<1> DEFINE new == Worn(w, o, c, wear)
           leg == WearLeg(c, wear)
           overflow == FALSE
<1>1. \E rods : new = [w EXCEPT !.rods = rods, !.log = w.log \cup {Entry(o, leg, overflow)}]
  BY Zenon DEF Worn
<1>2. overflow \in BOOLEAN /\ leg.kind \notin {"CONSUME", "DELIVER"}
  BY DEF WearLeg
<1> HIDE DEF new, overflow, leg
<1>3. new.stack = w.stack /\ new.log = w.log \cup {Entry(o, leg, overflow)}
  BY <1>1 DEF PlayerOK
<1>4. StockOK(new)
  BY <1>2, <1>3, NoMove
<1> QED BY <1>4 DEF new

---------------------------------------------------------------------------
(* The stacks, step by step.                                               *)

\* A session that moves, its own copy in balance, keeps the stacks.
LEMMA StocksMove ==
    ASSUME Stocks, Books', NEW s \in Sessions, UNCHANGED db,
           \A t \in Sessions \ {s} : tx'[t] = tx[t],
           tx'[s].phase \in Owning => Stocked(tx'[s])
    PROVE  Stocks'
BY DEF Stocks

\* What every step of a session that owns the player row starts from.
LEMMA Starts ==
    ASSUME Stocks, NEW s \in Sessions, tx[s].phase \in Owning
    PROVE  /\ IInv /\ TxOK(tx[s], db, operation) /\ tx = [t \in Sessions |-> tx[t]]
           /\ PlayerOK(tx[s].work) /\ tx[s].key \in Keys
           /\ Staged(tx[s], db) /\ Stocked(tx[s])
BY DEF Stocks, Books, IInv, TxOK, WorkOK, Owning

\* The first copy is of the committed rows.
LEMMA PreflightStocks ==
    ASSUME Stocks, NEW s \in Sessions, Preflight(s)
    PROVE  Stocks'
<1> DEFINE u == tx'[s]
<1>1. /\ IInv /\ TxOK(tx[s], db, operation) /\ tx = [t \in Sessions |-> tx[t]]
      /\ PlayerOK(db) /\ StockOK(db)
  BY DEF Stocks, Books, IInv
<1>2. /\ UNCHANGED db /\ \A t \in Sessions \ {s} : tx'[t] = tx[t]
      /\ u.phase = "LOCKED" /\ u.work = Entered(db, tx[s].key, tx[s].area)
  BY <1>1 DEF Preflight, TxOK
<1> HIDE DEF u
<1>3. u.work.stack = db.stack /\ u.work.log = db.log
  BY <1>1, <1>2 DEF Entered, PlayerOK
<1>4. StockOK(u.work)
  BY <1>1, <1>3, SameStock
<1>5. Stocked(u)
  BY <1>2, <1>4 DEF Stocked
<1>6. Books'
  BY PreflightPays DEF Stocks
<1> QED BY <1>2, <1>5, <1>6, StocksMove DEF u

\* The baits are taken once for an operation.
LEMMA SettleBaitsStocks ==
    ASSUME Stocks, NEW s \in Sessions, SettleBaits(s)
    PROVE  Stocks'
<1> DEFINE u == tx'[s]
           w == tx[s].work
           o == tx[s].key
<1>1. tx[s].phase \in Owning
  BY DEF SettleBaits, Owning
<1>2. /\ TxOK(tx[s], db, operation) /\ tx = [t \in Sessions |-> tx[t]] /\ PlayerOK(w)
      /\ Stocked(tx[s])
  BY <1>1, Starts
<1>3. /\ UNCHANGED db /\ \A t \in Sessions \ {s} : tx'[t] = tx[t]
      /\ u.phase = "BAITED"
      /\ Settlement(w, o) # {} => u.work = w
      /\ Settlement(w, o) = {} => u.work = Baited(w, o)
  <2>1. CASE Settlement(w, o) # {}
    BY <1>2, <2>1 DEF SettleBaits, TxOK
  <2>2. CASE Settlement(w, o) = {}
    BY <1>2, <2>2 DEF SettleBaits, TxOK
  <2> QED BY <2>1, <2>2
<1> HIDE DEF u
<1>4. StockOK(u.work)
  <2>1. StockOK(w)
    BY <1>2 DEF Stocked
  <2> QED BY <1>2, <1>3, <2>1, BaitedStock
<1>5. Stocked(u)
  BY <1>3, <1>4 DEF Stocked
<1>6. Books'
  BY SettleBaitsPays DEF Stocks
<1> QED BY <1>3, <1>5, <1>6, StocksMove DEF u

\* The legs of an outcome differ from one another.
LEMMA LegsDiffer ==
    ASSUME NEW o, Decided(o), NEW root
    PROVE  LET legs == LegsOf(o, root)
           IN  \A i, j \in DOMAIN legs : legs[i] = legs[j] => i = j
<1>1. o.n \in Nat /\ o.kind \in {"FISH", "BROKEN", "BOOK", "GOODS", "JUNK", "PENDING"}
  BY DEF Decided
<1>2. CASE o.kind = "FISH"
  BY <1>1, <1>2 DEF LegsOf, FishLeg
<1>3. CASE o.kind = "BOOK"
  BY <1>1, <1>3 DEF LegsOf, BookLeg
<1>4. CASE o.kind = "GOODS"
  BY <1>1, <1>4 DEF LegsOf, GoodsLeg
<1>5. CASE o.kind \in {"JUNK", "BROKEN", "PENDING"}
  <2>1. LegsOf(o, root) = <<JunkLeg>> \/ LegsOf(o, root) = <<>>
    BY <1>5 DEF LegsOf
  <2> QED BY <2>1
<1> QED BY <1>1, <1>2, <1>3, <1>4, <1>5

\* What is selected is still to be delivered.
LEMMA SelectStocks ==
    ASSUME Stocks, NEW s \in Sessions, Select(s)
    PROVE  Stocks'
<1> DEFINE u == tx'[s]
           w == tx[s].work
           o == tx[s].key
           outcome == OutcomeIn(tx[s])
           root == tx[s].row.root
<1>1. tx[s].phase = "BAITED" /\ tx[s].phase \in Owning /\ tx[s].phase \in Holding
  BY DEF Select, Owning, Holding
<1>2. /\ TxOK(tx[s], db, operation) /\ tx = [t \in Sessions |-> tx[t]]
      /\ Staged(tx[s], db) /\ Stocked(tx[s])
  BY <1>1, Starts
<1>3. /\ UNCHANGED db /\ \A t \in Sessions \ {s} : tx'[t] = tx[t]
      /\ u.phase = "STAGING" /\ u.key = o /\ u.work = w /\ u.legs = LegsOf(outcome, root)
  BY <1>2 DEF Select, TxOK, OutcomeFor, OutcomeIn
<1>4. Decided(outcome)
  <2>1. IsRoot(root) /\ Ends(tx[s].cast, root)
    BY <1>1, <1>2, RootsAssumption DEF TxOK, RowOK, Select
  <2> QED BY <2>1, EndsWith DEF OutcomeIn
<1> HIDE DEF outcome, u
<1>5. \A i, j \in DOMAIN u.legs : u.legs[i] = u.legs[j] => i = j
  BY <1>3, <1>4, LegsDiffer
<1>6. Paid(u.work, u.key) = {}
  BY <1>1, <1>2, <1>3 DEF Staged
<1>7. Stocked(u)
  <2>1. StockOK(u.work)
    BY <1>2, <1>3 DEF Stocked
  <2>2. Unpaid(u)
    BY <1>5, <1>6 DEF Unpaid
  <2> QED BY <2>1, <2>2 DEF Stocked
<1>8. Books'
  BY SelectPays DEF Stocks
<1> QED BY <1>3, <1>7, <1>8, StocksMove DEF u

\* The leg that is delivered has not been; those that are left are others.
LEMMA DeliverStocks ==
    ASSUME Stocks, NEW s \in Sessions, Deliver(s)
    PROVE  Stocks'
<1> DEFINE u == tx'[s]
           w == tx[s].work
           o == tx[s].key
           legs == tx[s].legs
           new == Delivered(w, o, Head(legs), tx[s].began)
<1>1. tx[s].phase = "STAGING" /\ tx[s].phase \in Owning /\ legs # <<>>
  BY DEF Deliver, Owning
<1>2. /\ TxOK(tx[s], db, operation) /\ tx = [t \in Sessions |-> tx[t]] /\ PlayerOK(w)
      /\ o \in Keys /\ Staged(tx[s], db) /\ Stocked(tx[s])
  BY <1>1, Starts
<1>3. /\ UNCHANGED db /\ \A t \in Sessions \ {s} : tx'[t] = tx[t]
      /\ u.phase = "STAGING" /\ u.key = o /\ u.work = new /\ u.legs = Tail(legs)
  BY <1>2 DEF Deliver, TxOK
<1>4. legs \in Seq(CastLegs) /\ BooksOK(w) /\ StockOK(w) /\ Unpaid(tx[s])
  BY <1>1, <1>2 DEF TxOK, Staged, Stocked
<1> HIDE DEF u, new
<1>5. /\ Head(legs) \in CastLegs /\ Head(legs) = legs[1] /\ 1 \in DOMAIN legs
      /\ \A i \in DOMAIN Tail(legs) : /\ i \in Nat \ {0} /\ i + 1 \in DOMAIN legs
                                      /\ Tail(legs)[i] = legs[i + 1]
  <2> DEFINE rest == Tail(legs)
  <2>1. /\ Len(legs) \in Nat \ {0} /\ DOMAIN legs = 1 .. Len(legs) /\ Head(legs) = legs[1]
        /\ DOMAIN rest = 1 .. Len(legs) - 1
        /\ \A i \in 1 .. Len(legs) - 1 : rest[i] = legs[i + 1]
    BY <1>1, <1>4
  <2>2. Head(legs) \in CastLegs
    BY <1>1, <1>4
  <2> HIDE DEF rest
  <2>3. 1 \in DOMAIN legs /\ \A i \in DOMAIN rest : i \in Nat \ {0} /\ i + 1 \in DOMAIN legs
    BY <2>1
  <2> QED BY <2>1, <2>2, <2>3 DEF rest
<1>6. Head(legs) \notin Paid(w, o)
  BY <1>4, <1>5 DEF Unpaid
<1>7. StockOK(new)
  BY <1>2, <1>4, <1>5, <1>6, DeliveredStock DEF new
<1>8. Paid(new, o) = Paid(w, o) \cup {Head(legs)}
  BY <1>2, <1>4, <1>5, DeliveredPays DEF new
<1>9. Unpaid(u)
  <2>1. \A i, j \in DOMAIN u.legs : u.legs[i] = u.legs[j] => i = j
    <3> SUFFICES ASSUME NEW i \in DOMAIN Tail(legs), NEW j \in DOMAIN Tail(legs),
                        Tail(legs)[i] = Tail(legs)[j]
                 PROVE  i = j
      BY <1>3
    <3>1. i + 1 = j + 1
      BY <1>4, <1>5 DEF Unpaid
    <3> QED BY <1>5, <3>1
  <2>2. \A i \in DOMAIN u.legs : u.legs[i] \notin Paid(u.work, u.key)
    <3> SUFFICES ASSUME NEW i \in DOMAIN Tail(legs)
                 PROVE  Tail(legs)[i] \notin Paid(new, o)
      BY <1>3
    <3>1. i + 1 \in DOMAIN legs /\ i + 1 # 1 /\ Tail(legs)[i] = legs[i + 1]
      BY <1>5
    <3>2. legs[i + 1] \notin Paid(w, o) /\ legs[i + 1] # legs[1]
      BY <1>4, <1>5, <3>1 DEF Unpaid
    <3> QED BY <1>5, <1>8, <3>1, <3>2
  <2> QED BY <2>1, <2>2 DEF Unpaid
<1>10. Stocked(u)
  BY <1>3, <1>7, <1>9 DEF Stocked
<1>11. Books'
  BY DeliverPays DEF Stocks
<1> QED BY <1>3, <1>10, <1>11, StocksMove DEF u

\* Progress and wear move no stack.
LEMMA EndStocks ==
    ASSUME Stocks, NEW s \in Sessions, Progress(s) \/ Wear(s)
    PROVE  Stocks'
<1> DEFINE u == tx'[s]
           w == tx[s].work
           o == tx[s].key
           c == tx[s].cast
<1>1. tx[s].phase \in Owning
  BY DEF Progress, Wear, Owning
<1>2. /\ TxOK(tx[s], db, operation) /\ tx = [t \in Sessions |-> tx[t]] /\ PlayerOK(w)
      /\ StockOK(w)
  BY <1>1, Starts DEF Stocked
<1>3. UNCHANGED db /\ \A t \in Sessions \ {s} : tx'[t] = tx[t]
  BY <1>2 DEF Progress, Wear
<1>4. /\ u.phase \in {"LANDED", "WORN"}
      /\ \/ \E outcome : u.work = Progressed(w, o, outcome)
         \/ \E wear : u.work = Worn(w, o, c, wear)
         \/ u.work = w
  <2>1. CASE Progress(s)
    <3>1. u.phase = "LANDED" /\ u.work = Progressed(w, o, OutcomeFor(s))
      BY <1>2, <2>1 DEF Progress, TxOK
    <3> QED BY <3>1
  <2>2. CASE Wear(s)
    <3>1. u.phase = "WORN"
          /\ u.work = IF Wears(c) THEN Worn(w, o, c, OutcomeFor(s).wear) ELSE w
      BY <1>2, <2>2 DEF Wear, TxOK
    <3> QED BY <3>1
  <2> QED BY <2>1, <2>2
<1> HIDE DEF u
<1>5. StockOK(u.work)
  BY <1>2, <1>4, ProgressedStock, WornStock
<1>6. Stocked(u)
  BY <1>4, <1>5 DEF Stocked
<1>7. Books'
  BY ProgressPays, WearPays DEF Stocks
<1> QED BY <1>3, <1>6, <1>7, StocksMove DEF u

\* A copy that is committed is in balance, and nobody else has one.
LEMMA WriteStocks ==
    ASSUME Stocks, NEW s \in Sessions, Commit(s) \/ SaveBaits(s)
    PROVE  Stocks'
<1>1. tx[s].phase \in Owning
  BY DEF Commit, TerminalReached, SaveBaits, Owning
<1>2. IInv /\ tx = [t \in Sessions |-> tx[t]] /\ StockOK(tx[s].work)
  BY <1>1, Starts DEF Stocked
<1>3. db' = tx[s].work /\ tx' = [tx EXCEPT ![s] = Idle]
  BY DEF Commit, SaveBaits, Leave
<1>4. \A t \in Sessions : tx'[t].phase \notin Owning
  BY <1>1, <1>2, <1>3 DEF Exclusive, IInv, Idle, Owning
<1>5. Books'
  BY CommitPays, SavesPay DEF Stocks
<1> QED BY <1>2, <1>3, <1>4, <1>5 DEF Stocks

\* A session that has or gets no copy moves nothing.
LEMMA OtherStocks ==
    ASSUME Stocks, NEW s \in Sessions,
           Begin(s) \/ Resolve(s) \/ Answer(s) \/ Refuse(s) \/ RollBack(s) \/ SaveRow(s)
    PROVE  Stocks'
<1>1. tx = [t \in Sessions |-> tx[t]] /\ TxOK(tx[s], db, operation)
  BY DEF Stocks, Books, IInv
<1>2. UNCHANGED db /\ \A t \in Sessions \ {s} : tx'[t] = tx[t]
  BY <1>1 DEF Begin, Resolve, Answer, Refuse, RollBack, SaveRow, Leave
<1>3. tx'[s].phase \in {"WAITING", "OPEN", "IDLE"}
  <2>1. CASE Begin(s)
    BY <1>1, <2>1 DEF Begin, Idle
  <2>2. CASE Resolve(s)
    BY <1>1, <2>2 DEF Resolve, TxOK
  <2>3. CASE Answer(s) \/ Refuse(s) \/ RollBack(s) \/ SaveRow(s)
    BY <1>1, <2>3 DEF Answer, Refuse, RollBack, SaveRow, Leave, Idle
  <2> QED BY <2>1, <2>2, <2>3
<1>4. tx'[s].phase \notin Owning
  BY <1>3 DEF Owning
<1>5. Books'
  BY OthersPay, SavesPay DEF Stocks
<1> QED BY <1>2, <1>4, <1>5, StocksMove

\* Claims, sales and the rest move items, not stacks.
LEMMA ElseStocks ==
    ASSUME Stocks, Else
    PROVE  Stocks'
<1>1. IInv /\ PlayerOK(db) /\ StockOK(db)
  BY DEF Stocks, Books, IInv
<1>2. UNCHANGED tx /\ PlayerFree
  BY DEF Else, Equip, ReplaceBaits, ClaimCatches, TakeOut, SetStatus, Level, Rebirth, Elsewhere
<1>3. db'.stack = db.stack /\ db'.log = db.log
  <2>1. CASE ClaimCatches
    <3> DEFINE made == Claimed(db, None, [bag |-> "CATCH_BAG"])
    <3>1. db' = [made EXCEPT !.log = db.log]
      BY <2>1 DEF ClaimCatches, Elsewhere
    <3>2. \E items, pending, log :
              made = [db EXCEPT !.items = items, !.pending = pending, !.log = log]
      BY Zenon DEF Claimed
    <3> HIDE DEF made
    <3> QED BY <1>1, <3>1, <3>2 DEF PlayerOK
  <2>2. CASE \E i \in DOMAIN db.items : TakeOut(i)
    <3>1. \E items : db' = [db EXCEPT !.items = items]
      BY <2>2, Zenon DEF TakeOut, Elsewhere
    <3> QED BY <1>1, <3>1 DEF PlayerOK
  <2>3. CASE Rebirth
    <3>1. \E level, rebirths : db' = [db EXCEPT !.level = level, !.rebirths = rebirths]
      BY <2>3, Zenon DEF Rebirth, Elsewhere
    <3> QED BY <1>1, <3>1 DEF PlayerOK
  <2>4. CASE \/ \E r \in RodNames : Equip(r)
             \/ \E S \in Selections : ReplaceBaits(S)
             \/ \E status \in {"ACTIVE", "FROZEN"} : SetStatus(status)
             \/ \E n \in Levels : Level(n)
    BY <1>1, <2>4 DEF Equip, ReplaceBaits, SetStatus, Level, Elsewhere, PlayerOK
  <2> QED BY <2>1, <2>2, <2>3, <2>4 DEF Else
<1>4. StockOK(db')
  BY <1>1, <1>3, SameStock
<1>5. \A s \in Sessions : tx'[s].phase \notin Owning
  BY <1>1, <1>2, Names DEF PlayerFree, IInv
<1>6. Books'
  BY ElsesPay DEF Stocks
<1> QED BY <1>4, <1>5, <1>6 DEF Stocks

\* The stacks of the committed rows and of every copy are in balance.
LEMMA StocksHold == Spec => []Stocks
<1>1. Init => Stocks
  <2> SUFFICES ASSUME Init PROVE Stocks
    OBVIOUS
  <2>1. PICK r \in RodNames : db = Rows(r)
    BY DEF Init
  <2>2. db.stack = Initial /\ db.log = {}
    BY <2>1 DEF Rows
  <2>3. \A d, kind : Moved(db, d, kind) = {}
    BY <2>2 DEF Moved
  <2>4. IsFiniteSet({}) /\ Cardinality({}) = 0
    BY FS_EmptySet
  <2>5. StackCounted(db)
    <3> SUFFICES ASSUME NEW d \in Defs
                 PROVE  /\ db.stack[d] \in Nat
                        /\ IsFiniteSet(Moved(db, d, "CONSUME"))
                        /\ IsFiniteSet(Moved(db, d, "DELIVER"))
                        /\ db.stack[d] = Initial[d] - Cardinality(Moved(db, d, "CONSUME"))
                                                    + Cardinality(Moved(db, d, "DELIVER"))
      BY <2>2, InitialAssumption DEF StackCounted
    <3>1. Moved(db, d, "CONSUME") = {} /\ Moved(db, d, "DELIVER") = {}
      BY <2>3
    <3>2. Initial[d] \in Nat
      BY InitialAssumption
    <3> HIDE DEF Moved
    <3> QED BY <2>2, <2>4, <3>1, <3>2
  <2>6. TakenOnce(db)
    BY <2>2 DEF TakenOnce
  <2>7. \A s \in Sessions : tx[s].phase \notin Owning
    BY DEF Init, Idle, Owning
  <2>8. Books
    BY InitPays
  <2> QED BY <2>5, <2>6, <2>7, <2>8 DEF Stocks, StockOK
<1>2. Stocks /\ [Next]_vars => Stocks'
  <2> SUFFICES ASSUME Stocks, [Next]_vars PROVE Stocks'
    OBVIOUS
  <2>1. CASE UNCHANGED vars
    <3>1. Books'
      BY <2>1, NextPays DEF Stocks
    <3> QED BY <2>1, <3>1 DEF Stocks, vars
  <2>2. ASSUME NEW s \in Sessions,
               Begin(s) \/ Step(s) \/ SaveRow(s) \/ SaveBaits(s) \/ RollBack(s)
        PROVE  Stocks'
    BY <2>2, PreflightStocks, SettleBaitsStocks, SelectStocks, DeliverStocks, EndStocks,
       WriteStocks, OtherStocks DEF Step
  <2> QED BY <2>1, <2>2, ElseStocks DEF Next
<1> QED BY <1>1, <1>2, PTL DEF Spec

\* A unit leaves a stack once for each operation that settles the bait and comes in
\* with each stack that is delivered, whatever casts run, fail or are repeated.
THEOREM BaitsAccounted == Spec => []BaitsBalance
<1>1. Stocks => BaitsBalance
  <2> SUFFICES ASSUME Stocks, NEW d \in Defs
               PROVE  db.stack[d] = Initial[d] - Cardinality(Moved(db, d, "CONSUME"))
                                               + Cardinality(Moved(db, d, "DELIVER"))
    BY DEF BaitsBalance, Moved
  <2> QED BY DEF Stocks, StockOK, StackCounted
<1> QED BY <1>1, StocksHold, PTL

---------------------------------------------------------------------------
(* A cast is served on the rows of one moment: its copy is what its own    *)
(* steps make of the committed rows, which nobody else changes meanwhile.  *)

\* One bait plan for an operation; the deliveries that wait are a sequence.
Regular(w) ==
    /\ \A e, f \in w.log : (e.leg.kind = "BAITS" /\ f.leg.kind = "BAITS" /\ e.op = f.op) => e = f
    /\ \E n \in Nat : w.pending = [i \in 1 .. n |-> w.pending[i]]

\* What waited still waits.
Onward(new, w) ==
    /\ Regular(new)
    /\ \A i \in DOMAIN w.pending : i \in DOMAIN new.pending /\ new.pending[i] = w.pending[i]

\* The bait plan of an operation and the rows it is cast on: settled before or now.
PlanOf(w, o) ==
    IF Settlement(w, o) # {} THEN (CHOOSE e \in Settlement(w, o) : TRUE).leg.plan
    ELSE BaitPlan(w)
PreparedOf(w, o, area) ==
    IF Settlement(w, o) # {} THEN Entered(w, o, area) ELSE Baited(Entered(w, o, area), o)

\* run[i] are the rows w after the first i legs.
Runs(run, w, o, legs, began, n) ==
    /\ run[0] = w
    /\ \A i \in 1 .. n : run[i] = Delivered(run[i - 1], o, legs[i], began)

LegsIn(t) == LegsOf(OutcomeIn(t), t.row.root)

\* The rows are w with the first n legs of the outcome delivered.
Reached(t, w, n, rows) ==
    /\ n \in 0 .. Len(LegsIn(t))
    /\ \E run : /\ Runs(run, PreparedOf(w, t.key, t.area), t.key, LegsIn(t), t.began, n)
                /\ rows = run[n]
    /\ \A i \in 1 .. n : MayDeliver(w, t.key, LegsIn(t)[i])

\* Progress and wear, for what is landed.
LandedOf(t, rows) == Progressed(rows, t.key, OutcomeIn(t))
WornOf(t, rows) ==
    IF Wears(t.cast) THEN Worn(LandedOf(t, rows), t.key, t.cast, OutcomeIn(t).wear)
    ELSE LandedOf(t, rows)

Baiting(t, w) ==
    /\ Settlement(w, t.key) # {} \/ MayBait(w)
    /\ t.cast = [name |-> w.equipped, rod |-> Rod(w), area |-> t.area, plan |-> PlanOf(w, t.key)]

Serves(t, w) ==
    /\ Onward(t.work, w) /\ MayFish(w, t.area)
    /\ IF t.phase = "LOCKED"
       THEN t.work = Entered(w, t.key, t.area) /\ t.cast = CastOf(w, t.area)
       ELSE Baiting(t, w)
    /\ t.phase = "BAITED" => t.work = PreparedOf(w, t.key, t.area)
    /\ t.phase = "STAGING" =>
           \E n \in Nat : /\ n + Len(t.legs) = Len(LegsIn(t))
                          /\ \A i \in 1 .. Len(t.legs) : t.legs[i] = LegsIn(t)[n + i]
                          /\ Reached(t, w, n, t.work)
    /\ t.phase = "LANDED" =>
           \E rows : Reached(t, w, Len(LegsIn(t)), rows) /\ t.work = LandedOf(t, rows)
    /\ t.phase = "WORN" =>
           \E rows : Reached(t, w, Len(LegsIn(t)), rows) /\ t.work = WornOf(t, rows)

\* A row without a receipt is pending.
Unanswered(row) == row.state = "PENDING" => row.receipt = None

TxServes(t, w, n) ==
    /\ t.phase # "IDLE" => t.began \in 1 .. n
    /\ t.phase \in Holding => Unanswered(t.row)
    /\ t.phase \in Owning => Serves(t, w)

Serving ==
    /\ IInv /\ Regular(db) /\ begun \in 0 .. MaxBegun
    /\ \A k \in Keys : Unanswered(operation[k])
    /\ \A s \in Sessions : TxServes(tx[s], db, begun)

\* What an entry of another kind than a bait plan, and one more delivery, leave.
LEMMA RegularMore ==
    ASSUME NEW w, Regular(w), NEW new, NEW o, NEW leg, leg.kind # "BAITS", NEW overflow,
           new.log = w.log \cup {Entry(o, leg, overflow)},
           new.pending = w.pending \/ \E row : new.pending = Append(w.pending, row)
    PROVE  Onward(new, w)
<1> DEFINE entry == Entry(o, leg, overflow)
<1>1. new.log = w.log \cup {entry} /\ entry.leg.kind # "BAITS"
  BY DEF Entry
<1> HIDE DEF entry
<1>2. \A e, f \in new.log :
          (e.leg.kind = "BAITS" /\ f.leg.kind = "BAITS" /\ e.op = f.op) => e = f
  BY <1>1 DEF Regular
<1>3. PICK n \in Nat : w.pending = [i \in 1 .. n |-> w.pending[i]]
  BY DEF Regular
<1>4. CASE new.pending = w.pending
  BY <1>2, <1>3, <1>4 DEF Onward, Regular
<1>5. CASE \E row : new.pending = Append(w.pending, row)
  <2>1. PICK row : new.pending = Append(w.pending, row)
    BY <1>5
  <2> DEFINE S == {w.pending[i] : i \in 1 .. n} \cup {row}
  <2>2. w.pending \in [1 .. n -> S] /\ row \in S
    BY <1>3
  <2> HIDE DEF S
  <2>3. w.pending \in Seq(S) /\ Len(w.pending) = n /\ DOMAIN w.pending = 1 .. n
    BY <2>2
  <2> DEFINE more == Append(w.pending, row)
  <2>4. /\ more = [i \in 1 .. n + 1 |-> more[i]]
        /\ \A i \in 1 .. n : more[i] = w.pending[i]
    BY <2>2, <2>3
  <2> HIDE DEF more
  <2>5. new.pending = more /\ n + 1 \in Nat /\ \A i \in 1 .. n : i \in 1 .. n + 1
    BY <2>1 DEF more
  <2>6. \A i \in DOMAIN w.pending : i \in DOMAIN new.pending /\ new.pending[i] = w.pending[i]
    BY <2>3, <2>4, <2>5
  <2>7. \E m \in Nat : new.pending = [i \in 1 .. m |-> new.pending[i]]
    BY <2>4, <2>5
  <2> QED BY <1>2, <2>6, <2>7 DEF Onward, Regular
<1> QED BY <1>4, <1>5

\* What waits after two steps is what waited before them.
LEMMA OnwardTwice ==
    ASSUME NEW u, NEW v, NEW w, Onward(u, v), Onward(v, w)
    PROVE  Onward(u, w)
BY DEF Onward

\* A visit opens an area and leaves everything else.
LEMMA EnteredServes ==
    ASSUME NEW w, PlayerOK(w), Regular(w), NEW o, NEW area
    PROVE  LET new == Entered(w, o, area)
           IN  /\ Onward(new, w) /\ new.stack = w.stack /\ new.log = w.log
               /\ new.rods = w.rods /\ new.equipped = w.equipped
               /\ new.selection = w.selection
<1> DEFINE new == Entered(w, o, area)
<1>1. \E unlocked : new = [w EXCEPT !.unlocked = unlocked] \/ new = w
  BY Zenon DEF Entered
<1> HIDE DEF new
<1>2. /\ new.stack = w.stack /\ new.log = w.log /\ new.rods = w.rods
      /\ new.equipped = w.equipped /\ new.selection = w.selection /\ new.pending = w.pending
  BY <1>1 DEF PlayerOK
<1>3. Onward(new, w)
  BY <1>2 DEF Onward, Regular
<1> QED BY <1>2, <1>3 DEF new

\* The plan of an operation that has none is the only one.
LEMMA BaitedServes ==
    ASSUME NEW w, PlayerOK(w), Regular(w), NEW o, Settlement(w, o) = {}
    PROVE  Onward(Baited(w, o), w)
<1> DEFINE new == Baited(w, o)
           taken == {Entry(o, BaitLeg(b), FALSE) : b \in BaitPlan(w).used}
           plan == Entry(o, PlanLeg(BaitPlan(w)), FALSE)
<1>1. \E stack, selection :
          new = [w EXCEPT !.stack = stack, !.selection = selection,
                          !.log = w.log \cup taken \cup {plan}]
  BY Zenon DEF Baited
<1>2. plan.op = o /\ \A e \in taken : e.leg.kind # "BAITS"
  BY DEF Entry, BaitLeg
<1> HIDE DEF new, taken, plan
<1>3. new.pending = w.pending /\ new.log = w.log \cup taken \cup {plan}
  BY <1>1 DEF PlayerOK
<1>4. \A e \in w.log : e.leg.kind = "BAITS" => e.op # o
  BY DEF Settlement
<1>5. ASSUME NEW e \in new.log, NEW f \in new.log, e.leg.kind = "BAITS",
             f.leg.kind = "BAITS", e.op = f.op
      PROVE  e = f
  BY <1>2, <1>3, <1>4, <1>5 DEF Regular
<1> QED BY <1>3, <1>5 DEF Onward, Regular, new

\* A delivery takes nothing that waits away.
LEMMA DeliveredServes ==
    ASSUME NEW w, PlayerOK(w), Regular(w), NEW o, NEW leg \in CastLegs, NEW began
    PROVE  Onward(Delivered(w, o, leg, began), w)
<1> DEFINE new == Delivered(w, o, leg, began)
<1>1. leg.kind \in {"FISH", "UNIQUE", "DELIVER"}
  BY DEF CastLegs, FishLeg, BookLeg, GoodsLeg, JunkLeg
<1>2. CASE leg.kind \in InstanceKinds
  <2> DEFINE overflow == ~ (Used(w, leg.bag) + leg.size <= Capacity(leg.bag))
             row == [op |-> o, key |-> leg.key, item |-> Len(w.items) + 1, bag |-> leg.bag,
                     state |-> "PENDING", created |-> began]
  <2>1. \E items :
            new = [w EXCEPT !.items = items,
                            !.pending = IF ~ overflow THEN w.pending ELSE Append(w.pending, row),
                            !.log = w.log \cup {Entry(o, leg, overflow)}]
    BY <1>2, Zenon DEF Delivered, Minted
  <2> HIDE DEF new, overflow, row
  <2>2. /\ new.log = w.log \cup {Entry(o, leg, overflow)}
        /\ new.pending = IF ~ overflow THEN w.pending ELSE Append(w.pending, row)
    BY <2>1 DEF PlayerOK
  <2>3. new.pending = w.pending \/ \E r : new.pending = Append(w.pending, r)
    BY <2>2
  <2>4. leg.kind # "BAITS"
    BY <1>1
  <2>5. Onward(new, w)
    BY <2>2, <2>3, <2>4, RegularMore
  <2> QED BY <2>5 DEF new
<1>3. CASE leg.kind \notin InstanceKinds
  <2>1. \E overflow, stack, owed :
            new = [w EXCEPT !.stack = stack, !.log = w.log \cup {Entry(o, leg, overflow)}]
                \/ new = [w EXCEPT !.owed = owed, !.log = w.log \cup {Entry(o, leg, overflow)}]
    BY <1>1, <1>3, Zenon DEF Delivered, StackDelivered
  <2> HIDE DEF new
  <2>2. PICK overflow : new.pending = w.pending /\ new.log = w.log \cup {Entry(o, leg, overflow)}
    BY <2>1 DEF PlayerOK
  <2>3. leg.kind # "BAITS"
    BY <1>1
  <2>4. Onward(new, w)
    BY <2>2, <2>3, RegularMore
  <2> QED BY <2>4 DEF new
<1> QED BY <1>2, <1>3

\* Neither do progress and wear.
LEMMA EndServes ==
    ASSUME NEW w, PlayerOK(w), Regular(w), NEW o, NEW outcome, NEW c, NEW wear
    PROVE  /\ Onward(Progressed(w, o, outcome), w)
           /\ Onward(Worn(w, o, c, wear), w)
<1> DEFINE overflow == FALSE
<1>1. Onward(Progressed(w, o, outcome), w)
  <2> DEFINE new == Progressed(w, o, outcome)
  <2>1. CASE ~ Landed(outcome)
    BY <2>1 DEF Progressed, Onward
  <2>2. CASE Landed(outcome)
    <3>1. new = [w EXCEPT !.log = w.log \cup {Entry(o, ProgressLeg, overflow)}]
      BY <2>2 DEF Progressed
    <3>2. ProgressLeg.kind # "BAITS"
      BY DEF ProgressLeg
    <3> HIDE DEF new, overflow
    <3>3. new.pending = w.pending /\ new.log = w.log \cup {Entry(o, ProgressLeg, overflow)}
      BY <3>1 DEF PlayerOK
    <3>4. Onward(new, w)
      BY <3>2, <3>3, RegularMore
    <3> QED BY <3>4 DEF new
  <2> QED BY <2>1, <2>2
<1>2. Onward(Worn(w, o, c, wear), w)
  <2> DEFINE new == Worn(w, o, c, wear)
             leg == WearLeg(c, wear)
  <2>1. \E rods : new = [w EXCEPT !.rods = rods, !.log = w.log \cup {Entry(o, leg, overflow)}]
    BY Zenon DEF Worn
  <2>2. leg.kind # "BAITS"
    BY DEF WearLeg
  <2> HIDE DEF new, leg, overflow
  <2>3. new.pending = w.pending /\ new.log = w.log \cup {Entry(o, leg, overflow)}
    BY <2>1 DEF PlayerOK
  <2>4. Onward(new, w)
    BY <2>2, <2>3, RegularMore
  <2> QED BY <2>4 DEF new
<1> QED BY <1>1, <1>2

\* What may be delivered with more deliveries waiting might have been before.
LEMMA MayDeliverBefore ==
    ASSUME NEW w, NEW new, Onward(new, w), NEW o, NEW leg, MayDeliver(new, o, leg)
    PROVE  MayDeliver(w, o, leg)
BY DEF MayDeliver, MayMint, Waiting, Onward

---------------------------------------------------------------------------
(* The copy stays what a cast on the committed rows makes, step by step.   *)

\* What every step of a session that owns the player row starts from.
LEMMA ServesFrom ==
    ASSUME Serving, NEW s \in Sessions, tx[s].phase \in Owning
    PROVE  /\ IInv /\ TxOK(tx[s], db, operation) /\ tx = [t \in Sessions |-> tx[t]]
           /\ PlayerOK(tx[s].work) /\ PlayerOK(db) /\ tx[s].key \in Keys
           /\ Serves(tx[s], db) /\ Onward(tx[s].work, db) /\ Regular(tx[s].work)
           /\ tx[s].phase \in Holding /\ tx[s].phase # "IDLE"
           /\ tx[s].row.state = "PENDING" /\ Unanswered(tx[s].row)
BY DEF Serving, IInv, TxOK, WorkOK, Owning, Holding, TxServes, Serves, Onward

\* A session that moves and still serves its request.
LEMMA ServeMove ==
    ASSUME Serving, IInv', NEW s \in Sessions, UNCHANGED <<db, operation, begun>>,
           \A t \in Sessions \ {s} : tx'[t] = tx[t],
           TxServes(tx'[s], db, begun)
    PROVE  Serving'
<1>1. \A t \in Sessions : TxServes(tx'[t], db, begun)
  BY DEF Serving
<1>2. /\ Regular(db') /\ begun' \in 0 .. MaxBegun /\ \A k \in Keys : Unanswered(operation'[k])
  BY DEF Serving
<1>3. \A t \in Sessions : TxServes(tx'[t], db', begun')
  BY <1>1
<1> QED BY <1>2, <1>3 DEF Serving

\* The steps of a cast change its phase, its copy, its cast and its legs.
LEMMA ServeStep ==
    ASSUME Serving, IInv', NEW s \in Sessions, UNCHANGED <<db, operation, begun>>,
           \A t \in Sessions \ {s} : tx'[t] = tx[t],
           tx[s].phase \in Holding, tx'[s].phase # "IDLE",
           tx'[s].row = tx[s].row, tx'[s].began = tx[s].began, Serves(tx'[s], db)
    PROVE  Serving'
<1>1. TxServes(tx[s], db, begun) /\ tx[s].phase # "IDLE"
  BY DEF Serving, Holding, Owning
<1>2. TxServes(tx'[s], db, begun)
  BY <1>1 DEF TxServes
<1> QED BY <1>2, ServeMove

\* The rows are locked: the copy is theirs, with the area opened.
LEMMA PreflightServes ==
    ASSUME Serving, NEW s \in Sessions, Preflight(s)
    PROVE  Serving'
<1> DEFINE u == tx'[s]
<1>1. /\ IInv /\ TxOK(tx[s], db, operation) /\ tx = [t \in Sessions |-> tx[t]]
      /\ PlayerOK(db) /\ Regular(db)
  BY DEF Serving, IInv
<1>2. tx[s].phase \in Holding
  BY DEF Preflight, Castable, Holding
<1>3. /\ UNCHANGED <<db, operation, begun>> /\ MayFish(db, tx[s].area)
      /\ u.phase = "LOCKED" /\ u.key = tx[s].key /\ u.area = tx[s].area /\ u.row = tx[s].row
      /\ u.began = tx[s].began
      /\ u.work = Entered(db, tx[s].key, tx[s].area) /\ u.cast = CastOf(db, tx[s].area)
  BY <1>1 DEF Preflight, TxOK
<1>4. \A t \in Sessions \ {s} : tx'[t] = tx[t]
  BY <1>1 DEF Preflight
<1> HIDE DEF u
<1>5. Onward(u.work, db)
  BY <1>1, <1>3, EnteredServes
<1>6. Serves(u, db)
  BY <1>3, <1>5 DEF Serves
<1>7. IInv'
  BY <1>1, PreflightKeeps
<1> QED BY <1>2, <1>3, <1>4, <1>6, <1>7, ServeStep DEF u

\* The plan of the copy is the plan of the rows.
LEMMA SamePlan ==
    ASSUME NEW w, PlayerOK(w), Regular(w), NEW o, NEW area
    PROVE  LET new == Entered(w, o, area)
           IN  /\ Settlement(new, o) = Settlement(w, o) /\ BaitPlan(new) = BaitPlan(w)
               /\ MayBait(new) = MayBait(w)
<1> DEFINE new == Entered(w, o, area)
<1>1. /\ new.stack = w.stack /\ new.log = w.log /\ new.rods = w.rods
      /\ new.equipped = w.equipped /\ new.selection = w.selection
  BY EnteredServes
<1> HIDE DEF new
<1>2. /\ Settlement(new, o) = Settlement(w, o) /\ BaitPlan(new) = BaitPlan(w)
      /\ MayBait(new) = MayBait(w)
  BY <1>1 DEF Settlement, BaitPlan, MayBait, Rod
<1> QED BY <1>2 DEF new

\* The baits are settled on the copy as they would be on the rows.
LEMMA SettleBaitsServes ==
    ASSUME Serving, NEW s \in Sessions, SettleBaits(s)
    PROVE  Serving'
<1> DEFINE u == tx'[s]
           w == tx[s].work
           o == tx[s].key
           c == tx[s].cast
           area == tx[s].area
<1>1. tx[s].phase = "LOCKED" /\ tx[s].phase \in Owning
  BY DEF SettleBaits, Owning
<1>2. /\ IInv /\ TxOK(tx[s], db, operation) /\ tx = [t \in Sessions |-> tx[t]]
      /\ PlayerOK(w) /\ PlayerOK(db) /\ Serves(tx[s], db) /\ Regular(w) /\ Onward(w, db)
      /\ tx[s].phase \in Holding /\ Regular(db)
  BY <1>1, ServesFrom DEF Serving
<1>3. w = Entered(db, o, area) /\ c = CastOf(db, area) /\ MayFish(db, area)
  BY <1>1, <1>2 DEF Serves
<1>4. /\ Settlement(w, o) = Settlement(db, o) /\ BaitPlan(w) = BaitPlan(db)
      /\ MayBait(w) = MayBait(db)
  BY <1>2, <1>3, SamePlan
<1>5. /\ UNCHANGED <<db, operation, begun>> /\ u.phase = "BAITED" /\ u.key = o
      /\ u.area = area /\ u.row = tx[s].row /\ u.began = tx[s].began
      /\ u.work = IF Settlement(w, o) # {} THEN w ELSE Baited(w, o)
      /\ u.cast = [c EXCEPT !.plan =
                      IF Settlement(w, o) # {}
                      THEN (CHOOSE e \in Settlement(w, o) : TRUE).leg.plan ELSE BaitPlan(w)]
      /\ Settlement(w, o) # {} \/ MayBait(w)
  BY <1>2 DEF SettleBaits, TxOK
<1>6. \A t \in Sessions \ {s} : tx'[t] = tx[t]
  BY <1>2 DEF SettleBaits
<1> HIDE DEF u, w, c
<1>7. u.work = PreparedOf(db, o, area)
  BY <1>3, <1>4, <1>5 DEF PreparedOf
<1>8. Baiting(u, db)
  <2>1. u.cast = [c EXCEPT !.plan = PlanOf(db, o)]
    BY <1>4, <1>5, Zenon DEF PlanOf
  <2> QED BY <1>3, <1>4, <1>5, <2>1 DEF Baiting, CastOf
<1>9. Onward(u.work, db)
  <2>1. CASE Settlement(w, o) # {}
    BY <1>2, <1>5, <2>1
  <2>2. CASE Settlement(w, o) = {}
    BY <1>2, <1>5, <2>2, BaitedServes, OnwardTwice
  <2> QED BY <2>1, <2>2
<1>10. Serves(u, db)
  BY <1>3, <1>5, <1>7, <1>8, <1>9 DEF Serves
<1>11. IInv'
  BY <1>2, SettleBaitsKeeps
<1> QED BY <1>2, <1>5, <1>6, <1>10, <1>11, ServeStep DEF u

\* No leg is delivered yet.
LEMMA SelectServes ==
    ASSUME Serving, NEW s \in Sessions, Select(s)
    PROVE  Serving'
<1> DEFINE u == tx'[s]
           t == tx[s]
<1>1. t.phase = "BAITED" /\ t.phase \in Owning
  BY DEF Select, Owning
<1>2. /\ IInv /\ TxOK(t, db, operation) /\ tx = [q \in Sessions |-> tx[q]]
      /\ Serves(t, db) /\ t.phase \in Holding
  BY <1>1, ServesFrom
<1>3. IsRoot(t.row.root) /\ Ends(t.cast, t.row.root)
  BY <1>2, RootsAssumption DEF TxOK, RowOK, Select
<1>4. LegsIn(t) \in Seq(CastLegs)
  BY <1>3, EndsWith DEF LegsIn, OutcomeIn
<1>5. /\ UNCHANGED <<db, operation, begun>> /\ u.phase = "STAGING" /\ u.key = t.key
      /\ u.area = t.area /\ u.row = t.row /\ u.began = t.began /\ u.work = t.work
      /\ u.cast = t.cast /\ u.legs = LegsIn(t)
  BY <1>2 DEF Select, TxOK, OutcomeFor, LegsIn, OutcomeIn
<1>6. \A q \in Sessions \ {s} : tx'[q] = tx[q]
  BY <1>2 DEF Select
<1> HIDE DEF u, t
<1>7. LegsIn(u) = LegsIn(t)
  BY <1>5 DEF LegsIn, OutcomeIn
<1>8. /\ Onward(u.work, db) /\ MayFish(db, u.area) /\ Baiting(u, db)
      /\ u.work = PreparedOf(db, u.key, u.area)
  BY <1>1, <1>2, <1>5 DEF Serves, Baiting
<1>9. Reached(u, db, 0, u.work)
  <2> DEFINE run == [i \in {0} |-> u.work]
  <2>1. Runs(run, u.work, u.key, LegsIn(u), u.began, 0) /\ run[0] = u.work
    BY DEF Runs
  <2> HIDE DEF run
  <2>2. Len(LegsIn(u)) \in Nat
    BY <1>4, <1>7
  <2> QED BY <1>8, <2>1, <2>2 DEF Reached
<1>10. /\ 0 + Len(u.legs) = Len(LegsIn(u))
       /\ \A i \in 1 .. Len(u.legs) : u.legs[i] = LegsIn(u)[0 + i]
  BY <1>4, <1>5, <1>7
<1>11. Serves(u, db)
  BY <1>5, <1>8, <1>9, <1>10 DEF Serves
<1>12. IInv'
  BY <1>2, SelectKeeps DEF t
<1> QED BY <1>2, <1>5, <1>6, <1>11, <1>12, ServeStep DEF u, t

\* One more leg is delivered, the next of the outcome.
LEMMA DeliverServes ==
    ASSUME Serving, NEW s \in Sessions, Deliver(s)
    PROVE  Serving'
<1> DEFINE u == tx'[s]
           t == tx[s]
           w == t.work
           legs == t.legs
           all == LegsIn(t)
<1>1. t.phase = "STAGING" /\ t.phase \in Owning /\ legs # <<>>
  BY DEF Deliver, Owning
<1>2. /\ IInv /\ TxOK(t, db, operation) /\ tx = [q \in Sessions |-> tx[q]]
      /\ Serves(t, db) /\ t.phase \in Holding /\ PlayerOK(w) /\ Regular(w) /\ Onward(w, db)
      /\ legs \in Seq(CastLegs)
  BY <1>1, ServesFrom DEF TxOK
<1>3. /\ UNCHANGED <<db, operation, begun>> /\ u.phase = "STAGING" /\ u.key = t.key
      /\ u.area = t.area /\ u.row = t.row /\ u.began = t.began
      /\ u.work = Delivered(w, t.key, Head(legs), t.began)
      /\ u.cast = t.cast /\ u.legs = Tail(legs) /\ MayDeliver(w, t.key, Head(legs))
  BY <1>2 DEF Deliver, TxOK
<1>4. \A q \in Sessions \ {s} : tx'[q] = tx[q]
  BY <1>2 DEF Deliver
<1>5. /\ Len(legs) \in Nat \ {0} /\ Head(legs) = legs[1] /\ Head(legs) \in CastLegs
      /\ Len(Tail(legs)) = Len(legs) - 1
      /\ \A i \in 1 .. Len(legs) - 1 : Tail(legs)[i] = legs[i + 1]
  BY <1>1, <1>2
<1>6. LegsIn(u) = all
  BY <1>3 DEF LegsIn, OutcomeIn
<1>7. PICK n \in Nat : /\ n + Len(legs) = Len(all)
                       /\ \A i \in 1 .. Len(legs) : legs[i] = all[n + i]
                       /\ Reached(t, db, n, w)
  BY <1>1, <1>2 DEF Serves
<1> HIDE DEF u, t, w, legs, all
<1>8. Head(legs) = all[n + 1] /\ Len(all) \in Nat /\ n + 1 \in 0 .. Len(all)
  BY <1>5, <1>7
<1>9. PICK run : /\ Runs(run, PreparedOf(db, t.key, t.area), t.key, all, t.began, n)
                 /\ w = run[n]
  BY <1>7 DEF Reached, all
<1>10. Reached(u, db, n + 1, u.work)
  <2> DEFINE more == [i \in 0 .. n + 1 |-> IF i = n + 1 THEN u.work ELSE run[i]]
  <2>1. /\ more[0] = run[0] /\ more[n + 1] = u.work /\ more[n] = w
        /\ \A i \in 1 .. n : more[i] = run[i] /\ more[i - 1] = run[i - 1]
    BY <1>7, <1>9
  <2>2. u.work = Delivered(w, t.key, all[n + 1], t.began)
    BY <1>3, <1>8 DEF w, legs, t
  <2> HIDE DEF more
  <2>3. ASSUME NEW i \in 1 .. n + 1
        PROVE  more[i] = Delivered(more[i - 1], t.key, all[i], t.began)
    <3>1. CASE i = n + 1
      <4>1. i - 1 = n
        BY <1>7, <3>1
      <4> QED BY <2>1, <2>2, <3>1, <4>1
    <3>2. CASE i # n + 1
      <4>1. i \in 1 .. n
        BY <1>7, <3>2
      <4> QED BY <1>9, <2>1, <4>1 DEF Runs
    <3> QED BY <3>1, <3>2
  <2>4. Runs(more, PreparedOf(db, t.key, t.area), t.key, all, t.began, n + 1)
    BY <1>9, <2>1, <2>3 DEF Runs
  <2>5. MayDeliver(db, t.key, all[n + 1])
    BY <1>2, <1>3, <1>8, MayDeliverBefore DEF t, w, legs
  <2>6. \A i \in 1 .. n + 1 : MayDeliver(db, t.key, all[i])
    <3>1. \A i \in 1 .. n + 1 : i \in 1 .. n \/ i = n + 1
      BY <1>7
    <3> QED BY <1>7, <2>5, <3>1 DEF Reached, all
  <2>7. u.key = t.key /\ u.area = t.area /\ u.began = t.began
    BY <1>3 DEF t
  <2> QED BY <1>6, <1>8, <2>1, <2>4, <2>6, <2>7 DEF Reached
<1>11. /\ n + 1 \in Nat /\ n + 1 + Len(u.legs) = Len(LegsIn(u))
       /\ \A i \in 1 .. Len(u.legs) : u.legs[i] = LegsIn(u)[n + 1 + i]
  <2>1. u.legs = Tail(legs) /\ Len(u.legs) = Len(legs) - 1
    BY <1>3, <1>5 DEF legs, t
  <2>2. ASSUME NEW i \in 1 .. Len(legs) - 1
        PROVE  Tail(legs)[i] = all[n + 1 + i]
    <3>1. i + 1 \in 1 .. Len(legs) /\ n + (i + 1) = n + 1 + i
      BY <1>5, <1>7
    <3>2. Tail(legs)[i] = legs[i + 1]
      BY <1>5, <3>1
    <3>3. legs[i + 1] = all[n + (i + 1)]
      BY <1>7, <3>1
    <3> QED BY <3>1, <3>2, <3>3
  <2> QED BY <1>5, <1>6, <1>7, <2>1, <2>2
<1>12. Onward(u.work, db)
  <2>1. Onward(Delivered(w, t.key, Head(legs), t.began), w)
    BY <1>2, <1>5, DeliveredServes DEF t, w, legs
  <2> QED BY <1>2, <1>3, <2>1, OnwardTwice DEF w, legs, t
<1>13. MayFish(db, u.area) /\ Baiting(u, db)
  BY <1>1, <1>2, <1>3 DEF Serves, Baiting, t
<1>14. Serves(u, db)
  <2>1. \E m \in Nat : /\ m + Len(u.legs) = Len(LegsIn(u))
                       /\ \A i \in 1 .. Len(u.legs) : u.legs[i] = LegsIn(u)[m + i]
                       /\ Reached(u, db, m, u.work)
    BY <1>10, <1>11
  <2> QED BY <1>3, <1>12, <1>13, <2>1 DEF Serves
<1>15. IInv'
  BY <1>2, StagesKeep
<1> QED BY <1>2, <1>3, <1>4, <1>14, <1>15, ServeStep DEF u, t

\* The legs are all delivered: what is left is progress, and wear.
LEMMA ProgressServes ==
    ASSUME Serving, NEW s \in Sessions, Progress(s)
    PROVE  Serving'
<1> DEFINE u == tx'[s]
           t == tx[s]
<1>1. t.phase = "STAGING" /\ t.phase \in Owning /\ t.legs = <<>>
  BY DEF Progress, Owning
<1>2. /\ IInv /\ TxOK(t, db, operation) /\ tx = [q \in Sessions |-> tx[q]]
      /\ Serves(t, db) /\ t.phase \in Holding /\ PlayerOK(t.work) /\ Regular(t.work)
      /\ Onward(t.work, db)
  BY <1>1, ServesFrom
<1>3. /\ UNCHANGED <<db, operation, begun>> /\ u.phase = "LANDED" /\ u.key = t.key
      /\ u.area = t.area /\ u.row = t.row /\ u.began = t.began
      /\ u.work = LandedOf(t, t.work) /\ u.cast = t.cast
  BY <1>2 DEF Progress, TxOK, LandedOf, OutcomeFor, OutcomeIn
<1>4. \A q \in Sessions \ {s} : tx'[q] = tx[q]
  BY <1>2 DEF Progress
<1> HIDE DEF u, t
<1>5. LegsIn(u) = LegsIn(t) /\ OutcomeIn(u) = OutcomeIn(t)
  BY <1>3 DEF LegsIn, OutcomeIn
<1>6. Reached(t, db, Len(LegsIn(t)), t.work)
  <2>1. PICK n \in Nat : n + Len(t.legs) = Len(LegsIn(t)) /\ Reached(t, db, n, t.work)
    BY <1>1, <1>2 DEF Serves
  <2>2. Len(t.legs) = 0
    BY <1>1
  <2> QED BY <2>1, <2>2
<1>7. Reached(u, db, Len(LegsIn(u)), t.work) /\ u.work = LandedOf(u, t.work)
  BY <1>3, <1>5, <1>6 DEF Reached, LandedOf
<1>8. Onward(u.work, db)
  <2>1. Onward(LandedOf(t, t.work), t.work)
    BY <1>2, EndServes DEF LandedOf
  <2> QED BY <1>2, <1>3, <2>1, OnwardTwice
<1>9. MayFish(db, u.area) /\ Baiting(u, db)
  BY <1>1, <1>2, <1>3 DEF Serves, Baiting
<1>10. Serves(u, db)
  BY <1>3, <1>7, <1>8, <1>9 DEF Serves
<1>11. IInv'
  BY <1>2, StagesKeep
<1> QED BY <1>2, <1>3, <1>4, <1>10, <1>11, ServeStep DEF u, t

\* The rod is worn as a cast on the rows would wear it.
LEMMA WearServes ==
    ASSUME Serving, NEW s \in Sessions, Wear(s)
    PROVE  Serving'
<1> DEFINE u == tx'[s]
           t == tx[s]
<1>1. t.phase = "LANDED" /\ t.phase \in Owning
  BY DEF Wear, Owning
<1>2. /\ IInv /\ TxOK(t, db, operation) /\ tx = [q \in Sessions |-> tx[q]]
      /\ Serves(t, db) /\ t.phase \in Holding /\ PlayerOK(t.work) /\ Regular(t.work)
      /\ Onward(t.work, db)
  BY <1>1, ServesFrom
<1>3. /\ UNCHANGED <<db, operation, begun>> /\ u.phase = "WORN" /\ u.key = t.key
      /\ u.area = t.area /\ u.row = t.row /\ u.began = t.began /\ u.cast = t.cast
      /\ u.work = IF Wears(t.cast) THEN Worn(t.work, t.key, t.cast, OutcomeIn(t).wear)
                  ELSE t.work
  BY <1>2 DEF Wear, TxOK, OutcomeFor, OutcomeIn
<1>4. \A q \in Sessions \ {s} : tx'[q] = tx[q]
  BY <1>2 DEF Wear
<1> HIDE DEF u, t
<1>5. LegsIn(u) = LegsIn(t) /\ OutcomeIn(u) = OutcomeIn(t)
  BY <1>3 DEF LegsIn, OutcomeIn
<1>6. PICK rows : Reached(t, db, Len(LegsIn(t)), rows) /\ t.work = LandedOf(t, rows)
  BY <1>1, <1>2 DEF Serves
<1>7. Reached(u, db, Len(LegsIn(u)), rows) /\ u.work = WornOf(u, rows)
  BY <1>3, <1>5, <1>6 DEF Reached, LandedOf, WornOf
<1>8. Onward(u.work, db)
  <2>1. CASE Wears(t.cast)
    <3>1. Onward(u.work, t.work)
      BY <1>2, <1>3, <2>1, EndServes
    <3> QED BY <1>2, <3>1, OnwardTwice
  <2>2. CASE ~ Wears(t.cast)
    BY <1>2, <1>3, <2>2
  <2> QED BY <2>1, <2>2
<1>9. MayFish(db, u.area) /\ Baiting(u, db)
  BY <1>1, <1>2, <1>3 DEF Serves, Baiting
<1>10. Serves(u, db)
  BY <1>3, <1>7, <1>8, <1>9 DEF Serves
<1>11. IInv'
  BY <1>2, StagesKeep
<1> QED BY <1>2, <1>3, <1>4, <1>10, <1>11, ServeStep DEF u, t

---------------------------------------------------------------------------
(* What the other steps leave to a cast that is being served.              *)

\* A session that is idle or waits has nothing to serve.
LEMMA ServeLeave ==
    ASSUME Serving, IInv', NEW s \in Sessions, UNCHANGED <<db, operation>>, Leave(s)
    PROVE  Serving'
<1>1. tx' = [tx EXCEPT ![s] = Idle] /\ begun' = begun /\ tx = [t \in Sessions |-> tx[t]]
  BY DEF Leave, Serving, IInv
<1>2. TxServes(Idle, db, begun)
  BY DEF TxServes, Idle, Holding, Owning
<1>3. tx'[s] = Idle /\ \A t \in Sessions \ {s} : tx'[t] = tx[t]
  BY <1>1
<1> QED BY <1>1, <1>2, <1>3, ServeMove

\* A session begins, with a time of its own.
LEMMA BeginServes ==
    ASSUME Serving, NEW s \in Sessions, Begin(s)
    PROVE  Serving'
<1>1. PICK k \in Keys : \E area \in Places :
          tx' = [tx EXCEPT ![s] = [Idle EXCEPT !.phase = "WAITING", !.key = k, !.area = area,
                                               !.began = begun + 1]]
  BY DEF Begin
<1>2. PICK area \in Places :
          tx' = [tx EXCEPT ![s] = [Idle EXCEPT !.phase = "WAITING", !.key = k, !.area = area,
                                               !.began = begun + 1]]
  BY <1>1
<1> DEFINE count == begun + 1
           new == [Idle EXCEPT !.phase = "WAITING", !.key = k, !.area = area, !.began = count]
<1>3. /\ IInv /\ tx = [t \in Sessions |-> tx[t]] /\ begun \in Nat /\ begun' = count
      /\ UNCHANGED <<db, operation>> /\ begun < MaxBegun
  BY BoundAssumption DEF Serving, IInv, Begin
<1>4. count \in 1 .. count /\ count \in 0 .. MaxBegun /\ \A n \in 1 .. begun : n \in 1 .. count
  BY <1>3, BoundAssumption
<1>5. tx' = [tx EXCEPT ![s] = new]
  BY <1>2
<1> HIDE DEF count
<1>6. new.phase = "WAITING" /\ new.began = count
  BY DEF Idle
<1> HIDE DEF new
<1>7. TxServes(new, db, count)
  BY <1>4, <1>6 DEF TxServes, Holding, Owning
<1>8. \A t \in Sessions : TxServes(tx[t], db, count)
  BY <1>4 DEF Serving, TxServes
<1>9. \A t \in Sessions : TxServes(tx'[t], db', begun')
  BY <1>3, <1>5, <1>7, <1>8
<1>10. /\ Regular(db') /\ begun' \in 0 .. MaxBegun
       /\ \A q \in Keys : Unanswered(operation'[q])
  BY <1>3, <1>4 DEF Serving
<1>11. IInv'
  BY <1>3, BeginKeeps
<1> QED BY <1>9, <1>10, <1>11 DEF Serving

\* The row it finds, or inserts, has no receipt while it is pending.
LEMMA ResolveServes ==
    ASSUME Serving, NEW s \in Sessions, Resolve(s)
    PROVE  Serving'
<1>1. /\ IInv /\ TxOK(tx[s], db, operation) /\ tx = [t \in Sessions |-> tx[t]]
      /\ tx[s].phase = "WAITING" /\ tx[s].key \in Keys /\ UNCHANGED <<db, operation, begun>>
  BY DEF Serving, IInv, Resolve, TxOK
<1> DEFINE entry == operation[tx[s].key]
<1>2. PICK row : /\ tx' = [tx EXCEPT ![s].phase = "OPEN", ![s].row = row]
                 /\ row = entry \/ \E root \in Roots : row = Inserted(tx[s].area, root)
  BY DEF Resolve
<1>3. Unanswered(row)
  BY <1>1, <1>2 DEF Serving, Unanswered, Inserted
<1>4. /\ tx'[s].phase = "OPEN" /\ tx'[s].row = row /\ tx'[s].began = tx[s].began
      /\ \A t \in Sessions \ {s} : tx'[t] = tx[t]
  BY <1>1, <1>2 DEF TxOK
<1>5. TxServes(tx'[s], db, begun)
  BY <1>1, <1>3, <1>4 DEF TxServes, Serving, Owning
<1>6. IInv'
  BY <1>1, ResolveKeeps
<1> QED BY <1>1, <1>4, <1>5, <1>6, ServeMove

\* A row of the key is written, alone or with the copy of its session.
LEMMA ServeWrite ==
    ASSUME Serving, IInv', NEW s \in Sessions, NEW row, tx[s].key \in Keys,
           tx' = [tx EXCEPT ![s] = Idle], UNCHANGED begun,
           operation' = [operation EXCEPT ![tx[s].key] = row], Unanswered(row),
           db' = db \/ (tx[s].phase \in Owning /\ db' = tx[s].work)
    PROVE  Serving'
<1>1. IInv /\ tx = [t \in Sessions |-> tx[t]] /\ operation = [k \in Keys |-> operation[k]]
  BY DEF Serving, IInv
<1>2. Regular(db')
  <2>1. CASE tx[s].phase \in Owning /\ db' = tx[s].work
    BY <2>1, ServesFrom
  <2> QED BY <2>1 DEF Serving
<1>3. \A k \in Keys : Unanswered(operation'[k])
  BY <1>1 DEF Serving
<1>4. TxServes(Idle, db', begun')
  BY DEF TxServes, Idle, Holding, Owning
<1>5. ASSUME NEW t \in Sessions, t # s PROVE TxServes(tx[t], db', begun')
  <2>1. TxServes(tx[t], db, begun)
    BY DEF Serving
  <2>2. db' = db \/ tx[t].phase \notin Owning
    BY <1>1, <1>5 DEF IInv, Exclusive
  <2> QED BY <2>1, <2>2 DEF TxServes
<1>6. \A t \in Sessions : TxServes(tx'[t], db', begun')
  BY <1>1, <1>4, <1>5
<1>7. begun' \in 0 .. MaxBegun
  BY DEF Serving
<1> QED BY <1>2, <1>3, <1>6, <1>7 DEF Serving

\* Who has the player row writes its copy; nobody else works on the rows.
LEMMA WritesServe ==
    ASSUME Serving, NEW s \in Sessions, Commit(s) \/ SaveRow(s) \/ SaveBaits(s)
    PROVE  Serving'
<1>1. IInv /\ TxOK(tx[s], db, operation) /\ tx[s].phase \in Holding /\ tx[s].key \in Keys
  BY DEF Serving, IInv, TxOK, Commit, TerminalReached, SaveRow, Castable, SaveBaits, Holding,
         Owning
<1>2. RowOK(tx[s].row) /\ Unanswered(tx[s].row)
  BY <1>1 DEF TxOK, Serving, TxServes
<1>3. CASE Commit(s)
  <2> DEFINE receipt == ReceiptFor(s)
             old == tx[s].row
             row == Committed(old, receipt)
  <2>1. /\ tx[s].phase \in Owning /\ db' = tx[s].work /\ tx' = [tx EXCEPT ![s] = Idle]
        /\ operation' = [operation EXCEPT ![tx[s].key] = row] /\ UNCHANGED begun
    BY <1>3 DEF Commit, TerminalReached, Leave, Owning
  <2> HIDE DEF receipt, old
  <2>2. row.state = "COMMITTED"
    BY <1>2 DEF Committed, RowOK, old
  <2> HIDE DEF row
  <2>3. Unanswered(row)
    BY <2>2 DEF Unanswered
  <2>4. IInv'
    BY <1>1, <1>3, CommitKeeps
  <2> QED BY <1>1, <2>1, <2>3, <2>4, ServeWrite
<1>4. CASE SaveRow(s) \/ SaveBaits(s)
  <2>1. /\ tx' = [tx EXCEPT ![s] = Idle] /\ UNCHANGED begun
        /\ operation' = [operation EXCEPT ![tx[s].key] = tx[s].row]
        /\ db' = db \/ (tx[s].phase \in Owning /\ db' = tx[s].work)
    BY <1>4 DEF SaveRow, SaveBaits, Leave, Owning
  <2>2. IInv'
    BY <1>1, <1>4, SavesKeep
  <2> QED BY <1>1, <1>2, <2>1, <2>2, ServeWrite
<1> QED BY <1>3, <1>4

\* Nobody casts while something else happens to the rows.
LEMMA ElseServes ==
    ASSUME Serving, Else
    PROVE  Serving'
<1>1. IInv /\ PlayerOK(db) /\ Regular(db)
  BY DEF Serving, IInv
<1>2. UNCHANGED <<operation, tx, begun>> /\ PlayerFree
  BY DEF Else, Equip, ReplaceBaits, ClaimCatches, TakeOut, SetStatus, Level, Rebirth, Elsewhere
<1>3. \A t \in Sessions : TxServes(tx'[t], db', begun')
  <2>1. \A t \in Sessions : tx[t].phase \notin Owning
    BY <1>1, <1>2, Names DEF PlayerFree, IInv
  <2> QED BY <1>2, <2>1 DEF TxServes, Serving
<1>4. Regular(db')
  <2>1. ASSUME NEW status, NEW items, NEW equipped, NEW selection, NEW level, NEW rebirths,
               db' = [db EXCEPT !.status = status, !.items = items, !.equipped = equipped,
                                !.selection = selection, !.level = level,
                                !.rebirths = rebirths]
        PROVE  Regular(db')
    <3>1. db'.log = db.log /\ db'.pending = db.pending
      BY <1>1, <2>1 DEF PlayerOK
    <3> QED BY <1>1, <3>1 DEF Regular
  <2>2. ASSUME NEW r, Equip(r) PROVE Regular(db')
    <3>1. db' = [db EXCEPT !.equipped = r]
      BY <2>2 DEF Equip, Elsewhere
    <3>2. db'.log = db.log /\ db'.pending = db.pending
      BY <1>1, <3>1 DEF PlayerOK
    <3> QED BY <1>1, <3>2 DEF Regular
  <2>3. ASSUME NEW S, ReplaceBaits(S) PROVE Regular(db')
    <3>1. db' = [db EXCEPT !.selection = S]
      BY <2>3 DEF ReplaceBaits, Elsewhere
    <3>2. db'.log = db.log /\ db'.pending = db.pending
      BY <1>1, <3>1 DEF PlayerOK
    <3> QED BY <1>1, <3>2 DEF Regular
  <2>4. ASSUME NEW i, TakeOut(i) PROVE Regular(db')
    <3> DEFINE items == [db.items EXCEPT ![i].at = "ELSEWHERE"]
    <3>1. db' = [db EXCEPT !.items = items]
      BY <2>4, Zenon DEF TakeOut, Elsewhere
    <3> HIDE DEF items
    <3>2. db'.log = db.log /\ db'.pending = db.pending
      BY <1>1, <3>1 DEF PlayerOK
    <3> QED BY <1>1, <3>2 DEF Regular
  <2>5. ASSUME NEW status, SetStatus(status) PROVE Regular(db')
    <3>1. db' = [db EXCEPT !.status = status]
      BY <2>5 DEF SetStatus, Elsewhere
    <3>2. db'.log = db.log /\ db'.pending = db.pending
      BY <1>1, <3>1 DEF PlayerOK
    <3> QED BY <1>1, <3>2 DEF Regular
  <2>6. ASSUME NEW n, Level(n) PROVE Regular(db')
    <3>1. db' = [db EXCEPT !.level = n]
      BY <2>6 DEF Level, Elsewhere
    <3>2. db'.log = db.log /\ db'.pending = db.pending
      BY <1>1, <3>1 DEF PlayerOK
    <3> QED BY <1>1, <3>2 DEF Regular
  <2>7. ASSUME Rebirth PROVE Regular(db')
    <3> DEFINE count == db.rebirths + 1
    <3>1. db' = [db EXCEPT !.level = 1, !.rebirths = count]
      BY <2>7 DEF Rebirth, Elsewhere
    <3> HIDE DEF count
    <3>2. db'.log = db.log /\ db'.pending = db.pending
      BY <1>1, <3>1 DEF PlayerOK
    <3> QED BY <1>1, <3>2 DEF Regular
  <2>8. ASSUME ClaimCatches PROVE Regular(db')
    <3> DEFINE made == Claimed(db, None, [bag |-> "CATCH_BAG"])
    <3>1. db' = [made EXCEPT !.log = db.log]
      BY <2>8 DEF ClaimCatches, Elsewhere
    <3> DEFINE rows == Claimable(db, "CATCH_BAG")
               pending == [i \in DOMAIN db.pending |->
                              IF i \in rows THEN [db.pending[i] EXCEPT !.state = "CLAIMED"]
                              ELSE db.pending[i]]
    <3>2. [bag |-> "CATCH_BAG"].bag = "CATCH_BAG"
      OBVIOUS
    <3>3. \E items, log : made = [db EXCEPT !.items = items, !.pending = pending, !.log = log]
      BY <3>2, Zenon DEF Claimed
    <3> HIDE DEF made, rows
    <3>4. PICK items, log : made = [db EXCEPT !.items = items, !.pending = pending, !.log = log]
      BY <3>3
    <3>5. PICK n \in Nat : db.pending = [i \in 1 .. n |-> db.pending[i]]
      BY <1>1 DEF Regular
    <3>6. pending = [i \in 1 .. n |-> pending[i]]
      BY <3>5
    <3> HIDE DEF pending
    <3>7. db'.log = db.log /\ db'.pending = pending
      BY <1>1, <3>1, <3>4 DEF PlayerOK
    <3> QED BY <1>1, <3>6, <3>7 DEF Regular
  <2> QED BY <2>2, <2>3, <2>4, <2>5, <2>6, <2>7, <2>8 DEF Else
<1>5. /\ IInv' /\ begun' \in 0 .. MaxBegun
      /\ \A k \in Keys : Unanswered(operation'[k])
  BY <1>1, <1>2, ElsesKeep DEF Serving
<1> QED BY <1>3, <1>4, <1>5 DEF Serving

\* At the start nobody casts.
LEMMA InitServes == Init => Serving
<1> SUFFICES ASSUME Init PROVE Serving
  OBVIOUS
<1>1. PICK r \in RodNames : db = Rows(r)
  BY DEF Init
<1>2. Regular(db)
  <2>1. db.log = {} /\ db.pending = <<>>
    BY <1>1 DEF Rows
  <2>2. db.pending = [i \in 1 .. 0 |-> db.pending[i]]
    BY <2>1
  <2>3. 0 \in Nat /\ \A e, f \in db.log : e = f
    BY <2>1
  <2> QED BY <2>2, <2>3 DEF Regular
<1>3. \A s \in Sessions : TxServes(tx[s], db, begun)
  BY DEF Init, TxServes, Idle, Holding, Owning
<1>4. begun \in 0 .. MaxBegun /\ \A k \in Keys : Unanswered(operation[k])
  BY BoundAssumption DEF Init, NoRow, Unanswered
<1> QED BY <1>2, <1>3, <1>4, InitHolds DEF Serving

\* Every step keeps what is being served.
LEMMA NextServes == Serving /\ [Next]_vars => Serving'
<1> SUFFICES ASSUME Serving, [Next]_vars PROVE Serving'
  OBVIOUS
<1>0. IInv /\ IInv'
  BY NextKeeps DEF Serving
<1>1. CASE UNCHANGED vars
  BY <1>0, <1>1 DEF vars, Serving
<1>2. ASSUME NEW s \in Sessions, Answer(s) \/ Refuse(s) \/ RollBack(s) PROVE Serving'
  <2>1. UNCHANGED <<db, operation>> /\ Leave(s)
    BY <1>2 DEF Answer, Refuse, RollBack
  <2> QED BY <1>0, <2>1, ServeLeave
<1>3. ASSUME NEW s \in Sessions, Begin(s) \/ Step(s) \/ SaveRow(s) \/ SaveBaits(s) \/ RollBack(s)
      PROVE  Serving'
  BY <1>2, <1>3, BeginServes, ResolveServes, PreflightServes, SettleBaitsServes, SelectServes,
     DeliverServes, ProgressServes, WearServes, WritesServe DEF Step
<1> QED BY <1>1, <1>3, ElseServes DEF Next

\* What a session works on is at every moment what its own steps make of the
\* committed rows.
LEMMA ServingHolds == Spec => []Serving
  BY InitServes, NextServes, PTL DEF Spec

---------------------------------------------------------------------------
(* The rules of the serial specification are the rules: an instance has    *)
(* operators of its own, and those of Serial are those of FishingRules.    *)

\* The preflight, and the baits.
LEMMA SameRows ==
    /\ Serial!NoRow = NoRow
    /\ \A w, area : Serial!MayFish(w, area) = MayFish(w, area)
    /\ \A w, k, area : Serial!Entered(w, k, area) = Entered(w, k, area)
    /\ \A w : Serial!BaitPlan(w) = BaitPlan(w) /\ Serial!Rod(w) = Rod(w)
    /\ \A w, k : Serial!Baited(w, k) = Baited(w, k)
BY Zenon DEF
       NoRow, Open, Opens, MayFish, Entered, Rod, Ordinary, Broken, MinimumLevel,
       MinimumRebirth, OpenedBy, Areas, Rack, BaitPlan, Baited, BaitLeg, PlanLeg, Entry,
       Serial!NoRow, Serial!Open, Serial!Opens, Serial!MayFish, Serial!Entered, Serial!Rod,
       Serial!Ordinary, Serial!Broken, Serial!MinimumLevel, Serial!MinimumRebirth,
       Serial!OpenedBy, Serial!Areas, Serial!Rack, Serial!BaitPlan, Serial!Baited,
       Serial!BaitLeg, Serial!PlanLeg, Serial!Entry

\* The routes and the loadouts they serve.
LEMMA SameRoutes ==
    \A c : Serial!Supported(c) = Supported(c) /\ Serial!RouteOf(c) = RouteOf(c)
BY Zenon DEF
       Supported, RouteOf, RoutesOf, Plain, NoBait, OnlyWith, OnlyOn, Ordinary, MaxLevel,
       StarterOnly, UnmodifiedOnly, UnbreakingXOnly, StrengthenOnly, SharpHookOnly,
       TreasureXOnly, BaitRackOnly, MulticatchOnly, MultiTreasureOnly, SturdyOnly,
       SchoolOnly, Serial!Supported, Serial!RouteOf, Serial!RoutesOf, Serial!Plain,
       Serial!NoBait, Serial!OnlyWith, Serial!OnlyOn, Serial!Ordinary, Serial!MaxLevel,
       Serial!StarterOnly, Serial!UnmodifiedOnly, Serial!UnbreakingXOnly,
       Serial!StrengthenOnly, Serial!SharpHookOnly, Serial!TreasureXOnly,
       Serial!BaitRackOnly, Serial!MulticatchOnly, Serial!MultiTreasureOnly,
       Serial!SturdyOnly, Serial!SchoolOnly

\* What each route decides.
LEMMA SameOutcomes ==
    \A r, c, root : Serial!OutcomeOf(r, c, root) = OutcomeOf(r, c, root)
<1>12. \A c, root : Serial!UnmodifiedDraws(c, root) = UnmodifiedDraws(c, root)
  BY Zenon DEF UnmodifiedDraws, Line, Serial!UnmodifiedDraws, Serial!Line
<1>13. \A d : Serial!SelectedOf(d) = SelectedOf(d)
  BY Zenon DEF
         SelectedOf, Fished, NonFish, Outcome, Serial!SelectedOf, Serial!Fished,
         Serial!NonFish, Serial!Outcome
<1>14. \A d : Serial!Selected(d) = Selected(d)
  BY Zenon DEF
         Selected, Fished, NonFish, Outcome, Serial!Selected, Serial!Fished,
         Serial!NonFish, Serial!Outcome
<1>1. \A c, root : Serial!StarterOutcome(c, root) = StarterOutcome(c, root)
  <2>1. \A c, root : Serial!StarterDraws(c, root) = StarterDraws(c, root)
    BY <1>12, Zenon DEF StarterDraws, Serial!StarterDraws
  <2> QED BY <2>1, <1>14, Zenon DEF StarterOutcome, Serial!StarterOutcome
<1>2. \A c, root : Serial!UnmodifiedOutcome(c, root) = UnmodifiedOutcome(c, root)
  BY <1>12, <1>14, Zenon DEF UnmodifiedOutcome, Serial!UnmodifiedOutcome
<1>3. \A c, root : Serial!UnbreakingXOutcome(c, root) = UnbreakingXOutcome(c, root)
  <2>1. \A c, root : Serial!UnbreakingXDraws(c, root) = UnbreakingXDraws(c, root)
    BY <1>12, Zenon DEF UnbreakingXDraws, Serial!UnbreakingXDraws
  <2> QED BY <2>1, <1>14, Zenon DEF UnbreakingXOutcome, Serial!UnbreakingXOutcome
<1>4. \A c, root : Serial!StrengthenOutcome(c, root) = StrengthenOutcome(c, root)
  <2>1. \A c, root : Serial!StrengthenDraws(c, root) = StrengthenDraws(c, root)
    BY <1>12, Zenon DEF StrengthenDraws, Serial!StrengthenDraws, Line, Serial!Line
  <2> QED BY <2>1, <1>14, Zenon DEF StrengthenOutcome, Serial!StrengthenOutcome
<1>5. \A c, root : Serial!SharpHookOutcome(c, root) = SharpHookOutcome(c, root)
  <2>1. \A c, root : Serial!SharpHookDraws(c, root) = SharpHookDraws(c, root)
    BY <1>12, Zenon DEF SharpHookDraws, Serial!SharpHookDraws
  <2> QED BY <2>1, <1>14, Zenon DEF SharpHookOutcome, Serial!SharpHookOutcome
<1>6. \A c, root : Serial!TreasureXOutcome(c, root) = TreasureXOutcome(c, root)
  <2>1. \A c, root : Serial!TreasureXDraws(c, root) = TreasureXDraws(c, root)
    BY <1>12, Zenon DEF TreasureXDraws, Serial!TreasureXDraws
  <2> QED BY <2>1, <1>14, Zenon DEF TreasureXOutcome, Serial!TreasureXOutcome
<1>7. \A c, root : Serial!BaitRackOutcome(c, root) = BaitRackOutcome(c, root)
  <2>1. \A c, root : Serial!BaitRackDraws(c, root) = BaitRackDraws(c, root)
    BY <1>12, Zenon DEF BaitRackDraws, Serial!BaitRackDraws
  <2> QED BY <2>1, <1>14, Zenon DEF BaitRackOutcome, Serial!BaitRackOutcome
<1>8. \A c, root : Serial!MulticatchOutcome(c, root) = MulticatchOutcome(c, root)
  <2>1. \A c, root : Serial!MulticatchDraws(c, root) = MulticatchDraws(c, root)
    BY <1>12, Zenon DEF MulticatchDraws, Serial!MulticatchDraws, Loaded, Line, Serial!Loaded,
           Serial!Line
  <2> QED BY <2>1, <1>13, Zenon DEF MulticatchOutcome, Serial!MulticatchOutcome
<1>9. \A c, root : Serial!MultiTreasureOutcome(c, root) = MultiTreasureOutcome(c, root)
  <2>1. \A c, root : Serial!MultiTreasureDraws(c, root) = MultiTreasureDraws(c, root)
    BY <1>12, Zenon DEF MultiTreasureDraws, Serial!MultiTreasureDraws
  <2> QED BY <2>1, <1>14, Zenon DEF MultiTreasureOutcome, Serial!MultiTreasureOutcome
<1>10. \A c, root : Serial!SturdyOutcome(c, root) = SturdyOutcome(c, root)
  <2>1. \A c, root : Serial!SturdyDraws(c, root) = SturdyDraws(c, root)
    BY <1>12, Zenon DEF SturdyDraws, Serial!SturdyDraws, Line, Serial!Line
  <2> QED BY <2>1, <1>14, Zenon DEF SturdyOutcome, Serial!SturdyOutcome
<1>11. \A c, root : Serial!SchoolOutcome(c, root) = SchoolOutcome(c, root)
  <2>1. \A c, root : Serial!SchoolDraws(c, root) = SchoolDraws(c, root)
    BY <1>12, Zenon DEF SchoolDraws, Serial!SchoolDraws, Loaded, Line, Serial!Loaded,
           Serial!Line
  <2> QED BY <2>1, <1>13, Zenon DEF SchoolOutcome, Serial!SchoolOutcome
<1> QED
  BY <1>1, <1>2, <1>3, <1>4, <1>5, <1>6, <1>7, <1>8, <1>9, <1>10, <1>11, ZenonT(40)
     DEF OutcomeOf, Serial!OutcomeOf

\* What each route hands to its terminal.
LEMMA SameReceipts ==
    \A r, c, outcome : Serial!ReceiptOf(r, c, outcome) = ReceiptOf(r, c, outcome)
<1>1. \A c, o : Serial!StarterReceipt(c, o) = StarterReceipt(c, o)
  BY Zenon DEF
         StarterReceipt, Receipt, LeveledReceipt, BaitedReceipt, Serial!StarterReceipt,
         Serial!Receipt, Serial!LeveledReceipt, Serial!BaitedReceipt
<1>2. \A c, o : Serial!UnmodifiedReceipt(c, o) = UnmodifiedReceipt(c, o)
  BY Zenon DEF
         UnmodifiedReceipt, Receipt, LeveledReceipt, BaitedReceipt,
         Serial!UnmodifiedReceipt, Serial!Receipt, Serial!LeveledReceipt,
         Serial!BaitedReceipt
<1>3. \A c, o : Serial!UnbreakingXReceipt(c, o) = UnbreakingXReceipt(c, o)
  BY Zenon DEF
         UnbreakingXReceipt, Receipt, LeveledReceipt, BaitedReceipt,
         Serial!UnbreakingXReceipt, Serial!Receipt, Serial!LeveledReceipt,
         Serial!BaitedReceipt
<1>4. \A c, o : Serial!StrengthenReceipt(c, o) = StrengthenReceipt(c, o)
  BY Zenon DEF
         StrengthenReceipt, Receipt, LeveledReceipt, BaitedReceipt,
         Serial!StrengthenReceipt, Serial!Receipt, Serial!LeveledReceipt,
         Serial!BaitedReceipt
<1>5. \A c, o : Serial!SharpHookReceipt(c, o) = SharpHookReceipt(c, o)
  BY Zenon DEF
         SharpHookReceipt, Receipt, LeveledReceipt, BaitedReceipt, Serial!SharpHookReceipt,
         Serial!Receipt, Serial!LeveledReceipt, Serial!BaitedReceipt
<1>6. \A c, o : Serial!TreasureXReceipt(c, o) = TreasureXReceipt(c, o)
  BY Zenon DEF
         TreasureXReceipt, Receipt, LeveledReceipt, BaitedReceipt, Serial!TreasureXReceipt,
         Serial!Receipt, Serial!LeveledReceipt, Serial!BaitedReceipt
<1>7. \A c, o : Serial!BaitRackReceipt(c, o) = BaitRackReceipt(c, o)
  BY Zenon DEF
         BaitRackReceipt, Receipt, LeveledReceipt, BaitedReceipt, Serial!BaitRackReceipt,
         Serial!Receipt, Serial!LeveledReceipt, Serial!BaitedReceipt
<1>8. \A c, o : Serial!MulticatchReceipt(c, o) = MulticatchReceipt(c, o)
  BY Zenon DEF
         MulticatchReceipt, Receipt, LeveledReceipt, BaitedReceipt,
         Serial!MulticatchReceipt, Serial!Receipt, Serial!LeveledReceipt,
         Serial!BaitedReceipt
<1>9. \A c, o : Serial!MultiTreasureReceipt(c, o) = MultiTreasureReceipt(c, o)
  BY Zenon DEF
         MultiTreasureReceipt, Receipt, LeveledReceipt, BaitedReceipt,
         Serial!MultiTreasureReceipt, Serial!Receipt, Serial!LeveledReceipt,
         Serial!BaitedReceipt
<1>10. \A c, o : Serial!SturdyReceipt(c, o) = SturdyReceipt(c, o)
  BY Zenon DEF
         SturdyReceipt, Receipt, LeveledReceipt, BaitedReceipt, Serial!SturdyReceipt,
         Serial!Receipt, Serial!LeveledReceipt, Serial!BaitedReceipt
<1>11. \A c, o : Serial!SchoolReceipt(c, o) = SchoolReceipt(c, o)
  BY Zenon DEF
         SchoolReceipt, Receipt, LeveledReceipt, BaitedReceipt, Serial!SchoolReceipt,
         Serial!Receipt, Serial!LeveledReceipt, Serial!BaitedReceipt
<1> QED
  BY <1>1, <1>2, <1>3, <1>4, <1>5, <1>6, <1>7, <1>8, <1>9, <1>10, <1>11, ZenonT(40)
     DEF ReceiptOf, Serial!ReceiptOf

\* The legs of an outcome.
LEMMA SameLegs ==
    \A outcome, root : Serial!LegsOf(outcome, root) = LegsOf(outcome, root)
BY Zenon DEF
       LegsOf, FishLeg, BookLeg, GoodsLeg, JunkLeg, Serial!LegsOf, Serial!FishLeg,
       Serial!BookLeg, Serial!GoodsLeg, Serial!JunkLeg

\* Progress, wear, and where a leg may be delivered.
LEMMA SameEnds ==
    /\ \A w, k, outcome : Serial!Progressed(w, k, outcome) = Progressed(w, k, outcome)
    /\ \A w, k, c, wear : Serial!Worn(w, k, c, wear) = Worn(w, k, c, wear)
    /\ \A w, k, leg : Serial!MayDeliver(w, k, leg) = MayDeliver(w, k, leg)
    /\ \A rod : Serial!Ordinary(rod) = Ordinary(rod)
BY Zenon DEF
       Progressed, Worn, MayDeliver, MayMint, Waiting, InstanceKinds, Ordinary, Landed,
       Left, ProgressLeg, WearLeg, Entry, Serial!Progressed, Serial!Worn, Serial!MayDeliver,
       Serial!MayMint, Serial!Waiting, Serial!InstanceKinds, Serial!Ordinary, Serial!Landed,
       Serial!Left, Serial!ProgressLeg, Serial!WearLeg, Serial!Entry

\* What a terminal makes sure of.
LEMMA SameChecks ==
    \A receipt : Serial!Checks(receipt) = Checks(receipt)
BY Zenon DEF
       Checks, BooksPass, WearPasses, OneOfEach, LevelPasses, CountPasses, ManyPass,
       BaitPasses, MaxLevel, StarterChecks, UnmodifiedChecks, UnbreakingXChecks,
       StrengthenChecks, SharpHookChecks, TreasureXChecks, BaitRackChecks, MulticatchChecks,
       MultiTreasureChecks, SturdyChecks, SchoolChecks, Serial!Checks, Serial!BooksPass,
       Serial!WearPasses, Serial!OneOfEach, Serial!LevelPasses, Serial!CountPasses,
       Serial!ManyPass, Serial!BaitPasses, Serial!MaxLevel, Serial!StarterChecks,
       Serial!UnmodifiedChecks, Serial!UnbreakingXChecks, Serial!StrengthenChecks,
       Serial!SharpHookChecks, Serial!TreasureXChecks, Serial!BaitRackChecks,
       Serial!MulticatchChecks, Serial!MultiTreasureChecks, Serial!SturdyChecks,
       Serial!SchoolChecks

\* The sums that a bag's use is counted with.
LEMMA SameSums ==
    /\ \A f : Serial!SumFunction(f) = SumFunction(f)
    /\ \A S : Serial!Cardinality(S) = Cardinality(S)
BY Zenon DEF SumFunction, SumFunctionOnSet, FoldFunctionOnSet, MapThenFoldSet, Cardinality,
   Serial!SumFunction, Serial!SumFunctionOnSet, Serial!FoldFunctionOnSet,
   Serial!MapThenFoldSet, Serial!Cardinality

\* The selections a rod has room for.
LEMMA SameMayBait == \A w : Serial!MayBait(w) = MayBait(w)
BY SameSums, Zenon
   DEF MayBait, Broken, Ordinary, Rod, BaitRoom, Rack, Serial!MayBait, Serial!Broken,
       Serial!Ordinary, Serial!Rod, Serial!BaitRoom, Serial!Rack

\* What is in a bag, and what fits into it.
LEMMA SameUsed ==
    /\ \A w, bag : Serial!Used(w, bag) = Used(w, bag)
    /\ \A w, S : Serial!SizeOf(w, S) = SizeOf(w, S)
    /\ \A w, d, quantity : Serial!StackFits(w, d, quantity) = StackFits(w, d, quantity)
    /\ \A bag : Serial!Capacity(bag) = Capacity(bag)
<1>1. \A quantity, limit : Serial!SlotsFor(quantity, limit) = SlotsFor(quantity, limit)
  BY Zenon DEF SlotsFor, Serial!SlotsFor
<1>2. \A stack : [d \in Defs |-> Serial!SlotsFor(stack[d], StackLimit[d])]
                     = [d \in Defs |-> SlotsFor(stack[d], StackLimit[d])]
  BY <1>1, Zenon
<1>3. \A stack : Serial!StackSlots(stack) = StackSlots(stack)
  BY <1>2, SameSums, Zenon DEF StackSlots, Serial!StackSlots
<1>4. \A w, S : Serial!SizeOf(w, S) = SizeOf(w, S)
  BY SameSums, Zenon DEF SizeOf, Serial!SizeOf
<1>5. \A w, bag : Serial!In(w, bag) = In(w, bag)
  BY Zenon DEF In, Serial!In
<1>6. \A w, bag : Serial!Used(w, bag) = Used(w, bag)
  BY <1>3, <1>4, <1>5, Zenon DEF Used, Serial!Used
<1>7. \A w, d, quantity : Serial!StackFits(w, d, quantity) = StackFits(w, d, quantity)
  BY <1>1, <1>6, Zenon DEF StackFits, Serial!StackFits
<1>8. \A bag : Serial!Capacity(bag) = Capacity(bag)
  BY Zenon DEF Capacity, Serial!Capacity
<1> QED BY <1>4, <1>6, <1>7, <1>8

\* What a leg does to the rows.
LEMMA SameDelivered ==
    \A w, o, leg, began : Serial!Delivered(w, o, leg, began) = Delivered(w, o, leg, began)
<1>1. \A o, leg, overflow : Serial!Entry(o, leg, overflow) = Entry(o, leg, overflow)
  BY Zenon DEF Entry, Serial!Entry
<1>2. \A w, o, leg : Serial!StackDelivered(w, o, leg) = StackDelivered(w, o, leg)
  BY <1>1, SameUsed, ZenonT(40) DEF StackDelivered, Serial!StackDelivered
<1>3. \A w, o, leg, began : Serial!Minted(w, o, leg, began) = Minted(w, o, leg, began)
  <2> SUFFICES ASSUME NEW w, NEW o, NEW leg, NEW began
               PROVE  Serial!Minted(w, o, leg, began) = Minted(w, o, leg, began)
    OBVIOUS
  <2>1. Serial!Used(w, leg.bag) = Used(w, leg.bag) /\ Serial!Capacity(leg.bag) = Capacity(leg.bag)
    BY SameUsed
  <2> DEFINE made(used, room, entry) ==
                 LET fits == used + leg.size <= room
                     item == [op |-> o, key |-> leg.key, size |-> leg.size,
                              at |-> IF fits THEN leg.bag ELSE "TEMP_OVERFLOW"]
                     row == [op |-> o, key |-> leg.key, item |-> Len(w.items) + 1,
                             bag |-> leg.bag, state |-> "PENDING", created |-> began]
                 IN  [w EXCEPT !.items = Append(@, item),
                               !.pending = IF fits THEN @ ELSE Append(@, row),
                               !.log = @ \cup {entry}]
  <2>2. Minted(w, o, leg, began)
            = made(Used(w, leg.bag), Capacity(leg.bag),
                   Entry(o, leg, ~ (Used(w, leg.bag) + leg.size <= Capacity(leg.bag))))
    BY Zenon DEF Minted
  <2>3. Serial!Minted(w, o, leg, began)
            = made(Serial!Used(w, leg.bag), Serial!Capacity(leg.bag),
                   Serial!Entry(o, leg, ~ (Serial!Used(w, leg.bag) + leg.size
                                              <= Serial!Capacity(leg.bag))))
    BY Zenon DEF Serial!Minted
  <2>4. Serial!Entry(o, leg, ~ (Serial!Used(w, leg.bag) + leg.size
                                   <= Serial!Capacity(leg.bag)))
            = Entry(o, leg, ~ (Used(w, leg.bag) + leg.size <= Capacity(leg.bag)))
    BY <1>1, <2>1, Zenon
  <2> HIDE DEF made
  <2> QED BY <2>1, <2>2, <2>3, <2>4, Zenon
<1>4. Serial!InstanceKinds = InstanceKinds
  BY Zenon DEF InstanceKinds, Serial!InstanceKinds
<1> QED BY <1>2, <1>3, <1>4, Zenon DEF Delivered, Serial!Delivered

\* What a claim does to the rows.
LEMMA SameClaimed ==
    \A w, o, leg : Serial!Claimed(w, o, leg) = Claimed(w, o, leg)
<1>1. \A o, leg, overflow : Serial!Entry(o, leg, overflow) = Entry(o, leg, overflow)
  BY Zenon DEF Entry, Serial!Entry
<1>2. \A w, rows : Serial!Items(w, rows) = Items(w, rows)
  BY Zenon DEF Items, Serial!Items
<1>3. \A w, bag : Serial!Waiting(w, bag) = Waiting(w, bag)
  BY Zenon DEF Waiting, Serial!Waiting
<1>4. \A w, i, j : Serial!Before(w, i, j) = Before(w, i, j)
  BY Zenon DEF Before, Serial!Before
<1>5. \A w, bag : Serial!Claimable(w, bag) = Claimable(w, bag)
  BY <1>2, <1>3, <1>4, SameUsed, Zenon DEF Claimable, Serial!Claimable
<1> QED BY <1>1, <1>2, <1>5, ZenonT(40) DEF Claimed, Serial!Claimed

---------------------------------------------------------------------------
(* Each write is one step of the serial specification.                     *)

\* The rows that the serial specification makes of the legs are those a run ends
\* with, there being one function that satisfies the recursion.
LEMMA RunsEnd ==
    ASSUME NEW w, NEW k, NEW legs, Len(legs) \in Nat, NEW began, NEW run,
           Runs(run, w, k, legs, began, Len(legs))
    PROVE  Serial!DeliveredAll(w, k, legs, began) = run[Len(legs)]
<1> DEFINE D == 0 .. Len(legs)
           IsMade(f) == f = [n \in 0 .. Len(legs) |->
                               IF n = 0 THEN w
                               ELSE Serial!Delivered(f[n - 1], k, legs[n], began)]
           after == CHOOSE f : IsMade(f)
           copy == [n \in D |-> run[n]]
<1>1. Serial!DeliveredAll(w, k, legs, began) = after[Len(legs)]
  BY Zenon DEF Serial!DeliveredAll
<1>2. \A n \in 1 .. Len(legs) : run[n] = Serial!Delivered(run[n - 1], k, legs[n], began)
  BY SameDelivered DEF Runs
<1>3. IsMade(copy)
  <2>1. \A n \in D : copy[n] = IF n = 0 THEN w
                               ELSE Serial!Delivered(copy[n - 1], k, legs[n], began)
    <3>1. ASSUME NEW n \in D, n # 0
          PROVE  copy[n] = Serial!Delivered(copy[n - 1], k, legs[n], began)
      <4>1. n - 1 \in D /\ n \in 1 .. Len(legs)
        BY <3>1
      <4>2. copy[n - 1] = run[n - 1] /\ copy[n] = run[n]
        BY <4>1
      <4> HIDE DEF copy
      <4> QED BY <1>2, <4>1, <4>2, Zenon
    <3>2. copy[0] = w
      BY DEF Runs
    <3> QED BY <3>1, <3>2
  <2>2. copy = [n \in D |-> copy[n]]
    OBVIOUS
  <2> HIDE DEF copy
  <2>3. [n \in D |-> copy[n]] = [n \in D |-> IF n = 0 THEN w
                               ELSE Serial!Delivered(copy[n - 1], k, legs[n], began)]
    BY <2>1, Zenon
  <2> QED BY <2>2, <2>3, Zenon
<1>4. IsMade(after)
  <2> HIDE DEF copy, IsMade
  <2> QED BY <1>3, Zenon
<1> DEFINE T == {n \in Nat : n \in D => after[n] = run[n]}
<1> HIDE DEF after
<1>5. \A n \in D : after[n] = IF n = 0 THEN w
                              ELSE Serial!Delivered(after[n - 1], k, legs[n], began)
  BY <1>4, Zenon
<1>6. 0 \in T
  BY <1>5 DEF Runs
<1>7. ASSUME NEW n \in Nat, n \in T PROVE n + 1 \in T
  <2> SUFFICES ASSUME n + 1 \in D PROVE after[n + 1] = run[n + 1]
    OBVIOUS
  <2>1. n \in D /\ n + 1 \in 1 .. Len(legs) /\ n + 1 # 0 /\ (n + 1) - 1 = n
    OBVIOUS
  <2>2. after[n] = run[n]
    BY <1>7, <2>1
  <2>3. after[n + 1] = Serial!Delivered(after[n], k, legs[n + 1], began)
    BY <1>5, <2>1, Zenon
  <2>4. run[n + 1] = Serial!Delivered(run[n], k, legs[n + 1], began)
    BY <1>2, <2>1, Zenon
  <2> QED BY <2>2, <2>3, <2>4, Zenon
<1> HIDE DEF T
<1>8. Nat \subseteq T
  BY <1>6, <1>7, NatSetInduction
<1>9. Len(legs) \in T /\ Len(legs) \in D
  BY <1>8
<1> QED BY <1>1, <1>9 DEF T

\* The row that a session has is one the request is known by or pinned with.
LEMMA KnownRow ==
    ASSUME Serving, NEW s \in Sessions, tx[s].phase \in Holding,
           tx[s].row.state = "PENDING", tx[s].row.area = tx[s].area
    PROVE  tx[s].row \in Serial!Known(tx[s].key, tx[s].area)
<1> DEFINE row == tx[s].row
           k == tx[s].key
<1>1. TxOK(tx[s], db, operation) /\ Unanswered(row)
  BY DEF Serving, IInv, TxServes
<1>2. RowOK(row) /\ (row = operation[k] \/ operation[k] = NoRow)
  BY <1>1 DEF TxOK, Follows
<1>3. row.receipt = None /\ row # NoRow
  BY <1>1, <1>2 DEF Unanswered, RowOK, NoRow
<1>4. row = [state |-> "PENDING", area |-> tx[s].area, root |-> row.root, receipt |-> None]
      /\ row.root \in Roots
  BY <1>2, <1>3 DEF RowOK
<1>5. Serial!NoRow = NoRow
  BY SameRows
<1>6. operation[k] # NoRow => /\ row = operation[k] /\ row.area = tx[s].area
                              /\ row.state = "PENDING"
  BY <1>2
<1> HIDE DEF row
<1>7. row \in Serial!Known(k, tx[s].area)
  BY <1>4, <1>5, <1>6 DEF Serial!Known
<1> QED BY <1>7 DEF row

\* An operation has one plan at most.
LEMMA OnePlan ==
    ASSUME Regular(db), NEW k
    PROVE  /\ Serial!SettledPlans(k) # {} <=> Settlement(db, k) # {}
           /\ Serial!PlanFor(k) = PlanOf(db, k)
<1>1. Serial!SettledPlans(k) = {e.leg.plan : e \in Settlement(db, k)}
  BY DEF Serial!SettledPlans, Settlement
<1>2. CASE Settlement(db, k) = {}
  BY <1>1, <1>2, SameRows DEF Serial!PlanFor, PlanOf
<1>3. CASE Settlement(db, k) # {}
  <2> DEFINE e == CHOOSE e \in Settlement(db, k) : TRUE
  <2>1. e \in Settlement(db, k)
    BY <1>3
  <2> HIDE DEF e
  <2>2. \A f \in Settlement(db, k) : f = e
    BY <2>1 DEF Regular, Settlement
  <2>3. Serial!SettledPlans(k) = {e.leg.plan}
    BY <1>1, <2>1, <2>2
  <2>4. (CHOOSE plan \in {e.leg.plan} : TRUE) = e.leg.plan
    OBVIOUS
  <2>5. Serial!SettledPlans(k) # {}
    BY <2>3
  <2>6. Serial!PlanFor(k) = e.leg.plan
    BY <2>3, <2>4, <2>5, Zenon DEF Serial!PlanFor
  <2>7. PlanOf(db, k) = e.leg.plan
    BY <1>3 DEF PlanOf, e
  <2> QED BY <1>3, <2>5, <2>6, <2>7
<1> QED BY <1>2, <1>3

\* What a session that has settled its baits makes the rows of.
LEMMA EntersSerial ==
    ASSUME Serving, NEW s \in Sessions, tx[s].phase \in Owning \ {"LOCKED"}
    PROVE  LET k == tx[s].key
               area == tx[s].area
           IN  /\ Serial!MayEnter(k, area)
               /\ Serial!Prepared(k, area) = PreparedOf(db, k, area)
               /\ tx[s].cast = [name |-> db.equipped, rod |-> Serial!Rod(db), area |-> area,
                                plan |-> Serial!PlanFor(k)]
               /\ tx[s].row \in Serial!Known(k, area)
<1> DEFINE k == tx[s].key
           area == tx[s].area
<1>1. Serves(tx[s], db) /\ TxOK(tx[s], db, operation) /\ Regular(db)
  BY DEF Serving, TxServes, IInv
<1>2. MayFish(db, area) /\ Baiting(tx[s], db) /\ db.status = "ACTIVE"
      /\ tx[s].row.state = "PENDING" /\ tx[s].row.area = area /\ tx[s].phase \in Holding
  BY <1>1 DEF Serves, TxOK, WorkOK, Holding
<1>3. /\ Serial!SettledPlans(k) # {} <=> Settlement(db, k) # {}
      /\ Serial!PlanFor(k) = PlanOf(db, k)
  BY <1>1, OnePlan
<1>4. Serial!MayEnter(k, area)
  BY <1>2, <1>3, SameRows, SameMayBait DEF Serial!MayEnter, Baiting
<1>5. Serial!Prepared(k, area) = PreparedOf(db, k, area)
  BY <1>3, SameRows, Zenon DEF Serial!Prepared, PreparedOf
<1>6. tx[s].cast = [name |-> db.equipped, rod |-> Serial!Rod(db), area |-> area,
                    plan |-> Serial!PlanFor(k)]
  BY <1>2, <1>3, SameRows, Zenon DEF Baiting
<1>7. tx[s].row \in Serial!Known(k, area)
  BY <1>2, KnownRow
<1> QED BY <1>4, <1>5, <1>6, <1>7

\* An operation row alone is pinned, and settled baits are a baiting.
LEMMA SavesImplement ==
    ASSUME Serving, NEW s \in Sessions
    PROVE  /\ SaveRow(s) => Serial!Pin(tx[s].key, tx[s].area)
           /\ SaveBaits(s) => Serial!Bait(tx[s].key, tx[s].area)
<1>1. ASSUME SaveRow(s) PROVE Serial!Pin(tx[s].key, tx[s].area)
  <2>1. tx[s].row \in Serial!Known(tx[s].key, tx[s].area)
    BY <1>1, KnownRow DEF SaveRow, Castable, IsOfRequest, Holding
  <2> QED BY <1>1, <2>1 DEF SaveRow, Serial!Pin
<1>2. ASSUME SaveBaits(s) PROVE Serial!Bait(tx[s].key, tx[s].area)
  <2>1. tx[s].phase = "BAITED" /\ tx[s].phase \in Owning \ {"LOCKED"}
    BY <1>2 DEF SaveBaits, Owning
  <2>2. tx[s].work = PreparedOf(db, tx[s].key, tx[s].area)
    BY <2>1 DEF Serving, TxServes, Serves
  <2>3. /\ Serial!MayEnter(tx[s].key, tx[s].area)
        /\ Serial!Prepared(tx[s].key, tx[s].area) = PreparedOf(db, tx[s].key, tx[s].area)
        /\ tx[s].row \in Serial!Known(tx[s].key, tx[s].area)
    BY <2>1, EntersSerial
  <2> QED BY <1>2, <2>2, <2>3 DEF SaveBaits, Serial!Bait
<1> QED BY <1>1, <1>2

\* A commit is the cast of its request on the rows of that moment.
LEMMA CommitImplements ==
    ASSUME Serving, NEW s \in Sessions, Commit(s)
    PROVE  Serial!Cast(tx[s].key, tx[s].area)
<1> DEFINE t == tx[s]
           k == tx[s].key
           area == tx[s].area
           row == tx[s].row
           c == [name |-> db.equipped, rod |-> Serial!Rod(db), area |-> area,
                 plan |-> Serial!PlanFor(k)]
           outcome == Serial!OutcomeOf(Serial!RouteOf(c), c, row.root)
           receipt == Serial!ReceiptOf(Serial!RouteOf(c), c, outcome)
           legs == Serial!LegsOf(outcome, row.root)
           landed(n) == Serial!Progressed(
                            Serial!DeliveredAll(Serial!Prepared(k, area), k, legs, n), k, outcome)
<1>1. t.phase = "WORN" /\ t.phase \in Owning \ {"LOCKED"}
  BY DEF Commit, TerminalReached, Owning
<1>2. /\ Serial!MayEnter(k, area) /\ row \in Serial!Known(k, area) /\ t.cast = c
      /\ Serial!Prepared(k, area) = PreparedOf(db, k, area)
  BY <1>1, EntersSerial
<1>3. Serves(t, db) /\ t.began \in 1 .. begun /\ begun \in 0 .. MaxBegun /\ IInv
  BY <1>1 DEF Serving, TxServes
<1>4. /\ TxOK(t, db, operation) /\ Ends(t.cast, row.root) /\ IsRoot(row.root)
      /\ IsRod(t.cast.rod)
  BY <1>1, <1>3, RootsAssumption DEF IInv, TxOK, Holding, RowOK, CastOK
<1>5. outcome = OutcomeIn(t)
  BY <1>2, SameRoutes, SameOutcomes DEF OutcomeIn
<1>6. receipt = ReceiptFor(s)
  BY <1>2, <1>5, SameRoutes, SameReceipts DEF ReceiptFor, OutcomeFor, OutcomeIn
<1>7. legs = LegsIn(t)
  BY <1>5, SameLegs DEF LegsIn
<1>8. Serial!Supported(c) /\ Serial!Checks(receipt)
  BY <1>2, <1>4, <1>6, SameRoutes, SameChecks DEF Ends, Commit
<1>9. legs \in Seq(CastLegs)
  BY <1>4, <1>7, EndsWith DEF LegsIn, OutcomeIn
<1> DEFINE began == t.began
           base == PreparedOf(db, k, area)
           worn(rows) == IF Serial!Ordinary(c.rod) THEN Serial!Worn(rows, k, c, outcome.wear)
                         ELSE rows
<1>10. c.rod = t.cast.rod
  BY <1>2
<1>11. began \in 1 .. MaxBegun
  BY <1>3, BoundAssumption
<1>12. PICK rows : Reached(t, db, Len(LegsIn(t)), rows) /\ t.work = WornOf(t, rows)
  BY <1>1, <1>3 DEF Serves
<1>13. /\ \E run : Runs(run, base, k, legs, began, Len(legs)) /\ rows = run[Len(legs)]
       /\ \A i \in 1 .. Len(legs) : MayDeliver(db, k, legs[i])
  BY <1>7, <1>12, Zenon DEF Reached
<1> HIDE DEF legs
<1>14. Len(legs) \in Nat /\ DOMAIN legs = 1 .. Len(legs)
  BY <1>9
<1>15. \A i \in DOMAIN legs : Serial!MayDeliver(db, k, legs[i])
  BY <1>13, <1>14, SameEnds
<1>16. Serial!DeliveredAll(base, k, legs, began) = rows
  BY <1>13, <1>14, RunsEnd
<1>17. landed(began) = LandedOf(t, rows)
  BY <1>2, <1>5, <1>16, SameEnds, Zenon DEF LandedOf
<1>18. t.work = worn(landed(began))
  BY <1>2, <1>5, <1>12, <1>17, SameEnds, Zenon DEF WornOf, Wears
<1>19. db' = t.work /\ operation' = [operation EXCEPT ![k] = Committed(row, receipt)]
  BY <1>6 DEF Commit
<1>20. operation' = [operation EXCEPT ![k] = [row EXCEPT !.state = "COMMITTED",
                                                      !.receipt = receipt]]
  BY <1>19, Zenon DEF Committed
<1> QED
  BY <1>2, <1>8, <1>11, <1>15, <1>18, <1>19, <1>20, Zenon DEF Serial!Cast, legs

\* What else happens to the rows happens so in the serial specification.
LEMMA ElseImplements ==
    ASSUME Else
    PROVE  Serial!Elsewhere
<1>1. \A w : Elsewhere(w) => Serial!Live(w)
  BY Zenon DEF Elsewhere, Serial!Live
<1>2. ASSUME NEW r \in RodNames, Equip(r) PROVE Serial!Elsewhere
  BY <1>1, <1>2, Zenon DEF Equip, IsActive, RodNames, Serial!Elsewhere
<1>3. ASSUME NEW S \in Selections, ReplaceBaits(S) PROVE Serial!Elsewhere
  BY <1>1, <1>3, Zenon DEF ReplaceBaits, IsActive, Serial!Elsewhere
<1>4. ASSUME ClaimCatches PROVE Serial!Elsewhere
  <2>1. Serial!Claimed(db, None, [bag |-> "CATCH_BAG"])
            = Claimed(db, None, [bag |-> "CATCH_BAG"])
    BY SameClaimed
  <2> QED BY <1>1, <1>4, <2>1, Zenon DEF ClaimCatches, IsActive, Serial!Elsewhere
<1>5. ASSUME NEW i \in DOMAIN db.items, TakeOut(i) PROVE Serial!Elsewhere
  BY <1>1, <1>5, Zenon DEF TakeOut, IsActive, Serial!Elsewhere
<1>6. ASSUME NEW status \in {"ACTIVE", "FROZEN"}, SetStatus(status) PROVE Serial!Elsewhere
  BY <1>1, <1>6, Zenon DEF SetStatus, Serial!Elsewhere
<1>7. ASSUME NEW n \in Levels, Level(n) PROVE Serial!Elsewhere
  BY <1>1, <1>7, Zenon DEF Level, IsActive, Serial!Elsewhere
<1>8. ASSUME Rebirth PROVE Serial!Elsewhere
  BY <1>1, <1>8, Zenon DEF Rebirth, IsActive, Serial!Elsewhere
<1> QED BY <1>2, <1>3, <1>4, <1>5, <1>6, <1>7, <1>8 DEF Else

\* Every step is one of the serial specification, or changes none of its rows.
LEMMA StepsImplement == Serving /\ [Next]_vars => [Serial!Next]_(Serial!vars)
<1> SUFFICES ASSUME Serving, [Next]_vars PROVE [Serial!Next]_(Serial!vars)
  OBVIOUS
<1>1. CASE UNCHANGED vars
  BY <1>1 DEF vars, Serial!vars
<1>2. ASSUME NEW s \in Sessions, SaveRow(s) \/ SaveBaits(s) \/ Commit(s) PROVE Serial!Next
  <2>1. tx[s].key \in Keys /\ tx[s].area \in Places
    BY <1>2 DEF Serving, IInv, TxOK, SaveRow, Castable, SaveBaits, Commit, TerminalReached
  <2>2. \/ Serial!Pin(tx[s].key, tx[s].area) \/ Serial!Bait(tx[s].key, tx[s].area)
        \/ Serial!Cast(tx[s].key, tx[s].area)
    BY <1>2, SavesImplement, CommitImplements
  <2> QED BY <2>1, <2>2, Zenon DEF Serial!Next
<1>3. ASSUME NEW s \in Sessions, Begin(s) \/ Step(s) \/ RollBack(s), ~ Commit(s)
      PROVE  UNCHANGED Serial!vars
  BY <1>3 DEF Serial!vars, Begin, Step, RollBack, Resolve, Answer, Preflight, SettleBaits,
              Select, Deliver, Progress, Wear, Refuse
<1>4. CASE Else
  BY <1>4, ElseImplements, Zenon DEF Serial!Next
<1> QED BY <1>1, <1>2, <1>3, <1>4 DEF Next, Step

\* Whatever the transactions of the code interleave, lose or repeat: the player's
\* rows and the operation rows change as if each request were pinned, baited and
\* cast in one indivisible step on the rows of that moment, each at most once.
THEOREM CastsAreSerial == Spec => ImplementsSerial
<1>1. Init => Serial!Init
  <2> SUFFICES ASSUME Init PROVE Serial!Init
    OBVIOUS
  <2>1. PICK r \in DOMAIN RodRows : db = Rows(r)
    BY DEF Init, RodNames
  <2>2. operation = [k \in Keys |-> Serial!NoRow]
    BY SameRows, Zenon DEF Init
  <2> QED BY <2>1, <2>2, Zenon DEF Serial!Init, Rows
<1> QED BY <1>1, StepsImplement, ServingHolds, PTL DEF Spec, ImplementsSerial, Serial!Spec
=============================================================================
