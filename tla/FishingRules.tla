------------------------------ MODULE FishingRules ------------------------------
(***************************************************************************)
(* What a manual fishing cast decides from the rows it has locked.         *)
(* Source: fishing_cast_owner, its previews and its routes; the bait plan, *)
(* the areas and the rod of the preflight; the checks of fishing_terminal. *)
(*                                                                         *)
(* A player's rows w are those of StorageRules with                        *)
(*   rods       the rods, with kind, tier, enchants and durability left    *)
(*   equipped   the rod in the FISHING_ROD slot                            *)
(*   selection  player_active_fishing_baits                                *)
(*   unlocked   player_fishing_area_unlocks                                *)
(*   level, rebirths    what progression gives                             *)
(* A cast c is what is fixed once its baits are settled: the rod as it was *)
(* locked, the area and the bait plan.  A root is what the draws of one    *)
(* operation give, all of them functions of its rng_root: for each         *)
(* question the answer under the modifiers that can change it.             *)
(***************************************************************************)
EXTENDS StorageRules

Enchants == {"UNBREAKING", "STRENGTHEN", "SHARP_HOOK", "TREASURE", "BAIT_RACK",
             "MULTICATCH", "MULTI_TREASURE", "LURE"}
Baits == {"SCHOOL", "QUALITY", "RARE", "TREASURE_BAIT", "STURDY"}
MaxLevel(e) == IF e = "BAIT_RACK" THEN 3 ELSE 10

\* A key of which no operation has been committed.
NoRow == [state |-> "NONE"]

IsRod(rod) ==
    /\ rod = [kind |-> rod.kind, tier |-> rod.tier, ench |-> rod.ench, left |-> rod.left,
              max |-> rod.max]
    /\ rod.kind \in {"STARTER", "ORDINARY"}
    /\ \A e \in DOMAIN rod.ench : e \in Enchants /\ rod.ench[e] \in 1 .. MaxLevel(e)
    /\ rod.max \in Nat /\ rod.left \in 0 .. rod.max

Branches == {"FISH", "TREASURE", "JUNK"}
LineEnds == {"LANDED", "BROKEN", "OVER"}

IsRoot(root) ==
    /\ {root.branch, root.richer} \subseteq Branches
    /\ {root.line.plain, root.line.strong, root.line.sturdy, root.line.loaded} \subseteq LineEnds
    /\ {root.fish, root.school, root.grams} \subseteq Nat \ {0}
    /\ root.goods \in 1 .. 3

---------------------------------------------------------------------------
(* The preflight: area, rod and baits.                                     *)

Areas == {"STARTER_POOL", "RIVER", "LAKE", "COAST", "DEEP_SEA", "ABYSS"}

\* The Abyss asks for a Rebirth in place of a level.
MinimumLevel == [RIVER |-> 10, LAKE |-> 25, COAST |-> 50, DEEP_SEA |-> 100, ABYSS |-> 0]
MinimumRebirth == [RIVER |-> 0, LAKE |-> 0, COAST |-> 0, DEEP_SEA |-> 0, ABYSS |-> 1]

\* The areas a first visit opens with a rod of the tier; gold goes where diamond goes.
OpenedBy(tier) ==
    CASE tier = "WOOD" -> {"RIVER"}
      [] tier = "STONE" -> {"RIVER", "LAKE"}
      [] tier \in {"COPPER", "IRON"} -> {"RIVER", "LAKE", "COAST"}
      [] tier \in {"GOLD", "DIAMOND", "OBSIDIAN"} -> {"RIVER", "LAKE", "COAST", "DEEP_SEA"}
      [] tier \in {"NETHERITE", "GRAPHITE"} -> Areas

Rod(w) == w.rods[w.equipped]
Ordinary(rod) == rod.kind = "ORDINARY"
Broken(rod) == Ordinary(rod) /\ rod.left = 0

\* A first visit is decided by the state of now, a later one by the row of the first.
Open(w, area) == area = "STARTER_POOL" \/ \E row \in w.unlocked : row.area = area
Opens(w, area) ==
    /\ area # "STARTER_POOL"
    /\ w.level >= MinimumLevel[area] /\ w.rebirths >= MinimumRebirth[area]
    /\ Ordinary(Rod(w)) /\ area \in OpenedBy(Rod(w).tier)

MayFish(w, area) ==
    /\ Open(w, area) \/ Opens(w, area)
    /\ Ordinary(Rod(w)) \/ area = "STARTER_POOL"
    /\ ~ Broken(Rod(w))

\* Mistaken: every visit writes its row.
EnteredAgain(w, o, area) ==
    IF area = "STARTER_POOL" THEN w
    ELSE [w EXCEPT !.unlocked = @ \cup {[area |-> area, op |-> o]}]

Entered(w, o, area) ==
    IF Open(w, area) THEN w
    ELSE [w EXCEPT !.unlocked = @ \cup {[area |-> area, op |-> o]}]

Rack(rod) == IF "BAIT_RACK" \in DOMAIN rod.ench THEN rod.ench["BAIT_RACK"] ELSE 0
BaitRoom(rod) == 3 + Rack(rod)

\* Every selected bait of which there is a unit; the others are detached.
BaitPlan(w) ==
    LET used == {b \in w.selection : w.stack[b] >= 1}
    IN  [rack |-> Rack(Rod(w)), used |-> used, missing |-> w.selection \ used]

MayBait(w) == ~ Broken(Rod(w)) /\ Cardinality(w.selection) <= BaitRoom(Rod(w))

BaitLeg(b) == [kind |-> "CONSUME", key |-> "fishing:bait:consume", def |-> b, quantity |-> 1]
PlanLeg(plan) == [kind |-> "BAITS", key |-> "fishing:bait:cast", plan |-> plan]

Baited(w, o) ==
    LET plan == BaitPlan(w)
    IN  [w EXCEPT !.stack = [d \in Defs |-> IF d \in plan.used THEN @[d] - 1 ELSE @[d]],
                  !.selection = @ \ plan.missing,
                  !.log = @ \cup {Entry(o, BaitLeg(b), FALSE) : b \in plan.used}
                            \cup {Entry(o, PlanLeg(plan), FALSE)}]

---------------------------------------------------------------------------
(* The exact loadouts that a terminal route serves.                        *)

Plain(c) == Ordinary(c.rod) /\ c.rod.tier # "GOLD"
NoBait(c) == c.plan.used = {}
OnlyWith(c, e, levels) ==
    Plain(c) /\ NoBait(c) /\ DOMAIN c.rod.ench = {e} /\ c.rod.ench[e] \in levels
OnlyOn(c, b) == Plain(c) /\ DOMAIN c.rod.ench = {} /\ c.plan.used = {b}

StarterOnly(c) ==
    ~ Ordinary(c.rod) /\ c.area = "STARTER_POOL" /\ NoBait(c) /\ DOMAIN c.rod.ench = {}
UnmodifiedOnly(c) == Plain(c) /\ NoBait(c) /\ DOMAIN c.rod.ench = {}
UnbreakingXOnly(c) == OnlyWith(c, "UNBREAKING", {MaxLevel("UNBREAKING")})
StrengthenOnly(c) == OnlyWith(c, "STRENGTHEN", 1 .. MaxLevel("STRENGTHEN"))
SharpHookOnly(c) == OnlyWith(c, "SHARP_HOOK", 1 .. MaxLevel("SHARP_HOOK"))
TreasureXOnly(c) == OnlyWith(c, "TREASURE", {MaxLevel("TREASURE")})
BaitRackOnly(c) == OnlyWith(c, "BAIT_RACK", 1 .. MaxLevel("BAIT_RACK"))
MulticatchOnly(c) == OnlyWith(c, "MULTICATCH", 1 .. MaxLevel("MULTICATCH"))
MultiTreasureOnly(c) == OnlyWith(c, "MULTI_TREASURE", 1 .. MaxLevel("MULTI_TREASURE"))
SturdyOnly(c) == OnlyOn(c, "STURDY")
SchoolOnly(c) == OnlyOn(c, "SCHOOL")

RoutesOf(c) ==
    {r \in {"STARTER", "UNMODIFIED", "UNBREAKING", "STRENGTHEN", "SHARP_HOOK", "TREASURE",
            "BAIT_RACK", "MULTICATCH", "MULTI_TREASURE", "STURDY", "SCHOOL"} :
        CASE r = "STARTER" -> StarterOnly(c)
          [] r = "UNMODIFIED" -> UnmodifiedOnly(c)
          [] r = "UNBREAKING" -> UnbreakingXOnly(c)
          [] r = "STRENGTHEN" -> StrengthenOnly(c)
          [] r = "SHARP_HOOK" -> SharpHookOnly(c)
          [] r = "TREASURE" -> TreasureXOnly(c)
          [] r = "BAIT_RACK" -> BaitRackOnly(c)
          [] r = "MULTICATCH" -> MulticatchOnly(c)
          [] r = "MULTI_TREASURE" -> MultiTreasureOnly(c)
          [] r = "STURDY" -> SturdyOnly(c)
          [] r = "SCHOOL" -> SchoolOnly(c)}

Supported(c) == RoutesOf(c) # {}
RouteOf(c) == CHOOSE r \in RoutesOf(c) : TRUE

---------------------------------------------------------------------------
(* What the pinned draws give under a loadout: the previews of each route. *)

\* The Starter Pool lands every fish.
Line(c, answer) == IF c.area = "STARTER_POOL" THEN "LANDED" ELSE answer

UnmodifiedDraws(c, root) ==
    [branch |-> root.branch, book |-> root.book, line |-> Line(c, root.line.plain),
     fish |-> 1, goods |-> 1, wear |-> "WORN"]

StarterDraws(c, root) == [UnmodifiedDraws(c, root) EXCEPT !.wear = "NONE"]
UnbreakingXDraws(c, root) ==
    [UnmodifiedDraws(c, root) EXCEPT !.wear = IF root.spared THEN "SPARED" ELSE "WORN"]
StrengthenDraws(c, root) ==
    [UnmodifiedDraws(c, root) EXCEPT !.line = Line(c, root.line.strong)]
\* Sharp Hook has a say only in a catch that no route commits.
SharpHookDraws(c, root) == UnmodifiedDraws(c, root)
TreasureXDraws(c, root) == [UnmodifiedDraws(c, root) EXCEPT !.branch = root.richer]
BaitRackDraws(c, root) == UnmodifiedDraws(c, root)
Loaded(c, root, fish) ==
    Line(c, IF fish > 1 THEN root.line.loaded ELSE root.line.plain)
MulticatchDraws(c, root) ==
    [UnmodifiedDraws(c, root) EXCEPT !.fish = root.fish, !.line = Loaded(c, root, root.fish)]
MultiTreasureDraws(c, root) == [UnmodifiedDraws(c, root) EXCEPT !.goods = root.goods]
SturdyDraws(c, root) ==
    [UnmodifiedDraws(c, root) EXCEPT !.line = Line(c, root.line.sturdy)]
SchoolDraws(c, root) ==
    [UnmodifiedDraws(c, root) EXCEPT !.fish = root.school, !.line = Loaded(c, root, root.school)]

---------------------------------------------------------------------------
(* The selected outcome: what is delivered, how often, and what the rod    *)
(* takes.  A fish that is over the rod's capability and did not break the  *)
(* line is PENDING: no route ends such a cast.                             *)

Outcome(kind, n, wear, counted) == [kind |-> kind, n |-> n, wear |-> wear, counted |-> counted]

NonFish(d) ==
    IF d.branch = "TREASURE"
    THEN Outcome(IF d.book THEN "BOOK" ELSE "GOODS", d.goods, d.wear, 0)
    ELSE Outcome("JUNK", 1, d.wear, 0)

\* The number of fish is recorded by the routes that draw it.
Fished(d, counted) ==
    CASE d.line = "LANDED" -> Outcome("FISH", d.fish, d.wear, counted)
      [] d.line = "BROKEN" -> Outcome("BROKEN", 0, "LINE_BREAK", counted)
      [] d.line = "OVER" -> Outcome("PENDING", 0, "NONE", counted)

Selected(d) == IF d.branch = "FISH" THEN Fished(d, 0) ELSE NonFish(d)
SelectedOf(d) == IF d.branch = "FISH" THEN Fished(d, d.fish) ELSE NonFish(d)

StarterOutcome(c, root) == Selected(StarterDraws(c, root))
UnmodifiedOutcome(c, root) == Selected(UnmodifiedDraws(c, root))
UnbreakingXOutcome(c, root) == Selected(UnbreakingXDraws(c, root))
StrengthenOutcome(c, root) == Selected(StrengthenDraws(c, root))
SharpHookOutcome(c, root) == Selected(SharpHookDraws(c, root))
TreasureXOutcome(c, root) == Selected(TreasureXDraws(c, root))
BaitRackOutcome(c, root) == Selected(BaitRackDraws(c, root))
MulticatchOutcome(c, root) == SelectedOf(MulticatchDraws(c, root))
MultiTreasureOutcome(c, root) == Selected(MultiTreasureDraws(c, root))
SturdyOutcome(c, root) == Selected(SturdyDraws(c, root))
SchoolOutcome(c, root) == SelectedOf(SchoolDraws(c, root))

OutcomeOf(r, c, root) ==
    CASE r = "STARTER" -> StarterOutcome(c, root)
      [] r = "UNMODIFIED" -> UnmodifiedOutcome(c, root)
      [] r = "UNBREAKING" -> UnbreakingXOutcome(c, root)
      [] r = "STRENGTHEN" -> StrengthenOutcome(c, root)
      [] r = "SHARP_HOOK" -> SharpHookOutcome(c, root)
      [] r = "TREASURE" -> TreasureXOutcome(c, root)
      [] r = "BAIT_RACK" -> BaitRackOutcome(c, root)
      [] r = "MULTICATCH" -> MulticatchOutcome(c, root)
      [] r = "MULTI_TREASURE" -> MultiTreasureOutcome(c, root)
      [] r = "STURDY" -> SturdyOutcome(c, root)
      [] r = "SCHOOL" -> SchoolOutcome(c, root)

---------------------------------------------------------------------------
(* The legs of an outcome, and what each does to the rows.                 *)

FishLeg(i, grams) ==
    [kind |-> "FISH", key |-> "fishing:fish:slot", slot |-> i, bag |-> "CATCH_BAG", size |-> grams]
BookLeg(i) ==
    [kind |-> "UNIQUE", key |-> "fishing:book:slot", slot |-> i, bag |-> "ITEM_BAG", size |-> 1]
GoodsLeg(i) ==
    [kind |-> "DELIVER", key |-> "fishing:treasure:payload", slot |-> i, def |-> "ORE",
     quantity |-> 1]
JunkLeg == [kind |-> "DELIVER", key |-> "fishing:junk:payload", def |-> "JUNK", quantity |-> 1]

LegsOf(outcome, root) ==
    CASE outcome.kind = "FISH" -> [i \in 1 .. outcome.n |-> FishLeg(i, root.grams)]
      [] outcome.kind = "BOOK" -> [i \in 1 .. outcome.n |-> BookLeg(i)]
      [] outcome.kind = "GOODS" -> [i \in 1 .. outcome.n |-> GoodsLeg(i)]
      [] outcome.kind = "JUNK" -> <<JunkLeg>>
      [] OTHER -> <<>>

MayDeliver(w, o, leg) == leg.kind \in InstanceKinds => MayMint(w, o, leg.bag)

Delivered(w, o, leg, began) ==
    IF leg.kind \in InstanceKinds THEN Minted(w, o, leg, began) ELSE StackDelivered(w, o, leg)

\* One settlement of both kinds of experience for whatever was landed.
ProgressLeg == [kind |-> "PROGRESS", key |-> "progression"]
Landed(outcome) == outcome.n > 0
Progressed(w, o, outcome) ==
    IF Landed(outcome) THEN [w EXCEPT !.log = @ \cup {Entry(o, ProgressLeg, FALSE)}] ELSE w

WearLeg(c, wear) ==
    [kind |-> "WEAR", key |-> "fishing:rod:durability", rod |-> c.name, how |-> wear,
     expected |-> c.rod.left]

\* Mistaken: a broken line wears the rod like any other cast.
LeftAfterBreak(left, wear) == IF wear = "SPARED" THEN left ELSE left - 1

Left(left, wear) ==
    CASE wear = "LINE_BREAK" -> 0
      [] wear = "SPARED" -> left
      [] wear = "WORN" -> left - 1

\* The rod must still have the durability the cast was resolved with.
MayWear(w, c) == w.equipped = c.name /\ Rod(w).left = c.rod.left /\ Rod(w).left > 0

Worn(w, o, c, wear) ==
    [w EXCEPT !.rods[c.name].left = Left(@, wear),
              !.log = @ \cup {Entry(o, WearLeg(c, wear), FALSE)}]

---------------------------------------------------------------------------
(* The receipt a route hands to its terminal, and what the terminal makes  *)
(* sure of before it marks the operation COMMITTED.                        *)

Receipt(r, c, outcome) ==
    [route |-> r, area |-> c.area, outcome |-> outcome, level |-> 0,
     plan |-> [rack |-> 0, used |-> {}, missing |-> {}]]
LeveledReceipt(r, c, outcome) == [Receipt(r, c, outcome) EXCEPT !.level = c.rod.ench[r]]
BaitedReceipt(r, c, outcome) == [Receipt(r, c, outcome) EXCEPT !.plan = c.plan]

StarterReceipt(c, outcome) == Receipt("STARTER", c, outcome)
UnmodifiedReceipt(c, outcome) == Receipt("UNMODIFIED", c, outcome)
UnbreakingXReceipt(c, outcome) == Receipt("UNBREAKING", c, outcome)
StrengthenReceipt(c, outcome) == LeveledReceipt("STRENGTHEN", c, outcome)
SharpHookReceipt(c, outcome) == LeveledReceipt("SHARP_HOOK", c, outcome)
TreasureXReceipt(c, outcome) == Receipt("TREASURE", c, outcome)
BaitRackReceipt(c, outcome) == LeveledReceipt("BAIT_RACK", c, outcome)
MulticatchReceipt(c, outcome) == LeveledReceipt("MULTICATCH", c, outcome)
MultiTreasureReceipt(c, outcome) == LeveledReceipt("MULTI_TREASURE", c, outcome)
SturdyReceipt(c, outcome) == BaitedReceipt("STURDY", c, outcome)
SchoolReceipt(c, outcome) == BaitedReceipt("SCHOOL", c, outcome)

ReceiptOf(r, c, outcome) ==
    CASE r = "STARTER" -> StarterReceipt(c, outcome)
      [] r = "UNMODIFIED" -> UnmodifiedReceipt(c, outcome)
      [] r = "UNBREAKING" -> UnbreakingXReceipt(c, outcome)
      [] r = "STRENGTHEN" -> StrengthenReceipt(c, outcome)
      [] r = "SHARP_HOOK" -> SharpHookReceipt(c, outcome)
      [] r = "TREASURE" -> TreasureXReceipt(c, outcome)
      [] r = "BAIT_RACK" -> BaitRackReceipt(c, outcome)
      [] r = "MULTICATCH" -> MulticatchReceipt(c, outcome)
      [] r = "MULTI_TREASURE" -> MultiTreasureReceipt(c, outcome)
      [] r = "STURDY" -> SturdyReceipt(c, outcome)
      [] r = "SCHOOL" -> SchoolReceipt(c, outcome)

BooksPass(outcome, expected) == outcome.kind = "BOOK" => outcome.n \in expected \cap 1 .. 3

\* Ordinary wear for everything but a broken line, which destroys the rod.
WearPasses(outcome, ordinary) ==
    outcome.wear \in IF outcome.kind = "BROKEN" THEN {"LINE_BREAK"} ELSE ordinary

OneOfEach(outcome) ==
    /\ outcome.kind = "FISH" => outcome.n = 1
    /\ BooksPass(outcome, {1})
    /\ WearPasses(outcome, {"WORN"})

LevelPasses(receipt, e) == receipt.level \in 1 .. MaxLevel(e)

\* Mistaken: the count belongs to what was delivered.
CountOfLanded(outcome) ==
    /\ outcome.counted > 0 <=> outcome.kind = "FISH"
    /\ outcome.kind = "FISH" => outcome.n = outcome.counted

\* The count belongs to the fish branch and is what was delivered.
CountPasses(outcome) ==
    /\ outcome.counted > 0 <=> outcome.kind \in {"FISH", "BROKEN"}
    /\ outcome.kind = "FISH" => outcome.n = outcome.counted

ManyPass(outcome) ==
    CountPasses(outcome) /\ BooksPass(outcome, {1}) /\ WearPasses(outcome, {"WORN"})

BaitPasses(receipt, b) == receipt.plan.rack = 0 /\ receipt.plan.used = {b}

StarterChecks(receipt) == BooksPass(receipt.outcome, {1}) /\ receipt.outcome.kind # "BROKEN"
UnmodifiedChecks(receipt) == OneOfEach(receipt.outcome)
UnbreakingXChecks(receipt) ==
    BooksPass(receipt.outcome, {1}) /\ WearPasses(receipt.outcome, {"WORN", "SPARED"})
StrengthenChecks(receipt) == LevelPasses(receipt, "STRENGTHEN") /\ OneOfEach(receipt.outcome)
SharpHookChecks(receipt) == LevelPasses(receipt, "SHARP_HOOK") /\ OneOfEach(receipt.outcome)
TreasureXChecks(receipt) == OneOfEach(receipt.outcome)
BaitRackChecks(receipt) == LevelPasses(receipt, "BAIT_RACK") /\ OneOfEach(receipt.outcome)
MulticatchChecks(receipt) == LevelPasses(receipt, "MULTICATCH") /\ ManyPass(receipt.outcome)
MultiTreasureChecks(receipt) ==
    /\ LevelPasses(receipt, "MULTI_TREASURE")
    /\ receipt.outcome.kind = "FISH" => receipt.outcome.n = 1
    /\ BooksPass(receipt.outcome, 1 .. 3) /\ WearPasses(receipt.outcome, {"WORN"})
SturdyChecks(receipt) == BaitPasses(receipt, "STURDY") /\ OneOfEach(receipt.outcome)
SchoolChecks(receipt) == BaitPasses(receipt, "SCHOOL") /\ ManyPass(receipt.outcome)

\* A terminal takes no pending outcome.
Checks(receipt) ==
    /\ receipt.outcome.kind # "PENDING"
    /\ CASE receipt.route = "STARTER" -> StarterChecks(receipt)
         [] receipt.route = "UNMODIFIED" -> UnmodifiedChecks(receipt)
         [] receipt.route = "UNBREAKING" -> UnbreakingXChecks(receipt)
         [] receipt.route = "STRENGTHEN" -> StrengthenChecks(receipt)
         [] receipt.route = "SHARP_HOOK" -> SharpHookChecks(receipt)
         [] receipt.route = "TREASURE" -> TreasureXChecks(receipt)
         [] receipt.route = "BAIT_RACK" -> BaitRackChecks(receipt)
         [] receipt.route = "MULTICATCH" -> MulticatchChecks(receipt)
         [] receipt.route = "MULTI_TREASURE" -> MultiTreasureChecks(receipt)
         [] receipt.route = "STURDY" -> SturdyChecks(receipt)
         [] receipt.route = "SCHOOL" -> SchoolChecks(receipt)
=============================================================================
