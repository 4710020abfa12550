------------------------------- MODULE FishingMC -------------------------------
(***************************************************************************)
(* Small instances of FishingCast.  A root says what an operation's draws  *)
(* give: FishRoot and HaulRoot land one fish, or several with the school   *)
(* bait; BreakRoot breaks a weak line, OverRoot catches more than the line *)
(* bears; GoodsRoot finds goods, BookRoot junk or a book under Treasure X, *)
(* BooksRoot books.                                                        *)
(***************************************************************************)
EXTENDS FishingCast

Lines(weak, strong) == [plain |-> weak, strong |-> strong, sturdy |-> strong, loaded |-> weak]
Luck == [branch |-> "FISH", richer |-> "FISH", book |-> FALSE, line |-> Lines("LANDED", "LANDED"),
         spared |-> TRUE, fish |-> 2, school |-> 2, goods |-> 2, grams |-> 2]

FishRoot == [Luck EXCEPT !.line.loaded = "BROKEN"]
HaulRoot == [Luck EXCEPT !.fish = 3]
BreakRoot == [Luck EXCEPT !.line = Lines("BROKEN", "LANDED"), !.spared = FALSE]
OverRoot == [Luck EXCEPT !.line = Lines("OVER", "BROKEN")]
GoodsRoot == [Luck EXCEPT !.branch = "TREASURE", !.richer = "TREASURE"]
BookRoot == [Luck EXCEPT !.branch = "JUNK", !.richer = "TREASURE", !.book = TRUE, !.goods = 3]
BooksRoot == [BookRoot EXCEPT !.branch = "TREASURE", !.spared = FALSE]

FewRoots == {HaulRoot, BreakRoot}
AllRoots == {FishRoot, HaulRoot, BreakRoot, OverRoot, GoodsRoot, BookRoot, BooksRoot}

Starter == [kind |-> "STARTER", tier |-> "WOOD", ench |-> <<>>, left |-> 0, max |-> 0]
Made(tier, ench, left) ==
    [kind |-> "ORDINARY", tier |-> tier, ench |-> ench, left |-> left, max |-> 2]
With(e, level) == Made("IRON", [x \in {e} |-> level], 2)

\* A rod that wears out and one that carries more baits.
TwoRods == [wood |-> Made("WOOD", <<>>, 2), rack |-> With("BAIT_RACK", 2)]

AllRods ==
    [basic |-> Starter, plain |-> Made("DIAMOND", <<>>, 1), gold |-> Made("GOLD", <<>>, 2),
     broken |-> Made("STONE", <<>>, 0),
     spare |-> With("UNBREAKING", 10), worn |-> With("UNBREAKING", 9),
     strong |-> With("STRENGTHEN", 4), sharp |-> With("SHARP_HOOK", 10),
     rich |-> With("TREASURE", 10), rack |-> With("BAIT_RACK", 3),
     many |-> With("MULTICATCH", 5), hoard |-> With("MULTI_TREASURE", 7),
     lure |-> With("LURE", 3),
     both |-> Made("IRON", [x \in {"STRENGTHEN", "MULTICATCH"} |-> 1], 2)]

MCStackLimit == [d \in Defs |-> 2]
MCInitial == [d \in Defs |-> IF d = "SCHOOL" THEN 2 ELSE IF d = "STURDY" THEN 1 ELSE 0]

SchoolOrNone == {{}, {"SCHOOL"}}
ManyBaits == {{}, {"SCHOOL"}, {"STURDY"}, {"SCHOOL", "STURDY"}, {"STURDY", "RARE"}}

Symmetry == Permutations(Sessions) \cup Permutations(Keys)
=============================================================================
