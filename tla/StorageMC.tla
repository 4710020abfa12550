------------------------------- MODULE StorageMC -------------------------------
(***************************************************************************)
(* Small instances of Storage.  Coal stacks to two, ore does not stack;    *)
(* the Item Bag has three slots, the Catch Bag four grams.                 *)
(***************************************************************************)
EXTENDS Storage

Deliver(key, d, n) == [kind |-> "DELIVER", key |-> key, def |-> d, quantity |-> n]
Command(d, n) == [kind |-> "COMMAND", key |-> "command", def |-> d, quantity |-> n]
Consume(key, d, n) == [kind |-> "CONSUME", key |-> key, def |-> d, quantity |-> n]
Book(key) == [kind |-> "UNIQUE", key |-> key, bag |-> "ITEM_BAG", size |-> 1]
Fish(key, grams) == [kind |-> "FISH", key |-> key, bag |-> "CATCH_BAG", size |-> grams]
Claim(bag) == [kind |-> "CLAIM", key |-> bag, bag |-> bag]
Reservation(input, n, fuel, m) ==
    [kind |-> "RESERVE", key |-> "job",
     stacks |-> {[role |-> "INPUT", def |-> input, quantity |-> n],
                 [role |-> "FUEL", def |-> fuel, quantity |-> m]}]
Runtime(n, m) == [kind |-> "ATTACH", key |-> "runtime", units |-> n, fuel |-> m]

MCLimit == [d \in Defs |-> IF d = "coal" THEN 2 ELSE 1]
MCInitial == [d \in Defs |-> IF d = "coal" THEN 3 ELSE 0]

\* Two fish that fill the Catch Bag, or books of which the second must wait; a heavy
\* and a light fish more, or a stack that needs a slot; claims, the second after
\* coal is used that makes room; smelting with coal as input and as fuel, its runtime
\* as reserved or not; and a command that brings more ore than fits.
MCPlans ==
    [o \in Ops |->
       CASE o = "full" -> {<<Fish("slot0", 2), Fish("slot1", 2)>>, <<Book("slot0"), Book("slot1")>>}
         [] o = "cast" -> {<<Fish("slot0", 3), Fish("slot1", 2)>>, <<Deliver("slot0", "ore", 1)>>}
         [] o = "claim" -> {<<Claim("CATCH_BAG")>>, <<Consume("use", "coal", 1), Claim("ITEM_BAG")>>}
         [] o = "smelt" -> {<<Reservation("coal", 2, "coal", 1), Runtime(2, 1)>>,
                            <<Reservation("coal", 2, "coal", 1), Runtime(1, 2)>>}
         [] OTHER -> {<<Command("ore", 3)>>}]
=============================================================================
