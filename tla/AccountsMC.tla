------------------------------ MODULE AccountsMC ------------------------------
(***************************************************************************)
(* Small instances of Accounts: one person, who has not registered, or has *)
(* an account at the cap or one point below it with a day's interest due.  *)
(***************************************************************************)
EXTENDS Accounts, TLC

CONSTANTS ann

\* An account of one grant, and what it was paid for it.
Grown(xp) ==
    LET reward == CumulativeReward[LevelOf(xp)]
    IN  [Created("past", 1, 0) EXCEPT
            !.xp = xp, !.wallet = reward,
            !.ledger = {[op |-> "past", kind |-> "LEVEL_REWARD", amount |-> reward]},
            !.events = <<[op |-> "past", key |-> "primary", kind |-> "ACCOUNT_XP",
                          asked |-> xp, amount |-> xp]>>]

Capped == Grown(XpCap)
Nearly == Grown(XpCap - 1)
MCStarts == {Absent, Nearly, Capped}
MCCapped == {Capped}

Register(v) == [kind |-> "REGISTER", person |-> ann, version |-> v]
Terms(v) == [kind |-> "TERMS", version |-> v]
Give(n) == [kind |-> "GRANT", person |-> ann, amount |-> n]
Reborns == [kind |-> "REBIRTH", person |-> ann]
Xp(n) == [kind |-> "XP", amount |-> n]
Activity(key, n) == [kind |-> "ACTIVITY", key |-> key, amount |-> n]
Pay(n) == [kind |-> "SPEND", amount |-> n]
Owned(plans) == [kind |-> "OWNED", person |-> ann, plans |-> plans]

\* A cast; a service that asks for its price before or after it grants experience,
\* and for another price when it is entered again.
Cast == Owned({<<Xp(2), Activity("aexp", 3)>>})
Service == Owned({<<Xp(2), Pay(500)>>, <<Pay(600), Activity("cost", -3)>>})

MCRequests == {Register(1), Terms(2), Give(250), Reborns, Cast, Service}
MCWaits == {Register(1), Terms(2), Terms(3), Reborns, Cast}
MCTerms == {Terms(1), Terms(2), Terms(3)}
Alike == Permutations(Keys) \cup Permutations(Sessions)
=============================================================================
