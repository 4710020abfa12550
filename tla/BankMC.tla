------------------------------- MODULE BankMC -------------------------------
(***************************************************************************)
(* Instances of Bank for TLC.                                              *)
(***************************************************************************)
EXTENDS Bank, TLC

CONSTANT p1

MCGrowth == [p \in Players |-> 1]
Deposit(p, amount) == [player |-> p, kind |-> "DEPOSIT", amount |-> amount]
Withdraw(p, amount) == [player |-> p, kind |-> "WITHDRAW", amount |-> amount]

\* A deposit that makes a lot of 30000, a withdrawal of a part of it, and one
\* below the minimum.
MCRequests == {Deposit(p1, 30000), Withdraw(p1, 25000), Withdraw(p1, 400)}

\* A withdrawal that needs two lots, the second of them only in part.
MCSpanning == {Deposit(p1, 30000), Withdraw(p1, 45000), Withdraw(p1, 400)}

\* Deposits of unequal lots: a day's interest of 2 on 50000 leaves a unit to
\* the larger fraction.
MCDeposits == {Deposit(p1, 30000), Deposit(p1, 20000)}

Symmetry == Permutations(Sessions) \cup Permutations(Keys)
=============================================================================
