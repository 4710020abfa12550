--------------------------- MODULE BankAlgorithms ---------------------------
(***************************************************************************)
(* The closed forms of BankRules against the loops of the code, and a fact *)
(* about fees that the rest of the Bank relies on.                         *)
(* The state is a table of lots, grown one lot at a time; the properties   *)
(* hold in every table and for every amount, time and interest tried.      *)
(***************************************************************************)
EXTENDS BankRules

CONSTANTS Times,      \* when lots are deposited and withdrawals begin
          Principals, \* the principal a lot may have left
          Amounts,    \* the gross amounts withdrawn
          Priors,     \* the gross amounts already withdrawn in 24 hours
          Surpluses,  \* further principal that decides the surcharge band
          MaxLots     \* bound on the number of lots

ASSUME TriedAssumption ==
    /\ Times \subseteq Nat /\ Principals \subseteq Nat
    /\ Amounts \subseteq Nat /\ Priors \subseteq Nat /\ Surpluses \subseteq Nat

VARIABLE lots

AddLot ==
    /\ Len(lots) < MaxLots
    /\ \E at \in Times, left \in Principals \cup {0} :
           lots' = Append(lots, [at |-> at, left |-> left])

Clear == Len(lots) = MaxLots /\ lots' = << >>

LotsInit == lots = << >>
LotsNext == AddLot \/ Clear
LotsSpec == LotsInit /\ [][LotsNext]_lots

---------------------------------------------------------------------------
(* The loops of the code.                                                  *)

\* The members of S in the order in which before[i] come before i.
Ordered(S, before) ==
    CHOOSE e \in [1 .. Cardinality(S) -> S] :
        \A m, n \in 1 .. Cardinality(S) : m < n => e[m] \in before[e[n]]

\* SELECT ... WHERE principal_remaining > 0 ORDER BY deposited_at, id.
Rows ==
    LET found == {i \in DOMAIN lots : lots[i].left > 0}
    IN  Ordered(found, [i \in found |->
            {j \in found : \/ lots[j].at < lots[i].at
                           \/ lots[j].at = lots[i].at /\ j < i}])

\* load_fifo_lot_debits: what remains to be taken after n rows.
Remaining(rows, amount) ==
    LET left[n \in 0 .. Len(rows)] ==
            IF n = 0 THEN amount
                     ELSE left[n - 1] - Lesser(lots[rows[n]].left, left[n - 1])
    IN  left

\* allocate_interest_to_lots: floors, then one unit to each of the first rows by
\* descending fraction.
Allocations(rows, interest, bank) ==
    LET share == [n \in DOMAIN rows |-> (interest * lots[rows[n]].left) \div bank]
        rest  == [n \in DOMAIN rows |-> (interest * lots[rows[n]].left) % bank]
        order == Ordered(DOMAIN rows, [n \in DOMAIN rows |->
                    {m \in DOMAIN rows : (rest[m] > rest[n]) \/ (rest[m] = rest[n] /\ m < n)}])
        left  == interest - SumFunction(share)
    IN  [n \in DOMAIN rows |->
            share[n] + (IF \E k \in 1 .. left : order[k] = n THEN 1 ELSE 0)]

Interests == 1 .. 3

---------------------------------------------------------------------------
(* Properties.                                                             *)

\* The withdrawal loop takes from each lot what FifoTake says, ends with nothing
\* remaining exactly when the lots cover the amount, and then leaves their
\* principal lower by just that amount.
WithdrawalLoop ==
    \A amount \in Amounts :
        LET rows == Rows
            left == Remaining(rows, amount)
        IN  /\ \A n \in DOMAIN rows :
                   FifoTake(lots, amount, rows[n]) = left[n - 1] - left[n]
            /\ (left[Len(rows)] = 0) <=> LotsCover(lots, amount)
            /\ LotsCover(lots, amount) =>
                   Principal(Debited(lots, amount)) = Principal(lots) - amount

\* The allocation loop gives each lot its InterestShare, the lots receive all of
\* the interest and no more, and every share is within one unit of its quota.
AllocationExact ==
    LET rows == Rows
        bank == Principal(lots)
    IN  bank > 0 =>
        \A interest \in Interests :
            LET share == Allocations(rows, interest, bank)
            IN  /\ \A n \in DOMAIN rows :
                    LET i == rows[n]
                        quota == interest * lots[i].left
                    IN  /\ InterestShare(lots, interest, bank, i) = share[n]
                        /\ share[n] * bank - quota \in (1 - bank) .. (bank - 1)
                /\ Principal(Credited(lots, interest, bank)) = bank + interest

FeeAt(amount, prior, surplus, time) ==
    WithdrawalFee(lots, amount, Principal(lots) + surplus, prior, time)

\* A withdrawal of at least the minimum always pays a fee and always leaves
\* something: the InvalidFee check and the CHECK fee_amount < gross_amount never
\* fire.
FeeBelowGross ==
    \A amount \in Amounts, prior \in Priors, surplus \in Surpluses, time \in Times :
        LotsCover(lots, amount) /\ amount >= MinWithdrawal =>
            FeeAt(amount, prior, surplus, time) \in 1 .. (amount - 1)

\* The two together: what a withdrawal takes from the lots, and from the player.
WithdrawalExact == WithdrawalLoop /\ FeeBelowGross
=============================================================================
