------------------------------ MODULE BankRules ------------------------------
(***************************************************************************)
(* The arithmetic of the Bank: which deposit lots a withdrawal consumes,   *)
(* what fee it pays, and how one day's interest is computed and spread     *)
(* over the lots.  Source: crates/graphite-economy/src/{bank,fees,         *)
(* interest}.rs.                                                           *)
(*                                                                         *)
(* A lot is a row of bank_lots: when it was deposited and the principal    *)
(* that remains.  The lots of a player are a sequence in insertion order,  *)
(* the order of their UUIDv7 ids; the code reads them ORDER BY             *)
(* deposited_at, id.                                                       *)
(*                                                                         *)
(* The fee rates are those of the code.  Interest is computed there in     *)
(* units of 1/(10^6 * 2^32): Q32One stands for 2^32, so that TLC can use a *)
(* smaller scale.  Growth is the code's rebirth_growth_q32, a fraction of  *)
(* Q32One.                                                                 *)
(***************************************************************************)
EXTENDS Integers, Sequences, FiniteSets, Functions

CONSTANTS DayLength,   \* clock ticks in 24 hours
          Q32One,      \* the fixed-point unit of the interest arithmetic
          MaxCatchupDays  \* days one accrual may catch up (366 in the code)

ASSUME DayLengthAssumption == DayLength \in Nat \ {0}
ASSUME Q32OneAssumption == Q32One \in Nat \ {0}
ASSUME CatchupAssumption == MaxCatchupDays \in Nat \ {0}

MinWithdrawal == 500
FeeDenominator == 1000000
BaseInterestPpm == 40
BonusInterestPpm == 20
BonusTranche == 10000000
InterestDenominator == FeeDenominator * Q32One

Lesser(a, b) == IF a < b THEN a ELSE b
Greater(a, b) == IF a > b THEN a ELSE b
DayOf(time) == time \div DayLength

---------------------------------------------------------------------------
(* Deposit lots.                                                           *)

Active(lots) == {i \in DOMAIN lots : lots[i].left > 0}
LeftIn(lots, S) == SumFunction([i \in S |-> lots[i].left])
Principal(lots) == LeftIn(lots, Active(lots))

\* The active lots the code reads before lot i.
Ahead(lots, i) ==
    {j \in Active(lots) : \/ lots[j].at < lots[i].at
                          \/ lots[j].at = lots[i].at /\ j < i}

\* Mistaken: the lots inserted last are consumed first.
LastInFirstTake(lots, amount, i) ==
    Lesser(lots[i].left,
           Greater(0, amount - LeftIn(lots, {j \in Active(lots) : j > i})))

\* What a withdrawal of amount takes from lot i: whatever the lots ahead of
\* it could not cover, as far as the lot goes.
FifoTake(lots, amount, i) ==
    Lesser(lots[i].left, Greater(0, amount - LeftIn(lots, Ahead(lots, i))))

LotsCover(lots, amount) == Principal(lots) >= amount

\* Mistaken: the whole amount is taken from one lot.
DebitedOnce(lots, amount) ==
    [i \in DOMAIN lots |->
        IF i \in Active(lots) /\ Ahead(lots, i) = {}
        THEN [lots[i] EXCEPT !.left = Greater(0, @ - amount)]
        ELSE lots[i]]

Debited(lots, amount) ==
    [i \in DOMAIN lots |->
        IF i \in Active(lots)
        THEN [lots[i] EXCEPT !.left = @ - FifoTake(lots, amount, i)]
        ELSE lots[i]]

---------------------------------------------------------------------------
(* Withdrawal fee.                                                         *)

AgeFeePpm(age) ==
    CASE age < DayLength       -> 10000
      [] age < 7 * DayLength   -> 5000
      [] age < 14 * DayLength  -> 3250
      [] age < 30 * DayLength  -> 2000
      [] OTHER                 -> 1200

BalanceSurchargePpm(bank) ==
    CASE bank < 1000000    -> 0
      [] bank < 10000000   -> 200
      [] bank < 100000000  -> 400
      [] OTHER             -> 600

\* How much of prior .. prior + amount lies between start and stop.
Overlap(prior, amount, start, stop) ==
    Greater(0, Lesser(prior + amount, stop) - Greater(prior, start))

RollingMarginal(prior, amount) ==
      100 * Overlap(prior, amount, 100000, 1000000)
    + 250 * Overlap(prior, amount, 1000000, 10000000)
    + 500 * Greater(0, prior + amount - Greater(prior, 10000000))

\* Mistaken: rounds down.
FloorPpm(numerator) == numerator \div FeeDenominator

CeilPpm(numerator) == (numerator + (FeeDenominator - 1)) \div FeeDenominator

\* The lots' part of the fee numerator; a lot dated after now counts as new.
AgeNumerator(lots, amount, now) ==
    SumFunction([i \in Active(lots) |->
                    FifoTake(lots, amount, i)
                        * AgeFeePpm(Greater(0, now - lots[i].at))])

WithdrawalFee(lots, amount, bank, prior, now) ==
    CeilPpm(  AgeNumerator(lots, amount, now)
            + amount * BalanceSurchargePpm(bank)
            + RollingMarginal(prior, amount))

---------------------------------------------------------------------------
(* Daily interest.                                                         *)

InterestNumerator(bank, growth, remainder) ==
      bank * BaseInterestPpm * Q32One
    + Lesser(bank, BonusTranche) * BonusInterestPpm * growth
    + remainder

DailyInterest(bank, growth, remainder) ==
    InterestNumerator(bank, growth, remainder) \div InterestDenominator

RemainderAfter(bank, growth, remainder) ==
    InterestNumerator(bank, growth, remainder) % InterestDenominator

\* Largest-remainder shares: every active lot gets the floor of its quota, and
\* what is left over goes one unit each to the largest fractions, the lot read
\* first winning a tie.
FloorShare(lots, interest, bank, i) == (interest * lots[i].left) \div bank
Fraction(lots, interest, bank, i) == (interest * lots[i].left) % bank

RankedBefore(lots, interest, bank, i) ==
    {j \in Active(lots) :
        \/ Fraction(lots, interest, bank, j) > Fraction(lots, interest, bank, i)
        \/ /\ Fraction(lots, interest, bank, j) = Fraction(lots, interest, bank, i)
           /\ j \in Ahead(lots, i)}

Leftover(lots, interest, bank) ==
    interest - SumFunction([i \in Active(lots) |->
                               FloorShare(lots, interest, bank, i)])

\* Mistaken: nobody receives what the rounding leaves over.
RoundedShare(lots, interest, bank, i) == FloorShare(lots, interest, bank, i)

InterestShare(lots, interest, bank, i) ==
    FloorShare(lots, interest, bank, i)
      + (IF Cardinality(RankedBefore(lots, interest, bank, i))
              < Leftover(lots, interest, bank)
         THEN 1 ELSE 0)

Credited(lots, interest, bank) ==
    [i \in DOMAIN lots |->
        IF i \in Active(lots)
        THEN [lots[i] EXCEPT !.left = @ + InterestShare(lots, interest, bank, i)]
        ELSE lots[i]]

\* One day of accrual on the part of an account that interest changes.
OneDay(a, growth) ==
    LET interest == DailyInterest(a.bank, growth, a.remainder)
    IN  [bank |-> a.bank + interest,
         lots |-> IF interest > 0 THEN Credited(a.lots, interest, a.bank)
                                  ELSE a.lots,
         remainder |-> RemainderAfter(a.bank, growth, a.remainder)]

\* The compounding of the catch-up loop: CatchUp(a, growth, n)[k] is the
\* account after k of the n days.
CatchUp(a, growth, n) ==
    LET after[k \in 0 .. n] ==
            IF k = 0 THEN [bank |-> a.bank, lots |-> a.lots,
                           remainder |-> a.remainder]
                     ELSE OneDay(after[k - 1], growth)
    IN  after
=============================================================================
