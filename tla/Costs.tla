--------------------------------- MODULE Costs ---------------------------------
(***************************************************************************)
(* Algorithms of the progression and service policies against what they    *)
(* are meant to compute: the search for an Activity level, the price of a  *)
(* +N attempt with its arithmetic on decimal digits, and the price of a    *)
(* repair.  The state is a number, tried as points, appraisal and wear.    *)
(***************************************************************************)
EXTENDS Integers, SequencesExt

CONSTANTS MaxTried   \* bound on the number tried

VARIABLE tried

CostsInit == tried = 0
CostsNext == tried < MaxTried /\ tried' = tried + 1
CostsSpec == CostsInit /\ [][CostsNext]_tried

\* Powers, by the recursion that their laws are proved from.
Power(b, n) ==
    LET power[i \in 0 .. n] == IF i = 0 THEN 1 ELSE b * power[i - 1]
    IN  power[n]

---------------------------------------------------------------------------
(* Activity levels: activity_progress.                                     *)

ActivityTotal(level) ==
    IF level <= 16 THEN level * level + 6 * level
    ELSE IF level <= 31 THEN (5 * level * level - 81 * level + 720) \div 2
    ELSE (9 * level * level - 325 * level + 4440) \div 2

ActivityToNext(level) ==
    IF level <= 15 THEN 2 * level + 7
    ELSE IF level <= 30 THEN 5 * level - 38
    ELSE 9 * level - 158

\* How often the loop doubles high until its total is beyond the points.
Doublings(points) ==
    CHOOSE n \in 0 .. points : /\ ActivityTotal(Power(2, n)) > points
                               /\ \A m \in 0 .. n - 1 : ActivityTotal(Power(2, m)) <= points

\* Mistaken: a level is reached one point after its total.
StepAbove(points, low, width) ==
    IF ActivityTotal(low + width) < points THEN low + width ELSE low

StepUp(points, low, width) ==
    IF ActivityTotal(low + width) <= points THEN low + width ELSE low

\* The loop that halves the distance of high and low.  Its first step finds low where
\* the doubling left it, at half of high or at 0.
ActivityLevel(points) ==
    LET n == Doublings(points)
        low[i \in 0 .. n] == IF i = 0 THEN 0 ELSE StepUp(points, low[i - 1], Power(2, n - i))
    IN  low[n]

---------------------------------------------------------------------------
(* The money of a +N attempt: upgrade_money_cost.                          *)

Rates == <<5, 6, 8, 10, 13, 17, 22, 28, 36, 45, 60, 80, 110, 160, 240, 360, 550, 850, 1300, 2000>>

RoundHalfUp(n, d) == n \div d + (IF 2 * (n % d) >= d THEN 1 ELSE 0)

\* Decimal digits, the least first.
DigitsOf(n) ==
    [i \in 1 .. CHOOSE k \in 1 .. n + 1 : n < Power(10, k) /\ (k > 1 => n >= Power(10, k - 1))
            |-> (n \div Power(10, i - 1)) % 10]

\* Mistaken: what is carried out of the last digit is one digit.
MultipliedOneCarry(digits, m) ==
    LET carry[i \in 0 .. Len(digits)] ==
            IF i = 0 THEN 0 ELSE (digits[i] * m + carry[i - 1]) \div 10
    IN  [i \in DOMAIN digits |-> (digits[i] * m + carry[i - 1]) % 10]
            \o <<carry[Len(digits)] % 10>>

Multiplied(digits, m) ==
    LET carry[i \in 0 .. Len(digits)] ==
            IF i = 0 THEN 0 ELSE (digits[i] * m + carry[i - 1]) \div 10
    IN  [i \in DOMAIN digits |-> (digits[i] * m + carry[i - 1]) % 10]
            \o (IF carry[Len(digits)] = 0 THEN <<>> ELSE DigitsOf(carry[Len(digits)]))

MultipliedOften(digits, m, exponent) ==
    LET product[i \in 0 .. exponent] ==
            IF i = 0 THEN digits ELSE Multiplied(product[i - 1], m)
    IN  product[exponent]

\* The number that the digits after the first shift make, read from the last.
IntegerPart(digits, shift) ==
    LET value[i \in 0 .. Len(digits)] ==
            IF i = 0 THEN 0 ELSE 10 * value[i - 1] + digits[Len(digits) + 1 - i]
    IN  IF Len(digits) <= shift THEN 0 ELSE value[Len(digits) - shift]

AtLeastHalf(digits, shift) == shift \in DOMAIN digits /\ digits[shift] >= 5

TableCost(appraisal, target) == RoundHalfUp(appraisal * Rates[target], 100000) * 100

ContinuationCost(appraisal, exponent) ==
    LET digits == MultipliedOften(DigitsOf(2 * appraisal), 135, exponent)
        shift == 2 * exponent + 2
    IN  IF appraisal = 0 THEN 0
        ELSE (IntegerPart(digits, shift) + (IF AtLeastHalf(digits, shift) THEN 1 ELSE 0)) * 100

UpgradeCost(appraisal, target) ==
    IF target <= 20 THEN TableCost(appraisal, target) ELSE ContinuationCost(appraisal, target - 20)

---------------------------------------------------------------------------
(* Repairs: preview_full_repair and repair_cancel_refund.                  *)

RepairRatios == {10, 11, 13, 25, 14, 16, 18, 20, 23}   \* percent, of Wood to Graphite
BaseUnits == {2, 3, 4}                                \* of the equipment slots

UpperQuotient(a, b) == a \div b + (IF a % b # 0 THEN 1 ELSE 0)

RepairMoney(appraisal, ratio, missing, full) ==
    LET n == appraisal * ratio * missing
        d == 100 * full
    IN  IF n < 100 * d THEN 100 ELSE ((n + 50 * d) \div (100 * d)) * 100

\* Mistaken: a fraction of a unit is free.
RepairUnitsDown(base, missing, full) == (base * missing) \div full

RepairUnits(base, missing, full) == UpperQuotient(base * missing, full)

CancelRefund(units) == (units * 4) \div 5

---------------------------------------------------------------------------
(* Properties.                                                             *)

\* The doubling and halving search finds the level whose points are reached and
\* whose next level's are not, across the seams of the three curves, and the points
\* to the next level are the distance of the two totals (activity_progress).
ActivityLevelExact ==
    LET level == ActivityLevel(tried)
    IN  /\ ActivityTotal(level) <= tried /\ tried < ActivityTotal(level + 1)
        /\ ActivityToNext(level) = ActivityTotal(level + 1) - ActivityTotal(level)

Exponents == 1 .. 3

\* Beyond +20 the digits give the appraisal times 2 times 1.35 to the exponent,
\* rounded once, half up, to hundreds; and no attempt is cheaper than one at a lower
\* level, on the table, on its continuation and where they meet (upgrade_money_cost).
UpgradeCostExact ==
    /\ \A e \in Exponents :
           ContinuationCost(tried, e) = RoundHalfUp(2 * tried * 135 ^ e, 100 ^ (e + 1)) * 100
    /\ \A target \in 1 .. 20 + Max(Exponents) - 1 :
           UpgradeCost(tried * 1000, target) <= UpgradeCost(tried * 1000, target + 1)

Durability == 24
Appraisals == {900, 10000, 12345}

\* A repair made in two pieces takes at least the material of the whole, and costs at
\* most a hundred less, what the rounding of the pieces can save; a repair confirmed
\* and cancelled returns less than was put in (preview_full_repair,
\* repair_cancel_refund).
RepairInPieces ==
    LET first == tried % Durability
    IN  first > 0 => \A second \in 1 .. Durability - first :
            /\ \A base \in BaseUnits :
                   LET whole == RepairUnits(base, first + second, Durability)
                   IN  /\ RepairUnits(base, first, Durability)
                              + RepairUnits(base, second, Durability) >= whole
                       /\ whole \in 1 .. base
                       /\ CancelRefund(whole) < whole
            /\ \A ratio \in RepairRatios, appraisal \in Appraisals :
                   RepairMoney(appraisal, ratio, first, Durability)
                       + RepairMoney(appraisal, ratio, second, Durability)
                       >= RepairMoney(appraisal, ratio, first + second, Durability) - 100
=============================================================================
