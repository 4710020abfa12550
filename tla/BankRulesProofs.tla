---------------------------- MODULE BankRulesProofs ----------------------------
(***************************************************************************)
(* The arithmetic of the Bank: proofs that a withdrawal takes just its     *)
(* amount from the lots, oldest first, that a day's interest is shared out *)
(* to the last unit, and that a catch-up pays every one of its days.       *)
(***************************************************************************)
EXTENDS BankRules, SumTheorems

---------------------------------------------------------------------------
(* Lots.                                                                   *)

\* A lot while a transaction computes: no column bounds it yet.
OpenLot == [at : Nat, left : Nat]
Lefts(lots) == [i \in DOMAIN lots |-> lots[i].left]

\* The lots of an account are a finite sequence, and those ahead of a lot are among the
\* active ones.
LEMMA LotsFacts ==
    ASSUME NEW lots \in Seq(OpenLot)
    PROVE  /\ IsFiniteSet(DOMAIN lots) /\ DOMAIN lots \subseteq Nat
           /\ \A i \in DOMAIN lots : /\ lots[i] \in OpenLot
                                     /\ lots[i].at \in Nat /\ lots[i].left \in Nat
                                     /\ Lefts(lots)[i] = lots[i].left
           /\ Active(lots) \in SUBSET DOMAIN lots
           /\ \A i \in DOMAIN lots : Ahead(lots, i) \in SUBSET Active(lots)
<1>1. DOMAIN lots = 1 .. Len(lots) /\ Len(lots) \in Nat
  OBVIOUS
<1>2. IsFiniteSet(DOMAIN lots)
  BY <1>1, FS_Interval
<1>3. \A i \in DOMAIN lots : /\ lots[i] \in OpenLot
                             /\ lots[i].at \in Nat /\ lots[i].left \in Nat
                             /\ Lefts(lots)[i] = lots[i].left
  <2> SUFFICES ASSUME NEW i \in DOMAIN lots
               PROVE  /\ lots[i] \in OpenLot
                      /\ lots[i].at \in Nat /\ lots[i].left \in Nat
                      /\ Lefts(lots)[i] = lots[i].left
    OBVIOUS
  <2>1. lots[i] \in OpenLot
    BY <1>1
  <2>2. Lefts(lots)[i] = lots[i].left
    BY DEF Lefts
  <2> QED
    BY <2>1, <2>2 DEF OpenLot
<1> QED
  BY <1>1, <1>2, <1>3 DEF Active, Ahead

\* LeftIn is a sum over one function of the lots.
LEMMA LeftInSum ==
    ASSUME NEW lots \in Seq(OpenLot), NEW S \in SUBSET DOMAIN lots
    PROVE  /\ IsFiniteSet(S)
           /\ LeftIn(lots, S) = SumFunctionOnSet(Lefts(lots), S)
           /\ LeftIn(lots, S) \in Nat
<1> DEFINE part == [i \in S |-> lots[i].left]
<1>1. IsFiniteSet(S)
  BY LotsFacts, FS_Subset
<1>2. \A i \in S : Lefts(lots)[i] \in Nat /\ Lefts(lots)[i] \in Int /\ part[i] = Lefts(lots)[i]
  BY LotsFacts
<1>3. LeftIn(lots, S) = SumFunctionOnSet(part, S)
  BY DEF LeftIn, SumFunction
<1> HIDE DEF part
<1>4. SumFunctionOnSet(part, S) = SumFunctionOnSet(Lefts(lots), S)
  BY <1>1, <1>2, SumSame
<1>5. SumFunctionOnSet(Lefts(lots), S) \in Nat
  BY <1>1, <1>2, SumNat
<1> QED
  BY <1>1, <1>3, <1>4, <1>5

\* Empty lots do not count.
LEMMA PrincipalSum ==
    ASSUME NEW lots \in Seq(OpenLot)
    PROVE  /\ Principal(lots) = SumFunctionOnSet(Lefts(lots), DOMAIN lots)
           /\ Principal(lots) \in Nat
<1> DEFINE D == DOMAIN lots
           A == Active(lots)
           f == Lefts(lots)
<1>1. /\ IsFiniteSet(D) /\ A \in SUBSET D /\ IsFiniteSet(D \ A)
      /\ \A i \in D : f[i] = lots[i].left /\ f[i] \in Nat /\ f[i] \in Int
  <2>1. D \ A \in SUBSET D
    OBVIOUS
  <2> QED
    BY <2>1, LotsFacts, FS_Subset
<1>2. \A i \in D \ A : f[i] = 0
  BY <1>1 DEF Active
<1>3. LeftIn(lots, A) = SumFunctionOnSet(f, A) /\ LeftIn(lots, A) \in Nat
  BY <1>1, LeftInSum
<1> HIDE DEF D, A, f
<1>4. SumFunctionOnSet(f, D) = SumFunctionOnSet(f, A) + SumFunctionOnSet(f, D \ A)
  BY <1>1, SumSplit
<1>5. SumFunctionOnSet(f, D \ A) = 0
  BY <1>1, <1>2, SumZero
<1> QED
  BY <1>3, <1>4, <1>5 DEF Principal, D, A, f

\* The order in which the code reads the active lots.
LEMMA AheadOrders ==
    ASSUME NEW lots \in Seq(OpenLot)
    PROVE  TotalOrder([i \in Active(lots) |-> Ahead(lots, i)], Active(lots))
<1>1. \A i \in Active(lots) : i \in Nat /\ lots[i].at \in Nat
  BY LotsFacts
<1>2. \A i, j \in Active(lots) :
          i \in Ahead(lots, j) <=> \/ lots[i].at < lots[j].at
                                   \/ lots[i].at = lots[j].at /\ i < j
  BY DEF Ahead
<1>3. \A i \in Active(lots) : Ahead(lots, i) \subseteq Active(lots)
  BY DEF Ahead
<1> DEFINE A == Active(lots)
           before == [i \in A |-> Ahead(lots, i)]
<1>4. \A i \in A : before[i] = Ahead(lots, i)
  OBVIOUS
<1> HIDE DEF before
<1>5. \A i \in A : before[i] \subseteq A /\ i \notin before[i]
  BY <1>1, <1>2, <1>3, <1>4
<1>6. \A i, j \in A : i # j => i \in before[j] \/ j \in before[i]
  BY <1>1, <1>2, <1>4
<1>7. ASSUME NEW i \in A, NEW j \in A, i \in before[j], NEW k \in before[i]
      PROVE  k \in before[j]
  <2>1. k \in A
    BY <1>5
  <2> QED BY <1>1, <1>2, <1>4, <1>7, <2>1
<1> QED BY <1>5, <1>6, <1>7 DEF TotalOrder, before

---------------------------------------------------------------------------
(* A withdrawal takes its amount from the lots, oldest first.              *)

\* The lots of a beginning of the reading order give their principal up to the
\* amount.
LEMMA FifoCovers ==
    ASSUME NEW lots \in Seq(OpenLot), NEW amount \in Nat
    PROVE  LET take == [i \in DOMAIN lots |-> FifoTake(lots, amount, i)]
           IN  /\ \A i \in Active(lots) : take[i] \in 0 .. lots[i].left
               /\ SumFunctionOnSet(take, Active(lots)) =
                    Lesser(amount, Principal(lots))
<1> DEFINE A == Active(lots)
           take == [i \in DOMAIN lots |-> FifoTake(lots, amount, i)]
           before == [i \in A |-> Ahead(lots, i)]
           B == {S \in SUBSET A : SumFunctionOnSet(take, S) = Lesser(amount, LeftIn(lots, S))}
<1>1. /\ A \in SUBSET DOMAIN lots /\ IsFiniteSet(A)
      /\ \A i \in A : lots[i].left \in Nat
      /\ \A i \in A : Ahead(lots, i) \in SUBSET A
  BY LotsFacts, FS_Subset
<1>2. ASSUME NEW S \in SUBSET A
      PROVE  IsFiniteSet(S) /\ LeftIn(lots, S) \in Nat
  BY <1>1, LeftInSum
<1>3. ASSUME NEW i \in A
      PROVE  /\ take[i] = Lesser(lots[i].left, Greater(0, amount - LeftIn(lots, Ahead(lots, i))))
             /\ take[i] \in 0 .. lots[i].left /\ take[i] \in Int
  <2>1. take[i] = Lesser(lots[i].left, Greater(0, amount - LeftIn(lots, Ahead(lots, i))))
    BY <1>1 DEF FifoTake
  <2>2. LeftIn(lots, Ahead(lots, i)) \in Nat /\ lots[i].left \in Nat
    BY <1>1, <1>2
  <2> HIDE DEF take, A
  <2> QED
    BY <2>1, <2>2 DEF Lesser, Greater
<1>4. {} \in B
  <2>1. LeftIn(lots, {}) = 0
    BY <1>1, LeftInSum, SumEmpty
  <2> QED
    BY <2>1, SumEmpty DEF Lesser
<1>5. ASSUME NEW i \in A, before[i] \in B
      PROVE  before[i] \cup {i} \in B
  <2> DEFINE S == Ahead(lots, i)
             T == S \cup {i}
  <2>1. S \in SUBSET A /\ T \in SUBSET A /\ i \notin S /\ IsFiniteSet(S)
    <3>1. i \notin S
      BY <1>1, LotsFacts DEF Ahead
    <3> QED
      BY <1>1, <1>2, <3>1
  <2>2. \A j \in A : Lefts(lots)[j] \in Int /\ Lefts(lots)[j] = lots[j].left
    BY <1>1, LotsFacts
  <2>3. LeftIn(lots, T) = LeftIn(lots, S) + lots[i].left
    <3>1. /\ LeftIn(lots, T) = SumFunctionOnSet(Lefts(lots), T)
          /\ LeftIn(lots, S) = SumFunctionOnSet(Lefts(lots), S)
      <4>1. S \in SUBSET DOMAIN lots /\ T \in SUBSET DOMAIN lots
        BY <1>1, <2>1
      <4> HIDE DEF S, T
      <4> QED
        BY <4>1, LeftInSum
    <3>2. SumFunctionOnSet(Lefts(lots), S \cup {i}) = SumFunctionOnSet(Lefts(lots), S) + Lefts(lots)[i]
      <4> HIDE DEF S, A
      <4> QED
        BY <2>1, <2>2, SumAdd
    <3> QED
      BY <2>2, <3>1, <3>2
  <2>4. SumFunctionOnSet(take, T) = SumFunctionOnSet(take, S) + take[i]
    <3> HIDE DEF S, A, take
    <3> QED
      BY <1>3, <2>1, SumAdd DEF T
  <2>5. SumFunctionOnSet(take, S) = Lesser(amount, LeftIn(lots, S))
    BY <1>5
  <2>6. LeftIn(lots, S) \in Nat /\ lots[i].left \in Nat
    BY <1>1, <1>2, <2>1
  <2>7. SumFunctionOnSet(take, T) = Lesser(amount, LeftIn(lots, T))
    <3>1. take[i] = Lesser(lots[i].left, Greater(0, amount - LeftIn(lots, S)))
      BY <1>3
    <3> HIDE DEF S, T, A, take
    <3> QED
      BY <2>3, <2>4, <2>5, <2>6, <3>1 DEF Lesser, Greater
  <2> QED
    BY <2>1, <2>7
<1>6. A \in B
  <2>1. TotalOrder(before, A)
    BY AheadOrders
  <2> HIDE DEF A, B, before
  <2> QED
    BY <1>1, <1>4, <1>5, <2>1, SegmentInduction
<1>7. SumFunctionOnSet(take, A) = Lesser(amount, Principal(lots))
  BY <1>6 DEF Principal
<1> QED
  BY <1>3, <1>7

\* A debit takes from each active lot what is its turn, and leaves the others.
LEMMA DebitedLots ==
    ASSUME NEW lots \in Seq(OpenLot), NEW amount \in Nat
    PROVE  /\ Debited(lots, amount) \in Seq(OpenLot)
           /\ DOMAIN Debited(lots, amount) = DOMAIN lots
           /\ \A i \in DOMAIN lots : Debited(lots, amount)[i].left =
                 IF i \in Active(lots) THEN lots[i].left - FifoTake(lots, amount, i)
                                       ELSE lots[i].left
<1> DEFINE new == Debited(lots, amount)
<1>1. DOMAIN lots = 1 .. Len(lots) /\ Len(lots) \in Nat
  OBVIOUS
<1>2. ASSUME NEW i \in DOMAIN lots
      PROVE  /\ new[i] \in OpenLot
             /\ new[i].left = IF i \in Active(lots) THEN lots[i].left - FifoTake(lots, amount, i)
                                                    ELSE lots[i].left
  <2>1. lots[i] \in OpenLot
    BY LotsFacts
  <2>2. CASE i \in Active(lots)
    <3>1. new[i] = [lots[i] EXCEPT !.left = @ - FifoTake(lots, amount, i)]
      BY <2>2 DEF Debited
    <3>2. FifoTake(lots, amount, i) \in 0 .. lots[i].left
      BY <2>2, FifoCovers
    <3> HIDE DEF new
    <3> QED
      <4> DEFINE take == FifoTake(lots, amount, i)
      <4>1. take \in 0 .. lots[i].left
        BY <3>2
      <4>2. new[i] = [lots[i] EXCEPT !.left = @ - take]
        BY <3>1
      <4> HIDE DEF take
      <4>3. lots[i].left \in Nat /\ lots[i].left - take \in Nat
        BY <2>1, <4>1 DEF OpenLot
      <4> DEFINE left == lots[i].left - take
      <4>4. new[i] = [lots[i] EXCEPT !.left = left] /\ left \in Nat
        BY <4>2, <4>3
      <4> HIDE DEF left
      <4>5. new[i].left = left /\ new[i] \in OpenLot
        BY <2>1, <4>4 DEF OpenLot
      <4> QED BY <2>2, <4>5 DEF take, left
  <2>3. CASE i \notin Active(lots)
    BY <2>1, <2>3 DEF Debited
  <2> QED
    BY <2>2, <2>3
<1>3. DOMAIN new = DOMAIN lots
  BY DEF Debited
<1>4. new = [i \in 1 .. Len(lots) |-> new[i]]
  BY <1>1 DEF Debited
<1> HIDE DEF new
<1>5. new \in Seq(OpenLot)
  BY <1>1, <1>2, <1>4
<1> QED
  BY <1>2, <1>3, <1>5 DEF new

\* A withdrawal that the lots cover lowers their principal by just its amount
\* (load_fifo_lot_debits).
THEOREM DebitExact ==
    ASSUME NEW lots \in Seq(OpenLot), NEW amount \in Nat, LotsCover(lots, amount)
    PROVE  Principal(Debited(lots, amount)) = Principal(lots) - amount
<1> DEFINE new == Debited(lots, amount)
           D == DOMAIN lots
           A == Active(lots)
           take == [i \in D |-> FifoTake(lots, amount, i)]
           taken == [i \in D |-> IF i \in A THEN take[i] ELSE 0]
<1>1. /\ IsFiniteSet(D) /\ A \in SUBSET D /\ IsFiniteSet(A) /\ IsFiniteSet(D \ A)
      /\ \A i \in D : lots[i].left \in Int /\ Lefts(lots)[i] = lots[i].left
  <2>1. D \ A \in SUBSET D
    OBVIOUS
  <2> QED
    BY <2>1, LotsFacts, FS_Subset
<1>2. /\ \A i \in A : take[i] \in Int
      /\ SumFunctionOnSet(take, A) = Lesser(amount, Principal(lots))
  <2>1. /\ \A i \in A : take[i] \in 0 .. lots[i].left
        /\ SumFunctionOnSet(take, A) = Lesser(amount, Principal(lots))
    BY FifoCovers
  <2> HIDE DEF take
  <2> QED
    BY <2>1
<1>3. /\ new \in Seq(OpenLot) /\ DOMAIN new = D
      /\ \A i \in D : new[i].left = lots[i].left - taken[i]
  <2>1. /\ new \in Seq(OpenLot) /\ DOMAIN new = D
        /\ \A i \in D : new[i].left = IF i \in A THEN lots[i].left - take[i] ELSE lots[i].left
    BY DebitedLots
  <2> HIDE DEF new, A, take, D
  <2> QED
    BY <1>1, <2>1
<1>4. \A i \in D : Lefts(new)[i] = new[i].left
  BY <1>3, LotsFacts
<1>5. /\ \A i \in A : taken[i] = take[i]
      /\ \A i \in D \ A : taken[i] = 0
      /\ \A i \in D : taken[i] \in Int
  <2> HIDE DEF take, A
  <2> QED
    BY <1>1, <1>2
<1>6. Principal(lots) = SumFunctionOnSet(Lefts(lots), D) /\ Principal(lots) \in Nat
  BY PrincipalSum
<1>7. Principal(new) = SumFunctionOnSet(Lefts(new), D) /\ Principal(new) \in Nat
  BY <1>3, PrincipalSum
<1> HIDE DEF D, A, take, taken, new
<1>8. SumFunctionOnSet(taken, D) = SumFunctionOnSet(taken, A) + SumFunctionOnSet(taken, D \ A)
  BY <1>1, <1>5, SumSplit
<1>9. SumFunctionOnSet(taken, A) = SumFunctionOnSet(take, A)
  BY <1>1, <1>2, <1>5, SumSame
<1>10. SumFunctionOnSet(taken, D \ A) = 0
  BY <1>1, <1>5, SumZero
<1>11. \A i \in D : /\ Lefts(new)[i] \in Int /\ taken[i] \in Int
                    /\ Lefts(lots)[i] = Lefts(new)[i] + taken[i]
  BY <1>1, <1>3, <1>4, <1>5
<1>12. SumFunctionOnSet(Lefts(lots), D) =
         SumFunctionOnSet(Lefts(new), D) + SumFunctionOnSet(taken, D)
  BY <1>1, <1>11, SumPlus
<1>13. Principal(lots) = Principal(new) + amount
  BY <1>2, <1>6, <1>7, <1>8, <1>9, <1>10, <1>12 DEF LotsCover, Lesser
<1> QED
  BY <1>6, <1>7, <1>13 DEF new

\* A lot loses something only when every lot read before it ends empty.
LEMMA DebitInOrder ==
    ASSUME NEW lots \in Seq(OpenLot), NEW amount \in Nat,
           NEW i \in DOMAIN lots, Debited(lots, amount)[i].left < lots[i].left,
           NEW j \in Ahead(lots, i)
    PROVE  Debited(lots, amount)[j].left = 0
<1> DEFINE f == Lefts(lots)
           before(k) == Ahead(lots, k)
<1>1. /\ i \in DOMAIN lots /\ j \in DOMAIN lots /\ j \in Active(lots)
      /\ lots[i].left \in Nat /\ lots[j].left \in Nat
      /\ \A k \in DOMAIN lots : f[k] = lots[k].left /\ f[k] \in Nat /\ f[k] \in Int
  BY LotsFacts
<1>2. i \in Active(lots) /\ FifoTake(lots, amount, i) # 0
  <2>1. Debited(lots, amount)[i].left =
          IF i \in Active(lots) THEN lots[i].left - FifoTake(lots, amount, i)
                                ELSE lots[i].left
    BY DebitedLots
  <2> HIDE DEF f
  <2> QED
    BY <1>1, <2>1
<1>3. /\ before(i) \in SUBSET DOMAIN lots /\ before(j) \in SUBSET DOMAIN lots
      /\ IsFiniteSet(before(i)) /\ IsFiniteSet(before(j))
  <2>1. before(i) \in SUBSET DOMAIN lots /\ before(j) \in SUBSET DOMAIN lots
    BY <1>1, LotsFacts
  <2> QED
    BY <2>1, LeftInSum
<1>4. j \notin before(j) /\ before(j) \cup {j} \in SUBSET before(i)
  <2>1. TotalOrder([k \in Active(lots) |-> Ahead(lots, k)], Active(lots))
    BY AheadOrders
  <2> QED
    BY <1>1, <1>2, <2>1 DEF TotalOrder
<1>5. /\ LeftIn(lots, before(i)) = SumFunctionOnSet(f, before(i))
      /\ LeftIn(lots, before(j)) = SumFunctionOnSet(f, before(j))
      /\ LeftIn(lots, before(i)) \in Nat /\ LeftIn(lots, before(j)) \in Nat
  BY <1>3, LeftInSum
<1> HIDE DEF f, before
<1>6. SumFunctionOnSet(f, before(j) \cup {j}) = SumFunctionOnSet(f, before(j)) + f[j]
  BY <1>1, <1>3, <1>4, SumAdd
<1>7. SumFunctionOnSet(f, before(j) \cup {j}) <= SumFunctionOnSet(f, before(i))
  BY <1>1, <1>3, <1>4, SumPart
<1>8. LeftIn(lots, before(j)) + lots[j].left <= LeftIn(lots, before(i))
  BY <1>1, <1>5, <1>6, <1>7
<1>9. LeftIn(lots, before(i)) < amount
  BY <1>1, <1>2, <1>5 DEF FifoTake, Lesser, Greater, before
<1>10. FifoTake(lots, amount, j) = lots[j].left
  BY <1>1, <1>5, <1>8, <1>9 DEF FifoTake, Lesser, Greater, before
<1>11. Debited(lots, amount)[j].left = lots[j].left - FifoTake(lots, amount, j)
  BY <1>1, DebitedLots
<1> QED
  BY <1>1, <1>10, <1>11

---------------------------------------------------------------------------
(* A day's interest is shared out to the last unit.                        *)

\* The order in which lots receive the units that the rounding leaves over.
LEMMA RanksOrder ==
    ASSUME NEW lots \in Seq(OpenLot), NEW interest \in Nat, NEW bank \in Nat \ {0}
    PROVE  TotalOrder([i \in Active(lots) |-> RankedBefore(lots, interest, bank, i)],
                      Active(lots))
<1> DEFINE A == Active(lots)
           frac == [i \in A |-> Fraction(lots, interest, bank, i)]
<1>1. ASSUME NEW i \in A PROVE frac[i] \in Nat
  <2>1. lots[i].left \in Nat
    BY LotsFacts
  <2> DEFINE q == interest * lots[i].left
  <2>2. q \in Nat /\ frac[i] = q % bank
    BY <2>1 DEF Fraction
  <2> HIDE DEF q
  <2>3. q % bank \in Nat
    BY <2>2, Division
  <2> QED
    BY <2>2, <2>3
<1>2. \A i, j \in A : j \in RankedBefore(lots, interest, bank, i) <=>
          frac[j] > frac[i] \/ (frac[j] = frac[i] /\ j \in Ahead(lots, i))
  BY DEF RankedBefore
<1>3. TotalOrder([i \in A |-> Ahead(lots, i)], A)
  BY AheadOrders
<1>4. /\ \A i \in A : i \notin Ahead(lots, i)
      /\ \A i, j \in A : i # j => i \in Ahead(lots, j) \/ j \in Ahead(lots, i)
      /\ \A i, j, k \in A : i \in Ahead(lots, j) /\ k \in Ahead(lots, i) => k \in Ahead(lots, j)
  BY <1>3 DEF TotalOrder
<1>5. \A i \in A : RankedBefore(lots, interest, bank, i) \subseteq A
  BY DEF RankedBefore
<1> HIDE DEF A, frac
<1> QED
  BY <1>1, <1>2, <1>4, <1>5 DEF TotalOrder, A

\* What the rounding leaves over is no more than one unit for each lot.
LEMMA LeftoverBounds ==
    ASSUME NEW lots \in Seq(OpenLot), NEW interest \in Nat, NEW bank \in Nat \ {0},
           Principal(lots) = bank
    PROVE  LET floor == [i \in Active(lots) |-> FloorShare(lots, interest, bank, i)]
               frac == [i \in Active(lots) |-> Fraction(lots, interest, bank, i)]
           IN  /\ \A i \in Active(lots) : floor[i] \in Nat
               /\ Leftover(lots, interest, bank) \in 0 .. Cardinality(Active(lots))
               /\ interest = SumFunctionOnSet(floor, Active(lots))
                               + Leftover(lots, interest, bank)
               /\ \A i \in Active(lots) : frac[i] \in Nat /\ frac[i] <= bank
               /\ bank * Leftover(lots, interest, bank) = SumFunctionOnSet(frac, Active(lots))
<1> DEFINE A == Active(lots)
           left == Leftover(lots, interest, bank)
           n == Cardinality(A)
           floor == [i \in A |-> FloorShare(lots, interest, bank, i)]
           frac == [i \in A |-> Fraction(lots, interest, bank, i)]
           quota == [i \in A |-> interest * lots[i].left]
           whole == [i \in A |-> bank * floor[i]]
           one == [i \in A |-> 1]
           most == [i \in A |-> bank]
<1>1. /\ IsFiniteSet(A) /\ n \in Nat
      /\ \A i \in A : lots[i].left \in Nat /\ Lefts(lots)[i] = lots[i].left
  BY LotsFacts, FS_Subset, FS_CardinalityType
<1>2. ASSUME NEW i \in A
      PROVE  /\ quota[i] \in Int /\ floor[i] \in Nat /\ floor[i] \in Int
             /\ frac[i] \in Nat /\ frac[i] <= bank /\ frac[i] \in Int
             /\ whole[i] \in Int /\ whole[i] = bank * floor[i]
             /\ quota[i] = whole[i] + frac[i]
             /\ quota[i] = interest * Lefts(lots)[i] /\ Lefts(lots)[i] \in Int
  <2> DEFINE q == interest * lots[i].left
  <2>1. q \in Nat
    BY <1>1
  <2>2. quota[i] = q /\ floor[i] = q \div bank /\ frac[i] = q % bank
        /\ whole[i] = bank * floor[i]
    BY DEF FloorShare, Fraction
  <2>3. Lefts(lots)[i] = lots[i].left /\ Lefts(lots)[i] \in Int
    BY <1>1
  <2> HIDE DEF q
  <2>4. /\ q \div bank \in Nat /\ q % bank \in 0 .. (bank - 1)
        /\ q = bank * (q \div bank) + (q % bank)
    BY <2>1, Division
  <2>5. bank * (q \div bank) \in Int
    BY <2>4
  <2> HIDE DEF quota, floor, frac, whole
  <2>6. quota[i] = interest * Lefts(lots)[i]
    BY <2>2, <2>3 DEF q
  <2>7. /\ floor[i] \in Nat /\ frac[i] \in 0 .. (bank - 1)
        /\ q = bank * floor[i] + frac[i]
    BY <2>2, <2>4
  <2>8. whole[i] \in Int
    BY <2>2, <2>5
  <2>9. quota[i] = whole[i] + frac[i]
    BY <2>2, <2>7, Zenon
  <2>10. floor[i] \in Int /\ frac[i] \in Nat /\ frac[i] \in Int /\ frac[i] <= bank
         /\ quota[i] \in Int
    BY <2>1, <2>2, <2>7
  <2> QED
    BY <2>2, <2>3, <2>6, <2>7, <2>8, <2>9, <2>10, Zenon
<1>3. \A i \in A : /\ one[i] \in Int /\ most[i] \in Int /\ frac[i] <= most[i]
                   /\ most[i] = bank * one[i] /\ one[i] = IF i \in A THEN 1 ELSE 0
  BY <1>2
<1>4. left = interest - SumFunctionOnSet(floor, A)
  BY DEF Leftover, SumFunction
<1>5. Principal(lots) = SumFunctionOnSet(Lefts(lots), A)
  BY LotsFacts, LeftInSum DEF Principal
<1> HIDE DEF A, left, n, floor, frac, quota, whole, one, most
<1>6. SumFunctionOnSet(quota, A) = interest * bank
  <2>1. SumFunctionOnSet(quota, A) = interest * SumFunctionOnSet(Lefts(lots), A)
    BY <1>1, <1>2, SumTimes
  <2> QED
    BY <1>5, <2>1
<1>7. SumFunctionOnSet(quota, A) = SumFunctionOnSet(whole, A) + SumFunctionOnSet(frac, A)
  BY <1>1, <1>2, SumPlus
<1>8. SumFunctionOnSet(whole, A) = bank * SumFunctionOnSet(floor, A)
  BY <1>1, <1>2, SumTimes
<1>9. /\ SumFunctionOnSet(frac, A) \in Nat
      /\ SumFunctionOnSet(frac, A) <= SumFunctionOnSet(most, A)
      /\ SumFunctionOnSet(floor, A) \in Nat
  BY <1>1, <1>2, <1>3, SumNat, SumMonotone
<1>10. SumFunctionOnSet(most, A) = bank * n
  <2>1. SumFunctionOnSet(most, A) = bank * SumFunctionOnSet(one, A)
    BY <1>1, <1>3, SumTimes
  <2>2. SumFunctionOnSet(one, A) = n
    <3>1. A \in SUBSET A
      OBVIOUS
    <3> QED
      BY <1>1, <1>3, <3>1, SumCounts DEF n
  <2> QED
    BY <2>1, <2>2
<1>11. left \in Int /\ bank * left = SumFunctionOnSet(frac, A)
  <2>1. \A a, b, c \in Int : c * (a - b) = a * c - c * b
    OBVIOUS
  <2>2. /\ left \in Int
        /\ bank * left = interest * bank - bank * SumFunctionOnSet(floor, A)
    BY <1>4, <1>9, <2>1
  <2>3. interest * bank \in Int /\ bank * SumFunctionOnSet(floor, A) \in Int
    BY <1>9
  <2> QED
    BY <1>6, <1>7, <1>8, <1>9, <2>2, <2>3
<1>12. 0 <= left /\ left <= n
  <2>1. \A a, b \in Int : bank * a <= bank * b => a <= b
    OBVIOUS
  <2>2. bank * 0 <= bank * left /\ bank * left <= bank * n
    BY <1>9, <1>10, <1>11
  <2> QED
    BY <1>1, <1>11, <2>1, <2>2
<1> QED
  BY <1>1, <1>2, <1>4, <1>9, <1>11, <1>12 DEF A, n, left, floor, frac

\* Raising what a lot holds leaves a lot.
LEMMA LotRaised ==
    ASSUME NEW lot \in OpenLot, NEW unit \in Nat
    PROVE  /\ [lot EXCEPT !.left = @ + unit] \in OpenLot
           /\ [lot EXCEPT !.left = @ + unit].left = lot.left + unit
  BY DEF OpenLot

\* What the interest of a day makes of the lots.
LEMMA CreditedLots ==
    ASSUME NEW lots \in Seq(OpenLot), NEW interest \in Nat, NEW bank \in Nat \ {0}
    PROVE  /\ Credited(lots, interest, bank) \in Seq(OpenLot)
           /\ DOMAIN Credited(lots, interest, bank) = DOMAIN lots
           /\ \A i \in Active(lots) : InterestShare(lots, interest, bank, i) \in Nat
           /\ \A i \in DOMAIN lots : Credited(lots, interest, bank)[i].left =
                 IF i \in Active(lots)
                 THEN lots[i].left + InterestShare(lots, interest, bank, i)
                 ELSE lots[i].left
<1> DEFINE new == Credited(lots, interest, bank)
           share(i) == InterestShare(lots, interest, bank, i)
<1>1. DOMAIN lots = 1 .. Len(lots) /\ Len(lots) \in Nat
  OBVIOUS
<1>2. ASSUME NEW i \in Active(lots) PROVE share(i) \in Nat
  <2> DEFINE q == interest * lots[i].left
  <2>1. lots[i].left \in Nat
    BY LotsFacts
  <2>2. q \in Nat /\ FloorShare(lots, interest, bank, i) = q \div bank
    BY <2>1 DEF FloorShare
  <2> HIDE DEF q
  <2>3. q \div bank \in Nat
    BY <2>2, Division
  <2> QED
    BY <2>2, <2>3 DEF InterestShare
<1>3. ASSUME NEW i \in DOMAIN lots
      PROVE  /\ new[i] \in OpenLot
             /\ new[i].left = IF i \in Active(lots) THEN lots[i].left + share(i)
                                                    ELSE lots[i].left
  <2>1. lots[i] \in OpenLot
    BY LotsFacts
  <2>2. CASE i \in Active(lots)
    <3> DEFINE unit == share(i)
    <3>1. new[i] = [lots[i] EXCEPT !.left = @ + unit]
      BY <2>2 DEF Credited
    <3>2. unit \in Nat
      BY <1>2, <2>2
    <3> HIDE DEF new, unit
    <3>3. new[i] \in OpenLot /\ new[i].left = lots[i].left + unit
      BY <2>1, <3>1, <3>2, LotRaised
    <3> QED
      BY <2>2, <3>3 DEF unit
  <2>3. CASE i \notin Active(lots)
    BY <2>1, <2>3 DEF Credited
  <2> QED
    BY <2>2, <2>3
<1>4. DOMAIN new = DOMAIN lots
  BY DEF Credited
<1>5. new = [i \in 1 .. Len(lots) |-> new[i]]
  BY <1>1 DEF Credited
<1> HIDE DEF new
<1>6. new \in Seq(OpenLot)
  BY <1>1, <1>3, <1>5
<1> QED
  BY <1>2, <1>3, <1>4, <1>6 DEF new

\* The lots receive all of a day's interest and no more
\* (allocate_interest_to_lots).
THEOREM InterestExact ==
    ASSUME NEW lots \in Seq(OpenLot), NEW interest \in Nat, NEW bank \in Nat \ {0},
           Principal(lots) = bank
    PROVE  Principal(Credited(lots, interest, bank)) = Principal(lots) + interest
<1> DEFINE new == Credited(lots, interest, bank)
           D == DOMAIN lots
           A == Active(lots)
           left == Leftover(lots, interest, bank)
           ranked == [i \in A |-> RankedBefore(lots, interest, bank, i)]
           first == {i \in A : Cardinality(ranked[i]) < left}
           floor == [i \in A |-> FloorShare(lots, interest, bank, i)]
           unit == [i \in A |-> IF i \in first THEN 1 ELSE 0]
           share == [i \in A |-> InterestShare(lots, interest, bank, i)]
           given == [i \in D |-> IF i \in A THEN share[i] ELSE 0]
<1>1. /\ IsFiniteSet(D) /\ A \in SUBSET D /\ IsFiniteSet(A) /\ IsFiniteSet(D \ A)
      /\ \A i \in D : lots[i].left \in Int /\ Lefts(lots)[i] = lots[i].left
  <2>1. D \ A \in SUBSET D
    OBVIOUS
  <2> QED
    BY <2>1, LotsFacts, FS_Subset
<1>2. /\ \A i \in A : floor[i] \in Nat
      /\ left \in 0 .. Cardinality(A)
      /\ interest = SumFunctionOnSet(floor, A) + left
  BY LeftoverBounds, ZenonT(40)
<1>3. \A i \in A : share[i] = floor[i] + unit[i]
  BY DEF InterestShare
<1>4. first \in SUBSET A /\ \A i \in A : unit[i] = IF i \in first THEN 1 ELSE 0
  OBVIOUS
<1>5. TotalOrder(ranked, A)
  BY RanksOrder
<1>6. /\ new \in Seq(OpenLot) /\ DOMAIN new = D
      /\ \A i \in A : share[i] \in Nat
      /\ \A i \in D : new[i].left = IF i \in A THEN lots[i].left + share[i] ELSE lots[i].left
  <2>1. /\ new \in Seq(OpenLot) /\ DOMAIN new = DOMAIN lots
        /\ \A i \in Active(lots) : InterestShare(lots, interest, bank, i) \in Nat
        /\ \A i \in DOMAIN lots : new[i].left =
              IF i \in Active(lots)
              THEN lots[i].left + InterestShare(lots, interest, bank, i)
              ELSE lots[i].left
    BY CreditedLots, ZenonT(40)
  <2>2. \A i \in A : share[i] = InterestShare(lots, interest, bank, i)
    OBVIOUS
  <2> HIDE DEF new, share
  <2> QED
    BY <2>1, <2>2
<1>7. \A i \in D : Lefts(new)[i] = new[i].left
  BY <1>6, LotsFacts
<1>8. /\ \A i \in A : given[i] = share[i]
      /\ \A i \in D \ A : given[i] = 0
      /\ \A i \in D : given[i] \in Int /\ new[i].left = lots[i].left + given[i]
  <2> HIDE DEF share, A, new
  <2> QED
    BY <1>1, <1>6
<1>9. Principal(lots) = SumFunctionOnSet(Lefts(lots), D) /\ Principal(lots) \in Nat
  BY PrincipalSum
<1>10. Principal(new) = SumFunctionOnSet(Lefts(new), D) /\ Principal(new) \in Nat
  BY <1>6, PrincipalSum
<1>11. SumFunctionOnSet(unit, A) = left
  <2>1. left \in Nat /\ left <= Cardinality(A)
    <3>1. Cardinality(A) \in Nat
      BY <1>1, FS_CardinalityType
    <3> HIDE DEF left, A
    <3> QED
      BY <1>2, <3>1
  <2>2. Cardinality(first) = left
    <3> HIDE DEF left, A, ranked
    <3> QED
      BY <1>1, <1>5, <2>1, RankCount
  <2>3. SumFunctionOnSet(unit, A) = Cardinality(first)
    <3> HIDE DEF unit, A, first
    <3> QED
      BY <1>1, <1>4, SumCounts
  <2> QED
    BY <2>2, <2>3
<1> HIDE DEF D, A, left, first, floor, unit, share, given, new
<1>12. SumFunctionOnSet(share, A) = interest
  <2>1. \A i \in A : floor[i] \in Int /\ unit[i] \in Int /\ share[i] = floor[i] + unit[i]
    BY <1>2, <1>3, <1>4
  <2>2. SumFunctionOnSet(share, A) = SumFunctionOnSet(floor, A) + SumFunctionOnSet(unit, A)
    BY <1>1, <2>1, SumPlus
  <2> QED
    BY <1>2, <1>11, <2>2
<1>13. SumFunctionOnSet(given, D) = interest
  <2>1. SumFunctionOnSet(given, D) = SumFunctionOnSet(given, A) + SumFunctionOnSet(given, D \ A)
    BY <1>1, <1>8, SumSplit
  <2>2. \A i \in A : share[i] \in Int /\ given[i] = share[i]
    BY <1>6, <1>8
  <2>3. SumFunctionOnSet(given, A) = SumFunctionOnSet(share, A)
    BY <1>1, <2>2, SumSame
  <2>4. SumFunctionOnSet(given, D \ A) = 0
    BY <1>1, <1>8, SumZero
  <2> QED
    BY <1>12, <2>1, <2>3, <2>4
<1>14. SumFunctionOnSet(Lefts(new), D) =
         SumFunctionOnSet(Lefts(lots), D) + SumFunctionOnSet(given, D)
  <2>1. \A i \in D : /\ Lefts(lots)[i] \in Int /\ given[i] \in Int
                     /\ Lefts(new)[i] = Lefts(lots)[i] + given[i]
    BY <1>1, <1>7, <1>8
  <2> QED
    BY <1>1, <2>1, SumPlus
<1> QED
  BY <1>9, <1>10, <1>13, <1>14 DEF new

\* There are no more units left over than lots whose quota is not whole.
LEMMA FractionsPay ==
    ASSUME NEW lots \in Seq(OpenLot), NEW interest \in Nat, NEW bank \in Nat \ {0},
           Principal(lots) = bank
    PROVE  LET partly == {i \in Active(lots) : Fraction(lots, interest, bank, i) > 0}
           IN  /\ IsFiniteSet(partly) /\ Cardinality(partly) \in Nat
               /\ Leftover(lots, interest, bank) <= Cardinality(partly)
<1> DEFINE A == Active(lots)
           frac == [i \in A |-> Fraction(lots, interest, bank, i)]
           left == Leftover(lots, interest, bank)
           partly == {i \in A : frac[i] > 0}
           one == [i \in A |-> IF i \in partly THEN 1 ELSE 0]
           most == [i \in A |-> bank * one[i]]
<1>1. IsFiniteSet(A) /\ IsFiniteSet(partly) /\ Cardinality(partly) \in Nat
      /\ partly \in SUBSET A /\ Cardinality(A) \in Nat
  <2>1. IsFiniteSet(A)
    BY LotsFacts, FS_Subset
  <2>2. partly \in SUBSET A
    OBVIOUS
  <2> HIDE DEF partly
  <2> QED BY <2>1, <2>2, FS_Subset, FS_CardinalityType
<1>2. /\ left \in 0 .. Cardinality(A)
      /\ \A i \in A : frac[i] \in Nat /\ frac[i] <= bank
      /\ bank * left = SumFunctionOnSet(frac, A)
  BY LeftoverBounds, ZenonT(60)
<1>3. \A i \in A : one[i] = IF i \in partly THEN 1 ELSE 0
  OBVIOUS
<1>4. \A i \in A : most[i] = bank * one[i]
  OBVIOUS
<1>5. \A i \in A : i \notin partly => ~ (frac[i] > 0)
  OBVIOUS
<1>6. partly = {i \in Active(lots) : Fraction(lots, interest, bank, i) > 0}
  OBVIOUS
<1> HIDE DEF A, frac, left, partly, one, most
<1>7. \A i \in A : /\ frac[i] \in Int /\ most[i] \in Int /\ frac[i] <= most[i]
                   /\ one[i] \in Int
  <2> SUFFICES ASSUME NEW i \in A
               PROVE  /\ frac[i] \in Int /\ most[i] \in Int /\ frac[i] <= most[i]
                      /\ one[i] \in Int
    OBVIOUS
  <2>1. CASE i \in partly
    <3>1. one[i] = 1 /\ most[i] = bank * 1 /\ bank * 1 = bank
      BY <1>3, <1>4, <2>1
    <3> QED BY <1>2, <3>1
  <2>2. CASE i \notin partly
    <3>1. one[i] = 0 /\ most[i] = bank * 0 /\ bank * 0 = 0
      BY <1>3, <1>4, <2>2
    <3> QED BY <1>2, <1>5, <2>2, <3>1
  <2> QED BY <2>1, <2>2
<1>8. SumFunctionOnSet(frac, A) <= SumFunctionOnSet(most, A)
  BY <1>1, <1>7, SumMonotone
<1>9. SumFunctionOnSet(most, A) = bank * SumFunctionOnSet(one, A)
  <2>1. \A i \in A : one[i] \in Int /\ most[i] = bank * one[i]
    BY <1>4, <1>7
  <2> QED BY <1>1, <2>1, SumTimes
<1>10. SumFunctionOnSet(one, A) = Cardinality(partly)
  BY <1>1, <1>3, SumCounts
<1>11. left \in Nat
  BY <1>1, <1>2
<1> DEFINE n == Cardinality(partly)
<1>12. SumFunctionOnSet(most, A) = bank * n
  BY Zenon, <1>9, <1>10
<1>13. n \in Nat
  BY <1>1
<1> HIDE DEF n
<1>14. left <= n
  <2>1. bank * left \in Nat /\ bank * n \in Nat
    BY <1>11, <1>13
  <2>2. bank * left <= bank * n
    BY <1>2, <1>8, <1>12
  <2>3. ~ (n + 1 <= left)
    <3> SUFFICES ASSUME n + 1 <= left PROVE FALSE
      OBVIOUS
    <3>1. bank * (n + 1) <= bank * left
      BY <1>11, <1>13, Multiples
    <3>2. bank * (n + 1) = bank * n + bank
      BY <1>13
    <3> QED BY <2>1, <2>2, <3>1, <3>2
  <2> QED BY <1>11, <1>13, <2>3
<1> QED BY <1>1, <1>6, <1>14 DEF n, left

\* The share of a lot is within one unit of its quota: a whole quota gets nothing more
\* (allocate_interest_to_lots).
THEOREM ShareNearQuota ==
    ASSUME NEW lots \in Seq(OpenLot), NEW interest \in Nat, NEW bank \in Nat \ {0},
           Principal(lots) = bank, NEW i \in Active(lots)
    PROVE  InterestShare(lots, interest, bank, i) * bank - interest * lots[i].left
               \in (1 - bank) .. (bank - 1)
<1> DEFINE q == interest * lots[i].left
           floor == q \div bank
           frac == q % bank
           left == Leftover(lots, interest, bank)
           ranked == RankedBefore(lots, interest, bank, i)
           unit == IF Cardinality(ranked) < left THEN 1 ELSE 0
           partly == {j \in Active(lots) : Fraction(lots, interest, bank, j) > 0}
<1>1. q \in Nat
  <2>1. lots[i].left \in Nat
    BY LotsFacts
  <2> QED BY <2>1
<1>2. /\ InterestShare(lots, interest, bank, i) = floor + unit
      /\ Fraction(lots, interest, bank, i) = frac
  BY DEF InterestShare, FloorShare, Fraction
<1>3. /\ IsFiniteSet(partly) /\ Cardinality(partly) \in Nat /\ left <= Cardinality(partly)
  BY FractionsPay
<1>4. left \in Int /\ IsFiniteSet(ranked) /\ Cardinality(ranked) \in Nat
  <2>1. IsFiniteSet(Active(lots)) /\ ranked \in SUBSET Active(lots)
    BY LotsFacts, FS_Subset DEF RankedBefore
  <2>2. left \in 0 .. Cardinality(Active(lots))
    BY LeftoverBounds
  <2>3. Cardinality(Active(lots)) \in Nat
    BY <2>1, FS_CardinalityType
  <2> HIDE DEF left, ranked
  <2> QED BY <2>1, <2>2, <2>3, FS_Subset, FS_CardinalityType
<1>5. frac = 0 => partly \in SUBSET ranked
  BY <1>2 DEF RankedBefore
<1>6. \/ unit = 0
      \/ unit = 1 /\ Cardinality(ranked) < left
  OBVIOUS
<1> HIDE DEF q
<1>7. floor \in Nat /\ frac \in 0 .. (bank - 1) /\ q = bank * floor + frac
  BY <1>1, Division
<1> HIDE DEF floor, frac, left, ranked, unit, partly
<1>8. unit = 1 => frac # 0
  <2> SUFFICES ASSUME unit = 1, frac = 0 PROVE FALSE
    OBVIOUS
  <2>1. Cardinality(ranked) < left
    BY <1>6
  <2>2. Cardinality(partly) <= Cardinality(ranked)
    BY <1>4, <1>5, FS_Subset
  <2> QED BY <1>3, <1>4, <2>1, <2>2
<1>9. (floor + unit) * bank - q \in (1 - bank) .. (bank - 1)
  <2>1. CASE unit = 0
    <3>1. (floor + 0) * bank = bank * floor /\ bank * floor \in Nat
      BY <1>7
    <3> QED BY <1>7, <2>1, <3>1
  <2>2. CASE unit = 1
    <3>1. (floor + 1) * bank = bank * floor + bank /\ bank * floor \in Nat
      BY <1>7
    <3> QED BY <1>7, <1>8, <2>2, <3>1
  <2> QED BY <1>6, <2>1, <2>2
<1> QED BY Zenon, <1>2, <1>9 DEF q

---------------------------------------------------------------------------
(* The days of a catch-up.                                                 *)

\* What interest changes of an account, before the first day.
Unpaid(a) == [bank |-> a.bank, lots |-> a.lots, remainder |-> a.remainder]

\* f is the account after each of n days.
Compounds(f, a, growth, n) ==
    f = [k \in 0 .. n |-> IF k = 0 THEN Unpaid(a) ELSE OneDay(f[k - 1], growth)]

\* There is such a function, so the recursion of CatchUp defines one.
LEMMA CompoundsExist ==
    ASSUME NEW a, NEW growth, NEW n \in Nat
    PROVE  \E f : Compounds(f, a, growth, n)
<1> DEFINE T == {m \in Nat : \E f : Compounds(f, a, growth, m)}
<1>1. 0 \in T
  <2> DEFINE f == [k \in 0 .. 0 |-> Unpaid(a)]
  <2>1. f = [k \in 0 .. 0 |-> IF k = 0 THEN Unpaid(a) ELSE OneDay(f[k - 1], growth)]
    OBVIOUS
  <2> QED
    BY <2>1 DEF Compounds
<1>2. ASSUME NEW m \in T PROVE m + 1 \in T
  <2>1. PICK f : Compounds(f, a, growth, m)
    OBVIOUS
  <2> DEFINE g == [k \in 0 .. m + 1 |-> IF k = m + 1 THEN OneDay(f[m], growth) ELSE f[k]]
  <2>2. m \in Nat
    OBVIOUS
  <2>3. \A k \in 0 .. m : f[k] = IF k = 0 THEN Unpaid(a) ELSE OneDay(f[k - 1], growth)
    BY <2>1 DEF Compounds
  <2>4. ASSUME NEW k \in 0 .. m + 1
        PROVE  g[k] = IF k = 0 THEN Unpaid(a) ELSE OneDay(g[k - 1], growth)
    <3>1. CASE k = m + 1
      <4>1. g[k] = OneDay(f[m], growth) /\ k # 0 /\ k - 1 = m /\ m # m + 1 /\ m \in 0 .. m + 1
        BY <2>2, <3>1
      <4>2. g[k - 1] = f[m]
        BY <4>1
      <4> QED
        BY <4>1, <4>2, Zenon
    <3>2. CASE k # m + 1
      <4>1. k \in 0 .. m /\ g[k] = f[k]
        BY <2>2, <3>2
      <4>2. k # 0 => g[k - 1] = f[k - 1]
        BY <2>2, <4>1
      <4> QED
        BY <2>3, <4>1, <4>2
    <3> QED
      BY <3>1, <3>2
  <2>5. g = [k \in 0 .. m + 1 |-> g[k]]
    OBVIOUS
  <2> HIDE DEF g
  <2>6. g = [k \in 0 .. m + 1 |-> IF k = 0 THEN Unpaid(a) ELSE OneDay(g[k - 1], growth)]
    BY <2>4, <2>5
  <2>7. Compounds(g, a, growth, m + 1)
    BY <2>6 DEF Compounds
  <2> QED
    BY <2>2, <2>7
<1> HIDE DEF T
<1>3. Nat \subseteq T
  BY <1>1, <1>2, NatSetInduction
<1> QED
  BY <1>3 DEF T

\* The loop of accrue_bank_interest: every day starts from the day before.
LEMMA CatchUpDays ==
    ASSUME NEW a, NEW growth, NEW n \in Nat
    PROVE  /\ CatchUp(a, growth, n)[0] = Unpaid(a)
           /\ \A k \in 1 .. n :
                 CatchUp(a, growth, n)[k] = OneDay(CatchUp(a, growth, n)[k - 1], growth)
<1> DEFINE after == CatchUp(a, growth, n)
<1>1. after = CHOOSE f : Compounds(f, a, growth, n)
  BY DEF CatchUp, Compounds, Unpaid
<1>2. Compounds(after, a, growth, n)
  BY <1>1, CompoundsExist
<1> HIDE DEF after
<1>3. \A k \in 0 .. n : after[k] = IF k = 0 THEN Unpaid(a) ELSE OneDay(after[k - 1], growth)
  BY <1>2 DEF Compounds
<1>4. 0 \in 0 .. n /\ \A k \in 1 .. n : k \in 0 .. n /\ k # 0
  OBVIOUS
<1> QED
  BY <1>3, <1>4 DEF after

\* An account on which a day can be computed: whole amounts, and lots whose
\* principal is the balance.
Payable(d) ==
    /\ d.bank \in Nat
    /\ d.lots \in Seq(OpenLot)
    /\ d.remainder \in 0 .. (InterestDenominator - 1)
    /\ Principal(d.lots) = d.bank

\* The same lots, none of which holds less.
NoneLowered(old, new) ==
    /\ DOMAIN new = DOMAIN old
    /\ \A i \in DOMAIN old : new[i].left >= old[i].left

\* A unit of interest has a size.
LEMMA InterestUnits == InterestDenominator \in Nat \ {0}
BY SMT, Q32OneAssumption DEF InterestDenominator, FeeDenominator

\* An empty account earns nothing, whatever remainder it carries, and no day
\* costs anything.
LEMMA InterestFacts ==
    ASSUME NEW bank \in Nat, NEW growth \in 0 .. Q32One,
           NEW remainder \in 0 .. (InterestDenominator - 1)
    PROVE  /\ DailyInterest(bank, growth, remainder) \in Nat
           /\ RemainderAfter(bank, growth, remainder) \in 0 .. (InterestDenominator - 1)
           /\ bank = 0 => DailyInterest(bank, growth, remainder) = 0
<1> DEFINE num == InterestNumerator(bank, growth, remainder)
           den == InterestDenominator
<1>1. den \in Nat \ {0} /\ Q32One \in Nat
  BY InterestUnits, Q32OneAssumption
<1>2. num \in Nat /\ (bank = 0 => num = remainder)
  <2> DEFINE base == bank * BaseInterestPpm * Q32One
             most == Lesser(bank, BonusTranche)
             bonus == most * BonusInterestPpm * growth
  <2>1. base \in Nat /\ (bank = 0 => base = 0)
    BY <1>1 DEF BaseInterestPpm
  <2>2. most \in Nat /\ (bank = 0 => most = 0)
    BY DEF Lesser, BonusTranche
  <2>3. growth \in Nat
    BY <1>1
  <2>4. bonus \in Nat /\ (bank = 0 => bonus = 0)
    <3> HIDE DEF most
    <3> QED
      BY <2>2, <2>3 DEF BonusInterestPpm
  <2>5. num = base + bonus + remainder
    BY DEF InterestNumerator
  <2>6. remainder \in Nat
    BY <1>1
  <2> HIDE DEF base, bonus, num
  <2> QED
    BY <2>1, <2>4, <2>5, <2>6
<1>3. /\ DailyInterest(bank, growth, remainder) = num \div den
      /\ RemainderAfter(bank, growth, remainder) = num % den
  BY DEF DailyInterest, RemainderAfter
<1> HIDE DEF num, den
<1>4. num \div den \in Nat /\ num % den \in 0 .. (den - 1)
  BY <1>1, <1>2, Division
<1>5. bank = 0 => num \div den = 0
  <2> SUFFICES ASSUME bank = 0 PROVE num \div den = 0
    OBVIOUS
  <2>1. num = remainder /\ remainder \in 0 .. (den - 1)
    BY <1>2 DEF den
  <2> QED
    BY <1>1, <2>1
<1> QED
  BY <1>3, <1>4, <1>5 DEF den

\* A day leaves a payable account, its balance grown by the interest, and takes
\* nothing out of a lot.
LEMMA DayPays ==
    ASSUME NEW d, Payable(d), NEW growth \in 0 .. Q32One
    PROVE  /\ Payable(OneDay(d, growth))
           /\ OneDay(d, growth).bank >= d.bank
           /\ NoneLowered(d.lots, OneDay(d, growth).lots)
<1> DEFINE interest == DailyInterest(d.bank, growth, d.remainder)
           new == OneDay(d, growth)
<1>1. /\ d.bank \in Nat /\ d.lots \in Seq(OpenLot) /\ Principal(d.lots) = d.bank
      /\ d.remainder \in 0 .. (InterestDenominator - 1)
  BY DEF Payable
<1>2. /\ interest \in Nat /\ (d.bank = 0 => interest = 0)
      /\ RemainderAfter(d.bank, growth, d.remainder) \in 0 .. (InterestDenominator - 1)
  BY <1>1, InterestFacts
<1>3. /\ new.bank = d.bank + interest
      /\ new.lots = IF interest > 0 THEN Credited(d.lots, interest, d.bank) ELSE d.lots
      /\ new.remainder = RemainderAfter(d.bank, growth, d.remainder)
  BY DEF OneDay
<1>4. \A i \in DOMAIN d.lots : d.lots[i].left \in Nat
  BY <1>1, LotsFacts
<1> HIDE DEF interest, new
<1>5. CASE interest = 0
  <2>1. new.lots = d.lots /\ new.bank = d.bank
    BY <1>1, <1>3, <1>5
  <2>2. NoneLowered(d.lots, new.lots)
    BY <1>4, <2>1 DEF NoneLowered
  <2> QED
    BY <1>1, <1>2, <1>3, <2>1, <2>2 DEF Payable, new
<1>6. CASE interest # 0
  <2>1. interest > 0 /\ d.bank \in Nat \ {0}
    BY <1>1, <1>2, <1>6
  <2>2. new.lots = Credited(d.lots, interest, d.bank)
    BY <1>3, <2>1
  <2>3. Principal(new.lots) = Principal(d.lots) + interest
    BY <1>1, <1>2, <2>1, <2>2, InterestExact
  <2>4. /\ new.lots \in Seq(OpenLot)
        /\ DOMAIN new.lots = DOMAIN d.lots
        /\ \A i \in Active(d.lots) : InterestShare(d.lots, interest, d.bank, i) \in Nat
        /\ \A i \in DOMAIN d.lots : new.lots[i].left =
              IF i \in Active(d.lots)
              THEN d.lots[i].left + InterestShare(d.lots, interest, d.bank, i)
              ELSE d.lots[i].left
    <3>1. /\ Credited(d.lots, interest, d.bank) \in Seq(OpenLot)
          /\ DOMAIN Credited(d.lots, interest, d.bank) = DOMAIN d.lots
          /\ \A i \in Active(d.lots) : InterestShare(d.lots, interest, d.bank, i) \in Nat
          /\ \A i \in DOMAIN d.lots : Credited(d.lots, interest, d.bank)[i].left =
                IF i \in Active(d.lots)
                THEN d.lots[i].left + InterestShare(d.lots, interest, d.bank, i)
                ELSE d.lots[i].left
      BY <1>1, <1>2, <2>1, CreditedLots
    <3> QED
      BY <2>2, <3>1, Zenon
  <2>5. ASSUME NEW i \in DOMAIN d.lots PROVE new.lots[i].left >= d.lots[i].left
    BY <1>4, <2>4
  <2>6. NoneLowered(d.lots, new.lots)
    BY <2>4, <2>5 DEF NoneLowered
  <2>7. Payable(new)
    BY <1>1, <1>2, <1>3, <2>3, <2>4 DEF Payable
  <2>8. new.bank >= d.bank
    BY <1>1, <1>2, <1>3
  <2> QED
    BY <2>6, <2>7, <2>8 DEF new
<1> QED
  BY <1>2, <1>5, <1>6

\* So do all the days of a catch-up.
THEOREM CatchUpPays ==
    ASSUME NEW a, Payable(a), NEW growth \in 0 .. Q32One, NEW n \in Nat
    PROVE  \A k \in 0 .. n :
              /\ Payable(CatchUp(a, growth, n)[k])
              /\ NoneLowered(a.lots, CatchUp(a, growth, n)[k].lots)
              /\ k > 0 => CatchUp(a, growth, n)[k].bank >= CatchUp(a, growth, n)[k - 1].bank
<1> DEFINE after == CatchUp(a, growth, n)
           Good(k) == /\ Payable(after[k])
                      /\ NoneLowered(a.lots, after[k].lots)
                      /\ k > 0 => after[k].bank >= after[k - 1].bank
           T == {k \in Nat : k <= n => Good(k)}
<1>1. /\ after[0] = Unpaid(a)
      /\ \A k \in 1 .. n : after[k] = OneDay(after[k - 1], growth)
  BY CatchUpDays
<1> HIDE DEF after
<1>2. 0 \in T
  <2>1. Unpaid(a).bank = a.bank /\ Unpaid(a).lots = a.lots /\ Unpaid(a).remainder = a.remainder
    BY DEF Unpaid
  <2>2. Payable(after[0])
    BY <1>1, <2>1 DEF Payable
  <2>3. \A i \in DOMAIN a.lots : a.lots[i].left \in Nat
    BY LotsFacts DEF Payable
  <2>4. NoneLowered(a.lots, after[0].lots)
    BY <1>1, <2>1, <2>3 DEF NoneLowered
  <2> QED
    BY <2>2, <2>4
<1>3. ASSUME NEW k \in T PROVE k + 1 \in T
  <2>1. k \in Nat
    OBVIOUS
  <2> SUFFICES ASSUME k + 1 <= n PROVE Good(k + 1)
    BY <2>1
  <2>2. Payable(after[k]) /\ NoneLowered(a.lots, after[k].lots)
    BY <2>1
  <2>3. after[k + 1] = OneDay(after[k], growth)
    <3>1. k + 1 \in 1 .. n /\ (k + 1) - 1 = k
      BY <2>1
    <3> QED
      BY <1>1, <3>1
  <2>4. /\ Payable(after[k + 1])
        /\ after[k + 1].bank >= after[k].bank
        /\ NoneLowered(after[k].lots, after[k + 1].lots)
    BY <2>2, <2>3, DayPays
  <2>5. /\ \A i \in DOMAIN a.lots : a.lots[i].left \in Nat
        /\ \A i \in DOMAIN after[k].lots : after[k].lots[i].left \in Nat
        /\ \A i \in DOMAIN after[k + 1].lots : after[k + 1].lots[i].left \in Nat
    BY <2>2, <2>4, LotsFacts DEF Payable
  <2>6. NoneLowered(a.lots, after[k + 1].lots)
    BY <2>2, <2>4, <2>5 DEF NoneLowered
  <2>7. (k + 1) - 1 = k
    BY <2>1
  <2> QED
    BY <2>4, <2>6, <2>7
<1> HIDE DEF T
<1>4. Nat \subseteq T
  BY <1>2, <1>3, NatSetInduction
<1> QED
  BY <1>4 DEF T, after

---------------------------------------------------------------------------
(* The rolling surcharge.                                                  *)

\* The rolling surcharge is marginal: withdrawing an amount in two parts within
\* 24 hours pays the same surcharge as withdrawing it at once, whatever the
\* amounts (rolling_marginal_numerator in fees.rs).
THEOREM SplittingIsFree ==
    \A prior, first, second \in Nat :
        RollingMarginal(prior, first + second) =
            RollingMarginal(prior, first) + RollingMarginal(prior + first, second)
<1> SUFFICES ASSUME NEW prior \in Nat, NEW first \in Nat, NEW second \in Nat
             PROVE  RollingMarginal(prior, first + second) =
                       RollingMarginal(prior, first)
                         + RollingMarginal(prior + first, second)
  OBVIOUS
<1>1. ASSUME NEW low \in Nat, NEW high \in Nat, low <= high
      PROVE  /\ Overlap(prior, first + second, low, high) =
                   Overlap(prior, first, low, high)
                     + Overlap(prior + first, second, low, high)
             /\ Overlap(prior, first, low, high) \in Int
             /\ Overlap(prior + first, second, low, high) \in Int
  BY SMT DEF Overlap, Lesser, Greater
<1> DEFINE above == Greater(0, prior + first - Greater(prior, 10000000))
           beyond == Greater(0, prior + first + second
                                  - Greater(prior + first, 10000000))
<1>2. /\ Greater(0, prior + (first + second) - Greater(prior, 10000000)) =
            above + beyond
      /\ above \in Int /\ beyond \in Int
  BY SMT DEF Greater
<1>3. /\ Overlap(prior, first + second, 100000, 1000000) =
            Overlap(prior, first, 100000, 1000000)
              + Overlap(prior + first, second, 100000, 1000000)
      /\ Overlap(prior, first, 100000, 1000000) \in Int
      /\ Overlap(prior + first, second, 100000, 1000000) \in Int
  BY SMT, <1>1
<1>4. /\ Overlap(prior, first + second, 1000000, 10000000) =
            Overlap(prior, first, 1000000, 10000000)
              + Overlap(prior + first, second, 1000000, 10000000)
      /\ Overlap(prior, first, 1000000, 10000000) \in Int
      /\ Overlap(prior + first, second, 1000000, 10000000) \in Int
  BY SMT, <1>1
<1>5. /\ RollingMarginal(prior, first + second) =
            100 * Overlap(prior, first + second, 100000, 1000000)
              + 250 * Overlap(prior, first + second, 1000000, 10000000)
              + 500 * (above + beyond)
      /\ RollingMarginal(prior, first) =
            100 * Overlap(prior, first, 100000, 1000000)
              + 250 * Overlap(prior, first, 1000000, 10000000) + 500 * above
      /\ RollingMarginal(prior + first, second) =
            100 * Overlap(prior + first, second, 100000, 1000000)
              + 250 * Overlap(prior + first, second, 1000000, 10000000) + 500 * beyond
  BY SMT, <1>2 DEF RollingMarginal
<1> HIDE DEF above, beyond
<1> QED BY SMT, <1>2, <1>3, <1>4, <1>5

---------------------------------------------------------------------------
(* The fee.                                                                *)

\* The rates of the age bands.
AgeRates == 1200 .. 10000

\* Every age has one of them.
LEMMA RatesBounded == \A age \in Int : AgeFeePpm(age) \in AgeRates
BY SMT, DayLengthAssumption DEF AgeFeePpm, AgeRates

\* They are parts of a million, 1200 to 10000.
LEMMA AgeRatesFacts == \A r \in AgeRates : r \in Nat /\ 1200 <= r /\ r <= 10000
BY DEF AgeRates

\* What the lots' ages cost lies between the lowest and the highest rate.
LEMMA AgeNumeratorBounds ==
    ASSUME NEW lots \in Seq(OpenLot), NEW amount \in Nat, LotsCover(lots, amount),
           NEW now \in Nat
    PROVE  AgeNumerator(lots, amount, now) \in (1200 * amount) .. (10000 * amount)
<1> DEFINE A == Active(lots)
           take == [i \in DOMAIN lots |-> FifoTake(lots, amount, i)]
           rate == [i \in A |-> AgeFeePpm(Greater(0, now - lots[i].at))]
           paid == [i \in A |-> take[i] * rate[i]]
           least == [i \in A |-> 1200 * take[i]]
           most == [i \in A |-> 10000 * take[i]]
<1>1. /\ A \in SUBSET DOMAIN lots /\ IsFiniteSet(A)
      /\ \A i \in A : lots[i].left \in Nat /\ lots[i].at \in Nat
  <2>1. IsFiniteSet(DOMAIN lots) /\ A \in SUBSET DOMAIN lots
    BY LotsFacts
  <2> QED BY <2>1, LotsFacts, FS_Subset
<1>2. /\ \A i \in A : take[i] \in 0 .. lots[i].left
      /\ SumFunctionOnSet(take, A) = Lesser(amount, Principal(lots))
  BY FifoCovers
<1>3. Principal(lots) \in Nat
  BY PrincipalSum
<1>4. SumFunctionOnSet(take, A) = amount
  <2> HIDE DEF take, A
  <2> QED BY <1>2, <1>3 DEF LotsCover, Lesser
<1>5. AgeNumerator(lots, amount, now) = SumFunctionOnSet(paid, A)
  <2>1. paid = [i \in A |-> FifoTake(lots, amount, i) * AgeFeePpm(Greater(0, now - lots[i].at))]
    BY <1>1
  <2> QED BY <2>1 DEF AgeNumerator, SumFunction
<1>6. \A i \in A : rate[i] \in AgeRates
  <2>1. \A i \in A : Greater(0, now - lots[i].at) \in Int
    BY <1>1 DEF Greater
  <2> QED BY Zenon, <2>1, RatesBounded
<1>7. ASSUME NEW i \in A
      PROVE  /\ take[i] \in Int /\ paid[i] \in Int
             /\ least[i] \in Int /\ least[i] = 1200 * take[i] /\ least[i] <= paid[i]
             /\ most[i] \in Int /\ most[i] = 10000 * take[i] /\ paid[i] <= most[i]
  <2> DEFINE t == take[i]
             r == rate[i]
  <2>1. t \in Nat /\ r \in Nat /\ 1200 <= r /\ r <= 10000
    <3> HIDE DEF take, rate, A
    <3>1. take[i] \in 0 .. lots[i].left /\ lots[i].left \in Nat /\ rate[i] \in AgeRates
      BY <1>1, <1>2, <1>6
    <3>2. take[i] \in Nat
      BY <3>1
    <3> QED BY <3>1, <3>2, AgeRatesFacts
  <2>2. paid[i] = t * r /\ least[i] = 1200 * t /\ most[i] = 10000 * t
    OBVIOUS
  <2> HIDE DEF t, r, paid, least, most
  <2>3. t * 1200 <= t * r /\ t * r <= t * 10000 /\ t * r \in Nat
    BY <2>1, Multiples
  <2>4. t * 1200 = 1200 * t /\ t * 10000 = 10000 * t
    BY <2>1
  <2>5. t \in Int /\ 1200 * t \in Int /\ 10000 * t \in Int /\ t * r \in Int
    BY <2>1, <2>3
  <2> QED BY <2>2, <2>3, <2>4, <2>5 DEF t
<1> HIDE DEF A, take, rate, paid, least, most
<1>8. /\ SumFunctionOnSet(least, A) <= SumFunctionOnSet(paid, A)
      /\ SumFunctionOnSet(paid, A) <= SumFunctionOnSet(most, A)
  <2>1. SumFunctionOnSet(least, A) <= SumFunctionOnSet(paid, A)
    BY <1>1, <1>7, SumMonotone
  <2>2. SumFunctionOnSet(paid, A) <= SumFunctionOnSet(most, A)
    BY <1>1, <1>7, SumMonotone
  <2> QED BY <2>1, <2>2
<1>9. SumFunctionOnSet(least, A) = 1200 * amount
  <2>1. \A i \in A : take[i] \in Int /\ least[i] = 1200 * take[i]
    BY <1>7
  <2>2. SumFunctionOnSet(least, A) = 1200 * SumFunctionOnSet(take, A)
    BY <1>1, <2>1, SumTimes
  <2> QED BY <1>4, <2>2
<1>10. SumFunctionOnSet(most, A) = 10000 * amount
  <2>1. \A i \in A : take[i] \in Int /\ most[i] = 10000 * take[i]
    BY <1>7
  <2>2. SumFunctionOnSet(most, A) = 10000 * SumFunctionOnSet(take, A)
    BY <1>1, <2>1, SumTimes
  <2> QED BY <1>4, <2>2
<1>11. SumFunctionOnSet(paid, A) \in Int
  <2>1. \A i \in A : paid[i] \in Int
    BY <1>7
  <2> QED BY <1>1, <2>1, SumInt
<1> QED BY <1>5, <1>8, <1>9, <1>10, <1>11

\* The rolling surcharge is at most that of its highest band.
LEMMA RollingBounds ==
    ASSUME NEW prior \in Nat, NEW amount \in Nat
    PROVE  RollingMarginal(prior, amount) \in 0 .. (500 * amount)
<1> DEFINE a == Overlap(prior, amount, 100000, 1000000)
           b == Overlap(prior, amount, 1000000, 10000000)
           c == Greater(0, prior + amount - Greater(prior, 10000000))
<1>1. a \in Nat /\ b \in Nat /\ c \in Nat /\ a + b + c <= amount
  BY SMT DEF Overlap, Lesser, Greater
<1>2. RollingMarginal(prior, amount) = 100 * a + 250 * b + 500 * c
  BY DEF RollingMarginal
<1> HIDE DEF a, b, c
<1> QED BY <1>1, <1>2

\* The surcharge of the balance is at most that of its highest band.
LEMMA SurchargeBounds ==
    ASSUME NEW bank \in Nat
    PROVE  BalanceSurchargePpm(bank) \in 0 .. 600
BY SMT DEF BalanceSurchargePpm

\* A withdrawal pays a fee and leaves something, whatever it is taken from and whatever
\* was withdrawn before (withdrawal_fee; the CHECK fee_amount < gross_amount).
THEOREM FeeWithin ==
    ASSUME NEW lots \in Seq(OpenLot), NEW amount \in Nat, LotsCover(lots, amount),
           amount >= MinWithdrawal,
           NEW bank \in Nat, NEW prior \in Nat, NEW now \in Nat
    PROVE  WithdrawalFee(lots, amount, bank, prior, now) \in 1 .. (amount - 1)
<1> DEFINE age == AgeNumerator(lots, amount, now)
           rate == BalanceSurchargePpm(bank)
           rolling == RollingMarginal(prior, amount)
           n == age + amount * rate + rolling
           fee == CeilPpm(n)
<1>1. age \in (1200 * amount) .. (10000 * amount)
  BY AgeNumeratorBounds, SMTT(20)
<1>2. rolling \in 0 .. (500 * amount) /\ rate \in 0 .. 600
  <2>1. rolling \in 0 .. (500 * amount)
    BY RollingBounds, ZenonT(40)
  <2>2. rate \in 0 .. 600
    BY SurchargeBounds, Zenon
  <2> QED BY <2>1, <2>2
<1>3. WithdrawalFee(lots, amount, bank, prior, now) = fee
  BY DEF WithdrawalFee
<1>4. amount * rate \in 0 .. (600 * amount)
  <2> HIDE DEF rate
  <2>1. amount * rate \in Nat /\ amount * rate <= amount * 600
    BY <1>2, Multiples
  <2> QED BY <2>1
<1>5. n \in Nat /\ n >= 1200 * amount /\ n <= 11100 * amount
  <2> DEFINE surcharge == amount * rate
  <2>1. surcharge \in 0 .. (600 * amount) /\ n = age + surcharge + rolling
    BY <1>4
  <2> HIDE DEF surcharge, age, rolling, n
  <2> QED BY <1>1, <1>2, <2>1
<1>6. amount >= 500
  BY DEF MinWithdrawal
<1> HIDE DEF n
<1>7. fee = (n + 999999) \div 1000000
  BY <1>5 DEF CeilPpm, FeeDenominator
<1> HIDE DEF fee
<1>8. fee \in 1 .. (amount - 1)
  BY <1>5, <1>6, <1>7
<1> QED BY <1>3, <1>8
=============================================================================
