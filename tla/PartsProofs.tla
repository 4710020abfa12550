------------------------------ MODULE PartsProofs ------------------------------
(***************************************************************************)
(* Proofs about the parts that share no rows: the loops of the Bank        *)
(* compute what its formulas say of every table of lots, a smelting job is *)
(* accounted for to the last item and tick, a level is the one its points  *)
(* reach, digits make the price of an attempt, and a repair in pieces      *)
(* saves nothing.                                                          *)
(***************************************************************************)
EXTENDS BankAlgorithms, Smelting, Costs, BankRulesProofs

---------------------------------------------------------------------------
(* The lots as the code reads them.                                        *)

\* A table the run can grow.
LotsTyped == lots \in Seq(OpenLot)

\* It is always one.
LEMMA LotsAlwaysTyped == LotsSpec => []LotsTyped
<1>1. LotsInit => LotsTyped
  BY DEF LotsInit, LotsTyped
<1>2. LotsTyped /\ [LotsNext]_lots => LotsTyped'
  <2> SUFFICES ASSUME LotsTyped, [LotsNext]_lots PROVE lots' \in Seq(OpenLot)
    BY DEF LotsTyped
  <2>1. CASE AddLot
    <3>1. PICK at \in Times, left \in Principals \cup {0} :
              lots' = Append(lots, [at |-> at, left |-> left])
      BY <2>1 DEF AddLot
    <3>2. [at |-> at, left |-> left] \in OpenLot
      BY TriedAssumption DEF OpenLot
    <3> QED BY <3>1, <3>2 DEF LotsTyped
  <2>2. CASE Clear
    BY <2>2 DEF Clear
  <2>3. CASE UNCHANGED lots
    BY <2>3 DEF LotsTyped
  <2> QED BY <2>1, <2>2, <2>3 DEF LotsNext
<1> QED BY <1>1, <1>2, PTL DEF LotsSpec

\* An order by a query lists what it orders.
LEMMA OrderedLists ==
    ASSUME NEW S, IsFiniteSet(S), NEW before, TotalOrder(before, S)
    PROVE  Lists(Ordered(S, before), before, S)
<1>1. \E e \in [1 .. Cardinality(S) -> S] :
          \A m, n \in 1 .. Cardinality(S) : m < n => e[m] \in before[e[n]]
  BY ListExists DEF Lists
<1> QED BY <1>1 DEF Ordered, Lists

\* The rows of the query are the active lots, those that the model has ahead of a lot
\* before it.
LEMMA RowsFacts ==
    ASSUME LotsTyped
    PROVE  LET N == Cardinality(Active(lots))
           IN  /\ N \in Nat /\ DOMAIN Rows = 1 .. N /\ Len(Rows) = N
               /\ IsFiniteSet(1 .. N) /\ Cardinality(1 .. N) = N
               /\ \A m, n \in 1 .. N : Rows[m] = Rows[n] => m = n
               /\ \A i \in Active(lots) : \E n \in 1 .. N : Rows[n] = i
               /\ \A n \in 1 .. N : /\ Rows[n] \in Active(lots)
                                    /\ Ahead(lots, Rows[n]) = {Rows[m] : m \in 1 .. n - 1}
<1> DEFINE A == Active(lots)
           N == Cardinality(A)
           before == [i \in A |-> Ahead(lots, i)]
<1>1. lots \in Seq(OpenLot)
  BY DEF LotsTyped
<1>2. IsFiniteSet(A) /\ TotalOrder(before, A)
  <2>1. IsFiniteSet(DOMAIN lots) /\ A \in SUBSET DOMAIN lots
    BY <1>1, LotsFacts
  <2> QED BY <1>1, <2>1, FS_Subset, AheadOrders
<1>3. Rows = Ordered(A, before)
  BY DEF Rows, Active, Ahead
<1>4. Lists(Rows, before, A)
  <2> HIDE DEF A, before
  <2> QED BY <1>2, <1>3, OrderedLists
<1>5. /\ N \in Nat /\ IsFiniteSet(1 .. N) /\ Cardinality(1 .. N) = N
      /\ \A m, n \in 1 .. N : Rows[m] = Rows[n] => m = n
      /\ \A i \in A : \E n \in 1 .. N : Rows[n] = i
      /\ \A n \in 1 .. N : /\ Rows[n] \in A
                           /\ before[Rows[n]] = {Rows[m] : m \in 1 .. n - 1}
  <2>1. Listing(Rows, before, A)
    <3> HIDE DEF A, before
    <3> QED BY <1>2, <1>4, ListFacts
  <2> HIDE DEF A, before
  <2> QED BY <2>1 DEF Listing, N
<1>6. Rows \in [1 .. N -> A]
  BY <1>4 DEF Lists
<1>7. DOMAIN Rows = 1 .. N /\ Len(Rows) = N
  <2> HIDE DEF A, N
  <2>1. DOMAIN Rows = 1 .. N
    BY <1>6
  <2>2. Rows \in Seq(A)
    BY <1>5, <1>6
  <2> QED BY <1>5, <2>1, <2>2
<1>8. \A i \in A : before[i] = Ahead(lots, i)
  OBVIOUS
<1> HIDE DEF A, N, before
<1>9. \A n \in 1 .. N : Rows[n] \in A /\ Ahead(lots, Rows[n]) = {Rows[m] : m \in 1 .. n - 1}
  BY <1>5, <1>8
<1> QED BY <1>5, <1>7, <1>9 DEF N, A

---------------------------------------------------------------------------
(* The loop of a withdrawal.                                               *)

\* left is what remains to be taken after each of the rows.
Remains(left, rows, amount) ==
    left = [n \in 0 .. Len(rows) |->
               IF n = 0 THEN amount
                        ELSE left[n - 1] - Lesser(lots[rows[n]].left, left[n - 1])]

\* There is such a function, so the recursion of Remaining defines one.
LEMMA RemainsExist ==
    ASSUME NEW rows, Len(rows) \in Nat, NEW amount
    PROVE  \E left : Remains(left, rows, amount)
<1> DEFINE Next(f, n) == f[n - 1] - Lesser(lots[rows[n]].left, f[n - 1])
           T == {m \in Nat : \E f : f = [n \in 0 .. m |-> IF n = 0 THEN amount ELSE Next(f, n)]}
<1>1. 0 \in T
  <2> DEFINE f == [n \in 0 .. 0 |-> amount]
  <2>1. f = [n \in 0 .. 0 |-> IF n = 0 THEN amount ELSE Next(f, n)]
    OBVIOUS
  <2> QED BY <2>1
<1>2. ASSUME NEW m \in Nat, m \in T PROVE m + 1 \in T
  <2>1. PICK f : f = [n \in 0 .. m |-> IF n = 0 THEN amount ELSE Next(f, n)]
    BY <1>2
  <2> DEFINE g == [n \in 0 .. m + 1 |-> IF n = m + 1 THEN Next(f, n) ELSE f[n]]
  <2>2. \A n \in 0 .. m : f[n] = IF n = 0 THEN amount ELSE Next(f, n)
    BY <2>1
  <2>3. ASSUME NEW n \in 0 .. m + 1
        PROVE  g[n] = IF n = 0 THEN amount ELSE Next(g, n)
    <3>1. CASE n = m + 1
      <4>1. g[n] = Next(f, n) /\ n # 0 /\ n - 1 = m /\ m # m + 1 /\ m \in 0 .. m + 1
        BY <3>1
      <4>2. g[n - 1] = f[n - 1]
        BY <4>1
      <4> QED BY Zenon, <4>1, <4>2
    <3>2. CASE n # m + 1
      <4>1. n \in 0 .. m /\ g[n] = f[n]
        BY <3>2
      <4>2. n # 0 => g[n - 1] = f[n - 1]
        BY <4>1
      <4> HIDE DEF g
      <4>3. f[n] = IF n = 0 THEN amount ELSE Next(f, n)
        BY <2>2, <4>1
      <4> QED BY Zenon, <4>1, <4>2, <4>3
    <3> QED BY <3>1, <3>2
  <2>4. g = [n \in 0 .. m + 1 |-> g[n]]
    OBVIOUS
  <2> HIDE DEF g, Next
  <2>5. g = [n \in 0 .. m + 1 |-> IF n = 0 THEN amount ELSE Next(g, n)]
    BY <2>3, <2>4
  <2> QED BY <2>5
<1> HIDE DEF T
<1>3. Nat \subseteq T
  BY <1>1, <1>2, NatSetInduction
<1>4. Len(rows) \in T
  BY <1>3
<1> QED BY Zenon, <1>4 DEF T, Remains

\* The loop starts at the amount and takes from each row what there is and is needed.
LEMMA RemainingSteps ==
    ASSUME NEW rows, Len(rows) \in Nat, NEW amount
    PROVE  LET left == Remaining(rows, amount)
           IN  /\ left[0] = amount
               /\ \A n \in 1 .. Len(rows) :
                     left[n] = left[n - 1] - Lesser(lots[rows[n]].left, left[n - 1])
<1> DEFINE left == Remaining(rows, amount)
<1>1. left = CHOOSE f : Remains(f, rows, amount)
  BY DEF Remaining, Remains
<1>2. Remains(left, rows, amount)
  BY <1>1, RemainsExist
<1> HIDE DEF left
<1>3. \A n \in 0 .. Len(rows) :
          left[n] = IF n = 0 THEN amount
                             ELSE left[n - 1] - Lesser(lots[rows[n]].left, left[n - 1])
  BY <1>2 DEF Remains
<1>4. 0 \in 0 .. Len(rows) /\ \A n \in 1 .. Len(rows) : n \in 0 .. Len(rows) /\ n # 0
  OBVIOUS
<1> QED BY <1>3, <1>4 DEF left

\* After n rows there remains what these rows could not give.
LEMMA RemainingIs ==
    ASSUME LotsTyped, NEW amount \in Nat
    PROVE  \A n \in 0 .. Len(Rows) :
               LET given == LeftIn(lots, {Rows[m] : m \in 1 .. n})
               IN  /\ given \in Nat
                   /\ Remaining(Rows, amount)[n] = Greater(0, amount - given)
<1> DEFINE A == Active(lots)
           N == Cardinality(A)
           left == Remaining(Rows, amount)
           Read(n) == {Rows[m] : m \in 1 .. n}
           given(n) == LeftIn(lots, Read(n))
           T == {n \in Nat : n <= N => left[n] = Greater(0, amount - given(n))}
<1>1. lots \in Seq(OpenLot)
  BY DEF LotsTyped
<1>2. /\ N \in Nat /\ Len(Rows) = N
      /\ \A m, n \in 1 .. N : Rows[m] = Rows[n] => m = n
      /\ \A n \in 1 .. N : Rows[n] \in A
  BY RowsFacts
<1>3. /\ A \in SUBSET DOMAIN lots
      /\ \A i \in A : lots[i].left \in Nat /\ lots[i].left \in Int /\ Lefts(lots)[i] = lots[i].left
  BY <1>1, LotsFacts
<1>4. /\ left[0] = amount
      /\ \A n \in 1 .. N : left[n] = left[n - 1] - Lesser(lots[Rows[n]].left, left[n - 1])
  BY <1>2, RemainingSteps
<1> HIDE DEF N, A, left
<1>5. ASSUME NEW n \in 0 .. N
      PROVE  /\ Read(n) \in SUBSET A /\ Read(n) \in SUBSET DOMAIN lots
             /\ IsFiniteSet(Read(n))
             /\ given(n) = SumFunctionOnSet(Lefts(lots), Read(n)) /\ given(n) \in Nat
  <2>1. Read(n) \in SUBSET A
    BY <1>2
  <2>2. Read(n) \in SUBSET DOMAIN lots
    BY <1>3, <2>1
  <2> HIDE DEF Read
  <2> QED BY <1>1, <2>1, <2>2, LeftInSum
<1>6. ASSUME NEW n \in 0 .. N, n + 1 <= N
      PROVE  given(n + 1) = given(n) + lots[Rows[n + 1]].left
  <2> DEFINE i == Rows[n + 1]
  <2>1. n + 1 \in 1 .. N /\ i \in A /\ n + 1 \in 0 .. N
    BY <1>2, <1>6
  <2>2. i \notin Read(n)
    <3>1. \A m \in 1 .. n : m \in 1 .. N /\ m # n + 1
      BY <1>2, <1>6
    <3> QED BY <1>2, <2>1, <3>1
  <2>3. Read(n + 1) = Read(n) \cup {i}
    <3>1. 1 .. n + 1 = (1 .. n) \cup {n + 1}
      OBVIOUS
    <3> QED BY <3>1
  <2>4. /\ Read(n) \in SUBSET A /\ IsFiniteSet(Read(n))
        /\ given(n) = SumFunctionOnSet(Lefts(lots), Read(n))
        /\ given(n + 1) = SumFunctionOnSet(Lefts(lots), Read(n + 1))
    BY <1>5, <2>1
  <2>5. \A j \in A : Lefts(lots)[j] \in Int
    BY <1>3
  <2> HIDE DEF i, Read
  <2>6. SumFunctionOnSet(Lefts(lots), Read(n) \cup {i})
            = SumFunctionOnSet(Lefts(lots), Read(n)) + Lefts(lots)[i]
    BY <2>1, <2>2, <2>4, <2>5, SumAdd
  <2>7. Lefts(lots)[i] = lots[i].left
    BY <1>3, <2>1
  <2> QED BY Zenon, <2>3, <2>4, <2>6, <2>7 DEF i
<1>7. 0 \in T
  <2>1. Read(0) = {}
    OBVIOUS
  <2>2. 0 \in 0 .. N
    BY <1>2
  <2>3. given(0) = SumFunctionOnSet(Lefts(lots), Read(0))
    BY <1>5, <2>2
  <2>4. given(0) = 0
    <3> HIDE DEF Read
    <3> QED BY <2>1, <2>3, SumEmpty
  <2> HIDE DEF given
  <2> QED BY <1>4, <2>4 DEF Greater
<1>8. ASSUME NEW n \in Nat, n \in T PROVE n + 1 \in T
  <2> SUFFICES ASSUME n + 1 <= N
               PROVE  left[n + 1] = Greater(0, amount - given(n + 1))
    OBVIOUS
  <2>1. n \in 0 .. N /\ n + 1 \in 1 .. N /\ n + 1 \in 0 .. N /\ (n + 1) - 1 = n
    BY <1>2
  <2>2. left[n] = Greater(0, amount - given(n))
    BY <1>8, <2>1
  <2>3. left[n + 1] = left[n] - Lesser(lots[Rows[n + 1]].left, left[n])
    BY <1>4, <2>1
  <2>4. given(n + 1) = given(n) + lots[Rows[n + 1]].left
    BY <1>6, <2>1
  <2>5. given(n) \in Nat /\ lots[Rows[n + 1]].left \in Nat
    BY <1>2, <1>3, <1>5, <2>1
  <2> HIDE DEF given, Read
  <2> QED BY <2>2, <2>3, <2>4, <2>5 DEF Greater, Lesser
<1> HIDE DEF T
<1>9. Nat \subseteq T
  BY <1>7, <1>8, NatSetInduction
<1>10. ASSUME NEW n \in 0 .. N
       PROVE  given(n) \in Nat /\ left[n] = Greater(0, amount - given(n))
  <2>1. n \in Nat /\ n <= N
    BY <1>2
  <2> QED BY <1>5, <1>9, <2>1 DEF T
<1> QED BY <1>2, <1>10 DEF left, N

\* The loop of load_fifo_lot_debits takes from each lot what FifoTake says, and covers
\* the amount when the lots do.
LEMMA LoopIsFifo == LotsTyped => WithdrawalLoop
<1> SUFFICES ASSUME LotsTyped, NEW amount \in Amounts
             PROVE  LET left == Remaining(Rows, amount)
                    IN  /\ \A n \in DOMAIN Rows :
                               FifoTake(lots, amount, Rows[n]) = left[n - 1] - left[n]
                        /\ (left[Len(Rows)] = 0) <=> LotsCover(lots, amount)
                        /\ LotsCover(lots, amount) =>
                               Principal(Debited(lots, amount)) = Principal(lots) - amount
  BY DEF WithdrawalLoop
<1> DEFINE N == Cardinality(Active(lots))
           left == Remaining(Rows, amount)
           given(n) == LeftIn(lots, {Rows[m] : m \in 1 .. n})
<1>1. lots \in Seq(OpenLot) /\ amount \in Nat
  BY TriedAssumption DEF LotsTyped
<1>2. /\ N \in Nat /\ Len(Rows) = N /\ DOMAIN Rows = 1 .. N
      /\ \A i \in Active(lots) : \E n \in 1 .. N : Rows[n] = i
      /\ \A n \in 1 .. N : Rows[n] \in Active(lots)
                           /\ Ahead(lots, Rows[n]) = {Rows[m] : m \in 1 .. n - 1}
  BY RowsFacts
<1>3. \A n \in 0 .. N : given(n) \in Nat /\ left[n] = Greater(0, amount - given(n))
  <2>1. \A n \in 0 .. Len(Rows) : given(n) \in Nat /\ left[n] = Greater(0, amount - given(n))
    BY <1>1, RemainingIs
  <2> QED BY <1>2, <2>1
<1>4. \A n \in 1 .. N : left[n] = left[n - 1] - Lesser(lots[Rows[n]].left, left[n - 1])
  BY <1>2, RemainingSteps
<1> HIDE DEF left
<1>5. ASSUME NEW n \in 1 .. N
      PROVE  FifoTake(lots, amount, Rows[n]) = left[n - 1] - left[n]
  <2>1. n - 1 \in 0 .. N
    BY <1>2
  <2>2. left[n - 1] = Greater(0, amount - given(n - 1)) /\ given(n - 1) \in Nat
    BY <1>3, <2>1
  <2>3. LeftIn(lots, Ahead(lots, Rows[n])) = given(n - 1)
    BY <1>2
  <2>4. FifoTake(lots, amount, Rows[n]) = Lesser(lots[Rows[n]].left, left[n - 1])
    BY Zenon, <2>2, <2>3 DEF FifoTake
  <2>5. Rows[n] \in Active(lots) /\ Active(lots) \in SUBSET DOMAIN lots
    BY <1>1, <1>2, LotsFacts
  <2>6. lots[Rows[n]].left \in Nat
    BY <1>1, <2>5, LotsFacts
  <2>7. left[n] = left[n - 1] - Lesser(lots[Rows[n]].left, left[n - 1])
    BY <1>4
  <2> HIDE DEF given
  <2> QED BY <1>1, <2>2, <2>4, <2>6, <2>7 DEF Lesser, Greater
<1>6. left[N] = 0 <=> LotsCover(lots, amount)
  <2>1. {Rows[m] : m \in 1 .. N} = Active(lots)
    BY <1>2
  <2>2. given(N) = Principal(lots)
    BY <2>1 DEF Principal
  <2>3. N \in 0 .. N
    BY <1>2
  <2>4. left[N] = Greater(0, amount - Principal(lots)) /\ Principal(lots) \in Nat
    BY <1>3, <2>2, <2>3
  <2> HIDE DEF N
  <2> QED BY <1>1, <2>4 DEF Greater, LotsCover
<1>7. LotsCover(lots, amount) =>
          Principal(Debited(lots, amount)) = Principal(lots) - amount
  BY <1>1, DebitExact
<1> QED BY <1>2, <1>5, <1>6, <1>7 DEF left

---------------------------------------------------------------------------
(* The loop that shares out interest.                                      *)

\* The order of the loop's second pass: by descending fraction, then as read.
Larger(rest, N) ==
    [n \in 1 .. N |-> {m \in 1 .. N : (rest[m] > rest[n]) \/ (rest[m] = rest[n] /\ m < n)}]

\* It is one.
LEMMA LargerOrders ==
    ASSUME NEW N \in Nat, NEW rest, \A n \in 1 .. N : rest[n] \in Nat
    PROVE  TotalOrder(Larger(rest, N), 1 .. N)
<1> DEFINE before == Larger(rest, N)
<1>1. \A m, n \in 1 .. N :
          m \in before[n] <=> (rest[m] > rest[n]) \/ (rest[m] = rest[n] /\ m < n)
  BY DEF Larger
<1>2. \A n \in 1 .. N : before[n] \subseteq 1 .. N
  BY DEF Larger
<1> HIDE DEF before
<1>3. \A n \in 1 .. N : n \notin before[n]
  BY <1>1
<1>4. \A m, n \in 1 .. N : m # n => m \in before[n] \/ n \in before[m]
  BY <1>1
<1>5. \A m, n \in 1 .. N : m \in before[n] => before[m] \subseteq before[n]
  <2> SUFFICES ASSUME NEW m \in 1 .. N, NEW n \in 1 .. N, m \in before[n],
                      NEW k \in before[m]
               PROVE  k \in before[n]
    OBVIOUS
  <2>1. k \in 1 .. N
    BY <1>2
  <2> QED BY <1>1, <2>1
<1> QED BY <1>2, <1>3, <1>4, <1>5 DEF TotalOrder, before

\* The second pass gives a unit to the rows that the model ranks below what is left.
LEMMA UnitsAreRanked ==
    ASSUME NEW N \in Nat, NEW rest, \A n \in 1 .. N : rest[n] \in Nat,
           NEW left \in 0 .. N, NEW n \in 1 .. N
    PROVE  (\E k \in 1 .. left : Ordered(1 .. N, Larger(rest, N))[k] = n)
               <=> Cardinality(Larger(rest, N)[n]) < left
<1> DEFINE before == Larger(rest, N)
           order == Ordered(1 .. N, before)
<1>1. IsFiniteSet(1 .. N) /\ Cardinality(1 .. N) = N
  <2>1. IsFiniteSet(1 .. N) /\ Cardinality(1 .. N) = IF 1 > N THEN 0 ELSE N - 1 + 1
    BY FS_Interval
  <2> QED BY <2>1
<1>2. TotalOrder(before, 1 .. N)
  BY LargerOrders
<1> HIDE DEF before
<1>3. Listing(order, before, 1 .. N)
  BY <1>1, <1>2, OrderedLists, ListFacts
<1> HIDE DEF order
<1>4. /\ \A k \in 1 .. N : Cardinality(before[order[k]]) = k - 1
      /\ \E k \in 1 .. N : order[k] = n
  BY <1>1, <1>3 DEF Listing
<1>5. PICK k \in 1 .. N : order[k] = n
  BY <1>4
<1>6. Cardinality(before[n]) = k - 1
  BY <1>4, <1>5
<1>7. ASSUME NEW j \in 1 .. left, order[j] = n PROVE Cardinality(before[n]) < left
  <2>1. j \in 1 .. N
    OBVIOUS
  <2>2. Cardinality(before[n]) = j - 1
    BY <1>4, <1>7, <2>1
  <2> QED BY <2>2
<1>8. ASSUME Cardinality(before[n]) < left PROVE \E j \in 1 .. left : order[j] = n
  <2>1. k \in 1 .. left
    BY <1>6, <1>8
  <2> QED BY <1>5, <2>1
<1> QED BY <1>7, <1>8 DEF before, order

\* The allocation loop gives each lot the InterestShare of the model.
LEMMA AllocationsAreShares ==
    ASSUME LotsTyped, NEW interest \in Nat, NEW bank \in Nat \ {0}, Principal(lots) = bank,
           NEW n \in DOMAIN Rows
    PROVE  Allocations(Rows, interest, bank)[n] = InterestShare(lots, interest, bank, Rows[n])
<1> DEFINE A == Active(lots)
           N == Cardinality(A)
           D == 1 .. N
           share == [m \in D |-> FloorShare(lots, interest, bank, Rows[m])]
           rest == [m \in D |-> Fraction(lots, interest, bank, Rows[m])]
           order == Ordered(D, Larger(rest, N))
           left == interest - SumFunction(share)
           floor == [i \in A |-> FloorShare(lots, interest, bank, i)]
           frac == [i \in A |-> Fraction(lots, interest, bank, i)]
<1>1. lots \in Seq(OpenLot)
  BY DEF LotsTyped
<1>2. /\ N \in Nat /\ DOMAIN Rows = D /\ IsFiniteSet(D)
      /\ \A k, m \in D : Rows[k] = Rows[m] => k = m
      /\ \A i \in A : \E m \in D : Rows[m] = i
      /\ \A m \in D : Rows[m] \in A /\ Ahead(lots, Rows[m]) = {Rows[k] : k \in 1 .. m - 1}
  BY RowsFacts
<1>3. /\ \A i \in A : floor[i] \in Nat /\ frac[i] \in Nat
      /\ Leftover(lots, interest, bank) \in 0 .. N
  BY <1>1, LeftoverBounds
<1>4. Allocations(Rows, interest, bank)[n]
          = share[n] + (IF \E k \in 1 .. left : order[k] = n THEN 1 ELSE 0)
  <2>1. DOMAIN Rows = D /\ n \in D
    BY <1>2
  <2>2. Allocations(Rows, interest, bank) =
            [m \in D |-> share[m] + (IF \E k \in 1 .. left : order[k] = m THEN 1 ELSE 0)]
    BY Zenon, <2>1 DEF Allocations, FloorShare, Fraction, Larger
  <2> HIDE DEF share, order, left, D
  <2> QED BY <2>1, <2>2
<1>5. left = Leftover(lots, interest, bank)
  <2>1. \A m \in D : share[m] = floor[Rows[m]] /\ share[m] \in Int
    <3>1. \A m \in D : Rows[m] \in A
      BY <1>2
    <3>2. \A m \in D : share[m] = floor[Rows[m]]
      BY <3>1
    <3>3. \A m \in D : floor[Rows[m]] \in Nat
      BY <1>3, <3>1
    <3> HIDE DEF share, floor, D
    <3> QED BY <3>2, <3>3
  <2>2. {Rows[m] : m \in D} = A
    BY <1>2
  <2>3. Leftover(lots, interest, bank) = interest - SumFunctionOnSet(floor, A)
    BY DEF Leftover, SumFunction
  <2>4. left = interest - SumFunctionOnSet(share, D)
    BY DEF SumFunction
  <2> DEFINE r == Rows
  <2> HIDE DEF share, floor, D, A, r, left
  <2>5. SumFunctionOnSet(floor, {r[m] : m \in D}) = SumFunctionOnSet(share, D)
    <3>1. IsFiniteSet(D) /\ \A k, m \in D : r[k] = r[m] => k = m
      BY <1>2 DEF r
    <3>2. \A m \in D : share[m] = floor[r[m]] /\ share[m] \in Int
      BY <2>1 DEF r
    <3> QED BY <3>1, <3>2, SumRenamed
  <2>6. SumFunctionOnSet(floor, A) = SumFunctionOnSet(share, D)
    BY Zenon, <2>2, <2>5 DEF r
  <2> QED BY Zenon, <2>3, <2>4, <2>6
<1>6. \A m \in D : rest[m] = frac[Rows[m]] /\ rest[m] \in Nat
  <2>1. \A m \in D : Rows[m] \in A
    BY <1>2
  <2>2. \A m \in D : rest[m] = frac[Rows[m]]
    BY <2>1
  <2> HIDE DEF rest, frac
  <2> QED BY <1>3, <2>1, <2>2
<1>7. Cardinality(RankedBefore(lots, interest, bank, Rows[n])) = Cardinality(Larger(rest, N)[n])
  <2> DEFINE B == Larger(rest, N)[n]
  <2>1. n \in D
    BY <1>2
  <2>2. B = {m \in D : (rest[m] > rest[n]) \/ (rest[m] = rest[n] /\ m < n)}
    BY <2>1 DEF Larger
  <2>3. B \in SUBSET D /\ IsFiniteSet(B)
    <3>1. B \in SUBSET D
      BY <2>2
    <3> HIDE DEF B, D
    <3> QED BY <1>2, <3>1, FS_Subset
  <2>4. \A i \in A : i \in RankedBefore(lots, interest, bank, Rows[n]) <=>
            \/ frac[i] > frac[Rows[n]]
            \/ frac[i] = frac[Rows[n]] /\ i \in Ahead(lots, Rows[n])
    BY <1>2, <2>1 DEF RankedBefore
  <2>5. RankedBefore(lots, interest, bank, Rows[n]) \in SUBSET A
    BY DEF RankedBefore
  <2>6. ASSUME NEW m \in D
        PROVE  Rows[m] \in Ahead(lots, Rows[n]) <=> m < n
    <3>1. Ahead(lots, Rows[n]) = {Rows[k] : k \in 1 .. n - 1}
      BY <1>2, <2>1
    <3>2. m < n => m \in 1 .. n - 1
      BY <1>2, <2>1
    <3>3. \A k \in 1 .. n - 1 : k \in D /\ k < n
      BY <1>2, <2>1
    <3>4. \A k \in 1 .. n - 1 : Rows[k] = Rows[m] => k = m
      BY <1>2, <3>3
    <3> HIDE DEF D
    <3> QED BY <3>1, <3>2, <3>3, <3>4
  <2> DEFINE R == RankedBefore(lots, interest, bank, Rows[n])
             r == Rows
  <2>7. \A m \in D : r[m] \in R <=> m \in B
    <3> SUFFICES ASSUME NEW m \in D PROVE r[m] \in R <=> m \in B
      OBVIOUS
    <3>1. r[m] \in A /\ rest[m] = frac[r[m]] /\ rest[n] = frac[r[n]]
      BY <1>2, <1>6, <2>1
    <3>2. r[m] \in R <=> \/ frac[r[m]] > frac[r[n]]
                         \/ frac[r[m]] = frac[r[n]] /\ r[m] \in Ahead(lots, r[n])
      BY <2>4, <3>1
    <3>3. m \in B <=> (rest[m] > rest[n]) \/ (rest[m] = rest[n] /\ m < n)
      BY <2>2
    <3> HIDE DEF B, R, D, A, rest, frac, r
    <3> QED BY <2>6, <3>1, <3>2, <3>3 DEF r
  <2>8. R = {r[m] : m \in B}
    <3>1. \A i \in R : \E m \in D : r[m] = i
      BY <1>2, <2>5
    <3> HIDE DEF B, R, D, A, r
    <3> QED BY <2>3, <2>7, <3>1
  <2>9. \A k, m \in B : r[k] = r[m] => k = m
    <3> HIDE DEF B, D
    <3> QED BY <1>2, <2>3
  <2> HIDE DEF B, R, D, r
  <2>10. Cardinality({r[m] : m \in B}) = Cardinality(B)
    BY <2>3, <2>9, ImageCardinality
  <2> QED BY Zenon, <2>8, <2>10 DEF R, B
<1>8. (\E k \in 1 .. left : order[k] = n) <=> Cardinality(Larger(rest, N)[n]) < left
  <2>1. n \in 1 .. N /\ N \in Nat /\ left \in 0 .. N /\ \A m \in 1 .. N : rest[m] \in Nat
    BY <1>2, <1>3, <1>5, <1>6
  <2> HIDE DEF N, rest, left
  <2> QED BY <2>1, UnitsAreRanked
<1>9. InterestShare(lots, interest, bank, Rows[n]) =
          FloorShare(lots, interest, bank, Rows[n])
              + (IF Cardinality(RankedBefore(lots, interest, bank, Rows[n]))
                         < Leftover(lots, interest, bank)
                 THEN 1 ELSE 0)
  BY DEF InterestShare
<1>10. share[n] = FloorShare(lots, interest, bank, Rows[n])
  BY <1>2
<1> HIDE DEF share, order, left, rest, N, A, D
<1> QED BY Zenon, <1>4, <1>5, <1>7, <1>8, <1>9, <1>10

\* The whole of the property: the loop, the balance and the quota.
LEMMA AllocationHolds == LotsTyped => AllocationExact
<1> DEFINE bank == Principal(lots)
<1> SUFFICES ASSUME LotsTyped, bank > 0, NEW interest \in Interests
             PROVE  LET share == Allocations(Rows, interest, bank)
                    IN  /\ \A n \in DOMAIN Rows :
                            LET i == Rows[n]
                                quota == interest * lots[i].left
                            IN  /\ InterestShare(lots, interest, bank, i) = share[n]
                                /\ share[n] * bank - quota \in (1 - bank) .. (bank - 1)
                        /\ Principal(Credited(lots, interest, bank)) = bank + interest
  BY Zenon DEF AllocationExact
<1>1. lots \in Seq(OpenLot) /\ interest \in Nat
  BY DEF LotsTyped, Interests
<1>2. Principal(lots) \in Nat \ {0}
  <2>1. Principal(lots) \in Nat
    BY <1>1, PrincipalSum
  <2> QED BY <2>1
<1>3. ASSUME NEW n \in DOMAIN Rows
      PROVE  /\ InterestShare(lots, interest, bank, Rows[n]) = Allocations(Rows, interest, bank)[n]
             /\ Allocations(Rows, interest, bank)[n] * bank - interest * lots[Rows[n]].left
                    \in (1 - bank) .. (bank - 1)
  <2>1. Rows[n] \in Active(lots)
    BY RowsFacts
  <2>2. InterestShare(lots, interest, bank, Rows[n]) * bank - interest * lots[Rows[n]].left
            \in (1 - bank) .. (bank - 1)
    BY <1>1, <1>2, <2>1, ShareNearQuota
  <2>3. InterestShare(lots, interest, bank, Rows[n]) = Allocations(Rows, interest, bank)[n]
    BY <1>1, <1>2, AllocationsAreShares
  <2> QED BY Zenon, <2>2, <2>3
<1>4. Principal(Credited(lots, interest, bank)) = bank + interest
  BY <1>1, <1>2, InterestExact
<1> QED BY Zenon, <1>3, <1>4

\* The loop and the fee.
LEMMA WithdrawalHolds == LotsTyped => WithdrawalExact
<1> SUFFICES ASSUME LotsTyped PROVE FeeBelowGross
  BY LoopIsFifo DEF WithdrawalExact
<1> SUFFICES ASSUME NEW amount \in Amounts, NEW prior \in Priors, NEW surplus \in Surpluses,
                    NEW time \in Times, LotsCover(lots, amount), amount >= MinWithdrawal
             PROVE  FeeAt(amount, prior, surplus, time) \in 1 .. (amount - 1)
  BY DEF FeeBelowGross
<1>1. lots \in Seq(OpenLot) /\ amount \in Nat /\ prior \in Nat /\ surplus \in Nat /\ time \in Nat
  BY TriedAssumption DEF LotsTyped
<1> DEFINE bank == Principal(lots) + surplus
<1>2. bank \in Nat
  <2>1. Principal(lots) \in Nat
    BY <1>1, PrincipalSum
  <2> QED BY <1>1, <2>1
<1> HIDE DEF bank
<1>3. WithdrawalFee(lots, amount, bank, prior, time) \in 1 .. (amount - 1)
  BY <1>1, <1>2, FeeWithin
<1> QED BY <1>3 DEF FeeAt, bank

\* In every table of lots, for every amount and history: the loop of a withdrawal takes
\* what the model says, and the fee is at least one and less than the amount
\* (load_fifo_lot_debits, withdrawal_fee).
THEOREM WithdrawalsExact == LotsSpec => []WithdrawalExact
BY LotsAlwaysTyped, WithdrawalHolds, PTL

\* In every table of lots: the loop that shares out interest gives what the model says,
\* all of it and no more, each share within a unit of its quota
\* (allocate_interest_to_lots).
THEOREM AllocationsExact == LotsSpec => []AllocationExact
BY LotsAlwaysTyped, AllocationHolds, PTL

---------------------------------------------------------------------------
(* Quotients.                                                              *)

\* A quotient reaches what the dividend reaches.
LEMMA QuotientReaches ==
    ASSUME NEW n \in Nat, NEW d \in Nat \ {0}, NEW m \in Nat
    PROVE  n \div d >= m <=> n >= d * m
<1> DEFINE q == n \div d
           r == n % d
<1>1. q \in Nat /\ r \in 0 .. (d - 1) /\ n = d * q + r
  BY Division
<1> HIDE DEF q, r
<1>2. d * m \in Nat /\ d * q \in Nat
  BY <1>1
<1>3. CASE q >= m
  <2>1. d * m <= d * q
    BY <1>1, <1>3, Multiples
  <2> QED BY <1>1, <1>2, <1>3, <2>1 DEF q
<1>4. CASE q < m
  <2>1. q + 1 \in Nat /\ q + 1 <= m
    BY <1>1, <1>4
  <2>2. d * (q + 1) <= d * m
    BY <2>1, Multiples
  <2>3. d * (q + 1) = d * q + d
    BY <1>1
  <2>4. n < d * m
    BY <1>1, <1>2, <2>2, <2>3
  <2> QED BY <1>1, <1>2, <1>4, <2>4 DEF q
<1> QED BY <1>1, <1>3, <1>4

---------------------------------------------------------------------------
(* A smelting job.                                                         *)

\* The confirmed units need all the fuel that is reserved, and it is enough.
LEMMA PreviewCovers ==
    ASSUME NEW requested \in Nat, NEW fuel \in Fuels, NEW available \in Nat
    PROVE  LET p == Preview(requested, fuel, available)
           IN  /\ p.items \in Nat /\ p.units \in 0 .. requested
               /\ Preview(p.units, fuel, p.items) = [items |-> p.items, units |-> p.units]
<1>1. CASE fuel = "COAL"
  BY <1>1 DEF Preview, Smaller, Needed, Quotient, Heat, HeatPerUnit
<1>2. CASE fuel = "WOOD_LOG"
  BY <1>2 DEF Preview, Smaller, Needed, Quotient, Heat, HeatPerUnit
<1> QED BY <1>1, <1>2 DEF Fuels

\* The fuel that is opened for some of the units is the least that they need, and is
\* among what is reserved.
LEMMA OpenedFits ==
    ASSUME NEW units \in Nat, NEW fuel \in Fuels, NEW items \in Nat,
           Preview(units, fuel, items) = [items |-> items, units |-> units],
           NEW made \in 0 .. units
    PROVE  /\ Opened(made, fuel) \in 0 .. items
           /\ Opened(made, fuel) * Heat(fuel) - made * HeatPerUnit \in 0 .. (Heat(fuel) - 1)
<1>1. Smaller((items * Heat(fuel)) \div HeatPerUnit, units) = units
  BY DEF Preview, Smaller
<1>2. CASE fuel = "COAL"
  BY <1>1, <1>2 DEF Opened, Smaller, Needed, Quotient, Heat, HeatPerUnit
<1>3. CASE fuel = "WOOD_LOG"
  BY <1>1, <1>3 DEF Opened, Smaller, Needed, Quotient, Heat, HeatPerUnit
<1> QED BY <1>2, <1>3 DEF Fuels

\* The clock is the start of the job and all the time since, frozen or worked.
Timed ==
    /\ now \in Nat /\ paused \in Nat /\ worked \in Nat
    /\ job # NoJob =>
           /\ job.units \in Nat \ {0} /\ job.fuel \in Fuels /\ job.items \in Nat
           /\ job.started \in Nat
           /\ now = job.started + paused + worked
           /\ Covered(job)

\* What the clock of a job says of its progress.
LEMMA Progress ==
    ASSUME Timed, job # NoJob
    PROVE  /\ Elapsed \in Nat /\ Completed \in 0 .. job.units
           /\ Completed = Smaller(worked \div UnitTime, job.units)
           /\ IsFinished <=> worked >= job.units * UnitTime
<1> DEFINE units == job.units
           total == units * UnitTime
<1>1. /\ units \in Nat \ {0} /\ worked \in Nat /\ UnitTime \in Nat \ {0}
      /\ job.started \in Nat /\ now = job.started + paused + worked /\ paused \in Nat
  BY UnitTimeAssumption DEF Timed
<1>2. total \in Nat /\ total = UnitTime * units /\ total > 0
  BY <1>1
<1> HIDE DEF total
<1>3. Elapsed = IF worked >= total THEN total ELSE worked
  BY <1>1, <1>2 DEF Elapsed, Observed, CompletesAt, total
<1>4. worked \div UnitTime \in Nat /\ total \div UnitTime \in Nat
  BY <1>1, <1>2, Division
<1>5. worked \div UnitTime >= units <=> worked >= total
  BY <1>1, <1>2, QuotientReaches
<1>6. total \div UnitTime >= units
  BY <1>1, <1>2, QuotientReaches
<1>7. CASE worked >= total
  <2>1. Completed = units /\ Elapsed = total
    BY <1>1, <1>2, <1>3, <1>4, <1>6, <1>7 DEF Completed, Smaller
  <2>2. Smaller(worked \div UnitTime, units) = units
    BY <1>1, <1>4, <1>5, <1>7 DEF Smaller
  <2> QED BY <1>1, <1>2, <1>7, <2>1, <2>2 DEF IsFinished, total
<1>8. CASE ~ (worked >= total)
  <2>1. Elapsed = worked /\ Completed = Smaller(worked \div UnitTime, units)
    BY <1>3, <1>8 DEF Completed
  <2>2. worked \div UnitTime < units
    BY <1>1, <1>4, <1>5, <1>8
  <2>3. Completed = worked \div UnitTime /\ Completed \in 0 .. units /\ Completed # units
    BY <1>1, <1>4, <2>1, <2>2 DEF Smaller
  <2> QED BY <1>1, <1>8, <2>1, <2>3 DEF IsFinished, total
<1> QED BY <1>7, <1>8

---------------------------------------------------------------------------
(* What the actions preserve.                                              *)

\* The types of a plan that was made, and what it says of the job it ended.
PlanBalances ==
    plan # NoJob =>
        /\ plan.made >= 0 /\ plan.input >= 0 /\ plan.fuel >= 0 /\ plan.lost >= 0
        /\ plan.made + plan.input = plan.of.units
        /\ plan.opened + plan.fuel = plan.of.items
        /\ plan.made * HeatPerUnit + plan.lost = plan.opened * Heat(plan.of.fuel)
        /\ plan.lost < Heat(plan.of.fuel)
        /\ plan.wasted < UnitTime

\* The inductive invariant.
JobInv == Timed /\ PlanBalances

\* It gives both properties of the runs.
LEMMA JobInvGives == JobInv => EndBalances /\ WorkIsCounted
<1> SUFFICES ASSUME JobInv PROVE EndBalances /\ WorkIsCounted
  OBVIOUS
<1>1. WorkIsCounted
  BY Progress DEF WorkIsCounted, JobInv, PlanBalances
<1>2. EndBalances
  BY DEF EndBalances, JobInv, PlanBalances, Timed
<1> QED BY <1>1, <1>2

\* No job and no plan: the invariant says nothing but that the clocks are at 0.
LEMMA JobInitHolds == JobInit => JobInv
BY DEF JobInit, JobInv, Timed, PlanBalances

\* A confirmed job is covered, and its clocks start with it.
LEMMA ConfirmKeeps == JobInv /\ Confirm => JobInv'
<1> SUFFICES ASSUME JobInv, Confirm PROVE JobInv'
  OBVIOUS
<1>1. PICK requested \in 1 .. MaxUnits, fuel \in Fuels, available \in 0 .. MaxFuel :
          /\ Preview(requested, fuel, available).units > 0
          /\ job' = [units |-> Preview(requested, fuel, available).units, fuel |-> fuel,
                     items |-> Preview(requested, fuel, available).items, started |-> now]
  BY DEF Confirm
<1> DEFINE p == Preview(requested, fuel, available)
<1>2. /\ p.items \in Nat /\ p.units \in 0 .. requested
      /\ Preview(p.units, fuel, p.items) = [items |-> p.items, units |-> p.units]
  BY PreviewCovers
<1>3. p.units > 0 /\ job' = [units |-> p.units, fuel |-> fuel, items |-> p.items, started |-> now]
  BY <1>1
<1> HIDE DEF p
<1>4. /\ job'.units = p.units /\ job'.fuel = fuel /\ job'.items = p.items
      /\ job'.started = now
  BY <1>3
<1>5. Covered(job)'
  BY <1>2, <1>4 DEF Covered
<1>6. now \in Nat /\ now' = now /\ paused' = 0 /\ worked' = 0 /\ plan = NoJob /\ plan' = plan
  BY DEF Confirm, JobInv, Timed
<1>7. Timed'
  BY <1>2, <1>3, <1>4, <1>5, <1>6 DEF Timed
<1> QED BY <1>6, <1>7 DEF JobInv, PlanBalances

\* A tick of the clock is a tick of work or of a Hard Freeze.
LEMMA TickKeeps == JobInv /\ Tick => JobInv'
<1> SUFFICES ASSUME JobInv, Tick PROVE JobInv'
  OBVIOUS
<1>1. /\ now \in Nat /\ paused \in Nat /\ worked \in Nat /\ now' = now + 1
      /\ job' = job /\ plan' = plan
      /\ \/ paused' = paused + 1 /\ worked' = worked
         \/ worked' = worked + 1 /\ paused' = paused
  BY DEF Tick, JobInv, Timed
<1>2. Covered(job)' <=> Covered(job)
  BY <1>1 DEF Covered
<1>3. Timed'
  BY <1>1, <1>2 DEF JobInv, Timed
<1> QED BY <1>1, <1>3 DEF JobInv, PlanBalances

\* Whether time is frozen is no part of what the snapshot says.
LEMMA FreezeKeeps == JobInv /\ (Freeze \/ UNCHANGED jobVars) => JobInv'
<1> SUFFICES ASSUME JobInv, Freeze \/ UNCHANGED jobVars PROVE JobInv'
  OBVIOUS
<1>1. /\ now' = now /\ paused' = paused /\ worked' = worked
      /\ job' = job /\ plan' = plan
  BY DEF Freeze, jobVars
<1>2. Covered(job)' <=> Covered(job)
  BY <1>1 DEF Covered
<1>3. Timed'
  BY <1>1, <1>2 DEF JobInv, Timed
<1> QED BY <1>1, <1>3 DEF JobInv, PlanBalances

\* The plan of an end accounts for all that the job had reserved.
LEMMA EndKeeps == ASSUME NEW kind, JobInv, End(kind) PROVE JobInv'
<1> DEFINE made == Completed
           opened == Opened(Completed, job.fuel)
           wasted == IF IsFinished THEN 0 ELSE Elapsed % UnitTime
           lost == opened * Heat(job.fuel) - made * HeatPerUnit
<1>1. /\ job # NoJob /\ Timed /\ Covered(job) /\ job' = NoJob
      /\ now' = now /\ paused' = paused /\ worked' = worked
  BY DEF End, JobInv
<1>2. /\ plan'.of = job /\ plan'.made = made /\ plan'.input = job.units - made
      /\ plan'.opened = opened /\ plan'.fuel = job.items - opened
      /\ plan'.lost = lost /\ plan'.wasted = wasted
  BY DEF End
<1>3. job.units \in Nat \ {0} /\ job.fuel \in Fuels /\ job.items \in Nat
  BY <1>1 DEF Timed
<1>4. made \in 0 .. job.units /\ Elapsed \in Nat
  BY <1>1, Progress
<1>5. Preview(job.units, job.fuel, job.items) = [items |-> job.items, units |-> job.units]
  BY <1>1 DEF Covered
<1>6. opened \in 0 .. job.items /\ lost \in 0 .. (Heat(job.fuel) - 1)
  BY <1>3, <1>4, <1>5, OpenedFits
<1>7. wasted < UnitTime
  BY <1>4, Division, UnitTimeAssumption
<1>8. Heat(job.fuel) \in Nat /\ HeatPerUnit \in Nat
  BY DEF Heat, HeatPerUnit
<1>9. made * HeatPerUnit + lost = opened * Heat(job.fuel)
  <2>1. opened * Heat(job.fuel) \in Int /\ made * HeatPerUnit \in Int
    BY <1>4, <1>6, <1>8
  <2> QED BY <2>1
<1> HIDE DEF made, opened, wasted, lost
<1>10. PlanBalances'
  BY <1>2, <1>3, <1>4, <1>6, <1>7, <1>8, <1>9 DEF PlanBalances
<1>11. Timed'
  BY <1>1 DEF Timed
<1> QED BY <1>10, <1>11 DEF JobInv

\* Every step preserves the invariant.
LEMMA JobStepKeeps == JobInv /\ [JobNext]_jobVars => JobInv'
<1> SUFFICES ASSUME JobInv, [JobNext]_jobVars PROVE JobInv'
  OBVIOUS
<1>1. CASE Confirm
  BY <1>1, ConfirmKeeps
<1>2. CASE Tick
  BY <1>2, TickKeeps
<1>3. CASE Freeze \/ UNCHANGED jobVars
  BY <1>3, FreezeKeeps
<1>4. CASE \E kind \in {"COMPLETE", "STOP", "CANCEL"} : End(kind)
  BY <1>4, EndKeeps
<1> QED BY <1>1, <1>2, <1>3, <1>4 DEF JobNext

\* The invariant holds in every state of a job's life.
THEOREM JobInvHolds == JobSpec => []JobInv
BY JobInitHolds, JobStepKeeps, PTL DEF JobSpec

\* A job that was started can be ended, and its end returns or consumes all that was
\* reserved and nothing else, whatever was asked for, however much fuel was at hand and
\* whenever it ends (RuntimeFuelInvariant, plan_smelting_terminal).
THEOREM EveryEndBalances == JobSpec => []EndBalances
BY JobInvHolds, JobInvGives, PTL

\* The progress is that of the work outside every Hard Freeze, for every unit time and
\* every number of freezes (project_smelting_runtime_progress).
THEOREM WorkCounts == JobSpec => []WorkIsCounted
BY JobInvHolds, JobInvGives, PTL

---------------------------------------------------------------------------
(* Powers.                                                                 *)

\* A power is at the end of the recursion that defines it.
LEMMA PowerRecursion ==
    ASSUME NEW b \in Nat, NEW n \in Nat
    PROVE  \E p \in [0 .. n -> Nat] :
               p[0] = 1 /\ (\A i \in 1 .. n : p[i] = b * p[i - 1]) /\ Power(b, n) = p[n]
<1> DEFINE step == [i \in 1 .. n |-> [x \in Nat |-> b * x]]
           Def(p) == p = [i \in 0 .. n |-> IF i = 0 THEN 1 ELSE b * p[i - 1]]
           power == CHOOSE p : Def(p)
<1>1. step \in [1 .. n -> [Nat -> Nat]]
  OBVIOUS
<1>a. \A i \in 1 .. n : \A x \in Nat : step[i][x] = b * x
  OBVIOUS
<1> HIDE DEF step
<1>b. \E f \in [0 .. n -> Nat] : Iterates(f, 1, step, n)
  <2> DEFINE one == 1
  <2>1. one \in Nat
    OBVIOUS
  <2> HIDE DEF one
  <2>2. \E f \in [0 .. n -> Nat] : Iterates(f, one, step, n)
    BY <1>1, <2>1, Recursion
  <2> QED BY <2>2 DEF one
<1>2. PICK f \in [0 .. n -> Nat] : f[0] = 1 /\ \A i \in 1 .. n : f[i] = step[i][f[i - 1]]
  BY <1>b DEF Iterates
<1>3. \A i \in 1 .. n : i - 1 \in 0 .. n /\ f[i] = b * f[i - 1]
  <2> TAKE i \in 1 .. n
  <2>1. i - 1 \in 0 .. n
    OBVIOUS
  <2>2. f[i - 1] \in Nat
    BY <2>1
  <2> QED BY <1>a, <1>2, <2>1, <2>2
<1>4. Def(f)
  <2>1. \A i \in 0 .. n : f[i] = IF i = 0 THEN 1 ELSE b * f[i - 1]
    BY <1>2, <1>3
  <2> QED BY <2>1
<1>5. Def(power)
  BY <1>4
<1>6. Power(b, n) = power[n]
  BY DEF Power
<1> HIDE DEF power
<1>7. \A i \in 0 .. n : power[i] = IF i = 0 THEN 1 ELSE b * power[i - 1]
  BY <1>5
<1>8. power[0] = 1 /\ \A i \in 1 .. n : i - 1 \in 0 .. n /\ power[i] = b * power[i - 1]
  BY <1>7
<1>9. power \in [0 .. n -> Nat]
  <2> DEFINE T == {i \in Nat : i <= n => power[i] \in Nat}
  <2>1. 0 \in T
    BY <1>8
  <2>2. ASSUME NEW i \in Nat, i \in T PROVE i + 1 \in T
    <3> SUFFICES ASSUME i + 1 <= n PROVE power[i + 1] \in Nat
      OBVIOUS
    <3>1. power[i] \in Nat /\ i + 1 \in 1 .. n /\ (i + 1) - 1 = i
      BY <2>2
    <3>2. power[i + 1] = b * power[i]
      BY <1>8, <3>1
    <3> QED BY <3>1, <3>2
  <2> HIDE DEF T
  <2>3. Nat \subseteq T
    BY <2>1, <2>2, NatSetInduction
  <2>4. \A i \in 0 .. n : power[i] \in Nat
    BY <2>3 DEF T
  <2>5. power = [i \in 0 .. n |-> power[i]]
    BY <1>5
  <2> QED BY <2>4, <2>5
<1> QED BY <1>6, <1>8, <1>9

\* The laws of powers.
LEMMA PowerNext ==
    ASSUME NEW b \in Nat
    PROVE  /\ Power(b, 0) = 1
           /\ \A n \in Nat : Power(b, n) \in Nat /\ Power(b, n + 1) = b * Power(b, n)
<1>1. Power(b, 0) = 1
  <2>1. 0 \in Nat
    OBVIOUS
  <2> QED BY <2>1, PowerRecursion
<1>2. ASSUME NEW n \in Nat
      PROVE  Power(b, n) \in Nat /\ Power(b, n + 1) = b * Power(b, n)
  <2>1. PICK p \in [0 .. n -> Nat] :
            p[0] = 1 /\ (\A i \in 1 .. n : p[i] = b * p[i - 1]) /\ Power(b, n) = p[n]
    BY PowerRecursion
  <2>2. n + 1 \in Nat
    OBVIOUS
  <2>3. PICK q \in [0 .. n + 1 -> Nat] :
            /\ q[0] = 1 /\ (\A i \in 1 .. n + 1 : q[i] = b * q[i - 1])
            /\ Power(b, n + 1) = q[n + 1]
    BY <2>2, PowerRecursion
  <2> DEFINE T == {i \in Nat : i <= n => p[i] = q[i]}
  <2>4. 0 \in T
    BY <2>1, <2>3
  <2>5. ASSUME NEW i \in Nat, i \in T PROVE i + 1 \in T
    <3> SUFFICES ASSUME i + 1 <= n PROVE p[i + 1] = q[i + 1]
      OBVIOUS
    <3>1. p[i] = q[i] /\ i + 1 \in 1 .. n /\ i + 1 \in 1 .. n + 1 /\ (i + 1) - 1 = i
      BY <2>5
    <3> QED BY <2>1, <2>3, <3>1
  <2> HIDE DEF T
  <2>6. Nat \subseteq T
    BY <2>4, <2>5, NatSetInduction
  <2>7. p[n] = q[n]
    BY <2>6 DEF T
  <2>8. q[n + 1] = b * q[n] /\ p[n] \in Nat
    <3>1. n + 1 \in 1 .. n + 1 /\ (n + 1) - 1 = n /\ n \in 0 .. n
      OBVIOUS
    <3> QED BY <2>3, <3>1
  <2> QED BY <2>1, <2>3, <2>7, <2>8
<1> QED BY <1>1, <1>2

\* Powers of one exponent after another.
LEMMA PowerAdds ==
    ASSUME NEW b \in Nat, NEW m \in Nat, NEW n \in Nat
    PROVE  Power(b, m + n) = Power(b, m) * Power(b, n)
<1> DEFINE T == {k \in Nat : Power(b, m + k) = Power(b, m) * Power(b, k)}
<1>1. Power(b, m) \in Nat
  BY PowerNext
<1>2. 0 \in T
  BY <1>1, PowerNext
<1>3. ASSUME NEW k \in Nat, k \in T PROVE k + 1 \in T
  <2> DEFINE x == Power(b, m)
             y == Power(b, k)
  <2>1. Power(b, m + k) = x * y /\ m + k \in Nat /\ m + (k + 1) = (m + k) + 1
    BY <1>3
  <2>2. Power(b, m + (k + 1)) = b * (x * y) /\ Power(b, k + 1) = b * y
    BY <2>1, PowerNext
  <2>3. x \in Nat /\ y \in Nat
    BY PowerNext
  <2> HIDE DEF x, y
  <2>4. b * (x * y) = x * (b * y)
    BY <2>3
  <2> QED BY <2>2, <2>4 DEF x
<1> HIDE DEF T
<1>4. Nat \subseteq T
  BY <1>2, <1>3, NatSetInduction
<1> QED BY <1>4 DEF T

\* A power is at least one, and beyond its exponent if the base is at least two.
LEMMA PowerBeyond ==
    ASSUME NEW b \in Nat \ {0}, NEW n \in Nat
    PROVE  /\ Power(b, n) \in Nat \ {0}
           /\ b > 1 => Power(b, n) > n
<1> DEFINE T == {k \in Nat : Power(b, k) >= 1 /\ (b > 1 => Power(b, k) > k)}
<1>1. 0 \in T
  BY PowerNext
<1>2. ASSUME NEW k \in Nat, k \in T PROVE k + 1 \in T
  <2> DEFINE x == Power(b, k)
  <2>1. Power(b, k + 1) = b * x /\ x \in Nat /\ x >= 1 /\ (b > 1 => x > k)
    BY <1>2, PowerNext
  <2> HIDE DEF x
  <2>2. b * x >= 1
    BY <2>1
  <2>3. ASSUME b > 1 PROVE b * x > k + 1
    <3>1. 2 * x <= b * x
      BY <2>1, <2>3
    <3> QED BY <2>1, <2>3, <3>1
  <2> QED BY <2>1, <2>2, <2>3
<1> HIDE DEF T
<1>3. Nat \subseteq T
  BY <1>1, <1>2, NatSetInduction
<1>4. Power(b, n) \in Nat
  BY PowerNext
<1> QED BY <1>3, <1>4 DEF T

---------------------------------------------------------------------------
(* Activity levels.                                                        *)

\* The total of a level is a number, 0 for level 0, and more than the level after that.
LEMMA TotalGrows ==
    ASSUME NEW level \in Nat
    PROVE  /\ ActivityTotal(level) \in Int
           /\ level > 0 => ActivityTotal(level) > level
           /\ level = 0 => ActivityTotal(level) = 0
<1> DEFINE square == level * level
<1>1. square \in Nat
  OBVIOUS
<1>2. CASE level <= 16
  <2>1. ActivityTotal(level) = square + 6 * level
    BY <1>2 DEF ActivityTotal
  <2> HIDE DEF square
  <2>2. level > 0 => 6 * level > level
    OBVIOUS
  <2>3. level = 0 => square = 0
    BY DEF square
  <2> QED BY <1>1, <2>1, <2>2, <2>3
<1>3. CASE level > 16 /\ level <= 31
  <2> DEFINE x == level - 17
  <2>1. x \in Nat /\ x * x \in Nat /\ level = x + 17
    BY <1>3
  <2>2. 5 * level * level - 81 * level + 720 = 5 * (x * x) + 89 * x + 788
    BY <2>1
  <2>3. ActivityTotal(level) = (5 * (x * x) + 89 * x + 788) \div 2
    BY <1>3, <2>2 DEF ActivityTotal
  <2> HIDE DEF x
  <2> QED BY <2>1, <2>3
<1>4. CASE level > 31
  <2> DEFINE x == level - 32
  <2>1. x \in Nat /\ x * x \in Nat /\ level = x + 32
    BY <1>4
  <2>2. 9 * level * level - 325 * level + 4440 = 9 * (x * x) + 251 * x + 3256
    BY <2>1
  <2>3. ActivityTotal(level) = (9 * (x * x) + 251 * x + 3256) \div 2
    BY <1>4, <2>2 DEF ActivityTotal
  <2> HIDE DEF x
  <2> QED BY <2>1, <2>3
<1> QED BY <1>2, <1>3, <1>4

\* The points to the next level are the distance of the totals, also at the seams of the
\* three curves.
LEMMA TotalsDiffer ==
    ASSUME NEW level \in Nat
    PROVE  ActivityToNext(level) = ActivityTotal(level + 1) - ActivityTotal(level)
<1> DEFINE square == level * level
<1>1. square \in Nat /\ (level + 1) * (level + 1) = square + 2 * level + 1
  OBVIOUS
<1>2. CASE level <= 15
  <2>1. ActivityTotal(level) = square + 6 * level
    BY <1>2 DEF ActivityTotal
  <2>2. ActivityTotal(level + 1) = (square + 2 * level + 1) + 6 * (level + 1)
    BY <1>1, <1>2 DEF ActivityTotal
  <2> HIDE DEF square
  <2> QED BY <1>1, <1>2, <2>1, <2>2 DEF ActivityToNext
<1>3. CASE level = 16
  BY <1>3 DEF ActivityTotal, ActivityToNext
<1>4. CASE level >= 17 /\ level <= 30
  <2> DEFINE a == 5 * square - 81 * level + 720
  <2>1. ActivityTotal(level) = a \div 2
    BY <1>4 DEF ActivityTotal
  <2>2. 5 * (level + 1) * (level + 1) - 81 * (level + 1) + 720 = a + 2 * (5 * level - 38)
    BY <1>1
  <2>3. ActivityTotal(level + 1) = (a + 2 * (5 * level - 38)) \div 2
    BY <1>4, <2>2 DEF ActivityTotal
  <2>4. a \in Int
    BY <1>1
  <2> HIDE DEF a
  <2> QED BY <1>4, <2>1, <2>3, <2>4 DEF ActivityToNext
<1>5. CASE level = 31
  BY <1>5 DEF ActivityTotal, ActivityToNext
<1>6. CASE level >= 32
  <2> DEFINE a == 9 * square - 325 * level + 4440
  <2>1. ActivityTotal(level) = a \div 2
    BY <1>6 DEF ActivityTotal
  <2>2. 9 * (level + 1) * (level + 1) - 325 * (level + 1) + 4440 = a + 2 * (9 * level - 158)
    BY <1>1
  <2>3. ActivityTotal(level + 1) = (a + 2 * (9 * level - 158)) \div 2
    BY <1>6, <2>2 DEF ActivityTotal
  <2>4. a \in Int
    BY <1>1
  <2> HIDE DEF a
  <2> QED BY <1>6, <2>1, <2>3, <2>4 DEF ActivityToNext
<1> QED BY <1>2, <1>3, <1>4, <1>5, <1>6

\* The loop that doubles high ends.
LEMMA DoublingEnds ==
    ASSUME NEW points \in Nat
    PROVE  Doublings(points) \in Nat /\ ActivityTotal(Power(2, Doublings(points))) > points
<1> DEFINE T == {n \in Nat : ActivityTotal(Power(2, n)) > points}
           Ends(n) == /\ ActivityTotal(Power(2, n)) > points
                      /\ \A m \in 0 .. n - 1 : ActivityTotal(Power(2, m)) <= points
<1>1. \A n \in Nat : Power(2, n) \in Nat /\ Power(2, n) > n /\ ActivityTotal(Power(2, n)) \in Int
  <2> TAKE n \in Nat
  <2>1. Power(2, n) \in Nat \ {0} /\ Power(2, n) > n
    BY PowerBeyond
  <2> QED BY <2>1, TotalGrows
<1>2. points \in T
  BY <1>1, TotalGrows
<1>3. T \in SUBSET Nat /\ T # {}
  BY <1>2
<1>4. PICK n \in T : \A m \in T : n <= m
  BY <1>3, SmallestElement
<1>5. n \in 0 .. points /\ Ends(n)
  BY <1>1, <1>2, <1>4
<1> HIDE DEF T, Ends
<1>6. \E k \in 0 .. points : Ends(k)
  BY <1>5
<1>7. Doublings(points) = CHOOSE k \in 0 .. points : Ends(k)
  BY DEF Doublings, Ends
<1>8. Doublings(points) \in 0 .. points /\ Ends(Doublings(points))
  BY <1>6, <1>7
<1> QED BY <1>8 DEF Ends

\* The level found for any number of points is the one they reach.
THEOREM LevelReached ==
    ASSUME NEW points \in Nat
    PROVE  LET level == ActivityLevel(points)
           IN  /\ level \in Nat
               /\ ActivityTotal(level) <= points /\ points < ActivityTotal(level + 1)
               /\ ActivityToNext(level) = ActivityTotal(level + 1) - ActivityTotal(level)
<1> DEFINE n == Doublings(points)
           Width(i) == Power(2, n - i)
           Def(f) == f = [i \in 0 .. n |-> IF i = 0 THEN 0 ELSE StepUp(points, f[i - 1], Power(2, n - i))]
           low == CHOOSE f : Def(f)
           step == [i \in 1 .. n |-> [x \in Nat |-> StepUp(points, x, Power(2, n - i))]]
<1>1. n \in Nat /\ ActivityTotal(Power(2, n)) > points
  BY DoublingEnds
<1>2. ActivityLevel(points) = low[n]
  BY DEF ActivityLevel
<1> HIDE DEF n
<1>3. \A i \in 0 .. n : Width(i) \in Nat
  <2> TAKE i \in 0 .. n
  <2>1. n - i \in Nat
    BY <1>1
  <2> QED BY <2>1, PowerNext
<1>4. \A i \in 1 .. n : \A x \in Nat : StepUp(points, x, Power(2, n - i)) \in Nat
  BY <1>1, <1>3 DEF StepUp
<1>5. step \in [1 .. n -> [Nat -> Nat]]
  BY <1>4
<1>6. \A i \in 1 .. n : \A x \in Nat : step[i][x] = StepUp(points, x, Power(2, n - i))
  OBVIOUS
<1> HIDE DEF step
<1>7. \E f \in [0 .. n -> Nat] : Iterates(f, 0, step, n)
  <2> DEFINE zero == 0
  <2>1. zero \in Nat
    OBVIOUS
  <2> HIDE DEF zero
  <2>2. \E f \in [0 .. n -> Nat] : Iterates(f, zero, step, n)
    BY <1>1, <1>5, <2>1, Recursion
  <2> QED BY <2>2 DEF zero
<1>8. PICK f \in [0 .. n -> Nat] : f[0] = 0 /\ \A i \in 1 .. n : f[i] = step[i][f[i - 1]]
  BY <1>7 DEF Iterates
<1>9. Def(f)
  <2>1. ASSUME NEW i \in 1 .. n PROVE f[i] = StepUp(points, f[i - 1], Power(2, n - i))
    <3>1. i - 1 \in 0 .. n
      BY <1>1
    <3>2. f[i - 1] \in Nat
      BY <3>1
    <3> QED BY <1>6, <1>8, <3>2
  <2>2. \A i \in 0 .. n : f[i] = IF i = 0 THEN 0 ELSE StepUp(points, f[i - 1], Power(2, n - i))
    BY <1>1, <1>8, <2>1
  <2> QED BY <2>2
<1>10. Def(low)
  BY <1>9
<1> HIDE DEF low
<1>11. low[0] = 0 /\ \A i \in 1 .. n : low[i] = StepUp(points, low[i - 1], Width(i))
  BY <1>1, <1>10
<1> DEFINE Between(i) == /\ low[i] \in Nat
                         /\ ActivityTotal(low[i]) <= points
                         /\ points < ActivityTotal(low[i] + Width(i))
           T == {i \in Nat : i <= n => Between(i)}
<1>12. 0 \in T
  <2>1. Width(0) = Power(2, n) /\ Power(2, n) \in Nat /\ 0 + Power(2, n) = Power(2, n)
    BY <1>1, PowerNext
  <2>2. ActivityTotal(0) = 0
    BY TotalGrows
  <2> QED BY <1>1, <1>11, <2>1, <2>2
<1>13. ASSUME NEW i \in Nat, i \in T PROVE i + 1 \in T
  <2> SUFFICES ASSUME i + 1 <= n PROVE Between(i + 1)
    OBVIOUS
  <2>1. Between(i) /\ i + 1 \in 1 .. n /\ (i + 1) - 1 = i /\ i \in 0 .. n /\ i + 1 \in 0 .. n
    BY <1>1, <1>13
  <2>2. low[i + 1] = StepUp(points, low[i], Width(i + 1))
    BY <1>11, <2>1
  <2>3. Width(i) = 2 * Width(i + 1)
    <3>1. n - (i + 1) \in Nat /\ (n - (i + 1)) + 1 = n - i
      BY <1>1, <2>1
    <3> QED BY <3>1, PowerNext
  <2>4. Width(i + 1) \in Nat
    BY <1>3, <2>1
  <2> DEFINE w == Width(i + 1)
             l == low[i]
  <2>5. w \in Nat /\ l \in Nat /\ ActivityTotal(l) <= points /\ points < ActivityTotal(l + 2 * w)
    BY <2>1, <2>3, <2>4
  <2>6. low[i + 1] = IF ActivityTotal(l + w) <= points THEN l + w ELSE l
    BY <2>2 DEF StepUp
  <2> HIDE DEF w, l
  <2>7. (l + w) + w = l + 2 * w /\ l + w \in Nat
    BY <2>5
  <2>8. ActivityTotal(l + w) \in Int
    BY <2>7, TotalGrows
  <2> SUFFICES /\ low[i + 1] \in Nat
               /\ ActivityTotal(low[i + 1]) <= points
               /\ points < ActivityTotal(low[i + 1] + w)
    BY DEF w
  <2>9. CASE ActivityTotal(l + w) <= points
    BY <2>5, <2>6, <2>7, <2>9
  <2>10. CASE ~ (ActivityTotal(l + w) <= points)
    BY <2>5, <2>6, <2>8, <2>10
  <2> QED BY <2>9, <2>10
<1> HIDE DEF T
<1>14. Nat \subseteq T
  BY <1>12, <1>13, NatSetInduction
<1>15. Between(n)
  BY <1>1, <1>14 DEF T
<1>16. Width(n) = 1
  <2>1. n - n = 0
    BY <1>1
  <2> QED BY <2>1, PowerNext
<1> DEFINE level == low[n]
<1>17. level \in Nat /\ ActivityTotal(level) <= points /\ points < ActivityTotal(level + 1)
  BY <1>15, <1>16
<1>18. ActivityLevel(points) = level
  BY <1>2
<1> HIDE DEF level
<1>19. ActivityToNext(level) = ActivityTotal(level + 1) - ActivityTotal(level)
  BY <1>17, TotalsDiffer
<1> QED BY <1>17, <1>18, <1>19

---------------------------------------------------------------------------
(* Decimal digits.                                                         *)

Digits == Seq(0 .. 9)
Ten(i) == Power(10, i)

\* v[i] is the number that the first i digits make.
Weighs(v, digits) ==
    /\ v \in [0 .. Len(digits) -> Nat] /\ v[0] = 0
    /\ \A i \in 1 .. Len(digits) : v[i] = v[i - 1] + digits[i] * Ten(i - 1)

\* The digits are those of n, with zeros after them perhaps.
Reads(digits, n) ==
    digits \in Digits /\ \E v : Weighs(v, digits) /\ v[Len(digits)] = n

\* The powers of ten.
LEMMA TenFacts ==
    /\ Ten(0) = 1
    /\ \A i \in Nat : Ten(i) \in Nat \ {0} /\ Ten(i) > i /\ Ten(i + 1) = 10 * Ten(i)
<1>1. Ten(0) = 1 /\ \A i \in Nat : Ten(i + 1) = 10 * Ten(i)
  BY PowerNext DEF Ten
<1>2. \A i \in Nat : Ten(i) \in Nat \ {0} /\ Ten(i) > i
  BY PowerBeyond DEF Ten
<1> QED BY <1>1, <1>2

\* A number is made of one quotient and one remainder only.
LEMMA OneQuotient ==
    ASSUME NEW d \in Nat \ {0}, NEW a \in Nat, NEW r \in 0 .. d - 1, NEW n, n = d * a + r
    PROVE  n \in Nat /\ n \div d = a /\ n % d = r
<1> DEFINE q == n \div d
           s == n % d
<1>1. n \in Nat
  OBVIOUS
<1>2. q \in Nat /\ s \in 0 .. d - 1 /\ n = d * q + s
  BY <1>1, Division
<1> HIDE DEF q, s
<1>3. \A x, y \in Nat : x >= y + 1 => d * x >= d * y + d
  OBVIOUS
<1>4. ~ (a >= q + 1) /\ ~ (q >= a + 1)
  BY <1>2, <1>3
<1>5. q = a
  BY <1>2, <1>4
<1>6. s = r
  BY <1>2, <1>5
<1> QED BY <1>1, <1>5, <1>6 DEF q, s

\* The next digit of a number is that of its quotient.
LEMMA NextDigit ==
    ASSUME NEW n \in Nat, NEW p \in Nat \ {0}
    PROVE  n % (10 * p) = (n % p) + ((n \div p) % 10) * p
<1> DEFINE q == n \div p
           r == n % p
           a == q \div 10
           b == q % 10
<1>1. q \in Nat /\ r \in 0 .. p - 1 /\ n = p * q + r
  BY Division
<1> HIDE DEF q, r
<1>2. a \in Nat /\ b \in 0 .. 9 /\ q = 10 * a + b
  BY <1>1
<1> HIDE DEF a, b
<1> DEFINE t == r + b * p
           d == 10 * p
<1>3. b * p \in Nat /\ b * p <= 9 * p
  BY <1>2
<1>4. d \in Nat \ {0} /\ t \in 0 .. d - 1
  BY <1>1, <1>3
<1>5. p * (10 * a + b) = (10 * p) * a + b * p
  BY <1>2
<1>6. n = d * a + t
  BY <1>1, <1>2, <1>3, <1>5
<1> HIDE DEF t, d
<1>7. n % d = t
  BY <1>2, <1>4, <1>6, OneQuotient
<1> QED BY <1>7 DEF t, d, r, b, q

\* What some digits make is less than the power of ten of their number.
LEMMA WeightsBelow ==
    ASSUME NEW digits \in Digits, NEW v, Weighs(v, digits)
    PROVE  \A i \in 0 .. Len(digits) : v[i] < Ten(i)
<1> DEFINE T == {i \in Nat : i <= Len(digits) => v[i] < Ten(i)}
<1>1. Len(digits) \in Nat
  BY DEF Digits
<1>2. 0 \in T
  BY TenFacts DEF Weighs
<1>3. ASSUME NEW i \in Nat, i \in T PROVE i + 1 \in T
  <2> SUFFICES ASSUME i + 1 <= Len(digits) PROVE v[i + 1] < Ten(i + 1)
    OBVIOUS
  <2>1. i + 1 \in 1 .. Len(digits) /\ (i + 1) - 1 = i /\ i \in 0 .. Len(digits)
    BY <1>1
  <2>2. v[i + 1] = v[i] + digits[i + 1] * Ten(i) /\ v[i] \in Nat
    BY <2>1 DEF Weighs
  <2>3. digits[i + 1] \in 0 .. 9
    BY <2>1 DEF Digits
  <2>4. v[i] < Ten(i)
    BY <1>1, <1>3, <2>1
  <2> DEFINE c == digits[i + 1]
             t == Ten(i)
  <2>5. t \in Nat /\ c \in 0 .. 9 /\ v[i + 1] = v[i] + c * t /\ v[i] < t /\ Ten(i + 1) = 10 * t
    BY <2>2, <2>3, <2>4, TenFacts
  <2> HIDE DEF c, t
  <2>6. c * t \in Nat /\ c * t <= 9 * t
    BY <2>5
  <2> QED BY <2>2, <2>5, <2>6
<1> HIDE DEF T
<1>4. Nat \subseteq T
  BY <1>2, <1>3, NatSetInduction
<1> QED BY <1>1, <1>4 DEF T

\* Every sequence of digits makes a number.
LEMMA DigitsMakeNumber ==
    ASSUME NEW digits \in Digits
    PROVE  \E n \in Nat : Reads(digits, n)
<1> DEFINE L == Len(digits)
           step == [i \in 1 .. L |-> [x \in Nat |-> x + digits[i] * Ten(i - 1)]]
<1>1. L \in Nat /\ \A i \in 1 .. L : digits[i] \in 0 .. 9
  BY DEF Digits
<1>2. \A i \in 1 .. L : \A x \in Nat : x + digits[i] * Ten(i - 1) \in Nat
  <2> TAKE i \in 1 .. L
  <2>1. i - 1 \in Nat
    BY <1>1
  <2> DEFINE d == digits[i]
             t == Ten(i - 1)
  <2>2. t \in Nat
    BY <2>1, TenFacts
  <2>3. d \in Nat
    BY <1>1
  <2> HIDE DEF d, t
  <2>4. d * t \in Nat
    BY <2>2, <2>3
  <2> QED BY <2>4 DEF d, t
<1> HIDE DEF L
<1>3. step \in [1 .. L -> [Nat -> Nat]]
  BY <1>2
<1>4. \A i \in 1 .. L : \A x \in Nat : step[i][x] = x + digits[i] * Ten(i - 1)
  OBVIOUS
<1> HIDE DEF step
<1>5. \E v \in [0 .. L -> Nat] : Iterates(v, 0, step, L)
  <2> DEFINE zero == 0
  <2>1. zero \in Nat
    OBVIOUS
  <2> HIDE DEF zero
  <2>2. \E v \in [0 .. L -> Nat] : Iterates(v, zero, step, L)
    BY <1>1, <1>3, <2>1, Recursion
  <2> QED BY <2>2 DEF zero
<1>6. PICK v \in [0 .. L -> Nat] : v[0] = 0 /\ \A i \in 1 .. L : v[i] = step[i][v[i - 1]]
  BY <1>5 DEF Iterates
<1>7. \A i \in 1 .. L : v[i] = v[i - 1] + digits[i] * Ten(i - 1)
  <2> TAKE i \in 1 .. L
  <2>1. i - 1 \in 0 .. L
    BY <1>1
  <2>2. v[i - 1] \in Nat
    BY <2>1
  <2> QED BY <1>4, <1>6, <2>2
<1>8. Weighs(v, digits)
  BY <1>6, <1>7 DEF Weighs, L
<1>9. v[L] \in Nat
  BY <1>1
<1> QED BY <1>8, <1>9 DEF Reads, L

\* decimal_digits_little_endian.
LEMMA DigitsAreRead ==
    ASSUME NEW n \in Nat
    PROVE  Reads(DigitsOf(n), n)
<1> DEFINE Enough(k) == n < Power(10, k) /\ (k > 1 => n >= Power(10, k - 1))
           K == CHOOSE k \in 1 .. n + 1 : Enough(k)
           T == {k \in Nat \ {0} : n < Ten(k)}
<1>1. \A k \in Nat : Ten(k) \in Nat \ {0} /\ Ten(k) > k
  BY TenFacts
<1>2. n + 1 \in T
  <2>1. n + 1 \in Nat \ {0}
    OBVIOUS
  <2> QED BY <1>1, <2>1
<1>3. T \in SUBSET Nat /\ T # {}
  BY <1>2
<1>4. PICK k \in T : \A m \in T : k <= m
  BY <1>3, SmallestElement
<1>5. k \in 1 .. n + 1 /\ k \in Nat /\ n < Ten(k)
  BY <1>2, <1>4
<1>6. k > 1 => n >= Ten(k - 1)
  <2> SUFFICES ASSUME k > 1 PROVE n >= Ten(k - 1)
    OBVIOUS
  <2>1. k - 1 \in Nat \ {0} /\ ~ (k <= k - 1)
    BY <1>5
  <2>2. k - 1 \notin T
    BY <1>4, <2>1
  <2>3. Ten(k - 1) \in Nat
    BY <1>1, <2>1
  <2> QED BY <2>1, <2>2, <2>3
<1>7. Enough(k)
  BY <1>5, <1>6 DEF Ten
<1> HIDE DEF T, Enough
<1>8. K \in 1 .. n + 1 /\ Enough(K)
  BY <1>5, <1>7
<1>9. DigitsOf(n) = [i \in 1 .. K |-> (n \div Power(10, i - 1)) % 10]
  BY DEF DigitsOf, Enough
<1> HIDE DEF K
<1>10. K \in Nat \ {0} /\ n < Ten(K)
  BY <1>8 DEF Enough, Ten
<1> DEFINE d == [i \in 1 .. K |-> (n \div Ten(i - 1)) % 10]
           v == [i \in 0 .. K |-> n % Ten(i)]
<1>11. \A i \in 1 .. K : (n \div Ten(i - 1)) % 10 \in 0 .. 9
  <2> TAKE i \in 1 .. K
  <2>1. i - 1 \in Nat
    BY <1>10
  <2>2. Ten(i - 1) \in Nat \ {0}
    BY <1>1, <2>1
  <2>3. n \div Ten(i - 1) \in Nat
    BY <2>2, Division
  <2> QED BY <2>3
<1>12. d \in Digits /\ Len(d) = K
  BY <1>10, <1>11 DEF Digits
<1>13. v \in [0 .. K -> Nat]
  <2>1. \A i \in 0 .. K : n % Ten(i) \in Nat
    <3> TAKE i \in 0 .. K
    <3>1. Ten(i) \in Nat \ {0}
      BY <1>1, <1>10
    <3> QED BY <3>1, Division
  <2> QED BY <2>1
<1>14. v[0] = 0
  <2>1. n % 1 = 0
    OBVIOUS
  <2> QED BY <1>10, <2>1, TenFacts
<1>15. ASSUME NEW i \in 1 .. K PROVE v[i] = v[i - 1] + d[i] * Ten(i - 1)
  <2>1. i - 1 \in 0 .. K /\ i - 1 \in Nat /\ (i - 1) + 1 = i /\ i \in 0 .. K
    BY <1>10
  <2>2. Ten(i - 1) \in Nat \ {0} /\ Ten(i) = 10 * Ten(i - 1)
    BY <2>1, TenFacts
  <2>3. n % (10 * Ten(i - 1)) = (n % Ten(i - 1)) + ((n \div Ten(i - 1)) % 10) * Ten(i - 1)
    BY <2>2, NextDigit
  <2> QED BY <2>1, <2>2, <2>3
<1>16. v[K] = n
  <2>1. v[K] = n % Ten(K)
    BY <1>10
  <2> DEFINE t == Ten(K)
  <2>2. t \in Nat \ {0} /\ n \in 0 .. t - 1 /\ n = t * 0 + n
    BY <1>1, <1>10
  <2> HIDE DEF t
  <2>3. n % t = n
    BY <2>2
  <2> QED BY <2>1, <2>3 DEF t
<1>17. DigitsOf(n) = d
  BY <1>9 DEF Ten
<1> HIDE DEF d, v
<1>18. Weighs(v, d)
  BY <1>12, <1>13, <1>14, <1>15 DEF Weighs
<1> QED BY <1>12, <1>16, <1>17, <1>18 DEF Reads

\* Digits after digits make the one number and the other times a power of ten.
LEMMA DigitsJoin ==
    ASSUME NEW d, NEW e, NEW m \in Nat, NEW n \in Nat, Reads(d, m), Reads(e, n)
    PROVE  Reads(d \o e, m + Ten(Len(d)) * n)
<1> DEFINE L == Len(d)
           M == Len(e)
           both == d \o e
<1>1. PICK v : Weighs(v, d) /\ v[L] = m
  BY DEF Reads
<1>2. PICK u : Weighs(u, e) /\ u[M] = n
  BY DEF Reads
<1>3. d \in Digits /\ e \in Digits /\ L \in Nat /\ M \in Nat
  BY DEF Reads, Digits
<1>4. /\ both \in Digits /\ Len(both) = L + M
      /\ \A i \in 1 .. L : both[i] = d[i]
      /\ \A i \in 1 .. M : both[L + i] = e[i]
  BY <1>3 DEF Digits
<1>5. /\ v \in [0 .. L -> Nat] /\ v[0] = 0
      /\ \A i \in 1 .. L : v[i] = v[i - 1] + d[i] * Ten(i - 1)
  BY <1>1 DEF Weighs
<1>6. /\ u \in [0 .. M -> Nat] /\ u[0] = 0
      /\ \A i \in 1 .. M : u[i] = u[i - 1] + e[i] * Ten(i - 1)
  BY <1>2 DEF Weighs
<1>7. \A i \in 1 .. M : e[i] \in 0 .. 9
  BY <1>3 DEF Digits
<1> HIDE DEF L, M, both
<1> DEFINE t == Ten(L)
           w == [i \in 0 .. L + M |-> IF i <= L THEN v[i] ELSE m + t * u[i - L]]
<1>8. t \in Nat
  BY <1>3, TenFacts
<1>9. w \in [0 .. L + M -> Nat]
  <2>1. ASSUME NEW i \in 0 .. L + M
        PROVE  (IF i <= L THEN v[i] ELSE m + t * u[i - L]) \in Nat
    <3>1. CASE i <= L
      BY <1>3, <1>5, <3>1
    <3>2. CASE ~ (i <= L)
      <4>1. i - L \in 0 .. M
        BY <1>3, <3>2
      <4>2. u[i - L] \in Nat
        BY <1>6, <4>1
      <4> HIDE DEF t
      <4> QED BY <1>8, <3>2, <4>2
    <3> QED BY <3>1, <3>2
  <2> QED BY <2>1
<1>10. w[0] = 0
  BY <1>3, <1>5
<1>11. ASSUME NEW i \in 1 .. L + M PROVE w[i] = w[i - 1] + both[i] * Ten(i - 1)
  <2>1. i \in 0 .. L + M /\ i - 1 \in 0 .. L + M
    BY <1>3
  <2>2. CASE i <= L
    <3>1. i \in 1 .. L /\ i - 1 <= L
      BY <1>3, <2>2
    <3>2. w[i] = v[i] /\ w[i - 1] = v[i - 1]
      BY <2>1, <2>2, <3>1
    <3> QED BY <1>4, <1>5, <3>1, <3>2
  <2>3. CASE ~ (i <= L)
    <3> DEFINE j == i - L
    <3>1. j \in 1 .. M /\ j - 1 \in Nat /\ j - 1 \in 0 .. M /\ i - 1 = L + (j - 1) /\ L + j = i
      BY <1>3, <2>3
    <3>2. w[i] = m + t * u[j]
      BY <2>1, <2>3
    <3>3. w[i - 1] = m + t * u[j - 1]
      <4>1. CASE j = 1
        <5>a. j - 1 = 0
          BY <4>1
        <5>b. i - 1 = L + (j - 1) /\ u[j - 1] = 0
          BY <1>6, <3>1, <5>a
        <5> HIDE DEF j
        <5>1. i - 1 = L /\ u[j - 1] = 0 /\ i - 1 <= L
          BY <1>3, <5>a, <5>b
        <5>2. w[i - 1] = v[i - 1]
          BY <2>1, <5>1
        <5>3. w[i - 1] = m
          BY <1>1, <5>1, <5>2 DEF L
        <5>4. t * 0 = 0
          BY <1>8
        <5> QED BY <5>1, <5>3, <5>4
      <4>2. CASE j # 1
        <5>1. ~ (i - 1 <= L) /\ (i - 1) - L = j - 1
          BY <1>3, <3>1, <4>2
        <5> QED BY <2>1, <5>1
      <4> QED BY <4>1, <4>2
    <3>4. both[i] = e[j] /\ e[j] \in 0 .. 9
      BY <1>4, <1>7, <3>1
    <3>5. u[j] = u[j - 1] + e[j] * Ten(j - 1) /\ u[j - 1] \in Nat
      BY <1>6, <3>1
    <3>6. Ten(i - 1) = t * Ten(j - 1) /\ Ten(j - 1) \in Nat
      <4> DEFINE k == j - 1
      <4>1. k \in Nat /\ i - 1 = L + k
        BY <3>1
      <4> HIDE DEF k
      <4>2. Power(10, L + k) = Power(10, L) * Power(10, k)
        <5>1. 10 \in Nat
          OBVIOUS
        <5> QED BY <1>3, <4>1, <5>1, PowerAdds
      <4>3. Ten(k) \in Nat
        BY <4>1, TenFacts
      <4>4. Ten(i - 1) = t * Ten(k)
        BY <4>1, <4>2 DEF Ten
      <4> QED BY <4>3, <4>4 DEF k
    <3> DEFINE x == u[j - 1]
               y == e[j]
               z == Ten(j - 1)
    <3>7. x \in Nat /\ y \in Nat /\ z \in Nat /\ u[j] = x + y * z
      BY <3>4, <3>5, <3>6
    <3>8. w[i] = m + t * (x + y * z) /\ w[i - 1] = m + t * x /\ both[i] = y /\ Ten(i - 1) = t * z
      BY <3>2, <3>3, <3>4, <3>6, <3>7
    <3> HIDE DEF x, y, z, t, w
    <3>9. t * (x + y * z) = t * x + y * (t * z)
      BY <1>8, <3>7
    <3>10. t * x \in Nat /\ y * (t * z) \in Nat
      BY <1>8, <3>7
    <3> QED BY <3>8, <3>9, <3>10
  <2> QED BY <2>2, <2>3
<1>12. w[L + M] = m + t * n
  <2>1. L + M \in 0 .. L + M
    BY <1>3
  <2>2. CASE M = 0
    <3>1. L + M = L /\ n = 0
      BY <1>2, <1>3, <1>6, <2>2 DEF M
    <3>2. w[L + M] = v[L]
      BY <2>1, <3>1
    <3>3. t * 0 = 0
      BY <1>8
    <3> QED BY <1>1, <3>1, <3>2, <3>3 DEF L
  <2>3. CASE M # 0
    <3>1. ~ (L + M <= L) /\ (L + M) - L = M
      BY <1>3, <2>3
    <3> QED BY <1>2, <2>1, <3>1 DEF M
  <2> QED BY <2>2, <2>3
<1> HIDE DEF w
<1>13. Weighs(w, both)
  BY <1>4, <1>9, <1>10, <1>11 DEF Weighs
<1>14. w[Len(both)] = m + Ten(Len(d)) * n
  BY <1>4, <1>12 DEF L
<1> QED BY <1>4, <1>13, <1>14 DEF Reads, both

\* multiply_decimal_digits: the digits and the carries make the product.
LEMMA DigitsMultiply ==
    ASSUME NEW digits, NEW n \in Nat, Reads(digits, n), NEW m \in Nat
    PROVE  Reads(Multiplied(digits, m), n * m)
<1> DEFINE L == Len(digits)
           Def(c) == c = [i \in 0 .. L |-> IF i = 0 THEN 0 ELSE (digits[i] * m + c[i - 1]) \div 10]
           carry == CHOOSE c : Def(c)
           low == [i \in DOMAIN digits |-> (digits[i] * m + carry[i - 1]) % 10]
           step == [i \in 1 .. L |-> [x \in Nat |-> (digits[i] * m + x) \div 10]]
<1>1. /\ digits \in Digits /\ L \in Nat /\ DOMAIN digits = 1 .. L
      /\ \A i \in 1 .. L : digits[i] \in 0 .. 9
  BY DEF Reads, Digits
<1>2. PICK v : Weighs(v, digits) /\ v[L] = n
  BY DEF Reads
<1>3. /\ v \in [0 .. L -> Nat] /\ v[0] = 0
      /\ \A i \in 1 .. L : v[i] = v[i - 1] + digits[i] * Ten(i - 1)
  BY <1>2 DEF Weighs
<1>4. Multiplied(digits, m) =
          low \o (IF carry[L] = 0 THEN <<>> ELSE DigitsOf(carry[L]))
  BY DEF Multiplied
<1> HIDE DEF L
<1>5. \A i \in 1 .. L : \A x \in Nat : digits[i] * m + x \in Nat /\ (digits[i] * m + x) \div 10 \in Nat
  <2> TAKE i \in 1 .. L
  <2> TAKE x \in Nat
  <2>1. digits[i] * m \in Nat
    BY <1>1
  <2> QED BY <2>1
<1>6. step \in [1 .. L -> [Nat -> Nat]]
  BY <1>5
<1>7. \A i \in 1 .. L : \A x \in Nat : step[i][x] = (digits[i] * m + x) \div 10
  OBVIOUS
<1> HIDE DEF step
<1>8. \E c \in [0 .. L -> Nat] : Iterates(c, 0, step, L)
  <2> DEFINE zero == 0
  <2>1. zero \in Nat
    OBVIOUS
  <2> HIDE DEF zero
  <2>2. \E c \in [0 .. L -> Nat] : Iterates(c, zero, step, L)
    BY <1>1, <1>6, <2>1, Recursion
  <2> QED BY <2>2 DEF zero
<1>9. PICK c \in [0 .. L -> Nat] : c[0] = 0 /\ \A i \in 1 .. L : c[i] = step[i][c[i - 1]]
  BY <1>8 DEF Iterates
<1>10. \A i \in 1 .. L : c[i] = (digits[i] * m + c[i - 1]) \div 10
  <2> TAKE i \in 1 .. L
  <2>1. i - 1 \in 0 .. L
    BY <1>1
  <2>2. c[i - 1] \in Nat
    BY <2>1
  <2> QED BY <1>7, <1>9, <2>2
<1>11. Def(c)
  <2>1. \A i \in 0 .. L : c[i] = IF i = 0 THEN 0 ELSE (digits[i] * m + c[i - 1]) \div 10
    BY <1>1, <1>9, <1>10
  <2> QED BY <2>1
<1>12. Def(carry)
  BY <1>11
<1> HIDE DEF carry
<1>13. carry[0] = 0 /\ \A i \in 1 .. L : carry[i] = (digits[i] * m + carry[i - 1]) \div 10
  BY <1>1, <1>12
<1> DEFINE w == [i \in 0 .. L |-> v[i] * m - carry[i] * Ten(i)]
           T == {i \in Nat : i <= L => /\ carry[i] \in Nat /\ w[i] \in Nat
                                       /\ i > 0 => /\ low[i] \in 0 .. 9
                                                   /\ w[i] = w[i - 1] + low[i] * Ten(i - 1)}
<1>14. 0 \in T
  <2>1. 0 \in 0 .. L
    BY <1>1
  <2>2. w[0] = 0 * m - 0 * Ten(0)
    BY <1>3, <1>13, <2>1
  <2>3. w[0] = 0
    <3>1. 0 * m = 0 /\ 0 * 1 = 0 /\ Ten(0) = 1
      BY TenFacts
    <3>2. w[0] = 0 - 0
      BY <2>2, <3>1
    <3> HIDE DEF w
    <3> QED BY <3>2
  <2> QED BY <1>13, <2>3
<1>15. ASSUME NEW i \in Nat, i \in T PROVE i + 1 \in T
  <2> SUFFICES ASSUME i + 1 <= L
               PROVE  /\ carry[i + 1] \in Nat /\ w[i + 1] \in Nat
                      /\ low[i + 1] \in 0 .. 9
                      /\ w[i + 1] = w[i] + low[i + 1] * Ten(i)
    <3>1. (i + 1) - 1 = i
      OBVIOUS
    <3> QED BY <3>1
  <2>1. /\ i + 1 \in 1 .. L /\ (i + 1) - 1 = i /\ i \in 0 .. L /\ i + 1 \in 0 .. L
        /\ carry[i] \in Nat /\ w[i] \in Nat
    BY <1>1, <1>15
  <2> DEFINE g == digits[i + 1]
             x == carry[i]
             y == v[i]
             t == Ten(i)
             a == g * m + x
             q == a \div 10
             r == a % 10
  <2>a. g \in Nat
    <3>1. digits[i + 1] \in 0 .. 9
      <4> HIDE DEF g, w, low
      <4> QED BY <1>1, <2>1
    <3> HIDE DEF w, low
    <3> QED BY <3>1
  <2>b. x \in Nat /\ y \in Nat
    BY <1>3, <2>1
  <2>c. t \in Nat /\ Ten(i + 1) = 10 * t
    BY TenFacts
  <2>2. g \in Nat /\ x \in Nat /\ y \in Nat /\ t \in Nat /\ Ten(i + 1) = 10 * t
    BY <2>a, <2>b, <2>c
  <2>3. carry[i + 1] = q /\ low[i + 1] = r
    BY <1>1, <1>13, <2>1
  <2>4. v[i + 1] = y + g * t
    BY <1>3, <2>1
  <2>5. w[i] = y * m - x * t
    BY <2>1
  <2>6. w[i + 1] = (y + g * t) * m - q * (10 * t)
    BY <2>1, <2>2, <2>3, <2>4
  <2> HIDE DEF g, x, y, t, w, low
  <2>7. a \in Nat
    BY <2>2
  <2> HIDE DEF a
  <2>d. q \in Nat /\ r \in 0 .. 9 /\ a = 10 * q + r
    BY <2>7
  <2>8. q \in Nat /\ r \in 0 .. 9 /\ g * m + x = 10 * q + r
    BY <2>d DEF a
  <2> HIDE DEF q, r
  <2>9. (y + g * t) * m = y * m + (g * m) * t
    BY <2>2
  <2>10. g * m = 10 * q + r - x
    BY <2>2, <2>8
  <2>11. (10 * q + r - x) * t = q * (10 * t) + r * t - x * t
    BY <2>2, <2>8
  <2>12. /\ y * m \in Nat /\ q * (10 * t) \in Nat /\ r * t \in Nat /\ x * t \in Nat
    BY <2>2, <2>8
  <2>13. w[i + 1] = w[i] + r * t
    BY <2>5, <2>6, <2>9, <2>10, <2>11, <2>12
  <2>14. w[i + 1] \in Nat
    BY <2>1, <2>12, <2>13
  <2> QED BY <2>3, <2>8, <2>13, <2>14 DEF t
<1> HIDE DEF T
<1>16. Nat \subseteq T
  BY <1>14, <1>15, NatSetInduction
<1>17. \A i \in 0 .. L : carry[i] \in Nat /\ w[i] \in Nat
  <2> TAKE i \in 0 .. L
  <2>1. i \in Nat /\ i <= L
    BY <1>1
  <2>2. i \in T
    BY <1>16, <2>1
  <2> HIDE DEF w
  <2> QED BY <2>1, <2>2 DEF T
<1>18. \A i \in 1 .. L : low[i] \in 0 .. 9 /\ w[i] = w[i - 1] + low[i] * Ten(i - 1)
  <2> TAKE i \in 1 .. L
  <2>1. i \in Nat /\ i <= L /\ i > 0
    BY <1>1
  <2>2. i \in T
    BY <1>16, <2>1
  <2> HIDE DEF w, low
  <2> QED BY <2>1, <2>2 DEF T
<1>19. low \in Digits /\ Len(low) = L
  <2>1. low = [i \in 1 .. L |-> low[i]]
    BY <1>1
  <2> HIDE DEF low
  <2>2. low \in [1 .. L -> 0 .. 9]
    BY <1>18, <2>1
  <2> QED BY <1>1, <2>2 DEF Digits
<1>20. w[0] = 0
  <2>1. 0 \in 0 .. L
    BY <1>1
  <2>2. w[0] = 0 * m - 0 * Ten(0)
    BY <1>3, <1>13, <2>1
  <2>3. 0 * m = 0 /\ 0 * 1 = 0 /\ Ten(0) = 1
    BY TenFacts
  <2>4. w[0] = 0 - 0
    BY <2>2, <2>3
  <2> HIDE DEF w
  <2> QED BY <2>4
<1>21. w \in [0 .. L -> Nat]
  BY <1>17
<1> DEFINE over == carry[L]
           t == Ten(L)
           rest == w[L]
<1>22. over \in Nat /\ t \in Nat /\ rest \in Nat /\ rest = n * m - over * t
  <2>1. L \in 0 .. L
    BY <1>1
  <2> QED BY <1>1, <1>2, <1>17, <2>1, TenFacts DEF L
<1>23. n * m = rest + t * over
  <2> HIDE DEF over, t, rest
  <2>1. n * m \in Nat /\ over * t \in Nat /\ over * t = t * over
    BY <1>22
  <2> QED BY <1>22, <2>1
<1>24. Reads(low, rest)
  <2> HIDE DEF low, w
  <2>1. Weighs(w, low)
    BY <1>18, <1>19, <1>20, <1>21 DEF Weighs
  <2> QED BY <1>19, <2>1 DEF Reads
<1> HIDE DEF low, w, over, t, rest
<1>25. CASE over = 0
  <2>1. Multiplied(digits, m) = low
    <3>1. low \in Seq(0 .. 9)
      BY <1>19 DEF Digits
    <3>2. low \o <<>> = low
      BY <3>1
    <3> QED BY <1>4, <1>25, <3>2 DEF over
  <2>2. n * m = rest
    BY <1>22, <1>23, <1>25
  <2> QED BY <1>24, <2>1, <2>2
<1>26. CASE over # 0
  <2>1. Multiplied(digits, m) = low \o DigitsOf(over)
    BY <1>4, <1>26 DEF over
  <2>2. Reads(DigitsOf(over), over)
    BY <1>22, DigitsAreRead
  <2>3. Reads(low \o DigitsOf(over), rest + Ten(Len(low)) * over)
    BY <1>22, <1>24, <2>2, DigitsJoin
  <2> QED BY <1>19, <1>23, <2>1, <2>3 DEF t
<1> QED BY <1>25, <1>26

\* continuation_upgrade_money_cost: the loop makes the power.
LEMMA DigitsMultiplyOften ==
    ASSUME NEW digits, NEW n \in Nat, Reads(digits, n), NEW m \in Nat, NEW e \in Nat
    PROVE  Reads(MultipliedOften(digits, m, e), n * Power(m, e))
<1> DEFINE Def(p) == p = [i \in 0 .. e |-> IF i = 0 THEN digits ELSE Multiplied(p[i - 1], m)]
           product == CHOOSE p : Def(p)
           step == [i \in 1 .. e |-> [x \in Digits |-> Multiplied(x, m)]]
<1>1. MultipliedOften(digits, m, e) = product[e]
  BY DEF MultipliedOften
<1>2. digits \in Digits
  BY DEF Reads
<1>3. \A x \in Digits : Multiplied(x, m) \in Digits
  <2> TAKE x \in Digits
  <2>1. PICK k \in Nat : Reads(x, k)
    BY DigitsMakeNumber
  <2>2. Reads(Multiplied(x, m), k * m)
    BY <2>1, DigitsMultiply
  <2> QED BY <2>2 DEF Reads
<1>4. step \in [1 .. e -> [Digits -> Digits]]
  BY <1>3
<1>5. \A i \in 1 .. e : \A x \in Digits : step[i][x] = Multiplied(x, m)
  OBVIOUS
<1> HIDE DEF step
<1>6. \E p \in [0 .. e -> Digits] : Iterates(p, digits, step, e)
  BY <1>2, <1>4, Recursion
<1>7. PICK p \in [0 .. e -> Digits] : p[0] = digits /\ \A i \in 1 .. e : p[i] = step[i][p[i - 1]]
  BY <1>6 DEF Iterates
<1>8. Def(p)
  <2>1. ASSUME NEW i \in 1 .. e PROVE p[i] = Multiplied(p[i - 1], m)
    <3>1. i - 1 \in 0 .. e
      OBVIOUS
    <3>2. p[i - 1] \in Digits
      BY <3>1
    <3> QED BY <1>5, <1>7, <3>2
  <2>2. \A i \in 0 .. e : p[i] = IF i = 0 THEN digits ELSE Multiplied(p[i - 1], m)
    BY <1>7, <2>1
  <2> QED BY <2>2
<1>9. Def(product)
  BY <1>8
<1> HIDE DEF product
<1>10. product[0] = digits /\ \A i \in 1 .. e : product[i] = Multiplied(product[i - 1], m)
  BY <1>9
<1> DEFINE T == {i \in Nat : i <= e => Reads(product[i], n * Power(m, i))}
<1>11. 0 \in T
  <2>1. n * Power(m, 0) = n
    BY PowerNext
  <2> QED BY <1>10, <2>1
<1>12. ASSUME NEW i \in Nat, i \in T PROVE i + 1 \in T
  <2> SUFFICES ASSUME i + 1 <= e PROVE Reads(product[i + 1], n * Power(m, i + 1))
    OBVIOUS
  <2>1. i + 1 \in 1 .. e /\ (i + 1) - 1 = i /\ Reads(product[i], n * Power(m, i))
    BY <1>12
  <2>2. product[i + 1] = Multiplied(product[i], m)
    BY <1>10, <2>1
  <2> DEFINE x == Power(m, i)
  <2>3. x \in Nat /\ Power(m, i + 1) = m * x
    BY PowerNext
  <2>4. Reads(product[i], n * x)
    BY <2>1
  <2> HIDE DEF x
  <2>5. n * x \in Nat /\ (n * x) * m = n * (m * x)
    BY <2>3
  <2>6. Reads(Multiplied(product[i], m), (n * x) * m)
    BY <2>4, <2>5, DigitsMultiply
  <2> QED BY <2>2, <2>3, <2>5, <2>6
<1> HIDE DEF T
<1>13. Nat \subseteq T
  BY <1>11, <1>12, NatSetInduction
<1> QED BY <1>1, <1>13 DEF T

\* split_integer_part: the digits after the first shift are the quotient by that power
\* of ten, and what the first shift make is the remainder.
LEMMA DigitsSplit ==
    ASSUME NEW digits, NEW v, digits \in Digits, Weighs(v, digits), NEW shift \in 0 .. Len(digits)
    PROVE  /\ Len(digits) > shift => IntegerPart(digits, shift) = v[Len(digits)] \div Ten(shift)
           /\ v[shift] = v[Len(digits)] % Ten(shift)
           /\ Len(digits) = shift => v[Len(digits)] \div Ten(shift) = 0
<1> DEFINE L == Len(digits)
           n == v[L]
           Def(p) == p = [i \in 0 .. L |-> IF i = 0 THEN 0 ELSE 10 * p[i - 1] + digits[L + 1 - i]]
           value == CHOOSE p : Def(p)
           step == [i \in 1 .. L |-> [x \in Nat |-> 10 * x + digits[L + 1 - i]]]
<1>1. IntegerPart(digits, shift) = IF L <= shift THEN 0 ELSE value[L - shift]
  BY DEF IntegerPart
<1>2. L \in Nat /\ \A i \in 1 .. L : digits[i] \in 0 .. 9
  BY DEF Digits
<1>3. /\ v \in [0 .. L -> Nat] /\ v[0] = 0
      /\ \A i \in 1 .. L : v[i] = v[i - 1] + digits[i] * Ten(i - 1)
  BY DEF Weighs
<1>4. \A i \in 0 .. L : v[i] < Ten(i)
  BY WeightsBelow
<1>5. shift \in 0 .. L
  OBVIOUS
<1> HIDE DEF L
<1>6. n \in Nat
  BY <1>2, <1>3
<1> HIDE DEF n
<1>7. \A i \in 1 .. L : digits[L + 1 - i] \in 0 .. 9
  <2> TAKE i \in 1 .. L
  <2>1. L + 1 - i \in 1 .. L
    BY <1>2
  <2> QED BY <1>2, <2>1
<1>8. step \in [1 .. L -> [Nat -> Nat]]
  <2>1. \A i \in 1 .. L : \A x \in Nat : 10 * x + digits[L + 1 - i] \in Nat
    BY <1>7
  <2> QED BY <2>1
<1>9. \A i \in 1 .. L : \A x \in Nat : step[i][x] = 10 * x + digits[L + 1 - i]
  OBVIOUS
<1> HIDE DEF step
<1>10. \E p \in [0 .. L -> Nat] : Iterates(p, 0, step, L)
  <2> DEFINE zero == 0
  <2>1. zero \in Nat
    OBVIOUS
  <2> HIDE DEF zero
  <2>2. \E p \in [0 .. L -> Nat] : Iterates(p, zero, step, L)
    BY <1>2, <1>8, <2>1, Recursion
  <2> QED BY <2>2 DEF zero
<1>11. PICK p \in [0 .. L -> Nat] : p[0] = 0 /\ \A i \in 1 .. L : p[i] = step[i][p[i - 1]]
  BY <1>10 DEF Iterates
<1>12. Def(p)
  <2>1. ASSUME NEW i \in 1 .. L PROVE p[i] = 10 * p[i - 1] + digits[L + 1 - i]
    <3>1. i - 1 \in 0 .. L
      BY <1>2
    <3>2. p[i - 1] \in Nat
      BY <3>1
    <3> QED BY <1>9, <1>11, <3>2
  <2>2. \A i \in 0 .. L : p[i] = IF i = 0 THEN 0 ELSE 10 * p[i - 1] + digits[L + 1 - i]
    BY <1>2, <1>11, <2>1
  <2> QED BY <2>2
<1>13. Def(value)
  BY <1>12
<1> HIDE DEF value
<1>14. value[0] = 0 /\ \A i \in 1 .. L : value[i] = 10 * value[i - 1] + digits[L + 1 - i]
  BY <1>2, <1>13
<1> DEFINE T == {i \in Nat : i <= L => /\ value[i] \in Nat
                                       /\ n = value[i] * Ten(L - i) + v[L - i]}
<1>15. 0 \in T
  <2> DEFINE t == Ten(L)
  <2>1. L - 0 = L /\ t \in Nat
    BY <1>2, TenFacts
  <2> HIDE DEF t
  <2>2. 0 * t = 0
    BY <2>1
  <2>3. n = 0 * t + n
    BY <1>6, <2>2
  <2>4. n = value[0] * Ten(L - 0) + v[L - 0]
    BY <1>14, <2>1, <2>3 DEF t, n
  <2> QED BY <1>14, <2>4
<1>16. ASSUME NEW i \in Nat, i \in T PROVE i + 1 \in T
  <2> SUFFICES ASSUME i + 1 <= L
               PROVE  /\ value[i + 1] \in Nat
                      /\ n = value[i + 1] * Ten(L - (i + 1)) + v[L - (i + 1)]
    OBVIOUS
  <2> DEFINE k == L - (i + 1)
             x == value[i]
             g == digits[k + 1]
             y == v[k]
             t == Ten(k)
  <2>1. /\ x \in Nat /\ n = x * Ten(L - i) + v[L - i]
        /\ i + 1 \in 1 .. L /\ (i + 1) - 1 = i
    BY <1>2, <1>16
  <2>2. /\ k \in Nat /\ L - i = k + 1 /\ L + 1 - (i + 1) = k + 1 /\ (k + 1) - 1 = k
        /\ k + 1 \in 1 .. L /\ k \in 0 .. L
    BY <1>2
  <2>3. value[i + 1] = 10 * x + g
    BY <1>14, <2>1, <2>2
  <2> HIDE DEF k
  <2>4. g \in 0 .. 9 /\ y \in Nat
    BY <1>2, <1>3, <2>2
  <2>5. t \in Nat /\ Ten(k + 1) = 10 * t
    BY <2>2, TenFacts
  <2>6. v[k + 1] = y + g * t
    BY <1>3, <2>2
  <2>7. n = x * (10 * t) + (y + g * t) /\ x \in Nat
    BY <2>1, <2>2, <2>5, <2>6
  <2> HIDE DEF x, g, y, t
  <2>8. 10 * x + g \in Nat
    BY <2>4, <2>7
  <2>9. (10 * x + g) * t = x * (10 * t) + g * t
    BY <2>4, <2>5, <2>7
  <2>10. x * (10 * t) \in Nat /\ g * t \in Nat
    BY <2>4, <2>5, <2>7
  <2>11. n = (10 * x + g) * t + y
    BY <2>4, <2>7, <2>9, <2>10
  <2> QED BY <2>3, <2>8, <2>11 DEF k, t, y
<1> HIDE DEF T
<1>17. Nat \subseteq T
  BY <1>15, <1>16, NatSetInduction
<1> DEFINE j == L - shift
           h == value[j]
           r == v[shift]
           t == Ten(shift)
<1>18. j \in Nat /\ j <= L /\ L - j = shift
  BY <1>2, <1>5
<1>19. h \in Nat /\ n = h * t + r
  <2>1. j \in T
    BY <1>17, <1>18
  <2> HIDE DEF j
  <2> QED BY <1>18, <2>1 DEF T
<1>20. t \in Nat \ {0} /\ r \in Nat /\ r < t
  <2>1. shift \in Nat
    BY <1>2, <1>5
  <2> QED BY <1>3, <1>4, <1>5, <2>1, TenFacts
<1>21. n \div t = h /\ n % t = r
  <2> HIDE DEF h, r, t
  <2>1. n = t * h + r /\ r \in 0 .. t - 1
    BY <1>19, <1>20
  <2> QED BY <1>19, <1>20, <2>1, OneQuotient
<1>22. L = shift => h = 0
  <2>1. L = shift => j = 0
    BY <1>2
  <2> HIDE DEF j
  <2> QED BY <1>14, <2>1
<1>23. L > shift => IntegerPart(digits, shift) = h
  BY <1>1, <1>2, <1>5
<1> QED BY <1>21, <1>22, <1>23 DEF n, L

\* The digits of a number, split and rounded, are the number divided by that power of
\* ten and rounded half up.
LEMMA DigitsRound ==
    ASSUME NEW digits, NEW n \in Nat, Reads(digits, n), NEW s \in Nat \ {0}
    PROVE  IntegerPart(digits, s) + (IF AtLeastHalf(digits, s) THEN 1 ELSE 0)
               = RoundHalfUp(n, Ten(s))
<1> DEFINE L == Len(digits)
           t == Ten(s)
<1>1. PICK v : Weighs(v, digits) /\ v[L] = n
  BY DEF Reads
<1>2. digits \in Digits /\ L \in Nat /\ DOMAIN digits = 1 .. L
      /\ \A i \in 1 .. L : digits[i] \in 0 .. 9
  BY DEF Reads, Digits
<1>3. /\ v \in [0 .. L -> Nat]
      /\ \A i \in 1 .. L : v[i] = v[i - 1] + digits[i] * Ten(i - 1)
  BY <1>1 DEF Weighs
<1>4. \A i \in 0 .. L : v[i] < Ten(i)
  BY <1>1, <1>2, WeightsBelow
<1>5. t \in Nat \ {0}
  BY TenFacts
<1>6. CASE s <= L
  <2>1. s \in 0 .. L
    BY <1>2, <1>6
  <2>2. /\ L > s => IntegerPart(digits, s) = n \div t
        /\ v[s] = n % t
        /\ L = s => n \div t = 0
    BY <1>1, <1>2, <2>1, DigitsSplit
  <2>3. IntegerPart(digits, s) = n \div t
    <3>1. L <= s => IntegerPart(digits, s) = 0
      BY DEF IntegerPart
    <3> HIDE DEF L, t
    <3> QED BY <1>2, <1>6, <2>2, <3>1
  <2> DEFINE d == digits[s]
             u == Ten(s - 1)
             w == v[s - 1]
  <2>4. s \in 1 .. L /\ s - 1 \in Nat /\ s - 1 \in 0 .. L /\ (s - 1) + 1 = s
    BY <1>2, <1>6
  <2>5. d \in 0 .. 9 /\ w \in Nat /\ w < u /\ v[s] = w + d * u
    BY <1>2, <1>3, <1>4, <2>4
  <2>6. u \in Nat /\ t = 10 * u
    BY <2>4, TenFacts
  <2>7. AtLeastHalf(digits, s) <=> d >= 5
    BY <1>2, <2>4 DEF AtLeastHalf
  <2> HIDE DEF L, t, d, u, w
  <2>8. d >= 5 => d * u >= 5 * u
    BY <2>5, <2>6
  <2>9. d < 5 => d * u <= 4 * u
    BY <2>5, <2>6
  <2>10. d * u \in Nat
    BY <2>5, <2>6
  <2>11. d >= 5 <=> 2 * v[s] >= t
    BY <2>5, <2>6, <2>8, <2>9, <2>10
  <2>12. AtLeastHalf(digits, s) <=> 2 * (n % t) >= t
    BY <2>2, <2>7, <2>11
  <2> QED BY <2>3, <2>12 DEF RoundHalfUp, t
<1>7. CASE s > L
  <2> DEFINE k == s - (L + 1)
             u == Ten(L)
             z == Ten(k)
  <2>1. k \in Nat /\ s = (L + 1) + k
    BY <1>2, <1>7
  <2>2. Power(10, (L + 1) + k) = Power(10, L + 1) * Power(10, k)
    <3>1. 10 \in Nat /\ L + 1 \in Nat
      BY <1>2
    <3> HIDE DEF L, k
    <3> QED BY <2>1, <3>1, PowerAdds
  <2>3. u \in Nat \ {0} /\ Ten(L + 1) = 10 * u
    BY <1>2, TenFacts
  <2>4. z \in Nat \ {0}
    BY <2>1, TenFacts
  <2>5. t = (10 * u) * z
    BY <2>1, <2>2, <2>3 DEF Ten
  <2>6. n < u
    BY <1>1, <1>2, <1>4
  <2>7. IntegerPart(digits, s) = 0 /\ ~ AtLeastHalf(digits, s)
    BY <1>2, <1>7 DEF IntegerPart, AtLeastHalf
  <2> HIDE DEF L, k, u, z, t
  <2>8. (10 * u) * z >= 10 * u
    BY <2>3, <2>4
  <2>9. 2 * n < t /\ n \in 0 .. t - 1
    BY <1>5, <2>3, <2>5, <2>6, <2>8
  <2>10. n = t * 0 + n
    BY <1>5
  <2>11. n \div t = 0 /\ n % t = n
    BY <1>5, <2>9, <2>10, OneQuotient
  <2>12. ~ (2 * n >= t)
    BY <1>5, <2>9
  <2>13. RoundHalfUp(n, t) = 0
    BY <2>11, <2>12 DEF RoundHalfUp
  <2> QED BY <2>7, <2>13 DEF t
<1> QED BY <1>2, <1>6, <1>7

\* A hundred is two digits.
LEMMA HundredsAreTens ==
    ASSUME NEW k \in Nat
    PROVE  Power(100, k) = Ten(2 * k)
<1> DEFINE T == {i \in Nat : Power(100, i) = Ten(2 * i)}
<1>1. 0 \in T
  <2>1. 2 * 0 = 0 /\ 100 \in Nat
    OBVIOUS
  <2> QED BY <2>1, PowerNext, TenFacts
<1>2. ASSUME NEW i \in Nat, i \in T PROVE i + 1 \in T
  <2> DEFINE j == 2 * i
             t == Ten(j)
  <2>1. j \in Nat /\ 2 * (i + 1) = (j + 1) + 1 /\ j + 1 \in Nat /\ 100 \in Nat
    OBVIOUS
  <2>2. Power(100, i) = t /\ Power(100, i + 1) = 100 * Power(100, i)
    BY <1>2, <2>1, PowerNext
  <2>3. t \in Nat /\ Ten((j + 1) + 1) = 10 * (10 * t)
    BY <2>1, TenFacts
  <2> HIDE DEF t
  <2>4. 10 * (10 * t) = 100 * t
    BY <2>3
  <2>5. Power(100, i + 1) = Ten(2 * (i + 1))
    BY <2>1, <2>2, <2>3, <2>4
  <2> QED BY <2>5
<1> HIDE DEF T
<1>3. Nat \subseteq T
  BY <1>1, <1>2, NatSetInduction
<1> QED BY <1>3 DEF T

\* The price beyond the table, for every appraisal and level: the digits give the
\* appraisal times 2 times 1.35 to the exponent, rounded once (upgrade_money_cost).
THEOREM ContinuationExact ==
    ASSUME NEW appraisal \in Nat, NEW e \in Nat
    PROVE  ContinuationCost(appraisal, e)
               = RoundHalfUp(2 * appraisal * Power(135, e), Power(100, e + 1)) * 100
<1> DEFINE digits == MultipliedOften(DigitsOf(2 * appraisal), 135, e)
           s == 2 * e + 2
           p == Power(135, e)
           n == 2 * appraisal * p
           t == Ten(s)
<1>1. s \in Nat \ {0} /\ 2 * (e + 1) = s /\ e + 1 \in Nat /\ 135 \in Nat
  OBVIOUS
<1>2. Power(100, e + 1) = t
  BY <1>1, HundredsAreTens
<1>3. t \in Nat \ {0}
  BY <1>1, TenFacts
<1>4. p \in Nat
  BY <1>1, PowerNext
<1>5. n \in Nat
  BY <1>4
<1>6. Reads(digits, n)
  <2> DEFINE a == 2 * appraisal
             m == 135
  <2>1. a \in Nat /\ m \in Nat
    OBVIOUS
  <2> HIDE DEF a, m
  <2>2. Reads(DigitsOf(a), a)
    BY <2>1, DigitsAreRead
  <2>3. Reads(MultipliedOften(DigitsOf(a), m, e), a * Power(m, e))
    BY <2>1, <2>2, DigitsMultiplyOften
  <2> QED BY <2>3 DEF a, m
<1>7. ContinuationCost(appraisal, e) =
          IF appraisal = 0 THEN 0
          ELSE (IntegerPart(digits, s) + (IF AtLeastHalf(digits, s) THEN 1 ELSE 0)) * 100
  BY DEF ContinuationCost
<1> HIDE DEF digits, s, t, p
<1>8. CASE appraisal = 0
  <2>1. n = 0
    BY <1>4, <1>8
  <2>2. 0 = t * 0 + 0 /\ 0 \in 0 .. t - 1
    BY <1>3
  <2>3. 0 \div t = 0 /\ 0 % t = 0
    BY <1>3
  <2>4. RoundHalfUp(0, t) = 0
    BY <1>3, <2>3 DEF RoundHalfUp
  <2> QED BY <1>2, <1>7, <1>8, <2>1, <2>4 DEF p
<1>9. CASE appraisal # 0
  <2> HIDE DEF n
  <2>1. IntegerPart(digits, s) + (IF AtLeastHalf(digits, s) THEN 1 ELSE 0) = RoundHalfUp(n, t)
    BY <1>1, <1>5, <1>6, DigitsRound DEF t
  <2> QED BY <1>2, <1>7, <1>9, <2>1 DEF n, p
<1> QED BY <1>8, <1>9

\* What is rounded half up lies around twice the fraction.
LEMMA RoundedBetween ==
    ASSUME NEW n \in Nat, NEW d \in Nat \ {0}
    PROVE  /\ RoundHalfUp(n, d) \in Nat
           /\ (2 * d) * RoundHalfUp(n, d) <= 2 * n + d
           /\ 2 * n + d < (2 * d) * (RoundHalfUp(n, d) + 1)
<1> DEFINE q == n \div d
           r == n % d
           h == RoundHalfUp(n, d)
<1>1. q \in Nat /\ r \in 0 .. d - 1 /\ n = d * q + r
  BY Division
<1>2. h = q + (IF 2 * r >= d THEN 1 ELSE 0)
  BY DEF RoundHalfUp
<1> HIDE DEF q, r, h
<1>3. (2 * d) * q = 2 * (d * q) /\ (2 * d) * (q + 1) = 2 * (d * q) + 2 * d
      /\ (2 * d) * (q + 2) = 2 * (d * q) + 4 * d /\ d * q \in Nat
  BY <1>1
<1>4. CASE 2 * r >= d
  <2>1. h = q + 1 /\ h + 1 = q + 2
    BY <1>1, <1>2, <1>4
  <2> QED BY <1>1, <1>3, <1>4, <2>1 DEF h
<1>5. CASE ~ (2 * r >= d)
  <2>1. h = q
    BY <1>1, <1>2, <1>5
  <2> QED BY <1>1, <1>3, <1>5, <2>1 DEF h
<1> QED BY <1>4, <1>5

\* Of two fractions the lesser is not rounded to more.
LEMMA RoundingKeepsOrder ==
    ASSUME NEW n \in Nat, NEW d \in Nat \ {0}, NEW m \in Nat, NEW c \in Nat \ {0},
           n * c <= m * d
    PROVE  RoundHalfUp(n, d) <= RoundHalfUp(m, c)
<1> DEFINE h == RoundHalfUp(n, d)
           k == RoundHalfUp(m, c)
<1>1. h \in Nat /\ (2 * d) * h <= 2 * n + d
  BY RoundedBetween
<1>2. k \in Nat /\ 2 * m + c < (2 * c) * (k + 1)
  BY RoundedBetween
<1> HIDE DEF h, k
<1> SUFFICES ASSUME h >= k + 1 PROVE FALSE
  BY <1>1, <1>2 DEF h, k
<1>3. ((2 * d) * h) * c <= (2 * n + d) * c
  BY <1>1
<1>4. (2 * n + d) * c = 2 * (n * c) + d * c
  OBVIOUS
<1>5. d * (2 * m + c) = 2 * (m * d) + d * c
  OBVIOUS
<1>6. d * (2 * m + c) < d * ((2 * c) * (k + 1))
  BY <1>2
<1>7. n * c \in Nat /\ m * d \in Nat /\ d * c \in Nat
  OBVIOUS
<1>8. ((2 * d) * h) * c < d * ((2 * c) * (k + 1))
  <2>1. ((2 * d) * h) * c \in Nat /\ d * ((2 * c) * (k + 1)) \in Nat
    BY <1>1, <1>2
  <2> QED BY <1>3, <1>4, <1>5, <1>6, <1>7, <2>1
<1>9. ((2 * d) * h) * c = (2 * (d * c)) * h /\ d * ((2 * c) * (k + 1)) = (2 * (d * c)) * (k + 1)
  BY <1>1, <1>2
<1> DEFINE z == 2 * (d * c)
<1>10. z \in Nat /\ z * h < z * (k + 1)
  BY <1>7, <1>8, <1>9
<1> HIDE DEF z
<1>11. z * h >= z * (k + 1)
  BY <1>1, <1>2, <1>10
<1>12. z * h \in Nat /\ z * (k + 1) \in Nat
  BY <1>1, <1>2, <1>10
<1> QED BY <1>10, <1>11, <1>12

\* No attempt is cheaper than one at a lower level, for every appraisal and every
\* level: on the table, on its continuation and where they meet (upgrade_money_cost).
THEOREM PricesRise ==
    ASSUME NEW appraisal \in Nat, NEW target \in Nat \ {0}
    PROVE  UpgradeCost(appraisal, target) <= UpgradeCost(appraisal, target + 1)
<1> DEFINE d == 100000
<1>1. d \in Nat \ {0}
  OBVIOUS
<1>2. CASE target < 20
  <2>1. target \in 1 .. 19
    BY <1>2
  <2>2. Rates[target] \in Nat /\ Rates[target + 1] \in Nat /\ Rates[target] <= Rates[target + 1]
    BY <2>1 DEF Rates
  <2> DEFINE n == appraisal * Rates[target]
             m == appraisal * Rates[target + 1]
  <2>3. n \in Nat /\ m \in Nat /\ n <= m
    BY <2>2
  <2>4. /\ UpgradeCost(appraisal, target) = RoundHalfUp(n, d) * 100
        /\ UpgradeCost(appraisal, target + 1) = RoundHalfUp(m, d) * 100
    BY <2>1 DEF UpgradeCost, TableCost
  <2> HIDE DEF n, m, d
  <2>5. n * d <= m * d
    BY <1>1, <2>3
  <2>6. RoundHalfUp(n, d) <= RoundHalfUp(m, d)
    BY <1>1, <2>3, <2>5, RoundingKeepsOrder
  <2>7. RoundHalfUp(n, d) \in Nat /\ RoundHalfUp(m, d) \in Nat
    BY <1>1, <2>3, RoundedBetween
  <2> QED BY <2>4, <2>6, <2>7
<1>3. CASE target = 20
  <2> DEFINE n == appraisal * 2000
             m == 2 * appraisal * 135
             c == 10000
  <2>1. UpgradeCost(appraisal, 20) = RoundHalfUp(n, d) * 100
    BY DEF UpgradeCost, TableCost, Rates
  <2>2. Power(135, 1) = 135 /\ Power(100, 1) = 100 /\ Power(100, 2) = 10000
    <3>1. /\ 0 \in Nat /\ 1 \in Nat /\ 135 \in Nat /\ 100 \in Nat /\ 0 + 1 = 1 /\ 1 + 1 = 2
      OBVIOUS
    <3>2. Power(135, 0 + 1) = 135 * Power(135, 0) /\ Power(135, 0) = 1
      BY <3>1, PowerNext
    <3>3. Power(100, 0 + 1) = 100 * Power(100, 0) /\ Power(100, 0) = 1
      BY <3>1, PowerNext
    <3>4. Power(100, 1 + 1) = 100 * Power(100, 1)
      BY <3>1, PowerNext
    <3> QED BY <3>1, <3>2, <3>3, <3>4
  <2>3. UpgradeCost(appraisal, 21) = RoundHalfUp(m, c) * 100
    <3>1. ContinuationCost(appraisal, 1)
              = RoundHalfUp(2 * appraisal * Power(135, 1), Power(100, 1 + 1)) * 100
      BY ContinuationExact
    <3>2. UpgradeCost(appraisal, 21) = ContinuationCost(appraisal, 1)
      BY DEF UpgradeCost
    <3>3. 1 + 1 = 2
      OBVIOUS
    <3> QED BY <2>2, <3>1, <3>2, <3>3
  <2>4. n \in Nat /\ m \in Nat /\ c \in Nat \ {0} /\ n * c <= m * d
    OBVIOUS
  <2> HIDE DEF n, m, c, d
  <2>5. RoundHalfUp(n, d) <= RoundHalfUp(m, c)
    BY <1>1, <2>4, RoundingKeepsOrder
  <2>6. RoundHalfUp(n, d) \in Nat /\ RoundHalfUp(m, c) \in Nat
    BY <1>1, <2>4, RoundedBetween
  <2>7. target + 1 = 21
    BY <1>3
  <2> QED BY <1>3, <2>1, <2>3, <2>5, <2>6, <2>7
<1>4. CASE target > 20
  <2> DEFINE e == target - 20
             p == Power(135, e)
             c == Power(100, e + 1)
             n == 2 * appraisal * p
             m == 2 * appraisal * (135 * p)
             b == 100 * c
  <2>1. /\ e \in Nat /\ e + 1 \in Nat /\ (target + 1) - 20 = e + 1
        /\ ~ (target <= 20) /\ ~ (target + 1 <= 20) /\ 135 \in Nat /\ 100 \in Nat \ {0}
    BY <1>4
  <2> HIDE DEF e
  <2>2. p \in Nat /\ Power(135, e + 1) = 135 * p
    BY <2>1, PowerNext
  <2>3. c \in Nat \ {0}
    BY <2>1, PowerBeyond
  <2>4. Power(100, (e + 1) + 1) = b
    BY <2>1, PowerNext
  <2>5. UpgradeCost(appraisal, target) = RoundHalfUp(n, c) * 100
    <3>1. UpgradeCost(appraisal, target) = ContinuationCost(appraisal, e)
      BY <2>1 DEF UpgradeCost, e
    <3> QED BY <2>1, <3>1, ContinuationExact
  <2>6. UpgradeCost(appraisal, target + 1) = RoundHalfUp(m, b) * 100
    <3>1. UpgradeCost(appraisal, target + 1) = ContinuationCost(appraisal, e + 1)
      BY <2>1 DEF UpgradeCost, e
    <3>2. ContinuationCost(appraisal, e + 1)
              = RoundHalfUp(2 * appraisal * Power(135, e + 1), Power(100, (e + 1) + 1)) * 100
      BY <2>1, ContinuationExact
    <3> QED BY <2>2, <2>4, <3>1, <3>2
  <2> HIDE DEF p, c
  <2>7. n \in Nat /\ m \in Nat /\ b \in Nat \ {0}
    BY <2>2, <2>3
  <2>8. m = 135 * n
    BY <2>2
  <2> HIDE DEF n, m
  <2>9. n * b <= m * c
    <3>1. n * b = 100 * (n * c) /\ m * c = 135 * (n * c) /\ n * c \in Nat
      BY <2>3, <2>7, <2>8
    <3> QED BY <3>1
  <2> HIDE DEF b
  <2>10. RoundHalfUp(n, c) <= RoundHalfUp(m, b)
    BY <2>3, <2>7, <2>9, RoundingKeepsOrder
  <2>11. RoundHalfUp(n, c) \in Nat /\ RoundHalfUp(m, b) \in Nat
    BY <2>3, <2>7, RoundedBetween
  <2> QED BY <2>5, <2>6, <2>10, <2>11
<1> QED BY <1>2, <1>3, <1>4

---------------------------------------------------------------------------
(* Repairs.                                                                *)

\* Rounding up is the least multiple that reaches.
LEMMA UpperFacts ==
    ASSUME NEW n \in Nat, NEW d \in Nat \ {0}
    PROVE  /\ UpperQuotient(n, d) \in Nat
           /\ d * UpperQuotient(n, d) \in n .. (n + d - 1)
<1> DEFINE q == n \div d
           r == n % d
<1>1. q \in Nat /\ r \in 0 .. (d - 1) /\ n = d * q + r
  BY Division
<1>2. UpperQuotient(n, d) = IF r # 0 THEN q + 1 ELSE q
  BY <1>1 DEF UpperQuotient
<1> HIDE DEF q, r
<1>3. d * q \in Nat /\ d * (q + 1) = d * q + d
  BY <1>1
<1> QED BY <1>1, <1>2, <1>3

\* Two amounts rounded up are no less than their sum rounded up.
LEMMA UpperSplits ==
    ASSUME NEW n \in Nat, NEW m \in Nat, NEW d \in Nat \ {0}
    PROVE  UpperQuotient(n, d) + UpperQuotient(m, d) >= UpperQuotient(n + m, d)
<1> DEFINE u == UpperQuotient(n, d)
           v == UpperQuotient(m, d)
           w == UpperQuotient(n + m, d)
<1>1. /\ u \in Nat /\ d * u \in n .. (n + d - 1)
      /\ v \in Nat /\ d * v \in m .. (m + d - 1)
  BY UpperFacts
<1>2. w \in Nat /\ d * w \in (n + m) .. ((n + m) + d - 1)
  <2>1. n + m \in Nat
    OBVIOUS
  <2> QED BY <2>1, UpperFacts
<1> HIDE DEF u, v, w
<1>3. ~ (u + v + 1 <= w)
  <2> SUFFICES ASSUME u + v + 1 <= w PROVE FALSE
    OBVIOUS
  <2>1. u + v + 1 \in Nat
    BY <1>1
  <2>2. d * (u + v + 1) <= d * w
    BY <1>2, <2>1, Multiples
  <2>3. d * (u + v + 1) = d * u + d * v + d
    BY <1>1
  <2> QED BY <1>1, <1>2, <2>2, <2>3
<1>4. u + v >= w
  BY <1>1, <1>2, <1>3
<1> QED BY <1>4 DEF u, v, w

\* Some wear takes some units, and never more than all of it does.
LEMMA UpperBounded ==
    ASSUME NEW base \in Nat \ {0}, NEW d \in Nat \ {0}, NEW missing \in 1 .. d
    PROVE  UpperQuotient(base * missing, d) \in 1 .. base
<1> DEFINE n == base * missing
           u == UpperQuotient(n, d)
<1>1. n \in Nat /\ n > 0 /\ n <= d * base
  <2>1. base * 1 <= base * missing /\ base * missing <= base * d
    BY Multiples
  <2>2. base * 1 = base /\ base * d = d * base
    OBVIOUS
  <2> QED BY <2>1, <2>2
<1> HIDE DEF n
<1>2. u \in Nat /\ d * u \in n .. (n + d - 1)
  BY <1>1, UpperFacts
<1> HIDE DEF u
<1>3. u # 0
  BY <1>1, <1>2
<1>4. ~ (u >= base + 1)
  <2> SUFFICES ASSUME u >= base + 1 PROVE FALSE
    OBVIOUS
  <2>1. d * (base + 1) <= d * u
    BY <1>2, Multiples
  <2>2. d * (base + 1) = d * base + d /\ d * base \in Nat
    OBVIOUS
  <2> QED BY <1>1, <1>2, <2>1, <2>2
<1>5. u \in 1 .. base
  BY <1>2, <1>3, <1>4
<1> QED BY <1>5 DEF u, n

\* Of d parts of a hundred each, what n is worth: rounded half up, and one at least.
Hundreds(n, d) == IF n < 100 * d THEN 1 ELSE (n + 50 * d) \div (100 * d)

\* How far the rounding is from what is rounded.
LEMMA HundredsFacts ==
    ASSUME NEW n \in Nat, NEW d \in Nat \ {0}
    PROVE  LET h == Hundreds(n, d)
           IN  /\ h \in Nat \ {0}
               /\ (100 * d) * h + 50 * d > n
               /\ h > 1 => (100 * d) * h <= n + 50 * d
<1> DEFINE D == 100 * d
           m == n + 50 * d
           h == m \div D
           r == m % D
<1>1. D \in Nat \ {0} /\ m \in Nat /\ D = 100 * d /\ m = n + 50 * d
  OBVIOUS
<1>2. Hundreds(n, d) = IF n < D THEN 1 ELSE h
  BY DEF Hundreds
<1> HIDE DEF D, m
<1>3. h \in Nat /\ r \in 0 .. (D - 1) /\ m = D * h + r
  <2>1. D \in Nat \ {0} /\ m \in Nat
    BY <1>1
  <2> QED BY <2>1, Division
<1> HIDE DEF h, r
<1>4. CASE n < D
  <2>1. Hundreds(n, d) = 1 /\ D * 1 = D
    BY <1>1, <1>2, <1>4
  <2> QED BY <1>1, <1>4, <2>1
<1>5. CASE ~ (n < D)
  <2>1. Hundreds(n, d) = h
    BY <1>2, <1>5
  <2>2. h # 0
    BY <1>1, <1>3, <1>5
  <2>3. D * h \in Nat
    BY <1>1, <1>3
  <2> QED BY <1>1, <1>3, <2>1, <2>2, <2>3
<1> QED BY <1>4, <1>5

\* Two prices rounded apart are at most one hundred below the price of both.
LEMMA HundredsSplit ==
    ASSUME NEW n \in Nat, NEW m \in Nat, NEW d \in Nat \ {0}
    PROVE  Hundreds(n, d) + Hundreds(m, d) >= Hundreds(n + m, d) - 1
<1> DEFINE D == 100 * d
           e == 50 * d
           u == Hundreds(n, d)
           v == Hundreds(m, d)
           w == Hundreds(n + m, d)
<1>1. D \in Nat \ {0} /\ e \in Nat \ {0} /\ D = 2 * e
  OBVIOUS
<1>2. /\ u \in Nat \ {0} /\ D * u + e > n
      /\ v \in Nat \ {0} /\ D * v + e > m
  BY HundredsFacts
<1>3. w \in Nat /\ (w > 1 => D * w <= (n + m) + e)
  <2>1. n + m \in Nat
    OBVIOUS
  <2> QED BY <2>1, HundredsFacts
<1> HIDE DEF D, e, u, v, w
<1>4. ~ (u + v + 2 <= w)
  <2> SUFFICES ASSUME u + v + 2 <= w PROVE FALSE
    OBVIOUS
  <2>1. u + v + 2 \in Nat /\ w > 1
    BY <1>2, <1>3
  <2>2. D * (u + v + 2) <= D * w
    BY <1>1, <1>3, <2>1, Multiples
  <2>3. D * (u + v + 2) = D * u + D * v + 2 * D
    BY <1>1, <1>2
  <2>4. D * u \in Nat /\ D * v \in Nat /\ D * w \in Nat
    BY <1>1, <1>2, <1>3
  <2> QED BY <1>1, <1>2, <1>3, <2>1, <2>2, <2>3, <2>4
<1>5. u + v >= w - 1
  BY <1>2, <1>3, <1>4
<1> QED BY <1>5 DEF u, v, w

\* The price of a repair is its hundreds.
LEMMA MoneyIsHundreds ==
    ASSUME NEW appraisal \in Nat, NEW ratio \in Nat, NEW missing \in Nat,
           NEW full \in Nat \ {0}
    PROVE  /\ Hundreds(appraisal * ratio * missing, 100 * full) \in Nat
           /\ RepairMoney(appraisal, ratio, missing, full)
                  = Hundreds(appraisal * ratio * missing, 100 * full) * 100
<1> DEFINE n == appraisal * ratio * missing
           d == 100 * full
<1>1. n \in Nat /\ d \in Nat \ {0}
  OBVIOUS
<1>2. Hundreds(n, d) \in Nat
  BY <1>1, HundredsFacts
<1>3. RepairMoney(appraisal, ratio, missing, full)
          = IF n < 100 * d THEN 100 ELSE ((n + 50 * d) \div (100 * d)) * 100
  BY Zenon DEF RepairMoney
<1>4. Hundreds(n, d) = IF n < 100 * d THEN 1 ELSE (n + 50 * d) \div (100 * d)
  BY Zenon DEF Hundreds
<1> HIDE DEF n, d
<1>5. RepairMoney(appraisal, ratio, missing, full) = Hundreds(n, d) * 100
  <2> DEFINE q == (n + 50 * d) \div (100 * d)
  <2> HIDE DEF q
  <2>1. /\ n < 100 * d => RepairMoney(appraisal, ratio, missing, full) = 100 /\ Hundreds(n, d) = 1
        /\ ~ (n < 100 * d) => /\ RepairMoney(appraisal, ratio, missing, full) = q * 100
                              /\ Hundreds(n, d) = q
    BY <1>3, <1>4 DEF q
  <2> QED BY <1>2, <2>1
<1> QED BY <1>2, <1>5 DEF n, d

\* A repair in two pieces, of any item and any wear, saves a hundred at most, and
\* takes no less material (preview_full_repair).
THEOREM PiecesNeverSave ==
    ASSUME NEW full \in Nat \ {0}, NEW first \in 1 .. full, NEW second \in 1 .. (full - first)
    PROVE  /\ \A base \in Nat \ {0} :
                  LET whole == RepairUnits(base, first + second, full)
                  IN  /\ RepairUnits(base, first, full) + RepairUnits(base, second, full) >= whole
                      /\ whole \in 1 .. base
                      /\ CancelRefund(whole) < whole
           /\ \A appraisal, ratio \in Nat :
                  RepairMoney(appraisal, ratio, first, full)
                      + RepairMoney(appraisal, ratio, second, full)
                      >= RepairMoney(appraisal, ratio, first + second, full) - 100
<1>1. first \in Nat /\ second \in Nat /\ first + second \in 1 .. full
  OBVIOUS
<1>2. ASSUME NEW base \in Nat \ {0}
      PROVE  LET whole == RepairUnits(base, first + second, full)
             IN  /\ RepairUnits(base, first, full) + RepairUnits(base, second, full) >= whole
                 /\ whole \in 1 .. base
                 /\ CancelRefund(whole) < whole
  <2> DEFINE n == base * first
             m == base * second
             whole == RepairUnits(base, first + second, full)
  <2>1. n \in Nat /\ m \in Nat /\ base * (first + second) = n + m
    BY <1>1
  <2> HIDE DEF n, m
  <2>2. /\ RepairUnits(base, first, full) = UpperQuotient(n, full)
        /\ RepairUnits(base, second, full) = UpperQuotient(m, full)
        /\ whole = UpperQuotient(n + m, full)
    BY <2>1 DEF RepairUnits, n, m
  <2>3. UpperQuotient(n, full) + UpperQuotient(m, full) >= UpperQuotient(n + m, full)
    BY <2>1, UpperSplits
  <2>4. whole \in 1 .. base
    BY <1>1, UpperBounded DEF RepairUnits
  <2> HIDE DEF whole
  <2>5. CancelRefund(whole) < whole
    BY <2>4 DEF CancelRefund
  <2> QED BY <2>2, <2>3, <2>4, <2>5 DEF whole
<1>3. ASSUME NEW appraisal \in Nat, NEW ratio \in Nat
      PROVE  RepairMoney(appraisal, ratio, first, full)
                 + RepairMoney(appraisal, ratio, second, full)
                 >= RepairMoney(appraisal, ratio, first + second, full) - 100
  <2> DEFINE a == appraisal * ratio
             n == a * first
             m == a * second
             d == 100 * full
  <2>1. a \in Nat /\ d \in Nat \ {0}
    OBVIOUS
  <2> HIDE DEF a, d
  <2>2. n \in Nat /\ m \in Nat /\ a * (first + second) = n + m
    BY <1>1, <2>1
  <2>3. ASSUME NEW missing \in Nat
        PROVE  /\ RepairMoney(appraisal, ratio, missing, full) = Hundreds(a * missing, d) * 100
               /\ Hundreds(a * missing, d) \in Nat
    <3>1. /\ Hundreds(appraisal * ratio * missing, 100 * full) \in Nat
          /\ RepairMoney(appraisal, ratio, missing, full)
                 = Hundreds(appraisal * ratio * missing, 100 * full) * 100
      BY MoneyIsHundreds
    <3> QED BY Zenon, <3>1 DEF a, d
  <2>7. /\ RepairMoney(appraisal, ratio, first, full) = Hundreds(n, d) * 100
        /\ Hundreds(n, d) \in Nat
    BY <1>1, <2>3
  <2>8. /\ RepairMoney(appraisal, ratio, second, full) = Hundreds(m, d) * 100
        /\ Hundreds(m, d) \in Nat
    BY <1>1, <2>3
  <2>9. /\ RepairMoney(appraisal, ratio, first + second, full) = Hundreds(n + m, d) * 100
        /\ Hundreds(n + m, d) \in Nat
    <3>1. first + second \in Nat
      BY <1>1
    <3> HIDE DEF n, m
    <3>2. /\ RepairMoney(appraisal, ratio, first + second, full)
                 = Hundreds(a * (first + second), d) * 100
          /\ Hundreds(a * (first + second), d) \in Nat
      BY <2>3, <3>1
    <3> QED BY Zenon, <2>2, <3>2
  <2> HIDE DEF n, m
  <2>4. Hundreds(n, d) + Hundreds(m, d) >= Hundreds(n + m, d) - 1
    BY <2>1, <2>2, HundredsSplit
  <2> DEFINE u == Hundreds(n, d)
             v == Hundreds(m, d)
             w == Hundreds(n + m, d)
  <2>5. u \in Nat /\ v \in Nat /\ w \in Nat /\ u + v >= w - 1
    BY <2>4, <2>7, <2>8, <2>9
  <2>6. /\ RepairMoney(appraisal, ratio, first, full) = u * 100
        /\ RepairMoney(appraisal, ratio, second, full) = v * 100
        /\ RepairMoney(appraisal, ratio, first + second, full) = w * 100
    BY <2>7, <2>8, <2>9
  <2> HIDE DEF u, v, w
  <2> QED BY <2>5, <2>6
<1> QED BY <1>2, <1>3

\* The number tried is a natural number.
TriedIsNat == tried \in Nat

\* It is always one.
LEMMA TriedNat == CostsSpec => []TriedIsNat
<1>1. CostsInit => TriedIsNat
  BY DEF CostsInit, TriedIsNat
<1>2. TriedIsNat /\ [CostsNext]_tried => TriedIsNat'
  BY DEF CostsNext, TriedIsNat
<1> QED BY <1>1, <1>2, PTL DEF CostsSpec

\* The search finds the level of every number of points (activity_progress).
THEOREM LevelsExact == CostsSpec => []ActivityLevelExact
<1>1. TriedIsNat => ActivityLevelExact
  BY LevelReached DEF TriedIsNat, ActivityLevelExact
<1> QED BY <1>1, TriedNat, PTL

\* The prices of the runs, for every appraisal (upgrade_money_cost).
THEOREM UpgradeCostsExact == CostsSpec => []UpgradeCostExact
<1>1. TriedIsNat => UpgradeCostExact
  <2> SUFFICES ASSUME TriedIsNat PROVE UpgradeCostExact
    OBVIOUS
  <2>1. tried \in Nat /\ tried * 1000 \in Nat
    BY DEF TriedIsNat
  <2>2. ASSUME NEW e \in Exponents
        PROVE  ContinuationCost(tried, e) = RoundHalfUp(2 * tried * 135 ^ e, 100 ^ (e + 1)) * 100
    <3>1. e \in 1 .. 3 /\ e \in Nat
      BY DEF Exponents
    <3>2. /\ Power(135, 1) = 135 ^ 1 /\ Power(135, 2) = 135 ^ 2 /\ Power(135, 3) = 135 ^ 3
          /\ Power(100, 2) = 100 ^ 2 /\ Power(100, 3) = 100 ^ 3 /\ Power(100, 4) = 100 ^ 4
      <4>1. ASSUME NEW b \in Nat
            PROVE  /\ Power(b, 1) = b /\ Power(b, 2) = b * b /\ Power(b, 3) = b * (b * b)
                   /\ Power(b, 4) = b * (b * (b * b))
        <5>1. 0 + 1 = 1 /\ 1 + 1 = 2 /\ 2 + 1 = 3 /\ 3 + 1 = 4 /\ b * 1 = b
          OBVIOUS
        <5>2. Power(b, 0 + 1) = b * 1 /\ Power(b, 1 + 1) = b * Power(b, 1)
          BY PowerNext, SMT
        <5>3. Power(b, 2 + 1) = b * Power(b, 2) /\ Power(b, 3 + 1) = b * Power(b, 3)
          BY PowerNext, SMT
        <5> QED BY <5>1, <5>2, <5>3
      <4>2. 135 \in Nat /\ 100 \in Nat
        BY SMT
      <4>3. /\ 135 ^ 1 = 135 /\ 135 ^ 2 = 135 * 135 /\ 135 ^ 3 = 135 * (135 * 135)
            /\ 100 ^ 2 = 100 * 100 /\ 100 ^ 3 = 100 * (100 * 100)
            /\ 100 ^ 4 = 100 * (100 * (100 * 100))
        BY SMT
      <4> QED BY <4>1, <4>2, <4>3, SMT
    <3>3. Power(135, e) = 135 ^ e /\ Power(100, e + 1) = 100 ^ (e + 1)
      <4>1. e = 1 \/ e = 2 \/ e = 3
        BY <3>1
      <4>3. CASE e = 1
        <5>1. e + 1 = 2
          BY <4>3
        <5> QED BY <3>2, <4>3, <5>1, Zenon
      <4>4. CASE e = 2
        <5>1. e + 1 = 3
          BY <4>4
        <5> QED BY <3>2, <4>4, <5>1, Zenon
      <4>5. CASE e = 3
        <5>1. e + 1 = 4
          BY <4>5
        <5> QED BY <3>2, <4>5, <5>1, Zenon
      <4> QED BY <4>1, <4>3, <4>4, <4>5
    <3>4. ContinuationCost(tried, e)
              = RoundHalfUp(2 * tried * Power(135, e), Power(100, e + 1)) * 100
      BY <2>1, <3>1, ContinuationExact
    <3> QED BY <3>3, <3>4, Zenon
  <2>3. \A target \in 1 .. 20 + Max(Exponents) - 1 : target \in Nat \ {0}
    <3>1. Max(Exponents) = 3
      BY DEF Max, Exponents
    <3> QED BY <3>1
  <2>4. \A target \in 1 .. 20 + Max(Exponents) - 1 :
            UpgradeCost(tried * 1000, target) <= UpgradeCost(tried * 1000, target + 1)
    BY <2>1, <2>3, PricesRise
  <2> QED BY <2>2, <2>4 DEF UpgradeCostExact
<1> QED BY <1>1, TriedNat, PTL

\* The case of the runs, for every wear (preview_full_repair, repair_cancel_refund).
THEOREM RepairsInPieces == CostsSpec => []RepairInPieces
<1>1. TriedIsNat => RepairInPieces
  <2> SUFFICES ASSUME TriedIsNat PROVE RepairInPieces
    OBVIOUS
  <2> DEFINE first == tried % 24
  <2>1. first \in 0 .. 23 /\ Durability = 24
    BY DEF Durability, TriedIsNat
  <2>2. /\ BaseUnits \subseteq Nat \ {0} /\ RepairRatios \subseteq Nat
        /\ Appraisals \subseteq Nat
    BY DEF BaseUnits, RepairRatios, Appraisals
  <2> HIDE DEF first
  <2>3. ASSUME first > 0, NEW second \in 1 .. (24 - first)
        PROVE  /\ \A base \in BaseUnits :
                      LET whole == RepairUnits(base, first + second, 24)
                      IN  /\ RepairUnits(base, first, 24) + RepairUnits(base, second, 24) >= whole
                          /\ whole \in 1 .. base
                          /\ CancelRefund(whole) < whole
               /\ \A ratio \in RepairRatios, appraisal \in Appraisals :
                      RepairMoney(appraisal, ratio, first, 24)
                          + RepairMoney(appraisal, ratio, second, 24)
                          >= RepairMoney(appraisal, ratio, first + second, 24) - 100
    <3>1. first \in 1 .. 24 /\ 24 \in Nat \ {0}
      BY <2>1, <2>3
    <3>2. /\ \A base \in Nat \ {0} :
                  LET whole == RepairUnits(base, first + second, 24)
                  IN  /\ RepairUnits(base, first, 24) + RepairUnits(base, second, 24) >= whole
                      /\ whole \in 1 .. base
                      /\ CancelRefund(whole) < whole
          /\ \A appraisal, ratio \in Nat :
                  RepairMoney(appraisal, ratio, first, 24)
                      + RepairMoney(appraisal, ratio, second, 24)
                      >= RepairMoney(appraisal, ratio, first + second, 24) - 100
      BY <3>1, PiecesNeverSave
    <3> QED BY Zenon, <2>2, <3>2
  <2> QED BY <2>1, <2>3 DEF RepairInPieces, first
<1> QED BY <1>1, TriedNat, PTL
=============================================================================
