----------------------------- MODULE SumTheorems -----------------------------
(***************************************************************************)
(* Facts about sums over finite sets, which the balances, capacities and   *)
(* ledgers of the other modules are made of.  A sum is SumFunctionOnSet of *)
(* the community module Functions: a fold, defined by a recursive function *)
(* over the subsets of the index set.  At the end, facts about order, the  *)
(* lists of a finite set in an order, and division, which interest is made *)
(* of.                                                                     *)
(*                                                                         *)
(* The induction principles of the library take an operator, so the        *)
(* proofs here argue with a smallest counterexample instead: a set of      *)
(* counterexamples is a value.                                             *)
(***************************************************************************)
EXTENDS Integers, Functions, FiniteSetTheorems, TLAPS

---------------------------------------------------------------------------
(* Induction.                                                              *)

\* A set of natural numbers that is not empty has a smallest element.
LEMMA SmallestElement ==
    ASSUME NEW T \in SUBSET Nat, T # {}
    PROVE  \E n \in T : \A m \in T : n <= m
<1> DEFINE R == OpToRel(<, Nat)
<1>1. R = {pair \in Nat \X Nat : pair[1] < pair[2]}
  BY DEF OpToRel
<1>2. \E n \in T : \A m \in T : ~ (<<m, n>> \in R)
  BY NatLessThanWellFounded, WFMin
<1> HIDE DEF R
<1>3. ASSUME NEW m \in Nat, NEW n \in Nat, ~ (<<m, n>> \in R)
      PROVE  n <= m
  BY <1>1, <1>3
<1> QED
  BY <1>2, <1>3

\* A set of numbers that holds 0 and the successor of each member holds all.
LEMMA NatSetInduction ==
    ASSUME NEW T, 0 \in T, \A n \in Nat : n \in T => n + 1 \in T
    PROVE  Nat \subseteq T
<1> SUFFICES ASSUME Nat \ T # {} PROVE FALSE
  OBVIOUS
<1>1. PICK n \in Nat \ T : \A m \in Nat \ T : n <= m
  BY SmallestElement
<1>2. n # 0 /\ n - 1 \in Nat
  BY <1>1
<1>3. n - 1 \in T
  BY <1>1, <1>2
<1> QED
  BY <1>1, <1>2, <1>3

\* f begins with base, and each further value is what a step makes of the last.
Iterates(f, base, step, N) == f[0] = base /\ \A n \in 1 .. N : f[n] = step[n][f[n - 1]]

\* A recursion over numbers defines a function: there is one with a first value and, for
\* each further number, the value that a step makes of the last.
LEMMA Recursion ==
    ASSUME NEW N \in Nat, NEW S, NEW base \in S, NEW step \in [1 .. N -> [S -> S]]
    PROVE  \E f \in [0 .. N -> S] : Iterates(f, base, step, N)
<1> DEFINE Good(f, m) == f[0] = base /\ \A n \in 1 .. m : f[n] = step[n][f[n - 1]]
           T == {m \in Nat : m <= N => \E f \in [0 .. m -> S] : Good(f, m)}
<1>1. 0 \in T
  <2> DEFINE f == [n \in 0 .. 0 |-> base]
  <2>1. f \in [0 .. 0 -> S] /\ Good(f, 0)
    OBVIOUS
  <2> QED BY <2>1
<1>2. ASSUME NEW m \in Nat, m \in T PROVE m + 1 \in T
  <2> SUFFICES ASSUME m + 1 <= N PROVE \E f \in [0 .. m + 1 -> S] : Good(f, m + 1)
    OBVIOUS
  <2>1. PICK f \in [0 .. m -> S] : Good(f, m)
    BY <1>2
  <2>2. m \in 0 .. m /\ m + 1 \in 1 .. N /\ f[m] \in S
    OBVIOUS
  <2> DEFINE last == step[m + 1][f[m]]
             g == [n \in 0 .. m + 1 |-> IF n = m + 1 THEN last ELSE f[n]]
  <2>3. last \in S
    BY <2>2
  <2>4. \A n \in 0 .. m : n \in 0 .. m + 1 /\ n # m + 1
    OBVIOUS
  <2> HIDE DEF last
  <2>5. g \in [0 .. m + 1 -> S]
    BY <2>3
  <2>6. g[m + 1] = last /\ \A n \in 0 .. m : g[n] = f[n]
    BY <2>4
  <2> HIDE DEF g
  <2>7. ASSUME NEW n \in 1 .. m + 1 PROVE g[n] = step[n][g[n - 1]]
    <3>1. CASE n = m + 1
      <4>1. n - 1 = m
        BY <3>1
      <4> QED BY <2>2, <2>6, <3>1, <4>1 DEF last
    <3>2. CASE n # m + 1
      <4>1. n \in 1 .. m /\ n \in 0 .. m /\ n - 1 \in 0 .. m
        BY <3>2
      <4> QED BY <2>1, <2>6, <4>1
    <3> QED BY <3>1, <3>2
  <2>8. g[0] = base
    BY <2>1, <2>6
  <2> QED BY <2>5, <2>7, <2>8
<1> HIDE DEF T
<1>3. Nat \subseteq T
  BY <1>1, <1>2, NatSetInduction
<1> QED BY <1>3 DEF T, Iterates

\* A set of subsets of a finite set that holds the empty set, and with each
\* member the member with one more element, holds the set itself.
LEMMA SubsetInduction ==
    ASSUME NEW S, IsFiniteSet(S), NEW B, {} \in B,
           \A T \in SUBSET S : \A x \in S \ T : T \in B => T \cup {x} \in B
    PROVE  S \in B
<1> DEFINE N == {n \in Nat : \A T \in SUBSET S : Cardinality(T) = n => T \in B}
<1>1. \A T \in SUBSET S : IsFiniteSet(T) /\ Cardinality(T) \in Nat
  BY FS_Subset, FS_CardinalityType
<1>2. 0 \in N
  BY <1>1, FS_EmptySet
<1>3. ASSUME NEW n \in Nat, n \in N
      PROVE  n + 1 \in N
  <2> SUFFICES ASSUME NEW T \in SUBSET S, Cardinality(T) = n + 1
               PROVE  T \in B
    OBVIOUS
  <2>1. PICK x \in T : TRUE
    BY FS_EmptySet
  <2>2. Cardinality(T \ {x}) = n
    <3>1. Cardinality(T \ {x}) = Cardinality(T) - 1
      BY <1>1, <2>1, FS_RemoveElement
    <3> QED
      BY <3>1
  <2>3. T \ {x} \in B
    BY <1>3, <2>2
  <2>4. (T \ {x}) \cup {x} = T
    OBVIOUS
  <2> QED
    BY <2>3, <2>4
<1> HIDE DEF N
<1>4. Nat \subseteq N
  BY <1>2, <1>3, NatSetInduction
<1> QED
  BY <1>1, <1>4 DEF N

---------------------------------------------------------------------------
(* The recursive function that defines a sum.                              *)

Chosen(s) == CHOOSE x \in s : TRUE
NextSum(f, g, s) == IF s = {} THEN 0 ELSE f[Chosen(s)] + g[s \ {Chosen(s)}]

\* g sums up f over the subsets of S.
SumsOver(g, f, D) == g = [s \in D |-> NextSum(f, g, s)]
SumsUp(g, f, S) == SumsOver(g, f, SUBSET S)

\* The fold of a sum is the value at the whole set of a function chosen by its
\* recursion.
LEMMA SumUnfold ==
    ASSUME NEW f, NEW S
    PROVE  SumFunctionOnSet(f, S) = (CHOOSE g : SumsUp(g, f, S))[S]
BY DEF SumFunctionOnSet, FoldFunctionOnSet, MapThenFoldSet, SumsUp, SumsOver, NextSum, Chosen

\* The element a step of the fold takes out belongs to the set.
LEMMA ChosenIn ==
    ASSUME NEW s, s # {}
    PROVE  Chosen(s) \in s
BY DEF Chosen

\* The function exists on the subsets of a finite set.
LEMMA SumsExist ==
    ASSUME NEW f, NEW S, IsFiniteSet(S)
    PROVE  \E g : SumsUp(g, f, S)
<1> DEFINE D(n) == {s \in SUBSET S : Cardinality(s) <= n}
           N == {n \in Nat : \E g : SumsOver(g, f, D(n))}
<1>1. \A T \in SUBSET S : /\ IsFiniteSet(T) /\ Cardinality(T) \in Nat
                          /\ Cardinality(T) <= Cardinality(S)
  BY FS_Subset, FS_CardinalityType
<1>2. 0 \in N
  <2> DEFINE g == [s \in D(0) |-> 0]
  <2>1. \A s \in D(0) : s = {}
    BY <1>1, FS_EmptySet
  <2>2. SumsOver(g, f, D(0))
    BY <2>1 DEF SumsUp, SumsOver, NextSum
  <2> QED
    BY <2>2
<1>3. ASSUME NEW n \in Nat, n \in N
      PROVE  n + 1 \in N
  <2>1. PICK g : SumsOver(g, f, D(n))
    BY <1>3
  <2> DEFINE h == [s \in D(n + 1) |-> NextSum(f, g, s)]
  <2>2. ASSUME NEW s \in D(n + 1)
        PROVE  NextSum(f, h, s) = NextSum(f, g, s)
    <3>1. CASE s = {}
      BY <3>1 DEF NextSum
    <3>2. CASE s # {}
      <4> DEFINE t == s \ {Chosen(s)}
      <4>1. Cardinality(t) <= n /\ t \in SUBSET S
        BY <1>1, <3>2, ChosenIn, FS_RemoveElement
      <4>2. t \in D(n) /\ t \in D(n + 1)
        BY <1>1, <4>1
      <4>3. h[t] = NextSum(f, g, t) /\ g[t] = NextSum(f, g, t)
        BY <2>1, <4>2 DEF SumsUp, SumsOver
      <4> QED
        BY <3>2, <4>3 DEF NextSum
    <3> QED
      BY <3>1, <3>2
  <2>3. h = [s \in D(n + 1) |-> NextSum(f, h, s)]
    BY <2>2
  <2> HIDE DEF h
  <2> QED
    BY <2>3 DEF SumsUp, SumsOver
<1>4. Cardinality(S) \in N
  <2> HIDE DEF N
  <2> QED
    BY <1>1, <1>2, <1>3, NatSetInduction
<1>5. D(Cardinality(S)) = SUBSET S
  BY <1>1
<1> QED
  BY <1>4, <1>5 DEF SumsUp

\* A sum over a finite set is the value of some function that satisfies the recursion.
LEMMA SumIsIter ==
    ASSUME NEW f, NEW S, IsFiniteSet(S)
    PROVE  \E g : SumsUp(g, f, S) /\ SumFunctionOnSet(f, S) = g[S]
<1> DEFINE g == CHOOSE g : SumsUp(g, f, S)
<1>1. SumsUp(g, f, S)
  BY SumsExist
<1>2. SumFunctionOnSet(f, S) = g[S]
  BY SumUnfold
<1> HIDE DEF g
<1> QED
  BY <1>1, <1>2

\* It does not depend on the set whose subsets it is defined on.
LEMMA SumsAgree ==
    ASSUME NEW f, NEW S, IsFiniteSet(S), NEW T \in SUBSET S,
           NEW g, SumsUp(g, f, S), NEW h, SumsUp(h, f, T)
    PROVE  g[T] = h[T]
<1> DEFINE B == {s \in SUBSET T : g[s] = h[s]}
           N == {n \in Nat : \A s \in SUBSET T : Cardinality(s) = n => s \in B}
<1>1. \A s \in SUBSET S : IsFiniteSet(s) /\ Cardinality(s) \in Nat
  BY FS_Subset, FS_CardinalityType
<1>2. \A s \in SUBSET T : g[s] = NextSum(f, g, s) /\ h[s] = NextSum(f, h, s)
  BY DEF SumsUp, SumsOver
<1>3. 0 \in N
  BY <1>1, <1>2, FS_EmptySet DEF NextSum
<1>4. ASSUME NEW n \in Nat, n \in N
      PROVE  n + 1 \in N
  <2> SUFFICES ASSUME NEW s \in SUBSET T, Cardinality(s) = n + 1
               PROVE  g[s] = h[s]
    OBVIOUS
  <2>1. s # {}
    BY FS_EmptySet
  <2> DEFINE t == s \ {Chosen(s)}
  <2>2. Cardinality(t) = Cardinality(s) - 1
    BY <1>1, <2>1, ChosenIn, FS_RemoveElement
  <2>3. g[t] = h[t]
    BY <1>4, <2>2
  <2> QED
    BY <1>2, <2>1, <2>3 DEF NextSum
<1> HIDE DEF N
<1>5. Cardinality(T) \in N
  BY <1>1, <1>3, <1>4, NatSetInduction
<1>6. T \in B
  BY <1>5 DEF N
<1> QED
  BY <1>6

---------------------------------------------------------------------------
(* Sums.                                                                   *)

\* The sum of nothing.
LEMMA SumEmpty ==
    ASSUME NEW f
    PROVE  SumFunctionOnSet(f, {}) = 0
<1>1. PICK g : SumsUp(g, f, {}) /\ SumFunctionOnSet(f, {}) = g[{}]
  BY SumIsIter, FS_EmptySet
<1> QED
  BY <1>1 DEF SumsUp, SumsOver, NextSum

\* One step of the fold: the chosen element and the sum of the rest.
LEMMA SumNonempty ==
    ASSUME NEW f, NEW S, IsFiniteSet(S), S # {}
    PROVE  SumFunctionOnSet(f, S) =
             f[Chosen(S)] + SumFunctionOnSet(f, S \ {Chosen(S)})
<1> DEFINE T == S \ {Chosen(S)}
<1>1. PICK g : SumsUp(g, f, S) /\ SumFunctionOnSet(f, S) = g[S]
  BY SumIsIter
<1>2. IsFiniteSet(T)
  BY FS_RemoveElement
<1>3. PICK h : SumsUp(h, f, T) /\ SumFunctionOnSet(f, T) = h[T]
  BY <1>2, SumIsIter
<1>4. g[T] = h[T]
  <2>1. T \in SUBSET S
    OBVIOUS
  <2>2. SumsUp(g, f, S) /\ SumsUp(h, f, T)
    BY <1>1, <1>3
  <2> HIDE DEF T
  <2> QED
    BY ONLY IsFiniteSet(S), <2>1, <2>2, SumsAgree
<1>5. g[S] = NextSum(f, g, S)
  BY <1>1 DEF SumsUp, SumsOver
<1> QED
  BY <1>1, <1>3, <1>4, <1>5 DEF NextSum

\* A sum of integers is one.
LEMMA SumInt ==
    ASSUME NEW f, NEW S, IsFiniteSet(S), \A x \in S : f[x] \in Int
    PROVE  SumFunctionOnSet(f, S) \in Int
<1> DEFINE N == {n \in Nat : \A s \in SUBSET S :
                    Cardinality(s) = n => SumFunctionOnSet(f, s) \in Int}
<1>1. \A s \in SUBSET S : IsFiniteSet(s) /\ Cardinality(s) \in Nat
  BY FS_Subset, FS_CardinalityType
<1>2. 0 \in N
  BY <1>1, FS_EmptySet, SumEmpty
<1>3. ASSUME NEW n \in Nat, n \in N
      PROVE  n + 1 \in N
  <2> SUFFICES ASSUME NEW s \in SUBSET S, Cardinality(s) = n + 1
               PROVE  SumFunctionOnSet(f, s) \in Int
    OBVIOUS
  <2>1. s # {}
    BY FS_EmptySet
  <2> DEFINE t == s \ {Chosen(s)}
  <2>2. Cardinality(t) = Cardinality(s) - 1
    BY <1>1, <2>1, ChosenIn, FS_RemoveElement
  <2>3. SumFunctionOnSet(f, t) \in Int
    BY <1>3, <2>2
  <2>4. SumFunctionOnSet(f, s) = f[Chosen(s)] + SumFunctionOnSet(f, t)
    BY <1>1, <2>1, SumNonempty
  <2> QED
    BY <2>1, <2>3, <2>4, ChosenIn
<1> HIDE DEF N
<1>4. Nat \subseteq N
  BY <1>2, <1>3, NatSetInduction
<1> QED
  BY <1>1, <1>4 DEF N

\* Any element can be taken out of a sum.
LEMMA SumRemove ==
    ASSUME NEW f, NEW S, IsFiniteSet(S), \A x \in S : f[x] \in Int, NEW x \in S
    PROVE  SumFunctionOnSet(f, S) = f[x] + SumFunctionOnSet(f, S \ {x})
<1> DEFINE Sum(s) == SumFunctionOnSet(f, s)
           N == {n \in Nat : \A s \in SUBSET S : Cardinality(s) = n =>
                    \A y \in s : Sum(s) = f[y] + Sum(s \ {y})}
<1>1. \A s \in SUBSET S : IsFiniteSet(s) /\ Cardinality(s) \in Nat
  BY FS_Subset, FS_CardinalityType
<1>2. 0 \in N
  BY <1>1, FS_EmptySet
<1>3. ASSUME NEW n \in Nat, n \in N
      PROVE  n + 1 \in N
  <2> SUFFICES ASSUME NEW s \in SUBSET S, Cardinality(s) = n + 1, NEW y \in s
               PROVE  Sum(s) = f[y] + Sum(s \ {y})
    OBVIOUS
  <2> DEFINE c == Chosen(s)
             t == s \ {c}
             u == s \ {y}
             v == t \ {y}
  <2>1. c \in s
    BY ChosenIn
  <2>2. Cardinality(t) = n /\ Cardinality(u) = n
    <3>1. Cardinality(t) = Cardinality(s) - 1 /\ Cardinality(u) = Cardinality(s) - 1
      BY <1>1, <2>1, FS_RemoveElement
    <3> QED
      BY <3>1
  <2>3. Sum(s) = f[c] + Sum(t)
    BY <1>1, SumNonempty
  <2>4. CASE c = y
    BY <2>3, <2>4
  <2>5. CASE c # y
    <3>1. y \in t /\ c \in u /\ u \ {c} = v
      BY <2>1, <2>5
    <3>2. Sum(t) = f[y] + Sum(v)
      BY <1>3, <2>2, <3>1
    <3>3. Sum(u) = f[c] + Sum(v)
      BY <1>3, <2>2, <3>1
    <3>4. Sum(v) \in Int
      BY <1>1, SumInt
    <3>5. f[c] \in Int /\ f[y] \in Int
      BY <2>1
    <3> HIDE DEF N, c, t, u, v, Sum
    <3>6. Sum(s) = f[y] + Sum(u)
      BY <2>3, <3>2, <3>3, <3>4, <3>5
    <3> QED
      BY <3>6 DEF u
  <2> QED
    BY <2>4, <2>5
<1> HIDE DEF N
<1>4. Nat \subseteq N
  BY <1>2, <1>3, NatSetInduction
<1> QED
  BY <1>1, <1>4 DEF N

\* One more element adds its value.
LEMMA SumAdd ==
    ASSUME NEW f, NEW S, IsFiniteSet(S), \A y \in S : f[y] \in Int,
           NEW x, x \notin S, f[x] \in Int
    PROVE  SumFunctionOnSet(f, S \cup {x}) = SumFunctionOnSet(f, S) + f[x]
<1> DEFINE T == S \cup {x}
<1>1. IsFiniteSet(T) /\ x \in T /\ (\A y \in T : f[y] \in Int) /\ T \ {x} = S
  BY FS_AddElement
<1> HIDE DEF T
<1>2. SumFunctionOnSet(f, T) = f[x] + SumFunctionOnSet(f, S)
  <2>1. SumFunctionOnSet(f, T) = f[x] + SumFunctionOnSet(f, T \ {x})
    BY <1>1, SumRemove
  <2> QED
    BY <1>1, <2>1, Zenon
<1>3. SumFunctionOnSet(f, S) \in Int
  BY SumInt
<1>4. SumFunctionOnSet(f, T) = SumFunctionOnSet(f, S) + f[x]
  BY <1>1, <1>2, <1>3
<1> QED
  BY <1>4 DEF T

\* The sum over one element is its value.
LEMMA SumSingle ==
    ASSUME NEW f, NEW x, f[x] \in Int
    PROVE  SumFunctionOnSet(f, {x}) = f[x]
<1>1. SumFunctionOnSet(f, {} \cup {x}) = SumFunctionOnSet(f, {}) + f[x]
  BY SumAdd, FS_EmptySet
<1>2. {} \cup {x} = {x}
  OBVIOUS
<1> QED
  BY <1>1, <1>2, SumEmpty

\* Functions that agree on the set have the same sum.
LEMMA SumSame ==
    ASSUME NEW f, NEW g, NEW S, IsFiniteSet(S),
           \A x \in S : f[x] \in Int /\ g[x] = f[x]
    PROVE  SumFunctionOnSet(g, S) = SumFunctionOnSet(f, S)
<1> DEFINE B == {T \in SUBSET S : SumFunctionOnSet(g, T) = SumFunctionOnSet(f, T)}
<1>1. {} \in B
  BY SumEmpty
<1>2. ASSUME NEW T \in SUBSET S, NEW x \in S \ T, T \in B
      PROVE  T \cup {x} \in B
  <2>1. IsFiniteSet(T)
    BY FS_Subset
  <2>2. /\ SumFunctionOnSet(f, T \cup {x}) = SumFunctionOnSet(f, T) + f[x]
        /\ SumFunctionOnSet(g, T \cup {x}) = SumFunctionOnSet(g, T) + g[x]
    BY <2>1, SumAdd
  <2> QED
    BY <1>2, <2>2
<1> HIDE DEF B
<1>3. S \in B
  BY <1>1, <1>2, SubsetInduction
<1> QED
  BY <1>3 DEF B

\* A sum of zeros is zero.
LEMMA SumZero ==
    ASSUME NEW f, NEW S, IsFiniteSet(S), \A x \in S : f[x] = 0
    PROVE  SumFunctionOnSet(f, S) = 0
<1> DEFINE B == {T \in SUBSET S : SumFunctionOnSet(f, T) = 0}
<1>1. {} \in B
  BY SumEmpty
<1>2. ASSUME NEW T \in SUBSET S, NEW x \in S \ T, T \in B
      PROVE  T \cup {x} \in B
  <2>1. IsFiniteSet(T)
    BY FS_Subset
  <2>2. SumFunctionOnSet(f, T \cup {x}) = SumFunctionOnSet(f, T) + f[x]
    BY <2>1, SumAdd
  <2> QED
    BY <1>2, <2>2
<1> HIDE DEF B
<1>3. S \in B
  BY <1>1, <1>2, SubsetInduction
<1> QED
  BY <1>3 DEF B

\* A set falls into two parts: so does its sum.
LEMMA SumSplit ==
    ASSUME NEW f, NEW S, IsFiniteSet(S), \A x \in S : f[x] \in Int,
           NEW P \in SUBSET S
    PROVE  SumFunctionOnSet(f, S) =
             SumFunctionOnSet(f, P) + SumFunctionOnSet(f, S \ P)
<1> DEFINE B == {T \in SUBSET (S \ P) : SumFunctionOnSet(f, P \cup T) =
                    SumFunctionOnSet(f, P) + SumFunctionOnSet(f, T)}
<1>1. SumFunctionOnSet(f, P) \in Int
  <2>1. IsFiniteSet(P)
    BY FS_Subset
  <2> QED
    BY <2>1, SumInt
<1>2. {} \in B
  <2>1. P \cup {} = P
    OBVIOUS
  <2> QED
    BY <1>1, <2>1, SumEmpty
<1>3. ASSUME NEW T \in SUBSET (S \ P), NEW x \in (S \ P) \ T, T \in B
      PROVE  T \cup {x} \in B
  <2> DEFINE U == P \cup T
  <2>1. IsFiniteSet(T) /\ IsFiniteSet(U) /\ x \notin U /\ x \notin T
    <3>1. T \in SUBSET S /\ U \in SUBSET S
      OBVIOUS
    <3> QED
      BY <3>1, FS_Subset
  <2>2. \A y \in U : f[y] \in Int
    OBVIOUS
  <2>3. f[x] \in Int /\ \A y \in T : f[y] \in Int
    OBVIOUS
  <2>4. SumFunctionOnSet(f, U) = SumFunctionOnSet(f, P) + SumFunctionOnSet(f, T)
    BY <1>3
  <2>5. P \cup (T \cup {x}) = U \cup {x}
    OBVIOUS
  <2> HIDE DEF U
  <2>6. SumFunctionOnSet(f, P \cup (T \cup {x})) = SumFunctionOnSet(f, U) + f[x]
    <3>1. SumFunctionOnSet(f, U \cup {x}) = SumFunctionOnSet(f, U) + f[x]
      BY <2>1, <2>2, <2>3, SumAdd
    <3> QED
      BY <2>5, <3>1, Zenon
  <2>7. SumFunctionOnSet(f, T \cup {x}) = SumFunctionOnSet(f, T) + f[x]
    BY <2>1, <2>3, SumAdd
  <2>8. SumFunctionOnSet(f, T) \in Int
    BY <2>1, <2>3, SumInt
  <2>9. SumFunctionOnSet(f, P \cup (T \cup {x})) =
          SumFunctionOnSet(f, P) + SumFunctionOnSet(f, T \cup {x})
    BY <1>1, <2>3, <2>4, <2>6, <2>7, <2>8
  <2> QED
    BY <2>9
<1> HIDE DEF B
<1>4. S \ P \in B
  <2>1. IsFiniteSet(S \ P)
    BY FS_Subset
  <2> QED
    BY <1>2, <1>3, <2>1, SubsetInduction
<1>5. P \cup (S \ P) = S
  OBVIOUS
<1> QED
  BY <1>4, <1>5 DEF B

\* A sum of natural numbers is one.
LEMMA SumNat ==
    ASSUME NEW f, NEW S, IsFiniteSet(S), \A x \in S : f[x] \in Nat
    PROVE  SumFunctionOnSet(f, S) \in Nat
<1> DEFINE B == {T \in SUBSET S : SumFunctionOnSet(f, T) \in Nat}
<1>1. {} \in B
  BY SumEmpty
<1>2. ASSUME NEW T \in SUBSET S, NEW x \in S \ T, T \in B
      PROVE  T \cup {x} \in B
  <2>1. IsFiniteSet(T)
    BY FS_Subset
  <2>2. SumFunctionOnSet(f, T \cup {x}) = SumFunctionOnSet(f, T) + f[x]
    BY <2>1, SumAdd
  <2> QED
    BY <1>2, <2>2
<1> HIDE DEF B
<1>3. S \in B
  BY <1>1, <1>2, SubsetInduction
<1> QED
  BY <1>3 DEF B

\* The sum of a part, for natural numbers.
LEMMA SumPart ==
    ASSUME NEW f, NEW S, IsFiniteSet(S), \A x \in S : f[x] \in Nat,
           NEW P \in SUBSET S
    PROVE  SumFunctionOnSet(f, P) \in Nat /\ SumFunctionOnSet(f, P) <= SumFunctionOnSet(f, S)
<1>1. IsFiniteSet(P) /\ IsFiniteSet(S \ P)
  <2>1. S \ P \in SUBSET S
    OBVIOUS
  <2> QED
    BY <2>1, FS_Subset
<1>2. SumFunctionOnSet(f, P) \in Nat /\ SumFunctionOnSet(f, S \ P) \in Nat
  BY <1>1, SumNat
<1>3. SumFunctionOnSet(f, S) = SumFunctionOnSet(f, P) + SumFunctionOnSet(f, S \ P)
  BY SumSplit
<1> QED
  BY <1>2, <1>3

\* The sum of the sums of two functions.
LEMMA SumPlus ==
    ASSUME NEW f, NEW g, NEW h, NEW S, IsFiniteSet(S),
           \A x \in S : f[x] \in Int /\ g[x] \in Int /\ h[x] = f[x] + g[x]
    PROVE  SumFunctionOnSet(h, S) = SumFunctionOnSet(f, S) + SumFunctionOnSet(g, S)
<1> DEFINE B == {T \in SUBSET S : SumFunctionOnSet(h, T) =
                    SumFunctionOnSet(f, T) + SumFunctionOnSet(g, T)}
<1>1. {} \in B
  BY SumEmpty
<1>2. ASSUME NEW T \in SUBSET S, NEW x \in S \ T, T \in B
      PROVE  T \cup {x} \in B
  <2>1. IsFiniteSet(T)
    BY FS_Subset
  <2>2. \A y \in T : f[y] \in Int /\ g[y] \in Int /\ h[y] \in Int
    OBVIOUS
  <2>3. f[x] \in Int /\ g[x] \in Int /\ h[x] \in Int /\ h[x] = f[x] + g[x]
    OBVIOUS
  <2>4. /\ SumFunctionOnSet(f, T \cup {x}) = SumFunctionOnSet(f, T) + f[x]
        /\ SumFunctionOnSet(g, T \cup {x}) = SumFunctionOnSet(g, T) + g[x]
        /\ SumFunctionOnSet(h, T \cup {x}) = SumFunctionOnSet(h, T) + h[x]
    BY <2>1, <2>2, <2>3, SumAdd
  <2>5. SumFunctionOnSet(f, T) \in Int /\ SumFunctionOnSet(g, T) \in Int
    BY <2>1, <2>2, SumInt
  <2>6. SumFunctionOnSet(h, T) = SumFunctionOnSet(f, T) + SumFunctionOnSet(g, T)
    BY <1>2
  <2> QED
    BY <2>3, <2>4, <2>5, <2>6
<1> HIDE DEF B
<1>3. S \in B
  BY <1>1, <1>2, SubsetInduction
<1> QED
  BY <1>3 DEF B

\* A constant factor can be taken out.
LEMMA SumTimes ==
    ASSUME NEW f, NEW h, NEW S, IsFiniteSet(S), NEW c \in Int,
           \A x \in S : f[x] \in Int /\ h[x] = c * f[x]
    PROVE  SumFunctionOnSet(h, S) = c * SumFunctionOnSet(f, S)
<1> DEFINE B == {T \in SUBSET S : SumFunctionOnSet(h, T) = c * SumFunctionOnSet(f, T)}
<1>1. {} \in B
  BY SumEmpty
<1>2. ASSUME NEW T \in SUBSET S, NEW x \in S \ T, T \in B
      PROVE  T \cup {x} \in B
  <2>1. IsFiniteSet(T)
    BY FS_Subset
  <2>2. \A y \in T : f[y] \in Int /\ h[y] \in Int
    OBVIOUS
  <2>3. f[x] \in Int /\ h[x] \in Int /\ h[x] = c * f[x]
    OBVIOUS
  <2>4. /\ SumFunctionOnSet(f, T \cup {x}) = SumFunctionOnSet(f, T) + f[x]
        /\ SumFunctionOnSet(h, T \cup {x}) = SumFunctionOnSet(h, T) + h[x]
    BY <2>1, <2>2, <2>3, SumAdd
  <2>5. SumFunctionOnSet(f, T) \in Int
    BY <2>1, <2>2, SumInt
  <2>6. SumFunctionOnSet(h, T) = c * SumFunctionOnSet(f, T)
    BY <1>2
  <2>7. \A a, b \in Int : c * (a + b) = c * a + c * b
    OBVIOUS
  <2> QED
    BY <2>3, <2>4, <2>5, <2>6, <2>7
<1> HIDE DEF B
<1>3. S \in B
  BY <1>1, <1>2, SubsetInduction
<1> QED
  BY <1>3 DEF B

\* Smaller values have no larger sum.
LEMMA SumMonotone ==
    ASSUME NEW f, NEW g, NEW S, IsFiniteSet(S),
           \A x \in S : f[x] \in Int /\ g[x] \in Int /\ f[x] <= g[x]
    PROVE  SumFunctionOnSet(f, S) <= SumFunctionOnSet(g, S)
<1> DEFINE d == [x \in S |-> g[x] - f[x]]
<1>1. \A x \in S : d[x] \in Nat /\ d[x] \in Int /\ g[x] = f[x] + d[x]
  OBVIOUS
<1> HIDE DEF d
<1>2. SumFunctionOnSet(g, S) = SumFunctionOnSet(f, S) + SumFunctionOnSet(d, S)
  BY <1>1, SumPlus
<1>3. SumFunctionOnSet(d, S) \in Nat
  BY <1>1, SumNat
<1>4. SumFunctionOnSet(f, S) \in Int
  BY SumInt
<1> QED
  BY <1>2, <1>3, <1>4

\* A sum whose terms are one on a part and zero elsewhere counts the part.
LEMMA SumCounts ==
    ASSUME NEW f, NEW S, IsFiniteSet(S), NEW P \in SUBSET S,
           \A x \in S : f[x] = IF x \in P THEN 1 ELSE 0
    PROVE  SumFunctionOnSet(f, S) = Cardinality(P)
<1> DEFINE B == {T \in SUBSET P : SumFunctionOnSet(f, T) = Cardinality(T)}
<1>1. {} \in B
  BY SumEmpty, FS_EmptySet
<1>2. ASSUME NEW T \in SUBSET P, NEW x \in P \ T, T \in B
      PROVE  T \cup {x} \in B
  <2>1. IsFiniteSet(T)
    BY FS_Subset
  <2>2. f[x] = 1 /\ f[x] \in Int /\ \A y \in T : f[y] \in Int
    OBVIOUS
  <2>3. SumFunctionOnSet(f, T \cup {x}) = SumFunctionOnSet(f, T) + f[x]
    BY <2>1, <2>2, SumAdd
  <2>4. Cardinality(T \cup {x}) = Cardinality(T) + 1
    BY <2>1, FS_AddElement
  <2> QED
    BY <1>2, <2>2, <2>3, <2>4
<1> HIDE DEF B
<1>3. IsFiniteSet(P) /\ IsFiniteSet(S \ P)
  <2>1. S \ P \in SUBSET S
    OBVIOUS
  <2> QED
    BY <2>1, FS_Subset
<1>4. P \in B
  BY <1>1, <1>2, <1>3, SubsetInduction
<1>5. SumFunctionOnSet(f, S \ P) = 0
  BY <1>3, SumZero
<1>6. SumFunctionOnSet(f, S) = SumFunctionOnSet(f, P) + SumFunctionOnSet(f, S \ P)
  BY SumSplit
<1>7. Cardinality(P) \in Nat
  BY <1>3, FS_CardinalityType
<1> QED
  BY <1>4, <1>5, <1>6, <1>7 DEF B

\* As many images as members, of a function that keeps them apart.
LEMMA ImageCardinality ==
    ASSUME NEW D, IsFiniteSet(D), NEW r,
           \A m, n \in D : r[m] = r[n] => m = n
    PROVE  /\ IsFiniteSet({r[m] : m \in D})
           /\ Cardinality({r[m] : m \in D}) = Cardinality(D)
<1> DEFINE T == {r[m] : m \in D}
           g == [m \in D |-> r[m]]
<1>1. g \in Surjection(D, T) /\ g \in Injection(D, T)
  BY DEF Injection, Surjection, IsInjective
<1> HIDE DEF g, T
<1>2. IsFiniteSet(T) /\ (Cardinality(T) = Cardinality(D) <=> g \in Injection(D, T))
  BY <1>1, FS_Surjection
<1> QED BY <1>1, <1>2 DEF T

\* A sum does not depend on the names of its terms.
LEMMA SumRenamed ==
    ASSUME NEW D, IsFiniteSet(D), NEW r, \A m, n \in D : r[m] = r[n] => m = n,
           NEW f, NEW g, \A n \in D : g[n] = f[r[n]] /\ g[n] \in Int
    PROVE  SumFunctionOnSet(f, {r[n] : n \in D}) = SumFunctionOnSet(g, D)
<1> DEFINE Image(T) == {r[n] : n \in T}
           B == {T \in SUBSET D : SumFunctionOnSet(f, Image(T)) = SumFunctionOnSet(g, T)}
<1>1. {} \in B
  <2>1. Image({}) = {}
    OBVIOUS
  <2>2. SumFunctionOnSet(f, Image({})) = 0 /\ SumFunctionOnSet(g, {}) = 0
    <3> HIDE DEF Image
    <3> QED BY <2>1, SumEmpty
  <2> QED BY <2>2
<1>2. ASSUME NEW T \in SUBSET D, NEW x \in D \ T, T \in B
      PROVE  T \cup {x} \in B
  <2>1. Image(T \cup {x}) = Image(T) \cup {r[x]} /\ r[x] \notin Image(T)
    OBVIOUS
  <2>2. IsFiniteSet(T) /\ IsFiniteSet(Image(T))
    <3>1. IsFiniteSet(T)
      BY FS_Subset
    <3>2. \A m, n \in T : r[m] = r[n] => m = n
      OBVIOUS
    <3> QED BY <3>1, <3>2, ImageCardinality
  <2>3. \A y \in Image(T) : f[y] \in Int
    OBVIOUS
  <2>4. f[r[x]] \in Int /\ g[x] = f[r[x]] /\ \A y \in T : g[y] \in Int
    OBVIOUS
  <2>5. SumFunctionOnSet(f, Image(T)) = SumFunctionOnSet(g, T)
    BY <1>2
  <2> HIDE DEF Image, B
  <2>6. SumFunctionOnSet(f, Image(T) \cup {r[x]}) = SumFunctionOnSet(f, Image(T)) + f[r[x]]
    BY <2>1, <2>2, <2>3, <2>4, SumAdd
  <2>7. SumFunctionOnSet(g, T \cup {x}) = SumFunctionOnSet(g, T) + g[x]
    BY <2>2, <2>4, SumAdd
  <2>8. SumFunctionOnSet(f, Image(T \cup {x})) = SumFunctionOnSet(g, T \cup {x})
    BY Zenon, <2>1, <2>4, <2>5, <2>6, <2>7
  <2> QED BY <2>8 DEF B
<1> HIDE DEF B
<1>3. D \in B
  BY <1>1, <1>2, SubsetInduction
<1> QED BY <1>3 DEF B

---------------------------------------------------------------------------
(* Ranks.                                                                  *)

\* before[i] are the members of S that come before i.
TotalOrder(before, S) ==
    /\ \A i \in S : before[i] \subseteq S /\ i \notin before[i]
    /\ \A i, j \in S : i # j => i \in before[j] \/ j \in before[i]
    /\ \A i, j \in S : i \in before[j] => before[i] \subseteq before[j]

\* A finite set that is not empty has a last member.
LEMMA LastMember ==
    ASSUME NEW S, NEW before, TotalOrder(before, S),
           NEW T \in SUBSET S, IsFiniteSet(T), T # {}
    PROVE  \E i \in T : T \ {i} \subseteq before[i]
<1> DEFINE B == {U \in SUBSET T : U = {} \/ \E i \in U : U \ {i} \subseteq before[i]}
<1>1. {} \in B
  OBVIOUS
<1>2. ASSUME NEW U \in SUBSET T, NEW x \in T \ U, U \in B
      PROVE  U \cup {x} \in B
  <2>1. CASE U = {}
    BY <2>1
  <2>2. CASE U # {}
    <3>1. PICK i \in U : U \ {i} \subseteq before[i]
      BY <1>2, <2>2
    <3>2. i \in S /\ x \in S /\ i # x
      BY <1>2
    <3>3. CASE x \in before[i]
      <4>1. (U \cup {x}) \ {i} \subseteq before[i]
        BY <3>1, <3>3
      <4> QED
        BY <1>2, <4>1
    <3>4. CASE i \in before[x]
      <4>1. before[i] \subseteq before[x]
        BY <3>2, <3>4 DEF TotalOrder
      <4>2. (U \cup {x}) \ {x} \subseteq before[x]
        BY <3>1, <3>4, <4>1
      <4> QED
        BY <1>2, <4>2
    <3> QED
      BY <3>2, <3>3, <3>4 DEF TotalOrder
  <2> QED
    BY <2>1, <2>2
<1> HIDE DEF B
<1>3. T \in B
  BY <1>1, <1>2, SubsetInduction
<1> QED
  BY <1>3 DEF B

\* A set of subsets of S that holds the empty set, and with all that comes before
\* a member that member too, holds S.
LEMMA SegmentInduction ==
    ASSUME NEW S, IsFiniteSet(S), NEW before, TotalOrder(before, S),
           NEW B, {} \in B, \A i \in S : before[i] \in B => before[i] \cup {i} \in B
    PROVE  S \in B
<1> DEFINE Closed(T) == \A i \in T : before[i] \subseteq T
           N == {n \in Nat : \A T \in SUBSET S :
                     Cardinality(T) = n /\ Closed(T) => T \in B}
<1>1. \A T \in SUBSET S : IsFiniteSet(T) /\ Cardinality(T) \in Nat
  BY FS_Subset, FS_CardinalityType
<1>2. 0 \in N
  BY <1>1, FS_EmptySet
<1>3. ASSUME NEW n \in Nat, n \in N
      PROVE  n + 1 \in N
  <2> SUFFICES ASSUME NEW T \in SUBSET S, Cardinality(T) = n + 1, Closed(T)
               PROVE  T \in B
    OBVIOUS
  <2>1. T # {}
    <3>1. Cardinality(T) # 0
      OBVIOUS
    <3> QED
      BY <3>1, FS_EmptySet, Zenon
  <2>2. PICK i \in T : T \ {i} \subseteq before[i]
    BY <1>1, <2>1, LastMember
  <2>3. before[i] = T \ {i}
    BY <2>2 DEF TotalOrder
  <2>4. Cardinality(T \ {i}) = Cardinality(T) - 1
    BY <1>1, FS_RemoveElement
  <2>5. Closed(T \ {i})
    BY <2>3 DEF TotalOrder
  <2>6. T \ {i} \in B
    BY <1>3, <2>4, <2>5
  <2>7. (T \ {i}) \cup {i} = T
    OBVIOUS
  <2>8. before[i] \in B /\ before[i] \cup {i} = T
    BY <2>3, <2>6, <2>7, Zenon
  <2> QED
    BY <2>8, Zenon
<1> HIDE DEF N
<1>4. Cardinality(S) \in N
  BY <1>1, <1>2, <1>3, NatSetInduction
<1> QED
  BY <1>4 DEF N, TotalOrder

\* As many members as there are, up to m, have fewer than m before them.
LEMMA RankCount ==
    ASSUME NEW S, IsFiniteSet(S), NEW before, TotalOrder(before, S),
           NEW m \in Nat, m <= Cardinality(S)
    PROVE  Cardinality({i \in S : Cardinality(before[i]) < m}) = m
<1> DEFINE First(T) == {i \in T : Cardinality(before[i]) < m}
           B == {T \in SUBSET S : Cardinality(First(T)) =
                    IF m <= Cardinality(T) THEN m ELSE Cardinality(T)}
<1>1. \A T \in SUBSET S : /\ IsFiniteSet(T) /\ Cardinality(T) \in Nat
                          /\ IsFiniteSet(First(T))
  BY FS_Subset, FS_CardinalityType
<1>2. {} \in B
  BY FS_EmptySet
<1>3. ASSUME NEW i \in S, before[i] \in B
      PROVE  before[i] \cup {i} \in B
  <2> DEFINE T == before[i]
             n == Cardinality(T)
  <2>1. /\ T \in SUBSET S /\ i \notin T /\ T \cup {i} \in SUBSET S
        /\ IsFiniteSet(T) /\ IsFiniteSet(First(T)) /\ n \in Nat
    BY <1>1 DEF TotalOrder
  <2>2. Cardinality(T \cup {i}) = n + 1
    BY <2>1, FS_AddElement
  <2>3. Cardinality(First(T)) = IF m <= n THEN m ELSE n
    BY <1>3
  <2>4. CASE n < m
    <3>1. First(T \cup {i}) = First(T) \cup {i}
      BY <2>4
    <3>2. Cardinality(First(T) \cup {i}) = Cardinality(First(T)) + 1
      BY <2>1, FS_AddElement
    <3>3. Cardinality(First(T \cup {i})) = n + 1
      <4>1. Cardinality(First(T)) = n
        BY <2>1, <2>3, <2>4
      <4> QED
        BY <3>1, <3>2, <4>1, Zenon
    <3> HIDE DEF n
    <3> QED
      BY <2>1, <2>2, <2>4, <3>3
  <2>5. CASE ~ (n < m)
    <3>1. First(T \cup {i}) = First(T)
      BY <2>5
    <3>2. Cardinality(First(T \cup {i})) = m
      <4>1. Cardinality(First(T)) = m
        BY <2>1, <2>3, <2>5
      <4> QED
        BY <3>1, <4>1, Zenon
    <3> HIDE DEF n
    <3> QED
      BY <2>1, <2>2, <2>5, <3>2
  <2> QED
    BY <2>4, <2>5
<1>4. S \in B
  <2> HIDE DEF B
  <2> QED
    BY <1>2, <1>3, SegmentInduction
<1> QED
  BY <1>4

---------------------------------------------------------------------------
(* Enumerations.                                                           *)

\* The members of S, each as often as its place says, those before it first.
Lists(e, before, S) ==
    /\ e \in [1 .. Cardinality(S) -> S]
    /\ \A m, n \in 1 .. Cardinality(S) : m < n => e[m] \in before[e[n]]

\* A finite set in a total order can be listed.
LEMMA ListExists ==
    ASSUME NEW S, IsFiniteSet(S), NEW before, TotalOrder(before, S)
    PROVE  \E e : Lists(e, before, S)
<1> DEFINE N == Cardinality(S)
           rank == [i \in S |-> Cardinality(before[i])]
           First(m) == {i \in S : Cardinality(before[i]) < m}
           e == [n \in 1 .. N |-> CHOOSE i \in S : rank[i] = n - 1]
<1>1. /\ N \in Nat
      /\ \A i \in S : before[i] \in SUBSET S /\ IsFiniteSet(before[i]) /\ rank[i] \in Nat
  <2>1. \A i \in S : before[i] \in SUBSET S
    BY DEF TotalOrder
  <2> QED BY <2>1, FS_Subset, FS_CardinalityType
<1>2. ASSUME NEW m \in 1 .. N PROVE \E i \in S : rank[i] = m - 1
  <2> SUFFICES ASSUME \A i \in S : rank[i] # m - 1 PROVE FALSE
    OBVIOUS
  <2>1. m \in Nat /\ m - 1 \in Nat /\ m <= N /\ m - 1 <= N
    BY <1>1
  <2>2. Cardinality(First(m)) = m /\ Cardinality(First(m - 1)) = m - 1
    <3> HIDE DEF N, rank
    <3> QED BY <2>1, RankCount DEF N
  <2>3. First(m) = First(m - 1)
    <3>1. \A i \in S : Cardinality(before[i]) \in Nat /\ Cardinality(before[i]) # m - 1
      BY <1>1
    <3>2. \A i \in S : Cardinality(before[i]) < m <=> Cardinality(before[i]) < m - 1
      BY <2>1, <3>1
    <3> QED BY <3>2
  <2> HIDE DEF First, N
  <2>4. m = m - 1
    BY <2>2, <2>3
  <2> QED BY <2>1, <2>4
<1>3. \A n \in 1 .. N : e[n] \in S /\ rank[e[n]] = n - 1
  BY <1>2
<1>4. ASSUME NEW m \in 1 .. N, NEW n \in 1 .. N, m < n
      PROVE  e[m] \in before[e[n]]
  <2> DEFINE i == e[m]
             j == e[n]
  <2>1. i \in S /\ j \in S /\ rank[i] = m - 1 /\ rank[j] = n - 1
    BY <1>3
  <2> HIDE DEF i, j, e
  <2>2. rank[i] < rank[j]
    BY <1>1, <2>1, <1>4
  <2>3. i # j
    BY <1>1, <2>1, <2>2
  <2>4. j \notin before[i]
    <3> SUFFICES ASSUME j \in before[i] PROVE FALSE
      OBVIOUS
    <3>1. before[j] \in SUBSET before[i]
      BY <2>1 DEF TotalOrder
    <3>2. Cardinality(before[j]) <= Cardinality(before[i])
      BY <1>1, <2>1, <3>1, FS_Subset
    <3> QED BY <1>1, <2>1, <2>2, <3>2
  <2>5. i \in before[j]
    BY <2>1, <2>3, <2>4 DEF TotalOrder
  <2> QED BY <2>5 DEF i, j
<1>5. e \in [1 .. N -> S]
  BY <1>3
<1>6. Lists(e, before, S)
  BY <1>4, <1>5 DEF Lists
<1> QED BY <1>6

\* A list names every member once, and what is before a member is what was listed
\* before it.
Listing(e, before, S) ==
    LET N == Cardinality(S)
    IN  /\ N \in Nat /\ IsFiniteSet(1 .. N) /\ Cardinality(1 .. N) = N
        /\ \A m, n \in 1 .. N : e[m] = e[n] => m = n
        /\ \A i \in S : \E n \in 1 .. N : e[n] = i
        /\ \A n \in 1 .. N : /\ e[n] \in S
                             /\ before[e[n]] = {e[m] : m \in 1 .. n - 1}
                             /\ Cardinality(before[e[n]]) = n - 1

\* So it is for every list.
LEMMA ListFacts ==
    ASSUME NEW S, IsFiniteSet(S), NEW before, TotalOrder(before, S),
           NEW e, Lists(e, before, S)
    PROVE  Listing(e, before, S)
<1> DEFINE N == Cardinality(S)
<1>1. N \in Nat /\ IsFiniteSet(1 .. N) /\ Cardinality(1 .. N) = N
  <2>1. N \in Nat
    BY FS_CardinalityType
  <2> HIDE DEF N
  <2>2. /\ IsFiniteSet(1 .. N) /\ Cardinality(1 .. N) = IF 1 > N THEN 0 ELSE N - 1 + 1
    BY <2>1, FS_Interval
  <2> QED BY <2>1, <2>2
<1>2. /\ e \in [1 .. N -> S] /\ \A n \in 1 .. N : e[n] \in S
      /\ \A m, n \in 1 .. N : m < n => e[m] \in before[e[n]]
  BY DEF Lists
<1>3. /\ \A i \in S : before[i] \subseteq S /\ i \notin before[i]
      /\ \A i, j \in S : i \in before[j] => before[i] \subseteq before[j]
  BY DEF TotalOrder
<1>4. ASSUME NEW m \in 1 .. N, NEW n \in 1 .. N, e[m] = e[n] PROVE m = n
  <2>1. e[m] \notin before[e[n]] /\ e[n] \notin before[e[m]]
    BY <1>2, <1>3, <1>4
  <2>2. ~ (m < n) /\ ~ (n < m)
    BY <1>2, <2>1
  <2> HIDE DEF N
  <2> QED BY <1>1, <2>2
<1>5. \A i \in S : \E n \in 1 .. N : e[n] = i
  <2>1. e \in Injection(1 .. N, S)
    BY <1>2, <1>4 DEF Injection, IsInjective
  <2>2. Cardinality(1 .. N) = Cardinality(S) <=> e \in Surjection(1 .. N, S)
    <3> HIDE DEF N
    <3> QED BY <2>1, FS_Injection
  <2>3. e \in Surjection(1 .. N, S)
    BY <1>1, <2>2
  <2> QED BY <2>3 DEF Surjection
<1> HIDE DEF N
<1>6. ASSUME NEW n \in 1 .. N PROVE before[e[n]] = {e[m] : m \in 1 .. n - 1}
  <2>1. \A m \in 1 .. n - 1 : m \in 1 .. N /\ m < n
    BY <1>1
  <2>2. ASSUME NEW j \in before[e[n]] PROVE \E m \in 1 .. n - 1 : e[m] = j
    <3>1. j \in S
      BY <1>2, <1>3
    <3>2. PICK m \in 1 .. N : e[m] = j
      BY <1>5, <3>1
    <3>3. e[n] \notin before[e[m]]
      BY <1>2, <1>3, <2>2, <3>2
    <3>4. ~ (n < m)
      BY <1>2, <3>3
    <3>5. m # n
      BY <1>2, <1>3, <2>2, <3>2
    <3>6. m \in 1 .. n - 1
      BY <1>1, <3>4, <3>5
    <3> QED BY <3>2, <3>6
  <2> QED BY <1>2, <2>1, <2>2
<1>7. ASSUME NEW n \in 1 .. N PROVE Cardinality(before[e[n]]) = n - 1
  <2> DEFINE D == 1 .. n - 1
  <2>1. \A m \in D : m \in 1 .. N
    BY <1>1
  <2>2. \A k, m \in D : e[k] = e[m] => k = m
    BY <1>4, <2>1
  <2>3. IsFiniteSet(D) /\ Cardinality(D) = n - 1
    <3>1. n - 1 \in Int /\ n - 1 \in Nat
      BY <1>1
    <3>2. IsFiniteSet(1 .. n - 1) /\ Cardinality(1 .. n - 1) = IF 1 > n - 1 THEN 0 ELSE (n - 1) - 1 + 1
      BY <3>1, FS_Interval
    <3> QED BY <3>1, <3>2
  <2> HIDE DEF D
  <2>4. Cardinality({e[m] : m \in D}) = n - 1
    BY <2>2, <2>3, ImageCardinality
  <2> QED BY <1>6, <2>4 DEF D
<1> QED BY <1>1, <1>2, <1>4, <1>5, <1>6, <1>7 DEF N, Listing

---------------------------------------------------------------------------
(* Division.                                                               *)

\* A product with a larger factor is larger by the product with the difference.
LEMMA Multiples ==
    ASSUME NEW d \in Nat, NEW m \in Nat, NEW q \in Nat, m <= q
    PROVE  d * m \in Nat /\ d * q \in Nat /\ d * m <= d * q
<1> DEFINE k == q - m
<1>1. k \in Nat /\ q = m + k
  OBVIOUS
<1> HIDE DEF k
<1>2. d * (m + k) = d * m + d * k
  BY <1>1
<1>3. d * m \in Nat /\ d * k \in Nat
  BY <1>1
<1>4. d * q = d * m + d * k
  BY <1>1, <1>2
<1> QED BY <1>3, <1>4

\* Quotient and remainder.
LEMMA Division ==
    ASSUME NEW a \in Nat, NEW b \in Nat \ {0}
    PROVE  /\ a \div b \in Nat /\ a % b \in 0 .. (b - 1)
           /\ a = b * (a \div b) + (a % b)
BY SMT

\* Dividing a smaller number gives no larger quotient.
LEMMA DivisionMonotone ==
    ASSUME NEW a \in Nat, NEW b \in Nat \ {0}, NEW c \in Nat, c <= a
    PROVE  c \div b <= a \div b
<1> DEFINE p == a \div b
           q == c \div b
           r == a % b
           s == c % b
<1>1. /\ p \in Nat /\ r \in 0 .. (b - 1) /\ a = b * p + r
      /\ q \in Nat /\ s \in 0 .. (b - 1) /\ c = b * q + s
  BY Division
<1> HIDE DEF p, q, r, s
<1>2. \A x, y \in Nat : x >= y + 1 => b * x >= b * y + b
  OBVIOUS
<1>3. q >= p + 1 => b * q >= b * p + b
  BY <1>1, <1>2
<1> QED
  BY <1>1, <1>3 DEF p, q
=============================================================================
