--------------------------- MODULE BrowserProofs ---------------------------
(* What a tab keeps to, however the calls, the refreshes, the page loads, the *)
(* clock, the mouse and the data interleave: the session of either frontend,  *)
(* the second factor before the console, and the window of a chart with what  *)
(* is drawn in it; for any number of calls, codes, points, prices and marks.  *)
(* And what the pages compute of the figures they are given: that sums, lists *)
(* and judgements made in several places agree; for any figures.              *)
EXTENDS Session, AdminGate, ChartWindow, DashboardFigures, HistoryFigures, HoldingsFigures,
        HoldingsTabs, CashSection, AdminConsole, FiniteSetTheorems, FunctionTheorems,
        WellFoundedInduction, TLAPS

-----------------------------------------------------------------------------
(* Induction: over a finite set and over the numbers up to a bound.          *)

\* What holds of a set whenever it holds of all its proper parts holds of every part of a
\* finite set.
LEMMA PartInduction ==
  ASSUME NEW S, IsFiniteSet(S), NEW Good,
         \A T \in SUBSET S : (\A U \in SUBSET T : U # T => U \in Good) => T \in Good
  PROVE  \A T \in SUBSET S : T \in Good
<1> DEFINE R == StrictSubsetOrdering(S)
           Bad == (SUBSET S) \ Good
<1>1. IsWellFoundedOn(R, SUBSET S)
  BY FS_StrictSubsetOrderingWellFounded, FS_FiniteSubsetsOfFinite
<1>2. R = {ss \in (SUBSET S) \X (SUBSET S) : ss[1] \subseteq ss[2] /\ ss[1] # ss[2]}
  BY DEF StrictSubsetOrdering
<1> HIDE DEF R
<1> SUFFICES ASSUME Bad # {} PROVE FALSE
  OBVIOUS
<1>3. Bad \subseteq SUBSET S
  OBVIOUS
<1> HIDE DEF Bad
<1>4. PICK T \in Bad : \A U \in Bad : ~(<<U, T>> \in R)
  <2>1. Bad # {}
    OBVIOUS
  <2>2. \E T \in Bad : \A U \in Bad : ~(<<U, T>> \in R)
    BY ONLY <1>1, <1>3, <2>1, WFMin, Zenon
  <2> QED
    BY <2>2
<1>5. T \in SUBSET S /\ T \notin Good
  BY DEF Bad
<1>6. ASSUME NEW U \in SUBSET T, U # T PROVE U \in Good
  <2>1. <<U, T>> \in R /\ U \in SUBSET S
    BY <1>2, <1>5, <1>6
  <2> QED
    BY <1>4, <2>1 DEF Bad
<1> QED
  BY <1>5, <1>6

\* What holds of the empty set and stays with one element more holds of every part of a
\* finite set.
LEMMA FiniteInduction ==
  ASSUME NEW S, IsFiniteSet(S), NEW Good, {} \in Good,
         \A T \in SUBSET S : \A x \in S \ T : T \in Good => T \cup {x} \in Good
  PROVE  \A T \in SUBSET S : T \in Good
<1>1. ASSUME NEW T \in SUBSET S, \A U \in SUBSET T : U # T => U \in Good PROVE T \in Good
  <2>1. CASE T = {}
    BY <2>1
  <2>2. ASSUME NEW x \in T PROVE T \in Good
    <3> DEFINE U == T \ {x}
    <3>1. U \in SUBSET T /\ U # T /\ U \in SUBSET S /\ x \in S \ U /\ T = U \cup {x}
      BY <2>2
    <3> HIDE DEF U
    <3>2. U \in Good
      BY <1>1, <3>1
    <3> QED
      BY <3>1, <3>2
  <2> QED
    BY <2>1, <2>2
<1> QED
  BY <1>1, PartInduction

\* What holds of 0 and goes from a number to the next holds up to the bound.
LEMMA UpTo ==
  ASSUME NEW N \in Nat, NEW Good, 0 \in Good, \A n \in 0..(N - 1) : n \in Good => n + 1 \in Good
  PROVE  \A n \in 0..N : n \in Good
<1> DEFINE Sized == {T \in SUBSET (1..N) : Cardinality(T) \in Good}
<1>1. IsFiniteSet(1..N) /\ Cardinality(1..N) = N
  BY FS_Interval
<1>2. {} \in Sized
  BY FS_EmptySet
<1>3. ASSUME NEW T \in SUBSET (1..N), NEW x \in (1..N) \ T, T \in Sized PROVE T \cup {x} \in Sized
  <2>1. IsFiniteSet(T) /\ Cardinality(T) \in Nat /\ Cardinality(T \cup {x}) = Cardinality(T) + 1
    BY <1>1, FS_Subset, FS_AddElement, FS_CardinalityType
  <2>2. Cardinality(T \cup {x}) <= N
    BY <1>1, FS_Subset
  <2>3. Cardinality(T) \in 0..(N - 1)
    BY <2>1, <2>2
  <2> QED
    BY <1>3, <2>1, <2>3
<1> HIDE DEF Sized
<1>4. \A T \in SUBSET (1..N) : T \in Sized
  BY <1>1, <1>2, <1>3, FiniteInduction
<1> TAKE n \in 0..N
<1>5. 1..n \in SUBSET (1..N) /\ Cardinality(1..n) = n
  BY FS_Interval
<1> QED
  BY <1>4, <1>5 DEF Sized

-----------------------------------------------------------------------------
(* Lists.                                                                    *)

\* A strict total order of a set, given by its pairs.
Orders(before, S) ==
    /\ \A x \in S : <<x, x>> \notin before
    /\ \A x, y, z \in S : <<x, y>> \in before /\ <<y, z>> \in before => <<x, z>> \in before
    /\ \A x, y \in S : x # y => <<x, y>> \in before \/ <<y, x>> \in before

\* What stands at a place, where only one thing does.
LEMMA PlacedOK ==
  ASSUME NEW places, NEW k, NEW x, <<k, x>> \in places, \A p \in places : p[1] = k => p = <<k, x>>
  PROVE  Placed(places, k) = x
<1>1. (CHOOSE p \in places : p[1] = k) = <<k, x>>
  OBVIOUS
<1> QED
  BY <1>1 DEF Placed

\* A set in an order of it: all of its elements, the earlier first.
LEMMA InOrderOK ==
  ASSUME NEW S, IsFiniteSet(S), NEW before, Orders(before, S)
  PROVE  /\ InOrder(S, before) \in [1..Cardinality(S) -> S]
         /\ \A i, j \in 1..Cardinality(S) : i < j => <<InOrder(S, before)[i], InOrder(S, before)[j]>> \in before
         /\ \A x \in S : \E i \in 1..Cardinality(S) : InOrder(S, before)[i] = x
         /\ \A i, j \in 1..Cardinality(S) : InOrder(S, before)[i] = InOrder(S, before)[j] => i = j
<1> DEFINE n == Cardinality(S)
           earlier(x) == {y \in S : <<y, x>> \in before}
           rank(x) == 1 + Cardinality(earlier(x))
           R == [x \in S |-> rank(x)]
           places == {<<rank(x), x>> : x \in S}
           f == InOrder(S, before)
<1>1. n \in Nat /\ IsFiniteSet(1..n) /\ Cardinality(1..n) = n
  BY FS_CardinalityType, FS_Interval
<1>2. ASSUME NEW x \in S PROVE rank(x) \in 1..n
  <2>1. earlier(x) \in SUBSET (S \ {x})
    BY DEF Orders
  <2>2. IsFiniteSet(S \ {x}) /\ Cardinality(S \ {x}) = n - 1
    BY FS_RemoveElement
  <2>3. IsFiniteSet(earlier(x)) /\ Cardinality(earlier(x)) <= n - 1
    <3> DEFINE A == earlier(x)  B == S \ {x}
    <3>1. A \in SUBSET B /\ IsFiniteSet(B) /\ Cardinality(B) = n - 1
      BY <2>1, <2>2
    <3> HIDE DEF A, B
    <3>2. IsFiniteSet(A) /\ Cardinality(A) <= Cardinality(B)
      BY ONLY <3>1, FS_Subset
    <3> QED
      BY <3>1, <3>2 DEF A
  <2>4. Cardinality(earlier(x)) \in Nat
    BY <2>3, FS_CardinalityType
  <2> QED
    BY <1>1, <2>3, <2>4
<1>3. ASSUME NEW x \in S, NEW y \in S, <<x, y>> \in before PROVE rank(x) < rank(y)
  <2>1. earlier(x) \in SUBSET (earlier(y) \ {x}) /\ x \in earlier(y)
    BY <1>3 DEF Orders
  <2>2. IsFiniteSet(earlier(y))
    BY FS_Subset
  <2>3. IsFiniteSet(earlier(y) \ {x}) /\ Cardinality(earlier(y) \ {x}) = Cardinality(earlier(y)) - 1
    BY <2>1, <2>2, FS_RemoveElement
  <2>4. Cardinality(earlier(x)) <= Cardinality(earlier(y)) - 1
    <3> DEFINE A == earlier(x)  B == earlier(y) \ {x}
    <3>1. A \in SUBSET B /\ IsFiniteSet(B)
      BY <2>1, <2>3
    <3> HIDE DEF A, B
    <3>2. Cardinality(A) <= Cardinality(B)
      BY <3>1, FS_Subset
    <3> QED
      BY <2>3, <3>2 DEF A, B
  <2>5. rank(x) \in 1..n /\ rank(y) \in 1..n
    BY <1>2
  <2>6. Cardinality(earlier(x)) \in Nat /\ Cardinality(earlier(y)) \in Nat
    BY FS_Subset, FS_CardinalityType
  <2> HIDE DEF earlier
  <2> QED
    BY <2>4, <2>6
<1> HIDE DEF rank, earlier
<1>4. ASSUME NEW x \in S, NEW y \in S, rank(x) = rank(y) PROVE x = y
  <2>1. rank(x) \in Int /\ ~(rank(x) < rank(y)) /\ ~(rank(y) < rank(x))
    BY <1>2, <1>4
  <2> QED
    BY <1>3, <2>1 DEF Orders
<1>5. R \in [S -> 1..n] /\ \A a, b \in S : R[a] = R[b] => a = b
  BY <1>2, <1>4
<1>6. R \in Injection(S, 1..n)
  BY <1>5, Fun_IsInj
<1>7. R \in Surjection(S, 1..n)
  BY <1>1, <1>6, FS_Injection
<1>8. \A k \in 1..n : \E x \in S : rank(x) = k
  BY <1>7 DEF Surjection
<1>9. ASSUME NEW x \in S PROVE Placed(places, rank(x)) = x
  <2>1. <<rank(x), x>> \in places
    OBVIOUS
  <2>2. ASSUME NEW p \in places, p[1] = rank(x) PROVE p = <<rank(x), x>>
    <3>1. PICK y \in S : p = <<rank(y), y>>
      OBVIOUS
    <3> QED
      BY <1>4, <2>2, <3>1
  <2> HIDE DEF places
  <2> QED
    BY <2>1, <2>2, PlacedOK
<1>10. f = [k \in 1..n |-> Placed(places, k)]
  BY Zenon DEF InOrder, rank, earlier
<1> HIDE DEF places, f, R, n
<1>11. ASSUME NEW k \in 1..n PROVE f[k] \in S /\ rank(f[k]) = k
  <2>1. PICK x \in S : rank(x) = k
    BY <1>8
  <2>2. f[k] = x
    BY <1>9, <1>10, <2>1
  <2> QED
    BY <2>1, <2>2
<1>12. ASSUME NEW i \in 1..n, NEW j \in 1..n, i < j PROVE <<f[i], f[j]>> \in before
  <2>1. f[i] \in S /\ f[j] \in S /\ rank(f[i]) = i /\ rank(f[j]) = j
    BY <1>11
  <2>2. f[i] # f[j] /\ ~(<<f[j], f[i]>> \in before)
    <3>1. f[i] # f[j]
      BY <1>1, <1>12, <2>1
    <3>2. <<f[j], f[i]>> \in before => j < i
      BY <1>3, <2>1
    <3> QED
      BY <1>1, <1>12, <3>1, <3>2
  <2> QED
    BY <2>1, <2>2 DEF Orders
<1>13. ASSUME NEW x \in S PROVE \E i \in 1..n : f[i] = x
  BY <1>1, <1>2, <1>9, <1>10
<1>14. f \in [1..n -> S]
  BY <1>10, <1>11
<1>15. \A i, j \in 1..n : f[i] = f[j] => i = j
  BY <1>11
<1> QED
  BY <1>12, <1>13, <1>14, <1>15 DEF f, n

\* Numbers from the smallest to the largest.
LEMMA AscendingOK ==
  ASSUME NEW I, IsFiniteSet(I), I \subseteq Int
  PROVE  /\ Cardinality(I) \in Nat /\ Ascending(I) \in [1..Cardinality(I) -> I]
         /\ \A i, j \in 1..Cardinality(I) : i < j => Ascending(I)[i] < Ascending(I)[j]
         /\ \A x \in I : \E i \in 1..Cardinality(I) : Ascending(I)[i] = x
         /\ \A i, j \in 1..Cardinality(I) : Ascending(I)[i] = Ascending(I)[j] => i = j
<1> DEFINE before == {p \in I \X I : p[1] < p[2]}
<1>1. \A x, y \in I : <<x, y>> \in before <=> x < y
  OBVIOUS
<1>2. Orders(before, I)
  BY <1>1 DEF Orders
<1>3. Ascending(I) = InOrder(I, before)
  BY DEF Ascending
<1> HIDE DEF before
<1> DEFINE n == Cardinality(I)
           f == Ascending(I)
<1>4. n \in Nat
  BY FS_CardinalityType
<1>5. /\ f \in [1..n -> I]
      /\ \A i, j \in 1..n : i < j => <<f[i], f[j]>> \in before
      /\ \A x \in I : \E i \in 1..n : f[i] = x
      /\ \A i, j \in 1..n : f[i] = f[j] => i = j
  BY <1>2, <1>3, InOrderOK
<1> HIDE DEF f, n
<1>6. \A i, j \in 1..n : i < j => f[i] < f[j]
  BY <1>1, <1>5
<1> QED
  BY <1>4, <1>5, <1>6 DEF f, n

\* What is left of a list is the elements at the indices, in the order they had.
LEMMA AtOK ==
  ASSUME NEW list, NEW I, IsFiniteSet(I), I \subseteq Int
  PROVE  /\ At(list, I) = [k \in 1..Cardinality(I) |-> list[Ascending(I)[k]]]
         /\ DOMAIN At(list, I) = 1..Cardinality(I)
         /\ \A k \in 1..Cardinality(I) : At(list, I)[k] = list[Ascending(I)[k]]
         /\ At(list, I) = <<>> <=> I = {}
         /\ \A X : (\A i \in I : list[i] \in X) => At(list, I) \in Seq(X) /\ Len(At(list, I)) = Cardinality(I)
<1> DEFINE n == Cardinality(I)
           f == Ascending(I)
           l == At(list, I)
<1>1. n \in Nat /\ f \in [1..n -> I]
  BY AscendingOK
<1>2. l = [k \in 1..n |-> list[f[k]]]
  BY DEF At
<1>3. n = 0 <=> I = {}
  BY FS_EmptySet
<1> HIDE DEF n, f, l
<1>4. ASSUME NEW X, \A i \in I : list[i] \in X PROVE l \in Seq(X) /\ Len(l) = n
  <2>1. \A k \in 1..n : list[f[k]] \in X
    BY <1>1, <1>4
  <2> QED
    BY <1>1, <1>2, <2>1
<1>5. l = <<>> <=> I = {}
  BY <1>1, <1>2, <1>3
<1> QED
  BY <1>2, <1>4, <1>5 DEF n, f, l

\* The places of a list that is sorted.
Ranking(list, key) ==
    InOrder(DOMAIN list, {p \in (DOMAIN list) \X (DOMAIN list) :
                             key[p[1]] > key[p[2]] \/ (key[p[1]] = key[p[2]] /\ p[1] < p[2])})

\* A list that is sorted has its elements, none with a larger key behind one with a
\* smaller.
LEMMA ByKeyOK ==
  ASSUME NEW list, NEW n \in Nat, n = Len(list), DOMAIN list = 1..n, NEW key, \A i \in 1..n : key[i] \in Int
  PROVE  /\ Ranking(list, key) \in [1..n -> 1..n]
         /\ DOMAIN ByKey(list, key) = 1..n /\ Len(ByKey(list, key)) = n
         /\ \A k \in 1..n : ByKey(list, key)[k] = list[Ranking(list, key)[k]]
         /\ \A i, j \in 1..n : i < j => key[Ranking(list, key)[i]] >= key[Ranking(list, key)[j]]
         /\ \A i, j \in 1..n : Ranking(list, key)[i] = Ranking(list, key)[j] => i = j
         /\ \A x \in 1..n : \E i \in 1..n : Ranking(list, key)[i] = x
<1> DEFINE D == 1..n
           before == {p \in D \X D : key[p[1]] > key[p[2]] \/ (key[p[1]] = key[p[2]] /\ p[1] < p[2])}
           f == InOrder(D, before)
<1>1. IsFiniteSet(D) /\ Cardinality(D) = n
  BY ONLY n \in Nat, FS_Interval
<1>2. \A x, y \in D : <<x, y>> \in before <=> key[x] > key[y] \/ (key[x] = key[y] /\ x < y)
  OBVIOUS
<1>3. \A x \in D : key[x] \in Int /\ x \in Int
  OBVIOUS
<1>4. ByKey(list, key) = [k \in D |-> list[f[k]]] /\ Ranking(list, key) = f
  BY DEF ByKey, Ranking
<1> HIDE DEF before
<1>5. Orders(before, D)
  BY <1>2, <1>3 DEF Orders
<1> HIDE DEF D
<1>6. /\ f \in [1..n -> D]
      /\ \A i, j \in 1..n : i < j => <<f[i], f[j]>> \in before
      /\ \A x \in D : \E i \in 1..n : f[i] = x
      /\ \A i, j \in 1..n : f[i] = f[j] => i = j
  BY <1>1, <1>5, InOrderOK
<1> HIDE DEF f
<1>7. ASSUME NEW i \in 1..n, NEW j \in 1..n, i < j PROVE key[f[i]] >= key[f[j]]
  <2>1. f[i] \in D /\ f[j] \in D /\ <<f[i], f[j]>> \in before
    BY <1>6, <1>7
  <2>2. key[f[i]] > key[f[j]] \/ (key[f[i]] = key[f[j]] /\ f[i] < f[j])
    BY <1>2, <2>1
  <2>3. key[f[i]] \in Int /\ key[f[j]] \in Int
    BY <1>3, <2>1
  <2> QED
    BY <2>2, <2>3
<1>8. DOMAIN ByKey(list, key) = D /\ Len(ByKey(list, key)) = n /\ \A k \in D : ByKey(list, key)[k] = list[f[k]]
  BY <1>4 DEF D
<1> QED
  BY <1>4, <1>6, <1>7, <1>8 DEF D

\* A finite set of numbers has a largest and a smallest one.
LEMMA HasExtremes ==
  ASSUME NEW S, IsFiniteSet(S), S \subseteq Int, S # {}
  PROVE  (\E m \in S : \A x \in S : x <= m) /\ \E m \in S : \A x \in S : m <= x
<1> DEFINE Good == {T \in SUBSET S : T = {} \/ ((\E m \in T : \A x \in T : x <= m) /\ \E m \in T : \A x \in T : m <= x)}
<1>1. {} \in Good
  OBVIOUS
<1>2. ASSUME NEW T \in SUBSET S, NEW y \in S \ T, T \in Good PROVE T \cup {y} \in Good
  <2> DEFINE U == T \cup {y}
  <2>1. \E m \in U : \A x \in U : x <= m
    BY <1>2
  <2>2. \E m \in U : \A x \in U : m <= x
    BY <1>2
  <2> QED
    BY <2>1, <2>2
<1> HIDE DEF Good
<1>3. S \in Good
  BY <1>1, <1>2, FiniteInduction
<1> QED
  BY <1>3 DEF Good

\* A finite set of numbers has a largest,
LEMMA MaxOK ==
  ASSUME NEW S, IsFiniteSet(S), S \subseteq Int, S # {}
  PROVE  Max(S) \in S /\ \A x \in S : x <= Max(S)
<1>1. \E m \in S : \A x \in S : m >= x
  BY HasExtremes
<1> QED
  BY <1>1 DEF Max

\* and a smallest.
LEMMA MinOK ==
  ASSUME NEW S, IsFiniteSet(S), S \subseteq Int, S # {}
  PROVE  Min(S) \in S /\ \A x \in S : Min(S) <= x
<1>1. \E m \in S : \A x \in S : m <= x
  BY HasExtremes
<1> QED
  BY <1>1 DEF Min

-----------------------------------------------------------------------------
(* Sums.                                                                     *)

\* The element of a set that is taken first.
Chosen(s) == CHOOSE x \in s : TRUE

\* What is taken of a set is of it.
LEMMA ChosenOK == ASSUME NEW s, s # {} PROVE Chosen(s) \in s
BY DEF Chosen

\* The sums of f over the parts of a set.
Sums(g, f, X) ==
    g = [s \in SUBSET X |-> IF s = {} THEN 0 ELSE f[Chosen(s)] + g[s \ {Chosen(s)}]]

\* A sum of the library is what such sums have for the whole set.
LEMMA SumIsSums == ASSUME NEW f, NEW X PROVE SumFunctionOnSet(f, X) = (CHOOSE g : Sums(g, f, X))[X]
BY Zenon DEF SumFunctionOnSet, FoldFunctionOnSet, MapThenFoldSet, Sums, Chosen

\* Each is what is taken first and the sum of the rest.
LEMMA SumsAt ==
  ASSUME NEW f, NEW X, NEW g, Sums(g, f, X), NEW s \in SUBSET X
  PROVE  g[s] = IF s = {} THEN 0 ELSE f[Chosen(s)] + g[s \ {Chosen(s)}]
BY DEF Sums

\* There are such sums.
LEMMA SumsExist ==
  ASSUME NEW f, NEW X, IsFiniteSet(X)
  PROVE  \E g : Sums(g, f, X)
<1> DEFINE P == SUBSET X
           N == Cardinality(X)
           Upto(g, n) == \A s \in P : Cardinality(s) <= n =>
                            g[s] = IF s = {} THEN 0 ELSE f[Chosen(s)] + g[s \ {Chosen(s)}]
           Good == {n \in 0..N : \E g : g = [s \in P |-> g[s]] /\ Upto(g, n)}
<1>1. N \in Nat /\ \A s \in P : IsFiniteSet(s) /\ Cardinality(s) \in 0..N
  BY FS_CardinalityType, FS_Subset
<1>2. \A s \in P : Cardinality(s) = 0 <=> s = {}
  BY <1>1, FS_EmptySet
<1>3. \A s \in P : s # {} => Chosen(s) \in s /\ s \ {Chosen(s)} \in P /\ Cardinality(s \ {Chosen(s)}) = Cardinality(s) - 1
  BY <1>1, ChosenOK, FS_RemoveElement
<1>4. 0 \in Good
  <2> DEFINE g == [s \in P |-> 0]
  <2>1. Upto(g, 0)
    <3> SUFFICES ASSUME NEW s \in P, Cardinality(s) <= 0
                 PROVE  g[s] = IF s = {} THEN 0 ELSE f[Chosen(s)] + g[s \ {Chosen(s)}]
      OBVIOUS
    <3>1. Cardinality(s) = 0
      BY <1>1
    <3>2. s = {} /\ g[s] = 0
      BY <1>2, <3>1
    <3> QED
      BY <3>2
  <2>2. g = [s \in P |-> g[s]]
    OBVIOUS
  <2> HIDE DEF g, Upto
  <2>3. \E k : k = [s \in P |-> k[s]] /\ Upto(k, 0)
    BY <2>1, <2>2, Zenon
  <2>4. 0 \in 0..N
    BY <1>1
  <2> QED
    BY <2>3, <2>4, Zenon
<1>5. ASSUME NEW n \in 0..(N - 1), n \in Good PROVE n + 1 \in Good
  <2>1. PICK g : g = [s \in P |-> g[s]] /\ Upto(g, n)
    BY <1>5
  <2> DEFINE h == [s \in P |-> IF Cardinality(s) <= n THEN g[s] ELSE f[Chosen(s)] + g[s \ {Chosen(s)}]]
  <2>2. h = [s \in P |-> h[s]]
    OBVIOUS
  <2>3. \A s \in P : h[s] = IF Cardinality(s) <= n THEN g[s] ELSE f[Chosen(s)] + g[s \ {Chosen(s)}]
    OBVIOUS
  <2> HIDE DEF h
  <2>4. ASSUME NEW s \in P, Cardinality(s) <= n + 1
        PROVE  h[s] = IF s = {} THEN 0 ELSE f[Chosen(s)] + h[s \ {Chosen(s)}]
    <3>1. CASE s = {}
      <4>1. s \in P /\ Cardinality(s) = 0
        BY <1>2, <3>1
      <4>2. Cardinality(s) <= n /\ n \in Int
        BY <1>1, <4>1
      <4>3. g[s] = 0
        BY <2>1, <3>1, <4>2
      <4>4. h[s] = g[s]
        BY <2>3, <4>2
      <4> QED
        BY <3>1, <4>3, <4>4
    <3>2. CASE s # {}
      <4> DEFINE r == s \ {Chosen(s)}
      <4>1. r \in P /\ Cardinality(r) = Cardinality(s) - 1 /\ Cardinality(s) \in Nat
        BY <1>1, <1>3, <3>2
      <4> HIDE DEF r
      <4>2. Cardinality(r) <= n
        BY <2>4, <4>1
      <4>3. h[r] = g[r]
        BY <2>3, <4>1, <4>2
      <4>4. h[s] = f[Chosen(s)] + g[r]
        BY <2>1, <2>3, <3>2 DEF r
      <4> QED
        BY <3>2, <4>3, <4>4 DEF r
    <3> QED
      BY <3>1, <3>2
  <2>5. Upto(h, n + 1) /\ n + 1 \in 0..N
    BY <1>1, <2>4
  <2> QED
    BY <2>2, <2>5
<1> HIDE DEF Good
<1>6. N \in Good
  BY <1>1, <1>4, <1>5, UpTo
<1>7. PICK g : g = [s \in P |-> g[s]] /\ Upto(g, N)
  BY <1>6 DEF Good
<1>8. \A s \in P : g[s] = IF s = {} THEN 0 ELSE f[Chosen(s)] + g[s \ {Chosen(s)}]
  <2> TAKE s \in P
  <2>1. Cardinality(s) <= N
    BY <1>1
  <2> QED
    BY <1>7, <2>1
<1>9. [s \in P |-> g[s]] = [s \in P |-> IF s = {} THEN 0 ELSE f[Chosen(s)] + g[s \ {Chosen(s)}]]
  BY <1>8
<1> QED
  BY <1>7, <1>9 DEF Sums

\* And they do not depend on the set that they are of the parts of.
LEMMA SumsAgree ==
  ASSUME NEW f, NEW X, NEW Y, NEW T, IsFiniteSet(T), T \subseteq X, T \subseteq Y,
         NEW g, NEW h, Sums(g, f, X), Sums(h, f, Y)
  PROVE  g[T] = h[T]
<1> DEFINE N == Cardinality(T)
           Good == {n \in 0..N : \A s \in SUBSET T : Cardinality(s) = n => g[s] = h[s]}
<1>1. N \in Nat /\ \A s \in SUBSET T : IsFiniteSet(s) /\ Cardinality(s) \in Nat
  BY FS_CardinalityType, FS_Subset
<1>2. 0 \in Good
  <2>1. g[{}] = 0 /\ h[{}] = 0
    BY SumsAt
  <2>2. \A s \in SUBSET T : Cardinality(s) = 0 => s = {}
    BY <1>1, FS_EmptySet
  <2> QED
    BY <1>1, <2>1, <2>2
<1>3. ASSUME NEW n \in 0..(N - 1), n \in Good PROVE n + 1 \in Good
  <2>1. ASSUME NEW s \in SUBSET T, Cardinality(s) = n + 1 PROVE g[s] = h[s]
    <3>1. s # {}
      BY <2>1, FS_EmptySet
    <3> DEFINE r == s \ {Chosen(s)}
    <3>2. r \in SUBSET T /\ Cardinality(r) = n
      <4>1. IsFiniteSet(s) /\ Chosen(s) \in s
        BY <1>1, <3>1, ChosenOK
      <4>2. Cardinality(s \ {Chosen(s)}) = Cardinality(s) - 1
        BY <4>1, FS_RemoveElement
      <4> QED
        BY <2>1, <4>2
    <3>3. g[s] = f[Chosen(s)] + g[r] /\ h[s] = f[Chosen(s)] + h[r]
      BY <3>1, SumsAt
    <3> HIDE DEF r
    <3> QED
      BY <1>3, <3>2, <3>3
  <2> QED
    BY <1>1, <2>1
<1> HIDE DEF Good
<1>4. N \in Good
  BY <1>1, <1>2, <1>3, UpTo
<1> QED
  BY <1>4 DEF Good

\* The sum over nothing, and over more than nothing.
LEMMA SumChosen ==
  ASSUME NEW f, NEW T, IsFiniteSet(T)
  PROVE  SumFunctionOnSet(f, T) = IF T = {} THEN 0 ELSE f[Chosen(T)] + SumFunctionOnSet(f, T \ {Chosen(T)})
<1> DEFINE g == CHOOSE g : Sums(g, f, T)
           r == T \ {Chosen(T)}
           h == CHOOSE h : Sums(h, f, r)
<1>1. Sums(g, f, T) /\ SumFunctionOnSet(f, T) = g[T]
  BY SumsExist, SumIsSums
<1>2. IsFiniteSet(r)
  BY FS_RemoveElement
<1>3. Sums(h, f, r) /\ SumFunctionOnSet(f, r) = h[r]
  BY <1>2, SumsExist, SumIsSums
<1> HIDE DEF g, h
<1>4. g[T] = IF T = {} THEN 0 ELSE f[Chosen(T)] + g[r]
  BY <1>1, SumsAt
<1>5. g[r] = h[r]
  <2> HIDE DEF r
  <2>1. r \subseteq T
    BY DEF r
  <2> QED
    BY <1>1, <1>2, <1>3, <2>1, SumsAgree
<1> QED
  BY <1>1, <1>3, <1>4, <1>5

\* A sum of numbers is a number; of numbers that are not negative, such a number.
LEMMA SumType ==
  ASSUME NEW f, NEW T, IsFiniteSet(T), \A x \in T : f[x] \in Int
  PROVE  /\ SumFunctionOnSet(f, T) \in Int
         /\ (\A x \in T : f[x] >= 0) => SumFunctionOnSet(f, T) >= 0
<1> DEFINE Good == {s \in SUBSET T : /\ SumFunctionOnSet(f, s) \in Int
                                     /\ (\A x \in T : f[x] >= 0) => SumFunctionOnSet(f, s) >= 0}
<1>1. ASSUME NEW s \in SUBSET T, \A r \in SUBSET s : r # s => r \in Good PROVE s \in Good
  <2>1. IsFiniteSet(s)
    BY FS_Subset
  <2>2. SumFunctionOnSet(f, s) = IF s = {} THEN 0 ELSE f[Chosen(s)] + SumFunctionOnSet(f, s \ {Chosen(s)})
    BY <2>1, SumChosen
  <2>3. CASE s = {}
    BY <2>2, <2>3
  <2>4. CASE s # {}
    <3> DEFINE r == s \ {Chosen(s)}
    <3>1. Chosen(s) \in s /\ r \in SUBSET s /\ r # s
      BY <2>4, ChosenOK
    <3> HIDE DEF r
    <3>2. f[Chosen(s)] \in Int /\ r \in Good
      BY <1>1, <3>1
    <3>3. SumFunctionOnSet(f, s) = f[Chosen(s)] + SumFunctionOnSet(f, r)
      BY <2>2, <2>4 DEF r
    <3>4. (\A x \in T : f[x] >= 0) => f[Chosen(s)] >= 0
      BY <3>1
    <3> QED
      BY <3>2, <3>3, <3>4
  <2> QED
    BY <2>3, <2>4
<1> HIDE DEF Good
<1>2. T \in Good
  BY <1>1, PartInduction
<1> QED
  BY <1>2 DEF Good

\* A sum is of what is summed.
LEMMA SumSame ==
  ASSUME NEW f, NEW h, NEW T, IsFiniteSet(T), \A x \in T : f[x] = h[x]
  PROVE  SumFunctionOnSet(f, T) = SumFunctionOnSet(h, T)
<1> DEFINE Good == {s \in SUBSET T : SumFunctionOnSet(f, s) = SumFunctionOnSet(h, s)}
<1>1. ASSUME NEW s \in SUBSET T, \A r \in SUBSET s : r # s => r \in Good PROVE s \in Good
  <2>1. IsFiniteSet(s)
    BY FS_Subset
  <2>2. /\ SumFunctionOnSet(f, s) = IF s = {} THEN 0 ELSE f[Chosen(s)] + SumFunctionOnSet(f, s \ {Chosen(s)})
        /\ SumFunctionOnSet(h, s) = IF s = {} THEN 0 ELSE h[Chosen(s)] + SumFunctionOnSet(h, s \ {Chosen(s)})
    BY <2>1, SumChosen
  <2>3. CASE s = {}
    BY <2>2, <2>3
  <2>4. CASE s # {}
    <3> DEFINE r == s \ {Chosen(s)}
    <3>1. Chosen(s) \in s /\ r \in SUBSET s /\ r # s
      BY <2>4, ChosenOK
    <3>2. /\ SumFunctionOnSet(f, s) = f[Chosen(s)] + SumFunctionOnSet(f, r)
          /\ SumFunctionOnSet(h, s) = h[Chosen(s)] + SumFunctionOnSet(h, r)
      BY <2>2, <2>4
    <3> HIDE DEF r
    <3>3. f[Chosen(s)] = h[Chosen(s)] /\ r \in Good
      BY <1>1, <3>1
    <3> QED
      BY <3>2, <3>3
  <2> QED
    BY <2>3, <2>4
<1> HIDE DEF Good
<1>2. T \in Good
  BY <1>1, PartInduction
<1> QED
  BY <1>2 DEF Good

\* Any element may be taken first.
LEMMA SumWithout ==
  ASSUME NEW f, NEW T, IsFiniteSet(T), \A x \in T : f[x] \in Int, NEW x \in T
  PROVE  SumFunctionOnSet(f, T) = f[x] + SumFunctionOnSet(f, T \ {x})
<1> DEFINE S(s) == SumFunctionOnSet(f, s)
           Good == {s \in SUBSET T : \A y \in s : S(s) = f[y] + S(s \ {y})}
<1>1. ASSUME NEW s \in SUBSET T, \A r \in SUBSET s : r # s => r \in Good PROVE s \in Good
  <2> SUFFICES ASSUME NEW y \in s PROVE S(s) = f[y] + S(s \ {y})
    OBVIOUS
  <2> DEFINE c == Chosen(s)
             u == s \ {c}
             v == s \ {y}
             w == u \ {y}
  <2>1. c \in s
    BY ChosenOK
  <2>2. \A r \in SUBSET s : IsFiniteSet(r) /\ S(r) \in Int
    BY FS_Subset, SumType
  <2>3. S(s) = f[c] + S(u)
    BY <2>2, SumChosen
  <2> HIDE DEF c
  <2>4. CASE y = c
    BY <2>3, <2>4
  <2>5. CASE y # c
    <3>1. u \in SUBSET s /\ u # s /\ y \in u /\ v \in SUBSET s /\ v # s /\ c \in v /\ w = v \ {c} /\ w \in SUBSET s
      BY <2>1, <2>5
    <3>2. S(u) = f[y] + S(u \ {y}) /\ S(v) = f[c] + S(v \ {c})
      BY <1>1, <3>1
    <3>3. f[c] \in Int /\ f[y] \in Int /\ S(w) \in Int
      BY <2>1, <2>2, <3>1
    <3> HIDE DEF u, v, w, S
    <3>4. S(u) = f[y] + S(w) /\ S(v) = f[c] + S(w)
      BY <3>1, <3>2 DEF w
    <3>5. S(s) = f[y] + S(v)
      BY <2>3, <3>3, <3>4
    <3> QED
      BY <3>5 DEF v
  <2> QED
    BY <2>4, <2>5
<1> HIDE DEF Good
<1>2. T \in Good
  BY <1>1, PartInduction
<1> QED
  BY <1>2 DEF Good

\* Of nothing, and of one element more.
LEMMA SumEmpty == ASSUME NEW f PROVE SumFunctionOnSet(f, {}) = 0
BY SumChosen, FS_EmptySet

\* With one more.
LEMMA SumWith ==
  ASSUME NEW f, NEW T, IsFiniteSet(T), NEW x, x \notin T, \A y \in T \cup {x} : f[y] \in Int
  PROVE  SumFunctionOnSet(f, T \cup {x}) = f[x] + SumFunctionOnSet(f, T)
<1>1. IsFiniteSet(T \cup {x}) /\ x \in T \cup {x} /\ (T \cup {x}) \ {x} = T
  BY FS_AddElement
<1> QED
  BY <1>1, SumWithout

\* Of two sets that have nothing in common.
LEMMA SumSplit ==
  ASSUME NEW f, NEW A, NEW B, IsFiniteSet(A), IsFiniteSet(B), A \cap B = {}, \A x \in A \cup B : f[x] \in Int
  PROVE  SumFunctionOnSet(f, A \cup B) = SumFunctionOnSet(f, A) + SumFunctionOnSet(f, B)
<1> DEFINE S(s) == SumFunctionOnSet(f, s)
           Good == {T \in SUBSET B : S(A \cup T) = S(A) + S(T)}
<1>0. S(A) \in Int
  BY SumType
<1>1. {} \in Good
  <2>1. S({}) = 0 /\ A \cup {} = A
    BY SumEmpty
  <2> HIDE DEF S
  <2> QED
    BY <1>0, <2>1
<1>2. ASSUME NEW T \in SUBSET B, NEW x \in B \ T, T \in Good PROVE T \cup {x} \in Good
  <2> DEFINE U == A \cup T
  <2>1. IsFiniteSet(T)
    BY FS_Subset
  <2>2. IsFiniteSet(U) /\ x \notin U /\ A \cup (T \cup {x}) = U \cup {x}
    BY <2>1, FS_Union
  <2>3. S(T) \in Int /\ f[x] \in Int
    BY <2>1, SumType
  <2>4. S(T \cup {x}) = f[x] + S(T)
    BY <2>1, SumWith
  <2>5. S(U \cup {x}) = f[x] + S(U)
    <3>1. \A y \in U \cup {x} : f[y] \in Int
      OBVIOUS
    <3> HIDE DEF U
    <3> QED
      BY <2>2, <3>1, SumWith
  <2>6. S(U) = S(A) + S(T)
    BY <1>2
  <2>7. S(A \cup (T \cup {x})) = S(U \cup {x})
    BY <2>2
  <2> HIDE DEF S, U
  <2>8. S(A \cup (T \cup {x})) = S(A) + S(T \cup {x})
    BY <1>0, <2>3, <2>4, <2>5, <2>6, <2>7
  <2> QED
    BY <2>8
<1> HIDE DEF Good
<1>3. B \in Good
  BY <1>1, <1>2, FiniteInduction
<1> QED
  BY <1>3 DEF Good

\* The sum of sums, and of multiples.
LEMMA SumBoth ==
  ASSUME NEW f, NEW g, NEW h, NEW T, IsFiniteSet(T),
         \A x \in T : f[x] \in Int /\ g[x] \in Int /\ h[x] = f[x] + g[x]
  PROVE  SumFunctionOnSet(h, T) = SumFunctionOnSet(f, T) + SumFunctionOnSet(g, T)
<1> DEFINE Good == {s \in SUBSET T : SumFunctionOnSet(h, s) = SumFunctionOnSet(f, s) + SumFunctionOnSet(g, s)}
<1>1. {} \in Good
  BY SumEmpty
<1>2. ASSUME NEW s \in SUBSET T, NEW x \in T \ s, s \in Good PROVE s \cup {x} \in Good
  <2>1. IsFiniteSet(s) /\ \A y \in s \cup {x} : f[y] \in Int /\ g[y] \in Int /\ h[y] \in Int
    BY FS_Subset
  <2>2. /\ SumFunctionOnSet(f, s \cup {x}) = f[x] + SumFunctionOnSet(f, s)
        /\ SumFunctionOnSet(g, s \cup {x}) = g[x] + SumFunctionOnSet(g, s)
        /\ SumFunctionOnSet(h, s \cup {x}) = h[x] + SumFunctionOnSet(h, s)
    BY <2>1, SumWith
  <2>3. SumFunctionOnSet(f, s) \in Int /\ SumFunctionOnSet(g, s) \in Int
    BY <2>1, SumType
  <2>4. f[x] \in Int /\ g[x] \in Int /\ h[x] = f[x] + g[x]
    OBVIOUS
  <2>5. SumFunctionOnSet(h, s) = SumFunctionOnSet(f, s) + SumFunctionOnSet(g, s)
    BY <1>2
  <2>6. SumFunctionOnSet(h, s \cup {x}) = SumFunctionOnSet(f, s \cup {x}) + SumFunctionOnSet(g, s \cup {x})
    BY ONLY <2>2, <2>3, <2>4, <2>5
  <2> QED
    BY <2>6
<1> HIDE DEF Good
<1>3. T \in Good
  BY <1>1, <1>2, FiniteInduction
<1> QED
  BY <1>3 DEF Good

\* A multiple of each is a multiple of the sum.
LEMMA SumTimes ==
  ASSUME NEW f, NEW h, NEW k \in Int, NEW T, IsFiniteSet(T), \A x \in T : f[x] \in Int /\ h[x] = f[x] * k
  PROVE  SumFunctionOnSet(h, T) = SumFunctionOnSet(f, T) * k
<1> DEFINE Good == {s \in SUBSET T : SumFunctionOnSet(h, s) = SumFunctionOnSet(f, s) * k}
<1>1. {} \in Good
  BY SumEmpty
<1>2. ASSUME NEW s \in SUBSET T, NEW x \in T \ s, s \in Good PROVE s \cup {x} \in Good
  <2>1. IsFiniteSet(s) /\ \A y \in s \cup {x} : f[y] \in Int /\ h[y] \in Int
    BY FS_Subset
  <2>2. /\ SumFunctionOnSet(f, s \cup {x}) = f[x] + SumFunctionOnSet(f, s)
        /\ SumFunctionOnSet(h, s \cup {x}) = h[x] + SumFunctionOnSet(h, s)
    BY <2>1, SumWith
  <2>3. SumFunctionOnSet(f, s) \in Int /\ f[x] \in Int /\ h[x] = f[x] * k
    BY <2>1, SumType
  <2>4. SumFunctionOnSet(h, s) = SumFunctionOnSet(f, s) * k
    BY <1>2
  <2>5. \A a, b \in Int : (a + b) * k = a * k + b * k
    OBVIOUS
  <2>6. SumFunctionOnSet(h, s \cup {x}) = SumFunctionOnSet(f, s \cup {x}) * k
    BY ONLY <2>2, <2>3, <2>4, <2>5
  <2> QED
    BY <2>6
<1> HIDE DEF Good
<1>3. T \in Good
  BY <1>1, <1>2, FiniteInduction
<1> QED
  BY <1>3 DEF Good

\* The sums over the parts of a set add up to the sum over it.
LEMMA SumByParts ==
  ASSUME NEW T, IsFiniteSet(T), NEW f, \A x \in T : f[x] \in Int,
         NEW L, IsFiniteSet(L), NEW P \in [L -> SUBSET T], \A x \in T : \E a \in L : x \in P[a],
         \A a, b \in L : a # b => P[a] \cap P[b] = {},
         NEW F, \A a \in L : F[a] = SumFunctionOnSet(f, P[a])
  PROVE  SumFunctionOnSet(F, L) = SumFunctionOnSet(f, T)
<1> DEFINE Of(M) == {x \in T : \E a \in M : x \in P[a]}
           Good == {M \in SUBSET L : SumFunctionOnSet(F, M) = SumFunctionOnSet(f, Of(M))}
<1>1. {} \in Good
  <2>1. Of({}) = {}
    OBVIOUS
  <2> QED
    BY <2>1, SumEmpty
<1>2. ASSUME NEW M \in SUBSET L, NEW a \in L \ M, M \in Good PROVE M \cup {a} \in Good
  <2> DEFINE A == Of(M)
             B == P[a]
  <2>1. IsFiniteSet(A) /\ IsFiniteSet(B)
    <3>1. A \subseteq T /\ B \subseteq T
      OBVIOUS
    <3> HIDE DEF A, B
    <3> QED
      BY <3>1, FS_Subset
  <2>2. A \cap B = {} /\ \A x \in A \cup B : f[x] \in Int
    OBVIOUS
  <2>3. SumFunctionOnSet(f, A \cup B) = SumFunctionOnSet(f, A) + SumFunctionOnSet(f, B)
    <3> HIDE DEF A, B
    <3> QED
      BY <2>1, <2>2, SumSplit
  <2>4. IsFiniteSet(M) /\ a \notin M
    BY FS_Subset
  <2>5. ASSUME NEW c \in M \cup {a} PROVE F[c] \in Int
    <3> DEFINE C == P[c]
    <3>1. C \subseteq T /\ F[c] = SumFunctionOnSet(f, C) /\ \A x \in C : f[x] \in Int
      OBVIOUS
    <3> HIDE DEF C
    <3>2. IsFiniteSet(C)
      BY <3>1, FS_Subset
    <3> QED
      BY <3>1, <3>2, SumType
  <2>6. SumFunctionOnSet(F, M \cup {a}) = F[a] + SumFunctionOnSet(F, M)
    BY <2>4, <2>5, SumWith
  <2>7. SumFunctionOnSet(F, M) \in Int /\ F[a] \in Int
    BY <2>4, <2>5, SumType
  <2>8. SumFunctionOnSet(F, M) = SumFunctionOnSet(f, A) /\ F[a] = SumFunctionOnSet(f, B)
    BY <1>2
  <2>9. SumFunctionOnSet(f, Of(M \cup {a})) = SumFunctionOnSet(f, A) + SumFunctionOnSet(f, B)
    <3>1. Of(M \cup {a}) = A \cup B
      OBVIOUS
    <3> HIDE DEF A, B, Of
    <3> QED
      BY <2>3, <3>1, Zenon
  <2> HIDE DEF A, B, Of
  <2>10. SumFunctionOnSet(F, M \cup {a}) = SumFunctionOnSet(f, Of(M \cup {a}))
    BY ONLY <2>6, <2>7, <2>8, <2>9
  <2> QED
    BY <2>10
<1> HIDE DEF Good
<1>3. L \in Good
  BY <1>1, <1>2, FiniteInduction
<1>4. Of(L) = T
  OBVIOUS
<1> HIDE DEF Of
<1> QED
  BY <1>3, <1>4 DEF Good

\* A sum may be taken in another order, or through other names.
LEMMA SumThrough ==
  ASSUME NEW I, IsFiniteSet(I), NEW N, NEW p \in Bijection(I, N), NEW f, NEW h,
         \A i \in I : h[i] = f[p[i]] /\ h[i] \in Int
  PROVE  IsFiniteSet(N) /\ SumFunctionOnSet(h, I) = SumFunctionOnSet(f, N)
<1>0. N = {p[i] : i \in I} /\ \A i, j \in I : p[i] = p[j] => i = j
  BY DEF Bijection, Injection, Surjection, IsInjective
<1> DEFINE Named(J) == {p[i] : i \in J}
           Good == {J \in SUBSET I : IsFiniteSet(Named(J)) /\ SumFunctionOnSet(h, J) = SumFunctionOnSet(f, Named(J))}
<1>1. {} \in Good
  <2>1. Named({}) = {}
    OBVIOUS
  <2> QED
    BY <2>1, SumEmpty, FS_EmptySet
<1>2. ASSUME NEW J \in SUBSET I, NEW i \in I \ J, J \in Good PROVE J \cup {i} \in Good
  <2> DEFINE K == Named(J)
  <2>1. IsFiniteSet(J) /\ IsFiniteSet(K) /\ SumFunctionOnSet(h, J) = SumFunctionOnSet(f, K)
    BY <1>2, FS_Subset
  <2>2. Named(J \cup {i}) = K \cup {p[i]} /\ p[i] \notin K /\ \A x \in K \cup {p[i]} : f[x] \in Int
    BY <1>0
  <2>3. \A j \in J \cup {i} : h[j] \in Int
    OBVIOUS
  <2>4. SumFunctionOnSet(h, J \cup {i}) = h[i] + SumFunctionOnSet(h, J)
    BY <2>1, <2>3, SumWith
  <2> HIDE DEF K
  <2>5. SumFunctionOnSet(f, K \cup {p[i]}) = f[p[i]] + SumFunctionOnSet(f, K) /\ IsFiniteSet(K \cup {p[i]})
    BY <2>1, <2>2, SumWith, FS_AddElement
  <2>6. IsFiniteSet(Named(J \cup {i})) /\ SumFunctionOnSet(h, J \cup {i}) = SumFunctionOnSet(f, Named(J \cup {i}))
    BY <2>1, <2>2, <2>4, <2>5
  <2> QED
    BY <2>6
<1> HIDE DEF Good
<1>3. I \in Good
  BY <1>1, <1>2, FiniteInduction
<1> QED
  BY <1>0, <1>3 DEF Good

\* The sum of a function is over its domain.
LEMMA SumIs == ASSUME NEW f PROVE SumFunction(f) = SumFunctionOnSet(f, DOMAIN f)
BY DEF SumFunction

\* What a list or a function makes of a finite set is finite, and as large if no two are
\* made one.
LEMMA ImageOK ==
  ASSUME NEW I, IsFiniteSet(I), NEW f
  PROVE  /\ IsFiniteSet({f[i] : i \in I})
         /\ Cardinality({f[i] : i \in I}) <= Cardinality(I)
         /\ (\A i, j \in I : f[i] = f[j] => i = j) => Cardinality({f[i] : i \in I}) = Cardinality(I)
<1> DEFINE T == {f[i] : i \in I}
           g == [i \in I |-> f[i]]
<1>1. g \in Surjection(I, T)
  BY DEF Surjection
<1>2. (\A i, j \in I : f[i] = f[j] => i = j) => g \in Injection(I, T)
  <2> HAVE \A i, j \in I : f[i] = f[j] => i = j
  <2>1. g \in [I -> T] /\ \A i, j \in I : g[i] = g[j] => i = j
    OBVIOUS
  <2> HIDE DEF g, T
  <2> QED
    BY <2>1 DEF Injection, IsInjective
<1> HIDE DEF g, T
<1>3. IsFiniteSet(T) /\ Cardinality(T) <= Cardinality(I) /\ (Cardinality(T) = Cardinality(I) <=> g \in Injection(I, T))
  BY <1>1, FS_Surjection
<1> QED
  BY <1>2, <1>3 DEF T
\* Two are finitely many.
LEMMA PairIsFinite == ASSUME NEW a, NEW b PROVE IsFiniteSet({a, b})
<1> DEFINE A == {a}
<1>1. IsFiniteSet(A)
  BY FS_Singleton
<1>2. IsFiniteSet(A \cup {b})
  BY <1>1, FS_AddElement
<1> QED
  BY <1>2

\* The smaller and the larger of two numbers.
LEMMA OfTwo ==
  ASSUME NEW a \in Int, NEW b \in Int
  PROVE  Min({a, b}) = (IF a <= b THEN a ELSE b) /\ Max({a, b}) = (IF a >= b THEN a ELSE b)
<1> DEFINE S == {a, b}
<1>1. IsFiniteSet(S)
  BY PairIsFinite
<1>2. S \subseteq Int /\ a \in S /\ b \in S /\ \A x \in S : x = a \/ x = b
  OBVIOUS
<1> HIDE DEF S
<1>3. Min(S) \in S /\ Min(S) <= a /\ Min(S) <= b /\ Max(S) \in S /\ a <= Max(S) /\ b <= Max(S)
  BY <1>1, <1>2, MinOK, MaxOK
<1>4. Min(S) = (IF a <= b THEN a ELSE b) /\ Max(S) = (IF a >= b THEN a ELSE b)
  <2> DEFINE m == Min(S)
             n == Max(S)
  <2>1. (m = a \/ m = b) /\ m <= a /\ m <= b /\ (n = a \/ n = b) /\ a <= n /\ b <= n
    BY <1>2, <1>3
  <2> HIDE DEF m, n
  <2>2. m = (IF a <= b THEN a ELSE b) /\ n = (IF a >= b THEN a ELSE b)
    BY <2>1
  <2> QED
    BY <2>2 DEF m, n
<1> QED
  BY <1>4 DEF S

\* Some of the numbers from one to another.
LEMMA SomeOf ==
  ASSUME NEW a \in Int, NEW b \in Int, NEW S, S \subseteq a..b
  PROVE  IsFiniteSet(S) /\ S \subseteq Int /\ Cardinality(S) \in Nat
<1> DEFINE T == a..b
<1>1. IsFiniteSet(T) /\ T \subseteq Int
  BY FS_Interval
<1> HIDE DEF T
<1>2. IsFiniteSet(S)
  BY <1>1, FS_Subset DEF T
<1> QED
  BY <1>2, FS_CardinalityType

\* Some of the indices of a list are finitely many.
LEMMA SomeIndices ==
  ASSUME NEW n, n \in Nat, NEW S, S \subseteq 1..n
  PROVE  IsFiniteSet(S) /\ S \subseteq Int /\ Cardinality(S) \in Nat
<1> DEFINE T == 1..n
<1>1. IsFiniteSet(T) /\ T \subseteq Int
  BY FS_Interval
<1> HIDE DEF T
<1>2. IsFiniteSet(S)
  BY <1>1, FS_Subset DEF T
<1> QED
  BY <1>1, <1>2, FS_CardinalityType DEF T

\* A function on the numbers up to n is a list.
LEMMA ListOf ==
  ASSUME NEW n \in Int, NEW f, f = [k \in 1..n |-> f[k]]
  PROVE  /\ n < 1 <=> f = <<>>
         /\ n >= 1 => Len(f) = n
         /\ DOMAIN f = 1..n
OBVIOUS

\* A sum of ones counts.
LEMMA SumOnes ==
  ASSUME NEW f, NEW T, IsFiniteSet(T), \A x \in T : f[x] = 1
  PROVE  SumFunctionOnSet(f, T) = Cardinality(T)
<1> DEFINE Good == {s \in SUBSET T : SumFunctionOnSet(f, s) = Cardinality(s)}
<1>1. {} \in Good
  BY SumEmpty, FS_EmptySet
<1>2. ASSUME NEW s \in SUBSET T, NEW x \in T \ s, s \in Good PROVE s \cup {x} \in Good
  <2>1. IsFiniteSet(s) /\ (\A y \in s \cup {x} : f[y] \in Int) /\ x \notin s /\ f[x] = 1
    BY FS_Subset
  <2>2. SumFunctionOnSet(f, s \cup {x}) = f[x] + SumFunctionOnSet(f, s)
    BY <2>1, SumWith
  <2>3. Cardinality(s \cup {x}) = Cardinality(s) + 1 /\ Cardinality(s) \in Nat
    BY <2>1, FS_AddElement, FS_CardinalityType
  <2>4. SumFunctionOnSet(f, s) = Cardinality(s)
    BY <1>2
  <2>5. SumFunctionOnSet(f, s \cup {x}) = Cardinality(s \cup {x})
    BY ONLY <2>1, <2>2, <2>3, <2>4
  <2> QED
    BY <2>5
<1> HIDE DEF Good
<1>3. T \in Good
  BY <1>1, <1>2, FiniteInduction
<1> QED
  BY <1>3 DEF Good

-----------------------------------------------------------------------------
(* The session.                                                               *)

\* A refresh that outlives a clean sign-out was sent without a token.
RefreshIsOut == out = "clean" => refreshing \in {"idle", "none"}

SessionInv == SessionTypeOK /\ SessionSafe /\ RefreshIsOut

\* A tab that starts keeps to everything.
LEMMA SessionInitOK == SessionInit => SessionInv
<1> SUFFICES ASSUME SessionInit PROVE SessionInv
  OBVIOUS
<1>1. SessionTypeOK
  BY CallsAssumption DEF SessionInit, SessionTypeOK, Token, Fetcher, Page, Guarded, Asker, Idle
<1>2. SessionSafe /\ RefreshIsOut
  BY DEF SessionInit, SessionSafe, NobodyWaitsForNothing, FlagIsOfTheRedirect, SignedOutIsOut,
         Waiting, Idle, RefreshIsOut
<1> QED
  BY <1>1, <1>2 DEF SessionInv

\* A page that is loaded starts with nothing but its own requests.
LEMMA LoadedOK ==
  ASSUME NEW page \in Page, NEW with \in Token, Loaded(page, with)
  PROVE  /\ tab' \in [page: Page, user: BOOLEAN, loading: BOOLEAN, redirecting: BOOLEAN,
                      to: Page \cup {"nowhere", "google"}]
         /\ asked' \in [Fetcher -> [at: {"idle", "first", "refresh", "second"}, with: Token]]
         /\ refreshing' = "idle" /\ leaving' = "no"
         /\ identity' \in [Asker -> Token \cup {"idle"}]
         /\ Waiting' = {} /\ identity'["provider"] = with
  BY DEF Loaded, Idle, Token, Asker, Fetcher, Waiting

\* Whoever waited for the refresh goes on; nobody waits any more.
LEMMA ResumeOK ==
  ASSUME SessionTypeOK, NEW at \in {"idle", "second"}, NEW with \in Token, Resume(at, with)
  PROVE  /\ asked' \in [Fetcher -> [at: {"idle", "first", "refresh", "second"}, with: Token]]
         /\ Waiting' = {}
<1>1. asked' \in [Fetcher -> [at: {"idle", "first", "refresh", "second"}, with: Token]]
  BY DEF SessionTypeOK, Resume
<1>2. \A f \in Fetcher : asked'[f].at # "refresh"
  BY DEF Resume, Waiting, SessionTypeOK
<1> QED
  BY <1>1, <1>2 DEF Waiting

\* The redirect sets the flag before it logs out.
LEMMA RedirectOK ==
  ASSUME SessionTypeOK, FlagIsOfTheRedirect, Redirect
  PROVE  /\ tab' \in [page: Page, user: BOOLEAN, loading: BOOLEAN, redirecting: BOOLEAN,
                      to: Page \cup {"nowhere", "google"}]
         /\ leaving' \in {"no", "signOut", "fired"}
         /\ tab'.loading = tab.loading
         /\ FlagIsOfTheRedirect'
  BY DEF SessionTypeOK, Redirect, Redirected, FlagIsOfTheRedirect, Page, Guarded

\* Types.
LEMMA SessionTypeStep == SessionInv /\ SessionNext => SessionTypeOK'
<1> SUFFICES ASSUME SessionInv, SessionNext PROVE SessionTypeOK'
  OBVIOUS
<1> USE DEF SessionInv, SessionTypeOK
<1>1. ASSUME NEW a \in Asker, NEW answer \in {"ok", "401", "failed"}, FetchMe(a, answer) PROVE SessionTypeOK'
  <2> DEFINE u == IF answer = "failed" THEN tab.user ELSE answer = "ok"
             l == tab.loading /\ a # "provider"
             p == IF a = "callback" /\ tab.page = "callback" THEN "home" ELSE tab.page
  <2>1. u \in BOOLEAN /\ l \in BOOLEAN /\ p \in Page
    BY DEF Page
  <2>2. tab' = [tab EXCEPT !.user = u, !.loading = l, !.page = p]
    BY <1>1, Zenon DEF FetchMe
  <2> HIDE DEF u, l, p
  <2> QED
    BY <1>1, <2>1, <2>2 DEF FetchMe
<1>2. ASSUME NEW f \in Fetcher, FirstAnswer(f) PROVE SessionTypeOK'
  BY <1>2 DEF FirstAnswer, RefreshToken, Idle, Token
<1>3. ASSUME NEW f \in Fetcher, SecondAnswer(f) PROVE SessionTypeOK'
  <2>1. asked' \in [Fetcher -> [at: {"idle", "first", "refresh", "second"}, with: Token]]
    BY <1>3 DEF SecondAnswer, Idle, Token
  <2> QED
    BY <1>3, <2>1, RedirectOK DEF SecondAnswer, SessionSafe
<1>4. CASE RefreshAnswered
  BY <1>4, ResumeOK DEF RefreshAnswered, Token
<1>5. CASE RefreshRefused
  BY <1>5, ResumeOK, RedirectOK DEF RefreshRefused, Token, SessionSafe
<1>6. CASE RefreshFailed
  BY <1>6, ResumeOK DEF RefreshFailed, Token
<1>7. ASSUME NEW failed \in BOOLEAN, LoggedOut(failed) PROVE SessionTypeOK'
  BY <1>7 DEF LoggedOut, Token, Page
<1>8. CASE LoadPage
  BY <1>8, LoadedOK DEF LoadPage
<1>9. CASE Guard \/ LoginPage \/ \E page \in Page : Visit(page)
  BY <1>9 DEF Guard, LoginPage, Visit, Page
<1>10. ASSUME NEW f \in Fetcher, Ask(f) PROVE SessionTypeOK'
  BY <1>10, CallsAssumption DEF Ask
<1>11. CASE SignOut
  BY <1>11 DEF SignOut
<1>12. CASE ReloadPage
  BY <1>12, LoadedOK DEF ReloadPage
<1>13. CASE GoogleLogin
  BY <1>13 DEF GoogleLogin
<1>14. ASSUME NEW accepted \in BOOLEAN, GoogleCallback(accepted) PROVE SessionTypeOK'
  <2>1. cookie' \in Token /\ (IF accepted THEN "callback" ELSE "login") \in Page
    BY <1>14 DEF GoogleCallback, Token, Page
  <2> QED
    BY <1>14, <2>1, LoadedOK DEF GoogleCallback
<1>15. CASE TokenAges \/ Deactivate
  BY <1>15 DEF TokenAges, Deactivate, Token
<1> QED
  BY <1>1, <1>2, <1>3, <1>4, <1>5, <1>6, <1>7, <1>8, <1>9, <1>10, <1>11, <1>12, <1>13, <1>14, <1>15
     DEF SessionNext, Answers

\* Who waits, waits for something.
LEMMA WaitingStep == SessionInv /\ SessionNext => NobodyWaitsForNothing'
<1> SUFFICES ASSUME SessionInv, SessionNext PROVE NobodyWaitsForNothing'
  OBVIOUS
<1> USE DEF SessionInv, SessionTypeOK, SessionSafe, NobodyWaitsForNothing
<1>1. ASSUME NEW a \in Asker, NEW answer \in {"ok", "401", "failed"}, FetchMe(a, answer)
      PROVE  NobodyWaitsForNothing'
  BY <1>1 DEF FetchMe, Waiting, Asker
<1>2. ASSUME NEW f \in Fetcher, FirstAnswer(f) PROVE NobodyWaitsForNothing'
  <2>1. CASE asked' = [asked EXCEPT ![f] = Idle] /\ UNCHANGED refreshing
    <3>1. Waiting' \subseteq Waiting
      BY <1>2, <2>1 DEF Waiting, Idle
    <3> QED
      BY <1>2, <2>1, <3>1 DEF FirstAnswer
  <2>2. CASE RefreshToken(f)
    BY <1>2, <2>2 DEF FirstAnswer, RefreshToken, Token
  <2> QED
    BY <1>2, <2>1, <2>2 DEF FirstAnswer
<1>3. ASSUME NEW f \in Fetcher, SecondAnswer(f) PROVE NobodyWaitsForNothing'
  <2>1. Waiting' \subseteq Waiting
    BY <1>3 DEF SecondAnswer, Waiting, Idle
  <2>2. tab'.loading = tab.loading
    BY <1>3, RedirectOK DEF SecondAnswer
  <2> QED
    BY <1>3, <2>1, <2>2 DEF SecondAnswer
<1>4. CASE RefreshAnswered \/ RefreshFailed
  BY <1>4, ResumeOK DEF RefreshAnswered, RefreshFailed, Token
<1>5. CASE RefreshRefused
  BY <1>5, ResumeOK, RedirectOK DEF RefreshRefused, Token
<1>6. ASSUME NEW failed \in BOOLEAN, LoggedOut(failed) PROVE NobodyWaitsForNothing'
  BY <1>6 DEF LoggedOut, Waiting
<1>7. CASE LoadPage \/ ReloadPage
  BY <1>7, LoadedOK DEF LoadPage, ReloadPage, Token
<1>8. CASE Guard \/ LoginPage \/ GoogleLogin \/ SignOut \/ TokenAges \/ Deactivate \/ \E page \in Page : Visit(page)
  BY <1>8 DEF Guard, LoginPage, GoogleLogin, SignOut, TokenAges, Deactivate, Visit, Waiting
<1>9. ASSUME NEW f \in Fetcher, Ask(f) PROVE NobodyWaitsForNothing'
  <2>1. Waiting' = Waiting
    BY <1>9 DEF Ask, Waiting, Idle
  <2> QED
    BY <1>9, <2>1 DEF Ask
<1>10. ASSUME NEW accepted \in BOOLEAN, GoogleCallback(accepted) PROVE NobodyWaitsForNothing'
  <2>1. cookie' \in Token /\ (IF accepted THEN "callback" ELSE "login") \in Page
    BY <1>10 DEF GoogleCallback, Token, Page
  <2> QED
    BY <1>10, <2>1, LoadedOK DEF GoogleCallback, Token
<1> QED
  BY <1>1, <1>2, <1>3, <1>4, <1>5, <1>6, <1>7, <1>8, <1>9, <1>10 DEF SessionNext, Answers

\* The flag goes with the logout that nobody waits for.
LEMMA FlagStep == SessionInv /\ SessionNext => FlagIsOfTheRedirect'
<1> SUFFICES ASSUME SessionInv, SessionNext PROVE FlagIsOfTheRedirect'
  OBVIOUS
<1> USE DEF SessionInv, SessionTypeOK, SessionSafe
<1>1. CASE \E f \in Fetcher : SecondAnswer(f)
  BY <1>1, RedirectOK DEF SecondAnswer, FlagIsOfTheRedirect
<1>2. CASE RefreshRefused
  BY <1>2, RedirectOK DEF RefreshRefused
<1>3. CASE LoadPage \/ ReloadPage \/ \E accepted \in BOOLEAN : GoogleCallback(accepted)
  BY <1>3 DEF LoadPage, ReloadPage, GoogleCallback, Loaded, FlagIsOfTheRedirect
<1>4. ASSUME UNCHANGED leaving \/ leaving' # "fired",
             leaving = "fired" => tab'.redirecting = tab.redirecting /\ (tab'.to = tab.to \/ tab'.to # "nowhere")
      PROVE  FlagIsOfTheRedirect'
  BY <1>4 DEF FlagIsOfTheRedirect
<1>5. CASE \E a \in Asker, answer \in {"ok", "401", "failed"} : FetchMe(a, answer)
  BY <1>4, <1>5 DEF FetchMe
<1>6. CASE \E f \in Fetcher : FirstAnswer(f) \/ Ask(f)
  BY <1>4, <1>6 DEF FirstAnswer, Ask
<1>7. CASE RefreshAnswered \/ RefreshFailed \/ TokenAges \/ Deactivate \/ SignOut
  BY <1>4, <1>7 DEF RefreshAnswered, RefreshFailed, TokenAges, Deactivate, SignOut
<1>8. CASE \E failed \in BOOLEAN : LoggedOut(failed)
  BY <1>8 DEF LoggedOut, FlagIsOfTheRedirect
<1>9. CASE Guard \/ LoginPage \/ GoogleLogin \/ \E page \in Page : Visit(page)
  BY <1>4, <1>9 DEF Guard, LoginPage, GoogleLogin, Visit
<1> QED
  BY <1>1, <1>2, <1>3, <1>5, <1>6, <1>7, <1>8, <1>9 DEF SessionNext, Answers

\* Who signed out cleanly has no token, and no refresh brings one.
LEMMA OutStep == SessionInv /\ SessionNext => SignedOutIsOut' /\ RefreshIsOut'
<1> SUFFICES ASSUME SessionInv, SessionNext PROVE SignedOutIsOut' /\ RefreshIsOut'
  OBVIOUS
<1> USE DEF SessionInv, SessionTypeOK, SessionSafe, SignedOutIsOut, RefreshIsOut
<1>1. CASE \E f \in Fetcher : FirstAnswer(f)
  BY <1>1 DEF FirstAnswer, RefreshToken
<1>2. CASE RefreshAnswered
  BY <1>2 DEF RefreshAnswered, Renewable
<1>3. CASE RefreshRefused \/ RefreshFailed
  BY <1>3 DEF RefreshRefused, RefreshFailed
<1>4. CASE \E failed \in BOOLEAN : LoggedOut(failed)
  BY <1>4 DEF LoggedOut, Raced
<1>5. CASE LoadPage \/ ReloadPage \/ \E accepted \in BOOLEAN : GoogleCallback(accepted)
  BY <1>5 DEF LoadPage, ReloadPage, GoogleCallback, Loaded
<1>6. CASE TokenAges
  BY <1>6 DEF TokenAges
<1>7. CASE UNCHANGED <<out, cookie, refreshing>>
  BY <1>7
<1>8. CASE \E a \in Asker, answer \in {"ok", "401", "failed"} : FetchMe(a, answer)
  BY <1>7, <1>8 DEF FetchMe
<1>9. CASE \E f \in Fetcher : SecondAnswer(f) \/ Ask(f)
  BY <1>7, <1>9 DEF SecondAnswer, Ask
<1>10. CASE Guard \/ LoginPage \/ GoogleLogin \/ SignOut \/ Deactivate \/ \E page \in Page : Visit(page)
  BY <1>7, <1>10 DEF Guard, LoginPage, GoogleLogin, SignOut, Deactivate, Visit
<1> QED
  BY <1>1, <1>2, <1>3, <1>4, <1>5, <1>6, <1>8, <1>9, <1>10 DEF SessionNext, Answers

\* Every state and every step of the session keeps the invariant.
LEMMA SessionStep == SessionInv /\ [SessionNext]_sessionVars => SessionInv'
<1>1. SessionInv /\ SessionNext => SessionInv'
  BY SessionTypeStep, WaitingStep, FlagStep, OutStep DEF SessionInv, SessionSafe
<1>2. SessionInv /\ UNCHANGED sessionVars => SessionInv'
  BY DEF SessionInv, sessionVars, SessionTypeOK, SessionSafe, NobodyWaitsForNothing, Waiting,
         FlagIsOfTheRedirect, SignedOutIsOut, RefreshIsOut
<1> QED
  BY <1>1, <1>2

\* The session's invariant holds throughout.
LEMMA SessionInductive == SessionSpec => []SessionInv
BY SessionInitOK, SessionStep, PTL DEF SessionSpec

\* Requests that share a refresh are answered by one that was sent, the redirect
\* happens once, and a sign-out that was answered with no refresh in flight is
\* final until Google brings the person back (refreshToken, redirectToLogin,
\* signOut).
THEOREM SessionIsSafe == SessionSpec => []SessionSafe
<1>1. SessionInv => SessionSafe
  BY DEF SessionInv
<1> QED
  BY <1>1, SessionInductive, PTL

-----------------------------------------------------------------------------
(* The way into the console, for any lock-out.                                *)

\* Two attempts are due for a code sent once, one for a code sent again.
SentOnce == {c \in codes : ~c.again}
AttemptsDue == Cardinality(codes) + Cardinality(SentOnce)
\* A code that is past the lock-out may still be counted.
Passed == {c \in codes : c.step = "passed"}

\* At most two codes are in flight, each counted as submitted.
CodesCounted == IsFiniteSet(codes) /\ Cardinality(codes) <= 2 /\ past.typed <= past.sent
           /\ (codes # {} => past.sent > 0)
AttemptsEarned == mfa.attempts + AttemptsDue <= 2 * past.typed
AttemptsLimited == mfa.attempts + Cardinality(Passed) <= maxAttempts + 1

\* What each view goes by.
GateViews ==
    /\ mfa.session => mfa.row = "enabled"
    /\ gate.view = "authenticated" => mfa.row = "enabled"
    /\ gate.view = "authenticated" /\ codes # {} => gate.token /\ mfa.session
    /\ codes # {} => gate.view \in {"scan", "challenge", "authenticated", "away"} /\ gate.me = "admin"
    /\ gate.view = "setup" => \/ mfa.row = "none" \/ (mfa.row = "pending" /\ past.abandoned)
                              \/ (mfa.row = "enabled" /\ past.misread)
    /\ mfa.row = "pending" => past.abandoned \/ (gate.view \in {"scan", "away"} /\ gate.me = "admin")
    /\ gate.view \in {"scan", "challenge", "authenticated", "away"} => gate.asks = "nothing"
    /\ gate.asks = "start" => gate.view = "setup"
    /\ gate.me # "admin" => gate.view = "loading" /\ gate.asks = "nothing"

GateInv == GateTypeOK /\ CodesCounted /\ AttemptsEarned /\ AttemptsLimited /\ GateViews /\ OpenGateIsHonoured

\* The gate starts closed.
LEMMA GateInitOK == GateInit => GateInv
<1> SUFFICES ASSUME GateInit PROVE GateInv
  OBVIOUS
<1>1. GateTypeOK
  BY GateAssumption DEF GateInit, GateTypeOK, GateView, InFlight, MostAttempts
<1>2. /\ Cardinality(codes) = 0 /\ Cardinality(SentOnce) = 0 /\ Cardinality(Passed) = 0
      /\ IsFiniteSet(codes)
  <2>1. codes = {} /\ SentOnce = {} /\ Passed = {}
    BY DEF GateInit, SentOnce, Passed
  <2> QED
    BY <2>1, FS_EmptySet
<1>3. CodesCounted /\ AttemptsEarned /\ AttemptsLimited
  BY <1>2, GateAssumption DEF GateInit, CodesCounted, AttemptsEarned, AttemptsDue, AttemptsLimited
<1>4. GateViews /\ OpenGateIsHonoured
  BY DEF GateInit, GateViews, OpenGateIsHonoured, ShowsConsole, ShowsGate
<1> QED
  BY <1>1, <1>3, <1>4 DEF GateInv

\* The codes still to be answered, and what is due for them.
LEMMA SentOnceFinite ==
  ASSUME IsFiniteSet(codes)
  PROVE  /\ IsFiniteSet(SentOnce) /\ Cardinality(SentOnce) \in Nat /\ Cardinality(codes) \in Nat
         /\ Cardinality(SentOnce) <= Cardinality(codes)
         /\ codes # {} => Cardinality(codes) > 0
BY FS_Subset, FS_CardinalityType, FS_EmptySet DEF SentOnce

\* A code that is answered for good takes its attempts with it.
LEMMA AnsweredForGood ==
  ASSUME IsFiniteSet(codes), NEW c \in codes, codes' = codes \ {c}
  PROVE  /\ IsFiniteSet(codes') /\ Cardinality(codes') = Cardinality(codes) - 1
         /\ Cardinality(SentOnce') \in Nat /\ Cardinality(SentOnce') <= Cardinality(codes')
         /\ Cardinality(SentOnce') <= Cardinality(SentOnce)
<1>1. IsFiniteSet(codes') /\ Cardinality(codes') = Cardinality(codes) - 1
  BY FS_RemoveElement
<1>2. SentOnce' \subseteq codes' /\ SentOnce' \subseteq SentOnce
  BY DEF SentOnce
<1> QED
  BY <1>1, <1>2, FS_Subset, FS_CardinalityType, SentOnceFinite

\* A code that is sent again is due one attempt less.
LEMMA SentAgain ==
  ASSUME IsFiniteSet(codes), NEW c \in codes, ~c.again, NEW d, d.again,
         codes' = (codes \ {c}) \cup {d}
  PROVE  /\ IsFiniteSet(codes') /\ Cardinality(codes') <= Cardinality(codes)
         /\ Cardinality(codes') \in Nat /\ Cardinality(SentOnce') \in Nat
         /\ Cardinality(SentOnce') = Cardinality(SentOnce) - 1
<1>1. IsFiniteSet(codes \ {c}) /\ Cardinality(codes \ {c}) = Cardinality(codes) - 1
  BY FS_RemoveElement
<1>2. /\ IsFiniteSet((codes \ {c}) \cup {d})
      /\ Cardinality((codes \ {c}) \cup {d}) \in {Cardinality(codes \ {c}), Cardinality(codes \ {c}) + 1}
  BY <1>1, FS_AddElement
<1>4. IsFiniteSet(codes') /\ Cardinality(codes') <= Cardinality(codes) /\ Cardinality(codes') \in Nat
  BY <1>1, <1>2, FS_CardinalityType, SentOnceFinite
<1>3. c \in SentOnce /\ SentOnce' = SentOnce \ {c}
  BY DEF SentOnce
<1> QED
  BY <1>3, <1>4, SentOnceFinite, FS_RemoveElement, FS_CardinalityType

\* A code that is typed is due two.
LEMMA Typed ==
  ASSUME IsFiniteSet(codes), NEW c, codes' = codes \cup {c}
  PROVE  /\ IsFiniteSet(codes') /\ Cardinality(codes') <= Cardinality(codes) + 1
         /\ Cardinality(codes') \in Nat /\ Cardinality(SentOnce') \in Nat
         /\ Cardinality(SentOnce') <= Cardinality(SentOnce) + 1
<1>0. /\ IsFiniteSet(codes \cup {c})
      /\ Cardinality(codes \cup {c}) \in {Cardinality(codes), Cardinality(codes) + 1}
  BY FS_AddElement
<1>1. IsFiniteSet(codes') /\ Cardinality(codes') <= Cardinality(codes) + 1 /\ Cardinality(codes') \in Nat
  BY <1>0, FS_CardinalityType, SentOnceFinite
<1>2. SentOnce' \subseteq SentOnce \cup {c}
  BY DEF SentOnce
<1>3. IsFiniteSet(SentOnce \cup {c}) /\ Cardinality(SentOnce \cup {c}) <= Cardinality(SentOnce) + 1
  <2>1. IsFiniteSet(SentOnce) /\ Cardinality(SentOnce) \in Nat
    BY SentOnceFinite
  <2>2. /\ IsFiniteSet(SentOnce \cup {c})
        /\ Cardinality(SentOnce \cup {c}) \in {Cardinality(SentOnce), Cardinality(SentOnce) + 1}
    BY <2>1, FS_AddElement
  <2> QED
    BY <2>1, <2>2
<1>4. IsFiniteSet(SentOnce') /\ Cardinality(SentOnce') <= Cardinality(SentOnce \cup {c})
  BY <1>2, <1>3, FS_Subset
<1>5. Cardinality(SentOnce') \in Nat /\ Cardinality(SentOnce \cup {c}) \in Nat /\ Cardinality(SentOnce) \in Nat
  BY <1>3, <1>4, FS_CardinalityType, SentOnceFinite
<1> QED
  BY <1>1, <1>3, <1>4, <1>5

\* Nothing is in flight.
LEMMA NothingDue ==
  ASSUME codes' = {}
  PROVE  IsFiniteSet(codes') /\ Cardinality(codes') = 0 /\ Cardinality(SentOnce') = 0
<1>1. SentOnce' = {}
  BY DEF SentOnce
<1> QED
  BY <1>1, FS_EmptySet

\* A code that goes on to its next step is due what it was.
LEMMA GoesOn ==
  ASSUME IsFiniteSet(codes), NEW c \in codes, NEW d, d.again = c.again,
         codes' = (codes \ {c}) \cup {d}
  PROVE  /\ IsFiniteSet(codes') /\ Cardinality(codes') <= Cardinality(codes)
         /\ Cardinality(codes') \in Nat /\ Cardinality(SentOnce') \in Nat
         /\ Cardinality(SentOnce') <= Cardinality(SentOnce)
<1>1. IsFiniteSet(codes \ {c}) /\ Cardinality(codes \ {c}) = Cardinality(codes) - 1
  BY FS_RemoveElement
<1>2. /\ IsFiniteSet((codes \ {c}) \cup {d})
      /\ Cardinality((codes \ {c}) \cup {d}) \in {Cardinality(codes \ {c}), Cardinality(codes \ {c}) + 1}
  BY <1>1, FS_AddElement
<1>3. IsFiniteSet(codes') /\ Cardinality(codes') <= Cardinality(codes) /\ Cardinality(codes') \in Nat
  BY <1>1, <1>2, FS_CardinalityType, SentOnceFinite
<1>4. CASE c.again
  <2>1. SentOnce' \subseteq SentOnce
    BY <1>4 DEF SentOnce
  <2> QED
    BY <1>3, <2>1, SentOnceFinite, FS_Subset, FS_CardinalityType
<1>5. CASE ~c.again
  <2>1. c \in SentOnce /\ SentOnce' \subseteq (SentOnce \ {c}) \cup {d}
    BY <1>5 DEF SentOnce
  <2>2. /\ IsFiniteSet(SentOnce \ {c}) /\ Cardinality(SentOnce \ {c}) = Cardinality(SentOnce) - 1
        /\ Cardinality(SentOnce) \in Nat
    BY <2>1, SentOnceFinite, FS_RemoveElement
  <2>3. /\ IsFiniteSet((SentOnce \ {c}) \cup {d})
        /\ Cardinality((SentOnce \ {c}) \cup {d})
             \in {Cardinality(SentOnce \ {c}), Cardinality(SentOnce \ {c}) + 1}
    BY <2>2, FS_AddElement
  <2>4. /\ Cardinality(SentOnce') <= Cardinality((SentOnce \ {c}) \cup {d})
        /\ IsFiniteSet(SentOnce')
    BY <2>1, <2>3, FS_Subset
  <2>5. Cardinality(SentOnce') \in Nat /\ Cardinality((SentOnce \ {c}) \cup {d}) \in Nat
    BY <2>3, <2>4, FS_CardinalityType
  <2> QED
    BY <1>3, <2>2, <2>3, <2>4, <2>5
<1> QED
  BY <1>4, <1>5

\* MarkCodeUsed and ClearAttempts touch nothing but the two they name.
LEMMA RedeemedOK ==
  GateInv => \A marked, cleared \in BOOLEAN :
    /\ Redeemed(marked, cleared) \in [row: {"none", "pending", "enabled"},
          attempts: 0 .. MostAttempts, session: BOOLEAN, used: BOOLEAN]
    /\ Redeemed(marked, cleared).row = mfa.row /\ Redeemed(marked, cleared).session = mfa.session
    /\ Redeemed(marked, cleared).attempts = IF cleared THEN 0 ELSE mfa.attempts
<1> SUFFICES ASSUME GateInv, NEW marked \in BOOLEAN, NEW cleared \in BOOLEAN
             PROVE  /\ Redeemed(marked, cleared) \in [row: {"none", "pending", "enabled"},
                          attempts: 0 .. MostAttempts, session: BOOLEAN, used: BOOLEAN]
                    /\ Redeemed(marked, cleared).row = mfa.row
                    /\ Redeemed(marked, cleared).session = mfa.session
                    /\ Redeemed(marked, cleared).attempts = IF cleared THEN 0 ELSE mfa.attempts
  OBVIOUS
<1>1. /\ mfa \in [row: {"none", "pending", "enabled"}, attempts: 0 .. MostAttempts,
                  session: BOOLEAN, used: BOOLEAN]
      /\ MostAttempts \in Nat
  BY GateAssumption DEF GateInv, GateTypeOK, MostAttempts, InFlight
<1> DEFINE u == mfa.used \/ marked
           n == IF cleared THEN 0 ELSE mfa.attempts
<1>2. u \in BOOLEAN /\ n \in 0 .. MostAttempts
  BY <1>1
<1>3. Redeemed(marked, cleared) = [mfa EXCEPT !.used = u, !.attempts = n]
  BY DEF Redeemed
<1>4. n = IF cleared THEN 0 ELSE mfa.attempts
  OBVIOUS
<1> HIDE DEF u, n
<1> QED
  BY <1>1, <1>2, <1>3, <1>4

\* What a forgiving answer leaves of the past: the codes still in flight.
LEMMA ForgivenOK ==
  GateInv => \A cleared \in BOOLEAN :
    /\ codes # {} => Forgiven(cleared) \in [typed: 0 .. MaxTyped, sent: 0 .. MaxTyped, lapsed: BOOLEAN,
                                            abandoned: BOOLEAN, misread: BOOLEAN]
    /\ Forgiven(cleared) = [past EXCEPT !.typed = IF cleared THEN Cardinality(codes) - 1 ELSE past.typed]
    /\ Forgiven(cleared).abandoned = past.abandoned /\ Forgiven(cleared).misread = past.misread
    /\ Forgiven(cleared).lapsed = past.lapsed /\ Forgiven(cleared).sent = past.sent
    /\ Forgiven(cleared).typed = IF cleared THEN Cardinality(codes) - 1 ELSE past.typed
<1> SUFFICES ASSUME GateInv, NEW cleared \in BOOLEAN
             PROVE
    /\ codes # {} => Forgiven(cleared) \in [typed: 0 .. MaxTyped, sent: 0 .. MaxTyped, lapsed: BOOLEAN,
                                            abandoned: BOOLEAN, misread: BOOLEAN]
    /\ Forgiven(cleared) = [past EXCEPT !.typed = IF cleared THEN Cardinality(codes) - 1 ELSE past.typed]
    /\ Forgiven(cleared).abandoned = past.abandoned /\ Forgiven(cleared).misread = past.misread
    /\ Forgiven(cleared).lapsed = past.lapsed /\ Forgiven(cleared).sent = past.sent
    /\ Forgiven(cleared).typed = IF cleared THEN Cardinality(codes) - 1 ELSE past.typed
  OBVIOUS
<1>1. /\ past \in [typed: 0 .. MaxTyped, sent: 0 .. MaxTyped, lapsed: BOOLEAN,
                   abandoned: BOOLEAN, misread: BOOLEAN]
      /\ MaxTyped \in Nat /\ IsFiniteSet(codes) /\ Cardinality(codes) <= 2
      /\ past.typed <= past.sent /\ (codes # {} => past.sent > 0)
  BY GateAssumption DEF GateInv, GateTypeOK, CodesCounted
<1> DEFINE t == IF cleared THEN Cardinality(codes) - 1 ELSE past.typed
<1>2. codes # {} => t \in 0 .. MaxTyped
  <2>1. codes # {} => Cardinality(codes) \in {1, 2}
    BY <1>1, SentOnceFinite
  <2>2. CASE ~cleared
    BY <1>1, <2>2
  <2>3. CASE cleared /\ Cardinality(codes) = 1
    BY <1>1, <2>3
  <2>4. CASE cleared /\ Cardinality(codes) = 2
    BY <1>1, <2>4, GateAssumption
  <2> QED
    BY <2>1, <2>2, <2>3, <2>4
<1>3. Forgiven(cleared) = [past EXCEPT !.typed = t] /\ t = IF cleared THEN Cardinality(codes) - 1 ELSE past.typed
  BY DEF Forgiven
<1> HIDE DEF t
<1> QED
  BY <1>1, <1>2, <1>3

\* A code taken goes, with the attempts or without them.
LEMMA TakenCounts ==
  ASSUME GateInv, NEW c \in codes, NEW marked \in BOOLEAN, NEW cleared \in BOOLEAN,
         \/ Accepted(c, marked, cleared)
         \/ \E done \in {"nothing", "row", "session"} : HalfDone(c, marked, cleared, done)
  PROVE  /\ codes' = codes \ {c} /\ past'.sent = past.sent
         /\ \/ past'.typed = Cardinality(codes) - 1 /\ mfa'.attempts = 0
            \/ past'.typed = past.typed /\ mfa'.attempts = mfa.attempts
<1> DEFINE M == Redeemed(marked, cleared)
           P == Forgiven(cleared)
<1>1. /\ M \in [row: {"none", "pending", "enabled"}, attempts: 0 .. MostAttempts,
                session: BOOLEAN, used: BOOLEAN]
      /\ M.attempts = IF cleared THEN 0 ELSE mfa.attempts
  BY RedeemedOK
<1>2. /\ P \in [typed: 0 .. MaxTyped, sent: 0 .. MaxTyped, lapsed: BOOLEAN,
                abandoned: BOOLEAN, misread: BOOLEAN]
      /\ P.sent = past.sent
      /\ P.typed = IF cleared THEN Cardinality(codes) - 1 ELSE past.typed
  BY ForgivenOK
<1>3. codes' = codes \ {c} /\ past' \in {P, [P EXCEPT !.lapsed = FALSE]}
  BY DEF Accepted, HalfDone
<1>4. \E r, o : mfa' = [M EXCEPT !.row = r, !.session = o]
  BY Zenon DEF Accepted, HalfDone
<1> HIDE DEF M, P
<1>5. mfa'.attempts = M.attempts
  BY <1>1, <1>4
<1>6. past'.sent = P.sent /\ past'.typed = P.typed
  BY <1>2, <1>3
<1> QED
  BY <1>1, <1>2, <1>3, <1>5, <1>6

\* The counts: each submission is due its attempts until it is answered.
LEMMA CountStep == GateInv /\ GateNext => CodesCounted' /\ AttemptsEarned'
<1> SUFFICES ASSUME GateInv, GateNext PROVE CodesCounted' /\ AttemptsEarned'
  OBVIOUS
<1> USE DEF GateInv, CodesCounted, AttemptsEarned, AttemptsDue
<1>0. /\ mfa.attempts \in Nat /\ past.typed \in Nat /\ past.sent \in Nat
      /\ mfa \in [row: {"none", "pending", "enabled"}, attempts: 0 .. MostAttempts,
                  session: BOOLEAN, used: BOOLEAN]
      /\ past \in [typed: 0 .. MaxTyped, sent: 0 .. MaxTyped, lapsed: BOOLEAN,
                   abandoned: BOOLEAN, misread: BOOLEAN]
  BY GateAssumption DEF GateTypeOK, InFlight, MostAttempts
<1>1. CASE \E right \in BOOLEAN : handleVerify(right)
  <2>1. /\ mfa' = mfa /\ past'.typed = past.typed + 1 /\ past'.sent = past.sent + 1
        /\ Cardinality(codes) < 2
    BY <1>0, <1>1 DEF handleVerify, InFlight
  <2>2. PICK c : codes' = codes \cup {c}
    BY <1>1 DEF handleVerify
  <2>3. /\ IsFiniteSet(codes') /\ Cardinality(codes') <= Cardinality(codes) + 1
        /\ Cardinality(codes') \in Nat /\ Cardinality(SentOnce') \in Nat
        /\ Cardinality(SentOnce') <= Cardinality(SentOnce) + 1
    BY <2>2, Typed
  <2> QED
    BY <1>0, <2>1, <2>3, SentOnceFinite
<1>2. ASSUME NEW c \in codes, NEW marked \in BOOLEAN, NEW cleared \in BOOLEAN,
             \/ Accepted(c, marked, cleared)
             \/ \E done \in {"nothing", "row", "session"} : HalfDone(c, marked, cleared, done)
      PROVE  CodesCounted' /\ AttemptsEarned'
  <2>1. /\ codes' = codes \ {c} /\ past'.sent = past.sent
        /\ \/ past'.typed = Cardinality(codes) - 1 /\ mfa'.attempts = 0
           \/ past'.typed = past.typed /\ mfa'.attempts = mfa.attempts
    BY <1>2, TakenCounts
  <2>2. past.sent \in Nat /\ past.sent > 0
    BY <1>0
  <2>4. /\ IsFiniteSet(codes') /\ Cardinality(codes') = Cardinality(codes) - 1
        /\ Cardinality(SentOnce') \in Nat /\ Cardinality(SentOnce') <= Cardinality(codes')
        /\ Cardinality(SentOnce') <= Cardinality(SentOnce)
    BY <2>1, AnsweredForGood
  <2> QED
    BY <1>0, <2>1, <2>2, <2>4, SentOnceFinite
<1>3. ASSUME NEW c \in codes, NEW counted \in BOOLEAN, Unauthorized(c, counted)
      PROVE  CodesCounted' /\ AttemptsEarned'
  <2>1. mfa'.attempts \in {mfa.attempts, mfa.attempts + 1}
    BY <1>0, <1>3 DEF Unauthorized
  <2>2. CASE c.again
    <3>1. codes' = codes \ {c} /\ past' = past
      BY <1>3, <2>2 DEF Unauthorized
    <3>2. /\ IsFiniteSet(codes') /\ Cardinality(codes') = Cardinality(codes) - 1
          /\ Cardinality(SentOnce') \in Nat /\ Cardinality(SentOnce') <= Cardinality(SentOnce)
      BY <3>1, AnsweredForGood
    <3> QED
      BY <1>0, <2>1, <3>1, <3>2, SentOnceFinite
  <2>3. CASE ~c.again
    <3>1. [c EXCEPT !.again = TRUE, !.step = "sent"].again
      BY DEF GateTypeOK, Code
    <3>2. codes' = (codes \ {c}) \cup {[c EXCEPT !.again = TRUE, !.step = "sent"]} /\ past' = past
      BY <1>3, <2>3 DEF Unauthorized
    <3>3. /\ IsFiniteSet(codes') /\ Cardinality(codes') <= Cardinality(codes)
          /\ Cardinality(codes') \in Nat /\ Cardinality(SentOnce') \in Nat
          /\ Cardinality(SentOnce') = Cardinality(SentOnce) - 1
      BY <2>3, <3>1, <3>2, SentAgain
    <3> QED
      BY <1>0, <2>1, <3>2, <3>3, SentOnceFinite
  <2> QED
    BY <2>2, <2>3
<1>4. ASSUME NEW c \in codes, Rejected(c) PROVE CodesCounted' /\ AttemptsEarned'
  <2>1. codes' = codes \ {c} /\ past' = past /\ mfa' = mfa
    BY <1>4 DEF Rejected
  <2>2. /\ IsFiniteSet(codes') /\ Cardinality(codes') = Cardinality(codes) - 1
        /\ Cardinality(SentOnce') \in Nat /\ Cardinality(SentOnce') <= Cardinality(SentOnce)
    BY <2>1, AnsweredForGood
  <2> QED
    BY <1>0, <2>1, <2>2, SentOnceFinite
<1>5. CASE \E c \in codes : SessionEnds(c)
  BY <1>0, <1>5, NothingDue, SentOnceFinite DEF SessionEnds
<1>6. CASE LockLifts
  <2>1. codes' = {} /\ mfa'.attempts = 0 /\ past'.typed = 0 /\ past'.sent = past.sent
    BY <1>0, <1>6 DEF LockLifts
  <2> QED
    BY <1>0, <2>1, NothingDue
<1>11. ASSUME NEW c \in codes, CheckRateLimit(c) \/ CheckReplay(c)
       PROVE  CodesCounted' /\ AttemptsEarned'
  <2>1. /\ past' = past /\ mfa' = mfa
        /\ \E step \in {"passed", "taken"} : codes' = (codes \ {c}) \cup {[c EXCEPT !.step = step]}
    BY <1>11 DEF CheckRateLimit, CheckReplay, Stepped
  <2>2. PICK step \in {"passed", "taken"} : codes' = (codes \ {c}) \cup {[c EXCEPT !.step = step]}
    BY <2>1
  <2>3. [c EXCEPT !.step = step].again = c.again
    BY DEF GateTypeOK, Code
  <2>4. /\ IsFiniteSet(codes') /\ Cardinality(codes') <= Cardinality(codes)
        /\ Cardinality(codes') \in Nat /\ Cardinality(SentOnce') \in Nat
        /\ Cardinality(SentOnce') <= Cardinality(SentOnce)
    BY <2>2, <2>3, GoesOn
  <2> QED
    BY <1>0, <2>1, <2>4, SentOnceFinite
<1>7. ASSUME mfa'.attempts = mfa.attempts, past'.typed = past.typed, past'.sent = past.sent, codes' = codes
      PROVE  CodesCounted' /\ AttemptsEarned'
  BY <1>7 DEF SentOnce
<1>8. CASE \/ \E answer \in {"admin", "other", "failed"} : Me(answer)
           \/ checkAuth \/ SessionCheck \/ Retry \/ handleStartSetup \/ SetupRefused
  BY <1>0, <1>7, <1>8 DEF Me, checkAuth, SessionCheck, Retry, handleStartSetup, SetupRefused
<1>9. CASE \E lost \in BOOLEAN : Setup(lost) \/ Logout(lost)
  BY <1>0, <1>7, <1>9 DEF Setup, Logout
<1>10. CASE SessionLapses \/ CodeChanges \/ ReloadConsole
  BY <1>0, <1>7, <1>10 DEF SessionLapses, CodeChanges, ReloadConsole
<1> QED
  BY <1>1, <1>2, <1>3, <1>4, <1>5, <1>6, <1>8, <1>9, <1>10, <1>11 DEF GateNext

\* The limit: two codes may pass the lock-out together, and no more.
LEMMA LimitStep == GateInv /\ GateNext => AttemptsLimited'
<1> SUFFICES ASSUME GateInv, GateNext PROVE AttemptsLimited'
  OBVIOUS
<1> USE DEF AttemptsLimited
<1>0. /\ mfa.attempts \in Nat /\ maxAttempts \in Nat \ {0} /\ codes \subseteq Code
      /\ IsFiniteSet(codes) /\ Cardinality(codes) <= 2 /\ Cardinality(codes) \in Nat
      /\ mfa.attempts + Cardinality(Passed) <= maxAttempts + 1
      /\ mfa \in [row: {"none", "pending", "enabled"}, attempts: 0 .. MostAttempts,
                  session: BOOLEAN, used: BOOLEAN]
  BY GateAssumption, FS_CardinalityType DEF GateTypeOK, InFlight, MostAttempts, GateInv, CodesCounted
<1>1. IsFiniteSet(Passed) /\ Cardinality(Passed) \in Nat
  <2>1. Passed \subseteq codes
    BY DEF Passed
  <2> QED
    BY <1>0, <2>1, FS_Subset, FS_CardinalityType
<1>2. ASSUME Passed' \subseteq Passed PROVE Cardinality(Passed') \in Nat /\ Cardinality(Passed') <= Cardinality(Passed)
  BY <1>1, <1>2, FS_Subset, FS_CardinalityType
<1>3. ASSUME Passed' \subseteq Passed, mfa'.attempts \in {0, mfa.attempts} PROVE AttemptsLimited'
  BY <1>0, <1>1, <1>2, <1>3
<1>4. ASSUME NEW c \in codes, CheckRateLimit(c) PROVE AttemptsLimited'
  <2>1. mfa' = mfa /\ mfa.attempts < maxAttempts /\ codes' = (codes \ {c}) \cup {[c EXCEPT !.step = "passed"]}
    BY <1>0, <1>4 DEF CheckRateLimit, Locked, Stepped
  <2>2. [c EXCEPT !.step = "passed"].again = c.again
    BY <1>0 DEF Code
  <2>3. IsFiniteSet(codes') /\ Cardinality(codes') <= Cardinality(codes) /\ Cardinality(codes') \in Nat
    BY <1>0, <2>1, <2>2, GoesOn
  <2>4. Passed' \subseteq codes'
    BY DEF Passed
  <2>5. Cardinality(Passed') <= Cardinality(codes') /\ Cardinality(Passed') \in Nat
    BY <2>3, <2>4, FS_Subset, FS_CardinalityType
  <2> QED
    BY <1>0, <2>1, <2>3, <2>5
<1>5. ASSUME NEW c \in codes, CheckReplay(c) PROVE AttemptsLimited'
  <2>1. mfa' = mfa /\ codes' = (codes \ {c}) \cup {[c EXCEPT !.step = "taken"]}
    BY <1>5 DEF CheckReplay, Stepped
  <2>2. [c EXCEPT !.step = "taken"].step = "taken"
    BY <1>0 DEF Code
  <2>3. Passed' \subseteq Passed
    BY <2>1, <2>2 DEF Passed
  <2> QED
    BY <1>0, <1>3, <2>1, <2>3
<1>6. ASSUME NEW c \in codes, NEW counted \in BOOLEAN, Unauthorized(c, counted) PROVE AttemptsLimited'
  <2>1. mfa'.attempts \in {mfa.attempts, mfa.attempts + 1} /\ c.step = "passed"
    BY <1>0, <1>6 DEF Unauthorized
  <2>2. [c EXCEPT !.again = TRUE, !.step = "sent"].step = "sent"
    BY <1>0 DEF Code
  <2>3. codes' \in {codes \ {c}, (codes \ {c}) \cup {[c EXCEPT !.again = TRUE, !.step = "sent"]}}
    BY <1>6 DEF Unauthorized
  <2>4. c \in Passed /\ Passed' = Passed \ {c}
    BY <2>1, <2>2, <2>3 DEF Passed
  <2>5. Cardinality(Passed') = Cardinality(Passed) - 1
    BY <1>1, <2>4, FS_RemoveElement
  <2> QED
    BY <1>0, <1>1, <2>1, <2>5
<1>7. CASE \E right \in BOOLEAN : handleVerify(right)
  <2>1. PICK right \in BOOLEAN : handleVerify(right)
    BY <1>7
  <2> DEFINE d == [no |-> past.sent + 1, right |-> right, enrols |-> gate.view = "scan",
                   again |-> FALSE, step |-> "sent"]
  <2>2. codes' = codes \cup {d} /\ d.step = "sent" /\ mfa' = mfa
    BY <2>1 DEF handleVerify
  <2> HIDE DEF d
  <2>3. Passed' \subseteq Passed
    BY <2>2 DEF Passed
  <2> QED
    BY <1>0, <1>3, <2>2, <2>3
<1>8. ASSUME NEW c \in codes, NEW marked \in BOOLEAN, NEW cleared \in BOOLEAN,
             \/ Accepted(c, marked, cleared)
             \/ \E done \in {"nothing", "row", "session"} : HalfDone(c, marked, cleared, done)
      PROVE  AttemptsLimited'
  <2>1. codes' = codes \ {c} /\ mfa'.attempts \in {0, mfa.attempts}
    BY <1>8, TakenCounts
  <2>2. Passed' \subseteq Passed
    BY <2>1 DEF Passed
  <2> QED
    BY <1>3, <2>1, <2>2
<1>9. CASE codes' \subseteq codes /\ mfa'.attempts \in {0, mfa.attempts}
  <2>1. Passed' \subseteq Passed
    BY <1>9 DEF Passed
  <2> QED
    BY <1>3, <1>9, <2>1
<1>10. CASE \/ \E c \in codes : Rejected(c) \/ SessionEnds(c)
            \/ \E answer \in {"admin", "other", "failed"} : Me(answer)
            \/ checkAuth \/ SessionCheck \/ Retry \/ handleStartSetup \/ SetupRefused
            \/ \E lost \in BOOLEAN : Setup(lost) \/ Logout(lost)
            \/ SessionLapses \/ LockLifts \/ CodeChanges \/ ReloadConsole
  BY <1>0, <1>9, <1>10 DEF Rejected, SessionEnds, Me, checkAuth, SessionCheck, Retry,
     handleStartSetup, SetupRefused, Setup, Logout, SessionLapses, LockLifts, CodeChanges, ReloadConsole
<1> QED
  BY <1>4, <1>5, <1>6, <1>7, <1>8, <1>10 DEF GateNext

\* A code sent again, or at another step, is a code.
LEMMA CodeGoesOn ==
  \A c \in Code : /\ [c EXCEPT !.again = TRUE, !.step = "sent"] \in Code
                  /\ [c EXCEPT !.step = "passed"] \in Code /\ [c EXCEPT !.step = "taken"] \in Code
BY DEF Code

\* The codes keep their type.
LEMMA CodesStep == GateInv /\ GateNext => codes' \subseteq Code
<1> SUFFICES ASSUME GateInv, GateNext PROVE codes' \subseteq Code
  OBVIOUS
<1>0. codes \subseteq Code
  BY DEF GateInv, GateTypeOK
<1>1. CASE \E right \in BOOLEAN : handleVerify(right)
  <2>1. PICK right \in BOOLEAN : handleVerify(right)
    BY <1>1
  <2> DEFINE e == gate.view = "scan"
             d == [no |-> past.sent + 1, right |-> right, enrols |-> e, again |-> FALSE, step |-> "sent"]
  <2>2. e \in BOOLEAN
    OBVIOUS
  <2>3. codes' = codes \cup {d}
    BY <2>1, Zenon DEF handleVerify
  <2>4. past.sent + 1 \in 1 .. MaxTyped
    BY <2>1, GateAssumption DEF handleVerify, GateInv, GateTypeOK
  <2> HIDE DEF e
  <2>5. d \in Code
    BY <2>2, <2>4 DEF Code
  <2> HIDE DEF d
  <2> QED
    BY <1>0, <2>3, <2>5
<1>2. CASE codes' \subseteq codes
  BY <1>0, <1>2
<1>3. ASSUME NEW c \in codes, NEW d \in Code, codes' \subseteq codes \cup {d} PROVE codes' \subseteq Code
  BY <1>0, <1>3
<1>4. ASSUME NEW c \in codes, NEW counted \in BOOLEAN, Unauthorized(c, counted) PROVE codes' \subseteq Code
  <2>1. [c EXCEPT !.again = TRUE, !.step = "sent"] \in Code
    BY <1>0, CodeGoesOn, Zenon
  <2>2. codes' \subseteq codes \cup {[c EXCEPT !.again = TRUE, !.step = "sent"]}
    BY <1>4, Zenon DEF Unauthorized
  <2> QED
    BY <1>0, <2>1, <2>2, Zenon
<1>5. ASSUME NEW c \in codes, CheckRateLimit(c) \/ CheckReplay(c) PROVE codes' \subseteq Code
  <2>1. [c EXCEPT !.step = "passed"] \in Code /\ [c EXCEPT !.step = "taken"] \in Code
    BY <1>0, CodeGoesOn, Zenon
  <2>2. \/ codes' \subseteq codes \cup {[c EXCEPT !.step = "passed"]}
        \/ codes' \subseteq codes \cup {[c EXCEPT !.step = "taken"]}
    BY <1>5, Zenon DEF CheckRateLimit, CheckReplay, Stepped
  <2> QED
    BY <1>0, <2>1, <2>2, Zenon
<1>7. ASSUME NEW c \in codes, NEW marked \in BOOLEAN, NEW cleared \in BOOLEAN,
             \/ Accepted(c, marked, cleared)
             \/ \E done \in {"nothing", "row", "session"} : HalfDone(c, marked, cleared, done)
      PROVE  codes' \subseteq Code
  <2>1. codes' = codes \ {c}
    BY <1>7, Zenon DEF Accepted, HalfDone
  <2> QED
    BY <1>2, <2>1
<1>6. CASE \/ \E c \in codes : Rejected(c) \/ SessionEnds(c)
           \/ \E answer \in {"admin", "other", "failed"} : Me(answer)
           \/ checkAuth \/ SessionCheck \/ Retry \/ handleStartSetup \/ SetupRefused
           \/ \E lost \in BOOLEAN : Setup(lost) \/ Logout(lost)
           \/ SessionLapses \/ LockLifts \/ CodeChanges \/ ReloadConsole
  BY <1>2, <1>6 DEF Rejected, SessionEnds, Me, checkAuth, SessionCheck, Retry,
     handleStartSetup, SetupRefused, Setup, Logout, SessionLapses, LockLifts, CodeChanges, ReloadConsole
<1> QED
  BY <1>1, <1>4, <1>5, <1>6, <1>7 DEF GateNext

GateType ==
    gate \in [me: {"loading", "admin", "other", "failed"}, view: GateView, error: BOOLEAN,
              token: BOOLEAN, asks: {"nothing", "status", "session", "start"}]
MfaType ==
    mfa \in [row: {"none", "pending", "enabled"}, attempts: 0 .. MostAttempts,
             session: BOOLEAN, used: BOOLEAN]
PastType ==
    past \in [typed: 0 .. MaxTyped, sent: 0 .. MaxTyped, lapsed: BOOLEAN,
              abandoned: BOOLEAN, misread: BOOLEAN]

\* An answer that comes too late changes at most the error shown.
LEMMA RefusedOK ==
  ASSUME GateType
  PROVE  /\ Refused(gate) \in [me: {"loading", "admin", "other", "failed"}, view: GateView, error: BOOLEAN,
                               token: BOOLEAN, asks: {"nothing", "status", "session", "start"}]
         /\ Refused(gate).me = gate.me /\ Refused(gate).view = gate.view
         /\ Refused(gate).token = gate.token /\ Refused(gate).asks = gate.asks
BY DEF GateType, Refused, GateView

\* Types and views, one action at a time.
GateRest == GateType /\ MfaType /\ PastType /\ GateViews /\ OpenGateIsHonoured
\* A step of the gate keeps types and views.
LEMMA GateRestStep == GateInv /\ GateNext => GateRest'
<1> SUFFICES ASSUME GateInv, GateNext PROVE GateRest'
  OBVIOUS
<1>0. /\ GateType /\ MfaType /\ PastType /\ GateViews /\ OpenGateIsHonoured
      /\ maxAttempts \in Nat \ {0} /\ MaxTyped \in Nat \ {0}
      /\ past.typed <= past.sent /\ (codes # {} => past.sent > 0)
      /\ IsFiniteSet(codes) /\ Cardinality(codes) <= 2
      /\ MostAttempts \in Nat
  BY GateAssumption DEF MostAttempts, GateInv, GateTypeOK, GateType, MfaType, PastType, CodesCounted, InFlight
<1> USE DEF GateRest, GateType, MfaType, PastType, GateView, GateViews, OpenGateIsHonoured, Admits,
            ShowsConsole, ShowsGate
<1>1. CASE \E answer \in {"admin", "other", "failed"} : Me(answer)
  <2>1. PICK answer \in {"admin", "other", "failed"} : Me(answer)
    BY <1>1
  <2>2. UNCHANGED <<mfa, codes, past>> /\ gate.me \in {"loading", "failed"}
    BY <2>1 DEF Me
  <2>3. CASE answer = "admin"
    <3>1. gate' = [gate EXCEPT !.me = "admin", !.view = "loading", !.error = FALSE, !.asks = "status"]
      BY <1>0, <2>1, <2>3 DEF Me, GateMounted
    <3> QED
      BY <1>0, <2>2, <3>1
  <2>4. CASE answer # "admin"
    <3>1. gate' = [gate EXCEPT !.me = answer]
      BY <2>1, <2>4 DEF Me
    <3> QED
      BY <1>0, <2>2, <2>4, <3>1
  <2> QED
    BY <2>3, <2>4
<1>2. CASE checkAuth
  <2>0. gate.me = "admin" /\ gate.asks = "status" /\ UNCHANGED <<mfa, codes>>
    BY <1>2 DEF checkAuth
  <2>1. CASE past' = past /\ gate' = [gate EXCEPT !.view = "error", !.asks = "nothing"]
    BY <1>0, <2>0, <2>1
  <2>2. CASE /\ gate' = [gate EXCEPT !.view = "setup", !.asks = "nothing"]
             /\ past' = [past EXCEPT !.misread = (mfa.row = "enabled")]
    <3> DEFINE m == mfa.row = "enabled"
    <3>1. m \in BOOLEAN /\ (mfa.row = "enabled" => m)
      OBVIOUS
    <3>2. past' = [past EXCEPT !.misread = m]
      BY <2>2
    <3> HIDE DEF m
    <3> QED
      BY <1>0, <2>0, <2>2, <3>1, <3>2
  <2>3. CASE past' = past /\ mfa.row = "enabled" /\ gate' = [gate EXCEPT !.asks = "session"]
    BY <1>0, <2>0, <2>3
  <2>4. CASE past' = past /\ mfa.row = "enabled" /\ gate' = [gate EXCEPT !.view = "challenge", !.asks = "nothing"]
    BY <1>0, <2>0, <2>4
  <2> QED
    BY <1>2, <2>1, <2>2, <2>3, <2>4 DEF checkAuth
<1>3. CASE SessionCheck
  <2>0. gate.me = "admin" /\ gate.asks = "session" /\ UNCHANGED <<mfa, codes, past>>
    BY <1>0, <1>3 DEF SessionCheck
  <2>1. CASE gate' = [gate EXCEPT !.view = "error", !.asks = "nothing"]
    BY <1>0, <2>0, <2>1
  <2>2. CASE mfa.session /\ gate.token /\ gate' = [gate EXCEPT !.view = "authenticated", !.asks = "nothing"]
    BY <1>0, <2>0, <2>2
  <2>3. CASE gate' = [gate EXCEPT !.view = "challenge", !.asks = "nothing"]
    BY <1>0, <2>0, <2>3
  <2> QED
    BY <1>3, <2>1, <2>2, <2>3 DEF SessionCheck
<1>4. CASE Retry
  BY <1>0, <1>4 DEF Retry, GateMounted
<1>5. CASE handleStartSetup
  BY <1>0, <1>5 DEF handleStartSetup, OffersSetup
<1>6. ASSUME NEW lost \in BOOLEAN, Setup(lost) PROVE GateRest'
  <2> DEFINE a == past.abandoned \/ lost
  <2>1. a \in BOOLEAN /\ (past.abandoned => a) /\ (lost => a)
    BY <1>0
  <2>2. past' = [past EXCEPT !.abandoned = a]
    BY <1>6, Zenon DEF Setup
  <2> HIDE DEF a
  <2> QED
    BY <1>0, <1>6, <2>1, <2>2 DEF Setup
<1>17. CASE SetupRefused
  BY <1>0, <1>17 DEF SetupRefused
<1>7. CASE \E right \in BOOLEAN : handleVerify(right)
  <2>1. gate' = [gate EXCEPT !.error = FALSE] /\ mfa' = mfa /\ AsksForCode
        /\ past' = [past EXCEPT !.typed = @ + 1, !.sent = @ + 1] /\ past.sent < MaxTyped
    BY <1>7 DEF handleVerify
  <2> QED
    <3>0. past.typed + 1 \in 0 .. MaxTyped /\ past.sent + 1 \in 0 .. MaxTyped
      BY <1>0, <2>1
    <3>1. PastType'
      BY <1>0, <2>1, <3>0
    <3>2. past'.abandoned = past.abandoned /\ past'.lapsed = past.lapsed /\ past'.misread = past.misread
      BY <1>0, <2>1
    <3>3. GateType' /\ MfaType'
      BY <1>0, <2>1
    <3>4. gate'.me = gate.me /\ gate'.view = gate.view /\ gate'.token = gate.token /\ gate'.asks = gate.asks
          /\ gate.me = "admin" /\ gate.view \in {"scan", "challenge"}
      BY <1>0, <2>1 DEF AsksForCode
    <3>5. GateViews' /\ OpenGateIsHonoured'
      BY <1>0, <2>1, <3>2, <3>4
    <3> QED
      BY <3>1, <3>3, <3>5
<1>18. ASSUME NEW c \in codes, NEW marked \in BOOLEAN, NEW cleared \in BOOLEAN, Accepted(c, marked, cleared)
       PROVE  GateRest'
  <2>0. gate.me = "admin" /\ gate.view \in {"scan", "challenge", "authenticated", "away"}
    BY <1>0
  <2>1. /\ mfa' = [Redeemed(marked, cleared) EXCEPT !.row = "enabled", !.session = TRUE]
        /\ past' = [Forgiven(cleared) EXCEPT !.lapsed = FALSE]
        /\ gate' = [gate EXCEPT !.token = TRUE, !.view = "authenticated"]
    BY <1>18 DEF Accepted
  <2>2. MfaType' /\ mfa'.row = "enabled" /\ mfa'.session
    <3> DEFINE M == Redeemed(marked, cleared)
    <3>1. M \in [row: {"none", "pending", "enabled"}, attempts: 0 .. MostAttempts,
                session: BOOLEAN, used: BOOLEAN]
      BY RedeemedOK
    <3> HIDE DEF M
    <3>2. mfa' = [M EXCEPT !.row = "enabled", !.session = TRUE]
      BY <2>1 DEF M
    <3> QED
      BY <3>1, <3>2
  <2>3. PastType' /\ past'.abandoned = past.abandoned
    BY <2>1, ForgivenOK
  <2>4. GateType' /\ gate'.me = gate.me /\ gate'.view = "authenticated" /\ gate'.token /\ gate'.asks = gate.asks
    BY <1>0, <2>1
  <2> QED
    BY <1>0, <2>0, <2>2, <2>3, <2>4
<1>19. ASSUME NEW c \in codes, NEW marked \in BOOLEAN, NEW cleared \in BOOLEAN,
              NEW done \in {"nothing", "row", "session"}, HalfDone(c, marked, cleared, done)
       PROVE  GateRest'
  <2>0. gate.me = "admin" /\ gate.view \in {"scan", "challenge", "authenticated", "away"}
    BY <1>0
  <2> DEFINE r == IF done = "nothing" THEN mfa.row ELSE "enabled"
             o == mfa.session \/ done = "session"
  <2>1. /\ mfa' = [Redeemed(marked, cleared) EXCEPT !.row = r, !.session = o]
        /\ past' = Forgiven(cleared) /\ gate' = Refused(gate) /\ codes' = codes \ {c}
    <3>1. Redeemed(marked, cleared).row = mfa.row /\ Redeemed(marked, cleared).session = mfa.session
      BY RedeemedOK
    <3> QED
      BY <1>19, <3>1, Zenon DEF HalfDone
  <2>2. /\ r \in {"none", "pending", "enabled"} /\ o \in BOOLEAN /\ r \in {mfa.row, "enabled"}
        /\ (mfa.session => o) /\ (o => r = "enabled")
    BY <1>0
  <2> HIDE DEF r, o
  <2>3. MfaType' /\ mfa'.row = r /\ mfa'.session = o
    <3> DEFINE M == Redeemed(marked, cleared)
    <3>1. M \in [row: {"none", "pending", "enabled"}, attempts: 0 .. MostAttempts,
                session: BOOLEAN, used: BOOLEAN]
      BY RedeemedOK
    <3> HIDE DEF M
    <3>2. mfa' = [M EXCEPT !.row = r, !.session = o]
      BY <2>1 DEF M
    <3> QED
      BY <2>2, <3>1, <3>2
  <2>4. PastType' /\ past'.abandoned = past.abandoned /\ past'.lapsed = past.lapsed
    BY <2>1, ForgivenOK
  <2>5. /\ GateType' /\ gate'.me = gate.me /\ gate'.view = gate.view
        /\ gate'.token = gate.token /\ gate'.asks = gate.asks
    BY <1>0, <2>1, RefusedOK
  <2> QED
    BY <1>0, <2>0, <2>1, <2>2, <2>3, <2>4, <2>5
<1>9. ASSUME NEW c \in codes, NEW counted \in BOOLEAN, Unauthorized(c, counted) PROVE GateRest'
  <2>1. gate' \in {gate, Refused(gate)} /\ past' = past
    BY <1>9 DEF Unauthorized
  <2>2. mfa.attempts + 1 \in 0 .. MostAttempts
    <3>1. c \in Passed /\ IsFiniteSet(Passed)
      <4>1. Passed \subseteq codes
        BY DEF Passed
      <4> QED
        BY <1>0, <1>9, <4>1, FS_Subset DEF Unauthorized, Passed
    <3>2. Cardinality(Passed) \in Nat /\ Cardinality(Passed) # 0
      BY <3>1, FS_EmptySet, FS_CardinalityType
    <3>3. mfa.attempts + Cardinality(Passed) <= maxAttempts + 1
      BY DEF GateInv, AttemptsLimited
    <3>4. mfa.attempts \in Nat /\ maxAttempts \in Nat
      BY <1>0
    <3> QED
      BY <3>2, <3>3, <3>4 DEF InFlight, MostAttempts
  <2>3. MfaType' /\ mfa'.row = mfa.row /\ mfa'.session = mfa.session
    BY <1>0, <1>9, <2>2 DEF Unauthorized
  <2> QED
    BY <1>0, <2>1, <2>3, RefusedOK
<1>20. CASE \E c \in codes : CheckRateLimit(c) \/ CheckReplay(c)
  <2>1. UNCHANGED <<gate, mfa, past>> /\ codes # {}
    BY <1>20 DEF CheckRateLimit, CheckReplay
  <2> QED
    BY <1>0, <2>1
<1>10. ASSUME NEW c \in codes, Rejected(c) PROVE GateRest'
  <2>1. gate' = Refused(gate) /\ past' = past /\ mfa' = mfa /\ codes' \subseteq codes
    BY <1>10 DEF Rejected
  <2> QED
    BY <1>0, <2>1, RefusedOK
<1>11. CASE \E c \in codes : SessionEnds(c)
  <2>1. /\ GateType' /\ gate'.view = "away" /\ gate'.asks = "nothing"
        /\ gate'.me = gate.me /\ gate'.token = gate.token
        /\ past' = past /\ mfa' = mfa /\ codes' = {}
    BY <1>0, <1>11 DEF SessionEnds
  <2>2. gate.me = "admin"
    BY <1>0, <1>11
  <2> QED
    BY <1>0, <2>1, <2>2
<1>12. ASSUME NEW lost \in BOOLEAN, Logout(lost) PROVE GateRest'
  <2> DEFINE s == mfa.session /\ lost
  <2>1. s \in BOOLEAN /\ (s => mfa.session)
    BY <1>0
  <2>2. mfa' = [mfa EXCEPT !.session = s]
    BY <1>12, Zenon DEF Logout
  <2> HIDE DEF s
  <2> QED
    BY <1>0, <1>12, <2>1, <2>2 DEF Logout
<1>13. CASE SessionLapses
  <2>1. /\ GateType' /\ gate'.me = gate.me /\ gate'.view = gate.view /\ gate'.asks = gate.asks
        /\ codes = {} /\ codes' = codes /\ MfaType' /\ PastType'
        /\ mfa'.row = mfa.row /\ ~mfa'.session /\ past'.abandoned = past.abandoned /\ past'.lapsed
        /\ past'.misread = past.misread
    BY <1>0, <1>13 DEF SessionLapses
  <2> QED
    BY <1>0, <2>1
<1>14. CASE LockLifts
  <2>1. /\ gate' = gate /\ codes' = codes /\ MfaType' /\ PastType'
        /\ mfa'.row = mfa.row /\ mfa'.session = mfa.session
        /\ past'.abandoned = past.abandoned /\ past'.lapsed = past.lapsed /\ past'.misread = past.misread
    BY <1>0, <1>14 DEF LockLifts
  <2> QED
    BY <1>0, <2>1
<1>15. CASE CodeChanges
  <2>1. /\ gate' = gate /\ codes' = codes /\ past' = past /\ MfaType'
        /\ mfa'.row = mfa.row /\ mfa'.session = mfa.session
    BY <1>0, <1>15 DEF CodeChanges
  <2> QED
    BY <1>0, <2>1
<1>16. CASE ReloadConsole
  <2> DEFINE a == past.abandoned \/ mfa.row = "pending"
  <2>1. a \in BOOLEAN /\ (past.abandoned => a) /\ (mfa.row = "pending" => a)
    BY <1>0
  <2>2. past' = [past EXCEPT !.abandoned = a]
    BY <1>16, Zenon DEF ReloadConsole
  <2> HIDE DEF a
  <2> QED
    BY <1>0, <1>16, <2>1, <2>2 DEF ReloadConsole
<1> QED
  BY <1>1, <1>2, <1>3, <1>4, <1>5, <1>6, <1>7, <1>9, <1>10, <1>11, <1>12, <1>13, <1>14,
     <1>15, <1>16, <1>17, <1>18, <1>19, <1>20 DEF GateNext

\* Every state and every step of the gate keeps the invariant.
LEMMA GateStep == GateInv /\ [GateNext]_gateVars => GateInv'
<1>1. GateInv /\ GateNext => GateInv'
  BY CountStep, LimitStep, CodesStep, GateRestStep DEF GateInv, GateRest, GateTypeOK, GateType, MfaType, PastType
<1>2. GateInv /\ UNCHANGED gateVars => GateInv'
  BY DEF GateInv, gateVars, GateTypeOK, CodesCounted, AttemptsEarned, AttemptsDue, SentOnce,
         AttemptsLimited, Passed, GateViews, OpenGateIsHonoured,
         ShowsConsole, ShowsGate, Admits
<1> QED
  BY <1>1, <1>2

\* The gate's invariant holds throughout.
LEMMA GateInductive == GateSpec => []GateInv
BY GateInitOK, GateStep, PTL DEF GateSpec

\* The invariant says what was to be shown.
LEMMA GateInvSound == GateInv => GateSound
<1> SUFFICES ASSUME GateInv PROVE GateSound
  OBVIOUS
<1>1. LockoutIsEarned
  BY SentOnceFinite, GateAssumption
  DEF GateInv, GateTypeOK, InFlight, MostAttempts, CodesCounted, AttemptsEarned, AttemptsDue, LockoutIsEarned
<1>2. SetupCanBegin
  BY DEF GateInv, GateViews, SetupCanBegin, OffersSetup
<1> QED
  BY <1>1, <1>2 DEF GateInv, GateSound

\* The console is open only to a tab the server admits, unless its session ran out
\* under it; a lock-out takes at most two attempts for each code submitted; who
\* is offered the setup can begin it, unless one was left before or the status
\* of an enabled row was not read (MfaGate, fetchAPI, RecordAttempt, Setup).
THEOREM GateIsSound == GateSpec => []GateSound
BY GateInductive, GateInvSound, PTL

-----------------------------------------------------------------------------
(* The charts: the window, and what is drawn in it.                           *)

\* A finite set of numbers that is not empty has a least and a greatest one.
LEMMA Extremes ==
  ASSUME NEW S \in SUBSET Int, IsFiniteSet(S), S # {}
  PROVE  /\ Min(S) \in S /\ \A x \in S : Min(S) <= x
         /\ Max(S) \in S /\ \A x \in S : x <= Max(S)
BY MinOK, MaxOK

\* Where a window is held in the data.
LEMMA InsideOK ==
  ASSUME NEW n \in Nat, NEW size \in Nat, NEW start \in Int
  PROVE  LET w == Inside(start, size, n)
         IN  /\ w[1] \in 0..n /\ w[2] \in 0..n /\ w[1] <= w[2]
             /\ size > 0 /\ n > 0 => w[1] < w[2]
             /\ size <= n => /\ w[2] = w[1] + size
                             /\ w[1] = start \/ w[1] = 0 \/ w[2] = n
BY DEF Inside

\* The number of points the wheel leaves.
LEMMA ResizedOK ==
  ASSUME NEW n \in Nat, n > MinVisible, NEW size \in 0..n, NEW turned \in BOOLEAN
  PROVE  /\ Resized(size, turned, n) \in MinVisible..n
         /\ turned => Resized(size, turned, n) > size \/ Resized(size, turned, n) = n \/ size < MinVisible
         /\ ~turned => Resized(size, turned, n) < size \/ Resized(size, turned, n) = MinVisible
<1>1. MinVisible \in Nat /\ MinVisible >= 4
  BY ChartConstants
<1> DEFINE wide == Round(size * 115, 100)
           narrow == Round(size * 87, 100)
<1>2. wide \in Nat /\ (size >= 4 => wide > size) /\ narrow \in Nat /\ (size >= 4 => narrow < size) /\ (size < 4 => narrow < 4)
  BY DEF Round
<1> HIDE DEF wide, narrow
<1> SUFFICES ASSUME NEW r, r = Resized(size, turned, n)
             PROVE  /\ r \in MinVisible..n
                    /\ turned => r > size \/ r = n \/ size < MinVisible
                    /\ ~turned => r < size \/ r = MinVisible
  OBVIOUS
<1>3. CASE turned
  <2>1. r = IF (IF wide > n THEN n ELSE wide) < MinVisible THEN MinVisible
            ELSE IF wide > n THEN n ELSE wide
    BY <1>3 DEF Resized, wide
  <2>2. r \in MinVisible..n /\ (r > size \/ r = n \/ size < MinVisible)
    BY <1>1, <1>2, <2>1
  <2> QED
    BY <1>3, <2>2, Zenon
<1>4. CASE ~turned
  <2>1. r = IF (IF narrow > n THEN n ELSE narrow) < MinVisible THEN MinVisible
            ELSE IF narrow > n THEN n ELSE narrow
    BY <1>4 DEF Resized, narrow
  <2>2. r \in MinVisible..n /\ (r < size \/ r = MinVisible)
    BY <1>1, <1>2, <2>1
  <2> QED
    BY <1>4, <2>2, Zenon
<1> QED
  BY <1>3, <1>4

\* A ratio that is off by so much moves the point by no more than that.
LEMMA OffBy ==
  ASSUME NEW a \in Int, NEW d \in Int, NEW p \in Int, NEW q \in Int, 2 * Abs(a + q * d) <= Halves
  PROVE  2 * Abs(a + p * d) <= Halves + 2 * Abs((p - q) * d)
<1>1. PICK x \in Int : x = q * d
  OBVIOUS
<1>2. PICK y \in Int : y = (p - q) * d
  OBVIOUS
<1>3. p * d = x + y
  BY <1>1, <1>2
<1>4. 2 * Abs(a + x) <= 2
  BY <1>1 DEF Halves
<1>5. 2 * Abs(a + (x + y)) <= 2 + 2 * Abs(y)
  BY ONLY <1>4, a \in Int, x \in Int, y \in Int DEF Abs
<1> QED
  BY <1>2, <1>3, <1>5 DEF Halves

\* A turn of the wheel.
LEMMA ZoomedOK ==
  ASSUME NEW n \in Nat, n > MinVisible, NEW start \in 0..n, NEW end \in 0..n, start <= end,
         NEW turned \in BOOLEAN, NEW q \in Int
  PROVE  LET w == Zoomed(<<start, end>>, turned, q, n)
             size == w[2] - w[1]
         IN  /\ w[1] \in 0..n /\ w[2] \in 0..n /\ w[1] < w[2]
             /\ size = Resized(end - start, turned, n)
             /\ 2 * Abs(Halves * (w[1] - start) + q * (size - (end - start))) <= Halves
                \/ w[1] = 0 \/ w[2] = n
<1> DEFINE seen == end - start
           new == Resized(seen, turned, n)
           at == Round(Halves * start + (seen - new) * q, Halves)
           w == Inside(at, new, n)
<1>1. seen \in 0..n /\ MinVisible \in Nat /\ MinVisible >= 4
  BY ChartConstants
<1>2. new \in MinVisible..n
  BY <1>1, ResizedOK
<1>3. Zoomed(<<start, end>>, turned, q, n) = w
  BY DEF Zoomed
<1> HIDE DEF new
<1>4. PICK d \in Int : d = (seen - new) * q /\ q * (new - seen) = -d
  <2>1. (seen - new) * q \in Int /\ q * (new - seen) = -((seen - new) * q)
    BY <1>1, <1>2
  <2> QED
    BY <2>1
<1>5. at \in Int /\ 2 * at - (2 * start + d) \in {0, 1}
  <2>1. at = Round(2 * start + d, 2)
    BY <1>4 DEF Halves
  <2> HIDE DEF at
  <2> QED
    BY ONLY <2>1, start \in Int, d \in Int DEF Round
<1> HIDE DEF at
<1>6. /\ w[1] \in 0..n /\ w[2] \in 0..n /\ w[1] < w[2] /\ w[2] = w[1] + new
      /\ w[1] = at \/ w[1] = 0 \/ w[2] = n
  <2>1. new \in Nat /\ new > 0 /\ n > 0 /\ new <= n
    BY <1>1, <1>2
  <2> QED
    BY <1>5, <2>1, InsideOK
<1> HIDE DEF w
<1>7. w[2] - w[1] = new
  BY <1>2, <1>6
<1>8. 2 * Abs(Halves * (at - start) + q * (new - seen)) <= Halves
  <2>1. 2 * Abs(2 * (at - start) - d) <= 2
    BY ONLY <1>5, start \in Int, d \in Int DEF Abs
  <2>2. Halves * (at - start) + q * (new - seen) = 2 * (at - start) - d
    BY <1>4, <1>5 DEF Halves
  <2> QED
    BY <2>1, <2>2 DEF Halves
<1>9. new = Resized(end - start, turned, n)
  BY DEF new
<1>10. 2 * Abs(Halves * (w[1] - start) + q * (w[2] - w[1] - (end - start))) <= Halves
       \/ w[1] = 0 \/ w[2] = n
  <2> HIDE DEF w
  <2> QED
    BY <1>6, <1>7, <1>8, Zenon DEF seen
<1> QED
  BY <1>3, <1>6, <1>7, <1>9, <1>10, Zenon


\* The points between two dates.
LEMMA ViewportOK ==
  ASSUME NEW n \in Lengths, n > 0, NEW from \in Int, NEW to \in Int, from <= to
  PROVE  LET w == Viewport(from, to, n)
         IN  /\ w[1] \in 0..n /\ w[2] \in 0..n /\ w[1] <= w[2] /\ (w[1] = w[2] => w[2] = 0)
             /\ to = LastPoint => w[2] = n
             /\ from <= LastPoint => w[1] < n
<1> DEFINE on == {i \in 0..(n - 1) : DateOf(i, n) >= from}
           after == {i \in 0..(n - 1) : DateOf(i, n) > to}
           w == Viewport(from, to, n)
<1>1. n \in Nat /\ LastPoint \in Nat /\ n <= LastPoint
  BY ChartConstants
<1>2. \A i \in Int : DateOf(i, n) = LastPoint - n + 1 + i
  BY DEF DateOf
<1>3. IsFiniteSet(0..(n - 1))
  BY <1>1, FS_Interval
<1>4. on \in SUBSET Int /\ after \in SUBSET Int /\ IsFiniteSet(on) /\ IsFiniteSet(after)
  BY <1>1, <1>3, FS_Subset
<1>5. w = <<IF on = {} THEN 0 ELSE Min(on), IF after = {} THEN n ELSE Min(after)>>
  BY DEF Viewport
<1>6. on # {} => Min(on) \in on /\ \A i \in on : Min(on) <= i
  BY <1>4, Extremes
<1>7. after # {} => Min(after) \in after /\ \A i \in after : Min(after) <= i
  BY <1>4, Extremes
<1>8. \A i \in 0..(n - 1) : /\ i \in on <=> LastPoint - n + 1 + i >= from
                            /\ i \in after <=> LastPoint - n + 1 + i > to
  BY <1>1, <1>2
<1>9. on \subseteq 0..(n - 1) /\ after \subseteq 0..(n - 1)
  OBVIOUS
<1> HIDE DEF on, after, w
<1>10. CASE after = {}
  <2>1. w[2] = n
    BY <1>5, <1>10
  <2>2. w[1] \in 0..(n - 1)
    <3>1. CASE on = {}
      <4>1. w[1] = 0
        BY <1>5, <3>1
      <4> QED
        BY <1>1, <4>1
    <3>2. CASE on # {}
      <4>1. w[1] = Min(on)
        BY <1>5, <3>2
      <4> QED
        BY <1>6, <1>9, <3>2, <4>1
    <3> QED
      BY <3>1, <3>2
  <2> QED
    BY <1>1, <2>1, <2>2 DEF w
<1>11. CASE after # {}
  <2> DEFINE a == Min(after)
  <2>1. a \in 0..(n - 1) /\ LastPoint - n + 1 + a > to /\ a \in on /\ on # {}
    <3>1. a \in 0..(n - 1) /\ a \in after
      BY <1>7, <1>9, <1>11
    <3> HIDE DEF a
    <3>2. LastPoint - n + 1 + a > to
      BY <1>8, <3>1
    <3>3. LastPoint - n + 1 + a >= from
      BY <1>1, <3>1, <3>2
    <3> QED
      BY <1>8, <3>1, <3>2, <3>3
  <2> DEFINE o == Min(on)
  <2>2. o \in 0..(n - 1) /\ LastPoint - n + 1 + o >= from /\ o <= a
    BY <1>1, <1>6, <1>8, <1>9, <2>1
  <2>3. w[1] = o /\ w[2] = a
    BY <1>5, <1>11, <2>1
  <2> HIDE DEF a, o
  <2>4. ASSUME o = a, a # 0 PROVE FALSE
    <3>1. a - 1 \in 0..(n - 1) /\ a - 1 \notin on
      <4>1. a - 1 \in 0..(n - 1)
        BY <1>1, <2>1, <2>4
      <4>2. \A i \in on : o <= i
        BY <1>6, <2>1 DEF o
      <4> QED
        BY <1>1, <2>1, <2>4, <4>1, <4>2
    <3>2. LastPoint - n + 1 + (a - 1) < from
      BY <1>1, <1>8, <3>1
    <3> QED
      BY <1>1, <2>1, <3>2
  <2>5. to # LastPoint
    BY <1>1, <2>1
  <2> QED
    BY <1>1, <2>1, <2>2, <2>3, <2>4, <2>5 DEF w
<1> QED
  BY <1>10, <1>11

\* A range of the buttons, and when it leaves the chart blank.
LEMMA WindowOfOK ==
  ASSUME NEW n \in Lengths, n > 0, NEW range \in Ranges, NEW page
  PROVE  LET w == WindowOf(page, range, n)
         IN  /\ w[1] \in 0..n /\ w[2] \in 0..n /\ w[1] <= w[2]
             /\ w[1] = w[2] => range \in Crises /\ Viewport(range[1], range[2], n)[2] = 0
<1>1. n \in Nat /\ LastPoint \in Nat /\ n <= LastPoint
  BY ChartConstants
<1>2. CASE range = AllPoints
  BY <1>1, <1>2 DEF WindowOf
<1>3. CASE range \in Crises /\ range # AllPoints
  <2>1. range[1] \in Int /\ range[2] \in Int /\ range[1] <= range[2]
    BY <1>3, ChartConstants
  <2>2. WindowOf(page, range, n) = Viewport(range[1], range[2], n)
    BY <1>3 DEF WindowOf
  <2> QED
    BY <1>3, <2>1, <2>2, ViewportOK
<1>4. CASE range \notin Crises /\ range # AllPoints
  <2>1. range[1] \in Nat \ {0}
    BY <1>4, ChartConstants DEF Ranges
  <2> DEFINE k == IF page = "risk" THEN range[1] ELSE range[1] + 1
             from == DateOf(IF k > n THEN 0 ELSE n - k, n)
  <2>2. k \in Nat \ {0}
    BY <2>1
  <2> HIDE DEF k
  <2>3. from \in Int /\ from <= LastPoint
    BY <1>1, <2>2 DEF DateOf
  <2>4. WindowOf(page, range, n) = Viewport(from, LastPoint, n)
    BY <1>4 DEF WindowOf, k
  <2> HIDE DEF from
  <2>5. LET w == Viewport(from, LastPoint, n) IN w[1] \in 0..n /\ w[2] = n /\ w[1] < n
    BY <1>1, <2>3, ViewportOK
  <2> QED
    BY <1>1, <2>4, <2>5
<1> QED
  BY <1>2, <1>3, <1>4

\* The first window.
LEMMA FirstWindowOK ==
  ASSUME NEW n \in Lengths, NEW page
  PROVE  LET w == FirstWindow(page, n)
         IN  /\ w[1] \in 0..n /\ w[2] = n /\ (n > 0 => w[1] < w[2])
             /\ page \in {"risk", "indicators"} => w = WindowOf(page, AllPoints, n)
BY ChartConstants DEF FirstWindow, WindowOf

-----------------------------------------------------------------------------
\* A crisis button may leave a chart of the risk blank.
BlankAsked == cw.page = "risk" /\ \E c \in Crises, n \in Lengths : Viewport(c[1], c[2], n)[2] = 0

\* What the runs check of the window, with what the drag remembers of it: a drag of
\* an empty window began where a crisis button had left the chart blank.
ChartInv ==
    /\ ChartTypeOK /\ WindowInData /\ RangeIsShown /\ DragIsHeld
    /\ cw.drag.active => cw.drag.start <= cw.drag.end /\ (cw.drag.start = cw.drag.end => BlankAsked)

\* The numbers of a chart.
LEMMA ChartNumbers ==
  ASSUME ChartTypeOK
  PROVE  /\ LastPoint \in Nat /\ MinVisible \in Nat /\ MinVisible >= 4
         /\ cw.len \in Lengths /\ cw.len \in Nat /\ cw.len \in Index /\ cw.len <= LastPoint
         /\ cw.start \in Nat /\ cw.end \in Nat /\ cw.start \in Index /\ cw.end \in Index
         /\ cw.drag.start \in Nat /\ cw.drag.end \in Nat /\ cw.drag.active \in BOOLEAN
<1>1. /\ cw.len \in Lengths /\ cw.start \in Index /\ cw.end \in Index
      /\ cw.drag.start \in Index /\ cw.drag.end \in Index /\ cw.drag.active \in BOOLEAN
  BY DEF ChartTypeOK
<1>2. LastPoint \in Nat /\ Lengths \subseteq 0..LastPoint /\ Index = 0..LastPoint /\ MinVisible \in Nat /\ MinVisible >= 4
  BY ChartConstants DEF Index
<1>3. \A i \in Index : i \in Nat /\ i <= LastPoint
  BY <1>2
<1>4. cw.len \in Index
  BY <1>1, <1>2
<1> QED
  BY <1>1, <1>2, <1>3, <1>4

\* A chart begins with a window of its data.
LEMMA ChartInitOK == ChartInit => ChartInv
<1> SUFFICES ASSUME NEW page \in ChartPage, NEW n \in Lengths,
                    cw = [page |-> page, len |-> n, start |-> FirstWindow(page, n)[1], end |-> n,
                          range |-> AllPoints, drag |-> NoDrag, button |-> FALSE, user |-> FALSE,
                          redone |-> FALSE, missed |-> FALSE]
             PROVE  ChartInv
  BY DEF ChartInit
<1>1. n \in Index /\ n \in Nat /\ LastPoint \in Nat /\ 0 \in Index
  BY ChartConstants DEF Index
<1>2. LET w == FirstWindow(page, n)
      IN  /\ w[1] \in 0..n /\ w[2] = n /\ (n > 0 => w[1] < w[2])
          /\ page \in {"risk", "indicators"} => w = WindowOf(page, AllPoints, n)
  BY FirstWindowOK
<1>3. FirstWindow(page, n)[1] \in Index
  BY <1>1, <1>2 DEF Index
<1>4. ChartTypeOK
  BY <1>1, <1>3 DEF ChartTypeOK, Ranges, NoDrag
<1>5. WindowInData
  BY <1>1, <1>2 DEF WindowInData
<1>6. RangeIsShown
  <2>1. FirstWindow(page, n) = <<FirstWindow(page, n)[1], FirstWindow(page, n)[2]>>
    BY DEF FirstWindow
  <2> QED
    BY <1>2, <2>1 DEF RangeIsShown
<1>7. DragIsHeld /\ ~cw.drag.active
  BY DEF DragIsHeld, NoDrag
<1> QED
  BY <1>4, <1>5, <1>6, <1>7 DEF ChartInv

\* The wheel.
LEMMA WheelKeeps ==
  ASSUME ChartInv, NEW turned \in BOOLEAN, NEW q \in Ratios, onWheel(turned, q)
  PROVE  ChartInv'
<1> DEFINE w == Zoomed(<<cw.start, cw.end>>, turned, q, cw.len)
<1>1. /\ ChartTypeOK /\ WindowInData /\ DragIsHeld /\ LastPoint \in Nat /\ Lengths \subseteq Nat
      /\ MinVisible \in Nat /\ cw.len > MinVisible
  BY ChartConstants DEF ChartInv, onWheel, Listens
<1>2. cw.len \in Nat /\ cw.len \in Index /\ cw.start \in 0..cw.len /\ cw.end \in 0..cw.len /\ cw.start <= cw.end
  BY <1>1, ChartNumbers DEF WindowInData
<1>3. w[1] \in 0..cw.len /\ w[2] \in 0..cw.len /\ w[1] < w[2]
  BY <1>1, <1>2, ZoomedOK, ChartConstants
<1>4. w[1] \in Index /\ w[2] \in Index
  BY <1>1, <1>2, <1>3 DEF Index
<1>5. cw' = [Shows(cw, w) EXCEPT !.user = TRUE]
  BY DEF onWheel
<1> HIDE DEF w
<1>6. cw' = [cw EXCEPT !.start = w[1], !.end = w[2], !.user = TRUE]
  BY <1>5 DEF Shows
<1>7. ChartTypeOK'
  BY <1>1, <1>4, <1>6 DEF ChartTypeOK
<1>8. /\ cw'.start = w[1] /\ cw'.end = w[2] /\ cw'.user /\ cw'.len = cw.len /\ cw'.page = cw.page
      /\ cw'.drag = cw.drag /\ cw'.button = cw.button /\ cw'.missed = cw.missed
  BY <1>1, <1>6 DEF ChartTypeOK
<1>9. WindowInData'
  BY <1>2, <1>3, <1>8 DEF WindowInData
<1> QED
  BY <1>7, <1>8, <1>9 DEF ChartInv, RangeIsShown, DragIsHeld, BlankAsked

\* A drag that goes on: the window it began with is held in the data.
LEMMA MoveKeeps ==
  ASSUME ChartInv, NEW shift \in -LastPoint..LastPoint, onMouseMove(shift)
  PROVE  ChartInv'
<1> DEFINE size == cw.drag.end - cw.drag.start
           at == cw.drag.start + (IF size = 0 THEN 0 ELSE shift)
           w == Inside(at, size, cw.len)
<1>1. /\ ChartTypeOK /\ WindowInData /\ DragIsHeld /\ LastPoint \in Nat /\ Lengths \subseteq Nat
      /\ MinVisible \in Nat /\ cw.len > MinVisible /\ cw.drag.active
      /\ cw.drag.start <= cw.drag.end /\ (cw.drag.start = cw.drag.end => BlankAsked)
  BY ChartConstants DEF ChartInv, onMouseMove, Listens, BlankAsked
<1>2. cw.len \in Nat /\ cw.len \in Index /\ cw.drag.start \in Nat /\ cw.drag.end \in Nat /\ cw.len > 0
  BY <1>1, ChartNumbers
<1>3. size \in Nat /\ at \in Int /\ (size = 0 => BlankAsked)
  BY <1>1, <1>2, ChartConstants
<1> HIDE DEF size, at
<1>4. w[1] \in 0..cw.len /\ w[2] \in 0..cw.len /\ w[1] <= w[2] /\ (w[1] = w[2] => size = 0)
  <2>1. w[1] \in 0..cw.len /\ w[2] \in 0..cw.len /\ w[1] <= w[2] /\ (size > 0 => w[1] < w[2])
    BY <1>2, <1>3, InsideOK
  <2> QED
    BY <1>2, <1>3, <2>1
<1>5. w[1] \in Index /\ w[2] \in Index
  BY <1>1, <1>2, <1>4 DEF Index
<1>6. cw' = [Shows(cw, w) EXCEPT !.user = TRUE]
  BY DEF onMouseMove, size, at
<1> HIDE DEF w
<1>7. cw' = [cw EXCEPT !.start = w[1], !.end = w[2], !.user = TRUE]
  BY <1>6 DEF Shows
<1>8. ChartTypeOK'
  BY <1>1, <1>5, <1>7 DEF ChartTypeOK
<1>9. /\ cw'.start = w[1] /\ cw'.end = w[2] /\ cw'.user /\ cw'.len = cw.len /\ cw'.page = cw.page
      /\ cw'.drag = cw.drag /\ cw'.button = cw.button /\ cw'.missed = cw.missed
  BY <1>1, <1>7 DEF ChartTypeOK
<1>10. WindowInData'
  BY <1>2, <1>3, <1>4, <1>9 DEF WindowInData, BlankAsked
<1> QED
  BY <1>1, <1>8, <1>9, <1>10 DEF ChartInv, RangeIsShown, DragIsHeld, BlankAsked

\* The button of the mouse.
LEMMA ButtonKeeps ==
  ASSUME ChartInv, onMouseDown \/ onMouseUp \/ onMouseLeave
  PROVE  ChartInv'
<1>1. /\ ChartTypeOK /\ WindowInData /\ DragIsHeld /\ RangeIsShown
      /\ LastPoint \in Nat /\ Lengths \subseteq Nat /\ MinVisible \in Nat
      /\ cw.drag.active => cw.drag.start <= cw.drag.end /\ (cw.drag.start = cw.drag.end => BlankAsked)
  BY ChartConstants DEF ChartInv, BlankAsked
<1>2. ChartTypeOK'
  <2>1. CASE onMouseDown
    <3>1. PICK d \in [active: BOOLEAN, start: Index, end: Index] : cw' = [cw EXCEPT !.button = TRUE, !.drag = d]
      BY <1>1, <2>1 DEF ChartTypeOK, onMouseDown
    <3> QED
      BY <1>1, <3>1 DEF ChartTypeOK
  <2>2. CASE onMouseUp
    <3>1. PICK b \in BOOLEAN, m \in BOOLEAN :
            cw' = [cw EXCEPT !.button = FALSE, !.drag.active = b, !.missed = m]
      <4> DEFINE b == ~Listens /\ cw.drag.active
                 m == ~Listens /\ (cw.missed \/ cw.drag.active)
      <4>1. b \in BOOLEAN /\ m \in BOOLEAN
        OBVIOUS
      <4>2. cw' = [cw EXCEPT !.button = FALSE, !.drag.active = b, !.missed = m]
        BY <2>2 DEF onMouseUp
      <4> HIDE DEF b, m
      <4> QED
        BY <4>1, <4>2
    <3> QED
      BY <1>1, <3>1 DEF ChartTypeOK
  <2>3. CASE onMouseLeave
    BY <1>1, <2>3 DEF ChartTypeOK, onMouseLeave
  <2> QED
    BY <2>1, <2>2, <2>3
<1>3. /\ cw'.start = cw.start /\ cw'.end = cw.end /\ cw'.user = cw.user /\ cw'.redone = cw.redone
      /\ cw'.len = cw.len /\ cw'.page = cw.page /\ cw'.range = cw.range
  BY <1>1 DEF ChartTypeOK, onMouseDown, onMouseUp, onMouseLeave
<1>4. DragIsHeld'
  <2>1. CASE onMouseDown
    BY <1>1, <2>1 DEF ChartTypeOK, DragIsHeld, onMouseDown
  <2>2. CASE onMouseUp
    <3>1. cw'.drag.active = (~Listens /\ cw.drag.active) /\ cw'.missed = (~Listens /\ (cw.missed \/ cw.drag.active))
      BY <1>1, <2>2 DEF ChartTypeOK, onMouseUp
    <3> QED
      BY <3>1, Zenon DEF DragIsHeld
  <2>3. CASE onMouseLeave
    BY <1>1, <2>3 DEF ChartTypeOK, DragIsHeld, onMouseLeave
  <2> QED
    BY <2>1, <2>2, <2>3
<1>5. cw'.drag.active => cw'.drag.start <= cw'.drag.end /\ (cw'.drag.start = cw'.drag.end => BlankAsked)
  <2>1. CASE onMouseDown
    <3>1. CASE Listens
      <4>1. cw'.drag = [active |-> TRUE, start |-> cw.start, end |-> cw.end]
        BY <1>1, <2>1, <3>1 DEF ChartTypeOK, onMouseDown
      <4>2. cw.len > 0 /\ cw.start <= cw.end
        BY <1>1, <3>1, ChartNumbers DEF Listens, WindowInData
      <4> QED
        BY <1>1, <4>1, <4>2 DEF WindowInData, BlankAsked
    <3>2. CASE ~Listens
      BY <1>1, <2>1, <3>2 DEF ChartTypeOK, onMouseDown
    <3> QED
      BY <3>1, <3>2
  <2>2. CASE onMouseUp \/ onMouseLeave
    <3>1. cw'.drag.active => cw.drag.active /\ cw'.drag.start = cw.drag.start /\ cw'.drag.end = cw.drag.end
      BY <1>1, <2>2 DEF ChartTypeOK, onMouseUp, onMouseLeave
    <3> QED
      BY <1>1, <3>1
  <2> QED
    BY <2>1, <2>2
<1>6. WindowInData' /\ RangeIsShown'
  BY <1>1, <1>3 DEF WindowInData, RangeIsShown
<1> QED
  BY <1>2, <1>3, <1>4, <1>5, <1>6 DEF ChartInv, BlankAsked

\* A range button.
LEMMA RangeKeeps ==
  ASSUME ChartInv, NEW range \in Ranges, ApplyRange(range)
  PROVE  ChartInv'
<1> DEFINE w == WindowOf(cw.page, range, cw.len)
<1>1. ChartTypeOK /\ DragIsHeld /\ LastPoint \in Nat /\ Lengths \subseteq Nat /\ cw.len > 0
  BY ChartConstants DEF ChartInv, ApplyRange
<1>2. cw.len \in Lengths /\ cw.len \in Nat /\ cw.len \in Index /\ cw.len <= LastPoint
  BY <1>1, ChartNumbers
<1>3. /\ w[1] \in 0..cw.len /\ w[2] \in 0..cw.len /\ w[1] <= w[2]
      /\ w[1] = w[2] => range \in Crises /\ Viewport(range[1], range[2], cw.len)[2] = 0
  BY <1>1, <1>2, WindowOfOK
<1>4. w[1] \in Index /\ w[2] \in Index
  BY <1>1, <1>2, <1>3 DEF Index
<1>5. w = <<w[1], w[2]>>
  BY DEF WindowOf, Viewport
<1>6. cw' = [Shows(cw, w) EXCEPT !.range = range, !.user = FALSE, !.redone = FALSE]
  BY DEF ApplyRange
<1>7. cw' = [cw EXCEPT !.start = w[1], !.end = w[2], !.range = range, !.user = FALSE, !.redone = FALSE]
  BY <1>6 DEF Shows
<1>8. w[1] = w[2] => BlankAsked
  BY <1>2, <1>3 DEF BlankAsked, ApplyRange
<1>9. w = WindowOf(cw.page, range, cw.len)
  OBVIOUS
<1> HIDE DEF w
<1>10. ChartTypeOK'
  BY <1>1, <1>4, <1>7 DEF ChartTypeOK
<1>11. /\ cw'.start = w[1] /\ cw'.end = w[2] /\ cw'.range = range /\ cw'.len = cw.len /\ cw'.page = cw.page
       /\ cw'.drag = cw.drag /\ cw'.button = cw.button /\ cw'.missed = cw.missed
  BY <1>1, <1>7 DEF ChartTypeOK
<1>12. WindowInData'
  BY <1>2, <1>3, <1>8, <1>11 DEF WindowInData, BlankAsked
<1>13. RangeIsShown'
  BY <1>5, <1>9, <1>11 DEF RangeIsShown
<1> QED
  BY <1>10, <1>11, <1>12, <1>13 DEF ChartInv, DragIsHeld, BlankAsked

\* New data.
LEMMA DataKeeps ==
  ASSUME ChartInv, NEW n \in Lengths, DataArrive(n)
  PROVE  ChartInv'
<1> DEFINE w == FirstWindow(cw.page, n)
           begins == n > 0 /\ (cw.page = "price" \/ n # cw.len)
           s == [cw EXCEPT !.len = n, !.redone = @ \/ (begins /\ cw.range # AllPoints),
                           !.user = @ /\ ~begins]
<1>1. ChartTypeOK /\ DragIsHeld /\ WindowInData /\ RangeIsShown /\ LastPoint \in Nat /\ Lengths \subseteq 0..LastPoint
  BY ChartConstants DEF ChartInv
<1>2. n \in Nat /\ n \in Index /\ w[1] \in 0..n /\ w[2] = n /\ (n > 0 => w[1] < w[2])
  BY <1>1, FirstWindowOK DEF Index
<1>3. cw.page \in {"risk", "indicators"} => <<w[1], w[2]>> = WindowOf(cw.page, AllPoints, n)
  BY FirstWindowOK DEF FirstWindow
<1>4. w[1] \in Index /\ w[2] \in Index
  BY <1>1, <1>2 DEF Index
<1>5. cw' = IF begins THEN Shows(s, w) ELSE s
  BY DEF DataArrive
<1> HIDE DEF w
<1>6. CASE begins
  <2>1. cw' = [cw EXCEPT !.len = n, !.redone = @ \/ cw.range # AllPoints, !.user = FALSE,
                         !.start = w[1], !.end = w[2]]
    BY <1>1, <1>5, <1>6 DEF Shows, ChartTypeOK
  <2>2. ChartTypeOK'
    BY <1>1, <1>4, <2>1 DEF ChartTypeOK
  <2>3. /\ cw'.start = w[1] /\ cw'.end = w[2] /\ cw'.range = cw.range /\ cw'.len = n /\ cw'.page = cw.page
        /\ cw'.drag = cw.drag /\ cw'.button = cw.button /\ cw'.missed = cw.missed
        /\ ~cw'.redone => cw.range = AllPoints
    BY <1>1, <2>1 DEF ChartTypeOK
  <2>4. WindowInData'
    BY <1>2, <1>6, <2>3 DEF WindowInData
  <2>5. RangeIsShown'
    BY <1>3, <2>3 DEF RangeIsShown
  <2> QED
    BY <2>2, <2>3, <2>4, <2>5 DEF ChartInv, DragIsHeld, BlankAsked
<1>7. CASE ~begins
  <2>1. cw' = [cw EXCEPT !.len = n]
    BY <1>1, <1>5, <1>7 DEF ChartTypeOK
  <2>2. ChartTypeOK'
    BY <1>1, <2>1 DEF ChartTypeOK
  <2>3. /\ cw'.start = cw.start /\ cw'.end = cw.end /\ cw'.range = cw.range /\ cw'.len = n /\ cw'.page = cw.page
        /\ cw'.drag = cw.drag /\ cw'.button = cw.button /\ cw'.missed = cw.missed
        /\ cw'.user = cw.user /\ cw'.redone = cw.redone /\ (n = cw.len \/ ~(n > 0))
    BY <1>1, <1>7, <2>1 DEF ChartTypeOK
  <2>4. WindowInData'
    BY <1>1, <2>3 DEF WindowInData
  <2>5. RangeIsShown'
    BY <1>1, <2>3 DEF RangeIsShown
  <2> QED
    BY <2>2, <2>3, <2>4, <2>5 DEF ChartInv, DragIsHeld, BlankAsked
<1> QED
  BY <1>6, <1>7

\* A chart that is mounted again, or of another indicator.
LEMMA MountKeeps ==
  ASSUME ChartInv, Remount \/ \E n \in Lengths : SelectIndicator(n)
  PROVE  ChartInv'
<1>1. ChartTypeOK /\ LastPoint \in Nat /\ Lengths \subseteq 0..LastPoint /\ 0 \in Index /\ NoDrag.active = FALSE
  BY ChartConstants DEF ChartInv, Index, NoDrag
<1>2. NoDrag \in [active: BOOLEAN, start: Index, end: Index]
  BY <1>1 DEF NoDrag
<1>3. CASE Remount
  <2> DEFINE n == cw.len
             w == FirstWindow(cw.page, n)
  <2>1. n \in Lengths /\ n \in Nat /\ n \in Index /\ w[1] \in 0..n /\ w[2] = n /\ (n > 0 => w[1] < w[2])
    BY <1>1, FirstWindowOK, ChartNumbers
  <2>2. cw.page \in {"risk", "indicators"} => <<w[1], w[2]>> = WindowOf(cw.page, AllPoints, n)
    BY <2>1, FirstWindowOK DEF FirstWindow
  <2>3. w[1] \in Index /\ w[2] \in Index
    BY <1>1, <2>1 DEF Index
  <2>4. cw' = [cw EXCEPT !.start = w[1], !.end = w[2], !.drag = NoDrag, !.missed = FALSE, !.user = FALSE,
                         !.redone = cw.range # AllPoints]
    BY <1>3 DEF Remount, Shows
  <2> HIDE DEF w
  <2>5. ChartTypeOK'
    BY <1>1, <1>2, <2>3, <2>4 DEF ChartTypeOK
  <2>6. /\ cw'.start = w[1] /\ cw'.end = w[2] /\ cw'.range = cw.range /\ cw'.len = n /\ cw'.page = cw.page
        /\ cw'.drag = NoDrag /\ (~cw'.redone => cw.range = AllPoints)
    BY <1>1, <2>4 DEF ChartTypeOK
  <2>7. WindowInData'
    BY <2>1, <2>6 DEF WindowInData
  <2>8. RangeIsShown'
    BY <2>2, <2>6 DEF RangeIsShown
  <2> QED
    BY <1>1, <2>5, <2>6, <2>7, <2>8 DEF ChartInv, DragIsHeld
<1>4. ASSUME NEW n \in Lengths, SelectIndicator(n) PROVE ChartInv'
  <2>1. n \in Nat /\ n \in Index
    BY <1>1 DEF Index
  <2>2. cw' = [cw EXCEPT !.start = 0, !.end = n, !.len = n, !.range = AllPoints, !.drag = NoDrag,
                         !.missed = FALSE, !.user = FALSE, !.redone = FALSE]
    BY <1>4 DEF SelectIndicator, Shows
  <2>3. AllPoints \in Ranges
    BY DEF Ranges
  <2>4. ChartTypeOK'
    BY <1>1, <1>2, <2>1, <2>2, <2>3 DEF ChartTypeOK
  <2>5. cw'.start = 0 /\ cw'.end = n /\ cw'.range = AllPoints /\ cw'.len = n /\ cw'.drag = NoDrag
    BY <1>1, <2>2 DEF ChartTypeOK
  <2>6. WindowInData'
    BY <2>1, <2>5 DEF WindowInData
  <2>7. RangeIsShown'
    BY <2>5 DEF RangeIsShown, WindowOf
  <2> QED
    BY <1>1, <2>4, <2>5, <2>6, <2>7 DEF ChartInv, DragIsHeld
<1> QED
  BY <1>3, <1>4

\* The window keeps to its invariant.
LEMMA ChartStep == ChartInv /\ [ChartNext]_chartVars => ChartInv'
<1> SUFFICES ASSUME ChartInv, [ChartNext]_chartVars PROVE ChartInv'
  OBVIOUS
<1>1. CASE UNCHANGED chartVars
  BY <1>1 DEF chartVars, ChartInv, ChartTypeOK, WindowInData, RangeIsShown, DragIsHeld, BlankAsked
<1> QED
  BY <1>1, WheelKeeps, MoveKeeps, ButtonKeeps, RangeKeeps, DataKeeps, MountKeeps DEF ChartNext

-----------------------------------------------------------------------------
\* The zoom, and what is drawn of the window.

\* A turn of the wheel does what it should.
LEMMA ZoomIsSound == ChartInv => ZoomMoves
<1> SUFFICES ASSUME ChartInv, Listens, NEW turned \in BOOLEAN, NEW p \in Ratios, NEW q \in Ratios
             PROVE  LET w == Zoomed(<<cw.start, cw.end>>, turned, q, cw.len)
                        size == w[2] - w[1]
                        moved == Halves * (w[1] - cw.start) + p * (size - Seen)
                        off == (p - q) * (size - Seen)
                    IN  /\ IF turned THEN size > Seen \/ size = cw.len \/ Seen < MinVisible
                           ELSE size < Seen \/ size = MinVisible
                        /\ 2 * Abs(moved) <= Halves + 2 * Abs(off) \/ w[1] = 0 \/ w[2] = cw.len
  BY DEF ZoomMoves
<1>1. ChartTypeOK /\ WindowInData /\ p \in Int /\ q \in Int
  BY ChartConstants DEF ChartInv
<1>2. cw.len \in Nat /\ cw.len > MinVisible /\ MinVisible \in Nat /\ MinVisible >= 4
  BY <1>1, ChartNumbers DEF Listens
<1>3. cw.start \in 0..cw.len /\ cw.end \in 0..cw.len /\ cw.start <= cw.end /\ Seen \in 0..cw.len
  BY <1>1, <1>2, ChartNumbers DEF WindowInData, Seen
<1> DEFINE w == Zoomed(<<cw.start, cw.end>>, turned, q, cw.len)
           size == w[2] - w[1]
           won == size - Seen
           from == Halves * (w[1] - cw.start)
<1>4. /\ w[1] \in 0..cw.len /\ w[2] \in 0..cw.len
      /\ size = Resized(Seen, turned, cw.len)
      /\ 2 * Abs(Halves * (w[1] - cw.start) + q * (size - Seen)) <= Halves \/ w[1] = 0 \/ w[2] = cw.len
  BY <1>1, <1>2, <1>3, ZoomedOK DEF Seen
<1> HIDE DEF w
<1>5. IF turned THEN size > Seen \/ size = cw.len \/ Seen < MinVisible ELSE size < Seen \/ size = MinVisible
  <2>1. /\ turned => Resized(Seen, turned, cw.len) > Seen \/ Resized(Seen, turned, cw.len) = cw.len \/ Seen < MinVisible
        /\ ~turned => Resized(Seen, turned, cw.len) < Seen \/ Resized(Seen, turned, cw.len) = MinVisible
    BY <1>2, <1>3, ResizedOK
  <2> HIDE DEF size
  <2> QED
    BY <1>4, <2>1, Zenon
<1>6. won \in Int /\ from \in Int
  BY <1>2, <1>3, <1>4 DEF Halves
<1>7. 2 * Abs(from + q * won) <= Halves => 2 * Abs(from + p * won) <= Halves + 2 * Abs((p - q) * won)
  <2> HIDE DEF won, from
  <2> QED
    BY <1>1, <1>6, OffBy
<1>8. 2 * Abs(from + p * won) <= Halves + 2 * Abs((p - q) * won) \/ w[1] = 0 \/ w[2] = cw.len
  BY <1>4, <1>7, Zenon
<1> QED
  BY <1>5, <1>8, Zenon DEF w

\* The dates of the points in the window, and how far each is from the first.
LEMMA DatesOK ==
  ASSUME ChartInv, Seen > 0, cw.len > 0
  PROVE  /\ Seen \in Nat \ {0} /\ Seen <= cw.len /\ cw.start + Seen = cw.end /\ cw.end <= cw.len
         /\ cw.len \in Nat /\ cw.start \in Nat
         /\ SeenDates \subseteq 1..LastPoint /\ SeenDates # {} /\ IsFiniteSet(SeenDates)
         /\ \A d \in SeenDates : Place(d) \in 0..(Seen - 1)
<1>1. ChartTypeOK /\ WindowInData /\ Seen = cw.end - cw.start
  BY DEF ChartInv, Seen
<1>2. /\ cw.len \in Nat /\ cw.start \in Nat /\ cw.end \in Nat /\ cw.start <= cw.end /\ cw.end <= cw.len
      /\ LastPoint \in Nat /\ cw.len <= LastPoint
  BY <1>1, ChartNumbers DEF WindowInData
<1>3. Seen \in Nat \ {0} /\ Seen <= cw.len /\ cw.start + Seen = cw.end
  BY <1>1, <1>2
<1>4. SeenDates = {LastPoint - cw.len + 1 + i : i \in cw.start..(cw.end - 1)}
  BY DEF SeenDates, DateOf
<1>5. SeenDates \subseteq 1..LastPoint
  BY <1>2, <1>4
<1>6. LastPoint - cw.len + 1 + cw.start \in SeenDates
  <2>1. cw.start \in cw.start..(cw.end - 1)
    BY <1>2, <1>3
  <2> QED
    BY <1>4, <2>1
<1>7. IsFiniteSet(SeenDates)
  <2>1. IsFiniteSet(1..LastPoint) /\ SeenDates \in SUBSET (1..LastPoint)
    BY <1>2, <1>5, FS_Interval
  <2> QED
    BY <2>1, FS_Subset
<1>8. ASSUME NEW d \in SeenDates PROVE Place(d) \in 0..(Seen - 1)
  <2>1. PICK i \in cw.start..(cw.end - 1) : d = LastPoint - cw.len + 1 + i
    BY <1>4
  <2>2. Place(d) = i - cw.start
    BY <1>2, <2>1 DEF Place, DateOf
  <2> QED
    BY <1>2, <1>3, <2>1, <2>2
<1> QED
  BY <1>2, <1>3, <1>5, <1>6, <1>7, <1>8

\* Every mark lies in the window.
LEMMA SpansOK ==
  ASSUME ChartInv, Seen > 0, cw.len > 0, NEW s \in Signs, SignDrawn(s)
  PROVE  LET w == SignSpan(s) IN 0 <= w[1] /\ w[1] <= w[2] /\ w[2] < Seen
<1> DEFINE at == IF s.kind = "OTE" THEN 0 ELSE Place(s.date)
           from == at - Stretch(s.kind)[1]
           to == at + Stretch(s.kind)[2]
<1>1. Seen \in Nat \ {0} /\ LastPoint \in Nat
  BY DatesOK, ChartConstants
<1>2. at \in 0..(Seen - 1)
  <2>1. CASE s.kind = "OTE"
    BY <1>1, <2>1
  <2>2. CASE s.kind # "OTE"
    <3>1. s.date \in SeenDates
      BY <2>2 DEF SignDrawn
    <3> QED
      BY <2>2, <3>1, DatesOK
  <2> QED
    BY <2>1, <2>2
<1>3. Stretch(s.kind)[1] \in Nat /\ Stretch(s.kind)[2] \in Nat
  <2>1. s.kind \in {"FVG", "BOS", "CHoCH", "OB", "OTE"}
    BY ChartConstants
  <2> QED
    BY <1>1, <2>1 DEF Stretch
<1>4. SignSpan(s) = <<IF from < 0 THEN 0 ELSE from, IF to > Seen - 1 THEN Seen - 1 ELSE to>>
  BY DEF SignSpan
<1> HIDE DEF at
<1> QED
  BY <1>1, <1>2, <1>3, <1>4

\* The legend counts what is drawn.
LEMMA LegendOK ==
  ASSUME NEW kind \in {"FVG", "BOS", "CHoCH"}
  PROVE  LegendCount(kind) = Cardinality({s \in Signs : s.kind = kind /\ SignDrawn(s)})
<1>1. \A s \in Signs : s.kind = kind => (SignDrawn(s) <=> s.date \in SeenDates)
  BY DEF SignDrawn
<1>2. {s \in Signs : s.kind = kind /\ IF kind = "OTE" THEN s.active ELSE s.date \in SeenDates}
        = {s \in Signs : s.kind = kind /\ SignDrawn(s)}
  BY <1>1
<1> QED
  BY <1>2 DEF LegendCount

\* A number that is divided without rest.
LEMMA Division ==
  ASSUME NEW i \in Nat, NEW k \in Nat \ {0}, i % k = 0
  PROVE  i \div k \in Nat /\ i = k * (i \div k)
<1>1. i = k * (i \div k) + (i % k)
  OBVIOUS
<1>2. i \div k \in Nat
  OBVIOUS
<1> QED
  BY <1>1, <1>2

\* The labels of dates.
LEMMA LabelsOK ==
  ASSUME NEW most \in Nat \ {0}, Seen \in Nat \ {0}
  PROVE  0 \in Labels(most) /\ Cardinality(Labels(most)) <= most
<1> DEFINE k == LabelStep(most)
<1>1. k \in Nat \ {0} /\ Seen <= k * most
  BY DEF LabelStep
<1>2. Labels(most) = {i \in 0..(Seen - 1) : i % k = 0}
  BY <1>1 DEF Labels
<1> HIDE DEF k
<1>3. 0 \in Labels(most)
  BY <1>1, <1>2
<1> DEFINE f == [i \in Labels(most) |-> i \div k]
<1>4. \A i \in Labels(most) : i \in Nat /\ i < Seen /\ i \div k \in Nat /\ i = k * (i \div k)
  <2> TAKE i \in Labels(most)
  <2>1. i \in Nat /\ i < Seen /\ i % k = 0
    BY <1>2
  <2> QED
    BY <1>1, <2>1, Division
<1>5. \A i \in Labels(most) : i \div k \in 0..(most - 1)
  <2> TAKE i \in Labels(most)
  <2> DEFINE j == i \div k
  <2>1. i \in Nat /\ i < Seen /\ j \in Nat /\ i = k * j
    BY <1>4
  <2> HIDE DEF j
  <2>2. ASSUME j >= most PROVE FALSE
    <3>1. k * j >= k * most
      BY <1>1, <2>1, <2>2
    <3> QED
      BY <1>1, <2>1, <3>1
  <2>3. j \in 0..(most - 1)
    BY <2>1, <2>2
  <2> QED
    BY <2>3 DEF j
<1>6. f \in Injection(Labels(most), 0..(most - 1))
  <2>1. f \in [Labels(most) -> 0..(most - 1)]
    BY <1>5
  <2>2. \A a, b \in Labels(most) : f[a] = f[b] => a = b
    <3> TAKE a, b \in Labels(most)
    <3>1. a = k * (a \div k) /\ b = k * (b \div k)
      BY <1>4
    <3> QED
      BY <3>1
  <2> HIDE DEF f
  <2> QED
    BY <2>1, <2>2 DEF Injection, IsInjective
<1> HIDE DEF f
<1>7. IsFiniteSet(0..(most - 1)) /\ Cardinality(0..(most - 1)) = most
  BY FS_Interval
<1> QED
  BY <1>3, <1>6, <1>7, FS_Injection

\* The bar under a chart ends where the chart does.
LEMMA ThumbOK ==
  ASSUME ChartInv, Seen > 0, cw.len > 0
  PROVE  Thumb[1] + Thumb[2] <= 100
<1> DEFINE a == (100 * cw.start) \div cw.len
           b == (100 * Seen) \div cw.len
<1>1. Seen \in Nat \ {0} /\ cw.start \in Nat /\ cw.len \in Nat \ {0} /\ cw.start + Seen <= cw.len
  BY DatesOK
<1>2. a \in Int /\ b \in Int /\ a * cw.len <= 100 * cw.start /\ b * cw.len <= 100 * Seen
  BY <1>1
<1>3. Thumb[1] = a /\ Thumb[2] = b
  BY DEF Thumb
<1> HIDE DEF a, b
<1>4. ASSUME a + b > 100 PROVE FALSE
  <2>1. (a + b) * cw.len >= 101 * cw.len
    BY <1>1, <1>2, <1>4
  <2>2. (a + b) * cw.len = a * cw.len + b * cw.len
    BY <1>1, <1>2
  <2> QED
    BY <1>1, <1>2, <2>1, <2>2
<1> QED
  BY <1>2, <1>3, <1>4

\* A zone covers the points between its dates.
LEMMA ZonesOK ==
  ASSUME ChartInv, Seen > 0, cw.len > 0, NEW from \in SeenDates, NEW to \in SeenDates, to > from
  PROVE  ZoneDrawn(from, to) = <<Place(from), Place(to)>>
<1> DEFINE between == {d \in SeenDates : d >= from /\ d <= to}
<1>1. SeenDates \subseteq Int /\ IsFiniteSet(SeenDates)
  BY DatesOK, ChartConstants
<1>2. between \subseteq Int /\ IsFiniteSet(between) /\ from \in between /\ to \in between /\ from # to
  <2>1. between \in SUBSET SeenDates
    OBVIOUS
  <2>2. IsFiniteSet(between)
    BY <1>1, <2>1, FS_Subset
  <2>3. from \in Int /\ to \in Int
    BY <1>1
  <2>4. from \in between /\ to \in between /\ from # to
    BY <2>3
  <2>5. between \subseteq Int
    BY <1>1
  <2> QED
    BY <2>2, <2>4, <2>5
<1>3. \A d \in between : from <= d /\ d <= to
  OBVIOUS
<1>4. Cardinality({from, to}) = 2 /\ {from, to} = {from} \cup {to}
  <2>1. {from, to} = {from} \cup {to}
    OBVIOUS
  <2> QED
    <3>1. IsFiniteSet({from}) /\ Cardinality({from}) = 1 /\ to \notin {from}
      BY <1>2, FS_Singleton
    <3>2. Cardinality({from} \cup {to}) = Cardinality({from}) + 1
      BY <3>1, FS_AddElement
    <3> QED
      BY <2>1, <3>1, <3>2
<1> HIDE DEF between
<1>5. Cardinality(between) >= 2
  <2>1. {from, to} \in SUBSET between
    BY <1>2
  <2>2. Cardinality({from, to}) <= Cardinality(between) /\ Cardinality(between) \in Nat
    BY <1>2, <2>1, FS_Subset, FS_CardinalityType
  <2> QED
    BY <1>4, <2>2
<1>6. Min(between) = from /\ Max(between) = to
  <2>1. /\ Min(between) \in between /\ \A d \in between : Min(between) <= d
        /\ Max(between) \in between /\ \A d \in between : d <= Max(between)
    BY <1>2, Extremes
  <2> QED
    <3>1. Min(between) \in Int /\ Max(between) \in Int /\ from \in Int /\ to \in Int
      BY <1>2, <2>1
    <3>2. Min(between) <= from /\ from <= Min(between) /\ Max(between) <= to /\ to <= Max(between)
      BY <1>2, <1>3, <2>1
    <3> QED
      BY <3>1, <3>2
<1>7. Cardinality(between) \in Nat
  BY <1>2, FS_CardinalityType
<1>8. ZoneDrawn(from, to) = IF Cardinality(between) < 2 THEN <<>> ELSE <<Place(Min(between)), Place(Max(between))>>
  BY DEF ZoneDrawn, between
<1>9. ~(Cardinality(between) < 2)
  BY <1>5, <1>7
<1> QED
  BY <1>6, <1>8, <1>9, Zenon

\* The prices that are drawn.
LEMMA DrawnOK ==
  ASSUME ChartInv, Seen > 0, cw.len > 0, NEW ema \in BOOLEAN, NEW candles \in BOOLEAN
  PROVE  Drawn(ema, candles) \in SUBSET Int /\ Drawn(ema, candles) # {} /\ IsFiniteSet(Drawn(ema, candles))
<1> DEFINE of(d) == (IF candles THEN {Bars[d].low, Bars[d].high} ELSE {Bars[d].close}) \cup
                    (IF ema THEN {Bars[d].ema} \ {NoEma} ELSE {})
           f == [d \in SeenDates |-> of(d)]
           T == {of(d) : d \in SeenDates}
<1>1. SeenDates \subseteq 1..LastPoint /\ SeenDates # {} /\ IsFiniteSet(SeenDates)
  BY DatesOK
<1>2. ASSUME NEW d \in SeenDates PROVE of(d) \subseteq Int /\ of(d) # {} /\ IsFiniteSet(of(d))
  <2>1. {Bars[d].low, Bars[d].high, Bars[d].close} \subseteq Int /\ Bars[d].ema \in Int \cup {NoEma}
    BY <1>1, ChartConstants
  <2>2. of(d) \subseteq Int /\ of(d) # {}
    BY <2>1
  <2>3. of(d) \in SUBSET {Bars[d].low, Bars[d].high, Bars[d].close, Bars[d].ema}
    OBVIOUS
  <2>4. IsFiniteSet({Bars[d].low, Bars[d].high, Bars[d].close, Bars[d].ema})
    <3>1. {Bars[d].low, Bars[d].high, Bars[d].close, Bars[d].ema}
            = (({Bars[d].low} \cup {Bars[d].high}) \cup {Bars[d].close}) \cup {Bars[d].ema}
      OBVIOUS
    <3>2. IsFiniteSet({Bars[d].low})
      BY FS_Singleton
    <3>3. IsFiniteSet({Bars[d].low} \cup {Bars[d].high})
      BY <3>2, FS_AddElement
    <3>4. IsFiniteSet(({Bars[d].low} \cup {Bars[d].high}) \cup {Bars[d].close})
      BY <3>3, FS_AddElement
    <3>5. IsFiniteSet((({Bars[d].low} \cup {Bars[d].high}) \cup {Bars[d].close}) \cup {Bars[d].ema})
      BY <3>4, FS_AddElement
    <3> QED
      BY <3>1, <3>5, Zenon
  <2> HIDE DEF of
  <2> QED
    BY <2>2, <2>3, <2>4, FS_Subset
<1>3. Drawn(ema, candles) = UNION T
  BY DEF Drawn
<1>4. f \in Surjection(SeenDates, T)
  <2> HIDE DEF of
  <2>1. f \in [SeenDates -> T] /\ \A t \in T : \E d \in SeenDates : f[d] = t
    OBVIOUS
  <2> HIDE DEF f, T
  <2> QED
    BY <2>1 DEF Surjection
<1> HIDE DEF of, f
<1>5. IsFiniteSet(T)
  <2> HIDE DEF T
  <2> QED
    BY <1>1, <1>4, FS_Surjection
<1>6. \A t \in T : t \subseteq Int /\ t # {} /\ IsFiniteSet(t)
  BY <1>2
<1>7. T # {}
  BY <1>1
<1> HIDE DEF T
<1> QED
  BY <1>3, <1>5, <1>6, <1>7, FS_UNION

\* An axis a twentieth of the prices' range wider on either side holds them all,
\* unless they are all the same.
LEMMA AxisHolds ==
  ASSUME NEW v \in SUBSET Int, v # {}, IsFiniteSet(v), NEW range \in Int,
         range = Max(v) - Min(v) \/ (Max(v) = Min(v) /\ range = 1)
  PROVE  /\ Max(v) = Min(v) => Cardinality(v) = 1
         /\ range > 0 => \A p \in v : 20 * Min(v) - range < 20 * p /\ 20 * p < 20 * Max(v) + range
         /\ Min(v) \in Int /\ Max(v) \in Int /\ Min(v) <= Max(v)
<1>1. /\ Min(v) \in v /\ \A x \in v : Min(v) <= x
      /\ Max(v) \in v /\ \A x \in v : x <= Max(v)
  BY Extremes
<1>2. Min(v) \in Int /\ Max(v) \in Int /\ Min(v) <= Max(v)
  BY <1>1
<1>3. ASSUME Max(v) = Min(v) PROVE Cardinality(v) = 1
  <2>1. v = {Min(v)}
    <3>1. ASSUME NEW x \in v PROVE x = Min(v)
      <4>1. x \in Int /\ Min(v) <= x /\ x <= Min(v)
        BY <1>1, <1>3
      <4> QED
        BY <1>2, <4>1
    <3> QED
      BY <1>1, <3>1
  <2> QED
    BY <2>1, FS_Singleton
<1>4. ASSUME range > 0, NEW p \in v PROVE 20 * Min(v) - range < 20 * p /\ 20 * p < 20 * Max(v) + range
  <2>1. p \in Int /\ Min(v) <= p /\ p <= Max(v)
    BY <1>1
  <2> QED
    BY <1>2, <1>4, <2>1
<1> QED
  BY <1>2, <1>3, <1>4

\* The axis of prices.
LEMMA PriceAxisOK ==
  ASSUME ChartInv, Seen > 0, cw.len > 0, NEW ema \in BOOLEAN, NEW candles \in BOOLEAN
  PROVE  LET axis == PriceAxis(ema, candles)
             v == Drawn(ema, candles)
         IN  \/ Cardinality(v) = 1
             \/ \A p \in v : axis[1] < 20 * p /\ 20 * p < axis[2]
<1> DEFINE v == Drawn(ema, candles)
           range == Max(v) - Min(v)
<1>1. v \in SUBSET Int /\ v # {} /\ IsFiniteSet(v)
  BY DrawnOK
<1>2. PriceAxis(ema, candles) = <<20 * Min(v) - range, 20 * Max(v) + range>>
  BY DEF PriceAxis
<1> HIDE DEF v
<1>3. range \in Int
  <2>1. Min(v) \in Int /\ Max(v) \in Int
    BY <1>1, Extremes
  <2> QED
    BY <2>1
<1>4. /\ Max(v) = Min(v) => Cardinality(v) = 1
      /\ range > 0 => \A p \in v : 20 * Min(v) - range < 20 * p /\ 20 * p < 20 * Max(v) + range
      /\ Min(v) \in Int /\ Max(v) \in Int /\ Min(v) <= Max(v)
  BY <1>1, <1>3, AxisHolds
<1>5. range > 0 \/ Max(v) = Min(v)
  BY <1>4
<1>6. PriceAxis(ema, candles)[1] = 20 * Min(v) - range /\ PriceAxis(ema, candles)[2] = 20 * Max(v) + range
  BY <1>2
<1> HIDE DEF range
<1>7. Cardinality(v) = 1 \/ \A p \in v : PriceAxis(ema, candles)[1] < 20 * p /\ 20 * p < PriceAxis(ema, candles)[2]
  BY <1>4, <1>5, <1>6
<1> QED
  BY <1>7 DEF v

\* The axis of series, and of bars, which take zero in.
LEMMA SeriesAxisOK ==
  ASSUME ChartInv, Seen > 0, cw.len > 0, NEW bars \in BOOLEAN
  PROVE  LET v == {Bars[d].close : d \in SeenDates}
             axis == SeriesAxis(v, bars, {})
         IN  \A p \in v \cup (IF bars THEN {0} ELSE {}) :
                 axis[1] < 20 * p /\ 20 * p < axis[2]
<1> DEFINE closes == {Bars[d].close : d \in SeenDates}
           v == closes \cup (IF bars THEN {0} ELSE {})
           range == IF Max(v) = Min(v) THEN 1 ELSE Max(v) - Min(v)
<1>1. closes \in SUBSET Int /\ closes # {} /\ IsFiniteSet(closes)
  <2>1. closes = Drawn(FALSE, FALSE)
    BY DEF Drawn
  <2> HIDE DEF closes
  <2> QED
    BY <2>1, DrawnOK
<1>2. closes \cup (IF bars /\ closes # {} THEN {0} ELSE {}) \cup {} = v
  BY <1>1
<1>3. v \in SUBSET Int /\ v # {} /\ IsFiniteSet(v)
  <2>1. CASE bars
    <3>1. v = closes \cup {0}
      BY <2>1
    <3> HIDE DEF closes, v
    <3> QED
      BY <1>1, <3>1, FS_AddElement
  <2>2. CASE ~bars
    <3>1. v = closes
      BY <2>2
    <3> QED
      BY <1>1, <3>1
  <2> QED
    BY <2>1, <2>2
<1>4. SeriesAxis(closes, bars, {}) = IF v = {} THEN <<-5 * 20, 105 * 20>>
                                     ELSE <<20 * Min(v) - range, 20 * Max(v) + range>>
  <2> HIDE DEF closes
  <2> QED
    BY <1>2 DEF SeriesAxis
<1> HIDE DEF v
<1>5. range \in Int /\ range > 0 /\ (range = Max(v) - Min(v) \/ (Max(v) = Min(v) /\ range = 1))
  <2>1. Min(v) \in Int /\ Max(v) \in Int /\ Min(v) <= Max(v)
    BY <1>3, Extremes
  <2> QED
    BY <2>1
<1> HIDE DEF range
<1>6. \A p \in v : 20 * Min(v) - range < 20 * p /\ 20 * p < 20 * Max(v) + range
  BY <1>3, <1>5, AxisHolds
<1>7. \A p \in v : SeriesAxis(closes, bars, {})[1] < 20 * p /\ 20 * p < SeriesAxis(closes, bars, {})[2]
  BY <1>3, <1>4, <1>6
<1> QED
  BY <1>7, Zenon DEF v

\* What is drawn of the window is true of it.
LEMMA PlotIsSound == ChartInv => PlotIsTrue
<1> SUFFICES ASSUME ChartInv, Seen > 0, cw.len > 0 PROVE PlotIsTrue
  BY DEF PlotIsTrue
<1>1. \A s \in {m \in Signs : SignDrawn(m)} :
        LET w == SignSpan(s) IN 0 <= w[1] /\ w[1] <= w[2] /\ w[2] < Seen
  BY SpansOK
<1>2. \A kind \in {"FVG", "BOS", "CHoCH"} :
        LegendCount(kind) = Cardinality({s \in Signs : s.kind = kind /\ SignDrawn(s)})
  BY LegendOK
<1>3. 0 \in Labels(8) /\ Cardinality(Labels(8)) <= 8 /\ Cardinality(Labels(10)) <= 10
  <2>1. Seen \in Nat \ {0} /\ 8 \in Nat \ {0} /\ 10 \in Nat \ {0}
    BY DatesOK
  <2> QED
    BY <2>1, LabelsOK
<1>4. Thumb[1] + Thumb[2] <= 100
  BY ThumbOK
<1>5. \A from \in SeenDates : \A to \in {d \in SeenDates : d > from} :
        ZoneDrawn(from, to) = <<Place(from), Place(to)>>
  BY ZonesOK
<1>6. \A ema, candles \in BOOLEAN :
        LET axis == PriceAxis(ema, candles)
            v == Drawn(ema, candles)
        IN  \/ Cardinality(v) = 1
            \/ \A p \in v : axis[1] < 20 * p /\ 20 * p < axis[2]
  BY PriceAxisOK
<1>7. \A bars \in BOOLEAN :
        LET v == {Bars[d].close : d \in SeenDates}
            axis == SeriesAxis(v, bars, {})
        IN  \A p \in v \cup (IF bars THEN {0} ELSE {}) :
                axis[1] < 20 * p /\ 20 * p < axis[2]
  BY SeriesAxisOK
<1> QED
  BY <1>1, <1>2, <1>3, <1>4, <1>5, <1>6, <1>7, Zenon DEF PlotIsTrue

\* Every window that meets the invariant is true.
LEMMA ChartInvSound == ChartInv => ChartIsTrue
BY ZoomIsSound, PlotIsSound DEF ChartInv, ChartIsTrue


\* The window's invariant holds throughout.
LEMMA ChartInductive == ChartSpec => []ChartInv
BY ChartInitOK, ChartStep, PTL DEF ChartSpec

\* The window stays in the data, moves as told and is the range that is highlighted;
\* what is drawn of the points lies in it, for any data, prices, marks and ranges
\* (EconChartCanvas, the chart of prices, the tabs that hold them).
THEOREM ChartsAreTrue == ChartSpec => []ChartIsTrue
BY ChartInductive, ChartInvSound, PTL

-----------------------------------------------------------------------------
(* The employment page.                                                      *)

\* The months with a figure of a kind.
MonthsOf(field) == {k \in DOMAIN efMonths : efMonths[k][field] # NoFigure}

\* A series that leaves out the months without a figure.
LEMMA ReportedOK ==
  ASSUME FiguresTypeOK, NEW field, NEW n, n = Cardinality(MonthsOf(field))
  PROVE  /\ IsFiniteSet(MonthsOf(field)) /\ MonthsOf(field) \subseteq 1..Len(efMonths) /\ n \in Nat
         /\ MonthsWith(field) \in [1..n -> MonthsOf(field)] /\ Len(MonthsWith(field)) = n
         /\ \A i, j \in 1..n : i < j => MonthsWith(field)[i] < MonthsWith(field)[j]
         /\ \A x \in MonthsOf(field) : \E i \in 1..n : MonthsWith(field)[i] = x
         /\ Len(Reported(Column(field))) = n
         /\ \A k \in 1..n : Reported(Column(field))[k] = efMonths[MonthsWith(field)[k]][field]
<1> DEFINE I == MonthsOf(field)
           C == Column(field)
           f == Ascending(I)
<1>1. DOMAIN efMonths = 1..Len(efMonths) /\ Len(efMonths) \in Nat
  BY DEF FiguresTypeOK
<1>2. IsFiniteSet(I) /\ I \subseteq 1..Len(efMonths) /\ I \subseteq Int
  <2>1. I \subseteq 1..Len(efMonths)
    BY <1>1 DEF MonthsOf
  <2>2. IsFiniteSet(1..Len(efMonths)) /\ 1..Len(efMonths) \subseteq Int
    BY <1>1, FS_Interval
  <2> HIDE DEF I
  <2> DEFINE T == 1..Len(efMonths)
  <2> HIDE DEF T
  <2>3. IsFiniteSet(I) /\ I \subseteq Int
    <3>1. IsFiniteSet(T) /\ I \subseteq T /\ T \subseteq Int
      BY <2>1, <2>2 DEF T
    <3> QED
      BY ONLY <3>1, FS_Subset
  <2> QED
    BY <2>1, <2>3
<1>3. MonthsWith(field) = Ascending(I)
  BY DEF MonthsWith, MonthsOf
<1>4. Reported(C) = At(C, I)
  <2>1. {i \in DOMAIN C : C[i] # NoFigure} = I
    BY DEF Column, MonthsOf
  <2> QED
    BY <2>1 DEF Reported
<1>5. \A k \in I : C[k] = efMonths[k][field]
  BY DEF Column, MonthsOf
<1> HIDE DEF I, C
<1>7. /\ n \in Nat /\ f \in [1..n -> I]
      /\ \A i, j \in 1..n : i < j => f[i] < f[j]
      /\ \A x \in I : \E i \in 1..n : f[i] = x
  <2>1. n = Cardinality(I)
    BY DEF I
  <2> QED
    BY <1>2, <2>1, AscendingOK
<1>8. Len(f) = n
  BY <1>7
<1>9. At(C, I) = [k \in 1..n |-> C[f[k]]]
  <2>1. n = Cardinality(I)
    BY DEF I
  <2> QED
    BY <2>1 DEF At
<1> HIDE DEF f
<1>10. \A k \in 1..n : At(C, I)[k] = efMonths[f[k]][field]
  BY <1>5, <1>7, <1>9
<1>11. Len(At(C, I)) = n
  BY <1>7, <1>9
<1> QED
  BY <1>2, <1>3, <1>4, <1>7, <1>8, <1>10, <1>11 DEF I, C, f

\* A third that is rounded is off by a half at most.
LEMMA RoundedThirdOK ==
  ASSUME NEW a \in Int, a >= 0
  PROVE  /\ RoundedThird(10 * a) \in Nat
         /\ 3 * RoundedThird(10 * a) >= 10 * a - 1 /\ 3 * RoundedThird(10 * a) <= 10 * a + 1
BY DEF RoundedThird

\* The rises of the moving average are rises.
LEMMA RiseOK ==
  ASSUME NEW m \in Nat, NEW avg, \A k \in 1..m : avg[k] \in Int, NEW n \in 1..m
  PROVE  Rise(avg, n) \in Int /\ Rise(avg, n) >= 0
<1> DEFINE a == Larger(1, n - Year + 1)
           S == {avg[k] : k \in a..n}
<1>1. a \in 1..n
  BY EmploymentFiguresConstants DEF Larger
<1>2. IsFiniteSet(S) /\ S \subseteq Int /\ avg[n] \in S
  <2>1. IsFiniteSet(a..n)
    BY <1>1, FS_Interval
  <2>2. IsFiniteSet(S)
    BY <2>1, ImageOK
  <2>3. \A k \in a..n : k \in 1..m
    BY <1>1
  <2> QED
    BY <1>1, <2>2, <2>3
<1>3. Rise(avg, n) = avg[n] - Min(S)
  BY DEF Rise, Lowest
<1> HIDE DEF S
<1>4. Min(S) \in S /\ Min(S) <= avg[n]
  BY <1>2, MinOK
<1>5. Min(S) \in Int /\ avg[n] \in Int
  BY <1>2, <1>4
<1> HIDE DEF S
<1> QED
  BY <1>3, <1>4, <1>5

\* The rates that are reported, and their moving average.
MonthlyRates == Reported(Column("u3"))
Smoothed == Averages(MonthlyRates)

\* What the Sahm rule of the API is of, and what it says.
LEMMA SahmOK ==
  ASSUME FiguresTypeOK, NEW n, n = Len(MonthlyRates) - 2
  PROVE  /\ Len(MonthlyRates) \in Nat /\ \A k \in 1..n : Smoothed[k] \in Int
         /\ n >= 1 => Len(Smoothed) = n
         /\ n < 1 => /\ CalcSahmRule.value = NoFigure /\ CalcSahmRule.score = 0
                     /\ ~CalcSahmRule.triggered /\ ~CalcSahmRule.peak_out /\ ~CalcSahmRule.near_peak_out
         /\ n >= 1 => /\ CalcSahmRule.value = RoundedThird(10 * Rise(Smoothed, n)) /\ CalcSahmRule.value \in Nat
                      /\ CalcSahmRule.score \in 0..15
                      /\ CalcSahmRule.triggered <=> CalcSahmRule.value >= 50
                      /\ CalcSahmRule.peak_out <=>
                           (CalcSahmRule.value >= 50 /\ n >= 2 /\ 10 * Rise(Smoothed, n - 1) - 3 * CalcSahmRule.value >= 15)
                      /\ CalcSahmRule.near_peak_out <=>
                           (CalcSahmRule.value >= 50 /\ n >= 2 /\ 10 * Rise(Smoothed, n - 1) - 3 * CalcSahmRule.value \in 0..14)
<1> DEFINE X == MonthsWith("u3")
<1>1. /\ Len(MonthlyRates) \in Nat
      /\ \A k \in 1..Len(MonthlyRates) : X[k] \in MonthsOf("u3") /\ MonthlyRates[k] = efMonths[X[k]]["u3"]
  BY ReportedOK DEF MonthlyRates
<1>2. \A i \in MonthsOf("u3") : efMonths[i]["u3"] \in Int
  BY EmploymentFiguresConstants DEF FiguresTypeOK, MonthsOf
<1>3. \A k \in 1..Len(MonthlyRates) : MonthlyRates[k] \in Int
  BY <1>1, <1>2
<1>4. \A k \in 1..n : Smoothed[k] \in Int
  BY <1>1, <1>3 DEF Averages, Smoothed
<1>5. n >= 1 => Len(Smoothed) = n
  BY <1>1 DEF Averages, Smoothed
<1> HIDE DEF X
<1>6. CASE n < 1
  <2>1. Len(Reported(Column("u3"))) < 3
    BY <1>1, <1>6 DEF MonthlyRates
  <2>2. CalcSahmRule = [value |-> NoFigure, score |-> 0, triggered |-> FALSE, peak_out |-> FALSE,
              near_peak_out |-> FALSE]
    BY <2>1, Zenon DEF CalcSahmRule
  <2> QED
    BY <1>1, <1>4, <1>6, <2>2
<1>7. CASE n >= 1
  <2>1. ~(Len(MonthlyRates) < 3) /\ Len(Smoothed) = n
    BY <1>1, <1>5, <1>7
  <2>2. Rise(Smoothed, n) \in Int /\ Rise(Smoothed, n) >= 0
    <3>1. n \in Nat /\ n \in 1..n
      BY <1>1, <1>7
    <3> QED
      BY <1>4, <3>1, RiseOK
  <2> DEFINE R == Rise(Smoothed, n)
             Q == Rise(Smoothed, n - 1)
             v == RoundedThird(10 * R)
             before == IF n < 2 THEN NoFigure ELSE RoundedThird(10 * Q)
             eased == 10 * Q - 3 * v
             rule == [value |-> v,
                      score |-> IF v >= 100 \/ (v >= 50 /\ before # NoFigure /\ before >= 50) THEN 15
                                ELSE IF v >= 50 THEN 10 ELSE IF v >= 30 THEN 8
                                ELSE IF v >= 15 THEN 4 ELSE 0,
                      triggered |-> v >= 50,
                      peak_out |-> v >= 50 /\ n >= 2 /\ eased >= 15,
                      near_peak_out |-> v >= 50 /\ n >= 2 /\ eased \in 0..14]
  <2>3. CalcSahmRule = rule
    BY <2>1 DEF CalcSahmRule, MonthlyRates, Smoothed
  <2>4. v \in Nat
    BY <2>2, RoundedThirdOK
  <2> HIDE DEF R, Q, v, before
  <2>5. rule.score \in 0..15
    BY <2>4
  <2>6. /\ rule.value = v
        /\ rule.triggered <=> v >= 50
        /\ rule.peak_out <=> (v >= 50 /\ n >= 2 /\ eased >= 15)
        /\ rule.near_peak_out <=> (v >= 50 /\ n >= 2 /\ eased \in 0..14)
    OBVIOUS
  <2> HIDE DEF rule
  <2>7. rule.value = RoundedThird(10 * Rise(Smoothed, n))
    BY <2>6 DEF v, R
  <2> QED
    BY <1>1, <1>4, <1>7, <2>1, <2>3, <2>4, <2>5, <2>6, <2>7 DEF Q
<1> QED
  BY <1>1, <1>6, <1>7

\* The three rings add up to the score (the employment page).
LEMMA EmpRings == FiguresTypeOK => RingsAddUp
<1> SUFFICES ASSUME FiguresTypeOK PROVE RingsAddUp
  OBVIOUS
<1> DEFINE a == CalcSahmRule.score + efRest.employment
           b == efRest.consumption
           c == efRest.structure
<1>1. a \in 0..50 /\ b \in 0..25 /\ c \in 0..25
  <2>1. Len(MonthlyRates) - 2 >= 1 \/ Len(MonthlyRates) - 2 < 1
    BY SahmOK
  <2>2. CalcSahmRule.score \in 0..15
    BY <2>1, SahmOK
  <2>3. efRest \in [employment: 0..35, consumption: 0..25, structure: 0..25]
    BY EmploymentFiguresConstants DEF FiguresTypeOK
  <2> QED
    BY <2>2, <2>3
<1>2. /\ Categories[1].score = a /\ Categories[2].score = b /\ Categories[3].score = c
      /\ Categories[1].max = 50 /\ Categories[2].max = 25 /\ Categories[3].max = 25
  BY DEF Categories
<1> HIDE DEF a, b, c
<1>3. Percent(Categories[1]) = 2 * a /\ Percent(Categories[2]) = 4 * b /\ Percent(Categories[3]) = 4 * c
  BY <1>1, <1>2 DEF Percent
<1>4. total_score = a + b + c
  <2>1. total_score = Min({100, a + b + c})
    BY <1>2 DEF total_score
  <2> QED
    BY <1>1, <2>1, OfTwo
<1>5. \A i \in 1..3 : i = 1 \/ i = 2 \/ i = 3
  OBVIOUS
<1>6. \A i \in 1..3 : Percent(Categories[i]) \in 0..100
  BY <1>1, <1>3, <1>5
<1> QED
  BY <1>1, <1>3, <1>4, <1>6 DEF RingsAddUp

\* The phase the page names is that of the API.
LEMMA PhasesOK == PhasesAgree
<1> SUFFICES ASSUME NEW score \in 0..100
             PROVE  GetPhase(score) = phaseForScore(score) <=> score \notin {20, 40, 60, 80}
  BY DEF PhasesAgree
<1> DEFINE in == {i \in 1..5 : 20 * (i - 1) <= score /\ score < 20 * i}
<1>1. /\ Phases[1] = "EXPANSION" /\ Phases[2] = "SLOWDOWN" /\ Phases[3] = "CAUTION"
      /\ Phases[4] = "CONTRACTION" /\ Phases[5] = "CRISIS"
  BY DEF Phases
<1>2. phaseForScore(score) = Phases[IF in = {} THEN 5 ELSE Min(in)]
  BY DEF phaseForScore
<1>3. ASSUME NEW k \in 1..5, 20 * (k - 1) <= score, score < 20 * k PROVE phaseForScore(score) = Phases[k]
  <2>1. k \in in /\ \A i \in in : i = k
    BY <1>3
  <2>2. IsFiniteSet(in) /\ in \subseteq Int
    BY SomeOf
  <2> HIDE DEF in
  <2>3. Min(in) = k
    BY <2>1, <2>2, MinOK
  <2> QED
    BY <1>2, <2>1, <2>3
<1>4. CASE score < 20
  BY <1>1, <1>3, <1>4 DEF GetPhase
<1>5. CASE score >= 20 /\ score < 40
  <2>1. phaseForScore(score) = "SLOWDOWN"
    BY <1>1, <1>3, <1>5
  <2> QED
    BY <1>1, <1>5, <2>1 DEF GetPhase
<1>6. CASE score >= 40 /\ score < 60
  <2>1. phaseForScore(score) = "CAUTION"
    BY <1>1, <1>3, <1>6
  <2> QED
    BY <1>1, <1>6, <2>1 DEF GetPhase
<1>7. CASE score >= 60 /\ score < 80
  <2>1. phaseForScore(score) = "CONTRACTION"
    BY <1>1, <1>3, <1>7
  <2> QED
    BY <1>1, <1>7, <2>1 DEF GetPhase
<1>8. CASE score >= 80 /\ score < 100
  <2>1. phaseForScore(score) = "CRISIS"
    BY <1>1, <1>3, <1>8
  <2> QED
    BY <1>1, <1>8, <2>1 DEF GetPhase
<1>9. CASE score = 100
  <2>1. in = {}
    BY <1>9
  <2> HIDE DEF in
  <2>2. phaseForScore(score) = "CRISIS"
    BY <1>1, <1>2, <2>1
  <2> QED
    BY <1>1, <1>9, <2>2 DEF GetPhase
<1> QED
  BY <1>4, <1>5, <1>6, <1>7, <1>8, <1>9

\* The averages of the Sahm rule do not fall below the lowest of their year.
LEMMA PeaksOK == FiguresTypeOK => PeakIsSeen
<1> SUFFICES ASSUME FiguresTypeOK PROVE PeakIsSeen
  OBVIOUS
<1> DEFINE m == Len(MonthlyRates) - 2
           R == Rise(Smoothed, m)
           Q == Rise(Smoothed, m - 1)
           v == CalcSahmRule.value
<1>1. CASE m < 1 \/ v < 50 \/ m < 2
  <2>1. ~CalcSahmRule.peak_out /\ ~CalcSahmRule.near_peak_out
    BY <1>1, SahmOK
  <2> QED
    BY <2>1 DEF PeakIsSeen
<1>2. CASE m >= 2
  <2>0. m \in Nat /\ m >= 2 /\ \A k \in 1..m : Smoothed[k] \in Int
    <3>1. m = Len(MonthlyRates) - 2
      OBVIOUS
    <3> HIDE DEF m
    <3>2. Len(MonthlyRates) \in Nat /\ \A k \in 1..m : Smoothed[k] \in Int
      BY <3>1, SahmOK
    <3> QED
      BY <1>2, <3>1, <3>2
  <2>1. R \in Int /\ R >= 0 /\ Q \in Int /\ Q >= 0
    <3>1. m \in 1..m /\ m - 1 \in 1..m
      BY <2>0
    <3> HIDE DEF m
    <3> QED
      BY <2>0, <3>1, RiseOK
  <2>2. /\ v \in Nat /\ v = RoundedThird(10 * R) /\ Len(Smoothed) = m
        /\ CalcSahmRule.peak_out => 10 * Q - 3 * v >= 15
        /\ CalcSahmRule.near_peak_out => 10 * Q - 3 * v \in 0..14
    BY <2>0, SahmOK
  <2>3. 3 * v >= 10 * R - 1
    BY <2>1, <2>2, RoundedThirdOK
  <2>4. Len(Smoothed) = m /\ Smoothed = Averages(Reported(Column("u3")))
    BY <2>2 DEF Smoothed, MonthlyRates
  <2> HIDE DEF R, Q, v
  <2>5. CalcSahmRule.peak_out => Q - R >= 1
    BY <2>1, <2>2, <2>3
  <2>6. CalcSahmRule.near_peak_out => Q - R >= 0
    BY <2>1, <2>2, <2>3
  <2>7. ~(CalcSahmRule.peak_out /\ CalcSahmRule.near_peak_out)
    <3> SUFFICES ASSUME CalcSahmRule.peak_out, CalcSahmRule.near_peak_out PROVE FALSE
      OBVIOUS
    <3>1. 10 * Q - 3 * v >= 15 /\ 10 * Q - 3 * v \in 0..14
      BY <2>2
    <3> QED
      BY ONLY <2>1, <2>2, <3>1
  <2> QED
    BY <2>4, <2>5, <2>6, <2>7 DEF PeakIsSeen, R, Q
<1> QED
  BY <1>1, <1>2, SahmOK

\* The chart of the page draws the rises that the score is of.
LEMMA RisesDrawn ==
  ASSUME FiguresTypeOK, NEW m, m = Len(MonthlyRates) - 2
  PROVE  /\ m < 1 => sahmChartData = <<>>
         /\ m >= 1 => /\ sahmChartData # <<>> /\ Len(sahmChartData) = m
                      /\ DOMAIN sahmChartData = 1..m
                      /\ \A k \in 1..m : sahmChartData[k].y = RoundedThird(10 * Rise(Smoothed, k))
<1> DEFINE xs == MonthsWith("u3")
           Months(i) == {j \in Larger(1, i - (Year - 1))..i : j >= 3}
           AtMonths(i) == {Smoothed[j - 2] : j \in Months(i)}
           lowest(i) == Min(AtMonths(i))
           y(k) == RoundedThird(10 * (Smoothed[k] - lowest(k + 2)))
           P(k) == Point(xs[k + 2], y(k))
<1>1. sahmChartData = [k \in 1..(Len(xs) - 2) |-> P(k)]
  BY Zenon DEF sahmChartData, Smoothed, MonthlyRates
<1>2. Len(xs) = Len(MonthlyRates) /\ m \in Int
  <2>1. Len(xs) = Len(MonthlyRates)
    BY ReportedOK DEF MonthlyRates
  <2> QED
    BY <2>1, SahmOK
<1>3. ASSUME NEW k \in 1..m PROVE P(k).y = RoundedThird(10 * Rise(Smoothed, k))
  <2>1. k \in Int /\ k >= 1
    BY <1>2, <1>3
  <2> DEFINE A == AtMonths(k + 2)
             B == {Smoothed[i] : i \in Larger(1, k - Year + 1)..k}
  <2>2. A = B
    <3>1. ASSUME NEW j \in Months(k + 2)
          PROVE  j - 2 \in Larger(1, k - Year + 1)..k
      BY <2>1, EmploymentFiguresConstants DEF Larger
    <3>2. ASSUME NEW i \in Larger(1, k - Year + 1)..k
          PROVE  i + 2 \in Months(k + 2) /\ (i + 2) - 2 = i
      BY <2>1, EmploymentFiguresConstants DEF Larger
    <3> HIDE DEF Months
    <3>3. A \subseteq B
      BY <3>1
    <3>4. ASSUME NEW i \in Larger(1, k - Year + 1)..k PROVE Smoothed[i] \in A
      <4>1. Smoothed[(i + 2) - 2] \in A
        BY <3>2
      <4> QED
        BY <3>2, <4>1
    <3> QED
      BY <3>3, <3>4
  <2>3. lowest(k + 2) = Min(A)
    OBVIOUS
  <2>5. Rise(Smoothed, k) = Smoothed[k] - Lowest(Smoothed, Larger(1, k - Year + 1), k)
    BY DEF Rise
  <2>6. Lowest(Smoothed, Larger(1, k - Year + 1), k) = Min(B)
    BY DEF Lowest
  <2>4. P(k).y = RoundedThird(10 * (Smoothed[k] - lowest(k + 2)))
    BY Zenon DEF Point
  <2> HIDE DEF A, B
  <2> QED
    BY <2>2, <2>3, <2>4, <2>5, <2>6, Zenon
<1> HIDE DEF P
<1> HIDE DEF xs, Months, AtMonths, lowest, y
<1>4. /\ \A k \in 1..m : sahmChartData[k] = P(k)
      /\ sahmChartData = [k \in 1..m |-> sahmChartData[k]]
  BY <1>1, <1>2
<1>5. /\ m < 1 <=> sahmChartData = <<>>
      /\ m >= 1 => Len(sahmChartData) = m
      /\ DOMAIN sahmChartData = 1..m
  BY <1>2, <1>4, ListOf
<1> QED
  BY <1>2, <1>3, <1>4, <1>5

\* The rise the API serves is the one the page works out of the months it has.
LEMMA ServedOK == FiguresTypeOK => SahmIsServed
<1> SUFFICES ASSUME FiguresTypeOK PROVE SahmIsServed
  OBVIOUS
<1> DEFINE m == Len(MonthlyRates) - 2
           v == CalcSahmRule.value
           drawn == sahmChartData
<1>0. m \in Int /\ NoFigure \notin Int
  BY SahmOK, EmploymentFiguresConstants
<1>1. drawn = <<>> <=> v = NoFigure
  <2>1. m < 1 => drawn = <<>> /\ v = NoFigure
    BY SahmOK, RisesDrawn
  <2>2. m >= 1 => drawn # <<>> /\ v \in Nat
    BY SahmOK, RisesDrawn
  <2> HIDE DEF m, v, drawn
  <2> QED
    BY <1>0, <2>1, <2>2
<1>2. ASSUME drawn # <<>> PROVE drawn[Len(drawn)].y = v /\ \A k \in DOMAIN drawn : drawn[k].y >= 0
  <2>1. m >= 1 /\ Len(drawn) = m /\ DOMAIN drawn = 1..m
    BY <1>0, <1>2, RisesDrawn
  <2>2. \A k \in 1..m : drawn[k].y = RoundedThird(10 * Rise(Smoothed, k))
    BY <2>1, RisesDrawn
  <2>3. v = RoundedThird(10 * Rise(Smoothed, m)) /\ \A k \in 1..m : Smoothed[k] \in Int
    BY <2>1, SahmOK
  <2> HIDE DEF m, v, drawn
  <2>4. ASSUME NEW k \in 1..m PROVE drawn[k].y >= 0
    <3>1. Rise(Smoothed, k) \in Int /\ Rise(Smoothed, k) >= 0
      BY <1>0, <2>1, <2>3, RiseOK
    <3> QED
      BY <2>2, <3>1, RoundedThirdOK
  <2>5. m \in 1..m
    BY <1>0, <2>1
  <2> QED
    BY <2>1, <2>2, <2>3, <2>4, <2>5
<1>3. "active" \in SahmRulePanel.badges <=> CalcSahmRule.triggered
  BY DEF SahmRulePanel
<1>4. EconomicPhaseHero.sahm # "off" <=> CalcSahmRule.triggered
  BY DEF EconomicPhaseHero, PeakNote
<1>5. /\ CalcSahmRule.triggered <=> v # NoFigure /\ v >= 50
      /\ v = NoFigure \/ v \in Nat
  <2>1. m < 1 => ~CalcSahmRule.triggered /\ v = NoFigure
    BY SahmOK
  <2>2. m >= 1 => (CalcSahmRule.triggered <=> v >= 50) /\ v \in Nat
    BY SahmOK
  <2> HIDE DEF m, v
  <2> QED
    BY <1>0, <2>1, <2>2
<1>6. KeyMetricsBar.sahm = "red" <=> v # NoFigure /\ v >= 50
  <2>1. KeyMetricsBar.sahm = Tone(v, 30, 50)
    BY DEF KeyMetricsBar
  <2> HIDE DEF v
  <2>2. Tone(v, 30, 50) = "red" <=> v # NoFigure /\ v >= 50
    BY <1>5 DEF Tone
  <2> QED
    BY <2>1, <2>2
<1>7. SahmRulePanel.gauge >= SahmRulePanel.mark <=> v # NoFigure /\ v >= 50
  <2>1. SahmRulePanel.gauge = (IF v = NoFigure THEN 0 ELSE Min({v, 100})) /\ SahmRulePanel.mark = 50
    BY DEF SahmRulePanel
  <2>2. v \in Nat => Min({v, 100}) = (IF v <= 100 THEN v ELSE 100)
    BY OfTwo
  <2> HIDE DEF v
  <2>3. CASE v = NoFigure
    BY <2>1, <2>3
  <2>4. CASE v # NoFigure /\ v \in Nat
    <3>1. SahmRulePanel.gauge = (IF v <= 100 THEN v ELSE 100)
      BY <2>1, <2>2, <2>4
    <3> QED
      BY ONLY <2>1, <2>4, <3>1
  <2> QED
    BY <1>5, <2>3, <2>4
<1> HIDE DEF v, drawn
<1>8. efMonths # <<>> =>
            /\ (EconomicPhaseHero.sahm # "off") <=> ("active" \in SahmRulePanel.badges)
            /\ (KeyMetricsBar.sahm = "red") <=> ("active" \in SahmRulePanel.badges)
            /\ (SahmRulePanel.gauge >= SahmRulePanel.mark) <=> ("active" \in SahmRulePanel.badges)
  BY ONLY <1>3, <1>4, <1>5, <1>6, <1>7
<1> QED
  BY <1>1, <1>2, <1>8 DEF SahmIsServed, v, drawn

\* A year of the page is one of the income series.
LEMMA YearsOK == FiguresTypeOK => YearIsAYear
<1> SUFFICES ASSUME FiguresTypeOK PROVE YearIsAYear
  OBVIOUS
<1> DEFINE xs == MonthsWith("level")
           n == Len(xs)
           I == MonthsOf("level")
           a == xs[n - Year]
           b == xs[n]
           gaps == {m \in a..b : efMonths[m].level = NoFigure}
<1> SUFFICES ASSUME n > Year PROVE b - a = Year + Cardinality(gaps)
  BY DEF YearIsAYear
<1>1. /\ n \in Nat /\ n = Cardinality(I) /\ I \subseteq 1..Len(efMonths) /\ xs \in [1..n -> I]
      /\ \A i, j \in 1..n : i < j => xs[i] < xs[j]
      /\ \A x \in I : \E i \in 1..n : xs[i] = x
  BY ReportedOK
<1>2. Year \in Nat /\ Year > 0 /\ Len(efMonths) \in Nat /\ DOMAIN efMonths = 1..Len(efMonths)
  BY EmploymentFiguresConstants DEF FiguresTypeOK
<1>3. \A k \in 1..Len(efMonths) : k \in I <=> efMonths[k].level # NoFigure
  BY <1>2 DEF MonthsOf
<1> HIDE DEF xs, n, I
<1>0. n \in Nat /\ Year \in Nat /\ Year > 0 /\ n > Year
  BY <1>1, <1>2
<1>01. xs \in [1..n -> I] /\ I \subseteq Int /\ \A k \in 1..n : xs[k] \in I /\ xs[k] \in Int
  <2>1. I \subseteq Int
    BY <1>1, <1>2
  <2>2. xs \in [1..n -> I]
    BY <1>1
  <2> QED
    BY ONLY <2>1, <2>2
<1>02. n - Year \in 1..n /\ n \in 1..n
  BY ONLY <1>0
<1>4. n - Year \in 1..n /\ n \in 1..n /\ a \in I /\ b \in I /\ a \in Int /\ b \in Int
  BY ONLY <1>01, <1>02
<1>5. a <= b
  <2>1. n - Year < n
    BY ONLY <1>0
  <2> QED
    BY <1>1, <1>4, <2>1
<1> DEFINE J == (n - Year)..n
           held == {xs[j] : j \in J}
<1>6. held = {m \in a..b : efMonths[m].level # NoFigure}
  <2>1. ASSUME NEW j \in J PROVE xs[j] \in a..b /\ efMonths[xs[j]].level # NoFigure
    <3>1. j \in 1..n /\ j >= n - Year /\ j <= n
      BY <1>1, <1>2, <1>4
    <3>2. xs[j] \in I /\ xs[j] \in Int
      BY <1>01, <3>1
    <3>3. (j = n - Year \/ n - Year < j) /\ (j = n \/ j < n)
      BY ONLY <1>0, <3>1
    <3>4. (j = n - Year \/ a < xs[j]) /\ (j = n \/ xs[j] < b)
      BY <1>1, <1>4, <3>1, <3>3
    <3> QED
      BY <1>1, <1>3, <1>4, <3>2, <3>4
  <2>2. ASSUME NEW x \in a..b, efMonths[x].level # NoFigure PROVE x \in held
    <3>1. x \in I
      BY <1>1, <1>3, <1>4, <2>2
    <3>2. PICK j \in 1..n : xs[j] = x
      BY <1>1, <3>1
    <3>3. j >= n - Year
      <4> SUFFICES ASSUME j < n - Year PROVE FALSE
        BY <1>1, <1>2
      <4>1. xs[j] < a
        BY <1>1, <1>4
      <4> QED
        BY <1>4, <2>2, <3>2, <4>1
    <3> QED
      BY <1>1, <1>2, <3>2, <3>3
  <2> QED
    BY <2>1, <2>2
<1>7. IsFiniteSet(J) /\ Cardinality(J) = Year + 1
  <2>1. n - Year \in Int /\ n \in Int /\ n - (n - Year) + 1 = Year + 1 /\ n - Year <= n
    BY ONLY <1>0
  <2> DEFINE c == n - Year
  <2> HIDE DEF c
  <2>2. IsFiniteSet(c..n) /\ Cardinality(c..n) = n - c + 1
    BY <2>1, FS_Interval DEF c
  <2> QED
    BY <2>1, <2>2 DEF c
<1>8. IsFiniteSet(held) /\ Cardinality(held) = Year + 1
  <2>1. \A j \in J : j \in 1..n
    BY <1>1, <1>2, <1>4
  <2>2. \A i, j \in J : xs[i] = xs[j] => i = j
    <3> SUFFICES ASSUME NEW i \in J, NEW j \in J, xs[i] = xs[j], i # j PROVE FALSE
      OBVIOUS
    <3>1. i \in 1..n /\ j \in 1..n
      BY <1>1, <2>1
    <3>3. i < j \/ j < i
      BY ONLY <1>0, <3>1, i # j
    <3>2. xs[i] \in Int
      BY <1>01, <3>1
    <3> QED
      BY <1>1, <3>1, <3>2, <3>3
  <2> HIDE DEF J
  <2> QED
    BY <1>7, <2>2, ImageOK
<1>9. IsFiniteSet(a..b) /\ Cardinality(a..b) = b - a + 1 /\ IsFiniteSet(gaps)
  <2>1. IsFiniteSet(a..b) /\ Cardinality(a..b) = b - a + 1
    BY <1>4, <1>5, FS_Interval
  <2> DEFINE T == a..b
  <2>2. gaps \subseteq T
    OBVIOUS
  <2> HIDE DEF gaps
  <2> QED
    BY <2>1, <2>2, FS_Subset DEF T
<1>10. gaps \cap held = {} /\ gaps \cup held = a..b
  BY <1>6
<1> HIDE DEF gaps, held, a, b
<1>11. Cardinality(gaps \cup held) = Cardinality(gaps) + Cardinality(held) - Cardinality(gaps \cap held)
  BY <1>8, <1>9, FS_Union
<1>12. Cardinality(gaps) \in Nat /\ Cardinality(gaps \cap held) = 0
  BY <1>9, <1>10, FS_CardinalityType, FS_EmptySet
<1> QED
  <2>1. a \in Int /\ b \in Int
    BY <1>4 DEF a, b
  <2>2. Cardinality(a..b) = Cardinality(gaps) + (Year + 1) - 0
    BY <1>8, <1>10, <1>11, <1>12
  <2>3. b - a = Year + Cardinality(gaps)
    BY ONLY <1>0, <1>9, <1>12, <2>1, <2>2
  <2> QED
    BY <2>3 DEF gaps, a, b

\* The indices of a list.
LEMMA HeaderOfTheChart ==
  ASSUME FiguresTypeOK, NEW type \in Indicator
  PROVE  LET chart == getChartConfig(type)
             figures == {k \in DOMAIN chart[1] : chart[1][k].y # NoFigure}
         IN  /\ \A i \in DOMAIN chart : [k \in DOMAIN chart[i] |-> chart[i][k].x]
                                         = [k \in DOMAIN chart[1] |-> chart[1][k].x]
             /\ indicatorStat(type).value =
                IF figures = {} THEN NoFigure ELSE chart[1][Max(figures)].y
             /\ IndicatorTile(type).empty => ~IndicatorTile(type).change
<1> DEFINE chart == getChartConfig(type)
           s == chart[1]
           figures == {k \in DOMAIN s : s[k].y # NoFigure}
           dates(c) == [k \in DOMAIN c |-> c[k].x]
           Goal == /\ \A i \in DOMAIN chart : dates(chart[i]) = dates(chart[1])
                   /\ indicatorStat(type).value = IF figures = {} THEN NoFigure ELSE s[Max(figures)].y
                   /\ IndicatorTile(type).empty => ~IndicatorTile(type).change
<1>1. /\ IndicatorTile(type).empty <=> s = <<>>
      /\ IndicatorTile(type).change <=> indicatorStat(type).delta # NoFigure
  BY DEF IndicatorTile
<1>2. s = <<>> => figures = {}
  OBVIOUS
<1>3. lastAndDelta(s) = (IF figures = {} THEN [last |-> NoFigure, first |-> NoFigure]
                          ELSE [last |-> s[Max(figures)].y, first |-> s[Min(figures)].y])
  BY Zenon DEF lastAndDelta
<1>4. ASSUME type = "nfp-level" PROVE Goal
  <2> DEFINE xs == MonthsWith("level")
             l == Series(xs, "level")
             n == Cardinality(MonthsOf("level"))
  <2>1. chart = IF \E k \in DOMAIN xs : efMonths[xs[k]].close # NoFigure THEN <<l, Aligned(xs)>> ELSE <<l>>
    BY <1>4 DEF getChartConfig
  <2>2. /\ n \in Nat /\ xs \in [1..n -> MonthsOf("level")] /\ Len(xs) = n
        /\ \A k \in 1..n : xs[k] \in MonthsOf("level")
    BY ReportedOK
  <2>3. l = [k \in 1..n |-> Point(xs[k], efMonths[xs[k]]["level"])] /\ Aligned(xs) = [k \in 1..n |-> Point(xs[k], efMonths[xs[k]].close)]
    BY <2>2 DEF Series, Aligned
  <2>20. \A k \in 1..n : efMonths[xs[k]]["level"] # NoFigure
    BY <2>2 DEF MonthsOf
  <2>4. /\ DOMAIN l = 1..n /\ \A k \in 1..n : l[k].x = xs[k] /\ l[k].y # NoFigure
        /\ DOMAIN Aligned(xs) = 1..n /\ \A k \in 1..n : Aligned(xs)[k].x = xs[k]
    <3>1. DOMAIN l = 1..n /\ DOMAIN Aligned(xs) = 1..n
      BY <2>3
    <3>2. ASSUME NEW k \in 1..n PROVE l[k].x = xs[k] /\ l[k].y # NoFigure /\ Aligned(xs)[k].x = xs[k]
      <4>1. l[k] = Point(xs[k], efMonths[xs[k]]["level"]) /\ Aligned(xs)[k] = Point(xs[k], efMonths[xs[k]].close)
        BY <2>3
      <4> HIDE DEF l, xs
      <4>2. l[k].x = xs[k] /\ l[k].y = efMonths[xs[k]]["level"] /\ Aligned(xs)[k].x = xs[k]
        BY <4>1 DEF Point
      <4> QED
        BY <2>20, <4>2
    <3> QED
      BY <3>1, <3>2
  <2>5. /\ chart = <<l>> \/ chart = <<l, Aligned(xs)>>
        /\ s = l
    BY <2>1
  <2>6. dates(Aligned(xs)) = dates(l)
    BY <2>4
  <2>7. \A i \in DOMAIN chart : chart[i] = l \/ chart[i] = Aligned(xs)
    BY <2>5
  <2>8. Len(l) = n /\ (n = 0 <=> l = <<>>) /\ n \in Nat
    BY <2>2, <2>3
  <2>9. n > 0 => figures # {} /\ Max(figures) = n
    <3> SUFFICES ASSUME n > 0 PROVE figures # {} /\ Max(figures) = n
      OBVIOUS
    <3>1. figures = 1..n
      BY <2>4, <2>5
    <3>2. IsFiniteSet(1..n) /\ n \in 1..n /\ 1..n \subseteq Int
      BY <2>8, FS_Interval
    <3> HIDE DEF n
    <3> DEFINE T == 1..n
    <3> HIDE DEF T
    <3>3. Max(T) \in T /\ n <= Max(T)
      BY <3>2, MaxOK DEF T
    <3>4. Max(T) = n
      BY <2>8, <3>3 DEF T
    <3> QED
      BY <3>1, <3>2, <3>4 DEF T
  <2>10. indicatorStat(type) = [value |-> IF s = <<>> THEN NoFigure ELSE s[Len(s)].y, delta |-> nfpLevelYoY, unit |-> "%"]
    BY <1>4, Zenon DEF indicatorStat
  <2>11. l = <<>> => nfpLevelYoY = NoFigure
    <3> SUFFICES ASSUME l = <<>> PROVE nfpLevelYoY = NoFigure
      OBVIOUS
    <3>1. Len(OverYear(Series(MonthsWith("level"), "level"))) = 0
      BY DEF OverYear
    <3> QED
      BY <3>1, EmploymentFiguresConstants DEF nfpLevelYoY
  <2>21. s = <<>> => indicatorStat(type).delta = NoFigure
    BY <2>5, <2>10, <2>11
  <2> HIDE DEF xs, l, n
  <2>12. \A i \in DOMAIN chart : dates(chart[i]) = dates(chart[1])
    BY <2>5, <2>6, <2>7
  <2>13. indicatorStat(type).value = IF figures = {} THEN NoFigure ELSE s[Max(figures)].y
    BY <1>2, <2>5, <2>8, <2>9, <2>10
  <2>14. IndicatorTile(type).empty => ~IndicatorTile(type).change
    BY <1>1, <2>21
  <2> QED
    BY <2>12, <2>13, <2>14
<1>5. ASSUME type # "nfp-level" PROVE indicatorStat(type).value = (IF figures = {} THEN NoFigure ELSE s[Max(figures)].y)
  <2> DEFINE r == lastAndDelta(s)
  <2>1. indicatorStat(type).value = r.last
    BY <1>5 DEF indicatorStat, Indicator
  <2>2. r.last = (IF figures = {} THEN NoFigure ELSE s[Max(figures)].y)
    BY <1>3
  <2> QED
    BY <2>1, <2>2
<1>6. ASSUME type # "nfp-level" PROVE IndicatorTile(type).empty => ~IndicatorTile(type).change
  <2> SUFFICES ASSUME s = <<>> PROVE indicatorStat(type).delta = NoFigure
    BY <1>1
  <2>1. lastAndDelta(s).first = NoFigure
    BY <1>2, <1>3
  <2> QED
    BY <1>6, <2>1 DEF indicatorStat, Indicator
<1>7. ASSUME type \in {"sahm", "income"} PROVE \A i \in DOMAIN chart : dates(chart[i]) = dates(chart[1])
  <2>1. DOMAIN chart = {1}
    BY <1>7 DEF getChartConfig
  <2> QED
    BY <2>1
<1>8. ASSUME type = "nfp" PROVE \A i \in DOMAIN chart : dates(chart[i]) = dates(chart[1])
  <2> DEFINE A == Series(AllMonths, "nfp")
             B == nfpWithAvg
  <2>1. chart = <<A, B>>
    BY <1>8 DEF getChartConfig
  <2>2. DOMAIN A = DOMAIN efMonths /\ \A k \in DOMAIN efMonths : A[k].x = k
    BY DEF Series, AllMonths, Point
  <2>3. DOMAIN B = DOMAIN efMonths /\ \A k \in DOMAIN efMonths : B[k].x = k
    BY DEF nfpWithAvg, Point
  <2> HIDE DEF A, B
  <2>4. dates(A) = dates(B)
    BY <2>2, <2>3
  <2> QED
    BY <2>1, <2>4
<1>9. ASSUME type = "unemployment" PROVE \A i \in DOMAIN chart : dates(chart[i]) = dates(chart[1])
  <2> DEFINE A == Series(AllMonths, "u3")
             B == Series(AllMonths, "u6")
  <2>1. chart = <<A, B>>
    BY <1>9 DEF getChartConfig
  <2>2. DOMAIN A = DOMAIN efMonths /\ \A k \in DOMAIN efMonths : A[k].x = k
    BY DEF Series, AllMonths, Point
  <2>3. DOMAIN B = DOMAIN efMonths /\ \A k \in DOMAIN efMonths : B[k].x = k
    BY DEF Series, AllMonths, Point
  <2> HIDE DEF A, B
  <2>4. dates(A) = dates(B)
    BY <2>2, <2>3
  <2> QED
    BY <2>1, <2>4
<1>10. Goal
  BY <1>4, <1>5, <1>6, <1>7, <1>8, <1>9 DEF Indicator
<1> QED
  BY <1>10

\* The figures of the employment page agree, whatever the months reported.
LEMMA EmploymentOK == FiguresTypeOK => EmploymentFiguresSound
<1> SUFFICES ASSUME FiguresTypeOK PROVE EmploymentFiguresSound
  OBVIOUS
<1>1. HeaderIsChart
  BY HeaderOfTheChart DEF HeaderIsChart
<1> QED
  BY <1>1, ServedOK, PeaksOK, PhasesOK, EmpRings, YearsOK DEF EmploymentFiguresSound

-----------------------------------------------------------------------------
(* The liquidity page.                                                       *)

\* What the latest figures are of, whatever the group.
LiquidityKnown ==
    /\ LiquidityTypeOK
    /\ lf.now = [s \in DOMAIN Known(lf.group) |-> lf.now[s]]

\* A figure of the group is one its series may have.
LEMMA NowOK ==
  ASSUME LiquidityKnown, NEW s
  PROVE  /\ Now(s) \in Int \cup {Unknown}
         /\ s \in DOMAIN Known(lf.group) => Now(s) \in Known(lf.group)[s]
<1> DEFINE K == Known(lf.group)
<1>1. K = <<>> \/ K \in FiguresOf(DOMAIN K)
  BY LiquidityFiguresConstants DEF Known
<1>2. s \in DOMAIN K => K[s] \subseteq Int \cup {Unknown}
  BY <1>1 DEF FiguresOf
<1>3. DOMAIN lf.now = DOMAIN K /\ \A t \in DOMAIN K : lf.now[t] \in K[t]
  BY DEF LiquidityKnown, LiquidityTypeOK
<1> HIDE DEF K
<1>4. Now(s) \in Int \cup {Unknown} /\ (s \in DOMAIN K => Now(s) \in K[s])
  BY <1>2, <1>3 DEF Now
<1> QED
  BY <1>4 DEF K

\* The marker of the risk layer.
LEMMA MarkerOK == LiquidityKnown => MarkerIsScore
<1> SUFFICES ASSUME LiquidityKnown, lf.group = "margin" PROVE MarkerIsScore
  BY DEF MarkerIsScore
<1> DEFINE v == Now("margin2y")
           u == Now("mmf")
           h == Layer2BCard.header.label
           t == Layer2BCard.tone
<1>1. v \in Int /\ u \in Int \cup {Unknown} /\ Unknown \notin Int
  <2>1. Known(lf.group) = Figures["margin"] /\ "margin2y" \in DOMAIN Known(lf.group)
    BY LiquidityFiguresConstants DEF Known
  <2> QED
    BY <2>1, NowOK, LiquidityFiguresConstants
<1>2. /\ Layer2BCard.marker = Min({itPct, 100})
      /\ h = scoreLabel(CalculateLayer2BStress)
      /\ t = IF itPct >= 80 THEN "red" ELSE IF itPct >= 60 THEN "amber" ELSE "green"
  BY DEF Layer2BCard, LayerHeader
<1>3. itPct \in Int /\ (itPct >= 80 => v >= 80) /\ (itPct < 60 => v < 63)
  <2>1. itPct = (10000 * v) \div 10468
    BY DEF itPct, ITBubblePeak2YChange
  <2> HIDE DEF v
  <2> QED
    BY <1>1, <2>1
<1>4. getPhaseStress(v) \in {20, 40, 70, 90, 100} /\ (v >= 80 => getPhaseStress(v) >= 90)
      /\ (v < 60 => getPhaseStress(v) <= 40) /\ (v < 80 => getPhaseStress(v) <= 70)
  BY <1>1 DEF getPhaseStress
<1>5. ASSUME u \in Int
      PROVE  mmfScore \in 0..100 /\ (u > -8 => mmfScore < 70)
  <2> DEFINE m == (100 - 5 * u) \div 2
  <2>1. m \in Int /\ (u > -8 => m < 70)
    BY <1>5
  <2>2. mmfScore = Max({0, Min({m, 100})})
    BY DEF mmfScore
  <2> HIDE DEF m, u
  <2>3. Min({m, 100}) = IF m <= 100 THEN m ELSE 100
    BY <2>1, OfTwo
  <2> DEFINE k == Min({m, 100})
  <2>4. k \in Int /\ k <= 100 /\ k <= m
    BY <2>1, <2>3
  <2>5. mmfScore = Max({0, k})
    BY <2>2
  <2> HIDE DEF k
  <2>6. Max({0, k}) = IF 0 >= k THEN 0 ELSE k
    BY <2>4, OfTwo
  <2> QED
    BY <2>1, <2>4, <2>5, <2>6
<1>6. /\ CalculateLayer2BStress \in Int
      /\ v >= 80 => CalculateLayer2BStress >= 70
      /\ CalculateLayer2BStress >= 70 /\ v < 80 => v >= 60 /\ (u = Unknown \/ u <= -8)
  <2> DEFINE g == getPhaseStress(v)
  <2>1. CASE u = Unknown
    <3>1. CalculateLayer2BStress = g
      BY <2>1 DEF CalculateLayer2BStress
    <3> HIDE DEF g, u, v
    <3> QED
      BY <1>1, <1>4, <2>1, <3>1 DEF g
  <2>2. CASE u \in Int
    <3>1. CalculateLayer2BStress = (4 * g + mmfScore) \div 5
      BY <1>1, <2>2 DEF CalculateLayer2BStress
    <3>2. mmfScore \in 0..100 /\ (u > -8 => mmfScore < 70)
      BY <1>5, <2>2
    <3>3. g \in {20, 40, 70, 90, 100} /\ (v >= 80 => g >= 90) /\ (v < 60 => g <= 40) /\ (v < 80 => g <= 70)
      BY <1>4
    <3> HIDE DEF g, u, v
    <3>4. CalculateLayer2BStress \in Int /\ 5 * CalculateLayer2BStress <= 4 * g + mmfScore
          /\ 4 * g + mmfScore < 5 * CalculateLayer2BStress + 5
      BY <3>1, <3>2, <3>3
    <3>5. v >= 80 => CalculateLayer2BStress >= 70
      BY <3>2, <3>3, <3>4
    <3>6. CalculateLayer2BStress >= 70 /\ v < 80 => v >= 60 /\ u <= -8
      BY <1>1, <2>2, <3>2, <3>3, <3>4
    <3> QED
      BY <3>4, <3>5, <3>6
  <2> QED
    BY <1>1, <2>1, <2>2
<1>7. Min({itPct, 100}) <= 100
  BY <1>3, OfTwo
<1>8. t = "red" => h = "danger"
  BY <1>2, <1>3, <1>6 DEF scoreLabel
<1>9. ASSUME h = "danger", t = "green" PROVE v \in 60..62 /\ (AtMost("mmf", -8) \/ u = Unknown)
  <2>1. CalculateLayer2BStress >= 70
    BY <1>2, <1>6, <1>9 DEF scoreLabel
  <2>2. v < 63
    BY <1>2, <1>3, <1>9
  <2> HIDE DEF v, u, h, t
  <2>3. v \in 60..62 /\ (u = Unknown \/ u <= -8)
    BY <1>1, <1>6, <2>1, <2>2
  <2> QED
    BY <2>3 DEF AtMost, u
<1> QED
  BY <1>2, <1>7, <1>8, <1>9 DEF MarkerIsScore

\* A meter tells the level of its layer.
LEMMA MetersOK == LiquidityKnown => MetersTellLevels
<1> SUFFICES ASSUME LiquidityKnown PROVE MetersTellLevels
  OBVIOUS
<1> DEFINE a == absorption_room
           f == fiscal_assist_potential
           r == rate_cut_room
           ff == Now("ff")
           rrp == Now("rrp")
           m == PolicyRegimeCard.meters
           g == PolicyRegimeCard.regime
<1>0. Unknown \notin Int
  BY LiquidityFiguresConstants
<1>1. ff \in Int \cup {Unknown} /\ rrp \in Int \cup {Unknown}
  BY NowOK
<1>2. /\ m[1] = levelToPct(r, ff) /\ m[2] = levelToPct(a, Unknown) /\ m[3] = levelToPct(f, Unknown)
      /\ g = DetectPolicyRegime
  BY DEF PolicyRegimeCard
<1>3. a \in {"Unknown", "High", "Medium", "Low"} /\ (rrp # Unknown /\ rrp < 50 => a = "Low")
      /\ (rrp # Unknown /\ rrp > 200 => a \in {"Medium", "High"})
  BY <1>1, <1>0 DEF absorption_room
<1>4. f \in {"Unknown", "Available", "Limited"}
  BY DEF fiscal_assist_potential
<1>5. /\ g = "QT_ACTIVE" => rrp # Unknown /\ rrp > 200
      /\ g = "QT_EXHAUSTED" => rrp # Unknown /\ rrp < 50
  BY <1>2 DEF DetectPolicyRegime, Over, Under
<1>6. ff = Unknown => r = "Unknown"
  BY DEF rate_cut_room
<1>7. ff = Unknown => MeterColor(m[1]) = "red"
  BY <1>2, <1>6 DEF levelToPct, MeterColor
<1>8. ff # Unknown => (MeterColor(m[1]) = "green" => ff >= 60)
  <2> SUFFICES ASSUME ff \in Int PROVE MeterColor(m[1]) = "green" => ff >= 60
    BY <1>1
  <2> DEFINE low == IF ff <= 100 THEN ff ELSE 100
  <2>1. m[1] = Max({0, Min({ff, 100})})
    BY <1>0, <1>2 DEF levelToPct
  <2>2. Min({ff, 100}) = low /\ low \in Int
    BY OfTwo
  <2>3. Max({0, low}) = IF 0 >= low THEN 0 ELSE low
    <3>1. ASSUME NEW x \in Int PROVE Max({0, x}) = IF 0 >= x THEN 0 ELSE x
      BY OfTwo
    <3> HIDE DEF low
    <3> QED
      BY <2>2, <3>1
  <2>4. m[1] = IF 0 >= low THEN 0 ELSE low
    BY <2>1, <2>2, <2>3
  <2> QED
    BY <2>4 DEF MeterColor
<1> HIDE DEF m
<1>9. /\ MeterColor(m[2]) = "green" <=> a = "High"
      /\ a = "Low" => MeterColor(m[2]) = "red"
  BY <1>2, <1>3 DEF levelToPct, MeterColor
<1>10. MeterColor(m[3]) = "green" <=> f = "Available"
  BY <1>2, <1>4 DEF levelToPct, MeterColor
<1> QED
  BY <1>3, <1>5, <1>7, <1>8, <1>9, <1>10 DEF MetersTellLevels, m

\* The sensors of the page and of the API agree.
LEMMA SensorsOK == LiquidityKnown => SensorsAgree
<1> SUFFICES ASSUME LiquidityKnown PROVE SensorsAgree
  OBVIOUS
<1> DEFINE ig == Now("ig")
           c == CalculateCreditPressure
           st == c.status
           D == {s \in DOMAIN st : st[s] = "danger"}
           W == {s \in DOMAIN st : st[s] = "warning"}
           points == 2 * Cardinality(D) + Cardinality(W)
<1>0. Unknown \notin Int /\ ig \in Int \cup {Unknown}
  BY LiquidityFiguresConstants, NowOK
<1>1. /\ DOMAIN st = {"hy", "ig", "curve", "dxy"}
      /\ st.ig = Judged("ig", 100, 150)
      /\ \A s \in DOMAIN st : st[s] \in {"normal", "warning", "danger"}
  BY DEF CalculateCreditPressure, Judged
<1>2. /\ c.alerts = {s \in DOMAIN st : st[s] # "normal"}
      /\ c.level = IF points >= 5 THEN "High" ELSE IF points >= 2 THEN "Medium" ELSE "Low"
  <2> DEFINE curve == IF AtMost("curve", -1) THEN "danger" ELSE IF AtMost("curve", 49) THEN "warning" ELSE "normal"
             status == [hy |-> Judged("hy", 350, 500), ig |-> Judged("ig", 100, 150), curve |-> curve,
                        dxy |-> IF AtLeast("dxy", 106) THEN "warning" ELSE "normal"]
             p == 2 * Cardinality({s \in DOMAIN status : status[s] = "danger"})
                    + Cardinality({s \in DOMAIN status : status[s] = "warning"})
  <2>1. c = [status |-> status, alerts |-> {s \in DOMAIN status : status[s] # "normal"},
             level |-> IF p >= 5 THEN "High" ELSE IF p >= 2 THEN "Medium" ELSE "Low"]
    BY DEF CalculateCreditPressure
  <2> HIDE DEF status, curve, c
  <2>2. st = status
    BY <2>1
  <2> QED
    BY <2>1, <2>2
<1>3. /\ CreditPressurePanel.badge = c.level /\ CreditPressurePanel.dots = st
      /\ CreditPressurePanel.alerts = c.alerts
  BY DEF CreditPressurePanel
<1>4. /\ Layer2ACard = "red" <=> st.ig = "danger"
      /\ Layer2ACard = "amber" <=> st.ig = "warning"
  BY <1>0, <1>1 DEF Layer2ACard, Judged
<1> HIDE DEF st, c
<1>5. IsFiniteSet(D) /\ IsFiniteSet(W) /\ Cardinality(D) \in Nat /\ Cardinality(W) \in Nat
  <2>1. IsFiniteSet({"hy", "ig"} \cup {"curve", "dxy"})
    <3>1. IsFiniteSet({"hy", "ig"}) /\ IsFiniteSet({"curve", "dxy"})
      BY PairIsFinite
    <3> QED
      BY <3>1, FS_Union
  <2>2. D \subseteq {"hy", "ig"} \cup {"curve", "dxy"} /\ W \subseteq {"hy", "ig"} \cup {"curve", "dxy"}
    BY <1>1
  <2> HIDE DEF D, W
  <2> QED
    BY <2>1, <2>2, FS_Subset, FS_CardinalityType
<1>6. c.alerts = D \cup W /\ D \cap W = {}
  BY <1>1, <1>2
<1> HIDE DEF D, W
<1>7. Cardinality(c.alerts) = Cardinality(D) + Cardinality(W)
  BY <1>5, <1>6, FS_Union, FS_EmptySet
<1>8. c.level = "High" => Cardinality(c.alerts) >= 3
  BY <1>2, <1>5, <1>7
<1>9. c.level = "Low" => \A s \in DOMAIN st : st[s] # "danger"
  <2> SUFFICES ASSUME points < 2 PROVE D = {}
    BY <1>2, <1>5 DEF D
  <2>1. Cardinality(D) = 0
    BY <1>5
  <2> QED
    BY <1>5, <2>1, FS_EmptySet
<1> QED
  BY <1>3, <1>4, <1>8, <1>9 DEF SensorsAgree

\* The state that is named is the first that matches.
LEMMA StateOK ==
  LET all == DetermineMarketState.all_states
      code == DetermineMarketState.code
  IN  \/ /\ code = "NEUTRAL" /\ all = <<"NEUTRAL">>
         /\ \A i \in 1..7 : ~Matches(States[i])
      \/ \E n \in Nat : \E f \in [1..n -> 1..7] :
            /\ n >= 1 /\ all = [k \in 1..n |-> States[f[k]]] /\ code = States[f[1]]
            /\ \A i, j \in 1..n : i < j => f[i] < f[j]
            /\ \A k \in 1..n : Matches(States[f[k]])
            /\ \A i \in 1..7 : i < f[1] => ~Matches(States[i])
<1> DEFINE I == {i \in DOMAIN States : Matches(States[i])}
           n == Cardinality(I)
           f == Ascending(I)
           found == At(States, I)
           rule == DetermineMarketState
<1>1. rule = [code |-> IF found = <<>> THEN "NEUTRAL" ELSE found[1],
              all_states |-> IF found = <<>> THEN <<"NEUTRAL">> ELSE found]
  BY DEF DetermineMarketState
<1>2. DOMAIN States = 1..7
  BY DEF States
<1>3. I \subseteq 1..7 /\ \A i \in I : Matches(States[i])
  BY <1>2
<1>4. \A i \in 1..7 : i \notin I => ~Matches(States[i])
  BY <1>2
<1> HIDE DEF I, rule
<1>5. IsFiniteSet(I) /\ I \subseteq Int /\ n \in Nat
  <2>1. 7 \in Nat
    OBVIOUS
  <2> QED
    BY <1>3, <2>1, SomeIndices, Zenon
<1>6. found = <<>> <=> I = {}
  BY <1>5, AtOK
<1>7. CASE I = {}
  <2>1. rule.code = "NEUTRAL" /\ rule.all_states = <<"NEUTRAL">>
    BY <1>1, <1>6, <1>7
  <2> QED
    BY <1>4, <1>7, <2>1 DEF rule
<1>8. CASE I # {}
  <2>1. n >= 1
    <3>1. n # 0
      BY <1>5, <1>8, FS_EmptySet
    <3> QED
      BY <1>5, <3>1
  <2>2. found = [k \in 1..n |-> States[f[k]]]
    BY DEF At
  <2>3. /\ f \in [1..n -> I]
        /\ \A i, j \in 1..n : i < j => f[i] < f[j]
        /\ \A x \in I : \E i \in 1..n : f[i] = x
    BY <1>5, AscendingOK
  <2>4. rule.code = found[1] /\ rule.all_states = found
    BY <1>1, <1>6, <1>8
  <2> HIDE DEF n, f, found
  <2>5. 1 \in 1..n
    BY <1>5, <2>1
  <2>6. f \in [1..n -> 1..7] /\ f[1] \in 1..7 /\ \A k \in 1..n : Matches(States[f[k]])
    BY <1>3, <2>3, <2>5
  <2>7. \A i \in 1..7 : i < f[1] => ~Matches(States[i])
    <3> SUFFICES ASSUME NEW i \in 1..7, i < f[1], i \in I PROVE FALSE
      BY <1>4
    <3>1. PICK k \in 1..n : f[k] = i
      BY <2>3
    <3>2. k = 1 \/ 1 < k
      BY <1>5
    <3>3. k = 1 \/ f[1] < f[k]
      BY <2>3, <2>5, <3>2
    <3> QED
      BY <2>6, <3>1, <3>3
  <2>8. rule.code = States[f[1]]
    BY <2>2, <2>4, <2>5
  <2>10. /\ n \in Nat /\ f \in [1..n -> 1..7] /\ n >= 1 /\ rule.all_states = [k \in 1..n |-> States[f[k]]]
         /\ rule.code = States[f[1]] /\ \A i, j \in 1..n : i < j => f[i] < f[j]
         /\ \A k \in 1..n : Matches(States[f[k]])
         /\ \A i \in 1..7 : i < f[1] => ~Matches(States[i])
    BY <1>5, <2>1, <2>2, <2>3, <2>4, <2>6, <2>7, <2>8
  <2>9. \E m \in Nat : \E g \in [1..m -> 1..7] :
            /\ m >= 1 /\ rule.all_states = [k \in 1..m |-> States[g[k]]] /\ rule.code = States[g[1]]
            /\ \A i, j \in 1..m : i < j => g[i] < g[j]
            /\ \A k \in 1..m : Matches(States[g[k]])
            /\ \A i \in 1..7 : i < g[1] => ~Matches(States[i])
    BY <2>10, Zenon
  <2> QED
    BY <2>9 DEF rule
<1> QED
  BY <1>7, <1>8

\* The states' names.
LEMMA StateNames ==
  /\ States[1] = "LIQUIDITY_SHOCK" /\ States[2] = "CREDIT_CONTRACTION" /\ States[3] = "POLICY_TIGHTENING"
  /\ States[4] = "SPLIT_BUBBLE" /\ States[5] = "MARKET_OVERSHOOT" /\ States[6] = "FINANCIAL_RALLY"
  /\ States[7] = "HEALTHY"
  /\ \A i \in 1..7 : i = 1 \/ i = 2 \/ i = 3 \/ i = 4 \/ i = 5 \/ i = 6 \/ i = 7
BY DEF States

\* No graver state of the market goes unnamed.
LEMMA GravestOK == LiquidityKnown => StateIsGravest
<1> SUFFICES ASSUME LiquidityKnown, lf.group = "layers" PROVE StateIsGravest
  BY DEF StateIsGravest
<1> DEFINE all == DetermineMarketState.all_states
           code == DetermineMarketState.code
           hero == MarketStateHero
<1>1. \A s \in Layers : Now(s) \in 0..100
  <2>1. Known(lf.group) = Figures["layers"] /\ Layers \subseteq DOMAIN Known(lf.group)
    BY LiquidityFiguresConstants DEF Known
  <2> QED
    BY <2>1, NowOK, LiquidityFiguresConstants
<1>2. /\ hero.state = code /\ hero.badges = Tail(all)
      /\ hero.danger <=> Color(code) \in {"red", "orange"}
      /\ hero.rings = <<Now("l1"), Now("l2a"), Now("l2b")>>
  BY DEF MarketStateHero
<1>3. CASE code = "NEUTRAL" /\ all = <<"NEUTRAL">>
  <2>1. hero.badges = <<>>
    BY <1>2, <1>3
  <2>2. Range(hero.badges) = {}
    BY <2>1 DEF Range
  <2> QED
    BY <1>2, <1>3, <2>2 DEF StateIsGravest
<1>4. ASSUME NEW n \in Nat, NEW f \in [1..n -> 1..7], n >= 1, all = [k \in 1..n |-> States[f[k]]], code = States[f[1]],
             \A i, j \in 1..n : i < j => f[i] < f[j], \A k \in 1..n : Matches(States[f[k]])
      PROVE  StateIsGravest
  <2>1. hero.badges = [k \in 1..(n - 1) |-> States[f[k + 1]]]
    <3> HIDE DEF all
    <3> QED
      BY <1>2, <1>4
  <2>2. ASSUME NEW c \in Range(hero.badges) PROVE \E i \in 2..7 : c = States[i] /\ f[1] < i
    <3>1. PICK k \in 1..(n - 1) : c = States[f[k + 1]]
      BY <2>1, <2>2 DEF Range
    <3>2. k + 1 \in 1..n /\ 1 \in 1..n /\ 1 < k + 1
      BY <1>4
    <3>3. f[1] < f[k + 1] /\ f[1] \in 1..7 /\ f[k + 1] \in 1..7
      BY <1>4, <3>2
    <3>4. f[k + 1] \in 2..7
      BY <3>3
    <3> QED
      BY <3>1, <3>3, <3>4
  <2>3. \A i, j \in 1..7 : States[i] = States[j] => i = j
    BY StateNames
  <2>4. f[1] \in 1..7 /\ Matches(code)
    BY <1>4
  <2>5. code \notin Range(hero.badges)
    BY <1>4, <2>2, <2>3, <2>4
  <2>6. \A i \in 2..7 : Color(States[i]) # "red"
    BY StateNames DEF Color
  <2>7. \A c \in Range(hero.badges) : Color(c) # "red"
    BY <2>2, <2>6
  <2>8. code = "HEALTHY" => \A i \in 1..3 : scoreLabel(hero.rings[i]) \in {"safe", "attention"}
    <3> SUFFICES ASSUME code = "HEALTHY", NEW i \in 1..3 PROVE scoreLabel(hero.rings[i]) \in {"safe", "attention"}
      OBVIOUS
    <3>1. Now("l1") < 35 /\ Now("l2a") < 35 /\ Now("l2b") < 40
      BY <2>4 DEF Matches
    <3>2. hero.rings[i] = Now("l1") \/ hero.rings[i] = Now("l2a") \/ hero.rings[i] = Now("l2b")
      BY <1>2
    <3>3. Now("l1") \in Int /\ Now("l2a") \in Int /\ Now("l2b") \in Int
      <4>1. "l1" \in Layers /\ "l2a" \in Layers /\ "l2b" \in Layers
        BY DEF Layers
      <4>2. \A s \in Layers : Now(s) \in Int
        <5>1. \A k \in 0..100 : k \in Int
          BY ONLY TRUE
        <5> QED
          BY ONLY <1>1, <5>1, Zenon
      <4> QED
        BY <4>1, <4>2
    <3>4. hero.rings[i] \in Int /\ hero.rings[i] < 50
      <4> HIDE DEF hero
      <4> QED
        BY <3>1, <3>2, <3>3
    <3> HIDE DEF hero
    <3> QED
      BY <3>4 DEF scoreLabel
  <2>9. code \in {"LIQUIDITY_SHOCK", "CREDIT_CONTRACTION"} => hero.danger
    BY <1>2 DEF Color
  <2> QED
    BY <1>2, <2>5, <2>7, <2>8, <2>9 DEF StateIsGravest
<1> QED
  BY <1>3, <1>4, StateOK

\* The figures of the dashboard, of the last week that has them.
LEMMA NetOK == LiquidityKnown => OneNetLiquidity
<1> SUFFICES ASSUME LiquidityKnown, lf.group = "fed", Layer1Card # <<>> PROVE OneNetLiquidity
  BY DEF OneNetLiquidity
<1> DEFINE L == Len(lf.fed)
           I == {w \in DOMAIN lf.fed : Complete(lf.fed[w])}
           n == Cardinality(I)
           a == Ascending(I)
<1>1. L \in Nat /\ DOMAIN lf.fed = 1..L /\ \A w \in 1..L : lf.fed[w] \in FedRow
  BY DEF LiquidityKnown, LiquidityTypeOK
<1>2. I \subseteq 1..L /\ \A w \in 1..L : w \in I <=> Complete(lf.fed[w])
  BY <1>1
<1> HIDE DEF I, L
<1>3. IsFiniteSet(I) /\ I \subseteq Int /\ n \in Nat
  BY <1>1, <1>2, SomeIndices, Zenon
<1>4. CompleteWeeks = At(lf.fed, I) /\ CompleteWeeks # <<>>
  BY DEF CompleteWeeks, Layer1Card, I
<1>5. I # {}
  BY <1>3, <1>4, AtOK
<1>6. n >= 1
  <2>1. n # 0
    BY <1>3, <1>5, FS_EmptySet
  <2> QED
    BY <1>3, <2>1
<1>7. /\ a \in [1..n -> I]
      /\ \A i, j \in 1..n : i < j => a[i] < a[j]
      /\ \A x \in I : \E i \in 1..n : a[i] = x
  BY <1>3, AscendingOK
<1>8. CompleteWeeks = [k \in 1..n |-> lf.fed[a[k]]]
  BY <1>4 DEF At
<1> HIDE DEF n, a
<1>9. Len(CompleteWeeks) = n /\ n \in 1..n /\ CompleteWeeks[n] = lf.fed[a[n]]
  BY <1>3, <1>6, <1>8
<1>10. Layer1Card[1].net = Net(lf.fed[a[n]])
  BY <1>4, <1>9 DEF Layer1Card
<1>11. L >= 1
  <2>1. PICK w \in I : TRUE
    BY <1>5
  <2>2. w \in 1..L
    BY <1>2
  <2> QED
    BY <1>1, <2>2
<1>12. \A row \in FedRow : Complete(row) <=> row["soma"] # Unknown /\ row["rrp"] # Unknown /\ row["tga"] # Unknown
  BY DEF Complete
<1>13. \A row \in FedRow : \A field \in {"soma", "rrp", "tga"} : row[field] # Unknown => row[field] \in Nat
  BY LiquidityFiguresConstants
<1>14. ASSUME NEW field \in {"soma", "rrp", "tga"}
       PROVE  /\ forwardFill(field) \in Nat \cup {Unknown}
              /\ (\E w \in LatestWeeks : Complete(lf.fed[w])) => forwardFill(field) # Unknown
              /\ Complete(lf.fed[L]) => forwardFill(field) = lf.fed[L][field]
  <2> DEFINE K == {v \in LatestWeeks : lf.fed[v][field] # Unknown}
  <2>1. /\ LatestWeeks \subseteq 1..L /\ L \in LatestWeeks
        /\ K \subseteq 1..L /\ \A v \in LatestWeeks : v \in K <=> lf.fed[v][field] # Unknown
    BY <1>1, <1>11, LiquidityFiguresConstants DEF LatestWeeks, L
  <2>2. forwardFill(field) = IF K = {} THEN Unknown ELSE lf.fed[Max(K)][field]
    BY DEF forwardFill
  <2>3. \A v \in K : lf.fed[v][field] # Unknown
    OBVIOUS
  <2> HIDE DEF K
  <2>4. IsFiniteSet(K) /\ K \subseteq Int
    BY <1>1, <2>1, SomeIndices, Zenon
  <2>5. K # {} => Max(K) \in K /\ \A x \in K : x <= Max(K)
    BY <2>4, MaxOK
  <2>6. K # {} => forwardFill(field) # Unknown /\ forwardFill(field) \in Nat
    BY <1>1, <1>13, <2>1, <2>2, <2>3, <2>5
  <2>7. ASSUME NEW w \in LatestWeeks, Complete(lf.fed[w]) PROVE w \in K
    BY <1>1, <1>12, <2>1, <2>7
  <2>8. ASSUME Complete(lf.fed[L]) PROVE forwardFill(field) = lf.fed[L][field]
    <3>1. L \in 1..L /\ L \in K
      BY <1>1, <1>11, <2>1, <2>7, <2>8
    <3>2. Max(K) = L
      <4>1. Max(K) \in 1..L /\ L <= Max(K)
        BY <2>1, <2>5, <3>1
      <4> QED
        BY <1>1, <4>1
    <3> QED
      BY <2>2, <3>1, <3>2
  <2> QED
    BY <2>2, <2>6, <2>7, <2>8
<1> DEFINE fd == [field \in {"soma", "rrp", "tga"} |-> OrNothing(fed_data[field])]
<1>15. /\ fed_data["soma"] = forwardFill("soma") /\ fed_data["rrp"] = forwardFill("rrp")
       /\ fed_data["tga"] = forwardFill("tga")
  BY DEF fed_data
<1>16. /\ fd.soma \in Nat /\ fd.rrp \in Nat /\ fd.tga \in Nat
       /\ \A field \in {"soma", "rrp", "tga"} : fed_data[field] # Unknown => fd[field] = fed_data[field]
  BY <1>14, <1>15 DEF OrNothing
<1>17. (\E w \in LatestWeeks : Complete(lf.fed[w])) => Complete(fed_data)
  BY <1>14, <1>15 DEF Complete
<1>18. NetLiquidityFlow = [net |-> Net(fd), widths |-> <<100, Width(fd.rrp, fd.soma), Width(fd.tga, fd.soma), Width(Net(fd), fd.soma)>>]
  BY DEF NetLiquidityFlow
<1> HIDE DEF fd
<1>19. Net(fd) \in Int
  BY <1>16 DEF Net
<1>20. ASSUME NEW v \in Int, NEW most \in Nat PROVE Width(v, most) \in 0..100
  <2> DEFINE d == IF most = 0 THEN 1 ELSE most
             q == (100 * v) \div d
  <2>1. d \in Int /\ d > 0
    OBVIOUS
  <2>2. Width(v, most) = IF q < 0 THEN 0 ELSE IF q > 100 THEN 100 ELSE q
    BY DEF Width
  <2> HIDE DEF d
  <2>3. q \in Int
    BY <2>1
  <2> HIDE DEF q
  <2> QED
    BY <2>2, <2>3
<1>21. \A i \in 1..4 : NetLiquidityFlow.widths[i] \in 0..100
  <2>1. \A i \in 1..4 : i = 1 \/ i = 2 \/ i = 3 \/ i = 4
    OBVIOUS
  <2> QED
    <3>1. Width(fd.rrp, fd.soma) \in 0..100 /\ Width(fd.tga, fd.soma) \in 0..100 /\ Width(Net(fd), fd.soma) \in 0..100
      <4>1. fd.rrp \in Int /\ fd.tga \in Int /\ Net(fd) \in Int /\ fd.soma \in Nat
        BY <1>16, <1>19
      <4> QED
        BY <1>20, <4>1, Zenon
    <3>2. NetLiquidityFlow.widths = <<100, Width(fd.rrp, fd.soma), Width(fd.tga, fd.soma), Width(Net(fd), fd.soma)>>
      BY <1>18
    <3>3. 100 \in 0..100
      OBVIOUS
    <3> DEFINE T == 0..100
    <3> HIDE DEF T
    <3>4. \A i \in 1..4 : NetLiquidityFlow.widths[i] \in T
      <4>1. NetLiquidityFlow.widths[1] \in T /\ NetLiquidityFlow.widths[2] \in T /\ NetLiquidityFlow.widths[3] \in T
            /\ NetLiquidityFlow.widths[4] \in T
        BY ONLY <3>1, <3>2, <3>3 DEF T
      <4> QED
        BY ONLY <2>1, <4>1
    <3> QED
      BY <3>4 DEF T
<1>22. ASSUME Complete(lf.fed[Len(lf.fed)]) PROVE Layer1Card[1].net = NetLiquidityFlow.net
  <2>1. L \in 1..L /\ L >= 1
    BY <1>1, <1>11
  <2>2. L \in I /\ Complete(lf.fed[L])
    BY <1>2, <1>22, <2>1 DEF L
  <2>3. PICK i \in 1..n : a[i] = L
    BY <1>7, <2>2
  <2>4. a[n] = L
    <3>1. i = n \/ i < n
      BY <1>3
    <3>2. a[n] \in 1..L
      BY <1>2, <1>7, <1>9
    <3>3. i = n \/ a[i] < a[n]
      BY <1>7, <1>9, <3>1
    <3> QED
      BY <1>1, <2>3, <3>2, <3>3
  <2>5. fd.soma = lf.fed[L]["soma"] /\ fd.rrp = lf.fed[L]["rrp"] /\ fd.tga = lf.fed[L]["tga"]
    <3>1. lf.fed[L] \in FedRow
      BY <1>1, <2>1
    <3>2. \A field \in {"soma", "rrp", "tga"} : fed_data[field] = lf.fed[L][field] /\ fed_data[field] # Unknown
      BY <1>12, <1>14, <1>15, <2>2, <3>1
    <3> QED
      BY <1>16, <3>2
  <2>6. Net(fd) = Net(lf.fed[L])
    BY <2>5 DEF Net
  <2> QED
    BY <1>10, <1>18, <2>4, <2>6
<1> QED
  BY <1>17, <1>21, <1>22 DEF OneNetLiquidity

\* The events are some of those detected, the gravest first.
LEMMA DetectedOK ==
  ASSUME NEW events, events = DetectMarketEvents
  PROVE  \E n \in Nat :
            /\ events \in [1..n -> {"WARNING", "ALERT", "CRITICAL"}] /\ Len(events) = n
            /\ \A i, j \in 1..n : i < j => Rank(events[i]) >= Rank(events[j])
<1> DEFINE all == <<detectFundingStress, detectLiquidityDrain, detectBankStress,
                    detectVolatilityShock, detectCreditSpike, detectRepoStress>>
           S == {"WARNING", "ALERT", "CRITICAL"}
           I == {i \in DOMAIN all : all[i] # "none"}
           found == At(all, I)
           n == Cardinality(I)
           key == [i \in DOMAIN found |-> Rank(found[i])]
<1>1. events = ByKey(found, key)
  BY DEF DetectMarketEvents
<1>2. \A i \in 1..6 : all[i] \in {"none", "WARNING", "ALERT", "CRITICAL"}
  <2>1. /\ detectFundingStress \in {"none"} \cup S /\ detectLiquidityDrain \in {"none"} \cup S
        /\ detectBankStress \in {"none"} \cup S /\ detectVolatilityShock \in {"none"} \cup S
        /\ detectCreditSpike \in {"none"} \cup S /\ detectRepoStress \in {"none"} \cup S
    BY DEF detectFundingStress, detectLiquidityDrain, detectBankStress, detectVolatilityShock,
           detectCreditSpike, detectRepoStress
  <2>2. \A i \in 1..6 : i = 1 \/ i = 2 \/ i = 3 \/ i = 4 \/ i = 5 \/ i = 6
    OBVIOUS
  <2> QED
    BY <2>1, <2>2
<1>3. DOMAIN all = 1..6
  OBVIOUS
<1>4. I \subseteq 1..6 /\ \A i \in I : all[i] \in S
  BY <1>2, <1>3
<1>5. IsFiniteSet(I) /\ I \subseteq Int /\ n \in Nat
  <2>1. 6 \in Nat
    OBVIOUS
  <2> HIDE DEF I
  <2> QED
    BY <1>4, <2>1, SomeIndices, Zenon
<1> HIDE DEF I, all
<1>6. found \in Seq(S) /\ Len(found) = n
  <2> HIDE DEF S
  <2> QED
    BY <1>4, <1>5, AtOK
<1> HIDE DEF found, n
<1>7. DOMAIN found = 1..n /\ \A i \in 1..n : found[i] \in S
  BY <1>6
<1>8. \A x \in S : Rank(x) \in 0..3
  BY DEF Rank
<1>9. key \in [1..n -> Int] /\ \A i \in 1..n : key[i] = Rank(found[i])
  BY <1>7, <1>8
<1> HIDE DEF key, S
<1> DEFINE p == Ranking(found, key)
<1>10. /\ p \in [1..n -> 1..n] /\ DOMAIN ByKey(found, key) = 1..n /\ Len(ByKey(found, key)) = n
       /\ \A k \in 1..n : ByKey(found, key)[k] = found[p[k]]
       /\ \A i, j \in 1..n : i < j => key[p[i]] >= key[p[j]]
  <2>1. n \in Nat /\ DOMAIN found = 1..n /\ n = Len(found) /\ \A i \in 1..n : key[i] \in Int
    BY <1>5, <1>6, <1>7, <1>9
  <2>2. p \in [1..n -> 1..n]
    BY ONLY <2>1, ByKeyOK
  <2>3. DOMAIN ByKey(found, key) = 1..n
    BY ONLY <2>1, ByKeyOK
  <2>4. Len(ByKey(found, key)) = n
    BY ONLY <2>1, ByKeyOK
  <2>5. \A k \in 1..n : ByKey(found, key)[k] = found[p[k]]
    <3>1. ByKey(found, key) = [k \in DOMAIN found |-> found[p[k]]]
      BY ONLY Zenon DEF ByKey, Ranking, p
    <3> QED
      BY ONLY <2>1, <3>1
  <2>6. \A i, j \in 1..n : i < j => key[p[i]] >= key[p[j]]
    BY ONLY <2>1, ByKeyOK
  <2> QED
    BY ONLY <2>2, <2>3, <2>4, <2>5, <2>6
<1> HIDE DEF p
<1>11. DOMAIN events = 1..n /\ Len(events) = n /\ \A k \in 1..n : events[k] = found[p[k]]
  BY <1>1, <1>10
<1>12. events \in [1..n -> S] /\ Len(events) = n
  <2>1. \A k \in 1..n : p[k] \in 1..n
    BY ONLY <1>10
  <2>2. \A k \in 1..n : found[p[k]] \in S
    BY <1>7, <2>1
  <2>3. events = [k \in DOMAIN events |-> events[k]]
    BY DEF DetectMarketEvents, ByKey
  <2> QED
    BY ONLY <1>11, <2>2, <2>3
<1>13. ASSUME NEW i \in 1..n, NEW j \in 1..n, i < j PROVE Rank(events[i]) >= Rank(events[j])
  <2>1. key[p[i]] >= key[p[j]] /\ p[i] \in 1..n /\ p[j] \in 1..n
    BY <1>10, <1>13
  <2>2. key[p[i]] = Rank(found[p[i]]) /\ key[p[j]] = Rank(found[p[j]])
    BY <1>9, <2>1
  <2>3. events[i] = found[p[i]] /\ events[j] = found[p[j]]
    BY <1>11
  <2> QED
    BY <2>1, <2>2, <2>3
<1> QED
  BY <1>5, <1>12, <1>13 DEF S

\* The page's events are the ones the API finds.
LEMMA EventsOK == LiquidityKnown => EventsAgree
<1> SUFFICES ASSUME LiquidityKnown PROVE EventsAgree
  OBVIOUS
<1> DEFINE events == DetectMarketEvents
           hy == Now("hy")
           sensor == CreditPressurePanel.dots.hy
<1>0. Unknown \notin Int /\ hy \in Int \cup {Unknown}
  BY LiquidityFiguresConstants, NowOK
<1>1. PICK n \in Nat :
         /\ events \in [1..n -> {"WARNING", "ALERT", "CRITICAL"}] /\ Len(events) = n
         /\ \A i, j \in 1..n : i < j => Rank(events[i]) >= Rank(events[j])
  BY DetectedOK
<1>2. /\ EventDetectionPanel.rows = events
      /\ events # <<>> => EventDetectionPanel.header = events[1]
  BY DEF EventDetectionPanel
<1>3. ASSUME NEW i \in DOMAIN EventDetectionPanel.rows
      PROVE  Rank(EventDetectionPanel.rows[i]) <= Rank(EventDetectionPanel.header)
  <2>1. i \in 1..n /\ 1 \in 1..n
    BY <1>1, <1>2, <1>3
  <2>2. events # <<>>
    BY <1>1, <2>1
  <2>3. Rank(events[1]) \in Int /\ (i = 1 \/ 1 < i)
    BY <1>1, <2>1 DEF Rank
  <2>4. Rank(events[1]) >= Rank(events[i])
    BY <1>1, <2>1, <2>3
  <2> HIDE DEF events
  <2>5. Rank(events[i]) \in Int
    BY <1>1, <2>1 DEF Rank
  <2> QED
    BY <1>2, <2>2, <2>3, <2>4, <2>5
<1>4. sensor = Judged("hy", 350, 500)
  BY DEF CreditPressurePanel, CalculateCreditPressure
<1>5. sensor = "danger" => Rank(detectCreditSpike) >= 2
  BY <1>0, <1>4 DEF Judged, detectCreditSpike, AtLeast, Rank
<1>6. Rank(detectCreditSpike) >= 2 => sensor = "danger" \/ hy = 500 \/ AtLeast("hyMonth", 150)
  BY <1>0, <1>4 DEF Judged, detectCreditSpike, AtLeast, Rank
<1> QED
  BY <1>3, <1>5, <1>6 DEF EventsAgree

\* The buttons count the rows they show.
LEMMA ButtonsOK == LiquidityKnown => ButtonsCountRows
<1> SUFFICES ASSUME LiquidityKnown PROVE ButtonsCountRows
  OBVIOUS
<1> DEFINE M == DOMAIN lf.months
           L == Len(lf.months)
           month(c) == {m \in M : lf.months[m] = c}
           C == {c \in Range(States) \cup {"NEUTRAL"} : CountOf(c) > 0}
           B == {[code |-> c, count |-> CountOf(c)] : c \in C}
           allMonths == [code |-> "ALL", count |-> L]
<1>1. L \in Nat /\ M = 1..L /\ \A m \in M : lf.months[m] \in {"LIQUIDITY_SHOCK", "HEALTHY", "NEUTRAL"}
  BY DEF LiquidityKnown, LiquidityTypeOK
<1>2. IsFiniteSet(M) /\ M \subseteq Int /\ Cardinality(M) = L
  <2> HIDE DEF M, L
  <2>1. IsFiniteSet(1..L) /\ Cardinality(1..L) = L
    BY <1>1, FS_Interval
  <2> QED
    BY <1>1, <2>1
<1>3. FilterButtons = B \cup {allMonths}
  BY DEF FilterButtons
<1>4. \A c : CountOf(c) = Cardinality(month(c))
  BY DEF CountOf
<1>5. ASSUME NEW c PROVE IsFiniteSet(month(c)) /\ month(c) \subseteq Int /\ CountOf(c) \in Nat
                         /\ \A m \in M : lf.months[m] = c => CountOf(c) > 0
  <2> DEFINE T == month(c)
  <2>0. T \subseteq M /\ \A m \in M : lf.months[m] = c => m \in T
    OBVIOUS
  <2>3. CountOf(c) = Cardinality(T)
    BY <1>4
  <2> HIDE DEF T, M
  <2>1. IsFiniteSet(T) /\ T \subseteq Int /\ Cardinality(T) \in Nat
    BY <1>2, <2>0, FS_Subset, FS_CardinalityType
  <2>2. T # {} => Cardinality(T) > 0
    BY <2>1, FS_EmptySet
  <2>4. T \subseteq Int /\ IsFiniteSet(T) /\ CountOf(c) \in Nat /\ \A m \in M : lf.months[m] = c => CountOf(c) > 0
    BY <2>0, <2>1, <2>2, <2>3
  <2> QED
    BY <2>4 DEF T
<1>6. States[1] = "LIQUIDITY_SHOCK" /\ States[7] = "HEALTHY" /\ DOMAIN States = 1..7
  BY DEF States
<1>7. /\ "LIQUIDITY_SHOCK" \in Range(States) /\ "HEALTHY" \in Range(States)
      /\ "ALL" \notin Range(States) \cup {"NEUTRAL"}
  <2>1. 1 \in 1..7 /\ 7 \in 1..7
    OBVIOUS
  <2>2. \A i \in 1..7 : States[i] # "ALL"
    BY StateNames
  <2> QED
    BY <1>6, <2>1, <2>2 DEF Range
<1>8. \A m \in M : lf.months[m] \in C
  BY <1>1, <1>5, <1>7
<1>9. "ALL" \notin C /\ IsFiniteSet(C)
  <2>1. C \subseteq {lf.months[m] : m \in M}
    <3> SUFFICES ASSUME NEW c \in C, month(c) = {} PROVE FALSE
      OBVIOUS
    <3>1. CountOf(c) = Cardinality({})
      BY <1>4
    <3>2. CountOf(c) = 0 /\ CountOf(c) > 0
      BY <3>1, FS_EmptySet
    <3> QED
      BY <3>2
  <2> DEFINE I == {lf.months[m] : m \in M}
  <2> HIDE DEF M
  <2>2. IsFiniteSet(I)
    BY <1>2, ImageOK
  <2> HIDE DEF I, C
  <2>3. IsFiniteSet(C)
    BY <2>1, <2>2, FS_Subset DEF I
  <2> QED
    BY <1>7, <2>3 DEF C
\* Rows.
<1>10. ASSUME NEW I, I \subseteq Int, IsFiniteSet(I) PROVE Len(Reverse(Ascending(I))) = Cardinality(I)
  <2>1. Ascending(I) \in [1..Cardinality(I) -> I] /\ Cardinality(I) \in Nat
    BY <1>10, AscendingOK
  <2>2. Len(Ascending(I)) = Cardinality(I)
    BY <2>1
  <2> DEFINE s == Ascending(I)
  <2> HIDE DEF s
  <2>3. Reverse(s) = [i \in 1..Len(s) |-> s[(Len(s) - i) + 1]]
    BY DEF Reverse
  <2>4. Len(s) \in Nat
    BY <2>1, <2>2 DEF s
  <2>5. Len(Reverse(s)) = Len(s)
    BY <2>3, <2>4
  <2> QED
    BY <2>2, <2>5 DEF s
<1>11. ASSUME NEW b \in FilterButtons PROVE Len(Occurrences(b.code)) = b.count
  <2> DEFINE I == {m \in M : b.code \in {"ALL", lf.months[m]}}
  <2>1. Occurrences(b.code) = Reverse(Ascending(I))
    BY DEF Occurrences
  <2>2. CASE b = allMonths
    <3>1. I = M /\ b.count = L
      BY <2>2
    <3> QED
      BY <1>2, <1>10, <2>1, <3>1
  <2>3. ASSUME NEW c \in C, b = [code |-> c, count |-> CountOf(c)] PROVE Len(Occurrences(b.code)) = b.count
    <3>1. c # "ALL" /\ b.code = c /\ b.count = CountOf(c)
      BY <1>9, <2>3
    <3>2. I = month(c)
      BY <3>1
    <3>3. IsFiniteSet(I) /\ I \subseteq Int
      BY <1>5, <3>2
    <3> QED
      BY <1>4, <1>10, <2>1, <3>1, <3>2, <3>3
  <2> QED
    BY <1>3, <2>2, <2>3
\* Their numbers.
<1> DEFINE f == [b \in FilterButtons |-> b.count]
           one == [m \in M |-> 1]
           F == [c \in C |-> CountOf(c)]
           p == [c \in C |-> [code |-> c, count |-> CountOf(c)]]
           N == {p[c] : c \in C}
<1>12. SumFunctionOnSet(F, C) = L
  <2>1. \A m \in M : one[m] \in Int /\ one[m] = 1
    OBVIOUS
  <2>2. ASSUME NEW c \in C PROVE F[c] = SumFunctionOnSet(one, {m \in M : lf.months[m] = c})
    <3> DEFINE T == {m \in M : lf.months[m] = c}
    <3>1. IsFiniteSet(T) /\ \A m \in T : one[m] = 1
      BY <1>5
    <3>2. F[c] = Cardinality(T)
      BY <1>4
    <3> HIDE DEF T
    <3>3. SumFunctionOnSet(one, T) = Cardinality(T)
      BY <3>1, SumOnes
    <3> QED
      BY <3>2, <3>3 DEF T
  <2> DEFINE P == [c \in C |-> month(c)]
  <2>3. P \in [C -> SUBSET M] /\ (\A m \in M : \E c \in C : m \in P[c]) /\ \A c, d \in C : c # d => P[c] \cap P[d] = {}
    BY <1>8
  <2>4. \A c \in C : F[c] = SumFunctionOnSet(one, P[c])
    BY <2>2
  <2> HIDE DEF M, C, F, one, P
  <2>5. SumFunctionOnSet(F, C) = SumFunctionOnSet(one, M)
    <3>1. IsFiniteSet(M) /\ IsFiniteSet(C) /\ \A m \in M : one[m] \in Int
      BY <1>2, <1>9, <2>1
    <3> QED
      BY ONLY <2>3, <2>4, <3>1, SumByParts
  <2>6. SumFunctionOnSet(one, M) = Cardinality(M)
    BY <1>2, <2>1, SumOnes
  <2> QED
    BY <1>2, <2>5, <2>6
<1>13. N = B /\ allMonths \notin B
  BY <1>9
<1>14. \A b \in FilterButtons : f[b] = b.count
  OBVIOUS
<1>15. \A c \in C : p[c] \in FilterButtons /\ F[c] = f[p[c]] /\ F[c] \in Int
  <2> SUFFICES ASSUME NEW c \in C PROVE p[c] \in FilterButtons /\ F[c] = f[p[c]] /\ F[c] \in Int
    OBVIOUS
  <2>1. p[c] \in B /\ p[c].count = CountOf(c) /\ F[c] = CountOf(c)
    OBVIOUS
  <2>2. p[c] \in FilterButtons
    BY <1>3, <2>1
  <2>3. f[p[c]] = CountOf(c)
    BY <1>14, <2>1, <2>2
  <2>4. CountOf(c) \in Nat
    BY <1>5, Zenon
  <2> QED
    BY <2>1, <2>2, <2>3, <2>4
<1>16. p \in Bijection(C, N)
  <2>1. \A c, d \in C : p[c] = p[d] => c = d
    <3>1. \A c \in C : p[c].code = c
      OBVIOUS
    <3> QED
      BY <3>1
  <2>2. p \in [C -> N] /\ \A x \in N : \E c \in C : p[c] = x
    OBVIOUS
  <2> HIDE DEF p, N
  <2> QED
    BY <2>1, <2>2 DEF Bijection, Injection, Surjection, IsInjective
<1>17. IsFiniteSet(N) /\ SumFunctionOnSet(F, C) = SumFunctionOnSet(f, N)
  <2> HIDE DEF F, C, f, p, N
  <2> QED
    BY <1>9, <1>15, <1>16, SumThrough
<1>18. SumFunctionOnSet(f, N \cup {allMonths}) = f[allMonths] + SumFunctionOnSet(f, N)
  <2>1. \A b \in N \cup {allMonths} : f[b] \in Int
    <3>1. \A b \in N : f[b] \in Int
      BY <1>15, Zenon
    <3>2. f[allMonths] = L
      BY <1>3
    <3> QED
      BY <1>1, <3>1, <3>2
  <2> HIDE DEF f, N, allMonths
  <2> QED
    BY <1>13, <1>17, <2>1, SumWith
<1>19. f[allMonths] = L
  BY <1>3
<1>20. SumFunction(f) = SumFunctionOnSet(f, FilterButtons)
  <2>1. DOMAIN f = FilterButtons
    OBVIOUS
  <2> HIDE DEF f
  <2> QED
    BY <2>1, SumIs
<1>21. FilterButtons = N \cup {allMonths}
  BY <1>3, <1>13
<1>22. SumFunction(f) = 2 * L
  <2> HIDE DEF f, F, N, C, allMonths, L
  <2>1. SumFunction(f) = L + L
    BY <1>12, <1>17, <1>18, <1>19, <1>20, <1>21
  <2> QED
    BY <1>1, <2>1
<1> QED
  BY <1>11, <1>22 DEF ButtonsCountRows

\* The figures of the liquidity page agree, whichever are the latest.
LEMMA LiquidityOK == LiquidityKnown => LiquidityFiguresSound
BY MarkerOK, MetersOK, GravestOK, NetOK, EventsOK, SensorsOK, ButtonsOK DEF LiquidityFiguresSound

-----------------------------------------------------------------------------
(* The integrated dashboard.                                                 *)

Codes == {"LIQUIDITY_SHOCK", "CREDIT_CONTRACTION", "POLICY_TIGHTENING", "SPLIT_BUBBLE",
          "MARKET_OVERSHOOT", "FINANCIAL_RALLY", "HEALTHY", "NEUTRAL"}

\* Each phase has its column of the matrix.
LEMMA ColumnOK == ASSUME NEW i \in 1..5 PROVE phaseToCol(Phases[i]) = i
<1>1. /\ Phases[1] = "EXPANSION" /\ Phases[2] = "SLOWDOWN" /\ Phases[3] = "CAUTION"
      /\ Phases[4] = "CONTRACTION" /\ Phases[5] = "CRISIS"
  BY DEF Phases
<1>2. \A j \in 1..5 : j = 1 \/ j = 2 \/ j = 3 \/ j = 4 \/ j = 5
  OBVIOUS
<1>3. \A j, k \in 1..5 : Phases[j] = Phases[k] => j = k
  BY <1>1, <1>2
<1>4. (CHOOSE j \in 1..5 : Phases[j] = Phases[i]) = i
  BY <1>3
<1> QED
  BY <1>4 DEF phaseToCol

\* The phase of a code is where it stands in the list.
LEMMA PhaseIs ==
  ASSUME NEW score
  PROVE  \E i \in 1..5 : /\ GetPhase(score) = Phases[i]
                         /\ i = IF score <= 20 THEN 1 ELSE IF score <= 40 THEN 2 ELSE IF score <= 60 THEN 3
                                ELSE IF score <= 80 THEN 4 ELSE 5
<1> DEFINE i == IF score <= 20 THEN 1 ELSE IF score <= 40 THEN 2 ELSE IF score <= 60 THEN 3
                ELSE IF score <= 80 THEN 4 ELSE 5
<1>1. i \in 1..5
  OBVIOUS
<1>2. GetPhase(score) = Phases[i]
  BY Zenon DEF GetPhase
<1> QED
  BY <1>1, <1>2

\* The code of the state is one of those there are.
LEMMA CodeIs == stateCode \in Codes
<1>1. States \in [1..7 -> Codes]
  BY DEF States, Codes
<1>2. CASE DetermineMarketState.code = "NEUTRAL"
  BY <1>2 DEF Codes, stateCode
<1>3. ASSUME NEW n \in Nat, NEW f \in [1..n -> 1..7], n >= 1, DetermineMarketState.code = States[f[1]]
      PROVE stateCode \in Codes
  <2>1. f[1] \in 1..7
    BY <1>3
  <2> QED
    BY <1>1, <1>3, <2>1 DEF stateCode
<1> QED
  BY <1>2, <1>3, StateOK

\* The sentence of the banner beside the cell of the matrix.
Severe == [green |-> 0, cyan |-> 1, yellow |-> 2, orange |-> 3, red |-> 4]

\* The sentence and the cell of the matrix are those of the phase.
LEMMA SentenceAndCell ==
  ASSUME NEW state \in Codes, NEW i \in 1..5
  PROVE  LET text == getIntegratedInsight(state, Phases[i])
             tone == MATRIX_COLORS[stateToRow(state)][i]
         IN  /\ Severe[text] >= Severe[tone] \/ stateToRow(state) = 4
             /\ text = "red" => Severe[tone] >= 3
             /\ text = "green" => tone = "green"
             /\ Severe[text] - Severe[tone] \in -1..1
<1> DEFINE text == getIntegratedInsight(state, Phases[i])
           row == stateToRow(state)
           tone == MATRIX_COLORS[row][i]
           Fine == /\ Severe[text] >= Severe[tone] \/ row = 4
                   /\ text = "red" => Severe[tone] >= 3
                   /\ text = "green" => tone = "green"
                   /\ Severe[text] - Severe[tone] \in -1..1
<1>0. /\ Severe["green"] = 0 /\ Severe["cyan"] = 1 /\ Severe["yellow"] = 2
      /\ Severe["orange"] = 3 /\ Severe["red"] = 4
  BY DEF Severe
<1>1. /\ Phases[1] = "EXPANSION" /\ Phases[2] = "SLOWDOWN" /\ Phases[3] = "CAUTION"
      /\ Phases[4] = "CONTRACTION" /\ Phases[5] = "CRISIS"
  BY DEF Phases
<1>2. i = 1 \/ i = 2 \/ i = 3 \/ i = 4 \/ i = 5
  OBVIOUS
<1>3. CASE state \in {"HEALTHY", "FINANCIAL_RALLY"}
  <2>1. row = 1
    BY <1>3 DEF stateToRow
  <2>2. /\ i = 1 => text = "green"
        /\ i = 2 => text = "cyan"
        /\ i = 3 => text = "yellow"
        /\ i = 4 => text = "red"
        /\ i = 5 => text = "red"
    BY <1>1, <1>3 DEF getIntegratedInsight
  <2>3. /\ i = 1 => tone = "green"
        /\ i = 2 => tone = "green"
        /\ i = 3 => tone = "yellow"
        /\ i = 4 => tone = "orange"
        /\ i = 5 => tone = "red"
    BY <2>1 DEF MATRIX_COLORS
  <2>4. Fine
    <3> HIDE DEF text, row, tone
    <3> QED
      BY <1>0, <1>2, <2>1, <2>2, <2>3
  <2> QED
    BY <2>4
<1>4. CASE state \in {"NEUTRAL", "MARKET_OVERSHOOT"}
  <2>1. row = 2
    BY <1>4 DEF stateToRow
  <2>2. /\ i = 1 => text = "cyan"
        /\ i = 2 => text = "cyan"
        /\ i = 3 => text = "yellow"
        /\ i = 4 => text = "red"
        /\ i = 5 => text = "red"
    BY <1>1, <1>4 DEF getIntegratedInsight
  <2>3. /\ i = 1 => tone = "green"
        /\ i = 2 => tone = "cyan"
        /\ i = 3 => tone = "yellow"
        /\ i = 4 => tone = "orange"
        /\ i = 5 => tone = "red"
    BY <2>1 DEF MATRIX_COLORS
  <2>4. Fine
    <3> HIDE DEF text, row, tone
    <3> QED
      BY <1>0, <1>2, <2>1, <2>2, <2>3
  <2> QED
    BY <2>4
<1>5. CASE state \in {"POLICY_TIGHTENING"}
  <2>1. row = 3
    BY <1>5 DEF stateToRow
  <2>2. /\ i = 1 => text = "yellow"
        /\ i = 2 => text = "yellow"
        /\ i = 3 => text = "orange"
        /\ i = 4 => text = "red"
        /\ i = 5 => text = "red"
    BY <1>1, <1>5 DEF getIntegratedInsight
  <2>3. /\ i = 1 => tone = "yellow"
        /\ i = 2 => tone = "yellow"
        /\ i = 3 => tone = "orange"
        /\ i = 4 => tone = "orange"
        /\ i = 5 => tone = "red"
    BY <2>1 DEF MATRIX_COLORS
  <2>4. Fine
    <3> HIDE DEF text, row, tone
    <3> QED
      BY <1>0, <1>2, <2>1, <2>2, <2>3
  <2> QED
    BY <2>4
<1>6. CASE state \in {"CREDIT_CONTRACTION", "SPLIT_BUBBLE"}
  <2>1. row = 4
    BY <1>6 DEF stateToRow
  <2>2. /\ i = 1 => text = "yellow"
        /\ i = 2 => text = "yellow"
        /\ i = 3 => text = "orange"
        /\ i = 4 => text = "red"
        /\ i = 5 => text = "red"
    BY <1>1, <1>6 DEF getIntegratedInsight
  <2>3. /\ i = 1 => tone = "orange"
        /\ i = 2 => tone = "orange"
        /\ i = 3 => tone = "red"
        /\ i = 4 => tone = "red"
        /\ i = 5 => tone = "red"
    BY <2>1 DEF MATRIX_COLORS
  <2>4. Fine
    <3> HIDE DEF text, row, tone
    <3> QED
      BY <1>0, <1>2, <2>1, <2>2, <2>3
  <2> QED
    BY <2>4
<1>7. CASE state \in {"LIQUIDITY_SHOCK"}
  <2>1. row = 5
    BY <1>7 DEF stateToRow
  <2>2. /\ i = 1 => text = "red"
        /\ i = 2 => text = "red"
        /\ i = 3 => text = "red"
        /\ i = 4 => text = "red"
        /\ i = 5 => text = "red"
    BY <1>1, <1>7 DEF getIntegratedInsight
  <2>3. /\ i = 1 => tone = "red"
        /\ i = 2 => tone = "red"
        /\ i = 3 => tone = "red"
        /\ i = 4 => tone = "red"
        /\ i = 5 => tone = "red"
    BY <2>1 DEF MATRIX_COLORS
  <2>4. Fine
    <3> HIDE DEF text, row, tone
    <3> QED
      BY <1>0, <1>2, <2>1, <2>2, <2>3
  <2> QED
    BY <2>4
<1> QED
  BY <1>3, <1>4, <1>5, <1>6, <1>7 DEF Codes

\* The dashboard gives one verdict.
LEMMA VerdictOK == VerdictIsOne
<1> DEFINE score == Now("total")
           banner == TodaysVerdictBanner
<1>1. PICK i \in 1..5 : phaseCode = Phases[i]
  BY PhaseIs DEF phaseCode
<1>2. phaseToCol(phaseCode) = i
  BY <1>1, ColumnOK
<1>3. /\ banner.text = getIntegratedInsight(stateCode, Phases[i])
      /\ banner.tone = MATRIX_COLORS[stateToRow(stateCode)][i]
  BY <1>1, <1>2 DEF TodaysVerdictBanner
<1>4. /\ Severe[banner.text] >= Severe[banner.tone] \/ stateToRow(stateCode) = 4
      /\ banner.text = "red" => Severe[banner.tone] >= 3
      /\ banner.text = "green" => banner.tone = "green"
      /\ Severe[banner.text] - Severe[banner.tone] \in -1..1
  <2> HIDE DEF banner
  <2> QED
    BY <1>3, CodeIs, SentenceAndCell
<1>5. Cardinality(StatePhaseMatrix) = 1
  <2> DEFINE cell == <<stateToRow(stateCode), phaseToCol(phaseCode)>>
  <2>1. stateToRow(stateCode) \in 1..5
    BY CodeIs DEF Codes, stateToRow
  <2>2. StatePhaseMatrix = {cell}
    BY <1>2, <2>1 DEF StatePhaseMatrix
  <2> HIDE DEF cell
  <2> QED
    BY <2>2, FS_Singleton
<1> HIDE DEF banner
<1>6. VerdictIsOne <=>
        /\ Severe[banner.text] >= Severe[banner.tone] \/ stateToRow(stateCode) = 4
        /\ banner.text = "red" => Severe[banner.tone] >= 3
        /\ banner.text = "green" => banner.tone = "green"
        /\ Severe[banner.text] - Severe[banner.tone] \in -1..1
        /\ Cardinality(StatePhaseMatrix) = 1
  BY DEF VerdictIsOne, Severe, banner
<1> QED
  BY <1>4, <1>5, <1>6

\* The cards are of the figures the verdict is of.
LEMMA CardsOK ==
  ASSUME LiquidityKnown, lf.group = "dashboard"
  PROVE  CardsAreOfTheVerdict
<1> DEFINE l1 == Now("l1")
           l2a == Now("l2a")
           l2b == Now("l2b")
           total == Now("total")
           cards == getInsightCards
<1>1. l1 \in 0..100 /\ l2a \in 0..100 /\ l2b \in 0..100 /\ total \in 0..100
  <2>1. Known(lf.group) = Figures["dashboard"] /\ Layers \cup {"total"} \subseteq DOMAIN Known(lf.group)
    BY LiquidityFiguresConstants DEF Known
  <2>2. \A s \in Layers \cup {"total"} : Now(s) \in 0..100
    BY <2>1, NowOK, LiquidityFiguresConstants
  <2> QED
    BY <2>2 DEF Layers
<1>2. Unknown \notin Int
  BY LiquidityFiguresConstants
<1>3. \A s \in {"l1", "l2a", "l2b", "total"} : Now(s) \in Int /\ Now(s) # Unknown
  BY <1>1, <1>2
<1>4. PolicyCard(DetectPolicyRegime) \subseteq {"QT", "QE", "pivot"}
  BY DEF PolicyCard
<1>5. /\ "bank stress" \in cards <=> l2a >= 65
      /\ "downturn" \in cards <=> total >= 60
      /\ "leverage" \in cards <=> l2b >= 70
      /\ "policy eases" \in cards => l1 <= 30
  <2> DEFINE P == PolicyCard(DetectPolicyRegime)
             A == (IF AtLeast("l1", 60) THEN {"policy tightens"} ELSE IF AtMost("l1", 30) THEN {"policy eases"} ELSE {})
             B == {c \in {"bank stress"} : AtLeast("l2a", 65)}
             C == {c \in {"leverage"} : AtLeast("l2b", 70)}
             D == {c \in {"downturn"} : AtLeast("total", 60)}
             E == {c \in {"sahm"} : AtLeast("sahm", 50)}
             F == {c \in {"critical event"} : "CRITICAL" \in Range(DetectMarketEvents)}
  <2>1. cards = P \cup A \cup B \cup C \cup D \cup E \cup F
    BY DEF getInsightCards
  <2>2. P \subseteq {"QT", "QE", "pivot"} /\ E \subseteq {"sahm"} /\ F \subseteq {"critical event"}
    BY <1>4
  <2>3. A \subseteq {"policy tightens", "policy eases"} /\ ("policy eases" \in A => l1 <= 30)
    BY DEF AtMost
  <2>4. B \subseteq {"bank stress"} /\ ("bank stress" \in B <=> l2a >= 65)
    BY <1>3 DEF AtLeast
  <2>5. C \subseteq {"leverage"} /\ ("leverage" \in C <=> l2b >= 70)
    BY <1>3 DEF AtLeast
  <2>6. D \subseteq {"downturn"} /\ ("downturn" \in D <=> total >= 60)
    BY <1>3 DEF AtLeast
  <2> HIDE DEF P, A, B, C, D, E, F, l1, l2a, l2b, total, cards
  <2> QED
    BY <2>1, <2>2, <2>3, <2>4, <2>5, <2>6
<1>6. stateCode = "LIQUIDITY_SHOCK" <=> l2a >= 65
  <2>1. Matches(States[1]) <=> l2a >= 65
    BY StateNames DEF Matches
  <2>2. \A i \in 2..7 : States[i] # "LIQUIDITY_SHOCK"
    BY StateNames
  <2>3. CASE DetermineMarketState.code = "NEUTRAL" /\ \A i \in 1..7 : ~Matches(States[i])
    BY <2>1, <2>3 DEF stateCode
  <2>4. ASSUME NEW n \in Nat, NEW f \in [1..n -> 1..7], n >= 1, DetermineMarketState.code = States[f[1]],
               \A k \in 1..n : Matches(States[f[k]]), \A i \in 1..7 : i < f[1] => ~Matches(States[i])
        PROVE  stateCode = "LIQUIDITY_SHOCK" <=> l2a >= 65
    <3>1. f[1] \in 1..7 /\ Matches(States[f[1]]) /\ stateCode = States[f[1]]
      BY <2>4 DEF stateCode
    <3>2. CASE f[1] = 1
      BY <2>1, <3>1, <3>2, StateNames
    <3>3. CASE f[1] # 1
      <4>1. f[1] \in 2..7 /\ 1 < f[1]
        BY <3>1, <3>3
      <4> QED
        BY <2>1, <2>2, <2>4, <3>1, <4>1
    <3> QED
      BY <3>2, <3>3
  <2> QED
    BY <2>3, <2>4, StateOK
<1>7. stateCode # "NEUTRAL" => Matches(stateCode)
  <2>1. CASE DetermineMarketState.code = "NEUTRAL"
    BY <2>1 DEF stateCode
  <2>2. ASSUME NEW n \in Nat, NEW f \in [1..n -> 1..7], n >= 1, DetermineMarketState.code = States[f[1]],
               \A k \in 1..n : Matches(States[f[k]])
        PROVE  Matches(stateCode)
    <3>1. 1 \in 1..n
      BY <2>2
    <3> QED
      BY <2>2, <3>1 DEF stateCode
  <2> QED
    BY <2>1, <2>2, StateOK
<1>8. /\ stateCode = "POLICY_TIGHTENING" => l1 >= 45
      /\ stateCode = "HEALTHY" => l2b < 40
  BY <1>7 DEF Matches
<1>9. phaseCode \in {"CONTRACTION", "CRISIS"} \/ total = 60 <=> total >= 60
  BY <1>1 DEF phaseCode, GetPhase, Phases
<1>10. scoreLabel(l2b) = "danger" <=> l2b >= 70
  BY <1>1 DEF scoreLabel
<1> HIDE DEF l1, l2a, l2b, total, cards
<1>11. "policy eases" \in cards => stateCode # "POLICY_TIGHTENING"
  <2> SUFFICES ASSUME "policy eases" \in cards, stateCode = "POLICY_TIGHTENING" PROVE FALSE
    OBVIOUS
  <2>1. l1 <= 30 /\ l1 >= 45
    BY <1>5, <1>8
  <2> QED
    BY ONLY <1>1, <2>1
<1>12. "leverage" \in cards => stateCode # "HEALTHY"
  <2> SUFFICES ASSUME "leverage" \in cards, stateCode = "HEALTHY" PROVE FALSE
    OBVIOUS
  <2>1. l2b >= 70 /\ l2b < 40
    BY <1>5, <1>8
  <2> QED
    BY ONLY <1>1, <2>1
<1> QED
  BY <1>5, <1>6, <1>9, <1>10, <1>11, <1>12 DEF CardsAreOfTheVerdict, cards, l2b, total

\* Each policy has its card.
LEMMA PolicyOK == PolicyHasItsCard
<1>1. DetectPolicyRegime \in {"PIVOT_CONFIRMED", "PIVOT_EARLY", "QE_MODE", "QT_ACTIVE", "QT_EXHAUSTED", "NEUTRAL_POLICY"}
  BY DEF DetectPolicyRegime
<1>2. PolicyCard("NEUTRAL_POLICY") = {} /\ PolicyCard("QE_MODE") # {}
  BY DEF PolicyCard
<1> QED
  BY <1>1, <1>2 DEF PolicyHasItsCard

\* The legend names each phase once.
LEMMA PhaseLegendOK == LegendIsTrue
BY DEF LegendIsTrue, ScoreRing, ScoreLegend, scoreLabel

\* The three that are listed are the gravest.
LEMMA ListedOK == GravestAreListed
<1> DEFINE events == DetectMarketEvents
           listed == PlumbingCard.events
           Critical(l) == {i \in DOMAIN l : l[i] = "CRITICAL"}
           I == Critical(events)
           J == Critical(listed)
<1>1. PICK n \in Nat :
         /\ events \in [1..n -> {"WARNING", "ALERT", "CRITICAL"}] /\ Len(events) = n
         /\ \A i, j \in 1..n : i < j => Rank(events[i]) >= Rank(events[j])
  BY DetectedOK
<1> DEFINE m == IF 3 <= n THEN 3 ELSE n
<1>2. listed = SubSeq(events, 1, m)
  <2>1. Min({3, n}) = m
    BY OfTwo
  <2> HIDE DEF m
  <2>2. listed = SubSeq(events, 1, Min({3, Len(events)}))
    BY DEF PlumbingCard
  <2> QED
    BY <1>1, <2>1, <2>2
<1>3. m \in 0..n /\ m <= 3 /\ (m < n => m = 3)
  OBVIOUS
<1> HIDE DEF m, events, listed
<1>4. listed = [i \in 1..m |-> events[i]]
  BY <1>1, <1>2, <1>3
<1>5. \A i \in 1..n : Rank(events[i]) \in 1..3 /\ (Rank(events[i]) >= 3 <=> events[i] = "CRITICAL")
  BY <1>1 DEF Rank
<1>6. DOMAIN events = 1..n /\ DOMAIN listed = 1..m /\ 1..m \subseteq 1..n /\ \A i \in 1..m : listed[i] = events[i]
  BY <1>1, <1>3, <1>4
<1>7. I \subseteq 1..n /\ J \subseteq I /\ \A i \in I : i \in 1..m => i \in J
  BY <1>6
<1>8. ASSUME NEW i \in I, NEW j \in 1..n, j < i PROVE j \in I
  <2>1. i \in 1..n /\ events[i] = "CRITICAL"
    BY <1>6, <1>8
  <2>2. Rank(events[j]) >= Rank(events[i])
    BY <1>1, <1>8, <2>1
  <2>3. events[j] = "CRITICAL"
    BY <1>5, <2>1, <2>2
  <2> QED
    BY <1>6, <2>3
<1>9. IsFiniteSet(I) /\ Cardinality(I) \in Nat
  <2> HIDE DEF I
  <2> QED
    BY <1>7, SomeIndices, Zenon
<1>10. Cardinality(I) <= 3 => I = J
  <2> SUFFICES ASSUME Cardinality(I) <= 3, NEW i \in I, i \notin J PROVE FALSE
    BY <1>7
  <2>1. i \in 1..n /\ i \notin 1..m
    BY <1>7
  <2>2. i >= 4 /\ n >= 4
    BY <1>3, <2>1
  <2>3. 1..4 \subseteq I
    <3> SUFFICES ASSUME NEW j \in 1..4 PROVE j \in I
      OBVIOUS
    <3>1. j \in 1..n /\ (j < i \/ j = i)
      BY <2>1, <2>2
    <3> QED
      BY <1>8, <3>1
  <2>4. IsFiniteSet(1..4) /\ Cardinality(1..4) = 4
    <3>1. 1 \in Int /\ 4 \in Int /\ 4 - 1 + 1 = 4 /\ ~(1 > 4)
      OBVIOUS
    <3> QED
      BY ONLY <3>1, FS_Interval
  <2> HIDE DEF I
  <2>5. Cardinality(1..4) <= Cardinality(I)
    BY <1>9, <2>3, FS_Subset
  <2> QED
    BY <1>9, <2>4, <2>5
<1>11. "critical event" \in getInsightCards => listed[1] = "CRITICAL"
  <2> SUFFICES ASSUME "critical event" \in getInsightCards PROVE listed[1] = "CRITICAL"
    OBVIOUS
  <2>1. PolicyCard(DetectPolicyRegime) \subseteq {"QT", "QE", "pivot"}
    BY DEF PolicyCard
  <2>2. "CRITICAL" \in Range(events)
    BY <2>1 DEF getInsightCards, events
  <2>3. PICK i \in 1..n : events[i] = "CRITICAL"
    BY <1>6, <2>2 DEF Range
  <2>4. i \in I /\ 1 \in 1..n /\ (1 < i \/ 1 = i) /\ n >= 1
    <3>1. i \in I
      BY <1>6, <2>3
    <3>2. 1 \in 1..n /\ (1 < i \/ 1 = i) /\ n >= 1
      BY ONLY n \in Nat, i \in 1..n
    <3> QED
      BY ONLY <3>1, <3>2
  <2>5. 1 \in I /\ 1 \in 1..m
    <3>1. 1 \in 1..m
      BY ONLY n \in Nat, <1>3, <2>4
    <3> QED
      BY <1>8, <2>4, <3>1
  <2> QED
    BY <1>6, <2>5
<1>12. /\ "critical event" \in getInsightCards => listed[1] = "CRITICAL"
       /\ Cardinality(I) <= 3 => Cardinality(J) = Cardinality(I)
  BY <1>10, <1>11
<1> QED
  BY <1>12 DEF GravestAreListed, events, listed

\* The dashboard agrees with itself and with the API.
LEMMA DashboardOK == LiquidityKnown => DashboardSound
BY VerdictOK, CardsOK, PolicyOK, PhaseLegendOK, ListedOK DEF DashboardSound

\* Two lists, one after the other.
LEMMA ConcatOK ==
  ASSUME NEW X, NEW a, NEW b, a \in Seq(X), b \in Seq(X)
  PROVE  /\ a \o b \in Seq(X) /\ Len(a \o b) = Len(a) + Len(b) /\ DOMAIN (a \o b) = 1..(Len(a) + Len(b))
         /\ \A i \in DOMAIN (a \o b) : (a \o b)[i] \in X
         /\ \A i \in DOMAIN a : i \in DOMAIN (a \o b) /\ (a \o b)[i] = a[i]
OBVIOUS

-----------------------------------------------------------------------------
(* The history charts.                                                       *)

HistoryKnown ==
    /\ HistoryTypeOK /\ hf.rows \in Seq([date: Nat, y: [Fields(hf.type) -> Amount]])

\* The fields of a chart in the order its series have.
SeriesFields(type) ==
    CASE type = "net_liquidity" -> <<"net_liquidity">>
      [] type = "margin_debt" -> <<"debit_balance", "change_2y">>
      [] type = "kre" -> <<"kre_close", "kre_52w_change">>
      [] type = "spreads" -> <<"hy_spread", "ig_spread">>
      [] type = "vix" -> <<"vix">>
      [] type = "layer_scores" -> <<"layer1", "layer2a", "layer2b">>
      [] type = "divergence" -> <<"divergence">>
FirstDrawn(type) ==
    CASE type = "net_liquidity" -> "net_liquidity" [] type = "margin_debt" -> "debit_balance"
      [] type = "kre" -> "kre_close" [] type = "spreads" -> "hy_spread" [] type = "vix" -> "vix"
      [] type = "layer_scores" -> "layer1" [] type = "divergence" -> "divergence"

\* The charts of one field,
LEMMA OneField ==
  ASSUME NEW X, NEW a \in X
  PROVE  <<a>> \in Seq(X) /\ 1 \in DOMAIN <<a>> /\ <<a>>[1] = a /\ Len(<<a>>) = 1
OBVIOUS

\* of two,
LEMMA TwoFields ==
  ASSUME NEW X, NEW a \in X, NEW b \in X
  PROVE  <<a, b>> \in Seq(X) /\ 1 \in DOMAIN <<a, b>> /\ <<a, b>>[1] = a
OBVIOUS

\* and of three.
LEMMA ThreeFields ==
  ASSUME NEW X, NEW a \in X, NEW b \in X, NEW c \in X
  PROVE  <<a, b, c>> \in Seq(X) /\ 1 \in DOMAIN <<a, b, c>> /\ <<a, b, c>>[1] = a /\ Len(<<a, b, c>>) = 3
OBVIOUS

\* Every field that is drawn in some chart.
DrawnField == {"net_liquidity", "debit_balance", "change_2y", "kre_close", "kre_52w_change", "hy_spread",
               "ig_spread", "vix", "layer1", "layer2a", "layer2b", "divergence"}

\* Each field of a chart has its series.
LEMMA DrawnFields ==
  ASSUME NEW type \in ChartType
  PROVE  /\ SeriesFields(type) \in Seq(DrawnField) /\ 1 \in DOMAIN SeriesFields(type)
         /\ SeriesFields(type)[1] = FirstDrawn(type)
         /\ ~allowOverlay(type) => Len(SeriesFields(type)) = Cardinality(Fields(type))
<1>1. CASE type = "net_liquidity"
  <2>1. SeriesFields(type) = <<"net_liquidity">> /\ FirstDrawn(type) = "net_liquidity"
    BY <1>1 DEF SeriesFields, FirstDrawn
  <2>2. allowOverlay(type)
    BY <1>1 DEF allowOverlay
  <2>0. "net_liquidity" \in DrawnField
    BY DEF DrawnField
  <2> QED
    BY ONLY <2>0, <2>1, <2>2, OneField
<1>2. CASE type = "margin_debt"
  <2>1. SeriesFields(type) = <<"debit_balance", "change_2y">> /\ FirstDrawn(type) = "debit_balance"
    BY <1>2 DEF SeriesFields, FirstDrawn
  <2>2. allowOverlay(type)
    BY <1>2 DEF allowOverlay
  <2>0. "debit_balance" \in DrawnField /\ "change_2y" \in DrawnField
    BY DEF DrawnField
  <2> QED
    BY ONLY <2>0, <2>1, <2>2, TwoFields
<1>3. CASE type = "kre"
  <2>1. SeriesFields(type) = <<"kre_close", "kre_52w_change">> /\ FirstDrawn(type) = "kre_close"
    BY <1>3 DEF SeriesFields, FirstDrawn
  <2>2. allowOverlay(type)
    BY <1>3 DEF allowOverlay
  <2>0. "kre_close" \in DrawnField /\ "kre_52w_change" \in DrawnField
    BY DEF DrawnField
  <2> QED
    BY ONLY <2>0, <2>1, <2>2, TwoFields
<1>4. CASE type = "spreads"
  <2>1. SeriesFields(type) = <<"hy_spread", "ig_spread">> /\ FirstDrawn(type) = "hy_spread"
    BY <1>4 DEF SeriesFields, FirstDrawn
  <2>2. allowOverlay(type)
    BY <1>4 DEF allowOverlay
  <2>0. "hy_spread" \in DrawnField /\ "ig_spread" \in DrawnField
    BY DEF DrawnField
  <2> QED
    BY ONLY <2>0, <2>1, <2>2, TwoFields
<1>5. CASE type = "vix"
  <2>1. SeriesFields(type) = <<"vix">> /\ FirstDrawn(type) = "vix"
    BY <1>5 DEF SeriesFields, FirstDrawn
  <2>2. allowOverlay(type)
    BY <1>5 DEF allowOverlay
  <2>0. "vix" \in DrawnField
    BY DEF DrawnField
  <2> QED
    BY ONLY <2>0, <2>1, <2>2, OneField
<1>6. CASE type = "layer_scores"
  <2>1. SeriesFields(type) = <<"layer1", "layer2a", "layer2b">> /\ FirstDrawn(type) = "layer1"
    BY <1>6 DEF SeriesFields, FirstDrawn
  <2>2. Fields(type) = {"layer1", "layer2a", "layer2b"}
    BY <1>6 DEF Fields
  <2>3. IsFiniteSet({"layer2b"}) /\ Cardinality({"layer2b"}) = 1
    BY FS_Singleton
  <2>4. IsFiniteSet({"layer2b"} \cup {"layer2a"}) /\ Cardinality({"layer2b"} \cup {"layer2a"}) = 2
    BY <2>3, FS_AddElement
  <2>5. Cardinality(({"layer2b"} \cup {"layer2a"}) \cup {"layer1"}) = 3
    BY <2>4, FS_AddElement
  <2>6. ({"layer2b"} \cup {"layer2a"}) \cup {"layer1"} = {"layer1", "layer2a", "layer2b"}
    OBVIOUS
  <2>7. Cardinality(Fields(type)) = 3
    BY <2>2, <2>5, <2>6
  <2>0. "layer1" \in DrawnField /\ "layer2a" \in DrawnField /\ "layer2b" \in DrawnField
    BY DEF DrawnField
  <2> QED
    BY ONLY <2>0, <2>1, <2>7, ThreeFields
<1>7. CASE type = "divergence"
  <2>1. SeriesFields(type) = <<"divergence">> /\ FirstDrawn(type) = "divergence"
    BY <1>7 DEF SeriesFields, FirstDrawn
  <2>2. Cardinality(Fields(type)) = 1
    <3>1. Fields(type) = {"divergence"}
      BY <1>7 DEF Fields
    <3> QED
      BY <3>1, FS_Singleton
  <2>0. "divergence" \in DrawnField
    BY DEF DrawnField
  <2> QED
    BY ONLY <2>0, <2>1, <2>2, OneField
<1> QED
  BY <1>1, <1>2, <1>3, <1>4, <1>5, <1>6, <1>7 DEF ChartType

\* The history charts draw the rows they were served.
LEMMA HistoryOK == HistoryKnown => HistoryIsTrue
<1> SUFFICES ASSUME HistoryKnown PROVE HistoryIsTrue
  OBVIOUS
<1> DEFINE type == hf.type
           rows == hf.rows
           M == DOMAIN rows
           chart == buildChartConfig(type)
           tile == HistoryTile(type)
           first == FirstDrawn(type)
           own == SeriesFields(type)
           none == ~allowOverlay(type) /\ rows = <<>>
           line == [i \in M |-> [x |-> rows[i].date, y |-> hf.index[i]]]
           X == {toSeries(f) : f \in DrawnField} \cup {line}
           mine == [i \in DOMAIN own |-> toSeries(own[i])]
           over == IF allowOverlay(type) THEN mergeOverlay ELSE <<>>
           r == lastOfRows(first)
<1>1. type \in ChartType /\ M = 1..Len(rows) /\ Len(rows) \in Nat /\ \A i \in M : rows[i].y \in [Fields(type) -> Amount]
  BY DEF HistoryKnown, HistoryTypeOK
<1>2. chart = IF none THEN [series |-> <<>>, empty |-> TRUE] ELSE [series |-> mine \o over, empty |-> FALSE]
  BY Zenon DEF buildChartConfig, SeriesFields
<1>3. statFor(type) = IF none THEN <<>>
                      ELSE <<[value |-> r[1], unit |-> IF type = "spreads" THEN "pp" ELSE "%",
                              delta |-> IF r[2] \in {None, 0} \/ type = "divergence" THEN None ELSE r[2]]>>
  BY Zenon DEF statFor, FirstDrawn
<1>4. tile = [header |-> statFor(type), empty |-> chart.empty,
              change |-> statFor(type) # <<>> /\ statFor(type)[1].delta # None]
  BY DEF HistoryTile
<1>5. \A s \in X : \A k \in M : s[k].x = rows[k].date
  BY DEF toSeries
<1> HIDE DEF X
<1>6. mine \in Seq(X) /\ 1 \in DOMAIN mine /\ mine[1] = toSeries(first) /\ Len(mine) = Len(own)
  <2>1. own \in Seq(DrawnField) /\ 1 \in DOMAIN own /\ own[1] = first
    BY <1>1, DrawnFields
  <2>2. \A i \in DOMAIN own : toSeries(own[i]) \in X
    BY <2>1 DEF X
  <2> HIDE DEF own, first
  <2> QED
    BY <2>1, <2>2
<1>7. over \in Seq(X)
  <2>1. line \in X
    BY DEF X
  <2> HIDE DEF line
  <2>2. <<line>> \in Seq(X) /\ <<>> \in Seq(X)
    BY <2>1
  <2>3. mergeOverlay = (IF hf.showSP500 THEN <<line>> ELSE <<>>) \o (IF hf.showNASDAQ THEN <<line>> ELSE <<>>)
    BY DEF mergeOverlay, line
  <2>4. mergeOverlay \in Seq(X)
    BY <2>2, <2>3, ConcatOK
  <2> QED
    BY <2>2, <2>4
<1> HIDE DEF mine, over
<1> DEFINE both == mine \o over
<1>8. /\ Len(both) = Len(mine) + Len(over) /\ 1 \in DOMAIN both /\ both[1] = toSeries(first)
      /\ \A i \in DOMAIN both : both[i] \in X
  <2>0. mine \in Seq(X) /\ over \in Seq(X)
    BY <1>6, <1>7
  <2>1. /\ both \in Seq(X) /\ Len(both) = Len(mine) + Len(over)
        /\ \A i \in DOMAIN both : both[i] \in X
    <3>1. both \in Seq(X)
      BY ONLY <2>0, ConcatOK
    <3>2. Len(both) = Len(mine) + Len(over)
      BY ONLY <2>0, ConcatOK
    <3> HIDE DEF both
    <3>3. \A i \in DOMAIN both : both[i] \in X
      BY ONLY <3>1
    <3> QED
      BY ONLY <3>1, <3>2, <3>3
  <2>2. \A i \in DOMAIN mine : i \in DOMAIN both /\ both[i] = mine[i]
    BY ONLY <1>6, <1>7, ConcatOK
  <2> QED
    BY ONLY <1>6, <2>1, <2>2
<1>9. /\ ~none => chart.series = both /\ ~chart.empty
      /\ none => chart.empty
  BY <1>2
<1> HIDE DEF both
<1>10. /\ tile.empty <=> none
       /\ tile.header = <<>> <=> none
       /\ ~none => tile.header[1].value = r[1]
       /\ ~none /\ tile.change => tile.header[1].delta = r[2] /\ r[2] # None
  <2>1. tile.empty = chart.empty /\ tile.header = statFor(type)
        /\ (tile.change <=> statFor(type) # <<>> /\ statFor(type)[1].delta # None)
    <3> DEFINE b == statFor(type) # <<>> /\ statFor(type)[1].delta # None
    <3> HIDE DEF b
    <3>1. tile = [header |-> statFor(type), empty |-> chart.empty, change |-> b]
      BY <1>4 DEF b
    <3> HIDE DEF tile, chart
    <3>2. tile.empty = chart.empty /\ tile.header = statFor(type)
      BY <3>1
    <3>3. tile.change = b
      BY <3>1
    <3> QED
      BY <3>2, <3>3, Zenon DEF b
  <2> HIDE DEF none, r, type
  <2>2. statFor(type) = <<>> <=> none
    BY <1>3
  <2>3. ~none => /\ statFor(type)[1].value = r[1]
                 /\ statFor(type)[1].delta # None => statFor(type)[1].delta = r[2]
    BY <1>3
  <2> QED
    BY <1>9, <2>1, <2>2, <2>3
<1> DEFINE known == {i \in DOMAIN hf.rows : chart.series[1][i].y # None}
           here == {i \in M : rows[i].y[first] # None}
           s == toSeries(first)
<1>11. \A i \in M : s[i].y = rows[i].y[first] /\ s[i].x = rows[i].date
  BY DEF toSeries
<1>12. r = IF here = {} THEN <<None, None>> ELSE <<rows[Max(here)].y[first], rows[Min(here)].y[first]>>
  BY Zenon DEF lastOfRows
<1>13. here # {} => Max(here) \in M /\ Min(here) \in M
  <2>1. here \subseteq M
    OBVIOUS
  <2> HIDE DEF here
  <2>2. IsFiniteSet(here) /\ here \subseteq Int
    BY <1>1, <2>1, SomeIndices, Zenon
  <2>3. here # {} => Max(here) \in here /\ Min(here) \in here
    BY <2>2, MaxOK, MinOK
  <2> QED
    BY <2>1, <2>3
<1> HIDE DEF r, s, M
<1>14. ~none => known = here
  <2>1. ~none => chart.series[1] = s
    BY <1>8, <1>9 DEF s
  <2> HIDE DEF chart
  <2> QED
    BY <1>11, <2>1 DEF M
<1>15. ~none => /\ r[1] = IF known = {} THEN None ELSE chart.series[1][Max(known)].y
                /\ known # {} => r[2] = chart.series[1][Min(known)].y
                /\ known = {} => r[2] = None
  <2>1. ~none => chart.series[1] = s
    BY <1>8, <1>9 DEF s
  <2> HIDE DEF chart, known, here
  <2> QED
    BY <1>11, <1>12, <1>13, <1>14, <2>1
<1>16. ~none => \A i \in DOMAIN chart.series : \A k \in M : chart.series[i][k].x = chart.series[1][k].x
  BY <1>5, <1>8, <1>9
<1>17. ~none /\ Len(chart.series) > Cardinality(Fields(type)) => allowOverlay(type)
  <2> SUFFICES ASSUME ~none, ~allowOverlay(type) PROVE ~(Len(chart.series) > Cardinality(Fields(type)))
    OBVIOUS
  <2>1. over = <<>> /\ Len(over) = 0
    BY DEF over
  <2>2. Len(mine) = Cardinality(Fields(type)) /\ Len(mine) \in Nat
    BY <1>1, <1>6, DrawnFields
  <2>3. Len(chart.series) = Len(mine) + Len(over)
    BY <1>8, <1>9
  <2> HIDE DEF chart, type
  <2> QED
    BY <2>1, <2>2, <2>3
<1>18. ASSUME hf.crisis # "none", NEW m \in eventMarkers
       PROVE  CRISIS_PRESETS[hf.crisis].start <= m /\ m <= CRISIS_PRESETS[hf.crisis].end
  <2>1. hf.crisis \in DOMAIN CRISIS_PRESETS /\ activeCrisis = {hf.crisis}
    BY <1>18 DEF HistoryKnown, HistoryTypeOK, activeCrisis
  <2>2. m \in CRISIS_PRESETS[hf.crisis].events
    BY <1>18, <2>1 DEF eventMarkers
  <2>3. DOMAIN CRISIS_PRESETS = {"lehman", "europe", "covid", "qt"}
    BY DEF CRISIS_PRESETS
  <2>4. CASE hf.crisis = "lehman"
    BY <2>2, <2>4 DEF CRISIS_PRESETS, Month
  <2>5. CASE hf.crisis = "europe"
    BY <2>2, <2>5 DEF CRISIS_PRESETS, Month
  <2>6. CASE hf.crisis = "covid"
    BY <2>2, <2>6 DEF CRISIS_PRESETS, Month
  <2>7. CASE hf.crisis = "qt"
    BY <2>2, <2>7 DEF CRISIS_PRESETS, Month
  <2> QED
    BY <2>1, <2>3, <2>4, <2>5, <2>6, <2>7
<1>19. ~tile.empty =>
            /\ tile.header[1].value = IF known = {} THEN None ELSE chart.series[1][Max(known)].y
            /\ tile.change => tile.header[1].delta = chart.series[1][Min(known)].y
            /\ \A i \in DOMAIN chart.series : \A k \in DOMAIN hf.rows :
                chart.series[i][k].x = chart.series[1][k].x
            /\ Len(chart.series) > Cardinality(Fields(hf.type)) => allowOverlay(hf.type)
  <2>1. ~none /\ tile.change => known # {}
    BY <1>10, <1>15
  <2> QED
    BY <1>10, <1>15, <1>16, <1>17, <2>1 DEF M
<1> QED
  BY <1>10, <1>18, <1>19 DEF HistoryIsTrue

-----------------------------------------------------------------------------
(* The holdings page: what a lot is worth.                                   *)

HoldingsKnown ==
    /\ HoldingsFiguresTypeOK
    /\ \A l \in Lot : hv.quotes[l.ticker] \in Price[l.ticker] \cup {NoQuote}

Rates == Rate \cup {DefaultRate}

\* What divides without a rest.
LEMMA ExactQuotient ==
  ASSUME NEW r \in Nat \ {0}, NEW y \in Nat, y % r = 0, NEW s \in Nat
  PROVE  \E q \in Nat : s * y = q * r /\ (s * y) \div r = q
<1> DEFINE k == y \div r
           q == s * k
<1>1. k \in Nat /\ y = k * r
  OBVIOUS
<1> HIDE DEF k
<1>2. q \in Nat /\ s * y = q * r
  BY <1>1
<1> HIDE DEF q
<1>3. (q * r) \div r = q
  BY <1>2
<1> QED
  BY <1>2, <1>3

\* A lot that is held: its price, its value and its cost, in dollars at any rate.
LEMMA LotIs ==
  ASSUME HoldingsKnown, NEW l \in hv.held
  PROVE  /\ l \in Lot /\ CurrentPrice(l) \in Nat /\ MarketValue(l) \in Nat /\ Cost(l) \in Nat
         /\ inferCountry(l.ticker) \in {"US", "JP"}
         /\ inferCountry(l.ticker) = "JP" =>
              \A r \in Rates : CurrentPrice(l) % r = 0 /\ l.avg % r = 0
<1>1. l \in Lot
  BY DEF HoldingsKnown, HoldingsFiguresTypeOK
<1>2. l.shares \in Nat /\ l.avg \in Nat /\ Price[l.ticker] \subseteq Nat
  BY <1>1, HoldingsFiguresConstants
<1>3. hv.quotes[l.ticker] \in Price[l.ticker] \cup {NoQuote}
  BY <1>1 DEF HoldingsKnown
<1>4. CurrentPrice(l) \in Price[l.ticker] \cup {l.avg}
  BY <1>3 DEF CurrentPrice
<1>5. CurrentPrice(l) \in Nat
  BY <1>2, <1>4
<1>6. MarketValue(l) \in Nat /\ Cost(l) \in Nat
  BY <1>2, <1>5 DEF MarketValue, Cost
<1>7. inferCountry(l.ticker) \in {"US", "JP"} /\ (inferCountry(l.ticker) = "JP" => l.ticker \in Japanese)
  BY DEF inferCountry
<1>8. l.ticker \in Japanese => \A r \in Rates, y \in Price[l.ticker] \cup {l.avg} : y % r = 0
  BY <1>1, HoldingsFiguresConstants DEF Rates
<1> QED
  BY <1>1, <1>4, <1>5, <1>6, <1>7, <1>8

\* A rate is positive.
LEMMA RatesOK == Rates \subseteq Nat \ {0}
BY HoldingsFiguresConstants DEF Rates, DefaultRate

\* In dollars a lot is worth a whole number, exactly.
LEMMA WorthOK ==
  ASSUME HoldingsKnown, NEW l \in hv.held, NEW r \in Rates
  PROVE  /\ ValueInUsd(l, r) \in Nat /\ CostInUsd(l, r) \in Nat
         /\ inferCountry(l.ticker) = "US" => ValueInUsd(l, r) = MarketValue(l) /\ CostInUsd(l, r) = Cost(l)
         /\ inferCountry(l.ticker) = "JP" => /\ ValueInUsd(l, r) = MarketValue(l) \div r
                                             /\ CostInUsd(l, r) = Cost(l) \div r
                                             /\ ValueInUsd(l, r) * r = MarketValue(l)
                                             /\ CostInUsd(l, r) * r = Cost(l)
<1>1. r \in Nat \ {0} /\ r > 0
  BY RatesOK
<1>2. l.shares \in Nat /\ l.avg \in Nat /\ CurrentPrice(l) \in Nat
  BY LotIs, HoldingsFiguresConstants
<1>3. CASE inferCountry(l.ticker) = "US"
  BY <1>3, LotIs DEF ValueInUsd, CostInUsd, toUsd
<1>4. CASE inferCountry(l.ticker) = "JP"
  <2>1. CurrentPrice(l) % r = 0 /\ l.avg % r = 0
    BY <1>4, LotIs
  <2>2. PICK q \in Nat : l.shares * CurrentPrice(l) = q * r /\ (l.shares * CurrentPrice(l)) \div r = q
    BY <1>1, <1>2, <2>1, ExactQuotient
  <2>3. PICK p \in Nat : l.shares * l.avg = p * r /\ (l.shares * l.avg) \div r = p
    BY <1>1, <1>2, <2>1, ExactQuotient
  <2>4. ValueInUsd(l, r) = MarketValue(l) \div r /\ CostInUsd(l, r) = Cost(l) \div r
    BY <1>1, <1>4 DEF ValueInUsd, CostInUsd, toUsd
  <2>5. MarketValue(l) = q * r /\ MarketValue(l) \div r = q /\ Cost(l) = p * r /\ Cost(l) \div r = p
    BY <2>2, <2>3 DEF MarketValue, Cost
  <2> QED
    BY <1>4, <2>4, <2>5
<1> QED
  BY <1>3, <1>4, LotIs

\* Whether a sum is of some lots.
LEMMA SumOfLots ==
  ASSUME NEW T, IsFiniteSet(T), NEW f, NEW g, DOMAIN f = T, \A l \in T : f[l] = g[l]
  PROVE  SumFunction(f) = SumFunctionOnSet(g, T)
BY SumIs, SumSame

\* What is held, and the rates it is shown at.
LEMMA HeldOK ==
  HoldingsKnown => /\ IsFiniteSet(hv.held) /\ hv.held \subseteq Lot
                   /\ hv.fx \in Rates /\ hv.ringFx \in Rates /\ hv.sortFx \in Rates
BY HoldingsFiguresConstants, FS_Subset DEF HoldingsKnown, HoldingsFiguresTypeOK, Rates

-----------------------------------------------------------------------------
(* The sums of the lots.                                                     *)

\* Each lot in dollars and in yen, and what the rate has made of it.
Worth == [l \in hv.held |-> ValueInUsd(l, hv.fx)]
Paid == [l \in hv.held |-> CostInUsd(l, hv.fx)]
WorthInYen == [l \in hv.held |-> IF inferCountry(l.ticker) = "US" THEN MarketValue(l) * hv.fx ELSE MarketValue(l)]
PaidInYen == [l \in hv.held |-> IF inferCountry(l.ticker) = "US" THEN Cost(l) * BoughtAt(l, hv.fx) ELSE Cost(l)]
MadeByRate ==
    [l \in hv.held |-> IF inferCountry(l.ticker) = "US" THEN Cost(l) * (hv.fx - BoughtAt(l, hv.fx)) ELSE 0]
PaidAtRate == [l \in hv.held |-> CostInUsd(l, hv.fx) * hv.fx]

\* The same of each lot in yen, and what the rate has made of what was paid.
LEMMA LotSums ==
  ASSUME HoldingsKnown, NEW l \in hv.held
  PROVE  /\ Worth[l] \in Nat /\ Paid[l] \in Nat /\ WorthInYen[l] \in Int /\ PaidInYen[l] \in Int
         /\ MadeByRate[l] \in Int /\ PaidAtRate[l] \in Int
         /\ WorthInYen[l] = Worth[l] * hv.fx
         /\ PaidAtRate[l] = Paid[l] * hv.fx
         /\ PaidAtRate[l] = PaidInYen[l] + MadeByRate[l]
<1> DEFINE fx == hv.fx
           b == BoughtAt(l, fx)
<1>1. fx \in Nat /\ fx \in Rates
  BY HeldOK, RatesOK
<1>2. b \in Nat
  BY <1>1, LotIs, HoldingsFiguresConstants DEF BoughtAt
<1>3. MarketValue(l) \in Nat /\ Cost(l) \in Nat
  BY LotIs
<1>4. Worth[l] = ValueInUsd(l, fx) /\ Paid[l] = CostInUsd(l, fx) /\ PaidAtRate[l] = CostInUsd(l, fx) * fx
  BY DEF Worth, Paid, PaidAtRate
<1>5. ValueInUsd(l, fx) \in Nat /\ CostInUsd(l, fx) \in Nat
  BY <1>1, WorthOK
<1>6. CASE inferCountry(l.ticker) = "US"
  <2>1. ValueInUsd(l, fx) = MarketValue(l) /\ CostInUsd(l, fx) = Cost(l)
    BY <1>1, <1>6, WorthOK
  <2>2. /\ WorthInYen[l] = MarketValue(l) * fx /\ PaidInYen[l] = Cost(l) * b
        /\ MadeByRate[l] = Cost(l) * (fx - b)
    BY <1>6 DEF WorthInYen, PaidInYen, MadeByRate
  <2> DEFINE c == Cost(l)
             m == MarketValue(l)
  <2> HIDE DEF b, fx, c, m
  <2>3. c * fx = c * b + c * (fx - b)
    BY <1>1, <1>2, <1>3 DEF c
  <2>4. c * fx \in Int /\ c * b \in Int /\ c * (fx - b) \in Int /\ m * fx \in Int
    BY <1>1, <1>2, <1>3 DEF c, m
  <2> QED
    BY <1>3, <1>4, <1>5, <2>1, <2>2, <2>3, <2>4 DEF c, m, fx
<1>7. CASE inferCountry(l.ticker) = "JP"
  <2>1. ValueInUsd(l, fx) * fx = MarketValue(l) /\ CostInUsd(l, fx) * fx = Cost(l)
    BY <1>1, <1>7, WorthOK
  <2>2. WorthInYen[l] = MarketValue(l) /\ PaidInYen[l] = Cost(l) /\ MadeByRate[l] = 0
    BY <1>7 DEF WorthInYen, PaidInYen, MadeByRate
  <2> QED
    BY <1>3, <1>4, <1>5, <2>1, <2>2
<1> QED
  BY <1>6, <1>7, LotIs

Total(f) == SumFunctionOnSet(f, hv.held)
American == {l \in hv.held : inferCountry(l.ticker) = "US"}

\* The figures of the hero.
LEMMA HeroOK ==
  ASSUME HoldingsKnown
  PROVE  /\ PortfolioHero.valUsd = Total(Worth) /\ PortfolioHero.valJpy = Total(WorthInYen)
         /\ PortfolioHero.pnlUsd = Total(Worth) - Total(Paid)
         /\ PortfolioHero.pnlJpy = Total(WorthInYen) - Total(PaidInYen)
         /\ PortfolioHero.fxPnl = SumFunctionOnSet(MadeByRate, American)
         /\ PortfolioHero.count = Cardinality(hv.held)
<1> DEFINE US == American
           JP == hv.held \ US
           mvU == [l \in US |-> MarketValue(l)]
           mvJ == [l \in JP |-> MarketValue(l)]
           costU == [l \in US |-> Cost(l)]
           costJ == [l \in JP |-> Cost(l)]
           inYen == [l \in US |-> MarketValue(l) * hv.fx]
           costInYen == [l \in US |-> Cost(l) * BoughtAt(l, hv.fx)]
           inUsd == [l \in JP |-> MarketValue(l) \div hv.fx]
           costInUsd == [l \in JP |-> Cost(l) \div hv.fx]
           ofTheRate == [l \in US |-> Cost(l) * (hv.fx - BoughtAt(l, hv.fx))]
           valUsd == SumFunction(mvU) + SumFunction(inUsd)
           costUsd == SumFunction(costU) + SumFunction(costInUsd)
           valJpy == SumFunction(inYen) + SumFunction(mvJ)
           costJpy == SumFunction(costInYen) + SumFunction(costJ)
<1>1. PortfolioHero = [valUsd |-> valUsd, valJpy |-> valJpy, costUsd |-> costUsd, pnlUsd |-> valUsd - costUsd,
                       pnlJpy |-> valJpy - costJpy, fxPnl |-> SumFunction(ofTheRate),
                       count |-> Cardinality(hv.held)]
  BY DEF PortfolioHero, SumOver, American
<1>2. /\ US \subseteq hv.held /\ JP \subseteq hv.held /\ US \cap JP = {} /\ US \cup JP = hv.held
      /\ \A l \in US : inferCountry(l.ticker) = "US"
      /\ \A l \in JP : inferCountry(l.ticker) = "JP"
  BY LotIs DEF American
<1>3. IsFiniteSet(hv.held) /\ IsFiniteSet(US) /\ IsFiniteSet(JP) /\ hv.fx \in Rates
  BY <1>2, HeldOK, FS_Subset
<1> HIDE DEF US, JP
<1>4. \A l \in US : l \in hv.held /\ ValueInUsd(l, hv.fx) = MarketValue(l) /\ CostInUsd(l, hv.fx) = Cost(l)
  BY <1>2, <1>3, WorthOK
<1>5. \A l \in JP : /\ l \in hv.held /\ ValueInUsd(l, hv.fx) = MarketValue(l) \div hv.fx
                    /\ CostInUsd(l, hv.fx) = Cost(l) \div hv.fx
  BY <1>2, <1>3, WorthOK
<1>6. /\ \A l \in US : mvU[l] = Worth[l] /\ costU[l] = Paid[l] /\ inYen[l] = WorthInYen[l]
      /\ \A l \in US : costInYen[l] = PaidInYen[l] /\ ofTheRate[l] = MadeByRate[l]
  BY <1>2, <1>4 DEF Worth, Paid, WorthInYen, PaidInYen, MadeByRate
<1>7. \A l \in JP : /\ inUsd[l] = Worth[l] /\ costInUsd[l] = Paid[l] /\ mvJ[l] = WorthInYen[l]
                    /\ costJ[l] = PaidInYen[l]
  BY <1>2, <1>5 DEF Worth, Paid, WorthInYen, PaidInYen
<1>8. /\ DOMAIN mvU = US /\ DOMAIN costU = US /\ DOMAIN inYen = US /\ DOMAIN costInYen = US
      /\ DOMAIN ofTheRate = US /\ DOMAIN mvJ = JP /\ DOMAIN costJ = JP /\ DOMAIN inUsd = JP /\ DOMAIN costInUsd = JP
  OBVIOUS
<1> HIDE DEF mvU, mvJ, costU, costJ, inYen, costInYen, inUsd, costInUsd, ofTheRate
<1>9. /\ SumFunction(mvU) = SumFunctionOnSet(Worth, US) /\ SumFunction(costU) = SumFunctionOnSet(Paid, US)
      /\ SumFunction(inYen) = SumFunctionOnSet(WorthInYen, US)
      /\ SumFunction(costInYen) = SumFunctionOnSet(PaidInYen, US)
      /\ SumFunction(ofTheRate) = SumFunctionOnSet(MadeByRate, US)
  BY <1>3, <1>6, <1>8, SumOfLots
<1>10. /\ SumFunction(inUsd) = SumFunctionOnSet(Worth, JP) /\ SumFunction(costInUsd) = SumFunctionOnSet(Paid, JP)
       /\ SumFunction(mvJ) = SumFunctionOnSet(WorthInYen, JP)
       /\ SumFunction(costJ) = SumFunctionOnSet(PaidInYen, JP)
  BY <1>3, <1>7, <1>8, SumOfLots
<1>11. \A l \in hv.held : Worth[l] \in Int /\ Paid[l] \in Int /\ WorthInYen[l] \in Int /\ PaidInYen[l] \in Int
  BY LotSums
<1>12. ASSUME NEW f, \A l \in hv.held : f[l] \in Int
       PROVE  Total(f) = SumFunctionOnSet(f, US) + SumFunctionOnSet(f, JP)
  <2>1. \A l \in US \cup JP : f[l] \in Int
    BY <1>2, <1>12
  <2>2. SumFunctionOnSet(f, US \cup JP) = SumFunctionOnSet(f, US) + SumFunctionOnSet(f, JP)
    BY <1>2, <1>3, <2>1, SumSplit
  <2> QED
    BY <1>2, <2>2 DEF Total
<1>13. valUsd = Total(Worth) /\ costUsd = Total(Paid) /\ valJpy = Total(WorthInYen) /\ costJpy = Total(PaidInYen)
  BY <1>9, <1>10, <1>11, <1>12
<1> HIDE DEF valUsd, costUsd, valJpy, costJpy
<1> QED
  BY <1>1, <1>9, <1>13 DEF US

\* The figures of some of the lots.
LEMMA GroupOK ==
  ASSUME HoldingsKnown, NEW lots, lots \subseteq hv.held
  PROVE  /\ GroupFigures(lots).val = SumFunctionOnSet(Worth, lots)
         /\ GroupFigures(lots).pnl = SumFunctionOnSet(Worth, lots) - SumFunctionOnSet(Paid, lots)
         /\ GroupFigures(lots).yen = SumFunctionOnSet(Worth, lots) * hv.fx
         /\ GroupFigures(lots).count = Cardinality(lots)
         /\ IsFiniteSet(lots) /\ SumFunctionOnSet(Worth, lots) \in Int /\ SumFunctionOnSet(Paid, lots) \in Int
<1> DEFINE val == [l \in lots |-> ValueInUsd(l, hv.fx)]
           paid == [l \in lots |-> CostInUsd(l, hv.fx)]
<1>1. IsFiniteSet(lots)
  BY HeldOK, FS_Subset
<1>2. GroupFigures(lots) = [val |-> SumFunction(val), pnl |-> SumFunction(val) - SumFunction(paid),
                            yen |-> SumFunction(val) * hv.fx, count |-> Cardinality(lots)]
  BY DEF GroupFigures, SumOver
<1>3. DOMAIN val = lots /\ DOMAIN paid = lots /\ \A l \in lots : val[l] = Worth[l] /\ paid[l] = Paid[l]
  BY DEF Worth, Paid
<1>4. \A l \in lots : Worth[l] \in Int /\ Paid[l] \in Int
  BY LotSums
<1> HIDE DEF val, paid
<1>5. SumFunction(val) = SumFunctionOnSet(Worth, lots) /\ SumFunction(paid) = SumFunctionOnSet(Paid, lots)
  BY <1>1, <1>3, SumOfLots
<1>6. SumFunctionOnSet(Worth, lots) \in Int /\ SumFunctionOnSet(Paid, lots) \in Int
  BY <1>1, <1>4, SumType
<1> QED
  BY <1>1, <1>2, <1>5, <1>6

\* The two accounts, and the sectors, make up the whole.
LEMMA AccountsOK ==
  ASSUME HoldingsKnown
  PROVE  LET a == AccountBreakdown
         IN  /\ Total(Worth) = a.nisa.val + a.tokutei.val
             /\ Total(Worth) - Total(Paid) = a.nisa.pnl + a.tokutei.pnl
             /\ Total(Worth) * hv.fx = a.nisa.yen + a.tokutei.yen
             /\ Cardinality(hv.held) = a.nisa.count + a.tokutei.count
<1> DEFINE N == {l \in hv.held : l.account = "nisa"}
           T == {l \in hv.held : l.account # "nisa"}
           a == AccountBreakdown
<1>1. a.nisa = GroupFigures(N) /\ a.tokutei = GroupFigures(T)
  BY DEF AccountBreakdown
<1>2. N \subseteq hv.held /\ T \subseteq hv.held /\ N \cup T = hv.held /\ N \cap T = {}
  OBVIOUS
<1> HIDE DEF N, T, a
<1>3. IsFiniteSet(N) /\ IsFiniteSet(T)
  BY <1>2, GroupOK
<1>4. \A l \in N \cup T : Worth[l] \in Int /\ Paid[l] \in Int
  BY <1>2, LotSums
<1>5. SumFunctionOnSet(Worth, N \cup T) = SumFunctionOnSet(Worth, N) + SumFunctionOnSet(Worth, T)
  BY <1>2, <1>3, <1>4, SumSplit
<1>6. SumFunctionOnSet(Paid, N \cup T) = SumFunctionOnSet(Paid, N) + SumFunctionOnSet(Paid, T)
  BY <1>2, <1>3, <1>4, SumSplit
<1>7. Cardinality(hv.held) = Cardinality(N) + Cardinality(T)
  <2>1. Cardinality(N \cup T) = Cardinality(N) + Cardinality(T) - Cardinality(N \cap T)
    BY <1>3, FS_Union
  <2>2. Cardinality(N \cap T) = 0 /\ Cardinality(N) \in Nat /\ Cardinality(T) \in Nat
    BY <1>2, <1>3, FS_EmptySet, FS_CardinalityType
  <2>3. Cardinality(N \cup T) = Cardinality(hv.held)
    BY <1>2
  <2> QED
    BY ONLY <2>1, <2>2, <2>3
<1>8. hv.fx \in Nat
  BY HeldOK, RatesOK
<1> DEFINE wn == SumFunctionOnSet(Worth, N)
           wt == SumFunctionOnSet(Worth, T)
           pn == SumFunctionOnSet(Paid, N)
           pt == SumFunctionOnSet(Paid, T)
           fx == hv.fx
<1>9. /\ wn \in Int /\ wt \in Int /\ pn \in Int /\ pt \in Int
      /\ Total(Worth) = wn + wt /\ Total(Paid) = pn + pt
      /\ a.nisa.val = wn /\ a.tokutei.val = wt /\ a.nisa.pnl = wn - pn /\ a.tokutei.pnl = wt - pt
      /\ a.nisa.yen = wn * fx /\ a.tokutei.yen = wt * fx
      /\ a.nisa.count = Cardinality(N) /\ a.tokutei.count = Cardinality(T)
  BY <1>1, <1>2, <1>5, <1>6, GroupOK DEF Total
<1> HIDE DEF wn, wt, pn, pt, fx
<1>10. (wn + wt) * fx = wn * fx + wt * fx
  BY <1>8, <1>9 DEF fx
<1>11. (wn + wt) - (pn + pt) = (wn - pn) + (wt - pt)
  BY <1>9
<1> QED
  BY <1>7, <1>9, <1>10, <1>11 DEF a, fx

\* The sectors make up the whole.
LEMMA SectorsOK ==
  ASSUME HoldingsKnown
  PROVE  Total(Worth) = SumFunction([name \in DOMAIN SectorBreakdown |-> SectorBreakdown[name].val])
<1> DEFINE H == hv.held
           L == {l.sector : l \in H}
           of(s) == {l \in H : l.sector = s}
           P == [s \in L |-> of(s)]
           F == [s \in DOMAIN SectorBreakdown |-> SectorBreakdown[s].val]
<1>1. DOMAIN SectorBreakdown = L /\ \A s \in L : SectorBreakdown[s] = GroupFigures(of(s))
  BY DEF SectorBreakdown
<1>2. DOMAIN F = L /\ \A s \in L : F[s] = SumFunctionOnSet(Worth, P[s])
  <2>1. \A s \in L : of(s) \subseteq H /\ P[s] = of(s)
    OBVIOUS
  <2>2. \A s \in L : GroupFigures(of(s)).val = SumFunctionOnSet(Worth, of(s))
    BY <2>1, GroupOK
  <2>3. DOMAIN F = L /\ \A s \in L : F[s] = GroupFigures(of(s)).val
    BY <1>1
  <2> HIDE DEF F, P, of, L
  <2> QED
    BY <2>1, <2>2, <2>3
<1>3. P \in [L -> SUBSET H] /\ (\A l \in H : \E s \in L : l \in P[s]) /\ \A s, t \in L : s # t => P[s] \cap P[t] = {}
  OBVIOUS
<1>4. IsFiniteSet(H) /\ IsFiniteSet(L)
  <2>1. IsFiniteSet(H)
    BY HeldOK
  <2> DEFINE g == [l \in H |-> l.sector]
             G == {g[l] : l \in H}
  <2>2. IsFiniteSet(G)
    <3> HIDE DEF g, H
    <3> QED
      BY <2>1, ImageOK
  <2>3. G = L
    OBVIOUS
  <2> QED
    BY <2>1, <2>2, <2>3
<1>5. \A l \in H : Worth[l] \in Int
  BY LotSums
<1> HIDE DEF H, L, P, F
<1>6. SumFunctionOnSet(F, L) = SumFunctionOnSet(Worth, H)
  BY ONLY <1>2, <1>3, <1>4, <1>5, SumByParts
<1>7. SumFunction(F) = SumFunctionOnSet(F, L)
  BY <1>2, SumIs
<1> QED
  BY <1>6, <1>7 DEF Total, H, F

\* The profit in yen.
LEMMA ProfitOK ==
  ASSUME HoldingsKnown
  PROVE  /\ Total(WorthInYen) = Total(Worth) * hv.fx
         /\ Total(WorthInYen) - Total(PaidInYen)
              = (Total(Worth) - Total(Paid)) * hv.fx + SumFunctionOnSet(MadeByRate, American)
<1> DEFINE fx == hv.fx
           J == hv.held \ American
<1>0. IsFiniteSet(hv.held) /\ fx \in Rates
  BY HeldOK
<1>1. IsFiniteSet(hv.held) /\ fx \in Nat /\ fx \in Int
  <2>1. fx \in Nat
    BY <1>0, RatesOK
  <2> HIDE DEF fx
  <2> QED
    BY <1>0, <2>1
<1>2. \A l \in hv.held : /\ Worth[l] \in Int /\ Paid[l] \in Int /\ PaidInYen[l] \in Int /\ MadeByRate[l] \in Int
                         /\ WorthInYen[l] = Worth[l] * fx /\ PaidAtRate[l] = Paid[l] * fx
                         /\ PaidAtRate[l] = PaidInYen[l] + MadeByRate[l]
  BY LotSums
<1> HIDE DEF fx
<1>3. Total(WorthInYen) = Total(Worth) * fx
  BY <1>1, <1>2, SumTimes DEF Total
<1>4. Total(PaidAtRate) = Total(Paid) * fx
  BY <1>1, <1>2, SumTimes DEF Total
<1>5. Total(PaidAtRate) = Total(PaidInYen) + Total(MadeByRate)
  BY <1>1, <1>2, SumBoth DEF Total
<1>6. Total(MadeByRate) = SumFunctionOnSet(MadeByRate, American)
  <2>1. American \subseteq hv.held /\ J \subseteq hv.held /\ American \cap J = {} /\ American \cup J = hv.held
    BY DEF American
  <2>2. \A l \in J : MadeByRate[l] = MadeByRate[l] * 0 /\ MadeByRate[l] \in Int
    BY <1>2, <2>1 DEF MadeByRate, American
  <2> HIDE DEF J
  <2>3. IsFiniteSet(American) /\ IsFiniteSet(J)
    BY <1>1, <2>1, FS_Subset
  <2>4. SumFunctionOnSet(MadeByRate, J) = SumFunctionOnSet(MadeByRate, J) * 0
    BY <2>2, <2>3, SumTimes
  <2>5. SumFunctionOnSet(MadeByRate, J) \in Int /\ SumFunctionOnSet(MadeByRate, American) \in Int
    BY <1>2, <2>1, <2>3, SumType
  <2>6. \A l \in American \cup J : MadeByRate[l] \in Int
    BY <1>2, <2>1
  <2>7. SumFunctionOnSet(MadeByRate, American \cup J)
          = SumFunctionOnSet(MadeByRate, American) + SumFunctionOnSet(MadeByRate, J)
    BY <2>1, <2>3, <2>6, SumSplit
  <2>8. Total(MadeByRate) = SumFunctionOnSet(MadeByRate, American \cup J)
    BY <2>1 DEF Total
  <2> QED
    BY ONLY <2>4, <2>5, <2>7, <2>8
<1>7. Total(Worth) \in Int /\ Total(Paid) \in Int /\ Total(PaidInYen) \in Int /\ Total(MadeByRate) \in Int
  BY <1>1, <1>2, SumType DEF Total
<1> DEFINE w == Total(Worth)
           p == Total(Paid)
           y == Total(PaidInYen)
           m == Total(MadeByRate)
<1>8. w * fx - y = (w - p) * fx + m
  <2>1. p * fx = y + m
    BY <1>4, <1>5
  <2> HIDE DEF w, p, y, m
  <2>2. (w - p) * fx = w * fx - p * fx /\ w * fx \in Int /\ p * fx \in Int
    BY <1>1, <1>7 DEF w, p
  <2> QED
    BY <1>7, <2>1, <2>2 DEF y, m
<1> QED
  BY <1>3, <1>6, <1>8 DEF fx

-----------------------------------------------------------------------------
(* The table.                                                                *)

\* An amount in dollars is whole.
LEMMA InUsdIsWhole ==
  ASSUME NEW v \in Int, NEW country, NEW r \in Rates
  PROVE  toUsd(v, country, r) \in Int
<1>1. r \in Nat \ {0} /\ r > 0
  BY RatesOK
<1> QED
  BY <1>1 DEF toUsd

\* What the rows are sorted by is a number.
LEMMA SortValueOK ==
  ASSUME HoldingsKnown, NEW l \in hv.held
  PROVE  /\ SortValue(l) \in Int
         /\ hv.sortKey = "market_value" => SortValue(l) = ValueInUsd(l, hv.sortFx)
<1>1. /\ l \in Lot /\ l.ticker \in Int /\ l.shares \in Int /\ l.avg \in Int
      /\ CurrentPrice(l) \in Int /\ MarketValue(l) \in Int /\ MarketValue(l) - Cost(l) \in Int
  BY LotIs, HoldingsFiguresConstants
<1>2. hv.sortFx \in Rates
  BY HeldOK
<1>3. hv.sortKey \in {"ticker", "shares", "avg_price", "price", "market_value", "pnl"}
  BY DEF HoldingsKnown, HoldingsFiguresTypeOK, SortKey
<1>4. CASE hv.sortKey = "ticker"
  BY <1>1, <1>4 DEF SortValue
<1>5. CASE hv.sortKey = "shares"
  BY <1>1, <1>5 DEF SortValue
<1>6. CASE hv.sortKey = "avg_price"
  <2>1. SortValue(l) = toUsd(l.avg, inferCountry(l.ticker), hv.sortFx)
    BY <1>6 DEF SortValue
  <2> QED
    BY <1>1, <1>2, <1>6, <2>1, InUsdIsWhole
<1>7. CASE hv.sortKey = "price"
  <2>1. SortValue(l) = toUsd(CurrentPrice(l), inferCountry(l.ticker), hv.sortFx)
    BY <1>7 DEF SortValue
  <2> QED
    BY <1>1, <1>2, <1>7, <2>1, InUsdIsWhole
<1>8. CASE hv.sortKey = "market_value"
  <2>1. SortValue(l) = toUsd(MarketValue(l), inferCountry(l.ticker), hv.sortFx)
    BY <1>8 DEF SortValue
  <2> QED
    BY <1>1, <1>2, <1>8, <2>1, InUsdIsWhole DEF ValueInUsd
<1>9. CASE hv.sortKey = "pnl"
  <2>1. SortValue(l) = toUsd(MarketValue(l) - Cost(l), inferCountry(l.ticker), hv.sortFx)
    BY <1>9 DEF SortValue
  <2> QED
    BY <1>1, <1>2, <1>9, <2>1, InUsdIsWhole
<1> QED
  BY <1>3, <1>4, <1>5, <1>6, <1>7, <1>8, <1>9

\* The order of the rows.
Earlier ==
    {p \in hv.held \X hv.held :
        LET va == SortValue(p[1])  vb == SortValue(p[2])
        IN  (IF hv.sortDir = "asc" THEN va < vb ELSE va > vb) \/ (va = vb /\ p[1].id < p[2].id)}

\* One row is before another by the key and the direction, then by its number.
LEMMA EarlierIs ==
  ASSUME NEW l \in hv.held, NEW m \in hv.held
  PROVE  <<l, m>> \in Earlier <=>
           \/ hv.sortDir = "asc" /\ SortValue(l) < SortValue(m)
           \/ hv.sortDir # "asc" /\ SortValue(l) > SortValue(m)
           \/ SortValue(l) = SortValue(m) /\ l.id < m.id
BY DEF Earlier

\* The rows are the lots, each once, in that order.
LEMMA SortedOK ==
  ASSUME HoldingsKnown
  PROVE  /\ Cardinality(hv.held) \in Nat /\ Len(sorted) = Cardinality(hv.held)
         /\ sorted \in [1..Cardinality(hv.held) -> hv.held]
         /\ DOMAIN sorted = 1..Cardinality(hv.held)
         /\ \A i, j \in 1..Cardinality(hv.held) : i < j => <<sorted[i], sorted[j]>> \in Earlier
         /\ \A l \in hv.held : \E i \in 1..Cardinality(hv.held) : sorted[i] = l
         /\ \A i, j \in 1..Cardinality(hv.held) : sorted[i] = sorted[j] => i = j
<1> DEFINE H == hv.held
           key == [l \in H |-> SortValue(l)]
           id == [l \in H |-> l.id]
           up == hv.sortDir = "asc"
<1>1. \A l \in H : key[l] \in Int /\ id[l] \in Int /\ key[l] = SortValue(l) /\ id[l] = l.id
  BY SortValueOK, LotIs, HoldingsFiguresConstants
<1>2. \A l, m \in H : id[l] = id[m] => l = m
  BY LotIs, HoldingsFiguresConstants
<1>3. \A l, m \in H : <<l, m>> \in Earlier <=>
           \/ up /\ key[l] < key[m]
           \/ ~ up /\ key[l] > key[m]
           \/ key[l] = key[m] /\ id[l] < id[m]
  BY <1>1, EarlierIs
<1>4. IsFiniteSet(H) /\ Cardinality(H) \in Nat
  BY HeldOK, FS_CardinalityType
<1>5. sorted = InOrder(H, Earlier)
  BY DEF sorted, Earlier
<1> HIDE DEF H, key, id, up
<1>6. Orders(Earlier, H)
  <2>1. \A x \in H : <<x, x>> \notin Earlier
    BY <1>1, <1>3
  <2>2. \A x, y, z \in H : <<x, y>> \in Earlier /\ <<y, z>> \in Earlier => <<x, z>> \in Earlier
    <3> SUFFICES ASSUME NEW x \in H, NEW y \in H, NEW z \in H, <<x, y>> \in Earlier, <<y, z>> \in Earlier
                 PROVE  <<x, z>> \in Earlier
      OBVIOUS
    <3>1. key[x] \in Int /\ key[y] \in Int /\ key[z] \in Int /\ id[x] \in Int /\ id[y] \in Int /\ id[z] \in Int
      BY <1>1
    <3>2. CASE up
      BY <1>3, <3>1, <3>2
    <3>3. CASE ~ up
      BY <1>3, <3>1, <3>3
    <3> QED
      BY <3>2, <3>3
  <2>3. \A x, y \in H : x # y => <<x, y>> \in Earlier \/ <<y, x>> \in Earlier
    BY <1>1, <1>2, <1>3
  <2> QED
    BY <2>1, <2>2, <2>3 DEF Orders
<1>7. /\ sorted \in [1..Cardinality(H) -> H]
      /\ \A i, j \in 1..Cardinality(H) : i < j => <<sorted[i], sorted[j]>> \in Earlier
      /\ \A l \in H : \E i \in 1..Cardinality(H) : sorted[i] = l
      /\ \A i, j \in 1..Cardinality(H) : sorted[i] = sorted[j] => i = j
  BY <1>4, <1>5, <1>6, InOrderOK
<1>8. DOMAIN sorted = 1..Cardinality(H) /\ Len(sorted) = Cardinality(H)
  <2> HIDE DEF sorted
  <2> QED
    BY <1>4, <1>7
<1> QED
  BY <1>4, <1>7, <1>8 DEF H

\* A row for each lot, and what the rate has made of the American ones.
LEMMA TableOK ==
  ASSUME HoldingsKnown
  PROVE  LET rows == HoldingsTable
             ofTheRate == {i \in DOMAIN rows : rows[i].fxPnl # <<>>}
         IN  /\ Len(rows) = Cardinality(hv.held)
             /\ SumFunctionOnSet(MadeByRate, American) = SumFunction([i \in ofTheRate |-> rows[i].fxPnl[1]])
<1> DEFINE rows == HoldingsTable
           n == Cardinality(hv.held)
           I == {i \in DOMAIN rows : rows[i].fxPnl # <<>>}
           h == [i \in I |-> rows[i].fxPnl[1]]
           p == [i \in I |-> sorted[i]]
<1>1. n \in Nat /\ DOMAIN rows = 1..n /\ Len(rows) = n /\ \A i \in 1..n : rows[i] = HoldingRow(sorted[i]) /\ sorted[i] \in hv.held
  BY SortedOK DEF HoldingsTable
<1>2. ASSUME NEW l \in hv.held
      PROVE  /\ HoldingRow(l).fxPnl # <<>> <=> inferCountry(l.ticker) = "US"
             /\ inferCountry(l.ticker) = "US" => HoldingRow(l).fxPnl[1] = MadeByRate[l]
  <2>1. inferCountry(l.ticker) \in {"US", "JP"}
    BY LotIs
  <2>2. HoldingRow(l).fxPnl = IF inferCountry(l.ticker) = "JP" THEN <<>>
                              ELSE <<l.shares * l.avg * (hv.fx - BoughtAt(l, hv.fx))>>
    BY DEF HoldingRow
  <2>3. MadeByRate[l] = IF inferCountry(l.ticker) = "US" THEN l.shares * l.avg * (hv.fx - BoughtAt(l, hv.fx)) ELSE 0
    BY DEF MadeByRate, Cost
  <2> QED
    BY <2>1, <2>2, <2>3
<1>3. \A i \in 1..n : i \in I <=> sorted[i] \in American
  <2> HIDE DEF rows, n
  <2> QED
    BY <1>1, <1>2 DEF American
<1>4. \A i \in I : i \in 1..n /\ sorted[i] \in American /\ h[i] = MadeByRate[sorted[i]]
  <2>1. \A i \in I : i \in 1..n /\ h[i] = rows[i].fxPnl[1]
    BY <1>1
  <2> HIDE DEF rows, n, I, h
  <2> QED
    BY <1>1, <1>2, <1>3, <2>1 DEF American
<1>5. p \in Bijection(I, American)
  <2>1. p \in [I -> American]
    BY <1>4
  <2>2. \A i, j \in I : p[i] = p[j] => i = j
    BY <1>4, SortedOK
  <2>3. \A l \in American : \E i \in I : p[i] = l
    <3> SUFFICES ASSUME NEW l \in American PROVE \E i \in I : p[i] = l
      OBVIOUS
    <3>1. PICK i \in 1..n : sorted[i] = l
      BY SortedOK DEF American
    <3>2. i \in I
      BY <1>3, <3>1
    <3> QED
      BY <3>1, <3>2
  <2> HIDE DEF p, I
  <2> QED
    BY <2>1, <2>2, <2>3 DEF Bijection, Injection, Surjection, IsInjective
<1>6. IsFiniteSet(I)
  <2>1. I \subseteq 1..n
    BY <1>4
  <2> HIDE DEF I, n
  <2> QED
    BY <1>1, <2>1, SomeIndices
<1>7. \A i \in I : h[i] = MadeByRate[p[i]] /\ h[i] \in Int
  <2>1. \A i \in I : p[i] = sorted[i] /\ sorted[i] \in hv.held
    BY <1>4 DEF American
  <2> HIDE DEF p, I, h
  <2> QED
    BY <1>4, <2>1, LotSums
<1>8. DOMAIN h = I
  OBVIOUS
<1> HIDE DEF I, h, p
<1>9. SumFunctionOnSet(h, I) = SumFunctionOnSet(MadeByRate, American)
  BY <1>5, <1>6, <1>7, SumThrough
<1> QED
  BY <1>1, <1>8, <1>9, SumIs DEF I, h

\* The rows are in the order of what they show, and none claims a profit without a price.
LEMMA RowsOK ==
  ASSUME HoldingsKnown
  PROVE  RowsAreInOrder
<1> DEFINE n == Cardinality(hv.held)
<1>1. n \in Nat /\ Len(sorted) = n /\ \A i \in 1..n : sorted[i] \in hv.held
  BY SortedOK
<1>2. ASSUME hv.sortKey = "market_value", hv.sortFx = hv.fx \/ NoYen, NEW i \in 1..(n - 1)
      PROVE  LET here == ValueInUsd(sorted[i], hv.fx)  next == ValueInUsd(sorted[i + 1], hv.fx)
             IN  IF hv.sortDir = "desc" THEN here >= next ELSE here <= next
  <2> DEFINE l == sorted[i]
             m == sorted[i + 1]
             x == ValueInUsd(l, hv.fx)
             y == ValueInUsd(m, hv.fx)
  <2>1. i \in 1..n /\ i + 1 \in 1..n /\ i < i + 1
    <3> HIDE DEF n
    <3> QED
      BY <1>1
  <2>2. l \in hv.held /\ m \in hv.held /\ <<l, m>> \in Earlier
    BY <2>1, SortedOK
  <2> HIDE DEF l, m, n
  <2>3. SortValue(l) = x /\ SortValue(m) = y /\ x \in Int /\ y \in Int
    <3>1. hv.fx \in Rates /\ hv.sortFx \in Rates
      BY HeldOK
    <3>2. SortValue(l) = ValueInUsd(l, hv.sortFx) /\ SortValue(m) = ValueInUsd(m, hv.sortFx)
      BY <1>2, <2>2, SortValueOK
    <3>3. x \in Int /\ y \in Int
      BY <2>2, <3>1, WorthOK
    <3>4. CASE hv.sortFx = hv.fx
      BY <3>2, <3>3, <3>4
    <3>5. CASE NoYen
      <4>1. inferCountry(l.ticker) = "US" /\ inferCountry(m.ticker) = "US"
        BY <2>2, <3>5 DEF NoYen
      <4> QED
        BY <2>2, <3>1, <3>2, <3>3, <4>1, WorthOK
    <3> QED
      BY <1>2, <3>4, <3>5
  <2>4. hv.sortDir \in {"asc", "desc"}
    BY DEF HoldingsKnown, HoldingsFiguresTypeOK
  <2>5. IF hv.sortDir = "desc" THEN x >= y ELSE x <= y
    <3>1. \/ hv.sortDir = "asc" /\ x < y
          \/ hv.sortDir # "asc" /\ x > y
          \/ x = y
      BY <2>2, <2>3, EarlierIs
    <3> HIDE DEF x, y
    <3> QED
      BY <2>3, <2>4, <3>1
  <2> QED
    BY <2>5 DEF l, m
<1>3. ASSUME NEW i \in DOMAIN HoldingsTable, HoldingsTable[i].price # "price"
      PROVE  HoldingsTable[i].pnl = 0
  <2> DEFINE l == sorted[i]
  <2>1. HoldingsTable[i] = HoldingRow(l) /\ l \in hv.held
    BY SortedOK DEF HoldingsTable
  <2> HIDE DEF l
  <2>2. /\ HoldingRow(l).pnl = MarketValue(l) - Cost(l)
        /\ HoldingRow(l).price # "price" => hv.quotes[l.ticker] = NoQuote
    BY DEF HoldingRow
  <2>3. MarketValue(l) = Cost(l) /\ Cost(l) \in Nat
    BY <1>3, <2>1, <2>2, LotIs DEF MarketValue, Cost, CurrentPrice
  <2> QED
    BY <2>1, <2>2, <2>3
<1> QED
  BY <1>1, <1>2, <1>3 DEF RowsAreInOrder

\* The box next to the pointer.
LEMMA TooltipsOK == TooltipsAreInside
BY DEF TooltipsAreInside, TooltipAt

-----------------------------------------------------------------------------
(* The rings.                                                                *)

\* A list of segments with their values.
Worths(s, n) == n \in Nat /\ s \in Seq({s[i] : i \in 1..n}) /\ Len(s) = n /\ \A i \in 1..n : s[i].value \in Nat
Values(s) == [i \in DOMAIN s |-> s[i].value]

\* The sum of a part of a list, by its places.
LEMMA PartSum ==
  ASSUME NEW s, NEW n, Worths(s, n), NEW a \in 1..(n + 1), NEW b \in 0..n, a <= b + 1
  PROVE  /\ SumOf(SubSeq(s, a, b)) = SumFunctionOnSet(Values(s), a..b)
         /\ SumFunctionOnSet(Values(s), a..b) \in Nat
         /\ IsFiniteSet(a..b) /\ \A i \in a..b : i \in 1..n /\ Values(s)[i] \in Nat /\ Values(s)[i] \in Int
<1> DEFINE X == {s[i] : i \in 1..n}
           t == SubSeq(s, a, b)
           m == b - a + 1
           h == [i \in DOMAIN t |-> t[i].value]
           p == [i \in 1..m |-> i + a - 1]
           V == Values(s)
<1>1. n \in Nat /\ s \in Seq(X) /\ Len(s) = n /\ DOMAIN s = 1..n /\ \A i \in 1..n : s[i].value \in Nat
  BY DEF Worths
<1>2. m \in Nat /\ a \in Nat /\ b \in Nat /\ \A i \in 1..m : i + a - 1 \in a..b /\ i + a - 1 \in 1..n
  BY <1>1
<1>3. DOMAIN t = 1..m /\ \A i \in 1..m : t[i] = s[i + a - 1]
  <2> HIDE DEF X
  <2> QED
    BY <1>1, <1>2
<1>4. p \in Bijection(1..m, a..b)
  <2>1. p \in [1..m -> a..b]
    BY <1>2
  <2>2. \A i, j \in 1..m : p[i] = p[j] => i = j
    BY <1>2
  <2>3. \A k \in a..b : \E i \in 1..m : p[i] = k
    <3> SUFFICES ASSUME NEW k \in a..b PROVE \E i \in 1..m : p[i] = k
      OBVIOUS
    <3>1. k - a + 1 \in 1..m /\ p[k - a + 1] = k
      BY <1>2
    <3> QED
      BY <3>1
  <2> HIDE DEF p, m
  <2> QED
    BY <2>1, <2>2, <2>3 DEF Bijection, Injection, Surjection, IsInjective
<1>5. \A i \in 1..n : V[i] = s[i].value /\ V[i] \in Nat
  BY <1>1 DEF Values
<1>6. DOMAIN h = 1..m /\ \A i \in 1..m : h[i] = V[p[i]] /\ h[i] \in Int
  <2>1. DOMAIN h = 1..m /\ \A i \in 1..m : h[i] = s[i + a - 1].value /\ p[i] = i + a - 1
    <3> HIDE DEF t, m
    <3> QED
      BY <1>3
  <2> HIDE DEF h, p, m, V
  <2> SUFFICES ASSUME NEW i \in 1..m PROVE h[i] = V[p[i]] /\ h[i] \in Int
    BY <2>1
  <2> DEFINE k == i + a - 1
  <2>2. k \in 1..n /\ p[i] = k /\ h[i] = s[k].value
    BY <1>2, <2>1
  <2> HIDE DEF k
  <2> QED
    BY <1>5, <2>2
<1>7. IsFiniteSet(1..m) /\ IsFiniteSet(a..b)
  <2> HIDE DEF m
  <2>1. 1 \in Int /\ m \in Int /\ a \in Int /\ b \in Int
    BY <1>2
  <2> QED
    BY <2>1, FS_Interval
<1>8. \A i \in a..b : i \in 1..n /\ V[i] \in Nat /\ V[i] \in Int /\ V[i] >= 0
  <2>1. \A i \in a..b : i \in 1..n
    BY <1>1, <1>2
  <2> HIDE DEF V
  <2>2. \A i \in 1..n : V[i] \in Nat /\ V[i] \in Int /\ V[i] >= 0
    BY <1>5
  <2> QED
    BY <2>1, <2>2
<1> HIDE DEF h, p, V, t, m
<1>9. SumFunctionOnSet(h, 1..m) = SumFunctionOnSet(V, a..b)
  <2> DEFINE I == 1..m
             N == a..b
  <2>1. IsFiniteSet(I) /\ p \in Bijection(I, N) /\ \A i \in I : h[i] = V[p[i]] /\ h[i] \in Int
    BY <1>4, <1>6, <1>7
  <2> HIDE DEF I, N
  <2>2. SumFunctionOnSet(h, I) = SumFunctionOnSet(V, N)
    BY ONLY <2>1, SumThrough
  <2> QED
    BY <2>2 DEF I, N
<1>10. SumOf(t) = SumFunctionOnSet(h, 1..m)
  BY <1>6, SumIs DEF SumOf, h
<1>11. SumFunctionOnSet(V, a..b) \in Nat
  <2> DEFINE x == SumFunctionOnSet(V, a..b)
  <2>1. x \in Int /\ x >= 0
    BY <1>7, <1>8, SumType
  <2> HIDE DEF x
  <2> QED
    BY <2>1 DEF x
<1> QED
  BY <1>7, <1>8, <1>9, <1>10, <1>11 DEF t, V

\* All of it.
LEMMA WholeSum ==
  ASSUME NEW s, NEW n, Worths(s, n)
  PROVE  DOMAIN s = 1..n /\ SumOf(s) = SumFunctionOnSet(Values(s), 1..n)
<1>1. DOMAIN s = 1..n
  BY DEF Worths
<1>2. DOMAIN Values(s) = 1..n /\ SumOf(s) = SumFunction(Values(s))
  BY <1>1 DEF Values, SumOf
<1> QED
  BY <1>1, <1>2, SumIs

\* The sums from the top.
LEMMA PrefixOK ==
  ASSUME NEW s, NEW n, Worths(s, n)
  PROVE  /\ \A i \in 0..n : SumOf(SubSeq(s, 1, i)) \in Nat
         /\ \A i \in 1..n : SumOf(SubSeq(s, 1, i)) = SumOf(SubSeq(s, 1, i - 1)) + s[i].value
         /\ \A i, j \in 0..n : i <= j => SumOf(SubSeq(s, 1, i)) <= SumOf(SubSeq(s, 1, j))
         /\ SumOf(SubSeq(s, 1, n)) = SumOf(s)
<1> DEFINE V == Values(s)
           P(i) == SumFunctionOnSet(V, 1..i)
<1>0. n \in Nat /\ DOMAIN s = 1..n /\ \A i \in 1..n : V[i] = s[i].value /\ V[i] \in Nat
  BY DEF Worths, Values
<1>1. \A i \in 0..n : SumOf(SubSeq(s, 1, i)) = P(i) /\ P(i) \in Nat /\ IsFiniteSet(1..i)
  <2> SUFFICES ASSUME NEW i \in 0..n PROVE SumOf(SubSeq(s, 1, i)) = P(i) /\ P(i) \in Nat /\ IsFiniteSet(1..i)
    OBVIOUS
  <2>1. 1 \in 1..(n + 1) /\ 1 <= i + 1
    BY <1>0
  <2> QED
    BY <2>1, PartSum
<1> HIDE DEF V
<1>2. ASSUME NEW i \in 0..n, NEW j \in 0..n, i <= j
      PROVE  P(i) <= P(j)
  <2>1. (i + 1) \in 1..(n + 1) /\ j \in 0..n /\ i + 1 <= j + 1 /\ i \in Nat /\ j \in Nat
    BY <1>0, <1>2
  <2> DEFINE d == SumFunctionOnSet(V, (i + 1)..j)
             k == i + 1
  <2>2. d \in Nat /\ IsFiniteSet((i + 1)..j)
    <3>1. k \in 1..(n + 1) /\ k <= j + 1
      BY <2>1
    <3> HIDE DEF k
    <3>2. SumFunctionOnSet(V, k..j) \in Nat /\ IsFiniteSet(k..j)
      BY <3>1, PartSum DEF V
    <3> QED
      BY <3>2 DEF k
  <2>3. (1..i) \cup ((i + 1)..j) = 1..j /\ (1..i) \cap ((i + 1)..j) = {}
    BY <1>2, <2>1
  <2>4. \A x \in (1..i) \cup ((i + 1)..j) : V[x] \in Int
    BY <1>0, <2>1
  <2>5. SumFunctionOnSet(V, (1..i) \cup ((i + 1)..j)) = P(i) + d
    <3>1. IsFiniteSet(1..i)
      BY <1>1
    <3> QED
      BY ONLY <2>2, <2>3, <2>4, <3>1, SumSplit
  <2>6. P(j) = P(i) + d /\ P(i) \in Nat
    BY <1>1, <2>3, <2>5
  <2> DEFINE x == P(i)
             y == P(j)
  <2> HIDE DEF d, x, y
  <2>7. y = x + d /\ x \in Nat
    BY <2>6 DEF x, y
  <2>8. x <= y
    BY <2>2, <2>7
  <2> QED
    BY <2>8 DEF x, y
<1>3. ASSUME NEW i \in 1..n
      PROVE  P(i) = P(i - 1) + s[i].value
  <2>1. i - 1 \in 0..n /\ i \in Nat
    BY <1>0
  <2>2. (1..(i - 1)) \cup {i} = 1..i /\ i \notin 1..(i - 1)
    BY <2>1
  <2>3. \A x \in (1..(i - 1)) \cup {i} : V[x] \in Int
    BY <1>0, <2>2
  <2>4. IsFiniteSet(1..(i - 1)) /\ P(i - 1) \in Nat
    BY <1>1, <2>1
  <2>5. SumFunctionOnSet(V, (1..(i - 1)) \cup {i}) = V[i] + P(i - 1)
    BY ONLY <2>2, <2>3, <2>4, SumWith
  <2>6. P(i) = V[i] + P(i - 1) /\ V[i] = s[i].value /\ V[i] \in Nat
    BY <1>0, <2>2, <2>5
  <2> DEFINE x == P(i - 1)
             y == P(i)
  <2> HIDE DEF x, y
  <2>7. y = V[i] + x /\ x \in Nat
    BY <2>4, <2>6 DEF x, y
  <2>8. y = x + s[i].value
    BY <2>6, <2>7
  <2> QED
    BY <2>8 DEF x, y
<1>4. SumOf(s) = P(n)
  BY WholeSum DEF V
<1> HIDE DEF P
<1>5. \A i \in 1..n : i \in 0..n /\ i - 1 \in 0..n
  BY <1>0
<1>6. n \in 0..n
  BY <1>0
<1>7. \A i \in 1..n : SumOf(SubSeq(s, 1, i)) = SumOf(SubSeq(s, 1, i - 1)) + s[i].value
  BY <1>1, <1>3, <1>5
<1>8. \A i, j \in 0..n : i <= j => SumOf(SubSeq(s, 1, i)) <= SumOf(SubSeq(s, 1, j))
  BY <1>1, <1>2
<1> QED
  BY <1>1, <1>4, <1>6, <1>7, <1>8

\* The arc the pointer is on is the one told of.
LEMMA PointedOK ==
  ASSUME NEW s, NEW n, Worths(s, n), NEW i \in 1..n, NEW angle \in Int,
         Arc(s, i).from <= angle, angle < Arc(s, i).to
  PROVE  Tooltip(s, angle) = s[i]
<1> DEFINE P == [j \in 0..n |-> SumOf(SubSeq(s, 1, j))]
           Q == [j \in 0..n |-> P[j] + j]
<1>1. n \in Nat /\ Len(s) = n /\ s[i].value \in Nat
  BY DEF Worths
<1>2. /\ \A j \in 0..n : P[j] = SumOf(SubSeq(s, 1, j)) /\ P[j] \in Nat
      /\ P[i] = P[i - 1] + s[i].value
      /\ \A j, k \in 0..n : j <= k => P[j] <= P[k]
  <2>1. i \in 0..n /\ i - 1 \in 0..n
    BY <1>1
  <2>2. \A j \in 0..n : P[j] = SumOf(SubSeq(s, 1, j))
    OBVIOUS
  <2> HIDE DEF P
  <2> QED
    BY <2>1, <2>2, PrefixOK
<1> HIDE DEF P
<1>3. /\ \A j \in 0..n : Q[j] \in Nat /\ Q[j] = SumOf(SubSeq(s, 1, j)) + j
      /\ \A j, k \in 0..n : j <= k => Q[j] <= Q[k]
      /\ i \in 0..n /\ i - 1 \in 0..n
      /\ Q[i - 1] <= angle /\ angle < Q[i]
  <2>1. i \in 0..n /\ i - 1 \in 0..n
    BY <1>1
  <2>2. Arc(s, i).from = P[i - 1] + (i - 1) /\ Arc(s, i).to = P[i - 1] + (i - 1) + s[i].value
    BY <1>2, <2>1 DEF Arc
  <2>3. \A j \in 0..n : Q[j] = P[j] + j
    OBVIOUS
  <2> HIDE DEF Q
  <2>4. \A j, k \in 0..n : j <= k => Q[j] <= Q[k]
    <3> SUFFICES ASSUME NEW j \in 0..n, NEW k \in 0..n, j <= k PROVE Q[j] <= Q[k]
      OBVIOUS
    <3>1. P[j] <= P[k] /\ P[j] \in Nat /\ P[k] \in Nat /\ Q[j] = P[j] + j /\ Q[k] = P[k] + k
      BY <1>2, <2>3
    <3> QED
      BY <3>1
  <2>5. Q[i - 1] <= angle /\ angle < Q[i]
    <3>1. Q[i - 1] = P[i - 1] + (i - 1) /\ Q[i] = P[i - 1] + s[i].value + i /\ P[i - 1] \in Nat
      BY <1>2, <2>1, <2>3
    <3> QED
      BY <1>1, <2>2, <3>1
  <2> QED
    BY <1>2, <2>1, <2>3, <2>4, <2>5
<1> HIDE DEF Q
<1> DEFINE Pointed(k) == /\ angle < SumOf(SubSeq(s, 1, k)) + k
                         /\ \A j \in 1..(k - 1) : angle >= SumOf(SubSeq(s, 1, j)) + j
<1>4. \A k \in 1..n : k \in 0..n /\ \A j \in 1..(k - 1) : j \in 0..n /\ j <= k - 1
  BY <1>1
<1>5. Pointed(i)
  BY <1>1, <1>3, <1>4
<1>6. ASSUME NEW k \in 1..n, Pointed(k) PROVE k = i
  <2>1. CASE k < i
    <3>1. k \in 1..(i - 1)
      BY <2>1
    <3> QED
      BY <1>5, <1>6, <3>1, <1>3, <1>4
  <2>2. CASE i < k
    <3>1. i \in 1..(k - 1)
      BY <2>2
    <3> QED
      BY <1>5, <1>6, <3>1, <1>3, <1>4
  <2> QED
    BY <1>1, <2>1, <2>2
<1>7. hoveredIdx(s, angle) = CHOOSE k \in 1..n : Pointed(k)
  BY <1>1 DEF hoveredIdx
<1> HIDE DEF Pointed
<1>8. hoveredIdx(s, angle) = i
  BY <1>5, <1>6, <1>7
<1> QED
  BY <1>8 DEF Tooltip

\* The smallest segments are one: as much is in the ring, in at most MaxSegments arcs.
LEMMA PreparedOK ==
  ASSUME NEW s, NEW n, Worths(s, n), n >= 1
  PROVE  /\ Worths(prepared(s), Len(prepared(s))) /\ Len(prepared(s)) \in 1..MaxSegments
         /\ SumOf(prepared(s)) = SumOf(s)
<1> DEFINE X == {s[i] : i \in 1..n}
           M == MaxSegments
<1>1. n \in Nat /\ s \in Seq(X) /\ Len(s) = n /\ DOMAIN s = 1..n /\ \A i \in 1..n : s[i].value \in Nat
  BY DEF Worths
<1>2. M \in 2..10
  BY HoldingsFiguresConstants
<1>3. CASE n <= M
  <2>1. prepared(s) = s
    BY <1>1, <1>3 DEF prepared
  <2> QED
    BY <1>1, <1>2, <1>3, <2>1
<1>4. CASE n > M
  <2> DEFINE a == SubSeq(s, 1, M - 1)
             w == SumOf(SubSeq(s, M, n))
             o == [label |-> <<"other">>, value |-> w]
             ring == a \o <<o>>
             Y == X \cup {o}
             V == Values(s)
             W == Values(ring)
  <2>1. prepared(s) = ring
    <3>1. ~(Len(s) <= MaxSegments)
      BY <1>1, <1>2, <1>4
    <3> QED
      BY <1>1, <3>1 DEF prepared
  <2>2. M \in 1..(n + 1) /\ n \in 0..n /\ M <= n + 1 /\ M - 1 \in 0..n /\ M - 1 \in Nat
    BY <1>1, <1>2, <1>4
  <2>3. w = SumFunctionOnSet(V, M..n) /\ w \in Nat /\ IsFiniteSet(M..n) /\ \A i \in M..n : V[i] \in Int
    <3> HIDE DEF M
    <3> QED
      BY <2>2, PartSum
  <2>4. a \in Seq(X) /\ Len(a) = M - 1 /\ \A i \in 1..(M - 1) : a[i] = s[i] /\ i \in 1..n
    <3> HIDE DEF X
    <3> QED
      BY <1>1, <2>2
  <2>5. a \in Seq(Y) /\ <<o>> \in Seq(Y) /\ Len(<<o>>) = 1
    <3>1. a \in Seq(Y)
      <4> HIDE DEF a, X, o
      <4> QED
        BY <2>4
    <3> HIDE DEF a, X, o
    <3> QED
      BY <3>1
  <2>6. o.value = w
    OBVIOUS
  <2> HIDE DEF a, o, w
  <2>7. /\ ring \in Seq(Y) /\ Len(ring) = M /\ DOMAIN ring = 1..M /\ ring[M] = o
        /\ \A i \in 1..(M - 1) : ring[i] = s[i]
    <3> HIDE DEF X, Y, M
    <3>1. Len(ring) = M /\ DOMAIN ring = 1..M /\ ring \in Seq(Y)
      <4>1. Len(ring) = Len(a) + Len(<<o>>) /\ DOMAIN ring = 1..(Len(a) + Len(<<o>>)) /\ ring \in Seq(Y)
        BY ONLY <2>5, ConcatOK
      <4>2. Len(a) + Len(<<o>>) = M
        BY <1>2, <2>4, <2>5 DEF M
      <4> HIDE DEF ring
      <4> QED
        BY <4>1, <4>2
    <3>2. ring[M] = o
      BY <1>2, <2>4, <2>5 DEF M
    <3>3. \A i \in 1..(M - 1) : ring[i] = a[i]
      BY <1>2, <2>4, <2>5 DEF M
    <3> HIDE DEF ring
    <3> QED
      BY <2>4, <3>1, <3>2, <3>3
  <2> HIDE DEF ring, M
  <2>8. \A i \in 1..M : i \in 1..(M - 1) \/ i = M
    BY <1>2
  <2>9. Worths(ring, M)
    <3> DEFINE Z == {ring[i] : i \in 1..M}
    <3>1. M \in Nat
      BY <1>2
    <3>2. \A i \in 1..M : ring[i].value \in Nat
      BY <1>1, <2>3, <2>4, <2>6, <2>7, <2>8
    <3>3. ring \in Seq(Z)
      <4>1. ring = [i \in 1..M |-> ring[i]]
        <5> HIDE DEF Y, X
        <5> QED
          BY ONLY <2>7
      <4>2. \A i \in 1..M : ring[i] \in Z
        OBVIOUS
      <4> HIDE DEF Z
      <4> QED
        BY ONLY <3>1, <4>1, <4>2
    <3> QED
      BY <2>7, <3>1, <3>2, <3>3 DEF Worths
  <2>10. \A i \in 1..(M - 1) : W[i] = V[i] /\ V[i] \in Int /\ W[i] \in Int
    <3>1. \A i \in 1..(M - 1) : i \in 1..M /\ i \in 1..n
      BY <1>2, <2>4
    <3>2. \A i \in 1..M : W[i] = ring[i].value
      BY <2>7 DEF Values
    <3>3. \A i \in 1..n : V[i] = s[i].value /\ V[i] \in Nat
      BY <1>1 DEF Values
    <3> HIDE DEF W, V
    <3> QED
      BY <2>7, <3>1, <3>2, <3>3
  <2>11. W[M] = w
    <3>1. M \in 1..M
      BY <1>2
    <3> QED
      BY <2>6, <2>7, <3>1 DEF Values
  <2>12. IsFiniteSet(1..(M - 1))
    <3>1. 1 \in Int /\ M - 1 \in Int
      BY <1>2
    <3> QED
      BY ONLY <3>1, FS_Interval
  <2>13. SumOf(ring) = SumFunctionOnSet(W, 1..M)
    BY <2>9, WholeSum
  <2>14. (1..(M - 1)) \cup {M} = 1..M /\ M \notin 1..(M - 1)
    BY <1>2
  <2>15. SumFunctionOnSet(W, (1..(M - 1)) \cup {M}) = W[M] + SumFunctionOnSet(W, 1..(M - 1))
    <3>1. \A i \in (1..(M - 1)) \cup {M} : W[i] \in Int
      <4> HIDE DEF W
      <4> QED
        BY <2>3, <2>10, <2>11
    <3> HIDE DEF W
    <3> QED
      BY ONLY <2>12, <2>14, <3>1, SumWith
  <2>16. SumFunctionOnSet(W, 1..(M - 1)) = SumFunctionOnSet(V, 1..(M - 1))
    <3> HIDE DEF W, V
    <3> QED
      BY ONLY <2>10, <2>12, SumSame
  <2>17. (1..(M - 1)) \cup (M..n) = 1..n /\ (1..(M - 1)) \cap (M..n) = {}
    <3>1. M \in Int /\ M >= 2 /\ n > M /\ n \in Int
      BY <1>1, <1>2, <1>4 DEF M
    <3>2. \A i : i \in (1..(M - 1)) \cup (M..n) <=> i \in 1..n
      BY ONLY <3>1
    <3>3. \A i : i \notin (1..(M - 1)) \cap (M..n)
      BY ONLY <3>1
    <3> QED
      BY ONLY <3>2, <3>3
  <2>18. SumFunctionOnSet(V, (1..(M - 1)) \cup (M..n)) = SumFunctionOnSet(V, 1..(M - 1)) + w
    <3> HIDE DEF V
    <3>1. \A i \in (1..(M - 1)) \cup (M..n) : V[i] \in Int
      BY <2>3, <2>10
    <3> QED
      BY ONLY <2>3, <2>12, <2>17, <3>1, SumSplit
  <2>19. SumOf(s) = SumFunctionOnSet(V, 1..n)
    BY WholeSum
  <2>20. SumFunctionOnSet(V, 1..(M - 1)) \in Int
    <3> HIDE DEF V
    <3> QED
      BY ONLY <2>10, <2>12, SumType
  <2> HIDE DEF V, W
  <2>21. SumOf(ring) = SumOf(s)
    <3> DEFINE head == SumFunctionOnSet(V, 1..(M - 1))
               all == SumFunctionOnSet(V, 1..n)
               top == SumFunctionOnSet(W, 1..M)
    <3>1. top = w + head
      BY ONLY <2>11, <2>14, <2>15, <2>16
    <3>2. all = head + w
      BY ONLY <2>17, <2>18
    <3>3. w \in Nat /\ head \in Int
      BY ONLY <2>3, <2>20
    <3>4. SumOf(ring) = top /\ SumOf(s) = all
      BY ONLY <2>13, <2>19
    <3> HIDE DEF head, all, top
    <3> QED
      BY ONLY <3>1, <3>2, <3>3, <3>4
  <2>22. M \in 1..M
    BY <1>2
  <2> QED
    BY <2>1, <2>7, <2>9, <2>21, <2>22 DEF M
<1> QED
  BY <1>1, <1>2, <1>3, <1>4

\* Each lot at the rate the rings were drawn with.
WorthInRing == [l \in hv.held |-> ValueInUsd(l, hv.ringFx)]

\* The segments of a ring have the whole of what is held.
LEMMA SegmentsOK ==
  ASSUME HoldingsKnown, hv.held # {}, NEW labels, DOMAIN labels = hv.held
  PROVE  /\ Worths(Segments(labels), Len(Segments(labels))) /\ Len(Segments(labels)) >= 1
         /\ SumOf(Segments(labels)) = Total(WorthInRing)
<1> DEFINE H == hv.held
           L == Range(labels)
           Of(a) == {l \in H : labels[l] = a}
           P == [a \in L |-> Of(a)]
           val == [a \in L |-> SumFunction([l \in Of(a) |-> ValueInUsd(l, hv.ringFx)])]
           ids(a) == {l.id : l \in Of(a)}
           first == [a \in L |-> Min(ids(a))]
           R == [a \in L |-> [label |-> a, value |-> val[a], first |-> first[a]]]
           all == {[label |-> a, value |-> SumFunction([l \in Of(a) |-> ValueInUsd(l, hv.ringFx)]),
                    first |-> Min(ids(a))] : a \in L}
           before == {p \in all \X all : \/ p[1].value > p[2].value
                                         \/ p[1].value = p[2].value /\ p[1].first < p[2].first}
           s == Segments(labels)
           F == WorthInRing
<1>1. s = InOrder(all, before)
  BY Zenon DEF Segments, SumOver
<1>all. all = {R[a] : a \in L}
  <2>1. \A a \in L : R[a] = [label |-> a, value |-> SumFunction([l \in Of(a) |-> ValueInUsd(l, hv.ringFx)]),
                             first |-> Min(ids(a))]
    BY Zenon
  <2> HIDE DEF R
  <2> QED
    BY ONLY <2>1
<1> HIDE DEF all
<1>2. IsFiniteSet(H) /\ H # {} /\ hv.ringFx \in Rates
  BY HeldOK
<1>3. /\ \A l \in H : labels[l] \in L /\ l \in Of(labels[l])
      /\ \A a \in L : Of(a) \subseteq H /\ Of(a) # {}
      /\ \A a, b \in L : a # b => Of(a) \cap Of(b) = {}
  BY DEF Range
<1>4. L = {labels[l] : l \in H} /\ L # {}
  BY <1>2 DEF Range
<1> HIDE DEF L
<1>5. IsFiniteSet(L)
  <2> HIDE DEF H
  <2> QED
    BY <1>2, <1>4, ImageOK
<1>6. \A l \in H : F[l] \in Nat /\ F[l] \in Int /\ F[l] >= 0 /\ F[l] = ValueInUsd(l, hv.ringFx)
  <2> SUFFICES ASSUME NEW l \in H PROVE F[l] \in Nat /\ F[l] \in Int /\ F[l] >= 0 /\ F[l] = ValueInUsd(l, hv.ringFx)
    OBVIOUS
  <2>1. F[l] = ValueInUsd(l, hv.ringFx)
    BY DEF WorthInRing
  <2>2. ValueInUsd(l, hv.ringFx) \in Nat
    BY <1>2, WorthOK
  <2> QED
    BY <2>1, <2>2
<1>7. \A l, m \in H : l.id \in Nat /\ (l.id = m.id => l = m)
  BY LotIs, HoldingsFiguresConstants
<1>8. ASSUME NEW a \in L
      PROVE  val[a] = SumFunctionOnSet(F, Of(a)) /\ val[a] \in Nat /\ P[a] = Of(a)
  <2> DEFINE T == Of(a)
             g == [l \in T |-> ValueInUsd(l, hv.ringFx)]
             x == SumFunctionOnSet(F, T)
  <2>1. T \subseteq H /\ IsFiniteSet(T)
    <3>1. T \subseteq H
      BY <1>3
    <3> HIDE DEF T
    <3> QED
      BY <1>2, <3>1, FS_Subset
  <2>2. val[a] = SumFunction(g) /\ P[a] = T
    OBVIOUS
  <2>3. DOMAIN g = T /\ \A l \in T : g[l] = ValueInUsd(l, hv.ringFx)
    OBVIOUS
  <2> HIDE DEF T, g, F
  <2>4. \A l \in T : g[l] = F[l]
    BY <1>6, <2>1, <2>3
  <2>5. SumFunction(g) = SumFunctionOnSet(F, T)
    BY <2>1, <2>3, <2>4, SumOfLots
  <2>6. \A l \in T : F[l] \in Int /\ F[l] >= 0
    BY <1>6, <2>1
  <2>7. x \in Int /\ x >= 0
    BY <2>1, <2>6, SumType
  <2> HIDE DEF x, val, P
  <2>8. x \in Nat
    BY <2>7
  <2> QED
    BY <2>2, <2>5, <2>8 DEF x, T
<1>9. ASSUME NEW a \in L
      PROVE  /\ first[a] \in ids(a) /\ first[a] = Min(ids(a)) /\ first[a] \in Int
             /\ \E l \in H : labels[l] = a /\ l.id = first[a]
  <2> DEFINE T == Of(a)
             id == [l \in T |-> l.id]
             I == {id[l] : l \in T}
  <2>1. IsFiniteSet(T) /\ T \subseteq H /\ T # {}
    <3>1. T \subseteq H /\ T # {}
      BY <1>3
    <3> HIDE DEF T
    <3> QED
      BY <1>2, <3>1, FS_Subset
  <2>2. IsFiniteSet(I)
    <3> HIDE DEF T, id
    <3> QED
      BY <2>1, ImageOK
  <2>3. I = ids(a)
    OBVIOUS
  <2>4. I \subseteq Int /\ I # {}
    <3>1. \A l \in T : id[l] = l.id
      OBVIOUS
    <3> HIDE DEF id, T, H
    <3>2. \A l \in T : id[l] \in Int
      BY <1>7, <2>1, <3>1
    <3> QED
      BY <2>1, <3>2
  <2> HIDE DEF I
  <2>5. Min(I) \in I
    BY <2>2, <2>4, MinOK
  <2>6. first[a] = Min(ids(a))
    BY Zenon
  <2> HIDE DEF first
  <2>7. first[a] \in ids(a)
    BY <2>3, <2>5, <2>6
  <2>8. first[a] \in Int
    BY <2>3, <2>4, <2>7
  <2> QED
    BY <2>6, <2>7, <2>8
<1>10. \A a \in L : R[a].label = a /\ R[a].value = val[a] /\ R[a].first = first[a]
  <2> HIDE DEF val, first
  <2> SUFFICES ASSUME NEW a \in L PROVE R[a].label = a /\ R[a].value = val[a] /\ R[a].first = first[a]
    OBVIOUS
  <2>1. R[a] = [label |-> a, value |-> val[a], first |-> first[a]]
    BY Zenon
  <2> HIDE DEF R
  <2> QED
    BY <2>1
<1>11. \A a, b \in L : first[a] = first[b] => a = b
  <2> HIDE DEF first, H, ids, Of
  <2> QED
    BY <1>7, <1>9
<1> HIDE DEF val, first, P, R, Of, ids, H, F, s
<1>12. IsFiniteSet(all)
  BY <1>5, <1>all, ImageOK
<1>13. Orders(before, all)
  <2>1. /\ \A x \in all : x.value \in Int /\ x.first \in Int
        /\ \A x, y \in all : x.first = y.first => x = y
    BY <1>8, <1>9, <1>10, <1>11, <1>all
  <2>2. \A x, y \in all : <<x, y>> \in before <=>
                             \/ x.value > y.value
                             \/ x.value = y.value /\ x.first < y.first
    <3> HIDE DEF all
    <3> QED
      OBVIOUS
  <2> HIDE DEF all, before
  <2>3. \A x \in all : <<x, x>> \notin before
    BY <2>1, <2>2
  <2>4. ASSUME NEW x \in all, NEW y \in all, NEW z \in all, <<x, y>> \in before, <<y, z>> \in before
        PROVE  <<x, z>> \in before
    <3>1. /\ x.value \in Int /\ y.value \in Int /\ z.value \in Int
          /\ x.first \in Int /\ y.first \in Int /\ z.first \in Int
      BY <2>1
    <3> QED
      BY <2>2, <2>4, <3>1
  <2>5. \A x, y \in all : x # y => <<x, y>> \in before \/ <<y, x>> \in before
    BY <2>1, <2>2
  <2> QED
    BY <2>3, <2>4, <2>5 DEF Orders
<1> DEFINE n == Cardinality(all)
           G == [r \in all |-> r.value]
           h == [i \in 1..n |-> s[i].value]
<1>14. n \in Nat /\ n >= 1
  <2>1. all # {}
    BY <1>4, <1>all
  <2>2. n \in Nat /\ n # 0
    <3> HIDE DEF all
    <3> QED
      BY <1>12, <2>1, FS_CardinalityType, FS_EmptySet
  <2> HIDE DEF n
  <2> QED
    BY <2>2
<1>15. \A r \in all : G[r] = r.value /\ G[r] \in Nat
  <2>1. \A r \in all : r.value \in Nat
    BY <1>8, <1>10, <1>all
  <2> HIDE DEF all
  <2> QED
    BY <2>1
<1>16. SumFunctionOnSet(val, L) = SumFunctionOnSet(F, H)
  <2>1. P \in [L -> SUBSET H]
    BY <1>3, <1>8 DEF P
  <2>2. \A l \in H : \E a \in L : l \in P[a]
    BY <1>3, <1>8
  <2>3. \A a, b \in L : a # b => P[a] \cap P[b] = {}
    BY <1>3, <1>8
  <2>4. \A a \in L : val[a] = SumFunctionOnSet(F, P[a])
    BY <1>8
  <2>5. \A l \in H : F[l] \in Int
    BY <1>6
  <2> QED
    BY ONLY <1>2, <1>5, <2>1, <2>2, <2>3, <2>4, <2>5, SumByParts
<1>17. SumFunctionOnSet(val, L) = SumFunctionOnSet(G, all)
  <2>1. R \in Bijection(L, all)
    <3>1. R \in [L -> all]
      BY <1>all DEF R
    <3>2. \A a, b \in L : R[a] = R[b] => a = b
      BY <1>10
    <3>3. \A r \in all : \E a \in L : R[a] = r
      BY <1>all
    <3> HIDE DEF all
    <3> QED
      BY <3>1, <3>2, <3>3 DEF Bijection, Injection, Surjection, IsInjective
  <2>2. \A a \in L : val[a] = G[R[a]] /\ val[a] \in Int
    <3>1. \A a \in L : R[a] \in all
      BY <1>all
    <3> HIDE DEF all, G
    <3> QED
      BY <1>8, <1>10, <1>15, <3>1
  <2> HIDE DEF all, G
  <2> QED
    BY ONLY <1>5, <2>1, <2>2, SumThrough
<1> HIDE DEF all, before, G
<1>18. /\ s \in [1..n -> all]
       /\ \A r \in all : \E i \in 1..n : s[i] = r
       /\ \A i, j \in 1..n : s[i] = s[j] => i = j
  BY <1>1, <1>12, <1>13, InOrderOK
<1> HIDE DEF n
<1>19. DOMAIN s = 1..n /\ Len(s) = n /\ \A i \in 1..n : s[i] \in all
  BY <1>14, <1>18
<1>20. s \in Bijection(1..n, all)
  BY <1>18 DEF Bijection, Injection, Surjection, IsInjective
<1>21. SumFunctionOnSet(h, 1..n) = SumFunctionOnSet(G, all)
  <2> DEFINE I == 1..n
  <2>1. IsFiniteSet(I) /\ s \in Bijection(I, all)
    <3>1. 1 \in Int /\ n \in Int
      BY <1>14
    <3> QED
      BY <1>20, <3>1, FS_Interval
  <2>2. \A i \in I : h[i] = G[s[i]] /\ h[i] \in Int
    <3>1. \A i \in 1..n : h[i] = s[i].value
      OBVIOUS
    <3> HIDE DEF h
    <3> QED
      BY <1>15, <1>19, <3>1
  <2> HIDE DEF I, h
  <2>3. SumFunctionOnSet(h, I) = SumFunctionOnSet(G, all)
    BY ONLY <2>1, <2>2, SumThrough
  <2> QED
    BY <2>3 DEF I
<1>22. SumOf(s) = SumFunctionOnSet(h, 1..n)
  <2>1. h = [i \in DOMAIN s |-> s[i].value] /\ DOMAIN h = 1..n
    BY <1>19
  <2> HIDE DEF h
  <2> QED
    BY <2>1, SumIs DEF SumOf
<1>23. Worths(s, n)
  <2> DEFINE Z == {s[i] : i \in 1..n}
  <2>1. s \in Seq(Z)
    <3>1. s = [i \in 1..n |-> s[i]]
      BY ONLY <1>18
    <3>2. \A i \in 1..n : s[i] \in Z
      OBVIOUS
    <3> HIDE DEF Z
    <3> QED
      BY ONLY <1>14, <3>1, <3>2
  <2> QED
    BY <1>14, <1>15, <1>19, <2>1 DEF Worths
<1> QED
  BY <1>14, <1>16, <1>17, <1>19, <1>21, <1>22, <1>23 DEF s, F, H, Total

\* A line of the legend is on the canvas.
LEMMA LegendLineOK ==
  ASSUME NEW n \in 1..MaxSegments, NEW i \in 1..n
  PROVE  LegendLine(n, i, 240) + 14 <= 240
<1>1. n \in 1..10
  BY HoldingsFiguresConstants
<1> DEFINE t == 240 \div 2 - (n * 22) \div 2
<1>2. t = 120 - 11 * n /\ t \in Int
  BY <1>1
<1> HIDE DEF t
<1>3. Max({12, t}) = IF 12 >= t THEN 12 ELSE t
  <2> DEFINE c == 12
  <2>1. c \in Int
    OBVIOUS
  <2> HIDE DEF c
  <2>2. Max({c, t}) = IF c >= t THEN c ELSE t
    BY <1>2, <2>1, OfTwo
  <2> QED
    BY <2>2 DEF c
<1>4. LegendLine(n, i, 240) = Max({12, t}) + (i - 1) * 22
  BY DEF LegendLine, t
<1> DEFINE m == Max({12, t})
<1> HIDE DEF m
<1>5. m = IF 12 >= t THEN 12 ELSE t
  BY <1>3 DEF m
<1>6. m + (i - 1) * 22 + 14 <= 240
  BY <1>1, <1>2, <1>5
<1> QED
  BY <1>4, <1>6 DEF m

\* What is drawn of some segments.
LEMMA RingOK ==
  ASSUME NEW s, NEW n, Worths(s, n), n >= 1
  PROVE  LET ring == prepared(s)
             total == SumOf(ring)
         IN  /\ total = SumOf(s) /\ Len(ring) <= MaxSegments
             /\ \A i \in DOMAIN ring : \A angle \in {Arc(ring, i).from, Arc(ring, i).to - 1} :
                 Arc(ring, i).from < Arc(ring, i).to => Tooltip(ring, angle) = ring[i]
             /\ Arc(ring, Len(ring)).to + 1 = total + Len(ring)
             /\ \A i \in DOMAIN ring : LegendLine(Len(ring), i, 240) + 14 <= 240
<1> DEFINE ring == prepared(s)
           m == Len(ring)
           total == SumOf(ring)
<1>1. Worths(ring, m) /\ m \in 1..MaxSegments /\ total = SumOf(s) /\ MaxSegments \in 2..10
  BY PreparedOK, HoldingsFiguresConstants
<1> HIDE DEF ring, m
<1>2. DOMAIN ring = 1..m /\ m \in Nat /\ m >= 1 /\ m <= MaxSegments
  BY <1>1, WholeSum
<1>3. ASSUME NEW i \in 1..m
      PROVE  /\ Arc(ring, i).from \in Nat /\ Arc(ring, i).to \in Nat
             /\ Arc(ring, i).to = SumOf(SubSeq(ring, 1, i)) + (i - 1)
  <2> DEFINE x == SumOf(SubSeq(ring, 1, i - 1))
             y == SumOf(SubSeq(ring, 1, i))
  <2>1. i - 1 \in 0..m /\ i \in 0..m
    BY <1>2
  <2>2. x \in Nat /\ y \in Nat /\ y = x + ring[i].value
    BY <1>1, <2>1, PrefixOK
  <2>3. ring[i].value \in Nat
    BY <1>1 DEF Worths
  <2>4. Arc(ring, i).from = x + (i - 1) /\ Arc(ring, i).to = x + (i - 1) + ring[i].value
    BY DEF Arc
  <2> HIDE DEF x, y
  <2>5. Arc(ring, i).to = y + (i - 1) /\ Arc(ring, i).from \in Nat /\ Arc(ring, i).to \in Nat
    BY <1>2, <2>2, <2>3, <2>4
  <2> QED
    BY <2>5 DEF y
<1>4. ASSUME NEW i \in 1..m, NEW angle \in {Arc(ring, i).from, Arc(ring, i).to - 1},
             Arc(ring, i).from < Arc(ring, i).to
      PROVE  Tooltip(ring, angle) = ring[i]
  <2>1. angle \in Int /\ Arc(ring, i).from <= angle /\ angle < Arc(ring, i).to
    BY <1>3, <1>4
  <2> QED
    BY <1>1, <2>1, PointedOK
<1>5. Arc(ring, m).to + 1 = total + m
  <2>1. m \in 1..m
    BY <1>2
  <2>2. SumOf(SubSeq(ring, 1, m)) = total
    BY <1>1, PrefixOK
  <2>3. Arc(ring, m).to = total + (m - 1) /\ Arc(ring, m).to \in Nat
    BY <1>3, <2>1, <2>2
  <2>4. total \in Nat
    <3>1. m \in 0..m
      BY <1>2
    <3> QED
      BY <1>1, <2>2, <3>1, PrefixOK
  <2> HIDE DEF total
  <2> QED
    BY <1>2, <2>3, <2>4
<1>6. \A i \in 1..m : LegendLine(m, i, 240) + 14 <= 240
  BY <1>1, LegendLineOK
<1> QED
  BY <1>1, <1>2, <1>4, <1>5, <1>6 DEF m, ring

\* The rings have the whole of what is held, and so has the middle of the first.
LEMMA RingsOK ==
  ASSUME HoldingsKnown
  PROVE  /\ RingsAreWhole
         /\ hv.held # {} => PortfolioCharts[1].centre = Total(WorthInRing)
<1>1. CASE hv.held = {}
  <2>1. PortfolioCharts = <<>>
    BY <1>1 DEF PortfolioCharts
  <2> QED
    BY <1>1, <2>1 DEF RingsAreWhole
<1>2. CASE hv.held # {}
  <2> DEFINE bySector == [l \in hv.held |-> <<l.sector>>]
             byCountry == [l \in hv.held |-> <<inferCountry(l.ticker)>>]
             byTicker == [l \in hv.held |-> <<l.ticker>>]
             vals == [l \in hv.held |-> ValueInUsd(l, hv.ringFx)]
             c == PortfolioCharts
  <2>1. c = <<[segments |-> Segments(bySector), centre |-> SumFunction(vals)],
              [segments |-> Segments(byCountry), centre |-> Len(Segments(byCountry))],
              [segments |-> Segments(byTicker), centre |-> Cardinality({l.ticker : l \in hv.held})]>>
    BY <1>2 DEF PortfolioCharts, SumOver
  <2>2. DOMAIN bySector = hv.held /\ DOMAIN byCountry = hv.held /\ DOMAIN byTicker = hv.held
    OBVIOUS
  <2>3. SumFunction(vals) = Total(WorthInRing)
    <3>1. DOMAIN vals = hv.held /\ vals = WorthInRing
      BY DEF WorthInRing
    <3> HIDE DEF vals
    <3> QED
      BY <3>1, SumIs DEF Total
  <2> HIDE DEF bySector, byCountry, byTicker, vals, c
  <2>4. ASSUME NEW k \in DOMAIN c
        PROVE  /\ Worths(c[k].segments, Len(c[k].segments)) /\ Len(c[k].segments) >= 1
               /\ SumOf(c[k].segments) = Total(WorthInRing)
    <3> DEFINE s1 == Segments(bySector)
               s2 == Segments(byCountry)
               s3 == Segments(byTicker)
    <3>1. /\ Worths(s1, Len(s1)) /\ Len(s1) >= 1 /\ SumOf(s1) = Total(WorthInRing)
          /\ Worths(s2, Len(s2)) /\ Len(s2) >= 1 /\ SumOf(s2) = Total(WorthInRing)
          /\ Worths(s3, Len(s3)) /\ Len(s3) >= 1 /\ SumOf(s3) = Total(WorthInRing)
      BY <1>2, <2>2, SegmentsOK
    <3>2. c[k].segments \in {s1, s2, s3}
      BY <2>1
    <3> HIDE DEF s1, s2, s3
    <3> QED
      BY <3>1, <3>2
  <2>5. c[1].centre = Total(WorthInRing)
    BY <2>1, <2>3
  <2>6. ASSUME NEW k \in DOMAIN c
        PROVE  LET ring == prepared(c[k].segments)
                   total == SumOf(ring)
               IN  /\ total = c[1].centre /\ Len(ring) <= MaxSegments
                   /\ \A i \in DOMAIN ring : \A angle \in {Arc(ring, i).from, Arc(ring, i).to - 1} :
                       Arc(ring, i).from < Arc(ring, i).to => Tooltip(ring, angle) = ring[i]
                   /\ Arc(ring, Len(ring)).to + 1 = total + Len(ring)
                   /\ \A i \in DOMAIN ring : LegendLine(Len(ring), i, 240) + 14 <= 240
    <3> DEFINE s == c[k].segments
               n == Len(s)
    <3>1. Worths(s, n) /\ n >= 1 /\ SumOf(s) = Total(WorthInRing)
      BY <2>4
    <3> HIDE DEF n
    <3>2. LET ring == prepared(s)
              total == SumOf(ring)
          IN  /\ total = SumOf(s) /\ Len(ring) <= MaxSegments
              /\ \A i \in DOMAIN ring : \A angle \in {Arc(ring, i).from, Arc(ring, i).to - 1} :
                  Arc(ring, i).from < Arc(ring, i).to => Tooltip(ring, angle) = ring[i]
              /\ Arc(ring, Len(ring)).to + 1 = total + Len(ring)
              /\ \A i \in DOMAIN ring : LegendLine(Len(ring), i, 240) + 14 <= 240
      <4> HIDE DEF s
      <4> QED
        BY <3>1, RingOK
    <3> QED
      BY <2>5, <3>1, <3>2
  <2> QED
    BY <2>5, <2>6 DEF RingsAreWhole, c
<1> QED
  BY <1>1, <1>2

\* The totals agree.
LEMMA TotalsOK ==
  ASSUME HoldingsKnown
  PROVE  TotalsAgree
<1>1. ASSUME hv.held # {}, hv.ringFx = hv.fx \/ NoYen
      PROVE  PortfolioHero.valUsd = PortfolioCharts[1].centre
  <2>1. \A l \in hv.held : WorthInRing[l] = Worth[l]
    <3> SUFFICES ASSUME NEW l \in hv.held PROVE ValueInUsd(l, hv.ringFx) = ValueInUsd(l, hv.fx)
      BY DEF WorthInRing, Worth
    <3>1. hv.fx \in Rates /\ hv.ringFx \in Rates
      BY HeldOK
    <3>2. CASE NoYen
      <4>1. inferCountry(l.ticker) = "US"
        BY <3>2 DEF NoYen
      <4> QED
        BY <3>1, <4>1, WorthOK
    <3> QED
      BY <1>1, <3>2
  <2>2. Total(WorthInRing) = Total(Worth)
    <3>1. IsFiniteSet(hv.held)
      BY HeldOK
    <3> DEFINE H == hv.held
    <3>2. \A l \in H : WorthInRing[l] = Worth[l]
      BY <2>1
    <3> HIDE DEF H
    <3>3. SumFunctionOnSet(WorthInRing, H) = SumFunctionOnSet(Worth, H)
      BY <3>1, <3>2, SumSame DEF H
    <3> QED
      BY <3>3 DEF H, Total
  <2> QED
    BY <1>1, <2>2, RingsOK, HeroOK
<1> DEFINE a == AccountBreakdown
           b == SectorBreakdown
           rows == HoldingsTable
           ofTheRate == {i \in DOMAIN rows : rows[i].fxPnl # <<>>}
<1>2. /\ PortfolioHero.valUsd = a.nisa.val + a.tokutei.val
      /\ PortfolioHero.pnlUsd = a.nisa.pnl + a.tokutei.pnl
      /\ PortfolioHero.count = a.nisa.count + a.tokutei.count
  BY HeroOK, AccountsOK
<1>3. PortfolioHero.valUsd = SumFunction([name \in DOMAIN b |-> b[name].val])
  BY HeroOK, SectorsOK
<1>4. PortfolioHero.valJpy = a.nisa.yen + a.tokutei.yen
  BY HeroOK, AccountsOK, ProfitOK
<1>5. PortfolioHero.pnlJpy = PortfolioHero.pnlUsd * hv.fx + PortfolioHero.fxPnl
  BY HeroOK, ProfitOK
<1>6. /\ PortfolioHero.fxPnl = SumFunction([i \in ofTheRate |-> rows[i].fxPnl[1]])
      /\ PortfolioHero.count = Len(rows)
  BY HeroOK, TableOK
<1> QED
  BY <1>1, <1>2, <1>3, <1>4, <1>5, <1>6 DEF TotalsAgree

\* The figures of the holdings page agree, whatever is held, quoted and typed.
LEMMA HoldingsOK == HoldingsKnown => HoldingsFiguresSound
BY TotalsOK, RingsOK, TooltipsOK, RowsOK DEF HoldingsFiguresSound

-----------------------------------------------------------------------------
(* The tabs of the holdings page.                                            *)

\* A sale has what it made, a purchase has nothing.
TradesKnown ==
    /\ HoldingsTabsTypeOK
    /\ htTrades \in Seq([action: {"BUY", "SELL"}, made: {<<>>} \cup {<<p>> : p \in Profit}])
    /\ \A i \in DOMAIN htTrades : htTrades[i].made # <<>> => htTrades[i].action = "SELL"

\* A quotient is a bound.
LEMMA QuotientOK ==
  ASSUME NEW c \in Int, NEW d \in Nat \ {0}, NEW k \in Int
  PROVE  c \div d \in Int /\ (c \div d >= k <=> c >= k * d)
<1> DEFINE q == c \div d
<1>1. q \in Int /\ q * d <= c /\ c < (q + 1) * d
  OBVIOUS
<1> HIDE DEF q
<1>2. q >= k => q * d >= k * d
  BY <1>1
<1>3. k >= q + 1 => k * d >= (q + 1) * d
  BY <1>1
<1>4. q >= k <=> c >= k * d
  <2>1. CASE q >= k
    BY ONLY <1>1, <1>2, <2>1, d \in Nat \ {0}, c \in Int, k \in Int
  <2>2. CASE ~(q >= k)
    <3>1. k >= q + 1
      BY <1>1, <2>2
    <3>2. k * d >= (q + 1) * d
      BY <1>3, <3>1
    <3> QED
      BY <1>1, <2>2, <3>2
  <2> QED
    BY <2>1, <2>2
<1> QED
  BY <1>1, <1>4 DEF q

\* A quotient that is rounded is off by a half at most.
LEMMA RoundedOK ==
  ASSUME NEW a \in Nat, NEW b \in Nat \ {0}
  PROVE  /\ Rounded(a, b) \in Int
         /\ Rounded(a, b) >= 0
         /\ Rounded(a, b) >= 1 <=> 2 * a >= b
         /\ Rounded(a, b) >= 100 <=> 2 * a >= 199 * b
         /\ a = 10000 * b => Rounded(a, b) >= 100
<1> DEFINE c == 2 * a + b
           d == 2 * b
           q == c \div d
<1>1. c \in Int /\ d \in Nat \ {0} /\ Rounded(a, b) = q
  BY DEF Rounded
<1>2. c >= 0 /\ (c >= d <=> 2 * a >= b) /\ (c >= 100 * d <=> 2 * a >= 199 * b)
      /\ (a = 10000 * b => c >= 100 * d)
  OBVIOUS
<1> HIDE DEF c, d
<1>3. q \in Int /\ (q >= 0 <=> c >= 0 * d) /\ (q >= 1 <=> c >= 1 * d) /\ (q >= 100 <=> c >= 100 * d)
  BY ONLY <1>1, QuotientOK
<1>4. 0 * d = 0 /\ 1 * d = d
  BY <1>1
<1> HIDE DEF q
<1> QED
  BY <1>1, <1>2, <1>3, <1>4

\* The trend of the assets.
LEMMA TrendOK == TradesKnown => TrendIsTrue
<1> SUFFICES ASSUME TradesKnown, ht.trend = "charts" PROVE TrendIsTrue
  BY DEF TrendIsTrue
<1>1. ASSUME NEW month \in 1..12 PROVE PortfolioHistory(activeMonths(ht.period, month)) # <<>>
  <2>1. activeMonths(ht.period, month) \in 1..120
    <3>1. ht.period \in {"1M", "3M", "6M", "YTD", "1Y", "ALL"}
      BY DEF TradesKnown, HoldingsTabsTypeOK, TREND_PERIODS
    <3> DEFINE period == ht.period
    <3> HIDE DEF period
    <3>2. activeMonths(period, month) \in 1..120
      BY <3>1 DEF activeMonths, period
    <3> QED
      BY <3>2 DEF period
  <2> QED
    BY <2>1 DEF PortfolioHistory
<1>2. ASSUME NEW p \in Snapshots
      PROVE  LET c == ChartPoint(p)
             IN  /\ c.assets >= c.market /\ c.pnl = c.market - c.cost
                 /\ c.rate # <<>> => (c.rate[1] < 0 <=> c.pnl < 0)
                 /\ c.rate = <<>> => c.pnl >= 0
  <2> DEFINE c == ChartPoint(p)
             m == p.market
             k == p.cost
             x == p.fx
             r == (100 * (m - k)) \div k
  <2>1. m \in {0, 3, 5} /\ k \in {0, 4} /\ p.cash \in {0, 1} /\ x \in {2, 3}
    BY DEF Snapshots
  <2>2. /\ c.assets = conv(m + p.cash, x) /\ c.market = conv(m, x) /\ c.cost = conv(k, x) /\ c.pnl = conv(m - k, x)
        /\ c.rate = IF k > 0 THEN <<r>> ELSE <<>>
    BY DEF ChartPoint
  <2>3. k > 0 => (r < 0 <=> m - k < 0)
    <3>1. k > 0 => k = 4
      BY <2>1
    <3> HIDE DEF m, k
    <3> QED
      BY <2>1, <3>1
  <2> HIDE DEF c, m, k, x, r
  <2>4. c.assets >= c.market /\ c.pnl = c.market - c.cost /\ (c.pnl < 0 <=> m - k < 0) /\ c.pnl \in Int
    BY <2>1, <2>2 DEF conv
  <2>5. c.rate # <<>> => (c.rate[1] < 0 <=> c.pnl < 0)
    BY <2>2, <2>3, <2>4
  <2>6. c.rate = <<>> => c.pnl >= 0
    <3>1. k > 0 => c.rate # <<>>
      BY <2>2
    <3>2. ~(k > 0) => ~(m - k < 0)
      BY <2>1
    <3> QED
      BY ONLY <2>4, <3>1, <3>2
  <2> QED
    BY <2>4, <2>5, <2>6 DEF c
<1> QED
  BY <1>1, <1>2 DEF TrendIsTrue

\* The statistics are those of the trades.
LEMMA StatsOK == TradesKnown => StatsAreTrue
<1> SUFFICES ASSUME TradesKnown, ht.tab = "stats" PROVE StatsAreTrue
  BY DEF StatsAreTrue
<1> DEFINE D == DOMAIN htTrades
           n == Len(htTrades)
           sells == {i \in D : htTrades[i].made # <<>>}
           sums == [i \in sells |-> htTrades[i].made[1]]
           won == {i \in sells : sums[i] > 0}
           lost == {i \in sells : sums[i] < 0}
           even == {i \in sells : sums[i] = 0}
           bought == {i \in D : htTrades[i].action = "BUY"}
           sold == {i \in D : htTrades[i].action = "SELL"}
           neg == [i \in lost |-> 0 - sums[i]]
           gain == [i \in won |-> sums[i]]
           profit == SumFunction(gain)
           lossAbs == SumFunction(neg)
           W == Cardinality(won)
           L == Cardinality(lost)
           stats == computeStats
           s == StatsTab
<1>1. /\ D = 1..n /\ n \in Nat
      /\ \A i \in D : htTrades[i].action \in {"BUY", "SELL"}
      /\ \A i \in D : htTrades[i].made = <<>> \/ \E p \in Profit : htTrades[i].made = <<p>>
      /\ \A i \in D : htTrades[i].made # <<>> => htTrades[i].action = "SELL"
  <2> DEFINE T == [action: {"BUY", "SELL"}, made: {<<>>} \cup {<<p>> : p \in Profit}]
  <2>1. \A t \in T : t.action \in {"BUY", "SELL"} /\ (t.made = <<>> \/ \E p \in Profit : t.made = <<p>>)
    OBVIOUS
  <2>2. htTrades \in Seq(T) /\ \A i \in D : htTrades[i].made # <<>> => htTrades[i].action = "SELL"
    BY DEF TradesKnown
  <2> HIDE DEF T
  <2>3. n \in Nat /\ D = 1..n /\ \A i \in D : htTrades[i] \in T
    BY <2>2
  <2> QED
    BY <2>1, <2>2, <2>3
<1>2. ASSUME NEW i \in sells PROVE sums[i] \in Int
  <2>0. i \in D /\ htTrades[i].made # <<>>
    OBVIOUS
  <2>1. PICK p \in Profit : htTrades[i].made = <<p>>
    BY <1>1, <2>0, Zenon
  <2> QED
    BY <2>1, HoldingsTabsConstants
<1>3. /\ stats.total = n /\ stats.made = SumFunction(sums) /\ stats.buy = Cardinality(bought)
      /\ stats.sell = Cardinality(sold) /\ stats.win = W /\ stats.loss = L /\ stats.lossAbs = lossAbs
      /\ stats.win_rate = IF won \cup lost = {} THEN 0 ELSE Rounded(10000 * W, W + L)
      /\ stats.profit_factor = IF lossAbs = 0 THEN 0 ELSE Rounded(100 * profit, lossAbs)
  BY DEF computeStats
<1>4. DOMAIN sums = sells /\ DOMAIN neg = lost /\ DOMAIN gain = won
  OBVIOUS
<1>5. sells \subseteq sold /\ sold \subseteq D /\ bought \subseteq D /\ sold \cup bought = D /\ sold \cap bought = {}
  <2>1. \A i \in D : htTrades[i].action = "BUY" \/ htTrades[i].action = "SELL"
    BY <1>1, Zenon
  <2>2. sells \subseteq sold
    BY <1>1, Zenon
  <2>3. sold \subseteq D /\ bought \subseteq D /\ sold \cap bought = {}
    OBVIOUS
  <2>4. sold \cup bought = D
    BY <2>1
  <2> QED
    BY <2>2, <2>3, <2>4
<1> HIDE DEF sells, sold, bought
<1>6. /\ won \subseteq sells /\ lost \subseteq sells /\ even \subseteq sells
      /\ won \cap lost = {} /\ sells = won \cup lost \cup even /\ (won \cup lost) \cap even = {}
  BY <1>2
<1>7. /\ \A i \in won : gain[i] = sums[i] /\ sums[i] \in Int /\ gain[i] >= 0
      /\ \A i \in lost : neg[i] = sums[i] * (-1) /\ sums[i] \in Int /\ neg[i] \in Int /\ neg[i] >= 1
      /\ \A i \in even : sums[i] = sums[i] * 0 /\ sums[i] \in Int
  BY <1>2
<1> HIDE DEF won, lost, even, sums, neg, gain, D, n
<1>8. /\ IsFiniteSet(won) /\ IsFiniteSet(lost) /\ IsFiniteSet(even) /\ IsFiniteSet(sold) /\ IsFiniteSet(bought)
      /\ IsFiniteSet(D) /\ Cardinality(D) = n
  <2>1. IsFiniteSet(D) /\ Cardinality(D) = n
    <3>1. n \in Int /\ 1 \in Int /\ (1 > n => n = 0) /\ n - 1 + 1 = n
      BY <1>1
    <3> QED
      BY <1>1, <3>1, FS_Interval
  <2>2. sells \subseteq D /\ won \subseteq D /\ lost \subseteq D /\ even \subseteq D
    BY <1>5, <1>6
  <2> QED
    BY <1>5, <2>1, <2>2, FS_Subset
<1>9. W \in Nat /\ L \in Nat /\ (W = 0 <=> won = {}) /\ (L = 0 <=> lost = {})
  BY <1>8, FS_CardinalityType, FS_EmptySet
<1>10. Cardinality(bought) + Cardinality(sold) = n /\ Cardinality(sold) \in Nat /\ Cardinality(bought) \in Nat
  <2>1. Cardinality(sold \cup bought) = Cardinality(sold) + Cardinality(bought) - Cardinality(sold \cap bought)
    BY <1>8, FS_Union
  <2>2. Cardinality(sold) \in Nat /\ Cardinality(bought) \in Nat /\ Cardinality(sold \cap bought) = 0
    BY <1>5, <1>8, FS_CardinalityType, FS_EmptySet
  <2>3. Cardinality(sold \cup bought) = n
    BY <1>5, <1>8
  <2> QED
    BY ONLY <2>1, <2>2, <2>3
<1>11. W + L <= Cardinality(sold)
  <2>1. Cardinality(won \cup lost) = W + L - Cardinality(won \cap lost)
    BY <1>8, FS_Union
  <2>2. Cardinality(won \cap lost) = 0
    BY <1>6, FS_EmptySet
  <2>3. Cardinality(won \cup lost) <= Cardinality(sold)
    <3>1. won \cup lost \subseteq sold
      BY <1>5, <1>6
    <3> QED
      BY <1>8, <3>1, FS_Subset
  <2> QED
    BY <1>9, <2>1, <2>2, <2>3
<1>12. profit \in Int /\ profit >= 0 /\ lossAbs \in Int /\ lossAbs >= 0 /\ (L > 0 => lossAbs >= 1)
  <2>1. profit = SumFunctionOnSet(gain, won) /\ lossAbs = SumFunctionOnSet(neg, lost)
    BY <1>4, SumIs
  <2>2. SumFunctionOnSet(gain, won) \in Int /\ SumFunctionOnSet(gain, won) >= 0
    BY <1>7, <1>8, SumType
  <2>3. SumFunctionOnSet(neg, lost) \in Int /\ SumFunctionOnSet(neg, lost) >= 0
    BY <1>7, <1>8, SumType
  <2>4. ASSUME NEW x \in lost PROVE SumFunctionOnSet(neg, lost) >= 1
    <3> DEFINE rest == lost \ {x}
    <3>1. SumFunctionOnSet(neg, lost) = neg[x] + SumFunctionOnSet(neg, rest)
      BY <1>7, <1>8, SumWithout
    <3>2. IsFiniteSet(rest) /\ \A y \in rest : neg[y] \in Int /\ neg[y] >= 0
      BY <1>7, <1>8, FS_Subset
    <3> HIDE DEF rest
    <3>3. SumFunctionOnSet(neg, rest) \in Int /\ SumFunctionOnSet(neg, rest) >= 0
      BY <3>2, SumType
    <3> QED
      BY <1>7, <3>1, <3>3
  <2>5. L > 0 => \E x \in lost : TRUE
    BY <1>9
  <2> QED
    BY <2>1, <2>2, <2>3, <2>4, <2>5
<1>13. SumFunction(sums) = profit - lossAbs
  <2> DEFINE S(T) == SumFunctionOnSet(sums, T)
             T == won \cup lost
  <2>1. IsFiniteSet(T) /\ T \cap even = {} /\ \A x \in T \cup even : sums[x] \in Int
    BY <1>6, <1>7, <1>8, FS_Union
  <2>2. S(T) = S(won) + S(lost)
    <3>1. \A x \in won \cup lost : sums[x] \in Int
      BY <1>7
    <3> QED
      BY <1>6, <1>8, <3>1, SumSplit
  <2> HIDE DEF T
  <2>3. S(T \cup even) = S(T) + S(even)
    BY <1>8, <2>1, SumSplit
  <2>4. S(even) = S(even) * 0
    <3>1. IsFiniteSet(even) /\ 0 \in Int /\ \A x \in even : sums[x] \in Int /\ sums[x] = sums[x] * 0
      BY <1>7, <1>8
    <3> QED
      BY ONLY <3>1, SumTimes
  <2>5. SumFunctionOnSet(neg, lost) = S(lost) * (-1)
    BY <1>7, <1>8, SumTimes
  <2>6. S(won) = SumFunctionOnSet(gain, won)
    BY <1>7, <1>8, SumSame
  <2>7. S(won) \in Int /\ S(lost) \in Int /\ S(even) \in Int
    BY <1>7, <1>8, SumType
  <2>8. sells = T \cup even /\ SumFunction(sums) = S(sells)
    BY <1>4, <1>6, SumIs DEF T
  <2>9. profit = SumFunctionOnSet(gain, won) /\ lossAbs = SumFunctionOnSet(neg, lost)
    BY <1>4, SumIs
  <2> HIDE DEF S
  <2>10. S(sells) = S(won) + S(lost) + S(even)
    BY <2>2, <2>3, <2>8
  <2> QED
    BY <2>4, <2>5, <2>6, <2>7, <2>8, <2>9, <2>10
<1>14. /\ s.rate = stats.win_rate /\ s.ring = Min({stats.win_rate, 100})
       /\ s.total = (IF stats.made >= 0 THEN "green" ELSE "red")
       /\ s.factor = IF stats.profit_factor >= 200 THEN "green"
                     ELSE IF stats.profit_factor >= 100 THEN "amber" ELSE "red"
       /\ s.won = stats.win /\ s.lost = stats.loss /\ s.decided = stats.sell /\ s.buy = stats.buy
       /\ s.count = stats.total
  BY DEF StatsTab
<1> HIDE DEF s, stats, profit, lossAbs, W, L
<1> DEFINE rate == stats.win_rate
           factor == stats.profit_factor
           total == stats.made
<1>15. total = profit - lossAbs /\ total \in Int
  BY <1>3, <1>12, <1>13
<1>16. L > 0 => factor \in Int /\ (factor >= 100 <=> 200 * profit >= 199 * lossAbs)
  <2> SUFFICES ASSUME L > 0 PROVE factor \in Int /\ (factor >= 100 <=> 200 * profit >= 199 * lossAbs)
    OBVIOUS
  <2>1. 100 * profit \in Nat /\ lossAbs \in Nat \ {0} /\ 2 * (100 * profit) = 200 * profit
    BY <1>12
  <2>2. factor = Rounded(100 * profit, lossAbs)
    BY <1>3, <2>1
  <2> DEFINE a == 100 * profit
  <2>3. a \in Nat /\ 2 * a = 200 * profit
    BY <2>1
  <2> HIDE DEF factor, a
  <2>4. factor = Rounded(a, lossAbs)
    BY <2>2 DEF a
  <2>5. factor \in Int /\ (factor >= 100 <=> 2 * a >= 199 * lossAbs)
    BY ONLY <2>1, <2>3, <2>4, RoundedOK
  <2> QED
    BY <2>3, <2>5
<1>17. /\ rate \in Int /\ rate >= 0
       /\ rate = 0 <=> W = 0 \/ 20000 * W < W + L
       /\ W > 0 /\ L = 0 => rate >= 100
  <2>1. CASE won \cup lost = {}
    BY <1>3, <1>9, <2>1
  <2>2. CASE won \cup lost # {}
    <3>1. W + L \in Nat \ {0} /\ 10000 * W \in Nat
      BY <1>9, <2>2
    <3>2. rate = Rounded(10000 * W, W + L)
      BY <1>3, <2>2
    <3> DEFINE a == 10000 * W
               b == W + L
    <3> HIDE DEF rate
    <3>3. /\ rate \in Int /\ rate >= 0
          /\ rate >= 1 <=> 2 * a >= b
          /\ a = 10000 * b => rate >= 100
      <4>1. a \in Nat /\ b \in Nat \ {0} /\ rate = Rounded(a, b)
        BY <3>1, <3>2
      <4> HIDE DEF a, b
      <4> QED
        BY ONLY <4>1, RoundedOK
    <3> QED
      BY <1>9, <3>1, <3>3
  <2> QED
    BY <2>1, <2>2
<1>18. s.ring = IF rate <= 100 THEN rate ELSE 100
  <2> HIDE DEF rate
  <2>1. Min({rate, 100}) = IF rate <= 100 THEN rate ELSE 100
    BY <1>17, OfTwo
  <2> QED
    BY <1>14, <2>1 DEF rate
<1> HIDE DEF rate, factor, total
<1>19. s.count = s.buy + s.decided /\ s.won + s.lost <= s.decided
  BY <1>3, <1>10, <1>11, <1>14
<1>20. s.lost > 0 /\ s.factor = "red" => s.total = "red"
  <2> SUFFICES ASSUME L > 0, s.factor = "red" PROVE s.total = "red"
    BY <1>3, <1>14
  <2>1. ~(factor >= 100)
    BY <1>14, <1>16 DEF factor
  <2>2. profit < lossAbs
    BY <1>12, <1>16, <2>1
  <2>3. ~(total >= 0)
    BY <1>12, <1>15, <2>2
  <2> QED
    BY <1>14, <2>3 DEF total
<1>21. s.lost > 0 /\ s.total = "red" => s.factor = "red" \/ 200 * (0 - total) <= lossAbs
  <2> SUFFICES ASSUME L > 0, s.factor # "red" PROVE 200 * (0 - total) <= lossAbs
    BY <1>3, <1>14
  <2>1. factor >= 100
    BY <1>14, <1>16 DEF factor
  <2> QED
    BY <1>12, <1>15, <1>16, <2>1
<1>22. /\ s.ring = 0 <=> s.won = 0 \/ 20000 * s.won < s.won + s.lost
       /\ s.won > 0 /\ s.lost = 0 => s.ring = 100
  BY <1>3, <1>14, <1>17, <1>18
<1>23. {"/api/trades", "/api/trades/stats"} \subseteq Reads
  BY DEF Reads
<1>24. stats.lossAbs = lossAbs
  BY <1>3
<1> QED
  BY <1>19, <1>20, <1>21, <1>22, <1>23, <1>24 DEF StatsAreTrue, s, stats, total

\* The tabs of the holdings page agree with the trades they are of.
LEMMA TabsOK == TradesKnown => HoldingsTabsSound
BY StatsOK, TrendOK DEF HoldingsTabsSound

\* The two totals of the cash balances.
LEMMA CashOK == CashTypeOK => CashTotalsAgree
<1> SUFFICES ASSUME CashTypeOK PROVE CashTotalsAgree
  OBVIOUS
<1> DEFINE D == DOMAIN cs.list
           yen == [i \in D |-> IF i \in InDollars THEN cs.list[i] * CashRate ELSE cs.list[i]]
           usd == [i \in D |-> IF i \in InDollars THEN cs.list[i] ELSE cs.list[i] \div CashRate]
<1>1. CashRate \in Nat \ {0} /\ IsFiniteSet(Balance) /\ \A a \in CashAmount : a \in Nat /\ a % CashRate = 0
  BY CashConstants
<1>2. PICK ids \in SUBSET Balance : cs.list \in [ids -> CashAmount]
  BY DEF CashTypeOK, CashState, CashList
<1>3. IsFiniteSet(D) /\ \A i \in D : cs.list[i] \in Nat /\ cs.list[i] % CashRate = 0
  BY <1>1, <1>2, FS_Subset
<1>4. ASSUME NEW a \in Nat, a % CashRate = 0 PROVE a \div CashRate \in Nat /\ (a \div CashRate) * CashRate = a
  BY <1>1, <1>4
<1>5. ASSUME NEW i \in D PROVE usd[i] \in Int /\ yen[i] = usd[i] * CashRate
  <2>1. cs.list[i] \in Nat /\ cs.list[i] % CashRate = 0
    BY <1>3
  <2>2. CASE i \in InDollars
    BY <2>1, <2>2
  <2>3. CASE i \notin InDollars
    <3>1. yen[i] = cs.list[i] /\ usd[i] = cs.list[i] \div CashRate
      BY <2>3
    <3> HIDE DEF yen, usd
    <3> QED
      BY <1>4, <2>1, <3>1
  <2> QED
    BY <2>2, <2>3
<1>6. DOMAIN yen = D /\ DOMAIN usd = D
  OBVIOUS
<1>7. totalJpy = SumFunction(yen) /\ totalUsd = SumFunction(usd)
  BY DEF totalJpy, totalUsd
<1> HIDE DEF D, yen, usd
<1>8. SumFunctionOnSet(yen, D) = SumFunctionOnSet(usd, D) * CashRate
  BY <1>1, <1>3, <1>5, SumTimes
<1> QED
  BY <1>6, <1>7, <1>8, SumIs DEF CashTotalsAgree

\* The cards of the console's users tab.
LEMMA CardsCountOK == ConsoleTypeOK => CardsAddUp
<1> SUFFICES ASSUME ConsoleTypeOK PROVE CardsAddUp
  OBVIOUS
<1> DEFINE U == Lines("users")
           plan(u) == acPage.read.users[u].plan
           of(p) == {u \in U : plan(u) = p}
           three == {"pro", "pro_trial", "free"}
           F == [p \in PLANS |-> planCounts(p)]
           one == [u \in U |-> 1]
           P == [p \in PLANS |-> of(p)]
<1>1. U \subseteq AdminUser /\ IsFiniteSet(U)
  <2>1. U \subseteq AdminUser
    BY DEF Lines, RowsOf
  <2> QED
    BY <2>1, ConsoleAssumption, FS_Subset
<1>2. \A u \in U : plan(u) \in PLANS
  <2>1. U # {} => acPage.read["users"] \in [AdminUser -> UserRow]
    BY ConsoleAssumption DEF ConsoleTypeOK, Contents, Lines, isLoading, Tables
  <2> QED
    BY <1>1, <2>1 DEF UserRow
<1>3. \A p : planCounts(p) = Cardinality(of(p))
  BY DEF planCounts
<1> HIDE DEF U
<1>4. ASSUME NEW p PROVE IsFiniteSet(of(p)) /\ planCounts(p) \in Nat /\ planCounts(p) = SumFunctionOnSet(one, of(p))
  <2>1. of(p) \subseteq U /\ \A u \in of(p) : one[u] = 1
    OBVIOUS
  <2>2. planCounts(p) = Cardinality(of(p))
    BY <1>3
  <2> HIDE DEF of, one
  <2>3. IsFiniteSet(of(p))
    BY <1>1, <2>1, FS_Subset
  <2> QED
    BY <2>1, <2>2, <2>3, SumOnes, FS_CardinalityType
<1>5. IsFiniteSet(PLANS) /\ PLANS = three \cup {"demo"} /\ "demo" \notin three /\ IsFiniteSet(three)
  <2>1. PLANS = three \cup {"demo"} /\ "demo" \notin three
    BY DEF PLANS
  <2>2. three = ({"pro"} \cup {"pro_trial"}) \cup {"free"}
    OBVIOUS
  <2>3. IsFiniteSet(three)
    <3>1. IsFiniteSet({"pro"})
      BY FS_Singleton
    <3>2. IsFiniteSet({"pro"} \cup {"pro_trial"})
      BY <3>1, FS_AddElement
    <3>3. IsFiniteSet(({"pro"} \cup {"pro_trial"}) \cup {"free"})
      BY <3>2, FS_AddElement
    <3> QED
      BY <2>2, <3>3
  <2> QED
    BY <2>1, <2>3, FS_AddElement
<1>6. SumFunctionOnSet(F, PLANS) = Cardinality(U)
  <2>1. /\ P \in [PLANS -> SUBSET U] /\ (\A u \in U : \E p \in PLANS : u \in P[p])
        /\ \A p, q \in PLANS : p # q => P[p] \cap P[q] = {}
    BY <1>2
  <2>2. \A p \in PLANS : F[p] = SumFunctionOnSet(one, P[p])
    BY <1>4
  <2>3. \A u \in U : one[u] = 1 /\ one[u] \in Int
    OBVIOUS
  <2> HIDE DEF P, F, one
  <2>4. SumFunctionOnSet(F, PLANS) = SumFunctionOnSet(one, U)
    <3>1. \A u \in U : one[u] \in Int
      BY <2>3
    <3> QED
      BY ONLY <1>1, <1>5, <2>1, <2>2, <3>1, SumByParts
  <2> QED
    BY <1>1, <2>3, <2>4, SumOnes
<1>7. \A p \in three \cup {"demo"} : F[p] = planCounts(p) /\ F[p] \in Int
  <2>1. \A p \in PLANS : F[p] = planCounts(p)
    OBVIOUS
  <2> HIDE DEF F
  <2>2. ASSUME NEW p \in PLANS PROVE F[p] \in Int
    <3>1. planCounts(p) \in Nat
      BY <1>4, Zenon
    <3> QED
      BY <2>1, <3>1
  <2> QED
    BY <1>5, <2>1, <2>2
<1>8. SumFunctionOnSet(F, three \cup {"demo"}) = planCounts("demo") + SumFunctionOnSet(F, three)
  <2> HIDE DEF F, three
  <2> QED
    BY <1>5, <1>7, SumWith
<1> DEFINE C == Cards.plan
<1>9. DOMAIN C = three /\ \A p \in three : C[p] = planCounts(p)
  BY DEF Cards
<1>10. Cards.total = Cardinality(U)
  BY DEF Cards, U
<1> HIDE DEF F, three, C
<1>11. SumFunction(C) = SumFunctionOnSet(F, three)
  <2>1. \A p \in three : C[p] = F[p]
    BY <1>7, <1>9
  <2> QED
    BY <1>5, <1>9, <2>1, SumIs, SumSame
<1>12. \A u \in U : u \in filteredUsers(AdminUser, UserLine(u).plan)
  BY <1>1 DEF filteredUsers, UserLine, U
<1> QED
  BY <1>5, <1>6, <1>8, <1>10, <1>11, <1>12 DEF CardsAddUp, U, C

=============================================================================
