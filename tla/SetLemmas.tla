------------------------------ MODULE SetLemmas ------------------------------
(***************************************************************************)
(* Facts about finite sets of numbers, and about sums over finite sets: of  *)
(* a set's least and last number, and of MapThenSumSet.  The library's      *)
(* induction theorems take an operator; here an induction is a least        *)
(* counterexample, which exists because the numbers are well-founded.       *)
(***************************************************************************)
EXTENDS Integers, FiniteSets, FiniteSetsExt, FiniteSetTheorems, WellFoundedInduction, TLAPS

\* Any set of naturals that is not empty has a least.
LEMMA LeastNat ==
  ASSUME NEW T \in SUBSET Nat, T # {}
  PROVE  \E n \in T : \A m \in T : n <= m
<1> DEFINE R == OpToRel(<, Nat)
<1>1. \A x, y \in Nat : << x, y >> \in R <=> x < y
  BY DEF OpToRel
<1>2. IsWellFoundedOn(R, Nat)
  BY NatLessThanWellFounded
<1> HIDE DEF R
<1>3. PICK x \in T : \A y \in T : ~(<< y, x >> \in R)
  BY <1>2, WFMin
<1>5. \A y \in T : ~(y < x)
  BY <1>1, <1>3
<1>7. QED
  BY <1>5

\* The least of them is the one Min chooses.
LEMMA MinIs ==
  ASSUME NEW T \in SUBSET Nat, T # {}
  PROVE  Min(T) \in T /\ \A x \in T : Min(T) <= x
<1>1. PICK n \in T : \A m \in T : n <= m
  BY LeastNat
<1>2. QED
  BY <1>1 DEF Min

\* Any set of naturals up to some number has a greatest.
LEMMA MaxIs ==
  ASSUME NEW n \in Nat, NEW T \in SUBSET (0..n), T # {}
  PROVE  Max(T) \in T /\ \A x \in T : x <= Max(T)
<1> DEFINE Mirrored == {n - x : x \in T}
<1>1. Mirrored \in SUBSET Nat /\ Mirrored # {}
  OBVIOUS
<1>2. PICK m \in Mirrored : \A k \in Mirrored : m <= k
  <2> HIDE DEF Mirrored
  <2>1. QED
    BY <1>1, LeastNat
<1>3. PICK y \in T : m = n - y
  BY <1>2
<1>4. \A x \in T : x <= y
  <2>1. ASSUME NEW x \in T PROVE x <= y
    <3>1. n - x \in Mirrored /\ x \in Nat /\ y \in Nat
      OBVIOUS
    <3>2. m <= n - x
      BY <1>2, <3>1
    <3>3. QED
      BY <1>3, <3>1, <3>2
  <2>2. QED
    BY <2>1
<1>5. \A x \in T : y >= x
  BY <1>4
<1>6. QED
  BY <1>4, <1>5 DEF Max

\* Of two numbers.
LEMMA MinMaxOfTwo ==
  ASSUME NEW a \in Int, NEW b \in Int
  PROVE  /\ Max({a, b}) \in {a, b} /\ a <= Max({a, b}) /\ b <= Max({a, b})
         /\ Min({a, b}) \in {a, b} /\ Min({a, b}) <= a /\ Min({a, b}) <= b
<1>1. \E x \in {a, b} : \A y \in {a, b} : x >= y
  OBVIOUS
<1>2. \E x \in {a, b} : \A y \in {a, b} : x <= y
  OBVIOUS
<1>3. QED
  BY <1>1, <1>2 DEF Max, Min

-----------------------------------------------------------------------------
(***************************************************************************)
(* Sums of a function's values over a finite set.                           *)
(***************************************************************************)

\* The sum of f's values over S.
SumIn(f, S) == MapThenSumSet(LAMBDA p : f[p], S)

\* The element a sum takes out first.
FirstIn(s) == CHOOSE x \in s : TRUE
\* g adds up f over each subset of S, the first element first.
Adds(g, f, S) == g = [s \in SUBSET S |-> IF s = {} THEN 0 ELSE f[FirstIn(s)] + g[s \ {FirstIn(s)}]]

\* The library sums by a function it chooses.
LEMMA SumIsChosen == ASSUME NEW f, NEW S PROVE SumIn(f, S) = (CHOOSE g : Adds(g, f, S))[S]
BY DEF SumIn, MapThenSumSet, MapThenFoldSet, Adds, FirstIn

\* Two that add up the same function agree on the subsets they share.
LEMMA AddsAgree ==
  ASSUME NEW f, NEW S, NEW R \in SUBSET S, IsFiniteSet(S), NEW g, NEW h, Adds(g, f, S), Adds(h, f, R)
  PROVE  \A s \in SUBSET R : g[s] = h[s]
<1> DEFINE Bad == {n \in Nat : \E s \in SUBSET R : Cardinality(s) = n /\ g[s] # h[s]}
<1>1. SUFFICES Bad = {}
  <2>1. \A s \in SUBSET R : Cardinality(s) \in Nat
    BY FS_Subset, FS_CardinalityType
  <2>2. QED
    BY <2>1
<1>2. SUFFICES ASSUME Bad # {} PROVE FALSE
  OBVIOUS
<1>3. PICK n \in Bad : \A m \in Bad : n <= m
  BY <1>2, LeastNat
<1>4. PICK s \in SUBSET R : Cardinality(s) = n /\ g[s] # h[s]
  BY <1>3
<1>5. s # {}
  BY <1>4 DEF Adds
<1>6. FirstIn(s) \in s
  BY <1>5 DEF FirstIn
<1> DEFINE rest == s \ {FirstIn(s)}
<1>7. rest \in SUBSET R /\ Cardinality(rest) = n - 1 /\ Cardinality(rest) \in Nat
  BY <1>4, <1>6, FS_Subset, FS_RemoveElement, FS_CardinalityType
<1>8. g[rest] = h[rest]
  <2>1. Cardinality(rest) \notin Bad
    <3> HIDE DEF Bad, rest
    <3>1. n \in Nat
      BY <1>3 DEF Bad
    <3>2. QED
      BY <1>3, <1>7, <3>1
  <2>2. QED
    BY <2>1, <1>7
<1>9. g[s] = f[FirstIn(s)] + g[rest] /\ h[s] = f[FirstIn(s)] + h[rest]
  <2>1. s \in SUBSET S
    BY <1>4
  <2>2. QED
    BY <2>1, <1>4, <1>5 DEF Adds
<1>10. QED
  BY <1>4, <1>8, <1>9

\* Of any finite set there is one that adds up its subsets.
LEMMA AddsExists ==
  ASSUME NEW f, NEW S, IsFiniteSet(S)
  PROVE  \E g : Adds(g, f, S)
<1> DEFINE Small(n) == {s \in SUBSET S : Cardinality(s) <= n}
           Has(n) == \E g : g = [s \in Small(n) |-> IF s = {} THEN 0 ELSE f[FirstIn(s)] + g[s \ {FirstIn(s)}]]
           Bad == {n \in Nat : ~Has(n)}
<1>1. \A s \in SUBSET S : IsFiniteSet(s) /\ Cardinality(s) \in Nat /\ Cardinality(s) <= Cardinality(S)
  BY FS_Subset, FS_CardinalityType
<1>2. ASSUME Bad # {} PROVE FALSE
  <2>1. PICK n \in Bad : \A m \in Bad : n <= m
    BY <1>2, LeastNat
  <2>2. n # 0
    <3> DEFINE g == [s \in Small(0) |-> 0]
    <3>1. Small(0) = {{}}
      BY <1>1, FS_EmptySet
    <3>2. g = [s \in Small(0) |-> IF s = {} THEN 0 ELSE f[FirstIn(s)] + g[s \ {FirstIn(s)}]]
      BY <3>1
    <3>3. Has(0)
      BY <3>2
    <3>4. QED
      BY <3>3, ZenonT(60)
  <2>3. Has(n - 1)
    <3> HIDE DEF Has
    <3>1. n \in Nat /\ n - 1 \in Nat
      BY <2>1, <2>2
    <3>2. n - 1 \notin Bad
      <4> HIDE DEF Bad
      <4>1. QED
        BY <2>1, <3>1
    <3>3. QED
      BY <3>1, <3>2
  <2>4. PICK g : g = [s \in Small(n - 1) |-> IF s = {} THEN 0 ELSE f[FirstIn(s)] + g[s \ {FirstIn(s)}]]
    BY <2>3
  <2> DEFINE h == [s \in Small(n) |-> IF s = {} THEN 0 ELSE f[FirstIn(s)] + g[s \ {FirstIn(s)}]]
  <2>5. \A s \in Small(n) : s # {} => s \ {FirstIn(s)} \in Small(n - 1)
    <3>1. ASSUME NEW s \in Small(n), s # {} PROVE s \ {FirstIn(s)} \in Small(n - 1)
      <4>1. FirstIn(s) \in s
        BY <3>1 DEF FirstIn
      <4>2. Cardinality(s \ {FirstIn(s)}) = Cardinality(s) - 1
        BY <1>1, <4>1, FS_RemoveElement
      <4>3. QED
        BY <1>1, <4>2
    <3>2. QED
      BY <3>1
  <2>6. \A s \in Small(n - 1) : s \in Small(n) /\ h[s] = g[s]
    <3>1. Small(n - 1) \subseteq Small(n)
      BY <1>1
    <3>2. \A s \in Small(n - 1) : g[s] = IF s = {} THEN 0 ELSE f[FirstIn(s)] + g[s \ {FirstIn(s)}]
      <4> HIDE DEF Small
      <4>1. QED
        BY <2>4
    <3>3. QED
      BY <3>1, <3>2
  <2>7. h = [s \in Small(n) |-> IF s = {} THEN 0 ELSE f[FirstIn(s)] + h[s \ {FirstIn(s)}]]
    <3> HIDE DEF Small
    <3>1. \A s \in Small(n) : h[s] = IF s = {} THEN 0 ELSE f[FirstIn(s)] + h[s \ {FirstIn(s)}]
      BY <2>5, <2>6
    <3>2. h = [s \in Small(n) |-> h[s]]
      OBVIOUS
    <3>3. QED
      BY <3>1, <3>2
  <2>8. Has(n)
    BY <2>7
  <2>9. QED
    BY <2>1, <2>8
<1>3. Has(Cardinality(S))
  BY <1>1, <1>2
<1>4. Small(Cardinality(S)) = SUBSET S
  BY <1>1
<1>5. QED
  BY <1>3, <1>4 DEF Adds

\* What adds up a set's subsets gives the sum over each of them.
LEMMA SumOfPart ==
  ASSUME NEW f, NEW S, IsFiniteSet(S), NEW g, Adds(g, f, S), NEW R \in SUBSET S
  PROVE  SumIn(f, R) = g[R]
<1>1. \E h : Adds(h, f, R)
  BY FS_Subset, AddsExists
<1>2. Adds(CHOOSE h : Adds(h, f, R), f, R)
  BY <1>1
<1>3. PICK h : h = (CHOOSE k : Adds(k, f, R)) /\ Adds(h, f, R)
  BY <1>2
<1>4. \A s \in SUBSET R : g[s] = h[s]
  BY <1>3, AddsAgree
<1>5. QED
  BY <1>3, <1>4, SumIsChosen

\* The sum over a set is that over the rest of it, and the first.
LEMMA SumFirst ==
  ASSUME NEW f, NEW S, IsFiniteSet(S)
  PROVE  /\ S = {} => SumIn(f, S) = 0
         /\ S # {} => SumIn(f, S) = f[FirstIn(S)] + SumIn(f, S \ {FirstIn(S)})
<1>1. PICK g : Adds(g, f, S)
  BY AddsExists
<1>2. \A R \in SUBSET S : SumIn(f, R) = g[R]
  BY <1>1, SumOfPart
<1>3. g[S] = IF S = {} THEN 0 ELSE f[FirstIn(S)] + g[S \ {FirstIn(S)}]
  BY <1>1 DEF Adds
<1>4. S \in SUBSET S /\ S \ {FirstIn(S)} \in SUBSET S
  OBVIOUS
<1>5. QED
  BY <1>2, <1>3, <1>4

\* A sum of integers is one.
LEMMA SumType ==
  ASSUME NEW S, IsFiniteSet(S), NEW f, \A x \in S : f[x] \in Int
  PROVE  SumIn(f, S) \in Int
<1> DEFINE Bad == {n \in Nat : \E s \in SUBSET S : Cardinality(s) = n /\ SumIn(f, s) \notin Int}
<1>1. \A s \in SUBSET S : IsFiniteSet(s) /\ Cardinality(s) \in Nat
  BY FS_Subset, FS_CardinalityType
<1>2. SUFFICES ASSUME Bad # {} PROVE FALSE
  BY <1>1
<1>3. PICK n \in Bad : \A m \in Bad : n <= m
  BY <1>2, LeastNat
<1>4. PICK s \in SUBSET S : Cardinality(s) = n /\ SumIn(f, s) \notin Int
  BY <1>3
<1>5. s # {} /\ SumIn(f, s) = f[FirstIn(s)] + SumIn(f, s \ {FirstIn(s)})
  <2>1. IsFiniteSet(s)
    BY <1>1
  <2>2. /\ s = {} => SumIn(f, s) = 0
        /\ s # {} => SumIn(f, s) = f[FirstIn(s)] + SumIn(f, s \ {FirstIn(s)})
    BY <2>1, SumFirst
  <2>3. SumIn(f, s) # 0
    BY <1>4
  <2>4. QED
    BY <2>2, <2>3
<1>6. FirstIn(s) \in s
  BY <1>5 DEF FirstIn
<1> DEFINE rest == s \ {FirstIn(s)}
<1>7. rest \in SUBSET S /\ Cardinality(rest) = n - 1 /\ Cardinality(rest) \in Nat
  BY <1>1, <1>4, <1>6, FS_RemoveElement
<1>8. SumIn(f, rest) \in Int
  <2>1. n - 1 \notin Bad /\ n - 1 \in Nat
    <3> HIDE DEF Bad, rest
    <3>1. n \in Nat
      BY <1>3 DEF Bad
    <3>2. QED
      BY <1>3, <1>7, <3>1
  <2>2. QED
    BY <2>1, <1>7
<1>9. QED
  BY <1>4, <1>5, <1>6, <1>8

\* The order does not matter: any element may be taken out.
LEMMA SumTakeOut ==
  ASSUME NEW S, IsFiniteSet(S), NEW f, \A x \in S : f[x] \in Int, NEW x \in S
  PROVE  SumIn(f, S) = f[x] + SumIn(f, S \ {x})
<1> DEFINE Off(s) == \E y \in s : SumIn(f, s) # f[y] + SumIn(f, s \ {y})
           Bad == {n \in Nat : \E s \in SUBSET S : Cardinality(s) = n /\ Off(s)}
<1>1. \A s \in SUBSET S : IsFiniteSet(s) /\ Cardinality(s) \in Nat
  BY FS_Subset, FS_CardinalityType
<1>a. \A s \in SUBSET S : SumIn(f, s) \in Int
  BY <1>1, SumType
<1>2. SUFFICES ASSUME Bad # {} PROVE FALSE
  <2>1. Bad = {} => ~Off(S)
    BY <1>1
  <2>2. QED
    BY <2>1
<1>3. PICK n \in Bad : \A m \in Bad : n <= m
  BY <1>2, LeastNat
<1>4. PICK s \in SUBSET S : Cardinality(s) = n /\ Off(s)
  BY <1>3
<1>5. PICK y \in s : SumIn(f, s) # f[y] + SumIn(f, s \ {y})
  BY <1>4
<1> DEFINE z == FirstIn(s)
<1>6. z \in s /\ SumIn(f, s) = f[z] + SumIn(f, s \ {z})
  BY <1>1, <1>5, SumFirst DEF FirstIn
<1> HIDE DEF z
<1>7. z # y
  BY <1>5, <1>6
<1>8. ASSUME NEW u \in s PROVE s \ {u} \in SUBSET S /\ ~Off(s \ {u})
  <2>1. s \ {u} \in SUBSET S /\ Cardinality(s \ {u}) = n - 1 /\ Cardinality(s \ {u}) \in Nat
    BY <1>1, <1>4, FS_RemoveElement
  <2>2. n - 1 \notin Bad /\ n - 1 \in Nat
    <3>1. n \in Nat
      BY <1>3
    <3> HIDE DEF Bad
    <3>2. QED
      BY <1>3, <2>1, <3>1
  <2>3. QED
    BY <2>1, <2>2
<1>b. ASSUME NEW u \in s, NEW v \in s \ {u}
      PROVE  SumIn(f, s \ {u}) = f[v] + SumIn(f, (s \ {u}) \ {v})
  BY <1>8
<1> DEFINE w == (s \ {z}) \ {y}
<1>11. (s \ {z}) \ {y} = w /\ (s \ {y}) \ {z} = w /\ w \in SUBSET S
  OBVIOUS
<1> HIDE DEF w, Bad, Off
<1>9. SumIn(f, s \ {z}) = f[y] + SumIn(f, w)
  <2>1. y \in s \ {z}
    BY <1>7
  <2>2. SumIn(f, s \ {z}) = f[y] + SumIn(f, (s \ {z}) \ {y})
    BY <1>6, <1>b, <2>1
  <2>3. QED
    BY <1>11, <2>2
<1>10. SumIn(f, s \ {y}) = f[z] + SumIn(f, w)
  <2>1. z \in s \ {y}
    BY <1>6, <1>7
  <2>2. SumIn(f, s \ {y}) = f[z] + SumIn(f, (s \ {y}) \ {z})
    BY <1>b, <2>1
  <2>3. QED
    BY <1>11, <2>2
<1>12. f[y] \in Int /\ f[z] \in Int /\ SumIn(f, w) \in Int
  BY <1>a, <1>6, <1>11
<1>13. QED
  BY <1>5, <1>6, <1>9, <1>10, <1>11, <1>12

\* Sums over the same set are in the order of what is summed.
LEMMA SumAtMost ==
  ASSUME NEW S, IsFiniteSet(S), NEW f, NEW h, \A x \in S : f[x] \in Int /\ h[x] \in Int /\ f[x] <= h[x]
  PROVE  SumIn(f, S) <= SumIn(h, S)
<1> DEFINE Bad == {n \in Nat : \E s \in SUBSET S : Cardinality(s) = n /\ ~(SumIn(f, s) <= SumIn(h, s))}
<1>1. \A s \in SUBSET S : IsFiniteSet(s) /\ Cardinality(s) \in Nat
  BY FS_Subset, FS_CardinalityType
<1>2. \A s \in SUBSET S : SumIn(f, s) \in Int /\ SumIn(h, s) \in Int
  BY <1>1, SumType
<1>3. SUFFICES ASSUME Bad # {} PROVE FALSE
  BY <1>1
<1>4. PICK n \in Bad : \A m \in Bad : n <= m
  BY <1>3, LeastNat
<1>5. PICK s \in SUBSET S : Cardinality(s) = n /\ ~(SumIn(f, s) <= SumIn(h, s))
  BY <1>4
<1>6. s # {}
  <2>1. SUFFICES ASSUME s = {} PROVE FALSE
    OBVIOUS
  <2>2. SumIn(f, s) = 0 /\ SumIn(h, s) = 0
    BY <1>1, <2>1, SumFirst
  <2>3. QED
    BY <1>5, <2>2
<1>7. PICK x \in s : TRUE
  BY <1>6
<1> DEFINE rest == s \ {x}
<1>8. rest \in SUBSET S /\ Cardinality(rest) = n - 1 /\ Cardinality(rest) \in Nat
  BY <1>1, <1>5, <1>7, FS_RemoveElement
<1>9. SumIn(f, rest) <= SumIn(h, rest)
  <2>1. n - 1 \notin Bad /\ n - 1 \in Nat
    <3> HIDE DEF Bad, rest
    <3>1. n \in Nat
      BY <1>4 DEF Bad
    <3>2. QED
      BY <1>4, <1>8, <3>1
  <2>2. QED
    BY <2>1, <1>8
<1>10. SumIn(f, s) = f[x] + SumIn(f, rest) /\ SumIn(h, s) = h[x] + SumIn(h, rest)
  <2>1. IsFiniteSet(s) /\ \A y \in s : f[y] \in Int /\ h[y] \in Int
    BY <1>1
  <2>2. QED
    BY <1>7, <2>1, SumTakeOut
<1>11. f[x] \in Int /\ h[x] \in Int /\ f[x] <= h[x] /\ SumIn(f, rest) \in Int /\ SumIn(h, rest) \in Int
  BY <1>2, <1>7, <1>8
<1> HIDE DEF rest
<1>12. QED
  BY <1>5, <1>9, <1>10, <1>11

\* What agrees on a set has the same sum over it.
LEMMA SumAgrees ==
  ASSUME NEW S, IsFiniteSet(S), NEW f, NEW h, \A x \in S : f[x] \in Int /\ f[x] = h[x]
  PROVE  SumIn(f, S) = SumIn(h, S)
<1>1. SumIn(f, S) <= SumIn(h, S) /\ SumIn(h, S) <= SumIn(f, S)
  BY SumAtMost
<1>2. SumIn(f, S) \in Int /\ SumIn(h, S) \in Int
  BY SumType
<1>3. QED
  BY <1>1, <1>2

\* The sum over a set is that over a part of it, and over the rest.
LEMMA SumSplit ==
  ASSUME NEW S, IsFiniteSet(S), NEW f, \A x \in S : f[x] \in Int, NEW P \in SUBSET S
  PROVE  SumIn(f, S) = SumIn(f, P) + SumIn(f, S \ P)
<1> DEFINE Off(s) == SumIn(f, S) # SumIn(f, s) + SumIn(f, S \ s)
           Bad == {n \in Nat : \E s \in SUBSET S : Cardinality(s) = n /\ Off(s)}
<1>1. \A s \in SUBSET S : IsFiniteSet(s) /\ Cardinality(s) \in Nat
  BY FS_Subset, FS_CardinalityType
<1>2. \A s \in SUBSET S : SumIn(f, s) \in Int
  BY <1>1, SumType
<1>3. SUFFICES ASSUME Bad # {} PROVE FALSE
  <2>1. Bad = {} => ~Off(P)
    BY <1>1
  <2>2. QED
    BY <2>1
<1>4. PICK n \in Bad : \A m \in Bad : n <= m
  BY <1>3, LeastNat
<1>5. PICK s \in SUBSET S : Cardinality(s) = n /\ Off(s)
  BY <1>4
<1>6. s # {}
  <2>1. SUFFICES ASSUME s = {} PROVE FALSE
    OBVIOUS
  <2>2. SumIn(f, s) = 0 /\ S \ s = S
    BY <1>1, <2>1, SumFirst
  <2>3. QED
    BY <1>2, <1>5, <2>2
<1>7. PICK x \in s : TRUE
  BY <1>6
<1> DEFINE rest == s \ {x}
<1>8. rest \in SUBSET S /\ Cardinality(rest) = n - 1 /\ Cardinality(rest) \in Nat
  BY <1>1, <1>5, <1>7, FS_RemoveElement
<1>9. ~Off(rest)
  <2>1. n - 1 \notin Bad /\ n - 1 \in Nat
    <3> HIDE DEF Bad, rest
    <3>1. n \in Nat
      BY <1>4 DEF Bad
    <3>2. QED
      BY <1>4, <1>8, <3>1
  <2>2. QED
    BY <2>1, <1>8
<1> DEFINE others == S \ s
<1>10. S \ rest \in SUBSET S /\ x \in S \ rest /\ (S \ rest) \ {x} = others /\ others \in SUBSET S
  BY <1>7
<1>11. SumIn(f, s) = f[x] + SumIn(f, rest)
  <2>1. IsFiniteSet(s) /\ \A y \in s : f[y] \in Int
    BY <1>1
  <2>2. QED
    BY <1>7, <2>1, SumTakeOut
<1>12. SumIn(f, S \ rest) = f[x] + SumIn(f, others)
  <2> DEFINE more == S \ rest
  <2>1. IsFiniteSet(more) /\ (\A y \in more : f[y] \in Int) /\ x \in more /\ more \ {x} = others
    BY <1>1, <1>10
  <2> HIDE DEF more, others
  <2>2. SumIn(f, more) = f[x] + SumIn(f, more \ {x})
    BY <2>1, SumTakeOut
  <2>3. QED
    BY <2>1, <2>2 DEF more
<1>13. f[x] \in Int /\ SumIn(f, rest) \in Int /\ SumIn(f, others) \in Int /\ SumIn(f, S) \in Int
  BY <1>2, <1>7, <1>8, <1>10
<1>14. SumIn(f, S) = SumIn(f, rest) + SumIn(f, S \ rest)
  BY <1>9
<1>15. SumIn(f, S) # SumIn(f, s) + SumIn(f, others)
  BY <1>5
<1> HIDE DEF rest, others
<1>16. QED
  BY <1>11, <1>12, <1>13, <1>14, <1>15

\* The sum of zeros.
LEMMA SumOfNothing ==
  ASSUME NEW S, IsFiniteSet(S), NEW f, \A x \in S : f[x] = 0
  PROVE  SumIn(f, S) = 0
<1> DEFINE Bad == {n \in Nat : \E s \in SUBSET S : Cardinality(s) = n /\ SumIn(f, s) # 0}
<1>1. \A s \in SUBSET S : IsFiniteSet(s) /\ Cardinality(s) \in Nat
  BY FS_Subset, FS_CardinalityType
<1>3. SUFFICES ASSUME Bad # {} PROVE FALSE
  BY <1>1
<1>4. PICK n \in Bad : \A m \in Bad : n <= m
  BY <1>3, LeastNat
<1>5. PICK s \in SUBSET S : Cardinality(s) = n /\ SumIn(f, s) # 0
  BY <1>4
<1>6. s # {} /\ FirstIn(s) \in s
  <2>1. s = {} => SumIn(f, s) = 0
    BY <1>1, SumFirst
  <2>2. QED
    BY <1>5, <2>1 DEF FirstIn
<1> DEFINE rest == s \ {FirstIn(s)}
<1>8. rest \in SUBSET S /\ Cardinality(rest) = n - 1 /\ Cardinality(rest) \in Nat
  BY <1>1, <1>5, <1>6, FS_RemoveElement
<1>9. SumIn(f, rest) = 0
  <2>1. n - 1 \notin Bad /\ n - 1 \in Nat
    <3> HIDE DEF Bad, rest
    <3>1. n \in Nat
      BY <1>4 DEF Bad
    <3>2. QED
      BY <1>4, <1>8, <3>1
  <2>2. QED
    BY <2>1, <1>8
<1>10. SumIn(f, s) = f[FirstIn(s)] + SumIn(f, rest)
  BY <1>1, <1>6, SumFirst
<1>11. f[FirstIn(s)] = 0
  BY <1>6
<1>12. QED
  BY <1>5, <1>9, <1>10, <1>11

\* What is zero outside a part of a set sums to the sum over that part.
LEMMA SumOverPart ==
  ASSUME NEW S, IsFiniteSet(S), NEW f, \A x \in S : f[x] \in Int, NEW P \in SUBSET S, \A x \in S \ P : f[x] = 0
  PROVE  SumIn(f, S) = SumIn(f, P)
<1>1. IsFiniteSet(P) /\ IsFiniteSet(S \ P)
  BY FS_Subset
<1>2. SumIn(f, S) = SumIn(f, P) + SumIn(f, S \ P) /\ SumIn(f, S \ P) = 0
  BY <1>1, SumSplit, SumOfNothing
<1>3. SumIn(f, P) \in Int
  BY <1>1, SumType
<1>4. QED
  BY <1>2, <1>3

\* What is opposite has the opposite sum.
LEMMA SumOpposite ==
  ASSUME NEW S, IsFiniteSet(S), NEW f, NEW h, \A x \in S : f[x] \in Int /\ h[x] = - f[x]
  PROVE  SumIn(h, S) = - SumIn(f, S)
<1> DEFINE Bad == {n \in Nat : \E s \in SUBSET S : Cardinality(s) = n /\ SumIn(h, s) # - SumIn(f, s)}
<1>1. \A s \in SUBSET S : IsFiniteSet(s) /\ Cardinality(s) \in Nat
  BY FS_Subset, FS_CardinalityType
<1>2. \A s \in SUBSET S : SumIn(f, s) \in Int /\ SumIn(h, s) \in Int
  <2>1. \A x \in S : f[x] \in Int /\ h[x] \in Int
    OBVIOUS
  <2>2. QED
    BY <1>1, <2>1, SumType
<1>3. SUFFICES ASSUME Bad # {} PROVE FALSE
  BY <1>1
<1>4. PICK n \in Bad : \A m \in Bad : n <= m
  BY <1>3, LeastNat
<1>5. PICK s \in SUBSET S : Cardinality(s) = n /\ SumIn(h, s) # - SumIn(f, s)
  BY <1>4
<1>6. s # {} /\ FirstIn(s) \in s
  <2>1. s = {} => SumIn(f, s) = 0 /\ SumIn(h, s) = 0
    BY <1>1, SumFirst
  <2>2. QED
    BY <1>5, <2>1 DEF FirstIn
<1> DEFINE rest == s \ {FirstIn(s)}
<1>8. rest \in SUBSET S /\ Cardinality(rest) = n - 1 /\ Cardinality(rest) \in Nat
  BY <1>1, <1>5, <1>6, FS_RemoveElement
<1>9. SumIn(h, rest) = - SumIn(f, rest)
  <2>1. n - 1 \notin Bad /\ n - 1 \in Nat
    <3> HIDE DEF Bad, rest
    <3>1. n \in Nat
      BY <1>4 DEF Bad
    <3>2. QED
      BY <1>4, <1>8, <3>1
  <2>2. QED
    BY <2>1, <1>8
<1>10. /\ SumIn(f, s) = f[FirstIn(s)] + SumIn(f, rest)
       /\ SumIn(h, s) = h[FirstIn(s)] + SumIn(h, rest)
  BY <1>1, <1>6, SumFirst
<1>11. f[FirstIn(s)] \in Int /\ h[FirstIn(s)] = - f[FirstIn(s)]
  BY <1>6
<1>12. SumIn(f, rest) \in Int
  BY <1>2, <1>8
<1> HIDE DEF rest
<1>13. QED
  BY <1>5, <1>9, <1>10, <1>11, <1>12

\* What is never further from zero than another sums no further from zero.
LEMMA SumWithin ==
  ASSUME NEW S, IsFiniteSet(S), NEW f, NEW h,
         \A x \in S : f[x] \in Int /\ h[x] \in Int /\ - h[x] <= f[x] /\ f[x] <= h[x]
  PROVE  - SumIn(h, S) <= SumIn(f, S) /\ SumIn(f, S) <= SumIn(h, S)
<1> DEFINE under == [x \in S |-> - h[x]]
<1>1. SumIn(f, S) <= SumIn(h, S)
  BY SumAtMost
<1>2. \A x \in S : under[x] \in Int /\ f[x] \in Int /\ under[x] <= f[x] /\ h[x] \in Int /\ under[x] = - h[x]
  OBVIOUS
<1>3. SumIn(under, S) <= SumIn(f, S)
  <2> HIDE DEF under
  <2>1. QED
    BY <1>2, SumAtMost
<1>4. SumIn(under, S) = - SumIn(h, S)
  <2> HIDE DEF under
  <2>1. QED
    BY <1>2, SumOpposite
<1>5. QED
  BY <1>1, <1>3, <1>4
=============================================================================
