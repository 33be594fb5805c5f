----------------------------- MODULE SumTheorems -----------------------------
(***************************************************************************)
(* Facts about SumFunctionOnSet, the sum of the values of a function over a*)
(* finite set of its arguments: the folds of the community modules add in  *)
(* the order of a CHOOSE, and money does not depend on that order.  Induct-*)
(* ion over the set is a smallest counterexample, by the cardinality.      *)
(***************************************************************************)
EXTENDS Integers, Functions, FiniteSetTheorems, WellFoundedInduction, TLAPS

LOCAL Pick(s) == CHOOSE x \in s : TRUE

(* g is what the fold computes on the way to the sum of f over S.          *)
LOCAL Adds(g, f, S) ==
  g = [s \in SUBSET S |-> IF s = {} THEN 0 ELSE f[Pick(s)] + g[s \ {Pick(s)}]]

(* The same for the subsets of at most n elements.                         *)
LOCAL Small(S, n) == {s \in SUBSET S : Cardinality(s) <= n}
LOCAL AddsSmall(g, f, S, n) ==
  g = [s \in Small(S, n) |-> IF s = {} THEN 0 ELSE f[Pick(s)] + g[s \ {Pick(s)}]]

(* A set of numbers that is not empty has a least one.                     *)
LEMMA LeastNumber ==
  ASSUME NEW N \in SUBSET Nat, N # {}
  PROVE  \E m \in N : \A n \in N : m <= n
<1>1. PICK m \in N : \A n \in N : ~ (<<n, m>> \in OpToRel(<, Nat))
  BY WFMin, NatLessThanWellFounded
<1>2. ASSUME NEW n \in N  PROVE m <= n
  <2>1. n \in Nat /\ m \in Nat
    OBVIOUS
  <2>2. ~ (n < m)
    BY <1>1, <2>1 DEF OpToRel
  <2> QED  BY <2>1, <2>2
<1> QED  BY <1>2

(* One element less.                                                       *)
LEMMA OneLess ==
  ASSUME NEW S, IsFiniteSet(S), S # {}
  PROVE  /\ Pick(S) \in S
         /\ \A x \in S : /\ IsFiniteSet(S \ {x}) /\ Cardinality(S \ {x}) \in Nat
                         /\ Cardinality(S) = Cardinality(S \ {x}) + 1
<1>1. Pick(S) \in S
  BY DEF Pick
<1>2. ASSUME NEW x \in S
      PROVE  /\ IsFiniteSet(S \ {x}) /\ Cardinality(S \ {x}) \in Nat
             /\ Cardinality(S) = Cardinality(S \ {x}) + 1
  <2>1. IsFiniteSet(S \ {x}) /\ Cardinality(S \ {x}) = Cardinality(S) - 1
    BY FS_RemoveElement
  <2>2. Cardinality(S) \in Nat /\ Cardinality(S \ {x}) \in Nat
    BY <2>1, FS_CardinalityType
  <2> QED  BY <2>1, <2>2
<1> QED  BY <1>1, <1>2

(* The fold is defined: what adds up the small subsets can be extended.    *)
LEMMA AddsExists ==
  ASSUME NEW f, NEW S, IsFiniteSet(S)
  PROVE  \E g : Adds(g, f, S)
<1> DEFINE Has(n) == \E g : AddsSmall(g, f, S, n)
           bad == {n \in Nat : ~Has(n)}
<1>0. \A s \in SUBSET S : IsFiniteSet(s) /\ Cardinality(s) \in Nat
  BY FS_Subset, FS_CardinalityType
<1>1. Has(0)
  <2> DEFINE g == [s \in Small(S, 0) |-> 0]
  <2>1. ASSUME NEW s \in Small(S, 0)  PROVE s = {}
    <3>1. IsFiniteSet(s) /\ Cardinality(s) = 0
      BY <1>0 DEF Small
    <3> QED  BY <3>1, FS_EmptySet
  <2>2. AddsSmall(g, f, S, 0)
    BY <2>1 DEF AddsSmall
  <2> QED  BY <2>2
<1>2. ASSUME NEW n \in Nat, Has(n)  PROVE Has(n + 1)
  <2>1. PICK g : AddsSmall(g, f, S, n)
    BY <1>2
  <2> DEFINE h == [s \in Small(S, n + 1) |->
                     IF s = {} THEN 0 ELSE f[Pick(s)] + g[s \ {Pick(s)}]]
  <2>2. \A s \in Small(S, n) : h[s] = g[s]
    <3> SUFFICES ASSUME NEW s \in Small(S, n)  PROVE h[s] = g[s]
      OBVIOUS
    <3>1. s \in Small(S, n + 1)
      BY <1>0 DEF Small
    <3>2. g[s] = IF s = {} THEN 0 ELSE f[Pick(s)] + g[s \ {Pick(s)}]
      BY <2>1 DEF AddsSmall
    <3> QED  BY <3>1, <3>2
  <2>3. ASSUME NEW s \in Small(S, n + 1), s # {}  PROVE s \ {Pick(s)} \in Small(S, n)
    <3>1. s \in SUBSET S /\ Cardinality(s) <= n + 1 /\ IsFiniteSet(s) /\ Cardinality(s) \in Nat
      BY <1>0 DEF Small
    <3>2. /\ Cardinality(s \ {Pick(s)}) \in Nat
          /\ Cardinality(s) = Cardinality(s \ {Pick(s)}) + 1
      BY <2>3, <3>1, OneLess
    <3> QED  BY <3>1, <3>2 DEF Small
  <2>4. h = [s \in Small(S, n + 1) |-> IF s = {} THEN 0 ELSE f[Pick(s)] + h[s \ {Pick(s)}]]
    BY <2>2, <2>3
  <2>5. AddsSmall(h, f, S, n + 1)
    BY <2>4 DEF AddsSmall
  <2> QED  BY <2>5
<1>3. bad = {}
  <2> SUFFICES ASSUME bad # {}  PROVE FALSE
    OBVIOUS
  <2>1. PICK m \in bad : \A n \in bad : m <= n
    BY LeastNumber
  <2>2. m # 0 /\ m \in Nat
    BY <1>1
  <2>3. m - 1 \in Nat /\ Has(m - 1) /\ (m - 1) + 1 = m
    BY <2>1, <2>2
  <2>4. Has(m)
    <3> HIDE DEF Has
    <3>1. Has((m - 1) + 1)
      BY <1>2, <2>3
    <3> QED  BY <2>3, <3>1
  <2> QED  BY <2>1, <2>4
<1>4. PICK g : AddsSmall(g, f, S, Cardinality(S))
  <2>1. Has(Cardinality(S))
    BY <1>3, FS_CardinalityType
  <2> QED  BY <2>1
<1>5. Small(S, Cardinality(S)) = SUBSET S
  BY FS_Subset DEF Small
<1> QED  BY <1>4, <1>5 DEF AddsSmall, Adds

(* Induction over the subsets of a finite set, for a set of subsets.       *)
LEMMA SubsetInduction ==
  ASSUME NEW S, IsFiniteSet(S), NEW G, {} \in G,
         \A s \in SUBSET S : s # {} /\ (\A x \in s : s \ {x} \in G) => s \in G
  PROVE  S \in G
<1> DEFINE bad == {n \in Nat : \E s \in SUBSET S : Cardinality(s) = n /\ s \notin G}
<1>1. bad = {}
  <2> SUFFICES ASSUME bad # {}  PROVE FALSE
    OBVIOUS
  <2>1. PICK m \in bad : \A n \in bad : m <= n
    BY LeastNumber
  <2>2. PICK s \in SUBSET S : Cardinality(s) = m /\ s \notin G
    OBVIOUS
  <2>3. IsFiniteSet(s) /\ s # {}
    BY <2>2, FS_Subset
  <2>4. PICK x \in s : s \ {x} \notin G
    BY <2>2, <2>3
  <2>5. PICK k \in Nat : k = Cardinality(s \ {x}) /\ m = k + 1
    BY <2>2, <2>3, OneLess
  <2>6. k \in bad
    <3>1. s \ {x} \in SUBSET S
      OBVIOUS
    <3> QED  BY <2>4, <2>5, <3>1
  <2>7. m <= k
    <3> HIDE DEF bad
    <3> QED  BY <2>1, <2>6
  <2> QED  BY <2>5, <2>7
<1>2. Cardinality(S) \in Nat
  BY FS_CardinalityType
<1> QED  BY <1>1, <1>2

(* What adds up the subsets of two sets agrees on what is in both.         *)
LEMMA AddsAgree ==
  ASSUME NEW f, NEW S, IsFiniteSet(S), NEW T \in SUBSET S, NEW g, Adds(g, f, S),
         NEW h, Adds(h, f, T)
  PROVE  g[T] = h[T]
<1> DEFINE bad == {n \in Nat : \E s \in SUBSET T : Cardinality(s) = n /\ g[s] # h[s]}
<1>1. bad = {}
  <2> SUFFICES ASSUME bad # {}  PROVE FALSE
    OBVIOUS
  <2>1. PICK m \in bad : \A n \in bad : m <= n
    BY LeastNumber
  <2>2. PICK s \in SUBSET T : Cardinality(s) = m /\ g[s] # h[s]
    OBVIOUS
  <2>3. s \in SUBSET S /\ IsFiniteSet(s)
    BY FS_Subset
  <2>4. /\ g[s] = IF s = {} THEN 0 ELSE f[Pick(s)] + g[s \ {Pick(s)}]
        /\ h[s] = IF s = {} THEN 0 ELSE f[Pick(s)] + h[s \ {Pick(s)}]
    BY <2>3 DEF Adds
  <2>5. s # {}
    BY <2>2, <2>4
  <2>6. PICK k \in Nat : k = Cardinality(s \ {Pick(s)}) /\ m = k + 1
    BY <2>2, <2>3, <2>5, OneLess
  <2>7. g[s \ {Pick(s)}] = h[s \ {Pick(s)}]
    <3>1. k \notin bad
      <4> HIDE DEF bad
      <4>1. ~(m <= k)
        BY <2>6
      <4> QED  BY <2>1, <4>1
    <3>2. s \ {Pick(s)} \in SUBSET T
      OBVIOUS
    <3> QED  BY <2>6, <3>1, <3>2
  <2> QED  BY <2>2, <2>4, <2>5, <2>7
<1>2. IsFiniteSet(T) /\ Cardinality(T) \in Nat
  BY FS_Subset, FS_CardinalityType
<1> QED  BY <1>1, <1>2

(* So a sum is what the fold computes.                                     *)
LEMMA SumIsFold ==
  ASSUME NEW f, NEW S, IsFiniteSet(S)
  PROVE  \E g : Adds(g, f, S) /\ SumFunctionOnSet(f, S) = g[S]
<1> DEFINE g == CHOOSE g : Adds(g, f, S)
<1>1. Adds(g, f, S)
  BY AddsExists
<1>2. SumFunctionOnSet(f, S) = g[S]
  BY DEF SumFunctionOnSet, FoldFunctionOnSet, MapThenFoldSet, Adds, Pick
<1> QED  BY <1>1, <1>2

-----------------------------------------------------------------------------
(* What a sum is                                                           *)

(* The sum of nothing is 0.                                                *)
LEMMA SumEmpty == \A f : SumFunctionOnSet(f, {}) = 0
<1> SUFFICES ASSUME NEW f  PROVE SumFunctionOnSet(f, {}) = 0
  OBVIOUS
<1>1. PICK g : Adds(g, f, {}) /\ SumFunctionOnSet(f, {}) = g[{}]
  BY SumIsFold, FS_EmptySet
<1> QED  BY <1>1 DEF Adds

(* The fold takes out one element at a time.                               *)
LEMMA SumFirst ==
  ASSUME NEW f, NEW S, IsFiniteSet(S), S # {}
  PROVE  SumFunctionOnSet(f, S) = f[Pick(S)] + SumFunctionOnSet(f, S \ {Pick(S)})
<1> DEFINE T == S \ {Pick(S)}
<1>1. T \in SUBSET S /\ IsFiniteSet(T)
  BY FS_Subset
<1>2. PICK g : Adds(g, f, S) /\ SumFunctionOnSet(f, S) = g[S]
  BY SumIsFold
<1>3. PICK h : Adds(h, f, T) /\ SumFunctionOnSet(f, T) = h[T]
  BY <1>1, SumIsFold
<1>4. g[T] = h[T]
  BY <1>1, <1>2, <1>3, AddsAgree
<1>5. g[S] = f[Pick(S)] + g[T]
  BY <1>2 DEF Adds
<1> QED  BY <1>2, <1>3, <1>4, <1>5

(* A sum of integers is an integer.                                        *)
LEMMA SumType ==
  ASSUME NEW f, NEW S, IsFiniteSet(S), \A x \in S : f[x] \in Int
  PROVE  SumFunctionOnSet(f, S) \in Int
<1> DEFINE G == {s \in SUBSET S : SumFunctionOnSet(f, s) \in Int}
<1>1. {} \in G
  BY SumEmpty
<1>2. ASSUME NEW s \in SUBSET S, s # {}, \A x \in s : s \ {x} \in G  PROVE s \in G
  <2>1. IsFiniteSet(s) /\ Pick(s) \in s
    BY <1>2, FS_Subset DEF Pick
  <2>2. SumFunctionOnSet(f, s \ {Pick(s)}) \in Int /\ f[Pick(s)] \in Int
    BY <1>2, <2>1
  <2> QED  BY <1>2, <2>1, <2>2, SumFirst
<1>3. S \in G
  <2> HIDE DEF G
  <2> QED  BY <1>1, <1>2, SubsetInduction
<1> QED  BY <1>3

(* Any element may be taken out first.                                     *)
LEMMA SumWithout ==
  ASSUME NEW f, NEW S, IsFiniteSet(S), \A x \in S : f[x] \in Int, NEW a \in S
  PROVE  SumFunctionOnSet(f, S) = f[a] + SumFunctionOnSet(f, S \ {a})
<1> DEFINE G == {s \in SUBSET S : \A x \in s :
                   SumFunctionOnSet(f, s) = f[x] + SumFunctionOnSet(f, s \ {x})}
<1>1. {} \in G
  OBVIOUS
<1>2. ASSUME NEW s \in SUBSET S, s # {}, \A x \in s : s \ {x} \in G  PROVE s \in G
  <2> SUFFICES ASSUME NEW x \in s
               PROVE  SumFunctionOnSet(f, s) = f[x] + SumFunctionOnSet(f, s \ {x})
    OBVIOUS
  <2>1. PICK y \in s : /\ y = Pick(s) /\ IsFiniteSet(s)
                       /\ SumFunctionOnSet(f, s) = f[y] + SumFunctionOnSet(f, s \ {y})
    BY <1>2, FS_Subset, SumFirst DEF Pick
  <2>2. CASE x = y
    BY <2>1, <2>2
  <2>3. CASE x # y
    <3> DEFINE r == (s \ {x}) \ {y}
    <3>1. SumFunctionOnSet(f, s \ {y}) = f[x] + SumFunctionOnSet(f, (s \ {y}) \ {x})
      BY <1>2, <2>3
    <3>2. SumFunctionOnSet(f, s \ {x}) = f[y] + SumFunctionOnSet(f, r)
      BY <1>2, <2>3
    <3>3. (s \ {y}) \ {x} = r
      OBVIOUS
    <3>4. SumFunctionOnSet(f, s \ {y}) = f[x] + SumFunctionOnSet(f, r)
      BY <3>1, <3>3
    <3>5. IsFiniteSet(r) /\ \A z \in r : f[z] \in Int
      BY <2>1, FS_Subset
    <3>6. SumFunctionOnSet(f, r) \in Int /\ f[x] \in Int /\ f[y] \in Int
      BY <3>5, SumType
    <3> HIDE DEF r
    <3>7. SumFunctionOnSet(f, s) = f[y] + SumFunctionOnSet(f, s \ {y})
      BY <2>1
    <3> QED  BY <3>2, <3>4, <3>6, <3>7
  <2> QED  BY <2>2, <2>3
<1>3. S \in G
  <2> HIDE DEF G
  <2> QED  BY <1>1, <1>2, SubsetInduction
<1> QED  BY <1>3

-----------------------------------------------------------------------------
(* How sums compare                                                        *)

(* Functions that agree on the set have the same sum.                      *)
LEMMA SumSame ==
  ASSUME NEW f, NEW g, NEW S, IsFiniteSet(S), \A x \in S : f[x] = g[x]
  PROVE  SumFunctionOnSet(f, S) = SumFunctionOnSet(g, S)
<1> DEFINE G == {s \in SUBSET S : SumFunctionOnSet(f, s) = SumFunctionOnSet(g, s)}
<1>1. {} \in G
  BY SumEmpty
<1>2. ASSUME NEW s \in SUBSET S, s # {}, \A x \in s : s \ {x} \in G  PROVE s \in G
  <2>1. IsFiniteSet(s) /\ Pick(s) \in s
    BY <1>2, FS_Subset DEF Pick
  <2>2. /\ SumFunctionOnSet(f, s) = f[Pick(s)] + SumFunctionOnSet(f, s \ {Pick(s)})
        /\ SumFunctionOnSet(g, s) = g[Pick(s)] + SumFunctionOnSet(g, s \ {Pick(s)})
    BY <1>2, <2>1, SumFirst
  <2>3. SumFunctionOnSet(f, s \ {Pick(s)}) = SumFunctionOnSet(g, s \ {Pick(s)})
    BY <1>2, <2>1
  <2> QED  BY <2>1, <2>2, <2>3
<1>3. S \in G
  <2> HIDE DEF G
  <2> QED  BY <1>1, <1>2, SubsetInduction
<1> QED  BY <1>3

(* Less in every place is less in all.                                     *)
LEMMA SumAtMost ==
  ASSUME NEW f, NEW g, NEW S, IsFiniteSet(S),
         \A x \in S : f[x] \in Int /\ g[x] \in Int /\ f[x] <= g[x]
  PROVE  SumFunctionOnSet(f, S) <= SumFunctionOnSet(g, S)
<1> DEFINE G == {s \in SUBSET S : SumFunctionOnSet(f, s) <= SumFunctionOnSet(g, s)}
<1>1. {} \in G
  BY SumEmpty
<1>2. ASSUME NEW s \in SUBSET S, s # {}, \A x \in s : s \ {x} \in G  PROVE s \in G
  <2>1. PICK y \in s : y = Pick(s) /\ IsFiniteSet(s)
    BY <1>2, FS_Subset DEF Pick
  <2> DEFINE r == s \ {y}
  <2>2. /\ SumFunctionOnSet(f, s) = f[y] + SumFunctionOnSet(f, r)
        /\ SumFunctionOnSet(g, s) = g[y] + SumFunctionOnSet(g, r)
    BY <1>2, <2>1, SumFirst
  <2>3. SumFunctionOnSet(f, r) <= SumFunctionOnSet(g, r)
    BY <1>2
  <2>4. IsFiniteSet(r) /\ \A z \in r : f[z] \in Int /\ g[z] \in Int
    BY <2>1, FS_Subset
  <2>5. SumFunctionOnSet(f, r) \in Int /\ SumFunctionOnSet(g, r) \in Int
    BY <2>4, SumType
  <2>6. f[y] \in Int /\ g[y] \in Int /\ f[y] <= g[y]
    OBVIOUS
  <2> HIDE DEF r
  <2> QED  BY <2>2, <2>3, <2>5, <2>6
<1>3. S \in G
  <2> HIDE DEF G
  <2> QED  BY <1>1, <1>2, SubsetInduction
<1> QED  BY <1>3

(* Where one function is nowhere more than another and its sum no less,    *)
(* they agree.                                                             *)
LEMMA SumTight ==
  ASSUME NEW f, NEW g, NEW S, IsFiniteSet(S),
         \A x \in S : f[x] \in Int /\ g[x] \in Int /\ f[x] <= g[x],
         SumFunctionOnSet(g, S) <= SumFunctionOnSet(f, S)
  PROVE  \A x \in S : f[x] = g[x]
<1> SUFFICES ASSUME NEW x \in S  PROVE f[x] = g[x]
  OBVIOUS
<1> DEFINE R == S \ {x}
<1>1. IsFiniteSet(R) /\ \A y \in R : f[y] \in Int /\ g[y] \in Int /\ f[y] <= g[y]
  BY FS_Subset
<1>2. SumFunctionOnSet(f, R) <= SumFunctionOnSet(g, R)
  BY <1>1, SumAtMost
<1>3. SumFunctionOnSet(f, R) \in Int /\ SumFunctionOnSet(g, R) \in Int
  BY <1>1, SumType
<1>4. /\ SumFunctionOnSet(f, S) = f[x] + SumFunctionOnSet(f, R)
      /\ SumFunctionOnSet(g, S) = g[x] + SumFunctionOnSet(g, R)
  BY SumWithout
<1> HIDE DEF R
<1>5. f[x] \in Int /\ g[x] \in Int /\ f[x] <= g[x]
  OBVIOUS
<1> QED  BY <1>2, <1>3, <1>4, <1>5

(* The sum of the sums is the sum of both.                                 *)
LEMMA SumOfSums ==
  ASSUME NEW f, NEW g, NEW h, NEW S, IsFiniteSet(S),
         \A x \in S : f[x] \in Int /\ g[x] \in Int /\ h[x] = f[x] + g[x]
  PROVE  SumFunctionOnSet(h, S) = SumFunctionOnSet(f, S) + SumFunctionOnSet(g, S)
<1> DEFINE G == {s \in SUBSET S :
                   SumFunctionOnSet(h, s) = SumFunctionOnSet(f, s) + SumFunctionOnSet(g, s)}
<1>1. {} \in G
  BY SumEmpty
<1>2. ASSUME NEW s \in SUBSET S, s # {}, \A x \in s : s \ {x} \in G  PROVE s \in G
  <2>1. PICK y \in s : y = Pick(s) /\ IsFiniteSet(s)
    BY <1>2, FS_Subset DEF Pick
  <2> DEFINE r == s \ {y}
  <2>2. /\ SumFunctionOnSet(f, s) = f[y] + SumFunctionOnSet(f, r)
        /\ SumFunctionOnSet(g, s) = g[y] + SumFunctionOnSet(g, r)
        /\ SumFunctionOnSet(h, s) = h[y] + SumFunctionOnSet(h, r)
    BY <1>2, <2>1, SumFirst
  <2>3. SumFunctionOnSet(h, r) = SumFunctionOnSet(f, r) + SumFunctionOnSet(g, r)
    BY <1>2
  <2>4. IsFiniteSet(r) /\ \A z \in r : f[z] \in Int /\ g[z] \in Int
    BY <2>1, FS_Subset
  <2>5. SumFunctionOnSet(f, r) \in Int /\ SumFunctionOnSet(g, r) \in Int
    BY <2>4, SumType
  <2>6. f[y] \in Int /\ g[y] \in Int /\ h[y] = f[y] + g[y]
    OBVIOUS
  <2> HIDE DEF r
  <2> QED  BY <2>2, <2>3, <2>5, <2>6
<1>3. S \in G
  <2> HIDE DEF G
  <2> QED  BY <1>1, <1>2, SubsetInduction
<1> QED  BY <1>3

(* A sum of zeros is 0.                                                    *)
LEMMA SumZero ==
  ASSUME NEW f, NEW S, IsFiniteSet(S), \A x \in S : f[x] = 0
  PROVE  SumFunctionOnSet(f, S) = 0
<1> DEFINE G == {s \in SUBSET S : SumFunctionOnSet(f, s) = 0}
<1>1. {} \in G
  BY SumEmpty
<1>2. ASSUME NEW s \in SUBSET S, s # {}, \A x \in s : s \ {x} \in G  PROVE s \in G
  <2>1. IsFiniteSet(s) /\ Pick(s) \in s
    BY <1>2, FS_Subset DEF Pick
  <2>2. SumFunctionOnSet(f, s) = f[Pick(s)] + SumFunctionOnSet(f, s \ {Pick(s)})
    BY <1>2, <2>1, SumFirst
  <2>3. SumFunctionOnSet(f, s \ {Pick(s)}) = 0 /\ f[Pick(s)] = 0
    BY <1>2, <2>1
  <2> QED  BY <2>2, <2>3
<1>3. S \in G
  <2> HIDE DEF G
  <2> QED  BY <1>1, <1>2, SubsetInduction
<1> QED  BY <1>3

(* A sum of natural numbers is one.                                        *)
LEMMA SumNat ==
  ASSUME NEW f, NEW S, IsFiniteSet(S), \A x \in S : f[x] \in Nat
  PROVE  SumFunctionOnSet(f, S) \in Nat
<1> DEFINE z == [x \in S |-> 0]
<1>1. SumFunctionOnSet(z, S) = 0
  BY SumZero
<1>2. SumFunctionOnSet(z, S) <= SumFunctionOnSet(f, S)
  <2>1. \A x \in S : z[x] \in Int /\ f[x] \in Int /\ z[x] <= f[x]
    OBVIOUS
  <2> HIDE DEF z
  <2> QED  BY <2>1, SumAtMost
<1>3. SumFunctionOnSet(f, S) \in Int
  BY SumType
<1> QED  BY <1>1, <1>2, <1>3

(* The sum over two disjoint sets.                                         *)
LEMMA SumApart ==
  ASSUME NEW f, NEW S, NEW T \in SUBSET S, IsFiniteSet(S), \A x \in S : f[x] \in Int
  PROVE  SumFunctionOnSet(f, S) = SumFunctionOnSet(f, T) + SumFunctionOnSet(f, S \ T)
<1> DEFINE R == S \ T
           G == {s \in SUBSET R :
                   SumFunctionOnSet(f, T \cup s) = SumFunctionOnSet(f, T) + SumFunctionOnSet(f, s)}
<1>0. IsFiniteSet(T) /\ IsFiniteSet(R) /\ SumFunctionOnSet(f, T) \in Int
  <2>1. IsFiniteSet(T) /\ IsFiniteSet(R)
    BY FS_Subset
  <2> QED  BY <2>1, SumType
<1>1. {} \in G
  <2>1. T \cup {} = T
    OBVIOUS
  <2> QED  BY <1>0, <2>1, SumEmpty
<1>2. ASSUME NEW s \in SUBSET R, s # {}, \A x \in s : s \ {x} \in G  PROVE s \in G
  <2>1. PICK y \in s : y = Pick(s) /\ IsFiniteSet(s)
    BY <1>0, <1>2, FS_Subset DEF Pick
  <2> DEFINE r == s \ {y}
             u == T \cup s
  <2>2. SumFunctionOnSet(f, s) = f[y] + SumFunctionOnSet(f, r)
    BY <1>2, <2>1, SumFirst
  <2>3. SumFunctionOnSet(f, u) = f[y] + SumFunctionOnSet(f, u \ {y})
    <3>1. IsFiniteSet(u) /\ y \in u /\ \A x \in u : f[x] \in Int
      BY FS_Subset
    <3> QED  BY <3>1, SumWithout
  <2>4. u \ {y} = T \cup r
    OBVIOUS
  <2>5. SumFunctionOnSet(f, T \cup r) = SumFunctionOnSet(f, T) + SumFunctionOnSet(f, r)
    BY <1>2
  <2>6. IsFiniteSet(r) /\ (\A z \in r : f[z] \in Int) /\ f[y] \in Int
    BY <2>1, FS_Subset
  <2>7. SumFunctionOnSet(f, r) \in Int
    BY <2>6, SumType
  <2>8. SumFunctionOnSet(f, u) = SumFunctionOnSet(f, T) + SumFunctionOnSet(f, s)
    <3>1. SumFunctionOnSet(f, u) = f[y] + SumFunctionOnSet(f, T \cup r)
      BY <2>3, <2>4
    <3> HIDE DEF r, u
    <3> QED  BY <1>0, <2>2, <2>5, <2>6, <2>7, <3>1
  <2> QED  BY <2>8
<1>3. R \in G
  <2> HIDE DEF G
  <2> QED  BY <1>0, <1>1, <1>2, SubsetInduction
<1>4. T \cup R = S
  OBVIOUS
<1> QED  BY <1>3, <1>4

(* What is left out adds nothing, or natural numbers.                      *)
LEMMA SumOfPart ==
  ASSUME NEW f, NEW S, NEW T \in SUBSET S, IsFiniteSet(S), \A x \in S : f[x] \in Nat
  PROVE  /\ SumFunctionOnSet(f, T) <= SumFunctionOnSet(f, S)
         /\ (\A x \in S \ T : f[x] = 0) => SumFunctionOnSet(f, T) = SumFunctionOnSet(f, S)
<1>1. IsFiniteSet(T) /\ IsFiniteSet(S \ T)
  BY FS_Subset
<1>2. SumFunctionOnSet(f, S) = SumFunctionOnSet(f, T) + SumFunctionOnSet(f, S \ T)
  BY SumApart
<1>3. SumFunctionOnSet(f, T) \in Nat /\ SumFunctionOnSet(f, S \ T) \in Nat
  BY <1>1, SumNat
<1>4. (\A x \in S \ T : f[x] = 0) => SumFunctionOnSet(f, S \ T) = 0
  BY <1>1, SumZero
<1> QED  BY <1>2, <1>3, <1>4

(* One value changes.                                                      *)
LEMMA SumChanged ==
  ASSUME NEW f, NEW g, NEW S, IsFiniteSet(S), NEW a \in S,
         \A x \in S : f[x] \in Int /\ g[x] \in Int, \A x \in S \ {a} : f[x] = g[x]
  PROVE  SumFunctionOnSet(g, S) = SumFunctionOnSet(f, S) - f[a] + g[a]
<1> DEFINE R == S \ {a}
<1>1. IsFiniteSet(R) /\ \A x \in R : f[x] = g[x] /\ f[x] \in Int
  BY FS_Subset
<1>2. SumFunctionOnSet(f, R) = SumFunctionOnSet(g, R) /\ SumFunctionOnSet(f, R) \in Int
  BY <1>1, SumSame, SumType
<1>3. /\ SumFunctionOnSet(f, S) = f[a] + SumFunctionOnSet(f, R)
      /\ SumFunctionOnSet(g, S) = g[a] + SumFunctionOnSet(g, R)
  BY SumWithout
<1>4. f[a] \in Int /\ g[a] \in Int
  OBVIOUS
<1> HIDE DEF R
<1> QED  BY <1>2, <1>3, <1>4

(* A table has the same sum by rows as by columns.                         *)
LEMMA SumExchange ==
  ASSUME NEW T, NEW B, IsFiniteSet(T), IsFiniteSet(B), NEW f,
         \A t \in T, b \in B : f[t][b] \in Int
  PROVE  SumFunctionOnSet([t \in T |-> SumFunctionOnSet(f[t], B)], T) =
           SumFunctionOnSet([b \in B |-> SumFunctionOnSet([t \in T |-> f[t][b]], T)], B)
<1> DEFINE row == [t \in T |-> SumFunctionOnSet(f[t], B)]
           cell(b) == [t \in T |-> f[t][b]]
           column(s) == [b \in B |-> SumFunctionOnSet(cell(b), s)]
           G == {s \in SUBSET T : SumFunctionOnSet(row, s) = SumFunctionOnSet(column(s), B)}
<1>0. ASSUME NEW s \in SUBSET T, NEW b \in B
      PROVE  SumFunctionOnSet(cell(b), s) \in Int
  <2>1. IsFiniteSet(s)
    BY FS_Subset
  <2>2. \A t \in s : cell(b)[t] \in Int
    OBVIOUS
  <2> HIDE DEF cell
  <2> QED  BY <2>1, <2>2, SumType
<1>1. {} \in G
  <2>1. SumFunctionOnSet(column({}), B) = 0
    <3>1. \A b \in B : column({})[b] = 0
      BY SumEmpty
    <3> HIDE DEF column
    <3> QED  BY <3>1, SumZero
  <2> QED  BY <2>1, SumEmpty
<1>2. ASSUME NEW s \in SUBSET T, s # {}, \A x \in s : s \ {x} \in G  PROVE s \in G
  <2>1. PICK y \in s : y = Pick(s) /\ IsFiniteSet(s)
    BY <1>2, FS_Subset DEF Pick
  <2> DEFINE r == s \ {y}
  <2>2. SumFunctionOnSet(row, s) = SumFunctionOnSet(f[y], B) + SumFunctionOnSet(row, r)
    BY <1>2, <2>1, SumFirst
  <2>3. SumFunctionOnSet(row, r) = SumFunctionOnSet(column(r), B)
    BY <1>2
  <2>4. ASSUME NEW b \in B
        PROVE  /\ f[y][b] \in Int /\ column(r)[b] \in Int
               /\ column(s)[b] = f[y][b] + column(r)[b]
    <3>1. SumFunctionOnSet(cell(b), s) = cell(b)[y] + SumFunctionOnSet(cell(b), r)
      <4> HIDE DEF cell
      <4> QED  BY <1>2, <2>1, SumFirst
    <3>2. r \in SUBSET T
      OBVIOUS
    <3>3. SumFunctionOnSet(cell(b), r) \in Int
      BY <1>0, <3>2
    <3> QED  BY <3>1, <3>3
  <2>5. SumFunctionOnSet(column(s), B) =
          SumFunctionOnSet(f[y], B) + SumFunctionOnSet(column(r), B)
    <3> HIDE DEF column, r
    <3> QED  BY <2>4, SumOfSums
  <2> QED  BY <2>2, <2>3, <2>5
<1>3. T \in G
  <2> HIDE DEF G
  <2> QED  BY <1>1, <1>2, SubsetInduction
<1> QED  BY <1>3
=============================================================================
