----------------------------- MODULE DataLemmas -----------------------------
(***************************************************************************)
(* Induction over numbers and finite sets, and what follows from it for    *)
(* the folds and the sorted sequences of the models.  The induction rules  *)
(* are stated with sets in place of predicates, so that they can be cited  *)
(* by name; they rest on inclusion of finite sets being well-founded.      *)
(***************************************************************************)
EXTENDS Integers, FiniteSetTheorems, TLAPS

LEMMA Segment ==
  ASSUME NEW n \in Nat
  PROVE  IsFiniteSet(1 .. n) /\ Cardinality(1 .. n) = n
<1>1. IsFiniteSet(1 .. n) /\ Cardinality(1 .. n) = IF 1 > n THEN 0 ELSE n - 1 + 1
  BY FS_Interval
<1> QED BY <1>1

(* A nonempty set of naturals has a least element: inclusion of initial    *)
(* segments is well-founded.                                               *)
LEMMA LeastElement ==
  ASSUME NEW T \in SUBSET Nat, T # {}
  PROVE  \E m \in T : \A n \in T : m <= n
<1> DEFINE F == {1 .. n : n \in T}
<1>1. F \subseteq FiniteSubsetsOf(Nat) /\ F # {}
  <2>1. \A n \in T : 1 .. n \in SUBSET Nat /\ IsFiniteSet(1 .. n)
    BY FS_Interval
  <2> QED BY <2>1 DEF FiniteSubsetsOf
<1>2. PICK U \in F : \A V \in F : ~ (<<V, U>> \in StrictSubsetOrdering(Nat))
  BY <1>1, FS_StrictSubsetOrderingWellFounded, WFMin
<1>3. PICK m \in T : U = 1 .. m
  BY <1>2
<1>4. ASSUME NEW n \in T, n < m PROVE FALSE
  <2>1. 1 .. n \subseteq 1 .. m /\ 1 .. n # 1 .. m /\ 1 .. n \in SUBSET Nat /\ 1 .. m \in SUBSET Nat
    <3>1. m \in 1 .. m /\ m \notin 1 .. n
      BY <1>4
    <3> QED BY <3>1, <1>4
  <2>2. <<1 .. n, 1 .. m>> \in StrictSubsetOrdering(Nat)
    BY <2>1 DEF StrictSubsetOrdering
  <2> QED BY <2>2, <1>2, <1>3
<1> QED BY <1>4

LEMMA GreatestElement ==
  ASSUME NEW N \in Nat, NEW S \in SUBSET (1 .. N), S # {}
  PROVE  \E m \in S : \A n \in S : n <= m
<1> DEFINE T == {N - n : n \in S}
<1>1. T \in SUBSET Nat /\ T # {}
  <2>1. \A n \in S : n \in 1 .. N
    OBVIOUS
  <2>2. \A n \in S : N - n \in Nat
    BY <2>1
  <2> QED BY <2>2
<1>2. PICK t \in T : \A u \in T : t <= u
  <2> HIDE DEF T
  <2> QED BY <1>1, LeastElement
<1>3. PICK m \in S : t = N - m
  BY <1>2
<1>4. ASSUME NEW n \in S PROVE n <= m
  <2>1. N - m <= N - n
    BY <1>2, <1>3
  <2> QED BY <2>1
<1> QED BY <1>4


(* Induction over the naturals and over a finite set.                      *)
LEMMA Induction ==
  ASSUME NEW T \in SUBSET Nat, 0 \in T, \A n \in T : n + 1 \in T
  PROVE  T = Nat
<1>1. SUFFICES ASSUME T # Nat PROVE FALSE
  OBVIOUS
<1> DEFINE Rest == Nat \ T
<1>2. Rest \in SUBSET Nat /\ Rest # {}
  BY <1>1
<1>3. PICK m \in Rest : \A n \in Rest : m <= n
  <2> HIDE DEF Rest
  <2> QED BY <1>2, LeastElement
<1>4. m \in Nat /\ m # 0
  OBVIOUS
<1>5. m - 1 \in T
  BY <1>3, <1>4
<1>6. (m - 1) + 1 \in T
  BY <1>5
<1> QED BY <1>4, <1>6

LEMMA SetInduction ==
  ASSUME NEW S, IsFiniteSet(S), NEW F \in SUBSET SUBSET S, {} \in F,
         \A A \in F : \A x \in S \ A : A \cup {x} \in F
  PROVE  F = SUBSET S
<1> DEFINE P(n) == \A A \in SUBSET S : Cardinality(A) = n => A \in F
           T == {n \in Nat : P(n)}
<1>1. \A A \in SUBSET S : IsFiniteSet(A)
  BY FS_Subset
<1>2. P(0)
  BY <1>1, FS_EmptySet
<1>3. ASSUME NEW n \in Nat, P(n) PROVE P(n + 1)
  <2>1. ASSUME NEW A \in SUBSET S, Cardinality(A) = n + 1 PROVE A \in F
    <3>1. IsFiniteSet(A) /\ A # {}
      BY <1>1, <2>1, FS_EmptySet
    <3>2. PICK x \in A : TRUE
      BY <3>1
    <3>3. Cardinality(A \ {x}) = n
      <4>1. Cardinality(A \ {x}) = Cardinality(A) - 1
        BY <3>1, <3>2, FS_RemoveElement
      <4> QED BY <2>1, <4>1
    <3>4. A \ {x} \in F
      BY <1>3, <3>3
    <3>5. A = (A \ {x}) \cup {x} /\ x \in S \ (A \ {x})
      BY <3>2
    <3> QED BY <3>4, <3>5
  <2> QED BY <2>1
<1>4. T = Nat
  <2>1. T \in SUBSET Nat /\ 0 \in T /\ \A n \in T : n + 1 \in T
    <3> HIDE DEF P
    <3> QED BY <1>2, <1>3
  <2> HIDE DEF T
  <2> QED BY <2>1, Induction
<1>5. ASSUME NEW A \in SUBSET S PROVE A \in F
  <2>1. Cardinality(A) \in Nat
    BY <1>1, FS_CardinalityType
  <2> QED BY <1>4, <2>1
<1> QED BY <1>5

LEMMA ImageIsFinite ==
  ASSUME NEW f, IsFiniteSet(DOMAIN f) PROVE IsFiniteSet({f[x] : x \in DOMAIN f})
<1> DEFINE T == {f[x] : x \in DOMAIN f}
           g == [x \in DOMAIN f |-> f[x]]
<1>1. g \in Surjection(DOMAIN f, T)
  BY DEF Surjection
<1> QED BY <1>1, FS_Surjection

LEMMA InjectiveImage ==
  ASSUME NEW f, IsFiniteSet(DOMAIN f), \A x, y \in DOMAIN f : f[x] = f[y] => x = y
  PROVE  /\ IsFiniteSet({f[x] : x \in DOMAIN f})
         /\ Cardinality({f[x] : x \in DOMAIN f}) = Cardinality(DOMAIN f)
<1> DEFINE T == {f[x] : x \in DOMAIN f}
           g == [x \in DOMAIN f |-> f[x]]
<1>1. g \in Bijection(DOMAIN f, T)
  BY DEF Bijection, Injection, Surjection, IsInjective
<1> QED BY <1>1, FS_Bijection DEF ExistsBijection

(* The cardinality of a set in three parts.                                *)
LEMMA ThreeParts ==
  ASSUME NEW S, IsFiniteSet(S), NEW A, NEW B, NEW C, S = A \cup B \cup C,
         A \cap B = {}, A \cap C = {}, B \cap C = {}
  PROVE  Cardinality(S) = Cardinality(A) + Cardinality(B) + Cardinality(C)
<1>1. /\ IsFiniteSet(A) /\ IsFiniteSet(B) /\ IsFiniteSet(C) /\ IsFiniteSet(A \cup B)
      /\ Cardinality(A) \in Nat /\ Cardinality(B) \in Nat /\ Cardinality(C) \in Nat
      /\ Cardinality(A \cup B) \in Nat
  <2>1. A \subseteq S /\ B \subseteq S /\ C \subseteq S /\ A \cup B \subseteq S
    OBVIOUS
  <2> QED BY <2>1, FS_Subset, FS_CardinalityType
<1>2. Cardinality(A \cup B) = Cardinality(A) + Cardinality(B) - Cardinality(A \cap B)
  BY <1>1, FS_Union
<1>3. Cardinality((A \cup B) \cup C)
        = Cardinality(A \cup B) + Cardinality(C) - Cardinality((A \cup B) \cap C)
  BY <1>1, FS_Union
<1>4. Cardinality(A \cap B) = 0 /\ Cardinality((A \cup B) \cap C) = 0
  <2>1. (A \cup B) \cap C = {}
    OBVIOUS
  <2> QED BY <2>1, FS_EmptySet
<1> QED BY <1>1, <1>2, <1>3, <1>4

(* A function defined by recursion on the naturals exists.                 *)
Iterates(f, n, V, base, step) ==
  f \in [0 .. n -> V] /\ f[0] = base /\ \A i \in 1 .. n : f[i] = step[<<i, f[i - 1]>>]

LEMMA Recursion ==
  ASSUME NEW V, NEW base \in V, NEW step \in [Nat \X V -> V]
  PROVE  \A n \in Nat : \E f : Iterates(f, n, V, base, step)
<1> DEFINE Good(n, f) == f[0] = base /\ \A i \in 1 .. n : f[i] = step[<<i, f[i - 1]>>]
           P(n) == \E f \in [0 .. n -> V] : Good(n, f)
           T == {n \in Nat : P(n)}
<1>1. P(0)
  <2>1. [i \in 0 .. 0 |-> base] \in [0 .. 0 -> V] /\ Good(0, [i \in 0 .. 0 |-> base])
    OBVIOUS
  <2> QED BY <2>1
<1>2. ASSUME NEW n \in Nat, P(n) PROVE P(n + 1)
  <2>1. PICK f \in [0 .. n -> V] : Good(n, f)
    BY <1>2
  <2> DEFINE last == step[<<n + 1, f[n]>>]
             g == [i \in 0 .. n + 1 |-> IF i \in 0 .. n THEN f[i] ELSE last]
  <2>2. \A i \in 0 .. n : f[i] \in V
    BY <2>1
  <2>3. last \in V
    <3>1. n \in 0 .. n /\ n + 1 \in Nat
      OBVIOUS
    <3>2. <<n + 1, f[n]>> \in Nat \X V
      BY <2>2, <3>1
    <3> QED BY <3>2
  <2>4. /\ g \in [0 .. n + 1 -> V]
        /\ \A i \in 0 .. n : g[i] = f[i]
        /\ g[n + 1] = last
    <3> HIDE DEF last
    <3> QED BY <2>2, <2>3
  <2> HIDE DEF g
  <2>5. g[0] = base
    <3>1. 0 \in 0 .. n
      OBVIOUS
    <3> QED BY <2>1, <2>4, <3>1
  <2>6. ASSUME NEW i \in 1 .. n + 1 PROVE g[i] = step[<<i, g[i - 1]>>]
    <3>1. CASE i = n + 1
      <4>1. i - 1 = n /\ n \in 0 .. n
        BY <3>1
      <4> QED BY <2>4, <3>1, <4>1
    <3>2. CASE i # n + 1
      <4>1. i \in 1 .. n /\ i \in 0 .. n /\ i - 1 \in 0 .. n
        BY <3>2
      <4>2. f[i] = step[<<i, f[i - 1]>>]
        BY <2>1, <4>1
      <4> QED BY <2>4, <4>1, <4>2
    <3> QED BY <3>1, <3>2
  <2> QED BY <2>4, <2>5, <2>6
<1>3. T = Nat
  <2>1. T \in SUBSET Nat /\ 0 \in T /\ \A n \in T : n + 1 \in T
    <3> HIDE DEF P
    <3> QED BY <1>1, <1>2
  <2> HIDE DEF T
  <2> QED BY <2>1, Induction
<1> QED BY <1>3 DEF Iterates

(* So does the function that MapThenFoldSet folds a finite set with: pick  *)
(* chooses the next element of a subset, step combines it with the value   *)
(* of what is left.                                                        *)
Folds(g, S, V, base, step, pick) ==
  /\ g \in [SUBSET S -> V]
  /\ \A s \in SUBSET S :
       g[s] = IF s = {} THEN base ELSE step[<<pick[s], g[s \ {pick[s]}]>>]

PicksFrom(pick, S) == \A s \in SUBSET S : s # {} => pick[s] \in s

LEMMA FoldExists ==
  ASSUME NEW S, IsFiniteSet(S), NEW V, NEW base \in V, NEW step \in [S \X V -> V],
         NEW pick, PicksFrom(pick, S)
  PROVE  \E g : Folds(g, S, V, base, step, pick)
<1> DEFINE D(n) == {s \in SUBSET S : Cardinality(s) <= n}
           Eq(g, s) == g[s] = IF s = {} THEN base ELSE step[<<pick[s], g[s \ {pick[s]}]>>]
           P(n) == \E g \in [D(n) -> V] : \A s \in D(n) : Eq(g, s)
           T == {n \in Nat : P(n)}
<1>1. \A s \in SUBSET S : IsFiniteSet(s) /\ Cardinality(s) \in Nat
  BY FS_Subset, FS_CardinalityType
<1>2. P(0)
  <2>1. D(0) = {{}}
    BY <1>1, FS_EmptySet
  <2>2. [s \in D(0) |-> base] \in [D(0) -> V] /\ \A s \in D(0) : Eq([t \in D(0) |-> base], s)
    BY <2>1
  <2> HIDE DEF D, Eq
  <2> QED BY <2>2
<1>3. ASSUME NEW n \in Nat, P(n) PROVE P(n + 1)
  <2>1. PICK g \in [D(n) -> V] : \A s \in D(n) : Eq(g, s)
    BY <1>3
  <2> DEFINE last(s) == step[<<pick[s], g[s \ {pick[s]}]>>]
             h == [s \in D(n + 1) |-> IF s \in D(n) THEN g[s] ELSE last(s)]
  <2>2. ASSUME NEW s \in D(n + 1), s # {}
        PROVE  pick[s] \in S /\ s \ {pick[s]} \in D(n)
    <3>1. pick[s] \in s /\ s \in SUBSET S
      BY <2>2 DEF PicksFrom
    <3>2. Cardinality(s \ {pick[s]}) = Cardinality(s) - 1
      BY <1>1, <3>1, FS_RemoveElement
    <3>3. Cardinality(s) <= n + 1 /\ Cardinality(s) \in Nat
      BY <1>1
    <3> QED BY <3>1, <3>2, <3>3
  <2>3. \A s \in D(n) : s \in D(n + 1) /\ g[s] \in V
    <3>1. \A s \in D(n) : s \in D(n + 1)
      BY <1>1
    <3> HIDE DEF D
    <3> QED BY <2>1, <3>1
  <2>4. \A s \in D(n + 1) \ D(n) : s # {}
    <3>1. Cardinality({}) = 0 /\ 0 <= n
      BY FS_EmptySet
    <3> QED BY <3>1
  <2>5. \A s \in D(n + 1) \ D(n) : last(s) \in V
    <3> HIDE DEF D
    <3>1. \A s \in D(n + 1) \ D(n) : <<pick[s], g[s \ {pick[s]}]>> \in S \X V
      BY <2>1, <2>2, <2>4
    <3> QED BY <3>1
  <2>6. /\ h \in [D(n + 1) -> V]
        /\ \A s \in D(n) : h[s] = g[s]
        /\ \A s \in D(n + 1) \ D(n) : h[s] = last(s)
    <3> HIDE DEF D, last
    <3> QED BY <2>1, <2>3, <2>5
  <2> HIDE DEF h, D
  <2>7. ASSUME NEW s \in D(n + 1) PROVE Eq(h, s)
    <3>1. CASE s = {}
      <4>1. s \in D(n)
        BY <2>4, <3>1
      <4> QED BY <2>1, <2>6, <3>1, <4>1
    <3>2. CASE s # {} /\ s \in D(n)
      <4>1. g[s] = step[<<pick[s], g[s \ {pick[s]}]>>]
        BY <2>1, <3>2
      <4>2. h[s \ {pick[s]}] = g[s \ {pick[s]}] /\ h[s] = g[s]
        BY <2>2, <2>6, <3>2
      <4> QED BY <3>2, <4>1, <4>2
    <3>3. CASE s \notin D(n)
      <4>1. h[s] = last(s) /\ s # {}
        BY <2>4, <2>6, <3>3
      <4>2. h[s \ {pick[s]}] = g[s \ {pick[s]}]
        BY <2>2, <2>6, <4>1
      <4> QED BY <4>1, <4>2
    <3> QED BY <3>1, <3>2, <3>3
  <2> HIDE DEF Eq
  <2> QED BY <2>6, <2>7
<1>4. T = Nat
  <2>1. T \in SUBSET Nat /\ 0 \in T /\ \A n \in T : n + 1 \in T
    <3> HIDE DEF P
    <3> QED BY <1>2, <1>3
  <2> HIDE DEF T
  <2> QED BY <2>1, Induction
<1>5. P(Cardinality(S))
  <2> HIDE DEF P
  <2> QED BY <1>1, <1>4
<1>6. D(Cardinality(S)) = SUBSET S
  BY FS_Subset
<1> HIDE DEF D
<1> QED BY <1>5, <1>6 DEF Folds

(* A finite set has a greatest element in a strict total order.            *)
TotalOrder(R, S) ==
  /\ \A x \in S : <<x, x>> \notin R
  /\ \A x, y, z \in S : <<x, y>> \in R /\ <<y, z>> \in R => <<x, z>> \in R
  /\ \A x, y \in S : x = y \/ <<x, y>> \in R \/ <<y, x>> \in R

LEMMA GreatestInOrder ==
  ASSUME NEW S, IsFiniteSet(S), NEW R, TotalOrder(R, S)
  PROVE  \A A \in SUBSET S : A # {} => \E m \in A : \A x \in A \ {m} : <<x, m>> \in R
<1> DEFINE Has(A) == A # {} => \E m \in A : \A x \in A \ {m} : <<x, m>> \in R
           F == {A \in SUBSET S : Has(A)}
<1>1. F \in SUBSET SUBSET S /\ {} \in F
  OBVIOUS
<1>2. ASSUME NEW A \in F, NEW y \in S \ A PROVE A \cup {y} \in F
  <2>1. CASE A = {}
    BY <2>1
  <2>2. CASE A # {}
    <3>1. PICK m \in A : \A x \in A \ {m} : <<x, m>> \in R
      BY <2>2
    <3>2. A \in SUBSET S /\ m \in S
      BY <3>1
    <3>3. CASE <<m, y>> \in R
      <4>1. \A x \in (A \cup {y}) \ {y} : <<x, y>> \in R
        BY <3>1, <3>2, <3>3 DEF TotalOrder
      <4> QED BY <3>2, <4>1
    <3>4. CASE <<y, m>> \in R
      <4>1. \A x \in (A \cup {y}) \ {m} : <<x, m>> \in R
        BY <3>1, <3>4
      <4> QED BY <3>1, <3>2, <4>1
    <3>5. m # y
      BY <3>1
    <3> QED BY <3>2, <3>3, <3>4, <3>5 DEF TotalOrder
  <2> QED BY <2>1, <2>2
<1>3. F = SUBSET S
  <2> HIDE DEF F
  <2> QED BY <1>1, <1>2, SetInduction
<1> QED BY <1>3

(* A finite set can be listed in such an order.                            *)
Lists(f, A, R) ==
  /\ f \in [1 .. Cardinality(A) -> A]
  /\ \A x \in A : \E i \in 1 .. Cardinality(A) : f[i] = x
  /\ \A i, j \in 1 .. Cardinality(A) : i < j => <<f[i], f[j]>> \in R

LEMMA SortedListExists ==
  ASSUME NEW S, IsFiniteSet(S), NEW R, TotalOrder(R, S)
  PROVE  \E f : Lists(f, S, R)
<1> DEFINE P(n) == \A A \in SUBSET S : Cardinality(A) = n => \E f : Lists(f, A, R)
           T == {n \in Nat : P(n)}
<1>1. \A A \in SUBSET S : IsFiniteSet(A) /\ Cardinality(A) \in Nat
  BY FS_Subset, FS_CardinalityType
<1>2. P(0)
  <2>1. ASSUME NEW A \in SUBSET S, Cardinality(A) = 0 PROVE \E f : Lists(f, A, R)
    <3>1. A = {}
      BY <1>1, <2>1, FS_EmptySet
    <3>2. Lists([i \in 1 .. 0 |-> 0], A, R)
      BY <2>1, <3>1 DEF Lists
    <3> QED BY <3>2
  <2> QED BY <2>1
<1>3. ASSUME NEW n \in Nat, P(n) PROVE P(n + 1)
  <2>1. ASSUME NEW A \in SUBSET S, Cardinality(A) = n + 1 PROVE \E f : Lists(f, A, R)
    <3>1. A # {}
      BY <2>1, FS_EmptySet
    <3>2. PICK m \in A : \A x \in A \ {m} : <<x, m>> \in R
      BY <3>1, GreatestInOrder
    <3> DEFINE B == A \ {m}
    <3>3. Cardinality(B) = n
      <4>1. Cardinality(B) = Cardinality(A) - 1
        BY <1>1, <3>2, FS_RemoveElement
      <4> QED BY <2>1, <4>1
    <3>4. PICK f : Lists(f, B, R)
      <4>1. B \in SUBSET S
        OBVIOUS
      <4> HIDE DEF B
      <4> QED BY <1>3, <3>3, <4>1
    <3> DEFINE g == [i \in 1 .. n + 1 |-> IF i = n + 1 THEN m ELSE f[i]]
    <3>5. /\ f \in [1 .. n -> B]
          /\ \A x \in B : \E i \in 1 .. n : f[i] = x
          /\ \A i, j \in 1 .. n : i < j => <<f[i], f[j]>> \in R
      <4> HIDE DEF B
      <4> QED BY <3>3, <3>4 DEF Lists
    <3>6. g[n + 1] = m /\ \A i \in 1 .. n : i \in 1 .. n + 1 /\ g[i] = f[i] /\ f[i] \in B
      BY <3>5
    <3>7. g \in [1 .. n + 1 -> A]
      BY <3>2, <3>5
    <3> HIDE DEF g
    <3>8. ASSUME NEW x \in A PROVE \E i \in 1 .. n + 1 : g[i] = x
      <4>1. CASE x = m
        BY <3>6, <4>1
      <4>2. CASE x # m
        <5>1. PICK i \in 1 .. n : f[i] = x
          BY <3>5, <4>2
        <5> QED BY <3>6, <5>1
      <4> QED BY <4>1, <4>2
    <3>9. ASSUME NEW i \in 1 .. n + 1, NEW j \in 1 .. n + 1, i < j PROVE <<g[i], g[j]>> \in R
      <4>1. i \in 1 .. n
        BY <3>9
      <4>2. CASE j = n + 1
        BY <3>2, <3>6, <4>1, <4>2
      <4>3. CASE j \in 1 .. n
        BY <3>5, <3>6, <3>9, <4>1, <4>3
      <4> QED BY <4>2, <4>3
    <3>10. Lists(g, A, R)
      BY <2>1, <3>7, <3>8, <3>9 DEF Lists
    <3> QED BY <3>10
  <2> QED BY <2>1
<1>4. T = Nat
  <2>1. T \in SUBSET Nat /\ 0 \in T /\ \A n \in T : n + 1 \in T
    <3> HIDE DEF P
    <3> QED BY <1>2, <1>3
  <2> HIDE DEF T
  <2> QED BY <2>1, Induction
<1>5. P(Cardinality(S))
  <2> HIDE DEF P
  <2> QED BY <1>1, <1>4
<1> QED BY <1>5

(* In such a list the k-th element has k - 1 elements before it.           *)
LEMMA RankInList ==
  ASSUME NEW S, IsFiniteSet(S), NEW R, TotalOrder(R, S), NEW f, Lists(f, S, R)
  PROVE  \A k \in 1 .. Cardinality(S) : Cardinality({y \in S : <<y, f[k]>> \in R}) = k - 1
<1> DEFINE N == Cardinality(S)
           before(x) == {y \in S : <<y, x>> \in R}
<1>1. N \in Nat
  BY FS_CardinalityType
<1> HIDE DEF N
<1>3. /\ f \in [1 .. N -> S]
      /\ \A x \in S : \E i \in 1 .. N : f[i] = x
      /\ \A i, j \in 1 .. N : i < j => <<f[i], f[j]>> \in R
  BY DEF Lists, N
<1>4. \A i, j \in 1 .. N : <<f[i], f[j]>> \in R => i < j
  <2> SUFFICES ASSUME NEW i \in 1 .. N, NEW j \in 1 .. N, <<f[i], f[j]>> \in R, ~ (i < j)
               PROVE  FALSE
    OBVIOUS
  <2>1. f[i] \in S /\ f[j] \in S
    BY <1>3
  <2>2. CASE i = j
    BY <2>1, <2>2 DEF TotalOrder
  <2>3. CASE j < i
    <3>1. <<f[j], f[i]>> \in R
      BY <1>3, <2>3
    <3> QED BY <2>1, <3>1 DEF TotalOrder
  <2>4. i = j \/ j < i
    BY <1>1
  <2> QED BY <2>2, <2>3, <2>4
<1>5. \A i, j \in 1 .. N : f[i] = f[j] => i = j
  <2> SUFFICES ASSUME NEW i \in 1 .. N, NEW j \in 1 .. N, f[i] = f[j], i # j PROVE FALSE
    OBVIOUS
  <2>1. i < j \/ j < i
    BY <1>1
  <2>2. <<f[i], f[i]>> \in R
    BY <1>3, <2>1
  <2> QED BY <1>3, <2>2 DEF TotalOrder
<1>6. ASSUME NEW k \in 1 .. N PROVE Cardinality(before(f[k])) = k - 1
  <2>1. k - 1 \in Nat /\ 1 .. k - 1 \subseteq 1 .. N
    BY <1>1
  <2>2. before(f[k]) = {f[i] : i \in 1 .. k - 1}
    <3>1. ASSUME NEW y \in before(f[k]) PROVE \E i \in 1 .. k - 1 : y = f[i]
      <4>1. PICK i \in 1 .. N : f[i] = y
        BY <1>3
      <4>2. i < k
        BY <1>4, <4>1
      <4>3. i \in 1 .. k - 1
        BY <4>1, <4>2
      <4> QED BY <4>1, <4>3
    <3>2. ASSUME NEW i \in 1 .. k - 1 PROVE f[i] \in before(f[k])
      <4>1. i \in 1 .. N /\ i < k
        BY <1>1
      <4> QED BY <1>3, <4>1
    <3> QED BY <3>1, <3>2
  <2> DEFINE h == [i \in 1 .. k - 1 |-> f[i]]
  <2>3. h \in Bijection(1 .. k - 1, before(f[k]))
    <3>1. h \in [1 .. k - 1 -> before(f[k])]
      BY <2>2
    <3>2. \A i, j \in 1 .. k - 1 : h[i] = h[j] => i = j
      BY <1>5, <2>1
    <3>3. \A y \in before(f[k]) : \E i \in 1 .. k - 1 : h[i] = y
      BY <2>2
    <3> HIDE DEF h, before
    <3> QED BY <3>1, <3>2, <3>3 DEF Bijection, Injection, Surjection, IsInjective
  <2>4. Cardinality(1 .. k - 1) = k - 1 /\ IsFiniteSet(1 .. k - 1)
    BY <2>1, FS_Interval
  <2> HIDE DEF before, h
  <2> QED BY <2>3, <2>4, FS_Bijection DEF ExistsBijection
<1> QED BY <1>6 DEF N

(* Some element has k - 1 elements before it.                              *)
LEMMA RankExists ==
  ASSUME NEW S, IsFiniteSet(S), NEW R, TotalOrder(R, S), NEW k \in 1 .. Cardinality(S)
  PROVE  \E x \in S : Cardinality({y \in S : <<y, x>> \in R}) = k - 1
<1>1. PICK f : Lists(f, S, R)
  BY SortedListExists
<1>2. f[k] \in S
  BY <1>1 DEF Lists
<1> QED BY <1>1, <1>2, RankInList

(* The element with k - 1 elements before it: numbering a finite set by    *)
(* how many come before lists it in order.                                 *)
ByRank(S, R) ==
  [k \in 1 .. Cardinality(S) |->
     CHOOSE x \in S : Cardinality({y \in S : <<y, x>> \in R}) = k - 1]

LEMMA RankedList ==
  ASSUME NEW S, IsFiniteSet(S), NEW R, TotalOrder(R, S)
  PROVE  Lists(ByRank(S, R), S, R)
<1> DEFINE N == Cardinality(S)
           before(x) == {y \in S : <<y, x>> \in R}
           g == [k \in 1 .. N |-> CHOOSE x \in S : Cardinality(before(x)) = k - 1]
<1>1. N \in Nat
  BY FS_CardinalityType
<1>2. PICK f : Lists(f, S, R)
  BY SortedListExists
<1> HIDE DEF N
<1>3. /\ f \in [1 .. N -> S]
      /\ \A x \in S : \E i \in 1 .. N : f[i] = x
      /\ \A i, j \in 1 .. N : i < j => <<f[i], f[j]>> \in R
  BY <1>2 DEF Lists, N
<1>5. \A i, j \in 1 .. N : f[i] = f[j] => i = j
  <2> SUFFICES ASSUME NEW i \in 1 .. N, NEW j \in 1 .. N, f[i] = f[j], i # j PROVE FALSE
    OBVIOUS
  <2>1. i < j \/ j < i
    BY <1>1
  <2>2. <<f[i], f[i]>> \in R
    BY <1>3, <2>1
  <2> QED BY <1>3, <2>2 DEF TotalOrder
<1>6. \A k \in 1 .. N : Cardinality(before(f[k])) = k - 1
  BY <1>2, RankInList DEF N
<1>7. \A k \in 1 .. N : g[k] = f[k]
  <2> SUFFICES ASSUME NEW k \in 1 .. N, NEW x \in S, Cardinality(before(x)) = k - 1 PROVE x = f[k]
    <3> HIDE DEF before
    <3> QED BY <1>3, <1>6
  <2>1. PICK i \in 1 .. N : f[i] = x
    BY <1>3
  <2>2. i - 1 = k - 1
    <3> HIDE DEF before
    <3> QED BY <1>6, <2>1
  <2> QED BY <1>1, <2>1, <2>2
<1>8. g = f
  <2> HIDE DEF before
  <2>1. DOMAIN f = 1 .. N
    BY <1>3
  <2>2. DOMAIN g = 1 .. N /\ g = [k \in 1 .. N |-> g[k]] /\ f = [k \in 1 .. N |-> f[k]]
    BY <1>3
  <2> HIDE DEF g
  <2> QED BY <1>7, <2>2
<1> QED BY <1>2, <1>8 DEF N, ByRank

(* A finite set has an element with the least time.                        *)
LEMMA LeastBy ==
  ASSUME NEW S, IsFiniteSet(S), NEW at \in [S -> Int]
  PROVE  \A A \in SUBSET S : A # {} => \E m \in A : \A x \in A : at[m] <= at[x]
<1> DEFINE Has(A) == A # {} => \E m \in A : \A x \in A : at[m] <= at[x]
           F == {A \in SUBSET S : Has(A)}
<1>1. F \in SUBSET SUBSET S /\ {} \in F
  OBVIOUS
<1>2. ASSUME NEW A \in F, NEW y \in S \ A PROVE A \cup {y} \in F
  <2>1. A \in SUBSET S /\ at[y] \in Int /\ \A x \in A : at[x] \in Int
    OBVIOUS
  <2>2. CASE A = {}
    <3>1. A \cup {y} = {y} /\ at[y] <= at[y]
      BY <2>1, <2>2
    <3> QED BY <2>1, <3>1
  <2>3. CASE A # {}
    <3>1. PICK m \in A : \A x \in A : at[m] <= at[x]
      BY <2>3
    <3>2. CASE at[m] <= at[y]
      BY <2>1, <3>1, <3>2
    <3>3. CASE at[y] <= at[m]
      <4>1. \A x \in A : at[y] <= at[x]
        BY <2>1, <3>1, <3>3
      <4> QED BY <2>1, <4>1
    <3> QED BY <2>1, <3>2, <3>3
  <2> QED BY <2>2, <2>3
<1>3. F = SUBSET S
  <2> HIDE DEF F
  <2> QED BY <1>1, <1>2, SetInduction
<1> QED BY <1>3

(* Induction along the times of a finite set.                              *)
LEMMA TimeInduction ==
  ASSUME NEW S, IsFiniteSet(S), NEW at \in [S -> Int], NEW G \in SUBSET S,
         \A r \in S : (\A p \in S : at[p] < at[r] => p \in G) => r \in G
  PROVE  G = S
<1> SUFFICES ASSUME S \ G # {} PROVE FALSE
  OBVIOUS
<1>1. PICK m \in S \ G : \A x \in S \ G : at[m] <= at[x]
  BY LeastBy
<1>2. \A p \in S : at[p] < at[m] => p \in G
  BY <1>1
<1> QED BY <1>1, <1>2

(* A function that is defined along times: for a root by first, otherwise  *)
(* by what it is for an earlier element.                                   *)
Leads(prev, root, S, at) == \A r \in S \ root : prev[r] \in S /\ at[prev[r]] < at[r]
Follows(f, prev, root, S, V, first, step) ==
  /\ f \in [S -> V]
  /\ \A r \in S : f[r] = IF r \in root THEN first[r] ELSE step[<<r, f[prev[r]]>>]

LEMMA TimeRecursion ==
  ASSUME NEW S, IsFiniteSet(S), NEW at \in [S -> Int], NEW V,
         NEW root \in SUBSET S, NEW first \in [S -> V], NEW step \in [S \X V -> V],
         NEW prev, Leads(prev, root, S, at)
  PROVE  \E f : Follows(f, prev, root, S, V, first, step)
<1> DEFINE Eq(f, r) == f[r] = IF r \in root THEN first[r] ELSE step[<<r, f[prev[r]]>>]
           Closed(D) == \A r \in D \ root : prev[r] \in D
           Done(D) == Closed(D) /\ \E f \in [D -> V] : \A r \in D : Eq(f, r)
           F == {D \in SUBSET S : Done(D)}
           T == {n \in Nat : n <= Cardinality(S) => \E D \in F : Cardinality(D) = n}
<1>1. \A D \in SUBSET S : IsFiniteSet(D) /\ Cardinality(D) \in Nat
  BY FS_Subset, FS_CardinalityType
<1>2. {} \in F
  <2>1. [r \in {} |-> r] \in [{} -> V]
    OBVIOUS
  <2> QED BY <2>1
<1>3. 0 \in T
  <2> HIDE DEF F
  <2> QED BY <1>2, FS_EmptySet
<1>4. ASSUME NEW D \in F, D # S
      PROVE  \E E \in F : Cardinality(E) = Cardinality(D) + 1
  <2>1. S \ D \in SUBSET S /\ S \ D # {}
    BY <1>4
  <2>2. PICK m \in S \ D : \A x \in S \ D : at[m] <= at[x]
    <3> HIDE DEF F
    <3> QED BY <2>1, LeastBy
  <2>3. PICK f \in [D -> V] : \A r \in D : Eq(f, r)
    OBVIOUS
  <2>4. m \notin root => prev[m] \in D
    <3> SUFFICES ASSUME m \notin root, prev[m] \in S \ D PROVE FALSE
      BY <2>2 DEF Leads
    <3>1. at[prev[m]] < at[m] /\ at[m] <= at[prev[m]] /\ at[m] \in Int /\ at[prev[m]] \in Int
      BY <2>2 DEF Leads
    <3> QED BY <3>1
  <2>5. D \in SUBSET S /\ Closed(D)
    OBVIOUS
  <2> DEFINE value == IF m \in root THEN first[m] ELSE step[<<m, f[prev[m]]>>]
             g == [r \in D \cup {m} |-> IF r = m THEN value ELSE f[r]]
  <2>6. value \in V
    <3>1. CASE m \in root
      BY <3>1
    <3>2. CASE m \notin root
      <4>1. <<m, f[prev[m]]>> \in S \X V
        BY <2>4, <3>2
      <4> QED BY <3>2, <4>1
    <3> QED BY <3>1, <3>2
  <2>7. /\ g \in [D \cup {m} -> V]
        /\ g[m] = value
        /\ \A r \in D : g[r] = f[r]
    <3> HIDE DEF value, F
    <3> QED BY <2>6
  <2> HIDE DEF g
  <2>8. \A r \in D \cup {m} : Eq(g, r)
    <3>1. Eq(g, m)
      BY <2>4, <2>7
    <3>2. ASSUME NEW r \in D PROVE Eq(g, r)
      <4>1. r \notin root => prev[r] \in D
        BY <2>5
      <4> QED BY <2>3, <2>7, <4>1
    <3> QED BY <3>1, <3>2
  <2>9. Closed(D \cup {m})
    BY <2>4, <2>5
  <2>10. D \cup {m} \in F
    <3>1. D \cup {m} \in SUBSET S
      BY <2>5
    <3> HIDE DEF Eq, Closed
    <3> QED BY <2>7, <2>8, <2>9, <3>1
  <2>11. Cardinality(D \cup {m}) = Cardinality(D) + 1
    BY <1>1, <2>2, <2>5, FS_AddElement
  <2> HIDE DEF F
  <2> QED BY <2>10, <2>11
<1>5. ASSUME NEW n \in T PROVE n + 1 \in T
  <2> SUFFICES ASSUME n + 1 <= Cardinality(S) PROVE \E D \in F : Cardinality(D) = n + 1
    OBVIOUS
  <2>1. n \in Nat /\ Cardinality(S) \in Nat
    BY <1>1
  <2>2. n <= Cardinality(S)
    BY <2>1
  <2>3. PICK D \in F : Cardinality(D) = n
    <3> HIDE DEF F
    <3> QED BY <2>2
  <2>4. D # S
    BY <2>1, <2>3
  <2> HIDE DEF F
  <2> QED BY <1>4, <2>3, <2>4
<1>6. T = Nat
  <2>1. T \in SUBSET Nat
    OBVIOUS
  <2> HIDE DEF T
  <2> QED BY <1>3, <1>5, <2>1, Induction
<1>7. PICK D \in F : Cardinality(D) = Cardinality(S)
  <2>1. Cardinality(S) \in Nat /\ Cardinality(S) <= Cardinality(S)
    BY <1>1
  <2> HIDE DEF F
  <2> QED BY <1>6, <2>1
<1>8. D = S
  <2>1. D \in SUBSET S
    OBVIOUS
  <2> HIDE DEF F
  <2> QED BY <1>7, <2>1, FS_Subset
<1> QED BY <1>8 DEF Follows

(* A property of the subsets of a finite set that holds for the empty one  *)
(* and for a subset when it does for what a fold leaves of it holds for    *)
(* all of them.                                                            *)
LEMMA PickInduction ==
  ASSUME NEW S, IsFiniteSet(S), NEW pick, PicksFrom(pick, S),
         NEW F \in SUBSET SUBSET S, {} \in F,
         \A s \in SUBSET S : s # {} /\ s \ {pick[s]} \in F => s \in F
  PROVE  F = SUBSET S
<1> DEFINE T == {n \in Nat : \A s \in SUBSET S : Cardinality(s) = n => s \in F}
<1>1. \A s \in SUBSET S : IsFiniteSet(s) /\ Cardinality(s) \in Nat
  BY FS_Subset, FS_CardinalityType
<1>2. 0 \in T
  BY <1>1, FS_EmptySet
<1>3. ASSUME NEW n \in T PROVE n + 1 \in T
  <2>1. ASSUME NEW s \in SUBSET S, Cardinality(s) = n + 1 PROVE s \in F
    <3>1. n \in Nat /\ n + 1 # 0
      OBVIOUS
    <3>2. s # {}
      BY <2>1, <3>1, FS_EmptySet
    <3>3. pick[s] \in s
      BY <3>2 DEF PicksFrom
    <3>4. Cardinality(s \ {pick[s]}) = Cardinality(s) - 1
      BY <1>1, <3>3, FS_RemoveElement
    <3>5. Cardinality(s \ {pick[s]}) = n /\ s \ {pick[s]} \in SUBSET S
      BY <2>1, <3>1, <3>4
    <3> QED BY <3>2, <3>5
  <2> QED BY <2>1
<1>4. T = Nat
  <2>1. T \in SUBSET Nat
    OBVIOUS
  <2> HIDE DEF T
  <2> QED BY <1>2, <1>3, <2>1, Induction
<1> QED BY <1>1, <1>4

(* The sum of f over a set, as MapThenSumSet adds it up.                   *)
Total(S, f) ==
  LET iter == CHOOSE g : g = [s \in SUBSET S |->
                                IF s = {} THEN 0
                                ELSE f[CHOOSE x \in s : TRUE] + g[s \ {CHOOSE x \in s : TRUE}]]
  IN  iter[S]

LEMMA TotalIs ==
  ASSUME NEW S, IsFiniteSet(S), NEW f \in [S -> Int],
         NEW R \in SUBSET ((SUBSET S) \X Int), <<{}, 0>> \in R,
         \A s \in SUBSET S : \A x \in s : \A n \in Int :
           <<s \ {x}, n>> \in R => <<s, f[x] + n>> \in R
  PROVE  <<S, Total(S, f)>> \in R
<1> DEFINE chosen(s) == CHOOSE x \in s : TRUE
           fold(g) == [s \in SUBSET S |-> IF s = {} THEN 0 ELSE f[chosen(s)] + g[s \ {chosen(s)}]]
           iter == CHOOSE g : g = fold(g)
           step == [z \in S \X Int |-> f[z[1]] + z[2]]
           pick == [s \in SUBSET S |-> chosen(s)]
<1>1. Total(S, f) = iter[S]
  BY DEF Total
<1> HIDE DEF chosen
<1>2. \A s \in SUBSET S : s # {} => chosen(s) \in s
  BY DEF chosen
<1>3. PicksFrom(pick, S)
  BY <1>2 DEF PicksFrom
<1>4. step \in [S \X Int -> Int]
  <2>1. \A z \in S \X Int : f[z[1]] + z[2] \in Int
    OBVIOUS
  <2> QED BY <2>1
<1>5. \A s \in SUBSET S : pick[s] = chosen(s)
  OBVIOUS
<1>6. \A x \in S, n \in Int : step[<<x, n>>] = f[x] + n
  OBVIOUS
<1> HIDE DEF step, pick
<1>7. PICK g : Folds(g, S, Int, 0, step, pick)
  <2>1. 0 \in Int
    OBVIOUS
  <2> QED BY <1>3, <1>4, <2>1, FoldExists
<1>8. /\ g \in [SUBSET S -> Int]
      /\ \A s \in SUBSET S : g[s] = IF s = {} THEN 0 ELSE step[<<pick[s], g[s \ {pick[s]}]>>]
  BY <1>7 DEF Folds
<1>9. \A s \in SUBSET S : s # {} => g[s] = f[chosen(s)] + g[s \ {chosen(s)}]
  <2> SUFFICES ASSUME NEW s \in SUBSET S, s # {} PROVE g[s] = f[chosen(s)] + g[s \ {chosen(s)}]
    OBVIOUS
  <2>1. chosen(s) \in S /\ s \ {chosen(s)} \in SUBSET S
    BY <1>2
  <2>2. g[s \ {chosen(s)}] \in Int
    BY <1>8, <2>1
  <2> QED BY <1>5, <1>6, <1>8, <2>1, <2>2
<1>10. g = fold(g)
  BY <1>8, <1>9
<1>11. iter = fold(iter)
  <2> HIDE DEF fold
  <2> QED BY <1>10
<1> HIDE DEF iter
<1>12. iter[{}] = 0 /\ \A s \in SUBSET S : s # {} => iter[s] = f[chosen(s)] + iter[s \ {chosen(s)}]
  BY <1>11
<1> DEFINE F == {s \in SUBSET S : iter[s] \in Int /\ <<s, iter[s]>> \in R}
<1>13. {} \in F /\ F \in SUBSET SUBSET S
  BY <1>12
<1>14. ASSUME NEW s \in SUBSET S, s # {}, s \ {pick[s]} \in F PROVE s \in F
  <2>1. pick[s] = chosen(s) /\ chosen(s) \in s
    BY <1>2, <1>5, <1>14
  <2>2. iter[s \ {chosen(s)}] \in Int /\ <<s \ {chosen(s)}, iter[s \ {chosen(s)}]>> \in R
    BY <1>14, <2>1
  <2>3. iter[s] = f[chosen(s)] + iter[s \ {chosen(s)}]
    BY <1>12, <1>14
  <2>4. f[chosen(s)] \in Int
    BY <2>1
  <2> QED BY <2>1, <2>2, <2>3, <2>4
<1>15. F = SUBSET S
  <2> HIDE DEF F
  <2> QED BY <1>3, <1>13, <1>14, PickInduction
<1> QED BY <1>1, <1>15

LEMMA TotalWithin ==
  ASSUME NEW S, IsFiniteSet(S), NEW f \in [S -> Int],
         NEW P \in SUBSET Int, 0 \in P, \A x \in S : \A n \in P : f[x] + n \in P
  PROVE  Total(S, f) \in P
<1> DEFINE R == (SUBSET S) \X P
<1>1. R \in SUBSET ((SUBSET S) \X Int) /\ <<{}, 0>> \in R
  OBVIOUS
<1>2. \A s \in SUBSET S : \A x \in s : \A n \in Int : <<s \ {x}, n>> \in R => <<s, f[x] + n>> \in R
  OBVIOUS
<1>3. <<S, Total(S, f)>> \in R
  <2> HIDE DEF R
  <2> QED BY <1>1, <1>2, TotalIs
<1> QED BY <1>3

LEMMA TotalSign ==
  ASSUME NEW S, IsFiniteSet(S), NEW f \in [S -> Int]
  PROVE  /\ Total(S, f) \in Int
         /\ (\A x \in S : f[x] >= 0) => Total(S, f) >= 0
         /\ (\A x \in S : f[x] <= 0) => Total(S, f) <= 0
<1>1. Total(S, f) \in Int
  BY TotalWithin
<1>2. ASSUME \A x \in S : f[x] >= 0 PROVE Total(S, f) >= 0
  <2> DEFINE P == {n \in Int : n >= 0}
  <2>1. P \in SUBSET Int /\ 0 \in P /\ \A x \in S : \A n \in P : f[x] + n \in P
    BY <1>2
  <2>2. Total(S, f) \in P
    <3> HIDE DEF P
    <3> QED BY <2>1, TotalWithin
  <2> QED BY <2>2
<1>3. ASSUME \A x \in S : f[x] <= 0 PROVE Total(S, f) <= 0
  <2> DEFINE P == {n \in Int : n <= 0}
  <2>1. P \in SUBSET Int /\ 0 \in P /\ \A x \in S : \A n \in P : f[x] + n \in P
    BY <1>3
  <2>2. Total(S, f) \in P
    <3> HIDE DEF P
    <3> QED BY <2>1, TotalWithin
  <2> QED BY <2>2
<1> QED BY <1>1, <1>2, <1>3

LEMMA TotalOfOne ==
  ASSUME NEW S, NEW y, S = {y}, NEW f \in [S -> Int]
  PROVE  Total(S, f) = f[y]
<1> DEFINE R == {<<{}, 0>>, <<{y}, f[y]>>}
<1>1. IsFiniteSet(S)
  BY FS_Singleton
<1>2. R \in SUBSET ((SUBSET S) \X Int) /\ <<{}, 0>> \in R
  OBVIOUS
<1>3. ASSUME NEW s \in SUBSET S, NEW x \in s, NEW n \in Int, <<s \ {x}, n>> \in R
      PROVE  <<s, f[x] + n>> \in R
  <2>1. x = y /\ s = {y} /\ s \ {x} = {} /\ f[y] \in Int
    OBVIOUS
  <2>2. n = 0
    BY <1>3, <2>1
  <2> QED BY <2>1, <2>2
<1>4. <<S, Total(S, f)>> \in R
  <2> HIDE DEF R
  <2> QED BY <1>1, <1>2, <1>3, TotalIs
<1> QED BY <1>4

(* The sign of a quotient and of a product. *)
LEMMA Signs ==
  /\ \A x \in Int, y \in Nat \ {0} : /\ x \div y \in Int
                                     /\ x >= 0 => x \div y >= 0
                                     /\ x <= 0 => x \div y <= 0
  /\ \A x \in Int, y \in Nat : /\ x * y \in Int /\ y * x \in Int
                               /\ x >= 0 => x * y >= 0 /\ y * x >= 0
                               /\ x <= 0 => x * y <= 0 /\ y * x <= 0
<1>1. \A x \in Int, y \in Nat \ {0} : x \div y \in Int
  OBVIOUS
<1>2. \A x \in Int, y \in Nat \ {0} : x >= 0 => x \div y >= 0
  OBVIOUS
<1>3. \A x \in Int, y \in Nat \ {0} : x <= 0 => x \div y <= 0
  OBVIOUS
<1>4. \A x \in Int, y \in Nat : x * y \in Int /\ y * x \in Int
  OBVIOUS
<1>5. \A x \in Int, y \in Nat : x >= 0 => x * y >= 0 /\ y * x >= 0
  OBVIOUS
<1>6. \A x \in Int, y \in Nat : x <= 0 => x * y <= 0 /\ y * x <= 0
  OBVIOUS
<1> QED BY <1>1, <1>2, <1>3, <1>4, <1>5, <1>6
=============================================================================
