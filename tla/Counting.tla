------------------------------- MODULE Counting -------------------------------
(***************************************************************************)
(* Facts about numbers, finite sets of them and lists that the proofs of   *)
(* this project share.                                                     *)
(***************************************************************************)
EXTENDS Integers, FiniteSets, Sequences, Functions, FiniteSetTheorems, SequenceTheorems, TLAPS

-----------------------------------------------------------------------------
(***************************************************************************)
(* Arithmetic.                                                             *)
(***************************************************************************)
LEMMA TimesMonotone ==
  ASSUME NEW b \in Nat, NEW c \in Int, NEW d \in Int, c <= d
  PROVE  c * b <= d * b
OBVIOUS

LEMMA TimesNext ==
  ASSUME NEW b \in Nat, NEW c \in Int
  PROVE  (c + 1) * b = c * b + b /\ c * b \in Int
OBVIOUS

\* The quotient and the remainder.
LEMMA DivMod ==
  ASSUME NEW n \in Nat \ {0}, NEW a \in Int
  PROVE  /\ a \div n \in Int /\ a % n \in 0 .. n - 1
         /\ (a \div n) * n \in Int
         /\ a = (a \div n) * n + (a % n)
OBVIOUS

\* A multiple of n that is less than n away from zero is zero.
LEMMA SmallMultiple ==
  ASSUME NEW n \in Nat \ {0}, NEW c \in Int, NEW d \in Int,
         c * n - d * n < n, d * n - c * n < n
  PROVE  c = d
<1>1. CASE c < d
  <2>1. (c + 1) * n <= d * n
    BY <1>1, TimesMonotone
  <2> QED
    BY <2>1, TimesNext
<1>2. CASE d < c
  <2>1. (d + 1) * n <= c * n
    BY <1>2, TimesMonotone
  <2> QED
    BY <2>1, TimesNext
<1> QED
  BY <1>1, <1>2

\* What the quotient and the remainder are.
LEMMA ModIs ==
  ASSUME NEW n \in Nat \ {0}, NEW a \in Int, NEW q \in Int, NEW k \in 0 .. n - 1,
         a = q * n + k
  PROVE  a % n = k /\ a \div n = q
<1>1. q * n \in Int
  OBVIOUS
<1>2. a \div n = q
  BY <1>1, DivMod, SmallMultiple
<1> QED
  BY <1>1, <1>2, DivMod

\* a and b have the same remainder if they differ by n.
LEMMA ModShift ==
  ASSUME NEW n \in Nat \ {0}, NEW a \in Int
  PROVE  (a + n) % n = a % n
<1> DEFINE q == a \div n
           k == a % n
<1>1. q \in Int /\ k \in 0 .. n - 1 /\ a = q * n + k
  BY DivMod
<1> HIDE DEF q, k
<1>2. a + n = (q + 1) * n + k
  BY <1>1, TimesNext
<1>3. (a + n) % n = k
  BY <1>1, <1>2, ModIs
<1> QED
  BY <1>3 DEF k

\* Numbers that differ by less than n have different remainders.
LEMMA ModInjective ==
  ASSUME NEW n \in Nat \ {0}, NEW a \in Int, NEW b \in Int,
         a - b < n, b - a < n, a % n = b % n
  PROVE  a = b
<1> DEFINE q == a \div n
           s == b \div n
           k == a % n
<1>1. q \in Int /\ s \in Int /\ k \in Int /\ a = q * n + k /\ b = s * n + k
  BY DivMod
<1> HIDE DEF q, s, k
<1>2. q * n \in Int /\ s * n \in Int
  BY <1>1
<1>3. q = s
  BY <1>1, <1>2, SmallMultiple
<1> QED
  BY <1>1, <1>3

LEMMA TimesCommute ==
  ASSUME NEW b \in Int, NEW c \in Int
  PROVE  b * c = c * b
OBVIOUS

-----------------------------------------------------------------------------
(***************************************************************************)
(* Least elements, which serve for induction: the least number without a   *)
(* property that its predecessors have.                                    *)
(***************************************************************************)
\* A nonempty set of numbers has a least one.
LEMMA LeastOf ==
  ASSUME NEW T \in SUBSET Nat, T # {}
  PROVE  \E x \in T : \A y \in T : x <= y
<1> DEFINE R == OpToRel(<, Nat)
<1>1. PICK x \in T : \A y \in T : ~(<<y, x>> \in R)
  <2>1. IsWellFoundedOn(R, Nat)
    BY NatLessThanWellFounded
  <2> HIDE DEF R
  <2> QED
    BY <2>1, WFMin
<1>2. \A y \in T : ~(y < x)
  <2>1. SUFFICES ASSUME NEW y \in T, y < x PROVE FALSE
    OBVIOUS
  <2>2. <<y, x>> \in OpToRel(<, Nat)
    BY <2>1 DEF OpToRel
  <2> QED
    BY <1>1, <2>2
<1> HIDE DEF R
<1> QED
  BY <1>2

-----------------------------------------------------------------------------
(***************************************************************************)
(* Counting.                                                               *)
(***************************************************************************)
\* The image of a finite set is finite.
LEMMA ImageFinite ==
  ASSUME NEW S, IsFiniteSet(S), NEW f
  PROVE  IsFiniteSet({f[x] : x \in S})
<1> DEFINE T == {f[x] : x \in S}
           g == [x \in S |-> f[x]]
<1>1. g \in Surjection(S, T)
  BY DEF Surjection
<1> HIDE DEF g, T
<1>2. IsFiniteSet(T)
  BY <1>1, FS_Surjection
<1> QED
  BY <1>2 DEF T

\* A map that keeps elements apart keeps their number.
LEMMA ImageCardinality ==
  ASSUME NEW S, IsFiniteSet(S), NEW f,
         \A x, y \in S : f[x] = f[y] => x = y
  PROVE  Cardinality({f[x] : x \in S}) = Cardinality(S)
<1> DEFINE T == {f[x] : x \in S}
           g == [x \in S |-> f[x]]
<1>1. g \in Bijection(S, T)
  BY DEF Bijection, Injection, IsInjective, Surjection
<1>2. ExistsBijection(S, T)
  BY <1>1 DEF ExistsBijection
<1> HIDE DEF T
<1>3. Cardinality(T) = Cardinality(S)
  BY <1>2, FS_Bijection
<1> QED
  BY <1>3 DEF T

\* A finite set of numbers has an element with p elements before it, for
\* every p that is less than their number.
LEMMA NthExists ==
  ASSUME NEW K \in SUBSET Nat, IsFiniteSet(K), NEW p \in Nat, p < Cardinality(K)
  PROVE  \E l \in K : Cardinality({k \in K : k < l}) = p
<1> DEFINE Before(l) == {k \in K : k < l}
           U == {n \in 0 .. p : ~\E l \in K : Cardinality(Before(l)) = n}
<1>1. Cardinality(K) \in Nat /\ \A l \in K : IsFiniteSet(Before(l))
  BY FS_CardinalityType, FS_Subset
<1>2. SUFFICES ASSUME U # {} PROVE FALSE
  OBVIOUS
<1>3. PICK n \in U : \A m \in U : n <= m
  <2>1. U \subseteq Nat
    OBVIOUS
  <2> HIDE DEF U
  <2> QED
    BY <1>2, <2>1, LeastOf
<1>4. n \in 0 .. p /\ ~\E l \in K : Cardinality(Before(l)) = n
  BY <1>3
<1>5. \E S \in SUBSET K : IsFiniteSet(S) /\ Cardinality(S) = n /\ \A k \in K \ S, s \in S : s < k
  <2>1. CASE n = 0
    BY <2>1, FS_EmptySet
  <2>2. CASE n # 0
    <3>1. n - 1 \in 0 .. p /\ n - 1 \notin U
      BY <1>3, <1>4, <2>2
    <3>2. PICK l \in K : Cardinality(Before(l)) = n - 1
      BY <3>1
    <3>3. IsFiniteSet(Before(l)) /\ l \notin Before(l)
      BY <1>1
    <3>4. /\ IsFiniteSet(Before(l) \cup {l})
          /\ Cardinality(Before(l) \cup {l}) = Cardinality(Before(l)) + 1
      <4> HIDE DEF Before
      <4> QED
        BY <3>3, FS_AddElement
    <3>5. \A k \in K \ (Before(l) \cup {l}), s \in Before(l) \cup {l} : s < k
      OBVIOUS
    <3>6. Before(l) \cup {l} \in SUBSET K
      OBVIOUS
    <3> QED
      BY <1>4, <3>2, <3>4, <3>5, <3>6
  <2> QED
    BY <2>1, <2>2
<1>6. PICK S \in SUBSET K : Cardinality(S) = n /\ \A k \in K \ S, s \in S : s < k
  BY <1>5
<1>7. K \ S # {}
  <2>1. SUFFICES ASSUME K \ S = {} PROVE FALSE
    OBVIOUS
  <2>2. S = K
    BY <1>6, <2>1
  <2> QED
    BY <1>1, <1>4, <1>6, <2>2
<1>8. PICK l \in K \ S : \A k \in K \ S : l <= k
  BY <1>7, LeastOf
<1>9. Before(l) = S
  <2>1. \A k \in S : k \in K /\ k < l
    BY <1>6, <1>8
  <2>2. \A k \in K : k < l => k \in S
    <3>1. \A k \in K \ S : l <= k /\ k \in Nat /\ l \in Nat
      BY <1>8
    <3> QED
      BY <3>1
  <2> QED
    BY <2>1, <2>2
<1> QED
  BY <1>4, <1>6, <1>8, <1>9
-----------------------------------------------------------------------------
(***************************************************************************)
(* Sums over finite sets.  The sums of the community modules take one      *)
(* element after another out of the set; their table is this one.          *)
(***************************************************************************)
OneOf(t) == CHOOSE x \in t : TRUE
SumStep(f, h, t) == IF t = {} THEN 0 ELSE f[OneOf(t)] + h[t \ {OneOf(t)}]
IsSumTable(h, f, S) == h = [t \in SUBSET S |-> SumStep(f, h, t)]

LEMMA OneLess ==
  ASSUME NEW t, IsFiniteSet(t), t # {}
  PROVE  /\ OneOf(t) \in t /\ IsFiniteSet(t \ {OneOf(t)})
         /\ Cardinality(t) \in Nat \ {0}
         /\ Cardinality(t \ {OneOf(t)}) = Cardinality(t) - 1
<1>1. OneOf(t) \in t
  BY DEF OneOf
<1>2. Cardinality(t) \in Nat /\ Cardinality(t) # 0
  BY FS_CardinalityType, FS_EmptySet
<1> QED
  BY <1>1, <1>2, FS_RemoveElement

\* The table exists.
LEMMA SumTableExists ==
  ASSUME NEW S, IsFiniteSet(S), NEW f
  PROVE  \E h : IsSumTable(h, f, S)
<1> DEFINE Upto(h, n) == \A t \in SUBSET S : Cardinality(t) <= n => h[t] = SumStep(f, h, t)
           U == {n \in Nat : ~\E h : Upto(h, n)}
<1>1. ASSUME U # {} PROVE FALSE
  <2>1. PICK n \in U : \A m \in U : n <= m
    <3>1. U \in SUBSET Nat
      OBVIOUS
    <3> HIDE DEF U
    <3> QED
      BY <1>1, <3>1, LeastOf
  <2>2. n \in Nat /\ ~\E h : Upto(h, n)
    OBVIOUS
  <2>3. CASE n = 0
    <3> DEFINE h == [t \in SUBSET S |-> 0]
    <3>1. \A t \in SUBSET S : Cardinality(t) <= 0 => t = {}
      <4>1. \A t \in SUBSET S : IsFiniteSet(t)
        BY FS_Subset
      <4> QED
        BY <4>1, FS_CardinalityType, FS_EmptySet
    <3>2. \A t \in SUBSET S : Cardinality(t) <= 0 => h[t] = SumStep(f, h, t)
      BY <3>1 DEF SumStep
    <3> QED
      BY <2>2, <2>3, <3>2
  <2>4. CASE n # 0
    <3>1. n - 1 \in Nat /\ n - 1 \notin U
      BY <2>1, <2>2, <2>4
    <3>2. PICK h : Upto(h, n - 1)
      BY <3>1
    <3> DEFINE k == [t \in SUBSET S |-> SumStep(f, h, t)]
    <3>3. ASSUME NEW t \in SUBSET S, Cardinality(t) <= n PROVE k[t] = SumStep(f, k, t)
      <4>1. k[t] = SumStep(f, h, t)
        OBVIOUS
      <4>2. CASE t = {}
        BY <4>1, <4>2 DEF SumStep
      <4>3. CASE t # {}
        <5> DEFINE s == t \ {OneOf(t)}
        <5>1. s \in SUBSET S /\ Cardinality(s) <= n - 1
          BY <2>2, <3>3, <4>3, OneLess, FS_Subset
        <5>2. h[s] = SumStep(f, h, s)
          BY <3>2, <5>1
        <5>3. k[s] = h[s]
          BY <5>1, <5>2
        <5> HIDE DEF k
        <5> QED
          BY <4>1, <4>3, <5>3 DEF SumStep
      <4> QED
        BY <4>2, <4>3
    <3> HIDE DEF k
    <3>4. Upto(k, n)
      BY <3>3
    <3> QED
      BY <2>2, <3>4
  <2> QED
    BY <2>3, <2>4
<1>2. Cardinality(S) \in Nat
  BY FS_CardinalityType
<1>3. PICK h : Upto(h, Cardinality(S))
  BY <1>1, <1>2
<1> DEFINE k == [t \in SUBSET S |-> h[t]]
<1>4. ASSUME NEW t \in SUBSET S PROVE k[t] = SumStep(f, k, t)
  <2>1. k[t] = SumStep(f, h, t)
    BY <1>3, FS_Subset
  <2>2. k[t \ {OneOf(t)}] = h[t \ {OneOf(t)}]
    OBVIOUS
  <2> HIDE DEF k
  <2> QED
    BY <2>1, <2>2 DEF SumStep
<1>5. k = [t \in SUBSET S |-> k[t]]
  OBVIOUS
<1> HIDE DEF k
<1>6. k = [t \in SUBSET S |-> SumStep(f, k, t)]
  BY <1>4, <1>5
<1> QED
  BY <1>6 DEF IsSumTable

\* What grows by the term of every element that is added is the sum.
LEMMA SumIs ==
  ASSUME NEW S, IsFiniteSet(S), NEW f, NEW h, IsSumTable(h, f, S), NEW g, g[{}] = 0,
         \A t \in SUBSET S : \A x \in t : g[t] = f[x] + g[t \ {x}]
  PROVE  h[S] = g[S]
<1> DEFINE U == {n \in Nat : \E t \in SUBSET S : Cardinality(t) = n /\ h[t] # g[t]}
<1>1. \A t \in SUBSET S : h[t] = SumStep(f, h, t) /\ IsFiniteSet(t)
  BY FS_Subset DEF IsSumTable
<1>2. ASSUME U # {} PROVE FALSE
  <2>1. PICK n \in U : \A m \in U : n <= m
    <3>1. U \in SUBSET Nat
      OBVIOUS
    <3> HIDE DEF U
    <3> QED
      BY <1>2, <3>1, LeastOf
  <2>2. PICK t \in SUBSET S : Cardinality(t) = n /\ h[t] # g[t]
    BY <2>1
  <2>3. t # {}
    BY <1>1, <2>2 DEF SumStep
  <2> DEFINE s == t \ {OneOf(t)}
  <2>4. OneOf(t) \in t /\ s \in SUBSET S /\ Cardinality(s) \in Nat /\ Cardinality(s) < n
    <3>1. IsFiniteSet(t)
      BY <1>1
    <3>2. /\ OneOf(t) \in t /\ Cardinality(t) \in Nat \ {0}
          /\ Cardinality(t \ {OneOf(t)}) = Cardinality(t) - 1
      BY <2>3, <3>1, OneLess
    <3> QED
      BY <2>2, <3>2
  <2>5. Cardinality(s) \notin U
    <3>1. Cardinality(s) \in U => n <= Cardinality(s)
      BY <2>1
    <3>2. n \in Nat
      BY <2>1
    <3> HIDE DEF U
    <3> QED
      BY <2>4, <3>1, <3>2
  <2>6. h[s] = g[s]
    BY <2>4, <2>5
  <2>7. h[t] = f[OneOf(t)] + h[s] /\ g[t] = f[OneOf(t)] + g[s]
    BY <1>1, <2>3, <2>4 DEF SumStep
  <2> QED
    BY <2>2, <2>6, <2>7
<1>3. Cardinality(S) \in Nat
  BY FS_CardinalityType
<1> QED
  BY <1>2, <1>3

\* A sum of which every term is b, and one more by a.
LEMMA SumWithOne ==
  ASSUME NEW S, IsFiniteSet(S), NEW f, NEW h, IsSumTable(h, f, S),
         NEW a \in Int, NEW b \in Int, NEW y,
         \A x \in S : f[x] = (IF x = y THEN a ELSE 0) + b
  PROVE  h[S] = (IF y \in S THEN a ELSE 0) + b * Cardinality(S)
<1> DEFINE g == [t \in SUBSET S |-> (IF y \in t THEN a ELSE 0) + b * Cardinality(t)]
<1>1. g[{}] = 0
  BY FS_EmptySet
<1>2. ASSUME NEW t \in SUBSET S, NEW x \in t PROVE g[t] = f[x] + g[t \ {x}]
  <2>1. IsFiniteSet(t) /\ Cardinality(t) \in Nat
    BY FS_Subset, FS_CardinalityType
  <2> DEFINE m == Cardinality(t)
             k == Cardinality(t \ {x})
  <2>2. m \in Nat /\ k = m - 1
    BY FS_Subset, FS_CardinalityType, FS_RemoveElement
  <2>3. /\ g[t] = (IF y \in t THEN a ELSE 0) + b * m
        /\ g[t \ {x}] = (IF y \in t \ {x} THEN a ELSE 0) + b * k
    OBVIOUS
  <2> HIDE DEF g, m, k
  <2>4. b * m = b * k + b /\ b * k \in Int
    BY <2>2
  <2> QED
    BY <2>3, <2>4
<1> HIDE DEF g
<1>3. h[S] = g[S]
  BY <1>1, <1>2, SumIs
<1> QED
  BY <1>3 DEF g

\* A sum is natural, and any element may be taken out first.
LEMMA SumTakesAny ==
  ASSUME NEW S, IsFiniteSet(S), NEW f, \A x \in S : f[x] \in Nat, NEW h, IsSumTable(h, f, S),
         NEW t \in SUBSET S
  PROVE  h[t] \in Nat /\ \A x \in t : h[t] = f[x] + h[t \ {x}]
<1> DEFINE Good(s) == h[s] \in Nat /\ \A x \in s : h[s] = f[x] + h[s \ {x}]
           U == {n \in Nat : \E s \in SUBSET S : Cardinality(s) = n /\ ~Good(s)}
<1>1. \A s \in SUBSET S : h[s] = SumStep(f, h, s) /\ IsFiniteSet(s)
  BY FS_Subset DEF IsSumTable
<1>2. ASSUME U # {} PROVE FALSE
  <2>1. PICK n \in U : \A m \in U : n <= m
    <3>1. U \in SUBSET Nat
      OBVIOUS
    <3> HIDE DEF U
    <3> QED
      BY <1>2, <3>1, LeastOf
  <2>2. PICK s \in SUBSET S : Cardinality(s) = n /\ ~Good(s)
    BY <2>1
  <2>3. ASSUME NEW r \in SUBSET S, IsFiniteSet(r), Cardinality(r) < n PROVE Good(r)
    <3>1. Cardinality(r) \in Nat /\ ~(n <= Cardinality(r))
      BY <2>1, <2>3, FS_CardinalityType
    <3>2. Cardinality(r) \notin U
      <4> HIDE DEF U
      <4> QED
        BY <2>1, <3>1
    <3> HIDE DEF Good
    <3> QED
      BY <3>1, <3>2
  <2>4. CASE s = {}
    BY <1>1, <2>2, <2>4 DEF SumStep
  <2>5. CASE s # {}
    <3> DEFINE y == OneOf(s)
    <3>1. /\ y \in s /\ h[s] = f[y] + h[s \ {y}]
          /\ Cardinality(s \ {y}) < n /\ IsFiniteSet(s \ {y}) /\ n \in Nat
      <4>1. y \in s /\ IsFiniteSet(s \ {y}) /\ Cardinality(s) \in Nat \ {0}
            /\ Cardinality(s \ {y}) = Cardinality(s) - 1
        BY <1>1, <2>5, OneLess
      <4>2. h[s] = f[y] + h[s \ {y}]
        BY <1>1, <2>5 DEF SumStep
      <4> HIDE DEF y
      <4> QED
        BY <2>2, <4>1, <4>2
    <3> HIDE DEF y
    <3>2. Good(s \ {y})
      BY <2>3, <3>1
    <3>3. f[y] \in Nat /\ h[s] \in Nat
      BY <3>1, <3>2
    <3>4. ASSUME NEW x \in s, x # y PROVE h[s] = f[x] + h[s \ {x}]
      <4> DEFINE r == (s \ {y}) \ {x}
      <4>1. r = (s \ {x}) \ {y} /\ y \in s \ {x} /\ x \in s \ {y}
        BY <3>1, <3>4
      <4>2. Cardinality(s \ {x}) < n /\ IsFiniteSet(s \ {x})
        <5>1. IsFiniteSet(s) /\ Cardinality(s) \in Nat
          BY <1>1, FS_CardinalityType
        <5>2. IsFiniteSet(s \ {x}) /\ Cardinality(s \ {x}) = Cardinality(s) - 1
          BY <5>1, FS_RemoveElement
        <5> QED
          BY <2>2, <5>1, <5>2
      <4>3. Good(s \ {x})
        BY <2>3, <4>2
      <4>4. h[s \ {x}] = f[y] + h[r]
        BY <4>1, <4>3
      <4>5. h[s \ {y}] = f[x] + h[r]
        BY <3>2, <4>1
      <4>6. h[r] \in Nat /\ f[x] \in Nat
        <5>1. Cardinality(r) < n /\ IsFiniteSet(r)
          <6>1. r \in SUBSET (s \ {x})
            BY <4>1
          <6>2. IsFiniteSet(r) /\ Cardinality(r) <= Cardinality(s \ {x})
            BY <4>2, <6>1, FS_Subset
          <6>3. Cardinality(r) \in Nat /\ Cardinality(s \ {x}) \in Nat
            BY <4>2, <6>2, FS_CardinalityType
          <6> HIDE DEF r
          <6> QED
            BY <3>1, <4>2, <6>2, <6>3
        <5> QED
          BY <2>3, <5>1
      <4> HIDE DEF r
      <4> QED
        BY <3>1, <3>3, <4>4, <4>5, <4>6
    <3> QED
      BY <2>2, <3>1, <3>3, <3>4
  <2> QED
    BY <2>4, <2>5
<1>3. Cardinality(t) \in Nat
  BY <1>1, FS_CardinalityType
<1>4. Good(t)
  <2> HIDE DEF Good
  <2> QED
    BY <1>2, <1>3
<1> QED
  BY <1>4

\* One more element adds its term.
LEMMA SumGrows ==
  ASSUME NEW S, IsFiniteSet(S), NEW y, y \notin S, NEW f, \A x \in S \cup {y} : f[x] \in Nat,
         NEW h, IsSumTable(h, f, S), NEW k, IsSumTable(k, f, S \cup {y})
  PROVE  k[S \cup {y}] = f[y] + h[S] /\ h[S] \in Nat
<1> DEFINE T == S \cup {y}
<1>1. IsFiniteSet(T)
  BY FS_AddElement
<1>2. \A t \in SUBSET T : k[t] \in Nat /\ \A x \in t : k[t] = f[x] + k[t \ {x}]
  <2>1. IsSumTable(k, f, T) /\ \A x \in T : f[x] \in Nat
    OBVIOUS
  <2> HIDE DEF T
  <2>2. PICK R : R = T
    OBVIOUS
  <2>3. IsFiniteSet(R) /\ IsSumTable(k, f, R) /\ \A x \in R : f[x] \in Nat
    BY <1>1, <2>1, <2>2
  <2>4. ASSUME NEW t \in SUBSET R PROVE k[t] \in Nat
    BY <2>3, SumTakesAny
  <2>5. ASSUME NEW t \in SUBSET R, NEW x \in t PROVE k[t] = f[x] + k[t \ {x}]
    BY <2>3, SumTakesAny
  <2> QED
    BY <2>2, <2>4, <2>5
<1>3. k[T] = f[y] + k[S]
  <2>1. T \ {y} = S /\ T \in SUBSET T /\ y \in T
    OBVIOUS
  <2> HIDE DEF T
  <2> QED
    BY <1>2, <2>1
<1>4. k[{}] = 0
  BY DEF IsSumTable, SumStep
<1>5. \A t \in SUBSET S : \A x \in t : k[t] = f[x] + k[t \ {x}]
  BY <1>2
<1>6. h[S] = k[S]
  BY <1>4, <1>5, SumIs
<1> QED
  BY <1>2, <1>3, <1>6

-----------------------------------------------------------------------------
(***************************************************************************)
(* Lists.                                                                  *)
(***************************************************************************)
IsList(s) == s \in Seq({s[i] : i \in DOMAIN s})

LEMMA ListIs ==
  ASSUME NEW S, NEW s \in Seq(S)
  PROVE  IsList(s)
<1>1. Len(s) \in Nat /\ DOMAIN s = 1 .. Len(s) /\ s \in [1 .. Len(s) -> S]
  BY LenProperties
<1>2. s \in [1 .. Len(s) -> {s[i] : i \in DOMAIN s}]
  BY <1>1
<1> QED
  BY <1>1, <1>2, SeqDef DEF IsList

LEMMA ListFacts ==
  ASSUME NEW s, IsList(s)
  PROVE  /\ Len(s) \in Nat /\ DOMAIN s = 1 .. Len(s)
         /\ s = [i \in 1 .. Len(s) |-> s[i]]
         /\ s = <<>> <=> Len(s) = 0
BY LenProperties, EmptySeq DEF IsList

LEMMA ListOf ==
  ASSUME NEW n \in Nat, NEW s, s = [i \in 1 .. n |-> s[i]]
  PROVE  IsList(s) /\ Len(s) = n /\ DOMAIN s = 1 .. n
<1>1. s \in [1 .. n -> {s[i] : i \in DOMAIN s}]
  OBVIOUS
<1>2. s \in Seq({s[i] : i \in DOMAIN s})
  BY <1>1, SeqDef
<1> QED
  BY <1>2, LenProperties DEF IsList

LEMMA ListsAgree ==
  ASSUME NEW s, IsList(s), NEW t, IsList(t)
  PROVE  \E S : s \in Seq(S) /\ t \in Seq(S)
<1> DEFINE S == {s[i] : i \in DOMAIN s} \cup {t[i] : i \in DOMAIN t}
<1>1. s \in Seq(S)
  BY SeqMonotonic, {s[i] : i \in DOMAIN s} \subseteq S DEF IsList
<1>2. t \in Seq(S)
  BY SeqMonotonic, {t[i] : i \in DOMAIN t} \subseteq S DEF IsList
<1> QED
  BY <1>1, <1>2

LEMMA Joined ==
  ASSUME NEW s, IsList(s), NEW t, IsList(t)
  PROVE  /\ IsList(s \o t) /\ Len(s \o t) = Len(s) + Len(t)
         /\ \A i \in 1 .. Len(s) : (s \o t)[i] = s[i]
         /\ \A i \in 1 .. Len(t) : (s \o t)[Len(s) + i] = t[i]
         /\ \A i \in 1 .. Len(s) + Len(t) :
              (s \o t)[i] = IF i <= Len(s) THEN s[i] ELSE t[i - Len(s)]
<1>1. PICK S : s \in Seq(S) /\ t \in Seq(S)
  BY ListsAgree
<1>2. /\ s \o t \in Seq(S)
      /\ Len(s \o t) = Len(s) + Len(t)
      /\ \A i \in 1 .. Len(s) + Len(t) :
           (s \o t)[i] = IF i <= Len(s) THEN s[i] ELSE t[i - Len(s)]
  BY <1>1, ConcatProperties
<1>3. Len(s) \in Nat /\ Len(t) \in Nat
  BY ListFacts
<1>4. IsList(s \o t)
  BY <1>2, ListIs
<1>5. \A i \in 1 .. Len(s) : (s \o t)[i] = s[i]
  BY <1>2, <1>3
<1>6. ASSUME NEW i \in 1 .. Len(t) PROVE (s \o t)[Len(s) + i] = t[i]
  <2>1. Len(s) + i \in 1 .. Len(s) + Len(t) /\ ~(Len(s) + i <= Len(s)) /\ Len(s) + i - Len(s) = i
    BY <1>3
  <2> QED
    BY <1>2, <2>1
<1> QED
  BY <1>2, <1>4, <1>5, <1>6

\* Two lists are equal when they agree everywhere.
LEMMA SameList ==
  ASSUME NEW s, IsList(s), NEW t, IsList(t), Len(s) = Len(t),
         \A i \in 1 .. Len(s) : s[i] = t[i]
  PROVE  s = t
<1>1. s = [i \in 1 .. Len(s) |-> s[i]] /\ t = [i \in 1 .. Len(t) |-> t[i]]
  BY ListFacts
<1> QED
  BY <1>1

LEMMA JoinAssociates ==
  ASSUME NEW s, IsList(s), NEW t, IsList(t), NEW u, IsList(u)
  PROVE  (s \o t) \o u = s \o (t \o u)
<1> DEFINE S == {s[i] : i \in DOMAIN s} \cup {t[i] : i \in DOMAIN t} \cup {u[i] : i \in DOMAIN u}
<1>1. s \in Seq(S)
  BY SeqMonotonic, {s[i] : i \in DOMAIN s} \subseteq S DEF IsList
<1>2. t \in Seq(S)
  BY SeqMonotonic, {t[i] : i \in DOMAIN t} \subseteq S DEF IsList
<1>3. u \in Seq(S)
  BY SeqMonotonic, {u[i] : i \in DOMAIN u} \subseteq S DEF IsList
<1> HIDE DEF S
<1> QED
  BY <1>1, <1>2, <1>3, ConcatAssociative

LEMMA NoList ==
  /\ IsList(<<>>) /\ Len(<<>>) = 0
  /\ \A s : IsList(s) => <<>> \o s = s /\ s \o <<>> = s
<1>1. IsList(<<>>) /\ Len(<<>>) = 0
  BY EmptySeq, ListIs
<1>2. ASSUME NEW s, IsList(s) PROVE <<>> \o s = s /\ s \o <<>> = s
  BY <1>2, ConcatEmptySeq DEF IsList
<1> QED
  BY <1>1, <1>2

LEMMA OneStep ==
  ASSUME NEW x
  PROVE  IsList(<<x>>) /\ Len(<<x>>) = 1 /\ <<x>>[1] = x /\ <<x>> # <<>>
<1>1. <<x>> \in Seq({x})
  OBVIOUS
<1> QED
  BY <1>1, ListIs

LEMMA HeadAndTail ==
  ASSUME NEW s, IsList(s), s # <<>>
  PROVE  /\ Head(s) = s[1] /\ IsList(Tail(s)) /\ Len(Tail(s)) = Len(s) - 1 /\ Len(s) > 0
         /\ \A i \in 1 .. Len(s) - 1 : Tail(s)[i] = s[i + 1]
<1>1. PICK S : s \in Seq(S)
  BY DEF IsList
<1>2. Tail(s) \in Seq(S)
  BY <1>1, HeadTailProperties
<1>3. Len(s) \in Nat \ {0}
  BY <1>1, EmptySeq
<1>4. /\ Len(Tail(s)) = Len(s) - 1
      /\ \A i \in 1 .. Len(Tail(s)) : Tail(s)[i] = s[i + 1]
  BY <1>1, <1>3, HeadTailProperties
<1>5. Head(s) = s[1]
  BY <1>1
<1>6. IsList(Tail(s))
  BY <1>2, ListIs
<1> QED
  BY <1>3, <1>4, <1>5, <1>6

LEMMA HeadOfJoin ==
  ASSUME NEW s, IsList(s), s # <<>>, NEW t, IsList(t)
  PROVE  s \o t # <<>> /\ Head(s \o t) = Head(s) /\ Tail(s \o t) = Tail(s) \o t
<1>1. IsList(s \o t) /\ Len(s \o t) = Len(s) + Len(t) /\ Len(s) \in Nat \ {0} /\ Len(t) \in Nat
  BY Joined, ListFacts
<1>2. s \o t # <<>>
  BY <1>1, ListFacts
<1>3. Head(s \o t) = Head(s)
  BY <1>1, <1>2, HeadAndTail, Joined
<1>4. IsList(Tail(s \o t)) /\ IsList(Tail(s)) /\ Len(Tail(s \o t)) = Len(s) + Len(t) - 1
      /\ Len(Tail(s)) = Len(s) - 1
  <2>1. \A u : IsList(u) /\ u # <<>> => IsList(Tail(u)) /\ Len(Tail(u)) = Len(u) - 1
    BY HeadAndTail
  <2>2. IsList(Tail(s \o t)) /\ Len(Tail(s \o t)) = Len(s \o t) - 1
    BY <1>1, <1>2, <2>1
  <2>3. IsList(Tail(s)) /\ Len(Tail(s)) = Len(s) - 1
    BY <2>1
  <2> QED
    BY <1>1, <2>2, <2>3
<1>5. IsList(Tail(s) \o t) /\ Len(Tail(s) \o t) = Len(s) - 1 + Len(t)
  BY <1>4, Joined
<1>6. ASSUME NEW i \in 1 .. Len(s) + Len(t) - 1 PROVE Tail(s \o t)[i] = (Tail(s) \o t)[i]
  <2>1. Tail(s \o t)[i] = (s \o t)[i + 1]
    BY <1>1, <1>2, HeadAndTail
  <2>2. (s \o t)[i + 1] = IF i + 1 <= Len(s) THEN s[i + 1] ELSE t[i + 1 - Len(s)]
    BY <1>1, Joined
  <2>3. (Tail(s) \o t)[i] = IF i <= Len(s) - 1 THEN Tail(s)[i] ELSE t[i - (Len(s) - 1)]
    BY <1>1, <1>4, Joined
  <2>4. i <= Len(s) - 1 => Tail(s)[i] = s[i + 1]
    BY <1>1, HeadAndTail
  <2>5. i + 1 - Len(s) = i - (Len(s) - 1) /\ (i + 1 <= Len(s) <=> i <= Len(s) - 1)
    BY <1>1
  <2> QED
    BY <2>1, <2>2, <2>3, <2>4, <2>5
<1>7. Tail(s \o t) = Tail(s) \o t
  BY <1>1, <1>4, <1>5, <1>6, SameList
<1> QED
  BY <1>2, <1>3, <1>7

Lists(a, b, c, d) == IsList(a) /\ IsList(b) /\ IsList(c) /\ IsList(d)

LEMMA JoinFour ==
  ASSUME NEW a, NEW b, NEW c, NEW d, Lists(a, b, c, d)
  PROVE  ((a \o b) \o c) \o d = a \o (b \o (c \o d))
<1>0. IsList(a) /\ IsList(b) /\ IsList(c) /\ IsList(d)
  BY DEF Lists
<1>1. PICK x, y, z : x = a \o b /\ y = c \o d /\ z = b \o y
  OBVIOUS
<1>2. IsList(x)
  BY <1>0, <1>1, Joined
<1>3. IsList(y)
  BY <1>0, <1>1, Joined
<1>4. (x \o c) \o d = x \o y
  <2>1. (x \o c) \o d = x \o (c \o d)
    BY <1>0, <1>2, JoinAssociates
  <2> QED
    BY <1>1, <2>1
<1>5. x \o y = a \o z
  <2>1. (a \o b) \o y = a \o (b \o y)
    BY <1>0, <1>3, JoinAssociates
  <2> QED
    BY <1>1, <2>1
<1> QED
  BY <1>1, <1>4, <1>5

LEMMA JoinThree ==
  ASSUME NEW a, NEW b, NEW c, NEW d, Lists(a, b, c, d)
  PROVE  (a \o b) \o c = a \o (b \o c)
BY JoinAssociates, SMTT(30) DEF Lists

LEMMA FirstOfJoin ==
  ASSUME NEW x, NEW t, IsList(t)
  PROVE  /\ IsList(<<x>> \o t) /\ <<x>> \o t # <<>>
         /\ Head(<<x>> \o t) = x /\ Tail(<<x>> \o t) = t
<1>1. IsList(<<x>>) /\ <<x>> # <<>> /\ Head(<<x>>) = x /\ Tail(<<x>>) = <<>>
  <2>1. PICK s : s = <<x>>
    OBVIOUS
  <2>2. IsList(s) /\ Len(s) = 1 /\ s[1] = x /\ s # <<>>
    BY <2>1, OneStep
  <2>3. Head(s) = x /\ IsList(Tail(s)) /\ Len(Tail(s)) = 0
    BY <2>2, HeadAndTail
  <2>4. Tail(s) = <<>>
    BY <2>3, ListFacts
  <2> QED
    BY <2>1, <2>2, <2>3, <2>4
<1>2. PICK s : s = <<x>>
  OBVIOUS
<1>3. s \o t # <<>> /\ Head(s \o t) = Head(s) /\ Tail(s \o t) = Tail(s) \o t /\ IsList(s \o t)
  BY <1>1, <1>2, HeadOfJoin, Joined
<1>4. Tail(s) \o t = t
  BY <1>1, <1>2, NoList
<1> QED
  BY <1>1, <1>2, <1>3, <1>4
=============================================================================
