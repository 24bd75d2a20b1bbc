------------------------------ MODULE Numbers ------------------------------
(***************************************************************************)
(* Facts about sets of integers that the proofs of several components need:*)
(* the code looks for the first epoch, the oldest records or the last of a *)
(* run, and the models say so with CHOOSE.  That such an element exists is *)
(* proved here from the well-foundedness of the finite intervals.          *)
(***************************************************************************)
EXTENDS Integers, FiniteSets, FiniteSetTheorems, WellFoundedInduction, TLAPS

-----------------------------------------------------------------------------
(* A set of naturals has a least element: of the intervals that its        *)
(* elements end, one contains no other.                                    *)
LEMMA LeastNat ==
  ASSUME NEW T \in SUBSET Nat, T # {}
  PROVE  \E x \in T : \A y \in T : x <= y
<1>1. PICK n \in T : TRUE
  OBVIOUS
<1>. DEFINE D == 0 .. n
            below(x) == 0 .. x
            F == {below(x) : x \in T \cap D}
            R == StrictSubsetOrdering(D)
<1>2. IsFiniteSet(D)
  BY FS_Interval
<1>3. IsWellFoundedOn(R, SUBSET D)
  BY <1>2, FS_StrictSubsetOrderingWellFounded, FS_FiniteSubsetsOfFinite
<1>4. F \subseteq SUBSET D /\ F # {}
  BY <1>1
<1>5. PICK b \in F : \A c \in F : ~ (<<c, b>> \in R)
  <2>. HIDE DEF F, R, D
  <2>. QED
    BY <1>3, <1>4, WFMin
<1>6. PICK x \in T \cap D : b = below(x)
  BY <1>5
<1>7. ASSUME NEW y \in T, y < x PROVE FALSE
  <2>1. y \in D /\ below(y) \in F
    BY <1>1, <1>6, <1>7
  <2>2. below(y) \subseteq below(x) /\ x \in below(x) /\ x \notin below(y)
    BY <1>6, <1>7
  <2>3. <<below(y), below(x)>> \in R
    BY <1>4, <1>6, <2>1, <2>2 DEF StrictSubsetOrdering
  <2>. QED
    BY <1>5, <1>6, <2>1, <2>3
<1>. QED
  BY <1>7, <1>6

(* A set of integers that is bounded below has a least element.            *)
LEMMA LeastInt ==
  ASSUME NEW T \in SUBSET Int, T # {}, NEW b \in Int, \A y \in T : b <= y
  PROVE  \E x \in T : \A y \in T : x <= y
<1>. DEFINE U == {y - b : y \in T}
<1>1. U \in SUBSET Nat /\ U # {}
  OBVIOUS
<1>2. PICK u \in U : \A v \in U : u <= v
  BY <1>1, LeastNat
<1>3. PICK x \in T : u = x - b
  BY <1>2
<1>4. ASSUME NEW y \in T PROVE x <= y
  <2>1. y - b \in U
    OBVIOUS
  <2>2. x - b <= y - b
    BY <1>2, <1>3, <2>1
  <2>. QED
    BY <2>2
<1>. QED
  BY <1>4

(* A set of integers that is bounded above has a greatest element.         *)
LEMMA GreatestInt ==
  ASSUME NEW T \in SUBSET Int, T # {}, NEW b \in Int, \A y \in T : y <= b
  PROVE  \E x \in T : \A y \in T : y <= x
<1>. DEFINE U == {b - y : y \in T}
<1>1. U \in SUBSET Nat /\ U # {}
  OBVIOUS
<1>2. PICK u \in U : \A v \in U : u <= v
  BY <1>1, LeastNat
<1>3. PICK x \in T : u = b - x
  BY <1>2
<1>4. ASSUME NEW y \in T PROVE y <= x
  <2>1. b - y \in U
    OBVIOUS
  <2>2. b - x <= b - y
    BY <1>2, <1>3, <2>1
  <2>. QED
    BY <2>2
<1>. QED
  BY <1>4

(* A finite set of naturals is bounded.                                    *)
LEMMA FiniteIsBounded ==
  ASSUME NEW S \in SUBSET Nat, IsFiniteSet(S)
  PROVE  \E b \in Nat : \A x \in S : x <= b
<1>1. CASE S = {}
  BY <1>1
<1>2. CASE S # {} /\ \A b \in Nat : \E x \in S : x > b
  <2>. DEFINE tail(n) == {x \in S : x >= n}
              F == {tail(n) : n \in Nat}
              R == StrictSubsetOrdering(S)
  <2>1. IsWellFoundedOn(R, SUBSET S)
    BY FS_StrictSubsetOrderingWellFounded, FS_FiniteSubsetsOfFinite
  <2>2. F \subseteq SUBSET S /\ F # {}
    <3>1. tail(0) \in F
      OBVIOUS
    <3>. QED
      BY <3>1
  <2>3. PICK t \in F : \A u \in F : ~ (<<u, t>> \in R)
    <3>. HIDE DEF F, R
    <3>. QED
      BY <2>1, <2>2, WFMin
  <2>4. PICK n \in Nat : t = tail(n)
    BY <2>3
  <2>5. PICK x \in S : x > n
    BY <1>2, <2>4
  <2>6. tail(x + 1) \in F /\ tail(x + 1) \subseteq t /\ x \in t /\ x \notin tail(x + 1)
    <3>1. x \in Nat /\ x + 1 \in Nat /\ x >= n /\ ~ (x >= x + 1)
      BY <2>4, <2>5
    <3>2. \A y \in S : y >= x + 1 => y >= n
      BY <2>4, <3>1
    <3>. QED
      BY <2>4, <2>5, <3>1, <3>2
  <2>7. <<tail(x + 1), t>> \in R
    BY <2>2, <2>3, <2>6 DEF StrictSubsetOrdering
  <2>. QED
    BY <2>3, <2>6, <2>7
<1>. QED
  <2>1. CASE S # {} /\ \E b \in Nat : \A x \in S : ~ (x > b)
    <3>1. PICK b \in Nat : \A x \in S : ~ (x > b)
      BY <2>1
    <3>2. \A x \in S : x <= b
      BY <3>1
    <3>. QED
      BY <3>2
  <2>. QED
    BY <1>1, <1>2, <2>1

(* Of a finite set, those below which fewer than n lie are at most n.      *)
LEMMA LowestAreFew ==
  ASSUME NEW S \in SUBSET Nat, IsFiniteSet(S), NEW n \in Nat
  PROVE  LET L == {e \in S : Cardinality({f \in S : f < e}) < n}
         IN  IsFiniteSet(L) /\ Cardinality(L) \in Nat /\ Cardinality(L) <= n
<1>. DEFINE under(e) == {f \in S : f < e}
            L == {e \in S : Cardinality(under(e)) < n}
            rank == [e \in L |-> Cardinality(under(e))]
<1>1. ASSUME NEW e \in S
      PROVE  IsFiniteSet(under(e)) /\ Cardinality(under(e)) \in Nat
  BY FS_Subset, FS_CardinalityType
<1>2. ASSUME NEW e \in S, NEW g \in S, e < g
      PROVE  Cardinality(under(e)) < Cardinality(under(g))
  <2>1. under(e) \subseteq under(g) /\ e \in under(g) /\ e \notin under(e)
    <3>1. e \in Int /\ g \in Int /\ ~ (e < e)
      OBVIOUS
    <3>2. \A y \in S : y < e => y < g
      BY <1>2, <3>1
    <3>. QED
      BY <1>2, <3>1, <3>2
  <2>2. /\ Cardinality(under(e)) <= Cardinality(under(g))
        /\ Cardinality(under(e)) # Cardinality(under(g))
    <3>. HIDE DEF under
    <3>. QED
      BY <1>1, <2>1, FS_Subset
  <2>. QED
    BY <1>1, <2>2
<1>3. rank \in [L -> 0 .. n - 1]
  <2>1. ASSUME NEW e \in L PROVE Cardinality(under(e)) \in 0 .. n - 1
    <3>1. e \in S /\ Cardinality(under(e)) < n
      OBVIOUS
    <3>. QED
      <4>. HIDE DEF under
      <4>. QED
        BY <1>1, <3>1
  <2>. QED
    BY <2>1
<1>4. \A e, g \in L : e # g => rank[e] # rank[g]
  <2>. SUFFICES ASSUME NEW e \in L, NEW g \in L, e # g PROVE rank[e] # rank[g]
    OBVIOUS
  <2>0. rank[e] = Cardinality(under(e)) /\ rank[g] = Cardinality(under(g)) /\ e \in S /\ g \in S
    OBVIOUS
  <2>1. e < g \/ g < e
    BY <2>0
  <2>. QED
    <3>. HIDE DEF under, rank
    <3>. QED
      BY <1>1, <1>2, <2>0, <2>1
<1>5. rank \in Injection(L, 0 .. n - 1)
  <2>. HIDE DEF rank, L
  <2>. QED
    BY <1>3, <1>4 DEF Injection, IsInjective
<1>6. IsFiniteSet(0 .. n - 1) /\ Cardinality(0 .. n - 1) = n
  BY FS_Interval
<1>7. IsFiniteSet(L) /\ Cardinality(L) <= Cardinality(0 .. n - 1)
  <2>. HIDE DEF L, rank
  <2>. QED
    BY <1>5, <1>6, FS_Injection
<1>. QED
  BY <1>6, <1>7, FS_CardinalityType

(* Powers of two: a set with one more element has twice the subsets.       *)
LEMMA Doubling == ASSUME NEW n \in Nat PROVE 2^n \in Nat /\ 2^(n + 1) = 2 * 2^n
<1>. DEFINE S == 1 .. n
            T == 1 .. n + 1
            A == SUBSET S
            B == {s \cup {n + 1} : s \in A}
<1>1. /\ IsFiniteSet(S) /\ Cardinality(S) = n
      /\ IsFiniteSet(T) /\ Cardinality(T) = n + 1
  <2>1. IsFiniteSet(1 .. n) /\ Cardinality(1 .. n) = n
    BY FS_Interval
  <2>2. IsFiniteSet(1 .. n + 1) /\ Cardinality(1 .. n + 1) = n + 1
    BY FS_Interval
  <2>. QED
    BY <2>1, <2>2
<1>2. T = S \cup {n + 1} /\ n + 1 \notin S
  OBVIOUS
<1>. HIDE DEF S, T
<1>3. /\ IsFiniteSet(A) /\ Cardinality(A) = 2^n
      /\ IsFiniteSet(SUBSET T) /\ Cardinality(SUBSET T) = 2^(n + 1)
  BY <1>1, FS_SUBSET
<1>4. SUBSET T = A \cup B
  <2>1. ASSUME NEW t \in SUBSET T PROVE t \in A \cup B
    <3>1. CASE n + 1 \in t
      <4>1. t \ {n + 1} \in A /\ t = (t \ {n + 1}) \cup {n + 1}
        BY <1>2, <3>1
      <4>. QED
        BY <4>1
    <3>2. CASE n + 1 \notin t
      BY <1>2, <3>2
    <3>. QED
      BY <3>1, <3>2
  <2>2. ASSUME NEW t \in A \cup B PROVE t \in SUBSET T
    BY <1>2
  <2>. QED
    BY <2>1, <2>2
<1>5. A \cap B = {}
  BY <1>2
<1>6. ExistsBijection(A, B)
  <2>. DEFINE f == [s \in A |-> s \cup {n + 1}]
  <2>1. f \in [A -> B]
    OBVIOUS
  <2>2. ASSUME NEW s \in A, NEW t \in A, s # t PROVE f[s] # f[t]
    <3>1. n + 1 \notin s /\ n + 1 \notin t
      BY <1>2
    <3>. QED
      BY <2>2, <3>1
  <2>3. \A y \in B : \E s \in A : f[s] = y
    OBVIOUS
  <2>. HIDE DEF f
  <2>4. f \in Bijection(A, B)
    BY <2>1, <2>2, <2>3 DEF Bijection, Injection, Surjection, IsInjective
  <2>. QED
    BY <2>4 DEF ExistsBijection
<1>7. IsFiniteSet(B) /\ Cardinality(B) = Cardinality(A)
  BY <1>3, <1>6, FS_Bijection
<1>. HIDE DEF A, B
<1>8. Cardinality(A \cup B) = Cardinality(A) + Cardinality(B) - Cardinality(A \cap B)
  BY <1>3, <1>7, FS_Union
<1>9. Cardinality(A) \in Nat /\ Cardinality({}) = 0
  BY <1>3, FS_CardinalityType, FS_EmptySet
<1>10. Cardinality(SUBSET T) = Cardinality(A) + Cardinality(A)
  <2>1. PICK c : c = Cardinality(A)
    OBVIOUS
  <2>2. Cardinality(B) = c /\ c \in Nat /\ Cardinality(A \cap B) = 0
    BY <1>5, <1>7, <1>9, <2>1, Zenon
  <2>3. Cardinality(A \cup B) = c + c - 0
    BY <1>8, <2>1, <2>2, Zenon
  <2>4. c + c - 0 = c + c
    BY <2>2
  <2>. QED
    BY <1>4, <2>1, <2>3, <2>4, Zenon
<1>11. PICK p, q : p = 2^n /\ q = 2^(n + 1)
  OBVIOUS
<1>12. p \in Nat /\ q = p + p
  BY <1>3, <1>9, <1>10, <1>11, Zenon
<1>13. q = 2 * p
  BY <1>12
<1>. QED
  BY <1>11, <1>12, <1>13, Zenon

LEMMA NoDoubling == 2^0 = 1
<1>1. IsFiniteSet({}) /\ Cardinality({}) = 0
  BY FS_EmptySet
<1>2. Cardinality(SUBSET {}) = 2^Cardinality({})
  BY <1>1, FS_SUBSET
<1>3. SUBSET {} = {{}}
  OBVIOUS
<1>4. Cardinality({{}}) = 1
  BY FS_Singleton
<1>. QED
  BY <1>1, <1>2, <1>3, <1>4, Zenon
=============================================================================
