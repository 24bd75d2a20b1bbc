----------------------------- MODULE AkdProofs ------------------------------
(***************************************************************************)
(* Proofs about the tree rebuilt from an append-only proof, for every      *)
(* length of a label, every set of values and every number of elements:    *)
(* sorting and merging list a set whole, the subtrees of the sorted        *)
(* sequence are those of the trie, a root is of one set of elements only,  *)
(* and so witness and fleet read a proof alike.                            *)
(***************************************************************************)
EXTENDS AkdTree, Numbers, SequenceTheorems, FiniteSetTheorems, FunctionTheorems

-----------------------------------------------------------------------------
(* The order of labels.                                                    *)

(* Elements as they are placed: those of a proof, and those whose         *)
(* value is committed to the epoch.                                        *)
Label == [1 .. Bits -> {0, 1}]
Stored == {<<"value", v>> : v \in Values} \cup {<<"commit", <<"value", v>>, EndEpoch>> : v \in Values}
Placed == [label : Label, len : 0 .. Bits, value : Stored]

(* Labels that have their first m bits in common; elements at one place.   *)
AgreeTo(a, b, m) == \A i \in 1 .. m : a[i] = b[i]
SamePlace(d, e) == d.label = e.label /\ d.len = e.len

(* Labels are ordered by the first bit they differ in.                     *)
LEMMA FirstDifference ==
  ASSUME NEW a \in Label, NEW b \in Label, a # b
  PROVE  \E n \in 1 .. Bits : a[n] # b[n] /\ AgreeTo(a, b, n - 1)
<1>. DEFINE D == {n \in 1 .. Bits : a[n] # b[n]}
<1>1. Bits \in Nat
  BY AkdTreeAssumption
<1>2. D \in SUBSET Nat /\ D # {}
  <2>1. SUFFICES ASSUME \A n \in 1 .. Bits : a[n] = b[n] PROVE FALSE
    BY <1>1
  <2>2. a = [n \in 1 .. Bits |-> a[n]] /\ b = [n \in 1 .. Bits |-> b[n]]
    BY DEF Label
  <2>. QED
    BY <2>1, <2>2
<1>3. PICK n \in D : \A m \in D : n <= m
  BY <1>2, LeastNat
<1>4. ASSUME NEW i \in 1 .. n - 1 PROVE a[i] = b[i]
  <2>1. i \in 1 .. Bits /\ ~ (n <= i)
    BY <1>1, <1>3
  <2>. QED
    BY <1>3, <2>1
<1>. QED
  BY <1>3, <1>4 DEF AgreeTo

(* Of two labels one comes first.                                          *)
LEMMA LabelTotal ==
  ASSUME NEW a \in Label, NEW b \in Label
  PROVE  a = b \/ LabelBefore(a, b) \/ LabelBefore(b, a)
<1>1. SUFFICES ASSUME a # b PROVE LabelBefore(a, b) \/ LabelBefore(b, a)
  OBVIOUS
<1>2. PICK n \in 1 .. Bits : a[n] # b[n] /\ AgreeTo(a, b, n - 1)
  BY <1>1, FirstDifference
<1>3. a[n] \in {0, 1} /\ b[n] \in {0, 1}
  BY DEF Label
<1>4. a[n] < b[n] \/ b[n] < a[n]
  BY <1>2, <1>3
<1>. QED
  BY <1>2, <1>4 DEF LabelBefore, AgreeTo

(* And not the other too.                                                  *)
LEMMA LabelStrict ==
  ASSUME NEW a \in Label, NEW b \in Label, LabelBefore(a, b)
  PROVE  ~ LabelBefore(b, a) /\ a # b
<1>1. Bits \in Nat
  BY AkdTreeAssumption
<1>2. PICK n \in 1 .. Bits : a[n] < b[n] /\ \A m \in 1 .. n - 1 : a[m] = b[m]
  BY DEF LabelBefore
<1>3. \A m \in 1 .. Bits : a[m] \in {0, 1} /\ b[m] \in {0, 1}
  BY DEF Label
<1>4. a # b
  BY <1>2, <1>3
<1>5. ASSUME LabelBefore(b, a) PROVE FALSE
  <2>1. PICK k \in 1 .. Bits : b[k] < a[k] /\ \A m \in 1 .. k - 1 : b[m] = a[m]
    BY <1>5 DEF LabelBefore
  <2>2. CASE k < n
    <3>1. k \in 1 .. n - 1
      BY <1>1, <2>2
    <3>. QED
      BY <1>2, <1>3, <2>1, <3>1
  <2>3. CASE n < k
    <3>1. n \in 1 .. k - 1
      BY <1>1, <2>3
    <3>. QED
      BY <1>2, <1>3, <2>1, <3>1
  <2>4. CASE n = k
    BY <1>2, <1>3, <2>1, <2>4
  <2>. QED
    BY <1>1, <2>2, <2>3, <2>4
<1>. QED
  BY <1>4, <1>5

(* The order of labels goes on.                                            *)
LEMMA LabelGoesOn ==
  ASSUME NEW a \in Label, NEW b \in Label, NEW c \in Label, LabelBefore(a, b), LabelBefore(b, c)
  PROVE  LabelBefore(a, c)
<1>1. Bits \in Nat
  BY AkdTreeAssumption
<1>2. PICK n \in 1 .. Bits : a[n] < b[n] /\ \A m \in 1 .. n - 1 : a[m] = b[m]
  BY DEF LabelBefore
<1>3. PICK k \in 1 .. Bits : b[k] < c[k] /\ \A m \in 1 .. k - 1 : b[m] = c[m]
  BY DEF LabelBefore
<1>4. \A m \in 1 .. Bits : a[m] \in {0, 1} /\ b[m] \in {0, 1} /\ c[m] \in {0, 1}
  BY DEF Label
<1>5. CASE k < n
  <2>1. k \in 1 .. n - 1 /\ \A m \in 1 .. k - 1 : m \in 1 .. n - 1
    BY <1>1, <1>5
  <2>2. a[k] < c[k] /\ \A m \in 1 .. k - 1 : a[m] = c[m]
    BY <1>2, <1>3, <2>1
  <2>. QED
    BY <2>2 DEF LabelBefore
<1>6. CASE ~ (k < n)
  <2>1. (n \in 1 .. k - 1 \/ n = k) /\ \A m \in 1 .. n - 1 : m \in 1 .. k - 1
    BY <1>1, <1>6
  <2>2. a[n] < c[n]
    BY <1>2, <1>3, <1>4, <2>1
  <2>3. \A m \in 1 .. n - 1 : a[m] = c[m]
    BY <1>2, <1>3, <2>1
  <2>. QED
    BY <2>2, <2>3 DEF LabelBefore
<1>. QED
  BY <1>5, <1>6

(* Elements by their labels, then by length: at one place neither is       *)
(* before the other, elsewhere one is.                                     *)
LEMMA BeforeIsStrict ==
  ASSUME NEW d \in Placed, NEW e \in Placed
  PROVE  /\ Before(d, e) => ~ Before(e, d)
         /\ ~ Before(d, e) /\ ~ Before(e, d) <=> SamePlace(d, e)
<1>1. d.label \in Label /\ e.label \in Label /\ d.len \in Int /\ e.len \in Int
  BY DEF Placed
<1>2. /\ LabelBefore(d.label, e.label) => ~ LabelBefore(e.label, d.label) /\ d.label # e.label
      /\ LabelBefore(e.label, d.label) => ~ LabelBefore(d.label, e.label) /\ d.label # e.label
      /\ d.label = e.label \/ LabelBefore(d.label, e.label) \/ LabelBefore(e.label, d.label)
  BY <1>1, LabelStrict, LabelTotal
<1>. QED
  BY <1>1, <1>2 DEF Before, SamePlace

(* Not being behind goes on.                                               *)
LEMMA BeforeGoesOn ==
  ASSUME NEW d \in Placed, NEW e \in Placed, NEW f \in Placed, ~ Before(e, d), ~ Before(f, e)
  PROVE  ~ Before(f, d)
<1>1. /\ d.label \in Label /\ e.label \in Label /\ f.label \in Label
      /\ d.len \in Int /\ e.len \in Int /\ f.len \in Int
  BY DEF Placed
<1>2. /\ d.label = e.label \/ LabelBefore(d.label, e.label)
      /\ e.label = f.label \/ LabelBefore(e.label, f.label)
  BY <1>1, LabelTotal DEF Before
<1>3. CASE d.label = e.label /\ e.label = f.label
  <2>1. ~ LabelBefore(f.label, d.label)
    BY <1>1, <1>3, LabelStrict
  <2>. QED
    BY <1>1, <1>3, <2>1 DEF Before
<1>4. CASE ~ (d.label = e.label /\ e.label = f.label)
  <2>1. LabelBefore(d.label, f.label)
    BY <1>1, <1>2, <1>4, LabelGoesOn
  <2>. QED
    BY <1>1, <2>1, LabelStrict DEF Before
<1>. QED
  BY <1>3, <1>4

(* What lies between two labels begins as both do.                         *)
LEMMA Squeezed ==
  ASSUME NEW d \in Placed, NEW e \in Placed, NEW f \in Placed, ~ Before(e, d), ~ Before(f, e),
         NEW m \in 0 .. Bits, AgreeTo(d.label, f.label, m)
  PROVE  AgreeTo(d.label, e.label, m)
<1>1. Bits \in Nat /\ d.label \in Label /\ e.label \in Label /\ f.label \in Label
  BY AkdTreeAssumption DEF Placed
<1>2. PICK a, b, c : a = d.label /\ b = e.label /\ c = f.label
  OBVIOUS
<1>3. a \in Label /\ b \in Label /\ c \in Label /\ ~ LabelBefore(b, a) /\ ~ LabelBefore(c, b) /\ AgreeTo(a, c, m)
  BY <1>1, <1>2 DEF Before
<1>4. SUFFICES ASSUME ~ AgreeTo(a, b, m) PROVE FALSE
  BY <1>2
<1>5. a # b
  BY <1>4 DEF AgreeTo
<1>6. PICK n \in 1 .. Bits : a[n] # b[n] /\ AgreeTo(a, b, n - 1)
  BY <1>3, <1>5, FirstDifference
<1>7. n \in 1 .. m
  <2>1. SUFFICES ASSUME n > m PROVE FALSE
    BY <1>1
  <2>2. \A i \in 1 .. m : i \in 1 .. n - 1
    BY <1>1, <2>1
  <2>. QED
    BY <1>4, <1>6, <2>2 DEF AgreeTo
<1>8. a[n] \in {0, 1} /\ b[n] \in {0, 1}
  BY <1>3 DEF Label
<1>9. \A i \in 1 .. n - 1 : i \in 1 .. m
  BY <1>1, <1>7
<1>10. CASE b[n] < a[n]
  <2>1. \A i \in 1 .. n - 1 : b[i] = a[i]
    BY <1>6 DEF AgreeTo
  <2>. QED
    BY <1>3, <1>10, <2>1 DEF LabelBefore
<1>11. CASE a[n] < b[n]
  <2>1. c[n] < b[n] /\ \A i \in 1 .. n - 1 : c[i] = b[i]
    BY <1>3, <1>6, <1>7, <1>9, <1>11 DEF AgreeTo
  <2>. QED
    BY <1>3, <2>1 DEF LabelBefore
<1>. QED
  BY <1>6, <1>8, <1>10, <1>11

-----------------------------------------------------------------------------
(* Sorting.                                                                *)

(* A step taken over and over.                                             *)
Iterated(f, F, S, a, n) == f \in [0 .. n -> S] /\ f[0] = a /\ \A k \in 1 .. n : f[k] = F[f[k - 1]]

(* There is a sequence of its values.                                      *)
LEMMA Iterates ==
  ASSUME NEW n \in Nat, NEW S, NEW a \in S, NEW F \in [S -> S]
  PROVE  \E f : Iterated(f, F, S, a, n)
<1>. DEFINE is(f, k) == f[0] = a /\ \A i \in 1 .. k : f[i] = F[f[i - 1]]
            U == {k \in 0 .. n : ~ \E f \in [0 .. k -> S] : is(f, k)}
<1>. HIDE DEF is
<1>1. SUFFICES ASSUME U # {} PROVE FALSE
  <2>1. n \in 0 .. n
    OBVIOUS
  <2>2. PICK f \in [0 .. n -> S] : is(f, n)
    BY <1>1, <2>1
  <2>. QED
    BY <2>2 DEF is, Iterated
<1>2. PICK k \in U : \A i \in U : k <= i
  <2>1. U \in SUBSET Nat
    OBVIOUS
  <2>. HIDE DEF U
  <2>. QED
    BY <1>1, <2>1, LeastNat
<1>3. k \in 0 .. n /\ ~ \E f \in [0 .. k -> S] : is(f, k)
  BY <1>2
<1>4. CASE k = 0
  <2>. DEFINE f == [i \in 0 .. 0 |-> a]
  <2>1. f \in [0 .. 0 -> S] /\ is(f, 0)
    BY DEF is
  <2>. QED
    BY <1>3, <1>4, <2>1
<1>5. CASE k # 0
  <2>1. k - 1 \in 0 .. n /\ ~ (k <= k - 1)
    BY <1>3, <1>5
  <2>2. PICK g \in [0 .. k - 1 -> S] : is(g, k - 1)
    BY <1>2, <2>1
  <2>. DEFINE f == [i \in 0 .. k |-> IF i = k THEN F[g[k - 1]] ELSE g[i]]
  <2>3. f \in [0 .. k -> S]
    <3>1. g[k - 1] \in S
      BY <1>3, <1>5
    <3>2. \A i \in 0 .. k : i # k => i \in 0 .. k - 1
      BY <1>3
    <3>. QED
      BY <3>1, <3>2
  <2>4. \A i \in 1 .. k : f[i] = F[f[i - 1]]
    <3>1. SUFFICES ASSUME NEW i \in 1 .. k PROVE f[i] = F[f[i - 1]]
      BY Zenon
    <3>2. i \in 0 .. k /\ i - 1 \in 0 .. k /\ i - 1 # k
      BY <1>3
    <3>3. f[i - 1] = g[i - 1]
      BY <3>2
    <3>4. CASE i = k
      BY <3>2, <3>3, <3>4
    <3>5. CASE i # k
      <4>1. i \in 1 .. k - 1
        BY <1>3, <3>5
      <4>2. g[i] = F[g[i - 1]]
        BY <2>2, <4>1 DEF is
      <4>. QED
        BY <3>2, <3>3, <3>5, <4>2
    <3>. QED
      BY <3>4, <3>5
  <2>5. f[0] = a
    <3>1. 0 \in 0 .. k /\ g[0] = a
      BY <1>3, <2>2 DEF is
    <3>. QED
      BY <1>5, <3>1
  <2>. HIDE DEF f
  <2>6. is(f, k)
    BY <2>4, <2>5 DEF is
  <2>. QED
    BY <1>3, <2>3, <2>6
<1>. QED
  BY <1>4, <1>5

(* Of some elements, one is first.                                         *)
LEMMA LeastIs ==
  ASSUME NEW s \in SUBSET Placed, s # {}, IsFiniteSet(s)
  PROVE  Least(s) \in s /\ \A d \in s : ~ Before(d, Least(s))
<1>. DEFINE has(u) == \E e \in u : \A d \in u : ~ Before(d, e)
            bad == {u \in SUBSET s : u # {} /\ ~ has(u)}
            T == {Cardinality(u) : u \in bad}
<1>1. \A u \in SUBSET s : IsFiniteSet(u) /\ Cardinality(u) \in Nat
  BY FS_Subset, FS_CardinalityType
<1>2. bad = {}
  <2>1. SUFFICES ASSUME bad # {} PROVE FALSE
    OBVIOUS
  <2>2. T \in SUBSET Nat /\ T # {}
    BY <1>1, <2>1
  <2>. HIDE DEF bad
  <2>3. PICK n \in T : \A y \in T : n <= y
    BY <2>2, LeastNat
  <2>4. PICK u \in bad : n = Cardinality(u)
    BY <2>3
  <2>5. u \in SUBSET s /\ u # {} /\ ~ has(u)
    BY <2>4 DEF bad
  <2>6. PICK x \in u : TRUE
    BY <2>5
  <2>. DEFINE v == u \ {x}
  <2>7. v \in SUBSET s /\ Cardinality(v) = Cardinality(u) - 1
    <3>1. IsFiniteSet(u)
      BY <1>1, <2>5
    <3>. QED
      BY <2>5, <2>6, <3>1, FS_RemoveElement
  <2>8. v \notin bad
    <3>1. Cardinality(u) \in Nat
      BY <1>1, <2>5
    <3>2. ~ (n <= Cardinality(v))
      BY <2>4, <2>7, <3>1
    <3>. HIDE DEF v
    <3>. QED
      BY <2>3, <3>2
  <2>9. \A d \in u : d = x \/ d \in v
    OBVIOUS
  <2>10. ~ Before(x, x)
    BY <2>5, <2>6, BeforeIsStrict
  <2>11. CASE v = {}
    BY <2>5, <2>6, <2>9, <2>10, <2>11
  <2>12. CASE v # {}
    <3>1. PICK m \in v : \A d \in v : ~ Before(d, m)
      BY <2>7, <2>8, <2>12 DEF bad
    <3>2. m \in u /\ m \in Placed /\ x \in Placed /\ \A d \in u : d \in Placed
      BY <2>5, <2>6, <3>1
    <3>. HIDE DEF v
    <3>3. CASE ~ Before(x, m)
      BY <2>5, <2>9, <3>1, <3>2, <3>3
    <3>4. CASE Before(x, m)
      <4>1. ~ Before(m, x)
        BY <3>2, <3>4, BeforeIsStrict
      <4>2. \A d \in v : d \in u => ~ Before(d, x)
        BY <3>1, <3>2, <4>1, BeforeGoesOn
      <4>. QED
        BY <2>5, <2>6, <2>9, <2>10, <4>2
    <3>. QED
      BY <3>3, <3>4
  <2>. QED
    BY <2>11, <2>12
<1>3. has(s)
  BY <1>2
<1>. QED
  BY <1>3 DEF Least

(* Elements in a row, in their order; and all of a set, each of them once. *)
InRow(q) == q \in Seq(Placed) /\ \A i, j \in 1 .. Len(q) : i < j => ~ Before(q[j], q[i])
Lists(q, s) ==
  /\ InRow(q)
  /\ \A x : x \in s <=> \E i \in 1 .. Len(q) : q[i] = x
  /\ \A i, j \in 1 .. Len(q) : i < j => q[i] # q[j]

(* What the sort leaves after each element.                                *)
IsLeaving(f, s) == f = [k \in 0 .. Cardinality(s) |-> IF k = 0 THEN s ELSE f[k - 1] \ {Least(f[k - 1])}]

(* The sort's recursion has a value.                                       *)
LEMMA LeavingExists ==
  ASSUME NEW s, IsFiniteSet(s)
  PROVE  \E f : IsLeaving(f, s)
<1>. DEFINE n == Cardinality(s)
            F == [t \in SUBSET s |-> t \ {Least(t)}]
<1>1. n \in Nat /\ F \in [SUBSET s -> SUBSET s] /\ s \in SUBSET s
  BY FS_CardinalityType
<1>. HIDE DEF n
<1>2. PICK f \in [0 .. n -> SUBSET s] : f[0] = s /\ \A k \in 1 .. n : f[k] = F[f[k - 1]]
  <2>. HIDE DEF F
  <2>1. \E f : Iterated(f, F, SUBSET s, s, n)
    BY <1>1, Iterates, Zenon
  <2>. QED
    BY <2>1 DEF Iterated
<1>3. \A k \in 0 .. n : f[k] = IF k = 0 THEN s ELSE f[k - 1] \ {Least(f[k - 1])}
  <2>1. SUFFICES ASSUME NEW k \in 0 .. n, k # 0 PROVE f[k] = f[k - 1] \ {Least(f[k - 1])}
    BY <1>2
  <2>2. k \in 1 .. n /\ k - 1 \in 0 .. n
    BY <1>1, <2>1
  <2>3. f[k - 1] \in SUBSET s
    BY <2>2
  <2>. QED
    BY <1>2, <2>2, <2>3
<1>4. f = [k \in 0 .. n |-> f[k]]
  OBVIOUS
<1>5. f = [k \in 0 .. n |-> IF k = 0 THEN s ELSE f[k - 1] \ {Least(f[k - 1])}]
  BY <1>3, <1>4, Zenon
<1>. QED
  BY <1>5, Zenon DEF IsLeaving, n

(* SortedElements, step by step.                                           *)
LEMMA SortedIs ==
  ASSUME NEW s, IsFiniteSet(s)
  PROVE  \E f : /\ f[0] = s
                /\ \A k \in 1 .. Cardinality(s) : f[k] = f[k - 1] \ {Least(f[k - 1])}
                /\ SortedElements(s) = [k \in 1 .. Cardinality(s) |-> Least(f[k - 1])]
<1>. DEFINE F == CHOOSE f : IsLeaving(f, s)
<1>1. IsLeaving(F, s)
  BY LeavingExists, Zenon
<1>2. SortedElements(s) = [k \in 1 .. Cardinality(s) |-> Least(F[k - 1])]
  BY Zenon DEF SortedElements, IsLeaving
<1>. HIDE DEF F
<1>3. Cardinality(s) \in Nat
  BY FS_CardinalityType
<1>4. \A k \in 0 .. Cardinality(s) : F[k] = IF k = 0 THEN s ELSE F[k - 1] \ {Least(F[k - 1])}
  BY <1>1, Zenon DEF IsLeaving
<1>5. F[0] = s
  <2>1. 0 \in 0 .. Cardinality(s)
    BY <1>3
  <2>. QED
    BY <1>4, <2>1
<1>6. \A k \in 1 .. Cardinality(s) : F[k] = F[k - 1] \ {Least(F[k - 1])}
  <2>1. \A k \in 1 .. Cardinality(s) : k \in 0 .. Cardinality(s) /\ k # 0
    BY <1>3
  <2>. QED
    BY <1>4, <2>1
<1>. QED
  BY <1>2, <1>5, <1>6, Zenon

(* Sort lists what it is given.                                            *)
LEMMA SortLists ==
  ASSUME NEW s \in SUBSET Placed, IsFiniteSet(s)
  PROVE  Lists(SortedElements(s), s)
<1>. DEFINE n == Cardinality(s)
            q == SortedElements(s)
<1>1. n \in Nat
  BY FS_CardinalityType
<1>2. PICK f : /\ f[0] = s
               /\ \A k \in 1 .. n : f[k] = f[k - 1] \ {Least(f[k - 1])}
               /\ q = [k \in 1 .. n |-> Least(f[k - 1])]
  BY SortedIs, Zenon
<1>. HIDE DEF n, q
<1>. DEFINE ok(k) == f[k] \in SUBSET s /\ IsFiniteSet(f[k]) /\ Cardinality(f[k]) = n - k
            U == {k \in 0 .. n : ~ ok(k)}
<1>3. U = {}
  <2>1. SUFFICES ASSUME U # {} PROVE FALSE
    OBVIOUS
  <2>2. PICK k \in U : \A i \in U : k <= i
    <3>1. U \in SUBSET Nat
      BY <1>1
    <3>. HIDE DEF U
    <3>. QED
      BY <2>1, <3>1, LeastNat
  <2>3. k \in 0 .. n /\ ~ ok(k)
    BY <2>2
  <2>4. ok(0)
    BY <1>1, <1>2 DEF n
  <2>5. k \in 1 .. n /\ k - 1 \in 0 .. n /\ ~ (k <= k - 1)
    <3>1. k # 0
      BY <2>3, <2>4
    <3>. QED
      BY <1>1, <2>3, <3>1
  <2>6. ok(k - 1)
    BY <2>2, <2>5
  <2>7. f[k - 1] # {}
    <3>1. Cardinality(f[k - 1]) # 0
      BY <1>1, <2>5, <2>6
    <3>. QED
      BY <3>1, FS_EmptySet
  <2>8. Least(f[k - 1]) \in f[k - 1]
    BY <2>6, <2>7, LeastIs
  <2>9. f[k] = f[k - 1] \ {Least(f[k - 1])}
    BY <1>2, <2>5
  <2>10. Cardinality(f[k]) = Cardinality(f[k - 1]) - 1 /\ IsFiniteSet(f[k])
    BY <2>6, <2>8, <2>9, FS_RemoveElement
  <2>11. ok(k)
    BY <1>1, <2>5, <2>6, <2>9, <2>10
  <2>. QED
    BY <2>3, <2>11
<1>4. \A k \in 0 .. n : ok(k)
  BY <1>3
<1>. HIDE DEF U
<1>5. ASSUME NEW k \in 1 .. n
      PROVE  /\ k - 1 \in 0 .. n /\ k \in 0 .. n
             /\ q[k] \in f[k - 1] /\ q[k] \in s /\ q[k] \in Placed
             /\ \A d \in f[k - 1] : ~ Before(d, q[k])
             /\ f[k] = f[k - 1] \ {q[k]}
  <2>1. k - 1 \in 0 .. n /\ k \in 0 .. n
    BY <1>1
  <2>2. ok(k - 1)
    BY <1>4, <2>1
  <2>3. f[k - 1] # {}
    <3>1. Cardinality(f[k - 1]) # 0
      BY <1>1, <2>1, <2>2
    <3>. QED
      BY <3>1, FS_EmptySet
  <2>4. Least(f[k - 1]) \in f[k - 1] /\ \A d \in f[k - 1] : ~ Before(d, Least(f[k - 1]))
    BY <2>2, <2>3, LeastIs
  <2>5. q[k] = Least(f[k - 1])
    BY <1>2
  <2>6. f[k] = f[k - 1] \ {q[k]}
    BY <1>2, <2>5
  <2>. QED
    BY <2>1, <2>2, <2>4, <2>5, <2>6
<1>. HIDE DEF ok
<1>6. ASSUME NEW i \in 0 .. n, NEW j \in 0 .. n, i <= j PROVE f[j] \subseteq f[i]
  <2>. DEFINE V == {k \in i .. n : ~ (f[k] \subseteq f[i])}
  <2>1. SUFFICES ASSUME V # {} PROVE FALSE
    <3>1. j \in i .. n
      BY <1>1, <1>6
    <3>. QED
      BY <2>1, <3>1
  <2>2. V \in SUBSET Nat
    BY <1>1
  <2>3. PICK k \in V : \A h \in V : k <= h
    BY <2>1, <2>2, LeastNat
  <2>4. k \in i .. n /\ ~ (f[k] \subseteq f[i])
    BY <2>3
  <2>5. k # i
    BY <2>4
  <2>6. k \in 1 .. n /\ k - 1 \in i .. n /\ ~ (k <= k - 1)
    BY <1>1, <2>4, <2>5
  <2>7. f[k - 1] \subseteq f[i]
    BY <2>3, <2>6
  <2>8. f[k] \subseteq f[k - 1]
    BY <1>5, <2>6
  <2>. QED
    BY <2>4, <2>7, <2>8
<1>7. q \in Seq(Placed) /\ Len(q) = n
  <2>1. q = [k \in 1 .. n |-> q[k]]
    BY <1>2
  <2>2. q \in [1 .. n -> Placed]
    BY <1>5, <2>1
  <2>. QED
    BY <1>1, <2>2
<1>8. ASSUME NEW i \in 1 .. n, NEW j \in 1 .. n, i < j PROVE q[i] # q[j] /\ ~ Before(q[j], q[i])
  <2>1. i \in 0 .. n /\ j - 1 \in 0 .. n /\ i <= j - 1 /\ i - 1 \in 0 .. n /\ i - 1 <= j - 1
    BY <1>1, <1>8
  <2>2. f[j - 1] \subseteq f[i] /\ f[j - 1] \subseteq f[i - 1]
    BY <1>6, <2>1
  <2>. QED
    BY <1>5, <2>2
<1>9. ASSUME NEW x \in s PROVE \E k \in 1 .. n : q[k] = x
  <2>. DEFINE V == {k \in 0 .. n : x \notin f[k]}
  <2>1. n \in V
    <3>1. n \in 0 .. n
      BY <1>1
    <3>2. Cardinality(f[n]) = 0 /\ IsFiniteSet(f[n])
      BY <1>1, <1>4, <3>1 DEF ok
    <3>. QED
      BY <3>1, <3>2, FS_EmptySet
  <2>2. V \in SUBSET Nat
    BY <1>1
  <2>3. PICK k \in V : \A h \in V : k <= h
    BY <2>1, <2>2, LeastNat
  <2>4. k \in 0 .. n /\ x \notin f[k]
    BY <2>3
  <2>5. k # 0
    BY <1>2, <2>4
  <2>6. k \in 1 .. n /\ k - 1 \in 0 .. n /\ ~ (k <= k - 1)
    BY <1>1, <2>4, <2>5
  <2>7. x \in f[k - 1]
    BY <2>3, <2>6
  <2>. QED
    BY <1>5, <2>4, <2>6, <2>7
<1>. QED
  <2>1. InRow(q)
    BY <1>7, <1>8 DEF InRow
  <2>2. \A x : x \in s <=> \E k \in 1 .. n : q[k] = x
    BY <1>5, <1>9
  <2>3. Lists(q, s)
    BY <1>7, <1>8, <2>1, <2>2 DEF Lists
  <2>. QED
    BY <2>3 DEF q

-----------------------------------------------------------------------------
(* Merging.                                                                *)

(* Whether the merge takes from its first list; how much it has taken.     *)
Takes(t, a, b) == t.b = Len(b) \/ (t.a < Len(a) /\ Before(a[t.a + 1], b[t.b + 1]))
IsTaking(f, a, b) ==
  f = [k \in 0 .. Len(a) + Len(b) |->
          LET t == f[k - 1]
          IN IF k = 0 THEN [a |-> 0, b |-> 0]
             ELSE IF t.b = Len(b) \/ (t.a < Len(a) /\ Before(a[t.a + 1], b[t.b + 1]))
             THEN [t EXCEPT !.a = @ + 1] ELSE [t EXCEPT !.b = @ + 1]]

(* The merge's recursion has a value.                                      *)
LEMMA TakingExists ==
  ASSUME NEW a \in Seq(Placed), NEW b \in Seq(Placed)
  PROVE  \E f : IsTaking(f, a, b)
<1>. DEFINE n == Len(a) + Len(b)
            S == [a : Nat, b : Nat]
            on(t) == IF Takes(t, a, b) THEN [t EXCEPT !.a = @ + 1] ELSE [t EXCEPT !.b = @ + 1]
            F == [t \in S |-> on(t)]
            z == [a |-> 0, b |-> 0]
<1>1. n \in Nat /\ z \in S
  OBVIOUS
<1>2. F \in [S -> S]
  <2>1. \A t \in S : [t EXCEPT !.a = @ + 1] \in S /\ [t EXCEPT !.b = @ + 1] \in S
    OBVIOUS
  <2>2. \A t \in S : on(t) \in S
    BY <2>1
  <2>. HIDE DEF on, S
  <2>. QED
    BY <2>2
<1>3. \A t \in S : F[t] = on(t)
  OBVIOUS
<1>. HIDE DEF n, F, z, S
<1>4. PICK f \in [0 .. n -> S] : f[0] = z /\ \A k \in 1 .. n : f[k] = F[f[k - 1]]
  <2>1. \E f : Iterated(f, F, S, z, n)
    BY <1>1, <1>2, Iterates, Zenon
  <2>. QED
    BY <2>1, Zenon DEF Iterated
<1>. HIDE DEF on
<1>5. \A k \in 0 .. n : f[k] = IF k = 0 THEN z ELSE on(f[k - 1])
  <2>1. SUFFICES ASSUME NEW k \in 0 .. n, k # 0 PROVE f[k] = on(f[k - 1])
    BY <1>4
  <2>2. k \in 1 .. n /\ k - 1 \in 0 .. n
    BY <1>1, <2>1
  <2>3. f[k - 1] \in S
    BY <2>2
  <2>. QED
    BY <1>3, <1>4, <2>2, <2>3
<1>6. f = [k \in 0 .. n |-> f[k]]
  OBVIOUS
<1>7. f = [k \in 0 .. n |-> IF k = 0 THEN z ELSE on(f[k - 1])]
  BY <1>5, <1>6, Zenon
<1>. QED
  BY <1>7, Zenon DEF IsTaking, Takes, n, z, on

(* Merged, step by step.                                                   *)
MergedBy(f, a, b, n) ==
  /\ f[0] = [a |-> 0, b |-> 0]
  /\ \A k \in 1 .. n : f[k] = IF Takes(f[k - 1], a, b) THEN [f[k - 1] EXCEPT !.a = @ + 1]
                              ELSE [f[k - 1] EXCEPT !.b = @ + 1]
  /\ Merged(a, b) = [k \in 1 .. n |-> IF f[k].a > f[k - 1].a THEN a[f[k].a] ELSE b[f[k].b]]

(* Some counts are those of a merge.                                       *)
LEMMA MergedIs ==
  ASSUME NEW a \in Seq(Placed), NEW b \in Seq(Placed), NEW n, n = Len(a) + Len(b)
  PROVE  \E f : MergedBy(f, a, b, n)
<1>. DEFINE F == CHOOSE f : IsTaking(f, a, b)
<1>1. IsTaking(F, a, b)
  BY TakingExists, Zenon
<1>2. Merged(a, b) = [k \in 1 .. n |-> IF F[k].a > F[k - 1].a THEN a[F[k].a] ELSE b[F[k].b]]
  BY Zenon DEF Merged, IsTaking
<1>. HIDE DEF F
<1>3. n \in Nat
  OBVIOUS
<1>4. \A k \in 0 .. n : F[k] = IF k = 0 THEN [a |-> 0, b |-> 0]
                               ELSE IF Takes(F[k - 1], a, b) THEN [F[k - 1] EXCEPT !.a = @ + 1]
                               ELSE [F[k - 1] EXCEPT !.b = @ + 1]
  BY <1>1, Zenon DEF IsTaking, Takes
<1>5. F[0] = [a |-> 0, b |-> 0]
  <2>1. 0 \in 0 .. n
    BY <1>3
  <2>. QED
    BY <1>4, <2>1, Zenon
<1>6. \A k \in 1 .. n : F[k] = IF Takes(F[k - 1], a, b) THEN [F[k - 1] EXCEPT !.a = @ + 1]
                               ELSE [F[k - 1] EXCEPT !.b = @ + 1]
  <2>1. \A k \in 1 .. n : k \in 0 .. n /\ k # 0
    BY <1>3
  <2>. QED
    BY <1>4, <2>1, Zenon
<1>. QED
  BY <1>2, <1>5, <1>6, Zenon DEF MergedBy

(* What has been taken of both.                                            *)
TakenBy(x, y, a, b, n) ==
  LET m == Merged(a, b)
  IN /\ x \in [0 .. n -> Nat] /\ y \in [0 .. n -> Nat] /\ x[0] = 0 /\ y[0] = 0
     /\ \A k \in 0 .. n : x[k] + y[k] = k /\ x[k] <= Len(a) /\ y[k] <= Len(b)
     /\ \A k \in 1 .. n : \/ /\ x[k] = x[k - 1] + 1 /\ y[k] = y[k - 1] /\ m[k] = a[x[k]]
                             /\ y[k] = Len(b) \/ Before(a[x[k]], b[y[k] + 1])
                          \/ /\ y[k] = y[k - 1] + 1 /\ x[k] = x[k - 1] /\ m[k] = b[y[k]]
                             /\ x[k] = Len(a) \/ ~ Before(a[x[k] + 1], b[y[k]])
     /\ m = [k \in 1 .. n |-> m[k]]
LEMMA TakenIs ==
  ASSUME NEW a \in Seq(Placed), NEW b \in Seq(Placed), NEW n, n = Len(a) + Len(b)
  PROVE  \E x, y : TakenBy(x, y, a, b, n)
<1>0. PICK f : MergedBy(f, a, b, n)
  BY MergedIs, Zenon
<1>1. /\ f[0] = [a |-> 0, b |-> 0]
      /\ \A k \in 1 .. n : f[k] = IF Takes(f[k - 1], a, b) THEN [f[k - 1] EXCEPT !.a = @ + 1]
                                  ELSE [f[k - 1] EXCEPT !.b = @ + 1]
      /\ Merged(a, b) = [k \in 1 .. n |-> IF f[k].a > f[k - 1].a THEN a[f[k].a] ELSE b[f[k].b]]
  BY <1>0, Zenon DEF MergedBy
<1>2. PICK m : m = Merged(a, b)
  OBVIOUS
<1>. DEFINE ok(k) == /\ f[k] \in [a : Nat, b : Nat] /\ f[k].a + f[k].b = k
                     /\ f[k].a <= Len(a) /\ f[k].b <= Len(b)
            step(k) == \/ /\ f[k].a = f[k - 1].a + 1 /\ f[k].b = f[k - 1].b /\ m[k] = a[f[k].a]
                          /\ f[k].b = Len(b) \/ Before(a[f[k].a], b[f[k].b + 1])
                       \/ /\ f[k].b = f[k - 1].b + 1 /\ f[k].a = f[k - 1].a /\ m[k] = b[f[k].b]
                          /\ f[k].a = Len(a) \/ ~ Before(a[f[k].a + 1], b[f[k].b])
            U == {k \in 0 .. n : ~ ok(k)}
<1>3. Len(a) \in Nat /\ Len(b) \in Nat /\ n \in Nat
  OBVIOUS
<1>4. ASSUME NEW k \in 1 .. n, ok(k - 1) PROVE ok(k) /\ step(k)
  <2>1. PICK t : t = f[k - 1]
    OBVIOUS
  <2>2. t \in [a : Nat, b : Nat] /\ t.a + t.b = k - 1 /\ t.a <= Len(a) /\ t.b <= Len(b) /\ t.a \in Nat /\ t.b \in Nat
    BY <1>4, <2>1
  <2>3. f[k] = IF Takes(t, a, b) THEN [t EXCEPT !.a = @ + 1] ELSE [t EXCEPT !.b = @ + 1]
    BY <1>1, <2>1, Zenon
  <2>4. m[k] = IF f[k].a > f[k - 1].a THEN a[f[k].a] ELSE b[f[k].b]
    BY <1>1, <1>2
  <2>5. CASE Takes(t, a, b)
    <3>1. f[k].a = t.a + 1 /\ f[k].b = t.b /\ f[k] \in [a : Nat, b : Nat]
      <4>1. f[k] = [t EXCEPT !.a = @ + 1]
        BY <2>3, <2>5
      <4>. QED
        BY <2>2, <4>1
    <3>2. t.b = Len(b) \/ (t.a < Len(a) /\ Before(a[t.a + 1], b[t.b + 1]))
      BY <2>5 DEF Takes
    <3>3. m[k] = a[f[k].a]
      BY <2>1, <2>2, <2>4, <3>1
    <3>4. f[k].a + f[k].b = k /\ f[k].a <= Len(a) /\ f[k].b <= Len(b)
      BY <1>3, <2>2, <3>1, <3>2
    <3>5. f[k].b = Len(b) \/ Before(a[f[k].a], b[f[k].b + 1])
      BY <3>1, <3>2
    <3>. QED
      BY <2>1, <3>1, <3>3, <3>4, <3>5
  <2>6. CASE ~ Takes(t, a, b)
    <3>1. f[k].b = t.b + 1 /\ f[k].a = t.a /\ f[k] \in [a : Nat, b : Nat]
      <4>1. f[k] = [t EXCEPT !.b = @ + 1]
        BY <2>3, <2>6
      <4>. QED
        BY <2>2, <4>1
    <3>2. t.b # Len(b) /\ (t.a = Len(a) \/ ~ Before(a[t.a + 1], b[t.b + 1]))
      BY <1>3, <2>2, <2>6 DEF Takes
    <3>3. m[k] = b[f[k].b]
      BY <2>1, <2>2, <2>4, <3>1
    <3>4. f[k].a + f[k].b = k /\ f[k].a <= Len(a) /\ f[k].b <= Len(b)
      BY <1>3, <2>2, <3>1, <3>2
    <3>5. f[k].a = Len(a) \/ ~ Before(a[f[k].a + 1], b[f[k].b])
      BY <3>1, <3>2
    <3>. QED
      BY <2>1, <3>1, <3>3, <3>4, <3>5
  <2>. QED
    BY <2>5, <2>6
<1>5. U = {}
  <2>1. SUFFICES ASSUME U # {} PROVE FALSE
    OBVIOUS
  <2>2. U \in SUBSET Nat
    BY <1>3
  <2>3. PICK k \in U : \A i \in U : k <= i
    <3>. HIDE DEF U
    <3>. QED
      BY <2>1, <2>2, LeastNat
  <2>4. k \in 0 .. n /\ ~ ok(k)
    BY <2>3
  <2>5. ok(0)
    BY <1>1, <1>3
  <2>6. k \in 1 .. n /\ k - 1 \in 0 .. n /\ ~ (k <= k - 1)
    <3>1. k # 0
      BY <2>4, <2>5
    <3>. HIDE DEF ok
    <3>. QED
      BY <1>3, <2>4, <3>1
  <2>. HIDE DEF ok
  <2>7. ok(k - 1)
    BY <2>3, <2>6
  <2>. QED
    BY <1>4, <2>4, <2>6, <2>7
<1>6. \A k \in 0 .. n : ok(k)
  <2>. HIDE DEF ok
  <2>. QED
    BY <1>5
<1>7. \A k \in 1 .. n : step(k)
  <2>1. \A k \in 1 .. n : k - 1 \in 0 .. n
    BY <1>3
  <2>. HIDE DEF ok, step
  <2>. QED
    BY <1>4, <1>6, <2>1
<1>. DEFINE x == [k \in 0 .. n |-> f[k].a]
            y == [k \in 0 .. n |-> f[k].b]
<1>8. \A k \in 0 .. n : x[k] = f[k].a /\ y[k] = f[k].b
  OBVIOUS
<1>9. x \in [0 .. n -> Nat] /\ y \in [0 .. n -> Nat]
  BY <1>6
<1>10. m = [k \in 1 .. n |-> m[k]]
  BY <1>1, <1>2
<1>. HIDE DEF x, y
<1>11. x[0] = 0 /\ y[0] = 0 /\ \A k \in 0 .. n : x[k] + y[k] = k /\ x[k] <= Len(a) /\ y[k] <= Len(b)
  <2>1. 0 \in 0 .. n
    BY <1>3
  <2>2. f[0].a = 0 /\ f[0].b = 0
    BY <1>1
  <2>3. x[0] = 0 /\ y[0] = 0
    BY <1>8, <2>1, <2>2
  <2>4. \A k \in 0 .. n : f[k].a + f[k].b = k /\ f[k].a <= Len(a) /\ f[k].b <= Len(b)
    BY <1>6
  <2>5. \A k \in 0 .. n : x[k] + y[k] = k /\ x[k] <= Len(a) /\ y[k] <= Len(b)
    BY <1>8, <2>4
  <2>. QED
    BY <2>3, <2>5
<1>12. \A k \in 1 .. n : \/ /\ x[k] = x[k - 1] + 1 /\ y[k] = y[k - 1] /\ m[k] = a[x[k]]
                            /\ y[k] = Len(b) \/ Before(a[x[k]], b[y[k] + 1])
                         \/ /\ y[k] = y[k - 1] + 1 /\ x[k] = x[k - 1] /\ m[k] = b[y[k]]
                            /\ x[k] = Len(a) \/ ~ Before(a[x[k] + 1], b[y[k]])
  <2>1. SUFFICES ASSUME NEW k \in 1 .. n
                 PROVE  \/ /\ x[k] = x[k - 1] + 1 /\ y[k] = y[k - 1] /\ m[k] = a[x[k]]
                           /\ y[k] = Len(b) \/ Before(a[x[k]], b[y[k] + 1])
                        \/ /\ y[k] = y[k - 1] + 1 /\ x[k] = x[k - 1] /\ m[k] = b[y[k]]
                           /\ x[k] = Len(a) \/ ~ Before(a[x[k] + 1], b[y[k]])
    BY Zenon
  <2>2. k \in 0 .. n /\ k - 1 \in 0 .. n
    BY <1>3
  <2>3. x[k] = f[k].a /\ y[k] = f[k].b /\ x[k - 1] = f[k - 1].a /\ y[k - 1] = f[k - 1].b
    BY <1>8, <2>2
  <2>4. step(k)
    BY <1>7
  <2>. QED
    BY <2>3, <2>4, Zenon
<1>. QED
  <2>1. TakenBy(x, y, a, b, n)
    BY <1>2, <1>9, <1>10, <1>11, <1>12, Zenon DEF TakenBy
  <2>. QED
    BY <2>1

(* An element before one is before what follows that one.                  *)
LEMMA BeforeAndOn ==
  ASSUME NEW d \in Placed, NEW e \in Placed, NEW f \in Placed, Before(d, e), ~ Before(f, e)
  PROVE  ~ Before(f, d)
<1>1. ~ Before(e, d)
  BY BeforeIsStrict
<1>. QED
  BY <1>1, BeforeGoesOn

(* Counts that only rise.                                                  *)
LEMMA Rising ==
  ASSUME NEW n \in Nat, NEW x \in [0 .. n -> Nat], \A k \in 1 .. n : x[k] >= x[k - 1]
  PROVE  \A i, j \in 0 .. n : i <= j => x[i] <= x[j]
<1>1. SUFFICES ASSUME NEW i \in 0 .. n, NEW j \in 0 .. n, i <= j, ~ (x[i] <= x[j]) PROVE FALSE
  BY Zenon
<1>. DEFINE U == {k \in i .. n : ~ (x[i] <= x[k])}
<1>2. U \in SUBSET Nat /\ j \in U
  BY <1>1
<1>. HIDE DEF U
<1>3. PICK k \in U : \A h \in U : k <= h
  BY <1>2, LeastNat
<1>4. k \in i .. n /\ ~ (x[i] <= x[k])
  BY <1>3 DEF U
<1>5. x[i] \in Nat
  OBVIOUS
<1>6. k # i
  BY <1>4, <1>5
<1>7. k \in 1 .. n /\ k - 1 \in i .. n /\ k - 1 \in 0 .. n /\ k \in 0 .. n /\ ~ (k <= k - 1)
  BY <1>4, <1>6
<1>8. x[i] <= x[k - 1]
  BY <1>3, <1>7 DEF U
<1>9. x[k - 1] \in Nat /\ x[k] \in Nat /\ x[k] >= x[k - 1]
  BY <1>7
<1>. QED
  BY <1>4, <1>5, <1>8, <1>9

(* merge lists what both list, if no element is of both.                   *)
LEMMA MergeLists ==
  ASSUME NEW s, NEW t, NEW a, NEW b, Lists(a, s), Lists(b, t), s \cap t = {}
  PROVE  Lists(Merged(a, b), s \cup t)
<1>1. /\ a \in Seq(Placed) /\ b \in Seq(Placed)
      /\ \A i, j \in 1 .. Len(a) : i < j => a[i] # a[j] /\ ~ Before(a[j], a[i])
      /\ \A i, j \in 1 .. Len(b) : i < j => b[i] # b[j] /\ ~ Before(b[j], b[i])
  BY DEF Lists, InRow
<1>2. /\ \A z : z \in s <=> \E i \in 1 .. Len(a) : a[i] = z
      /\ \A z : z \in t <=> \E i \in 1 .. Len(b) : b[i] = z
  BY DEF Lists
<1>3. PICK n : n = Len(a) + Len(b)
  OBVIOUS
<1>4. Len(a) \in Nat /\ Len(b) \in Nat /\ n \in Nat
  BY <1>1, <1>3
<1>5. PICK x, y : TakenBy(x, y, a, b, n)
  BY <1>1, <1>3, TakenIs, Zenon
<1>6. PICK m : m = Merged(a, b)
  OBVIOUS
<1>7. /\ x \in [0 .. n -> Nat] /\ y \in [0 .. n -> Nat] /\ x[0] = 0 /\ y[0] = 0
      /\ \A k \in 0 .. n : x[k] + y[k] = k /\ x[k] <= Len(a) /\ y[k] <= Len(b)
      /\ m = [k \in 1 .. n |-> m[k]]
  BY <1>5, <1>6, Zenon DEF TakenBy
<1>8. \A k \in 1 .. n : \/ /\ x[k] = x[k - 1] + 1 /\ y[k] = y[k - 1] /\ m[k] = a[x[k]]
                           /\ y[k] = Len(b) \/ Before(a[x[k]], b[y[k] + 1])
                        \/ /\ y[k] = y[k - 1] + 1 /\ x[k] = x[k - 1] /\ m[k] = b[y[k]]
                           /\ x[k] = Len(a) \/ ~ Before(a[x[k] + 1], b[y[k]])
  BY <1>5, <1>6, Zenon DEF TakenBy
<1>. DEFINE ofA(k) == /\ x[k] \in 1 .. Len(a) /\ y[k] \in 0 .. Len(b) /\ x[k] = x[k - 1] + 1 /\ y[k] = y[k - 1]
                      /\ m[k] = a[x[k]] /\ (y[k] = Len(b) \/ Before(a[x[k]], b[y[k] + 1]))
            ofB(k) == /\ y[k] \in 1 .. Len(b) /\ x[k] \in 0 .. Len(a) /\ y[k] = y[k - 1] + 1 /\ x[k] = x[k - 1]
                      /\ m[k] = b[y[k]] /\ (x[k] = Len(a) \/ ~ Before(a[x[k] + 1], b[y[k]]))
<1>9. ASSUME NEW k \in 1 .. n PROVE ofA(k) \/ ofB(k)
  <2>1. k \in 0 .. n /\ k - 1 \in 0 .. n
    BY <1>4
  <2>2. /\ x[k] \in Nat /\ y[k] \in Nat /\ x[k - 1] \in Nat /\ y[k - 1] \in Nat
        /\ x[k] <= Len(a) /\ y[k] <= Len(b)
    BY <1>7, <2>1
  <2>3. CASE /\ x[k] = x[k - 1] + 1 /\ y[k] = y[k - 1] /\ m[k] = a[x[k]]
             /\ y[k] = Len(b) \/ Before(a[x[k]], b[y[k] + 1])
    <3>1. x[k] \in 1 .. Len(a) /\ y[k] \in 0 .. Len(b)
      BY <1>4, <2>2, <2>3
    <3>. QED
      BY <2>3, <3>1
  <2>4. CASE /\ y[k] = y[k - 1] + 1 /\ x[k] = x[k - 1] /\ m[k] = b[y[k]]
             /\ x[k] = Len(a) \/ ~ Before(a[x[k] + 1], b[y[k]])
    <3>1. y[k] \in 1 .. Len(b) /\ x[k] \in 0 .. Len(a)
      BY <1>4, <2>2, <2>4
    <3>. QED
      BY <2>4, <3>1
  <2>. QED
    BY <1>8, <2>3, <2>4
<1>. HIDE DEF ofA, ofB
<1>10. /\ \A k \in 1 .. n : x[k] >= x[k - 1] /\ y[k] >= y[k - 1]
       /\ \A k \in 1 .. n : k \in 0 .. n /\ k - 1 \in 0 .. n
  <2>1. ASSUME NEW k \in 1 .. n PROVE x[k] >= x[k - 1] /\ y[k] >= y[k - 1] /\ k \in 0 .. n /\ k - 1 \in 0 .. n
    <3>1. k \in 0 .. n /\ k - 1 \in 0 .. n
      BY <1>4
    <3>2. x[k] \in Nat /\ y[k] \in Nat /\ x[k - 1] \in Nat /\ y[k - 1] \in Nat
      BY <1>7, <3>1
    <3>. QED
      BY <1>9, <3>1, <3>2 DEF ofA, ofB
  <2>. QED
    BY <2>1
<1>11. \A i, j \in 0 .. n : i <= j => x[i] <= x[j] /\ y[i] <= y[j]
  <2>1. \A i, j \in 0 .. n : i <= j => x[i] <= x[j]
    BY <1>4, <1>7, <1>10, Rising
  <2>2. \A i, j \in 0 .. n : i <= j => y[i] <= y[j]
    BY <1>4, <1>7, <1>10, Rising
  <2>. QED
    BY <2>1, <2>2
<1>12. ASSUME NEW k \in 1 .. n PROVE m[k] \in s \cup t /\ m[k] \in Placed
  <2>1. CASE ofA(k)
    <3>1. x[k] \in 1 .. Len(a) /\ m[k] = a[x[k]]
      BY <2>1 DEF ofA
    <3>. QED
      BY <1>1, <1>2, <3>1
  <2>2. CASE ofB(k)
    <3>1. y[k] \in 1 .. Len(b) /\ m[k] = b[y[k]]
      BY <2>2 DEF ofB
    <3>. QED
      BY <1>1, <1>2, <3>1
  <2>. QED
    BY <1>9, <2>1, <2>2
<1>13. ASSUME NEW i \in 1 .. n, NEW j \in 1 .. n, i < j PROVE m[i] # m[j] /\ ~ Before(m[j], m[i])
  <2>1. i \in 0 .. n /\ j - 1 \in 0 .. n /\ i <= j - 1
    BY <1>4, <1>13
  <2>2. x[i] <= x[j - 1] /\ y[i] <= y[j - 1] /\ x[i] \in Nat /\ y[i] \in Nat /\ x[j - 1] \in Nat /\ y[j - 1] \in Nat
    BY <1>7, <1>11, <2>1
  <2>3. CASE ofA(i) /\ ofA(j)
    <3>1. x[i] < x[j] /\ x[i] \in 1 .. Len(a) /\ x[j] \in 1 .. Len(a) /\ m[i] = a[x[i]] /\ m[j] = a[x[j]]
      BY <2>2, <2>3 DEF ofA
    <3>. QED
      BY <1>1, <3>1
  <2>4. CASE ofB(i) /\ ofB(j)
    <3>1. y[i] < y[j] /\ y[i] \in 1 .. Len(b) /\ y[j] \in 1 .. Len(b) /\ m[i] = b[y[i]] /\ m[j] = b[y[j]]
      BY <2>2, <2>4 DEF ofB
    <3>. QED
      BY <1>1, <3>1
  <2>5. CASE ofA(i) /\ ofB(j)
    <3>1. PICK p, q, r : p = x[i] /\ q = y[j] /\ r = y[i]
      OBVIOUS
    <3>2. /\ p \in 1 .. Len(a) /\ q \in 1 .. Len(b) /\ r \in 0 .. Len(b) /\ r < q
          /\ m[i] = a[p] /\ m[j] = b[q] /\ (r = Len(b) \/ Before(a[p], b[r + 1]))
      BY <2>2, <2>5, <3>1 DEF ofA, ofB
    <3>3. a[p] \in s /\ b[q] \in t
      BY <1>2, <3>2
    <3>4. r + 1 \in 1 .. Len(b) /\ Before(a[p], b[r + 1]) /\ (r + 1 = q \/ r + 1 < q)
      BY <1>4, <3>2
    <3>5. a[p] \in Placed /\ b[q] \in Placed /\ b[r + 1] \in Placed
      BY <1>1, <3>2, <3>4
    <3>6. ~ Before(b[q], b[r + 1])
      BY <1>1, <3>2, <3>4, <3>5, BeforeIsStrict
    <3>7. ~ Before(b[q], a[p])
      BY <3>4, <3>5, <3>6, BeforeAndOn
    <3>. QED
      BY <3>2, <3>3, <3>7
  <2>6. CASE ofB(i) /\ ofA(j)
    <3>1. PICK p, q, r : p = y[i] /\ q = x[j] /\ r = x[i]
      OBVIOUS
    <3>2. /\ p \in 1 .. Len(b) /\ q \in 1 .. Len(a) /\ r \in 0 .. Len(a) /\ r < q
          /\ m[i] = b[p] /\ m[j] = a[q] /\ (r = Len(a) \/ ~ Before(a[r + 1], b[p]))
      BY <2>2, <2>6, <3>1 DEF ofA, ofB
    <3>3. b[p] \in t /\ a[q] \in s
      BY <1>2, <3>2
    <3>4. r + 1 \in 1 .. Len(a) /\ ~ Before(a[r + 1], b[p]) /\ (r + 1 = q \/ r + 1 < q)
      BY <1>4, <3>2
    <3>5. b[p] \in Placed /\ a[q] \in Placed /\ a[r + 1] \in Placed
      BY <1>1, <3>2, <3>4
    <3>6. ~ Before(a[q], a[r + 1])
      BY <1>1, <3>2, <3>4, <3>5, BeforeIsStrict
    <3>7. ~ Before(a[q], b[p])
      BY <3>4, <3>5, <3>6, BeforeGoesOn
    <3>. QED
      BY <3>2, <3>3, <3>7
  <2>. QED
    BY <1>9, <2>3, <2>4, <2>5, <2>6
<1>14. ASSUME NEW i \in 1 .. Len(a) PROVE \E k \in 1 .. n : m[k] = a[i]
  <2>. DEFINE U == {k \in 0 .. n : x[k] >= i}
  <2>1. n \in U
    <3>1. n \in 0 .. n
      BY <1>4
    <3>2. x[n] \in Nat /\ y[n] \in Nat /\ x[n] + y[n] = n /\ y[n] <= Len(b)
      BY <1>7, <3>1
    <3>3. x[n] >= i
      BY <1>3, <1>4, <3>2
    <3>. QED
      BY <3>1, <3>3
  <2>2. U \in SUBSET Nat
    BY <1>4
  <2>3. PICK k \in U : \A h \in U : k <= h
    <3>. HIDE DEF U
    <3>. QED
      BY <2>1, <2>2, LeastNat
  <2>4. k \in 0 .. n /\ x[k] >= i /\ k # 0
    BY <1>7, <2>3
  <2>5. k \in 1 .. n /\ k - 1 \in 0 .. n /\ ~ (k <= k - 1)
    BY <1>4, <2>4
  <2>6. ~ (x[k - 1] >= i)
    BY <2>3, <2>5
  <2>7. x[k] \in Nat /\ x[k - 1] \in Nat
    BY <1>7, <2>4, <2>5
  <2>. HIDE DEF U
  <2>8. ofA(k)
    <3>1. x[k] # x[k - 1]
      BY <2>4, <2>6, <2>7
    <3>. QED
      BY <1>9, <2>5, <3>1 DEF ofB
  <2>9. x[k] = i /\ m[k] = a[x[k]]
    <3>1. x[k] = x[k - 1] + 1 /\ m[k] = a[x[k]]
      BY <2>8 DEF ofA
    <3>. QED
      BY <2>4, <2>6, <2>7, <3>1
  <2>. QED
    BY <2>5, <2>9
<1>15. ASSUME NEW i \in 1 .. Len(b) PROVE \E k \in 1 .. n : m[k] = b[i]
  <2>. DEFINE U == {k \in 0 .. n : y[k] >= i}
  <2>1. n \in U
    <3>1. n \in 0 .. n
      BY <1>4
    <3>2. x[n] \in Nat /\ y[n] \in Nat /\ x[n] + y[n] = n /\ x[n] <= Len(a)
      BY <1>7, <3>1
    <3>3. y[n] >= i
      BY <1>3, <1>4, <3>2
    <3>. QED
      BY <3>1, <3>3
  <2>2. U \in SUBSET Nat
    BY <1>4
  <2>3. PICK k \in U : \A h \in U : k <= h
    <3>. HIDE DEF U
    <3>. QED
      BY <2>1, <2>2, LeastNat
  <2>4. k \in 0 .. n /\ y[k] >= i /\ k # 0
    BY <1>7, <2>3
  <2>5. k \in 1 .. n /\ k - 1 \in 0 .. n /\ ~ (k <= k - 1)
    BY <1>4, <2>4
  <2>6. ~ (y[k - 1] >= i)
    BY <2>3, <2>5
  <2>7. y[k] \in Nat /\ y[k - 1] \in Nat
    BY <1>7, <2>4, <2>5
  <2>. HIDE DEF U
  <2>8. ofB(k)
    <3>1. y[k] # y[k - 1]
      BY <2>4, <2>6, <2>7
    <3>. QED
      BY <1>9, <2>5, <3>1 DEF ofA
  <2>9. y[k] = i /\ m[k] = b[y[k]]
    <3>1. y[k] = y[k - 1] + 1 /\ m[k] = b[y[k]]
      BY <2>8 DEF ofB
    <3>. QED
      BY <2>4, <2>6, <2>7, <3>1
  <2>. QED
    BY <2>5, <2>9
<1>. QED
  <2>1. m \in Seq(Placed) /\ Len(m) = n
    <3>1. m \in [1 .. n -> Placed]
      BY <1>7, <1>12
    <3>. QED
      BY <1>4, <3>1
  <2>2. InRow(m)
    BY <1>13, <2>1 DEF InRow
  <2>3. ASSUME NEW z PROVE z \in s \cup t <=> \E k \in 1 .. n : m[k] = z
    <3>1. CASE z \in s
      <4>1. PICK i \in 1 .. Len(a) : a[i] = z
        BY <1>2, <3>1
      <4>. QED
        BY <1>14, <3>1, <4>1
    <3>2. CASE z \in t
      <4>1. PICK i \in 1 .. Len(b) : b[i] = z
        BY <1>2, <3>2
      <4>. QED
        BY <1>15, <3>2, <4>1
    <3>3. CASE z \notin s \cup t
      BY <1>12, <3>3
    <3>. QED
      BY <3>1, <3>2, <3>3
  <2>4. Lists(m, s \cup t)
    BY <1>13, <2>1, <2>2, <2>3 DEF Lists
  <2>. QED
    BY <1>6, <2>4

-----------------------------------------------------------------------------
(* What labels share, and where a range of them parts.                     *)

(* The parts of an element.                                                *)
LEMMA PlacedIs ==
  ASSUME NEW e \in Placed
  PROVE  e.label \in Label /\ e.len \in 0 .. Bits /\ e.value \in Stored /\ \A m \in 1 .. Bits : e.label[m] \in {0, 1}
<1>1. e.label \in Label /\ e.len \in 0 .. Bits /\ e.value \in Stored
  BY DEF Placed
<1>. QED
  BY <1>1 DEF Label

(* A set of integers that is bounded below has a least.                    *)
LEMMA LowestOf ==
  ASSUME NEW S \in SUBSET Int, S # {}, NEW b \in Int, \A x \in S : b <= x
  PROVE  Min(S) \in S /\ \A x \in S : Min(S) <= x
<1>1. \E x \in S : \A y \in S : x <= y
  BY LeastInt
<1>. QED
  BY <1>1 DEF Min

(* And one that is bounded above a greatest.                               *)
LEMMA HighestOf ==
  ASSUME NEW S \in SUBSET Int, S # {}, NEW b \in Int, \A x \in S : x <= b
  PROVE  Max(S) \in S /\ \A x \in S : x <= Max(S)
<1>1. \E x \in S : \A y \in S : y <= x
  BY GreatestInt
<1>2. \A x, y \in S : x >= y <=> y <= x
  OBVIOUS
<1>3. \E x \in S : \A y \in S : x >= y
  BY <1>1, <1>2
<1>4. Max(S) \in S /\ \A x \in S : Max(S) >= x
  BY <1>3 DEF Max
<1>. QED
  BY <1>2, <1>4

(* What two elements share: the bits that count in both.                   *)
LEMMA CommonPrefixIs ==
  ASSUME NEW d \in Placed, NEW e \in Placed, NEW c, c = CommonPrefixLen(d, e)
  PROVE  /\ c \in 0 .. Bits /\ c <= d.len /\ c <= e.len
         /\ AgreeTo(d.label, e.label, c)
         /\ c < d.len /\ c < e.len => d.label[c + 1] # e.label[c + 1]
<1>1. Bits \in Nat /\ d.len \in 0 .. Bits /\ e.len \in 0 .. Bits
  BY AkdTreeAssumption DEF Placed
<1>. DEFINE m == Min({d.len, e.len})
            S == {n \in 0 .. m : \A i \in 1 .. n : d.label[i] = e.label[i]}
<1>2. m \in {d.len, e.len} /\ m <= d.len /\ m <= e.len
  <2>1. \A x \in {d.len, e.len} : 0 <= x
    BY <1>1
  <2>2. {d.len, e.len} \in SUBSET Int /\ {d.len, e.len} # {}
    BY <1>1
  <2>. QED
    BY <2>1, <2>2, LowestOf
<1>3. c = Max(S)
  BY DEF CommonPrefixLen
<1>. HIDE DEF m
<1>4. m \in Nat
  BY <1>1, <1>2
<1>5. c \in S /\ \A x \in S : x <= c
  <2>1. S \in SUBSET Int /\ \A x \in S : x <= m
    BY <1>4
  <2>2. 0 \in S
    BY <1>4
  <2>. HIDE DEF S
  <2>. QED
    BY <1>3, <1>4, <2>1, <2>2, HighestOf
<1>6. c \in 0 .. m /\ AgreeTo(d.label, e.label, c)
  BY <1>5 DEF AgreeTo
<1>7. ASSUME c < d.len, c < e.len, d.label[c + 1] = e.label[c + 1] PROVE FALSE
  <2>1. c + 1 \in 0 .. m /\ ~ (c + 1 <= c)
    BY <1>1, <1>2, <1>6, <1>7
  <2>2. \A i \in 1 .. c + 1 : i \in 1 .. c \/ i = c + 1
    BY <1>4, <1>6
  <2>3. c + 1 \in S
    BY <1>6, <1>7, <2>1, <2>2 DEF AgreeTo
  <2>. HIDE DEF S
  <2>. QED
    BY <1>5, <2>1, <2>3
<1>. QED
  BY <1>1, <1>2, <1>6, <1>7

(* The first element with the bit set; if none has it, the end.            *)
PartedBy(q, lo, hi, bit, p) ==
  /\ p \in lo .. hi + 1
  /\ \A i \in lo .. p - 1 : q[i].label[bit] = 0
  /\ p <= hi => q[p].label[bit] = 1

(* FirstOne is that.                                                       *)
LEMMA FirstOneIs ==
  ASSUME NEW q \in Seq(Placed), NEW lo \in 1 .. Len(q) + 1, NEW hi \in 0 .. Len(q), lo <= hi + 1,
         NEW bit \in 1 .. Bits
  PROVE  PartedBy(q, lo, hi, bit, FirstOne(q, lo, hi, bit))
<1>. DEFINE S == {hi + 1} \cup {i \in lo .. hi : q[i].label[bit] = 1}
<1>1. Len(q) \in Nat
  OBVIOUS
<1>2. S \in SUBSET Int /\ S # {} /\ \A x \in S : lo <= x
  BY <1>1
<1>3. PICK p : p = FirstOne(q, lo, hi, bit) /\ p = Min(S)
  BY DEF FirstOne
<1>4. p \in S /\ \A x \in S : p <= x
  <2>. HIDE DEF S
  <2>. QED
    BY <1>1, <1>2, <1>3, LowestOf
<1>5. p \in lo .. hi + 1
  BY <1>1, <1>4
<1>6. ASSUME NEW i \in lo .. p - 1 PROVE q[i].label[bit] = 0
  <2>1. i \in lo .. hi /\ i \in 1 .. Len(q) /\ ~ (p <= i)
    BY <1>1, <1>5
  <2>2. q[i].label[bit] # 1
    BY <1>4, <2>1
  <2>3. q[i] \in Placed
    BY <2>1
  <2>4. q[i].label[bit] \in {0, 1}
    BY <2>3, PlacedIs
  <2>. QED
    BY <2>2, <2>4
<1>7. PartedBy(q, lo, hi, bit, p)
  <2>1. p <= hi => q[p].label[bit] = 1
    BY <1>1, <1>4, <1>5
  <2>. QED
    BY <1>5, <1>6, <2>1 DEF PartedBy
<1>. QED
  BY <1>3, <1>7

(* Elements in a row that share some bits part once on the next.           *)
Sharing(q, lo, hi, n) == \A i, j \in lo .. hi : AgreeTo(q[i].label, q[j].label, n)

(* The first with the next bit set parts the range in two.                 *)
LEMMA RowParts ==
  ASSUME NEW q, InRow(q), NEW lo \in 1 .. Len(q) + 1, NEW hi \in 0 .. Len(q), lo <= hi + 1,
         NEW n \in 0 .. Bits - 1, Sharing(q, lo, hi, n), NEW p, p = FirstOne(q, lo, hi, n + 1)
  PROVE  /\ p \in lo .. hi + 1
         /\ \A i \in lo .. p - 1 : q[i].label[n + 1] = 0
         /\ \A i \in p .. hi : q[i].label[n + 1] = 1
         /\ Sharing(q, lo, p - 1, n + 1) /\ Sharing(q, p, hi, n + 1)
<1>1. Bits \in Nat /\ n + 1 \in 1 .. Bits /\ n \in Nat
  BY AkdTreeAssumption
<1>2. q \in Seq(Placed) /\ Len(q) \in Nat /\ \A i, j \in 1 .. Len(q) : i < j => ~ Before(q[j], q[i])
  BY DEF InRow
<1>3. p \in lo .. hi + 1 /\ (\A i \in lo .. p - 1 : q[i].label[n + 1] = 0) /\ (p <= hi => q[p].label[n + 1] = 1)
  <2>1. q \in Seq(Placed)
    BY <1>2
  <2>2. n + 1 \in 1 .. Bits
    BY <1>1
  <2>3. PartedBy(q, lo, hi, n + 1, p)
    BY <2>1, <2>2, FirstOneIs, Zenon
  <2>. QED
    BY <2>3 DEF PartedBy
<1>4. ASSUME NEW i \in p .. hi PROVE q[i].label[n + 1] = 1
  <2>1. p \in lo .. hi /\ i \in lo .. hi /\ p \in 1 .. Len(q) /\ i \in 1 .. Len(q) /\ (i = p \/ p < i)
    BY <1>2, <1>3
  <2>2. q[p].label[n + 1] = 1
    BY <1>2, <1>3, <2>1
  <2>3. PICK a, b : a = q[i].label /\ b = q[p].label
    OBVIOUS
  <2>4. q[i] \in Placed
    BY <1>2, <2>1
  <2>5. a[n + 1] \in {0, 1}
    BY <1>1, <2>3, <2>4, PlacedIs
  <2>6. ASSUME a[n + 1] = 0 PROVE FALSE
    <3>1. i # p
      BY <2>2, <2>3, <2>6
    <3>2. \A m \in 1 .. n : a[m] = b[m]
      BY <2>1, <2>3 DEF Sharing, AgreeTo
    <3>3. a[n + 1] < b[n + 1] /\ (n + 1) - 1 = n
      BY <1>1, <2>2, <2>3, <2>6
    <3>4. LabelBefore(a, b)
      BY <1>1, <3>2, <3>3 DEF LabelBefore
    <3>. QED
      BY <1>2, <2>1, <2>3, <3>1, <3>4 DEF Before
  <2>. QED
    BY <2>3, <2>5, <2>6
<1>5. \A m \in 1 .. n + 1 : m \in 1 .. n \/ m = n + 1
  BY <1>1
<1>6. Sharing(q, lo, p - 1, n + 1)
  <2>1. SUFFICES ASSUME NEW i \in lo .. p - 1, NEW j \in lo .. p - 1, NEW m \in 1 .. n + 1
                 PROVE  q[i].label[m] = q[j].label[m]
    BY DEF Sharing, AgreeTo
  <2>2. i \in lo .. hi /\ j \in lo .. hi
    BY <1>2, <1>3
  <2>3. CASE m \in 1 .. n
    BY <2>2, <2>3 DEF Sharing, AgreeTo
  <2>4. CASE m = n + 1
    BY <1>3, <2>4
  <2>. QED
    BY <1>5, <2>3, <2>4
<1>7. Sharing(q, p, hi, n + 1)
  <2>1. \A i \in p .. hi : i \in lo .. hi
    BY <1>2, <1>3
  <2>. QED
    BY <1>4, <1>5, <2>1 DEF Sharing, AgreeTo
<1>. QED
  BY <1>3, <1>4, <1>6, <1>7

-----------------------------------------------------------------------------
(* The subtrees of a sequence.                                             *)

(* Where the elements of a row part.                                       *)
Shared(q, lo, hi) == CommonPrefixLen(q[lo], q[hi])
Parting(q, lo, hi) == FirstOne(q, lo, hi, Shared(q, lo, hi) + 1)
Halves(q, lo, hi) ==
  /\ ~ OnInterior(q[lo], Shared(q, lo, hi))
  /\ Parting(q, lo, hi) # lo /\ Parting(q, lo, hi) # hi + 1

(* Covering, case by case.                                                 *)
LEMMA CoveringIs ==
  ASSUME NEW q, NEW lo \in Nat, NEW hi \in Nat, NEW f
  PROVE  /\ hi < lo => Covering(q, lo, hi, f) = EmptyChild
         /\ lo = hi => Covering(q, lo, hi, f) = LeafOf(q[lo])
         /\ lo < hi /\ ~ Halves(q, lo, hi) => Covering(q, lo, hi, f) = Failed
         /\ lo < hi /\ Halves(q, lo, hi) =>
              LET l == f[lo][Parting(q, lo, hi) - 1]
                  r == f[Parting(q, lo, hi)][hi]
              IN  /\ NoRoot \in {l.val, r.val} => Covering(q, lo, hi, f) = Failed
                  /\ NoRoot \notin {l.val, r.val} =>
                       Covering(q, lo, hi, f) = NodeOf(l, r, q[lo].label, Shared(q, lo, hi))
<1>1. hi < lo => ~ (lo = hi)
  OBVIOUS
<1>2. lo = hi => ~ (hi < lo)
  OBVIOUS
<1>3. lo < hi => ~ (lo = hi) /\ ~ (hi < lo)
  OBVIOUS
<1>. QED
  BY <1>1, <1>2, <1>3, Zenon DEF Covering, Joined, Halves, Parting, Shared

(* Of at most one element.                                                 *)
LEMMA CoveringFew ==
  ASSUME NEW q, NEW lo \in Nat, NEW hi \in Nat, NEW f
  PROVE  /\ hi < lo => Covering(q, lo, hi, f) = EmptyChild
         /\ lo = hi => Covering(q, lo, hi, f) = LeafOf(q[lo])
BY CoveringIs, Zenon

(* A range that parts has something on both sides.                         *)
LEMMA PartingIs ==
  ASSUME NEW q \in Seq(Placed), NEW lo \in 1 .. Len(q), NEW hi \in 1 .. Len(q), lo < hi, Halves(q, lo, hi)
  PROVE  /\ Parting(q, lo, hi) \in lo + 1 .. hi
         /\ Shared(q, lo, hi) \in 0 .. Bits - 1
<1>1. Len(q) \in Nat /\ Bits \in Nat /\ lo \in Nat /\ hi \in Nat
  BY AkdTreeAssumption
<1>2. PICK c, p : c = Shared(q, lo, hi) /\ p = Parting(q, lo, hi)
  OBVIOUS
<1>3. q[lo] \in Placed /\ q[hi] \in Placed
  BY <1>1
<1>4. c \in 0 .. Bits /\ c <= q[lo].len /\ q[lo].len \in 0 .. Bits
  BY <1>2, <1>3, CommonPrefixIs, PlacedIs DEF Shared
<1>5. c # q[lo].len
  BY <1>2 DEF Halves, OnInterior
<1>6. c \in 0 .. Bits - 1 /\ c + 1 \in 1 .. Bits
  BY <1>1, <1>4, <1>5
<1>7. PartedBy(q, lo, hi, c + 1, p)
  <2>1. lo \in 1 .. Len(q) + 1 /\ hi \in 0 .. Len(q) /\ lo <= hi + 1
    BY <1>1
  <2>2. p = FirstOne(q, lo, hi, c + 1)
    BY <1>2 DEF Parting
  <2>. QED
    BY <1>6, <2>1, <2>2, FirstOneIs, Zenon
<1>8. p \in lo .. hi + 1 /\ p # lo /\ p # hi + 1
  BY <1>2, <1>7 DEF PartedBy, Halves
<1>. QED
  BY <1>1, <1>2, <1>6, <1>8

(* Two trees that are one on the halves of a range are one on the range.   *)
Alike(q, lo, hi, f, g) ==
  lo < hi /\ Halves(q, lo, hi) =>
     /\ f[lo][Parting(q, lo, hi) - 1] = g[lo][Parting(q, lo, hi) - 1]
     /\ f[Parting(q, lo, hi)][hi] = g[Parting(q, lo, hi)][hi]

(* Covering looks at the halves only.                                      *)
LEMMA CoveringAlike ==
  ASSUME NEW q, NEW lo \in Nat, NEW hi \in Nat, NEW f, NEW g, Alike(q, lo, hi, f, g)
  PROVE  Covering(q, lo, hi, f) = Covering(q, lo, hi, g)
<1>1. CASE hi < lo
  BY <1>1, CoveringIs, Zenon
<1>2. CASE lo = hi
  <2>1. ~ (hi < lo)
    BY <1>2
  <2>. QED
    BY <1>2, <2>1, Zenon DEF Covering
<1>3. CASE lo < hi
  BY <1>3, Zenon DEF Covering, Joined, Halves, Parting, Shared, Alike
<1>. QED
  BY <1>1, <1>2, <1>3

(* The recursion of SubtreeOf.                                             *)
IsSub(f, q) == f = [lo \in 1 .. Len(q) + 1 |-> [hi \in 0 .. Len(q) |-> Covering(q, lo, hi, f)]]

(* It has a value: by the width of the range.                              *)
LEMMA SubExists ==
  ASSUME NEW q \in Seq(Placed)
  PROVE  \E f : IsSub(f, q)
<1>. DEFINE N == Len(q)
            next(f) == [lo \in 1 .. N + 1 |-> [hi \in 0 .. N |-> Covering(q, lo, hi, f)]]
            fine(f, w) == \A lo \in 1 .. N + 1, hi \in 0 .. N :
                             hi < lo + w => f[lo][hi] = Covering(q, lo, hi, f)
            U == {w \in 0 .. N : ~ \E f : fine(f, w)}
<1>1. N \in Nat
  OBVIOUS
<1>2. \A f : \A lo \in 1 .. N + 1, hi \in 0 .. N : next(f)[lo][hi] = Covering(q, lo, hi, f)
  OBVIOUS
<1>. HIDE DEF next, fine, N
<1>3. ASSUME NEW f, NEW w \in 0 .. N, w # 0, fine(f, w - 1) PROVE fine(next(f), w)
  <2>1. SUFFICES ASSUME NEW lo \in 1 .. N + 1, NEW hi \in 0 .. N, hi < lo + w
                 PROVE  next(f)[lo][hi] = Covering(q, lo, hi, next(f))
    BY DEF fine
  <2>2. lo \in Nat /\ hi \in Nat
    BY <1>1
  <2>3. ASSUME lo < hi, Halves(q, lo, hi)
        PROVE  /\ f[lo][Parting(q, lo, hi) - 1] = next(f)[lo][Parting(q, lo, hi) - 1]
               /\ f[Parting(q, lo, hi)][hi] = next(f)[Parting(q, lo, hi)][hi]
    <3>1. PICK p : p = Parting(q, lo, hi)
      OBVIOUS
    <3>2. p \in lo + 1 .. hi
      <4>1. lo \in 1 .. Len(q) /\ hi \in 1 .. Len(q)
        BY <1>1, <2>3 DEF N
      <4>. QED
        BY <2>3, <3>1, <4>1, PartingIs
    <3>3. /\ p \in 1 .. N + 1 /\ p - 1 \in 0 .. N
          /\ p - 1 < lo + (w - 1) /\ hi < p + (w - 1)
      BY <1>1, <2>1, <2>2, <3>2
    <3>4. f[lo][p - 1] = Covering(q, lo, p - 1, f) /\ f[p][hi] = Covering(q, p, hi, f)
      BY <1>3, <3>3 DEF fine
    <3>5. next(f)[lo][p - 1] = Covering(q, lo, p - 1, f) /\ next(f)[p][hi] = Covering(q, p, hi, f)
      BY <1>2, <3>3
    <3>. QED
      BY <3>1, <3>4, <3>5
  <2>4. Covering(q, lo, hi, f) = Covering(q, lo, hi, next(f))
    <3>1. Alike(q, lo, hi, f, next(f))
      BY <2>3 DEF Alike
    <3>. QED
      BY <2>2, <3>1, CoveringAlike
  <2>. QED
    BY <1>2, <2>4
<1>4. U = {}
  <2>1. SUFFICES ASSUME U # {} PROVE FALSE
    OBVIOUS
  <2>2. U \in SUBSET Nat
    BY <1>1
  <2>3. PICK w \in U : \A v \in U : w <= v
    <3>. HIDE DEF U
    <3>. QED
      BY <2>1, <2>2, LeastNat
  <2>4. w \in 0 .. N /\ ~ \E f : fine(f, w)
    BY <2>3
  <2>5. CASE w = 0
    <3>. DEFINE f == [lo \in 1 .. N + 1 |-> [hi \in 0 .. N |-> IF hi < lo THEN EmptyChild ELSE Failed]]
    <3>1. ASSUME NEW lo \in 1 .. N + 1, NEW hi \in 0 .. N, hi < lo + 0 PROVE f[lo][hi] = Covering(q, lo, hi, f)
      <4>1. hi < lo /\ lo \in Nat /\ hi \in Nat
        BY <1>1, <3>1
      <4>2. f[lo][hi] = EmptyChild
        BY <4>1
      <4>. HIDE DEF f
      <4>3. Covering(q, lo, hi, f) = EmptyChild
        BY <4>1, CoveringFew, Zenon
      <4>. QED
        BY <4>2, <4>3
    <3>. HIDE DEF f
    <3>2. fine(f, 0)
      BY <3>1 DEF fine
    <3>. QED
      BY <2>4, <2>5, <3>2
  <2>6. CASE w # 0
    <3>1. w - 1 \in 0 .. N /\ ~ (w <= w - 1)
      BY <1>1, <2>4, <2>6
    <3>2. PICK f : fine(f, w - 1)
      BY <2>3, <3>1
    <3>. QED
      BY <1>3, <2>4, <2>6, <3>2
  <2>. QED
    BY <2>5, <2>6
<1>5. PICK f : fine(f, N)
  <2>1. N \in 0 .. N
    BY <1>1
  <2>. QED
    BY <1>4, <2>1
<1>. DEFINE g == next(f)
<1>6. \A lo \in 1 .. N + 1, hi \in 0 .. N : f[lo][hi] = Covering(q, lo, hi, f)
  <2>1. \A lo \in 1 .. N + 1, hi \in 0 .. N : hi < lo + N
    BY <1>1
  <2>. QED
    BY <1>5, <2>1 DEF fine
<1>7. ASSUME NEW lo \in 1 .. N + 1, NEW hi \in 0 .. N PROVE Covering(q, lo, hi, f) = Covering(q, lo, hi, g)
  <2>1. lo \in Nat /\ hi \in Nat
    BY <1>1
  <2>2. ASSUME lo < hi, Halves(q, lo, hi)
        PROVE  /\ f[lo][Parting(q, lo, hi) - 1] = g[lo][Parting(q, lo, hi) - 1]
               /\ f[Parting(q, lo, hi)][hi] = g[Parting(q, lo, hi)][hi]
    <3>1. PICK p : p = Parting(q, lo, hi)
      OBVIOUS
    <3>2. p \in lo + 1 .. hi
      <4>1. lo \in 1 .. Len(q) /\ hi \in 1 .. Len(q)
        BY <1>1, <2>2 DEF N
      <4>. QED
        BY <2>2, <3>1, <4>1, PartingIs
    <3>3. p \in 1 .. N + 1 /\ p - 1 \in 0 .. N
      BY <1>1, <2>1, <3>2
    <3>. QED
      BY <1>2, <1>6, <3>1, <3>3
  <2>. HIDE DEF g
  <2>3. Alike(q, lo, hi, f, g)
    BY <2>2 DEF Alike
  <2>. QED
    BY <2>1, <2>3, CoveringAlike
<1>8. g = [lo \in 1 .. N + 1 |-> [hi \in 0 .. N |-> Covering(q, lo, hi, g)]]
  <2>1. g = [lo \in 1 .. N + 1 |-> [hi \in 0 .. N |-> Covering(q, lo, hi, f)]]
    BY DEF next
  <2>. HIDE DEF g
  <2>2. \A lo \in 1 .. N + 1 : [hi \in 0 .. N |-> Covering(q, lo, hi, f)] = [hi \in 0 .. N |-> Covering(q, lo, hi, g)]
    BY <1>7
  <2>. QED
    BY <2>1, <2>2
<1>. QED
  BY <1>8, Zenon DEF IsSub, N

(* A tree over ranges of a row, each of two of its ranges.                 *)
Subtrees(f, q) ==
  /\ \A lo \in 1 .. Len(q) + 1, hi \in 0 .. Len(q) : f[lo][hi] = Covering(q, lo, hi, f)
  /\ \A lo \in 1 .. Len(q) + 1, hi \in 0 .. Len(q) : SubtreeOf(q, lo, hi) = f[lo][hi]

(* Every row has such a tree.                                              *)
LEMMA SubtreesAre ==
  ASSUME NEW q \in Seq(Placed)
  PROVE  \E f : Subtrees(f, q)
<1>. DEFINE F == CHOOSE f : IsSub(f, q)
<1>1. IsSub(F, q)
  BY SubExists, Zenon
<1>2. \A lo, hi : SubtreeOf(q, lo, hi) = F[lo][hi]
  BY Zenon DEF SubtreeOf, IsSub
<1>. HIDE DEF F
<1>3. \A lo \in 1 .. Len(q) + 1 : F[lo] = [hi \in 0 .. Len(q) |-> Covering(q, lo, hi, F)]
  BY <1>1, Zenon DEF IsSub
<1>4. \A lo \in 1 .. Len(q) + 1, hi \in 0 .. Len(q) : F[lo][hi] = Covering(q, lo, hi, F)
  BY <1>3, Zenon
<1>5. Subtrees(F, q)
  BY <1>2, <1>4 DEF Subtrees
<1>. QED
  BY <1>5

-----------------------------------------------------------------------------
(* An element on the node over another is an error.                        *)

(* What holds of the last number and of each before one that it holds of.  *)
LEMMA Downward ==
  ASSUME NEW N \in Nat, NEW S, \A n \in 0 .. N : n = N \/ n + 1 \in S => n \in S
  PROVE  \A n \in 0 .. N : n \in S
<1>. DEFINE U == {m \in 0 .. N : N - m \notin S}
<1>1. U = {}
  <2>1. SUFFICES ASSUME U # {} PROVE FALSE
    OBVIOUS
  <2>2. U \in SUBSET Nat
    OBVIOUS
  <2>3. PICK m \in U : \A v \in U : m <= v
    <3>. HIDE DEF U
    <3>. QED
      BY <2>1, <2>2, LeastNat
  <2>4. m \in 0 .. N /\ N - m \in 0 .. N /\ N - m \notin S
    BY <2>3
  <2>5. m # 0
    BY <2>4
  <2>6. m - 1 \in 0 .. N /\ ~ (m <= m - 1) /\ N - (m - 1) = (N - m) + 1
    BY <2>4, <2>5
  <2>7. (N - m) + 1 \in S
    BY <2>3, <2>6
  <2>. QED
    BY <2>4, <2>7
<1>2. SUFFICES ASSUME NEW n \in 0 .. N PROVE n \in S
  OBVIOUS
<1>3. N - n \in 0 .. N /\ N - (N - n) = n
  OBVIOUS
<1>. QED
  BY <1>1, <1>3

(* What the ends of a row share, all between share.                        *)
LEMMA RowShares ==
  ASSUME NEW q, InRow(q), NEW lo \in 1 .. Len(q), NEW hi \in 1 .. Len(q), lo < hi,
         NEW m \in 0 .. Bits, AgreeTo(q[lo].label, q[hi].label, m)
  PROVE  Sharing(q, lo, hi, m)
<1>1. q \in Seq(Placed) /\ Len(q) \in Nat /\ \A i, j \in 1 .. Len(q) : i < j => ~ Before(q[j], q[i])
  BY DEF InRow
<1>2. ASSUME NEW i \in lo .. hi PROVE AgreeTo(q[lo].label, q[i].label, m)
  <2>1. i \in 1 .. Len(q) /\ (i = lo \/ lo < i) /\ (i = hi \/ i < hi)
    BY <1>1
  <2>2. q[lo] \in Placed /\ q[i] \in Placed /\ q[hi] \in Placed
    BY <1>1, <2>1
  <2>3. ~ Before(q[i], q[lo]) /\ ~ Before(q[hi], q[i])
    BY <1>1, <2>1, <2>2, BeforeIsStrict
  <2>. QED
    BY <2>2, <2>3, Squeezed
<1>. QED
  BY <1>2 DEF Sharing, AgreeTo

(* A row that parts does so at the bit behind what its ends share.         *)
LEMMA HalvesAre ==
  ASSUME NEW q, InRow(q), NEW lo \in 1 .. Len(q), NEW hi \in 1 .. Len(q), lo < hi,
         Shared(q, lo, hi) < Bits
  PROVE  LET c == Shared(q, lo, hi)
             p == Parting(q, lo, hi)
         IN  /\ p \in lo .. hi + 1
             /\ \A i \in lo .. p - 1 : q[i].label[c + 1] = 0
             /\ \A i \in p .. hi : q[i].label[c + 1] = 1
             /\ Sharing(q, lo, hi, c) /\ Sharing(q, lo, p - 1, c + 1) /\ Sharing(q, p, hi, c + 1)
<1>. DEFINE c == Shared(q, lo, hi)
            p == Parting(q, lo, hi)
<1>1. q \in Seq(Placed) /\ Len(q) \in Nat /\ Bits \in Nat
  BY AkdTreeAssumption DEF InRow
<1>2. q[lo] \in Placed /\ q[hi] \in Placed
  BY <1>1
<1>3. c \in 0 .. Bits /\ AgreeTo(q[lo].label, q[hi].label, c)
  BY <1>2, CommonPrefixIs DEF Shared
<1>4. c \in 0 .. Bits - 1
  BY <1>1, <1>3
<1>5. Sharing(q, lo, hi, c)
  BY <1>3, RowShares
<1>6. p = FirstOne(q, lo, hi, c + 1)
  BY DEF Parting
<1>7. lo \in 1 .. Len(q) + 1 /\ hi \in 0 .. Len(q) /\ lo <= hi + 1
  BY <1>1
<1>. HIDE DEF c, p
<1>8. /\ p \in lo .. hi + 1
      /\ \A i \in lo .. p - 1 : q[i].label[c + 1] = 0
      /\ \A i \in p .. hi : q[i].label[c + 1] = 1
      /\ Sharing(q, lo, p - 1, c + 1) /\ Sharing(q, p, hi, c + 1)
  BY <1>4, <1>5, <1>6, <1>7, RowParts
<1>. QED
  BY <1>5, <1>8 DEF c, p

(* An element over another, that no bit steers to its side.                *)
Sits(e, d) ==
  \/ SamePlace(d, e)
  \/ /\ \A k \in 1 .. Bits : k > e.len => e.label[k] = 0
     /\ AgreeTo(e.label, d.label, e.len)

(* Every range that holds such a pair and shares n bits is an error.       *)
Fails(q, f, n) ==
  \A lo \in 1 .. Len(q) + 1, hi \in 0 .. Len(q) : \A i, j \in lo .. hi :
     Sharing(q, lo, hi, n) /\ i # j /\ Sits(q[i], q[j]) => f[lo][hi] = Failed

(* It is on the node where they would part, or on the same side.           *)
LEMMA SittingGoesOn ==
  ASSUME NEW a \in Placed, NEW e \in Placed, NEW d \in Placed, NEW c \in 0 .. Bits - 1,
         a = e \/ ~ Before(e, a), AgreeTo(a.label, e.label, c), c < a.len, Sits(e, d)
  PROVE  d.label[c + 1] = e.label[c + 1]
<1>1. /\ Bits \in Nat /\ c + 1 \in 1 .. Bits /\ c \in Nat
      /\ a.len \in 0 .. Bits /\ e.len \in 0 .. Bits /\ a.label \in Label /\ e.label \in Label
      /\ \A m \in 1 .. Bits : a.label[m] \in {0, 1} /\ e.label[m] \in {0, 1}
  BY AkdTreeAssumption, PlacedIs
<1>2. CASE SamePlace(d, e)
  BY <1>2 DEF SamePlace
<1>3. CASE ~ SamePlace(d, e)
  <2>1. (\A k \in 1 .. Bits : k > e.len => e.label[k] = 0) /\ AgreeTo(e.label, d.label, e.len)
    BY <1>3 DEF Sits
  <2>2. CASE c + 1 <= e.len
    <3>1. c + 1 \in 1 .. e.len
      BY <1>1, <2>2
    <3>. QED
      BY <2>1, <3>1 DEF AgreeTo
  <2>3. CASE ~ (c + 1 <= e.len)
    <3>1. e.len <= c
      BY <1>1, <2>3
    <3>2. a # e
      BY <1>1, <3>1
    <3>3. ~ LabelBefore(a.label, e.label)
      <4>1. SUFFICES ASSUME LabelBefore(a.label, e.label) PROVE FALSE
        OBVIOUS
      <4>2. PICK m \in 1 .. Bits : a.label[m] < e.label[m]
        BY <4>1 DEF LabelBefore
      <4>3. a.label[m] \in {0, 1} /\ e.label[m] \in {0, 1}
        BY <1>1
      <4>4. e.label[m] # 0 /\ a.label[m] # e.label[m]
        BY <4>2, <4>3
      <4>5. ~ (m > e.len)
        BY <2>1, <4>4
      <4>6. m \in 1 .. c
        BY <1>1, <3>1, <4>5
      <4>. QED
        BY <4>4, <4>6 DEF AgreeTo
    <3>4. a.label = e.label
      BY <1>1, <3>2, <3>3, LabelTotal DEF Before
    <3>5. ~ (e.len < a.len)
      BY <3>2, <3>4 DEF Before
    <3>. QED
      BY <1>1, <3>1, <3>5
  <2>. QED
    BY <2>2, <2>3
<1>. QED
  BY <1>2, <1>3

(* If it is so of one bit more, it is so of n.                             *)
LEMMA FailsGoesOn ==
  ASSUME NEW q, InRow(q), NEW f, Subtrees(f, q), NEW n \in 0 .. Bits, n = Bits \/ Fails(q, f, n + 1)
  PROVE  Fails(q, f, n)
<1>1. q \in Seq(Placed) /\ Len(q) \in Nat /\ Bits \in Nat /\ n \in Nat
  BY AkdTreeAssumption DEF InRow
<1>2. SUFFICES ASSUME NEW lo \in 1 .. Len(q) + 1, NEW hi \in 0 .. Len(q), NEW i \in lo .. hi, NEW j \in lo .. hi,
                      Sharing(q, lo, hi, n), i # j, Sits(q[i], q[j])
               PROVE  f[lo][hi] = Failed
  BY DEF Fails
<1>3. /\ lo \in Nat /\ hi \in Nat /\ lo < hi /\ lo \in 1 .. Len(q) /\ hi \in 1 .. Len(q)
      /\ i \in 1 .. Len(q) /\ j \in 1 .. Len(q) /\ lo \in lo .. hi /\ hi \in lo .. hi
  BY <1>1, <1>2
<1>4. f[lo][hi] = Covering(q, lo, hi, f)
  BY DEF Subtrees
<1>5. CASE ~ Halves(q, lo, hi)
  BY <1>3, <1>4, <1>5, CoveringIs, Zenon
<1>6. CASE Halves(q, lo, hi)
  <2>1. PICK c, p : c = Shared(q, lo, hi) /\ p = Parting(q, lo, hi)
    OBVIOUS
  <2>2. p \in lo + 1 .. hi /\ c \in 0 .. Bits - 1
    BY <1>1, <1>3, <1>6, <2>1, PartingIs
  <2>3. c < Bits /\ c \in Nat /\ p \in Nat
    BY <1>1, <1>3, <2>2
  <2>4. /\ \A k \in lo .. p - 1 : q[k].label[c + 1] = 0
        /\ \A k \in p .. hi : q[k].label[c + 1] = 1
        /\ Sharing(q, lo, hi, c) /\ Sharing(q, lo, p - 1, c + 1) /\ Sharing(q, p, hi, c + 1)
    BY <1>3, <2>1, <2>3, HalvesAre
  <2>5. n <= c
    <3>1. SUFFICES ASSUME c + 1 <= n PROVE FALSE
      BY <1>1, <2>3
    <3>2. lo \in lo .. p - 1 /\ hi \in p .. hi /\ c + 1 \in 1 .. n
      BY <1>1, <1>3, <2>2, <2>3, <3>1
    <3>3. q[lo].label[c + 1] = q[hi].label[c + 1]
      BY <1>2, <1>3, <3>2 DEF Sharing, AgreeTo
    <3>. QED
      BY <2>4, <3>2, <3>3
  <2>6. Fails(q, f, n + 1) /\ \A k \in 1 .. n + 1 : k \in 1 .. c + 1
    BY <1>1, <1>2, <2>3, <2>5
  <2>7. Sharing(q, lo, p - 1, n + 1) /\ Sharing(q, p, hi, n + 1)
    BY <2>4, <2>6 DEF Sharing, AgreeTo
  <2>8. q[j].label[c + 1] = q[i].label[c + 1]
    <3>1. q[lo] \in Placed /\ q[i] \in Placed /\ q[j] \in Placed /\ q[hi] \in Placed
      BY <1>1, <1>3
    <3>2. lo = i \/ ~ Before(q[i], q[lo])
      <4>1. lo = i \/ lo < i
        BY <1>3
      <4>. QED
        BY <1>3, <4>1 DEF InRow
    <3>3. AgreeTo(q[lo].label, q[i].label, c)
      BY <1>3, <2>4 DEF Sharing
    <3>4. c < q[lo].len
      <4>1. c <= q[lo].len /\ q[lo].len \in 0 .. Bits
        BY <2>1, <3>1, CommonPrefixIs, PlacedIs DEF Shared
      <4>2. c # q[lo].len
        BY <1>6, <2>1 DEF Halves, OnInterior
      <4>. QED
        BY <1>1, <2>3, <4>1, <4>2
    <3>. QED
      BY <1>2, <2>2, <3>1, <3>2, <3>3, <3>4, SittingGoesOn
  <2>. DEFINE l == f[lo][p - 1]
              r == f[p][hi]
  <2>9. l = Failed \/ r = Failed
    <3>1. CASE i < p
      <4>1. i \in lo .. p - 1
        BY <1>1, <1>3, <2>3, <3>1
      <4>2. j \in lo .. p - 1
        <5>1. SUFFICES ASSUME j \in p .. hi PROVE FALSE
          BY <1>3, <2>3
        <5>. QED
          BY <2>4, <2>8, <4>1, <5>1
      <4>3. p - 1 \in 0 .. Len(q)
        BY <1>1, <1>3, <2>2
      <4>. QED
        BY <1>2, <2>6, <2>7, <4>1, <4>2, <4>3 DEF Fails
    <3>2. CASE ~ (i < p)
      <4>1. i \in p .. hi
        BY <1>1, <1>3, <2>3, <3>2
      <4>2. j \in p .. hi
        <5>1. SUFFICES ASSUME j \in lo .. p - 1 PROVE FALSE
          BY <1>3, <2>3
        <5>. QED
          BY <2>4, <2>8, <4>1, <5>1
      <4>3. p \in 1 .. Len(q) + 1
        BY <1>1, <1>3, <2>2
      <4>. QED
        BY <1>2, <2>6, <2>7, <4>1, <4>2, <4>3 DEF Fails
    <3>. QED
      BY <3>1, <3>2
  <2>10. NoRoot \in {l.val, r.val}
    BY <2>9 DEF Failed
  <2>. QED
    BY <1>3, <1>4, <1>6, <2>1, <2>10, CoveringIs, Zenon
<1>. QED
  BY <1>5, <1>6

(* It is so of any number of bits.                                         *)
LEMMA RowFails ==
  ASSUME NEW q, InRow(q), NEW f, Subtrees(f, q), NEW n \in 0 .. Bits
  PROVE  Fails(q, f, n)
<1>. DEFINE S == {m \in 0 .. Bits : Fails(q, f, m)}
<1>1. Bits \in Nat
  BY AkdTreeAssumption
<1>2. ASSUME NEW m \in 0 .. Bits, m = Bits \/ m + 1 \in S PROVE m \in S
  <2>1. m = Bits \/ Fails(q, f, m + 1)
    BY <1>2
  <2>2. Fails(q, f, m)
    BY <2>1, FailsGoesOn
  <2>. QED
    BY <2>2
<1>3. \A m \in 0 .. Bits : m \in S
  <2>. HIDE DEF S
  <2>. QED
    BY <1>1, <1>2, Downward
<1>. QED
  BY <1>3

-----------------------------------------------------------------------------
(* The trie, by the rows of its definition.                                *)

(* A row of the trie, from the one behind it.                              *)
TrieRow(h, n, s) ==
  [t \in SUBSET s |->
     LET e == CHOOSE x \in t : TRUE
         l == WithBit(t, n + 1, 0)
         r == WithBit(t, n + 1, 1)
     IN IF t = {} THEN EmptyChild
        ELSE IF t = {e} THEN LeafOf(e)
        ELSE IF n = Bits THEN Failed
        ELSE IF {} \in {l, r} THEN h[t]
        ELSE NodeOf(h[l], h[r], e.label, n)]
IsTrie(g, s) ==
  g = [n \in 1 .. Bits |->
         [t \in SUBSET s |->
             LET e == CHOOSE x \in t : TRUE
                 l == WithBit(t, n + 1, 0)
                 r == WithBit(t, n + 1, 1)
             IN IF t = {} THEN EmptyChild
                ELSE IF t = {e} THEN LeafOf(e)
                ELSE IF n = Bits THEN Failed
                ELSE IF {} \in {l, r} THEN g[n + 1][t]
                ELSE NodeOf(g[n + 1][l], g[n + 1][r], e.label, n)]]

(* The trie's recursion goes row by row.                                   *)
LEMMA TrieByRows ==
  ASSUME NEW g, NEW s
  PROVE  IsTrie(g, s) <=> g = [n \in 1 .. Bits |-> TrieRow(g[n + 1], n, s)]
BY Zenon DEF IsTrie, TrieRow

(* The last row depends on no other.                                       *)
LEMMA LastTrieRow ==
  ASSUME NEW h, NEW k, NEW s
  PROVE  TrieRow(h, Bits, s) = TrieRow(k, Bits, s)
<1>. DEFINE at(x, t) == LET e == CHOOSE y \in t : TRUE
                            l == WithBit(t, Bits + 1, 0)
                            r == WithBit(t, Bits + 1, 1)
                        IN IF t = {} THEN EmptyChild
                           ELSE IF t = {e} THEN LeafOf(e)
                           ELSE IF Bits = Bits THEN Failed
                           ELSE IF {} \in {l, r} THEN x[t]
                           ELSE NodeOf(x[l], x[r], e.label, Bits)
<1>1. \A x : TrieRow(x, Bits, s) = [t \in SUBSET s |-> at(x, t)]
  BY Zenon DEF TrieRow
<1>2. \A t \in SUBSET s : at(h, t) = at(k, t)
  <2>1. SUFFICES ASSUME NEW t \in SUBSET s PROVE at(h, t) = at(k, t)
    BY Zenon
  <2>2. CASE t = {}
    BY <2>2, Zenon
  <2>3. CASE t # {} /\ t = {CHOOSE y \in t : TRUE}
    BY <2>3, Zenon
  <2>4. CASE t # {} /\ t # {CHOOSE y \in t : TRUE}
    <3>1. at(h, t) = Failed
      BY <2>4, Zenon
    <3>2. at(k, t) = Failed
      BY <2>4, Zenon
    <3>. QED
      BY <3>1, <3>2, Zenon
  <2>. QED
    BY <2>2, <2>3, <2>4, Zenon
<1>. HIDE DEF at
<1>. QED
  BY <1>1, <1>2, Zenon

(* The trie's recursion has a value: from the last row up.                 *)
LEMMA TrieExists ==
  ASSUME NEW s
  PROVE  \E g : IsTrie(g, s)
<1>. DEFINE fine(g, n) == \A m \in 1 .. Bits : m >= n => g[m] = TrieRow(g[m + 1], m, s)
            S == {n \in 0 .. Bits : \E g : fine(g, n)}
<1>1. Bits \in Nat
  BY AkdTreeAssumption
<1>. HIDE DEF fine
<1>2. ASSUME NEW n \in 0 .. Bits, n = Bits \/ n + 1 \in S PROVE n \in S
  <2>1. PICK h : n = Bits \/ fine(h, n + 1)
    BY <1>2
  <2>. DEFINE g == [m \in 0 .. Bits + 1 |-> IF m = n THEN TrieRow(h[n + 1], n, s) ELSE h[m]]
  <2>2. \A m \in 0 .. Bits + 1 : g[m] = IF m = n THEN TrieRow(h[n + 1], n, s) ELSE h[m]
    OBVIOUS
  <2>. HIDE DEF g
  <2>3. ASSUME NEW m \in 1 .. Bits, m >= n PROVE g[m] = TrieRow(g[m + 1], m, s)
    <3>1. m \in 0 .. Bits + 1 /\ m + 1 \in 0 .. Bits + 1 /\ m + 1 # n
      BY <1>1, <2>3
    <3>2. g[m + 1] = h[m + 1]
      BY <2>2, <3>1
    <3>3. CASE m = n
      BY <2>2, <3>1, <3>2, <3>3
    <3>4. CASE m # n
      <4>1. m >= n + 1 /\ n # Bits
        BY <1>1, <2>3, <3>4
      <4>2. h[m] = TrieRow(h[m + 1], m, s)
        BY <2>1, <4>1 DEF fine
      <4>. QED
        BY <2>2, <3>1, <3>2, <3>4, <4>2
    <3>. QED
      BY <3>3, <3>4
  <2>4. fine(g, n)
    BY <2>3 DEF fine
  <2>. QED
    BY <2>4
<1>3. 0 \in S
  <2>1. \A n \in 0 .. Bits : n \in S
    <3>. HIDE DEF S
    <3>. QED
      BY <1>1, <1>2, Downward
  <2>. QED
    BY <1>1, <2>1
<1>4. PICK h : fine(h, 0)
  BY <1>3
<1>. DEFINE g == [m \in 1 .. Bits |-> h[m]]
<1>5. \A m \in 1 .. Bits : g[m] = h[m]
  OBVIOUS
<1>6. g = [m \in 1 .. Bits |-> g[m]]
  OBVIOUS
<1>. HIDE DEF g
<1>7. ASSUME NEW m \in 1 .. Bits PROVE g[m] = TrieRow(g[m + 1], m, s)
  <2>1. h[m] = TrieRow(h[m + 1], m, s)
    BY <1>1, <1>4 DEF fine
  <2>2. CASE m = Bits
    BY <1>5, <2>1, <2>2, LastTrieRow
  <2>3. CASE m # Bits
    <3>1. m + 1 \in 1 .. Bits
      BY <1>1, <2>3
    <3>. QED
      BY <1>5, <2>1, <3>1
  <2>. QED
    BY <2>2, <2>3
<1>8. g = [m \in 1 .. Bits |-> TrieRow(g[m + 1], m, s)]
  BY <1>6, <1>7, Zenon
<1>. QED
  BY <1>8, TrieByRows, Zenon

(* The trie over a set.                                                    *)
LEMMA TrieIs ==
  ASSUME NEW s
  PROVE  \E g : TrieOver(s) = g[1][s] /\ \A n \in 1 .. Bits : g[n] = TrieRow(g[n + 1], n, s)
<1>. DEFINE G == CHOOSE g : IsTrie(g, s)
<1>1. IsTrie(G, s)
  BY TrieExists, Zenon
<1>2. TrieOver(s) = G[1][s]
  BY Zenon DEF TrieOver, IsTrie
<1>. HIDE DEF G
<1>3. G = [n \in 1 .. Bits |-> TrieRow(G[n + 1], n, s)]
  BY <1>1, TrieByRows, Zenon
<1>4. \A n \in 1 .. Bits : G[n] = TrieRow(G[n + 1], n, s)
  BY <1>3, Zenon
<1>. QED
  BY <1>2, <1>4, Zenon

(* At a set.                                                               *)
TrieNode(g, n, t) ==
  LET e == CHOOSE x \in t : TRUE
      l == WithBit(t, n + 1, 0)
      r == WithBit(t, n + 1, 1)
  IN  /\ t = {} => g[n][t] = EmptyChild
      /\ t # {} /\ t = {e} => g[n][t] = LeafOf(e)
      /\ t # {} /\ t # {e} /\ n # Bits /\ {} \in {l, r} => g[n][t] = g[n + 1][t]
      /\ t # {} /\ t # {e} /\ n # Bits /\ {} \notin {l, r} =>
           g[n][t] = NodeOf(g[n + 1][l], g[n + 1][r], e.label, n)

(* TrieRow at a set of elements.                                           *)
LEMMA TrieAt ==
  ASSUME NEW g, NEW s, NEW n, g[n] = TrieRow(g[n + 1], n, s), NEW t \in SUBSET s
  PROVE  TrieNode(g, n, t)
<1>. DEFINE e == CHOOSE x \in t : TRUE
            l == WithBit(t, n + 1, 0)
            r == WithBit(t, n + 1, 1)
<1>1. g[n][t] = IF t = {} THEN EmptyChild
                ELSE IF t = {e} THEN LeafOf(e)
                ELSE IF n = Bits THEN Failed
                ELSE IF {} \in {l, r} THEN g[n + 1][t]
                ELSE NodeOf(g[n + 1][l], g[n + 1][r], e.label, n)
  BY Zenon DEF TrieRow
<1>. HIDE DEF e, l, r
<1>2. /\ t = {} => g[n][t] = EmptyChild
      /\ t # {} /\ t = {e} => g[n][t] = LeafOf(e)
      /\ t # {} /\ t # {e} /\ n # Bits /\ {} \in {l, r} => g[n][t] = g[n + 1][t]
      /\ t # {} /\ t # {e} /\ n # Bits /\ {} \notin {l, r} =>
           g[n][t] = NodeOf(g[n + 1][l], g[n + 1][r], e.label, n)
  BY <1>1, Zenon
<1>. QED
  BY <1>2, Zenon DEF TrieNode, e, l, r

-----------------------------------------------------------------------------
(* Subtrees are those of the trie.                                         *)

(* No hash of a subtree is that of an error.                               *)
LEMMA NoFailure ==
  /\ \A e \in Placed : LeafOf(e).val # NoRoot /\ LeafOf(e).lab # NoRoot
  /\ EmptyChild.val # NoRoot /\ EmptyChild.lab # NoRoot
  /\ \A l, r, label, len : NodeOf(l, r, label, len).val # NoRoot /\ NodeOf(l, r, label, len).lab # NoRoot
<1>1. ASSUME NEW e \in Placed PROVE LeafOf(e).val # NoRoot /\ LeafOf(e).lab # NoRoot
  <2>1. e.value \in Stored
    BY PlacedIs
  <2>2. e.value # NoRoot
    BY <2>1 DEF Stored, NoRoot
  <2>3. LabelValue(e.label, e.len) # NoRoot
    BY DEF LabelValue, NoRoot
  <2>. QED
    BY <2>2, <2>3 DEF LeafOf
<1>2. EmptyChild.val # NoRoot /\ EmptyChild.lab # NoRoot
  BY DEF EmptyChild, NoRoot
<1>3. ASSUME NEW l, NEW r, NEW label, NEW len
      PROVE  NodeOf(l, r, label, len).val # NoRoot /\ NodeOf(l, r, label, len).lab # NoRoot
  <2>1. ParentHash(l, r) # NoRoot
    BY DEF ParentHash, NoRoot
  <2>2. LabelValue(PrefixOf(label, len), len) # NoRoot
    BY DEF LabelValue, NoRoot
  <2>. QED
    BY <2>1, <2>2 DEF NodeOf
<1>. QED
  BY <1>1, <1>2, <1>3

(* One element over another: the other begins with all of its bits.        *)
Below(e, d) == AgreeTo(e.label, d.label, e.len) /\ e.len <= d.len
Apart(q, lo, hi) == \A i, j \in lo .. hi : i # j => ~ Below(q[i], q[j])
Run(q, lo, hi) == {q[i] : i \in lo .. hi}

(* Elements of which none is over another part where their ends do.        *)
LEMMA ApartParts ==
  ASSUME NEW q, InRow(q), NEW lo \in 1 .. Len(q), NEW hi \in 1 .. Len(q), lo < hi, Apart(q, lo, hi),
         NEW n \in 0 .. Bits, Sharing(q, lo, hi, n)
  PROVE  /\ Halves(q, lo, hi)
         /\ n <= Shared(q, lo, hi) /\ Shared(q, lo, hi) < Bits
<1>. DEFINE c == Shared(q, lo, hi)
            p == Parting(q, lo, hi)
<1>1. q \in Seq(Placed) /\ Len(q) \in Nat /\ Bits \in Nat
  BY AkdTreeAssumption DEF InRow
<1>2. /\ q[lo] \in Placed /\ q[hi] \in Placed /\ q[lo].len \in 0 .. Bits /\ q[hi].len \in 0 .. Bits
      /\ lo \in lo .. hi /\ hi \in lo .. hi /\ lo # hi
  <2>1. q[lo] \in Placed /\ q[hi] \in Placed
    BY <1>1
  <2>. QED
    BY <1>1, <2>1, PlacedIs
<1>3. /\ c \in 0 .. Bits /\ c <= q[lo].len /\ c <= q[hi].len
      /\ AgreeTo(q[lo].label, q[hi].label, c)
      /\ c < q[lo].len /\ c < q[hi].len => q[lo].label[c + 1] # q[hi].label[c + 1]
  <2>1. c = CommonPrefixLen(q[lo], q[hi])
    BY DEF Shared
  <2>. HIDE DEF c
  <2>. QED
    BY <1>2, <2>1, CommonPrefixIs
<1>. HIDE DEF c
<1>4. c # q[lo].len
  <2>1. SUFFICES ASSUME c = q[lo].len PROVE FALSE
    OBVIOUS
  <2>2. Below(q[lo], q[hi])
    BY <1>3, <2>1 DEF Below
  <2>. QED
    BY <1>2, <2>2 DEF Apart
<1>5. c # q[hi].len
  <2>1. SUFFICES ASSUME c = q[hi].len PROVE FALSE
    OBVIOUS
  <2>2. Below(q[hi], q[lo])
    BY <1>3, <2>1 DEF Below, AgreeTo
  <2>. QED
    BY <1>2, <2>2 DEF Apart
<1>6. c < q[lo].len /\ c < q[hi].len /\ c < Bits /\ c \in Nat
  BY <1>1, <1>2, <1>3, <1>4, <1>5
<1>7. q[lo].label[c + 1] # q[hi].label[c + 1]
  BY <1>3, <1>6
<1>8. n <= c
  <2>1. SUFFICES ASSUME c + 1 <= n PROVE FALSE
    BY <1>1, <1>6
  <2>2. c + 1 \in 1 .. n
    BY <1>1, <1>6, <2>1
  <2>. QED
    BY <1>2, <1>7, <2>2 DEF Sharing, AgreeTo
<1>9. /\ p \in lo .. hi + 1
      /\ \A i \in lo .. p - 1 : q[i].label[c + 1] = 0
      /\ \A i \in p .. hi : q[i].label[c + 1] = 1
  <2>1. Shared(q, lo, hi) < Bits
    BY <1>6 DEF c
  <2>. QED
    BY <2>1, HalvesAre DEF c
<1>. HIDE DEF p
<1>10. p # lo /\ p # hi + 1
  <2>1. p = lo => lo \in p .. hi /\ hi \in p .. hi
    BY <1>1
  <2>2. p = hi + 1 => lo \in lo .. p - 1 /\ hi \in lo .. p - 1
    BY <1>1
  <2>. QED
    BY <1>7, <1>9, <2>1, <2>2
<1>. QED
  BY <1>4, <1>6, <1>8, <1>10 DEF c, p, Halves, OnInterior

(* Ranges that share n bits, none over another, are the trie's.            *)
Tries(q, f, g, s, n) ==
  \A lo \in 1 .. Len(q) + 1, hi \in 0 .. Len(q) :
     lo <= hi + 1 /\ Sharing(q, lo, hi, n) /\ Apart(q, lo, hi) /\ Run(q, lo, hi) \in SUBSET s =>
       f[lo][hi] = g[n][Run(q, lo, hi)] /\ f[lo][hi].val # NoRoot /\ f[lo][hi].lab # NoRoot

(* If it is so of one bit more, it is so of n.                             *)
LEMMA TriesGoesOn ==
  ASSUME NEW q, InRow(q), NEW f, Subtrees(f, q), NEW s, NEW g, \A n \in 1 .. Bits : g[n] = TrieRow(g[n + 1], n, s),
         NEW n \in 1 .. Bits, n = Bits \/ Tries(q, f, g, s, n + 1)
  PROVE  Tries(q, f, g, s, n)
<1>1. q \in Seq(Placed) /\ Len(q) \in Nat /\ Bits \in Nat /\ n \in Nat
  BY AkdTreeAssumption DEF InRow
<1>2. SUFFICES ASSUME NEW lo \in 1 .. Len(q) + 1, NEW hi \in 0 .. Len(q), lo <= hi + 1,
                      Sharing(q, lo, hi, n), Apart(q, lo, hi), Run(q, lo, hi) \in SUBSET s
               PROVE  f[lo][hi] = g[n][Run(q, lo, hi)] /\ f[lo][hi].val # NoRoot /\ f[lo][hi].lab # NoRoot
  BY DEF Tries
<1>. DEFINE t == Run(q, lo, hi)
            e == CHOOSE x \in t : TRUE
            l == WithBit(t, n + 1, 0)
            r == WithBit(t, n + 1, 1)
<1>3. lo \in Nat /\ hi \in Nat
  BY <1>1
<1>4. f[lo][hi] = Covering(q, lo, hi, f)
  BY DEF Subtrees
<1>5. /\ t = {} => g[n][t] = EmptyChild
      /\ t # {} /\ t = {e} => g[n][t] = LeafOf(e)
      /\ t # {} /\ t # {e} /\ n # Bits /\ {} \in {l, r} => g[n][t] = g[n + 1][t]
      /\ t # {} /\ t # {e} /\ n # Bits /\ {} \notin {l, r} =>
           g[n][t] = NodeOf(g[n + 1][l], g[n + 1][r], e.label, n)
  <2>1. g[n] = TrieRow(g[n + 1], n, s)
    OBVIOUS
  <2>2. t \in SUBSET s
    BY <1>2
  <2>3. TrieNode(g, n, t)
    <3>. HIDE DEF t
    <3>. QED
      BY <2>1, <2>2, TrieAt
  <2>. QED
    BY <2>3, Zenon DEF TrieNode
<1>6. CASE hi < lo
  <2>1. lo .. hi = {}
    BY <1>3, <1>6
  <2>2. t = {}
    BY <2>1 DEF Run
  <2>3. f[lo][hi] = EmptyChild
    BY <1>3, <1>4, <1>6, CoveringFew, Zenon
  <2>. QED
    BY <1>5, <2>2, <2>3, NoFailure
<1>7. CASE lo = hi
  <2>1. lo .. hi = {lo} /\ lo \in 1 .. Len(q)
    BY <1>1, <1>3, <1>7
  <2>2. t = {q[lo]}
    BY <2>1 DEF Run
  <2>. HIDE DEF t
  <2>3. e = q[lo] /\ t # {} /\ t = {e}
    BY <2>2
  <2>4. f[lo][hi] = LeafOf(q[lo])
    BY <1>3, <1>4, <1>7, CoveringFew, Zenon
  <2>5. q[lo] \in Placed
    BY <1>1, <2>1
  <2>6. f[lo][hi].val # NoRoot /\ f[lo][hi].lab # NoRoot
    BY <2>4, <2>5, NoFailure
  <2>7. g[n][t] = LeafOf(q[lo])
    BY <1>5, <2>3, Zenon
  <2>. QED
    BY <2>4, <2>6, <2>7 DEF t
<1>8. CASE lo < hi
  <2>1. PICK c, p : c = Shared(q, lo, hi) /\ p = Parting(q, lo, hi)
    OBVIOUS
  <2>2. lo \in 1 .. Len(q) /\ hi \in 1 .. Len(q) /\ lo \in lo .. hi /\ hi \in lo .. hi /\ lo # hi /\ n \in 0 .. Bits
    BY <1>1, <1>3, <1>8
  <2>3. Halves(q, lo, hi) /\ n <= c /\ c < Bits
    BY <1>2, <1>8, <2>1, <2>2, ApartParts
  <2>4. p \in lo + 1 .. hi /\ c \in 0 .. Bits - 1
    BY <1>1, <1>8, <2>1, <2>2, <2>3, PartingIs
  <2>5. /\ \A i \in lo .. p - 1 : q[i].label[c + 1] = 0
        /\ \A i \in p .. hi : q[i].label[c + 1] = 1
        /\ Sharing(q, lo, hi, c) /\ Sharing(q, lo, p - 1, c + 1) /\ Sharing(q, p, hi, c + 1)
    BY <1>8, <2>1, <2>2, <2>3, HalvesAre
  <2>6. n # Bits /\ n + 1 \in 1 .. Bits /\ Tries(q, f, g, s, n + 1)
    BY <1>1, <1>2, <2>3, <2>4
  <2>7. /\ p \in 1 .. Len(q) + 1 /\ p - 1 \in 0 .. Len(q) /\ lo <= (p - 1) + 1 /\ p <= hi + 1
        /\ \A i \in lo .. p - 1 : i \in lo .. hi
        /\ \A i \in p .. hi : i \in lo .. hi
        /\ \A i \in lo .. hi : i \in lo .. p - 1 \/ i \in p .. hi
        /\ lo \in lo .. p - 1 /\ p \in p .. hi
    BY <1>1, <1>3, <2>2, <2>4
  <2>8. Apart(q, lo, p - 1) /\ Apart(q, p, hi)
    BY <1>2, <2>7 DEF Apart
  <2>9. Run(q, lo, p - 1) \subseteq t /\ Run(q, p, hi) \subseteq t
    BY <2>7 DEF Run
  <2>10. t # {} /\ t # {e}
    <3>1. q[lo] \in t /\ q[hi] \in t
      BY <2>2 DEF Run
    <3>2. q[lo] # q[hi]
      <4>1. SUFFICES ASSUME q[lo] = q[hi] PROVE FALSE
        OBVIOUS
      <4>2. q[lo].len \in Nat
        <5>1. q[lo] \in Placed
          BY <1>1, <2>2
        <5>. QED
          BY <1>1, <5>1, PlacedIs
      <4>3. Below(q[lo], q[hi])
        BY <4>1, <4>2 DEF Below, AgreeTo
      <4>. QED
        BY <1>2, <2>2, <4>3 DEF Apart
    <3>. HIDE DEF e, t
    <3>. QED
      BY <3>1, <3>2
  <2>11. CASE n = c
    <3>1. l = Run(q, lo, p - 1) /\ r = Run(q, p, hi)
      <4>1. \A i \in lo .. p - 1 : q[i].label[n + 1] = 0
        BY <2>5, <2>11
      <4>2. \A i \in p .. hi : q[i].label[n + 1] = 1
        BY <2>5, <2>11
      <4>3. \A x : x \in l <=> x \in Run(q, lo, p - 1)
        BY <2>7, <4>1, <4>2 DEF Run, WithBit
      <4>4. \A x : x \in r <=> x \in Run(q, p, hi)
        BY <2>7, <4>1, <4>2 DEF Run, WithBit
      <4>. QED
        BY <4>3, <4>4
    <3>2. {} \notin {l, r}
      <4>1. q[lo] \in Run(q, lo, p - 1) /\ q[p] \in Run(q, p, hi)
        BY <2>7 DEF Run
      <4>. QED
        BY <3>1, <4>1
    <3>3. /\ f[lo][p - 1] = g[n + 1][l] /\ f[lo][p - 1].val # NoRoot
          /\ f[p][hi] = g[n + 1][r] /\ f[p][hi].val # NoRoot
      <4>1. Run(q, lo, p - 1) \in SUBSET s /\ Run(q, p, hi) \in SUBSET s
        BY <1>2, <2>9
      <4>2. f[lo][p - 1] = g[n + 1][Run(q, lo, p - 1)] /\ f[lo][p - 1].val # NoRoot
        BY <2>5, <2>6, <2>7, <2>8, <2>11, <4>1 DEF Tries
      <4>3. f[p][hi] = g[n + 1][Run(q, p, hi)] /\ f[p][hi].val # NoRoot
        BY <2>5, <2>6, <2>7, <2>8, <2>11, <4>1 DEF Tries
      <4>. QED
        BY <3>1, <4>2, <4>3, Zenon
    <3>4. f[lo][hi] = NodeOf(f[lo][p - 1], f[p][hi], q[lo].label, c)
      <4>1. NoRoot \notin {f[lo][p - 1].val, f[p][hi].val}
        BY <3>3
      <4>. QED
        BY <1>3, <1>4, <1>8, <2>1, <2>3, <4>1, CoveringIs, Zenon
    <3>5. g[n][t] = NodeOf(g[n + 1][l], g[n + 1][r], e.label, n)
      BY <1>5, <2>6, <2>10, <3>2, Zenon
    <3>6. PrefixOf(e.label, n) = PrefixOf(q[lo].label, n)
      <4>1. e \in t
        BY <2>10
      <4>2. PICK i \in lo .. hi : e = q[i]
        BY <4>1 DEF Run
      <4>. HIDE DEF e
      <4>3. \A m \in 1 .. n : e.label[m] = q[lo].label[m]
        <5>1. AgreeTo(q[i].label, q[lo].label, n)
          BY <1>2, <2>2 DEF Sharing
        <5>. QED
          BY <4>2, <5>1 DEF AgreeTo
      <4>4. \A m \in 1 .. Bits : m <= n => m \in 1 .. n
        BY <1>1
      <4>. QED
        BY <4>3, <4>4 DEF PrefixOf
    <3>7. f[lo][hi] = g[n][t]
      <4>. HIDE DEF e, l, r, t
      <4>. QED
        BY <2>11, <3>3, <3>4, <3>5, <3>6, Zenon DEF NodeOf
    <3>. QED
      BY <3>4, <3>7, NoFailure, Zenon
  <2>12. CASE n # c
    <3>1. n + 1 <= c
      BY <1>1, <2>3, <2>4, <2>12
    <3>2. \A m \in 1 .. n + 1 : m \in 1 .. c
      BY <1>1, <2>4, <3>1
    <3>3. Sharing(q, lo, hi, n + 1)
      BY <2>5, <3>2 DEF Sharing, AgreeTo
    <3>4. {} \in {l, r}
      <4>1. \A i \in lo .. hi : q[i].label[n + 1] = q[lo].label[n + 1]
        <5>1. n + 1 \in 1 .. n + 1
          BY <1>1
        <5>. QED
          BY <2>2, <3>3, <5>1 DEF Sharing, AgreeTo
      <4>2. \A x \in t : x.label[n + 1] = q[lo].label[n + 1]
        BY <4>1 DEF Run
      <4>. HIDE DEF t
      <4>3. l = {} \/ r = {}
        BY <4>2 DEF WithBit
      <4>. QED
        BY <4>3
    <3>5. g[n][t] = g[n + 1][t]
      BY <1>5, <2>6, <2>10, <3>4, Zenon
    <3>6. f[lo][hi] = g[n + 1][t] /\ f[lo][hi].val # NoRoot /\ f[lo][hi].lab # NoRoot
      BY <1>2, <2>6, <3>3 DEF Tries
    <3>. QED
      BY <3>5, <3>6
  <2>. QED
    BY <2>11, <2>12
<1>. QED
  BY <1>3, <1>6, <1>7, <1>8

(* It is so below the root, where one bit is shared.                       *)
LEMMA RowTries ==
  ASSUME NEW q, InRow(q), NEW f, Subtrees(f, q), NEW s, NEW g, \A n \in 1 .. Bits : g[n] = TrieRow(g[n + 1], n, s)
  PROVE  Tries(q, f, g, s, 1)
<1>. DEFINE S == {m \in 0 .. Bits : m = 0 \/ Tries(q, f, g, s, m)}
<1>1. Bits \in Nat \ {0}
  BY AkdTreeAssumption
<1>2. ASSUME NEW m \in 0 .. Bits, m = Bits \/ m + 1 \in S PROVE m \in S
  <2>1. CASE m = 0
    BY <2>1
  <2>2. CASE m # 0
    <3>1. m \in 1 .. Bits /\ m + 1 # 0
      BY <1>1, <2>2
    <3>2. m = Bits \/ Tries(q, f, g, s, m + 1)
      BY <1>2, <3>1
    <3>3. Tries(q, f, g, s, m)
      BY <3>1, <3>2, TriesGoesOn
    <3>. QED
      BY <3>3
  <2>. QED
    BY <2>1, <2>2
<1>3. \A m \in 0 .. Bits : m \in S
  <2>. HIDE DEF S
  <2>. QED
    BY <1>1, <1>2, Downward
<1>4. 1 \in 0 .. Bits
  BY <1>1
<1>. QED
  BY <1>3, <1>4

-----------------------------------------------------------------------------
(* Subtrees tell their elements apart.                                     *)

(* Different hashes.                                                       *)
LEMMA HashesPart ==
  ASSUME NEW e \in Placed
  PROVE  /\ EmptyChild.val # LeafOf(e).val
         /\ \A l, r, label, len : NodeOf(l, r, label, len).val # LeafOf(e).val
         /\ \A d \in Placed : LeafOf(d).val = LeafOf(e).val /\ LeafOf(d).lab = LeafOf(e).lab => d = e
<1>1. e.value \in Stored /\ LeafOf(e).val = e.value /\ LeafOf(e).lab = <<"label", e.label, e.len>>
  BY PlacedIs DEF LeafOf, LabelValue
<1>2. EmptyChild.val # e.value
  <2>1. EmptyChild.val = <<"empty node">> /\ <<"empty node">>[1] = "empty node"
    BY DEF EmptyChild
  <2>2. e.value[1] = "value" \/ e.value[1] = "commit"
    BY <1>1 DEF Stored
  <2>3. "empty node" # "value" /\ "empty node" # "commit"
    OBVIOUS
  <2>. QED
    BY <2>1, <2>2, <2>3
<1>3. \A l, r, label, len : NodeOf(l, r, label, len).val # e.value
  BY <1>1 DEF NodeOf, ParentHash, Stored
<1>4. ASSUME NEW d \in Placed, LeafOf(d).val = LeafOf(e).val, LeafOf(d).lab = LeafOf(e).lab PROVE d = e
  <2>1. d.value = e.value /\ <<"label", d.label, d.len>> = <<"label", e.label, e.len>>
    BY <1>1, <1>4 DEF LeafOf, LabelValue
  <2>2. d.label = e.label /\ d.len = e.len
    BY <2>1
  <2>. QED
    BY <2>1, <2>2 DEF Placed
<1>. QED
  BY <1>1, <1>2, <1>3, <1>4

(* A node is not an absent child.                                          *)
LEMMA NodesPart ==
  ASSUME NEW l, NEW r, NEW a, NEW m
  PROVE  NodeOf(l, r, a, m).val # EmptyChild.val
<1>1. NodeOf(l, r, a, m).val[1] = "parent"
  BY DEF NodeOf, ParentHash
<1>2. EmptyChild.val[1] = "empty node"
  BY DEF EmptyChild
<1>3. "parent" # "empty node"
  OBVIOUS
<1>. QED
  BY <1>1, <1>2, <1>3

(* Nodes of one hash have children of one hash and one label.              *)
LEMMA NodesAlike ==
  ASSUME NEW l, NEW r, NEW a, NEW m, NEW x, NEW y, NEW b, NEW n,
         NodeOf(l, r, a, m).val = NodeOf(x, y, b, n).val
  PROVE  l.val = x.val /\ l.lab = x.lab /\ r.val = y.val /\ r.lab = y.lab
<1>1. NodeOf(l, r, a, m).val = <<"parent", l.val, l.lab, r.val, r.lab>>
  BY DEF NodeOf, ParentHash
<1>2. NodeOf(x, y, b, n).val = <<"parent", x.val, x.lab, y.val, y.lab>>
  BY DEF NodeOf, ParentHash
<1>3. \A a1, a2, a3, a4, b1, b2, b3, b4 :
        <<"parent", a1, a2, a3, a4>> = <<"parent", b1, b2, b3, b4>> => a1 = b1 /\ a2 = b2 /\ a3 = b3 /\ a4 = b4
  OBVIOUS
<1>4. <<"parent", l.val, l.lab, r.val, r.lab>> = <<"parent", x.val, x.lab, y.val, y.lab>>
  BY <1>1, <1>2
<1>. QED
  BY <1>3, <1>4

(* The parts of a range that has a hash.                                   *)
IsNone(q, f, lo, hi) == f[lo][hi] = EmptyChild /\ Run(q, lo, hi) = {}
IsOne(q, f, lo, hi) == q[lo] \in Placed /\ f[lo][hi] = LeafOf(q[lo]) /\ Run(q, lo, hi) = {q[lo]}
IsMany(q, f, lo, hi) ==
  \E p \in lo + 1 .. hi :
     /\ f[lo][p - 1].val # NoRoot /\ f[p][hi].val # NoRoot
     /\ f[lo][hi] = NodeOf(f[lo][p - 1], f[p][hi], q[lo].label, Shared(q, lo, hi))
     /\ Run(q, lo, hi) = Run(q, lo, p - 1) \cup Run(q, p, hi)

(* A range that is no error is empty, one element, or a node.              *)
LEMMA ShapeIs ==
  ASSUME NEW q \in Seq(Placed), NEW f, Subtrees(f, q), NEW lo \in 1 .. Len(q) + 1, NEW hi \in 0 .. Len(q),
         f[lo][hi].val # NoRoot
  PROVE  IsNone(q, f, lo, hi) \/ IsOne(q, f, lo, hi) \/ IsMany(q, f, lo, hi)
<1>1. Len(q) \in Nat /\ lo \in Nat /\ hi \in Nat
  OBVIOUS
<1>2. f[lo][hi] = Covering(q, lo, hi, f)
  BY DEF Subtrees
<1>3. f[lo][hi] # Failed
  BY DEF Failed
<1>4. CASE hi < lo
  <2>1. f[lo][hi] = EmptyChild
    BY <1>1, <1>2, <1>4, CoveringFew, Zenon
  <2>2. lo .. hi = {}
    BY <1>1, <1>4
  <2>3. Run(q, lo, hi) = {}
    BY <2>2 DEF Run
  <2>4. IsNone(q, f, lo, hi)
    BY <2>1, <2>3, Zenon DEF IsNone
  <2>. QED
    BY <2>4
<1>5. CASE lo = hi
  <2>1. f[lo][hi] = LeafOf(q[lo])
    BY <1>1, <1>2, <1>5, CoveringFew, Zenon
  <2>2. lo .. hi = {lo} /\ lo \in 1 .. Len(q)
    BY <1>1, <1>5
  <2>3. Run(q, lo, hi) = {q[lo]}
    BY <2>2 DEF Run
  <2>. QED
    BY <1>1, <1>5, <2>1, <2>2, <2>3 DEF IsOne
<1>6. CASE lo < hi
  <2>1. lo \in 1 .. Len(q) /\ hi \in 1 .. Len(q)
    BY <1>1, <1>6
  <2>2. Halves(q, lo, hi)
    BY <1>1, <1>2, <1>3, <1>6, CoveringIs, Zenon
  <2>3. PICK p : p = Parting(q, lo, hi)
    OBVIOUS
  <2>4. p \in lo + 1 .. hi
    BY <1>6, <2>1, <2>2, <2>3, PartingIs
  <2>5. NoRoot \notin {f[lo][p - 1].val, f[p][hi].val}
    BY <1>1, <1>2, <1>3, <1>6, <2>2, <2>3, CoveringIs, Zenon
  <2>6. f[lo][hi] = NodeOf(f[lo][p - 1], f[p][hi], q[lo].label, Shared(q, lo, hi))
    BY <1>1, <1>2, <1>6, <2>2, <2>3, <2>5, CoveringIs, Zenon
  <2>7. \A i : i \in lo .. hi <=> i \in lo .. p - 1 \/ i \in p .. hi
    BY <1>1, <2>4
  <2>8. Run(q, lo, hi) = Run(q, lo, p - 1) \cup Run(q, p, hi)
    BY <2>7 DEF Run
  <2>. QED
    BY <2>4, <2>5, <2>6, <2>8 DEF IsMany
<1>. QED
  BY <1>1, <1>4, <1>5, <1>6

(* One hash is of one set of elements.                                     *)
Tells(q, f, r, h, w) ==
  \A lo \in 1 .. Len(q) + 1, hi \in 0 .. Len(q), from \in 1 .. Len(r) + 1, to \in 0 .. Len(r) :
     /\ hi < lo + w
     /\ f[lo][hi].val # NoRoot
     /\ f[lo][hi].val = h[from][to].val /\ f[lo][hi].lab = h[from][to].lab
     => Run(q, lo, hi) = Run(r, from, to)

(* If narrower ranges tell their elements, so do wider ones.               *)
LEMMA TellsGoesOn ==
  ASSUME NEW q \in Seq(Placed), NEW f, Subtrees(f, q), NEW r \in Seq(Placed), NEW h, Subtrees(h, r),
         NEW w \in Nat, w = 0 \/ Tells(q, f, r, h, w - 1)
  PROVE  Tells(q, f, r, h, w)
<1>1. SUFFICES ASSUME NEW lo \in 1 .. Len(q) + 1, NEW hi \in 0 .. Len(q),
                      NEW from \in 1 .. Len(r) + 1, NEW to \in 0 .. Len(r),
                      hi < lo + w, f[lo][hi].val # NoRoot,
                      f[lo][hi].val = h[from][to].val, f[lo][hi].lab = h[from][to].lab
               PROVE  Run(q, lo, hi) = Run(r, from, to)
  BY DEF Tells
<1>2. Len(q) \in Nat /\ Len(r) \in Nat /\ lo \in Nat /\ hi \in Nat /\ from \in Nat /\ to \in Nat
  OBVIOUS
<1>3. IsNone(q, f, lo, hi) \/ IsOne(q, f, lo, hi) \/ IsMany(q, f, lo, hi)
  BY <1>1, ShapeIs
<1>4. IsNone(r, h, from, to) \/ IsOne(r, h, from, to) \/ IsMany(r, h, from, to)
  <2>1. h[from][to].val # NoRoot
    BY <1>1
  <2>. QED
    BY <2>1, ShapeIs
<1>5. CASE IsNone(q, f, lo, hi)
  <2>1. ~ IsOne(r, h, from, to)
    BY <1>1, <1>5, HashesPart DEF IsNone, IsOne
  <2>2. ~ IsMany(r, h, from, to)
    BY <1>1, <1>5, NodesPart DEF IsNone, IsMany
  <2>. QED
    BY <1>4, <1>5, <2>1, <2>2 DEF IsNone
<1>6. CASE IsOne(q, f, lo, hi)
  <2>1. ~ IsNone(r, h, from, to)
    BY <1>1, <1>6, HashesPart DEF IsNone, IsOne
  <2>2. ~ IsMany(r, h, from, to)
    BY <1>1, <1>6, HashesPart DEF IsOne, IsMany
  <2>3. IsOne(r, h, from, to)
    BY <1>4, <2>1, <2>2
  <2>4. q[lo] = r[from]
    BY <1>1, <1>6, <2>3, HashesPart DEF IsOne
  <2>. QED
    BY <1>6, <2>3, <2>4 DEF IsOne
<1>7. CASE IsMany(q, f, lo, hi)
  <2>1. ~ IsNone(r, h, from, to)
    BY <1>1, <1>7, NodesPart DEF IsNone, IsMany
  <2>2. ~ IsOne(r, h, from, to)
    BY <1>1, <1>7, HashesPart DEF IsOne, IsMany
  <2>3. IsMany(r, h, from, to)
    BY <1>4, <2>1, <2>2
  <2>4. PICK p \in lo + 1 .. hi :
           /\ f[lo][p - 1].val # NoRoot /\ f[p][hi].val # NoRoot
           /\ f[lo][hi] = NodeOf(f[lo][p - 1], f[p][hi], q[lo].label, Shared(q, lo, hi))
           /\ Run(q, lo, hi) = Run(q, lo, p - 1) \cup Run(q, p, hi)
    BY <1>7 DEF IsMany
  <2>5. PICK s \in from + 1 .. to :
           /\ h[from][s - 1].val # NoRoot /\ h[s][to].val # NoRoot
           /\ h[from][to] = NodeOf(h[from][s - 1], h[s][to], r[from].label, Shared(r, from, to))
           /\ Run(r, from, to) = Run(r, from, s - 1) \cup Run(r, s, to)
    BY <2>3 DEF IsMany
  <2>6. /\ f[lo][p - 1].val = h[from][s - 1].val /\ f[lo][p - 1].lab = h[from][s - 1].lab
        /\ f[p][hi].val = h[s][to].val /\ f[p][hi].lab = h[s][to].lab
    <3>1. NodeOf(f[lo][p - 1], f[p][hi], q[lo].label, Shared(q, lo, hi)).val =
          NodeOf(h[from][s - 1], h[s][to], r[from].label, Shared(r, from, to)).val
      BY <1>1, <2>4, <2>5
    <3>2. PICK l1, r1, l2, r2 : l1 = f[lo][p - 1] /\ r1 = f[p][hi] /\ l2 = h[from][s - 1] /\ r2 = h[s][to]
      OBVIOUS
    <3>3. PICK a, b, m, n : a = q[lo].label /\ m = Shared(q, lo, hi) /\ b = r[from].label /\ n = Shared(r, from, to)
      OBVIOUS
    <3>4. NodeOf(l1, r1, a, m).val = NodeOf(l2, r2, b, n).val
      BY <3>1, <3>2, <3>3, Zenon
    <3>5. l1.val = l2.val /\ l1.lab = l2.lab /\ r1.val = r2.val /\ r1.lab = r2.lab
      BY <3>4, NodesAlike
    <3>. QED
      BY <3>2, <3>5
  <2>7. /\ p \in 1 .. Len(q) + 1 /\ p - 1 \in 0 .. Len(q) /\ s \in 1 .. Len(r) + 1 /\ s - 1 \in 0 .. Len(r)
        /\ w # 0 /\ p - 1 < lo + (w - 1) /\ hi < p + (w - 1)
    <3>1. p \in Nat /\ lo + 1 <= p /\ p <= hi /\ s \in Nat /\ from + 1 <= s /\ s <= to
      BY <1>2, <2>4, <2>5
    <3>2. hi <= Len(q) /\ to <= Len(r) /\ hi < lo + w /\ 1 <= lo /\ 1 <= from
      BY <1>1
    <3>3. p \in 1 .. Len(q) + 1 /\ p - 1 \in 0 .. Len(q)
      BY <1>2, <3>1, <3>2
    <3>4. s \in 1 .. Len(r) + 1 /\ s - 1 \in 0 .. Len(r)
      BY <1>2, <3>1, <3>2
    <3>5. w # 0 /\ p - 1 < lo + (w - 1) /\ hi < p + (w - 1)
      BY <1>2, <3>1, <3>2
    <3>. QED
      BY <3>3, <3>4, <3>5
  <2>8. Tells(q, f, r, h, w - 1)
    BY <2>7
  <2>9. Run(q, lo, p - 1) = Run(r, from, s - 1)
    BY <2>4, <2>6, <2>7, <2>8 DEF Tells
  <2>10. Run(q, p, hi) = Run(r, s, to)
    BY <2>4, <2>6, <2>7, <2>8 DEF Tells
  <2>. QED
    BY <2>4, <2>5, <2>9, <2>10
<1>. QED
  BY <1>3, <1>5, <1>6, <1>7

(* All ranges do.                                                          *)
LEMMA RowTells ==
  ASSUME NEW q \in Seq(Placed), NEW f, Subtrees(f, q), NEW r \in Seq(Placed), NEW h, Subtrees(h, r),
         NEW w \in Nat
  PROVE  Tells(q, f, r, h, w)
<1>. DEFINE U == {v \in Nat : ~ Tells(q, f, r, h, v)}
<1>1. SUFFICES ASSUME U # {} PROVE FALSE
  OBVIOUS
<1>2. U \in SUBSET Nat
  OBVIOUS
<1>3. PICK v \in U : \A u \in U : v <= u
  <2>. HIDE DEF U
  <2>. QED
    BY <1>1, <1>2, LeastNat
<1>4. v \in Nat /\ ~ Tells(q, f, r, h, v)
  BY <1>3
<1>5. v = 0 \/ Tells(q, f, r, h, v - 1)
  <2>1. SUFFICES ASSUME v # 0 PROVE Tells(q, f, r, h, v - 1)
    OBVIOUS
  <2>2. v - 1 \in Nat /\ ~ (v <= v - 1)
    BY <1>4, <2>1
  <2>. QED
    BY <1>3, <2>2
<1>. QED
  BY <1>4, <1>5, TellsGoesOn

-----------------------------------------------------------------------------
(* Roots.                                                                  *)

(* The root and the two rows below it.                                     *)
RootParts(q, f, p) ==
  /\ p \in 1 .. Len(q) + 1
  /\ \A i \in 1 .. p - 1 : q[i].label[1] = 0
  /\ \A i \in p .. Len(q) : q[i].label[1] = 1
  /\ Sharing(q, 1, p - 1, 1) /\ Sharing(q, p, Len(q), 1)
  /\ NoRoot \in {f[1][p - 1].val, f[p][Len(q)].val} => RootOf(q) = NoRoot
  /\ NoRoot \notin {f[1][p - 1].val, f[p][Len(q)].val} =>
       RootOf(q) = <<"root", ParentHash(f[1][p - 1], f[p][Len(q)])>>

(* The root of a row that is not empty.                                    *)
LEMMA RootIs ==
  ASSUME NEW q, InRow(q), q # <<>>, NEW f, Subtrees(f, q)
  PROVE  \E p : RootParts(q, f, p)
<1>. DEFINE p == FirstOne(q, 1, Len(q), 1)
<1>1. q \in Seq(Placed) /\ Len(q) \in Nat /\ Bits \in Nat \ {0}
  BY AkdTreeAssumption DEF InRow
<1>2. /\ p \in 1 .. Len(q) + 1
      /\ \A i \in 1 .. p - 1 : q[i].label[1] = 0
      /\ \A i \in p .. Len(q) : q[i].label[1] = 1
      /\ Sharing(q, 1, p - 1, 1) /\ Sharing(q, p, Len(q), 1)
  <2>1. PICK z, lo, hi, n : z = p /\ lo = 1 /\ hi = Len(q) /\ n = 0
    OBVIOUS
  <2>2. /\ lo \in 1 .. Len(q) + 1 /\ hi \in 0 .. Len(q) /\ lo <= hi + 1 /\ n \in 0 .. Bits - 1 /\ n + 1 = 1
        /\ z = FirstOne(q, lo, hi, n + 1)
    BY <1>1, <2>1
  <2>3. Sharing(q, lo, hi, n)
    BY <2>1 DEF Sharing, AgreeTo
  <2>. HIDE DEF p
  <2>4. /\ z \in lo .. hi + 1
        /\ \A i \in lo .. z - 1 : q[i].label[n + 1] = 0
        /\ \A i \in z .. hi : q[i].label[n + 1] = 1
        /\ Sharing(q, lo, z - 1, n + 1) /\ Sharing(q, z, hi, n + 1)
    BY <2>2, <2>3, RowParts
  <2>. QED
    BY <2>1, <2>2, <2>4
<1>3. RootOf(q) = IF NoRoot \in {SubtreeOf(q, 1, p - 1).val, SubtreeOf(q, p, Len(q)).val} THEN NoRoot
                  ELSE <<"root", ParentHash(SubtreeOf(q, 1, p - 1), SubtreeOf(q, p, Len(q)))>>
  BY Zenon DEF RootOf, JoinedRoot
<1>. HIDE DEF p
<1>4. SubtreeOf(q, 1, p - 1) = f[1][p - 1] /\ SubtreeOf(q, p, Len(q)) = f[p][Len(q)]
  <2>1. 1 \in 1 .. Len(q) + 1 /\ p - 1 \in 0 .. Len(q) /\ Len(q) \in 0 .. Len(q)
    BY <1>1, <1>2
  <2>. QED
    BY <1>2, <2>1 DEF Subtrees
<1>5. RootParts(q, f, p)
  BY <1>2, <1>3, <1>4, Zenon DEF RootParts
<1>. QED
  BY <1>5

(* The root of no elements.                                                *)
LEMMA EmptyRoot == RootOf(<<>>) = <<"root", <<"empty root">>>>
BY Zenon DEF RootOf, JoinedRoot

(* An element that sits on another is an error.                            *)
LEMMA SittingFails ==
  ASSUME NEW q, InRow(q), NEW i \in 1 .. Len(q), NEW j \in 1 .. Len(q), i # j,
         Sits(q[i], q[j]), q[i].label[1] = q[j].label[1]
  PROVE  RootOf(q) = NoRoot
<1>1. q \in Seq(Placed) /\ Len(q) \in Nat /\ Bits \in Nat \ {0} /\ q # <<>>
  BY AkdTreeAssumption DEF InRow
<1>2. PICK f : Subtrees(f, q)
  BY <1>1, SubtreesAre
<1>3. PICK p : RootParts(q, f, p)
  BY <1>1, <1>2, RootIs
<1>4. Fails(q, f, 1)
  <2>1. 1 \in 0 .. Bits
    BY <1>1
  <2>. QED
    BY <1>2, <2>1, RowFails
<1>5. /\ p \in 1 .. Len(q) + 1 /\ p \in Nat
      /\ \A k \in 1 .. p - 1 : q[k].label[1] = 0
      /\ \A k \in p .. Len(q) : q[k].label[1] = 1
      /\ Sharing(q, 1, p - 1, 1) /\ Sharing(q, p, Len(q), 1)
  BY <1>1, <1>3 DEF RootParts
<1>6. 1 \in 1 .. Len(q) + 1 /\ p - 1 \in 0 .. Len(q) /\ Len(q) \in 0 .. Len(q)
  BY <1>1, <1>5
<1>7. (i \in 1 .. p - 1 /\ j \in 1 .. p - 1) \/ (i \in p .. Len(q) /\ j \in p .. Len(q))
  <2>1. (i \in 1 .. p - 1 \/ i \in p .. Len(q)) /\ (j \in 1 .. p - 1 \/ j \in p .. Len(q))
    BY <1>1, <1>5
  <2>. QED
    BY <1>5, <2>1
<1>8. f[1][p - 1] = Failed \/ f[p][Len(q)] = Failed
  BY <1>4, <1>5, <1>6, <1>7 DEF Fails
<1>9. NoRoot \in {f[1][p - 1].val, f[p][Len(q)].val}
  BY <1>8 DEF Failed
<1>. QED
  BY <1>3, <1>9 DEF RootParts

(* One listing at most of a set that no error comes of.                    *)
LEMMA SameRow ==
  ASSUME NEW s, NEW q, NEW r, Lists(q, s), Lists(r, s),
         \A i, j \in 1 .. Len(q) : i # j => ~ SamePlace(q[i], q[j])
  PROVE  \A k \in 1 .. Len(q) : k \in 1 .. Len(r) /\ q[k] = r[k]
<1>1. /\ q \in Seq(Placed) /\ r \in Seq(Placed) /\ Len(q) \in Nat /\ Len(r) \in Nat
      /\ \A i, j \in 1 .. Len(q) : i < j => ~ Before(q[j], q[i]) /\ q[i] # q[j]
      /\ \A i, j \in 1 .. Len(r) : i < j => ~ Before(r[j], r[i]) /\ r[i] # r[j]
      /\ \A x : x \in s <=> \E i \in 1 .. Len(q) : q[i] = x
      /\ \A x : x \in s <=> \E i \in 1 .. Len(r) : r[i] = x
  BY DEF Lists, InRow
<1>. DEFINE U == {k \in 1 .. Len(q) : ~ (k \in 1 .. Len(r) /\ q[k] = r[k])}
<1>2. SUFFICES ASSUME U # {} PROVE FALSE
  OBVIOUS
<1>3. U \in SUBSET Nat
  BY <1>1
<1>4. PICK k \in U : \A v \in U : k <= v
  <2>. HIDE DEF U
  <2>. QED
    BY <1>2, <1>3, LeastNat
<1>5. k \in 1 .. Len(q) /\ ~ (k \in 1 .. Len(r) /\ q[k] = r[k])
  BY <1>4
<1>6. ASSUME NEW i \in 1 .. Len(q), i < k PROVE i \in 1 .. Len(r) /\ q[i] = r[i]
  <2>1. ~ (k <= i)
    BY <1>1, <1>5, <1>6
  <2>. QED
    BY <1>4, <2>1
<1>. HIDE DEF U
<1>7. PICK m \in 1 .. Len(r) : r[m] = q[k]
  BY <1>1, <1>5
<1>8. k < m /\ k \in 1 .. Len(r)
  <2>1. ASSUME m < k PROVE FALSE
    <3>1. m \in 1 .. Len(q)
      BY <1>1, <1>5, <2>1
    <3>. QED
      BY <1>1, <1>5, <1>6, <1>7, <2>1, <3>1
  <2>2. m # k
    BY <1>5, <1>7
  <2>. QED
    BY <1>1, <1>5, <2>1, <2>2
<1>9. PICK n \in 1 .. Len(q) : q[n] = r[k]
  BY <1>1, <1>8
<1>10. k < n
  <2>1. ASSUME n < k PROVE FALSE
    BY <1>1, <1>6, <1>8, <1>9, <2>1
  <2>2. n # k
    BY <1>5, <1>8, <1>9
  <2>. QED
    BY <1>1, <1>5, <2>1, <2>2
<1>11. q[k] \in Placed /\ q[n] \in Placed /\ ~ Before(q[n], q[k])
  BY <1>1, <1>5, <1>9, <1>10
<1>12. ~ Before(q[k], q[n])
  BY <1>1, <1>7, <1>8, <1>9
<1>13. SamePlace(q[k], q[n])
  BY <1>11, <1>12, BeforeIsStrict
<1>14. k # n
  BY <1>1, <1>5, <1>10
<1>. QED
  BY <1>5, <1>9, <1>13, <1>14

(* A set has one root, however it is sorted.                               *)
LEMMA RootAlone ==
  ASSUME NEW s, NEW q, NEW r, Lists(q, s), Lists(r, s)
  PROVE  RootOf(q) = RootOf(r)
<1>1. /\ q \in Seq(Placed) /\ r \in Seq(Placed) /\ Len(q) \in Nat /\ Len(r) \in Nat /\ InRow(q) /\ InRow(r)
      /\ \A x : x \in s <=> \E i \in 1 .. Len(q) : q[i] = x
      /\ \A x : x \in s <=> \E i \in 1 .. Len(r) : r[i] = x
  BY DEF Lists, InRow
<1>2. ASSUME NEW t, Lists(t, s), NEW d \in s, NEW e \in s, d # e, SamePlace(d, e) PROVE RootOf(t) = NoRoot
  <2>1. PICK i \in 1 .. Len(t), j \in 1 .. Len(t) : t[i] = d /\ t[j] = e
    BY <1>2 DEF Lists
  <2>2. i # j /\ Sits(t[i], t[j]) /\ t[i].label[1] = t[j].label[1] /\ InRow(t)
    BY <1>2, <2>1 DEF Sits, SamePlace, Lists
  <2>. QED
    BY <2>2, SittingFails
<1>3. CASE \E d, e \in s : d # e /\ SamePlace(d, e)
  <2>1. RootOf(q) = NoRoot
    BY <1>2, <1>3
  <2>2. RootOf(r) = NoRoot
    BY <1>2, <1>3
  <2>. QED
    BY <2>1, <2>2
<1>4. CASE ~ \E d, e \in s : d # e /\ SamePlace(d, e)
  <2>1. ASSUME NEW t, Lists(t, s) PROVE \A i, j \in 1 .. Len(t) : i # j => ~ SamePlace(t[i], t[j])
    <3>1. SUFFICES ASSUME NEW i \in 1 .. Len(t), NEW j \in 1 .. Len(t), i # j PROVE ~ SamePlace(t[i], t[j])
      OBVIOUS
    <3>2. Len(t) \in Nat
      BY <2>1 DEF Lists, InRow
    <3>3. i < j \/ j < i
      BY <3>1, <3>2
    <3>4. t[i] # t[j]
      BY <2>1, <3>3 DEF Lists
    <3>5. t[i] \in s /\ t[j] \in s
      BY <2>1 DEF Lists
    <3>. QED
      BY <1>4, <3>4, <3>5
  <2>2. \A k \in 1 .. Len(q) : k \in 1 .. Len(r) /\ q[k] = r[k]
    BY <2>1, SameRow
  <2>3. \A k \in 1 .. Len(r) : k \in 1 .. Len(q) /\ r[k] = q[k]
    BY <2>1, SameRow
  <2>4. Len(q) = Len(r)
    <3>1. Len(q) # 0 => Len(q) \in 1 .. Len(q)
      BY <1>1
    <3>2. Len(r) # 0 => Len(r) \in 1 .. Len(r)
      BY <1>1
    <3>. QED
      BY <1>1, <2>2, <2>3, <3>1, <3>2
  <2>5. q = r
    BY <1>1, <2>2, <2>4
  <2>. QED
    BY <2>5
<1>. QED
  BY <1>3, <1>4

(* One root is of one pair of rows.                                        *)
LEMMA RootAlike ==
  ASSUME NEW l1, NEW r1, NEW l2, NEW r2, <<"root", ParentHash(l1, r1)>> = <<"root", ParentHash(l2, r2)>>
  PROVE  l1.val = l2.val /\ l1.lab = l2.lab /\ r1.val = r2.val /\ r1.lab = r2.lab
<1>1. ParentHash(l1, r1) = ParentHash(l2, r2)
  OBVIOUS
<1>2. NodeOf(l1, r1, 0, 0).val = NodeOf(l2, r2, 0, 0).val
  BY <1>1 DEF NodeOf
<1>. QED
  BY <1>2, NodesAlike

(* Sorted sequences that have one root, and no error, list one set: a root *)
(* that matches the published one is of these elements and no others.      *)
THEOREM OneRootOneSet ==
  ASSUME NEW s, NEW t, NEW q, NEW r, Lists(q, s), Lists(r, t), RootOf(q) = RootOf(r), RootOf(q) # NoRoot
  PROVE  s = t
<1>1. /\ q \in Seq(Placed) /\ r \in Seq(Placed) /\ Len(q) \in Nat /\ Len(r) \in Nat /\ InRow(q) /\ InRow(r)
      /\ \A x : x \in s <=> \E i \in 1 .. Len(q) : q[i] = x
      /\ \A x : x \in t <=> \E i \in 1 .. Len(r) : r[i] = x
  BY DEF Lists, InRow
<1>2. PICK f : Subtrees(f, q)
  BY <1>1, SubtreesAre
<1>3. PICK h : Subtrees(h, r)
  BY <1>1, SubtreesAre
<1>5. \A l, r1 : <<"root", ParentHash(l, r1)>> # <<"root", <<"empty root">>>>
  <2>1. SUFFICES ASSUME NEW l, NEW r1, <<"root", ParentHash(l, r1)>> = <<"root", <<"empty root">>>> PROVE FALSE
    BY Zenon
  <2>2. ParentHash(l, r1) = <<"empty root">>
    BY <2>1
  <2>3. ParentHash(l, r1)[1] = "parent" /\ <<"empty root">>[1] = "empty root" /\ "parent" # "empty root"
    BY DEF ParentHash
  <2>. QED
    BY <2>2, <2>3
<1>6. \A k, g : k # <<>> /\ InRow(k) /\ Subtrees(g, k) /\ RootOf(k) # NoRoot =>
         \E p : RootParts(k, g, p) /\ RootOf(k) = <<"root", ParentHash(g[1][p - 1], g[p][Len(k)])>>
  BY RootIs DEF RootParts
<1>7. CASE q = <<>>
  <2>1. r = <<>>
    <3>1. SUFFICES ASSUME r # <<>> PROVE FALSE
      OBVIOUS
    <3>2. RootOf(r) = <<"root", <<"empty root">>>>
      BY <1>7, EmptyRoot
    <3>3. RootOf(r) # NoRoot /\ RootOf(r) = <<"root", <<"empty root">>>>
      BY <3>2
    <3>4. PICK p : RootOf(r) = <<"root", ParentHash(h[1][p - 1], h[p][Len(r)])>>
      BY <1>1, <1>3, <1>6, <3>1, <3>3, Zenon
    <3>. QED
      BY <1>5, <3>3, <3>4
  <2>. QED
    BY <1>1, <1>7, <2>1
<1>8. CASE q # <<>>
  <2>1. PICK p : RootParts(q, f, p) /\ RootOf(q) = <<"root", ParentHash(f[1][p - 1], f[p][Len(q)])>>
    BY <1>1, <1>2, <1>6, <1>8
  <2>2. r # <<>>
    BY <1>5, <2>1, EmptyRoot
  <2>3. PICK u : RootParts(r, h, u) /\ RootOf(r) = <<"root", ParentHash(h[1][u - 1], h[u][Len(r)])>>
    BY <1>1, <1>3, <1>6, <2>2
  <2>4. /\ f[1][p - 1].val = h[1][u - 1].val /\ f[1][p - 1].lab = h[1][u - 1].lab
        /\ f[p][Len(q)].val = h[u][Len(r)].val /\ f[p][Len(q)].lab = h[u][Len(r)].lab
    <3>1. <<"root", ParentHash(f[1][p - 1], f[p][Len(q)])>> = <<"root", ParentHash(h[1][u - 1], h[u][Len(r)])>>
      BY <2>1, <2>3
    <3>2. PICK l1, r1, l2, r2 : l1 = f[1][p - 1] /\ r1 = f[p][Len(q)] /\ l2 = h[1][u - 1] /\ r2 = h[u][Len(r)]
      OBVIOUS
    <3>3. <<"root", ParentHash(l1, r1)>> = <<"root", ParentHash(l2, r2)>>
      BY <3>1, <3>2
    <3>4. l1.val = l2.val /\ l1.lab = l2.lab /\ r1.val = r2.val /\ r1.lab = r2.lab
      BY <3>3, RootAlike
    <3>. QED
      BY <3>2, <3>4
  <2>5. f[1][p - 1].val # NoRoot /\ f[p][Len(q)].val # NoRoot
    BY <2>1 DEF RootParts
  <2>6. p \in 1 .. Len(q) + 1 /\ u \in 1 .. Len(r) + 1 /\ p \in Nat /\ u \in Nat
    BY <1>1, <2>1, <2>3 DEF RootParts
  <2>7. /\ 1 \in 1 .. Len(q) + 1 /\ p - 1 \in 0 .. Len(q) /\ Len(q) \in 0 .. Len(q)
        /\ 1 \in 1 .. Len(r) + 1 /\ u - 1 \in 0 .. Len(r) /\ Len(r) \in 0 .. Len(r)
        /\ p - 1 < 1 + (Len(q) + 1) /\ Len(q) < p + (Len(q) + 1)
    BY <1>1, <2>6
  <2>8. Tells(q, f, r, h, Len(q) + 1)
    <3>1. Len(q) + 1 \in Nat
      BY <1>1
    <3>. QED
      BY <1>1, <1>2, <1>3, <3>1, RowTells
  <2>9. Run(q, 1, p - 1) = Run(r, 1, u - 1) /\ Run(q, p, Len(q)) = Run(r, u, Len(r))
    BY <2>4, <2>5, <2>6, <2>7, <2>8 DEF Tells
  <2>10. s = Run(q, 1, p - 1) \cup Run(q, p, Len(q))
    <3>1. \A i : i \in 1 .. Len(q) <=> i \in 1 .. p - 1 \/ i \in p .. Len(q)
      BY <1>1, <2>6
    <3>. QED
      BY <1>1, <3>1 DEF Run
  <2>11. t = Run(r, 1, u - 1) \cup Run(r, u, Len(r))
    <3>1. \A i : i \in 1 .. Len(r) <=> i \in 1 .. u - 1 \/ i \in u .. Len(r)
      BY <1>1, <2>6
    <3>. QED
      BY <1>1, <3>1 DEF Run
  <2>. QED
    BY <2>9, <2>10, <2>11
<1>. QED
  BY <1>7, <1>8

-----------------------------------------------------------------------------
(* Roots are those of the trie.                                            *)

(* Under is Below, on one side of the root.                                *)
LEMMA UnderIs ==
  ASSUME NEW d \in Placed, NEW e \in Placed
  PROVE  Under(e, d) <=> d.label[1] = e.label[1] /\ Below(e, d)
<1>1. /\ Bits \in Nat \ {0} /\ e.len \in 0 .. Bits /\ d.len \in 0 .. Bits
      /\ \A m : m \in 1 .. e.len <=> m \in 1 .. Bits /\ m <= e.len
  <2>1. e.len \in 0 .. Bits /\ d.len \in 0 .. Bits
    BY PlacedIs
  <2>. QED
    BY <2>1, AkdTreeAssumption
<1>2. PrefixOf(d.label, e.len) = PrefixOf(e.label, e.len) <=> AgreeTo(e.label, d.label, e.len)
  <2>1. ASSUME PrefixOf(d.label, e.len) = PrefixOf(e.label, e.len) PROVE AgreeTo(e.label, d.label, e.len)
    <3>1. \A m \in 1 .. Bits : m <= e.len =>
              PrefixOf(d.label, e.len)[m] = d.label[m] /\ PrefixOf(e.label, e.len)[m] = e.label[m]
      BY DEF PrefixOf
    <3>. QED
      BY <1>1, <2>1, <3>1 DEF AgreeTo
  <2>2. ASSUME AgreeTo(e.label, d.label, e.len) PROVE PrefixOf(d.label, e.len) = PrefixOf(e.label, e.len)
    <3>1. \A m \in 1 .. Bits : m <= e.len => e.label[m] = d.label[m]
      BY <1>1, <2>2 DEF AgreeTo
    <3>. QED
      BY <3>1 DEF PrefixOf
  <2>. QED
    BY <2>1, <2>2
<1>3. d.len >= e.len <=> e.len <= d.len
  BY <1>1
<1>4. Under(e, d) <=> /\ d.label[1] = e.label[1]
                     /\ e.len <= d.len /\ AgreeTo(e.label, d.label, e.len)
  BY <1>2, <1>3, Zenon DEF Under
<1>. QED
  BY <1>4, Zenon DEF Below

(* Of a clean label, the one over another sits on its node.                *)
LEMMA CleanSits ==
  ASSUME NEW d \in Placed, NEW e \in Placed, CleanLabel(e), Under(e, d)
  PROVE  Sits(e, d) /\ e.label[1] = d.label[1]
<1>1. AgreeTo(e.label, d.label, e.len) /\ e.label[1] = d.label[1]
  BY UnderIs DEF Below
<1>2. ASSUME NEW k \in 1 .. Bits, k > e.len PROVE e.label[k] = 0
  <2>1. e.label[k] = PrefixOf(e.label, e.len)[k]
    BY DEF CleanLabel
  <2>2. Bits \in Nat /\ e.len \in 0 .. Bits
    <3>1. e.len \in 0 .. Bits
      BY PlacedIs
    <3>. QED
      BY <3>1, AkdTreeAssumption
  <2>3. ~ (k <= e.len)
    BY <1>2, <2>2
  <2>. QED
    BY <2>1, <2>3 DEF PrefixOf
<1>. QED
  BY <1>1, <1>2 DEF Sits

(* The row below the root, on one side, is the trie over that side.        *)
LEMMA SideIsTrie ==
  ASSUME NEW q, InRow(q), NEW f, Subtrees(f, q), NEW lo \in 1 .. Len(q) + 1, NEW hi \in 0 .. Len(q), lo <= hi + 1,
         Sharing(q, lo, hi, 1), Apart(q, lo, hi)
  PROVE  f[lo][hi] = TrieOver(Run(q, lo, hi)) /\ f[lo][hi].val # NoRoot
<1>1. PICK t : t = Run(q, lo, hi)
  OBVIOUS
<1>2. PICK g : TrieOver(t) = g[1][t] /\ \A n \in 1 .. Bits : g[n] = TrieRow(g[n + 1], n, t)
  BY TrieIs
<1>3. Tries(q, f, g, t, 1)
  BY <1>2, RowTries
<1>4. Run(q, lo, hi) \in SUBSET t
  BY <1>1
<1>5. f[lo][hi] = g[1][Run(q, lo, hi)] /\ f[lo][hi].val # NoRoot
  BY <1>3, <1>4 DEF Tries
<1>. QED
  BY <1>1, <1>2, <1>5

(* On clean labels the recursion over the sorted sequence (verify.go Root, *)
(* subtree) has the root that the trie is defined to have, and an error    *)
(* exactly when the trie has one.                                          *)
THEOREM RootIsTrie ==
  ASSUME NEW s, NEW q, Lists(q, s), \A e \in s : CleanLabel(e)
  PROVE  RootOf(q) = TrieRoot(s)
<1>1. /\ q \in Seq(Placed) /\ Len(q) \in Nat /\ InRow(q)
      /\ \A x : x \in s <=> \E i \in 1 .. Len(q) : q[i] = x
      /\ \A i, j \in 1 .. Len(q) : i < j => q[i] # q[j]
  BY DEF Lists, InRow
<1>2. CASE q = <<>>
  <2>1. s = {}
    BY <1>1, <1>2
  <2>. QED
    BY <1>2, <2>1, EmptyRoot DEF TrieRoot
<1>3. CASE q # <<>>
  <2>1. s # {}
    <3>1. 1 \in 1 .. Len(q)
      BY <1>1, <1>3
    <3>. QED
      BY <1>1, <3>1
  <2>2. CASE \E d, e \in s : d # e /\ Under(d, e)
    <3>1. PICK d \in s, e \in s : d # e /\ Under(e, d)
      BY <2>2
    <3>2. PICK i \in 1 .. Len(q), j \in 1 .. Len(q) : q[i] = e /\ q[j] = d
      BY <1>1
    <3>3. q[i] \in Placed /\ q[j] \in Placed
      BY <1>1
    <3>4. i # j /\ Sits(q[i], q[j]) /\ q[i].label[1] = q[j].label[1]
      BY <3>1, <3>2, <3>3, CleanSits
    <3>5. RootOf(q) = NoRoot
      BY <1>1, <3>4, SittingFails
    <3>. QED
      BY <2>1, <2>2, <3>5, Zenon DEF TrieRoot
  <2>3. CASE ~ \E d, e \in s : d # e /\ Under(d, e)
    <3>1. PICK f : Subtrees(f, q)
      BY <1>1, SubtreesAre
    <3>2. PICK p : RootParts(q, f, p)
      BY <1>1, <1>3, <3>1, RootIs
    <3>3. /\ p \in 1 .. Len(q) + 1 /\ p \in Nat
          /\ \A i \in 1 .. p - 1 : q[i].label[1] = 0
          /\ \A i \in p .. Len(q) : q[i].label[1] = 1
          /\ Sharing(q, 1, p - 1, 1) /\ Sharing(q, p, Len(q), 1)
      BY <1>1, <3>2 DEF RootParts
    <3>4. /\ 1 \in 1 .. Len(q) + 1 /\ p - 1 \in 0 .. Len(q) /\ Len(q) \in 0 .. Len(q)
          /\ 1 <= (p - 1) + 1 /\ p <= Len(q) + 1
          /\ \A i \in 1 .. p - 1 : i \in 1 .. Len(q)
          /\ \A i \in p .. Len(q) : i \in 1 .. Len(q)
          /\ \A i \in 1 .. Len(q) : i \in 1 .. p - 1 \/ i \in p .. Len(q)
      BY <1>1, <3>3
    <3>5. ASSUME NEW i \in 1 .. Len(q), NEW j \in 1 .. Len(q), i # j, q[i].label[1] = q[j].label[1]
          PROVE  ~ Below(q[i], q[j])
      <4>1. q[i] # q[j]
        BY <1>1, <3>5
      <4>2. q[i] \in Placed /\ q[j] \in Placed /\ q[i] \in s /\ q[j] \in s
        BY <1>1
      <4>3. ~ Under(q[i], q[j])
        BY <2>3, <4>1, <4>2
      <4>. QED
        BY <3>5, <4>2, <4>3, UnderIs
    <3>6. Apart(q, 1, p - 1)
      BY <3>3, <3>4, <3>5 DEF Apart
    <3>7. Apart(q, p, Len(q))
      BY <3>3, <3>4, <3>5 DEF Apart
    <3>8. f[1][p - 1] = TrieOver(Run(q, 1, p - 1)) /\ f[1][p - 1].val # NoRoot
      BY <1>1, <3>1, <3>3, <3>4, <3>6, SideIsTrie
    <3>9. f[p][Len(q)] = TrieOver(Run(q, p, Len(q))) /\ f[p][Len(q)].val # NoRoot
      BY <1>1, <3>1, <3>3, <3>4, <3>7, SideIsTrie
    <3>10. Run(q, 1, p - 1) = WithBit(s, 1, 0)
      <4>1. \A x : x \in Run(q, 1, p - 1) <=> x \in WithBit(s, 1, 0)
        BY <1>1, <3>3, <3>4 DEF Run, WithBit
      <4>. QED
        BY <4>1
    <3>11. Run(q, p, Len(q)) = WithBit(s, 1, 1)
      <4>1. \A x : x \in Run(q, p, Len(q)) <=> x \in WithBit(s, 1, 1)
        BY <1>1, <3>3, <3>4 DEF Run, WithBit
      <4>. QED
        BY <4>1
    <3>12. NoRoot \notin {f[1][p - 1].val, f[p][Len(q)].val}
      BY <3>8, <3>9
    <3>13. RootOf(q) = <<"root", ParentHash(f[1][p - 1], f[p][Len(q)])>>
      BY <3>2, <3>12, Zenon DEF RootParts
    <3>14. TrieRoot(s) = <<"root", ParentHash(TrieOver(WithBit(s, 1, 0)), TrieOver(WithBit(s, 1, 1)))>>
      BY <2>1, <2>3, Zenon DEF TrieRoot
    <3>15. f[1][p - 1] = TrieOver(WithBit(s, 1, 0)) /\ f[p][Len(q)] = TrieOver(WithBit(s, 1, 1))
      BY <3>8, <3>9, <3>10, <3>11
    <3>. QED
      BY <3>13, <3>14, <3>15, Zenon
  <2>. QED
    BY <2>2, <2>3
<1>. QED
  BY <1>2, <1>3

-----------------------------------------------------------------------------
(* The two readers of a proof.                                             *)

(* The elements of a proof, and what is committed of the inserted ones.    *)
CommitsOf(i) == {Committed(e) : e \in i}

(* A committed element stays in its place and is no element of a proof.    *)
LEMMA CommittedIs ==
  ASSUME NEW e \in Element
  PROVE  /\ e \in Placed /\ Committed(e) \in Placed
         /\ CleanLabel(e) => CleanLabel(Committed(e))
         /\ \A d \in Element : d # Committed(e)
         /\ \A d \in Element : Committed(d) = Committed(e) => d = e
<1>1. ASSUME NEW d \in Element
      PROVE  /\ Committed(d) = [label |-> d.label, len |-> d.len, value |-> <<"commit", d.value, EndEpoch>>]
             /\ d = [label |-> d.label, len |-> d.len, value |-> d.value]
             /\ d.label \in Label /\ d.len \in 0 .. Bits /\ d.value \in {<<"value", v>> : v \in Values}
  BY DEF Element, Committed, Label
<1>2. e \in Placed /\ Committed(e) \in Placed
  BY <1>1 DEF Placed, Stored
<1>3. Committed(e).label = e.label /\ Committed(e).len = e.len /\ Committed(e).value = <<"commit", e.value, EndEpoch>>
  BY <1>1
<1>4. CleanLabel(e) => CleanLabel(Committed(e))
  BY <1>3 DEF CleanLabel
<1>5. ASSUME NEW d \in Element PROVE d # Committed(e)
  <2>1. PICK v : d.value = <<"value", v>>
    BY <1>1
  <2>2. d.value[1] = "value" /\ Committed(e).value[1] = "commit" /\ "value" # "commit"
    BY <1>3, <2>1
  <2>. QED
    BY <2>2
<1>6. ASSUME NEW d \in Element, Committed(d) = Committed(e) PROVE d = e
  <2>1. /\ Committed(d).label = d.label /\ Committed(d).len = d.len
        /\ Committed(d).value = <<"commit", d.value, EndEpoch>>
    BY <1>1
  <2>2. d.label = e.label /\ d.len = e.len /\ <<"commit", d.value, EndEpoch>> = <<"commit", e.value, EndEpoch>>
    BY <1>3, <1>6, <2>1
  <2>3. d.value = e.value
    BY <2>2
  <2>. QED
    BY <1>1, <2>2, <2>3
<1>. QED
  BY <1>2, <1>4, <1>5, <1>6

(* There are finitely many.                                                *)
LEMMA CommitsAre ==
  ASSUME NEW i \in SUBSET Element, IsFiniteSet(i)
  PROVE  CommitsOf(i) \in SUBSET Placed /\ IsFiniteSet(CommitsOf(i))
<1>1. CommitsOf(i) \in SUBSET Placed
  BY CommittedIs DEF CommitsOf
<1>. DEFINE f == [e \in i |-> Committed(e)]
<1>2. f \in [i -> CommitsOf(i)] /\ \A t \in CommitsOf(i) : \E e \in i : f[e] = t
  BY DEF CommitsOf
<1>3. f \in Surjection(i, CommitsOf(i))
  <2>. HIDE DEF f
  <2>. QED
    BY <1>2, Fun_IsSurj
<1>4. IsFiniteSet(CommitsOf(i))
  <2>. HIDE DEF f
  <2>. QED
    BY <1>3, FS_Surjection
<1>. QED
  BY <1>1, <1>4

(* What the two sort and merge are listings of the proof's elements.       *)
LEMMA ProofListed ==
  ASSUME NEW u \in SUBSET Element, IsFiniteSet(u), NEW i \in SUBSET Element, IsFiniteSet(i)
  PROVE  /\ Lists(SortedElements(u), u)
         /\ Lists(Merged(SortedElements(u), SortedElements(CommitsOf(i))), u \cup CommitsOf(i))
         /\ Lists(SortedElements(u \cup CommitsOf(i)), u \cup CommitsOf(i))
<1>1. u \in SUBSET Placed
  BY CommittedIs
<1>2. CommitsOf(i) \in SUBSET Placed /\ IsFiniteSet(CommitsOf(i))
  BY CommitsAre
<1>3. u \cap CommitsOf(i) = {}
  BY CommittedIs DEF CommitsOf
<1>4. Lists(SortedElements(u), u)
  BY <1>1, SortLists
<1>5. Lists(SortedElements(CommitsOf(i)), CommitsOf(i))
  BY <1>2, SortLists
<1>6. Lists(Merged(SortedElements(u), SortedElements(CommitsOf(i))), u \cup CommitsOf(i))
  BY <1>3, <1>4, <1>5, MergeLists
<1>7. u \cup CommitsOf(i) \in SUBSET Placed /\ IsFiniteSet(u \cup CommitsOf(i))
  BY <1>1, <1>2, FS_Union
<1>8. Lists(SortedElements(u \cup CommitsOf(i)), u \cup CommitsOf(i))
  BY <1>7, SortLists
<1>. QED
  BY <1>4, <1>6, <1>8

(* The two roots.                                                          *)
LEMMA WitnessRootsAre ==
  ASSUME NEW u, NEW i
  PROVE  /\ WitnessRoots(u, i).prev = RootOf(SortedElements(u))
         /\ WitnessRoots(u, i).curr = RootOf(Merged(SortedElements(u), SortedElements(CommitsOf(i))))
BY DEF WitnessRoots, CommitsOf

(* The proof at hand is a finite one.                                      *)
ProofIs ==
  /\ unchanged \in SUBSET Element /\ IsFiniteSet(unchanged)
  /\ inserted \in SUBSET Element /\ IsFiniteSet(inserted)

(* Every proof is.                                                         *)
LEMMA ProofStaysFinite == AkdTreeSpec => []ProofIs
<1>1. AkdTreeInit => ProofIs
  BY FS_EmptySet DEF AkdTreeInit, ProofIs
<1>2. ProofIs /\ [AkdTreeNext]_proofVars => ProofIs'
  <2>1. SUFFICES ASSUME ProofIs, [AkdTreeNext]_proofVars PROVE ProofIs'
    OBVIOUS
  <2>2. CASE AddUnchanged
    BY <2>1, <2>2, FS_AddElement DEF AddUnchanged, ProofIs
  <2>3. CASE AddInserted
    BY <2>1, <2>3, FS_AddElement DEF AddInserted, ProofIs
  <2>4. CASE UNCHANGED proofVars
    BY <2>1, <2>4 DEF proofVars, ProofIs
  <2>. QED
    BY <2>1, <2>2, <2>3, <2>4 DEF AkdTreeNext
<1>. QED
  BY <1>1, <1>2, PTL DEF AkdTreeSpec

(* On clean labels the roots are the trie's.                               *)
LEMMA ProofsAreTries == ProofIs => RootsAreTheTries
<1>1. SUFFICES ASSUME ProofIs, \A e \in unchanged \cup inserted : CleanLabel(e)
               PROVE  /\ WitnessRoots(unchanged, inserted).prev = TrieRoot(unchanged)
                      /\ WitnessRoots(unchanged, inserted).curr = TrieRoot(unchanged \cup {Committed(e) : e \in inserted})
  BY DEF RootsAreTheTries
<1>2. PICK u, i : u = unchanged /\ i = inserted
  OBVIOUS
<1>3. u \in SUBSET Element /\ IsFiniteSet(u) /\ i \in SUBSET Element /\ IsFiniteSet(i)
  BY <1>1, <1>2 DEF ProofIs
<1>4. \A e \in u : CleanLabel(e)
  BY <1>1, <1>2
<1>5. \A e \in u \cup CommitsOf(i) : CleanLabel(e)
  <2>1. \A e \in i : CleanLabel(Committed(e))
    BY <1>1, <1>2, <1>3, CommittedIs
  <2>. QED
    BY <1>4, <2>1 DEF CommitsOf
<1>6. RootOf(SortedElements(u)) = TrieRoot(u)
  BY <1>3, <1>4, ProofListed, RootIsTrie
<1>7. RootOf(Merged(SortedElements(u), SortedElements(CommitsOf(i)))) = TrieRoot(u \cup CommitsOf(i))
  BY <1>3, <1>5, ProofListed, RootIsTrie
<1>8. WitnessRoots(u, i).prev = TrieRoot(u) /\ WitnessRoots(u, i).curr = TrieRoot(u \cup CommitsOf(i))
  BY <1>6, <1>7, WitnessRootsAre
<1>9. CommitsOf(i) = {Committed(e) : e \in inserted}
  BY <1>2 DEF CommitsOf
<1>. QED
  BY <1>2, <1>8, <1>9

(* Without any one element the root is another.                            *)
LEMMA ProofsAreWhole == ProofIs => NothingIsDropped
<1>1. SUFFICES ASSUME ProofIs PROVE NothingIsDropped
  OBVIOUS
<1>2. PICK u, i : u = unchanged /\ i = inserted
  OBVIOUS
<1>3. u \in SUBSET Element /\ IsFiniteSet(u) /\ i \in SUBSET Element /\ IsFiniteSet(i)
  BY <1>1, <1>2 DEF ProofIs
<1>4. ASSUME NEW e
      PROVE  u \ {e} \in SUBSET Element /\ IsFiniteSet(u \ {e}) /\ i \ {e} \in SUBSET Element /\ IsFiniteSet(i \ {e})
  BY <1>3, FS_RemoveElement
<1>5. ASSUME NEW e \in u, WitnessRoots(u, i).prev # NoRoot, WitnessRoots(u \ {e}, {}).prev = WitnessRoots(u, i).prev
      PROVE  FALSE
  <2>1. Lists(SortedElements(u), u) /\ Lists(SortedElements(u \ {e}), u \ {e})
    BY <1>3, <1>4, ProofListed
  <2>2. RootOf(SortedElements(u)) = RootOf(SortedElements(u \ {e})) /\ RootOf(SortedElements(u)) # NoRoot
    BY <1>5, WitnessRootsAre
  <2>3. u = u \ {e}
    BY <2>1, <2>2, OneRootOneSet
  <2>. QED
    BY <2>3
<1>6. ASSUME NEW e \in i, WitnessRoots(u, i).curr # NoRoot, WitnessRoots(u, i \ {e}).curr = WitnessRoots(u, i).curr
      PROVE  FALSE
  <2>1. PICK q, r : /\ q = Merged(SortedElements(u), SortedElements(CommitsOf(i)))
                    /\ r = Merged(SortedElements(u), SortedElements(CommitsOf(i \ {e})))
    OBVIOUS
  <2>2. Lists(q, u \cup CommitsOf(i)) /\ Lists(r, u \cup CommitsOf(i \ {e}))
    BY <1>3, <1>4, <2>1, ProofListed
  <2>3. RootOf(q) = RootOf(r) /\ RootOf(q) # NoRoot
    BY <1>6, <2>1, WitnessRootsAre
  <2>4. u \cup CommitsOf(i) = u \cup CommitsOf(i \ {e})
    BY <2>2, <2>3, OneRootOneSet
  <2>5. Committed(e) \in u \cup CommitsOf(i \ {e})
    BY <2>4 DEF CommitsOf
  <2>. QED
    BY <1>3, <2>5, CommittedIs DEF CommitsOf
<1>7. ASSUME NEW e \in u, WitnessRoots(u, i).curr # NoRoot, WitnessRoots(u \ {e}, i).curr = WitnessRoots(u, i).curr
      PROVE  FALSE
  <2>1. PICK q, r : /\ q = Merged(SortedElements(u), SortedElements(CommitsOf(i)))
                    /\ r = Merged(SortedElements(u \ {e}), SortedElements(CommitsOf(i)))
    OBVIOUS
  <2>2. Lists(q, u \cup CommitsOf(i)) /\ Lists(r, (u \ {e}) \cup CommitsOf(i))
    BY <1>3, <1>4, <2>1, ProofListed
  <2>3. RootOf(q) = RootOf(r) /\ RootOf(q) # NoRoot
    BY <1>7, <2>1, WitnessRootsAre
  <2>4. u \cup CommitsOf(i) = (u \ {e}) \cup CommitsOf(i)
    BY <2>2, <2>3, OneRootOneSet
  <2>5. e \in CommitsOf(i)
    BY <2>4
  <2>. QED
    BY <1>3, <2>5, CommittedIs DEF CommitsOf
<1>. QED
  BY <1>2, <1>5, <1>6, <1>7 DEF NothingIsDropped

(* The fleet's roots are the witness's.                                    *)
LEMMA RootsAgree ==
  ASSUME NEW u \in SUBSET Element, IsFiniteSet(u), NEW i \in SUBSET Element, IsFiniteSet(i)
  PROVE  WorkerRoots(u, i) = WitnessRoots(u, i)
<1>1. PICK t, q, r : /\ t = u \cup CommitsOf(i)
                     /\ q = Merged(SortedElements(u), SortedElements(CommitsOf(i)))
                     /\ r = SortedElements(u \cup CommitsOf(i))
  OBVIOUS
<1>2. Lists(q, t) /\ Lists(r, t)
  BY <1>1, ProofListed
<1>3. RootOf(q) = RootOf(r)
  BY <1>2, RootAlone
<1>. QED
  BY <1>1, <1>3 DEF WorkerRoots, WitnessRoots, CommitsOf

(* So their verdicts are.                                                  *)
LEMMA ProofsAgree == ProofIs => FleetAndWitnessAgree
<1>1. SUFFICES ASSUME ProofIs PROVE FleetAndWitnessAgree
  OBVIOUS
<1>2. WorkerRoots(unchanged, inserted) = WitnessRoots(unchanged, inserted)
  BY <1>1, RootsAgree DEF ProofIs
<1>. QED
  BY <1>2 DEF FleetAndWitnessAgree

(* Witness and fleet compute, from one proof (goverify.go, kt-worker       *)
(* verify.go), the roots of the tree the proof's elements make, and both   *)
(* from all of its elements.                                               *)
THEOREM ProofsStayReadAlike == AkdTreeSpec => []ProofsAreReadAlike
<1>1. ProofIs => ProofsAreReadAlike
  BY ProofsAreTries, ProofsAreWhole, ProofsAgree DEF ProofsAreReadAlike
<1>. QED
  BY <1>1, ProofStaysFinite, PTL

=============================================================================
