---------------------------- MODULE ReplayProofs ----------------------------
(***************************************************************************)
(* Proofs about the replay of Proton's diffs, for any depth of the tree,   *)
(* labels, epochs, replays and faults.                                     *)
(*                                                                         *)
(* First the tree: the root rebuilt in one piece and in shards is that of  *)
(* the set of leaves, a root is of one set of leaves, and a merge makes    *)
(* the tree that its diff says.  A function that is defined by recursion   *)
(* over a bounded range is shown to exist, row by row, before anything is  *)
(* said of it, and what holds of every row is shown of a least row at which*)
(* it does not.  Then the replay: the inductive invariant ReplayInv, one   *)
(* lemma for each action, and the properties that follow.                  *)
(***************************************************************************)
EXTENDS ProtonReplay, Numbers, SequenceTheorems

-----------------------------------------------------------------------------
(* Functions by recursion. *)

(* A function by recursion over a bounded row is one that satisfies its    *)
(* equation: joined levels.                                                *)
IsRows(row, bottom, d) ==
  row = [k \in 0 .. d |->
           IF k = d THEN bottom
           ELSE [s \in 0 .. 2^k - 1 |-> Join(row[k + 1][2 * s], row[k + 1][2 * s + 1])]]

(* There are such rows, built from the bottom up.                          *)
LEMMA RowsExist ==
  ASSUME NEW bottom, NEW d \in Nat
  PROVE  \E row : IsRows(row, bottom, d)
<1>. DEFINE above(f, k) == [s \in 0 .. 2^k - 1 |-> Join(f[k + 1][2 * s], f[k + 1][2 * s + 1])]
            from(f, j) == f = [k \in j .. d |-> IF k = d THEN bottom ELSE above(f, k)]
            Begun == {j \in 0 .. d : \E f : from(f, j)}
<1>1. d \in Begun
  <2>1. d .. d = {d} /\ d \in 0 .. d
    OBVIOUS
  <2>2. from([k \in {d} |-> bottom], d)
    BY <2>1
  <2>. HIDE DEF from
  <2>. QED
    BY <2>1, <2>2
<1>2. PICK j \in Begun : \A i \in Begun : j <= i
  <2>. HIDE DEF from
  <2>1. Begun \in SUBSET Nat
    OBVIOUS
  <2>. HIDE DEF Begun
  <2>. QED
    BY <1>1, <2>1, LeastNat
<1>3. PICK f : from(f, j)
  <2>. HIDE DEF from
  <2>. QED
    BY <1>2
<1>4. CASE j = 0
  BY <1>3, <1>4 DEF IsRows
<1>5. CASE j # 0
  <2>1. PICK i \in 0 .. d : i = j - 1 /\ i + 1 = j /\ i < d /\ i \notin Begun
    <3>. HIDE DEF from
    <3>1. j \in 1 .. d
      BY <1>2, <1>5
    <3>. HIDE DEF Begun
    <3>. QED
      BY <1>2, <3>1
  <2>. DEFINE g == [k \in i .. d |-> IF k = i THEN above(f, i) ELSE f[k]]
  <2>2. \A k \in j .. d : f[k] = IF k = d THEN bottom ELSE above(f, k)
    <3>. HIDE DEF above
    <3>. QED
      BY <1>3
  <2>3. g[i] = above(f, i) /\ \A k \in j .. d : g[k] = f[k]
    <3>. HIDE DEF above
    <3>. QED
      BY <2>1
  <2>4. \A k \in i .. d : k # d => above(g, k) = above(f, k)
    <3>1. \A k \in i .. d : k # d => k + 1 \in j .. d
      BY <2>1
    <3>. HIDE DEF g
    <3>. QED
      BY <2>3, <3>1
  <2>5. \A k \in i .. d : g[k] = IF k = d THEN bottom ELSE above(g, k)
    <3>1. \A k \in i .. d : k = i \/ k \in j .. d
      BY <2>1
    <3>. HIDE DEF g, above
    <3>. QED
      BY <2>1, <2>2, <2>3, <2>4, <3>1
  <2>6. g = [k \in i .. d |-> g[k]]
    <3>. HIDE DEF above
    <3>. QED
      OBVIOUS
  <2>7. from(g, i)
    <3>. HIDE DEF g, above
    <3>. QED
      BY <2>5, <2>6
  <2>. HIDE DEF from, g
  <2>8. i \in Begun
    BY <2>1, <2>7
  <2>. QED
    BY <2>1, <2>8
<1>. QED
  BY <1>4, <1>5

(* JoinUp is the top of them.                                              *)
LEMMA JoinUpIsARoot ==
  ASSUME NEW bottom, NEW d \in Nat
  PROVE  \E row : IsRows(row, bottom, d) /\ JoinUp(bottom, d) = row[0][0]
<1>. DEFINE r == CHOOSE row : IsRows(row, bottom, d)
<1>1. IsRows(r, bottom, d)
  BY RowsExist
<1>2. JoinUp(bottom, d) = r[0][0]
  BY DEF JoinUp, IsRows
<1>. QED
  BY <1>1, <1>2

(* A leaf lifted level by level.                                           *)
IsLift(up, leaf, d) ==
  up = [k \in d .. Depth |->
          IF k = Depth THEN LeafHash(leaf.value) ELSE Combine(up[k + 1], leaf.label, k + 1)]

(* There is such a lift, built from the bottom up.                         *)
LEMMA LiftExists ==
  ASSUME NEW leaf, NEW d \in 0 .. Depth
  PROVE  \E up : IsLift(up, leaf, d)
<1>. DEFINE above(f, k) == Combine(f[k + 1], leaf.label, k + 1)
            from(f, j) == f = [k \in j .. Depth |-> IF k = Depth THEN LeafHash(leaf.value) ELSE above(f, k)]
            Begun == {j \in d .. Depth : \E f : from(f, j)}
<1>1. Depth \in Begun
  <2>1. Depth .. Depth = {Depth} /\ Depth \in d .. Depth /\ Depth \in Nat
    BY ProtonTreeAssumption
  <2>2. from([k \in {Depth} |-> LeafHash(leaf.value)], Depth)
    BY <2>1
  <2>. HIDE DEF from
  <2>. QED
    BY <2>1, <2>2
<1>2. PICK j \in Begun : \A i \in Begun : j <= i
  <2>. HIDE DEF from
  <2>1. Begun \in SUBSET Nat
    BY ProtonTreeAssumption
  <2>. HIDE DEF Begun
  <2>. QED
    BY <1>1, <2>1, LeastNat
<1>3. PICK f : from(f, j)
  <2>. HIDE DEF from
  <2>. QED
    BY <1>2
<1>4. CASE j = d
  BY <1>3, <1>4 DEF IsLift
<1>5. CASE j # d
  <2>1. PICK i \in d .. Depth : i = j - 1 /\ i + 1 = j /\ i < Depth /\ i \notin Begun
    <3>. HIDE DEF from
    <3>1. j \in d + 1 .. Depth
      BY <1>2, <1>5, ProtonTreeAssumption
    <3>. HIDE DEF Begun
    <3>. QED
      BY <1>2, <3>1, ProtonTreeAssumption
  <2>. DEFINE g == [k \in i .. Depth |-> IF k = i THEN above(f, i) ELSE f[k]]
  <2>2. \A k \in j .. Depth : f[k] = IF k = Depth THEN LeafHash(leaf.value) ELSE above(f, k)
    <3>. HIDE DEF above
    <3>. QED
      BY <1>3
  <2>3. g[i] = above(f, i) /\ \A k \in j .. Depth : g[k] = f[k]
    <3>. HIDE DEF above
    <3>. QED
      BY <2>1
  <2>4. \A k \in i .. Depth : k # Depth => above(g, k) = above(f, k)
    <3>1. \A k \in i .. Depth : k # Depth => k + 1 \in j .. Depth
      BY <2>1, ProtonTreeAssumption
    <3>. HIDE DEF g
    <3>. QED
      BY <2>3, <3>1
  <2>5. \A k \in i .. Depth : g[k] = IF k = Depth THEN LeafHash(leaf.value) ELSE above(g, k)
    <3>1. \A k \in i .. Depth : k = i \/ k \in j .. Depth
      BY <2>1
    <3>. HIDE DEF g, above
    <3>. QED
      BY <2>1, <2>2, <2>3, <2>4, <3>1
  <2>6. g = [k \in i .. Depth |-> g[k]]
    <3>. HIDE DEF above
    <3>. QED
      OBVIOUS
  <2>7. from(g, i)
    <3>. HIDE DEF g, above
    <3>. QED
      BY <2>5, <2>6
  <2>. HIDE DEF from, g
  <2>8. i \in Begun
    BY <2>1, <2>7
  <2>. QED
    BY <2>1, <2>8
<1>. QED
  BY <1>4, <1>5


(* The roots over stretches of leaves, by depth.                           *)
IsSub(sub, leaves, first, past, d) ==
  sub = [depth \in d .. Depth |-> SubtreesAt(leaves, first, past, depth, sub[depth + 1])]

(* At the bottom no deeper row is looked at.                               *)
LEMMA LastRow ==
  ASSUME NEW leaves, NEW first, NEW past, NEW x, NEW y
  PROVE  SubtreesAt(leaves, first, past, Depth, x) = SubtreesAt(leaves, first, past, Depth, y)
BY DEF SubtreesAt

(* There are such roots, built from the bottom up.                         *)
LEMMA SubExists ==
  ASSUME NEW leaves, NEW first \in Nat, NEW past \in Nat, NEW d \in 0 .. Depth
  PROVE  \E sub : IsSub(sub, leaves, first, past, d)
<1>. DEFINE row(k, below) == SubtreesAt(leaves, first, past, k, below)
            from(f, j) == f = [k \in j .. Depth |-> row(k, f[k + 1])]
            Begun == {j \in d .. Depth : \E f : from(f, j)}
<1>1. Depth \in Begun
  <2>1. Depth .. Depth = {Depth} /\ Depth \in d .. Depth /\ Depth \in Nat
    BY ProtonTreeAssumption
  <2>2. \A x, y : row(Depth, x) = row(Depth, y)
    BY LastRow
  <2>3. from([k \in {Depth} |-> row(Depth, <<>>)], Depth)
    <3>. HIDE DEF row
    <3>. QED
      BY <2>1, <2>2
  <2>. HIDE DEF from
  <2>. QED
    BY <2>1, <2>3
<1>2. PICK j \in Begun : \A i \in Begun : j <= i
  <2>. HIDE DEF from
  <2>1. Begun \in SUBSET Nat
    BY ProtonTreeAssumption
  <2>. HIDE DEF Begun
  <2>. QED
    BY <1>1, <2>1, LeastNat
<1>3. PICK f : from(f, j)
  <2>. HIDE DEF from
  <2>. QED
    BY <1>2
<1>4. CASE j = d
  BY <1>3, <1>4 DEF IsSub
<1>5. CASE j # d
  <2>1. PICK i \in d .. Depth : i = j - 1 /\ i + 1 = j /\ i < Depth /\ i \notin Begun
    <3>. HIDE DEF from
    <3>1. j \in d + 1 .. Depth
      BY <1>2, <1>5, ProtonTreeAssumption
    <3>. HIDE DEF Begun
    <3>. QED
      BY <1>2, <3>1, ProtonTreeAssumption
  <2>. HIDE DEF row
  <2>. DEFINE g == [k \in i .. Depth |-> IF k = i THEN row(i, f[j]) ELSE f[k]]
  <2>2. \A k \in j .. Depth : f[k] = row(k, f[k + 1])
    BY <1>3
  <2>3. g[i] = row(i, f[j]) /\ \A k \in j .. Depth : g[k] = f[k]
    BY <2>1
  <2>4. \A k \in i .. Depth : k # Depth => g[k + 1] = f[k + 1]
    <3>1. \A k \in i .. Depth : k # Depth => k + 1 \in j .. Depth
      BY <2>1, ProtonTreeAssumption
    <3>. HIDE DEF g
    <3>. QED
      BY <2>3, <3>1
  <2>5. \A x, y : row(Depth, x) = row(Depth, y)
    BY LastRow DEF row
  <2>6. ASSUME NEW k \in i .. Depth PROVE g[k] = row(k, g[k + 1])
    <3>1. k = i \/ k \in j .. Depth
      BY <2>1
    <3>2. CASE k = Depth
      <4>1. k \in j .. Depth
        BY <2>1, <3>1, <3>2
      <4>2. g[k] = row(k, f[k + 1])
        BY <2>2, <2>3, <4>1
      <4>. QED
        BY <2>5, <3>2, <4>2
    <3>3. CASE k # Depth
      <4>. HIDE DEF g
      <4>. QED
        BY <2>1, <2>2, <2>3, <2>4, <3>1, <3>3
    <3>. QED
      BY <3>2, <3>3
  <2>7. g = [k \in i .. Depth |-> g[k]]
    OBVIOUS
  <2>8. from(g, i)
    <3>. HIDE DEF g
    <3>. QED
      BY <2>6, <2>7
  <2>. HIDE DEF from, g
  <2>9. i \in Begun
    BY <2>1, <2>8
  <2>. QED
    BY <2>1, <2>9
<1>. QED
  BY <1>4, <1>5

(* Subtree is read from them.                                              *)
LEMMA SubtreeIsASub ==
  ASSUME NEW leaves, NEW first \in Nat, NEW past \in Nat, NEW d \in 0 .. Depth
  PROVE  \E sub : IsSub(sub, leaves, first, past, d) /\ Subtree(leaves, first, past, d) = sub[d][first][past]
<1>. DEFINE s == CHOOSE sub : IsSub(sub, leaves, first, past, d)
<1>1. IsSub(s, leaves, first, past, d)
  BY SubExists
<1>2. Subtree(leaves, first, past, d) = s[d][first][past]
  BY DEF Subtree, IsSub
<1>. QED
  BY <1>1, <1>2

(* Lifted is read from a lift.                                             *)
LEMMA LiftedIsALift ==
  ASSUME NEW leaf, NEW d \in 0 .. Depth
  PROVE  \E up : IsLift(up, leaf, d) /\ Lifted(leaf, d) = up[d]
<1>. DEFINE u == CHOOSE up : IsLift(up, leaf, d)
<1>1. IsLift(u, leaf, d)
  BY LiftExists
<1>2. Lifted(leaf, d) = u[d]
  BY DEF Lifted, IsLift
<1>. QED
  BY <1>1, <1>2

-----------------------------------------------------------------------------
(* Binary search.                                                          *)
IsSearch(s, below, lo, hi) ==
  s = [a \in lo .. hi |-> [b \in lo .. hi |->
         IF a >= b THEN a
         ELSE LET mid == a + (b - a) \div 2
              IN IF below[mid] THEN s[mid + 1][b] ELSE s[a][mid]]]

(* The middle is in the interval.                                          *)
LEMMA Middle ==
  ASSUME NEW a \in Nat, NEW b \in Nat, a < b
  PROVE  LET mid == a + (b - a) \div 2 IN mid \in Nat /\ a <= mid /\ mid < b
<1>1. PICK q : q = (b - a) \div 2
  OBVIOUS
<1>2. q \in Nat /\ 2 * q <= b - a
  BY <1>1
<1>. QED
  BY <1>1, <1>2

(* Where a predicate that ends once ends.                                  *)
LEMMA Cut ==
  ASSUME NEW below, NEW lo \in Nat, NEW hi \in Nat, lo <= hi,
         \A i, j \in lo .. hi - 1 : i <= j /\ below[j] => below[i]
  PROVE  \E m \in lo .. hi : \A i \in lo .. hi - 1 : below[i] <=> i < m
<1>. DEFINE T == {i \in lo .. hi : i = hi \/ ~ below[i]}
<1>1. T \in SUBSET Nat /\ hi \in T
  OBVIOUS
<1>2. PICK m \in T : \A i \in T : m <= i
  <2>. HIDE DEF T
  <2>. QED
    BY <1>1, LeastNat
<1>3. ASSUME NEW i \in lo .. hi - 1 PROVE below[i] <=> i < m
  <2>1. CASE i < m
    <3>1. i \notin T /\ i \in lo .. hi /\ i # hi
      <4>1. ~ (m <= i) /\ i \in lo .. hi /\ i # hi
        BY <1>2, <2>1
      <4>. HIDE DEF T
      <4>. QED
        BY <1>2, <4>1
    <3>. QED
      BY <2>1, <3>1
  <2>2. CASE ~ (i < m)
    <3>1. m <= i /\ m \in lo .. hi - 1 /\ m # hi
      BY <1>2, <2>2
    <3>2. ~ below[m]
      BY <1>2, <3>1
    <3>. QED
      BY <2>2, <3>1, <3>2
  <2>. QED
    BY <2>1, <2>2
<1>. QED
  BY <1>2, <1>3

(* Binary search finds it.                                                 *)
LEMMA SearchFinds ==
  ASSUME NEW below, NEW lo \in Nat, NEW hi \in Nat, lo <= hi,
         NEW m \in lo .. hi, \A i \in lo .. hi - 1 : below[i] <=> i < m
  PROVE  Search(below, lo, hi) = m
<1>. DEFINE end(a, b) == IF a >= b THEN a ELSE IF m < a THEN a ELSE IF m > b THEN b ELSE m
            f == [a \in lo .. hi |-> [b \in lo .. hi |-> end(a, b)]]
            s == CHOOSE g : IsSearch(g, below, lo, hi)
            next(g, a, b) == IF a >= b THEN a
                             ELSE LET mid == a + (b - a) \div 2
                                  IN IF below[mid] THEN g[mid + 1][b] ELSE g[a][mid]
<1>1. ASSUME NEW a \in lo .. hi, NEW b \in lo .. hi, a < b
      PROVE  LET mid == a + (b - a) \div 2
             IN  /\ mid \in lo .. hi - 1 /\ mid + 1 \in lo .. hi /\ a <= mid /\ mid < b
                 /\ end(a, b) = IF below[mid] THEN end(mid + 1, b) ELSE end(a, mid)
  <2>1. PICK mid : mid = a + (b - a) \div 2
    OBVIOUS
  <2>2. mid \in Nat /\ a <= mid /\ mid < b
    BY <1>1, <2>1, Middle
  <2>3. mid \in lo .. hi - 1 /\ mid + 1 \in lo .. hi
    BY <2>2
  <2>4. below[mid] <=> mid < m
    BY <2>3
  <2>5. end(a, b) = IF mid < m THEN end(mid + 1, b) ELSE end(a, mid)
    BY <1>1, <2>2, <2>3
  <2>. HIDE DEF end
  <2>. QED
    BY <2>1, <2>2, <2>3, <2>4, <2>5
<1>2. ASSUME NEW a \in lo .. hi, NEW b \in lo .. hi
      PROVE  end(a, b) = next(f, a, b)
  <2>1. CASE a >= b
    BY <2>1
  <2>2. CASE a < b
    <3>1. PICK mid : mid = a + (b - a) \div 2
      OBVIOUS
    <3>. HIDE DEF end
    <3>2. /\ mid \in lo .. hi - 1 /\ mid + 1 \in lo .. hi
          /\ end(a, b) = IF below[mid] THEN end(mid + 1, b) ELSE end(a, mid)
      BY <1>1, <2>2, <3>1
    <3>3. mid \in lo .. hi
      BY <3>2
    <3>4. f[mid + 1][b] = end(mid + 1, b) /\ f[a][mid] = end(a, mid)
      BY <3>2, <3>3
    <3>5. ~ (a >= b)
      BY <2>2
    <3>. HIDE DEF f
    <3>. QED
      BY <3>1, <3>2, <3>4, <3>5
  <2>. QED
    BY <2>1, <2>2
<1>3. IsSearch(f, below, lo, hi)
  <2>1. [a \in lo .. hi |-> [b \in lo .. hi |-> end(a, b)]]
          = [a \in lo .. hi |-> [b \in lo .. hi |-> next(f, a, b)]]
    <3>. HIDE DEF end, next, f
    <3>. QED
      BY <1>2
  <2>. QED
    BY <2>1, Zenon DEF IsSearch
<1>4. PICK t : IsSearch(t, below, lo, hi) /\ Search(below, lo, hi) = t[lo][hi]
  <2>. HIDE DEF f
  <2>1. IsSearch(s, below, lo, hi)
    BY <1>3
  <2>2. Search(below, lo, hi) = s[lo][hi]
    BY Zenon DEF Search, IsSearch
  <2>. HIDE DEF s
  <2>. QED
    BY <2>1, <2>2
<1>. HIDE DEF s, f
<1>5. ASSUME NEW a \in lo .. hi, NEW b \in lo .. hi PROVE t[a][b] = next(t, a, b)
  <2>. HIDE DEF next
  <2>1. t = [x \in lo .. hi |-> [y \in lo .. hi |-> next(t, x, y)]]
    BY <1>4, Zenon DEF IsSearch, next
  <2>2. t[a] = [y \in lo .. hi |-> next(t, a, y)]
    BY <2>1, Zenon
  <2>. QED
    BY <2>2, Zenon
<1>. DEFINE Bad == {n \in Nat : \E a \in lo .. hi, b \in lo .. hi : n = b - a /\ t[a][b] # end(a, b)}
<1>6. CASE Bad # {}
  <2>. HIDE DEF end, next
  <2>1. PICK n \in Bad : \A k \in Bad : n <= k
    <3>1. Bad \in SUBSET Nat
      OBVIOUS
    <3>. HIDE DEF Bad
    <3>. QED
      BY <1>6, <3>1, LeastNat
  <2>2. PICK a \in lo .. hi, b \in lo .. hi : n = b - a /\ t[a][b] # end(a, b)
    BY <2>1
  <2>3. CASE a >= b
    <3>1. t[a][b] = a
      BY <1>5, <2>3 DEF next
    <3>2. end(a, b) = a
      BY <2>3 DEF end
    <3>. QED
      BY <2>2, <3>1, <3>2
  <2>4. CASE a < b
    <3>1. PICK mid : mid = a + (b - a) \div 2
      OBVIOUS
    <3>2. /\ mid \in lo .. hi - 1 /\ mid + 1 \in lo .. hi /\ a <= mid /\ mid < b
          /\ end(a, b) = IF below[mid] THEN end(mid + 1, b) ELSE end(a, mid)
      BY <1>1, <2>4, <3>1
    <3>3. t[a][b] = IF below[mid] THEN t[mid + 1][b] ELSE t[a][mid]
      <4>1. t[a][b] = next(t, a, b) /\ ~ (a >= b)
        BY <1>5, <2>4
      <4>2. next(t, a, b) = IF below[mid] THEN t[mid + 1][b] ELSE t[a][mid]
        BY <3>1, <4>1, Zenon DEF next
      <4>. QED
        BY <4>1, <4>2
    <3>4. mid \in lo .. hi /\ b - (mid + 1) \in Nat /\ mid - a \in Nat
          /\ b - (mid + 1) < n /\ mid - a < n
      BY <2>2, <2>4, <3>2
    <3>5. b - (mid + 1) \notin Bad /\ mid - a \notin Bad
      <4>1. ~ (n <= b - (mid + 1)) /\ ~ (n <= mid - a)
        BY <2>2, <3>4
      <4>. HIDE DEF Bad
      <4>. QED
        BY <2>1, <4>1
    <3>6. t[mid + 1][b] = end(mid + 1, b) /\ t[a][mid] = end(a, mid)
      BY <3>2, <3>4, <3>5
    <3>. QED
      BY <2>2, <3>2, <3>3, <3>6
  <2>. QED
    BY <2>3, <2>4
<1>7. CASE Bad = {}
  <2>1. t[lo][hi] = end(lo, hi)
    <3>1. hi - lo \in Nat /\ lo \in lo .. hi /\ hi \in lo .. hi
      OBVIOUS
    <3>2. hi - lo \notin Bad
      BY <1>7, Zenon
    <3>. HIDE DEF end, next
    <3>. QED
      BY <3>1, <3>2
  <2>2. end(lo, hi) = m
    OBVIOUS
  <2>. QED
    BY <1>4, <2>1, <2>2
<1>. QED
  BY <1>6, <1>7

-----------------------------------------------------------------------------
(* The nodes above a label.                                                *)
Pow(d) == 2^d
Width(d) == Pow(Depth - d)
Above(l, d) == l \div Width(d)

(* Division rounds down.                                                   *)
LEMMA Quotient ==
  ASSUME NEW l \in Nat, NEW v \in Nat \ {0}
  PROVE  /\ l \div v \in Nat /\ (l \div v) * v <= l /\ l < (l \div v) * v + v
OBVIOUS

(* Division keeps the order.                                               *)
LEMMA QuotientOrder ==
  ASSUME NEW l \in Nat, NEW m \in Nat, l <= m, NEW v \in Nat \ {0}
  PROVE  l \div v <= m \div v
OBVIOUS

(* Half of a quotient is the quotient by the double.                       *)
LEMMA QuotientOfDouble ==
  ASSUME NEW l \in Nat, NEW v \in Nat \ {0}
  PROVE  l \div (2 * v) = (l \div v) \div 2
OBVIOUS

(* A number is twice its half, and its last bit.                           *)
LEMMA Halves ==
  ASSUME NEW q \in Nat
  PROVE  /\ q \div 2 \in Nat /\ (q % 2) \in {0, 1} /\ q = 2 * (q \div 2) + (q % 2)
OBVIOUS

(* Powers of two double.                                                   *)
LEMMA Powers ==
  ASSUME NEW d \in Nat
  PROVE  Pow(d) \in Nat \ {0} /\ Pow(d + 1) = 2 * Pow(d) /\ Pow(0) = 1
<1>1. \A n \in Nat : Pow(n) \in Nat /\ Pow(n + 1) = 2 * Pow(n)
  BY Doubling, Zenon DEF Pow
<1>2. Pow(0) = 1
  BY NoDoubling, Zenon DEF Pow
<1>. DEFINE Bad == {n \in Nat : Pow(n) = 0}
<1>3. CASE Bad # {}
  <2>1. PICK n \in Bad : \A k \in Bad : n <= k
    <3>1. Bad \in SUBSET Nat
      OBVIOUS
    <3>. HIDE DEF Bad
    <3>. QED
      BY <1>3, <3>1, LeastNat
  <2>2. n # 0
    BY <1>2
  <2>3. PICK m \in Nat : n = m + 1
    <3>1. n - 1 \in Nat /\ n = (n - 1) + 1
      BY <2>2
    <3>. QED
      BY <3>1
  <2>4. Pow(m) = 0
    BY <1>1, <2>3
  <2>. QED
    BY <2>1, <2>3, <2>4
<1>4. CASE Bad = {}
  BY <1>1, <1>2, <1>4
<1>. QED
  BY <1>3, <1>4

(* A node is as wide as its two halves.                                    *)
LEMMA Widths ==
  ASSUME NEW d \in 0 .. Depth
  PROVE  /\ Width(d) \in Nat \ {0} /\ Width(Depth) = 1 /\ Width(0) = Pow(Depth)
         /\ d < Depth => Width(d) = 2 * Width(d + 1)
<1>1. Depth - d \in Nat /\ Depth - Depth = 0 /\ Depth - 0 = Depth /\ 0 \in Nat
  BY ProtonTreeAssumption
<1>2. Width(d) \in Nat \ {0} /\ Width(Depth) = 1 /\ Width(0) = Pow(Depth)
  BY <1>1, Powers DEF Width
<1>3. ASSUME d < Depth PROVE Width(d) = 2 * Width(d + 1)
  <2>1. PICK k \in Nat : k = Depth - (d + 1) /\ k + 1 = Depth - d
    BY <1>3, ProtonTreeAssumption
  <2>. QED
    BY <2>1, Powers DEF Width
<1>. QED
  BY <1>2, <1>3

(* A label is a number of Depth bits.                                      *)
LEMMA Labelled == Label = 0 .. Pow(Depth) - 1 /\ Label \subseteq Nat
<1>1. Label = 0 .. Pow(Depth) - 1
  BY Zenon DEF Label, Pow
<1>. QED
  BY <1>1, Powers, ProtonTreeAssumption

(* Above is the path from the root: halving.                               *)
LEMMA Ancestors ==
  ASSUME NEW l \in Label, NEW d \in 0 .. Depth
  PROVE  /\ Above(l, d) \in Nat /\ Above(l, d) < Pow(d)
         /\ Above(l, Depth) = l /\ Above(l, 0) = 0
         /\ d < Depth => /\ BitAt(l, d + 1) \in {0, 1}
                         /\ Above(l, d + 1) = 2 * Above(l, d) + BitAt(l, d + 1)
<1>0. l \in Nat /\ l < Pow(Depth) /\ Pow(Depth) \in Nat \ {0}
  BY Labelled, Powers, ProtonTreeAssumption
<1>1. \A k \in 0 .. Depth : Above(l, k) \in Nat
  BY <1>0, Widths, Quotient DEF Above
<1>2. ASSUME NEW k \in 0 .. Depth, k < Depth
      PROVE  /\ BitAt(l, k + 1) \in {0, 1}
             /\ Above(l, k + 1) = 2 * Above(l, k) + BitAt(l, k + 1)
  <2>1. k + 1 \in 0 .. Depth
    BY <1>2, ProtonTreeAssumption
  <2>2. PICK v \in Nat \ {0} : v = Width(k + 1) /\ Width(k) = 2 * v
    BY <1>2, <2>1, Widths
  <2>3. PICK q \in Nat : q = l \div v
    BY <1>0
  <2>4. Above(l, k + 1) = q /\ Above(l, k) = q \div 2
    BY <1>0, <2>2, <2>3, QuotientOfDouble DEF Above
  <2>5. BitAt(l, k + 1) = (q % 2)
    <3>1. BitAt(l, k + 1) = (Above(l, k + 1) % 2)
      BY Zenon DEF BitAt, Above, Width, Pow
    <3>. QED
      BY <2>4, <3>1
  <2>. QED
    BY <2>4, <2>5, Halves
<1>3. Above(l, Depth) = l
  <2>1. l \div 1 = l
    BY <1>0
  <2>2. Depth \in 0 .. Depth
    BY ProtonTreeAssumption
  <2>. QED
    BY <2>1, <2>2, Widths DEF Above
<1>4. Above(l, 0) = 0
  <2>1. 0 \in 0 .. Depth
    BY ProtonTreeAssumption
  <2>2. PICK v \in Nat \ {0} : v = Pow(Depth)
    BY <1>0
  <2>3. l \div v = 0
    BY <1>0, <2>2
  <2>. QED
    BY <2>1, <2>2, <2>3, Widths DEF Above
<1>. DEFINE Bad == {k \in 0 .. Depth : ~ (Above(l, k) < Pow(k))}
<1>5. CASE Bad # {}
  <2>1. PICK k \in Bad : \A j \in Bad : k <= j
    <3>1. Bad \in SUBSET Nat
      BY ProtonTreeAssumption
    <3>. HIDE DEF Bad
    <3>. QED
      BY <1>5, <3>1, LeastNat
  <2>2. k # 0
    BY <1>4, Powers
  <2>3. PICK j \in 0 .. Depth : k = j + 1 /\ j < Depth
    <3>1. k - 1 \in 0 .. Depth /\ k = (k - 1) + 1 /\ k - 1 < Depth
      BY <2>2, ProtonTreeAssumption
    <3>. QED
      BY <3>1
  <2>4. Above(l, j) < Pow(j) /\ j \in Nat
    BY <2>1, <2>3, ProtonTreeAssumption
  <2>5. Pow(j) \in Nat /\ Pow(k) = 2 * Pow(j)
    BY <2>3, <2>4, Powers
  <2>6. Above(l, k) = 2 * Above(l, j) + BitAt(l, k) /\ BitAt(l, k) \in {0, 1}
    BY <1>2, <2>3
  <2>7. ~ (Above(l, k) < Pow(k))
    BY <2>1
  <2>8. Above(l, j) \in Nat
    BY <1>1
  <2>. QED
    BY <2>4, <2>5, <2>6, <2>7, <2>8
<1>6. CASE Bad = {}
  BY <1>1, <1>2, <1>3, <1>4, <1>6
<1>. QED
  BY <1>5, <1>6

(* The nodes above labels are in the order of the labels.                  *)
LEMMA AboveInOrder ==
  ASSUME NEW l \in Label, NEW m \in Label, l <= m, NEW d \in 0 .. Depth
  PROVE  Above(l, d) <= Above(m, d)
BY Labelled, Widths, QuotientOrder DEF Above

-----------------------------------------------------------------------------
(* A row is the joins of the row below it.                                 *)
LEMMA RowsJoin ==
  ASSUME NEW row, NEW bottom, NEW d \in Nat, IsRows(row, bottom, d)
  PROVE  /\ row[d] = bottom
         /\ \A k \in 0 .. d, s \in Nat : k < d /\ s < Pow(k) =>
              row[k][s] = Join(row[k + 1][2 * s], row[k + 1][2 * s + 1])
<1>1. ASSUME NEW k \in 0 .. d PROVE row[k] = IF k = d THEN bottom
           ELSE [s \in 0 .. 2^k - 1 |-> Join(row[k + 1][2 * s], row[k + 1][2 * s + 1])]
  BY Zenon DEF IsRows
<1>2. row[d] = bottom
  <2>1. d \in 0 .. d
    OBVIOUS
  <2>. QED
    BY <1>1, <2>1, Zenon
<1>3. ASSUME NEW k \in 0 .. d, NEW s \in Nat, k < d, s < Pow(k)
      PROVE  row[k][s] = Join(row[k + 1][2 * s], row[k + 1][2 * s + 1])
  <2>1. row[k] = [i \in 0 .. Pow(k) - 1 |-> Join(row[k + 1][2 * i], row[k + 1][2 * i + 1])]
    <3>1. k # d
      BY <1>3
    <3>. QED
      BY <1>1, <3>1, Zenon DEF Pow
  <2>2. s \in 0 .. Pow(k) - 1
    BY <1>3, Powers
  <2>. QED
    BY <2>1, <2>2
<1>. QED
  BY <1>2, <1>3

(* The tree over a set of leaves, no two of a label.                       *)
LeafSets == {S \in SUBSET [label : Label, value : Nat] :
               \A a, b \in S : a.label = b.label => a = b}
Bottom(S) == [l \in Label |-> LeafAt(S, l)]
IsTree(row, S) == IsRows(row, Bottom(S), Depth)

(* A tree has the leaves at the bottom.                                    *)
LEMMA Leaves ==
  ASSUME NEW S \in LeafSets, NEW l \in Label
  PROVE  /\ (\A leaf \in S : leaf.label # l) => LeafAt(S, l) = EmptyNode
         /\ \A leaf \in S : leaf.label = l => LeafAt(S, l) = LeafHash(leaf.value)
<1>1. ASSUME NEW leaf \in S, leaf.label = l PROVE LeafAt(S, l) = LeafHash(leaf.value)
  <2>1. PICK m : m = CHOOSE q \in S : q.label = l
    OBVIOUS
  <2>2. m \in S /\ m.label = l
    BY <1>1, <2>1
  <2>3. m = leaf
    BY <1>1, <2>2 DEF LeafSets
  <2>. QED
    BY <1>1, <2>1, <2>3, Zenon DEF LeafAt
<1>2. ASSUME \A leaf \in S : leaf.label # l PROVE LeafAt(S, l) = EmptyNode
  BY <1>2, Zenon DEF LeafAt
<1>. QED
  BY <1>1, <1>2

(* A node of a tree is the join of its halves.                             *)
LEMMA TreeRows ==
  ASSUME NEW row, NEW S \in LeafSets, IsTree(row, S)
  PROVE  /\ \A l \in Label : row[Depth][l] = LeafAt(S, l)
         /\ \A k \in 0 .. Depth, p \in Nat : k < Depth /\ p < Pow(k) =>
              /\ row[k][p] = Join(row[k + 1][2 * p], row[k + 1][2 * p + 1])
              /\ 2 * p < Pow(k + 1) /\ 2 * p + 1 < Pow(k + 1)
<1>1. Depth \in Nat
  BY ProtonTreeAssumption
<1>2. \A l \in Label : row[Depth][l] = LeafAt(S, l)
  <2>1. row[Depth] = Bottom(S)
    BY <1>1, RowsJoin DEF IsTree
  <2>. QED
    BY <2>1, Zenon DEF Bottom
<1>3. ASSUME NEW k \in 0 .. Depth, NEW p \in Nat, k < Depth, p < Pow(k)
      PROVE  row[k][p] = Join(row[k + 1][2 * p], row[k + 1][2 * p + 1])
  BY <1>1, <1>3, RowsJoin DEF IsTree
<1>4. ASSUME NEW k \in 0 .. Depth, NEW p \in Nat, k < Depth, p < Pow(k)
      PROVE  2 * p < Pow(k + 1) /\ 2 * p + 1 < Pow(k + 1)
  BY <1>1, <1>4, Powers
<1>. QED
  BY <1>2, <1>3, <1>4

(* Over no leaf there is an empty node.                                    *)
LEMMA EmptyNodes ==
  ASSUME NEW row, NEW S \in LeafSets, IsTree(row, S),
         NEW d \in 0 .. Depth, NEW p \in Nat, p < Pow(d),
         \A leaf \in S : Above(leaf.label, d) # p
  PROVE  row[d][p] = EmptyNode
<1>. DEFINE free(k, q) == \A leaf \in S : Above(leaf.label, k) # q
            Bad == {k \in 0 .. Depth : \E q \in Nat : q < Pow(k) /\ free(k, q) /\ row[k][q] # EmptyNode}
<1>1. \A leaf \in S : leaf.label \in Label
  BY DEF LeafSets
<1>2. CASE Bad # {}
  <2>1. PICK k \in Bad : \A j \in Bad : j <= k
    <3>1. Bad \in SUBSET Int /\ Depth \in Int /\ \A j \in Bad : j <= Depth
      BY ProtonTreeAssumption
    <3>. HIDE DEF Bad
    <3>. QED
      BY <1>2, <3>1, GreatestInt
  <2>2. PICK q \in Nat : q < Pow(k) /\ free(k, q) /\ row[k][q] # EmptyNode
    BY <2>1
  <2>3. CASE k = Depth
    <3>1. q \in Label
      <4>1. PICK n : n = Pow(Depth)
        OBVIOUS
      <4>2. n \in Nat /\ Label = 0 .. n - 1
        BY <4>1, Labelled, Powers, ProtonTreeAssumption
      <4>3. q \in Nat /\ q < n
        BY <2>2, <2>3, <4>1
      <4>. QED
        BY <4>2, <4>3
    <3>2. \A leaf \in S : leaf.label # q
      BY <1>1, <2>2, <2>3, Ancestors
    <3>3. row[k][q] = LeafAt(S, q)
      BY <2>3, <3>1, TreeRows
    <3>. QED
      BY <2>2, <3>1, <3>2, <3>3, Leaves
  <2>4. CASE k # Depth
    <3>1. k < Depth /\ k \in 0 .. Depth /\ k + 1 \in 0 .. Depth /\ k + 1 \notin Bad
      <4>1. k < Depth /\ k \in 0 .. Depth /\ k + 1 \in 0 .. Depth /\ ~ (k + 1 <= k)
        BY <2>1, <2>4, ProtonTreeAssumption
      <4>. HIDE DEF Bad
      <4>. QED
        BY <2>1, <4>1
    <3>2. /\ row[k][q] = Join(row[k + 1][2 * q], row[k + 1][2 * q + 1])
          /\ 2 * q < Pow(k + 1) /\ 2 * q + 1 < Pow(k + 1)
      BY <2>2, <3>1, TreeRows
    <3>3. ASSUME NEW c \in {2 * q, 2 * q + 1} PROVE row[k + 1][c] = EmptyNode
      <4>1. c \in Nat /\ c < Pow(k + 1)
        BY <3>2
      <4>2. ASSUME NEW leaf \in S PROVE Above(leaf.label, k + 1) # c
        <5>1. leaf.label \in Label /\ Above(leaf.label, k) # q
          BY <1>1, <2>2
        <5>2. PICK a, b : a = Above(leaf.label, k) /\ b = BitAt(leaf.label, k + 1)
          OBVIOUS
        <5>3. a \in Nat /\ b \in {0, 1} /\ Above(leaf.label, k + 1) = 2 * a + b
          BY <3>1, <5>1, <5>2, Ancestors
        <5>. QED
          BY <5>1, <5>2, <5>3
      <4>. QED
        BY <3>1, <4>1, <4>2
    <3>. QED
      BY <2>2, <3>2, <3>3 DEF Join
  <2>. QED
    BY <2>3, <2>4
<1>3. CASE Bad = {}
  BY <1>3
<1>. QED
  BY <1>2, <1>3

(* Over a lone leaf there is that leaf, lifted.                            *)
LEMMA LoneLeaf ==
  ASSUME NEW row, NEW S \in LeafSets, IsTree(row, S),
         NEW d \in 0 .. Depth, NEW leaf \in S,
         \A m \in S : Above(m.label, d) = Above(leaf.label, d) => m = leaf
  PROVE  row[d][Above(leaf.label, d)] = Lifted(leaf, d)
<1>. DEFINE at(k) == Above(leaf.label, k)
            lone(k) == \A m \in S : Above(m.label, k) = at(k) => m = leaf
<1>1. PICK up : IsLift(up, leaf, d) /\ Lifted(leaf, d) = up[d]
  BY LiftedIsALift
<1>2. ASSUME NEW k \in d .. Depth
      PROVE  up[k] = IF k = Depth THEN LeafHash(leaf.value) ELSE Combine(up[k + 1], leaf.label, k + 1)
  <2>1. IsLift(up, leaf, d)
    BY <1>1
  <2>. QED
    BY <2>1, Zenon DEF IsLift
<1>3. \A m \in S : m.label \in Label
  BY DEF LeafSets
<1>. DEFINE Bad == {k \in d .. Depth : lone(k) /\ (row[k][at(k)] # up[k] \/ up[k] = EmptyNode)}
<1>4. CASE Bad # {}
  <2>1. PICK k \in Bad : \A j \in Bad : j <= k
    <3>1. Bad \in SUBSET Int /\ Depth \in Int /\ \A j \in Bad : j <= Depth
      BY ProtonTreeAssumption
    <3>. HIDE DEF Bad
    <3>. QED
      BY <1>4, <3>1, GreatestInt
  <2>2. lone(k) /\ (row[k][at(k)] # up[k] \/ up[k] = EmptyNode) /\ k \in d .. Depth /\ k \in 0 .. Depth
    BY <2>1
  <2>3. CASE k = Depth
    <3>1. up[k] = LeafHash(leaf.value) /\ at(k) = leaf.label
      BY <1>2, <1>3, <2>2, <2>3, Ancestors
    <3>2. row[k][leaf.label] = LeafHash(leaf.value)
      BY <1>3, <2>3, TreeRows, Leaves
    <3>3. LeafHash(leaf.value) # EmptyNode
      BY DEF LeafHash, EmptyNode
    <3>. HIDE DEF at
    <3>. QED
      BY <2>2, <3>1, <3>2, <3>3
  <2>4. CASE k # Depth
    <3>1. k < Depth /\ k + 1 \in d .. Depth /\ k + 1 \in 0 .. Depth /\ k + 1 \notin Bad
      <4>1. k < Depth /\ k + 1 \in d .. Depth /\ k + 1 \in 0 .. Depth /\ ~ (k + 1 <= k)
        BY <2>2, <2>4, ProtonTreeAssumption
      <4>. HIDE DEF Bad
      <4>. QED
        BY <2>1, <4>1
    <3>2. PICK q, b : q = at(k) /\ b = BitAt(leaf.label, k + 1)
      OBVIOUS
    <3>3. q \in Nat /\ q < Pow(k) /\ b \in {0, 1} /\ at(k + 1) = 2 * q + b
      BY <1>3, <2>2, <3>1, <3>2, Ancestors
    <3>4. ASSUME NEW m \in S, Above(m.label, k + 1) \in {2 * q, 2 * q + 1} PROVE m = leaf
      <4>1. PICK a, c : a = Above(m.label, k) /\ c = BitAt(m.label, k + 1)
        OBVIOUS
      <4>2. a \in Nat /\ c \in {0, 1} /\ Above(m.label, k + 1) = 2 * a + c
        BY <1>3, <2>2, <3>1, <4>1, Ancestors
      <4>3. a = q
        BY <3>3, <3>4, <4>2
      <4>. QED
        BY <2>2, <3>2, <4>1, <4>3
    <3>5. lone(k + 1)
      BY <3>3, <3>4
    <3>6. row[k + 1][2 * q + b] = up[k + 1] /\ up[k + 1] # EmptyNode
      <4>1. row[k + 1][at(k + 1)] = up[k + 1] /\ up[k + 1] # EmptyNode
        BY <3>1, <3>5
      <4>. QED
        BY <3>3, <4>1
    <3>7. /\ row[k][q] = Join(row[k + 1][2 * q], row[k + 1][2 * q + 1])
          /\ 2 * q < Pow(k + 1) /\ 2 * q + 1 < Pow(k + 1)
      BY <2>2, <3>1, <3>3, TreeRows
    <3>8. up[k] = Combine(up[k + 1], leaf.label, k + 1)
      BY <1>2, <2>2, <2>4
    <3>9. up[k] = IF b = 0 THEN <<up[k + 1], EmptyNode>> ELSE <<EmptyNode, up[k + 1]>>
      BY <3>2, <3>8 DEF Combine
    <3>10. ASSUME NEW c \in {2 * q, 2 * q + 1}, c # 2 * q + b PROVE row[k + 1][c] = EmptyNode
      <4>1. \A m \in S : Above(m.label, k + 1) # c
        <5>1. \A m \in S : Above(m.label, k + 1) = c => m = leaf
          BY <3>4
        <5>2. Above(leaf.label, k + 1) # c
          BY <3>3, <3>10
        <5>. QED
          BY <5>1, <5>2
      <4>2. c \in Nat /\ c < Pow(k + 1)
        BY <3>3, <3>7
      <4>. QED
        BY <3>1, <4>1, <4>2, EmptyNodes
    <3>11. row[k][q] = up[k]
      <4>1. CASE b = 0
        <5>1. row[k + 1][2 * q] = up[k + 1] /\ row[k + 1][2 * q + 1] = EmptyNode
          BY <3>3, <3>6, <3>10, <4>1
        <5>. QED
          BY <3>6, <3>7, <3>9, <4>1, <5>1 DEF Join
      <4>2. CASE b = 1
        <5>1. row[k + 1][2 * q + 1] = up[k + 1] /\ row[k + 1][2 * q] = EmptyNode
          BY <3>3, <3>6, <3>10, <4>2
        <5>. QED
          BY <3>6, <3>7, <3>9, <4>2, <5>1 DEF Join
      <4>. QED
        BY <3>3, <4>1, <4>2
    <3>12. up[k] # EmptyNode
      BY <3>9 DEF EmptyNode
    <3>. QED
      BY <2>2, <3>2, <3>11, <3>12
  <2>. QED
    BY <2>3, <2>4
<1>5. CASE Bad = {}
  <2>1. d \in d .. Depth
    BY ProtonTreeAssumption
  <2>2. row[d][at(d)] = up[d]
    BY <1>5, <2>1
  <2>. QED
    BY <1>1, <2>2
<1>. QED
  BY <1>4, <1>5

-----------------------------------------------------------------------------
(* Leaves in the order of their labels.                                    *)
LeafRecords == [label : Label, value : Nat]
LeafLists == {t \in Seq(LeafRecords) : CheckSorted(t)}

(* Neighbours in order put all in order.                                   *)
LEMMA Ascending ==
  ASSUME NEW X, \A x \in X : x.label \in Nat, NEW t \in Seq(X), CheckSorted(t),
         NEW i \in 1 .. Len(t), NEW j \in 1 .. Len(t), i < j
  PROVE  t[i].label < t[j].label
<1>1. Len(t) \in Nat /\ \A k \in 1 .. Len(t) : t[k].label \in Nat
  OBVIOUS
<1>2. PICK n \in Nat : n = Len(t)
  BY <1>1
<1>3. \A k \in 2 .. n : t[k - 1].label < t[k].label
  BY <1>2 DEF CheckSorted
<1>. DEFINE Bad == {k \in 1 .. n : i < k /\ ~ (t[i].label < t[k].label)}
<1>4. CASE Bad # {}
  <2>1. PICK k \in Bad : \A m \in Bad : k <= m
    <3>1. Bad \in SUBSET Nat
      OBVIOUS
    <3>. HIDE DEF Bad
    <3>. QED
      BY <1>4, <3>1, LeastNat
  <2>2. k \in 1 .. n /\ i < k /\ ~ (t[i].label < t[k].label) /\ i \in 1 .. n
    BY <1>2, <2>1
  <2>3. t[k - 1].label < t[k].label /\ k - 1 \in 1 .. n /\ ~ (k <= k - 1)
    BY <1>3, <2>2
  <2>4. k - 1 \notin Bad
    <3>. HIDE DEF Bad
    <3>. QED
      BY <2>1, <2>3
  <2>5. k - 1 = i \/ t[i].label < t[k - 1].label
    BY <2>2, <2>3, <2>4
  <2>6. t[i].label \in Nat /\ t[k].label \in Nat /\ t[k - 1].label \in Nat
    BY <1>1, <1>2, <2>2, <2>3
  <2>. QED
    BY <2>2, <2>3, <2>5, <2>6
<1>5. CASE Bad = {}
  BY <1>2, <1>5
<1>. QED
  BY <1>4, <1>5

(* A list of leaves in order: one leaf of a label.                         *)
LEMMA ListedLeaves ==
  ASSUME NEW t \in LeafLists
  PROVE  /\ Range(t) \in LeafSets
         /\ Range(t) = {t[i] : i \in 1 .. Len(t)}
         /\ Len(t) \in Nat /\ DOMAIN t = 1 .. Len(t)
         /\ \A i \in 1 .. Len(t) : t[i] \in LeafRecords /\ t[i].label \in Label
         /\ \A i, j \in 1 .. Len(t) : i < j => t[i].label < t[j].label
<1>1. t \in Seq(LeafRecords) /\ CheckSorted(t)
  BY DEF LeafLists
<1>2. Len(t) \in Nat /\ DOMAIN t = 1 .. Len(t) /\ \A i \in 1 .. Len(t) : t[i] \in LeafRecords
  BY <1>1
<1>3. \A x \in LeafRecords : x.label \in Nat /\ x.label \in Label
  BY Labelled DEF LeafRecords
<1>4. \A i, j \in 1 .. Len(t) : i < j => t[i].label < t[j].label
  BY <1>1, <1>3, Ascending
<1>5. Range(t) = {t[i] : i \in 1 .. Len(t)}
  BY <1>2 DEF Range
<1>6. Range(t) \in LeafSets
  <2>1. Range(t) \in SUBSET LeafRecords
    BY <1>2, <1>5
  <2>2. ASSUME NEW i \in 1 .. Len(t), NEW j \in 1 .. Len(t), t[i].label = t[j].label
        PROVE  i = j
    <3>1. t[i].label \in Nat /\ t[j].label \in Nat
      BY <1>2, <1>3
    <3>2. ~ (i < j) /\ ~ (j < i)
      BY <1>4, <2>2, <3>1
    <3>. QED
      BY <1>2, <3>2
  <2>. QED
    BY <1>5, <2>1, <2>2 DEF LeafSets, LeafRecords
<1>. QED
  BY <1>2, <1>3, <1>4, <1>5, <1>6

(* partition: the leaves of a node are split into those of its halves.     *)
LEMMA PartitionSplits ==
  ASSUME NEW t \in LeafLists, NEW lo \in 1 .. Len(t) + 1, NEW hi \in 1 .. Len(t) + 1, lo <= hi,
         NEW d \in 0 .. Depth, d < Depth, NEW p \in Nat,
         \A i \in 1 .. Len(t) : (lo <= i /\ i < hi) <=> Above(t[i].label, d) = p
  PROVE  LET mid == Partition(t, lo, hi, d)
         IN  /\ mid \in lo .. hi
             /\ \A i \in 1 .. Len(t) :
                  /\ (lo <= i /\ i < mid) <=> Above(t[i].label, d + 1) = 2 * p
                  /\ (mid <= i /\ i < hi) <=> Above(t[i].label, d + 1) = 2 * p + 1
<1>. DEFINE below == [i \in DOMAIN t |-> BitAt(t[i].label, d + 1) = 0]
<1>1. PICK n \in Nat : n = Len(t) /\ DOMAIN t = 1 .. n
  BY ListedLeaves
<1>2. \A i \in 1 .. n : t[i].label \in Label
  BY <1>1, ListedLeaves
<1>3. lo \in Nat /\ hi \in Nat /\ \A i \in lo .. hi - 1 : i \in 1 .. n
  BY <1>1
<1>4. ASSUME NEW i \in 1 .. n
      PROVE  LET a == Above(t[i].label, d)
                 b == BitAt(t[i].label, d + 1)
             IN  /\ a \in Nat /\ b \in {0, 1} /\ Above(t[i].label, d + 1) = 2 * a + b
                 /\ below[i] = (b = 0)
  BY <1>1, <1>2, Ancestors
<1>5. ASSUME NEW i \in lo .. hi - 1, NEW j \in lo .. hi - 1, i <= j, below[j] PROVE below[i]
  <2>1. i \in 1 .. n /\ j \in 1 .. n
    BY <1>3
  <2>2. Above(t[i].label, d) = p /\ Above(t[j].label, d) = p
    BY <1>1, <1>3, <2>1
  <2>3. PICK b, c : b = BitAt(t[i].label, d + 1) /\ c = BitAt(t[j].label, d + 1)
    OBVIOUS
  <2>4. /\ b \in {0, 1} /\ c \in {0, 1} /\ below[i] = (b = 0) /\ below[j] = (c = 0)
        /\ Above(t[i].label, d + 1) = 2 * p + b /\ Above(t[j].label, d + 1) = 2 * p + c
    BY <1>4, <2>1, <2>2, <2>3
  <2>5. c = 0
    BY <1>5, <2>4
  <2>6. t[i].label <= t[j].label
    <3>1. i = j \/ t[i].label < t[j].label
      BY <1>1, <1>5, <2>1, ListedLeaves
    <3>2. t[i].label \in Nat /\ t[j].label \in Nat
      BY <1>2, <2>1, Labelled
    <3>. QED
      BY <3>1, <3>2
  <2>7. Above(t[i].label, d + 1) <= Above(t[j].label, d + 1)
    <3>1. d + 1 \in 0 .. Depth
      BY ProtonTreeAssumption
    <3>. QED
      BY <1>2, <2>1, <2>6, <3>1, AboveInOrder
  <2>8. 2 * p + b <= 2 * p + c
    BY <2>4, <2>7
  <2>9. b = 0
    BY <2>4, <2>5, <2>8
  <2>. QED
    BY <2>4, <2>9
<1>. HIDE DEF below
<1>6. PICK mid \in lo .. hi : \A i \in lo .. hi - 1 : below[i] <=> i < mid
  BY <1>3, <1>5, Cut
<1>7. Partition(t, lo, hi, d) = mid
  <2>1. Search(below, lo, hi) = mid
    BY <1>3, <1>6, SearchFinds
  <2>. QED
    BY <2>1 DEF Partition, below
<1>8. ASSUME NEW i \in 1 .. n
      PROVE  /\ (lo <= i /\ i < mid) <=> Above(t[i].label, d + 1) = 2 * p
             /\ (mid <= i /\ i < hi) <=> Above(t[i].label, d + 1) = 2 * p + 1
  <2>1. PICK a, b : a = Above(t[i].label, d) /\ b = BitAt(t[i].label, d + 1)
    OBVIOUS
  <2>2. /\ a \in Nat /\ b \in {0, 1} /\ Above(t[i].label, d + 1) = 2 * a + b
        /\ below[i] = (b = 0)
    BY <1>4, <2>1
  <2>3. (lo <= i /\ i < hi) <=> a = p
    BY <1>1, <2>1
  <2>4. lo <= i /\ i < hi => (b = 0 <=> i < mid)
    <3>1. lo <= i /\ i < hi => i \in lo .. hi - 1
      BY <1>3
    <3>. QED
      BY <1>6, <2>2, <3>1
  <2>5. mid \in Nat /\ lo <= mid /\ mid <= hi
    BY <1>3, <1>6
  <2>6. CASE a = p
    <3>1. lo <= i /\ i < hi /\ (b = 0 <=> i < mid)
      BY <2>3, <2>4, <2>6
    <3>2. Above(t[i].label, d + 1) = 2 * p + b
      BY <2>2, <2>6
    <3>. QED
      BY <1>3, <2>2, <2>5, <3>1, <3>2
  <2>7. CASE a # p
    <3>1. ~ (lo <= i /\ i < hi)
      BY <2>3, <2>7
    <3>2. 2 * a + b # 2 * p /\ 2 * a + b # 2 * p + 1
      BY <2>2, <2>7
    <3>. QED
      BY <1>3, <2>2, <2>5, <3>1, <3>2
  <2>. QED
    BY <2>6, <2>7
<1>. QED
  BY <1>1, <1>6, <1>7, <1>8

(* subtree computes the node whose leaves it is given.                     *)
LEMMA SubtreeIsANode ==
  ASSUME NEW t \in LeafLists, NEW row, IsTree(row, Range(t)),
         NEW first \in 1 .. Len(t) + 1, NEW past \in 1 .. Len(t) + 1, first <= past,
         NEW d \in 0 .. Depth, NEW p \in Nat, p < Pow(d),
         \A i \in 1 .. Len(t) : (first <= i /\ i < past) <=> Above(t[i].label, d) = p
  PROVE  Subtree(t, first, past, d) = row[d][p]
<1>. DEFINE covers(lo, hi, k, q) ==
              \A i \in 1 .. Len(t) : (lo <= i /\ i < hi) <=> Above(t[i].label, k) = q
            Bad(sub) == {k \in d .. Depth : \E lo, hi \in first .. past : \E q \in Nat :
                           /\ lo <= hi /\ q < Pow(k) /\ covers(lo, hi, k, q)
                           /\ sub[k][lo][hi] # row[k][q]}
<1>1. first \in Nat /\ past \in Nat /\ Len(t) \in Nat /\ first .. past \subseteq 1 .. Len(t) + 1
  BY ListedLeaves
<1>2. PICK sub : IsSub(sub, t, first, past, d) /\ Subtree(t, first, past, d) = sub[d][first][past]
  BY <1>1, SubtreeIsASub
<1>3. ASSUME NEW k \in d .. Depth, NEW lo \in first .. past, NEW hi \in first .. past
      PROVE  sub[k][lo][hi] = IF lo = hi THEN EmptyNode
                              ELSE IF hi - lo = 1 \/ k = Depth THEN Lifted(t[lo], k)
                              ELSE Join(sub[k + 1][lo][Partition(t, lo, hi, k)],
                                        sub[k + 1][Partition(t, lo, hi, k)][hi])
  <2>1. sub[k] = SubtreesAt(t, first, past, k, sub[k + 1])
    BY <1>2, Zenon DEF IsSub
  <2>. QED
    BY <2>1 DEF SubtreesAt
<1>4. /\ Range(t) \in LeafSets /\ Range(t) = {t[i] : i \in 1 .. Len(t)}
      /\ \A i \in 1 .. Len(t) : t[i].label \in Label
  BY ListedLeaves
<1>5. CASE Bad(sub) # {}
  <2>1. PICK k \in Bad(sub) : \A j \in Bad(sub) : j <= k
    <3>. HIDE DEF covers
    <3>1. Bad(sub) \in SUBSET Int /\ Depth \in Int /\ \A j \in Bad(sub) : j <= Depth
      BY ProtonTreeAssumption
    <3>. HIDE DEF Bad
    <3>. QED
      BY <1>5, <3>1, GreatestInt
  <2>2. PICK lo \in first .. past, hi \in first .. past, q \in Nat :
           lo <= hi /\ q < Pow(k) /\ covers(lo, hi, k, q) /\ sub[k][lo][hi] # row[k][q]
    <3>. HIDE DEF covers
    <3>. QED
      BY <2>1
  <2>3. /\ lo \in 1 .. Len(t) + 1 /\ hi \in 1 .. Len(t) + 1 /\ lo \in Nat /\ hi \in Nat
        /\ k \in d .. Depth /\ k \in 0 .. Depth
    <3>1. k \in d .. Depth
      BY <2>1
    <3>. QED
      BY <1>1, <3>1, ProtonTreeAssumption
  <2>. HIDE DEF Bad
  <2>4. CASE lo = hi
    <3>1. ASSUME NEW leaf \in Range(t) PROVE Above(leaf.label, k) # q
      <4>1. PICK i \in 1 .. Len(t) : leaf = t[i]
        BY <1>4
      <4>. QED
        BY <2>2, <2>3, <2>4, <4>1
    <3>2. row[k][q] = EmptyNode
      BY <1>4, <2>2, <2>3, <3>1, EmptyNodes
    <3>3. sub[k][lo][hi] = EmptyNode
      BY <1>3, <2>3, <2>4
    <3>. QED
      BY <2>2, <3>2, <3>3
  <2>5. CASE hi - lo = 1
    <3>1. lo \in 1 .. Len(t) /\ \A i \in 1 .. Len(t) : lo <= i /\ i < hi => i = lo
      BY <1>1, <2>3, <2>5
    <3>2. Above(t[lo].label, k) = q /\ t[lo] \in Range(t)
      BY <1>4, <2>2, <2>3, <2>5, <3>1
    <3>3. ASSUME NEW m \in Range(t), Above(m.label, k) = q PROVE m = t[lo]
      <4>1. PICK i \in 1 .. Len(t) : m = t[i]
        BY <1>4
      <4>. QED
        BY <2>2, <3>1, <3>3, <4>1
    <3>4. row[k][q] = Lifted(t[lo], k)
      BY <1>4, <2>3, <3>2, <3>3, LoneLeaf
    <3>5. sub[k][lo][hi] = Lifted(t[lo], k)
      <4>1. lo # hi
        BY <2>3, <2>5
      <4>. QED
        BY <1>3, <2>3, <2>5, <4>1, Zenon
    <3>. QED
      BY <2>2, <3>4, <3>5
  <2>6. CASE lo # hi /\ hi - lo # 1
    <3>1. lo + 1 < hi /\ lo \in 1 .. Len(t) /\ lo + 1 \in 1 .. Len(t)
      BY <1>1, <2>2, <2>3, <2>6
    <3>2. k # Depth
      <4>1. CASE k = Depth
        <5>1. Above(t[lo].label, k) = q /\ Above(t[lo + 1].label, k) = q
          BY <2>2, <2>3, <3>1
        <5>2. t[lo].label = q /\ t[lo + 1].label = q
          BY <1>4, <2>3, <3>1, <4>1, <5>1, Ancestors
        <5>3. t[lo].label < t[lo + 1].label
          BY <2>3, <3>1, ListedLeaves
        <5>. QED
          BY <5>2, <5>3
      <4>. QED
        BY <4>1
    <3>3. k < Depth /\ k + 1 \in d .. Depth /\ ~ (k + 1 <= k)
      BY <2>3, <3>2, ProtonTreeAssumption
    <3>4. k + 1 \notin Bad(sub)
      BY <2>1, <3>3
    <3>5. PICK mid : mid = Partition(t, lo, hi, k)
      OBVIOUS
    <3>6. /\ mid \in lo .. hi
          /\ covers(lo, mid, k + 1, 2 * q)
          /\ covers(mid, hi, k + 1, 2 * q + 1)
      BY <2>2, <2>3, <3>3, <3>5, PartitionSplits
    <3>7. /\ row[k][q] = Join(row[k + 1][2 * q], row[k + 1][2 * q + 1])
          /\ 2 * q < Pow(k + 1) /\ 2 * q + 1 < Pow(k + 1)
      BY <1>4, <2>2, <2>3, <3>3, TreeRows
    <3>8. mid \in first .. past /\ lo <= mid /\ mid <= hi
      BY <1>1, <2>2, <2>3, <3>6
    <3>9. \A x, y \in first .. past : \A r \in Nat :
             x <= y /\ r < Pow(k + 1) /\ covers(x, y, k + 1, r) => sub[k + 1][x][y] = row[k + 1][r]
      <4>. HIDE DEF covers
      <4>. QED
        BY <3>3, <3>4 DEF Bad
    <3>10. sub[k + 1][lo][mid] = row[k + 1][2 * q] /\ sub[k + 1][mid][hi] = row[k + 1][2 * q + 1]
      <4>. HIDE DEF covers
      <4>1. 2 * q \in Nat /\ 2 * q + 1 \in Nat
        BY <2>2
      <4>. QED
        BY <2>2, <3>6, <3>7, <3>8, <3>9, <4>1
    <3>11. sub[k][lo][hi] = Join(sub[k + 1][lo][mid], sub[k + 1][mid][hi])
      BY <1>3, <2>3, <2>6, <3>2, <3>5
    <3>. QED
      BY <2>2, <3>7, <3>10, <3>11
  <2>. QED
    BY <2>4, <2>5, <2>6
<1>6. CASE Bad(sub) = {}
  <2>1. first \in first .. past /\ past \in first .. past /\ d \in d .. Depth
    BY <1>1, ProtonTreeAssumption
  <2>2. covers(first, past, d, p)
    OBVIOUS
  <2>3. sub[d][first][past] = row[d][p]
    <3>. HIDE DEF covers
    <3>. QED
      BY <1>6, <2>1, <2>2
  <2>. QED
    BY <1>2, <2>3
<1>. QED
  BY <1>5, <1>6

(* Over every set of leaves there is a tree.                               *)
LEMMA TreeExists ==
  ASSUME NEW S
  PROVE  \E row : IsTree(row, S) /\ SparseRoot(S) = row[0][0]
BY JoinUpIsARoot, ProtonTreeAssumption DEF IsTree, Bottom, SparseRoot

(* The root in one piece.                                                  *)
LEMMA OnePiece ==
  ASSUME NEW t \in LeafLists
  PROVE  TreeRoot(t) = SparseRoot(Range(t))
<1>1. PICK row : IsTree(row, Range(t)) /\ SparseRoot(Range(t)) = row[0][0]
  BY TreeExists
<1>2. /\ Len(t) \in Nat /\ 1 \in 1 .. Len(t) + 1 /\ Len(t) + 1 \in 1 .. Len(t) + 1 /\ 1 <= Len(t) + 1
      /\ 0 \in 0 .. Depth /\ 0 < Pow(0)
  <2>1. 0 \in Nat /\ Pow(0) = 1
    BY Powers
  <2>2. Len(t) \in Nat
    BY ListedLeaves
  <2>. QED
    BY <2>1, <2>2, ProtonTreeAssumption
<1>3. ASSUME NEW i \in 1 .. Len(t)
      PROVE  (1 <= i /\ i < Len(t) + 1) <=> Above(t[i].label, 0) = 0
  BY <1>2, ListedLeaves, Ancestors
<1>. QED
  BY <1>1, <1>2, <1>3, SubtreeIsANode DEF TreeRoot

(* Above a row there is one tree.                                          *)
LEMMA SameTop ==
  ASSUME NEW row, NEW S \in LeafSets, IsTree(row, S),
         NEW d \in 0 .. Depth, NEW bottom, NEW top, IsRows(top, bottom, d),
         \A s \in Nat : s < Pow(d) => bottom[s] = row[d][s]
  PROVE  top[0][0] = row[0][0]
<1>. DEFINE Bad == {k \in 0 .. d : \E s \in Nat : s < Pow(k) /\ top[k][s] # row[k][s]}
<1>1. d \in Nat /\ 0 \in 0 .. d /\ d <= Depth
  BY ProtonTreeAssumption
<1>2. /\ top[d] = bottom
      /\ \A k \in 0 .. d, s \in Nat : k < d /\ s < Pow(k) =>
           top[k][s] = Join(top[k + 1][2 * s], top[k + 1][2 * s + 1])
  BY <1>1, RowsJoin
<1>3. CASE Bad # {}
  <2>1. PICK k \in Bad : \A j \in Bad : j <= k
    <3>1. Bad \in SUBSET Int /\ d \in Int /\ \A j \in Bad : j <= d
      BY <1>1
    <3>. HIDE DEF Bad
    <3>. QED
      BY <1>3, <3>1, GreatestInt
  <2>2. PICK s \in Nat : s < Pow(k) /\ top[k][s] # row[k][s]
    BY <2>1
  <2>3. k \in 0 .. d /\ k # d
    BY <1>2, <2>1, <2>2
  <2>4. k < d /\ k + 1 \in 0 .. d /\ k \in 0 .. Depth /\ k < Depth /\ k + 1 \notin Bad
    <3>1. k < d /\ k + 1 \in 0 .. d /\ k \in 0 .. Depth /\ k < Depth /\ ~ (k + 1 <= k)
      BY <1>1, <2>3, ProtonTreeAssumption
    <3>. HIDE DEF Bad
    <3>. QED
      BY <2>1, <3>1
  <2>5. /\ row[k][s] = Join(row[k + 1][2 * s], row[k + 1][2 * s + 1])
        /\ 2 * s < Pow(k + 1) /\ 2 * s + 1 < Pow(k + 1)
    BY <2>2, <2>4, TreeRows
  <2>6. top[k][s] = Join(top[k + 1][2 * s], top[k + 1][2 * s + 1])
    BY <1>2, <2>2, <2>3, <2>4
  <2>7. top[k + 1][2 * s] = row[k + 1][2 * s] /\ top[k + 1][2 * s + 1] = row[k + 1][2 * s + 1]
    <3>1. 2 * s \in Nat /\ 2 * s + 1 \in Nat
      BY <2>2
    <3>. QED
      BY <2>4, <2>5, <3>1
  <2>. QED
    BY <2>2, <2>5, <2>6, <2>7
<1>4. CASE Bad = {}
  <2>1. 0 < Pow(0)
    BY Powers
  <2>. QED
    BY <1>1, <1>4, <2>1
<1>. QED
  BY <1>3, <1>4

(* Each shard begins at the first leaf whose top bits reach it.            *)
LEMMA LowerBoundSplits ==
  ASSUME NEW t \in LeafLists, NEW d \in 0 .. Depth, NEW s \in Nat
  PROVE  /\ LowerBound(t, s, d) \in 1 .. Len(t) + 1
         /\ \A i \in 1 .. Len(t) : i < LowerBound(t, s, d) <=> Above(t[i].label, d) < s
<1>. DEFINE below == [i \in DOMAIN t |-> Above(t[i].label, d) < s]
<1>1. PICK n \in Nat : n = Len(t) /\ DOMAIN t = 1 .. n
  BY ListedLeaves
<1>2. \A i \in 1 .. n : t[i].label \in Label /\ below[i] = (Above(t[i].label, d) < s)
  BY <1>1, ListedLeaves
<1>3. ASSUME NEW i \in 1 .. n, NEW j \in 1 .. n, i <= j, below[j] PROVE below[i]
  <2>1. t[i].label <= t[j].label
    <3>1. i = j \/ t[i].label < t[j].label
      BY <1>1, <1>3, ListedLeaves
    <3>2. t[i].label \in Nat /\ t[j].label \in Nat
      BY <1>2, Labelled
    <3>. QED
      BY <3>1, <3>2
  <2>2. PICK a, b : a = Above(t[i].label, d) /\ b = Above(t[j].label, d)
    OBVIOUS
  <2>3. a <= b /\ a \in Nat /\ b \in Nat
    BY <1>2, <2>1, <2>2, AboveInOrder, Ancestors
  <2>4. below[i] = (a < s) /\ below[j] = (b < s)
    BY <1>2, <2>2
  <2>. HIDE DEF below
  <2>5. b < s
    BY <1>3, <2>4
  <2>6. a < s
    BY <2>3, <2>5
  <2>. QED
    BY <2>4, <2>6
<1>. HIDE DEF below
<1>4. (n + 1) - 1 = n /\ 1 \in Nat /\ n + 1 \in Nat /\ 1 <= n + 1
  BY <1>1
<1>5. PICK m \in 1 .. n + 1 : \A i \in 1 .. (n + 1) - 1 : below[i] <=> i < m
  <2>1. \A i, j \in 1 .. (n + 1) - 1 : i <= j /\ below[j] => below[i]
    BY <1>3, <1>4
  <2>. QED
    BY <1>4, <2>1, Cut
<1>6. Search(below, 1, n + 1) = m
  BY <1>4, <1>5, SearchFinds
<1>7. LowerBound(t, s, d) = Search(below, 1, n + 1)
  BY <1>1, Zenon DEF LowerBound, below, Above, Width, Pow
<1>. QED
  BY <1>1, <1>2, <1>4, <1>5, <1>6, <1>7

(* The root in shards.                                                     *)
LEMMA InShards ==
  ASSUME NEW t \in LeafLists, NEW d \in 1 .. Depth
  PROVE  TreeRootParallel(t, d) = SparseRoot(Range(t))
<1>. DEFINE bound(s) == IF s = 0 THEN 1 ELSE IF s = Pow(d) THEN Len(t) + 1
                        ELSE LowerBound(t, s, d)
            bottom == [s \in 0 .. Pow(d) - 1 |-> Subtree(t, bound(s), bound(s + 1), d)]
<1>1. /\ Len(t) \in Nat /\ Range(t) \in LeafSets
      /\ \A i \in 1 .. Len(t) : t[i].label \in Label
  BY ListedLeaves
<1>2. d \in 0 .. Depth /\ d \in Nat /\ Pow(d) \in Nat \ {0}
  BY Powers, ProtonTreeAssumption
<1>3. PICK row : IsTree(row, Range(t)) /\ SparseRoot(Range(t)) = row[0][0]
  BY TreeExists
<1>4. PICK top : IsRows(top, bottom, d) /\ TreeRootParallel(t, d) = top[0][0]
  <2>1. TreeRootParallel(t, d) = JoinUp(bottom, d)
    BY Zenon DEF TreeRootParallel, Pow
  <2>. HIDE DEF bottom
  <2>. QED
    BY <1>2, <2>1, JoinUpIsARoot
<1>5. ASSUME NEW s \in Nat, s <= Pow(d)
      PROVE  /\ bound(s) \in 1 .. Len(t) + 1
             /\ \A i \in 1 .. Len(t) : i < bound(s) <=> Above(t[i].label, d) < s
  <2>1. \A i \in 1 .. Len(t) : Above(t[i].label, d) \in Nat /\ Above(t[i].label, d) < Pow(d)
    BY <1>1, <1>2, Ancestors
  <2>2. CASE s = 0
    BY <1>1, <2>1, <2>2
  <2>3. CASE s # 0 /\ s = Pow(d)
    BY <1>1, <2>1, <2>3
  <2>4. CASE s # 0 /\ s # Pow(d)
    <3>1. bound(s) = LowerBound(t, s, d)
      BY <2>4
    <3>. HIDE DEF bound
    <3>. QED
      BY <1>2, <3>1, LowerBoundSplits
  <2>. QED
    BY <2>2, <2>3, <2>4
<1>6. ASSUME NEW s \in Nat, s < Pow(d) PROVE bottom[s] = row[d][s]
  <2>1. s + 1 \in Nat /\ s <= Pow(d) /\ s + 1 <= Pow(d) /\ s \in 0 .. Pow(d) - 1
    BY <1>2, <1>6
  <2>. HIDE DEF bound
  <2>2. PICK first, past : first = bound(s) /\ past = bound(s + 1)
    OBVIOUS
  <2>3. /\ first \in 1 .. Len(t) + 1 /\ past \in 1 .. Len(t) + 1
        /\ \A i \in 1 .. Len(t) : /\ i < first <=> Above(t[i].label, d) < s
                                  /\ i < past <=> Above(t[i].label, d) < s + 1
    BY <1>5, <2>1, <2>2
  <2>4. \A i \in 1 .. Len(t) : Above(t[i].label, d) \in Nat
    BY <1>1, <1>2, Ancestors
  <2>5. first <= past
    <3>1. CASE past < first
      <4>1. past \in 1 .. Len(t) /\ past < first /\ ~ (past < past)
        BY <1>1, <2>3, <3>1
      <4>2. PICK a \in Nat : a = Above(t[past].label, d)
        BY <2>4, <4>1
      <4>3. a < s /\ ~ (a < s + 1)
        BY <2>3, <4>1, <4>2
      <4>. QED
        BY <4>2, <4>3
    <3>. QED
      BY <1>1, <2>3, <3>1
  <2>6. ASSUME NEW i \in 1 .. Len(t)
        PROVE  (first <= i /\ i < past) <=> Above(t[i].label, d) = s
    <3>1. PICK a \in Nat : a = Above(t[i].label, d)
      BY <2>4
    <3>2. (i < first <=> a < s) /\ (i < past <=> a < s + 1)
      BY <2>3, <3>1
    <3>. QED
      BY <1>1, <2>3, <3>1, <3>2
  <2>7. Subtree(t, first, past, d) = row[d][s]
    BY <1>2, <1>3, <1>6, <2>3, <2>5, <2>6, SubtreeIsANode
  <2>. QED
    BY <2>1, <2>2, <2>7
<1>. HIDE DEF bottom
<1>. QED
  BY <1>1, <1>2, <1>3, <1>4, <1>6, SameTop

(* In one piece, or in shards of any number, the root is that of the set   *)
(* of leaves: for any list of leaves in order and any depth of the tree    *)
(* (TreeRoot, TreeRootParallel, tree.go:127-280).                          *)
THEOREM RootsAreRebuilt ==
  ASSUME NEW t \in LeafLists, NEW d \in 1 .. Depth
  PROVE  TreeRoot(t) = SparseRoot(Range(t)) /\ TreeRootParallel(t, d) = SparseRoot(Range(t))
BY OnePiece, InShards

-----------------------------------------------------------------------------
(* A root is of one set of leaves.                                         *)
LEMMA JoinIsInjective ==
  ASSUME NEW a, NEW b, NEW c, NEW e, Join(a, b) = Join(c, e)
  PROVE  a = c /\ b = e
BY DEF Join, EmptyNode

(* Two directories have the same root only if they have the same leaves:   *)
(* the comparison of roots that a replay rests on (incremental.go:262-302) *)
(* confuses no two, for any depth of the tree.                             *)
THEOREM RootsAreInjective ==
  ASSUME NEW S \in LeafSets, NEW T \in LeafSets, SparseRoot(S) = SparseRoot(T)
  PROVE  S = T
<1>1. PICK f : IsTree(f, S) /\ SparseRoot(S) = f[0][0]
  BY TreeExists
<1>2. PICK g : IsTree(g, T) /\ SparseRoot(T) = g[0][0]
  BY TreeExists
<1>. DEFINE Bad == {k \in 0 .. Depth : \E s \in Nat : s < Pow(k) /\ f[k][s] # g[k][s]}
<1>3. CASE Bad # {}
  <2>1. PICK k \in Bad : \A j \in Bad : k <= j
    <3>1. Bad \in SUBSET Nat
      BY ProtonTreeAssumption
    <3>. HIDE DEF Bad
    <3>. QED
      BY <1>3, <3>1, LeastNat
  <2>2. PICK s \in Nat : s < Pow(k) /\ f[k][s] # g[k][s]
    BY <2>1
  <2>3. k # 0
    <3>1. CASE k = 0
      <4>1. s = 0
        <5>1. Pow(0) = 1
          BY Powers
        <5>. QED
          BY <2>2, <3>1, <5>1
      <4>. QED
        BY <1>1, <1>2, <2>2, <3>1, <4>1
    <3>. QED
      BY <3>1
  <2>4. PICK j \in 0 .. Depth : k = j + 1 /\ j < Depth /\ j \notin Bad
    <3>1. k - 1 \in 0 .. Depth /\ k = (k - 1) + 1 /\ k - 1 < Depth /\ ~ (k <= k - 1)
      BY <2>1, <2>3, ProtonTreeAssumption
    <3>2. k - 1 \notin Bad
      <4>. HIDE DEF Bad
      <4>. QED
        BY <2>1, <3>1
    <3>. QED
      BY <3>1, <3>2
  <2>5. PICK q \in Nat : (s = 2 * q \/ s = 2 * q + 1) /\ q < Pow(j)
    <3>1. PICK n \in Nat : n = Pow(j) /\ Pow(k) = 2 * n
      <4>1. j \in Nat
        BY <2>4, ProtonTreeAssumption
      <4>. QED
        BY <2>4, <4>1, Powers
    <3>2. PICK q, r : q = s \div 2 /\ r = (s % 2)
      OBVIOUS
    <3>3. q \in Nat /\ r \in {0, 1} /\ s = 2 * q + r
      BY <3>2, Halves
    <3>4. q < n
      BY <2>2, <3>1, <3>3
    <3>. QED
      BY <3>1, <3>3, <3>4
  <2>6. /\ f[j][q] = Join(f[k][2 * q], f[k][2 * q + 1])
        /\ g[j][q] = Join(g[k][2 * q], g[k][2 * q + 1])
    BY <1>1, <1>2, <2>4, <2>5, TreeRows
  <2>7. f[j][q] = g[j][q]
    BY <2>4, <2>5
  <2>8. f[k][2 * q] = g[k][2 * q] /\ f[k][2 * q + 1] = g[k][2 * q + 1]
    <3>1. PICK a, b, c, e :
             a = f[k][2 * q] /\ b = f[k][2 * q + 1] /\ c = g[k][2 * q] /\ e = g[k][2 * q + 1]
      OBVIOUS
    <3>2. Join(a, b) = Join(c, e)
      BY <2>6, <2>7, <3>1
    <3>3. a = c /\ b = e
      BY <3>2, JoinIsInjective
    <3>. QED
      BY <3>1, <3>3
  <2>. QED
    BY <2>2, <2>5, <2>8
<1>4. CASE Bad = {}
  <2>1. ASSUME NEW l \in Label PROVE LeafAt(S, l) = LeafAt(T, l)
    <3>1. l \in Nat /\ l < Pow(Depth) /\ Depth \in 0 .. Depth
      <4>1. PICK n : n = Pow(Depth)
        OBVIOUS
      <4>2. n \in Nat /\ Label = 0 .. n - 1
        BY <4>1, Labelled, Powers, ProtonTreeAssumption
      <4>. QED
        BY <4>1, <4>2, ProtonTreeAssumption
    <3>2. f[Depth][l] = g[Depth][l]
      BY <1>4, <3>1
    <3>. QED
      BY <1>1, <1>2, <3>2, TreeRows
  <2>2. ASSUME NEW U \in LeafSets, NEW V \in LeafSets, NEW leaf \in U,
               \A l \in Label : LeafAt(U, l) = LeafAt(V, l)
        PROVE  leaf \in V
    <3>1. leaf \in [label : Label, value : Nat] /\ V \in SUBSET [label : Label, value : Nat]
      BY DEF LeafSets
    <3>2. LeafAt(V, leaf.label) = LeafHash(leaf.value)
      BY <2>2, <3>1, Leaves
    <3>3. LeafHash(leaf.value) # EmptyNode
      BY DEF LeafHash, EmptyNode
    <3>4. PICK m \in V : m.label = leaf.label
      BY <3>1, <3>2, <3>3, Leaves
    <3>5. LeafHash(m.value) = LeafHash(leaf.value)
      BY <3>1, <3>2, <3>4, Leaves
    <3>6. m.value = leaf.value
      BY <3>5 DEF LeafHash
    <3>7. m = leaf
      BY <3>1, <3>4, <3>6
    <3>. QED
      BY <3>4, <3>7
  <2>. QED
    BY <2>1, <2>2
<1>. QED
  BY <1>3, <1>4

-----------------------------------------------------------------------------
(* The merge of a tree and a diff.                                         *)
DiffRecords == [op : {"add", "remove"}, label : Label, value : Nat]
DiffLists == {f \in Seq(DiffRecords) : CheckSorted(f)}
MergeStats == [out : LeafLists, removed : SUBSET LeafRecords, phantom : SUBSET LeafRecords,
               overwritten : Nat]

(* A list of records in order: one record of a label.                      *)
LEMMA ListedRecords ==
  ASSUME NEW f \in DiffLists
  PROVE  /\ Len(f) \in Nat /\ DOMAIN f = 1 .. Len(f)
         /\ \A i \in 1 .. Len(f) : f[i] \in DiffRecords
         /\ \A i, j \in 1 .. Len(f) : i < j => f[i].label < f[j].label
<1>1. f \in Seq(DiffRecords) /\ CheckSorted(f)
  BY DEF DiffLists
<1>2. \A x \in DiffRecords : x.label \in Nat
  BY Labelled DEF DiffRecords
<1>3. \A i, j \in 1 .. Len(f) : i < j => f[i].label < f[j].label
  BY <1>1, <1>2, Ascending
<1>. QED
  BY <1>1, <1>3

(* The turns of the merge, from each place in the tree and the diff.       *)
IsMerge(go, tree, diff) ==
  go = [i \in 1 .. Len(tree) + 1 |-> [j \in 1 .. Len(diff) + 1 |-> Merged(tree, diff, i, j, go)]]

(* A turn looks only at the turns after it.                                *)
LEMMA MergedDepends ==
  ASSUME NEW tree, NEW diff, Len(tree) \in Nat, Len(diff) \in Nat,
         NEW i \in 1 .. Len(tree) + 1, NEW j \in 1 .. Len(diff) + 1, NEW f, NEW g,
         i <= Len(tree) => f[i + 1][j] = g[i + 1][j],
         j <= Len(diff) => f[i][j + 1] = g[i][j + 1],
         i <= Len(tree) /\ j <= Len(diff) => f[i + 1][j + 1] = g[i + 1][j + 1]
  PROVE  Merged(tree, diff, i, j, f) = Merged(tree, diff, i, j, g)
<1>1. CASE i <= Len(tree) /\ j <= Len(diff)
  BY <1>1 DEF Merged
<1>2. CASE i <= Len(tree) /\ ~ (j <= Len(diff))
  BY <1>2 DEF Merged
<1>3. CASE ~ (i <= Len(tree)) /\ j <= Len(diff)
  BY <1>3 DEF Merged
<1>4. CASE ~ (i <= Len(tree)) /\ ~ (j <= Len(diff))
  BY <1>4 DEF Merged
<1>. QED
  BY <1>1, <1>2, <1>3, <1>4

(* There are such turns, made from the last.                               *)
LEMMA MergeExists ==
  ASSUME NEW tree, NEW diff, Len(tree) \in Nat, Len(diff) \in Nat
  PROVE  \E go : IsMerge(go, tree, diff)
<1>1. PICK n \in Nat, nd \in Nat : n = Len(tree) /\ nd = Len(diff)
  OBVIOUS
<1>. DEFINE I == 1 .. n + 1
            J == 1 .. nd + 1
            left(i, j) == (n + 1 - i) + (nd + 1 - j)
            upto(f, m) == \A i \in I, j \in J : left(i, j) <= m => f[i][j] = Merged(tree, diff, i, j, f)
            Begun == {m \in 0 .. n + nd : \E f : upto(f, m)}
<1>2. 0 \in Begun
  <2>. DEFINE f == [i \in I |-> [j \in J |-> Nothing]]
  <2>1. ASSUME NEW i \in I, NEW j \in J, left(i, j) <= 0
        PROVE  f[i][j] = Merged(tree, diff, i, j, f)
    <3>1. i = n + 1 /\ j = nd + 1
      BY <2>1
    <3>2. ~ (i <= n) /\ ~ (j <= nd)
      BY <3>1
    <3>3. Merged(tree, diff, i, j, f) = Nothing
      <4>. HIDE DEF f
      <4>. QED
        BY <1>1, <3>2 DEF Merged
    <3>. QED
      BY <3>3
  <2>2. upto(f, 0)
    <3>. HIDE DEF f
    <3>. QED
      BY <2>1
  <2>. HIDE DEF upto
  <2>. QED
    BY <2>2
<1>3. PICK m \in Begun : \A k \in Begun : k <= m
  <2>. HIDE DEF upto
  <2>1. Begun \in SUBSET Int /\ n + nd \in Int /\ \A k \in Begun : k <= n + nd
    OBVIOUS
  <2>. HIDE DEF Begun
  <2>. QED
    BY <1>2, <2>1, GreatestInt
<1>4. PICK f : upto(f, m)
  <2>. HIDE DEF upto
  <2>. QED
    BY <1>3
<1>. DEFINE g == [i \in I |-> [j \in J |->
                    IF left(i, j) <= m THEN f[i][j] ELSE Merged(tree, diff, i, j, f)]]
<1>5. ASSUME NEW i \in I, NEW j \in J
      PROVE  g[i][j] = IF left(i, j) <= m THEN f[i][j] ELSE Merged(tree, diff, i, j, f)
  OBVIOUS
<1>6. ASSUME NEW i \in I, NEW j \in J, left(i, j) <= m + 1
      PROVE  g[i][j] = Merged(tree, diff, i, j, g)
  <2>1. g[i][j] = Merged(tree, diff, i, j, f)
    <3>1. CASE left(i, j) <= m
      <4>1. f[i][j] = Merged(tree, diff, i, j, f)
        BY <1>4, <3>1
      <4>. HIDE DEF g, left
      <4>. QED
        BY <1>5, <3>1, <4>1
    <3>2. CASE ~ (left(i, j) <= m)
      <4>. HIDE DEF g, left
      <4>. QED
        BY <1>5, <3>2
    <3>. QED
      BY <3>1, <3>2
  <2>2. m \in Nat
    <3>. HIDE DEF upto
    <3>. QED
      BY <1>3
  <2>3. ASSUME i <= n PROVE g[i + 1][j] = f[i + 1][j]
    <3>1. i + 1 \in I /\ left(i + 1, j) <= m
      BY <1>6, <2>2, <2>3
    <3>. HIDE DEF g, left
    <3>. QED
      BY <1>5, <3>1
  <2>4. ASSUME j <= nd PROVE g[i][j + 1] = f[i][j + 1]
    <3>1. j + 1 \in J /\ left(i, j + 1) <= m
      BY <1>6, <2>2, <2>4
    <3>. HIDE DEF g, left
    <3>. QED
      BY <1>5, <3>1
  <2>5. ASSUME i <= n, j <= nd PROVE g[i + 1][j + 1] = f[i + 1][j + 1]
    <3>1. i + 1 \in I /\ j + 1 \in J /\ left(i + 1, j + 1) <= m
      BY <1>6, <2>2, <2>5
    <3>. HIDE DEF g, left
    <3>. QED
      BY <1>5, <3>1
  <2>6. Merged(tree, diff, i, j, f) = Merged(tree, diff, i, j, g)
    <3>. HIDE DEF g, left, upto, Begun
    <3>. QED
      BY <1>1, <2>3, <2>4, <2>5, MergedDepends
  <2>. QED
    BY <2>1, <2>6
<1>7. upto(g, m + 1)
  <2>. HIDE DEF g
  <2>. QED
    BY <1>6
<1>8. m = n + nd
  <2>1. m \in 0 .. n + nd
    <3>. HIDE DEF upto
    <3>. QED
      BY <1>3
  <2>2. CASE m # n + nd
    <3>. HIDE DEF upto, g
    <3>1. m + 1 \in Begun /\ ~ (m + 1 <= m)
      BY <1>7, <2>1, <2>2
    <3>. HIDE DEF Begun
    <3>. QED
      BY <1>3, <3>1
  <2>. QED
    BY <2>2
<1>9. \A i \in I, j \in J : g[i][j] = Merged(tree, diff, i, j, g)
  <2>1. \A i \in I, j \in J : left(i, j) <= m + 1
    BY <1>8
  <2>. HIDE DEF g, left
  <2>. QED
    BY <1>6, <2>1
<1>10. g = [i \in I |-> [j \in J |-> g[i][j]]]
  OBVIOUS
<1>11. g = [i \in I |-> [j \in J |-> Merged(tree, diff, i, j, g)]]
  <2>. HIDE DEF g
  <2>. QED
    BY <1>9, <1>10
<1>. HIDE DEF g
<1>. QED
  BY <1>1, <1>11 DEF IsMerge

(* ApplyDiff is the first of them.                                         *)
LEMMA ApplyDiffIsAMerge ==
  ASSUME NEW tree, NEW diff, Len(tree) \in Nat, Len(diff) \in Nat
  PROVE  \E go : IsMerge(go, tree, diff) /\ ApplyDiff(tree, diff) = go[1][1]
<1>. DEFINE m == CHOOSE go : IsMerge(go, tree, diff)
<1>1. IsMerge(m, tree, diff)
  BY MergeExists
<1>2. ApplyDiff(tree, diff) = m[1][1]
  BY Zenon DEF ApplyDiff, IsMerge
<1>. QED
  BY <1>1, <1>2

(* A smaller leaf goes in front.                                           *)
LEMMA Prepend ==
  ASSUME NEW s \in LeafLists, NEW x \in LeafRecords, \A y \in Range(s) : x.label < y.label
  PROVE  <<x>> \o s \in LeafLists /\ Range(<<x>> \o s) = {x} \cup Range(s)
<1>1. s \in Seq(LeafRecords) /\ CheckSorted(s)
  BY DEF LeafLists
<1>2. PICK u : u = <<x>> \o s
  OBVIOUS
<1>3. PICK n \in Nat : n = Len(s) /\ DOMAIN s = 1 .. n
  BY <1>1
<1>4. /\ u \in Seq(LeafRecords) /\ Len(u) = n + 1 /\ DOMAIN u = 1 .. n + 1 /\ u[1] = x
      /\ \A i \in 2 .. n + 1 : u[i] = s[i - 1]
  BY <1>1, <1>2, <1>3
<1>5. Range(s) = {s[i] : i \in 1 .. n}
  BY <1>3 DEF Range
<1>6. Range(u) = {x} \cup Range(s)
  <2>1. Range(u) = {u[i] : i \in 1 .. n + 1}
    BY <1>4 DEF Range
  <2>2. \A i \in 1 .. n + 1 : i = 1 \/ (i \in 2 .. n + 1 /\ i - 1 \in 1 .. n)
    OBVIOUS
  <2>3. \A i \in 1 .. n : i + 1 \in 2 .. n + 1 /\ i + 1 \in 1 .. n + 1 /\ (i + 1) - 1 = i
    OBVIOUS
  <2>4. \A i \in 1 .. n : s[i] = u[i + 1]
    BY <1>4, <2>3
  <2>5. 1 \in 1 .. n + 1
    OBVIOUS
  <2>. QED
    BY <1>4, <1>5, <2>1, <2>2, <2>3, <2>4, <2>5
<1>7. CheckSorted(u)
  <2>1. ASSUME NEW i \in 2 .. n + 1 PROVE u[i - 1].label < u[i].label
    <3>1. CASE i = 2
      <4>1. u[1] = x /\ u[2] = s[1] /\ s[1] \in Range(s)
        BY <1>4, <1>5, <2>1, <3>1
      <4>. QED
        BY <3>1, <4>1
    <3>2. CASE i # 2
      <4>1. i - 1 \in 2 .. n /\ i - 1 \in 2 .. n + 1
        BY <2>1, <3>2
      <4>2. u[i] = s[i - 1] /\ u[i - 1] = s[(i - 1) - 1]
        BY <1>4, <2>1, <4>1
      <4>3. s[(i - 1) - 1].label < s[i - 1].label
        BY <1>1, <1>3, <4>1 DEF CheckSorted
      <4>. QED
        BY <4>2, <4>3
    <3>. QED
      BY <3>1, <3>2
  <2>. QED
    BY <1>4, <2>1 DEF CheckSorted
<1>. QED
  BY <1>2, <1>4, <1>6, <1>7 DEF LeafLists

(* What a diff removes of a set of leaves, and what it removes of none.    *)
RemovedBy(S, D) == {x \in S : \E d \in D : d.op = "remove" /\ d.label = x.label}
Phantoms(S, D) ==
  LET labels == {x.label : x \in S}
  IN  {Leaf(d.label, d.value) : d \in {q \in D : q.op = "remove" /\ q.label \notin labels}}

(* One record of the tree, or of the diff, or of both, at the front.       *)
LEMMA ChangedKeeps ==
  ASSUME NEW S, NEW D, NEW x, \A r \in D : r.label # x.label
  PROVE  /\ Changed({x} \cup S, D) = {x} \cup Changed(S, D)
         /\ RemovedBy({x} \cup S, D) = RemovedBy(S, D)
         /\ Phantoms({x} \cup S, D) = Phantoms(S, D)
<1>1. Changed({x} \cup S, D) = {x} \cup Changed(S, D)
  BY SMT DEF Changed
<1>2. RemovedBy({x} \cup S, D) = RemovedBy(S, D)
  BY SMT DEF RemovedBy
<1>3. Phantoms({x} \cup S, D) = Phantoms(S, D)
  BY SMT DEF Phantoms
<1>. QED
  BY <1>1, <1>2, <1>3

(* A record that removes the leaf.                                         *)
LEMMA ChangedRemoves ==
  ASSUME NEW S, NEW D, NEW x, NEW d, d.op = "remove", d.label = x.label,
         \A r \in D : r.label # x.label, \A y \in S : y.label # x.label
  PROVE  /\ Changed({x} \cup S, {d} \cup D) = Changed(S, D)
         /\ Phantoms({x} \cup S, {d} \cup D) = Phantoms(S, D)
<1>1. Changed({x} \cup S, {d} \cup D) = Changed(S, D)
  BY SMT DEF Changed
<1>2. Phantoms({x} \cup S, {d} \cup D) = Phantoms(S, D)
  BY SMT DEF Phantoms
<1>. QED
  BY <1>1, <1>2

(* The leaf is one that was removed.                                       *)
LEMMA RemovedGrows ==
  ASSUME NEW S, NEW D, NEW x, NEW d, d.op = "remove", d.label = x.label,
         \A r \in D : r.label # x.label, \A y \in S : y.label # x.label
  PROVE  RemovedBy({x} \cup S, {d} \cup D) = {x} \cup RemovedBy(S, D)
BY SMT DEF RemovedBy

(* A record that adds a label that is there.                               *)
LEMMA ChangedOverwrites ==
  ASSUME NEW S, NEW D, NEW x, NEW d, d.op = "add", d.label = x.label,
         \A r \in D : r.label # x.label, \A y \in S : y.label # x.label
  PROVE  /\ Changed({x} \cup S, {d} \cup D) = {x} \cup Changed(S, D)
         /\ RemovedBy({x} \cup S, {d} \cup D) = RemovedBy(S, D)
         /\ Phantoms({x} \cup S, {d} \cup D) = Phantoms(S, D)
<1>1. Changed({x} \cup S, {d} \cup D) = {x} \cup Changed(S, D)
  BY SMT DEF Changed
<1>2. RemovedBy({x} \cup S, {d} \cup D) = RemovedBy(S, D)
  BY SMT DEF RemovedBy
<1>3. Phantoms({x} \cup S, {d} \cup D) = Phantoms(S, D)
  BY SMT DEF Phantoms
<1>. QED
  BY <1>1, <1>2, <1>3

(* A record that adds.                                                     *)
LEMMA ChangedAdds ==
  ASSUME NEW S, NEW D, NEW d, d.op = "add", \A y \in S : y.label # d.label
  PROVE  /\ Changed(S, {d} \cup D) = {Leaf(d.label, d.value)} \cup Changed(S, D)
         /\ RemovedBy(S, {d} \cup D) = RemovedBy(S, D)
         /\ Phantoms(S, {d} \cup D) = Phantoms(S, D)
<1>1. Changed(S, {d} \cup D) = {Leaf(d.label, d.value)} \cup Changed(S, D)
  BY SMT DEF Changed
<1>2. RemovedBy(S, {d} \cup D) = RemovedBy(S, D)
  BY SMT DEF RemovedBy
<1>3. Phantoms(S, {d} \cup D) = Phantoms(S, D)
  BY SMT DEF Phantoms
<1>. QED
  BY <1>1, <1>2, <1>3

(* A record that removes what is not there.                                *)
LEMMA ChangedMisses ==
  ASSUME NEW S, NEW D, NEW d, d.op = "remove", \A y \in S : y.label # d.label
  PROVE  /\ Changed(S, {d} \cup D) = Changed(S, D)
         /\ RemovedBy(S, {d} \cup D) = RemovedBy(S, D)
         /\ Phantoms(S, {d} \cup D) = {Leaf(d.label, d.value)} \cup Phantoms(S, D)
<1>1. Changed(S, {d} \cup D) = Changed(S, D)
  BY SMT DEF Changed
<1>2. RemovedBy(S, {d} \cup D) = RemovedBy(S, D)
  BY SMT DEF RemovedBy
<1>3. Phantoms(S, {d} \cup D) = {Leaf(d.label, d.value)} \cup Phantoms(S, D)
  BY SMT DEF Phantoms
<1>. QED
  BY <1>1, <1>2, <1>3

(* What is left of a list, and what a merge of it has to make.             *)
TreeFrom(t, i) == {t[k] : k \in i .. Len(t)}
Carries(r, S, D) ==
  /\ r \in MergeStats
  /\ Range(r.out) = Changed(S, D)
  /\ r.removed = RemovedBy(S, D)
  /\ r.phantom = Phantoms(S, D)

(* The first of what is left.                                              *)
LEMMA TreeFromSplits ==
  ASSUME NEW t, Len(t) \in Nat, NEW i \in 1 .. Len(t)
  PROVE  TreeFrom(t, i) = {t[i]} \cup TreeFrom(t, i + 1)
<1>1. i .. Len(t) = {i} \cup (i + 1 .. Len(t))
  OBVIOUS
<1>. QED
  BY <1>1 DEF TreeFrom

(* What is kept goes in front of what follows.                             *)
LEMMA CarriesKept ==
  ASSUME NEW S, NEW D, NEW r, Carries(r, S, D), NEW x \in LeafRecords,
         \A y \in Changed(S, D) : x.label < y.label,
         NEW T, NEW E, Changed(T, E) = {x} \cup Changed(S, D),
         RemovedBy(T, E) = RemovedBy(S, D), Phantoms(T, E) = Phantoms(S, D)
  PROVE  Carries([r EXCEPT !.out = <<x>> \o @], T, E)
<1>1. PICK u : u = <<x>> \o r.out
  OBVIOUS
<1>2. r \in MergeStats /\ r.out \in LeafLists /\ Range(r.out) = Changed(S, D)
  BY DEF Carries, MergeStats
<1>3. u \in LeafLists /\ Range(u) = {x} \cup Range(r.out)
  BY <1>1, <1>2, Prepend
<1>4. PICK q : q = [r EXCEPT !.out = u]
  OBVIOUS
<1>5. q \in MergeStats /\ q.out = u /\ q.removed = r.removed /\ q.phantom = r.phantom
  BY <1>2, <1>3, <1>4 DEF MergeStats
<1>6. Carries(q, T, E)
  BY <1>2, <1>3, <1>5 DEF Carries
<1>. QED
  BY <1>1, <1>4, <1>6

(* One pass over a tree and a diff in order makes the tree that the diff   *)
(* says, in order, and counts exactly the leaves that went and the         *)
(* removals that missed (ApplyDiff, tree.go:294-411), for any tree and any *)
(* diff.                                                                   *)
THEOREM MergeCarries ==
  ASSUME NEW tree \in LeafLists, NEW diff \in DiffLists
  PROVE  Carries(ApplyDiff(tree, diff), Range(tree), Range(diff))
<1>1. PICK n \in Nat, nd \in Nat : n = Len(tree) /\ nd = Len(diff)
  BY ListedLeaves, ListedRecords
<1>2. PICK go : IsMerge(go, tree, diff) /\ ApplyDiff(tree, diff) = go[1][1]
  BY <1>1, ApplyDiffIsAMerge
<1>. DEFINE I == 1 .. n + 1
            J == 1 .. nd + 1
            left(i, j) == (n + 1 - i) + (nd + 1 - j)
            S(i) == TreeFrom(tree, i)
            D(j) == TreeFrom(diff, j)
            Bad == {m \in Nat : \E i \in I, j \in J : left(i, j) = m /\ ~ Carries(go[i][j], S(i), D(j))}
<1>3. ASSUME NEW i \in I, NEW j \in J PROVE go[i][j] = Merged(tree, diff, i, j, go)
  <2>1. go[i] = [k \in J |-> Merged(tree, diff, i, k, go)]
    BY <1>1, <1>2, Zenon DEF IsMerge
  <2>. QED
    BY <2>1, Zenon
<1>4. /\ \A i \in 1 .. n : tree[i] \in LeafRecords
      /\ \A i, k \in 1 .. n : i < k => tree[i].label < tree[k].label
      /\ \A j \in 1 .. nd : diff[j] \in DiffRecords
      /\ \A j, k \in 1 .. nd : j < k => diff[j].label < diff[k].label
  BY <1>1, ListedLeaves, ListedRecords
<1>5. /\ \A x \in LeafRecords : x.label \in Nat
      /\ \A x \in DiffRecords : x.label \in Nat /\ x.op \in {"add", "remove"}
                                /\ Leaf(x.label, x.value) \in LeafRecords
  BY Labelled DEF LeafRecords, DiffRecords, Leaf
<1>6. ASSUME NEW i \in 1 .. n
      PROVE  /\ S(i) = {tree[i]} \cup S(i + 1) /\ i + 1 \in I
             /\ \A y \in S(i + 1) : y \in LeafRecords /\ tree[i].label < y.label
  <2>1. S(i) = {tree[i]} \cup S(i + 1)
    BY <1>1, TreeFromSplits
  <2>2. \A k \in i + 1 .. n : k \in 1 .. n /\ i < k
    OBVIOUS
  <2>3. \A y \in S(i + 1) : \E k \in i + 1 .. n : y = tree[k]
    BY <1>1 DEF TreeFrom
  <2>. QED
    BY <1>4, <2>1, <2>2, <2>3
<1>7. ASSUME NEW j \in 1 .. nd
      PROVE  /\ D(j) = {diff[j]} \cup D(j + 1) /\ j + 1 \in J
             /\ \A r \in D(j + 1) : r \in DiffRecords /\ diff[j].label < r.label
  <2>1. D(j) = {diff[j]} \cup D(j + 1)
    BY <1>1, TreeFromSplits
  <2>2. \A k \in j + 1 .. nd : k \in 1 .. nd /\ j < k
    OBVIOUS
  <2>3. \A y \in D(j + 1) : \E k \in j + 1 .. nd : y = diff[k]
    BY <1>1 DEF TreeFrom
  <2>. QED
    BY <1>4, <2>1, <2>2, <2>3
<1>8. S(n + 1) = {} /\ D(nd + 1) = {}
  <2>1. n + 1 .. n = {} /\ nd + 1 .. nd = {}
    OBVIOUS
  <2>. QED
    BY <1>1, <2>1 DEF TreeFrom
<1>9. ASSUME NEW T, NEW E, NEW y \in Changed(T, E)
      PROVE  y \in T \/ \E r \in E : y = Leaf(r.label, r.value)
  BY DEF Changed
<1>10. \A l, v : Leaf(l, v).label = l
  BY DEF Leaf
<1>11. CASE Bad # {}
  <2>. HIDE DEF S, D
  <2>1. PICK m \in Bad : \A k \in Bad : m <= k
    <3>1. Bad \in SUBSET Nat
      OBVIOUS
    <3>. HIDE DEF Bad
    <3>. QED
      BY <1>11, <3>1, LeastNat
  <2>2. PICK i \in I, j \in J : left(i, j) = m /\ ~ Carries(go[i][j], S(i), D(j))
    BY <2>1
  <2>3. ASSUME NEW k \in I, NEW l \in J, left(k, l) < left(i, j)
        PROVE  Carries(go[k][l], S(k), D(l))
    <3>1. left(k, l) \in Nat /\ ~ (m <= left(k, l))
      BY <2>2, <2>3
    <3>2. left(k, l) \notin Bad
      <4>. HIDE DEF Bad, left
      <4>. QED
        BY <2>1, <3>1
    <3>. HIDE DEF left
    <3>. QED
      BY <3>1, <3>2
  <2>. HIDE DEF Bad
  <2>4. go[i][j] = Merged(tree, diff, i, j, go)
    BY <1>3
  <2>5. CASE ~ (i <= n) /\ ~ (j <= nd)
    <3>1. i = n + 1 /\ j = nd + 1
      BY <2>5
    <3>2. go[i][j] = Nothing
      BY <1>1, <2>4, <2>5 DEF Merged
    <3>3. Carries(Nothing, {}, {})
      <4>1. <<>> \in LeafLists /\ Range(<<>>) = {}
        BY DEF LeafLists, CheckSorted, Range
      <4>2. Nothing \in MergeStats /\ Nothing.out = <<>> /\ Nothing.removed = {} /\ Nothing.phantom = {}
        BY <4>1 DEF Nothing, MergeStats
      <4>3. Changed({}, {}) = {} /\ RemovedBy({}, {}) = {} /\ Phantoms({}, {}) = {}
        BY DEF Changed, RemovedBy, Phantoms
      <4>. QED
        BY <4>1, <4>2, <4>3 DEF Carries
    <3>. QED
      BY <1>8, <2>2, <3>1, <3>2, <3>3
  <2>6. CASE i <= n /\ (j <= nd => tree[i].label < diff[j].label)
    <3>1. go[i][j] = [go[i + 1][j] EXCEPT !.out = <<tree[i]>> \o @]
      <4>1. i \in 1 .. n /\ (j <= nd => j \in 1 .. nd)
        BY <2>6
      <4>2. j <= nd => tree[i].label # diff[j].label
        <5>1. j <= nd => tree[i].label \in Nat /\ diff[j].label \in Nat
          BY <1>4, <1>5, <4>1
        <5>. QED
          BY <2>6, <5>1
      <4>. QED
        BY <1>1, <2>4, <2>6, <4>2 DEF Merged
    <3>2. i \in 1 .. n /\ tree[i] \in LeafRecords
      BY <1>4, <2>6
    <3>3. \A r \in D(j) : tree[i].label < r.label /\ r.label \in Nat
      <4>1. CASE j <= nd
        <5>1. j \in 1 .. nd /\ diff[j] \in DiffRecords /\ tree[i].label < diff[j].label
          BY <1>4, <2>6, <4>1
        <5>2. \A r \in D(j + 1) : r \in DiffRecords /\ diff[j].label < r.label
          BY <1>7, <5>1
        <5>3. tree[i].label \in Nat /\ diff[j].label \in Nat /\ \A r \in D(j + 1) : r.label \in Nat
          BY <1>5, <3>2, <5>1, <5>2
        <5>4. \A r \in D(j + 1) : tree[i].label < r.label
          BY <5>1, <5>2, <5>3
        <5>5. D(j) = {diff[j]} \cup D(j + 1)
          BY <1>7, <5>1
        <5>. QED
          BY <5>1, <5>3, <5>4, <5>5
      <4>2. CASE ~ (j <= nd)
        <5>1. j = nd + 1
          BY <4>2
        <5>. QED
          BY <1>8, <5>1
      <4>. QED
        BY <4>1, <4>2
    <3>4. /\ S(i) = {tree[i]} \cup S(i + 1) /\ i + 1 \in I
          /\ \A y \in S(i + 1) : tree[i].label < y.label
      BY <1>6, <3>2
    <3>5. Carries(go[i + 1][j], S(i + 1), D(j))
      <4>1. left(i + 1, j) < left(i, j)
        OBVIOUS
      <4>. QED
        BY <2>3, <3>4, <4>1
    <3>6. /\ Changed(S(i), D(j)) = {tree[i]} \cup Changed(S(i + 1), D(j))
          /\ RemovedBy(S(i), D(j)) = RemovedBy(S(i + 1), D(j))
          /\ Phantoms(S(i), D(j)) = Phantoms(S(i + 1), D(j))
      <4>1. \A r \in D(j) : r.label # tree[i].label
        BY <1>5, <3>2, <3>3
      <4>2. /\ Changed({tree[i]} \cup S(i + 1), D(j)) = {tree[i]} \cup Changed(S(i + 1), D(j))
            /\ RemovedBy({tree[i]} \cup S(i + 1), D(j)) = RemovedBy(S(i + 1), D(j))
            /\ Phantoms({tree[i]} \cup S(i + 1), D(j)) = Phantoms(S(i + 1), D(j))
        BY <4>1, ChangedKeeps
      <4>. QED
        BY <3>4, <4>2
    <3>7. \A y \in Changed(S(i + 1), D(j)) : tree[i].label < y.label
      BY <1>9, <1>10, <3>3, <3>4
    <3>8. Carries([go[i + 1][j] EXCEPT !.out = <<tree[i]>> \o @], S(i), D(j))
      BY <3>2, <3>5, <3>6, <3>7, CarriesKept
    <3>. QED
      BY <2>2, <3>1, <3>8
  <2>7. CASE i <= n /\ j <= nd /\ tree[i].label = diff[j].label
    <3>1. i \in 1 .. n /\ j \in 1 .. nd /\ tree[i] \in LeafRecords /\ diff[j] \in DiffRecords
      BY <1>4, <2>7
    <3>2. /\ S(i) = {tree[i]} \cup S(i + 1) /\ i + 1 \in I
          /\ \A y \in S(i + 1) : y \in LeafRecords /\ tree[i].label < y.label
      BY <1>6, <3>1
    <3>3. /\ D(j) = {diff[j]} \cup D(j + 1) /\ j + 1 \in J
          /\ \A r \in D(j + 1) : r \in DiffRecords /\ tree[i].label < r.label
      BY <1>7, <2>7, <3>1
    <3>4. /\ \A y \in S(i + 1) : y.label # tree[i].label
          /\ \A r \in D(j + 1) : r.label # tree[i].label
      BY <1>5, <3>1, <3>2, <3>3
    <3>5. PICK q : q = go[i + 1][j + 1]
      OBVIOUS
    <3>6. Carries(q, S(i + 1), D(j + 1))
      <4>1. left(i + 1, j + 1) < left(i, j)
        OBVIOUS
      <4>. QED
        BY <2>3, <3>2, <3>3, <3>5, <4>1
    <3>7. ~ (tree[i].label < diff[j].label)
      BY <1>5, <2>7, <3>1
    <3>8. CASE diff[j].op = "remove"
      <4>1. go[i][j] = [q EXCEPT !.removed = @ \cup {tree[i]}]
        BY <1>1, <2>4, <2>7, <3>5, <3>7, <3>8 DEF Merged
      <4>2. /\ Changed(S(i), D(j)) = Changed(S(i + 1), D(j + 1))
            /\ RemovedBy(S(i), D(j)) = RemovedBy(S(i + 1), D(j + 1)) \cup {tree[i]}
            /\ Phantoms(S(i), D(j)) = Phantoms(S(i + 1), D(j + 1))
        <5>1. PICK x, d, T, E : x = tree[i] /\ d = diff[j] /\ T = S(i + 1) /\ E = D(j + 1)
          OBVIOUS
        <5>2. /\ d.op = "remove" /\ d.label = x.label
              /\ \A r \in E : r.label # x.label
              /\ \A y \in T : y.label # x.label
          BY <2>7, <3>4, <3>8, <5>1
        <5>3. /\ Changed({x} \cup T, {d} \cup E) = Changed(T, E)
              /\ Phantoms({x} \cup T, {d} \cup E) = Phantoms(T, E)
          BY <5>2, ChangedRemoves
        <5>4. RemovedBy({x} \cup T, {d} \cup E) = {x} \cup RemovedBy(T, E)
          BY <5>2, RemovedGrows
        <5>. QED
          BY <3>2, <3>3, <5>1, <5>3, <5>4
      <4>3. PICK p : p = go[i][j]
        OBVIOUS
      <4>4. q \in MergeStats
        BY <3>6 DEF Carries
      <4>5. p \in MergeStats /\ p.out = q.out /\ p.removed = q.removed \cup {tree[i]} /\ p.phantom = q.phantom
        BY <3>1, <4>1, <4>3, <4>4 DEF MergeStats
      <4>6. Carries(p, S(i), D(j))
        BY <3>6, <4>2, <4>5 DEF Carries
      <4>. QED
        BY <2>2, <4>3, <4>6
    <3>9. CASE diff[j].op # "remove"
      <4>1. diff[j].op = "add"
        BY <1>5, <3>1, <3>9
      <4>2. PICK p : p = [q EXCEPT !.overwritten = @ + 1]
        OBVIOUS
      <4>3. go[i][j] = [p EXCEPT !.out = <<tree[i]>> \o @]
        BY <1>1, <2>4, <2>7, <3>5, <3>7, <3>9, <4>2 DEF Merged
      <4>4. /\ Changed(S(i), D(j)) = {tree[i]} \cup Changed(S(i + 1), D(j + 1))
            /\ RemovedBy(S(i), D(j)) = RemovedBy(S(i + 1), D(j + 1))
            /\ Phantoms(S(i), D(j)) = Phantoms(S(i + 1), D(j + 1))
        <5>1. /\ Changed({tree[i]} \cup S(i + 1), {diff[j]} \cup D(j + 1)) = {tree[i]} \cup Changed(S(i + 1), D(j + 1))
               /\ RemovedBy({tree[i]} \cup S(i + 1), {diff[j]} \cup D(j + 1)) = RemovedBy(S(i + 1), D(j + 1))
               /\ Phantoms({tree[i]} \cup S(i + 1), {diff[j]} \cup D(j + 1)) = Phantoms(S(i + 1), D(j + 1))
          BY <2>7, <3>4, <4>1, ChangedOverwrites
        <5>. QED
          BY <3>2, <3>3, <5>1
      <4>5. q \in MergeStats
        BY <3>6 DEF Carries
      <4>6. p \in MergeStats /\ p.out = q.out /\ p.removed = q.removed /\ p.phantom = q.phantom
        BY <4>2, <4>5 DEF MergeStats
      <4>7. Carries(p, S(i + 1), D(j + 1))
        BY <3>6, <4>6 DEF Carries
      <4>8. \A y \in Changed(S(i + 1), D(j + 1)) : tree[i].label < y.label
        BY <1>9, <1>10, <3>2, <3>3
      <4>9. Carries([p EXCEPT !.out = <<tree[i]>> \o @], S(i), D(j))
        BY <3>1, <4>4, <4>7, <4>8, CarriesKept
      <4>. QED
        BY <2>2, <4>3, <4>9
    <3>. QED
      BY <3>8, <3>9
  <2>8. CASE j <= nd /\ (i <= n => diff[j].label < tree[i].label)
    <3>. DEFINE leaf == Leaf(diff[j].label, diff[j].value)
    <3>1. j \in 1 .. nd /\ diff[j] \in DiffRecords /\ leaf \in LeafRecords /\ leaf.label = diff[j].label
      BY <1>4, <1>5, <1>10, <2>8
    <3>2. /\ D(j) = {diff[j]} \cup D(j + 1) /\ j + 1 \in J
          /\ \A r \in D(j + 1) : r \in DiffRecords /\ diff[j].label < r.label
      BY <1>7, <3>1
    <3>3. \A y \in S(i) : diff[j].label < y.label /\ y.label \in Nat
      <4>1. CASE i <= n
        <5>1. i \in 1 .. n /\ tree[i] \in LeafRecords /\ diff[j].label < tree[i].label
          BY <1>4, <2>8, <4>1
        <5>2. \A y \in S(i + 1) : y \in LeafRecords /\ tree[i].label < y.label
          BY <1>6, <5>1
        <5>3. tree[i].label \in Nat /\ diff[j].label \in Nat /\ \A y \in S(i + 1) : y.label \in Nat
          BY <1>5, <3>1, <5>1, <5>2
        <5>4. \A y \in S(i + 1) : diff[j].label < y.label
          BY <5>1, <5>2, <5>3
        <5>5. S(i) = {tree[i]} \cup S(i + 1)
          BY <1>6, <5>1
        <5>. QED
          BY <5>1, <5>3, <5>4, <5>5
      <4>2. CASE ~ (i <= n)
        <5>1. i = n + 1
          BY <4>2
        <5>. QED
          BY <1>8, <5>1
      <4>. QED
        BY <4>1, <4>2
    <3>4. \A y \in S(i) : y.label # diff[j].label
      BY <1>5, <3>1, <3>3
    <3>5. PICK q : q = go[i][j + 1]
      OBVIOUS
    <3>6. Carries(q, S(i), D(j + 1))
      <4>1. left(i, j + 1) < left(i, j)
        OBVIOUS
      <4>. QED
        BY <2>3, <3>2, <3>5, <4>1
    <3>7. i <= n => tree[i].label # diff[j].label /\ ~ (tree[i].label < diff[j].label)
      <4>1. i <= n => i \in 1 .. n
        OBVIOUS
      <4>2. i <= n => tree[i].label \in Nat /\ diff[j].label \in Nat
        BY <1>4, <1>5, <3>1, <4>1
      <4>. QED
        BY <2>8, <4>2
    <3>8. CASE diff[j].op = "add"
      <4>1. go[i][j] = [q EXCEPT !.out = <<leaf>> \o @]
        BY <1>1, <2>4, <2>8, <3>5, <3>7, <3>8 DEF Merged
      <4>2. /\ Changed(S(i), D(j)) = {leaf} \cup Changed(S(i), D(j + 1))
            /\ RemovedBy(S(i), D(j)) = RemovedBy(S(i), D(j + 1))
            /\ Phantoms(S(i), D(j)) = Phantoms(S(i), D(j + 1))
        <5>1. /\ Changed(S(i), {diff[j]} \cup D(j + 1)) = {leaf} \cup Changed(S(i), D(j + 1))
               /\ RemovedBy(S(i), {diff[j]} \cup D(j + 1)) = RemovedBy(S(i), D(j + 1))
               /\ Phantoms(S(i), {diff[j]} \cup D(j + 1)) = Phantoms(S(i), D(j + 1))
          BY <3>4, <3>8, ChangedAdds
        <5>. QED
          BY <3>2, <5>1
      <4>. HIDE DEF leaf
      <4>3. \A y \in Changed(S(i), D(j + 1)) : leaf.label < y.label
        BY <1>9, <1>10, <3>1, <3>2, <3>3
      <4>4. Carries([q EXCEPT !.out = <<leaf>> \o @], S(i), D(j))
        BY <3>1, <3>6, <4>2, <4>3, CarriesKept
      <4>. QED
        BY <2>2, <4>1, <4>4
    <3>9. CASE diff[j].op # "add"
      <4>1. diff[j].op = "remove"
        BY <1>5, <3>1, <3>9
      <4>2. go[i][j] = [q EXCEPT !.phantom = @ \cup {leaf}]
        BY <1>1, <2>4, <2>8, <3>5, <3>7, <3>9 DEF Merged
      <4>3. /\ Changed(S(i), D(j)) = Changed(S(i), D(j + 1))
            /\ RemovedBy(S(i), D(j)) = RemovedBy(S(i), D(j + 1))
            /\ Phantoms(S(i), D(j)) = Phantoms(S(i), D(j + 1)) \cup {leaf}
        <5>1. PICK d, T, E : d = diff[j] /\ T = S(i) /\ E = D(j + 1)
          OBVIOUS
        <5>2. d.op = "remove" /\ \A y \in T : y.label # d.label
          BY <3>4, <4>1, <5>1
        <5>3. /\ Changed(T, {d} \cup E) = Changed(T, E)
              /\ RemovedBy(T, {d} \cup E) = RemovedBy(T, E)
              /\ Phantoms(T, {d} \cup E) = {Leaf(d.label, d.value)} \cup Phantoms(T, E)
          BY <5>2, ChangedMisses
        <5>. QED
          BY <3>2, <5>1, <5>3
      <4>4. PICK p : p = go[i][j]
        OBVIOUS
      <4>5. q \in MergeStats
        BY <3>6 DEF Carries
      <4>6. p \in MergeStats /\ p.out = q.out /\ p.removed = q.removed /\ p.phantom = q.phantom \cup {leaf}
        <5>. HIDE DEF leaf
        <5>. QED
          BY <3>1, <4>2, <4>4, <4>5 DEF MergeStats
      <4>7. Carries(p, S(i), D(j))
        BY <3>6, <4>3, <4>6 DEF Carries
      <4>. QED
        BY <2>2, <4>4, <4>7
    <3>. QED
      BY <3>8, <3>9
  <2>9. i <= n /\ j <= nd => \/ tree[i].label < diff[j].label
                             \/ tree[i].label = diff[j].label
                             \/ diff[j].label < tree[i].label
    <3>1. i <= n /\ j <= nd => tree[i].label \in Nat /\ diff[j].label \in Nat
      BY <1>4, <1>5
    <3>. QED
      BY <3>1
  <2>. QED
    BY <2>5, <2>6, <2>7, <2>8, <2>9
<1>12. CASE Bad = {}
  <2>1. 1 \in I /\ 1 \in J /\ left(1, 1) \in Nat
    OBVIOUS
  <2>2. Carries(go[1][1], S(1), D(1))
    <3>. HIDE DEF S, D, left
    <3>. QED
      BY <1>12, <2>1
  <2>3. S(1) = Range(tree) /\ D(1) = Range(diff)
    BY <1>1, ListedLeaves, ListedRecords DEF TreeFrom, Range
  <2>. QED
    BY <1>2, <2>2, <2>3
<1>. QED
  BY <1>11, <1>12

-----------------------------------------------------------------------------
(* A list of records, one of a label, in the order of their labels.        *)
Labelling(S) ==
  /\ \A x \in S : x.label \in Label
  /\ \A x, y \in S : x.label = y.label => x = y

(* A greater record goes at the end.                                       *)
LEMMA AppendInOrder ==
  ASSUME NEW S, NEW t \in Seq(S), CheckSorted(t), NEW x \in S, \A y \in Range(t) : y.label < x.label
  PROVE  Append(t, x) \in Seq(S) /\ CheckSorted(Append(t, x)) /\ Range(Append(t, x)) = Range(t) \cup {x}
<1>1. PICK u : u = Append(t, x)
  OBVIOUS
<1>2. PICK n \in Nat : n = Len(t) /\ DOMAIN t = 1 .. n
  OBVIOUS
<1>3. /\ u \in Seq(S) /\ Len(u) = n + 1 /\ DOMAIN u = 1 .. n + 1 /\ u[n + 1] = x
      /\ \A i \in 1 .. n : u[i] = t[i]
  BY <1>1, <1>2
<1>4. Range(t) = {t[i] : i \in 1 .. n} /\ Range(u) = {u[i] : i \in 1 .. n + 1}
  BY <1>2, <1>3 DEF Range
<1>5. 1 .. n + 1 = (1 .. n) \cup {n + 1}
  OBVIOUS
<1>6. Range(u) = Range(t) \cup {x}
  BY <1>3, <1>4, <1>5
<1>7. ASSUME NEW i \in 2 .. n + 1 PROVE u[i - 1].label < u[i].label
  <2>1. CASE i = n + 1
    <3>1. i - 1 = n /\ n \in 1 .. n
      BY <1>7, <2>1
    <3>2. t[n] \in Range(t)
      BY <1>4, <3>1
    <3>. QED
      BY <1>3, <2>1, <3>1, <3>2
  <2>2. CASE i # n + 1
    <3>1. i \in 2 .. n /\ i \in 1 .. n /\ i - 1 \in 1 .. n
      BY <1>7, <2>2
    <3>2. t[i - 1].label < t[i].label
      BY <1>2, <3>1 DEF CheckSorted
    <3>. QED
      BY <1>3, <3>1, <3>2
  <2>. QED
    BY <2>1, <2>2
<1>8. CheckSorted(u)
  BY <1>3, <1>7 DEF CheckSorted
<1>. QED
  BY <1>1, <1>3, <1>6, <1>8

(* A finite set of records, one of a label, can be listed in order.        *)
LEMMA SortedExists ==
  ASSUME NEW S, Labelling(S)
  PROVE  \E t \in Seq(S) : CheckSorted(t) /\ Range(t) = S
<1>. DEFINE below(m) == {x \in S : x.label < m}
            listed(U) == \E t \in Seq(U) : CheckSorted(t) /\ Range(t) = U
            Bad == {m \in Nat : ~ listed(below(m))}
<1>1. \A x \in S : x.label \in Nat
  BY Labelled DEF Labelling
<1>2. CASE Bad # {}
  <2>1. PICK m \in Bad : \A k \in Bad : m <= k
    <3>1. Bad \in SUBSET Nat
      OBVIOUS
    <3>. HIDE DEF Bad
    <3>. QED
      BY <1>2, <3>1, LeastNat
  <2>2. CASE m = 0
    <3>1. below(m) = {}
      BY <1>1, <2>2
    <3>2. <<>> \in Seq({}) /\ CheckSorted(<<>>) /\ Range(<<>>) = {}
      BY DEF CheckSorted, Range
    <3>3. listed({})
      BY <3>2
    <3>. HIDE DEF listed, below
    <3>. QED
      BY <2>1, <3>1, <3>3
  <2>3. CASE m # 0
    <3>1. PICK k \in Nat : m = k + 1 /\ k \notin Bad
      <4>1. m - 1 \in Nat /\ m = (m - 1) + 1 /\ ~ (m <= m - 1)
        BY <2>3
      <4>2. m - 1 \notin Bad
        <5>. HIDE DEF Bad
        <5>. QED
          BY <2>1, <4>1
      <4>. QED
        BY <4>1, <4>2
    <3>2. PICK t \in Seq(below(k)) : CheckSorted(t) /\ Range(t) = below(k)
      <4>. HIDE DEF below
      <4>. QED
        BY <3>1
    <3>3. ~ \E u \in Seq(below(m)) : CheckSorted(u) /\ Range(u) = below(m)
      <4>. HIDE DEF below
      <4>. QED
        BY <2>1
    <3>4. below(k) \subseteq below(m) /\ \A x \in below(m) : x \in below(k) \/ x.label = k
      BY <1>1, <3>1
    <3>5. t \in Seq(below(m))
      <4>. HIDE DEF below
      <4>. QED
        BY <3>4
    <3>6. CASE \E x \in S : x.label = k
      <4>1. PICK x \in S : x.label = k
        BY <3>6
      <4>2. x \in below(m) /\ \A y \in below(k) : y.label < x.label
        BY <1>1, <3>1, <4>1
      <4>3. below(m) = below(k) \cup {x}
        <5>1. \A y \in S : y.label = k => y = x
          BY <4>1 DEF Labelling
        <5>. QED
          BY <3>4, <4>2, <5>1
      <4>. HIDE DEF below
      <4>4. PICK U : U = below(m)
        OBVIOUS
      <4>5. /\ Append(t, x) \in Seq(U) /\ CheckSorted(Append(t, x))
            /\ Range(Append(t, x)) = Range(t) \cup {x}
        BY <3>2, <3>5, <4>2, <4>4, AppendInOrder
      <4>6. Range(Append(t, x)) = U
        BY <3>2, <4>3, <4>4, <4>5
      <4>. QED
        BY <3>3, <4>4, <4>5, <4>6, Zenon
    <3>7. CASE ~ \E x \in S : x.label = k
      <4>1. below(m) = below(k)
        BY <3>4, <3>7
      <4>. HIDE DEF below
      <4>. QED
        BY <3>2, <3>3, <4>1
    <3>. QED
      BY <3>6, <3>7
  <2>. QED
    BY <2>2, <2>3
<1>3. CASE Bad = {}
  <2>1. PICK n \in Nat : n = Pow(Depth) /\ Label = 0 .. n - 1
    BY Labelled, Powers, ProtonTreeAssumption
  <2>2. below(n) = S
    BY <2>1 DEF Labelling
  <2>3. listed(below(n))
    <3>. HIDE DEF listed
    <3>. QED
      BY <1>3
  <2>4. listed(S)
    <3>. HIDE DEF listed, below
    <3>. QED
      BY <2>2, <2>3
  <2>. QED
    BY <2>4, Zenon
<1>. QED
  BY <1>2, <1>3

(* Sorted is such a list.                                                  *)
LEMMA SortedList ==
  ASSUME NEW S, Labelling(S)
  PROVE  Sorted(S) \in Seq(S) /\ CheckSorted(Sorted(S)) /\ Range(Sorted(S)) = S
<1>1. PICK t \in Seq(S) : CheckSorted(t) /\ Range(t) = S
  BY SortedExists
<1>2. PICK n \in Nat : n = Len(t) /\ DOMAIN t = 1 .. n
  BY <1>1
<1>3. \A x \in S : x.label \in Nat
  BY Labelled DEF Labelling
<1>4. \A i, j \in 1 .. n : i < j => t[i].label < t[j].label
  BY <1>1, <1>2, <1>3, Ascending
<1>5. \A i, j \in 1 .. n : t[i] = t[j] => i = j
  <2>1. ASSUME NEW i \in 1 .. n, NEW j \in 1 .. n, t[i] = t[j] PROVE i = j
    <3>1. t[i].label \in Nat /\ t[i].label = t[j].label
      BY <1>1, <1>2, <1>3, <2>1
    <3>2. ~ (i < j) /\ ~ (j < i)
      BY <1>4, <2>1, <3>1
    <3>. QED
      BY <3>2
  <2>. QED
    BY <2>1
<1>6. t \in [1 .. n -> S] /\ \A x \in S : \E i \in 1 .. n : t[i] = x
  <2>1. Range(t) = {t[i] : i \in 1 .. n}
    BY <1>2 DEF Range
  <2>. QED
    BY <1>1, <1>2, <2>1
<1>7. ExistsBijection(1 .. n, S)
  BY <1>5, <1>6 DEF ExistsBijection, Bijection, Injection, Surjection, IsInjective
<1>8. Cardinality(S) = n
  <2>1. IsFiniteSet(1 .. n) /\ Cardinality(1 .. n) = n
    <3>1. IsFiniteSet(1 .. n) /\ Cardinality(1 .. n) = IF 1 > n THEN 0 ELSE n - 1 + 1
      BY FS_Interval
    <3>. QED
      BY <3>1
  <2>. QED
    BY <1>7, <2>1, FS_Bijection
<1>9. PICK u : u = Sorted(S)
  OBVIOUS
<1>10. u \in [1 .. n -> S] /\ CheckSorted(u) /\ Range(u) = S
  BY <1>1, <1>6, <1>8, <1>9 DEF Sorted
<1>11. u \in Seq(S)
  BY <1>10
<1>. QED
  BY <1>9, <1>10, <1>11

(* Leaves and diffs as they are published.                                 *)
DiffSets == {D \in SUBSET DiffRecords : \A x, y \in D : x.label = y.label => x = y}

(* Leaves as they are published.                                           *)
LEMMA SortedLeaves ==
  ASSUME NEW S \in LeafSets
  PROVE  Sorted(S) \in LeafLists /\ Range(Sorted(S)) = S
<1>1. Labelling(S) /\ S \subseteq LeafRecords
  BY DEF LeafSets, Labelling, LeafRecords
<1>2. Sorted(S) \in Seq(S) /\ CheckSorted(Sorted(S)) /\ Range(Sorted(S)) = S
  BY <1>1, SortedList
<1>3. Sorted(S) \in Seq(LeafRecords)
  BY <1>1, <1>2
<1>. QED
  BY <1>2, <1>3 DEF LeafLists

(* A diff as it is published.                                              *)
LEMMA SortedDiff ==
  ASSUME NEW D \in DiffSets
  PROVE  Sorted(D) \in DiffLists /\ Range(Sorted(D)) = D
<1>1. Labelling(D) /\ D \subseteq DiffRecords
  BY DEF DiffSets, Labelling, DiffRecords
<1>2. Sorted(D) \in Seq(D) /\ CheckSorted(Sorted(D)) /\ Range(Sorted(D)) = D
  BY <1>1, SortedList
<1>3. Sorted(D) \in Seq(DiffRecords)
  BY <1>1, <1>2
<1>. QED
  BY <1>2, <1>3 DEF DiffLists

-----------------------------------------------------------------------------
(* The replay.                                                             *)
Publications == [leaves : LeafSets, dump : LeafSets, diff : DiffSets, start : Nat]
(* What was published is a directory and a diff, and a dump only lacks     *)
(* leaves.                                                                 *)
PublishedOK ==
  /\ published \in Seq(Publications) /\ Len(published) <= LastEpoch
  /\ \A e \in 1 .. Len(published) : published[e].dump \subseteq published[e].leaves
  /\ witnessed \in 0 .. Len(published)

(* A file is whole, and the dump or what was signed.                       *)
FileOK(r, e) ==
  /\ e \in 1 .. witnessed /\ files[r][e] \in LeafLists
  /\ IsDump(r, e) \/ SparseRoot(Range(files[r][e])) = SignedRoot(e)
FilesOK ==
  /\ DOMAIN files = Replays
  /\ \A r \in Replays : \A e \in DOMAIN files[r] : FileOK(r, e)

(* A file that is being written, wherever it ends, is in order.            *)
PartialOK ==
  /\ partial \in [Replays -> Seq([label : Int, value : Nat])]
  /\ \A r \in Replays : CheckSorted(partial[r])

(* What an epoch's record, and its alarm, say of its publication.          *)
Carried(e) ==
  \/ SparseRoot(Changed(published[e - 1].leaves, published[e].diff)) = SignedRoot(e)
  \/ published[e - 1].dump # published[e - 1].leaves
Deserved(e) ==
  LET before == published[e - 1].leaves
      after == published[e].leaves
  IN  \/ \E leaf \in before \ after : leaf.value >= published[e].start
      \/ published[e].start = 0
      \/ published[e].diff # Honest(before, after)

(* A step holds the merge it made until the tree it made is the base.      *)
Steps == [pc : {"built", "renamed", "record"}, from : Nat, to : Nat, odd : BOOLEAN]
BuiltOK(r) ==
  LET s == step[r]
      merged == ApplyDiff(files[r][s.from], Sorted(published[s.to].diff))
  IN  /\ s.from \in DOMAIN files[r] /\ \A f \in DOMAIN files[r] : f <= s.from
      /\ partial[r] = merged.out /\ s.odd = ~ Clean(merged, published[s.to].start)
RenamedOK(r) ==
  LET s == step[r]
  IN  s.to \in DOMAIN files[r] /\ Carried(s.to) /\ (s.odd => Deserved(s.to))
StepOK(r) ==
  step[r] # Waiting =>
    /\ step[r].from \in 1 .. witnessed /\ step[r].to = step[r].from + 1 /\ step[r].to <= witnessed
    /\ IF step[r].pc = "built" THEN BuiltOK(r) ELSE RenamedOK(r)
StepsOK ==
  /\ step \in [Replays -> {Waiting} \cup Steps]
  /\ \A r \in Replays : StepOK(r)

(* What is recorded, and what is reported.                                 *)
AuditsOK ==
  /\ recorded \in SUBSET (2 .. witnessed) /\ alarms \in SUBSET (2 .. witnessed)
  /\ \A e \in recorded : Carried(e)
  /\ \A e \in alarms : Deserved(e)

(* The inductive invariant of the replay.                                  *)
ReplayInv == PublishedOK /\ FilesOK /\ PartialOK /\ StepsOK /\ AuditsOK

(* The parts of a publication.                                             *)
LEMMA PublishedFacts ==
  ASSUME PublishedOK, NEW e \in 1 .. Len(published)
  PROVE  /\ published[e] \in Publications
         /\ published[e].leaves \in LeafSets /\ published[e].dump \in LeafSets
         /\ published[e].diff \in DiffSets /\ published[e].start \in Nat
         /\ published[e].dump \subseteq published[e].leaves
<1>1. published[e] \in Publications /\ published[e].dump \subseteq published[e].leaves
  BY DEF PublishedOK
<1>. QED
  BY <1>1 DEF Publications

(* What was published stays, and only more is witnessed.                   *)
LEMMA ReplaysKeep ==
  ASSUME ReplayInv, witnessed' \in Nat, witnessed <= witnessed',
         \A e \in 1 .. witnessed : published'[e] = published[e],
         files' = files, partial' = partial, step' = step,
         recorded' = recorded, alarms' = alarms
  PROVE  FilesOK' /\ PartialOK' /\ StepsOK' /\ AuditsOK'
<1>1. witnessed \in Nat /\ 1 .. witnessed \subseteq 1 .. witnessed' /\ 2 .. witnessed \subseteq 2 .. witnessed'
  BY DEF ReplayInv, PublishedOK
<1>2. FilesOK'
  <2>1. ASSUME NEW r \in Replays, NEW e \in DOMAIN files[r] PROVE FileOK(r, e)'
    <3>1. FileOK(r, e) /\ e \in 1 .. witnessed
      BY DEF ReplayInv, FilesOK, FileOK
    <3>. QED
      BY <1>1, <3>1 DEF FileOK, IsDump, SignedRoot
  <2>. QED
    BY <2>1 DEF ReplayInv, FilesOK
<1>3. PartialOK'
  BY DEF ReplayInv, PartialOK
<1>4. \A e \in 2 .. witnessed : e - 1 \in 1 .. witnessed /\ e \in 1 .. witnessed
  BY <1>1
<1>5. \A e \in 2 .. witnessed : Carried(e)' = Carried(e) /\ Deserved(e)' = Deserved(e)
  BY <1>4 DEF Carried, Deserved, SignedRoot
<1>6. AuditsOK'
  BY <1>1, <1>5 DEF ReplayInv, AuditsOK
<1>7. ASSUME NEW r \in Replays PROVE StepOK(r)'
  <2>1. StepOK(r)
    BY DEF ReplayInv, StepsOK
  <2>2. CASE step[r] = Waiting
    BY <2>2 DEF StepOK
  <2>3. CASE step[r] # Waiting
    <3>1. step[r] \in Steps
      BY <2>3 DEF ReplayInv, StepsOK
    <3>2. PICK s \in Steps : s = step[r] /\ s = step'[r]
      BY <3>1
    <3>3. /\ s.from \in 1 .. witnessed /\ s.to = s.from + 1 /\ s.to <= witnessed
          /\ IF s.pc = "built" THEN BuiltOK(r) ELSE RenamedOK(r)
      BY <2>1, <2>3, <3>2 DEF StepOK
    <3>4. s.to \in 2 .. witnessed /\ s.to \in 1 .. witnessed
      BY <1>1, <3>3 
    <3>5. BuiltOK(r)' = BuiltOK(r)
      BY <3>2, <3>4 DEF BuiltOK
    <3>6. RenamedOK(r)' = RenamedOK(r)
      BY <1>5, <3>2, <3>4 DEF RenamedOK
    <3>7. s.from \in 1 .. witnessed' /\ s.to <= witnessed'
      BY <1>1, <3>3
    <3>. QED
      BY <3>2, <3>3, <3>5, <3>6, <3>7 DEF StepOK
  <2>. QED
    BY <2>2, <2>3
<1>8. StepsOK'
  BY <1>7 DEF ReplayInv, StepsOK
<1>. QED
  BY <1>2, <1>3, <1>6, <1>8

(* A new publication is a directory, and changes no earlier one.           *)
LEMMA PublishEpochKeeps == ASSUME ReplayInv, PublishEpoch PROVE ReplayInv'
<1>1. PICK n \in Nat \ {0} : n = Len(published) + 1
  BY DEF ReplayInv, PublishedOK
<1>2. PICK old : old = IF n = 1 THEN {} ELSE published[n - 1].leaves
  OBVIOUS
<1>. DEFINE entering(k, was, in) == {Leaf(l, k) : l \in in \ {m.label : m \in was}}
            publication(k, was, is, left, lost) ==
              [leaves |-> is, dump |-> is \ lost, diff |-> Honest(was, is) \ left,
               start |-> IF k > Retained THEN k - Retained ELSE 0]
            says(k, was, is) == \E left, lost : published' = Append(published, publication(k, was, is, left, lost))
<1>3. PICK gone \in SUBSET old, in \in SUBSET Labels :
          says(n, old, (old \ gone) \cup entering(n, old, in))
  <2>. DEFINE k == Len(published) + 1
              was == IF k = 1 THEN {} ELSE published[k - 1].leaves
  <2>1. \E gone \in SUBSET was, in \in SUBSET Labels : says(k, was, (was \ gone) \cup entering(k, was, in))
    BY Zenon DEF PublishEpoch
  <2>2. n = k /\ old = was
    BY <1>1, <1>2
  <2>. HIDE DEF says, entering, k, was
  <2>. QED
    BY <2>1, <2>2
<1>4. PICK new : new = (old \ gone) \cup entering(n, old, in)
  OBVIOUS
<1>5. new = (old \ gone) \cup entering(n, old, in) /\ says(n, old, new)
  BY <1>3, <1>4, Zenon
<1>. DEFINE diff == Honest(old, new)
<1>6. PICK left, lost : published' = Append(published,
                     [leaves |-> new, dump |-> new \ lost, diff |-> diff \ left,
                      start |-> IF n > Retained THEN n - Retained ELSE 0])
  BY <1>5, Zenon
<1>. HIDE DEF says, publication
<1>7. n <= LastEpoch /\ witnessed' = witnessed /\ files' = files /\ partial' = partial /\ step' = step
      /\ recorded' = recorded /\ alarms' = alarms
  BY <1>1, <1>2 DEF PublishEpoch
<1>8. published \in Seq(Publications) /\ witnessed \in 0 .. Len(published) /\ Len(published) \in Nat
  BY DEF ReplayInv, PublishedOK
<1>9. old \in LeafSets
  <2>1. CASE n = 1
    BY <1>2, <2>1 DEF LeafSets
  <2>2. CASE n # 1
    <3>1. n - 1 \in 1 .. Len(published)
      BY <1>1, <1>8, <2>2
    <3>. QED
      BY <1>2, <2>2, <3>1, PublishedFacts DEF ReplayInv
  <2>. QED
    BY <2>1, <2>2
<1>10. \A x \in old : x \in LeafRecords /\ \A y \in old : x.label = y.label => x = y
  BY <1>9 DEF LeafSets, LeafRecords
<1>11. \A l \in Labels : Leaf(l, n) \in LeafRecords /\ Leaf(l, n).label = l
  BY <1>1, ProtonReplayAssumption DEF Leaf, LeafRecords
<1>12. \A x \in new : \/ x \in old
                      \/ \E l \in Labels : x = Leaf(l, n) /\ \A m \in old : m.label # l
  BY <1>5
<1>13. new \in LeafSets
  <2>1. \A x \in new : x \in LeafRecords
    BY <1>10, <1>11, <1>12
  <2>2. ASSUME NEW x \in new, NEW y \in new, x.label = y.label PROVE x = y
    BY <1>10, <1>11, <1>12, <2>2
  <2>. QED
    BY <2>1, <2>2 DEF LeafSets, LeafRecords
<1>14. \A x \in new \ old : \A m \in old : m.label # x.label
  BY <1>11, <1>12
<1>15. diff \in DiffSets
  <2>1. \A x \in new \cup old : x \in LeafRecords
    BY <1>10, <1>13 DEF LeafSets, LeafRecords
  <2>2. ASSUME NEW d \in diff
        PROVE  /\ d \in DiffRecords
               /\ \/ d.op = "add" /\ \E x \in new \ old : d = Record("add", x.label, x.value)
                  \/ d.op = "remove" /\ \E x \in old \ new : d = Record("remove", x.label, x.value)
    <3>1. CASE \E x \in new \ old : d = Record("add", x.label, x.value)
      BY <2>1, <3>1 DEF Record, DiffRecords, LeafRecords
    <3>2. CASE \E x \in old \ new : d = Record("remove", x.label, x.value)
      BY <2>1, <3>2 DEF Record, DiffRecords, LeafRecords
    <3>. QED
      BY <2>2, <3>1, <3>2 DEF Honest
  <2>3. \A o, l, v : Record(o, l, v).label = l
    BY DEF Record
  <2>4. \A x, y \in new : x.label = y.label => x = y
    BY <1>13 DEF LeafSets
  <2>5. ASSUME NEW d \in diff, NEW e \in diff, d.label = e.label PROVE d = e
    <3>1. CASE d.op = "add" /\ e.op = "add"
      BY <2>2, <2>3, <2>4, <2>5, <3>1
    <3>2. CASE d.op = "remove" /\ e.op = "remove"
      BY <1>10, <2>2, <2>3, <2>5, <3>2
    <3>3. CASE d.op = "add" /\ e.op = "remove"
      BY <1>14, <2>2, <2>3, <2>5, <3>3
    <3>4. CASE d.op = "remove" /\ e.op = "add"
      BY <1>14, <2>2, <2>3, <2>5, <3>4
    <3>. QED
      BY <2>2, <3>1, <3>2, <3>3, <3>4
  <2>. QED
    BY <2>2, <2>5 DEF DiffSets
<1>16. new \ lost \in LeafSets /\ diff \ left \in DiffSets
  BY <1>13, <1>15 DEF LeafSets, DiffSets
<1>17. PICK p : p = [leaves |-> new, dump |-> new \ lost, diff |-> diff \ left,
                     start |-> IF n > Retained THEN n - Retained ELSE 0]
  OBVIOUS
<1>18. p \in Publications /\ p.dump \subseteq p.leaves
  <2>1. (IF n > Retained THEN n - Retained ELSE 0) \in Nat
    BY ProtonReplayAssumption
  <2>. QED
    BY <1>13, <1>16, <1>17, <2>1 DEF Publications
<1>19. published' = Append(published, p)
  BY <1>6, <1>17
<1>20. /\ published' \in Seq(Publications) /\ Len(published') = n /\ published'[n] = p
       /\ \A e \in 1 .. Len(published) : published'[e] = published[e]
  BY <1>1, <1>8, <1>18, <1>19
<1>21. PublishedOK'
  <2>1. \A e \in 1 .. n : e = n \/ e \in 1 .. Len(published)
    BY <1>1, <1>8
  <2>2. \A e \in 1 .. n : published'[e].dump \subseteq published'[e].leaves
    BY <1>18, <1>20, <2>1, PublishedFacts DEF ReplayInv
  <2>. QED
    BY <1>1, <1>7, <1>8, <1>20, <2>2 DEF PublishedOK
<1>22. FilesOK' /\ PartialOK' /\ StepsOK' /\ AuditsOK'
  <2>1. \A e \in 1 .. witnessed : published'[e] = published[e]
    BY <1>8, <1>20
  <2>2. witnessed' \in Nat /\ witnessed <= witnessed'
    BY <1>7, <1>8
  <2>. QED
    BY <1>7, <2>1, <2>2, ReplaysKeep
<1>. QED
  BY <1>21, <1>22 DEF ReplayInv

(* The tip moves.                                                          *)
LEMMA WitnessesKeeps == ASSUME ReplayInv, Witnesses PROVE ReplayInv'
<1>1. /\ witnessed' = witnessed + 1 /\ witnessed < Len(published) /\ published' = published
      /\ files' = files /\ partial' = partial /\ step' = step
      /\ recorded' = recorded /\ alarms' = alarms
  BY DEF Witnesses
<1>2. witnessed \in Nat /\ Len(published) \in Nat
  BY DEF ReplayInv, PublishedOK
<1>3. PublishedOK'
  BY <1>1, <1>2 DEF ReplayInv, PublishedOK
<1>4. witnessed' \in Nat /\ witnessed <= witnessed'
  BY <1>1, <1>2
<1>5. FilesOK' /\ PartialOK' /\ StepsOK' /\ AuditsOK'
  BY <1>1, <1>4, ReplaysKeep
<1>. QED
  BY <1>3, <1>5 DEF ReplayInv

(* The base is the newest file.                                            *)
LEMMA BaseIsNewest ==
  ASSUME ReplayInv, NEW r \in Replays
  PROVE  /\ Base(r) \in 0 .. witnessed
         /\ Base(r) = 0 <=> DOMAIN files[r] = {}
         /\ DOMAIN files[r] # {} =>
              Base(r) \in DOMAIN files[r] /\ \A f \in DOMAIN files[r] : f <= Base(r)
<1>1. witnessed \in Nat
  BY DEF ReplayInv, PublishedOK
<1>2. DOMAIN files[r] \subseteq 1 .. witnessed
  BY DEF ReplayInv, FilesOK, FileOK
<1>3. CASE DOMAIN files[r] = {}
  BY <1>1, <1>3 DEF Base
<1>4. CASE DOMAIN files[r] # {}
  <2>1. PICK b \in DOMAIN files[r] : \A f \in DOMAIN files[r] : f <= b
    <3>1. PICK T, w : T = DOMAIN files[r] /\ w = witnessed
      OBVIOUS
    <3>2. T \in SUBSET Int /\ T # {} /\ w \in Int /\ \A f \in T : f <= w
      BY <1>1, <1>2, <1>4, <3>1
    <3>3. \E b \in T : \A f \in T : f <= b
      BY <3>2, GreatestInt
    <3>. QED
      BY <3>1, <3>3
  <2>2. Base(r) \in DOMAIN files[r] /\ \A f \in DOMAIN files[r] : f <= Base(r)
    BY <1>4, <2>1 DEF Base
  <2>. QED
    BY <1>2, <1>4, <2>2
<1>. QED
  BY <1>3, <1>4

(* A file more.                                                            *)
LEMMA WithAdds ==
  ASSUME DOMAIN files = Replays, NEW r \in Replays, NEW e, NEW tree, files' = With(r, e, tree)
  PROVE  /\ DOMAIN files' = Replays /\ DOMAIN files'[r] = DOMAIN files[r] \cup {e}
         /\ files'[r][e] = tree
         /\ \A f \in DOMAIN files[r] : f # e => files'[r][f] = files[r][f]
         /\ \A q \in Replays : q # r => files'[q] = files[q]
BY DEF With

(* A file less.                                                            *)
LEMMA WithoutDrops ==
  ASSUME DOMAIN files = Replays, NEW r \in Replays, NEW e, files' = Without(r, e)
  PROVE  /\ DOMAIN files' = Replays /\ DOMAIN files'[r] = DOMAIN files[r] \ {e}
         /\ \A f \in DOMAIN files[r] : f # e => files'[r][f] = files[r][f]
         /\ \A q \in Replays : q # r => files'[q] = files[q]
BY DEF Without

(* A replay whose files and step do not change, while nothing is published *)
(* or witnessed.                                                           *)
LEMMA FileKeeps ==
  ASSUME ReplayInv, published' = published, witnessed' = witnessed,
         NEW q \in Replays, NEW e \in DOMAIN files[q], files'[q][e] = files[q][e]
  PROVE  FileOK(q, e)'
<1>1. FileOK(q, e)
  BY DEF ReplayInv, FilesOK
<1>. QED
  BY <1>1 DEF FileOK, IsDump, SignedRoot

(* Nothing new is said of what was published.                              *)
LEMMA SameWords ==
  ASSUME published' = published, NEW e
  PROVE  Carried(e)' = Carried(e) /\ Deserved(e)' = Deserved(e)
BY DEF Carried, Deserved, SignedRoot

(* The step of another replay is untouched.                                *)
LEMMA StepKeeps ==
  ASSUME ReplayInv, published' = published, witnessed' = witnessed,
         NEW q \in Replays, files'[q] = files[q], partial'[q] = partial[q], step'[q] = step[q]
  PROVE  StepOK(q)'
<1>1. StepOK(q)
  BY DEF ReplayInv, StepsOK
<1>2. BuiltOK(q)' = BuiltOK(q)
  BY DEF BuiltOK
<1>3. RenamedOK(q)' = RenamedOK(q)
  BY SameWords DEF RenamedOK
<1>. QED
  BY <1>1, <1>2, <1>3 DEF StepOK

(* Nothing is published, recorded or reported.                             *)
LEMMA AuditsKeep ==
  ASSUME ReplayInv, published' = published, witnessed' = witnessed,
         recorded' = recorded, alarms' = alarms
  PROVE  PublishedOK' /\ AuditsOK'
BY SameWords DEF ReplayInv, PublishedOK, AuditsOK

(* Lists of leaves are in order, as the empty file is.                     *)
LEMMA NoFileIsOrdered ==
  /\ NoFile \in Seq([label : Int, value : Nat]) /\ CheckSorted(NoFile)
  /\ LeafLists \subseteq Seq([label : Int, value : Nat])
<1>1. Leaf(-1, 0) \in [label : Int, value : Nat]
  BY DEF Leaf
<1>2. NoFile \in Seq([label : Int, value : Nat]) /\ Len(NoFile) = 1
  BY <1>1 DEF NoFile
<1>3. LeafRecords \subseteq [label : Int, value : Nat]
  BY Labelled DEF LeafRecords
<1>4. LeafLists \subseteq Seq([label : Int, value : Nat])
  <2>1. ASSUME NEW t \in LeafLists PROVE t \in Seq([label : Int, value : Nat])
    <3>1. t \in Seq(LeafRecords)
      BY DEF LeafLists
    <3>2. PICK T : T = [label : Int, value : Nat]
      OBVIOUS
    <3>3. Len(t) \in Nat /\ DOMAIN t = 1 .. Len(t) /\ t = [i \in 1 .. Len(t) |-> t[i]]
      BY <3>1
    <3>4. \A i \in 1 .. Len(t) : t[i] \in T
      BY <1>3, <3>1, <3>2
    <3>5. t \in Seq(T)
      BY <3>3, <3>4
    <3>. QED
      BY <3>2, <3>5
  <2>. QED
    BY <2>1
<1>. QED
  BY <1>2, <1>4 DEF CheckSorted

(* One replay's part changes.                                              *)
LEMMA PartialKeeps ==
  ASSUME ReplayInv, NEW r \in Replays, NEW p \in Seq([label : Int, value : Nat]), CheckSorted(p),
         partial' = [partial EXCEPT ![r] = p]
  PROVE  PartialOK' /\ partial'[r] = p /\ \A q \in Replays : q # r => partial'[q] = partial[q]
BY DEF ReplayInv, PartialOK

(* One replay steps.                                                       *)
LEMMA StepChanges ==
  ASSUME ReplayInv, NEW r \in Replays, NEW s \in {Waiting} \cup Steps, step' = [step EXCEPT ![r] = s]
  PROVE  /\ step' \in [Replays -> {Waiting} \cup Steps] /\ step'[r] = s
         /\ \A q \in Replays : q # r => step'[q] = step[q]
BY DEF ReplayInv, StepsOK

(* The dump becomes the base.                                              *)
LEMMA BootstrapKeeps == ASSUME ReplayInv, NEW r \in Replays, Bootstrap(r) PROVE ReplayInv'
<1>1. /\ step[r] = Waiting /\ Base(r) = 0 /\ witnessed > 0
      /\ partial' = [partial EXCEPT ![r] = NoFile]
      /\ files' = With(r, Start(r), Sorted(published[Start(r)].dump))
      /\ published' = published /\ witnessed' = witnessed /\ step' = step
      /\ recorded' = recorded /\ alarms' = alarms
  BY DEF Bootstrap
<1>2. DOMAIN files = Replays /\ DOMAIN files[r] = {}
  BY <1>1, BaseIsNewest DEF ReplayInv, FilesOK
<1>3. PICK e : e = Start(r)
  OBVIOUS
<1>4. e \in 1 .. witnessed /\ e \in 1 .. Len(published)
  BY <1>1, <1>3 DEF ReplayInv, PublishedOK, Start
<1>5. PICK tree : tree = Sorted(published[e].dump)
  OBVIOUS
<1>6. tree \in LeafLists
  BY <1>4, <1>5, PublishedFacts, SortedLeaves DEF ReplayInv
<1>7. /\ DOMAIN files' = Replays /\ DOMAIN files'[r] = {e} /\ files'[r][e] = tree
      /\ \A q \in Replays : q # r => files'[q] = files[q]
  BY <1>1, <1>2, <1>3, <1>5, WithAdds
<1>8. PartialOK' /\ \A q \in Replays : q # r => partial'[q] = partial[q]
  BY <1>1, NoFileIsOrdered, PartialKeeps
<1>9. FilesOK'
  <2>1. FileOK(r, e)'
    BY <1>1, <1>4, <1>5, <1>6, <1>7 DEF FileOK, IsDump
  <2>2. ASSUME NEW q \in Replays, q # r, NEW f \in DOMAIN files'[q] PROVE FileOK(q, f)'
    BY <1>1, <1>7, <2>2, FileKeeps
  <2>. QED
    BY <1>7, <2>1, <2>2 DEF FilesOK
<1>10. StepsOK'
  <2>1. StepOK(r)'
    BY <1>1 DEF StepOK
  <2>2. ASSUME NEW q \in Replays, q # r PROVE StepOK(q)'
    BY <1>1, <1>7, <1>8, <2>2, StepKeeps
  <2>. QED
    BY <1>1, <2>1, <2>2 DEF ReplayInv, StepsOK
<1>. QED
  BY <1>1, <1>8, <1>9, <1>10, AuditsKeep DEF ReplayInv

(* The merge is written beside the base.                                   *)
LEMMA BuildsKeeps == ASSUME ReplayInv, NEW r \in Replays, Builds(r) PROVE ReplayInv'
<1>1. PICK b, tree, diff, merged :
         /\ b = Base(r) /\ tree = files[r][b] /\ diff = Sorted(published[b + 1].diff)
         /\ merged = ApplyDiff(tree, diff)
  OBVIOUS
<1>2. /\ step[r] = Waiting /\ b > 0 /\ b < witnessed
      /\ partial' = [partial EXCEPT ![r] = merged.out]
      /\ step' = [step EXCEPT ![r] = [pc |-> "built", from |-> b, to |-> b + 1,
                                       odd |-> ~ Clean(merged, published[b + 1].start)]]
      /\ published' = published /\ witnessed' = witnessed /\ files' = files
      /\ recorded' = recorded /\ alarms' = alarms
  BY <1>1 DEF Builds
<1>3. /\ b \in DOMAIN files[r] /\ (\A f \in DOMAIN files[r] : f <= b)
      /\ b \in 1 .. witnessed /\ b + 1 \in 1 .. Len(published) /\ witnessed \in Nat
  BY <1>1, <1>2, BaseIsNewest DEF ReplayInv, PublishedOK
<1>4. tree \in LeafLists /\ diff \in DiffLists
  <2>1. tree \in LeafLists
    BY <1>1, <1>3 DEF ReplayInv, FilesOK, FileOK
  <2>. QED
    BY <1>1, <1>3, <2>1, PublishedFacts, SortedDiff DEF ReplayInv
<1>5. merged.out \in LeafLists
  BY <1>1, <1>4, MergeCarries DEF Carries, MergeStats
<1>6. merged.out \in Seq([label : Int, value : Nat]) /\ CheckSorted(merged.out)
  BY <1>5, NoFileIsOrdered DEF LeafLists
<1>7. PartialOK' /\ partial'[r] = merged.out /\ \A q \in Replays : q # r => partial'[q] = partial[q]
  BY <1>2, <1>6, PartialKeeps
<1>8. PICK s : s = [pc |-> "built", from |-> b, to |-> b + 1,
                    odd |-> ~ Clean(merged, published[b + 1].start)]
  OBVIOUS
<1>9. s \in Steps /\ s.pc = "built" /\ s.from = b /\ s.to = b + 1
      /\ s.odd = ~ Clean(merged, published[b + 1].start)
  <2>1. PICK c : c = ~ Clean(merged, published[b + 1].start)
    OBVIOUS
  <2>2. c \in BOOLEAN
    BY <2>1
  <2>. QED
    BY <1>3, <1>8, <2>1, <2>2 DEF Steps
<1>10. /\ step' \in [Replays -> {Waiting} \cup Steps] /\ step'[r] = s
       /\ \A q \in Replays : q # r => step'[q] = step[q]
  BY <1>2, <1>8, <1>9, StepChanges
<1>11. FilesOK'
  BY <1>2, FileKeeps DEF ReplayInv, FilesOK
<1>12. StepsOK'
  <2>1. BuiltOK(r)'
    BY <1>1, <1>2, <1>3, <1>7, <1>9, <1>10 DEF BuiltOK
  <2>2. StepOK(r)'
    BY <1>2, <1>3, <1>9, <1>10, <2>1 DEF StepOK
  <2>3. ASSUME NEW q \in Replays, q # r PROVE StepOK(q)'
    BY <1>2, <1>7, <1>10, <2>3, StepKeeps
  <2>. QED
    BY <1>10, <2>2, <2>3 DEF StepsOK
<1>. QED
  BY <1>2, <1>7, <1>11, <1>12, AuditsKeep DEF ReplayInv

(* An honest diff removes what left, and only that.                        *)
LEMMA HonestRemoves ==
  ASSUME NEW before \in LeafSets, NEW after, NEW d \in Honest(before, after), d.op = "remove"
  PROVE  \E l \in before \ after : d.label = l.label /\ d.value = l.value
BY DEF Honest, Record

(* A merge that is not clean, of leaves that were signed, has a reason.    *)
LEMMA OddIsDeserved ==
  ASSUME PublishedOK, NEW e \in 2 .. Len(published),
         NEW tree \in LeafLists, Range(tree) \subseteq published[e - 1].leaves,
         NEW merged, Carries(merged, Range(tree), published[e].diff),
         ~ Clean(merged, published[e].start)
  PROVE  Deserved(e)
<1>. DEFINE before == published[e - 1].leaves
            after == published[e].leaves
            start == published[e].start
<1>1. e - 1 \in 1 .. Len(published) /\ e \in 1 .. Len(published)
  BY DEF PublishedOK
<1>2. before \in LeafSets /\ start \in Nat
  BY <1>1, PublishedFacts
<1>3. CASE start = 0
  BY <1>3 DEF Deserved
<1>4. CASE published[e].diff # Honest(before, after)
  BY <1>4 DEF Deserved
<1>5. CASE start # 0 /\ published[e].diff = Honest(before, after)
  <2>1. PICK leaf \in merged.removed \cup merged.phantom : ~ (leaf.value < start)
    BY <1>2, <1>5 DEF Clean
  <2>2. \A x \in before : x \in LeafRecords /\ \A y \in before : x.label = y.label => x = y
    BY <1>2 DEF LeafSets, LeafRecords
  <2>3. leaf \in before \ after
    <3>1. CASE leaf \in merged.removed
      <4>1. leaf \in before
        BY <3>1 DEF Carries, RemovedBy
      <4>2. PICK d \in Honest(before, after) : d.op = "remove" /\ d.label = leaf.label
        BY <1>5, <3>1 DEF Carries, RemovedBy
      <4>3. PICK l \in before \ after : l.label = leaf.label
        BY <1>2, <4>2, HonestRemoves
      <4>. QED
        BY <2>2, <4>1, <4>3
    <3>2. CASE leaf \in merged.phantom
      <4>1. PICK d \in Honest(before, after) : d.op = "remove" /\ leaf = Leaf(d.label, d.value)
        BY <1>5, <3>2 DEF Carries, Phantoms
      <4>2. PICK l \in before \ after : d.label = l.label /\ d.value = l.value
        BY <1>2, <4>1, HonestRemoves
      <4>3. l \in LeafRecords
        BY <2>2, <4>2
      <4>4. leaf = l
        BY <4>1, <4>2, <4>3 DEF Leaf, LeafRecords
      <4>. QED
        BY <4>2, <4>4
    <3>. QED
      BY <2>1, <3>1, <3>2
  <2>4. leaf.value \in Nat
    BY <2>2, <2>3 DEF LeafRecords
  <2>5. leaf.value >= start
    BY <1>2, <2>1, <2>4
  <2>. QED
    BY <2>3, <2>5 DEF Deserved
<1>. QED
  BY <1>3, <1>4, <1>5

(* The tree of a step whose root is the signed one was carried by the      *)
(* published diff from what was signed before, or from a wrong dump.       *)
LEMMA MatchedIsCarried ==
  ASSUME ReplayInv, NEW r \in Replays, step[r] # Waiting, step[r].pc = "built",
         TreeRootParallel(partial[r], 1) = SignedRoot(step[r].to)
  PROVE  /\ partial[r] \in LeafLists
         /\ SparseRoot(Range(partial[r])) = SignedRoot(step[r].to)
         /\ Carried(step[r].to) /\ (step[r].odd => Deserved(step[r].to))
<1>1. PICK s \in Steps : s = step[r]
  BY DEF ReplayInv, StepsOK
<1>2. PICK b \in Nat, e \in Nat : b = s.from /\ e = s.to
  BY DEF Steps
<1>3. StepOK(r)
  BY DEF ReplayInv, StepsOK
<1>4. BuiltOK(r) /\ b \in 1 .. witnessed /\ e = b + 1 /\ e <= witnessed
  BY <1>1, <1>2, <1>3 DEF StepOK
<1>5. e \in 2 .. Len(published) /\ e - 1 = b /\ b \in 1 .. Len(published) /\ e \in 1 .. Len(published)
  BY <1>2, <1>4 DEF ReplayInv, PublishedOK
<1>6. PICK tree, diff, merged :
         /\ tree = files[r][b] /\ diff = Sorted(published[e].diff)
         /\ merged = ApplyDiff(tree, diff)
  OBVIOUS
<1>7. /\ b \in DOMAIN files[r] /\ partial[r] = merged.out
      /\ s.odd = ~ Clean(merged, published[e].start)
  BY <1>1, <1>2, <1>4, <1>6 DEF BuiltOK
<1>8. FileOK(r, b)
  BY <1>7 DEF ReplayInv, FilesOK
<1>9. tree \in LeafLists /\ diff \in DiffLists /\ Range(diff) = published[e].diff
  BY <1>5, <1>6, <1>8, PublishedFacts, SortedDiff DEF FileOK, ReplayInv
<1>10. Carries(merged, Range(tree), published[e].diff)
  BY <1>6, <1>9, MergeCarries
<1>11. merged.out \in LeafLists /\ Range(merged.out) = Changed(Range(tree), published[e].diff)
  BY <1>10 DEF Carries, MergeStats
<1>12. SparseRoot(Range(partial[r])) = SignedRoot(e)
  <2>1. 1 \in 1 .. Depth
    BY ProtonTreeAssumption
  <2>2. TreeRootParallel(partial[r], 1) = SparseRoot(Range(partial[r]))
    BY <1>7, <1>11, <2>1, InShards
  <2>. QED
    BY <1>1, <1>2, <2>2
<1>13. Range(tree) \in LeafSets /\ published[b].leaves \in LeafSets
       /\ published[b].dump \in LeafSets /\ published[b].dump \subseteq published[b].leaves
  BY <1>5, <1>9, ListedLeaves, PublishedFacts DEF ReplayInv
<1>14. \/ Range(tree) = published[b].leaves
       \/ Range(tree) = published[b].dump
  <2>1. CASE IsDump(r, b)
    BY <1>6, <1>13, <2>1, SortedLeaves DEF IsDump
  <2>2. CASE SparseRoot(Range(files[r][b])) = SignedRoot(b)
    BY <1>6, <1>13, <2>2, RootsAreInjective DEF SignedRoot
  <2>. QED
    BY <1>8, <2>1, <2>2 DEF FileOK
<1>15. Carried(e)
  <2>1. CASE published[b].dump # published[b].leaves
    BY <1>5, <2>1 DEF Carried
  <2>2. CASE published[b].dump = published[b].leaves
    <3>1. Range(tree) = published[b].leaves
      BY <1>14, <2>2
    <3>2. SparseRoot(Changed(published[b].leaves, published[e].diff)) = SignedRoot(e)
      BY <1>7, <1>11, <1>12, <3>1
    <3>. QED
      BY <1>5, <3>2 DEF Carried
  <2>. QED
    BY <2>1, <2>2
<1>16. s.odd => Deserved(e)
  <2>1. Range(tree) \subseteq published[e - 1].leaves
    BY <1>5, <1>13, <1>14
  <2>. QED
    BY <1>5, <1>7, <1>9, <1>10, <2>1, OddIsDeserved DEF ReplayInv
<1>. QED
  BY <1>1, <1>2, <1>7, <1>11, <1>12, <1>15, <1>16

(* The tree takes its name.                                                *)
LEMMA MatchesKeeps == ASSUME ReplayInv, NEW r \in Replays, Matches(r) PROVE ReplayInv'
<1>1. PICK s : s = step[r]
  OBVIOUS
<1>2. /\ s.pc = "built" /\ TreeRootParallel(partial[r], 1) = SignedRoot(s.to)
      /\ files' = With(r, s.to, partial[r])
      /\ partial' = [partial EXCEPT ![r] = NoFile]
      /\ step' = [step EXCEPT ![r] = [s EXCEPT !.pc = "renamed"]]
      /\ published' = published /\ witnessed' = witnessed
      /\ recorded' = recorded /\ alarms' = alarms
  BY <1>1 DEF Matches
<1>3. s # Waiting
  BY <1>2 DEF Waiting
<1>4. s \in Steps
  BY <1>1, <1>3 DEF ReplayInv, StepsOK
<1>5. /\ partial[r] \in LeafLists
      /\ SparseRoot(Range(partial[r])) = SignedRoot(s.to)
      /\ Carried(s.to) /\ (s.odd => Deserved(s.to))
  BY <1>1, <1>2, <1>3, MatchedIsCarried
<1>6. s.from \in 1 .. witnessed /\ s.to = s.from + 1 /\ s.to <= witnessed /\ witnessed \in Nat
  BY <1>1, <1>3 DEF ReplayInv, StepsOK, StepOK, PublishedOK
<1>7. s.to \in 1 .. witnessed
  BY <1>6
<1>8. /\ DOMAIN files' = Replays /\ DOMAIN files'[r] = DOMAIN files[r] \cup {s.to}
      /\ files'[r][s.to] = partial[r]
      /\ \A f \in DOMAIN files[r] : f # s.to => files'[r][f] = files[r][f]
      /\ \A q \in Replays : q # r => files'[q] = files[q]
  BY <1>2, WithAdds DEF ReplayInv, FilesOK
<1>9. PartialOK' /\ \A q \in Replays : q # r => partial'[q] = partial[q]
  BY <1>2, NoFileIsOrdered, PartialKeeps
<1>10. PICK n : n = [s EXCEPT !.pc = "renamed"]
  OBVIOUS
<1>11. n \in Steps /\ n.pc = "renamed" /\ n.from = s.from /\ n.to = s.to /\ n.odd = s.odd
  BY <1>4, <1>10 DEF Steps
<1>12. /\ step' \in [Replays -> {Waiting} \cup Steps] /\ step'[r] = n
       /\ \A q \in Replays : q # r => step'[q] = step[q]
  BY <1>2, <1>10, <1>11, StepChanges
<1>13. FilesOK'
  <2>1. FileOK(r, s.to)'
    BY <1>2, <1>5, <1>7, <1>8 DEF FileOK, SignedRoot
  <2>2. ASSUME NEW f \in DOMAIN files'[r], f # s.to PROVE FileOK(r, f)'
    BY <1>2, <1>8, <2>2, FileKeeps
  <2>3. ASSUME NEW q \in Replays, q # r, NEW f \in DOMAIN files'[q] PROVE FileOK(q, f)'
    BY <1>2, <1>8, <2>3, FileKeeps
  <2>. QED
    BY <1>8, <2>1, <2>2, <2>3 DEF FilesOK
<1>14. StepsOK'
  <2>1. RenamedOK(r)'
    <3>1. Carried(s.to)' /\ (s.odd => Deserved(s.to)')
      BY <1>2, <1>5, SameWords
    <3>2. n.to \in DOMAIN files'[r]
      BY <1>8, <1>11
    <3>3. Carried(n.to)' /\ (n.odd => Deserved(n.to)')
      BY <1>11, <3>1 DEF Carried, Deserved, SignedRoot
    <3>. QED
      BY <1>12, <3>2, <3>3 DEF RenamedOK, Carried, Deserved, SignedRoot
  <2>2. StepOK(r)'
    BY <1>2, <1>6, <1>11, <1>12, <2>1 DEF StepOK
  <2>3. ASSUME NEW q \in Replays, q # r PROVE StepOK(q)'
    BY <1>2, <1>8, <1>9, <1>12, <2>3, StepKeeps
  <2>. QED
    BY <1>12, <2>2, <2>3 DEF StepsOK
<1>. QED
  BY <1>2, <1>9, <1>13, <1>14, AuditsKeep DEF ReplayInv

(* The tree is put aside.                                                  *)
LEMMA MismatchesKeeps == ASSUME ReplayInv, NEW r \in Replays, Mismatches(r) PROVE ReplayInv'
<1>1. /\ partial' = [partial EXCEPT ![r] = NoFile]
      /\ step' = [step EXCEPT ![r] = Waiting]
      /\ published' = published /\ witnessed' = witnessed /\ files' = files
      /\ recorded' = recorded /\ alarms' = alarms
  BY DEF Mismatches
<1>2. PartialOK' /\ \A q \in Replays : q # r => partial'[q] = partial[q]
  BY <1>1, NoFileIsOrdered, PartialKeeps
<1>3. /\ step' \in [Replays -> {Waiting} \cup Steps] /\ step'[r] = Waiting
      /\ \A q \in Replays : q # r => step'[q] = step[q]
  BY <1>1, StepChanges
<1>4. FilesOK'
  BY <1>1, FileKeeps DEF ReplayInv, FilesOK
<1>5. StepsOK'
  <2>1. StepOK(r)'
    BY <1>3 DEF StepOK
  <2>2. ASSUME NEW q \in Replays, q # r PROVE StepOK(q)'
    BY <1>1, <1>2, <1>3, <2>2, StepKeeps
  <2>. QED
    BY <1>3, <2>1, <2>2 DEF StepsOK
<1>. QED
  BY <1>1, <1>2, <1>4, <1>5, AuditsKeep DEF ReplayInv

(* The tree of the epoch before goes: a newer one is there.                *)
LEMMA RemoveBaseKeeps == ASSUME ReplayInv, NEW r \in Replays, RemoveBase(r) PROVE ReplayInv'
<1>1. PICK s : s = step[r]
  OBVIOUS
<1>2. /\ s.pc = "renamed" /\ files' = Without(r, s.from)
      /\ step' = [step EXCEPT ![r] = [s EXCEPT !.pc = "record"]]
      /\ published' = published /\ witnessed' = witnessed /\ partial' = partial
      /\ recorded' = recorded /\ alarms' = alarms
  BY <1>1 DEF RemoveBase
<1>3. s # Waiting
  BY <1>2 DEF Waiting
<1>4. s \in Steps
  BY <1>1, <1>3 DEF ReplayInv, StepsOK
<1>5. /\ s.from \in 1 .. witnessed /\ s.to = s.from + 1 /\ s.to <= witnessed /\ witnessed \in Nat
      /\ RenamedOK(r)
  BY <1>1, <1>2, <1>3 DEF ReplayInv, StepsOK, StepOK, PublishedOK
<1>6. s.to \in DOMAIN files[r] /\ s.to # s.from /\ Carried(s.to) /\ (s.odd => Deserved(s.to))
  BY <1>1, <1>5 DEF RenamedOK
<1>7. /\ DOMAIN files' = Replays /\ DOMAIN files'[r] = DOMAIN files[r] \ {s.from}
      /\ \A f \in DOMAIN files[r] : f # s.from => files'[r][f] = files[r][f]
      /\ \A q \in Replays : q # r => files'[q] = files[q]
  BY <1>2, WithoutDrops DEF ReplayInv, FilesOK
<1>8. PICK n : n = [s EXCEPT !.pc = "record"]
  OBVIOUS
<1>9. n \in Steps /\ n.pc = "record" /\ n.from = s.from /\ n.to = s.to /\ n.odd = s.odd
  BY <1>4, <1>8 DEF Steps
<1>10. /\ step' \in [Replays -> {Waiting} \cup Steps] /\ step'[r] = n
       /\ \A q \in Replays : q # r => step'[q] = step[q]
  BY <1>2, <1>8, <1>9, StepChanges
<1>11. FilesOK'
  <2>1. ASSUME NEW q \in Replays, NEW f \in DOMAIN files'[q] PROVE FileOK(q, f)'
    BY <1>2, <1>7, <2>1, FileKeeps
  <2>. QED
    BY <1>7, <2>1 DEF FilesOK
<1>12. StepsOK'
  <2>1. RenamedOK(r)'
    BY <1>2, <1>6, <1>7, <1>9, <1>10 DEF RenamedOK, Carried, Deserved, SignedRoot
  <2>2. StepOK(r)'
    BY <1>2, <1>5, <1>9, <1>10, <2>1 DEF StepOK
  <2>3. ASSUME NEW q \in Replays, q # r PROVE StepOK(q)'
    BY <1>2, <1>7, <1>10, <2>3, StepKeeps
  <2>. QED
    BY <1>10, <2>2, <2>3 DEF StepsOK
<1>13. PartialOK'
  BY <1>2 DEF ReplayInv, PartialOK
<1>. QED
  BY <1>2, <1>11, <1>12, <1>13, AuditsKeep DEF ReplayInv

(* The epoch is recorded, and its removals reported.                       *)
LEMMA RecordsKeeps == ASSUME ReplayInv, NEW r \in Replays, Records(r) PROVE ReplayInv'
<1>1. PICK s : s = step[r]
  OBVIOUS
<1>2. /\ s.pc = "record"
      /\ alarms' = IF s.odd THEN alarms \cup {s.to} ELSE alarms
      /\ recorded' = recorded \cup {s.to} \/ recorded' = recorded
      /\ step' = [step EXCEPT ![r] = Waiting]
      /\ published' = published /\ witnessed' = witnessed /\ files' = files /\ partial' = partial
  BY <1>1 DEF Records
<1>3. s # Waiting
  BY <1>2 DEF Waiting
<1>4. /\ s.from \in 1 .. witnessed /\ s.to = s.from + 1 /\ s.to <= witnessed /\ witnessed \in Nat
      /\ RenamedOK(r)
  BY <1>1, <1>2, <1>3 DEF ReplayInv, StepsOK, StepOK, PublishedOK
<1>5. s.to \in 2 .. witnessed /\ Carried(s.to) /\ (s.odd => Deserved(s.to))
  BY <1>1, <1>4 DEF RenamedOK
<1>6. /\ step' \in [Replays -> {Waiting} \cup Steps] /\ step'[r] = Waiting
      /\ \A q \in Replays : q # r => step'[q] = step[q]
  BY <1>2, StepChanges
<1>7. FilesOK' /\ PartialOK' /\ PublishedOK'
  <2>1. FilesOK'
    BY <1>2, FileKeeps DEF ReplayInv, FilesOK
  <2>. QED
    BY <1>2, <2>1 DEF ReplayInv, PartialOK, PublishedOK
<1>8. StepsOK'
  <2>1. StepOK(r)'
    BY <1>6 DEF StepOK
  <2>2. ASSUME NEW q \in Replays, q # r PROVE StepOK(q)'
    BY <1>2, <1>6, <2>2, StepKeeps
  <2>. QED
    BY <1>6, <2>1, <2>2 DEF StepsOK
<1>9. AuditsOK'
  <2>1. \A e : Carried(e)' = Carried(e) /\ Deserved(e)' = Deserved(e)
    BY <1>2, SameWords
  <2>2. recorded' \in SUBSET (2 .. witnessed) /\ alarms' \in SUBSET (2 .. witnessed)
    BY <1>2, <1>5 DEF ReplayInv, AuditsOK
  <2>3. (\A e \in recorded' : Carried(e)) /\ (\A e \in alarms' : Deserved(e))
    BY <1>2, <1>5 DEF ReplayInv, AuditsOK
  <2>. QED
    BY <1>2, <2>1, <2>2, <2>3 DEF AuditsOK
<1>. QED
  BY <1>7, <1>8, <1>9 DEF ReplayInv

(* A crash forgets the steps and may cut a file that is being written.     *)
LEMMA ReplayCrashKeeps == ASSUME ReplayInv, ReplayCrash PROVE ReplayInv'
<1>1. /\ step' = [r \in Replays |-> Waiting]
      /\ \/ partial' = partial
         \/ partial' = [r \in Replays |-> IF Len(partial[r]) > 1 THEN Front(partial[r]) ELSE partial[r]]
      /\ published' = published /\ witnessed' = witnessed /\ files' = files
      /\ recorded' = recorded /\ alarms' = alarms
  BY DEF ReplayCrash
<1>2. FilesOK'
  BY <1>1, FileKeeps DEF ReplayInv, FilesOK
<1>3. StepsOK'
  BY <1>1 DEF StepsOK, StepOK
<1>4. PartialOK'
  <2>1. CASE partial' = partial
    BY <2>1 DEF ReplayInv, PartialOK
  <2>2. CASE partial' = [r \in Replays |-> IF Len(partial[r]) > 1 THEN Front(partial[r]) ELSE partial[r]]
    <3>1. PICK T : T = [label : Int, value : Nat]
      OBVIOUS
    <3>2. ASSUME NEW r \in Replays PROVE partial'[r] \in Seq(T) /\ CheckSorted(partial'[r])
      <4>1. PICK p : p = partial[r]
        OBVIOUS
      <4>2. p \in Seq(T) /\ CheckSorted(p)
        BY <3>1, <4>1 DEF ReplayInv, PartialOK
      <4>3. CASE Len(p) > 1
        <5>1. partial'[r] = Front(p)
          BY <2>2, <4>1, <4>3
        <5>2. PICK n \in Nat : n = Len(p) - 1 /\ n + 1 = Len(p)
          BY <4>2, <4>3
        <5>3. Front(p) = [i \in 1 .. n |-> p[i]]
          BY <4>2, <5>2 DEF Front
        <5>4. Front(p) \in Seq(T) /\ Len(Front(p)) = n /\ \A i \in 1 .. n : Front(p)[i] = p[i]
          BY <4>2, <5>2, <5>3
        <5>5. CheckSorted(Front(p))
          BY <4>2, <5>2, <5>4 DEF CheckSorted
        <5>. QED
          BY <5>1, <5>4, <5>5
      <4>4. CASE ~ (Len(p) > 1)
        BY <2>2, <4>1, <4>2, <4>4
      <4>. QED
        BY <4>3, <4>4
    <3>. QED
      BY <2>2, <3>1, <3>2 DEF PartialOK
  <2>. QED
    BY <1>1, <2>1, <2>2
<1>. QED
  BY <1>1, <1>2, <1>3, <1>4, AuditsKeep DEF ReplayInv

(* Nothing is published and nothing is on disk.                            *)
LEMMA ReplayStarts == ReplayInit => ReplayInv
<1>. SUFFICES ASSUME ReplayInit PROVE ReplayInv
  OBVIOUS
<1>1. /\ published = <<>> /\ witnessed = 0 /\ files = [r \in Replays |-> [e \in {} |-> NoFile]]
      /\ partial = [r \in Replays |-> NoFile] /\ step = [r \in Replays |-> Waiting]
      /\ recorded = {} /\ alarms = {}
  BY DEF ReplayInit
<1>2. PublishedOK
  BY <1>1, ProtonReplayAssumption DEF PublishedOK
<1>3. FilesOK
  BY <1>1 DEF FilesOK
<1>4. PartialOK
  BY <1>1, NoFileIsOrdered DEF PartialOK
<1>5. StepsOK
  BY <1>1 DEF StepsOK, StepOK
<1>6. AuditsOK
  BY <1>1 DEF AuditsOK
<1>. QED
  BY <1>2, <1>3, <1>4, <1>5, <1>6 DEF ReplayInv

(* Every step of the replay keeps the invariant.                           *)
LEMMA ReplayNextKeeps == ASSUME ReplayInv, [ReplayNext]_replayVars PROVE ReplayInv'
<1>1. CASE UNCHANGED replayVars
  <2>1. /\ published' = published /\ witnessed' = witnessed /\ files' = files /\ partial' = partial
        /\ step' = step /\ recorded' = recorded /\ alarms' = alarms
    BY <1>1 DEF replayVars
  <2>2. witnessed' \in Nat /\ witnessed <= witnessed'
    BY <2>1 DEF ReplayInv, PublishedOK
  <2>3. FilesOK' /\ PartialOK' /\ StepsOK' /\ AuditsOK'
    BY <2>1, <2>2, ReplaysKeep
  <2>. QED
    BY <2>1, <2>3, AuditsKeep DEF ReplayInv
<1>2. CASE ReplayNext
  BY <1>2, PublishEpochKeeps, WitnessesKeeps, ReplayCrashKeeps, BootstrapKeeps, BuildsKeeps,
     MatchesKeeps, MismatchesKeeps, RemoveBaseKeeps, RecordsKeeps DEF ReplayNext, Replay
<1>. QED
  BY <1>1, <1>2

-----------------------------------------------------------------------------
(* What the invariant says of the replay.                                  *)
LEMMA ReplayTyped == ReplayInv => ReplayTypeOK
<1>. SUFFICES ASSUME ReplayInv PROVE ReplayTypeOK
  OBVIOUS
<1>1. witnessed \in 0 .. Len(published) /\ Len(published) <= LastEpoch
  BY DEF ReplayInv, PublishedOK
<1>2. recorded \cup alarms \subseteq 2 .. witnessed
  BY DEF ReplayInv, AuditsOK
<1>3. ASSUME NEW r \in Replays
      PROVE  /\ DOMAIN files[r] \subseteq 1 .. witnessed
             /\ \A e \in DOMAIN files[r] : CheckSorted(files[r][e])
             /\ CheckSorted(partial[r])
  BY DEF ReplayInv, FilesOK, FileOK, PartialOK, LeafLists
<1>4. ASSUME NEW r \in Replays PROVE step[r].pc \in {"waiting", "built", "renamed", "record"}
  <2>1. step[r] = Waiting \/ step[r] \in Steps
    BY DEF ReplayInv, StepsOK
  <2>. QED
    BY <2>1 DEF Waiting, Steps
<1>. QED
  BY <1>1, <1>2, <1>3, <1>4 DEF ReplayTypeOK

(* Its parts say what the properties say.                                  *)
LEMMA ReplaySound ==
  ReplayInv => RetainedIsSigned /\ RecordedDiffsCarry /\ RootsAgree /\ AlarmsAreDeserved
<1>. SUFFICES ASSUME ReplayInv
              PROVE  RetainedIsSigned /\ RecordedDiffsCarry /\ RootsAgree /\ AlarmsAreDeserved
  OBVIOUS
<1>1. RetainedIsSigned
  BY DEF ReplayInv, FilesOK, FileOK, RetainedIsSigned
<1>2. RecordedDiffsCarry
  BY DEF ReplayInv, AuditsOK, Carried, RecordedDiffsCarry
<1>3. AlarmsAreDeserved
  BY DEF ReplayInv, AuditsOK, Deserved, AlarmsAreDeserved
<1>4. RootsAgree
  <2>1. ASSUME NEW r \in Replays, NEW e \in DOMAIN files[r], NEW d \in 1 .. Depth
        PROVE  /\ TreeRootParallel(files[r][e], d) = TreeRoot(files[r][e])
               /\ TreeRoot(files[r][e]) = SparseRoot(Range(files[r][e]))
    <3>1. files[r][e] \in LeafLists
      BY DEF ReplayInv, FilesOK, FileOK
    <3>. QED
      BY <3>1, RootsAreRebuilt
  <2>. QED
    BY <2>1 DEF RootsAgree
<1>. QED
  BY <1>1, <1>2, <1>3, <1>4

(* The newest of some epochs.                                              *)
LEMMA NewestFile ==
  ASSUME NEW F, NEW w \in Nat, F \subseteq 1 .. w, F # {}
  PROVE  LET b == CHOOSE e \in F : \A f \in F : f <= e
         IN  b \in F /\ \A f \in F : f <= b
<1>1. F \in SUBSET Int /\ w \in Int /\ \A f \in F : f <= w
  OBVIOUS
<1>2. \E e \in F : \A f \in F : f <= e
  BY <1>1, GreatestInt
<1>. QED
  BY <1>2

(* A file is only removed when a newer one is there.                       *)
LEMMA BaseStays ==
  ASSUME ReplayInv, ReplayInv', ReplayNext, NEW r \in Replays
  PROVE  Base(r)' >= Base(r)
<1>1. Base(r) \in Nat /\ witnessed' \in Nat /\ DOMAIN files'[r] \subseteq 1 .. witnessed'
  <2>1. Base(r) \in Nat
    BY BaseIsNewest DEF ReplayInv, PublishedOK
  <2>. QED
    BY <2>1 DEF ReplayInv, PublishedOK, FilesOK, FileOK
<1>2. DOMAIN files = Replays
  BY DEF ReplayInv, FilesOK
<1>3. ASSUME Base(r) # 0, NEW f \in DOMAIN files'[r], f >= Base(r) PROVE Base(r)' >= Base(r)
  <2>1. Base(r)' \in DOMAIN files'[r] /\ f <= Base(r)'
    <3>1. PICK F : F = DOMAIN files'[r]
      OBVIOUS
    <3>2. (CHOOSE e \in F : \A g \in F : g <= e) \in F /\ f <= (CHOOSE e \in F : \A g \in F : g <= e)
      BY <1>1, <1>3, <3>1, NewestFile
    <3>3. Base(r)' = CHOOSE e \in F : \A g \in F : g <= e
      BY <1>3, <3>1 DEF Base
    <3>. QED
      BY <3>1, <3>2, <3>3
  <2>. QED
    BY <1>1, <1>3, <2>1
<1>4. CASE Base(r) = 0
  <2>1. Base(r)' \in Nat
    <3>1. CASE DOMAIN files'[r] = {}
      BY <3>1 DEF Base
    <3>2. CASE DOMAIN files'[r] # {}
      <4>1. PICK F : F = DOMAIN files'[r]
        OBVIOUS
      <4>2. (CHOOSE e \in F : \A g \in F : g <= e) \in F
        BY <1>1, <3>2, <4>1, NewestFile
      <4>3. Base(r)' = CHOOSE e \in F : \A g \in F : g <= e
        BY <3>2, <4>1 DEF Base
      <4>. QED
        BY <1>1, <4>1, <4>2, <4>3
    <3>. QED
      BY <3>1, <3>2
  <2>. QED
    BY <1>4, <2>1
<1>5. CASE Base(r) # 0
  <2>1. Base(r) \in DOMAIN files[r] /\ \A f \in DOMAIN files[r] : f <= Base(r)
    BY <1>5, BaseIsNewest
  <2>2. CASE DOMAIN files[r] \subseteq DOMAIN files'[r]
    BY <1>1, <1>3, <1>5, <2>1, <2>2
  <2>3. CASE RemoveBase(r)
    <3>1. PICK s : s = step[r]
      OBVIOUS
    <3>2. s.pc = "renamed" /\ files' = Without(r, s.from)
      BY <2>3, <3>1 DEF RemoveBase
    <3>3. s # Waiting
      BY <3>2 DEF Waiting
    <3>4. s.from \in 1 .. witnessed /\ s.to = s.from + 1 /\ s.to \in DOMAIN files[r]
      BY <3>1, <3>2, <3>3 DEF ReplayInv, StepsOK, StepOK, RenamedOK
    <3>5. witnessed \in Nat /\ s.from # s.to /\ s.from < s.to
      BY <3>4 DEF ReplayInv, PublishedOK
    <3>6. DOMAIN files'[r] = DOMAIN files[r] \ {s.from}
      BY <1>2, <3>2, WithoutDrops
    <3>7. s.to \in DOMAIN files'[r]
      BY <3>4, <3>5, <3>6
    <3>8. CASE Base(r) = s.from
      BY <1>1, <1>3, <1>5, <3>4, <3>5, <3>7, <3>8
    <3>9. CASE Base(r) # s.from
      BY <1>1, <1>3, <1>5, <2>1, <3>6, <3>9
    <3>. QED
      BY <3>8, <3>9
  <2>4. CASE UNCHANGED files
    BY <2>2, <2>4
  <2>5. ASSUME NEW q \in Replays, Replay(q) PROVE RemoveBase(r) \/ DOMAIN files[r] \subseteq DOMAIN files'[r]
    <3>1. CASE Bootstrap(q)
      BY <1>2, <3>1, WithAdds DEF Bootstrap
    <3>2. CASE Matches(q)
      BY <1>2, <3>2, WithAdds DEF Matches
    <3>3. CASE RemoveBase(q)
      BY <1>2, <3>3, WithoutDrops DEF RemoveBase
    <3>4. CASE Builds(q) \/ Mismatches(q) \/ Records(q)
      BY <3>4 DEF Builds, Mismatches, Records
    <3>. QED
      BY <2>5, <3>1, <3>2, <3>3, <3>4 DEF Replay
  <2>. QED
    BY <2>2, <2>3, <2>4, <2>5 DEF ReplayNext, PublishEpoch, Witnesses, ReplayCrash
<1>. QED
  BY <1>4, <1>5

(* The invariant holds.                                                    *)
LEMMA ReplayInductive == ReplaySpec => []ReplayInv
<1>1. ReplayInit => ReplayInv
  BY ReplayStarts
<1>2. ReplayInv /\ [ReplayNext]_replayVars => ReplayInv'
  BY ReplayNextKeeps
<1>. QED
  BY <1>1, <1>2, PTL DEF ReplaySpec

(* The base never goes back.                                               *)
LEMMA ReplayGoesOn == ReplaySpec => NeverStartsOver
<1>1. ASSUME ReplayInv, ReplayInv', [ReplayNext]_replayVars
      PROVE  [\A r \in Replays : Base(r)' >= Base(r)]_files
  <2>1. CASE ReplayNext
    BY <1>1, <2>1, BaseStays
  <2>2. CASE UNCHANGED replayVars
    BY <2>2 DEF replayVars
  <2>. QED
    BY <1>1, <2>1, <2>2
<1>. QED
  BY <1>1, ReplayInductive, PTL DEF ReplaySpec, NeverStartsOver

(* The retained trees are what was signed, what is recorded was replayed,  *)
(* all ways of computing a root agree, and the replay never goes back, for *)
(* any labels, any number of epochs, replays, crashes and failures, and    *)
(* any depth of the tree (incremental.go:116-302, tree.go:132-411).        *)
THEOREM ReplayStaysSound == ReplaySpec => ReplayIsSound
<1>1. ReplayInv => ReplayTypeOK /\ RetainedIsSigned /\ RecordedDiffsCarry /\ RootsAgree
  BY ReplayTyped, ReplaySound
<1>2. ReplaySpec => [](ReplayTypeOK /\ RetainedIsSigned /\ RecordedDiffsCarry /\ RootsAgree)
  BY <1>1, ReplayInductive, PTL
<1>. QED
  BY <1>2, ReplayGoesOn DEF ReplayIsSound

(* Removals are reported only where the retention window, or the diff,     *)
(* gives a reason (removals.go:123-171).                                   *)
THEOREM AlarmsStayDeserved == ReplaySpec => []AlarmsAreDeserved
<1>1. ReplayInv => AlarmsAreDeserved
  BY ReplaySound
<1>. QED
  BY <1>1, ReplayInductive, PTL
=============================================================================
