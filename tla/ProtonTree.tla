----------------------------- MODULE ProtonTree -----------------------------
(***************************************************************************)
(* Proton's directory as a sparse Merkle tree: rebuilding its root from    *)
(* the published leaves, applying an epoch's diff, and judging removals    *)
(* (src/internal/source/proton/tree.go, removals.go).                      *)
(*                                                                         *)
(* A leaf is a label and a value, and a value is the epoch the leaf        *)
(* entered at.  A hash is the term that is hashed, so two hashes are equal *)
(* when the hashed data are.                                               *)
(***************************************************************************)
EXTENDS Integers, Sequences, FiniteSets, SequencesExt

CONSTANT Depth   \* treeDepth: bits of a label

ASSUME ProtonTreeAssumption == Depth \in Nat \ {0}

Label == 0 .. 2^Depth - 1

Leaf(l, v) == [label |-> l, value |-> v]

BitAt(label, level) == (label \div 2^(Depth - level)) % 2

EmptyNode == <<>>
LeafHash(v) == <<v>>

(* combine: the parent of h and of an empty sibling.                       *)
Combine(h, label, level) ==
    IF BitAt(label, level) = 0 THEN <<h, EmptyNode>> ELSE <<EmptyNode, h>>

Join(left, right) ==
    IF left = EmptyNode /\ right = EmptyNode THEN EmptyNode ELSE <<left, right>>

(* The levels of a tree over the row of hashes at depth, joined in pairs.  *)
JoinUp(bottom, depth) ==
    LET row[k \in 0 .. depth] ==
            IF k = depth THEN bottom
            ELSE [s \in 0 .. 2^k - 1 |-> Join(row[k + 1][2 * s], row[k + 1][2 * s + 1])]
    IN row[0][0]

CheckSorted(leaves) ==
    \A i \in 2 .. Len(leaves) : leaves[i - 1].label < leaves[i].label

(* Leaves, or records of a diff, are published in the order of the labels. *)
Sorted(S) == CHOOSE t \in [1 .. Cardinality(S) -> S] : CheckSorted(t) /\ Range(t) = S

(* The binary search of partition and lowerBound: the first index in       *)
(* lo .. hi at which Below no longer holds.                                *)
Search(below, lo, hi) ==
    LET s[a \in lo .. hi] == [b \in lo .. hi |->
            IF a >= b THEN a
            ELSE LET mid == a + (b - a) \div 2
                 IN IF below[mid] THEN s[mid + 1][b] ELSE s[a][mid]]
    IN s[lo][hi]

(* partition: the leaves lo .. hi - 1 that go left at depth end there.     *)
Partition(leaves, lo, hi, depth) ==
    Search([i \in DOMAIN leaves |-> BitAt(leaves[i].label, depth + 1) = 0], lo, hi)

(* subtree: the roots over the leaves lo .. hi - 1 seen from depth, of     *)
(* those one level below.  A lone leaf is lifted to depth, and no two      *)
(* leaves share a whole label.                                             *)
Lifted(leaf, depth) ==
    LET up[level \in depth .. Depth] ==
            IF level = Depth THEN LeafHash(leaf.value)
            ELSE Combine(up[level + 1], leaf.label, level + 1)
    IN up[depth]

SubtreesAt(leaves, first, past, depth, below) ==
    [lo \in first .. past |-> [hi \in first .. past |->
        IF lo = hi THEN EmptyNode
        ELSE IF hi - lo = 1 \/ depth = Depth THEN Lifted(leaves[lo], depth)
        ELSE LET mid == Partition(leaves, lo, hi, depth)
             IN Join(below[lo][mid], below[mid][hi])]]

Subtree(leaves, first, past, from) ==
    LET sub[depth \in from .. Depth] ==
            SubtreesAt(leaves, first, past, depth, sub[depth + 1])
    IN sub[from][first][past]

TreeRoot(leaves) == Subtree(leaves, 1, Len(leaves) + 1, 0)

(* TreeRootParallel: a root for each of 2^d shards, joined level by level. *)
LowerBound(leaves, prefix, bits) ==
    Search([i \in DOMAIN leaves |-> leaves[i].label \div 2^(Depth - bits) < prefix],
           1, Len(leaves) + 1)

TreeRootParallel(leaves, d) ==
    LET bound(s) == IF s = 0 THEN 1 ELSE IF s = 2^d THEN Len(leaves) + 1
                    ELSE LowerBound(leaves, s, d)
    IN JoinUp([s \in 0 .. 2^d - 1 |-> Subtree(leaves, bound(s), bound(s + 1), d)], d)

----------------------------------------------------------------------------

Record(op, l, v) == [op |-> op, label |-> l, value |-> v]

(* ApplyDiff: one pass over the tree and the diff, both ascending.  An     *)
(* addition of a label that is there keeps the old value.                  *)
Nothing == [out |-> <<>>, removed |-> {}, phantom |-> {}, overwritten |-> 0]

Merged(tree, diff, i, j, go) ==
    LET treeLeft == i <= Len(tree)
        diffLeft == j <= Len(diff)
        leaf == Leaf(diff[j].label, diff[j].value)
        keep(kept, rest) == [rest EXCEPT !.out = <<kept>> \o @]
    IN CASE ~ treeLeft /\ ~ diffLeft -> Nothing
         [] treeLeft /\ (diffLeft => tree[i].label < diff[j].label) ->
               keep(tree[i], go[i + 1][j])
         [] treeLeft /\ diffLeft /\ tree[i].label = diff[j].label ->
               IF diff[j].op = "remove"
               THEN [go[i + 1][j + 1] EXCEPT !.removed = @ \cup {tree[i]}]
               ELSE keep(tree[i], [go[i + 1][j + 1] EXCEPT !.overwritten = @ + 1])
         [] OTHER ->
               IF diff[j].op = "add" THEN keep(leaf, go[i][j + 1])
               ELSE [go[i][j + 1] EXCEPT !.phantom = @ \cup {leaf}]

ApplyDiff(tree, diff) ==
    LET go[i \in 1 .. Len(tree) + 1] ==
            [j \in 1 .. Len(diff) + 1 |-> Merged(tree, diff, i, j, go)]
    IN go[1][1]

(* Variant: a leaf of the oldest retained epoch counts as explained.       *)
CleanAtTheEdge(stats, start) ==
    start > 0 /\ \A leaf \in stats.removed \cup stats.phantom : leaf.value < start - 1

(* JudgeRemovals: a removal is explained when the leaf is older than the   *)
(* oldest epoch that the removing epoch retains.                           *)
Clean(stats, start) ==
    start > 0 /\ \A leaf \in stats.removed \cup stats.phantom : leaf.value < start

----------------------------------------------------------------------------

(* What a root is: an empty node over no leaf, a leaf's hash at the        *)
(* bottom, and the join of the halves in between.                          *)
LeafAt(S, l) ==
    IF \E leaf \in S : leaf.label = l
    THEN LeafHash((CHOOSE leaf \in S : leaf.label = l).value)
    ELSE EmptyNode
SparseRoot(S) == JoinUp([l \in Label |-> LeafAt(S, l)], Depth)

(* What a diff does to a set of leaves.                                    *)
Changed(S, D) ==
    LET labels == {leaf.label : leaf \in S}
    IN {leaf \in S : ~\E r \in D : r.op = "remove" /\ r.label = leaf.label}
         \cup {Leaf(r.label, r.value) : r \in {q \in D : q.op = "add" /\ q.label \notin labels}}
=============================================================================
