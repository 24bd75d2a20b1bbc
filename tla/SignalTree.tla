----------------------------- MODULE SignalTree -----------------------------
(***************************************************************************)
(* The trees Signal's proofs are about, as internal/source/signal computes *)
(* with them: the log tree (logtree.go), the auditor's frontier of it      *)
(* (frontier.go), the implicit search tree and its guide (implicit.go), and*)
(* the prefix tree (prefixtree.go).  Operators only; hashes are terms.     *)
(***************************************************************************)
EXTENDS Integers, Sequences, FiniteSets, SequencesExt, FiniteSetsExt

Fails == <<"error">>

-----------------------------------------------------------------------------
(* RFC 9420 node arithmetic.  The code's exclusive ors flip bits it knows: *)
(* below level(x) all are one, and the bit at level(x) is zero.            *)
Log2(n) == IF n = 0 THEN 0 ELSE Max({k \in 0..n : 2^k <= n})
Level(x) == Max({k \in 0..(x + 1) : x % 2^k = 2^k - 1})
LeftStep(x) == x - 2^(Level(x) - 1)
RightStep(x) == x + 2^(Level(x) - 1)
ParentStep(x) ==
    LET k == Level(x)
    IN IF (x \div 2^(k + 1)) % 2 = 0 THEN x + 2^k ELSE x + 2^k - 2^(k + 1)
NodeWidth(n) == IF n = 0 THEN 0 ELSE 2 * (n - 1) + 1
TreeTop(n) == 2^Log2(NodeWidth(n)) - 1

RECURSIVE DescendInto(_, _)
DescendInto(r, n) == IF r < NodeWidth(n) THEN r ELSE DescendInto(LeftStep(r), n)
RightChild(x, n) == DescendInto(RightStep(x), n)

RECURSIVE AscendInto(_, _)
AscendInto(p, n) == IF p < NodeWidth(n) THEN p ELSE AscendInto(ParentStep(p), n)
ParentOf(x, n) == AscendInto(ParentStep(x), n)
Sibling(x, n) ==
    LET p == ParentOf(x, n) IN IF x < p THEN RightChild(p, n) ELSE LeftStep(p)

IsFullSubtree(x, n) == x + 2^Level(x) - 1 <= 2 * (n - 1)
RECURSIVE FullSubtrees(_, _)
FullSubtrees(x, n) ==
    IF IsFullSubtree(x, n) THEN <<x>> ELSE <<LeftStep(x)>> \o FullSubtrees(RightChild(x, n), n)

(* subProof: the nodes of a consistency proof from m leaves to n.          *)
RECURSIVE ConsistencyNodes(_, _, _)
ConsistencyNodes(m, n, whole) ==
    LET k == IF 2^Log2(n) = n THEN n \div 2 ELSE 2^Log2(n)
    IN CASE m = n -> IF whole THEN <<>> ELSE <<TreeTop(m)>>
         [] m < n /\ m <= k -> ConsistencyNodes(m, k, whole) \o <<RightChild(TreeTop(n), n)>>
         [] OTHER -> LET right == ConsistencyNodes(m - k, n - k, FALSE)
                     IN <<LeftStep(TreeTop(n))>> \o [i \in DOMAIN right |-> right[i] + 2 * k]

-----------------------------------------------------------------------------
(* treeHash of two nodes; a leaf is marked as one in its parent's preimage.*)
Node(lvl, value) == [interior |-> lvl # 0, value |-> value]
TreeHash(l, r) == [interior |-> TRUE, value |-> <<"H", l, r>>]

(* rootCalculator                                                          *)
NoNode == [interior |-> FALSE, value |-> <<"none">>]
RECURSIVE Carry(_, _, _)
Carry(chain, acc, i) ==
    CASE i > Len(chain) -> Append(chain, acc)
      [] i <= Len(chain) /\ chain[i] = NoNode -> [chain EXCEPT ![i] = acc]
      [] OTHER -> Carry([chain EXCEPT ![i] = NoNode], TreeHash(chain[i], acc), i + 1)
InsertNode(chain, lvl, value) ==
    Carry(chain \o [i \in 1..Max({0, lvl + 1 - Len(chain)}) |-> NoNode], Node(lvl, value), lvl + 1)
ChainRoot(chain) ==
    LET there == SelectSeq(chain, LAMBDA nd : nd # NoNode)
    IN IF there = <<>> THEN Fails
       ELSE FoldLeft(LAMBDA acc, nd : TreeHash(nd, acc), Head(there), Tail(there)).value
InsertAll(chain, nodes, values) ==
    FoldLeft(LAMBDA c, i : InsertNode(c, Level(nodes[i]), values[i]), chain, [i \in DOMAIN nodes |-> i])

(* batchCopath, a level at a time.                                         *)
RECURSIVE OneLevel(_, _, _, _)
OneLevel(nodes, next, out, n) ==
    LET p == ParentOf(nodes[1], n)
    IN CASE nodes = <<>> -> [next |-> next, out |-> out]
         [] Len(nodes) > 1 ->
              IF RightChild(p, n) = nodes[2]
              THEN OneLevel(SubSeq(nodes, 3, Len(nodes)), Append(next, p), out, n)
              ELSE OneLevel(Tail(nodes), Append(next, p), out \cup {Sibling(nodes[1], n)}, n)
         [] OTHER ->
              IF next # <<>> /\ Level(p) > Level(next[1])
              THEN [next |-> Append(next, nodes[1]), out |-> out]
              ELSE [next |-> Append(next, p), out |-> out \cup {Sibling(nodes[1], n)}]
RECURSIVE CopathFrom(_, _, _)
CopathFrom(nodes, out, n) ==
    IF nodes = <<TreeTop(n)>> THEN out
    ELSE LET l == OneLevel(nodes, <<>>, out, n) IN CopathFrom(l.next, l.out, n)
InOrder(set) == [i \in 1..Cardinality(set) |-> CHOOSE x \in set : Cardinality({y \in set : y < x}) = i - 1]
BatchCopath(leaves, n) ==
    InOrder(CopathFrom([i \in DOMAIN leaves |-> 2 * leaves[i]], {}, n))

(* evaluateBatchProof; leaves is the ids in ascending order.               *)
EvaluateBatch(leaves, n, values, proof) ==
    LET copath == BatchCopath(leaves, n)
        all == InOrder({2 * leaves[i] : i \in DOMAIN leaves} \cup ToSet(copath))
        of(x) == IF Contains(copath, x) THEN proof[CHOOSE i \in DOMAIN copath : copath[i] = x]
                 ELSE values[CHOOSE i \in DOMAIN leaves : 2 * leaves[i] = x]
    IN CASE leaves = <<>> \/ (\E i \in 2..Len(leaves) : leaves[i - 1] >= leaves[i]) -> Fails
         [] leaves # <<>> /\ (Last(leaves) >= n \/ Len(leaves) # Len(values)) -> Fails
         [] OTHER -> IF Len(proof) # Len(copath) THEN Fails
                     ELSE ChainRoot(InsertAll(<<>>, all, [i \in DOMAIN all |-> of(all[i])]))

(* deriveRoot                                                              *)
DeriveRoot(m, n, proof, mRoot) ==
    LET ids == ConsistencyNodes(m, n, TRUE)
        path == FullSubtrees(TreeTop(m), m)
        held == InsertAll(<<>>, SubSeq(ids, 1, Len(path)), SubSeq(proof, 1, Len(path)))
        rest(chain, from) == ChainRoot(InsertAll(chain, SubSeq(ids, from, Len(ids)), SubSeq(proof, from, Len(ids))))
    IN CASE m \notin 1..(n - 1) \/ Len(proof) # Len(ids) -> Fails
         [] m \in 1..(n - 1) /\ Len(path) = 1 -> rest(InsertNode(<<>>, Level(TreeTop(m)), mRoot), 1)
         [] OTHER -> IF SubSeq(ids, 1, Len(path)) # path \/ ChainRoot(held) # mRoot THEN Fails
                     ELSE rest(held, Len(path) + 1)

(* LogFrontier                                                             *)
RECURSIVE AppendCarry(_, _, _, _)
AppendCarry(size, subtrees, carry, lvl) ==
    IF size % 2 = 0 THEN Append(subtrees, carry.value)
    ELSE AppendCarry(size \div 2, Front(subtrees), TreeHash(Node(lvl, Last(subtrees)), carry), lvl + 1)
AppendLeaf(size, subtrees, leaf) == AppendCarry(size, subtrees, Node(0, leaf), 0)
FrontierRoot(size, subtrees) ==
    FoldRight(LAMBDA value, acc : TreeHash(Node(1, value), acc), Front(subtrees),
              Node((size + 1) % 2, Last(subtrees))).value

-----------------------------------------------------------------------------
(* The log tree itself, by the definition of a left-balanced tree: a left  *)
(* half of the largest power of two below the size; a node x of it, and    *)
(* the proof an honest service sends for a list of nodes.                  *)
RECURSIVE TreeOver(_)
TreeOver(leaves) ==
    LET n == Len(leaves)
        k == IF 2^Log2(n) = n THEN n \div 2 ELSE 2^Log2(n)
    IN IF n = 1 THEN Node(0, leaves[1])
       ELSE TreeHash(TreeOver(SubSeq(leaves, 1, k)), TreeOver(SubSeq(leaves, k + 1, n)))
RootOver(leaves) == TreeOver(leaves).value
ValueAt(x, leaves) ==
    LET reach == 2^Level(x) - 1
    IN RootOver(SubSeq(leaves, (x - reach) \div 2 + 1, Min({Len(leaves), (x + reach) \div 2 + 1})))
ProofFor(nodes, leaves) == [i \in DOMAIN nodes |-> ValueAt(nodes[i], leaves)]
Untrue == <<"forged">>

-----------------------------------------------------------------------------
(* The implicit search tree over entries start..n-1.                       *)
RECURSIVE MoveWithin(_, _, _)
MoveWithin(x, start, n) ==
    CASE x < start -> MoveWithin(RightStep(x), start, n)
      [] x >= n -> MoveWithin(LeftStep(x), start, n)
      [] OTHER -> x
SearchRoot(start, n) == MoveWithin(2^Log2(n) - 1, start, n)
SearchLeft(x, start, n) == MoveWithin(LeftStep(x), start, n)
SearchRight(x, start, n) == MoveWithin(RightStep(x), start, n)
RECURSIVE RightEdge(_, _, _)
RightEdge(x, start, n) == IF x = n - 1 THEN <<x>> ELSE <<x>> \o RightEdge(SearchRight(x, start, n), start, n)
SearchFrontier(start, n) == RightEdge(SearchRoot(start, n), start, n)

(* proofGuide: ids asked for, the counters got so far, and the version     *)
(* looked for; wanted is AnyVersion for the newest.                        *)
AnyVersion == -1
NewGuide(wanted, pos, n) ==
    [pos |-> pos, n |-> n, version |-> wanted, edge |-> wanted = AnyVersion, got |-> <<>>, state |-> "asks",
     ids |-> IF wanted = AnyVersion THEN SearchFrontier(pos, n) ELSE <<SearchRoot(pos, n)>>]

Monotonic(g) == \A i, j \in DOMAIN g.got : g.ids[i] < g.ids[j] => g.got[i] <= g.got[j]
Answered(g, id) == g.got[CHOOSE i \in DOMAIN g.got : g.ids[i] = id]
(* Variant: once the version is met the search ends.                       *)
GoesOnFromFirst(g, last, ctr) == last % 2 = 1 /\ ctr < g.version /\ last # g.n - 1
GoesOn(g, last, ctr) == last % 2 = 1 /\ (IF ctr < g.version THEN last # g.n - 1 ELSE last # g.pos)

Poll(g) ==
    LET newest == Answered(g, Max(ToSet(g.ids)))
        version == IF g.edge THEN newest ELSE g.version
        h == [g EXCEPT !.version = version, !.edge = FALSE]
        last == IF g.edge THEN Min({g.ids[i] : i \in {j \in DOMAIN g.got : g.got[j] = version}})
                ELSE Last(g.ids)
        ctr == Answered(g, last)
    IN CASE Len(g.ids) > Len(g.got) -> g
         [] Len(g.ids) = Len(g.got) /\ ~Monotonic(g) -> [g EXCEPT !.state = "error"]
         [] OTHER -> IF ~GoesOn(h, last, ctr) THEN [h EXCEPT !.state = "done"]
                     ELSE [h EXCEPT !.ids = Append(@, IF ctr < version THEN SearchRight(last, g.pos, g.n)
                                                      ELSE SearchLeft(last, g.pos, g.n))]
NextId(g) == g.ids[Len(g.got) + 1]
Inserted(g, ctr) == [g EXCEPT !.got = Append(@, ctr)]
(* The search run to its end, every counter read from the function given.  *)
RECURSIVE Searched(_, _)
Searched(g, counter) ==
    LET h == Poll(g)
    IN IF h.state # "asks" \/ Len(h.ids) = Len(h.got) THEN h
       ELSE Searched(Inserted(h, counter[NextId(h)]), counter)
(* result: the index of the step that holds the answer, 0 for none.        *)
ResultOf(g) ==
    LET there == {i \in DOMAIN g.got : g.got[i] >= g.version}
        first == CHOOSE i \in there : \A j \in there : g.ids[i] <= g.ids[j]
    IN IF there = {} THEN 0 ELSE IF g.got[first] = g.version THEN first ELSE 0

-----------------------------------------------------------------------------
(* The prefix tree: evaluatePrefixProof, deepest sibling first.            *)
PrefixLeafHash(index, ctr, pos) == <<"prefix leaf", index, ctr, pos>>
PrefixParentHash(l, r) == <<"prefix node", l, r>>
EvaluatePrefix(index, ctr, pos, proof) ==
    IF Len(proof) # Len(index) THEN Fails
    ELSE FoldLeft(LAMBDA value, i :
                      IF index[Len(index) + 1 - i] = 0 THEN PrefixParentHash(value, proof[i])
                      ELSE PrefixParentHash(proof[i], value),
                  PrefixLeafHash(index, ctr, pos), [i \in DOMAIN proof |-> i])

LogLeafHash(prefixRoot, commitment) == <<"log leaf", prefixRoot, commitment>>
CommitmentOf(key, value, nonce) == <<"commitment", key, value, nonce>>
VerifyCommitment(key, commitment, value, nonce) == commitment = CommitmentOf(key, value, nonce)
=============================================================================
