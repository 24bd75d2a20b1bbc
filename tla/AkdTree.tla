------------------------------- MODULE AkdTree -------------------------------
(***************************************************************************)
(* Append-only proofs of Meta's and WhatsApp's trees: internal/akdtree     *)
(* (verify.go), with the two callers that rebuild roots from a proof, the  *)
(* witness's GoVerifier (src/internal/audit/goverify.go) and the fleet's   *)
(* akdVerifier (src/cmd/kt-worker/verify.go).                              *)
(*                                                                         *)
(* Hashes are terms.  A label is Bits bits, of which the first len count;  *)
(* an element is dirty when a bit behind them is set, which the wire format*)
(* allows.  A value is an atom: the proof of a subtree is that subtree's   *)
(* hash, which is why distinct element sets with equal roots exist outside *)
(* these bounds and mean the same tree.                                    *)
(***************************************************************************)
EXTENDS Integers, Sequences, FiniteSets, SequencesExt, FiniteSetsExt

CONSTANTS Bits, Values, EndEpoch,
          MaxElements    \* bound: elements of a proof

ASSUME AkdTreeAssumption == Bits \in Nat \ {0} /\ MaxElements \in Nat

VARIABLES unchanged, inserted   \* the node sets of the proof at hand
proofVars == <<unchanged, inserted>>

Element == [label : [1..Bits -> {0, 1}], len : 0..Bits, value : {<<"value", v>> : v \in Values}]

-----------------------------------------------------------------------------
(* Hashes.                                                                 *)
NoRoot == <<"error">>
EmptyChild == [val |-> <<"empty node">>, lab |-> <<"empty label">>]
LabelValue(bits, len) == <<"label", bits, len>>
ParentHash(l, r) == <<"parent", l.val, l.lab, r.val, r.lab>>
Committed(e) == [e EXCEPT !.value = <<"commit", @, EndEpoch>>]

(* Labels, as bytes.Compare orders them, and then by length.               *)
LabelBefore(a, b) ==
    \E n \in 1..Bits : a[n] < b[n] /\ \A m \in 1..n - 1 : a[m] = b[m]
(* Variant: the shorter label first.                                       *)
BeforeByLength(a, b) ==
    \/ a.len < b.len
    \/ /\ a.len = b.len
       /\ LabelBefore(a.label, b.label)
Before(a, b) ==
    \/ LabelBefore(a.label, b.label)
    \/ /\ a.label = b.label
       /\ a.len < b.len

CommonPrefixLen(a, b) ==
    Max({n \in 0..Min({a.len, b.len}) : \A i \in 1..n : a.label[i] = b.label[i]})
PrefixOf(label, len) == [i \in 1..Bits |-> IF i <= len THEN label[i] ELSE 0]

-----------------------------------------------------------------------------
(* The tree over a sorted sequence.                                        *)
(* Sort: the least of what is left, one by one; of two at one place either.*)
Least(s) == CHOOSE e \in s : \A d \in s : ~Before(d, e)
SortedElements(s) ==
    LET left[k \in 0..Cardinality(s)] ==
            IF k = 0 THEN s ELSE left[k - 1] \ {Least(left[k - 1])}
    IN [k \in 1..Cardinality(s) |-> Least(left[k - 1])]

FirstOne(elems, lo, hi, bit) == Min({hi + 1} \cup {i \in lo..hi : elems[i].label[bit] = 1})

OnInterior(e, lcp) == e.len = lcp

(* subtree, of the elements lo..hi.                                        *)
Failed == [val |-> NoRoot, lab |-> NoRoot]
LeafOf(e) == [val |-> e.value, lab |-> LabelValue(e.label, e.len)]
NodeOf(l, r, label, len) == [val |-> ParentHash(l, r), lab |-> LabelValue(PrefixOf(label, len), len)]
Joined(l, r, label, len) == IF NoRoot \in {l.val, r.val} THEN Failed ELSE NodeOf(l, r, label, len)

Covering(elems, lo, hi, sub) ==
    LET lcp == CommonPrefixLen(elems[lo], elems[hi])
        split == FirstOne(elems, lo, hi, lcp + 1)
    IN IF hi < lo THEN EmptyChild
       ELSE IF lo = hi THEN LeafOf(elems[lo])
       ELSE IF OnInterior(elems[lo], lcp) THEN Failed
       ELSE IF split = lo \/ split = hi + 1 THEN Failed
       ELSE Joined(sub[lo][split - 1], sub[split][hi], elems[lo].label, lcp)

SubtreeOf(elems, from, to) ==
    LET sub[lo \in 1..Len(elems) + 1] == [hi \in 0..Len(elems) |-> Covering(elems, lo, hi, sub)]
    IN sub[from][to]

(* Root: the root's own split is on the first bit.                         *)
JoinedRoot(l, r) == IF NoRoot \in {l.val, r.val} THEN NoRoot ELSE <<"root", ParentHash(l, r)>>
RootOf(elems) ==
    LET split == FirstOne(elems, 1, Len(elems), 1)
    IN IF elems = <<>> THEN <<"root", <<"empty root">>>>
       ELSE JoinedRoot(SubtreeOf(elems, 1, split - 1), SubtreeOf(elems, split, Len(elems)))

(* merge: the ordered union of two sorted sequences, by how much of each   *)
(* has been taken after k elements.                                        *)
Merged(a, b) ==
    LET taken[k \in 0..Len(a) + Len(b)] ==
            LET t == taken[k - 1]
            IN IF k = 0 THEN [a |-> 0, b |-> 0]
               ELSE IF t.b = Len(b) \/ (t.a < Len(a) /\ Before(a[t.a + 1], b[t.b + 1]))
               THEN [t EXCEPT !.a = @ + 1] ELSE [t EXCEPT !.b = @ + 1]
    IN [k \in 1..Len(a) + Len(b) |->
           IF taken[k].a > taken[k - 1].a THEN a[taken[k].a] ELSE b[taken[k].b]]

(* Verifier.Roots: the witness's own.                                      *)
WitnessRoots(u, i) ==
    [prev |-> RootOf(SortedElements(u)),
     curr |-> RootOf(Merged(SortedElements(u), SortedElements({Committed(e) : e \in i})))]

(* akdVerifier.verify: a worker's.  Two elements at one place are in either*)
(* order, and an error in both.                                            *)
WorkerRoots(u, i) ==
    [prev |-> RootOf(SortedElements(u)),
     curr |-> RootOf(SortedElements(u \cup {Committed(e) : e \in i}))]

(* What is concluded of roots that were computed, given the published ones:*)
(* no roots is no verdict, and only "verify" accuses.                      *)
Verdict(roots, public) ==
    CASE NoRoot \in {roots.prev, roots.curr} -> "decode"
      [] roots = public -> "ok"
      [] OTHER -> "verify"

-----------------------------------------------------------------------------
(* The proofs there are: an element at a time.                             *)
AddUnchanged ==
    /\ Cardinality(unchanged \cup inserted) < MaxElements
    /\ \E e \in Element : unchanged' = unchanged \cup {e}
    /\ UNCHANGED inserted
AddInserted ==
    /\ Cardinality(unchanged \cup inserted) < MaxElements
    /\ \E e \in Element : inserted' = inserted \cup {e}
    /\ UNCHANGED unchanged

AkdTreeInit == unchanged = {} /\ inserted = {}
AkdTreeNext == AddUnchanged \/ AddInserted
AkdTreeSpec == AkdTreeInit /\ [][AkdTreeNext]_proofVars

-----------------------------------------------------------------------------
CleanLabel(e) == e.label = PrefixOf(e.label, e.len)
(* The root parts by the first bit whatever the lengths, so that an empty  *)
(* label is over those of its own side only.                               *)
Under(e, d) ==
    /\ d.label[1] = e.label[1]
    /\ d.len >= e.len /\ PrefixOf(d.label, e.len) = PrefixOf(e.label, e.len)

(* The tree by its definition, with no order: what a set shares is passed  *)
(* over, and a node stands where it parts.                                 *)
WithBit(s, n, bit) == {e \in s : e.label[n] = bit}
TrieOver(s) ==
    LET below[n \in 1..Bits] ==
            [t \in SUBSET s |->
                LET e == CHOOSE x \in t : TRUE
                    l == WithBit(t, n + 1, 0)
                    r == WithBit(t, n + 1, 1)
                IN IF t = {} THEN EmptyChild
                   ELSE IF t = {e} THEN LeafOf(e)
                   ELSE IF n = Bits THEN Failed
                   ELSE IF {} \in {l, r} THEN below[n + 1][t]
                   ELSE NodeOf(below[n + 1][l], below[n + 1][r], e.label, n)]
    IN below[1][s]
TrieRoot(s) ==
    IF s = {} THEN <<"root", <<"empty root">>>>
    ELSE IF \E d, e \in s : d # e /\ Under(d, e) THEN NoRoot
    ELSE <<"root", ParentHash(TrieOver(WithBit(s, 1, 0)), TrieOver(WithBit(s, 1, 1)))>>

(* On clean labels the sorted array gives the roots the trie is defined to *)
(* have, and an error exactly when one element would sit on a node over    *)
(* another (verify.go:27, "the arithmetic here is identical and the data   *)
(* structure is not").                                                     *)
RootsAreTheTries ==
    (\A e \in unchanged \cup inserted : CleanLabel(e)) =>
      /\ WitnessRoots(unchanged, inserted).prev = TrieRoot(unchanged)
      /\ WitnessRoots(unchanged, inserted).curr = TrieRoot(unchanged \cup {Committed(e) : e \in inserted})

(* No committed value is left out of a root that is reported: without any  *)
(* one element, dirty or not, the root is another (verify.go subtree, "a   *)
(* dropped node is a committed value that never reached the tree").        *)
NothingIsDropped ==
    LET roots == WitnessRoots(unchanged, inserted)
    IN /\ \A e \in unchanged : roots.prev # NoRoot => WitnessRoots(unchanged \ {e}, {}).prev # roots.prev
       /\ \A e \in inserted : roots.curr # NoRoot => WitnessRoots(unchanged, inserted \ {e}).curr # roots.curr
       /\ \A e \in unchanged : roots.curr # NoRoot => WitnessRoots(unchanged \ {e}, inserted).curr # roots.curr

(* The witness merges two sorted sets and the fleet sorts their union: a   *)
(* proof gets one verdict from both, whatever roots were published, those  *)
(* of another set of additions among them (kt-worker/verify.go, "internal/ *)
(* akdtree does"; goverify.go, "the distinction is load-bearing").         *)
FleetAndWitnessAgree ==
    \A s \in SUBSET inserted :
        LET public == WitnessRoots(unchanged, s)
        IN Verdict(WitnessRoots(unchanged, inserted), public) =
           Verdict(WorkerRoots(unchanged, inserted), public)

(* Witness and fleet compute, from one proof, the roots of the tree the    *)
(* proof's elements make, and both from all of its elements.               *)
ProofsAreReadAlike == RootsAreTheTries /\ NothingIsDropped /\ FleetAndWitnessAgree
=============================================================================
