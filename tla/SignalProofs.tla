---------------------------- MODULE SignalProofs ----------------------------
(***************************************************************************)
(* Signal's tree proofs against the trees themselves: a log grows one leaf *)
(* at a time, an auditor keeps only its frontier, and at every size each   *)
(* proof the witness evaluates (consistency from every smaller tree, batch *)
(* inclusion of every set of leaves, and the binary search for every       *)
(* version of a key) is compared with the same question asked of the whole *)
(* tree.                                                                   *)
(***************************************************************************)
EXTENDS SignalTree

CONSTANTS LargestLog,   \* the bound on the number of leaves
          LastVersion   \* the largest version counter of a key

ASSUME LargestLogAssumption == LargestLog \in Nat /\ LastVersion \in Nat

VARIABLES logSize, subtrees
treeVars == <<logSize, subtrees>>

TreeInit == logSize = 0 /\ subtrees = <<>>
AppendOne ==
    /\ logSize < LargestLog
    /\ logSize' = logSize + 1
    /\ subtrees' = AppendLeaf(logSize, subtrees, <<"leaf", logSize>>)
TreeNext == AppendOne
TreeSpec == TreeInit /\ [][TreeNext]_treeVars

-----------------------------------------------------------------------------
OwnLeaves == [i \in 1..logSize |-> <<"leaf", i - 1>>]
(* The counters an honest log holds from the key's first entry on.         *)
Histories(pos, n) ==
    {c \in [pos..(n - 1) -> 0..LastVersion] :
        c[pos] = 0 /\ \A i \in pos..(n - 2) : c[i + 1] \in {c[i], c[i] + 1}}

-----------------------------------------------------------------------------
(* The frontier an auditor keeps gives the root of the whole log at every  *)
(* size, whatever carries the append caused (LogFrontier.Append, Root).    *)
FrontierIsTheTree == logSize > 0 => FrontierRoot(logSize, subtrees) = RootOver(OwnLeaves)

(* A consistency proof from any smaller tree derives this tree's root, and *)
(* derives it from that tree's root only: from another root, or with any   *)
(* hash of it forged, it fails or gives some other root (deriveRoot; the   *)
(* callers compare what it gives with a signed root).                      *)
ConsistencyDerivesTheRoot ==
    \A m \in 1..(logSize - 1) :
        LET proof == ProofFor(ConsistencyNodes(m, logSize, TRUE), OwnLeaves)
            old == RootOver(SubSeq(OwnLeaves, 1, m))
        IN /\ DeriveRoot(m, logSize, proof, old) = RootOver(OwnLeaves)
           /\ DeriveRoot(m, logSize, proof, Untrue) # RootOver(OwnLeaves)
           /\ \A i \in DOMAIN proof :
                 DeriveRoot(m, logSize, [proof EXCEPT ![i] = Untrue], old) # RootOver(OwnLeaves)

(* A batch proof of any set of entries gives the log's root, and gives it  *)
(* for those entries only: a forged leaf or a forged hash gives another    *)
(* root, and a proof of another length is refused (evaluateBatchProof,     *)
(* whose comment rests on the length being fixed by the entries).          *)
BatchProofIsTheRoot ==
    \A ids \in (SUBSET (0..(logSize - 1))) \ {{}} :
        LET leaves == InOrder(ids)
            values == [i \in DOMAIN leaves |-> <<"leaf", leaves[i]>>]
            proof == ProofFor(BatchCopath(leaves, logSize), OwnLeaves)
            root(v, p) == EvaluateBatch(leaves, logSize, v, p)
        IN /\ root(values, proof) = RootOver(OwnLeaves)
           /\ \A i \in DOMAIN values : root([values EXCEPT ![i] = Untrue], proof) # RootOver(OwnLeaves)
           /\ \A i \in DOMAIN proof : root(values, [proof EXCEPT ![i] = Untrue]) # RootOver(OwnLeaves)
           /\ root(values, Append(proof, Untrue)) = Fails

(* On a log whose counters only grow, the search opens no entry twice and  *)
(* none before the key's first, and ends at the earliest entry holding the *)
(* version asked for (the newest, when none is); it finds nothing exactly  *)
(* when the key never reached that version (proofGuide).                   *)
FindsTheFirst ==
    \A pos \in 0..(logSize - 1) : \A counter \in Histories(pos, logSize), wanted \in AnyVersion..LastVersion :
        LET g == Searched(NewGuide(wanted, pos, logSize), counter)
            version == IF wanted = AnyVersion THEN counter[logSize - 1] ELSE wanted
            holding == {i \in pos..(logSize - 1) : counter[i] = version}
        IN /\ g.state = "done"
           /\ IsInjective(g.ids) /\ ToSet(g.ids) \subseteq pos..(logSize - 1)
           /\ IF holding = {} THEN ResultOf(g) = 0
              ELSE ResultOf(g) # 0 /\ g.ids[ResultOf(g)] = Min(holding)

(* Every proof Signal's witness evaluates means what the tree means.       *)
ProofsMeanTheTree ==
    FrontierIsTheTree /\ ConsistencyDerivesTheRoot /\ BatchProofIsTheRoot /\ FindsTheFirst
=============================================================================
