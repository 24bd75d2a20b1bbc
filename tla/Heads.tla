------------------------------- MODULE Heads -------------------------------
(***************************************************************************)
(* Tree heads and the order between them.                                  *)
(*                                                                         *)
(* A head is a size and a Merkle root (store.Record, source.Head).  The    *)
(* hash is collision resistant, so a head names exactly one sequence of    *)
(* leaves and is modelled by that sequence: two heads agree on size and    *)
(* hash iff they are the same sequence, and a consistency proof between    *)
(* them exists iff one is a prefix of the other.                           *)
(***************************************************************************)
EXTENDS Naturals, Sequences, SequencesExt

CONSTANTS
  Leaf,      \* the leaf hashes a log may append
  MaxSize,   \* bound: the largest tree
  None       \* no head: a nil *store.Record or *source.Head

ASSUME HeadsAssumption ==
  /\ MaxSize \in Nat
  /\ None \notin Seq(Leaf)

Trees == SeqOf(Leaf, MaxSize)

Size(t) == IF t = None THEN 0 ELSE Len(t)

(* new is an append-only extension of old; nothing is claimed before a     *)
(* first observation (trust on first use).                                 *)
Extends(new, old) == old = None \/ IsPrefix(old, new)

Comparable(s, t) == IsPrefix(s, t) \/ IsPrefix(t, s)

=============================================================================
