------------------------------ MODULE AppleLog ------------------------------
(***************************************************************************)
(* Apple's Top-Level Tree: internal/source/apple (apple.go), Fetch,        *)
(* VerifyConsistency and the search for the revision a size belongs to.    *)
(*                                                                         *)
(* A head that verifies is one the operator signed, so what is served is   *)
(* any signed head: revisions of a history with two sides that part after  *)
(* SharedSize leaves.  An operator that tells no lies serves side "a", and *)
(* the revision it was asked for.  Its log may grow between any two        *)
(* requests.                                                               *)
(***************************************************************************)
EXTENDS Integers, Sequences, FiniteSets, SequencesExt, FiniteSetsExt

CONSTANTS LastRevision, LargestTree,  \* bounds
          SharedSize,                     \* leaves before the sides part
          MaxUntruths                 \* bound: answers that are not the ones asked for

ASSUME AppleLogAssumption ==
    LastRevision \in Nat \ {0} /\ {LargestTree, SharedSize, MaxUntruths} \subseteq Nat

Unseen == [revision |-> 0, size |-> 0, root |-> "none"]

VARIABLES
    sizes,      \* the tree size of each revision
    revised,    \* the revisions there are
    untruths,
    attested,   \* the head the witness last took (size and root)
    latest,     \* Source.latest, and the head under verification
    appleStep,       \* "idle", "search", "prove"
    low, high,  \* the search
    startRev,
    requests,
    reached,    \* the end of the segments so far
    withheld    \* a verification was refused
appleVars == <<sizes, revised, untruths, attested, latest, appleStep, low, high, startRev, requests, reached, withheld>>

-----------------------------------------------------------------------------
SignedHead(rev, side) ==
    [revision |-> rev, size |-> sizes[rev],
     root |-> IF sizes[rev] <= SharedSize THEN "shared" ELSE side]
SignedHeads == {SignedHead(rev, side) : rev \in 1..revised, side \in {"a", "b"}}

SameTree(g, h) == g.size = h.size /\ g.root = h.root
(* tlog.CheckTree: a proof exists exactly when one tree extends the other. *)
CheckTree(from, to) == to.size >= from.size /\ from.root \in {"shared", to.root}

(* What answers a request for a revision.                                  *)
HeadAnswers(asked) ==
    {[head |-> SignedHead(asked, "a"), cost |-> 0]}
    \cup {[head |-> h, cost |-> 1] : h \in SignedHeads}
ServedHead(asked, use(_)) ==
    \E answer \in HeadAnswers(asked) :
        /\ untruths + answer.cost <= MaxUntruths
        /\ untruths' = untruths + answer.cost
        /\ use(answer.head)

AppleInit ==
    /\ sizes \in {f \in [1..LastRevision -> 1..LargestTree] : \A i, j \in 1..LastRevision : i < j => f[i] <= f[j]}
    /\ revised = 1 /\ untruths = 0 /\ withheld = FALSE
    /\ attested = Unseen /\ latest = Unseen /\ reached = Unseen
    /\ appleStep = "idle" /\ low = 0 /\ high = 0 /\ startRev = 0 /\ requests = 0

Revise ==
    /\ revised < LastRevision
    /\ revised' = revised + 1
    /\ UNCHANGED <<sizes, untruths, attested, latest, appleStep, low, high, startRev, requests, reached, withheld>>

(* Fetch, and what Process asks of it: the first head is taken on trust, a *)
(* larger one is verified against the witnessed one, any other changes     *)
(* nothing here.                                                           *)
FetchHead ==
    /\ appleStep = "idle"
    /\ ServedHead(revised, LAMBDA h :
           /\ latest' = h
           /\ attested' = IF attested = Unseen THEN h ELSE attested
           /\ IF attested # Unseen /\ h.size > attested.size
              THEN /\ appleStep' = "search"
                   /\ low' = 1 /\ high' = h.revision /\ requests' = 0
              ELSE UNCHANGED <<appleStep, low, high, requests>>)
    /\ UNCHANGED <<sizes, revised, startRev, reached, withheld>>

(* An error: nothing is attested, and nothing concluded.                   *)
Withhold ==
    /\ appleStep' = "idle"
    /\ withheld' = TRUE
    /\ UNCHANGED attested
Locate(rev) ==
    /\ startRev' = rev
    /\ reached' = attested
    /\ appleStep' = "prove"
    /\ UNCHANGED <<attested, withheld>>

(* revisionForSize: one request of the binary search.                      *)
Narrow(mid, h) == IF h.size < attested.size THEN <<mid + 1, high>> ELSE <<low, mid>>

ProbeRevision ==
    /\ appleStep = "search" /\ low < high
    /\ LET mid == low + (high - low) \div 2
       IN ServedHead(mid, LAMBDA h :
            IF h.size = attested.size
            THEN Locate(mid) /\ UNCHANGED <<low, high, requests>>
            ELSE /\ low' = Narrow(mid, h)[1] /\ high' = Narrow(mid, h)[2]
                 /\ requests' = requests + 1
                 /\ UNCHANGED <<appleStep, startRev, attested, reached, withheld>>)
    /\ UNCHANGED <<sizes, revised, latest>>

LastProbe ==
    /\ appleStep = "search" /\ low >= high /\ low \in 1..revised
    /\ ServedHead(low, LAMBDA h : IF h.size = attested.size THEN Locate(low)
                             ELSE Withhold /\ UNCHANGED <<startRev, reached>>)
    /\ UNCHANGED <<sizes, revised, latest, low, high, requests>>

(* VerifyConsistency: the segments of the answer, in order, each from where*)
(* the one before ended, from the witnessed head to the one about to be    *)
(* attested.  Variant: the start of a segment is not compared.             *)
JoinedAnywhere(from, to) == CheckTree(from, to)
Joined(from, to) ==
    /\ SameTree(from, reached)
    /\ CheckTree(from, to)

(* The operator may split the range anywhere.                              *)
TrueSegments ==
    {<<SignedHead(r, "a"), SignedHead(m, "a")>> : r, m \in 1..latest.revision}
    \cap {ends \in SignedHeads \X SignedHeads :
            /\ SameTree(ends[1], reached) /\ ~SameTree(reached, latest)
            /\ ends[1].revision < ends[2].revision}

Prove ==
    /\ appleStep = "prove"
    /\ startRev < latest.revision
    /\ \E from, to \in SignedHeads :
         LET cost == IF <<from, to>> \in TrueSegments THEN 0 ELSE 1
         IN /\ untruths + cost <= MaxUntruths
            /\ untruths' = untruths + cost
            /\ IF Joined(from, to)
               THEN reached' = to /\ UNCHANGED <<appleStep, withheld, attested>>
               ELSE Withhold /\ UNCHANGED reached
    /\ UNCHANGED <<sizes, revised, latest, low, high, startRev, requests>>

ProofEnds ==
    /\ appleStep = "prove"
    /\ LET whole == startRev < latest.revision /\ SameTree(reached, latest)
       IN /\ whole \/ startRev >= latest.revision \/ untruths < MaxUntruths
          /\ untruths' = IF whole \/ startRev >= latest.revision THEN untruths ELSE untruths + 1
          /\ IF whole THEN attested' = latest /\ appleStep' = "idle" /\ UNCHANGED withheld
             ELSE Withhold
    /\ UNCHANGED <<sizes, revised, latest, low, high, startRev, requests, reached>>

AppleNext == Revise \/ FetchHead \/ ProbeRevision \/ LastProbe \/ Prove \/ ProofEnds
AppleSpec == AppleInit /\ [][AppleNext]_appleVars

-----------------------------------------------------------------------------
(* The witnessed heads are one append-only history, however the range was  *)
(* split, whatever revisions the search was told and whichever signed heads*)
(* were put in the proof (VerifyConsistency, "the chain must run from the  *)
(* head we witnessed to the head we are about to attest").                 *)
AttestsOneHistory == [][attested # Unseen => CheckTree(attested, attested')]_attested

(* An operator that answers what it is asked is never withheld from: the   *)
(* search finds a revision of the witnessed size while the log grows under *)
(* it and though several revisions may have that size.                     *)
HonestIsNeverWithheld == untruths = 0 => ~withheld

(* The search halves at every request, whatever it is answered             *)
(* (revisionForSize, "costing about twenty requests").                     *)
SearchIsShort == appleStep = "search" => (high - low) * 2^requests <= latest.revision

(* The head Apple is held to is found by a bounded search of revisions,    *)
(* extends the one before, and is never withheld from an honest log.       *)
AppleIsFollowed == [](HonestIsNeverWithheld /\ SearchIsShort) /\ AttestsOneHistory
=============================================================================
