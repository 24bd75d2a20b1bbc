---------------------------- MODULE ProtonReplay ----------------------------
(***************************************************************************)
(* The replay of Proton's published diffs                                  *)
(* (src/internal/source/proton/incremental.go, runProtonStep in            *)
(* src/cmd/kt-witness/main.go): a tree retained on disk is carried from    *)
(* epoch to epoch, its root compared with the signed one, and the epoch    *)
(* recorded as audited.  The directory of files is all that survives a     *)
(* crash.                                                                  *)
(***************************************************************************)
EXTENDS ProtonTree

CONSTANTS Labels,     \* labels that are ever in the directory
          LastEpoch,  \* bound: epochs published
          Replays,    \* the retained trees: at the tip, through the history
          Retained,   \* epochs the operator says it retains
          MaxMishaps  \* bound: crashes, failed downloads, dishonest publications

ASSUME ProtonReplayAssumption ==
    Labels \subseteq Label /\ LastEpoch \in Nat \ {0} /\ Retained \in Nat

VARIABLES published,  \* per epoch: the leaves signed, the dump and the diff served
          witnessed,  \* the tip, Record.Size
          files,      \* per replay: the trees on disk, by epoch
          partial,    \* per replay: the .partial file
          step,       \* per replay: where Step is
          recorded,   \* epochs in the audits bucket
          alarms,     \* epochs whose removals were reported as not explained
          mishaps

replayVars == <<published, witnessed, files, partial, step, recorded, alarms, mishaps>>

NoFile == <<Leaf(-1, 0)>>
Waiting == [pc |-> "waiting"]
Mishap(happens) ==
    IF happens THEN mishaps < MaxMishaps /\ mishaps' = mishaps + 1 ELSE UNCHANGED mishaps

SignedRoot(e) == SparseRoot(published[e].leaves)

(* Base: the newest whole tree among the files; a .partial never is one.   *)
Base(r) == IF DOMAIN files[r] = {} THEN 0
           ELSE CHOOSE e \in DOMAIN files[r] : \A f \in DOMAIN files[r] : f <= e

With(r, e, tree) == [files EXCEPT ![r] = [f \in DOMAIN @ \cup {e} |->
                                             IF f = e THEN tree ELSE @[f]]]
Without(r, e) == [files EXCEPT ![r] = [f \in DOMAIN @ \ {e} |-> @[f]]]

(* The operator publishes: leaves enter, leaves go, and the diff says so,  *)
(* or leaves one change out; a dump may lack a leaf.                       *)
Honest(old, new) ==
    {Record("add", l.label, l.value) : l \in new \ old}
      \cup {Record("remove", l.label, l.value) : l \in old \ new}

PublishEpoch ==
    LET n == Len(published) + 1
        old == IF n = 1 THEN {} ELSE published[n - 1].leaves
    IN /\ n <= LastEpoch
       /\ \E gone \in SUBSET old, in \in SUBSET Labels :
            LET new == (old \ gone) \cup
                       {Leaf(l, n) : l \in in \ {m.label : m \in old}}
                diff == Honest(old, new)
            IN /\ new # {}
               /\ \E left \in {{}} \cup {{d} : d \in diff}, lost \in {{}} \cup {{m} : m \in new} :
                    /\ published' = Append(published,
                           [leaves |-> new, dump |-> new \ lost, diff |-> diff \ left,
                            start |-> IF n > Retained THEN n - Retained ELSE 0])
                    /\ Mishap(left # {} \/ lost # {})
       /\ UNCHANGED <<witnessed, files, partial, step, recorded, alarms>>

Witnesses ==
    /\ witnessed < Len(published)
    /\ witnessed' = witnessed + 1
    /\ UNCHANGED <<published, files, partial, step, recorded, alarms, mishaps>>

(* Bootstrap: the dump of one epoch is downloaded, whole or not at all; its*)
(* root is not compared with the signed one.                               *)
Start(r) == IF r = "history" THEN 1 ELSE witnessed
Bootstrap(r) ==
    /\ step[r] = Waiting /\ Base(r) = 0
    /\ witnessed > 0 /\ published[Start(r)].dump # {}
    /\ partial' = [partial EXCEPT ![r] = NoFile]
    /\ files' = With(r, Start(r), Sorted(published[Start(r)].dump))
    /\ UNCHANGED <<published, witnessed, step, recorded, alarms, mishaps>>

(* Step, up to the new tree: one replay at a time (stepMu).                *)
Builds(r) ==
    LET b == Base(r) IN
    /\ step[r] = Waiting /\ \A q \in Replays : step[q].pc \notin {"built", "renamed"}
    /\ b > 0 /\ b < witnessed
    /\ LET merged == ApplyDiff(files[r][b], Sorted(published[b + 1].diff)) IN
         /\ partial' = [partial EXCEPT ![r] = merged.out]
         /\ step' = [step EXCEPT ![r] = [pc |-> "built", from |-> b, to |-> b + 1,
                                          odd |-> ~Clean(merged, published[b + 1].start)]]
    /\ UNCHANGED <<published, witnessed, files, recorded, alarms, mishaps>>

(* Variant: the root is compared with that of the epoch before too.        *)
MatchesEither(r) ==
    LET s == step[r] IN
    /\ s.pc = "built" /\ CheckSorted(partial[r])
    /\ TreeRootParallel(partial[r], 1) \in {SignedRoot(s.from), SignedRoot(s.to)}
    /\ files' = With(r, s.to, partial[r])
    /\ partial' = [partial EXCEPT ![r] = NoFile]
    /\ step' = [step EXCEPT ![r] = [s EXCEPT !.pc = "renamed"]]
    /\ UNCHANGED <<published, witnessed, recorded, alarms, mishaps>>

(* The root is the signed one: the tree takes its name.                    *)
Matches(r) ==
    LET s == step[r] IN
    /\ s.pc = "built" /\ CheckSorted(partial[r])
    /\ TreeRootParallel(partial[r], 1) = SignedRoot(s.to)
    /\ files' = With(r, s.to, partial[r])
    /\ partial' = [partial EXCEPT ![r] = NoFile]
    /\ step' = [step EXCEPT ![r] = [s EXCEPT !.pc = "renamed"]]
    /\ UNCHANGED <<published, witnessed, recorded, alarms, mishaps>>

(* It is not: the evidence is put aside, and nothing moves.                *)
Mismatches(r) ==
    LET s == step[r] IN
    /\ s.pc = "built"
    /\ TreeRootParallel(partial[r], 1) # SignedRoot(s.to)
    /\ partial' = [partial EXCEPT ![r] = NoFile]
    /\ step' = [step EXCEPT ![r] = Waiting]
    /\ UNCHANGED <<published, witnessed, files, recorded, alarms, mishaps>>

RemoveBase(r) ==
    LET s == step[r] IN
    /\ s.pc = "renamed"
    /\ files' = Without(r, s.from)
    /\ step' = [step EXCEPT ![r] = [s EXCEPT !.pc = "record"]]
    /\ UNCHANGED <<published, witnessed, partial, recorded, alarms, mishaps>>

(* RecordAudit; that it fails is only logged.  Removals that the retention *)
(* window does not explain are reported, and accuse nobody.                *)
Records(r) ==
    /\ step[r].pc = "record"
    /\ alarms' = IF step[r].odd THEN alarms \cup {step[r].to} ELSE alarms
    /\ \/ recorded' = recorded \cup {step[r].to} /\ UNCHANGED mishaps
       \/ Mishap(TRUE) /\ UNCHANGED recorded
    /\ step' = [step EXCEPT ![r] = Waiting]
    /\ UNCHANGED <<published, witnessed, files, partial>>

ReplayCrash ==
    /\ Mishap(TRUE)
    /\ step' = [r \in Replays |-> Waiting]
    /\ \E whole \in BOOLEAN :   \* a file being written ends anywhere
         partial' = IF whole THEN partial
                    ELSE [r \in Replays |-> IF Len(partial[r]) > 1 THEN Front(partial[r])
                                            ELSE partial[r]]
    /\ UNCHANGED <<published, witnessed, files, recorded, alarms>>

ReplayInit ==
    /\ published = <<>> /\ witnessed = 0
    /\ files = [r \in Replays |-> [e \in {} |-> NoFile]]
    /\ partial = [r \in Replays |-> NoFile]
    /\ step = [r \in Replays |-> Waiting]
    /\ recorded = {} /\ alarms = {} /\ mishaps = 0

Replay(r) == Bootstrap(r) \/ Builds(r) \/ Matches(r) \/ Mismatches(r) \/ RemoveBase(r) \/ Records(r)

ReplayNext == PublishEpoch \/ Witnesses \/ ReplayCrash \/ \E r \in Replays : Replay(r)

ReplaySpec == ReplayInit /\ [][ReplayNext]_replayVars

----------------------------------------------------------------------------

(* Types; and every tree, finished or not, is in the order of its labels,  *)
(* which the merge and the binary searches of the rebuild rely on          *)
(* (tree.go:143-153, 305-411).                                             *)
ReplayTypeOK ==
    /\ witnessed \in 0 .. Len(published) /\ Len(published) <= LastEpoch
    /\ recorded \cup alarms \subseteq 2 .. witnessed
    /\ \A r \in Replays :
         /\ DOMAIN files[r] \subseteq 1 .. witnessed
         /\ \A e \in DOMAIN files[r] : CheckSorted(files[r][e])
         /\ CheckSorted(partial[r])
         /\ step[r].pc \in {"waiting", "built", "renamed", "record"}

IsDump(r, e) == files[r][e] = Sorted(published[e].dump)

(* A tree on disk is the one that was signed at its epoch, or the dump as  *)
(* it was downloaded: a diff that leaves out a change, a crash in the      *)
(* middle of a file and a file of the epoch before never get in            *)
(* (incremental.go:207-302).                                               *)
RetainedIsSigned ==
    \A r \in Replays : \A e \in DOMAIN files[r] :
        IsDump(r, e) \/ SparseRoot(Range(files[r][e])) = SignedRoot(e)

(* A retained tree is never lost: a replay that has started has one, and   *)
(* its epoch never goes back (incremental.go:116-143, 295-302).            *)
NeverStartsOver ==
    [][\A r \in Replays : Base(r)' >= Base(r)]_files

(* An epoch is recorded as audited only if its published diff turns the    *)
(* tree signed the epoch before into the one that was signed, unless the   *)
(* dump the replay started from was wrong as well (main.go:1782-1810).     *)
RecordedDiffsCarry ==
    \A e \in recorded :
        LET p == published[e - 1] IN
        \/ SparseRoot(Changed(p.leaves, published[e].diff)) = SignedRoot(e)
        \/ p.dump # p.leaves

(* The root rebuilt in shards, and in one piece, is the root of the tree   *)
(* (tree.go:132-290).                                                      *)
RootsAgree ==
    \A r \in Replays : \A e \in DOMAIN files[r] : \A d \in 1 .. Depth :
        LET t == files[r][e] IN
        /\ TreeRootParallel(t, d) = TreeRoot(t)
        /\ TreeRoot(t) = SparseRoot(Range(t))

(* Removals are reported only of an epoch in which a leaf younger than the *)
(* window left, or whose window is unknown, or whose diff does not say     *)
(* what was signed (removals.go:123-171).                                  *)
AlarmsAreDeserved ==
    \A e \in alarms :
        LET before == published[e - 1].leaves
            after == published[e].leaves
        IN \/ \E leaf \in before \ after : leaf.value >= published[e].start
           \/ published[e].start = 0
           \/ published[e].diff # Honest(before, after)

(* The retained trees across crashes and dishonest publications: what is   *)
(* on disk is what was signed, what is recorded was replayed, both ways of *)
(* computing a root agree, and the replay never falls back to its base.    *)
ReplayIsSound ==
    [](ReplayTypeOK /\ RetainedIsSigned /\ RecordedDiffsCarry /\ RootsAgree) /\ NeverStartsOver
=============================================================================
