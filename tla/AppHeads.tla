------------------------------ MODULE AppHeads ------------------------------
(***************************************************************************)
(* Application heads observed in a log of heads: ScanApplications of       *)
(* internal/source/apple (apple.go), scanApplications (main.go) and        *)
(* ObserveAppHead (internal/store/store.go).  Observations: nothing here is*)
(* verified or cosigned, and what is wrong is only reported.               *)
(***************************************************************************)
EXTENDS Integers, Sequences, FiniteSets, SequencesExt, FiniteSetsExt, Functions

CONSTANTS Applications,  \* the application trees, by TreeID
          Window,        \* scanWindow, in leaves
          MaxConflicts,  \* maxAppHeadConflicts
          MaxLeaves, MaxMisdeeds, MaxObserved  \* bounds

ASSUME AppHeadsAssumption ==
    /\ Applications \subseteq Nat
    /\ Window \in Nat \ {0} /\ MaxConflicts \in Nat \ {0}
    /\ MaxLeaves \in Nat /\ MaxMisdeeds \in Nat /\ MaxObserved \in Nat

VARIABLES
    leaves,     \* the Top-Level Tree: heads as they were committed
    misdeeds,   \* leaves no honest application commits
    apps,       \* bucketAppHeads
    scan,       \* the heads a scan has found and not yet recorded
    reported,   \* the contradictions logged, in order
    observed,   \* history: every head observed, in order
    overlooked  \* history: a scan whose window held no newest head of some tree
appVars == <<leaves, misdeeds, apps, scan, reported, observed, overlooked>>

Unobserved == [size |-> 0]

-----------------------------------------------------------------------------
(* The operator.  Two heads of one tree may be committed in either order.  *)
AppRoot(rev) == <<"root", rev>>
OfTree(t) == {i \in DOMAIN leaves : leaves[i].tree = t}
HonestHead(t, rev) == [tree |-> t, revision |-> rev, size |-> rev, root |-> AppRoot(rev), key |-> "key"]
Revisions(t) == {leaves[i].revision : i \in OfTree(t)}

Commit ==
    \E t \in Applications :
        LET top == Max({0} \cup Revisions(t))
        IN \E rev \in {top - 1, top + 1, top + 2} \ Revisions(t) :
             /\ rev > 0
             /\ leaves' = Append(leaves, HonestHead(t, rev))
             /\ UNCHANGED misdeeds
Misbehave ==
    /\ misdeeds < MaxMisdeeds
    /\ \E i \in DOMAIN leaves :
         LET h == leaves[i] IN
         \E g \in {[h EXCEPT !.root = <<"other", h.revision>>],
                   [h EXCEPT !.revision = @ + 1, !.size = @ - 1],
                   [h EXCEPT !.revision = @ + 1, !.size = @ + 1, !.root = AppRoot(h.revision + 1), !.key = "another"]} :
           g.size >= 0 /\ leaves' = Append(leaves, g)
    /\ misdeeds' = misdeeds + 1
Operate ==
    /\ Len(leaves) < MaxLeaves
    /\ Commit \/ Misbehave
    /\ UNCHANGED <<apps, scan, reported, observed, overlooked>>

-----------------------------------------------------------------------------
(* ScanApplications: the newest head of each tree in the trailing window,  *)
(* the first of those that are equally new.                                *)
InWindow(t) == {i \in OfTree(t) : i > Len(leaves) - Window}
Newer(g, h) ==
    \/ g.revision > h.revision
    \/ /\ g.revision = h.revision
       /\ g.size > h.size
IsForemost(i, I) ==
    \A j \in I : /\ ~Newer(leaves[j], leaves[i])
                 /\ j < i => Newer(leaves[i], leaves[j])
NewestOf(t) == leaves[CHOOSE i \in InWindow(t) : IsForemost(i, InWindow(t))]
TreesInWindow == {t \in Applications : InWindow(t) # {}}

ScanApplications ==
    /\ scan = {}
    /\ leaves # <<>> /\ Len(observed) < MaxObserved
    /\ scan' = {NewestOf(t) : t \in TreesInWindow}
    /\ overlooked' = (overlooked \/ \E t \in TreesInWindow : \E i \in OfTree(t) :
                          Newer(leaves[i], NewestOf(t)))
    /\ UNCHANGED <<leaves, misdeeds, apps, reported, observed>>

(* ObserveAppHead: the contradictions between an observation and the       *)
(* record, in the order they are looked for, but for those known.          *)
SizeFell(cur, obs) == obs.size < cur.size
Unless(known, wrong, what) == IF wrong /\ what \notin known THEN <<what>> ELSE <<>>
Found(known, cur, obs) ==
    Unless(known, obs.revision = cur.revision /\ obs.root # cur.root,
           <<"two roots", <<obs.revision, cur.root, obs.root>>>>)
      \o Unless(known, SizeFell(cur, obs), <<"backwards", <<cur.size, obs.size>>>>)
      \o Unless(known, obs.key # cur.key, <<"key", <<cur.key, obs.key>>>>)
(* Variant: all of them are news.                                          *)
FreshAll(cur, obs) == Found({}, cur, obs)
Fresh(cur, obs) == Found(Range(cur.conflicts), cur, obs)

Followed(cur, obs) == obs.size >= cur.size
Merged2(cur, obs) ==
    LET conflicts == cur.conflicts \o Fresh(cur, obs)
        kept == SubSeq(conflicts, 1, Min({Len(conflicts), MaxConflicts}))
    IN IF Followed(cur, obs)
       THEN [size |-> obs.size, revision |-> obs.revision, root |-> obs.root,
             key |-> obs.key, conflicts |-> kept]
       ELSE [cur EXCEPT !.conflicts = kept]
FirstSight(obs) ==
    [size |-> obs.size, revision |-> obs.revision, root |-> obs.root, key |-> obs.key, conflicts |-> <<>>]
Before(obs) == IF apps[obs.tree] = Unobserved THEN FirstSight(obs) ELSE apps[obs.tree]

(* The heads of a scan are observed in the order of their trees.           *)
Following(h) == h \in scan /\ \A g \in scan : h.tree <= g.tree
ObserveAppHead(h) ==
    LET news == Fresh(Before(h), h) IN
    /\ Following(h)
    /\ apps' = [apps EXCEPT ![h.tree] = Merged2(Before(h), h)]
    /\ reported' = reported \o [j \in DOMAIN news |-> <<h.tree, news[j]>>]
    /\ observed' = Append(observed, h)
    /\ scan' = scan \ {h}
    /\ UNCHANGED <<leaves, misdeeds, overlooked>>

(* A record the store could not write is passed over, and what it would    *)
(* have said is not reported; a restart passes over the rest of the scan.  *)
PassOver(h) ==
    /\ Following(h)
    /\ scan' = scan \ {h}
    /\ UNCHANGED <<leaves, misdeeds, apps, reported, observed, overlooked>>

AppHeadsInit ==
    /\ leaves = <<>> /\ misdeeds = 0
    /\ apps = [t \in Applications |-> Unobserved]
    /\ scan = {}
    /\ reported = <<>> /\ observed = <<>> /\ overlooked = FALSE
AppHeadsNext ==
    \/ Operate
    \/ ScanApplications
    \/ \E h \in scan : ObserveAppHead(h) \/ PassOver(h)
AppHeadsSpec == AppHeadsInit /\ [][AppHeadsNext]_appVars

-----------------------------------------------------------------------------
Seen == {t \in Applications : apps[t] # Unobserved}

(* An application that only appends is never reported, in whatever order   *)
(* its heads were committed: as long as the window reaches back to its     *)
(* newest (ScanApplications, "a contradiction that never happened").       *)
HonestAppsAreClean == (misdeeds = 0 /\ ~overlooked) => reported = <<>>

(* A contradiction is logged once, until the record has no room to remember*)
(* it by (ObserveAppHead, "an alarm that repeats every scan forever is an  *)
(* alarm nobody reads").                                                   *)
ReportedOnce ==
    (\A t \in Seen : Cardinality(Range(apps[t].conflicts)) < MaxConflicts) => IsInjective(reported)

(* The record is the largest head observed, so that a tree that shrank and *)
(* grew again is still held to what it once was.                           *)
KeepsTheLargest ==
    \A t \in Seen :
        /\ apps[t].size = Max({h.size : h \in {g \in Range(observed) : g.tree = t}})
        /\ \E h \in Range(observed) :
             h.tree = t /\ h.size = apps[t].size /\ h.root = apps[t].root

(* A tree observed smaller than it had been, by any number of scans and    *)
(* with any in between, left a contradiction behind.                       *)
ShrinkingIsKept ==
    \A i, j \in DOMAIN observed :
        (i < j /\ observed[i].tree = observed[j].tree /\ observed[j].size < observed[i].size)
            => apps[observed[i].tree].conflicts # <<>>

(* What is said of applications' heads, from windows of the log that       *)
(* overlap or leave gaps: honest ones are clean, a contradiction is said   *)
(* once, the largest head is kept and a size that fell is not forgotten.   *)
AppsAreJudged == HonestAppsAreClean /\ ReportedOnce /\ KeepsTheLargest /\ ShrinkingIsKept
=============================================================================
