----------------------------- MODULE LogProofs -----------------------------
(***************************************************************************)
(* Proofs about the adapters of logs and the lists of logs.                *)
(*                                                                         *)
(* Of Meta's root chain, for any length of the chain, any lies of its      *)
(* operator and any pace of the rounds: the witnessed root moves along     *)
(* published links, the newest epoch is found, every join in the recorded  *)
(* history was compared, and nobody is branded who did not lie.            *)
(*                                                                         *)
(* Of logs of entries, for any tiles and any two histories: the head only  *)
(* extends, and what is claimed was read.                                  *)
(*                                                                         *)
(* Of Apple's revisions, whatever is served: one history is attested, by a *)
(* search that halves, and an honest log is never withheld from.           *)
(*                                                                         *)
(* Of lists, whatever they say: a log keeps its first key.                 *)
(*                                                                         *)
(* Of applications' heads, whatever is committed: honest ones are never    *)
(* reported, and a tree that shrank never passes unnoticed.                *)
(***************************************************************************)
EXTENDS AkdChain, EntryLogs, AppleLog, LogLists, AppHeads, Numbers, SequenceTheorems

-----------------------------------------------------------------------------
LEMMA ChainNumbers ==
  /\ HonestSide \in Sides
  /\ StartEpoch \in Nat \ {0} /\ MaxEpochsPerRound \in Nat \ {0}
  /\ FullEvery \in Nat /\ MaxEpoch \in Nat /\ MaxTampers \in Nat
  /\ Epochs \in SUBSET Nat
  /\ \A e \in Epochs : e \in Nat /\ 1 <= e /\ e <= MaxEpoch
BY AkdChainAssumption DEF Epochs

LEMMA GreatestOfNats ==
  ASSUME NEW S \in SUBSET Nat, S # {}, NEW b \in Nat, \A x \in S : x <= b
  PROVE  Max(S) \in S /\ \A x \in S : x <= Max(S)
<1>1. PICK x \in S : \A y \in S : y <= x
  <2>1. S \in SUBSET Int /\ b \in Int
    OBVIOUS
  <2>. QED
    BY <2>1, GreatestInt
<1>2. \A y \in S : x >= y
  BY <1>1
<1>3. Max(S) \in S /\ \A y \in S : Max(S) >= y
  BY <1>2 DEF Max
<1>. QED
  BY <1>3

LEMMA LeastOfNats ==
  ASSUME NEW S \in SUBSET Nat, S # {}
  PROVE  Min(S) \in S /\ \A x \in S : Min(S) <= x
<1>1. \E x \in S : \A y \in S : x <= y
  BY LeastNat
<1>. QED
  BY <1>1 DEF Min

(* Roots, and the links between them. *)
Roots == (0 .. MaxEpoch) \X Sides
Links == UNION {Link(e) : e \in Epochs}

LEMMA LinkEnds ==
  ASSUME NEW e \in Epochs, NEW l \in Link(e)
  PROVE  /\ l = [prev |-> l.prev, curr |-> l.curr]
         /\ l.prev = <<e - 1, l.prev[2]>> /\ l.prev[2] \in Sides /\ l.prev \in Roots
         /\ l.curr = <<e, l.curr[2]>> /\ l.curr[2] \in Sides /\ l.curr \in Roots
         /\ l \in Links /\ l # NoLink
<1>1. e \in Nat /\ 1 <= e /\ e <= MaxEpoch /\ MaxEpoch \in Nat
  BY ChainNumbers
<1>2. /\ l = [prev |-> l.prev, curr |-> l.curr]
      /\ l.prev \in {e - 1} \X Sides /\ l.curr \in {e} \X Sides
  BY DEF Link, RootsAt
<1>3. l.prev = <<e - 1, l.prev[2]>> /\ l.prev[2] \in Sides
  BY <1>2
<1>4. l.curr = <<e, l.curr[2]>> /\ l.curr[2] \in Sides
  BY <1>2
<1>5. l.prev \in Roots /\ l.curr \in Roots
  BY <1>1, <1>2 DEF Roots
<1>6. l \in Links
  BY DEF Links
<1>7. l # NoLink
  <2>1. Len(l.curr) = 2 /\ Len(NoLink.curr) = 0
    BY <1>4 DEF NoLink
  <2>. QED
    BY <2>1
<1>. QED
  BY <1>2, <1>3, <1>4, <1>5, <1>6, <1>7

LEMMA HonestLinks ==
  ASSUME NEW e \in Epochs
  PROVE  /\ HonestLink(e) \in Link(e)
         /\ HonestLink(e).prev = <<e - 1, HonestSide>> /\ HonestLink(e).curr = <<e, HonestSide>>
BY ChainNumbers DEF HonestLink, Link, RootsAt

-----------------------------------------------------------------------------
(* The inductive invariant. *)

(* What is published was published; without a lie it is honest.            *)
PublicOK ==
  /\ objects \in [Epochs -> SUBSET Links] /\ ever \in [Epochs -> SUBSET Links]
  /\ \A e \in Epochs : objects[e] \subseteq ever[e] /\ ever[e] \subseteq Link(e)
  /\ tampers \in Nat
  /\ tampers = 0 => \A e \in Epochs : ever[e] \subseteq {HonestLink(e)}

(* The stored head.                                                        *)
HeadOK ==
  /\ witnessedEpoch \in [epoch : 0 .. MaxEpoch, root : Roots \cup {<<>>}]
  /\ witnessedEpoch.epoch > 0 =>
       /\ witnessedEpoch.root \in RootsAt(witnessedEpoch.epoch)
       /\ tampers = 0 => witnessedEpoch.root = <<witnessedEpoch.epoch, HonestSide>>

HistoryRecords == [from : Epochs, to : Epochs, gaps : SUBSET Nat, age : Nat]
HistoryOK ==
  /\ akdHistory \in {NoHistory} \cup HistoryRecords
  /\ akdHistory # NoHistory => akdHistory.from <= akdHistory.to
  /\ compared \subseteq Epochs /\ fullAge \in 0 .. FullEvery + 2
  /\ due \in BOOLEAN /\ branded \in BOOLEAN
  /\ JoinsAreCompared /\ BrandedForALie

(* A pass in progress.  lo is an epoch while the tip is searched for, and  *)
(* the root reached while a round walks.                                   *)
Searches == [pc : {"back", "up", "bisect", "found", "walk", "extend"}, why : {"round", "extend"},
             at : Nat, lo : Nat \cup Roots, hi : Nat, step : Nat, link : Links \cup {NoLink},
             tip : Nat, gaps : SUBSET Nat, from : Nat, still : BOOLEAN]
Listings == [pc : {"list"}, why : {"full"}, at : Nat, read : [Epochs -> Links \cup {NoLink}],
             still : BOOLEAN]

Present(e) == e \in Epochs /\ objects[e] # {}
Absent(e) == e \notin Epochs \/ objects[e] = {}
PublishedFor(e, l) == e \in Epochs /\ l \in ever[e]

(* Links published from the witnessed root to the root r of epoch e.       *)
PathTo(e, r) ==
  \E side \in [witnessedEpoch.epoch .. e -> Sides] :
    /\ witnessedEpoch.root[2] = side[witnessedEpoch.epoch]
    /\ r[2] = side[e]
    /\ \A i \in witnessedEpoch.epoch + 1 .. e :
         [prev |-> <<i - 1, side[i - 1]>>, curr |-> <<i, side[i]>>] \in ever[i]

(* findTip: lo is there and hi is not, unless the store moved or a listing *)
(* was stale.                                                              *)
SearchOK(c) ==
  /\ c.pc \in {"back", "up"} => c.step >= 1 /\ c.hi = 0
  /\ c.pc \in {"back", "up", "bisect"} => c.lo \in Nat
  /\ c.pc \in {"up", "bisect"} => PublishedFor(c.lo, c.link) /\ (c.still => Present(c.lo))
  /\ c.pc = "bisect" => c.hi - c.lo > 1 /\ (c.still => Absent(c.hi))
  /\ c.pc = "found" => /\ PublishedFor(c.tip, c.link)
                       /\ c.still => Present(c.tip) /\ Absent(c.tip + 1)
  /\ c.why = "extend" => akdHistory # NoHistory /\ c.from = akdHistory.to

(* VerifyConsistency, half way: the root reached is linked to the          *)
(* witnessed one.                                                          *)
WalkOK(c) ==
  /\ witnessedEpoch.epoch > 0 /\ c.tip \in Epochs
  /\ witnessedEpoch.epoch < c.at /\ c.at <= c.tip
  /\ c.lo \in RootsAt(c.at - 1)
  /\ tampers = 0 => c.lo = <<c.at - 1, HonestSide>> /\ c.link.curr = <<c.tip, HonestSide>>
  /\ PathTo(c.at - 1, c.lo)

(* BackfillFrom, half way: every join so far was compared or is a gap.     *)
ExtendOK(c) ==
  /\ c.why = "extend" /\ c.tip \in Epochs
  /\ c.from < c.at /\ c.at <= c.tip + 1
  /\ IF c.link = NoLink THEN c.at - 1 \in c.gaps ELSE PublishedFor(c.at - 1, c.link)
  /\ \A e \in c.from + 1 .. c.at - 1 : e \in compared \/ {e - 1, e} \cap c.gaps # {}

ListOK(c) ==
  /\ 1 <= c.at
  /\ \A e \in Epochs : c.read[e] # NoLink => c.read[e] \in ever[e]

ChaseOK(c) ==
  /\ c \in {Quiet} \cup Searches \cup Listings
  /\ c \in Searches => SearchOK(c)
  /\ c.pc = "walk" => WalkOK(c)
  /\ c.pc = "extend" => ExtendOK(c)
  /\ c.pc = "list" => ListOK(c)

ChainInv == PublicOK /\ HeadOK /\ HistoryOK /\ ChaseOK(chase)

-----------------------------------------------------------------------------
(* The operator. *)

(* What a request answers was published.                                   *)
LEMMA AnswersArePublished ==
  ASSUME PublicOK, NEW e, NEW l \in LinkAnswers(e)
  PROVE  /\ l \in Links \cup {NoLink}
         /\ l # NoLink => e \in Epochs /\ l \in objects[e] /\ l \in ever[e] /\ l \in Link(e)
<1>1. l = NoLink \/ (e \in Epochs /\ l \in objects[e])
  BY DEF LinkAnswers
<1>. QED
  BY <1>1, LinkEnds DEF PublicOK

(* The invariant survives what only adds to what was ever published.       *)
LEMMA PublishedStays ==
  ASSUME ChainInv, PublicOK', UNCHANGED <<storeVarsA, compared>>,
         tampers' = 0 => tampers = 0,
         \A e \in Epochs : ever[e] \subseteq ever'[e],
         chase' = IF chase = Quiet THEN chase ELSE [chase EXCEPT !.still = FALSE]
  PROVE  ChainInv'
<1>1. HeadOK'
  BY DEF ChainInv, HeadOK, storeVarsA
<1>2. HistoryOK'
  BY DEF ChainInv, HistoryOK, storeVarsA, JoinsAreCompared, BrandedForALie, PublicOK
<1>3. CASE chase = Quiet
  <2>1. chase' = Quiet /\ Quiet.pc = "quiet" /\ Quiet \notin Searches
    BY <1>3 DEF Quiet, Searches
  <2>2. ChaseOK(Quiet)'
    BY <2>1 DEF ChaseOK
  <2>. QED
    BY <1>1, <1>2, <2>1, <2>2 DEF ChainInv
<1>4. CASE chase \in Searches
  <2>1. /\ chase.pc # "quiet" /\ chase.pc # "list"
        /\ chase' = [chase EXCEPT !.still = FALSE]
    BY <1>4 DEF Searches, Quiet
  <2>2. /\ chase' \in Searches /\ ~chase'.still
        /\ chase'.pc = chase.pc /\ chase'.why = chase.why /\ chase'.at = chase.at
        /\ chase'.lo = chase.lo /\ chase'.hi = chase.hi /\ chase'.step = chase.step
        /\ chase'.link = chase.link /\ chase'.tip = chase.tip
        /\ chase'.gaps = chase.gaps /\ chase'.from = chase.from
    BY <1>4, <2>1 DEF Searches
  <2>3. SearchOK(chase) /\ (chase.pc = "walk" => WalkOK(chase)) /\ (chase.pc = "extend" => ExtendOK(chase))
    BY <1>4 DEF ChainInv, ChaseOK
  <2>4. \A e, l : PublishedFor(e, l) => PublishedFor(e, l)'
    BY DEF PublishedFor
  <2>5. SearchOK(chase)'
    BY <2>2, <2>3, <2>4 DEF SearchOK, storeVarsA
  <2>6. ASSUME NEW e \in 0 .. MaxEpoch, NEW r, PathTo(e, r), witnessedEpoch.epoch \in Nat
        PROVE  PathTo(e, r)'
    <3>1. \A i \in witnessedEpoch.epoch + 1 .. e : i \in Epochs
      BY <2>6, ChainNumbers DEF Epochs
    <3>2. witnessedEpoch' = witnessedEpoch
      BY DEF storeVarsA
    <3>. QED
      BY <2>6, <3>1, <3>2 DEF PathTo
  <2>7. ASSUME chase.pc = "walk" PROVE WalkOK(chase)'
    <3>1. WalkOK(chase) /\ witnessedEpoch' = witnessedEpoch /\ witnessedEpoch.epoch \in 0 .. MaxEpoch
      BY <2>3, <2>7 DEF storeVarsA, ChainInv, HeadOK
    <3>2. chase.at - 1 \in 0 .. MaxEpoch /\ witnessedEpoch.epoch \in Nat
      BY <1>4, <3>1, ChainNumbers DEF WalkOK, Searches
    <3>3. PathTo(chase.at - 1, chase.lo)'
      BY <2>6, <3>1, <3>2 DEF WalkOK
    <3>. QED
      BY <2>2, <3>1, <3>3 DEF WalkOK
  <2>8. ASSUME chase.pc = "extend" PROVE ExtendOK(chase)'
    BY <2>2, <2>3, <2>4, <2>8 DEF ExtendOK
  <2>9. ChaseOK(chase)'
    BY <2>1, <2>2, <2>5, <2>7, <2>8 DEF ChaseOK
  <2>. QED
    BY <1>1, <1>2, <2>9 DEF ChainInv, ChaseOK
<1>5. CASE chase \in Listings
  <2>1. chase.pc = "list" /\ chase' = [chase EXCEPT !.still = FALSE]
    BY <1>5 DEF Listings, Quiet
  <2>2. /\ chase' \in Listings /\ chase'.pc = "list"
        /\ chase'.at = chase.at /\ chase'.read = chase.read
    BY <1>5, <2>1 DEF Listings
  <2>3. ListOK(chase)'
    BY <2>1, <2>2 DEF ChainInv, ChaseOK, ListOK
  <2>4. chase' \notin Searches
    BY <2>2 DEF Searches
  <2>5. ChaseOK(chase)'
    BY <2>2, <2>3, <2>4 DEF ChaseOK
  <2>. QED
    BY <1>1, <1>2, <2>5 DEF ChainInv, ChaseOK
<1>. QED
  BY <1>3, <1>4, <1>5 DEF ChainInv, ChaseOK

LEMMA OperatorKeeps == ASSUME ChainInv, Operator PROVE ChainInv'
<1>. USE DEF ChainInv
<1>1. CASE PublishLink
  <2>0. PICK e \in Epochs : \E l \in Link(e) :
          /\ ever[e] = {}
          /\ IF l = HonestLink(e) THEN UNCHANGED tampers ELSE tampers' = tampers + 1
          /\ objects' = [objects EXCEPT ![e] = {l}] /\ ever' = [ever EXCEPT ![e] = {l}]
          /\ chase' = IF chase = Quiet THEN chase ELSE [chase EXCEPT !.still = FALSE]
    BY <1>1 DEF PublishLink
  <2>1. PICK l \in Link(e) :
          /\ ever[e] = {}
          /\ IF l = HonestLink(e) THEN UNCHANGED tampers ELSE tampers' = tampers + 1
          /\ objects' = [objects EXCEPT ![e] = {l}] /\ ever' = [ever EXCEPT ![e] = {l}]
          /\ chase' = IF chase = Quiet THEN chase ELSE [chase EXCEPT !.still = FALSE]
    BY <2>0
  <2>2. l \in Links
    BY LinkEnds
  <2>3. /\ tampers' \in Nat /\ (tampers' = 0 => tampers = 0 /\ l = HonestLink(e))
    BY <2>1 DEF PublicOK
  <2>4. PublicOK'
    BY <2>1, <2>2, <2>3 DEF PublicOK
  <2>5. \A x \in Epochs : ever[x] \subseteq ever'[x]
    BY <2>1 DEF PublicOK
  <2>. QED
    BY <1>1, <2>1, <2>3, <2>4, <2>5, PublishedStays DEF PublishLink
<1>2. CASE Tamper
  <2>0. PICK e \in Epochs : \E l \in Link(e) :
          /\ tampers' = tampers + 1
          /\ objects' = [objects EXCEPT ![e] = {l}] \/ objects' = [objects EXCEPT ![e] = @ \cup {l}]
          /\ ever' = [ever EXCEPT ![e] = @ \cup {l}]
          /\ chase' = IF chase = Quiet THEN chase ELSE [chase EXCEPT !.still = FALSE]
          /\ UNCHANGED <<storeVarsA, compared>>
    BY <1>2 DEF Tamper
  <2>1. PICK l \in Link(e) :
          /\ tampers' = tampers + 1
          /\ objects' = [objects EXCEPT ![e] = {l}] \/ objects' = [objects EXCEPT ![e] = @ \cup {l}]
          /\ ever' = [ever EXCEPT ![e] = @ \cup {l}]
          /\ chase' = IF chase = Quiet THEN chase ELSE [chase EXCEPT !.still = FALSE]
          /\ UNCHANGED <<storeVarsA, compared>>
    BY <2>0
  <2>2. l \in Links
    BY LinkEnds
  <2>3. tampers' \in Nat /\ tampers' # 0
    BY <2>1 DEF PublicOK
  <2>4. PublicOK'
    BY <2>1, <2>2, <2>3 DEF PublicOK
  <2>5. \A x \in Epochs : ever[x] \subseteq ever'[x]
    BY <2>1 DEF PublicOK
  <2>. QED
    BY <2>1, <2>3, <2>4, <2>5, PublishedStays
<1>3. CASE ExpireOldest
  <2>1. PICK e : objects' = [objects EXCEPT ![e] = {}]
    BY <1>3 DEF ExpireOldest
  <2>2. PublicOK'
    BY <1>3, <2>1 DEF ExpireOldest, PublicOK
  <2>. QED
    BY <1>3, <2>2, PublishedStays DEF ExpireOldest
<1>. QED
  BY <1>1, <1>2, <1>3 DEF Operator

-----------------------------------------------------------------------------
(* The search for the newest epoch. *)

LEMMA ChaseOnly ==
  ASSUME ChainInv, UNCHANGED <<publicVars, storeVarsA, compared>>, ChaseOK(chase)'
  PROVE  ChainInv'
BY DEF ChainInv, publicVars, storeVarsA, PublicOK, HeadOK, HistoryOK, JoinsAreCompared, BrandedForALie

LEMMA QuietIsOK == ChaseOK(Quiet)
<1>1. Quiet.pc = "quiet" /\ Quiet \notin Searches
  BY DEF Quiet, Searches
<1>. QED
  BY <1>1 DEF ChaseOK

(* A pass that ends leaves nothing to be said of it.                       *)
LEMMA ComesToRest == chase' = Quiet => ChaseOK(chase)'
<1>1. Quiet.pc = "quiet" /\ Quiet \notin Searches
  BY DEF Quiet, Searches
<1>. QED
  BY <1>1 DEF ChaseOK

LEMMA GreaterOfTwo ==
  ASSUME NEW a \in Int, NEW b \in Int
  PROVE  Max({a, b}) \in {a, b} /\ Max({a, b}) >= a /\ Max({a, b}) >= b
<1>1. \E x \in {a, b} : \A y \in {a, b} : x >= y
  OBVIOUS
<1>. QED
  BY <1>1 DEF Max

(* What matters of a search, told field by field.                          *)
LEMMA SearchGoesOn ==
  ASSUME chase' \in Searches, SearchOK(chase)', chase'.pc \in {"back", "up", "bisect", "found"}
  PROVE  ChaseOK(chase)'
BY DEF ChaseOK

LEMMA FindTipKeeps == ASSUME ChainInv, FindTip PROVE ChainInv'
<1>. DEFINE e == SearchAsks
<1>1. /\ chase \in Searches /\ SearchOK(chase) /\ chase.pc \in {"back", "up", "bisect"}
      /\ chase.lo \in Nat /\ chase.at \in Nat /\ chase.step \in Nat /\ chase.hi \in Nat
  BY DEF FindTip, ChainInv, ChaseOK, SearchOK, Searches, Listings, Quiet
<1>2. /\ e \in Nat
      /\ chase.pc = "back" => e = chase.at
      /\ chase.pc = "up" => e > chase.lo
      /\ chase.pc = "bisect" => chase.lo < e /\ e < chase.hi
  <2>1. CASE chase.pc = "back"
    BY <1>1, <2>1 DEF SearchAsks
  <2>2. CASE chase.pc = "up"
    BY <1>1, <2>2 DEF SearchAsks, SearchOK
  <2>3. CASE chase.pc = "bisect"
    <3>1. chase.hi - chase.lo > 1 /\ e = chase.lo + (chase.hi - chase.lo) \div 2
      BY <1>1, <2>3 DEF SearchAsks, SearchOK
    <3>. HIDE DEF e
    <3>. QED
      BY <1>1, <2>3, <3>1
  <2>. QED
    BY <1>1, <2>1, <2>2, <2>3
<1>. HIDE DEF e
<1>3. PICK l \in LinkAnswers(e) :
        chase' = LET c == [chase EXCEPT !.still = @ /\ Believable(e, l)]
                 IN IF chase.pc = "back" /\ l = NoLink THEN StepBack(c) ELSE Narrowed(c, e, l)
  BY DEF FindTip, e
<1>4. UNCHANGED <<publicVars, storeVarsA, compared>>
  BY DEF FindTip
<1>. DEFINE c == [chase EXCEPT !.still = @ /\ Believable(e, l)]
<1>5. /\ c \in Searches
      /\ c.pc = chase.pc /\ c.why = chase.why /\ c.at = chase.at /\ c.lo = chase.lo
      /\ c.hi = chase.hi /\ c.step = chase.step /\ c.link = chase.link /\ c.tip = chase.tip
      /\ c.gaps = chase.gaps /\ c.from = chase.from
      /\ c.still => chase.still /\ Believable(e, l)
  BY <1>1 DEF Searches, Believable
<1>6. chase' = IF chase.pc = "back" /\ l = NoLink THEN StepBack(c) ELSE Narrowed(c, e, l)
  BY <1>3
<1>. HIDE DEF c
<1>7. chase.why = "extend" => akdHistory' # NoHistory /\ chase.from = akdHistory'.to
  BY <1>1, <1>4 DEF SearchOK, storeVarsA
<1>8. \A x, y : PublishedFor(x, y)' = PublishedFor(x, y) /\ Present(x)' = Present(x) /\ Absent(x)' = Absent(x)
  BY <1>4 DEF PublishedFor, Present, Absent, publicVars
<1>9. CASE chase.pc = "back" /\ l = NoLink
  <2>. DEFINE lower == Max({1, c.at - c.step})
  <2>1. lower \in Nat
    <3>1. c.at - c.step \in Int
      BY <1>1, <1>5
    <3>2. lower \in {1, c.at - c.step} /\ lower >= 1
      <4>. DEFINE d == c.at - c.step
      <4>1. 1 \in Int /\ d \in Int
        BY <3>1
      <4>. HIDE DEF d
      <4>2. Max({1, d}) \in {1, d} /\ Max({1, d}) >= 1
        BY ONLY <4>1, GreaterOfTwo
      <4>. QED
        BY <4>2 DEF d
    <3>. HIDE DEF lower
    <3>. QED
      BY <3>1, <3>2
  <2>2. chase' = Quiet \/ chase' = [c EXCEPT !.at = lower, !.step = 2 * @]
    BY <1>6, <1>9 DEF StepBack
  <2>. HIDE DEF lower
  <2>3. CASE chase' = Quiet
    BY <1>4, <2>3, ComesToRest, ChaseOnly
  <2>4. CASE chase' = [c EXCEPT !.at = lower, !.step = 2 * @]
    <3>0. /\ 2 * c.step \in Nat /\ c.step = chase.step
          /\ chase' = [c EXCEPT !.at = lower, !.step = 2 * c.step]
      BY <1>1, <1>5, <2>4
    <3>1. /\ chase' \in Searches /\ chase'.pc = "back" /\ chase'.hi = chase.hi
          /\ chase'.step = 2 * chase.step /\ chase'.lo = chase.lo
          /\ chase'.why = chase.why /\ chase'.from = chase.from
      BY <1>1, <1>5, <1>9, <2>1, <3>0 DEF Searches
    <3>2. SearchOK(chase)'
      BY <1>1, <1>7, <1>9, <3>1 DEF SearchOK
    <3>. QED
      BY <1>4, <3>1, <3>2, SearchGoesOn, ChaseOnly
  <2>. QED
    BY <2>2, <2>3, <2>4
<1>10. CASE ~ (chase.pc = "back" /\ l = NoLink)
  <2>. DEFINE n == IF l = NoLink THEN [c EXCEPT !.hi = e]
                   ELSE [c EXCEPT !.lo = e, !.link = l,
                                  !.step = IF c.pc = "back" THEN 1 ELSE 2 * @]
  <2>1. chase' = CASE n.hi = 0 -> [n EXCEPT !.pc = "up"]
                   [] n.hi > 0 /\ Boundary(n) -> [n EXCEPT !.pc = "found", !.tip = n.lo, !.lo = 0,
                                                  !.hi = 0, !.step = 0, !.at = 0]
                   [] OTHER -> [n EXCEPT !.pc = "bisect"]
    BY <1>6, <1>10 DEF Narrowed
  <2>2. l \in Links \cup {NoLink} /\ (l # NoLink => PublishedFor(e, l) /\ Present(e))
    <3>1. PublicOK
      BY DEF ChainInv
    <3>. QED
      BY <3>1, AnswersArePublished DEF PublishedFor, Present
  <2>3. /\ n \in Searches /\ n.hi \in Nat /\ n.lo \in Nat
        /\ n.why = chase.why /\ n.from = chase.from /\ n.still = c.still
        /\ l # NoLink => /\ n.lo = e /\ n.link = l /\ n.hi = chase.hi
                         /\ n.step = IF chase.pc = "back" THEN 1 ELSE 2 * chase.step
        /\ l = NoLink => /\ n.hi = e /\ n.lo = chase.lo /\ n.link = chase.link
                         /\ n.step = chase.step
    <3>1. CASE l = NoLink
      BY <1>1, <1>2, <1>5, <3>1 DEF Searches
    <3>2. CASE l # NoLink
      <4>. DEFINE s == IF c.pc = "back" THEN 1 ELSE 2 * c.step
      <4>1. s \in Nat /\ s = IF chase.pc = "back" THEN 1 ELSE 2 * chase.step
        BY <1>1, <1>5
      <4>2. n = [c EXCEPT !.lo = e, !.link = l, !.step = s]
        BY <3>2
      <4>. HIDE DEF s, n
      <4>. QED
        BY <1>1, <1>2, <1>5, <2>2, <3>2, <4>1, <4>2 DEF Searches
    <3>. QED
      BY <3>1, <3>2
  <2>. HIDE DEF n
  <2>4. /\ PublishedFor(n.lo, n.link)
        /\ n.still => Present(n.lo)
        /\ n.hi = 0 => n.step >= 1
        /\ n.hi # 0 => n.hi > n.lo /\ (n.still => Absent(n.hi))
    <3>1. CASE l = NoLink
      <4>1. chase.pc \in {"up", "bisect"}
        BY <1>1, <1>10, <3>1
      <4>2. e > chase.lo
        BY <1>1, <1>2, <4>1
      <4>3. c.still => Absent(e)
        BY <1>5, <3>1 DEF Believable, Absent
      <4>. QED
        BY <1>1, <1>2, <1>5, <2>3, <3>1, <4>1, <4>2, <4>3 DEF SearchOK
    <3>2. CASE l # NoLink
      <4>1. chase.pc = "bisect" => chase.hi > e /\ (chase.still => Absent(chase.hi))
        BY <1>1, <1>2 DEF SearchOK
      <4>2. chase.pc # "bisect" => chase.hi = 0 /\ chase.step >= 1
        BY <1>1 DEF SearchOK
      <4>3. 2 * chase.step >= chase.step
        BY <1>1
      <4>. QED
        BY <1>1, <1>2, <1>5, <2>2, <2>3, <3>2, <4>1, <4>2, <4>3
    <3>. QED
      BY <3>1, <3>2
  <2>5. CASE n.hi = 0
    <3>1. chase' = [n EXCEPT !.pc = "up"]
      BY <2>1, <2>5
    <3>2. /\ chase' \in Searches /\ chase'.pc = "up" /\ chase'.lo = n.lo /\ chase'.hi = n.hi
          /\ chase'.step = n.step /\ chase'.link = n.link /\ chase'.still = n.still
          /\ chase'.why = n.why /\ chase'.from = n.from
      BY <2>3, <3>1 DEF Searches
    <3>3. SearchOK(chase)'
      BY <1>7, <1>8, <2>3, <2>4, <2>5, <3>2 DEF SearchOK
    <3>. QED
      BY <1>4, <3>2, <3>3, SearchGoesOn, ChaseOnly
  <2>6. CASE n.hi > 0 /\ Boundary(n)
    <3>1. chase' = [n EXCEPT !.pc = "found", !.tip = n.lo, !.lo = 0, !.hi = 0, !.step = 0, !.at = 0]
      BY <2>1, <2>3, <2>6
    <3>2. /\ chase' \in Searches /\ chase'.pc = "found" /\ chase'.tip = n.lo
          /\ chase'.link = n.link /\ chase'.still = n.still
          /\ chase'.why = n.why /\ chase'.from = n.from
      BY <2>3, <3>1 DEF Searches
    <3>3. n.hi = n.lo + 1
      BY <2>3, <2>4, <2>6 DEF Boundary
    <3>4. SearchOK(chase)'
      BY <1>7, <1>8, <2>3, <2>4, <2>6, <3>2, <3>3 DEF SearchOK
    <3>. QED
      BY <1>4, <3>2, <3>4, SearchGoesOn, ChaseOnly
  <2>7. CASE n.hi > 0 /\ ~ Boundary(n)
    <3>1. chase' = [n EXCEPT !.pc = "bisect"]
      BY <2>1, <2>3, <2>7
    <3>2. /\ chase' \in Searches /\ chase'.pc = "bisect" /\ chase'.lo = n.lo /\ chase'.hi = n.hi
          /\ chase'.link = n.link /\ chase'.still = n.still
          /\ chase'.why = n.why /\ chase'.from = n.from
      BY <2>3, <3>1 DEF Searches
    <3>3. n.hi - n.lo > 1
      BY <2>3, <2>7 DEF Boundary
    <3>4. SearchOK(chase)'
      BY <1>7, <1>8, <2>3, <2>4, <2>7, <3>2, <3>3 DEF SearchOK
    <3>. QED
      BY <1>4, <3>2, <3>4, SearchGoesOn, ChaseOnly
  <2>. QED
    BY <2>3, <2>5, <2>6, <2>7
<1>. QED
  BY <1>9, <1>10

-----------------------------------------------------------------------------
(* A round. *)

(* The step that moves the witnessed head goes along a path of links.      *)
AlongLinks ==
  witnessedEpoch.epoch > 0 /\ witnessedEpoch' # witnessedEpoch =>
    /\ witnessedEpoch'.epoch > witnessedEpoch.epoch
    /\ PathTo(witnessedEpoch'.epoch, witnessedEpoch'.root)

LEMMA PathGrows ==
  ASSUME PublicOK, witnessedEpoch.epoch \in Nat, NEW e \in Epochs, witnessedEpoch.epoch < e,
         NEW r, PathTo(e - 1, r), NEW l \in ever[e], l.prev = r
  PROVE  PathTo(e, l.curr)
<1>. DEFINE w == witnessedEpoch.epoch
<1>1. e \in Nat /\ w \in Nat /\ w < e /\ l \in Link(e)
  BY ChainNumbers DEF PublicOK
<1>2. PICK side \in [w .. e - 1 -> Sides] :
        /\ witnessedEpoch.root[2] = side[w] /\ r[2] = side[e - 1]
        /\ \A i \in w + 1 .. e - 1 :
             [prev |-> <<i - 1, side[i - 1]>>, curr |-> <<i, side[i]>>] \in ever[i]
  BY DEF PathTo
<1>3. /\ l = [prev |-> l.prev, curr |-> l.curr]
      /\ l.prev = <<e - 1, l.prev[2]>> /\ l.curr = <<e, l.curr[2]>> /\ l.curr[2] \in Sides
  BY <1>1, LinkEnds
<1>. DEFINE t == [i \in w .. e |-> IF i = e THEN l.curr[2] ELSE side[i]]
<1>4. t \in [w .. e -> Sides]
  <2>1. \A i \in w .. e : i # e => i \in w .. e - 1
    BY <1>1
  <2>. QED
    BY <1>2, <1>3, <2>1
<1>5. t[w] = side[w] /\ t[e] = l.curr[2] /\ \A i \in w .. e - 1 : t[i] = side[i]
  BY <1>1
<1>. HIDE DEF t
<1>6. ASSUME NEW i \in w + 1 .. e
      PROVE  [prev |-> <<i - 1, t[i - 1]>>, curr |-> <<i, t[i]>>] \in ever[i]
  <2>1. CASE i = e
    <3>1. e - 1 \in w .. e - 1
      BY <1>1
    <3>2. l = [prev |-> <<e - 1, t[e - 1]>>, curr |-> <<e, t[e]>>]
      BY <1>2, <1>3, <1>5, <3>1
    <3>. QED
      BY <2>1, <3>2
  <2>2. CASE i # e
    <3>1. i \in w + 1 .. e - 1 /\ i - 1 \in w .. e - 1 /\ i \in w .. e - 1
      BY <1>1, <1>6, <2>2
    <3>. QED
      BY <1>2, <1>5, <3>1
  <2>. QED
    BY <2>1, <2>2
<1>7. witnessedEpoch.root[2] = t[w] /\ l.curr[2] = t[e]
  BY <1>2, <1>5
<1>. QED
  BY <1>4, <1>6, <1>7 DEF PathTo

LEMMA PathBegins ==
  ASSUME witnessedEpoch.epoch \in Nat, witnessedEpoch.root[2] \in Sides
  PROVE  PathTo(witnessedEpoch.epoch, witnessedEpoch.root)
<1>. DEFINE w == witnessedEpoch.epoch
            t == [i \in w .. w |-> witnessedEpoch.root[2]]
<1>1. t \in [w .. w -> Sides] /\ t[w] = witnessedEpoch.root[2]
  OBVIOUS
<1>2. w + 1 .. w = {}
  OBVIOUS
<1>. HIDE DEF t
<1>. QED
  BY <1>1, <1>2 DEF PathTo

LEMMA RoundBeginsKeeps == ASSUME ChainInv, RoundBegins PROVE ChainInv'
<1>1. PICK hint \in {StartEpoch} \cup Epochs : chase' = TipSearch("round", hint)
  BY DEF RoundBegins
<1>2. hint \in Nat
  BY ChainNumbers
<1>3. /\ chase' \in Searches /\ chase'.pc = "back" /\ chase'.why = "round"
      /\ chase'.step = 1 /\ chase'.hi = 0 /\ chase'.lo = hint
  BY <1>1, <1>2 DEF TipSearch, Searches
<1>4. SearchOK(chase)'
  BY <1>2, <1>3 DEF SearchOK
<1>. QED
  BY <1>3, <1>4, SearchGoesOn, ChaseOnly DEF RoundBegins

LEMMA GiveUpKeeps == ASSUME ChainInv, GiveUp PROVE ChainInv'
BY ComesToRest, ChaseOnly DEF GiveUp

(* An honest log's links are honest.                                       *)
LEMMA HonestAnswers ==
  ASSUME PublicOK, tampers = 0, NEW e \in Epochs, NEW l \in ever[e]
  PROVE  l.prev = <<e - 1, HonestSide>> /\ l.curr = <<e, HonestSide>>
<1>1. l = HonestLink(e)
  BY DEF PublicOK
<1>. QED
  BY <1>1, HonestLinks

LEMMA HeadFetchedKeeps == ASSUME ChainInv, HeadFetched PROVE ChainInv' /\ AlongLinks
<1>. DEFINE w == witnessedEpoch.epoch
            t == RoundTarget
<1>1. /\ PublicOK /\ HeadOK /\ HistoryOK /\ ChaseOK(chase)
      /\ UNCHANGED <<publicVars, akdHistory, fullAge, due, branded, compared>>
  BY DEF ChainInv, HeadFetched
<1>2. /\ chase \in Searches /\ SearchOK(chase) /\ chase.why = "round" /\ chase.pc = "found"
      /\ PublishedFor(chase.tip, chase.link)
  BY <1>1 DEF HeadFetched, ChaseOK, SearchOK, Quiet, Listings
<1>3. w \in Nat /\ chase.tip \in Nat
  BY <1>1, <1>2, ChainNumbers DEF HeadOK, Searches
<1>4. PICK l \in IF t = chase.tip THEN {chase.link} ELSE LinkAnswers(t) \ {NoLink} :
         CASE w = 0 -> witnessedEpoch' = [epoch |-> t, root |-> l.curr] /\ chase' = Quiet
           [] w > 0 /\ t > w ->
                /\ chase' = [chase EXCEPT !.pc = "walk", !.tip = t, !.link = l,
                             !.at = w + 1, !.lo = witnessedEpoch.root]
                /\ UNCHANGED witnessedEpoch
           [] OTHER -> chase' = Quiet /\ UNCHANGED witnessedEpoch
  BY DEF HeadFetched
<1>. HIDE DEF t
<1>5. t \in Epochs /\ l \in ever[t]
  <2>1. CASE t = chase.tip
    BY <1>2, <1>4, <2>1 DEF PublishedFor
  <2>2. CASE t # chase.tip
    BY <1>1, <1>4, <2>2, AnswersArePublished
  <2>. QED
    BY <2>1, <2>2
<1>6. l \in Link(t) /\ t \in 1 .. MaxEpoch
  BY <1>1, <1>5 DEF PublicOK, Epochs
<1>7. l.curr = <<t, l.curr[2]>> /\ l.curr[2] \in Sides /\ l.curr \in Roots /\ l \in Links
  BY <1>5, <1>6, LinkEnds
<1>8. tampers = 0 => l.curr = <<t, HonestSide>>
  BY <1>1, <1>5, HonestAnswers
<1>9. PublicOK' /\ HistoryOK'
  BY <1>1 DEF PublicOK, HistoryOK, JoinsAreCompared, BrandedForALie, publicVars
<1>10. CASE w = 0
  <2>1. witnessedEpoch' = [epoch |-> t, root |-> l.curr] /\ chase' = Quiet
    BY <1>4, <1>10
  <2>2. witnessedEpoch'.epoch = t /\ witnessedEpoch'.root = l.curr
    BY <2>1
  <2>3. l.curr \in RootsAt(t)
    BY <1>7 DEF RootsAt
  <2>4. witnessedEpoch' \in [epoch : 0 .. MaxEpoch, root : Roots \cup {<<>>}]
    BY <1>6, <1>7, <2>1
  <2>5. HeadOK'
    BY <1>1, <1>8, <2>2, <2>3, <2>4 DEF HeadOK, publicVars
  <2>6. ChaseOK(chase)'
    BY <2>1, ComesToRest
  <2>. QED
    BY <1>9, <1>10, <2>5, <2>6 DEF ChainInv, AlongLinks
<1>11. CASE w > 0 /\ t > w
  <2>1. /\ UNCHANGED witnessedEpoch
        /\ chase' = [chase EXCEPT !.pc = "walk", !.tip = t, !.link = l,
                                  !.at = w + 1, !.lo = witnessedEpoch.root]
    BY <1>3, <1>4, <1>11
  <2>2. /\ witnessedEpoch.root \in RootsAt(w) /\ witnessedEpoch.root \in Roots
        /\ witnessedEpoch.root[2] \in Sides
    <3>1. witnessedEpoch.root \in RootsAt(w) /\ w \in 0 .. MaxEpoch
      BY <1>1, <1>11 DEF HeadOK
    <3>. QED
      BY <3>1 DEF RootsAt, Roots
  <2>3. HeadOK'
    BY <1>1, <2>1 DEF HeadOK, publicVars
  <2>4. /\ chase' \in Searches /\ chase'.pc = "walk" /\ chase'.tip = t /\ chase'.link = l
        /\ chase'.at = w + 1 /\ chase'.lo = witnessedEpoch.root /\ chase'.why = "round"
    <3>. DEFINE n == w + 1
    <3>1. n \in Nat /\ t \in Nat
      BY <1>3, <1>6
    <3>. HIDE DEF n
    <3>2. chase' = [chase EXCEPT !.pc = "walk", !.tip = t, !.link = l,
                                  !.at = n, !.lo = witnessedEpoch.root]
      BY <2>1 DEF n
    <3>3. /\ chase' \in Searches /\ chase'.pc = "walk" /\ chase'.tip = t /\ chase'.link = l
          /\ chase'.at = n /\ chase'.lo = witnessedEpoch.root /\ chase'.why = "round"
      BY <1>2, <1>7, <2>2, <3>1, <3>2 DEF Searches
    <3>. QED
      BY <3>3 DEF n
  <2>5. SearchOK(chase)'
    BY <2>4 DEF SearchOK
  <2>6. PathTo(chase.at - 1, chase.lo)'
    <3>1. PathTo(w, witnessedEpoch.root)
      BY <1>3, <2>2, PathBegins
    <3>2. PathTo(w, witnessedEpoch.root)'
      BY <1>1, <2>1, <3>1 DEF PathTo, publicVars
    <3>3. chase'.at - 1 = w
      BY <1>3, <2>4
    <3>4. witnessedEpoch' = witnessedEpoch
      BY <2>1
    <3>. QED
      BY <2>4, <3>2, <3>3, <3>4
  <2>7. WalkOK(chase)'
    <3>1. chase'.at - 1 = w /\ w < w + 1 /\ w + 1 <= t
      BY <1>3, <1>6, <1>11, <2>4
    <3>2. tampers' = 0 => witnessedEpoch.root = <<w, HonestSide>>
      BY <1>1, <1>11 DEF HeadOK, publicVars
    <3>3. tampers' = tampers /\ witnessedEpoch' = witnessedEpoch
      BY <1>1, <2>1 DEF publicVars
    <3>. QED
      BY <1>5, <1>8, <1>11, <2>2, <2>4, <2>6, <3>1, <3>2, <3>3 DEF WalkOK
  <2>8. ChaseOK(chase)'
    BY <2>4, <2>5, <2>7 DEF ChaseOK
  <2>. QED
    BY <1>9, <2>1, <2>3, <2>8 DEF ChainInv, AlongLinks
<1>12. CASE w > 0 /\ ~ (t > w)
  <2>1. chase' = Quiet /\ UNCHANGED witnessedEpoch
    BY <1>3, <1>4, <1>12
  <2>2. HeadOK'
    BY <1>1, <2>1 DEF HeadOK, publicVars
  <2>. QED
    BY <1>9, <2>1, <2>2, ComesToRest DEF ChainInv, AlongLinks
<1>. QED
  BY <1>3, <1>10, <1>11, <1>12

(* An epoch walked: either the root reached moves on along a link, or the  *)
(* round ends, with a new head at the end of the path or a contradiction   *)
(* between links.                                                          *)
LEMMA WalkEpochKeeps == ASSUME ChainInv, WalkEpoch PROVE ChainInv' /\ AlongLinks
<1>. DEFINE w == witnessedEpoch.epoch
            at == chase.at
<1>1. /\ PublicOK /\ HeadOK /\ HistoryOK /\ ChaseOK(chase)
      /\ UNCHANGED <<publicVars, akdHistory, fullAge, due, compared>>
  BY DEF ChainInv, WalkEpoch
<1>2. chase \in Searches /\ chase.pc = "walk" /\ WalkOK(chase) /\ SearchOK(chase)
  BY <1>1 DEF WalkEpoch, ChaseOK, Quiet, Listings
<1>3. /\ w \in Nat /\ at \in Nat /\ chase.tip \in Nat /\ chase.tip \in Epochs
      /\ w > 0 /\ w < at /\ at <= chase.tip /\ chase.tip <= MaxEpoch
  BY <1>1, <1>2, ChainNumbers DEF HeadOK, Searches, WalkOK
<1>4. PICK l \in LinkAnswers(at) \ {NoLink} :
        LET last == at = chase.tip
            fork == ~Follows(l, chase.lo) \/ (last /\ l.curr # chase.link.curr)
        IN /\ branded' = (branded \/ fork)
           /\ chase' = IF fork \/ last THEN Quiet
                       ELSE [chase EXCEPT !.at = @ + 1, !.lo = l.curr]
           /\ witnessedEpoch' = IF last /\ ~fork
                                THEN [epoch |-> chase.tip, root |-> l.curr] ELSE witnessedEpoch
  BY DEF WalkEpoch
<1>. DEFINE last == at = chase.tip
            fork == l.prev # chase.lo \/ (last /\ l.curr # chase.link.curr)
<1>5. at \in Epochs /\ l \in ever[at] /\ l \in Link(at)
  BY <1>1, <1>4, AnswersArePublished
<1>6. /\ branded' = (branded \/ fork)
      /\ chase' = IF fork \/ last THEN Quiet ELSE [chase EXCEPT !.at = at + 1, !.lo = l.curr]
      /\ witnessedEpoch' = IF last /\ ~fork
                           THEN [epoch |-> chase.tip, root |-> l.curr] ELSE witnessedEpoch
  BY <1>4 DEF Follows
<1>7. l.curr = <<at, l.curr[2]>> /\ l.curr[2] \in Sides /\ l.curr \in Roots /\ l.curr \in RootsAt(at)
  <2>1. l.curr = <<at, l.curr[2]>> /\ l.curr[2] \in Sides /\ l.curr \in Roots
    <3>. HIDE DEF at
    <3>. QED
      BY <1>5, LinkEnds
  <2>2. l.curr \in RootsAt(at)
    BY <1>5 DEF Link
  <2>. QED
    BY <2>1, <2>2
<1>8. tampers = 0 => l.curr = <<at, HonestSide>> /\ ~fork
  BY <1>1, <1>2, <1>5, HonestAnswers DEF WalkOK
<1>9. PublicOK' /\ tampers' = tampers /\ ever' = ever
  BY <1>1 DEF PublicOK, publicVars
<1>10. HistoryOK'
  <2>1. BrandedForALie'
    BY <1>1, <1>6, <1>8, <1>9 DEF HistoryOK, BrandedForALie, PublicOK
  <2>2. JoinsAreCompared'
    BY <1>1 DEF HistoryOK, JoinsAreCompared
  <2>3. branded' \in BOOLEAN
    BY <1>1, <1>6 DEF HistoryOK
  <2>. QED
    BY <1>1, <2>1, <2>2, <2>3 DEF HistoryOK
<1>11. ~fork => PathTo(at, l.curr)
  <2>1. PathTo(at - 1, chase.lo)
    BY <1>2 DEF WalkOK
  <2>2. ASSUME l.prev = chase.lo PROVE PathTo(at, l.curr)
    <3>. HIDE DEF at
    <3>. QED
      BY <1>1, <1>3, <1>5, <2>1, <2>2, PathGrows
  <2>. QED
    BY <2>2
<1>12. CASE last /\ ~fork
  <2>1. witnessedEpoch' = [epoch |-> chase.tip, root |-> l.curr] /\ chase' = Quiet
    BY <1>6, <1>12
  <2>2. witnessedEpoch'.epoch = chase.tip /\ witnessedEpoch'.root = l.curr
    BY <2>1
  <2>3. witnessedEpoch' \in [epoch : 0 .. MaxEpoch, root : Roots \cup {<<>>}]
    BY <1>3, <1>7, <2>1, ChainNumbers
  <2>4. HeadOK'
    BY <1>7, <1>8, <1>9, <1>12, <2>2, <2>3 DEF HeadOK
  <2>5. AlongLinks
    BY <1>3, <1>11, <1>12, <2>2 DEF AlongLinks
  <2>. QED
    BY <1>9, <1>10, <2>1, <2>4, <2>5, ComesToRest DEF ChainInv
<1>13. CASE fork
  <2>1. witnessedEpoch' = witnessedEpoch /\ chase' = Quiet
    BY <1>6, <1>13
  <2>2. HeadOK'
    BY <1>1, <1>9, <2>1 DEF HeadOK
  <2>. QED
    BY <1>9, <1>10, <2>1, <2>2, ComesToRest DEF ChainInv, AlongLinks
<1>14. CASE ~fork /\ ~last
  <2>. DEFINE n == at + 1
  <2>1. /\ witnessedEpoch' = witnessedEpoch
        /\ chase' = [chase EXCEPT !.at = n, !.lo = l.curr]
    BY <1>6, <1>14
  <2>2. n \in Nat /\ n - 1 = at /\ n <= chase.tip /\ w < n
    BY <1>3, <1>14
  <2>. HIDE DEF n
  <2>3. HeadOK'
    BY <1>1, <1>9, <2>1 DEF HeadOK
  <2>4. /\ chase' \in Searches /\ chase'.pc = "walk" /\ chase'.tip = chase.tip
        /\ chase'.link = chase.link /\ chase'.at = n /\ chase'.lo = l.curr
        /\ chase'.why = chase.why /\ chase'.from = chase.from
    BY <1>2, <1>7, <2>1, <2>2 DEF Searches
  <2>5. SearchOK(chase)'
    BY <1>1, <1>2, <2>4 DEF SearchOK
  <2>6. PathTo(chase.at - 1, chase.lo)'
    <3>1. PathTo(at, l.curr)
      BY <1>11, <1>14
    <3>2. chase'.at - 1 = at /\ chase'.lo = l.curr
      BY <2>2, <2>4
    <3>. QED
      BY <1>9, <2>1, <3>1, <3>2 DEF PathTo
  <2>7. WalkOK(chase)'
    BY <1>2, <1>3, <1>7, <1>8, <1>9, <2>1, <2>2, <2>4, <2>6 DEF WalkOK
  <2>8. ChaseOK(chase)'
    BY <2>4, <2>5, <2>7 DEF ChaseOK
  <2>. QED
    BY <1>9, <1>10, <2>1, <2>3, <2>8 DEF ChainInv, AlongLinks
<1>. QED
  BY <1>12, <1>13, <1>14

-----------------------------------------------------------------------------
(* The history. *)

LEMMA HourPassesKeeps == ASSUME ChainInv, HourPasses PROVE ChainInv'
<1>1. /\ PublicOK /\ HeadOK /\ HistoryOK /\ chase = Quiet
      /\ UNCHANGED <<publicVars, witnessedEpoch, chase, compared, branded>> /\ due' = TRUE
  BY DEF ChainInv, HourPasses
<1>2. PublicOK' /\ HeadOK'
  BY <1>1 DEF PublicOK, HeadOK, publicVars
<1>3. fullAge' \in 0 .. FullEvery + 2
  BY <1>1, ChainNumbers DEF HourPasses, Capped, HistoryOK
<1>4. \/ akdHistory' = akdHistory
      \/ /\ akdHistory \in HistoryRecords /\ akdHistory' \in HistoryRecords
         /\ akdHistory'.from = akdHistory.from /\ akdHistory'.to = akdHistory.to
         /\ akdHistory'.gaps = akdHistory.gaps
  <2>1. CASE akdHistory = NoHistory
    BY <2>1 DEF HourPasses
  <2>2. CASE akdHistory # NoHistory
    <3>1. akdHistory \in HistoryRecords
      BY <1>1, <2>2 DEF HistoryOK
    <3>. DEFINE a == Capped(akdHistory.age + 1, FullEvery + 1)
    <3>2. a \in Nat
      BY <3>1, ChainNumbers DEF Capped, HistoryRecords
    <3>3. akdHistory' = [akdHistory EXCEPT !.age = a]
      BY <2>2 DEF HourPasses
    <3>. HIDE DEF a
    <3>. QED
      BY <3>1, <3>2, <3>3 DEF HistoryRecords
  <2>. QED
    BY <2>1, <2>2
<1>5. \A h \in HistoryRecords : h # NoHistory
  BY DEF HistoryRecords, NoHistory
<1>6. JoinsAreCompared'
  BY <1>1, <1>4, <1>5 DEF HistoryOK, JoinsAreCompared
<1>7. HistoryOK'
  BY <1>1, <1>3, <1>4, <1>5, <1>6 DEF HistoryOK, BrandedForALie, publicVars
<1>. QED
  BY <1>1, <1>2, <1>7, ComesToRest DEF ChainInv

LEMMA BackfillBeginsKeeps == ASSUME ChainInv, BackfillBegins PROVE ChainInv'
<1>1. /\ PublicOK /\ HeadOK /\ HistoryOK
      /\ UNCHANGED <<publicVars, witnessedEpoch, akdHistory, compared, fullAge, branded>>
      /\ due' = FALSE
  BY DEF ChainInv, BackfillBegins
<1>2. PublicOK' /\ HeadOK' /\ HistoryOK'
  BY <1>1 DEF PublicOK, HeadOK, HistoryOK, JoinsAreCompared, BrandedForALie, publicVars
<1>3. CASE akdHistory = NoHistory \/ akdHistory.age > FullEvery
  <2>1. chase' = [pc |-> "list", why |-> "full", at |-> 1, read |-> [e \in Epochs |-> NoLink],
                  still |-> TRUE]
    BY <1>3 DEF BackfillBegins
  <2>2. /\ chase' \in Listings /\ chase'.pc = "list" /\ chase'.at = 1
        /\ \A e \in Epochs : chase'.read[e] = NoLink
    BY <2>1 DEF Listings
  <2>3. chase' \notin Searches
    BY <2>2 DEF Searches
  <2>4. ListOK(chase)'
    BY <2>2 DEF ListOK
  <2>5. ChaseOK(chase)'
    BY <2>2, <2>3, <2>4 DEF ChaseOK
  <2>. QED
    BY <1>2, <2>5 DEF ChainInv
<1>4. CASE ~ (akdHistory = NoHistory \/ akdHistory.age > FullEvery)
  <2>1. chase' = TipSearch("extend", akdHistory.to)
    BY <1>4 DEF BackfillBegins
  <2>2. akdHistory.to \in Nat
    BY <1>1, <1>4, ChainNumbers DEF HistoryOK, HistoryRecords
  <2>3. /\ chase' \in Searches /\ chase'.pc = "back" /\ chase'.why = "extend"
        /\ chase'.step = 1 /\ chase'.hi = 0 /\ chase'.lo = akdHistory.to /\ chase'.from = akdHistory.to
    BY <2>1, <2>2 DEF TipSearch, Searches
  <2>4. SearchOK(chase)'
    BY <1>1, <1>4, <2>2, <2>3 DEF SearchOK
  <2>. QED
    BY <1>2, <2>3, <2>4, SearchGoesOn DEF ChainInv
<1>. QED
  BY <1>3, <1>4

LEMMA ListPageKeeps == ASSUME ChainInv, ListPage PROVE ChainInv'
<1>1. PublicOK /\ ChaseOK(chase) /\ UNCHANGED <<publicVars, storeVarsA, compared>>
  BY DEF ChainInv, ListPage
<1>2. chase \in Listings /\ ListOK(chase) /\ chase.at \in Epochs
  BY <1>1 DEF ListPage, ChaseOK, Quiet, Searches
<1>3. PICK l \in LinkAnswers(chase.at) :
        chase' = [chase EXCEPT !.read[chase.at] = l, !.at = @ + 1]
  BY DEF ListPage
<1>4. l \in Links \cup {NoLink} /\ (l # NoLink => l \in ever[chase.at])
  BY <1>1, AnswersArePublished
<1>. DEFINE n == chase.at + 1
            rd == [chase.read EXCEPT ![chase.at] = l]
<1>5. n \in Nat /\ 1 <= n
  <2>1. chase.at \in Nat /\ 1 <= chase.at
    BY <1>2 DEF Listings, ListOK
  <2>. QED
    BY <2>1
<1>6. rd \in [Epochs -> Links \cup {NoLink}] /\ \A e \in Epochs : rd[e] # NoLink => rd[e] \in ever[e]
  BY <1>2, <1>4 DEF Listings, ListOK
<1>7. chase' = [chase EXCEPT !.read = rd, !.at = n]
  BY <1>2, <1>3 DEF Listings
<1>. HIDE DEF n, rd
<1>8. chase' \in Listings /\ chase'.pc = "list" /\ chase'.at = n /\ chase'.read = rd
  BY <1>2, <1>5, <1>6, <1>7 DEF Listings
<1>9. ListOK(chase)'
  BY <1>1, <1>5, <1>6, <1>8 DEF ListOK, publicVars
<1>10. chase' \notin Searches
  BY <1>8 DEF Searches
<1>11. ChaseOK(chase)'
  BY <1>8, <1>9, <1>10 DEF ChaseOK
<1>. QED
  BY <1>1, <1>11, ChaseOnly

(* Nothing but the record of the history and what was compared changes.    *)
LEMMA HistoryMoves ==
  ASSUME ChainInv, UNCHANGED <<publicVars, witnessedEpoch, due>>, chase' = Quiet, HistoryOK'
  PROVE  ChainInv'
<1>1. PublicOK' /\ HeadOK'
  BY DEF ChainInv, PublicOK, HeadOK, publicVars
<1>. QED
  BY <1>1, ComesToRest DEF ChainInv

LEMMA HistoryListedKeeps == ASSUME ChainInv, HistoryListed PROVE ChainInv'
<1>. DEFINE rd == chase.read
            there == {e \in Epochs : rd[e] # NoLink}
            fork == \E e \in Joins(rd) : ~Follows(rd[e], rd[e - 1].curr)
<1>1. /\ PublicOK /\ HistoryOK /\ ChaseOK(chase) /\ chase' = Quiet
      /\ UNCHANGED <<publicVars, witnessedEpoch, due>>
  BY DEF ChainInv, HistoryListed
<1>2. ListOK(chase)
  BY <1>1 DEF HistoryListed, ChaseOK
<1>3. IF there = {} THEN UNCHANGED <<akdHistory, fullAge, branded, compared>>
      ELSE IF fork THEN branded' = TRUE /\ UNCHANGED <<akdHistory, fullAge, compared>>
      ELSE /\ RecordAkdHistory(Min(there), Max(there), (Min(there)..Max(there)) \ there)
           /\ compared' = compared \cup Joins(rd)
           /\ fullAge' = 0
           /\ UNCHANGED branded
  BY DEF HistoryListed
<1>4. \A e \in Epochs : rd[e] # NoLink => rd[e] \in ever[e]
  BY <1>2 DEF ListOK
<1>. HIDE DEF rd
<1>5. fork => tampers > 0
  <2>1. SUFFICES ASSUME tampers = 0, NEW e \in Joins(rd) PROVE rd[e].prev = rd[e - 1].curr
    BY <1>1 DEF PublicOK, Follows
  <2>2. e \in Epochs /\ e > 1 /\ rd[e] # NoLink /\ rd[e - 1] # NoLink
    BY DEF Joins
  <2>3. e - 1 \in Epochs
    BY <2>2, ChainNumbers DEF Epochs
  <2>4. rd[e].prev = <<e - 1, HonestSide>>
    BY <1>1, <1>4, <2>1, <2>2, HonestAnswers
  <2>5. rd[e - 1].curr = <<e - 1, HonestSide>>
    <3>. DEFINE f == e - 1
    <3>1. f \in Epochs /\ rd[f] \in ever[f]
      BY <1>4, <2>2, <2>3
    <3>. HIDE DEF f
    <3>2. rd[f].curr = <<f, HonestSide>>
      BY <1>1, <2>1, <3>1, HonestAnswers
    <3>. QED
      BY <3>2 DEF f
  <2>. QED
    BY <2>4, <2>5
<1>6. CASE there = {}
  <2>1. HistoryOK'
    BY <1>1, <1>3, <1>6 DEF HistoryOK, JoinsAreCompared, BrandedForALie, publicVars
  <2>. QED
    BY <1>1, <2>1, HistoryMoves
<1>7. CASE there # {} /\ fork
  <2>1. UNCHANGED <<akdHistory, fullAge, compared, due, tampers>> /\ branded' = TRUE /\ tampers > 0
    BY <1>1, <1>3, <1>5, <1>7 DEF publicVars
  <2>2. HistoryOK'
    BY <1>1, <2>1 DEF HistoryOK, JoinsAreCompared, BrandedForALie
  <2>. QED
    BY <1>1, <2>2, HistoryMoves
<1>8. CASE there # {} /\ ~fork
  <2>. DEFINE lo == Min(there)
              hi == Max(there)
              gaps == (lo .. hi) \ there
  <2>1. /\ akdHistory' = [from |-> lo, to |-> hi, gaps |-> gaps, age |-> 0]
        /\ compared' = compared \cup Joins(rd) /\ fullAge' = 0 /\ branded' = branded
    BY <1>3, <1>8 DEF RecordAkdHistory
  <2>2. there \in SUBSET Epochs /\ there \in SUBSET Nat /\ \A x \in there : x <= MaxEpoch
    BY ChainNumbers
  <2>3. lo \in there /\ hi \in there /\ lo <= hi
    <3>. HIDE DEF there
    <3>1. lo \in there /\ \A x \in there : lo <= x
      BY <1>8, <2>2, LeastOfNats
    <3>2. hi \in there
      BY <1>8, <2>2, ChainNumbers, GreatestOfNats
    <3>. QED
      BY <3>1, <3>2
  <2>4. lo \in Epochs /\ hi \in Epochs /\ lo \in Nat /\ hi \in Nat
    BY <2>2, <2>3
  <2>. HIDE DEF lo, hi
  <2>5. gaps \in SUBSET Nat
    BY <2>4
  <2>6. /\ akdHistory' \in HistoryRecords /\ akdHistory'.from = lo /\ akdHistory'.to = hi
        /\ akdHistory'.gaps = gaps
    <3>. HIDE DEF gaps
    <3>. QED
      BY <2>1, <2>4, <2>5 DEF HistoryRecords
  <2>7. ASSUME NEW e \in lo + 1 .. hi PROVE e \in compared' \/ {e - 1, e} \cap gaps # {}
    <3>1. e \in lo .. hi /\ e - 1 \in lo .. hi /\ e \in Epochs /\ e > 1
      BY <2>4, <2>7, ChainNumbers DEF Epochs
    <3>2. CASE e \in there /\ e - 1 \in there
      <4>1. e \in Joins(rd)
        BY <3>1, <3>2 DEF Joins
      <4>. QED
        BY <2>1, <4>1
    <3>3. CASE e \notin there \/ e - 1 \notin there
      <4>1. e \in gaps \/ e - 1 \in gaps
        <5>. HIDE DEF there
        <5>. QED
          BY <3>1, <3>3
      <4>. QED
        BY <4>1
    <3>. QED
      BY <3>2, <3>3
  <2>8. JoinsAreCompared'
    <3>. HIDE DEF gaps
    <3>. QED
      BY <2>6, <2>7 DEF JoinsAreCompared
  <2>9. compared' \subseteq Epochs
    BY <1>1, <2>1 DEF HistoryOK, Joins
  <2>10. fullAge' \in 0 .. FullEvery + 2
    BY <2>1, ChainNumbers
  <2>11. HistoryOK'
    BY <1>1, <2>1, <2>3, <2>6, <2>8, <2>9, <2>10 DEF HistoryOK, BrandedForALie, publicVars
  <2>. QED
    BY <1>1, <2>11, HistoryMoves
<1>. QED
  BY <1>6, <1>7, <1>8

(* The recorded range grows to an epoch to, with gaps for what is missing  *)
(* in between.                                                             *)
LEMMA ExtendedOK ==
  ASSUME ChainInv, akdHistory # NoHistory, NEW to \in Epochs, NEW gaps \in SUBSET Nat,
         akdHistory.to <= to, Extended(to, gaps), UNCHANGED <<publicVars, compared, fullAge, due, branded>>,
         \A e \in akdHistory.to + 1 .. to : e \in compared \/ {e - 1, e} \cap gaps # {}
  PROVE  HistoryOK'
<1>1. /\ HistoryOK /\ akdHistory \in HistoryRecords
      /\ akdHistory.from \in Nat /\ akdHistory.to \in Nat /\ to \in Nat
      /\ akdHistory.from \in Epochs /\ akdHistory.gaps \in SUBSET Nat
      /\ akdHistory.from <= akdHistory.to
  BY ChainNumbers DEF ChainInv, HistoryOK, HistoryRecords
<1>. DEFINE g == akdHistory.gaps \cup gaps
<1>2. akdHistory' = [from |-> akdHistory.from, to |-> to, gaps |-> g, age |-> 0] /\ g \in SUBSET Nat
  BY <1>1 DEF Extended, RecordAkdHistory
<1>3. /\ akdHistory' \in HistoryRecords /\ akdHistory'.from = akdHistory.from
      /\ akdHistory'.to = to /\ akdHistory'.gaps = g
  <2>. HIDE DEF g
  <2>. QED
    BY <1>1, <1>2 DEF HistoryRecords
<1>4. ASSUME NEW e \in akdHistory.from + 1 .. to
      PROVE  e \in compared \/ {e - 1, e} \cap g # {}
  <2>1. e \in akdHistory.from + 1 .. akdHistory.to \/ e \in akdHistory.to + 1 .. to
    BY <1>1, <1>4
  <2>2. e \in akdHistory.from + 1 .. akdHistory.to => e \in compared \/ {e - 1, e} \cap akdHistory.gaps # {}
    BY <1>1 DEF HistoryOK, JoinsAreCompared
  <2>. QED
    BY <2>1, <2>2
<1>5. JoinsAreCompared'
  <2>. HIDE DEF g
  <2>. QED
    BY <1>3, <1>4 DEF JoinsAreCompared
<1>6. akdHistory'.from <= akdHistory'.to
  BY <1>1, <1>3
<1>. QED
  BY <1>1, <1>3, <1>5, <1>6 DEF HistoryOK, BrandedForALie, publicVars

LEMMA NothingNewKeeps == ASSUME ChainInv, NothingNew PROVE ChainInv'
<1>1. /\ chase \in Searches /\ SearchOK(chase) /\ akdHistory # NoHistory /\ chase.from = akdHistory.to
  BY DEF ChainInv, NothingNew, ChaseOK, SearchOK, Quiet, Listings
<1>2. /\ akdHistory.to \in Epochs /\ akdHistory.to \in Nat
  BY <1>1, ChainNumbers DEF ChainInv, HistoryOK, HistoryRecords
<1>3. akdHistory.to + 1 .. akdHistory.to = {} /\ akdHistory.to <= akdHistory.to
  BY <1>2
<1>4. Extended(akdHistory.to, {}) /\ chase' = Quiet
      /\ UNCHANGED <<publicVars, witnessedEpoch, compared, fullAge, due, branded>>
  BY <1>1 DEF NothingNew
<1>5. HistoryOK'
  BY <1>1, <1>2, <1>3, <1>4, ExtendedOK
<1>. QED
  BY <1>4, <1>5, HistoryMoves

LEMMA AnchorKeeps == ASSUME ChainInv, Anchor PROVE ChainInv'
<1>1. /\ PublicOK /\ chase \in Searches /\ SearchOK(chase) /\ chase.why = "extend"
      /\ chase.pc = "found" /\ chase.tip > chase.from
      /\ akdHistory # NoHistory /\ chase.from = akdHistory.to
      /\ UNCHANGED <<publicVars, storeVarsA, compared>>
  BY DEF ChainInv, Anchor, ChaseOK, SearchOK, Quiet, Listings
<1>2. chase.from \in Nat /\ chase.tip \in Nat /\ chase.tip \in Epochs
  BY <1>1 DEF Searches, SearchOK, PublishedFor
<1>. DEFINE n == chase.from + 1
<1>3. PICK l \in LinkAnswers(chase.from) \ {NoLink} :
        chase' = [chase EXCEPT !.pc = "extend", !.link = l, !.at = n]
  BY DEF Anchor
<1>4. chase.from \in Epochs /\ l \in ever[chase.from] /\ l \in Links /\ l # NoLink
  BY <1>1, <1>3, AnswersArePublished
<1>5. n \in Nat /\ n - 1 = chase.from /\ chase.from < n /\ n <= chase.tip + 1
  BY <1>1, <1>2
<1>. HIDE DEF n
<1>6. /\ chase' \in Searches /\ chase'.pc = "extend" /\ chase'.link = l /\ chase'.at = n
      /\ chase'.why = "extend" /\ chase'.tip = chase.tip /\ chase'.from = chase.from
  BY <1>1, <1>3, <1>4, <1>5 DEF Searches
<1>7. akdHistory' = akdHistory /\ ever' = ever
  BY <1>1 DEF storeVarsA, publicVars
<1>8. SearchOK(chase)'
  BY <1>1, <1>6, <1>7 DEF SearchOK
<1>9. chase.from + 1 .. n - 1 = {}
  BY <1>2, <1>5
<1>10. ExtendOK(chase)'
  BY <1>2, <1>4, <1>5, <1>6, <1>7, <1>9 DEF ExtendOK, PublishedFor
<1>11. ChaseOK(chase)'
  BY <1>6, <1>8, <1>10 DEF ChaseOK
<1>. QED
  BY <1>1, <1>11, ChaseOnly

LEMMA ExtendByOneKeeps == ASSUME ChainInv, ExtendByOne PROVE ChainInv'
<1>. DEFINE at == chase.at
<1>1. /\ PublicOK /\ HeadOK /\ HistoryOK /\ chase \in Searches /\ SearchOK(chase) /\ ExtendOK(chase)
      /\ chase.pc = "extend" /\ at <= chase.tip
      /\ UNCHANGED <<publicVars, witnessedEpoch, akdHistory, fullAge, due>>
  BY DEF ChainInv, ExtendByOne, ChaseOK, Quiet, Listings
<1>2. /\ chase.why = "extend" /\ chase.from \in Nat /\ chase.tip \in Nat /\ at \in Nat
      /\ chase.tip <= MaxEpoch /\ chase.from < at /\ at \in Epochs /\ chase.gaps \in SUBSET Nat
      /\ chase.link \in Links \cup {NoLink} /\ chase.tip \in Epochs
  BY <1>1, ChainNumbers DEF Searches, ExtendOK, Epochs
<1>. DEFINE join(l) == l # NoLink /\ chase.link # NoLink
            brk(l) == join(l) /\ l.prev # chase.link.curr
<1>3. PICK l \in LinkAnswers(at) :
        /\ branded' = (branded \/ brk(l))
        /\ compared' = IF join(l) /\ ~brk(l) THEN compared \cup {at} ELSE compared
        /\ chase' = IF brk(l) THEN Quiet
                    ELSE [chase EXCEPT !.link = l, !.at = @ + 1,
                          !.gaps = IF l = NoLink THEN @ \cup {at} ELSE @]
  BY DEF ExtendByOne, Follows
<1>. DEFINE joined == join(l)
            fork == brk(l)
<1>4. l \in Links \cup {NoLink} /\ (l # NoLink => l \in ever[at])
  BY <1>1, AnswersArePublished
<1>5. chase.link # NoLink => at - 1 \in Epochs /\ chase.link \in ever[at - 1]
  BY <1>1 DEF ExtendOK, PublishedFor
<1>6. fork => tampers > 0
  <2>1. SUFFICES ASSUME tampers = 0, joined PROVE l.prev = chase.link.curr
    BY <1>1 DEF PublicOK
  <2>2. l.prev = <<at - 1, HonestSide>>
    <3>1. l \in ever[at]
      BY <1>4, <2>1
    <3>. HIDE DEF at
    <3>. QED
      BY <1>1, <1>2, <2>1, <3>1, HonestAnswers
  <2>3. chase.link.curr = <<at - 1, HonestSide>>
    <3>. DEFINE f == at - 1
    <3>1. f \in Epochs /\ chase.link \in ever[f]
      BY <1>5, <2>1
    <3>. HIDE DEF f
    <3>2. chase.link.curr = <<f, HonestSide>>
      BY <1>1, <2>1, <3>1, HonestAnswers
    <3>. QED
      BY <3>2 DEF f
  <2>. QED
    BY <2>2, <2>3
<1>7. PublicOK' /\ HeadOK'
  BY <1>1 DEF PublicOK, HeadOK, publicVars
<1>8. compared \subseteq compared' /\ compared' \subseteq Epochs
  BY <1>1, <1>2, <1>3 DEF HistoryOK
<1>9. HistoryOK'
  <2>1. JoinsAreCompared'
    BY <1>1, <1>8 DEF HistoryOK, JoinsAreCompared
  <2>2. BrandedForALie'
    <3>1. branded' => branded \/ fork
      BY <1>3
    <3>2. tampers' = tampers
      BY <1>1 DEF publicVars
    <3>. HIDE DEF fork
    <3>. QED
      BY <1>1, <1>6, <3>1, <3>2 DEF HistoryOK, BrandedForALie
  <2>3. branded' \in BOOLEAN
    BY <1>1, <1>3 DEF HistoryOK
  <2>. QED
    BY <1>1, <1>8, <2>1, <2>2, <2>3 DEF HistoryOK
<1>10. CASE fork
  <2>1. chase' = Quiet
    BY <1>3, <1>10
  <2>. QED
    BY <1>7, <1>9, <2>1, ComesToRest DEF ChainInv
<1>11. CASE ~fork
  <2>. DEFINE n == at + 1
              g == IF l = NoLink THEN chase.gaps \cup {at} ELSE chase.gaps
  <2>1. chase' = [chase EXCEPT !.link = l, !.at = n, !.gaps = g]
    BY <1>3, <1>11
  <2>2. /\ n \in Nat /\ n - 1 = at /\ chase.from < n /\ n <= chase.tip + 1
        /\ g \in SUBSET Nat /\ chase.gaps \subseteq g /\ (l = NoLink => at \in g)
    BY <1>1, <1>2
  <2>. HIDE DEF n, g
  <2>3. /\ chase' \in Searches /\ chase'.pc = "extend" /\ chase'.link = l /\ chase'.at = n
        /\ chase'.why = "extend" /\ chase'.tip = chase.tip /\ chase'.from = chase.from
        /\ chase'.gaps = g
    BY <1>1, <1>2, <1>4, <2>1, <2>2 DEF Searches
  <2>4. SearchOK(chase)'
    BY <1>1, <1>2, <2>3 DEF SearchOK
  <2>5. ASSUME NEW e \in chase.from + 1 .. at PROVE e \in compared' \/ {e - 1, e} \cap g # {}
    <3>1. CASE e = at
      <4>1. CASE joined
        BY <1>3, <1>11, <3>1, <4>1
      <4>2. CASE l = NoLink
        BY <2>2, <3>1, <4>2
      <4>3. CASE chase.link = NoLink
        <5>1. at - 1 \in chase.gaps
          BY <1>1, <4>3 DEF ExtendOK
        <5>. QED
          BY <2>2, <3>1, <5>1
      <4>. QED
        BY <4>1, <4>2, <4>3
    <3>2. CASE e # at
      <4>1. e \in chase.from + 1 .. at - 1
        BY <1>2, <2>5, <3>2
      <4>2. e \in compared \/ {e - 1, e} \cap chase.gaps # {}
        BY <1>1, <4>1 DEF ExtendOK
      <4>. QED
        BY <1>8, <2>2, <4>2
    <3>. QED
      BY <3>1, <3>2
  <2>6. l # NoLink => at \in Epochs /\ l \in ever'[at]
    BY <1>1, <1>2, <1>4 DEF publicVars
  <2>7. ExtendOK(chase)'
    BY <1>2, <2>2, <2>3, <2>5, <2>6 DEF ExtendOK, PublishedFor
  <2>8. ChaseOK(chase)'
    BY <2>3, <2>4, <2>7 DEF ChaseOK
  <2>. QED
    BY <1>7, <1>9, <2>8 DEF ChainInv
<1>. QED
  BY <1>10, <1>11

LEMMA HistoryExtendedKeeps == ASSUME ChainInv, HistoryExtended PROVE ChainInv'
<1>1. /\ chase \in Searches /\ SearchOK(chase) /\ ExtendOK(chase) /\ chase.at > chase.tip
      /\ Extended(chase.tip, chase.gaps) /\ chase' = Quiet
      /\ UNCHANGED <<publicVars, witnessedEpoch, compared, fullAge, due, branded>>
  BY DEF ChainInv, HistoryExtended, ChaseOK, Quiet, Listings
<1>2. /\ akdHistory # NoHistory /\ chase.from = akdHistory.to
      /\ chase.tip \in Epochs /\ chase.gaps \in SUBSET Nat
      /\ chase.from \in Nat /\ chase.tip \in Nat /\ chase.at \in Nat
      /\ chase.from < chase.at /\ chase.at <= chase.tip + 1
  BY <1>1 DEF SearchOK, ExtendOK, Searches
<1>3. chase.at - 1 = chase.tip /\ akdHistory.to <= chase.tip
  BY <1>1, <1>2
<1>4. \A e \in akdHistory.to + 1 .. chase.tip : e \in compared \/ {e - 1, e} \cap chase.gaps # {}
  BY <1>1, <1>2, <1>3 DEF ExtendOK
<1>5. HistoryOK'
  BY <1>1, <1>2, <1>3, <1>4, ExtendedOK
<1>. QED
  BY <1>1, <1>5, HistoryMoves

-----------------------------------------------------------------------------
LEMMA ChainInitOK == AkdChainInit => ChainInv
<1>. SUFFICES ASSUME AkdChainInit PROVE ChainInv
  OBVIOUS
<1>1. PublicOK
  BY DEF AkdChainInit, PublicOK
<1>2. HeadOK
  <2>1. witnessedEpoch = [epoch |-> 0, root |-> <<>>] /\ 0 \in 0 .. MaxEpoch
    BY ChainNumbers DEF AkdChainInit
  <2>2. witnessedEpoch.epoch = 0
    BY <2>1
  <2>. QED
    BY <2>1, <2>2 DEF HeadOK
<1>3. HistoryOK
  <2>1. due \in BOOLEAN /\ branded \in BOOLEAN /\ BrandedForALie
    BY DEF AkdChainInit, BrandedForALie
  <2>2. fullAge \in 0 .. FullEvery + 2
    BY ChainNumbers DEF AkdChainInit
  <2>3. akdHistory = NoHistory /\ compared = {} /\ JoinsAreCompared
    BY DEF AkdChainInit, JoinsAreCompared
  <2>. QED
    BY <2>1, <2>2, <2>3 DEF HistoryOK
<1>4. ChaseOK(chase)
  BY QuietIsOK DEF AkdChainInit
<1>. QED
  BY <1>1, <1>2, <1>3, <1>4 DEF ChainInv

(* Rounds and passes of backfill over one object store: a step of either   *)
(* keeps the invariant.                                                    *)
LEMMA ChainStep ==
  ASSUME ChainInv, [AkdRoundsNext \/ AkdHistoryNext]_akdVars
  PROVE  ChainInv' /\ AlongLinks
<1>1. CASE UNCHANGED akdVars
  <2>1. UNCHANGED <<publicVars, storeVarsA, compared>> /\ witnessedEpoch' = witnessedEpoch
    BY <1>1 DEF akdVars, publicVars, storeVarsA
  <2>2. ChaseOK(chase)'
    BY <1>1 DEF akdVars, ChainInv, ChaseOK, SearchOK, WalkOK, ExtendOK, ListOK, PathTo,
                PublishedFor, Present, Absent
  <2>. QED
    BY <2>1, <2>2, ChaseOnly DEF AlongLinks
<1>2. CASE Operator
  BY <1>2, OperatorKeeps DEF Operator, PublishLink, Tamper, ExpireOldest, storeVarsA, AlongLinks
<1>3. CASE FindTip
  BY <1>3, FindTipKeeps DEF FindTip, storeVarsA, AlongLinks
<1>4. CASE GiveUp
  BY <1>4, GiveUpKeeps DEF GiveUp, storeVarsA, AlongLinks
<1>5. CASE RoundBegins
  BY <1>5, RoundBeginsKeeps DEF RoundBegins, storeVarsA, AlongLinks
<1>6. CASE HeadFetched
  BY <1>6, HeadFetchedKeeps
<1>7. CASE WalkEpoch
  BY <1>7, WalkEpochKeeps
<1>8. CASE HourPasses
  BY <1>8, HourPassesKeeps DEF HourPasses, AlongLinks
<1>9. CASE BackfillBegins
  BY <1>9, BackfillBeginsKeeps DEF BackfillBegins, AlongLinks
<1>10. CASE ListPage
  BY <1>10, ListPageKeeps DEF ListPage, storeVarsA, AlongLinks
<1>11. CASE HistoryListed
  BY <1>11, HistoryListedKeeps DEF HistoryListed, AlongLinks
<1>12. CASE NothingNew
  BY <1>12, NothingNewKeeps DEF NothingNew, AlongLinks
<1>13. CASE Anchor
  BY <1>13, AnchorKeeps DEF Anchor, storeVarsA, AlongLinks
<1>14. CASE ExtendByOne
  BY <1>14, ExtendByOneKeeps DEF ExtendByOne, AlongLinks
<1>15. CASE HistoryExtended
  BY <1>15, HistoryExtendedKeeps DEF HistoryExtended, AlongLinks
<1>. QED
  BY <1>1, <1>2, <1>3, <1>4, <1>5, <1>6, <1>7, <1>8, <1>9, <1>10, <1>11, <1>12, <1>13, <1>14, <1>15
     DEF AkdRoundsNext, AkdHistoryNext

(* A boundary between an epoch that is there and one that is not is the    *)
(* newest epoch, where nothing is missing above it.                        *)
LEMMA BoundaryIsNewest ==
  ASSUME NEW t \in Epochs, objects[t] # {}, Absent(t + 1),
         \A e \in Epochs : e < Newest /\ e >= t => objects[e] # {}
  PROVE  t = Newest
<1>. DEFINE S == {0} \cup {e \in Epochs : objects[e] # {}}
<1>1. S \in SUBSET Nat /\ S # {} /\ MaxEpoch \in Nat /\ \A x \in S : x <= MaxEpoch
  <2>1. 0 \in Nat /\ MaxEpoch \in Nat /\ 0 <= MaxEpoch
    BY ChainNumbers
  <2>2. \A x \in S : x = 0 \/ x \in Epochs
    OBVIOUS
  <2>3. \A x \in S : x \in Nat /\ x <= MaxEpoch
    <3>. HIDE DEF S
    <3>. QED
      BY <2>1, <2>2, ChainNumbers
  <2>. QED
    BY <2>1, <2>3
<1>2. Newest \in S /\ \A x \in S : x <= Newest
  <2>1. Max(S) \in S /\ \A x \in S : x <= Max(S)
    <3>. HIDE DEF S
    <3>. QED
      BY <1>1, GreatestOfNats
  <2>. QED
    BY <2>1 DEF Newest
<1>3. Newest \in Nat /\ t \in Nat /\ t <= Newest /\ 1 <= t /\ Newest <= MaxEpoch
  BY <1>1, <1>2, ChainNumbers
<1>4. CASE t < Newest
  <2>1. t + 1 \in Epochs /\ t + 1 <= Newest /\ t + 1 >= t
    BY <1>3, <1>4, ChainNumbers DEF Epochs
  <2>2. objects[t + 1] # {}
    <3>1. CASE t + 1 = Newest
      <4>1. t + 1 \in S /\ t + 1 # 0
        BY <1>2, <1>3, <3>1
      <4>. QED
        BY <4>1
    <3>2. CASE t + 1 < Newest
      BY <2>1, <3>2
    <3>. QED
      BY <1>3, <2>1, <3>1, <3>2
  <2>. QED
    BY <2>1, <2>2 DEF Absent
<1>. QED
  BY <1>3, <1>4

LEMMA ChainInvIsRead == ASSUME ChainInv PROVE ChainIsRead
<1>1. PublicOK /\ HeadOK /\ HistoryOK /\ ChaseOK(chase)
  BY DEF ChainInv
<1>2. TipIsFound
  <2>1. SUFFICES ASSUME chase.pc = "found", chase.still,
                        \A e \in Epochs : e < Newest /\ e >= chase.tip => objects[e] # {}
                 PROVE  chase.tip = Newest
    BY DEF TipIsFound
  <2>2. chase.tip \in Epochs /\ objects[chase.tip] # {} /\ Absent(chase.tip + 1)
    BY <1>1, <2>1 DEF ChaseOK, SearchOK, PublishedFor, Present, Quiet, Listings
  <2>. QED
    BY <2>1, <2>2, BoundaryIsNewest
<1>3. AkdChainTypeOK
  <2>1. "lo" \in DOMAIN chase => chase.at >= 0
    <3>1. CASE chase \in Searches
      BY <3>1 DEF Searches
    <3>2. CASE chase \in Listings
      BY <3>2 DEF Listings
    <3>3. CASE chase = Quiet
      BY <3>3 DEF Quiet
    <3>. QED
      BY <1>1, <3>1, <3>2, <3>3 DEF ChaseOK
  <2>2. akdHistory = NoHistory \/ (akdHistory.from <= akdHistory.to /\ akdHistory.to \in Epochs)
    BY <1>1 DEF HistoryOK, HistoryRecords
  <2>. QED
    BY <1>1, <2>1, <2>2 DEF AkdChainTypeOK, PublicOK, HeadOK, HistoryOK
<1>. QED
  BY <1>1, <1>2, <1>3 DEF ChainIsRead, HistoryOK

(* The chain is read rightly from a store that changes under the reader,   *)
(* in rounds and in passes over the history: an undisturbed search finds   *)
(* the newest epoch, every join recorded was compared or is next to a gap, *)
(* and an operator is branded only for a lie.                              *)
THEOREM ChainStaysRead == AkdRoundsSpec \/ AkdHistorySpec => []ChainIsRead
<1>1. AkdChainInit => ChainInv
  BY ChainInitOK
<1>2. ChainInv /\ [AkdRoundsNext]_akdVars => ChainInv'
  BY ChainStep
<1>3. ChainInv /\ [AkdHistoryNext]_akdVars => ChainInv'
  BY ChainStep
<1>4. ChainInv => ChainIsRead
  BY ChainInvIsRead
<1>. QED
  BY <1>1, <1>2, <1>3, <1>4, PTL DEF AkdRoundsSpec, AkdHistorySpec

(* The witnessed root moves only along published links, one for every      *)
(* epoch passed (akd.go VerifyConsistency), whatever the operator replaces,*)
(* doubles or withdraws between two requests of a walk.                    *)
THEOREM ChainIsWitnessed == AkdRoundsSpec => WitnessesAChain
<1>1. AkdChainInit => ChainInv
  BY ChainInitOK
<1>2. ChainInv /\ [AkdRoundsNext]_akdVars => ChainInv'
  BY ChainStep
<1>3. ChainInv /\ [AkdRoundsNext]_akdVars =>
        [witnessedEpoch.epoch > 0 /\ witnessedEpoch' # witnessedEpoch =>
         /\ witnessedEpoch'.epoch > witnessedEpoch.epoch
         /\ \E side \in [witnessedEpoch.epoch..witnessedEpoch'.epoch -> Sides] :
              /\ witnessedEpoch.root[2] = side[witnessedEpoch.epoch]
              /\ witnessedEpoch'.root[2] = side[witnessedEpoch'.epoch]
              /\ \A e \in witnessedEpoch.epoch + 1..witnessedEpoch'.epoch :
                   [prev |-> <<e - 1, side[e - 1]>>, curr |-> <<e, side[e]>>] \in ever[e]]_akdVars
  BY ChainStep DEF AlongLinks, PathTo
<1>. QED
  BY <1>1, <1>2, <1>3, PTL DEF AkdRoundsSpec, WitnessesAChain

-----------------------------------------------------------------------------
(* Logs of entries. *)

EntryTrees == SeqOf(Entries, MaxEntries)
Indices == 0 .. MaxEntries - 1

LEMMA EntryNumbers ==
  /\ TileWidth \in Nat \ {0} /\ MaxEntries \in Nat /\ MaxAuditEntries \in Nat
  /\ MaxRecords \in Nat /\ MaxLies \in Nat
BY EntryLogsAssumption

LEMMA EntryTreeIsSeq ==
  ASSUME NEW t \in EntryTrees
  PROVE  /\ t \in Seq(Entries) /\ Len(t) \in 0 .. MaxEntries /\ Len(t) \in Nat
         /\ \A i \in 1 .. Len(t) : t[i] \in Entries
<1>1. t \in Seq(Entries) /\ Len(t) \in 0 .. MaxEntries
  BY EntryNumbers DEF EntryTrees, SeqOf
<1>. QED
  BY <1>1

LEMMA SeqIsEntryTree ==
  ASSUME NEW t \in Seq(Entries), Len(t) <= MaxEntries
  PROVE  t \in EntryTrees
<1>1. Len(t) \in 0 .. MaxEntries
  BY EntryNumbers
<1>2. t \in [1 .. Len(t) -> Entries]
  OBVIOUS
<1>. QED
  BY <1>1, <1>2 DEF EntryTrees, SeqOf

LEMMA PrefixEntryByEntry ==
  ASSUME NEW s \in EntryTrees, NEW t \in EntryTrees
  PROVE  IsPrefix(s, t) <=> Len(s) <= Len(t) /\ \A i \in 1 .. Len(s) : s[i] = t[i]
<1>. s \in Seq(Entries) /\ t \in Seq(Entries)
  BY EntryTreeIsSeq
<1>1. SubSeq(s, 1, Len(s)) = s
  OBVIOUS
<1>2. ASSUME Len(s) <= Len(t)
      PROVE  SubSeq(t, 1, Len(s)) = s <=> \A i \in 1 .. Len(s) : s[i] = t[i]
  BY <1>2
<1>. QED
  BY <1>1, <1>2 DEF IsPrefix

(* Of two prefixes of one tree the shorter is a prefix of the longer.      *)
LEMMA ShorterIsPrefix ==
  ASSUME NEW s \in EntryTrees, NEW t \in EntryTrees, NEW u \in EntryTrees,
         IsPrefix(s, u), IsPrefix(t, u), Len(s) <= Len(t)
  PROVE  IsPrefix(s, t)
<1>1. Len(s) \in Nat /\ Len(t) \in Nat /\ Len(u) \in Nat
  BY EntryTreeIsSeq
<1>2. \A i \in 1 .. Len(s) : i \in 1 .. Len(t)
  BY <1>1
<1>3. \A i \in 1 .. Len(s) : s[i] = t[i]
  BY <1>2, PrefixEntryByEntry
<1>. QED
  BY <1>3, PrefixEntryByEntry

LEMMA PrefixOfPrefix ==
  ASSUME NEW s \in EntryTrees, NEW t \in EntryTrees, NEW u \in EntryTrees,
         IsPrefix(s, t), IsPrefix(t, u)
  PROVE  IsPrefix(s, u)
<1>1. Len(s) \in Nat /\ Len(t) \in Nat /\ Len(u) \in Nat
  BY EntryTreeIsSeq
<1>2. Len(s) <= Len(t) /\ Len(t) <= Len(u)
  BY PrefixEntryByEntry
<1>3. \A i \in 1 .. Len(s) : i \in 1 .. Len(t)
  BY <1>1, <1>2
<1>4. \A i \in 1 .. Len(s) : s[i] = u[i]
  BY <1>3, PrefixEntryByEntry
<1>5. Len(s) <= Len(u)
  BY <1>1, <1>2
<1>. QED
  BY <1>4, <1>5, PrefixEntryByEntry

LEMMA EmptyIsFirst ==
  ASSUME NEW s \in EntryTrees, NEW t \in EntryTrees, Len(s) = 0
  PROVE  IsPrefix(s, t)
<1>1. Len(t) \in Nat /\ 1 .. Len(s) = {}
  BY EntryTreeIsSeq
<1>. QED
  BY <1>1, PrefixEntryByEntry

LEMMA EmptyIsEntryTree == <<>> \in EntryTrees /\ Len(<<>>) = 0
<1>1. <<>> \in Seq(Entries) /\ Len(<<>>) = 0 /\ 0 <= MaxEntries
  BY EntryNumbers
<1>. QED
  BY <1>1, SeqIsEntryTree

(* The bound on the audit records: those kept are among the newest.        *)
LEMMA RetainedAreFew ==
  ASSUME NEW s \in SUBSET Indices
  PROVE  RetainedRecords(s) \subseteq s /\ Cardinality(RetainedRecords(s)) <= MaxRecords
<1>. DEFINE L == RetainedRecords(s)
<1>1. L \subseteq s /\ s \in SUBSET Nat /\ IsFiniteSet(s)
  <2>1. IsFiniteSet(Indices) /\ Indices \in SUBSET Nat
    BY EntryNumbers, FS_Interval DEF Indices
  <2>. QED
    BY <2>1, FS_Subset DEF RetainedRecords
<1>2. CASE L = {}
  BY <1>1, <1>2, FS_EmptySet, EntryNumbers
<1>3. CASE L # {}
  <2>1. PICK m \in L : \A y \in L : m <= y
    <3>. HIDE DEF L
    <3>. QED
      BY <1>1, <1>3, LeastNat
  <2>. DEFINE newer == {j \in s : j >= m}
  <2>2. Cardinality(newer) <= MaxRecords
    BY <2>1 DEF RetainedRecords
  <2>3. L \subseteq newer /\ IsFiniteSet(newer)
    <3>1. \A y \in L : y \in Nat /\ m \in Nat
      BY <1>1
    <3>2. \A y \in L : y >= m
      BY <2>1, <3>1
    <3>. QED
      BY <1>1, <3>2, FS_Subset
  <2>4. /\ Cardinality(L) <= Cardinality(newer)
        /\ Cardinality(L) \in Nat /\ Cardinality(newer) \in Nat
    BY <2>3, FS_Subset, FS_CardinalityType
  <2>. QED
    BY <1>1, <2>2, <2>4, EntryNumbers
<1>. QED
  BY <1>2, <1>3

(* A tile starts at or before the index it is read for, and ends after it. *)
LEMMA TileBounds ==
  ASSUME NEW at \in Nat
  PROVE  /\ (at \div TileWidth) * TileWidth \in Nat
         /\ (at \div TileWidth) * TileWidth <= at
         /\ at < (at \div TileWidth) * TileWidth + TileWidth
<1>. DEFINE b == TileWidth
            d == at \div b
<1>1. b \in Nat \ {0}
  BY EntryNumbers
<1>. HIDE DEF b
<1>2. d \in Nat /\ at = b * d + (at % b) /\ at % b \in 0 .. b - 1
  BY <1>1
<1>3. d * b \in Nat /\ d * b <= at /\ at < d * b + b
  BY <1>1, <1>2
<1>. QED
  BY <1>3 DEF b

(* The inductive invariant. *)

(* Without a lie there is one history, and the tiles hold it.              *)
EntryLogOK ==
  /\ kind \in {"c2sp", "entries", "sigsum"}
  /\ logTree \in EntryTrees /\ rival \in EntryTrees /\ dataTiles \in EntryTrees
  /\ Len(dataTiles) = Len(logTree)
  /\ lies \in Nat
  /\ lies = 0 => rival = <<>> /\ dataTiles = logTree

Shown(h) == IsPrefix(h, logTree) \/ IsPrefix(h, rival)

(* The stored head was shown, and its entries read since they are verified.*)
KeptOK ==
  /\ entryHead \in EntryTrees /\ Shown(entryHead) /\ since \in Nat
  /\ kind = "entries" => \A i \in since + 1 .. Len(entryHead) : entryHead[i] \in read[i - 1]

(* What is on record or claimed was read.                                  *)
ReadOK ==
  /\ records \subseteq Indices /\ Cardinality(records) <= MaxRecords
  /\ read \in [Indices -> SUBSET Entries]
  /\ \A i \in records : read[i] # {}
  /\ claim \in 0 .. MaxEntries /\ ClaimsWereRead

(* A pass over the entries has read all there is from the stored head, or  *)
(* from the first entry, to where it is.                                   *)
Reading == [pc : {"entries"}, head : EntryTrees, at : Nat]
ReadingOK(w, x) ==
  /\ kind = "entries"
  /\ x.at < Len(x.head) /\ Shown(x.head)
  /\ w = "round" => /\ IsPrefix(entryHead, x.head) /\ Len(entryHead) <= x.at
                    /\ \A i \in Len(entryHead) .. x.at - 1 : x.head[i + 1] \in read[i]
  /\ w = "backfill" => \A i \in 0 .. x.at - 1 : read[i] # {}
WalksOK ==
  /\ walks \in [Walkers -> {NoWalk} \cup Reading]
  /\ \A w \in Walkers : walks[w] # NoWalk => ReadingOK(w, walks[w])

AccusedOK == accused \in BOOLEAN /\ AccusedOfALie

EntryInv == EntryLogOK /\ KeptOK /\ ReadOK /\ WalksOK /\ AccusedOK

LEMMA EntryInitOK == EntryLogsInit => EntryInv
<1>. SUFFICES ASSUME EntryLogsInit PROVE EntryInv
  OBVIOUS
<1>1. EntryLogOK
  BY EmptyIsEntryTree, EntryLogsAssumption DEF EntryLogsInit, EntryLogOK
<1>2. KeptOK
  <2>1. entryHead \in EntryTrees /\ logTree \in EntryTrees /\ Len(entryHead) = 0 /\ since = 0
    BY EmptyIsEntryTree DEF EntryLogsInit
  <2>2. Shown(entryHead)
    BY <2>1, EmptyIsFirst DEF Shown
  <2>3. since + 1 .. Len(entryHead) = {}
    BY <2>1
  <2>. QED
    BY <2>1, <2>2, <2>3 DEF KeptOK
<1>3. ReadOK
  <2>1. records = {} /\ claim = 0 /\ read = [i \in Indices |-> {}]
    BY DEF EntryLogsInit, Indices
  <2>2. Cardinality(records) <= MaxRecords
    BY <2>1, FS_EmptySet, EntryNumbers
  <2>3. 0 .. claim - 1 = {} /\ claim \in 0 .. MaxEntries
    BY <2>1, EntryNumbers
  <2>. QED
    BY <2>1, <2>2, <2>3 DEF ReadOK, ClaimsWereRead
<1>4. WalksOK
  BY DEF EntryLogsInit, WalksOK
<1>5. AccusedOK
  BY DEF EntryLogsInit, AccusedOK, AccusedOfALie
<1>. QED
  BY <1>1, <1>2, <1>3, <1>4, <1>5 DEF EntryInv

(* The log moves: what was shown stays shown.                              *)
LEMMA EntryLogMoves ==
  ASSUME EntryInv, EntryLogOK', lies' = 0 => lies = 0,
         \A h \in EntryTrees : Shown(h) => Shown(h)',
         UNCHANGED <<kind, since, entryHead, records, read, walks, claim, accused>>
  PROVE  EntryInv'
<1>1. KeptOK'
  BY DEF EntryInv, KeptOK
<1>2. ReadOK'
  BY DEF EntryInv, ReadOK, ClaimsWereRead
<1>3. WalksOK'
  <2>1. ASSUME NEW w \in Walkers, walks[w] # NoWalk PROVE ReadingOK(w, walks[w])'
    <3>1. ReadingOK(w, walks[w]) /\ walks[w] \in Reading
      BY <2>1 DEF EntryInv, WalksOK
    <3>2. Shown(walks[w].head)'
      BY <3>1 DEF ReadingOK, Reading
    <3>. QED
      BY <3>1, <3>2 DEF ReadingOK
  <2>. QED
    BY <2>1 DEF EntryInv, WalksOK
<1>4. AccusedOK'
  BY DEF EntryInv, AccusedOK, AccusedOfALie, EntryLogOK
<1>. QED
  BY <1>1, <1>2, <1>3, <1>4 DEF EntryInv

LEMMA GrowKeeps == ASSUME EntryInv, NEW e \in Entries, Grow(e) PROVE EntryInv'
<1>1. /\ EntryLogOK /\ Len(logTree) < MaxEntries /\ logTree' = Append(logTree, e)
      /\ UNCHANGED <<kind, since, rival, entryHead, records, read, walks, claim, accused>>
  BY DEF EntryInv, Grow
<1>2. PICK x \in Entries : dataTiles' = Append(dataTiles, x) /\ Lies(IF x = e THEN 0 ELSE 1)
  BY DEF Grow
<1>3. /\ lies \in Nat /\ lies' \in Nat
      /\ lies' = 0 => lies = 0 /\ x = e
  <2>1. CASE x = e
    BY <1>1, <1>2, <2>1 DEF Lies, EntryLogOK
  <2>2. CASE x # e
    BY <1>1, <1>2, <2>2 DEF Lies, EntryLogOK
  <2>. QED
    BY <2>1, <2>2
<1>4. /\ logTree \in Seq(Entries) /\ dataTiles \in Seq(Entries)
      /\ Len(logTree) \in Nat /\ Len(dataTiles) = Len(logTree)
  BY <1>1, EntryTreeIsSeq DEF EntryLogOK
<1>5. /\ logTree' \in Seq(Entries) /\ dataTiles' \in Seq(Entries)
      /\ Len(logTree') = Len(logTree) + 1 /\ Len(dataTiles') = Len(logTree) + 1
      /\ \A i \in 1 .. Len(logTree) : logTree'[i] = logTree[i]
  BY <1>1, <1>2, <1>4
<1>6. logTree' \in EntryTrees /\ dataTiles' \in EntryTrees
  <2>1. Len(logTree') <= MaxEntries /\ Len(dataTiles') <= MaxEntries
    BY <1>1, <1>4, <1>5, EntryNumbers
  <2>. QED
    BY <1>5, <2>1, SeqIsEntryTree
<1>7. lies' = 0 => dataTiles' = logTree'
  BY <1>1, <1>2, <1>3 DEF EntryLogOK
<1>8. EntryLogOK'
  BY <1>1, <1>3, <1>5, <1>6, <1>7 DEF EntryLogOK
<1>9. ASSUME NEW h \in EntryTrees, Shown(h) PROVE Shown(h)'
  <2>1. CASE IsPrefix(h, rival)
    BY <1>1, <2>1 DEF Shown
  <2>2. CASE IsPrefix(h, logTree)
    <3>1. IsPrefix(logTree, logTree')
      <4>1. Len(logTree) <= Len(logTree') /\ logTree \in EntryTrees
        BY <1>1, <1>4, <1>5 DEF EntryLogOK
      <4>2. \A i \in 1 .. Len(logTree) : logTree[i] = logTree'[i]
        BY <1>5
      <4>. DEFINE u == logTree'
      <4>3. u \in EntryTrees /\ Len(logTree) <= Len(u) /\ \A i \in 1 .. Len(logTree) : logTree[i] = u[i]
        BY <1>6, <4>1, <4>2
      <4>. HIDE DEF u
      <4>4. IsPrefix(logTree, u)
        BY <4>1, <4>3, PrefixEntryByEntry
      <4>. QED
        BY <4>4 DEF u
    <3>2. IsPrefix(h, logTree')
      BY <1>1, <1>6, <2>2, <3>1, PrefixOfPrefix DEF EntryLogOK
    <3>. QED
      BY <3>2 DEF Shown
  <2>. QED
    BY <1>9, <2>1, <2>2 DEF Shown
<1>. QED
  BY <1>1, <1>3, <1>8, <1>9, EntryLogMoves

LEMMA ForkKeeps == ASSUME EntryInv, Fork PROVE EntryInv'
<1>1. /\ EntryLogOK /\ rival = <<>> /\ rival' \in EntryTrees /\ Lies(1)
      /\ UNCHANGED <<kind, since, logTree, dataTiles, entryHead, records, read, walks, claim, accused>>
  BY DEF EntryInv, Fork, EntryTrees
<1>2. lies' \in Nat /\ lies' # 0
  BY <1>1 DEF Lies, EntryLogOK
<1>3. EntryLogOK'
  BY <1>1, <1>2 DEF EntryLogOK
<1>4. ASSUME NEW h \in EntryTrees, Shown(h) PROVE Shown(h)'
  <2>1. CASE IsPrefix(h, logTree)
    BY <1>1, <2>1 DEF Shown
  <2>2. CASE IsPrefix(h, rival)
    <3>1. Len(h) \in Nat /\ Len(h) <= 0
      BY <1>1, <2>2, EmptyIsEntryTree, EntryTreeIsSeq, PrefixEntryByEntry
    <3>2. IsPrefix(h, rival')
      BY <1>1, <3>1, EmptyIsFirst
    <3>. QED
      BY <3>2 DEF Shown
  <2>. QED
    BY <1>4, <2>1, <2>2 DEF Shown
<1>. QED
  BY <1>1, <1>2, <1>3, <1>4, EntryLogMoves

LEMMA VerifyFromNowKeeps == ASSUME EntryInv, VerifyFromNow PROVE EntryInv'
<1>1. /\ kind = "c2sp" /\ kind' = "entries" /\ since' = Len(entryHead)
      /\ UNCHANGED <<logTree, rival, dataTiles, entryHead, records, read, walks, claim, accused, lies>>
  BY DEF VerifyFromNow
<1>2. EntryLogOK'
  BY <1>1 DEF EntryInv, EntryLogOK
<1>3. KeptOK'
  <2>1. Len(entryHead) \in Nat
    BY EntryTreeIsSeq DEF EntryInv, KeptOK
  <2>2. Len(entryHead) + 1 .. Len(entryHead) = {}
    BY <2>1
  <2>. QED
    BY <1>1, <2>1, <2>2 DEF EntryInv, KeptOK, Shown
<1>4. ReadOK'
  BY <1>1 DEF EntryInv, ReadOK, ClaimsWereRead
<1>5. \A w \in Walkers : walks[w] = NoWalk
  BY <1>1 DEF EntryInv, WalksOK, ReadingOK
<1>6. WalksOK'
  BY <1>1, <1>5 DEF EntryInv, WalksOK
<1>7. AccusedOK'
  BY <1>1 DEF EntryInv, AccusedOK, AccusedOfALie
<1>. QED
  BY <1>2, <1>3, <1>4, <1>6, <1>7 DEF EntryInv

(* A signed head is a tree that is shown.                                  *)
LEMMA SignedIsShown ==
  ASSUME EntryLogOK, NEW h \in Signed
  PROVE  h \in EntryTrees /\ Shown(h)
<1>1. PICK t \in {logTree, rival} : h \in {SubSeq(t, 1, n) : n \in 0 .. Len(t)}
  BY DEF Signed
<1>2. PICK n \in 0 .. Len(t) : h = SubSeq(t, 1, n)
  BY <1>1
<1>3. t \in EntryTrees /\ t \in Seq(Entries) /\ Len(t) \in 0 .. MaxEntries
  BY EntryTreeIsSeq DEF EntryLogOK
<1>4. n \in Nat /\ n <= Len(t) /\ n <= MaxEntries
  BY <1>3, EntryNumbers
<1>5. h \in Seq(Entries) /\ Len(h) = n /\ \A i \in 1 .. n : h[i] = t[i]
  BY <1>2, <1>3, <1>4
<1>6. h \in EntryTrees
  BY <1>4, <1>5, SeqIsEntryTree
<1>7. IsPrefix(h, t)
  BY <1>3, <1>4, <1>5, <1>6, PrefixEntryByEntry
<1>. QED
  BY <1>6, <1>7 DEF Shown

(* A log that has not lied shows one history: of two of its heads the      *)
(* smaller is a prefix of the larger.                                      *)
LEMMA HonestHeadsAgree ==
  ASSUME EntryLogOK, lies = 0, NEW g \in EntryTrees, NEW h \in EntryTrees,
         Shown(g), Shown(h), Len(g) <= Len(h)
  PROVE  IsPrefix(g, h)
<1>1. logTree \in EntryTrees /\ rival = <<>> /\ rival \in EntryTrees
  BY DEF EntryLogOK
<1>2. ASSUME NEW x \in EntryTrees, Shown(x) PROVE IsPrefix(x, logTree)
  <2>1. CASE IsPrefix(x, rival)
    <3>1. Len(x) \in Nat /\ Len(x) <= 0
      BY <1>1, <2>1, EmptyIsEntryTree, EntryTreeIsSeq, PrefixEntryByEntry
    <3>. QED
      BY <1>1, <3>1, EmptyIsFirst
  <2>. QED
    BY <1>2, <2>1 DEF Shown
<1>. QED
  BY <1>1, <1>2, ShorterIsPrefix

(* The verdicts on a proof: ok is an extension, a contradiction is one.    *)
LEMMA VerdictsMean ==
  ASSUME NEW old \in EntryTrees, NEW new \in EntryTrees, NEW v \in ProofVerdicts(old, new),
         Len(old) < Len(new)
  PROVE  /\ v \in {"ok", "broken", "fork"}
         /\ v = "ok" => IsPrefix(old, new)
         /\ v = "fork" => ~IsPrefix(old, new)
<1>1. Len(old) \in Nat /\ Len(new) \in Nat /\ Len(old) # Len(new)
  BY EntryTreeIsSeq
<1>2. old = <<>> => IsPrefix(old, new)
  BY EmptyIsEntryTree, EmptyIsFirst
<1>. QED
  BY <1>1, <1>2 DEF ProofVerdicts

(* A step that leaves the log and what was read alone.                     *)
LEMMA RoundMoves ==
  ASSUME EntryInv, UNCHANGED <<logVars, records, read, claim>>, lies' \in Nat, lies' >= lies,
         KeptOK', WalksOK', AccusedOK'
  PROVE  EntryInv'
<1>1. EntryLogOK'
  BY DEF EntryInv, EntryLogOK, logVars
<1>2. ReadOK'
  BY DEF EntryInv, ReadOK, ClaimsWereRead
<1>. QED
  BY <1>1, <1>2 DEF EntryInv

LEMMA EntryRoundKeeps ==
  ASSUME EntryInv, NEW new \in Signed, EntryRound(new)
  PROVE  EntryInv' /\ IsPrefix(entryHead, entryHead')
<1>1. /\ EntryLogOK /\ KeptOK /\ ReadOK /\ WalksOK /\ ~accused /\ walks["round"] = NoWalk
      /\ Len(new) > Len(entryHead) /\ UNCHANGED <<logVars, records, read, claim>>
  BY DEF EntryInv, EntryRound
<1>2. PICK v \in ProofVerdicts(entryHead, new) :
        /\ accused' = (v # "ok")
        /\ Lies(IF v = "broken" THEN 1 ELSE 0)
        /\ IF v = "ok" /\ kind = "entries"
           THEN /\ walks' = [walks EXCEPT !["round"] = Walk(new, Len(entryHead))]
                /\ UNCHANGED entryHead
           ELSE /\ entryHead' = IF v = "ok" THEN new ELSE entryHead
                /\ UNCHANGED walks
  BY DEF EntryRound
<1>3. new \in EntryTrees /\ Shown(new) /\ entryHead \in EntryTrees /\ Shown(entryHead)
  BY <1>1, SignedIsShown DEF KeptOK
<1>4. Len(new) \in Nat /\ Len(entryHead) \in Nat
  BY <1>3, EntryTreeIsSeq
<1>5. /\ v \in {"ok", "broken", "fork"}
      /\ v = "ok" => IsPrefix(entryHead, new)
      /\ v = "fork" => ~IsPrefix(entryHead, new)
  BY <1>1, <1>3, <1>4, VerdictsMean
<1>6. lies \in Nat /\ lies' \in Nat /\ lies' >= lies /\ (v = "broken" => lies' > 0)
  <2>1. lies \in Nat
    BY <1>1 DEF EntryLogOK
  <2>2. CASE v = "broken"
    BY <1>2, <2>1, <2>2 DEF Lies
  <2>3. CASE v # "broken"
    BY <1>2, <2>1, <2>3 DEF Lies
  <2>. QED
    BY <2>1, <2>2, <2>3
<1>7. AccusedOK'
  <2>1. v = "fork" => lies > 0
    <3>1. lies = 0 => IsPrefix(entryHead, new)
      BY <1>1, <1>3, <1>4, HonestHeadsAgree
    <3>. QED
      BY <1>5, <1>6, <3>1
  <2>2. accused' => lies' > 0
    <3>1. v # "ok" => lies' > 0
      BY <1>5, <1>6, <2>1
    <3>. QED
      BY <1>2, <3>1
  <2>3. accused' \in BOOLEAN
    BY <1>2
  <2>. QED
    BY <2>2, <2>3 DEF AccusedOK, AccusedOfALie
<1>8. IsPrefix(entryHead, entryHead)
  BY <1>3, <1>4, PrefixEntryByEntry
<1>9. \A x : Shown(x) => Shown(x)'
  BY <1>1 DEF Shown, logVars
<1>10. CASE v = "ok" /\ kind = "entries"
  <2>. DEFINE x == Walk(new, Len(entryHead))
  <2>1. entryHead' = entryHead /\ walks' = [walks EXCEPT !["round"] = x]
    BY <1>2, <1>10
  <2>2. x \in Reading /\ x.head = new /\ x.at = Len(entryHead)
    BY <1>3, <1>4 DEF Walk, Reading
  <2>. HIDE DEF x
  <2>3. walks' \in [Walkers -> {NoWalk} \cup Reading] /\ walks'["round"] = x
        /\ walks'["backfill"] = walks["backfill"]
    BY <1>1, <2>1, <2>2 DEF WalksOK, Walkers
  <2>4. KeptOK'
    BY <1>1, <1>9, <2>1 DEF KeptOK, logVars
  <2>5. ReadingOK("round", walks["round"])'
    <3>1. Len(entryHead) .. Len(entryHead) - 1 = {} /\ Len(entryHead) <= Len(entryHead)
      BY <1>4
    <3>2. kind' = "entries" /\ Shown(new)'
      BY <1>1, <1>3, <1>9, <1>10 DEF logVars
    <3>. QED
      BY <1>1, <1>4, <1>5, <1>10, <2>1, <2>2, <2>3, <3>1, <3>2 DEF ReadingOK
  <2>6. ASSUME walks["backfill"] # NoWalk PROVE ReadingOK("backfill", walks["backfill"])'
    <3>1. ReadingOK("backfill", walks["backfill"]) /\ kind' = kind /\ read' = read
      BY <1>1, <2>6 DEF WalksOK, Walkers, logVars
    <3>2. Shown(walks["backfill"].head) => Shown(walks["backfill"].head)'
      BY <1>1, <2>3 DEF Shown, logVars
    <3>. QED
      BY <2>3, <3>1, <3>2 DEF ReadingOK
  <2>7. WalksOK'
    BY <2>3, <2>5, <2>6 DEF WalksOK, Walkers
  <2>. QED
    BY <1>1, <1>6, <1>7, <1>8, <2>1, <2>4, <2>7, RoundMoves
<1>11. CASE ~ (v = "ok" /\ kind = "entries")
  <2>1. walks' = walks /\ entryHead' = IF v = "ok" THEN new ELSE entryHead
    BY <1>2, <1>11
  <2>2. IsPrefix(entryHead, entryHead') /\ entryHead' \in EntryTrees
    BY <1>3, <1>5, <1>8, <2>1
  <2>3. KeptOK'
    <3>1. Shown(entryHead)'
      BY <1>1, <1>3, <2>1 DEF Shown, logVars
    <3>2. kind' = "entries" => entryHead' = entryHead
      BY <1>1, <1>11, <2>1 DEF logVars
    <3>. QED
      BY <1>1, <2>2, <3>1, <3>2 DEF KeptOK, logVars
  <2>4. WalksOK'
    <3>1. ASSUME NEW w \in Walkers, walks[w] # NoWalk PROVE ReadingOK(w, walks[w])'
      <4>1. ReadingOK(w, walks[w]) /\ w = "backfill" /\ kind' = kind /\ read' = read
        BY <1>1, <3>1 DEF WalksOK, Walkers, logVars
      <4>2. Shown(walks[w].head)'
        BY <1>1, <2>1, <4>1 DEF Shown, ReadingOK, logVars
      <4>. QED
        BY <2>1, <4>1, <4>2 DEF ReadingOK
    <3>. QED
      BY <1>1, <2>1, <3>1 DEF WalksOK
  <2>. QED
    BY <1>1, <1>6, <1>7, <2>2, <2>3, <2>4, RoundMoves
<1>. QED
  BY <1>10, <1>11

LEMMA LaggingEntryRoundKeeps ==
  ASSUME EntryInv, NEW new \in Signed, LaggingEntryRound(new)
  PROVE  EntryInv'
<1>1. /\ EntryLogOK /\ KeptOK /\ WalksOK /\ Len(new) <= Len(entryHead)
      /\ UNCHANGED <<logVars, entryHead, records, read, walks, claim>>
  BY DEF EntryInv, LaggingEntryRound
<1>2. PICK v \in IF Len(new) = Len(entryHead) THEN {IF new = entryHead THEN "ok" ELSE "fork"}
                 ELSE ProofVerdicts(new, entryHead) :
        v # "ok" /\ accused' = TRUE /\ Lies(IF v = "broken" THEN 1 ELSE 0)
  BY DEF LaggingEntryRound
<1>3. /\ new \in EntryTrees /\ Shown(new) /\ entryHead \in EntryTrees /\ Shown(entryHead)
      /\ Len(new) \in Nat /\ Len(entryHead) \in Nat
  BY <1>1, SignedIsShown, EntryTreeIsSeq DEF KeptOK
<1>4. v = "broken" \/ lies # 0
  <2>1. SUFFICES ASSUME lies = 0, v # "broken" PROVE FALSE
    OBVIOUS
  <2>2. IsPrefix(new, entryHead)
    BY <1>1, <1>3, <2>1, HonestHeadsAgree
  <2>3. CASE Len(new) = Len(entryHead)
    <3>1. \A i \in 1 .. Len(new) : new[i] = entryHead[i]
      BY <1>3, <2>2, PrefixEntryByEntry
    <3>2. new = entryHead
      BY <1>3, <2>3, <3>1, EntryTreeIsSeq
    <3>. QED
      BY <1>2, <2>3, <3>2
  <2>4. CASE Len(new) # Len(entryHead)
    <3>1. Len(new) < Len(entryHead) /\ v \in ProofVerdicts(new, entryHead)
      BY <1>1, <1>2, <1>3, <2>4
    <3>. QED
      BY <1>2, <1>3, <2>1, <2>2, <3>1, VerdictsMean
  <2>. QED
    BY <2>3, <2>4
<1>5. lies \in Nat /\ lies' \in Nat /\ lies' >= lies /\ lies' > 0
  <2>1. lies \in Nat
    BY <1>1 DEF EntryLogOK
  <2>2. CASE v = "broken"
    BY <1>2, <2>1, <2>2 DEF Lies
  <2>3. CASE v # "broken"
    BY <1>2, <1>4, <2>1, <2>3 DEF Lies
  <2>. QED
    BY <2>1, <2>2, <2>3
<1>6. AccusedOK'
  BY <1>2, <1>5 DEF AccusedOK, AccusedOfALie
<1>7. KeptOK'
  BY <1>1 DEF KeptOK, Shown, logVars
<1>8. WalksOK'
  BY <1>1 DEF WalksOK, ReadingOK, Shown, logVars
<1>. QED
  BY <1>1, <1>5, <1>6, <1>7, <1>8, RoundMoves

(* The unbroken run of records from the first entry.                       *)
LEMMA AuditedWereRead ==
  ASSUME ReadOK
  PROVE  /\ AuditedThrough \in Int /\ AuditedThrough + 1 \in Nat
         /\ \A i \in 0 .. AuditedThrough : read[i] # {}
<1>. DEFINE S == {-1} \cup {n \in records : 0 .. n \subseteq records}
<1>1. /\ \A x \in S : x = -1 \/ x \in records
      /\ \A x \in S : x = -1 \/ 0 .. x \subseteq records
      /\ -1 \in S
  OBVIOUS
<1>. HIDE DEF S
<1>2. records \subseteq Indices /\ \A i \in Indices : i \in Nat /\ i <= MaxEntries
  BY EntryNumbers DEF ReadOK, Indices
<1>3. S \in SUBSET Int /\ \A x \in S : x >= -1 /\ x <= MaxEntries
  BY <1>1, <1>2, EntryNumbers
<1>4. PICK m \in S : \A y \in S : y <= m
  <2>1. S # {} /\ MaxEntries \in Int /\ \A y \in S : y <= MaxEntries
    BY <1>1, <1>3, EntryNumbers
  <2>. QED
    BY <1>3, <2>1, GreatestInt
<1>5. AuditedThrough = Max(S)
  BY DEF AuditedThrough, S
<1>6. Max(S) \in S
  <2>1. \A y \in S : m >= y
    BY <1>3, <1>4
  <2>. QED
    BY <2>1 DEF Max
<1>. DEFINE a == AuditedThrough
<1>7. a \in S /\ a \in Int /\ a >= -1 /\ (a = -1 \/ 0 .. a \subseteq records)
  BY <1>1, <1>3, <1>5, <1>6
<1>. HIDE DEF a
<1>8. a + 1 \in Nat
  BY <1>7
<1>9. \A i \in 0 .. a : i \in records
  BY <1>7
<1>10. \A i \in 0 .. a : read[i] # {}
  BY <1>9 DEF ReadOK
<1>. QED
  BY <1>7, <1>8, <1>10 DEF a

LEMMA BackfillEntriesKeeps ==
  ASSUME EntryInv, NEW head \in Signed, BackfillEntries(head)
  PROVE  EntryInv'
<1>1. /\ EntryLogOK /\ KeptOK /\ ReadOK /\ WalksOK /\ AccusedOK /\ kind = "entries"
      /\ walks["backfill"] = NoWalk
      /\ Len(head) \in 1 .. MaxAuditEntries
      /\ UNCHANGED <<logVars, entryHead, records, read, accused, lies>>
  BY DEF EntryInv, BackfillEntries
<1>2. head \in EntryTrees /\ Shown(head) /\ Len(head) \in 0 .. MaxEntries /\ Len(head) \in Nat
  BY <1>1, SignedIsShown, EntryTreeIsSeq
<1>3. PICK a \in Int : a = AuditedThrough /\ a + 1 \in Nat /\ \A i \in 0 .. a : read[i] # {}
  BY <1>1, AuditedWereRead
<1>4. IF a + 1 >= Len(head) THEN claim' = Len(head) /\ UNCHANGED walks
      ELSE walks' = [walks EXCEPT !["backfill"] = Walk(head, a + 1)] /\ UNCHANGED claim
  BY <1>3 DEF BackfillEntries
<1>5. EntryLogOK' /\ KeptOK' /\ AccusedOK'
  BY <1>1 DEF EntryLogOK, KeptOK, AccusedOK, AccusedOfALie, Shown, logVars
<1>6. ASSUME NEW w, NEW x PROVE ReadingOK(w, x) => ReadingOK(w, x)'
  BY <1>1 DEF ReadingOK, Shown, logVars
<1>7. CASE a + 1 >= Len(head)
  <2>1. claim' = Len(head) /\ walks' = walks
    BY <1>4, <1>7
  <2>2. \A i \in 0 .. Len(head) - 1 : i \in 0 .. a
    BY <1>2, <1>7
  <2>3. ReadOK'
    BY <1>1, <1>2, <1>3, <2>1, <2>2 DEF ReadOK, ClaimsWereRead
  <2>4. WalksOK'
    BY <1>1, <1>6, <2>1 DEF WalksOK
  <2>. QED
    BY <1>5, <2>3, <2>4 DEF EntryInv
<1>8. CASE ~ (a + 1 >= Len(head))
  <2>0. PICK n \in Nat : n = a + 1
    BY <1>3
  <2>. DEFINE x == Walk(head, n)
  <2>1. n < Len(head) /\ claim' = claim /\ walks' = [walks EXCEPT !["backfill"] = x]
    BY <1>2, <1>4, <1>8, <2>0
  <2>2. \A i \in 0 .. n - 1 : i \in 0 .. a
    BY <2>0
  <2>3. x \in Reading /\ x.head = head /\ x.at = n
    BY <1>2, <2>1 DEF Walk, Reading
  <2>. HIDE DEF x
  <2>4. ReadOK'
    BY <1>1, <2>1 DEF ReadOK, ClaimsWereRead
  <2>5. /\ walks' \in [Walkers -> {NoWalk} \cup Reading] /\ walks'["backfill"] = x
        /\ walks'["round"] = walks["round"]
    BY <1>1, <2>1, <2>3 DEF WalksOK, Walkers
  <2>6. ReadingOK("backfill", x)
    BY <1>1, <1>2, <1>3, <2>1, <2>2, <2>3 DEF ReadingOK
  <2>7. WalksOK'
    <3>1. ReadingOK("backfill", x)'
      BY <1>1, <2>6 DEF ReadingOK, Shown, logVars
    <3>. QED
      BY <1>1, <1>6, <2>5, <2>6, <3>1 DEF WalksOK, Walkers
  <2>. QED
    BY <1>5, <2>4, <2>7 DEF EntryInv
<1>. QED
  BY <1>7, <1>8

(* Entries read up to j: they are what the tree holds, they are recorded,  *)
(* and nothing read before is forgotten.                                   *)
LEMMA EntriesRead ==
  ASSUME EntryInv, NEW x \in Reading, x.at < Len(x.head),
         NEW j \in Nat, x.at <= j, j <= Len(x.head),
         \A i \in x.at .. j - 1 : i < Len(dataTiles) /\ dataTiles[1 + i] = x.head[1 + i],
         records' = RecordedEntries(x.at .. j - 1, Len(x.head)),
         read' = [i \in 0 .. MaxEntries - 1 |->
                    IF i \in x.at .. j - 1 THEN read[i] \cup {dataTiles[1 + i]} ELSE read[i]]
  PROVE  /\ records' \subseteq Indices /\ Cardinality(records') <= MaxRecords
         /\ read' \in [Indices -> SUBSET Entries]
         /\ \A i \in records' : read'[i] # {}
         /\ \A i \in Indices : read[i] \subseteq read'[i]
         /\ \A i \in x.at .. j - 1 : i \in Indices /\ x.head[i + 1] \in read'[i]
<1>1. /\ EntryLogOK /\ ReadOK /\ x.at \in Nat /\ x.head \in EntryTrees
      /\ Len(x.head) \in Nat /\ Len(x.head) <= MaxEntries /\ MaxEntries \in Nat
  BY EntryTreeIsSeq, EntryNumbers DEF EntryInv, Reading
<1>2. \A i \in x.at .. j - 1 : i \in Indices /\ i \in Nat /\ 1 + i \in 1 .. Len(x.head) /\ 1 + i = i + 1
  BY <1>1 DEF Indices
<1>3. \A i \in x.at .. j - 1 : x.head[1 + i] \in Entries /\ dataTiles[1 + i] \in Entries
  BY <1>1, <1>2, EntryTreeIsSeq
<1>4. \A i \in Indices : read'[i] = IF i \in x.at .. j - 1 THEN read[i] \cup {dataTiles[1 + i]} ELSE read[i]
  BY DEF Indices
<1>5. read' \in [Indices -> SUBSET Entries]
  BY <1>1, <1>3 DEF ReadOK, Indices
<1>6. \A i \in Indices : read[i] \subseteq read'[i]
  <2>. TAKE i \in Indices
  <2>1. read'[i] = read[i] \/ read'[i] = read[i] \cup {dataTiles[1 + i]}
    BY <1>4
  <2>. QED
    BY <2>1
<1>7. \A i \in x.at .. j - 1 : x.head[i + 1] \in read'[i]
  <2>. TAKE i \in x.at .. j - 1
  <2>1. i \in Indices /\ 1 + i = i + 1 /\ dataTiles[1 + i] = x.head[1 + i]
    BY <1>2
  <2>2. read'[i] = read[i] \cup {dataTiles[1 + i]}
    BY <1>4, <2>1
  <2>. QED
    BY <2>1, <2>2
<1>. DEFINE more == records \cup (x.at .. j - 1)
<1>8. more \in SUBSET Indices
  BY <1>1, <1>2 DEF ReadOK
<1>9. records' \subseteq more /\ Cardinality(records') <= MaxRecords
  <2>1. records' = records \/ records' = RetainedRecords(more)
    BY DEF RecordedEntries
  <2>2. RetainedRecords(more) \subseteq more /\ Cardinality(RetainedRecords(more)) <= MaxRecords
    <3>. HIDE DEF more
    <3>. QED
      BY <1>8, RetainedAreFew
  <2>. QED
    BY <1>1, <2>1, <2>2 DEF ReadOK
<1>10. \A i \in more : read'[i] # {}
  BY <1>1, <1>2, <1>6, <1>7 DEF ReadOK
<1>. QED
  BY <1>2, <1>5, <1>6, <1>7, <1>8, <1>9, <1>10

(* The other pass is where it was.                                         *)
LEMMA OtherReadingStays ==
  ASSUME EntryInv, NEW v \in Walkers, NEW x, x = walks[v], x # NoWalk,
         UNCHANGED logVars, v = "round" => entryHead' = entryHead,
         \A i \in Indices : read[i] \subseteq read'[i]
  PROVE  ReadingOK(v, x)'
<1>1. ReadingOK(v, x) /\ x \in Reading
  BY DEF EntryInv, WalksOK
<1>2. /\ x.at \in Nat /\ Len(x.head) \in 0 .. MaxEntries /\ x.at < Len(x.head) /\ Len(entryHead) \in Nat
      /\ MaxEntries \in Nat
  BY <1>1, EntryTreeIsSeq, EntryNumbers DEF ReadingOK, Reading, EntryInv, KeptOK
<1>3. /\ \A i \in 0 .. x.at - 1 : i \in Indices
      /\ \A i \in Len(entryHead) .. x.at - 1 : i \in Indices
  BY <1>2 DEF Indices
<1>4. v = "round" =>
        /\ IsPrefix(entryHead', x.head) /\ Len(entryHead') <= x.at
        /\ \A i \in Len(entryHead') .. x.at - 1 : x.head[i + 1] \in read'[i]
  BY <1>1, <1>3 DEF ReadingOK
<1>5. v = "backfill" => \A i \in 0 .. x.at - 1 : read'[i] # {}
  BY <1>1, <1>3 DEF ReadingOK
<1>6. kind' = "entries" /\ Shown(x.head)'
  BY <1>1 DEF ReadingOK, Shown, logVars
<1>. QED
  BY <1>1, <1>4, <1>5, <1>6 DEF ReadingOK

(* What was read of the stored head and of a claim stays read.             *)
LEMMA ReadStays ==
  ASSUME EntryInv, \A i \in Indices : read[i] \subseteq read'[i]
  PROVE  /\ kind = "entries" => \A i \in since + 1 .. Len(entryHead) : entryHead[i] \in read'[i - 1]
         /\ \A i \in 0 .. claim - 1 : read'[i] # {}
<1>1. /\ KeptOK /\ ReadOK /\ since \in Nat /\ claim \in 0 .. MaxEntries
      /\ Len(entryHead) \in 0 .. MaxEntries /\ MaxEntries \in Nat
  BY EntryTreeIsSeq, EntryNumbers DEF EntryInv, KeptOK, ReadOK
<1>2. \A i \in since + 1 .. Len(entryHead) : i - 1 \in Indices
  BY <1>1 DEF Indices
<1>3. \A i \in 0 .. claim - 1 : i \in Indices
  BY <1>1 DEF Indices
<1>4. kind = "entries" => \A i \in since + 1 .. Len(entryHead) : entryHead[i] \in read[i - 1]
  BY <1>1 DEF KeptOK
<1>5. \A i \in 0 .. claim - 1 : read[i] # {}
  BY <1>1 DEF ReadOK, ClaimsWereRead
<1>. QED
  BY <1>2, <1>3, <1>4, <1>5

(* A pass at a tile: where the tile begins and ends.                       *)
LEMMA TileSpans ==
  ASSUME EntryInv, NEW w \in Walkers, walks[w].pc = "entries"
  PROVE  /\ walks[w] \in Reading /\ walks[w] # NoWalk /\ ReadingOK(w, walks[w])
         /\ walks[w].at \in Nat /\ TileStart(w) \in Nat /\ TileEnd(w) \in Nat
         /\ TileStart(w) <= walks[w].at /\ walks[w].at < TileEnd(w)
         /\ TileEnd(w) <= TileStart(w) + TileWidth /\ TileEnd(w) <= Len(walks[w].head)
         /\ Len(walks[w].head) \in Nat /\ walks[w].at < Len(walks[w].head)
<1>1. walks[w] \in Reading /\ walks[w] # NoWalk /\ ReadingOK(w, walks[w])
  BY DEF EntryInv, WalksOK, NoWalk
<1>. DEFINE at == walks[w].at
            n == Len(walks[w].head)
            s == (at \div TileWidth) * TileWidth
<1>2. at \in Nat /\ n \in Nat /\ at < n /\ TileWidth \in Nat
  BY <1>1, EntryTreeIsSeq, EntryNumbers DEF Reading, ReadingOK
<1>3. s \in Nat /\ s <= at /\ at < s + TileWidth
  BY <1>2, TileBounds
<1>4. TileStart(w) = s /\ TileEnd(w) = IF s + TileWidth < n THEN s + TileWidth ELSE n
  BY DEF TileStart, TileEnd, LesserOf
<1>. HIDE DEF at, n, s
<1>5. /\ TileStart(w) \in Nat /\ TileEnd(w) \in Nat
      /\ TileStart(w) <= at /\ at < TileEnd(w)
      /\ TileEnd(w) <= TileStart(w) + TileWidth /\ TileEnd(w) <= n
  BY <1>2, <1>3, <1>4
<1>. QED
  BY <1>1, <1>2, <1>5 DEF at, n

LEMMA WalkEndsKeeps == ASSUME EntryInv, NEW w \in Walkers, WalkEnds(w) PROVE EntryInv'
<1>1. PICK x : x = walks[w]
  OBVIOUS
<1>2. /\ x \in Reading /\ x # NoWalk /\ x.at \in Nat /\ x.at < Len(x.head) /\ Len(x.head) \in Nat
      /\ TileEnd(w) \in Nat /\ TileEnd(w) <= Len(x.head)
  BY <1>1, TileSpans DEF WalkEnds
<1>3. PICK j \in x.at .. TileEnd(w) - 1 :
        /\ \A i \in x.at .. j - 1 : i < Len(dataTiles) /\ dataTiles[1 + i] = x.head[1 + i]
        /\ records' = RecordedEntries(x.at .. j - 1, Len(x.head))
        /\ read' = [i \in 0 .. MaxEntries - 1 |->
                      IF i \in x.at .. j - 1 THEN read[i] \cup {dataTiles[1 + i]} ELSE read[i]]
  BY <1>1 DEF WalkEnds
<1>4. j \in Nat /\ x.at <= j /\ j <= Len(x.head)
  BY <1>2
<1>5. /\ walks' = [walks EXCEPT ![w] = NoWalk]
      /\ UNCHANGED <<logVars, entryHead, claim, accused, lies>>
  BY DEF WalkEnds
<1>6. /\ records' \subseteq Indices /\ Cardinality(records') <= MaxRecords
      /\ read' \in [Indices -> SUBSET Entries]
      /\ \A i \in records' : read'[i] # {}
      /\ \A i \in Indices : read[i] \subseteq read'[i]
  BY <1>2, <1>3, <1>4, EntriesRead
<1>7. /\ kind = "entries" => \A i \in since + 1 .. Len(entryHead) : entryHead[i] \in read'[i - 1]
      /\ \A i \in 0 .. claim - 1 : read'[i] # {}
  BY <1>6, ReadStays
<1>8. EntryLogOK' /\ AccusedOK'
  BY <1>5 DEF EntryInv, EntryLogOK, AccusedOK, AccusedOfALie, logVars
<1>9. KeptOK'
  BY <1>5, <1>7 DEF EntryInv, KeptOK, Shown, logVars
<1>10. ReadOK'
  BY <1>5, <1>6, <1>7 DEF EntryInv, ReadOK, ClaimsWereRead
<1>11. WalksOK'
  <2>1. walks' \in [Walkers -> {NoWalk} \cup Reading]
    BY <1>5 DEF EntryInv, WalksOK
  <2>2. ASSUME NEW v \in Walkers, walks'[v] # NoWalk PROVE ReadingOK(v, walks[v])'
    <3>1. PICK y : y = walks[v]
      OBVIOUS
    <3>2. v # w /\ walks'[v] = y /\ y # NoWalk
      BY <1>5, <2>2, <3>1 DEF EntryInv, WalksOK
    <3>3. ReadingOK(v, y)'
      BY <1>5, <1>6, <3>1, <3>2, OtherReadingStays
    <3>. QED
      BY <3>2, <3>3
  <2>. QED
    BY <2>1, <2>2 DEF WalksOK
<1>. QED
  BY <1>8, <1>9, <1>10, <1>11 DEF EntryInv

(* An honest log's tiles hold what its heads commit to.                    *)
LEMMA HonestTiles ==
  ASSUME EntryLogOK, lies = 0, NEW h \in EntryTrees, Shown(h), NEW i \in 1 .. Len(h)
  PROVE  dataTiles[i] = h[i]
<1>1. dataTiles = logTree /\ rival = <<>> /\ logTree \in EntryTrees /\ rival \in EntryTrees
  BY DEF EntryLogOK
<1>2. Len(h) \in Nat /\ Len(h) > 0
  BY EntryTreeIsSeq
<1>3. ~ IsPrefix(h, rival)
  BY <1>1, <1>2, EmptyIsEntryTree, PrefixEntryByEntry
<1>4. IsPrefix(h, logTree)
  BY <1>3 DEF Shown
<1>. QED
  BY <1>1, <1>4, PrefixEntryByEntry

(* The outcome of comparing a tile: everything up to good is what the tree *)
(* holds, and what good is short of the tile's end for is a lie.           *)
LEMMA TileCompared ==
  ASSUME EntryInv, NEW w \in Walkers, walks[w].pc = "entries",
         NEW end \in TileStart(w) .. Len(dataTiles),
         LongEnough(w, SubSeq(dataTiles, TileStart(w) + 1, end))
  PROVE  LET good == FirstMismatch(w, SubSeq(dataTiles, TileStart(w) + 1, end))
         IN /\ good \in Nat /\ walks[w].at <= good /\ good <= TileEnd(w)
            /\ \A i \in walks[w].at .. good - 1 :
                 i < Len(dataTiles) /\ dataTiles[1 + i] = walks[w].head[1 + i]
            /\ good < TileEnd(w) => lies # 0
<1>. DEFINE at == walks[w].at
            head == walks[w].head
            ts == TileStart(w)
            te == TileEnd(w)
            tile == SubSeq(dataTiles, ts + 1, end)
            off == {i \in at .. te - 1 : tile[1 + i - ts] # head[1 + i]}
            good == Min({te} \cup off)
<1>1. /\ at \in Nat /\ ts \in Nat /\ te \in Nat /\ ts <= at /\ at < te /\ te <= Len(head)
      /\ Len(head) \in Nat /\ head \in EntryTrees /\ Shown(head)
  BY TileSpans DEF Reading, ReadingOK
<1>2. /\ EntryLogOK /\ dataTiles \in Seq(Entries) /\ Len(dataTiles) \in Nat
      /\ ts <= end /\ end <= Len(dataTiles) /\ end \in Nat
  BY <1>1, EntryTreeIsSeq DEF EntryInv, EntryLogOK
<1>3. Len(tile) >= te - ts /\ good = FirstMismatch(w, tile)
  BY DEF LongEnough, FirstMismatch
<1>. HIDE DEF at, head, ts, te
<1>4. Len(tile) = end - ts /\ \A k \in 1 .. end - ts : tile[k] = dataTiles[ts + k]
  BY <1>1, <1>2
<1>. HIDE DEF tile
<1>5. te <= end
  BY <1>1, <1>2, <1>3, <1>4
<1>6. ASSUME NEW i \in at .. te - 1
      PROVE  tile[1 + i - ts] = dataTiles[1 + i] /\ i < Len(dataTiles) /\ 1 + i \in 1 .. Len(head)
  <2>1. 1 + i - ts \in 1 .. end - ts /\ ts + (1 + i - ts) = 1 + i /\ i < Len(dataTiles)
    BY <1>1, <1>2, <1>5
  <2>2. 1 + i \in 1 .. Len(head)
    BY <1>1
  <2>. QED
    BY <1>4, <2>1, <2>2
<1>7. {te} \cup off \in SUBSET Nat /\ {te} \cup off # {}
  BY <1>1
<1>8. good \in {te} \cup off /\ \A y \in {te} \cup off : good <= y
  <2>. DEFINE S == {te} \cup off
  <2>1. S \in SUBSET Nat /\ S # {}
    BY <1>7
  <2>. HIDE DEF S
  <2>2. Min(S) \in S /\ \A y \in S : Min(S) <= y
    BY <2>1, LeastOfNats
  <2>. QED
    BY <2>2 DEF S
<1>. HIDE DEF good
<1>9. good \in Nat /\ at <= good /\ good <= te
  BY <1>1, <1>8
<1>10. ASSUME NEW i \in at .. good - 1 PROVE i < Len(dataTiles) /\ dataTiles[1 + i] = head[1 + i]
  <2>1. i \in at .. te - 1 /\ ~ (good <= i)
    BY <1>1, <1>9
  <2>2. i \notin off
    BY <1>8, <2>1
  <2>3. tile[1 + i - ts] = head[1 + i]
    BY <2>1, <2>2
  <2>. QED
    BY <1>6, <2>1, <2>3
<1>11. ASSUME good < te, lies = 0 PROVE FALSE
  <2>1. good \in off
    BY <1>1, <1>8, <1>9, <1>11
  <2>2. good \in at .. te - 1 /\ tile[1 + good - ts] # head[1 + good]
    BY <2>1
  <2>3. dataTiles[1 + good] # head[1 + good] /\ 1 + good \in 1 .. Len(head)
    BY <1>6, <2>2
  <2>. QED
    BY <1>1, <1>2, <1>11, <2>3, HonestTiles
<1>. QED
  BY <1>3, <1>9, <1>10, <1>11 DEF at, head, ts, te, tile

(* A pass goes on past a tile it has compared, ends where an entry was     *)
(* wrong, or ends at its head: the round stores it, the backfill claims it.*)
LEMMA ReadTileKeeps ==
  ASSUME EntryInv, NEW w \in Walkers, ReadTile(w)
  PROVE  EntryInv' /\ IsPrefix(entryHead, entryHead')
<1>1. PICK x : x = walks[w]
  OBVIOUS
<1>2. PICK te : te = TileEnd(w)
  OBVIOUS
<1>3. /\ x \in Reading /\ x # NoWalk /\ ReadingOK(w, x) /\ x.at \in Nat /\ x.at < Len(x.head)
      /\ Len(x.head) \in Nat /\ te \in Nat /\ te <= Len(x.head) /\ x.at < te
      /\ walks[w].pc = "entries"
  BY <1>1, <1>2, TileSpans DEF ReadTile
<1>4. PICK end \in TileStart(w) .. Len(dataTiles) :
        LET tile == SubSeq(dataTiles, TileStart(w) + 1, end)
            good == FirstMismatch(w, tile)
            done == good = Len(walks[w].head)
        IN /\ end <= TileStart(w) + TileWidth /\ LongEnough(w, tile)
           /\ records' = RecordedEntries(walks[w].at .. good - 1, Len(walks[w].head))
           /\ read' = [i \in 0 .. MaxEntries - 1 |->
                         IF i \in walks[w].at .. good - 1 THEN read[i] \cup {dataTiles[1 + i]} ELSE read[i]]
           /\ accused' = (accused \/ good < TileEnd(w))
           /\ walks' = [walks EXCEPT ![w] = IF good < TileEnd(w) \/ done THEN NoWalk
                                            ELSE Walk(walks[w].head, good)]
           /\ entryHead' = IF w = "round" /\ done THEN walks[w].head ELSE entryHead
           /\ claim' = IF w = "backfill" /\ done THEN Len(walks[w].head) ELSE claim
  BY DEF ReadTile
<1>5. PICK good : good = FirstMismatch(w, SubSeq(dataTiles, TileStart(w) + 1, end))
  OBVIOUS
<1>6. /\ good \in Nat /\ x.at <= good /\ good <= te
      /\ \A i \in x.at .. good - 1 : i < Len(dataTiles) /\ dataTiles[1 + i] = x.head[1 + i]
      /\ good < te => lies # 0
  BY <1>1, <1>2, <1>3, <1>4, <1>5, TileCompared
<1>. DEFINE done == good = Len(x.head)
<1>7. /\ records' = RecordedEntries(x.at .. good - 1, Len(x.head))
      /\ read' = [i \in 0 .. MaxEntries - 1 |->
                    IF i \in x.at .. good - 1 THEN read[i] \cup {dataTiles[1 + i]} ELSE read[i]]
      /\ accused' = (accused \/ good < te)
      /\ walks' = [walks EXCEPT ![w] = IF good < te \/ done THEN NoWalk ELSE Walk(x.head, good)]
      /\ entryHead' = IF w = "round" /\ done THEN x.head ELSE entryHead
      /\ claim' = IF w = "backfill" /\ done THEN Len(x.head) ELSE claim
  BY <1>1, <1>2, <1>4, <1>5
<1>8. UNCHANGED logVars /\ lies' = lies
  BY DEF ReadTile
<1>9. good <= Len(x.head)
  BY <1>3, <1>6
<1>10. /\ records' \subseteq Indices /\ Cardinality(records') <= MaxRecords
       /\ read' \in [Indices -> SUBSET Entries]
       /\ \A i \in records' : read'[i] # {}
       /\ \A i \in Indices : read[i] \subseteq read'[i]
       /\ \A i \in x.at .. good - 1 : i \in Indices /\ x.head[i + 1] \in read'[i]
  BY <1>3, <1>6, <1>7, <1>9, EntriesRead
<1>11. /\ kind = "entries" => \A i \in since + 1 .. Len(entryHead) : entryHead[i] \in read'[i - 1]
       /\ \A i \in 0 .. claim - 1 : read'[i] # {}
  BY <1>10, ReadStays
<1>12. /\ kind = "entries" /\ x.head \in EntryTrees /\ entryHead \in EntryTrees
       /\ Shown(x.head) /\ Shown(entryHead) /\ Len(entryHead) \in Nat /\ since \in Nat
       /\ Len(x.head) <= MaxEntries /\ MaxEntries \in Nat
  BY <1>3, EntryTreeIsSeq, EntryNumbers DEF EntryInv, KeptOK, ReadingOK, Reading
<1>. HIDE DEF done
(* What the pass has read by now. *)
<1>13. w = "round" => /\ IsPrefix(entryHead, x.head) /\ Len(entryHead) <= x.at
                      /\ \A i \in Len(entryHead) .. good - 1 : x.head[i + 1] \in read'[i]
  <2>. SUFFICES ASSUME w = "round"
                PROVE  /\ IsPrefix(entryHead, x.head) /\ Len(entryHead) <= x.at
                       /\ \A i \in Len(entryHead) .. good - 1 : x.head[i + 1] \in read'[i]
    OBVIOUS
  <2>1. /\ IsPrefix(entryHead, x.head) /\ Len(entryHead) <= x.at
        /\ \A i \in Len(entryHead) .. x.at - 1 : x.head[i + 1] \in read[i]
    BY <1>3 DEF ReadingOK
  <2>2. ASSUME NEW i \in Len(entryHead) .. good - 1 PROVE x.head[i + 1] \in read'[i]
    <3>1. CASE i < x.at
      <4>1. i \in Len(entryHead) .. x.at - 1 /\ i \in Indices
        BY <1>3, <1>12, <3>1 DEF Indices
      <4>. QED
        BY <1>10, <2>1, <4>1
    <3>2. CASE ~ (i < x.at)
      <4>1. i \in x.at .. good - 1
        BY <1>3, <1>6, <1>12, <3>2
      <4>. QED
        BY <1>10, <4>1
    <3>. QED
      BY <3>1, <3>2
  <2>. QED
    BY <2>1, <2>2
<1>14. w = "backfill" => \A i \in 0 .. good - 1 : read'[i] # {}
  <2>. SUFFICES ASSUME w = "backfill", NEW i \in 0 .. good - 1 PROVE read'[i] # {}
    OBVIOUS
  <2>1. \A k \in 0 .. x.at - 1 : read[k] # {}
    BY <1>3 DEF ReadingOK
  <2>2. CASE i < x.at
    <3>1. i \in 0 .. x.at - 1 /\ i \in Indices
      BY <1>3, <1>12, <2>2 DEF Indices
    <3>. QED
      BY <1>10, <2>1, <3>1
  <2>3. CASE ~ (i < x.at)
    <3>1. i \in x.at .. good - 1
      BY <1>3, <1>6, <2>3
    <3>. QED
      BY <1>10, <3>1
  <2>. QED
    BY <2>2, <2>3
<1>15. EntryLogOK'
  BY <1>8 DEF EntryInv, EntryLogOK, logVars
<1>16. AccusedOK'
  <2>1. lies \in Nat /\ accused \in BOOLEAN /\ (accused => lies > 0)
    BY DEF EntryInv, EntryLogOK, AccusedOK, AccusedOfALie
  <2>2. good < te => lies > 0
    BY <1>6, <2>1
  <2>3. accused' => lies' > 0
    BY <1>7, <1>8, <2>1, <2>2
  <2>4. accused' \in BOOLEAN
    BY <1>7
  <2>. QED
    BY <2>3, <2>4 DEF AccusedOK, AccusedOfALie
<1>17. IsPrefix(entryHead, entryHead') /\ entryHead' \in EntryTrees /\ Shown(entryHead)'
  <2>1. IsPrefix(entryHead, entryHead)
    BY <1>12, PrefixEntryByEntry
  <2>2. \A h : Shown(h) => Shown(h)'
    BY <1>8 DEF Shown, logVars
  <2>3. CASE w = "round" /\ done
    <3>1. entryHead' = x.head
      BY <1>7, <2>3
    <3>. QED
      BY <1>8, <1>12, <1>13, <2>3, <3>1 DEF Shown, logVars
  <2>4. CASE ~ (w = "round" /\ done)
    <3>1. entryHead' = entryHead
      BY <1>7, <2>4
    <3>. QED
      BY <1>8, <1>12, <2>1, <3>1 DEF Shown, logVars
  <2>. QED
    BY <2>3, <2>4
<1>18. KeptOK'
  <2>1. CASE w = "round" /\ done
    <3>1. entryHead' = x.head /\ good = Len(x.head)
      BY <1>7, <2>1 DEF done
    <3>2. ASSUME NEW i \in since + 1 .. Len(x.head) PROVE x.head[i] \in read'[i - 1]
      <4>1. CASE i <= Len(entryHead)
        <5>1. i \in since + 1 .. Len(entryHead) /\ i \in 1 .. Len(entryHead)
          BY <1>12, <4>1
        <5>2. entryHead[i] = x.head[i]
          BY <1>12, <1>13, <2>1, <5>1, PrefixEntryByEntry
        <5>. QED
          BY <1>11, <1>12, <5>1, <5>2
      <4>2. CASE ~ (i <= Len(entryHead))
        <5>1. i - 1 \in Len(entryHead) .. good - 1 /\ (i - 1) + 1 = i
          BY <1>3, <1>12, <3>1, <4>2
        <5>2. x.head[(i - 1) + 1] \in read'[i - 1]
          BY <1>13, <2>1, <5>1
        <5>. QED
          BY <5>1, <5>2
      <4>. QED
        BY <4>1, <4>2
    <3>. QED
      BY <1>8, <1>12, <1>17, <3>1, <3>2 DEF KeptOK, logVars
  <2>2. CASE ~ (w = "round" /\ done)
    <3>1. entryHead' = entryHead
      BY <1>7, <2>2
    <3>. QED
      BY <1>8, <1>11, <1>12, <1>17, <3>1 DEF KeptOK, logVars
  <2>. QED
    BY <2>1, <2>2
<1>19. ReadOK'
  <2>1. claim' \in 0 .. MaxEntries /\ \A i \in 0 .. claim' - 1 : read'[i] # {}
    <3>1. CASE w = "backfill" /\ done
      <4>1. claim' = Len(x.head) /\ good = Len(x.head)
        BY <1>7, <3>1 DEF done
      <4>2. Len(x.head) \in 0 .. MaxEntries
        BY <1>3, <1>12
      <4>3. \A i \in 0 .. good - 1 : read'[i] # {}
        BY <1>14, <3>1
      <4>. QED
        BY <4>1, <4>2, <4>3
    <3>2. CASE ~ (w = "backfill" /\ done)
      <4>1. claim' = claim /\ claim \in 0 .. MaxEntries
        BY <1>7, <3>2 DEF EntryInv, ReadOK
      <4>. QED
        BY <1>11, <4>1
    <3>. QED
      BY <3>1, <3>2
  <2>. QED
    BY <1>10, <2>1 DEF ReadOK, ClaimsWereRead
<1>20. WalksOK'
  <2>. DEFINE y == IF good < te \/ done THEN NoWalk ELSE Walk(x.head, good)
  <2>1. walks' = [walks EXCEPT ![w] = y] /\ walks \in [Walkers -> {NoWalk} \cup Reading]
    BY <1>7 DEF EntryInv, WalksOK
  <2>2. Walk(x.head, good) \in Reading /\ Walk(x.head, good).head = x.head /\ Walk(x.head, good).at = good
    BY <1>6, <1>12 DEF Walk, Reading
  <2>3. y \in {NoWalk} \cup Reading
    BY <2>2
  <2>4. y # NoWalk => y = Walk(x.head, good) /\ ~ done
    OBVIOUS
  <2>. HIDE DEF y
  <2>5. walks' \in [Walkers -> {NoWalk} \cup Reading] /\ walks'[w] = y
    BY <2>1, <2>3
  <2>6. ASSUME y # NoWalk PROVE ReadingOK(w, walks[w])'
    <3>1. walks'[w] = y /\ y.head = x.head /\ y.at = good /\ ~ done
      BY <2>2, <2>4, <2>5, <2>6
    <3>2. good < Len(x.head)
      BY <1>3, <1>6, <1>9, <3>1 DEF done
    <3>3. entryHead' = entryHead /\ kind' = "entries" /\ Shown(x.head)'
      BY <1>7, <1>8, <1>12, <3>1 DEF Shown, logVars
    <3>4. Len(entryHead) <= x.at => Len(entryHead) <= good
      BY <1>3, <1>6, <1>12
    <3>5. w = "round" => /\ IsPrefix(entryHead', y.head) /\ Len(entryHead') <= y.at
                         /\ \A i \in Len(entryHead') .. y.at - 1 : y.head[i + 1] \in read'[i]
      BY <1>13, <3>1, <3>3, <3>4
    <3>6. w = "backfill" => \A i \in 0 .. y.at - 1 : read'[i] # {}
      BY <1>14, <3>1
    <3>7. y.at < Len(y.head) /\ Shown(y.head)'
      BY <3>1, <3>2, <3>3 DEF Shown
    <3>. QED
      BY <3>1, <3>3, <3>5, <3>6, <3>7 DEF ReadingOK
  <2>7. ASSUME NEW v \in Walkers, walks'[v] # NoWalk PROVE ReadingOK(v, walks[v])'
    <3>1. CASE v = w
      BY <2>5, <2>6, <2>7, <3>1
    <3>2. CASE v # w
      <4>1. PICK z : z = walks[v]
        OBVIOUS
      <4>2. walks'[v] = z /\ z # NoWalk
        BY <2>1, <2>7, <3>2, <4>1
      <4>3. v = "round" => entryHead' = entryHead
        BY <1>7, <3>2
      <4>4. ReadingOK(v, z)'
        BY <1>8, <1>10, <4>1, <4>2, <4>3, OtherReadingStays
      <4>. QED
        BY <4>2, <4>4
    <3>. QED
      BY <3>1, <3>2
  <2>. QED
    BY <2>5, <2>7 DEF WalksOK
<1>. QED
  BY <1>15, <1>16, <1>17, <1>18, <1>19, <1>20 DEF EntryInv

LEMMA EntryStep ==
  ASSUME EntryInv, [EntryLogsNext]_entryVars
  PROVE  EntryInv' /\ [IsPrefix(entryHead, entryHead')]_entryVars
<1>1. entryHead \in EntryTrees /\ Len(entryHead) \in Nat
  BY EntryTreeIsSeq DEF EntryInv, KeptOK
<1>2. IsPrefix(entryHead, entryHead)
  BY <1>1, PrefixEntryByEntry
<1>3. CASE UNCHANGED entryVars
  <2>1. UNCHANGED <<logVars, entryHead, records, read, walks, claim, accused, lies>>
    BY <1>3 DEF entryVars, logVars
  <2>2. EntryLogOK' /\ KeptOK' /\ ReadOK' /\ AccusedOK'
    BY <2>1 DEF EntryInv, EntryLogOK, KeptOK, Shown, ReadOK, ClaimsWereRead, AccusedOK,
                AccusedOfALie, logVars
  <2>3. WalksOK'
    BY <2>1 DEF EntryInv, WalksOK, ReadingOK, Shown, logVars
  <2>. QED
    BY <1>3, <2>2, <2>3 DEF EntryInv
<1>4. CASE \E e \in Entries : Grow(e)
  <2>1. PICK e \in Entries : Grow(e)
    BY <1>4
  <2>2. EntryInv' /\ entryHead' = entryHead
    BY <2>1, GrowKeeps DEF Grow
  <2>. QED
    BY <1>2, <2>2
<1>5. CASE Fork
  <2>1. EntryInv' /\ entryHead' = entryHead
    BY <1>5, ForkKeeps DEF Fork
  <2>. QED
    BY <1>2, <2>1
<1>6. CASE VerifyFromNow
  <2>1. EntryInv' /\ entryHead' = entryHead
    BY <1>6, VerifyFromNowKeeps DEF VerifyFromNow
  <2>. QED
    BY <1>2, <2>1
<1>7. CASE \E h \in Signed : EntryRound(h) \/ LaggingEntryRound(h) \/ BackfillEntries(h)
  <2>1. PICK h \in Signed : EntryRound(h) \/ LaggingEntryRound(h) \/ BackfillEntries(h)
    BY <1>7
  <2>2. CASE EntryRound(h)
    BY <2>2, EntryRoundKeeps
  <2>3. CASE LaggingEntryRound(h)
    <3>1. EntryInv' /\ entryHead' = entryHead
      BY <2>3, LaggingEntryRoundKeeps DEF LaggingEntryRound
    <3>. QED
      BY <1>2, <3>1
  <2>4. CASE BackfillEntries(h)
    <3>1. EntryInv' /\ entryHead' = entryHead
      BY <2>4, BackfillEntriesKeeps DEF BackfillEntries
    <3>. QED
      BY <1>2, <3>1
  <2>. QED
    BY <2>1, <2>2, <2>3, <2>4
<1>8. CASE \E w \in Walkers : ReadTile(w) \/ WalkEnds(w)
  <2>1. PICK w \in Walkers : ReadTile(w) \/ WalkEnds(w)
    BY <1>8
  <2>2. CASE ReadTile(w)
    BY <2>2, ReadTileKeeps
  <2>3. CASE WalkEnds(w)
    <3>1. EntryInv' /\ entryHead' = entryHead
      BY <2>3, WalkEndsKeeps DEF WalkEnds
    <3>. QED
      BY <1>2, <3>1
  <2>. QED
    BY <2>1, <2>2, <2>3
<1>. QED
  BY <1>3, <1>4, <1>5, <1>6, <1>7, <1>8 DEF EntryLogsNext

LEMMA EntryInvMeans ==
  ASSUME EntryInv
  PROVE  EntryLogsTypeOK /\ WitnessedExtends /\ ClaimsWereRead /\ AccusedOfALie
<1>1. WitnessedExtends /\ ClaimsWereRead /\ AccusedOfALie
  BY DEF EntryInv, KeptOK, Shown, ReadOK, AccusedOK, WitnessedExtends
<1>2. {logTree, rival, dataTiles, entryHead} \subseteq SeqOf(Entries, MaxEntries)
  BY DEF EntryInv, EntryLogOK, KeptOK, EntryTrees
<1>3. /\ records \subseteq 0 .. MaxEntries - 1 /\ Cardinality(records) <= MaxRecords
      /\ read \in [0 .. MaxEntries - 1 -> SUBSET Entries]
      /\ claim \in 0 .. MaxEntries /\ {accused} \subseteq BOOLEAN
  BY DEF EntryInv, ReadOK, AccusedOK, Indices
<1>4. \A w \in Walkers : walks[w] # NoWalk => walks[w].at < Len(walks[w].head)
  BY DEF EntryInv, WalksOK, ReadingOK
<1>. QED
  BY <1>1, <1>2, <1>3, <1>4 DEF EntryLogsTypeOK

(* For every tile width, record limit and bound, whatever two histories    *)
(* the log signs heads of and wherever a pass over the entries breaks off  *)
(* and is resumed: the stored head only ever extends, and every entry of   *)
(* it that VerifyConsistency should have read since verify_entries was on  *)
(* was read; every index a BackfillResult spans was read; an accusation    *)
(* has a lie behind it.                                                    *)
THEOREM EntriesStayWitnessed == EntryLogsSpec => EntriesAreWitnessed
<1>1. EntryInv /\ [EntryLogsNext]_entryVars => EntryInv'
  BY EntryStep
<1>2. EntryInv /\ [EntryLogsNext]_entryVars => [IsPrefix(entryHead, entryHead')]_entryVars
  BY EntryStep
<1>3. EntryInv => EntryLogsTypeOK /\ WitnessedExtends /\ ClaimsWereRead /\ AccusedOfALie
  BY EntryInvMeans
<1>. QED
  BY EntryInitOK, <1>1, <1>2, <1>3, PTL DEF EntryLogsSpec, EntriesAreWitnessed, WitnessedOnlyExtends

-----------------------------------------------------------------------------
(* Apple's revisions. *)

(* The log: sizes never fall from revision to revision.                    *)
AppleHeads == [revision : Nat, size : Nat, root : {"none", "shared", "a", "b"}]
RevisionsOK ==
  /\ sizes \in [1 .. LastRevision -> 1 .. LargestTree]
  /\ \A i, j \in 1 .. LastRevision : i < j => sizes[i] <= sizes[j]
  /\ revised \in 1 .. LastRevision /\ untruths \in Nat

(* A head as an operator that lies nowhere serves it.                      *)
AsCommitted(h) == h.revision \in 1 .. revised /\ h = SignedHead(h.revision, "a")

HeadsServedOK ==
  /\ attested \in AppleHeads /\ latest \in AppleHeads /\ reached \in AppleHeads
  /\ attested # Unseen => latest # Unseen
  /\ latest # Unseen => latest.revision \in 1 .. revised
  /\ untruths = 0 => /\ ~withheld
                     /\ attested # Unseen => AsCommitted(attested) /\ AsCommitted(latest)

(* A verification under way is of a larger head.                           *)
VerifyingOK ==
  /\ appleStep \in {"idle", "search", "prove"}
  /\ appleStep # "idle" => attested # Unseen /\ latest.size > attested.size

(* The search has a revision of the witnessed size in its range, if it was *)
(* told the truth, and a range that halved with every request.             *)
RangeOK ==
  appleStep = "search" =>
    /\ low \in Nat /\ high \in Nat /\ requests \in Nat
    /\ 1 <= low /\ low <= high /\ high <= latest.revision
    /\ SearchIsShort
    /\ untruths = 0 => \E r \in low .. high : sizes[r] = attested.size

(* The segments so far run from the witnessed head to where they reached.  *)
SegmentsOK ==
  appleStep = "prove" =>
    /\ CheckTree(attested, reached)
    /\ startRev \in Nat
    /\ untruths = 0 => startRev < latest.revision

AppleInv == RevisionsOK /\ HeadsServedOK /\ VerifyingOK /\ RangeOK /\ SegmentsOK

LEMMA AppleNumbers ==
  /\ LastRevision \in Nat /\ LastRevision >= 1 /\ LargestTree \in Nat
  /\ SharedSize \in Nat /\ MaxUntruths \in Nat
BY AppleLogAssumption

LEMMA SizesAreNumbers ==
  ASSUME RevisionsOK, NEW rev \in 1 .. revised
  PROVE  rev \in Nat /\ rev \in 1 .. LastRevision /\ sizes[rev] \in Nat /\ sizes[rev] >= 1
<1>1. rev \in 1 .. LastRevision /\ rev \in Nat
  BY AppleNumbers DEF RevisionsOK
<1>2. sizes[rev] \in 1 .. LargestTree
  BY <1>1 DEF RevisionsOK
<1>. QED
  BY <1>1, <1>2, AppleNumbers

LEMMA SignedHeadIs ==
  ASSUME RevisionsOK, NEW rev \in 1 .. revised, NEW side \in {"a", "b"}
  PROVE  LET h == SignedHead(rev, side)
         IN /\ h \in AppleHeads /\ h # Unseen
            /\ h.revision = rev /\ h.size = sizes[rev]
            /\ h.root = IF sizes[rev] <= SharedSize THEN "shared" ELSE side
<1>1. rev \in Nat /\ sizes[rev] \in Nat /\ sizes[rev] >= 1
  BY SizesAreNumbers
<1>. DEFINE h == SignedHead(rev, side)
<1>2. /\ h.revision = rev /\ h.size = sizes[rev]
      /\ h.root = IF sizes[rev] <= SharedSize THEN "shared" ELSE side
  BY DEF SignedHead
<1>3. h \in AppleHeads
  BY <1>1 DEF SignedHead, AppleHeads
<1>4. h # Unseen
  BY <1>1 DEF SignedHead, Unseen
<1>. QED
  BY <1>2, <1>3, <1>4

(* Whatever is served is a signed head, and the one asked for unless the   *)
(* operator lies.                                                          *)
LEMMA AnswersAre ==
  ASSUME RevisionsOK, NEW asked \in 1 .. revised, NEW answer \in HeadAnswers(asked)
  PROVE  /\ answer.head \in AppleHeads /\ answer.head # Unseen
         /\ answer.head.revision \in 1 .. revised
         /\ answer.head.size = sizes[answer.head.revision]
         /\ answer.cost \in {0, 1}
         /\ answer.cost = 0 => /\ answer.head = SignedHead(asked, "a") /\ answer.head.revision = asked
                               /\ AsCommitted(answer.head)
<1>1. CASE answer = [head |-> SignedHead(asked, "a"), cost |-> 0]
  <2>1. answer.head = SignedHead(asked, "a") /\ answer.cost = 0
    BY <1>1
  <2>. QED
    BY <2>1, SignedHeadIs DEF AsCommitted
<1>2. CASE \E h \in SignedHeads : answer = [head |-> h, cost |-> 1]
  <2>1. PICK h \in SignedHeads : answer = [head |-> h, cost |-> 1]
    BY <1>2
  <2>2. PICK rev \in 1 .. revised, side \in {"a", "b"} : h = SignedHead(rev, side)
    BY <2>1 DEF SignedHeads
  <2>3. answer.head = SignedHead(rev, side) /\ answer.cost = 1
    BY <2>1, <2>2
  <2>. QED
    BY <2>3, SignedHeadIs
<1>. QED
  BY <1>1, <1>2 DEF HeadAnswers

LEMMA AppleInitOK == AppleInit => AppleInv
<1>. SUFFICES ASSUME AppleInit PROVE AppleInv
  OBVIOUS
<1>1. RevisionsOK
  BY AppleNumbers DEF AppleInit, RevisionsOK
<1>2. HeadsServedOK
  BY DEF AppleInit, HeadsServedOK, AppleHeads, Unseen
<1>3. VerifyingOK /\ RangeOK /\ SegmentsOK
  BY DEF AppleInit, VerifyingOK, RangeOK, SegmentsOK
<1>. QED
  BY <1>1, <1>2, <1>3 DEF AppleInv

LEMMA ReviseKeeps == ASSUME AppleInv, Revise PROVE AppleInv'
<1>1. /\ RevisionsOK /\ HeadsServedOK /\ VerifyingOK /\ RangeOK /\ SegmentsOK
      /\ revised \in 1 .. LastRevision /\ revised < LastRevision /\ revised' = revised + 1
      /\ UNCHANGED <<sizes, untruths, attested, latest, appleStep, low, high, startRev, requests, reached, withheld>>
  BY DEF AppleInv, Revise, RevisionsOK
<1>2. revised' \in 1 .. LastRevision /\ \A r \in 1 .. revised : r \in 1 .. revised'
  BY <1>1, AppleNumbers
<1>3. RevisionsOK'
  BY <1>1, <1>2 DEF RevisionsOK
<1>4. HeadsServedOK'
  BY <1>1, <1>2 DEF HeadsServedOK, AsCommitted, SignedHead
<1>5. VerifyingOK' /\ SegmentsOK'
  BY <1>1 DEF VerifyingOK, SegmentsOK, CheckTree
<1>6. RangeOK'
  BY <1>1 DEF RangeOK, SearchIsShort
<1>. QED
  BY <1>3, <1>4, <1>5, <1>6 DEF AppleInv

(* An honest log's larger tree is a later revision.                        *)
LEMMA LargerIsLater ==
  ASSUME RevisionsOK, NEW i \in 1 .. revised, NEW j \in 1 .. revised, sizes[i] < sizes[j]
  PROVE  i < j
<1>1. /\ i \in 1 .. LastRevision /\ j \in 1 .. LastRevision /\ i \in Nat /\ j \in Nat
      /\ sizes[i] \in Nat /\ sizes[j] \in Nat
  BY SizesAreNumbers
<1>2. ~ (j < i)
  BY <1>1 DEF RevisionsOK
<1>3. i # j
  BY <1>1
<1>. QED
  BY <1>1, <1>2, <1>3

LEMMA FetchHeadKeeps ==
  ASSUME AppleInv, FetchHead
  PROVE  AppleInv' /\ (attested # Unseen => attested' = attested)
<1>1. /\ RevisionsOK /\ HeadsServedOK /\ VerifyingOK /\ appleStep = "idle" /\ untruths \in Nat
      /\ UNCHANGED <<sizes, revised, startRev, reached, withheld>> /\ revised \in 1 .. revised
  BY AppleNumbers DEF AppleInv, FetchHead, RevisionsOK
<1>2. PICK answer \in HeadAnswers(revised) :
        /\ untruths + answer.cost <= MaxUntruths
        /\ untruths' = untruths + answer.cost
        /\ latest' = answer.head
        /\ attested' = IF attested = Unseen THEN answer.head ELSE attested
        /\ IF attested # Unseen /\ answer.head.size > attested.size
           THEN /\ appleStep' = "search"
                /\ low' = 1 /\ high' = answer.head.revision /\ requests' = 0
           ELSE UNCHANGED <<appleStep, low, high, requests>>
  BY DEF FetchHead, ServedHead
<1>3. PICK h : h = answer.head
  OBVIOUS
<1>4. /\ h \in AppleHeads /\ h # Unseen /\ h.revision \in 1 .. revised
      /\ h.size = sizes[h.revision] /\ answer.cost \in {0, 1}
      /\ answer.cost = 0 => h.revision = revised /\ AsCommitted(h)
  BY <1>1, <1>3, AnswersAre
<1>5. untruths' \in Nat /\ (untruths' = 0 => untruths = 0 /\ answer.cost = 0)
  BY <1>1, <1>2, <1>4
<1>6. RevisionsOK'
  BY <1>1, <1>5 DEF RevisionsOK
<1>7. latest' = h /\ attested' = IF attested = Unseen THEN h ELSE attested
  BY <1>2, <1>3
<1>8. HeadsServedOK'
  <2>1. attested' \in AppleHeads /\ latest' \in AppleHeads /\ reached' \in AppleHeads
    BY <1>1, <1>4, <1>7 DEF HeadsServedOK
  <2>2. latest' # Unseen /\ latest'.revision \in 1 .. revised'
    BY <1>1, <1>4, <1>7
  <2>3. ASSUME untruths' = 0 PROVE ~withheld' /\ AsCommitted(attested)' /\ AsCommitted(latest)'
    <3>1. untruths = 0 /\ AsCommitted(h) /\ ~withheld
      BY <1>1, <1>4, <1>5, <2>3 DEF HeadsServedOK
    <3>2. attested # Unseen => AsCommitted(attested)
      BY <1>1, <3>1 DEF HeadsServedOK
    <3>3. AsCommitted(latest)'
      BY <1>1, <1>7, <3>1 DEF AsCommitted, SignedHead
    <3>4. AsCommitted(attested)'
      BY <1>1, <1>7, <3>1, <3>2 DEF AsCommitted, SignedHead
    <3>. QED
      BY <1>1, <3>1, <3>3, <3>4
  <2>. QED
    BY <2>1, <2>2, <2>3 DEF HeadsServedOK
<1>9. CASE attested # Unseen /\ h.size > attested.size
  <2>1. /\ appleStep' = "search" /\ low' = 1 /\ high' = h.revision /\ requests' = 0
        /\ attested' = attested
    BY <1>2, <1>3, <1>7, <1>9
  <2>2. VerifyingOK' /\ SegmentsOK'
    BY <1>7, <1>9, <2>1 DEF VerifyingOK, SegmentsOK
  <2>3. h.revision \in Nat /\ 1 <= h.revision
    BY <1>4
  <2>4. SearchIsShort'
    <3>1. PICK one : one = 2^0
      OBVIOUS
    <3>2. one = 1
      BY <3>1, NoDoubling, Zenon
    <3>3. (h.revision - 1) * one <= h.revision
      BY <2>3, <3>2
    <3>4. (high' - low') * 2^requests' <= latest'.revision
      BY <1>7, <2>1, <3>1, <3>3, Zenon
    <3>. QED
      BY <3>4, Zenon DEF SearchIsShort
  <2>5. ASSUME untruths' = 0 PROVE \E r \in low' .. high' : sizes'[r] = attested'.size
    <3>1. /\ AsCommitted(attested) /\ AsCommitted(h)
      BY <1>1, <1>4, <1>5, <1>9, <2>5 DEF HeadsServedOK
    <3>2. /\ attested.revision \in 1 .. revised /\ attested.size = sizes[attested.revision]
          /\ attested.revision \in Nat
      BY <1>1, <3>1, SignedHeadIs DEF AsCommitted
    <3>3. attested.revision < h.revision
      BY <1>1, <1>4, <1>9, <3>2, LargerIsLater, SizesAreNumbers
    <3>4. attested.revision \in 1 .. h.revision
      BY <2>3, <3>2, <3>3
    <3>. QED
      BY <1>1, <2>1, <3>2, <3>4
  <2>6. RangeOK'
    <3>1. low' \in Nat /\ high' \in Nat /\ requests' \in Nat /\ 1 <= low' /\ low' <= high'
          /\ high' <= latest'.revision
      BY <1>7, <2>1, <2>3
    <3>. QED
      BY <2>4, <2>5, <3>1 DEF RangeOK
  <2>. QED
    BY <1>6, <1>8, <2>1, <2>2, <2>6 DEF AppleInv
<1>10. CASE ~ (attested # Unseen /\ h.size > attested.size)
  <2>1. appleStep' = "idle"
    BY <1>1, <1>2, <1>3, <1>10
  <2>2. VerifyingOK' /\ SegmentsOK' /\ RangeOK'
    BY <2>1 DEF VerifyingOK, SegmentsOK, RangeOK
  <2>. QED
    BY <1>6, <1>7, <1>8, <2>2 DEF AppleInv
<1>. QED
  BY <1>9, <1>10

(* A revision of the witnessed size is found: the proof begins there.      *)
LEMMA LocateKeeps ==
  ASSUME AppleInv, appleStep = "search", NEW rev \in 1 .. revised, Locate(rev),
         UNCHANGED <<sizes, revised, latest>>, untruths' \in Nat,
         untruths' = 0 => untruths = 0 /\ sizes[rev] = attested.size
  PROVE  AppleInv'
<1>1. /\ RevisionsOK /\ HeadsServedOK /\ VerifyingOK
      /\ attested # Unseen /\ latest.size > attested.size
      /\ startRev' = rev /\ reached' = attested /\ appleStep' = "prove"
      /\ attested' = attested /\ withheld' = withheld
  BY DEF AppleInv, VerifyingOK, Locate
<1>2. RevisionsOK'
  BY <1>1 DEF RevisionsOK
<1>3. HeadsServedOK'
  BY <1>1 DEF HeadsServedOK, AsCommitted, SignedHead
<1>4. VerifyingOK' /\ RangeOK'
  BY <1>1 DEF VerifyingOK, RangeOK
<1>5. CheckTree(attested, attested)
  <2>1. attested.size \in Nat
    BY <1>1 DEF HeadsServedOK, AppleHeads
  <2>. QED
    BY <2>1 DEF CheckTree
<1>6. ASSUME untruths' = 0 PROVE rev < latest.revision
  <2>1. AsCommitted(latest) /\ sizes[rev] = attested.size
    BY <1>1, <1>6 DEF HeadsServedOK
  <2>2. latest.revision \in 1 .. revised /\ latest.size = sizes[latest.revision]
    BY <1>1, <2>1, SignedHeadIs DEF AsCommitted
  <2>3. sizes[rev] < sizes[latest.revision]
    <3>1. sizes[rev] \in Nat /\ sizes[latest.revision] \in Nat
      BY <1>1, <2>2, SizesAreNumbers
    <3>. QED
      BY <1>1, <2>1, <2>2, <3>1
  <2>. QED
    BY <1>1, <2>2, <2>3, LargerIsLater
<1>7. rev \in Nat
  BY <1>1, SizesAreNumbers
<1>8. SegmentsOK'
  <2>1. CheckTree(attested, reached)'
    BY <1>1, <1>5 DEF CheckTree
  <2>. QED
    BY <1>1, <1>6, <1>7, <2>1 DEF SegmentsOK
<1>. QED
  BY <1>2, <1>3, <1>4, <1>8 DEF AppleInv

(* A verification refused, of an operator that has lied.                   *)
LEMMA WithholdKeeps ==
  ASSUME AppleInv, Withhold, UNCHANGED <<sizes, revised, latest, reached>>,
         untruths' \in Nat, untruths' # 0
  PROVE  AppleInv'
<1>1. RevisionsOK' /\ HeadsServedOK'
  BY DEF AppleInv, Withhold, RevisionsOK, HeadsServedOK
<1>2. VerifyingOK' /\ RangeOK' /\ SegmentsOK'
  BY DEF Withhold, VerifyingOK, RangeOK, SegmentsOK
<1>. QED
  BY <1>1, <1>2 DEF AppleInv

LEMMA HalfIsHalf ==
  ASSUME NEW d \in Nat, d > 0
  PROVE  /\ d \div 2 \in Nat /\ 2 * (d \div 2) <= d /\ d \div 2 < d
         /\ 2 * (d - d \div 2 - 1) <= d /\ d - d \div 2 - 1 >= 0
OBVIOUS

LEMMA HalvesTwice ==
  ASSUME NEW d \in Nat, NEW e \in Nat, NEW p \in Nat, NEW b \in Nat,
         2 * e <= d, d * p <= b
  PROVE  e * (2 * p) <= b
<1>1. PICK k \in Nat : d = 2 * e + k
  <2>1. d - 2 * e \in Nat /\ d = 2 * e + (d - 2 * e)
    OBVIOUS
  <2>. QED
    BY <2>1
<1>2. d * p = e * (2 * p) + k * p /\ k * p \in Nat /\ e * (2 * p) \in Nat
  BY <1>1
<1>. QED
  BY <1>2

LEMMA ProbeRevisionKeeps ==
  ASSUME AppleInv, ProbeRevision
  PROVE  AppleInv' /\ attested' = attested
<1>1. /\ RevisionsOK /\ HeadsServedOK /\ VerifyingOK /\ RangeOK /\ appleStep = "search" /\ low < high
      /\ untruths \in Nat /\ attested # Unseen /\ latest.size > attested.size
      /\ UNCHANGED <<sizes, revised, latest>>
  BY DEF AppleInv, ProbeRevision, RevisionsOK, VerifyingOK
<1>2. /\ low \in Nat /\ high \in Nat /\ requests \in Nat /\ 1 <= low /\ high <= latest.revision
      /\ latest.revision \in 1 .. revised /\ revised \in Nat
  BY <1>1 DEF RangeOK, HeadsServedOK, RevisionsOK
<1>3. PICK mid : mid = low + (high - low) \div 2
  OBVIOUS
<1>4. /\ mid \in Nat /\ low <= mid /\ mid < high
      /\ 2 * (mid - low) <= high - low /\ 2 * (high - (mid + 1)) <= high - low
  <2>1. high - low \in Nat /\ high - low > 0
    BY <1>1, <1>2
  <2>2. PICK d : d = high - low
    OBVIOUS
  <2>3. PICK half : half = d \div 2
    OBVIOUS
  <2>4. half \in Nat /\ 2 * half <= d /\ half < d /\ 2 * (d - half - 1) <= d
    BY <2>1, <2>2, <2>3, HalfIsHalf
  <2>5. mid = low + half
    BY <1>3, <2>2, <2>3
  <2>. QED
    BY <1>2, <2>2, <2>4, <2>5
<1>5. mid \in 1 .. revised
  BY <1>2, <1>4
<1>6. PICK answer \in HeadAnswers(mid) :
        /\ untruths' = untruths + answer.cost
        /\ IF answer.head.size = attested.size
           THEN Locate(mid) /\ UNCHANGED <<low, high, requests>>
           ELSE /\ low' = Narrow(mid, answer.head)[1] /\ high' = Narrow(mid, answer.head)[2]
                /\ requests' = requests + 1
                /\ UNCHANGED <<appleStep, startRev, attested, reached, withheld>>
  BY <1>3 DEF ProbeRevision, ServedHead
<1>7. PICK h : h = answer.head
  OBVIOUS
<1>8. /\ h \in AppleHeads /\ answer.cost \in {0, 1} /\ h.size = sizes[h.revision]
      /\ answer.cost = 0 => h.revision = mid
  BY <1>1, <1>5, <1>7, AnswersAre
<1>9. untruths' \in Nat /\ (untruths' = 0 => untruths = 0 /\ answer.cost = 0)
  BY <1>1, <1>6, <1>8
<1>10. CASE h.size = attested.size
  <2>1. Locate(mid)
    BY <1>6, <1>7, <1>10
  <2>2. untruths' = 0 => untruths = 0 /\ sizes[mid] = attested.size
    BY <1>8, <1>9, <1>10
  <2>3. AppleInv'
    BY <1>1, <1>5, <1>9, <2>1, <2>2, LocateKeeps
  <2>. QED
    BY <2>1, <2>3 DEF Locate
<1>11. CASE h.size # attested.size
  <2>1. /\ low' = Narrow(mid, h)[1] /\ high' = Narrow(mid, h)[2] /\ requests' = requests + 1
        /\ UNCHANGED <<appleStep, startRev, attested, reached, withheld>>
    BY <1>6, <1>7, <1>11
  <2>2. IF h.size < attested.size THEN low' = mid + 1 /\ high' = high ELSE low' = low /\ high' = mid
    BY <2>1 DEF Narrow
  <2>3. /\ low' \in Nat /\ high' \in Nat /\ 1 <= low' /\ low' <= high' /\ high' <= high
        /\ high' - low' \in Nat /\ 2 * (high' - low') <= high - low
    <3>1. CASE h.size < attested.size
      BY <1>2, <1>4, <2>2, <3>1
    <3>2. CASE ~ (h.size < attested.size)
      BY <1>2, <1>4, <2>2, <3>2
    <3>. QED
      BY <3>1, <3>2
  <2>4. RevisionsOK' /\ HeadsServedOK' /\ VerifyingOK' /\ SegmentsOK'
    BY <1>1, <1>9, <2>1
       DEF RevisionsOK, HeadsServedOK, AsCommitted, SignedHead, VerifyingOK, SegmentsOK
  <2>5. SearchIsShort'
    <3>1. PICK p, q, d, e, b : /\ p = 2^requests /\ q = 2^(requests + 1) /\ d = high - low
                               /\ e = high' - low' /\ b = latest.revision
      OBVIOUS
    <3>2. p \in Nat /\ q = 2 * p
      BY <1>2, <3>1, Doubling, Zenon
    <3>3. d * p <= b
      BY <1>1, <3>1, Zenon DEF RangeOK, SearchIsShort
    <3>4. d \in Nat /\ e \in Nat /\ b \in Nat /\ 2 * e <= d
      <4>1. d = high - low /\ e = high' - low' /\ b = latest.revision
        BY <3>1, Zenon
      <4>2. d \in Nat /\ b \in Nat
        BY <1>1, <1>2, <4>1
      <4>3. e \in Nat /\ 2 * e <= d
        BY <2>3, <4>1
      <4>. QED
        BY <4>2, <4>3
    <3>5. e * (2 * p) <= b
      BY <3>2, <3>3, <3>4, HalvesTwice
    <3>6. (high' - low') * 2^requests' <= latest'.revision
      BY <1>1, <2>1, <3>1, <3>2, <3>5, Zenon
    <3>. QED
      BY <3>6, Zenon DEF SearchIsShort
  <2>6. ASSUME untruths' = 0 PROVE \E r \in low' .. high' : sizes'[r] = attested'.size
    <3>1. h.size = sizes[mid] /\ untruths = 0
      BY <1>8, <1>9, <2>6
    <3>2. PICK r \in low .. high : sizes[r] = attested.size
      BY <1>1, <3>1 DEF RangeOK
    <3>3. r \in 1 .. revised /\ r \in Nat
      BY <1>2
    <3>4. sizes[mid] \in Nat /\ sizes[r] \in Nat
      BY <1>1, <1>5, <3>3, SizesAreNumbers
    <3>5. CASE h.size < attested.size
      <4>1. mid < r
        BY <1>1, <1>5, <3>1, <3>2, <3>3, <3>5, LargerIsLater
      <4>2. r \in low' .. high'
        BY <1>2, <1>4, <2>2, <3>3, <3>5, <4>1
      <4>. QED
        BY <1>1, <2>1, <3>2, <4>2
    <3>6. CASE ~ (h.size < attested.size)
      <4>1. sizes[r] < sizes[mid]
        BY <1>11, <3>1, <3>2, <3>4, <3>6
      <4>2. r < mid
        BY <1>1, <1>5, <3>3, <4>1, LargerIsLater
      <4>3. r \in low' .. high'
        BY <1>2, <1>4, <2>2, <3>3, <3>6, <4>2
      <4>. QED
        BY <1>1, <2>1, <3>2, <4>3
    <3>. QED
      BY <3>5, <3>6
  <2>7. RangeOK'
    <3>1. requests' \in Nat /\ high' <= latest'.revision
      BY <1>1, <1>2, <2>1, <2>3
    <3>. QED
      BY <2>3, <2>5, <2>6, <3>1 DEF RangeOK
  <2>. QED
    BY <2>1, <2>4, <2>7 DEF AppleInv
<1>. QED
  BY <1>10, <1>11

LEMMA LastProbeKeeps ==
  ASSUME AppleInv, LastProbe
  PROVE  AppleInv' /\ attested' = attested
<1>1. /\ RevisionsOK /\ RangeOK /\ appleStep = "search" /\ low >= high /\ low \in 1 .. revised
      /\ untruths \in Nat /\ UNCHANGED <<sizes, revised, latest>>
  BY DEF AppleInv, LastProbe, RevisionsOK
<1>2. PICK answer \in HeadAnswers(low) :
        /\ untruths' = untruths + answer.cost
        /\ IF answer.head.size = attested.size THEN Locate(low)
           ELSE Withhold /\ UNCHANGED <<startRev, reached>>
  BY DEF LastProbe, ServedHead
<1>3. /\ answer.cost \in {0, 1} /\ answer.head.size = sizes[answer.head.revision]
      /\ answer.cost = 0 => answer.head.revision = low
  BY <1>1, AnswersAre
<1>4. untruths' \in Nat /\ (untruths' = 0 => untruths = 0 /\ answer.cost = 0)
  BY <1>1, <1>2, <1>3
<1>5. CASE answer.head.size = attested.size
  <2>1. Locate(low)
    BY <1>2, <1>5
  <2>2. untruths' = 0 => untruths = 0 /\ sizes[low] = attested.size
    BY <1>3, <1>4, <1>5
  <2>3. AppleInv'
    BY <1>1, <1>4, <2>1, <2>2, LocateKeeps
  <2>. QED
    BY <2>1, <2>3 DEF Locate
<1>6. CASE answer.head.size # attested.size
  <2>1. Withhold /\ reached' = reached
    BY <1>2, <1>6
  <2>2. untruths' # 0
    <3>. SUFFICES ASSUME untruths' = 0 PROVE FALSE
      OBVIOUS
    <3>1. PICK r \in low .. high : sizes[r] = attested.size
      BY <1>1, <1>4 DEF RangeOK
    <3>2. r = low
      BY <1>1 DEF RangeOK
    <3>. QED
      BY <1>3, <1>4, <1>6, <3>1, <3>2
  <2>3. AppleInv'
    BY <1>1, <1>4, <2>1, <2>2, WithholdKeeps
  <2>. QED
    BY <2>1, <2>3 DEF Withhold
<1>. QED
  BY <1>5, <1>6

(* What an honest operator puts in a proof always joins.                   *)
LEMMA TrueSegmentsJoin ==
  ASSUME RevisionsOK, latest.revision \in 1 .. revised, NEW from, NEW to,
         <<from, to>> \in TrueSegments
  PROVE  Joined(from, to)
<1>1. PICK r \in 1 .. latest.revision, m \in 1 .. latest.revision :
        <<from, to>> = <<SignedHead(r, "a"), SignedHead(m, "a")>>
  BY DEF TrueSegments
<1>2. from = SignedHead(r, "a") /\ to = SignedHead(m, "a")
  BY <1>1
<1>3. SameTree(from, reached) /\ from.revision < to.revision
  BY DEF TrueSegments
<1>4. r \in 1 .. revised /\ m \in 1 .. revised
  BY DEF RevisionsOK
<1>5. /\ from.revision = r /\ from.size = sizes[r] /\ to.revision = m /\ to.size = sizes[m]
      /\ from.root = IF sizes[r] <= SharedSize THEN "shared" ELSE "a"
      /\ to.root = IF sizes[m] <= SharedSize THEN "shared" ELSE "a"
  BY <1>2, <1>4, SignedHeadIs
<1>6. sizes[r] \in Nat /\ sizes[m] \in Nat /\ r \in 1 .. LastRevision /\ m \in 1 .. LastRevision
  BY <1>4, SizesAreNumbers
<1>7. sizes[r] <= sizes[m]
  BY <1>3, <1>5, <1>6 DEF RevisionsOK
<1>8. from.root = "shared" \/ from.root = to.root
  BY <1>5, <1>6, <1>7, AppleNumbers
<1>. QED
  BY <1>3, <1>5, <1>6, <1>7, <1>8 DEF Joined, CheckTree

LEMMA ExtendsOn ==
  ASSUME NEW x \in AppleHeads, NEW y \in AppleHeads, NEW z \in AppleHeads,
         CheckTree(x, y), CheckTree(y, z)
  PROVE  CheckTree(x, z)
<1>1. x.size \in Nat /\ y.size \in Nat /\ z.size \in Nat
  BY DEF AppleHeads
<1>. QED
  BY <1>1 DEF CheckTree

LEMMA ProveKeeps ==
  ASSUME AppleInv, Prove
  PROVE  AppleInv' /\ attested' = attested
<1>1. /\ RevisionsOK /\ HeadsServedOK /\ VerifyingOK /\ SegmentsOK /\ appleStep = "prove"
      /\ untruths \in Nat /\ attested # Unseen
      /\ UNCHANGED <<sizes, revised, latest, low, high, startRev, requests>>
  BY DEF AppleInv, Prove, RevisionsOK, VerifyingOK
<1>2. PICK from \in SignedHeads, to \in SignedHeads :
        LET cost == IF <<from, to>> \in TrueSegments THEN 0 ELSE 1
        IN /\ untruths' = untruths + cost
           /\ IF Joined(from, to)
              THEN reached' = to /\ UNCHANGED <<appleStep, withheld, attested>>
              ELSE Withhold /\ UNCHANGED reached
  BY DEF Prove
<1>3. untruths' \in Nat /\ (untruths' = 0 => untruths = 0 /\ <<from, to>> \in TrueSegments)
  BY <1>1, <1>2
<1>4. from \in AppleHeads /\ to \in AppleHeads
  <2>1. ASSUME NEW h \in SignedHeads PROVE h \in AppleHeads
    <3>1. PICK rev \in 1 .. revised, side \in {"a", "b"} : h = SignedHead(rev, side)
      BY DEF SignedHeads
    <3>. QED
      BY <1>1, <3>1, SignedHeadIs
  <2>. QED
    BY <2>1
<1>5. CASE Joined(from, to)
  <2>1. reached' = to /\ UNCHANGED <<appleStep, withheld, attested>>
    BY <1>2, <1>5
  <2>2. CheckTree(attested, to)
    <3>1. CheckTree(attested, reached) /\ SameTree(from, reached) /\ CheckTree(from, to)
      BY <1>1, <1>5 DEF SegmentsOK, Joined
    <3>2. CheckTree(attested, from)
      BY <3>1 DEF CheckTree, SameTree
    <3>. QED
      BY <1>1, <1>4, <3>1, <3>2, ExtendsOn DEF HeadsServedOK
  <2>3. RevisionsOK' /\ HeadsServedOK' /\ VerifyingOK' /\ RangeOK'
    BY <1>1, <1>3, <1>4, <2>1
       DEF RevisionsOK, HeadsServedOK, AsCommitted, SignedHead, VerifyingOK, RangeOK
  <2>4. SegmentsOK'
    <3>1. CheckTree(attested, reached)'
      BY <2>1, <2>2 DEF CheckTree
    <3>. QED
      BY <1>1, <1>3, <3>1 DEF SegmentsOK
  <2>. QED
    BY <2>1, <2>3, <2>4 DEF AppleInv
<1>6. CASE ~ Joined(from, to)
  <2>1. Withhold /\ reached' = reached
    BY <1>2, <1>6
  <2>2. latest.revision \in 1 .. revised
    BY <1>1 DEF HeadsServedOK
  <2>3. untruths' # 0
    BY <1>1, <1>3, <1>6, <2>2, TrueSegmentsJoin
  <2>4. AppleInv'
    BY <1>1, <1>3, <2>1, <2>3, WithholdKeeps
  <2>. QED
    BY <2>1, <2>4 DEF Withhold
<1>. QED
  BY <1>5, <1>6

LEMMA ProofEndsKeeps ==
  ASSUME AppleInv, ProofEnds
  PROVE  AppleInv' /\ (attested' = attested \/ CheckTree(attested, attested'))
<1>1. /\ RevisionsOK /\ HeadsServedOK /\ VerifyingOK /\ SegmentsOK /\ appleStep = "prove"
      /\ untruths \in Nat /\ attested # Unseen
      /\ UNCHANGED <<sizes, revised, latest, low, high, startRev, requests, reached>>
  BY DEF AppleInv, ProofEnds, RevisionsOK, VerifyingOK
<1>. DEFINE whole == startRev < latest.revision /\ SameTree(reached, latest)
<1>2. /\ untruths' = IF whole \/ startRev >= latest.revision THEN untruths ELSE untruths + 1
      /\ IF whole THEN attested' = latest /\ appleStep' = "idle" /\ UNCHANGED withheld
         ELSE Withhold
  BY DEF ProofEnds
<1>3. untruths' \in Nat /\ (untruths' = 0 => untruths = 0)
  BY <1>1, <1>2
<1>4. CASE whole
  <2>1. attested' = latest /\ appleStep' = "idle" /\ withheld' = withheld
    BY <1>2, <1>4
  <2>2. CheckTree(attested, latest)
    BY <1>1, <1>4 DEF SegmentsOK, CheckTree, SameTree
  <2>3. RevisionsOK' /\ HeadsServedOK'
    BY <1>1, <1>3, <2>1 DEF RevisionsOK, HeadsServedOK, AsCommitted, SignedHead
  <2>4. VerifyingOK' /\ RangeOK' /\ SegmentsOK'
    BY <2>1 DEF VerifyingOK, RangeOK, SegmentsOK
  <2>. QED
    BY <2>1, <2>2, <2>3, <2>4 DEF AppleInv
<1>5. CASE ~ whole
  <2>1. Withhold
    BY <1>2, <1>5
  <2>2. untruths' # 0
    <3>1. CASE startRev >= latest.revision
      <4>1. startRev \in Nat /\ latest.revision \in Nat
        BY <1>1 DEF SegmentsOK, HeadsServedOK, AppleHeads
      <4>. QED
        BY <1>1, <1>3, <3>1, <4>1 DEF SegmentsOK
    <3>2. CASE ~ (startRev >= latest.revision)
      BY <1>1, <1>2, <1>5, <3>2
    <3>. QED
      BY <3>1, <3>2
  <2>3. AppleInv'
    BY <1>1, <1>3, <2>1, <2>2, WithholdKeeps
  <2>. QED
    BY <2>1, <2>3 DEF Withhold
<1>. QED
  BY <1>4, <1>5

LEMMA AppleStep ==
  ASSUME AppleInv, [AppleNext]_appleVars
  PROVE  AppleInv' /\ [attested # Unseen => CheckTree(attested, attested')]_attested
<1>1. CASE UNCHANGED appleVars
  <2>1. RevisionsOK' /\ HeadsServedOK' /\ VerifyingOK' /\ SegmentsOK'
    BY <1>1 DEF AppleInv, appleVars, RevisionsOK, HeadsServedOK, AsCommitted, SignedHead,
                VerifyingOK, SegmentsOK, CheckTree
  <2>2. RangeOK'
    BY <1>1 DEF AppleInv, appleVars, RangeOK, SearchIsShort
  <2>. QED
    BY <1>1, <2>1, <2>2 DEF AppleInv, appleVars
<1>2. CASE Revise
  BY <1>2, ReviseKeeps DEF Revise
<1>3. CASE FetchHead
  <2>1. AppleInv' /\ (attested # Unseen => attested' = attested)
    BY <1>3, FetchHeadKeeps
  <2>. QED
    BY <2>1
<1>4. CASE ProbeRevision
  BY <1>4, ProbeRevisionKeeps
<1>5. CASE LastProbe
  BY <1>5, LastProbeKeeps
<1>6. CASE Prove
  BY <1>6, ProveKeeps
<1>7. CASE ProofEnds
  BY <1>7, ProofEndsKeeps
<1>. QED
  BY <1>1, <1>2, <1>3, <1>4, <1>5, <1>6, <1>7 DEF AppleNext

(* For any number of revisions, any sizes of their trees and however many  *)
(* answers are not the ones asked for: the heads VerifyConsistency lets    *)
(* through are one append-only history, revisionForSize halves its range   *)
(* at every request, and an operator that answers what it is asked is      *)
(* never withheld from, though the log grows under the search.             *)
THEOREM AppleStaysFollowed == AppleSpec => AppleIsFollowed
<1>1. AppleInv /\ [AppleNext]_appleVars => AppleInv'
  BY AppleStep
<1>2. AppleInv /\ [AppleNext]_appleVars => [attested # Unseen => CheckTree(attested, attested')]_attested
  BY AppleStep
<1>3. AppleInv => HonestIsNeverWithheld /\ SearchIsShort
  BY DEF AppleInv, HeadsServedOK, HonestIsNeverWithheld, RangeOK, SearchIsShort
<1>. QED
  BY AppleInitOK, <1>1, <1>2, <1>3, PTL DEF AppleSpec, AppleIsFollowed, AttestsOneHistory

-----------------------------------------------------------------------------
(* Lists of logs.  Nothing is assumed of what the parser made of a list.   *)

(* What is stored can be verified; what is discovered is what is stored.   *)
StoreOK ==
  \A o \in LogOrigins :
    /\ pushLogs[o] # NoKey => pushLogs[o] \in Verifiable
    /\ discovered[o] # NoKey => ~IsStatic(o) /\ discovered[o] = pushLogs[o]
    /\ vouched[o] \subseteq {pushLogs[o]}

(* What is probed and polled is discovered, and not configured.            *)
MonitorOK ==
  /\ \A o \in probes : o \in LogOrigins /\ o \notin config.all /\ discovered[o] # NoKey
  /\ \A o \in LogOrigins : polled[o] # NoKey => o \notin config.all /\ polled[o] = discovered[o]

(* Between the two writes of an entry the first has been made.             *)
StoringOK ==
  /\ fetcher.pc \in {"applying", "stored"} => fetcher.url \in Lists
  /\ fetcher.pc = "stored" =>
       /\ Current.key \in Verifiable
       /\ Current.origin \in LogOrigins => pushLogs[Current.origin] = Current.key

ListsInv == LogListsTypeOK /\ StoreOK /\ MonitorOK /\ StoringOK /\ StoredIsKnown

LEMMA ConfiguredIsListed ==
  ASSUME config \in Configurations, NEW o \in LogOrigins, o \notin config.all
  PROVE  ~IsStatic(o) /\ Lookup(o) = discovered[o]
BY LogListsAssumption DEF IsStatic, Lookup

LEMMA ListsInitOK == LogListsInit => ListsInv
<1>. SUFFICES ASSUME LogListsInit PROVE ListsInv
  OBVIOUS
<1>1. /\ config \in Configurations /\ pushLogs = NoKeys /\ discovered = NoKeys /\ polled = NoKeys
      /\ mentions = [o \in LogOrigins |-> {}] /\ vouched = [o \in LogOrigins |-> {}]
      /\ loaded = FALSE /\ probes = {} /\ fetcher = [pc |-> "starting"]
  BY LogListsAssumption DEF LogListsInit, NoKeys
<1>2. \A o \in LogOrigins : NoKeys[o] = NoKey
  BY DEF NoKeys
<1>3. NoKeys \in [LogOrigins -> LogKeys \cup {NoKey}]
  BY DEF NoKeys
<1>4. fetcher.pc = "starting"
  BY <1>1
<1>5. LogListsTypeOK
  BY <1>1, <1>3, <1>4 DEF LogListsTypeOK
<1>6. StoreOK /\ MonitorOK
  BY <1>1, <1>2 DEF StoreOK, MonitorOK
<1>7. StoringOK /\ StoredIsKnown
  BY <1>1, <1>4 DEF StoringOK, StoredIsKnown
<1>. QED
  BY <1>5, <1>6, <1>7 DEF ListsInv

(* Steps of the fetcher that leave the store and the registry alone.       *)
LEMMA FetcherMoves ==
  ASSUME ListsInv, UNCHANGED <<config, pushLogs, discovered, loaded, probes, polled, vouched>>,
         mentions' \in [LogOrigins -> SUBSET Lists],
         fetcher'.pc \in {"resting", "applying"}, fetcher'.pc = "applying" => fetcher'.url \in Lists,
         fetcher.pc # "stored"
  PROVE  ListsInv'
<1>1. LogListsTypeOK'
  BY DEF ListsInv, LogListsTypeOK
<1>2. StoreOK' /\ MonitorOK'
  BY DEF ListsInv, StoreOK, MonitorOK, IsStatic
<1>3. StoringOK' /\ StoredIsKnown'
  BY DEF ListsInv, StoringOK, StoredIsKnown, Lookup, IsStatic
<1>. QED
  BY <1>1, <1>2, <1>3 DEF ListsInv

LEMMA LoadAgainKeeps == ASSUME ListsInv, LoadAgain PROVE ListsInv'
<1>1. /\ LogListsTypeOK /\ StoreOK /\ MonitorOK /\ fetcher.pc = "starting" /\ fetcher'.pc = "resting"
      /\ UNCHANGED <<config, pushLogs, mentions, probes, polled, vouched>>
  BY DEF ListsInv, LoadAgain, FetcherRests
<1>2. PICK fails \in BOOLEAN :
        /\ loaded' = ~fails
        /\ discovered' = IF fails THEN discovered ELSE Load(config.static)
  BY DEF LoadAgain
<1>3. /\ pushLogs \in [LogOrigins -> LogKeys \cup {NoKey}] /\ discovered \in [LogOrigins -> LogKeys \cup {NoKey}]
  BY <1>1 DEF LogListsTypeOK
<1>4. CASE fails
  <2>1. discovered' = discovered /\ loaded' = FALSE
    BY <1>2, <1>4
  <2>2. LogListsTypeOK'
    BY <1>1, <2>1 DEF LogListsTypeOK
  <2>3. StoreOK' /\ MonitorOK'
    BY <1>1, <2>1 DEF StoreOK, MonitorOK, IsStatic
  <2>4. StoringOK' /\ StoredIsKnown'
    BY <1>1, <2>1 DEF StoringOK, StoredIsKnown
  <2>. QED
    BY <2>2, <2>3, <2>4 DEF ListsInv
<1>5. CASE ~fails
  <2>1. discovered' = Load(config.static) /\ loaded' = TRUE
    BY <1>2, <1>5
  <2>2. discovered' \in [LogOrigins -> LogKeys \cup {NoKey}]
    BY <1>3, <2>1 DEF Load
  <2>3. \A o \in LogOrigins :
          discovered'[o] = IF config.static[o] = NoKey /\ discovered[o] = NoKey /\ pushLogs[o] \in Verifiable
                           THEN pushLogs[o] ELSE discovered[o]
    BY <2>1 DEF Load
  <2>4. LogListsTypeOK'
    BY <1>1, <2>1, <2>2 DEF LogListsTypeOK
  <2>5. StoreOK'
    BY <1>1, <2>3 DEF StoreOK, IsStatic
  <2>6. MonitorOK'
    <3>1. \A o \in LogOrigins : discovered[o] # NoKey => discovered'[o] = discovered[o]
      BY <2>3
    <3>2. \A o \in LogOrigins : polled[o] # NoKey => discovered[o] # NoKey
      BY <1>1 DEF MonitorOK
    <3>. QED
      BY <1>1, <3>1, <3>2 DEF MonitorOK
  <2>7. StoringOK'
    BY <1>1 DEF StoringOK
  <2>8. StoredIsKnown'
    <3>. SUFFICES ASSUME NEW o \in LogOrigins, pushLogs[o] # NoKey PROVE Lookup(o)' # NoKey
      BY <1>1 DEF StoredIsKnown
    <3>1. pushLogs[o] \in Verifiable
      BY <1>1 DEF StoreOK
    <3>. QED
      BY <1>1, <2>3, <3>1 DEF Lookup, IsStatic
  <2>. QED
    BY <2>4, <2>5, <2>6, <2>7, <2>8 DEF ListsInv
<1>. QED
  BY <1>4, <1>5

LEMMA DownloadKeeps == ASSUME ListsInv, Download PROVE ListsInv'
<1>1. fetcher.pc = "resting"
  BY DEF Download, FetcherRests
<1>2. PICK url \in Lists : \E text \in Served :
        fetcher' = [pc |-> "applying", url |-> url, text |-> text, todo |-> Parse(text).entries]
  BY DEF Download
<1>3. fetcher'.pc = "applying" /\ fetcher'.url = url
  BY <1>2
<1>4. mentions' \in [LogOrigins -> SUBSET Lists]
  BY DEF Download, ListsInv, LogListsTypeOK
<1>. QED
  BY <1>1, <1>3, <1>4, FetcherMoves DEF Download

LEMMA ListAppliedKeeps == ASSUME ListsInv, ListApplied PROVE ListsInv'
<1>1. fetcher.pc = "applying" /\ fetcher'.pc = "resting"
  BY DEF ListApplied, FetcherRests
<1>2. mentions' \in [LogOrigins -> SUBSET Lists]
  BY DEF ListApplied, ListsInv, LogListsTypeOK
<1>. QED
  BY <1>1, <1>2, FetcherMoves DEF ListApplied

LEMMA MentionsStayTyped ==
  ASSUME ListsInv, fetcher.pc = "applying",
         mentions' = [mentions EXCEPT ![Current.origin] = @ \cup {fetcher.url}]
  PROVE  mentions' \in [LogOrigins -> SUBSET Lists]
<1>1. PICK o, url : o = Current.origin /\ url = fetcher.url
  OBVIOUS
<1>2. url \in Lists /\ mentions \in [LogOrigins -> SUBSET Lists]
  BY <1>1 DEF ListsInv, StoringOK, LogListsTypeOK
<1>3. mentions' = [mentions EXCEPT ![o] = @ \cup {url}]
  BY <1>1
<1>4. mentions' = [p \in LogOrigins |-> IF p = o THEN mentions[o] \cup {url} ELSE mentions[p]]
  BY <1>2, <1>3
<1>5. ASSUME NEW p \in LogOrigins
      PROVE  (IF p = o THEN mentions[o] \cup {url} ELSE mentions[p]) \in SUBSET Lists
  <2>1. mentions[p] \in SUBSET Lists
    BY <1>2
  <2>. QED
    BY <1>2, <2>1
<1>. QED
  BY <1>4, <1>5

LEMMA SkipEntryKeeps == ASSUME ListsInv, SkipEntry PROVE ListsInv'
<1>1. fetcher.pc = "applying" /\ fetcher'.pc = "applying" /\ fetcher'.url = fetcher.url
  BY DEF SkipEntry, Applying, NextEntry, FetcherAt
<1>2. mentions' \in [LogOrigins -> SUBSET Lists]
  BY <1>1, MentionsStayTyped DEF SkipEntry
<1>3. fetcher'.url \in Lists
  BY <1>1 DEF ListsInv, StoringOK
<1>. QED
  BY <1>1, <1>2, <1>3, FetcherMoves DEF SkipEntry

(* The first write: only where the store had nothing, and so neither had   *)
(* the registry, nor was anything vouched for.                             *)
LEMMA StoreEntryKeeps == ASSUME ListsInv, StoreEntry PROVE ListsInv'
<1>1. /\ LogListsTypeOK /\ StoreOK /\ MonitorOK /\ StoredIsKnown
      /\ fetcher.pc = "applying" /\ Current.key \in Verifiable /\ fetcher.url \in Lists
      /\ UNCHANGED <<config, discovered, loaded, probes, polled, vouched>>
  BY DEF ListsInv, StoreEntry, Applying, StoringOK
<1>2. mentions' \in [LogOrigins -> SUBSET Lists]
  BY <1>1, MentionsStayTyped DEF StoreEntry
<1>3. PICK fails \in BOOLEAN :
        /\ pushLogs' = IF fails THEN pushLogs ELSE AddPushLog.logs
        /\ fetcher' = IF ~fails /\ AddPushLog.stored THEN FetcherAt("stored", fetcher.todo)
                      ELSE NextEntry
  BY DEF StoreEntry
<1>4. PICK o, k : o = Current.origin /\ k = Current.key
  OBVIOUS
<1>5. CASE ~fails /\ pushLogs[o] = NoKey
  <2>1. AddPushLog = [stored |-> TRUE, logs |-> [pushLogs EXCEPT ![o] = k]]
    BY <1>4, <1>5 DEF AddPushLog
  <2>2. pushLogs' = [pushLogs EXCEPT ![o] = k] /\ fetcher' = FetcherAt("stored", fetcher.todo)
    BY <1>3, <1>5, <2>1
  <2>3. /\ fetcher'.pc = "stored" /\ fetcher'.url = fetcher.url /\ fetcher'.todo = fetcher.todo
        /\ Current' = Current
    BY <2>2 DEF FetcherAt, Current
  <2>4. k \in Verifiable /\ k \in LogKeys /\ k # NoKey /\ NoKey \notin LogKeys
    BY <1>1, <1>4, LogListsAssumption
  <2>5. pushLogs \in [LogOrigins -> LogKeys \cup {NoKey}]
    BY <1>1 DEF LogListsTypeOK
  <2>6. pushLogs' \in [LogOrigins -> LogKeys \cup {NoKey}]
    BY <2>2, <2>4, <2>5
  <2>7. \A p \in LogOrigins : pushLogs'[p] = IF p = o THEN k ELSE pushLogs[p]
    BY <2>2, <2>5
  <2>8. LogListsTypeOK'
    BY <1>1, <1>2, <2>3, <2>6 DEF LogListsTypeOK
  <2>9. StoreOK'
    <3>. SUFFICES ASSUME NEW p \in LogOrigins
                  PROVE  /\ pushLogs'[p] # NoKey => pushLogs'[p] \in Verifiable
                         /\ discovered[p] # NoKey => ~IsStatic(p) /\ discovered[p] = pushLogs'[p]
                         /\ vouched[p] \subseteq {pushLogs'[p]}
      BY <1>1 DEF StoreOK, IsStatic
    <3>1. CASE p = o
      <4>1. discovered[p] = NoKey
        BY <1>1, <1>5, <3>1 DEF StoreOK
      <4>2. vouched[p] \subseteq LogKeys /\ vouched[p] \subseteq {NoKey}
        BY <1>1, <1>5, <3>1 DEF StoreOK, LogListsTypeOK
      <4>3. vouched[p] = {}
        BY <2>4, <4>2
      <4>. QED
        BY <2>4, <2>7, <3>1, <4>1, <4>3
    <3>2. CASE p # o
      BY <1>1, <2>7, <3>2 DEF StoreOK
    <3>. QED
      BY <3>1, <3>2
  <2>10. MonitorOK'
    BY <1>1 DEF MonitorOK
  <2>11. StoringOK'
    BY <1>1, <1>4, <2>3, <2>4, <2>7 DEF StoringOK
  <2>12. StoredIsKnown'
    <3>. SUFFICES ASSUME loaded', NEW p \in LogOrigins, pushLogs'[p] # NoKey, Lookup(p)' = NoKey
                  PROVE  fetcher'.pc = "stored" /\ Current'.origin = p
      BY DEF StoredIsKnown
    <3>1. loaded /\ Lookup(p) = NoKey
      BY <1>1 DEF Lookup, IsStatic
    <3>2. p # o => pushLogs[p] # NoKey
      BY <2>7
    <3>3. p = o
      BY <1>1, <3>1, <3>2 DEF StoredIsKnown
    <3>. QED
      BY <1>4, <2>3, <3>3
  <2>. QED
    BY <2>8, <2>9, <2>10, <2>11, <2>12 DEF ListsInv
<1>6. CASE fails \/ pushLogs[o] # NoKey
  <2>1. pushLogs' = pushLogs /\ fetcher' = NextEntry
    <3>1. CASE fails
      BY <1>3, <3>1
    <3>2. CASE ~fails /\ pushLogs[o] # NoKey
      <4>1. AddPushLog = [stored |-> FALSE, logs |-> pushLogs]
        BY <1>4, <3>2 DEF AddPushLog
      <4>2. AddPushLog.logs = pushLogs /\ ~AddPushLog.stored
        BY <4>1
      <4>. QED
        BY <1>3, <3>2, <4>2
    <3>. QED
      BY <1>6, <3>1, <3>2
  <2>2. fetcher'.pc = "applying" /\ fetcher'.url = fetcher.url
    BY <2>1 DEF NextEntry, FetcherAt
  <2>. QED
    BY <1>1, <1>2, <2>1, <2>2, FetcherMoves
<1>. QED
  BY <1>5, <1>6

(* The second write.                                                       *)
LEMMA RegisterEntryKeeps == ASSUME ListsInv, RegisterEntry PROVE ListsInv'
<1>1. /\ LogListsTypeOK /\ StoreOK /\ MonitorOK /\ StoringOK /\ StoredIsKnown
      /\ fetcher.pc = "stored" /\ Current.key \in Verifiable /\ fetcher.url \in Lists
      /\ discovered' = RegistryAdd(Current.origin, Current.key) /\ fetcher' = NextEntry
      /\ UNCHANGED <<config, pushLogs, mentions, loaded, probes, polled, vouched>>
  BY DEF ListsInv, RegisterEntry, StoringOK
<1>2. PICK o, k : o = Current.origin /\ k = Current.key
  OBVIOUS
<1>3. k \in LogKeys /\ k # NoKey /\ (o \in LogOrigins => pushLogs[o] = k)
  BY <1>1, <1>2, LogListsAssumption DEF StoringOK
<1>4. fetcher'.pc = "applying" /\ fetcher'.url = fetcher.url
  BY <1>1 DEF NextEntry, FetcherAt
<1>5. discovered \in [LogOrigins -> LogKeys \cup {NoKey}]
  BY <1>1 DEF LogListsTypeOK
<1>6. discovered' = IF IsStatic(o) \/ discovered[o] # NoKey THEN discovered
                    ELSE [discovered EXCEPT ![o] = k]
  BY <1>1, <1>2 DEF RegistryAdd
<1>7. discovered' \in [LogOrigins -> LogKeys \cup {NoKey}]
  BY <1>3, <1>5, <1>6
<1>8. \A p \in LogOrigins : discovered'[p] = IF p = o /\ ~IsStatic(o) /\ discovered[o] = NoKey
                                             THEN k ELSE discovered[p]
  BY <1>5, <1>6
<1>9. LogListsTypeOK'
  BY <1>1, <1>4, <1>7 DEF LogListsTypeOK
<1>10. StoreOK'
  BY <1>1, <1>3, <1>8 DEF StoreOK, IsStatic
<1>11. MonitorOK'
  <2>1. \A p \in LogOrigins : discovered[p] # NoKey => discovered'[p] = discovered[p]
    BY <1>8
  <2>2. \A p \in LogOrigins : polled[p] # NoKey => discovered[p] # NoKey
    BY <1>1 DEF MonitorOK
  <2>. QED
    BY <1>1, <2>1, <2>2 DEF MonitorOK
<1>12. StoringOK'
  BY <1>1, <1>4 DEF StoringOK
<1>13. StoredIsKnown'
  <2>. SUFFICES ASSUME loaded', NEW p \in LogOrigins, pushLogs'[p] # NoKey, Lookup(p)' = NoKey
                PROVE  FALSE
    BY DEF StoredIsKnown
  <2>1. ~IsStatic(p) /\ discovered'[p] = NoKey
    BY <1>1 DEF Lookup, IsStatic
  <2>2. discovered[p] = NoKey /\ p # o
    BY <1>3, <1>8, <2>1
  <2>3. Lookup(p) = NoKey
    BY <2>1, <2>2 DEF Lookup
  <2>. QED
    BY <1>1, <1>2, <2>2, <2>3 DEF StoredIsKnown
<1>. QED
  BY <1>9, <1>10, <1>11, <1>12, <1>13 DEF ListsInv

LEMMA ProbePassKeeps == ASSUME ListsInv, ProbePass PROVE ListsInv'
<1>1. /\ probes' = Probeable
      /\ UNCHANGED <<config, pushLogs, discovered, mentions, loaded, fetcher, polled, vouched>>
  BY DEF ProbePass
<1>2. \A o \in Probeable : /\ o \in Nameable /\ o \in LogOrigins /\ o \notin config.all
                           /\ discovered[o] # NoKey
  BY DEF Probeable, Logs, Lookup
<1>3. LogListsTypeOK'
  BY <1>1, <1>2 DEF ListsInv, LogListsTypeOK
<1>4. StoreOK' /\ StoringOK' /\ StoredIsKnown'
  BY <1>1 DEF ListsInv, StoreOK, StoringOK, StoredIsKnown, Lookup, IsStatic, Current
<1>5. MonitorOK'
  BY <1>1, <1>2 DEF ListsInv, MonitorOK
<1>. QED
  BY <1>3, <1>4, <1>5 DEF ListsInv

LEMMA ProbeKeeps == ASSUME ListsInv, NEW o \in LogOrigins, Probe(o) PROVE ListsInv'
<1>1. /\ LogListsTypeOK /\ StoreOK /\ MonitorOK /\ o \in probes /\ probes' = probes \ {o}
      /\ UNCHANGED <<config, pushLogs, discovered, mentions, loaded, fetcher>>
  BY DEF ListsInv, Probe
<1>2. o \notin config.all /\ discovered[o] # NoKey /\ Lookup(o) = discovered[o]
  BY <1>1, ConfiguredIsListed DEF MonitorOK, LogListsTypeOK
<1>3. PICK signer \in LogKeys, tiles \in BOOLEAN :
        IF signer = Lookup(o) /\ tiles
        THEN /\ polled' = [polled EXCEPT ![o] = signer]
             /\ vouched' = [vouched EXCEPT ![o] = @ \cup {signer}]
        ELSE UNCHANGED <<polled, vouched>>
  BY DEF Probe
<1>4. /\ polled \in [LogOrigins -> LogKeys \cup {NoKey}] /\ vouched \in [LogOrigins -> SUBSET LogKeys]
  BY <1>1 DEF LogListsTypeOK
<1>5. /\ polled' \in [LogOrigins -> LogKeys \cup {NoKey}] /\ vouched' \in [LogOrigins -> SUBSET LogKeys]
      /\ \A p \in LogOrigins : polled'[p] = polled[p] \/ (p = o /\ polled'[p] = discovered[o])
      /\ \A p \in LogOrigins : vouched'[p] = vouched[p] \/ (p = o /\ vouched'[p] = vouched[o] \cup {discovered[o]})
  <2>1. CASE signer = Lookup(o) /\ tiles
    <3>1. /\ polled' = [polled EXCEPT ![o] = signer] /\ signer = discovered[o]
          /\ vouched' = [vouched EXCEPT ![o] = @ \cup {signer}]
      BY <1>2, <1>3, <2>1
    <3>. QED
      BY <1>4, <3>1
  <2>2. CASE ~ (signer = Lookup(o) /\ tiles)
    BY <1>3, <1>4, <2>2
  <2>. QED
    BY <2>1, <2>2
<1>6. LogListsTypeOK'
  BY <1>1, <1>5 DEF LogListsTypeOK
<1>7. StoreOK'
  BY <1>1, <1>2, <1>5 DEF StoreOK, IsStatic
<1>8. MonitorOK'
  BY <1>1, <1>2, <1>5 DEF MonitorOK
<1>9. StoringOK' /\ StoredIsKnown'
  BY <1>1 DEF ListsInv, StoringOK, StoredIsKnown, Lookup, IsStatic, Current
<1>. QED
  BY <1>6, <1>7, <1>8, <1>9 DEF ListsInv

LEMMA TakePushKeeps == ASSUME ListsInv, NEW o \in LogOrigins, TakePush(o) PROVE ListsInv'
<1>1. /\ LogListsTypeOK /\ StoreOK /\ MonitorOK
      /\ vouched' = [vouched EXCEPT ![o] = @ \cup {Lookup(o)}]
      /\ UNCHANGED <<config, pushLogs, discovered, mentions, loaded, fetcher, probes, polled>>
  BY DEF ListsInv, TakePush
<1>2. Lookup(o) = discovered[o] /\ discovered[o] # NoKey /\ discovered[o] = pushLogs[o]
  BY <1>1 DEF TakePush, Logs, Lookup, StoreOK
<1>3. vouched \in [LogOrigins -> SUBSET LogKeys] /\ discovered[o] \in LogKeys
  BY <1>1, <1>2 DEF LogListsTypeOK
<1>4. /\ vouched' \in [LogOrigins -> SUBSET LogKeys]
      /\ \A p \in LogOrigins : vouched'[p] = IF p = o THEN vouched[p] \cup {pushLogs[p]} ELSE vouched[p]
  BY <1>1, <1>2, <1>3
<1>5. LogListsTypeOK'
  BY <1>1, <1>4 DEF LogListsTypeOK
<1>6. StoreOK'
  BY <1>1, <1>4 DEF StoreOK, IsStatic
<1>7. MonitorOK' /\ StoringOK' /\ StoredIsKnown'
  BY <1>1 DEF ListsInv, MonitorOK, StoringOK, StoredIsKnown, Lookup, IsStatic, Current
<1>. QED
  BY <1>5, <1>6, <1>7 DEF ListsInv

(* A new process knows what is stored and verifies, or nothing yet.        *)
LEMMA ListRestartKeeps == ASSUME ListsInv, ListRestart PROVE ListsInv'
<1>1. /\ LogListsTypeOK /\ StoreOK /\ config' \in Configurations
      /\ mentions' = [o \in LogOrigins |-> {}] /\ loaded' = FALSE /\ fetcher'.pc = "starting"
      /\ probes' = {} /\ polled' = NoKeys /\ UNCHANGED <<pushLogs, vouched>>
  BY DEF ListsInv, ListRestart
<1>2. PICK fails \in BOOLEAN :
        discovered' = [o \in LogOrigins |->
            IF ~fails /\ config'.static[o] = NoKey /\ pushLogs[o] \in Verifiable
            THEN pushLogs[o] ELSE NoKey]
  BY DEF ListRestart
<1>3. \A o \in LogOrigins : polled'[o] = NoKey
  BY <1>1 DEF NoKeys
<1>4. \A o \in LogOrigins : /\ discovered'[o] \in {pushLogs[o], NoKey}
                            /\ discovered'[o] # NoKey => config'.static[o] = NoKey /\ discovered'[o] = pushLogs[o]
  BY <1>2
<1>5. discovered' \in [LogOrigins -> LogKeys \cup {NoKey}]
  <2>1. pushLogs \in [LogOrigins -> LogKeys \cup {NoKey}]
    BY <1>1 DEF LogListsTypeOK
  <2>. QED
    BY <1>2, <2>1
<1>6. LogListsTypeOK'
  <2>1. polled' \in [LogOrigins -> LogKeys \cup {NoKey}] /\ mentions' \in [LogOrigins -> SUBSET Lists]
    BY <1>1 DEF NoKeys
  <2>. QED
    BY <1>1, <1>5, <2>1 DEF LogListsTypeOK
<1>7. StoreOK'
  BY <1>1, <1>4 DEF StoreOK, IsStatic
<1>8. MonitorOK'
  BY <1>1, <1>3 DEF MonitorOK
<1>9. StoringOK' /\ StoredIsKnown'
  BY <1>1 DEF StoringOK, StoredIsKnown
<1>. QED
  BY <1>6, <1>7, <1>8, <1>9 DEF ListsInv

LEMMA ListsStep == ASSUME ListsInv, [LogListsNext]_listVars PROVE ListsInv'
<1>1. CASE UNCHANGED listVars
  <2>1. UNCHANGED <<config, pushLogs, discovered, mentions, loaded, fetcher, probes, polled, vouched>>
    BY <1>1 DEF listVars
  <2>2. LogListsTypeOK' /\ StoreOK' /\ MonitorOK'
    BY <2>1 DEF ListsInv, LogListsTypeOK, StoreOK, MonitorOK, IsStatic
  <2>3. StoringOK' /\ StoredIsKnown'
    BY <2>1 DEF ListsInv, StoringOK, StoredIsKnown, Lookup, IsStatic, Current
  <2>. QED
    BY <2>2, <2>3 DEF ListsInv
<1>2. CASE Fetching
  BY <1>2, LoadAgainKeeps, DownloadKeeps, SkipEntryKeeps, StoreEntryKeeps, RegisterEntryKeeps,
     ListAppliedKeeps DEF Fetching
<1>3. CASE ProbePass
  BY <1>3, ProbePassKeeps
<1>4. CASE \E o \in LogOrigins : Probe(o) \/ TakePush(o)
  BY <1>4, ProbeKeeps, TakePushKeeps
<1>5. CASE ListRestart
  BY <1>5, ListRestartKeeps
<1>. QED
  BY <1>1, <1>2, <1>3, <1>4, <1>5 DEF LogListsNext

LEMMA ListsInvMeans ==
  ASSUME ListsInv
  PROVE  LogListsTypeOK /\ KeysArePinned /\ StoredIsKnown /\ PolledOnce
<1>1. ASSUME NEW o \in LogOrigins PROVE Cardinality(vouched[o]) <= 1
  <2>1. vouched[o] \subseteq {pushLogs[o]}
    BY DEF ListsInv, StoreOK
  <2>2. IsFiniteSet({pushLogs[o]}) /\ Cardinality({pushLogs[o]}) = 1
    BY FS_Singleton
  <2>3. Cardinality(vouched[o]) <= Cardinality({pushLogs[o]})
    BY <2>1, <2>2, FS_Subset
  <2>. QED
    BY <2>2, <2>3
<1>2. PolledOnce
  BY ConfiguredIsListed DEF ListsInv, LogListsTypeOK, MonitorOK, PolledOnce
<1>. QED
  BY <1>1, <1>2 DEF ListsInv, KeysArePinned

(* Whatever lists say and however often the process starts again, with any *)
(* configuration and any failed read or write: a discovered log is only    *)
(* ever witnessed under the first key stored for it (AddPushLog), what is  *)
(* stored is known again once the fetcher's Load has succeeded, and the    *)
(* monitor polls no origin that is configured.                             *)
THEOREM KeysStayPinned ==
  LogListsSpec => [](LogListsTypeOK /\ KeysArePinned /\ StoredIsKnown /\ PolledOnce)
<1>1. ListsInv /\ [LogListsNext]_listVars => ListsInv'
  BY ListsStep
<1>2. ListsInv => LogListsTypeOK /\ KeysArePinned /\ StoredIsKnown /\ PolledOnce
  BY ListsInvMeans
<1>. QED
  BY ListsInitOK, <1>1, <1>2, PTL DEF LogListsSpec

-----------------------------------------------------------------------------
(* The parser: what a list comes to, line by line.                        *)

(* The parser after every line.                                            *)
IsReading(f, text) ==
  f = [n \in 0 .. Len(text) |-> IF n = 0 THEN Unread ELSE ReadLine(f[n - 1], text[n])]
(* The lines that are not blank, so far.                                   *)
IsKept(f, text) ==
  f = [n \in 0 .. Len(text) |->
         IF n = 0 THEN <<>>
         ELSE IF text[n] = Blank THEN f[n - 1] ELSE Append(f[n - 1], text[n])]
(* A list of logs written out, so far.                                     *)
IsSpelling(f, es, named) ==
  f = [n \in 0 .. Len(es) |-> IF n = 0 THEN <<Header>> ELSE f[n - 1] \o Written(es[n], n \in named)]

(* Such functions exist, by their least missing prefix.                    *)
LEMMA ReadingExists ==
  ASSUME NEW text, Len(text) \in Nat
  PROVE  \E f : IsReading(f, text)
<1>. DEFINE next(f, n) == ReadLine(f[n - 1], text[n])
            from(f, j) == f = [n \in 0 .. j |-> IF n = 0 THEN Unread ELSE next(f, n)]
            Missing == {j \in 0 .. Len(text) : ~ \E f : from(f, j)}
<1>1. CASE Missing = {}
  <2>1. Len(text) \in 0 .. Len(text)
    OBVIOUS
  <2>2. \E f : from(f, Len(text))
    <3>. HIDE DEF from
    <3>. QED
      BY <1>1, <2>1
  <2>. QED
    BY <2>2 DEF IsReading
<1>2. CASE Missing # {}
  <2>1. PICK j \in Missing : \A i \in Missing : j <= i
    <3>. HIDE DEF from
    <3>1. Missing \in SUBSET Nat
      OBVIOUS
    <3>. HIDE DEF Missing
    <3>. QED
      BY <1>2, <3>1, LeastNat
  <2>2. j \in 0 .. Len(text) /\ ~ \E f : from(f, j)
    <3>. HIDE DEF from
    <3>. QED
      BY <2>1
  <2>3. j # 0
    <3>1. 0 .. 0 = {0}
      OBVIOUS
    <3>2. from([n \in {0} |-> Unread], 0)
      BY <3>1
    <3>. HIDE DEF from
    <3>. QED
      BY <2>2, <3>2
  <2>4. PICK i \in 0 .. Len(text) : j = i + 1 /\ i \notin Missing
    <3>. HIDE DEF from
    <3>1. j \in 1 .. Len(text) /\ j - 1 \in 0 .. Len(text) /\ ~ (j <= j - 1) /\ j = (j - 1) + 1
      BY <2>2, <2>3
    <3>. HIDE DEF Missing
    <3>. QED
      BY <2>1, <3>1
  <2>5. PICK f : from(f, i)
    <3>. HIDE DEF from
    <3>. QED
      BY <2>4
  <2>. DEFINE g == [n \in 0 .. j |-> IF n = j THEN next(f, j) ELSE f[n]]
  <2>6. \A n \in 0 .. i : f[n] = IF n = 0 THEN Unread ELSE next(f, n)
    <3>. HIDE DEF next
    <3>. QED
      BY <2>5
  <2>7. g[j] = next(f, j) /\ \A n \in 0 .. i : g[n] = f[n] /\ n # j
    <3>. HIDE DEF next
    <3>. QED
      BY <2>2, <2>4
  <2>8. \A n \in 0 .. j : n # 0 => next(g, n) = next(f, n)
    <3>1. \A n \in 0 .. j : n # 0 => n - 1 \in 0 .. i
      BY <2>4
    <3>. HIDE DEF g
    <3>. QED
      BY <2>7, <3>1
  <2>9. \A n \in 0 .. j : g[n] = IF n = 0 THEN Unread ELSE next(g, n)
    <3>1. \A n \in 0 .. j : n = j \/ n \in 0 .. i
      BY <2>4
    <3>. HIDE DEF g, next
    <3>. QED
      BY <2>3, <2>6, <2>7, <2>8, <3>1
  <2>10. g = [n \in 0 .. j |-> g[n]]
    <3>. HIDE DEF next
    <3>. QED
      OBVIOUS
  <2>11. from(g, j)
    <3>. HIDE DEF g, next
    <3>. QED
      BY <2>9, <2>10
  <2>. HIDE DEF from
  <2>. QED
    BY <2>2, <2>11
<1>. QED
  BY <1>1, <1>2

LEMMA KeptExists ==
  ASSUME NEW text, Len(text) \in Nat
  PROVE  \E f : IsKept(f, text)
<1>. DEFINE next(f, n) == IF text[n] = Blank THEN f[n - 1] ELSE Append(f[n - 1], text[n])
            from(f, j) == f = [n \in 0 .. j |-> IF n = 0 THEN <<>> ELSE next(f, n)]
            Missing == {j \in 0 .. Len(text) : ~ \E f : from(f, j)}
<1>1. CASE Missing = {}
  <2>1. Len(text) \in 0 .. Len(text)
    OBVIOUS
  <2>2. \E f : from(f, Len(text))
    <3>. HIDE DEF from
    <3>. QED
      BY <1>1, <2>1
  <2>. QED
    BY <2>2 DEF IsKept
<1>2. CASE Missing # {}
  <2>1. PICK j \in Missing : \A i \in Missing : j <= i
    <3>. HIDE DEF from
    <3>1. Missing \in SUBSET Nat
      OBVIOUS
    <3>. HIDE DEF Missing
    <3>. QED
      BY <1>2, <3>1, LeastNat
  <2>2. j \in 0 .. Len(text) /\ ~ \E f : from(f, j)
    <3>. HIDE DEF from
    <3>. QED
      BY <2>1
  <2>3. j # 0
    <3>1. 0 .. 0 = {0}
      OBVIOUS
    <3>2. from([n \in {0} |-> <<>>], 0)
      BY <3>1
    <3>. HIDE DEF from
    <3>. QED
      BY <2>2, <3>2
  <2>4. PICK i \in 0 .. Len(text) : j = i + 1 /\ i \notin Missing
    <3>. HIDE DEF from
    <3>1. j \in 1 .. Len(text) /\ j - 1 \in 0 .. Len(text) /\ ~ (j <= j - 1) /\ j = (j - 1) + 1
      BY <2>2, <2>3
    <3>. HIDE DEF Missing
    <3>. QED
      BY <2>1, <3>1
  <2>5. PICK f : from(f, i)
    <3>. HIDE DEF from
    <3>. QED
      BY <2>4
  <2>. DEFINE g == [n \in 0 .. j |-> IF n = j THEN next(f, j) ELSE f[n]]
  <2>6. \A n \in 0 .. i : f[n] = IF n = 0 THEN <<>> ELSE next(f, n)
    <3>. HIDE DEF next
    <3>. QED
      BY <2>5
  <2>7. g[j] = next(f, j) /\ \A n \in 0 .. i : g[n] = f[n] /\ n # j
    <3>. HIDE DEF next
    <3>. QED
      BY <2>2, <2>4
  <2>8. \A n \in 0 .. j : n # 0 => next(g, n) = next(f, n)
    <3>1. \A n \in 0 .. j : n # 0 => n - 1 \in 0 .. i
      BY <2>4
    <3>. HIDE DEF g
    <3>. QED
      BY <2>7, <3>1
  <2>9. \A n \in 0 .. j : g[n] = IF n = 0 THEN <<>> ELSE next(g, n)
    <3>1. \A n \in 0 .. j : n = j \/ n \in 0 .. i
      BY <2>4
    <3>. HIDE DEF g, next
    <3>. QED
      BY <2>3, <2>6, <2>7, <2>8, <3>1
  <2>10. g = [n \in 0 .. j |-> g[n]]
    <3>. HIDE DEF next
    <3>. QED
      OBVIOUS
  <2>11. from(g, j)
    <3>. HIDE DEF g, next
    <3>. QED
      BY <2>9, <2>10
  <2>. HIDE DEF from
  <2>. QED
    BY <2>2, <2>11
<1>. QED
  BY <1>1, <1>2

LEMMA SpellingExists ==
  ASSUME NEW es, NEW named, Len(es) \in Nat
  PROVE  \E f : IsSpelling(f, es, named)
<1>. DEFINE next(f, n) == f[n - 1] \o Written(es[n], n \in named)
            from(f, j) == f = [n \in 0 .. j |-> IF n = 0 THEN <<Header>> ELSE next(f, n)]
            Missing == {j \in 0 .. Len(es) : ~ \E f : from(f, j)}
<1>1. CASE Missing = {}
  <2>1. Len(es) \in 0 .. Len(es)
    OBVIOUS
  <2>2. \E f : from(f, Len(es))
    <3>. HIDE DEF from
    <3>. QED
      BY <1>1, <2>1
  <2>. QED
    BY <2>2 DEF IsSpelling
<1>2. CASE Missing # {}
  <2>1. PICK j \in Missing : \A i \in Missing : j <= i
    <3>. HIDE DEF from
    <3>1. Missing \in SUBSET Nat
      OBVIOUS
    <3>. HIDE DEF Missing
    <3>. QED
      BY <1>2, <3>1, LeastNat
  <2>2. j \in 0 .. Len(es) /\ ~ \E f : from(f, j)
    <3>. HIDE DEF from
    <3>. QED
      BY <2>1
  <2>3. j # 0
    <3>1. 0 .. 0 = {0}
      OBVIOUS
    <3>2. from([n \in {0} |-> <<Header>>], 0)
      BY <3>1
    <3>. HIDE DEF from
    <3>. QED
      BY <2>2, <3>2
  <2>4. PICK i \in 0 .. Len(es) : j = i + 1 /\ i \notin Missing
    <3>. HIDE DEF from
    <3>1. j \in 1 .. Len(es) /\ j - 1 \in 0 .. Len(es) /\ ~ (j <= j - 1) /\ j = (j - 1) + 1
      BY <2>2, <2>3
    <3>. HIDE DEF Missing
    <3>. QED
      BY <2>1, <3>1
  <2>5. PICK f : from(f, i)
    <3>. HIDE DEF from
    <3>. QED
      BY <2>4
  <2>. DEFINE g == [n \in 0 .. j |-> IF n = j THEN next(f, j) ELSE f[n]]
  <2>6. \A n \in 0 .. i : f[n] = IF n = 0 THEN <<Header>> ELSE next(f, n)
    <3>. HIDE DEF next
    <3>. QED
      BY <2>5
  <2>7. g[j] = next(f, j) /\ \A n \in 0 .. i : g[n] = f[n] /\ n # j
    <3>. HIDE DEF next
    <3>. QED
      BY <2>2, <2>4
  <2>8. \A n \in 0 .. j : n # 0 => next(g, n) = next(f, n)
    <3>1. \A n \in 0 .. j : n # 0 => n - 1 \in 0 .. i
      BY <2>4
    <3>. HIDE DEF g
    <3>. QED
      BY <2>7, <3>1
  <2>9. \A n \in 0 .. j : g[n] = IF n = 0 THEN <<Header>> ELSE next(g, n)
    <3>1. \A n \in 0 .. j : n = j \/ n \in 0 .. i
      BY <2>4
    <3>. HIDE DEF g, next
    <3>. QED
      BY <2>3, <2>6, <2>7, <2>8, <3>1
  <2>10. g = [n \in 0 .. j |-> g[n]]
    <3>. HIDE DEF next
    <3>. QED
      OBVIOUS
  <2>11. from(g, j)
    <3>. HIDE DEF g, next
    <3>. QED
      BY <2>9, <2>10
  <2>. HIDE DEF from
  <2>. QED
    BY <2>2, <2>11
<1>. QED
  BY <1>1, <1>2

(* Parse, NonBlank and Spelled are the last values of theirs.              *)
LEMMA ParseIsAReading ==
  ASSUME NEW text, Len(text) \in Nat
  PROVE  \E f : /\ IsReading(f, text)
                /\ Parse(text) = [ok |-> f[Len(text)].ok /\ f[Len(text)].header /\ f[Len(text)].cur = NoEntry,
                                  entries |-> f[Len(text)].out]
<1>1. \E f : IsReading(f, text)
  BY ReadingExists
<1>. DEFINE reading == CHOOSE f : IsReading(f, text)
<1>2. IsReading(reading, text)
  BY <1>1
<1>3. Parse(text) = [ok |-> reading[Len(text)].ok /\ reading[Len(text)].header /\ reading[Len(text)].cur = NoEntry,
                     entries |-> reading[Len(text)].out]
  BY Zenon DEF Parse, IsReading
<1>. QED
  BY <1>2, <1>3

LEMMA NonBlankIsKept ==
  ASSUME NEW text, Len(text) \in Nat
  PROVE  \E f : IsKept(f, text) /\ NonBlank(text) = f[Len(text)]
BY KeptExists, Zenon DEF NonBlank, IsKept

LEMMA SpelledIsASpelling ==
  ASSUME NEW es, NEW named, Len(es) \in Nat
  PROVE  \E f : IsSpelling(f, es, named) /\ Spelled(es, named) = f[Len(es)]
BY SpellingExists, Zenon DEF Spelled, IsSpelling

(* The lines there are.                                                    *)
TextLines ==
  {Blank, Header, Line("qpd", ""), Line("contact", "")}
    \cup {Line("vkey", k) : k \in LogKeys} \cup {Line("origin", o) : o \in LogOrigins}

(* An entry written out is lines.                                          *)
LEMMA WrittenIsText ==
  ASSUME NEW e \in ListEntry, NEW by \in BOOLEAN
  PROVE  /\ Opening(e, by) \in Seq(TextLines) /\ Written(e, by) \in Seq(TextLines)
         /\ <<Header>> \in Seq(TextLines)
         /\ <<Line("qpd", "")>> \in Seq(TextLines) /\ <<Line("contact", "")>> \in Seq(TextLines)
<1>. DEFINE T == TextLines
<1>1. /\ Line("vkey", e.key) \in T /\ Line("origin", e.origin) \in T /\ Header \in T
      /\ Line("qpd", "") \in T /\ Line("contact", "") \in T
  BY DEF TextLines, ListEntry
<1>. HIDE DEF T
<1>2. /\ <<Line("vkey", e.key)>> \in Seq(T) /\ <<Line("origin", e.origin)>> \in Seq(T)
      /\ <<Line("qpd", ""), Line("contact", "")>> \in Seq(T) /\ <<>> \in Seq(T)
      /\ <<Header>> \in Seq(T) /\ <<Line("qpd", "")>> \in Seq(T) /\ <<Line("contact", "")>> \in Seq(T)
  <2>1. \A U : \A a, b \in U : <<a>> \in Seq(U) /\ <<a, b>> \in Seq(U) /\ <<>> \in Seq(U)
    OBVIOUS
  <2>. QED
    BY <1>1, <2>1, Zenon
<1>3. (IF by THEN <<Line("origin", e.origin)>> ELSE <<>>) \in Seq(T)
  BY <1>2
<1>4. Opening(e, by) \in Seq(T)
  BY <1>2, <1>3, ConcatProperties DEF Opening
<1>5. Written(e, by) \in Seq(T)
  BY <1>2, <1>4, ConcatProperties DEF Written
<1>. QED
  BY <1>2, <1>4, <1>5 DEF T

(* A list written out is lines.                                            *)
LEMMA SpellingIsText ==
  ASSUME NEW es \in Seq(ListEntry), NEW named, NEW f, IsSpelling(f, es, named), NEW n \in 0 .. Len(es)
  PROVE  f[n] \in Seq(TextLines)
<1>. DEFINE Bad == {m \in 0 .. Len(es) : f[m] \notin Seq(TextLines)}
<1>1. Len(es) \in Nat /\ \A m \in 1 .. Len(es) : es[m] \in ListEntry
  OBVIOUS
<1>2. \A m \in 0 .. Len(es) : f[m] = IF m = 0 THEN <<Header>> ELSE f[m - 1] \o Written(es[m], m \in named)
  BY DEF IsSpelling
<1>3. CASE Bad # {}
  <2>1. PICK m \in Bad : \A k \in Bad : m <= k
    <3>1. Bad \in SUBSET Nat
      BY <1>1
    <3>. HIDE DEF Bad
    <3>. QED
      BY <1>3, <3>1, LeastNat
  <2>2. m \in 0 .. Len(es) /\ f[m] \notin Seq(TextLines)
    BY <2>1
  <2>3. CASE m = 0
    <3>1. <<Header>> \in Seq(TextLines)
      <4>1. Header \in TextLines
        BY DEF TextLines
      <4>. QED
        BY <4>1
    <3>. QED
      BY <1>2, <2>2, <2>3, <3>1
  <2>4. CASE m # 0
    <3>1. m - 1 \in 0 .. Len(es) /\ ~ (m <= m - 1) /\ m \in 1 .. Len(es)
      BY <1>1, <2>2, <2>4
    <3>2. m - 1 \notin Bad
      <4>. HIDE DEF Bad
      <4>. QED
        BY <2>1, <3>1
    <3>3. f[m - 1] \in Seq(TextLines)
      BY <3>1, <3>2
    <3>4. Written(es[m], m \in named) \in Seq(TextLines)
      <4>1. PICK e \in ListEntry, by \in BOOLEAN : e = es[m] /\ by = (m \in named)
        <5>1. (m \in named) \in BOOLEAN /\ es[m] \in ListEntry
          BY <1>1, <3>1
        <5>. QED
          BY <5>1, Zenon
      <4>2. Written(e, by) \in Seq(TextLines)
        BY WrittenIsText
      <4>. QED
        BY <4>1, <4>2
    <3>. QED
      BY <1>2, <2>2, <2>4, <3>3, <3>4, ConcatProperties
  <2>. QED
    BY <2>3, <2>4
<1>4. CASE Bad = {}
  BY <1>4
<1>. QED
  BY <1>3, <1>4

LEMMA SpelledIsText ==
  ASSUME NEW es \in Seq(ListEntry), NEW named
  PROVE  Spelled(es, named) \in Seq(TextLines)
<1>1. Len(es) \in Nat /\ Len(es) \in 0 .. Len(es)
  OBVIOUS
<1>. QED
  BY <1>1, SpelledIsASpelling, SpellingIsText

(* One entry more.                                                         *)
LEMMA SpelledGrows ==
  ASSUME NEW es \in Seq(ListEntry), NEW named \in SUBSET DOMAIN es, NEW e \in ListEntry, NEW by \in BOOLEAN,
         NEW more, more = IF by THEN named \cup {Len(es) + 1} ELSE named
  PROVE  Spelled(Append(es, e), more) = Spelled(es, named) \o Written(e, by)
<1>1. PICK n \in Nat : n = Len(es)
  OBVIOUS
<1>2. PICK fs : fs = Append(es, e)
  OBVIOUS
<1>3. fs \in Seq(ListEntry) /\ Len(fs) = n + 1 /\ fs[n + 1] = e /\ \A m \in 1 .. n : fs[m] = es[m]
  BY <1>1, <1>2
<1>4. PICK f : IsSpelling(f, es, named) /\ Spelled(es, named) = f[n]
  BY <1>1, SpelledIsASpelling
<1>5. PICK g : IsSpelling(g, fs, more) /\ Spelled(fs, more) = g[n + 1]
  BY <1>3, SpelledIsASpelling
<1>6. \A m \in 0 .. n : f[m] = IF m = 0 THEN <<Header>> ELSE f[m - 1] \o Written(es[m], m \in named)
  BY <1>1, <1>4 DEF IsSpelling
<1>7. \A m \in 0 .. n + 1 : g[m] = IF m = 0 THEN <<Header>> ELSE g[m - 1] \o Written(fs[m], m \in more)
  BY <1>3, <1>5 DEF IsSpelling
<1>8. /\ \A m \in 1 .. n : (m \in named) = (m \in more)
      /\ (n + 1 \in more) = by
  <2>1. DOMAIN es = 1 .. n /\ n + 1 \notin 1 .. n /\ \A m \in 1 .. n : m # n + 1
    BY <1>1
  <2>. QED
    BY <1>1, <2>1
<1>. DEFINE Bad == {m \in 0 .. n : f[m] # g[m]}
<1>9. CASE Bad # {}
  <2>1. PICK m \in Bad : \A k \in Bad : m <= k
    <3>1. Bad \in SUBSET Nat
      BY <1>1
    <3>. HIDE DEF Bad
    <3>. QED
      BY <1>9, <3>1, LeastNat
  <2>2. m \in 0 .. n /\ m \in 0 .. n + 1 /\ f[m] # g[m]
    BY <2>1
  <2>3. m # 0
    BY <1>6, <1>7, <2>2
  <2>4. m - 1 \in 0 .. n /\ ~ (m <= m - 1) /\ m \in 1 .. n
    BY <2>2, <2>3
  <2>5. m - 1 \notin Bad
    <3>. HIDE DEF Bad
    <3>. QED
      BY <2>1, <2>4
  <2>6. f[m - 1] = g[m - 1] /\ es[m] = fs[m]
    BY <1>3, <2>4, <2>5
  <2>7. f[m] = f[m - 1] \o Written(es[m], m \in named) /\ g[m] = g[m - 1] \o Written(fs[m], m \in more)
    BY <1>6, <1>7, <2>2, <2>3
  <2>8. Written(es[m], m \in named) = Written(fs[m], m \in more)
    BY <1>8, <2>4, <2>6
  <2>. QED
    BY <2>2, <2>6, <2>7, <2>8
<1>10. CASE Bad = {}
  <2>1. n \in 0 .. n /\ n + 1 \in 0 .. n + 1 /\ n + 1 # 0 /\ (n + 1) - 1 = n
    OBVIOUS
  <2>2. f[n] = g[n]
    BY <1>10, <2>1
  <2>3. g[n + 1] = g[(n + 1) - 1] \o Written(fs[n + 1], n + 1 \in more)
    BY <1>7, <2>1
  <2>4. Written(fs[n + 1], n + 1 \in more) = Written(e, by)
    BY <1>3, <1>8
  <2>. QED
    BY <1>2, <1>4, <1>5, <2>1, <2>2, <2>3, <2>4
<1>. QED
  BY <1>9, <1>10

(* What the parser holds: the lines so far are the header, the entries that*)
(* are done and the beginning of one that is not.                          *)
Wants == {"vkey", "origin-or-qpd", "qpd", "contact"}
Parsers == [ok : BOOLEAN, header : BOOLEAN, out : Seq(ListEntry),
            cur : ListEntry \cup {NoEntry}, want : Wants]
OwnName(e) == e.origin = NameOf[e.key]
Owes(out, named) == \A i \in DOMAIN out \ named : OwnName(out[i])
OncePerOrigin(out) == \A i, j \in DOMAIN out : out[i].origin = out[j].origin => i = j
Begun(p, by) ==
  CASE p.want = "vkey" -> <<>>
    [] p.want \in {"origin-or-qpd", "qpd"} -> Opening(p.cur, by)
    [] OTHER -> Opening(p.cur, by) \o <<Line("qpd", "")>>
InEntry(p, by) ==
  /\ p.want = "vkey" <=> p.cur = NoEntry
  /\ p.want # "vkey" => by \/ OwnName(p.cur)
  /\ p.want = "origin-or-qpd" => ~ by
  /\ p.want = "qpd" => by
Told(p, kept) ==
  IF ~ p.header THEN p = Unread /\ kept = <<>>
  ELSE \E named \in SUBSET DOMAIN p.out, by \in BOOLEAN :
         Owes(p.out, named) /\ InEntry(p, by) /\ kept = Spelled(p.out, named) \o Begun(p, by)
Understood(p, kept) == p \in Parsers /\ p.ok /\ OncePerOrigin(p.out) /\ kept \in Seq(TextLines) /\ Told(p, kept)

(* An entry is never the lack of one.                                      *)
LEMMA EntriesAreSome ==
  /\ NoEntry \notin ListEntry
  /\ \A k \in LogKeys : [key |-> k, origin |-> NameOf[k]] \in ListEntry
<1>1. NoEntry \notin ListEntry
  BY LogListsAssumption DEF NoEntry, ListEntry
<1>2. \A k \in LogKeys : [key |-> k, origin |-> NameOf[k]] \in ListEntry
  BY LogListsAssumption DEF ListEntry
<1>. QED
  BY <1>1, <1>2

(* The header, read once and first.                                        *)
LEMMA ReadsHeader ==
  ASSUME NEW p, NEW kept, Understood(p, kept), NEW l \in TextLines, l = Header, ReadLine(p, l).ok
  PROVE  Understood(ReadLine(p, l), Append(kept, l))
<1>1. l.kw = "header" /\ l # Blank
  BY DEF Header, Line, Blank
<1>2. ~ p.header
  BY <1>1 DEF ReadLine, RefusedText, Understood
<1>3. p = Unread /\ kept = <<>>
  BY <1>2 DEF Understood, Told
<1>4. PICK q : q = ReadLine(p, l)
  OBVIOUS
<1>5. q = [ok |-> TRUE, header |-> TRUE, out |-> <<>>, cur |-> NoEntry, want |-> "vkey"]
  BY <1>1, <1>2, <1>3, <1>4 DEF ReadLine, Unread, RefusedText
<1>6. q \in Parsers /\ q.ok /\ OncePerOrigin(q.out)
  BY <1>5 DEF Parsers, Wants, OncePerOrigin
<1>7. Spelled(<<>>, {}) = <<Header>>
  <2>1. Len(<<>>) = 0
    OBVIOUS
  <2>2. PICK f : IsSpelling(f, <<>>, {}) /\ Spelled(<<>>, {}) = f[0]
    BY <2>1, SpelledIsASpelling
  <2>. QED
    BY <2>1, <2>2 DEF IsSpelling
<1>8. Append(kept, l) = <<Header>> /\ <<Header>> \in Seq(TextLines)
  BY <1>3
<1>9. Append(kept, l) = Spelled(q.out, {}) \o Begun(q, FALSE)
  <2>1. <<Header>> \o <<>> = <<Header>>
    BY <1>8, ConcatEmptySeq
  <2>. QED
    BY <1>5, <1>7, <1>8, <2>1 DEF Begun
<1>10. Owes(q.out, {}) /\ InEntry(q, FALSE) /\ {} \in SUBSET DOMAIN q.out
  BY <1>5 DEF Owes, InEntry
<1>11. Told(q, Append(kept, l))
  BY <1>5, <1>9, <1>10 DEF Told
<1>. QED
  BY <1>4, <1>6, <1>8, <1>11 DEF Understood

(* A line of an entry.                                                     *)
LEMMA InsideAnEntry ==
  ASSUME NEW p, NEW kept, Understood(p, kept), NEW l \in TextLines, l # Blank, l # Header, ReadLine(p, l).ok
  PROVE  /\ p.header /\ p \in Parsers /\ OncePerOrigin(p.out) /\ kept \in Seq(TextLines)
         /\ Append(kept, l) = kept \o <<l>> /\ Append(kept, l) \in Seq(TextLines) /\ <<l>> \in Seq(TextLines)
         /\ \E named \in SUBSET DOMAIN p.out, by \in BOOLEAN :
              Owes(p.out, named) /\ InEntry(p, by) /\ kept = Spelled(p.out, named) \o Begun(p, by)
         /\ \/ p.want = "vkey" /\ l.kw = "vkey"
            \/ p.want = "origin-or-qpd" /\ l.kw = "origin"
            \/ p.want \in {"origin-or-qpd", "qpd"} /\ l.kw = "qpd"
            \/ p.want = "contact" /\ l.kw = "contact" /\ ~ Listed(p.out, p.cur.origin)
<1>1. /\ p.header
      /\ \/ p.want = "vkey" /\ l.kw = "vkey"
         \/ p.want = "origin-or-qpd" /\ l.kw = "origin"
         \/ p.want \in {"origin-or-qpd", "qpd"} /\ l.kw = "qpd"
         \/ p.want = "contact" /\ l.kw = "contact" /\ ~ Listed(p.out, p.cur.origin)
  BY DEF ReadLine, RefusedText, Understood
<1>2. \A S : \A s \in Seq(S), x \in S : Append(s, x) = s \o <<x>> /\ Append(s, x) \in Seq(S) /\ <<x>> \in Seq(S)
  OBVIOUS
<1>3. kept \in Seq(TextLines)
  BY DEF Understood
<1>4. Append(kept, l) = kept \o <<l>> /\ Append(kept, l) \in Seq(TextLines) /\ <<l>> \in Seq(TextLines)
  BY <1>2, <1>3
<1>. QED
  BY <1>1, <1>3, <1>4 DEF Understood, Told

(* A line that is neither blank nor the header says by its keyword what it *)
(* is.                                                                     *)
LEMMA LinesAreTold ==
  ASSUME NEW l \in TextLines, l # Blank, l # Header
  PROVE  /\ l.kw = "vkey" => \E k \in LogKeys : l = Line("vkey", k) /\ l.is = k
         /\ l.kw = "origin" => \E o \in LogOrigins : l = Line("origin", o) /\ l.is = o
         /\ l.kw = "qpd" => l = Line("qpd", "")
         /\ l.kw = "contact" => l = Line("contact", "")
<1>1. \A a, b : Line(a, b).kw = a /\ Line(a, b).is = b
  BY DEF Line
<1>2. \/ \E k \in LogKeys : l = Line("vkey", k)
      \/ \E o \in LogOrigins : l = Line("origin", o)
      \/ l = Line("qpd", "")
      \/ l = Line("contact", "")
  BY Zenon DEF TextLines
<1>3. CASE \E k \in LogKeys : l = Line("vkey", k)
  <2>1. PICK k \in LogKeys : l = Line("vkey", k)
    BY <1>3
  <2>2. l.kw = "vkey" /\ l.is = k
    BY <1>1, <2>1, Zenon
  <2>. QED
    BY <2>1, <2>2
<1>4. CASE \E o \in LogOrigins : l = Line("origin", o)
  <2>1. PICK o \in LogOrigins : l = Line("origin", o)
    BY <1>4
  <2>2. l.kw = "origin" /\ l.is = o
    BY <1>1, <2>1, Zenon
  <2>. QED
    BY <2>1, <2>2
<1>5. CASE l = Line("qpd", "")
  <2>1. l.kw = "qpd"
    BY <1>1, <1>5, Zenon
  <2>. QED
    BY <1>5, <2>1
<1>6. CASE l = Line("contact", "")
  <2>1. l.kw = "contact"
    BY <1>1, <1>6, Zenon
  <2>. QED
    BY <1>6, <2>1
<1>. QED
  BY <1>2, <1>3, <1>4, <1>5, <1>6

(* A vkey line begins an entry, whose origin is the key's own name.         *)
LEMMA ReadsKey ==
  ASSUME NEW p, NEW kept, Understood(p, kept), NEW l \in TextLines, l # Blank, l # Header,
         ReadLine(p, l).ok, l.kw = "vkey"
  PROVE  Understood(ReadLine(p, l), Append(kept, l))
<1>1. PICK q : q = ReadLine(p, l)
  OBVIOUS
<1>2. p.header /\ p \in Parsers /\ OncePerOrigin(p.out) /\ p.want = "vkey" /\ p.ok
  BY InsideAnEntry DEF Understood
<1>3. PICK k \in LogKeys : l = Line("vkey", k) /\ l.is = k
  BY LinesAreTold, Zenon
<1>4. PICK e : e = [key |-> k, origin |-> NameOf[k]]
  OBVIOUS
<1>5. e \in ListEntry /\ e # NoEntry /\ OwnName(e) /\ e.key = k
  BY <1>4, EntriesAreSome DEF OwnName
<1>6. q = [p EXCEPT !.cur = e, !.want = "origin-or-qpd"]
  BY <1>1, <1>2, <1>3, <1>4 DEF ReadLine
<1>7. /\ q \in Parsers /\ q.ok /\ q.header /\ q.out = p.out /\ q.cur = e /\ q.want = "origin-or-qpd"
  BY <1>2, <1>5, <1>6 DEF Parsers, Wants
<1>8. PICK named \in SUBSET DOMAIN p.out, by \in BOOLEAN :
        Owes(p.out, named) /\ InEntry(p, by) /\ kept = Spelled(p.out, named) \o Begun(p, by)
  BY InsideAnEntry
<1>9. PICK t : t = Spelled(p.out, named)
  OBVIOUS
<1>10. t \in Seq(TextLines) /\ kept = t
  <2>1. t \in Seq(TextLines)
    BY <1>2, <1>9, SpelledIsText DEF Parsers
  <2>2. Begun(p, by) = <<>>
    BY <1>2 DEF Begun
  <2>. QED
    BY <1>8, <1>9, <2>1, <2>2, ConcatEmptySeq
<1>11. Opening(e, FALSE) = <<l>>
  <2>1. <<l>> \in Seq(TextLines)
    BY InsideAnEntry
  <2>2. Opening(e, FALSE) = <<l>> \o <<>>
    BY <1>3, <1>5 DEF Opening
  <2>. QED
    BY <2>1, <2>2, ConcatEmptySeq
<1>12. Append(kept, l) = Spelled(q.out, named) \o Begun(q, FALSE)
  <2>1. Append(kept, l) = kept \o <<l>>
    BY InsideAnEntry
  <2>2. Begun(q, FALSE) = <<l>>
    BY <1>7, <1>11 DEF Begun
  <2>. QED
    BY <1>7, <1>9, <1>10, <2>1, <2>2
<1>13. Owes(q.out, named) /\ InEntry(q, FALSE) /\ named \in SUBSET DOMAIN q.out
  BY <1>5, <1>7, <1>8 DEF InEntry
<1>14. Told(q, Append(kept, l))
  BY <1>7, <1>12, <1>13 DEF Told
<1>. QED
  BY <1>1, <1>2, <1>7, <1>14, InsideAnEntry DEF Understood

(* An origin line names the entry begun.                                   *)
LEMMA ReadsOrigin ==
  ASSUME NEW p, NEW kept, Understood(p, kept), NEW l \in TextLines, l # Blank, l # Header,
         ReadLine(p, l).ok, l.kw = "origin"
  PROVE  Understood(ReadLine(p, l), Append(kept, l))
<1>1. PICK q : q = ReadLine(p, l)
  OBVIOUS
<1>2. p.header /\ p \in Parsers /\ OncePerOrigin(p.out) /\ p.want = "origin-or-qpd" /\ p.ok
  BY InsideAnEntry DEF Understood
<1>3. PICK o \in LogOrigins : l = Line("origin", o) /\ l.is = o
  BY LinesAreTold, Zenon
<1>4. PICK named \in SUBSET DOMAIN p.out, by \in BOOLEAN :
        Owes(p.out, named) /\ InEntry(p, by) /\ kept = Spelled(p.out, named) \o Begun(p, by)
  BY InsideAnEntry
<1>5. p.cur \in ListEntry /\ by = FALSE
  BY <1>2, <1>4 DEF InEntry, Parsers
<1>6. PICK e : e = [p.cur EXCEPT !.origin = o]
  OBVIOUS
<1>7. e \in ListEntry /\ e # NoEntry /\ e.key = p.cur.key /\ e.origin = o
  <2>1. e \in ListEntry /\ e.key = p.cur.key /\ e.origin = o
    BY <1>5, <1>6 DEF ListEntry
  <2>. QED
    BY <2>1, EntriesAreSome
<1>8. q = [p EXCEPT !.cur = e, !.want = "qpd"]
  <2>1. q = [p EXCEPT !.cur.origin = o, !.want = "qpd"]
    BY <1>1, <1>2, <1>3 DEF ReadLine
  <2>2. [p EXCEPT !.cur.origin = o] = [p EXCEPT !.cur = e]
    BY <1>2, <1>6 DEF Parsers
  <2>. QED
    BY <2>1, <2>2
<1>9. q \in Parsers /\ q.ok /\ q.header /\ q.out = p.out /\ q.cur = e /\ q.want = "qpd"
  BY <1>2, <1>7, <1>8 DEF Parsers, Wants
<1>10. PICK t : t = Spelled(p.out, named)
  OBVIOUS
<1>11. PICK a : a = <<Line("vkey", e.key)>>
  OBVIOUS
<1>12. t \in Seq(TextLines) /\ a \in Seq(TextLines) /\ <<l>> \in Seq(TextLines)
  <2>1. t \in Seq(TextLines)
    BY <1>2, <1>10, SpelledIsText DEF Parsers
  <2>2. Line("vkey", e.key) \in TextLines
    BY <1>7 DEF TextLines, ListEntry
  <2>. QED
    BY <1>11, <2>1, <2>2, InsideAnEntry
<1>13. kept = t \o a
  <2>1. Begun(p, by) = a \o <<>>
    BY <1>2, <1>5, <1>7, <1>11 DEF Begun, Opening
  <2>. QED
    BY <1>4, <1>10, <1>12, <2>1, ConcatEmptySeq
<1>14. Begun(q, TRUE) = a \o <<l>>
  BY <1>3, <1>7, <1>9, <1>11 DEF Begun, Opening
<1>15. Append(kept, l) = Spelled(q.out, named) \o Begun(q, TRUE)
  <2>1. Append(kept, l) = (t \o a) \o <<l>>
    BY <1>13, InsideAnEntry
  <2>2. (t \o a) \o <<l>> = t \o (a \o <<l>>)
    BY <1>12, ConcatAssociative
  <2>. QED
    BY <1>9, <1>10, <1>14, <2>1, <2>2
<1>16. Owes(q.out, named) /\ InEntry(q, TRUE) /\ named \in SUBSET DOMAIN q.out
  BY <1>4, <1>7, <1>9 DEF InEntry
<1>17. Told(q, Append(kept, l))
  BY <1>9, <1>15, <1>16 DEF Told
<1>. QED
  BY <1>1, <1>2, <1>9, <1>17, InsideAnEntry DEF Understood

(* A qpd line after either.                                                *)
LEMMA ReadsRate ==
  ASSUME NEW p, NEW kept, Understood(p, kept), NEW l \in TextLines, l # Blank, l # Header,
         ReadLine(p, l).ok, l.kw = "qpd"
  PROVE  Understood(ReadLine(p, l), Append(kept, l))
<1>1. PICK q : q = ReadLine(p, l)
  OBVIOUS
<1>2. p.header /\ p \in Parsers /\ OncePerOrigin(p.out) /\ p.want \in {"origin-or-qpd", "qpd"} /\ p.ok
  BY InsideAnEntry DEF Understood
<1>3. l = Line("qpd", "")
  BY LinesAreTold, Zenon
<1>4. PICK named \in SUBSET DOMAIN p.out, by \in BOOLEAN :
        Owes(p.out, named) /\ InEntry(p, by) /\ kept = Spelled(p.out, named) \o Begun(p, by)
  BY InsideAnEntry
<1>5. p.cur \in ListEntry /\ p.cur # NoEntry /\ (by \/ OwnName(p.cur))
  BY <1>2, <1>4 DEF InEntry, Parsers
<1>6. q = [p EXCEPT !.want = "contact"]
  BY <1>1, <1>2, <1>3 DEF ReadLine, Line, Blank, Header
<1>7. q \in Parsers /\ q.ok /\ q.header /\ q.out = p.out /\ q.cur = p.cur /\ q.want = "contact"
  BY <1>2, <1>6 DEF Parsers, Wants
<1>8. PICK t, a : t = Spelled(p.out, named) /\ a = Opening(p.cur, by)
  OBVIOUS
<1>9. t \in Seq(TextLines) /\ a \in Seq(TextLines) /\ <<l>> \in Seq(TextLines)
  BY <1>2, <1>5, <1>8, SpelledIsText, WrittenIsText, InsideAnEntry DEF Parsers
<1>10. Begun(p, by) = a /\ Begun(q, by) = a \o <<l>>
  BY <1>2, <1>3, <1>7, <1>8 DEF Begun
<1>11. Append(kept, l) = Spelled(q.out, named) \o Begun(q, by)
  <2>1. Append(kept, l) = (t \o a) \o <<l>>
    BY <1>4, <1>8, <1>10, InsideAnEntry
  <2>2. (t \o a) \o <<l>> = t \o (a \o <<l>>)
    BY <1>9, ConcatAssociative
  <2>. QED
    BY <1>7, <1>8, <1>10, <2>1, <2>2
<1>12. Owes(q.out, named) /\ InEntry(q, by) /\ named \in SUBSET DOMAIN q.out
  BY <1>4, <1>5, <1>7 DEF InEntry
<1>13. Told(q, Append(kept, l))
  BY <1>7, <1>11, <1>12 DEF Told
<1>. QED
  BY <1>1, <1>2, <1>7, <1>13, InsideAnEntry DEF Understood

LEMMA TwoInARow ==
  ASSUME NEW S, NEW x \in S, NEW y \in S
  PROVE  <<x>> \o <<y>> = <<x, y>>
<1>1. <<x>> \in Seq(S) /\ <<y>> \in Seq(S) /\ <<x, y>> \in Seq(S)
  OBVIOUS
<1>2. /\ Len(<<x>>) = 1 /\ Len(<<y>>) = 1 /\ Len(<<x, y>>) = 2
      /\ <<x>>[1] = x /\ <<y>>[1] = y /\ <<x, y>>[1] = x /\ <<x, y>>[2] = y
  OBVIOUS
<1>3. PICK u \in Seq(S), v \in Seq(S) : u = <<x>> /\ v = <<y>>
  BY <1>1
<1>4. u \o v \in Seq(S) /\ Len(u \o v) = 2 /\ (u \o v)[1] = x /\ (u \o v)[2] = y
  BY <1>2, <1>3, ConcatProperties
<1>5. PICK s \in Seq(S), t \in Seq(S) : s = u \o v /\ t = <<x, y>>
  BY <1>1, <1>4
<1>6. Len(s) = 2 /\ Len(t) = 2 /\ \A i \in 1 .. Len(s) : s[i] = t[i]
  BY <1>2, <1>4, <1>5
<1>7. s = t
  BY <1>6, SeqEqual
<1>. QED
  BY <1>3, <1>5, <1>7

(* The entry is done.                                                      *)
LEMMA ReadsContact ==
  ASSUME NEW p, NEW kept, Understood(p, kept), NEW l \in TextLines, l # Blank, l # Header,
         ReadLine(p, l).ok, l.kw = "contact"
  PROVE  Understood(ReadLine(p, l), Append(kept, l))
<1>1. PICK q : q = ReadLine(p, l)
  OBVIOUS
<1>2. p.header /\ p \in Parsers /\ OncePerOrigin(p.out) /\ p.want = "contact" /\ p.ok
      /\ ~ Listed(p.out, p.cur.origin)
  BY InsideAnEntry DEF Understood
<1>3. l = Line("contact", "")
  BY LinesAreTold, Zenon
<1>4. PICK named \in SUBSET DOMAIN p.out, by \in BOOLEAN :
        Owes(p.out, named) /\ InEntry(p, by) /\ kept = Spelled(p.out, named) \o Begun(p, by)
  BY InsideAnEntry
<1>5. PICK e \in ListEntry : e = p.cur /\ (by \/ OwnName(e))
  BY <1>2, <1>4 DEF InEntry, Parsers
<1>6. PICK out \in Seq(ListEntry) : out = p.out
  BY <1>2 DEF Parsers
<1>7. q = [p EXCEPT !.out = Append(out, e), !.cur = NoEntry, !.want = "vkey"]
  BY <1>1, <1>2, <1>3, <1>5, <1>6 DEF ReadLine, Line, Blank, Header
<1>8. PICK n \in Nat : n = Len(out)
  OBVIOUS
<1>22. PICK more : more = Append(out, e)
  OBVIOUS
<1>9. /\ more \in Seq(ListEntry) /\ DOMAIN out = 1 .. n /\ DOMAIN more = 1 .. n + 1
      /\ more[n + 1] = e /\ \A i \in 1 .. n : more[i] = out[i]
  BY <1>8, <1>22
<1>10. q \in Parsers /\ q.ok /\ q.header /\ q.out = more /\ q.cur = NoEntry /\ q.want = "vkey"
  BY <1>2, <1>7, <1>9, <1>22 DEF Parsers, Wants
<1>11. OncePerOrigin(more)
  <2>1. \A i \in 1 .. n + 1 : i = n + 1 \/ i \in 1 .. n
    OBVIOUS
  <2>2. \A i \in 1 .. n : out[i].origin # e.origin
    BY <1>2, <1>5, <1>6, <1>9 DEF Listed
  <2>3. \A i, j \in 1 .. n : out[i].origin = out[j].origin => i = j
    BY <1>2, <1>6, <1>9 DEF OncePerOrigin
  <2>4. \A i, j \in 1 .. n + 1 : more[i].origin = more[j].origin => i = j
    BY <1>9, <2>1, <2>2, <2>3
  <2>. QED
    BY <1>9, <2>4 DEF OncePerOrigin
<1>12. PICK names : names = IF by THEN named \cup {n + 1} ELSE named
  OBVIOUS
<1>13. names \in SUBSET DOMAIN more /\ Owes(more, names)
  <2>1. named \in SUBSET (1 .. n) /\ Owes(out, named)
    BY <1>4, <1>6, <1>9
  <2>2. names \in SUBSET (1 .. n + 1)
    <3>1. 1 .. n \subseteq 1 .. n + 1 /\ n + 1 \in 1 .. n + 1
      OBVIOUS
    <3>. QED
      BY <1>12, <2>1, <3>1
  <2>3. ASSUME NEW i \in (1 .. n + 1) \ names PROVE OwnName(more[i])
    <3>1. CASE i = n + 1
      BY <1>5, <1>9, <1>12, <2>3, <3>1
    <3>2. CASE i # n + 1
      <4>1. i \in 1 .. n /\ i \notin named
        BY <1>12, <2>3, <3>2
      <4>. QED
        BY <1>9, <2>1, <4>1 DEF Owes
    <3>. QED
      BY <3>1, <3>2
  <2>. QED
    BY <1>9, <2>2, <2>3 DEF Owes
<1>14. PICK t, a, r, w : /\ t = Spelled(out, named) /\ a = Opening(e, by)
                         /\ r = <<Line("qpd", "")>> /\ w = <<l>>
  OBVIOUS
<1>15. t \in Seq(TextLines) /\ a \in Seq(TextLines) /\ r \in Seq(TextLines) /\ w \in Seq(TextLines)
  BY <1>14, SpelledIsText, WrittenIsText, InsideAnEntry
<1>16. kept = t \o (a \o r)
  <2>1. Begun(p, by) = a \o r
    BY <1>2, <1>5, <1>14 DEF Begun
  <2>. QED
    BY <1>4, <1>6, <1>14, <2>1
<1>17. r \o w = <<Line("qpd", ""), Line("contact", "")>>
  <2>1. \A S : \A x, y \in S : <<x>> \o <<y>> = <<x, y>>
    BY TwoInARow
  <2>2. Line("qpd", "") \in TextLines
    BY DEF TextLines
  <2>. QED
    BY <1>3, <1>14, <2>1, <2>2
<1>18. Spelled(more, names) = t \o (a \o (r \o w))
  <2>1. Spelled(Append(out, e), names) = Spelled(out, named) \o Written(e, by)
    <3>1. names = IF by THEN named \cup {Len(out) + 1} ELSE named
      BY <1>8, <1>12
    <3>2. named \in SUBSET DOMAIN out
      BY <1>4, <1>6
    <3>. QED
      BY <3>1, <3>2, SpelledGrows
  <2>2. Written(e, by) = a \o (r \o w)
    BY <1>14, <1>17 DEF Written
  <2>. QED
    BY <1>14, <1>22, <2>1, <2>2
<1>19. Append(kept, l) = Spelled(q.out, names) \o Begun(q, FALSE)
  <2>1. Append(kept, l) = (t \o (a \o r)) \o w
    <3>1. Append(kept, l) = kept \o <<l>>
      BY InsideAnEntry
    <3>. QED
      BY <1>14, <1>16, <3>1
  <2>2. a \o r \in Seq(TextLines) /\ r \o w \in Seq(TextLines)
    BY <1>15, ConcatProperties
  <2>3. (t \o (a \o r)) \o w = t \o ((a \o r) \o w)
    BY <1>15, <2>2, ConcatAssociative
  <2>4. (a \o r) \o w = a \o (r \o w)
    BY <1>15, ConcatAssociative
  <2>5. Append(kept, l) = Spelled(more, names)
    BY <1>18, <2>1, <2>3, <2>4
  <2>6. Append(kept, l) \in Seq(TextLines)
    BY InsideAnEntry
  <2>7. Begun(q, FALSE) = <<>>
    BY <1>10 DEF Begun
  <2>. QED
    BY <1>10, <2>5, <2>6, <2>7, ConcatEmptySeq
<1>20. InEntry(q, FALSE)
  BY <1>10 DEF InEntry
<1>21. Told(q, Append(kept, l))
  BY <1>10, <1>13, <1>19, <1>20 DEF Told
<1>. QED
  BY <1>1, <1>10, <1>11, <1>21, InsideAnEntry DEF Understood

(* One line, blank or not.                                                 *)
LEMMA LineRead ==
  ASSUME NEW p, NEW kept, Understood(p, kept), NEW l \in TextLines, ReadLine(p, l).ok
  PROVE  Understood(ReadLine(p, l), IF l = Blank THEN kept ELSE Append(kept, l))
<1>1. CASE l = Blank
  <2>1. ReadLine(p, l) = p
    BY <1>1 DEF ReadLine
  <2>. QED
    BY <1>1, <2>1
<1>2. CASE l # Blank /\ l = Header
  BY <1>2, ReadsHeader
<1>3. CASE l # Blank /\ l # Header
  <2>1. l.kw \in {"vkey", "origin", "qpd", "contact"}
    BY <1>3, InsideAnEntry
  <2>. QED
    BY <1>3, <2>1, ReadsKey, ReadsOrigin, ReadsRate, ReadsContact
<1>. QED
  BY <1>1, <1>2, <1>3

(* A text refused at one line is refused at the last.                      *)
LEMMA ReadToTheEnd ==
  ASSUME NEW text \in Seq(TextLines), NEW f, IsReading(f, text), f[Len(text)].ok, NEW n \in 0 .. Len(text)
  PROVE  f[n].ok
<1>1. PICK last \in Nat : last = Len(text)
  OBVIOUS
<1>2. \A m \in 0 .. last : m # 0 => f[m] = ReadLine(f[m - 1], text[m])
  BY <1>1 DEF IsReading
<1>. DEFINE Later == {m \in n .. last : f[m].ok}
<1>3. SUFFICES ASSUME ~ f[n].ok PROVE FALSE
  OBVIOUS
<1>4. PICK m \in Later : \A k \in Later : m <= k
  <2>1. Later \in SUBSET Nat /\ last \in Later
    BY <1>1
  <2>. HIDE DEF Later
  <2>. QED
    BY <2>1, LeastNat
<1>5. m \in n .. last /\ f[m].ok
  BY <1>4
<1>6. m # n
  BY <1>3, <1>5
<1>7. m - 1 \in n .. last /\ m \in 0 .. last /\ m # 0 /\ m - 1 < m
  BY <1>1, <1>5, <1>6
<1>8. ~ f[m - 1].ok
  <2>1. m - 1 \notin Later
    <3>. HIDE DEF Later
    <3>. QED
      BY <1>1, <1>4, <1>7
  <2>. QED
    BY <1>7, <2>1
<1>9. f[m] = f[m - 1]
  BY <1>2, <1>7, <1>8 DEF ReadLine
<1>. QED
  BY <1>5, <1>8, <1>9

(* Before the first line.                                                  *)
LEMMA NothingReadYet == Understood(Unread, <<>>)
<1>1. RefusedText \in Parsers /\ ~ RefusedText.header /\ RefusedText.out = <<>>
  BY DEF RefusedText, Parsers, Wants
<1>2. Unread \in Parsers /\ Unread.ok /\ ~ Unread.header /\ OncePerOrigin(Unread.out)
  <2>1. Unread \in Parsers /\ Unread.ok /\ Unread.header = RefusedText.header /\ Unread.out = RefusedText.out
    BY <1>1 DEF Unread, Parsers
  <2>. QED
    BY <1>1, <2>1 DEF OncePerOrigin
<1>3. Told(Unread, <<>>)
  BY <1>2 DEF Told
<1>4. <<>> \in Seq(TextLines)
  OBVIOUS
<1>. QED
  BY <1>2, <1>3, <1>4 DEF Understood

(* Line by line.                                                           *)
LEMMA EveryLineRead ==
  ASSUME NEW text \in Seq(TextLines), NEW f, IsReading(f, text), f[Len(text)].ok,
         NEW g, IsKept(g, text), NEW n \in 0 .. Len(text)
  PROVE  Understood(f[n], g[n])
<1>1. PICK last \in Nat : last = Len(text)
  OBVIOUS
<1>2. /\ f[0] = Unread /\ g[0] = <<>>
      /\ \A m \in 0 .. last : m # 0 =>
           /\ f[m] = ReadLine(f[m - 1], text[m])
           /\ g[m] = IF text[m] = Blank THEN g[m - 1] ELSE Append(g[m - 1], text[m])
  <2>1. 0 \in 0 .. last
    BY <1>1
  <2>2. f[0] = Unread /\ \A m \in 0 .. last : m # 0 => f[m] = ReadLine(f[m - 1], text[m])
    BY <1>1, <2>1 DEF IsReading
  <2>3. /\ g[0] = <<>>
        /\ \A m \in 0 .. last : m # 0 =>
             g[m] = IF text[m] = Blank THEN g[m - 1] ELSE Append(g[m - 1], text[m])
    BY <1>1, <2>1 DEF IsKept
  <2>. QED
    BY <2>2, <2>3
<1>. DEFINE Bad == {m \in 0 .. last : ~ Understood(f[m], g[m])}
<1>3. SUFFICES ASSUME Bad # {} PROVE FALSE
  BY <1>1
<1>4. PICK m \in Bad : \A k \in Bad : m <= k
  <2>1. Bad \in SUBSET Nat
    BY <1>1
  <2>. HIDE DEF Bad
  <2>. QED
    BY <1>3, <2>1, LeastNat
<1>5. m \in 0 .. last /\ ~ Understood(f[m], g[m])
  BY <1>4
<1>6. m # 0
  BY <1>2, <1>5, NothingReadYet
<1>7. m - 1 \in 0 .. last /\ m - 1 < m
  BY <1>1, <1>5, <1>6
<1>8. Understood(f[m - 1], g[m - 1])
  <2>1. m - 1 \notin Bad
    <3>. HIDE DEF Bad
    <3>. QED
      BY <1>1, <1>4, <1>5, <1>7
  <2>. QED
    BY <1>7, <2>1
<1>9. f[m].ok
  BY <1>1, <1>5, ReadToTheEnd
<1>10. text[m] \in TextLines
  BY <1>1, <1>5, <1>6
<1>11. PICK p, kept, l : p = f[m - 1] /\ kept = g[m - 1] /\ l = text[m]
  OBVIOUS
<1>12. Understood(ReadLine(p, l), IF l = Blank THEN kept ELSE Append(kept, l))
  <2>1. Understood(p, kept) /\ ReadLine(p, l).ok
    BY <1>2, <1>5, <1>6, <1>8, <1>9, <1>11
  <2>2. l \in TextLines
    BY <1>10, <1>11
  <2>. QED
    BY <2>1, <2>2, LineRead
<1>13. ReadLine(p, l) = f[m] /\ (IF l = Blank THEN kept ELSE Append(kept, l)) = g[m]
  BY <1>2, <1>5, <1>6, <1>11
<1>. QED
  BY <1>5, <1>12, <1>13

(* Whatever lines a publisher serves, what Parse takes of them spells every*)
(* line that is not blank, in order, with no origin of its own making and  *)
(* none twice: a list is understood whole or refused.                      *)
THEOREM ListsAreReadWhole ==
  ASSUME NEW text \in Seq(TextLines), Parse(text).ok
  PROVE  SaysWhole(Parse(text).entries, text)
<1>1. Len(text) \in Nat /\ Len(text) \in 0 .. Len(text)
  OBVIOUS
<1>2. PICK f : /\ IsReading(f, text)
               /\ Parse(text) = [ok |-> f[Len(text)].ok /\ f[Len(text)].header /\ f[Len(text)].cur = NoEntry,
                                 entries |-> f[Len(text)].out]
  BY <1>1, ParseIsAReading
<1>3. PICK g : IsKept(g, text) /\ NonBlank(text) = g[Len(text)]
  BY <1>1, NonBlankIsKept
<1>4. PICK p, kept : p = f[Len(text)] /\ kept = g[Len(text)]
  OBVIOUS
<1>5. p.ok /\ p.header /\ p.cur = NoEntry /\ Parse(text).entries = p.out
  <2>1. Parse(text) = [ok |-> p.ok /\ p.header /\ p.cur = NoEntry, entries |-> p.out]
    BY <1>2, <1>4, Zenon
  <2>2. PICK b : b = (p.ok /\ p.header /\ p.cur = NoEntry)
    OBVIOUS
  <2>3. PICK o : o = p.out
    OBVIOUS
  <2>4. Parse(text) = [ok |-> b, entries |-> o]
    BY <2>1, <2>2, <2>3, Zenon
  <2>5. Parse(text).ok = b /\ Parse(text).entries = o
    BY <2>4
  <2>. QED
    BY <2>2, <2>3, <2>5, Zenon
<1>6. Understood(p, kept)
  BY <1>1, <1>2, <1>3, <1>4, <1>5, EveryLineRead
<1>7. PICK named \in SUBSET DOMAIN p.out, by \in BOOLEAN :
        Owes(p.out, named) /\ InEntry(p, by) /\ kept = Spelled(p.out, named) \o Begun(p, by)
  BY <1>5, <1>6 DEF Understood, Told
<1>8. Begun(p, by) = <<>>
  BY <1>5, <1>7 DEF InEntry, Begun
<1>9. Spelled(p.out, named) \in Seq(TextLines)
  BY <1>6, SpelledIsText DEF Understood, Parsers
<1>10. kept = Spelled(p.out, named)
  BY <1>7, <1>8, <1>9, ConcatEmptySeq
<1>11. \A i \in DOMAIN p.out \ named : p.out[i].origin = NameOf[p.out[i].key]
  BY <1>7 DEF Owes, OwnName
<1>12. \A i, j \in DOMAIN p.out : p.out[i].origin = p.out[j].origin => i = j
  BY <1>6 DEF Understood, OncePerOrigin
<1>13. NonBlank(text) = Spelled(p.out, named)
  BY <1>3, <1>4, <1>10
<1>14. SaysWhole(p.out, text)
  BY <1>7, <1>11, <1>12, <1>13 DEF SaysWhole
<1>. QED
  BY <1>5, <1>14

(* What a publisher serves is lines, garbled or not.                       *)
LEMMA RenderedIsText == ASSUME NEW es \in Seq(ListEntry) PROVE Rendered(es) \in Seq(TextLines)
BY SpelledIsText, Zenon DEF Rendered

LEMMA GarbledIsText ==
  ASSUME NEW t \in Seq(TextLines), NEW g \in Garbled(t)
  PROVE  g \in Seq(TextLines)
<1>. DEFINE S == TextLines
<1>1. Blank \in S
  BY DEF TextLines
<1>2. \/ g = t \/ \E i \in DOMAIN t : g = RemoveAt(t, i)
      \/ \E i \in DOMAIN t : g = InsertAt(t, i, t[i])
      \/ \E i \in DOMAIN t : g = ReplaceAt(t, i, Blank)
  BY DEF Garbled
<1>. HIDE DEF S
<1>3. \A s \in Seq(S) : \A i \in DOMAIN s :
         /\ s[i] \in S /\ <<s[i]>> \in Seq(S)
         /\ SubSeq(s, 1, i - 1) \in Seq(S) /\ SubSeq(s, i + 1, Len(s)) \in Seq(S) /\ SubSeq(s, i, Len(s)) \in Seq(S)
  <2>. SUFFICES ASSUME NEW s \in Seq(S), NEW i \in DOMAIN s
       PROVE /\ s[i] \in S /\ <<s[i]>> \in Seq(S)
             /\ SubSeq(s, 1, i - 1) \in Seq(S) /\ SubSeq(s, i + 1, Len(s)) \in Seq(S) /\ SubSeq(s, i, Len(s)) \in Seq(S)
    OBVIOUS
  <2>1. PICK n \in Nat : n = Len(s) /\ i \in 1 .. n
    OBVIOUS
  <2>2. \A a \in 1 .. n + 1, b \in 0 .. n : SubSeq(s, a, b) \in Seq(S)
    BY <2>1, SubSeqProperties
  <2>3. i - 1 \in 0 .. n /\ 1 \in 1 .. n + 1 /\ i + 1 \in 1 .. n + 1 /\ n \in 0 .. n /\ i \in 1 .. n + 1
    BY <2>1
  <2>. QED
    BY <2>1, <2>2, <2>3
<1>4. t \in Seq(S)
  BY DEF S
<1>5. CASE \E i \in DOMAIN t : g = RemoveAt(t, i)
  BY <1>3, <1>4, <1>5, ConcatProperties DEF RemoveAt
<1>6. CASE \E i \in DOMAIN t : g = InsertAt(t, i, t[i])
  <2>1. PICK i \in DOMAIN t : g = InsertAt(t, i, t[i])
    BY <1>6
  <2>2. SubSeq(t, 1, i - 1) \o <<t[i]>> \in Seq(S)
    BY <1>3, <1>4, ConcatProperties
  <2>3. g = (SubSeq(t, 1, i - 1) \o <<t[i]>>) \o SubSeq(t, i, Len(t))
    BY <2>1 DEF InsertAt
  <2>. QED
    BY <1>3, <1>4, <2>2, <2>3, ConcatProperties DEF S
<1>7. CASE \E i \in DOMAIN t : g = ReplaceAt(t, i, Blank)
  BY <1>1, <1>4, <1>7 DEF ReplaceAt, S
<1>. QED
  BY <1>2, <1>4, <1>5, <1>6, <1>7 DEF S

LEMMA ServedIsText == ASSUME NEW text \in Served PROVE text \in Seq(TextLines)
<1>1. PICK es \in SeqOf(ListEntry, MaxListed) : text \in Garbled(Rendered(es))
  BY DEF Served
<1>2. es \in Seq(ListEntry)
  <2>1. PICK m \in 0 .. MaxListed : es \in [1 .. m -> ListEntry]
    BY <1>1 DEF SeqOf
  <2>2. m \in Nat
    BY <2>1, LogListsAssumption
  <2>. QED
    BY <2>1, <2>2
<1>. QED
  BY <1>1, <1>2, RenderedIsText, GarbledIsText

(* What is being applied is a text that was served and understood.         *)
TextOK == "text" \in DOMAIN fetcher => fetcher.text \in Seq(TextLines) /\ Parse(fetcher.text).ok

LEMMA TextInit == ASSUME LogListsInit PROVE TextOK
BY DEF LogListsInit, TextOK

LEMMA TextStep == ASSUME TextOK, [LogListsNext]_listVars PROVE TextOK'
<1>1. CASE Download
  <2>1. PICK url \in Lists, text \in Served :
          /\ Parse(text).ok
          /\ fetcher' = [pc |-> "applying", url |-> url, text |-> text, todo |-> Parse(text).entries]
    BY <1>1 DEF Download
  <2>2. fetcher'.text = text /\ text \in Seq(TextLines)
    BY <2>1, ServedIsText
  <2>. QED
    BY <2>1, <2>2 DEF TextOK
<1>2. CASE "text" \notin DOMAIN fetcher'
  BY <1>2 DEF TextOK
<1>3. CASE fetcher' = fetcher
  BY <1>3 DEF TextOK
<1>4. \A pc, todo : "text" \notin DOMAIN FetcherAt(pc, todo)
  BY DEF FetcherAt
<1>5. "text" \notin DOMAIN FetcherRests
  BY DEF FetcherRests
<1>6. "text" \notin DOMAIN NextEntry
  BY <1>4 DEF NextEntry
<1>7. CASE Fetching /\ ~ Download
  <2>1. LoadAgain \/ SkipEntry \/ StoreEntry \/ RegisterEntry \/ ListApplied
    BY <1>7 DEF Fetching
  <2>2. fetcher' = FetcherRests \/ fetcher' = NextEntry \/ \E pc, todo : fetcher' = FetcherAt(pc, todo)
    BY <2>1 DEF LoadAgain, SkipEntry, StoreEntry, RegisterEntry, ListApplied
  <2>. QED
    BY <1>2, <1>4, <1>5, <1>6, <2>2
<1>8. CASE ProbePass \/ (\E o \in LogOrigins : Probe(o) \/ TakePush(o)) \/ UNCHANGED listVars
  <2>1. fetcher' = fetcher
    BY <1>8 DEF ProbePass, Probe, TakePush, listVars
  <2>. QED
    BY <1>3, <2>1
<1>9. CASE ListRestart
  <2>1. fetcher' = [pc |-> "starting"]
    BY <1>9 DEF ListRestart
  <2>. QED
    BY <1>2, <2>1
<1>. QED
  BY <1>1, <1>7, <1>8, <1>9 DEF LogListsNext

LEMMA TextMeans == ASSUME TextOK PROVE ParsedWhole
BY ListsAreReadWhole DEF TextOK, ParsedWhole

(* All that is checked of the lists holds: keys are pinned, what is stored *)
(* is known again, a list is taken whole or not at all, and a log is       *)
(* polled by one source only.                                              *)
THEOREM ListsStayKept == LogListsSpec => []ListsAreKept
<1>1. (LogListsTypeOK /\ KeysArePinned /\ StoredIsKnown /\ PolledOnce) /\ TextOK => ListsAreKept
  BY TextMeans DEF ListsAreKept
<1>2. TextOK /\ [LogListsNext]_listVars => TextOK'
  BY TextStep
<1>3. LogListsInit => TextOK
  BY TextInit
<1>. QED
  BY KeysStayPinned, <1>1, <1>2, <1>3, PTL DEF LogListsSpec

-----------------------------------------------------------------------------
(* Application heads.                                                      *)
AppRoots == {"root", "other"} \X Nat
AppKeys == {"key", "another"}
AppHead == [tree: Applications, revision: Nat, size: Nat, root: AppRoots, key: AppKeys]
Particulars == (Nat \X AppRoots \X AppRoots) \cup (Nat \X Nat) \cup (AppKeys \X AppKeys)
Contradiction == {"two roots", "backwards", "key"} \X Particulars
AppRecord == [size: Nat, revision: Nat, root: AppRoots, key: AppKeys, conflicts: Seq(Contradiction)]

AppHeadsTypeOK ==
    /\ leaves \in Seq(AppHead) /\ misdeeds \in Nat
    /\ apps \in [Applications -> {Unobserved} \cup AppRecord]
    /\ scan \subseteq AppHead
    /\ reported \in Seq(Applications \X Contradiction)
    /\ observed \in Seq(AppHead) /\ overlooked \in BOOLEAN

(* A record has room for every contradiction, none twice; what was reported*)
(* of its tree is in it as long as there was room.                         *)
ConflictsOK(t) ==
    /\ Len(apps[t].conflicts) <= MaxConflicts
    /\ IsInjective(apps[t].conflicts)
    /\ Len(apps[t].conflicts) < MaxConflicts =>
         /\ \A i \in DOMAIN reported :
              reported[i][1] = t => reported[i][2] \in Range(apps[t].conflicts)
         /\ \A i, j \in DOMAIN reported :
              reported[i][1] = t /\ reported[i] = reported[j] => i = j
ReportsOK ==
    /\ \A t \in Seen : ConflictsOK(t)
    /\ \A i \in DOMAIN reported : reported[i][1] \in Seen

(* The record is the largest head there was. *)
LargestOK ==
    /\ \A i \in DOMAIN observed : observed[i].tree \in Seen
    /\ \A t \in Seen :
         /\ \A i \in DOMAIN observed : observed[i].tree = t => observed[i].size <= apps[t].size
         /\ \E i \in DOMAIN observed :
              /\ observed[i].tree = t
              /\ observed[i].size = apps[t].size /\ observed[i].root = apps[t].root

(* While nobody misbehaved and no window fell short. *)
HonestLeaf(h) == h = HonestHead(h.tree, h.revision)
CleanOK ==
    /\ reported = <<>>
    /\ \A i \in DOMAIN leaves : HonestLeaf(leaves[i])
    /\ \A t \in Seen : \E i \in OfTree(t) :
         /\ apps[t].size = leaves[i].size /\ apps[t].revision = leaves[i].revision
         /\ apps[t].root = leaves[i].root /\ apps[t].key = leaves[i].key
    /\ \A h \in scan :
         /\ \E i \in DOMAIN leaves : leaves[i] = h
         /\ h.tree \in Seen => apps[h.tree].size <= h.size
OnePerTree == \A g, h \in scan : g.tree = h.tree => g = h

AppsInv ==
    /\ AppHeadsTypeOK /\ ReportsOK /\ LargestOK /\ ShrinkingIsKept /\ OnePerTree
    /\ (misdeeds = 0 /\ ~overlooked) => CleanOK

-----------------------------------------------------------------------------
LEMMA AppNumbers ==
  /\ Applications \in SUBSET Nat /\ Window \in Nat \ {0} /\ MaxConflicts \in Nat \ {0}
BY AppHeadsAssumption

LEMMA RecordIsSeen == ASSUME NEW r \in AppRecord PROVE r # Unobserved
<1>1. DOMAIN r = {"size", "revision", "root", "key", "conflicts"}
  BY DEF AppRecord
<1>2. DOMAIN Unobserved = {"size"}
  BY DEF Unobserved
<1>. QED
  BY <1>1, <1>2

(* Two lists that share nothing make one list with nothing twice.          *)
LEMMA JoinedOK ==
  ASSUME NEW S, NEW a \in Seq(S), NEW b \in Seq(S), IsInjective(a), IsInjective(b),
         \A i \in DOMAIN a, j \in DOMAIN b : a[i] # b[j]
  PROVE  /\ a \o b \in Seq(S) /\ Len(a \o b) = Len(a) + Len(b)
         /\ \A i \in DOMAIN a : i \in DOMAIN (a \o b) /\ (a \o b)[i] = a[i]
         /\ \A j \in DOMAIN b : Len(a) + j \in DOMAIN (a \o b) /\ (a \o b)[Len(a) + j] = b[j]
         /\ \A i \in DOMAIN (a \o b) : \/ i \in DOMAIN a /\ (a \o b)[i] = a[i]
                                       \/ i - Len(a) \in DOMAIN b /\ (a \o b)[i] = b[i - Len(a)]
         /\ IsInjective(a \o b)
<1>1. PICK c : c = a \o b
  OBVIOUS
<1>2. /\ c \in Seq(S) /\ Len(c) = Len(a) + Len(b)
      /\ \A i \in 1 .. Len(a) + Len(b) : c[i] = IF i <= Len(a) THEN a[i] ELSE b[i - Len(a)]
  BY <1>1, ConcatProperties
<1>3. /\ DOMAIN a = 1 .. Len(a) /\ DOMAIN b = 1 .. Len(b) /\ DOMAIN c = 1 .. Len(c)
      /\ Len(a) \in Nat /\ Len(b) \in Nat
  BY <1>2, LenProperties
<1>4. \A i \in DOMAIN a : i \in DOMAIN c /\ c[i] = a[i]
  BY <1>2, <1>3
<1>5. \A j \in DOMAIN b : Len(a) + j \in DOMAIN c /\ c[Len(a) + j] = b[j]
  BY <1>2, <1>3
<1>6. \A i \in DOMAIN c : \/ i \in DOMAIN a /\ c[i] = a[i]
                          \/ i - Len(a) \in DOMAIN b /\ c[i] = b[i - Len(a)]
  BY <1>2, <1>3
<1>7. ASSUME NEW i \in DOMAIN c, NEW j \in DOMAIN c, c[i] = c[j] PROVE i = j
  <2>1. CASE i \in DOMAIN a /\ c[i] = a[i] /\ j \in DOMAIN a /\ c[j] = a[j]
    BY <1>7, <2>1 DEF IsInjective
  <2>2. CASE i - Len(a) \in DOMAIN b /\ c[i] = b[i - Len(a)] /\ j - Len(a) \in DOMAIN b /\ c[j] = b[j - Len(a)]
    <3>1. i - Len(a) = j - Len(a)
      BY <1>7, <2>2 DEF IsInjective
    <3>. QED
      BY <1>3, <3>1
  <2>. QED
    BY <1>6, <1>7, <2>1, <2>2
<1>. QED
  BY <1>1, <1>2, <1>4, <1>5, <1>6, <1>7 DEF IsInjective

LEMMA UnlessOK ==
  ASSUME NEW known, NEW wrong, NEW S, NEW what \in S, NEW a, a = Unless(known, wrong, what)
  PROVE  /\ a \in Seq(S) /\ IsInjective(a)
         /\ \A i \in DOMAIN a : a[i] = what /\ what \notin known
         /\ wrong /\ what \notin known => 1 \in DOMAIN a
<1>1. CASE wrong /\ what \notin known
  BY <1>1 DEF Unless, IsInjective
<1>2. CASE ~ (wrong /\ what \notin known)
  BY <1>2 DEF Unless, IsInjective
<1>. QED
  BY <1>1, <1>2

(* What ObserveAppHead finds: at most one of each kind, and nothing known. *)
LEMMA FoundOK ==
  ASSUME NEW known, NEW cur \in AppRecord, NEW obs \in AppHead
  PROVE  LET found == Found(known, cur, obs)
         IN  /\ found \in Seq(Contradiction) /\ IsInjective(found)
             /\ \A i \in DOMAIN found : found[i] \notin known
             /\ SizeFell(cur, obs) => \/ found # <<>>
                                      \/ <<"backwards", <<cur.size, obs.size>>>> \in known
<1>. DEFINE roots == <<"two roots", <<obs.revision, cur.root, obs.root>>>>
            size == <<"backwards", <<cur.size, obs.size>>>>
            key == <<"key", <<cur.key, obs.key>>>>
            A == Unless(known, obs.revision = cur.revision /\ obs.root # cur.root, roots)
            B == Unless(known, SizeFell(cur, obs), size)
            C == Unless(known, obs.key # cur.key, key)
<1>1. roots \in Contradiction /\ size \in Contradiction /\ key \in Contradiction
  BY DEF AppRecord, AppHead, Contradiction, Particulars
<1>2. roots # size /\ size # key /\ roots # key
  OBVIOUS
<1>3. SizeFell(cur, obs) \in BOOLEAN
  BY DEF SizeFell
<1>. HIDE DEF roots, size, key
<1>. HIDE DEF A, B, C
<1>4. A \in Seq(Contradiction) /\ IsInjective(A) /\ \A i \in DOMAIN A : A[i] = roots /\ roots \notin known
  <2>1. CASE A = <<>>
    BY <2>1 DEF IsInjective
  <2>2. CASE A # <<>>
    <3>1. A = <<roots>> /\ roots \notin known
      BY <2>2 DEF A, Unless
    <3>. QED
      BY <1>1, <3>1 DEF IsInjective
  <2>. QED
    BY <2>1, <2>2
<1>5. /\ B \in Seq(Contradiction) /\ IsInjective(B) /\ \A i \in DOMAIN B : B[i] = size /\ size \notin known
      /\ SizeFell(cur, obs) /\ size \notin known => 1 \in DOMAIN B
  BY <1>1, UnlessOK DEF B
<1>6. C \in Seq(Contradiction) /\ IsInjective(C) /\ \A i \in DOMAIN C : C[i] = key /\ key \notin known
  <2>1. CASE C = <<>>
    BY <2>1 DEF IsInjective
  <2>2. CASE C # <<>>
    <3>1. C = <<key>> /\ key \notin known
      BY <2>2 DEF C, Unless
    <3>. QED
      BY <1>1, <3>1 DEF IsInjective
  <2>. QED
    BY <2>1, <2>2
<1>7. Found(known, cur, obs) = (A \o B) \o C
  BY DEF Found, A, B, C, roots, size, key
<1>8. PICK D : D = A \o B
  OBVIOUS
<1>9. /\ D \in Seq(Contradiction) /\ IsInjective(D)
      /\ \A i \in DOMAIN D : D[i] \in {roots, size} /\ D[i] \notin known
      /\ \A j \in DOMAIN B : Len(A) + j \in DOMAIN D
  BY <1>2, <1>4, <1>5, <1>8, JoinedOK
<1>10. PICK found : found = D \o C
  OBVIOUS
<1>11. /\ found \in Seq(Contradiction) /\ IsInjective(found)
       /\ \A i \in DOMAIN found : found[i] \notin known
       /\ \A i \in DOMAIN D : i \in DOMAIN found
  BY <1>2, <1>6, <1>9, <1>10, JoinedOK
<1>12. SizeFell(cur, obs) /\ size \notin known => found # <<>>
  BY <1>5, <1>9, <1>11
<1>. QED
  BY <1>7, <1>8, <1>10, <1>11, <1>12 DEF size

LEMMA FirstOfSeq ==
  ASSUME NEW S, NEW s \in Seq(S), NEW k \in Nat, k <= Len(s)
  PROVE  LET t == SubSeq(s, 1, k)
         IN  /\ t \in Seq(S) /\ Len(t) = k /\ DOMAIN t = 1 .. k
             /\ \A i \in 1 .. k : t[i] = s[i]
<1>1. SubSeq(s, 1, k) = [i \in 1 .. k |-> s[i]]
  OBVIOUS
<1>2. \A i \in 1 .. k : s[i] \in S
  OBVIOUS
<1>. QED
  BY <1>1, <1>2

(* The first k of a list are a list, whose members are among its own.      *)
LEMMA KeptConflictsOK ==
  ASSUME NEW s \in Seq(Contradiction), IsInjective(s), NEW k, k = Min({Len(s), MaxConflicts})
  PROVE  LET kept == SubSeq(s, 1, k)
         IN  /\ kept \in Seq(Contradiction) /\ IsInjective(kept)
             /\ Len(kept) <= MaxConflicts /\ Len(kept) <= Len(s)
             /\ Len(kept) < MaxConflicts => kept = s
             /\ Len(kept) < Len(s) => Len(kept) = MaxConflicts
<1>1. Len(s) \in Nat /\ MaxConflicts \in Nat \ {0}
  BY AppNumbers
<1>2. k = IF Len(s) <= MaxConflicts THEN Len(s) ELSE MaxConflicts
  <2>1. PICK n, m : n = Len(s) /\ m = MaxConflicts
    OBVIOUS
  <2>2. k \in {n, m} /\ k <= n /\ k <= m
    <3>1. \E x \in {n, m} : \A y \in {n, m} : x <= y
      BY <1>1, <2>1
    <3>. QED
      BY <2>1, <3>1 DEF Min
  <2>. QED
    BY <1>1, <2>1, <2>2
<1>3. PICK kept : kept = SubSeq(s, 1, k)
  OBVIOUS
<1>4. /\ kept \in Seq(Contradiction) /\ Len(kept) = k /\ DOMAIN kept = 1 .. k
      /\ \A i \in 1 .. k : kept[i] = s[i]
  <2>1. k \in Nat /\ k <= Len(s)
    BY <1>1, <1>2
  <2>2. LET t == SubSeq(s, 1, k)
        IN  /\ t \in Seq(Contradiction) /\ Len(t) = k /\ DOMAIN t = 1 .. k
            /\ \A i \in 1 .. k : t[i] = s[i]
    BY <2>1, FirstOfSeq
  <2>. QED
    BY <1>3, <2>2
<1>5. IsInjective(kept)
  <2>1. DOMAIN s = 1 .. Len(s)
    BY LenProperties
  <2>. QED
    BY <1>1, <1>2, <1>4, <2>1 DEF IsInjective
<1>6. Len(kept) < MaxConflicts => kept = s
  <2>. SUFFICES ASSUME Len(kept) < MaxConflicts PROVE kept = s
    OBVIOUS
  <2>1. k = Len(s) /\ Len(kept) = Len(s)
    BY <1>1, <1>2, <1>4
  <2>. QED
    BY <1>4, <2>1, SeqEqual
<1>7. Len(kept) <= MaxConflicts /\ Len(kept) <= Len(s) /\ (Len(kept) < Len(s) => Len(kept) = MaxConflicts)
  BY <1>1, <1>2, <1>4
<1>. QED
  BY <1>3, <1>4, <1>5, <1>6, <1>7

(* What ObserveAppHead makes of a record that has room for its list: the   *)
(* larger of the two heads, and what is known now besides.                 *)
LEMMA MergedOK ==
  ASSUME NEW cur \in AppRecord, NEW obs \in AppHead,
         IsInjective(cur.conflicts), Len(cur.conflicts) <= MaxConflicts
  PROVE  LET m == Merged2(cur, obs)
             news == Fresh(cur, obs)
         IN  /\ m \in AppRecord /\ news \in Seq(Contradiction) /\ IsInjective(news)
             /\ IsInjective(m.conflicts) /\ Len(m.conflicts) <= MaxConflicts
             /\ Len(m.conflicts) < MaxConflicts =>
                  /\ Len(cur.conflicts) < MaxConflicts
                  /\ \A i \in DOMAIN cur.conflicts : cur.conflicts[i] \in Range(m.conflicts)
                  /\ \A i \in DOMAIN news : news[i] \in Range(m.conflicts) \ Range(cur.conflicts)
             /\ m.size >= cur.size /\ m.size >= obs.size
             /\ obs.size >= cur.size => /\ m.size = obs.size /\ m.revision = obs.revision
                                       /\ m.root = obs.root /\ m.key = obs.key
             /\ obs.size < cur.size => m.size = cur.size /\ m.root = cur.root
             /\ cur.conflicts # <<>> \/ obs.size < cur.size => m.conflicts # <<>>
<1>1. PICK had, news : had = cur.conflicts /\ news = Fresh(cur, obs)
  OBVIOUS
<1>2. had \in Seq(Contradiction) /\ IsInjective(had) /\ Len(had) <= MaxConflicts /\ Len(had) \in Nat
      /\ DOMAIN had = 1 .. Len(had)
  BY <1>1 DEF AppRecord
<1>3. /\ news \in Seq(Contradiction) /\ IsInjective(news)
      /\ \A i \in DOMAIN news : news[i] \notin Range(had)
      /\ obs.size < cur.size => news # <<>> \/ had # <<>>
  <2>1. news = Found(Range(had), cur, obs)
    BY <1>1 DEF Fresh
  <2>2. \A x : x \in Range(had) => had # <<>>
    BY <1>2 DEF Range
  <2>. QED
    BY <2>1, <2>2, FoundOK DEF SizeFell
<1>4. PICK all : all = had \o news
  OBVIOUS
<1>5. /\ all \in Seq(Contradiction) /\ IsInjective(all) /\ Len(all) = Len(had) + Len(news)
      /\ \A i \in DOMAIN had : i \in DOMAIN all /\ all[i] = had[i]
      /\ \A i \in DOMAIN news : Len(had) + i \in DOMAIN all /\ all[Len(had) + i] = news[i]
  <2>1. \A i \in DOMAIN had, j \in DOMAIN news : had[i] # news[j]
    BY <1>3 DEF Range
  <2>2. had \in Seq(Contradiction) /\ IsInjective(had) /\ news \in Seq(Contradiction) /\ IsInjective(news)
    BY <1>2, <1>3
  <2>. QED
    BY <1>4, <2>1, <2>2, JoinedOK
<1>5a. DOMAIN all = 1 .. Len(all) /\ Len(news) \in Nat /\ DOMAIN news = 1 .. Len(news)
  BY <1>3, <1>5, LenProperties
<1>6. PICK k : k = Min({Len(all), MaxConflicts})
  OBVIOUS
<1>7. PICK kept : kept = SubSeq(all, 1, k)
  OBVIOUS
<1>8. /\ kept \in Seq(Contradiction) /\ IsInjective(kept)
      /\ Len(kept) <= MaxConflicts /\ Len(kept) <= Len(all)
      /\ Len(kept) < MaxConflicts => kept = all
      /\ Len(kept) < Len(all) => Len(kept) = MaxConflicts
  BY <1>5, <1>6, <1>7, KeptConflictsOK
<1>9. PICK m : m = Merged2(cur, obs)
  OBVIOUS
<1>10. m = IF Followed(cur, obs)
           THEN [size |-> obs.size, revision |-> obs.revision, root |-> obs.root,
                 key |-> obs.key, conflicts |-> kept]
           ELSE [cur EXCEPT !.conflicts = kept]
  BY <1>1, <1>4, <1>6, <1>7, <1>9 DEF Merged2
<1>11. /\ m \in AppRecord /\ m.conflicts = kept
       /\ obs.size >= cur.size => /\ m.size = obs.size /\ m.revision = obs.revision
                                 /\ m.root = obs.root /\ m.key = obs.key
       /\ obs.size < cur.size => m.size = cur.size /\ m.root = cur.root
  <2>1. CASE obs.size >= cur.size
    <3>1. m = [size |-> obs.size, revision |-> obs.revision, root |-> obs.root,
               key |-> obs.key, conflicts |-> kept]
      BY <1>10, <2>1 DEF Followed
    <3>. QED
      BY <1>8, <2>1, <3>1 DEF AppRecord, AppHead
  <2>2. CASE obs.size < cur.size
    <3>1. m = [cur EXCEPT !.conflicts = kept]
      BY <1>10, <2>2 DEF Followed, AppRecord, AppHead
    <3>. QED
      BY <1>8, <2>2, <3>1 DEF AppRecord, AppHead
  <2>. QED
    BY <2>1, <2>2 DEF AppRecord, AppHead
<1>12. m.size >= cur.size /\ m.size >= obs.size
  BY <1>11 DEF AppRecord, AppHead
<1>13. ASSUME Len(kept) < MaxConflicts
       PROVE  /\ Len(had) < MaxConflicts
              /\ \A i \in DOMAIN had : had[i] \in Range(kept)
              /\ \A i \in DOMAIN news : news[i] \in Range(kept) \ Range(had)
  <2>1. kept = all
    BY <1>8, <1>13
  <2>2. Len(had) < MaxConflicts
    BY <1>2, <1>5, <1>5a, <1>13, <2>1, AppNumbers
  <2>. QED
    BY <1>3, <1>5, <1>5a, <2>1, <2>2 DEF Range
<1>14. had # <<>> \/ obs.size < cur.size => kept # <<>>
  <2>. SUFFICES ASSUME had # <<>> \/ news # <<>> PROVE Len(kept) # 0
    BY <1>3
  <2>1. Len(all) > 0
    BY <1>2, <1>3, <1>5, <1>5a
  <2>2. Len(kept) \in Nat
    BY <1>8
  <2>. QED
    BY <1>5, <1>8, <2>1, <2>2, AppNumbers
<1>. QED
  BY <1>1, <1>3, <1>8, <1>9, <1>11, <1>12, <1>13, <1>14

(* A tree's first observation contradicts nothing.                         *)
LEMMA FirstSightOK ==
  ASSUME NEW obs \in AppHead
  PROVE  LET r == FirstSight(obs)
         IN  r \in AppRecord /\ r.size = obs.size /\ r.conflicts = <<>> /\ Fresh(r, obs) = <<>>
<1>1. /\ FirstSight(obs) \in AppRecord /\ FirstSight(obs).size = obs.size
      /\ FirstSight(obs).root = obs.root /\ FirstSight(obs).key = obs.key
      /\ FirstSight(obs).conflicts = <<>>
  BY DEF FirstSight, AppRecord, AppHead
<1>2. Fresh(FirstSight(obs), obs) = (<<>> \o <<>>) \o <<>>
  BY <1>1 DEF Fresh, Found, Unless, SizeFell, AppHead
<1>3. (<<>> \o <<>>) \o <<>> = <<>>
  BY ConcatEmptySeq
<1>. QED
  BY <1>1, <1>2, <1>3

(* Of finitely many things that are measured, one measures most.           *)
LEMMA FiniteRange ==
  ASSUME NEW I, IsFiniteSet(I), NEW T, NEW f \in [I -> T]
  PROVE  IsFiniteSet({f[i] : i \in I})
<1>. DEFINE R == {f[i] : i \in I}
<1>1. f \in Surjection(I, R)
  BY DEF Surjection
<1>. HIDE DEF R
<1>2. IsFiniteSet(R)
  BY <1>1, FS_Surjection
<1>. QED
  BY <1>2 DEF R

LEMMA GreatestMeasure ==
  ASSUME NEW I, IsFiniteSet(I), I # {}, NEW f \in [I -> Nat]
  PROVE  \E i \in I : \A j \in I : f[j] <= f[i]
<1>. DEFINE R == {f[i] : i \in I}
<1>1. R \in SUBSET Nat /\ R # {} /\ IsFiniteSet(R)
  BY FiniteRange
<1>2. PICK b \in Nat : \A x \in R : x <= b
  BY <1>1, FiniteIsBounded
<1>3. R \in SUBSET Int /\ b \in Int
  BY <1>1
<1>4. PICK x \in R : \A y \in R : y <= x
  BY <1>1, <1>2, <1>3, GreatestInt
<1>. QED
  BY <1>4

(* In every window there is a newest head of a tree, and the first such.   *)
LEMMA ForemostExists ==
  ASSUME AppHeadsTypeOK, NEW I \in SUBSET DOMAIN leaves, I # {}
  PROVE  \E i \in I : IsForemost(i, I)
<1>1. /\ leaves \in Seq(AppHead) /\ DOMAIN leaves = 1 .. Len(leaves) /\ Len(leaves) \in Nat
      /\ \A i \in I : i \in Nat /\ leaves[i].revision \in Nat /\ leaves[i].size \in Nat
  <2>1. leaves \in Seq(AppHead)
    BY DEF AppHeadsTypeOK
  <2>2. DOMAIN leaves = 1 .. Len(leaves) /\ Len(leaves) \in Nat /\ \A i \in DOMAIN leaves : leaves[i] \in AppHead
    BY <2>1, LenProperties, ElementOfSeq
  <2>3. \A h \in AppHead : h.revision \in Nat /\ h.size \in Nat
    BY DEF AppHead
  <2>. QED
    BY <2>1, <2>2, <2>3
<1>2. IsFiniteSet(I)
  <2>1. I \subseteq 1 .. Len(leaves)
    BY <1>1
  <2>2. IsFiniteSet(1 .. Len(leaves))
    BY <1>1, FS_Interval
  <2>. QED
    BY <2>1, <2>2, FS_Subset
<1>. DEFINE rev == [i \in I |-> leaves[i].revision]
<1>3. PICK r \in I : \A j \in I : rev[j] <= rev[r]
  <2>1. rev \in [I -> Nat]
    BY <1>1
  <2>. HIDE DEF rev
  <2>. QED
    BY <1>2, <2>1, GreatestMeasure
<1>. DEFINE J == {i \in I : leaves[i].revision = leaves[r].revision}
            size == [i \in J |-> leaves[i].size]
<1>4. PICK s \in J : \A j \in J : size[j] <= size[s]
  <2>1. size \in [J -> Nat] /\ J # {}
    BY <1>1
  <2>2. IsFiniteSet(J)
    BY <1>2, FS_Subset
  <2>. HIDE DEF size, J
  <2>. QED
    BY <2>1, <2>2, GreatestMeasure
<1>. DEFINE K == {i \in J : leaves[i].size = leaves[s].size}
<1>5. PICK i \in K : \A j \in K : i <= j
  <2>1. K \in SUBSET Nat /\ K # {}
    BY <1>1
  <2>. HIDE DEF K
  <2>. QED
    BY <2>1, LeastNat
<1>6. ASSUME NEW j \in I
      PROVE  /\ ~Newer(leaves[j], leaves[i])
             /\ j < i => Newer(leaves[i], leaves[j])
  <2>1. /\ leaves[j].revision <= leaves[i].revision
        /\ leaves[j].revision = leaves[i].revision => leaves[j].size <= leaves[i].size
    BY <1>3, <1>4
  <2>2. leaves[j].revision = leaves[i].revision /\ leaves[j].size = leaves[i].size => i <= j
    BY <1>5
  <2>. QED
    BY <1>1, <2>1, <2>2 DEF Newer
<1>. QED
  BY <1>6 DEF IsForemost

LEMMA NewestOK ==
  ASSUME AppHeadsTypeOK, NEW t \in TreesInWindow
  PROVE  \E i \in InWindow(t) : /\ NewestOf(t) = leaves[i]
                               /\ leaves[i] \in AppHead /\ leaves[i].tree = t
<1>1. InWindow(t) \in SUBSET DOMAIN leaves /\ InWindow(t) # {}
  BY DEF TreesInWindow, InWindow, OfTree
<1>2. \E i \in InWindow(t) : IsForemost(i, InWindow(t))
  BY <1>1, ForemostExists
<1>3. PICK i \in InWindow(t) : NewestOf(t) = leaves[i]
  BY <1>2 DEF NewestOf
<1>. QED
  BY <1>1, <1>3 DEF AppHeadsTypeOK, InWindow, OfTree

-----------------------------------------------------------------------------
LEMMA AppsInitOK == AppHeadsInit => AppsInv
<1>. SUFFICES ASSUME AppHeadsInit PROVE AppsInv
  OBVIOUS
<1>1. Seen = {}
  BY DEF AppHeadsInit, Seen
<1>2. AppHeadsTypeOK
  <2>1. apps \in [Applications -> {Unobserved} \cup AppRecord]
    BY DEF AppHeadsInit
  <2>2. \A S : <<>> \in Seq(S)
    OBVIOUS
  <2>. QED
    BY <2>1, <2>2 DEF AppHeadsInit, AppHeadsTypeOK
<1>3. ReportsOK /\ LargestOK /\ ShrinkingIsKept /\ OnePerTree
  BY <1>1 DEF AppHeadsInit, ReportsOK, LargestOK, ShrinkingIsKept, OnePerTree
<1>4. CleanOK
  BY <1>1 DEF AppHeadsInit, CleanOK
<1>. QED
  BY <1>2, <1>3, <1>4 DEF AppsInv

(* The log grows, and what was observed of it stays.                       *)
LEMMA CommitType ==
  ASSUME AppHeadsTypeOK, Operate
  PROVE  /\ \E h \in AppHead : leaves' = Append(leaves, h)
         /\ misdeeds' \in Nat
         /\ misdeeds' = 0 => misdeeds = 0 /\ \E t \in Applications, rev \in Nat :
                                leaves' = Append(leaves, HonestHead(t, rev))
<1>1. leaves \in Seq(AppHead) /\ misdeeds \in Nat
  BY DEF AppHeadsTypeOK
<1>2. CASE Commit
  <2>1. PICK t \in Applications :
          \E rev \in {Max({0} \cup Revisions(t)) - 1, Max({0} \cup Revisions(t)) + 1, Max({0} \cup Revisions(t)) + 2} \ Revisions(t) :
             rev > 0 /\ leaves' = Append(leaves, HonestHead(t, rev)) /\ misdeeds' = misdeeds
    BY <1>2 DEF Commit
  <2>2. Max({0} \cup Revisions(t)) \in Nat
    <3>. DEFINE I == OfTree(t)
                rev == [i \in I |-> leaves[i].revision]
                R == Revisions(t)
    <3>1. IsFiniteSet(I)
      <4>1. I \subseteq 1 .. Len(leaves) /\ Len(leaves) \in Nat
        BY <1>1, LenProperties DEF OfTree
      <4>2. IsFiniteSet(1 .. Len(leaves))
        BY <4>1, FS_Interval
      <4>. QED
        BY <4>1, <4>2, FS_Subset
    <3>2. rev \in [I -> Nat]
      <4>1. \A i \in OfTree(t) : leaves[i] \in AppHead
        BY <1>1 DEF OfTree
      <4>2. \A h \in AppHead : h.revision \in Nat
        BY DEF AppHead
      <4>. QED
        BY <4>1, <4>2
    <3>3. R = {rev[i] : i \in I}
      BY DEF Revisions
    <3>. HIDE DEF rev, I
    <3>4. IsFiniteSet(R) /\ R \in SUBSET Nat
      <4>1. IsFiniteSet({rev[i] : i \in I})
        BY <3>1, <3>2, FiniteRange
      <4>. QED
        BY <3>2, <3>3, <4>1
    <3>. HIDE DEF R
    <3>5. PICK b \in Nat : \A x \in R : x <= b
      BY <3>4, FiniteIsBounded
    <3>6. {0} \cup R \in SUBSET Nat /\ {0} \cup R # {} /\ \A x \in {0} \cup R : x <= b
      BY <3>4, <3>5
    <3>7. Max({0} \cup R) \in {0} \cup R
      BY <3>6, GreatestOfNats
    <3>. QED
      BY <3>6, <3>7 DEF R
  <2>3. PICK rev \in Nat : leaves' = Append(leaves, HonestHead(t, rev)) /\ misdeeds' = misdeeds
    BY <2>1, <2>2
  <2>4. HonestHead(t, rev) \in AppHead
    BY DEF HonestHead, AppRoot, AppHead, AppRoots, AppKeys
  <2>. QED
    BY <1>1, <2>3, <2>4
<1>3. CASE Misbehave
  <2>1. PICK i \in DOMAIN leaves : \E g \in
          {[leaves[i] EXCEPT !.root = <<"other", leaves[i].revision>>],
           [leaves[i] EXCEPT !.revision = @ + 1, !.size = @ - 1],
           [leaves[i] EXCEPT !.revision = @ + 1, !.size = @ + 1,
                             !.root = AppRoot(leaves[i].revision + 1), !.key = "another"]} :
            g.size >= 0 /\ leaves' = Append(leaves, g)
    BY <1>3 DEF Misbehave
  <2>2. PICK h \in AppHead : h = leaves[i]
    BY <1>1
  <2>3. PICK g : /\ g \in {[h EXCEPT !.root = <<"other", h.revision>>],
                           [h EXCEPT !.revision = @ + 1, !.size = @ - 1],
                           [h EXCEPT !.revision = @ + 1, !.size = @ + 1,
                                     !.root = AppRoot(h.revision + 1), !.key = "another"]}
                 /\ g.size >= 0 /\ leaves' = Append(leaves, g)
    BY <2>1, <2>2
  <2>4. g \in AppHead
    <3>1. /\ <<"other", h.revision>> \in AppRoots /\ <<"root", h.revision + 1>> \in AppRoots
          /\ h.revision + 1 \in Nat /\ h.size + 1 \in Nat /\ "another" \in AppKeys
          /\ h.size \in Nat
      BY DEF AppHead, AppRoots, AppKeys
    <3>2. CASE g = [h EXCEPT !.root = <<"other", h.revision>>]
      BY <3>1, <3>2 DEF AppHead
    <3>3. CASE g = [h EXCEPT !.revision = @ + 1, !.size = @ - 1]
      <4>1. g.size = h.size - 1
        BY <3>3 DEF AppHead
      <4>2. h.size - 1 \in Nat
        BY <2>3, <3>1, <4>1
      <4>. QED
        BY <3>1, <3>3, <4>2 DEF AppHead
    <3>4. CASE g = [h EXCEPT !.revision = @ + 1, !.size = @ + 1,
                             !.root = AppRoot(h.revision + 1), !.key = "another"]
      BY <3>1, <3>4 DEF AppHead, AppRoot
    <3>. QED
      BY <2>3, <3>2, <3>3, <3>4
  <2>5. misdeeds' = misdeeds + 1
    BY <1>3 DEF Misbehave
  <2>. QED
    BY <1>1, <2>3, <2>4, <2>5
<1>. QED
  BY <1>2, <1>3 DEF Operate

LEMMA OperateKeeps == ASSUME AppsInv, Operate PROVE AppsInv'
<1>1. /\ AppHeadsTypeOK /\ ReportsOK /\ LargestOK /\ ShrinkingIsKept /\ OnePerTree
      /\ leaves \in Seq(AppHead)
      /\ UNCHANGED <<apps, scan, reported, observed, overlooked>>
  BY DEF AppsInv, Operate, AppHeadsTypeOK
<1>2. PICK h \in AppHead : leaves' = Append(leaves, h)
  BY <1>1, CommitType
<1>3. AppHeadsTypeOK'
  BY <1>1, <1>2, CommitType DEF AppHeadsTypeOK
<1>4. Seen' = Seen
  BY <1>1 DEF Seen
<1>5. ReportsOK' /\ LargestOK' /\ ShrinkingIsKept' /\ OnePerTree'
  BY <1>1, <1>4 DEF ReportsOK, ConflictsOK, LargestOK, ShrinkingIsKept, OnePerTree
<1>6. ASSUME misdeeds' = 0, ~overlooked' PROVE CleanOK'
  <2>1. CleanOK
    BY <1>1, <1>6, CommitType DEF AppsInv
  <2>2. /\ DOMAIN leaves' = DOMAIN leaves \cup {Len(leaves) + 1}
        /\ \A i \in DOMAIN leaves : leaves'[i] = leaves[i]
        /\ leaves'[Len(leaves) + 1] = h
    BY <1>1, <1>2
  <2>3. HonestLeaf(h)
    <3>1. PICK t \in Applications, rev \in Nat : leaves' = Append(leaves, HonestHead(t, rev))
      BY <1>1, <1>6, CommitType
    <3>2. h = HonestHead(t, rev)
      <4>1. PICK g : g = HonestHead(t, rev)
        OBVIOUS
      <4>2. Append(leaves, h) = Append(leaves, g)
        BY <1>2, <3>1, <4>1
      <4>3. Append(leaves, h)[Len(leaves) + 1] = h /\ Append(leaves, g)[Len(leaves) + 1] = g
        BY <1>1
      <4>. QED
        BY <4>1, <4>2, <4>3
    <3>. QED
      BY <3>2 DEF HonestLeaf, HonestHead
  <2>4. \A i \in DOMAIN leaves' : HonestLeaf(leaves'[i])
    BY <2>1, <2>2, <2>3 DEF CleanOK
  <2>5. \A t : OfTree(t) \subseteq OfTree(t)'
    BY <2>2 DEF OfTree
  <2>6. \A t \in Seen : \E i \in OfTree(t)' :
          /\ apps[t].size = leaves'[i].size /\ apps[t].revision = leaves'[i].revision
          /\ apps[t].root = leaves'[i].root /\ apps[t].key = leaves'[i].key
    <3>. TAKE t \in Seen
    <3>1. PICK i \in OfTree(t) : /\ apps[t].size = leaves[i].size /\ apps[t].revision = leaves[i].revision
                                 /\ apps[t].root = leaves[i].root /\ apps[t].key = leaves[i].key
      BY <2>1 DEF CleanOK
    <3>2. i \in OfTree(t)' /\ leaves'[i] = leaves[i]
      BY <2>2, <2>5 DEF OfTree
    <3>. QED
      BY <3>1, <3>2
  <2>7. \A g \in scan :
          /\ \E i \in DOMAIN leaves' : leaves'[i] = g
          /\ g.tree \in Seen => apps[g.tree].size <= g.size
    BY <2>1, <2>2 DEF CleanOK
  <2>. QED
    <3>1. reported' = <<>> /\ apps' = apps /\ scan' = scan
      BY <1>1, <2>1 DEF CleanOK
    <3>2. \A i \in DOMAIN leaves' : HonestLeaf(leaves[i])'
      BY <2>4 DEF HonestLeaf, HonestHead, AppRoot
    <3>3. \A t \in Seen' : \E i \in OfTree(t)' :
          /\ apps'[t].size = leaves'[i].size /\ apps'[t].revision = leaves'[i].revision
          /\ apps'[t].root = leaves'[i].root /\ apps'[t].key = leaves'[i].key
      BY <1>4, <2>6, <3>1
    <3>4. \A g \in scan' :
            /\ \E i \in DOMAIN leaves' : leaves'[i] = g
            /\ g.tree \in Seen' => apps'[g.tree].size <= g.size
      BY <1>4, <2>7, <3>1
    <3>. QED
      BY <3>1, <3>2, <3>3, <3>4 DEF CleanOK
<1>. QED
  BY <1>3, <1>5, <1>6 DEF AppsInv

(* A scan of a log that is honest, and whose window falls short of nothing,*)
(* finds the last word on every tree.                                      *)
LEMMA ScanKeeps == ASSUME AppsInv, ScanApplications PROVE AppsInv'
<1>1. /\ AppHeadsTypeOK /\ ReportsOK /\ LargestOK /\ ShrinkingIsKept
      /\ leaves' = leaves /\ misdeeds' = misdeeds /\ apps' = apps
      /\ reported' = reported /\ observed' = observed
      /\ scan' = {NewestOf(t) : t \in TreesInWindow}
  BY DEF AppsInv, ScanApplications
<1>2. \A t \in TreesInWindow : NewestOf(t) \in AppHead /\ NewestOf(t).tree = t
                          /\ \E i \in DOMAIN leaves : leaves[i] = NewestOf(t)
  BY <1>1, NewestOK DEF InWindow, OfTree
<1>3. overlooked' \in BOOLEAN
  <2>1. overlooked' = (overlooked \/ \E t \in TreesInWindow : \E i \in OfTree(t) : Newer(leaves[i], NewestOf(t)))
    BY DEF ScanApplications
  <2>. QED
    BY <2>1
<1>4. AppHeadsTypeOK'
  BY <1>1, <1>2, <1>3 DEF AppHeadsTypeOK
<1>5. Seen' = Seen
  BY <1>1 DEF Seen
<1>6. ReportsOK' /\ LargestOK' /\ ShrinkingIsKept'
  BY <1>1, <1>5 DEF ReportsOK, ConflictsOK, LargestOK, ShrinkingIsKept
<1>7. OnePerTree'
  BY <1>1, <1>2 DEF OnePerTree
<1>8. ASSUME misdeeds' = 0, ~overlooked' PROVE CleanOK'
  <2>1. /\ misdeeds = 0 /\ ~overlooked
        /\ \A t \in TreesInWindow : \A i \in OfTree(t) : ~Newer(leaves[i], NewestOf(t))
    BY <1>1, <1>8 DEF ScanApplications
  <2>2. CleanOK
    BY <2>1 DEF AppsInv
  <2>3. \A i \in DOMAIN leaves : leaves[i] \in AppHead /\ leaves[i].size = leaves[i].revision
    <3>1. \A i \in DOMAIN leaves : leaves[i] \in AppHead
      BY <1>1 DEF AppHeadsTypeOK
    <3>2. \A i \in DOMAIN leaves : leaves[i] = HonestHead(leaves[i].tree, leaves[i].revision)
      BY <2>2 DEF CleanOK, HonestLeaf
    <3>3. \A t, rev : HonestHead(t, rev).size = rev
      BY DEF HonestHead
    <3>. QED
      BY <3>1, <3>2, <3>3
  <2>4. ASSUME NEW t \in TreesInWindow
        PROVE  t \in Seen => apps[t].size <= NewestOf(t).size
    <3>. SUFFICES ASSUME t \in Seen PROVE apps[t].size <= NewestOf(t).size
      OBVIOUS
    <3>1. PICK i \in OfTree(t) : apps[t].size = leaves[i].size
      BY <2>2 DEF CleanOK
    <3>2. i \in DOMAIN leaves /\ ~Newer(leaves[i], NewestOf(t))
      BY <2>1, <3>1 DEF OfTree
    <3>3. PICK j \in DOMAIN leaves : leaves[j] = NewestOf(t)
      BY <1>2
    <3>4. leaves[i].revision <= leaves[j].revision
      BY <2>3, <3>2, <3>3 DEF Newer, AppHead
    <3>. QED
      BY <2>3, <3>1, <3>2, <3>3, <3>4
  <2>5. \A h \in scan' :
          /\ \E i \in DOMAIN leaves : leaves[i] = h
          /\ h.tree \in Seen => apps[h.tree].size <= h.size
    BY <1>1, <1>2, <2>4
  <2>6. \A i \in DOMAIN leaves : HonestLeaf(leaves[i])'
    BY <1>1, <2>2 DEF CleanOK, HonestLeaf, HonestHead, AppRoot
  <2>7. \A t \in Seen : \E i \in OfTree(t)' :
          /\ apps[t].size = leaves[i].size /\ apps[t].revision = leaves[i].revision
          /\ apps[t].root = leaves[i].root /\ apps[t].key = leaves[i].key
    BY <1>1, <2>2 DEF CleanOK, OfTree
  <2>8. reported' = <<>>
    BY <1>1, <2>2 DEF CleanOK
  <2>. QED
    BY <1>1, <1>5, <2>5, <2>6, <2>7, <2>8 DEF CleanOK
<1>. QED
  BY <1>4, <1>6, <1>7, <1>8 DEF AppsInv

LEMMA PassOverKeeps == ASSUME AppsInv, NEW h \in scan, PassOver(h) PROVE AppsInv'
<1>1. /\ AppHeadsTypeOK /\ ReportsOK /\ LargestOK /\ ShrinkingIsKept /\ OnePerTree
      /\ leaves' = leaves /\ misdeeds' = misdeeds /\ apps' = apps
      /\ reported' = reported /\ observed' = observed /\ overlooked' = overlooked
      /\ scan' = scan \ {h}
  BY DEF AppsInv, PassOver
<1>2. Seen' = Seen /\ \A t : OfTree(t)' = OfTree(t)
  BY <1>1 DEF Seen, OfTree
<1>3. AppHeadsTypeOK'
  BY <1>1 DEF AppHeadsTypeOK
<1>4. ReportsOK' /\ LargestOK' /\ ShrinkingIsKept' /\ OnePerTree'
  BY <1>1, <1>2 DEF ReportsOK, ConflictsOK, LargestOK, ShrinkingIsKept, OnePerTree
<1>5. ASSUME misdeeds' = 0, ~overlooked' PROVE CleanOK'
  <2>1. CleanOK
    BY <1>1, <1>5 DEF AppsInv
  <2>2. \A i \in DOMAIN leaves : HonestLeaf(leaves[i])'
    BY <1>1, <2>1 DEF CleanOK, HonestLeaf, HonestHead, AppRoot
  <2>3. \A t \in Seen : \E i \in OfTree(t)' :
          /\ apps[t].size = leaves[i].size /\ apps[t].revision = leaves[i].revision
          /\ apps[t].root = leaves[i].root /\ apps[t].key = leaves[i].key
    BY <1>2, <2>1 DEF CleanOK
  <2>4. \A g \in scan' :
          /\ \E i \in DOMAIN leaves : leaves[i] = g
          /\ g.tree \in Seen => apps[g.tree].size <= g.size
    BY <1>1, <2>1 DEF CleanOK
  <2>5. reported' = <<>>
    BY <1>1, <2>1 DEF CleanOK
  <2>. QED
    BY <1>1, <1>2, <2>2, <2>3, <2>4, <2>5 DEF CleanOK
<1>. QED
  BY <1>3, <1>4, <1>5 DEF AppsInv

(* Before a head is recorded there is a record that may be its own.        *)
LEMMA BeforeOK ==
  ASSUME AppHeadsTypeOK, ReportsOK, NEW h \in AppHead
  PROVE  LET cur == Before(h)
         IN  /\ cur \in AppRecord
             /\ IsInjective(cur.conflicts) /\ Len(cur.conflicts) <= MaxConflicts
             /\ h.tree \in Seen => cur = apps[h.tree]
             /\ h.tree \notin Seen => /\ cur = FirstSight(h) /\ cur.size = h.size
                                     /\ cur.conflicts = <<>> /\ Fresh(cur, h) = <<>>
<1>1. h.tree \in Applications
  BY DEF AppHead
<1>2. CASE h.tree \in Seen
  <2>1. apps[h.tree] \in AppRecord /\ Before(h) = apps[h.tree]
    BY <1>1, <1>2 DEF Seen, Before, AppHeadsTypeOK
  <2>. QED
    BY <1>2, <2>1 DEF ReportsOK, ConflictsOK
<1>3. CASE h.tree \notin Seen
  <2>1. Before(h) = FirstSight(h)
    BY <1>1, <1>3 DEF Seen, Before
  <2>2. IsInjective(<<>>) /\ Len(<<>>) = 0
    BY DEF IsInjective
  <2>. QED
    BY <1>3, <2>1, <2>2, FirstSightOK, AppNumbers
<1>. QED
  BY <1>2, <1>3

(* What is said of a head comes after what was said before.                *)
LEMMA SaidOK ==
  ASSUME NEW t \in Applications, NEW news \in Seq(Contradiction),
         NEW old \in Seq(Applications \X Contradiction),
         NEW all, all = old \o [j \in DOMAIN news |-> <<t, news[j]>>]
  PROVE  /\ all \in Seq(Applications \X Contradiction)
         /\ \A i \in DOMAIN all :
              \/ i \in DOMAIN old /\ all[i] = old[i]
              \/ i - Len(old) \in DOMAIN news /\ all[i] = <<t, news[i - Len(old)]>>
         /\ \A i \in DOMAIN all : i \in Int
         /\ news = <<>> => all = old
<1>1. PICK said : said = [j \in DOMAIN news |-> <<t, news[j]>>]
  OBVIOUS
<1>2. DOMAIN news = 1 .. Len(news) /\ Len(news) \in Nat /\ \A j \in DOMAIN news : news[j] \in Contradiction
  BY LenProperties, ElementOfSeq
<1>3. said \in [1 .. Len(news) -> Applications \X Contradiction]
  BY <1>1, <1>2
<1>4. /\ said \in Seq(Applications \X Contradiction) /\ Len(said) = Len(news)
      /\ \A j \in DOMAIN news : said[j] = <<t, news[j]>>
  BY <1>1, <1>2, <1>3
<1>5. /\ all \in Seq(Applications \X Contradiction) /\ Len(all) = Len(old) + Len(said)
      /\ \A i \in 1 .. Len(old) + Len(said) : all[i] = IF i <= Len(old) THEN old[i] ELSE said[i - Len(old)]
  BY <1>1, <1>4, ConcatProperties
<1>6. /\ DOMAIN all = 1 .. Len(old) + Len(said) /\ DOMAIN old = 1 .. Len(old)
      /\ Len(old) \in Nat /\ Len(said) \in Nat
  BY <1>4, <1>5, LenProperties
<1>7. ASSUME NEW i \in DOMAIN all
      PROVE  \/ i \in DOMAIN old /\ all[i] = old[i]
             \/ i - Len(old) \in DOMAIN news /\ all[i] = <<t, news[i - Len(old)]>>
  <2>1. CASE i <= Len(old)
    BY <1>5, <1>6, <2>1
  <2>2. CASE i > Len(old)
    <3>1. i - Len(old) \in DOMAIN news /\ all[i] = said[i - Len(old)]
      <4>1. i \in 1 .. Len(old) + Len(said) /\ Len(said) = Len(news)
        BY <1>4, <1>6
      <4>2. i - Len(old) \in 1 .. Len(news)
        BY <1>2, <1>6, <2>2, <4>1
      <4>3. all[i] = said[i - Len(old)]
        <5>1. ~ (i <= Len(old))
          BY <1>6, <2>2, <4>1
        <5>2. all[i] = IF i <= Len(old) THEN old[i] ELSE said[i - Len(old)]
          BY <1>5, <4>1
        <5>. QED
          BY <5>1, <5>2
      <4>. QED
        BY <1>2, <4>2, <4>3
    <3>. QED
      BY <1>4, <3>1
  <2>. QED
    BY <1>6, <2>1, <2>2
<1>7a. \A i \in DOMAIN all : i \in Int
  BY <1>6
<1>8. news = <<>> => all = old
  <2>. SUFFICES ASSUME news = <<>> PROVE all = old
    OBVIOUS
  <2>1. Len(said) = 0
    BY <1>4
  <2>2. said = <<>>
    BY <1>4, <2>1
  <2>. QED
    BY <1>1, <2>2, ConcatEmptySeq
<1>. QED
  BY <1>5, <1>7, <1>7a, <1>8

LEMMA ObserveKeeps == ASSUME AppsInv, NEW h \in scan, ObserveAppHead(h) PROVE AppsInv'
<1>1. /\ AppHeadsTypeOK /\ ReportsOK /\ LargestOK /\ ShrinkingIsKept /\ OnePerTree
      /\ leaves' = leaves /\ misdeeds' = misdeeds /\ overlooked' = overlooked
      /\ apps' = [apps EXCEPT ![h.tree] = Merged2(Before(h), h)]
      /\ observed' = Append(observed, h)
      /\ scan' = scan \ {h}
  BY DEF AppsInv, ObserveAppHead
<1>2. h \in AppHead /\ h.tree \in Applications
  BY <1>1 DEF AppHeadsTypeOK, AppHead
<1>3. PICK t, cur, m, news : /\ t = h.tree /\ cur = Before(h) /\ m = Merged2(cur, h)
                            /\ news = Fresh(cur, h)
  OBVIOUS
<1>4. /\ cur \in AppRecord /\ IsInjective(cur.conflicts) /\ Len(cur.conflicts) <= MaxConflicts
      /\ t \in Seen => cur = apps[t]
      /\ t \notin Seen => cur.size = h.size /\ cur.conflicts = <<>> /\ news = <<>>
  BY <1>1, <1>2, <1>3, BeforeOK
<1>5. /\ m \in AppRecord /\ news \in Seq(Contradiction) /\ IsInjective(news)
      /\ IsInjective(m.conflicts) /\ Len(m.conflicts) <= MaxConflicts
      /\ Len(m.conflicts) < MaxConflicts =>
           /\ Len(cur.conflicts) < MaxConflicts
           /\ \A i \in DOMAIN cur.conflicts : cur.conflicts[i] \in Range(m.conflicts)
           /\ \A i \in DOMAIN news : news[i] \in Range(m.conflicts) \ Range(cur.conflicts)
      /\ m.size >= cur.size /\ m.size >= h.size
      /\ h.size >= cur.size => /\ m.size = h.size /\ m.revision = h.revision
                              /\ m.root = h.root /\ m.key = h.key
      /\ h.size < cur.size => m.size = cur.size /\ m.root = cur.root
      /\ cur.conflicts # <<>> \/ h.size < cur.size => m.conflicts # <<>>
  BY <1>2, <1>3, <1>4, MergedOK
<1>6. /\ apps' \in [Applications -> {Unobserved} \cup AppRecord]
      /\ apps'[t] = m /\ \A u \in Applications : u # t => apps'[u] = apps[u]
      /\ Seen' = Seen \cup {t} /\ t \in Applications
  <2>1. apps \in [Applications -> {Unobserved} \cup AppRecord] /\ apps' = [apps EXCEPT ![t] = m]
    BY <1>1, <1>3 DEF AppHeadsTypeOK
  <2>2. m # Unobserved
    BY <1>5, RecordIsSeen
  <2>. QED
    BY <1>2, <1>3, <1>5, <2>1, <2>2 DEF Seen
<1>7. /\ reported' \in Seq(Applications \X Contradiction)
      /\ \A i \in DOMAIN reported' :
           \/ i \in DOMAIN reported /\ reported'[i] = reported[i]
           \/ i - Len(reported) \in DOMAIN news /\ reported'[i] = <<t, news[i - Len(reported)]>>
      /\ \A i \in DOMAIN reported' : i \in Int
      /\ news = <<>> => reported' = reported
  <2>1. reported' = reported \o [j \in DOMAIN news |-> <<t, news[j]>>]
    BY <1>3 DEF ObserveAppHead
  <2>2. reported \in Seq(Applications \X Contradiction)
    BY <1>1 DEF AppHeadsTypeOK
  <2>. QED
    BY <1>5, <1>6, <2>1, <2>2, SaidOK
<1>8. /\ observed \in Seq(AppHead) /\ observed' \in Seq(AppHead)
      /\ DOMAIN observed' = DOMAIN observed \cup {Len(observed) + 1}
      /\ \A i \in DOMAIN observed : observed'[i] = observed[i] /\ i \in Nat /\ i <= Len(observed)
      /\ \A i \in DOMAIN observed : observed[i] \in AppHead
      /\ observed'[Len(observed) + 1] = h /\ Len(observed) \in Nat
      /\ Len(observed) + 1 \notin DOMAIN observed
  BY <1>1, <1>2 DEF AppHeadsTypeOK
<1>9. AppHeadsTypeOK'
  BY <1>1, <1>6, <1>7, <1>8 DEF AppHeadsTypeOK
<1>10. ReportsOK'
  <2>1. ASSUME NEW i \in DOMAIN reported' PROVE reported'[i][1] \in Seen'
    <3>1. CASE i \in DOMAIN reported /\ reported'[i] = reported[i]
      BY <1>1, <1>6, <3>1 DEF ReportsOK
    <3>2. CASE reported'[i] = <<t, news[i - Len(reported)]>>
      BY <1>6, <3>2
    <3>. QED
      BY <1>7, <2>1, <3>1, <3>2
  <2>2. ASSUME NEW u \in Seen', u # t PROVE ConflictsOK(u)'
    <3>1. u \in Seen /\ u \in Applications /\ apps'[u] = apps[u]
      BY <1>6, <2>2 DEF Seen
    <3>2. ConflictsOK(u)
      BY <1>1, <3>1 DEF ReportsOK
    <3>3. \A i \in DOMAIN reported' : reported'[i][1] = u => i \in DOMAIN reported /\ reported'[i] = reported[i]
      BY <1>7, <2>2
    <3>. QED
      BY <3>1, <3>2, <3>3 DEF ConflictsOK
  <2>3. ASSUME Len(m.conflicts) < MaxConflicts, NEW i \in DOMAIN reported, reported[i][1] = t
        PROVE  /\ reported[i][2] \in Range(cur.conflicts) /\ reported[i][2] \in Range(m.conflicts)
               /\ \A j \in DOMAIN reported : reported[i] = reported[j] => i = j
    <3>1. t \in Seen /\ cur = apps[t] /\ ConflictsOK(t)
      BY <1>1, <1>4, <2>3 DEF ReportsOK
    <3>2. /\ reported[i][2] \in Range(cur.conflicts)
          /\ \A j \in DOMAIN reported : reported[i] = reported[j] => i = j
      BY <1>5, <2>3, <3>1 DEF ConflictsOK
    <3>. QED
      BY <1>5, <2>3, <3>2 DEF Range
  <2>4. ASSUME Len(m.conflicts) < MaxConflicts, NEW i \in DOMAIN reported', reported'[i][1] = t
        PROVE  reported'[i][2] \in Range(m.conflicts)
    <3>1. CASE i \in DOMAIN reported /\ reported'[i] = reported[i]
      BY <2>3, <2>4, <3>1
    <3>2. CASE i - Len(reported) \in DOMAIN news /\ reported'[i] = <<t, news[i - Len(reported)]>>
      BY <1>5, <2>4, <3>2
    <3>. QED
      BY <1>7, <3>1, <3>2
  <2>5. ASSUME Len(m.conflicts) < MaxConflicts, NEW i \in DOMAIN reported', NEW j \in DOMAIN reported',
               reported'[i][1] = t, reported'[i] = reported'[j]
        PROVE  i = j
    <3>1. PICK x, y, p, q : x = i - Len(reported) /\ y = j - Len(reported) /\ p = reported'[i] /\ q = reported'[j]
      OBVIOUS
    <3>2. p = q /\ p[1] = t /\ q[1] = t
      BY <2>5, <3>1
    <3>3. CASE i \in DOMAIN reported /\ p = reported[i] /\ j \in DOMAIN reported /\ q = reported[j]
      <4>1. reported[i] = reported[j] /\ reported[i][1] = t
        BY <3>2, <3>3
      <4>2. \A k \in DOMAIN reported : reported[i] = reported[k] => i = k
        BY <2>3, <2>5, <3>3, <4>1
      <4>. QED
        BY <3>3, <4>1, <4>2
    <3>4. CASE i \in DOMAIN reported /\ p = reported[i] /\ y \in DOMAIN news /\ q = <<t, news[y]>>
      <4>1. p[2] \in Range(cur.conflicts)
        BY <2>3, <2>5, <3>2, <3>4
      <4>2. news[y] \notin Range(cur.conflicts)
        BY <1>5, <2>5, <3>4
      <4>3. <<t, news[y]>>[2] = news[y]
        OBVIOUS
      <4>. QED
        BY <3>2, <3>4, <4>1, <4>2, <4>3
    <3>5. CASE x \in DOMAIN news /\ p = <<t, news[x]>> /\ j \in DOMAIN reported /\ q = reported[j]
      <4>1. q[2] \in Range(cur.conflicts)
        BY <2>3, <2>5, <3>2, <3>5
      <4>2. news[x] \notin Range(cur.conflicts)
        BY <1>5, <2>5, <3>5
      <4>3. <<t, news[x]>>[2] = news[x]
        OBVIOUS
      <4>. QED
        BY <3>2, <3>5, <4>1, <4>2, <4>3
    <3>6. CASE x \in DOMAIN news /\ p = <<t, news[x]>> /\ y \in DOMAIN news /\ q = <<t, news[y]>>
      <4>1. x = y
        <5>1. \A a, b \in DOMAIN news : news[a] = news[b] => a = b
          BY <1>5 DEF IsInjective
        <5>2. <<t, news[x]>>[2] = <<t, news[y]>>[2]
          BY <3>2, <3>6
        <5>. QED
          BY <3>6, <5>1, <5>2
      <4>2. i \in Int /\ j \in Int /\ Len(reported) \in Int
        BY <1>1, <1>7 DEF AppHeadsTypeOK
      <4>. QED
        BY <3>1, <4>1, <4>2
    <3>. QED
      BY <1>7, <3>1, <3>3, <3>4, <3>5, <3>6
  <2>6. ConflictsOK(t)'
    BY <1>5, <1>6, <2>4, <2>5 DEF ConflictsOK
  <2>7. \A u \in Seen' : ConflictsOK(u)'
    BY <2>2, <2>6
  <2>. QED
    BY <2>1, <2>7 DEF ReportsOK
<1>11. LargestOK'
  <2>1. \A i \in DOMAIN observed' : observed'[i].tree \in Seen'
    BY <1>1, <1>3, <1>6, <1>8 DEF LargestOK
  <2>2. ASSUME NEW u \in Seen', u # t
        PROVE  /\ \A i \in DOMAIN observed' : observed'[i].tree = u => observed'[i].size <= apps'[u].size
               /\ \E i \in DOMAIN observed' :
                    /\ observed'[i].tree = u
                    /\ observed'[i].size = apps'[u].size /\ observed'[i].root = apps'[u].root
    <3>1. u \in Seen /\ u \in Applications /\ apps'[u] = apps[u]
      BY <1>6, <2>2 DEF Seen
    <3>. QED
      BY <1>1, <1>3, <1>8, <2>2, <3>1 DEF LargestOK
  <2>3. ASSUME NEW i \in DOMAIN observed', observed'[i].tree = t PROVE observed'[i].size <= m.size
    <3>1. CASE i \in DOMAIN observed
      <4>1. t \in Seen /\ observed[i].size <= apps[t].size
        BY <1>1, <1>8, <2>3, <3>1 DEF LargestOK
      <4>2. observed[i].size \in Nat /\ m.size \in Nat /\ cur.size \in Nat
        <5>1. observed[i] \in AppHead
          BY <1>8, <3>1
        <5>. QED
          BY <1>4, <1>5, <5>1 DEF AppHead, AppRecord
      <4>. QED
        BY <1>4, <1>5, <1>8, <3>1, <4>1, <4>2
    <3>2. CASE i = Len(observed) + 1
      BY <1>2, <1>5, <1>8, <3>2 DEF AppHead, AppRecord
    <3>. QED
      BY <1>8, <3>1, <3>2
  <2>4. \E i \in DOMAIN observed' :
          observed'[i].tree = t /\ observed'[i].size = m.size /\ observed'[i].root = m.root
    <3>1. CASE h.size >= cur.size
      BY <1>3, <1>5, <1>8, <3>1
    <3>2. CASE h.size < cur.size
      <4>1. t \in Seen /\ cur = apps[t]
        BY <1>2, <1>4, <3>2 DEF AppHead
      <4>2. PICK i \in DOMAIN observed : /\ observed[i].tree = t
                                         /\ observed[i].size = apps[t].size /\ observed[i].root = apps[t].root
        BY <1>1, <4>1 DEF LargestOK
      <4>. QED
        BY <1>5, <1>8, <3>2, <4>1, <4>2
    <3>. QED
      BY <1>2, <1>4, <3>1, <3>2 DEF AppHead, AppRecord
  <2>. QED
    BY <1>6, <2>1, <2>2, <2>3, <2>4 DEF LargestOK
<1>12. ShrinkingIsKept'
  <2>. SUFFICES ASSUME NEW i \in DOMAIN observed', NEW j \in DOMAIN observed',
                       i < j, observed'[i].tree = observed'[j].tree, observed'[j].size < observed'[i].size
                PROVE  apps'[observed'[i].tree].conflicts # <<>>
    BY DEF ShrinkingIsKept
  <2>1. i \in DOMAIN observed /\ observed'[i] = observed[i] /\ observed[i].tree \in Seen
        /\ observed[i].tree \in Applications
    <3>1. i \in DOMAIN observed
      BY <1>8
    <3>. QED
      BY <1>1, <1>8, <3>1 DEF LargestOK, Seen
  <2>2. CASE j \in DOMAIN observed
    <3>1. apps[observed[i].tree].conflicts # <<>>
      BY <1>1, <1>8, <2>1, <2>2 DEF ShrinkingIsKept
    <3>2. CASE observed[i].tree = t
      BY <1>4, <1>5, <1>6, <2>1, <3>1, <3>2
    <3>3. CASE observed[i].tree # t
      BY <1>6, <2>1, <3>1, <3>3
    <3>. QED
      BY <3>2, <3>3
  <2>3. CASE j = Len(observed) + 1
    <3>1. observed[i].tree = t /\ h.size < observed[i].size
      BY <1>3, <1>8, <2>1, <2>3
    <3>2. t \in Seen /\ observed[i].size <= apps[t].size
      BY <1>1, <2>1, <3>1 DEF LargestOK
    <3>3. h.size < cur.size
      <4>1. observed[i].size \in Nat /\ h.size \in Nat /\ cur.size \in Nat
        <5>1. observed[i] \in AppHead
          BY <1>8, <2>1
        <5>. QED
          BY <1>2, <1>4, <5>1 DEF AppHead, AppRecord
      <4>. QED
        BY <1>4, <3>1, <3>2, <4>1
    <3>. QED
      BY <1>5, <1>6, <2>1, <3>1, <3>3
  <2>. QED
    BY <1>8, <2>2, <2>3
<1>13. OnePerTree'
  BY <1>1 DEF OnePerTree
<1>14. ASSUME misdeeds' = 0, ~overlooked' PROVE CleanOK'
  <2>1. CleanOK
    BY <1>1, <1>14 DEF AppsInv
  <2>2. \A i \in DOMAIN leaves : leaves[i] = HonestHead(leaves[i].tree, leaves[i].revision)
    BY <2>1 DEF CleanOK, HonestLeaf
  <2>3. PICK j \in DOMAIN leaves : leaves[j] = h
    BY <2>1 DEF CleanOK
  <2>4. h = HonestHead(h.tree, h.revision)
    BY <2>2, <2>3
  <2>5. news = <<>> /\ h.size >= cur.size
    <3>1. CASE t \notin Seen
      BY <1>2, <1>4, <3>1 DEF AppHead
    <3>2. CASE t \in Seen
      <4>1. PICK i \in OfTree(t) : /\ cur.size = leaves[i].size /\ cur.revision = leaves[i].revision
                                   /\ cur.root = leaves[i].root /\ cur.key = leaves[i].key
        BY <1>4, <2>1, <3>2 DEF CleanOK
      <4>2. i \in DOMAIN leaves /\ leaves[i] = HonestHead(leaves[i].tree, leaves[i].revision)
        BY <2>2, <4>1 DEF OfTree
      <4>3. cur.size = cur.revision /\ cur.root = AppRoot(cur.revision) /\ cur.key = "key"
        <5>1. \A u, rev : /\ HonestHead(u, rev).size = rev /\ HonestHead(u, rev).root = AppRoot(rev)
                         /\ HonestHead(u, rev).key = "key"
          BY DEF HonestHead
        <5>. QED
          BY <4>1, <4>2, <5>1
      <4>4. h.root = AppRoot(h.revision) /\ h.key = "key" /\ h.size = h.revision
        BY <2>4 DEF HonestHead
      <4>5. cur.size <= h.size
        BY <1>3, <1>4, <2>1, <3>2 DEF CleanOK
      <4>6. news = Found(Range(cur.conflicts), cur, h)
        BY <1>3 DEF Fresh
      <4>7. ~ (h.revision = cur.revision /\ h.root # cur.root) /\ ~ (h.key # cur.key)
        BY <4>3, <4>4
      <4>8. ~SizeFell(cur, h)
        BY <1>2, <1>4, <4>5 DEF SizeFell, AppHead, AppRecord
      <4>9. news = (<<>> \o <<>>) \o <<>>
        BY <4>6, <4>7, <4>8 DEF Found, Unless
      <4>10. (<<>> \o <<>>) \o <<>> = <<>>
        BY ConcatEmptySeq
      <4>. QED
        BY <1>2, <1>4, <4>5, <4>9, <4>10 DEF AppHead, AppRecord
    <3>. QED
      BY <3>1, <3>2
  <2>6. reported' = <<>>
    BY <1>7, <2>1, <2>5 DEF CleanOK
  <2>7. m.size = h.size /\ m.revision = h.revision /\ m.root = h.root /\ m.key = h.key
    BY <1>5, <2>5
  <2>8. \A i \in DOMAIN leaves : HonestLeaf(leaves[i])'
    BY <1>1, <2>1 DEF CleanOK, HonestLeaf, HonestHead, AppRoot
  <2>9. ASSUME NEW u \in Seen'
        PROVE  \E i \in OfTree(u)' :
                 /\ apps'[u].size = leaves[i].size /\ apps'[u].revision = leaves[i].revision
                 /\ apps'[u].root = leaves[i].root /\ apps'[u].key = leaves[i].key
    <3>1. CASE u = t
      <4>1. j \in OfTree(u)'
        BY <1>1, <1>3, <2>3, <3>1 DEF OfTree
      <4>. QED
        BY <1>6, <2>3, <2>7, <3>1, <4>1
    <3>2. CASE u # t
      <4>1. u \in Seen /\ u \in Applications /\ apps'[u] = apps[u]
        BY <1>6, <3>2 DEF Seen
      <4>2. OfTree(u)' = OfTree(u)
        BY <1>1 DEF OfTree
      <4>. QED
        BY <2>1, <4>1, <4>2 DEF CleanOK
    <3>. QED
      BY <3>1, <3>2
  <2>10. ASSUME NEW g \in scan'
         PROVE  /\ \E i \in DOMAIN leaves : leaves[i] = g
                /\ g.tree \in Seen' => apps'[g.tree].size <= g.size
    <3>1. g \in scan /\ g # h
      BY <1>1
    <3>2. g.tree # t
      BY <1>1, <1>3, <3>1 DEF OnePerTree
    <3>3. g.tree \in Applications
      BY <1>1, <3>1 DEF AppHeadsTypeOK, AppHead
    <3>. QED
      BY <1>6, <2>1, <3>1, <3>2, <3>3 DEF CleanOK
  <2>. QED
    BY <1>1, <2>6, <2>8, <2>9, <2>10 DEF CleanOK
<1>. QED
  BY <1>9, <1>10, <1>11, <1>12, <1>13, <1>14 DEF AppsInv

LEMMA AppsStep == ASSUME AppsInv, [AppHeadsNext]_appVars PROVE AppsInv'
<1>1. CASE UNCHANGED appVars
  <2>1. UNCHANGED <<leaves, misdeeds, apps, scan, reported, observed, overlooked>>
    BY <1>1 DEF appVars
  <2>2. Seen' = Seen /\ \A t : OfTree(t)' = OfTree(t)
    BY <2>1 DEF Seen, OfTree
  <2>3. AppHeadsTypeOK' /\ ReportsOK' /\ LargestOK' /\ ShrinkingIsKept' /\ OnePerTree'
    BY <2>1, <2>2 DEF AppsInv, AppHeadsTypeOK, ReportsOK, ConflictsOK, LargestOK, ShrinkingIsKept, OnePerTree
  <2>4. CleanOK => CleanOK'
    BY <2>1, <2>2 DEF CleanOK, HonestLeaf, HonestHead, AppRoot
  <2>. QED
    BY <2>1, <2>3, <2>4 DEF AppsInv
<1>2. CASE Operate
  BY <1>2, OperateKeeps
<1>3. CASE ScanApplications
  BY <1>3, ScanKeeps
<1>4. CASE \E h \in scan : ObserveAppHead(h) \/ PassOver(h)
  BY <1>4, ObserveKeeps, PassOverKeeps
<1>. QED
  BY <1>1, <1>2, <1>3, <1>4 DEF AppHeadsNext

LEMMA AppsInvMeans == ASSUME AppsInv PROVE AppsAreJudged
<1>1. /\ AppHeadsTypeOK /\ ReportsOK /\ LargestOK /\ ShrinkingIsKept
      /\ (misdeeds = 0 /\ ~overlooked) => CleanOK
  BY DEF AppsInv
<1>2. \A t \in Seen : apps[t] \in AppRecord
  BY <1>1 DEF AppHeadsTypeOK, Seen
<1>3. HonestAppsAreClean
  BY <1>1 DEF HonestAppsAreClean, CleanOK
<1>4. ReportedOnce
  <2>. SUFFICES ASSUME \A t \in Seen : Cardinality(Range(apps[t].conflicts)) < MaxConflicts,
                       NEW i \in DOMAIN reported, NEW j \in DOMAIN reported, reported[i] = reported[j]
                PROVE  i = j
    BY DEF ReportedOnce, IsInjective
  <2>1. PICK t \in Seen : t = reported[i][1]
    BY <1>1 DEF ReportsOK
  <2>2. PICK c : c = apps[t].conflicts
    OBVIOUS
  <2>3. c \in Seq(Contradiction) /\ IsInjective(c) /\ Len(c) <= MaxConflicts
        /\ (Len(c) < MaxConflicts => \A k, l \in DOMAIN reported :
               reported[k][1] = t /\ reported[k] = reported[l] => k = l)
    <3>1. ConflictsOK(t) /\ apps[t] \in AppRecord
      BY <1>1, <1>2, <2>1 DEF ReportsOK
    <3>2. c \in Seq(Contradiction)
      BY <2>2, <3>1 DEF AppRecord
    <3>. QED
      BY <2>2, <3>1, <3>2 DEF ConflictsOK
  <2>4. Cardinality(Range(c)) = Len(c)
    <3>1. DOMAIN c = 1 .. Len(c) /\ Len(c) \in Nat
      BY <2>3, LenProperties
    <3>2. c \in Bijection(1 .. Len(c), Range(c))
      <4>1. c \in [1 .. Len(c) -> Range(c)]
        BY <2>3, <3>1 DEF Range
      <4>2. \A a, b \in 1 .. Len(c) : c[a] = c[b] => a = b
        BY <2>3, <3>1 DEF IsInjective
      <4>3. \A y \in Range(c) : \E x \in 1 .. Len(c) : c[x] = y
        BY <3>1 DEF Range
      <4>. QED
        BY <4>1, <4>2, <4>3 DEF Bijection, Injection, Surjection, IsInjective
    <3>3. ExistsBijection(1 .. Len(c), Range(c))
      BY <3>2 DEF ExistsBijection
    <3>. QED
      BY <3>1, <3>3, FS_CountingElements
  <2>5. Len(c) < MaxConflicts
    BY <2>2, <2>4
  <2>. QED
    BY <2>1, <2>3, <2>5
<1>5. KeepsTheLargest
  <2>. SUFFICES ASSUME NEW t \in Seen
                PROVE  /\ apps[t].size = Max({h.size : h \in {g \in Range(observed) : g.tree = t}})
                       /\ \E h \in Range(observed) :
                            h.tree = t /\ h.size = apps[t].size /\ h.root = apps[t].root
    BY DEF KeepsTheLargest
  <2>1. /\ \A i \in DOMAIN observed : observed[i].tree = t => observed[i].size <= apps[t].size
        /\ \E i \in DOMAIN observed : /\ observed[i].tree = t
                                     /\ observed[i].size = apps[t].size /\ observed[i].root = apps[t].root
    BY <1>1 DEF LargestOK
  <2>2. PICK S : S = {h.size : h \in {g \in Range(observed) : g.tree = t}}
    OBVIOUS
  <2>3. \A x \in S : \E i \in DOMAIN observed : observed[i].tree = t /\ x = observed[i].size
    BY <2>2 DEF Range
  <2>4. apps[t].size \in S /\ apps[t].size \in Nat
    BY <1>2, <2>1, <2>2 DEF Range, AppRecord
  <2>5. S \in SUBSET Nat
    <3>1. \A i \in DOMAIN observed : observed[i] \in AppHead
      BY <1>1 DEF AppHeadsTypeOK
    <3>. QED
      BY <2>3, <3>1 DEF AppHead
  <2>6. \A x \in S : x <= apps[t].size
    BY <2>1, <2>3
  <2>7. Max(S) \in S /\ \A x \in S : x <= Max(S)
    BY <2>4, <2>5, <2>6, GreatestOfNats
  <2>8. apps[t].size = Max(S)
    <3>1. PICK x, y : x = apps[t].size /\ y = Max(S)
      OBVIOUS
    <3>2. x \in Nat /\ y \in Nat /\ x <= y /\ y <= x
      BY <2>4, <2>5, <2>6, <2>7, <3>1
    <3>3. x = y
      BY <3>2
    <3>. QED
      BY <3>1, <3>3
  <2>. QED
    BY <2>1, <2>2, <2>8 DEF Range
<1>. QED
  BY <1>1, <1>3, <1>4, <1>5 DEF AppsAreJudged

(* Of applications' heads, for any log, any window and any failed write:   *)
(* one that only appends is never reported while the window reaches back to*)
(* its newest head, a contradiction is reported once while there is room to*)
(* remember it, the record is the largest head observed, and a tree that   *)
(* was observed to shrink has a contradiction on record (ObserveAppHead).  *)
THEOREM AppsStayJudged == AppHeadsSpec => []AppsAreJudged
<1>1. AppsInv /\ [AppHeadsNext]_appVars => AppsInv'
  BY AppsStep
<1>2. AppsInv => AppsAreJudged
  BY AppsInvMeans
<1>. QED
  BY AppsInitOK, <1>1, <1>2, PTL DEF AppHeadsSpec
=============================================================================
