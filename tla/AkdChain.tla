------------------------------ MODULE AkdChain ------------------------------
(***************************************************************************)
(* Meta's root chain: the adapter's search for the newest epoch, its walk  *)
(* from the witnessed epoch, the listing of the whole history and its      *)
(* extension (src/internal/source/akd), with the pass that records the     *)
(* history in the store (runBackfill in src/cmd/kt-witness/main.go).       *)
(*                                                                         *)
(* The store holds an object per epoch whose key names two roots.  A root  *)
(* is its epoch and one of Sides: an operator that never lies keeps to one.*)
(* Every request is a step: the log publishes, expires and lies between    *)
(* them, and a cached listing may show an object absent that is there.     *)
(***************************************************************************)
EXTENDS Integers, Sequences, FiniteSets, FiniteSetsExt

CONSTANTS Sides, HonestSide,
          StartEpoch, MaxEpochsPerRound,
          FullEvery,      \* fullBackfillEvery, in hours
          MaxEpoch,       \* bound: the newest epoch
          MaxTampers      \* bound: lies of the operator

ASSUME AkdChainAssumption ==
    /\ HonestSide \in Sides
    /\ {StartEpoch, MaxEpochsPerRound} \subseteq Nat \ {0}
    /\ {FullEvery, MaxEpoch, MaxTampers} \subseteq Nat

VARIABLES objects,    \* epoch -> the links published for it
          ever,       \* epoch -> the links published for it at any time
          tampers,
          witnessedEpoch,  \* the stored head, epoch 0 for none
          chase,      \* the round or the backfill pass in progress
          akdHistory,    \* the store's akdHistory record
          compared,   \* epochs a walk found to follow the one before them
          fullAge,    \* hours since the last full walk
          due,        \* backfillRefresh has passed
          branded     \* a ForkError was recorded

akdVars == <<objects, ever, tampers, witnessedEpoch, chase, akdHistory, compared,
             fullAge, due, branded>>
storeVarsA == <<witnessedEpoch, akdHistory, fullAge, due, branded>>
publicVars == <<objects, ever, tampers>>

Epochs == 1..MaxEpoch
RootsAt(e) == {e} \X Sides
Link(e) == [prev : RootsAt(e - 1), curr : RootsAt(e)]
HonestLink(e) == [prev |-> <<e - 1, HonestSide>>, curr |-> <<e, HonestSide>>]
NoLink == [prev |-> <<>>, curr |-> <<>>]
NoHistory == [to |-> 0]
Newest == Max({0} \cup {e \in Epochs : objects[e] # {}})
Quiet == [pc |-> "quiet"]
Capped(n, top) == IF n < top THEN n ELSE top

-----------------------------------------------------------------------------
(* The operator.  Uploads may be one out of order.                         *)
PublishLink ==
    \E e \in Epochs : \E l \in Link(e) :
      /\ ever[e] = {} /\ e <= Newest + 2
      /\ IF l = HonestLink(e) THEN UNCHANGED tampers
         ELSE tampers < MaxTampers /\ tampers' = tampers + 1
      /\ objects' = [objects EXCEPT ![e] = {l}]
      /\ ever' = [ever EXCEPT ![e] = {l}]
      /\ chase' = IF chase = Quiet THEN chase ELSE [chase EXCEPT !.still = FALSE]
    /\ UNCHANGED <<storeVarsA, compared>>

(* An object replaced, or a second one beside it.                          *)
Tamper ==
    \E e \in Epochs : \E l \in Link(e) :
      /\ objects[e] # {} /\ l \notin objects[e]
      /\ tampers < MaxTampers /\ tampers' = tampers + 1
      /\ objects' \in {[objects EXCEPT ![e] = {l}], [objects EXCEPT ![e] = @ \cup {l}]}
      /\ ever' = [ever EXCEPT ![e] = @ \cup {l}]
      /\ chase' = IF chase = Quiet THEN chase ELSE [chase EXCEPT !.still = FALSE]
      /\ UNCHANGED <<storeVarsA, compared>>

ExpireOldest ==
    /\ Cardinality({e \in Epochs : objects[e] # {}}) > 1
    /\ LET e == Min({x \in Epochs : objects[x] # {}}) IN objects' = [objects EXCEPT ![e] = {}]
    /\ chase' = IF chase = Quiet THEN chase ELSE [chase EXCEPT !.still = FALSE]
    /\ UNCHANGED <<ever, tampers, storeVarsA, compared>>

-----------------------------------------------------------------------------
(* linkAt.  Two objects and a failed request end the pass, which changes   *)
(* nothing: see GiveUp.                                                    *)
LinkAnswers(e) ==
    IF e \notin Epochs \/ objects[e] = {} THEN {NoLink}
    ELSE IF Cardinality(objects[e]) = 1 THEN {NoLink} \cup objects[e]
    ELSE {}

(* still: nothing moved and nothing present was answered absent.           *)
Believable(e, l) == l = NoLink => e \notin Epochs \/ objects[e] = {}

TipSearch(why, hint) ==
    [pc |-> "back", why |-> why, at |-> hint, lo |-> hint, hi |-> 0, step |-> 1,
     link |-> NoLink, tip |-> 0, gaps |-> {}, from |-> hint, still |-> TRUE]

GiveUp ==
    /\ chase # Quiet
    /\ chase' = Quiet
    /\ UNCHANGED <<publicVars, storeVarsA, compared>>

Boundary(c) == c.hi - c.lo <= 1

(* findTip, a request at a time: back by doubling steps to an epoch that   *)
(* is there, up by doubling steps to one that is not, then between them.   *)
SearchAsks ==
    CASE chase.pc = "back" -> chase.at
      [] chase.pc = "up" -> chase.lo + chase.step
      [] chase.pc = "bisect" -> chase.lo + (chase.hi - chase.lo) \div 2

StepBack(c) ==
    LET lower == Max({1, c.at - c.step})
    IN IF lower = c.at THEN Quiet ELSE [c EXCEPT !.at = lower, !.step = 2 * @]

Narrowed(c, e, l) ==
    LET n == IF l = NoLink THEN [c EXCEPT !.hi = e]
             ELSE [c EXCEPT !.lo = e, !.link = l, !.step = IF c.pc = "back" THEN 1 ELSE 2 * @]
    IN CASE n.hi = 0 -> [n EXCEPT !.pc = "up"]
         [] n.hi > 0 /\ Boundary(n) -> [n EXCEPT !.pc = "found", !.tip = n.lo, !.lo = 0, !.hi = 0, !.step = 0, !.at = 0]
         [] OTHER -> [n EXCEPT !.pc = "bisect"]

FindTip ==
    /\ chase.pc \in {"back", "up", "bisect"}
    /\ \E l \in LinkAnswers(SearchAsks) :
         LET c == [chase EXCEPT !.still = @ /\ Believable(SearchAsks, l)]
         IN chase' = IF chase.pc = "back" /\ l = NoLink THEN StepBack(c)
                     ELSE Narrowed(c, SearchAsks, l)
    /\ UNCHANGED <<publicVars, storeVarsA, compared>>

-----------------------------------------------------------------------------
(* A round: Fetch, Process's gate for a derived head, VerifyConsistency.   *)

(* Cloudflare's view, when configured, is checked against the store before *)
(* it is a hint.                                                           *)
RoundBegins ==
    /\ chase = Quiet /\ ~branded
    /\ \E hint \in {StartEpoch} \cup {e \in Epochs : objects[e] # {}} :
         hint >= StartEpoch /\ chase' = TipSearch("round", hint)
    /\ UNCHANGED <<publicVars, storeVarsA, compared>>

RoundTarget == IF witnessedEpoch.epoch > 0 /\ chase.tip - witnessedEpoch.epoch > MaxEpochsPerRound
          THEN witnessedEpoch.epoch + MaxEpochsPerRound ELSE chase.tip

(* The head reported: the tip found, or a step towards it read anew.       *)
HeadFetched ==
    /\ chase.pc = "found" /\ chase.why = "round"
    /\ \E l \in IF RoundTarget = chase.tip THEN {chase.link} ELSE LinkAnswers(RoundTarget) \ {NoLink} :
         CASE witnessedEpoch.epoch = 0 ->
                /\ witnessedEpoch' = [epoch |-> RoundTarget, root |-> l.curr]
                /\ chase' = Quiet
           [] witnessedEpoch.epoch > 0 /\ RoundTarget > witnessedEpoch.epoch ->
                /\ chase' = [chase EXCEPT !.pc = "walk", !.tip = RoundTarget, !.link = l,
                             !.at = witnessedEpoch.epoch + 1,
                             !.lo = witnessedEpoch.root]
                /\ UNCHANGED witnessedEpoch
           [] OTHER -> chase' = Quiet /\ UNCHANGED witnessedEpoch
    /\ UNCHANGED <<publicVars, akdHistory, fullAge, due, branded, compared>>

(* Variant: what an epoch says it follows is not compared.                 *)
FollowsAny(l, root) == TRUE
Follows(l, root) == l.prev = root

(* chase.lo is the root expected here.  An absent epoch withholds.         *)
WalkEpoch ==
    /\ chase.pc = "walk"
    /\ \E l \in LinkAnswers(chase.at) \ {NoLink} :
         LET last == chase.at = chase.tip
             fork == ~Follows(l, chase.lo) \/ (last /\ l.curr # chase.link.curr)
         IN /\ branded' = (branded \/ fork)
            /\ chase' = IF fork \/ last THEN Quiet
                        ELSE [chase EXCEPT !.at = @ + 1, !.lo = l.curr]
            /\ witnessedEpoch' = IF last /\ ~fork
                                 THEN [epoch |-> chase.tip, root |-> l.curr] ELSE witnessedEpoch
    /\ UNCHANGED <<publicVars, akdHistory, fullAge, due, compared>>

-----------------------------------------------------------------------------
(* runBackfill.                                                            *)
HourPasses ==
    /\ ~due /\ chase = Quiet
    /\ due' = TRUE
    /\ akdHistory' = IF akdHistory = NoHistory THEN akdHistory
                  ELSE [akdHistory EXCEPT !.age = Capped(@ + 1, FullEvery + 1)]
    /\ fullAge' = Capped(fullAge + 1, FullEvery + 2)
    /\ UNCHANGED <<publicVars, witnessedEpoch, chase, compared, branded>>

BackfillBegins ==
    /\ due /\ chase = Quiet
    /\ due' = FALSE
    /\ chase' = IF akdHistory = NoHistory \/ akdHistory.age > FullEvery
                THEN [pc |-> "list", why |-> "full", at |-> 1, read |-> [e \in Epochs |-> NoLink],
                      still |-> TRUE]
                ELSE TipSearch("extend", akdHistory.to)
    /\ UNCHANGED <<publicVars, witnessedEpoch, akdHistory, compared, fullAge, branded>>

(* listPage, a page of one key: two differing objects end the pass.        *)
ListPage ==
    /\ chase.pc = "list" /\ chase.at \in Epochs
    /\ \E l \in LinkAnswers(chase.at) :
         chase' = [chase EXCEPT !.read[chase.at] = l, !.at = @ + 1]
    /\ UNCHANGED <<publicVars, storeVarsA, compared>>

(* runBackfill's record; VerifiedAt is now.                                *)
RecordAkdHistory(from, to, gaps) ==
    akdHistory' = [from |-> from, to |-> to, gaps |-> gaps, age |-> 0]

(* Backfill, all pages read.                                               *)
Joins(read) == {e \in Epochs : e > 1 /\ read[e] # NoLink /\ read[e - 1] # NoLink}

HistoryListed ==
    /\ chase.pc = "list" /\ chase.at \notin Epochs
    /\ chase' = Quiet
    /\ LET there == {e \in Epochs : chase.read[e] # NoLink}
           fork == \E e \in Joins(chase.read) : ~Follows(chase.read[e], chase.read[e - 1].curr)
       IN IF there = {} THEN UNCHANGED <<akdHistory, fullAge, branded, compared>>
          ELSE IF fork THEN branded' = TRUE /\ UNCHANGED <<akdHistory, fullAge, compared>>
          ELSE /\ RecordAkdHistory(Min(there), Max(there), (Min(there)..Max(there)) \ there)
               /\ compared' = compared \cup Joins(chase.read)
               /\ fullAge' = 0
               /\ UNCHANGED branded
    /\ UNCHANGED <<publicVars, witnessedEpoch, due>>

(* BackfillFrom: the range is the prior one and the new tail.              *)
Extended(to, gaps) == RecordAkdHistory(akdHistory.from, to, akdHistory.gaps \cup gaps)

NothingNew ==
    /\ chase.pc = "found" /\ chase.why = "extend" /\ chase.tip <= chase.from
    /\ Extended(chase.from, {})
    /\ chase' = Quiet
    /\ UNCHANGED <<publicVars, witnessedEpoch, compared, fullAge, due, branded>>

(* Variant: the join of the new tail to what is recorded is not read.      *)
AnchorUnread ==
    /\ chase.pc = "found" /\ chase.why = "extend" /\ chase.tip > chase.from
    /\ chase' = [chase EXCEPT !.pc = "extend", !.link = NoLink, !.at = chase.from + 1]
    /\ UNCHANGED <<publicVars, storeVarsA, compared>>

(* The epoch already trusted is read again, to link the first new one to;  *)
(* absent, it asks for a full walk, which is an error here.                *)
Anchor ==
    /\ chase.pc = "found" /\ chase.why = "extend" /\ chase.tip > chase.from
    /\ \E l \in LinkAnswers(chase.from) \ {NoLink} :
         chase' = [chase EXCEPT !.pc = "extend", !.link = l, !.at = chase.from + 1]
    /\ UNCHANGED <<publicVars, storeVarsA, compared>>

ExtendByOne ==
    /\ chase.pc = "extend" /\ chase.at <= chase.tip
    /\ \E l \in LinkAnswers(chase.at) :
         LET joined == l # NoLink /\ chase.link # NoLink
             fork == joined /\ ~Follows(l, chase.link.curr)
         IN /\ branded' = (branded \/ fork)
            /\ compared' = IF joined /\ ~fork THEN compared \cup {chase.at} ELSE compared
            /\ chase' = IF fork THEN Quiet
                        ELSE [chase EXCEPT !.link = l, !.at = @ + 1,
                              !.gaps = IF l = NoLink THEN @ \cup {chase.at} ELSE @]
    /\ UNCHANGED <<publicVars, witnessedEpoch, akdHistory, fullAge, due>>

HistoryExtended ==
    /\ chase.pc = "extend" /\ chase.at > chase.tip
    /\ Extended(chase.tip, chase.gaps)
    /\ chase' = Quiet
    /\ UNCHANGED <<publicVars, witnessedEpoch, compared, fullAge, due, branded>>

AkdChainInit ==
    /\ objects = [e \in Epochs |-> {}] /\ ever = objects /\ tampers = 0
    /\ witnessedEpoch = [epoch |-> 0, root |-> <<>>]
    /\ chase = Quiet /\ akdHistory = NoHistory /\ compared = {}
    /\ fullAge = 0 /\ due = TRUE /\ branded = FALSE

(* Rounds and passes over the history share nothing but the objects both   *)
(* read, so a behaviour is of one kind or of the other.                    *)
Operator == PublishLink \/ Tamper \/ ExpireOldest
AkdRoundsNext == Operator \/ FindTip \/ RoundBegins \/ HeadFetched \/ WalkEpoch \/ GiveUp
AkdHistoryNext ==
    \/ Operator \/ FindTip \/ GiveUp
    \/ HourPasses \/ BackfillBegins \/ ListPage \/ HistoryListed
    \/ NothingNew \/ Anchor \/ ExtendByOne \/ HistoryExtended

AkdRoundsSpec == AkdChainInit /\ [][AkdRoundsNext]_akdVars
AkdHistorySpec == AkdChainInit /\ [][AkdHistoryNext]_akdVars

-----------------------------------------------------------------------------
AkdChainTypeOK ==
    /\ \A e \in Epochs : objects[e] \subseteq ever[e] /\ ever[e] \subseteq Link(e)
    /\ witnessedEpoch.epoch > 0 => witnessedEpoch.root \in RootsAt(witnessedEpoch.epoch)
    /\ "lo" \in DOMAIN chase => chase.at >= 0
    /\ compared \subseteq Epochs /\ {due, branded} \subseteq BOOLEAN
    /\ fullAge \in 0..FullEvery + 2
    /\ akdHistory = NoHistory \/ (akdHistory.from <= akdHistory.to /\ akdHistory.to \in Epochs)

(* A search nothing disturbed ends at the newest epoch, wherever its hint  *)
(* was, on a store without holes (akd.go findTip).                         *)
TipIsFound ==
    /\ chase.pc = "found" /\ chase.still
    /\ \A e \in Epochs : e < Newest /\ e >= chase.tip => objects[e] # {}
    => chase.tip = Newest

(* The witnessed root moves only along links the store has published, one  *)
(* for every epoch passed, whatever is replaced, doubled or missing while  *)
(* the walk is under way.                                                  *)
WitnessesAChain ==
    [][witnessedEpoch.epoch > 0 /\ witnessedEpoch' # witnessedEpoch =>
         /\ witnessedEpoch'.epoch > witnessedEpoch.epoch
         /\ \E side \in [witnessedEpoch.epoch..witnessedEpoch'.epoch -> Sides] :
              /\ witnessedEpoch.root[2] = side[witnessedEpoch.epoch]
              /\ witnessedEpoch'.root[2] = side[witnessedEpoch'.epoch]
              /\ \A e \in witnessedEpoch.epoch + 1..witnessedEpoch'.epoch :
                   [prev |-> <<e - 1, side[e - 1]>>, curr |-> <<e, side[e]>>] \in ever[e]]_akdVars

(* Every join of two epochs in the recorded history was compared or is     *)
(* next to a recorded gap, after any number of extensions (incremental.go: *)
(* "an unchecked join, precisely the seam an operator would choose to      *)
(* rewrite").                                                              *)
JoinsAreCompared ==
    akdHistory # NoHistory =>
      \A e \in akdHistory.from + 1..akdHistory.to :
        e \in compared \/ {e - 1, e} \cap akdHistory.gaps # {}

(* Absence, delay, expiry and uploads out of order never brand an operator *)
(* whose objects all link (akd.go VerifyConsistency, "absence alone never  *)
(* qualifies").                                                            *)
BrandedForALie == branded => tampers > 0

(* main.go:2057, "A daily full walk closes that": history just recorded    *)
(* was walked in full within the day.                                      *)
WalkedInFullDaily ==
    akdHistory # NoHistory /\ akdHistory.age = 0 => fullAge <= FullEvery + 1

(* The chain as the witness reads it from an object store that changes     *)
(* under it: the tip is found, joins of walks are compared, and a fork is  *)
(* recorded only of an operator that lied.                                 *)
ChainIsRead == AkdChainTypeOK /\ TipIsFound /\ JoinsAreCompared /\ BrandedForALie
=============================================================================
