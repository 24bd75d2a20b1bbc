------------------------------ MODULE Witness ------------------------------
(***************************************************************************)
(* The witness core for one log: internal/witness (Process, fork) on       *)
(* internal/store (heads, forks, poisoned, retractions).                   *)
(*                                                                         *)
(* Every key of the store is the log's origin, so logs do not interact     *)
(* and one origin is modelled.  Rounds of Process interleave between the   *)
(* store transactions and the calls to the source: the poller runs one     *)
(* round at a time, add-checkpoint handlers run one each, and the auditor, *)
(* worker results and backfill record findings beside them.                *)
(***************************************************************************)
EXTENDS Heads

CONSTANTS
  Views,        \* the histories the log serves; one, if it is honest
  Pollers,      \* at most one: round() starts one Process per source
  Pushers,      \* concurrent add-checkpoint requests
  Adapters,     \* the source packages that may be the one polling it
  Faults,       \* what may go wrong: see FaultKinds
  Refreshing,   \* RefreshInterval > 0
  MaxRestarts   \* bound: process starts after the first

AdapterKinds ==
  {"c2sp", "sigsum", "akd", "signal", "proton", "apple", "keytrans"}

(* "content": the log publishes entries or epochs that do not reconstruct  *)
(* its roots.  "proof": the transport delivers a consistency proof that    *)
(* does not verify.  "store": a bbolt write fails.                         *)
FaultKinds == {"content", "proof", "store"}

ASSUME WitnessAssumption ==
  /\ Pollers \cap Pushers = {}
  /\ Adapters \subseteq AdapterKinds
  /\ Faults \subseteq FaultKinds
  /\ Refreshing \in BOOLEAN
  /\ MaxRestarts \in Nat

Rounds == Pollers \cup Pushers

VARIABLES
  views,       \* the log: its current tree on each view
  head,        \* bucket heads: the tree of the stored record, or None
  due,         \* RefreshInterval has passed since the record's WitnessedAt
  forks,       \* bucket forks: findings in the order they were detected
  poisoned,    \* bucket poisoned: the finding that set it, 0 when absent
  retraction,  \* bucket retractions: the finding it names, 0 when absent
  round,       \* each round of Process: program point and locals
  adapter,     \* the source package configured for the log
  mode,        \* what this process was started to do
  restarts,
  cosigned     \* every tree whose cosigned note was ever stored

storeVars == <<head, due, forks, poisoned, retraction, cosigned>>
procVars == <<adapter, mode, restarts>>
vars == <<views, storeVars, round, procVars>>

-----------------------------------------------------------------------------
(* Values *)

Finding == [by : {"heads", "fetch", "content"},
            prev : Trees \cup {None}, next : Trees \cup {None}]

Outcomes == {"none", "cosigned", "unchanged", "withheld", "stale", "raced",
             "moved", "badproof", "forked", "conflict"}

PC == {"idle", "received", "checked", "got", "fetched", "sign", "fork"}

Round == [pc   : PC,
          prev : Trees \cup {None},      \* the stored record it read
          due  : BOOLEAN,                \*   and whether that one was due
          next : Trees \cup {None},      \* the head its source gave it
          by   : {"heads", "fetch", "content"},
          \* A push: the request, what the handler noted, what Process said.
          old   : 0..MaxSize,  good : BOOLEAN,
          split : BOOLEAN,     force : BOOLEAN,
          out   : Outcomes]

Idle == [pc |-> "idle", prev |-> None, due |-> FALSE, next |-> None,
         by |-> "heads", old |-> 0, good |-> FALSE, split |-> FALSE,
         force |-> FALSE, out |-> "none"]

(* Every head the log has signed: the tip of a view, or an older head that *)
(* a lagging replica still serves.                                         *)
Served == {t \in Trees : \E v \in Views : IsPrefix(t, views[v])}

Equivocated == \E v, w \in Views : ~Comparable(views[v], views[w])

-----------------------------------------------------------------------------
(* The adapters: what they may say about two heads *)

DerivedHead == adapter = "akd"
(* "content" is c2sp's entry mismatch, "moved" and "badproof" a push's.    *)
GateVerdicts == {"ok", "heads", "content", "withheld", "moved", "badproof"}

AccusesOnWalk == adapter \in {"c2sp", "sigsum", "akd", "proton"}
AccusesOnFetch == adapter \in {"signal", "proton"}

(* A polled source's VerifyConsistency(old, new).  Before a first head most*)
(* sources have nothing to check.  The akd and proton walks read the epochs*)
(* one by one, so a log with two histories may break the chain it walks    *)
(* whatever the two ends are.                                              *)
MayWithhold(old) ==
  CASE adapter \in {"c2sp", "keytrans"} -> TRUE
    [] adapter = "sigsum" -> Size(old) > 0
    [] OTHER -> old # None

WalkBreaks(old, new) ==
  \/ AccusesOnWalk /\ ~Extends(new, old)
  \/ adapter \in {"akd", "proton"} /\ old # None /\ Equivocated
  \/ adapter = "proton" /\ old # None /\ "content" \in Faults
  \/ adapter = "sigsum" /\ Size(old) > 0 /\ "proof" \in Faults

(* Variant: the first release's c2sp adapter, for which growth from the    *)
(* empty tree had no proof (c2sp.go:211-220).                              *)
PollVerdictsEmptyTreeStuck(old, new) ==
  {v \in GateVerdicts :
     \/ v = "ok" /\ Extends(new, old) /\ (old = None \/ Len(old) > 0)
     \/ v = "withheld" /\ MayWithhold(old)}

(* Variant: a walk that looks only at the number of epochs.                *)
PollVerdictsByLength(old, new) == {v \in GateVerdicts : v \in {"ok", "withheld"}}

PollVerdicts(old, new) ==
  {v \in GateVerdicts :
     \/ v = "ok" /\ Extends(new, old)
     \/ v = "withheld" /\ MayWithhold(old)
     \/ v = "heads" /\ WalkBreaks(old, new)
     \/ v = "content" /\ adapter = "c2sp" /\ "content" \in Faults
                      /\ Extends(new, old) /\ Len(new) > Size(old)}

(* pushedSource.VerifyConsistency: the pushed proof speaks only about the  *)
(* pair of trees the request named.                                        *)
(* Variant: a proof that fails is put down to a race.                      *)
PushVerdictsBlameRace(r, old, new) ==
  IF /\ Size(old) = round[r].old /\ new = round[r].next
     /\ Size(old) = 0 \/ (round[r].good /\ Extends(new, old))
  THEN {"ok"} ELSE {"moved"}

PushVerdicts(r, old, new) ==
  IF Size(old) # round[r].old \/ new # round[r].next THEN {"moved"}
  ELSE IF Size(old) = 0 \/ (round[r].good /\ Extends(new, old)) THEN {"ok"}
  ELSE {"badproof"}

Verdicts(r, old, new) ==
  IF r \in Pushers THEN PushVerdicts(r, old, new) ELSE PollVerdicts(old, new)

-----------------------------------------------------------------------------
(* Process, one action per store transaction or call to the source *)

At(r, pc) == round[r].pc = pc

(* Process returns; a handler goes on with its request and the outcome.    *)
Return(r, out) ==
  round' = [round EXCEPT ![r] =
              IF r \in Pushers
              THEN [Idle EXCEPT !.out = out, !.next = round[r].next,
                                !.old = round[r].old, !.split = round[r].split]
              ELSE Idle]

Accuse(r, by) == round' = [round EXCEPT ![r].pc = "fork", ![r].by = by]

Goto(r, pc) == round' = [round EXCEPT ![r].pc = pc]

(* Variant: a same-size conflict is a split whether or not the log is known*)
(* to have forked.                                                         *)
ReceiveAlwaysSplit(r) ==
  /\ r \in Pushers /\ At(r, "idle")
  /\ \E t \in Served :
       round' = [round EXCEPT ![r] =
         [Idle EXCEPT !.pc = "received", !.next = t, !.old = Size(head),
            !.split = head # None /\ Len(t) = Len(head) /\ t # head]]
  /\ UNCHANGED <<views, storeVars, procVars>>

(* push.serve, up to Process: a checkpoint the log signed, the size the log*)
(* believes is stored, and a proof.  RecordFork never moves the head, so   *)
(* the IsForked a same-size conflict asks for is taken with the read.      *)
Receive(r) ==
  /\ r \in Pushers /\ At(r, "idle")
  /\ \E t \in Served, old \in 0..MaxSize, good \in BOOLEAN :
       LET same == head # None /\ Len(t) = Len(head) IN
       /\ old <= Len(t)
       /\ round' = [round EXCEPT ![r] =
            IF old # Size(head)
            THEN [Idle EXCEPT !.next = t, !.old = old, !.out = "conflict"]
            ELSE [Idle EXCEPT !.pc = "received", !.next = t, !.old = old,
                    !.good  = good,
                    !.split = same /\ t # head /\ poisoned = 0,
                    !.force = same /\ (t = head \/ poisoned # 0)]]
  /\ UNCHANGED <<views, storeVars, procVars>>

(* Variant: Process does not ask whether the log is poisoned.              *)
BeginUnchecked(r) ==
  /\ \/ r \in Pollers /\ mode = "serve" /\ At(r, "idle")
     \/ At(r, "received")
  /\ Goto(r, "checked")
  /\ UNCHANGED <<views, storeVars, procVars>>

(* IsForked, the first thing Process does with a source.                   *)
Begin(r) ==
  /\ \/ r \in Pollers /\ mode = "serve" /\ At(r, "idle")
     \/ At(r, "received")
  /\ IF poisoned # 0 THEN Return(r, "forked") ELSE Goto(r, "checked")
  /\ UNCHANGED <<views, storeVars, procVars>>

Get(r) ==
  /\ At(r, "checked")
  /\ round' = [round EXCEPT ![r].pc = "got", ![r].prev = head, ![r].due = due]
  /\ UNCHANGED <<views, storeVars, procVars>>

Fetch(r, t) ==
  /\ At(r, "got")
  /\ IF r \in Pushers THEN t = round[r].next ELSE t \in Served
  /\ round' = [round EXCEPT ![r].pc = "fetched", ![r].next = t]
  /\ UNCHANGED <<views, storeVars, procVars>>

FetchFails(r) ==
  /\ At(r, "got") /\ r \in Pollers
  /\ Return(r, "withheld")
  /\ UNCHANGED <<views, storeVars, procVars>>

(* A contradiction the source sees while fetching: an epoch committed      *)
(* twice, auditors whose signed roots imply different service roots.  The  *)
(* first is also what any failure to record the epoch is taken for, the    *)
(* second what an auditor's broken proof looks like.                       *)
FetchForks(r) ==
  /\ At(r, "got") /\ r \in Pollers
  /\ AccusesOnFetch
  /\ \/ Equivocated
     \/ adapter = "proton" /\ "store" \in Faults
     \/ adapter = "signal" /\ "proof" \in Faults
  /\ Accuse(r, "fetch")
  /\ UNCHANGED <<views, storeVars, procVars>>

Smaller(r) == Len(round[r].next) < Size(round[r].prev)
Larger(r) == round[r].prev = None \/ Len(round[r].next) > Size(round[r].prev)

(* Variant: the size alone accuses, as it once accused sum.golang.org.     *)
RegressionAccuses(r, verdict) ==
  /\ At(r, "fetched") /\ Smaller(r)
  /\ verdict = "ok"
  /\ Accuse(r, "heads")
  /\ UNCHANGED <<views, storeVars, procVars>>

(* Variant: a stale replica's consistent head is signed again.             *)
RegressionSigns(r, verdict) ==
  /\ At(r, "fetched") /\ Smaller(r)
  /\ verdict = "ok" /\ verdict \in Verdicts(r, round[r].next, round[r].prev)
  /\ Goto(r, "sign")
  /\ UNCHANGED <<views, storeVars, procVars>>

(* Gate 1, a head smaller than the witnessed one.  Whatever contradiction  *)
(* the source reports, Process accuses the two heads.                      *)
Regression(r, verdict) ==
  /\ At(r, "fetched") /\ Smaller(r)
  /\ ~DerivedHead
  /\ verdict \in Verdicts(r, round[r].next, round[r].prev)
  /\ CASE verdict \in {"heads", "content"} -> Accuse(r, "heads")
       [] verdict = "ok" -> Return(r, "withheld")
       [] OTHER -> Return(r, verdict)
  /\ UNCHANGED <<views, storeVars, procVars>>

(* Variant: a split view is withheld from and retried.                     *)
SplitViewWithholds(r) ==
  /\ At(r, "fetched") /\ ~Smaller(r) /\ ~Larger(r)
  /\ round[r].next # round[r].prev
  /\ Return(r, "withheld")
  /\ UNCHANGED <<views, storeVars, procVars>>

(* Gate 1, another root at the witnessed size.                             *)
SplitView(r) ==
  /\ At(r, "fetched") /\ ~Smaller(r) /\ ~Larger(r)
  /\ ~DerivedHead /\ round[r].next # round[r].prev
  /\ Accuse(r, "heads")
  /\ UNCHANGED <<views, storeVars, procVars>>

(* Variant: a derived head is taken for the log's signed statement.        *)
AccuseDerived(r) ==
  /\ At(r, "fetched") /\ ~Larger(r) /\ round[r].next # round[r].prev
  /\ Accuse(r, "heads")
  /\ UNCHANGED <<views, storeVars, procVars>>

(* Gate 1, a derived head that regresses or splits accuses nobody.         *)
WithholdDerived(r) ==
  /\ At(r, "fetched") /\ DerivedHead
  /\ ~Larger(r) /\ round[r].next # round[r].prev
  /\ Return(r, "withheld")
  /\ UNCHANGED <<views, storeVars, procVars>>

RefreshDue(r) ==
  round[r].force \/ (Refreshing /\ (round[r].due \/ due))

(* Variant: the interval is never found to have passed.                    *)
SameTreeNeverDue(r) ==
  /\ At(r, "fetched") /\ round[r].next = round[r].prev
  /\ Return(r, "unchanged")
  /\ UNCHANGED <<views, storeVars, procVars>>

(* Gate 1, the witnessed tree again: refresh it or leave it.               *)
SameTree(r) ==
  /\ At(r, "fetched") /\ round[r].next = round[r].prev
  /\ IF RefreshDue(r) THEN Goto(r, "sign") ELSE Return(r, "unchanged")
  /\ UNCHANGED <<views, storeVars, procVars>>

(* Gate 2, a larger head or the first one.                                 *)
Consistency(r, verdict) ==
  /\ At(r, "fetched") /\ Larger(r)
  /\ verdict \in Verdicts(r, round[r].prev, round[r].next)
  /\ CASE verdict \in {"heads", "content"} -> Accuse(r, verdict)
       [] verdict = "ok" -> Goto(r, "sign")
       [] OTHER -> Return(r, verdict)
  /\ UNCHANGED <<views, storeVars, procVars>>

(* Gate 3: MaxSignDelay has passed since the fetch.                        *)
TooStale(r) ==
  /\ At(r, "sign")
  /\ Return(r, "stale")
  /\ UNCHANGED <<views, storeVars, procVars>>

(* Variant: the record is put without comparing it.                        *)
PersistUncompared(r) ==
  /\ At(r, "sign")
  /\ head' = round[r].next
  /\ due' = FALSE
  /\ cosigned' = cosigned \cup {round[r].next}
  /\ Return(r, "cosigned")
  /\ UNCHANGED <<views, forks, poisoned, retraction, procVars>>

(* note.Sign and CompareAndSet(prevRec, rec).                              *)
Persist(r) ==
  /\ At(r, "sign") /\ head = round[r].prev
  /\ head' = round[r].next
  /\ due' = FALSE
  /\ cosigned' = cosigned \cup {round[r].next}
  /\ Return(r, "cosigned")
  /\ UNCHANGED <<views, forks, poisoned, retraction, procVars>>

Raced(r) ==
  /\ At(r, "sign") /\ head # round[r].prev
  /\ Return(r, "raced")
  /\ UNCHANGED <<views, storeVars, procVars>>

PersistFails(r) ==
  /\ "store" \in Faults /\ At(r, "sign")
  /\ Return(r, "withheld")
  /\ UNCHANGED <<views, storeVars, procVars>>

(* Variant: every finding is added, poisoned or not.                       *)
RecordEveryFork(f) ==
  /\ forks' = Append(forks, f)
  /\ poisoned' = Len(forks) + 1

(* store.RecordFork: write-once while the log is poisoned.                 *)
RecordFork(f) ==
  IF poisoned # 0
  THEN UNCHANGED <<forks, poisoned>>
  ELSE /\ forks' = Append(forks, f)
       /\ poisoned' = Len(forks) + 1

(* Variant: the error is returned before the evidence is written.          *)
ForkUnrecorded(r) ==
  /\ At(r, "fork")
  /\ Return(r, "forked")
  /\ UNCHANGED <<views, storeVars, procVars>>

(* Witness.fork: record the finding, then return it.                       *)
Fork(r) ==
  /\ At(r, "fork")
  /\ RecordFork([by |-> round[r].by,
                 prev |-> IF round[r].by = "heads" THEN round[r].prev ELSE None,
                 next |-> IF round[r].by = "heads" THEN round[r].next ELSE None])
  /\ Return(r, "forked")
  /\ UNCHANGED <<views, head, due, retraction, cosigned, procVars>>

ForkNotPersisted(r) ==
  /\ "store" \in Faults /\ At(r, "fork")
  /\ Return(r, "forked")
  /\ UNCHANGED <<views, storeVars, procVars>>

-----------------------------------------------------------------------------
(* Beside the rounds *)

(* The auditor, a worker's result or backfill finds that published content *)
(* does not reconstruct a published root.                                  *)
ReportContent ==
  /\ "content" \in Faults
  /\ RecordFork([by |-> "content", prev |-> None, next |-> None])
  /\ UNCHANGED <<views, head, due, retraction, cosigned, round, procVars>>

(* Variant: withdrawing a finding removes the evidence with the marker.    *)
RetractErases ==
  /\ mode = "retract" /\ poisoned # 0
  /\ mode' = "draining"
  /\ forks' = <<>> /\ poisoned' = 0 /\ retraction' = 0
  /\ UNCHANGED <<views, head, due, cosigned, round, adapter, restarts>>

(* kt-witness -retract: names the earliest evidence and lifts the poison,  *)
(* once, after the listeners have started and before any poll.             *)
RetractFork ==
  /\ mode = "retract"
  /\ mode' = "draining"
  /\ IF poisoned # 0 /\ forks # <<>>
     THEN /\ retraction' = CHOOSE i \in DOMAIN forks :
                             \A j \in DOMAIN forks : i <= j
          /\ poisoned' = 0
     ELSE UNCHANGED <<retraction, poisoned>>
  /\ UNCHANGED <<views, head, due, forks, cosigned, round, adapter, restarts>>

(* A crash or a stop, then a start: rounds are lost, the store is kept.    *)
Restart(m) ==
  /\ restarts < MaxRestarts
  /\ restarts' = restarts + 1
  /\ mode' = m
  /\ round' = [r \in Rounds |-> Idle]
  /\ UNCHANGED <<views, storeVars, adapter>>

(* The log appends a leaf to one of its views.                             *)
Grow(v, leaf) ==
  /\ Len(views[v]) < MaxSize
  /\ views' = [views EXCEPT ![v] = Append(@, leaf)]
  /\ UNCHANGED <<storeVars, round, procVars>>

(* RefreshInterval passes for the stored record.                           *)
IntervalPasses ==
  /\ Refreshing /\ head # None /\ ~due
  /\ due' = TRUE
  /\ UNCHANGED <<views, head, forks, poisoned, retraction, cosigned,
                 round, procVars>>

-----------------------------------------------------------------------------
Init ==
  /\ views = [v \in Views |-> <<>>]
  /\ head = None /\ due = FALSE
  /\ forks = <<>> /\ poisoned = 0 /\ retraction = 0
  /\ round = [r \in Rounds |-> Idle]
  /\ adapter \in Adapters /\ mode = "serve" /\ restarts = 0
  /\ cosigned = {}

Process(r) ==
  \/ Begin(r) \/ Get(r)
  \/ \E t \in Trees : Fetch(r, t)
  \/ FetchFails(r) \/ FetchForks(r)
  \/ \E verdict \in GateVerdicts : Regression(r, verdict)
  \/ SplitView(r) \/ WithholdDerived(r) \/ SameTree(r)
  \/ \E verdict \in GateVerdicts : Consistency(r, verdict)
  \/ TooStale(r)
  \/ Persist(r) \/ Raced(r) \/ PersistFails(r)
  \/ Fork(r) \/ ForkNotPersisted(r)

Environment ==
  \/ ReportContent
  \/ RetractFork
  \/ \E m \in {"serve", "retract"} : Restart(m)
  \/ \E v \in Views, leaf \in Leaf : Grow(v, leaf)
  \/ IntervalPasses

Next ==
  \/ \E r \in Rounds : Receive(r) \/ Process(r)
  \/ Environment

Spec == Init /\ [][Next]_vars

-----------------------------------------------------------------------------
(* Safety *)

(* Every variable has its type, and the poison marker of witness.go's fork *)
(* names the newest finding (store.RecordFork writes both or neither).     *)
TypeOK ==
  /\ views \in [Views -> Trees]
  /\ head \in Trees \cup {None} /\ due \in BOOLEAN
  /\ forks \in Seq(Finding)
  /\ poisoned \in {0, Len(forks)} /\ retraction \in 0..Len(forks)
  /\ round \in [Rounds -> Round]
  /\ adapter \in Adapters
  /\ mode \in {"serve", "retract", "draining"} /\ restarts \in 0..MaxRestarts
  /\ cosigned \in SUBSET Trees

(* The purpose of the gates of Process and of CompareAndSet: no two trees  *)
(* the witness ever cosigned contradict each other, however the poller, the*)
(* pushes, a log with several histories and restarts interleave.           *)
CosignedChain == \A s, t \in cosigned : Comparable(s, t)

(* Why it holds.  The stored head is the newest cosigned tree, and a round *)
(* of Process that has passed its gates holds a tree that extends the      *)
(* record it will hand to CompareAndSet.                                   *)
HeadIsNewest ==
  /\ head = None => cosigned = {}
  /\ head # None => /\ head \in cosigned
                    /\ \A c \in cosigned : IsPrefix(c, head)

HoldsATree ==
  \A r \in Rounds :
    (r \in Pushers /\ ~At(r, "idle")) \/ At(r, "fetched") \/ At(r, "sign") =>
      round[r].next \in Trees

ReadyToSign ==
  \A r \in Rounds : At(r, "sign") => Extends(round[r].next, round[r].prev)

IInv == TypeOK /\ HeadIsNewest /\ HoldsATree /\ ReadyToSign

(* The two signed heads kept as evidence contradict each other, so a third *)
(* party can check the accusation (store.Fork: "reproducible by a third    *)
(* party").                                                                *)
FindingsAreContradictions ==
  \A i \in DOMAIN forks :
    forks[i].by = "heads" => ~Comparable(forks[i].prev, forks[i].next)

(* Accusing is conclusive: a log that shows everybody one history is never *)
(* found to fork, whatever stale replicas, failed fetches and races the    *)
(* rounds meet.                                                            *)
FindingsAreTrue ==
  \A i \in DOMAIN forks : forks[i].by # "content" => Equivocated

(* Evidence is write-once: nothing is removed or changed, nothing is added *)
(* while the log is poisoned, and a finding poisons in the same write.     *)
EvidenceKept ==
  [][/\ IsPrefix(forks, forks')
     /\ forks' # forks => poisoned = 0 /\ poisoned' = Len(forks')]_vars

(* The witness implements its promise: CompareAndSet is the abstract       *)
(* Cosign, RecordFork Condemn and RetractFork Withdraw.                    *)
Promise == INSTANCE CosignPromise WITH Findings <- Finding
KeepsPromise == Promise!Spec

-----------------------------------------------------------------------------
(* Liveness.  The poll loop never stops while the process serves, and each *)
(* call it makes ends (two-minute context).  What fails for outside reasons*)
(* does not fail for ever when it is tried for ever: the tip of each view  *)
(* is served, it can be proved or refuted, and it is signed and stored in  *)
(* time.                                                                   *)

Concludes(r) ==
  \/ \E verdict \in {"ok", "heads"} : Consistency(r, verdict)
  \/ Regression(r, "heads")

Fairness ==
  \A r \in Pollers :
    /\ WF_vars(Process(r))
    /\ SF_vars(Fork(r))
    /\ \A v \in Views :
         /\ SF_vars(Fetch(r, views[v]))
         /\ SF_vars(round[r].next = views[v] /\ Concludes(r))
         /\ SF_vars(round[r].next = views[v] /\ Persist(r))

FairSpec == Spec /\ Fairness

(* The process that polls is eventually the one that runs.                 *)
KeepsServing == <>[](mode = "serve")

(* The witness catches up with every tree the log grows, whatever stale    *)
(* heads it was shown before, unless it finds the log out.                 *)
CatchesUp ==
  KeepsServing =>
    \A v \in Views, n \in 1..MaxSize :
      Len(views[v]) >= n ~> Size(head) >= n \/ forks # <<>>

(* A record whose RefreshInterval has passed is cosigned afresh: the       *)
(* timestamp stays a signal that the witness lives.                        *)
Refreshed == KeepsServing => (due ~> ~due \/ forks # <<>>)

(* Once poisoned for good, only rounds already past IsForked may cosign,   *)
(* each once: the cosignatures stop.                                       *)
FrozenOncePoisoned ==
  <>[](poisoned # 0) => <>[][~\E r \in Rounds : Persist(r)]_vars

(* A log that shows this witness two histories is found out.               *)
SplitDetected ==
  KeepsServing => (Equivocated ~> forks # <<>>)
=============================================================================
