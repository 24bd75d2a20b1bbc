------------------------------- MODULE Audits -------------------------------
(***************************************************************************)
(* Construction audits of one log: the audit records of the store          *)
(* (src/internal/store/store.go, backoff.go), the auditor that follows the *)
(* tip (src/internal/audit/auditor.go), the generator that goes back for   *)
(* the rest (src/cmd/kt-witness/workgen.go), the cache it downloads into   *)
(* (src/internal/audit/prefetch.go), and the history a backfill records.   *)
(* Workers (module WorkChannel) appear here by the answers they give about *)
(* epochs the cache holds.  All of them write the same records.            *)
(***************************************************************************)
EXTENDS Integers, FiniteSets, FiniteSetsExt

CONSTANTS Top,               \* bound: epochs the log publishes, from 1
          Published,         \* epochs it has published at the start
          Dead,              \* epochs whose proof cannot be downloaded
          TipWindow,         \* tipWindow: epochs behind the tip audited always
          SampleRate,              \* the sample rate, in draws
          Draws,             \* how many draws there are
          Draw(_, _),        \* the draw of a beacon round for an epoch, in 0 .. Draws - 1
          PerRound,          \* MaxEpochsPerRound of one pass of the auditor
          MaxFetchAttempts,  \* failures after which the backoff owns an epoch
          MaxTries,          \* maxAttempts: failures after which the auditor moves on
          MaxAudits,         \* maxAuditsPerOrigin
          Target,            \* readyTarget: proofs to have on disk or on the way
          MaxCached,         \* proofs that fill the cache
          Stride,            \* backStride
          MaxRound,          \* bound: beacon rounds
          MaxFaults          \* bound: failures, restarts and withdrawn epochs

ASSUME AuditsAssumption ==
    /\ Top \in Nat /\ Published \in 1..Top /\ Dead \subseteq 1..Top
    /\ {TipWindow, SampleRate, PerRound} \subseteq Nat
    /\ {Target, MaxCached, Stride, MaxAudits, MaxFetchAttempts, MaxTries, MaxRound}
         \subseteq Nat \ {0}
    /\ MaxTries >= MaxFetchAttempts

VARIABLES tip,       \* the epoch last witnessed, Record.Size
          floor,     \* the oldest epoch the log still publishes
          history,   \* the History record
          audit,     \* the audits bucket
          progress,  \* AuditProgress
          count,     \* auditN: records believed to be kept
          counted,   \* a count AuditPopulation has taken and not stored
          auditor,   \* where Auditor.Run is
          cursors,   \* the generator's position
          gen,       \* where the generator is in fillMore
          cached,    \* epochs whose proof is on disk
          inWork,    \* epochs being downloaded
          round,     \* the beacon's latest round
          faults

storeVars == <<audit, progress, count, counted>>
genVars == <<cursors, gen, cached, inWork>>
worldVars == <<tip, floor, history, round>>
auditsVars == <<worldVars, storeVars, auditor, genVars, faults>>

Epoch == 1..Top
NoRecord == [verified |-> FALSE, attempts |-> 0, wait |-> "none", round |-> -1]
Audit == [verified: BOOLEAN, attempts: 0..MaxTries,
          wait: {"none", "later", "due"},   \* RetryAfter: zero, ahead, passed
          round: 0..MaxRound]               \* the beacon's round; 0 for a worker

Recorded(A) == {e \in Epoch : A[e] # NoRecord}
Verified == {e \in Epoch : audit[e].verified}
AFault(happens) ==
    IF happens THEN faults < MaxFaults /\ faults' = faults + 1 ELSE UNCHANGED faults

----------------------------------------------------------------------------
(* The store.                                                              *)

(* Variant: the newest records go.                                         *)
TrimmedNewest(A, k) ==
    [e \in Epoch |->
        IF Cardinality({f \in Recorded(A) : f > e}) < k THEN NoRecord ELSE A[e]]

(* trimAudits: the k oldest records go.                                    *)
Trimmed(A, k) ==
    [e \in Epoch |->
        IF Cardinality({f \in Recorded(A) : f < e}) < k THEN NoRecord ELSE A[e]]

(* auditCount: counted once, with the record already put, then kept up.    *)
AuditCount(A) == 1 + IF count = -1 THEN Cardinality(Recorded(A)) ELSE count

(* RecordAudit: an overwrite, or a new record and perhaps a trim.          *)
RecordAudit(e, r) ==
    LET put == [audit EXCEPT ![e] = r]
        n == AuditCount(put)
    IN /\ audit' = IF audit[e] # NoRecord \/ n <= MaxAudits
                   THEN put ELSE Trimmed(put, n - MaxAudits)
       /\ count' = IF audit[e] # NoRecord THEN count
                   ELSE IF n <= MaxAudits THEN n ELSE MaxAudits

(* AuditPopulation: counts in one transaction, stores the count later.     *)
AuditPopulation ==
    \/ /\ count = -1 /\ counted = -1
       /\ counted' = Cardinality(Recorded(audit))
       /\ UNCHANGED count
    \/ /\ counted # -1
       /\ count' = counted
       /\ counted' = -1

(* RetryAt: nothing while the ordinary sweep owns the epoch.               *)
RetryAt(attempts) == IF attempts < MaxFetchAttempts THEN "none" ELSE "later"

IsHole(e) == e \in Recorded(audit) /\ ~audit[e].verified
Exhausted(e) == IsHole(e) /\ audit[e].attempts >= MaxFetchAttempts

Lowest(S, n) == {e \in S : Cardinality({f \in S : f < e}) < n}

(* HolesDue: the first of the exhausted epochs whose backoff has passed.   *)
HolesDue(n) ==
    Lowest({e \in history.from .. history.to :
              Exhausted(e) /\ audit[e].wait # "later"}, n)

(* FirstUnverified: an epoch without a record counts.                      *)
Unverified(from, to) == {e \in from .. to : ~audit[e].verified}

(* Variant: each backfill names the oldest epoch anew.                     *)
RecordHistoryAnew(from, to) == history' = [from |-> from, to |-> to, ever |-> from]

(* RecordHistory keeps the lowest start it ever recorded (0: none yet).    *)
RecordHistory(from, to) ==
    LET low == IF history.ever = 0 THEN history.from ELSE history.ever
    IN history' = [from |-> from, to |-> to,
                   ever |-> IF low > 0 /\ low < from THEN low ELSE from]

(* LowerHistoryWatermark: the operator's own metadata names an older one.  *)
LowerHistoryWatermark(low) ==
    /\ history.to > 0 /\ low > 0
    /\ low < (IF history.ever = 0 THEN history.from ELSE history.ever)
    /\ history' = [history EXCEPT !.ever = low]

----------------------------------------------------------------------------
(* The auditor: follows the tip, an epoch at a time.                       *)

Resting == [pc |-> "idle"]

(* SelectionRate: the window at the tip always, behind it ever less.       *)
Log2[n \in 0 .. Top] == IF n <= 1 THEN 0 ELSE 1 + Log2[n \div 2]
Selected(r, e, age) ==
    \/ age < TipWindow
    \/ SampleRate >= Draws
    \/ SampleRate > 0 /\ Draw(r, e) < SampleRate \div (1 + Log2[1 + age - TipWindow])

AuditorStarts ==
    LET from == IF progress = 0 THEN tip - 1 ELSE progress
        limit == IF tip - from > PerRound THEN from + PerRound ELSE tip
    IN /\ auditor = Resting /\ from < limit
       /\ auditor' = [pc |-> "decide", epoch |-> from + 1, limit |-> limit, rec |-> NoRecord]
       /\ UNCHANGED <<worldVars, storeVars, genVars, faults>>

(* Beacon.Round fails: nothing is decided without it.                      *)
NoBeacon ==
    /\ auditor.pc = "decide"
    /\ auditor' = Resting
    /\ AFault(TRUE)
    /\ UNCHANGED <<worldVars, storeVars, genVars>>

(* One more attempt, counted up to the last that makes a difference.       *)
Tried(e) == Min({audit[e].attempts + 1, MaxTries})

(* A decision on record keeps its round; a declined epoch is recorded, as  *)
(* a record like any other.                                                *)
Decide ==
    LET a == auditor
        e == a.epoch
        r == IF audit[e].round > 0 THEN audit[e].round ELSE round
        fresh == [verified |-> FALSE, attempts |-> 0, wait |-> "none", round |-> r]
    IN /\ a.pc = "decide"
       /\ IF Selected(r, e, a.limit - e)
          THEN /\ auditor' = [a EXCEPT !.pc = "verify",
                                          !.rec = [fresh EXCEPT !.attempts = Tried(e)]]
               /\ UNCHANGED <<audit, count>>
          ELSE /\ RecordAudit(e, fresh)
               /\ auditor' = [a EXCEPT !.pc = "advance"]
       /\ UNCHANGED <<worldVars, progress, counted, genVars, faults>>

(* The verifier downloads and replays the proof, which takes a while.      *)
AuditorVerifies ==
    /\ auditor.pc = "verify" /\ auditor.epoch \notin Dead
    /\ RecordAudit(auditor.epoch, [auditor.rec EXCEPT !.verified = TRUE])
    /\ auditor' = [auditor EXCEPT !.pc = "advance"]
    /\ UNCHANGED <<worldVars, progress, counted, genVars, faults>>

(* unavailable: again in the next pass, or given to the backoff.           *)
Unavailable ==
    LET r == auditor.rec IN
    /\ auditor.pc = "verify"
    /\ AFault(auditor.epoch \notin Dead)
    /\ IF r.attempts < MaxTries
       THEN /\ RecordAudit(auditor.epoch, r)
            /\ auditor' = Resting
       ELSE /\ RecordAudit(auditor.epoch, [r EXCEPT !.wait = RetryAt(r.attempts)])
            /\ auditor' = [auditor EXCEPT !.pc = "advance"]
    /\ UNCHANGED <<worldVars, progress, counted, genVars>>

Advance ==
    /\ auditor.pc = "advance"
    /\ progress' = auditor.epoch
    /\ auditor' = IF auditor.epoch = auditor.limit THEN Resting
                  ELSE [auditor EXCEPT !.pc = "decide", !.epoch = @ + 1, !.rec = NoRecord]
    /\ UNCHANGED <<worldVars, audit, count, counted, genVars, faults>>

----------------------------------------------------------------------------
(* The generator: holes that are due, then the tip, then back through the  *)
(* history, until there is a proof on disk or on the way for every slot.   *)

NotInit == [ready |-> FALSE, fwd |-> 0, back |-> 0, at |-> 0]

(* cursors.init: BackAuditProgress is never written, so back starts there. *)
Seeded ==
    IF cursors.ready THEN cursors
    ELSE LET f == IF progress > history.from THEN progress ELSE history.from
         IN [ready |-> TRUE, fwd |-> f, back |-> f, at |-> 0]

Room == Target - Cardinality(cached) - Cardinality(inWork)

FillMore ==
    /\ gen = Resting /\ Room > 0
    /\ history.to > history.from
    /\ cursors' = Seeded
    /\ LET due == HolesDue(Room \div 4 + 1)
       IN gen' = [pc |-> "forward", room |-> Room, n |-> Cardinality(due), out |-> due,
                  at |-> Seeded.fwd, from |-> history.from, to |-> history.to]
    /\ UNCHANGED <<worldVars, storeVars, auditor, cached, inWork, faults>>

(* One turn of forward's loop.                                             *)
Forward ==
    LET more == Unverified(gen.at, gen.to)
        e == Min(more)
    IN /\ gen.pc = "forward"
       /\ IF gen.n < gen.room /\ gen.at <= gen.to /\ more # {}
          THEN /\ gen' = [gen EXCEPT !.n = @ + 1, !.out = @ \cup {e}, !.at = e + 1]
               /\ cursors' = [cursors EXCEPT !.fwd = e + 1]
          ELSE /\ gen' = [gen EXCEPT !.pc = "backward"]
               /\ cursors' = IF gen.n < gen.room /\ gen.at <= gen.to
                             THEN [cursors EXCEPT !.fwd = gen.to] ELSE cursors
       /\ UNCHANGED <<worldVars, storeVars, auditor, cached, inWork, faults>>

(* Variant: the sweep ends at the bottom and does not start again.         *)
BackwardOnce ==
    LET lo == IF cursors.back - Stride < gen.from THEN gen.from ELSE cursors.back - Stride
        taken == Lowest(Unverified(lo, cursors.back - 1), gen.room - gen.n)
    IN /\ gen.pc = "backward"
       /\ IF gen.n >= gen.room \/ cursors.back <= gen.from
          THEN /\ gen' = [gen EXCEPT !.pc = "order"]
               /\ UNCHANGED cursors
          ELSE /\ gen' = [gen EXCEPT !.n = @ + Cardinality(taken), !.out = @ \cup taken]
               /\ cursors' = [cursors EXCEPT !.back = lo, !.at = 0]
       /\ UNCHANGED <<worldVars, storeVars, auditor, cached, inWork, faults>>

(* One turn of backward's outer loop: a window, ascending inside it.       *)
Backward ==
    LET c == IF cursors.back <= gen.from
             THEN [cursors EXCEPT !.back = cursors.fwd, !.at = 0] ELSE cursors
        lo == IF c.back - Stride < gen.from THEN gen.from ELSE c.back - Stride
        at == IF c.at < lo \/ c.at >= c.back THEN lo ELSE c.at
        window == Unverified(at, c.back - 1)
        taken == Lowest(window, gen.room - gen.n)
        next == IF taken = {} THEN at ELSE Max(taken) + 1
        full == gen.n + Cardinality(taken) = gen.room
    IN /\ gen.pc = "backward"
       /\ IF gen.n >= gen.room \/ c.back <= gen.from
          THEN /\ gen' = [gen EXCEPT !.pc = "order"]
               /\ cursors' = IF gen.n >= gen.room THEN cursors ELSE c
          ELSE /\ gen' = [gen EXCEPT !.n = @ + Cardinality(taken), !.out = @ \cup taken,
                                     !.pc = IF full THEN "order" ELSE @]
               /\ cursors' = IF full /\ next < c.back
                             THEN [c EXCEPT !.at = next]
                             ELSE [c EXCEPT !.back = lo, !.at = 0]
       /\ UNCHANGED <<worldVars, storeVars, auditor, cached, inWork, faults>>

(* Fetch, up to the download: not twice, and not into a full cache.        *)
Order ==
    /\ gen.pc = "order"
    /\ inWork' = IF Cardinality(cached) >= MaxCached THEN inWork
                 ELSE inWork \cup (gen.out \ cached)
    /\ gen' = Resting
    /\ UNCHANGED <<worldVars, storeVars, auditor, cursors, cached, faults>>

Downloaded(e) ==
    /\ e \in inWork \ Dead
    /\ cached' = cached \cup {e}
    /\ inWork' = inWork \ {e}
    /\ UNCHANGED <<worldVars, storeVars, auditor, cursors, gen, faults>>

(* A failed download is logged, and that is all.                           *)
NotDownloaded(e) ==
    /\ e \in inWork
    /\ AFault(e \notin Dead)
    /\ inWork' = inWork \ {e}
    /\ UNCHANGED <<worldVars, storeVars, auditor, cursors, gen, cached>>

(* Prune: some proof goes when the cache is over its limit.                *)
Prune ==
    /\ Cardinality(cached) > MaxCached
    /\ \E e \in cached : cached' = cached \ {e}
    /\ UNCHANGED <<worldVars, storeVars, auditor, cursors, gen, inWork, faults>>

----------------------------------------------------------------------------
(* Workers (WorkChannel), the offline backfill, and the world.             *)

FromWorker(ok, n) ==
    [verified |-> ok, attempts |-> n, wait |-> IF ok THEN "none" ELSE RetryAt(n), round |-> 0]

WorkerVerifies(e) ==
    /\ e \in cached
    /\ cached' = cached \ {e}
    /\ RecordAudit(e, FromWorker(TRUE, 1))
    /\ UNCHANGED <<worldVars, progress, counted, auditor, cursors, gen, inWork, faults>>

WorkerFails(e) ==
    /\ e \in cached
    /\ \E n \in 1 .. MaxTries : RecordAudit(e, FromWorker(FALSE, n))
    /\ AFault(TRUE)
    /\ UNCHANGED <<worldVars, progress, counted, auditor, genVars>>

Publish ==
    /\ tip < Top
    /\ tip' = tip + 1
    /\ UNCHANGED <<floor, history, round, storeVars, auditor, genVars, faults>>

Withdraw ==
    /\ floor < tip
    /\ floor' = floor + 1
    /\ AFault(TRUE)
    /\ UNCHANGED <<tip, history, round, storeVars, auditor, genVars>>

(* A full walk finds the oldest epoch anew, an extension keeps the last.   *)
Backfill ==
    /\ \/ history.from # floor /\ RecordHistory(floor, tip)
       \/ history.to \notin {0, tip} /\ RecordHistory(history.from, tip)
    /\ UNCHANGED <<tip, floor, round, storeVars, auditor, genVars, faults>>

SeedWatermark ==
    /\ \E low \in 1 .. floor : LowerHistoryWatermark(low)
    /\ UNCHANGED <<tip, floor, round, storeVars, auditor, genVars, faults>>

NextRound ==
    /\ round < MaxRound
    /\ round' = round + 1
    /\ UNCHANGED <<tip, floor, history, storeVars, auditor, genVars, faults>>

RetryAfterPasses ==
    /\ \E e \in Epoch :
         /\ audit[e].wait = "later"
         /\ audit' = [audit EXCEPT ![e].wait = "due"]
    /\ UNCHANGED <<worldVars, progress, count, counted, auditor, genVars, faults>>

(* Cursors, counts and downloads are in memory; the cache adopts files.    *)
AuditsRestart ==
    /\ AFault(TRUE)
    /\ count' = -1 /\ counted' = -1
    /\ auditor' = Resting /\ gen' = Resting
    /\ cursors' = NotInit /\ inWork' = {}
    /\ UNCHANGED <<worldVars, audit, progress, cached>>

AuditsInit ==
    /\ tip = Published /\ floor = 1 /\ round = 1
    /\ history = [from |-> 0, to |-> 0, ever |-> 0]
    /\ audit = [e \in Epoch |-> NoRecord]
    /\ progress = 0 /\ count = -1 /\ counted = -1
    /\ auditor = Resting /\ cursors = NotInit /\ gen = Resting
    /\ cached = {} /\ inWork = {}
    /\ faults = 0

Auditor == AuditorStarts \/ NoBeacon \/ Decide \/ AuditorVerifies \/ Unavailable \/ Advance
Generator == FillMore \/ Forward \/ Backward \/ Order
Cache == (\E e \in Epoch : Downloaded(e) \/ NotDownloaded(e)) \/ Prune
Fleet == \E e \in Epoch : WorkerVerifies(e) \/ WorkerFails(e)
Counting ==
    /\ AuditPopulation
    /\ UNCHANGED <<worldVars, audit, progress, auditor, genVars, faults>>
World == Publish \/ Withdraw \/ Backfill \/ SeedWatermark \/ NextRound \/ RetryAfterPasses

AuditsNext == Auditor \/ Generator \/ Cache \/ Fleet \/ Counting \/ World \/ AuditsRestart

AuditsSpec == AuditsInit /\ [][AuditsNext]_auditsVars

(* Loops that keep turning and workers that keep asking.                   *)
AuditsFairness ==
    /\ WF_auditsVars(Auditor) /\ WF_auditsVars(Generator) /\ WF_auditsVars(Backfill)
    /\ WF_auditsVars(RetryAfterPasses) /\ WF_auditsVars(Prune)
    /\ \A e \in Epoch : /\ WF_auditsVars(Downloaded(e) \/ NotDownloaded(e))
                        /\ WF_auditsVars(WorkerVerifies(e))

AuditsFairSpec == AuditsSpec /\ AuditsFairness

----------------------------------------------------------------------------

AuditsTypeOK ==
    /\ tip \in Epoch /\ floor \in 1..tip /\ round \in 1..MaxRound
    /\ history \in [from: 0..tip, to: 0..tip, ever: 0..tip]
    /\ \A e \in Epoch : audit[e] = NoRecord \/ audit[e] \in Audit
    /\ progress \in 0..tip /\ count \in (-1..Top) \cup (0..MaxAudits) /\ counted \in -1..Top
    /\ auditor = Resting \/ auditor.pc \in {"decide", "verify", "advance"}
    /\ gen = Resting \/ gen.pc \in {"forward", "backward", "order"}
    /\ cursors.fwd \in 0 .. Top + 1 /\ cursors.back \in 0 .. Top + 1
    /\ cached \subseteq Epoch /\ inWork \subseteq Epoch

(* A record is dropped for its age alone: with it goes every older one,    *)
(* whatever the counter believed and whoever else wrote                    *)
(* (store.go:349-450).                                                     *)
TrimmedForAge ==
    \A e \in Epoch : audit[e] # NoRecord /\ audit'[e] = NoRecord
                      => \A f \in 1 .. e : audit'[f] = NoRecord

(* Once the auditor has begun it passes over no epoch, and none leaves its *)
(* hands but on record or dropped for age, whatever failed, was withdrawn  *)
(* or restarted on the way (auditor.go).                                   *)
NoneSkipped ==
    /\ progress > 0 /\ progress' # progress => progress' = progress + 1
    /\ auditor # auditor' /\ auditor'.pc = "advance" /\ audit'[auditor'.epoch] = NoRecord
       => \A f \in 1 .. auditor'.epoch : audit'[f] = NoRecord

(* The generator never holds or orders more proofs than it is to keep,     *)
(* although downloads end in any order, fail, and are forgotten by a       *)
(* restart that keeps the files (workgen.go:76-90).                        *)
OrdersWithinTarget == Cardinality(cached \cup inWork) <= Target

(* Once a start of the published history was recorded, or named by the     *)
(* operator, no later record of a shorter history hides it: the epochs     *)
(* lost to everybody are counted (store.go:543-594, 607-640).              *)
WatermarkOnlyLowers ==
    [][history.ever > 0 => history'.ever \in 1 .. history.ever]_history

(* Holes heal: every published epoch whose proof can be had is verified in *)
(* the end, by the auditor or by way of the generator, whatever failed,    *)
(* was declined by the sample or lost by a restart (workgen.go:113-116,    *)
(* main.go:1217-1236).                                                     *)
EveryEpochVerified ==
    \A e \in Epoch \ Dead : e <= Published ~> audit[e].verified

(* The generator comes back from every pass: a log that is verified to the *)
(* end leaves it waiting, not turning ("the log is caught up ... wait      *)
(* before asking again", workgen.go:90-94).                                *)
GeneratorReturns == (gen # Resting) ~> (gen = Resting)

(* The records of one log, written by the auditor, the generator, the      *)
(* workers and a backfill in any order, account for every epoch passed,    *)
(* and the downloads ahead of them stay bounded.                           *)
AuditsAreKept ==
    /\ [](AuditsTypeOK /\ OrdersWithinTarget)
    /\ [][TrimmedForAge /\ NoneSkipped]_auditsVars
=============================================================================
