---------------------------- MODULE AuditsProofs ----------------------------
(***************************************************************************)
(* Proofs about the audit records of a log, for every log, every window    *)
(* and rate, every cap on the records and every size of the cache: records *)
(* go for their age alone, the auditor passes over no epoch, the watermark *)
(* only falls, and the downloads ahead of the workers stay within target.  *)
(***************************************************************************)
EXTENDS Audits, Numbers

-----------------------------------------------------------------------------
(* The store. *)

LEMMA ConstantsAreNat ==
  /\ Top \in Nat /\ Published \in 1 .. Top
  /\ TipWindow \in Nat /\ SampleRate \in Nat /\ PerRound \in Nat
  /\ Target \in Nat \ {0} /\ MaxCached \in Nat \ {0} /\ Stride \in Nat \ {0}
  /\ MaxAudits \in Nat \ {0} /\ MaxFetchAttempts \in Nat \ {0} /\ MaxTries \in Nat \ {0}
  /\ MaxRound \in Nat \ {0}
BY AuditsAssumption

(* A set of epochs can be counted.                                         *)
LEMMA EpochsAreFew ==
  ASSUME NEW S \in SUBSET Epoch
  PROVE  S \in SUBSET Nat /\ IsFiniteSet(S) /\ Cardinality(S) \in 0 .. Top
<1>1. Epoch \in SUBSET Nat /\ IsFiniteSet(Epoch) /\ Cardinality(Epoch) = Top
  BY ConstantsAreNat, FS_Interval DEF Epoch
<1>2. IsFiniteSet(S) /\ Cardinality(S) <= Cardinality(Epoch)
  BY <1>1, FS_Subset
<1>. QED
  BY <1>1, <1>2, FS_CardinalityType, ConstantsAreNat

(* What a trim drops it drops with everything older.                       *)
LEMMA TrimIsAged ==
  ASSUME NEW A, NEW k \in Nat, NEW e \in Epoch, A[e] # NoRecord, Trimmed(A, k)[e] = NoRecord
  PROVE  \A f \in 1 .. e : Trimmed(A, k)[f] = NoRecord
<1>. DEFINE older(x) == {g \in Recorded(A) : g < x}
<1>0. e \in Nat /\ e <= Top
  BY ConstantsAreNat DEF Epoch
<1>1. Cardinality(older(e)) < k
  BY DEF Trimmed
<1>2. ASSUME NEW f \in 1 .. e PROVE Trimmed(A, k)[f] = NoRecord
  <2>1. f \in Epoch /\ f <= e /\ f \in Nat
    BY <1>0, ConstantsAreNat DEF Epoch
  <2>2. Recorded(A) \subseteq Epoch
    BY DEF Recorded
  <2>3. \A g \in Epoch : g \in Nat
    BY ConstantsAreNat DEF Epoch
  <2>4. older(f) \subseteq older(e) /\ older(e) \subseteq Epoch
    <3>1. \A g \in Recorded(A) : g < f => g < e
      <4>1. \A g \in Nat : g < f => g < e
        BY <1>0, <2>1
      <4>. QED
        BY <2>2, <2>3, <4>1
    <3>. QED
      BY <2>2, <3>1
  <2>5. Cardinality(older(f)) < k
    <3>. HIDE DEF older
    <3>1. Cardinality(older(f)) \in Nat /\ Cardinality(older(e)) \in Nat
      BY <2>4, EpochsAreFew
    <3>2. Cardinality(older(f)) <= Cardinality(older(e))
      BY <2>4, EpochsAreFew, FS_Subset
    <3>. QED
      BY <1>1, <3>1, <3>2
  <2>. QED
    BY <2>1, <2>5 DEF Trimmed
<1>. QED
  BY <1>2

(* The records of a log: each epoch has none, or one of the form written.  *)
Records == [Epoch -> Audit \cup {NoRecord}]
Counts == (-1 .. Top) \cup (0 .. MaxAudits)

LEMMA AuditIsRecord == ASSUME NEW r \in Audit PROVE r # NoRecord
BY DEF Audit, NoRecord

(* Records go for their age alone.                                         *)
Aged(A, B) == \A e \in Epoch : A[e] # NoRecord /\ B[e] = NoRecord
                               => \A f \in 1 .. e : B[f] = NoRecord

(* RecordAudit keeps the form of records and count, drops for age alone,   *)
(* and the epoch it records is on record unless everything up to it went.  *)
LEMMA RecordAuditOK ==
  ASSUME audit \in Records, count \in Counts,
         NEW e \in Epoch, NEW r \in Audit, RecordAudit(e, r)
  PROVE  /\ audit' \in Records /\ count' \in Counts
         /\ Aged(audit, audit')
         /\ audit'[e] = NoRecord => \A f \in 1 .. e : audit'[f] = NoRecord
<1>. DEFINE put == [audit EXCEPT ![e] = r]
            n == AuditCount(put)
            k == n - MaxAudits
<1>1. put \in Records /\ put[e] = r /\ \A f \in Epoch : f # e => put[f] = audit[f]
  BY DEF Records
<1>2. \A f \in Epoch : audit[f] # NoRecord => put[f] # NoRecord
  BY <1>1, AuditIsRecord
<1>3. Recorded(put) \in SUBSET Epoch
  BY DEF Recorded
<1>4. n \in Nat
  <2>1. Cardinality(Recorded(put)) \in 0 .. Top
    BY <1>3, EpochsAreFew
  <2>2. count \in Int /\ count >= -1
    BY ConstantsAreNat DEF Counts
  <2>. QED
    BY <2>1, <2>2, ConstantsAreNat DEF AuditCount
<1>5. /\ audit' = put \/ (k \in Nat /\ audit' = Trimmed(put, k))
      /\ count' = count \/ (n <= MaxAudits /\ count' = n) \/ count' = MaxAudits
  <2>. HIDE DEF put
  <2>1. n > MaxAudits => k \in Nat
    BY <1>4, ConstantsAreNat
  <2>. QED
    BY <1>4, <2>1, ConstantsAreNat DEF RecordAudit, put
<1>6. count' \in Counts
  BY <1>4, <1>5, ConstantsAreNat DEF Counts
<1>. HIDE DEF put, n, k
<1>7. Trimmed(put, k) \in Records
  BY <1>1 DEF Trimmed, Records
<1>8. Aged(audit, audit') /\ (audit'[e] = NoRecord => \A f \in 1 .. e : audit'[f] = NoRecord)
  <2>1. CASE audit' = put
    BY <1>1, <1>2, <2>1, AuditIsRecord DEF Aged
  <2>2. CASE k \in Nat /\ audit' = Trimmed(put, k)
    <3>1. \A f \in Epoch : put[f] # NoRecord /\ audit'[f] = NoRecord
             => \A g \in 1 .. f : audit'[g] = NoRecord
      BY <2>2, TrimIsAged
    <3>2. put[e] # NoRecord
      BY <1>1, AuditIsRecord
    <3>. QED
      BY <1>2, <3>1, <3>2 DEF Aged
  <2>. QED
    BY <1>5, <2>1, <2>2
<1>. QED
  BY <1>1, <1>5, <1>6, <1>7, <1>8

-----------------------------------------------------------------------------
(* The inductive invariant. *)

(* The world: a log of epochs, and the history a backfill has recorded.    *)
WorldOK ==
  /\ tip \in Epoch /\ floor \in 1 .. tip /\ round \in 1 .. MaxRound
  /\ history \in [from: 0 .. tip, to: 0 .. tip, ever: 0 .. tip]
  /\ history.to > 0 => history.from > 0

RecordsOK ==
  /\ audit \in Records /\ count \in Counts /\ counted \in -1 .. Top
  /\ progress \in 0 .. tip

(* The auditor is at the epoch after the last it passed.                   *)
Auditing == [pc: {"decide", "verify", "advance"}, epoch: Nat, limit: Nat,
             rec: Audit \cup {NoRecord}]
AuditorOK ==
  /\ auditor \in {Resting} \cup Auditing
  /\ auditor # Resting =>
       /\ 1 <= auditor.epoch /\ auditor.epoch <= auditor.limit /\ auditor.limit <= tip
       /\ auditor.pc = "verify" => auditor.rec \in Audit
       /\ progress > 0 => auditor.epoch = progress + 1

(* The generator's pass asks for no more epochs than there was room for,   *)
(* and that room is still there.                                           *)
Filling == [pc: {"forward", "backward", "order"}, room: Nat, n: Nat, out: SUBSET Epoch,
            at: Nat, from: Epoch, to: Epoch]
GenOK ==
  /\ gen \in {Resting} \cup Filling
  /\ gen # Resting =>
       /\ 1 <= gen.at /\ gen.at <= Top + 1
       /\ Cardinality(gen.out) <= gen.n /\ gen.n <= gen.room
       /\ Cardinality(cached) + Cardinality(inWork) + gen.room <= Target

CursorsOK ==
  /\ cursors \in [ready: BOOLEAN, fwd: 0 .. Top + 1, back: 0 .. Top + 1, at: 0 .. Top + 1]
  /\ cursors.ready => cursors.fwd > 0

CacheOK ==
  /\ cached \subseteq Epoch /\ inWork \subseteq Epoch
  /\ Cardinality(cached) + Cardinality(inWork) <= Target

GeneratorOK == GenOK /\ CursorsOK /\ CacheOK

AuditsInv == WorldOK /\ RecordsOK /\ AuditorOK /\ GeneratorOK

LEMMA InvIsKept == ASSUME AuditsInv PROVE AuditsTypeOK /\ OrdersWithinTarget
<1>0. WorldOK /\ RecordsOK /\ AuditorOK /\ GenOK /\ CursorsOK /\ CacheOK
  BY DEF AuditsInv, GeneratorOK
<1>1. \A e \in Epoch : audit[e] = NoRecord \/ audit[e] \in Audit
  BY <1>0 DEF RecordsOK, Records
<1>2. auditor = Resting \/ auditor.pc \in {"decide", "verify", "advance"}
  BY <1>0 DEF AuditorOK, Auditing
<1>3. gen = Resting \/ gen.pc \in {"forward", "backward", "order"}
  BY <1>0 DEF GenOK, Filling
<1>4. cursors.fwd \in 0 .. Top + 1 /\ cursors.back \in 0 .. Top + 1
  BY <1>0 DEF CursorsOK
<1>5. cached \subseteq Epoch /\ inWork \subseteq Epoch
  BY <1>0 DEF CacheOK
<1>6. AuditsTypeOK
  BY <1>0, <1>1, <1>2, <1>3, <1>4, <1>5 DEF AuditsTypeOK, WorldOK, RecordsOK, Counts
<1>7. /\ IsFiniteSet(cached) /\ IsFiniteSet(inWork)
      /\ Cardinality(cached) \in Nat /\ Cardinality(inWork) \in Nat
      /\ cached \cap inWork \in SUBSET Epoch
  BY <1>5, EpochsAreFew
<1>8. Cardinality(cached \cap inWork) \in Nat
  BY <1>7, EpochsAreFew
<1>9. Cardinality(cached \cup inWork) <= Cardinality(cached) + Cardinality(inWork)
  <2>1. Cardinality(cached \cup inWork)
          = Cardinality(cached) + Cardinality(inWork) - Cardinality(cached \cap inWork)
    BY <1>7, FS_Union
  <2>. QED
    BY <1>7, <1>8, <2>1
<1>10. OrdersWithinTarget
  <2>1. Cardinality(cached \cup inWork) \in Nat
    BY <1>5, EpochsAreFew
  <2>. QED
    BY <1>0, <1>7, <1>9, <2>1, ConstantsAreNat DEF OrdersWithinTarget, CacheOK
<1>. QED
  BY <1>6, <1>10

LEMMA AuditsInitOK == AuditsInit => AuditsInv
<1>. SUFFICES ASSUME AuditsInit PROVE AuditsInv
  OBVIOUS
<1>1. Published \in Epoch /\ 1 \in 1 .. Published /\ 1 \in 1 .. MaxRound
  BY ConstantsAreNat DEF Epoch
<1>2. WorldOK
  BY <1>1, ConstantsAreNat DEF AuditsInit, WorldOK, Epoch
<1>3. RecordsOK
  BY <1>1, ConstantsAreNat DEF AuditsInit, RecordsOK, Records, Counts, Epoch
<1>4. AuditorOK
  BY DEF AuditsInit, AuditorOK
<1>5. Cardinality({}) = 0
  BY FS_EmptySet
<1>6. GeneratorOK
  BY <1>5, ConstantsAreNat DEF AuditsInit, GeneratorOK, GenOK, CursorsOK, CacheOK, NotInit
<1>. QED
  BY <1>2, <1>3, <1>4, <1>6 DEF AuditsInv

-----------------------------------------------------------------------------
(* The steps. *)

(* What every step is to show.                                             *)
AuditsKept == AuditsInv' /\ TrimmedForAge /\ NoneSkipped

(* The parts do not move when their variables do not.                      *)
LEMMA GeneratorStill ==
  ASSUME GeneratorOK, UNCHANGED genVars
  PROVE  GeneratorOK'
BY DEF genVars, GeneratorOK, GenOK, CursorsOK, CacheOK

LEMMA StoreStill ==
  ASSUME UNCHANGED <<audit, progress, auditor>>
  PROVE  TrimmedForAge /\ NoneSkipped
BY DEF TrimmedForAge, NoneSkipped

LEMMA AgedIsTrimmed == Aged(audit, audit') => TrimmedForAge
BY DEF Aged, TrimmedForAge

(* The auditor's part. *)
LEMMA AuditorStartsKeeps ==
  ASSUME AuditsInv, AuditorStarts
  PROVE  AuditsKept
<1>. DEFINE from == IF progress = 0 THEN tip - 1 ELSE progress
            limit == IF tip - from > PerRound THEN from + PerRound ELSE tip
            a == [pc |-> "decide", epoch |-> from + 1, limit |-> limit, rec |-> NoRecord]
<1>0. WorldOK /\ RecordsOK /\ GeneratorOK
  BY DEF AuditsInv
<1>1. tip \in Nat /\ tip >= 1 /\ progress \in Nat /\ progress <= tip
  BY <1>0, ConstantsAreNat DEF WorldOK, RecordsOK, Epoch
<1>2. /\ from < limit /\ auditor = Resting /\ auditor' = a
      /\ UNCHANGED <<worldVars, storeVars, genVars, faults>>
  BY DEF AuditorStarts
<1>3. /\ from \in Nat /\ limit \in Nat /\ limit <= tip
      /\ progress > 0 => from = progress
  BY <1>1, ConstantsAreNat
<1>. HIDE DEF from, limit
<1>4. a \in Auditing
  BY <1>3 DEF Auditing
<1>5. AuditorOK'
  BY <1>1, <1>2, <1>3, <1>4 DEF AuditorOK, worldVars, storeVars
<1>6. AuditsInv'
  BY <1>0, <1>2, <1>5, GeneratorStill
  DEF AuditsInv, worldVars, storeVars, WorldOK, RecordsOK
<1>7. NoneSkipped
  BY <1>2 DEF NoneSkipped, storeVars
<1>8. TrimmedForAge
  BY <1>2 DEF TrimmedForAge, storeVars
<1>. QED
  BY <1>6, <1>7, <1>8 DEF AuditsKept

(* The auditor at an epoch: it is an epoch of the log, and what the bucket *)
(* says of it is a record or nothing.                                      *)
LEMMA AtEpoch ==
  ASSUME AuditsInv, auditor # Resting
  PROVE  /\ auditor \in Auditing /\ auditor.epoch \in Epoch
         /\ auditor.epoch \in Nat /\ auditor.limit \in Nat /\ tip \in Nat /\ progress \in Nat
         /\ audit[auditor.epoch] \in Audit \cup {NoRecord}
<1>1. auditor \in Auditing /\ 1 <= auditor.epoch /\ auditor.epoch <= auditor.limit
      /\ auditor.limit <= tip
  BY DEF AuditsInv, AuditorOK
<1>2. auditor.epoch \in Nat /\ auditor.limit \in Nat /\ tip \in Nat /\ tip <= Top /\ progress \in Nat
  BY <1>1, ConstantsAreNat DEF Auditing, AuditsInv, WorldOK, RecordsOK, Epoch
<1>3. auditor.epoch \in Epoch
  BY <1>1, <1>2, ConstantsAreNat DEF Epoch
<1>. QED
  BY <1>1, <1>2, <1>3 DEF AuditsInv, RecordsOK, Records

(* The auditor records an epoch and goes on from there.                    *)
LEMMA AuditorRecords ==
  ASSUME AuditsInv, auditor # Resting, NEW r \in Audit,
         \/ RecordAudit(auditor.epoch, r)
         \/ auditor'.pc # "advance" /\ UNCHANGED <<audit, count>>,
         \/ auditor' = Resting
         \/ /\ auditor' \in Auditing /\ auditor'.epoch = auditor.epoch
            /\ auditor'.limit = auditor.limit
            /\ auditor'.pc = "verify" => auditor'.rec \in Audit,
         UNCHANGED <<worldVars, progress, counted, genVars>>
  PROVE  AuditsKept
<1>0. WorldOK /\ RecordsOK /\ AuditorOK /\ GeneratorOK
  BY DEF AuditsInv
<1>1. auditor.epoch \in Epoch
  BY AtEpoch
<1>2. /\ audit' \in Records /\ count' \in Counts /\ Aged(audit, audit')
      /\ auditor'.pc = "advance" /\ audit'[auditor.epoch] = NoRecord
           => \A f \in 1 .. auditor.epoch : audit'[f] = NoRecord
  <2>1. CASE RecordAudit(auditor.epoch, r)
    BY <1>0, <1>1, <2>1, RecordAuditOK DEF RecordsOK
  <2>2. CASE auditor'.pc # "advance" /\ UNCHANGED <<audit, count>>
    BY <1>0, <2>2 DEF RecordsOK, Aged
  <2>. QED
    BY <2>1, <2>2
<1>3. RecordsOK' /\ WorldOK'
  BY <1>0, <1>2 DEF RecordsOK, WorldOK, worldVars
<1>4. AuditorOK'
  BY <1>0 DEF AuditorOK, worldVars
<1>5. NoneSkipped
  <2>1. auditor'.pc = "advance" => auditor'.epoch = auditor.epoch
    BY DEF Resting
  <2>. QED
    BY <1>2, <2>1 DEF NoneSkipped
<1>. QED
  BY <1>0, <1>2, <1>3, <1>4, <1>5, AgedIsTrimmed, GeneratorStill DEF AuditsKept, AuditsInv

LEMMA AuditorKeeps ==
  ASSUME AuditsInv, Auditor
  PROVE  AuditsKept
<1>. DEFINE a == auditor
            e == a.epoch
<1>0. WorldOK /\ RecordsOK /\ AuditorOK /\ GeneratorOK
  BY DEF AuditsInv
<1>1. CASE AuditorStarts
  BY <1>1, AuditorStartsKeeps
<1>2. CASE NoBeacon
  <2>1. auditor' = Resting /\ UNCHANGED <<worldVars, storeVars, genVars>>
    BY <1>2 DEF NoBeacon
  <2>2. AuditsInv'
    BY <1>0, <2>1, GeneratorStill
    DEF AuditsInv, WorldOK, RecordsOK, AuditorOK, worldVars, storeVars
  <2>. QED
    BY <2>1, <2>2 DEF AuditsKept, TrimmedForAge, NoneSkipped, storeVars, Resting
<1>3. CASE Decide
  <2>1. a.pc = "decide" /\ auditor # Resting
    BY <1>3 DEF Decide, Resting
  <2>2. /\ a \in Auditing /\ e \in Epoch /\ audit[e] \in Audit \cup {NoRecord}
    BY <2>1, AtEpoch
  <2>. DEFINE r == IF audit[e].round > 0 THEN audit[e].round ELSE round
              fresh == [verified |-> FALSE, attempts |-> 0, wait |-> "none", round |-> r]
              tried == [fresh EXCEPT !.attempts = Tried(e)]
              verify == [a EXCEPT !.pc = "verify", !.rec = tried]
              decline == [a EXCEPT !.pc = "advance"]
  <2>3. r \in 0 .. MaxRound
    <3>1. audit[e].round \in -1 .. MaxRound
      BY <2>2, ConstantsAreNat DEF Audit, NoRecord
    <3>2. round \in 1 .. MaxRound
      BY <1>0 DEF WorldOK
    <3>. QED
      BY <3>1, <3>2, ConstantsAreNat
  <2>4. Tried(e) \in 0 .. MaxTries
    <3>. DEFINE t == audit[e].attempts + 1
                low == IF t <= MaxTries THEN t ELSE MaxTries
    <3>1. t \in Nat
      BY <2>2, ConstantsAreNat DEF Audit, NoRecord
    <3>2. low \in {t, MaxTries} /\ \A y \in {t, MaxTries} : low <= y
      BY <3>1, ConstantsAreNat
    <3>3. Tried(e) \in {t, MaxTries} /\ \A y \in {t, MaxTries} : Tried(e) <= y
      <4>1. Tried(e) = CHOOSE x \in {t, MaxTries} : \A y \in {t, MaxTries} : x <= y
        BY DEF Tried, Min
      <4>. HIDE DEF t, low
      <4>. QED
        BY <3>2, <4>1
    <3>. QED
      BY <3>1, <3>3, ConstantsAreNat
  <2>5. fresh \in Audit /\ tried \in Audit
    <3>. HIDE DEF r
    <3>1. 0 \in 0 .. MaxTries /\ FALSE \in BOOLEAN
      BY ConstantsAreNat
    <3>2. fresh \in Audit
      BY <2>3, <3>1 DEF Audit
    <3>3. tried \in Audit
      <4>. HIDE DEF fresh
      <4>. QED
        BY <2>4, <3>2 DEF Audit
    <3>. QED
      BY <3>2, <3>3
  <2>6. \/ auditor' = verify /\ UNCHANGED <<audit, count>>
        \/ auditor' = decline /\ RecordAudit(e, fresh)
    BY <1>3 DEF Decide
  <2>7. UNCHANGED <<worldVars, progress, counted, genVars>>
    BY <1>3 DEF Decide
  <2>. HIDE DEF fresh, tried
  <2>8. /\ verify \in Auditing /\ verify.epoch = e /\ verify.limit = a.limit
        /\ verify.pc = "verify" /\ verify.rec \in Audit
    BY <2>2, <2>5 DEF Auditing
  <2>9. /\ decline \in Auditing /\ decline.epoch = e /\ decline.limit = a.limit
        /\ decline.pc = "advance"
    BY <2>2 DEF Auditing
  <2>. HIDE DEF verify, decline, a
  <2>10. CASE auditor' = verify /\ UNCHANGED <<audit, count>>
    BY <2>1, <2>5, <2>7, <2>8, <2>10, AuditorRecords DEF a
  <2>11. CASE auditor' = decline /\ RecordAudit(e, fresh)
    BY <2>1, <2>5, <2>7, <2>9, <2>11, AuditorRecords DEF a
  <2>. QED
    BY <2>6, <2>10, <2>11
<1>. DEFINE advanced == [a EXCEPT !.pc = "advance"]
<1>4. ASSUME a.pc = "verify"
      PROVE  /\ a # Resting /\ a.rec \in Audit
             /\ advanced \in Auditing /\ advanced.epoch = e /\ advanced.limit = a.limit
             /\ advanced.pc = "advance"
  <2>1. a # Resting
    BY <1>4 DEF Resting
  <2>2. a \in Auditing /\ a.rec \in Audit
    BY <1>0, <1>4, <2>1 DEF AuditorOK
  <2>. QED
    BY <2>1, <2>2 DEF Auditing
<1>5. CASE AuditorVerifies
  <2>. DEFINE r == [a.rec EXCEPT !.verified = TRUE]
  <2>1. /\ a.pc = "verify" /\ RecordAudit(e, r) /\ auditor' = advanced
        /\ UNCHANGED <<worldVars, progress, counted, genVars>>
    BY <1>5 DEF AuditorVerifies
  <2>2. r \in Audit
    BY <1>4, <2>1 DEF Audit
  <2>. HIDE DEF r, advanced
  <2>. QED
    BY <1>4, <2>1, <2>2, AuditorRecords
<1>6. CASE Unavailable
  <2>. DEFINE r == [a.rec EXCEPT !.wait = RetryAt(a.rec.attempts)]
  <2>1. /\ a.pc = "verify" /\ UNCHANGED <<worldVars, progress, counted, genVars>>
        /\ \/ RecordAudit(e, a.rec) /\ auditor' = Resting
           \/ RecordAudit(e, r) /\ auditor' = advanced
    BY <1>6 DEF Unavailable
  <2>2. r \in Audit
    <3>1. RetryAt(a.rec.attempts) \in {"none", "later"}
      BY DEF RetryAt
    <3>. QED
      BY <1>4, <2>1, <3>1 DEF Audit
  <2>. HIDE DEF r, advanced
  <2>3. CASE RecordAudit(e, a.rec) /\ auditor' = Resting
    BY <1>4, <2>1, <2>3, AuditorRecords
  <2>4. CASE RecordAudit(e, r) /\ auditor' = advanced
    BY <1>4, <2>1, <2>2, <2>4, AuditorRecords
  <2>. QED
    BY <2>1, <2>3, <2>4
<1>7. CASE Advance
  <2>1. a.pc = "advance" /\ a # Resting
    BY <1>7 DEF Advance, Resting
  <2>2. /\ a \in Auditing /\ e \in Nat /\ a.limit \in Nat /\ tip \in Nat /\ progress \in Nat
    BY <2>1, AtEpoch
  <2>3. /\ 1 <= e /\ e <= a.limit /\ a.limit <= tip
        /\ progress > 0 => e = progress + 1
    BY <1>0, <2>1 DEF AuditorOK
  <2>. DEFINE b == [a EXCEPT !.pc = "decide", !.epoch = @ + 1, !.rec = NoRecord]
  <2>4. /\ progress' = e /\ UNCHANGED <<worldVars, audit, count, counted, genVars>>
        /\ auditor' = IF e = a.limit THEN Resting ELSE b
    BY <1>7 DEF Advance
  <2>5. /\ b \in Auditing /\ b.pc = "decide" /\ b.epoch = e + 1 /\ b.limit = a.limit
    <3>1. a.epoch + 1 \in Nat
      BY <2>2
    <3>. HIDE DEF a
    <3>. QED
      BY <2>2, <3>1 DEF Auditing
  <2>. HIDE DEF b
  <2>6. RecordsOK' /\ WorldOK'
    BY <1>0, <2>2, <2>3, <2>4 DEF RecordsOK, WorldOK, worldVars
  <2>7. AuditorOK'
    BY <2>2, <2>3, <2>4, <2>5 DEF AuditorOK, worldVars
  <2>8. NoneSkipped
    <3>1. auditor'.pc # "advance"
      BY <2>4, <2>5 DEF Resting
    <3>. QED
      BY <2>3, <2>4, <3>1 DEF NoneSkipped
  <2>. QED
    BY <1>0, <2>4, <2>6, <2>7, <2>8, GeneratorStill DEF AuditsKept, AuditsInv, TrimmedForAge
<1>. QED
  BY <1>1, <1>2, <1>3, <1>5, <1>6, <1>7 DEF Auditor

(* The generator and the cache. *)

LEMMA MinIsLeast ==
  ASSUME NEW S \in SUBSET Epoch, S # {}
  PROVE  Min(S) \in S
<1>1. S \in SUBSET Nat
  BY EpochsAreFew
<1>2. \E x \in S : \A y \in S : x <= y
  BY <1>1, LeastNat
<1>. QED
  BY <1>2 DEF Min

LEMMA MaxIsGreatest ==
  ASSUME NEW S \in SUBSET Epoch, S # {}
  PROVE  Max(S) \in S
<1>1. S \in SUBSET Int /\ Top \in Int /\ \A y \in S : y <= Top
  BY ConstantsAreNat DEF Epoch
<1>2. PICK x \in S : \A y \in S : y <= x
  BY <1>1, GreatestInt
<1>3. \A y \in S : x >= y
  BY <1>1, <1>2
<1>. QED
  BY <1>3 DEF Max

LEMMA LowestOK ==
  ASSUME NEW S \in SUBSET Epoch, NEW n \in Nat
  PROVE  Lowest(S, n) \in SUBSET S /\ Cardinality(Lowest(S, n)) \in 0 .. n
<1>1. S \in SUBSET Nat /\ IsFiniteSet(S)
  BY EpochsAreFew
<1>2. Cardinality(Lowest(S, n)) \in Nat /\ Cardinality(Lowest(S, n)) <= n
  BY <1>1, LowestAreFew DEF Lowest
<1>. QED
  BY <1>2 DEF Lowest

(* One set of epochs beside another counts at most the sum.                *)
LEMMA UnionIsSmaller ==
  ASSUME NEW S \in SUBSET Epoch, NEW T \in SUBSET Epoch
  PROVE  /\ Cardinality(S) \in Nat /\ Cardinality(T) \in Nat /\ Cardinality(S \cup T) \in Nat
         /\ Cardinality(S \cup T) <= Cardinality(S) + Cardinality(T)
<1>1. /\ IsFiniteSet(S) /\ IsFiniteSet(T)
      /\ Cardinality(S) \in Nat /\ Cardinality(T) \in Nat
      /\ S \cap T \in SUBSET Epoch /\ S \cup T \in SUBSET Epoch
  BY EpochsAreFew
<1>2. Cardinality(S \cap T) \in Nat /\ Cardinality(S \cup T) \in Nat
  BY <1>1, EpochsAreFew
<1>3. Cardinality(S \cup T) = Cardinality(S) + Cardinality(T) - Cardinality(S \cap T)
  BY <1>1, FS_Union
<1>. QED
  BY <1>1, <1>2, <1>3

LEMMA SubsetIsSmaller ==
  ASSUME NEW S \in SUBSET Epoch, NEW T \in SUBSET S
  PROVE  Cardinality(T) \in Nat /\ Cardinality(S) \in Nat /\ Cardinality(T) <= Cardinality(S)
<1>1. IsFiniteSet(S) /\ Cardinality(S) \in Nat /\ T \in SUBSET Epoch
  BY EpochsAreFew
<1>2. Cardinality(T) \in Nat
  BY <1>1, EpochsAreFew
<1>. QED
  BY <1>1, <1>2, FS_Subset

LEMMA OnlyGenerator ==
  ASSUME AuditsInv, UNCHANGED <<worldVars, storeVars, auditor>>, GeneratorOK'
  PROVE  AuditsKept
<1>1. TrimmedForAge /\ NoneSkipped
  BY StoreStill DEF storeVars
<1>. QED
  BY <1>1 DEF AuditsKept, AuditsInv, worldVars, storeVars, WorldOK, RecordsOK, AuditorOK

(* A pass that is under way.                                               *)
LEMMA UnderWay ==
  ASSUME GeneratorOK, gen # Resting
  PROVE  /\ gen \in Filling /\ gen.room \in Nat /\ gen.n \in Nat /\ gen.n <= gen.room
         /\ gen.out \in SUBSET Epoch /\ Cardinality(gen.out) \in Nat
         /\ Cardinality(gen.out) <= gen.n
         /\ gen.at \in 1 .. Top + 1 /\ gen.from \in 1 .. Top /\ gen.to \in 1 .. Top
         /\ Cardinality(cached) \in Nat /\ Cardinality(inWork) \in Nat
         /\ Cardinality(cached) + Cardinality(inWork) + gen.room <= Target
<1>1. gen \in Filling /\ cached \in SUBSET Epoch /\ inWork \in SUBSET Epoch
  BY DEF GeneratorOK, GenOK, CacheOK
<1>2. /\ gen.room \in Nat /\ gen.n \in Nat /\ gen.out \in SUBSET Epoch
      /\ gen.at \in Nat /\ gen.from \in 1 .. Top /\ gen.to \in 1 .. Top
  BY <1>1 DEF Filling, Epoch
<1>3. /\ 1 <= gen.at /\ gen.at <= Top + 1
      /\ Cardinality(gen.out) <= gen.n /\ gen.n <= gen.room
      /\ Cardinality(cached) + Cardinality(inWork) + gen.room <= Target
  BY DEF GeneratorOK, GenOK
<1>4. gen.at \in 1 .. Top + 1
  BY <1>2, <1>3, ConstantsAreNat
<1>5. Cardinality(gen.out) \in Nat /\ Cardinality(cached) \in Nat /\ Cardinality(inWork) \in Nat
  BY <1>1, <1>2, EpochsAreFew
<1>. QED
  BY <1>1, <1>2, <1>3, <1>4, <1>5

LEMMA FillMoreKeeps ==
  ASSUME AuditsInv, FillMore
  PROVE  AuditsKept
<1>0. WorldOK /\ RecordsOK /\ GeneratorOK /\ GenOK /\ CursorsOK /\ CacheOK
  BY DEF AuditsInv, GeneratorOK
<1>. DEFINE due == HolesDue(Room \div 4 + 1)
            g == [pc |-> "forward", room |-> Room, n |-> Cardinality(due), out |-> due,
                  at |-> Seeded.fwd, from |-> history.from, to |-> history.to]
<1>1. /\ Room > 0 /\ history.to > history.from /\ cursors' = Seeded /\ gen' = g
      /\ UNCHANGED <<worldVars, storeVars, auditor, cached, inWork, faults>>
  BY DEF FillMore
<1>2. /\ Cardinality(cached) \in Nat /\ Cardinality(inWork) \in Nat
      /\ Room \in Nat /\ Cardinality(cached) + Cardinality(inWork) + Room = Target
  <2>1. Cardinality(cached) \in Nat /\ Cardinality(inWork) \in Nat
    BY <1>0, EpochsAreFew DEF CacheOK
  <2>. QED
    BY <1>1, <2>1, ConstantsAreNat DEF Room
<1>3. history.from \in Epoch /\ history.to \in Epoch /\ progress \in 0 .. Top
  <2>1. tip \in 1 .. Top /\ history.from \in 0 .. tip /\ history.to \in 0 .. tip
        /\ progress \in 0 .. tip
    BY <1>0 DEF WorldOK, RecordsOK, Epoch
  <2>2. history.to > 0
    BY <1>1, <2>1, ConstantsAreNat
  <2>3. history.from > 0
    BY <1>0, <2>2 DEF WorldOK
  <2>. QED
    BY <2>1, <2>2, <2>3, ConstantsAreNat DEF Epoch
<1>4. /\ Seeded \in [ready: BOOLEAN, fwd: 0 .. Top + 1, back: 0 .. Top + 1, at: 0 .. Top + 1]
      /\ Seeded.fwd > 0 /\ Seeded.fwd \in 1 .. Top + 1
  <2>1. CASE cursors.ready
    BY <1>0, <2>1, ConstantsAreNat DEF Seeded, CursorsOK
  <2>2. CASE ~cursors.ready
    <3>. DEFINE f == IF progress > history.from THEN progress ELSE history.from
    <3>1. f \in 1 .. Top
      BY <1>3, ConstantsAreNat DEF Epoch
    <3>2. Seeded = [ready |-> TRUE, fwd |-> f, back |-> f, at |-> 0]
      BY <2>2 DEF Seeded
    <3>. HIDE DEF f
    <3>3. f \in 0 .. Top + 1 /\ f \in 1 .. Top + 1 /\ f > 0 /\ 0 \in 0 .. Top + 1
      BY <3>1, ConstantsAreNat
    <3>. QED
      BY <3>2, <3>3
  <2>. QED
    BY <2>1, <2>2
<1>5. due \in SUBSET Epoch /\ Cardinality(due) \in Nat /\ Cardinality(due) <= Room
  <2>. DEFINE S == {e \in history.from .. history.to : Exhausted(e) /\ audit[e].wait # "later"}
              n == Room \div 4 + 1
  <2>1. S \in SUBSET Epoch
    BY <1>3, ConstantsAreNat DEF Epoch
  <2>2. n \in Nat /\ n <= Room
    BY <1>1, <1>2
  <2>3. due = Lowest(S, n)
    BY DEF HolesDue
  <2>. HIDE DEF S, n, due
  <2>4. due \in SUBSET S /\ Cardinality(due) \in 0 .. n
    BY <2>1, <2>2, <2>3, LowestOK
  <2>. QED
    BY <1>2, <2>1, <2>2, <2>4
<1>. HIDE DEF due
<1>6. /\ g \in Filling /\ g.at = Seeded.fwd /\ g.out = due /\ g.n = Cardinality(due)
      /\ g.room = Room
  <2>1. Seeded.fwd \in Nat
    BY <1>4, ConstantsAreNat
  <2>. QED
    BY <1>2, <1>3, <1>5, <2>1 DEF Filling
<1>. HIDE DEF g
<1>7. GenOK'
  <2>1. 1 <= g.at /\ g.at <= Top + 1
    BY <1>4, <1>6, ConstantsAreNat
  <2>2. Cardinality(g.out) <= g.n /\ g.n <= g.room
    BY <1>2, <1>5, <1>6
  <2>3. Cardinality(cached) + Cardinality(inWork) + g.room <= Target
    BY <1>2, <1>6, ConstantsAreNat
  <2>. QED
    BY <1>1, <1>6, <2>1, <2>2, <2>3 DEF GenOK
<1>8. CursorsOK' /\ CacheOK'
  BY <1>0, <1>1, <1>4 DEF CursorsOK, CacheOK
<1>. QED
  BY <1>1, <1>7, <1>8, OnlyGenerator DEF GeneratorOK

(* A pass goes on: to another epoch taken, or to its next phase.           *)
LEMMA PassGoesOn ==
  ASSUME AuditsInv, gen # Resting, NEW pc \in {"forward", "backward", "order"},
         NEW more \in SUBSET Epoch, NEW n \in Nat, NEW at \in 1 .. Top + 1,
         Cardinality(more) <= n, gen.n + n <= gen.room,
         gen' = [gen EXCEPT !.pc = pc, !.n = gen.n + n, !.out = gen.out \cup more, !.at = at],
         CursorsOK', UNCHANGED <<worldVars, storeVars, auditor, cached, inWork>>
  PROVE  AuditsKept
<1>0. GeneratorOK /\ CacheOK
  BY DEF AuditsInv, GeneratorOK
<1>1. /\ gen \in Filling /\ gen.room \in Nat /\ gen.n \in Nat
      /\ gen.out \in SUBSET Epoch /\ Cardinality(gen.out) <= gen.n
      /\ Cardinality(cached) + Cardinality(inWork) + gen.room <= Target
  BY <1>0, UnderWay
<1>2. at \in Nat /\ gen.n + n \in Nat /\ 1 <= at /\ at <= Top + 1
  BY <1>1, ConstantsAreNat
<1>3. /\ gen' \in Filling /\ gen'.room = gen.room /\ gen'.n = gen.n + n
      /\ gen'.out = gen.out \cup more /\ gen'.at = at
  BY <1>1, <1>2 DEF Filling
<1>4. Cardinality(gen'.out) <= gen'.n
  <2>. DEFINE O == gen.out
  <2>1. /\ Cardinality(O) \in Nat /\ Cardinality(more) \in Nat /\ Cardinality(O \cup more) \in Nat
        /\ Cardinality(O \cup more) <= Cardinality(O) + Cardinality(more)
    <3>1. O \in SUBSET Epoch
      BY <1>1
    <3>. HIDE DEF O
    <3>. QED
      BY <3>1, UnionIsSmaller
  <2>. QED
    BY <1>1, <1>3, <2>1
<1>5. GenOK'
  BY <1>1, <1>2, <1>3, <1>4 DEF GenOK
<1>6. CacheOK'
  BY <1>0 DEF CacheOK
<1>. QED
  BY <1>5, <1>6, OnlyGenerator DEF GeneratorOK

(* A pass goes on to its next phase with what it has.                      *)
LEMMA PassTurns ==
  ASSUME AuditsInv, gen # Resting, NEW pc \in {"forward", "backward", "order"},
         gen' = [gen EXCEPT !.pc = pc],
         CursorsOK', UNCHANGED <<worldVars, storeVars, auditor, cached, inWork>>
  PROVE  AuditsKept
<1>0. GeneratorOK /\ GenOK /\ CacheOK
  BY DEF AuditsInv, GeneratorOK
<1>1. /\ gen' \in Filling /\ gen'.room = gen.room /\ gen'.n = gen.n
      /\ gen'.out = gen.out /\ gen'.at = gen.at
  BY <1>0, UnderWay DEF Filling
<1>2. GenOK' /\ CacheOK'
  BY <1>0, <1>1 DEF GenOK, CacheOK
<1>. QED
  BY <1>2, OnlyGenerator DEF GeneratorOK

LEMMA ForwardKeeps ==
  ASSUME AuditsInv, Forward
  PROVE  AuditsKept
<1>0. GeneratorOK /\ CursorsOK /\ gen # Resting
  BY DEF AuditsInv, GeneratorOK, Forward, Resting
<1>1. /\ gen.room \in Nat /\ gen.n \in Nat /\ gen.at \in 1 .. Top + 1 /\ gen.to \in 1 .. Top
      /\ gen \in Filling
  BY <1>0, UnderWay
<1>. DEFINE more == Unverified(gen.at, gen.to)
            e == Min(more)
<1>2. UNCHANGED <<worldVars, storeVars, auditor, cached, inWork>>
  BY DEF Forward
<1>3. CASE gen.n < gen.room /\ gen.at <= gen.to /\ more # {}
  <2>1. /\ gen' = [gen EXCEPT !.n = @ + 1, !.out = @ \cup {e}, !.at = e + 1]
        /\ cursors' = [cursors EXCEPT !.fwd = e + 1]
    BY <1>3 DEF Forward
  <2>2. more \in SUBSET Epoch
    BY <1>1, ConstantsAreNat DEF Unverified, Epoch
  <2>. HIDE DEF more
  <2>3. e \in Epoch
    BY <1>3, <2>2, MinIsLeast
  <2>. HIDE DEF e
  <2>4. e + 1 \in 1 .. Top + 1 /\ e + 1 \in 0 .. Top + 1 /\ e + 1 > 0
    BY <2>3, ConstantsAreNat DEF Epoch
  <2>5. CursorsOK'
    BY <1>0, <2>1, <2>4 DEF CursorsOK
  <2>6. {e} \in SUBSET Epoch /\ Cardinality({e}) = 1
    BY <2>3, FS_Singleton
  <2>7. gen.pc = "forward"
    BY DEF Forward
  <2>8. gen' = [gen EXCEPT !.pc = "forward", !.n = gen.n + 1, !.out = gen.out \cup {e}, !.at = e + 1]
    BY <1>1, <2>1, <2>7 DEF Filling
  <2>9. gen.n + 1 <= gen.room /\ Cardinality({e}) <= 1 /\ 1 \in Nat
    BY <1>1, <1>3, <2>6
  <2>. QED
    BY <1>0, <1>2, <2>4, <2>5, <2>6, <2>8, <2>9, PassGoesOn
<1>4. CASE ~ (gen.n < gen.room /\ gen.at <= gen.to /\ more # {})
  <2>1. /\ gen' = [gen EXCEPT !.pc = "backward"]
        /\ cursors' = cursors \/ cursors' = [cursors EXCEPT !.fwd = gen.to]
    BY <1>4 DEF Forward
  <2>2. gen.to \in 0 .. Top + 1 /\ gen.to > 0
    BY <1>1, ConstantsAreNat
  <2>3. CursorsOK'
    BY <1>0, <2>1, <2>2 DEF CursorsOK
  <2>. QED
    BY <1>0, <1>2, <2>1, <2>3, PassTurns
<1>. QED
  BY <1>3, <1>4

LEMMA BackwardKeeps ==
  ASSUME AuditsInv, Backward
  PROVE  AuditsKept
<1>. DEFINE CS == [ready: BOOLEAN, fwd: 0 .. Top + 1, back: 0 .. Top + 1, at: 0 .. Top + 1]
            c == IF cursors.back <= gen.from
                 THEN [cursors EXCEPT !.back = cursors.fwd, !.at = 0] ELSE cursors
            lo == IF c.back - Stride < gen.from THEN gen.from ELSE c.back - Stride
            at == IF c.at < lo \/ c.at >= c.back THEN lo ELSE c.at
            window == Unverified(at, c.back - 1)
            taken == Lowest(window, gen.room - gen.n)
            next == IF taken = {} THEN at ELSE Max(taken) + 1
            full == gen.n + Cardinality(taken) = gen.room
<1>0. GeneratorOK /\ CursorsOK /\ gen # Resting /\ gen.pc = "backward"
  BY DEF AuditsInv, GeneratorOK, Backward, Resting
<1>1. /\ gen.room \in Nat /\ gen.n \in Nat /\ gen.at \in 1 .. Top + 1 /\ gen.from \in 1 .. Top
      /\ gen.n <= gen.room /\ gen \in Filling
  BY <1>0, UnderWay
<1>2. UNCHANGED <<worldVars, storeVars, auditor, cached, inWork>>
  BY DEF Backward
<1>3. c \in CS /\ (c.ready => c.fwd > 0)
  <2>1. cursors \in CS /\ (cursors.ready => cursors.fwd > 0) /\ 0 \in 0 .. Top + 1
    BY <1>0, ConstantsAreNat DEF CursorsOK
  <2>. QED
    BY <2>1
<1>4. IF gen.n >= gen.room \/ c.back <= gen.from
      THEN /\ gen' = [gen EXCEPT !.pc = "order"]
           /\ cursors' = IF gen.n >= gen.room THEN cursors ELSE c
      ELSE /\ gen' = [gen EXCEPT !.n = @ + Cardinality(taken), !.out = @ \cup taken,
                                 !.pc = IF full THEN "order" ELSE @]
           /\ cursors' = IF full /\ next < c.back
                         THEN [c EXCEPT !.at = next]
                         ELSE [c EXCEPT !.back = lo, !.at = 0]
  BY DEF Backward
<1>5. CASE gen.n >= gen.room \/ c.back <= gen.from
  <2>. HIDE DEF c
  <2>1. CursorsOK'
    BY <1>0, <1>3, <1>4, <1>5 DEF CursorsOK
  <2>. QED
    BY <1>0, <1>2, <1>4, <1>5, <2>1, PassTurns
<1>6. CASE ~ (gen.n >= gen.room \/ c.back <= gen.from)
  <2>0. c.back \in 0 .. Top + 1 /\ c.at \in 0 .. Top + 1
    BY <1>3
  <2>. HIDE DEF c
  <2>1. lo \in 1 .. Top + 1 /\ lo \in 0 .. Top + 1
    BY <1>1, <1>6, <2>0, ConstantsAreNat
  <2>. HIDE DEF lo
  <2>2. at \in 1 .. Top + 1
    BY <2>0, <2>1, ConstantsAreNat
  <2>. HIDE DEF at
  <2>3. window \in SUBSET Epoch
    BY <2>0, <2>2, ConstantsAreNat DEF Unverified, Epoch
  <2>. DEFINE left == gen.room - gen.n
  <2>4. left \in Nat
    BY <1>1, <1>6
  <2>5. taken \in SUBSET Epoch /\ Cardinality(taken) \in 0 .. left
    <3>1. taken = Lowest(window, left)
      OBVIOUS
    <3>. HIDE DEF window, taken, left
    <3>. QED
      BY <2>3, <2>4, <3>1, LowestOK
  <2>. HIDE DEF taken
  <2>6. next \in 0 .. Top + 1
    <3>1. CASE taken = {}
      BY <2>2, <3>1, ConstantsAreNat
    <3>2. CASE taken # {}
      <4>1. Max(taken) \in 1 .. Top
        BY <2>5, <3>2, MaxIsGreatest DEF Epoch
      <4>. QED
        BY <3>2, <4>1, ConstantsAreNat
    <3>. QED
      BY <3>1, <3>2
  <2>. HIDE DEF next
  <2>7. CursorsOK'
    <3>1. 0 \in 0 .. Top + 1
      BY ConstantsAreNat
    <3>2. cursors' = [c EXCEPT !.at = next] \/ cursors' = [c EXCEPT !.back = lo, !.at = 0]
      BY <1>4, <1>6
    <3>. QED
      BY <1>3, <2>1, <2>6, <3>1, <3>2 DEF CursorsOK
  <2>. DEFINE n == Cardinality(taken)
              pc == IF full THEN "order" ELSE "backward"
  <2>8. gen' = [gen EXCEPT !.pc = pc, !.n = gen.n + n, !.out = gen.out \cup taken, !.at = gen.at]
    BY <1>0, <1>1, <1>4, <1>6 DEF Filling
  <2>9. n \in Nat /\ Cardinality(taken) <= n /\ gen.n + n <= gen.room
    BY <1>1, <2>4, <2>5
  <2>10. pc \in {"forward", "backward", "order"}
    OBVIOUS
  <2>. HIDE DEF n, pc
  <2>. QED
    BY <1>0, <1>1, <1>2, <2>5, <2>7, <2>8, <2>9, <2>10, PassGoesOn
<1>. QED
  BY <1>5, <1>6

LEMMA OrderKeeps ==
  ASSUME AuditsInv, Order
  PROVE  AuditsKept
<1>0. GeneratorOK /\ CursorsOK /\ CacheOK /\ gen # Resting
  BY DEF AuditsInv, GeneratorOK, Order, Resting
<1>1. /\ gen.room \in Nat /\ gen.n \in Nat /\ gen.n <= gen.room
      /\ gen.out \in SUBSET Epoch /\ Cardinality(gen.out) \in Nat /\ Cardinality(gen.out) <= gen.n
      /\ Cardinality(cached) \in Nat /\ Cardinality(inWork) \in Nat
      /\ Cardinality(cached) + Cardinality(inWork) + gen.room <= Target
  BY <1>0, UnderWay
<1>. DEFINE new == gen.out \ cached
<1>2. /\ inWork' = inWork \/ inWork' = inWork \cup new
      /\ gen' = Resting
      /\ UNCHANGED <<worldVars, storeVars, auditor, cursors, cached>>
  BY DEF Order
<1>3. cached \in SUBSET Epoch /\ inWork \in SUBSET Epoch /\ new \in SUBSET gen.out
  BY <1>0 DEF CacheOK
<1>4. Cardinality(new) \in Nat /\ Cardinality(new) <= Cardinality(gen.out)
  BY <1>1, <1>3, SubsetIsSmaller
<1>5. /\ Cardinality(inWork \cup new) \in Nat
      /\ Cardinality(inWork \cup new) <= Cardinality(inWork) + Cardinality(new)
  <2>1. new \in SUBSET Epoch
    BY <1>1
  <2>. HIDE DEF new
  <2>. QED
    BY <1>3, <2>1, UnionIsSmaller
<1>6. inWork' \in SUBSET Epoch /\ Cardinality(cached) + Cardinality(inWork') <= Target
  <2>1. new \in SUBSET Epoch
    BY <1>1
  <2>. HIDE DEF new
  <2>. QED
    BY <1>1, <1>2, <1>3, <1>4, <1>5, <2>1, ConstantsAreNat
<1>7. GenOK' /\ CursorsOK' /\ CacheOK'
  BY <1>0, <1>2, <1>3, <1>6 DEF GenOK, CursorsOK, CacheOK
<1>. QED
  BY <1>2, <1>7, OnlyGenerator DEF GeneratorOK

(* Proofs come, are dropped and are used up; their number does not grow.   *)
LEMMA CacheMoves ==
  ASSUME AuditsInv, NEW C \in SUBSET Epoch, NEW W \in SUBSET Epoch,
         cached' = C, inWork' = W,
         Cardinality(C) + Cardinality(W) <= Cardinality(cached) + Cardinality(inWork),
         UNCHANGED <<cursors, gen>>
  PROVE  GeneratorOK'
<1>0. GenOK /\ CursorsOK /\ CacheOK
  BY DEF AuditsInv, GeneratorOK
<1>1. /\ Cardinality(cached) \in Nat /\ Cardinality(inWork) \in Nat
      /\ Cardinality(C) \in Nat /\ Cardinality(W) \in Nat
  BY <1>0, EpochsAreFew DEF CacheOK
<1>2. CacheOK'
  BY <1>0, <1>1, ConstantsAreNat DEF CacheOK
<1>3. GenOK'
  <2>1. ASSUME gen # Resting
        PROVE  Cardinality(C) + Cardinality(W) + gen.room <= Target
    <3>1. gen.room \in Nat /\ Cardinality(cached) + Cardinality(inWork) + gen.room <= Target
      BY <1>0, <2>1 DEF GenOK, Filling
    <3>. QED
      BY <1>1, <3>1, ConstantsAreNat
  <2>. QED
    BY <1>0, <2>1 DEF GenOK
<1>. QED
  BY <1>0, <1>2, <1>3 DEF GeneratorOK, CursorsOK

LEMMA OneLess ==
  ASSUME NEW S \in SUBSET Epoch, NEW e \in S
  PROVE  /\ S \ {e} \in SUBSET Epoch /\ Cardinality(S \ {e}) \in Nat
         /\ Cardinality(S) = Cardinality(S \ {e}) + 1
<1>1. IsFiniteSet(S) /\ Cardinality(S) \in Nat /\ S \ {e} \in SUBSET Epoch
  BY EpochsAreFew
<1>2. Cardinality(S \ {e}) \in Nat
  BY <1>1, EpochsAreFew
<1>3. Cardinality(S \ {e}) = Cardinality(S) - 1
  BY <1>1, FS_RemoveElement
<1>. QED
  BY <1>1, <1>2, <1>3

LEMMA CacheKeeps ==
  ASSUME AuditsInv, Cache
  PROVE  AuditsKept
<1>0. cached \in SUBSET Epoch /\ inWork \in SUBSET Epoch
  BY DEF AuditsInv, GeneratorOK, CacheOK
<1>1. Cardinality(cached) \in Nat /\ Cardinality(inWork) \in Nat
  BY <1>0, EpochsAreFew
<1>2. ASSUME NEW e \in Epoch, Downloaded(e) PROVE AuditsKept
  <2>1. /\ e \in inWork /\ cached' = cached \cup {e} /\ inWork' = inWork \ {e}
        /\ UNCHANGED <<worldVars, storeVars, auditor, cursors, gen>>
    BY <1>2 DEF Downloaded
  <2>2. /\ inWork \ {e} \in SUBSET Epoch /\ Cardinality(inWork \ {e}) \in Nat
        /\ Cardinality(inWork) = Cardinality(inWork \ {e}) + 1
    BY <1>0, <2>1, OneLess
  <2>3. cached \cup {e} \in SUBSET Epoch /\ Cardinality(cached \cup {e}) \in Nat
        /\ Cardinality(cached \cup {e}) <= Cardinality(cached) + 1
    <3>1. IsFiniteSet(cached) /\ cached \cup {e} \in SUBSET Epoch
      BY <1>0, EpochsAreFew
    <3>2. Cardinality(cached \cup {e}) \in Nat
      BY <3>1, EpochsAreFew
    <3>3. Cardinality(cached \cup {e}) = IF e \in cached THEN Cardinality(cached)
                                         ELSE Cardinality(cached) + 1
      BY <3>1, FS_AddElement
    <3>. QED
      BY <1>1, <3>1, <3>2, <3>3
  <2>4. Cardinality(cached \cup {e}) + Cardinality(inWork \ {e})
          <= Cardinality(cached) + Cardinality(inWork)
    BY <1>1, <2>2, <2>3
  <2>5. GeneratorOK'
    BY <2>1, <2>2, <2>3, <2>4, CacheMoves
  <2>. QED
    BY <2>1, <2>5, OnlyGenerator
<1>3. ASSUME NEW e \in Epoch, NotDownloaded(e) PROVE AuditsKept
  <2>1. /\ e \in inWork /\ inWork' = inWork \ {e}
        /\ UNCHANGED <<worldVars, storeVars, auditor, cursors, gen, cached>>
    BY <1>3 DEF NotDownloaded
  <2>2. /\ inWork \ {e} \in SUBSET Epoch /\ Cardinality(inWork \ {e}) \in Nat
        /\ Cardinality(inWork) = Cardinality(inWork \ {e}) + 1
    BY <1>0, <2>1, OneLess
  <2>3. Cardinality(cached) + Cardinality(inWork \ {e})
          <= Cardinality(cached) + Cardinality(inWork)
    BY <1>1, <2>2
  <2>4. GeneratorOK'
    BY <1>0, <2>1, <2>2, <2>3, CacheMoves
  <2>. QED
    BY <2>1, <2>4, OnlyGenerator
<1>4. CASE Prune
  <2>1. PICK e \in cached : cached' = cached \ {e}
    BY <1>4 DEF Prune
  <2>2. UNCHANGED <<worldVars, storeVars, auditor, cursors, gen, inWork>>
    BY <1>4 DEF Prune
  <2>3. /\ cached \ {e} \in SUBSET Epoch /\ Cardinality(cached \ {e}) \in Nat
        /\ Cardinality(cached) = Cardinality(cached \ {e}) + 1
    BY <1>0, <2>1, OneLess
  <2>4. Cardinality(cached \ {e}) + Cardinality(inWork)
          <= Cardinality(cached) + Cardinality(inWork)
    BY <1>1, <2>3
  <2>5. GeneratorOK'
    BY <1>0, <2>1, <2>2, <2>3, <2>4, CacheMoves
  <2>. QED
    BY <2>2, <2>5, OnlyGenerator
<1>. QED
  BY <1>2, <1>3, <1>4 DEF Cache

(* The workers, the count, the world and a restart. *)
LEMMA FleetKeeps ==
  ASSUME AuditsInv, Fleet
  PROVE  AuditsKept
<1>0. WorldOK /\ RecordsOK /\ AuditorOK /\ GeneratorOK
      /\ cached \in SUBSET Epoch /\ inWork \in SUBSET Epoch
  BY DEF AuditsInv, GeneratorOK, CacheOK
<1>1. ASSUME NEW e \in Epoch, NEW r \in Audit, RecordAudit(e, r), GeneratorOK',
             UNCHANGED <<worldVars, progress, counted, auditor>>
      PROVE  AuditsKept
  <2>1. audit' \in Records /\ count' \in Counts /\ Aged(audit, audit')
    BY <1>0, <1>1, RecordAuditOK DEF RecordsOK
  <2>2. NoneSkipped
    BY <1>1 DEF NoneSkipped
  <2>3. WorldOK' /\ RecordsOK' /\ AuditorOK'
    BY <1>0, <1>1, <2>1 DEF WorldOK, RecordsOK, AuditorOK, worldVars
  <2>. QED
    BY <1>1, <2>1, <2>2, <2>3, AgedIsTrimmed DEF AuditsKept, AuditsInv
<1>2. ASSUME NEW n \in 1 .. MaxTries
      PROVE  FromWorker(TRUE, n) \in Audit /\ FromWorker(FALSE, n) \in Audit
  <2>1. /\ n \in 0 .. MaxTries /\ 0 \in 0 .. MaxRound /\ RetryAt(n) \in {"none", "later"}
        /\ "none" \in {"none", "later", "due"} /\ {"none", "later"} \subseteq {"none", "later", "due"}
    BY ConstantsAreNat DEF RetryAt
  <2>2. FromWorker(TRUE, n) \in Audit
    BY <2>1 DEF FromWorker, Audit
  <2>3. FromWorker(FALSE, n) \in Audit
    BY <2>1 DEF FromWorker, Audit
  <2>. QED
    BY <2>2, <2>3
<1>3. ASSUME NEW e \in Epoch, WorkerVerifies(e) PROVE AuditsKept
  <2>. DEFINE r == FromWorker(TRUE, 1)
  <2>1. /\ e \in cached /\ cached' = cached \ {e} /\ RecordAudit(e, r)
        /\ UNCHANGED <<worldVars, progress, counted, auditor, cursors, gen, inWork>>
    BY <1>3 DEF WorkerVerifies
  <2>2. r \in Audit
    <3>1. 1 \in 0 .. MaxTries /\ 0 \in 0 .. MaxRound
      BY ConstantsAreNat
    <3>. QED
      BY <3>1 DEF FromWorker, Audit
  <2>. HIDE DEF r
  <2>3. /\ cached \ {e} \in SUBSET Epoch /\ Cardinality(cached \ {e}) \in Nat
        /\ Cardinality(cached) = Cardinality(cached \ {e}) + 1
    BY <1>0, <2>1, OneLess
  <2>4. Cardinality(cached \ {e}) + Cardinality(inWork)
          <= Cardinality(cached) + Cardinality(inWork)
    <3>1. Cardinality(inWork) \in Nat
      BY <1>0, EpochsAreFew
    <3>. QED
      BY <2>3, <3>1
  <2>5. GeneratorOK'
    BY <1>0, <2>1, <2>3, <2>4, CacheMoves
  <2>. QED
    BY <1>1, <2>1, <2>2, <2>5
<1>4. ASSUME NEW e \in Epoch, WorkerFails(e) PROVE AuditsKept
  <2>1. PICK n \in 1 .. MaxTries : RecordAudit(e, FromWorker(FALSE, n))
    BY <1>4 DEF WorkerFails
  <2>. DEFINE r == FromWorker(FALSE, n)
  <2>2. r \in Audit /\ RecordAudit(e, r)
    BY <1>2, <2>1
  <2>. HIDE DEF r
  <2>3. UNCHANGED <<worldVars, progress, counted, auditor, genVars>>
    BY <1>4 DEF WorkerFails
  <2>. QED
    BY <1>0, <1>1, <2>2, <2>3, GeneratorStill
<1>. QED
  BY <1>3, <1>4 DEF Fleet

LEMMA CountingKeeps ==
  ASSUME AuditsInv, Counting
  PROVE  AuditsKept
<1>0. WorldOK /\ RecordsOK /\ AuditorOK /\ GeneratorOK
  BY DEF AuditsInv
<1>1. /\ AuditPopulation
      /\ UNCHANGED <<worldVars, audit, progress, auditor, genVars>>
  BY DEF Counting
<1>2. Recorded(audit) \in SUBSET Epoch
  BY DEF Recorded
<1>3. Cardinality(Recorded(audit)) \in -1 .. Top
  <2>1. Cardinality(Recorded(audit)) \in 0 .. Top
    BY <1>2, EpochsAreFew
  <2>. QED
    BY <2>1, ConstantsAreNat
<1>4. count' \in Counts /\ counted' \in -1 .. Top
  BY <1>0, <1>1, <1>3, ConstantsAreNat DEF AuditPopulation, RecordsOK, Counts
<1>5. WorldOK' /\ RecordsOK' /\ AuditorOK'
  BY <1>0, <1>1, <1>4 DEF WorldOK, RecordsOK, AuditorOK, worldVars
<1>. QED
  BY <1>0, <1>1, <1>5, StoreStill, GeneratorStill DEF AuditsKept, AuditsInv

(* What the world does moves neither the auditor nor the generator.        *)
LEMMA OnlyWorld ==
  ASSUME AuditsInv, WorldOK', UNCHANGED <<storeVars, auditor, genVars>>, tip' \in {tip, tip + 1}
  PROVE  AuditsKept
<1>0. WorldOK /\ RecordsOK /\ AuditorOK /\ GeneratorOK
  BY DEF AuditsInv
<1>1. tip \in Nat /\ tip' \in Nat /\ tip <= tip'
  BY <1>0, ConstantsAreNat DEF WorldOK, Epoch
<1>2. RecordsOK'
  BY <1>0, <1>1 DEF RecordsOK, storeVars
<1>3. AuditorOK'
  <2>1. auditor # Resting => auditor.limit \in Nat
    BY <1>0 DEF AuditorOK, Auditing
  <2>2. auditor # Resting => auditor.limit <= tip'
    BY <1>0, <1>1, <2>1 DEF AuditorOK
  <2>. QED
    BY <1>0, <2>2 DEF AuditorOK, storeVars
<1>. QED
  BY <1>0, <1>2, <1>3, StoreStill, GeneratorStill DEF AuditsKept, AuditsInv, storeVars

(* A history recorded from an epoch of the log lies within it.             *)
LEMMA HistoryIsRecorded ==
  ASSUME WorldOK, NEW from \in 1 .. tip, NEW to \in 0 .. tip, RecordHistory(from, to)
  PROVE  /\ history' \in [from: 0 .. tip, to: 0 .. tip, ever: 0 .. tip]
         /\ history'.from > 0
         /\ history.ever > 0 => history'.ever \in 1 .. history.ever
<1>. DEFINE low == IF history.ever = 0 THEN history.from ELSE history.ever
            ever == IF low > 0 /\ low < from THEN low ELSE from
<1>1. /\ tip \in Nat /\ history.from \in 0 .. tip /\ history.ever \in 0 .. tip
      /\ from \in Nat
  BY ConstantsAreNat DEF WorldOK, Epoch
<1>2. history' = [from |-> from, to |-> to, ever |-> ever]
  BY DEF RecordHistory
<1>3. /\ ever \in 1 .. tip
      /\ history.ever > 0 => ever \in 1 .. history.ever
  BY <1>1
<1>. HIDE DEF ever, low
<1>. QED
  BY <1>1, <1>2, <1>3

(* The watermark falls, within the log.                                    *)
LEMMA WatermarkIsLowered ==
  ASSUME WorldOK, NEW low \in 1 .. floor, LowerHistoryWatermark(low)
  PROVE  /\ history' \in [from: 0 .. tip, to: 0 .. tip, ever: 0 .. tip]
         /\ history'.to > 0 => history'.from > 0
         /\ history.ever > 0 => history'.ever \in 1 .. history.ever
<1>1. /\ tip \in Nat /\ low \in 1 .. tip /\ history.ever \in 0 .. tip
      /\ history.to > 0 => history.from > 0
  BY ConstantsAreNat DEF WorldOK, Epoch
<1>2. /\ history' = [history EXCEPT !.ever = low]
      /\ history.ever > 0 => low < history.ever
  BY <1>1 DEF LowerHistoryWatermark
<1>3. /\ history' \in [from: 0 .. tip, to: 0 .. tip, ever: 0 .. tip]
      /\ history'.ever = low /\ history'.to = history.to /\ history'.from = history.from
  BY <1>1, <1>2 DEF WorldOK
<1>. QED
  BY <1>1, <1>2, <1>3

(* The two steps that write the history.                                   *)
LEMMA HistorySteps ==
  ASSUME AuditsInv, Backfill \/ SeedWatermark
  PROVE  /\ WorldOK' /\ UNCHANGED <<tip, storeVars, auditor, genVars>>
         /\ history.ever > 0 => history'.ever \in 1 .. history.ever
<1>0. WorldOK
  BY DEF AuditsInv
<1>1. /\ tip \in Nat /\ floor \in 1 .. tip /\ history.from \in 0 .. tip /\ history.to \in 0 .. tip
      /\ history.to > 0 => history.from > 0
  BY <1>0, ConstantsAreNat DEF WorldOK, Epoch
<1>2. UNCHANGED <<tip, floor, round, storeVars, auditor, genVars>>
  BY DEF Backfill, SeedWatermark
<1>3. /\ history' \in [from: 0 .. tip, to: 0 .. tip, ever: 0 .. tip]
      /\ history'.to > 0 => history'.from > 0
      /\ history.ever > 0 => history'.ever \in 1 .. history.ever
  <2>1. CASE RecordHistory(floor, tip)
    BY <1>0, <1>1, <2>1, HistoryIsRecorded
  <2>2. CASE history.to \notin {0, tip} /\ RecordHistory(history.from, tip)
    <3>1. history.from \in 1 .. tip
      BY <1>1, <2>2
    <3>. QED
      BY <1>0, <1>1, <2>2, <3>1, HistoryIsRecorded
  <2>3. CASE SeedWatermark
    <3>1. PICK low \in 1 .. floor : LowerHistoryWatermark(low)
      BY <2>3 DEF SeedWatermark
    <3>. QED
      BY <1>0, <3>1, WatermarkIsLowered
  <2>. QED
    BY <2>1, <2>2, <2>3 DEF Backfill
<1>. QED
  BY <1>0, <1>2, <1>3 DEF WorldOK

LEMMA WorldKeeps ==
  ASSUME AuditsInv, World
  PROVE  AuditsKept
<1>0. WorldOK /\ RecordsOK /\ AuditorOK /\ GeneratorOK
  BY DEF AuditsInv
<1>1. tip \in Nat /\ tip >= 1 /\ tip <= Top /\ floor \in 1 .. tip /\ round \in 1 .. MaxRound
  BY <1>0, ConstantsAreNat DEF WorldOK, Epoch
<1>2. CASE Publish
  <2>1. /\ tip < Top /\ tip' = tip + 1
        /\ UNCHANGED <<floor, history, round, storeVars, auditor, genVars>>
    BY <1>2 DEF Publish
  <2>2. tip' \in Epoch /\ 1 .. tip \subseteq 1 .. tip' /\ 0 .. tip \subseteq 0 .. tip'
    BY <1>1, <2>1, ConstantsAreNat DEF Epoch
  <2>3. WorldOK'
    BY <1>0, <2>1, <2>2 DEF WorldOK
  <2>. QED
    BY <2>1, <2>3, OnlyWorld
<1>3. CASE Withdraw
  <2>1. /\ floor' \in 1 .. tip
        /\ UNCHANGED <<tip, history, round, storeVars, auditor, genVars>>
    BY <1>1, <1>3 DEF Withdraw
  <2>2. WorldOK'
    BY <1>0, <2>1 DEF WorldOK
  <2>. QED
    BY <2>1, <2>2, OnlyWorld
<1>4. CASE Backfill \/ SeedWatermark
  BY <1>4, HistorySteps, OnlyWorld
<1>5. CASE NextRound
  <2>1. /\ round' \in 1 .. MaxRound
        /\ UNCHANGED <<tip, floor, history, storeVars, auditor, genVars>>
    BY <1>1, <1>5, ConstantsAreNat DEF NextRound
  <2>2. WorldOK'
    BY <1>0, <2>1 DEF WorldOK
  <2>. QED
    BY <2>1, <2>2, OnlyWorld
<1>6. CASE RetryAfterPasses
  <2>1. PICK e \in Epoch : /\ audit[e].wait = "later"
                           /\ audit' = [audit EXCEPT ![e].wait = "due"]
    BY <1>6 DEF RetryAfterPasses
  <2>2. UNCHANGED <<worldVars, progress, count, counted, auditor, genVars>>
    BY <1>6 DEF RetryAfterPasses
  <2>3. audit \in Records /\ audit[e] \in Audit
    BY <1>0, <2>1 DEF RecordsOK, Records, NoRecord
  <2>4. [audit[e] EXCEPT !.wait = "due"] \in Audit
    BY <2>3 DEF Audit
  <2>5. /\ audit' \in Records /\ audit'[e] # NoRecord
        /\ \A f \in Epoch : f # e => audit'[f] = audit[f]
    <3>1. audit' = [audit EXCEPT ![e] = [audit[e] EXCEPT !.wait = "due"]]
      BY <2>1
    <3>. DEFINE r == [audit[e] EXCEPT !.wait = "due"]
    <3>2. r \in Audit /\ r # NoRecord /\ audit' = [audit EXCEPT ![e] = r]
      BY <2>4, <3>1, AuditIsRecord
    <3>. HIDE DEF r
    <3>. QED
      BY <2>3, <3>2 DEF Records
  <2>6. Aged(audit, audit')
    BY <2>5 DEF Aged
  <2>7. NoneSkipped
    BY <2>2 DEF NoneSkipped
  <2>8. WorldOK' /\ RecordsOK' /\ AuditorOK'
    BY <1>0, <2>2, <2>5 DEF WorldOK, RecordsOK, AuditorOK, worldVars
  <2>. QED
    BY <1>0, <2>2, <2>6, <2>7, <2>8, AgedIsTrimmed, GeneratorStill DEF AuditsKept, AuditsInv
<1>. QED
  BY <1>2, <1>3, <1>4, <1>5, <1>6 DEF World

(* A restart forgets the downloads and keeps the files.                    *)
LEMMA RestartKeeps ==
  ASSUME AuditsInv, AuditsRestart
  PROVE  AuditsKept
<1>0. WorldOK /\ RecordsOK /\ GenOK /\ CursorsOK /\ CacheOK
  BY DEF AuditsInv, GeneratorOK
<1>1. /\ count' = -1 /\ counted' = -1 /\ auditor' = Resting /\ gen' = Resting
      /\ cursors' = NotInit /\ inWork' = {}
      /\ UNCHANGED <<worldVars, audit, progress, cached>>
  BY DEF AuditsRestart
<1>2. Cardinality(cached) + Cardinality({}) <= Target
  <2>1. /\ Cardinality(cached) \in Nat /\ Cardinality(inWork) \in Nat
        /\ Cardinality({}) = 0
    BY <1>0, EpochsAreFew, FS_EmptySet DEF CacheOK
  <2>. QED
    BY <1>0, <2>1, ConstantsAreNat DEF CacheOK
<1>3. GeneratorOK'
  BY <1>0, <1>1, <1>2, ConstantsAreNat DEF GeneratorOK, GenOK, CursorsOK, CacheOK, NotInit
<1>4. WorldOK' /\ AuditorOK'
  BY <1>0, <1>1 DEF WorldOK, AuditorOK, worldVars
<1>5. RecordsOK'
  BY <1>0, <1>1, ConstantsAreNat DEF RecordsOK, Counts, worldVars
<1>6. TrimmedForAge
  BY <1>1 DEF TrimmedForAge
<1>7. NoneSkipped
  BY <1>1 DEF NoneSkipped, Resting
<1>. QED
  BY <1>3, <1>4, <1>5, <1>6, <1>7 DEF AuditsKept, AuditsInv

-----------------------------------------------------------------------------
(* The theorems. *)

LEMMA AuditsStep == AuditsInv /\ [AuditsNext]_auditsVars => AuditsKept
<1>. SUFFICES ASSUME AuditsInv, [AuditsNext]_auditsVars PROVE AuditsKept
  OBVIOUS
<1>1. CASE UNCHANGED auditsVars
  <2>1. GeneratorOK'
    BY <1>1, GeneratorStill DEF auditsVars, AuditsInv
  <2>. QED
    BY <1>1, <2>1, OnlyGenerator DEF auditsVars
<1>2. CASE AuditsNext
  BY <1>2, AuditorKeeps, ForwardKeeps, BackwardKeeps, FillMoreKeeps, OrderKeeps, CacheKeeps,
     FleetKeeps, CountingKeeps, WorldKeeps, RestartKeeps DEF AuditsNext, Generator
<1>. QED
  BY <1>1, <1>2

(* Whatever the auditor, the generator, the workers and a backfill write,  *)
(* in any order and across failures and restarts, the records of a log are *)
(* dropped for their age alone, the auditor passes over no epoch, and the  *)
(* proofs held or ordered stay within the target (store.go:349-450,        *)
(* auditor.go, workgen.go:76-90).                                          *)
THEOREM AuditsStayKept == AuditsSpec => AuditsAreKept
<1>1. AuditsInv /\ [AuditsNext]_auditsVars => AuditsInv' /\ [TrimmedForAge /\ NoneSkipped]_auditsVars
  BY AuditsStep DEF AuditsKept
<1>2. AuditsInv => AuditsTypeOK /\ OrdersWithinTarget
  BY InvIsKept
<1>. QED
  BY <1>1, <1>2, AuditsInitOK, PTL DEF AuditsSpec, AuditsAreKept

(* No record of a history, however many backfills write one and whatever   *)
(* the operator names, hides an older start that was recorded before       *)
(* (store.go:543-594, 607-640).                                            *)
THEOREM WatermarkFalls == AuditsSpec => WatermarkOnlyLowers
<1>1. AuditsInv /\ [AuditsNext]_auditsVars => AuditsInv'
  BY AuditsStep DEF AuditsKept
<1>2. AuditsInv /\ [AuditsNext]_auditsVars
        => [history.ever > 0 => history'.ever \in 1 .. history.ever]_history
  <2>. SUFFICES ASSUME AuditsInv, [AuditsNext]_auditsVars, history' # history
                PROVE  history.ever > 0 => history'.ever \in 1 .. history.ever
    OBVIOUS
  <2>1. Backfill \/ SeedWatermark
    <3>1. AuditsNext
      BY DEF auditsVars, worldVars
    <3>2. ~Auditor
      BY DEF Auditor, AuditorStarts, NoBeacon, Decide, AuditorVerifies, Unavailable, Advance, worldVars
    <3>3. ~Generator
      BY DEF Generator, FillMore, Forward, Backward, Order, worldVars
    <3>4. ~Cache
      BY DEF Cache, Downloaded, NotDownloaded, Prune, worldVars
    <3>5. ~Fleet
      BY DEF Fleet, WorkerVerifies, WorkerFails, worldVars
    <3>6. ~Counting /\ ~AuditsRestart
      BY DEF Counting, AuditsRestart, worldVars
    <3>7. World => Backfill \/ SeedWatermark
      BY DEF World, Publish, Withdraw, NextRound, RetryAfterPasses, worldVars
    <3>. QED
      BY <3>1, <3>2, <3>3, <3>4, <3>5, <3>6, <3>7 DEF AuditsNext
  <2>. QED
    BY <2>1, HistorySteps
<1>. QED
  BY <1>1, <1>2, AuditsInitOK, PTL DEF AuditsSpec, WatermarkOnlyLowers
=============================================================================
