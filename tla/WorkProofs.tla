----------------------------- MODULE WorkProofs -----------------------------
(***************************************************************************)
(* Proofs about the work channel, for every set of workers, logs and       *)
(* epochs and every width of a worker: runs cut from the Source are        *)
(* disjoint, what is cut is free, and what is concluded from answers is    *)
(* true.  And about the proof a worker is streamed, for every limit, every *)
(* size of a read and every number and size of elements: it arrives whole. *)
(***************************************************************************)
EXTENDS WorkChannel, ProofStream, Numbers, SequenceTheorems, FiniteSetTheorems

-----------------------------------------------------------------------------
(* The operators of the queue. *)

(* What Trim cuts from a run lies in it and holds nothing taken; if it is  *)
(* empty, the whole run was taken.                                         *)
LEMMA TrimIsFree ==
  ASSUME NEW taken, NEW o, NEW from \in Int, NEW to \in Int, from <= to + 1
  PROVE  LET r == Trim(taken, o, from, to)
         IN  /\ r[1] \in from .. to + 1 /\ r[2] \in r[1] - 1 .. to
             /\ \A e \in r[1] .. r[2] : <<o, e>> \notin taken
             /\ ~ Free(r) /\ from <= to => <<o, to>> \in taken
<1>. DEFINE starts == {s \in from .. to + 1 : s = to + 1 \/ <<o, s>> \notin taken}
            StartOK(s) == /\ s = to + 1 \/ <<o, s>> \notin taken
                          /\ \A e \in from .. s - 1 : <<o, e>> \in taken
            start == CHOOSE s \in from .. to + 1 : StartOK(s)
<1>1. start \in from .. to + 1 /\ StartOK(start)
  <2>1. to + 1 \in starts /\ \A s \in starts : from <= s
    OBVIOUS
  <2>2. PICK s \in starts : \A z \in starts : s <= z
    <3>1. starts \in SUBSET Int
      OBVIOUS
    <3>. HIDE DEF starts
    <3>. QED
      BY <2>1, <3>1, LeastInt
  <2>3. s \in from .. to + 1 /\ (s = to + 1 \/ <<o, s>> \notin taken)
    OBVIOUS
  <2>4. ASSUME NEW e \in from .. s - 1 PROVE <<o, e>> \in taken
    <3>1. e \notin starts /\ e \in from .. to + 1 /\ e # to + 1
      BY <2>2, <2>3, <2>4
    <3>. QED
      BY <3>1
  <2>5. StartOK(s)
    BY <2>3, <2>4
  <2>. HIDE DEF StartOK
  <2>. QED
    BY <2>3, <2>5
<1>. DEFINE stops == {t \in start - 1 .. to : t = to \/ <<o, t + 1>> \in taken}
            StopOK(t) == /\ t = to \/ <<o, t + 1>> \in taken
                         /\ \A e \in start .. t : <<o, e>> \notin taken
            stop == CHOOSE t \in start - 1 .. to : StopOK(t)
<1>. HIDE DEF start
<1>2. stop \in start - 1 .. to /\ StopOK(stop)
  <2>1. to \in stops /\ \A t \in stops : start - 1 <= t
    BY <1>1
  <2>2. PICK t \in stops : \A z \in stops : t <= z
    <3>1. stops \in SUBSET Int /\ start - 1 \in Int
      BY <1>1
    <3>. HIDE DEF stops
    <3>. QED
      BY <2>1, <3>1, LeastInt
  <2>3. t \in start - 1 .. to /\ (t = to \/ <<o, t + 1>> \in taken)
    OBVIOUS
  <2>4. ASSUME NEW e \in start .. t PROVE <<o, e>> \notin taken
    <3>1. e - 1 \in start - 1 .. to /\ e - 1 < t /\ (e - 1) + 1 = e
      BY <1>1, <2>3, <2>4
    <3>2. e - 1 \notin stops
      BY <2>2, <2>3, <3>1
    <3>. QED
      BY <3>1, <3>2
  <2>5. StopOK(t)
    BY <2>3, <2>4
  <2>. HIDE DEF StopOK
  <2>. QED
    BY <2>3, <2>5
<1>3. Trim(taken, o, from, to) = <<start, stop>>
  BY DEF Trim, start
<1>. HIDE DEF stop
<1>4. ASSUME start > stop, from <= to PROVE <<o, to>> \in taken
  <2>1. start = to + 1
    BY <1>1, <1>2, <1>4
  <2>2. to \in from .. start - 1
    BY <1>4, <2>1
  <2>. QED
    BY <1>1, <2>2
<1>. QED
  BY <1>1, <1>2, <1>3, <1>4 DEF Free

(* A run: not empty, and of epochs the logs have.                          *)
RunOK(r) == r[1] <= r[2] /\ r[1] .. r[2] \subseteq Epochs

LEMMA EpochsAreNat == Epochs \subseteq Nat /\ \A e \in Epochs : e \in Nat /\ e \in Int
BY QueueAssumption

(* What FreeRun leaves of a run is part of it, out with nobody and not     *)
(* deferred.                                                               *)
LEMMA FreeRunIsFree ==
  ASSUME NEW L, NEW D, NEW o, NEW from \in Epochs, NEW to \in Epochs,
         RunOK(<<from, to>>), Free(FreeRun(L, D, o, <<from, to>>))
  PROVE  LET r == FreeRun(L, D, o, <<from, to>>)
         IN  /\ r[1] \in Epochs /\ r[2] \in Epochs /\ RunOK(r)
             /\ ({o} \X (r[1] .. r[2])) \cap (LeasedKeys(L) \cup D) = {}
<1>0. from \in Int /\ to \in Int /\ from <= to /\ from .. to \subseteq Epochs
  <2>1. from \in Int /\ to \in Int
    BY EpochsAreNat
  <2>. QED
    BY <2>1 DEF RunOK
<1>. DEFINE t == Trim(LeasedKeys(L), o, from, to)
            r == Trim(D, o, t[1], t[2])
<1>1. /\ t[1] \in from .. to + 1 /\ t[2] \in t[1] - 1 .. to
      /\ \A e \in t[1] .. t[2] : <<o, e>> \notin LeasedKeys(L)
  <2>1. from <= to + 1
    BY <1>0
  <2>. QED
    BY <1>0, <2>1, TrimIsFree
<1>2. FreeRun(L, D, o, <<from, to>>) = r
  BY DEF FreeRun, TrimLeased, TrimDeferred
<1>. HIDE DEF t
<1>3. /\ r[1] \in t[1] .. t[2] + 1 /\ r[2] \in r[1] - 1 .. t[2]
      /\ \A e \in r[1] .. r[2] : <<o, e>> \notin D
  <2>. DEFINE a == t[1]
              b == t[2]
  <2>1. a \in Int /\ b \in Int /\ a <= b + 1
    BY <1>0, <1>1
  <2>2. r = Trim(D, o, a, b)
    OBVIOUS
  <2>. HIDE DEF a, b, r
  <2>3. /\ r[1] \in a .. b + 1 /\ r[2] \in r[1] - 1 .. b
        /\ \A e \in r[1] .. r[2] : <<o, e>> \notin D
    BY <2>1, <2>2, TrimIsFree
  <2>. QED
    BY <2>3 DEF a, b
<1>. HIDE DEF r
<1>4. r[1] <= r[2] /\ r[1] \in Int /\ r[2] \in Int
  BY <1>0, <1>1, <1>2, <1>3 DEF Free
<1>5. r[1] .. r[2] \subseteq from .. to /\ r[1] .. r[2] \subseteq t[1] .. t[2]
  BY <1>0, <1>1, <1>3
<1>6. RunOK(r) /\ r[1] \in Epochs /\ r[2] \in Epochs
  BY <1>0, <1>4, <1>5 DEF RunOK
<1>7. \A e \in r[1] .. r[2] : <<o, e>> \notin LeasedKeys(L) /\ <<o, e>> \notin D
  BY <1>1, <1>3, <1>5
<1>. QED
  BY <1>2, <1>6, <1>7

Runs == {<<>>} \cup (Epochs \X Epochs)

(* The Source names nothing, or a run of proofs on disk.                   *)
LEMMA ReadyRunIsRun ==
  ASSUME ready \subseteq Keys, NEW o, NEW at \in Nat, NEW n \in Nat \ {0}
  PROVE  LET r == ReadyRun(o, at, n) IN r \in Runs /\ (r # <<>> => RunOK(r))
<1>. DEFINE from == {e \in Epochs : <<o, e>> \in ready /\ e >= at}
            first == CHOOSE e \in from : \A f \in from : e <= f
            LastOK(l) == /\ \A e \in first .. l : <<o, e>> \in ready
                         /\ \/ l = first + n - 1
                            \/ <<o, l + 1>> \notin ready
            last == CHOOSE l \in first .. first + n - 1 : LastOK(l)
<1>1. ReadyRun(o, at, n) = IF from = {} THEN <<>> ELSE <<first, last>>
  BY DEF ReadyRun
<1>2. CASE from = {}
  BY <1>1, <1>2 DEF Runs
<1>3. ASSUME from # {} PROVE <<first, last>> \in Runs /\ RunOK(<<first, last>>)
  <2>1. from \in SUBSET Nat
    BY EpochsAreNat
  <2>2. \E e \in from : \A f \in from : e <= f
    <3>. HIDE DEF from
    <3>. QED
      BY <1>3, <2>1, LeastNat
  <2>3. first \in from
    <3>. HIDE DEF from
    <3>. QED
      BY <2>2
  <2>4. first \in Nat /\ <<o, first>> \in ready
    BY <2>1, <2>3
  <2>. DEFINE ends == {l \in first .. first + n - 1 :
                          l = first + n - 1 \/ <<o, l + 1>> \notin ready}
  <2>. HIDE DEF first, from
  <2>5. first + n - 1 \in ends /\ ends \in SUBSET Int /\ \A l \in ends : first <= l
    BY <2>4
  <2>6. PICK l \in ends : \A z \in ends : l <= z
    <3>. HIDE DEF ends
    <3>. QED
      BY <2>4, <2>5, LeastInt
  <2>7. l \in first .. first + n - 1 /\ (l = first + n - 1 \/ <<o, l + 1>> \notin ready)
    OBVIOUS
  <2>8. ASSUME NEW e \in first .. l PROVE <<o, e>> \in ready
    <3>1. CASE e = first
      BY <2>4, <3>1
    <3>2. CASE e # first
      <4>1. e - 1 \in first .. first + n - 1 /\ e - 1 < l /\ (e - 1) + 1 = e
        BY <2>4, <2>7, <2>8, <3>2
      <4>2. e - 1 \notin ends
        BY <2>6, <2>7, <4>1
      <4>. QED
        BY <4>1, <4>2
    <3>. QED
      BY <3>1, <3>2
  <2>9. LastOK(l)
    BY <2>7, <2>8
  <2>10. last \in first .. first + n - 1 /\ LastOK(last)
    <3>. HIDE DEF LastOK
    <3>. QED
      BY <2>7, <2>9
  <2>11. last \in Int /\ first <= last /\ \A e \in first .. last : <<o, e>> \in ready
    <3>. HIDE DEF last
    <3>. QED
      BY <2>4, <2>10
  <2>. HIDE DEF last
  <2>12. first .. last \subseteq Epochs
    BY <2>11 DEF Keys
  <2>13. first \in first .. last /\ last \in first .. last
    BY <2>4, <2>11
  <2>. QED
    BY <2>11, <2>12, <2>13 DEF Runs, RunOK
<1>. HIDE DEF from, last, first
<1>. QED
  BY <1>1, <1>2, <1>3

LEMMA ScanIsRun ==
  ASSUME ready \subseteq Keys, NEW o, NEW at \in Nat, NEW n \in Nat \ {0}
  PROVE  Scan(o, at, n) \in Runs /\ (Scan(o, at, n) # <<>> => RunOK(Scan(o, at, n)))
<1>1. /\ ReadyRun(o, at, n) \in Runs /\ (ReadyRun(o, at, n) # <<>> => RunOK(ReadyRun(o, at, n)))
      /\ ReadyRun(o, 0, n) \in Runs /\ (ReadyRun(o, 0, n) # <<>> => RunOK(ReadyRun(o, 0, n)))
  BY ReadyRunIsRun
<1>. QED
  BY <1>1 DEF Scan

(* A cursor rewound to the leases that go is at an epoch, or not moved.    *)
LEMMA CursorStays ==
  ASSUME NEW gone \in SUBSET leased, leased \subseteq Lease, cursor \in [Origins -> Nat]
  PROVE  CursorAfter(gone) \in [Origins -> Nat]
<1>. DEFINE back(o) == {a.from : a \in {b \in gone : b.origin = o}} \cup {cursor[o]}
<1>1. ASSUME NEW o \in Origins
      PROVE  (CHOOSE c \in back(o) : \A d \in back(o) : c <= d) \in Nat
  <2>1. back(o) \in SUBSET Nat /\ back(o) # {}
    <3>1. \A a \in gone : a.from \in Nat
      BY EpochsAreNat DEF Lease
    <3>. QED
      BY <3>1
  <2>2. \E c \in back(o) : \A d \in back(o) : c <= d
    <3>. HIDE DEF back
    <3>. QED
      BY <2>1, LeastNat
  <2>. HIDE DEF back
  <2>. QED
    BY <2>1, <2>2
<1>. QED
  BY <1>1 DEF CursorAfter

(* Where a scan goes on is an epoch number.                                *)
LEMMA ResumeIsNat ==
  ASSUME leased \subseteq Lease, NEW o, NEW from \in Epochs, NEW to \in Epochs,
         RunOK(<<from, to>>), NEW at \in Nat
  PROVE  Resume(leased, o, <<from, to>>, at) \in Nat
<1>. DEFINE r == Trim(LeasedKeys(leased), o, from, to)
            over == {a \in leased : <<o, to>> \in KeysOf(a)}
            next == IF Free(r) THEN r[2] + 1 ELSE (CHOOSE a \in over : TRUE).to + 1
<1>1. from \in Nat /\ to \in Nat /\ from <= to /\ from <= to + 1
  <2>1. from \in Nat /\ to \in Nat
    BY EpochsAreNat
  <2>. QED
    BY <2>1 DEF RunOK
<1>2. /\ r[1] \in from .. to + 1 /\ r[2] \in r[1] - 1 .. to
      /\ ~ Free(r) => <<o, to>> \in LeasedKeys(leased)
  BY <1>1, TrimIsFree
<1>3. Resume(leased, o, <<from, to>>, at) = IF next <= at THEN to + 1 ELSE next
  BY DEF Resume, TrimLeased
<1>. HIDE DEF r
<1>4. ASSUME ~ Free(r) PROVE (CHOOSE a \in over : TRUE).to \in Nat
  <2>1. over # {}
    BY <1>2, <1>4 DEF LeasedKeys
  <2>2. (CHOOSE a \in over : TRUE) \in over
    <3>. HIDE DEF over
    <3>. QED
      BY <2>1
  <2>3. \A a \in over : a.to \in Nat
    BY EpochsAreNat DEF Lease
  <2>. HIDE DEF over
  <2>. QED
    BY <2>2, <2>3
<1>5. Free(r) => r[2] + 1 \in Nat
  BY <1>1, <1>2 DEF Free
<1>. QED
  BY <1>1, <1>3, <1>4, <1>5

-----------------------------------------------------------------------------
(* The queue: leases, and the calls of Lease that have let go of the lock. *)

(* Leases hold runs, and those cut from the Source overlap nowhere.        *)
LeasesOK(L) ==
  /\ L \subseteq Lease
  /\ \A a \in L : RunOK(<<a.from, a.to>>)
  /\ \A a, b \in L :
        a # b /\ ~a.retry /\ ~b.retry => KeysOf(a) \cap KeysOf(b) = {}

(* A call wants an epoch at least, and what it carries is a run.           *)
CallOK(c) ==
  /\ c \in {Idle} \cup Scanning
  /\ c # Idle => c.want >= 1 /\ (c.run # <<>> => RunOK(c.run))

QueueInv ==
  /\ QueueTypeOK
  /\ ready \subseteq Keys
  /\ LeasesOK(leased)
  /\ \A w \in Workers : CallOK(call[w])

(* A step adds at most one lease, and that one holds a run.                *)
AddsOne ==
  \/ \A a \in leased' : a.id \in {b.id : b \in leased}
  \/ \E n \in Lease : RunOK(<<n.from, n.to>>) /\ leased' \subseteq leased \cup {n}

(* A step that hands out a run of the Source hands out what is free.       *)
AddsFree ==
  \A a \in leased' : a.id \notin {b.id : b \in leased} /\ ~a.retry =>
      KeysOf(a) \cap (LeasedKeys(leased) \cup deferred) = {}

LEMMA FewerLeases ==
  ASSUME NEW L, LeasesOK(L), NEW M \in SUBSET L
  PROVE  LeasesOK(M)
BY DEF LeasesOK

LEMMA OneMoreLease ==
  ASSUME NEW L, LeasesOK(L), NEW M \in SUBSET L,
         NEW n \in Lease, RunOK(<<n.from, n.to>>),
         n.retry \/ KeysOf(n) \cap LeasedKeys(L) = {}
  PROVE  LeasesOK(M \cup {n})
<1>1. \A a \in L : KeysOf(a) \subseteq LeasedKeys(L)
  BY DEF LeasedKeys
<1>2. \A a \in M : ~n.retry => KeysOf(a) \cap KeysOf(n) = {}
  BY <1>1
<1>. QED
  BY <1>2 DEF LeasesOK

(* A lease that is only marked covers what it covered.                     *)
LEMMA MarkedLease ==
  ASSUME NEW L, LeasesOK(L), NEW a \in L, NEW b \in Lease,
         b.origin = a.origin, b.from = a.from, b.to = a.to, b.retry = a.retry
  PROVE  LeasesOK((L \ {a}) \cup {b})
<1>1. KeysOf(b) = KeysOf(a)
  BY DEF KeysOf
<1>2. RunOK(<<b.from, b.to>>)
  BY DEF LeasesOK
<1>3. \A c \in L \ {a} : ~b.retry /\ ~c.retry => KeysOf(b) \cap KeysOf(c) = {}
  BY <1>1 DEF LeasesOK
<1>. QED
  BY <1>2, <1>3 DEF LeasesOK

(* The next log to ask, or none: the call is well formed.                  *)
LEMMA AskNextOK ==
  ASSUME QueueInv, NEW w \in Workers, NEW want \in Nat \ {0}, NEW left \in SUBSET Origins,
         cursor' \in [Origins -> Nat], AskNext(w, want, left)
  PROVE  /\ call' \in [Workers -> {Idle} \cup Scanning]
         /\ \A u \in Workers : CallOK(call[u])'
<1>0. /\ call \in [Workers -> {Idle} \cup Scanning]
      /\ \A u \in Workers : CallOK(call[u])
  BY DEF QueueInv, QueueTypeOK
<1>1. ASSUME NEW c, c \in {Idle} \cup Scanning, CallOK(c), call' = [call EXCEPT ![w] = c]
      PROVE  /\ call' \in [Workers -> {Idle} \cup Scanning]
             /\ \A u \in Workers : CallOK(call[u])'
  <2>1. \A u \in Workers : call'[u] = IF u = w THEN c ELSE call[u]
    BY <1>0, <1>1
  <2>. QED
    BY <1>0, <1>1, <2>1 DEF CallOK
<1>2. CASE call' = [call EXCEPT ![w] = Idle]
  <2>1. CallOK(Idle)
    BY DEF CallOK
  <2>. QED
    BY <1>1, <1>2, <2>1
<1>3. ASSUME NEW o \in left,
             call' = [call EXCEPT ![w] =
                        [pc |-> "scan", want |-> want, origin |-> o, at |-> cursor'[o],
                         run |-> Scan(o, cursor'[o], want), probes |-> 1, left |-> left \ {o}]]
      PROVE  /\ call' \in [Workers -> {Idle} \cup Scanning]
             /\ \A u \in Workers : CallOK(call[u])'
  <2>. DEFINE c == [pc |-> "scan", want |-> want, origin |-> o, at |-> cursor'[o],
                    run |-> Scan(o, cursor'[o], want), probes |-> 1, left |-> left \ {o}]
  <2>1. /\ Scan(o, cursor'[o], want) \in Runs
        /\ Scan(o, cursor'[o], want) # <<>> => RunOK(Scan(o, cursor'[o], want))
        /\ cursor'[o] \in Nat
    <3>1. cursor'[o] \in Nat
      OBVIOUS
    <3>. QED
      BY <3>1, ScanIsRun DEF QueueInv
  <2>2. 1 \in 1 .. MaxProbes
    BY QueueAssumption
  <2>3. c \in Scanning /\ CallOK(c)
    BY <2>1, <2>2 DEF Scanning, CallOK, Runs
  <2>. HIDE DEF c
  <2>. QED
    BY <1>1, <1>3, <2>3 DEF c
<1>. QED
  BY <1>2, <1>3 DEF AskNext

(* What every step of the queue is to show.                                *)
QueueKept == QueueInv' /\ AddsOne /\ AddsFree

LEMMA FewerKept ==
  ASSUME leased' \subseteq leased
  PROVE  AddsOne /\ AddsFree
BY DEF AddsOne, AddsFree

LEMMA ReleasedOK ==
  ASSUME QueueInv, NEW gone \in SUBSET leased, Released(gone)
  PROVE  /\ LeasesOK(leased)' /\ leased' \subseteq leased
         /\ cursor' \in [Origins -> Nat] /\ quiet' \subseteq Origins
<1>1. leased' \subseteq leased /\ quiet' \subseteq quiet
  BY DEF Released, QuietAfter
<1>2. LeasesOK(leased')
  BY <1>1, FewerLeases DEF QueueInv
<1>3. LeasesOK(leased)'
  BY <1>2 DEF LeasesOK
<1>. QED
  BY <1>1, <1>3, CursorStays DEF QueueInv, QueueTypeOK, Released

(* A sequence without one of its entries.                                  *)
LEMMA RemoveKeepsSeq ==
  ASSUME NEW S, NEW s \in Seq(S), NEW i \in DOMAIN s
  PROVE  RemoveAt(s, i) \in Seq(S)
<1>1. i \in 1 .. Len(s) /\ Len(s) \in Nat
  BY LenProperties
<1>2. SubSeq(s, 1, i - 1) \in Seq(S)
  <2>1. \A j \in 1 .. i - 1 : s[j] \in S
    BY <1>1, ElementOfSeq
  <2>. QED
    BY <1>1, <2>1, SubSeqProperties
<1>3. SubSeq(s, i + 1, Len(s)) \in Seq(S)
  <2>1. \A j \in i + 1 .. Len(s) : s[j] \in S
    BY <1>1, ElementOfSeq
  <2>. QED
    BY <1>1, <2>1, SubSeqProperties
<1>. QED
  BY <1>2, <1>3, ConcatProperties DEF RemoveAt

LEMMA LeaseRetryKeeps ==
  ASSUME QueueInv, NEW w \in Workers, NEW known, LeaseRetry(w, Origins, known), ready' = ready
  PROVE  QueueKept
<1>. DEFINE New(o, e) ==
              [id |-> CHOOSE i \in Ids \ known : TRUE, origin |-> o, from |-> e, to |-> e,
               worker |-> w, retry |-> TRUE, late |-> FALSE, reported |-> {}]
<1>1. PICK i \in DueIn(Origins) :
         /\ leased' = (leased \ Late) \cup {New(retry[i].key[1], retry[i].key[2])}
         /\ retry' = RemoveAt(retry, i)
  BY DEF LeaseRetry, NewLease
<1>2. i \in DOMAIN retry /\ retry \in Seq(Retry)
  BY DEF DueIn, QueueInv, QueueTypeOK
<1>3. retry[i] \in Retry
  BY <1>2, LenProperties, ElementOfSeq
<1>. DEFINE o == retry[i].key[1]
            e == retry[i].key[2]
            n == New(o, e)
<1>4. o \in Origins /\ e \in Epochs
  BY <1>3 DEF Retry, Keys
<1>5. leased' = (leased \ Late) \cup {n}
  BY <1>1
<1>. HIDE DEF o, e
<1>6. n \in Lease /\ n.retry /\ RunOK(<<n.from, n.to>>)
  <2>1. RunOK(<<e, e>>)
    <3>1. e \in Int
      BY <1>4, EpochsAreNat
    <3>. QED
      BY <1>4, <3>1 DEF RunOK
  <2>2. (CHOOSE j \in Ids \ known : TRUE) \in Ids
    BY DEF LeaseRetry
  <2>. DEFINE id == CHOOSE j \in Ids \ known : TRUE
  <2>3. n = [id |-> id, origin |-> o, from |-> e, to |-> e,
             worker |-> w, retry |-> TRUE, late |-> FALSE, reported |-> {}]
    OBVIOUS
  <2>5. id \in Ids
    BY <2>2
  <2>. HIDE DEF n, id
  <2>4. n \in Lease /\ n.from = e /\ n.to = e
    BY <1>4, <2>3, <2>5 DEF Lease
  <2>6. n.retry
    BY <2>3
  <2>. QED
    BY <2>1, <2>4, <2>6
<1>7. n.retry \/ KeysOf(n) \cap LeasedKeys(leased) = {}
  BY <1>6
<1>. HIDE DEF n
<1>8. LeasesOK(leased')
  BY <1>5, <1>6, <1>7, OneMoreLease DEF QueueInv, Late
<1>9. retry' \in Seq(Retry)
  BY <1>1, <1>2, RemoveKeepsSeq
<1>10. cursor' \in [Origins -> Nat] /\ quiet' \subseteq Origins
  <2>1. Late \in SUBSET leased
    BY DEF Late
  <2>. QED
    BY <2>1, CursorStays DEF LeaseRetry, QuietAfter, QueueInv, QueueTypeOK
<1>11. QueueTypeOK' /\ LeasesOK(leased)' /\ \A u \in Workers : CallOK(call[u])'
  BY <1>8, <1>9, <1>10 DEF LeaseRetry, QueueInv, QueueTypeOK, LeasesOK, CallOK
<1>12. AddsOne
  BY <1>5, <1>6 DEF AddsOne
<1>13. AddsFree
  BY <1>5, <1>6 DEF AddsFree
<1>. QED
  BY <1>11, <1>12, <1>13 DEF QueueKept, QueueInv

LEMMA LeaseScanKeeps ==
  ASSUME QueueInv, NEW w \in Workers, NEW want \in Nat \ {0},
         LeaseScan(w, Origins, want), ready' = ready
  PROVE  QueueKept
<1>1. /\ LeasesOK(leased)' /\ leased' \subseteq leased
      /\ cursor' \in [Origins -> Nat] /\ quiet' \subseteq Origins
  <2>1. Late \in SUBSET leased
    BY DEF Late
  <2>. QED
    BY <2>1, ReleasedOK DEF LeaseScan
<1>2. /\ call' \in [Workers -> {Idle} \cup Scanning]
      /\ \A u \in Workers : CallOK(call[u])'
  BY <1>1, AskNextOK DEF LeaseScan
<1>3. QueueInv'
  BY <1>1, <1>2 DEF LeaseScan, QueueInv, QueueTypeOK, LeasesOK
<1>. QED
  BY <1>1, <1>3, FewerKept DEF QueueKept

(* A call that carries a run carries it from one epoch to another.         *)
LEMMA CallCarries ==
  ASSUME QueueInv, NEW w \in Workers, call[w] # Idle
  PROVE  /\ call[w] \in Scanning /\ call[w].want \in Nat \ {0}
         /\ call[w].run # <<>> =>
              \E from, to \in Epochs : call[w].run = <<from, to>> /\ RunOK(<<from, to>>)
<1>1. call[w] \in Scanning /\ call[w].want >= 1
      /\ (call[w].run # <<>> => RunOK(call[w].run))
  BY DEF QueueInv, CallOK
<1>2. call[w].want \in Nat /\ call[w].run \in {<<>>} \cup (Epochs \X Epochs)
  BY <1>1 DEF Scanning
<1>3. call[w].run # <<>> => \E from, to \in Epochs : call[w].run = <<from, to>>
  BY <1>2
<1>. QED
  BY <1>1, <1>2, <1>3

LEMMA LeaseFoundKeeps ==
  ASSUME QueueInv, NEW w \in Workers, NEW known, LeaseFound(w, known), ready' = ready
  PROVE  QueueKept
<1>. DEFINE c == call[w]
            o == c.origin
<1>1. PICK from \in Epochs, to \in Epochs : c.run = <<from, to>> /\ RunOK(<<from, to>>)
  BY CallCarries DEF LeaseFound
<1>2. o \in Origins
  <2>1. c \in Scanning
    BY CallCarries DEF LeaseFound
  <2>. QED
    BY <2>1 DEF Scanning
<1>. DEFINE r == FreeRun(leased, deferred, o, <<from, to>>)
            n == [id |-> CHOOSE i \in Ids \ known : TRUE, origin |-> o, from |-> r[1],
                  to |-> r[2], worker |-> w, retry |-> FALSE, late |-> FALSE, reported |-> {}]
<1>3. /\ Ids \ known # {} /\ Free(r)
      /\ leased' = leased \cup {n} /\ cursor' = [cursor EXCEPT ![o] = r[2] + 1]
      /\ call' = [call EXCEPT ![w] = Idle]
      /\ UNCHANGED <<retry, deferred, attempts, quiet>>
  BY <1>1 DEF LeaseFound, NewLease
<1>. HIDE DEF o
<1>4. /\ r[1] \in Epochs /\ r[2] \in Epochs /\ RunOK(r)
      /\ ({o} \X (r[1] .. r[2])) \cap (LeasedKeys(leased) \cup deferred) = {}
  BY <1>1, <1>3, FreeRunIsFree
<1>. HIDE DEF r
<1>5. /\ n \in Lease /\ n.origin = o /\ n.from = r[1] /\ n.to = r[2]
  <2>1. (CHOOSE j \in Ids \ known : TRUE) \in Ids
    BY <1>3
  <2>. DEFINE a == r[1]
              b == r[2]
  <2>2. a \in Epochs /\ b \in Epochs
    BY <1>4
  <2>. DEFINE id == CHOOSE j \in Ids \ known : TRUE
  <2>3. n = [id |-> id, origin |-> o, from |-> a, to |-> b,
             worker |-> w, retry |-> FALSE, late |-> FALSE, reported |-> {}]
    OBVIOUS
  <2>4. id \in Ids
    BY <2>1
  <2>. HIDE DEF n, id
  <2>5. n \in Lease /\ n.origin = o /\ n.from = a /\ n.to = b
    <3>. HIDE DEF a, b
    <3>. QED
      BY <1>2, <2>2, <2>3, <2>4 DEF Lease
  <2>. QED
    BY <2>5
<1>. HIDE DEF n
<1>6. RunOK(<<n.from, n.to>>) /\ KeysOf(n) \cap (LeasedKeys(leased) \cup deferred) = {}
  BY <1>4, <1>5 DEF RunOK, KeysOf
<1>7. LeasesOK(leased')
  BY <1>3, <1>5, <1>6, OneMoreLease DEF QueueInv
<1>8. cursor' \in [Origins -> Nat]
  <2>1. r[2] + 1 \in Nat
    <3>1. r[2] \in Nat
      BY <1>4, EpochsAreNat
    <3>. QED
      BY <3>1
  <2>. QED
    BY <1>3, <2>1 DEF QueueInv, QueueTypeOK
<1>9. /\ call' \in [Workers -> {Idle} \cup Scanning]
      /\ \A u \in Workers : CallOK(call[u])'
  <2>1. call \in [Workers -> {Idle} \cup Scanning]
    BY DEF QueueInv, QueueTypeOK
  <2>2. \A u \in Workers : call'[u] = IF u = w THEN Idle ELSE call[u]
    BY <1>3, <2>1
  <2>. QED
    BY <1>3, <2>1, <2>2 DEF QueueInv, CallOK
<1>10. QueueInv'
  BY <1>3, <1>7, <1>8, <1>9 DEF QueueInv, QueueTypeOK, LeasesOK
<1>11. AddsOne
  BY <1>3, <1>5, <1>6 DEF AddsOne
<1>12. AddsFree
  BY <1>3, <1>6 DEF AddsFree
<1>. QED
  BY <1>10, <1>11, <1>12 DEF QueueKept

LEMMA LookPastKeeps ==
  ASSUME QueueInv, NEW w \in Workers, LookPast(w), ready' = ready
  PROVE  QueueKept
<1>. DEFINE c == call[w]
            at == Resume(leased, c.origin, c.run, c.at)
<1>1. PICK from \in Epochs, to \in Epochs : c.run = <<from, to>> /\ RunOK(<<from, to>>)
  BY CallCarries DEF LookPast
<1>2. c \in Scanning /\ c.want \in Nat \ {0}
  BY CallCarries DEF LookPast
<1>3. c.origin \in Origins /\ c.at \in Nat /\ c.left \in SUBSET Origins /\ c.probes \in 1 .. MaxProbes
  BY <1>2 DEF Scanning
<1>4. at \in Nat
  <2>. DEFINE o == c.origin
              since == c.at
  <2>1. at = Resume(leased, o, <<from, to>>, since)
    BY <1>1
  <2>2. leased \subseteq Lease
    BY DEF QueueInv, LeasesOK
  <2>. HIDE DEF o, since, at
  <2>. QED
    BY <1>1, <1>3, <2>1, <2>2, ResumeIsNat DEF o, since
<1>5. /\ cursor' = [cursor EXCEPT ![c.origin] = IF at > @ THEN at ELSE @]
      /\ quiet' = quiet
      /\ \/ /\ c.probes < MaxProbes
            /\ call' = [call EXCEPT ![w] = [c EXCEPT !.at = at, !.probes = @ + 1,
                                                     !.run = Scan(c.origin, at, c.want)]]
         \/ AskNext(w, c.want, c.left)
      /\ UNCHANGED <<leased, retry, deferred, attempts>>
  BY DEF LookPast
<1>. HIDE DEF at
<1>6. cursor' \in [Origins -> Nat]
  BY <1>3, <1>4, <1>5 DEF QueueInv, QueueTypeOK
<1>7. /\ call' \in [Workers -> {Idle} \cup Scanning]
      /\ \A u \in Workers : CallOK(call[u])'
  <2>1. CASE AskNext(w, c.want, c.left)
    <3>. HIDE DEF c
    <3>. QED
      BY <1>2, <1>3, <1>6, <2>1, AskNextOK
  <2>. DEFINE s == Scan(c.origin, at, c.want)
              d == [c EXCEPT !.at = at, !.probes = @ + 1, !.run = s]
  <2>2. CASE c.probes < MaxProbes /\ call' = [call EXCEPT ![w] = d]
    <3>1. s \in Runs /\ (s # <<>> => RunOK(s))
      BY <1>2, <1>4, ScanIsRun DEF QueueInv
    <3>. HIDE DEF s
    <3>2. c.probes + 1 \in 1 .. MaxProbes
      BY <1>3, <2>2, QueueAssumption
    <3>3. /\ d \in Scanning /\ d.want = c.want /\ d.run = s /\ d # Idle
      BY <1>2, <1>4, <3>1, <3>2 DEF Scanning, Runs, Idle
    <3>4. CallOK(d)
      <4>. HIDE DEF d
      <4>. QED
        BY <1>2, <3>1, <3>3 DEF CallOK
    <3>5. /\ call \in [Workers -> {Idle} \cup Scanning]
          /\ \A u \in Workers : CallOK(call[u])
      BY DEF QueueInv, QueueTypeOK
    <3>. HIDE DEF d
    <3>6. \A u \in Workers : call'[u] = IF u = w THEN d ELSE call[u]
      BY <2>2, <3>5
    <3>7. call' \in [Workers -> {Idle} \cup Scanning]
      BY <2>2, <3>3, <3>5
    <3>8. \A u \in Workers : CallOK(call'[u])
      BY <3>4, <3>5, <3>6
    <3>. QED
      BY <3>7, <3>8 DEF CallOK
  <2>. QED
    BY <1>5, <2>1, <2>2
<1>8. QueueInv'
  BY <1>5, <1>6, <1>7 DEF QueueInv, QueueTypeOK, LeasesOK
<1>. QED
  BY <1>5, <1>8, FewerKept DEF QueueKept

LEMMA NothingFoundKeeps ==
  ASSUME QueueInv, NEW w \in Workers, NothingFound(w), ready' = ready
  PROVE  QueueKept
<1>. DEFINE c == call[w]
<1>1. c \in Scanning /\ c.want \in Nat \ {0}
  BY CallCarries DEF NothingFound
<1>2. c.origin \in Origins /\ c.left \in SUBSET Origins
  BY <1>1 DEF Scanning
<1>3. /\ quiet' = quiet \cup {c.origin} /\ cursor' = cursor /\ AskNext(w, c.want, c.left)
      /\ UNCHANGED <<leased, retry, deferred, attempts>>
  BY DEF NothingFound
<1>. HIDE DEF c
<1>4. cursor' \in [Origins -> Nat] /\ quiet' \subseteq Origins
  BY <1>2, <1>3 DEF QueueInv, QueueTypeOK
<1>5. /\ call' \in [Workers -> {Idle} \cup Scanning]
      /\ \A u \in Workers : CallOK(call[u])'
  BY <1>1, <1>2, <1>3, <1>4, AskNextOK
<1>6. QueueInv'
  BY <1>3, <1>4, <1>5 DEF QueueInv, QueueTypeOK, LeasesOK
<1>. QED
  BY <1>3, <1>6, FewerKept DEF QueueKept

(* A lease of which only some epochs are marked, or that is late.          *)
LEMMA MarkedKept ==
  ASSUME QueueInv, NEW a \in leased, NEW b \in Lease, b.id = a.id,
         b.origin = a.origin, b.from = a.from, b.to = a.to, b.retry = a.retry,
         leased' \subseteq (leased \ {a}) \cup {b}
  PROVE  LeasesOK(leased)' /\ AddsOne /\ AddsFree
<1>1. LeasesOK((leased \ {a}) \cup {b})
  BY MarkedLease DEF QueueInv
<1>2. LeasesOK(leased')
  BY <1>1, FewerLeases
<1>3. \A c \in leased' : c.id \in {d.id : d \in leased}
  OBVIOUS
<1>. QED
  BY <1>2, <1>3 DEF LeasesOK, AddsOne, AddsFree

LEMMA AcceptKeeps ==
  ASSUME QueueInv, NEW a, NEW e, NEW isErr, Accept(a, e, isErr), ready' = ready
  PROVE  QueueKept
<1>. DEFINE b == [a EXCEPT !.reported = @ \cup {e}]
<1>1. /\ a \in leased /\ e \in a.from .. a.to
      /\ leased' \subseteq (leased \ {a}) \cup {b}
      /\ deferred' \subseteq deferred
      /\ attempts' = attempts \/ attempts' = [attempts EXCEPT ![<<a.origin, e>>] = 0]
      /\ UNCHANGED <<retry, cursor, quiet, call>>
  BY DEF Accept
<1>2. a \in Lease /\ RunOK(<<a.from, a.to>>)
  BY <1>1 DEF QueueInv, LeasesOK
<1>3. e \in Epochs
  BY <1>1, <1>2 DEF RunOK
<1>4. /\ b \in Lease /\ b.id = a.id /\ b.origin = a.origin /\ b.from = a.from /\ b.to = a.to
      /\ b.retry = a.retry
  BY <1>2, <1>3 DEF Lease
<1>. HIDE DEF b
<1>5. LeasesOK(leased)' /\ AddsOne /\ AddsFree
  BY <1>1, <1>4, MarkedKept
<1>6. attempts' \in [Keys -> 0 .. MaxAttempts - 1]
  <2>1. 0 \in 0 .. MaxAttempts - 1
    BY QueueAssumption
  <2>. QED
    BY <1>1, <2>1 DEF QueueInv, QueueTypeOK
<1>7. QueueInv'
  BY <1>1, <1>5, <1>6 DEF QueueInv, QueueTypeOK, LeasesOK, CallOK
<1>. QED
  BY <1>5, <1>7 DEF QueueKept

LEMMA LeaseLapsesKeeps ==
  ASSUME QueueInv, NEW a \in leased, LeaseLapses(a), ready' = ready
  PROVE  QueueKept
<1>. DEFINE b == [a EXCEPT !.late = TRUE]
<1>1. a \in Lease
  BY DEF QueueInv, LeasesOK
<1>2. /\ b \in Lease /\ b.id = a.id /\ b.origin = a.origin /\ b.from = a.from /\ b.to = a.to
      /\ b.retry = a.retry
  BY <1>1 DEF Lease
<1>3. leased' \subseteq (leased \ {a}) \cup {b} /\ UNCHANGED <<retry, deferred, attempts, cursor, quiet, call>>
  BY DEF LeaseLapses
<1>. HIDE DEF b
<1>4. LeasesOK(leased)' /\ AddsOne /\ AddsFree
  BY <1>2, <1>3, MarkedKept
<1>5. QueueInv'
  BY <1>3, <1>4 DEF QueueInv, QueueTypeOK, LeasesOK, CallOK
<1>. QED
  BY <1>4, <1>5 DEF QueueKept

LEMMA ReleasedKeeps ==
  ASSUME QueueInv, NEW gone \in SUBSET leased, Released(gone),
         UNCHANGED <<retry, deferred, attempts, call, ready>>
  PROVE  QueueKept
<1>1. /\ LeasesOK(leased)' /\ leased' \subseteq leased
      /\ cursor' \in [Origins -> Nat] /\ quiet' \subseteq Origins
  BY ReleasedOK
<1>2. QueueInv'
  BY <1>1 DEF QueueInv, QueueTypeOK, LeasesOK, CallOK
<1>. QED
  BY <1>1, <1>2, FewerKept DEF QueueKept

LEMMA RescheduleKeeps ==
  ASSUME QueueInv, NEW k \in Keys, Reschedule(k), ready' = ready
  PROVE  QueueKept
<1>. DEFINE n == attempts[k] + 1
<1>1. /\ deferred' = deferred \cup {k}
      /\ \/ attempts' = [attempts EXCEPT ![k] = 0] /\ retry' = retry
         \/ /\ ~ (n >= MaxAttempts) /\ attempts' = [attempts EXCEPT ![k] = n]
            /\ retry' = Append(retry, [key |-> k, due |-> FALSE])
      /\ UNCHANGED <<leased, cursor, quiet, call>>
  BY DEF Reschedule
<1>2. 0 \in 0 .. MaxAttempts - 1 /\ (~ (n >= MaxAttempts) => n \in 0 .. MaxAttempts - 1)
  <2>1. attempts[k] \in 0 .. MaxAttempts - 1
    BY DEF QueueInv, QueueTypeOK
  <2>. QED
    BY <2>1, QueueAssumption
<1>. HIDE DEF n
<1>3. attempts' \in [Keys -> 0 .. MaxAttempts - 1]
  BY <1>1, <1>2 DEF QueueInv, QueueTypeOK
<1>4. [key |-> k, due |-> FALSE] \in Retry /\ retry \in Seq(Retry)
  BY DEF Retry, QueueInv, QueueTypeOK
<1>5. retry' \in Seq(Retry)
  BY <1>1, <1>4, AppendProperties
<1>6. QueueInv'
  BY <1>1, <1>3, <1>5 DEF QueueInv, QueueTypeOK, LeasesOK, CallOK
<1>. QED
  BY <1>1, <1>6, FewerKept DEF QueueKept

LEMMA BackoffPassesKeeps ==
  ASSUME QueueInv, NEW k \in Keys, BackoffPasses(k), ready' = ready
  PROVE  QueueKept
<1>1. /\ deferred' = deferred \ {k}
      /\ retry' = [i \in DOMAIN retry |->
                     IF retry[i].key = k THEN [retry[i] EXCEPT !.due = TRUE] ELSE retry[i]]
      /\ UNCHANGED <<leased, attempts, cursor, quiet, call>>
  BY DEF BackoffPasses
<1>2. retry' \in Seq(Retry)
  <2>. DEFINE n == Len(retry)
  <2>1. /\ retry \in Seq(Retry) /\ n \in Nat /\ DOMAIN retry = 1 .. n
        /\ \A i \in 1 .. n : retry[i] \in Retry
    BY LenProperties, ElementOfSeq DEF QueueInv, QueueTypeOK
  <2>2. \A i \in 1 .. n : [retry[i] EXCEPT !.due = TRUE] \in Retry
    BY <2>1 DEF Retry
  <2>. HIDE DEF n
  <2>3. retry' \in [1 .. n -> Retry]
    BY <1>1, <2>1, <2>2
  <2>. QED
    BY <2>1, <2>3, SeqDef
<1>3. QueueInv'
  BY <1>1, <1>2 DEF QueueInv, QueueTypeOK, LeasesOK, CallOK
<1>. QED
  BY <1>1, <1>3, FewerKept DEF QueueKept

(* The queue does not move, or only a log ceases to be quiet.              *)
LEMMA StillKeeps ==
  ASSUME QueueInv, ready' \subseteq Keys, quiet' \subseteq quiet,
         UNCHANGED <<leased, retry, deferred, attempts, cursor, call>>
  PROVE  QueueKept
<1>1. QueueInv'
  BY DEF QueueInv, QueueTypeOK, LeasesOK, CallOK
<1>. QED
  BY <1>1, FewerKept DEF QueueKept

-----------------------------------------------------------------------------
(* The channel: jobs, answers and what is written of them. *)

ChannelOK ==
  /\ standing \in [Keys -> {"none", "hole", "verified"}]
  /\ found \subseteq Keys
  /\ alive \subseteq Workers
  /\ jobs \subseteq Job /\ IsFiniteSet(jobs)
  /\ handling \in [Workers -> {None} \cup Answer]
  /\ canaries \subseteq Keys
  /\ blamed \subseteq Workers

WorkInv == QueueInv /\ ChannelOK
WorkKept == WorkInv' /\ AddsFree

LEMMA InvIsSound == ASSUME WorkInv PROVE LeasesAreSound
BY DEF WorkInv, QueueInv, ChannelOK, LeasesAreSound, WorkTypeOK, LeasesOK, RunsAreDisjoint

(* What a worker has in hand can be counted, so it asks for an epoch at    *)
(* least when it asks.                                                     *)
LEMMA WantsSome ==
  ASSUME WorkInv, NEW w \in Workers, Asks(w)
  PROVE  Want(w) \in Nat \ {0}
<1>1. IsFiniteSet(jobs) /\ JobsOf(w) \subseteq jobs
  BY DEF WorkInv, ChannelOK, JobsOf
<1>2. IsFiniteSet(JobsOf(w))
  BY <1>1, FS_Subset
<1>3. Cardinality(JobsOf(w)) \in Nat /\ Cardinality(JobsOf(w)) <= Parallel
  BY <1>2, FS_CardinalityType DEF Asks
<1>. QED
  BY <1>3, ChannelAssumption DEF Want

(* The epochs of one lease are as many jobs.                               *)
LEMMA JobsOfLease ==
  ASSUME NEW w \in Workers, NEW a \in Lease, RunOK(<<a.from, a.to>>)
  PROVE  LET J == {[worker |-> w, id |-> a.id, key |-> k, proof |-> "none"] : k \in KeysOf(a)}
         IN  J \subseteq Job /\ IsFiniteSet(J)
<1>. DEFINE job(k) == [worker |-> w, id |-> a.id, key |-> k, proof |-> "none"]
            J == {job(k) : k \in KeysOf(a)}
            f == [k \in KeysOf(a) |-> job(k)]
<1>1. /\ a.from \in Int /\ a.to \in Int /\ a.origin \in Origins /\ a.id \in Ids
      /\ a.from .. a.to \subseteq Epochs
  BY EpochsAreNat DEF Lease, RunOK
<1>2. KeysOf(a) \subseteq Keys /\ IsFiniteSet(KeysOf(a))
  <2>1. IsFiniteSet({a.origin}) /\ IsFiniteSet(a.from .. a.to)
    BY <1>1, FS_Singleton, FS_Interval
  <2>2. IsFiniteSet(KeysOf(a))
    BY <2>1, FS_Product DEF KeysOf
  <2>. QED
    BY <1>1, <2>2 DEF KeysOf, Keys
<1>3. J \subseteq Job
  BY <1>1, <1>2 DEF Job
<1>4. f \in Surjection(KeysOf(a), J)
  BY DEF Surjection
<1>5. IsFiniteSet(J)
  <2>. HIDE DEF f, J
  <2>. QED
    BY <1>2, <1>4, FS_Surjection
<1>. QED
  BY <1>3, <1>5

(* What reaches the worker are the epochs of the new lease.                *)
LEMMA ReceivesOK ==
  ASSUME WorkInv, QueueKept, NEW w \in Workers, Receives(w)
  PROVE  jobs' \subseteq Job /\ IsFiniteSet(jobs')
<1>. DEFINE jobsOf(a) == {[worker |-> w, id |-> a.id, key |-> k, proof |-> "none"] : k \in KeysOf(a)}
            N == {b \in leased' : b.id \notin {c.id : c \in leased}}
<1>1. jobs \subseteq Job /\ IsFiniteSet(jobs)
  BY DEF WorkInv, ChannelOK
<1>2. jobs' = jobs \/ jobs' = jobs \cup UNION {jobsOf(a) : a \in N}
  BY DEF Receives
<1>3. CASE N = {}
  <2>1. UNION {jobsOf(a) : a \in N} = {}
    BY <1>3
  <2>. QED
    BY <1>1, <1>2, <2>1
<1>4. CASE N # {}
  <2>1. PICK n \in Lease : RunOK(<<n.from, n.to>>) /\ leased' \subseteq leased \cup {n}
    BY <1>4 DEF QueueKept, AddsOne
  <2>2. \A a \in N : a = n
    BY <2>1
  <2>3. UNION {jobsOf(a) : a \in N} = jobsOf(n)
    BY <1>4, <2>2
  <2>4. jobsOf(n) \subseteq Job /\ IsFiniteSet(jobsOf(n))
    BY <2>1, JobsOfLease
  <2>. HIDE DEF jobsOf, N
  <2>5. IsFiniteSet(jobs \cup jobsOf(n))
    BY <1>1, <2>4, FS_Union
  <2>. QED
    BY <1>1, <1>2, <2>3, <2>4, <2>5
<1>. QED
  BY <1>3, <1>4

LEMMA AskingKeeps ==
  ASSUME WorkInv, NEW w \in Workers, Asking(w)
  PROVE  WorkKept
<1>0. QueueInv /\ ChannelOK
  BY DEF WorkInv
<1>1. CASE AskRetry(w)
  <2>1. QueueKept
    BY <1>0, <1>1, LeaseRetryKeeps DEF AskRetry
  <2>2. jobs' \subseteq Job /\ IsFiniteSet(jobs')
    BY <1>1, <2>1, ReceivesOK DEF AskRetry
  <2>. QED
    BY <1>0, <1>1, <2>1, <2>2 DEF AskRetry, WorkKept, WorkInv, ChannelOK, QueueKept
<1>2. CASE AskSource(w)
  <2>1. Want(w) \in Nat \ {0}
    BY <1>2, WantsSome DEF AskSource
  <2>2. QueueKept
    BY <1>0, <1>2, <2>1, LeaseScanKeeps DEF AskSource
  <2>. QED
    BY <1>0, <1>2, <2>2 DEF AskSource, channelVars, WorkKept, WorkInv, ChannelOK, QueueKept
<1>3. CASE GivenRun(w)
  <2>1. QueueKept
    BY <1>0, <1>3, LeaseFoundKeeps DEF GivenRun
  <2>2. jobs' \subseteq Job /\ IsFiniteSet(jobs')
    BY <1>3, <2>1, ReceivesOK DEF GivenRun
  <2>. QED
    BY <1>0, <1>3, <2>1, <2>2 DEF GivenRun, WorkKept, WorkInv, ChannelOK, QueueKept
<1>4. CASE KeepsLooking(w)
  <2>1. QueueKept
    BY <1>0, <1>4, LookPastKeeps, NothingFoundKeeps DEF KeepsLooking
  <2>. QED
    BY <1>0, <1>4, <2>1 DEF KeepsLooking, channelVars, WorkKept, WorkInv, ChannelOK, QueueKept
<1>. QED
  BY <1>1, <1>2, <1>3, <1>4 DEF Asking

LEMMA GenerateKeeps ==
  ASSUME WorkInv, NEW k \in Keys, Generate(k)
  PROVE  WorkKept
<1>1. /\ ready' = ready \cup {k}
      /\ UNCHANGED <<queueVars, standing, found, alive, handling, jobs, canaries, blamed>>
  BY DEF Generate
<1>2. QueueKept
  BY <1>1, StillKeeps DEF WorkInv, QueueInv, queueVars
<1>. QED
  BY <1>1, <1>2 DEF WorkKept, WorkInv, ChannelOK, QueueKept

(* A step of the channel that removes jobs, or none.                       *)
LEMMA FewerJobs ==
  ASSUME WorkInv, jobs' \subseteq jobs
  PROVE  jobs' \subseteq Job /\ IsFiniteSet(jobs')
BY FS_Subset DEF WorkInv, ChannelOK

LEMMA OnJobKeeps ==
  ASSUME WorkInv, NEW j \in jobs, OnJob(j)
  PROVE  WorkKept
<1>0. QueueInv /\ ChannelOK /\ j \in Job
  BY DEF WorkInv, ChannelOK
<1>1. CASE DropLate(j)
  <2>1. QueueKept
    BY <1>0, <1>1, StillKeeps DEF DropLate, queueVars, QueueInv
  <2>2. jobs' \subseteq Job /\ IsFiniteSet(jobs')
    BY <1>1, FewerJobs DEF DropLate
  <2>. QED
    BY <1>0, <1>1, <2>1, <2>2 DEF DropLate, WorkKept, WorkInv, ChannelOK, QueueKept
<1>2. CASE GetProof(j)
  <2>1. QueueKept
    <3>1. Late \in SUBSET leased
      BY DEF Late
    <3>. QED
      BY <1>0, <1>2, <3>1, ReleasedKeeps DEF GetProof
  <2>2. PICK p \in {"served", "flipped"} :
          /\ jobs' = (jobs \ {j}) \cup {[j EXCEPT !.proof = p]}
          /\ canaries' = IF p = "flipped" THEN canaries \cup {j.key} ELSE canaries
    BY <1>2 DEF GetProof
  <2>3. [j EXCEPT !.proof = p] \in Job /\ j.key \in Keys
    BY <1>0 DEF Job
  <2>4. jobs' \subseteq Job /\ IsFiniteSet(jobs') /\ canaries' \subseteq Keys
    <3>1. jobs \ {j} \subseteq Job /\ IsFiniteSet(jobs \ {j})
      BY <1>0, FS_Subset DEF ChannelOK
    <3>2. IsFiniteSet(jobs')
      BY <2>2, <3>1, FS_AddElement
    <3>. QED
      BY <1>0, <2>2, <2>3, <3>1, <3>2 DEF ChannelOK
  <2>. QED
    BY <1>0, <1>2, <2>1, <2>4 DEF GetProof, WorkKept, WorkInv, ChannelOK, QueueKept
<1>3. CASE Refused(j)
  <2>1. QueueKept
    <3>1. CASE \E a \in LeaseOf(j) : RefuseLate(a)
      <4>1. PICK a \in Late : Released({a}) /\ UNCHANGED <<retry, deferred, attempts, call>>
        BY <3>1 DEF RefuseLate
      <4>2. {a} \in SUBSET leased
        BY <4>1 DEF Late
      <4>. QED
        BY <1>0, <1>3, <4>1, <4>2, ReleasedKeeps DEF Refused
    <3>2. CASE UNCHANGED queueVars
      BY <1>0, <1>3, <3>2, StillKeeps DEF Refused, queueVars, QueueInv
    <3>. QED
      BY <1>3, <3>1, <3>2 DEF Refused
  <2>2. jobs' \subseteq Job /\ IsFiniteSet(jobs')
    BY <1>3, FewerJobs DEF Refused
  <2>3. alive' \subseteq Workers
    BY <1>0, <1>3 DEF Refused, ChannelOK
  <2>. QED
    BY <1>0, <1>3, <2>1, <2>2, <2>3 DEF Refused, WorkKept, WorkInv, ChannelOK, QueueKept
<1>4. ASSUME NEW v \in Verdicts, Answered(j, v) PROVE WorkKept
  <2>1. QueueKept
    <3>1. PICK a \in LeaseOf(j) : Accept(a, j.key[2], v = "error")
      BY <1>4 DEF Answered
    <3>2. ready' = ready
      BY <1>4 DEF Answered
    <3>. DEFINE isErr == v = "error"
    <3>3. Accept(a, j.key[2], isErr)
      BY <3>1
    <3>. HIDE DEF isErr
    <3>. QED
      BY <1>0, <3>2, <3>3, AcceptKeeps
  <2>2. jobs' \subseteq Job /\ IsFiniteSet(jobs')
    BY <1>4, FewerJobs DEF Answered
  <2>3. handling' \in [Workers -> {None} \cup Answer]
    <3>1. [key |-> j.key, verdict |-> v, next |-> "judge"] \in Answer /\ j.worker \in Workers
      BY <1>0 DEF Job, Answer
    <3>. QED
      BY <1>0, <1>4, <3>1 DEF Answered, ChannelOK
  <2>. QED
    BY <1>0, <1>4, <2>1, <2>2, <2>3 DEF Answered, WorkKept, WorkInv, ChannelOK, QueueKept
<1>. QED
  BY <1>1, <1>2, <1>3, <1>4 DEF OnJob

(* An answer goes on to what is to be written of it, or is done with.      *)
LEMMA ThenOK ==
  ASSUME ChannelOK, NEW w \in Workers, handling[w] # None,
         NEW next \in {"done", "hole", "fork", "verified"}, Then(w, next)
  PROVE  /\ handling[w] \in Answer /\ handling[w].key \in Keys
         /\ handling' \in [Workers -> {None} \cup Answer]
         /\ \A u \in Workers \ {w} : handling'[u] = handling[u]
         /\ \/ next = "done" /\ handling'[w] = None
            \/ next # "done" /\ handling'[w] = [handling[w] EXCEPT !.next = next]
<1>1. handling \in [Workers -> {None} \cup Answer] /\ handling[w] \in Answer
  BY DEF ChannelOK
<1>2. next # "done" => [handling[w] EXCEPT !.next = next] \in Answer
  BY <1>1 DEF Answer
<1>3. handling[w].key \in Keys
  BY <1>1 DEF Answer
<1>4. CASE next = "done"
  <2>1. handling' = [handling EXCEPT ![w] = None]
    BY <1>4 DEF Then
  <2>. QED
    BY <1>1, <1>3, <1>4, <2>1
<1>5. CASE next # "done"
  <2>. DEFINE h == [handling[w] EXCEPT !.next = next]
  <2>1. handling' = [handling EXCEPT ![w] = h]
    BY <1>5 DEF Then
  <2>2. h \in Answer
    BY <1>2, <1>5
  <2>3. handling'[w] = h /\ (\A u \in Workers \ {w} : handling'[u] = handling[u])
        /\ handling' \in [Workers -> {None} \cup Answer]
    <3>. HIDE DEF h
    <3>. QED
      BY <1>1, <2>1, <2>2
  <2>. QED
    BY <1>1, <1>3, <1>5, <2>3
<1>. QED
  BY <1>4, <1>5

LEMMA JudgeKeeps ==
  ASSUME WorkInv, NEW w \in Workers, Judge(w)
  PROVE  WorkKept
<1>0. QueueInv /\ ChannelOK
  BY DEF WorkInv
<1>. DEFINE k == handling[w].key
<1>1. ASSUME handling[w] # None, NEW next \in {"done", "hole", "fork", "verified"},
             Then(w, next), Reschedule(k),
             UNCHANGED <<ready, standing, found, alive, jobs>>,
             canaries' \subseteq canaries, blamed' \subseteq Workers
      PROVE  WorkKept
  <2>1. k \in Keys /\ handling' \in [Workers -> {None} \cup Answer]
    BY <1>0, <1>1, ThenOK
  <2>2. QueueKept
    BY <1>0, <1>1, <2>1, RescheduleKeeps
  <2>. QED
    BY <1>0, <1>1, <2>1, <2>2 DEF WorkKept, WorkInv, ChannelOK, QueueKept
<1>2. ASSUME handling[w] # None, NEW next \in {"done", "hole", "fork", "verified"},
             Then(w, next), ready' \subseteq ready,
             standing' \in [Keys -> {"none", "hole", "verified"}], found' \subseteq Keys,
             UNCHANGED <<queueVars, alive, jobs, canaries, blamed>>
      PROVE  WorkKept
  <2>1. handling' \in [Workers -> {None} \cup Answer]
    BY <1>0, <1>2, ThenOK
  <2>2. QueueKept
    BY <1>0, <1>2, StillKeeps DEF queueVars, QueueInv
  <2>. QED
    BY <1>0, <1>2, <2>1, <2>2 DEF WorkKept, WorkInv, ChannelOK, QueueKept
<1>. HIDE DEF k
<1>3. CASE JudgeCanary(w)
  <2>1. blamed' \subseteq Workers /\ canaries' \subseteq canaries
    BY <1>0, <1>3 DEF JudgeCanary, ChannelOK
  <2>. QED
    BY <1>1, <1>3, <2>1 DEF JudgeCanary, Judging, k
<1>4. CASE JudgeError(w)
  <2>1. blamed' \subseteq Workers
    BY <1>0, <1>4 DEF JudgeError, ChannelOK
  <2>. QED
    BY <1>1, <1>4, <2>1 DEF JudgeError, Judging, k
<1>5. CASE CannotResolve(w)
  <2>1. blamed' \subseteq Workers
    BY <1>0, <1>5 DEF CannotResolve, ChannelOK
  <2>. QED
    BY <1>1, <1>5, <2>1 DEF CannotResolve, Judging, k
<1>6. CASE JudgeMismatch(w)
  <2>1. CASE w = Local
    BY <1>0, <1>2, <1>6, <2>1 DEF JudgeMismatch, Judging, ChannelOK
  <2>2. CASE w # Local
    <3>1. blamed' \subseteq Workers
      BY <1>0, <1>6 DEF JudgeMismatch, ChannelOK
    <3>. QED
      BY <1>1, <1>6, <2>2, <3>1 DEF JudgeMismatch, Judging, k
  <2>. QED
    BY <2>1, <2>2
<1>7. CASE JudgeMatch(w)
  BY <1>0, <1>2, <1>7 DEF JudgeMatch, Judging, ChannelOK
<1>8. CASE RecordAnswer(w)
  <2>. DEFINE h == handling[w]
  <2>1. h # None /\ h.next # "judge"
    BY <1>8 DEF RecordAnswer
  <2>2. h \in Answer
    BY <1>0, <2>1 DEF ChannelOK
  <2>3. h.key \in Keys /\ h.next \in {"hole", "fork", "verified"}
    BY <2>1, <2>2 DEF Answer
  <2>4. found' \subseteq Keys
    BY <1>0, <1>8, <2>3 DEF RecordAnswer, ChannelOK
  <2>5. standing' \in [Keys -> {"none", "hole", "verified"}]
    BY <1>0, <1>8, <2>3 DEF RecordAnswer, ChannelOK
  <2>6. Then(w, "hole") \/ Then(w, "done")
    BY <1>8 DEF RecordAnswer
  <2>7. UNCHANGED <<queueVars, ready, alive, jobs, canaries, blamed>>
    BY <1>8 DEF RecordAnswer
  <2>. QED
    BY <1>2, <2>1, <2>4, <2>5, <2>6, <2>7
<1>. QED
  BY <1>3, <1>4, <1>5, <1>6, <1>7, <1>8 DEF Judge

LEMMA ComesAndGoesKeeps ==
  ASSUME WorkInv, NEW w \in Workers, Disconnect(w) \/ Reconnect(w)
  PROVE  WorkKept
<1>1. /\ UNCHANGED <<queueVars, ready, standing, found, handling, canaries, blamed>>
      /\ alive' \subseteq Workers /\ jobs' \subseteq jobs
  BY DEF Disconnect, Reconnect, WorkInv, ChannelOK
<1>2. QueueKept
  BY <1>1, StillKeeps DEF WorkInv, QueueInv, queueVars
<1>. QED
  BY <1>1, <1>2, FewerJobs DEF WorkKept, WorkInv, ChannelOK, QueueKept

LEMMA ClockKeeps ==
  ASSUME WorkInv, Clock
  PROVE  WorkKept
<1>0. QueueInv /\ ready' = ready
  BY DEF WorkInv, Clock
<1>1. ASSUME NEW a \in leased, Lapses(a) PROVE QueueKept
  BY <1>0, <1>1, LeaseLapsesKeeps DEF Lapses
<1>2. ASSUME NEW k \in Keys, BackoffPasses(k) PROVE QueueKept
  BY <1>0, <1>2, BackoffPassesKeeps
<1>3. ASSUME NEW o \in Origins, QuietPasses(o) PROVE QueueKept
  BY <1>0, <1>3, StillKeeps DEF QuietPasses, QueueInv
<1>4. ASSUME Reclaim PROVE QueueKept
  <2>1. Late \in SUBSET leased
    BY DEF Late
  <2>. QED
    BY <1>0, <1>4, <2>1, ReleasedKeeps DEF Reclaim
<1>5. QueueKept
  BY <1>1, <1>2, <1>3, <1>4 DEF Clock
<1>. QED
  BY <1>5 DEF Clock, WorkKept, WorkInv, ChannelOK, QueueKept

(* An empty queue, as at the start and after a restart.                    *)
LEMMA EmptyQueue ==
  ASSUME leased' = {}, retry' = <<>>, deferred' = {}, quiet' = {},
         attempts' = [k \in Keys |-> 0], cursor' = [o \in Origins |-> 0],
         call' = [w \in Workers |-> Idle], ready' \subseteq Keys
  PROVE  QueueKept
<1>1. 0 \in 0 .. MaxAttempts - 1
  BY QueueAssumption
<1>2. QueueTypeOK'
  BY <1>1, EmptySeq DEF QueueTypeOK
<1>3. LeasesOK(leased)' /\ \A w \in Workers : CallOK(call[w])'
  BY DEF LeasesOK, CallOK
<1>. QED
  BY <1>2, <1>3 DEF QueueKept, QueueInv, AddsOne, AddsFree

LEMMA RestartKeeps ==
  ASSUME WorkInv, Restart
  PROVE  WorkKept
<1>1. QueueKept
  BY EmptyQueue DEF Restart, WorkInv, QueueInv
<1>2. IsFiniteSet({})
  BY FS_EmptySet
<1>3. ChannelOK'
  BY <1>2, ChannelAssumption DEF Restart, WorkInv, ChannelOK
<1>. QED
  BY <1>1, <1>3 DEF WorkKept, WorkInv, QueueKept

LEMMA WorkInitOK == WorkInit => WorkInv
<1>. SUFFICES ASSUME WorkInit PROVE WorkInv
  OBVIOUS
<1>1. 0 \in 0 .. MaxAttempts - 1
  BY QueueAssumption
<1>2. QueueTypeOK
  BY <1>1, EmptySeq DEF WorkInit, QueueInit, QueueTypeOK
<1>3. LeasesOK(leased) /\ \A w \in Workers : CallOK(call[w])
  BY DEF WorkInit, QueueInit, LeasesOK, CallOK
<1>4. IsFiniteSet({})
  BY FS_EmptySet
<1>5. ChannelOK
  BY <1>4 DEF WorkInit, ChannelOK
<1>. QED
  BY <1>2, <1>3, <1>5 DEF WorkInv, QueueInv, WorkInit

LEMMA WorkStep ==
  ASSUME WorkInv, [WorkNext]_workVars
  PROVE  WorkKept
<1>1. CASE UNCHANGED workVars
  <2>1. QueueKept
    BY <1>1, StillKeeps DEF WorkInv, QueueInv, workVars, queueVars
  <2>. QED
    BY <1>1, <2>1 DEF workVars, channelVars, WorkKept, WorkInv, ChannelOK, QueueKept
<1>. QED
  BY <1>1, GenerateKeeps, AskingKeeps, JudgeKeeps, ComesAndGoesKeeps, OnJobKeeps,
     ClockKeeps, RestartKeeps DEF WorkNext

(* However leases lapse, epochs fail, cursors move and the Source is read  *)
(* without the lock, no epoch is in two runs that are out, and the queue   *)
(* keeps its form.                                                         *)
THEOREM LeasesStaySound == WorkSpec => []LeasesAreSound
<1>1. WorkInv /\ [WorkNext]_workVars => WorkInv'
  BY WorkStep DEF WorkKept
<1>. QED
  BY <1>1, WorkInitOK, InvIsSound, PTL DEF WorkSpec

(* What a run of the Source hands out is neither leased nor deferred when  *)
(* the lock is held again.                                                 *)
THEOREM OnlyFreeIsHandedOut == WorkSpec => HandsOutOnlyFree
<1>1. WorkInv /\ [WorkNext]_workVars => WorkInv'
  BY WorkStep DEF WorkKept
<1>2. WorkInv /\ [WorkNext]_workVars =>
        [\A a \in leased' : a.id \notin {b.id : b \in leased} /\ ~a.retry =>
           KeysOf(a) \cap (LeasedKeys(leased) \cup deferred) = {}]_<<leased, deferred>>
  BY WorkStep DEF WorkKept, AddsFree
<1>. QED
  BY <1>1, <1>2, WorkInitOK, PTL DEF WorkSpec, HandsOutOnlyFree

-----------------------------------------------------------------------------
(* What is concluded.  The witness's own worker reads the operator's       *)
(* bytes; what it or anybody else makes of a proof is one of three         *)
(* verdicts, and only two of them say something about the proof.           *)

(* An answer on its way into the record, with what it is known to mean.    *)
AnswerMeans(w, h) ==
  h # None => /\ h.verdict = "match" => h.key \notin Bad
              /\ w = Local /\ h.verdict = "mismatch" => h.key \in Bad
              /\ h.next = "verified" => h.verdict = "match"
              /\ h.next = "fork" => w = Local /\ h.verdict = "mismatch"

Meaning ==
  /\ Conclusions
  /\ \A j \in jobs : j.worker = Local => j.proof = "none"
  /\ \A w \in Workers : AnswerMeans(w, handling[w])

LEMMA MeaningStays ==
  ASSUME Meaning, UNCHANGED <<standing, found, handling>>,
         \A j \in jobs' : j.worker = Local => j.proof = "none"
  PROVE  Meaning'
BY DEF Meaning, Conclusions, AnswerMeans

(* One answer is dealt with; the record says no more than it means.        *)
LEMMA MeaningMoves ==
  ASSUME Meaning, NEW w \in Workers, jobs' \subseteq jobs,
         \A u \in Workers \ {w} : handling'[u] = handling[u],
         AnswerMeans(w, handling'[w]), Conclusions'
  PROVE  Meaning'
<1>1. \A u \in Workers : AnswerMeans(u, handling'[u])
  BY DEF Meaning
<1>. QED
  BY <1>1 DEF Meaning, AnswerMeans

LEMMA OnJobMeans ==
  ASSUME Local \notin Broken, WorkInv, Meaning, NEW j \in jobs, OnJob(j)
  PROVE  Meaning'
<1>0. j \in Job
  BY DEF WorkInv, ChannelOK
<1>1. CASE DropLate(j)
  BY <1>1, MeaningStays DEF DropLate, Meaning
<1>2. CASE GetProof(j)
  <2>1. PICK p \in {"served", "flipped"} : jobs' = (jobs \ {j}) \cup {[j EXCEPT !.proof = p]}
    BY <1>2 DEF GetProof
  <2>2. [j EXCEPT !.proof = p].worker = j.worker /\ j.worker # Local
    BY <1>0, <1>2 DEF GetProof, Job, Remote
  <2>3. \A i \in jobs' : i.worker = Local => i.proof = "none"
    BY <2>1, <2>2 DEF Meaning
  <2>. QED
    BY <1>2, <2>3, MeaningStays DEF GetProof
<1>3. CASE Refused(j)
  BY <1>3, MeaningStays DEF Refused, Meaning
<1>4. ASSUME NEW v \in Verdicts, Answered(j, v) PROVE Meaning'
  <2>. DEFINE h == [key |-> j.key, verdict |-> v, next |-> "judge"]
              w == j.worker
  <2>1. /\ handling' = [handling EXCEPT ![w] = h] /\ jobs' = jobs \ {j}
        /\ UNCHANGED <<standing, found>>
        /\ v = "error" \/ v = Computed(j)
    BY <1>4 DEF Answered
  <2>2. w \in Workers /\ handling \in [Workers -> {None} \cup Answer]
    BY <1>0 DEF Job, WorkInv, ChannelOK
  <2>3. v = "match" => j.key \notin Bad
    BY <2>1 DEF Computed
  <2>4. w = Local /\ v = "mismatch" => j.key \in Bad
    <3>1. w = Local => j.proof = "none"
      BY DEF Meaning
    <3>. QED
      BY <2>1, <3>1 DEF Computed
  <2>5. AnswerMeans(w, h)
    BY <2>3, <2>4 DEF AnswerMeans
  <2>. HIDE DEF h, w
  <2>6. handling'[w] = h /\ \A u \in Workers \ {w} : handling'[u] = handling[u]
    BY <2>1, <2>2
  <2>7. Conclusions'
    BY <2>1 DEF Meaning, Conclusions
  <2>. QED
    BY <2>1, <2>2, <2>5, <2>6, <2>7, MeaningMoves
<1>. QED
  BY <1>1, <1>2, <1>3, <1>4 DEF OnJob

LEMMA JudgeMeans ==
  ASSUME WorkInv, Meaning, NEW w \in Workers, Judge(w)
  PROVE  Meaning'
<1>0. ChannelOK /\ jobs' = jobs
  BY DEF WorkInv, Judge, JudgeCanary, JudgeError, CannotResolve, JudgeMismatch, JudgeMatch,
         RecordAnswer
<1>. DEFINE h == handling[w]
<1>1. ASSUME h # None, NEW next \in {"done", "hole", "fork", "verified"}, Then(w, next),
             next = "fork" => w = Local /\ h.verdict = "mismatch",
             next = "verified" => h.verdict = "match",
             Conclusions'
      PROVE  Meaning'
  <2>1. /\ h \in Answer /\ \A u \in Workers \ {w} : handling'[u] = handling[u]
        /\ \/ next = "done" /\ handling'[w] = None
           \/ next # "done" /\ handling'[w] = [h EXCEPT !.next = next]
    BY <1>0, <1>1, ThenOK
  <2>2. AnswerMeans(w, h)
    BY DEF Meaning
  <2>3. AnswerMeans(w, handling'[w])
    <3>. DEFINE g == [h EXCEPT !.next = next]
    <3>1. g.key = h.key /\ g.verdict = h.verdict /\ g.next = next
      BY <2>1 DEF Answer
    <3>2. AnswerMeans(w, g)
      <4>. HIDE DEF g, h
      <4>. QED
        BY <1>1, <2>2, <3>1 DEF AnswerMeans
    <3>3. AnswerMeans(w, None)
      BY DEF AnswerMeans
    <3>. HIDE DEF g
    <3>. QED
      BY <2>1, <3>2, <3>3 DEF g
  <2>. QED
    BY <1>0, <1>1, <2>1, <2>3, MeaningMoves
<1>2. ASSUME UNCHANGED <<standing, found>> PROVE Conclusions'
  BY <1>2 DEF Meaning, Conclusions
<1>. HIDE DEF h
<1>3. CASE JudgeCanary(w)
  BY <1>1, <1>2, <1>3 DEF JudgeCanary, Judging, h
<1>4. CASE JudgeError(w)
  BY <1>1, <1>2, <1>4 DEF JudgeError, Judging, h
<1>5. CASE CannotResolve(w)
  BY <1>1, <1>2, <1>5 DEF CannotResolve, Judging, h
<1>6. CASE JudgeMismatch(w)
  BY <1>1, <1>2, <1>6 DEF JudgeMismatch, Judging, h
<1>7. CASE JudgeMatch(w)
  BY <1>1, <1>2, <1>7 DEF JudgeMatch, Judging, h
<1>8. CASE RecordAnswer(w)
  <2>1. h # None /\ h.next # "judge" /\ AnswerMeans(w, h)
    BY <1>8 DEF RecordAnswer, Meaning, h
  <2>2. h \in Answer
    BY <1>0, <2>1 DEF ChannelOK, h
  <2>3. h.next \in {"hole", "fork", "verified"} /\ h.key \in Keys
    BY <2>1, <2>2 DEF Answer
  <2>4. h.next = "fork" => h.key \in Bad
    BY <2>1 DEF AnswerMeans
  <2>5. h.next = "verified" => h.key \notin Bad
    BY <2>1 DEF AnswerMeans
  <2>6. found' \subseteq Bad
    BY <1>8, <2>4 DEF RecordAnswer, h, Meaning, Conclusions
  <2>7. ASSUME NEW k \in Keys, standing'[k] = "verified" PROVE k \notin Bad
    <3>1. standing'[k] = standing[k] \/ (k = h.key /\ standing'[k] = h.next)
      BY <1>0, <1>8, <2>3 DEF RecordAnswer, h, ChannelOK
    <3>. QED
      BY <2>5, <2>7, <3>1 DEF Meaning, Conclusions
  <2>8. Conclusions'
    BY <2>6, <2>7 DEF Conclusions
  <2>9. Then(w, "hole") \/ Then(w, "done")
    BY <1>8 DEF RecordAnswer
  <2>. QED
    BY <1>1, <2>1, <2>8, <2>9
<1>. QED
  BY <1>3, <1>4, <1>5, <1>6, <1>7, <1>8 DEF Judge

LEMMA ReceivesMeans ==
  ASSUME Meaning, NEW w \in Workers, Receives(w)
  PROVE  \A j \in jobs' : j.worker = Local => j.proof = "none"
BY DEF Receives, Meaning

LEMMA MeaningStep ==
  ASSUME Local \notin Broken, WorkInv, Meaning, [WorkNext]_workVars
  PROVE  Meaning'
<1>1. CASE UNCHANGED workVars
  BY <1>1, MeaningStays DEF workVars, channelVars, Meaning
<1>2. ASSUME NEW k \in Keys, Generate(k) PROVE Meaning'
  BY <1>2, MeaningStays DEF Generate, Meaning
<1>3. ASSUME NEW w \in Workers, Asking(w) PROVE Meaning'
  <2>1. UNCHANGED <<standing, found, handling>>
    BY <1>3 DEF Asking, AskRetry, AskSource, GivenRun, KeepsLooking, channelVars
  <2>2. Receives(w) \/ jobs' = jobs
    BY <1>3 DEF Asking, AskRetry, AskSource, GivenRun, KeepsLooking, channelVars
  <2>3. \A j \in jobs' : j.worker = Local => j.proof = "none"
    BY <2>2, ReceivesMeans DEF Meaning
  <2>. QED
    BY <2>1, <2>3, MeaningStays
<1>4. ASSUME NEW w \in Workers, Judge(w) PROVE Meaning'
  BY <1>4, JudgeMeans
<1>5. ASSUME NEW w \in Workers, Disconnect(w) \/ Reconnect(w) PROVE Meaning'
  BY <1>5, MeaningStays DEF Disconnect, Reconnect, Meaning
<1>6. ASSUME NEW j \in jobs, OnJob(j) PROVE Meaning'
  BY <1>6, OnJobMeans
<1>7. CASE Clock
  BY <1>7, MeaningStays DEF Clock, Meaning
<1>8. CASE Restart
  <2>1. \A w \in Workers : handling'[w] = None
    BY <1>8 DEF Restart
  <2>2. jobs' = {} /\ UNCHANGED <<standing, found>>
    BY <1>8 DEF Restart
  <2>. QED
    BY <2>1, <2>2 DEF Meaning, AnswerMeans, Conclusions
<1>. QED
  BY <1>1, <1>2, <1>3, <1>4, <1>5, <1>6, <1>7, <1>8 DEF WorkNext

(* A log is accused only for a proof that is bad, and an epoch counts as   *)
(* verified only if its proof is good: whatever other machines report,     *)
(* provided the witness's own computes what it should.                     *)
THEOREM ConclusionsAreTrue ==
  ASSUME Local \notin Broken
  PROVE  WorkSpec => []Conclusions
<1>1. WorkInit => Meaning
  BY DEF WorkInit, Meaning, Conclusions, AnswerMeans
<1>2. WorkInv /\ [WorkNext]_workVars => WorkInv'
  BY WorkStep DEF WorkKept
<1>3. WorkInv /\ Meaning /\ [WorkNext]_workVars => Meaning'
  BY MeaningStep
<1>4. Meaning => Conclusions
  BY DEF Meaning
<1>. QED
  BY <1>1, <1>2, <1>3, <1>4, WorkInitOK, PTL DEF WorkSpec

-----------------------------------------------------------------------------
(* ProofStream.  An encoding is units, of which a size is a number.        *)
Unit == [kind : {"key", "size", "number", "payload", "garbled"}, n : Int]
Encoding == {d \in Seq(Unit) : \A i \in 1 .. Len(d) : d[i].kind = "size" => d[i].n >= 0}

(* What is assumed of the constants.                                       *)
LEMMA StreamNumbers ==
  /\ LabelUnits \in Nat /\ ValueUnits \in Nat /\ ScanLimit \in Nat /\ IdleReads \in Nat
  /\ MaxInserted \in Nat /\ MaxUnchanged \in Nat
  /\ ReadSizes \in SUBSET (Nat \ {0}) /\ ReadSizes # {} /\ IsFiniteSet(ReadSizes)
BY StreamAssumption

(* A whole record ends behind where it begins, and within the data.        *)
LEMMA RecordEnds ==
  ASSUME NEW data \in Encoding, NEW pos \in 0 .. Len(data), NextRecord(data, pos).state = "whole"
  PROVE  /\ NextRecord(data, pos).start = pos
         /\ NextRecord(data, pos).body = pos + 2 /\ NextRecord(data, pos).end \in pos + 2 .. Len(data)
         /\ pos + 2 <= Len(data)
<1>1. data \in Seq(Unit) /\ Len(data) \in Nat /\ pos \in Nat
  BY DEF Encoding
<1>. DEFINE left == Len(data) - pos
            key == data[pos + 1]
            size == data[pos + 2]
            framed(body, end) == [state |-> "whole", field |-> key.n \div 8, wire |-> key.n % 8,
                                  start |-> pos, body |-> body, end |-> end]
<1>2. Partial.state # "whole" /\ Malformed.state # "whole"
  BY DEF Partial, Malformed
<1>3. /\ left # 0 /\ left # 1
      /\ IF key.n % 8 # 2 THEN NextRecord(data, pos) = framed(pos + 2, pos + 2)
         ELSE size.kind = "size" /\ ~ (left - 2 < size.n) /\ NextRecord(data, pos) = framed(pos + 2, pos + 2 + size.n)
  <2>. HIDE DEF framed, left, key, size
  <2>1. NextRecord(data, pos) =
          IF left = 0 THEN Partial
          ELSE IF key.kind # "key" \/ key.n % 8 \notin {0, 1, 2, 5} THEN Malformed
          ELSE IF left = 1 THEN Partial
          ELSE IF key.n % 8 # 2 THEN framed(pos + 2, pos + 2)
          ELSE IF size.kind # "size" THEN Malformed
          ELSE IF left - 2 < size.n THEN Partial
          ELSE framed(pos + 2, pos + 2 + size.n)
    BY Zenon DEF NextRecord, framed, left, key, size
  <2>. QED
    BY <1>2, <2>1
<1>4. pos + 2 \in 1 .. Len(data)
  BY <1>1, <1>3
<1>5. size.kind = "size" => size.n \in Nat
  <2>1. data[pos + 2] \in Unit
    BY <1>1, <1>4
  <2>. QED
    BY <1>4, <2>1 DEF Encoding, Unit
<1>. QED
  BY <1>1, <1>3, <1>4, <1>5

-----------------------------------------------------------------------------
(* What is read from the back: a function on the offsets up to L that at   *)
(* some of them goes on from a later one, listing what it passes or not.   *)
IsScan(f, L, go, next, listing, here) ==
  f = [at \in 0 .. L |->
         IF go[at] THEN (IF listing THEN here[at] \o f[next[at]] ELSE f[next[at]]) ELSE here[at]]

(* There is such a function: each of its values stands on later ones only. *)
LEMMA ScanExists ==
  ASSUME NEW L \in Nat, NEW go, NEW next, NEW listing, NEW here,
         \A at \in 0 .. L : go[at] => next[at] \in at + 1 .. L
  PROVE  \E f : IsScan(f, L, go, next, listing, here)
<1>. DEFINE on(f, at) == IF go[at] THEN (IF listing THEN here[at] \o f[next[at]] ELSE f[next[at]]) ELSE here[at]
            from(f, j) == f = [at \in j .. L |-> on(f, at)]
            Missing == {k \in 0 .. L + 1 : ~ \E f : from(f, L + 1 - k)}
<1>1. CASE Missing = {}
  <2>1. L + 1 \in 0 .. L + 1 /\ L + 1 - (L + 1) = 0
    OBVIOUS
  <2>2. \E f : from(f, 0)
    <3>. HIDE DEF from
    <3>. QED
      BY <1>1, <2>1
  <2>. QED
    BY <2>2 DEF IsScan
<1>2. CASE Missing # {}
  <2>1. PICK k \in Missing : \A i \in Missing : k <= i
    <3>. HIDE DEF from
    <3>1. Missing \in SUBSET Nat
      OBVIOUS
    <3>. HIDE DEF Missing
    <3>. QED
      BY <1>2, <3>1, LeastNat
  <2>2. k \in 0 .. L + 1 /\ ~ \E f : from(f, L + 1 - k)
    <3>. HIDE DEF from
    <3>. QED
      BY <2>1
  <2>3. k # 0
    <3>1. (L + 1) .. L = {} /\ L + 1 - 0 = L + 1
      OBVIOUS
    <3>2. from([at \in {} |-> 0], L + 1)
      BY <3>1
    <3>. HIDE DEF from
    <3>. QED
      BY <2>2, <3>1, <3>2
  <2>4. PICK j \in 0 .. L : j = L + 1 - k /\ \E f : from(f, j + 1)
    <3>. HIDE DEF from
    <3>1. k - 1 \in 0 .. L + 1 /\ ~ (k <= k - 1) /\ L + 1 - k \in 0 .. L /\ L + 1 - (k - 1) = (L + 1 - k) + 1
      BY <2>2, <2>3
    <3>2. k - 1 \notin Missing
      <4>. HIDE DEF Missing
      <4>. QED
        BY <2>1, <3>1
    <3>3. \E f : from(f, (L + 1 - k) + 1)
      BY <3>1, <3>2
    <3>. QED
      BY <3>1, <3>3
  <2>5. PICK f : from(f, j + 1)
    <3>. HIDE DEF from
    <3>. QED
      BY <2>4
  <2>. DEFINE g == [at \in j .. L |-> IF at = j THEN on(f, j) ELSE f[at]]
  <2>6. \A at \in j + 1 .. L : f[at] = on(f, at)
    <3>. HIDE DEF on
    <3>. QED
      BY <2>5
  <2>7. g[j] = on(f, j) /\ \A at \in j + 1 .. L : g[at] = f[at]
    <3>. HIDE DEF on
    <3>. QED
      BY <2>4
  <2>8. \A at \in j .. L : on(g, at) = on(f, at)
    <3>1. \A at \in j .. L : go[at] => next[at] \in j + 1 .. L
      <4>1. \A at \in j .. L : at \in 0 .. L /\ \A n \in at + 1 .. L : n \in j + 1 .. L
        BY <2>4
      <4>. QED
        BY <4>1
    <3>. HIDE DEF g
    <3>. QED
      BY <2>7, <3>1
  <2>9. \A at \in j .. L : g[at] = on(g, at)
    <3>1. \A at \in j .. L : at = j \/ at \in j + 1 .. L
      BY <2>4
    <3>. HIDE DEF g, on
    <3>. QED
      BY <2>6, <2>7, <2>8, <3>1
  <2>10. g = [at \in j .. L |-> g[at]]
    <3>. HIDE DEF on
    <3>. QED
      OBVIOUS
  <2>11. from(g, j)
    <3>. HIDE DEF g, on
    <3>. QED
      BY <2>9, <2>10
  <2>. HIDE DEF from
  <2>. QED
    BY <2>2, <2>4, <2>11
<1>. QED
  BY <1>1, <1>2

(* The records from an offset on: the one there, then the rest.            *)
IsFraming(f, data, to) ==
  f = [at \in 0 .. Len(data) |->
         LET r == NextRecord(data, at)
         IN IF at >= to THEN <<>> ELSE IF r.state # "whole" THEN <<r>> ELSE <<r>> \o f[r.end]]

(* There is a framing, so the function that Frames computes with is one.   *)
LEMMA FramingExists ==
  ASSUME NEW data \in Encoding, NEW to \in Nat
  PROVE  \E f : IsFraming(f, data, to)
<1>1. Len(data) \in Nat
  BY DEF Encoding
<1>. DEFINE O == 0 .. Len(data)
            r(at) == NextRecord(data, at)
            go == [at \in O |-> ~ (at >= to) /\ r(at).state = "whole"]
            next == [at \in O |-> r(at).end]
            here == [at \in O |-> IF at >= to THEN <<>> ELSE <<r(at)>>]
<1>2. \A at \in O : go[at] => next[at] \in at + 1 .. Len(data)
  <2>1. SUFFICES ASSUME NEW at \in O, r(at).state = "whole" PROVE r(at).end \in at + 1 .. Len(data)
    BY Zenon
  <2>2. r(at).end \in at + 2 .. Len(data)
    BY <2>1, RecordEnds
  <2>. QED
    BY <1>1, <2>2
<1>3. PICK f : IsScan(f, Len(data), go, next, TRUE, here)
  <2>. HIDE DEF go, next, here
  <2>. QED
    BY <1>1, <1>2, ScanExists
<1>4. f = [at \in O |-> IF go[at] THEN here[at] \o f[next[at]] ELSE here[at]]
  <2>. HIDE DEF go, next, here
  <2>. QED
    BY <1>3 DEF IsScan
<1>5. \A at \in O : (IF go[at] THEN here[at] \o f[next[at]] ELSE here[at])
                    = (IF at >= to THEN <<>> ELSE IF r(at).state # "whole" THEN <<r(at)>> ELSE <<r(at)>> \o f[r(at).end])
  <2>. HIDE DEF r
  <2>1. SUFFICES ASSUME NEW at \in O
                 PROVE (IF go[at] THEN here[at] \o f[next[at]] ELSE here[at])
                    = (IF at >= to THEN <<>> ELSE IF r(at).state # "whole" THEN <<r(at)>> ELSE <<r(at)>> \o f[r(at).end])
    BY Zenon
  <2>2. /\ go[at] <=> ~ (at >= to) /\ r(at).state = "whole"
        /\ next[at] = r(at).end
        /\ here[at] = IF at >= to THEN <<>> ELSE <<r(at)>>
    OBVIOUS
  <2>. HIDE DEF go, next, here
  <2>. QED
    BY <2>2, Zenon
<1>6. f = [at \in O |-> IF at >= to THEN <<>> ELSE IF r(at).state # "whole" THEN <<r(at)>> ELSE <<r(at)>> \o f[r(at).end]]
  <2>. HIDE DEF r, go, next, here
  <2>. QED
    BY <1>4, <1>5, Zenon
<1>. QED
  BY <1>6, Zenon DEF IsFraming

(* Frames is the value there of a framing.                                 *)
LEMMA FramesUnfold ==
  ASSUME NEW data \in Encoding, NEW to \in Nat, NEW from \in 0 .. Len(data)
  PROVE  LET r == NextRecord(data, from)
         IN Frames(data, from, to) =
              IF from >= to THEN <<>> ELSE IF r.state # "whole" THEN <<r>> ELSE <<r>> \o Frames(data, r.end, to)
<1>. DEFINE F == CHOOSE f : IsFraming(f, data, to)
            r == NextRecord(data, from)
<1>1. IsFraming(F, data, to)
  BY FramingExists, Zenon
<1>2. \A at : Frames(data, at, to) = F[at]
  BY Zenon DEF Frames, IsFraming
<1>. HIDE DEF F
<1>3. F[from] = IF from >= to THEN <<>> ELSE IF r.state # "whole" THEN <<r>> ELSE <<r>> \o F[r.end]
  BY <1>1, Zenon DEF IsFraming
<1>. QED
  BY <1>2, <1>3, Zenon

(* ScanLeading goes on behind a record of the field, and stops elsewhere.  *)
Stopped(data, field, at) ==
  LET r == NextRecord(data, at)
      stop(ended, ok) == [end |-> at, ended |-> ended, ok |-> ok]
  IN IF r.state = "partial" THEN stop(FALSE, TRUE)
     ELSE IF r.state = "malformed" \/ r.wire # 2 THEN stop(FALSE, FALSE)
     ELSE stop(TRUE, TRUE)
InRun(data, field, at) ==
  LET r == NextRecord(data, at) IN r.state = "whole" /\ r.wire = 2 /\ r.field = field
IsScanning(f, data, field) ==
  f = [at \in 0 .. Len(data) |->
         LET r == NextRecord(data, at)
             stop(ended, ok) == [end |-> at, ended |-> ended, ok |-> ok]
         IN IF r.state = "partial" THEN stop(FALSE, TRUE)
            ELSE IF r.state = "malformed" \/ r.wire # 2 THEN stop(FALSE, FALSE)
            ELSE IF r.field # field THEN stop(TRUE, TRUE)
            ELSE f[r.end]]

(* What nextRecord answers.                                                *)
LEMMA RecordStates ==
  ASSUME NEW data, NEW pos
  PROVE  NextRecord(data, pos).state \in {"whole", "partial", "malformed"}
<1>1. Partial.state = "partial" /\ Malformed.state = "malformed"
  BY DEF Partial, Malformed
<1>. QED
  BY <1>1 DEF NextRecord

(* There is a scan, so the function that ScanLeading computes with is one. *)
LEMMA ScanningExists ==
  ASSUME NEW data \in Encoding, NEW field
  PROVE  \E f : IsScanning(f, data, field)
<1>1. Len(data) \in Nat
  BY DEF Encoding
<1>. DEFINE O == 0 .. Len(data)
            r(at) == NextRecord(data, at)
            go == [at \in O |-> InRun(data, field, at)]
            next == [at \in O |-> r(at).end]
            here == [at \in O |-> Stopped(data, field, at)]
            on(f, at) == LET stop(ended, ok) == [end |-> at, ended |-> ended, ok |-> ok]
                         IN IF r(at).state = "partial" THEN stop(FALSE, TRUE)
                            ELSE IF r(at).state = "malformed" \/ r(at).wire # 2 THEN stop(FALSE, FALSE)
                            ELSE IF r(at).field # field THEN stop(TRUE, TRUE)
                            ELSE f[r(at).end]
<1>2. \A at \in O : go[at] => next[at] \in at + 1 .. Len(data)
  <2>1. SUFFICES ASSUME NEW at \in O, r(at).state = "whole" PROVE r(at).end \in at + 1 .. Len(data)
    BY Zenon DEF InRun
  <2>2. r(at).end \in at + 2 .. Len(data)
    BY <2>1, RecordEnds
  <2>. QED
    BY <1>1, <2>2
<1>3. PICK f : IsScan(f, Len(data), go, next, FALSE, here)
  <2>. HIDE DEF go, next, here
  <2>. QED
    BY <1>1, <1>2, ScanExists
<1>4. f = [at \in O |-> IF go[at] THEN f[next[at]] ELSE here[at]]
  <2>. HIDE DEF go, next, here
  <2>. QED
    BY <1>3 DEF IsScan
<1>5. \A at \in O : (IF go[at] THEN f[next[at]] ELSE here[at]) = on(f, at)
  <2>1. SUFFICES ASSUME NEW at \in O PROVE (IF go[at] THEN f[next[at]] ELSE here[at]) = on(f, at)
    BY Zenon
  <2>2. /\ go[at] <=> r(at).state = "whole" /\ r(at).wire = 2 /\ r(at).field = field
        /\ next[at] = r(at).end
        /\ here[at] = Stopped(data, field, at)
    BY Zenon DEF InRun
  <2>3. r(at).state \in {"whole", "partial", "malformed"}
    BY RecordStates
  <2>. HIDE DEF go, next, here
  <2>. QED
    BY <2>2, <2>3 DEF Stopped
<1>6. f = [at \in O |-> on(f, at)]
  <2>. HIDE DEF on, go, next, here
  <2>. QED
    BY <1>4, <1>5, Zenon
<1>. QED
  BY <1>6, Zenon DEF IsScanning

(* ScanLeading, one record at a time.                                      *)
LEMMA ScanUnfold ==
  ASSUME NEW data \in Encoding, NEW field, NEW from \in 0 .. Len(data)
  PROVE  ScanLeading(data, field, from) =
           IF InRun(data, field, from) THEN ScanLeading(data, field, NextRecord(data, from).end)
           ELSE Stopped(data, field, from)
<1>. DEFINE F == CHOOSE f : IsScanning(f, data, field)
            r == NextRecord(data, from)
            stop(ended, ok) == [end |-> from, ended |-> ended, ok |-> ok]
<1>1. IsScanning(F, data, field)
  BY ScanningExists, Zenon
<1>2. \A at : ScanLeading(data, field, at) = F[at]
  BY Zenon DEF ScanLeading, IsScanning
<1>. HIDE DEF F
<1>3. F[from] = IF r.state = "partial" THEN stop(FALSE, TRUE)
                ELSE IF r.state = "malformed" \/ r.wire # 2 THEN stop(FALSE, FALSE)
                ELSE IF r.field # field THEN stop(TRUE, TRUE)
                ELSE F[r.end]
  BY <1>1, Zenon DEF IsScanning
<1>4. r.state \in {"whole", "partial", "malformed"}
  BY RecordStates
<1>. QED
  BY <1>2, <1>3, <1>4 DEF InRun, Stopped

-----------------------------------------------------------------------------
(* Counting down to an offset, and up from nothing.                        *)
LEMMA Backwards ==
  ASSUME NEW n \in Nat, NEW T, n \in T, \A k \in 0 .. n - 1 : k + 1 \in T => k \in T
  PROVE  \A k \in 0 .. n : k \in T
<1>. DEFINE Other == {i \in 0 .. n : n - i \notin T}
<1>1. CASE Other = {}
  <2>1. SUFFICES ASSUME NEW k \in 0 .. n PROVE k \in T
    OBVIOUS
  <2>2. n - k \in 0 .. n /\ n - (n - k) = k
    OBVIOUS
  <2>3. n - (n - k) \in T
    BY <1>1, <2>2
  <2>. QED
    BY <2>2, <2>3
<1>2. CASE Other # {}
  <2>1. PICK i \in Other : \A h \in Other : i <= h
    <3>1. Other \in SUBSET Nat
      OBVIOUS
    <3>. HIDE DEF Other
    <3>. QED
      BY <1>2, <3>1, LeastNat
  <2>2. i \in 0 .. n /\ n - i \notin T
    BY <2>1
  <2>3. i # 0
    BY <2>2
  <2>4. i - 1 \in 0 .. n /\ ~ (i <= i - 1) /\ n - i \in 0 .. n - 1 /\ n - (i - 1) = (n - i) + 1
    BY <2>2, <2>3
  <2>5. n - (i - 1) \in T
    BY <2>1, <2>4
  <2>. QED
    BY <2>2, <2>4, <2>5
<1>. QED
  BY <1>1, <1>2

(* Counting up: what holds of none and goes on to the next holds of n.     *)
LEMMA Forwards ==
  ASSUME NEW n \in Nat, NEW T, 0 \in T, \A k \in 0 .. n - 1 : k \in T => k + 1 \in T
  PROVE  \A k \in 0 .. n : k \in T
<1>. DEFINE U == {n - k : k \in (0 .. n) \cap T}
<1>1. n \in U
  BY n - 0 = n
<1>2. ASSUME NEW k \in 0 .. n - 1, k + 1 \in U PROVE k \in U
  <2>1. PICK h \in (0 .. n) \cap T : k + 1 = n - h
    BY <1>2
  <2>2. h \in 0 .. n - 1 /\ h + 1 \in 0 .. n /\ n - (h + 1) = k
    BY <2>1
  <2>3. h + 1 \in T
    BY <2>1, <2>2
  <2>. QED
    BY <2>2, <2>3
<1>3. \A k \in 0 .. n : k \in U
  <2>. HIDE DEF U
  <2>. QED
    BY <1>1, <1>2, Backwards
<1>4. ASSUME NEW k \in 0 .. n PROVE k \in T
  <2>1. n - k \in 0 .. n
    OBVIOUS
  <2>2. n - k \in U
    BY <1>3, <2>1
  <2>3. PICK h \in (0 .. n) \cap T : n - k = n - h
    BY <2>2
  <2>. QED
    BY <2>3
<1>. QED
  BY <1>4

-----------------------------------------------------------------------------
(* Records in a row: each ends where the next begins.                      *)
InARow(data, n, pos) ==
  /\ n \in Nat /\ pos \in [0 .. n -> 0 .. Len(data)]
  /\ \A i \in 1 .. n : /\ NextRecord(data, pos[i - 1]).state = "whole"
                       /\ NextRecord(data, pos[i - 1]).end = pos[i]

(* A sequence is its first and the rest.                                   *)
LEMMA OneMore ==
  ASSUME NEW m \in Nat, NEW s, s = [i \in 1 .. m + 1 |-> s[i]]
  PROVE  <<s[1]>> \o [i \in 1 .. m |-> s[i + 1]] = s
<1>. DEFINE t == [i \in 1 .. m |-> s[i + 1]]
            S == {s[i] : i \in 1 .. m + 1}
<1>1. s[1] \in S /\ <<s[1]>> \in Seq(S) /\ t \in Seq(S) /\ Len(t) = m /\ Len(<<s[1]>>) = 1
  <2>1. \A i \in 1 .. m : i + 1 \in 1 .. m + 1
    OBVIOUS
  <2>2. t \in [1 .. m -> S]
    BY <2>1
  <2>3. s[1] \in S
    BY 1 \in 1 .. m + 1
  <2>. HIDE DEF t, S
  <2>4. t \in Seq(S) /\ Len(t) = m
    BY <2>2
  <2>5. \A x \in S : <<x>> \in Seq(S) /\ Len(<<x>>) = 1
    OBVIOUS
  <2>. QED
    BY <2>3, <2>4, <2>5
<1>2. <<s[1]>> \o t = [i \in 1 .. m + 1 |-> IF i <= 1 THEN <<s[1]>>[i] ELSE t[i - 1]]
  BY <1>1
<1>3. \A i \in 1 .. m + 1 : (IF i <= 1 THEN <<s[1]>>[i] ELSE t[i - 1]) = s[i]
  <2>1. \A i \in 1 .. m + 1 : i <= 1 => i = 1
    OBVIOUS
  <2>2. \A i \in 1 .. m + 1 : ~ (i <= 1) => i - 1 \in 1 .. m /\ (i - 1) + 1 = i
    OBVIOUS
  <2>. QED
    BY <2>1, <2>2
<1>. QED
  BY <1>2, <1>3

(* Frames lists records in a row one by one.                               *)
LEMMA FramesAre ==
  ASSUME NEW data \in Encoding, NEW n, NEW pos, InARow(data, n, pos), NEW j \in 0 .. n
  PROVE  /\ Frames(data, pos[j], pos[n]) = [i \in 1 .. n - j |-> NextRecord(data, pos[j + i - 1])]
         /\ j < n => pos[j] < pos[n]
<1>. DEFINE is(k) == /\ Frames(data, pos[k], pos[n]) = [i \in 1 .. n - k |-> NextRecord(data, pos[k + i - 1])]
                     /\ k < n => pos[k] < pos[n]
            Good == {k \in 0 .. n : is(k)}
<1>1. /\ n \in Nat /\ Len(data) \in Nat /\ \A k \in 0 .. n : pos[k] \in 0 .. Len(data) /\ pos[k] \in Nat
  BY DEF InARow, Encoding
<1>2. is(n)
  <2>1. Frames(data, pos[n], pos[n]) = <<>>
    <3>1. n \in 0 .. n
      BY <1>1
    <3>2. pos[n] >= pos[n] /\ pos[n] \in 0 .. Len(data) /\ pos[n] \in Nat
      BY <1>1, <3>1
    <3>. QED
      BY <3>2, FramesUnfold
  <2>2. [k \in 1 .. n - n |-> NextRecord(data, pos[n + k - 1])] = <<>>
    BY <1>1
  <2>. QED
    BY <1>1, <2>1, <2>2
<1>3. SUFFICES ASSUME NEW k \in 0 .. n - 1, is(k + 1) PROVE is(k)
  <2>. HIDE DEF is
  <2>1. n \in Good
    BY <1>1, <1>2
  <2>2. \A k \in 0 .. n - 1 : k + 1 \in Good => k \in Good
    BY <1>1, <1>3
  <2>3. \A k \in 0 .. n : k \in Good
    <3>. HIDE DEF Good
    <3>. QED
      BY <1>1, <2>1, <2>2, Backwards
  <2>4. is(j)
    BY <2>3
  <2>. QED
    BY <2>4 DEF is
<1>4. k \in 0 .. n /\ k + 1 \in 1 .. n
  BY <1>1, <1>3
<1>. DEFINE r == NextRecord(data, pos[k])
            s == [h \in 1 .. n - k |-> NextRecord(data, pos[k + h - 1])]
            t == [h \in 1 .. n - (k + 1) |-> NextRecord(data, pos[(k + 1) + h - 1])]
<1>5. r.state = "whole" /\ r.end = pos[k + 1] /\ pos[k] < pos[k + 1] /\ pos[k + 1] \in 0 .. Len(data)
  <2>1. (k + 1) - 1 = k /\ k + 1 \in 0 .. n
    BY <1>1, <1>4
  <2>2. r.state = "whole" /\ r.end = pos[k + 1]
    BY <1>4, <2>1 DEF InARow
  <2>3. pos[k] \in 0 .. Len(data) /\ pos[k + 1] \in 0 .. Len(data)
    BY <1>1, <1>4, <2>1
  <2>4. r.end \in pos[k] + 2 .. Len(data)
    BY <2>2, <2>3, RecordEnds
  <2>. QED
    BY <1>1, <2>2, <2>3, <2>4
<1>6. pos[k] < pos[n] /\ ~ (pos[k] >= pos[n])
  <2>1. pos[k] \in Nat /\ pos[k + 1] \in Nat /\ pos[n] \in Nat
    BY <1>1, <1>4
  <2>2. k + 1 < n \/ k + 1 = n
    BY <1>1, <1>4
  <2>3. k + 1 < n => pos[k + 1] < pos[n]
    BY <1>3
  <2>4. pos[k + 1] <= pos[n]
    BY <2>1, <2>2, <2>3
  <2>. QED
    BY <1>5, <2>1, <2>4
<1>7. Frames(data, pos[k], pos[n]) = <<r>> \o Frames(data, pos[k + 1], pos[n])
  <2>1. pos[k] \in 0 .. Len(data) /\ pos[n] \in Nat
    BY <1>1, <1>4
  <2>2. Frames(data, pos[k], pos[n]) = <<r>> \o Frames(data, r.end, pos[n])
    <3>. HIDE DEF r
    <3>1. Frames(data, pos[k], pos[n]) =
            IF pos[k] >= pos[n] THEN <<>> ELSE IF r.state # "whole" THEN <<r>> ELSE <<r>> \o Frames(data, r.end, pos[n])
      BY <2>1, FramesUnfold DEF r
    <3>. QED
      BY <1>5, <1>6, <3>1
  <2>. QED
    BY <1>5, <2>2
<1>8. Frames(data, pos[k + 1], pos[n]) = t
  BY <1>3
<1>9. <<r>> \o t = s
  <2>. DEFINE m == n - (k + 1)
  <2>1. m \in Nat /\ n - k = m + 1
    BY <1>1, <1>4
  <2>2. s = [h \in 1 .. m + 1 |-> s[h]]
    BY <2>1
  <2>3. s[1] = r
    <3>1. 1 \in 1 .. n - k /\ k + 1 - 1 = k
      BY <1>1, <2>1
    <3>. QED
      BY <3>1
  <2>4. t = [h \in 1 .. m |-> s[h + 1]]
    <3>1. \A h \in 1 .. m : h + 1 \in 1 .. n - k /\ k + (h + 1) - 1 = (k + 1) + h - 1
      BY <1>1, <2>1
    <3>2. \A h \in 1 .. m : s[h + 1] = NextRecord(data, pos[(k + 1) + h - 1])
      BY <3>1
    <3>. HIDE DEF s
    <3>. QED
      BY <3>2
  <2>. HIDE DEF s, t, m, r
  <2>. QED
    BY <2>1, <2>2, <2>3, <2>4, OneMore
<1>. QED
  BY <1>6, <1>7, <1>8, <1>9

(* From any of them, the scan of records in a row ends behind the last.    *)
LEMMA ScanIs ==
  ASSUME NEW data \in Encoding, NEW field, NEW n, NEW pos, InARow(data, n, pos),
         \A i \in 1 .. n : InRun(data, field, pos[i - 1]), ~ InRun(data, field, pos[n]),
         NEW j \in 0 .. n
  PROVE  ScanLeading(data, field, pos[j]) = Stopped(data, field, pos[n])
<1>. DEFINE is(k) == ScanLeading(data, field, pos[k]) = Stopped(data, field, pos[n])
            Good == {k \in 0 .. n : is(k)}
<1>1. /\ n \in Nat /\ Len(data) \in Nat /\ \A k \in 0 .. n : pos[k] \in 0 .. Len(data) /\ pos[k] \in Nat
  BY DEF InARow, Encoding
<1>2. is(n)
  <2>1. pos[n] \in 0 .. Len(data)
    BY <1>1, n \in 0 .. n
  <2>. QED
    BY <2>1, ScanUnfold
<1>3. SUFFICES ASSUME NEW k \in 0 .. n - 1, is(k + 1) PROVE is(k)
  <2>. HIDE DEF is
  <2>1. n \in Good
    BY <1>1, <1>2
  <2>2. \A k \in 0 .. n - 1 : k + 1 \in Good => k \in Good
    BY <1>1, <1>3
  <2>3. \A k \in 0 .. n : k \in Good
    <3>. HIDE DEF Good
    <3>. QED
      BY <1>1, <2>1, <2>2, Backwards
  <2>4. is(j)
    BY <2>3
  <2>. QED
    BY <2>4 DEF is
<1>4. k \in 0 .. n /\ k + 1 \in 1 .. n
  BY <1>1, <1>3
<1>5. InRun(data, field, pos[k]) /\ NextRecord(data, pos[k]).end = pos[k + 1]
  <2>1. (k + 1) - 1 = k
    BY <1>1, <1>4
  <2>. QED
    BY <1>4, <2>1 DEF InARow
<1>. QED
  <2>1. pos[k] \in 0 .. Len(data)
    BY <1>1, <1>4
  <2>2. ScanLeading(data, field, pos[k]) = ScanLeading(data, field, NextRecord(data, pos[k]).end)
    BY <1>5, <2>1, ScanUnfold
  <2>. QED
    BY <1>3, <1>5, <2>2

-----------------------------------------------------------------------------
(* OfField: every record of the field, none other, in their order.         *)
IsOf(frames, field, r) == r.field = field /\ r.wire = 2
IsSelecting(f, frames, field) ==
  f = [n \in 0 .. Len(frames) |->
         IF n = Len(frames) THEN <<>>
         ELSE (IF frames[n + 1].field = field /\ frames[n + 1].wire = 2 THEN <<frames[n + 1]>> ELSE <<>>) \o f[n + 1]]

(* There is a selection, so the function that OfField computes with is one.*)
LEMMA SelectingExists ==
  ASSUME NEW frames, NEW field, Len(frames) \in Nat
  PROVE  \E f : IsSelecting(f, frames, field)
<1>. DEFINE O == 0 .. Len(frames)
            one(n) == IF frames[n + 1].field = field /\ frames[n + 1].wire = 2 THEN <<frames[n + 1]>> ELSE <<>>
            go == [n \in O |-> n # Len(frames)]
            next == [n \in O |-> n + 1]
            here == [n \in O |-> IF n = Len(frames) THEN <<>> ELSE one(n)]
<1>1. \A n \in O : go[n] => next[n] \in n + 1 .. Len(frames)
  <2>1. \A n \in O : n # Len(frames) => n + 1 \in n + 1 .. Len(frames)
    OBVIOUS
  <2>. QED
    BY <2>1
<1>2. PICK f : IsScan(f, Len(frames), go, next, TRUE, here)
  <2>. HIDE DEF go, next, here
  <2>. QED
    BY <1>1, ScanExists
<1>3. f = [n \in O |-> IF go[n] THEN here[n] \o f[next[n]] ELSE here[n]]
  <2>. HIDE DEF go, next, here
  <2>. QED
    BY <1>2 DEF IsScan
<1>4. \A n \in O : (IF go[n] THEN here[n] \o f[next[n]] ELSE here[n])
                    = (IF n = Len(frames) THEN <<>> ELSE one(n) \o f[n + 1])
  <2>. HIDE DEF one
  <2>. QED
    OBVIOUS
<1>5. f = [n \in O |-> IF n = Len(frames) THEN <<>> ELSE one(n) \o f[n + 1]]
  <2>. HIDE DEF one, go, next, here
  <2>. QED
    BY <1>3, <1>4, Zenon
<1>. QED
  BY <1>5, Zenon DEF IsSelecting

(* A list of records in their order: what it may hold, and where they are. *)
InOrder(of) == \A j, h \in 1 .. Len(of) : j < h => of[j].start < of[h].start
Selects(of, frames, field, after) ==
  /\ \A j \in 1 .. Len(of) : \E i \in after + 1 .. Len(frames) : IsOf(frames, field, frames[i]) /\ of[j] = frames[i]
  /\ \A i \in after + 1 .. Len(frames) : IsOf(frames, field, frames[i]) => \E j \in 1 .. Len(of) : of[j] = frames[i]
  /\ InOrder(of)

(* OfField selects, from the first record on.                              *)
LEMMA OfFieldSelects ==
  ASSUME NEW S, NEW frames \in Seq(S), NEW field, InOrder(frames)
  PROVE  OfField(frames, field) \in Seq(S) /\ Selects(OfField(frames, field), frames, field, 0)
<1>. DEFINE F == CHOOSE f : IsSelecting(f, frames, field)
            L == Len(frames)
            one(n) == IF frames[n + 1].field = field /\ frames[n + 1].wire = 2 THEN <<frames[n + 1]>> ELSE <<>>
            is(n) == F[n] \in Seq(S) /\ Selects(F[n], frames, field, n)
            Good == {n \in 0 .. L : is(n)}
<1>1. L \in Nat
  OBVIOUS
<1>2. IsSelecting(F, frames, field)
  BY <1>1, SelectingExists, Zenon
<1>3. OfField(frames, field) = F[0]
  BY Zenon DEF OfField, IsSelecting
<1>. HIDE DEF F
<1>4. \A n \in 0 .. L : F[n] = IF n = L THEN <<>> ELSE one(n) \o F[n + 1]
  BY <1>2, Zenon DEF IsSelecting
<1>5. is(L)
  <2>1. F[L] = <<>> /\ Len(<<>>) = 0 /\ <<>> \in Seq(S)
    <3>1. L \in 0 .. L
      BY <1>1
    <3>2. F[L] = <<>>
      BY <1>4, <3>1
    <3>. QED
      BY <3>2
  <2>. QED
    BY <1>1, <2>1 DEF Selects, InOrder
<1>6. ASSUME NEW n \in 0 .. L - 1, is(n + 1) PROVE is(n)
  <2>. DEFINE g == F[n + 1]
              x == frames[n + 1]
  <2>1. n \in 0 .. L /\ n # L /\ n + 1 \in 1 .. L /\ x \in S
    BY <1>1
  <2>2. g \in Seq(S) /\ Selects(g, frames, field, n + 1)
    BY <1>6
  <2>3. F[n] = one(n) \o g
    BY <1>4, <2>1
  <2>4. CASE ~ IsOf(frames, field, x)
    <3>1. F[n] = g
      <4>1. one(n) = <<>>
        BY <2>4 DEF IsOf
      <4>2. <<>> \o g = g
        BY <2>2
      <4>. QED
        BY <2>3, <4>1, <4>2
    <3>2. \A i \in n + 1 .. L : i = n + 1 \/ i \in (n + 1) + 1 .. L
      BY <2>1
    <3>3. \A i \in (n + 1) + 1 .. L : i \in n + 1 .. L
      BY <2>1
    <3>. HIDE DEF g
    <3>. QED
      BY <2>2, <2>4, <3>1, <3>2, <3>3 DEF Selects
  <2>5. CASE IsOf(frames, field, x)
    <3>1. F[n] = <<x>> \o g
      <4>1. one(n) = <<x>>
        BY <2>5 DEF IsOf
      <4>. QED
        BY <2>3, <4>1
    <3>. DEFINE s == <<x>> \o g
    <3>2. /\ s \in Seq(S) /\ Len(s) = Len(g) + 1 /\ Len(g) \in Nat /\ s[1] = x
          /\ \A j \in 1 .. Len(g) : s[j + 1] = g[j]
      <4>1. <<x>> \in Seq(S) /\ Len(<<x>>) = 1 /\ <<x>>[1] = x
        BY <2>1
      <4>. HIDE DEF g, x
      <4>. QED
        BY <2>2, <4>1
    <3>3. \A j \in 1 .. Len(s) : j = 1 \/ (j - 1 \in 1 .. Len(g) /\ s[j] = g[j - 1])
      <4>1. \A j \in 1 .. Len(s) : j # 1 => j - 1 \in 1 .. Len(g) /\ (j - 1) + 1 = j
        BY <3>2
      <4>. HIDE DEF s, g
      <4>. QED
        BY <3>2, <4>1
    <3>. HIDE DEF s, g
    <3>4. \A j \in 1 .. Len(g) : j + 1 \in 1 .. Len(s)
      BY <3>2
    <3>5. 1 \in 1 .. Len(s)
      BY <3>2
    <3>6. ASSUME NEW j \in 1 .. Len(s)
          PROVE  \E i \in n + 1 .. L : IsOf(frames, field, frames[i]) /\ s[j] = frames[i]
      <4>1. CASE j = 1
        BY <2>1, <2>5, <3>2, <4>1
      <4>2. CASE j - 1 \in 1 .. Len(g) /\ s[j] = g[j - 1]
        <5>1. PICK i \in (n + 1) + 1 .. L : IsOf(frames, field, frames[i]) /\ g[j - 1] = frames[i]
          BY <2>2, <4>2 DEF Selects
        <5>2. i \in n + 1 .. L
          BY <2>1
        <5>. QED
          BY <4>2, <5>1, <5>2
      <4>. QED
        BY <3>3, <4>1, <4>2
    <3>7. ASSUME NEW i \in n + 1 .. L, IsOf(frames, field, frames[i]) PROVE \E j \in 1 .. Len(s) : s[j] = frames[i]
      <4>1. CASE i = n + 1
        BY <3>2, <3>5, <4>1
      <4>2. CASE i \in (n + 1) + 1 .. L
        <5>1. PICK j \in 1 .. Len(g) : g[j] = frames[i]
          BY <2>2, <3>7, <4>2 DEF Selects
        <5>. QED
          BY <3>2, <3>4, <5>1
      <4>. QED
        BY <2>1, <4>1, <4>2
    <3>8. ASSUME NEW j \in 1 .. Len(s), NEW h \in 1 .. Len(s), j < h PROVE s[j].start < s[h].start
      <4>1. h - 1 \in 1 .. Len(g) /\ s[h] = g[h - 1]
        <5>1. h # 1
          BY <3>8
        <5>. QED
          BY <3>3, <5>1
      <4>2. CASE j = 1
        <5>1. PICK i \in (n + 1) + 1 .. L : g[h - 1] = frames[i]
          BY <2>2, <4>1 DEF Selects
        <5>2. n + 1 < i /\ i \in 1 .. L
          BY <2>1
        <5>3. frames[n + 1].start < frames[i].start
          BY <2>1, <5>2 DEF InOrder
        <5>. QED
          BY <3>2, <4>1, <4>2, <5>1, <5>3
      <4>3. CASE j - 1 \in 1 .. Len(g) /\ s[j] = g[j - 1]
        <5>1. j - 1 < h - 1
          BY <3>8
        <5>2. g[j - 1].start < g[h - 1].start
          BY <2>2, <4>1, <4>3, <5>1 DEF Selects, InOrder
        <5>. QED
          BY <4>1, <4>3, <5>2
      <4>. QED
        BY <3>3, <4>2, <4>3
    <3>9. F[n] = s
      BY <3>1 DEF s, g
    <3>. QED
      BY <3>2, <3>6, <3>7, <3>8, <3>9 DEF Selects, InOrder
  <2>. QED
    BY <2>4, <2>5
<1>7. is(0)
  <2>. HIDE DEF is
  <2>1. L \in Good /\ \A n \in 0 .. L - 1 : n + 1 \in Good => n \in Good
    BY <1>1, <1>5, <1>6
  <2>2. \A n \in 0 .. L : n \in Good
    <3>. HIDE DEF Good
    <3>. QED
      BY <1>1, <2>1, Backwards
  <2>. QED
    BY <1>1, <2>2
<1>. QED
  BY <1>3, <1>7

-----------------------------------------------------------------------------
(* How an element of a label of l units lies in an encoding: its units but *)
(* for the payload, of which only the places are told.                     *)
LabelPart(l) == IF l = 0 THEN 2 ELSE l + 4
BodyPart(l) == LabelPart(l) + ValueUnits + 4
ElementPart(l) == BodyPart(l) + 2
PayloadAt(d, o, n) == \A j \in 1 .. n : d[o + j].kind = "payload"

LabelAt(d, o, l) ==
  /\ l # 0 => d[o + 1] = Key(1, 2) /\ d[o + 2] = Size(l) /\ PayloadAt(d, o + 2, l)
  /\ d[o + LabelPart(l) - 1] = Key(2, 0) /\ d[o + LabelPart(l)] = Number(l)
BodyAt(d, o, l) ==
  /\ d[o + 1] = Key(1, 2) /\ d[o + 2] = Size(LabelPart(l)) /\ LabelAt(d, o + 2, l)
  /\ d[o + LabelPart(l) + 3] = Key(2, 2) /\ d[o + LabelPart(l) + 4] = Size(ValueUnits)
  /\ PayloadAt(d, o + LabelPart(l) + 4, ValueUnits)
ElementAt(d, o, f, l) ==
  d[o + 1] = Key(f, 2) /\ d[o + 2] = Size(BodyPart(l)) /\ BodyAt(d, o + 2, l)

Rec(f, w, s, b, e) == [state |-> "whole", field |-> f, wire |-> w, start |-> s, body |-> b, end |-> e]

(* How many units an element and its parts have.                           *)
LEMMA PartsAreNumbers ==
  ASSUME NEW l \in Nat
  PROVE  /\ LabelPart(l) \in Nat /\ BodyPart(l) \in Nat /\ ElementPart(l) \in Nat
         /\ LabelPart(l) >= 2 /\ LabelPart(l) >= l + 2 /\ BodyPart(l) >= 6 /\ ElementPart(l) >= 8
         /\ BodyPart(l) = LabelPart(l) + ValueUnits + 4 /\ ElementPart(l) = BodyPart(l) + 2
BY StreamNumbers DEF LabelPart, BodyPart, ElementPart

(* The record read where a length-delimited one is.                        *)
LEMMA NextDelimited ==
  ASSUME NEW d \in Encoding, NEW o \in Nat, NEW n \in Nat, NEW f \in {1, 2, 3},
         d[o + 1] = Key(f, 2), d[o + 2] = Size(n), o + 2 + n <= Len(d)
  PROVE  NextRecord(d, o) = Rec(f, 2, o, o + 2, o + 2 + n)
<1>. DEFINE left == Len(d) - o
            framed(body, end) == [state |-> "whole", field |-> Key(f, 2).n \div 8, wire |-> Key(f, 2).n % 8,
                                  start |-> o, body |-> body, end |-> end]
<1>1. Key(f, 2).kind = "key" /\ Key(f, 2).n % 8 = 2 /\ Key(f, 2).n \div 8 = f
  <2>1. Key(f, 2).kind = "key" /\ Key(f, 2).n = 8 * f + 2
    BY DEF Key
  <2>2. (8 * f + 2) % 8 = 2 /\ (8 * f + 2) \div 8 = f
    OBVIOUS
  <2>. QED
    BY <2>1, <2>2
<1>2. Size(n).kind = "size" /\ Size(n).n = n
  BY DEF Size
<1>3. Len(d) \in Nat
  BY DEF Encoding
<1>4. left # 0 /\ left # 1 /\ ~ (left - 2 < n)
  BY <1>3
<1>5. NextRecord(d, o) =
        IF left = 0 THEN Partial
        ELSE IF d[o + 1].kind # "key" \/ d[o + 1].n % 8 \notin {0, 1, 2, 5} THEN Malformed
        ELSE IF left = 1 THEN Partial
        ELSE IF d[o + 1].n % 8 # 2 THEN framed(o + 2, o + 2)
        ELSE IF d[o + 2].kind # "size" THEN Malformed
        ELSE IF left - 2 < d[o + 2].n THEN Partial
        ELSE framed(o + 2, o + 2 + d[o + 2].n)
  BY Zenon DEF NextRecord
<1>6. NextRecord(d, o) = framed(o + 2, o + 2 + n)
  <2>. HIDE DEF framed, left
  <2>. QED
    BY <1>1, <1>2, <1>4, <1>5
<1>. QED
  BY <1>1, <1>6 DEF Rec

(* The record read where a number is.                                      *)
LEMMA NextNumber ==
  ASSUME NEW d \in Encoding, NEW o \in Nat, d[o + 1] = Key(2, 0), o + 2 <= Len(d)
  PROVE  NextRecord(d, o) = Rec(2, 0, o, o + 2, o + 2)
<1>. DEFINE left == Len(d) - o
            framed(body, end) == [state |-> "whole", field |-> Key(2, 0).n \div 8, wire |-> Key(2, 0).n % 8,
                                  start |-> o, body |-> body, end |-> end]
<1>1. Key(2, 0).kind = "key" /\ Key(2, 0).n % 8 = 0 /\ Key(2, 0).n \div 8 = 2
  <2>1. Key(2, 0).kind = "key" /\ Key(2, 0).n = 16
    BY DEF Key
  <2>. QED
    BY <2>1
<1>2. Len(d) \in Nat
  BY DEF Encoding
<1>3. left # 0 /\ left # 1
  BY <1>2
<1>4. NextRecord(d, o) =
        IF left = 0 THEN Partial
        ELSE IF d[o + 1].kind # "key" \/ d[o + 1].n % 8 \notin {0, 1, 2, 5} THEN Malformed
        ELSE IF left = 1 THEN Partial
        ELSE IF d[o + 1].n % 8 # 2 THEN framed(o + 2, o + 2)
        ELSE IF d[o + 2].kind # "size" THEN Malformed
        ELSE IF left - 2 < d[o + 2].n THEN Partial
        ELSE framed(o + 2, o + 2 + d[o + 2].n)
  BY Zenon DEF NextRecord
<1>5. NextRecord(d, o) = framed(o + 2, o + 2)
  <2>. HIDE DEF framed, left
  <2>. QED
    BY <1>1, <1>3, <1>4
<1>. QED
  BY <1>1, <1>5 DEF Rec

(* Framed from a record to its end: that record.                           *)
LEMMA OneFrame ==
  ASSUME NEW d \in Encoding, NEW o \in 0 .. Len(d), NextRecord(d, o).state = "whole"
  PROVE  Frames(d, o, NextRecord(d, o).end) = <<NextRecord(d, o)>>
<1>. DEFINE r == NextRecord(d, o)
<1>1. Len(d) \in Nat /\ r.end \in o + 2 .. Len(d)
  BY RecordEnds DEF Encoding
<1>2. r.end \in Nat /\ r.end \in 0 .. Len(d) /\ ~ (o >= r.end) /\ r.end >= r.end
  BY <1>1
<1>3. Frames(d, r.end, r.end) = <<>>
  BY <1>2, FramesUnfold
<1>4. Frames(d, o, r.end) = <<r>> \o Frames(d, r.end, r.end)
  <2>. HIDE DEF r
  <2>1. Frames(d, o, r.end) =
          IF o >= r.end THEN <<>> ELSE IF r.state # "whole" THEN <<r>> ELSE <<r>> \o Frames(d, r.end, r.end)
    BY <1>2, FramesUnfold DEF r
  <2>2. r.state = "whole"
    BY DEF r
  <2>. QED
    BY <1>2, <2>1, <2>2
<1>5. <<r>> \o <<>> = <<r>>
  <2>. HIDE DEF r
  <2>. QED
    OBVIOUS
<1>. QED
  BY <1>3, <1>4, <1>5

(* Framed from a record to the end of the next: the two.                   *)
LEMMA TwoFrames ==
  ASSUME NEW d \in Encoding, NEW o \in 0 .. Len(d), NextRecord(d, o).state = "whole",
         NEW p, p = NextRecord(d, o).end, NextRecord(d, p).state = "whole"
  PROVE  Frames(d, o, NextRecord(d, p).end) = <<NextRecord(d, o), NextRecord(d, p)>>
<1>. DEFINE r == NextRecord(d, o)
            s == NextRecord(d, p)
<1>1. Len(d) \in Nat /\ p \in o + 2 .. Len(d) /\ p \in 0 .. Len(d)
  <2>1. r.end \in o + 2 .. Len(d)
    BY RecordEnds
  <2>. QED
    BY <2>1 DEF Encoding
<1>2. s.end \in p + 2 .. Len(d)
  BY <1>1, RecordEnds
<1>3. s.end \in Nat /\ ~ (o >= s.end)
  BY <1>1, <1>2
<1>4. Frames(d, p, s.end) = <<s>>
  BY <1>1, OneFrame
<1>5. Frames(d, o, s.end) = <<r>> \o Frames(d, p, s.end)
  <2>. HIDE DEF r, s
  <2>1. Frames(d, o, s.end) =
          IF o >= s.end THEN <<>> ELSE IF r.state # "whole" THEN <<r>> ELSE <<r>> \o Frames(d, r.end, s.end)
    BY <1>3, FramesUnfold DEF r
  <2>2. r.state = "whole" /\ r.end = p
    BY DEF r
  <2>. QED
    BY <1>3, <2>1, <2>2
<1>6. <<r>> \o <<s>> = <<r, s>>
  <2>. HIDE DEF r, s
  <2>1. PICK t : t = <<r, s>>
    OBVIOUS
  <2>2. t = [i \in 1 .. 1 + 1 |-> t[i]] /\ t[1] = r /\ t[1 + 1] = s
    BY <2>1
  <2>3. [i \in 1 .. 1 |-> t[i + 1]] = <<s>>
    <3>1. \A i \in 1 .. 1 : t[i + 1] = s
      BY <2>2
    <3>2. [i \in 1 .. 1 |-> t[i + 1]] = [i \in 1 .. 1 |-> s]
      BY <3>1
    <3>. QED
      BY <3>2
  <2>4. <<t[1]>> \o [i \in 1 .. 1 |-> t[i + 1]] = t
    BY <2>2, OneMore
  <2>. QED
    BY <2>1, <2>2, <2>3, <2>4
<1>. QED
  BY <1>4, <1>5, <1>6

(* The records of a label: its payload, where it has any, and its length.  *)
LEMMA LabelFrames ==
  ASSUME NEW d \in Encoding, NEW o \in Nat, NEW l \in Nat, LabelAt(d, o, l), o + LabelPart(l) <= Len(d)
  PROVE  Frames(d, o, o + LabelPart(l)) =
           IF l = 0 THEN <<Rec(2, 0, o, o + 2, o + 2)>>
           ELSE <<Rec(1, 2, o, o + 2, o + 2 + l), Rec(2, 0, o + 2 + l, o + 4 + l, o + 4 + l)>>
<1>1. Len(d) \in Nat /\ LabelPart(l) \in Nat /\ LabelPart(l) >= 2
  BY PartsAreNumbers DEF Encoding
<1>2. o \in 0 .. Len(d)
  BY <1>1
<1>3. CASE l = 0
  <2>1. LabelPart(l) = 2 /\ d[o + 1] = Key(2, 0)
    <3>1. o + 2 - 1 = o + 1
      OBVIOUS
    <3>. QED
      BY <1>3, <3>1 DEF LabelAt, LabelPart
  <2>2. NextRecord(d, o) = Rec(2, 0, o, o + 2, o + 2)
    BY <2>1, NextNumber
  <2>3. Rec(2, 0, o, o + 2, o + 2).state = "whole" /\ Rec(2, 0, o, o + 2, o + 2).end = o + 2
    BY DEF Rec
  <2>4. Frames(d, o, o + 2) = <<Rec(2, 0, o, o + 2, o + 2)>>
    BY <1>2, <2>2, <2>3, OneFrame
  <2>. QED
    BY <1>3, <2>1, <2>4
<1>4. CASE l # 0
  <2>1. LabelPart(l) = l + 4 /\ d[o + 1] = Key(1, 2) /\ d[o + 2] = Size(l) /\ d[(o + 2 + l) + 1] = Key(2, 0)
    <3>1. o + (l + 4) - 1 = (o + 2 + l) + 1
      OBVIOUS
    <3>. QED
      BY <1>4, <3>1 DEF LabelAt, LabelPart
  <2>2. NextRecord(d, o) = Rec(1, 2, o, o + 2, o + 2 + l)
    BY <1>1, <2>1, NextDelimited
  <2>3. NextRecord(d, o + 2 + l) = Rec(2, 0, o + 2 + l, o + 4 + l, o + 4 + l)
    <3>1. o + 2 + l \in Nat /\ (o + 2 + l) + 2 <= Len(d) /\ (o + 2 + l) + 2 = o + 4 + l
      BY <1>1, <2>1
    <3>. QED
      BY <2>1, <3>1, NextNumber
  <2>4. \A f, w, s, b, e : Rec(f, w, s, b, e).state = "whole" /\ Rec(f, w, s, b, e).end = e
    BY DEF Rec
  <2>5. Frames(d, o, o + 4 + l) = <<NextRecord(d, o), NextRecord(d, o + 2 + l)>>
    BY <1>2, <2>2, <2>3, <2>4, TwoFrames
  <2>6. o + LabelPart(l) = o + 4 + l
    BY <2>1
  <2>. QED
    BY <1>4, <2>2, <2>3, <2>5, <2>6
<1>. QED
  BY <1>3, <1>4

(* The records of an element's body: the label and the value.              *)
LEMMA BodyFrames ==
  ASSUME NEW d \in Encoding, NEW o \in Nat, NEW l \in Nat, BodyAt(d, o, l), o + BodyPart(l) <= Len(d)
  PROVE  Frames(d, o, o + BodyPart(l)) =
           <<Rec(1, 2, o, o + 2, o + LabelPart(l) + 2),
             Rec(2, 2, o + LabelPart(l) + 2, o + LabelPart(l) + 4, o + BodyPart(l))>>
<1>. DEFINE p == o + LabelPart(l) + 2
<1>1. /\ Len(d) \in Nat /\ LabelPart(l) \in Nat /\ BodyPart(l) = LabelPart(l) + ValueUnits + 4
      /\ ValueUnits \in Nat
  BY PartsAreNumbers, StreamNumbers DEF Encoding
<1>2. o \in 0 .. Len(d) /\ p \in Nat /\ o + 2 + LabelPart(l) <= Len(d) /\ p + 2 + ValueUnits <= Len(d)
  BY <1>1
<1>3. /\ d[o + 1] = Key(1, 2) /\ d[o + 2] = Size(LabelPart(l))
      /\ d[p + 1] = Key(2, 2) /\ d[p + 2] = Size(ValueUnits)
  <2>1. p + 1 = o + LabelPart(l) + 3 /\ p + 2 = o + LabelPart(l) + 4
    BY <1>1
  <2>. HIDE DEF p
  <2>. QED
    BY <2>1 DEF BodyAt
<1>4. NextRecord(d, o) = Rec(1, 2, o, o + 2, p)
  <2>1. o + 2 + LabelPart(l) = p
    BY <1>1
  <2>. HIDE DEF p
  <2>2. NextRecord(d, o) = Rec(1, 2, o, o + 2, o + 2 + LabelPart(l))
    BY <1>1, <1>2, <1>3, NextDelimited
  <2>. QED
    BY <2>1, <2>2
<1>5. NextRecord(d, p) = Rec(2, 2, p, o + LabelPart(l) + 4, o + BodyPart(l))
  <2>1. p + 2 = o + LabelPart(l) + 4 /\ p + 2 + ValueUnits = o + BodyPart(l)
    BY <1>1
  <2>2. NextRecord(d, p) = Rec(2, 2, p, p + 2, p + 2 + ValueUnits)
    <3>. HIDE DEF p
    <3>. QED
      BY <1>1, <1>2, <1>3, NextDelimited
  <2>. QED
    BY <2>1, <2>2
<1>6. \A f, w, s, b, e : Rec(f, w, s, b, e).state = "whole" /\ Rec(f, w, s, b, e).end = e
  BY DEF Rec
<1>7. Frames(d, o, o + BodyPart(l)) = <<NextRecord(d, o), NextRecord(d, p)>>
  <2>. HIDE DEF p
  <2>. QED
    BY <1>2, <1>4, <1>5, <1>6, TwoFrames
<1>. QED
  BY <1>4, <1>5, <1>7

-----------------------------------------------------------------------------
(* What one element decodes to.                                            *)
LEMMA Slice ==
  ASSUME NEW d \in Encoding, NEW lo \in Nat, NEW n \in Nat, lo + n <= Len(d)
  PROVE  /\ SubSeq(d, lo + 1, lo + n) \in Encoding /\ Len(SubSeq(d, lo + 1, lo + n)) = n
         /\ \A i \in 1 .. n : SubSeq(d, lo + 1, lo + n)[i] = d[lo + i]
<1>1. d \in Seq(Unit) /\ Len(d) \in Nat
  BY DEF Encoding
<1>2. \A i \in lo + 1 .. lo + n : d[i] \in Unit
  <2>1. \A i \in lo + 1 .. lo + n : i \in 1 .. Len(d)
    BY <1>1
  <2>. QED
    BY <1>1, <2>1
<1>3. PICK b : b = SubSeq(d, lo + 1, lo + n)
  OBVIOUS
<1>4. b \in Seq(Unit) /\ Len(b) = (IF lo + 1 <= lo + n THEN (lo + n) - (lo + 1) + 1 ELSE 0)
      /\ \A i \in 1 .. (lo + n) - (lo + 1) + 1 : b[i] = d[lo + 1 + i - 1]
  BY <1>2, <1>3, SubSeqProperties
<1>5. Len(b) = n
  BY <1>4
<1>6. \A i \in 1 .. n : b[i] = d[lo + i] /\ lo + i \in 1 .. Len(d)
  <2>1. (lo + n) - (lo + 1) + 1 = n /\ \A i \in 1 .. n : lo + 1 + i - 1 = lo + i /\ lo + i \in 1 .. Len(d)
    BY <1>1
  <2>. QED
    BY <1>4, <2>1
<1>7. b \in Encoding
  BY <1>4, <1>5, <1>6 DEF Encoding
<1>. QED
  BY <1>3, <1>5, <1>6, <1>7

RecordSet == [state : {"whole"}, field : Int, wire : Int, start : Int, body : Int, end : Int]

(* Where one record is of the field, it is the last of it.                 *)
LEMMA OnlyOfField ==
  ASSUME NEW frames \in Seq(RecordSet), NEW field, InOrder(frames), NEW i \in 1 .. Len(frames),
         \A k \in 1 .. Len(frames) : IsOf(frames, field, frames[k]) <=> k = i
  PROVE  OfField(frames, field) # <<>> /\ Last(OfField(frames, field)) = frames[i]
<1>. DEFINE of == OfField(frames, field)
<1>1. of \in Seq(RecordSet) /\ Selects(of, frames, field, 0)
  BY OfFieldSelects
<1>. HIDE DEF of
<1>2. \A k : k \in 0 + 1 .. Len(frames) <=> k \in 1 .. Len(frames)
  OBVIOUS
<1>3. PICK j \in 1 .. Len(of) : of[j] = frames[i]
  BY <1>1, <1>2 DEF Selects
<1>4. of # <<>> /\ Len(of) \in 1 .. Len(of)
  BY <1>1, <1>3
<1>5. of[Len(of)] = frames[i]
  BY <1>1, <1>2, <1>4 DEF Selects
<1>. QED
  BY <1>4, <1>5 DEF of, Last

(* Where none is, there is no last one.                                    *)
LEMMA NoneOfField ==
  ASSUME NEW frames \in Seq(RecordSet), NEW field, InOrder(frames),
         \A k \in 1 .. Len(frames) : ~ IsOf(frames, field, frames[k])
  PROVE  OfField(frames, field) = <<>>
<1>. DEFINE of == OfField(frames, field)
<1>1. of \in Seq(RecordSet) /\ Selects(of, frames, field, 0)
  BY OfFieldSelects
<1>. HIDE DEF of
<1>2. \A j \in 1 .. Len(of) : FALSE
  <2>1. \A k : k \in 0 + 1 .. Len(frames) <=> k \in 1 .. Len(frames)
    OBVIOUS
  <2>. QED
    BY <1>1, <2>1 DEF Selects
<1>3. Len(of) = 0
  BY <1>1, <1>2
<1>4. of = <<>>
  BY <1>1, <1>3
<1>. QED
  BY <1>4 DEF of

(* A label decodes, to its payload and its length.                         *)
LEMMA LabelDecodes ==
  ASSUME NEW b \in Encoding, NEW l \in 0 .. LabelUnits, Len(b) = LabelPart(l), LabelAt(b, 0, l)
  PROVE  DecodeLabel(b) = [ok |-> TRUE, label |-> SubSeq(b, 3, 2 + l), len |-> l, value |-> <<>>]
<1>. DEFINE frames == Frames(b, 0, Len(b))
            val == LastBody(b, OfField(frames, 1))
<1>1. l \in Nat /\ LabelUnits \in Nat /\ LabelPart(l) \in Nat /\ LabelPart(l) >= l + 2
  BY StreamNumbers, PartsAreNumbers
<1>2. frames = IF l = 0 THEN <<Rec(2, 0, 0, 2, 2)>>
               ELSE <<Rec(1, 2, 0, 2, 2 + l), Rec(2, 0, 2 + l, 4 + l, 4 + l)>>
  <2>1. /\ 0 + LabelPart(l) = Len(b) /\ 0 + 2 = 2 /\ 0 + 2 + l = 2 + l /\ 0 + 4 + l = 4 + l
    BY <1>1
  <2>2. Frames(b, 0, 0 + LabelPart(l)) =
          IF l = 0 THEN <<Rec(2, 0, 0, 0 + 2, 0 + 2)>>
          ELSE <<Rec(1, 2, 0, 0 + 2, 0 + 2 + l), Rec(2, 0, 0 + 2 + l, 0 + 4 + l, 0 + 4 + l)>>
    <3>1. 0 \in Nat /\ 0 + LabelPart(l) <= Len(b)
      BY <1>1
    <3>. QED
      BY <1>1, <3>1, LabelFrames
  <2>. QED
    BY <2>1, <2>2
<1>3. b[LabelPart(l)].n = l
  <2>1. b[LabelPart(l)] = Number(l)
    <3>1. 0 + LabelPart(l) = LabelPart(l)
      BY <1>1
    <3>. QED
      BY <3>1 DEF LabelAt
  <2>. QED
    BY <2>1 DEF Number
<1>4. CASE l = 0
  <2>. DEFINE r == Rec(2, 0, 0, 2, 2)
  <2>1. r \in RecordSet /\ r.state = "whole" /\ r.field = 2 /\ r.wire = 0 /\ r.end = 2
    <3>1. 0 \in Int /\ 2 \in Int
      OBVIOUS
    <3>. QED
      BY <3>1 DEF Rec, RecordSet
  <2>. HIDE DEF r
  <2>2. frames = <<r>>
    BY <1>2, <1>4 DEF r
  <2>. HIDE DEF frames
  <2>3. frames \in Seq(RecordSet) /\ Len(frames) = 1 /\ frames[1] = r /\ 1 .. Len(frames) = {1} /\ DOMAIN frames = {1}
    BY <2>1, <2>2
  <2>4. InOrder(frames)
    BY <2>3 DEF InOrder
  <2>5. \A k \in 1 .. Len(frames) : ~ IsOf(frames, 1, frames[k])
    BY <2>1, <2>3 DEF IsOf
  <2>6. OfField(frames, 1) = <<>>
    BY <2>3, <2>4, <2>5, NoneOfField
  <2>7. val = <<>>
    BY <2>6 DEF LastBody
  <2>8. LastNumber(b, frames) = l
    <3>. DEFINE lens == {i \in DOMAIN frames : frames[i].field = 2 /\ frames[i].wire = 0}
    <3>1. lens = {1}
      BY <2>1, <2>3
    <3>2. Max(lens) = 1
      BY <3>1 DEF Max
    <3>3. LastNumber(b, frames) = IF lens = {} THEN 0 ELSE b[frames[Max(lens)].end].n
      BY Zenon DEF LastNumber
    <3>4. LabelPart(l) = 2
      BY <1>4 DEF LabelPart
    <3>. QED
      BY <1>3, <2>1, <2>3, <3>1, <3>2, <3>3, <3>4
  <2>9. WellFramed(frames)
    BY <2>1, <2>3 DEF WellFramed
  <2>10. Len(val) = 0 /\ ~ (Len(val) > LabelUnits)
    BY <1>1, <2>7
  <2>11. SubSeq(b, 3, 2 + l) = <<>>
    <3>1. 2 + l \in Int /\ 2 + l < 3
      BY <1>4
    <3>. QED
      BY <3>1, SubSeqEmpty
  <2>12. DecodeLabel(b) = IF ~ WellFramed(frames) \/ Len(val) > LabelUnits THEN Undecodable
                          ELSE [ok |-> TRUE, label |-> val, len |-> LastNumber(b, frames), value |-> <<>>]
    BY Zenon DEF DecodeLabel, frames
  <2>. HIDE DEF val
  <2>. QED
    BY <2>7, <2>8, <2>9, <2>10, <2>11, <2>12
<1>5. CASE l # 0
  <2>. DEFINE r == Rec(1, 2, 0, 2, 2 + l)
              s == Rec(2, 0, 2 + l, 4 + l, 4 + l)
  <2>1. /\ r \in RecordSet /\ r.state = "whole" /\ r.field = 1 /\ r.wire = 2 /\ r.body = 2 /\ r.end = 2 + l /\ r.start = 0
        /\ s \in RecordSet /\ s.state = "whole" /\ s.field = 2 /\ s.wire = 0 /\ s.end = 4 + l /\ s.start = 2 + l
    <3>1. 0 \in Int /\ 1 \in Int /\ 2 \in Int /\ 2 + l \in Int /\ 4 + l \in Int
      BY <1>1
    <3>. QED
      BY <3>1 DEF Rec, RecordSet
  <2>. HIDE DEF r, s
  <2>2. frames = <<r, s>>
    BY <1>2, <1>5 DEF r, s
  <2>. HIDE DEF frames
  <2>3. /\ frames \in Seq(RecordSet) /\ Len(frames) = 2 /\ frames[1] = r /\ frames[2] = s
        /\ 1 .. Len(frames) = {1, 2} /\ DOMAIN frames = {1, 2}
    BY <2>1, <2>2
  <2>4. InOrder(frames)
    <3>1. r.start < s.start /\ ~ (2 < 1) /\ ~ (1 < 1) /\ ~ (2 < 2)
      BY <1>1, <2>1
    <3>. QED
      BY <2>3, <3>1 DEF InOrder
  <2>5. \A k \in 1 .. Len(frames) : IsOf(frames, 1, frames[k]) <=> k = 1
    BY <2>1, <2>3 DEF IsOf
  <2>6. OfField(frames, 1) # <<>> /\ Last(OfField(frames, 1)) = r
    <3>1. 1 \in 1 .. Len(frames)
      BY <2>3
    <3>. QED
      BY <2>3, <2>4, <2>5, <3>1, OnlyOfField
  <2>7. val = SubSeq(b, 3, 2 + l)
    <3>1. val = SubSeq(b, r.body + 1, r.end)
      BY <2>6 DEF LastBody, BodyOf
    <3>. QED
      BY <2>1, <3>1
  <2>8. LastNumber(b, frames) = l
    <3>. DEFINE lens == {i \in DOMAIN frames : frames[i].field = 2 /\ frames[i].wire = 0}
    <3>1. lens = {2}
      BY <2>1, <2>3
    <3>2. Max(lens) = 2
      BY <3>1 DEF Max
    <3>3. LastNumber(b, frames) = IF lens = {} THEN 0 ELSE b[frames[Max(lens)].end].n
      BY Zenon DEF LastNumber
    <3>4. LabelPart(l) = 4 + l
      BY <1>1, <1>5 DEF LabelPart
    <3>. QED
      BY <1>3, <2>1, <2>3, <3>1, <3>2, <3>3, <3>4
  <2>9. WellFramed(frames)
    BY <2>1, <2>3 DEF WellFramed
  <2>10. ~ (Len(val) > LabelUnits)
    <3>1. 2 + l <= Len(b) /\ 2 + 1 = 3 /\ 2 \in Nat
      BY <1>1
    <3>2. Len(SubSeq(b, 2 + 1, 2 + l)) = l
      BY <1>1, <3>1, Slice
    <3>3. Len(val) = l
      BY <2>7, <3>1, <3>2
    <3>. QED
      BY <1>1, <3>3
  <2>11. DecodeLabel(b) = IF ~ WellFramed(frames) \/ Len(val) > LabelUnits THEN Undecodable
                          ELSE [ok |-> TRUE, label |-> val, len |-> LastNumber(b, frames), value |-> <<>>]
    BY Zenon DEF DecodeLabel, frames
  <2>. HIDE DEF val
  <2>. QED
    BY <2>7, <2>8, <2>9, <2>10, <2>11
<1>. QED
  BY <1>4, <1>5

(* The body of an element decodes, to its label and its value.             *)
LEMMA BodyDecodes ==
  ASSUME NEW b \in Encoding, NEW l \in 0 .. LabelUnits, Len(b) = BodyPart(l), BodyAt(b, 0, l)
  PROVE  DecodeElement(b) = [ok |-> TRUE, label |-> SubSeq(SubSeq(b, 3, 2 + LabelPart(l)), 3, 2 + l), len |-> l,
                             value |-> SubSeq(b, LabelPart(l) + 5, BodyPart(l))]
<1>. DEFINE frames == Frames(b, 0, Len(b))
            labels == OfField(frames, 1)
            values == OfField(frames, 2)
            label == DecodeLabel(LastBody(b, labels))
            value == LastBody(b, values)
            r == Rec(1, 2, 0, 2, LabelPart(l) + 2)
            s == Rec(2, 2, LabelPart(l) + 2, LabelPart(l) + 4, BodyPart(l))
<1>1. /\ l \in Nat /\ LabelPart(l) \in Nat /\ ValueUnits \in Nat
      /\ BodyPart(l) \in Nat /\ BodyPart(l) = LabelPart(l) + ValueUnits + 4
  BY StreamNumbers, PartsAreNumbers
<1>2. /\ r \in RecordSet /\ r.state = "whole" /\ r.field = 1 /\ r.wire = 2 /\ r.body = 2 /\ r.end = LabelPart(l) + 2 /\ r.start = 0
      /\ s \in RecordSet /\ s.state = "whole" /\ s.field = 2 /\ s.wire = 2 /\ s.body = LabelPart(l) + 4
      /\ s.end = BodyPart(l) /\ s.start = LabelPart(l) + 2
  <2>1. /\ 0 \in Int /\ 1 \in Int /\ 2 \in Int /\ LabelPart(l) + 2 \in Int /\ LabelPart(l) + 4 \in Int
        /\ BodyPart(l) \in Int
    BY <1>1
  <2>. QED
    BY <2>1 DEF Rec, RecordSet
<1>3. frames = <<r, s>>
  <2>1. 0 + BodyPart(l) = Len(b) /\ 0 + 2 = 2 /\ 0 + LabelPart(l) + 2 = LabelPart(l) + 2 /\ 0 + LabelPart(l) + 4 = LabelPart(l) + 4
        /\ 0 + BodyPart(l) <= Len(b) /\ 0 \in Nat
    BY <1>1
  <2>2. Frames(b, 0, 0 + BodyPart(l)) =
          <<Rec(1, 2, 0, 0 + 2, 0 + LabelPart(l) + 2), Rec(2, 2, 0 + LabelPart(l) + 2, 0 + LabelPart(l) + 4, 0 + BodyPart(l))>>
    BY <1>1, <2>1, BodyFrames
  <2>. QED
    BY <2>1, <2>2
<1>. HIDE DEF r, s, frames
<1>4. /\ frames \in Seq(RecordSet) /\ Len(frames) = 2 /\ frames[1] = r /\ frames[2] = s
      /\ 1 .. Len(frames) = {1, 2} /\ DOMAIN frames = {1, 2}
  BY <1>2, <1>3
<1>5. InOrder(frames)
  <2>1. r.start < s.start /\ ~ (2 < 1) /\ ~ (1 < 1) /\ ~ (2 < 2)
    BY <1>1, <1>2
  <2>. QED
    BY <1>4, <2>1 DEF InOrder
<1>6. labels # <<>> /\ Last(labels) = r
  <2>1. 1 \in 1 .. Len(frames) /\ \A k \in 1 .. Len(frames) : IsOf(frames, 1, frames[k]) <=> k = 1
    BY <1>2, <1>4 DEF IsOf
  <2>. QED
    BY <1>4, <1>5, <2>1, OnlyOfField
<1>7. values # <<>> /\ Last(values) = s
  <2>1. 2 \in 1 .. Len(frames) /\ \A k \in 1 .. Len(frames) : IsOf(frames, 2, frames[k]) <=> k = 2
    BY <1>2, <1>4 DEF IsOf
  <2>. QED
    BY <1>4, <1>5, <2>1, OnlyOfField
<1>8. LastBody(b, labels) = SubSeq(b, 3, 2 + LabelPart(l))
  <2>1. LastBody(b, labels) = SubSeq(b, r.body + 1, r.end)
    BY <1>6 DEF LastBody, BodyOf
  <2>2. r.body + 1 = 3 /\ r.end = 2 + LabelPart(l)
    BY <1>1, <1>2
  <2>. QED
    BY <2>1, <2>2
<1>9. value = SubSeq(b, LabelPart(l) + 5, BodyPart(l))
  <2>1. value = SubSeq(b, s.body + 1, s.end)
    BY <1>7 DEF LastBody, BodyOf
  <2>2. s.body + 1 = LabelPart(l) + 5
    BY <1>1, <1>2
  <2>. QED
    BY <1>2, <2>1, <2>2
<1>10. Len(value) = ValueUnits
  <2>1. LabelPart(l) + 4 \in Nat /\ (LabelPart(l) + 4) + ValueUnits = BodyPart(l) /\ (LabelPart(l) + 4) + 1 = LabelPart(l) + 5
        /\ (LabelPart(l) + 4) + ValueUnits <= Len(b)
    BY <1>1
  <2>2. Len(SubSeq(b, (LabelPart(l) + 4) + 1, (LabelPart(l) + 4) + ValueUnits)) = ValueUnits
    BY <1>1, <2>1, Slice
  <2>. QED
    BY <1>9, <2>1, <2>2
<1>11. label = [ok |-> TRUE, label |-> SubSeq(SubSeq(b, 3, 2 + LabelPart(l)), 3, 2 + l), len |-> l, value |-> <<>>]
  <2>. DEFINE c == SubSeq(b, 3, 2 + LabelPart(l))
  <2>1. 2 + 1 = 3 /\ 2 + LabelPart(l) <= Len(b)
    BY <1>1
  <2>2. /\ c \in Encoding /\ Len(c) = LabelPart(l) /\ \A i \in 1 .. LabelPart(l) : c[i] = b[2 + i]
    <3>1. /\ SubSeq(b, 2 + 1, 2 + LabelPart(l)) \in Encoding /\ Len(SubSeq(b, 2 + 1, 2 + LabelPart(l))) = LabelPart(l)
          /\ \A i \in 1 .. LabelPart(l) : SubSeq(b, 2 + 1, 2 + LabelPart(l))[i] = b[2 + i]
      <4>1. 2 \in Nat /\ LabelPart(l) \in Nat /\ 2 + LabelPart(l) <= Len(b)
        BY <1>1, <2>1
      <4>. QED
        BY <4>1, Slice, Zenon
    <3>. QED
      BY <2>1, <3>1
  <2>. HIDE DEF c
  <2>3. LabelAt(c, 0, l)
    <3>1. LabelAt(b, 2, l)
      <4>1. 0 + 2 = 2
        OBVIOUS
      <4>. QED
        BY <4>1 DEF BodyAt
    <3>2. l # 0 => LabelPart(l) = l + 4
      BY DEF LabelPart
    <3>3. LabelPart(l) >= 2
      BY <1>1, PartsAreNumbers
    <3>4. l # 0 => c[1] = b[3] /\ c[2] = b[4] /\ \A j \in 1 .. l : c[2 + j] = b[4 + j]
      <4>1. l # 0 => 1 \in 1 .. LabelPart(l) /\ 2 \in 1 .. LabelPart(l) /\ 2 + 1 = 3 /\ 2 + 2 = 4
        BY <1>1, <3>2
      <4>2. l # 0 => \A j \in 1 .. l : 2 + j \in 1 .. LabelPart(l) /\ 2 + (2 + j) = 4 + j
        BY <1>1, <3>2
      <4>. QED
        BY <2>2, <4>1, <4>2
    <3>5. c[LabelPart(l) - 1] = b[2 + LabelPart(l) - 1] /\ c[LabelPart(l)] = b[2 + LabelPart(l)]
      <4>1. LabelPart(l) - 1 \in 1 .. LabelPart(l) /\ LabelPart(l) \in 1 .. LabelPart(l) /\ 2 + (LabelPart(l) - 1) = 2 + LabelPart(l) - 1
        BY <1>1, <3>3
      <4>. QED
        BY <2>2, <4>1
    <3>6. /\ 0 + 1 = 1 /\ 0 + 2 = 2 /\ 2 + 1 = 3 /\ 2 + 2 = 4
          /\ 0 + LabelPart(l) - 1 = LabelPart(l) - 1 /\ 0 + LabelPart(l) = LabelPart(l)
      BY <1>1
    <3>. QED
      BY <3>1, <3>4, <3>5, <3>6 DEF LabelAt, PayloadAt
  <2>4. DecodeLabel(c) = [ok |-> TRUE, label |-> SubSeq(c, 3, 2 + l), len |-> l, value |-> <<>>]
    BY <2>2, <2>3, LabelDecodes
  <2>. QED
    BY <1>8, <2>4 DEF c
<1>12. WellFramed(frames)
  BY <1>2, <1>4 DEF WellFramed
<1>13. DecodeElement(b) =
         IF WellFramed(frames) /\ labels # <<>> /\ values # <<>> /\ label.ok /\ Len(value) = ValueUnits
         THEN [label EXCEPT !.value = value] ELSE Undecodable
  BY Zenon DEF DecodeElement, frames
<1>. HIDE DEF labels, values, label, value
<1>14. label.ok
  BY <1>11
<1>15. DecodeElement(b) = [label EXCEPT !.value = value]
  BY <1>6, <1>7, <1>10, <1>12, <1>13, <1>14
<1>. QED
  BY <1>9, <1>11, <1>15

-----------------------------------------------------------------------------
(* An encoding that is K elements in a row: where each ends, the field it  *)
(* is of and the length of its label.                                      *)
Laid(d, K, off, fld, lab) ==
  /\ d \in Encoding /\ K \in Nat /\ off \in [0 .. K -> Nat] /\ off[0] = 0 /\ off[K] = Len(d)
  /\ fld \in [1 .. K -> {1, 2}] /\ lab \in [1 .. K -> 0 .. LabelUnits]
  /\ \A k \in 1 .. K : off[k] = off[k - 1] + ElementPart(lab[k]) /\ ElementAt(d, off[k - 1], fld[k], lab[k])

(* Label lengths are numbers.                                              *)
LEMMA LabelsAreNat == ASSUME NEW l \in 0 .. LabelUnits PROVE l \in Nat
BY StreamNumbers

(* Elements in a row end one after the other, none beyond the end.         *)
LEMMA LaidGrows ==
  ASSUME NEW d, NEW K, NEW off, NEW fld, NEW lab, Laid(d, K, off, fld, lab)
  PROVE  /\ \A k \in 0 .. K : off[k] \in Nat /\ off[k] <= Len(d)
         /\ \A j, k \in 0 .. K : j < k => off[j] + 8 <= off[k]
<1>1. K \in Nat /\ Len(d) \in Nat /\ off[K] = Len(d) /\ \A k \in 0 .. K : off[k] \in Nat
  BY DEF Laid, Encoding
<1>2. \A k \in 1 .. K : off[k - 1] + 8 <= off[k]
  <2>1. SUFFICES ASSUME NEW k \in 1 .. K PROVE off[k - 1] + 8 <= off[k]
    OBVIOUS
  <2>2. lab[k] \in Nat /\ off[k] = off[k - 1] + ElementPart(lab[k])
    BY LabelsAreNat DEF Laid
  <2>3. ElementPart(lab[k]) \in Nat /\ ElementPart(lab[k]) >= 8
    BY <2>2, PartsAreNumbers
  <2>4. off[k - 1] \in Nat
    BY <1>1
  <2>. QED
    BY <2>2, <2>3, <2>4
<1>3. ASSUME NEW j \in 0 .. K PROVE \A k \in 0 .. K : j < k => off[j] + 8 <= off[k]
  <2>. DEFINE T == {k \in 0 .. K : j < k => off[j] + 8 <= off[k]}
  <2>1. 0 \in T
    BY <1>1
  <2>2. ASSUME NEW k \in 0 .. K - 1, k \in T PROVE k + 1 \in T
    <3>1. k + 1 \in 1 .. K /\ k + 1 \in 0 .. K /\ (k + 1) - 1 = k
      BY <1>1
    <3>2. off[k] + 8 <= off[k + 1] /\ off[k] \in Nat /\ off[k + 1] \in Nat /\ off[j] \in Nat
      BY <1>1, <1>2, <3>1
    <3>3. j < k + 1 => j = k \/ j < k
      BY <1>1
    <3>4. j < k => off[j] + 8 <= off[k]
      BY <2>2
    <3>5. j < k + 1 => off[j] + 8 <= off[k + 1]
      BY <3>2, <3>3, <3>4
    <3>. QED
      BY <3>1, <3>5
  <2>3. \A k \in 0 .. K : k \in T
    <3>. HIDE DEF T
    <3>. QED
      BY <1>1, <2>1, <2>2, Forwards
  <2>. QED
    BY <2>3
<1>4. ASSUME NEW k \in 0 .. K PROVE off[k] <= Len(d)
  <2>1. K \in 0 .. K /\ (k = K \/ k < K)
    BY <1>1
  <2>2. k < K => off[k] + 8 <= off[K]
    BY <1>3, <2>1
  <2>. QED
    BY <1>1, <2>1, <2>2
<1>. QED
  BY <1>1, <1>3, <1>4

(* The record of an element, in any prefix that holds it and in one that   *)
(* does not.                                                               *)
LEMMA NextElement ==
  ASSUME NEW d, NEW K, NEW off, NEW fld, NEW lab, Laid(d, K, off, fld, lab),
         NEW k \in 1 .. K, NEW c \in 0 .. Len(d), off[k - 1] <= c
  PROVE  /\ SubSeq(d, 1, c) \in Encoding /\ Len(SubSeq(d, 1, c)) = c /\ \A i \in 1 .. c : SubSeq(d, 1, c)[i] = d[i]
         /\ off[k] <= c =>
              NextRecord(SubSeq(d, 1, c), off[k - 1]) = Rec(fld[k], 2, off[k - 1], off[k - 1] + 2, off[k])
         /\ c < off[k] => NextRecord(SubSeq(d, 1, c), off[k - 1]) = Partial
<1>. DEFINE e == SubSeq(d, 1, c)
            o == off[k - 1]
            l == lab[k]
<1>1. /\ d \in Encoding /\ K \in Nat /\ Len(d) \in Nat /\ o \in Nat /\ off[k] \in Nat /\ l \in Nat /\ fld[k] \in {1, 2, 3}
      /\ off[k] = o + ElementPart(l) /\ ElementAt(d, o, fld[k], l)
  <2>1. d \in Encoding /\ K \in Nat /\ Len(d) \in Nat
    BY DEF Laid, Encoding
  <2>2. k - 1 \in 0 .. K /\ k \in 0 .. K
    BY <2>1
  <2>3. o \in Nat /\ off[k] \in Nat
    BY <2>2, LaidGrows
  <2>. QED
    BY <2>1, <2>3, LabelsAreNat DEF Laid
<1>2. /\ BodyPart(l) \in Nat /\ ElementPart(l) = BodyPart(l) + 2
  BY <1>1, PartsAreNumbers
<1>3. e \in Encoding /\ Len(e) = c /\ \A i \in 1 .. c : e[i] = d[i]
  <2>1. 0 \in Nat /\ c \in Nat /\ 0 + c = c /\ 0 + 1 = 1 /\ 0 + c <= Len(d) /\ \A i \in 1 .. c : 0 + i = i
    BY <1>1
  <2>2. /\ SubSeq(d, 0 + 1, 0 + c) \in Encoding /\ Len(SubSeq(d, 0 + 1, 0 + c)) = c
        /\ \A i \in 1 .. c : SubSeq(d, 0 + 1, 0 + c)[i] = d[0 + i]
    BY <1>1, <2>1, Slice
  <2>. QED
    BY <2>1, <2>2
<1>4. d[o + 1] = Key(fld[k], 2) /\ d[o + 2] = Size(BodyPart(l))
  BY <1>1 DEF ElementAt
<1>. HIDE DEF e
<1>5. o + 1 <= c => e[o + 1] = Key(fld[k], 2)
  <2>1. o + 1 <= c => o + 1 \in 1 .. c
    BY <1>1
  <2>. QED
    BY <1>3, <1>4, <2>1
<1>6. o + 2 <= c => e[o + 2] = Size(BodyPart(l))
  <2>1. o + 2 <= c => o + 2 \in 1 .. c
    BY <1>1
  <2>. QED
    BY <1>3, <1>4, <2>1
<1>7. ASSUME off[k] <= c PROVE NextRecord(e, o) = Rec(fld[k], 2, o, o + 2, off[k])
  <2>1. o + 1 <= c /\ o + 2 <= c /\ o + 2 + BodyPart(l) <= Len(e) /\ o + 2 + BodyPart(l) = off[k]
    <3>. HIDE DEF o, l
    <3>1. PICK p, q : p = off[k] /\ q = BodyPart(l)
      OBVIOUS
    <3>2. o \in Nat /\ c \in Nat /\ q \in Nat /\ p = o + (q + 2) /\ p <= c
      BY <1>1, <1>2, <1>7, <3>1
    <3>3. o + 1 <= c /\ o + 2 <= c /\ o + 2 + q <= c /\ o + 2 + q = p
      BY <3>2
    <3>. QED
      BY <1>3, <3>1, <3>3
  <2>2. NextRecord(e, o) = Rec(fld[k], 2, o, o + 2, o + 2 + BodyPart(l))
    <3>. HIDE DEF o, l
    <3>1. /\ e \in Encoding /\ o \in Nat /\ BodyPart(l) \in Nat /\ fld[k] \in {1, 2, 3}
          /\ o + 2 + BodyPart(l) <= Len(e)
      BY <1>1, <1>2, <1>3, <2>1
    <3>2. e[o + 1] = Key(fld[k], 2) /\ e[o + 2] = Size(BodyPart(l))
      BY <1>5, <1>6, <2>1
    <3>. QED
      BY <3>1, <3>2, NextDelimited, Zenon
  <2>. QED
    BY <2>1, <2>2
<1>8. ASSUME c < off[k] PROVE NextRecord(e, o) = Partial
  <2>. DEFINE left == Len(e) - o
              framed(body, end) == [state |-> "whole", field |-> e[o + 1].n \div 8, wire |-> e[o + 1].n % 8,
                                    start |-> o, body |-> body, end |-> end]
  <2>. HIDE DEF o, l
  <2>1. NextRecord(e, o) =
          IF left = 0 THEN Partial
          ELSE IF e[o + 1].kind # "key" \/ e[o + 1].n % 8 \notin {0, 1, 2, 5} THEN Malformed
          ELSE IF left = 1 THEN Partial
          ELSE IF e[o + 1].n % 8 # 2 THEN framed(o + 2, o + 2)
          ELSE IF e[o + 2].kind # "size" THEN Malformed
          ELSE IF left - 2 < e[o + 2].n THEN Partial
          ELSE framed(o + 2, o + 2 + e[o + 2].n)
    BY Zenon DEF NextRecord
  <2>2. left \in Nat /\ left < BodyPart(l) + 2
    <3>1. o <= c
      BY DEF o
    <3>. QED
      BY <1>1, <1>2, <1>3, <1>8, <3>1
  <2>3. left # 0 => e[o + 1].kind = "key" /\ e[o + 1].n % 8 = 2
    <3>1. left # 0 => o + 1 <= c
      BY <1>1, <1>3, <2>2
    <3>2. Key(fld[k], 2).kind = "key" /\ Key(fld[k], 2).n = 8 * fld[k] + 2
      BY DEF Key
    <3>3. (8 * fld[k] + 2) % 8 = 2
      BY <1>1
    <3>. QED
      BY <1>5, <3>1, <3>2, <3>3
  <2>4. left # 0 /\ left # 1 => e[o + 2].kind = "size" /\ left - 2 < e[o + 2].n
    <3>1. left # 0 /\ left # 1 => o + 2 <= c
      BY <1>1, <1>3, <2>2
    <3>2. Size(BodyPart(l)).kind = "size" /\ Size(BodyPart(l)).n = BodyPart(l)
      BY DEF Size
    <3>3. left - 2 < BodyPart(l)
      BY <1>2, <2>2
    <3>. QED
      BY <1>6, <3>1, <3>2, <3>3
  <2>. HIDE DEF left, framed
  <2>. QED
    BY <2>1, <2>3, <2>4
<1>. QED
  BY <1>3, <1>7, <1>8 DEF e

(* At the end of the data there is no record.                              *)
LEMMA NothingLeft ==
  ASSUME NEW d \in Encoding
  PROVE  NextRecord(d, Len(d)) = Partial
<1>1. Len(d) - Len(d) = 0
  BY DEF Encoding
<1>. QED
  BY <1>1 DEF NextRecord

(* The records of a whole proof.                                           *)
RecordsOf(K, off, fld) == [k \in 1 .. K |-> Rec(fld[k], 2, off[k - 1], off[k - 1] + 2, off[k])]

(* Framed whole, a proof is the records of its elements.                   *)
LEMMA LaidFrames ==
  ASSUME NEW d, NEW K, NEW off, NEW fld, NEW lab, Laid(d, K, off, fld, lab)
  PROVE  LET F == RecordsOf(K, off, fld)
         IN /\ Frames(d, 0, Len(d)) = F /\ F \in Seq(RecordSet) /\ Len(F) = K /\ InOrder(F) /\ WellFramed(F)
            /\ \A k \in 1 .. K : /\ F[k].state = "whole" /\ F[k].field = fld[k] /\ F[k].wire = 2
                                 /\ F[k].start = off[k - 1] /\ F[k].body = off[k - 1] + 2 /\ F[k].end = off[k]
<1>. DEFINE F == RecordsOf(K, off, fld)
<1>1. /\ d \in Encoding /\ d \in Seq(Unit) /\ K \in Nat /\ Len(d) \in Nat /\ off[0] = 0 /\ off[K] = Len(d)
      /\ fld \in [1 .. K -> {1, 2}] /\ off \in [0 .. K -> Nat]
  BY DEF Laid, Encoding
<1>2. \A k \in 1 .. K : k - 1 \in 0 .. K /\ k \in 0 .. K
  BY <1>1
<1>3. \A k \in 0 .. K : off[k] \in 0 .. Len(d)
  <2>1. SUFFICES ASSUME NEW k \in 0 .. K PROVE off[k] \in 0 .. Len(d)
    OBVIOUS
  <2>2. off[k] \in Nat /\ off[k] <= Len(d)
    BY LaidGrows
  <2>. QED
    BY <1>1, <2>2
<1>4. SubSeq(d, 1, Len(d)) = d
  BY <1>1, SubSeqFull
<1>5. \A k \in 1 .. K : F[k] = Rec(fld[k], 2, off[k - 1], off[k - 1] + 2, off[k])
  BY DEF RecordsOf
<1>6. \A k \in 1 .. K : NextRecord(d, off[k - 1]) = F[k]
  <2>1. SUFFICES ASSUME NEW k \in 1 .. K PROVE NextRecord(d, off[k - 1]) = F[k]
    OBVIOUS
  <2>2. Len(d) \in 0 .. Len(d) /\ off[k - 1] <= Len(d) /\ off[k] <= Len(d)
    BY <1>1, <1>2, <1>3
  <2>3. NextRecord(SubSeq(d, 1, Len(d)), off[k - 1]) = Rec(fld[k], 2, off[k - 1], off[k - 1] + 2, off[k])
    BY <2>2, NextElement
  <2>. QED
    BY <1>4, <1>5, <2>3
<1>7. \A k \in 1 .. K : /\ F[k] \in RecordSet /\ F[k].state = "whole" /\ F[k].field = fld[k] /\ F[k].wire = 2
                        /\ F[k].start = off[k - 1] /\ F[k].body = off[k - 1] + 2 /\ F[k].end = off[k]
  <2>1. SUFFICES ASSUME NEW k \in 1 .. K
                 PROVE  /\ F[k] \in RecordSet /\ F[k].state = "whole" /\ F[k].field = fld[k] /\ F[k].wire = 2
                        /\ F[k].start = off[k - 1] /\ F[k].body = off[k - 1] + 2 /\ F[k].end = off[k]
    BY Zenon
  <2>2. fld[k] \in Int /\ 2 \in Int /\ off[k - 1] \in Int /\ off[k] \in Int /\ off[k - 1] + 2 \in Int
    BY <1>1, <1>2
  <2>3. F[k] = Rec(fld[k], 2, off[k - 1], off[k - 1] + 2, off[k])
    BY <1>5
  <2>. HIDE DEF F
  <2>. QED
    BY <2>2, <2>3 DEF Rec, RecordSet
<1>. HIDE DEF F
<1>8. F \in Seq(RecordSet) /\ Len(F) = K
  <2>1. F \in [1 .. K -> RecordSet]
    <3>1. F = [k \in 1 .. K |-> F[k]]
      BY DEF F, RecordsOf
    <3>. QED
      BY <1>7, <3>1
  <2>. QED
    BY <1>1, <2>1
<1>9. InOrder(F)
  <2>1. SUFFICES ASSUME NEW j \in 1 .. K, NEW h \in 1 .. K, j < h PROVE F[j].start < F[h].start
    BY <1>8 DEF InOrder
  <2>2. j - 1 \in 0 .. K /\ h - 1 \in 0 .. K /\ j - 1 < h - 1
    BY <1>1, <2>1
  <2>3. off[j - 1] + 8 <= off[h - 1] /\ off[j - 1] \in Nat /\ off[h - 1] \in Nat
    BY <2>2, LaidGrows
  <2>4. off[j - 1] < off[h - 1]
    BY <2>3
  <2>. QED
    BY <1>7, <2>4
<1>10. WellFramed(F)
  BY <1>7, <1>8 DEF WellFramed
<1>11. Frames(d, 0, Len(d)) = F
  <2>1. InARow(d, K, off)
    <3>1. off \in [0 .. K -> 0 .. Len(d)]
      BY <1>1, <1>3
    <3>. QED
      BY <1>1, <1>6, <1>7, <3>1 DEF InARow
  <2>2. Frames(d, off[0], off[K]) = [i \in 1 .. K - 0 |-> NextRecord(d, off[0 + i - 1])]
    <3>1. 0 \in 0 .. K
      BY <1>1
    <3>2. \A j \in 0 .. K : Frames(d, off[j], off[K]) = [i \in 1 .. K - j |-> NextRecord(d, off[j + i - 1])]
      <4>1. d \in Encoding
        BY <1>1
      <4>2. SUFFICES ASSUME NEW j \in 0 .. K
                     PROVE Frames(d, off[j], off[K]) = [i \in 1 .. K - j |-> NextRecord(d, off[j + i - 1])]
        BY Zenon
      <4>3. /\ Frames(d, off[j], off[K]) = [i \in 1 .. K - j |-> NextRecord(d, off[j + i - 1])]
            /\ j < K => off[j] < off[K]
        BY <2>1, <4>1, FramesAre
      <4>. QED
        BY <4>3
    <3>. QED
      BY <3>1, <3>2, Zenon
  <2>3. [i \in 1 .. K - 0 |-> NextRecord(d, off[0 + i - 1])] = [i \in 1 .. K |-> F[i]]
    <3>1. K - 0 = K /\ \A i \in 1 .. K : 0 + i - 1 = i - 1
      BY <1>1
    <3>. QED
      BY <1>6, <3>1
  <2>4. F = [i \in 1 .. K |-> F[i]]
    BY DEF F, RecordsOf
  <2>. QED
    BY <1>1, <2>2, <2>3, <2>4
<1>. QED
  BY <1>7, <1>8, <1>9, <1>10, <1>11 DEF F

(* The run at the front of a prefix: m elements of it, and behind them what*)
(* is not all there or is of the other field.                              *)
RunIs(d, K, off, fld, c, m) ==
  /\ m \in 0 .. K /\ off[m] <= c /\ \A k \in 1 .. m : fld[k] = 1
  /\ m < K /\ off[m + 1] <= c => fld[m + 1] = 2

(* Every prefix of a proof has its run.                                    *)
LEMMA RunExists ==
  ASSUME NEW d, NEW K, NEW off, NEW fld, NEW lab, Laid(d, K, off, fld, lab), NEW c \in 0 .. Len(d)
  PROVE  \E m : RunIs(d, K, off, fld, c, m)
<1>. DEFINE T == {m \in 0 .. K : off[m] <= c /\ \A k \in 1 .. m : fld[k] = 1}
<1>1. K \in Nat /\ Len(d) \in Nat /\ off[0] = 0 /\ fld \in [1 .. K -> {1, 2}]
  BY DEF Laid, Encoding
<1>2. T \in SUBSET Int /\ 0 \in T /\ \A m \in T : m <= K
  BY <1>1
<1>3. PICK m \in T : \A n \in T : n <= m
  <2>1. K \in Int /\ T # {}
    BY <1>1, <1>2
  <2>. HIDE DEF T
  <2>. QED
    BY <1>2, <2>1, GreatestInt, Zenon
<1>4. m \in 0 .. K /\ off[m] <= c /\ \A k \in 1 .. m : fld[k] = 1
  BY <1>3
<1>5. ASSUME m < K, off[m + 1] <= c PROVE fld[m + 1] = 2
  <2>1. m + 1 \in 1 .. K /\ m + 1 \in 0 .. K /\ ~ (m + 1 <= m)
    BY <1>1, <1>4, <1>5
  <2>2. SUFFICES ASSUME fld[m + 1] = 1 PROVE FALSE
    BY <1>1, <2>1
  <2>3. \A k \in 1 .. m + 1 : k \in 1 .. m \/ k = m + 1
    BY <1>4
  <2>4. m + 1 \in T
    BY <1>4, <1>5, <2>1, <2>2, <2>3
  <2>. HIDE DEF T
  <2>. QED
    BY <1>3, <2>1, <2>4
<1>. QED
  BY <1>4, <1>5 DEF RunIs

(* Scanned from the end of any of its elements, the run ends at its end.   *)
LEMMA RunScanned ==
  ASSUME NEW d, NEW K, NEW off, NEW fld, NEW lab, Laid(d, K, off, fld, lab), NEW c \in 0 .. Len(d),
         NEW m, RunIs(d, K, off, fld, c, m), NEW j \in 0 .. m
  PROVE  ScanLeading(SubSeq(d, 1, c), 1, off[j]) =
           [end |-> off[m], ended |-> m < K /\ off[m + 1] <= c, ok |-> TRUE]
<1>. DEFINE e == SubSeq(d, 1, c)
            pos == [k \in 0 .. m |-> off[k]]
<1>1. /\ K \in Nat /\ Len(d) \in Nat /\ off[K] = Len(d) /\ fld \in [1 .. K -> {1, 2}] /\ d \in Encoding
      /\ m \in 0 .. K /\ off[m] <= c /\ c \in Nat
  BY DEF Laid, Encoding, RunIs
<1>2. \A k \in 0 .. K : off[k] \in Nat
  BY LaidGrows
<1>3. e \in Encoding /\ Len(e) = c
  <2>1. 0 \in Nat /\ 0 + c = c /\ 0 + 1 = 1 /\ 0 + c <= Len(d)
    BY <1>1
  <2>2. SubSeq(d, 0 + 1, 0 + c) \in Encoding /\ Len(SubSeq(d, 0 + 1, 0 + c)) = c
    BY <1>1, <2>1, Slice
  <2>. QED
    BY <2>1, <2>2
<1>4. \A k \in 0 .. m : k \in 0 .. K /\ off[k] \in 0 .. c
  <2>1. SUFFICES ASSUME NEW k \in 0 .. m PROVE k \in 0 .. K /\ off[k] \in 0 .. c
    OBVIOUS
  <2>2. k \in 0 .. K /\ (k = m \/ k < m)
    BY <1>1
  <2>3. k < m => off[k] + 8 <= off[m]
    BY <1>1, <2>2, LaidGrows
  <2>. QED
    BY <1>1, <1>2, <2>2, <2>3
<1>5. ASSUME NEW k \in 1 .. m PROVE NextRecord(e, off[k - 1]) = Rec(1, 2, off[k - 1], off[k - 1] + 2, off[k])
  <2>1. k \in 1 .. K /\ k - 1 \in 0 .. m /\ k \in 0 .. m /\ fld[k] = 1
    BY <1>1 DEF RunIs
  <2>2. off[k - 1] <= c /\ off[k] <= c
    BY <1>1, <1>4, <2>1
  <2>3. NextRecord(e, off[k - 1]) = Rec(fld[k], 2, off[k - 1], off[k - 1] + 2, off[k])
    BY <2>1, <2>2, NextElement
  <2>. QED
    BY <2>1, <2>3
<1>. HIDE DEF e
<1>6. \A f, w, s, b, x : /\ Rec(f, w, s, b, x).state = "whole" /\ Rec(f, w, s, b, x).end = x
                         /\ Rec(f, w, s, b, x).field = f /\ Rec(f, w, s, b, x).wire = w
  BY DEF Rec
<1>7. \A k \in 0 .. m : pos[k] = off[k]
  OBVIOUS
<1>8. InARow(e, m, pos)
  <2>1. pos \in [0 .. m -> 0 .. Len(e)]
    BY <1>3, <1>4
  <2>2. \A k \in 1 .. m : k - 1 \in 0 .. m /\ k \in 0 .. m
    BY <1>1
  <2>3. \A k \in 1 .. m : NextRecord(e, pos[k - 1]).state = "whole" /\ NextRecord(e, pos[k - 1]).end = pos[k]
    BY <1>5, <1>6, <1>7, <2>2
  <2>4. m \in Nat
    BY <1>1
  <2>. HIDE DEF pos
  <2>. QED
    BY <2>1, <2>3, <2>4 DEF InARow
<1>9. \A k \in 1 .. m : InRun(e, 1, pos[k - 1])
  <2>1. \A k \in 1 .. m : k - 1 \in 0 .. m
    BY <1>1
  <2>2. \A k \in 1 .. m : InRun(e, 1, off[k - 1])
    BY <1>5, <1>6 DEF InRun
  <2>. QED
    BY <1>7, <2>1, <2>2
<1>10. m \in 0 .. m
  BY <1>1
<1>11. CASE m < K /\ off[m + 1] <= c
  <2>1. m + 1 \in 1 .. K /\ (m + 1) - 1 = m /\ fld[m + 1] = 2
    BY <1>1, <1>11 DEF RunIs
  <2>2. NextRecord(e, off[m]) = Rec(2, 2, off[m], off[m] + 2, off[m + 1])
    <3>1. NextRecord(e, off[(m + 1) - 1]) = Rec(fld[m + 1], 2, off[(m + 1) - 1], off[(m + 1) - 1] + 2, off[m + 1])
      BY <1>1, <1>11, <2>1, NextElement DEF e
    <3>. QED
      BY <2>1, <3>1
  <2>3. ~ InRun(e, 1, off[m]) /\ Stopped(e, 1, off[m]) = [end |-> off[m], ended |-> TRUE, ok |-> TRUE]
    BY <1>6, <2>2 DEF InRun, Stopped
  <2>4. ScanLeading(e, 1, pos[j]) = Stopped(e, 1, pos[m])
    <3>1. pos[m] = off[m]
      BY <1>7, <1>10
    <3>. HIDE DEF pos
    <3>. QED
      BY <1>3, <1>8, <1>9, <2>3, <3>1, ScanIs
  <2>5. ScanLeading(e, 1, off[j]) = Stopped(e, 1, off[m])
    BY <1>7, <1>10, <2>4
  <2>. QED
    BY <1>11, <2>3, <2>5 DEF e
<1>12. CASE ~ (m < K /\ off[m + 1] <= c)
  <2>1. NextRecord(e, off[m]) = Partial
    <3>1. CASE m = K
      <4>1. off[m] = Len(e)
        BY <1>1, <1>3, <3>1
      <4>. QED
        BY <1>3, <4>1, NothingLeft
    <3>2. CASE m < K
      <4>1. m + 1 \in 1 .. K /\ (m + 1) - 1 = m /\ m + 1 \in 0 .. K
        BY <1>1, <3>2
      <4>2. off[m + 1] \in Nat /\ c < off[m + 1]
        BY <1>1, <1>2, <1>12, <3>2, <4>1
      <4>3. NextRecord(e, off[(m + 1) - 1]) = Partial
        BY <1>1, <4>1, <4>2, NextElement DEF e
      <4>. QED
        BY <4>1, <4>3
    <3>. QED
      BY <1>1, <3>1, <3>2
  <2>2. ~ InRun(e, 1, off[m]) /\ Stopped(e, 1, off[m]) = [end |-> off[m], ended |-> FALSE, ok |-> TRUE]
    BY <2>1 DEF InRun, Stopped, Partial
  <2>3. ScanLeading(e, 1, pos[j]) = Stopped(e, 1, pos[m])
    <3>1. pos[m] = off[m]
      BY <1>7, <1>10
    <3>. HIDE DEF pos
    <3>. QED
      BY <1>3, <1>8, <1>9, <2>2, <3>1, ScanIs
  <2>4. ScanLeading(e, 1, off[j]) = Stopped(e, 1, off[m])
    BY <1>7, <1>10, <2>3
  <2>. QED
    BY <1>12, <2>2, <2>4 DEF e
<1>. QED
  BY <1>11, <1>12

(* A longer prefix has no shorter run.                                     *)
LEMMA RunGrows ==
  ASSUME NEW d, NEW K, NEW off, NEW fld, NEW lab, Laid(d, K, off, fld, lab),
         NEW b \in Nat, NEW c \in Nat, b <= c,
         NEW m, RunIs(d, K, off, fld, b, m), NEW n, RunIs(d, K, off, fld, c, n)
  PROVE  m \in 0 .. n
<1>1. K \in Nat /\ m \in 0 .. K /\ n \in 0 .. K
  BY DEF Laid, RunIs
<1>2. SUFFICES ASSUME n < m PROVE FALSE
  BY <1>1
<1>3. n + 1 \in 0 .. K /\ n + 1 \in 1 .. m /\ n < K /\ (n + 1 = m \/ n + 1 < m)
  BY <1>1, <1>2
<1>4. n + 1 < m => off[n + 1] + 8 <= off[m]
  BY <1>1, <1>3, LaidGrows
<1>5. off[n + 1] \in Nat /\ off[m] \in Nat
  BY <1>1, <1>3, LaidGrows
<1>6. off[n + 1] <= c
  <2>1. off[m] <= b
    BY DEF RunIs
  <2>. QED
    BY <1>3, <1>4, <1>5, <2>1
<1>. QED
  BY <1>3, <1>6 DEF RunIs

-----------------------------------------------------------------------------
(* The payload of an element: its label, where it has one, and its value.  *)
PayloadPlace(o, l, at) ==
  \/ \E j \in 1 .. l : at + 1 = o + 6 + j
  \/ \E j \in 1 .. ValueUnits : at + 1 = o + LabelPart(l) + 6 + j

(* What is in such a place is payload, and lies in its element.            *)
LEMMA PlaceIsPayload ==
  ASSUME NEW d, NEW o \in Nat, NEW f, NEW l \in Nat, ElementAt(d, o, f, l), NEW at \in Int, PayloadPlace(o, l, at)
  PROVE  d[at + 1].kind = "payload" /\ o + 6 <= at /\ at < o + ElementPart(l)
<1>1. /\ LabelPart(l) \in Nat /\ LabelPart(l) >= l + 2 /\ ValueUnits \in Nat
      /\ ElementPart(l) = LabelPart(l) + ValueUnits + 6
  BY PartsAreNumbers, StreamNumbers
<1>2. BodyAt(d, o + 2, l) /\ LabelAt(d, (o + 2) + 2, l)
  BY DEF ElementAt, BodyAt
<1>3. CASE \E j \in 1 .. l : at + 1 = o + 6 + j
  <2>1. PICK j \in 1 .. l : at + 1 = o + 6 + j
    BY <1>3
  <2>2. l # 0 /\ (o + 2) + 2 + 2 + j = at + 1
    BY <2>1
  <2>3. d[(o + 2) + 2 + 2 + j].kind = "payload"
    BY <1>2, <2>2 DEF LabelAt, PayloadAt
  <2>. QED
    BY <1>1, <2>1, <2>2, <2>3
<1>4. CASE \E j \in 1 .. ValueUnits : at + 1 = o + LabelPart(l) + 6 + j
  <2>1. PICK j \in 1 .. ValueUnits : at + 1 = o + LabelPart(l) + 6 + j
    BY <1>4
  <2>2. (o + 2) + LabelPart(l) + 4 + j = at + 1
    BY <1>1, <2>1
  <2>3. d[(o + 2) + LabelPart(l) + 4 + j].kind = "payload"
    BY <1>2 DEF BodyAt, PayloadAt
  <2>. QED
    BY <1>1, <2>1, <2>2, <2>3
<1>. QED
  BY <1>3, <1>4 DEF PayloadPlace

(* PayloadOffset takes no other place.                                     *)
LEMMA ElementPayload ==
  ASSUME NEW d \in Encoding, NEW o \in Nat, NEW f, NEW l \in Nat,
         ElementAt(d, o, f, l), o + ElementPart(l) <= Len(d),
         NEW at, at \in OffsetsOf(InField(d, o + 2, o + ElementPart(l), 2))
                    \cup UNION {OffsetsOf(InField(d, e.body, e.end, 1)) : e \in InField(d, o + 2, o + ElementPart(l), 1)}
  PROVE  at \in Int /\ PayloadPlace(o, l, at)
<1>. DEFINE p == o + 2
            r == Rec(1, 2, p, p + 2, p + LabelPart(l) + 2)
            s == Rec(2, 2, p + LabelPart(l) + 2, p + LabelPart(l) + 4, p + BodyPart(l))
<1>1. /\ Len(d) \in Nat /\ LabelPart(l) \in Nat /\ LabelPart(l) >= l + 2 /\ ValueUnits \in Nat
      /\ BodyPart(l) = LabelPart(l) + ValueUnits + 4 /\ ElementPart(l) = BodyPart(l) + 2 /\ p \in Nat
  <2>1. Len(d) \in Nat /\ p \in Nat
    BY DEF Encoding
  <2>. QED
    BY <2>1, PartsAreNumbers, StreamNumbers
<1>2. BodyAt(d, p, l) /\ LabelAt(d, p + 2, l)
  BY DEF ElementAt, BodyAt
<1>3. o + ElementPart(l) = p + BodyPart(l) /\ p + BodyPart(l) <= Len(d)
  BY <1>1
<1>4. Frames(d, p, p + BodyPart(l)) = <<r, s>>
  <2>. HIDE DEF p
  <2>. QED
    BY <1>1, <1>2, <1>3, BodyFrames
<1>5. /\ r.field = 1 /\ r.wire = 2 /\ r.body = p + 2 /\ r.end = p + LabelPart(l) + 2
      /\ s.field = 2 /\ s.wire = 2 /\ s.body = p + LabelPart(l) + 4 /\ s.end = p + BodyPart(l)
  <2>. HIDE DEF p
  <2>. QED
    BY DEF Rec
<1>. HIDE DEF r, s
<1>6. ToSet(<<r, s>>) = {r, s}
  BY DEF ToSet
<1>7. InField(d, p, p + BodyPart(l), 1) = {r} /\ InField(d, p, p + BodyPart(l), 2) = {s}
  <2>1. /\ InField(d, p, p + BodyPart(l), 1) = {x \in {r, s} : x.field = 1 /\ x.wire = 2}
        /\ InField(d, p, p + BodyPart(l), 2) = {x \in {r, s} : x.field = 2 /\ x.wire = 2}
    BY <1>4, <1>6 DEF InField
  <2>. QED
    BY <1>5, <2>1
<1>8. \A x : OffsetsOf({x}) = x.body .. x.end - 1
  BY DEF OffsetsOf
<1>9. at \in OffsetsOf({s}) \cup OffsetsOf(InField(d, r.body, r.end, 1))
  <2>1. UNION {OffsetsOf(InField(d, e.body, e.end, 1)) : e \in {r}} = OffsetsOf(InField(d, r.body, r.end, 1))
    OBVIOUS
  <2>2. at \in OffsetsOf({s}) \cup UNION {OffsetsOf(InField(d, e.body, e.end, 1)) : e \in {r}}
    BY <1>3, <1>7
  <2>. QED
    BY <2>1, <2>2
<1>10. CASE at \in OffsetsOf({s})
  <2>1. at \in p + LabelPart(l) + 4 .. (p + BodyPart(l)) - 1
    BY <1>5, <1>8, <1>10
  <2>2. at - (p + LabelPart(l) + 4) + 1 \in 1 .. ValueUnits
    <3>1. PICK h, y, z, v : h = p /\ y = LabelPart(l) /\ z = BodyPart(l) /\ v = ValueUnits
      OBVIOUS
    <3>2. h \in Nat /\ y \in Nat /\ v \in Nat /\ z = y + v + 4
      BY <1>1, <3>1
    <3>3. at \in h + y + 4 .. (h + z) - 1
      BY <2>1, <3>1
    <3>. HIDE DEF p
    <3>4. at - (h + y + 4) + 1 \in 1 .. v
      BY <3>2, <3>3
    <3>. QED
      BY <3>1, <3>4
  <2>3. at + 1 = o + LabelPart(l) + 6 + (at - (p + LabelPart(l) + 4) + 1) /\ at \in Int
    <3>1. PICK q, z : q = LabelPart(l) /\ z = p + BodyPart(l)
      OBVIOUS
    <3>2. o \in Int /\ q \in Int /\ z \in Int
      BY <1>1, <3>1
    <3>3. at \in Int
      BY <2>1, <3>1, <3>2
    <3>4. at + 1 = o + q + 6 + (at - ((o + 2) + q + 4) + 1)
      BY <3>2, <3>3
    <3>. QED
      BY <3>1, <3>3, <3>4
  <2>. QED
    BY <2>2, <2>3 DEF PayloadPlace
<1>11. CASE at \in OffsetsOf(InField(d, r.body, r.end, 1))
  <2>. DEFINE q == p + 2
              frames == Frames(d, q, q + LabelPart(l))
  <2>1. r.body = q /\ r.end = q + LabelPart(l) /\ q \in Nat /\ q + LabelPart(l) <= Len(d)
    <3>1. r.body = q
      BY <1>5
    <3>2. p \in Nat
      BY <1>1
    <3>3. r.end = p + LabelPart(l) + 2 /\ p + BodyPart(l) <= Len(d)
      BY <1>3, <1>5
    <3>. HIDE DEF p
    <3>4. q \in Nat /\ p + LabelPart(l) + 2 = q + LabelPart(l) /\ q + LabelPart(l) <= p + BodyPart(l)
      <4>1. PICK h, y, z, v : h = p /\ y = LabelPart(l) /\ z = BodyPart(l) /\ v = ValueUnits
        OBVIOUS
      <4>2. h \in Nat /\ y \in Nat /\ v \in Nat /\ z = y + v + 4
        BY <1>1, <3>2, <4>1
      <4>3. h + 2 \in Nat /\ h + y + 2 = (h + 2) + y /\ (h + 2) + y <= h + z
        BY <4>2
      <4>4. q = h + 2
        BY <4>1
      <4>. HIDE DEF q
      <4>5. q \in Nat /\ h + y + 2 = q + y /\ q + y <= h + z
        BY <4>3, <4>4
      <4>. QED
        BY <4>1, <4>5
    <3>5. Len(d) \in Nat /\ p + BodyPart(l) \in Nat /\ q + LabelPart(l) \in Nat
      <4>1. PICK y, z, v : y = LabelPart(l) /\ z = BodyPart(l) /\ v = ValueUnits
        OBVIOUS
      <4>2. y \in Nat /\ v \in Nat /\ z = y + v + 4 /\ Len(d) \in Nat
        BY <1>1, <4>1
      <4>. HIDE DEF q
      <4>3. p + z \in Nat /\ q + y \in Nat
        BY <3>2, <3>4, <4>2
      <4>. QED
        BY <4>1, <4>2, <4>3
    <3>6. q + LabelPart(l) <= Len(d)
      <4>. HIDE DEF q
      <4>. QED
        BY <3>3, <3>4, <3>5
    <3>. QED
      BY <3>1, <3>3, <3>4, <3>6
  <2>2. frames = IF l = 0 THEN <<Rec(2, 0, q, q + 2, q + 2)>>
                 ELSE <<Rec(1, 2, q, q + 2, q + 2 + l), Rec(2, 0, q + 2 + l, q + 4 + l, q + 4 + l)>>
    <3>. HIDE DEF p
    <3>1. LabelAt(d, q, l)
      BY <1>2
    <3>. HIDE DEF q
    <3>. QED
      BY <2>1, <3>1, LabelFrames
  <2>. HIDE DEF q
  <2>3. PICK x \in ToSet(frames) : x.field = 1 /\ x.wire = 2 /\ at \in x.body .. x.end - 1
    <3>1. at \in OffsetsOf(InField(d, q, q + LabelPart(l), 1))
      BY <1>11, <2>1
    <3>. QED
      BY <3>1 DEF OffsetsOf, InField
  <2>4. l # 0 /\ x = Rec(1, 2, q, q + 2, q + 2 + l)
    <3>. DEFINE u == Rec(1, 2, q, q + 2, q + 2 + l)
                v == Rec(2, 0, q + 2 + l, q + 4 + l, q + 4 + l)
                w == Rec(2, 0, q, q + 2, q + 2)
    <3>1. v.field = 2 /\ w.field = 2
      BY DEF Rec
    <3>. HIDE DEF u, v, w
    <3>2. frames = IF l = 0 THEN <<w>> ELSE <<u, v>>
      BY <2>2 DEF u, v, w
    <3>. HIDE DEF frames
    <3>3. ToSet(<<w>>) = {w} /\ ToSet(<<u, v>>) = {u, v}
      BY DEF ToSet
    <3>4. x \in IF l = 0 THEN {w} ELSE {u, v}
      BY <2>3, <3>2, <3>3
    <3>5. l # 0 /\ x = u
      BY <2>3, <3>1, <3>4
    <3>. QED
      BY <3>5 DEF u
  <2>5. at \in q + 2 .. (q + 2 + l) - 1
    <3>1. x.body = q + 2 /\ x.end = q + 2 + l
      BY <2>4 DEF Rec
    <3>. QED
      BY <2>3, <3>1
  <2>6. at - (q + 2) + 1 \in 1 .. l /\ at \in Int
    BY <2>1, <2>5
  <2>7. at + 1 = o + 6 + (at - (q + 2) + 1)
    <3>1. q = o + 4
      BY DEF q
    <3>. QED
      BY <2>6, <3>1
  <2>. QED
    BY <2>6, <2>7 DEF PayloadPlace
<1>. QED
  BY <1>9, <1>10, <1>11

(* PayloadOffset takes payload of inserted elements only.                  *)
LEMMA LaidPayload ==
  ASSUME NEW d, NEW K, NEW off, NEW fld, NEW lab, Laid(d, K, off, fld, lab), NEW at \in PayloadOffsets(d, 1)
  PROVE  at \in Int /\ \E k \in 1 .. K : fld[k] = 1 /\ PayloadPlace(off[k - 1], lab[k], at)
<1>. DEFINE F == RecordsOf(K, off, fld)
<1>1. /\ Frames(d, 0, Len(d)) = F /\ F \in Seq(RecordSet) /\ Len(F) = K
      /\ \A k \in 1 .. K : F[k].field = fld[k] /\ F[k].body = off[k - 1] + 2 /\ F[k].end = off[k]
  BY LaidFrames
<1>. HIDE DEF F
<1>2. PICK r \in InField(d, 0, Len(d), 1) :
        at \in OffsetsOf(InField(d, r.body, r.end, 2))
              \cup UNION {OffsetsOf(InField(d, e.body, e.end, 1)) : e \in InField(d, r.body, r.end, 1)}
  BY Zenon DEF PayloadOffsets
<1>3. PICK k \in 1 .. K : r = F[k] /\ fld[k] = 1
  <2>1. r \in ToSet(F) /\ r.field = 1
    BY <1>1, <1>2 DEF InField
  <2>2. DOMAIN F = 1 .. K
    BY <1>1
  <2>. QED
    BY <1>1, <2>1, <2>2 DEF ToSet
<1>. DEFINE o == off[k - 1]
            l == lab[k]
<1>4. d \in Encoding /\ l \in Nat /\ off[k] = o + ElementPart(l) /\ ElementAt(d, o, fld[k], l)
  BY LabelsAreNat DEF Laid
<1>5. o \in Nat /\ off[k] <= Len(d)
  <2>1. k - 1 \in 0 .. K /\ k \in 0 .. K
    BY DEF Laid
  <2>. QED
    BY <2>1, LaidGrows
<1>6. r.body = o + 2 /\ r.end = o + ElementPart(l)
  BY <1>1, <1>3, <1>4
<1>7. at \in OffsetsOf(InField(d, o + 2, o + ElementPart(l), 2))
            \cup UNION {OffsetsOf(InField(d, e.body, e.end, 1)) : e \in InField(d, o + 2, o + ElementPart(l), 1)}
  BY <1>2, <1>6
<1>. HIDE DEF o, l
<1>8. at \in Int /\ PayloadPlace(o, l, at)
  BY <1>4, <1>5, <1>7, ElementPayload
<1>. QED
  BY <1>3, <1>8 DEF o, l

-----------------------------------------------------------------------------
(* An element stays one wherever its units are put and whatever its payload*)
(* is changed to.                                                          *)
Alike(u, v) == u = v \/ (u.kind = "payload" /\ v.kind = "payload")

(* A unit of framing is alike to itself alone.                             *)
LEMMA FramingIsNoPayload ==
  ASSUME NEW u, NEW v, Alike(u, v), u.kind # "payload"
  PROVE  v = u
BY DEF Alike

(* Keys, sizes and numbers are no payload.                                 *)
LEMMA KindsDiffer ==
  /\ \A f, w : Key(f, w).kind # "payload"
  /\ \A n : Size(n).kind # "payload" /\ Number(n).kind # "payload"
BY DEF Key, Size, Number

(* The body of an element stays one where its units are alike.             *)
LEMMA BodyKept ==
  ASSUME NEW d, NEW o \in Nat, NEW l \in Nat, BodyAt(d, o, l), NEW e, NEW p \in Nat,
         \A i \in 1 .. BodyPart(l) : Alike(d[o + i], e[p + i])
  PROVE  BodyAt(e, p, l)
<1>1. /\ LabelPart(l) \in Nat /\ LabelPart(l) >= 2 /\ ValueUnits \in Nat
      /\ BodyPart(l) = LabelPart(l) + ValueUnits + 4
      /\ l # 0 => LabelPart(l) = l + 4
  BY PartsAreNumbers, StreamNumbers DEF LabelPart
<1>2. /\ e[p + 1] = d[o + 1] /\ e[p + 2] = d[o + 2]
  <2>1. 1 \in 1 .. BodyPart(l) /\ 2 \in 1 .. BodyPart(l)
    BY <1>1
  <2>2. d[o + 1].kind # "payload" /\ d[o + 2].kind # "payload"
    BY KindsDiffer DEF BodyAt
  <2>. QED
    BY <2>1, <2>2, FramingIsNoPayload
<1>3. LabelAt(d, o + 2, l)
  BY DEF BodyAt
<1>4. ASSUME l # 0
      PROVE  /\ e[(p + 2) + 1] = d[(o + 2) + 1] /\ e[(p + 2) + 2] = d[(o + 2) + 2]
             /\ \A j \in 1 .. l : e[(p + 2) + 2 + j].kind = "payload"
  <2>1. /\ 3 \in 1 .. BodyPart(l) /\ 4 \in 1 .. BodyPart(l)
        /\ (p + 2) + 1 = p + 3 /\ (p + 2) + 2 = p + 4 /\ (o + 2) + 1 = o + 3 /\ (o + 2) + 2 = o + 4
    BY <1>1, <1>4
  <2>2. d[(o + 2) + 1].kind # "payload" /\ d[(o + 2) + 2].kind # "payload"
    BY <1>3, <1>4, KindsDiffer DEF LabelAt
  <2>3. Alike(d[o + 3], e[p + 3]) /\ Alike(d[o + 4], e[p + 4])
    BY <2>1
  <2>4. e[(p + 2) + 1] = d[(o + 2) + 1] /\ e[(p + 2) + 2] = d[(o + 2) + 2]
    BY <2>1, <2>2, <2>3, FramingIsNoPayload
  <2>5. ASSUME NEW j \in 1 .. l PROVE e[(p + 2) + 2 + j].kind = "payload"
    <3>1. 4 + j \in 1 .. BodyPart(l) /\ (p + 2) + 2 + j = p + (4 + j) /\ (o + 2) + 2 + j = o + (4 + j)
      BY <1>1, <1>4
    <3>2. d[(o + 2) + 2 + j].kind = "payload"
      BY <1>3, <1>4 DEF LabelAt, PayloadAt
    <3>3. Alike(d[o + (4 + j)], e[p + (4 + j)])
      BY <3>1
    <3>. QED
      BY <3>1, <3>2, <3>3 DEF Alike
  <2>. QED
    BY <2>4, <2>5
<1>5. /\ e[(p + 2) + LabelPart(l) - 1] = d[(o + 2) + LabelPart(l) - 1]
      /\ e[(p + 2) + LabelPart(l)] = d[(o + 2) + LabelPart(l)]
      /\ e[p + LabelPart(l) + 3] = d[o + LabelPart(l) + 3]
      /\ e[p + LabelPart(l) + 4] = d[o + LabelPart(l) + 4]
  <2>. DEFINE n == LabelPart(l)
  <2>1. n + 1 \in 1 .. BodyPart(l) /\ n + 2 \in 1 .. BodyPart(l) /\ n + 3 \in 1 .. BodyPart(l) /\ n + 4 \in 1 .. BodyPart(l)
    BY <1>1
  <2>2. /\ (p + 2) + n - 1 = p + (n + 1) /\ (p + 2) + n = p + (n + 2) /\ p + n + 3 = p + (n + 3) /\ p + n + 4 = p + (n + 4)
        /\ (o + 2) + n - 1 = o + (n + 1) /\ (o + 2) + n = o + (n + 2) /\ o + n + 3 = o + (n + 3) /\ o + n + 4 = o + (n + 4)
    BY <1>1
  <2>3. /\ d[(o + 2) + n - 1].kind # "payload" /\ d[(o + 2) + n].kind # "payload"
        /\ d[o + n + 3].kind # "payload" /\ d[o + n + 4].kind # "payload"
    BY <1>3, KindsDiffer DEF LabelAt, BodyAt
  <2>4. /\ Alike(d[o + (n + 1)], e[p + (n + 1)]) /\ Alike(d[o + (n + 2)], e[p + (n + 2)])
        /\ Alike(d[o + (n + 3)], e[p + (n + 3)]) /\ Alike(d[o + (n + 4)], e[p + (n + 4)])
    BY <2>1
  <2>. HIDE DEF n
  <2>5. /\ e[(p + 2) + n - 1] = d[(o + 2) + n - 1] /\ e[(p + 2) + n] = d[(o + 2) + n]
        /\ e[p + n + 3] = d[o + n + 3] /\ e[p + n + 4] = d[o + n + 4]
    BY <2>2, <2>3, <2>4, FramingIsNoPayload
  <2>. QED
    BY <2>5 DEF n
<1>6. ASSUME NEW j \in 1 .. ValueUnits PROVE e[p + LabelPart(l) + 4 + j].kind = "payload"
  <2>1. /\ LabelPart(l) + 4 + j \in 1 .. BodyPart(l)
        /\ p + LabelPart(l) + 4 + j = p + (LabelPart(l) + 4 + j) /\ o + LabelPart(l) + 4 + j = o + (LabelPart(l) + 4 + j)
    BY <1>1
  <2>2. d[o + LabelPart(l) + 4 + j].kind = "payload"
    BY DEF BodyAt, PayloadAt
  <2>3. Alike(d[o + (LabelPart(l) + 4 + j)], e[p + (LabelPart(l) + 4 + j)])
    BY <2>1
  <2>. QED
    BY <2>1, <2>2, <2>3 DEF Alike
<1>7. LabelAt(e, p + 2, l)
  BY <1>3, <1>4, <1>5 DEF LabelAt, PayloadAt
<1>. QED
  BY <1>2, <1>5, <1>6, <1>7 DEF BodyAt, PayloadAt

(* So does the element.                                                    *)
LEMMA ElementKept ==
  ASSUME NEW d, NEW o \in Nat, NEW f, NEW l \in Nat, ElementAt(d, o, f, l), NEW e,
         \A i \in 1 .. ElementPart(l) : Alike(d[o + i], e[o + i])
  PROVE  ElementAt(e, o, f, l)
<1>1. ElementPart(l) = BodyPart(l) + 2 /\ BodyPart(l) \in Nat
  BY PartsAreNumbers
<1>2. e[o + 1] = d[o + 1] /\ e[o + 2] = d[o + 2]
  <2>1. 1 \in 1 .. ElementPart(l) /\ 2 \in 1 .. ElementPart(l)
    BY <1>1
  <2>2. d[o + 1].kind # "payload" /\ d[o + 2].kind # "payload"
    BY KindsDiffer DEF ElementAt
  <2>. QED
    BY <2>1, <2>2, FramingIsNoPayload
<1>3. \A i \in 1 .. BodyPart(l) : Alike(d[(o + 2) + i], e[(o + 2) + i])
  <2>1. SUFFICES ASSUME NEW i \in 1 .. BodyPart(l) PROVE Alike(d[(o + 2) + i], e[(o + 2) + i])
    BY Zenon
  <2>2. 2 + i \in 1 .. ElementPart(l) /\ (o + 2) + i = o + (2 + i)
    BY <1>1
  <2>. QED
    BY <2>2
<1>4. BodyAt(e, o + 2, l)
  <2>1. o + 2 \in Nat /\ BodyAt(d, o + 2, l)
    BY DEF ElementAt
  <2>. QED
    BY <1>3, <2>1, BodyKept
<1>. QED
  BY <1>2, <1>4 DEF ElementAt

(* What ends with an element is laid out as the whole is.                  *)
LEMMA LaidPrefix ==
  ASSUME NEW d, NEW K, NEW off, NEW fld, NEW lab, Laid(d, K, off, fld, lab), NEW m \in 0 .. K
  PROVE  Laid(SubSeq(d, 1, off[m]), m, [k \in 0 .. m |-> off[k]], [k \in 1 .. m |-> fld[k]], [k \in 1 .. m |-> lab[k]])
<1>. DEFINE c == off[m]
            e == SubSeq(d, 1, c)
            o == [k \in 0 .. m |-> off[k]]
            f == [k \in 1 .. m |-> fld[k]]
            l == [k \in 1 .. m |-> lab[k]]
<1>1. /\ d \in Encoding /\ Len(d) \in Nat /\ K \in Nat /\ off \in [0 .. K -> Nat] /\ off[0] = 0
      /\ fld \in [1 .. K -> {1, 2}] /\ lab \in [1 .. K -> 0 .. LabelUnits]
  BY DEF Laid, Encoding
<1>2. m \in Nat /\ c \in Nat /\ c <= Len(d)
  <2>1. \A k \in 0 .. K : off[k] \in Nat /\ off[k] <= Len(d)
    BY LaidGrows
  <2>. QED
    BY <1>1, <2>1
<1>3. e \in Encoding /\ Len(e) = c /\ \A i \in 1 .. c : e[i] = d[i]
  <2>1. 0 \in Nat /\ 0 + c = c /\ 0 + 1 = 1 /\ 0 + c <= Len(d) /\ \A i \in 1 .. c : 0 + i = i
    BY <1>2
  <2>2. /\ SubSeq(d, 0 + 1, 0 + c) \in Encoding /\ Len(SubSeq(d, 0 + 1, 0 + c)) = c
        /\ \A i \in 1 .. c : SubSeq(d, 0 + 1, 0 + c)[i] = d[0 + i]
    BY <1>1, <1>2, <2>1, Slice
  <2>. QED
    BY <2>1, <2>2
<1>4. o \in [0 .. m -> Nat] /\ o[0] = 0 /\ o[m] = c /\ f \in [1 .. m -> {1, 2}] /\ l \in [1 .. m -> 0 .. LabelUnits]
  <2>1. \A k \in 0 .. m : k \in 0 .. K
    BY <1>1
  <2>2. \A k \in 1 .. m : k \in 1 .. K
    BY <1>1
  <2>3. 0 \in 0 .. m /\ m \in 0 .. m
    BY <1>2
  <2>. QED
    BY <1>1, <2>1, <2>2, <2>3
<1>. HIDE DEF c, e
<1>5. ASSUME NEW k \in 1 .. m PROVE o[k] = o[k - 1] + ElementPart(l[k]) /\ ElementAt(e, o[k - 1], f[k], l[k])
  <2>. DEFINE p == off[k - 1]
              h == lab[k]
  <2>1. k \in 1 .. K /\ k - 1 \in 0 .. m /\ k \in 0 .. m /\ k - 1 \in 0 .. K /\ k \in 0 .. K
    BY <1>1, <1>2
  <2>2. /\ off[k] = p + ElementPart(h) /\ ElementAt(d, p, fld[k], h) /\ h \in 0 .. LabelUnits
    BY <1>1, <2>1 DEF Laid
  <2>3. o[k] = off[k] /\ o[k - 1] = p /\ f[k] = fld[k] /\ l[k] = h
    BY <2>1
  <2>4. p \in Nat /\ off[k] <= c /\ h \in Nat
    <3>1. k < m => off[k] + 8 <= off[m]
      BY <1>1, <2>1, LaidGrows
    <3>2. k = m \/ k < m
      BY <1>2
    <3>3. off[k] \in Nat /\ p \in Nat
      BY <1>1, <2>1
    <3>. QED
      BY <1>2, <2>2, <3>1, <3>2, <3>3, LabelsAreNat DEF c
  <2>. HIDE DEF p, h, o, f, l
  <2>5. ElementAt(e, p, fld[k], h)
    <3>1. \A i \in 1 .. ElementPart(h) : p + i \in 1 .. c
      <4>1. ElementPart(h) \in Nat /\ p + ElementPart(h) <= c
        BY <2>2, <2>4, PartsAreNumbers
      <4>. QED
        BY <1>2, <2>4, <4>1
    <3>2. \A i \in 1 .. ElementPart(h) : e[p + i] = d[p + i]
      BY <1>3, <3>1
    <3>3. \A i \in 1 .. ElementPart(h) : Alike(d[p + i], e[p + i])
      BY <3>2 DEF Alike
    <3>. QED
      BY <2>2, <2>4, <3>3, ElementKept
  <2>. QED
    BY <2>2, <2>3, <2>5
<1>. HIDE DEF o, f, l
<1>6. Laid(e, m, o, f, l)
  BY <1>2, <1>3, <1>4, <1>5 DEF Laid
<1>. QED
  BY <1>6 DEF c, e, o, f, l

-----------------------------------------------------------------------------
(* The bodies of a proof's elements are bodies of elements, and decode.    *)
LEMMA LaidBodies ==
  ASSUME NEW d, NEW K, NEW off, NEW fld, NEW lab, Laid(d, K, off, fld, lab), NEW k \in 1 .. K
  PROVE  LET b == BodyOf(d, RecordsOf(K, off, fld)[k])
         IN /\ b \in Encoding /\ Len(b) = BodyPart(lab[k]) /\ BodyAt(b, 0, lab[k])
            /\ \A i \in 1 .. BodyPart(lab[k]) : b[i] = d[off[k - 1] + 2 + i]
            /\ off[k - 1] \in Nat /\ lab[k] \in Nat /\ lab[k] \in 0 .. LabelUnits
            /\ off[k] = off[k - 1] + ElementPart(lab[k]) /\ off[k] <= Len(d)
<1>. DEFINE b == BodyOf(d, RecordsOf(K, off, fld)[k])
            p == off[k - 1] + 2
            n == BodyPart(lab[k])
<1>1. /\ d \in Encoding /\ Len(d) \in Nat /\ K \in Nat /\ lab[k] \in 0 .. LabelUnits /\ lab[k] \in Nat
      /\ off[k] = off[k - 1] + ElementPart(lab[k]) /\ ElementAt(d, off[k - 1], fld[k], lab[k])
  BY LabelsAreNat DEF Laid, Encoding
<1>2. off[k - 1] \in Nat /\ off[k] <= Len(d)
  <2>1. k - 1 \in 0 .. K /\ k \in 0 .. K
    BY <1>1
  <2>. QED
    BY <2>1, LaidGrows
<1>3. n \in Nat /\ ElementPart(lab[k]) = n + 2
  BY <1>1, PartsAreNumbers
<1>4. p \in Nat /\ p + n = off[k] /\ p + n <= Len(d)
  <2>1. PICK x, y, z, e : x = off[k - 1] /\ y = off[k] /\ z = Len(d) /\ e = ElementPart(lab[k])
    OBVIOUS
  <2>2. x \in Nat /\ z \in Nat /\ y = x + e /\ y <= z /\ e = n + 2
    BY <1>1, <1>2, <1>3, <2>1
  <2>. HIDE DEF n
  <2>3. x + 2 \in Nat /\ (x + 2) + n = y /\ (x + 2) + n <= z
    BY <1>3, <2>2
  <2>. QED
    BY <2>1, <2>3
<1>5. b = SubSeq(d, p + 1, p + n)
  <2>1. RecordsOf(K, off, fld)[k].body = p /\ RecordsOf(K, off, fld)[k].end = off[k]
    BY DEF RecordsOf, Rec
  <2>. HIDE DEF p
  <2>. QED
    BY <1>4, <2>1 DEF BodyOf
<1>6. BodyAt(d, p, lab[k])
  BY <1>1 DEF ElementAt
<1>. HIDE DEF b, p, n
<1>7. b \in Encoding /\ Len(b) = n /\ \A i \in 1 .. n : b[i] = d[p + i]
  BY <1>1, <1>3, <1>4, <1>5, Slice
<1>8. BodyAt(b, 0, lab[k])
  <2>1. \A i \in 1 .. BodyPart(lab[k]) : Alike(d[p + i], b[0 + i])
    BY <1>7 DEF Alike, n
  <2>2. p \in Nat /\ 0 \in Nat /\ lab[k] \in Nat
    BY <1>1, <1>4
  <2>. HIDE DEF Alike
  <2>. QED
    BY <1>6, <2>1, <2>2, BodyKept
<1>9. \A i \in 1 .. BodyPart(lab[k]) : b[i] = d[off[k - 1] + 2 + i]
  BY <1>7 DEF n, p
<1>. QED
  BY <1>1, <1>2, <1>7, <1>8, <1>9 DEF b, n

(* Two encodings of one length that agree everywhere are one.              *)
LEMMA SameEncoding ==
  ASSUME NEW b \in Encoding, NEW c \in Encoding, Len(b) = Len(c), \A i \in 1 .. Len(b) : b[i] = c[i]
  PROVE  b = c
<1>1. b \in Seq(Unit) /\ c \in Seq(Unit)
  BY DEF Encoding
<1>. QED
  BY <1>1

(* What a whole proof decodes to, and that all of it does.                 *)
Elements(d, F, f) == LET of == OfField(F, f) IN [i \in DOMAIN of |-> DecodeElement(BodyOf(d, of[i]))]

(* A whole proof decodes, each of its elements under its field.            *)
LEMMA LaidDecodes ==
  ASSUME NEW d, NEW K, NEW off, NEW fld, NEW lab, Laid(d, K, off, fld, lab)
  PROVE  LET F == RecordsOf(K, off, fld)
         IN Decode(d) = [ok |-> TRUE, inserted |-> Elements(d, F, 1), unchanged |-> Elements(d, F, 2)]
<1>. DEFINE F == RecordsOf(K, off, fld)
            frames == Frames(d, 0, Len(d))
            fine == /\ WellFramed(frames)
                    /\ \A i \in DOMAIN frames : frames[i].wire = 2 => DecodeElement(BodyOf(d, frames[i])).ok
<1>1. frames = F /\ WellFramed(F) /\ F \in Seq(RecordSet) /\ Len(F) = K
  BY LaidFrames
<1>2. \A k \in 1 .. K : DecodeElement(BodyOf(d, F[k])).ok = TRUE
  <2>1. SUFFICES ASSUME NEW k \in 1 .. K PROVE DecodeElement(BodyOf(d, F[k])).ok = TRUE
    BY Zenon
  <2>2. PICK b : b = BodyOf(d, F[k])
    OBVIOUS
  <2>3. b \in Encoding /\ Len(b) = BodyPart(lab[k]) /\ BodyAt(b, 0, lab[k]) /\ lab[k] \in 0 .. LabelUnits
    BY <2>2, LaidBodies
  <2>4. DecodeElement(b) = [ok |-> TRUE, label |-> SubSeq(SubSeq(b, 3, 2 + LabelPart(lab[k])), 3, 2 + lab[k]), len |-> lab[k],
                             value |-> SubSeq(b, LabelPart(lab[k]) + 5, BodyPart(lab[k]))]
    BY <2>3, BodyDecodes
  <2>. QED
    BY <2>2, <2>4
<1>3. Decode(d) = [ok |-> fine, inserted |-> Elements(d, frames, 1), unchanged |-> Elements(d, frames, 2)]
  BY Zenon DEF Decode, Elements
<1>4. DOMAIN F = 1 .. K
  BY <1>1
<1>. HIDE DEF F, frames
<1>5. fine = TRUE
  <2>1. fine
    BY <1>1, <1>2, <1>4, Zenon
  <2>. QED
    BY <2>1, Zenon
<1>. HIDE DEF fine
<1>. QED
  BY <1>1, <1>3, <1>5 DEF F

(* An element with one unit of its payload changed decodes to another.     *)
LEMMA BodyDiffers ==
  ASSUME NEW o \in Nat, NEW l \in 0 .. LabelUnits, NEW at \in Int, PayloadPlace(o, l, at),
         NEW b \in Encoding, Len(b) = BodyPart(l), BodyAt(b, 0, l),
         NEW c \in Encoding, Len(c) = BodyPart(l), BodyAt(c, 0, l),
         \A i \in 1 .. BodyPart(l) : o + 2 + i = at + 1 => b[i] # c[i]
  PROVE  DecodeElement(b) # DecodeElement(c)
<1>. DEFINE n == LabelPart(l)
            lb == SubSeq(b, 3, 2 + n)
            lc == SubSeq(c, 3, 2 + n)
            Lb == SubSeq(lb, 3, 2 + l)
            Lc == SubSeq(lc, 3, 2 + l)
            Vb == SubSeq(b, n + 5, BodyPart(l))
            Vc == SubSeq(c, n + 5, BodyPart(l))
<1>1. /\ l \in Nat /\ n \in Nat /\ ValueUnits \in Nat /\ n >= l + 2 /\ BodyPart(l) = n + ValueUnits + 4
      /\ BodyPart(l) \in Nat
  BY LabelsAreNat, PartsAreNumbers, StreamNumbers
<1>2. /\ DecodeElement(b) = [ok |-> TRUE, label |-> Lb, len |-> l, value |-> Vb]
      /\ DecodeElement(c) = [ok |-> TRUE, label |-> Lc, len |-> l, value |-> Vc]
  BY BodyDecodes
<1>3. SUFFICES Lb # Lc \/ Vb # Vc
  <2>. HIDE DEF Lb, Lc, Vb, Vc
  <2>. QED
    BY <1>2
<1>4. CASE \E j \in 1 .. l : at + 1 = o + 6 + j
  <2>1. PICK j \in 1 .. l : at + 1 = o + 6 + j
    BY <1>4
  <2>2. l # 0 /\ n = l + 4
    BY <2>1 DEF LabelPart
  <2>3. /\ 4 + j \in 1 .. BodyPart(l) /\ o + 2 + (4 + j) = at + 1
        /\ 2 + j \in 1 .. n /\ 2 + (2 + j) = 4 + j
        /\ 2 + n <= Len(b) /\ 2 + n <= Len(c) /\ 2 + l <= n /\ 2 + 1 = 3
    BY <1>1, <2>1, <2>2
  <2>4. ASSUME NEW x \in Encoding, Len(x) = BodyPart(l) PROVE SubSeq(SubSeq(x, 3, 2 + n), 3, 2 + l)[j] = x[4 + j]
    <3>1. PICK y : y = SubSeq(x, 3, 2 + n)
      OBVIOUS
    <3>2. 2 \in Nat /\ 2 + n <= Len(x)
      BY <1>1, <2>4
    <3>3. y \in Encoding /\ Len(y) = n /\ \A i \in 1 .. n : y[i] = x[2 + i]
      <4>. HIDE DEF n
      <4>1. SubSeq(x, 2 + 1, 2 + n) \in Encoding /\ Len(SubSeq(x, 2 + 1, 2 + n)) = n
            /\ \A i \in 1 .. n : SubSeq(x, 2 + 1, 2 + n)[i] = x[2 + i]
        BY <1>1, <3>2, Slice
      <4>. QED
        BY <2>3, <3>1, <4>1
    <3>4. \A i \in 1 .. l : SubSeq(y, 2 + 1, 2 + l)[i] = y[2 + i]
      <4>1. 2 + l <= Len(y)
        BY <2>3, <3>3
      <4>. QED
        BY <1>1, <3>2, <3>3, <4>1, Slice
    <3>. HIDE DEF n
    <3>5. SubSeq(y, 3, 2 + l)[j] = y[2 + j]
      BY <2>3, <3>4
    <3>. QED
      BY <2>3, <3>1, <3>3, <3>5
  <2>5. Lb[j] = b[4 + j] /\ Lc[j] = c[4 + j]
    BY <2>4
  <2>6. b[4 + j] # c[4 + j]
    BY <2>3
  <2>. HIDE DEF Lb, Lc, Vb, Vc
  <2>. QED
    BY <2>5, <2>6
<1>5. CASE \E j \in 1 .. ValueUnits : at + 1 = o + n + 6 + j
  <2>1. PICK j \in 1 .. ValueUnits : at + 1 = o + n + 6 + j
    BY <1>5
  <2>2. /\ n + 4 + j \in 1 .. BodyPart(l) /\ o + 2 + (n + 4 + j) = at + 1
        /\ n + 4 \in Nat /\ (n + 4) + 1 = n + 5 /\ (n + 4) + ValueUnits = BodyPart(l)
    <3>. HIDE DEF n
    <3>1. j \in Nat /\ 1 <= j /\ j <= ValueUnits
      BY <1>1, <2>1
    <3>2. n + 4 + j \in 1 .. BodyPart(l)
      BY <1>1, <3>1
    <3>3. o + 2 + (n + 4 + j) = at + 1
      BY <1>1, <2>1, <3>1
    <3>. QED
      BY <1>1, <3>2, <3>3
  <2>3. ASSUME NEW x \in Encoding, Len(x) = BodyPart(l) PROVE SubSeq(x, n + 5, BodyPart(l))[j] = x[n + 4 + j]
    <3>. DEFINE q == n + 4
    <3>1. q \in Nat /\ q + ValueUnits <= Len(x) /\ q + 1 = n + 5 /\ q + ValueUnits = BodyPart(l)
      BY <1>1, <2>2, <2>3
    <3>. HIDE DEF q
    <3>2. SubSeq(x, q + 1, q + ValueUnits)[j] = x[q + j]
      BY <1>1, <3>1, Slice
    <3>. QED
      BY <3>1, <3>2 DEF q
  <2>4. Vb[j] = b[n + 4 + j] /\ Vc[j] = c[n + 4 + j]
    BY <2>3
  <2>5. b[n + 4 + j] # c[n + 4 + j]
    BY <2>2
  <2>. HIDE DEF Lb, Lc, Vb, Vc
  <2>. QED
    BY <2>4, <2>5
<1>. QED
  BY <1>4, <1>5 DEF PayloadPlace

(* A proof is laid out the same whatever its payload is changed to.        *)
LEMMA LaidAlike ==
  ASSUME NEW d, NEW K, NEW off, NEW fld, NEW lab, Laid(d, K, off, fld, lab),
         NEW e \in Encoding, Len(e) = Len(d), \A i \in 1 .. Len(d) : Alike(d[i], e[i])
  PROVE  Laid(e, K, off, fld, lab)
<1>1. K \in Nat /\ off \in [0 .. K -> Nat]
  BY DEF Laid
<1>2. ASSUME NEW h \in 1 .. K PROVE ElementAt(e, off[h - 1], fld[h], lab[h])
  <2>1. PICK o, l, n : o = off[h - 1] /\ l = lab[h] /\ n = ElementPart(l)
    OBVIOUS
  <2>2. l \in 0 .. LabelUnits /\ off[h] = o + n /\ ElementAt(d, o, fld[h], l)
    BY <2>1 DEF Laid
  <2>3. h - 1 \in 0 .. K /\ h \in 0 .. K
    BY <1>1
  <2>4. o \in Nat /\ off[h] \in Nat /\ off[h] <= Len(d)
    BY <2>1, <2>3, LaidGrows
  <2>5. l \in Nat
    BY <2>2, LabelsAreNat
  <2>6. n \in Nat
    BY <2>1, <2>5, PartsAreNumbers
  <2>7. \A i \in 1 .. n : o + i \in 1 .. Len(d)
    <3>1. Len(d) \in Nat
      BY DEF Laid, Encoding
    <3>. QED
      BY <2>2, <2>4, <2>6, <3>1
  <2>8. \A i \in 1 .. n : Alike(d[o + i], e[o + i])
    BY <2>7
  <2>. QED
    BY <2>1, <2>2, <2>4, <2>5, <2>8, ElementKept
<1>. QED
  BY <1>2 DEF Laid

(* A proof with one unit of an inserted element's payload changed is as    *)
(* well made, and decodes to all the same elements but that one.           *)
ChangedAt(d, e, at) ==
  /\ e \in Encoding /\ Len(e) = Len(d) /\ e[at + 1].kind = "payload" /\ e[at + 1] # d[at + 1]
  /\ \A i \in 1 .. Len(d) : i # at + 1 => e[i] = d[i]
OneApart(good, bad) ==
  /\ bad.ok /\ bad.unchanged = good.unchanged /\ Len(bad.inserted) = Len(good.inserted)
  /\ Cardinality({i \in DOMAIN good.inserted : bad.inserted[i] # good.inserted[i]}) = 1

(* One unit of payload changed in one inserted element is one element      *)
(* changed.                                                                *)
LEMMA OneElementDiffers ==
  ASSUME NEW d, NEW K, NEW off, NEW fld, NEW lab, Laid(d, K, off, fld, lab),
         NEW k \in 1 .. K, fld[k] = 1, NEW at \in Int, PayloadPlace(off[k - 1], lab[k], at),
         NEW e, ChangedAt(d, e, at)
  PROVE  OneApart(Decode(d), Decode(e))
<1>1. /\ e \in Encoding /\ Len(e) = Len(d) /\ e[at + 1].kind = "payload" /\ e[at + 1] # d[at + 1]
      /\ \A i \in 1 .. Len(d) : i # at + 1 => e[i] = d[i]
  BY DEF ChangedAt
<1>. DEFINE F == RecordsOf(K, off, fld)
<1>2. /\ Len(d) \in Nat /\ K \in Nat /\ d \in Encoding /\ off \in [0 .. K -> Nat] /\ off[0] = 0 /\ off[K] = Len(d)
      /\ fld \in [1 .. K -> {1, 2}] /\ lab \in [1 .. K -> 0 .. LabelUnits]
  <2>1. d \in Encoding
    BY DEF Laid
  <2>2. Len(d) \in Nat
    BY <2>1 DEF Encoding
  <2>. QED
    BY <2>1, <2>2 DEF Laid
<1>3. \A h \in 1 .. K : /\ off[h - 1] \in Nat /\ off[h] \in Nat /\ lab[h] \in Nat /\ off[h] <= Len(d)
                        /\ off[h] = off[h - 1] + ElementPart(lab[h]) /\ ElementPart(lab[h]) = BodyPart(lab[h]) + 2
                        /\ ElementAt(d, off[h - 1], fld[h], lab[h])
                        /\ BodyPart(lab[h]) \in Nat /\ ElementPart(lab[h]) \in Nat
  <2>1. SUFFICES ASSUME NEW h \in 1 .. K
                 PROVE  /\ off[h - 1] \in Nat /\ off[h] \in Nat /\ lab[h] \in Nat /\ off[h] <= Len(d)
                        /\ off[h] = off[h - 1] + ElementPart(lab[h]) /\ ElementPart(lab[h]) = BodyPart(lab[h]) + 2
                        /\ ElementAt(d, off[h - 1], fld[h], lab[h])
                        /\ BodyPart(lab[h]) \in Nat /\ ElementPart(lab[h]) \in Nat
    BY Zenon
  <2>2. h - 1 \in 0 .. K /\ h \in 0 .. K
    BY <1>2
  <2>3. off[h - 1] \in Nat /\ off[h] \in Nat /\ off[h] <= Len(d)
    BY <2>2, LaidGrows
  <2>4. lab[h] \in Nat
    BY <1>2, LabelsAreNat
  <2>. QED
    BY <2>3, <2>4, PartsAreNumbers DEF Laid
<1>4. d[at + 1].kind = "payload" /\ off[k - 1] + 6 <= at /\ at < off[k]
  <2>1. PICK o, l : o = off[k - 1] /\ l = lab[k]
    OBVIOUS
  <2>2. /\ o \in Nat /\ l \in Nat /\ ElementAt(d, o, fld[k], l) /\ off[k] = o + ElementPart(l)
        /\ PayloadPlace(o, l, at)
    BY <1>3, <2>1
  <2>3. d[at + 1].kind = "payload" /\ o + 6 <= at /\ at < o + ElementPart(l)
    BY <2>2, PlaceIsPayload
  <2>. QED
    BY <2>1, <2>2, <2>3
<1>5. Laid(e, K, off, fld, lab)
  <2>1. \A i \in 1 .. Len(d) : Alike(d[i], e[i])
    BY <1>1, <1>4 DEF Alike
  <2>. QED
    BY <1>1, <2>1, LaidAlike
<1>6. /\ Decode(d) = [ok |-> TRUE, inserted |-> Elements(d, F, 1), unchanged |-> Elements(d, F, 2)]
      /\ Decode(e) = [ok |-> TRUE, inserted |-> Elements(e, F, 1), unchanged |-> Elements(e, F, 2)]
  BY <1>5, LaidDecodes
<1>7. /\ F \in Seq(RecordSet) /\ Len(F) = K /\ InOrder(F)
      /\ \A h \in 1 .. K : F[h].field = fld[h] /\ F[h].start = off[h - 1]
  BY LaidFrames
<1>8. ASSUME NEW h \in 1 .. K, h # k PROVE BodyOf(e, F[h]) = BodyOf(d, F[h])
  <2>1. PICK b, c : b = BodyOf(d, F[h]) /\ c = BodyOf(e, F[h])
    OBVIOUS
  <2>2. b \in Encoding /\ Len(b) = BodyPart(lab[h]) /\ \A i \in 1 .. BodyPart(lab[h]) : b[i] = d[off[h - 1] + 2 + i]
    <3>. HIDE DEF F
    <3>1. b = BodyOf(d, RecordsOf(K, off, fld)[h])
      BY <2>1 DEF F
    <3>. QED
      BY <3>1, LaidBodies
  <2>3. c \in Encoding /\ Len(c) = BodyPart(lab[h]) /\ \A i \in 1 .. BodyPart(lab[h]) : c[i] = e[off[h - 1] + 2 + i]
    BY <1>5, <2>1, LaidBodies
  <2>4. \A i \in 1 .. BodyPart(lab[h]) : off[h - 1] + 2 + i \in 1 .. Len(d) /\ off[h - 1] + 2 + i # at + 1
    <3>1. PICK o, n, p, q : o = off[h - 1] /\ n = BodyPart(lab[h]) /\ p = off[k - 1] /\ q = off[k]
      OBVIOUS
    <3>2. o \in Nat /\ n \in Nat /\ p \in Nat /\ q \in Nat /\ off[h] = o + (n + 2) /\ o + (n + 2) <= Len(d)
      BY <1>3, <3>1
    <3>3. h < k => off[h] <= p
      <4>1. h < k => k - 1 = h \/ h < k - 1
        BY <1>2
      <4>2. h \in 0 .. K /\ k - 1 \in 0 .. K
        BY <1>2
      <4>3. h < k - 1 => off[h] + 8 <= off[k - 1]
        BY <4>2, LaidGrows
      <4>4. off[h] \in Nat /\ off[k - 1] \in Nat
        BY <1>3
      <4>5. off[h] + 8 <= off[k - 1] => off[h] <= off[k - 1]
        BY <4>4
      <4>6. k - 1 = h => off[h] <= off[k - 1]
        BY <4>4
      <4>. QED
        BY <3>1, <4>1, <4>3, <4>5, <4>6
    <3>4. k < h => q <= o
      <4>1. k < h => h - 1 = k \/ k < h - 1
        BY <1>2
      <4>2. k \in 0 .. K /\ h - 1 \in 0 .. K
        BY <1>2
      <4>3. k < h - 1 => off[k] + 8 <= off[h - 1]
        BY <4>2, LaidGrows
      <4>4. off[k] \in Nat /\ off[h - 1] \in Nat
        BY <1>3
      <4>5. off[k] + 8 <= off[h - 1] => off[k] <= off[h - 1]
        BY <4>4
      <4>6. h - 1 = k => off[k] <= off[h - 1]
        BY <4>4
      <4>. QED
        BY <3>1, <4>1, <4>3, <4>5, <4>6
    <3>5. h < k \/ k < h
      BY <1>2, <1>8
    <3>6. p + 6 <= at /\ at < q
      BY <1>4, <3>1
    <3>7. ASSUME NEW i \in 1 .. n PROVE o + 2 + i \in 1 .. Len(d) /\ o + 2 + i # at + 1
      BY <1>2, <3>2, <3>3, <3>4, <3>5, <3>6
    <3>. QED
      BY <3>1, <3>7
  <2>5. \A i \in 1 .. Len(b) : b[i] = c[i]
    <3>1. \A i \in 1 .. BodyPart(lab[h]) : e[off[h - 1] + 2 + i] = d[off[h - 1] + 2 + i]
      BY <1>1, <2>4
    <3>. QED
      BY <2>2, <2>3, <3>1
  <2>. QED
    BY <2>1, <2>2, <2>3, <2>5, SameEncoding
<1>9. DecodeElement(BodyOf(e, F[k])) # DecodeElement(BodyOf(d, F[k]))
  <2>1. PICK b, c : b = BodyOf(d, F[k]) /\ c = BodyOf(e, F[k])
    OBVIOUS
  <2>2. /\ b \in Encoding /\ Len(b) = BodyPart(lab[k]) /\ \A i \in 1 .. BodyPart(lab[k]) : b[i] = d[off[k - 1] + 2 + i]
        /\ BodyAt(b, 0, lab[k])
    BY <2>1, LaidBodies
  <2>3. /\ c \in Encoding /\ Len(c) = BodyPart(lab[k]) /\ \A i \in 1 .. BodyPart(lab[k]) : c[i] = e[off[k - 1] + 2 + i]
        /\ BodyAt(c, 0, lab[k])
    BY <1>5, <2>1, LaidBodies
  <2>4. at + 1 \in 1 .. Len(d)
    <3>1. off[k - 1] \in Nat /\ off[k] \in Nat /\ off[k] <= Len(d)
      BY <1>3
    <3>. QED
      BY <1>2, <1>4, <3>1
  <2>5. \A i \in 1 .. BodyPart(lab[k]) : off[k - 1] + 2 + i = at + 1 => b[i] = d[at + 1] /\ c[i] = e[at + 1]
    BY <2>2, <2>3, <2>4
  <2>6. off[k - 1] \in Nat /\ lab[k] \in 0 .. LabelUnits
    BY <1>2, <1>3
  <2>7. DecodeElement(b) # DecodeElement(c)
    <3>1. PICK o, l : o = off[k - 1] /\ l = lab[k]
      OBVIOUS
    <3>2. o \in Nat /\ l \in 0 .. LabelUnits /\ PayloadPlace(o, l, at)
      BY <2>6, <3>1
    <3>3. /\ Len(b) = BodyPart(l) /\ BodyAt(b, 0, l) /\ Len(c) = BodyPart(l) /\ BodyAt(c, 0, l)
      BY <2>2, <2>3, <3>1
    <3>4. \A i \in 1 .. BodyPart(l) : o + 2 + i = at + 1 => b[i] # c[i]
      BY <1>1, <2>5, <3>1
    <3>5. b \in Encoding /\ c \in Encoding
      BY <2>2, <2>3
    <3>. QED
      BY <3>2, <3>3, <3>4, <3>5, BodyDiffers
  <2>. QED
    BY <2>1, <2>7
<1>. DEFINE of(f) == OfField(F, f)
<1>10. ASSUME NEW f \in {1, 2}
       PROVE  of(f) \in Seq(RecordSet) /\ Selects(of(f), F, f, 0)
  <2>. HIDE DEF F
  <2>. QED
    BY <1>7, OfFieldSelects
<1>11. \A i : i \in 0 + 1 .. Len(F) <=> i \in 1 .. K
  BY <1>7
<1>. HIDE DEF F
<1>12. Elements(e, F, 2) = Elements(d, F, 2)
  <2>1. ASSUME NEW j \in DOMAIN of(2) PROVE BodyOf(e, of(2)[j]) = BodyOf(d, of(2)[j])
    <3>1. j \in 1 .. Len(of(2))
      <4>. HIDE DEF of
      <4>. QED
        BY <1>10, <2>1
    <3>2. PICK h \in 1 .. K : IsOf(F, 2, F[h]) /\ of(2)[j] = F[h]
      BY <1>10, <1>11, <3>1 DEF Selects
    <3>3. h # k
      BY <1>7, <3>2 DEF IsOf
    <3>. QED
      BY <1>8, <3>2, <3>3
  <2>2. \A j \in DOMAIN of(2) : DecodeElement(BodyOf(e, of(2)[j])) = DecodeElement(BodyOf(d, of(2)[j]))
    BY <2>1
  <2>. QED
    BY <2>2, Zenon DEF Elements
<1>13. PICK j \in 1 .. Len(of(1)) : of(1)[j] = F[k]
  <2>1. IsOf(F, 1, F[k])
    <3>1. F[k].wire = 2
      BY LaidFrames DEF F
    <3>. QED
      BY <1>7, <3>1 DEF IsOf
  <2>. QED
    BY <1>10, <1>11, <2>1 DEF Selects
<1>14. ASSUME NEW i \in 1 .. Len(of(1)), i # j
       PROVE  DecodeElement(BodyOf(e, of(1)[i])) = DecodeElement(BodyOf(d, of(1)[i]))
  <2>1. PICK h \in 1 .. K : of(1)[i] = F[h]
    BY <1>10, <1>11 DEF Selects
  <2>2. of(1)[i].start # of(1)[j].start
    <3>1. InOrder(of(1)) /\ of(1) \in Seq(RecordSet)
      BY <1>10 DEF Selects
    <3>. HIDE DEF of
    <3>2. of(1)[i].start \in Int /\ of(1)[j].start \in Int
      <4>1. of(1)[i] \in RecordSet /\ of(1)[j] \in RecordSet
        BY <3>1
      <4>. QED
        BY <4>1 DEF RecordSet
    <3>3. i < j \/ j < i
      BY <1>14, <3>1
    <3>. QED
      BY <3>1, <3>2, <3>3 DEF InOrder
  <2>3. h # k
    BY <1>13, <2>1, <2>2
  <2>. QED
    BY <1>8, <2>1, <2>3
<1>15. DOMAIN of(1) = 1 .. Len(of(1))
  <2>. HIDE DEF of
  <2>. QED
    BY <1>10
<1>16. /\ DOMAIN Elements(d, F, 1) = 1 .. Len(of(1)) /\ DOMAIN Elements(e, F, 1) = 1 .. Len(of(1))
       /\ \A i \in 1 .. Len(of(1)) : /\ Elements(d, F, 1)[i] = DecodeElement(BodyOf(d, of(1)[i]))
                                      /\ Elements(e, F, 1)[i] = DecodeElement(BodyOf(e, of(1)[i]))
  BY <1>15, Zenon DEF Elements
<1>17. Len(of(1)) \in Nat
  <2>. HIDE DEF of
  <2>. QED
    BY <1>10
<1>. HIDE DEF of
<1>18. Len(Elements(d, F, 1)) = Len(of(1)) /\ Len(Elements(e, F, 1)) = Len(of(1))
  BY <1>16, <1>17
<1>19. {i \in DOMAIN Elements(d, F, 1) : Elements(e, F, 1)[i] # Elements(d, F, 1)[i]} = {j}
  <2>1. \A i \in 1 .. Len(of(1)) : Elements(e, F, 1)[i] = Elements(d, F, 1)[i] <=> i # j
    BY <1>9, <1>13, <1>14, <1>16
  <2>2. DOMAIN Elements(d, F, 1) = 1 .. Len(of(1))
    BY <1>16
  <2>. QED
    BY <2>1, <2>2, Zenon
<1>20. Cardinality({j}) = 1
  BY FS_Singleton
<1>21. Cardinality({i \in DOMAIN Decode(d).inserted : Decode(e).inserted[i] # Decode(d).inserted[i]}) = 1
  <2>1. Decode(d).inserted = Elements(d, F, 1) /\ Decode(e).inserted = Elements(e, F, 1)
    BY <1>6
  <2>. QED
    BY <1>19, <1>20, <2>1
<1>22. Decode(e).ok /\ Decode(e).unchanged = Decode(d).unchanged /\ Len(Decode(e).inserted) = Len(Decode(d).inserted)
  BY <1>6, <1>12, <1>18
<1>. QED
  BY <1>21, <1>22, Zenon DEF OneApart

-----------------------------------------------------------------------------
(* FieldRanges of a proof whose inserted elements all come first: one run, *)
(* from its beginning to the end of the last of them.                      *)
InsertedFirst(K, fld, m) == m \in 0 .. K /\ \A k \in 1 .. K : fld[k] = 1 <=> k <= m
IsRanging(f, frames, field) ==
  f = [n \in 0 .. Len(frames) |->
         LET out == f[n - 1]
             r == frames[n]
         IN IF n = 0 THEN <<>>
            ELSE IF r.field # field THEN out
            ELSE IF out # <<>> /\ Last(out)[2] = r.start THEN Append(Front(out), <<Last(out)[1], r.end>>)
            ELSE Append(out, <<r.start, r.end>>)]
Extended(out, r, field) ==
  IF r.field # field THEN out
  ELSE IF out # <<>> /\ Last(out)[2] = r.start THEN Append(Front(out), <<Last(out)[1], r.end>>)
  ELSE Append(out, <<r.start, r.end>>)

(* One record more of the field: adjacent it prolongs the range, alone it  *)
(* is one.                                                                 *)
LEMMA OneRange ==
  ASSUME NEW a, NEW b, NEW c, NEW r, r.field = 1
  PROVE  /\ r.start = b /\ r.end = c => Extended(<<<<a, b>>>>, r, 1) = <<<<a, c>>>>
         /\ Extended(<<>>, r, 1) = <<<<r.start, r.end>>>>
<1>. DEFINE s == <<<<a, b>>>>
<1>1. s # <<>> /\ Last(s) = <<a, b>> /\ Front(s) = <<>>
  BY DEF Last, Front
<1>2. \A x : Append(<<>>, x) = <<x>>
  OBVIOUS
<1>3. <<a, b>>[1] = a /\ <<a, b>>[2] = b
  OBVIOUS
<1>. HIDE DEF s
<1>4. r.start = b /\ r.end = c => Extended(s, r, 1) = <<<<a, c>>>>
  BY <1>1, <1>2, <1>3 DEF Extended
<1>5. Extended(<<>>, r, 1) = <<<<r.start, r.end>>>>
  BY <1>2 DEF Extended
<1>. QED
  BY <1>4, <1>5 DEF s

(* The inserted elements are one range of a proof.                         *)
LEMMA RangesAre ==
  ASSUME NEW d, NEW K, NEW off, NEW fld, NEW lab, Laid(d, K, off, fld, lab), NEW m, InsertedFirst(K, fld, m)
  PROVE  FieldRanges(d, 1) = IF off[m] = 0 THEN <<>> ELSE <<<<0, off[m]>>>>
<1>. DEFINE F == RecordsOf(K, off, fld)
            G == CHOOSE f : IsRanging(f, F, 1)
            up(n) == IF n <= m THEN n ELSE m
            at(n) == IF up(n) = 0 THEN <<>> ELSE <<<<0, off[up(n)]>>>>
            g == [n \in 0 .. K |-> at(n)]
<1>1. /\ K \in Nat /\ m \in 0 .. K /\ off[0] = 0 /\ \A k \in 1 .. K : fld[k] = 1 <=> k <= m
  BY DEF Laid, InsertedFirst
<1>2. /\ Frames(d, 0, Len(d)) = F /\ Len(F) = K
      /\ \A k \in 1 .. K : F[k].field = fld[k] /\ F[k].start = off[k - 1] /\ F[k].end = off[k]
  BY LaidFrames
<1>. HIDE DEF F
<1>3. ASSUME NEW n \in 1 .. K PROVE Extended(at(n - 1), F[n], 1) = at(n)
  <2>1. CASE n > m
    <3>1. F[n].field # 1
      BY <1>1, <1>2, <2>1
    <3>2. up(n) = up(n - 1)
      BY <1>1, <2>1
    <3>. HIDE DEF up
    <3>. QED
      BY <3>1, <3>2 DEF Extended
  <2>2. CASE n <= m
    <3>0. n \in Nat /\ n # 0 /\ n - 1 <= m
      BY <1>1, <2>2
    <3>1. F[n].field = 1 /\ up(n) = n /\ up(n - 1) = n - 1 /\ n # 0
      <4>1. up(n) = n
        BY <2>2
      <4>2. up(n - 1) = n - 1
        BY <3>0
      <4>3. F[n].field = 1
        BY <1>1, <1>2, <2>2
      <4>. QED
        BY <3>0, <4>1, <4>2, <4>3
    <3>2. at(n) = <<<<0, off[n]>>>>
      BY <3>1
    <3>3. CASE n = 1
      <4>1. at(n - 1) = <<>> /\ F[n].start = 0 /\ F[n].end = off[n]
        BY <1>1, <1>2, <3>1, <3>3
      <4>. QED
        BY <3>1, <3>2, <4>1, OneRange
    <3>4. CASE n # 1
      <4>1. at(n - 1) = <<<<0, off[n - 1]>>>> /\ F[n].start = off[n - 1] /\ F[n].end = off[n]
        <5>1. n - 1 # 0
          BY <3>4
        <5>. HIDE DEF up
        <5>2. at(n - 1) = <<<<0, off[n - 1]>>>>
          BY <3>1, <5>1
        <5>. QED
          BY <1>2, <5>2
      <4>. HIDE DEF at
      <4>2. Extended(<<<<0, off[n - 1]>>>>, F[n], 1) = <<<<0, off[n]>>>>
        BY <3>1, <4>1, OneRange
      <4>. QED
        BY <3>2, <4>1, <4>2
    <3>. QED
      BY <3>3, <3>4
  <2>. QED
    BY <1>1, <2>1, <2>2
<1>4. at(0) = <<>>
  BY <1>1
<1>. HIDE DEF at
<1>5. IsRanging(g, F, 1)
  <2>1. \A n \in 0 .. K : at(n) = IF n = 0 THEN <<>> ELSE Extended(g[n - 1], F[n], 1)
    <3>1. SUFFICES ASSUME NEW n \in 0 .. K PROVE at(n) = IF n = 0 THEN <<>> ELSE Extended(g[n - 1], F[n], 1)
      BY Zenon
    <3>2. n # 0 => n \in 1 .. K /\ n - 1 \in 0 .. K
      BY <1>1
    <3>3. n # 0 => g[n - 1] = at(n - 1)
      BY <3>2
    <3>. HIDE DEF g
    <3>. QED
      BY <1>3, <1>4, <3>2, <3>3
  <2>2. g = [n \in 0 .. K |-> IF n = 0 THEN <<>> ELSE Extended(g[n - 1], F[n], 1)]
    BY <2>1, Zenon
  <2>. HIDE DEF g
  <2>. QED
    BY <1>2, <2>2, Zenon DEF IsRanging, Extended
<1>6. IsRanging(G, F, 1)
  BY <1>5, Zenon
<1>7. FieldRanges(d, 1) = G[K]
  BY <1>2, ZenonT(40) DEF FieldRanges, IsRanging
<1>. HIDE DEF G, g
<1>8. \A n \in 0 .. K : G[n] = IF n = 0 THEN <<>> ELSE Extended(G[n - 1], F[n], 1)
  BY <1>2, <1>6, Zenon DEF IsRanging, Extended
<1>9. \A n \in 0 .. K : G[n] = at(n)
  <2>. DEFINE T == {n \in 0 .. K : G[n] = at(n)}
  <2>1. 0 \in T
    BY <1>1, <1>4, <1>8
  <2>2. ASSUME NEW n \in 0 .. K - 1, n \in T PROVE n + 1 \in T
    <3>1. n + 1 \in 1 .. K /\ n + 1 \in 0 .. K /\ (n + 1) - 1 = n /\ n + 1 # 0
      BY <1>1
    <3>2. G[n] = at(n)
      BY <2>2
    <3>3. Extended(at((n + 1) - 1), F[n + 1], 1) = at(n + 1)
      BY <1>3, <3>1
    <3>4. G[n + 1] = Extended(G[(n + 1) - 1], F[n + 1], 1)
      BY <1>8, <3>1
    <3>. QED
      BY <3>1, <3>2, <3>3, <3>4
  <2>3. \A n \in 0 .. K : n \in T
    <3>. HIDE DEF T
    <3>. QED
      BY <1>1, <2>1, <2>2, Forwards
  <2>. QED
    BY <2>3
<1>10. at(K) = IF m = 0 THEN <<>> ELSE <<<<0, off[m]>>>>
  <2>1. up(K) = m
    BY <1>1
  <2>. HIDE DEF up
  <2>. QED
    BY <2>1 DEF at
<1>11. m = 0 <=> off[m] = 0
  <2>1. 0 \in 0 .. K /\ off[m] \in Nat /\ (0 < m => off[0] + 8 <= off[m])
    BY <1>1, LaidGrows
  <2>. QED
    BY <1>1, <2>1
<1>. QED
  <2>1. K \in 0 .. K
    BY <1>1
  <2>. QED
    BY <1>7, <1>9, <1>10, <1>11, <2>1

-----------------------------------------------------------------------------
(* Encodings put together.                                                 *)
LEMMA Joined ==
  ASSUME NEW a \in Encoding, NEW b \in Encoding
  PROVE  /\ a \o b \in Encoding /\ Len(a \o b) = Len(a) + Len(b)
         /\ \A i \in 1 .. Len(a) : (a \o b)[i] = a[i]
         /\ \A i \in 1 .. Len(b) : (a \o b)[Len(a) + i] = b[i]
<1>1. a \in Seq(Unit) /\ b \in Seq(Unit)
  BY DEF Encoding
<1>. DEFINE c == a \o b
<1>2. c \in Seq(Unit) /\ Len(c) = Len(a) + Len(b) /\ Len(a) \in Nat /\ Len(b) \in Nat
  BY <1>1
<1>3. \A i \in 1 .. Len(a) : c[i] = a[i]
  BY <1>1
<1>4. \A i \in 1 .. Len(b) : c[Len(a) + i] = b[i]
  BY <1>1
<1>. HIDE DEF c
<1>5. ASSUME NEW i \in 1 .. Len(c), c[i].kind = "size" PROVE c[i].n >= 0
  <2>1. CASE i <= Len(a)
    <3>1. i \in 1 .. Len(a)
      BY <1>2, <2>1
    <3>. QED
      BY <1>3, <1>5, <3>1 DEF Encoding
  <2>2. CASE ~ (i <= Len(a))
    <3>1. i - Len(a) \in 1 .. Len(b) /\ Len(a) + (i - Len(a)) = i
      BY <1>2, <2>2
    <3>2. c[i] = b[i - Len(a)]
      BY <1>4, <3>1
    <3>. QED
      BY <1>5, <3>1, <3>2 DEF Encoding
  <2>. QED
    BY <2>1, <2>2
<1>6. c \in Encoding
  BY <1>2, <1>5 DEF Encoding
<1>. QED
  BY <1>2, <1>3, <1>4, <1>6 DEF c

(* Two units make an encoding.                                             *)
LEMMA Pair ==
  ASSUME NEW u \in Unit, NEW v \in Unit, v.kind = "size" => v.n >= 0, u.kind # "size"
  PROVE  <<u, v>> \in Encoding /\ Len(<<u, v>>) = 2 /\ <<u, v>>[1] = u /\ <<u, v>>[2] = v
<1>. DEFINE s == <<u, v>>
<1>1. s \in Seq(Unit) /\ Len(s) = 2 /\ s[1] = u /\ s[2] = v
  OBVIOUS
<1>. HIDE DEF s
<1>2. \A i \in 1 .. Len(s) : i = 1 \/ i = 2
  BY <1>1
<1>3. s \in Encoding
  BY <1>1, <1>2 DEF Encoding
<1>. QED
  BY <1>1, <1>3 DEF s

(* The units that encodings are built from.                                *)
LEMMA UnitsAre ==
  /\ \A f, w \in Nat : Key(f, w) \in Unit /\ Key(f, w).kind = "key"
  /\ \A n \in Nat : /\ Size(n) \in Unit /\ Size(n).kind = "size" /\ Size(n).n = n
                    /\ Number(n) \in Unit /\ Number(n).kind = "number"
  /\ Payload \in Unit /\ Payload.kind = "payload"
BY DEF Key, Size, Number, Payload, Unit

(* A length-delimited field: key, size, body.                              *)
LEMMA DelimitedIs ==
  ASSUME NEW f \in Nat, NEW b \in Encoding
  PROVE  LET c == Delimited(f, b)
         IN /\ c \in Encoding /\ Len(c) = Len(b) + 2 /\ c[1] = Key(f, 2) /\ c[2] = Size(Len(b))
            /\ \A i \in 1 .. Len(b) : c[2 + i] = b[i]
<1>1. Len(b) \in Nat
  BY DEF Encoding
<1>. DEFINE h == <<Key(f, 2), Size(Len(b))>>
<1>2. h \in Encoding /\ Len(h) = 2 /\ h[1] = Key(f, 2) /\ h[2] = Size(Len(b))
  <2>1. PICK u, v : u = Key(f, 2) /\ v = Size(Len(b))
    OBVIOUS
  <2>2. u \in Unit /\ v \in Unit /\ u.kind # "size" /\ v.kind = "size" /\ v.n >= 0
    BY <1>1, <2>1, UnitsAre
  <2>. QED
    BY <2>1, <2>2, Pair
<1>. HIDE DEF h
<1>3. /\ h \o b \in Encoding /\ Len(h \o b) = 2 + Len(b)
      /\ \A i \in 1 .. 2 : (h \o b)[i] = h[i]
      /\ \A i \in 1 .. Len(b) : (h \o b)[2 + i] = b[i]
  <2>1. /\ h \o b \in Encoding /\ Len(h \o b) = Len(h) + Len(b)
        /\ \A i \in 1 .. Len(h) : (h \o b)[i] = h[i]
        /\ \A i \in 1 .. Len(b) : (h \o b)[Len(h) + i] = b[i]
    BY <1>2, Joined, Zenon
  <2>. QED
    BY <1>2, <2>1, Zenon
<1>4. Delimited(f, b) = h \o b
  BY DEF Delimited, h
<1>. QED
  BY <1>1, <1>2, <1>3, <1>4

(* A piece of payload.                                                     *)
LEMMA PayloadUnits ==
  ASSUME NEW n \in Nat
  PROVE  Units(n) \in Encoding /\ Len(Units(n)) = n /\ \A i \in 1 .. n : Units(n)[i].kind = "payload"
<1>1. Units(n) = [i \in 1 .. n |-> Payload]
  BY DEF Units
<1>2. Units(n) \in Seq(Unit) /\ Len(Units(n)) = n /\ \A i \in 1 .. n : Units(n)[i] = Payload
  BY <1>1, UnitsAre
<1>. QED
  BY <1>2, UnitsAre DEF Encoding

(* An element, as it is put together, lies as one does.                    *)
LabelOf(l) == (IF l = 0 THEN <<>> ELSE Delimited(1, Units(l))) \o <<Key(2, 0), Number(l)>>

(* The label of an element, as it is put together, lies as one does.       *)
LEMMA LabelOfIs ==
  ASSUME NEW l \in Nat
  PROVE  LabelOf(l) \in Encoding /\ Len(LabelOf(l)) = LabelPart(l) /\ LabelAt(LabelOf(l), 0, l)
<1>. DEFINE a == IF l = 0 THEN <<>> ELSE Delimited(1, Units(l))
            b == <<Key(2, 0), Number(l)>>
            n == LabelPart(l)
<1>1. b \in Encoding /\ Len(b) = 2 /\ b[1] = Key(2, 0) /\ b[2] = Number(l)
  <2>1. PICK u, v : u = Key(2, 0) /\ v = Number(l)
    OBVIOUS
  <2>2. u \in Unit /\ v \in Unit /\ u.kind # "size" /\ v.kind # "size"
    BY <2>1, UnitsAre
  <2>. QED
    BY <2>1, <2>2, Pair
<1>2. /\ a \in Encoding /\ Len(a) = n - 2 /\ n \in Nat /\ n >= 2
      /\ l # 0 => a[1] = Key(1, 2) /\ a[2] = Size(l) /\ PayloadAt(a, 2, l) /\ n = l + 4
  <2>1. CASE l = 0
    <3>1. <<>> \in Encoding /\ Len(<<>>) = 0
      BY DEF Encoding
    <3>. QED
      BY <2>1, <3>1 DEF LabelPart
  <2>2. CASE l # 0
    <3>1. /\ Delimited(1, Units(l)) \in Encoding /\ Len(Delimited(1, Units(l))) = l + 2
          /\ Delimited(1, Units(l))[1] = Key(1, 2) /\ Delimited(1, Units(l))[2] = Size(l)
          /\ \A i \in 1 .. l : Delimited(1, Units(l))[2 + i].kind = "payload"
      <4>1. PICK u : u = Units(l)
        OBVIOUS
      <4>2. u \in Encoding /\ Len(u) = l /\ \A i \in 1 .. l : u[i].kind = "payload"
        BY <4>1, PayloadUnits
      <4>3. /\ Delimited(1, u) \in Encoding /\ Len(Delimited(1, u)) = Len(u) + 2
            /\ Delimited(1, u)[1] = Key(1, 2) /\ Delimited(1, u)[2] = Size(Len(u))
            /\ \A i \in 1 .. Len(u) : Delimited(1, u)[2 + i] = u[i]
        BY <4>2, 1 \in Nat, DelimitedIs
      <4>. QED
        BY <4>1, <4>2, <4>3
    <3>2. n = l + 4
      BY <2>2 DEF LabelPart
    <3>. QED
      BY <2>2, <3>1, <3>2 DEF PayloadAt
  <2>. QED
    BY <2>1, <2>2
<1>. HIDE DEF a, b, n
<1>3. /\ a \o b \in Encoding /\ Len(a \o b) = Len(a) + 2
      /\ \A i \in 1 .. Len(a) : (a \o b)[i] = a[i]
      /\ \A i \in 1 .. 2 : (a \o b)[Len(a) + i] = b[i]
  <2>1. /\ a \o b \in Encoding /\ Len(a \o b) = Len(a) + Len(b)
        /\ \A i \in 1 .. Len(a) : (a \o b)[i] = a[i]
        /\ \A i \in 1 .. Len(b) : (a \o b)[Len(a) + i] = b[i]
    BY <1>1, <1>2, Joined, Zenon
  <2>. QED
    BY <1>1, <2>1, Zenon
<1>4. PICK w : w = a \o b
  OBVIOUS
<1>5. w \in Encoding /\ Len(w) = n
  BY <1>2, <1>3, <1>4
<1>6. w[0 + n - 1] = Key(2, 0) /\ w[0 + n] = Number(l)
  <2>1. Len(a) + 1 = 0 + n - 1 /\ Len(a) + 2 = 0 + n /\ 1 \in 1 .. 2 /\ 2 \in 1 .. 2
    BY <1>2
  <2>. QED
    BY <1>1, <1>3, <1>4, <2>1
<1>7. ASSUME l # 0 PROVE w[0 + 1] = Key(1, 2) /\ w[0 + 2] = Size(l) /\ PayloadAt(w, 0 + 2, l)
  <2>1. 1 \in 1 .. Len(a) /\ 2 \in 1 .. Len(a) /\ \A j \in 1 .. l : 2 + j \in 1 .. Len(a)
    BY <1>2, <1>7
  <2>2. \A j \in 1 .. l : w[2 + j] = a[2 + j]
    BY <1>3, <1>4, <2>1
  <2>3. \A j \in 1 .. l : a[2 + j].kind = "payload"
    BY <1>2, <1>7 DEF PayloadAt
  <2>4. PayloadAt(w, 0 + 2, l)
    BY <2>2, <2>3 DEF PayloadAt
  <2>. QED
    BY <1>2, <1>3, <1>4, <1>7, <2>1, <2>4
<1>8. LabelAt(w, 0, l)
  BY <1>6, <1>7 DEF LabelAt, n
<1>. QED
  BY <1>4, <1>5, <1>8 DEF LabelOf, a, b, n

(* It does wherever it is put.                                             *)
LEMMA LabelMoved ==
  ASSUME NEW d, NEW l \in Nat, LabelAt(d, 0, l), NEW e, NEW p \in Nat, \A i \in 1 .. LabelPart(l) : e[p + i] = d[i]
  PROVE  LabelAt(e, p, l)
<1>. DEFINE n == LabelPart(l)
<1>1. n \in Nat /\ n >= 2 /\ (l # 0 => n = l + 4)
  BY PartsAreNumbers DEF LabelPart
<1>2. e[p + n - 1] = Key(2, 0) /\ e[p + n] = Number(l)
  <2>1. n - 1 \in 1 .. n /\ n \in 1 .. n /\ p + (n - 1) = p + n - 1 /\ 0 + n - 1 = n - 1 /\ 0 + n = n
    BY <1>1
  <2>. QED
    BY <2>1 DEF LabelAt
<1>3. ASSUME l # 0 PROVE e[p + 1] = Key(1, 2) /\ e[p + 2] = Size(l) /\ PayloadAt(e, p + 2, l)
  <2>1. 1 \in 1 .. n /\ 2 \in 1 .. n /\ 0 + 1 = 1 /\ 0 + 2 = 2
    BY <1>1, <1>3
  <2>2. \A j \in 1 .. l : 2 + j \in 1 .. n /\ p + 2 + j = p + (2 + j)
    BY <1>1, <1>3
  <2>3. \A j \in 1 .. l : d[2 + j].kind = "payload"
    BY <1>3, <2>1 DEF LabelAt, PayloadAt
  <2>4. \A j \in 1 .. l : e[p + 2 + j].kind = "payload"
    BY <2>2, <2>3
  <2>5. d[1] = Key(1, 2) /\ d[2] = Size(l)
    BY <1>3, <2>1 DEF LabelAt
  <2>. QED
    BY <2>1, <2>4, <2>5 DEF PayloadAt
<1>. QED
  BY <1>2, <1>3 DEF LabelAt

BodyUnits(l) == Delimited(1, LabelOf(l)) \o Delimited(2, Units(ValueUnits))

(* So does the body of an element.                                         *)
LEMMA BodyUnitsAre ==
  ASSUME NEW l \in Nat
  PROVE  BodyUnits(l) \in Encoding /\ Len(BodyUnits(l)) = BodyPart(l) /\ BodyAt(BodyUnits(l), 0, l)
<1>. DEFINE n == LabelPart(l)
<1>1. ValueUnits \in Nat /\ n \in Nat /\ n >= 2 /\ BodyPart(l) = n + ValueUnits + 4
  BY StreamNumbers, PartsAreNumbers
<1>2. PICK x, y, a, b, w : /\ x = LabelOf(l) /\ y = Units(ValueUnits)
                           /\ a = Delimited(1, x) /\ b = Delimited(2, y) /\ w = a \o b
  OBVIOUS
<1>. HIDE DEF n
<1>3. x \in Encoding /\ Len(x) = n /\ LabelAt(x, 0, l)
  BY <1>2, LabelOfIs DEF n
<1>4. y \in Encoding /\ Len(y) = ValueUnits /\ \A i \in 1 .. ValueUnits : y[i].kind = "payload"
  BY <1>1, <1>2, PayloadUnits
<1>5. /\ a \in Encoding /\ Len(a) = n + 2 /\ a[1] = Key(1, 2) /\ a[2] = Size(n)
      /\ \A i \in 1 .. n : a[2 + i] = x[i]
  <2>1. /\ Delimited(1, x) \in Encoding /\ Len(Delimited(1, x)) = Len(x) + 2
        /\ Delimited(1, x)[1] = Key(1, 2) /\ Delimited(1, x)[2] = Size(Len(x))
        /\ \A i \in 1 .. Len(x) : Delimited(1, x)[2 + i] = x[i]
    BY <1>3, 1 \in Nat, DelimitedIs
  <2>. QED
    BY <1>2, <1>3, <2>1
<1>6. /\ b \in Encoding /\ Len(b) = ValueUnits + 2 /\ b[1] = Key(2, 2) /\ b[2] = Size(ValueUnits)
      /\ \A i \in 1 .. ValueUnits : b[2 + i] = y[i]
  <2>1. /\ Delimited(2, y) \in Encoding /\ Len(Delimited(2, y)) = Len(y) + 2
        /\ Delimited(2, y)[1] = Key(2, 2) /\ Delimited(2, y)[2] = Size(Len(y))
        /\ \A i \in 1 .. Len(y) : Delimited(2, y)[2 + i] = y[i]
    BY <1>4, 2 \in Nat, DelimitedIs
  <2>. QED
    BY <1>2, <1>4, <2>1
<1>7. /\ w \in Encoding /\ Len(w) = Len(a) + Len(b)
      /\ \A i \in 1 .. Len(a) : w[i] = a[i]
      /\ \A i \in 1 .. Len(b) : w[Len(a) + i] = b[i]
  <2>1. /\ a \o b \in Encoding /\ Len(a \o b) = Len(a) + Len(b)
        /\ \A i \in 1 .. Len(a) : (a \o b)[i] = a[i]
        /\ \A i \in 1 .. Len(b) : (a \o b)[Len(a) + i] = b[i]
    BY <1>5, <1>6, Joined, Zenon
  <2>. QED
    BY <1>2, <2>1, Zenon
<1>8. Len(w) = BodyPart(l)
  BY <1>1, <1>5, <1>6, <1>7
<1>9. w[0 + 1] = Key(1, 2) /\ w[0 + 2] = Size(n)
  BY <1>1, <1>5, <1>7
<1>10. LabelAt(w, 0 + 2, l)
  <2>1. \A i \in 1 .. n : 2 + i \in 1 .. Len(a)
    BY <1>1, <1>5
  <2>2. \A i \in 1 .. n : w[2 + i] = x[i]
    BY <1>5, <1>7, <2>1
  <2>. QED
    BY <1>3, <2>2, LabelMoved DEF n
<1>11. w[0 + n + 3] = Key(2, 2) /\ w[0 + n + 4] = Size(ValueUnits)
  <2>1. 0 + n + 3 = Len(a) + 1 /\ 0 + n + 4 = Len(a) + 2 /\ 1 \in 1 .. Len(b) /\ 2 \in 1 .. Len(b)
    BY <1>1, <1>5, <1>6
  <2>. QED
    BY <1>6, <1>7, <2>1
<1>12. PayloadAt(w, 0 + n + 4, ValueUnits)
  <2>1. \A j \in 1 .. ValueUnits : 0 + n + 4 + j = Len(a) + (2 + j) /\ 2 + j \in 1 .. Len(b)
    BY <1>1, <1>5, <1>6
  <2>2. \A j \in 1 .. ValueUnits : w[0 + n + 4 + j].kind = "payload"
    BY <1>4, <1>6, <1>7, <2>1
  <2>. QED
    BY <2>2 DEF PayloadAt
<1>13. BodyAt(w, 0, l)
  BY <1>9, <1>10, <1>11, <1>12 DEF BodyAt, n
<1>. QED
  BY <1>2, <1>7, <1>8, <1>13 DEF BodyUnits

(* So does the element.                                                    *)
LEMMA ElementIs ==
  ASSUME NEW f \in {1, 2, 3}, NEW l \in Nat
  PROVE  LET w == ElementOf(f, l)
         IN w \in Encoding /\ Len(w) = ElementPart(l) /\ ElementAt(w, 0, f, l)
<1>1. PICK b, w : b = BodyUnits(l) /\ w = Delimited(f, b)
  OBVIOUS
<1>2. b \in Encoding /\ Len(b) = BodyPart(l) /\ BodyAt(b, 0, l)
  BY <1>1, BodyUnitsAre
<1>3. /\ w \in Encoding /\ Len(w) = BodyPart(l) + 2 /\ w[1] = Key(f, 2) /\ w[2] = Size(BodyPart(l))
      /\ \A i \in 1 .. BodyPart(l) : w[2 + i] = b[i]
  <2>1. f \in Nat
    OBVIOUS
  <2>2. /\ Delimited(f, b) \in Encoding /\ Len(Delimited(f, b)) = Len(b) + 2
        /\ Delimited(f, b)[1] = Key(f, 2) /\ Delimited(f, b)[2] = Size(Len(b))
        /\ \A i \in 1 .. Len(b) : Delimited(f, b)[2 + i] = b[i]
    BY <1>2, <2>1, DelimitedIs
  <2>. QED
    BY <1>1, <1>2, <2>2
<1>4. BodyAt(w, 0 + 2, l)
  <2>1. \A i \in 1 .. BodyPart(l) : Alike(b[0 + i], w[2 + i])
    <3>1. \A i \in 1 .. BodyPart(l) : 0 + i = i
      BY <1>2
    <3>. QED
      BY <1>3, <3>1 DEF Alike
  <2>2. 0 \in Nat /\ 2 \in Nat /\ 0 + 2 = 2
    OBVIOUS
  <2>. QED
    BY <1>2, <2>1, <2>2, BodyKept
<1>5. ElementAt(w, 0, f, l)
  BY <1>3, <1>4 DEF ElementAt
<1>6. ElementPart(l) = BodyPart(l) + 2
  BY DEF ElementPart
<1>7. w = ElementOf(f, l)
  BY <1>1, Zenon DEF ElementOf, BodyUnits, LabelOf
<1>. QED
  BY <1>3, <1>5, <1>6, <1>7

(* An element does wherever it is put and whatever its payload.            *)
LEMMA ElementMoved ==
  ASSUME NEW d, NEW f, NEW l \in Nat, ElementAt(d, 0, f, l), NEW e, NEW p \in Nat,
         \A i \in 1 .. ElementPart(l) : Alike(d[i], e[p + i])
  PROVE  ElementAt(e, p, f, l)
<1>1. ElementPart(l) = BodyPart(l) + 2 /\ BodyPart(l) \in Nat
  BY PartsAreNumbers
<1>2. d[1] = Key(f, 2) /\ d[2] = Size(BodyPart(l)) /\ BodyAt(d, 2, l)
  <2>1. 0 + 1 = 1 /\ 0 + 2 = 2
    OBVIOUS
  <2>. QED
    BY <2>1 DEF ElementAt
<1>3. e[p + 1] = d[1] /\ e[p + 2] = d[2]
  <2>1. 1 \in 1 .. ElementPart(l) /\ 2 \in 1 .. ElementPart(l)
    BY <1>1
  <2>. QED
    BY <1>2, <2>1, KindsDiffer, FramingIsNoPayload
<1>4. \A i \in 1 .. BodyPart(l) : Alike(d[2 + i], e[(p + 2) + i])
  <2>1. SUFFICES ASSUME NEW i \in 1 .. BodyPart(l) PROVE Alike(d[2 + i], e[(p + 2) + i])
    BY Zenon
  <2>2. 2 + i \in 1 .. ElementPart(l) /\ (p + 2) + i = p + (2 + i)
    BY <1>1
  <2>. QED
    BY <2>2
<1>5. BodyAt(e, p + 2, l)
  BY <1>2, <1>4, p + 2 \in Nat, 2 \in Nat, BodyKept
<1>. QED
  BY <1>2, <1>3, <1>5 DEF ElementAt

-----------------------------------------------------------------------------
(* FlattenSeq: what comes of putting sequences together one by one.        *)
IsFlattening(f, seqs) ==
  f = [i \in 1 .. Len(seqs) |-> IF i = 1 THEN seqs[i] ELSE f[i - 1] \o seqs[i]]

(* There is such a function.                                               *)
LEMMA FlatteningExists ==
  ASSUME NEW seqs, Len(seqs) \in Nat
  PROVE  \E f : IsFlattening(f, seqs)
<1>. DEFINE N == Len(seqs)
            upTo(f, n) == f = [i \in 1 .. n |-> IF i = 1 THEN seqs[i] ELSE f[i - 1] \o seqs[i]]
            T == {n \in 0 .. N : \E f : upTo(f, n)}
<1>1. 0 \in T
  <2>. DEFINE f == [i \in 1 .. 0 |-> seqs[i]]
  <2>1. f = [i \in 1 .. 0 |-> IF i = 1 THEN seqs[i] ELSE f[i - 1] \o seqs[i]]
    <3>1. \A i \in 1 .. 0 : FALSE
      OBVIOUS
    <3>. QED
      BY <3>1
  <2>. HIDE DEF f
  <2>2. \E h : upTo(h, 0)
    BY <2>1
  <2>. HIDE DEF upTo
  <2>. QED
    BY <2>2
<1>2. ASSUME NEW n \in 0 .. N - 1, n \in T PROVE n + 1 \in T
  <2>1. PICK f : upTo(f, n)
    BY <1>2
  <2>. DEFINE g == [i \in 1 .. n + 1 |-> IF i \in 1 .. n THEN f[i] ELSE IF i = 1 THEN seqs[i] ELSE f[i - 1] \o seqs[i]]
  <2>2. \A i \in 1 .. n : f[i] = IF i = 1 THEN seqs[i] ELSE f[i - 1] \o seqs[i]
    BY <2>1
  <2>3. \A i \in 1 .. n : g[i] = f[i]
    OBVIOUS
  <2>4. \A i \in 1 .. n + 1 : i # 1 => i - 1 \in 1 .. n
    OBVIOUS
  <2>5. \A i \in 1 .. n + 1 : (IF i \in 1 .. n THEN f[i] ELSE IF i = 1 THEN seqs[i] ELSE f[i - 1] \o seqs[i])
                              = IF i = 1 THEN seqs[i] ELSE g[i - 1] \o seqs[i]
    <3>1. SUFFICES ASSUME NEW i \in 1 .. n + 1
                   PROVE (IF i \in 1 .. n THEN f[i] ELSE IF i = 1 THEN seqs[i] ELSE f[i - 1] \o seqs[i])
                              = IF i = 1 THEN seqs[i] ELSE g[i - 1] \o seqs[i]
      BY Zenon
    <3>2. i # 1 => g[i - 1] = f[i - 1]
      BY <2>3, <2>4
    <3>. HIDE DEF g
    <3>. QED
      BY <2>2, <3>2
  <2>6. g = [i \in 1 .. n + 1 |-> IF i = 1 THEN seqs[i] ELSE g[i - 1] \o seqs[i]]
    BY <2>5, Zenon
  <2>. HIDE DEF g
  <2>7. n + 1 \in 0 .. N
    OBVIOUS
  <2>. QED
    BY <2>6, <2>7
<1>3. N \in T
  <2>1. \A n \in 0 .. N : n \in T
    <3>. HIDE DEF T
    <3>. QED
      BY <1>1, <1>2, Forwards
  <2>2. N \in 0 .. N
    OBVIOUS
  <2>. QED
    BY <2>1, <2>2, Zenon
<1>. QED
  BY <1>3, Zenon DEF IsFlattening

(* FlattenSeq is its last value.                                           *)
LEMMA FlattenIs ==
  ASSUME NEW seqs, Len(seqs) \in Nat \ {0}
  PROVE  \E f : /\ FlattenSeq(seqs) = f[Len(seqs)]
                /\ \A i \in 1 .. Len(seqs) : f[i] = IF i = 1 THEN seqs[i] ELSE f[i - 1] \o seqs[i]
<1>. DEFINE F == CHOOSE f : IsFlattening(f, seqs)
<1>1. IsFlattening(F, seqs)
  BY FlatteningExists, Zenon
<1>2. FlattenSeq(seqs) = F[Len(seqs)]
  <2>1. Len(seqs) # 0
    OBVIOUS
  <2>. QED
    BY <2>1, Zenon DEF FlattenSeq, IsFlattening
<1>. HIDE DEF F
<1>3. \A i \in 1 .. Len(seqs) : F[i] = IF i = 1 THEN seqs[i] ELSE F[i - 1] \o seqs[i]
  BY <1>1, Zenon DEF IsFlattening
<1>. QED
  BY <1>2, <1>3, Zenon

(* Elements put together lie in a row.                                     *)
LEMMA Assembled ==
  ASSUME NEW K \in Nat, NEW fld \in [1 .. K -> {1, 2}], NEW lab \in [1 .. K -> 0 .. LabelUnits],
         NEW seqs, Len(seqs) = K, K = 0 => seqs = <<>>, \A k \in 1 .. K : seqs[k] = ElementOf(fld[k], lab[k])
  PROVE  \E off : Laid(FlattenSeq(seqs), K, off, fld, lab)
<1>1. CASE K = 0
  <2>. DEFINE off == [k \in 0 .. 0 |-> 0]
  <2>1. FlattenSeq(seqs) = <<>> /\ <<>> \in Encoding /\ Len(<<>>) = 0
    BY <1>1 DEF FlattenSeq, Encoding
  <2>2. off \in [0 .. 0 -> Nat] /\ off[0] = 0
    OBVIOUS
  <2>3. \A k \in 1 .. 0 : FALSE
    OBVIOUS
  <2>. HIDE DEF off
  <2>4. Laid(<<>>, K, off, fld, lab)
    BY <1>1, <2>1, <2>2, <2>3 DEF Laid
  <2>. QED
    BY <2>1, <2>4
<1>2. CASE K # 0
  <2>1. PICK f : /\ FlattenSeq(seqs) = f[K]
                 /\ \A i \in 1 .. K : f[i] = IF i = 1 THEN seqs[i] ELSE f[i - 1] \o seqs[i]
    <3>1. Len(seqs) \in Nat \ {0}
      BY <1>2
    <3>2. \E f : /\ FlattenSeq(seqs) = f[Len(seqs)]
                 /\ \A i \in 1 .. Len(seqs) : f[i] = IF i = 1 THEN seqs[i] ELSE f[i - 1] \o seqs[i]
      BY <3>1, FlattenIs, Zenon
    <3>. QED
      BY <3>2, Zenon
  <2>. DEFINE off == [k \in 0 .. K |-> IF k = 0 THEN 0 ELSE Len(f[k])]
              fits(k, h) == /\ off[h] \in Nat /\ off[h - 1] \in Nat /\ off[h] <= Len(f[k])
                            /\ off[h] = off[h - 1] + ElementPart(lab[h])
                            /\ ElementAt(f[k], off[h - 1], fld[h], lab[h])
              is(k) == f[k] \in Encoding /\ \A h \in 1 .. k : fits(k, h)
              T == {k \in 0 .. K : k = 0 \/ is(k)}
  <2>2. \A k \in 1 .. K : /\ seqs[k] \in Encoding /\ Len(seqs[k]) = ElementPart(lab[k])
                          /\ ElementAt(seqs[k], 0, fld[k], lab[k]) /\ lab[k] \in Nat /\ ElementPart(lab[k]) \in Nat
    <3>1. SUFFICES ASSUME NEW k \in 1 .. K
                   PROVE  /\ seqs[k] \in Encoding /\ Len(seqs[k]) = ElementPart(lab[k])
                          /\ ElementAt(seqs[k], 0, fld[k], lab[k]) /\ lab[k] \in Nat /\ ElementPart(lab[k]) \in Nat
      BY Zenon
    <3>2. PICK x, l : x = fld[k] /\ l = lab[k]
      OBVIOUS
    <3>3. x \in {1, 2, 3} /\ l \in Nat
      BY <3>2, LabelsAreNat
    <3>4. seqs[k] = ElementOf(x, l)
      BY <3>2
    <3>5. ElementOf(x, l) \in Encoding /\ Len(ElementOf(x, l)) = ElementPart(l) /\ ElementAt(ElementOf(x, l), 0, x, l)
      BY <3>3, ElementIs
    <3>6. ElementPart(l) \in Nat
      BY <3>3, PartsAreNumbers
    <3>. QED
      BY <3>2, <3>3, <3>4, <3>5, <3>6
  <2>3. off[0] = 0 /\ \A k \in 1 .. K : off[k] = Len(f[k])
    OBVIOUS
  <2>. HIDE DEF off
  <2>4. ASSUME NEW k \in 0 .. K - 1, k \in T PROVE k + 1 \in T
    <3>1. k + 1 \in 0 .. K /\ k + 1 \in 1 .. K /\ (k + 1) - 1 = k
      OBVIOUS
    <3>2. CASE k = 0
      <4>1. f[1] = seqs[1] /\ 1 \in 1 .. K
        BY <2>1, <3>1, <3>2
      <4>2. f[1] \in Encoding /\ fits(1, 1)
        <5>1. 1 - 1 = 0 /\ Len(f[1]) = ElementPart(lab[1]) /\ ElementPart(lab[1]) \in Nat
          BY <2>2, <4>1
        <5>. QED
          BY <2>2, <2>3, <4>1, <5>1
      <4>3. \A h \in 1 .. 1 : h = 1
        OBVIOUS
      <4>4. is(1)
        BY <4>2, <4>3
      <4>. HIDE DEF is
      <4>. QED
        BY <3>1, <3>2, <4>4
    <3>3. CASE k # 0
      <4>1. is(k) /\ k \in 1 .. K
        BY <2>4, <3>3
      <4>2. f[k + 1] = f[k] \o seqs[k + 1]
        <5>1. k + 1 # 1
          BY <3>3
        <5>. QED
          BY <2>1, <3>1, <5>1
      <4>3. PICK a, b, c, x, l : a = f[k] /\ b = seqs[k + 1] /\ c = f[k + 1] /\ x = fld[k + 1] /\ l = lab[k + 1]
        OBVIOUS
      <4>4. /\ a \in Encoding /\ b \in Encoding /\ Len(b) = ElementPart(l) /\ ElementAt(b, 0, x, l) /\ l \in Nat
            /\ ElementPart(l) \in Nat
        BY <2>2, <3>1, <4>1, <4>3
      <4>5. /\ c \in Encoding /\ Len(c) = Len(a) + Len(b)
            /\ \A i \in 1 .. Len(a) : c[i] = a[i]
            /\ \A i \in 1 .. Len(b) : c[Len(a) + i] = b[i]
        <5>1. /\ a \o b \in Encoding /\ Len(a \o b) = Len(a) + Len(b)
              /\ \A i \in 1 .. Len(a) : (a \o b)[i] = a[i]
              /\ \A i \in 1 .. Len(b) : (a \o b)[Len(a) + i] = b[i]
          BY <4>4, Joined, Zenon
        <5>. QED
          BY <4>2, <4>3, <5>1, Zenon
      <4>6. Len(a) \in Nat /\ Len(c) = Len(a) + ElementPart(l) /\ off[k] = Len(a) /\ off[k + 1] = Len(c)
        <5>1. Len(a) \in Nat
          BY <4>4 DEF Encoding
        <5>. QED
          BY <2>3, <3>1, <4>1, <4>3, <4>4, <4>5, <5>1
      <4>7. fits(k + 1, k + 1)
        <5>1. \A i \in 1 .. ElementPart(l) : Alike(b[i], c[Len(a) + i])
          BY <4>4, <4>5 DEF Alike
        <5>2. ElementAt(c, Len(a), x, l)
          BY <4>4, <4>6, <5>1, ElementMoved
        <5>. QED
          BY <3>1, <4>3, <4>4, <4>6, <5>2
      <4>8. ASSUME NEW h \in 1 .. k PROVE fits(k + 1, h)
        <5>1. fits(k, h)
          BY <4>1
        <5>2. PICK o, p, y, m : o = off[h - 1] /\ p = off[h] /\ y = fld[h] /\ m = lab[h]
          OBVIOUS
        <5>3. o \in Nat /\ p \in Nat /\ p <= Len(a) /\ p = o + ElementPart(m) /\ ElementAt(a, o, y, m)
          BY <4>3, <5>1, <5>2
        <5>4. m \in Nat /\ ElementPart(m) \in Nat
          BY <2>2, <4>1, <5>2
        <5>5. \A i \in 1 .. ElementPart(m) : o + i \in 1 .. Len(a)
          BY <4>6, <5>3, <5>4
        <5>6. \A i \in 1 .. ElementPart(m) : Alike(a[o + i], c[o + i])
          BY <4>5, <5>5 DEF Alike
        <5>7. ElementAt(c, o, y, m)
          BY <5>3, <5>4, <5>6, ElementKept
        <5>8. p <= Len(c)
          BY <4>4, <4>6, <5>3
        <5>. QED
          BY <4>3, <5>2, <5>3, <5>7, <5>8
      <4>9. is(k + 1)
        <5>1. \A h \in 1 .. k + 1 : h \in 1 .. k \/ h = k + 1
          OBVIOUS
        <5>2. f[k + 1] \in Encoding
          BY <4>3, <4>5
        <5>. HIDE DEF fits
        <5>. QED
          BY <4>7, <4>8, <5>1, <5>2
      <4>. HIDE DEF is
      <4>. QED
        BY <3>1, <4>9
    <3>. QED
      BY <3>2, <3>3
  <2>5. is(K)
    <3>1. 0 \in T
      OBVIOUS
    <3>2. \A k \in 0 .. K : k \in T
      <4>. HIDE DEF T
      <4>. QED
        BY <2>4, <3>1, Forwards
    <3>. HIDE DEF is
    <3>. QED
      BY <1>2, <3>2
  <2>6. off \in [0 .. K -> Nat]
    <3>1. \A k \in 0 .. K : off[k] \in Nat
      <4>1. \A k \in 0 .. K : k = 0 \/ k \in 1 .. K
        OBVIOUS
      <4>2. \A k \in 1 .. K : off[k] \in Nat
        BY <2>5
      <4>. QED
        BY <2>3, <4>1, <4>2
    <3>. QED
      BY <3>1 DEF off
  <2>7. off[K] = Len(f[K])
    BY <1>2, <2>3
  <2>8. Laid(f[K], K, off, fld, lab)
    BY <2>3, <2>5, <2>6, <2>7 DEF Laid
  <2>. QED
    BY <2>1, <2>8
<1>. QED
  BY <1>1, <1>2

-----------------------------------------------------------------------------
(* Every proof is elements in a row, the inserted ones first, and no two   *)
(* of its payload units are one.                                           *)
LEMMA NumberedIs ==
  ASSUME NEW d \in Encoding
  PROVE  LET e == Numbered(d)
         IN /\ e \in Encoding /\ Len(e) = Len(d) /\ \A i \in 1 .. Len(d) : Alike(d[i], e[i])
            /\ \A i \in 1 .. Len(d) : e[i].kind = "payload" => e[i].n = i
            /\ \A i \in 1 .. Len(d) : e[i].kind # "payload" => e[i] = d[i]
<1>. DEFINE at(i) == IF d[i].kind = "payload" THEN [d[i] EXCEPT !.n = i] ELSE d[i]
<1>1. d \in Seq(Unit) /\ DOMAIN d = 1 .. Len(d) /\ Len(d) \in Nat
  BY DEF Encoding
<1>2. Numbered(d) = [i \in 1 .. Len(d) |-> at(i)]
  BY <1>1, Zenon DEF Numbered
<1>3. ASSUME NEW i \in 1 .. Len(d)
      PROVE  /\ at(i) \in Unit /\ Alike(d[i], at(i)) /\ (at(i).kind = "payload" => at(i).n = i)
             /\ (at(i).kind # "payload" => at(i) = d[i]) /\ (at(i).kind = "size" => at(i).n >= 0)
  <2>1. PICK u : u = d[i]
    OBVIOUS
  <2>2. u \in Unit /\ (u.kind = "size" => u.n >= 0)
    BY <1>1, <2>1 DEF Encoding
  <2>3. at(i) = IF u.kind = "payload" THEN [u EXCEPT !.n = i] ELSE u
    BY <2>1
  <2>. HIDE DEF at
  <2>4. CASE u.kind = "payload"
    <3>1. at(i) = [kind |-> "payload", n |-> i] /\ i \in Int
      BY <1>1, <2>2, <2>3, <2>4 DEF Unit
    <3>2. at(i) \in Unit /\ at(i).kind = "payload" /\ at(i).n = i
      BY <3>1 DEF Unit
    <3>. QED
      BY <2>1, <2>4, <3>2 DEF Alike
  <2>5. CASE u.kind # "payload"
    BY <2>1, <2>2, <2>3, <2>5 DEF Alike
  <2>. QED
    BY <2>4, <2>5
<1>. HIDE DEF at
<1>4. PICK e : e = Numbered(d)
  OBVIOUS
<1>5. e \in Seq(Unit) /\ Len(e) = Len(d) /\ \A i \in 1 .. Len(d) : e[i] = at(i)
  BY <1>1, <1>2, <1>3, <1>4
<1>6. e \in Encoding
  BY <1>3, <1>5 DEF Encoding
<1>. QED
  BY <1>3, <1>4, <1>5, <1>6

IsProof(e, K, off, fld, lab, m) ==
  /\ Laid(e, K, off, fld, lab) /\ InsertedFirst(K, fld, m)
  /\ \A i \in 1 .. Len(e) : e[i].kind = "payload" => e[i].n = i

(* Every proof that Proofs lists is of this shape.                         *)
LEMMA ProofShape ==
  ASSUME NEW e \in Proofs
  PROVE  \E K, off, fld, lab, m : IsProof(e, K, off, fld, lab, m)
<1>1. PICK i \in BoundedSeq(LabelLengths, MaxInserted), u \in BoundedSeq(LabelLengths, MaxUnchanged) : e = ProofOf(i, u)
  BY DEF Proofs
<1>2. PICK p \in Nat : i \in [1 .. p -> 0 .. LabelUnits]
  BY StreamNumbers DEF BoundedSeq, SeqOf, LabelLengths
<1>3. PICK q \in Nat : u \in [1 .. q -> 0 .. LabelUnits]
  BY StreamNumbers DEF BoundedSeq, SeqOf, LabelLengths
<1>. DEFINE A == [k \in 1 .. p |-> ElementOf(1, i[k])]
            B == [k \in 1 .. q |-> ElementOf(2, u[k])]
            S == {ElementOf(f, l) : f \in {1, 2}, l \in 0 .. LabelUnits}
            fld == [k \in 1 .. p + q |-> IF k <= p THEN 1 ELSE 2]
            lab == [k \in 1 .. p + q |-> IF k <= p THEN i[k] ELSE u[k - p]]
<1>4. /\ A \in Seq(S) /\ Len(A) = p /\ \A k \in 1 .. p : A[k] = ElementOf(1, i[k])
      /\ B \in Seq(S) /\ Len(B) = q /\ \A k \in 1 .. q : B[k] = ElementOf(2, u[k])
  <2>1. /\ \A k \in 1 .. p : ElementOf(1, i[k]) \in S
        /\ \A k \in 1 .. q : ElementOf(2, u[k]) \in S
    BY <1>2, <1>3
  <2>. HIDE DEF S
  <2>. QED
    BY <2>1
<1>5. e = Numbered(FlattenSeq(A \o B))
  BY <1>1, <1>2, <1>3 DEF ProofOf
<1>. HIDE DEF A, B, S
<1>6. PICK seqs : seqs = A \o B
  OBVIOUS
<1>7. /\ Len(seqs) = p + q /\ (\A k \in 1 .. p : seqs[k] = A[k])
      /\ \A k \in p + 1 .. p + q : seqs[k] = B[k - p]
      /\ seqs \in Seq(S)
  <2>1. /\ A \o B \in Seq(S) /\ Len(A \o B) = Len(A) + Len(B)
        /\ \A k \in 1 .. Len(A) + Len(B) : (A \o B)[k] = IF k <= Len(A) THEN A[k] ELSE B[k - Len(A)]
    BY <1>4, ConcatProperties, Zenon
  <2>2. /\ seqs \in Seq(S) /\ Len(seqs) = p + q
        /\ \A k \in 1 .. p + q : seqs[k] = IF k <= p THEN A[k] ELSE B[k - p]
    BY <1>4, <1>6, <2>1, Zenon
  <2>3. seqs \in Seq(S) /\ Len(seqs) = p + q
    BY <2>2
  <2>4. \A k \in 1 .. p : seqs[k] = A[k]
    BY <2>2
  <2>5. \A k \in p + 1 .. p + q : seqs[k] = B[k - p]
    <3>1. SUFFICES ASSUME NEW k \in p + 1 .. p + q PROVE seqs[k] = B[k - p]
      BY Zenon
    <3>2. k \in 1 .. p + q /\ ~ (k <= p)
      OBVIOUS
    <3>. QED
      BY <2>2, <3>2
  <2>. QED
    BY <2>3, <2>4, <2>5
<1>8. p + q = 0 => seqs = <<>>
  BY <1>7
<1>9. fld \in [1 .. p + q -> {1, 2}] /\ lab \in [1 .. p + q -> 0 .. LabelUnits] /\ p + q \in Nat
  <2>1. \A k \in 1 .. p + q : k <= p => k \in 1 .. p
    OBVIOUS
  <2>2. \A k \in 1 .. p + q : ~ (k <= p) => k - p \in 1 .. q
    OBVIOUS
  <2>. QED
    BY <1>2, <1>3, <2>1, <2>2
<1>10. ASSUME NEW k \in 1 .. p + q PROVE seqs[k] = ElementOf(fld[k], lab[k])
  <2>1. CASE k <= p
    <3>1. k \in 1 .. p /\ fld[k] = 1 /\ lab[k] = i[k]
      BY <2>1
    <3>. HIDE DEF fld, lab
    <3>. QED
      BY <1>4, <1>7, <3>1
  <2>2. CASE ~ (k <= p)
    <3>1. k \in p + 1 .. p + q /\ k - p \in 1 .. q /\ fld[k] = 2 /\ lab[k] = u[k - p]
      BY <2>2
    <3>. HIDE DEF fld, lab
    <3>. QED
      BY <1>4, <1>7, <3>1
  <2>. QED
    BY <2>1, <2>2
<1>11. InsertedFirst(p + q, fld, p)
  BY DEF InsertedFirst
<1>. HIDE DEF fld, lab
<1>12. PICK off : Laid(FlattenSeq(seqs), p + q, off, fld, lab)
  BY <1>7, <1>8, <1>9, <1>10, Assembled
<1>13. PICK d : d = FlattenSeq(seqs)
  OBVIOUS
<1>14. d \in Encoding /\ e = Numbered(d)
  <2>1. d \in Encoding
    BY <1>12, <1>13 DEF Laid
  <2>. QED
    BY <1>5, <1>6, <1>13, <2>1
<1>15. /\ e \in Encoding /\ Len(e) = Len(d) /\ \A j \in 1 .. Len(d) : Alike(d[j], e[j])
       /\ \A j \in 1 .. Len(d) : e[j].kind = "payload" => e[j].n = j
  BY <1>14, NumberedIs
<1>16. Laid(e, p + q, off, fld, lab)
  BY <1>12, <1>13, <1>15, LaidAlike
<1>17. IsProof(e, p + q, off, fld, lab, p)
  BY <1>11, <1>15, <1>16 DEF IsProof
<1>. QED
  BY <1>17

-----------------------------------------------------------------------------
(* Front matter of another kind: the scan stops where it starts.           *)
LEMMA ForeignUnits ==
  ASSUME NEW e \in Foreign
  PROVE  e \in Encoding /\ e # <<>> /\ e[1].kind = "key" /\ e[1].n \in {24, 26, 15}
<1>1. ElementOf(1, 1) \in Encoding /\ ElementOf(3, 1) \in Encoding
  BY 1 \in Nat, 1 \in {1, 2, 3}, 3 \in {1, 2, 3}, ElementIs
<1>2. CASE e = <<Key(3, 0), Number(1)>> \o ElementOf(1, 1)
  <2>1. PICK x, u, v, h : x = ElementOf(1, 1) /\ u = Key(3, 0) /\ v = Number(1) /\ h = <<u, v>>
    OBVIOUS
  <2>2. u \in Unit /\ v \in Unit /\ u.kind = "key" /\ v.kind # "size" /\ u.n = 24
    BY <2>1, UnitsAre DEF Key
  <2>3. h \in Encoding /\ Len(h) = 2 /\ h[1] = u
    BY <2>1, <2>2, Pair
  <2>4. x \in Encoding
    BY <1>1, <2>1
  <2>5. h \o x \in Encoding /\ Len(h \o x) = Len(h) + Len(x) /\ \A i \in 1 .. Len(h) : (h \o x)[i] = h[i]
    BY <2>3, <2>4, Joined, Zenon
  <2>6. e \in Encoding /\ e[1] = u /\ Len(e) = 2 + Len(x) /\ Len(x) \in Nat
    <3>1. 1 \in 1 .. Len(h) /\ Len(x) \in Nat
      BY <2>3, <2>4 DEF Encoding
    <3>. QED
      BY <1>2, <2>1, <2>3, <2>5, <3>1
  <2>. QED
    BY <2>2, <2>6
<1>3. CASE e = <<Key(1, 7)>> \o ElementOf(1, 1)
  <2>1. PICK x, u, h : x = ElementOf(1, 1) /\ u = Key(1, 7) /\ h = <<u>>
    OBVIOUS
  <2>2. u \in Unit /\ u.kind = "key" /\ u.n = 15
    BY <2>1, UnitsAre DEF Key
  <2>3. h \in Encoding /\ Len(h) = 1 /\ h[1] = u
    <3>1. h \in Seq(Unit) /\ Len(h) = 1 /\ h[1] = u
      BY <2>1, <2>2
    <3>2. \A i \in 1 .. Len(h) : i = 1
      BY <3>1
    <3>. QED
      BY <2>2, <3>1, <3>2 DEF Encoding
  <2>4. x \in Encoding
    BY <1>1, <2>1
  <2>5. h \o x \in Encoding /\ Len(h \o x) = Len(h) + Len(x) /\ \A i \in 1 .. Len(h) : (h \o x)[i] = h[i]
    BY <2>3, <2>4, Joined, Zenon
  <2>6. e \in Encoding /\ e[1] = u /\ Len(e) = 1 + Len(x) /\ Len(x) \in Nat
    <3>1. 1 \in 1 .. Len(h) /\ Len(x) \in Nat
      BY <2>3, <2>4 DEF Encoding
    <3>. QED
      BY <1>3, <2>1, <2>3, <2>5, <3>1
  <2>. QED
    BY <2>2, <2>6
<1>4. CASE e = Numbered(ElementOf(3, 1) \o ElementOf(1, 1))
  <2>1. PICK x, h, d : x = ElementOf(1, 1) /\ h = ElementOf(3, 1) /\ d = h \o x
    OBVIOUS
  <2>2. h \in Encoding /\ x \in Encoding /\ Len(h) = ElementPart(1) /\ h[1] = Key(3, 2)
    <3>1. Len(h) = ElementPart(1) /\ ElementAt(h, 0, 3, 1)
      BY <2>1, 1 \in Nat, 3 \in {1, 2, 3}, ElementIs
    <3>2. 0 + 1 = 1
      OBVIOUS
    <3>. QED
      BY <1>1, <2>1, <3>1, <3>2 DEF ElementAt
  <2>3. d \in Encoding /\ Len(d) = Len(h) + Len(x) /\ \A i \in 1 .. Len(h) : d[i] = h[i]
    <3>1. h \o x \in Encoding /\ Len(h \o x) = Len(h) + Len(x) /\ \A i \in 1 .. Len(h) : (h \o x)[i] = h[i]
      BY <2>2, Joined, Zenon
    <3>. QED
      BY <2>1, <3>1, Zenon
  <2>4. ElementPart(1) \in Nat /\ ElementPart(1) >= 8 /\ Len(x) \in Nat
    BY <2>2, 1 \in Nat, PartsAreNumbers DEF Encoding
  <2>5. 1 \in 1 .. Len(h) /\ 1 \in 1 .. Len(d)
    BY <2>2, <2>3, <2>4
  <2>6. d[1] = Key(3, 2) /\ Key(3, 2).kind = "key" /\ Key(3, 2).n = 26
    BY <2>2, <2>3, <2>5 DEF Key
  <2>7. e \in Encoding /\ Len(e) = Len(d) /\ Alike(d[1], e[1])
    BY <1>4, <2>1, <2>3, <2>5, NumberedIs
  <2>. QED
    BY <2>5, <2>6, <2>7 DEF Alike
<1>. QED
  BY <1>2, <1>3, <1>4 DEF Foreign

(* The scan of any prefix of it ends at once.                              *)
LEMMA ForeignScan ==
  ASSUME NEW e \in Foreign, NEW c \in 0 .. Len(e)
  PROVE  ScanLeading(SubSeq(e, 1, c), 1, 0).end = 0
<1>1. e \in Encoding /\ Len(e) \in Nat /\ e[1].kind = "key" /\ e[1].n \in {24, 26, 15}
  BY ForeignUnits DEF Encoding
<1>2. PICK x : x = SubSeq(e, 1, c)
  OBVIOUS
<1>3. x \in Encoding /\ Len(x) = c /\ \A i \in 1 .. c : x[i] = e[i]
  <2>1. 0 \in Nat /\ c \in Nat /\ 0 + c <= Len(e) /\ 0 + 1 = 1 /\ 0 + c = c /\ \A i \in 1 .. c : 0 + i = i
    BY <1>1
  <2>2. /\ SubSeq(e, 0 + 1, 0 + c) \in Encoding /\ Len(SubSeq(e, 0 + 1, 0 + c)) = c
        /\ \A i \in 1 .. c : SubSeq(e, 0 + 1, 0 + c)[i] = e[0 + i]
    BY <1>1, <2>1, Slice
  <2>. QED
    BY <1>2, <2>1, <2>2
<1>4. ~ InRun(x, 1, 0)
  <2>1. CASE c = 0
    <3>1. Len(x) - 0 = 0
      BY <1>3, <2>1
    <3>2. NextRecord(x, 0) = Partial /\ Partial.state = "partial"
      BY <3>1 DEF NextRecord, Partial
    <3>. QED
      BY <3>2 DEF InRun
  <2>2. CASE c # 0
    <3>1. x[0 + 1] = e[1]
      BY <1>3, <2>2
    <3>2. /\ 24 % 8 = 0 /\ 26 % 8 = 2 /\ 26 \div 8 = 3 /\ 15 % 8 = 7 /\ 7 \notin {0, 1, 2, 5}
      OBVIOUS
    <3>. DEFINE r == NextRecord(x, 0)
                left == Len(x) - 0
                key == x[0 + 1]
                size == x[0 + 2]
                framed(body, end) == [state |-> "whole", field |-> key.n \div 8, wire |-> key.n % 8,
                                      start |-> 0, body |-> body, end |-> end]
    <3>3. r = IF left = 0 THEN Partial
              ELSE IF key.kind # "key" \/ key.n % 8 \notin {0, 1, 2, 5} THEN Malformed
              ELSE IF left = 1 THEN Partial
              ELSE IF key.n % 8 # 2 THEN framed(0 + 2, 0 + 2)
              ELSE IF size.kind # "size" THEN Malformed
              ELSE IF left - 2 < size.n THEN Partial
              ELSE framed(0 + 2, 0 + 2 + size.n)
      BY Zenon DEF NextRecord
    <3>4. Partial.state # "whole" /\ Malformed.state # "whole"
      BY DEF Partial, Malformed
    <3>5. \A b, n : framed(b, n).field = key.n \div 8 /\ framed(b, n).wire = key.n % 8
      OBVIOUS
    <3>. HIDE DEF framed, left, size, r
    <3>6. r.state = "whole" => key.n % 8 \in {0, 1, 2, 5} /\ r.field = key.n \div 8 /\ r.wire = key.n % 8
      <4>. HIDE DEF key
      <4>. QED
        BY <3>3, <3>4, <3>5
    <3>7. ~ (r.state = "whole" /\ r.wire = 2 /\ r.field = 1)
      BY <1>1, <3>1, <3>2, <3>6
    <3>. QED
      BY <3>7 DEF InRun, r
  <2>. QED
    BY <2>1, <2>2
<1>5. 0 \in 0 .. Len(x)
  BY <1>3
<1>6. ScanLeading(x, 1, 0) = Stopped(x, 1, 0)
  BY <1>3, <1>4, <1>5, ScanUnfold
<1>7. Stopped(x, 1, 0).end = 0
  BY DEF Stopped
<1>. QED
  BY <1>2, <1>6, <1>7

-----------------------------------------------------------------------------
(* What the scan of a prefix finds of a proof.                             *)
Found(e, c) == ScanLeading(SubSeq(e, 1, c), 1, 0)

RunEnds(s, K, off, c, n) ==
  /\ s.end = off[n] /\ s.ok = TRUE /\ s.ended \in BOOLEAN
  /\ s.ended <=> n < K /\ off[n + 1] <= c
  /\ s = [end |-> s.end, ended |-> s.ended, ok |-> s.ok]

(* The scan of a prefix, from the end of any element of its run.           *)
LEMMA RunScan ==
  ASSUME NEW d, NEW K, NEW off, NEW fld, NEW lab, Laid(d, K, off, fld, lab), NEW c \in 0 .. Len(d),
         NEW m, RunIs(d, K, off, fld, c, m), NEW j \in 0 .. m
  PROVE  RunEnds(ScanLeading(SubSeq(d, 1, c), 1, off[j]), K, off, c, m)
<1>. DEFINE g == m < K /\ off[m + 1] <= c
<1>1. ScanLeading(SubSeq(d, 1, c), 1, off[j]) = [end |-> off[m], ended |-> g, ok |-> TRUE]
  BY RunScanned
<1>2. g \in BOOLEAN
  OBVIOUS
<1>. HIDE DEF g
<1>3. PICK s : s = ScanLeading(SubSeq(d, 1, c), 1, off[j])
  OBVIOUS
<1>4. s.end = off[m] /\ s.ok = TRUE /\ s.ended = g /\ s = [end |-> s.end, ended |-> s.ended, ok |-> s.ok]
  BY <1>1, <1>3
<1>5. s.ended \in BOOLEAN /\ (s.ended <=> g)
  BY <1>2, <1>4, Zenon
<1>6. s.ended <=> m < K /\ off[m + 1] <= c
  BY <1>5 DEF g
<1>7. RunEnds(s, K, off, c, m)
  BY <1>4, <1>5, <1>6 DEF RunEnds
<1>. QED
  BY <1>3, <1>7

(* The run of a prefix is of inserted elements, and of all of them where   *)
(* the scan met its end or the end of the proof.                           *)
LEMMA RunFound ==
  ASSUME NEW e, NEW K, NEW off, NEW fld, NEW lab, NEW m, IsProof(e, K, off, fld, lab, m), NEW c \in 0 .. Len(e)
  PROVE  \E n : /\ RunIs(e, K, off, fld, c, n) /\ n \in 0 .. m /\ off[n] \in 0 .. c
                /\ RunEnds(Found(e, c), K, off, c, n)
                /\ Found(e, c).ended \/ c = Len(e) => n = m
<1>1. Laid(e, K, off, fld, lab) /\ InsertedFirst(K, fld, m)
  BY DEF IsProof
<1>2. PICK n : RunIs(e, K, off, fld, c, n)
  BY <1>1, RunExists
<1>3. /\ K \in Nat /\ Len(e) \in Nat /\ off[K] = Len(e) /\ m \in 0 .. K /\ n \in 0 .. K /\ c \in Nat /\ off[0] = 0
      /\ off[n] <= c /\ fld \in [1 .. K -> {1, 2}]
  BY <1>1, <1>2 DEF Laid, Encoding, InsertedFirst, RunIs
<1>4. \A k \in 0 .. K : off[k] \in Nat /\ off[k] <= Len(e)
  BY <1>1, LaidGrows
<1>5. n \in 0 .. m
  <2>1. n = 0 \/ n \in 1 .. n
    BY <1>3
  <2>2. n \in 1 .. n => fld[n] = 1 /\ n \in 1 .. K
    BY <1>2, <1>3 DEF RunIs
  <2>. QED
    BY <1>1, <1>3, <2>1, <2>2 DEF InsertedFirst
<1>6. off[n] \in 0 .. c
  BY <1>3, <1>4
<1>7. RunEnds(Found(e, c), K, off, c, n)
  <2>1. 0 \in 0 .. n
    BY <1>3
  <2>2. PICK j \in 0 .. n : j = 0
    BY <2>1
  <2>3. RunEnds(ScanLeading(SubSeq(e, 1, c), 1, off[j]), K, off, c, n)
    BY <1>1, <1>2, RunScan
  <2>. QED
    BY <1>3, <2>2, <2>3 DEF Found
<1>8. ASSUME Found(e, c).ended \/ c = Len(e) PROVE n = m
  <2>1. SUFFICES ASSUME n < m PROVE FALSE
    BY <1>3, <1>5
  <2>2. n < K /\ n + 1 \in 1 .. K /\ n + 1 \in 0 .. K /\ n + 1 <= m
    BY <1>3, <2>1
  <2>3. off[n + 1] <= c
    <3>1. off[n + 1] <= Len(e)
      BY <1>4, <2>2
    <3>. QED
      BY <1>7, <1>8, <3>1 DEF RunEnds
  <2>4. fld[n + 1] = 2 /\ fld[n + 1] = 1
    BY <1>1, <1>2, <2>2, <2>3 DEF RunIs, InsertedFirst
  <2>. QED
    BY <2>4
<1>. QED
  BY <1>2, <1>5, <1>6, <1>7, <1>8

(* Taken up where a shorter prefix's stopped, the scan is the scan of all. *)
LEMMA ScanResumes ==
  ASSUME NEW e \in Proofs, NEW c \in 0 .. Len(e), NEW b \in 0 .. c
  PROVE  ScanLeading(SubSeq(e, 1, c), 1, Found(e, b).end) = Found(e, c)
<1>1. PICK K, off, fld, lab, m : IsProof(e, K, off, fld, lab, m)
  BY ProofShape
<1>2. Laid(e, K, off, fld, lab)
  BY <1>1 DEF IsProof
<1>3. Len(e) \in Nat /\ b \in 0 .. Len(e) /\ b \in Nat /\ c \in Nat /\ b <= c
  BY <1>2 DEF Laid, Encoding
<1>4. PICK n : RunIs(e, K, off, fld, c, n) /\ RunEnds(Found(e, c), K, off, c, n)
  BY <1>1, RunFound
<1>5. PICK j : RunIs(e, K, off, fld, b, j) /\ RunEnds(Found(e, b), K, off, b, j)
  BY <1>1, <1>3, RunFound
<1>6. j \in 0 .. n
  BY <1>2, <1>3, <1>4, <1>5, RunGrows
<1>7. RunEnds(ScanLeading(SubSeq(e, 1, c), 1, off[j]), K, off, c, n)
  BY <1>2, <1>4, <1>6, RunScan
<1>8. PICK s, t : s = ScanLeading(SubSeq(e, 1, c), 1, off[j]) /\ t = Found(e, c)
  OBVIOUS
<1>9. RunEnds(s, K, off, c, n) /\ RunEnds(t, K, off, c, n)
  BY <1>4, <1>7, <1>8
<1>10. s.ended = t.ended
  BY <1>9, Zenon DEF RunEnds
<1>11. s = t
  BY <1>9, <1>10 DEF RunEnds
<1>. QED
  BY <1>5, <1>8, <1>11 DEF RunEnds

(* A scan ends within an element of what it was given, unless it met the   *)
(* end of the run; where it did, that is where FieldRanges puts it.        *)
LEMMA ScanFinds ==
  ASSUME NEW e \in Proofs, NEW c \in 0 .. Len(e)
  PROVE  /\ Found(e, c).ok = TRUE /\ Found(e, c).end \in 0 .. c
         /\ ~ Found(e, c).ended /\ c < Len(e) => c < Found(e, c).end + ElementPart(LabelUnits)
         /\ Found(e, c).ended \/ c = Len(e) =>
              FieldRanges(e, 1) = IF Found(e, c).end = 0 THEN <<>> ELSE <<<<0, Found(e, c).end>>>>
<1>1. PICK K, off, fld, lab, m : IsProof(e, K, off, fld, lab, m)
  BY ProofShape
<1>2. Laid(e, K, off, fld, lab) /\ InsertedFirst(K, fld, m)
  BY <1>1 DEF IsProof
<1>3. Len(e) \in Nat /\ K \in Nat /\ off[K] = Len(e)
  BY <1>2 DEF Laid, Encoding
<1>4. PICK n : /\ RunIs(e, K, off, fld, c, n) /\ off[n] \in 0 .. c
               /\ RunEnds(Found(e, c), K, off, c, n)
               /\ Found(e, c).ended \/ c = Len(e) => n = m
  BY <1>1, RunFound
<1>5. ASSUME ~ (n < K /\ off[n + 1] <= c), c < Len(e) PROVE c < off[n] + ElementPart(LabelUnits)
  <2>1. n \in 0 .. K /\ off[n] <= c
    BY <1>4 DEF RunIs
  <2>2. n # K
    BY <1>3, <1>4, <1>5
  <2>3. n + 1 \in 1 .. K /\ n + 1 \in 0 .. K /\ (n + 1) - 1 = n /\ n < K
    BY <1>3, <2>1, <2>2
  <2>4. PICK l : l = lab[n + 1]
    OBVIOUS
  <2>5. l \in 0 .. LabelUnits /\ off[n + 1] = off[n] + ElementPart(l)
    BY <1>2, <2>3, <2>4 DEF Laid
  <2>6. off[n + 1] \in Nat /\ off[n] \in Nat
    BY <1>2, <2>1, <2>3, LaidGrows
  <2>7. ElementPart(l) <= ElementPart(LabelUnits) /\ ElementPart(l) \in Nat /\ ElementPart(LabelUnits) \in Nat
    BY <2>5, StreamNumbers DEF ElementPart, BodyPart, LabelPart
  <2>8. c < off[n + 1]
    BY <1>4, <1>5, <2>3, <2>6
  <2>. QED
    BY <2>5, <2>6, <2>7, <2>8
<1>6. FieldRanges(e, 1) = IF off[m] = 0 THEN <<>> ELSE <<<<0, off[m]>>>>
  BY <1>2, RangesAre
<1>7. Found(e, c).end = off[n] /\ Found(e, c).ok = TRUE /\ (Found(e, c).ended <=> n < K /\ off[n + 1] <= c)
  BY <1>4 DEF RunEnds
<1>8. Found(e, c).ended \/ c = Len(e) =>
        FieldRanges(e, 1) = IF Found(e, c).end = 0 THEN <<>> ELSE <<<<0, Found(e, c).end>>>>
  <2>1. SUFFICES ASSUME Found(e, c).ended \/ c = Len(e) PROVE off[m] = off[n]
    BY <1>6, <1>7
  <2>. QED
    BY <1>4, <1>7, <2>1
<1>9. ~ Found(e, c).ended /\ c < Len(e) => c < Found(e, c).end + ElementPart(LabelUnits)
  BY <1>5, <1>7
<1>. QED
  BY <1>4, <1>7, <1>8, <1>9

(* A unit before the end of the run is of the field, and one behind that   *)
(* of a scan to its end is not.                                            *)
LEMMA ScanParts ==
  ASSUME NEW e \in Proofs, NEW c \in 0 .. Len(e), NEW at \in Int,
         NEW r \in ToSet(Frames(e, 0, Len(e))), r.start <= at, at < r.end
  PROVE  /\ at < Found(e, c).end => r.field = 1
         /\ (Found(e, c).ended \/ c = Len(e)) /\ ~ (at < Found(e, c).end) => r.field = 2
<1>1. PICK K, off, fld, lab, m : IsProof(e, K, off, fld, lab, m)
  BY ProofShape
<1>2. Laid(e, K, off, fld, lab) /\ InsertedFirst(K, fld, m)
  BY <1>1 DEF IsProof
<1>3. K \in Nat /\ m \in 0 .. K /\ (\A k \in 1 .. K : fld[k] = 1 <=> k <= m) /\ fld \in [1 .. K -> {1, 2}]
  BY <1>2 DEF Laid, InsertedFirst
<1>4. PICK n : /\ n \in 0 .. m
               /\ RunEnds(Found(e, c), K, off, c, n)
               /\ Found(e, c).ended \/ c = Len(e) => n = m
  BY <1>1, RunFound
<1>5. PICK k \in 1 .. K : r.start = off[k - 1] /\ r.end = off[k] /\ r.field = fld[k]
  <2>1. PICK F : F = RecordsOf(K, off, fld)
    OBVIOUS
  <2>2. /\ Frames(e, 0, Len(e)) = F /\ F \in Seq(RecordSet) /\ Len(F) = K
        /\ \A k \in 1 .. K : F[k].field = fld[k] /\ F[k].start = off[k - 1] /\ F[k].end = off[k]
    BY <1>2, <2>1, LaidFrames
  <2>3. DOMAIN F = 1 .. K
    BY <2>2
  <2>. QED
    BY <2>2, <2>3 DEF ToSet
<1>6. k - 1 \in 0 .. K /\ k \in 0 .. K /\ n \in 0 .. K
  BY <1>3, <1>4
<1>7. off[k - 1] \in Nat /\ off[k] \in Nat /\ off[n] \in Nat
  BY <1>2, <1>6, LaidGrows
<1>8. ASSUME at < off[n] PROVE fld[k] = 1
  <2>1. n < k - 1 => off[n] + 8 <= off[k - 1]
    BY <1>2, <1>6, LaidGrows
  <2>2. n # k - 1
    BY <1>5, <1>7, <1>8
  <2>3. ~ (n < k - 1)
    BY <1>5, <1>7, <1>8, <2>1
  <2>4. k <= m
    BY <1>3, <1>4, <2>2, <2>3
  <2>. QED
    BY <1>3, <2>4
<1>9. ASSUME n = m, ~ (at < off[n]) PROVE fld[k] = 2
  <2>1. k < n => off[k] + 8 <= off[n]
    BY <1>2, <1>6, LaidGrows
  <2>2. k # n
    BY <1>5, <1>7, <1>9
  <2>3. ~ (k < n)
    BY <1>5, <1>7, <1>9, <2>1
  <2>4. ~ (k <= m)
    BY <1>3, <1>4, <1>9, <2>2, <2>3
  <2>. QED
    BY <1>3, <2>4
<1>10. Found(e, c).end = off[n]
  BY <1>4 DEF RunEnds
<1>11. at < Found(e, c).end => r.field = 1
  BY <1>5, <1>8, <1>10
<1>12. (Found(e, c).ended \/ c = Len(e)) /\ ~ (at < Found(e, c).end) => r.field = 2
  <2>1. SUFFICES ASSUME Found(e, c).ended \/ c = Len(e), ~ (at < Found(e, c).end) PROVE r.field = 2
    OBVIOUS
  <2>2. n = m
    BY <1>4, <2>1
  <2>. QED
    BY <1>5, <1>9, <1>10, <2>1, <2>2
<1>. QED
  BY <1>11, <1>12

(* A bit flipped in the payload of the run.                                *)
LEMMA PayloadFlipped ==
  ASSUME NEW e \in Proofs, NEW c \in 0 .. Len(e), NEW at \in PayloadOffsets(SubSeq(e, 1, Found(e, c).end), 1)
  PROVE  /\ at \in Int /\ at < Found(e, c).end
         /\ \A x \in Encoding :
              Len(x) = Len(e) /\ (\A i \in 1 .. Len(e) : x[i] = IF i = at + 1 THEN Flipped(e[i]) ELSE e[i]) =>
                OneApart(Decode(e), Decode(x))
<1>1. PICK K, off, fld, lab, m : IsProof(e, K, off, fld, lab, m)
  BY ProofShape
<1>2. /\ Laid(e, K, off, fld, lab) /\ InsertedFirst(K, fld, m)
      /\ \A i \in 1 .. Len(e) : e[i].kind = "payload" => e[i].n = i
  BY <1>1 DEF IsProof
<1>3. K \in Nat /\ Len(e) \in Nat /\ m \in 0 .. K /\ \A k \in 1 .. K : fld[k] = 1 <=> k <= m
  BY <1>2 DEF Laid, InsertedFirst, Encoding
<1>4. PICK n \in 0 .. m : Found(e, c).end = off[n]
  <2>1. PICK n : n \in 0 .. m /\ RunEnds(Found(e, c), K, off, c, n)
    BY <1>1, RunFound
  <2>. QED
    BY <2>1 DEF RunEnds
<1>5. n \in 0 .. K
  BY <1>3
<1>. DEFINE o == [k \in 0 .. n |-> off[k]]
            f == [k \in 1 .. n |-> fld[k]]
            l == [k \in 1 .. n |-> lab[k]]
<1>6. Laid(SubSeq(e, 1, off[n]), n, o, f, l)
  BY <1>2, <1>5, LaidPrefix
<1>7. at \in Int /\ \E k \in 1 .. n : f[k] = 1 /\ PayloadPlace(o[k - 1], l[k], at)
  <2>1. at \in PayloadOffsets(SubSeq(e, 1, off[n]), 1)
    BY <1>4
  <2>. HIDE DEF o, f, l
  <2>. QED
    BY <1>6, <2>1, LaidPayload
<1>8. PICK k \in 1 .. n : f[k] = 1 /\ PayloadPlace(o[k - 1], l[k], at)
  BY <1>7
<1>9. k \in 1 .. K /\ k - 1 \in 0 .. n /\ k \in 0 .. n /\ k - 1 \in 0 .. K /\ k \in 0 .. K /\ fld[k] = 1
  BY <1>3, <1>5
<1>10. PICK p, h : p = off[k - 1] /\ h = lab[k]
  OBVIOUS
<1>11. PayloadPlace(p, h, at)
  BY <1>8, <1>9, <1>10
<1>12. /\ p \in Nat /\ h \in Nat /\ ElementAt(e, p, fld[k], h) /\ off[k] = p + ElementPart(h)
       /\ off[k] \in Nat /\ off[k] <= Len(e) /\ off[n] \in Nat
  <2>1. h \in Nat
    BY <1>2, <1>9, <1>10, LabelsAreNat DEF Laid
  <2>2. \A j \in 0 .. K : off[j] \in Nat /\ off[j] <= Len(e)
    BY <1>2, LaidGrows
  <2>. QED
    BY <1>2, <1>5, <1>9, <1>10, <2>1, <2>2 DEF Laid
<1>13. e[at + 1].kind = "payload" /\ p + 6 <= at /\ at < p + ElementPart(h)
  BY <1>7, <1>11, <1>12, PlaceIsPayload
<1>14. at < off[n]
  <2>1. k < n => off[k] + 8 <= off[n]
    BY <1>2, <1>5, <1>9, LaidGrows
  <2>2. k = n \/ k < n
    BY <1>5
  <2>. QED
    BY <1>7, <1>12, <1>13, <2>1, <2>2
<1>15. at + 1 \in 1 .. Len(e)
  BY <1>3, <1>7, <1>12, <1>13
<1>16. PICK y : y = Flipped(e[at + 1])
  OBVIOUS
<1>17. y.kind = "payload" /\ y # e[at + 1]
  <2>1. PICK u : u = e[at + 1]
    OBVIOUS
  <2>2. u \in Unit /\ u.kind = "payload" /\ u.n = at + 1 /\ at + 1 > 0
    <3>1. e \in Seq(Unit)
      BY <1>2 DEF Laid, Encoding
    <3>. QED
      BY <1>2, <1>13, <1>15, <2>1, <3>1
  <2>3. y = [u EXCEPT !.n = - u.n]
    BY <1>16, <2>1, <2>2 DEF Flipped
  <2>4. y.kind = "payload" /\ y.n = - u.n
    BY <2>2, <2>3 DEF Unit
  <2>5. - u.n # u.n
    BY <1>15, <2>2
  <2>. QED
    BY <2>1, <2>2, <2>4, <2>5
<1>18. SUFFICES ASSUME NEW x \in Encoding, Len(x) = Len(e),
                       \A i \in 1 .. Len(e) : x[i] = IF i = at + 1 THEN Flipped(e[i]) ELSE e[i]
                PROVE  OneApart(Decode(e), Decode(x))
  BY <1>4, <1>7, <1>14
<1>19. ChangedAt(e, x, at)
  <2>1. x[at + 1].kind = "payload" /\ x[at + 1] # e[at + 1] /\ \A i \in 1 .. Len(e) : i # at + 1 => x[i] = e[i]
    BY <1>15, <1>16, <1>17, <1>18
  <2>. QED
    BY <1>18, <2>1 DEF ChangedAt
<1>20. PayloadPlace(off[k - 1], lab[k], at)
  BY <1>10, <1>11
<1>. HIDE DEF o, f, l
<1>. QED
  BY <1>2, <1>7, <1>9, <1>18, <1>19, <1>20, OneElementDiffers

-----------------------------------------------------------------------------
(* The fronts of an encoding.                                              *)
LEMMA EncodingIs ==
  ASSUME NEW e \in Proofs \cup Foreign
  PROVE  e \in Encoding /\ e \in Seq(Unit) /\ Len(e) \in Nat
<1>1. e \in Proofs => e \in Encoding
  BY ProofShape DEF IsProof, Laid
<1>2. e \in Encoding
  BY <1>1, ForeignUnits
<1>. QED
  BY <1>2 DEF Encoding

(* A front of a front is a front.                                          *)
LEMMA FrontOfFront ==
  ASSUME NEW e \in Encoding, NEW c \in 0 .. Len(e), NEW b \in 0 .. c
  PROVE  SubSeq(SubSeq(e, 1, c), 1, b) = SubSeq(e, 1, b)
<1>1. Len(e) \in Nat /\ c \in Nat /\ b \in Nat /\ b <= c /\ c <= Len(e)
  BY DEF Encoding
<1>2. ASSUME NEW x \in Encoding, NEW n \in 0 .. Len(x)
      PROVE  SubSeq(x, 1, n) \in Encoding /\ Len(SubSeq(x, 1, n)) = n /\ \A i \in 1 .. n : SubSeq(x, 1, n)[i] = x[i]
  <2>1. 0 \in Nat /\ n \in Nat /\ 0 + n <= Len(x) /\ 0 + 1 = 1 /\ 0 + n = n /\ \A i \in 1 .. n : 0 + i = i
    BY DEF Encoding
  <2>2. /\ SubSeq(x, 0 + 1, 0 + n) \in Encoding /\ Len(SubSeq(x, 0 + 1, 0 + n)) = n
        /\ \A i \in 1 .. n : SubSeq(x, 0 + 1, 0 + n)[i] = x[0 + i]
    BY <2>1, Slice
  <2>. QED
    BY <2>1, <2>2
<1>3. PICK y, z, w : y = SubSeq(e, 1, c) /\ z = SubSeq(y, 1, b) /\ w = SubSeq(e, 1, b)
  OBVIOUS
<1>4. y \in Encoding /\ Len(y) = c /\ \A i \in 1 .. c : y[i] = e[i]
  BY <1>2, <1>3
<1>5. z \in Encoding /\ Len(z) = b /\ \A i \in 1 .. b : z[i] = y[i]
  BY <1>2, <1>3, <1>4
<1>6. w \in Encoding /\ Len(w) = b /\ \A i \in 1 .. b : w[i] = e[i]
  <2>1. b \in 0 .. Len(e)
    BY <1>1
  <2>. QED
    BY <1>2, <1>3, <2>1
<1>7. \A i \in 1 .. b : i \in 1 .. c
  BY <1>1
<1>8. \A i \in 1 .. Len(z) : z[i] = w[i]
  BY <1>4, <1>5, <1>6, <1>7
<1>9. z = w
  BY <1>5, <1>6, <1>8, SameEncoding
<1>. QED
  BY <1>3, <1>9

(* A scan ends within what it was given.                                   *)
LEMMA FoundAnywhere ==
  ASSUME NEW e \in Proofs \cup Foreign, NEW c \in 0 .. Len(e)
  PROVE  Found(e, c).end \in 0 .. c
<1>1. CASE e \in Proofs
  BY <1>1, ScanFinds
<1>2. CASE e \in Foreign
  <2>1. Found(e, c).end = 0
    BY <1>2, ForeignScan DEF Found
  <2>. QED
    BY <2>1
<1>. QED
  BY <1>1, <1>2

(* The lesser of two numbers.                                              *)
LEMMA LesserOf ==
  ASSUME NEW a \in Nat, NEW b \in Nat
  PROVE  Min({a, b}) \in {a, b} /\ Min({a, b}) <= a /\ Min({a, b}) <= b
<1>1. \E x \in {a, b} : \A y \in {a, b} : x <= y
  OBVIOUS
<1>2. Min({a, b}) \in {a, b} /\ \A y \in {a, b} : Min({a, b}) <= y
  BY <1>1, Zenon DEF Min
<1>. QED
  BY <1>2

(* The largest of the reads.                                               *)
LEMMA LargestRead == Max(ReadSizes) \in Nat \ {0} /\ \A n \in ReadSizes : n <= Max(ReadSizes)
<1>1. /\ ReadSizes \in SUBSET (Nat \ {0}) /\ ReadSizes # {} /\ IsFiniteSet(ReadSizes)
      /\ ReadSizes \in SUBSET Nat /\ ReadSizes \in SUBSET Int
  BY StreamNumbers
<1>2. PICK b \in Nat : \A x \in ReadSizes : x <= b
  BY <1>1, FiniteIsBounded
<1>3. \E x \in ReadSizes : \A y \in ReadSizes : y <= x
  <2>1. b \in Int
    OBVIOUS
  <2>. QED
    BY <1>1, <1>2, <2>1, GreatestInt, Zenon
<1>4. Max(ReadSizes) \in ReadSizes /\ \A y \in ReadSizes : y <= Max(ReadSizes)
  <2>1. \E x \in ReadSizes : \A y \in ReadSizes : x >= y
    BY <1>1, <1>3
  <2>2. Max(ReadSizes) \in ReadSizes /\ \A y \in ReadSizes : Max(ReadSizes) >= y
    BY <2>1, Zenon DEF Max
  <2>. QED
    BY <1>1, <2>2
<1>. QED
  BY <1>1, <1>4

-----------------------------------------------------------------------------
(* What holds of a proof on its way, throughout.                           *)
StreamTypes ==
  /\ encoding \in Proofs \cup Foreign
  /\ declared \in BOOLEAN /\ canary \in BOOLEAN /\ broken \in BOOLEAN
  /\ stage \in {"scan", "aim", "copy", "sent", "cut"}
  /\ buffered \in 0 .. Len(encoding) /\ idle \in Nat
  /\ span \in [end : Nat, capped : BOOLEAN, known : BOOLEAN]

(* The scan stands where one over what was read would, goes on only while  *)
(* there is reason to, and ends early only for one that is on record.      *)
ScanStands ==
  /\ span.end = Found(encoding, buffered).end
  /\ encoding \in Proofs => span.known
  /\ encoding \in Proofs /\ stage = "scan" =>
       ~ Found(encoding, buffered).ended /\ (buffered = 0 \/ span.end < ScanLimit)
  /\ encoding \in Proofs /\ stage # "scan" /\ ~ broken /\ idle < IdleReads /\ ~ span.capped =>
       Found(encoding, buffered).ended \/ buffered = Len(encoding)

AimStands ==
  /\ stage \in {"scan", "aim"} => aim = NoAim /\ sent = <<>>
  /\ ~ canary => aim = NoAim
  /\ canary /\ stage \notin {"scan", "aim"} => aim \in Aimed \cup Anywhere

SentStands ==
  /\ sent \in Seq(Unit) /\ Len(sent) <= Len(encoding)
  /\ \A i \in 1 .. Len(sent) : sent[i] = IF i - 1 = aim.at THEN Flipped(encoding[i]) ELSE encoding[i]
  /\ stage = "sent" => ~ broken /\ Len(sent) = Len(encoding)

StreamInv == StreamTypes /\ ScanStands /\ AimStands /\ SentStands /\ HeldIsBounded

(* Before anything is read nothing is found.                               *)
LEMMA NothingRead ==
  ASSUME NEW e \in Proofs \cup Foreign
  PROVE  Found(e, 0).end = 0 /\ ~ Found(e, 0).ended
<1>1. e \in Encoding /\ Len(e) \in Nat
  BY EncodingIs
<1>2. PICK x : x = SubSeq(e, 1, 0)
  OBVIOUS
<1>3. x \in Encoding /\ Len(x) = 0
  <2>1. 0 \in Nat /\ 0 + 0 <= Len(e) /\ 0 + 1 = 1 /\ 0 + 0 = 0
    BY <1>1
  <2>2. SubSeq(e, 0 + 1, 0 + 0) \in Encoding /\ Len(SubSeq(e, 0 + 1, 0 + 0)) = 0
    BY <1>1, <2>1, Slice
  <2>. QED
    BY <1>2, <2>1, <2>2
<1>4. NextRecord(x, 0) = Partial /\ Partial.state = "partial"
  <2>1. Len(x) - 0 = 0
    BY <1>3
  <2>. QED
    BY <2>1 DEF NextRecord, Partial
<1>5. ScanLeading(x, 1, 0) = Stopped(x, 1, 0)
  <2>1. ~ InRun(x, 1, 0) /\ 0 \in 0 .. Len(x)
    BY <1>3, <1>4 DEF InRun
  <2>. QED
    BY <1>3, <2>1, ScanUnfold
<1>6. Stopped(x, 1, 0) = [end |-> 0, ended |-> FALSE, ok |-> TRUE]
  BY <1>4 DEF Stopped
<1>. QED
  BY <1>2, <1>5, <1>6 DEF Found

(* It holds at the start.                                                  *)
LEMMA StreamStarts == StreamInit => StreamInv
<1>. SUFFICES ASSUME StreamInit PROVE StreamInv
  OBVIOUS
<1>1. /\ encoding \in Proofs \cup Foreign /\ declared \in BOOLEAN /\ canary \in BOOLEAN /\ stage = "scan"
      /\ buffered = 0 /\ idle = 0 /\ span = [end |-> 0, capped |-> FALSE, known |-> TRUE]
      /\ aim = NoAim /\ sent = <<>> /\ broken = FALSE
  BY DEF StreamInit
<1>2. Len(encoding) \in Nat
  BY <1>1, EncodingIs
<1>3. StreamTypes
  <2>1. span \in [end : Nat, capped : BOOLEAN, known : BOOLEAN]
    BY <1>1
  <2>2. buffered \in 0 .. Len(encoding) /\ idle \in Nat
    BY <1>1, <1>2
  <2>. QED
    BY <1>1, <2>1, <2>2, Zenon DEF StreamTypes
<1>4. ScanStands
  BY <1>1, NothingRead DEF ScanStands
<1>5. AimStands
  BY <1>1 DEF AimStands
<1>6. SentStands
  BY <1>1, <1>2 DEF SentStands
<1>7. HeldIsBounded
  <2>1. /\ ElementPart(LabelUnits) \in Nat /\ ScanLimit \in Nat /\ Max(ReadSizes) \in Nat \ {0}
        /\ Len(ElementOf(1, LabelUnits)) = ElementPart(LabelUnits)
    BY StreamNumbers, LargestRead, PartsAreNumbers, ElementIs, 1 \in {1, 2, 3}
  <2>. QED
    BY <1>1, <2>1 DEF HeldIsBounded
<1>. QED
  BY <1>3, <1>4, <1>5, <1>6, <1>7 DEF StreamInv

(* A read keeps it: the scan goes on where it stood.                       *)
LEMMA ReadSomeKeeps == ASSUME StreamInv, ReadSome PROVE StreamInv'
<1>1. /\ encoding \in Proofs \cup Foreign /\ declared \in BOOLEAN /\ canary \in BOOLEAN /\ broken \in BOOLEAN
      /\ buffered \in 0 .. Len(encoding) /\ span \in [end : Nat, capped : BOOLEAN, known : BOOLEAN]
      /\ span.end = Found(encoding, buffered).end /\ (encoding \in Proofs => span.known)
      /\ stage = "scan" /\ ~ broken /\ buffered < Len(encoding) /\ aim = NoAim /\ sent = <<>>
      /\ idle' = 0 /\ encoding' = encoding /\ declared' = declared /\ canary' = canary /\ aim' = aim /\ sent' = sent
      /\ broken' = broken
  BY DEF StreamInv, StreamTypes, ScanStands, AimStands, ReadSome
<1>2. PICK e : e = encoding
  OBVIOUS
<1>3. e \in Proofs \cup Foreign /\ Len(e) \in Nat /\ encoding' = e
  BY <1>1, <1>2, EncodingIs
<1>4. e \in Proofs => ~ Found(e, buffered).ended /\ (buffered = 0 \/ span.end < ScanLimit)
  BY <1>1, <1>2 DEF StreamInv, ScanStands
<1>5. PICK n \in ReadSizes, c \in {Min({buffered + n, Len(e)}) : n \in ReadSizes} :
        c = Min({buffered + n, Len(e)}) /\ buffered' = c /\ ScanFurther(c)
  BY <1>2 DEF ReadSome
<1>6. n \in Nat \ {0} /\ n <= Max(ReadSizes) /\ Max(ReadSizes) \in Nat
  BY StreamNumbers, LargestRead
<1>7. c \in 0 .. Len(e) /\ buffered \in 0 .. c /\ c <= buffered + n /\ c # 0 /\ buffered \in Nat
  <2>1. buffered + n \in Nat /\ Len(e) \in Nat
    BY <1>1, <1>2, <1>3, <1>6
  <2>2. c \in {buffered + n, Len(e)} /\ c <= buffered + n /\ c <= Len(e)
    BY <1>5, <2>1, LesserOf
  <2>. QED
    BY <1>1, <1>2, <1>6, <2>1, <2>2
<1>8. PICK s : s = Framed(c)
  OBVIOUS
<1>9. s = Found(e, c)
  <2>1. s = ScanLeading(SubSeq(e, 1, c), 1, Found(e, buffered).end)
    BY <1>1, <1>2, <1>8 DEF Framed, ResumeAt
  <2>2. CASE e \in Proofs
    BY <1>7, <2>1, <2>2, ScanResumes
  <2>3. CASE e \in Foreign
    <3>1. Found(e, buffered).end = 0
      BY <1>1, <1>2, <2>3, ForeignScan DEF Found
    <3>. QED
      BY <2>1, <3>1 DEF Found
  <2>. QED
    BY <1>3, <2>2, <2>3
<1>10. /\ span' = IF ~ s.ok THEN Unaimable ELSE [span EXCEPT !.end = s.end, !.capped = ~ s.ended /\ AtLimit(s.end)]
       /\ stage' = IF ~ s.ok \/ s.ended \/ AtLimit(s.end) THEN "aim" ELSE "scan"
  BY <1>5, <1>8, Zenon DEF ScanFurther
<1>11. s.end \in 0 .. c /\ (e \in Proofs => s.ok = TRUE) /\ (~ s.ok => s.end = 0)
  <2>1. CASE e \in Proofs
    BY <1>7, <1>9, <2>1, ScanFinds
  <2>2. CASE e \notin Proofs
    BY <1>3, <1>7, <1>9, <2>2, ForeignScan DEF Found
  <2>. QED
    BY <2>1, <2>2
<1>12. PICK g : g = (~ s.ended /\ AtLimit(s.end))
  OBVIOUS
<1>13. g \in BOOLEAN
  BY <1>12
<1>14. span' = IF ~ s.ok THEN Unaimable ELSE [span EXCEPT !.end = s.end, !.capped = g]
  BY <1>10, <1>12, Zenon
<1>15. /\ span' \in [end : Nat, capped : BOOLEAN, known : BOOLEAN] /\ span'.end = s.end
       /\ s.ok => span'.known = span.known /\ span'.capped = g
  <2>1. s.end \in Nat /\ span \in [end : Nat, capped : BOOLEAN, known : BOOLEAN]
    BY <1>1, <1>7, <1>11
  <2>2. CASE s.ok
    <3>1. PICK x : x = s.end
      OBVIOUS
    <3>2. PICK z : z = [span EXCEPT !.end = x, !.capped = g]
      OBVIOUS
    <3>3. z \in [end : Nat, capped : BOOLEAN, known : BOOLEAN] /\ z.end = x /\ z.known = span.known /\ z.capped = g
      BY <1>13, <2>1, <3>1, <3>2
    <3>4. span' = z
      BY <1>14, <2>2, <3>1, <3>2, Zenon
    <3>. QED
      BY <3>1, <3>3, <3>4
  <2>3. CASE ~ s.ok
    BY <1>11, <1>14, <2>3 DEF Unaimable
  <2>. QED
    BY <2>2, <2>3
<1>16. StreamTypes'
  <2>1. stage' \in {"scan", "aim", "copy", "sent", "cut"}
    BY <1>10
  <2>2. buffered' \in 0 .. Len(encoding')
    BY <1>3, <1>5, <1>7
  <2>. QED
    BY <1>1, <1>15, <2>1, <2>2 DEF StreamTypes
<1>17. ASSUME e \in Proofs
       PROVE  /\ s.ok = TRUE /\ span'.known
              /\ stage' = "scan" => ~ s.ended /\ s.end < ScanLimit
              /\ stage' # "scan" /\ ~ span'.capped => s.ended
  <2>1. s.ok = TRUE /\ span'.known
    BY <1>1, <1>2, <1>11, <1>15, <1>17
  <2>2. stage' = IF s.ended \/ AtLimit(s.end) THEN "aim" ELSE "scan"
    BY <1>10, <2>1
  <2>3. s.end \in Nat /\ ScanLimit \in Nat
    BY <1>7, <1>11, StreamNumbers
  <2>4. AtLimit(s.end) <=> s.end >= ScanLimit
    BY DEF AtLimit
  <2>5. stage' = "scan" => ~ s.ended /\ s.end < ScanLimit
    BY <2>2, <2>3, <2>4
  <2>6. stage' # "scan" /\ ~ span'.capped => s.ended
    BY <1>12, <1>15, <2>1, <2>2
  <2>. QED
    BY <2>1, <2>5, <2>6
<1>18. ScanStands'
  <2>1. Found(encoding', buffered') = s
    BY <1>3, <1>5, <1>9
  <2>2. /\ span'.end = s.end
        /\ encoding' \in Proofs => span'.known
        /\ encoding' \in Proofs /\ stage' = "scan" => ~ s.ended /\ (buffered' = 0 \/ span'.end < ScanLimit)
        /\ encoding' \in Proofs /\ stage' # "scan" /\ ~ broken' /\ idle' < IdleReads /\ ~ span'.capped =>
             s.ended \/ buffered' = Len(encoding')
    BY <1>3, <1>15, <1>17
  <2>. QED
    BY <2>1, <2>2 DEF ScanStands
<1>19. AimStands'
  <2>1. stage' \in {"scan", "aim"}
    BY <1>10
  <2>. QED
    BY <1>1, <2>1 DEF AimStands
<1>20. SentStands'
  <2>1. stage' # "sent"
    BY <1>10
  <2>2. sent' = <<>> /\ <<>> \in Seq(Unit) /\ Len(<<>>) = 0
    BY <1>1
  <2>. QED
    BY <1>3, <2>1, <2>2 DEF SentStands
<1>21. HeldIsBounded'
  <2>1. SUFFICES ASSUME e \in Proofs PROVE c < ScanLimit + Len(ElementOf(1, LabelUnits)) + Max(ReadSizes)
    BY <1>3, <1>5 DEF HeldIsBounded
  <2>2. /\ Len(ElementOf(1, LabelUnits)) = ElementPart(LabelUnits) /\ ElementPart(LabelUnits) \in Nat
        /\ ElementPart(LabelUnits) >= 8 /\ ScanLimit \in Nat
    BY StreamNumbers, PartsAreNumbers, ElementIs, 1 \in {1, 2, 3}
  <2>3. buffered < span.end + ElementPart(LabelUnits) /\ span.end \in Nat
    BY <1>1, <1>2, <1>4, <2>1, ScanFinds
  <2>4. buffered = 0 \/ span.end < ScanLimit
    BY <1>4, <2>1
  <2>. QED
    BY <1>6, <1>7, <2>2, <2>3, <2>4
<1>. QED
  BY <1>16, <1>18, <1>19, <1>20, <1>21 DEF StreamInv

(* Where the scan ends with nothing more read, nothing is left to read, or *)
(* it is on record why.                                                    *)
LEMMA ScanEndsKeeps ==
  ASSUME StreamInv, stage = "scan", stage' \in {"scan", "aim"}, idle' \in Nat,
         stage' = "aim" => broken \/ buffered = Len(encoding) \/ ~ (idle' < IdleReads),
         UNCHANGED <<encoding, declared, canary, buffered, span, aim, sent, broken>>
  PROVE  StreamInv'
<1>1. StreamTypes'
  BY DEF StreamInv, StreamTypes
<1>2. ScanStands'
  BY DEF StreamInv, ScanStands
<1>3. AimStands'
  BY DEF StreamInv, AimStands
<1>4. SentStands'
  BY DEF StreamInv, SentStands
<1>5. HeldIsBounded'
  BY DEF StreamInv, HeldIsBounded
<1>. QED
  BY <1>1, <1>2, <1>3, <1>4, <1>5 DEF StreamInv

(* So does a connection that breaks.                                       *)
LEMMA BreaksKeeps == ASSUME StreamInv, Breaks PROVE StreamInv'
<1>1. StreamTypes'
  BY DEF StreamInv, StreamTypes, Breaks
<1>2. ScanStands'
  BY DEF StreamInv, ScanStands, Breaks
<1>3. AimStands'
  BY DEF StreamInv, AimStands, Breaks, Aimed, Anywhere, Lookahead, Region
<1>4. SentStands'
  BY DEF StreamInv, SentStands, Breaks
<1>5. HeldIsBounded'
  BY DEF StreamInv, HeldIsBounded, Breaks
<1>. QED
  BY <1>1, <1>2, <1>3, <1>4, <1>5 DEF StreamInv

(* So does the aim of a canary.                                            *)
LEMMA AimKeeps == ASSUME StreamInv, Aim PROVE StreamInv'
<1>1. /\ stage = "aim" /\ stage' = "copy"
      /\ UNCHANGED <<encoding, declared, canary, buffered, idle, span, sent, broken>>
      /\ IF canary THEN aim' \in Aimed \cup Anywhere ELSE aim' = aim
  BY DEF Aim
<1>2. StreamTypes'
  BY <1>1 DEF StreamInv, StreamTypes
<1>3. ScanStands'
  BY <1>1 DEF StreamInv, ScanStands
<1>4. AimStands'
  <2>1. Aimed' = Aimed /\ Anywhere' = Anywhere
    BY <1>1 DEF Aimed, Anywhere, Lookahead, Region
  <2>2. ~ canary' => aim' = NoAim
    BY <1>1 DEF StreamInv, AimStands
  <2>3. canary' => aim' \in (Aimed \cup Anywhere)'
    BY <1>1, <2>1
  <2>. QED
    BY <1>1, <2>2, <2>3 DEF AimStands
<1>5. SentStands'
  <2>1. sent = <<>>
    BY <1>1 DEF StreamInv, AimStands
  <2>2. Len(encoding) \in Nat
    BY EncodingIs DEF StreamInv, StreamTypes
  <2>3. sent' = <<>> /\ <<>> \in Seq(Unit) /\ Len(<<>>) = 0
    BY <1>1, <2>1
  <2>. QED
    BY <1>1, <2>2, <2>3 DEF SentStands
<1>6. HeldIsBounded'
  BY <1>1 DEF StreamInv, HeldIsBounded
<1>. QED
  BY <1>2, <1>3, <1>4, <1>5, <1>6 DEF StreamInv

(* What goes out is the encoding, whatever of it was read ahead.           *)
LEMMA GoesOut ==
  ASSUME StreamTypes
  PROVE  Outgoing = encoding
<1>1. /\ encoding \in Seq(Unit) /\ Len(encoding) \in Nat /\ buffered \in 0 .. Len(encoding)
  BY EncodingIs DEF StreamTypes
<1>2. PICK e, b, n : e = encoding /\ b = buffered /\ n = Len(e)
  OBVIOUS
<1>3. e \in Seq(Unit) /\ 1 \in 1 .. Len(e) + 1 /\ b \in 1 - 1 .. Len(e) /\ Len(e) \in b .. Len(e) /\ Len(e) \in Nat
  BY <1>1, <1>2
<1>4. SubSeq(e, 1, b) \o SubSeq(e, b + 1, Len(e)) = SubSeq(e, 1, Len(e))
  BY <1>3, ConcatAdjacentSubSeq
<1>5. SubSeq(e, 1, Len(e)) = e
  BY <1>3, SubSeqFull
<1>. QED
  BY <1>2, <1>4, <1>5 DEF Outgoing, Lookahead

(* A flipped unit is a unit, and no size but the one it was.               *)
LEMMA FlippedIsUnit ==
  ASSUME NEW u \in Unit
  PROVE  Flipped(u) \in Unit /\ (Flipped(u).kind = "size" => u.kind = "size" /\ Flipped(u) = u)
<1>1. CASE u.kind = "payload"
  <2>1. Flipped(u) = [u EXCEPT !.n = - u.n]
    BY <1>1 DEF Flipped
  <2>2. Flipped(u) \in Unit /\ Flipped(u).kind = "payload"
    BY <1>1, <2>1 DEF Unit
  <2>. QED
    BY <2>2
<1>2. CASE u.kind # "payload"
  <2>1. Flipped(u) = [kind |-> "garbled", n |-> u.n]
    BY <1>2 DEF Flipped
  <2>2. Flipped(u) \in Unit /\ Flipped(u).kind = "garbled"
    BY <2>1 DEF Unit
  <2>. QED
    BY <2>2
<1>. QED
  BY <1>1, <1>2

(* So does every piece that is copied out, at whatever unit it begins.     *)
LEMMA CopyKeeps == ASSUME StreamInv, Copy PROVE StreamInv'
<1>. DEFINE out(i) == IF i - 1 = aim.at THEN Flipped(encoding[i]) ELSE encoding[i]
            available == IF broken THEN Min({buffered, Len(Outgoing)}) ELSE Len(Outgoing)
            pos == Len(sent)
<1>1. /\ stage = "copy" /\ UNCHANGED <<encoding, declared, canary, buffered, idle, span, aim, broken>>
      /\ IF pos < available
         THEN /\ \E n \in ReadSizes :
                   sent' = sent \o [i \in 1..Min({n, available - pos}) |->
                                       IF pos + i - 1 = aim.at THEN Flipped(Outgoing[pos + i]) ELSE Outgoing[pos + i]]
              /\ stage' = stage
         ELSE stage' = (IF broken THEN "cut" ELSE "sent") /\ sent' = sent
  BY DEF Copy
<1>2. /\ encoding \in Encoding /\ encoding \in Seq(Unit) /\ Len(encoding) \in Nat /\ buffered \in 0 .. Len(encoding)
      /\ sent \in Seq(Unit) /\ pos \in Nat /\ pos <= Len(encoding) /\ \A i \in 1 .. pos : sent[i] = out(i)
  BY EncodingIs DEF StreamInv, StreamTypes, SentStands
<1>3. Outgoing = encoding
  BY GoesOut DEF StreamInv
<1>4. available \in Nat /\ available <= Len(encoding) /\ (~ broken => available = Len(encoding))
  <2>1. buffered \in Nat
    BY <1>2
  <2>2. Min({buffered, Len(encoding)}) \in {buffered, Len(encoding)}
    BY <1>2, <2>1, LesserOf
  <2>. QED
    BY <1>2, <1>3, <2>1, <2>2
<1>5. \A i \in 1 .. Len(encoding) : out(i) \in Unit
  BY <1>2, FlippedIsUnit
<1>. HIDE DEF available
<1>6. stage' \in {"copy", "sent", "cut"}
  BY <1>1
<1>7. StreamTypes'
  BY <1>1, <1>6 DEF StreamInv, StreamTypes
<1>8. ScanStands'
  BY <1>1, <1>6 DEF StreamInv, ScanStands
<1>9. AimStands'
  <2>1. Aimed' = Aimed /\ Anywhere' = Anywhere
    BY <1>1 DEF Aimed, Anywhere, Lookahead, Region
  <2>. QED
    BY <1>1, <1>6, <2>1 DEF StreamInv, AimStands
<1>10. HeldIsBounded'
  BY <1>1 DEF StreamInv, HeldIsBounded
<1>11. SentStands'
  <2>1. CASE pos < available
    <3>1. PICK n \in ReadSizes :
            sent' = sent \o [i \in 1..Min({n, available - pos}) |->
                                IF pos + i - 1 = aim.at THEN Flipped(encoding[pos + i]) ELSE encoding[pos + i]]
      BY <1>1, <1>3, <2>1
    <3>2. PICK k : k = Min({n, available - pos})
      OBVIOUS
    <3>3. k \in Nat /\ pos + k <= Len(encoding)
      <4>1. n \in Nat /\ available - pos \in Nat
        BY <1>2, <1>4, <2>1, StreamNumbers
      <4>2. k \in {n, available - pos} /\ k <= available - pos
        BY <3>2, <4>1, LesserOf
      <4>. QED
        BY <1>2, <1>4, <4>1, <4>2
    <3>. DEFINE t == [i \in 1 .. k |-> out(pos + i)]
    <3>4. sent' = sent \o t
      <4>. DEFINE y(i) == IF pos + i - 1 = aim.at THEN Flipped(encoding[pos + i]) ELSE encoding[pos + i]
      <4>1. \A i \in 1 .. k : y(i) = out(pos + i)
        OBVIOUS
      <4>2. sent' = sent \o [i \in 1 .. k |-> y(i)]
        BY <3>1, <3>2, Zenon
      <4>. HIDE DEF y, out
      <4>3. [i \in 1 .. k |-> y(i)] = [i \in 1 .. k |-> out(pos + i)]
        BY <4>1
      <4>. QED
        BY <4>2, <4>3, Zenon
    <3>5. t \in Seq(Unit) /\ Len(t) = k /\ \A i \in 1 .. k : t[i] = out(pos + i)
      <4>1. \A i \in 1 .. k : pos + i \in 1 .. Len(encoding)
        BY <1>2, <3>3
      <4>2. \A i \in 1 .. k : out(pos + i) \in Unit
        BY <1>5, <4>1
      <4>. HIDE DEF out
      <4>. QED
        BY <3>3, <4>2
    <3>. HIDE DEF t, out
    <3>6. /\ sent \o t \in Seq(Unit) /\ Len(sent \o t) = Len(sent) + Len(t)
          /\ \A i \in 1 .. Len(sent) + Len(t) : (sent \o t)[i] = IF i <= Len(sent) THEN sent[i] ELSE t[i - Len(sent)]
      BY <1>2, <3>5, ConcatProperties, Zenon
    <3>7. PICK w : w = sent'
      OBVIOUS
    <3>8. /\ w \in Seq(Unit) /\ Len(w) = pos + k
          /\ \A i \in 1 .. pos + k : w[i] = IF i <= pos THEN sent[i] ELSE t[i - pos]
      BY <3>4, <3>5, <3>6, <3>7, Zenon
    <3>9. ASSUME NEW i \in 1 .. pos + k PROVE w[i] = out(i)
      <4>1. CASE i <= pos
        <5>1. i \in 1 .. pos
          BY <1>2, <4>1
        <5>. QED
          BY <1>2, <3>8, <4>1, <5>1
      <4>2. CASE ~ (i <= pos)
        <5>1. i - pos \in 1 .. k /\ pos + (i - pos) = i
          BY <1>2, <3>3, <4>2
        <5>. QED
          BY <3>5, <3>8, <4>2, <5>1
      <4>. QED
        BY <4>1, <4>2
    <3>10. stage' = "copy"
      BY <1>1, <2>1
    <3>11. Len(w) <= Len(encoding)
      BY <3>3, <3>8
    <3>12. \A i \in 1 .. Len(sent') : sent'[i] = IF i - 1 = aim'.at THEN Flipped(encoding'[i]) ELSE encoding'[i]
      BY <1>1, <3>7, <3>8, <3>9 DEF out
    <3>. QED
      BY <1>1, <3>7, <3>8, <3>10, <3>11, <3>12 DEF SentStands
  <2>2. CASE ~ (pos < available)
    <3>1. stage' = (IF broken THEN "cut" ELSE "sent") /\ sent' = sent
      BY <1>1, <2>2
    <3>2. stage' = "sent" => ~ broken /\ Len(sent) = Len(encoding)
      BY <1>2, <1>4, <2>2, <3>1
    <3>. QED
      BY <1>1, <1>2, <3>1, <3>2 DEF SentStands
  <2>. QED
    BY <2>1, <2>2
<1>. QED
  BY <1>7, <1>8, <1>9, <1>10, <1>11 DEF StreamInv

(* Every step keeps it.                                                    *)
LEMMA StreamKeeps == StreamInv /\ [StreamNext]_streamVars => StreamInv'
<1>. SUFFICES ASSUME StreamInv, [StreamNext]_streamVars PROVE StreamInv'
  OBVIOUS
<1>1. CASE ReadSome
  BY <1>1, ReadSomeKeeps
<1>2. CASE ReadNothing
  <2>1. idle \in Nat
    BY DEF StreamInv, StreamTypes
  <2>2. /\ stage = "scan" /\ idle' = idle + 1 /\ stage' = IF idle' < IdleReads THEN "scan" ELSE "aim"
        /\ UNCHANGED <<encoding, declared, canary, buffered, span, aim, sent, broken>>
    BY <1>2 DEF ReadNothing
  <2>3. stage' \in {"scan", "aim"} /\ idle' \in Nat /\ (stage' = "aim" => ~ (idle' < IdleReads))
    BY <2>1, <2>2
  <2>. QED
    BY <2>2, <2>3, ScanEndsKeeps
<1>3. CASE ReadFails
  <2>1. idle \in Nat
    BY DEF StreamInv, StreamTypes
  <2>. QED
    BY <1>3, <2>1, ScanEndsKeeps DEF ReadFails
<1>4. CASE Breaks
  BY <1>4, BreaksKeeps
<1>5. CASE Aim
  BY <1>5, AimKeeps
<1>6. CASE Copy
  BY <1>6, CopyKeeps
<1>7. CASE UNCHANGED streamVars
  <2>1. UNCHANGED <<encoding, declared, canary, stage, buffered, idle, span, aim, sent, broken>>
    BY <1>7 DEF streamVars
  <2>2. StreamTypes' /\ ScanStands' /\ SentStands' /\ HeldIsBounded'
    BY <2>1 DEF StreamInv, StreamTypes, ScanStands, SentStands, HeldIsBounded
  <2>3. AimStands'
    BY <2>1 DEF StreamInv, AimStands, Aimed, Anywhere, Lookahead, Region
  <2>. QED
    BY <2>2, <2>3 DEF StreamInv
<1>. QED
  BY <1>1, <1>2, <1>3, <1>4, <1>5, <1>6, <1>7 DEF StreamNext

(* What it says of the five.                                               *)
LEMMA SentIsWhole == ASSUME StreamInv PROVE NothingIsLost
<1>1. /\ sent \in Seq(Unit) /\ Len(sent) <= Len(encoding) /\ Len(encoding) \in Nat
      /\ \A i \in 1 .. Len(sent) : sent[i] = IF i - 1 = aim.at THEN Flipped(encoding[i]) ELSE encoding[i]
      /\ stage = "sent" => Len(sent) = Len(encoding)
      /\ ~ canary => aim = NoAim
  BY EncodingIs DEF StreamInv, StreamTypes, SentStands, AimStands
<1>2. ASSUME NEW i \in DOMAIN sent
      PROVE  i <= Len(encoding) /\ sent[i] = (IF canary /\ i - 1 = aim.at THEN Flipped(encoding[i]) ELSE encoding[i])
  <2>1. i \in 1 .. Len(sent) /\ i \in Nat \ {0} /\ Len(sent) \in Nat
    BY <1>1
  <2>2. ~ canary => i - 1 # aim.at
    BY <1>1, <2>1 DEF NoAim
  <2>. QED
    BY <1>1, <2>1, <2>2
<1>. QED
  BY <1>1, <1>2 DEF NothingIsLost

(* Where the scan stands, and what it found.                               *)
LEMMA ScanIsWhole == ASSUME StreamInv PROVE ResumedScanIsTheScan
<1>1. /\ encoding \in Proofs \cup Foreign /\ buffered \in 0 .. Len(encoding)
      /\ span.end = Found(encoding, buffered).end /\ (encoding \in Proofs => span.known)
      /\ stage = "sent" => ~ broken
      /\ encoding \in Proofs /\ stage # "scan" /\ ~ broken /\ idle < IdleReads /\ ~ span.capped =>
           Found(encoding, buffered).ended \/ buffered = Len(encoding)
  BY DEF StreamInv, StreamTypes, ScanStands, SentStands
<1>2. span.end = ScanLeading(Lookahead, 1, 0).end
  BY <1>1 DEF Found, Lookahead
<1>3. ASSUME stage = "sent", ~ span.capped, idle < IdleReads, encoding \in Proofs
      PROVE  FieldRanges(encoding, 1) = (IF span.end = 0 THEN <<>> ELSE <<<<0, span.end>>>>)
  BY <1>1, <1>3, ScanFinds
<1>. QED
  BY <1>1, <1>2, <1>3 DEF ResumedScanIsTheScan

(* An aimed canary took payload of what the scan found.                    *)
LEMMA AimedIs ==
  ASSUME StreamInv, encoding \in Proofs, aim.aimed
  PROVE  /\ canary /\ aim.region = "inserted"
         /\ aim.at \in PayloadOffsets(SubSeq(encoding, 1, Found(encoding, buffered).end), 1)
<1>1. /\ buffered \in 0 .. Len(encoding) /\ span.end = Found(encoding, buffered).end
      /\ encoding \in Encoding
  BY EncodingIs DEF StreamInv, StreamTypes, ScanStands
<1>2. aim # NoAim
  BY DEF NoAim
<1>3. canary /\ aim \in Aimed \cup Anywhere
  BY <1>2 DEF StreamInv, AimStands
<1>4. \A a \in Anywhere : a.aimed = FALSE
  BY DEF Anywhere
<1>5. aim \in Aimed
  BY <1>3, <1>4
<1>6. PICK b : b = PayloadOffsets(SubSeq(Lookahead, 1, span.end), 1)
  OBVIOUS
<1>7. aim \in {[at |-> x, region |-> "inserted", aimed |-> TRUE] : x \in b}
  BY <1>5, <1>6 DEF Aimed
<1>8. aim.at \in b /\ aim.region = "inserted"
  BY <1>7
<1>9. SubSeq(Lookahead, 1, span.end) = SubSeq(encoding, 1, Found(encoding, buffered).end)
  <2>1. span.end \in 0 .. buffered
    BY <1>1, ScanFinds
  <2>. QED
    BY <1>1, <2>1, FrontOfFront DEF Lookahead
<1>. QED
  BY <1>3, <1>6, <1>8, <1>9

(* It decodes but for one element.                                         *)
LEMMA CanaryIsWhole == ASSUME StreamInv PROVE CanaryStillDecodes
<1>. SUFFICES ASSUME aim.aimed, stage = "sent", encoding \in Proofs PROVE OneApart(Decode(encoding), Decode(sent))
  BY Zenon DEF CanaryStillDecodes, OneApart
<1>1. PICK c : c = buffered
  OBVIOUS
<1>2. /\ c \in 0 .. Len(encoding) /\ encoding \in Seq(Unit) /\ Len(encoding) \in Nat
      /\ sent \in Seq(Unit) /\ Len(sent) = Len(encoding)
      /\ \A i \in 1 .. Len(sent) : sent[i] = IF i - 1 = aim.at THEN Flipped(encoding[i]) ELSE encoding[i]
  BY <1>1, EncodingIs DEF StreamInv, StreamTypes, SentStands
<1>3. aim.at \in PayloadOffsets(SubSeq(encoding, 1, Found(encoding, c).end), 1)
  BY <1>1, AimedIs
<1>4. PICK at \in PayloadOffsets(SubSeq(encoding, 1, Found(encoding, c).end), 1) : at = aim.at
  BY <1>3
<1>5. /\ at \in Int
      /\ \A x \in Encoding :
           Len(x) = Len(encoding)
             /\ (\A i \in 1 .. Len(encoding) : x[i] = IF i = at + 1 THEN Flipped(encoding[i]) ELSE encoding[i]) =>
           OneApart(Decode(encoding), Decode(x))
  BY <1>2, <1>4, PayloadFlipped
<1>6. sent \in Encoding
  <2>1. encoding \in Encoding
    BY EncodingIs
  <2>2. ASSUME NEW i \in 1 .. Len(sent), sent[i].kind = "size" PROVE sent[i].n >= 0
    <3>1. encoding[i] \in Unit
      BY <1>2
    <3>2. sent[i] = Flipped(encoding[i]) \/ sent[i] = encoding[i]
      BY <1>2
    <3>3. encoding[i].kind = "size" /\ sent[i] = encoding[i]
      BY <2>2, <3>1, <3>2, FlippedIsUnit
    <3>. QED
      BY <1>2, <2>1, <3>3 DEF Encoding
  <2>. QED
    BY <1>2, <2>2 DEF Encoding
<1>7. \A i \in 1 .. Len(encoding) : sent[i] = IF i = at + 1 THEN Flipped(encoding[i]) ELSE encoding[i]
  <2>1. \A i \in 1 .. Len(encoding) : i - 1 = aim.at <=> i = at + 1
    BY <1>2, <1>4, <1>5
  <2>. QED
    BY <1>2, <2>1
<1>. QED
  BY <1>2, <1>5, <1>6, <1>7

(* A unit is in the region it was logged under.                            *)
LEMMA RegionIsWhole == ASSUME StreamInv PROVE RegionIsTrue
<1>. SUFFICES ASSUME canary, stage = "sent", encoding \in Proofs, idle < IdleReads,
                     NEW r \in ToSet(Frames(encoding, 0, Len(encoding))), r.start <= aim.at, aim.at < r.end
              PROVE  (aim.region = "inserted" => r.field = 1) /\ (aim.region = "unchanged" => r.field = 2)
  BY Zenon DEF RegionIsTrue
<1>1. /\ buffered \in 0 .. Len(encoding) /\ span.end = Found(encoding, buffered).end /\ span.known
      /\ aim \in Aimed \cup Anywhere
      /\ ~ span.capped => Found(encoding, buffered).ended \/ buffered = Len(encoding)
  BY DEF StreamInv, StreamTypes, ScanStands, AimStands, SentStands
<1>2. PICK c, at : c = buffered /\ at = aim.at
  OBVIOUS
<1>3. CASE aim.aimed
  <2>1. aim.region = "inserted" /\ at \in PayloadOffsets(SubSeq(encoding, 1, Found(encoding, c).end), 1)
    BY <1>2, <1>3, AimedIs
  <2>2. at \in Int /\ at < Found(encoding, c).end /\ c \in 0 .. Len(encoding)
    BY <1>1, <1>2, <2>1, PayloadFlipped
  <2>3. r.field = 1
    BY <1>2, <2>2, ScanParts
  <2>. QED
    BY <2>1, <2>3
<1>4. CASE ~ aim.aimed
  <2>1. aim \in Anywhere
    BY <1>1, <1>4 DEF Aimed
  <2>2. /\ at \in Int /\ aim.region = Region(at)
    <3>1. Len(encoding) \in Nat
      BY EncodingIs
    <3>2. PICK x \in IF declared THEN 0..(Len(encoding) - 1) ELSE {0} : aim = [at |-> x, region |-> Region(x), aimed |-> FALSE]
      BY <2>1, Zenon DEF Anywhere
    <3>3. x \in Int /\ aim.at = x /\ aim.region = Region(x)
      BY <3>1, <3>2
    <3>. QED
      BY <1>2, <3>3
  <2>3. aim.region = "inserted" => at < Found(encoding, c).end
    BY <1>1, <1>2, <2>2 DEF Region
  <2>4. aim.region = "unchanged" => ~ (at < Found(encoding, c).end) /\ (Found(encoding, c).ended \/ c = Len(encoding))
    BY <1>1, <1>2, <2>2 DEF Region
  <2>. QED
    BY <1>1, <1>2, <2>2, <2>3, <2>4, ScanParts
<1>. QED
  BY <1>3, <1>4

(* A proof streamed to a worker arrives whole, or with the one bit flipped *)
(* that a canary means to flip, and what is held of it stays bounded       *)
(* (readInserted, pickCanaryBit and copyFlipping of proofs.go).            *)
THEOREM StreamStaysWhole == StreamSpec => []StreamIsWhole
<1>1. StreamInit => StreamInv
  BY StreamStarts
<1>2. StreamInv /\ [StreamNext]_streamVars => StreamInv'
  BY StreamKeeps
<1>3. StreamInv => StreamIsWhole
  BY SentIsWhole, ScanIsWhole, CanaryIsWhole, RegionIsWhole DEF StreamInv, StreamIsWhole
<1>. QED
  BY <1>1, <1>2, <1>3, PTL DEF StreamSpec
=============================================================================
