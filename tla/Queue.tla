------------------------------- MODULE Queue -------------------------------
(***************************************************************************)
(* The work queue (src/internal/work/work.go): who holds which epochs of   *)
(* which log, and when an epoch that failed may be handed out again.  The  *)
(* queue lists no pending work.  It asks a Source, here the proofs on disk *)
(* (ready), and it asks without its lock, so that leases, cursors and the  *)
(* cache move between the question and the use of the answer.              *)
(*                                                                         *)
(* Clocks are abstract: a lease lapses and a backoff passes at any time.   *)
(***************************************************************************)
EXTENDS Integers, Sequences, FiniteSets, SequencesExt

CONSTANTS Workers,      \* those that ask for work
          Origins,      \* logs whose epochs are handed out
          Epochs,       \* epoch numbers of every log
          MaxAttempts,  \* maxAttempts: failures until an epoch is given up
          MaxProbes,    \* maxProbes: runs looked at per log and request
          Ids           \* bound: leases that can be live or referred to at once

ASSUME QueueAssumption ==
    /\ Epochs \subseteq Nat /\ IsFiniteSet(Epochs)
    /\ MaxAttempts \in Nat \ {0} /\ MaxProbes \in Nat \ {0}

VARIABLES leased,    \* the live leases
          retry,     \* failed epochs waiting to be offered again, in order
          deferred,  \* keys whose backoff has not passed
          attempts,  \* failures of a key since its last success or give-up
          cursor,    \* where the scan of a log has got to
          quiet,     \* logs that answered "nothing" a moment ago
          call,      \* per worker: its call of Lease, if the lock is not held
          ready      \* keys whose proof is on disk

queueVars == <<leased, retry, deferred, attempts, cursor, quiet, call>>

Keys == Origins \X Epochs

Lease == [id: Ids, origin: Origins, from: Epochs, to: Epochs, worker: Workers,
          retry: BOOLEAN,            \* a retry; else a run of the Source
          late: BOOLEAN,             \* past its deadline
          reported: SUBSET Epochs]   \* epochs that came back

Retry == [key: Keys, due: BOOLEAN]

(* A call of Lease that has let go of the lock: the log it scans, where it *)
(* scans from, the run the Source found, how often it has looked, and the  *)
(* logs it has still to try.                                               *)
Idle == [pc |-> "idle"]
Scanning == [pc: {"scan"}, want: Nat, origin: Origins, at: Nat,
             run: {<<>>} \cup (Epochs \X Epochs), probes: 1..MaxProbes,
             left: SUBSET Origins]

KeysOf(a) == {a.origin} \X (a.from .. a.to)
LeasedKeys(L) == UNION {KeysOf(a) : a \in L}

----------------------------------------------------------------------------

(* Prefetcher.Ready: the first key on disk at or after at, as far as it    *)
(* runs without a gap, at most n long; <<>> when there is none.            *)
ReadyRun(o, at, n) ==
    LET from == {e \in Epochs : <<o, e>> \in ready /\ e >= at}
        first == CHOOSE e \in from : \A f \in from : e <= f
        last == CHOOSE l \in first .. first + n - 1 :
                    /\ \A e \in first .. l : <<o, e>> \in ready
                    /\ \/ l = first + n - 1
                       \/ <<o, l + 1>> \notin ready
    IN IF from = {} THEN <<>> ELSE <<first, last>>

(* scanFor: from at, and once from the bottom if that found nothing.       *)
Scan(o, at, n) ==
    IF ReadyRun(o, at, n) # <<>> THEN ReadyRun(o, at, n) ELSE ReadyRun(o, 0, n)

(* trimLeasedLocked: past every lease that covers the start, then up to    *)
(* the next lease.  An empty run has from > to.                            *)
Trim(taken, o, from, to) ==
    LET start == CHOOSE s \in from .. to + 1 :
                    /\ s = to + 1 \/ <<o, s>> \notin taken
                    /\ \A e \in from .. s - 1 : <<o, e>> \in taken
        stop == CHOOSE t \in start - 1 .. to :
                    /\ t = to \/ <<o, t + 1>> \in taken
                    /\ \A e \in start .. t : <<o, e>> \notin taken
    IN <<start, stop>>

(* Variant: a run is cut at its front only.                                *)
TrimLeasedFront(L, o, from, to) == <<Trim(LeasedKeys(L), o, from, to)[1], to>>

TrimLeased(L, o, from, to) == Trim(LeasedKeys(L), o, from, to)

(* trimDeferredLocked: past the keys that serve a backoff, then up to the  *)
(* next of them.                                                           *)
TrimDeferred(D, o, from, to) == Trim(D, o, from, to)

(* Variant: backoffs are not looked at.                                    *)
FreeRunBackoffIgnored(L, D, o, run) == TrimLeased(L, o, run[1], run[2])

(* What of a run may be handed out.                                        *)
FreeRun(L, D, o, run) ==
    LET r == TrimLeased(L, o, run[1], run[2]) IN TrimDeferred(D, o, r[1], r[2])

Free(r) == r[1] <= r[2]

(* Where the scan goes on after a run of which nothing is free: past the   *)
(* lease that covers its end, or past the part that no lease covers, which *)
(* then serves a backoff; never back.                                      *)
Resume(L, o, run, at) ==
    LET r == TrimLeased(L, o, run[1], run[2])
        over == {a \in L : <<o, run[2]>> \in KeysOf(a)}
        next == IF Free(r) THEN r[2] + 1 ELSE (CHOOSE a \in over : TRUE).to + 1
    IN IF next <= at THEN run[2] + 1 ELSE next

(* reclaimLocked and releaseLocked: leases go, the cursor of their log is  *)
(* rewound to them, and the log is no longer quiet.                        *)
CursorAfter(gone) ==
    [o \in Origins |->
        LET back == {a.from : a \in {b \in gone : b.origin = o}} \cup {cursor[o]}
        IN CHOOSE c \in back : \A d \in back : c <= d]
QuietAfter(gone) == quiet \ {a.origin : a \in gone}

Released(gone) ==
    /\ leased' = leased \ gone
    /\ cursor' = CursorAfter(gone)
    /\ quiet' = QuietAfter(gone)

(* Variant: an expired lease is never reclaimed.                           *)
LateNever == {}

Late == {a \in leased : a.late}

----------------------------------------------------------------------------

QueueInit ==
    /\ leased = {} /\ retry = <<>> /\ deferred = {} /\ quiet = {}
    /\ attempts = [k \in Keys |-> 0]
    /\ cursor = [o \in Origins |-> 0]
    /\ call = [w \in Workers |-> Idle]

(* handOutLocked: the new lease, under an identifier nobody knows yet.     *)
NewLease(w, o, from, to, isRetry, known) ==
    [id |-> CHOOSE i \in Ids \ known : TRUE, origin |-> o, from |-> from, to |-> to,
     worker |-> w, retry |-> isRetry, late |-> FALSE, reported |-> {}]

DueIn(can) == {i \in DOMAIN retry : retry[i].due /\ retry[i].key[1] \in can}

(* Lease, a retry: the first that is due and that the worker can do.  The  *)
(* leases are not looked at.                                               *)
LeaseRetry(w, can, known) ==
    /\ call[w] = Idle /\ Ids \ known # {}
    /\ \E i \in DueIn(can) :
         /\ \A j \in DueIn(can) : i <= j
         /\ LET k == retry[i].key
            IN leased' = (leased \ Late)
                            \cup {NewLease(w, k[1], k[2], k[2], TRUE, known)}
         /\ retry' = RemoveAt(retry, i)
    /\ cursor' = CursorAfter(Late)
    /\ quiet' = QuietAfter(Late)
    /\ UNCHANGED <<deferred, attempts, call>>

(* One pass of the loop over the logs: the next log to ask that is not     *)
(* quiet, or no work.  Depth and rotation decide the order in the code;    *)
(* any order is allowed here.  The Source is read as the lock is let go.   *)
AskNext(w, want, left) ==
    \/ /\ left \subseteq quiet'
       /\ call' = [call EXCEPT ![w] = Idle]
    \/ \E o \in left \ quiet' :
         call' = [call EXCEPT ![w] =
                    [pc |-> "scan", want |-> want, origin |-> o, at |-> cursor'[o],
                     run |-> Scan(o, cursor'[o], want), probes |-> 1, left |-> left \ {o}]]

(* Lease, nothing to retry: asks the Source.                               *)
LeaseScan(w, can, want) ==
    /\ call[w] = Idle
    /\ DueIn(can) = {}
    /\ Released(Late)
    /\ AskNext(w, want, can)
    /\ UNCHANGED <<retry, deferred, attempts>>

(* Back under the lock: what the Source named is handed out as far as it   *)
(* is neither leased nor deferred by now.                                  *)
LeaseFound(w, known) ==
    LET c == call[w] IN
    /\ c # Idle /\ c.run # <<>> /\ Ids \ known # {}
    /\ LET r == FreeRun(leased, deferred, c.origin, c.run) IN
         /\ Free(r)
         /\ leased' = leased \cup {NewLease(w, c.origin, r[1], r[2], FALSE, known)}
         /\ cursor' = [cursor EXCEPT ![c.origin] = r[2] + 1]
    /\ call' = [call EXCEPT ![w] = Idle]
    /\ UNCHANGED <<retry, deferred, attempts, quiet>>

(* Back under the lock: nothing of the run is free, the cursor moves on    *)
(* and the Source is asked again, or the next log when probes run out.     *)
LookPast(w) ==
    LET c == call[w] IN
    /\ c # Idle /\ c.run # <<>>
    /\ ~Free(FreeRun(leased, deferred, c.origin, c.run))
    /\ LET at == Resume(leased, c.origin, c.run, c.at) IN
         /\ cursor' = [cursor EXCEPT ![c.origin] = IF at > @ THEN at ELSE @]
         /\ quiet' = quiet
         /\ IF c.probes < MaxProbes
            THEN call' = [call EXCEPT ![w] = [c EXCEPT !.at = at, !.probes = @ + 1,
                                                       !.run = Scan(c.origin, at, c.want)]]
            ELSE AskNext(w, c.want, c.left)
    /\ UNCHANGED <<leased, retry, deferred, attempts>>

(* Back under the lock: the Source had nothing, the log is left alone.     *)
NothingFound(w) ==
    LET c == call[w] IN
    /\ c # Idle /\ c.run = <<>>
    /\ quiet' = quiet \cup {c.origin}
    /\ cursor' = cursor
    /\ AskNext(w, c.want, c.left)
    /\ UNCHANGED <<leased, retry, deferred, attempts>>

(* Accept, inside the lease: the epoch is reported, the lease ends with    *)
(* its last epoch, and an answer that is not an error clears its backoff.  *)
Accept(a, e, isErr) ==
    LET b == [a EXCEPT !.reported = @ \cup {e}]
        k == <<a.origin, e>>
    IN /\ a \in leased /\ ~a.late /\ e \in a.from .. a.to
       /\ leased' = (leased \ {a})
                      \cup (IF b.reported = a.from .. a.to THEN {} ELSE {b})
       /\ IF isErr
          THEN UNCHANGED <<deferred, attempts>>
          ELSE deferred' = deferred \ {k} /\ attempts' = [attempts EXCEPT ![k] = 0]
       /\ UNCHANGED <<retry, cursor, quiet, call>>

(* Accept, past the deadline: the lease is released, the answer refused.   *)
RefuseLate(a) ==
    /\ a \in Late
    /\ Released({a})
    /\ UNCHANGED <<retry, deferred, attempts, call>>

(* Reschedule: back on the list with a backoff, or given up for a day.     *)
Reschedule(k) ==
    LET n == attempts[k] + 1 IN
    /\ deferred' = deferred \cup {k}
    /\ IF n >= MaxAttempts
       THEN /\ attempts' = [attempts EXCEPT ![k] = 0]
            /\ UNCHANGED retry
       ELSE /\ attempts' = [attempts EXCEPT ![k] = n]
            /\ retry' = Append(retry, [key |-> k, due |-> FALSE])
    /\ UNCHANGED <<leased, cursor, quiet, call>>

(* Stats, StatsFor, Depth, LeasedEpochs and LeasedBy reclaim before they   *)
(* look.                                                                   *)
Reclaim ==
    /\ Late # {}
    /\ Released(Late)
    /\ UNCHANGED <<retry, deferred, attempts, call>>

(* Time passes: over a lease, over a backoff, over a quiet log.  A retry   *)
(* and the deferral of its epoch are set to the same time.                 *)
LeaseLapses(a) ==
    /\ a \in leased /\ ~a.late
    /\ leased' = (leased \ {a}) \cup {[a EXCEPT !.late = TRUE]}
    /\ UNCHANGED <<retry, deferred, attempts, cursor, quiet, call>>

BackoffPasses(k) ==
    /\ k \in deferred
    /\ deferred' = deferred \ {k}
    /\ retry' = [i \in DOMAIN retry |->
                   IF retry[i].key = k THEN [retry[i] EXCEPT !.due = TRUE] ELSE retry[i]]
    /\ UNCHANGED <<leased, attempts, cursor, quiet, call>>

QuietPasses(o) ==
    /\ o \in quiet
    /\ quiet' = quiet \ {o}
    /\ UNCHANGED <<leased, retry, deferred, attempts, cursor, call>>

----------------------------------------------------------------------------

QueueTypeOK ==
    /\ leased \subseteq Lease
    /\ retry \in Seq(Retry)
    /\ deferred \subseteq Keys
    /\ attempts \in [Keys -> 0 .. MaxAttempts - 1]
    /\ cursor \in [Origins -> Nat]
    /\ quiet \subseteq Origins
    /\ call \in [Workers -> {Idle} \cup Scanning]

(* Leases cut from the Source never overlap: while Lease scans without the *)
(* lock another worker may be given the same run, and only the check after *)
(* it has the lock again (trimLeasedLocked) keeps them apart.  A retry is  *)
(* handed out without that check and may overlap.                          *)
RunsAreDisjoint ==
    \A a, b \in leased :
        a # b /\ ~a.retry /\ ~b.retry => KeysOf(a) \cap KeysOf(b) = {}

(* A run of the Source is cut so that it holds no epoch that is out with   *)
(* anybody or that serves a backoff, although both may have changed while  *)
(* the Source was being read (work.go:512-540).                            *)
HandsOutOnlyFree ==
    [][\A a \in leased' : a.id \notin {b.id : b \in leased} /\ ~a.retry =>
          KeysOf(a) \cap (LeasedKeys(leased) \cup deferred) = {}]_<<leased, deferred>>
============================================================================
