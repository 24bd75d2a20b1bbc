---------------------------- MODULE WorkChannel ----------------------------
(***************************************************************************)
(* The work channel: the queue, the workers that lease from it (the one in *)
(* the process and those on the network), the proof server with its        *)
(* canaries, and what the witness makes of an answer                       *)
(* (src/cmd/kt-witness/work.go, localworker.go, src/internal/workrpc,      *)
(* src/internal/work/runner.go).                                           *)
(*                                                                         *)
(* A worker reports the roots it computed.  The verdicts are what they     *)
(* come to once the witness compares them with the published roots.        *)
(***************************************************************************)
EXTENDS Queue

CONSTANTS Local,        \* the worker inside the process
          Broken,       \* workers whose arithmetic is wrong
          Bad,          \* keys whose published proof does not yield the published roots
          Parallel,     \* epochs a worker works on at once
          MaxFailures     \* bound: errors, late leases, flipped bits, lost connections, restarts

ASSUME ChannelAssumption ==
    /\ Local \in Workers /\ Broken \subseteq Workers /\ Bad \subseteq Keys
    /\ Parallel \in Nat \ {0}      \* the width is at least one (runner.go:184-197)

VARIABLES standing,  \* the audits bucket, by key
          found,     \* keys a finding names
          alive,     \* workers whose loop runs and whose stream is open
          jobs,      \* epochs handed to a worker and not yet answered
          handling,  \* per worker: its answer that the witness is dealing with
          canaries,  \* keys whose proof was served with a bit flipped
          blamed,    \* workers reported to have passed a corrupted proof
          failures   \* what has gone wrong so far

channelVars == <<standing, found, alive, jobs, handling, canaries, blamed, failures>>
workVars == <<queueVars, ready, channelVars>>

Remote == Workers \ {Local}
Verdicts == {"error", "match", "mismatch"}
None == [verdict |-> "none"]
Answer == [key: Keys, verdict: Verdicts, next: {"judge", "hole", "fork", "verified"}]
Job == [worker: Workers, id: Ids, key: Keys, proof: {"none", "served", "flipped"}]

JobsOf(w) == {j \in jobs : j.worker = w}
Known == {a.id : a \in leased} \cup {j.id : j \in jobs}
(* Something goes wrong, as often as the bound allows.                     *)
Fault(happens) ==
    IF happens THEN failures < MaxFailures /\ failures' = failures + 1 ELSE UNCHANGED failures

Writing(w, what) == handling[w] # None /\ handling[w].next = what

(* The generator downloads the proof of an epoch not yet verified; that    *)
(* may be one whose proof was released and whose verdict is being written. *)
Generate(k) ==
    /\ standing[k] # "verified" /\ k \notin ready
    /\ ready' = ready \cup {k}
    /\ Fault(\E w \in Workers : Writing(w, "verified") /\ handling[w].key = k)
    /\ UNCHANGED <<queueVars, standing, found, alive, jobs, handling, canaries, blamed>>

LeaseOf(j) == {a \in leased : a.id = j.id}

WorkInit ==
    /\ QueueInit
    /\ ready = Keys \* a cache as an earlier run left it
    /\ jobs = {} /\ canaries = {} /\ blamed = {} /\ found = {}
    /\ standing = [k \in Keys |-> "none"]
    /\ alive = Workers
    /\ handling = [w \in Workers |-> None]
    /\ failures = 0

----------------------------------------------------------------------------

(* Runner.Run: at or below one epoch per slot it asks for enough to have   *)
(* two.  The server asks the queue for a remote worker.                    *)
Want(w) == 2 * Parallel - Cardinality(JobsOf(w))
Asks(w) == w \in alive /\ Cardinality(JobsOf(w)) <= Parallel

(* What the queue hands out reaches the worker if it is still there; if it *)
(* is gone, the lease stays until it expires.                              *)
Receives(w) ==
    jobs' = jobs \cup
        IF w \notin alive THEN {}
        ELSE UNION {{[worker |-> w, id |-> a.id, key |-> k, proof |-> "none"] : k \in KeysOf(a)} :
                       a \in {b \in leased' : b.id \notin {c.id : c \in leased}}}

AskRetry(w) ==
    /\ Asks(w) /\ LeaseRetry(w, Origins, Known) /\ Receives(w)
    /\ UNCHANGED <<ready, standing, found, alive, handling, canaries, blamed, failures>>

AskSource(w) ==
    /\ Asks(w) /\ LeaseScan(w, Origins, Want(w))
    /\ UNCHANGED <<ready, channelVars>>

GivenRun(w) ==
    /\ LeaseFound(w, Known) /\ Receives(w)
    /\ UNCHANGED <<ready, standing, found, alive, handling, canaries, blamed, failures>>

KeepsLooking(w) ==
    /\ LookPast(w) \/ NothingFound(w)
    /\ UNCHANGED <<ready, channelVars>>

(* A worker stops on a range whose deadline it sees pass.                  *)
DropLate(j) ==
    /\ j \in jobs
    /\ \A a \in LeaseOf(j) : a.late
    /\ jobs' = jobs \ {j}
    /\ UNCHANGED <<queueVars, ready, standing, found, alive, handling, canaries, blamed, failures>>

(* ProofServer.serve: only a holder of a lease reads a proof, and any      *)
(* proof may be the one in a hundred that is served with a bit flipped.    *)
GetProof(j) ==
    /\ j \in jobs /\ j.worker \in Remote /\ j.proof = "none"
    /\ Released(Late)
    /\ \E a \in leased' : a.worker = j.worker /\ j.key \in KeysOf(a)
    /\ \E p \in {"served", "flipped"} :
         /\ jobs' = (jobs \ {j}) \cup {[j EXCEPT !.proof = p]}
         /\ canaries' = IF p = "flipped" THEN canaries \cup {j.key} ELSE canaries
         /\ Fault(p = "flipped")
    /\ UNCHANGED <<retry, deferred, attempts, call, ready, standing, found, alive,
                   handling, blamed>>

(* What the roots computed from a proof come to.  The local worker reads   *)
(* the operator's bytes itself.  A proof with a flipped bit never yields   *)
(* the published roots, nor does one the operator built wrongly.           *)
Computed(j) ==
    IF j.worker \in Broken \/ j.proof = "flipped" \/ j.key \in Bad
    THEN "mismatch" ELSE "match"

CanCompute(j) == j.worker = Local \/ j.proof # "none"

(* Runner.one and Server.handleResult: the answer arrives and the queue    *)
(* accepts it.  Answers of one worker are dealt with one at a time.        *)
Answered(j, v) ==
    /\ j \in jobs /\ handling[j.worker] = None
    /\ v = "error" \/ (CanCompute(j) /\ v = Computed(j))
    /\ \E a \in LeaseOf(j) : Accept(a, j.key[2], v = "error")
    /\ jobs' = jobs \ {j}
    /\ handling' = [handling EXCEPT ![j.worker] =
                      [key |-> j.key, verdict |-> v, next |-> "judge"]]
    /\ Fault(v = "error" \/ (v = "mismatch" /\ j.worker # Local /\ j.proof = "served"))
    /\ UNCHANGED <<ready, standing, found, alive, canaries, blamed>>

(* The queue refuses the answer: its lease has expired, or is gone.  A     *)
(* remote worker is told and goes on.  Runner.Run of the local worker      *)
(* takes the error for a stream that has gone, and ends.                   *)
Refused(j) ==
    /\ j \in jobs /\ handling[j.worker] = None
    /\ \/ \E a \in LeaseOf(j) : RefuseLate(a)
       \/ LeaseOf(j) = {} /\ UNCHANGED queueVars
    /\ IF j.worker = Local
       THEN alive' = alive \ {Local} /\ jobs' = jobs \ JobsOf(Local)
       ELSE jobs' = jobs \ {j} /\ UNCHANGED alive
    /\ UNCHANGED <<ready, standing, found, handling, canaries, blamed, failures>>

----------------------------------------------------------------------------

Then(w, next) ==
    handling' = [handling EXCEPT ![w] =
                   IF next = "done" THEN None ELSE [@ EXCEPT !.next = next]]

Judging(w) == handling[w] # None /\ handling[w].next = "judge"

(* recordWorkerResult.  A canary is judged by the key, whoever read the    *)
(* corrupted bytes: the answer is not recorded and the epoch goes back.    *)
JudgeCanary(w) ==
    LET h == handling[w] IN
    /\ Judging(w) /\ w \in Remote /\ h.key \in canaries
    /\ canaries' = canaries \ {h.key}
    /\ blamed' = IF h.verdict = "match" THEN blamed \cup {w} ELSE blamed
    /\ Reschedule(h.key)
    /\ Then(w, "done")
    /\ UNCHANGED <<ready, standing, found, alive, jobs, failures>>

NotACanary(w) == w = Local \/ handling[w].key \notin canaries

(* An error is an answer: the epoch goes back to the queue and a hole is   *)
(* recorded.                                                               *)
JudgeError(w) ==
    /\ Judging(w) /\ NotACanary(w) /\ handling[w].verdict = "error"
    /\ Reschedule(handling[w].key)
    /\ Then(w, "hole")
    /\ UNCHANGED <<ready, standing, found, alive, jobs, canaries, blamed, failures>>

(* The witness cannot learn the published roots: nothing is concluded.     *)
CannotResolve(w) ==
    /\ Judging(w) /\ NotACanary(w) /\ handling[w].verdict # "error"
    /\ Reschedule(handling[w].key)
    /\ Then(w, "done")
    /\ Fault(TRUE)
    /\ UNCHANGED <<ready, standing, found, alive, jobs, canaries, blamed>>

(* Variant: any machine's mismatch is a finding.                           *)
JudgeMismatchAnyones(w) ==
    /\ Judging(w) /\ NotACanary(w) /\ handling[w].verdict = "mismatch"
    /\ Then(w, "fork")
    /\ UNCHANGED <<queueVars, ready, standing, found, alive, jobs, canaries, blamed, failures>>

(* Another machine's mismatch is a question: a hole, and back in the queue *)
(* for whoever asks next.  The witness's own is a finding.                 *)
JudgeMismatch(w) ==
    /\ Judging(w) /\ NotACanary(w) /\ handling[w].verdict = "mismatch"
    /\ IF w = Local THEN UNCHANGED queueVars /\ Then(w, "fork")
                    ELSE Reschedule(handling[w].key) /\ Then(w, "hole")
    /\ UNCHANGED <<ready, standing, found, alive, jobs, canaries, blamed, failures>>

(* The roots agree: the proof is dropped from the cache before the record  *)
(* is written.                                                             *)
JudgeMatch(w) ==
    /\ Judging(w) /\ NotACanary(w) /\ handling[w].verdict = "match"
    /\ ready' = ready \ {handling[w].key}
    /\ Then(w, "verified")
    /\ UNCHANGED <<queueVars, standing, found, alive, jobs, canaries, blamed, failures>>

(* What was judged is written: a finding, and then a hole beside it, or    *)
(* the audit record, whatever the bucket said of the epoch (RecordAudit).  *)
RecordAnswer(w) ==
    LET h == handling[w] IN
    /\ h # None /\ h.next # "judge"
    /\ found' = IF h.next = "fork" THEN found \cup {h.key} ELSE found
    /\ standing' = IF h.next = "fork" THEN standing ELSE [standing EXCEPT ![h.key] = h.next]
    /\ Then(w, IF h.next = "fork" THEN "hole" ELSE "done")
    /\ UNCHANGED <<queueVars, ready, alive, jobs, canaries, blamed, failures>>

----------------------------------------------------------------------------

(* A laptop closes, a network changes.  Its leases stay until they expire. *)
Disconnect(w) ==
    /\ w \in Remote \cap alive
    /\ Fault(TRUE)
    /\ alive' = alive \ {w}
    /\ jobs' = jobs \ JobsOf(w)
    /\ UNCHANGED <<queueVars, ready, standing, found, handling, canaries, blamed>>

Reconnect(w) ==
    /\ w \in Remote \ alive /\ call[w] = Idle
    /\ alive' = alive \cup {w}
    /\ UNCHANGED <<queueVars, ready, standing, found, jobs, handling, canaries, blamed, failures>>

(* The queue and the canaries are in memory, the cache adopts its files.   *)
Restart ==
    /\ Fault(TRUE)
    /\ leased' = {} /\ retry' = <<>> /\ deferred' = {} /\ quiet' = {}
    /\ attempts' = [k \in Keys |-> 0]
    /\ cursor' = [o \in Origins |-> 0]
    /\ call' = [w \in Workers |-> Idle]
    /\ jobs' = {} /\ canaries' = {} /\ alive' = {Local}
    /\ handling' = [w \in Workers |-> None]
    /\ UNCHANGED <<ready, standing, found, blamed>>

(* A lease lapses under a worker that is still at it, or with nobody left  *)
(* to answer for it.                                                       *)
Lapses(a) == LeaseLapses(a) /\ Fault(\E j \in jobs : j.id = a.id)

Clock ==
    /\ \/ \E a \in leased : Lapses(a)
       \/ (\E k \in Keys : BackoffPasses(k)) /\ UNCHANGED failures
       \/ (\E o \in Origins : QuietPasses(o)) /\ UNCHANGED failures
       \/ Reclaim /\ UNCHANGED failures
    /\ UNCHANGED <<ready, standing, found, alive, jobs, handling, canaries, blamed>>

Asking(w) == AskRetry(w) \/ AskSource(w) \/ GivenRun(w) \/ KeepsLooking(w)

Judge(w) ==
    \/ JudgeCanary(w) \/ JudgeError(w) \/ CannotResolve(w) \/ JudgeMismatch(w)
    \/ JudgeMatch(w) \/ RecordAnswer(w)

OnJob(j) ==
    DropLate(j) \/ GetProof(j) \/ Refused(j) \/ \E v \in Verdicts : Answered(j, v)

WorkNext ==
    \/ \E k \in Keys : Generate(k)
    \/ \E w \in Workers : Asking(w) \/ Judge(w) \/ Disconnect(w) \/ Reconnect(w)
    \/ \E j \in jobs : OnJob(j)
    \/ Clock
    \/ Restart

WorkSpec == WorkInit /\ [][WorkNext]_workVars

(* Loops that keep turning, clocks that keep going, and laptops that come  *)
(* back.  That things stop going wrong is the bound on faults.             *)
FairWork ==
    /\ WorkSpec
    /\ \A w \in Workers :
         /\ WF_workVars(Asking(w))
         /\ WF_workVars(Judge(w) \/ \E j \in JobsOf(w) : OnJob(j))
    /\ WF_workVars(\E w \in Remote : Reconnect(w))
    /\ WF_workVars(\E k \in Keys : Generate(k))
    /\ WF_workVars((\E a \in leased : Lapses(a)) /\ Clock)
    /\ WF_workVars((\E k \in Keys : BackoffPasses(k)) /\ Clock)
    /\ WF_workVars((\E o \in Origins : QuietPasses(o)) /\ Clock)

----------------------------------------------------------------------------

WorkTypeOK ==
    /\ QueueTypeOK
    /\ ready \subseteq Keys
    /\ standing \in [Keys -> {"none", "hole", "verified"}]
    /\ found \subseteq Keys
    /\ alive \subseteq Workers
    /\ jobs \subseteq Job
    /\ handling \in [Workers -> {None} \cup Answer]
    /\ canaries \subseteq Keys
    /\ blamed \subseteq Workers

(* What the channel concludes about a log is true, whatever the machines   *)
(* on it report and however often a proof was corrupted on purpose: a log  *)
(* is accused only for a proof that is bad, and an epoch counts as         *)
(* verified only if its proof is good.                                     *)
Conclusions ==
    /\ found \subseteq Bad
    /\ \A k \in Keys : standing[k] = "verified" => k \notin Bad

(* No epoch is lost between the cache, the leases, the retry list and the  *)
(* backoffs: whatever expires, disconnects or is corrupted on the way, an  *)
(* epoch whose proof is good is verified in the end.                       *)
EveryGoodEpochVerified == \A k \in Keys \ Bad : <>(standing[k] = "verified")

(* Only a worker that computes the published roots from a corrupted proof  *)
(* is reported as not verifying ("it cannot have computed them from what   *)
(* it was served", cmd/kt-witness/work.go:335-337).                        *)
BlameIsDeserved == blamed \subseteq Broken

(* No epoch is in two workers' hands by way of two live leases, whatever   *)
(* lapses, failures, retries and restarts moved the cursors, and the       *)
(* counters and backoffs the hand-out rests on stay in range (work.go).    *)
LeasesAreSound == WorkTypeOK /\ RunsAreDisjoint
============================================================================
