------------------------------- MODULE Limits -------------------------------
(***************************************************************************)
(* Two token buckets: requests per day of a log that pushes                *)
(* (src/internal/push/ratelimit.go, spent by serve in push.go), and bytes  *)
(* per second of everything read (src/internal/netmeter/limit.go).  Time is*)
(* in ticks, and balances in the share of a token earned in one.           *)
(***************************************************************************)
EXTENDS Integers, FiniteSets

CONSTANTS Handlers,    \* add-checkpoint requests in hand
          Day,         \* ticks in which a log earns its allowance once
          Allowances,  \* requests per day it may be given
          MaxBurst,
          Readers, Rate, LinkBurst, Chunks,
          LastTick, MaxTaken  \* bounds

ASSUME LimitsAssumption ==
    /\ {Day, MaxBurst, Rate, LinkBurst} \subseteq Nat \ {0}
    /\ Allowances \subseteq Nat \ {0} /\ Chunks \subseteq Nat \ {0}
    /\ Allowances # {} /\ IsFiniteSet(Allowances) /\ IsFiniteSet(Readers)

VARIABLES tick,
          qpd,      \* the log's allowance
          bucket,   \* limiter.buckets of the log, Unused before its first request
          stamp,    \* per handler: the time it read before taking the lock
          granted,  \* requests let through since the bucket was made
          retryAfter, \* the refusal last answered: when, and the wait it named
          link,     \* netmeter's bucket
          asleep,   \* per reader: the chunk charged and when take returns
          delivered \* bytes handed on

limitVars == <<tick, qpd, bucket, stamp, granted, retryAfter, link, asleep, delivered>>
pushVarsL == <<qpd, bucket, stamp, granted, retryAfter>>
linkVars == <<link, asleep, delivered>>

Unused == [tokens |-> 0, last |-> -1, first |-> -1]
Unstamped == -1
AtMost(a, b) == IF a < b THEN a ELSE b
CeilDiv(a, b) == (a + b - 1) \div b

-----------------------------------------------------------------------------
(* The balance at a request stamped now: a stamp older than the last one   *)
(* earns nothing, and a lowered allowance caps what is held.               *)
Burst(q) == AtMost(q, MaxBurst) * Day

(* Variant: the time is taken from the request whatever was seen before.   *)
BalanceRewound(b, now) ==
    IF b = Unused THEN [tokens |-> Burst(qpd), last |-> now, first |-> now]
    ELSE [b EXCEPT !.tokens = AtMost(Burst(qpd),
                        IF now > b.last THEN b.tokens + (now - b.last) * qpd ELSE b.tokens),
                   !.last = now]
Balance(b, now) ==
    IF b = Unused THEN [tokens |-> Burst(qpd), last |-> now, first |-> now]
    ELSE [b EXCEPT !.tokens = AtMost(Burst(qpd),
                        IF now > b.last THEN b.tokens + (now - b.last) * qpd ELSE b.tokens),
                   !.last = IF now > b.last THEN now ELSE b.last]

(* serve: the signature verified, the handler reads the time, then asks.   *)
Stamp(h) ==
    /\ stamp[h] = Unstamped
    /\ stamp' = [stamp EXCEPT ![h] = tick]
    /\ UNCHANGED <<tick, qpd, bucket, granted, retryAfter, linkVars>>

Wait(tokens) == CeilDiv(Day - tokens, qpd)

(* limiter.allow, under its lock.                                          *)
Allow(h) ==
    /\ stamp[h] # Unstamped
    /\ stamp' = [stamp EXCEPT ![h] = Unstamped]
    /\ LET b == Balance(bucket, stamp[h])
           ok == b.tokens >= Day
       IN /\ bucket' = IF ok THEN [b EXCEPT !.tokens = @ - Day] ELSE b
          /\ granted' = IF ok THEN granted + 1 ELSE granted
          /\ retryAfter' = IF ok THEN [at |-> -1, due |-> -1, denied |-> FALSE]
                      ELSE [at |-> stamp[h], due |-> b.last + Wait(b.tokens),
                            denied |-> retryAfter.due # -1 /\ stamp[h] >= retryAfter.due]
    /\ UNCHANGED <<tick, qpd, linkVars>>

(* The allowance looked up with the next request is another one.           *)
ListChanges ==
    /\ qpd' \in Allowances \ {qpd}
    /\ retryAfter' = [at |-> -1, due |-> -1, denied |-> FALSE]
    /\ UNCHANGED <<tick, bucket, stamp, granted, linkVars>>

-----------------------------------------------------------------------------
(* take: the charge is made at once and may leave a debt; the reader sleeps*)
(* off exactly the debt it found, and returns with the bytes.              *)
Awake == [n |-> 0, until |-> -1]

Charged(n) == AtMost(LinkBurst, link.tokens + (tick - link.last) * Rate) - n

Take(r) ==
    /\ asleep[r] = Awake
    /\ \E n \in Chunks :
         LET left == Charged(n) IN
         /\ delivered.charged + n <= MaxTaken
         /\ link' = [tokens |-> left, last |-> tick]
         /\ asleep' = [asleep EXCEPT ![r] =
                          [n |-> n, until |-> IF left >= 0 THEN tick ELSE tick + CeilDiv(-left, Rate)]]
         /\ delivered' = [delivered EXCEPT !.charged = @ + n]
    /\ UNCHANGED <<tick, pushVarsL>>

Wake(r) ==
    /\ asleep[r] # Awake /\ asleep[r].until <= tick
    /\ delivered' = [delivered EXCEPT !.bytes = @ + asleep[r].n]
    /\ asleep' = [asleep EXCEPT ![r] = Awake]
    /\ UNCHANGED <<tick, pushVarsL, link>>

(* A cancelled download gives nothing back.                                *)
CancelTake(r) ==
    /\ asleep[r] # Awake /\ asleep[r].until > tick
    /\ asleep' = [asleep EXCEPT ![r] = Awake]
    /\ UNCHANGED <<tick, pushVarsL, link, delivered>>

TimePasses ==
    /\ tick < LastTick /\ tick' = tick + 1
    /\ \A r \in Readers : asleep[r] = Awake \/ asleep[r].until > tick
    /\ UNCHANGED <<pushVarsL, linkVars>>

LimitsInit ==
    /\ tick = 0 /\ qpd = CHOOSE q \in Allowances : \A p \in Allowances : p <= q
    /\ bucket = Unused /\ granted = 0
    /\ stamp = [h \in Handlers |-> Unstamped]
    /\ retryAfter = [at |-> -1, due |-> -1, denied |-> FALSE]
    /\ link = [tokens |-> LinkBurst, last |-> 0]
    /\ asleep = [r \in Readers |-> Awake]
    /\ delivered = [charged |-> 0, bytes |-> 0]

(* The two share nothing but the clock.                                    *)
RequestsNext == (\E h \in Handlers : Stamp(h) \/ Allow(h)) \/ ListChanges \/ TimePasses
LinkNext == (\E r \in Readers : Take(r) \/ Wake(r) \/ CancelTake(r)) \/ TimePasses

RequestsSpec == LimitsInit /\ [][RequestsNext]_limitVars
LinkSpec == LimitsInit /\ [][LinkNext]_limitVars
LimitsSpec == LimitsInit /\ [][RequestsNext \/ LinkNext]_limitVars

-----------------------------------------------------------------------------
Most == CHOOSE q \in Allowances : \A p \in Allowances : p <= q

(* However requests overtake one another between the clock and the lock, a *)
(* log gets no more through than a burst and what the time it has been     *)
(* pushing earns (ratelimit.go, "Keyed by origin, and fed the log's QPD on *)
(* every call").                                                           *)
WithinAllowance ==
    bucket # Unused =>
      granted * Day <= Burst(Most) + Most * (tick - bucket.first)

(* A log that waits out the Retry-After it was told, and spends nothing    *)
(* meanwhile, is not refused again ("it also says how long until the next  *)
(* token is due").                                                         *)
RetryAfterIsEnough == ~retryAfter.denied

(* Whoever reads and whatever is cancelled, the bytes handed on never      *)
(* exceed the cap: the burst and the rate over the time (limit.go, "what is*)
(* being protected is a single link").                                     *)
LinkIsPaced == delivered.bytes <= LinkBurst + Rate * tick

(* The allowance of requests, the wait a refusal names and the bandwidth   *)
(* of the link hold together, whatever order callers read the clock in.    *)
LimitsHold == WithinAllowance /\ RetryAfterIsEnough /\ LinkIsPaced
=============================================================================
