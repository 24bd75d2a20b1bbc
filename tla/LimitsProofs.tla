---------------------------- MODULE LimitsProofs ----------------------------
(***************************************************************************)
(* Proofs about the two token buckets, for every allowance, burst, rate    *)
(* and number of callers: no log gets more through than its allowance, the *)
(* wait a refusal names is long enough, and no more bytes come over the    *)
(* link than its cap.  Both rest on the same kind of invariant: what was   *)
(* spent and what is held together never exceed what was earned.           *)
(***************************************************************************)
EXTENDS Limits, Numbers

-----------------------------------------------------------------------------
(* Arithmetic. *)

LEMMA MoreTimes ==
  ASSUME NEW a \in Int, NEW b \in Int, a <= b, NEW c \in Nat
  PROVE  a * c <= b * c /\ c * a <= c * b
OBVIOUS

(* What is earned in two spells is what is earned in both.                 *)
LEMMA EarnedTogether ==
  ASSUME NEW q \in Int, NEW a \in Int, NEW b \in Int, NEW c \in Int
  PROVE  q * (b - a) + q * (c - b) = q * (c - a)
OBVIOUS

LEMMA BothSpells ==
  ASSUME NEW q \in Int, NEW a \in Int, NEW b \in Int
  PROVE  q * (a + b) = q * a + b * q /\ b * q \in Int
OBVIOUS

LEMMA OneMoreTimes ==
  ASSUME NEW q \in Int, NEW a \in Int
  PROVE  (a + 1) * q = a * q + q
OBVIOUS

(* Rounding up is enough.                                                  *)
LEMMA CeilDivIsEnough ==
  ASSUME NEW a \in Nat, NEW b \in Nat \ {0}
  PROVE  CeilDiv(a, b) \in Nat /\ CeilDiv(a, b) * b >= a
<1>. DEFINE s == a + b - 1
            d == s \div b
<1>1. s \in Nat
  OBVIOUS
<1>2. d \in Nat /\ s = b * d + (s % b) /\ s % b \in 0 .. b - 1
  BY <1>1
<1>. QED
  BY <1>1, <1>2 DEF CeilDiv

LEMMA LimitConstants ==
  /\ Day \in Nat \ {0} /\ MaxBurst \in Nat \ {0} /\ Rate \in Nat \ {0} /\ LinkBurst \in Nat \ {0}
  /\ Most \in Allowances /\ Most \in Nat \ {0}
  /\ \A q \in Allowances : q \in Nat \ {0} /\ q <= Most
<1>1. /\ Allowances \in SUBSET Nat /\ Allowances \in SUBSET Int
      /\ Allowances # {} /\ IsFiniteSet(Allowances)
  BY LimitsAssumption
<1>2. PICK b \in Int : \A y \in Allowances : y <= b
  BY <1>1, FiniteIsBounded
<1>3. \E q \in Allowances : \A p \in Allowances : p <= q
  BY <1>1, <1>2, GreatestInt
<1>4. Most \in Allowances /\ \A p \in Allowances : p <= Most
  BY <1>3 DEF Most
<1>. QED
  BY <1>4, LimitsAssumption

LEMMA BurstOK ==
  ASSUME NEW q \in Allowances
  PROVE  Burst(q) \in Nat /\ Day <= Burst(q) /\ Burst(q) <= Burst(Most) /\ Burst(Most) \in Nat
<1>. DEFINE m == AtMost(q, MaxBurst)
            M == AtMost(Most, MaxBurst)
<1>1. m \in Nat /\ M \in Nat /\ 1 <= m /\ m <= M
  BY LimitConstants DEF AtMost
<1>. HIDE DEF m, M
<1>2. Day \in Nat
  BY LimitConstants
<1>3. 1 * Day <= m * Day /\ m * Day <= M * Day
  BY <1>1, <1>2, MoreTimes
<1>4. m * Day \in Nat /\ M * Day \in Nat
  BY <1>1, <1>2
<1>. QED
  BY <1>2, <1>3, <1>4 DEF Burst, m, M

-----------------------------------------------------------------------------
(* Requests. *)

(* A log's bucket: what was spent and what is held do not exceed a burst   *)
(* and what the time between its first and its last request has earned.    *)
Buckets == [tokens: Nat, last: Nat, first: Nat]
Spent(g, b) ==
  /\ b.first <= b.last /\ b.last <= tick
  /\ g * Day + b.tokens <= Burst(Most) + Most * (b.last - b.first)
RequestsOK ==
  /\ tick \in Nat /\ qpd \in Allowances /\ granted \in Nat
  /\ stamp \in [Handlers -> {Unstamped} \cup 0 .. tick]
  /\ bucket \in {Unused} \cup Buckets
  /\ bucket = Unused => granted = 0
  /\ bucket # Unused => Spent(granted, bucket)

(* The wait last named ends when the bucket holds a token.                 *)
WaitIsEnough ==
  /\ bucket # Unused /\ retryAfter.due \in Nat /\ bucket.last <= retryAfter.due
  /\ Day <= bucket.tokens + (retryAfter.due - bucket.last) * qpd
RetryOK ==
  /\ RetryAfterIsEnough
  /\ retryAfter.due # -1 => WaitIsEnough

(* The balance at a request stamped before now: a burst, or what was held  *)
(* and what was earned since.                                              *)
LEMMA BalanceIsEarned ==
  ASSUME RequestsOK, NEW now \in 0 .. tick
  PROVE  LET b == Balance(bucket, now) IN b \in Buckets /\ Spent(granted, b)
<1>. DEFINE b == Balance(bucket, now)
<1>0. /\ tick \in Nat /\ granted \in Nat /\ now \in Nat /\ now <= tick /\ qpd \in Nat /\ qpd <= Most
      /\ Day \in Nat /\ Most \in Nat /\ granted * Day \in Nat
      /\ Burst(qpd) \in Nat /\ Burst(Most) \in Nat /\ Burst(qpd) <= Burst(Most)
  BY LimitConstants, BurstOK DEF RequestsOK
<1>1. CASE bucket = Unused
  <2>1. b = [tokens |-> Burst(qpd), last |-> now, first |-> now] /\ granted = 0
    BY <1>1 DEF Balance, RequestsOK
  <2>2. b \in Buckets /\ b.tokens = Burst(qpd) /\ b.last = now /\ b.first = now
    BY <1>0, <2>1 DEF Buckets
  <2>3. 0 * Day = 0 /\ Most * (now - now) = 0
    BY <1>0
  <2>. HIDE DEF b
  <2>4. Spent(granted, b)
    BY <1>0, <2>1, <2>2, <2>3 DEF Spent
  <2>. QED
    BY <2>2, <2>4 DEF b
<1>2. CASE bucket # Unused
  <2>0. bucket \in Buckets /\ Spent(granted, bucket)
    BY <1>2 DEF RequestsOK
  <2>. DEFINE last == IF now > bucket.last THEN now ELSE bucket.last
              earned == IF now > bucket.last THEN bucket.tokens + (now - bucket.last) * qpd
                        ELSE bucket.tokens
              held == AtMost(Burst(qpd), earned)
  <2>1. b = [bucket EXCEPT !.tokens = held, !.last = last]
    BY <1>2 DEF Balance
  <2>2. /\ bucket.tokens \in Nat /\ bucket.last \in Nat /\ bucket.first \in Nat
        /\ bucket.first <= bucket.last /\ bucket.last <= tick
        /\ granted * Day + bucket.tokens <= Burst(Most) + Most * (bucket.last - bucket.first)
    BY <2>0 DEF Buckets, Spent
  <2>3. /\ last \in Nat /\ bucket.last <= last /\ last <= tick
        /\ earned = bucket.tokens + (last - bucket.last) * qpd
    <3>1. bucket.tokens + (bucket.last - bucket.last) * qpd = bucket.tokens
      BY <1>0, <2>2
    <3>. QED
      BY <1>0, <2>2, <3>1
  <2>. HIDE DEF last, earned
  <2>4. (last - bucket.last) * qpd \in Nat /\ Most * (last - bucket.first) \in Int
        /\ (last - bucket.last) * qpd <= Most * (last - bucket.last)
        /\ Most * (bucket.last - bucket.first) \in Int /\ Most * (last - bucket.last) \in Int
    <3>. DEFINE t == last - bucket.last
    <3>1. t \in Nat
      BY <2>2, <2>3
    <3>2. last - bucket.first \in Int /\ bucket.last - bucket.first \in Int
      BY <2>2, <2>3
    <3>. HIDE DEF t
    <3>3. t * qpd <= t * Most /\ t * qpd \in Nat /\ t * Most = Most * t /\ Most * t \in Int
      BY <1>0, <3>1, MoreTimes
    <3>. QED
      BY <1>0, <3>2, <3>3 DEF t
  <2>5. Most * (bucket.last - bucket.first) + Most * (last - bucket.last)
          = Most * (last - bucket.first)
    BY <1>0, <2>2, <2>3, EarnedTogether
  <2>6. earned \in Nat /\ granted * Day + earned <= Burst(Most) + Most * (last - bucket.first)
    BY <1>0, <2>2, <2>3, <2>4, <2>5
  <2>7. held \in Nat /\ held <= earned
    BY <1>0, <2>6 DEF AtMost
  <2>. HIDE DEF held, b
  <2>8. b \in Buckets /\ b.tokens = held /\ b.last = last /\ b.first = bucket.first
    BY <2>0, <2>1, <2>3, <2>7 DEF Buckets
  <2>9. granted * Day + held <= Burst(Most) + Most * (last - bucket.first)
    BY <1>0, <2>4, <2>6, <2>7
  <2>10. Spent(granted, b)
    <3>1. bucket.first <= last
      BY <2>2, <2>3
    <3>. QED
      BY <2>3, <2>8, <2>9, <3>1 DEF Spent
  <2>. QED
    BY <2>8, <2>10 DEF b
<1>. QED
  BY <1>1, <1>2

(* Whoever waited as long as it was told finds a token.                    *)
LEMMA WaitedIsGranted ==
  ASSUME RequestsOK, RetryOK, NEW now \in 0 .. tick,
         retryAfter.due # -1, retryAfter.due <= now
  PROVE  Day <= Balance(bucket, now).tokens
<1>0. /\ now \in Nat /\ qpd \in Nat /\ Day \in Nat
      /\ Burst(qpd) \in Nat /\ Day <= Burst(qpd)
  BY LimitConstants, BurstOK DEF RequestsOK
<1>1. WaitIsEnough
  BY DEF RetryOK
<1>. DEFINE due == retryAfter.due
<1>2. /\ bucket \in Buckets /\ bucket # Unused
      /\ bucket.tokens \in Nat /\ bucket.last \in Nat
      /\ due \in Nat /\ bucket.last <= due /\ due <= now
      /\ Day <= bucket.tokens + (due - bucket.last) * qpd
  BY <1>1 DEF WaitIsEnough, RequestsOK, Buckets
<1>. HIDE DEF due
<1>3. /\ (due - bucket.last) * qpd <= (now - bucket.last) * qpd
      /\ (due - bucket.last) * qpd \in Int /\ (now - bucket.last) * qpd \in Int
  <2>1. due - bucket.last <= now - bucket.last
        /\ due - bucket.last \in Int /\ now - bucket.last \in Int
    BY <1>0, <1>2
  <2>. QED
    BY <1>0, <2>1, MoreTimes
<1>4. now = bucket.last => (now - bucket.last) * qpd = 0
  BY <1>0, <1>2
<1>. DEFINE earned == IF now > bucket.last THEN bucket.tokens + (now - bucket.last) * qpd
                      ELSE bucket.tokens
<1>5. earned \in Int /\ Day <= earned
  BY <1>0, <1>2, <1>3, <1>4
<1>6. Balance(bucket, now).tokens = AtMost(Burst(qpd), earned)
  BY <1>2 DEF Balance, Buckets
<1>. HIDE DEF earned
<1>. QED
  BY <1>0, <1>5, <1>6 DEF AtMost

LEMMA AllowKeeps ==
  ASSUME RequestsOK, RetryOK, NEW h \in Handlers, Allow(h)
  PROVE  RequestsOK' /\ RetryOK'
<1>. DEFINE now == stamp[h]
            b == Balance(bucket, now)
<1>0. now \in 0 .. tick /\ tick \in Nat /\ granted \in Nat /\ Day \in Nat /\ qpd \in Nat \ {0}
  BY LimitConstants DEF RequestsOK, Allow
<1>1. /\ stamp' = [stamp EXCEPT ![h] = Unstamped] /\ UNCHANGED <<tick, qpd>>
      /\ bucket' = IF b.tokens >= Day THEN [b EXCEPT !.tokens = @ - Day] ELSE b
      /\ granted' = IF b.tokens >= Day THEN granted + 1 ELSE granted
  BY DEF Allow
<1>2. retryAfter' = IF b.tokens >= Day THEN [at |-> -1, due |-> -1, denied |-> FALSE]
                    ELSE [at |-> now, due |-> b.last + Wait(b.tokens),
                          denied |-> retryAfter.due # -1 /\ now >= retryAfter.due]
  BY DEF Allow
<1>3. b \in Buckets /\ Spent(granted, b)
  BY <1>0, BalanceIsEarned
<1>4. retryAfter.due # -1 /\ now >= retryAfter.due => Day <= b.tokens
  <2>1. ASSUME retryAfter.due # -1, now >= retryAfter.due PROVE Day <= b.tokens
    <3>1. retryAfter.due \in Nat
      BY <2>1 DEF RetryOK, WaitIsEnough
    <3>2. retryAfter.due <= now
      BY <1>0, <2>1, <3>1
    <3>. HIDE DEF now
    <3>. QED
      BY <1>0, <2>1, <3>2, WaitedIsGranted
  <2>. QED
    BY <2>1
<1>5. stamp' \in [Handlers -> {Unstamped} \cup 0 .. tick']
  BY <1>1 DEF RequestsOK
<1>. HIDE DEF b, now
<1>6. /\ b.tokens \in Nat /\ b.last \in Nat /\ b.first \in Nat /\ b # Unused
      /\ granted * Day + b.tokens <= Burst(Most) + Most * (b.last - b.first)
      /\ b.first <= b.last /\ b.last <= tick
  BY <1>3 DEF Buckets, Spent, Unused
<1>7. CASE b.tokens >= Day
  <2>1. /\ bucket' = [b EXCEPT !.tokens = b.tokens - Day] /\ granted' = granted + 1
        /\ retryAfter' = [at |-> -1, due |-> -1, denied |-> FALSE]
    BY <1>1, <1>2, <1>7
  <2>2. b.tokens - Day \in Nat
    BY <1>0, <1>6, <1>7
  <2>3. /\ bucket' \in Buckets /\ bucket' # Unused
        /\ bucket'.tokens = b.tokens - Day /\ bucket'.last = b.last /\ bucket'.first = b.first
    BY <1>3, <2>1, <2>2 DEF Buckets, Unused
  <2>4. granted' * Day + bucket'.tokens = granted * Day + b.tokens
    <3>1. (granted + 1) * Day = granted * Day + Day /\ granted * Day \in Int
      BY <1>0, OneMoreTimes
    <3>. QED
      BY <1>0, <1>6, <2>1, <2>3, <3>1
  <2>5. Spent(granted, bucket)'
    BY <1>1, <1>6, <2>3, <2>4 DEF Spent
  <2>6. RequestsOK'
    BY <1>0, <1>1, <1>5, <2>1, <2>3, <2>5 DEF RequestsOK
  <2>7. RetryOK'
    BY <2>1 DEF RetryOK, RetryAfterIsEnough
  <2>. QED
    BY <2>6, <2>7
<1>8. CASE ~ (b.tokens >= Day)
  <2>1. /\ bucket' = b /\ granted' = granted
        /\ retryAfter' = [at |-> now, due |-> b.last + Wait(b.tokens),
                          denied |-> retryAfter.due # -1 /\ now >= retryAfter.due]
    BY <1>1, <1>2, <1>8
  <2>2. ~ (retryAfter.due # -1 /\ now >= retryAfter.due)
    BY <1>0, <1>4, <1>6, <1>8
  <2>3. ~retryAfter'.denied
    BY <2>1, <2>2
  <2>4. retryAfter'.due = b.last + Wait(b.tokens)
    BY <2>1
  <2>5. Day - b.tokens \in Nat
    BY <1>0, <1>6, <1>8
  <2>6. Wait(b.tokens) \in Nat /\ Wait(b.tokens) * qpd >= Day - b.tokens
    BY <1>0, <2>5, CeilDivIsEnough DEF Wait
  <2>. DEFINE w == Wait(b.tokens)
  <2>7. WaitIsEnough'
    <3>. HIDE DEF w
    <3>1. w \in Nat /\ w * qpd \in Int /\ w * qpd >= Day - b.tokens /\ retryAfter'.due = b.last + w
      BY <1>0, <2>4, <2>6 DEF w
    <3>2. (b.last + w) - b.last = w
      BY <1>6, <3>1
    <3>3. Day <= b.tokens + w * qpd
      BY <1>0, <1>6, <3>1
    <3>4. b.last + w \in Nat /\ b.last <= b.last + w
      BY <1>6, <3>1
    <3>5. /\ bucket' # Unused /\ retryAfter'.due \in Nat /\ bucket'.last <= retryAfter'.due
          /\ retryAfter'.due - bucket'.last = w /\ bucket'.tokens = b.tokens /\ qpd' = qpd
      BY <1>1, <1>6, <2>1, <3>1, <3>2, <3>4
    <3>6. Day <= bucket'.tokens + (retryAfter'.due - bucket'.last) * qpd'
      BY <3>3, <3>5
    <3>. QED
      BY <3>5, <3>6 DEF WaitIsEnough
  <2>8. RequestsOK'
    <3>1. Spent(granted, bucket)'
      BY <1>1, <1>3, <2>1 DEF Spent
    <3>. QED
      BY <1>0, <1>1, <1>3, <1>5, <1>6, <2>1, <3>1 DEF RequestsOK
  <2>. QED
    BY <2>3, <2>7, <2>8 DEF RetryOK, RetryAfterIsEnough
<1>. QED
  BY <1>7, <1>8

(* The other steps move neither the bucket nor its time.                   *)
LEMMA RequestsStill ==
  ASSUME RequestsOK, RetryOK, UNCHANGED pushVarsL, tick' \in {tick, tick + 1}
  PROVE  RequestsOK' /\ RetryOK'
<1>1. tick \in Nat /\ tick' \in Nat /\ tick <= tick' /\ 0 .. tick \subseteq 0 .. tick'
  BY DEF RequestsOK
<1>2. stamp' \in [Handlers -> {Unstamped} \cup 0 .. tick']
  BY <1>1 DEF RequestsOK, pushVarsL
<1>3. bucket # Unused => Spent(granted, bucket)'
  <2>1. bucket # Unused => bucket.last \in Nat
    BY DEF RequestsOK, Buckets
  <2>2. bucket # Unused => bucket.last <= tick'
    BY <1>1, <2>1 DEF RequestsOK, Spent
  <2>. QED
    BY <2>2 DEF RequestsOK, Spent, pushVarsL
<1>4. RequestsOK'
  BY <1>1, <1>2, <1>3 DEF RequestsOK, pushVarsL
<1>5. RetryOK'
  BY DEF RetryOK, RetryAfterIsEnough, WaitIsEnough, pushVarsL
<1>. QED
  BY <1>4, <1>5

LEMMA StampKeeps ==
  ASSUME RequestsOK, RetryOK, NEW h \in Handlers, Stamp(h)
  PROVE  RequestsOK' /\ RetryOK'
<1>1. /\ stamp' = [stamp EXCEPT ![h] = tick]
      /\ UNCHANGED <<tick, qpd, bucket, granted, retryAfter>>
  BY DEF Stamp
<1>2. tick \in 0 .. tick
  BY DEF RequestsOK
<1>3. stamp' \in [Handlers -> {Unstamped} \cup 0 .. tick']
  BY <1>1, <1>2 DEF RequestsOK
<1>4. RequestsOK'
  BY <1>1, <1>3 DEF RequestsOK, Spent
<1>5. RetryOK'
  BY <1>1 DEF RetryOK, RetryAfterIsEnough, WaitIsEnough
<1>. QED
  BY <1>4, <1>5

(* A new allowance: what was earned before stays within the largest one.   *)
LEMMA ListChangesKeeps ==
  ASSUME RequestsOK, RetryOK, ListChanges
  PROVE  RequestsOK' /\ RetryOK'
<1>1. /\ qpd' \in Allowances /\ UNCHANGED <<tick, bucket, stamp, granted>>
      /\ retryAfter' = [at |-> -1, due |-> -1, denied |-> FALSE]
  BY DEF ListChanges
<1>2. RequestsOK'
  BY <1>1 DEF RequestsOK, Spent
<1>3. RetryOK'
  BY <1>1 DEF RetryOK, RetryAfterIsEnough
<1>. QED
  BY <1>2, <1>3

LEMMA RequestsInitOK == LimitsInit => RequestsOK /\ RetryOK
<1>. SUFFICES ASSUME LimitsInit PROVE RequestsOK /\ RetryOK
  OBVIOUS
<1>1. qpd = Most /\ qpd \in Allowances
  BY LimitConstants DEF LimitsInit, Most
<1>2. RequestsOK
  BY <1>1 DEF LimitsInit, RequestsOK
<1>3. RetryOK
  BY DEF LimitsInit, RetryOK, RetryAfterIsEnough
<1>. QED
  BY <1>2, <1>3

LEMMA SpentIsAllowed == RequestsOK => WithinAllowance
<1>. SUFFICES ASSUME RequestsOK, bucket # Unused
              PROVE  granted * Day <= Burst(Most) + Most * (tick - bucket.first)
  BY DEF WithinAllowance
<1>1. /\ bucket.tokens \in Nat /\ bucket.last \in Nat /\ bucket.first \in Nat /\ tick \in Nat
      /\ bucket.first <= bucket.last /\ bucket.last <= tick
      /\ granted * Day + bucket.tokens <= Burst(Most) + Most * (bucket.last - bucket.first)
  BY DEF RequestsOK, Buckets, Spent
<1>2. granted * Day \in Int /\ Burst(Most) \in Nat /\ Most \in Nat
  BY LimitConstants, BurstOK DEF RequestsOK
<1>3. /\ Most * (bucket.last - bucket.first) <= Most * (tick - bucket.first)
      /\ Most * (bucket.last - bucket.first) \in Int /\ Most * (tick - bucket.first) \in Int
  <2>1. /\ bucket.last - bucket.first <= tick - bucket.first
        /\ bucket.last - bucket.first \in Int /\ tick - bucket.first \in Int
    BY <1>1
  <2>. QED
    BY <1>2, <2>1, MoreTimes
<1>. QED
  BY <1>1, <1>2, <1>3

-----------------------------------------------------------------------------
(* The link. *)

(* The bytes that some readers have been charged for and not handed on,    *)
(* one by one, so that their number is a cardinality.                      *)
Sleep == [n: Nat, until: Int]
Owed(A, S) == {p \in Readers \X Nat : p[1] \in S /\ p[2] \in 1 .. A[p[1]].n}

(* Who is awake by a time.                                                 *)
Due(A, T) == {r \in Readers : A[r].until <= T}

(* What was charged and what is held do not exceed the burst and what was  *)
(* earned; and what will have been handed on by any time to come, by those *)
(* who sleep now, stays within the cap at that time.                       *)
LinkOK ==
  /\ tick \in Nat
  /\ link \in [tokens: Int, last: Nat] /\ link.last <= tick
  /\ delivered \in [charged: Nat, bytes: Nat]
  /\ asleep \in [Readers -> Sleep]
  /\ \A r \in Readers : asleep[r].n <= delivered.charged
  /\ delivered.charged + link.tokens <= LinkBurst + Rate * link.last
  /\ delivered.bytes + Cardinality(Owed(asleep, Readers)) <= delivered.charged
  /\ \A T \in Nat : tick <= T =>
       delivered.bytes + Cardinality(Owed(asleep, Due(asleep, T))) <= LinkBurst + Rate * T

LEMMA OwedIsFinite ==
  ASSUME NEW A \in [Readers -> Sleep], NEW N \in Nat, \A r \in Readers : A[r].n <= N,
         NEW S \in SUBSET Readers
  PROVE  IsFiniteSet(Owed(A, S)) /\ Cardinality(Owed(A, S)) \in Nat
<1>1. IsFiniteSet(Readers) /\ IsFiniteSet(1 .. N)
  BY LimitsAssumption, FS_Interval
<1>2. IsFiniteSet(Readers \X (1 .. N))
  BY <1>1, FS_Product
<1>3. Owed(A, S) \subseteq Readers \X (1 .. N)
  <2>1. \A r \in Readers : A[r].n \in Nat /\ 1 .. A[r].n \subseteq 1 .. N
    BY DEF Sleep
  <2>2. ASSUME NEW p \in Owed(A, S) PROVE p \in Readers \X (1 .. N)
    <3>1. p \in Readers \X Nat /\ p[1] \in Readers /\ p[2] \in 1 .. A[p[1]].n
      BY <2>2 DEF Owed
    <3>2. p[2] \in 1 .. N
      BY <2>1, <3>1
    <3>. QED
      BY <3>1, <3>2
  <2>. QED
    BY <2>2
<1>. QED
  BY <1>2, <1>3, FS_Subset, FS_CardinalityType

LEMMA OwedByMore ==
  ASSUME NEW A \in [Readers -> Sleep], NEW N \in Nat, \A r \in Readers : A[r].n <= N,
         NEW S \in SUBSET Readers, NEW T \in SUBSET Readers, S \subseteq T
  PROVE  Cardinality(Owed(A, S)) <= Cardinality(Owed(A, T))
<1>1. Owed(A, S) \subseteq Owed(A, T)
  BY DEF Owed
<1>. QED
  BY <1>1, OwedIsFinite, FS_Subset

(* A reader's part of what is owed.                                        *)
LEMMA OwedSplits ==
  ASSUME NEW A \in [Readers -> Sleep], NEW N \in Nat, \A r \in Readers : A[r].n <= N,
         NEW S \in SUBSET Readers, NEW r \in S
  PROVE  Cardinality(Owed(A, S)) = Cardinality(Owed(A, S \ {r})) + A[r].n
<1>. DEFINE rest == Owed(A, S \ {r})
            own == {r} \X (1 .. A[r].n)
            n == A[r].n
<1>0. r \in Readers /\ n \in Nat
  BY DEF Sleep
<1>1. IsFiniteSet(own) /\ Cardinality(own) = n
  <2>1. IsFiniteSet({r}) /\ Cardinality({r}) = 1
    BY FS_Singleton
  <2>2. IsFiniteSet(1 .. n) /\ Cardinality(1 .. n) = n
    <3>. HIDE DEF n
    <3>1. IsFiniteSet(1 .. n) /\ Cardinality(1 .. n) = IF 1 > n THEN 0 ELSE n - 1 + 1
      BY <1>0, FS_Interval
    <3>. QED
      BY <1>0, <3>1
  <2>3. /\ IsFiniteSet({r} \X (1 .. n))
        /\ Cardinality({r} \X (1 .. n)) = Cardinality({r}) * Cardinality(1 .. n)
    <3>. HIDE DEF n
    <3>. QED
      BY <2>1, <2>2, FS_Product
  <2>. QED
    BY <1>0, <2>1, <2>2, <2>3
<1>2. IsFiniteSet(rest) /\ Cardinality(rest) \in Nat
  <2>1. S \ {r} \in SUBSET Readers
    OBVIOUS
  <2>. QED
    BY <2>1, OwedIsFinite
<1>3. Owed(A, S) = rest \cup own
  <2>1. ASSUME NEW p \in Owed(A, S) PROVE p \in rest \cup own
    <3>1. p \in Readers \X Nat /\ p[1] \in S /\ p[2] \in 1 .. A[p[1]].n
      BY <2>1 DEF Owed
    <3>2. CASE p[1] = r
      BY <3>1, <3>2
    <3>3. CASE p[1] # r
      BY <3>1, <3>3 DEF Owed
    <3>. QED
      BY <3>2, <3>3
  <2>2. ASSUME NEW p \in rest PROVE p \in Owed(A, S)
    BY <2>2 DEF Owed
  <2>3. ASSUME NEW p \in own PROVE p \in Owed(A, S)
    <3>1. p[1] = r /\ p[2] \in 1 .. n /\ p = <<p[1], p[2]>>
      BY <2>3
    <3>2. p[2] \in Nat
      BY <1>0, <3>1
    <3>3. p \in Readers \X Nat
      BY <1>0, <3>1, <3>2
    <3>. QED
      BY <3>1, <3>3 DEF Owed
  <2>. QED
    BY <2>1, <2>2, <2>3
<1>4. rest \cap own = {}
  BY DEF Owed
<1>. HIDE DEF rest, own, n
<1>5. Cardinality(rest \cup own) = Cardinality(rest) + Cardinality(own) - 0
  BY <1>1, <1>2, <1>4, FS_Union, FS_EmptySet
<1>. QED
  BY <1>0, <1>1, <1>2, <1>3, <1>5 DEF rest, n

(* One reader changes: the others owe what they owed.                      *)
LEMMA OwedChanges ==
  ASSUME NEW A \in [Readers -> Sleep], NEW N \in Nat, \A q \in Readers : A[q].n <= N,
         NEW B \in [Readers -> Sleep], \A q \in Readers : B[q].n <= N,
         NEW r \in Readers, \A q \in Readers : q # r => B[q] = A[q],
         NEW S \in SUBSET Readers
  PROVE  /\ r \notin S => Owed(B, S) = Owed(A, S)
         /\ r \in S => Cardinality(Owed(B, S)) + A[r].n = Cardinality(Owed(A, S)) + B[r].n
<1>1. r \notin S => Owed(B, S) = Owed(A, S)
  BY DEF Owed
<1>2. ASSUME r \in S
      PROVE  Cardinality(Owed(B, S)) + A[r].n = Cardinality(Owed(A, S)) + B[r].n
  <2>. DEFINE R == S \ {r}
  <2>1. R \in SUBSET Readers /\ Owed(B, R) = Owed(A, R)
    BY DEF Owed
  <2>2. Cardinality(Owed(B, S)) = Cardinality(Owed(B, R)) + B[r].n
    BY <1>2, OwedSplits
  <2>3. Cardinality(Owed(A, S)) = Cardinality(Owed(A, R)) + A[r].n
    BY <1>2, OwedSplits
  <2>. HIDE DEF R
  <2>4. Cardinality(Owed(A, R)) \in Nat
    BY <2>1, OwedIsFinite
  <2>5. A[r].n \in Nat /\ B[r].n \in Nat
    BY DEF Sleep
  <2>. QED
    BY <2>1, <2>2, <2>3, <2>4, <2>5
<1>. QED
  BY <1>1, <1>2

(* A charge: what is left, and a sleep that pays off a debt.               *)
LEMMA ChargeIsPaid ==
  ASSUME LinkOK, NEW n \in Nat, NEW left, left = Charged(n),
         NEW u, u = IF left >= 0 THEN tick ELSE tick + CeilDiv(-left, Rate)
  PROVE  /\ left \in Int /\ u \in Nat
         /\ delivered.charged + n + left <= LinkBurst + Rate * tick
         /\ delivered.charged + n <= LinkBurst + Rate * u
<1>0. /\ tick \in Nat /\ Rate \in Nat \ {0} /\ LinkBurst \in Nat
      /\ link.tokens \in Int /\ link.last \in Nat /\ link.last <= tick
      /\ delivered.charged \in Nat
      /\ delivered.charged + link.tokens <= LinkBurst + Rate * link.last
  BY LimitConstants DEF LinkOK
<1>1. /\ (tick - link.last) * Rate = Rate * tick - Rate * link.last
      /\ Rate * tick \in Int /\ Rate * link.last \in Int
  BY <1>0
<1>2. left \in Int /\ left <= link.tokens + (Rate * tick - Rate * link.last) - n
  BY <1>0, <1>1 DEF Charged, AtMost
<1>3. delivered.charged + n + left <= LinkBurst + Rate * tick
  BY <1>0, <1>1, <1>2
<1>4. CASE left >= 0
  BY <1>0, <1>1, <1>2, <1>3, <1>4
<1>5. CASE left < 0
  <2>. DEFINE w == CeilDiv(-left, Rate)
  <2>1. -left \in Nat
    BY <1>2, <1>5
  <2>2. w \in Nat /\ w * Rate >= -left
    BY <1>0, <2>1, CeilDivIsEnough
  <2>3. u = tick + w
    BY <1>2, <1>5
  <2>. HIDE DEF w
  <2>4. Rate * u = Rate * tick + w * Rate /\ w * Rate \in Int
    <3>1. Rate \in Int /\ tick \in Int /\ w \in Int
      BY <1>0, <2>2
    <3>2. Rate * (tick + w) = Rate * tick + w * Rate /\ w * Rate \in Int
      BY <3>1, BothSpells
    <3>. QED
      BY <2>3, <3>2
  <2>5. u \in Nat
    BY <1>0, <2>2, <2>3
  <2>. QED
    BY <1>0, <1>1, <1>2, <1>3, <2>2, <2>4, <2>5
<1>. QED
  BY <1>2, <1>4, <1>5

(* What is owed, as numbers.                                               *)
LEMMA LinkNumbers ==
  ASSUME LinkOK
  PROVE  /\ tick \in Nat /\ delivered.charged \in Nat /\ delivered.bytes \in Nat
         /\ Rate \in Nat /\ LinkBurst \in Nat
         /\ \A T \in Nat : Rate * T \in Nat
         /\ \A S \in SUBSET Readers : Cardinality(Owed(asleep, S)) \in Nat
         /\ \A S, T \in SUBSET Readers :
              S \subseteq T => Cardinality(Owed(asleep, S)) <= Cardinality(Owed(asleep, T))
<1>1. /\ asleep \in [Readers -> Sleep] /\ delivered.charged \in Nat
      /\ \A r \in Readers : asleep[r].n <= delivered.charged
  BY DEF LinkOK
<1>2. \A S \in SUBSET Readers : Cardinality(Owed(asleep, S)) \in Nat
  BY <1>1, OwedIsFinite
<1>3. \A S, T \in SUBSET Readers :
        S \subseteq T => Cardinality(Owed(asleep, S)) <= Cardinality(Owed(asleep, T))
  BY <1>1, OwedByMore
<1>. QED
  BY <1>2, <1>3, LimitConstants DEF LinkOK

(* One reader falls asleep or wakes: what it adds to what is owed.         *)
LEMMA OneSleeper ==
  ASSUME LinkOK, NEW r \in Readers, NEW s \in Sleep, asleep' = [asleep EXCEPT ![r] = s],
         NEW N \in Nat, delivered.charged <= N, s.n <= N
  PROVE  /\ asleep' \in [Readers -> Sleep] /\ asleep'[r] = s
         /\ \A q \in Readers : q # r => asleep'[q] = asleep[q]
         /\ \A q \in Readers : asleep'[q].n <= N
         /\ \A S \in SUBSET Readers :
              /\ Cardinality(Owed(asleep', S)) \in Nat
              /\ Cardinality(Owed(asleep', S)) <= Cardinality(Owed(asleep', Readers))
              /\ r \notin S => Owed(asleep', S) = Owed(asleep, S)
              /\ r \in S => Cardinality(Owed(asleep', S)) + asleep[r].n
                              = Cardinality(Owed(asleep, S)) + s.n
<1>. DEFINE A == asleep
            B == asleep'
<1>1. /\ A \in [Readers -> Sleep] /\ delivered.charged \in Nat
      /\ \A q \in Readers : A[q].n <= delivered.charged
  BY DEF LinkOK
<1>2. B \in [Readers -> Sleep] /\ B[r] = s /\ \A q \in Readers : q # r => B[q] = A[q]
  BY <1>1
<1>. HIDE DEF A, B
<1>3. \A q \in Readers : A[q].n <= N
  <2>1. \A q \in Readers : A[q].n \in Nat
    BY <1>1 DEF Sleep
  <2>. QED
    BY <1>1, <2>1
<1>4. \A q \in Readers : B[q].n <= N
  BY <1>2, <1>3
<1>5. ASSUME NEW S \in SUBSET Readers
      PROVE  /\ Cardinality(Owed(B, S)) \in Nat
             /\ Cardinality(Owed(B, S)) <= Cardinality(Owed(B, Readers))
             /\ r \notin S => Owed(B, S) = Owed(A, S)
             /\ r \in S => Cardinality(Owed(B, S)) + A[r].n = Cardinality(Owed(A, S)) + B[r].n
  <2>1. Cardinality(Owed(B, S)) \in Nat
    BY <1>2, <1>4, OwedIsFinite
  <2>2. Cardinality(Owed(B, S)) <= Cardinality(Owed(B, Readers))
    BY <1>2, <1>4, OwedByMore
  <2>3. /\ r \notin S => Owed(B, S) = Owed(A, S)
        /\ r \in S => Cardinality(Owed(B, S)) + A[r].n = Cardinality(Owed(A, S)) + B[r].n
    BY <1>1, <1>2, <1>3, <1>4, OwedChanges
  <2>. QED
    BY <2>1, <2>2, <2>3
<1>. QED
  BY <1>2, <1>4, <1>5 DEF A, B

(* A sum as small as another whose summand it is part of.                  *)
LEMMA LessOwed ==
  ASSUME NEW a \in Nat, NEW b \in Nat, a <= b, NEW d \in Nat, NEW m \in Int, d + b <= m
  PROVE  d + a <= m
OBVIOUS

LEMMA TakeKeeps ==
  ASSUME LinkOK, NEW r \in Readers, Take(r)
  PROVE  LinkOK'
<1>1. PICK n \in Chunks :
        LET left == Charged(n) IN
        /\ link' = [tokens |-> left, last |-> tick]
        /\ asleep' = [asleep EXCEPT ![r] =
               [n |-> n, until |-> IF left >= 0 THEN tick ELSE tick + CeilDiv(-left, Rate)]]
        /\ delivered' = [delivered EXCEPT !.charged = @ + n]
  BY DEF Take
<1>. DEFINE left == Charged(n)
            u == IF left >= 0 THEN tick ELSE tick + CeilDiv(-left, Rate)
            s == [n |-> n, until |-> u]
            c == delivered.charged + n
<1>2. asleep[r] = Awake /\ tick' = tick
  BY DEF Take
<1>3. n \in Nat
  BY LimitsAssumption
<1>4. /\ left \in Int /\ u \in Nat
      /\ c + left <= LinkBurst + Rate * tick /\ c <= LinkBurst + Rate * u
  <2>1. \A l, v : l = Charged(n) /\ v = (IF l >= 0 THEN tick ELSE tick + CeilDiv(-l, Rate))
           => /\ l \in Int /\ v \in Nat
              /\ delivered.charged + n + l <= LinkBurst + Rate * tick
              /\ delivered.charged + n <= LinkBurst + Rate * v
    BY <1>3, ChargeIsPaid
  <2>. QED
    BY <2>1
<1>5. /\ link' = [tokens |-> left, last |-> tick] /\ asleep' = [asleep EXCEPT ![r] = s]
      /\ delivered' = [delivered EXCEPT !.charged = c]
  BY <1>1
<1>. HIDE DEF left, u
<1>6. s \in Sleep /\ s.n = n /\ s.until = u
  BY <1>3, <1>4 DEF Sleep
<1>. HIDE DEF s
<1>7. /\ tick \in Nat /\ delivered.charged \in Nat /\ delivered.bytes \in Nat
      /\ Rate \in Nat /\ LinkBurst \in Nat
      /\ \A T \in Nat : Rate * T \in Nat
      /\ \A S \in SUBSET Readers : Cardinality(Owed(asleep, S)) \in Nat
  BY LinkNumbers
<1>8. /\ delivered' \in [charged: Nat, bytes: Nat]
      /\ delivered'.charged = c /\ delivered'.bytes = delivered.bytes
      /\ c \in Nat /\ delivered.charged <= c /\ n <= c
  BY <1>3, <1>5, <1>7 DEF LinkOK
<1>. HIDE DEF c
<1>9. /\ asleep' \in [Readers -> Sleep] /\ asleep'[r] = s
      /\ \A q \in Readers : q # r => asleep'[q] = asleep[q]
      /\ \A q \in Readers : asleep'[q].n <= c
      /\ \A S \in SUBSET Readers :
           /\ Cardinality(Owed(asleep', S)) \in Nat
           /\ Cardinality(Owed(asleep', S)) <= Cardinality(Owed(asleep', Readers))
           /\ r \notin S => Owed(asleep', S) = Owed(asleep, S)
           /\ r \in S => Cardinality(Owed(asleep', S)) + asleep[r].n
                           = Cardinality(Owed(asleep, S)) + s.n
  BY <1>5, <1>6, <1>8, OneSleeper
<1>10. delivered'.bytes + Cardinality(Owed(asleep', Readers)) <= c
  <2>1. Cardinality(Owed(asleep', Readers)) + 0 = Cardinality(Owed(asleep, Readers)) + n
    BY <1>2, <1>6, <1>9 DEF Awake
  <2>2. Cardinality(Owed(asleep', Readers)) \in Nat /\ Cardinality(Owed(asleep, Readers)) \in Nat
    BY <1>7, <1>9
  <2>3. delivered.bytes + Cardinality(Owed(asleep, Readers)) <= delivered.charged
    BY DEF LinkOK
  <2>. QED
    BY <1>3, <1>7, <1>8, <2>1, <2>2, <2>3 DEF c
<1>11. ASSUME NEW T \in Nat, tick <= T
       PROVE  delivered'.bytes + Cardinality(Owed(asleep', Due(asleep', T))) <= LinkBurst + Rate * T
  <2>. DEFINE D == Due(asleep, T)
              E == Due(asleep', T)
  <2>0. D \in SUBSET Readers /\ E \in SUBSET Readers
    BY DEF Due
  <2>1. CASE u > T
    <3>1. r \notin E
      BY <1>4, <1>6, <1>9, <2>1 DEF Due
    <3>2. E \subseteq D
      BY <1>9, <3>1 DEF Due
    <3>3. delivered.bytes + Cardinality(Owed(asleep, D)) <= LinkBurst + Rate * T
      BY <1>11 DEF LinkOK
    <3>. HIDE DEF D, E
    <3>4. Owed(asleep', E) = Owed(asleep, E)
      BY <1>9, <2>0, <3>1
    <3>5. Cardinality(Owed(asleep, E)) <= Cardinality(Owed(asleep, D))
      BY <2>0, <3>2, LinkNumbers
    <3>6. Cardinality(Owed(asleep, E)) \in Nat /\ Cardinality(Owed(asleep, D)) \in Nat
          /\ LinkBurst + Rate * T \in Int
      BY <1>7, <2>0
    <3>7. delivered.bytes + Cardinality(Owed(asleep, E)) <= LinkBurst + Rate * T
      BY <1>7, <3>3, <3>5, <3>6, LessOwed
    <3>. QED
      BY <1>8, <3>4, <3>7 DEF E
  <2>2. CASE u <= T
    <3>. HIDE DEF E
    <3>1. /\ Cardinality(Owed(asleep', E)) <= Cardinality(Owed(asleep', Readers))
          /\ Cardinality(Owed(asleep', E)) \in Nat /\ Cardinality(Owed(asleep', Readers)) \in Nat
      BY <1>9, <2>0
    <3>2. Rate * u <= Rate * T /\ Rate * u \in Int /\ Rate * T \in Int
      BY <1>4, <1>7, <2>2, MoreTimes
    <3>3. delivered'.bytes \in Nat
      BY <1>7, <1>8
    <3>4. delivered'.bytes + Cardinality(Owed(asleep', E)) <= LinkBurst + Rate * T
      BY <1>4, <1>7, <1>8, <1>10, <3>1, <3>2, <3>3
    <3>. QED
      BY <3>4 DEF E
  <2>. QED
    BY <1>4, <2>1, <2>2
<1>12. /\ link' \in [tokens: Int, last: Nat] /\ link'.last <= tick'
       /\ delivered'.charged + link'.tokens <= LinkBurst + Rate * link'.last
  BY <1>2, <1>4, <1>5, <1>7, <1>8
<1>. QED
  BY <1>2, <1>7, <1>8, <1>9, <1>10, <1>11, <1>12 DEF LinkOK

LEMMA WakeKeeps ==
  ASSUME LinkOK, NEW r \in Readers, Wake(r)
  PROVE  LinkOK'
<1>. DEFINE n == asleep[r].n
            c == delivered.charged
<1>1. /\ asleep[r].until <= tick /\ asleep' = [asleep EXCEPT ![r] = Awake]
      /\ delivered' = [delivered EXCEPT !.bytes = @ + asleep[r].n]
      /\ UNCHANGED <<tick, link>>
  BY DEF Wake
<1>2. /\ tick \in Nat /\ c \in Nat /\ delivered.bytes \in Nat
      /\ Rate \in Nat /\ LinkBurst \in Nat
      /\ \A T \in Nat : Rate * T \in Nat
      /\ \A S \in SUBSET Readers : Cardinality(Owed(asleep, S)) \in Nat
  BY LinkNumbers
<1>3. asleep \in [Readers -> Sleep] /\ n \in Nat /\ asleep[r].until \in Int
  BY DEF LinkOK, Sleep
<1>4. Awake \in Sleep /\ Awake.n = 0 /\ Awake.until = -1 /\ 0 <= c
  BY <1>2 DEF Awake, Sleep
<1>5. /\ delivered' \in [charged: Nat, bytes: Nat]
      /\ delivered'.charged = c /\ delivered'.bytes = delivered.bytes + n
  BY <1>1, <1>2, <1>3 DEF LinkOK
<1>. HIDE DEF n, c
<1>6. /\ asleep' \in [Readers -> Sleep] /\ asleep'[r] = Awake
      /\ \A q \in Readers : q # r => asleep'[q] = asleep[q]
      /\ \A q \in Readers : asleep'[q].n <= c
      /\ \A S \in SUBSET Readers :
           /\ Cardinality(Owed(asleep', S)) \in Nat
           /\ Cardinality(Owed(asleep', S)) <= Cardinality(Owed(asleep', Readers))
           /\ r \notin S => Owed(asleep', S) = Owed(asleep, S)
           /\ r \in S => Cardinality(Owed(asleep', S)) + n = Cardinality(Owed(asleep, S)) + 0
  <2>1. delivered.charged <= c
    BY <1>2 DEF c
  <2>. QED
    BY <1>1, <1>2, <1>4, <2>1, OneSleeper DEF n
(* The bytes that were owed have been handed on.                           *)
<1>7. ASSUME NEW S \in SUBSET Readers, r \in S
      PROVE  delivered'.bytes + Cardinality(Owed(asleep', S))
               = delivered.bytes + Cardinality(Owed(asleep, S))
  <2>1. /\ Cardinality(Owed(asleep', S)) \in Nat /\ Cardinality(Owed(asleep, S)) \in Nat
        /\ Cardinality(Owed(asleep', S)) + n = Cardinality(Owed(asleep, S)) + 0
    BY <1>2, <1>6, <1>7
  <2>. QED
    BY <1>2, <1>3, <1>5, <2>1
<1>8. delivered'.bytes + Cardinality(Owed(asleep', Readers)) <= c
  <2>1. delivered'.bytes + Cardinality(Owed(asleep', Readers))
          = delivered.bytes + Cardinality(Owed(asleep, Readers))
    BY <1>7
  <2>. QED
    BY <2>1 DEF LinkOK, c
<1>9. ASSUME NEW T \in Nat, tick <= T
      PROVE  delivered'.bytes + Cardinality(Owed(asleep', Due(asleep', T))) <= LinkBurst + Rate * T
  <2>. DEFINE D == Due(asleep, T)
  <2>1. D \in SUBSET Readers /\ r \in D /\ Due(asleep', T) = D
    <3>1. asleep[r].until <= T /\ asleep'[r].until <= T
      BY <1>1, <1>2, <1>3, <1>4, <1>6, <1>9
    <3>. QED
      BY <1>6, <3>1 DEF Due
  <2>2. delivered.bytes + Cardinality(Owed(asleep, D)) <= LinkBurst + Rate * T
    BY <1>9 DEF LinkOK
  <2>. HIDE DEF D
  <2>. QED
    BY <1>7, <2>1, <2>2
<1>10. delivered'.charged + link'.tokens <= LinkBurst + Rate * link'.last
  BY <1>1, <1>5 DEF LinkOK, c
<1>. QED
  BY <1>1, <1>2, <1>5, <1>6, <1>8, <1>9, <1>10 DEF LinkOK

(* A cancelled read owes nothing, and nothing of it is handed on.          *)
LEMMA CancelKeeps ==
  ASSUME LinkOK, NEW r \in Readers, CancelTake(r)
  PROVE  LinkOK'
<1>. DEFINE n == asleep[r].n
            c == delivered.charged
<1>1. /\ asleep' = [asleep EXCEPT ![r] = Awake] /\ UNCHANGED <<tick, link, delivered>>
  BY DEF CancelTake
<1>2. /\ tick \in Nat /\ c \in Nat /\ delivered.bytes \in Nat
      /\ Rate \in Nat /\ LinkBurst \in Nat
      /\ \A T \in Nat : Rate * T \in Nat
      /\ \A S \in SUBSET Readers : Cardinality(Owed(asleep, S)) \in Nat
  BY LinkNumbers
<1>3. asleep \in [Readers -> Sleep] /\ n \in Nat
  BY DEF LinkOK, Sleep
<1>4. Awake \in Sleep /\ Awake.n = 0 /\ 0 <= c /\ delivered.charged <= c
  BY <1>2 DEF Awake, Sleep
<1>. HIDE DEF n
<1>5. /\ asleep' \in [Readers -> Sleep]
      /\ \A q \in Readers : q # r => asleep'[q] = asleep[q]
      /\ \A q \in Readers : asleep'[q].n <= c
      /\ \A S \in SUBSET Readers :
           /\ Cardinality(Owed(asleep', S)) \in Nat
           /\ r \notin S => Owed(asleep', S) = Owed(asleep, S)
           /\ r \in S => Cardinality(Owed(asleep', S)) + n = Cardinality(Owed(asleep, S)) + 0
  <2>. HIDE DEF c
  <2>. QED
    BY <1>1, <1>2, <1>4, OneSleeper DEF n
<1>6. delivered.bytes + Cardinality(Owed(asleep', Readers)) <= c
  <2>1. /\ Cardinality(Owed(asleep', Readers)) \in Nat /\ Cardinality(Owed(asleep, Readers)) \in Nat
        /\ Cardinality(Owed(asleep', Readers)) + n = Cardinality(Owed(asleep, Readers)) + 0
    BY <1>2, <1>5
  <2>2. delivered.bytes + Cardinality(Owed(asleep, Readers)) <= c
    BY DEF LinkOK
  <2>. QED
    BY <1>2, <1>3, <2>1, <2>2
<1>7. ASSUME NEW T \in Nat, tick <= T
      PROVE  delivered.bytes + Cardinality(Owed(asleep', Due(asleep', T))) <= LinkBurst + Rate * T
  <2>. DEFINE D == Due(asleep, T)
              E == Due(asleep', T)
              R == E \ {r}
  <2>1. /\ D \in SUBSET Readers /\ E \in SUBSET Readers /\ R \in SUBSET Readers
        /\ R \subseteq D /\ r \notin R
    BY <1>5 DEF Due
  <2>2. delivered.bytes + Cardinality(Owed(asleep, D)) <= LinkBurst + Rate * T
    BY <1>7 DEF LinkOK
  <2>3. Owed(asleep', E) = Owed(asleep', R)
    <3>1. asleep'[r].n = 0
      BY <1>1, <1>3, <1>4
    <3>2. \A p \in Owed(asleep', E) : p[1] # r
      BY <3>1 DEF Owed
    <3>. HIDE DEF E
    <3>. QED
      BY <3>2 DEF Owed
  <2>. HIDE DEF D, E, R
  <2>4. Owed(asleep', R) = Owed(asleep, R)
    BY <1>5, <2>1
  <2>5. /\ Cardinality(Owed(asleep, R)) <= Cardinality(Owed(asleep, D))
        /\ Cardinality(Owed(asleep, R)) \in Nat /\ Cardinality(Owed(asleep, D)) \in Nat
        /\ LinkBurst + Rate * T \in Int
    BY <1>2, <2>1, LinkNumbers
  <2>6. delivered.bytes + Cardinality(Owed(asleep, R)) <= LinkBurst + Rate * T
    BY <1>2, <2>2, <2>5, LessOwed
  <2>. QED
    BY <2>3, <2>4, <2>6 DEF E
<1>. QED
  BY <1>1, <1>2, <1>5, <1>6, <1>7 DEF LinkOK

(* Time passes, or others take a step.                                     *)
LEMMA LinkStill ==
  ASSUME LinkOK, UNCHANGED linkVars, tick' \in {tick, tick + 1}
  PROVE  LinkOK'
<1>1. tick \in Nat /\ tick' \in Nat /\ tick <= tick'
  BY DEF LinkOK
<1>2. UNCHANGED <<link, asleep, delivered>>
  BY DEF linkVars
<1>3. link.last \in Nat /\ link.last <= tick'
  BY <1>1 DEF LinkOK
<1>4. \A T \in Nat : tick' <= T => tick <= T
  BY <1>1
<1>5. \A T \in Nat : tick' <= T =>
        delivered.bytes + Cardinality(Owed(asleep, Due(asleep, T))) <= LinkBurst + Rate * T
  BY <1>4 DEF LinkOK
<1>. QED
  BY <1>1, <1>2, <1>3, <1>5 DEF LinkOK

LEMMA LinkInitOK == LimitsInit => LinkOK
<1>. SUFFICES ASSUME LimitsInit PROVE LinkOK
  OBVIOUS
<1>1. /\ tick = 0 /\ link = [tokens |-> LinkBurst, last |-> 0]
      /\ asleep = [r \in Readers |-> Awake] /\ delivered = [charged |-> 0, bytes |-> 0]
  BY DEF LimitsInit
<1>2. Awake \in Sleep /\ Awake.n = 0
  BY DEF Awake, Sleep
<1>3. asleep \in [Readers -> Sleep] /\ \A r \in Readers : asleep[r].n = 0
  BY <1>1, <1>2
<1>4. \A S \in SUBSET Readers : Cardinality(Owed(asleep, S)) = 0
  <2>1. ASSUME NEW S \in SUBSET Readers PROVE Owed(asleep, S) = {}
    BY <1>3 DEF Owed
  <2>. QED
    BY <2>1, FS_EmptySet
<1>5. Rate \in Nat /\ LinkBurst \in Nat /\ \A T \in Nat : Rate * T \in Nat
  BY LimitConstants
<1>6. ASSUME NEW T \in Nat
      PROVE  delivered.bytes + Cardinality(Owed(asleep, Due(asleep, T))) <= LinkBurst + Rate * T
  <2>1. Cardinality(Owed(asleep, Due(asleep, T))) = 0
    BY <1>4 DEF Due
  <2>. QED
    BY <1>1, <1>5, <2>1
<1>7. delivered.charged + link.tokens <= LinkBurst + Rate * link.last
  BY <1>1, <1>5
<1>8. delivered.bytes + Cardinality(Owed(asleep, Readers)) <= delivered.charged
  <2>1. Cardinality(Owed(asleep, Readers)) = 0
    BY <1>4
  <2>. QED
    BY <1>1, <2>1
<1>9. /\ tick \in Nat /\ link \in [tokens: Int, last: Nat] /\ link.last <= tick
      /\ delivered \in [charged: Nat, bytes: Nat]
      /\ \A r \in Readers : asleep[r].n <= delivered.charged
  BY <1>1, <1>3, <1>5
<1>. QED
  BY <1>3, <1>6, <1>7, <1>8, <1>9 DEF LinkOK

LEMMA OwedIsPaced == LinkOK => LinkIsPaced
<1>. SUFFICES ASSUME LinkOK PROVE delivered.bytes <= LinkBurst + Rate * tick
  BY DEF LinkIsPaced
<1>. DEFINE D == Due(asleep, tick)
<1>1. /\ tick \in Nat /\ delivered.bytes \in Nat /\ LinkBurst \in Nat /\ Rate * tick \in Nat
  BY LinkNumbers
<1>2. delivered.bytes + Cardinality(Owed(asleep, D)) <= LinkBurst + Rate * tick
  BY <1>1 DEF LinkOK
<1>3. D \in SUBSET Readers
  BY DEF Due
<1>. HIDE DEF D
<1>4. Cardinality(Owed(asleep, D)) \in Nat
  BY <1>3, LinkNumbers
<1>. QED
  BY <1>1, <1>2, <1>4

-----------------------------------------------------------------------------
(* Both together. *)
LimitsInv == RequestsOK /\ RetryOK /\ LinkOK

LEMMA LimitsStep == LimitsInv /\ [RequestsNext \/ LinkNext]_limitVars => LimitsInv'
<1>. SUFFICES ASSUME LimitsInv, [RequestsNext \/ LinkNext]_limitVars PROVE LimitsInv'
  OBVIOUS
<1>0. RequestsOK /\ RetryOK /\ LinkOK /\ tick \in {tick, tick + 1}
  BY DEF LimitsInv
<1>1. CASE \E h \in Handlers : Stamp(h) \/ Allow(h)
  <2>1. RequestsOK' /\ RetryOK'
    BY <1>0, <1>1, StampKeeps, AllowKeeps
  <2>2. UNCHANGED <<linkVars, tick>>
    BY <1>1 DEF Stamp, Allow
  <2>. QED
    BY <1>0, <2>1, <2>2, LinkStill DEF LimitsInv
<1>2. CASE ListChanges
  <2>1. RequestsOK' /\ RetryOK'
    BY <1>0, <1>2, ListChangesKeeps
  <2>2. UNCHANGED <<linkVars, tick>>
    BY <1>2 DEF ListChanges
  <2>. QED
    BY <1>0, <2>1, <2>2, LinkStill DEF LimitsInv
<1>3. CASE \E r \in Readers : Take(r) \/ Wake(r) \/ CancelTake(r)
  <2>1. LinkOK'
    BY <1>0, <1>3, TakeKeeps, WakeKeeps, CancelKeeps
  <2>2. UNCHANGED <<pushVarsL, tick>>
    BY <1>3 DEF Take, Wake, CancelTake
  <2>. QED
    BY <1>0, <2>1, <2>2, RequestsStill DEF LimitsInv
<1>4. CASE TimePasses
  <2>1. UNCHANGED <<pushVarsL, linkVars>> /\ tick' \in {tick, tick + 1}
    BY <1>4 DEF TimePasses
  <2>. QED
    BY <1>0, <2>1, RequestsStill, LinkStill DEF LimitsInv
<1>5. CASE UNCHANGED limitVars
  <2>1. UNCHANGED <<pushVarsL, linkVars>> /\ tick' \in {tick, tick + 1}
    BY <1>5 DEF limitVars, pushVarsL, linkVars
  <2>. QED
    BY <1>0, <2>1, RequestsStill, LinkStill DEF LimitsInv
<1>. QED
  BY <1>1, <1>2, <1>3, <1>4, <1>5 DEF RequestsNext, LinkNext

(* Whatever the allowances, the burst and the rate, and in whatever order  *)
(* handlers read the clock and take the lock, a log gets no more through   *)
(* than its allowance, a log that waits as long as it was told is let      *)
(* through, and readers that sleep, wake and give up hand on no more bytes *)
(* than the cap (ratelimit.go, limit.go).                                  *)
THEOREM LimitsAlwaysHold == LimitsSpec => []LimitsHold
<1>1. LimitsInit => LimitsInv
  BY RequestsInitOK, LinkInitOK DEF LimitsInv
<1>2. LimitsInv => LimitsHold
  BY SpentIsAllowed, OwedIsPaced DEF LimitsInv, LimitsHold, RetryOK
<1>. QED
  BY <1>1, <1>2, LimitsStep, PTL DEF LimitsSpec
=============================================================================
