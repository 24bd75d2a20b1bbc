--------------------------- MODULE WitnessProofs ---------------------------
(***************************************************************************)
(* Proofs about Witness, for every log, every set of rounds and every      *)
(* source adapter: the inductive invariant IInv, and what follows from it; *)
(* and that the witness accuses nobody falsely: what its findings say is   *)
(* true of the log, for every mix of adapters and faults in which no       *)
(* adapter takes a failure for a contradiction.  And about the             *)
(* add-checkpoint handler, for every set of handlers and pollers: it runs  *)
(* the witness core and nothing else, and what it answers is true when it  *)
(* is said.                                                                *)
(***************************************************************************)
EXTENDS Push, TLAPS

-----------------------------------------------------------------------------
(* Trees and the prefix order on them. *)

(* A tree is a sequence of leaves of bounded length.                       *)
LEMMA TreeIsSeq ==
  ASSUME NEW t \in Trees
  PROVE  t \in Seq(Leaf) /\ Len(t) \in 0..MaxSize
BY HeadsAssumption DEF Trees, SeqOf

(* A bounded sequence of leaves is a tree.                                 *)
LEMMA SeqIsTree ==
  ASSUME NEW t \in Seq(Leaf), Len(t) <= MaxSize
  PROVE  t \in Trees
<1>1. Len(t) \in 0..MaxSize
  BY HeadsAssumption
<1>2. t \in [1..Len(t) -> Leaf]
  OBVIOUS
<1>. QED
  BY <1>1, <1>2 DEF Trees, SeqOf

(* The absent head is no tree: a nil record is told apart from a record of *)
(* the empty tree.                                                         *)
LEMMA NoneIsNoTree == None \notin Trees
BY TreeIsSeq, HeadsAssumption

(* The empty tree, the first every log serves.                             *)
LEMMA EmptyIsTree == <<>> \in Trees
<1>1. 0 \in 0..MaxSize
  BY HeadsAssumption
<1>2. <<>> \in [1..0 -> Leaf]
  OBVIOUS
<1>. QED
  BY <1>1, <1>2 DEF Trees, SeqOf

(* The prefix order, entry by entry.                                       *)
LEMMA PrefixByEntry ==
  ASSUME NEW s \in Trees, NEW t \in Trees
  PROVE  IsPrefix(s, t) <=> Len(s) <= Len(t) /\ \A i \in 1..Len(s) : s[i] = t[i]
<1>. s \in Seq(Leaf) /\ t \in Seq(Leaf)
  BY TreeIsSeq
<1>1. ASSUME Len(s) <= Len(t)
      PROVE  /\ SubSeq(s, 1, Len(s)) = s
             /\ SubSeq(t, 1, Len(s)) = [i \in 1..Len(s) |-> t[i]]
  BY <1>1
<1>2. s = [i \in 1..Len(s) |-> s[i]]
  OBVIOUS
<1>. QED
  BY <1>1, <1>2 DEF IsPrefix

(* Append-only growth is reflexive and transitive.                         *)
LEMMA PrefixReflexive == ASSUME NEW t \in Trees PROVE IsPrefix(t, t)
BY PrefixByEntry, TreeIsSeq

LEMMA PrefixTransitive ==
  ASSUME NEW s \in Trees, NEW t \in Trees, NEW u \in Trees,
         IsPrefix(s, t), IsPrefix(t, u)
  PROVE  IsPrefix(s, u)
<1>1. Len(s) \in Nat /\ Len(t) \in Nat /\ Len(u) \in Nat
  BY TreeIsSeq
<1>. QED
  BY <1>1, PrefixByEntry

(* Every tree extends the empty one.                                       *)
LEMMA EmptyIsPrefix ==
  ASSUME NEW s \in Trees, NEW t \in Trees, Len(s) = 0
  PROVE  IsPrefix(s, t)
BY PrefixByEntry, TreeIsSeq

(* Two prefixes of one tree are comparable.                                *)
LEMMA PrefixesComparable ==
  ASSUME NEW s \in Trees, NEW t \in Trees, NEW u \in Trees,
         IsPrefix(s, u), IsPrefix(t, u)
  PROVE  Comparable(s, t)
<1>1. Len(s) \in Nat /\ Len(t) \in Nat /\ Len(u) \in Nat
  BY TreeIsSeq
<1>2. CASE Len(s) <= Len(t)
  <2>1. IsPrefix(s, t)
    BY <1>1, <1>2, PrefixByEntry
  <2>. QED
    BY <2>1 DEF Comparable
<1>3. CASE Len(t) <= Len(s)
  <2>1. IsPrefix(t, s)
    BY <1>1, <1>3, PrefixByEntry
  <2>. QED
    BY <2>1 DEF Comparable
<1>. QED
  BY <1>1, <1>2, <1>3

-----------------------------------------------------------------------------
(* The inductive invariant, split by what a step can disturb: the rounds,  *)
(* and the store with the processes around it.                             *)

RoundOK(r, x) ==
  /\ (r \in Pushers /\ x.pc # "idle") \/ x.pc \in {"fetched", "sign"} =>
       x.next \in Trees
  /\ x.pc = "sign" => Extends(x.next, x.prev)

RoundsOK ==
  /\ round \in [Rounds -> Round]
  /\ \A r \in Rounds : RoundOK(r, round[r])

StoreOK ==
  /\ views \in [Views -> Trees]
  /\ head \in Trees \cup {None} /\ due \in BOOLEAN
  /\ forks \in Seq(Finding)
  /\ poisoned \in {0, Len(forks)} /\ retraction \in 0..Len(forks)
  /\ adapter \in Adapters
  /\ mode \in {"serve", "retract", "draining"} /\ restarts \in 0..MaxRestarts
  /\ cosigned \in SUBSET Trees
  /\ HeadIsNewest

LEMMA Parts == IInv <=> RoundsOK /\ StoreOK
BY DEF IInv, TypeOK, HoldsATree, ReadyToSign, At, RoundsOK, RoundOK, StoreOK

(* A step that moves one round to an acceptable place keeps the rounds     *)
(* acceptable.                                                             *)
LEMMA RoundEdit ==
  ASSUME RoundsOK, NEW r \in Rounds, NEW x \in Round, RoundOK(r, x),
         round' = [round EXCEPT ![r] = x]
  PROVE  RoundsOK'
<1>1. round' \in [Rounds -> Round]
  BY DEF RoundsOK
<1>2. ASSUME NEW p \in Rounds PROVE RoundOK(p, round'[p])
  BY DEF RoundsOK
<1>. QED
  BY <1>1, <1>2 DEF RoundsOK, RoundOK

LEMMA IdleIsRound == Idle \in Round
BY HeadsAssumption DEF Idle, Round, PC, Outcomes

(* Process returns.                                                        *)
LEMMA ReturnKeeps ==
  ASSUME RoundsOK, NEW r \in Rounds, NEW out \in Outcomes, Return(r, out)
  PROVE  RoundsOK'
<1>. DEFINE x == IF r \in Pushers
                 THEN [Idle EXCEPT !.out = out, !.next = round[r].next,
                                   !.old = round[r].old, !.split = round[r].split]
                 ELSE Idle
<1>1. round[r] \in Round
  BY DEF RoundsOK
<1>2. x \in Round
  <2>1. /\ round[r].next \in Trees \cup {None} /\ round[r].old \in 0..MaxSize
        /\ round[r].split \in BOOLEAN
    BY <1>1 DEF Round
  <2>. QED
    BY <2>1, IdleIsRound DEF Round
<1>3. x.pc = "idle"
  BY DEF Idle
<1>4. RoundOK(r, x)
  BY <1>3 DEF RoundOK
<1>5. round' = [round EXCEPT ![r] = x]
  BY DEF Return
<1>. HIDE DEF x
<1>. QED
  BY <1>2, <1>4, <1>5, RoundEdit

(* Process accuses the log.                                                *)
LEMMA AccuseKeeps ==
  ASSUME RoundsOK, NEW r \in Rounds, NEW by \in {"heads", "fetch", "content"},
         round[r].pc # "idle", Accuse(r, by)
  PROVE  RoundsOK'
<1>. DEFINE x == [round[r] EXCEPT !.pc = "fork", !.by = by]
<1>1. round[r] \in Round /\ RoundOK(r, round[r])
  BY DEF RoundsOK
<1>2. x \in Round
  BY <1>1 DEF Round, PC
<1>3. RoundOK(r, x)
  BY <1>1 DEF RoundOK, Round
<1>4. round' = [round EXCEPT ![r] = x]
  BY <1>1 DEF Accuse, RoundsOK
<1>. HIDE DEF x
<1>. QED
  BY <1>2, <1>3, <1>4, RoundEdit

(* Process goes on to its next program point.                              *)
LEMMA GotoKeeps ==
  ASSUME RoundsOK, NEW r \in Rounds, NEW pc \in PC, Goto(r, pc),
         RoundOK(r, [round[r] EXCEPT !.pc = pc])
  PROVE  RoundsOK'
<1>. DEFINE x == [round[r] EXCEPT !.pc = pc]
<1>1. x \in Round
  BY DEF RoundsOK, Round
<1>2. round' = [round EXCEPT ![r] = x]
  BY DEF Goto
<1>. QED
  BY <1>1, <1>2, RoundEdit

-----------------------------------------------------------------------------
(* What the gates let through.                                             *)

(* A verdict of "ok" is only given for a tree that extends the older one,  *)
(* by a polled source as by the proof a push carries.                      *)
LEMMA OkExtends ==
  ASSUME IInv, NEW r \in Rounds, NEW new \in Trees, NEW old \in Trees \cup {None},
         "ok" \in Verdicts(r, old, new)
  PROVE  Extends(new, old)
<1>1. CASE r \notin Pushers
  BY <1>1 DEF Verdicts, PollVerdicts
<1>2. CASE r \in Pushers
  <2>1. Size(old) = 0 \/ Extends(new, old)
    BY <1>2 DEF Verdicts, PushVerdicts
  <2>2. CASE old = None
    BY <2>2 DEF Extends
  <2>3. CASE old \in Trees /\ Size(old) = 0
    <3>1. Len(old) = 0
      BY <2>3, NoneIsNoTree DEF Size
    <3>2. IsPrefix(old, new)
      BY <2>3, <3>1, EmptyIsPrefix
    <3>. QED
      BY <3>2 DEF Extends
  <2>. QED
    BY <2>1, <2>2, <2>3
<1>. QED
  BY <1>1, <1>2

(* Gate 2 hands on only a tree that extends the record it was read from.   *)
LEMMA ConsistencyKeeps ==
  ASSUME IInv, NEW r \in Rounds, NEW verdict \in GateVerdicts,
         Consistency(r, verdict)
  PROVE  RoundsOK'
<1>1. RoundsOK /\ round[r] \in Round /\ RoundOK(r, round[r]) /\ At(r, "fetched")
  BY Parts DEF RoundsOK, Consistency
<1>2. round[r].next \in Trees /\ round[r].prev \in Trees \cup {None}
  BY <1>1 DEF RoundOK, At, Round
<1>3. CASE verdict \in {"heads", "content"}
  <2>1. Accuse(r, verdict)
    BY <1>3 DEF Consistency
  <2>. QED
    BY <1>1, <1>3, <2>1, AccuseKeeps DEF At
<1>4. CASE verdict = "ok"
  <2>1. Goto(r, "sign")
    BY <1>4 DEF Consistency
  <2>2. Extends(round[r].next, round[r].prev)
    BY <1>2, <1>4, OkExtends DEF Consistency
  <2>3. RoundOK(r, [round[r] EXCEPT !.pc = "sign"])
    BY <1>1, <1>2, <2>2 DEF RoundOK, Round
  <2>. QED
    BY <1>1, <2>1, <2>3, GotoKeeps DEF PC
<1>5. CASE verdict \notin {"heads", "content", "ok"}
  <2>1. Return(r, verdict)
    BY <1>5 DEF Consistency
  <2>2. verdict \in Outcomes
    BY <1>5 DEF GateVerdicts, Outcomes
  <2>. QED
    BY <1>1, <2>1, <2>2, ReturnKeeps
<1>. QED
  BY <1>3, <1>4, <1>5

(* A push is read from the request: its tree is one the log signed.        *)
LEMMA ReceiveKeeps ==
  ASSUME IInv, NEW r \in Rounds, Receive(r)
  PROVE  RoundsOK'
<1>1. RoundsOK
  BY Parts
<1>2. PICK t \in Served, old \in 0..MaxSize, good \in BOOLEAN :
        LET same == head # None /\ Len(t) = Len(head) IN
        /\ old <= Len(t)
        /\ round' = [round EXCEPT ![r] =
             IF old # Size(head)
             THEN [Idle EXCEPT !.next = t, !.old = old, !.out = "conflict"]
             ELSE [Idle EXCEPT !.pc = "received", !.next = t, !.old = old,
                     !.good  = good,
                     !.split = same /\ t # head /\ poisoned = 0,
                     !.force = same /\ (t = head \/ poisoned # 0)]]
  BY Zenon DEF Receive
<1>3. t \in Trees
  BY DEF Served
<1>. DEFINE same == head # None /\ Len(t) = Len(head)
            split == same /\ t # head /\ poisoned = 0
            force == same /\ (t = head \/ poisoned # 0)
            refused == [Idle EXCEPT !.next = t, !.old = old, !.out = "conflict"]
            taken == [Idle EXCEPT !.pc = "received", !.next = t, !.old = old,
                        !.good = good, !.split = split, !.force = force]
<1>4. split \in BOOLEAN /\ force \in BOOLEAN
  OBVIOUS
<1>5. CASE old # Size(head)
  <2>1. refused \in Round
    BY <1>3, IdleIsRound DEF Round, Outcomes
  <2>2. RoundOK(r, refused)
    BY <1>3 DEF RoundOK, Idle
  <2>3. round' = [round EXCEPT ![r] = refused]
    BY <1>2, <1>5
  <2>. HIDE DEF refused
  <2>. QED
    BY <1>1, <2>1, <2>2, <2>3, RoundEdit
<1>6. CASE old = Size(head)
  <2>3. round' = [round EXCEPT ![r] = taken]
    BY <1>2, <1>6
  <2>. HIDE DEF split, force
  <2>1. taken \in Round
    BY <1>3, <1>4, IdleIsRound DEF Round, PC
  <2>2. RoundOK(r, taken)
    BY <1>3 DEF RoundOK, Idle
  <2>. HIDE DEF taken
  <2>. QED
    BY <1>1, <2>1, <2>2, <2>3, RoundEdit
<1>. QED
  BY <1>5, <1>6

-----------------------------------------------------------------------------
(* Every step keeps the invariant. *)

LEMMA InitEstablishes == Init => IInv
<1>. SUFFICES ASSUME Init PROVE RoundsOK /\ StoreOK
  BY Parts
<1>1. RoundsOK
  BY IdleIsRound DEF Init, RoundsOK, RoundOK, Idle
<1>2. views \in [Views -> Trees]
  BY EmptyIsTree DEF Init
<1>3. forks \in Seq(Finding) /\ Len(forks) = 0
  BY DEF Init
<1>4. restarts \in 0..MaxRestarts
  BY WitnessAssumption DEF Init
<1>5. HeadIsNewest
  BY DEF Init, HeadIsNewest
<1>6. StoreOK
  <2>1. poisoned \in {0, Len(forks)} /\ retraction \in 0..Len(forks)
    BY <1>3 DEF Init
  <2>2. /\ head \in Trees \cup {None} /\ due \in BOOLEAN /\ adapter \in Adapters
        /\ mode \in {"serve", "retract", "draining"}
        /\ cosigned \in SUBSET Trees
    BY DEF Init
  <2>. QED
    BY <1>2, <1>3, <1>4, <1>5, <2>1, <2>2 DEF StoreOK
<1>. QED
  BY <1>1, <1>6

(* The steps of a round that write nothing.                                *)
LEMMA RoundSteps ==
  ASSUME IInv, NEW r \in Rounds,
         \/ Receive(r) \/ Begin(r) \/ Get(r)
         \/ \E t \in Trees : Fetch(r, t)
         \/ FetchFails(r) \/ FetchForks(r)
         \/ \E verdict \in GateVerdicts : Regression(r, verdict)
         \/ SplitView(r) \/ WithholdDerived(r) \/ SameTree(r)
         \/ \E verdict \in GateVerdicts : Consistency(r, verdict)
         \/ TooStale(r) \/ Raced(r) \/ PersistFails(r) \/ ForkNotPersisted(r)
  PROVE  RoundsOK' /\ UNCHANGED <<views, storeVars, procVars>>
<1>1. RoundsOK /\ StoreOK /\ round[r] \in Round /\ RoundOK(r, round[r])
  BY Parts DEF RoundsOK
<1>. USE <1>1
<1>2. CASE Receive(r)
  BY <1>2, ReceiveKeeps DEF Receive
<1>3. CASE Begin(r)
  <2>1. CASE poisoned # 0
    BY <1>3, <2>1, ReturnKeeps DEF Begin, Outcomes
  <2>2. CASE poisoned = 0
    <3>1. r \in Pushers => round[r].next \in Trees
      BY <1>3, WitnessAssumption DEF Begin, At, RoundOK
    <3>2. [round[r] EXCEPT !.pc = "checked"].pc = "checked"
      BY DEF Round
    <3>3. [round[r] EXCEPT !.pc = "checked"].next = round[r].next
      BY DEF Round
    <3>4. RoundOK(r, [round[r] EXCEPT !.pc = "checked"])
      BY <3>1, <3>2, <3>3 DEF RoundOK
    <3>. QED
      BY <1>3, <2>2, <3>4, GotoKeeps DEF Begin, PC
  <2>. QED
    BY <1>3, <2>1, <2>2 DEF Begin
<1>4. CASE Get(r)
  <2>. DEFINE x == [round[r] EXCEPT !.pc = "got", !.prev = head, !.due = due]
  <2>1. x \in Round
    BY DEF StoreOK, Round, PC
  <2>2. RoundOK(r, x)
    BY <1>4 DEF Get, At, RoundOK, Round
  <2>3. round' = [round EXCEPT ![r] = x]
    BY <1>4 DEF Get
  <2>. HIDE DEF x
  <2>. QED
    BY <1>4, <2>1, <2>2, <2>3, RoundEdit DEF Get
<1>5. ASSUME NEW t \in Trees, Fetch(r, t)
      PROVE  RoundsOK' /\ UNCHANGED <<views, storeVars, procVars>>
  <2>. DEFINE x == [round[r] EXCEPT !.pc = "fetched", !.next = t]
  <2>1. x \in Round
    BY DEF Round, PC
  <2>2. RoundOK(r, x)
    BY DEF RoundOK, Round
  <2>3. round' = [round EXCEPT ![r] = x]
    BY <1>5 DEF Fetch
  <2>. HIDE DEF x
  <2>. QED
    BY <1>5, <2>1, <2>2, <2>3, RoundEdit DEF Fetch
<1>6. CASE FetchFails(r)
  BY <1>6, ReturnKeeps DEF FetchFails, Outcomes
<1>7. CASE FetchForks(r)
  BY <1>7, AccuseKeeps DEF FetchForks, At
<1>8. ASSUME NEW verdict \in GateVerdicts, Regression(r, verdict)
      PROVE  RoundsOK' /\ UNCHANGED <<views, storeVars, procVars>>
  <2>1. CASE verdict \in {"heads", "content"}
    BY <1>8, <2>1, AccuseKeeps DEF Regression, At
  <2>2. CASE verdict = "ok"
    BY <1>8, <2>2, ReturnKeeps DEF Regression, Outcomes
  <2>3. CASE verdict \notin {"heads", "content", "ok"}
    <3>1. Return(r, verdict) /\ verdict \in Outcomes
      BY <1>8, <2>3 DEF Regression, GateVerdicts, Outcomes
    <3>. QED
      BY <1>8, <3>1, ReturnKeeps DEF Regression
  <2>. QED
    BY <2>1, <2>2, <2>3
<1>9. CASE SplitView(r)
  BY <1>9, AccuseKeeps DEF SplitView, At
<1>10. CASE WithholdDerived(r)
  BY <1>10, ReturnKeeps DEF WithholdDerived, Outcomes
<1>11. CASE SameTree(r)
  <2>1. CASE RefreshDue(r)
    <3>1. round[r].next \in Trees
      BY <1>11 DEF SameTree, At, RoundOK
    <3>2. Extends(round[r].next, round[r].prev)
      BY <1>11, <3>1, PrefixReflexive DEF SameTree, Extends
    <3>3. RoundOK(r, [round[r] EXCEPT !.pc = "sign"])
      BY <3>1, <3>2 DEF RoundOK, Round
    <3>. QED
      BY <1>11, <2>1, <3>3, GotoKeeps DEF SameTree, PC
  <2>2. CASE ~RefreshDue(r)
    BY <1>11, <2>2, ReturnKeeps DEF SameTree, Outcomes
  <2>. QED
    BY <2>1, <2>2
<1>12. ASSUME NEW verdict \in GateVerdicts, Consistency(r, verdict)
       PROVE  RoundsOK' /\ UNCHANGED <<views, storeVars, procVars>>
  BY <1>12, ConsistencyKeeps DEF Consistency
<1>13. CASE TooStale(r)
  BY <1>13, ReturnKeeps DEF TooStale, Outcomes
<1>14. CASE Raced(r)
  BY <1>14, ReturnKeeps DEF Raced, Outcomes
<1>15. CASE PersistFails(r)
  BY <1>15, ReturnKeeps DEF PersistFails, Outcomes
<1>16. CASE ForkNotPersisted(r)
  BY <1>16, ReturnKeeps DEF ForkNotPersisted, Outcomes
<1>. QED
  BY <1>2, <1>3, <1>4, <1>5, <1>6, <1>7, <1>8, <1>9, <1>10, <1>11, <1>12,
     <1>13, <1>14, <1>15, <1>16

(* CompareAndSet stores a tree that extends the head it replaces, so it    *)
(* extends every tree cosigned before.                                     *)
LEMMA PersistStep ==
  ASSUME IInv, NEW r \in Rounds, Persist(r)
  PROVE  /\ RoundsOK' /\ StoreOK'
         /\ round[r].next \in Trees
         /\ \A c \in cosigned : IsPrefix(c, round[r].next)
<1>1. RoundsOK /\ StoreOK /\ RoundOK(r, round[r])
  BY Parts DEF RoundsOK
<1>. DEFINE t == round[r].next
<1>2. t \in Trees /\ Extends(t, head)
  BY <1>1 DEF Persist, At, RoundOK
<1>3. ASSUME NEW c \in cosigned PROVE IsPrefix(c, t)
  <2>1. head \in Trees /\ IsPrefix(c, head) /\ c \in Trees
    BY <1>1 DEF StoreOK, HeadIsNewest
  <2>2. IsPrefix(head, t)
    BY <1>2, <2>1, NoneIsNoTree DEF Extends
  <2>. QED
    BY <1>2, <2>1, <2>2, PrefixTransitive
<1>4. IsPrefix(t, t)
  BY <1>2, PrefixReflexive
<1>5. /\ head' = t /\ due' = FALSE /\ cosigned' = cosigned \cup {t}
      /\ UNCHANGED <<views, forks, poisoned, retraction, adapter, mode, restarts>>
  BY DEF Persist, procVars
<1>6. RoundsOK'
  BY <1>1, ReturnKeeps DEF Persist, Outcomes
<1>. HIDE DEF t
<1>7. HeadIsNewest'
  BY <1>2, <1>3, <1>4, <1>5, NoneIsNoTree DEF HeadIsNewest
<1>8. StoreOK'
  BY <1>1, <1>2, <1>5, <1>7 DEF StoreOK
<1>. QED
  BY <1>2, <1>3, <1>6, <1>8 DEF t

(* RecordFork adds one finding and lets it poison the log, or does nothing.*)
LEMMA RecordForkKeeps ==
  ASSUME StoreOK, NEW f \in Finding, RecordFork(f)
  PROVE  /\ forks' \in Seq(Finding)
         /\ poisoned' \in {0, Len(forks')}
         /\ Len(forks) <= Len(forks')
         /\ poisoned = 0 => forks' = Append(forks, f) /\ poisoned' = Len(forks')
<1>1. forks \in Seq(Finding) /\ Len(forks) \in Nat /\ poisoned \in {0, Len(forks)}
  BY DEF StoreOK
<1>2. CASE poisoned # 0
  BY <1>1, <1>2 DEF RecordFork
<1>3. CASE poisoned = 0
  <2>1. forks' = Append(forks, f) /\ poisoned' = Len(forks) + 1
    BY <1>3 DEF RecordFork
  <2>2. forks' \in Seq(Finding) /\ Len(forks') = Len(forks) + 1
    BY <1>1, <2>1
  <2>. QED
    BY <1>1, <2>1, <2>2
<1>. QED
  BY <1>2, <1>3

LEMMA RecordForkStore ==
  ASSUME StoreOK, NEW f \in Finding, RecordFork(f),
         UNCHANGED <<views, head, due, retraction, cosigned, procVars>>
  PROVE  StoreOK'
<1>1. /\ forks' \in Seq(Finding) /\ poisoned' \in {0, Len(forks')}
      /\ Len(forks) <= Len(forks')
  BY RecordForkKeeps
<1>2. retraction' \in 0..Len(forks')
  BY <1>1 DEF StoreOK
<1>. QED
  BY <1>1, <1>2 DEF StoreOK, HeadIsNewest, procVars

(* The finding a round hands to RecordFork.                                *)
LEMMA ForkFinding ==
  ASSUME IInv, NEW r \in Rounds, Fork(r)
  PROVE  \E f \in Finding : RecordFork(f)
<1>. DEFINE f == [by |-> round[r].by,
                  prev |-> IF round[r].by = "heads" THEN round[r].prev ELSE None,
                  next |-> IF round[r].by = "heads" THEN round[r].next ELSE None]
<1>1. round[r] \in Round
  BY Parts DEF RoundsOK
<1>2. /\ round[r].by \in {"heads", "fetch", "content"}
      /\ round[r].prev \in Trees \cup {None} /\ round[r].next \in Trees \cup {None}
  BY <1>1 DEF Round
<1>3. f \in Finding
  BY <1>2 DEF Finding
<1>4. RecordFork(f)
  BY DEF Fork
<1>. HIDE DEF f
<1>. QED
  BY <1>3, <1>4

LEMMA ForkStep ==
  ASSUME IInv, NEW r \in Rounds, Fork(r)
  PROVE  RoundsOK' /\ StoreOK'
<1>1. RoundsOK /\ StoreOK
  BY Parts
<1>2. RoundsOK'
  BY <1>1, ReturnKeeps DEF Fork, Outcomes
<1>3. UNCHANGED <<views, head, due, retraction, cosigned, procVars>>
  BY DEF Fork
<1>4. StoreOK'
  BY <1>1, <1>3, ForkFinding, RecordForkStore
<1>. QED
  BY <1>2, <1>4

LEMMA ContentFinding == [by |-> "content", prev |-> None, next |-> None] \in Finding
BY DEF Finding

(* What happens beside the rounds.                                         *)
LEMMA EnvironmentSteps ==
  ASSUME IInv, Environment
  PROVE  RoundsOK' /\ StoreOK'
<1>1. RoundsOK /\ StoreOK
  BY Parts
<1>2. CASE ReportContent
  <2>1. RoundsOK'
    BY <1>1, <1>2 DEF ReportContent, RoundsOK, RoundOK
  <2>2. StoreOK'
    BY <1>1, <1>2, ContentFinding, RecordForkStore DEF ReportContent
  <2>. QED
    BY <2>1, <2>2
<1>3. CASE RetractFork
  <2>1. RoundsOK'
    BY <1>1, <1>3 DEF RetractFork, RoundsOK, RoundOK
  <2>2. HeadIsNewest'
    BY <1>1, <1>3 DEF RetractFork, StoreOK, HeadIsNewest
  <2>3. retraction' \in 0..Len(forks') /\ poisoned' \in {0, Len(forks')}
    <3>1. CASE poisoned # 0 /\ forks # <<>>
      <4>. DEFINE first(i) == \A j \in DOMAIN forks : i <= j
      <4>1. forks \in Seq(Finding) /\ Len(forks) \in Nat
        BY <1>1 DEF StoreOK
      <4>2. 1 \in DOMAIN forks /\ first(1)
        BY <3>1, <4>1
      <4>3. \A i \in DOMAIN forks : i \in 0..Len(forks)
        BY <4>1
      <4>4. retraction' = CHOOSE i \in DOMAIN forks : first(i)
        BY <1>3, <3>1 DEF RetractFork
      <4>. HIDE DEF first
      <4>5. retraction' \in DOMAIN forks
        BY <4>2, <4>4
      <4>6. forks' = forks /\ poisoned' = 0
        BY <1>3, <3>1 DEF RetractFork
      <4>. QED
        BY <4>3, <4>5, <4>6
    <3>2. CASE ~(poisoned # 0 /\ forks # <<>>)
      BY <1>1, <1>3, <3>2 DEF RetractFork, StoreOK
    <3>. QED
      BY <3>1, <3>2
  <2>4. /\ UNCHANGED <<views, head, due, forks, cosigned, adapter, restarts>>
        /\ mode' = "draining"
    BY <1>3 DEF RetractFork
  <2>5. StoreOK'
    BY <1>1, <2>2, <2>3, <2>4 DEF StoreOK
  <2>. QED
    BY <2>1, <2>5
<1>4. ASSUME NEW m \in {"serve", "retract"}, Restart(m)
      PROVE  RoundsOK' /\ StoreOK'
  <2>1. RoundsOK'
    BY <1>4, IdleIsRound DEF Restart, RoundsOK, RoundOK, Idle
  <2>2. restarts' \in 0..MaxRestarts
    BY <1>1, <1>4, WitnessAssumption DEF Restart, StoreOK
  <2>3. /\ UNCHANGED <<views, head, due, forks, poisoned, retraction, cosigned, adapter>>
        /\ mode' = m
    BY <1>4 DEF Restart, storeVars
  <2>4. StoreOK'
    BY <1>1, <2>2, <2>3 DEF StoreOK, HeadIsNewest
  <2>. QED
    BY <2>1, <2>4
<1>5. ASSUME NEW v \in Views, NEW leaf \in Leaf, Grow(v, leaf)
      PROVE  RoundsOK' /\ StoreOK'
  <2>1. RoundsOK'
    BY <1>1, <1>5 DEF Grow, RoundsOK, RoundOK
  <2>2. views[v] \in Seq(Leaf) /\ Len(views[v]) \in Nat
    BY <1>1, TreeIsSeq DEF StoreOK
  <2>3. Append(views[v], leaf) \in Seq(Leaf) /\ Len(Append(views[v], leaf)) <= MaxSize
    BY <1>5, <2>2, HeadsAssumption DEF Grow
  <2>4. Append(views[v], leaf) \in Trees
    BY <2>3, SeqIsTree
  <2>5. views' \in [Views -> Trees]
    BY <1>1, <1>5, <2>4 DEF Grow, StoreOK
  <2>6. UNCHANGED <<head, due, forks, poisoned, retraction, cosigned, adapter, mode, restarts>>
    BY <1>5 DEF Grow, storeVars, procVars
  <2>7. StoreOK'
    BY <1>1, <2>5, <2>6 DEF StoreOK, HeadIsNewest
  <2>. QED
    BY <2>1, <2>7
<1>6. CASE IntervalPasses
  <2>1. RoundsOK'
    BY <1>1, <1>6 DEF IntervalPasses, RoundsOK, RoundOK
  <2>2. StoreOK'
    BY <1>1, <1>6 DEF IntervalPasses, StoreOK, HeadIsNewest, procVars
  <2>. QED
    BY <2>1, <2>2
<1>. QED
  BY <1>2, <1>3, <1>4, <1>5, <1>6 DEF Environment

(* A step leaves the store's part of the invariant alone when it leaves the*)
(* store alone.                                                            *)
LEMMA StoreStutters ==
  ASSUME StoreOK, UNCHANGED <<views, storeVars, procVars>>
  PROVE  StoreOK'
BY DEF StoreOK, HeadIsNewest, storeVars, procVars

(* The steps of a round are its writes and the steps of RoundSteps.        *)
LEMMA StepCases ==
  ASSUME Next
  PROVE  \/ Environment
         \/ \E r \in Rounds :
              \/ Persist(r) \/ Fork(r)
              \/ Receive(r) \/ Begin(r) \/ Get(r)
              \/ \E t \in Trees : Fetch(r, t)
              \/ FetchFails(r) \/ FetchForks(r)
              \/ \E verdict \in GateVerdicts : Regression(r, verdict)
              \/ SplitView(r) \/ WithholdDerived(r) \/ SameTree(r)
              \/ \E verdict \in GateVerdicts : Consistency(r, verdict)
              \/ TooStale(r) \/ Raced(r) \/ PersistFails(r) \/ ForkNotPersisted(r)
BY Zenon DEF Next, Process

(* IInv is inductive.                                                      *)
LEMMA NextKeeps == IInv /\ [Next]_vars => IInv'
<1>. SUFFICES ASSUME IInv, [Next]_vars PROVE RoundsOK' /\ StoreOK'
  <2>1. IInv' <=> RoundsOK' /\ StoreOK'
    BY Parts, PTL
  <2>. QED
    BY <2>1
<1>1. RoundsOK /\ StoreOK
  BY Parts
<1>2. CASE UNCHANGED vars
  <2>1. UNCHANGED <<views, storeVars, procVars>> /\ round' = round
    BY <1>2 DEF vars
  <2>2. RoundsOK'
    BY <1>1, <2>1 DEF RoundsOK, RoundOK
  <2>. QED
    BY <1>1, <2>1, <2>2, StoreStutters
<1>3. CASE Environment
  BY <1>3, EnvironmentSteps
<1>4. ASSUME NEW r \in Rounds, Persist(r) PROVE RoundsOK' /\ StoreOK'
  BY <1>4, PersistStep
<1>5. ASSUME NEW r \in Rounds, Fork(r) PROVE RoundsOK' /\ StoreOK'
  BY <1>5, ForkStep
<1>6. ASSUME NEW r \in Rounds,
             \/ Receive(r) \/ Begin(r) \/ Get(r)
             \/ \E t \in Trees : Fetch(r, t)
             \/ FetchFails(r) \/ FetchForks(r)
             \/ \E verdict \in GateVerdicts : Regression(r, verdict)
             \/ SplitView(r) \/ WithholdDerived(r) \/ SameTree(r)
             \/ \E verdict \in GateVerdicts : Consistency(r, verdict)
             \/ TooStale(r) \/ Raced(r) \/ PersistFails(r) \/ ForkNotPersisted(r)
      PROVE  RoundsOK' /\ StoreOK'
  <2>1. RoundsOK' /\ UNCHANGED <<views, storeVars, procVars>>
    BY <1>6, RoundSteps
  <2>. QED
    BY <1>1, <2>1, StoreStutters
<1>. QED
  BY <1>2, <1>3, <1>4, <1>5, <1>6, StepCases

-----------------------------------------------------------------------------
(* Theorems *)

(* The inductive invariant holds of every state the witness reaches.       *)
THEOREM Invariance == Spec => []IInv
<1>1. Init => IInv
  BY InitEstablishes
<1>2. IInv /\ [Next]_vars => IInv'
  BY NextKeeps
<1>. QED
  BY <1>1, <1>2, PTL DEF Spec

(* Every variable keeps its type, and the poison marker names the newest   *)
(* finding.                                                                *)
THEOREM TypeCorrect == Spec => []TypeOK
<1>1. IInv => TypeOK
  BY DEF IInv
<1>. QED
  BY <1>1, Invariance, PTL

(* No two trees the witness ever cosigned contradict each other, for any   *)
(* number of pollers, pushes and views and any adapter: every cosigned tree*)
(* is a prefix of the stored head.                                         *)
THEOREM CosignedAgree == Spec => []CosignedChain
<1>1. IInv => CosignedChain
  <2>. SUFFICES ASSUME IInv, NEW s \in cosigned, NEW t \in cosigned
                PROVE  Comparable(s, t)
    BY DEF CosignedChain
  <2>1. StoreOK
    BY Parts
  <2>2. /\ head \in Trees /\ s \in Trees /\ t \in Trees
        /\ IsPrefix(s, head) /\ IsPrefix(t, head)
    BY <2>1 DEF StoreOK, HeadIsNewest
  <2>. QED
    BY <2>2, PrefixesComparable
<1>. QED
  BY <1>1, Invariance, PTL
-----------------------------------------------------------------------------
(* What a step may do to what was promised. *)

(* The trees and the order on them mean the same in the promise.           *)
LEMMA PromiseTrees == Promise!Trees = Trees
BY DEF Promise!Trees, Trees, Promise!SeqOf, SeqOf

LEMMA PromisePrefix == \A s, t : Promise!IsPrefix(s, t) <=> IsPrefix(s, t)
BY DEF Promise!IsPrefix, IsPrefix

(* CompareAndSet is one Cosign, RecordFork one Condemn or nothing,         *)
(* RetractFork one Withdraw or nothing, and no other step touches what was *)
(* promised.                                                               *)
LEMMA RecordForkPromise ==
  ASSUME StoreOK, NEW f \in Finding, RecordFork(f), UNCHANGED cosigned
  PROVE  Promise!Condemn \/ UNCHANGED <<cosigned, forks, poisoned>>
<1>1. CASE poisoned # 0
  BY <1>1 DEF RecordFork
<1>2. CASE poisoned = 0
  BY <1>2, RecordForkKeeps DEF Promise!Condemn
<1>. QED
  BY <1>1, <1>2

LEMMA StepPromise ==
  ASSUME IInv, [Next]_vars
  PROVE  [Promise!Next]_(Promise!promise)
<1>. SUFFICES \/ Promise!Cosign \/ Promise!Condemn \/ Promise!Withdraw
              \/ UNCHANGED <<cosigned, forks, poisoned>>
  BY DEF Promise!Next, Promise!promise
<1>1. StoreOK
  BY Parts
<1>2. CASE UNCHANGED vars
  BY <1>2 DEF vars, storeVars
<1>3. CASE Environment
  <2>1. CASE ReportContent
    BY <1>1, <2>1, ContentFinding, RecordForkPromise DEF ReportContent
  <2>2. CASE RetractFork
    BY <2>2 DEF RetractFork, Promise!Withdraw
  <2>3. ASSUME NEW m \in {"serve", "retract"}, Restart(m)
        PROVE  UNCHANGED <<cosigned, forks, poisoned>>
    BY <2>3 DEF Restart, storeVars
  <2>4. ASSUME NEW v \in Views, NEW leaf \in Leaf, Grow(v, leaf)
        PROVE  UNCHANGED <<cosigned, forks, poisoned>>
    BY <2>4 DEF Grow, storeVars
  <2>5. CASE IntervalPasses
    BY <2>5 DEF IntervalPasses
  <2>. QED
    BY <1>3, <2>1, <2>2, <2>3, <2>4, <2>5 DEF Environment
<1>4. ASSUME NEW r \in Rounds, Persist(r) PROVE Promise!Cosign
  <2>1. /\ round[r].next \in Promise!Trees
        /\ \A c \in cosigned : Promise!IsPrefix(c, round[r].next)
    BY <1>4, PersistStep, PromiseTrees, PromisePrefix
  <2>2. cosigned' = cosigned \cup {round[r].next} /\ UNCHANGED <<forks, poisoned>>
    BY <1>4 DEF Persist
  <2>. QED
    BY <2>1, <2>2 DEF Promise!Cosign
<1>5. ASSUME NEW r \in Rounds, Fork(r)
      PROVE  Promise!Condemn \/ UNCHANGED <<cosigned, forks, poisoned>>
  <2>1. UNCHANGED cosigned
    BY <1>5 DEF Fork
  <2>. QED
    BY <1>1, <1>5, <2>1, ForkFinding, RecordForkPromise
<1>6. ASSUME NEW r \in Rounds,
             \/ Receive(r) \/ Begin(r) \/ Get(r)
             \/ \E t \in Trees : Fetch(r, t)
             \/ FetchFails(r) \/ FetchForks(r)
             \/ \E verdict \in GateVerdicts : Regression(r, verdict)
             \/ SplitView(r) \/ WithholdDerived(r) \/ SameTree(r)
             \/ \E verdict \in GateVerdicts : Consistency(r, verdict)
             \/ TooStale(r) \/ Raced(r) \/ PersistFails(r) \/ ForkNotPersisted(r)
      PROVE  UNCHANGED <<cosigned, forks, poisoned>>
  BY <1>6, RoundSteps DEF storeVars
<1>. QED
  BY <1>2, <1>3, <1>4, <1>5, <1>6, StepCases

(* The witness keeps its promise: every step of Process, of the auditor's  *)
(* reports, of a retraction and of a restart is an abstract step or none.  *)
THEOREM PromiseKept == Spec => KeepsPromise
<1>1. Init => Promise!Init
  BY DEF Init, Promise!Init
<1>2. IInv /\ [Next]_vars => [Promise!Next]_(Promise!promise)
  BY StepPromise
<1>. QED
  BY <1>1, <1>2, Invariance, PTL DEF Spec, KeepsPromise, Promise!Spec

(* A sequence is a prefix of itself and of itself with one more entry.     *)
LEMMA EvidencePrefix ==
  ASSUME NEW s \in Seq(Finding), NEW f \in Finding
  PROVE  IsPrefix(s, s) /\ IsPrefix(s, Append(s, f))
<1>1. SubSeq(s, 1, Len(s)) = s
  OBVIOUS
<1>2. SubSeq(Append(s, f), 1, Len(s)) = s
  OBVIOUS
<1>3. Len(s) <= Len(s) /\ Len(s) <= Len(Append(s, f))
  OBVIOUS
<1>. QED
  BY <1>1, <1>2, <1>3 DEF IsPrefix

(* Evidence is write-once: no step removes, changes or, while the log is   *)
(* poisoned, adds a finding; and a finding poisons the log in the write    *)
(* that records it.                                                        *)
THEOREM EvidenceIsKept == Spec => EvidenceKept
<1>. DEFINE Kept == /\ IsPrefix(forks, forks')
                    /\ forks' # forks => poisoned = 0 /\ poisoned' = Len(forks')
<1>1. ASSUME IInv, Promise!Condemn PROVE Kept
  BY <1>1, Parts, EvidencePrefix DEF Promise!Condemn, StoreOK
<1>2. ASSUME IInv, forks' = forks PROVE Kept
  <2>1. PICK f : f \in Finding
    BY ContentFinding
  <2>2. IsPrefix(forks, forks)
    BY <1>2, <2>1, Parts, EvidencePrefix DEF StoreOK
  <2>. QED
    BY <1>2, <2>2
<1>3. ASSUME IInv, [Next]_vars PROVE Kept
  <2>1. \/ Promise!Cosign \/ Promise!Condemn \/ Promise!Withdraw
        \/ UNCHANGED <<cosigned, forks, poisoned>>
    BY <1>3, StepPromise DEF Promise!Next, Promise!promise
  <2>2. CASE Promise!Condemn
    BY <1>1, <1>3, <2>2
  <2>3. CASE ~Promise!Condemn
    <3>1. forks' = forks
      BY <2>1, <2>3 DEF Promise!Cosign, Promise!Withdraw
    <3>. QED
      BY <1>2, <1>3, <3>1
  <2>. QED
    BY <2>2, <2>3
<1>4. IInv /\ [Next]_vars => [Kept]_vars
  BY <1>3
<1>. QED
  BY <1>4, Invariance, PTL DEF Spec, EvidenceKept


-----------------------------------------------------------------------------
(* Findings. *)

(* No pair of adapter and fault is there for which the code takes a failure*)
(* for a contradiction: a broken proof is one to sigsum and signal, a store*)
(* failure to proton, contents that do not match to c2sp and proton.       *)
NoFalseAlarm ==
  /\ "proof" \in Faults => Adapters \cap {"sigsum", "signal"} = {}
  /\ "store" \in Faults => "proton" \notin Adapters
  /\ "content" \in Faults => Adapters \cap {"c2sp", "proton"} = {}

(* No adapter walks a chain of epochs, which can break anywhere between two*)
(* heads that agree.                                                       *)
SignedHeadsOnly == Adapters \cap {"akd", "proton"} = {}

Contradict(s, t) == s \in Trees /\ t \in Trees /\ ~Comparable(s, t)

-----------------------------------------------------------------------------
(* What the gates see is what the log served, now or before. *)

Seen(t) == t = None \/ t \in Served

FindingOK(f) ==
  /\ f.by # "content" => Equivocated
  /\ SignedHeadsOnly /\ f.by = "heads" => Contradict(f.prev, f.next)

SeenRound(x) ==
  /\ Seen(x.prev) /\ Seen(x.next)
  /\ x.pc = "fork" => FindingOK(x)

SeenOK ==
  /\ Seen(head)
  /\ \A r \in Rounds : SeenRound(round[r])
  /\ \A i \in DOMAIN forks : FindingOK(forks[i])

(* Trees of one length are comparable only if they are equal.              *)
LEMMA SameLength ==
  ASSUME NEW s \in Trees, NEW t \in Trees, Len(s) = Len(t), s # t
  PROVE  ~Comparable(s, t)
<1>1. s \in Seq(Leaf) /\ t \in Seq(Leaf) /\ Len(s) \in Nat
  BY TreeIsSeq
<1>2. \E i \in 1..Len(s) : s[i] # t[i]
  BY <1>1
<1>. QED
  BY <1>1, <1>2, PrefixByEntry DEF Comparable

(* Two trees the log served that contradict each other are two histories.  *)
LEMMA ContradictionIsEquivocation ==
  ASSUME views \in [Views -> Trees], NEW s \in Served, NEW t \in Served,
         ~Comparable(s, t)
  PROVE  Equivocated
<1>1. PICK v \in Views : IsPrefix(s, views[v])
  BY DEF Served
<1>2. PICK w \in Views : IsPrefix(t, views[w])
  BY DEF Served
<1>3. s \in Trees /\ t \in Trees /\ views[v] \in Trees /\ views[w] \in Trees
  BY DEF Served
<1>4. SUFFICES ASSUME Comparable(views[v], views[w]) PROVE FALSE
  BY DEF Equivocated
<1>5. CASE IsPrefix(views[v], views[w])
  <2>1. IsPrefix(s, views[w])
    BY <1>1, <1>3, <1>5, PrefixTransitive
  <2>. QED
    BY <1>2, <1>3, <2>1, PrefixesComparable
<1>6. CASE IsPrefix(views[w], views[v])
  <2>1. IsPrefix(t, views[v])
    BY <1>2, <1>3, <1>6, PrefixTransitive
  <2>. QED
    BY <1>1, <1>3, <2>1, PrefixesComparable
<1>. QED
  BY <1>4, <1>5, <1>6 DEF Comparable

(* A log forgets neither a tree it served nor a history it forked off.     *)
LEMMA GrowExtends ==
  ASSUME views \in [Views -> Trees], views' \in [Views -> Trees],
         NEW v \in Views, NEW leaf \in Leaf, Grow(v, leaf), NEW w \in Views
  PROVE  IsPrefix(views[w], views'[w])
<1>1. views[w] \in Trees /\ views'[w] \in Trees /\ views[w] \in Seq(Leaf)
  BY TreeIsSeq
<1>2. CASE w # v
  BY <1>1, <1>2, PrefixReflexive DEF Grow
<1>3. CASE w = v
  <2>1. views'[w] = Append(views[w], leaf)
    BY <1>3 DEF Grow
  <2>2. /\ Len(views[w]) <= Len(Append(views[w], leaf))
        /\ \A i \in 1..Len(views[w]) : views[w][i] = Append(views[w], leaf)[i]
    BY <1>1
  <2>. QED
    BY <1>1, <2>1, <2>2, PrefixByEntry
<1>. QED
  BY <1>2, <1>3

LEMMA GrowRemembers ==
  ASSUME views \in [Views -> Trees], views' \in [Views -> Trees],
         NEW v \in Views, NEW leaf \in Leaf, Grow(v, leaf)
  PROVE  /\ Served \subseteq Served'
         /\ Equivocated => Equivocated'
<1>1. ASSUME NEW t \in Served PROVE t \in Served'
  <2>1. PICK w \in Views : IsPrefix(t, views[w])
    BY DEF Served
  <2>2. t \in Trees /\ views[w] \in Trees /\ views'[w] \in Trees
    BY DEF Served
  <2>3. IsPrefix(t, views'[w])
    BY <2>1, <2>2, GrowExtends, PrefixTransitive
  <2>. QED
    BY <2>2, <2>3 DEF Served
<1>2. ASSUME Equivocated PROVE Equivocated'
  <2>1. PICK w \in Views, u \in Views : ~Comparable(views[w], views[u])
    BY <1>2 DEF Equivocated
  <2>2. /\ views[w] \in Trees /\ views[u] \in Trees
        /\ views'[w] \in Trees /\ views'[u] \in Trees
        /\ IsPrefix(views[w], views'[w]) /\ IsPrefix(views[u], views'[u])
    BY GrowExtends
  <2>3. ASSUME Comparable(views'[w], views'[u]) PROVE FALSE
    <3>1. CASE IsPrefix(views'[w], views'[u])
      <4>1. IsPrefix(views[w], views'[u])
        BY <2>2, <3>1, PrefixTransitive
      <4>. QED
        BY <2>1, <2>2, <4>1, PrefixesComparable
    <3>2. CASE IsPrefix(views'[u], views'[w])
      <4>1. IsPrefix(views[u], views'[w])
        BY <2>2, <3>2, PrefixTransitive
      <4>. QED
        BY <2>1, <2>2, <4>1, PrefixesComparable
    <3>. QED
      BY <2>3, <3>1, <3>2 DEF Comparable
  <2>. QED
    BY <2>3 DEF Equivocated
<1>. QED
  BY <1>1, <1>2

-----------------------------------------------------------------------------
(* What makes a round accuse the log. *)

(* A walk that breaks between an older and a longer tree.                  *)
LEMMA BrokenWalk ==
  ASSUME NoFalseAlarm, IInv, NEW r \in Rounds,
         NEW old \in Served, NEW new \in Served, Len(old) < Len(new),
         "heads" \in Verdicts(r, old, new)
  PROVE  Equivocated /\ (SignedHeadsOnly => ~Comparable(old, new))
<1>1. adapter \in Adapters /\ views \in [Views -> Trees]
  BY Parts DEF StoreOK
<1>2. old \in Trees /\ new \in Trees /\ old # None
  BY NoneIsNoTree DEF Served
<1>3. Len(old) \in Nat /\ Len(new) \in Nat
  BY <1>2, TreeIsSeq
<1>4. WalkBreaks(old, new)
  BY DEF Verdicts, PushVerdicts, PollVerdicts
<1>5. CASE ~Extends(new, old)
  <2>1. ~IsPrefix(old, new) /\ ~IsPrefix(new, old)
    BY <1>2, <1>3, <1>5, PrefixByEntry DEF Extends
  <2>2. ~Comparable(old, new)
    BY <2>1 DEF Comparable
  <2>. QED
    BY <1>1, <2>2, ContradictionIsEquivocation
<1>6. CASE adapter \in {"akd", "proton"} /\ Equivocated
  BY <1>1, <1>6 DEF SignedHeadsOnly
<1>. QED
  BY <1>1, <1>4, <1>5, <1>6 DEF WalkBreaks, NoFalseAlarm

(* Gate 1 on a smaller head: the log contradicts itself.                   *)
LEMMA RegressionAccusesTruly ==
  ASSUME NoFalseAlarm, IInv, SeenOK, NEW r \in Rounds,
         NEW verdict \in {"heads", "content"}, Regression(r, verdict)
  PROVE  Equivocated /\ (SignedHeadsOnly => Contradict(round[r].prev, round[r].next))
<1>. DEFINE s == round[r].prev
            t == round[r].next
<1>1. adapter \in Adapters /\ RoundOK(r, round[r]) /\ SeenRound(round[r])
  BY Parts DEF StoreOK, RoundsOK, SeenOK
<1>2. t \in Trees /\ t \in Served
  BY <1>1, NoneIsNoTree DEF Regression, At, RoundOK, SeenRound, Seen
<1>3. Len(t) < Size(s) /\ Len(t) \in Nat
  BY <1>2, TreeIsSeq DEF Regression, Smaller
<1>4. s # None /\ s \in Served /\ Len(t) < Len(s)
  BY <1>1, <1>3 DEF Size, SeenRound, Seen
<1>5. verdict \in Verdicts(r, t, s)
  BY DEF Regression
<1>6. verdict # "content"
  BY <1>1, <1>5 DEF Verdicts, PushVerdicts, PollVerdicts, NoFalseAlarm
<1>7. Equivocated /\ (SignedHeadsOnly => ~Comparable(t, s))
  BY <1>2, <1>4, <1>5, <1>6, BrokenWalk
<1>. QED
  BY <1>2, <1>4, <1>7 DEF Contradict, Comparable, Served

(* Gate 1 on another root of the witnessed size.                           *)
LEMMA SplitViewAccusesTruly ==
  ASSUME IInv, SeenOK, NEW r \in Rounds, SplitView(r)
  PROVE  Equivocated /\ Contradict(round[r].prev, round[r].next)
<1>. DEFINE s == round[r].prev
            t == round[r].next
<1>1. views \in [Views -> Trees] /\ RoundOK(r, round[r]) /\ SeenRound(round[r])
  BY Parts DEF StoreOK, RoundsOK, SeenOK
<1>2. t \in Trees /\ t \in Served
  BY <1>1, NoneIsNoTree DEF SplitView, At, RoundOK, SeenRound, Seen
<1>3. s \in Trees /\ s \in Served
  BY <1>1 DEF SplitView, Larger, SeenRound, Seen, Served
<1>4. Len(s) = Len(t) /\ s # t
  <2>1. Len(s) \in Nat /\ Len(t) \in Nat /\ s # None
    BY <1>2, <1>3, TreeIsSeq, NoneIsNoTree
  <2>. QED
    BY <2>1 DEF SplitView, Smaller, Larger, Size
<1>5. ~Comparable(s, t)
  BY <1>2, <1>3, <1>4, SameLength
<1>. QED
  BY <1>1, <1>2, <1>3, <1>5, ContradictionIsEquivocation DEF Contradict

(* Gate 2 on a larger head.                                                *)
LEMMA ConsistencyAccusesTruly ==
  ASSUME NoFalseAlarm, IInv, SeenOK, NEW r \in Rounds, Consistency(r, "heads")
  PROVE  Equivocated /\ (SignedHeadsOnly => Contradict(round[r].prev, round[r].next))
<1>. DEFINE s == round[r].prev
            t == round[r].next
<1>1. RoundOK(r, round[r]) /\ SeenRound(round[r]) /\ adapter \in Adapters
  BY Parts DEF StoreOK, RoundsOK, SeenOK
<1>2. t \in Trees /\ t \in Served
  BY <1>1, NoneIsNoTree DEF Consistency, At, RoundOK, SeenRound, Seen
<1>3. "heads" \in Verdicts(r, s, t)
  BY DEF Consistency
<1>4. s # None
  BY <1>1, <1>3 DEF Verdicts, PushVerdicts, PollVerdicts, WalkBreaks, Extends,
                    Size, NoFalseAlarm
<1>5. s \in Served /\ Len(s) < Len(t)
  <2>1. s \in Served /\ s \in Trees
    BY <1>1, <1>4 DEF SeenRound, Seen, Served
  <2>2. Len(s) \in Nat /\ Len(t) \in Nat
    BY <1>2, <2>1, TreeIsSeq
  <2>. QED
    BY <1>4, <2>1, <2>2 DEF Consistency, Larger, Size
<1>6. Equivocated /\ (SignedHeadsOnly => ~Comparable(s, t))
  BY <1>2, <1>3, <1>5, BrokenWalk
<1>. QED
  BY <1>2, <1>5, <1>6 DEF Contradict, Served
-----------------------------------------------------------------------------
(* Every step keeps the findings true. *)

LEMMA SeenInit == Init => SeenOK
<1>. SUFFICES ASSUME Init PROVE SeenOK
  OBVIOUS
<1>1. SeenRound(Idle)
  BY DEF SeenRound, Idle, Seen
<1>. QED
  BY <1>1 DEF Init, SeenOK, Seen

(* A step of one round that leaves the log alone, and adds only true       *)
(* findings.                                                               *)
LEMMA SeenWrite ==
  ASSUME SeenOK, RoundsOK, views' = views,
         NEW r \in Rounds, NEW x, SeenRound(x),
         round' = [round EXCEPT ![r] = x],
         Seen(head'), \A i \in DOMAIN forks' : FindingOK(forks'[i])
  PROVE  SeenOK'
<1>2. \A y : SeenRound(y) => SeenRound(y)'
  BY DEF SeenRound, Seen, FindingOK, Equivocated, Served
<1>3. \A i \in Rounds : SeenRound(round'[i])
  BY DEF SeenOK, RoundsOK
<1>4. \A i \in Rounds : SeenRound(round[i])'
  BY <1>2, <1>3 DEF SeenRound, Seen, FindingOK, Equivocated, Served
<1>. QED
  BY <1>4 DEF SeenOK, Seen, FindingOK, Equivocated, Served

LEMMA SeenEdit ==
  ASSUME SeenOK, RoundsOK, UNCHANGED <<views, storeVars, procVars>>,
         NEW r \in Rounds, NEW x, SeenRound(x),
         round' = [round EXCEPT ![r] = x]
  PROVE  SeenOK'
<1>1. views' = views /\ head' = head /\ forks' = forks
  BY DEF storeVars
<1>2. Seen(head') /\ \A i \in DOMAIN forks' : FindingOK(forks'[i])
  BY <1>1 DEF SeenOK
<1>. QED
  BY <1>1, <1>2, SeenWrite

(* What a round leaves behind when it returns.                             *)
LEMMA SeenReturned ==
  ASSUME SeenOK, NEW r \in Rounds, NEW out, Return(r, out)
  PROVE  \E x : SeenRound(x) /\ round' = [round EXCEPT ![r] = x]
<1>. DEFINE x == IF r \in Pushers
                 THEN [Idle EXCEPT !.out = out, !.next = round[r].next,
                                   !.old = round[r].old, !.split = round[r].split]
                 ELSE Idle
<1>1. x.pc = "idle" /\ x.prev = None /\ x.next \in {None, round[r].next}
  BY DEF Idle
<1>2. round' = [round EXCEPT ![r] = x]
  BY DEF Return
<1>. HIDE DEF x
<1>3. SeenRound(x)
  BY <1>1 DEF SeenRound, Seen, SeenOK
<1>. QED
  BY <1>2, <1>3

LEMMA SeenReturn ==
  ASSUME SeenOK, RoundsOK, UNCHANGED <<views, storeVars, procVars>>,
         NEW r \in Rounds, NEW out, Return(r, out)
  PROVE  SeenOK'
BY SeenReturned, SeenEdit

LEMMA SeenGoto ==
  ASSUME SeenOK, RoundsOK, UNCHANGED <<views, storeVars, procVars>>,
         NEW r \in Rounds, NEW pc, pc # "fork", Goto(r, pc)
  PROVE  SeenOK'
<1>. DEFINE x == [round[r] EXCEPT !.pc = pc]
<1>1. round[r] \in Round /\ SeenRound(round[r])
  BY DEF RoundsOK, SeenOK
<1>2. x.pc = pc /\ x.prev = round[r].prev /\ x.next = round[r].next
  BY <1>1 DEF Round
<1>3. round' = [round EXCEPT ![r] = x]
  BY DEF Goto
<1>. HIDE DEF x
<1>4. SeenRound(x)
  BY <1>1, <1>2 DEF SeenRound
<1>. QED
  BY <1>3, <1>4, SeenEdit

(* Accusing is sound when the accusation is.                               *)
LEMMA SeenAccuse ==
  ASSUME SeenOK, RoundsOK, UNCHANGED <<views, storeVars, procVars>>,
         NEW r \in Rounds, NEW by, Accuse(r, by),
         by # "content" => Equivocated,
         SignedHeadsOnly /\ by = "heads" => Contradict(round[r].prev, round[r].next)
  PROVE  SeenOK'
<1>. DEFINE x == [round[r] EXCEPT !.pc = "fork", !.by = by]
<1>1. round[r] \in Round /\ SeenRound(round[r])
  BY DEF RoundsOK, SeenOK
<1>2. x.by = by /\ x.prev = round[r].prev /\ x.next = round[r].next
  BY <1>1 DEF Round
<1>3. round' = [round EXCEPT ![r] = x]
  BY <1>1 DEF Accuse
<1>. HIDE DEF x
<1>4. SeenRound(x)
  BY <1>1, <1>2 DEF SeenRound, FindingOK
<1>. QED
  BY <1>3, <1>4, SeenEdit

(* The round a pushed checkpoint starts.                                   *)
LEMMA ReceivedRound ==
  ASSUME NEW r \in Rounds, Receive(r)
  PROVE  \E x : /\ x.next \in Served /\ x.prev = None /\ x.pc # "fork"
                /\ round' = [round EXCEPT ![r] = x]
<1>1. PICK t \in Served, old \in 0..MaxSize, good \in BOOLEAN :
        LET same == head # None /\ Len(t) = Len(head) IN
        /\ old <= Len(t)
        /\ round' = [round EXCEPT ![r] =
             IF old # Size(head)
             THEN [Idle EXCEPT !.next = t, !.old = old, !.out = "conflict"]
             ELSE [Idle EXCEPT !.pc = "received", !.next = t, !.old = old,
                     !.good  = good,
                     !.split = same /\ t # head /\ poisoned = 0,
                     !.force = same /\ (t = head \/ poisoned # 0)]]
  BY Zenon DEF Receive
<1>. DEFINE same == head # None /\ Len(t) = Len(head)
            x == IF old # Size(head)
                 THEN [Idle EXCEPT !.next = t, !.old = old, !.out = "conflict"]
                 ELSE [Idle EXCEPT !.pc = "received", !.next = t, !.old = old,
                         !.good = good,
                         !.split = same /\ t # head /\ poisoned = 0,
                         !.force = same /\ (t = head \/ poisoned # 0)]
<1>2. x.next = t /\ x.prev = None /\ x.pc # "fork"
  BY DEF Idle
<1>3. round' = [round EXCEPT ![r] = x]
  BY <1>1
<1>. HIDE DEF x
<1>. QED
  BY <1>2, <1>3

(* The steps of a round that write nothing.                                *)
LEMMA SeenRoundSteps ==
  ASSUME NoFalseAlarm, IInv, SeenOK, NEW r \in Rounds,
         \/ Receive(r) \/ Begin(r) \/ Get(r)
         \/ \E t \in Trees : Fetch(r, t)
         \/ FetchFails(r) \/ FetchForks(r)
         \/ \E verdict \in GateVerdicts : Regression(r, verdict)
         \/ SplitView(r) \/ WithholdDerived(r) \/ SameTree(r)
         \/ \E verdict \in GateVerdicts : Consistency(r, verdict)
         \/ TooStale(r) \/ Raced(r) \/ PersistFails(r) \/ ForkNotPersisted(r)
  PROVE  SeenOK'
<1>1. RoundsOK /\ round[r] \in Round /\ SeenRound(round[r])
  BY Parts DEF RoundsOK, SeenOK
<1>2. UNCHANGED <<views, storeVars, procVars>>
  BY RoundSteps
<1>. USE <1>1, <1>2
<1>3. CASE Receive(r)
  <2>1. PICK x : /\ x.next \in Served /\ x.prev = None /\ x.pc # "fork"
                 /\ round' = [round EXCEPT ![r] = x]
    BY <1>3, ReceivedRound
  <2>2. SeenRound(x)
    BY <2>1 DEF SeenRound, Seen
  <2>. QED
    BY <2>1, <2>2, SeenEdit
<1>4. CASE Begin(r)
  BY <1>4, SeenReturn, SeenGoto DEF Begin
<1>5. CASE Get(r)
  <2>. DEFINE x == [round[r] EXCEPT !.pc = "got", !.prev = head, !.due = due]
  <2>1. x.pc = "got" /\ x.prev = head /\ x.next = round[r].next
    BY DEF Round
  <2>2. round' = [round EXCEPT ![r] = x]
    BY <1>5 DEF Get
  <2>. HIDE DEF x
  <2>3. SeenRound(x)
    BY <2>1 DEF SeenRound, SeenOK
  <2>. QED
    BY <2>2, <2>3, SeenEdit
<1>6. ASSUME NEW t \in Trees, Fetch(r, t) PROVE SeenOK'
  <2>. DEFINE x == [round[r] EXCEPT !.pc = "fetched", !.next = t]
  <2>1. x.pc = "fetched" /\ x.prev = round[r].prev /\ x.next = t
    BY DEF Round
  <2>2. round' = [round EXCEPT ![r] = x]
    BY <1>6 DEF Fetch
  <2>3. Seen(t)
    BY <1>6 DEF Fetch, Seen, SeenRound
  <2>. HIDE DEF x
  <2>4. SeenRound(x)
    BY <2>1, <2>3 DEF SeenRound
  <2>. QED
    BY <2>2, <2>4, SeenEdit
<1>7. CASE FetchFails(r)
  BY <1>7, SeenReturn DEF FetchFails
<1>8. CASE FetchForks(r)
  <2>1. adapter \in Adapters
    BY Parts DEF StoreOK
  <2>2. Equivocated
    BY <1>8, <2>1 DEF FetchForks, NoFalseAlarm
  <2>. QED
    BY <1>8, <2>2, SeenAccuse DEF FetchForks
<1>9. ASSUME NEW verdict \in GateVerdicts, Regression(r, verdict) PROVE SeenOK'
  <2>1. CASE verdict \in {"heads", "content"}
    <3>1. Equivocated /\ (SignedHeadsOnly => Contradict(round[r].prev, round[r].next))
      BY <1>9, <2>1, RegressionAccusesTruly
    <3>2. Accuse(r, "heads")
      BY <1>9, <2>1 DEF Regression
    <3>. QED
      BY <3>1, <3>2, SeenAccuse
  <2>2. CASE verdict = "ok"
    BY <1>9, <2>2, SeenReturn DEF Regression
  <2>3. CASE verdict \notin {"heads", "content", "ok"}
    BY <1>9, <2>3, SeenReturn DEF Regression
  <2>. QED
    BY <2>1, <2>2, <2>3
<1>10. CASE SplitView(r)
  <2>1. Equivocated /\ Contradict(round[r].prev, round[r].next)
    BY <1>10, SplitViewAccusesTruly
  <2>2. Accuse(r, "heads")
    BY <1>10 DEF SplitView
  <2>. QED
    BY <2>1, <2>2, SeenAccuse
<1>11. CASE WithholdDerived(r)
  BY <1>11, SeenReturn DEF WithholdDerived
<1>12. CASE SameTree(r)
  BY <1>12, SeenReturn, SeenGoto DEF SameTree
<1>13. ASSUME NEW verdict \in GateVerdicts, Consistency(r, verdict) PROVE SeenOK'
  <2>1. CASE verdict = "heads"
    <3>1. Equivocated /\ (SignedHeadsOnly => Contradict(round[r].prev, round[r].next))
      BY <1>13, <2>1, ConsistencyAccusesTruly
    <3>2. Accuse(r, "heads")
      BY <1>13, <2>1 DEF Consistency
    <3>. QED
      BY <3>1, <3>2, SeenAccuse
  <2>2. CASE verdict = "content"
    <3>1. Accuse(r, "content")
      BY <1>13, <2>2 DEF Consistency
    <3>. QED
      BY <3>1, SeenAccuse
  <2>3. CASE verdict = "ok"
    BY <1>13, <2>3, SeenGoto DEF Consistency
  <2>4. CASE verdict \notin {"heads", "content", "ok"}
    BY <1>13, <2>4, SeenReturn DEF Consistency
  <2>. QED
    BY <2>1, <2>2, <2>3, <2>4
<1>14. CASE TooStale(r)
  BY <1>14, SeenReturn DEF TooStale
<1>15. CASE Raced(r)
  BY <1>15, SeenReturn DEF Raced
<1>16. CASE PersistFails(r)
  BY <1>16, SeenReturn DEF PersistFails
<1>17. CASE ForkNotPersisted(r)
  BY <1>17, SeenReturn DEF ForkNotPersisted
<1>. QED
  BY <1>3, <1>4, <1>5, <1>6, <1>7, <1>8, <1>9, <1>10, <1>11, <1>12, <1>13,
     <1>14, <1>15, <1>16, <1>17

(* Recording a finding that is true keeps the findings true.               *)
LEMMA RecordForkSeen ==
  ASSUME StoreOK, NEW f \in Finding, RecordFork(f), FindingOK(f),
         \A i \in DOMAIN forks : FindingOK(forks[i])
  PROVE  \A i \in DOMAIN forks' : FindingOK(forks'[i])
<1>1. forks \in Seq(Finding) /\ poisoned \in {0, Len(forks)}
  BY DEF StoreOK
<1>2. CASE poisoned # 0
  BY <1>2 DEF RecordFork
<1>3. CASE poisoned = 0
  <2>1. forks' = Append(forks, f)
    BY <1>3 DEF RecordFork
  <2>2. ASSUME NEW i \in DOMAIN forks'
        PROVE  forks'[i] = f \/ (i \in DOMAIN forks /\ forks'[i] = forks[i])
    BY <1>1, <2>1, <2>2
  <2>. QED
    BY <2>2
<1>. QED
  BY <1>2, <1>3

LEMMA SeenNext == NoFalseAlarm /\ IInv /\ SeenOK /\ [Next]_vars => SeenOK'
<1>. SUFFICES ASSUME NoFalseAlarm, IInv, SeenOK, [Next]_vars PROVE SeenOK'
  OBVIOUS
<1>1. RoundsOK /\ StoreOK
  BY Parts
<1>2. ASSUME UNCHANGED <<views, head, forks>>, round' = round PROVE SeenOK'
  BY <1>2 DEF SeenOK, SeenRound, Seen, FindingOK, Equivocated, Served
<1>3. CASE UNCHANGED vars
  BY <1>2, <1>3 DEF vars, storeVars
<1>4. CASE Environment
  <2>1. CASE ReportContent
    <3>. DEFINE f == [by |-> "content", prev |-> None, next |-> None]
    <3>1. f \in Finding /\ FindingOK(f) /\ RecordFork(f)
      BY <2>1, ContentFinding DEF ReportContent, FindingOK
    <3>2. \A i \in DOMAIN forks' : FindingOK(forks'[i])
      BY <1>1, <3>1, RecordForkSeen DEF SeenOK
    <3>3. UNCHANGED <<views, head, round>>
      BY <2>1 DEF ReportContent
    <3>. QED
      BY <3>2, <3>3 DEF SeenOK, SeenRound, Seen, FindingOK, Equivocated, Served
  <2>2. CASE RetractFork
    BY <1>2, <2>2 DEF RetractFork
  <2>3. ASSUME NEW m \in {"serve", "retract"}, Restart(m) PROVE SeenOK'
    <3>1. UNCHANGED <<views, head, forks>> /\ round' = [r \in Rounds |-> Idle]
      BY <2>3 DEF Restart, storeVars
    <3>2. SeenRound(Idle)'
      BY DEF SeenRound, Idle, Seen
    <3>. QED
      BY <3>1, <3>2 DEF SeenOK, Seen, FindingOK, Equivocated, Served
  <2>4. ASSUME NEW v \in Views, NEW leaf \in Leaf, Grow(v, leaf) PROVE SeenOK'
    <3>1. views \in [Views -> Trees] /\ views' \in [Views -> Trees]
      BY <1>1, <1>4, EnvironmentSteps DEF StoreOK
    <3>2. Served \subseteq Served' /\ (Equivocated => Equivocated')
      BY <2>4, <3>1, GrowRemembers
    <3>3. UNCHANGED <<head, forks, round>>
      BY <2>4 DEF Grow, storeVars
    <3>4. \A t : Seen(t) => Seen(t)'
      BY <3>2 DEF Seen
    <3>5. \A f : FindingOK(f) => FindingOK(f)'
      BY <3>2 DEF FindingOK
    <3>6. \A x : SeenRound(x) => SeenRound(x)'
      BY <3>4, <3>5 DEF SeenRound
    <3>. QED
      BY <3>3, <3>4, <3>5, <3>6 DEF SeenOK
  <2>5. CASE IntervalPasses
    BY <1>2, <2>5 DEF IntervalPasses
  <2>. QED
    BY <1>4, <2>1, <2>2, <2>3, <2>4, <2>5 DEF Environment
<1>5. ASSUME NEW r \in Rounds, Persist(r) PROVE SeenOK'
  <2>1. PICK x : SeenRound(x) /\ round' = [round EXCEPT ![r] = x]
    BY <1>5, SeenReturned DEF Persist
  <2>2. views' = views /\ head' = round[r].next /\ forks' = forks
    BY <1>5 DEF Persist
  <2>3. Seen(head')
    BY <2>2 DEF SeenOK, SeenRound
  <2>4. \A i \in DOMAIN forks' : FindingOK(forks'[i])
    BY <2>2 DEF SeenOK
  <2>. QED
    BY <1>1, <2>1, <2>2, <2>3, <2>4, SeenWrite
<1>6. ASSUME NEW r \in Rounds, Fork(r) PROVE SeenOK'
  <2>. DEFINE f == [by |-> round[r].by,
                    prev |-> IF round[r].by = "heads" THEN round[r].prev ELSE None,
                    next |-> IF round[r].by = "heads" THEN round[r].next ELSE None]
  <2>1. PICK x : SeenRound(x) /\ round' = [round EXCEPT ![r] = x]
    BY <1>6, SeenReturned DEF Fork
  <2>2. FindingOK(round[r]) /\ round[r] \in Round
    BY <1>1, <1>6 DEF Fork, At, SeenOK, SeenRound, RoundsOK
  <2>3. FindingOK(f)
    BY <2>2 DEF FindingOK
  <2>4. f \in Finding
    BY <2>2 DEF Round, Finding
  <2>5. RecordFork(f) /\ views' = views /\ head' = head
    BY <1>6 DEF Fork
  <2>. HIDE DEF f
  <2>6. \A i \in DOMAIN forks' : FindingOK(forks'[i])
    BY <1>1, <2>3, <2>4, <2>5, RecordForkSeen DEF SeenOK
  <2>7. Seen(head')
    BY <2>5 DEF SeenOK
  <2>. QED
    BY <1>1, <2>1, <2>5, <2>6, <2>7, SeenWrite
<1>7. ASSUME NEW r \in Rounds,
             \/ Receive(r) \/ Begin(r) \/ Get(r)
             \/ \E t \in Trees : Fetch(r, t)
             \/ FetchFails(r) \/ FetchForks(r)
             \/ \E verdict \in GateVerdicts : Regression(r, verdict)
             \/ SplitView(r) \/ WithholdDerived(r) \/ SameTree(r)
             \/ \E verdict \in GateVerdicts : Consistency(r, verdict)
             \/ TooStale(r) \/ Raced(r) \/ PersistFails(r) \/ ForkNotPersisted(r)
      PROVE  SeenOK'
  BY <1>7, SeenRoundSteps
<1>. QED
  BY <1>3, <1>4, <1>5, <1>6, <1>7, StepCases

-----------------------------------------------------------------------------
(* Theorems *)

LEMMA SeenAlways == ASSUME NoFalseAlarm PROVE Spec => []SeenOK
<1>1. Init => SeenOK
  BY SeenInit
<1>2. IInv /\ SeenOK /\ [Next]_vars => SeenOK'
  BY SeenNext
<1>. QED
  BY <1>1, <1>2, Invariance, PTL DEF Spec

(* A log that shows everybody one history is never found to fork, when no  *)
(* fault is one that the configured adapter takes for a contradiction:     *)
(* stale replicas, lagging listings, failed fetches, races and restarts    *)
(* accuse nobody.                                                          *)
THEOREM NobodyFalselyAccused ==
  ASSUME NoFalseAlarm PROVE Spec => []FindingsAreTrue
<1>1. SeenOK => FindingsAreTrue
  BY DEF SeenOK, FindingOK, FindingsAreTrue
<1>. QED
  BY <1>1, SeenAlways, PTL

(* The two heads of a recorded fork contradict each other, for the adapters*)
(* that poll signed heads: whoever holds the finding can check it.         *)
THEOREM EvidenceIsConclusive ==
  ASSUME NoFalseAlarm, SignedHeadsOnly PROVE Spec => []FindingsAreContradictions
<1>1. SeenOK => FindingsAreContradictions
  BY DEF SeenOK, FindingOK, FindingsAreContradictions, Contradict
<1>. QED
  BY <1>1, SeenAlways, PTL

-----------------------------------------------------------------------------
(* The handler runs the core. *)

LEMMA InitIsInit == PushInit => Init
BY DEF PushInit

LEMMA StepIsStep == [PushNext]_pushVars => [Next]_vars
<1>. SUFFICES ASSUME [PushNext]_pushVars PROVE Next \/ UNCHANGED vars
  OBVIOUS
<1>1. CASE UNCHANGED pushVars
  BY <1>1 DEF pushVars
<1>2. ASSUME NEW r \in Pushers, Request(r) PROVE Next
  <2>1. Receive(r) /\ r \in Rounds
    BY <1>2 DEF Request, Rounds
  <2>. QED
    BY <2>1 DEF Next
<1>3. ASSUME NEW r \in Pushers, Respond(r) PROVE UNCHANGED vars
  BY <1>3 DEF Respond
<1>4. ASSUME NEW r \in Rounds, Process(r) PROVE Next
  BY <1>4 DEF Next
<1>5. ASSUME NEW m \in {"serve", "retract"}, PushRestart(m) PROVE Next
  <2>1. Restart(m)
    BY <1>5 DEF PushRestart
  <2>. QED
    BY <2>1 DEF Next, Environment
<1>6. ASSUME ReportContent \/ RetractFork \/ IntervalPasses
             \/ \E v \in Views, leaf \in Leaf : Grow(v, leaf)
      PROVE  Next
  BY <1>6 DEF Next, Environment
<1>. QED
  BY <1>1, <1>2, <1>3, <1>4, <1>5, <1>6, Zenon DEF PushNext

(* The handler implements the witness core: what is proved of the core's   *)
(* store, its promise and its findings holds while requests are answered.  *)
THEOREM PushIsWitness == PushSpec => Spec
<1>1. PushInit => Init
  BY InitIsInit
<1>2. [PushNext]_pushVars => [Next]_vars
  BY StepIsStep
<1>. QED
  BY <1>1, <1>2, PTL DEF PushSpec, Spec

(* The two heads on record against a log contradict each other, also when  *)
(* it was a push that showed one of them.                                  *)
THEOREM PushEvidenceIsConclusive ==
  ASSUME NoFalseAlarm, SignedHeadsOnly
  PROVE  PushSpec => []FindingsAreContradictions
BY PushIsWitness, EvidenceIsConclusive, PTL

-----------------------------------------------------------------------------
(* The inductive invariant: what an answer relies on, from the request to  *)
(* the moment it is said.  The head and the cosigned trees move under it,  *)
(* but only forward.                                                       *)

(* A handler's round.  The size the log named was the stored one when the  *)
(* request was taken, so the head, and the record read later, are no       *)
(* smaller; what was raced has lost to a larger head, or to a first one.   *)
RequestOK(x) ==
  /\ x.pc # "idle" => /\ x.out = "none"
                      /\ x.old <= Len(x.next) /\ x.old <= Size(head)
  /\ x.pc \in {"got", "fetched", "sign"} => /\ x.prev # None => x.prev \in cosigned
                                            /\ x.old <= Size(x.prev)
  /\ x.out # "none" => x.next \in Trees
  /\ x.out \in {"cosigned", "unchanged"} => x.next \in cosigned
  /\ x.out = "unchanged" => x.old <= Len(x.next)
  /\ x.out \in {"raced", "moved"} => x.old = 0 \/ Size(head) > x.old
  /\ x.out = "forked" /\ "store" \notin Faults => forks # <<>>

(* The answer a given to the round x.                                      *)
AnswerOK(x, a) ==
  /\ a \in Answer
  /\ a.code # "none" => x.pc = "idle" /\ x.out # "none"
  /\ a.code = "200" => a.signed = x.next /\ a.signed \in cosigned
  /\ a.code = "409" => \/ x.split
                       \/ a.size > x.old
                       \/ x.out = "conflict" /\ a.size # x.old
                       \/ a.size = 0
  /\ a.code = "403" /\ "store" \notin Faults => forks # <<>>

PushOK ==
  /\ answer \in [Pushers -> Answer]
  /\ \A r \in Pushers : RequestOK(round[r]) /\ AnswerOK(round[r], answer[r])

PushInv == IInv /\ PushOK

(* The store moves forward: a step never shrinks the head, forgets a       *)
(* cosigned tree or empties the findings.                                  *)
Forward ==
  /\ cosigned \subseteq cosigned'
  /\ Size(head) <= Size(head')
  /\ forks # <<>> => forks' # <<>>

(* The stored head is a tree, of a size.                                   *)
LEMMA SizeIsNat ==
  ASSUME NEW t \in Trees \cup {None}
  PROVE  Size(t) \in 0..MaxSize /\ (t \in Trees => Size(t) = Len(t))
BY TreeIsSeq, NoneIsNoTree, HeadsAssumption DEF Size

LEMMA PrefixIsSmaller ==
  ASSUME NEW s \in Trees, NEW t \in Trees, IsPrefix(s, t)
  PROVE  Len(s) <= Len(t) /\ (s # t => Len(s) < Len(t))
<1>1. /\ Len(s) \in Nat /\ Len(t) \in Nat /\ Len(s) <= Len(t)
      /\ \A i \in 1..Len(s) : s[i] = t[i]
  BY PrefixByEntry, TreeIsSeq
<1>2. ASSUME Len(s) = Len(t) PROVE s = t
  BY <1>1, <1>2, TreeIsSeq
<1>. QED
  BY <1>1, <1>2

(* A cosigned tree is the head or a smaller one.                           *)
LEMMA HeadIsLargest ==
  ASSUME IInv, NEW c \in cosigned
  PROVE  /\ head \in Trees /\ c \in Trees
         /\ Len(c) <= Size(head) /\ (c # head => Len(c) < Size(head))
<1>1. /\ head \in Trees /\ c \in Trees /\ IsPrefix(c, head)
  BY DEF IInv, TypeOK, HeadIsNewest
<1>. QED
  BY <1>1, PrefixIsSmaller, SizeIsNat

LEMMA CoreMovesForward ==
  ASSUME IInv, [Next]_vars
  PROVE  Forward
<1>1. IInv'
  BY NextKeeps
<1>2. \/ Promise!Cosign \/ Promise!Condemn \/ Promise!Withdraw
      \/ UNCHANGED <<cosigned, forks, poisoned>>
  BY StepPromise DEF Promise!Next, Promise!promise
<1>3. cosigned \subseteq cosigned'
  BY <1>2 DEF Promise!Cosign, Promise!Condemn, Promise!Withdraw
<1>4. forks # <<>> => forks' # <<>>
  <2>1. forks \in Seq(Finding)
    BY DEF IInv, TypeOK
  <2>2. ASSUME NEW f \in Finding PROVE Append(forks, f) # <<>>
    <3>1. Len(Append(forks, f)) = Len(forks) + 1 /\ Len(forks) \in Nat
      BY <2>1
    <3>. QED
      BY <3>1
  <2>. QED
    BY <1>2, <2>2 DEF Promise!Cosign, Promise!Condemn, Promise!Withdraw
<1>5. Size(head) <= Size(head')
  <2>1. head \in Trees \cup {None} /\ head' \in Trees \cup {None}
    BY <1>1 DEF IInv, TypeOK
  <2>2. CASE head = None
    <3>1. Size(head) = 0 /\ Size(head') \in 0..MaxSize
      BY <2>1, <2>2, SizeIsNat DEF Size
    <3>. QED
      BY <3>1
  <2>3. CASE head # None
    <3>1. head \in cosigned'
      BY <2>3, <1>3 DEF IInv, HeadIsNewest
    <3>2. /\ head \in Trees /\ head' \in Trees /\ IsPrefix(head, head')
      BY <1>1, <3>1, <2>1, <2>3 DEF IInv, TypeOK, HeadIsNewest
    <3>. QED
      BY <3>2, PrefixIsSmaller, SizeIsNat
  <2>. QED
    BY <2>2, <2>3
<1>. QED
  BY <1>3, <1>4, <1>5 DEF Forward

-----------------------------------------------------------------------------
(* Every step keeps it. *)

(* What holds of a handler before a step of its own.                       *)
LEMMA Pushing ==
  ASSUME PushInv, NEW r \in Pushers
  PROVE  /\ r \in Rounds /\ round[r] \in Round /\ RoundOK(r, round[r])
         /\ RequestOK(round[r]) /\ AnswerOK(round[r], answer[r])
         /\ Size(head) \in 0..MaxSize /\ round[r].old \in 0..MaxSize
         /\ round[r].next \in Trees => Len(round[r].next) \in 0..MaxSize
         /\ Size(round[r].prev) \in 0..MaxSize
<1>1. r \in Rounds /\ round[r] \in Round /\ RoundOK(r, round[r])
  BY Parts DEF PushInv, RoundsOK, Rounds
<1>2. RequestOK(round[r]) /\ AnswerOK(round[r], answer[r])
  BY DEF PushInv, PushOK
<1>3. Size(head) \in 0..MaxSize
  BY SizeIsNat DEF PushInv, IInv, TypeOK
<1>4. /\ round[r].old \in 0..MaxSize /\ round[r].prev \in Trees \cup {None}
  BY <1>1 DEF Round
<1>. QED
  BY <1>1, <1>2, <1>3, <1>4, SizeIsNat, TreeIsSeq

(* A handler that does not move keeps what it relies on.                   *)
LEMMA OthersKeep ==
  ASSUME PushInv, Forward, IInv', NEW r \in Pushers,
         round'[r] = round[r], answer'[r] = answer[r]
  PROVE  RequestOK(round[r])' /\ AnswerOK(round[r], answer[r])'
<1>1. Size(head') \in 0..MaxSize
  BY SizeIsNat DEF IInv, TypeOK
<1>2. /\ RequestOK(round[r]) /\ AnswerOK(round[r], answer[r])
      /\ Size(head) \in 0..MaxSize /\ round[r].old \in 0..MaxSize
      /\ Size(round[r].prev) \in 0..MaxSize
  BY Pushing
<1>3. RequestOK(round[r])'
  <2>1. round[r].pc # "idle" => round[r].old <= Size(head')
    BY <1>1, <1>2 DEF RequestOK, Forward
  <2>2. round[r].out \in {"raced", "moved"} =>
          round[r].old = 0 \/ Size(head') > round[r].old
    BY <1>1, <1>2 DEF RequestOK, Forward
  <2>. QED
    BY <1>2, <2>1, <2>2 DEF RequestOK, Forward
<1>4. AnswerOK(round[r], answer[r])'
  BY <1>2 DEF AnswerOK, Forward
<1>. QED
  BY <1>3, <1>4

(* Process returns to the handler, with an outcome that is true of the     *)
(* store.                                                                  *)
LEMMA ReturnRequest ==
  ASSUME PushInv, NEW r \in Pushers, NEW out \in Outcomes, Return(r, out),
         round[r].pc # "idle", out # "none",
         out \in {"cosigned", "unchanged"} => round[r].next \in cosigned',
         out \in {"raced", "moved"} => round[r].old = 0 \/ Size(head') > round[r].old,
         out = "forked" /\ "store" \notin Faults => forks' # <<>>,
         UNCHANGED answer
  PROVE  RequestOK(round[r])' /\ AnswerOK(round[r], answer[r])'
<1>1. /\ round \in [Rounds -> Round] /\ r \in Rounds
      /\ RequestOK(round[r]) /\ AnswerOK(round[r], answer[r])
      /\ round[r].next \in Trees
  BY Pushing DEF PushInv, IInv, TypeOK, RoundOK
<1>2. /\ round'[r].pc = "idle" /\ round'[r].out = out /\ round'[r].next = round[r].next
      /\ round'[r].old = round[r].old
  BY <1>1 DEF Return, Idle
<1>3. RequestOK(round[r])'
  BY <1>1, <1>2 DEF RequestOK
<1>4. answer[r].code = "none" /\ answer'[r] = answer[r]
  BY <1>1 DEF AnswerOK
<1>. QED
  BY <1>1, <1>3, <1>4 DEF AnswerOK

(* Process goes on: what it has read stays read.                           *)
LEMMA MovesOn ==
  ASSUME PushInv, NEW r \in Pushers, UNCHANGED <<storeVars, answer>>,
         round[r].pc # "idle", round'[r].pc # "idle",
         /\ round'[r].out = round[r].out /\ round'[r].next = round[r].next
         /\ round'[r].old = round[r].old,
         round'[r].pc \in {"got", "fetched", "sign"} =>
           /\ round'[r].prev # None => round'[r].prev \in cosigned
           /\ round[r].old <= Size(round'[r].prev)
  PROVE  RequestOK(round[r])' /\ AnswerOK(round[r], answer[r])'
<1>1. /\ RequestOK(round[r]) /\ AnswerOK(round[r], answer[r])
  BY Pushing
<1>2. RequestOK(round[r])'
  BY <1>1 DEF RequestOK, storeVars
<1>3. answer[r].code = "none" /\ answer'[r] = answer[r]
  BY <1>1 DEF AnswerOK
<1>. QED
  BY <1>1, <1>2, <1>3 DEF AnswerOK

(* A handler's verdict never accuses: the proof holds, fails, or speaks of *)
(* other trees.                                                            *)
LEMMA PushVerdictIsMild ==
  ASSUME NEW r \in Pushers, NEW old, NEW new, NEW verdict \in Verdicts(r, old, new)
  PROVE  /\ verdict \in {"ok", "moved", "badproof"}
         /\ verdict = "moved" => Size(old) # round[r].old \/ new # round[r].next
         /\ verdict \in {"ok", "badproof"} => Size(old) = round[r].old /\ new = round[r].next
BY DEF Verdicts, PushVerdicts

(* A record that is no longer the head has been replaced by a larger one,  *)
(* unless it was no record.                                                *)
LEMMA HeadOutgrew ==
  ASSUME PushInv, NEW t \in Trees \cup {None}, t # None => t \in cosigned, t # head
  PROVE  Size(t) = 0 \/ Size(head) > Size(t)
<1>1. CASE t = None
  BY <1>1 DEF Size
<1>2. CASE t # None
  <2>1. t \in cosigned /\ t \in Trees /\ IInv
    BY <1>2 DEF PushInv
  <2>. QED
    BY <2>1, HeadIsLargest, SizeIsNat
<1>. QED
  BY <1>1, <1>2

(* Gate 1 and gate 2: the verdict that another tree is stored than the one *)
(* the request spoke of is only given when a larger one is.                *)
LEMMA RegressionMoves ==
  ASSUME PushInv, NEW r \in Pushers, UNCHANGED answer,
         NEW verdict \in GateVerdicts, Regression(r, verdict)
  PROVE  RequestOK(round[r])' /\ AnswerOK(round[r], answer[r])'
<1>1. /\ RequestOK(round[r]) /\ round[r].pc = "fetched" /\ UNCHANGED storeVars
      /\ round[r].next \in Trees /\ round[r].prev \in Trees \cup {None}
      /\ r \in Rounds /\ round \in [Rounds -> Round]
      /\ Len(round[r].next) \in 0..MaxSize /\ Size(round[r].prev) \in 0..MaxSize
      /\ round[r].old \in 0..MaxSize /\ Size(head) \in 0..MaxSize
  BY Pushing DEF Regression, At, RoundOK, Round, PushInv, IInv, TypeOK
<1>2. Len(round[r].next) < Size(round[r].prev)
  BY DEF Regression, Smaller
<1>3. verdict \in Verdicts(r, round[r].next, round[r].prev)
  BY DEF Regression
<1>4. verdict = "moved"
  <2>1. round[r].prev # round[r].next
    BY <1>1, <1>2, SizeIsNat
  <2>. QED
    BY <1>3, <2>1, PushVerdictIsMild
<1>5. Return(r, "moved")
  BY <1>4 DEF Regression
<1>6. Size(head) > round[r].old
  <2>1. round[r].prev \in cosigned /\ round[r].old <= Len(round[r].next)
    BY <1>1, <1>2 DEF RequestOK, Size
  <2>2. Size(round[r].prev) <= Size(head)
    BY <1>1, <2>1, HeadIsLargest, SizeIsNat DEF PushInv
  <2>. QED
    BY <1>1, <1>2, <2>1, <2>2
<1>. QED
  BY <1>1, <1>5, <1>6, ReturnRequest DEF Outcomes, storeVars

LEMMA ConsistencyMoves ==
  ASSUME PushInv, NEW r \in Pushers, UNCHANGED answer,
         NEW verdict \in GateVerdicts, Consistency(r, verdict)
  PROVE  RequestOK(round[r])' /\ AnswerOK(round[r], answer[r])'
<1>1. /\ RequestOK(round[r]) /\ round[r].pc = "fetched" /\ UNCHANGED storeVars
      /\ round[r].prev \in Trees \cup {None}
      /\ r \in Rounds /\ round \in [Rounds -> Round]
      /\ Size(round[r].prev) \in 0..MaxSize
      /\ round[r].old \in 0..MaxSize /\ Size(head) \in 0..MaxSize
  BY Pushing DEF Consistency, At, Round, PushInv, IInv, TypeOK
<1>2. verdict \in Verdicts(r, round[r].prev, round[r].next)
  BY DEF Consistency
<1>3. CASE verdict = "ok"
  <2>1. /\ round'[r].pc = "sign" /\ round'[r].prev = round[r].prev
        /\ round'[r].next = round[r].next /\ round'[r].old = round[r].old
        /\ round'[r].out = round[r].out
    BY <1>1, <1>3 DEF Consistency, Goto, Round
  <2>. QED
    BY <1>1, <2>1, MovesOn DEF RequestOK
<1>4. CASE verdict = "moved"
  <2>1. Return(r, "moved")
    BY <1>4 DEF Consistency
  <2>2. Size(round[r].prev) > round[r].old
    BY <1>1, <1>2, <1>4, PushVerdictIsMild DEF RequestOK
  <2>3. round[r].prev # None
    BY <2>2, <1>1 DEF Size
  <2>4. Size(round[r].prev) <= Size(head)
    BY <1>1, <2>3, HeadIsLargest, SizeIsNat DEF PushInv, RequestOK
  <2>5. Size(head) > round[r].old
    BY <1>1, <2>2, <2>4
  <2>. QED
    BY <1>1, <2>1, <2>5, ReturnRequest DEF Outcomes, storeVars
<1>5. CASE verdict = "badproof"
  <2>1. Return(r, "badproof")
    BY <1>5 DEF Consistency
  <2>. QED
    BY <1>1, <2>1, ReturnRequest DEF Outcomes, storeVars
<1>. QED
  BY <1>2, <1>3, <1>4, <1>5, PushVerdictIsMild

(* A handler's own steps in Process.                                       *)
LEMMA ProcessKeeps ==
  ASSUME PushInv, Forward, NEW r \in Pushers, Process(r), UNCHANGED answer
  PROVE  RequestOK(round[r])' /\ AnswerOK(round[r], answer[r])'
<1>1. /\ r \in Rounds /\ round \in [Rounds -> Round] /\ round[r] \in Round
      /\ RoundOK(r, round[r]) /\ RequestOK(round[r])
      /\ Size(head) \in 0..MaxSize /\ round[r].old \in 0..MaxSize
      /\ round[r].prev \in Trees \cup {None} /\ head \in Trees \cup {None}
      /\ r \notin Pollers /\ r \in Pushers
      /\ Size(round[r].prev) \in 0..MaxSize
  BY Pushing, WitnessAssumption DEF PushInv, IInv, TypeOK, Round
<1>2. CASE Begin(r)
  <2>1. round[r].pc = "received" /\ UNCHANGED storeVars
    BY <1>1, <1>2 DEF Begin, At
  <2>2. CASE poisoned # 0
    <3>1. forks # <<>>
      BY <2>2 DEF PushInv, IInv, TypeOK
    <3>2. Return(r, "forked")
      BY <1>2, <2>2 DEF Begin
    <3>. QED
      BY <1>1, <2>1, <3>1, <3>2, ReturnRequest DEF Outcomes, storeVars
  <2>3. CASE poisoned = 0
    <3>1. /\ round'[r].pc = "checked"
          /\ round'[r].next = round[r].next /\ round'[r].old = round[r].old
          /\ round'[r].out = round[r].out
      BY <1>1, <1>2, <2>3 DEF Begin, Goto, Round
    <3>. QED
      BY <1>1, <2>1, <3>1, MovesOn
  <2>. QED
    BY <2>2, <2>3
<1>3. CASE Get(r)
  <2>1. /\ round[r].pc = "checked" /\ UNCHANGED storeVars
        /\ round'[r].pc = "got" /\ round'[r].prev = head
        /\ round'[r].next = round[r].next /\ round'[r].old = round[r].old
        /\ round'[r].out = round[r].out
    BY <1>1, <1>3 DEF Get, At, Round
  <2>2. head # None => head \in cosigned
    BY DEF PushInv, IInv, HeadIsNewest
  <2>. QED
    BY <1>1, <2>1, <2>2, MovesOn DEF RequestOK
<1>4. ASSUME NEW t \in Trees, Fetch(r, t)
      PROVE  RequestOK(round[r])' /\ AnswerOK(round[r], answer[r])'
  <2>1. /\ round[r].pc = "got" /\ UNCHANGED storeVars
        /\ round'[r].pc = "fetched" /\ round'[r].prev = round[r].prev
        /\ round'[r].next = round[r].next /\ round'[r].old = round[r].old
        /\ round'[r].out = round[r].out
    BY <1>1, <1>4 DEF Fetch, At, Round
  <2>. QED
    BY <1>1, <2>1, MovesOn DEF RequestOK
<1>5. CASE FetchFails(r) \/ FetchForks(r)
  BY <1>1, <1>5 DEF FetchFails, FetchForks
<1>6. CASE SplitView(r)
  <2>1. /\ round[r].pc = "fetched" /\ UNCHANGED storeVars
        /\ round'[r].pc = "fork"
        /\ round'[r].next = round[r].next /\ round'[r].old = round[r].old
        /\ round'[r].out = round[r].out
    BY <1>1, <1>6 DEF SplitView, Accuse, At, Round
  <2>. QED
    BY <1>1, <2>1, MovesOn
<1>7. CASE WithholdDerived(r) \/ TooStale(r) \/ PersistFails(r)
  <2>1. PICK out \in {"withheld", "stale"} : Return(r, out)
    BY <1>7 DEF WithholdDerived, TooStale, PersistFails
  <2>2. round[r].pc \in {"fetched", "sign"}
    BY <1>7 DEF WithholdDerived, TooStale, PersistFails, At
  <2>. QED
    BY <1>1, <2>1, <2>2, ReturnRequest DEF Outcomes
<1>8. CASE SameTree(r)
  <2>1. /\ round[r].pc = "fetched" /\ UNCHANGED storeVars
        /\ round[r].next = round[r].prev /\ round[r].next \in Trees
    BY <1>1, <1>8 DEF SameTree, At, RoundOK
  <2>2. round[r].next \in cosigned
    BY <1>1, <2>1, NoneIsNoTree DEF RequestOK
  <2>3. CASE RefreshDue(r)
    <3>1. /\ round'[r].pc = "sign" /\ round'[r].prev = round[r].prev
          /\ round'[r].next = round[r].next /\ round'[r].old = round[r].old
          /\ round'[r].out = round[r].out
      BY <1>1, <1>8, <2>3 DEF SameTree, Goto, Round
    <3>. QED
      BY <1>1, <2>1, <3>1, MovesOn DEF RequestOK
  <2>4. CASE ~RefreshDue(r)
    <3>1. Return(r, "unchanged")
      BY <1>8, <2>4 DEF SameTree
    <3>. QED
      BY <1>1, <2>1, <2>2, <3>1, ReturnRequest DEF Outcomes, storeVars
  <2>. QED
    BY <2>3, <2>4
<1>9. CASE Raced(r)
  <2>1. /\ round[r].pc = "sign" /\ UNCHANGED storeVars
        /\ head # round[r].prev /\ Return(r, "raced")
    BY <1>9 DEF Raced, At
  <2>2. round[r].old = 0 \/ Size(head) > round[r].old
    BY <1>1, <2>1, HeadOutgrew DEF RequestOK
  <2>. QED
    BY <1>1, <2>1, <2>2, ReturnRequest DEF Outcomes, storeVars
<1>10. CASE Persist(r)
  <2>1. /\ round[r].pc = "sign" /\ Return(r, "cosigned")
        /\ round[r].next \in cosigned'
    BY <1>10 DEF Persist, At
  <2>. QED
    BY <1>1, <2>1, ReturnRequest DEF Outcomes
<1>11. CASE Fork(r)
  <2>1. round[r].pc = "fork" /\ Return(r, "forked")
    BY <1>11 DEF Fork, At
  <2>2. forks' # <<>>
    <3>1. PICK f \in Finding : RecordFork(f)
      BY <1>1, <1>11, ForkFinding DEF PushInv
    <3>2. StoreOK
      BY Parts DEF PushInv
    <3>3. CASE poisoned = 0
      <4>1. forks' = Append(forks, f) /\ forks \in Seq(Finding)
        BY <3>1, <3>2, <3>3 DEF RecordFork, StoreOK
      <4>2. Len(forks') = Len(forks) + 1 /\ Len(forks) \in Nat
        BY <4>1
      <4>. QED
        BY <4>2
    <3>4. CASE poisoned # 0
      BY <3>1, <3>2, <3>4 DEF RecordFork, StoreOK
    <3>. QED
      BY <3>3, <3>4
  <2>. QED
    BY <1>1, <2>1, <2>2, ReturnRequest DEF Outcomes
<1>12. CASE ForkNotPersisted(r)
  <2>1. round[r].pc = "fork" /\ Return(r, "forked") /\ "store" \in Faults
    BY <1>12 DEF ForkNotPersisted, At
  <2>. QED
    BY <1>1, <2>1, ReturnRequest DEF Outcomes
<1>13. ASSUME NEW verdict \in GateVerdicts, Regression(r, verdict) \/ Consistency(r, verdict)
       PROVE  RequestOK(round[r])' /\ AnswerOK(round[r], answer[r])'
  BY <1>13, RegressionMoves, ConsistencyMoves
<1>. QED
  BY <1>2, <1>3, <1>4, <1>5, <1>6, <1>7, <1>8, <1>9, <1>10, <1>11, <1>12, <1>13
     DEF Process

(* A request is taken, or refused at once with the size it should have     *)
(* named.                                                                  *)
LEMMA RequestKeeps ==
  ASSUME PushInv, NEW r \in Pushers, Request(r)
  PROVE  /\ answer' = [answer EXCEPT ![r] = answer'[r]]
         /\ RequestOK(round[r])' /\ AnswerOK(round[r], answer[r])'
<1>1. /\ r \in Rounds /\ round \in [Rounds -> Round]
      /\ Size(head) \in 0..MaxSize /\ answer \in [Pushers -> Answer]
      /\ UNCHANGED storeVars
  BY Pushing DEF PushInv, PushOK, IInv, TypeOK, Request, Receive
<1>2. PICK t \in Served, old \in 0..MaxSize, good \in BOOLEAN :
        LET same == head # None /\ Len(t) = Len(head) IN
        /\ old <= Len(t)
        /\ round' = [round EXCEPT ![r] =
             IF old # Size(head)
             THEN [Idle EXCEPT !.next = t, !.old = old, !.out = "conflict"]
             ELSE [Idle EXCEPT !.pc = "received", !.next = t, !.old = old,
                     !.good  = good,
                     !.split = same /\ t # head /\ poisoned = 0,
                     !.force = same /\ (t = head \/ poisoned # 0)]]
  BY Zenon DEF Request, Receive
<1>3. t \in Trees
  BY DEF Served
<1>4. answer' = [answer EXCEPT ![r] =
        IF round'[r].out = "conflict" THEN Conflict(Size(head)) ELSE Say("none")]
  BY DEF Request
<1>5. CASE old # Size(head)
  <2>1. /\ round'[r].pc = "idle" /\ round'[r].out = "conflict"
        /\ round'[r].next = t /\ round'[r].old = old
    BY <1>1, <1>2, <1>5 DEF Idle
  <2>2. answer'[r] = Conflict(Size(head))
    BY <1>1, <1>4, <2>1
  <2>3. /\ answer'[r] \in Answer /\ answer'[r].code = "409"
        /\ answer'[r].size = Size(head)
    BY <1>1, <2>2 DEF Conflict, Say, Answer, Codes
  <2>4. RequestOK(round[r])'
    BY <1>3, <2>1 DEF RequestOK
  <2>5. AnswerOK(round[r], answer[r])'
    BY <1>5, <2>1, <2>3 DEF AnswerOK
  <2>. QED
    BY <1>1, <1>4, <2>4, <2>5
<1>6. CASE old = Size(head)
  <2>1. /\ round'[r].pc = "received" /\ round'[r].out = "none"
        /\ round'[r].next = t /\ round'[r].old = old /\ old <= Len(t)
    BY <1>1, <1>2, <1>6 DEF Idle
  <2>2. answer'[r] = Say("none")
    BY <1>1, <1>4, <2>1
  <2>3. answer'[r] \in Answer /\ answer'[r].code = "none"
    BY <1>1, <2>2, HeadsAssumption DEF Say, Answer, Codes
  <2>4. RequestOK(round[r])'
    BY <1>1, <1>6, <2>1 DEF RequestOK, storeVars
  <2>5. AnswerOK(round[r], answer[r])'
    BY <2>3 DEF AnswerOK
  <2>. QED
    BY <1>1, <1>4, <2>4, <2>5
<1>. QED
  BY <1>5, <1>6

(* An answer of each kind.                                                 *)
LEMMA AnswerKinds ==
  /\ \A n \in 0..MaxSize : /\ Conflict(n) \in Answer /\ Conflict(n).code = "409"
                           /\ Conflict(n).size = n
  /\ \A t \in Trees : /\ Cosignature(t) \in Answer /\ Cosignature(t).code = "200"
                      /\ Cosignature(t).signed = t
  /\ \A c \in Codes : Say(c) \in Answer /\ Say(c).code = c
BY HeadsAssumption DEF Conflict, Cosignature, Say, Answer, Codes

(* What the handler makes of the outcome and of the head as it is by now.  *)
LEMMA ReplyIsTrue ==
  ASSUME PushInv, NEW r \in Pushers, round[r].pc = "idle",
         round[r].out \notin {"none", "conflict"}
  PROVE  AnswerOK(round[r], Reply(r))
<1>1. /\ RequestOK(round[r]) /\ round[r] \in Round
      /\ Size(head) \in 0..MaxSize /\ round[r].old \in 0..MaxSize
      /\ round[r].next \in Trees /\ Len(round[r].next) \in 0..MaxSize
  BY Pushing DEF RequestOK
<1>. DEFINE done == round[r]
            a == Reply(r)
<1>2. CASE done.out = "cosigned"
  <2>1. a = Cosignature(done.next)
    BY <1>2 DEF Reply
  <2>. QED
    BY <1>1, <1>2, <2>1, AnswerKinds DEF AnswerOK, RequestOK
<1>3. CASE done.out = "unchanged" /\ head = done.next
  <2>1. a = Cosignature(done.next)
    BY <1>3 DEF Reply
  <2>. QED
    BY <1>1, <1>3, <2>1, AnswerKinds DEF AnswerOK, RequestOK
<1>4. CASE done.out = "unchanged" /\ head # done.next
  <2>1. a = Conflict(Size(head))
    BY <1>4 DEF Reply
  <2>2. Len(done.next) < Size(head)
    BY <1>1, <1>4, HeadIsLargest DEF RequestOK, PushInv
  <2>3. a \in Answer /\ a.code = "409" /\ a.size > done.old
    BY <1>1, <1>4, <2>1, <2>2, AnswerKinds DEF RequestOK
  <2>. QED
    BY <1>4, <2>3, AnswerKinds DEF AnswerOK
<1>5. CASE done.out = "forked" /\ done.split
  <2>1. a = Conflict(Size(head))
    BY <1>5 DEF Reply
  <2>. QED
    BY <1>1, <1>5, <2>1, AnswerKinds DEF AnswerOK
<1>6. CASE done.out = "forked" /\ ~done.split
  <2>1. a = Say("403")
    BY <1>6 DEF Reply
  <2>. QED
    BY <1>1, <1>6, <2>1, AnswerKinds DEF AnswerOK, Codes, RequestOK
<1>7. CASE done.out \in {"raced", "moved"}
  <2>1. a = Conflict(Size(head))
    BY <1>7 DEF Reply
  <2>2. a.size > done.old \/ a.size = 0
    BY <1>1, <1>7, <2>1, AnswerKinds DEF RequestOK
  <2>. QED
    BY <1>1, <1>7, <2>1, <2>2, AnswerKinds DEF AnswerOK
<1>8. CASE done.out \notin {"cosigned", "unchanged", "forked", "raced", "moved"}
  <2>1. a = Say("422") \/ a = Say("503")
    BY <1>8 DEF Reply
  <2>2. a \in Answer /\ a.code \in {"422", "503"}
    BY <2>1, AnswerKinds DEF Codes
  <2>. QED
    BY <1>8, <2>2 DEF AnswerOK
<1>. QED
  BY <1>2, <1>3, <1>4, <1>5, <1>6, <1>7, <1>8

LEMMA PushInitEstablishes == PushInit => PushInv
<1>. SUFFICES ASSUME PushInit PROVE PushInv
  OBVIOUS
<1>1. IInv
  BY InitIsInit, InitEstablishes
<1>2. answer \in [Pushers -> Answer] /\ \A r \in Pushers : answer[r] = Say("none")
  BY AnswerKinds DEF PushInit, Codes
<1>3. ASSUME NEW r \in Pushers PROVE RequestOK(round[r]) /\ AnswerOK(round[r], answer[r])
  <2>1. round[r] = Idle
    BY DEF PushInit, Init, Rounds
  <2>2. answer[r] \in Answer /\ answer[r].code = "none"
    BY <1>2, AnswerKinds DEF Codes
  <2>. QED
    BY <2>1, <2>2 DEF RequestOK, AnswerOK, Idle
<1>. QED
  BY <1>1, <1>2, <1>3 DEF PushInv, PushOK

(* PushInv is inductive.                                                   *)
LEMMA PushNextKeeps == PushInv /\ [PushNext]_pushVars => PushInv'
<1>. SUFFICES ASSUME PushInv, [PushNext]_pushVars PROVE PushInv'
  OBVIOUS
<1>1. IInv' /\ Forward /\ IInv
  BY StepIsStep, NextKeeps, CoreMovesForward DEF PushInv
<1>2. answer \in [Pushers -> Answer] /\ round \in [Rounds -> Round] /\ Pushers \subseteq Rounds
  BY DEF PushInv, PushOK, IInv, TypeOK, Rounds
<1>3. ASSUME UNCHANGED <<round, answer>>
      PROVE  PushOK'
  BY <1>1, <1>2, <1>3, OthersKeep DEF PushOK
<1>4. ASSUME NEW r \in Pushers,
             RequestOK(round[r])', AnswerOK(round[r], answer[r])',
             \A q \in Rounds \ {r} : round'[q] = round[q],
             answer' = [answer EXCEPT ![r] = answer'[r]]
      PROVE  PushOK'
  <2>1. \A q \in Pushers \ {r} : round'[q] = round[q] /\ answer'[q] = answer[q]
    BY <1>2, <1>4
  <2>2. answer' \in [Pushers -> Answer]
    BY <1>2, <1>4 DEF AnswerOK
  <2>. QED
    BY <1>1, <1>4, <2>1, <2>2, OthersKeep DEF PushOK
<1>5. ASSUME NEW r \in Pushers, Request(r) PROVE PushOK'
  <2>1. \A q \in Rounds \ {r} : round'[q] = round[q]
    BY <1>2, <1>5 DEF Request, Receive
  <2>. QED
    BY <1>4, <1>5, <2>1, RequestKeeps
<1>6. ASSUME NEW r \in Pushers, Respond(r) PROVE PushOK'
  <2>1. /\ round[r].pc = "idle" /\ round[r].out \notin {"none", "conflict"}
        /\ answer' = [answer EXCEPT ![r] = Reply(r)] /\ UNCHANGED vars
    BY <1>6 DEF Respond, At
  <2>2. AnswerOK(round[r], Reply(r)) /\ RequestOK(round[r])
    BY <2>1, ReplyIsTrue, Pushing
  <2>3. answer'[r] = Reply(r)
    BY <1>2, <2>1
  <2>4. RequestOK(round[r])' /\ AnswerOK(round[r], answer[r])'
    BY <2>1, <2>2, <2>3 DEF RequestOK, AnswerOK, vars, storeVars
  <2>. QED
    BY <1>4, <2>1, <2>3, <2>4 DEF vars
<1>7. ASSUME NEW r \in Rounds, Process(r), UNCHANGED answer PROVE PushOK'
  <2>1. \A q \in Rounds \ {r} : round'[q] = round[q]
    BY <1>2, <1>7
       DEF Process, Begin, Get, Fetch, FetchFails, FetchForks, Regression, SplitView,
           WithholdDerived, SameTree, Consistency, TooStale, Persist, Raced,
           PersistFails, Fork, ForkNotPersisted, Return, Accuse, Goto
  <2>2. CASE r \in Pushers
    BY <1>1, <1>2, <1>4, <1>7, <2>1, <2>2, ProcessKeeps
  <2>3. CASE r \notin Pushers
    BY <1>1, <1>2, <1>7, <2>1, <2>3, OthersKeep DEF PushOK
  <2>. QED
    BY <2>2, <2>3
<1>8. ASSUME NEW m \in {"serve", "retract"}, PushRestart(m) PROVE PushOK'
  <2>1. \A r \in Pushers : round'[r] = Idle /\ answer'[r] = Say("none")
    BY <1>2, <1>8 DEF PushRestart, Restart
  <2>2. answer' \in [Pushers -> Answer]
    BY <1>8, AnswerKinds DEF PushRestart, Codes
  <2>3. ASSUME NEW r \in Pushers
        PROVE  RequestOK(round[r])' /\ AnswerOK(round[r], answer[r])'
    <3>1. answer'[r] \in Answer /\ answer'[r].code = "none"
      BY <2>1, AnswerKinds DEF Codes
    <3>. QED
      BY <2>1, <3>1 DEF RequestOK, AnswerOK, Idle
  <2>. QED
    BY <2>2, <2>3 DEF PushOK
<1>9. ASSUME ReportContent \/ RetractFork \/ IntervalPasses
             \/ \E v \in Views, leaf \in Leaf : Grow(v, leaf),
             UNCHANGED answer
      PROVE  PushOK'
  <2>1. UNCHANGED round
    BY <1>9 DEF ReportContent, RetractFork, IntervalPasses, Grow
  <2>. QED
    BY <1>3, <1>9, <2>1
<1>10. PushOK'
  <2>1. CASE UNCHANGED pushVars
    BY <1>3, <2>1 DEF pushVars, vars
  <2>2. CASE PushNext
    BY <1>5, <1>6, <1>7, <1>8, <1>9, <2>2, Zenon DEF PushNext
  <2>. QED
    BY <2>1, <2>2
<1>. QED
  BY <1>1, <1>10 DEF PushInv

-----------------------------------------------------------------------------
(* Theorems *)

LEMMA PushInvariance == PushSpec => []PushInv
<1>1. PushInit => PushInv
  BY PushInitEstablishes
<1>2. PushInv /\ [PushNext]_pushVars => PushInv'
  BY PushNextKeeps
<1>. QED
  BY <1>1, <1>2, PTL DEF PushSpec

(* Every variable of the core keeps its type under pushes, and an answer   *)
(* names a size a tree can have.                                           *)
THEOREM PushTypeCorrect == PushSpec => []PushTypeOK
<1>1. PushInv => PushTypeOK
  BY DEF PushInv, PushOK, IInv, PushTypeOK
<1>. QED
  BY <1>1, PushInvariance, PTL

(* A 200 carries our signature over the very tree that was pushed, and the *)
(* store has held that cosignature, whatever the poller and the other      *)
(* handlers did between CompareAndSet and the answer (push.go, serve).     *)
THEOREM SignedTreeIsPushedTree == PushSpec => []SignsThePushedTree
<1>1. PushInv => SignsThePushedTree
  BY DEF PushInv, PushOK, AnswerOK, SignsThePushedTree, Answered
<1>. QED
  BY <1>1, PushInvariance, PTL

(* A 409 names a size that gets the log on, or tells it of a split: a      *)
(* retry with the size it was told is not refused for the same reason      *)
(* (push.go, processError).                                                *)
THEOREM ConflictsAreNews == PushSpec => []ConflictIsNews
<1>1. PushInv => ConflictIsNews
  BY DEF PushInv, PushOK, AnswerOK, ConflictIsNews, Answered
<1>. QED
  BY <1>1, PushInvariance, PTL

(* As long as no store write fails, a log that is refused as forked has    *)
(* the evidence on record: fork writes the finding before it is returned   *)
(* (witness.go, fork).  A failed write is only logged, and is refused all  *)
(* the same, so the hypothesis is needed.                                  *)
THEOREM RefusalsHaveEvidence ==
  ASSUME "store" \notin Faults PROVE PushSpec => []RefusalHasEvidence
<1>1. PushInv => RefusalHasEvidence
  BY DEF PushInv, PushOK, AnswerOK, RefusalHasEvidence, Answered
<1>. QED
  BY <1>1, PushInvariance, PTL

=============================================================================
