---------------------------- MODULE SignalRounds ----------------------------
(***************************************************************************)
(* A witness's rounds with Signal (internal/source/signal/signal.go,       *)
(* account.go): the auditors' signed roots run forward to the service's    *)
(* size and compared, the service's signature over what they imply, the    *)
(* search proof, the ledger of entries every verified search has opened,   *)
(* the optional search of an account, and the consistency proof from the   *)
(* head attested last.  Hashes are SignalTree's terms.                     *)
(***************************************************************************)
EXTENDS SignalTree

CONSTANTS SignalAuditors, MinAuditors,  \* the configured keys, and the quorum
          LongestHistory,    \* the bound on the log's entries
          MaxRewrites,       \* the bound on entries the service replaces
          MaxLedgerEntries,  \* maxLedgerEntries and maxLogEntriesPerOrigin
          AccountInterval    \* rounds between two searches of the account

ASSUME QuorumAssumption == MinAuditors \in 1..Cardinality(SignalAuditors)

VARIABLES history,    \* the service's log, as it now serves it
          rewrites,   \* how many entries it has replaced
          signedBy,   \* the log each auditor signed last, <<>> for none
          attestedLog,   \* the log behind the witness's head, <<>> for none
          memory, loaded,   \* entryLedger.seen and ledgerLoaded
          disk,             \* the store's verified entries
          sinceAccount,     \* rounds since the account was searched
          verdict           \* what the last round came to
roundVars == <<history, rewrites, signedBy, attestedLog, memory, loaded, disk, sinceAccount, verdict>>
witnessVars == <<attestedLog, memory, loaded, disk, sinceAccount, verdict>>

NoEntries == [x \in {} |-> 0]
LeavesIn(h) == [i \in DOMAIN h |-> <<"leaf", i - 1, h[i]>>]
RootFor(h) == RootOver(LeavesIn(h))
NodesBetween == [m, n \in 1..LongestHistory |-> IF m < n THEN ConsistencyNodes(m, n, TRUE) ELSE <<>>]
ProofTo(m, n) == ProofFor(NodesBetween[m, n], LeavesIn(history))
Broken(proof) == [proof EXCEPT ![Len(proof)] = Untrue]
None == [kind |-> "none", broken |-> FALSE]

-----------------------------------------------------------------------------
(* The service, and the auditors that follow it.                           *)
ServiceGrows ==
    /\ Len(history) < LongestHistory
    /\ history' = Append(history, 0)
    /\ UNCHANGED <<rewrites, signedBy, witnessVars>>
Rewrite ==
    /\ rewrites < MaxRewrites
    /\ \E i \in DOMAIN history : history' = [history EXCEPT ![i] = 1 - @]
    /\ rewrites' = rewrites + 1
    /\ UNCHANGED <<signedBy, witnessVars>>
AuditorSigns(a) ==
    /\ history # <<>> /\ signedBy[a] # history
    /\ signedBy' = [signedBy EXCEPT ![a] = history]
    /\ UNCHANGED <<history, rewrites, witnessVars>>

-----------------------------------------------------------------------------
(* verifyResponseFor.  How a response shows each auditor: not at all, with *)
(* its signature missing, with a root it never signed, as it signed, or as *)
(* it signed with a hash of its consistency proof wrong.                   *)
Ways(a) == IF signedBy[a] = <<>> \/ Len(signedBy[a]) > Len(history) THEN {"absent"}
           ELSE IF Len(signedBy[a]) = Len(history) THEN {"absent", "unsigned", "forged", "signed"}
           ELSE {"absent", "unsigned", "forged", "signed", "broken"}
ShownRoot(a, way) == IF way \in {"unsigned", "forged"} THEN Untrue ELSE RootFor(signedBy[a])
ServiceRoot(a, way) ==
    LET m == Len(signedBy[a])
        n == Len(history)
    IN IF m = n THEN ShownRoot(a, way)
       ELSE DeriveRoot(m, n, IF way = "broken" THEN Broken(ProofTo(m, n)) ELSE ProofTo(m, n), ShownRoot(a, way))
(* Variant: a root whose signature is missing counts towards the quorum.   *)
CountedUnsigned(shown) == {a \in SignalAuditors : shown[a] # "absent"}
Counted(shown) == {a \in SignalAuditors : shown[a] \notin {"absent", "unsigned"}}
Enough(counted) == Cardinality(counted) >= MinAuditors
(* Steps 1 to 3: the roots, their quorum, their agreement, the signature.  *)
HeadCheck(shown) ==
    LET counted == Counted(shown)
        roots == {ServiceRoot(a, shown[a]) : a \in counted}
    IN CASE ~Enough(counted) -> "withheld"
         [] Enough(counted) ->
              IF (\E a \in counted : shown[a] = "forged") \/ Fails \in roots THEN "withheld"
              ELSE IF Cardinality(roots) > 1 THEN "accused"
              ELSE IF roots = {RootFor(history)} THEN "verified" ELSE "withheld"

(* The entries a search opens: the distinguished key is at the even        *)
(* entries, the account at the odd ones.                                   *)
OpenedIds ==
    [first \in 0..1, n \in 1..LongestHistory |->
       IF first >= n THEN {}
       ELSE ToSet(Searched(NewGuide(AnyVersion, first, n), [i \in first..(n - 1) |-> (i - first) \div 2]).ids)]
Opened(first) ==
    [id \in OpenedIds[first, Len(history)] |-> LeavesIn(history)[id + 1]]
(* loadLedger, merge: the ledger is checked whole before it takes any      *)
(* entry, and keeps the lowest ids.                                        *)
Lowest(f) == Restrict(f, {id \in DOMAIN f : Cardinality({j \in DOMAIN f : j < id}) < MaxLedgerEntries})
Contradicts(ledger, opened) == \E id \in DOMAIN ledger \cap DOMAIN opened : ledger[id] # opened[id]
Merge(ledger, opened) ==
    Lowest([id \in DOMAIN ledger \cup DOMAIN opened |->
               IF id \in DOMAIN opened THEN opened[id] ELSE ledger[id]])
LedgerNow == IF loaded THEN memory ELSE Merge(memory, disk)
(* PutLogEntries overwrites, and a failure of it is only logged: disk has  *)
(* Merge's form too.                                                       *)

(* maybeSearchAccount: "off" when none is due.                             *)
AccountAnswers == IF sinceAccount >= AccountInterval THEN {"transport", "proof", "contradiction"} ELSE {"off"}
AccountOpened(answer) == IF answer = "proof" THEN Opened(1) ELSE NoEntries
(* VerifyConsistency; the first head is trusted, and one no larger is not  *)
(* compared here.                                                          *)
Extends(intact) ==
    LET m == Len(attestedLog)
        proof == ProofTo(m, Len(history))
    IN \/ attestedLog = <<>>
       \/ /\ m < Len(history)    \* the core compares heads of one size itself
          /\ RootFor(history) =
                DeriveRoot(m, Len(history), IF intact THEN proof ELSE Broken(proof), RootFor(attestedLog))

Came(kind, shown) ==
    verdict' = [kind |-> kind, broken |-> kind = "accused" /\ \E a \in SignalAuditors : shown[a] = "broken"]
Passed == sinceAccount' = IF sinceAccount < AccountInterval THEN sinceAccount + 1 ELSE sinceAccount

StoppedAtTheHead(shown, check) ==
    /\ check \in {"withheld", "accused"}
    /\ Came(check, shown) /\ Passed
    /\ UNCHANGED <<attestedLog, memory, loaded, disk>>
(* The distinguished search implies another root, or contradicts the       *)
(* ledger: withheld, with nothing merged.                                  *)
WithheldAtTheSearch(shown, bound) ==
    /\ ~bound \/ Contradicts(LedgerNow, Opened(0))
    /\ memory' = IF bound THEN LedgerNow ELSE memory
    /\ loaded' = (loaded \/ bound)
    /\ Came("withheld", shown) /\ Passed
    /\ UNCHANGED <<attestedLog, disk>>
(* The rest of Fetch and of the round, once the head is verified.          *)
HeadVerified(shown, answer, extends, fails) ==
    LET now == Opened(0)
        first == Merge(LedgerNow, now)
        account == AccountOpened(answer)
        refused == answer = "contradiction" \/ Contradicts(first, account)
        attests == ~refused /\ extends
    IN /\ ~Contradicts(LedgerNow, now)
       /\ loaded' = TRUE
       /\ memory' = IF refused THEN first ELSE Merge(first, account)
       /\ disk' = IF fails THEN disk ELSE Merge(disk, IF refused THEN now ELSE Merge(now, account))
       /\ sinceAccount' = IF answer = "off" THEN sinceAccount + 1 ELSE 0
       /\ attestedLog' = IF attests THEN history ELSE attestedLog
       /\ Came(IF attests THEN "attested" ELSE "withheld", shown)
Round ==
    /\ history # <<>>
    /\ \E shown \in [SignalAuditors -> {"absent", "unsigned", "forged", "signed", "broken"}] :
         /\ \A a \in SignalAuditors : shown[a] \in Ways(a)
         /\ LET check == HeadCheck(shown)
            IN \/ StoppedAtTheHead(shown, check)
               \/ /\ check = "verified"
                  /\ \/ \E bound \in BOOLEAN : WithheldAtTheSearch(shown, bound)
                     \/ \E intact \in BOOLEAN :
                           LET extends == Extends(intact)
                           IN \E answer \in AccountAnswers, fails \in BOOLEAN :
                                 HeadVerified(shown, answer, extends, fails)
    /\ UNCHANGED <<history, rewrites, signedBy>>
(* The store's head and entries survive; the rest of the source does not.  *)
Restarted ==
    /\ loaded
    /\ memory' = NoEntries /\ loaded' = FALSE /\ sinceAccount' = AccountInterval
    /\ UNCHANGED <<history, rewrites, signedBy, attestedLog, disk, verdict>>

RoundsInit ==
    /\ history = <<>> /\ rewrites = 0 /\ signedBy = [a \in SignalAuditors |-> <<>>]
    /\ attestedLog = <<>> /\ memory = NoEntries /\ loaded = FALSE /\ disk = NoEntries
    /\ sinceAccount = AccountInterval /\ verdict = None
RoundsNext ==
    \/ ServiceGrows
    \/ Rewrite
    \/ \E a \in SignalAuditors : AuditorSigns(a)
    \/ Round
    \/ Restarted
RoundsSpec == RoundsInit /\ [][RoundsNext]_roundVars

-----------------------------------------------------------------------------
(* Every head the witness attests is of a log that extends the log it      *)
(* attested before, whatever the service replaced and the auditors signed  *)
(* since (VerifyConsistency over deriveRoot).                              *)
AttestsOneLog == [][attestedLog' # attestedLog => IsPrefix(attestedLog, attestedLog')]_roundVars
(* A head is attested only with a quorum of configured auditors behind it: *)
(* at least MinAuditors of them had signed a prefix of its log.            *)
QuorumBehindEveryHead ==
    [][attestedLog' # attestedLog =>
         Cardinality({a \in SignalAuditors :
             signedBy[a] # <<>> /\ IsPrefix(signedBy[a], attestedLog')}) >= MinAuditors]_roundVars
(* The auditors are accused of disagreeing, which is permanent and public, *)
(* only if one of them signed a log the service does not serve, or a       *)
(* consistency proof was wrong past what the signed root can check.        *)
AccusesWithCause ==
    [][verdict'.kind = "accused" /\ verdict' # verdict =>
         verdict'.broken \/ \E a \in SignalAuditors : ~IsPrefix(signedBy[a], history)]_roundVars
(* What the witness remembers of an entry never changes while it           *)
(* remembers it, in memory or across a restart (entryLedger.merge,         *)
(* loadLedger: "an entry whose contents changed").                         *)
RememberedStays ==
    [][\A id \in DOMAIN memory \cap DOMAIN memory' : memory[id] = memory'[id]]_roundVars

(* The round as a whole: one log attested, with a quorum behind it, none   *)
(* accused without cause, nothing remembered that changes.                 *)
RoundsAreSound == AttestsOneLog /\ QuorumBehindEveryHead /\ AccusesWithCause /\ RememberedStays
=============================================================================
