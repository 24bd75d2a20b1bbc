------------------------------- MODULE MCLogs -------------------------------
(***************************************************************************)
(* What the adapters check of each kind of log, an instance each for TLC:  *)
(* Proton's epochs replayed, the entries of c2sp and sigsum logs, an AKD's *)
(* chain of objects in rounds and in its history, Apple's revisions and    *)
(* applications, Signal's proofs, directory and rounds.  They share no     *)
(* state, so a behaviour moves one of them and leaves the others as they   *)
(* began.                                                                  *)
(***************************************************************************)
EXTENDS ProtonReplay, EntryLogs, AkdChain, AppleLog, AppHeads, SignalProofs, SignalAudit, SignalRounds

CONSTANTS x, y, one, other

VARIABLE part
logsVars == <<part, replayVars, entryVars, akdVars, appleVars, appVars, treeVars, signalVars, roundVars>>

LogsInit ==
    /\ part \in {"replay", "entries", "akd rounds", "akd history", "apple", "applications",
                 "proofs", "directory", "rounds"}
    /\ ReplayInit /\ EntryLogsInit /\ AkdChainInit /\ AppleInit /\ AppHeadsInit
    /\ TreeInit /\ SignalInit /\ RoundsInit
    /\ part # "entries" => kind = "c2sp"
    /\ part # "apple" => sizes = [i \in 1..LastRevision |-> 1]

LogsNext ==
    /\ part' = part
    /\ \/ part = "replay" /\ ReplayNext
          /\ UNCHANGED <<entryVars, akdVars, appleVars, appVars, treeVars, signalVars, roundVars>>
       \/ part = "entries" /\ EntryLogsNext
          /\ UNCHANGED <<replayVars, akdVars, appleVars, appVars, treeVars, signalVars, roundVars>>
       \/ part = "akd rounds" /\ AkdRoundsNext
          /\ UNCHANGED <<replayVars, entryVars, appleVars, appVars, treeVars, signalVars, roundVars>>
       \/ part = "akd history" /\ AkdHistoryNext
          /\ UNCHANGED <<replayVars, entryVars, appleVars, appVars, treeVars, signalVars, roundVars>>
       \/ part = "apple" /\ AppleNext
          /\ UNCHANGED <<replayVars, entryVars, akdVars, appVars, treeVars, signalVars, roundVars>>
       \/ part = "applications" /\ AppHeadsNext
          /\ UNCHANGED <<replayVars, entryVars, akdVars, appleVars, treeVars, signalVars, roundVars>>
       \/ part = "proofs" /\ TreeNext
          /\ UNCHANGED <<replayVars, entryVars, akdVars, appleVars, appVars, signalVars, roundVars>>
       \/ part = "directory" /\ SignalNext
          /\ UNCHANGED <<replayVars, entryVars, akdVars, appleVars, appVars, treeVars, roundVars>>
       \/ part = "rounds" /\ RoundsNext
          /\ UNCHANGED <<replayVars, entryVars, akdVars, appleVars, appVars, treeVars, signalVars>>

LogsSpec == LogsInit /\ [][LogsNext]_logsVars
=============================================================================
