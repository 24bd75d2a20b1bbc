------------------------------ MODULE MCPaced ------------------------------
(***************************************************************************)
(* What eventually happens to the epochs of one log, and to the governor   *)
(* of a worker.  They share no state, so a behaviour moves one of them.    *)
(***************************************************************************)
EXTENDS Audits, Pacing

VARIABLE part
pacedVars == <<part, auditsVars, pacingVars>>

EveryThirdDraw(r, e) == (r + e) % 3

PacedInit ==
    /\ part \in {"audits", "pacing"}
    /\ AuditsInit /\ PacingInit
    /\ part # "pacing" => ~borrowed
PacedNext ==
    /\ part' = part
    /\ \/ part = "audits" /\ AuditsNext /\ UNCHANGED pacingVars
       \/ part = "pacing" /\ PacingNext /\ UNCHANGED auditsVars
(* Each part is fair when it is the one that moves.                        *)
PacedSpec ==
    /\ PacedInit /\ [][PacedNext]_pacedVars
    /\ part = "audits" => AuditsFairness
    /\ part = "pacing" => PacingFairness

-----------------------------------------------------------------------------
(* Holes heal: every published epoch whose proof can be had is verified in *)
(* the end, whatever failed, was declined or lost by a restart.            *)
HolesHeal == part = "audits" => EveryEpochVerified
(* A borrowed machine is given back whole to those it belongs to, and the  *)
(* permits stay within what the worker may run on the way.                 *)
GivesWay == []PacingTypeOK /\ (part = "pacing" => YieldsToNeighbours)
(* A worker left alone uses its whole budget again and again.              *)
ComesBack == part = "pacing" => RecoversTheBudget
=============================================================================
