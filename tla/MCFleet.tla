------------------------------ MODULE MCFleet ------------------------------
(***************************************************************************)
(* The parts around the fleet of workers, each with an instance of its own *)
(* for TLC: the work channel, the construction audits, the request limit   *)
(* and the link, the log lists, the proof a worker streams and the tree it *)
(* computes.  They share no state here, so a behaviour moves one of them   *)
(* and leaves the others as they began.                                    *)
(***************************************************************************)
EXTENDS MCWork, Audits, Limits, LogLists, ProofStream, AkdTree

VARIABLE part
fleetVars == <<part, workVars, auditsVars, limitVars, listVars, streamVars, proofVars>>

EveryThirdDraw(r0, e) == (r0 + e) % 3
(* Two keys name log "a", one log "b".                                     *)
TwoNames == [k \in LogKeys |-> IF k = "k2" THEN "b" ELSE "a"]
ThreeConfigurations ==
    {[static |-> [g \in LogOrigins |-> NoKey], all |-> {}],
     [static |-> [g \in LogOrigins |-> IF g = "a" THEN "k2" ELSE NoKey], all |-> {"a"}],
     [static |-> [g \in LogOrigins |-> NoKey], all |-> {"b"}]}

FleetInit ==
    /\ part \in {"work", "audits", "requests", "link", "lists", "stream", "tree"}
    /\ WorkInit /\ AuditsInit /\ LimitsInit /\ LogListsInit /\ StreamInit /\ AkdTreeInit
    /\ part # "stream" => encoding = <<>> /\ declared /\ ~canary

FleetNext ==
    /\ part' = part
    /\ \/ part = "work" /\ WorkNext
          /\ UNCHANGED <<auditsVars, limitVars, listVars, streamVars, proofVars>>
       \/ part = "audits" /\ AuditsNext
          /\ UNCHANGED <<workVars, limitVars, listVars, streamVars, proofVars>>
       \/ part = "requests" /\ RequestsNext
          /\ UNCHANGED <<workVars, auditsVars, listVars, streamVars, proofVars>>
       \/ part = "link" /\ LinkNext
          /\ UNCHANGED <<workVars, auditsVars, listVars, streamVars, proofVars>>
       \/ part = "lists" /\ LogListsNext
          /\ UNCHANGED <<workVars, auditsVars, limitVars, streamVars, proofVars>>
       \/ part = "stream" /\ StreamNext
          /\ UNCHANGED <<workVars, auditsVars, limitVars, listVars, proofVars>>
       \/ part = "tree" /\ AkdTreeNext
          /\ UNCHANGED <<workVars, auditsVars, limitVars, listVars, streamVars>>

FleetSpec == FleetInit /\ [][FleetNext]_fleetVars
=============================================================================
