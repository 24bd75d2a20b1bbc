------------------------------- MODULE Pacing -------------------------------
(***************************************************************************)
(* How much of a machine verification takes: the sampler of CPU counters   *)
(* (src/internal/cpuload), the governor that corrects its permits against  *)
(* what the sampler saw (src/internal/pace/governor.go), and the two users *)
(* of the permits: the witness's own worker, which always keeps one epoch  *)
(* going (src/cmd/kt-witness/localworker.go), and a borrowed machine's,    *)
(* which stops asking (src/cmd/kt-worker/main.go).  Permits are counted in *)
(* parts of Unit, rounded down.                                            *)
(***************************************************************************)
EXTENDS Integers

CONSTANTS TotalCores, Reserve, MaxConcurrent, MinPermits,
          Gain,        \* gain, in parts of Unit
          Unit,
          MaxShifts    \* bound: changes of the neighbours' load, failed readings

ASSUME PacingAssumption ==
    /\ TotalCores \in Nat \ {0} /\ Reserve \in Nat /\ MaxConcurrent \in Nat \ {0}
    /\ MinPermits \in Nat \ {0} /\ Gain \in 1..Unit - 1

VARIABLES borrowed,  \* the worker is a borrowed machine's
          others,    \* cores the neighbours use
          running,   \* epochs being verified, a core each
          permits,
          started,   \* a complete sample has been applied
          measured,  \* the last sample was complete
          base,      \* which counters the last reading obtained, "none" at first
          turn,      \* what happens between two samples
          shifts

pacingVars == <<borrowed, others, running, permits, started, measured, base, turn, shifts>>

Smaller(a, b) == IF a < b THEN a ELSE b
Larger(a, b) == IF a > b THEN a ELSE b

-----------------------------------------------------------------------------
(* budget: all cores but the reserve, and one at least.                    *)
Budget == Larger(TotalCores - Reserve, 1)

(* Sampler.Sample: counters are differenced; the first reading is a base.  *)
(* A counter that was not read last time was remembered as zero, so its    *)
(* difference is everything since the machine started: any figure.         *)
NoSample == [complete |-> FALSE, self |-> 0, machine |-> 0]
Machine == Smaller(TotalCores, others + running)
Samples(selfOK, machineOK) ==
    IF base = "none" \/ ~selfOK \/ ~machineOK THEN {NoSample}
    ELSE [complete: {TRUE},
          self: IF base = "both" THEN {running} ELSE {running, 2 * TotalCores},
          machine: IF base = "both" THEN {Machine} ELSE 0..TotalCores]
BaseAfter(selfOK, machineOK) ==
    IF base = "none" /\ ~selfOK /\ ~machineOK THEN "none"
    ELSE IF selfOK /\ machineOK THEN "both" ELSE "lost"

(* Variant: the worker's own cores are taken off the budget as well.       *)
CorrectedTwice(s) ==
    IF ~s.complete THEN Unit
    ELSE LET err == Budget - s.self - s.machine
             aim == IF started THEN permits + err * Gain ELSE err * Unit
             floored == IF Larger(s.machine - s.self, 0) < Budget
                        THEN Larger(aim, MinPermits * Unit) ELSE aim
         IN Smaller(Larger(floored, 0), MaxConcurrent * Unit)

(* Variant: the floor holds however busy the neighbours are.               *)
CorrectedFloored(s) ==
    IF ~s.complete THEN Unit
    ELSE LET err == Smaller(Budget - s.self, Budget - s.machine)
             aim == IF started THEN permits + err * Gain ELSE err * Unit
         IN Smaller(Larger(aim, MinPermits * Unit), MaxConcurrent * Unit)

(* Governor.step.                                                          *)
Corrected(s) ==
    IF ~s.complete THEN Unit
    ELSE LET err == Smaller(Budget - s.self, Budget - s.machine)
             aim == IF started THEN permits + err * Gain ELSE err * Unit
             floored == IF Larger(s.machine - s.self, 0) < Budget
                        THEN Larger(aim, MinPermits * Unit) ELSE aim
         IN Smaller(Larger(floored, 0), MaxConcurrent * Unit)

Tick ==
    /\ turn = "sample"
    /\ \E selfOK, machineOK \in BOOLEAN :
         /\ IF selfOK /\ machineOK THEN UNCHANGED shifts
            ELSE shifts < MaxShifts /\ shifts' = shifts + 1
         /\ \E s \in Samples(selfOK, machineOK) :
              /\ permits' = Corrected(s)
              /\ started' = (started \/ s.complete)
              /\ measured' = s.complete
         /\ base' = BaseAfter(selfOK, machineOK)
    /\ turn' = "work"
    /\ UNCHANGED <<borrowed, others, running>>

-----------------------------------------------------------------------------
(* width, Parallel: the operator's figure, narrowed by what was measured.  *)
Permits == permits \div Unit
Width ==
    IF borrowed /\ ~measured THEN MaxConcurrent
    ELSE Larger(1, Smaller(Permits, MaxConcurrent))

(* Ready(1): the borrowed machine takes no new range without a permit.     *)
Ready == ~borrowed \/ Permits >= 1

(* Between two samples ranges end and others are asked for; a range runs   *)
(* at the width it was begun with.                                         *)
Works ==
    /\ turn = "work" /\ turn' = "sample"
    /\ running' = IF Ready THEN Width ELSE 0
    /\ UNCHANGED <<borrowed, others, permits, started, measured, base, shifts>>

NeighboursChange ==
    /\ shifts < MaxShifts /\ shifts' = shifts + 1
    /\ others' \in 0..TotalCores
    /\ UNCHANGED <<borrowed, running, permits, started, measured, base, turn>>

PacingInit ==
    /\ borrowed \in BOOLEAN
    /\ others = 0 /\ running = 0 /\ permits = MinPermits * Unit
    /\ started = FALSE /\ measured = FALSE /\ base = "none" /\ turn = "sample"
    /\ shifts = 0

PacingNext == Tick \/ Works \/ NeighboursChange
PacingSpec == PacingInit /\ [][PacingNext]_pacingVars

(* The ticker fires, and the worker asks in between.                       *)
PacingFairness == WF_pacingVars(Tick) /\ WF_pacingVars(Works)

-----------------------------------------------------------------------------
PacingTypeOK ==
    /\ {others, running} \subseteq 0..TotalCores \cup 0..MaxConcurrent
    /\ permits \in 0..MaxConcurrent * Unit
    /\ {started, measured} \subseteq BOOLEAN /\ base \in {"none", "lost", "both"}
    /\ turn \in {"sample", "work"} /\ shifts \in 0..MaxShifts

(* Whatever the neighbours did before, once they alone take the budget for *)
(* good a borrowed machine gives all of its own share back                 *)
(* ("we get out of the way entirely"), and the witness's worker all but    *)
(* one epoch.                                                              *)
YieldsToNeighbours ==
    <>[](others >= Budget) => <>[](running = IF borrowed THEN 0 ELSE 1)

(* And once they are gone for good the budget is used again, up to what    *)
(* the worker may run: neither a failed reading nor a busy spell leaves    *)
(* the permits low for ever.                                               *)
RecoversTheBudget ==
    <>[](others = 0) => []<>(running = Smaller(Budget, MaxConcurrent))
=============================================================================
