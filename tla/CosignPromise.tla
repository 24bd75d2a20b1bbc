--------------------------- MODULE CosignPromise ---------------------------
(***************************************************************************)
(* What the witness promises about one log, whatever polls it and whatever *)
(* crashes: a cosignature attests a tree that extends every tree cosigned  *)
(* before, and a finding of misbehaviour is kept for ever - withdrawing it *)
(* lifts the poison and leaves the evidence.                               *)
(***************************************************************************)
EXTENDS Heads

CONSTANT Findings  \* what may be recorded against the log

VARIABLES
  cosigned,  \* the trees cosigned so far
  forks,     \* the evidence, in the order it was recorded
  poisoned   \* the finding that forbids cosigning, 0 when none does

promise == <<cosigned, forks, poisoned>>

Init == cosigned = {} /\ forks = <<>> /\ poisoned = 0

(* One more tree; the last tree again when only the timestamp is renewed.  *)
Cosign ==
  /\ \E t \in Trees :
       /\ \A c \in cosigned : IsPrefix(c, t)
       /\ cosigned' = cosigned \cup {t}
  /\ UNCHANGED <<forks, poisoned>>

(* The first finding is the one that matters: none is added to it.         *)
Condemn ==
  /\ poisoned = 0
  /\ \E f \in Findings : forks' = Append(forks, f)
  /\ poisoned' = Len(forks')
  /\ UNCHANGED cosigned

(* A human withdraws the finding.                                          *)
Withdraw ==
  /\ poisoned # 0
  /\ poisoned' = 0
  /\ UNCHANGED <<cosigned, forks>>

Next == Cosign \/ Condemn \/ Withdraw

Spec == Init /\ [][Next]_promise
=============================================================================
