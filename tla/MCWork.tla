------------------------------ MODULE MCWork ------------------------------
(* Instances of WorkChannel for TLC. *)
EXTENDS WorkChannel
CONSTANTS home, away, log
FirstBad == {<<log, 1>>}
=============================================================================
