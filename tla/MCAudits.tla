----------------------------- MODULE MCAudits -----------------------------
(* Instances of Audits for TLC. *)
EXTENDS Audits
ADraw(r, e) == (r + e) % 3
=============================================================================
