---------------------------- MODULE MCAlertEngine ----------------------------
(* Small instances of AlertEngine. *)
EXTENDS AlertEngine

CONSTANTS u1, r1, r2
=============================================================================
