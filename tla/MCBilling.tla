------------------------------ MODULE MCBilling ------------------------------
(* A small instance of Billing. *)
EXTENDS Billing, TLC

CONSTANTS r1, r2, r3

Symmetry == Permutations(Requests)
=============================================================================
