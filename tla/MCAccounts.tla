----------------------------- MODULE MCAccounts -----------------------------
(* A small instance of Accounts. *)
EXTENDS Accounts, TLC

CONSTANTS r1, r2, r3, r4, e1, e2
=============================================================================
