--------------------------- MODULE MCChainTamper ---------------------------
(* A small instance of ChainTamper. *)
EXTENDS ChainTamper, TLC

CONSTANTS o1, o2, w1, n1, n2

\* Every organization its own lock.
OwnKeys == [o \in {o1, o2} |-> o]

\* 38.04 F, and one that is 0.0 F without a sign.
SomeTemps == {3804, 4}

Symmetric == Permutations({o1, o2}) \cup Permutations({n1, n2})
=============================================================================
