--------------------------- MODULE MCReadingChain ---------------------------
(* Small instances of ReadingChain. *)
EXTENDS ReadingChain, TLC

CONSTANTS o1, o2, w1, w2, w3

\* hashtext of the two organizations collides, so they share one lock.
CollidingKeys == o1 :> "k" @@ o2 :> "k"
OneKey == o1 :> "k1"

\* 38.04 F, -0.04 F (a freezer at -17.8 C) and one numeric(5,1) cannot hold.
MixedTemps == {3804, -4, 1000000}
=============================================================================
