----------------------------- MODULE MCRecords -----------------------------
(***************************************************************************)
(* A small instance of Records. Where a reading came from is nothing to    *)
(* reports and analytics, and alerts are nothing to sensors and the board: *)
(* a behaviour has sensors or the board, or it has alerts or one of the    *)
(* two pages, and it ends when the page is done.                           *)
(***************************************************************************)
EXTENDS Records, TLC

CONSTANTS u1, u2, m1

Symmetry == Permutations(Units)

Moved == \E u \in Units, m \in Macs : left[u][m] >= 0

WithSensors ==
    \/ ingest.pc # "none"
    \/ \E u \in DOMAIN units : units[u] # None
    \/ Moved

WithPages == alerts # <<>> \/ reader.kind \in {"report", "analytics"}

OneTopic ==
    /\ ~((WithSensors \/ reader.kind = "board") /\ WithPages)
    /\ ~(Moved /\ reader.kind # "none")
Finished == \E kind \in {"board", "report", "analytics"} : Done(kind)

MCSpec == Init /\ [][Next /\ OneTopic' /\ ~Finished]_vars
=============================================================================
