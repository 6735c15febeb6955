------------------------------ MODULE AppendLog ------------------------------
(***************************************************************************)
(* What the readings table promises an organization: a log per             *)
(* organization that only ever grows, by one whole entry at its end.       *)
(* ReadingChain implements it with transactions, an advisory lock and a    *)
(* hash chain.                                                             *)
(***************************************************************************)
EXTENDS Sequences

CONSTANTS
    Orgs,      \* the organizations
    Entries    \* what a reading says: the columns a caller supplies

VARIABLE log   \* log[o]: the readings of o, oldest first

Init == log = [o \in Orgs |-> <<>>]

Record(o, e) == log' = [log EXCEPT ![o] = Append(@, e)]

Next == \E o \in Orgs, e \in Entries : Record(o, e)

Spec == Init /\ [][Next]_log
=============================================================================
