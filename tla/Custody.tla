------------------------------- MODULE Custody -------------------------------
(***************************************************************************)
(* What store and forward promises of the readings a gateway has measured: *)
(* they are in its care until they are in the database, and given up only  *)
(* when there is no room or a file or the process fails; the newest of a   *)
(* sensor are never stored or kept before, or instead of, older ones; and  *)
(* a reading is stored a second time only after a failure.                 *)
(***************************************************************************)
EXTENDS Naturals, FiniteSets

CONSTANTS
    Readings,   \* a reading is its sensor and its time
    Ignored,    \* those of sensors without a unit: nobody stores them
    Room,       \* there is room for new readings while fewer are held
    Keep        \* the oldest go when more than these are held

VARIABLES
    emitted,    \* the readings measured
    held,       \* those in the gateway's care
    lost,       \* those given up
    rows,       \* rows[r]: rows of r in the database
    failures,   \* failed requests, writes and processes so far
    torn,       \* a failed write left the last reading in doubt
    intact      \* whatever was held could be read again

vars == <<emitted, held, lost, rows, failures, torn, intact>>

Arrived == {r \in Readings : rows[r] > 0 \/ r \in Ignored}

Precedes(r, s) == r[1] = s[1] /\ r[2] < s[2]

\* Of one sensor, every reading of S is older than those of T.
AllOlder(S, T) == \A r \in S, s \in T : r[1] = s[1] => r[2] < s[2]

Init ==
    /\ emitted = {} /\ held = {} /\ lost = {}
    /\ rows = [r \in Readings |-> 0]
    /\ failures = 0 /\ torn = FALSE /\ intact = TRUE

\* Newer readings are measured, and held, or given up for want of room.
Emit ==
    /\ emitted' \in SUBSET Readings /\ emitted \subseteq emitted'
    /\ LET new == emitted' \ emitted
       IN  /\ AllOlder(emitted, new)
           /\ \/ held' = held \cup new /\ lost' = lost
              \/ held' = held /\ lost' = lost \cup new /\ Cardinality(held) >= Room
    /\ UNCHANGED <<rows, failures, torn, intact>>

\* A row is added: none is missing before it, and it is the first unless there was a
\* failure for every other one.
Store(r) ==
    /\ r \in emitted \ Ignored
    /\ rows[r] <= failures
    /\ intact => \A q \in emitted \ lost : Precedes(q, r) => q \in Arrived
    /\ rows' = [rows EXCEPT ![r] = @ + 1]
    /\ UNCHANGED <<emitted, held, lost, failures, torn, intact>>

Fails == failures' = failures + 1 /\ torn' \in BOOLEAN
Works == failures' = failures /\ torn' \in {torn, FALSE}

\* What has arrived need not be held longer.
Release ==
    /\ held' \in SUBSET held
    /\ intact => held \ held' \subseteq Arrived
    /\ Fails \/ Works
    /\ UNCHANGED <<emitted, lost, rows, intact>>

\* Readings are given up: by a failure, or by the next write after a torn one, or
\* the oldest because there are too many.
Lose ==
    /\ held' \in SUBSET held
    /\ lost' = lost \cup (held \ held')
    /\ \/ Fails
       \/ torn /\ Works
       \/ Cardinality(held) > Keep /\ AllOlder(held \ held', held') /\ Works
    /\ UNCHANGED <<emitted, rows, intact>>

\* Some of what is held is not read again.
Misread ==
    /\ intact' = FALSE
    /\ UNCHANGED <<emitted, held, lost, rows, failures, torn>>

Next == Emit \/ (\E r \in Readings : Store(r)) \/ Release \/ Lose \/ Misread

Spec == Init /\ [][Next]_vars
=============================================================================
