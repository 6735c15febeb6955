----------------------------- MODULE FixedWindow -----------------------------
(***************************************************************************)
(* What the throttle of the credential endpoints promises: per client a    *)
(* window that opens with a request, stays open for one length of time,    *)
(* and lets at most Limit requests pass. RateLimiter implements it with a  *)
(* map that forgets windows lazily.                                        *)
(***************************************************************************)
EXTENDS Integers

CONSTANTS Clients, Limit, Window

VARIABLES
    now,      \* the clock
    window    \* window[c]: requests passed in the open window of c and when it
              \* ends, or Closed

vars == <<now, window>>

Closed == [count |-> 0, resetAt |-> -1]

Init == now = 0 /\ window = [c \in Clients |-> Closed]

\* Time passes; windows that have ended close.
Tick ==
    /\ now' = now + 1
    /\ window' = [c \in Clients |-> IF now + 1 > window[c].resetAt THEN Closed ELSE window[c]]

\* A request of c passes, the first of a window or not.
Pass(c) ==
    /\ \/ /\ window[c] = Closed
          /\ window' = [window EXCEPT ![c] = [count |-> 1, resetAt |-> now + Window]]
       \/ /\ window[c] # Closed /\ window[c].count < Limit
          /\ window' = [window EXCEPT ![c].count = @ + 1]
    /\ UNCHANGED now

Next == Tick \/ \E c \in Clients : Pass(c)

Spec == Init /\ [][Next]_vars
=============================================================================
