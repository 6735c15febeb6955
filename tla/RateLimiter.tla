----------------------------- MODULE RateLimiter -----------------------------
(***************************************************************************)
(* The per-process, fixed-window rate limiter of                           *)
(* backend/internal/api/ratelimit.go. Its mutex makes allow one step; time *)
(* passes between the calls. Time is in ticks, Second of them to a second, *)
(* because Retry-After is rounded to whole seconds.                        *)
(***************************************************************************)
EXTENDS Integers, Sequences, FiniteSets

CONSTANTS
    Clients,   \* client addresses
    Limit,     \* requests a window lets pass (10)
    Window,    \* length of a window (a minute)
    Second,    \* ticks in a second
    PurgeAt,   \* size from which on the map is purged (1024)
    MaxNow     \* bound: the clock stops here

ASSUME ConstantsOK ==
    /\ Limit \in Nat \ {0}
    /\ Window \in Nat \ {0}
    /\ Second \in Nat \ {0}
    /\ PurgeAt \in Nat
    /\ MaxNow \in Nat

VARIABLES
    now,       \* the clock
    hits,      \* the map: clients with a window, live or expired
    passed,    \* history: passed[c]: when requests of c passed
    retryAt    \* history: retryAt[c]: when the last answer told c to try again,
               \* 0 when it let c pass

vars == <<now, hits, passed, retryAt>>

Init ==
    /\ now = 0
    /\ hits = [c \in {} |-> 0]
    /\ passed = [c \in Clients |-> <<>>]
    /\ retryAt = [c \in Clients |-> 0]

Tick ==
    /\ now < MaxNow
    /\ now' = now + 1
    /\ UNCHANGED <<hits, passed, retryAt>>

\* Mutant: a window that ends too early is taken for expired.
ExpiredEarly(w) == now + 1 > w.resetAt

\* now.After(w.resetAt)
Expired(w) == now > w.resetAt

Live(c) == c \in DOMAIN hits /\ ~Expired(hits[c])

\* Mutants: everything goes; nothing goes.
PurgedAll(map) == IF Cardinality(DOMAIN map) < PurgeAt THEN map ELSE [c \in {} |-> 0]
PurgedNever(map) == map

\* purge: the map without its expired windows, once it is large.
Purged(map) ==
    IF Cardinality(DOMAIN map) < PurgeAt THEN map
    ELSE [c \in {c \in DOMAIN map : ~Expired(map[c])} |-> map[c]]

LetPass(c) ==
    /\ passed' = [passed EXCEPT ![c] = Append(@, now)]
    /\ retryAt' = [retryAt EXCEPT ![c] = 0]

\* allow: a fresh window, and the purge.
AllowFresh(c) ==
    /\ ~Live(c)
    /\ hits' = Purged([d \in DOMAIN hits \cup {c} |->
                          IF d = c THEN [count |-> 1, resetAt |-> now + Window] ELSE hits[d]])
    /\ LetPass(c)
    /\ UNCHANGED now

\* Mutant: one request too many.
FullLate(w) == w.count > Limit

\* w.count >= rl.limit
Full(w) == w.count >= Limit

\* allow: one more in the window.
AllowMore(c) ==
    /\ Live(c) /\ ~Full(hits[c])
    /\ hits' = [hits EXCEPT ![c].count = @ + 1]
    /\ LetPass(c)
    /\ UNCHANGED now

\* Mutant: whole seconds, rounded down.
RetryAfterDown(d) == (d \div Second) * Second

\* int(retry.Seconds()) + 1 seconds
RetryAfter(d) == (d \div Second + 1) * Second

\* The middleware answers 429 with Retry-After.
Refuse(c) ==
    /\ Live(c) /\ Full(hits[c])
    /\ retryAt' = [retryAt EXCEPT ![c] = now + RetryAfter(hits[c].resetAt - now)]
    /\ UNCHANGED <<now, hits, passed>>

Allow(c) == AllowFresh(c) \/ AllowMore(c) \/ Refuse(c)

Next == Tick \/ \E c \in Clients : Allow(c)

Spec == Init /\ [][Next]_vars

-----------------------------------------------------------------------------
(* Properties.                                                             *)

WindowType == [count : 1 .. Limit, resetAt : Nat]

\* Types; a window never counts more than the limit and ends at most one
\* length from now.
TypeOK ==
    /\ now \in 0 .. MaxNow
    /\ DOMAIN hits \subseteq Clients
    /\ \A c \in DOMAIN hits : hits[c] \in WindowType /\ hits[c].resetAt <= now + Window
    /\ passed \in [Clients -> Seq(0 .. MaxNow)]
    /\ retryAt \in [Clients -> Nat]

\* The throttle holds across the ends of windows and whatever was purged: in no
\* span as long as a window, wherever it starts, do more than twice Limit
\* requests of one client pass. Whoever comes that many requests later comes
\* more than a window later.
AtMostTwiceLimit ==
    \A c \in Clients : \A i \in DOMAIN passed[c] :
        i + 2 * Limit \in DOMAIN passed[c] => passed[c][i + 2 * Limit] > passed[c][i] + Window

\* The Retry-After of a refusal suffices: whoever waits that long, and was not let
\* pass since, is not refused again; and it is less than a second too long.
RetryAfterSuffices ==
    \A c \in Clients : retryAt[c] # 0 =>
        /\ now >= retryAt[c] => ~Live(c)
        /\ c \in DOMAIN hits => retryAt[c] <= hits[c].resetAt + Second

\* The map does not grow without bound: when it has reached PurgeAt, all its windows
\* were live when the last of them opened.
MapBounded ==
    \/ Cardinality(DOMAIN hits) < PurgeAt
    \/ \A c, d \in DOMAIN hits : hits[c].resetAt >= hits[d].resetAt - Window

\* Expired windows, purged or not, make no difference: the map is a set of
\* fixed windows.
Fixed == INSTANCE FixedWindow WITH
             window <- [c \in Clients |-> IF Live(c) THEN hits[c]
                                          ELSE [count |-> 0, resetAt |-> -1]]

ImplementsFixedWindow == Fixed!Spec
=============================================================================
