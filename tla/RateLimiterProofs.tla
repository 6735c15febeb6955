-------------------------- MODULE RateLimiterProofs --------------------------
(***************************************************************************)
(* Proofs about RateLimiter: types, that a purge forgets nothing live, the *)
(* bound on the map, that Retry-After suffices, that no span as long as a  *)
(* window lets more than twice the limit pass, and that the limiter        *)
(* implements FixedWindow, for all clients, limits and lengths.            *)
(***************************************************************************)
EXTENDS RateLimiter, SequenceTheorems, TLAPS

-----------------------------------------------------------------------------
(* The helpers.                                                            *)

\* A purge changes no window it keeps, and keeps every live one.
LEMMA PurgeKeepsLive ==
    ASSUME NEW map
    PROVE  /\ DOMAIN Purged(map) \subseteq DOMAIN map
           /\ \A c \in DOMAIN Purged(map) : Purged(map)[c] = map[c]
           /\ \A c \in DOMAIN map : ~Expired(map[c]) => c \in DOMAIN Purged(map)
  BY DEF Purged

\* A large map keeps live windows only.
LEMMA PurgeDropsExpired ==
    ASSUME NEW map, ~(Cardinality(DOMAIN map) < PurgeAt)
    PROVE  \A c \in DOMAIN Purged(map) : ~Expired(map[c])
  BY DEF Purged

\* Rounding a wait up to whole seconds makes it longer, by one second at most.
LEMMA RetryAfterBounds ==
    ASSUME NEW d \in Nat
    PROVE  RetryAfter(d) \in Nat /\ d < RetryAfter(d) /\ RetryAfter(d) <= d + Second
<1> DEFINE q == d \div Second
<1>1. q \in Nat /\ Second * q <= d /\ d < Second * q + Second
  BY ConstantsOK, SMTT(30)
<1>2. RetryAfter(d) = Second * q + Second
  BY <1>1, ConstantsOK, SMTT(30) DEF RetryAfter
<1> HIDE DEF q
<1>3. Second * q \in Nat
  BY <1>1, ConstantsOK
<1> QED BY <1>1, <1>2, <1>3, ConstantsOK

\* What letting a request pass leaves in the histories.
LEMMA LetPassTyped ==
    ASSUME TypeOK, NEW c \in Clients, LetPass(c)
    PROVE  /\ passed' \in [Clients -> Seq(0 .. MaxNow)] /\ retryAt' \in [Clients -> Nat]
           /\ passed'[c] = Append(passed[c], now)
           /\ \A d \in Clients : d # c => passed'[d] = passed[d]
<1>1. passed[c] \in Seq(0 .. MaxNow) /\ now \in 0 .. MaxNow
  BY DEF TypeOK
<1>2. Append(passed[c], now) \in Seq(0 .. MaxNow)
  BY <1>1, AppendProperties
<1>3. passed' = [passed EXCEPT ![c] = Append(passed[c], now)]
  BY DEF LetPass
<1>4. passed \in [Clients -> Seq(0 .. MaxNow)]
  BY DEF TypeOK
<1>5. retryAt' \in [Clients -> Nat]
  BY DEF LetPass, TypeOK
<1> HIDE DEF LetPass
<1> QED
  BY <1>2, <1>3, <1>4, <1>5

\* What AllowFresh leaves: a fresh window for its client, the others unchanged or,
\* when expired, gone.
LEMMA FreshHits ==
    ASSUME TypeOK, NEW c \in Clients, AllowFresh(c)
    PROVE  /\ c \in DOMAIN hits'
           /\ hits'[c] = [count |-> 1, resetAt |-> now + Window]
           /\ DOMAIN hits' \subseteq DOMAIN hits \cup {c}
           /\ \A d \in DOMAIN hits' : d # c => d \in DOMAIN hits /\ hits'[d] = hits[d]
           /\ \A d \in DOMAIN hits : d # c /\ ~Expired(hits[d]) => d \in DOMAIN hits'
           /\ Cardinality(DOMAIN hits') < PurgeAt \/ \A d \in DOMAIN hits' : ~Expired(hits'[d])
<1> DEFINE map == [d \in DOMAIN hits \cup {c} |->
                     IF d = c THEN [count |-> 1, resetAt |-> now + Window] ELSE hits[d]]
<1>1. hits' = Purged(map)
  BY DEF AllowFresh
<1>2. /\ DOMAIN map = DOMAIN hits \cup {c}
      /\ map[c] = [count |-> 1, resetAt |-> now + Window]
      /\ \A d \in DOMAIN hits : d # c => map[d] = hits[d]
  OBVIOUS
<1>3. ~Expired(map[c])
  BY <1>2, ConstantsOK DEF Expired, TypeOK
<1>4. CASE Cardinality(DOMAIN map) < PurgeAt
  <2>1. hits' = map
    BY <1>1, <1>4 DEF Purged
  <2> HIDE DEF map
  <2> QED BY <2>1, <1>2, <1>4
<1>5. CASE ~(Cardinality(DOMAIN map) < PurgeAt)
  <2>1. \A d \in DOMAIN hits' : ~Expired(map[d])
    BY <1>1, <1>5, PurgeDropsExpired
  <2> HIDE DEF map
  <2>2. /\ DOMAIN hits' \subseteq DOMAIN map
        /\ \A d \in DOMAIN hits' : hits'[d] = map[d]
        /\ \A d \in DOMAIN map : ~Expired(map[d]) => d \in DOMAIN hits'
    BY <1>1, PurgeKeepsLive
  <2>3. \A d \in DOMAIN hits' : ~Expired(hits'[d])
    BY <2>1, <2>2
  <2> QED BY <1>2, <1>3, <2>2, <2>3
<1> QED BY <1>4, <1>5

-----------------------------------------------------------------------------
(* The invariant.                                                          *)

\* A refusal sends its client past the end of the window that refused it.
Promise ==
    \A c \in DOMAIN hits : retryAt[c] # 0 =>
        hits[c].resetAt < retryAt[c] /\ retryAt[c] <= hits[c].resetAt + Second

IInv == TypeOK /\ Promise /\ MapBounded

\* Every step keeps the types.
LEMMA TypeStep == TypeOK /\ [Next]_vars => TypeOK'
<1> SUFFICES ASSUME TypeOK, [Next]_vars
             PROVE  TypeOK'
  OBVIOUS
<1> USE ConstantsOK
<1>1. CASE Tick
  <2>1. now' \in 0 .. MaxNow /\ now' = now + 1
    BY <1>1 DEF Tick, TypeOK
  <2>2. \A c \in DOMAIN hits : hits[c] \in WindowType /\ hits[c].resetAt <= now + 1 + Window
    BY DEF TypeOK, WindowType
  <2> QED BY <1>1, <2>1, <2>2 DEF Tick, TypeOK
<1>2. ASSUME NEW c \in Clients, AllowFresh(c)
      PROVE  TypeOK'
  <2>1. \A d \in DOMAIN hits' : hits'[d] \in WindowType /\ hits'[d].resetAt <= now + Window
    <3> SUFFICES ASSUME NEW d \in DOMAIN hits'
                 PROVE  hits'[d] \in WindowType /\ hits'[d].resetAt <= now + Window
      OBVIOUS
    <3>1. CASE d = c
      BY <1>2, <3>1, FreshHits DEF TypeOK, WindowType
    <3>2. CASE d # c
      BY <1>2, <3>2, FreshHits DEF TypeOK
    <3> QED BY <3>1, <3>2
  <2>2. DOMAIN hits' \subseteq Clients
    BY <1>2, FreshHits DEF TypeOK
  <2>3. passed' \in [Clients -> Seq(0 .. MaxNow)] /\ retryAt' \in [Clients -> Nat]
    BY <1>2, LetPassTyped DEF AllowFresh
  <2> QED BY <1>2, <2>1, <2>2, <2>3 DEF AllowFresh, TypeOK
<1>3. ASSUME NEW c \in Clients, AllowMore(c)
      PROVE  TypeOK'
  <2>1. hits[c].count + 1 \in 1 .. Limit
    BY <1>3 DEF AllowMore, Live, Full, TypeOK, WindowType
  <2>2. \A d \in DOMAIN hits' : hits'[d] \in WindowType /\ hits'[d].resetAt <= now + Window
    BY <1>3, <2>1 DEF AllowMore, Live, TypeOK, WindowType
  <2>3. passed' \in [Clients -> Seq(0 .. MaxNow)] /\ retryAt' \in [Clients -> Nat]
    BY <1>3, LetPassTyped DEF AllowMore
  <2> QED BY <1>3, <2>2, <2>3 DEF AllowMore, TypeOK
<1>4. ASSUME NEW c \in Clients, Refuse(c)
      PROVE  TypeOK'
  <2>1. hits[c].resetAt - now \in Nat /\ now \in Nat
    BY <1>4 DEF Refuse, Live, Expired, TypeOK, WindowType
  <2>2. now + RetryAfter(hits[c].resetAt - now) \in Nat
    BY <2>1, RetryAfterBounds
  <2> QED BY <1>4, <2>2 DEF Refuse, TypeOK
<1>5. CASE UNCHANGED vars
  BY <1>5 DEF TypeOK, vars
<1> QED BY <1>1, <1>2, <1>3, <1>4, <1>5 DEF Next, Allow

\* Every step keeps the promises of earlier refusals.
LEMMA PromiseStep == TypeOK /\ Promise /\ [Next]_vars => Promise'
<1> SUFFICES ASSUME TypeOK, Promise, [Next]_vars
             PROVE  Promise'
  OBVIOUS
<1>1. CASE Tick
  BY <1>1 DEF Tick, Promise
<1>2. ASSUME NEW c \in Clients, AllowFresh(c)
      PROVE  Promise'
  <2>1. \A d \in Clients : retryAt'[d] = IF d = c THEN 0 ELSE retryAt[d]
    BY <1>2 DEF AllowFresh, LetPass, TypeOK
  <2>2. DOMAIN hits' \subseteq Clients
    BY <1>2, FreshHits DEF TypeOK
  <2> QED BY <1>2, <2>1, <2>2, FreshHits DEF Promise
<1>3. ASSUME NEW c \in Clients, AllowMore(c)
      PROVE  Promise'
  <2>1. \A d \in Clients : retryAt'[d] = IF d = c THEN 0 ELSE retryAt[d]
    BY <1>3 DEF AllowMore, LetPass, TypeOK
  <2>2. /\ DOMAIN hits' = DOMAIN hits
        /\ \A d \in DOMAIN hits : d # c => hits'[d] = hits[d]
    BY <1>3 DEF AllowMore
  <2> QED BY <2>1, <2>2 DEF Promise, TypeOK
<1>4. ASSUME NEW c \in Clients, Refuse(c)
      PROVE  Promise'
  <2> DEFINE d == hits[c].resetAt - now
  <2>1. /\ c \in DOMAIN hits /\ d \in Nat /\ now \in Nat
        /\ hits[c].resetAt \in Nat /\ hits[c].resetAt = now + d
    BY <1>4 DEF Refuse, Live, Expired, TypeOK, WindowType
  <2>2. RetryAfter(d) \in Nat /\ d < RetryAfter(d) /\ RetryAfter(d) <= d + Second
    BY <2>1, RetryAfterBounds
  <2>3. \A e \in Clients : retryAt'[e] = IF e = c THEN now + RetryAfter(d) ELSE retryAt[e]
    BY <1>4 DEF Refuse, TypeOK
  <2>4. hits' = hits
    BY <1>4 DEF Refuse
  <2> HIDE DEF d
  <2>5. hits[c].resetAt < retryAt'[c] /\ retryAt'[c] <= hits[c].resetAt + Second
    BY <2>1, <2>2, <2>3, ConstantsOK
  <2> QED BY <2>3, <2>4, <2>5 DEF Promise, TypeOK
<1>5. CASE UNCHANGED vars
  BY <1>5 DEF Promise, vars
<1> QED BY <1>1, <1>2, <1>3, <1>4, <1>5 DEF Next, Allow

\* Every step keeps the map bounded.
LEMMA BoundStep == TypeOK /\ MapBounded /\ [Next]_vars => MapBounded'
<1> SUFFICES ASSUME TypeOK, MapBounded, [Next]_vars
             PROVE  MapBounded'
  OBVIOUS
<1>1. ASSUME NEW c \in Clients, AllowFresh(c), NEW d \in DOMAIN hits', NEW e \in DOMAIN hits',
             \A x \in DOMAIN hits' : ~Expired(hits'[x])
      PROVE  hits'[d].resetAt >= hits'[e].resetAt - Window
  <2>1. TypeOK'
    BY <1>1, TypeStep DEF Next, Allow
  <2>2. now' = now
    BY <1>1 DEF AllowFresh
  <2>3. /\ hits'[d].resetAt \in Nat /\ hits'[e].resetAt \in Nat
        /\ hits'[e].resetAt <= now + Window
    BY <2>1, <2>2 DEF TypeOK, WindowType
  <2> QED BY <1>1, <2>3, ConstantsOK DEF Expired, TypeOK
<1>2. ASSUME NEW c \in Clients, AllowFresh(c)
      PROVE  MapBounded'
  BY <1>1, <1>2, FreshHits DEF MapBounded
<1>3. ASSUME NEW c \in Clients, AllowMore(c)
      PROVE  MapBounded'
  <2>1. /\ DOMAIN hits' = DOMAIN hits
        /\ \A d \in DOMAIN hits : hits'[d].resetAt = hits[d].resetAt
    BY <1>3 DEF AllowMore, Live, TypeOK, WindowType
  <2> QED BY <2>1 DEF MapBounded
<1>4. CASE hits' = hits
  BY <1>4 DEF MapBounded
<1> QED BY <1>2, <1>3, <1>4 DEF Next, Allow, Tick, Refuse, vars

\* The invariant holds at the start.
LEMMA InvInit == Init => IInv
  BY ConstantsOK DEF Init, IInv, TypeOK, Promise, MapBounded

-----------------------------------------------------------------------------
(* The theorems.                                                           *)

\* Types, the promises of refusals and the bound on the map always hold.
THEOREM LimiterInvariant == Spec => []IInv
<1>1. IInv /\ [Next]_vars => IInv'
  BY TypeStep, PromiseStep, BoundStep DEF IInv
<1> QED BY InvInit, <1>1, PTL DEF Spec

\* Every window stays within the limit and within one length of now.
THEOREM LimiterTypeCorrect == Spec => []TypeOK
<1>1. IInv => TypeOK
  BY DEF IInv
<1> QED BY LimiterInvariant, <1>1, PTL

\* A map as large as PurgeAt holds windows of one length of time only.
THEOREM MapStaysBounded == Spec => []MapBounded
<1>1. IInv => MapBounded
  BY DEF IInv
<1> QED BY LimiterInvariant, <1>1, PTL

\* The Retry-After header of a 429 answer suffices (RetryAfterSuffices).
THEOREM RetryHintSuffices == Spec => []RetryAfterSuffices
<1>1. IInv => RetryAfterSuffices
  BY DEF IInv, TypeOK, WindowType, Promise, RetryAfterSuffices, Live, Expired
<1> QED BY LimiterInvariant, <1>1, PTL

-----------------------------------------------------------------------------
(* Twice the limit in a span as long as a window.                          *)

\* The requests that passed at p[1], p[2], ... passed in windows that opened at w[1],
\* w[2], ...: windows do not overlap and none lets more than Limit pass.
Apart(p, w) ==
    /\ DOMAIN w = DOMAIN p
    /\ \A i \in DOMAIN p : w[i] <= p[i] /\ p[i] <= w[i] + Window
    /\ \A i, j \in DOMAIN p : i < j => w[i] = w[j] \/ w[i] + Window < w[j]
    /\ \A i \in DOMAIN p : i + Limit \in DOMAIN p => w[i] # w[i + Limit]

\* The window win counts the newest of them, the others' had ended when it opened.
Counts(w, win) ==
    \A i \in DOMAIN w : IF i > Len(w) - win.count THEN w[i] + Window = win.resetAt
                        ELSE w[i] + Window < win.resetAt - Window

Past(w, t) == \A i \in DOMAIN w : w[i] + Window < t

OpenedAt(c, w) ==
    /\ Apart(passed[c], w)
    /\ Live(c) => Counts(w, hits[c])
    /\ ~Live(c) => Past(w, now)

Spans == \A c \in Clients : \E w \in Seq(Int) : OpenedAt(c, w)

\* Sequences by their elements, and one element longer.
LEMMA Elements ==
    ASSUME NEW S, NEW s \in Seq(S), NEW x \in S
    PROVE  /\ Len(s) \in Nat /\ DOMAIN s = 1 .. Len(s) /\ \A i \in 1 .. Len(s) : s[i] \in S
           /\ Append(s, x) \in Seq(S) /\ Len(Append(s, x)) = Len(s) + 1
           /\ DOMAIN Append(s, x) = 1 .. Len(s) + 1
           /\ \A i \in 1 .. Len(s) : Append(s, x)[i] = s[i]
           /\ Append(s, x)[Len(s) + 1] = x
<1>1. /\ Len(s) \in Nat /\ DOMAIN s = 1 .. Len(s) /\ Append(s, x) \in Seq(S)
      /\ Len(Append(s, x)) = Len(s) + 1
  BY LenProperties, AppendProperties
<1>2. DOMAIN Append(s, x) = 1 .. Len(s) + 1
  BY <1>1, LenProperties
<1>3. \A i \in 1 .. Len(s) : s[i] \in S
  BY <1>1, ElementOfSeq
<1> QED
  BY <1>1, <1>2, <1>3, AppendProperties

\* One more passes, in a new window or in the last one when it is not full.
LEMMA ApartGrows ==
    ASSUME NEW p \in Seq(Nat), NEW w \in Seq(Int), Apart(p, w),
           NEW x \in Nat, NEW t \in Int, t <= x, x <= t + Window,
           \A i \in DOMAIN w : w[i] = t \/ w[i] + Window < t,
           \A i \in DOMAIN w : i + Limit = Len(w) + 1 => w[i] # t
    PROVE  Apart(Append(p, x), Append(w, t))
<1> DEFINE n == Len(p)
           q == Append(p, x)
           v == Append(w, t)
<1>1. /\ n \in Nat /\ Len(w) = n /\ DOMAIN p = 1 .. n /\ DOMAIN w = 1 .. n
      /\ \A i \in 1 .. n : p[i] \in Nat /\ w[i] \in Int
  <2>1. Len(p) \in Nat /\ DOMAIN p = 1 .. Len(p) /\ \A i \in 1 .. Len(p) : p[i] \in Nat
    BY Elements
  <2>2. Len(w) \in Nat /\ DOMAIN w = 1 .. Len(w) /\ \A i \in 1 .. Len(w) : w[i] \in Int
    BY Elements
  <2> QED
    BY <2>1, <2>2 DEF Apart
<1>2. DOMAIN q = 1 .. n + 1 /\ q[n + 1] = x /\ \A i \in 1 .. n : q[i] = p[i]
  BY Elements
<1>3. DOMAIN v = 1 .. n + 1 /\ v[n + 1] = t /\ \A i \in 1 .. n : v[i] = w[i]
  BY <1>1, Elements
<1>4. \A i \in 1 .. n : w[i] <= p[i] /\ p[i] <= w[i] + Window
  BY <1>1 DEF Apart
<1>5. \A i, j \in 1 .. n : i < j => w[i] = w[j] \/ w[i] + Window < w[j]
  BY <1>1 DEF Apart
<1>6. \A i \in 1 .. n : i + Limit \in 1 .. n => w[i] # w[i + Limit]
  BY <1>1 DEF Apart
<1>7. Limit \in Nat \ {0} /\ Window \in Nat
  BY ConstantsOK
<1> HIDE DEF n, q, v
<1>8. \A i \in 1 .. n : (w[i] = t \/ w[i] + Window < t) /\ (i + Limit = n + 1 => w[i] # t)
  BY <1>1
<1>9. \A i \in 1 .. n + 1 : i \in 1 .. n \/ i = n + 1
  BY <1>1
<1>10. \A i \in DOMAIN q : v[i] <= q[i] /\ q[i] <= v[i] + Window
  BY <1>2, <1>3, <1>4, <1>9
<1>11. ASSUME NEW i \in 1 .. n + 1, NEW j \in 1 .. n + 1, i < j
       PROVE  v[i] = v[j] \/ v[i] + Window < v[j]
  <2>1. i \in 1 .. n
    BY <1>1, <1>11
  <2>2. CASE j = n + 1
    BY <1>3, <1>8, <2>1, <2>2
  <2>3. CASE j \in 1 .. n
    BY <1>3, <1>5, <1>11, <2>1, <2>3
  <2> QED
    BY <1>9, <2>2, <2>3
<1>12. ASSUME NEW i \in 1 .. n + 1, i + Limit \in 1 .. n + 1
       PROVE  v[i] # v[i + Limit]
  <2>1. i \in 1 .. n
    BY <1>1, <1>7, <1>12
  <2>2. CASE i + Limit = n + 1
    BY <1>3, <1>8, <2>1, <2>2
  <2>3. CASE i + Limit \in 1 .. n
    BY <1>3, <1>6, <2>1, <2>3
  <2> QED
    BY <1>9, <1>12, <2>2, <2>3
<1> QED
  BY <1>2, <1>3, <1>10, <1>11, <1>12 DEF Apart, q, v

\* A window that counts the newest counts one more.
LEMMA CountsGrow ==
    ASSUME NEW w \in Seq(Int), NEW t \in Int, NEW old \in [count : Nat, resetAt : Int],
           NEW new \in [count : Nat, resetAt : Int], old.resetAt = t + Window,
           new.count = old.count + 1, new.resetAt = old.resetAt, Counts(w, old)
    PROVE  Counts(Append(w, t), new)
<1> DEFINE n == Len(w)
           v == Append(w, t)
<1>1. /\ n \in Nat /\ DOMAIN w = 1 .. n /\ Len(v) = n + 1 /\ DOMAIN v = 1 .. n + 1
      /\ v[n + 1] = t /\ \A i \in 1 .. n : v[i] = w[i]
  BY Elements
<1> HIDE DEF v
<1>2. \A i \in 1 .. n : IF i > n - old.count THEN w[i] + Window = old.resetAt
                        ELSE w[i] + Window < old.resetAt - Window
  BY <1>1 DEF Counts
<1> HIDE DEF n
<1>3. \A i \in 1 .. n + 1 : i \in 1 .. n \/ i = n + 1
  BY <1>1
<1>4. n + 1 - new.count = n - old.count /\ n + 1 > n - old.count
  <2>1. old.count \in Nat /\ new.count = old.count + 1
    OBVIOUS
  <2> QED
    BY <1>1, <2>1
<1> QED
  BY <1>1, <1>2, <1>3, <1>4 DEF Counts, v

\* A window that opens counts the one that opened it.
LEMMA CountsFresh ==
    ASSUME NEW w \in Seq(Int), NEW t \in Int, NEW new \in [count : Nat, resetAt : Int],
           new.count = 1, new.resetAt = t + Window, Past(w, t)
    PROVE  Counts(Append(w, t), new)
<1> DEFINE n == Len(w)
           v == Append(w, t)
<1>1. /\ n \in Nat /\ DOMAIN w = 1 .. n /\ Len(v) = n + 1 /\ DOMAIN v = 1 .. n + 1
      /\ v[n + 1] = t /\ \A i \in 1 .. n : v[i] = w[i] /\ w[i] \in Int
  BY Elements
<1>2. \A i \in 1 .. n : w[i] + Window < t
  BY <1>1 DEF Past
<1>3. Window \in Nat /\ \A i \in 1 .. n + 1 : i \in 1 .. n \/ i = n + 1
  BY <1>1, ConstantsOK
<1> HIDE DEF n, v
<1> QED
  BY <1>1, <1>2, <1>3 DEF Counts, v, n

\* The values of a client, typed.
LEMMA Times ==
    ASSUME TypeOK, NEW c \in Clients
    PROVE  /\ passed[c] \in Seq(Nat) /\ now \in Nat /\ Limit \in Nat \ {0} /\ Window \in Nat \ {0}
           /\ c \in DOMAIN hits =>
               /\ hits[c].count \in Nat \ {0} /\ hits[c].count <= Limit
               /\ hits[c].resetAt \in Nat /\ hits[c].resetAt <= now + Window
<1>1. passed[c] \in Seq(0 .. MaxNow) /\ 0 .. MaxNow \subseteq Nat
  BY ConstantsOK DEF TypeOK
<1>2. passed[c] \in Seq(Nat)
  BY <1>1, SeqMonotonic
<1> QED
  BY <1>2, ConstantsOK DEF TypeOK, WindowType

\* In windows that do not overlap, whoever comes 2 * Limit requests later comes late.
LEMMA SpansSuffice == TypeOK /\ Spans => AtMostTwiceLimit
<1> SUFFICES ASSUME TypeOK, Spans, NEW c \in Clients, NEW i \in DOMAIN passed[c],
                    i + 2 * Limit \in DOMAIN passed[c]
             PROVE  passed[c][i + 2 * Limit] > passed[c][i] + Window
  BY DEF AtMostTwiceLimit
<1> DEFINE p == passed[c]
           n == Len(p)
           k == i + 2 * Limit
<1>1. PICK w \in Seq(Int) : Apart(p, w)
  BY DEF Spans, OpenedAt
<1>2. p \in Seq(Nat) /\ Limit \in Nat \ {0} /\ Window \in Nat
  BY Times
<1>3. n \in Nat /\ DOMAIN p = 1 .. n /\ \A x \in 1 .. n : p[x] \in Nat
  BY <1>2, Elements
<1>4. \A x \in DOMAIN w : w[x] \in Int
  BY Elements
<1>5. DOMAIN w = 1 .. n
  BY <1>1, <1>3 DEF Apart
<1> HIDE DEF p, n
<1>6. i \in 1 .. n /\ k \in 1 .. n
  BY <1>3 DEF p
<1>7. i + Limit \in 1 .. n /\ i < i + Limit /\ i + Limit < k /\ k = i + Limit + Limit
  BY <1>2, <1>3, <1>6
<1> HIDE DEF k
<1>8. w[i] + Window < w[i + Limit] /\ w[i + Limit] + Window < w[k]
  BY <1>1, <1>3, <1>6, <1>7 DEF Apart
<1>9. p[i] <= w[i] + Window /\ w[k] <= p[k]
  BY <1>1, <1>3, <1>6 DEF Apart
<1>10. p[i] \in Int /\ p[k] \in Int /\ w[i] \in Int /\ w[i + Limit] \in Int /\ w[k] \in Int
  BY <1>3, <1>4, <1>5, <1>6, <1>7
<1>11. \A a, b, d, f, g \in Int :
          a <= b + Window /\ b + Window < d /\ d + Window < f /\ f <= g => g > a + Window
  BY <1>2
<1>12. p[k] > p[i] + Window
  BY <1>8, <1>9, <1>10, <1>11
<1> QED
  BY <1>12 DEF p, k

\* Who is not let pass by the step: its windows stay, and lie in the past once the map
\* holds none that is live.
LEMMA SpansKept ==
    ASSUME TypeOK, NEW c \in Clients, NEW w \in Seq(Int), OpenedAt(c, w), passed'[c] = passed[c],
           now' \in Nat, now <= now',
           Live(c)' => Live(c) /\ hits'[c] = hits[c],
           Live(c) /\ ~Live(c)' => hits[c].resetAt < now'
    PROVE  OpenedAt(c, w)'
<1>1. \A i \in DOMAIN w : w[i] \in Int
  BY Elements
<1>2. (Apart(passed[c], w))'
  BY DEF OpenedAt, Apart
<1>3. CASE Live(c)'
  BY <1>2, <1>3 DEF OpenedAt, Counts
<1>4. CASE ~Live(c)' /\ Live(c)
  <2>1. hits[c].resetAt \in Nat /\ Window \in Nat
    BY <1>4, Times DEF Live
  <2>2. \A i \in DOMAIN w : w[i] + Window <= hits[c].resetAt
    <3>1. \A i \in DOMAIN w : w[i] + Window = hits[c].resetAt
                               \/ w[i] + Window < hits[c].resetAt - Window
      BY <1>4 DEF OpenedAt, Counts
    <3> QED
      BY <1>1, <2>1, <3>1
  <2>3. \A i \in DOMAIN w : w[i] + Window < now'
    BY <1>1, <1>4, <2>1, <2>2
  <2> QED
    BY <1>2, <1>4, <2>3 DEF OpenedAt, Past
<1>5. CASE ~Live(c)' /\ ~Live(c)
  <2>1. \A i \in DOMAIN w : w[i] + Window < now'
    BY <1>1, <1>5, Times DEF OpenedAt, Past
  <2> QED
    BY <1>2, <1>5, <2>1 DEF OpenedAt, Past
<1> QED
  BY <1>3, <1>4, <1>5

\* Every step keeps the windows apart and within the limit.
LEMMA SpansStep == TypeOK /\ Spans /\ [Next]_vars => Spans'
<1> SUFFICES ASSUME TypeOK, Spans, [Next]_vars, NEW e \in Clients
             PROVE  \E w \in Seq(Int) : OpenedAt(e, w)'
  BY DEF Spans
<1>0. PICK w \in Seq(Int) : OpenedAt(e, w)
  BY DEF Spans
<1>01. /\ passed[e] \in Seq(Nat) /\ now \in Nat /\ Limit \in Nat \ {0} /\ Window \in Nat \ {0}
       /\ DOMAIN w = 1 .. Len(w) /\ Len(w) \in Nat /\ \A i \in DOMAIN w : w[i] \in Int
       /\ Apart(passed[e], w)
  BY <1>0, Times, Elements DEF OpenedAt
<1>1. CASE Tick \/ UNCHANGED vars
  <2>1. now' \in Nat /\ now <= now' /\ hits' = hits /\ passed' = passed
    BY <1>1, <1>01 DEF Tick, vars
  <2>2. Live(e)' => Live(e)
    BY <1>01, <2>1, Times DEF Live, Expired
  <2>3. Live(e) /\ ~Live(e)' => hits[e].resetAt < now'
    BY <2>1, Times DEF Live, Expired
  <2> QED
    BY <1>0, <2>1, <2>2, <2>3, SpansKept
<1>2. ASSUME NEW c \in Clients, Refuse(c)
      PROVE  \E x \in Seq(Int) : OpenedAt(e, x)'
  <2>1. now' = now /\ hits' = hits /\ passed' = passed
    BY <1>2 DEF Refuse
  <2>2. Live(e)' <=> Live(e)
    BY <2>1 DEF Live, Expired
  <2> QED
    BY <1>0, <1>01, <2>1, <2>2, SpansKept
<1>3. ASSUME NEW c \in Clients, AllowFresh(c), c # e
      PROVE  \E x \in Seq(Int) : OpenedAt(e, x)'
  <2>1. passed'[e] = passed[e] /\ now' = now
    BY <1>3, LetPassTyped DEF AllowFresh
  <2>2. (Live(e)' => Live(e) /\ hits'[e] = hits[e]) /\ (Live(e) => Live(e)')
    BY <1>3, <2>1, FreshHits DEF Live, Expired
  <2> QED
    BY <1>0, <1>01, <2>1, <2>2, SpansKept
<1>4. ASSUME AllowFresh(e)
      PROVE  \E x \in Seq(Int) : OpenedAt(e, x)'
  <2>0. PICK x : x = Append(w, now)
    OBVIOUS
  <2>1. passed'[e] = Append(passed[e], now) /\ now' = now /\ Past(w, now)
    BY <1>0, <1>4, LetPassTyped DEF AllowFresh, OpenedAt
  <2>2. e \in DOMAIN hits' /\ hits'[e].count = 1 /\ hits'[e].resetAt = now + Window
    BY <1>4, FreshHits
  <2>3. Live(e)'
    BY <1>01, <2>1, <2>2 DEF Live, Expired
  <2>4. Counts(x, hits'[e])
    <3>1. hits'[e] \in [count : Nat, resetAt : Int]
      BY <1>4, FreshHits, <1>01
    <3>2. now \in Int
      BY <1>01
    <3> QED
      BY <2>0, <2>1, <2>2, <3>1, <3>2, CountsFresh
  <2>5. \A i \in DOMAIN w : w[i] + Window < now /\ w[i] # now
    BY <1>01, <2>1 DEF Past
  <2>6. Apart(Append(passed[e], now), x)
    <3>1. now <= now + Window /\ now \in Int
      BY <1>01
    <3>2. \A i \in DOMAIN w : w[i] = now \/ w[i] + Window < now
      BY <2>5
    <3>3. \A i \in DOMAIN w : i + Limit = Len(w) + 1 => w[i] # now
      BY <2>5
    <3>4. now <= now
      BY <1>01
    <3> QED
      BY <1>01, <2>0, <3>1, <3>2, <3>3, <3>4, ApartGrows
  <2>7. x \in Seq(Int)
    BY <1>01, <2>0, Elements
  <2>8. OpenedAt(e, x)'
    BY <2>1, <2>3, <2>4, <2>6 DEF OpenedAt, Apart, Counts
  <2> QED
    BY <2>7, <2>8
<1>5. ASSUME NEW c \in Clients, AllowMore(c), c # e
      PROVE  \E x \in Seq(Int) : OpenedAt(e, x)'
  <2>1. passed'[e] = passed[e] /\ now' = now
    BY <1>5, LetPassTyped DEF AllowMore
  <2>2. (Live(e)' <=> Live(e)) /\ (Live(e) => hits'[e] = hits[e])
    BY <1>5, <2>1 DEF Live, Expired, AllowMore
  <2> QED
    BY <1>0, <1>01, <2>1, <2>2, SpansKept
<1>6. ASSUME AllowMore(e)
      PROVE  \E x \in Seq(Int) : OpenedAt(e, x)'
  <2>0. PICK t, x : t = hits[e].resetAt - Window /\ x = Append(w, t)
    OBVIOUS
  <2>1. /\ passed'[e] = Append(passed[e], now) /\ now' = now
        /\ Live(e) /\ ~Full(hits[e]) /\ Counts(w, hits[e])
    BY <1>0, <1>6, LetPassTyped DEF AllowMore, OpenedAt
  <2>2. hits[e] \in WindowType /\ hits' = [hits EXCEPT ![e].count = @ + 1] /\ e \in DOMAIN hits
    BY <1>6 DEF AllowMore, Live, TypeOK
  <2>3. /\ e \in DOMAIN hits' /\ hits'[e].count = hits[e].count + 1
        /\ hits'[e].resetAt = hits[e].resetAt
    BY <2>2 DEF WindowType
  <2>4. Live(e)' /\ now <= hits[e].resetAt
    BY <1>01, <2>1, <2>2, <2>3, Times DEF Live, Expired
  <2>5. /\ t \in Int /\ t <= now /\ now <= t + Window /\ hits[e].resetAt = t + Window
        /\ hits[e].count \in Nat /\ hits[e].count < Limit
    <3>1. hits[e].count \in Nat /\ hits[e].count < Limit
      BY <1>01, <2>1, <2>2, Times DEF Full
    <3>2. hits[e].resetAt \in Nat /\ hits[e].resetAt <= now + Window
      BY <2>2, Times
    <3> QED
      BY <1>01, <2>0, <2>4, <3>1, <3>2
  <2>6. Counts(x, hits'[e])
    <3>1. hits[e] \in [count : Nat, resetAt : Int] /\ hits'[e] \in [count : Nat, resetAt : Int]
      BY <2>2 DEF WindowType
    <3> QED
      BY <2>0, <2>1, <2>3, <2>5, <3>1, CountsGrow
  <2>7. \A i \in DOMAIN w : IF i > Len(w) - hits[e].count THEN w[i] = t ELSE w[i] + Window < t
    <3>1. \A i \in DOMAIN w : IF i > Len(w) - hits[e].count THEN w[i] + Window = t + Window
                               ELSE w[i] + Window < (t + Window) - Window
      BY <2>1, <2>5 DEF Counts
    <3> QED
      BY <1>01, <2>5, <3>1
  <2>8. \A i \in DOMAIN w : w[i] = t \/ w[i] + Window < t
    BY <2>7
  <2>9. \A i \in DOMAIN w : i + Limit = Len(w) + 1 => w[i] # t
    <3>1. \A i \in DOMAIN w : i + Limit = Len(w) + 1 => ~(i > Len(w) - hits[e].count)
      BY <1>01, <2>5
    <3>2. \A i \in DOMAIN w : w[i] + Window < t => w[i] # t
      BY <1>01, <2>5
    <3> QED
      BY <2>7, <3>1, <3>2
  <2>10. Apart(Append(passed[e], now), x)
    BY <1>01, <2>0, <2>5, <2>8, <2>9, ApartGrows
  <2>11. x \in Seq(Int)
    BY <2>0, <2>5, Elements
  <2>12. OpenedAt(e, x)'
    BY <2>1, <2>4, <2>6, <2>10 DEF OpenedAt, Apart, Counts
  <2> QED
    BY <2>11, <2>12
<1> QED
  BY <1>1, <1>2, <1>3, <1>4, <1>5, <1>6 DEF Next, Allow

\* In no span as long as a window do more than twice Limit requests of one client pass.
THEOREM ThrottleHolds == Spec => []AtMostTwiceLimit
<1>1. Init => Spans
  <2> SUFFICES ASSUME Init, NEW c \in Clients PROVE OpenedAt(c, <<>>)
    BY EmptySeq DEF Spans
  <2> QED
    BY EmptySeq DEF OpenedAt, Apart, Counts, Past, Init
<1>2. TypeOK /\ Spans /\ [Next]_vars => Spans'
  BY SpansStep
<1> QED
  BY <1>1, <1>2, LimiterTypeCorrect, SpansSuffice, PTL DEF Spec

-----------------------------------------------------------------------------
(* The refinement of FixedWindow.                                          *)

Win == [c \in Clients |-> IF Live(c) THEN hits[c] ELSE [count |-> 0, resetAt |-> -1]]

\* The map starts without an open window.
LEMMA FixedInit == Init => Fixed!Init
  BY DEF Init, Fixed!Init, Live, Fixed!Closed

\* Every step opens, counts or closes windows as FixedWindow does, or leaves them.
LEMMA FixedStep == TypeOK /\ [Next]_vars => [Fixed!Next]_(Fixed!vars)
<1> SUFFICES ASSUME TypeOK, [Next]_vars
             PROVE  [Fixed!Next]_(Fixed!vars)
  OBVIOUS
<1> USE DEF Fixed!Closed
<1>1. CASE Tick
  <2>1. now' = now + 1 /\ hits' = hits /\ now \in Nat
    BY <1>1 DEF Tick, TypeOK
  <2>2. ASSUME NEW c \in Clients
        PROVE  Win'[c] = IF now + 1 > Win[c].resetAt THEN Fixed!Closed ELSE Win[c]
    BY <2>1, <2>2 DEF Win, Live, Expired, TypeOK, WindowType
  <2>3. Win' = [c \in Clients |-> IF now + 1 > Win[c].resetAt THEN Fixed!Closed ELSE Win[c]]
    BY <2>2 DEF Win
  <2>4. Fixed!Tick
    BY <2>1, <2>3 DEF Fixed!Tick, Win
  <2> QED BY <2>4 DEF Fixed!Next
<1>2. ASSUME NEW c \in Clients, AllowFresh(c)
      PROVE  Fixed!Pass(c)
  <2>1. now' = now /\ now \in Nat /\ Win[c] = Fixed!Closed
    BY <1>2 DEF AllowFresh, TypeOK, Win
  <2>2. Win'[c] = [count |-> 1, resetAt |-> now + Window]
    <3>1. c \in DOMAIN hits' /\ hits'[c] = [count |-> 1, resetAt |-> now + Window]
      BY <1>2, FreshHits
    <3> QED BY <2>1, <3>1, ConstantsOK DEF Win, Live, Expired
  <2>3. ASSUME NEW d \in Clients, d # c
        PROVE  Win'[d] = Win[d]
    BY <1>2, <2>1, <2>3, FreshHits DEF Win, Live, Expired
  <2>4. Win' = [Win EXCEPT ![c] = [count |-> 1, resetAt |-> now + Window]]
    BY <2>2, <2>3 DEF Win
  <2> QED BY <2>1, <2>4 DEF Fixed!Pass, Win
<1>3. ASSUME NEW c \in Clients, AllowMore(c)
      PROVE  Fixed!Pass(c)
  <2>1. /\ now' = now /\ Win[c] = hits[c] /\ hits[c] \in WindowType
        /\ hits[c].count < Limit
        /\ hits' = [hits EXCEPT ![c].count = @ + 1] /\ c \in DOMAIN hits
    BY <1>3, ConstantsOK DEF AllowMore, Live, Full, TypeOK, Win, WindowType
  <2>2. \A d \in Clients : Live(d)' <=> Live(d)
    BY <2>1 DEF Live, Expired, WindowType
  <2>3. Win' = [Win EXCEPT ![c].count = @ + 1]
    <3>1. Win'[c] = [Win[c] EXCEPT !.count = @ + 1]
      BY <1>3, <2>1, <2>2 DEF Win, AllowMore
    <3>2. \A d \in Clients : d # c => Win'[d] = Win[d]
      BY <2>1, <2>2 DEF Win
    <3> QED BY <3>1, <3>2 DEF Win
  <2>4. Win[c] # Fixed!Closed
    BY <2>1 DEF WindowType
  <2> QED BY <2>1, <2>3, <2>4 DEF Fixed!Pass, Win
<1>4. CASE hits' = hits /\ now' = now
  BY <1>4 DEF Fixed!vars, Live, Expired
<1> QED BY <1>1, <1>2, <1>3, <1>4 DEF Next, Allow, Refuse, vars, Fixed!Next

\* The lazily purged map behaves as one fixed window for each client: purging loses
\* no count, and expired windows left in the map refuse nobody.
THEOREM ImplementsWindows == Spec => ImplementsFixedWindow
<1> QED BY LimiterTypeCorrect, FixedInit, FixedStep, PTL DEF Spec, Fixed!Spec, ImplementsFixedWindow
=============================================================================
