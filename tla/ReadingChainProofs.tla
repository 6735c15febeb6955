------------------------- MODULE ReadingChainProofs -------------------------
(***************************************************************************)
(* Proofs about ReadingChain, for every set of organizations and writers   *)
(* and every assignment of lock keys: type correctness, that the advisory  *)
(* lock alone keeps the chain linked and its unique index unviolated, and  *)
(* that the table implements an append-only log.                           *)
(***************************************************************************)
EXTENDS ReadingChain, FiniteSetTheorems, SequenceTheorems, TLAPS

-----------------------------------------------------------------------------
(* The end of a chain whose numbers are 1 to n.                            *)

\* The largest number of 1..n is n.
LEMMA MaxOfInterval ==
    ASSUME NEW n \in Nat, n # 0
    PROVE  Max(1 .. n) = n
<1>1. n \in 1 .. n /\ \A y \in 1 .. n : n >= y
  OBVIOUS
<1>2. \A x \in 1 .. n : (\A y \in 1 .. n : x >= y) => x = n
  OBVIOUS
<1> QED BY <1>1, <1>2 DEF Max

\* ChainTail of a chain numbered 1 to n is its n-th row, or the empty tail.
LEMMA TailOfInterval ==
    ASSUME NEW chain, NEW n \in Nat, DOMAIN chain = 1 .. n
    PROVE  /\ ChainTail(chain).seq = n
           /\ ChainTail(chain).hash = IF n = 0 THEN NoHash ELSE chain[n].hash
<1>1. CASE n = 0
  <2>1. DOMAIN chain = {}
    BY <1>1
  <2> QED BY <1>1, <2>1 DEF ChainTail
<1>2. CASE n # 0
  <2>1. DOMAIN chain # {}
    <3>1. 1 \in 1 .. n
      BY <1>2
    <3> QED BY <3>1
  <2>2. Max(DOMAIN chain) = n
    BY <1>2, MaxOfInterval
  <2> QED BY <1>2, <2>1, <2>2 DEF ChainTail
<1> QED BY <1>1, <1>2

-----------------------------------------------------------------------------
(* The inductive invariant. A writer past AcquireLock holds the lock of    *)
(* its organization (Locked); so nobody else commits there and the tail it *)
(* read stays the end of the chain (TailFresh); so the row it commits is   *)
(* the next link (Chained) and its number is free (NoConflict).            *)

Locked ==
    \A w \in Writers :
        pc[w] \in {"tail", "insert", "commit"} => lock[LockKey[req[w].org]] = w

Linked(chain, n) ==
    /\ DOMAIN chain = 1 .. n
    /\ \A s \in 1 .. n : chain[s].prev = IF s = 1 THEN NoHash ELSE chain[s - 1].hash

Chained == \A o \in Orgs : \E n \in Nat : Linked(rows[o], n)

IInv == TypeOK /\ Locked /\ TailFresh /\ Chained /\ NoConflict

-----------------------------------------------------------------------------
(* Type correctness.                                                       *)

\* An insert adds a well-typed row under a positive number.
LEMMA CommitTypes ==
    ASSUME TypeOK, NEW w \in Writers, Commit(w)
    PROVE  /\ DOMAIN rows' = Orgs
           /\ \A o \in Orgs :
                /\ DOMAIN rows'[o] \subseteq Nat \ {0}
                /\ \A s \in DOMAIN rows'[o] : Entry(rows'[o][s]) \in Entries
<1> DEFINE u == req[w].org
           k == NextSeq(w)
<1>1. req[w] \in Request /\ u \in Orgs
  BY DEF TypeOK, Commit, Request
<1>2. k \in Nat \ {0}
  BY DEF TypeOK, NextSeq
<1>3. rows' = [rows EXCEPT ![u] = [s \in DOMAIN rows[u] \cup {k} |->
                                     IF s = k THEN NewRow(w) ELSE rows[u][s]]]
  BY DEF Commit
<1>4. Entry(NewRow(w)) \in Entries
  BY <1>1 DEF Entry, NewRow, Entries, StoredTemps, Request
<1>5. DOMAIN rows' = Orgs
  BY <1>3 DEF TypeOK
<1>6. ASSUME NEW o \in Orgs
      PROVE  /\ DOMAIN rows'[o] \subseteq Nat \ {0}
             /\ \A s \in DOMAIN rows'[o] : Entry(rows'[o][s]) \in Entries
  <2>1. CASE o = u
    <3>1. rows'[o] = [s \in DOMAIN rows[u] \cup {k} |->
                        IF s = k THEN NewRow(w) ELSE rows[u][s]]
      BY <1>1, <1>3, <2>1 DEF TypeOK
    <3>2. DOMAIN rows'[o] = DOMAIN rows[u] \cup {k}
      BY <3>1
    <3>3. \A s \in DOMAIN rows'[o] :
            rows'[o][s] = IF s = k THEN NewRow(w) ELSE rows[u][s]
      BY <3>1, <3>2
    <3>4. \A s \in DOMAIN rows[u] : s \in Nat \ {0} /\ Entry(rows[u][s]) \in Entries
      BY <1>1 DEF TypeOK
    <3> HIDE DEF u, k
    <3> QED BY <3>2, <3>3, <3>4, <1>2, <1>4, Zenon
  <2>2. CASE o # u
    <3>1. rows'[o] = rows[o]
      BY <1>1, <1>3, <2>2 DEF TypeOK
    <3> QED BY <3>1 DEF TypeOK
  <2> QED BY <2>1, <2>2
<1> QED BY <1>5, <1>6

\* Every step keeps the types.
LEMMA TypeStep == TypeOK /\ Chained /\ [Next]_vars => TypeOK'
<1> SUFFICES ASSUME TypeOK, Chained, [Next]_vars
             PROVE  TypeOK'
  OBVIOUS
<1> USE ConstantsOK
<1>1. ASSUME NEW w \in Writers, EndTransaction(w)
      PROVE  /\ lock' \in [LockKeys -> Writers \cup {NoWriter}]
             /\ pc' \in [Writers -> Pcs]
             /\ req' \in [Writers -> Request \cup {NoRequest}]
             /\ \A v \in Writers : pc'[v] # "idle" => req'[v] \in Request
             /\ DOMAIN tail' = Writers
             /\ \A v \in Writers : tail'[v].seq \in Nat
  BY <1>1 DEF TypeOK, EndTransaction, ReleaseLocks, Pcs, NoTail
<1>2. ASSUME NEW w \in Writers, Begin(w)
      PROVE  TypeOK'
  BY <1>2 DEF TypeOK, Begin, Pcs
<1>3. ASSUME NEW w \in Writers, AcquireLock(w)
      PROVE  TypeOK'
  BY <1>3 DEF TypeOK, AcquireLock, Pcs
<1>4. ASSUME NEW w \in Writers, ReadTail(w)
      PROVE  TypeOK'
  <2>1. req[w].org \in Orgs
    BY <1>4 DEF TypeOK, ReadTail, Request
  <2>2. PICK n \in Nat : DOMAIN rows[req[w].org] = 1 .. n
    BY <2>1 DEF Chained, Linked
  <2>3. ChainTail(rows[req[w].org]).seq \in Nat
    BY <2>2, TailOfInterval
  <2> QED BY <1>4, <2>3 DEF TypeOK, ReadTail, Pcs
<1>5. ASSUME NEW w \in Writers, Insert(w)
      PROVE  TypeOK'
  BY <1>5 DEF TypeOK, Insert, Pcs
<1>6. ASSUME NEW w \in Writers, Commit(w)
      PROVE  TypeOK'
  BY <1>1, <1>6, CommitTypes DEF TypeOK, Commit
<1>7. ASSUME NEW w \in Writers, Rollback(w)
      PROVE  TypeOK'
  BY <1>1, <1>7 DEF TypeOK, Rollback
<1>8. CASE UNCHANGED vars
  BY <1>8 DEF TypeOK, vars
<1> QED BY <1>2, <1>3, <1>4, <1>5, <1>6, <1>7, <1>8 DEF Next, Step, Quiescent

-----------------------------------------------------------------------------
(* Mutual exclusion and the chain.                                         *)

\* Every step keeps the locks with the writers that are past AcquireLock.
LEMMA LockedStep == IInv /\ [Next]_vars => Locked'
<1> SUFFICES ASSUME IInv, [Next]_vars
             PROVE  Locked'
  OBVIOUS
<1> USE ConstantsOK DEF IInv
<1>0. \A v \in Writers : pc[v] # "idle" =>
          req[v].org \in Orgs /\ LockKey[req[v].org] \in LockKeys
  BY DEF TypeOK, Request, LockKeys
<1>1. ASSUME NEW w \in Writers, EndTransaction(w)
      PROVE  Locked'
  BY <1>0, <1>1 DEF EndTransaction, ReleaseLocks, Locked, TypeOK
<1>2. ASSUME NEW w \in Writers, Begin(w)
      PROVE  Locked'
  BY <1>2 DEF Begin, Locked, TypeOK
<1>3. ASSUME NEW w \in Writers, AcquireLock(w)
      PROVE  Locked'
  BY <1>0, <1>3 DEF AcquireLock, LockFree, Locked, TypeOK
<1>4. ASSUME NEW w \in Writers, ReadTail(w)
      PROVE  Locked'
  BY <1>4 DEF ReadTail, Locked, TypeOK
<1>5. ASSUME NEW w \in Writers, Insert(w)
      PROVE  Locked'
  BY <1>5 DEF Insert, Locked, TypeOK
<1>6. CASE UNCHANGED vars
  BY <1>6 DEF Locked, vars
<1> QED BY <1>1, <1>2, <1>3, <1>4, <1>5, <1>6 DEF Next, Step, Quiescent, Commit, Rollback

\* Two writers past AcquireLock work on different organizations.
LEMMA Exclusion ==
    ASSUME IInv, NEW v \in Writers, NEW w \in Writers, v # w,
           pc[v] \in {"tail", "insert", "commit"}, pc[w] \in {"tail", "insert", "commit"}
    PROVE  req[v].org # req[w].org
  BY DEF IInv, Locked

\* What a commit does to the chains: the committed row is the next link of its
\* organization's chain, the other chains stay.
LEMMA CommitExtends ==
    ASSUME IInv, NEW w \in Writers, Commit(w)
    PROVE  /\ req[w].org \in Orgs
           /\ \A o \in Orgs \ {req[w].org} : rows'[o] = rows[o]
           /\ \E n \in Nat :
                /\ Linked(rows[req[w].org], n)
                /\ NextSeq(w) = n + 1
                /\ DOMAIN rows'[req[w].org] = 1 .. (n + 1)
                /\ \A s \in 1 .. n : rows'[req[w].org][s] = rows[req[w].org][s]
                /\ rows'[req[w].org][n + 1] = NewRow(w)
                /\ NewRow(w).prev = IF n = 0 THEN NoHash ELSE rows[req[w].org][n].hash
<1> DEFINE u == req[w].org
           k == NextSeq(w)
<1>1. u \in Orgs
  BY DEF IInv, TypeOK, Commit, Request
<1>2. PICK n \in Nat : Linked(rows[u], n)
  BY <1>1 DEF IInv, Chained
<1>3. /\ ChainTail(rows[u]).seq = n
      /\ ChainTail(rows[u]).hash = IF n = 0 THEN NoHash ELSE rows[u][n].hash
  BY <1>2, TailOfInterval DEF Linked
<1>4. tail[w] = ChainTail(rows[u])
  BY DEF IInv, TailFresh, Commit
<1>5. k = n + 1
  BY <1>3, <1>4 DEF NextSeq
<1>6. rows' = [rows EXCEPT ![u] = [s \in DOMAIN rows[u] \cup {k} |->
                                     IF s = k THEN NewRow(w) ELSE rows[u][s]]]
  BY DEF Commit
<1>7. \A o \in Orgs \ {u} : rows'[o] = rows[o]
  BY <1>6 DEF IInv, TypeOK
<1>8. rows'[u] = [s \in DOMAIN rows[u] \cup {k} |->
                    IF s = k THEN NewRow(w) ELSE rows[u][s]]
  BY <1>1, <1>6 DEF IInv, TypeOK
<1>9. DOMAIN rows[u] \cup {k} = 1 .. (n + 1)
  BY <1>2, <1>5 DEF Linked
<1>10. DOMAIN rows'[u] = 1 .. (n + 1)
  BY <1>8, <1>9
<1>11. \A s \in 1 .. n : rows'[u][s] = rows[u][s]
  <2>1. \A s \in 1 .. n : s \in 1 .. (n + 1) /\ s # k
    BY <1>5
  <2> HIDE DEF u, k
  <2> QED BY <2>1, <1>8, <1>9
<1>12. rows'[u][n + 1] = NewRow(w)
  <2>1. n + 1 \in 1 .. (n + 1)
    OBVIOUS
  <2> HIDE DEF u, k
  <2> QED BY <2>1, <1>5, <1>8, <1>9
<1>13. NewRow(w).prev = IF n = 0 THEN NoHash ELSE rows[u][n].hash
  BY <1>3, <1>4 DEF NewRow
<1> QED BY <1>1, <1>2, <1>5, <1>7, <1>10, <1>11, <1>12, <1>13

\* Every step keeps the chains linked.
LEMMA ChainedStep == IInv /\ [Next]_vars => Chained'
<1> SUFFICES ASSUME IInv, [Next]_vars
             PROVE  Chained'
  OBVIOUS
<1>1. ASSUME NEW w \in Writers, Commit(w), NEW o \in Orgs
      PROVE  \E n \in Nat : Linked(rows'[o], n)
  <2>1. CASE o = req[w].org
    <3>1. PICK n \in Nat :
                /\ Linked(rows[o], n)
                /\ DOMAIN rows'[o] = 1 .. (n + 1)
                /\ \A s \in 1 .. n : rows'[o][s] = rows[o][s]
                /\ rows'[o][n + 1].prev = IF n = 0 THEN NoHash ELSE rows[o][n].hash
      BY <1>1, <2>1, CommitExtends
    <3>2. ASSUME NEW s \in 1 .. (n + 1)
          PROVE  rows'[o][s].prev = IF s = 1 THEN NoHash ELSE rows'[o][s - 1].hash
      <4>1. CASE s = n + 1
        BY <3>1, <4>1
      <4>2. CASE s \in 1 .. n
        <5>1. s # 1 => s - 1 \in 1 .. n
          BY <4>2
        <5> QED BY <3>1, <4>2, <5>1 DEF Linked
      <4> QED BY <4>1, <4>2
    <3>3. Linked(rows'[o], n + 1)
      BY <3>1, <3>2 DEF Linked
    <3> QED BY <3>3
  <2>2. CASE o # req[w].org
    BY <1>1, <2>2, CommitExtends DEF IInv, Chained
  <2> QED BY <2>1, <2>2
<1>2. ASSUME UNCHANGED rows
      PROVE  Chained'
  BY <1>2 DEF IInv, Chained
<1> QED BY <1>1, <1>2 DEF Chained, Next, Step, Begin, AcquireLock, ReadTail, Insert,
                          Rollback, Quiescent, vars

\* Every step keeps what the writers read of the tails true.
LEMMA TailFreshStep == IInv /\ [Next]_vars => TailFresh'
<1> SUFFICES ASSUME IInv, [Next]_vars
             PROVE  TailFresh'
  OBVIOUS
<1>1. ASSUME NEW w \in Writers, Commit(w)
      PROVE  TailFresh'
  <2> SUFFICES ASSUME NEW v \in Writers, pc'[v] \in {"insert", "commit"}
               PROVE  tail'[v] = ChainTail(rows'[req'[v].org])
    BY DEF TailFresh
  <2>1. v # w /\ pc'[v] = pc[v] /\ req'[v] = req[v] /\ tail'[v] = tail[v]
    BY <1>1 DEF Commit, EndTransaction, IInv, TypeOK
  <2>2. req[v].org # req[w].org
    BY <1>1, <2>1, Exclusion DEF Commit
  <2>3. req[v].org \in Orgs
    BY <2>1 DEF IInv, TypeOK, Request
  <2>4. rows'[req[v].org] = rows[req[v].org]
    BY <1>1, <2>2, <2>3, CommitExtends
  <2> QED BY <2>1, <2>4 DEF IInv, TailFresh
<1>2. ASSUME NEW w \in Writers, Rollback(w)
      PROVE  TailFresh'
  BY <1>2 DEF Rollback, EndTransaction, IInv, TypeOK, TailFresh
<1>3. ASSUME NEW w \in Writers, Begin(w)
      PROVE  TailFresh'
  BY <1>3 DEF Begin, IInv, TypeOK, TailFresh
<1>4. ASSUME NEW w \in Writers, AcquireLock(w)
      PROVE  TailFresh'
  BY <1>4 DEF AcquireLock, IInv, TypeOK, TailFresh
<1>5. ASSUME NEW w \in Writers, ReadTail(w)
      PROVE  TailFresh'
  BY <1>5 DEF ReadTail, IInv, TypeOK, TailFresh
<1>6. ASSUME NEW w \in Writers, Insert(w)
      PROVE  TailFresh'
  BY <1>6 DEF Insert, IInv, TypeOK, TailFresh
<1>7. CASE UNCHANGED vars
  BY <1>7 DEF IInv, TailFresh, vars
<1> QED BY <1>1, <1>2, <1>3, <1>4, <1>5, <1>6, <1>7 DEF Next, Step, Quiescent

\* No step meets the unique index: the number after a fresh tail is free.
LEMMA NoConflictStep == IInv /\ [Next]_vars => NoConflict'
<1> SUFFICES ASSUME IInv, [Next]_vars
             PROVE  NoConflict'
  OBVIOUS
<1>1. ASSUME NEW w \in Writers, Insert(w)
      PROVE  NoConflict'
  <2>1. req[w].org \in Orgs
    BY <1>1 DEF IInv, TypeOK, Insert, Request
  <2>2. PICK n \in Nat : DOMAIN rows[req[w].org] = 1 .. n
    BY <2>1 DEF IInv, Chained, Linked
  <2>3. tail[w].seq = n
    BY <1>1, <2>2, TailOfInterval DEF IInv, TailFresh, Insert
  <2>4. NextSeq(w) \notin DOMAIN rows[req[w].org]
    BY <2>2, <2>3 DEF NextSeq
  <2> QED BY <1>1, <2>4 DEF Insert, IInv, TypeOK, NoConflict
<1>2. ASSUME NEW w \in Writers, EndTransaction(w)
      PROVE  NoConflict'
  BY <1>2 DEF EndTransaction, IInv, TypeOK, NoConflict
<1>3. ASSUME NEW w \in Writers, Begin(w) \/ AcquireLock(w) \/ ReadTail(w)
      PROVE  NoConflict'
  BY <1>3 DEF Begin, AcquireLock, ReadTail, IInv, TypeOK, NoConflict
<1>4. CASE UNCHANGED vars
  BY <1>4 DEF IInv, NoConflict, vars
<1> QED BY <1>1, <1>2, <1>3, <1>4 DEF Next, Step, Quiescent, Commit, Rollback

-----------------------------------------------------------------------------
(* The invariant and what follows from it.                                 *)

\* The empty table satisfies the invariant.
LEMMA InvInit == Init => IInv
<1> SUFFICES ASSUME Init
             PROVE  IInv
  OBVIOUS
<1> USE ConstantsOK DEF Init
<1>1. \A o \in Orgs : DOMAIN rows[o] = {}
  OBVIOUS
<1>2. TypeOK
  BY <1>1 DEF TypeOK, NoTail, Pcs
<1>3. ASSUME NEW o \in Orgs
      PROVE  Linked(rows[o], 0)
  BY <1>1 DEF Linked
<1>4. Chained
  BY <1>3 DEF Chained
<1> QED BY <1>2, <1>4 DEF IInv, Locked, TailFresh, NoConflict

\* The invariant is inductive.
THEOREM Invariant == Spec => []IInv
<1>1. IInv /\ [Next]_vars => IInv'
  BY TypeStep, LockedStep, TailFreshStep, ChainedStep, NoConflictStep DEF IInv
<1> QED BY InvInit, <1>1, PTL DEF Spec

\* Every reachable state is well typed.
THEOREM TypeCorrect == Spec => []TypeOK
<1>1. IInv => TypeOK
  BY DEF IInv
<1> QED BY <1>1, Invariant, PTL

\* The tail a writer read is the end of the chain when it commits.
THEOREM TailsStayFresh == Spec => []TailFresh
<1>1. IInv => TailFresh
  BY DEF IInv
<1> QED BY <1>1, Invariant, PTL

\* Every chain is numbered without gaps and linked row to row, and no insert ever
\* violates the unique index on (org_id, chain_seq).
THEOREM ChainsSound == Spec => []ChainSound
<1>1. ASSUME IInv, NEW o \in Orgs
      PROVE  /\ DOMAIN rows[o] = 1 .. ChainTail(rows[o]).seq
             /\ \A s \in DOMAIN rows[o] :
                  rows[o][s].prev = IF s = 1 THEN NoHash ELSE rows[o][s - 1].hash
  <2>1. PICK n \in Nat : Linked(rows[o], n)
    BY <1>1 DEF IInv, Chained
  <2> QED BY <2>1, TailOfInterval DEF Linked
<1>2. IInv => ChainLinked
  BY <1>1 DEF ChainLinked
<1>3. IInv => ChainSound
  BY <1>2 DEF IInv, ChainSound
<1> QED BY <1>3, Invariant, PTL

-----------------------------------------------------------------------------
(* The append-only log.                                                    *)

LogOf(chain) == [s \in DOMAIN chain |-> Entry(chain[s])]

\* A commit appends one entry to its organization's log.
LEMMA CommitAppends ==
    ASSUME IInv, NEW w \in Writers, Commit(w)
    PROVE  /\ LogOf(rows'[req[w].org]) = Append(LogOf(rows[req[w].org]), Entry(NewRow(w)))
           /\ Entry(NewRow(w)) \in Entries
<1> DEFINE old == rows[req[w].org]
           new == rows'[req[w].org]
           e == Entry(NewRow(w))
<1>1. PICK n \in Nat :
            /\ DOMAIN old = 1 .. n
            /\ DOMAIN new = 1 .. (n + 1)
            /\ \A s \in 1 .. n : new[s] = old[s]
            /\ new[n + 1] = NewRow(w)
  BY CommitExtends DEF Linked
<1>2. e \in Entries
  BY DEF IInv, TypeOK, Commit, Entry, NewRow, Entries, StoredTemps, Request
<1>3. \A s \in 1 .. n : Entry(old[s]) \in Entries
  BY <1>1, CommitExtends DEF IInv, TypeOK
<1> HIDE DEF old, new, e
<1>4. /\ LogOf(old) \in Seq(Entries)
      /\ Len(LogOf(old)) = n
      /\ \A s \in 1 .. n : LogOf(old)[s] = Entry(old[s])
  <2>1. LogOf(old) = [s \in 1 .. n |-> Entry(old[s])]
    BY <1>1 DEF LogOf
  <2> QED BY <1>3, <2>1
<1>5. LogOf(new) = [s \in 1 .. (n + 1) |-> Entry(new[s])]
  BY <1>1 DEF LogOf
<1>6. Append(LogOf(old), e) = [s \in 1 .. (n + 1) |-> Entry(new[s])]
  <2> DEFINE a == Append(LogOf(old), e)
  <2>1. /\ a \in Seq(Entries)
        /\ Len(a) = n + 1
        /\ \A s \in 1 .. n : a[s] = LogOf(old)[s]
        /\ a[n + 1] = e
    BY <1>2, <1>4, AppendProperties
  <2>2. a = [s \in 1 .. (n + 1) |-> a[s]]
    <3> HIDE DEF a
    <3>1. a \in [1 .. Len(a) -> Entries]
      BY <2>1, LenProperties
    <3> QED BY <2>1, <3>1
  <2>3. \A s \in 1 .. (n + 1) : a[s] = Entry(new[s])
    <3> SUFFICES ASSUME NEW s \in 1 .. (n + 1)
                 PROVE  a[s] = Entry(new[s])
      OBVIOUS
    <3> HIDE DEF a
    <3>1. CASE s = n + 1
      BY <1>1, <2>1, <3>1 DEF e
    <3>2. CASE s \in 1 .. n
      BY <1>1, <1>4, <2>1, <3>2
    <3> QED BY <3>1, <3>2
  <2> HIDE DEF a
  <2>4. [s \in 1 .. (n + 1) |-> a[s]] = [s \in 1 .. (n + 1) |-> Entry(new[s])]
    BY <2>3
  <2>5. a = [s \in 1 .. (n + 1) |-> Entry(new[s])]
    BY <2>2, <2>4
  <2> QED BY <2>5 DEF a
<1>7. LogOf(new) = Append(LogOf(old), e)
  BY <1>5, <1>6
<1> QED BY <1>2, <1>7 DEF old, new, e

\* The readings table implements the append-only log: whatever the
\* interleaving, a step appends one whole reading to one log or changes none.
THEOREM ImplementsAppendOnlyLog == Spec => ImplementsLog
<1> DEFINE abs == [o \in Orgs |-> LogOf(rows[o])]
<1>1. Init => Log!Init
  <2> SUFFICES ASSUME Init
               PROVE  Log!Init
    OBVIOUS
  <2>1. ASSUME NEW o \in Orgs
        PROVE  LogOf(rows[o]) = <<>>
    BY DEF Init, LogOf
  <2> QED BY <2>1 DEF Log!Init, LogOf
<1>2. IInv /\ [Next]_vars => [Log!Next]_abs
  <2> SUFFICES ASSUME IInv, [Next]_vars
               PROVE  [Log!Next]_abs
    OBVIOUS
  <2>1. ASSUME NEW w \in Writers, Commit(w)
        PROVE  Log!Next
    <3> DEFINE u == req[w].org
               e == Entry(NewRow(w))
    <3>1. u \in Orgs /\ \A o \in Orgs \ {u} : rows'[o] = rows[o]
      BY <2>1, CommitExtends
    <3>2. LogOf(rows'[u]) = Append(LogOf(rows[u]), e) /\ e \in Entries
      BY <2>1, CommitAppends
    <3> HIDE DEF u, e
    <3>3. abs' = [abs EXCEPT ![u] = Append(@, e)]
      BY <3>1, <3>2 DEF LogOf
    <3>4. PICK o \in Orgs, x \in Entries : abs' = [abs EXCEPT ![o] = Append(@, x)]
      BY <3>1, <3>2, <3>3
    <3>5. Log!Record(o, x)
      BY <3>4 DEF Log!Record, LogOf
    <3> QED BY <3>5 DEF Log!Next
  <2>2. ASSUME UNCHANGED rows
        PROVE  UNCHANGED abs
    BY <2>2 DEF LogOf
  <2> QED BY <2>1, <2>2 DEF Next, Step, Begin, AcquireLock, ReadTail, Insert, Rollback,
                            Quiescent, vars
<1>3. abs = [o \in Orgs |-> [s \in DOMAIN rows[o] |-> Entry(rows[o][s])]]
  BY DEF LogOf
<1> QED BY <1>1, <1>2, <1>3, Invariant, PTL DEF Spec, ImplementsLog, Log!Spec, LogOf

-----------------------------------------------------------------------------
(* What verification reports of a chain the API alone wrote. The further   *)
(* invariant is that a row's hash digests its own columns, with the        *)
(* temperature as it was before Postgres stored it.                        *)

Hashed(o, chain) ==
    \A s \in DOMAIN chain : \E temp \in Float :
        /\ chain[s].temp = Numeric(temp)
        /\ chain[s].hash = ReadingHash(s, o, chain[s].data, temp, chain[s].prev)

AllHashed == \A o \in Orgs : Hashed(o, rows[o])

\* round1 yields a sign and a whole number of tenths.
LEMMA Round1Type == ASSUME NEW h \in Temps PROVE Round1(h) \in Float
<1>1. h \in Int
  BY ConstantsOK
<1>2. CASE h < 0
  <2>1. (5 - h) \div 10 \in Nat
    BY <1>1, <1>2
  <2> QED BY <1>2, <2>1 DEF Round1, Float
<1>3. CASE ~(h < 0)
  <2>1. (h + 5) \div 10 \in Nat
    BY <1>1, <1>3
  <2> QED BY <1>3, <2>1 DEF Round1, Float
<1> QED BY <1>2, <1>3

\* Every step keeps the hashes those of the rows.
LEMMA HashedStep == IInv /\ AllHashed /\ [Next]_vars => AllHashed'
<1> SUFFICES ASSUME IInv, AllHashed, [Next]_vars
             PROVE  AllHashed'
  OBVIOUS
<1>1. ASSUME NEW w \in Writers, Commit(w), NEW o \in Orgs
      PROVE  Hashed(o, rows'[o])
  <2>1. CASE o = req[w].org
    <3>1. PICK n \in Nat :
                /\ DOMAIN rows[o] = 1 .. n
                /\ NextSeq(w) = n + 1
                /\ DOMAIN rows'[o] = 1 .. (n + 1)
                /\ \A s \in 1 .. n : rows'[o][s] = rows[o][s]
                /\ rows'[o][n + 1] = NewRow(w)
      BY <1>1, <2>1, CommitExtends DEF Linked
    <3>2. Round1(req[w].temp) \in Float
      BY <1>1, Round1Type DEF IInv, TypeOK, Commit, Request
    <3>3. /\ NewRow(w).temp = Numeric(Round1(req[w].temp))
          /\ NewRow(w).hash = ReadingHash(n + 1, o, NewRow(w).data, Round1(req[w].temp),
                                          NewRow(w).prev)
      BY <2>1, <3>1 DEF NewRow
    <3>4. ASSUME NEW s \in 1 .. (n + 1)
          PROVE  \E temp \in Float :
                    /\ rows'[o][s].temp = Numeric(temp)
                    /\ rows'[o][s].hash =
                          ReadingHash(s, o, rows'[o][s].data, temp, rows'[o][s].prev)
      <4>1. CASE s = n + 1
        BY <3>1, <3>2, <3>3, <4>1
      <4>2. CASE s \in 1 .. n
        BY <3>1, <4>2 DEF AllHashed, Hashed
      <4> QED BY <4>1, <4>2
    <3> QED BY <3>1, <3>4 DEF Hashed
  <2>2. CASE o # req[w].org
    BY <1>1, <2>2, CommitExtends DEF AllHashed
  <2> QED BY <2>1, <2>2
<1>2. ASSUME UNCHANGED rows
      PROVE  AllHashed'
  BY <1>2 DEF AllHashed
<1> QED BY <1>1, <1>2 DEF AllHashed, Next, Step, Begin, AcquireLock, ReadTail, Insert,
                          Rollback, Quiescent, vars

\* The hash verification carries into a row is the one stored in the row before.
LEMMA HashBeforeLinked ==
    ASSUME NEW chain, NEW n \in Nat, Linked(chain, n), NEW s \in 1 .. n
    PROVE  HashBefore(chain, s) = chain[s].prev
<1> DEFINE earlier == [t \in {t \in DOMAIN chain : t < s} |-> chain[t]]
<1>1. DOMAIN earlier = 1 .. (s - 1) /\ s - 1 \in Nat
  BY DEF Linked
<1>2. ChainTail(earlier).hash = IF s - 1 = 0 THEN NoHash ELSE earlier[s - 1].hash
  <2> HIDE DEF earlier
  <2> QED BY <1>1, TailOfInterval
<1>3. s # 1 => s - 1 \in {t \in DOMAIN chain : t < s}
  BY DEF Linked
<1>4. s # 1 => earlier[s - 1] = chain[s - 1]
  BY <1>3
<1> QED BY <1>2, <1>4 DEF HashBefore, Linked

\* Verification blames exactly the rows whose temperature was rounded to -0.0,
\* so an untouched chain without one is always reported intact.
THEOREM OnlyNegativeZeroBreaks == Spec => []BrokenOnlyAtNegativeZero
<1>1. ASSUME IInv, AllHashed, NEW o \in Orgs, NEW s \in DOMAIN rows[o]
      PROVE  s \in Offending(o, rows[o]) <=> rows[o][s].hash[4] = NegativeZero
  <2>1. PICK n \in Nat : Linked(rows[o], n)
    BY <1>1 DEF IInv, Chained
  <2>2. HashBefore(rows[o], s) = rows[o][s].prev
    BY <2>1, HashBeforeLinked DEF Linked
  <2>3. PICK temp \in Float :
            /\ rows[o][s].temp = Numeric(temp)
            /\ rows[o][s].hash = ReadingHash(s, o, rows[o][s].data, temp, rows[o][s].prev)
    BY <1>1 DEF AllHashed, Hashed
  <2>4. s \in Offending(o, rows[o]) <=> Numeric(temp) # temp
    BY <2>2, <2>3 DEF Offending, ReadingHash
  <2>5. Numeric(temp) # temp <=> temp = NegativeZero
    BY DEF Numeric, NegativeZero, Float
  <2>6. rows[o][s].hash[4] = temp
    BY <2>3 DEF ReadingHash
  <2> QED BY <2>4, <2>5, <2>6
<1>2. IInv /\ AllHashed => BrokenOnlyAtNegativeZero
  BY <1>1 DEF BrokenOnlyAtNegativeZero, Offending
<1>3. Init => AllHashed
  BY DEF Init, AllHashed, Hashed
<1> QED BY <1>2, <1>3, HashedStep, Invariant, PTL DEF Spec
=============================================================================
