-------------------------- MODULE ChainTamperProofs --------------------------
(***************************************************************************)
(* Proofs about ChainTamper, for any number of writers, organizations and  *)
(* changes made behind the API's back: a chain that verifies holds nothing *)
(* but what the API accepted, and a break is reported where it was made.   *)
(***************************************************************************)
EXTENDS ChainTamper, WellFoundedInduction, TLAPS

-----------------------------------------------------------------------------
(* Smallest and largest numbers.                                           *)

\* A set of numbers that is not empty has a smallest one, which is its Min.
LEMMA MinIs ==
  ASSUME NEW S \in SUBSET Nat, S # {}
  PROVE  Min(S) \in S /\ \A y \in S : Min(S) <= y
<1> DEFINE R == {p \in Nat \X Nat : p[1] < p[2]}
<1>1. IsWellFoundedOn(R, Nat)
  BY NatLessThanWellFounded DEF OpToRel
<1>2. PICK x \in S : \A y \in S : ~(<<y, x>> \in R)
  BY <1>1, WFMin
<1>3. \A y \in S : ~(y < x)
  BY <1>2
<1>4. \A y \in S : x <= y
  BY <1>3
<1> QED
  BY <1>4 DEF Min

\* A set of numbers up to n that is not empty has a largest one, which is its Max.
LEMMA MaxIs ==
  ASSUME NEW n \in Nat, NEW S \in SUBSET (1 .. n), S # {}
  PROVE  Max(S) \in S /\ \A y \in S : y <= Max(S)
<1> DEFINE T == {n - x : x \in S}
<1>1. T \in SUBSET Nat /\ T # {}
  <2>1. \A x \in S : n - x \in Nat
    OBVIOUS
  <2>2. PICK x : x \in S
    OBVIOUS
  <2>3. n - x \in T
    BY <2>2
  <2> QED
    BY <2>1, <2>3
<1>2. PICK x \in S : \A y \in S : n - x <= n - y
  <2>1. PICK t \in T : \A u \in T : t <= u
    BY <1>1, MinIs
  <2> QED
    BY <2>1
<1>3. \A y \in S : y <= x
  BY <1>2
<1> QED
  BY <1>3 DEF Max

\* What Min is, by its property.
LEMMA MinOf ==
  ASSUME NEW S \in SUBSET Nat, NEW m \in S, \A y \in S : m <= y
  PROVE  Min(S) = m
<1>1. Min(S) \in S /\ Min(S) <= m /\ Min(S) \in Nat /\ m \in Nat
  BY MinIs
<1>2. m <= Min(S)
  BY <1>1
<1> QED
  BY <1>1, <1>2

-----------------------------------------------------------------------------
(* Types, as far as the proofs need them.                                  *)

RowLike(x) == x = [data |-> x.data, temp |-> x.temp, note |-> x.note, prev |-> x.prev, hash |-> x.hash]

RowOK(x) == RowLike(x) /\ x.temp \in StoredTemps

\* Chains are finite and numbered from 1.
Chains ==
    /\ DOMAIN rows = Orgs
    /\ \A o \in Orgs :
        /\ \E n \in Nat : DOMAIN rows[o] \subseteq 1 .. n
        /\ \A s \in DOMAIN rows[o] : RowOK(rows[o][s])

WritersOK ==
    /\ DOMAIN pc = Writers /\ DOMAIN req = Writers /\ DOMAIN tail = Writers
    /\ \A w \in Writers : /\ pc[w] # "idle" => req[w] \in Request
                          /\ tail[w].seq \in Nat

Types == Chains /\ WritersOK /\ DOMAIN accepted = Orgs /\ tampers \in Nat

\* What was stored is stored as it is.
LEMMA StoredIsNumeric ==
  ASSUME NEW t \in StoredTemps
  PROVE  Numeric(t) = t
<1>1. PICK h \in Temps : t = Numeric(Round1(h))
  BY DEF StoredTemps
<1> QED
  BY <1>1 DEF Numeric

\* The end of a chain is numbered.
LEMMA TailNumbered ==
  ASSUME NEW n \in Nat, NEW chain, DOMAIN chain \subseteq 1 .. n
  PROVE  ChainTail(chain).seq \in Nat
<1>1. CASE DOMAIN chain = {}
  BY <1>1 DEF ChainTail
<1>2. CASE DOMAIN chain # {}
  <2>1. Max(DOMAIN chain) \in DOMAIN chain
    BY <1>2, MaxIs
  <2> QED
    BY <1>2, <2>1 DEF ChainTail
<1> QED
  BY <1>1, <1>2

\* A row that keeps the hash of one that was there.
Copied(x) == RowOK(x) /\ \E p \in Orgs : \E t \in DOMAIN rows[p] : x.hash = rows[p][t].hash

\* What a change behind the API's back leaves: rows with the hashes there were.
Tampered ==
    /\ DOMAIN rows' = Orgs
    /\ \A o \in Orgs : /\ \E n \in Nat : DOMAIN rows'[o] \subseteq 1 .. n
                       /\ \A s \in DOMAIN rows'[o] : Copied(rows'[o][s])

\* What an edit leaves of a row.
Edited(x, d, t) == [data |-> d, temp |-> t, note |-> x.note, prev |-> x.prev, hash |-> x.hash]

\* An edit changes the data and the temperature of one row.
LEMMA EditDoes ==
  ASSUME Types, NEW o \in Orgs, NEW s \in DOMAIN rows[o], EditField(o, s)
  PROVE  \E d \in Data, t \in StoredTemps :
            /\ <<d, t>> # <<rows[o][s].data, rows[o][s].temp>>
            /\ DOMAIN rows' = Orgs /\ DOMAIN rows'[o] = DOMAIN rows[o]
            /\ \A p \in Orgs : p # o => rows'[p] = rows[p]
            /\ \A u \in DOMAIN rows[o] : u # s => rows'[o][u] = rows[o][u]
            /\ rows'[o][s] = Edited(rows[o][s], d, t)
<1>1. PICK d \in Data, t \in StoredTemps :
            /\ <<d, t>> # <<rows[o][s].data, rows[o][s].temp>>
            /\ rows' = [rows EXCEPT ![o][s].data = d, ![o][s].temp = t]
  BY DEF EditField
<1>2. /\ DOMAIN rows' = Orgs /\ DOMAIN rows'[o] = DOMAIN rows[o]
      /\ \A p \in Orgs : p # o => rows'[p] = rows[p]
      /\ \A u \in DOMAIN rows[o] : u # s => rows'[o][u] = rows[o][u]
      /\ rows'[o][s] = [rows[o][s] EXCEPT !.data = d, !.temp = t]
  BY <1>1 DEF Types, Chains
<1>3. PICK a, b, c, e, f : rows[o][s] = [data |-> a, temp |-> b, note |-> c, prev |-> e, hash |-> f]
  BY DEF Types, Chains, RowOK, RowLike
<1>4. rows'[o][s] = Edited(rows[o][s], d, t)
  BY <1>2, <1>3 DEF Edited
<1> QED
  BY <1>1, <1>2, <1>4

\* A row that is like another one but for its note.
LEMMA NoteDoes ==
  ASSUME Types, NEW o \in Orgs, NEW s \in DOMAIN rows[o], EditNote(o, s)
  PROVE  Tampered
<1>1. PICK n : rows' = [rows EXCEPT ![o][s].note = n]
  BY DEF EditNote
<1>2. /\ DOMAIN rows' = Orgs /\ DOMAIN rows'[o] = DOMAIN rows[o]
      /\ \A p \in Orgs : p # o => rows'[p] = rows[p]
      /\ \A u \in DOMAIN rows[o] : u # s => rows'[o][u] = rows[o][u]
      /\ rows'[o][s] = [rows[o][s] EXCEPT !.note = n]
  BY <1>1 DEF Types, Chains
<1>3. PICK a, b, c, e, f : rows[o][s] = [data |-> a, temp |-> b, note |-> c, prev |-> e, hash |-> f]
  BY DEF Types, Chains, RowOK, RowLike
<1>4. rows'[o][s] = [data |-> a, temp |-> b, note |-> n, prev |-> e, hash |-> f]
  BY <1>2, <1>3
<1>5. b \in StoredTemps
  BY <1>3 DEF Types, Chains, RowOK
<1>6. RowOK(rows'[o][s]) /\ rows'[o][s].hash = rows[o][s].hash
  BY <1>3, <1>4, <1>5 DEF RowOK, RowLike
<1> QED
  BY <1>2, <1>6 DEF Tampered, Copied, Types, Chains

\* An edit is a change behind the API's back.
LEMMA EditTampers ==
  ASSUME Types, NEW o \in Orgs, NEW s \in DOMAIN rows[o], EditField(o, s)
  PROVE  Tampered
<1>1. PICK d \in Data, t \in StoredTemps :
            /\ DOMAIN rows' = Orgs /\ DOMAIN rows'[o] = DOMAIN rows[o]
            /\ \A p \in Orgs : p # o => rows'[p] = rows[p]
            /\ \A u \in DOMAIN rows[o] : u # s => rows'[o][u] = rows[o][u]
            /\ rows'[o][s] = Edited(rows[o][s], d, t)
  BY EditDoes
<1>2. RowOK(rows'[o][s]) /\ rows'[o][s].hash = rows[o][s].hash
  BY <1>1 DEF Edited, RowOK, RowLike
<1> QED
  BY <1>1, <1>2 DEF Tampered, Copied, Types, Chains

\* A deletion takes one row out.
LEMMA DeleteDoes ==
  ASSUME Types, NEW o \in Orgs, NEW s \in DOMAIN rows[o], DeleteRow(o, s)
  PROVE  /\ DOMAIN rows' = Orgs /\ DOMAIN rows'[o] = DOMAIN rows[o] \ {s}
         /\ \A p \in Orgs : p # o => rows'[p] = rows[p]
         /\ \A u \in DOMAIN rows'[o] : rows'[o][u] = rows[o][u]
<1>1. rows'[o] = Without(rows[o], s)
  BY DEF DeleteRow, Types, Chains
<1> QED
  BY <1>1 DEF DeleteRow, Without, Types, Chains

\* Rows that leave, move or get another number keep their hashes.
LEMMA MovesTamper ==
  ASSUME Types, NEW o \in Orgs, NEW s \in DOMAIN rows[o],
         \/ DeleteRow(o, s)
         \/ \E t \in 1 .. MaxSeq : RenumberRow(o, s, t)
         \/ \E p \in Orgs, t \in 1 .. MaxSeq : MoveToOrg(o, s, p, t)
  PROVE  Tampered
<1>0. /\ MaxSeq \in Nat /\ DOMAIN rows = Orgs
      /\ \A p \in Orgs : \A u \in DOMAIN rows[p] : RowOK(rows[p][u])
      /\ \A p \in Orgs : \E n \in Nat : DOMAIN rows[p] \subseteq 1 .. n
  BY ConstantsOK DEF ConstantsOK, Types, Chains
<1>1. ASSUME DOMAIN rows' = Orgs,
             \A p \in Orgs : DOMAIN rows'[p] \subseteq DOMAIN rows[p] \cup 1 .. MaxSeq,
             \A p \in Orgs : \A u \in DOMAIN rows'[p] :
                \E q \in Orgs : \E v \in DOMAIN rows[q] : rows'[p][u] = rows[q][v]
      PROVE  Tampered
  <2>1. ASSUME NEW p \in Orgs
        PROVE  \E n \in Nat : DOMAIN rows'[p] \subseteq 1 .. n
    <3>1. PICK n \in Nat : DOMAIN rows[p] \subseteq 1 .. n
      BY <1>0
    <3>2. n + MaxSeq \in Nat /\ DOMAIN rows'[p] \subseteq 1 .. (n + MaxSeq)
      BY <1>0, <1>1, <3>1
    <3> QED
      BY <3>2
  <2> QED
    BY <1>0, <1>1, <2>1 DEF Tampered, Copied
<1>2. CASE DeleteRow(o, s)
  BY <1>0, <1>1, <1>2, DeleteDoes
<1>3. ASSUME NEW t \in 1 .. MaxSeq, RenumberRow(o, s, t) PROVE Tampered
  <2>1. rows'[o] = [u \in (DOMAIN rows[o] \ {s}) \cup {t} |-> IF u = t THEN rows[o][s] ELSE rows[o][u]]
    BY <1>0, <1>3 DEF RenumberRow
  <2>2. DOMAIN rows' = Orgs /\ \A p \in Orgs : p # o => rows'[p] = rows[p]
    BY <1>0, <1>3 DEF RenumberRow
  <2> QED
    BY <1>1, <2>1, <2>2
<1>4. ASSUME NEW p \in Orgs, NEW t \in 1 .. MaxSeq, MoveToOrg(o, s, p, t) PROVE Tampered
  <2>1. rows'[p] = [u \in DOMAIN rows[p] \cup {t} |-> IF u = t THEN rows[o][s] ELSE rows[p][u]]
    BY <1>0, <1>4 DEF MoveToOrg
  <2>2. rows'[o] = [u \in DOMAIN rows[o] \ {s} |-> rows[o][u]]
    BY <1>0, <1>4 DEF MoveToOrg, Without
  <2>3. DOMAIN rows' = Orgs /\ \A q \in Orgs : q # o /\ q # p => rows'[q] = rows[q]
    BY <1>0, <1>4 DEF MoveToOrg
  <2> QED
    BY <1>1, <2>1, <2>2, <2>3
<1> QED
  BY <1>2, <1>3, <1>4

\* The row a commit adds.
LEMMA CommitDoes ==
  ASSUME Types, NEW w \in Writers, Commit(w)
  PROVE  /\ req[w] \in Request /\ req[w].org \in Orgs /\ NextSeq(w) \in Nat \ {0}
         /\ DOMAIN rows' = Orgs
         /\ \A o \in Orgs : o # req[w].org => rows'[o] = rows[o]
         /\ DOMAIN rows'[req[w].org] = DOMAIN rows[req[w].org] \cup {NextSeq(w)}
         /\ rows'[req[w].org][NextSeq(w)] = NewRow(w)
         /\ \A s \in DOMAIN rows[req[w].org] :
              s # NextSeq(w) => rows'[req[w].org][s] = rows[req[w].org][s]
<1>1. req[w] \in Request /\ req[w].org \in Orgs
  BY DEF Types, WritersOK, Commit, Request
<1>2. NextSeq(w) \in Nat \ {0}
  BY DEF Types, WritersOK, NextSeq
<1>3. PICK o, k, x : o = req[w].org /\ k = NextSeq(w) /\ x = NewRow(w)
  OBVIOUS
<1>4. rows' = [rows EXCEPT ![o] = [s \in DOMAIN rows[o] \cup {k} |-> IF s = k THEN x ELSE rows[o][s]]]
  BY <1>3 DEF Commit
<1>5. DOMAIN rows = Orgs /\ o \in Orgs
  BY <1>1, <1>3 DEF Types, Chains
<1>6. /\ DOMAIN rows' = Orgs /\ \A p \in Orgs : p # o => rows'[p] = rows[p]
      /\ rows'[o] = [s \in DOMAIN rows[o] \cup {k} |-> IF s = k THEN x ELSE rows[o][s]]
  BY <1>4, <1>5
<1> QED
  BY <1>1, <1>2, <1>3, <1>6

\* The new row is well typed.
LEMMA NewRowOK ==
  ASSUME NEW w, req[w] \in Request
  PROVE  RowOK(NewRow(w)) /\ NewRow(w).hash =
            <<NextSeq(w), req[w].org, req[w].data, Round1(req[w].temp), tail[w].hash>>
         /\ NewRow(w).temp = Numeric(Round1(req[w].temp))
<1>1. Numeric(Round1(req[w].temp)) \in StoredTemps
  BY DEF StoredTemps, Request
<1> QED
  BY <1>1 DEF NewRow, RowOK, RowLike, ReadingHash

\* What a step of TamperNext is.
LEMMA Cases ==
  ASSUME Types, [TamperNext]_tamperVars
  PROVE  \/ \E w \in Writers : Commit(w) /\ ApiStep(w)
         \/ Tampered /\ tampers' = tampers + 1 /\ UNCHANGED <<lock, pc, req, tail, accepted>>
         \/ \E w \in Writers : /\ Begin(w) \/ AcquireLock(w) \/ ReadTail(w) \/ Insert(w) \/ Rollback(w)
                               /\ UNCHANGED <<rows, accepted, tampers>>
         \/ UNCHANGED tamperVars
<1>1. ASSUME NEW w \in Writers, ApiStep(w)
      PROVE  \/ Commit(w) /\ ApiStep(w)
             \/ /\ Begin(w) \/ AcquireLock(w) \/ ReadTail(w) \/ Insert(w) \/ Rollback(w)
                /\ UNCHANGED <<rows, accepted, tampers>>
  BY <1>1 DEF ApiStep, Step, Begin, AcquireLock, ReadTail, Insert, Rollback
<1>2. ASSUME NEW o \in Orgs, NEW s \in DOMAIN rows[o],
             \/ EditField(o, s) \/ EditNote(o, s) \/ DeleteRow(o, s)
             \/ \E t \in 1 .. MaxSeq : RenumberRow(o, s, t)
             \/ \E p \in Orgs, t \in 1 .. MaxSeq : MoveToOrg(o, s, p, t)
      PROVE  Tampered /\ tampers' = tampers + 1 /\ UNCHANGED <<lock, pc, req, tail, accepted>>
  <2>1. Tampered
    BY <1>2, EditTampers, NoteDoes, MovesTamper
  <2>2. Tamper
    BY <1>2 DEF EditField, EditNote, DeleteRow, RenumberRow, MoveToOrg
  <2> QED
    BY <2>1, <2>2 DEF Tamper
<1>3. Quiescent /\ UNCHANGED <<accepted, tampers>> => UNCHANGED tamperVars
  BY DEF Quiescent, tamperVars, vars
<1> QED
  BY <1>1, <1>2, <1>3 DEF TamperNext

\* A request that ends leaves its writer idle.
LEMMA EndDoes ==
  ASSUME WritersOK, NEW w \in Writers, EndTransaction(w)
  PROVE  WritersOK' /\ pc'[w] = "idle" /\ \A v \in Writers : v # w => /\ pc'[v] = pc[v] /\ req'[v] = req[v]
                                                                     /\ tail'[v] = tail[v]
  BY DEF WritersOK, EndTransaction, NoTail

\* The types hold at the start.
LEMMA TypesInit == TamperInit => Types
<1> SUFFICES ASSUME TamperInit PROVE Types
  OBVIOUS
<1>1. \A o \in Orgs : DOMAIN rows[o] \subseteq 1 .. 0 /\ DOMAIN rows[o] = {}
  BY DEF TamperInit, Init
<1> QED
  BY <1>1 DEF TamperInit, Init, Types, Chains, WritersOK, NoTail

\* Every step keeps the types.
LEMMA TypesNext == Types /\ [TamperNext]_tamperVars => Types'
<1> SUFFICES ASSUME Types, [TamperNext]_tamperVars PROVE Types'
  OBVIOUS
<1>1. ASSUME NEW w \in Writers, Commit(w), ApiStep(w) PROVE Types'
  <2>1. WritersOK'
    BY <1>1, EndDoes DEF Commit, Types
  <2>2. PICK o, k, x : o = req[w].org /\ k = NextSeq(w) /\ x = NewRow(w)
    OBVIOUS
  <2>3. /\ o \in Orgs /\ k \in Nat \ {0} /\ RowOK(x) /\ DOMAIN rows' = Orgs
        /\ \A p \in Orgs : p # o => rows'[p] = rows[p]
        /\ DOMAIN rows'[o] = DOMAIN rows[o] \cup {k} /\ rows'[o][k] = x
        /\ \A s \in DOMAIN rows[o] : s # k => rows'[o][s] = rows[o][s]
    BY <1>1, <2>2, CommitDoes, NewRowOK
  <2>4. ASSUME NEW p \in Orgs
        PROVE  \E n \in Nat : DOMAIN rows'[p] \subseteq 1 .. n
    <3>1. PICK n \in Nat : DOMAIN rows[p] \subseteq 1 .. n
      BY DEF Types, Chains
    <3>2. n + k \in Nat /\ DOMAIN rows'[p] \subseteq 1 .. (n + k)
      BY <2>3, <3>1
    <3> QED
      BY <3>2
  <2>5. \A p \in Orgs : \A s \in DOMAIN rows'[p] : RowOK(rows'[p][s])
    BY <2>3 DEF Types, Chains
  <2>6. DOMAIN accepted' = Orgs /\ tampers' = tampers
    BY <1>1 DEF ApiStep, Types
  <2> QED
    BY <2>1, <2>3, <2>4, <2>5, <2>6 DEF Types, Chains
<1>2. CASE Tampered /\ tampers' = tampers + 1 /\ UNCHANGED <<lock, pc, req, tail, accepted>>
  BY <1>2 DEF Tampered, Copied, Types, Chains, WritersOK
<1>3. ASSUME UNCHANGED <<rows, accepted, tampers>>, WritersOK' PROVE Types'
  BY <1>3 DEF Types, Chains
<1>4. ASSUME NEW w \in Writers, Begin(w) PROVE WritersOK'
  BY <1>4 DEF Begin, Types, WritersOK
<1>5. ASSUME NEW w \in Writers, AcquireLock(w) \/ Insert(w) PROVE WritersOK'
  <2>1. PICK where : where # "idle" /\ pc' = [pc EXCEPT ![w] = where]
    BY <1>5 DEF AcquireLock, Insert
  <2>2. req' = req /\ tail' = tail /\ pc[w] # "idle"
    BY <1>5 DEF AcquireLock, Insert
  <2> QED
    BY <2>1, <2>2 DEF Types, WritersOK
<1>6. ASSUME NEW w \in Writers, ReadTail(w) PROVE WritersOK'
  <2>1. req[w].org \in Orgs
    BY <1>6 DEF ReadTail, Types, WritersOK, Request
  <2>2. ChainTail(rows[req[w].org]).seq \in Nat
    BY <2>1, TailNumbered DEF Types, Chains
  <2> QED
    BY <1>6, <2>2 DEF ReadTail, Types, WritersOK
<1>7. ASSUME NEW w \in Writers, Rollback(w) PROVE WritersOK'
  BY <1>7, EndDoes DEF Rollback, Types
<1>8. CASE UNCHANGED tamperVars
  BY <1>3, <1>8 DEF tamperVars, vars, Types, WritersOK
<1> QED
  BY <1>1, <1>2, <1>3, <1>4, <1>5, <1>6, <1>7, <1>8, Cases

-----------------------------------------------------------------------------
(* Nobody can write a hash: SHA-256 is collision free, so every hash in    *)
(* the table is that of a reading the API accepted.                        *)

\* h is the hash of an accepted reading.
OfAccepted(h) ==
    \E q, d, t, g : \E p \in Orgs : h = <<q, p, d, t, g>> /\ <<q, d, Numeric(t), g>> \in accepted[p]

Genuine == \A o \in Orgs : \A s \in DOMAIN rows[o] : OfAccepted(rows[o][s].hash)

\* What was accepted stays so.
LEMMA AcceptedGrows ==
  ASSUME Types, [TamperNext]_tamperVars
  PROVE  \A p \in Orgs : accepted[p] \subseteq accepted'[p]
<1>1. ASSUME NEW w \in Writers, Commit(w), ApiStep(w)
      PROVE  \A p \in Orgs : accepted[p] \subseteq accepted'[p]
  BY <1>1 DEF ApiStep, Types
<1> QED
  BY <1>1, Cases DEF tamperVars

\* Every step keeps the hashes genuine.
LEMMA GenuineNext == Types /\ Genuine /\ [TamperNext]_tamperVars => Genuine'
<1> SUFFICES ASSUME Types, Genuine, [TamperNext]_tamperVars, NEW o \in Orgs, NEW s \in DOMAIN rows'[o]
             PROVE  \E h : h = rows'[o][s].hash /\ OfAccepted(h)'
  BY DEF Genuine
<1>1. ASSUME NEW h, OfAccepted(h) PROVE OfAccepted(h)'
  BY <1>1, AcceptedGrows DEF OfAccepted
<1>2. ASSUME NEW p \in Orgs, NEW t \in DOMAIN rows[p], rows'[o][s].hash = rows[p][t].hash
      PROVE  \E h : h = rows'[o][s].hash /\ OfAccepted(h)'
  <2>1. PICK h : h = rows[p][t].hash
    OBVIOUS
  <2>2. OfAccepted(h)'
    BY <1>1, <2>1 DEF Genuine
  <2>3. h = rows'[o][s].hash
    BY <1>2, <2>1
  <2> QED
    BY <2>2, <2>3
<1>3. ASSUME NEW w \in Writers, Commit(w), ApiStep(w) PROVE \E h : h = rows'[o][s].hash /\ OfAccepted(h)'
  <2>1. PICK p, k, x : p = req[w].org /\ k = NextSeq(w) /\ x = NewRow(w)
    OBVIOUS
  <2>2. /\ req[w] \in Request /\ p \in Orgs
        /\ \A q \in Orgs : q # p => rows'[q] = rows[q]
        /\ DOMAIN rows'[p] = DOMAIN rows[p] \cup {k} /\ rows'[p][k] = x
        /\ \A u \in DOMAIN rows[p] : u # k => rows'[p][u] = rows[p][u]
    BY <1>3, <2>1, CommitDoes
  <2>3. CASE rows' = rows
    BY <1>2, <2>3
  <2>4. CASE ~(o = p /\ s = k)
    BY <1>2, <2>2, <2>4
  <2>5. CASE o = p /\ s = k /\ rows' # rows
    <3>1. accepted' = [accepted EXCEPT ![p] = @ \cup {<<k, req[w].data, x.temp, tail[w].hash>>}]
      BY <1>3, <2>1, <2>5 DEF ApiStep
    <3>2. <<k, req[w].data, x.temp, tail[w].hash>> \in accepted'[p]
      BY <2>2, <3>1 DEF Types
    <3>3. PICK d, t, g : d = req[w].data /\ t = Round1(req[w].temp) /\ g = tail[w].hash
      OBVIOUS
    <3>4. x.hash = <<k, p, d, t, g>> /\ x.temp = Numeric(t)
      BY <2>1, <2>2, <3>3, NewRowOK
    <3>5. rows'[o][s].hash = <<k, p, d, t, g>> /\ <<k, d, Numeric(t), g>> \in accepted'[p]
      BY <2>2, <2>5, <3>2, <3>3, <3>4
    <3>6. PICK h : h = rows'[o][s].hash
      OBVIOUS
    <3>7. OfAccepted(h)'
      BY <2>2, <3>5, <3>6 DEF OfAccepted
    <3> QED
      BY <3>6, <3>7
  <2> QED
    BY <2>3, <2>4, <2>5
<1>4. CASE Tampered
  BY <1>2, <1>4 DEF Tampered, Copied
<1>5. CASE rows' = rows
  BY <1>2, <1>5
<1> QED
  BY <1>3, <1>4, <1>5, Cases DEF tamperVars, vars

\* Whatever is edited, deleted, moved or appended behind the API's back and by it, a
\* chain that verifies holds nothing but readings the API accepted, at their numbers
\* and after the rows they were accepted after.
THEOREM NoForgedChainVerifies == TamperSpec => []VerifiedMeansAccepted
<1>1. TamperInit => Types /\ Genuine
  BY TypesInit DEF TamperInit, Init, Genuine
<1>2. (Types /\ Genuine) /\ [TamperNext]_tamperVars => (Types /\ Genuine)'
  BY TypesNext, GenuineNext
<1>3. Types /\ Genuine => VerifiedMeansAccepted
  <2> SUFFICES ASSUME Types, Genuine, NEW o \in Orgs, VerifyOK(o, rows[o]), NEW s \in DOMAIN rows[o]
               PROVE  <<s, rows[o][s].data, rows[o][s].temp, HashBefore(rows[o], s)>> \in accepted[o]
    BY DEF VerifiedMeansAccepted
  <2>1. PICK d, t, g : d = rows[o][s].data /\ t = rows[o][s].temp /\ g = HashBefore(rows[o], s)
    OBVIOUS
  <2>2. rows[o][s].hash = <<s, o, d, t, g>>
    BY <2>1 DEF VerifyOK, Offending, ReadingHash
  <2>3. Numeric(t) = t
    BY <2>1, StoredIsNumeric DEF Types, Chains, RowOK
  <2>4. PICK q, e, u, f : \E p \in Orgs :
            rows[o][s].hash = <<q, p, e, u, f>> /\ <<q, e, Numeric(u), f>> \in accepted[p]
    BY DEF Genuine, OfAccepted
  <2> QED
    BY <2>1, <2>2, <2>3, <2>4
<1> QED
  BY <1>1, <1>2, <1>3, PTL DEF TamperSpec

-----------------------------------------------------------------------------
(* What the verification walk finds before a row.                          *)

Numbered(chain) == \E n \in Nat : DOMAIN chain \subseteq 1 .. n

Before(chain, s) == {t \in DOMAIN chain : t < s}

\* The hash before row s is that of the last row before it, if there is one.
LEMMA HashBeforeIs ==
  ASSUME NEW chain, Numbered(chain), NEW s \in Nat
  PROVE  IF Before(chain, s) = {} THEN HashBefore(chain, s) = NoHash
         ELSE \E m \in Before(chain, s) :
                /\ \A t \in Before(chain, s) : t <= m
                /\ HashBefore(chain, s) = chain[m].hash
<1> DEFINE D == Before(chain, s)
           part == [t \in D |-> chain[t]]
<1>1. PICK n \in Nat : DOMAIN chain \subseteq 1 .. n
  BY DEF Numbered
<1>2. HashBefore(chain, s) = ChainTail(part).hash /\ DOMAIN part = D
  BY DEF HashBefore, Before
<1>3. CASE D = {}
  BY <1>2, <1>3 DEF ChainTail
<1>4. CASE D # {}
  <2>1. D \in SUBSET (1 .. n)
    BY <1>1 DEF Before
  <2>2. Max(D) \in D /\ \A t \in D : t <= Max(D)
    BY <1>4, <2>1, MaxIs
  <2>3. HashBefore(chain, s) = chain[Max(D)].hash
    BY <1>2, <1>4, <2>2 DEF ChainTail
  <2> HIDE DEF D, part
  <2>4. \E m \in D : (\A t \in D : t <= m) /\ HashBefore(chain, s) = chain[m].hash
    BY <2>2, <2>3
  <2> QED
    BY <1>4, <2>4 DEF D
<1> QED
  BY <1>3, <1>4

\* Chains with the same last row before s have the same hash before it.
LEMMA HashBeforeSame ==
  ASSUME NEW chain, NEW other, Numbered(chain), Numbered(other), NEW s \in Nat,
         Before(chain, s) = {} => Before(other, s) = {},
         Before(other, s) = {} => Before(chain, s) = {},
         \A m \in Before(chain, s) : (\A t \in Before(chain, s) : t <= m) =>
            /\ m \in Before(other, s) /\ \A t \in Before(other, s) : t <= m
            /\ other[m].hash = chain[m].hash
  PROVE  HashBefore(other, s) = HashBefore(chain, s)
<1>1. CASE Before(chain, s) = {}
  BY <1>1, HashBeforeIs
<1>2. CASE Before(chain, s) # {}
  <2>1. PICK m \in Before(chain, s) : /\ \A t \in Before(chain, s) : t <= m
                                      /\ HashBefore(chain, s) = chain[m].hash
    BY <1>2, HashBeforeIs
  <2>2. PICK k \in Before(other, s) : /\ \A t \in Before(other, s) : t <= k
                                      /\ HashBefore(other, s) = other[k].hash
    BY <1>2, HashBeforeIs
  <2>3. m \in Before(other, s) /\ (\A t \in Before(other, s) : t <= m) /\ other[m].hash = chain[m].hash
    BY <2>1
  <2>4. k <= m /\ m <= k /\ k \in Nat /\ m \in Nat
    BY <2>1, <2>2, <2>3 DEF Numbered, Before
  <2>5. k = m
    BY <2>4
  <2> QED
    BY <2>1, <2>2, <2>3, <2>5
<1> QED
  BY <1>1, <1>2

\* Offending rows are rows.
LEMMA OffendingRows ==
  ASSUME NEW o, NEW chain, Numbered(chain)
  PROVE  Offending(o, chain) \in SUBSET Nat /\ Offending(o, chain) \subseteq DOMAIN chain
  BY DEF Offending, Numbered

\* A row whose predecessor's hash and own columns did not change is as sound as before.
LEMMA SameVerdict ==
  ASSUME NEW o, NEW chain, NEW other, NEW s \in DOMAIN chain, s \in DOMAIN other,
         other[s] = chain[s], HashBefore(other, s) = HashBefore(chain, s)
  PROVE  s \in Offending(o, other) <=> s \in Offending(o, chain)
  BY DEF Offending

-----------------------------------------------------------------------------
(* Breaks are reported where they were made.                               *)

\* An edit of a hashed field breaks the chain at that row and nowhere else.
LEMMA EditFound ==
  ASSUME Types, NEW o \in Orgs, NEW s \in DOMAIN rows[o], VerifyOK(o, rows[o]), EditField(o, s)
  PROVE  BrokenAt(o, rows'[o]) = s
<1>1. PICK d \in Data, t \in StoredTemps :
            /\ <<d, t>> # <<rows[o][s].data, rows[o][s].temp>>
            /\ DOMAIN rows'[o] = DOMAIN rows[o]
            /\ \A u \in DOMAIN rows[o] : u # s => rows'[o][u] = rows[o][u]
            /\ rows'[o][s] = Edited(rows[o][s], d, t)
  BY EditDoes
<1>2. PICK chain, other : chain = rows[o] /\ other = rows'[o]
  OBVIOUS
<1>3. /\ Numbered(chain) /\ Numbered(other) /\ DOMAIN other = DOMAIN chain /\ s \in DOMAIN chain
      /\ DOMAIN chain \subseteq Nat
  BY <1>1, <1>2 DEF Types, Chains, Numbered
<1>4. \A u \in DOMAIN chain : other[u].hash = chain[u].hash
  BY <1>1, <1>2 DEF Edited
<1>5. \A u \in Nat : HashBefore(other, u) = HashBefore(chain, u)
  <2>1. \A u \in Nat : Before(other, u) = Before(chain, u) /\ Before(chain, u) \subseteq DOMAIN chain
    BY <1>3 DEF Before
  <2> QED
    BY <1>3, <1>4, <2>1, HashBeforeSame
<1>6. \A u \in DOMAIN chain : u # s => u \notin Offending(o, other)
  BY <1>1, <1>2, <1>3, <1>5 DEF VerifyOK, Offending
<1>7. s \in Offending(o, other)
  <2>1. PICK e, v, g : e = chain[s].data /\ v = chain[s].temp /\ g = HashBefore(chain, s)
    OBVIOUS
  <2>2. chain[s].hash = <<s, o, e, v, g>>
    BY <1>2, <2>1 DEF VerifyOK, Offending, ReadingHash
  <2>3. /\ other[s].hash = <<s, o, e, v, g>> /\ other[s].data = d /\ other[s].temp = t
        /\ HashBefore(other, s) = g
    BY <1>1, <1>2, <1>3, <1>4, <1>5, <2>1, <2>2 DEF Edited
  <2>4. d # e \/ t # v
    BY <1>1, <1>2, <2>1
  <2>5. <<s, o, e, v, g>> # <<s, o, d, t, g>>
    BY <2>4
  <2> QED
    BY <1>3, <2>3, <2>5 DEF Offending, ReadingHash
<1>8. Offending(o, other) = {s} /\ s \in Nat
  BY <1>3, <1>6, <1>7, OffendingRows
<1>9. Min({s}) = s
  BY <1>8, MinOf
<1> QED
  BY <1>2, <1>8, <1>9 DEF BrokenAt, VerifyOK

\* A deletion breaks the chain at the row that followed and nowhere else.
LEMMA DeleteFound ==
  ASSUME Types, NEW o \in Orgs, NEW s \in DOMAIN rows[o], VerifyOK(o, rows[o]), DeleteRow(o, s),
         NEW later, later = {t \in DOMAIN rows[o] : t > s}
  PROVE  BrokenAt(o, rows'[o]) = IF later = {} THEN 0 ELSE Min(later)
<1>1. PICK chain, other : chain = rows[o] /\ other = rows'[o]
  OBVIOUS
<1>2. /\ DOMAIN other = DOMAIN chain \ {s} /\ s \in DOMAIN chain
      /\ \A u \in DOMAIN other : other[u] = chain[u]
  BY <1>1, DeleteDoes
<1>3. Numbered(chain) /\ Numbered(other) /\ DOMAIN chain \subseteq Nat
  BY <1>1, <1>2 DEF Types, Chains, Numbered
<1>4. \A u \in DOMAIN chain : /\ u \notin Offending(o, chain)
                              /\ chain[u].prev = HashBefore(chain, u)
                              /\ chain[u].hash = <<u, o, chain[u].data, chain[u].temp, HashBefore(chain, u)>>
  BY <1>1 DEF VerifyOK, Offending, ReadingHash
<1>5. ASSUME NEW u \in DOMAIN other, u < s \/ \E m \in DOMAIN chain : s < m /\ m < u
      PROVE  u \notin Offending(o, other)
  <2>1. /\ Before(other, u) = Before(chain, u) \ {s} /\ u \in Nat /\ s \in Nat
        /\ Before(chain, u) \subseteq DOMAIN chain
    BY <1>2, <1>3 DEF Before
  <2>2. CASE u < s
    <3>1. Before(other, u) = Before(chain, u)
      BY <1>3, <2>1, <2>2 DEF Before
    <3>2. HashBefore(other, u) = HashBefore(chain, u)
      BY <1>2, <1>3, <2>1, <3>1, HashBeforeSame DEF Before
    <3> QED
      BY <1>2, <1>4, <3>2, SameVerdict
  <2>3. ASSUME NEW m \in DOMAIN chain, s < m, m < u PROVE u \notin Offending(o, other)
    <3>1. m \in Before(chain, u) /\ m \in Before(other, u) /\ m \in Nat
      BY <1>2, <1>3, <2>1, <2>3 DEF Before
    <3>2. ASSUME NEW k \in Before(chain, u), \A t \in Before(chain, u) : t <= k
          PROVE  /\ k \in Before(other, u) /\ (\A t \in Before(other, u) : t <= k)
                 /\ other[k].hash = chain[k].hash
      <4>1. m <= k /\ k \in Nat
        BY <1>3, <3>1, <3>2 DEF Before
      <4>2. k # s
        BY <2>1, <2>3, <3>1, <4>1
      <4>3. k \in Before(other, u) /\ k \in DOMAIN other
        BY <2>1, <4>2 DEF Before
      <4> QED
        BY <1>2, <2>1, <3>2, <4>3
    <3>3. HashBefore(other, u) = HashBefore(chain, u)
      BY <1>3, <2>1, <3>1, <3>2, HashBeforeSame
    <3> QED
      BY <1>2, <1>4, <3>3, SameVerdict
  <2> QED
    BY <1>5, <2>2, <2>3
<1>6. CASE later = {}
  <2>1. \A u \in DOMAIN other : u < s
    BY <1>1, <1>2, <1>3, <1>6
  <2>2. Offending(o, other) = {}
    BY <1>3, <1>5, <2>1, OffendingRows
  <2> QED
    BY <1>1, <1>6, <2>2 DEF BrokenAt, VerifyOK
<1>7. CASE later # {}
  <2>1. PICK m : m = Min(later)
    OBVIOUS
  <2>2. later \in SUBSET Nat
    BY <1>1, <1>3
  <2>3. m \in later /\ \A t \in later : m <= t
    BY <1>7, <2>1, <2>2, MinIs
  <2>4. m \in DOMAIN chain /\ s < m /\ m \in DOMAIN other /\ m \in Nat /\ s \in Nat
    BY <1>1, <1>2, <1>3, <2>3
  <2>5. \A u \in DOMAIN other : u # m => u < s \/ m < u
    BY <1>1, <1>2, <1>3, <2>3, <2>4
  <2>6. \A u \in Offending(o, other) : u = m
    BY <1>3, <1>5, <2>4, <2>5, OffendingRows
  <2>7. HashBefore(chain, m) = chain[s].hash
    <3>1. s \in Before(chain, m) /\ \A t \in Before(chain, m) : t <= s
      BY <1>1, <1>2, <1>3, <2>3, <2>4 DEF Before
    <3>2. PICK k \in Before(chain, m) : /\ \A t \in Before(chain, m) : t <= k
                                        /\ HashBefore(chain, m) = chain[k].hash
      BY <1>3, <2>4, <3>1, HashBeforeIs
    <3>3. k = s
      <4>1. k <= s /\ s <= k /\ k \in Nat
        BY <1>3, <3>1, <3>2 DEF Before
      <4> QED
        BY <2>4, <4>1
    <3> QED
      BY <3>2, <3>3
  <2>8. HashBefore(other, m) # chain[s].hash
    <3>1. PICK b, c, g : chain[s].hash = <<s, o, b, c, g>>
      BY <1>2, <1>4
    <3>2. CASE Before(other, m) = {}
      <4>1. HashBefore(other, m) = NoHash
        BY <1>3, <2>4, <3>2, HashBeforeIs
      <4>2. <<s, o, b, c, g>> # <<>>
        OBVIOUS
      <4> QED
        BY <3>1, <4>1, <4>2 DEF NoHash
    <3>3. CASE Before(other, m) # {}
      <4>1. PICK k \in Before(other, m) : HashBefore(other, m) = other[k].hash
        BY <1>3, <2>4, <3>3, HashBeforeIs
      <4>2. k \in DOMAIN chain /\ k # s /\ other[k] = chain[k]
        BY <1>2 DEF Before
      <4>3. PICK b2, c2, g2 : chain[k].hash = <<k, o, b2, c2, g2>>
        BY <1>4, <4>2
      <4>4. <<k, o, b2, c2, g2>> # <<s, o, b, c, g>>
        BY <4>2
      <4> QED
        BY <3>1, <4>1, <4>2, <4>3, <4>4
    <3> QED
      BY <3>2, <3>3
  <2>9. m \in Offending(o, other)
    BY <1>2, <1>4, <2>4, <2>7, <2>8 DEF Offending
  <2>10. Offending(o, other) = {m} /\ Min({m}) = m
    BY <2>4, <2>6, <2>9, MinOf
  <2> QED
    BY <1>1, <1>7, <2>1, <2>10 DEF BrokenAt, VerifyOK
<1> QED
  BY <1>6, <1>7

\* The unique index: the number of a row about to be committed is free, and no other
\* row about to be committed has it.
KeysFree ==
    \A w \in Writers : pc[w] = "commit" =>
        /\ NextSeq(w) \notin DOMAIN rows[req[w].org]
        /\ \A v \in Writers \ {w} :
            pc[v] = "commit" /\ req[v].org = req[w].org => NextSeq(v) # NextSeq(w)

\* Changes behind the API's back leave the numbers of pending rows alone.
LEMMA KeysTampered ==
  ASSUME Types, KeysFree, NEW o \in Orgs, NEW s \in DOMAIN rows[o],
         \/ EditField(o, s) \/ EditNote(o, s) \/ DeleteRow(o, s)
         \/ \E t \in 1 .. MaxSeq : RenumberRow(o, s, t)
         \/ \E p \in Orgs, t \in 1 .. MaxSeq : MoveToOrg(o, s, p, t)
  PROVE  KeysFree'
<1>0. UNCHANGED <<pc, req, tail>> /\ DOMAIN rows = Orgs
  BY DEF EditField, EditNote, DeleteRow, RenumberRow, MoveToOrg, Tamper, Types, Chains
<1>1. ASSUME \A w \in Writers, q \in Orgs :
                pc[w] = "commit" /\ q = req[w].org /\ NextSeq(w) \in DOMAIN rows'[q] =>
                    NextSeq(w) \in DOMAIN rows[q]
      PROVE  KeysFree'
  <2>1. \A w \in Writers : pc[w] = "commit" => req[w].org \in Orgs
    BY DEF Types, WritersOK, Request
  <2> QED
    BY <1>0, <1>1, <2>1 DEF KeysFree, NextSeq
<1>2. CASE EditField(o, s) \/ EditNote(o, s)
  <2>1. \A q \in Orgs : DOMAIN rows'[q] = DOMAIN rows[q]
    BY <1>0, <1>2 DEF EditField, EditNote
  <2> QED
    BY <1>1, <2>1
<1>3. CASE DeleteRow(o, s)
  <2>1. \A q \in Orgs : DOMAIN rows'[q] \subseteq DOMAIN rows[q]
    BY <1>3, DeleteDoes
  <2> QED
    BY <1>1, <2>1
<1>4. ASSUME NEW t \in 1 .. MaxSeq, RenumberRow(o, s, t) PROVE KeysFree'
  <2>1. DOMAIN rows'[o] \subseteq DOMAIN rows[o] \cup {t} /\ \A p \in Orgs : p # o => rows'[p] = rows[p]
    BY <1>0, <1>4 DEF RenumberRow
  <2>2. \A w \in Writers : pc[w] = "commit" /\ req[w].org = o => NextSeq(w) # t
    BY <1>4 DEF RenumberRow, KeyFree
  <2> QED
    BY <1>1, <2>1, <2>2
<1>5. ASSUME NEW p \in Orgs, NEW t \in 1 .. MaxSeq, MoveToOrg(o, s, p, t) PROVE KeysFree'
  <2>1. rows'[p] = [u \in DOMAIN rows[p] \cup {t} |-> IF u = t THEN rows[o][s] ELSE rows[p][u]]
    BY <1>0, <1>5 DEF MoveToOrg
  <2>2. rows'[o] = [u \in DOMAIN rows[o] \ {s} |-> rows[o][u]]
    BY <1>0, <1>5 DEF MoveToOrg, Without
  <2>3. \A q \in Orgs : q # o /\ q # p => rows'[q] = rows[q]
    BY <1>0, <1>5 DEF MoveToOrg
  <2>4. \A w \in Writers : pc[w] = "commit" /\ req[w].org = p => NextSeq(w) # t
    BY <1>5 DEF MoveToOrg, KeyFree
  <2> QED
    BY <1>1, <2>1, <2>2, <2>3, <2>4
<1> QED
  BY <1>2, <1>3, <1>4, <1>5

\* The API's own steps keep the numbers of pending rows apart.
LEMMA KeysApi ==
  ASSUME Types, KeysFree, NEW w \in Writers, Step(w)
  PROVE  KeysFree'
<1>1. ASSUME rows' = rows, pc'[w] # "commit",
             \A v \in Writers : v # w => pc'[v] = pc[v] /\ req'[v] = req[v] /\ tail'[v] = tail[v]
      PROVE  KeysFree'
  <2>1. \A v \in Writers : v # w => NextSeq(v)' = NextSeq(v)
    BY <1>1 DEF NextSeq
  <2> QED
    BY <1>1, <2>1 DEF KeysFree
<1>2. CASE Begin(w) \/ AcquireLock(w) \/ ReadTail(w)
  BY <1>1, <1>2 DEF Begin, AcquireLock, ReadTail, Types, WritersOK
<1>3. CASE Rollback(w)
  BY <1>1, <1>3, EndDoes DEF Rollback, Types
<1>4. CASE Insert(w)
  <2>1. UNCHANGED <<rows, req, tail>> /\ \A v \in Writers : v # w => pc'[v] = pc[v]
    BY <1>4 DEF Insert, Types, WritersOK
  <2>2. \A v \in Writers : NextSeq(v)' = NextSeq(v)
    BY <2>1 DEF NextSeq
  <2>3. CASE pc'[w] # "commit"
    BY <1>1, <2>1, <2>3
  <2>4. CASE pc'[w] = "commit"
    <3>1. NextSeq(w) \notin DOMAIN rows[req[w].org] /\ ~WaitsForKey(w)
      BY <1>4, <2>4 DEF Insert, Types, WritersOK
    <3> QED
      BY <2>1, <2>2, <3>1 DEF KeysFree, WaitsForKey
  <2> QED
    BY <2>3, <2>4
<1>5. CASE Commit(w)
  <2>1. PICK o, k : o = req[w].org /\ k = NextSeq(w)
    OBVIOUS
  <2>2. /\ \A p \in Orgs : p # o => rows'[p] = rows[p]
        /\ DOMAIN rows'[o] = DOMAIN rows[o] \cup {k}
    BY <1>5, <2>1, CommitDoes
  <2>3. /\ pc'[w] = "idle"
        /\ \A v \in Writers : v # w => pc'[v] = pc[v] /\ req'[v] = req[v] /\ tail'[v] = tail[v]
    BY <1>5, EndDoes DEF Commit, Types
  <2>4. \A v \in Writers : v # w => NextSeq(v)' = NextSeq(v)
    BY <2>3 DEF NextSeq
  <2>5. ASSUME NEW v \in Writers, v # w, pc[v] = "commit"
        PROVE  NextSeq(v) \notin DOMAIN rows'[req[v].org]
    <3>1. req[v].org \in Orgs /\ NextSeq(v) \notin DOMAIN rows[req[v].org]
      BY <2>5 DEF KeysFree, Types, WritersOK, Request
    <3>2. req[v].org = o => NextSeq(v) # k
      BY <1>5, <2>1, <2>5 DEF KeysFree, Commit
    <3> QED
      BY <2>2, <3>1, <3>2
  <2> QED
    BY <2>3, <2>4, <2>5 DEF KeysFree
<1> QED
  BY <1>2, <1>3, <1>4, <1>5 DEF Step

\* Every step keeps the numbers of pending rows free.
LEMMA KeysNext == Types /\ KeysFree /\ [TamperNext]_tamperVars => KeysFree'
<1> SUFFICES ASSUME Types, KeysFree, [TamperNext]_tamperVars PROVE KeysFree'
  OBVIOUS
<1>1. ASSUME UNCHANGED <<rows, pc, req, tail>> PROVE KeysFree'
  BY <1>1 DEF KeysFree, NextSeq
<1> QED
  BY <1>1, KeysApi, KeysTampered DEF TamperNext, ApiStep, Quiescent, tamperVars, vars

\* A reading appended after all others leaves the first offending row the first.
LEMMA AppendMendsNothing ==
  ASSUME Types, KeysFree, NEW w \in Writers, Commit(w), NEW o \in Orgs, ~VerifyOK(o, rows[o]),
         \A s \in DOMAIN rows'[o] \ DOMAIN rows[o] : s > Max(DOMAIN rows[o])
  PROVE  BrokenAt(o, rows'[o]) = BrokenAt(o, rows[o])
<1>1. CASE o # req[w].org
  BY <1>1, CommitDoes
<1>2. CASE o = req[w].org
  <2>1. PICK chain, other, k : chain = rows[o] /\ other = rows'[o] /\ k = NextSeq(w)
    OBVIOUS
  <2>2. /\ DOMAIN other = DOMAIN chain \cup {k} /\ k \notin DOMAIN chain /\ k \in Nat
        /\ \A u \in DOMAIN chain : other[u] = chain[u]
    <3>1. k \notin DOMAIN chain
      BY <1>2, <2>1 DEF KeysFree, Commit
    <3>2. /\ k \in Nat /\ DOMAIN other = DOMAIN chain \cup {k}
          /\ \A u \in DOMAIN chain : u # k => other[u] = chain[u]
      BY <1>2, <2>1, CommitDoes
    <3> QED
      BY <3>1, <3>2
  <2>3. Numbered(chain) /\ Numbered(other) /\ DOMAIN chain \subseteq Nat
    <3>1. Numbered(chain) /\ DOMAIN chain \subseteq Nat
      BY <2>1 DEF Types, Chains, Numbered
    <3>2. PICK n \in Nat : DOMAIN chain \subseteq 1 .. n
      BY <3>1 DEF Numbered
    <3>3. n + k \in Nat /\ DOMAIN other \subseteq 1 .. (n + k)
      BY <1>2, <2>1, <2>2, <3>2, CommitDoes
    <3> QED
      BY <3>1, <3>3 DEF Numbered
  <2>4. Offending(o, chain) # {} /\ Offending(o, chain) \subseteq DOMAIN chain
    BY <2>1, <2>3, OffendingRows DEF VerifyOK
  <2>5. \A u \in DOMAIN chain : u < k
    <3>1. PICK n \in Nat : DOMAIN chain \subseteq 1 .. n
      BY <2>3 DEF Numbered
    <3>2. Max(DOMAIN chain) \in DOMAIN chain /\ \A u \in DOMAIN chain : u <= Max(DOMAIN chain)
      BY <2>4, <3>1, MaxIs
    <3>3. k > Max(DOMAIN chain)
      BY <2>1, <2>2
    <3> QED
      BY <2>2, <2>3, <3>2, <3>3
  <2>6. \A u \in DOMAIN chain : u \in Offending(o, other) <=> u \in Offending(o, chain)
    <3>1. ASSUME NEW u \in DOMAIN chain PROVE HashBefore(other, u) = HashBefore(chain, u)
      <4>1. Before(other, u) = Before(chain, u) /\ Before(chain, u) \subseteq DOMAIN chain /\ u \in Nat
        BY <2>2, <2>3, <2>5 DEF Before
      <4> QED
        BY <2>2, <2>3, <4>1, HashBeforeSame
    <3> QED
      BY <2>2, <3>1, SameVerdict
  <2>7. PICK m : m = Min(Offending(o, chain))
    OBVIOUS
  <2>8. m \in Offending(o, chain) /\ \A u \in Offending(o, chain) : m <= u
    BY <2>3, <2>4, <2>7, MinIs, OffendingRows
  <2>9. m \in Offending(o, other) /\ \A u \in Offending(o, other) : m <= u
    <3>1. m \in DOMAIN chain /\ m < k /\ m \in Nat
      BY <2>3, <2>4, <2>5, <2>8
    <3>2. \A u \in Offending(o, other) : u = k \/ u \in Offending(o, chain)
      BY <2>2, <2>3, <2>6, OffendingRows
    <3> QED
      BY <2>2, <2>6, <2>8, <3>1, <3>2
  <2>10. Min(Offending(o, other)) = m
    BY <2>3, <2>9, MinOf, OffendingRows
  <2> QED
    BY <2>1, <2>4, <2>7, <2>9, <2>10 DEF BrokenAt, VerifyOK
<1> QED
  BY <1>1, <1>2

\* A break is reported at the row that was edited, or at the one that followed a
\* deleted row, and readings appended later do not move it.
THEOREM BreaksStayPinpointed == TamperSpec => BreaksPinpointed
<1>1. TamperInit => Types /\ KeysFree
  BY TypesInit DEF TamperInit, Init, KeysFree
<1>2. (Types /\ KeysFree) /\ [TamperNext]_tamperVars => (Types /\ KeysFree)'
  BY TypesNext, KeysNext
<1>3. (Types /\ KeysFree) /\ [TamperNext]_tamperVars =>
        [\A o \in Orgs : \A s \in DOMAIN rows[o] :
            VerifyOK(o, rows[o]) /\ EditField(o, s) => BrokenAt(o, rows'[o]) = s]_tamperVars
  BY EditFound
<1>4. (Types /\ KeysFree) /\ [TamperNext]_tamperVars =>
        [\A o \in Orgs : \A s \in DOMAIN rows[o] :
            LET later == {t \in DOMAIN rows[o] : t > s}
            IN  VerifyOK(o, rows[o]) /\ DeleteRow(o, s) =>
                    BrokenAt(o, rows'[o]) = IF later = {} THEN 0 ELSE Min(later)]_tamperVars
  BY DeleteFound
<1>5. (Types /\ KeysFree) /\ [TamperNext]_tamperVars =>
        [tampers' = tampers =>
            \A o \in Orgs :
                /\ ~VerifyOK(o, rows[o])
                /\ \A s \in DOMAIN rows'[o] \ DOMAIN rows[o] : s > Max(DOMAIN rows[o])
                => BrokenAt(o, rows'[o]) = BrokenAt(o, rows[o])]_tamperVars
  <2>1. (Types /\ KeysFree) /\ [TamperNext]_tamperVars /\ tampers' = tampers =>
            rows' = rows \/ \E w \in Writers : Commit(w)
    BY Cases DEF Types, tamperVars, vars
  <2> QED
    BY <2>1, AppendMendsNothing
<1>6. TamperSpec => EditPinpointed /\ InteriorDeletePinpointed /\ AppendsNeverMend
  BY <1>1, <1>2, <1>3, <1>4, <1>5, PTL
  DEF TamperSpec, EditPinpointed, InteriorDeletePinpointed, AppendsNeverMend
<1> QED
  BY <1>6 DEF BreaksPinpointed
=============================================================================
