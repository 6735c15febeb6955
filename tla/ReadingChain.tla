---------------------------- MODULE ReadingChain ----------------------------
(***************************************************************************)
(* The tamper-evident reading log of the API: insertChainedReading and     *)
(* VerifyReadingChain of backend/internal/store/chain.go.                  *)
(*                                                                         *)
(* A writer is one request goroutine (a manual log or one element of an    *)
(* ingest batch) running the insert transaction at READ COMMITTED; each of *)
(* its SQL statements is a step, so the transactions of several writers    *)
(* interleave. Any of them may be rolled back at any point (an error, a    *)
(* cancelled request, a crash of the API process).                         *)
(*                                                                         *)
(* SHA-256 is modelled as collision free: a hash IS the tuple it digests.  *)
(* Unit, recorder, source and time of a reading are one hashed value       *)
(* "data"; the note is kept apart because the code does not hash it; the   *)
(* temperature is kept because the code converts it on the way.            *)
(***************************************************************************)
EXTENDS Integers, FiniteSetsExt

CONSTANTS
    Orgs,      \* the organizations
    Writers,   \* concurrent insert transactions
    NoWriter,  \* holder of a free lock
    LockKey,   \* LockKey[o]: hashtext("readings:" + o); two orgs may collide
    Data,      \* unit, recorded_by, source and recorded_at of a reading
    Notes,     \* the free-text note
    Temps,     \* submitted temperatures, in hundredths of a degree F
    MaxSeq     \* bound: no insert starts on a chain this long

ASSUME ConstantsOK ==
    /\ NoWriter \notin Writers
    /\ Temps \subseteq Int
    /\ LockKey = [o \in Orgs |-> LockKey[o]]
    /\ MaxSeq \in Nat

VARIABLES
    rows,      \* rows[o]: committed readings of o, a function on their chain_seq
    lock,      \* lock[k]: the transaction holding advisory lock k, or NoWriter
    pc,        \* pc[w]: the statement writer w executes next
    req,       \* req[w]: what w was asked to insert
    tail       \* tail[w]: the end of the chain as w read it

vars == <<rows, lock, pc, req, tail>>

LockKeys == {LockKey[o] : o \in Orgs}

-----------------------------------------------------------------------------
(* Temperatures. A float64 with one decimal is a sign and a magnitude in   *)
(* tenths, because the sign of a zero survives arithmetic and shows when   *)
(* it is printed with "%.1f". A numeric(5,1) column has a single zero.     *)

Float == [neg : BOOLEAN, tenths : Nat]

\* round1: one decimal, half away from zero.
Round1(h) == IF h < 0 THEN [neg |-> TRUE,  tenths |-> (5 - h) \div 10]
                      ELSE [neg |-> FALSE, tenths |-> (h + 5) \div 10]

\* The value temp_f holds once Postgres has stored f, and scans back to.
Numeric(f) == [neg |-> f.neg /\ f.tenths # 0, tenths |-> f.tenths]

\* numeric(5,1) holds four digits before the point; more is an error.
FitsNumeric(f) == f.tenths <= 99999

\* What round1 makes of a temperature between -0.05 and 0; Postgres stores 0.0.
NegativeZero == [neg |-> TRUE, tenths |-> 0]

-----------------------------------------------------------------------------
(* The hash chain.                                                         *)

NoHash == <<>>

\* Mutants: a hash that leaves out the organization, or the temperature.
ReadingHashNoOrg(seq, org, data, temp, prevHash) == <<seq, "org", data, temp, prevHash>>
ReadingHashNoTemp(seq, org, data, temp, prevHash) == <<seq, org, data, 0, prevHash>>

ReadingHash(seq, org, data, temp, prevHash) == <<seq, org, data, temp, prevHash>>

\* The last link of a chain, 0 and the empty hash when there is none.
ChainTail(chain) ==
    IF DOMAIN chain = {} THEN [seq |-> 0, hash |-> NoHash]
    ELSE [seq |-> Max(DOMAIN chain), hash |-> chain[Max(DOMAIN chain)].hash]

\* The stored hash of the row the verification walk visits before row s.
HashBefore(chain, s) ==
    ChainTail([t \in {t \in DOMAIN chain : t < s} |-> chain[t]]).hash

\* The rows at which VerifyReadingChain finds a broken link or a wrong hash.
Offending(o, chain) ==
    {s \in DOMAIN chain :
        \/ chain[s].prev # HashBefore(chain, s)
        \/ chain[s].hash # ReadingHash(s, o, chain[s].data, chain[s].temp,
                                       HashBefore(chain, s))}

\* ChainStatus.OK and ChainStatus.BrokenAtSeq (0 for nil).
VerifyOK(o, chain) == Offending(o, chain) = {}

BrokenAt(o, chain) == IF VerifyOK(o, chain) THEN 0 ELSE Min(Offending(o, chain))

-----------------------------------------------------------------------------
\* "conflict" is a violation of the unique index on (org_id, chain_seq);
\* "failed" any other error the transaction is about to be rolled back for.
Pcs == {"idle", "lock", "tail", "insert", "commit", "conflict", "failed"}

Request == [org : Orgs, data : Data, temp : Temps, note : Notes]

NoRequest == [org |-> "none"]
NoTail == [seq |-> 0, hash |-> NoHash]

Init ==
    /\ rows = [o \in Orgs |-> [s \in {} |-> NoHash]]
    /\ lock = [k \in LockKeys |-> NoWriter]
    /\ pc = [w \in Writers |-> "idle"]
    /\ req = [w \in Writers |-> NoRequest]
    /\ tail = [w \in Writers |-> NoTail]

\* Mutant: a session-level lock that nobody unlocks.
ReleaseNothing(w) == UNCHANGED lock

\* Releasing a transaction's locks, at its commit or rollback.
ReleaseLocks(w) == lock' = [k \in LockKeys |-> IF lock[k] = w THEN NoWriter ELSE lock[k]]

EndTransaction(w) ==
    /\ ReleaseLocks(w)
    /\ pc' = [pc EXCEPT ![w] = "idle"]
    /\ req' = [req EXCEPT ![w] = NoRequest]
    /\ tail' = [tail EXCEPT ![w] = NoTail]

\* CreateReading / CreateSensorReading on a unit of the organization: the
\* transaction begins and is about to ask for the chain's advisory lock.
Begin(w) ==
    /\ pc[w] = "idle"
    /\ \E r \in Request :
        /\ ChainTail(rows[r.org]).seq < MaxSeq
        /\ req' = [req EXCEPT ![w] = r]
    /\ pc' = [pc EXCEPT ![w] = "lock"]
    /\ UNCHANGED <<rows, lock, tail>>

\* Mutant: no advisory lock is taken.
LockIgnored(w) == TRUE

LockFree(w) == lock[LockKey[req[w].org]] = NoWriter

\* pg_advisory_xact_lock: waits for the lock, keeps it to the transaction's end.
AcquireLock(w) ==
    /\ pc[w] = "lock"
    /\ LockFree(w)
    /\ lock' = [lock EXCEPT ![LockKey[req[w].org]] = w]
    /\ pc' = [pc EXCEPT ![w] = "tail"]
    /\ UNCHANGED <<rows, req, tail>>

\* SELECT chain_seq, row_hash ... LIMIT 1: the rows committed by now.
ReadTail(w) ==
    /\ pc[w] = "tail"
    /\ tail' = [tail EXCEPT ![w] = ChainTail(rows[req[w].org])]
    /\ pc' = [pc EXCEPT ![w] = "insert"]
    /\ UNCHANGED <<rows, lock, req>>

\* Mutants: the number of the last row again; a number left out.
NextSeqSame(w) == tail[w].seq
NextSeqSkips(w) == tail[w].seq + 2

NextSeq(w) == tail[w].seq + 1

\* Mutants: a prev_hash that is not stored; a temperature hashed before it is
\* rounded; a note that is not stored.
NewRowUnlinked(w) ==
    [data |-> req[w].data, temp |-> Numeric(Round1(req[w].temp)), note |-> req[w].note,
     prev |-> NoHash,
     hash |-> ReadingHash(NextSeq(w), req[w].org, req[w].data, Round1(req[w].temp),
                          tail[w].hash)]
NewRowUnrounded(w) ==
    [data |-> req[w].data, temp |-> Round1(req[w].temp), note |-> req[w].note,
     prev |-> tail[w].hash,
     hash |-> ReadingHash(NextSeq(w), req[w].org, req[w].data, Round1(req[w].temp),
                          tail[w].hash)]

\* The row w inserts: the rounded temperature is hashed as printed and
\* stored as numeric.
NewRow(w) ==
    LET r == req[w]
        temp == Round1(r.temp)
    IN  [data |-> r.data, temp |-> Numeric(temp), note |-> r.note,
         prev |-> tail[w].hash,
         hash |-> ReadingHash(NextSeq(w), r.org, r.data, temp, tail[w].hash)]

\* An uncommitted row with w's key makes the insert wait for its transaction.
WaitsForKey(w) ==
    \E v \in Writers \ {w} :
        /\ pc[v] = "commit"
        /\ req[v].org = req[w].org
        /\ NextSeq(v) = NextSeq(w)

Insert(w) ==
    /\ pc[w] = "insert"
    /\ ~WaitsForKey(w)
    /\ pc' = [pc EXCEPT ![w] =
                 IF ~FitsNumeric(Round1(req[w].temp)) THEN "failed"
                 ELSE IF NextSeq(w) \in DOMAIN rows[req[w].org] THEN "conflict"
                 ELSE "commit"]
    /\ UNCHANGED <<rows, lock, req, tail>>

Commit(w) ==
    /\ pc[w] = "commit"
    /\ LET o == req[w].org
           k == NextSeq(w)
       IN  rows' = [rows EXCEPT ![o] = [s \in DOMAIN @ \cup {k} |->
                                          IF s = k THEN NewRow(w) ELSE @[s]]]
    /\ EndTransaction(w)

\* The deferred tx.Rollback, or the server's when the connection is lost.
Rollback(w) ==
    /\ pc[w] # "idle"
    /\ EndTransaction(w)
    /\ UNCHANGED rows

\* Nothing more to do within the bound; keeps the deadlock check on.
Quiescent ==
    /\ \A w \in Writers : pc[w] = "idle"
    /\ \A o \in Orgs : ChainTail(rows[o]).seq >= MaxSeq
    /\ UNCHANGED vars

Step(w) == Begin(w) \/ AcquireLock(w) \/ ReadTail(w) \/ Insert(w) \/ Commit(w) \/ Rollback(w)

Next == (\E w \in Writers : Step(w)) \/ Quiescent

Spec == Init /\ [][Next]_vars

\* Statements of an open transaction run; a failed one is rolled back; the
\* lock queue of Postgres is first come, first served.
Fairness ==
    \A w \in Writers :
        /\ SF_vars(AcquireLock(w))
        /\ WF_vars(ReadTail(w) \/ Insert(w) \/ Commit(w))
        /\ WF_vars(pc[w] \in {"failed", "conflict"} /\ Rollback(w))

FairSpec == Spec /\ Fairness

-----------------------------------------------------------------------------
(* Properties.                                                             *)

StoredTemps == {Numeric(Round1(h)) : h \in Temps}
Entries == [data : Data, temp : StoredTemps, note : Notes]
Entry(row) == [data |-> row.data, temp |-> row.temp, note |-> row.note]

\* Every variable keeps its type: committed rows carry the columns a request
\* supplied, positive sequence numbers, and each lock has one holder at most.
TypeOK ==
    /\ DOMAIN rows = Orgs
    /\ \A o \in Orgs :
        /\ DOMAIN rows[o] \subseteq Nat \ {0}
        /\ \A s \in DOMAIN rows[o] : Entry(rows[o][s]) \in Entries
    /\ lock \in [LockKeys -> Writers \cup {NoWriter}]
    /\ pc \in [Writers -> Pcs]
    /\ req \in [Writers -> Request \cup {NoRequest}]
    /\ \A w \in Writers : pc[w] # "idle" => req[w] \in Request
    /\ DOMAIN tail = Writers
    /\ \A w \in Writers : tail[w].seq \in Nat

\* The chain of an organization has no gap and no fork: its sequence numbers
\* are 1 to n and each row carries the hash of the row before it, whatever the
\* interleaving of inserts and rollbacks (insertChainedReading's comment).
ChainLinked ==
    \A o \in Orgs :
        /\ DOMAIN rows[o] = 1 .. ChainTail(rows[o]).seq
        /\ \A s \in DOMAIN rows[o] :
            rows[o][s].prev = IF s = 1 THEN NoHash ELSE rows[o][s - 1].hash

\* The advisory lock alone keeps sequence numbers apart: no insert ever meets
\* the unique index idx_readings_chain, so no reading is refused because
\* another was being recorded.
NoConflict == \A w \in Writers : pc[w] # "conflict"

\* Concurrent inserts leave a whole chain, and none of them fails for another:
\* the lock is enough for both.
ChainSound == ChainLinked /\ NoConflict

\* What a writer read stays true until it commits: between its SELECT and its
\* COMMIT nobody else moves the end of the chain it is extending.
TailFresh ==
    \A w \in Writers : pc[w] \in {"insert", "commit"} => tail[w] = ChainTail(rows[req[w].org])

\* VerifyReadingChain blames exactly the honest rows whose temperature was
\* rounded to -0.0: every other chain nobody touched is reported intact, and
\* a broken one is reported at the first of those rows.
BrokenOnlyAtNegativeZero ==
    \A o \in Orgs :
        Offending(o, rows[o]) =
            {s \in DOMAIN rows[o] : rows[o][s].hash[4] = NegativeZero}

\* What round1's comment claims: the hashed input and the stored value never
\* diverge, so a chain nobody touched verifies.
HonestChainVerifies == \A o \in Orgs : VerifyOK(o, rows[o])

\* The table is an append-only log of whole readings per organization.
Log == INSTANCE AppendLog WITH
           log <- [o \in Orgs |-> [s \in DOMAIN rows[o] |-> Entry(rows[o][s])]]

ImplementsLog == Log!Spec

\* An insert waiting for the lock ends, committed or rolled back, however many
\* others compete for it.
InsertEnds == \A w \in Writers : pc[w] = "lock" ~> pc[w] = "idle"
=============================================================================
