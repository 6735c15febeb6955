---------------------------- MODULE ChainTamper ----------------------------
(***************************************************************************)
(* ReadingChain with somebody changing the readings table by other means   *)
(* than the API (SQL, a restore, a bad migration), as the tests of         *)
(* chain_integration_test.go do: a hashed column or the note edited, a row *)
(* deleted or taken out of the chain (chain_seq NULL), a row given another *)
(* place or another organization. What VerifyReadingChain then reports is  *)
(* compared with the history of what the API accepted.                     *)
(***************************************************************************)
EXTENDS ReadingChain

CONSTANT MaxTampers   \* bound on the changes made behind the API's back

ASSUME MaxTampersOK == MaxTampers \in Nat

VARIABLES
    accepted,  \* accepted[o]: number, data, temperature and predecessor's hash
               \* of every reading committed
    tampers    \* how many changes were made behind the API's back

tamperVars == <<vars, accepted, tampers>>

TamperInit ==
    /\ Init
    /\ accepted = [o \in Orgs |-> {}]
    /\ tampers = 0

\* The API's own steps; a commit enters the history.
ApiStep(w) ==
    /\ Step(w)
    /\ accepted' = IF rows' = rows THEN accepted
                   ELSE [accepted EXCEPT ![req[w].org] =
                           @ \cup {<<NextSeq(w), req[w].data, NewRow(w).temp, tail[w].hash>>}]
    /\ UNCHANGED tampers

Tamper ==
    /\ tampers < MaxTampers
    /\ tampers' = tampers + 1
    /\ UNCHANGED <<lock, pc, req, tail, accepted>>

\* UPDATE readings SET temp_f = ... (or unit, recorder, source, time).
EditField(o, s) ==
    /\ Tamper
    /\ \E d \in Data, t \in StoredTemps :
        /\ <<d, t>> # <<rows[o][s].data, rows[o][s].temp>>
        /\ rows' = [rows EXCEPT ![o][s].data = d, ![o][s].temp = t]

EditNote(o, s) ==
    /\ Tamper
    /\ \E n \in Notes \ {rows[o][s].note} : rows' = [rows EXCEPT ![o][s].note = n]

Without(chain, s) == [t \in DOMAIN chain \ {s} |-> chain[t]]

\* DELETE, or UPDATE ... SET chain_seq = NULL.
DeleteRow(o, s) ==
    /\ Tamper
    /\ rows' = [rows EXCEPT ![o] = Without(@, s)]

\* No row, committed or about to be, has number t: the index is unique.
KeyFree(o, t) ==
    /\ t \notin DOMAIN rows[o]
    /\ ~\E w \in Writers : pc[w] = "commit" /\ req[w].org = o /\ NextSeq(w) = t

\* UPDATE ... SET chain_seq = t.
RenumberRow(o, s, t) ==
    /\ Tamper
    /\ KeyFree(o, t)
    /\ rows' = [rows EXCEPT ![o] = [u \in (DOMAIN @ \ {s}) \cup {t} |->
                                      IF u = t THEN @[s] ELSE @[u]]]

\* UPDATE ... SET org_id = p, with a number that is free there.
MoveToOrg(o, s, p, t) ==
    /\ Tamper
    /\ p # o
    /\ KeyFree(p, t)
    /\ rows' = [rows EXCEPT ![o] = Without(@, s),
                            ![p] = [u \in DOMAIN @ \cup {t} |->
                                      IF u = t THEN rows[o][s] ELSE @[u]]]

TamperNext ==
    \/ \E w \in Writers : ApiStep(w)
    \/ \E o \in Orgs : \E s \in DOMAIN rows[o] :
        \/ EditField(o, s)
        \/ EditNote(o, s)
        \/ DeleteRow(o, s)
        \/ \E t \in 1 .. MaxSeq : RenumberRow(o, s, t)
        \/ \E p \in Orgs, t \in 1 .. MaxSeq : MoveToOrg(o, s, p, t)
    \/ Quiescent /\ UNCHANGED <<accepted, tampers>>

TamperSpec == TamperInit /\ [][TamperNext]_tamperVars

-----------------------------------------------------------------------------
\* A chain that verifies holds nothing but what the API accepted, at the number
\* and right after the very row it was accepted after: no mix of edited,
\* deleted, moved and newly appended rows passes for an honest chain.
\* (Verification does not ask for consecutive numbers: a change between an
\* insert's read of the tail and its commit can leave a gap that verifies.)
VerifiedMeansAccepted ==
    \A o \in Orgs : VerifyOK(o, rows[o]) =>
        \A s \in DOMAIN rows[o] :
            <<s, rows[o][s].data, rows[o][s].temp, HashBefore(rows[o], s)>> \in accepted[o]

\* Editing a hashed field of one row of an intact chain is reported at that
\* very row (VerifyReadingChain's "first offending chain_seq").
EditPinpointed ==
    [][\A o \in Orgs : \A s \in DOMAIN rows[o] :
        VerifyOK(o, rows[o]) /\ EditField(o, s) => BrokenAt(o, rows'[o]) = s]_tamperVars

\* Deleting a row of an intact chain is reported at the row that followed it,
\* if there was one; the newest rows can go unnoticed.
InteriorDeletePinpointed ==
    [][\A o \in Orgs : \A s \in DOMAIN rows[o] :
        LET later == {t \in DOMAIN rows[o] : t > s}
        IN  VerifyOK(o, rows[o]) /\ DeleteRow(o, s) =>
                BrokenAt(o, rows'[o]) = IF later = {} THEN 0 ELSE Min(later)]_tamperVars

\* A break is never papered over by the readings recorded after it: whatever
\* the API appends, the chain stays broken at the same row. (A reading whose
\* transaction read the tail before the change may land before later rows
\* instead, and even restore a deleted row when it is the same reading.)
AppendsNeverMend ==
    [][tampers' = tampers =>
        \A o \in Orgs :
            /\ ~VerifyOK(o, rows[o])
            /\ \A s \in DOMAIN rows'[o] \ DOMAIN rows[o] : s > Max(DOMAIN rows[o])
            => BrokenAt(o, rows'[o]) = BrokenAt(o, rows[o])]_tamperVars

\* What verification reports after a change is the place of the change, and stays
\* so whatever is recorded afterwards.
BreaksPinpointed == EditPinpointed /\ InteriorDeletePinpointed /\ AppendsNeverMend
=============================================================================
