---------------------------- MODULE StoreForward ----------------------------
(***************************************************************************)
(* The way of a sensor reading from the gateway's sampler to the readings  *)
(* table: sampler.go, the deliver loop of gateway/main.go, the disk spool  *)
(* of spool.go, the client, and the ingest handler of the API. Requests    *)
(* fail or time out with part of them stored, the handler of a request the *)
(* client gave up on may still be running, files fail, and the gateway     *)
(* crashes, is stopped and is started again.                               *)
(***************************************************************************)
EXTENDS Integers, Sequences, FiniteSets

CONSTANTS
    Macs,           \* sensors in range
    BoundMacs,      \* those bound to a unit; the API ignores the others
    ChanCap,        \* capacity of the sampler's channel (8)
    SpoolMax,       \* most records the spool keeps
    MaxObs,         \* bound: observations
    MaxNetErrors,   \* bound: requests that fail
    MaxDiskErrors,  \* bound: failing writes to or removals of the spool
    MaxReadErrors,  \* bound: reads of the spool that fail half way
    MaxCrashes,     \* bound: crashes of the gateway
    MaxStops        \* bound: orderly stops

ASSUME ConstantsOK ==
    /\ IsFiniteSet(Macs) /\ BoundMacs \subseteq Macs
    /\ ChanCap \in Nat /\ SpoolMax \in Nat
    /\ {MaxObs, MaxNetErrors, MaxDiskErrors, MaxReadErrors, MaxCrashes, MaxStops} \subseteq Nat

VARIABLES
    gw,       \* the gateway process
    obs,      \* observations so far, the time of the last one
    latest,   \* sampler.latest: the reading of each sensor, its time or 0
    chan,     \* sampler.out: batches waiting for delivery
    dpc,      \* where the deliver loop is
    batch,    \* deliver's batch
    backlog,  \* deliver's spooled
    spool,    \* the spool file
    req,      \* the request deliver waits for, at the API
    orphans,  \* what requests the client gave up on may still store
    stored,   \* stored[r]: rows of r in the readings table
    budget,   \* what may still fail
    emitted, lost  \* history: readings flushed; given up for a reason the
                   \* gateway cannot help

gateway == <<gw, obs, latest, chan>>
delivery == <<dpc, batch, backlog, req>>
history == <<emitted, lost>>
vars == <<gateway, delivery, spool, orphans, stored, budget, history>>

\* A reading is its sensor and when it was measured.
Readings == Macs \X (1 .. MaxObs)

Elems(s) == {s[i] : i \in DOMAIN s}

\* The sequences that list every element of S once: map iteration order.
Orders(S) == {s \in [1 .. Cardinality(S) -> S] : Elems(s) = S}

-----------------------------------------------------------------------------
(* The spool: its lines, and whether the last one lacks its newline. A     *)
(* line that is not one whole record is skipped when it is read.           *)

Garbage == <<"garbage", 0>>
EmptySpool == [lines |-> <<>>, torn |-> FALSE]

Whole(lines) == {i \in DOMAIN lines : lines[i] # Garbage}

\* i's place among the members of S, and which of them is the nth.
Rank(S, i) == Cardinality({j \in S : j <= i})
Nth(S, n) == CHOOSE i \in S : Rank(S, i) = n

\* The whole lines, in the order of the file.
Records(lines) ==
    LET S == Whole(lines)
    IN  [n \in 1 .. Cardinality(S) |-> lines[Nth(S, n)]]

\* Mutant: the file opened without O_APPEND.
WrittenOver(file, rs) == [lines |-> rs, torn |-> FALSE]

\* Writing rs at the end of the file: the first record joins a torn line and
\* both are unreadable.
Written(file, rs) ==
    IF file.torn /\ rs # <<>>
    THEN [lines |-> [file.lines EXCEPT ![Len(file.lines)] = Garbage] \o Tail(rs), torn |-> FALSE]
    ELSE [lines |-> file.lines \o rs, torn |-> file.torn]

\* Mutant: the oldest SpoolMax records are kept.
TrimmedToOldest(file) ==
    LET all == Records(file.lines)
    IN  IF Len(all) <= SpoolMax THEN file
        ELSE [lines |-> SubSeq(all, 1, SpoolMax), torn |-> FALSE]

\* trimLocked: the newest SpoolMax records, when there are more.
Trimmed(file) ==
    LET all == Records(file.lines)
    IN  IF Len(all) <= SpoolMax THEN file
        ELSE [lines |-> SubSeq(all, Len(all) - SpoolMax + 1, Len(all)), torn |-> FALSE]

\* What a write that breaks off can leave: some records of rs, the last of them
\* perhaps without its newline, or cut short.
PartlyWritten(file, rs) ==
    {Written(file, SubSeq(rs, 1, k)) : k \in 0 .. Len(rs)}
    \cup {[Written(file, SubSeq(rs, 1, k)) EXCEPT !.torn = TRUE] : k \in 1 .. Len(rs)}
    \cup {[Written(file, Append(SubSeq(rs, 1, k), Garbage)) EXCEPT !.torn = TRUE] :
            k \in 0 .. Len(rs) - 1}

Spooled == Elems(Records(spool.lines))

-----------------------------------------------------------------------------
NoRequest == [state |-> "none", todo |-> <<>>]

Init ==
    /\ gw = "up" /\ obs = 0
    /\ latest = [m \in Macs |-> 0]
    /\ chan = <<>>
    /\ dpc = "recv" /\ batch = <<>> /\ backlog = <<>> /\ req = NoRequest
    /\ spool = EmptySpool
    /\ orphans = {}
    /\ stored = [r \in Readings |-> 0]
    /\ budget = [net |-> MaxNetErrors, disk |-> MaxDiskErrors, read |-> MaxReadErrors,
                 crash |-> MaxCrashes, stop |-> MaxStops]
    /\ emitted = {} /\ lost = {}

Spend(what) == budget[what] > 0 /\ budget' = [budget EXCEPT ![what] = @ - 1]

-----------------------------------------------------------------------------
(* The sampler.                                                            *)

\* Observe: the newest reading of a sensor replaces the one not yet flushed.
Observe(m) ==
    /\ gw # "down"
    /\ obs < MaxObs
    /\ obs' = obs + 1
    /\ latest' = [latest EXCEPT ![m] = obs + 1]
    /\ UNCHANGED <<gw, chan, delivery, spool, orphans, stored, budget, history>>

Pending == {<<m, latest[m]>> : m \in {m \in Macs : latest[m] # 0}}

\* Mutant: a channel with room for one batch too many.
QueueOver(b) == IF Len(chan) <= ChanCap THEN chan' = Append(chan, b) /\ lost' = lost
                ELSE chan' = chan /\ lost' = lost \cup Elems(b)

\* The select of flush: a batch for which the channel has no room is dropped.
Queue(b) == IF Len(chan) < ChanCap THEN chan' = Append(chan, b) /\ lost' = lost
            ELSE chan' = chan /\ lost' = lost \cup Elems(b)

\* flush, with something to flush.
Emit ==
    /\ \E b \in Orders(Pending) : Queue(b)
    /\ latest' = [m \in Macs |-> 0]
    /\ emitted' = emitted \cup Pending

\* A tick; on ctx.Done too, when select picks the ticker first.
Flush ==
    /\ gw \in {"up", "stopping"}
    /\ Pending # {}
    /\ Emit
    /\ UNCHANGED <<gw, obs, delivery, spool, orphans, stored, budget>>

\* A tick with nothing observed: flush returns at once.
FlushNothing ==
    /\ gw = "up"
    /\ Pending = {}
    /\ UNCHANGED vars

\* SIGTERM, or the sensor source stops.
Stop ==
    /\ gw = "up"
    /\ Spend("stop")
    /\ gw' = "stopping"
    /\ UNCHANGED <<obs, latest, chan, delivery, spool, orphans, stored, history>>

\* Run sees ctx.Done: it flushes and closes the channel.
FinalFlush ==
    /\ gw = "stopping"
    /\ IF Pending = {} THEN UNCHANGED <<latest, chan, history>> ELSE Emit
    /\ gw' = "draining"
    /\ UNCHANGED <<obs, delivery, spool, orphans, stored, budget>>

-----------------------------------------------------------------------------
(* deliver.                                                                *)

\* Mutant: the new batch goes first.
PostedBatchFirst(spooled, b) == b \o spooled

\* What is posted: the backlog first.
Posted(spooled, b) == spooled \o b

\* The next batch is received, the spool loaded, and both posted in one request.
\* LoadAll returns the records it could read; its error is not looked at.
Deliver(spooled) ==
    /\ dpc = "recv" /\ chan # <<>>
    /\ chan' = Tail(chan)
    /\ batch' = Head(chan)
    /\ backlog' = spooled
    /\ req' = [state |-> "running", todo |-> Posted(spooled, Head(chan))]
    /\ dpc' = "wait"
    /\ UNCHANGED <<gw, obs, latest, spool, orphans, stored, history>>

Receive ==
    /\ gw # "down"
    /\ Deliver(Records(spool.lines))
    /\ UNCHANGED budget

\* The spool cannot be read, or not to its end.
ReceiveWithReadError ==
    /\ gw # "down"
    /\ Spend("read")
    /\ \E k \in 0 .. Len(Records(spool.lines)) - 1 : Deliver(SubSeq(Records(spool.lines), 1, k))

\* Mutant: deliver never returns to its channel.
DoneNever == dpc' = dpc /\ batch' = <<>> /\ backlog' = <<>> /\ req' = NoRequest

Done == dpc' = "recv" /\ batch' = <<>> /\ backlog' = <<>> /\ req' = NoRequest

\* Mutant: the spool is never cleared.
NeverClear == FALSE

NeedsClear == backlog # <<>>

\* A 2xx answer: everything posted is in, the spool can go.
Accepted ==
    /\ dpc = "wait" /\ req.state = "ok"
    /\ IF NeedsClear THEN dpc' = "clear" /\ UNCHANGED <<batch, backlog, req>> ELSE Done
    /\ UNCHANGED <<gateway, spool, orphans, stored, budget, history>>

\* sp.Clear; its error is not looked at either.
Clear ==
    /\ dpc = "clear"
    /\ \/ spool' = EmptySpool /\ UNCHANGED budget
       \/ spool' = spool /\ Spend("disk")
    /\ Done
    /\ UNCHANGED <<gateway, orphans, stored, history>>

Orphaned == IF req.state = "running" THEN orphans \cup {req.todo} ELSE orphans

\* The request fails: an error answer, no connection, or the client's timeout
\* with the handler still at work or the answer on its way.
SendFails ==
    /\ dpc = "wait"
    /\ IF req.state = "error" THEN UNCHANGED budget ELSE Spend("net")
    /\ orphans' = Orphaned
    /\ dpc' = "spool"
    /\ req' = NoRequest
    /\ UNCHANGED <<gateway, batch, backlog, spool, stored, history>>

\* What the file had or was to get and no longer has.
Missing == (Spooled \cup Elems(batch)) \ Spooled'

\* The only records a write that succeeds may cost: the oldest when there are
\* too many, and those that join the line an earlier failure left torn.
MayLose == Len(Records(spool.lines)) + Len(batch) > SpoolMax \/ spool.torn

\* sp.Append of the new batch; the backlog is in the file already.
SpoolBatch ==
    /\ dpc = "spool"
    /\ \/ /\ spool' = Trimmed(Written(spool, batch))
          /\ lost' = IF MayLose THEN lost \cup Missing ELSE lost
          /\ UNCHANGED budget
       \/ /\ spool' \in PartlyWritten(spool, batch)
          /\ lost' = lost \cup Missing
          /\ Spend("disk")
    /\ Done
    /\ UNCHANGED <<gateway, orphans, stored, emitted>>

\* The channel is closed and empty: main returns.
Exit ==
    /\ gw = "draining"
    /\ dpc = "recv" /\ chan = <<>>
    /\ gw' = "down"
    /\ latest' = [m \in Macs |-> 0]
    /\ UNCHANGED <<obs, chan, delivery, spool, orphans, stored, budget, history>>

\* The process dies: what is in memory is gone, the spool stays, perhaps half
\* written. A power failure may cost more, the spool being never synced to disk.
Crash ==
    /\ gw # "down"
    /\ Spend("crash")
    /\ gw' = "down"
    /\ latest' = [m \in Macs |-> 0]
    /\ chan' = <<>>
    /\ orphans' = Orphaned
    /\ IF dpc = "spool" THEN spool' \in PartlyWritten(spool, batch) ELSE spool' = spool
    /\ Done
    /\ lost' = lost \cup ((Spooled \cup Elems(batch)
                           \cup UNION {Elems(chan[i]) : i \in DOMAIN chan}) \ Spooled')
    /\ UNCHANGED <<obs, stored, emitted>>

Restart ==
    /\ gw = "down"
    /\ gw' = "up"
    /\ UNCHANGED <<obs, latest, chan, delivery, spool, orphans, stored, budget, history>>

-----------------------------------------------------------------------------
(* handleIngestReadings: the readings of a request one after the other,    *)
(* each in a transaction of its own.                                       *)

Insert(r) == stored' = [stored EXCEPT ![r] = IF r[1] \in BoundMacs THEN @ + 1 ELSE @]

IngestNext ==
    /\ req.state = "running" /\ req.todo # <<>>
    /\ Insert(Head(req.todo))
    /\ req' = [req EXCEPT !.todo = Tail(@)]
    /\ UNCHANGED <<gateway, dpc, batch, backlog, spool, orphans, budget, history>>

IngestDone ==
    /\ req.state = "running" /\ req.todo = <<>>
    /\ req' = [req EXCEPT !.state = "ok"]
    /\ UNCHANGED <<gateway, dpc, batch, backlog, spool, orphans, stored, budget, history>>

\* A lookup or an insert fails: the handler answers 500, keeping what it stored.
IngestFails ==
    /\ req.state = "running" /\ req.todo # <<>>
    /\ Spend("net")
    /\ req' = [req EXCEPT !.state = "error"]
    /\ UNCHANGED <<gateway, dpc, batch, backlog, spool, orphans, stored, history>>

\* The handler of a request the client gave up on stores another reading, or
\* notices the cancelled context.
OrphanStep ==
    /\ \E todo \in orphans :
        \/ /\ todo # <<>>
           /\ Insert(Head(todo))
           /\ orphans' = (orphans \ {todo}) \cup {Tail(todo)}
        \/ /\ orphans' = orphans \ {todo}
           /\ UNCHANGED stored
    /\ UNCHANGED <<gateway, delivery, spool, budget, history>>

Ingest == IngestNext \/ IngestDone \/ IngestFails

DeliverStep == Receive \/ ReceiveWithReadError \/ Accepted \/ Clear \/ SendFails \/ SpoolBatch

Next ==
    \/ \E m \in Macs : Observe(m)
    \/ Flush \/ FlushNothing \/ Stop \/ FinalFlush \/ Exit
    \/ DeliverStep
    \/ Crash \/ Restart
    \/ Ingest \/ OrphanStep

Spec == Init /\ [][Next]_vars

\* The ticker, the deliver loop and the API go on; a started gateway stays up
\* long enough; a request is answered or times out.
FairSpec ==
    /\ Spec
    /\ WF_vars(Flush) /\ WF_vars(FinalFlush) /\ WF_vars(DeliverStep) /\ WF_vars(Exit)
    /\ WF_vars(Restart) /\ WF_vars(Ingest)

-----------------------------------------------------------------------------
(* Properties.                                                             *)

InFlight == Elems(batch) \cup UNION {Elems(chan[i]) : i \in DOMAIN chan}
InDatabase == {r \in Readings : stored[r] > 0 \/ r[1] \notin BoundMacs}

Lines == Readings \cup {Garbage}
TypeOK ==
    /\ gw \in {"up", "stopping", "draining", "down"}
    /\ obs \in 0 .. MaxObs
    /\ latest \in [Macs -> 0 .. obs]
    /\ chan \in Seq(Seq(Readings)) /\ Len(chan) <= ChanCap
    /\ dpc \in {"recv", "wait", "clear", "spool"}
    /\ batch \in Seq(Readings) /\ backlog \in Seq(Readings)
    /\ dpc # "recv" => batch # <<>>
    /\ spool.lines \in Seq(Lines) /\ spool.torn \in BOOLEAN
    /\ req.state \in {"none", "running", "ok", "error"} /\ req.todo \in Seq(Readings)
    /\ orphans \subseteq Seq(Readings)
    /\ stored \in [Readings -> Nat]
    /\ emitted \subseteq Readings /\ lost \subseteq emitted

\* An outage never drops a reading: what the sampler emitted is in the
\* database, on its way or in the spool, whatever requests failed and however
\* far they got, unless the channel, the spool's limit, the disk or a crash of
\* the gateway took it (deliver's comment).
NothingDropped == emitted \subseteq InDatabase \cup InFlight \cup Spooled \cup lost

\* Every read of the spool so far returned all of it.
SpoolWasReadable == budget.read = MaxReadErrors

\* With a spool that can be read, nothing is dropped, failing writes and
\* crashes in the middle of one included.
OnlyReadErrorsDrop == SpoolWasReadable => NothingDropped

\* The record has no gap: once a reading of a sensor is stored, so is every
\* earlier one of that sensor that was not lost. Backlog goes before batch.
NoGap ==
    SpoolWasReadable =>
        \A r, s \in emitted \ lost :
            r[1] = s[1] /\ r[2] < s[2] /\ stored[s] > 0 => r \in InDatabase

\* The spool holds each sensor's readings oldest first, and nothing newer than
\* what is still waiting, so that trimming takes the oldest.
SpoolOldestFirst ==
    LET recs == Records(spool.lines)
    IN  /\ \A i, j \in DOMAIN recs :
            i < j /\ recs[i][1] = recs[j][1] => recs[i][2] < recs[j][2]
        /\ \A r \in Spooled, s \in InFlight : r[1] = s[1] => r[2] < s[2]

\* Whatever fails, the order of measurement survives in table and spool.
OrderKept == NoGap /\ SpoolOldestFirst

\* When the spool is full it is the oldest records that go: what a write costs is
\* older than anything of its sensor that is left.
TrimKeepsNewest ==
    [][SpoolBatch /\ budget' = budget /\ ~spool.torn =>
        \A r \in Missing, s \in Spooled' : r[1] = s[1] => r[2] < s[2]]_vars

Failures ==
    (MaxNetErrors - budget.net) + (MaxDiskErrors - budget.disk) + (MaxCrashes - budget.crash)

\* Readings are duplicated by failed requests only: a reading has at most one
\* row per request it was posted in, and a second only when the first failed.
DuplicatesNeedFailure == \A r \in Readings : stored[r] <= 1 + Failures

\* All in all the gateway keeps readings as Custody says: what is in the channel, in
\* deliver's hands or in the spool is held, whatever files, requests and processes do.
Keeper == INSTANCE Custody WITH
              Ignored <- {r \in Readings : r[1] \notin BoundMacs},
              Room <- ChanCap, Keep <- SpoolMax,
              held <- InFlight \cup Spooled, rows <- stored, failures <- Failures,
              torn <- spool.torn, intact <- SpoolWasReadable

KeepsCustody == Keeper!Spec

\* An orderly stop ends, with every queued batch delivered or spooled.
StopEnds == gw = "stopping" ~> gw = "down"
=============================================================================
