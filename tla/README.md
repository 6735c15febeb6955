# ChillCheck: models, checks and proofs

ChillCheck records the temperatures of fridges and freezers. An API in Go over
PostgreSQL keeps the readings, the alerts and the accounts; a gateway at each
location listens to BLE sensors and forwards their readings; a React frontend
shows the board. This directory holds TLA+ modules of the parts of that system
whose correctness depends on order, concurrency or failure, TLC configurations
that check them on small instances, and TLAPS proofs, for every instance, of all
the safety properties those runs check, refinements included.

Every module is read off the code under `src/`. `PROJECT.json` names, for each
definition, the lines it stands for, the runs, the hazards each property is
aimed at, and the theorems.

## 1. The system

| Component | Code | State | Operations |
|---|---|---|---|
| Reading chain | `backend/internal/store/chain.go`, `readings` in `db/schema.sql` | per organization a numbered, hash-linked log of readings; advisory locks | insert (manual or from a sensor), verify |
| Alert engine | `backend/internal/alerts/engine.go`, alert calls and `WithLeaderLock` of `store.go` | `alerts` table, the leader lock, the local variables of a tick | tick: try lock, evaluate, reconcile, notify, unlock |
| Board status | `ComputeStatus`, `EvaluateUnits`, `LocationUnits` of `store.go`, `handleLocationStatus` | none of its own | latest reading per unit, its status |
| Gateway | `gateway/main.go`, `internal/sampler` | newest reading per sensor, a channel of 8 batches, the batch in delivery | observe, flush, deliver, stop |
| Spool | `gateway/internal/spool` | a file of JSON lines | append, load, clear, trim |
| Ingest | `gateway/internal/client`, `handleIngestReadings` of `api/gateways.go` | none of its own | post a batch; store it reading by reading |
| Rate limiter | `api/ratelimit.go` | a counter and a reset time per key | allow, purge |
| Billing | `api/billing.go`, `billing/` | subscription columns of `orgs`; Stripe's own objects | checkout, portal, webhook, quantity sync, entitlement |
| Accounts | `api/handlers.go`, `api/invites.go`, `store.go` | users, invitations, password resets | register, log in, invite, accept, revoke, ask for a reset, reset |
| Locations, units, sensors | `api/handlers.go`, `api/gateways.go`, `store.go` | locations, units, which MAC measures which unit | create, bind or take away a sensor, list |
| Corrective actions, reports, analytics | `api/corrective_actions.go`, `api/reports.go`, `store/analytics.go` | corrective actions; the rest is derived | record, report, roll up |
| BLE | `gateway/internal/ble` | none | decode an advertisement |
| Authentication, configuration, seed, frontend | `auth/`, `config/`, `cmd/`, `frontend/` | tokens, environment, session of the browser | |

How they interact. The gateway's sampler hands batches to its deliver loop over
a bounded channel; deliver posts the spooled backlog and the new batch in one
request, and either clears the spool or appends the batch to it. The ingest
handler stores each reading of a request in a transaction of its own, through
the chain insert that manual logs use too. The alert engine of every API
replica reads the latest readings on a ticker, under one advisory lock in
PostgreSQL, and writes alerts and mails. The board computes the same status
from the same readings on request; reports and analytics read readings, alerts
and corrective actions, each by several statements. Billing and accounts share only the
organization row with the rest: a new location leaves a goroutine behind that
tells Stripe how many there are, and Stripe answers by webhooks whenever it likes.

### What is hard in it, and what makes each part correct

- **Reading chain.** Transactions of one organization race for the end of its
  chain; any of them may be rolled back; two organizations may share a lock
  key, because `hashtext` has 32 bits. Correct means: numbers without gaps or
  forks, each row linked to the one before it, nobody refused because somebody
  else was recording, an insert waiting for the lock ends, and verification
  that blames a row if and only if somebody changed something.
- **Alert engine.** Replicas tick at the same time, readings arrive late and
  out of order, a tick's snapshot ages while the tick runs, every database call
  and every mail can fail, a replica can die anywhere, and the connection that
  holds the leader lock can drop while its tick goes on. Correct means: one
  open alert per unit and kind, one mail for a sustained fault, alerts that
  agree with the board once things are quiet.
- **Store and forward.** A request may fail with part of it stored, or time out
  while its handler is still storing; the spool file may be torn by a crash or
  a full disk; channel and spool are bounded. Correct means: nothing
  is dropped but for a named reason, each sensor's readings are stored in order,
  duplicates come from failures only, a full spool gives up the oldest, and a stop ends.
- **Rate limiter.** Windows that end, a map that is purged lazily and only when it
  is large. Correct means: what is left in the map makes no difference, no span
  of one window sees more than twice the limit, and who waits as long as told is
  let in.
- **Billing.** No call of it locks anything: requests read the organization's row,
  call Stripe and write the row, syncs run in the background and overtake each
  other, webhooks come late, twice and out of order, and each call to Stripe may
  fail with its effect done. Correct means: never billed for more locations than
  there are, billed for all of them unless something named interfered, one
  customer unless requests raced or failed, and a row that ends up as Stripe's last event.
- **Accounts.** Tokens are looked up outside the transaction that uses them, and
  transactions wait for each other's keys. Correct means: one account for an address,
  at most one for an invitation, no organization without an admin, a link that is
  marked exactly if it had its effect, links of no use to who comes late, and
  requests that end.
- **Sensor binding, board, reports, analytics.** A sensor is moved while readings of
  it are buffered or between the lookup of its unit and the insert; each page is
  put together by several statements without one snapshot. Correct means: no
  reading under a unit its sensor had left, and pages whose parts differ only in
  what was written after the page was asked for.

## 2. Modules

    AppendLog               a log per organization that only grows
      ^ implemented by
    ReadingChain            the chain insert and verification
      ^ extended by            ^ extended by
    ChainTamper             ReadingChainProofs   (TLAPS)
      ^ extended by
    ChainTamperProofs       (TLAPS)
    AlertBook               what holds of each alert, whoever ticks
      ^ implemented by
    AlertEngine             ticks of several replicas over one database
      ^ extended by
    AlertEngineProofs       (TLAPS)
    Custody                 readings held, lost or stored
      ^ implemented by
    StoreForward            sampler, channel, deliver, spool, request, ingest
      ^ extended by
    StoreForwardProofs      (TLAPS)
    FixedWindow             one window per client
      ^ implemented by
    RateLimiter             the throttle of the credential endpoints
      ^ extended by
    RateLimiterProofs       (TLAPS)
    AccountBook             accounts, invitations and resets, each step at once
      ^ implemented by
    Accounts                the same with concurrent requests
      ^ extended by
    AccountsProofs          (TLAPS)
    Billing                 the organization's row, requests and Stripe
      ^ extended by
    BillingProofs           (TLAPS)
    Records                 sensors, late readings, actions and the pages read
      ^ extended by
    RecordsProofs           (TLAPS)
    MC<module>              the values of the constants TLC needs

### ReadingChain (`chain.go`)

`rows[o]` are the committed readings of organization `o` by `chain_seq`, `lock`
the advisory locks, and `pc`, `req`, `tail` the progress, the argument and the
local variables of each open transaction ("writer"). The actions are the
statements of `insertChainedReading`, at READ COMMITTED: `Begin`, `AcquireLock`
(`pg_advisory_xact_lock`, which waits), `ReadTail`, `Insert`, `Commit`;
`Rollback` is possible after each and stands for an error, a cancelled request
and a crash of the API alike. A reading still uncommitted is invisible to the
others, but its key makes an equal insert wait (`WaitsForKey`), as a unique
index does. `Offending`, `VerifyOK` and `BrokenAt` are `VerifyReadingChain` on
committed rows.

Data is abstracted to what the properties tell apart. SHA-256 is collision
free: a hash is the tuple it digests. Unit, recorder, source and time, which
the hash treats alike, are one value `data`. The note is apart, since the hash
leaves it out. The temperature keeps its conversion: `Round1` on hundredths of a
degree, the sign of a zero included, `Numeric` for what `numeric(5,1)` stores,
`FitsNumeric` for what it refuses. Rows from before the chain existed
(`chain_seq` NULL) are not modelled; verification skips them.

### AppendLog

The promise: each step appends one whole entry at the end of one organization's
log. `ReadingChain` maps `log` to the entries of `rows`; `ImplementsLog` says it
refines it.

### ChainTamper (`chain.go`, and what `chain_integration_test.go` does to it)

`ReadingChain` with up to `MaxTampers` changes to the table behind the API's
back, between any two statements of an open insert: a hashed field edited, a
note edited, a row deleted or taken out of the chain, renumbered, or moved to
another organization. `accepted` is a history variable: what the API committed,
and after which row.

### AlertEngine (`engine.go`, alert calls of `store.go`) and AlertBook

`latest` and `now` are the world; `alerts` the table; `leader` the session that
holds the lock; `pc[r]` and `tick[r]` the progress and the local variables of
`evaluate` and `reconcile` in replica `r`. One action per statement or mail:
`TryLock`, `EvaluateUnits`, `Stamp` (`time.Now()`, taken after the query),
`ListOpen`, `Resolve`, `Create`, `Recipients`, `Send`, `Mark`, `Unlock`, and one
action per way they fail. `Crash` drops session and lock; `LoseLock` drops the
lock under a tick that goes on. Whether a mail that was sent is then marked, or
the call that marks it fails, are separate steps, as in `notify`. Names, texts
and the mail's content are left out; `mails` counts mails since a unit last
changed status.

`AlertBook` is what the engine promises of each alert even after lost locks, when
several replicas tick over one table: nobody opens an alert of a unit and kind that
has an open one; an alert is mailed about once at most, before it is marked, and never
opened again; and it is marked without a mail only when there is nobody to mail or a
call has failed. `AlertEngine` refines it with the table as it is, its mails included.
What the book does not promise is that alerts agree with the units, which takes the lock.

### StoreForward (`sampler.go`, `main.go`, `spool.go`, `client.go`, `gateways.go`) and Custody

`latest`, `chan`, `batch`, `backlog` and `spool` are the gateway's variables,
`req` the request `deliver` waits for with what its handler has still to store,
`orphans` what handlers of requests the client gave up on may still store,
`stored` how often each reading is in the table. A reading is its sensor and
when it was measured. The spool is a sequence of lines and whether the last
lacks its newline: a write that breaks off leaves a torn line, the next record
joins it, and `loadLocked` skips what does not parse. `emitted` and
`lost` are history; `lost` collects readings given up for a reason the gateway
cannot help (full channel, full spool, failing disk, crash).

`Crash` is a crash of the process: what it wrote stays. The spool is never synced to disk
(`spool.go:28-54`), so a power failure may take more of it than the model lets go.

Left out of ingest: gateway authentication and the normalisation of the MAC; the
clamp of timestamps is in `Records`. A MAC that is not bound is skipped, as in the
code. The chain insert is one step here: `ReadingChain` shows that it may be.

`Custody` is the promise, with sets of readings for channel, hands and files. What has
been measured is held until it has arrived (`Release`) or is given up (`Lose`, `Emit`
without room), which takes a failure, the write after a torn one, or too many
readings, of which the oldest go. A row is added (`Store`) only when nothing older of that
sensor is missing, and a second time only when there is a failure to pay for it. Once the
spool was not read to its end (`Misread`) readings may leave the gateway unstored and gaps be
stored over; the rest is still promised. `Keeper` maps the channel, the batch in hand and the spool to `held`.

### RateLimiter (`ratelimit.go`) and FixedWindow

`hits` is the map, `now` the clock; the mutex makes each `allow` one step, split
by its outcome: `AllowFresh` (a new window, then the purge of the whole map),
`AllowMore`, `Refuse` (with the `Retry-After` of the middleware). Time is in
ticks, `Second` of them to a second, since the header counts whole seconds.
`passed` and `retryAt` are history. `FixedWindow` is the promise without a map:
every client has a window that closes by itself. `RateLimiter` refines it by
taking expired entries for closed windows. How `clientIP` finds the address of a
client in a request is left out: a client is a key.

### Accounts (`handlers.go`, `invites.go`, `store.go`) and AccountBook

`orgs`, `users`, `invites` and `resets` are the committed tables. Everything is named by
the request that made it: an account by the request that registered or joined,
a password by the one that set it. `CreateInvite`, `RevokeInvite` and
`ForgotPassword` are requests of one statement. `Register`, `AcceptInvite` and
`ResetPassword` start one with a transaction: `Lookup` (outside the transaction, as in the
handlers), `Write` (the users row), `Mark` (the link), a commit, and `Rollback` at
any point for an error, a cancelled request or a crash. PostgreSQL's part is in the guards:
an insert waits for an open insert of the same e-mail and fails when there
is a committed one (`Taken`, `users_email_key`), updates wait for open updates of their row
(`Key`, `Marking`), and a mark that finds its row deleted changes nothing
(`Marked`). Who may send or revoke invitations is `Admins`. Passwords,
hashes, names and mails are left out, as are logging in and listing, which change
nothing.

`AccountBook` is the promise: each request takes effect at once or not at all, an invitation
makes one account, and a reset link sets one password (`Reset`). Its variable `held` says who
has found which link good, for a link is looked up before it has its effect: that is where the
book allows an invitation to be revoked while it is being accepted. `Accounts` maps the
requests between their lookup and their end to `held` (`BookHeld`) and forgets when links
expire. It does not keep the promise: requests that looked up one reset link before either
committed all set a password. `LooseSpec` is the book with that step (`ResetAgain`), and it is
what `Accounts` refines.

### Billing (`billing.go`, `billing/client.go`, `billing/entitlement.go`)

One organization. `org` is its row, `locations` how many rows of `locations` it has;
`pc[r]` and `local[r]` are progress and local variables of each request: a checkout
(`ReadOrg`, `CreateCustomer`, `SetOrgStripeCustomer`, `CountForCheckout`, `CheckoutURL`),
a visit to the portal (the first three) or a new location (`RequireEntitled`,
`CreateLocation`, then the goroutine `SyncReadOrg`, `SyncCount`, `SetQuantity`).
`Fail` ends a request at any statement; the customer it was about to make may have been
made all the same. A quantity that was set although the call failed is `SetQuantity`, which
also ends the request, and a checkout whose URL was lost is never paid.

`customers`, `sessions`, `subs`, `log` and `pending` are Stripe, which is external: it
makes a subscription when a checkout is completed (`Pay`; its first payment may have
failed, which makes it incomplete), changes its status (`Change`), and tells of each change by an event that stays in `pending` until it is
acknowledged, and is delivered in any order. `Statuses` are those `entitlement.go` names
but for the organization's own `trialing`: `Over` are those that never change again, `Lapsed` those of
a subscription that lives but that `syncBillingQuantity` does not keep in step. `Webhook` is
`handleStripeWebhook` with `ParseSubscriptionEvent` and `UpdateOrgSubscription`;
`WebhookFails` its 500. `SetSubscriptionQuantity` reads the
subscription for the id of its item before it updates it: the id never changes, so
the two calls are one step. Left out: plan and period end, which are stored with
the status, and events of other types.

`applied`, `late`, `raced` and `excused` are history. `excused` names the five reasons
why a quantity may lag: locations added while a checkout was open, syncs that
overlapped, a sync that failed, a sync that found the row not in step with Stripe, and a
sync while a subscription had lapsed, which sets nothing (`billing.go:170-171`) and is not
made up for when the subscription is paid again.

### Records (`gateways.go`, `handlers.go`, `reports.go`, `store/analytics.go`)

One location. Writers: `CreateUnit`, `SetUnitSensorMAC`, `CreateReading`, a gateway's
request reading by reading (`IngestReading` with the clamp to the present,
`IngestLookup`, `IngestStore`), `OpenAlert`, `ResolveAlert`, `CreateCorrectiveAction`.
One reader at a time executes the statements of its page in order
(`Statements`), keeping what each returned: the board (units, latest
readings, clock), the report (units, readings, alerts, actions, verification) or
the analytics (rollup, deviations, trend). `DISTINCT ON` may pick any of several
readings with the latest time. `Status`, `RowOk`, `PrintedUndocumented`, `OfUnit`
and `Buckets` compute what is shown, a report's row of a unit that was not
listed included: it is judged by Go's zero values. The deviations of the analytics are
alerts of both kinds, the undocumented ones (`WindowUndocumented`) temperature alerts only. Left out: minimum, maximum, average and the percentages with their
rounding, which are functions of the rows one statement returned. `left` is
history, and so are the reader's `since`, `opened` and `acted`, how many readings, alerts and
actions there were when the page was asked for, and `documented`. The engine's own steps are `AlertEngine`'s
matter: here an alert of a unit with readings may open or be resolved at
any time. All units have one safe range; time is in ticks, `Day` of them to a day.

## 3. Runs

| Run | Shows |
|---|---|
| `chain` | types; `ChainSound` (`ChainLinked`, `NoConflict`), `BrokenOnlyAtNegativeZero`; that the table implements `AppendLog`; that every insert waiting for its lock ends |
| `chain_negative_zero` | violated: an untouched chain always verifies |
| `tamper` | `VerifiedMeansAccepted`; `BreaksPinpointed`: edits and interior deletions are reported at their place (`EditPinpointed`, `InteriorDeletePinpointed`), and later appends do not move the report (`AppendsNeverMend`) |
| `alerts` | types; until a lock is lost `CreateNeverConflicts`, `OneMailPerEpisode`, `TickSettles`; lost or not `AlertsConverge`, and that the engine implements `AlertBook`, with two replicas that may both believe they lead |
| `alerts_never_mailed` | violated: an alert that opens is mailed |
| `forward` | types; `OnlyReadErrorsDrop`; `OrderKept` (`NoGap` in the table, `SpoolOldestFirst`); `TrimKeepsNewest`; that the gateway implements `Custody`; that a stop ends |
| `forward_read_error` | violated: an outage never drops a reading |
| `accounts` | types; `AccountsSound` (`OneAccount`, `OrgHasAdmin`, `MarkedWithEffect`); `SpentLinksFail`; that requests end; that they implement the loose `AccountBook` |
| `accounts_reset_twice` | violated: they implement `AccountBook`, where a reset link sets one password |
| `billing` | types; `ExtraCustomerNeedsRace`, `NeverOverbilled`, `QuantityTracks`, `RowFollowsStripe` |
| `records` | types; `BoardTruthful`; `ReportTruthful` (`IntegrityCoversRows`, `UndocumentedTrue`, `OldRowsRight`); `AnalyticsTruthful` (`TrendComplete`, `DeviationsAgree`, `UndocumentedCounted`); `FiledUnderBoundUnit` |
| `limiter` | types; `AtMostTwiceLimit`, `RetryAfterSuffices`, `MapBounded`; that the map implements `FixedWindow` |

### Bounds, and why they are enough

- `chain`: three writers and two organizations on one lock key, so that two
  wait for a third, of the same organization or another. `MaxSeq = 1` bounds
  the chain an insert *starts* on; three writers that start together still
  build chains of three rows. Temperatures: 38.04 F, -0.04 F (rounds to -0.0)
  and one that overflows the column. Nothing in the insert looks further back
  than one row.
- `tamper`: two changes suffice to delete a row and put another in its place, to
  swap rows, and to move a row away and back; two organizations, one writer
  (the API's own races are `chain`'s matter), chains of two rows. Larger
  instances were tried while writing: three changes on the same instance, and
  chains of three rows for one organization, hold as well. Notes and
  organizations are symmetric.
- `alerts`: two replicas, one unit, a clock of two times with a log interval of 0 (so
  `overdue` happens), two readings with any earlier timestamp, one failing call, one crash and
  one lost lock. `reconcile` touches one unit's alerts only, which is why one unit shows what
  failures do; two units with a lost lock are beyond a run (they were tried: more than four
  million states, unfinished), and without one, with three readings and three times, the three
  properties of the locked engine held while it was written. The theorems are for any units.
- `forward`: two sensors, one not bound; channel of 2 and spool of 2, so both
  overflow with the 4 observations; two failing requests, which is what it takes
  to have one batch spooled and a second posted with it fail again; a failing write or
  removal, a failing read and a crash. The real limits (8 batches, 50 000 records) play
  the same role. To keep the instance small, a behaviour tells one of two stories
  (`OneStory`): outages and an orderly stop with both sensors, or outages and the
  faults with the bound sensor alone.
- `accounts`: four requests, the most it takes for an account, its invitation and two
  requests that race for it, and as many for a reset; two addresses; links that expire
  after one tick.
- `billing`: three requests, so that two checkouts race beside a new location, or two
  syncs beside a checkout; three changes of subscriptions begun at Stripe, enough for two
  subscriptions one of which is canceled, or for one that lapses and is paid again (an update
  that a sync causes adds to them); one failure. Requests are symmetric.
- `records`: two units, one sensor, two readings, safe and not, one alert of either kind,
  one action, a clock of three times with days of two, windows that begin or end within a day.
  Where a reading came from is nothing to reports and analytics, and alerts are
  nothing to sensors and the board, so a behaviour has sensors or the board, or it has alerts or
  one of the other pages (`OneTopic`), and it ends when its page is done (`Finished`). Late
  readings of sensors beside a report or the analytics are left to the theorems, which are
  about all behaviours. Units are symmetric.
- `limiter`: three clients with a map purged at two, so that a purge meets live and
  expired windows together; a limit of two; a window of one tick, half a second, and a
  clock of five times. The code lets a request at the very end of a window count in it, so
  a window takes in two times, and three of them in a row let five requests of a client
  through, which is what `AtMostTwiceLimit` is about. Windows of one tick with a
  clock of six, and of two ticks with a clock of seven, hold as well. Clients are symmetric.

For the safety properties these bounds matter less than they seem: all of them are proved
without bounds (§5). For liveness the bounds stand.

TLC's deadlock check is on in every run but `records`, whose behaviours end when
their page is done: `ReadingChain`, `ChainTamper`, `Accounts` and `Billing` name the
state in which nothing is left to do (`Quiescent`, `AtRest`), the engine's
ticker and the sampler's (`FlushNothing`) never stop, and a request to the
limiter is always answered.

### Fairness, and why the code justifies it

- `ReadingChain`: the statements of an open transaction are executed (weak
  fairness), a failed one is rolled back by the deferred `tx.Rollback`, and
  `AcquireLock` is strongly fair, because PostgreSQL grants a lock in the order
  of its queue. A rollback for any other reason is never promised, nor needed.
- `AlertEngine`: the ticker of each replica fires again, so a free lock is taken
  (weak fairness of `TryLock`), and a started tick goes on (weak fairness of
  `Work`). Failures, crashes and readings are not promised. That `Send` ends is
  an assumption the code does not back: `smtp.SendMail` (`mailer.go:38`) gets
  no deadline, and a mail server that accepts and never answers holds the
  leader lock, hence the engine of every replica, for good.
- `StoreForward`: the ticker, the final flush, the deliver loop and the return of
  `main` are fair, a supervisor restarts the gateway, and the API works on a
  request or the client's 15 s timeout ends it (`SendFails` is part of
  `DeliverStep`). Observations, faults and stops are not promised.

- `Accounts`: a request that has begun goes on (weak fairness of `Step`): its waits
  are for transactions that end. Failures are not promised, nor the clock.
- `Billing` and `Records` state no liveness: every webhook is answered at once and without a
  condition, and pages are short sequences of queries.

## 4. Where the code does less than it says

Four runs end in a counterexample on purpose; each compares the code with a
sentence of the repository.

- **A -0.0 breaks an honest chain** (`chain_negative_zero`). `round1` of a
  temperature in (-0.05, 0) F is negative zero. The hash digests "-0.0", the
  column returns 0.0, and verification recomputes the hash of "0.0". The
  comment on `round1` says the two can never diverge. `BrokenOnlyAtNegativeZero`
  (checked and proved) says nothing else breaks an honest chain.
- **A failed mail is never repeated** (`alerts_never_mailed`): the next tick finds
  the alert open and leaves it. A failed query for the recipients ends the
  same way, with the alert marked notified.
- **A spool that cannot be read is cleared** (`forward_read_error`): `deliver`
  ignores the error of `LoadAll`, posts what was read, and on success removes
  the whole file.
- **A reset link works more than once** (`accounts_reset_twice`). `handleResetPassword`
  looks the link up before the transaction that sets the password and marks the link, and the
  mark asks for the link's id alone, used or not. Every request that found the link good
  before the first commit sets its password. `README.md:213-214`, `ARCHITECTURE.md:151` and
  `:190` and `schema.sql:122` call the links single-use. Used one after the other they are
  (`SpentLinksFail`), and requests that overlap do nothing else wrong (`ImplementsLooseBook`).

More is visible in the models and has no run of its own:

- The newest rows of the chain can be deleted without a trace, since nothing follows the
  last row, where `README.md:143` says that editing or deleting a past reading breaks it; in
  the same way an edited note is not noticed, the note not being hashed
  (`DeleteRow`, `EditNote` in `ChainTamper`; `InteriorDeletePinpointed` says what is noticed).
- A lost leader connection costs a second mail (`LoseLock`): replica 1 opens and mails an
  alert, its lock connection drops, replica 2, with a snapshot from before the
  fault, resolves that alert, and its next tick opens and mails it again.
- Without a sensor heard there is no retry, since `flush` returns early and only
  a batch makes `deliver` look at the spool (`FlushNothing`), where
  `gateway/README.md:25` promises one on the next cycle.
- The batch that finds the channel full is discarded (`Queue`, into `lost`), where the
  comment at `sampler.go:68` says it goes into the next tick.
- Because `evaluate` reads the clock after its query, a reading that arrives in
  between leaves the board in order and the engine with an overdue unit for one tick
  (`Stamp`). Readings of one unit with one time have no order at all: engine and board may
  each show another of them.
- The quantity billed may stay behind the locations: the five reasons of `excused` each
  leave it there until the next location, where the repository's README says it follows. A
  subscription that lapsed and is paid again is one of them: no webhook starts a sync.
- Checkouts that overlap make two customers; the one stored last wins, and events of the
  other match no row (`raced`). They are acknowledged all the same, so they
  do not come back.
- An event is matched by customer alone: an organization that subscribed anew and whose
  old subscription is deleted afterwards is shown canceled, and may add no
  location (`UpdateOrgSubscription`).
- An invitation that is revoked or expires after it was looked up is accepted all the same
  (`Join` in `AccountBook`, `CommitJoin`).
- A unit made while a report is put together is judged by a safe range of 0 to 0 (`RowOk`):
  the report lists units before readings, and a safe reading is printed as out of range, where
  `README.md:146` promises every reading with pass or fail. Readings from before the report was
  asked for come out right (`OldRowsRight`).
- The analytics' days may show more readings than the total beside them, being counted
  later by another statement (`TrendComplete`), and the deviations of a unit made meanwhile are
  in the organization's total but at no unit (`DeviationsAgree`).
- Readings a gateway has buffered while its sensor is moved are filed under the unit the
  sensor is at when they arrive (`IngestLookup`): the lookup knows the present binding only.
  `FiledUnderBoundUnit` says what is kept, that none goes to a unit the sensor had left.

## 5. Proofs

`ReadingChainProofs` proves, for all organizations, writers, lock keys (colliding
or not), temperatures and bounds:

| Theorem | States |
|---|---|
| `Invariant` | `Spec => []IInv`, the inductive invariant |
| `TypeCorrect` | `Spec => []TypeOK` |
| `TailsStayFresh` | the tail a writer read is the end of the chain until it commits |
| `ChainsSound` | numbers 1 to n, each row linked to the one before, and no insert meets the unique index |
| `ImplementsAppendOnlyLog` | `ReadingChain` refines `AppendLog` |
| `OnlyNegativeZeroBreaks` | verification of a chain the API alone wrote blames exactly the -0.0 rows |

They rest on `ConstantsOK` only: the holder of a free lock is no writer, `Temps` are
integers, `LockKey` is a function on the organizations, `MaxSeq` a natural number.

The argument. None of the properties is inductive alone: that an insert does
not conflict needs the tail it read to be fresh and the chain to be an interval;
that the tail stays fresh needs mutual exclusion of the writers of one
organization; that the chain stays an interval and linked needs the fresh
tail. So

    IInv == TypeOK /\ Locked /\ TailFresh /\ Chained /\ NoConflict

where `Locked` says that a writer past its lock statement holds the lock of its
organization, and `Chained` that each chain is linked up to some length n. Each
conjunct has a lemma that every step keeps it (`TypeStep`, `LockedStep`,
`TailFreshStep`, `ChainedStep`, `NoConflictStep`); `Exclusion` derives mutual exclusion
from `Locked`, `TailOfInterval` computes the end of an interval, and
`CommitExtends` says what a commit does to the rows. `OnlyNegativeZeroBreaks`
adds `AllHashed`: each row's hash digests its own columns and some temperature
that stores as its own; a hash differs from the recomputed one only when
storing lost a sign, and it can lose only that of a zero. `Chained` quantifies over
all naturals, so TLC checks `ChainLinked`, which it amounts to, beside `TypeOK` and
`NoConflict`; `TailFresh` held in a run of its own while the proof was written.

`RateLimiterProofs` proves, for all clients, limits, lengths and purge sizes:

| Theorem | States |
|---|---|
| `LimiterInvariant` | `Spec => []IInv`, the inductive invariant |
| `LimiterTypeCorrect` | no window counts more than the limit or ends more than one length from now |
| `ThrottleHolds` | in any span of one window a client gets at most twice the limit through |
| `MapStaysBounded` | a map of the purge size or more holds only windows of one length of time |
| `RetryHintSuffices` | who waits as long as `Retry-After` said is not refused |
| `ImplementsWindows` | `RateLimiter` refines `FixedWindow` |

They rest on `ConstantsOK`: limit, window and second are positive. The invariant is

    IInv == TypeOK /\ Promise /\ MapBounded

where `Promise` says that the time a refused client was told lies behind the end
of the window that refused it, which `RetryAfterSuffices`, being about the time
that has come, does not. `PurgeKeepsLive` and `PurgeDropsExpired` say what a purge
does, `FreshHits` what a fresh window and its purge leave together,
`RetryAfterBounds` that rounding to whole seconds lengthens a wait by one second
at most. For the refinement, a step of the clock closes exactly the windows that
`Expired` stops counting, and a purge removes closed ones only, hence stutters.

`ThrottleHolds` is about the requests let through since the start, of which the map keeps no
trace. Its invariant `Spans` supplies one: for each client there is a sequence that
says when the window of each of its requests was opened (`OpenedAt`). A request falls into its
window, those of one window are `Limit` in number at most, and windows do not overlap
(`Apart`); while the client's entry is live, the last window has as many requests as the map
counts (`Counts`), else all windows lie in the past (`Past`). Each step extends that sequence or keeps
it, and a purge leaves it alone (`SpansKept`). From it, request i + `Limit` is in a later window
than request i, and so is the one `Limit` further on, hence later by more than a window
(`SpansSuffice`).

`BillingProofs` proves, for any number of requests, changes at Stripe and faults:

| Theorem | States |
|---|---|
| `InvAlways` | `Spec => []Inv`, the inductive invariant |
| `BillingTypeCorrect` | types, and that what the row refers to exists at Stripe |
| `NeverBilledTooMuch` | no subscription bills more locations than there are |
| `SecondCustomerNeedsRace` | a second customer takes a race or a failure |
| `QuantitiesTrack` | with no sync under way and no excuse every live subscription bills the locations there are |
| `RowShowsLastEvent` | with every event delivered, none after a newer one, the row shows what Stripe told last |

They rest on `ConstantsOK`: the two bounds are natural numbers. The argument:
locations are only ever added, so a count, once taken, is never too
large. `Inv` therefore bounds every quantity on its way (`Quantities`: in a local variable,
in an open checkout, at Stripe) by the present number, and says that what is referred to is
there (`References`). For the customer, `OneCustomer` says that without a race one request
at most is between its look at the row and its `SetOrgStripeCustomer`, and that the row has
the customer as soon as that request is through. For the quantities, `Tracked` says
that each live subscription is right, or that a sync is under way which will count
again (`WillSet`) or has counted and is about to set it, and that a count about to be set
is the present one unless a later sync follows. `Moves`, `RefersMoved`, `CountsMoved`,
`Emitted` and `Updated` say what the helpers of the model do; `TrackedUndisturbed`
disposes of the steps that touch no sync. For the row,

    Follows == HasCustomer /\ CustomersKnown /\ Handled /\ Shown /\ LastTold

follows an event from Stripe to the row: it is pending or not newer than the newest
one applied (`Handled`), that one is what the row shows (`Shown`), and the last one in the
log tells how its subscription is (`LastTold`). The row is found by its customer, hence
`HasCustomer`: nothing is asked of Stripe before the row has one, so no event
can miss the row while there is one customer only.

`ChainTamperProofs` proves, for any number of changes behind the API's back:

| Theorem | States |
|---|---|
| `NoForgedChainVerifies` | a chain that verifies holds only readings the API accepted, at their number and after the row they were accepted after |
| `BreaksStayPinpointed` | a break is reported at the edited row, or the one after a deleted row, and later appends do not move it |

The first needs `Types /\ Genuine`, where `Genuine` says that every hash in the table is
one the API made for a reading it accepted: changes move hashes about but make none, for
who changes the table edits columns and leaves the hash, or moves a whole
row. A row that verifies has the hash of its own columns, and hashes are injective, so its
columns are those of that reading. The second is about single steps and needs `KeysFree`,
that no row about to be committed has a number that is taken, which the unique index
sees to; without it a commit might put a new row in the place of an old one and the
report might move. The verdict being the smallest offending number, `MinIs`, `MaxIs` and
`MinOf` derive what `Min` and `Max` return from the order of the naturals
being well founded.

`AlertEngineProofs` proves, for all replicas, units, temperatures and histories of readings:

| Theorem | States |
|---|---|
| `EngineTypeCorrect` | `Spec => []TypeOK`, lost locks included |
| `BookKept` | `AlertEngine` refines `AlertBook`, lost locks included |
| `LockPreventsConflicts` | until a lock is lost, no tick inserts an alert that is open |
| `LockedMailsOnce` | until a lock is lost, a unit that stays in one trouble costs one mail |
| `LockedTicksSettle` | until a lock is lost, a unit reconciled without an error has the alert for its problem and no other |

They rest on `ConstantsOK`: no replica is called `NoReplica`, temperatures and bounds are
numbers. The last three hold while `NotLost == budget.losses = MaxLockLosses`: as long as no
leader has lost its lock in the middle of a tick. With a lost lock they fail, as §4 tells.
The invariant is `Types /\ (NotLost => Calm)` with

    Calm == Leads /\ (\A r \in Replicas : Working(pc[r], tick[r])) /\ Told

`Leads`: who is in a tick holds the lock, so one replica at most is in one. `Working`
says how the local variables of that tick agree with the table: what it listed is what is
open but for what it resolved or failed to resolve (`Listed`), a unit mailed about
is seen by the tick in the trouble it is in, finds its alert listed, and is not about to be
mailed about again (`Remembers`), and the units done have the alert they should
(`Settled`). `Told`: a unit mailed about has had one mail and has the alert open. None
of them is inductive alone: that no second mail is sent needs the table to agree
with what the tick listed, and that needs the others to stay out. `CalmGoes` says that a step
of one replica need answer only for that replica; there is a lemma for each
kind of step, the most delicate being `CalmResolve`: the alert a unit was mailed about is
not the one that is resolved.

`BookKept` needs no lock. Its invariant `Owned` says that no two replicas notify of one
alert, and what each carries with it (`Carries`): its alert is not marked yet, has had no
mail before it is sent, and is about to be marked without one only if a call has failed. It
holds because who notifies of an alert has just inserted it, at an index nobody else
knows; `OwnedGoes` says that a step of one replica need answer only for that replica, and a
crash lets go of an alert for good. That no unit has two open alerts of a kind is the
unique index, whoever lists what (`BookOpens`).

`StoreForwardProofs` proves, for any number of sensors, any capacity of channel and spool
and any number of failures:

| Theorem | States |
|---|---|
| `ForwardTypeCorrect` | `Spec => []TypeOK` |
| `OutagesDropNothing` | as long as every read of the spool was complete, what was emitted is stored, on its way, spooled, or lost for a named reason |
| `OrderSurvives` | the spool is oldest first and, read in full so far, leaves no gap in the table |
| `RetriesAloneDuplicate` | each copy too many of a reading is paid for by a failure |
| `ForwardKeepsCustody` | `StoreForward` refines `Custody` |
| `OldestGoFirst` | what a write that succeeds makes a full, untorn spool give up is older than all it keeps of that sensor |

They rest on `ConstantsOK`: the sensors are finitely many and the bounds are numbers. The
invariant is

    Types /\ Emitted /\ Ordered /\ Delivered /\ Gapless /\ CopiesCounted

`Emitted`: all there is came from the sampler, which emits ever newer readings. `Ordered`:
what is spooled is older than the batch in hand, and that older than what is in the channel,
sensor by sensor. `Delivered`: while the request runs, what was posted is stored or still to
be stored; once the answer is positive, all of it is stored; and until the spool is
cleared, all it holds was posted. This is why clearing is safe, and why a spool not read to
its end is the exception. `Gapless`: what a handler has still to store, abandoned or not,
has stored before it, or with it, all that is older. `CopiesCounted`: the
rows of a reading, the abandoned requests that hold it, and one more if it will be posted
again (`Alive`), are at most one more than the failures so far; `DuplicatesNeedFailure`
sees the rows alone and is not inductive. A torn write needs most of the work: what `Records`
reads of a file is given by the ranks of its whole lines (`Ranks`, `RecordsAre`), `WrittenIs`
says what a write that may break off leaves, `TrimmedLeaves` and `OldestTrimmed`
what a full spool gives up.

`ForwardKeepsCustody` maps each step to one of `Custody` under that invariant (`KeeperStep`; the
lemmas `KeeperEmits` to `KeeperStores`, one for each kind of step). An observation or a
flush that finds nothing, a request that begins, a handler that is left behind stutter. That
a flush gives readings up only when `Room` are held needs a batch in the channel to hold a reading of
its own (`ChanCounts`, from `Apart`: what is in channel, hands and files is disjoint, sensor by
sensor in order), and that a full spool has too many needs its records to be counted as
readings are, without repetition (`NoneTwice`, `CountedAlike`). `Delivered` makes clearing a
`Release`, `Gapless` and `CopiesCounted` are the guards of `Store` (`KeeperStores`).
`RetriesAloneDuplicate` states the count of rows alone; the run has it by `Custody`.

`AccountsProofs` proves, for any requests, e-mails and interleavings:

| Theorem | States |
|---|---|
| `AccountsTypeCorrect` | `Spec => []TypeOK` |
| `NoDisorder` | one account for an e-mail and for an invite, an admin in each organization, links marked exactly if they had their effect |
| `LateLinksFail` | a link used, revoked or expired on arrival gets nobody anywhere |
| `RequestsKeepLooseBook` | `Accounts` refines the loose `AccountBook` |

They rest on `ConstantsOK`: there is a role "admin" and links live for some time. The invariant is

    Orderly == Types /\ Unique /\ Founded /\ InvitesMarked /\ PasswordMarked /\ Spent

The heart is `Reserved` in `Unique`: an open insert holds its e-mail, which no account has and no
other open insert. It becomes so at `Write`, which waits for open inserts of the same
e-mail and fails when there is a committed one, and it is what makes the commit safe, though
the handler looked at the invite long before, outside the transaction. `Came` adds
who made an account, so that one account for an e-mail means one for an invite.
`Steady` collects what no step undoes: rows stay, expiry and address stay, and a mark stays
unless the invite was revoked; `Spent` follows from it.
The refinement maps links to what the book knows of them (`Entry`, `BookInvites`,
`BookResets`) and requests between lookup and end to `held`. A lookup that succeeds is a step of
the book (`LookupLooks`), a commit is one (`RegisterFounds`, `JoinJoins`, and `ResetResets`,
which resets or resets again), and so is a request of one statement
(`CreateInvites`, `RevokeRevokes`, `ForgotAsks`). The other statements stutter, or, when the
request fails, let go of its link (`OthersHold`). `ClaimedNotAccepted` is what `JoinJoins`
needs: an invite somebody is about to accept has not been accepted by somebody else.

`RecordsProofs` proves, for all units, sensors, temperatures, ranges and intervals:

| Theorem | States |
|---|---|
| `RecordsTypeCorrect` | types, one unit for a sensor, one open alert for a unit and kind |
| `ReadingsFiledRight` | no reading is filed under a unit its sensor had left before it was measured |
| `BoardTellsTruth` | the board's ok, overdue and no data were so |
| `ReportTellsTruth` | the integrity line covers the rows, nothing documented is printed as undocumented, rows from before the report was asked for are judged by their range |
| `AnalyticsTellTruth` | days and total, the units' deviations and the total differ only in what was written meanwhile, no older alert is left out, and what counts as undocumented was so |

They rest on `ConstantsOK`: the safe range is not empty, intervals are positive. The invariant is

    Inv == Types /\ Filed /\ BoardRead /\ ReportRead /\ AnalyticsRead

`Filed` extends the property to the reading between the lookup of its unit and its insert:
the sensor is bound to the unit, or left it after it measured. `BoardRead`, `ReportRead` and
`AnalyticsRead` (of `RollupRead` and `DeviationsRead`) say, statement by statement, what
a page holds of the tables, which have gone on since: what was
there when the page was begun is in it, and what is in it is there. Each
action has a lemma that it keeps `Inv` (`CreateUnitSound`, ..., `VerifyChainSound`).

`AnalyticsTellTruth` is about sums over days and over units, whose value would be an
induction over finite sets. It goes by a smallest counterexample instead, a set of least
cardinality among those whose counts do not add up (`SmallestSet`, from the order of the
naturals), which taking away one element contradicts (`SumCounts`): what each key of a finite set
counts adds up to the number of rows with a key in that set. `DaysCount` says so of the days of the
trend, `UnitsCount` of the units of the roll-up, which are finitely many (`FiniteUnits`). Each row
of the trend is on a day that is shown (`OnADay`); a deviation at no listed unit is newer than
the page, so what the sums and the totals differ by is counted by rows from meanwhile (`RestCounts`).

### What is only model-checked

Liveness (`InsertEnds`, `AlertsConverge`, `StopEnds`, `RequestsEnd`): it needs
fairness and ENABLED, which are out of the prover's reach. The four runs of §4 that end in a
counterexample need no proof.

## 6. Not modelled

- BLE decoding: functions of a few bytes without state, each layout tested
  with packets; the radio itself is hardware.
- Password hashing, JWT, random tokens, routing: library calls without state. Who may
  call what is a guard where it matters (`Admins`, `Entitled`).
- Creating and revoking gateways and their keys, the spelling of MACs: single
  statements and string functions nothing else depends on.
- Configuration, start-up and seed data: read once.
- The layout of the PDF, mail texts, the frontend's rendering.
- Averages, percentages and their rounding in the analytics: functions of the rows of one statement.
- A power failure of the gateway that takes what the spool had not synced to disk; the tie of two
  readings of one unit with one time is broken once, at arrival, where each query may break it anew.
- What the mail server and Stripe do inside: a mail succeeds or fails, and Stripe is what
  `Billing` needs of it.

## 7. Plan

Done, in this order: `ReadingChain`, `AppendLog`, `ChainTamper`, `ReadingChainProofs`,
`AlertEngine`, `StoreForward`, `RateLimiter`, `FixedWindow`, `RateLimiterProofs`, `Accounts`,
`AccountBook`, `Billing`, `Records`, `BillingProofs`, `AlertEngineProofs`, `AccountsProofs`,
`ChainTamperProofs`, `RecordsProofs`, `StoreForwardProofs`.

After these `Custody` and `AlertBook`, with the proofs that they are refined, and the proofs of
`AtMostTwiceLimit` and `AnalyticsTruthful`.

Left, the most useful first:

1. `AlertEngine`: how many mails a unit in one trouble can cost after lost locks. `AlertBook` bounds
   them by the alerts opened; each alert too many should be paid for by a lost lock.
2. A second abstract specification of the alert engine, one step for a unit's whole
   reconciliation, that the engine refines as long as no lock is lost.
3. Liveness, when the prover can do it: `StopEnds` and `RequestsEnd` have short arguments by rank.
