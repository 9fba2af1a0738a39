# Verification of Educon POS

Educon POS is the point of sale of a book shop: a FastAPI/SQLAlchemy backend on
Postgres, and a React frontend that keeps selling while it is offline and
replays what it did when the server is back.  This directory holds TLA+
models of the parts where order, concurrency and failure decide whether a sale
is lost, booked twice, booked on stock that is not there or counted twice in a
wallet, with their TLC runs and machine-checked proofs.

## 1. Inventory

| Component | State | Operations | Who it talks to | Hard behaviour |
|---|---|---|---|---|
| Server replay guard (`app/services/sync_replay.py`) | one row per operation: status, replay token, fingerprint, lock time, stored answer | `begin_`, `complete_`, `fail_sync_replay` | wraps every mutating handler, in a session of its own | parallel first attempts, retries during or after the handler, a crash between commit and complete |
| Offline queue (`pos-frontend/src/modules/sync`, `App.jsx`) | IndexedDB store, React state, the array of each running cycle, `syncInFlightRef` | enqueue, dedupe, replay, retry, expire, purge, reload | sends operations to the guard | every `await` lets another callback write another copy |
| Replay lock (`syncLocks.js`, `replayManager.js`) | one record in localStorage | acquire, heartbeat, release | elects the tab that replays | accesses of several tabs interleave; expiry; closed tabs |
| Stock and reservations (`reservation_service.py`, `transaction_service.py`, `inventory.py`, `books.py`) | book counters, reservation rows, deposits | create, collect, sell, supply, cancel, update, edit | posts to the ledger and the safe | rows read before the lock is taken; requests in parallel |
| Checkout (`modules/checkout`, `App.jsx`, `LegacyReservationModal.jsx`) | cart, `transactionCounter`, `pendingReservations`, `syncMap.reservations`, `useBackend` | complete a sale online or offline, pick up, cancel, withdraw, archive, audit, hydrate | posts directly, else enqueues | one of two requests fails; an applied request counts as failed; a second click; a reload |
| Student wallet (`student_wallet.py`, `wallet.py`, `students.py`, `walletSyncPayloads.js`, `checkoutController.js`) | balance column, immutable entries, the balance the till shows, queued balances and entries | sell, pick up, return, cancel, edit, create entry, set balance, migrate the opening balances | ledger, guard, queue | balance and entries drift apart; a balance computed from an old one undoes a change |
| Authentication (`auth/`, `authSession.js`) | refresh tokens, the pair in localStorage, `authState` of each tab | login, refresh and rotate, retry, expire, log out | every request; the end of a session purges the queue | parallel requests trade one token; lost answers |
| Ledger, periods, drawer (`accounting.py`, `main.py`, `inventory.py`) | journal entries and lines, periods, drawer sessions, safe transactions | post, list and close a period, open and close a drawer, audit, reconcile | called by all financial handlers | entry numbers counted without a lock, requests that wait for each other, periods closed between two steps |
| Connection pool (`database.py`) | 10 + 20 connections | take, return, time out | a guarded request takes two | everyone waits for a second connection |

What makes each of them correct:

- **Guard**: an operation is applied at most once and acknowledged only if it was applied; every request ends.
- **Queue**: nothing enqueued is lost; an operation reaches the server after those it depends on; everything is delivered in the end.
- **Lock**: two tabs do not replay at once; a tab that dies does not stop the others.
- **Stock**: reserved copies are those of the pending reservations and exist; a deposit is settled once; cash in the safe is cash in the ledger.
- **Checkout**: what was shown as completed is applied, or waits in the queue; it is applied once; receipt numbers, local ids and rows are not taken for each other; a reservation that is collected here is collected on the server.
- **Wallet**: the balance is the sum of the entries; every change that was recorded counts once.
- **Authentication**: a refresh token is traded once; a browser has saved the token that is valid; it is told that the session is over only when it is; every request ends.
- **Ledger**: entries are numbered without a gap; their period exists, and a closed one is left alone by whoever comes later; an audit takes out what came in; every posting ends.

`PROJECT.json` lists the hazards, each at its line with the properties that watch it.

## 2. Modules

| Module | Models | Proofs |
|---|---|---|
| `ReplayContract` | the abstract promise of the guard: an operation is applied, then acknowledged, and applied again only after a disturbance | |
| `SyncReplay` | `sync_replay.py` and the handlers it wraps | `SyncReplayProofs` |
| `OfflineQueue` | the queue of one tab and its overlapping replay cycles | `OfflineQueueProofs` |
| `ReplayLock` | the lock between tabs | `ReplayLockProofs` |
| `BookStock` | the stock, reservations and deposits of one book | `BookStockProofs` |
| `Checkout` | one till: cart, completion, reservations, their way to the server | `CheckoutProofs` |
| `StudentWallet` | the wallet of one student: till, queue, server, migration | `StudentWalletProofs` |
| `AuthSession` | the session of one browser and the refresh tokens of the server | `AuthSessionProofs` |
| `Ledger` | journal entries, periods and the cash drawer, and the requests that post | `LedgerProofs` |

`MC...` modules hold the values TLC needs; each `.cfg` is one run.  Definitions
named *Mutant of X* are X with one plausible bug: replacing X by it makes the
run of the property fail, which shows that the property depends on that code.

The modules meet at the queue.  `OfflineQueue` shows what its copies may lose and
in which order operations leave it, `ReplayLock` who may send them, `SyncReplay`
that the server applies each once; `Checkout` and `StudentWallet` rest on that:
their queue has one copy and one cycle, and the server knows an operation that it
has applied (the answer in the guard's row, or the entry with its operation id).

### SyncReplay

`record` is the row (`SyncReplayRecord`); `worker` is what one request knows
(`SyncReplayState`).  `Receive`, `Lookup`, `Insert`, `RejectMismatch`,
`AnswerDuplicate`, `RejectLocked`, `Resume` are the branches of
`begin_sync_replay`, one action per database access: the lookup and the write
that follows it are separate steps because the session takes no lock between
them.  `Execute` is the commit of the wrapped handler, `Complete`, `Reject` and
`Break` how it ends, and a crash may come after any of them.  A handler's own
transaction is one step; its second session (the guard's) is another, which is
what makes the window between the two commits visible.

*Disturbances.*  The guard does not promise exactly once unconditionally, and
the model does not pretend it does: an operation is *disturbed* when its handler
fails or dies after the commit, when its lock expires while its handler still
runs, or when a request with another fingerprint takes the row back.  The
properties speak of undisturbed operations, and the disturbances are reachable
in the runs; `ReplayContract` allows a second application only after one.

### OfflineQueue

`store`, `mem` and `cycle[c].copy` are the three kinds of copies of the queue.
Each action is the code between two `await`s: `Enqueue` is `enqueueOperation`
(with dependencies and dedupe), `PersistEffect` the effect of `App.jsx` on
`syncQueue`, `ReadLive`/`PublishLive` the beginning of `runReplayCycle`,
`Skip`/`Load`/`Enter` the in-flight test of `processSyncQueueOnce` — tested
*before* the store is read, set *after* — then `Authenticate`, `Mark`, `Show`,
`Succeed`/`Refuse`/`Expire`, `WriteBack`, `Settle`.  `Precedes` is
`sortReplayQueue`.  What React does with a pending update (`Enqueue(deferred)`)
and what the server answers are nondeterministic.

An operation is *exposed* when the code may really lose it: it was enqueued
while a cycle held a copy, its enqueue ran deferred, or it was purged (the cleanup at
the end of a session empties the store, while the React state and running cycles
write it back: `App.jsx:379`, `:397`).  `UnexposedIsEverywhere` says that these
are the only ways; TLC reaches each.

### ReplayLock

`acquire`, `heartbeat` and `release` each read the record and then write it,
with nothing that makes the two one.  Another tab's access may come between the
two unless `Isolated`: whether localStorage accesses of two tabs exclude each
other for the length of a call is up to the browser; the model has both.
`Tick` is the clock and may run ahead of the heartbeats, as it does in a
throttled tab; a call itself takes no time.  The token holds the millisecond of
the call, so that two acquisitions of one tab may have the same one (`token` is
the set of cycles that hold it).  `lease` is what a cycle may count on.

*Disturbances* are recorded by `shared` (a tab was given the lock its own cycle
holds; the `finally` of the nested cycle then removes the record of the first) and
`raced` (a call acted on a record that had changed since it was read).

### BookStock

`book` and `reservation` are the rows; `request[w]` is what a handler has read
without a lock and acts upon later.  `create_reservation`, `create_transaction`
(`Sell`, `Collect`) and `create_supply` read after `SELECT ... FOR UPDATE` of
the book and are one step.  `cancel_reservation`, `update_reservation` and
`update_book` read first and lock or write later and are two.  SQLAlchemy
writes only attributes whose value differs from the one read, which `Update` and
`Edit` follow.  `disturbed` collects the reservations written by a request that
had read another state; the properties speak of the others.

### Checkout

A *ticket* is one click that completes something; `ticket[i]` is what its handler
closed over (number, customer, cart) and the `await` it is at.  `CompleteOnline`
is `completeSale` up to its first request; `ReserveOnline` and `SellOnline` are the
requests, each with its answers: done, done but the answer is lost, refused or
failed (`FallBack`: offline mode, and *everything* goes to the queue), or the
session ended.  `RefreshRead`/`Refreshed` are `fetchCoreSnapshot`, read by the server
before it is applied here.  `CompleteOffline`, `Pickup`, `PickupFromDetails`,
`CancelReservation`, `Memo` are the buttons that record first; `Probe`, `Hydrate...`,
`Reload` the changes of the mode; `Replay...` is `processSyncQueueOnce` against the
rows of the server, with the map of local ids of the render in which the cycle
began (`cycle.map`).  `row` are the reservations in the database, and who ended them.

*What the code does not prevent* is recorded: `doubted` (a part of a sale was
applied when an online request counted as failed: the request has no replay
headers, and its queued twin is applied again), `clash` (a click while another sale
is under way reads the same counter, and a reload in the online mode begins again
at 1).  The properties that these spoil name them, and the runs reach them.

### StudentWallet

One balance in four places: `balance` (the column), `sum` (the entries), `shown` (the
till), and queued operations.  Without the ledger the till sends the balance itself
(`student_balance_set`), computed from what it shows; with it, an entry whose id is
made of the receipt (`wallet:transaction:ED-<n>:<type>`), and still the balance after an
online sale.  `PutRead`/`PutWrites` and `ReplayRead`/`ReplayWrites` are `update_student`,
which reads the student without a lock and writes later; `MigrateRead`,
`MigrateSum`, `MigrateWrite` are `generate_opening_balance_entries`.

*What the code does not prevent.*  `torn`: a balance was written, or migrated, by what
had been read before a change.  `disturbed`: (1) without the ledger, a balance is
computed from one that lacks a change, or sent while another is on its way; (2) after
an online sale whose request failed the change is queued and the balance sent all the
same, so that with the ledger it counts twice; (3) the balance whose PUT fails is never
sent again; (4) the cancellation to the wallet throws before it queues the refund, since
it names `transactionId` above its declaration; (5) after a reload the receipt numbers,
and with them the operation ids, are used again; (6) editing a student writes the
balance that the form was opened with.  Each is set where it happens, and reached.

### AuthSession

`saved` is the pair in localStorage, `call[c]` a request of `authorizedApiRequest` at one of
its `await`s.  `RotateRead`, `RotateRevoke` and `RotateIssue` are `rotate_refresh_token`: it
reads the token without a lock, revokes it in one transaction and issues the new pair
in another.  `Renew` and `Refuse` are the two ends of `refreshAuth`, which write over
whatever is saved by now.  `raced` are the tokens that two requests had found valid;
`disturbed` says that two requests traded a token at the same time, an answer was
lost or was 403, 429 or 5xx, a new token expired before its first use, or somebody
logged out, or in beside a session.

### Ledger

Requests are transactions under READ COMMITTED.  `entries`, `period`, `drawer` and `cash` are
what is committed; `written[i]` and `made[i]` are the entries and periods that request i has
inserted and not committed.  `create_journal_entry` is `Ensure` (the period is read, without
a lock, and its status tested), `Create` (it is inserted when it is not there), `Count`
(`_next_entry_number`) and `Insert`; `Commit` is the commit of the handler.  The unique keys
are what PostgreSQL makes of them: an insert waits for a transaction that holds the same
key (`Creating`, `Inserting`), fails when that one commits, and goes on when it rolls back.
`Deadlock` aborts one of a circle that waits.  The arrivals differ in what they read first and
what follows: a sale brings cash, a withdrawal, a supply or the refund of a deposit takes some
(`Pay`), an audit takes out the balance it has read, a wallet entry locks its student, the
migration locks one student after another and posts an entry for each in one
transaction, a list only ensures its period, and the closings test what they have
read and write it later (`Change`).

A request knows what was closed when it began (`task[i].closed`), which is how
`LateOnlyUnderWay` says what a lock would have been for: an entry that found its period open
is still posted after the closing, as a second closing of a drawer is, and two openings of
a drawer by one member of the staff do not see each other (`accounting.py:258`).  `overlapped` says that two audits
were under way at one time: both then take out what they have read.  The books that
a sale locks before it posts are left out: nobody who has posted waits for them.

## 3. Runs

| Run | Question | Instance |
|---|---|---|
| `guard` | exactly once and the contract, in every interleaving | 2 operations (one whose handler records every exception, one whose does not), 3 workers, 3 requests, 2 tokens, 2 fingerprints |
| `queue` | is anything lost or sent too early? | a reservation and its sale, 2 cycles, 2 attempts, 1 failure |
| `queue_drains` | do two edits of one key coexist? is everything delivered? | 3 operations: a student edited twice and a receipt between; 1 cycle, 2 attempts, 2 failures |
| `queue_inversion` (violation) | is everything delivered when a sale depends on a student? | 2 operations of priorities 2 and 0, no failure |
| `lock` | two tabs at once? does the replay go on? | 2 tabs, 3 cycles, time to live 3, 2 closed tabs |
| `stock` | do stock, reservations, deposits and cash agree? | 3 reservations, 2 students, 2 requests at a time, 5 served |
| `stock_cancel` (violation) | does a cancellation restore its own stock only? | 2 reservations, 4 requests |
| `session` | one successor per token; is the session over when a request says so? | 1 tab, 2 requests at a time, 5 pairs, 2 starts, 1 login, 1 fault |
| `checkout` | is what was recorded kept, applied once, and not mistaken? is it delivered? | 2 tickets, 3 rows, 1 edit or reload, 1 fault |
| `checkout_pickup` (violation) | does a pickup reach the server? | 2 tickets, no edits, no faults |
| `wallet` | do balance and entries agree; does every change count once? | 2 tickets, opening 1, changes 0 and −1, price 1, 1 event, 1 fault, with and without the ledger |
| `ledger` | numbers, periods, closings and audits, and who waits for whom, in every interleaving | 3 requests of any kind, 2 students, 2 days of 2 months, 1 fault |

*Bounds.*  Two cycles are the least that overlap and two tabs with one nested
cycle the least that disturb the lock; three workers let a retry meet both a
running attempt and a finished one; three reservations of two students give a
rival, a stranger, and copies that somebody else holds.  Two tickets are a
reservation and what becomes of it, or two sales that meet; three rows hold the
reservation that is there at the start and one of each ticket.  Two requests trade one
token; five pairs leave room for the rotations of both and a login.  Three requests of
`ledger` are one that posts, one that meets it and one that comes later; two days of two
months let a request be stamped before and inserted after midnight.  In `wallet` the
third change is that of the other till.  `MaxFailures`, `MaxRequests`, `MaxCloses`,
`MaxEdits`, `MaxFaults`, `MaxEvents`, `MaxStarts`, `MaxLogins`, `MaxTotal`, `Quantities`,
`EditValues` bound only how often something happens or which values are tried; each
is large enough that the actions it bounds occur in every order with the others.  The
proofs need none of them.

*Deadlock.*  Only `ReplayLock` is checked for deadlock.  The other systems may really
stop: all requests are served, the queue is empty, or the bounds on tickets, starts
or faults are used up and nothing is left to do.

*Fairness.*  `queue_drains`: effects run after a render, the timer of the reconnect manager
(every five seconds) keeps starting cycles, retry times come, an `await`
returns (every request has a timeout), a user signs in again.  Nothing is
assumed of failures: the bound on them says that the network is not down for
ever.  `lock`: time passes, calls go on, tabs keep starting cycles, and
a cycle that is under way ends again and again (strong fairness of the release,
since a heartbeat of the same tab may be in its way).  `session`: a request that is
under way takes its next step — the server answers, and the code after an `await`
runs.  `checkout`: the server answers, the probe finds it (every few seconds), the
timer starts cycles and a started cycle goes on.  Nobody is assumed to click.

*What the violations show.*

1. `queue_inversion`: `sortReplayQueue` knows nothing of dependencies.  A dependent that
   sorts before its prerequisite — because of its priority, or because the prerequisite
   failed once and has a `nextRetryAt` — stays at the head of the queue and the loop
   waits for ever (`syncManager.js:314`).
2. `stock_cancel`: `cancel_reservation` goes by a status read before the lock and
   accepts a cancelled reservation.
3. `checkout_pickup`: the pickup in the details of a student removes the reservation
   from the list and queues a payment at most; on the server it stays pending
   (`App.jsx:2290`).  The pickup view does queue a sale, but for a reservation that came
   from the server it looks the id up in the map of local ids and sends null.

## 4. Proofs

All theorems hold for every value of the constants, under the assumptions named
in the modules (`...Assumption`), which TLC evaluates in every run.

- **SyncReplayProofs.**  `ReplayInvariant` relates the row, each worker's step and
  the number of commits; it is inductive, and `AcknowledgedIsApplied`,
  `AppliedOnceUnlessDisturbed`, `SucceededIsFinal` follow from it.
  Since it is proved, no run repeats it; so it is with `DependenciesClosed`
  below.  `ContractTheorem` shows that every step maps to a step of `ReplayContract` or a
  stutter.
- **OfflineQueueProofs.**  `DependenciesClosed` is strengthened by what each copy
  may hold and is inductive: a copy that is written is closed under outstanding
  dependencies, so that an operation that is not blocked in *any* copy, however
  stale, has none left.  `DependenciesFirst` is then a property of one step.
  `OnePerKey` and `UnexposedIsEverywhere` are inductive with it.
- **ReplayLockProofs.**  Four facts are inductive together: a tab runs one call at a
  time (`SerialCalls`); a token belongs to one tab and a heartbeat writes back
  the token it has read (`Tokens`); unless the lock was shared one cycle of a
  tab is past `acquire` (`OneActive`); a lease that lasts is in the record
  (`Held`).  `OneTabOwnsUnlessDisturbed` needs all of them: the release of a
  cycle can hurt another only if both have the token.  `FoundStands` shows that
  isolation leaves no race (`IsolationPreventsRaces`, which no run checks).
- **BookStockProofs.**  Deposits, journal and safe agree per reservation, with an
  invariant on what a request in flight has read; one pending reservation per
  student needs that a reservation that was ever settled is not pending.
  `ReservedIsHeld` sums quantities: the copies are counted as pairs of a
  reservation and a number, so that a reservation that begins or ends adds or removes a
  set whose size is known, and what a request is about to write is what it has read
  under the lock of the book.
- **CheckoutProofs.**  *Kept*: what was recorded is done or in the queue
  (`RecordedIsKept`).  Inductive with it: the server never forgets (`Forward`: rows and
  counts only grow, and a new reservation takes a row that no ticket has made); an
  operation of the queue that has a result was applied (`Backed`), so that the
  removal of an answered one loses nothing; and a sale that has reached its second
  request has its reservations (`InTurn`).  The queue is argued about as the set of its
  operations (`Elems`), which each change of the sequence extends, shrinks by one or
  replaces in one place.  *Numbers*: unless `clash`, a sale under way is alone and shows
  the number that the counter still has, and every number that was given is below
  the counter (`NumbersDiffer`).
  *Types*: the number of the counter and the sales under way together are at most the
  tickets used plus one (`TInv`), which is why no counter runs past its bound.  *Links*
  (`ListedIsBacked`): every link that a line carries was listed or made by a ticket
  (`Origin`), and a local one is mapped or its operation waits; the map is written in
  the step that removes the operation.  *Once* (`AppliedOnceUnlessDoubted`): operations of
  a queue have different tickets and kinds, a ticket whose request is on its way has
  nothing in the queue, and what is counted as applied, with a result, is no more counted
  as waiting.  *Own* (`OwnReservation`): with different numbers a local link names one
  ticket, and every step of a link's way — the click, the queue, the map, the
  row — keeps the ticket it came from (`TrueLink`, `TrueOp`, `TrueMap`).
- **StudentWalletProofs.**  `LedgerMatches` is inductive with what the migration has in
  hand: unless `torn`, the balance it has read minus the sum it has read is the opening
  balance (`Pending`).
  `EveryChangeCounts` needs two invariants.  With the ledger (`WithLedger`): the
  balance and the sum over the tickets of what is outstanding are what is due; an entry
  under the id of a queued operation is that operation's own, so that the step which
  enters it moves one term of the sum into the balance.  Without it (`WithoutLedger`):
  one request is on its way at a time, everything that will be written is what is due
  or is followed by a newer operation, and the balance is right or something is left
  that makes it right (`Carried`).  The sum is a recursive function; what a change of
  one term does to it (`TotalUpdate`) is by induction over the tickets, and the induction
  (`SetInduction`) is a pigeonhole: the numbers below the first that is missing would be
  mapped into less than themselves.
- **AuthSessionProofs.**  Any number of tabs and requests.  `OneSuccessorUnlessRaced`: a
  token that was traded is revoked, a revoked one is never found valid, and one
  request at a time is between reading and issuing.  `LiveIsSaved` and `ExpiredIsDead`
  share one invariant on the undisturbed browser: one request trades at a time, what
  it trades is saved, a valid token is owned, and a request that was refused had a
  token that is dead.
- **LedgerProofs.**  Every step is first brought into one of eight forms (`Served`), which
  say what it does to one request and that it leaves the others alone.  `NumbersTheorem`:
  the entries of a day are numbered 1..k, those that a request has inserted k+1..k+p, and
  a number that was counted is at most k+p+1 (`Row`): it may have been taken since, but
  never leaves a gap; the cardinalities that the code counts are k and p by bijections.
  `PeriodTheorem` needs that an inserted period is not there for others, and that what
  a request posts to is there for it (`PeriodOf`).  `LateTheorem`: what was closed when
  a request began still is, and what it is about to post to was not (`LateOf`).
  `AuditsTheorem`: unless two have overlapped, the audit under way finds what it takes.
  `CircleTheorem`: whoever is no migration takes a student, a period and one number in
  this order, and waits for nothing once it has the number (`Ordered`).

*Only model-checked.*  Every invariant and action property of a passing run is proved.
The liveness properties (`EventuallyDelivered`, `ReplayGoesOn`, `CallsEnd`,
`EventuallyServed`) are not: liveness under fairness and ENABLED are out of the prover's
reach.  Nor are the properties that the code violates, which TLC refutes.

## 5. Abstractions and what is not modelled

- Payloads are fingerprints.  Amounts of money are whether there is a deposit in
  `BookStock`, units of one sale in `StudentWallet`, and absent from `Checkout`.
- A sale has one item in `BookStock`, and `Checkout` knows one book; sales of several
  books lock them in the order of their ids and do the same to each.  Reservations
  are locked after books, each in the order of their ids; one book cannot show a circle,
  and that there is none is not claimed.
- The database is Postgres with READ COMMITTED and row locks; SQLite, used in
  tests, ignores `FOR UPDATE` and serialises writers instead.
- `Checkout` and `StudentWallet` have one copy of the queue: what its copies may do to each
  other is the subject of `OfflineQueue`.
- A failing IndexedDB or localStorage, and the leak of the heartbeat timer when one
  fails before the `try` of `runReplayCycle`, are not modelled.
- *Ledger, periods, drawer.*  An entry has no lines: `Ledger` knows the cash it adds, in
  units of one sale.  Its source is new; that one source is posted once while its safe
  transaction is not is in `BookStock`, and that a wallet entry and the balance agree in
  `StudentWallet`.  Drawers are those of one member of the staff.  `run_reconciliation` reads
  and inserts a row that nothing reads again.
- *Authentication.*  Users, roles and token versions are data that an answer 401 or 403
  stands for.  The lockout counter is a read and a write without a lock: parallel failures
  count once, which a model would only repeat.
- *Connection pool.*  A guarded request holds one connection and takes a second one
  (`database.py:25`): enough of them wait for each other until the pool's timeout.  The
  pool is SQLAlchemy's, and its size is configuration.
- Inventory counts, deletion of books, the catalogue and returns of stock write one row
  of one request; the wallet reconciliation only reads.
- *Waiting.*  That a request of the guard or of the ledger ends is argued and not checked.  A
  row of the guard is never deleted (`RowStays`), so that the second lookup after an
  IntegrityError finds it; and `Circle` finds every circle of the ledger, which `Deadlock` breaks.
- Reports, receipts, metrics, rate limits, migrations, scripts and views keep no
  state the modelled components rely on.

## 6. Plan

Done, in this order: `SyncReplay` with `ReplayContract`, `OfflineQueue`,
`ReplayLock`, `BookStock`, `AuthSession`, `Checkout`, `StudentWallet`, `Ledger`, each with
its proofs.  What would add most next:

1. `OfflineSync`: `OfflineQueue` composed with the guard — an operation enqueued once
   is applied once although cycles resend it — as an implementation of an abstract
   outbox.  The three modules state its parts; the product of their states is beyond
   TLC at the bounds that make each part interesting, so it wants a proof.
2. `ConnectionPool`: requests that hold one connection and wait for another.
