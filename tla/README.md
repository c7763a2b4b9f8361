# A TLA+ development for go-ledger

go-ledger is a double-entry ledger behind an HTTP API. It moves money between
accounts in one PostgreSQL transaction per request, makes `POST /transactions`
idempotent, and delivers an event per transfer through a transactional outbox.
This directory holds the TLA+ model of that machinery, the TLC configurations
that check it on small instances and TLAPS proofs that hold for every instance.

## 1. The system

| Component | Source | State it keeps | Operations |
|---|---|---|---|
| Transfers | `httpapi/transactions.go`, `ledger/service.go`, `storage/postgres/store.go` | `accounts`, `transactions`, `ledger_entries`; one database session per request | `POST /transactions`: check, claim the key, lock, check, write, commit |
| Idempotency | `idempotency/idempotency.go`, `ledger/idempotency.go`, `store.go` | `idempotency_keys` | `claimKey`, `replayStoredResponse`, `storeResponse`, `Fingerprint` |
| Accounts | `httpapi/accounts.go`, `ledger/account.go` | `accounts` | `POST /accounts`, `GET /accounts/{id}` |
| Schema | `storage/postgres/migrations` | constraints and triggers | balance floor, zero-sum trigger at COMMIT, unique indexes |
| Outbox | `storage/postgres/outbox.go` | `outbox_events`, `outbox_deliveries` | `insertEvent`, `DispatchBatch`, `settleAttempt`, `recordDelivery`, `ReplayEvent` |
| Relay | `outbox/relay.go`, `cmd/relay`, `cmd/api` | a ticker and a loop | `Run`, `Backoff` |
| Event endpoints | `httpapi/events.go` | none | `GET /events/{id}`, `POST /events/{id}/replay` |
| Publishers | `outbox/publisher.go` | outside | `Publish` |
| Connection pool | `storage/postgres/db.go` | at most 10 connections | `NewPool` |
| Migrations | `storage/postgres/migrate.go`, `cmd/migrate` | `schema_migrations` | `Up`, `Down`, `Version` |
| Process | `cmd/api/main.go` | a signal context, `relayDone`, the shutdown deadline | start, drain, join the relay, close the pool, exit |
| Decoding | `httpapi/json.go`, `httpapi/transactions.go`, `idempotency.go` | none | strict decoding, `ValidateKey`, `Fingerprint` |
| Plumbing | `httpapi/router.go`, `problem`, `config` | none | routing, rendering, configuration |

Handlers run concurrently, in one process or in several; everything they share
is in PostgreSQL, so they meet in unique indexes, in row locks and in what a
READ COMMITTED statement sees. A transfer hands over to the outbox by inserting
the event in its own transaction. A relay or a replay then publishes *inside* a
database transaction that holds the event's row.

What is hard about it:

* **Concurrency.** Duplicates of a request, transfers in both directions over a
  pair of accounts, two keys inserting one external reference, several relays
  and a replay on one event.
* **Failure.** A connection, a client or the 30 s deadline can go at any
  statement. When it goes during COMMIT the client hears 500 about a transfer
  that happened, and retries it. A relay can die between publishing and
  committing. A process is told to stop in the middle of a batch, or killed.
* **Ordering.** The funds check uses a balance read one statement earlier;
  `settleAttempt` uses an attempt counter read before a publish of any length;
  `GET /events/{id}` and `GET /transactions/{id}` read two tables in two
  statements.
* **Progress.** Requests wait for keys, rows, references and connections; a
  process that stops waits for requests, relay and connections.

What makes each part correct: a key has one effect and everyone is told the
truth about it; a commit is all or nothing; balances are the sums of entries and
currencies sum to zero; nobody is overdrawn; nobody waits in a circle; every
request is answered; an event is never lost, never published by two live
sessions at once, and its status is what its delivery history says; every event
is eventually published or given up; balances can be rebuilt from the events;
a process stops when it is told to and never between a publish and its COMMIT. `PROJECT.json` lists the hazards behind
these, each at the line where it bites.

## 2. The modules

| Module | Role |
|---|---|
| `LedgerStore` | The core: `POST /transactions` from handler to COMMIT, and account creation |
| `LedgerInvariant` | The inductive invariants of the core: `IndInv` (sessions and locks), `LedgerInv` (with answers and history), `BooksInv` (with the sums) |
| `LedgerProofs` | TLAPS proofs about sessions, keys, locks and funds |
| `LedgerHistoryProofs` | TLAPS proofs about commits, answers, history, the refinement of `ExactlyOnce` and the sums |
| `SumTheorems` | TLAPS proofs of what sums over finite sets are and how they change |
| `ExactlyOnce` | Abstract specification: what `POST /transactions` promises a client |
| `LedgerRefinement` | The mapping under which the core implements `ExactlyOnce` |
| `MCLedgerStore` | Accounts, commands and symmetry of the core's TLC instances |
| `Wire` | Pure functions: key check, decoding, fingerprint of a request |
| `TransferApi` | The core with its constants tied to what `Wire` computes |
| `TransferApiProofs` | TLAPS proofs about fingerprints and retries |
| `MCTransferApi` | The texts of the bodies of its TLC instances |
| `Backoff` | Pure function: the wait after a failed attempt, in 64-bit arithmetic |
| `Outbox` | Relays, replays and readers of events, with the inductive invariant `OutboxInv` |
| `OutboxProofs` | TLAPS proofs about the outbox |
| `Process` | The API process around its relay and its requests: start, signal, drain, exit, restart; `ProcessInv` |
| `ProcessProofs` | TLAPS proofs about the process |
| `System` | `LedgerStore` and `Outbox` over one database, and `GET /transactions/{id}` |
| `SystemProofs` | TLAPS proofs about the composition, and that it implements the safety of `Reporting` |
| `Reporting` | Abstract specification: what the ledger promises those who listen to its events |
| `MCSystem` | Accounts and commands of the TLC instance of `System` |
| `Migrate` | `migrate up`, `down` and `version` of concurrent processes of different builds, with its inductive invariant |
| `MigrateProofs` | TLAPS proofs about the migrations |
| `MCMigrate` | The builds of the TLC instances of `Migrate` |

Definitions named `..._Mutant` (or `..._SwapMutant` and so on) stand just before
the definition they are a plausible bug of. No specification uses them. Each
shows that a property notices: put in the place of its original, the property
fails.

### LedgerStore

| Variables | Code |
|---|---|
| `created`, `balance` | table `accounts` |
| `transactions`, `entries`, `events` | tables `transactions`, `ledger_entries`, `outbox_events` |
| `keys` | table `idempotency_keys` for this endpoint; `NoRow` when there is none |
| `req` | the Idempotency-Key header and the body of a request |
| `pc`, `todo`, `held`, `seen` | where the handler is; the rows FOR UPDATE has yet to lock, the rows it has locked, the funding balance it returned |
| `reply`, `lost` | what the client has been told; whose connection or deadline is gone |

A request runs once and a client's retry is another request with the same key.
A transaction is identified by the request that wrote it. The actions follow the
statements of the code, one per statement that can wait for somebody:

| Action | Code |
|---|---|
| `Receive` | `handleCreateTransaction` and `Service.Transfer` up to the store: key, body, ids, `Validate` |
| `Begin` | `BeginTx` on the pool |
| `ClaimKey` | `claimKey`: INSERT ... ON CONFLICT DO NOTHING |
| `ReplayStoredResponse` | `replayStoredResponse` and the handler's answer |
| `SelectAccounts`, `LockAccount` | `lockAccounts`: the snapshot, then one row lock after the other |
| `CheckAccounts` | missing accounts, currencies, funds, in the code's order |
| `WriteTransaction` | `writeTransaction` |
| `ApplyBalances` | `applyBalances`, `insertEvent`, rendering, `storeResponse` |
| `Commit` | COMMIT with the deferred trigger, the assertion of `Service.Transfer` on what the store returned, and the 201 |
| `CreateAccount` | `POST /accounts` |
| `Disconnect` | the handler's statement fails; the client hears 500 |
| `OrphanAbort`, `OrphanCommit` | the server's side of such a session: rollback, or the COMMIT it had already received |

What a session wrote is not kept in a variable of its own: nothing of it is
visible to anyone before the COMMIT, it is determined by the request, and an
abort undoes all of it. All the writes go through the session's own transaction, so no
action but a COMMIT changes the tables, and `Publish` puts everything there in one step.
The mutant of `AllOrNothing` is the bug this would hide: entries inserted on the pool and
not on the transaction, which `AllOrNothing` notices. What others
*can* notice before the COMMIT is kept: the key's index tuple
(`OwningKey`), the reference's (`OwningRef`) and the row locks (`held`).

`ExactlyOnce` has keys, hashes, amounts and the currencies of accounts: it posts only between
accounts of one currency, and refuses a transfer for its currencies only when they differ. When
it may say that an account does not exist is left to `KnownAccountsFound`, because it
depends on when the request looked.

A body is a name. `WellFormed`, `Command` and `Fingerprint` say which bodies
decode, into which command, and which have equal hashes. `Supported` are the
currency strings `ValidCurrency` accepts. `MaxBalance` is the end of the
`bigint` column, so the overflow of a balance is a step of the model and not a
remark.

### Wire and TransferApi

`Wire` works on a body as the sequence of its members. A member has a field, the
spelling of its name, and a scalar with its type, what it stands for and how it
is written. `Request` decodes the members in their order (null leaves a field as
it is, except for the pointer `external_ref`; a later member overwrites an
earlier one; letter case does not matter) and `canonicalJSON` decodes them into a map
(names as they are spelt, scalars as they are written). The two disagree
about what is the same, which is what the properties of `TransferApi` are about.
SHA-256 is taken to have no collisions. `TransferApi` extends `LedgerStore`, and
its `WireAssumption`, which TLC evaluates, says that the core's `WellFormed`, `Command`,
`Fingerprint`, `Keys`, `NoKey` and `BadKey` are what `Wire` computes from the texts.

### Outbox

`status`, `attempts`, `due` and `deliveries` are the two tables, with
`available_at` reduced to whether it has passed; `accepted` is the set of
events the broker has taken. A relay walks through `Tick`, `StartBatch` (the
snapshot), `ScanRow` (SKIP LOCKED, then the row's current version),
`EndScan`, and then `Publish` and `SettleAttempt` once per event, and
`Commit`, after which a full batch is followed by another at once. `available_at` is computed from `now()`, the start of the
transaction, so a short backoff may be over when its transaction commits:
`BackoffElapses` may fire right after `Commit`. A replay
enters by `Replay` and `SelectForReplay` (FOR UPDATE, which waits) and shares
the rest. `Publish` may succeed, fail, or fail after the broker took the
envelope. The faults are `StatementFails` (the batch is rolled back, what was
published stays published), `CommitUnacknowledged`, and `SessionLost`, where
PostgreSQL lets go of the rows while the worker is still publishing and only
finds out in `SettleFails`. `ReadEvent` and `ReadDeliveries` are the two
statements of `GET /events/{id}`.

### Process

`Process` extends `Outbox` with the main goroutine (`main`: serving, draining,
joining, closing, down), the signal context (`cancelled`), `relayDone`, the shutdown
context (`expired`), what `run` returns, and the connections of the pool. Its one relay
and its replays take their steps through `Acquire`, `AcquireFails`, `Statement`,
`PublishHere` and `CancelledStatement`, which add the pool and the context to the actions of `Outbox`: after the
signal, a statement of the relay succeeds only if it was in flight
(`racing`). `Exit` waits for the pool as the deferred `pool.Close` does; `Kill` does not.
`GivesUp` is a queued request whose deadline passes, or whose client is gone, before it has
a connection. After a listener error `run` does not shut the server down, so open
connections still bring requests until the process ends (`Accepting`); they fail at the closed pool.
`ListenerFails` and `DrainTimesOut` are the two ways in which `run` returns without
waiting for the relay. Everything can happen again after a `Start`.

### System and Reporting

`System` instantiates `LedgerStore` and `Outbox`, with relays, replays and readers, over their own variables.
They meet in `Handover`: the step
that commits a transfer is the `InsertEvent` of its event. `GetRow` and `GetEntries`
are the two statements of `GET /transactions/{id}`. `Reporting` knows transfers,
who has been told of them and the stored verdict, and nothing of sessions, relays
or retries. `ImplementsReporting` maps `posted` to the
transactions of the ledger, `reported` to what the broker accepted, and `verdict` to
`outbox_events.status`.

### Migrate

A build is what `LoadMigrations` finds in the binary: for each version a checksum
(`Files`), and whether it has a down file (`Reversible`). `table` and `applied` are the
existence and the rows of `schema_migrations`; `schema` counts how often the up body of each
migration is in effect, so that running it twice, or undoing it twice, shows. `holder`
is the advisory lock. `Lock`, `EnsureTable`, `CreateTable` and `ReadApplied` are the statements
before the loop; `StepUp` and `StepDown` go to the next version the loop does
not skip; `ExecBody`, `Record` and `Commit` are `applyOne`. The SQL of a migration may fail at
any time, and it may also succeed when it has been run before (the down files say
IF EXISTS). `Version` takes no lock, so its CREATE TABLE IF NOT EXISTS
can collide with another one in PostgreSQL's catalog, which is an error of
either. `Crash` is a killed process, a broken connection or the five-minute
deadline; the session it leaves behind keeps the lock until `OrphanAbort` or `OrphanCommit`.

## 3. What the runs check

| Run | Instance | What it shows |
|---|---|---|
| `transfers` | 4 requests, 3 keys, 3 connections, 3 accounts, amounts of 1 and 2 against `MaxBalance` 3 | Books balance (`BooksBalance`), the schema's floor is never reached (`BackstopSilent`), locks are taken in one order (`WaitsAscend`), and a refusal for want of funds is right when it is made (`RefusalsAreCurrent`) |
| `retries` | 4 requests over 2 keys, 2 lost connections | One effect per key (`ExactlyOncePerKey`), a commit is all or nothing (`AllOrNothing`), a client is told the truth (`AnswerHonest`), history and answers stand (`HistoryIsAppendOnly`), and clients see the abstract service (`ImplementsExactlyOnce`) |
| `rejections` | 2 requests, 26 bodies, every kind of header, accounts created meanwhile | Only lawful transfers are posted (`PostedLawfully`); who is answered with a stored response had asked for the same transfer (`ReplaysMeanTheSame`); a retry with its members in another order is a retry (`ReorderedRetryAccepted`); who names accounts that were there before its SELECT is not told that one is missing (`KnownAccountsFound`) |
| `progress` | 3 requests, 2 keys, 2 connections, 1 external reference over disjoint and shared accounts, 1 lost connection | `EveryRequestAnswered`, `RefUsedOnce`, and the inductive invariant `LedgerInv` |
| `delivery` | 2 events, 2 relays, 1 replay, batches of 2, 1 fault | `NothingLost`, `HistoryExplainsStatus`, `NoConcurrentDelivery`, `RelayTakesPendingOnly`, `DeliveriesAppendOnly`, `BackoffDoublesToCap` for 0 to 66 attempts, and the inductive invariant `OutboxInv` |
| `deploys` | 1 event, 1 connection, relay, replay, 1 fault, 2 stops | `ExitsBetweenTransactions`, `CleanExitAnswersAll`, `StopsInTheEnd`, `EventuallyDecided` across restarts, and the inductive invariant `ProcessInv` |
| `system` | 2 transfers, 1 relay, 1 replay, 2 attempts, 1 fault of a worker | `ImplementsReporting`, with its promise that every event is decided, and `ReplaysAnswered` |
| `reads` | 2 transfers, 1 relay, 1 replay, 1 reader, a fault on each side | `EventsRebuildBalances`, `PagesComplete`, `ViewsComplete` |
| `migrations` | 2 processes, 3 builds (old, new, edited), 3 versions, 1 crash | `RecordsMatchSchema`, `UpBuildsOnItsOwn`, `UpLeavesNothingPending`, `DownTakesNewestKnown`, `EveryRunEnds`, and the inductive invariant `MigrateInv` |
| `shutdown_batch` | `deploys` without faults, 1 stop | a finding, see section 6 |
| `same_meaning` | 2 requests, 3 ways to write one body | a finding, see section 6 |
| `replay_revives` | 1 event, relay, replay | a finding, see section 6 |

**Why the bounds are enough.** Every conflict in the code is between two
sessions; a third shows who goes on after the winner has committed or aborted,
and a fourth lets both happen on both keys. Three keys let an account be funded
and then spent twice at once. Account 2, which funds the others,
lies between the two users in lock order, so the order of a command and the
order of the locks disagree in one direction; account 4 funds too, so that two
transfers can meet in their reference alone and not in a row. With amounts of 1
and 2 and `MaxBalance` 3 one funding fits and two do not, so the range error, the
funds check and its success all occur. `MaxAttempts` is 2 so that an event is given
up after a relay and a replay in any order; an event may be replayed after
that. `MaxFaults` (and `MaxWorkerFaults`, `MaxStops`) bounds faults and nothing else is bounded: requests,
attempts and events are finite by themselves. `Symmetry` permutes requests and
keys and is used only in runs without liveness. In `rejections` a key of
four bytes is too long (`MaxKeyLength` 3), amounts of 8 and 9 are what a
float of three bits cannot tell apart, and each body differs from a lawful one in
one way. Two transfers also meet in the row of an account that is created meanwhile: a
SELECT before the creation misses it, and one after it waits for the row while the other commits.
In `deploys` a single connection makes relay and replay wait for
each other's, and two stops let a shutdown be followed by a kill or another shutdown
of the restarted process.
In `system` and `reads` batches of two take events of two transfers together. `system` is
about what must happen in the end: it has backoffs, a second attempt and a fault of a worker, and
no lost client connection, which changes who is told of a COMMIT and not what becomes of its event.
`reads` has both kinds of fault and a reader; there an event is given up after one attempt, so that
every verdict occurs. `Migrate` starts from any database
that an earlier Up of some build left, complete or cut short, so that two
processes are enough for every pair of commands on every state; the three
builds differ in what they know and in what they have edited.

**Fairness.** `progress` assumes weak fairness of each request's own steps and
of the end of an orphaned session: the Go scheduler runs a ready goroutine,
PostgreSQL hands a free lock to a waiter, and it notices a dead client.
`migrations` assumes the same of processes and of the advisory lock.
`system` assumes the ticker keeps firing, `Publish` returns and
backoffs run out, and nothing of the requests.
`deploys` adds that deadlines pass and that a process that is
down is started again, and assumes strong fairness of two steps: `Acquire`, since the pool
serves its waiters in their order, and `StopRelay`, since Go's select chooses at random among
the ready cases, so a relay that comes back to it with its context done takes it
in the end. No fault, account creation or replay is obliged to happen, and nobody has to give up
waiting. A
`Publish` that never returns would hold its row for ever; the code has no
timeout of its own there, and this assumption is the one to watch.

**Deadlock** is checked in every run. `Finished` lets a `LedgerStore`
and a `Migrate` behaviour stop once everyone is done; relays never stop, and a process
is started again.

## 4. What is proved

Every theorem holds for all values of the constants that satisfy the named
assumptions, which give the constants their types and keep special values
(`NoRow`, `NoTx`, `NoRef`...) apart from ordinary ones. None bounds the number of
requests, keys, relays, events, faults or restarts. TLC evaluates the assumptions in
the runs.

### The core: sessions, keys, locks and funds (`LedgerProofs`)

From `ConstantsAssumption` and `NoRowAssumption`:

| Theorem | States |
|---|---|
| `Invariance` | `IndInv` is an invariant |
| `TypeCorrect` | `TypeOK` |
| `OncePerKey` | `ExactlyOncePerKey`: under one key at most one request ever moves money |
| `FundsSafe` | `BackstopSilent`: the floor is never reached, nobody is overdrawn |
| `ReferencesUnique` | `RefUsedOnce` |
| `LocksOrdered` | `WaitsAscend`: waits go upwards in one order, so no circle of waits exists |

`ExactlyOncePerKey` alone is not inductive: nothing in it says that a
session about to commit is the first one for its key. `IndInv` adds what is true between
two statements of a session.

* `Admitted`: whoever reached the database has a valid key, a positive amount and
  two different accounts.
* `KeysExclusive`, `KeysUnclaimed`, `KeysStored`: a key has one owner, an owned key
  has no row yet, and who was told there is a row finds it. With
  `WrittenIsStored` (a posted transaction is over and is what its key replays)
  this gives `OncePerKey`: two writers under one key would be two responses in one row.
* `RefsExclusive`, `RefsUnused`: the same for references.
* `RowsExclusive`, `RowsInOrder`: a row has one owner, rows are taken upwards and
  both are held from the check to the end. `LocksOrdered` follows:
  whoever holds the row a session waits for wants only rows above it.
* `SeenIsCurrent`: while the row is locked, the balance read is the balance, and
  after the check it covers the amount. `FundsSafe` needs it: at the UPDATE the
  new balance cannot be negative.

The proof first reduces every action to one of a few *shapes*
(`ServeShape`, `NextShape`): a session advances without touching a table, locks
a row, ends without writing, publishes and ends, or is dropped. `Frame` says
what such a step leaves alone for all other sessions, `Moves` and `PublishedRows`
what it does to the tables. Then there is one lemma per group of conjuncts,
and `NextPreserves` puts them together.

### The core: commits, answers, history and money (`LedgerHistoryProofs`)

From the same assumptions and `OpenedAssumption` (accounts that are there from the
start passed validation):

| Theorem | States |
|---|---|
| `LedgerInvariance` | `LedgerInv`, that is `IndInv` and `HistoryInv`, is an invariant |
| `CommitsWhole` | `AllOrNothing` |
| `AnswersTrue` | `AnswerHonest` |
| `PostingsLawful` | `PostedLawfully` |
| `HistoryFixed` | `HistoryIsAppendOnly` |
| `FundsRefusedRightly` | `RefusalsAreCurrent` |
| `AccountsFound` | `KnownAccountsFound` |
| `ExactlyOnceImplemented` | `ImplementsExactlyOnce`: every step of the store is a step of `ExactlyOnce` or none |
| `BooksInvariance` | `BooksInv`: entries and events are finite, the books balance, and the events add up to the balances |
| `MoneyConserved` | `BooksBalance` |

`HistoryInv` needs more than its three properties: that a client has its answer exactly
when its session or its connection is over (`AnsweredAtTheEnd`, or a late commit could follow a
4xx), that the row of a key is the response of a request *with that key*
(`KeysNameTheirWriter`, for replays), that accounts are valid and empty before their first
transfer, and that the comparison of currencies still holds at the COMMIT. The proof again goes
by what a step can look like from outside (`Visible`: silent, refused, replayed, posted, posted
late, cut off, abandoned), so that the refinement of `ExactlyOnce` is one case per
alternative.

`AccountsFound` follows a request from the moment its accounts are there: until its SELECT
no account disappears, and from then on all of them are among the rows it holds or has yet
to lock (`Known`), so the check that compares them finds them all.

`MoneyConserved` rests on `SumTheorems`. The prover has no induction over data, but the
fold that defines a sum is a recursive function on the subsets of a finite set, and
among the subsets for which a claim about it fails there is a smallest one
(`SmallestSubset`, from the well-foundedness of strict inclusion). By such smallest counterexamples
the recursion has one solution (`SumUnique`), it exists (`SumExists`), the sum does not
depend on the order of the terms (`SumRemove`, `SumAdd`), and equal terms give equal sums
(`SumSame`). A COMMIT then adds two entries to two accounts of one currency, which leaves each of
the three sums of `BooksBalance` right. That `AccountIds` is finite is assumed
(`ConstantsAssumption`): a sum over all accounts means nothing otherwise.

### Requests as they are written (`TransferApiProofs`)

From the same assumptions and `WireAssumption` (a body has finitely many members, and the
constants of the core are what `Wire` computes from the texts):

| Theorem | States |
|---|---|
| `ReplaysAgree` | `ReplaysMeanTheSame`, for any bodies and amounts |
| `ReorderedAccepted` | `ReorderedRetryAccepted` |

The code reads a body twice: into a struct, member by member in the order of the text, and
into a map, from which the fingerprint is made. `RequestIsBuilt` shows that for a body that writes
no field twice the first gives what each member says (`Built`), whatever the order:
the fold has one solution, by a smallest counterexample over the sets of members already
decoded (`DecodingUnique`), and `Built` is one (`BuiltDecodes`). `DecodedOnce` says the same of the
map. Equal maps thus give equal requests (`SameMapSameRequest`), and equal
members equal maps (`OrderLeavesNoTrace`). `ReplaysAgree` then follows from `AnswerHonest`: a
replayed answer is that of a request with the same hash. For `ReorderedAccepted` the invariant is
`ReuseIsReal`: who was told that the key was used for something else finds another hash in
the key's row, now and later, because a row never changes (`RowStays`).

### The outbox (`OutboxProofs`)

From `OutboxAssumption` (events are ordered, no worker is relay and replay at once):

| Theorem | States |
|---|---|
| `OutboxInvariance` | `OutboxInv` is an invariant |
| `OutboxTyped` | `TypeOK` |
| `NoEventLost` | `NothingLost` |
| `StatusExplained` | `HistoryExplainsStatus` |
| `DeliveryExclusive` | `NoConcurrentDelivery` |
| `ReadsComplete` | `ViewsComplete` |
| `RelayOnlyPending` | `RelayTakesPendingOnly` |
| `HistoryKept` | `DeliveriesAppendOnly` |
| `NothingInvented` | `ReportsExist`: only events that are there are claimed or published |
| `BackoffIsDoubling` | `Backoff(n)`, in 64 bits, is one second doubled per attempt up to five minutes, for every `n` |
| `BackoffDoubles` | `BackoffDoublesToCap` |

`HistoryExplainsStatus` is not inductive, because `settleAttempt` writes attempts that were read before a
publish of any length. `ReadIsCurrent` says why that is right: the row has been locked since
(`LocksWhatItClaimed`), a row has one owner (`RowsExclusive`), and an event is settled
once per transaction (`ClaimsOnce`). A session that has died holds nothing and has nothing to
commit, which is what makes its stale batch harmless. `SuccessIsReal` carries
`NothingLost` from `Publish` to the COMMIT, and `ViewsBehind` relates the two reads of
`GET /events/{id}`. There is one lemma per action, and `OutboxInductive` puts them together.

`BackoffIsDoubling` is about recursive functions on the numbers. That `Shifted` and
`Doubling` satisfy their recursions at all has to be shown (`ShiftedUnfolds`, `DoublingUnfolds`);
the shift is put together from its solutions up to each `n`, which exist and agree by smallest counterexamples
(`SmallestNumber`). Then there are twenty words to compute (`ShiftedValues`), and from
the tenth attempt on both sides are at the cap (`DoublingCapped`).

### The process (`ProcessProofs`)

From `ProcessAssumption`: `ProcessInvariance` (`ProcessInv`), `ProcessTyped`
(`ProcessTypeOK`), `ExitIsBetweenTransactions` (`ExitsBetweenTransactions`)
and `CleanExitIsClean` (`CleanExitAnswersAll`).
`ProcessInv` contains `OutboxInv`, whose proof is used again: every step of the process is one of
the outbox or leaves it alone, except the end of all sessions at an exit or a kill. What it adds is that
whoever is inside a transaction has a connection (`TransactionsConnected`), so a pool
that is drained means that nobody is, and that after `Shutdown` has returned nil there is no
request and none comes (`NilMeansAnswered`).

### The composition (`SystemProofs`)

From `SystemAssumption`, which is the assumptions of the two parts:

| Theorem | States |
|---|---|
| `LedgerPart` | A behaviour of `System` is one of `LedgerStore`: all of the above about the core holds in the whole |
| `OutboxPart` | It is one of `Outbox`, with the COMMITs of transfers for its arrivals |
| `PartsCoupled` | `Coupled`: there is an event for exactly the committed transfers, and a page holds what one COMMIT wrote |
| `PagesAreComplete` | `PagesComplete` |
| `SystemViewsComplete` | `ViewsComplete` |
| `MirrorsAgree` | `EventsRebuildBalances` |
| `ReportingImplemented` | The safety part of `Reporting` (`Safety`: its initial states and steps) |

`LedgerPart` comes first and needs nothing. `OutboxPart` needs the core's invariant: that the event handed over is
the one of the transfer that committed, which had none (`PostsOneOrNone`). With both, the invariants of the parts
hold in the whole, and `Coupled` is proved next to them. `MirrorsAgree` is
`EventsAddUp` of `BooksInv`: when every transfer is reported, the reported events are
all events. In `ReportingImplemented` a COMMIT is `Post`; what relays do is `Report`,
`Settle` or nothing (`OutcomesMove`), where only what was posted is reported because of
`ReportsExist` and `EventsFollow`, and only what was reported is marked published because of
`NothingLost`. The first part of the module shows, step by step, that the two
instances of each part, with and without its theorems, are the same.

### The migrations (`MigrateProofs`)

From `MigrateAssumption` (versions are positive, the constants have their types):

| Theorem | States |
|---|---|
| `MigrateInvariance` | `MigrateInv` is an invariant |
| `SchemaRecorded` | `RecordsMatchSchema`: no migration is in effect twice, undone twice or in effect without its row |
| `UpOrdered` | `UpBuildsOnItsOwn`: Up commits a migration only on top of its build's earlier ones, unedited |
| `DownOrdered` | `DownTakesNewestKnown` |
| `UpComplete` | `UpLeavesNothingPending`: a successful Up leaves its build in place |

The argument is the lock: `Locked` says that whoever is past it has it, hence
nobody else is in a loop while a migration is committed (`OthersKeep`), hence what a
process read before its loop is still true of the versions to come (`LoopState`)
and what it has passed stays as it left it (`Visited`). The three action properties read
off `LoopState` and `Visited` at the step they are about.

### Only model-checked

* Liveness: `EveryRequestAnswered`, `EventuallyDecided`, `ReplaysAnswered`,
  `StopsInTheEnd`, `EveryRunEnds` and the `Decided` of `Reporting`. It needs ENABLED and
  fairness, which the prover does not have.
* The converse of `ReplaysMeanTheSame` is false (`same_meaning`, section 6).
* The inductive invariants were all checked by TLC before they were proved:
  `LedgerInv`, `OutboxInv`, `ProcessInv` and `MigrateInv` still are, in the runs.

## 5. What is not modelled

* The parsing of migration file names: decided when the binary is built.
* Routing, JSON rendering, `problem+json`, health checks, configuration and
  logging: stateless; what they decide about a request (400, 404, 413, 500, the timeout) is
  in the core, where 413 counts as a bad request. A path with a slash at its end is
  accepted by the router and is part of the fingerprint, so `Wire` has it.
* `GET /accounts/{id}`: one statement, which reads one row.
* JSON values that are nested, and the letters of strings: no field of a transfer is an object or
  an array, and nothing but equality depends on the letters.
* `cmd/relay`, the relay in a process of its own: `Outbox` has it as one more relay; its
  shutdown is the relay's half of `Process` without a deadline.
* Reconciliation tables: the schema has them and no code uses them yet.
* The test harness (`pgtest`) and the `RecordingPublisher` of the tests.

The unique index of `external_ref` is checked where the transaction row is inserted,
also when two sessions insert it at once. PostgreSQL's lock queues are not
modelled: any waiter may be granted a free lock, which is more than PostgreSQL does.

## 6. Findings

* **The relay's batch is not waited for** (`shutdown_batch`). `cmd/api/main.go` says "wait for
  its current batch so a shutdown cannot abandon a transaction mid-publish". The
  batch runs under the context the signal cancels, so its next statement fails: what
  `run` waits for is the rollback. The events stay pending and are published
  again (`EventuallyDecided` in `deploys`), so nothing is lost.
* **Same meaning, other fingerprint** (`same_meaning`). `idempotency.go` says "Two
  requests that mean the same thing therefore hash the same". A retry that writes an absent
  field as null, or a UUID in upper case, is refused as a reuse of the key.
* **A replay does not always revive** (`replay_revives`).
  `docs/IMPLEMENTATION_PLAN.md` says a replay "resets `status`/`available_at` so a failed
  event re-enters the relay". When the replay's own publish fails, the attempts are
  past the limit and the event stays failed.

Observed while modelling, not runs of their own:

* `relay.go` says "MaxAttempts is how many times the relay will try"; a failing manual
  replay counts in the same column and uses up one of these tries.
* `migrate.go` says Down "rolls back the newest n applied migrations"; an older build
  passes over newer rows it does not know and rolls back a migration beneath
  them. Among those a build knows the sentence holds (`DownTakesNewestKnown`).
* A body that writes one field in two letter cases can have the fingerprint of another
  body that means something else, because the map keeps both and the struct the
  later one. `ReplaysMeanTheSame` leaves such bodies out (`Unrepeated`).

## 7. Plan

Done: the core with its abstract specification, the requests as they are written
(`Wire`), the outbox with the arithmetic of its backoff, the process around it, the
composition of transfers and delivery with its abstract specification, the
migrations, and the proofs of section 4. Every safety property of the passing runs is a
theorem.

Next: the composition with `Process`, so that an exit of the API with transfers in
flight is seen by both parts at once.
