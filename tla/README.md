# Verification of Lidza's stateful parts

Lidza is a Go framework: an application is one binary, run as any number of equal
nodes that share a Postgres database. The parts that keep state across requests,
and that nodes, goroutines and failures disturb, are specified here in TLA+,
model-checked with TLC on small instances, and proved about with TLAPS for every
value of the constants.

Paths below are those of the repository, line numbers those of the files in `src/`.

## 1. Inventory

| Part | State | Operations | Meets | What makes it hard |
|---|---|---|---|---|
| Jobs queue, `packs/jobs/jobs.go` | table `job`; advisory locks per kind; the claims a node tracks; the local variables of `runOne` | Enqueue, EnqueueTx, Unique, claim, outcome, retry, takeover, Retry, Run, Stop | handlers of the app; every pack that works in the background (mail, hooks, schedules) | several nodes claim at once; a worker writes minutes after it read; crashes, lost answers, shutdown with work in hand |
| Schedules, `packs/jobs/schedule.go` | table `job_schedule`; per node the declared schedule and whether it is synced | Schedule, the tick: check, insert, change, fire | enqueues into the queue in its own transaction | several nodes fire one due time; a tick's `now` is old when used; two releases at once during a deploy |
| Due times, `packs/jobs/schedule.go`, `cron.go` | none; a calendar or the fields of an expression | Next | the schedules | clocks that skip or repeat an hour, a day that differs from that of UTC |
| Outbound webhooks, `packs/hooks` | tables of endpoints and deliveries; the failures of an endpoint; the jobs of a delivery | Send, deliver, Ping, Replay, Create, Update, Delete, prune | the queue; receivers | a chain of attempts held together by one job each; statements that fail between the record and the next job; endpoints changed meanwhile |
| Inbound webhooks, `pkg/webhook` | table `webhook_delivery` | Claim, Done, Release around a handler | a provider that retries until it is told 200 | crashes, leases that run out, statements that fail half-way, repeated deliveries |
| Mail, `packs/mail` | table of messages; the job of each | Send, SendTx, Resend, deliverQueued, Deliver | the queue; the provider | the answer of the provider lost, a takeover while a copy is on its way |
| Teams, `packs/auth/teams.go`, `workspace.go`, `roles.go`, `accounts.go` | memberships, roles, invitations, accounts | invite, accept, revoke, SetRole, remove, leave, delete | sessions; the app's own grants | many requests check first and write later, under different locks |
| Sign-in, `packs/auth/auth.go`, `signin.go`, `providers.go` | accounts, identities, sessions, links | register, sign in, callback, reset, SetPassword, Disable, DeleteUser, RevokeAll | the browser; providers | a password verified before it was replaced; links used twice; accounts that merge |
| Sessions, `packs/auth/auth.go` | the session's row; the cookies of one browser | Refresh and its grace; sign out; expiry | parallel requests of one page | replies lost or late, one token for several requests |
| Second factor, `packs/auth/totp.go`, `stepup.go` | the factor's row; the time step last used; the count of failures | setup, enable, disable, check, recovery codes | parallel requests | a row read, verified against, and written by different statements |
| Connected accounts, `packs/auth/connect.go` | the connection's row; one renewal in flight per node | Token, callback, delete | a provider that rotates refresh tokens | renewals of two nodes, tokens lost on the way |
| Billing, `packs/billing` | the subscription's row | Event, sync | Stripe | events late, repeated, in any order, two within a second |
| Realtime hub, `packs/realtime/realtime.go` | topic map, connection count, a queue and a topic set per client | serve with its reader and writer, subscribe, unsubscribe, deliver | WebSocket clients; Publish; the bus between nodes | two goroutines per connection and many publishers; slow clients; an end from either side |
| Breaker, `pkg/resilience/breaker.go` | state, failures, openedAt, trial | Do, State | calls to remote services | `fn` runs without the lock, so results arrive in any order; panics |
| Engine pool, `pkg/engine` | a channel of instances | Call, replacement, Close | callers with deadlines | an instance taken, failed, replaced or closed at any point |
| Cache, `packs/cache/cache.go` | a map and a list of its keys | Get, Set, Incr, Delete, DeletePrefix | every pack that caches | stale entries of the list, expiry, eviction |
| Settings, `packs/db/credentials.go`, `packs/admin/settings.go`, `reconfigure.go`, `pkg/env` | the table, the overrides and the packs' configuration of each node | save, load, poll, Reconfigure | every pack that is configured | a form stored field by field while other nodes poll |
| Migrations, `packs/db/migrate.go` | table of applied scripts; the schema; the advisory lock | Migrate, MigrateUntil, HoldDataLoss, Rollback | nodes that start together | killed processes, a lost lock, scripts without a transaction |
| Schema diff and merge, `pkg/schema` | the lock file, the scripts | Diff, Generate, MergeLocks | Postgres; git | the order of the statements of a change, down scripts, two branches |
| Hosts over TLS, `tls_hosts.go` | verdicts with their times | allow | handshakes | a verdict older than the change it missed, a bounded map |
| Language models, `packs/llm` | the provider in use; a call's attempts | Chat, Stream, Run, Reconfigure | providers | retries of what a caller has already seen part of |
| Storage, `packs/storage/multipart.go` | an upload at the service | PutMultipart | a service like S3 | each answer may be lost, the caller may go |
| Lifecycle, `lidza.go` | the packs started, the servers | Boot, Serve, Close | every pack | a start that fails half-way, a shutdown that is out of time |
| Development server, `pkg/devserver` | what was scanned, built and started | the loop of Dev | the developer; `lidza db migrate` | saves and migrations while it builds |
| Decimals, `pkg/decimal` | none | Parse, FromRat, Fits | columns of Postgres | ties of either sign, zeros |

The parts that are not modelled: the realtime bus, the signatures of inbound
webhooks, the rate limiter and the rest of the middleware, audit, analytics and
i18n, telemetry and tracing, the MCP server and the test helpers, the native core,
and of the modelled parts what their notes in `PROJECT.json` leave out. They hold
no shared state beyond a lock, or are formats, cryptography, generators of text
and I/O. `PROJECT.json` also lists the hazards of the code at their lines, with
the properties that are about each.

## 2. Modules

| Module | Models | Theorems in |
|---|---|---|
| `WorkQueue` | the abstract queue: what the jobs pack promises | |
| `Jobs`, `MCJobs` | `jobs.go` in full detail; implements `WorkQueue` | `JobsProofs` |
| `JobsSchedule`, `MCJobsSchedule` | `schedule.go` for one kind | `CoreServicesProofs` |
| `CircuitBreaker` | `breaker.go` | `CoreServicesProofs` |
| `RealtimeHub` | `realtime.go` on one node | `CoreServicesProofs` |
| `InboundWebhook` | `store.go` and `webhook.go` of `pkg/webhook` for one delivery id | `InboundWebhookProofs` |
| `OutboundHooks`, `MCHooks` | `hooks.go` with the jobs of its deliveries | `OutboundHooksProofs` |
| `Teams`, `MCTeams` | members, roles, invitations and accounts of one workspace | `TeamsProofs` |
| `SignIn`, `MCSignIn` | accounts, sessions, passwords, identities, reset links | `SignInProofs` |
| `SessionRenewal` | the refresh cookie of one browser | `PartsProofs` |
| `SecondFactor` | the authenticator of one account | `PartsProofs` |
| `ConnectedAccount` | one grant, its renewals on several nodes, and its provider | `PartsProofs` |
| `EnginePool` | the pool of WebAssembly instances | `PartsProofs` |
| `MailOutbox` | one message of the outbox | `PartsProofs` |
| `StripeBilling` | one subscription, beside Stripe | `PartsProofs` |
| `HostPolicy` | the verdicts of `tlsPolicy` | `PartsProofs` |
| `CalendarTimes` | `calendar.Next` and `cron.Next` | `ServicePartsProofs` |
| `MemoryCache` | the in-process store | `ServicePartsProofs` |
| `SavedSettings` | the settings' table, the nodes that poll it and one form | `ServicePartsProofs` |
| `Migrations` | the runner of migrations, under its lock | `PartsProofs` |
| `DevServer` | the loop of `lidza dev` | `ServicePartsProofs` |
| `LanguageModel` | `Chat`, `Stream` and `Run` with their retries | `ServicePartsProofs` |
| `MultipartUpload` | `putMultipart`, request by request | `ServicePartsProofs` |
| `AppLifecycle` | `Boot`, `Serve`, `Close` | `PartsProofs` |
| `PostgresSchema` | what a statement of DDL does to a schema | |
| `SchemaDiff` | `Diff`, and the scripts it writes | |
| `GeneratedMigration`, `SchemaMerge`, `MCSchemas` | a database under those scripts; two branches that merge | `ServicePartsProofs` (the lock files) |
| `Decimals` | `Parse`, `FromRat`, `Fits` on digits | `ServicePartsProofs` |
| `MCParts` | the eighteen modules from `SessionRenewal` on, as one instance | |

A definition named "Mutant of X" is X with a plausible mistake in it. Each
property has one that breaks it under the property's own run, which shows that the
run could see the mistake.

### Jobs

`row` is the table: a row is `none` before it exists and `draft` while its
transaction is open. `run_at <= now()` is the flag `due`, `locked_at` a stamp no
live claim of the row has, and "more than `JOBS_STALE` ago" the flag `stale`, so
there is no clock. `wk` holds what `runOne` keeps in local variables: the claim it
read (stamp, attempts, keyed), the limited kinds it has still to try, and the outcome it
is about to write. `lock` is the advisory lock per limited kind, `phase` the life of a
node, `claimed` its `q.claimed`, with one entry per job id whichever of its workers wrote
it last, `snap` the copy of it that Stop works through, `call` the transactions that
enqueue a Unique key.

| Code | Actions |
|---|---|
| `Enqueue`, `EnqueueTx`, `enqueue` (`INSERT ... ON CONFLICT`, then `SELECT`, up to three times) | `Enqueue`, `Begin`, `Insert`, `Lookup`, `CommitTx`, `RollbackTx` |
| `runOne`: takeover of stale rows | `Poll` with `TakeBack` |
| `claim`: the due rows, the try-locks one by one, count, `FOR UPDATE SKIP LOCKED`, `UPDATE`, commit | `LookForDue`, `TryLock`, `HasLock`, `Locked`, `Take`, `Commit`; `ClaimFails`, `ClaimLost` |
| the handler | `Return`; a run past `JOBS_STALE` is `Overrun` |
| outcome, guarded by id and `locked_at` | `Write`, `WriteFails`, both with `Untrack` |
| `Run`, `Stop`, `releaseClaimed` | `Run`, `StopClaim`, `StopRun`, `StopFinished`, `StopGivesUp`, `ReleaseNext`, `ReleaseDone`, `ReleaseFails` |
| a killed process; one that exits after Stop | `Crash`, `ProcessExit` |

The choice among due rows is open (`SKIP LOCKED` makes `ORDER BY run_at` a
preference). The handlers of a node are a constant: applications register them
when they start.

`WorkQueue` forgets rows, stamps and locks: a job is given to an owner while its
kind has a slot, and ended only by the owner it was last given to. `QueueSpec` is
the refinement, with the worker whose claim holds as the owner.

### JobsSchedule and CalendarTimes

One kind, since kinds share no row. `Tick` reads the clock, `Select` the row,
then one of `Insert`, `ChangeSpec`, `Advance` (and `Commit`, the transaction of
`fire`) or `Skip`; `Fail` is a failed statement or a tick past its deadline, `AnswerLost` one
that took effect although the node was not told.
`Declare` starts a process with a schedule and `Exit` ends one. The schedules are
a set and `NextDue` an operator constant, of which only "later than its argument"
is assumed: `CalendarTimes` models what computes it and `SchedulesMoveOn` proves
the assumption of it. There `zone` has one change of its clocks, a day, a week and
a month have the lengths of the constants, and `Place` is what Go's `time.Date` does
with a wall clock.

### OutboundHooks

A delivery is one event for one endpoint; each attempt is a job, and a failed attempt
enqueues the job of the next. The queue's steps are those of `WorkQueue`, which `Jobs`
implements: a job may be given to a second worker while the first, presumed dead,
still runs its handler. `run` is where `deliver` stands on each worker:
`Read`, `Post`, then `MarkDelivered` and `ClearFailures`, or `RecordAttempt` and
`EnqueueNext`, or `MarkFailed` and `CountFailure`, each of which may fail or have its
answer lost. The attempt a run records is the claims its job has had (`Counts`), so that a
takeover uses one up; Stop gives job and attempt back (`GiveBack`). `missed` records the deliveries an endpoint's count stands for.

### InboundWebhook

The requests of one delivery id, on any nodes, and its row. `Claim` and `Look`
are the two statements of `PostgresStore.Claim`; `Done` and `Release` name the id,
not the claim, as in the code. `Lapse` ends a lease whose holder is gone,
`Overrun` one whose holder is still at work. The provider, the network and
crashes are external. `handled`, `lost` and `overruns` count what the promise is
about: handler successes, successes whose record failed, leases that ran out
under their holder.

### Teams and SignIn

`Teams` is one workspace. A request checks the caller's permission on committed
rows, one query for each permission of a role it gives or takes away, then locks the workspace's row or an invitation's where the code does, counts
owners where it does, and writes. `held` keeps the permissions a subject ever had,
`bypassed` the subjects whose ownership went without a count (the app's own Revoke,
the end of an account).

`SignIn` is one address and one provider account with the accounts that come and go
with them. Each route is the statements it runs: a sign-in reads the row, verifies the
password it read, then writes the session; `SetPassword` writes the password and
then revokes. `barred` and `unrevoked` say what has been promised: a `Disable` that
returned, a password replaced whose RevokeAll is still to run.

### CircuitBreaker and RealtimeHub

`Do` takes the lock twice, so a call is two actions: `Admit`, `Try` or `Refuse`,
and `Fail`, `Succeed` or `Panic`. `advance` is part of each that calls it. Time
is whether `Reset` has passed since `openedAt`. A call remembers what it was
admitted as; `stale` is a trial of an earlier half-open period that returns late.

The hub has one action per critical section, or per receive, write or read of one of
the two goroutines of a connection. A message is its topic and number; the numbers are
there for the part of `HubKept` about gaps alone. Which topics a client asks for, in
which order, and which of them Authorize allows is open. A message that comes over the
bus is `deliver`, as one of `Publish` is.

### The eighteen machines of MCParts

Each is a module of its own; `MCParts` instantiates all and a behaviour runs one of
them, chosen at its start (`part`), in the variables `x1` to `x11` that all share, so one
run checks what eighteen would. A property is `part = "..." =>` the machine's own.

- `SessionRenewal`: a page's requests carry one refresh cookie; the row keeps the
  current token and the one before it for the grace; replies arrive in any order or never.
- `SecondFactor`: every request reads the row, decides, and writes by a condition on
  what it read, with how often a factor was enabled by then; codes are known by their secret and step
  or set and number. `spent`,
  `twice`, `tries` and `enablings` are the history the properties speak of.
- `ConnectedAccount`: `Token` with the shared renewal per node (`refreshing`), the
  callback and the disconnection; the provider keeps one live refresh token per grant.
- `EnginePool`: the channel `idle`, calls with deadlines at every point, replacements
  that may fail, Close.
- `MailOutbox`: the row, the job of it as `WorkQueue` has it, and the copies the provider
  took; `unrecorded` and `overlaps` are the excuses of a second copy.
- `StripeBilling`: Stripe's states with their seconds, the events, and the handler of
  each event statement by statement.
- `HostPolicy`: the verdicts with the times they expire, the app's data that changes.
- `MemoryCache`: `items` and `order`, the list that may hold stale and repeated keys.
- `SavedSettings`: `CredentialStore` (the version is the count and the newest time),
  `DB.watch`, and `saveSettings` field by field with its putting back.
- `Migrations`: the lock's connection and the others; a script is one transaction, or
  statements and then the record; a process may be killed, leaving the server at the
  statement it had sent (`EndsLate`), and a lock lost anywhere. A COMMIT in flight at a kill is
  over at once, or not done.
- `GeneratedMigration` and `SchemaMerge`, over `SchemaDiff` (what `Diff` writes) and
  `PostgresSchema` (what a statement does and when Postgres refuses it).
- `DevServer`: the loop; a save or a migration may come at any point of it.
- `LanguageModel`: one call at a time, with the configuration it began with.
- `MultipartUpload`: the requests of one upload, each with a lost answer; a part that was
  given up on may still land (`stray`, `PartLands`).
- `AppLifecycle`: the packs by number, each using those before it, two servers, the
  shared ten seconds; `sockets` are the requests that took their connection over, which
  `http.Server.Shutdown` neither waits for nor closes.
- `Decimals`: digits as sequences, of any base; `Plain` and `Split` are what `plain` and `split`
  do. What folds over digits is a recursive function, so that it can be proved about.

## 3. Runs

States are distinct states; each run takes less than three minutes.

| Run | Instance | Shows |
|---|---|---|
| `JobsFaults` | 2 nodes of 1 worker, 2 jobs of a `Concurrency(1)` kind, 2 attempts, 2 disturbances; 1,130,000 states | `ClaimsKept`, `FailsOnlyOutOfBudget`, and that `Jobs` implements `WorkQueue` (`QueueSpec`) |
| `JobsUnique` | 1 node, 3 jobs of one key, 2 callers with and without transactions, 1 disturbance; 1,600,000 | `KeyFollowsJob` |
| `JobsLive` | as `JobsFaults` with 1 attempt, under fairness; 300,000 | `JobsEnd` |
| `Schedule` | 2 nodes, schedules every 2 and every 3, clock to 4, 3 starts or failures, under fairness; 183,000 | `CaughtUp`, `DuePasses`, `DeploySettles` |
| `Breaker` | 3 calls, threshold 2, under fairness; 521 | `OneTrial`, `Recovers` |
| `Realtime` | 2 connections, 1 slot, 2 topics, buffer 1, 2 messages a topic, under fairness; 454,000 | `HubKept`, `SlotsReturn` |
| `Webhook` | 3 requests, 4 disturbances, under fairness; 114,000 | `DeliveryKept`, `Acknowledged` |
| `Hooks` | 1 endpoint, 2 workers, 2 deliveries of 2 attempts, 5 jobs, 1 upset; 2,620,000 | `ChainKept`, `CountedOnce` |
| `Teams` | 2 subjects, 2 roles, 2 invitations, 2 requests at once, 3 calls; 1,790,000 | `OwnerKept`, `GrantersHadIt`, `ClosedStaysClosed` |
| `TeamsAccount` | the same; ends in a violation | `LastOwnerStays`, see 6 |
| `SignIn` | 2 subjects, 2 sessions, 2 requests at once, 5 calls | `BarredIsOut`, `SessionsRestOnPassword`, `EveryAccountHasAWayIn` |
| `Parts` | the eighteen machines; 1,230,000 | one property of each, below |

What `Parts` shows, with the bounds of each machine and its states, up to symmetry.

| Machine | Property | Bounds | States |
|---|---|---|---|
| `SessionRenewal` | `SessionKept` | 3 requests of a page, 2 expiries | 29,000 |
| `SecondFactor` | `CodesHold`, `OffOnlyByCode` | 2 requests, 2 wrong codes, skew 1, steps to 2, 2 secrets, 1 recovery code | 85,000 |
| `ConnectedAccount` | `StoredGrantWorks` | 3 callers, 1 of them on a second node, 2 grants of 2 renewals | 483,000 |
| `EnginePool` | `PoolWhole` | 3 calls, 2 slots, 4 instances | 71,000 |
| `MemoryCache` | `Bounded` | 4 keys, 2 of a prefix, room for 2, a list to 5 | 20,000 |
| `SavedSettings` | `NodesFollow` | 2 nodes, 2 fields, 1 form | 249,000 |
| `MailOutbox` | `CopiesExplained` | 2 runners, 2 tries, 3 claims, 1 resend | 16,000 |
| `StripeBilling` | `RowIsCurrent` | 2 changes in 2 seconds, 2 handlers | 23,000 |
| `Migrations` | `RecordTells` | 3 scripts, one without a transaction, one of data loss, 2 processes, 1 mishap | 40,000 |
| `HostPolicy` | `RevokedIsRefused` | 2 hosts, 1 verdict kept, verdicts of 2 and 1, time to 2 | 35,000 |
| `CalendarTimes` | `EachTimeMet` | days of 4 hours of 2 units, weeks of 2 days, months of 3; 5 kinds of zone that change at any time of the second day, and UTC | 16,000 |
| `GeneratedMigration`, `SchemaMerge` | `SchemasAgree` | families of 57, 45, 31 and 20 schemas of 2 models; 41 branch schemas on 23 ancestors | 69,000 and 62,000 |
| `DevServer` | `DevFollows` | 3 saves and migrations, 1 fall | 11,000 |
| `LanguageModel` | `CallsKept` | 2 configurations (2 and 3 attempts, 3 and 2 rounds), 2 switches, 2 conversations | 464 |
| `MultipartUpload` | `UploadSettled` | parts of 2, sizes to 5, readers of 0 to 6 | 1,371 |
| `AppLifecycle` | `LifecycleKept` | 3 packs, 2 servers of 2 requests, each of which may take its connection over | 11,000 |
| `Decimals` | `DecimalsExact` | digits 0, 1 and 5, up to 2 on each side, exponents to 2, ratios of -12..12 by 1..8, 4 columns | 7,000 |

Why these bounds. Two of each actor are enough for every race the code has, since
each is between a holder and one other; the third request of `Webhook` lets one
take over, one hold and one settle late, the third job of `JobsUnique` is what
a key freed too early would let in, and the third page request of `SessionRenewal` is
overtaken by two rotations. `SavedSettings` has one form in the run, beside the poll of two
nodes: two forms of one field, putting back at once, were run by hand (below), and
`SettingsFollow` is for any number of forms. Two disturbances at a time give a crash during
the recovery from another; four in `Webhook` an overrun, a failed record, a crash
and a repeated delivery in one behaviour. `Buffer`, `MaxConns`, `MaxVerdicts` and the
room of the cache and the pool put every queue and count at its limit at once. The
digits of `Decimals` are below, at and above a tie; its zeros carry only the scale. The
safety properties are proved beyond the bounds (section 5), but for `SchemasAgree`.

Larger instances were run by hand: `Hooks` with two endpoints, without a wait and four
jobs (821,000 states), `Jobs` with two workers on one node (483,000) and with two limited
kinds (1.5 million), `Teams` with three subjects and two calls (313,000),
`SessionRenewal` with three expiries (200,000), `SecondFactor` with steps to 3 and two
spare codes (5 million), `SavedSettings` with two forms of one field (6.9 million),
`HostPolicy` with time to 4 (2.3 million), `Migrations` with two mishaps and no symmetry
(262,000), `StripeBilling` with three changes (347,000), `CalendarTimes` with longer days
(108,000), `SchemaMerge` with all its ancestors (110,000).

Symmetry is used in the runs of safety alone: workers and endpoints in `Hooks`,
subjects and requests in `Teams`, sessions too in `SignIn`, and in `Parts` the two of `Pair`, which every machine
treats alike.

Deadlock is checked in the runs of `Jobs` and `CircuitBreaker`. It is off where
the model really may stop: a clock at `MaxTime` with every disturbance used up, a
hub whose connections are over, a delivery that has been acknowledged, a machine of
`Parts` whose bounds are used up.

## 4. Fairness

- `Jobs`: workers and nodes take their next step (goroutines of a live process; a handler returns because its context has a deadline), time passes (`ComesDue`, `Age`), a process that is down is started again by its supervisor, a transaction that began ends. Nothing is asked of callers, of Retry or of any disturbance.
- `JobsSchedule`: time passes and the loop of a running process ticks. Nobody need start a process.
- `CircuitBreaker`: time passes, callers keep calling, `fn` returns. A call that is never made again need not find the breaker closed.
- `RealtimeHub`: a write ends within `WriteTimeout` and serve comes back to its select (weak fairness of `Serving`); Go's select picks at random among ready cases, so the end of the reader is seen in the end (strong fairness of `SeesReadError`). Clients owe nothing.
- `InboundWebhook`: a request is served, a lease lapses, and the provider sends again until it is told 200, which is what providers of webhooks promise.

Disturbances are bounded by `MaxUpsets`, so a liveness property says that the
system recovers when they end. The other machines are checked for safety only.

## 5. Proofs

Each proofs module extends its component, or `MCParts` with all of them, and holds for
every component an inductive invariant, lemmas on what a step may change, and one theorem
per property. Each theorem is of the specification the run checks, for every value of the
constants that the named assumptions allow; where a component of `MCParts` fixes a
constant (the two fields of a form, the two servers), it is fixed in the proof too.

### `JobsProofs`

`TypeCorrect`, `ClaimsHold`, `KeysFollowJobs`, `BudgetUsed`, `JobsImplementQueue`. That
the cap holds is not inductive: a worker that has counted and not yet committed relies on
the count. `IInv` adds that a lock is held only inside the transaction of a claim
(`LockInv`), that a picked row is still pending and, in a limited kind, the lock is held
and a slot free (`TakenInv`), that two transactions never pick one row (`TakenOnce`), that
a worker in a handler has a stamp for its job and no other worker has the same one
(`TrackedInv`, `StampsApart`), that only a running row carries a stamp and only a live one
a key (`RowInv`), that a node that is down runs no worker (`DownInv`), and that the draft
of an open transaction is its own (`CallInv`, `CallsApart`). `OutcomeInv` adds what a
worker about to write knows of its attempts. Two lemmas say which steps change a worker
and which change a row; the conjuncts follow from them without going through the actions
again.

`JobsImplementQueue` is the refinement: the owner of a job in `WorkQueue` is the worker
whose claim of it holds, unique by `ClaimsExclusive`. One lemma per action says which step
it is there: an enqueue or the commit of its transaction submits, the commit of a claim
gives (also one whose answer was lost), an outcome ends or requeues, a takeover and
the release of Stop requeue, a failed write or a crash leaves the owner vanished,
`Retry` admits again, and the rest stutters. Assumptions: every worker has a
node, jobs are finitely many and have kinds, caps and budgets are numbers.

### `CoreServicesProofs`

- Schedules: `ScheduleTypeCorrect`, `NextDueOfItsSpec`, `OneJobPerDueTime`, for any number of nodes and releases and any `NextDue` later than its argument. The last needs that the row's next time is later than every `now` a job was decided at since the last change of schedule (`JobsInv`), and that a node between the UPDATE and the commit of fire holds the row's lock and the row is still the one it saw (`LockInv`).
- Breaker: `BreakerTypeCorrect`, `OneTrialPerPeriod`, `ClosedIsBelow`. The strengthening is `TrialKept`: while a trial of this period is out, a half-open breaker has its flag set.
- Hub: `HubTypeCorrect`, `HubKeeps`. `QueueInv`: what waits was delivered and is of a topic the client has. That nothing is sent on a closed channel needs that the hub follows its clients: `deliver` removes a client from the topics the client knows of, so it is out of all of them only then.

### `InboundWebhookProofs`

`WebhookTypeCorrect`, `DeliveryKeeps`, `HandledStays`. `HandledOnce` is strengthened to
`Budget`: the successes so far plus the requests that may yet succeed plus an open row are
at most one more than the successes lost and the overruns. `Truthful` says that wherever a
success is told or noted there was one, and `Owned` that without overruns the row is the
claim of whoever works on the delivery.

### `OutboundHooksProofs`

`HooksTypeCorrect`, `ChainStands`, `CountsOnce`. That a delivery has one more job than
there were upsets is no invariant by itself: an attempt that was recorded has its next job
still to come, and a run whose job went to another worker may yet enqueue one. The
invariant counts places: the jobs of a delivery whose run is not over, and the runs
astray from their job. A run that ends gives up a place and the next attempt takes it;
only an upset makes a second. Beside it stand what each run knows of its row (`Passed`,
`Prefixes`, `RowsFit`), and for every endpoint that is not gone a balance of its failures,
the deliveries that count, and the places of those that may still be counted (`Balanced`).
`ForksCounted` bounds the places by the upsets, counting those of all deliveries by
surjections.

### `TeamsProofs` and `SignInProofs`

`OwnersStay`, `GrantersStand`, `DecidedOnce`: the invariant says what each request may
rely on at its step: the lock it holds, the owner it has counted, the permission it has
seen (`held` grows only), the invitation it has locked. `BarredStaysOut`, `SessionsRest`,
`WayIn`: an unrevoked session rests on the present password, or one of the requests
under way or promised will revoke it; what a request has read is as old as its
statement says.

### `PartsProofs`

A behaviour keeps its part, so each theorem is an invariant of one machine under
`part = "..." =>`, with a lemma that the other steps leave it alone.

- `HostsRevoked`: a verdict that approves expires within `ApproveTTL` of the last time the app approved the host, also one still on its way to be kept.
- `CopiesAccounted`: copies are at most one more than what was unrecorded, resent and overlapped, counting runs between their look and their record.
- `RowCatchesUp`: the row's state is the newest of the events handled, each request carries the state of an event or one fetched after it.
- `PoolKept`: slots in the channel, in calls, drained and failed make `Size`; a closed instance is not in the channel but for the named exception.
- `SessionsKept`: tokens count rotations; one reply carries the newest token; the browser is never behind the requests it sent; without an excuse every token in use is one the row finds.
- `StoredGrantsWork`: no token is newer than the provider's; a renewal still to be stored is the newest, and nobody else has its token; a new grant is its caller's alone until it is stored; the row's token is current, stranded, or about to be replaced.
- `CodesKept`: a spent time code is not later than the row's last step, and a spent recovery code is gone, unless the secret changed; the tries are the failures recorded in this window; the checks not decided and the tries are at most the limit and the other requests.
- `OffByCodeOnly`: an upsert that carries the present count of enablings began while no factor was on; a check that passed compared its code with the secret the factor has, unless a factor was enabled since its read.
- `TableTells`: while no lock was lost one process is at work; what it is to apply follows what is applied, with the statements before its next in effect; what it is to revert is applied with nothing left out after it. A statement that a killed process left running is of a script still to be applied, or still applied when it reverts, and no process got past it, since it waits for that one's locks. With a lock lost, the same without reverts.
- `LifecycleHolds`: the packs on are the first so many, all while a server may run; nothing listens before and after; a drained server has no request that net/http waits for while the deadline runs. Of requests on hijacked connections it says nothing: there is nothing to say (section 6).

Assumptions (`PartsAssumption`, `ClocksAssumption`, `DecimalsAssumption` and
`NoFactorAssumption` of `MCParts`), of this module and the next: the sets of actors are
finite, bounds and lengths are numbers, and positive where the code's defaults make them
so; a day has two hours at least and more than the five units the plans' times name;
instants end; migrations are numbered without a gap; the base of decimals is above one, digits
are below it, denominators are positive and columns have as many digits as places at least;
values that stand for none are none.

### `ServicePartsProofs`

- `SchedulesMoveOn`: `calendar.Next` and `cron.Next` say an instant later than the one asked, in every zone with a change of its clocks: what `JobsSchedule` assumes.
- `PlainDaysMeet`: no time of a plan is passed over on a date, however late the tick, as long as no change of the clocks lies within the dates from that of the instant asked about to it (`SameClocks`; by `DatesAwayFromChange` these are the dates on one side of a change). The invariant carries the plan's clocks within a day (`ClocksFit`); the argument is that what `cron.Next` leaves out of a date, past its first hour with a time, is later than what it keeps (`LeftOutIsLater`), and that wall clocks of one offset are in the order of their dates (`Multiples`).
- `UnchangedClocksMeet`: in UTC, in which a schedule without a zone is read, and wherever clocks do not change, the answer is the first time of the plan after the instant asked about (`FirstDue`), without the exception of `EachTimeMet`.
- `EveryTimeIsMet`: the whole of `EachTimeMet`, on the date of a change too. It needs zones as `Zones` has them (`ZoneFits`): both offsets on one side of Greenwich, a jump of an hour at most, a change after the first day. `Place` is not monotone there, but it is a threshold: wall clocks before the change take one offset, the others the other (`Placed`, `Turn`). East of Greenwich no time lies in the first pass of a repeated hour, and west none in the second, so dates follow the instants where one is asked about and a time comes after it (`DatesInOrder`), unless the change moved a time into another day. Of the hours of a date what `cron.Next` leaves out then follows the least it keeps, since the jump is not longer than an hour. The invariant `FirstRuns` adds what makes this start over at each tick: an instant asked about is the first one, a time, or one unit after a time, and nothing lies between it and the answer. That a tick is at most a unit late is a bound of the model; one late by any time, inside the first pass of a repeated hour that straddles midnight, could pass a time over.
- `EveryDecimalIsExact`: `DecimalsExact` for every base, for texts with any number of digits and any exponent, for any fractions and columns. The module folds over digits by recursive functions, and the induction over them is stated for sets: `Counting` is the principle of the least number, and `Recursion` says that a function with a given step exists, so that `Power` and `Number` have the equations they are written with. From these come the number of two texts joined (`NumberJoined`), its bound (`NumberBounded`), that zeros in front and behind change what they should (`Trimmed`, `LastDigit`, `DroppedZeros`); `plain` keeps the value and leaves what it wrote (`PlainIs`, `PlainStays`); `Fits` counts the digits that are left (`FitsIsHeld`); the digits of a quotient are those of a number (`DigitsWrite`), and `RoundedNear` and `NearestAway` say that the truncated quotient, moved by the remainder, is the nearest with a half away from zero.
- `LocksMerge`: a merge of two locks without a conflict (`MergeLocks`, `pkg/schema/migrate.go:427`) has each change of either branch, one both made once, nothing else, and is the same whichever branch is called ours, for any three locks. `MergeAgrees` is about what the two branches' migrations do to a database that has such a lock, and stays with TLC.
- `CacheKept`: the property is inductive with the map's finiteness: each key has an entry in the list, so eviction always makes room.
- `CallsKeep`: the requests sent are the attempts that are over, only the last may have given text, and only the call's provider was asked. How many rounds a conversation takes is not part of `CallsKept`.
- `UploadsSettle`: how far the reader was read and how much was put at each step; objects and completions are only of whole uploads the call is done with; an error tells of a failed abort.
- `DevKeepsUp`: what the loop remembers is not newer than what is; a save it saw was there for the build; the binary stays between starts; the tables are not newer than the app's without a request or the named exception.
- `SettingsFollow`: unless a version came back, a node that remembers the table's version has its values, and one that has read them will; its packs run with them, or it or its form is about to switch to them.

### Only model-checked

- Every liveness property (`JobsEnd`, `DuePasses`, `DeploySettles`, `Recovers`, `SlotsReturn`, `Acknowledged`): liveness under fairness and `ENABLED` are out of the prover's reach.
- `SchemasAgree`: it is about the schemas of finite families (`MCSchemas`), and what a list of statements does to a database is a fold over the list. It is a property of those families, with exceptions found in them, rather than of every schema; what holds of every lock is `LocksMerge`.

## 6. Where the code and its documentation part

One disagreement is a run of its own: `TeamsAccount` ends in a violation of
`LastOwnerStays`. The last owner who removes the own account leaves a workspace nobody can
manage (`packs/auth/accounts.go:190`; "the last owner of a workspace cannot leave, be
removed or be demoted", `teams.go:43`). `OwnerKept` is the same property but for that.

The following are formulas of the modules that no run lists; put one into the cfg of its
module's run, instead of the properties there, to see it refuted.

| Formula | Module | What the code does |
|---|---|---|
| `UniqueOnce` | `Jobs` | `Retry` puts a failed job back without the key its failure gave up, so a new Enqueue of that key runs beside it (`jobs.go:499`, comment at 337) |
| `StopReleases` | `Jobs` | a claim in flight while Stop copies the claims commits after the release and stays running until `JOBS_STALE` (`jobs.go:248`, comment at 178) |
| `OneRunPerDue` | `JobsSchedule` | a node that writes a changed schedule counts from the `now` of its tick and can make a due time due again that was fired meanwhile (`schedule.go:373`, comment at 195) |
| `NeverStuck` | `CircuitBreaker` | a trial whose function panics leaves the breaker refusing for ever (`breaker.go:100`) |
| `GoneAreForgotten` | `RealtimeHub` | a subscription that is being authorized when its connection ends puts the connection back into the topic map (`realtime.go:371`; rule 4 of `docs/scalability.md`) |
| `IdentityLeadsSomewhere` | `SignIn` | a callback beside the deletion of its account links an identity to nothing (`accounts.go:127`) |
| `ReconnectMeansGone` | `ConnectedAccount` | a renewal on another node makes the provider refuse the older token, and the grant is marked for reconnection although it works (`connect.go:43`) |
| `NoneClosedIdle` | `EnginePool` | a deadline that ends while an answer is being released closes an instance that goes back to the pool (`engine.go:177`) |
| `OrderBounded` | `MemoryCache` | keys deleted and stored again stay in the list each time (`cache.go:175`) |
| `OneCopy` | `MailOutbox` | a retry after an unrecorded acceptance, as the comment says, and a takeover during a slow send, which it does not say (`mail.go:385`) |
| `RowIsCurrentAlways` | `StripeBilling` | of two events of one second the later handled stays (`billing.go:392`) |
| `RecordTellsUnlocked` | `Migrations` | a lost lock and a rollback beside a migration (`migrate.go:137`) |
| `VersionTellsApart` | `SavedSettings` | a deletion and a save that leave count and newest time as they were (`credentials.go:88`) |
| `NothingRefusedKept` | `SavedSettings` | a form that stops at a field keeps the ones before it, in a combination no pack was asked about (`settings.go:640`) |
| `FirstDue` | `CalendarTimes` | where midnight is skipped west of Greenwich (Azores, Havana, Santiago), 00:30 is moved into the day before and hidden by a later time of that day |
| `SkippedMovesForward` | `CalendarTimes` | west of UTC a skipped time moves backward (`schedule.go:144`; `cron.go:27` has it at the instant of the jump) |
| `AfterRunsAgain` | `GeneratedMigration` | a check already dropped is validated again, an index that became a constraint's dropped again ("must be safe to run again", `packs/db/migrate.go:94`) |
| `MigrationsAgreeAlways` | `GeneratedMigration` | the exceptions of `MigrationsAgree`, below |
| `EverySaveIsBuilt` | `DevServer` | a save during a build is recorded by the scan after it and never built (`dev.go:74`) |
| `ErrorMeansNoObject` | `MultipartUpload` | the answer of a completion is lost |
| `NoPartLeft` | `MultipartUpload` | a part that was given up on may land after the one abort, and stays (`multipart.go:75`) |
| `RequestsFinishFirst` | `AppLifecycle` | OnShutdown runs beside the requests that outlast the shared ten seconds (`lidza.go:396`; comment at 104) |
| `SocketsCloseWithServer` | `AppLifecycle` | `http.Server.Shutdown` (`lidza.go:399`, 403, `tls.go:229`) neither waits for a hijacked connection nor closes it, and nothing is registered that does: the WebSockets of `realtime.go:346` stay, and may ask Authorize (331) while the packs stop and after, with the deadline still running ("OnShutdown runs after in-flight requests finished", `lidza.go:104`; "open sockets close with the server", `realtime.go:157`, 314, 397) |
| `FitsAsWritten` | `Decimals` | a literal `0e1`, not read through `Parse` |

Generated migrations, the exceptions of `MigrationsAgree`: a renamed model keeps the names
of its constraints and indexes, so a later up drops one that does not exist; the down of
a dropped table lacks its indexes; the down after creates an index on a column the down
adds later; `@@unique` to `@unique` drops the index after it became the constraint's; a
type is changed before its default, key or identity; an enum value is added and used in
one transaction; values are never removed; identity comes before NOT NULL; tables in a
cycle.

Merges, the exceptions of `MergeAgrees`: the same change on both branches is in the lock
once and in the migrations twice; one branch drops or renames what the other begins to
refer to, which merges without a conflict and is refused by Postgres. Of 9172 merges
without a conflict 1752 are in the scope of the property.

What the models also show, by their exceptions or without a formula:

- Jobs: the work of two jobs of a `Concurrency(1)` kind can overlap after a takeover although the rows do not (comment at `jobs.go:312`); a takeover does not look at `max_attempts` (`jobs.go:562`); a node of the old release puts its schedule back once per due time (`schedule.go:403`); a webhook is attempted nine times, after each of eight waits (`hooks.go:68` says eight attempts).
- Breaker and hub: any result while half-open decides the period (`breaker.go:106`, comment at 82); a panic of Authorize during the set-up leaves its slot counted (`realtime.go:354`).
- Outbound webhooks: a late failed attempt writes over `delivered`; Ping after Delete leaves a pending row; Create counts, then inserts, so `MaxEndpoints` can be exceeded.
- Teams: SetRole and accept insert a membership of an account just deleted, or of a workspace just deleted; two invitations to one address; `MaxPendingInvites` exceeded by parallel requests.
- Sign-in: a sign-in that verified the old password before a reset gets a session RevokeAll does not see; rows created after DeleteUser; two live links of two IssueTokens; a link consumed before the policy refuses the password.
- Second factor: a set-up that read the row before an enabling turns it off without a code; enable may enable a secret other than the one verified; a code checked against an earlier secret lets its Disable delete a factor enrolled since (`DELETE` by subject alone, `stepup.go:313`), and may use up a step of the new row (`UPDATE` by `last_step` alone, 180); recovery codes shown that do not work; a failure that is not recorded is not counted.
- Connections: a disconnection during a renewal is undone by its upsert; a token that could not be stored is lost; followers get the cancelled context or panic of their leader.
- Settings: the reconfigurations of some packs are not serialized; a failed one of the poll is not tried again; two forms that put back.
- Billing: an event whose owner cannot be looked up is dropped as handled.

By reading, in parts no module has:

- `name := t.Table+"_"+col+"_fkey"` uses the quoted column (`pkg/schema/migrate.go:144`); `@unique` beside `@@unique` of the field gives one name twice; `Generate` reports the first script's name alone, and writes the files before the lock.
- The owner's token file stays after a claim that races a start or a rotation ("exists only while unclaimed", `packs/auth/owner.go:36`), and an empty one blocks every later start.
- `cache.go:165`: a value computed before an invalidation is stored after it. `breaker.go:112`: a cancelled trial is no failure and closes the breaker. `jobs.go:544`: the handlers' map is read without a lock. `webhook.go:331`: a failed read leaves the endpoint without its secret until the next. `migrate.go`: with a pool of one connection `withLock` waits for itself.
- `cmd/lidza`: the stamp of a check names the tree at its end, not the one it read (`stamp.go:117`); the hook compares the index and verify tests the working tree; `update --commit` commits everything staged.

## 7. Plan

Done: the parts of section 1. Left, in this order:

1. Proofs: what `Diff` writes for one change of a schema (a column, an index, a constraint), for every schema around it; every other safety property the runs check is proved.
2. Models: the rate limiter's eviction, `Remember` of the cache beside an invalidation, the owner's claim, step-up grants and magic links.
3. Models of the tools: `lidza update`, the stamps and hooks of a commit, `pkg/crud` as it is generated and served.
4. Merges with a conflict.
