# Verification of the GitHub Release Notifier

The service mails the subscribers of a GitHub repository when a stable release
appears. This directory holds TLA+ models of its parts, the TLC runs that check
them on small instances, and TLAPS proofs of their main safety properties for
instances of any size. Source paths are relative to the repository;
`scanner.go:147` means `internal/scanner/scanner.go` line 147.

## 1. Inventory

| Component | State | Operations | Talks to | Module |
|---|---|---|---|---|
| Release scanner, `internal/scanner` | lock connection, snapshot of the confirmed subscriptions, channel `jobs`, one release and loop position per worker | `Run`, `scan`, `checkRepo` | repository, GitHub client, mailer | `Scanner` |
| Subscription service, `internal/service` | buffered channel `mailQ`, four workers | `Subscribe`, `Confirm`, `Unsubscribe`, `GetSubscriptions` | repository, GitHub client, mailer, gauge | `Subscriptions` |
| Repository, `internal/repository` | tables `subscriptions`, `notification_log`, one session-level advisory lock | one statement per method, 5 s each | PostgreSQL | in its callers |
| Database opening and migrations, `internal/db` | none | `Open`, `Migrate`, `retry`, `execSQL` | PostgreSQL | `Startup` |
| GitHub client, `internal/github` | two cache keys per repository | `RepoExists`, `LatestRelease` | GitHub, Redis | `GitHubClient` |
| Redis cache, `internal/cache` | keys with a TTL | `Get`, `Set`, `Delete` (no caller) | Redis | `GitHubClient` |
| Mailer, `internal/mailer` | none | one SMTP dialogue per mail, no deadline | relay | `Mailer` |
| Configuration, `internal/config` | none | `Load` | environment | `Startup`, `Mailer` |
| Server process, `cmd/server` | `ctx`, HTTP server | start, SIGTERM, shutdown | all of the above | `Startup`, `Scanner`, `Subscriptions` |
| HTTP API, `internal/api` | none | routes, API key, mapping of errors to statuses | service | partly, in `Subscriptions` |
| Metrics, `internal/metrics` | counters, one gauge | `Inc`, `Dec`, `Observe` | Prometheus | the gauge, in `Subscriptions` |
| Models, token hash, static pages | none at run time | | | |

`scanner.go`, `handler.go` and `subscription.go` in the root directory carry
`//go:build ignore` and belong to no build.

**Hard behaviours.** Several server instances share the tables and are kept
apart only by an advisory lock that belongs to a *connection*, while every other
statement of a scan uses other connections of the pool. Sending a mail,
recording it and updating `last_seen_tag` are three steps with no transaction.
A scan works on rows it read at its start while users confirm, unsubscribe and
subscribe again. Dispatcher and workers meet on an unbuffered channel, with a
context that may be cancelled at any point. Confirmation mails wait in a bounded
in-memory queue that dies with the process. `Confirm` and `Unsubscribe` read a
row, act on it by id and then count, concurrently. Cache lookups write back what
may be out of date by then. Instances that start together apply the same
migrations, which are not one transaction and keep no version. The hazards, each
at its line, are in `PROJECT.json`.

**What makes each component correct.**

* Scanner: one scan at a time; mail only to confirmed addresses, about stable
  releases; no mail repeated that is on record; nothing on record that was not
  mailed; a release that stays the latest is delivered in the end; a cancelled
  scanner stops.
* Subscription service: a confirmation of a stored subscription is attempted
  once, also when the queue is full; a success that is answered happened in the
  table; the gauge counts no row out twice.
* Both over one table: each does to the table what the other expects.
* GitHub client: an answer of the cache is no older than the TTL and one call,
  and a passing failure is not kept as a fact for longer.
* Mailer: success means that the relay has the whole message; a failure leaves
  no half of one; what is to be encrypted is; no connection leaks.
* Start-up: nobody serves on half a schema, and what a failed start leaves
  behind keeps no later one from finishing.

## 2. Modules

| Module | What it is |
|---|---|
| `Scanner` | every instance's scanner, the tables, the lock, GitHub, Redis and the mail; safety and liveness |
| `Ledger` | abstract specification of the scanner: mail, record, note, per subscription, with no processes |
| `Subscriptions` | the subscription service of one process, the table, queue, workers, gauge |
| `Outbox` | abstract specification of confirmation mail: owed, then attempted once |
| `Notifier` | the `Scanner` of every instance and the `Subscriptions` of one, which serves every call, over one table, under every fault of either |
| `GitHubClient` | overlapping calls of the client over Redis and GitHub, with time |
| `Startup` | settings, database, migrations, Redis, signals and restarts of several instances |
| `Mailer` | one SMTP dialogue, for every setting and every relay |
| `MCScanner`, `MCSubscriptions`, `MCNotifier`, `MCStartup` | instances for TLC |
| `ScannerProofs`, `ScannerLedger` | theorems about `Scanner`: its invariants; the refinement of `Ledger` and what holds without faults |
| `SubscriptionsProofs`, `SubscriptionsOutbox` | theorems about `Subscriptions`: its invariants; the refinement of `Outbox` |
| `NotifierProofs` | theorems about scanners and service together |
| `GitHubClientProofs`, `StartupProofs`, `MailerProofs` | theorems about the client, the start-up and the SMTP dialogue |

```
   Ledger                     Outbox
     ^ implements               ^ implements
   Scanner                  Subscriptions         GitHubClient   Mailer   Startup
     ^ EXTENDS                  ^ INSTANCE, over Scanner's table
     +--------- Notifier -------+
```

An operator under a comment that begins with "Mutant" belongs to no
specification: it is a bug the code might have had, and was checked to be found
by the property it is listed with in `PROJECT.json`.

### Scanner

One action is one call that leaves the process or one step of a goroutine.

| Code | Model |
|---|---|
| table `subscriptions`: `confirmed`, `last_seen_tag` | `row`, `lastSeen` |
| table `notification_log` | `log`, a set of pairs (its unique key) |
| `pg_try_advisory_lock` session | `lockHolder`; `Orphan` is a session that no process uses any more and that PostgreSQL has yet to end |
| where `Run` and `scan` are; `ctx`; the lock's `conn` | `phase`, `cancelled`, `conn` |
| `repoSubs` not yet dispatched; `lastTag` of the snapshot | `queue`, `seen` |
| a worker's position, rest of its `subs`, `release.TagName` | `wpc`, `todo`, `tag` |
| GitHub's latest release, the cached one, delivered mail | `latest`, `cache`, `mailed` |

`Start`, `Tick` and `Stop` are `Run`; `Acquire*`, `Fetch*`, `Dispatch`,
`CloseJobs`, `JoinWorkers` and `Release` are `scan`, in that order. In
`checkRepo`, `ReleaseFromCache`, `ReleaseFromGitHub` and `ReleaseUnavailable`
are the lookup, `Skip` and `NotNotified` the tests before a mail, `MailSent` and
`MailFails` the mail, `MarkNotified`, `MarkFails`, `UpdateLastSeenTag` and
`UpdateFails` the two records, `Abandon` the tests of `ctx`, `WorkerExit` the
end of the worker. `NextSub` is the loop: a `continue` of the code is a step to
the subscription with the next id.

Choices worth knowing:

* A statement under `ctx` fails when the database does and when `ctx` is done;
  an INSERT that fails may have taken effect.
* The session of the lock ends (`EndSession`) when nobody uses it any more
  (`ReapSession`) or when its connection breaks under a scan that does not look at
  it (`LoseSession`).
* A mail that fails may have been delivered (`Mailer`, `CloseFails` and `Quit`).
* Both selects may choose `ctx.Done` or the other case when both are ready. The
  dispatcher still hands out a job, and `Run` still starts a scan, with `ctx`
  done.
* Unsubscribing deletes the row and, by `ON DELETE CASCADE`, its log. A worker
  that goes on with such a subscription finds no log, mails it, and fails to
  record it (foreign key).
* An empty tag in `lastSeen` and `seen` is `NoTag`; so is "no release" and
  "nothing cached". Draft and prerelease are properties of a tag
  (`StableTags`).
* A lookup of a release is one step, and what is cached stays until it expires;
  the races inside a lookup are the subject of `GitHubClient`.
* A subscription is created pending and is not created again after its deletion
  (a new subscription has a new id).

`Ledger` says what this machinery promises for each subscription: mail goes only
to who confirmed and never about a tag on record, a record follows its mail,
`last_seen_tag` follows a record, and deletion ends both records.

### Subscriptions

| Code | Model |
|---|---|
| table `subscriptions` | `row` of the call that stored it; `PairTaken` is its unique key |
| a `Subscribe` call, its answer | `spc`, `answer` |
| `mailQ`, the job of a worker | `mailQ`, `job` |
| delivered, sent with any outcome | `inbox`, `attempted` |
| a `Confirm` or `Unsubscribe` call and the row it read | `hpc`, `hsub` |
| `notifier_active_subscriptions` | `gauge` |
| the window of `server.Shutdown` | `stopping` |

A token names its subscription: the confirmation token is known once the mail
is in `inbox`, the unsubscribe token once a release mail was sent
(`knowsUnsub`). A lookup that fails or finds nothing is answered 404 and changes
nothing, so it is no action. `CreateFails` may leave a pending row behind, with
a token nobody is ever sent. `Exit` ends the process wherever its calls are (the
shutdown timeout may have passed) and starts the next one with an empty queue
and a gauge of zero; it follows a `Shutdown`, or comes out of the blue when the
process is killed (`"kill"`). `Work` is what the goroutines of the service do,
without its environment, for `Notifier` to use.

`Subscriptions` implements `Outbox` under a mapping that takes as *owed* the
calls about to enqueue or to send inline, the queue and the workers' jobs, and
as *forgotten* the stored subscriptions that were answered OK or cut off and are
neither owed nor attempted. That nothing but `Exit` makes a mail forgotten is
what the refinement says about the queue and its inline fallback.

### Notifier

`Notifier` EXTENDS `Scanner` and instantiates `Subscriptions`, as the service of
the instance `Server`, with the rows that exist already (`ServiceRow`) and the
release mails that went out (`Unsubscribers`). A `ScannerStep` is a step of any
scanner, of PostgreSQL's sessions, of GitHub or of Redis, and leaves the service
alone. A `ServiceStep` is `Work` of `Subscriptions` together with what its
statement does to `Scanner`'s tables (`TableStep`: insert, confirm, delete with
cascade). Scanner and service of `Server` are one process (`main.go:84` to
`:88`): `StopServer` is `server.Shutdown`, which follows the `cancel` the scanner
watches, and `EndServer` ends both at once, after a shutdown or by a crash. The
processes of the other instances come and go as in `Scanner`; of their services
none is modelled, that is, every call is served by `Server`. The table's side of
that matters little (calls of several processes meet in the table as calls of
one do), but each process has a gauge of its own (`main.go:57`), so what is said
of the gauge is said of one process that serves every call.

Two properties say that nothing was assumed too much when the two halves were
checked apart: the two composed implement `Scanner`, whose users were free actions,
and implement `Subscriptions`, whose release mails were one. Both hold under every
fault of either half. `OptedIn` is about both: a release mail goes to nobody who
did not get the confirmation mail.

### GitHubClient

Two cache keys of one repository (`cache`), GitHub's truth for the token that
asks (`there`, `latest`) and, per call, where it is (`pc`), its `key`, GitHub's
`reply` and its `result`. `Hit`, `Miss`, `Answered`, `Refused`, `NoAnswer` and
`Set` are the steps that `RepoExists` and `LatestRelease` share; others may come
in between. Statuses are the classes the client tells apart: 2xx, 403, 404, 429
and `"other"`, which is every other one, from the 401 of a revoked token over
451 to a 5xx: `RepoExists` takes them all for a missing repository,
`LatestRelease` for an error. `Tick` ages every entry and every answer on its
way; an answer may be on its way for `CallTime` ticks, since the HTTP client and
go-redis have timeouts. Ages are history: nothing in the code reads them.

### Startup

`phase`, `tries` and `pos` of an instance are where `run`, `retry` and
`Migrate` are; `schema` is what exists in the database. A migration file is a
sequence of parts, split at semicolons as `execSQL` does; a part that begins
with a comment is skipped whole. `CREATE ... IF NOT EXISTS` is two steps
(`BeginCreate`, `Create`): PostgreSQL checks and then inserts into the catalog,
and a session that loses the race gets a duplicate error (`StatementFails`),
which ends its process. `Die` is a crash, a port in use, or a signal before
`signal.Notify`; the statement under way may have been committed.

Settings are represented by one for each way `Load` treats them; "zero" is a
duration that is not positive, which `Load` accepts and `time.NewTicker` does
not.

### Mailer

`step` is the statement of `send` that comes next, `conn` and `secure` the
connection, `deferred` whether `client.Close` will run when `send` returns,
`taken` what the relay has accepted, `inClear` what went over the wire without
TLS. `UseTLS`, `UseAuth` come from the settings (`loadSMTPConfig`,
`parseSMTPURL`); the relay offers any combination of STARTTLS and AUTH, refuses
any command and breaks the connection anywhere, before or after it took what was
sent. A `Return` runs what was deferred before it and closes nothing else; only
`GreetFails`, before anything is deferred, closes the connection itself.
`AuthAllowed` is the rule of Go's `PlainAuth`. A run of `send` is a straight
line that ends if the relay answers; that it may not is the subject of
`ScannerHungRelay`, so there is no liveness property here and no fairness.

## 3. Runs

| Run | Instance | Shows |
|---|---|---|
| `ScannerTwoInstances` | 2 instances with 2 workers each, 3 subscriptions, of which 2 of one repository and 1 of another, 1 tag; database, GitHub, Redis, SMTP, kill | `TypeOK`, `LockExclusion`, `NoSendOfRecorded`, `RecordedWasMailed`, `NoWorkerOutlivesScan`, `LastSeenWasRecorded`; implements `Ledger` |
| `ScannerRetry` | 2 instances with 1 worker each, 1 subscription, a stable tag and a prerelease; database, GitHub, SMTP, SIGTERM, kill | `MailedConfirmedStable`; liveness: `Delivery`, `ChecksRecur`, `ShutdownStops` |
| `ScannerStaleTag` (violation) | 1 of each; database | `LastSeenCatchesUp` fails: after one failed `UpdateLastSeenTag` the log makes every later scan skip the subscription before it gets there |
| `ScannerHungRelay` (violation) | 1 of each; the relay may be silent | `ChecksRecur` fails without `SmtpAnswers`: one silent relay ends all scans |
| `SubscriptionsFaults` | 3 calls, 2 of them for one pair, 2 handlers, 2 workers, a queue of 1; database, SMTP, SIGTERM, kill | `TypeOK`, `SuccessIsReal`; implements `Outbox` |
| `SubscriptionsDropped` (violation) | 1 of each; SIGTERM | `NothingDropped` fails: a graceful stop discards the queue |
| `NotifierResubscribe` | 2 instances with 1 worker each, 2 subscriptions of one pair, 2 tags, 2 handlers, 1 mail worker; no faults | `NoDuplicateMail`, `GaugeNotBelowConfirmed`, `OneMailPerAddress`; `LastSeenFollowsLog`: `last_seen_tag` is moved by each new record to its tag, and by nothing else, also when the latest release goes back; implements `Scanner` |
| `NotifierFaults` | 2 instances with 1 worker each, 1 subscription, 1 tag, 1 handler, 1 mail worker, a queue of 1; database, SMTP, lock sessions, SIGTERM, kill | `OptedIn`; `LockExclusion` and `RecordedWasMailed` while two scans overlap; implements `Scanner` and `Subscriptions` |
| `GitHubCache` | 2 overlapping calls, 2 tags, a TTL of 2, a call of 1; every fault | `TypeOK`, `StaleBound`; liveness: `CacheCatchesUp` |
| `GitHubMissing` (violation) | 2 calls; statuses other than 2xx, 403, 404, 429 | `NotFoundIsMissing` fails: a 5xx, or the 401 of a revoked token, is reported and cached as a missing repository |
| `StartupRestarts` | 2 instances, 3 pings, 8 environments; stores that come and go, crashes | `TypeOK`, `ServingReady`; liveness: `ComesUp` |
| `MailerDialogue` | every setting, every relay, both faults | `TypeOK`, `SuccessIsTaken`, `NothingInClear`, `ConnClosed` |

The violation runs each refute something the repository says; the sentence is
quoted in the comment of the property and in `PROJECT.json`.

**What the safety properties rest on.** `NoSendOfRecorded` needs the lock *and*
the split of the work by repository: the log is read before the mail and
written after it, and nothing but the absence of another worker on the same
subscription keeps the answer true in between. It is stated for unbroken lock
sessions, and so is `ImplementsLedger`; with a broken one TLC finds a duplicate,
as the code has no fencing. `NoDuplicateMail` is limited to subscriptions that
are still confirmed, because unsubscribing empties the log a running scan relies
on. `LockExclusion` holds under every fault in the form "a scan with a live
connection holds the lock".

**Bounds.** Two instances are enough for every race over the lock, since the
lock has one holder and losers do nothing; two workers for every race between
workers; two subscriptions in one repository exercise the loop of `checkRepo`
and its `continue`s, and a third one of another repository the dispatcher, which
then has two jobs for two workers (all of that in `ScannerTwoInstances`, where a
process may die but is not stopped; stops are in `ScannerRetry` and
`NotifierFaults`). What
lets two scans overlap, a broken lock session, is in `NotifierFaults`: one
subscription is enough for the two of them to meet on it, and the session may
break anywhere in a scan, calls of the service and the end of either process in
between. Two tags (`NotifierResubscribe`, `ScannerRetry`) let the
latest release change and change back. A queue of one is full with one job
waiting. Two subscriptions of one pair are what it takes to subscribe again
while a scan still holds the first one. `MaxGauge` bounds the confirmations that
are begun (confirming twice is legal and would otherwise count for ever), and
the set of `Subscribe` calls is finite: `Subscriptions`, and `Notifier` with it,
really stop, as does `Mailer` when `send` has returned, so these runs do not
check for deadlock; the others do. A TTL of two ticks and a call of one let an
answer arrive before, at and after the expiry of the entry it replaces. Three
pings, in place of ten, have a first, a middle and a last. In `GitHubClient` the
age of an entry that never expires is not counted on. Nothing else is cut off:
tables, log, mail and schema are finite by themselves. Instances, workers,
handlers are interchangeable, so the large runs that check only safety reduce by
symmetry; those with liveness properties do not, nor does `NotifierFaults`, where
`Server` is an instance unlike the other. (`NotifierResubscribe` has no faults,
so no process ends there and nothing tells `Server` from the other instance.)

**Fairness.** `CodeFairness` is what the code's own scheduling gives: goroutines
that can run do run; database, GitHub and Redis calls end because each has a
timeout; the ticker fires; `Run`'s select takes `ctx.Done` in the end (strong
fairness of `Stop`: Go chooses at random among ready cases); PostgreSQL ends
dead sessions. It is all that `ScannerHungRelay` assumes. `SmtpAnswers` is what
the mailer does *not* secure (no deadline, `mailer.go:64`). `FaultsPass` says
that stops and crashes cease, that a process whose scanner returned makes place
for the next (`Ended`), and that a call tried again and again succeeds in the
end; without it nothing can be delivered. `Subscriptions` has weak fairness of
calls, workers and mails, and its process is never forced to stop; `Outbox` has
weak fairness of every attempt. `GitHubClient` assumes that calls and time go on
and, for `CacheCatchesUp`, that the repository and the statuses of GitHub
settle: an outage passes, a token that was revoked is replaced. `Startup`
assumes that the operator restarts what ended (nothing in the repository does:
`docker-compose.yml` has no restart policy), that both stores stay up in the
end, and that from some point on a process ends only where a step of its own
could have ended it: a start that fails is not excluded, and `ComesUp` says that
such starts come to an end by themselves. `Mailer` has no fairness and no
liveness.

**Known behaviours without a run.** A scan that read a subscription before it
was deleted still mails it, after the user was told "You will no longer receive
release notifications for this subscription." (`static/subscription.html:112`);
`NoDuplicateMail` and `Ledger` allow for it. A confirmation link that is
followed twice counts the gauge up twice (`service/subscription.go:116`), and a
restart sets it to zero, so `notifier_active_subscriptions` is not the number of
active subscriptions; `GaugeNotBelowConfirmed` states the side that does hold
while one process serves every call. A cache TTL of zero means no expiry to
go-redis. A scanner interval that is not positive ends the process right after
every start.

## 4. Proofs

TLAPS proves, for every number of instances, workers, subscriptions, tags,
calls, callers and places in the queue and for every set of faults (except where
said):

| Theorem | Says |
|---|---|
| `ScannerProofs!TypeCorrect` | `TypeOK`, and a worker past the lookup has a stable release |
| `ScannerProofs!LockSafe` | `LockExclusion` |
| `ScannerProofs!WorkersJoined` | `NoWorkerOutlivesScan` |
| `ScannerProofs!NothingLost` | `RecordedWasMailed` |
| `ScannerProofs!LastSeenRecorded` | `LastSeenWasRecorded` |
| `ScannerProofs!SerialSends` | `NoSendOfRecorded`, if lock sessions do not break |
| `ScannerProofs!OnlyConfirmedMailed` | `MailedConfirmedStable` |
| `ScannerLedger!LedgerImplemented` | `ImplementsLedger`, if lock sessions do not break |
| `ScannerLedger!ExactlyOnce` | `NoDuplicateMail`, without faults |
| `ScannerLedger!RecordsAgree` | `LastSeenFollowsLog`, without faults: which tag `last_seen_tag` has, or is about to get from the one worker on the subscription |
| `SubscriptionsProofs!TypeCorrect` | `TypeOK`, with the bound on the queue, and a call past its lookup has a subscription |
| `SubscriptionsProofs!SuccessHappened` | `SuccessIsReal` |
| `SubscriptionsProofs!GaugeSafe` | `GaugeNotBelowConfirmed`, if neither the database fails nor the process stops or dies; finitely many calls |
| `SubscriptionsOutbox!OutboxImplemented` | the safety part of `ImplementsOutbox` |
| `NotifierProofs!ScannersComposed` | `ScannerImplemented`: the theorems about `Scanner` hold beside the service |
| `NotifierProofs!ServiceComposed` | `ServiceImplemented`: so do those about `Subscriptions`, beside the scanners |
| `NotifierProofs!MailedOptedIn` | `OptedIn` |
| `NotifierProofs!MailedOncePerAddress` | `OneMailPerAddress` |
| `NotifierProofs!SystemLedger` | `ImplementsLedger` of the scanners beside the service, if lock sessions do not break |
| `NotifierProofs!SystemOutbox` | the safety part of `ImplementsOutbox`, of the service beside the scanners |
| `NotifierProofs!SystemExactlyOnce` | `NoDuplicateMail` of the scanners beside the service, without faults |
| `NotifierProofs!ServerGauge` | `GaugeNotBelowConfirmed` of the process that serves every call, beside the scanners, if no statement fails and no process ends; finitely many calls |
| `GitHubClientProofs!TypeCorrect` | `TypeOK`, and an answer on its way is one of GitHub's |
| `GitHubClientProofs!BoundedStaleness` | `StaleBound`, if the TTL is positive |
| `GitHubClientProofs!MissingIsMissing` | `NotFoundIsMissing`, if GitHub answers with no status but 2xx, 403, 404 and 429 and the repository neither appears nor disappears |
| `StartupProofs!TypeCorrect` | `TypeOK`: in particular the migrations create nothing but what the queries need |
| `StartupProofs!SchemaReady` | `ServingReady` |
| `MailerProofs!TypeCorrect` | `TypeOK`: in particular the relay takes at most one message |
| `MailerProofs!SuccessTaken` | `SuccessIsTaken` |
| `MailerProofs!SaidUnderTLS` | `NothingInClear` |
| `MailerProofs!ConnectionClosed` | `ConnClosed` |

The theorems state every safety property that a passing run checks.

The assumptions are those named in the modules: subscription ids are numbers,
stable tags are tags, the empty tag is none, the two values for "nobody" and
"orphan" are no instance, a queue has a place, no result of a call is the value
for "none" (`GitHubClient`), and in `Notifier` the server is one of the instances
and subscriptions of one pair are of one repository.

*Inductive invariants.* `RecordedWasMailed` is not inductive: it needs that a
worker in `"mark"` has mailed its current subscription, and
`LastSeenWasRecorded` that one in `"update"` has recorded it or its row is gone.
`SerialSends` carries the most: `SendInv` says that jobs of one instance are
disjoint from each other and from what is not dispatched, that only one instance
is scanning (from `LockSafe`, no connection being dead), and that workers run
only in a scan; then a step that records a pair concerns the one worker that
visits that subscription. `OnlyConfirmedMailed` needs that no subscription in a
queue or a job is pending, and that none becomes pending again. Together they
give every worker step its step of `Ledger`. `ExactlyOnce` adds that a mail that
went out is on record, or in the hands of the worker that will record it
(`OnRecord`); with one scan and disjoint jobs that is the only worker on the
subscription. `RecordsAgree` rests on the same: no second worker can be between
the two records of one subscription (`OneAtWork`), so the worker that wrote the
last record writes its tag before another record can be made, and the tag it has
in hand is the one it recorded; a record is always new, because without faults
whoever is about to record a tag found it missing and nobody else could record
it since (`MarkFresh`).

`SuccessHappened` needs that a call which has not inserted its row has none
(`FreshRow`) and that the row a handler has in hand was stored once (`InHand`),
so that no later `Create` sets it back to pending. `GaugeSafe` adds that a row
about to be deleted was confirmed (`UnsubConfirmed`): only then does a deletion
that counts down take a row out of the count. `OutboxImplemented` needs that no
mail is owed twice: the queue holds no job twice, and none that a worker has,
and calls, queue and workers share none.

`NotifierProofs` combines the two: `SystemInv` is the scanners' invariant
together with what the service keeps of the rows. One that is no longer pending
had a confirmation mail and a deleted one a release mail; two stored ones never
have one pair; a call's row in hand exists, and if it is to be confirmed or
deleted it was mailed about. From it a statement of the service is `Confirm` or
`Unsubscribe` of `Scanner` or changes nothing, also when it fails after it took
effect (`DeletedForgotten`: a row that is deleted already has no log left to
delete), and a mail of a scanner is `ReleaseMail` of `Subscriptions` or changes
nothing. The end of a process takes the calls in hand away and leaves the rows,
so the invariant survives it, and the theorems about the halves hold of the
two composed. `MailedOptedIn` puts the halves together: a scanner mails no pending
subscription (`ConfirmedInv`), and one that is not pending had its mail.

`BoundedStaleness` needs only that an entry ages as its TTL shrinks and that an
answer on its way is at most `CallTime` old. `SchemaReady` needs that everything
before the part an instance is at exists already, whoever made it.

`MissingIsMissing` says what the finding of `GitHubMissing` is *not* about:
`TruthInv` keeps what is cached and what is on its way about a repository true,
through timeouts, rate limits and a Redis that loses what it is told, as long as
the statuses are; a status other than 2xx, 403, 404 and 429 is then the only way
to the false answer.
`SuccessTaken` needs to know for every place in `send` what the relay has taken
(`Progress`), since an error path may close the writer; `SaidUnderTLS` that past
STARTTLS the connection is encrypted where that was asked for (`Secured`);
`ConnectionClosed` that from the greeting on the `Close` of an open connection is
deferred (`CloseDeferred`), and before it that no exit relies on the return.

*Only model-checked.* Liveness (`Delivery`, `ChecksRecur`, `ShutdownStops`,
`CacheCatchesUp`, `ComesUp`, the fair part of `ImplementsOutbox`) is
out of the prover's reach, as is `ENABLED`. There are no recursive definitions.

## 5. Not modelled

* HTTP API: routing, the API key, content negotiation and the mapping of errors
  to statuses keep no state; what a call is answered is in `Subscriptions` as
  far as properties tell answers apart. That a database failure is answered as
  an unknown token (`service/subscription.go:113`) is on the list of hazards.
* `GetSubscriptions` and `GetByEmail` (reads), the counters (written only),
  tokens and their hash (a token names its subscription), the text of mails and
  pages.
* A statement that timed out and commits later: it took effect at once or not at
  all.
* A release that is withdrawn with no other one left: the latest release of
  `Scanner` changes to an older or a newer one, never to none (`GitHubClient` has
  that case).
* The services of other instances beside that of `Server`, with their gauges.
* The connection pool: a statement that waits too long for a connection is a
  database fault.
* The shell of `Load`: defaults and the values of settings.
* PostgreSQL, Redis, GitHub and the relay beyond what the code uses of them.
* The copies in the root directory, which are never built.

## 6. Plan

Done, in this order: `Scanner` and its proofs; `Subscriptions`, `Outbox` and
their proofs; `Ledger`, `GitHubClient`, `Mailer`, `Notifier`, `Startup`, and the
proofs about them. What could follow:

1. `GitHubClient` under `Scanner` in place of the one-step lookup, with the
   staleness bound as the interface.
2. The services of all instances in `Notifier`, in place of one.
3. The connection pool, with the lock's connection and the ten of `db.Open`.
