# GTrade-Go: specifications, model checking and proofs

TLA+ models of the parts of GTrade-Go whose correctness depends on the order of
concurrent steps, on failures between steps and on time, with the TLC
configurations that check them on small instances and TLAPS proofs of what
holds for instances of any size. `PROJECT.json` lists the runs, the source
lines behind every definition, a seeded bug for every property, the hazards of
the code and the theorems.

    tlc -workers 2 -config AuthSessions.cfg MCAuthService.tla
    tlapm AuthServiceProofs.tla

## 1. The system

Six Go services, one PostgreSQL database for each stateful one, plain HTTP
between them, one replica of each in `deploy/docker-compose.yml`.

| Component | State | Operations | Talks to |
|---|---|---|---|
| api-gateway | none | proxy with a 15 s timeout, JWT guard per group of routes | every service |
| auth-service | `users`, `refresh_tokens`, `password_reset_tokens`, `email_verification_tokens` | register, login, refresh, password reset, e-mail verification, role, block, contacts | notification-service |
| user-asset-service | `user_profiles`, `watchlist_items`, `user_preferences`, `watchlist_notification_state`, `user_notification_dispatch_state`, `schedule_state` | profile, watchlist and preference edits; price alert cycles; manual runs, forced snapshots and messages of admins | catalog, integration, auth, notification |
| catalog-service | `items`, `item_translations`, `prices`, `schedule_state`; admin jobs in memory | item CRUD, search, price history; price collector; imports as admin jobs | api-integration-service, external catalogs |
| api-integration-service | none | search, item, price from three market APIs; sync into the catalog | market APIs, catalog-service |
| notification-service | `notification_outbox` | send an e-mail, recording it before and after | mail provider |
| shared/catalogimport | none | stream a catalog and upsert its items | external catalogs |

No statement of the code shares a transaction with a call to another service,
and outside the item writes of the catalog no two statements share a
transaction at all. What has to hold across statements therefore holds by
their order, or not at all. The behaviours that are hard:

* two requests of one user, or of a user and an admin, interleave between a
  read and the write that relies on it (refresh against refresh, block against
  login, reset against reset);
* a request ends between two of its statements: a statement fails, the client
  goes away (its context is cancelled), the process dies;
* background jobs of several replicas and of admins exclude each other by a
  session-level advisory lock, which goes with its connection and not with the
  job, while the status an admin sees is an ordinary row;
* price alerts read prices from one service, states from their database, mail
  through a third service and store what they told, with users editing the
  rows meanwhile;
* lists are paged by OFFSET over rows that change between pages.

What each component must get right:

* **auth-service**: a refresh token that was exchanged is dead; blocking a user
  ends every session in bounded time; a demotion takes effect in bounded time;
  a one-time token is not lost before it had its effect, and once that was
  answered it has it again in requests under way only.
* **job lock**: one run at a time, unless the database lost the session of the
  lock; the lock is never stuck; the row tells when a run is at work; every
  admin job comes to an end.
* **price alerts**: no change is dropped without a cause that the code accepts;
  no mail is repeated without a cause; a digest a day; states move forward.
* **price collector**: every active item gets its price once in a run.
* **outbox**: a row says what became of its mail, and no caller is told of a mail
  that was not handed over. **admin mail**: a report is true, a broadcast leaves the
  service in doubt of one mail at most, and nobody is mailed who declined.
* **catalog**: an answer is no older than its write, translations survive calls
  that bring none, and the connection pool does not lock up. **sync and import**:
  what was reported is what was stored, and an import is complete and ends.

## 2. Plan

In the order of what matters most. What is built:

1. `AuthService`, `AuthServiceProofs`: accounts, sessions, one-time tokens.
2. `JobLease` (abstract), `SchedulerLock` implementing it, `SchedulerLockProofs`.
3. `PriceAlerts`: cycles and manual diff runs; `PriceAlertsProofs` (what is stored
   was told) and `PriceAlertCyclesProofs` (what is mailed twice, and in which order).
4. `PriceHistoryCollector`, `PriceHistoryCollectorProofs`: paging over rows that
   change.
5. `MailCall` (abstract), `NotificationOutbox` implementing it,
   `NotificationOutboxProofs`; `UserAssets`, the settings of users; and `AdminMail`,
   which composes the two with what admins send, and `AdminMailProofs`.
6. `ItemStore` (abstract); `CatalogItems`, the calls on items over the connection
   pool; `CatalogImport`, the import job on top of it; and `CatalogIngest`, which
   composes both with the requests of users and admins and the sync of
   api-integration-service and implements `ItemStore`; `CatalogIngestProofs`.

What is left:

7. The map is thinnest where the parts meet data: the market adapters of
   api-integration-service and the queries of the catalog that only read.
8. The mail steps of `AuthService` and `PriceAlerts` over `MailCall` instead of
   their own two outcomes, which are the same ones.

## 3. What is modelled

### AuthService

A request is a process of `Proc` and runs the statements of one method of
`internal/service/auth.go`. An action is one repository statement with the
checks before it: `RefreshCheck` (parse, read the row, test it),
`RefreshRevoke`, `IssueStamp` (`time.Now()`), `IssueRead` (the user read and the
block check), `IssueSave` (the INSERT and the answer). `Login` and `Register`
join at `IssueStamp`. `RequestPasswordReset`, `SaveOneTime`, `SendEmail` and
`ConfirmPasswordReset`, `SetPassword`, `UseToken` are the recovery paths,
`SetUserBlocked`, `RevokeAll` the block of an admin. `Abort` cuts a request off
between any two statements.

Rows keep the columns that decide something. `users` is keyed by address
(unique, never deleted). `parent` of a refresh row, `roleAt`, `barredAt`, `swept`,
`applied`, `redeemed` and `late` are history. Of `blocked_at` the model keeps whether
it is NULL: its value is read from the clock before the statement has a connection
(`auth_repository.go:266`), so a login issued meanwhile may be later than it and
a second block may move it back. No code compares it with anything, and the
properties count from the UPDATE itself (`barredAt`). `redeemed` are the one-time
tokens of a request that was answered, `late` how often each set a password or
verified an address again after that. Passwords are model values compared for equality, as
bcrypt does. The expiry of a JWT is strict, that of a row is not
(`time.Now().After`), and both are kept. A request refused before its first
write is a stuttering step. Reads for other services and lists are left out.

### JobLease, SchedulerLock

`SchedulerLock` is the frame shared by the alert ticker, the collector ticker
and the admin jobs: `TakeLock`, `LockBusy` or `LockError`, `MarkSchedulerStarted`,
`Work`, `MarkSchedulerFinished`, `Release`. The two services have the same code
in `schedule_state.go`; one module stands for both. The lock belongs to a
session of its own while the status row is written on other connections of the
pool, so both writes may fail on their own and be logged only. `LoseSession`
breaks the session under a run; `Crash` ends what a replica runs and leaves
its session to `DropSession`; `Release` either unlocks or leaves that to
`DropSession`, when the unlock fails and the connection is closed.

`JobLease` says what this amounts to: a lease that begins when none is held,
ends, may be revoked from a run that then goes on as an orphan, and dies with
its process. The mapping takes the holder (unless its session outlived its run)
for the lease and runs without the lock for orphans.

### PriceAlerts

A run is a process of `Sched` (tickers, which take the lock) or of `Manual` (admin
requests, without a lock). Of the lock it keeps whether the run's session has it
(`locked`, `LockFree`): the lock goes with that session, which may break under the
run (`LoseSession`), and the run goes on beside the next one without knowing.
A run reads the subscriptions, then for each row the item (`GetItem`), its price
(`ReadPrice`) and the stored state (`Compare`), and the first time stores it
(`Baseline`). An item that is not active is passed over for as long as it is not,
which is no failure and no bounded number of times: `active` is a state that
`SetItemActive` changes. A failing call to the catalog passes over an item once
(`SkipItem`). Then the run dispatches
user by user: `Contact` or `NoContact`, `Send` or `SendFails`, `Store` row by
row, and the mark of the digest (`EndDispatch`, `EmptyDigest`). Between any two,
users edit rows and preferences, prices arrive and the clock moves. A deleted
row takes its state along and makes a later store fail on the foreign key: in
`Baseline` the whole run ends, in `Store` the rest of the user's pass.

One series of prices stands for an item, of which the latest entry and its day
are kept; a mail is the set of rows it covers. `NoContact` advances the states
without a mail, also when auth-service does not answer, as the code does.
`Init` takes any watchlist and preferences stored before. The tick that
`time.Ticker` keeps while a run is at work is not kept here; a run that is slow
to take its lock has a stale time all the same.

### PriceHistoryCollector

`RunOnce`: the counting pass (`CountPage`), then the second pass (`ListPage`,
`CollectItem`, `CollectFails`). `Page` is the query with LIMIT and OFFSET over
the items active at that moment, in the order of `created_at`, which an item
keeps: created late or activated again it appears inside the pages. `ListFails`
gives the run up, as the code does, without telling anybody. Fetching and
storing one price are one step: nothing else reads what lies between.

### MailCall, NotificationOutbox

`NotificationOutbox` is `SendEmail` of notification-service, one step per statement
and per exchange with the provider: `CreateOutboxRecord` (the row, `queued`),
`SendEmail` (the request to the provider goes out), `ProviderTakes` (in its own
time), `ProviderAnswers` or `ProviderErrors`, `MarkSent` or `MarkFailed`,
`AnswerQueued`. The caller waits 10 seconds where the provider may take 15
(`GiveUp`); its going away ends the context of the request, as a crash does
(`CutOff`); a statement may fail although it was committed (`RecordFails`,
`MarkFails`). `cut` is history.

`MailCall` says what a caller may rely on: no error means the mail was handed
over, an error means nothing. The mapping takes the mails the provider took for
those handed over. That a caller which gave up hears an error, never "ok", is
what the refinement is about.

### UserAssets, AdminMail

`UserAssets` holds what decides whether a user is notified: a row of the watchlist
and its switch, and the preferences, where `GetPreferences` reads and
`InsertDefaults` inserts in a second statement. Preferences saved between the two
are overwritten; `choice` and `raced` (history) tell when. `AdminMail` adds the
requests of admins: a forced snapshot (`ListNotificationSubscriptions`,
`CheckItem`, `Dispatch`) and messages to one or to all (`SendAdminMessage`,
`ListUserContacts`), then mail by mail `MailTo`, `NoContact` or `ContactFails`, and
`MailSent` or `MailFails` by what the call told. A snapshot passes over a user whose
mail failed, a message stops there. `AdminGone` gives up the call under way.
Addresses of auth-service are the set `verified`, read at different moments. What a
mail says is left out; which items have a price is a choice, since the catalog
may change between any two rows.

### ItemStore, CatalogItems, CatalogImport, CatalogIngest

`CatalogItems` is catalog-service's item API. A call is a process; a write is
`Begin` (BeginTx waits for a connection), one statement on the row (`InsertRow`,
`UpsertRow`, `UpdateRow`, `DeactivateRow`), `WriteTranslations` and `Commit`, then the
answer is read by two more statements (`ReadRow`, `ReadTranslations`), outside of the
transaction. `Blocked` is the row lock and the wait on the unique index of slugs:
a statement that meets another open transaction on the row or the slug waits
for its end. A listing holds its connection (`OpenRows`) and asks for a second
one per row (`NextRow`). `idle` counts the pool. `Fail` ends a call at any point,
with a COMMIT, or a deactivation, whose answer was lost among the outcomes. Of an
item the model keeps the slug, `is_active`, the languages of its translations and,
as history, the number of changes committed; names, descriptions and prices are
left out.

`CatalogImport` is the import job and its importer: the lock's connection, held
for the whole job (`TakeImportLock`, `MarkImportStarted`, `JobEnds`), the total
(`TotalHint`), the pages of the source that pages (`TarkovFetch`) and the
single list of the two that do not (`FetchAll`), the entries passed over
(`SkipEntry`) and stored (`ImportEntry`, `EntryDone`). The attempts the sources make
at a request are one step. `counted` and `localized` are history.

`CatalogIngest` lets one more kind of caller in: a sync of
api-integration-service, which searches a market and upserts over HTTP item by
item without translations, and reports the first error although earlier items
are stored (`SyncNext`, `SyncDone`). The HTTP callers are patient for a bounded
time; the job has no timeout.

`ItemStore` is what all of this promises a caller, without statements, connections
or transactions: a call is asked, a write takes effect at one moment
(`TakesEffect`), wholly and only where it is possible (an update of an item that
is there, a slug nobody else has), and is answered; "ok" means that it has taken
effect, a conflict or "not found" that it has not and that the reason was true at
that moment; an error means nothing (`Fails`). The mapping (`ItemsSeen`,
`CallsSeen`) forgets versions and connections, and takes for the stage of a call
"asked" before its COMMIT and "done" while its answer is read. That the rows do
not change between the statement and the COMMIT, that the reasons of a refusal
are committed rows only, and that an item found by a write is found again when
the answer is read, is what the refinement is about. What a read returns is not in
it: the item of an answer is read by two statements on the pool
(`catalog_repository.go:509-552`), and an old row may come with the translations of a
later write. `AnswerCoversWrite` bounds that.

## 4. Runs

| Run | Instance | What it shows |
|---|---|---|
| `auth_sessions` | 1 account, 3 tokens, 2 requests, clock 0..2 | rotation, bounded effect of demotions and blocks, at most one straggler per other request after a block; a token is exchanged by no more requests than there are at a time |
| `auth_recovery` | same, recovery endpoints | a one-time token is marked used after its effect; after an answer it works again fewer times than there are requests at a time |
| `auth_rotation` | register, login, refresh | **violation**: one refresh token exchanged twice |
| `job_lock` | 2 tickers on 2 replicas, 1 job, 1 lost session, 1 crash | exclusion, visibility, freedom of the lock, refinement of `JobLease` |
| `job_lock_doc` | 1 ticker, 1 job, 1 crash | **violation**: `running` in the row, the lock free |
| `alert_cycles` | 2 tickers, 2 rows of one user, 2 days, 1 failure, 1 edit | while no lock is lost: no repeat without cause, states never go back |
| `alert_manual` | 1 ticker, 1 manual run, 2 days of 2 steps, 1 failure, 1 edit, 1 lost lock | a digest a day; what is stored was told |
| `alert_liveness` | 1 ticker, 2 users with a row each, 2 prices, 1 failure, 1 edit | a lasting price of an active item is told, whatever ends the cycle of both |
| `user_mail` | 2 users, 1 item, 1 attempt of an admin, 1 change of a setting | the outbox says nothing false, the mail call keeps its promise, reports are true, who switched off gets no snapshot |
| `catalog_ingest` | 2 items, pool of 2, an import job, 1 request or sync, 1 change of the market | no connection is lost, only listings exhaust the pool, answers cover their writes, what is counted is stored, an import takes the first entries worth it once each, the job ends, refinement of `ItemStore` |
| `collector` | up to 5 items, pages of 2, 3 changes, 1 failure | what paging misses or repeats is bounded by what changed |
| `collector_full` | same | **violation**: an item active all along is skipped |

Bounds. Every interleaving hazard above needs two processes on one row; a third
adds no new pair of statements. Three refresh tokens give a chain of two
exchanges, or two concurrent ones of the same token; a third exchange, which must
not happen, shows as soon as its request has passed the check
(`ExchangesNeedRequests` counts it then). The clock passes every lifetime once.
Two rows in one mail are what partial storing needs, two days what a digest and a
state that goes back need. Three pages and three changes let a page lose items
twice in one run. Failures and edits are bounded by `MaxFaults`, `MaxEdits`,
`MaxLosses`, `MaxCrashes`, because `RepeatsNeedFaults`, `OneDigestADay` and
`OverlapNeedsLoss` count them: the code promises nothing better than one repeat
for a failure. The `auth_*` runs use symmetry of tokens and requests, and
`alert_cycles` of replicas; they check no liveness.

`alert_cycles` sets `MaxLosses` to 0. Its properties say nothing of a behaviour once a
lock is lost (`losses = 0` is their condition, kept in the proofs for any number of
losses), because then two cycles are at work on the same rows and do what a manual
run beside a cycle does. `alert_manual` loses a lock, and there it must not matter.
`alert_liveness` begins with both rows watched, u1 in reach and its item active, and
u2 perhaps without an address or with an inactive item (`Watched` in the MC module);
an edit may delete a row under the cycle, which ends it for both users, or
deactivate an item. One day is enough there: a price moves on by its value.

In `user_mail` a second attempt shares nothing with the first but settings and
addresses, which change anyway, and two users are what a broadcast that stops
half way needs. In `catalog_ingest` a pool of two is the smallest in which the job
holds one connection and its statements need another; two items are what a slug
taken by another item, a second page and a sync that stops half way need. Either
a request or a sync runs beside the job (`MaxRequests` is 1: with two at a time the
state space passes ten million states). The theorems of section 5 hold for any
number of attempts, requests, items and connections.

Deadlock is checked wherever the system runs for ever. `UserMail.cfg` and
`CatalogIngest.cfg` turn it off: when the bounded requests are answered and the
job has ended there is nothing left to do. That no call is stuck before that is
`StuckNeedsListing` and `ImportEnds`.

Fairness. `SchedulerLock!Spec` takes weak fairness of every runner's own steps
(a goroutine goes on: a cycle has 10 minutes, a collection 15, an import ends
with its input over a client with a 30 s timeout) and of `DropSession`
(PostgreSQL ends the session of a dead client). Nothing is assumed of tickers,
admins, losses or crashes. `PriceAlerts!Fairness` is weak fairness of `Fire`
for the scheduler, which ticks for ever, and of the steps of a run; none of
users, admins, prices or failures, whose number is finite. `EveryPriceIsTold`
also lets a change count as told when the user cannot be mailed, which includes
an auth-service that does not answer: that is what the code decides. Of an item that
is not active it promises nothing while it stays so.

`CatalogIngest!Spec` takes weak fairness of the service's own steps, of the job's,
and of the end of a call from outside (`CallFails` of a request or of the sync: the
gateway gives up after 15 seconds, the sync's client has a timeout, and
`net/http` ends the context of a caller that is gone). It assumes nothing that
would end a call of the job, which runs without a deadline, and nothing of
admins or the market. `ImportEnds` is what follows: listings may take every
connection and wait for each other, but not for ever.

The three violations, as found in the code:

* `Refresh` (`auth.go:151-159`) reads the token and then revokes it, without
  looking at how many rows that changed. The property is what the integration
  test asserts of a used token.
* `schedule_state` is not tied to the lock; the API description says a job shown
  as running cannot be started because the lock is busy.
* the second pass of the collector skips items after a deactivation, in a job
  the API calls a full sync.

Two more places worth knowing, for which the documents promise nothing to check
against: a manual alert run takes no lock, so beside a cycle it can repeat a mail
and move a state back (`RepeatsNeedFaults` and `ToldNeverGoesBack` hold without
manual runs only, and until a cycle loses its lock); and with two replicas a late
tick can mail a second digest (`OneDigestADay` is checked with one ticker, as
deployed).

## 5. Proofs

`AuthServiceProofs` proves for any sets of addresses, passwords, tokens and
requests and any lifetimes, from `ConstantsAssumption` and `NoRowAssumption`
(no row value means "no row"):

* `TypeCorrect`: `TypeOK` is inductive. It ties tables, requests and access
  tokens together, which no foreign key does.
* `RotationCorrect`: `SpentTokensAreRevoked` needs that a request which carries a
  token past `RefreshRevoke` has it revoked, and that nothing undoes a
  revocation.
* `StaleAccessBounded`, `BlockedRefreshBounded`: one invariant that bounds the
  stamp of every request in flight. A request that has read the user before the UPDATE
  of a role or of a block has a stamp not later than that UPDATE, because the
  clock is read first; this is where the order of the two lines in
  `issueTokenPair` matters.
* `UsedResetTokensDidTheirWork`, `UsedVerificationTokensDidTheirWork`: a request
  at `useToken` has done its work.
* `RedemptionsBounded` (with `ProcAssumption`): `RedemptionsFade`. Requests that have
  all looked a token up before one of them marks it work one after the other. From the
  first answer on the token is marked, so nobody joins them; each that works again
  leaves their number, and the one that was answered is missing from the start.
  The invariant needs that a redeemed token has its mark, which is what the mutant
  takes away.
* `StragglersBounded` (with `ProcAssumption`: requests under way are finitely many):
  once a block has revoked a user's tokens, those that are live again plus the
  requests that stand before their INSERT for that user are fewer than the
  requests there can be. The block itself is the one that is missing, an INSERT
  moves one from the second set to the first, and nobody new reaches the INSERT,
  because `IssueRead` sees the block.

* `ExchangesBounded` (with `ProcAssumption`): `ExchangesNeedRequests`. The code lets
  two requests exchange one token (`auth_rotation`), and this is how far that goes:
  exchanges of a token, plus the requests that stand between its check and their
  INSERT, are at most the requests there can be. It is inductive with the types and
  the invariant of `RotationCorrect`. Once one of them has revoked the row nobody
  new passes the check, and an INSERT moves one request from the second set to the
  first. The lemma on two sets of which one hands a member over to the other
  (`HandOver`) serves both counts.

`SchedulerLockProofs` proves, for any replicas, tickers and jobs
(`RunnerAssumption`): `LockTypeCorrect`; `LeaseImplemented`, that every step maps
to a step of `JobLease` or a stutter (the safety part of what `ImplementsLease`
checks); `OverlapCorrect`, by the invariant that at most `losses` runs lack the
lock, with a lemma on the cardinality of the set of runs; `RunShown`, by the
invariant that without a loss every run in progress holds the lock.

`PriceAlertsProofs`, for any users, rows, prices, schedulers and manual runs
(`AlertAssumption`): `AlertTypeCorrect`, and `ToldCorrect`, by the invariant that a
run which stores states has them from its own pass over that user, and that each
was excused (mailed, or not to be mailed) before. It holds beside manual runs
without a lock, because what was excused stays so. One lemma shows that a
non-empty set of ids has a least one, by the well-foundedness of strict
inclusion on finite sets.

`PriceAlertCyclesProofs` goes on from there with what is mailed:

* `ToldForward` and `RepeatsPaidFor`, while there are no manual runs (`Manual = {}`,
  as in `alert_cycles`; beside a manual run, which takes no lock, neither holds) and,
  as the two properties say, until a lock is lost with its session. `CycleInv` holds
  until then. It says that every cycle at work has its lock, so that one run at most
  is past it; that a change it is about to mail is no older than the price stored
  and differs from it; and that an item without a stored price has not been mailed. `DebtInv` keeps the account:
  the repeats of an item, plus one while its last mail is neither stored nor
  about to be, are at most the failures and the deleted rows that ended a dispatch.
* `DigestsPaidFor`, with one replica and any number of manual runs (`Sched = {s}`,
  as in `alert_manual`). `Dated` orders the clock, the time a cycle runs with and
  the day marked for each user; `DigestInv` says that the digests of a user and day
  are at most the failures, the rows deleted under the cycle, and one once the day is
  marked or about to be. With two replicas it would not hold: the time of a tick is
  read before the lock, so that a cycle may run with an earlier day than the one
  marked.

`PriceHistoryCollectorProofs`, for any items, size of a page, changes and failures
(`CollectorAssumption`). OFFSET counts ranks, and so do the proofs: `Rank` of an item
is the number of active items before it, ranks are a bijection onto `0..n-1`,
and a page is the items with ranks in an interval (`RankOnto`, `PageCounted`).

* `CollectorTypeCorrect`, and `ProgressBounded`: the first pass has counted at least
  the items active when it ends, and no page of the second one reaches beyond
  those active when it is listed.
* `RepeatsBounded`: an item comes up again only where activations have pushed it
  beyond the offset, and each moves an item one place at most.
* `MissesBounded`: the items active all along that are behind the offset and were
  on no page (`Behind`) become one more at most with each deactivation, the one that
  stood at the offset, and no more with any other step.

`NotificationOutboxProofs`, for any mails: `OutboxImplementsCall`. The invariant is
`RowsAreTrue` with what each stage of a request implies for the row and the
provider.

`AdminMailProofs`, for any users, items, attempts and changes (`MailAssumption`: a mail
is an attempt and a user; `EverybodyAssumption`): types, the two properties of the
outbox and the refinement again in the composed system, and `SnapshotsCorrect`,
`UnknownCorrect` and `ReportsCorrect`. The invariant has a part about the settings
(what was saved is in the row unless a `GetPreferences` was under way) and, for each
attempt, which of its mails were posted, which answered, and that a broadcast has
at most one that was posted and not told "ok"; the counts of a report are
tied to the cardinality of the users told "ok".

`CatalogIngestProofs`, for any items, languages, requests, catalogues, pages and
sizes of the pool (`CatalogAssumption`, `ImportAssumption`, `IngestAssumption`):

* `IngestTypeCorrect`: with the types, that idle connections, the lock's and those
  of calls add up to the pool. The lemma is that each step of a call takes or
  returns its own connection (`Balanced`), whichever way the call ends.
* `AnswersCorrect`: versions only grow and no item is taken away, so a call that has
  committed finds its item, at least as new, in both reads.
* `CountedCorrect`: "ok" is answered after the commit only, and stays true.
* `LocalizedCorrect`: a commit without translations keeps those of the row, and
  the job asks for one set of languages from start to end.
* `ImportCorrect`: `ImportIsComplete`, by `Scan`: the page is what follows in the catalogue
  after the entries done with, of which those worth it, and no others, have been
  counted, each once (`counted` and `processed` are tied to their places); `Carried`
  adds that the upsert under way is of the entry at the head of the page. A source
  calls a page the last one at the end of the catalogue only. The paging source
  knows that from a page that is not full, which is why the size it asks for must
  not be zero while the limit is not reached.
* `OnlyListingsStick`: `StuckNeedsListing` with the guards of a step spelled out
  (`CanStep`) in the place of ENABLED, for pools of two connections or more. A
  transaction that has written waits for nothing, one that has not waits for
  those only; so when nobody can go on, nobody but a listing and the lock of the
  job has a connection. With a pool of one that lock alone would stop everybody.
* `CatalogImplementsStore`: every step of `CatalogIngest` maps to a step of
  `ItemStore` or a stutter, and the initial states to its own, so that
  `Spec => ImplementsStore` as a whole (`ItemStore` states no fairness). The steps
  of calls are first sorted into four kinds (`StepKinds`): going on, getting an answer,
  committing, deactivating. `StoreInv` is what lets a COMMIT be the moment of a
  write although the tests were made by the statement before it: a
  transaction that has written its row finds at every later moment the item and the
  slug as it found them (`Room`); two such transactions share neither an item
  nor a new slug (`Apart`), because `Blocked` makes the second one wait; and
  no two items have one slug (`SlugsApart`). Without `Apart` the commit of one
  transaction could take the room of another.

Only model-checked: liveness (`LockComesFree`, `EveryJobEnds`, `EveryPriceIsTold`,
`ImportEnds` and the fairness half of the lease's refinement) and
`StuckNeedsListing` in the form that speaks of ENABLED, which are out of the
prover's reach. Every other property that a passing run checks is stated by a
theorem; `RepeatsNeedFaults`, `ToldNeverGoesBack` and `OneDigestADay` with the
hypotheses above, which their runs share.

## 6. Not modelled

* api-gateway and the HTTP layers: they keep no state between requests. What they
  refuse (a role, a missing field) changes nothing.
* user profiles: one row per user that nothing else reads, written by one
  statement. The catalog's price endpoints: reads of rows that
  `PriceHistoryCollector` writes.
* parsing of market answers, the fields of items other than slug, activity and
  translations, wording and layout of mails, password hashing, JWT encoding: data
  that no property here tells apart.
* a sync or an import brings an item back that an admin has deactivated
  (`ON CONFLICT ... is_active = true`). `UpsertRow` does so too; no document says
  whether it should, so no property does.
* a create that is answered with an error although it was committed is an outcome
  of `Fail`; a client that asks again gets a conflict. No property is about it.
* the copy of a job that `StartWithMeta` returns without its mutex: the torn value
  lives in one HTTP answer.
* `tools/catalog-importer/internal`: an older copy nothing calls.
