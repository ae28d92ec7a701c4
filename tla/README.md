# Certwarden in TLA+

Certwarden watches the TLS certificates of domains: a Go server (`src/apps/api`) keeps tenants,
domains, check results and notification settings in a database, checks domains on a schedule and on
request, and sends notices; a React application (`src/apps/web`) shows the result. This directory
holds TLA+ models of the parts of that program that are hard to test, the TLC configurations that
check them, and proofs checked by TLAPS. `PROJECT.json` maps each definition to the lines it models.

Paths below are relative to `src/apps/api/internal/` unless they start with `web/`
(`src/apps/web/src/`).

## 1. The system

| Component | Code | State | Operations |
|---|---|---|---|
| Worker pool | `scheduler/service.go`, `app/app.go` | run context, task channel `jobs`, wait groups, `errCh` | Start, Stop, worker, loop, reportPanic |
| Check jobs | `scheduler/check_jobs.go` | map of jobs; per job: targets, counters, event log, signal channel, results channel | StartCheckJob, runCheckJob, completeDomain, finish, finishInterrupted, expireCheckJob, CheckJobEvents |
| Progress stream | `httpapi/handlers_checks.go`, `web/lib/api.ts`, `web/pages/dashboard-page.tsx` | handler: last event, signal; page: last event, buffers | follow a job, resume with Last-Event-ID, heartbeat, abort |
| Domain scheduling | `scheduler/service.go` | rows of `domains` (`next_check_at`, `status`, `consecutive_failures`), `domain_check_results` | dispatchDueDomains, processDomain, scheduleNextCheck |
| Domains, endpoints, policies | `httpapi/handlers_resources.go` | rows per tenant | upsert, delete, manual check, masked configuration merge |
| Tenant administration | `httpapi/handlers_admin.go` | `tenants.disabled`, everything a tenant owns | status, password, delete cascade, listing |
| Notifications | `notify/service.go` | policies, `notification_deliveries` (unique `dedup_key`) | MaybeNotify, deliverEvent, UpsertPolicy |
| Accounts and sessions | `auth/service.go`, `httpapi/handlers_auth.go`, `httpapi/server.go` | users, sessions, one-time tokens | Register, Login, Refresh, Logout, ResetPassword, VerifyEmail, UpdateProfile |
| Bootstrap and migrations | `database/*.go` | schema, administrator, settings | Open, Migrate, EnsureBootstrap |
| Certificate checker | `sslcheck/checker.go` | none | Check: attempts with delays, address resolution, verification |
| Application | `app/app.go`, `cmd/server/main.go`, `crashlog` | server, scheduler, error channels | New, Run |
| Web session | `web/lib/auth.tsx`, `web/lib/api.ts` | access token, user, refresh cookie, requests in flight | refresh after a 401, retry, login, logout |
| Query cache | `@tanstack/react-query`, as the pages use it | per key: data, fetch in flight | fetch, invalidate, keep old data |
| Administration page | `web/pages/admin-page.tsx` | filter, sort, page, selection, dialog, mutations, bulk action | list, select, bulk enable/disable/delete, status, delete, password |
| Dashboard | `web/pages/dashboard-page.tsx`, `web/components/domains/*` | table and overview, one form, progress of a check, toast | add, edit, delete, check one or all, leave |
| Notifications page | `web/pages/notifications-page.tsx`, `web/components/notifications/*` | endpoint form, two policy forms, message and error | save, delete, test an endpoint; save a policy |
| Router and account pages | `web/app.tsx`, `web/pages/*-page.tsx` | route, mounted page, its calls | redirects, login, register, forgotten and new password, verification, settings, public status |
| Inputs and texts | `web/lib/i18n.tsx`, `api-error.ts`, `certificate-age.ts`, forms | none | intervals, dates, languages, messages, errors |
| Mailer, config, models, deployment | the rest | – | I/O, schema, parsing |

Interactions: handlers call `StartCheckJob`, whose goroutine shares the bounded channel `jobs` with
the dispatch loop and the other jobs; workers call the checker, write the row and the result in one
transaction, call the notifier, and report to the job's own channel; the stream handler reads the
job's log and waits on its signal; the domain and tenant handlers change the same rows the workers
hold copies of; `App.Run` cancels and stops the scheduler and then the HTTP server. In the browser, every page
reads through the query cache, writes through mutations that invalidate keys of it when they end, and
sends all requests through `authenticatedFetch`, which refreshes the session and retries after a 401.

What is hard: the pool shuts down at any point (parent context, `Stop`, a panic in any goroutine)
while senders wait on full channels; a worker acts for seconds on a row it read before; the claim of
a domain precedes its check and survives a crash that the check does not; a page resumes a stream
after any early close; a delivery row is written before the notice is sent; tokens rotate under
concurrent requests. A page goes on while its answers are under way: another row is opened, another
filter chosen, the page left, the session ended, and each answer then acts on what is there. What
correctness means for each:

- pool and jobs: no task is lost or reported twice, counters and verdict agree, every job closes,
  nobody blocks for good, a panic stops everything, nothing is checked after `Stop`;
- stream: every event once and in order, no missed signal, the page reaches an end;
- scheduling: a row agrees with its newest result, nobody is starved or put off too far, a domain
  switched off is left alone;
- notifications: at most one notice per key, a notice whenever one is due and nothing failed;
- sessions: refreshes that do not overlap never cost the page its session, page, cookie and server
  agree between exchanges, a logout leaves nothing behind;
- pages: lists and dialogs show what the server holds once nothing is under way, a form writes only
  what it was given, reports and toasts tell what happened, whoever waits gets an answer;
- texts: expiry, order, language and errors shown mean what was stored;
- start and accounts: any crash is repaired by the next start, a name is one user's, a tenant is whole or
  gone; checker: one serving address is enough, a certificate shown is kept, it ends in time; shutdown:
  every failure is returned, nothing is at work afterwards; endpoint merge: an unedited masked value keeps
  the stored one.

`PROJECT.json` lists the hazards with the line where each one bites.

## 2. Modules

| Module | Models | State ↔ code |
|---|---|---|
| `CheckJobs` | pool and jobs | `runCtx`, `jobs`, `stop`, `failure`, `checkJobs` are the service; `wpc`/`wtask` a worker goroutine; `lpc`/`ldomain` the loop; `rpc`/`index`/`results` a job's goroutine and channel; the rest are the job's fields |
| `JobPromise` | what a job promises: open, one report at a time, closed with the verdict the reports give, or cut short | hides channels, workers and the log |
| `CheckStream` | the handler of the event stream and the page, on top of `CheckJobs` | `hpc`, `hlast`, `hsig` are the handler's variables; `wire` is what was written and not yet read; `cpc`, `lastEventID`, `received` the page |
| `Scheduler` | the loop's pass, claims, workers' transactions, backoff, domain and tenant handlers, crashes | `delay` is `next_check_at` minus now in minutes, `overdue` the order of `next_check_at` among due rows; `lastResult` the newest row of `domain_check_results`; `jobs`, `lpc`, `wpc` the process |
| `Notify` | one domain from check to notice: `processDomain`'s row, `MaybeNotify`, `deliverEvent`, policies, overrides, endpoints | `row` is status, certificate and `days_remaining`; `deliveries` maps `dedup_key` to status; `wprev`, `wtodo`, `wkey` are what a worker holds; `served`, `time` are the world; `calls`, `accepted`, `seen` are history |
| `WebSession` | access token, 401 and retry, refresh, login, logout, reload, with the sessions of the server | a session, its refresh token and its access token are one number; `live` are the sessions not revoked, `cookie`, `accessToken`, `user`, `loading` the browser's; `phase`, `carried` where each request is and what it carries; `excuse` the first event that may cost the session |
| `QueryCache` | one cached query | `data`, `flight`, `got` (the server's snapshot on its way), `old` (an answer may predate the last reason to fetch) |
| `AdminPage` | the administration page and its handlers | `tenants`, `blocked` are the database; `lists` the queries by key (filter, page, sort), `details` those of the dialog; `mutation`, `bulk` what is under way |
| `DashboardPage` | the dashboard, its form and a check job as its page sees it | `domainRows` the table; `domainsQuery`, `statusQuery` the two views of it; `domainForm.of` whose values the one form holds; `check`, `job` the check and the job behind it |
| `NotificationsPage` | endpoint and policy forms and their handlers | `endpointRows`, `policyRows`; the forms with whether they were touched; four mutations |
| `AccountPages` | router and account pages | `route`, `mount`, `pageView` the mounted page; `accountCalls` calls, which outlive it; tokens that serve once, password, title at the server |
| `WebInputs` | conversions | `webInput` is the input; only the interval's fields change |
| `Accounts` | the start of the process and who has an account: `EnsureBootstrap`, registrations, renamings, policies, deletions of tenants | `slug`, `users`, `policy` are the tables; `boot` the next statement of the start, `conf` its environment; `req` what each handler holds, `stale` that its snapshot is old |
| `Checker` | one `Check`: attempts, deadlines, delays, cancellation, addresses | `attempt`, `at`, `last` are the loop's variables; `left` what its deadline or its timer has left; `host`, `records` the network; `steady`, `shown`, `extra` history |
| `AppRun` | `App.Run` with the server's goroutine and requests | `errs`, `shut` are `errCh`; `panicked` the scheduler's error channel; `listener`, `conn` the HTTP server's; `run` where Run is |
| `Lists` | `Among`, what a query or a filter keeps of a list | |
| `ListLemmas` | lemmas about numbers, lists and finite sets, which the proofs share | |
| `CheckJobs_proofs` | theorems about `CheckJobs` and `CheckStream` | |
| `Scheduler_proofs`, `Notify_proofs` | theorems about `Scheduler` and `Notify` | |
| `ServerProcess_proofs` | theorems about `AppRun`, `Accounts` and `Checker` | |
| `WebSession_proofs` | theorems about `WebSession` and `AccountPages` | |
| `WebPages_proofs` | theorems about `DashboardPage`, `NotificationsPage`, `AdminPage` and `WebInputs` | |
| `WebClient_proofs` | theorems about the client as a whole, `MCWeb` | |
| `MCCheckJobs`, `MCCheckStream`, `MCScheduler`, `MCNotify` | values for TLC | |
| `MCWeb`, `MCProcess` | the parts of the web client; accounts, checker and shutdown of the server: side by side | `part` says which one a behaviour is about |

One action is one stretch of code between two points where another goroutine can get in: a channel
operation, a lock, a database statement or transaction. Work under one mutex (`appendEvent`,
`completeDomain`, `finish`) is one step. `CheckJobs` leaves out what `processDomain` does to rows, and
`Scheduler` leaves out jobs and outcomes: the two share the worker's control and the channel. In
`Scheduler` a request is one step with its authorization, and edits of host, port and interval are
not told apart. `Notify` takes `processDomain` up where `Scheduler` leaves it, at the certificate
columns and the notifier: when a domain is checked, switched off or deleted is `Scheduler`'s matter, so
here a worker may check at any time. Reading the row again and reading the policy is one step, as
policy edits and row updates commute. Time runs in half days, since a date of UTC and the days a
certificate has left change at different hours; a dedup key is a record of what `buildDedupKey` writes.

In the web modules a request has a step at the server and a step where its answer arrives, with
anything in between; a refresh has two at the server, since `Refresh` reads the session before the
transaction that revokes it. Nothing cancels an answer unless the code does (`AbortController` of a
check), so late answers act on whatever page is there. Each page has one tenant and its own queries;
search text, status filter and quick filter are one choice; an endpoint is an e-mail address or a
webhook; the text of thresholds is the set of its items, where nothing between commas and no number
are items too. The check job of `DashboardPage` is `CheckJobs` reduced to what its events say, its
stream what `CheckStream` shows of it. The pages share no state but the session, of which `AccountPages`
keeps what the router sees, so `MCWeb` looks at one part in each behaviour and lets the others rest.
`AdminPage` repeats renders until the page number settles: the pages it passes are the least set closed
under the effect (`Passed`), and it settles on the smallest of them, since the effect only goes down.

In `Accounts` each statement of `EnsureBootstrap` is a step, since it commits on its own; a registration
reads the setting, looks the name up, chooses its slug and commits. The database is given by `Serial`:
SQLite refuses the write of a transaction that has read before another one committed (`stale`), MySQL
and PostgreSQL at their default isolation do not. Rows that a crashed request wrote are rolled back with
it. The password of the administrator is never empty, as `config.Load` gives it a default. Public titles
and passwords are left out, and the address of a user other than the administrator's. `AppRun` takes from
`CheckJobs` that `Stop` returns and that jobs end after it, and from `CheckStream` that a stream then ends.
In `Checker` the handshake and its verification are one step and time passes in ticks, up to the deadline.

Definitions whose comment starts with "Mutant" are plausible mistakes in the definition that
follows; they are not part of any specification. Each property is known to fail under one of them.

## 3. Runs

| Run | Instance | Shows |
|---|---|---|
| `CheckJobsPool` | 2 workers, 2 jobs of at most 3 targets together | log order, progress, nothing lost or doubled, one final verdict that covers every target, quiet after `Stop`, with panics and shutdown anywhere |
| `CheckJobsLive` | 1 worker, 1 job of up to 2, one scheduled domain | jobs close, `Stop` returns, panics stop the service, `JobPromise` is implemented (safety and liveness) |
| `CheckStream` | 1 worker, 1 job of 1 target, a page, 2 early closes | nothing skipped or repeated, no lost wake-up, the page reaches an end, streams do not outlast `Stop` |
| `SchedulerRows` | 1 domain, 2 workers, 2 faults | row and history agree, bounded postponement |
| `SchedulerLive` | 2 domains due at every tick, batch of 1, 1 worker, 1 fault | no starvation; a domain switched off goes quiet |
| `SchedulerHistory` | 1 domain, violation | check results outlive their tenant |
| `SchedulerAsked` | 1 domain, violation | a domain created switched off is stored switched on |
| `NotifyRace` | 2 workers on 1 domain, 1 endpoint, edits, 1 fault | one call per notice, a truthful log of deliveries, a delivery that was begun ends |
| `NotifyCrossings` | 1 worker, 2 certificates, 2 thresholds, 6 half days, daily or not, a switched endpoint | no threshold is lost, one failed send keeps no other notice back |
| `NotifyExpired` | 1 worker, 1 certificate, violation | nobody is told of a certificate that has run out |
| `ServerProcess` | accounts: SQLite, 2 handlers, 2 names, settings that change, 2 restarts, 2 edits; checker: 3 attempts, 3 addresses in 3 orders, deadline 2, delays 1 and 2; shutdown: 3 connections | a name is one user's, accounts and policies are whole; a check says what it was shown and is back in time; no failure exits like a request to stop and all is quiet after `Run`; the process comes up, checks return, the shutdown ends without its deadline |
| `WebPages` | each part of the web client, about 900,000 states | the session is lost only for cause and agrees with the server; pages show what the server holds, forms keep what is theirs, reports are true, deep links survive, texts mean what is stored; nobody waits forever |

Bounds and why they are enough. The task channel holds twice the workers, so one worker and three
tasks already fill it, of which the loop sends any number (`CheckJobsLive`). Two workers and two jobs
are what outcomes of one job out of order, a worker that goes from one job to the other, and a job that
ends while another goes on need. `FewTargets` keeps the two at three targets together, so that one has
two; the theorems of section 5 hold of any number, and those that state no property of a run (types,
the agreement of the counters, the room in results channels) are not run again. Event logs and counters need no bound: they are
bounded by the targets. `MaxCloses` bounds early closes of a stream: a second one can hit a resumed
stream. In `Scheduler`, `FailureCap` is a count whose delay has reached the cap, so counting on would
change nothing; `RetryMax` is 4 ticks instead of 60, two doublings below the cap; `BatchLimit` is 1
instead of four times the workers so that two domains already exceed it; `MaxLag` is as long as the
interval, so that a late claim lands in the past; `MaxFaults` bounds crashes and database errors
together, since a database that always fails justifies no promise. In `Notify` two workers are all
that can race for one key; thresholds 0 and 1 with certificates of five and seven half days are
crossed one at a time, both at once, and again after a renewal, to a successor that is above them or
already below; one endpoint with two events makes the same loop as two endpoints with one;
`CrossingsTold` speaks of one worker, healthy checks and unedited policies, because each of these can
cost a notice (section 4). In `CheckStream` one target gives a log of four events (started, domain
started, domain completed, job completed), each of which an early close can separate from the next.

In `Accounts` two handlers are what can race for a name; three users are the administrator and two
owners, and each further start may add an administrator of another name; two restarts cut a start twice,
or cut it once and run it again after edits. In `Checker` three attempts are what `New` sets, and lists
repeat an address, mix versions and turn. In `AppRun` nothing is bounded but the connections.

In `WebPages` two requests are what two refreshes need to overlap, one of them the profile update,
which alone stores a user; three sessions are the first one, its successor and that one's; one fault
ends or loses any of them. Three tenants on pages of two make a second page that a deletion empties;
four steps with two looks are a bulk action with a filter changed and a dialog opened inside it. Two
domains are edited in turn; `Budget` lists four mixes of forms, checks, departures and trouble, as all
at once adds states and no new meeting of two. `MaxEdits` and `MaxSends` 2 let one mutation meet
another; one refusal turns any answer into an error. The router is opened at eight of its addresses,
one from each guard and each account page with a call of its own, with one link followed, two calls and
one mishap, so that a form is sent twice or an answer comes to another page. A day is four units of the
clock and instants run over two days on each side of now, which has all remainders; lists of four give
every order of readable and unreadable dates. What no property tells apart rests: sort columns are one,
and a domain switched off is not in the dashboard's model.

Deadlock is not checked in `WebPages`, whose bounds run out, nor in `ServerProcess`, where a check and
the process end. Nor in `CheckJobs` and `Scheduler`: after `Stop` the pool is at rest, and when no event
is left to happen so is `Scheduler`. Symmetry is used for jobs and workers in runs that check no liveness.

Fairness and its justification. Goroutines keep running and checks end (timeouts): weak fairness of
every step of worker, runner, loop, handler and page. A sender blocked on a Go channel is queued first
in, first out, so one that is offered room again and again gets it: strong fairness of `RunnerEnqueue`
and `LoopSends`. `App.Run` calls `Stop` once the context is done or `errCh` has an error. In
`Scheduler` the clock runs, the ticker fires and the process is restarted. In `Notify` a worker that
has begun goes on. In `Accounts` the supervisor starts the process again (`restart: unless-stopped` in
`docker-compose.yml`) and a start goes on; in `Checker` the clock runs and the check goes on; in `AppRun`
Run and the server's goroutine go on, requests are answered, and streams end with their jobs, but the
shutdown's deadline is not counted on. Nothing is assumed of requests, panics, early closes, heartbeats, failed queries or
retention timers. In the web modules requests are answered or known to be lost (weak fairness of what
the server and the answers do, `SessionFairness`, `AdminFairness`, `DashboardFairness`,
`AccountFairness`), jobs go on, and redirects are rendered; nothing is assumed of users, expiry,
reloads or sessions that the server ends. The heartbeat polls the log and would hide a missed signal after fifteen seconds; the runs show that it is not needed.

## 4. Disagreements between code and documentation

- `SchedulerHistory`. The interface (`web/lib/i18n.tsx:321`) says that deleting a tenant "also removes
  its domains, notification endpoints, and monitoring history". `deleteTenantCascade` deletes the
  results of the domains that still exist; results of a domain deleted before remain, and a check in
  progress inserts one after the deletion.
- `SchedulerAsked`. `handleUpsertDomain` passes `Enabled: false` to `Create`, but the column is
  declared `default:true` (`models/models.go:105`), and gorm omits zero values of such fields, so the row
  and the answer say `true`. The test at `httpapi/server_test.go:53` creates a switched-off
  domain this way. The endpoint handler has the same pair of `Create` and `default:true`.
- `NotifyExpired`. `computeEvents` raises an event for a certificate that has run out, and the test at
  `notify/service_test.go:385` formats it with status error. But `MaybeNotify` returns at once for a row
  that is not healthy, and a check records an expired certificate as an error: the notice is never sent.

Facts met on the way that no document contradicts: the index on `users.username_normalized` is not
unique (`models/models.go:56`), so on MySQL and PostgreSQL two registrations of one name that cross both
succeed and the second user cannot sign in: `LoginFindsOwnAccount` fails with `Serial` FALSE, and holds
on SQLite only because a transaction that has read is refused its write after another one's; once the
administrator has taken another name, the next start with the same settings creates a second super
admin; a `domain.started` may follow `job.completed` in
the log of an interrupted job; an outcome that is only an error carries no domain, so its
`domain.completed` names none; a job's goroutine may outlive `Stop`; a claim followed by a crash
delays the check by one interval; a failed send is not retried, and a
row left pending by a crash is never looked at again; a threshold crossed by a failing check is not
told later unless the policy repeats daily; a certificate recovers in the eyes of an endpoint at most
once, as the key of a recovery has no date; a renewed certificate that is already within a threshold
is not told; a start is refused for good when an owner holds the administrator's name, or when the
administrator created with the configured address has another name; a start cut before the policy never
writes it, which changes nothing, as a tenant without a row has the same default; a start sets the
administrator's address without asking who has it; a policy accepted before its tenant is deleted
leaves a row; a name server that turns its answers may lead every attempt to one address; two workers that read the row before a renewal may miss a crossing between them.

Of the web client, each allowed for in the properties or outside of them:

- Session: two requests answered 401 at once both refresh with one cookie; the server may accept both
  or refuse the second, which signs the page out although a session lives (`excuse` "overlap"). A
  logout that meets a refresh may leave a session unrevoked, or the page signed in again. A profile
  answer after a sign-out sets the user without a token. A refresh that read its session before a
  password reset or a disabling revoked them all creates a new one afterwards.
- Administration: an answer that is not there yet counts as one page, so going to a page for the first
  time leads back to the first one, and only a second click finds it in the cache (`Clamp`);
  `deleteMutation.onSuccess` reads the tenant selected by then; the end of a bulk action
  clears a selection made meanwhile and does not fetch the dialog opened meanwhile, and the closing of a
  dialog at the end of a bulk deletion never happens (its closure has the selection of the start); a list
  that failed to load says there are no tenants.
- Dashboard: a save that ends closes whichever form is open by then; a stream that fails leaves rows
  already checked unrefreshed; errors of a deletion are not shown; domains switched off are in the table
  and not in the overview's count; the keys of queries name no tenant and a logout does not clear them.
- Notifications: a new endpoint that is refused empties the form; a policy saved before it has loaded
  writes 30, 7, 1; two domains without an override share what was typed for one of them; an empty list
  of days reads as day 0, so clearing the field never removes an override; a policy that cannot be
  saved says nothing; policies go on naming deleted endpoints; a header's value cannot be emptied while
  its name is kept.
- Account pages: a new address or name fills the settings form with the title from before the save
  until the fetch answers, and a fetch that fails leaves it there beside "saved"; settings sent before
  the status has loaded send an empty title; a verification sent again by a change of language turns a
  success into an error; forms can be sent twice; an answer to a registration or a reset leads to the
  login page from wherever the user is by then; of the browser's languages only the first is looked at.

## 5. Proofs

TLAPS checks the theorems below for every value of the constants that the named assumptions of the modules
allow; TLC evaluates those assumptions in the runs. Every invariant and every action property of a passing
run that is not a liveness property is among them.

| Theorem | Module | States |
|---|---|---|
| `TypeCorrect`, `CountersAlwaysAgree` | `CheckJobs_proofs` | `Spec => []TypeOK`, `[]CountersAgree` |
| `VerdictAlwaysFinal`, `StoppedStaysQuiet` | `CheckJobs_proofs` | `Spec => VerdictIsFinal`, `StoppedIsQuiet` |
| `LogAlwaysProgress`, `VerdictAlwaysOne` | `CheckJobs_proofs` | `Spec => []LogIsProgress`, `[]OneVerdict` |
| `TasksAlwaysAccounted`, `ResultsAlwaysHaveRoom` | `CheckJobs_proofs` | `Spec => []TasksAccounted`, `[]ResultsHaveRoom` |
| `TargetsAlwaysOnce` | `CheckJobs_proofs` | `Spec => []StartedThenCompletedOnce` |
| `PromiseKept` | `CheckJobs_proofs` | `Spec => Promise!Spec`: `CheckJobs` implements the safety part of `JobPromise` |
| `StreamAlwaysTyped`, `EveryEventOnce` | `CheckJobs_proofs` | `StreamSpec => []StreamTypeOK`, `[]NothingSkippedOrRepeated` |
| `WakeupNeverLost`, `CompletedIsComplete` | `CheckJobs_proofs` | `StreamSpec => []NoLostWakeup`, `[]CompletedSawEverything` |
| `RowsMatchHistory`, `NoneTooFar`, `AlwaysTyped` | `Scheduler_proofs` | `Spec => []RowMatchesHistory`, `[]NeverPutOffTooFar`, `[]TypeOK` |
| `NeverNotifiedTwice`, `LogIsTrue`, `AlwaysTyped` | `Notify_proofs` | `Spec => []NotifiedAtMostOnce`, `[]DeliveriesTellTheTruth`, `[]TypeOK` |
| `NoticesStayAccounted` | `Notify_proofs` | `Spec => NoticesAccounted` |
| `CrossingsAlwaysTold` | `Notify_proofs` | `OneWorker => (Spec => []CrossingsTold)` |
| `ExitAlwaysTellsAll` | `ServerProcess_proofs` | `AppSpec => []ExitTellsAll` |
| `AccountsAlwaysWhole` | `ServerProcess_proofs` | `AccountsSpec => []AccountsWhole` |
| `LoginAlwaysFindsOwnAccount` | `ServerProcess_proofs` | `Serial => (AccountsSpec => []LoginFindsOwnAccount)` |
| `CheckAlwaysBackInTime`, `CheckAlwaysSaysWhatWasShown` | `ServerProcess_proofs` | `CheckerSpec => []BackInTime`, `[]SaysWhatWasShown` |
| `SessionAlwaysTyped`, `SessionNotLost`, `PageAndServerAgree` | `WebSession_proofs` | `SessionSpec => []SessionTypeOK`, `[]SignedOutOnlyForCause`, `[]SessionsAgree` |
| `NothingAlwaysStale`, `AlwaysShownAsStored` | `WebClient_proofs` | `WebSpec => []NothingStale`, `[]ShownAsStored` |
| `LinkAlwaysSurvives`, `FormsAlwaysKeepTheirOwn`, `ReportsAreAlwaysTrue` | `WebClient_proofs` | `WebSpec => []DeepLinkSurvives`, `FormsKeepTheirOwn`, `ReportsAreTrue` |

The last five put together what `WebSession_proofs` and `WebPages_proofs` prove of each page on its own.

### The pool, its jobs and its streams

`TypeOK` and `CountersAgree` are not inductive: that a job's count reaches its targets when it is done
follows from where its goroutine is. The inductive invariant `IInv` is `TypeOK`, `LoopInv` (a loop that
sends holds a domain) and, for each job, `JobInv`: nothing is reported while tasks are being enqueued, the
loop index is one ahead of the reports while they are collected, and all are reported from then on; the
job is done exactly when its goroutine has exited. One lemma per process shows that its steps preserve
`IInv`; a step that leaves a job's goroutine, targets and counters alone preserves `JobInv` by
`JobInvStable`. `VerdictIsFinal` follows from `IInv` step by step: of the steps that touch a job's log,
only a worker's start can happen once its goroutine has exited. `StoppedStaysQuiet` adds `StopInv`: once
`Stop` was called the run context is cancelled, and once it has returned every goroutine of the pool has
panicked or exited, from where none goes back to a check.

The log theorems rest on `LogStep`, which says what a step may do to the log of one job: nothing, begin
(the job or a check), report one target while the job is open, or conclude it with a verdict that agrees
with the counters. One lemma per process shows its steps are such steps (`NextLog`), and the two
invariants need nothing else: `ProgressInv` (the counter of an open job is the number of completions in
its log) and `VerdictInv` (as many verdicts as `done` says, each followed by starts only). The set a count
is taken over grows by one element with an append (`CountAppend`).

The flow theorems count, for each job, the tasks in the channel, in workers' hands and in its results.
`FlowStep` says how a step moves them, the tasks sent and the tasks counted; that taking the head of the
channel loses none of the others is a bijection (`QueuedTail`). `RoomInv`, that those three never exceed
what was sent, survives panics and cancellation, and is why a worker's send never blocks even when the
job's goroutine is gone. `AccountInv`, the exact balance, holds while the pool is whole, and `WholeBefore`
shows that a pool that is whole always was. Both need `HandInv`: a worker outside a task has none in hand,
and a posted panic has cancelled the context.

`TargetsAlwaysOnce` follows a single target of a job from the channel to the log. `OnceInv` says that it
is at one place at most (not yet sent, in the channel, with one worker before or after its start, in the
results, counted) and that the log names it as that place requires; `StartsInv` says that no beginning of
the log has more completions than starts, and that the starts are ahead by the checks under way. The
second is the one that panics threaten: a check that panics has started and never completes, so the
balance is an inequality. `OnceStep` says how each process moves one target.

For the refinement, `ViewStep` is a step of `JobPromise` said of one job. Each step of `CheckJobs` changes
the view of at most one job that way (`NextView`); the abstract verdict is the status of the one
`job.completed` in the log, so `VerdictInv` is what makes it well defined, and `SizeInv` (a job that has
begun has targets) is what makes the two ways of computing it agree. `ViewRefines` puts the jobs together
into the variables of `JobPromise`.

The theorems about streams compose pages and handlers with all of `CheckJobs`. The invariant says for each
page that what it was handed counts on from 0 and what is on the wire counts on from its last identifier
(`ReaderInv`), that both are part of the job's log and a verdict it saw is among what it read
(`FollowerInv`), and that a waiting handler's last identifier is the end of the wire and, while its signal
is open, the end of the log (`HandlerInv`). What the pool and the jobs may do to it is `Advances`: the log
only grows, and not without a new signal. `TurnStep` is the one lemma where the two meet; resuming, waking
and the heartbeat are instances of it. That a page which saw the verdict counts all targets needs one
invariant more, `EndInv`: events after a verdict show every target reported.

### Scheduling and notices

`SInv` adds to the first two promises of `Scheduler` that a domain not created yet has no result and that
a worker past the read holds a row that was there (`HeldInv`), without which a result could be stored
before the row exists. The order of due domains plays no part there. It is what `TypeOK` is mostly about,
and `TInv` adds to `SInv` that the order has each domain that is due once (`OrderInv`) and that the loop
and its batch keep their bounds: a batch is as much of the order as `BatchLimit` allows, and what is
removed, claimed or put back comes out as a list of the right set (`Once`).

`NInv` of `Notify` follows the row of one key. From the moment a worker creates it until it is settled the
row is pending, that worker is its only holder (`OneHolder`, which is what the unique index gives) and
knows of the call what is so: not made yet, accepted, or made and refused (`RowInv`). A crash or a failed
statement lets go of the row and leaves it pending, which is why the last part of the promise is only made
without a fault. Which keys a check leads to plays no part there, and is what `PlanInv` is about: a worker
has keys from its plan to its last delivery and not otherwise, and they are keys of configured endpoints;
`NoticesAccounted` follows step by step, since only a worker's own statements shorten its list.
`CrossingsAlwaysTold` says what the thresholds of a certificate lead to. Its invariant `ToldInv` holds as
long as checks are healthy and nothing is edited: certificates come in the order in which they run out and
the days of one only go down (`SeenInv`), the worker works on the row it has read (`FoundInv`), and what
is owed is told, in hand or about to be planned (`OwedInv`). Its hypothesis `OneWorker` is that of the
run: two workers that read before a renewal can miss a crossing, as section 4 says.

### The server's process

`AppInv` is what Run and the server's goroutine know of each other: the goroutine ends with a report
unless Run closed the listener (`ReportInv`), and Run closes it after the scheduler has stopped
(`OrderInv`). `WholeInv` relates tables and handlers: identifiers are given out once, so a policy or a
change that comes late never reaches another tenant (`TenantsInv`), and administrators are in the
platform's tenant, owners in the others, which keeps the platform's from a deletion (`RolesInv`). Every
statement of a start and every commit of a handler has a lemma. `NamesInv`, for the names, says that a
transaction whose snapshot is not old has seen who has the name it will write; it needs `Serial`, without
which the property is false (section 4). `CheckInv` adds up the time of a check, whose delays double
(`TimeInv`, `Spent`), and remembers which addresses of an unchanged answer have refused so far
(`ShownInv`); `PassResult` is the one place where the list of addresses is taken apart: a pass over an
answer keeps the first occurrence of each.

### The web client

Neither promise of `WebSession` is inductive: whether page and server agree after an exchange depends on
where the exchange was when it began. The invariant `SessionIInv` is `SessionTypeOK`, `PhasesOK` (the
phases each flow can be in, and that the page is loading while its first refresh is under way) and, as
long as `excuse` is "none", `OneExchange`: at most one exchange is in flight, page and server agree when
there is none, and each phase of one knows which session is the live one (`RefreshKnows`, `LoginKnows`,
`LogoutKnows`). `SendExchange` is where it could break, and blames the overlap if another one is in
flight; the other events that could break it blame themselves.

`AccountInv` has one part per promise: where a link may have led by now (`LinkInv`), that the answer to a
reset stands for the password set (`ResetInv`), that a page left alone sends one verification, the one
that uses the token (`OneVerification`), and that a settings form not typed into shows the title there is
(`SettingsInv`). Calls are numbered, and outlive the page that sent them, so steps are of two kinds: those
that change what is mounted, and those of a page that stays.

`DashboardInv`, `NotificationsInv` and `AdminInv` share one idea, `UpToDate`: a query that does not say it
is old shows, or is about to show, what the server holds, unless a change is under way that is still to be
followed by a fetch (`FreshInv`, `ListsInv`, `ListInv`, `DialogInv`; what is owed has a name: `Dirty`,
`ListOwed`, `DetailOwed`). What a form writes is carried from the moment it was filled to the answer
(`FormInv`, `SaveInv`, `EditInv`, `PolicySaveInv`). The dashboard's toast needs what the log of the job
says of its counts (`LogInv`, `SingleInv`) and how far the page has read it (`FollowInv`); that a masked
configuration merges to the stored one is a lemma about `mergeEndpointConfig` and what may be stored
(`SavedEndpoint`). On the administration page the effect stops at a page there is (`ClampPassed`, from the
least number of a set), a page has as many rows as the pager counts (`PageAnswer`), and a bulk action has
changed the targets it does not count as failed (`BulkInv`). `WebInputs` has no history to speak of: its
theorems are about the conversions, floor division of negative times among them, and that the order of
expiry sorts lists of any length.

A step of `MCWeb` is a step of one part and changes nothing of the others (`WebSteps`), so the invariants
hold side by side (`PagesInv`).

### Assumptions, and what was written for the prover

The assumptions say what constants are: sets of workers, domains, tenants and endpoints are finite where
something is counted, there is a worker, target lists name a domain once, failures are counted until their
delay has reached its cap (`Scheduler`), the first policies include the tenant's own
(`NotificationsPage`), and the marks for "nothing" (`NoDomain`, `NoCert`, `NoData`, `NoneChosen`, ...) are
none of the values they stand beside. Bounds are only assumed to be numbers.

Some operators are functions or choices where another form would come first to mind, because the prover
has no definition of `SelectSeq`, `SortSeq`, `:>`, `@@` or of recursive operators: `Among` (`Lists`),
`Ascending` (`Notify`), `Pass` and `Shifted` (`Checker`), `WithRow` and `Upserted` (tables with a row
written), `Sorted`, `Passed` and `Clamp` (`AdminPage`), `sortDomainsByCertExpiryAsc` (`WebInputs`).
Induction over such a function is done by hand in `ListLemmas`: from the least number of a set of numbers
(`LeastNatural`) follow induction up to a bound (`UpTo`) and that a function defined from one number to
the next has the values its definition says (`Recursion`); the lemmas about lists of a set, their
concatenation and their sublists rest on those two.

### Only model-checked

All liveness, as fairness and `ENABLED` are outside what the prover does: `JobsFinish`,
`StopReturnsEventually`, `PanicStops`, the liveness half of `KeepsPromise`, `PagesSettle`, `StreamsDrain`,
`KeepsBeingChecked`, `SwitchedOffGoesQuiet`, `PendingSettles`, `NobodyWaitsForever` and `NothingHangs`.
The three violations of section 4 are TLC's counterexamples.

## 6. Plan

Done: the pool, its jobs and streams; scheduling; notices; the web session with its proofs; the pages,
the router and the inputs; start, accounts, checker and shutdown; proofs of every safety property the
passing runs check. Left, in order:

1. Accounts beyond one session: several devices, expiry of one-time tokens, the lookup of a reset by
   address, telegram links.
2. `Notify` extended: several domains sharing endpoints, and tenant and endpoint deletion with the
   deliveries they leave.
3. The query cache shared by pages and sessions of two tenants.
4. The migrations and their backfill, cut and run again.
5. A composition of `CheckJobs` with domain rows: what "succeeded" means for a domain that is
   switched off, whose stored status counts.
6. Proofs of what liveness rests on: that in every state where a promise of progress is open some
   fair step can be taken, as invariants that name that step; and `LoginFindsOwnAccount` without `Serial`
   for starts alone, whose statements do not cross.

## 7. Not modelled, and why

Layout, wording and read-only queries without a cache keep no shared state. SMTP, TLS and HTTP are
calls with an outcome. Parsing of events, requests, JSON and configuration is left out; where a
conversion matters (masking, merging, thresholds, intervals, dates, languages) it is modelled by what
it does. Opening the database and its migrations are SQL run once before anything else. Crash reports,
the mailer, rate limits and the telegram endpoints are not modelled, nor is the refresh
after a 401 inside the stream's fetch, which is the one of `WebSession`. `ForceDue` and `CheckDomainNow`
have no caller.
