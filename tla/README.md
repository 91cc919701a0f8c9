# Formal model of the auction research service

TLA+ specifications, TLC model-checking runs and TLAPS proofs for the code under
`src/`: a FastAPI backend that crawls listings of Naver Land, keeps their history and
notifies users, in two deployments (one local process on SQLite, or a Docker stack with
PostgreSQL, Redis and Celery), and a React frontend.

The models follow the code, not its documents. Where the two disagree a run says so (see
*Disagreements found*).

## 1. The system

| Component | State it keeps | Operations | Talks to |
|---|---|---|---|
| Analysis runs (`services/analysis_service.py`, `tasks/crawl_tasks.py`) | `crawl_runs`, `tracked_sources` | create for a user or a schedule, cancel, claim, report progress, save, fail | database, dispatcher, collector, persistence |
| Task dispatch (`runtime/local_dispatcher.py`, Celery) | executor queue and futures, or Redis lists and revoked ids | enqueue, cancel, shutdown | workers |
| Schedules (`services/schedule_service.py`, `services/schedule_runner_service.py`) | `crawl_schedules` | create, patch, delete; a cycle every minute that starts what is due | analysis service, source locks |
| Source locks (`core/locks.py`, `runtime/local_locks.py`) | a token per source, with a time to live in Redis | acquire, release | the scheduler |
| Persistence (`services/persistence_service.py`) | complexes, groups, articles, snapshots, `source_listing_states`, `change_events` | `persist`, `mark_run_terminal` | comparator, notifications |
| Listing history (`domain/comparator.py`, `domain/listing_identity.py`) | none (pure) | compare, presence and absence transitions, identity | persistence |
| Aggregation (`domain/aggregator.py`, `domain/normalizer.py`) | none | group, normalise | collector's payload |
| Collector (`crawler/browser.py` and its helpers) | a page, what was seen so far | open, switch trade types, scan a virtual list, expand brokers | Chrome |
| Accounts (`services/auth_service.py`, `api/dependencies/auth.py`) | users, sessions, failed logins | bootstrap, login, logout, passwords, administration | every route |
| Notifications (`services/notification_service.py`) | notifications, preferences | create from an event, list, mark read | persistence |
| Queries, exports | none | read and format | database |
| Frontend (`state/AnalysisProvider.tsx`, `analysisRunSession.ts`, `AuthProvider.tsx`) | current run, saved session, hydrated result | start, poll, restore, cancel, hydrate | API |

What makes it hard:

* **A run has many writers.** The request that creates it, a request that cancels it, the
  dispatcher's error path, the worker that claims it, a second delivery of its message,
  the save and the failure handler all write its status, some under a condition, some by
  primary key alone.
* **Commit and side effect are apart.** A run is committed, then enqueued; a cancel
  revokes, then commits; a cycle commits the run of an occurrence, then the schedule's
  next occurrence.
* **Two runtimes.** `SELECT ... FOR UPDATE` locks in PostgreSQL and is nothing in SQLite;
  a Celery broadcast may reach no worker; the local queue dies with its process.
* **Stale copies.** A cycle works on rows read at its start, and a request on an object
  read before an `await`.

For each component, what makes it correct:

* *runs*: a source has one active run; a run is crawled by one worker at a time and saved
  once; a result that is announced exists; an ended run stays ended; an accepted run ends;
  a queued run is carried by a message or a handler, unless a revoke that raised took its message;
* *schedules*: an occurrence is started once; a failed dispatch on record has no run on
  its way; a due schedule gets its turn; an edit is not lost;
* *locks*: only the holder or the clock takes a lock away; none is left behind;
* *persistence and history*: two complete absences in a row remove a listing and nothing
  else does; events and snapshots of a run agree;
* *collector*: a complete result has every group of the trade types the panel counted, and misses no
  more of a page that changes than has gone from it;
* *accounts*: one bootstrap makes the first user; a removal leaves an active admin; failed logins
  are counted; sessions die with their password and with their user's deactivation; only removals of
  admins deadlock;
* *queries*: what is shown of a run stays as it was when the run was saved;
* *notifications*: none for a baseline; one opens the listing it speaks of;
* *frontend*: the saved session belongs to the current run.

## 2. The modules

| Module | What it is |
|---|---|
| `RunLedger` | What a reader of `crawl_runs` may rely on: Submit, Start, Finish, Fail, Withdraw. |
| `AnalysisRuns` | The database, the broker, the API handlers and the workers; implements `RunLedger`. |
| `AnalysisRunsProofs` | TLAPS: the inductive invariant and the refinement. |
| `MCAnalysisRuns` | Instances for TLC. |
| `ScheduleRunner` | Extends `AnalysisRuns` with schedules, locks and the scheduler's cycle. |
| `ScheduleRunnerProofs` | TLAPS: the invariant of runs, runners and locks together. |
| `OccurrenceProofs` | TLAPS: one run for each occurrence of a schedule. |
| `MCScheduleRunner` | Instances for TLC. |
| `ListingWatch` | What the history promises: a listing is active, missing or removed by the complete crawls in a row without it. |
| `ListingHistory` | `persist` and what it writes, notifications, and the queries of `QueryService`; implements `ListingWatch`. |
| `HistoryProofs` | TLAPS: the inductive invariant of the stored history. |
| `HistoryViewProofs` | TLAPS: what the queries and notifications show of it, and the refinement of `ListingWatch`. |
| `MCListingHistory` | Crawls for TLC. |
| `Accounts` | Users, sessions and the requests that work on them under row locks. |
| `AccountsProofs` | TLAPS: the inductive invariant and what follows from it. |
| `MCAccounts` | Symmetry for TLC. |
| `Collector` | One crawl of a complex over a page that renders late and changes. |
| `CollectorProofs` | TLAPS: the inductive invariant of a collection, and what its payload is good for. |
| `MCCollector` | Pages and scopes for TLC. |

`ScheduleRunner` composes the scheduler with `AnalysisRuns`. `ListingHistory` spells out the
step `SaveWrite` of `AnalysisRuns` (what a save commits) and takes from it that one run of a
source is active at a time; `Collector` spells out `CrawlReturns` and `CrawlRaises` (what a crawl
may bring home), whose payloads `ListingHistory` takes as inputs. `Accounts` shares no table
with the others but the sources without an owner that bootstrap adopts.

### AnalysisRuns

| Model | Code |
|---|---|
| `tracked`, `status`, `source`, `opts`, `progress` | rows of `tracked_sources` and `crawl_runs`, one entry per run id |
| `saves` | how often a persist transaction committed for the run (a history of the snapshots) |
| `queue`, `revoked` | the messages of the executor or of Redis, and the ids `dispatcher.cancel` withdrew |
| `misfired` | history: the ids a revoke withdrew that then raised |
| `pc`, `asked`, `mine` | where a handler is, the request it serves, the row object it holds |
| `wpc`, `held`, `reports`, `verdict` | where a worker is, its run, its progress calls and the outcome it will write |
| `RequestAnalysis`, `FlushSource`, `LookupActive`, `InsertRun`, `RequeryActive` | `create_for_user`, `create_for_source`, `_create_for_source`, `_deduplicated_run` |
| `Enqueue`, `EnqueueRaises`, `MarkUnqueued` | the dispatch and its `except Exception` |
| `CancelRead`, `CancelRevoke`, `CancelWrite` | `AnalysisService.cancel` |
| `Claim`, `Report`, `CrawlReturns`, `CrawlRaises` | `_claim_run`, `_update_progress`, `_execute_pipeline` |
| `SaveRead`, `SaveWrite`, `SaveRaises` | `PersistenceService.persist`: the locked read, the commit, the rollback |
| `FailRead`, `FailWrite` | `mark_run_terminal` |
| `ClientCrash`, `WorkerCrash`, `ProcessCrash` | a handler, a task or the local process ends between two steps |

A step is one committed statement, one broker call, or one read whose result is used
after an `await`. The row lock is not a variable: a run is locked while a worker is between
the locked read and the write (`RowLocked`), which in the local runtime is never.
Celery acknowledges on receipt here, so a message is gone once it is claimed. A call of the
dispatcher may raise although it took effect: a publish that did is answered by `MarkUnqueued`, a
revoke that did leaves its run queued while the workers drop its message (`CancelRevoke`).

A create request that finds a conflict, or a cancel that finds a run it may not cancel, is
answered without a write; the model lets such a request return to idle or does not start it.

### ScheduleRunner

| Model | Code |
|---|---|
| `schedules` | rows of `crawl_schedules`; a cadence is a period, an occurrence a multiple of it |
| `lock` | the source locks: the runner whose token the key holds |
| `rpc`, `now`, `ready`, `todo`, `row`, `expired` | a run of `enqueue_due`: its step, its clock, the probed browser, its rows, the row at hand, whether a rollback expired its objects |
| `fired`, `missed` | history: which occurrence a run was created for; occurrences with a failed run on record |
| `CycleStarts`, `TakeRow`, `Acquire`, `Call`, `Unlock`, `Advance`, `RecordMissed` | `enqueue_due` and `enqueue_with_source_lock`; `Call` is `create_for_source`, the steps of `AnalysisRuns` with the runner as the caller |
| `CreateSchedule`, `PatchSchedule`, `DeleteSchedule` | `ScheduleService` |
| `ExpireLock` | the 600 s of a Redis lock |
| `CycleRaises`, `RunnerCrash`, `LocalCrash` | an exception that leaves the cycle, a dead worker process, a dead local process |

After an `IntegrityError` the rollback expires every object of the session. Reading
`source.id` or `schedule.id` from the exception path then needs I/O outside the session's
greenlet, and the exception leaves `enqueue_due`: the rest of the batch waits for the next
cycle (`expired`). The failed run that records a missed occurrence never becomes active and
is represented by `missed` only. The handlers of the schedule API are one step each: what
they carry from their read to their commit is only changed by other edits of the same
schedule.

### ListingHistory

| Model | Code |
|---|---|
| `runs` | `crawl_runs` from the crawl's return on, with the captured payload; an id is its place in the order of capture |
| `tx` | the next statement of an open `persist` and what it has read: whether there is a baseline, the run it compares with, the apartment's details |
| `complexOf`, `apartments`, `articleGroup` | `tracked_sources.naver_complex_id`, `apartments.details_json`, `broker_articles.listing_group_id` |
| `snapshots`, `states`, `events` | `listing_snapshots` with their rows, `source_listing_states`, `change_events` |
| `prefs`, `notifications` | preferences and `notifications` |
| `crawls`, `saved` | history: which groups each saved crawl of a source showed; how a run was saved |
| `Capture`, `Begin`, `FindCompared`, `LoadApartment`, `Store` | the crawl's result; the statements of `persist` before it holds the apartment row, each on what is committed by then; the rest and the commit |
| `Fails`, `RejectComplex`, `RejectListings` | a rollback and `mark_run_terminal`; `SourceComplexMismatchError`; `PersistenceError` and `ArticleGroupConflictError` |
| `Withdraw`, `UpdatePreference` | the late cancel of `AnalysisRuns`; `update_preference` |
| `GroupsOf`, `Match`, `Differs`, `PresenceEvent`, `Absence` | `choose_existing_listing`, `compare_listings`, `transition_presence`, `transition_absence` |
| `View`, `Detail`, `Registrations`, `Point` | the queries for a run, a listing, its registrations and the chart |

Saves of one complex queue on the apartment row, which every save writes before it reads the
groups; what comes after it is one step. What a save read before it (`tx`) may be stale.
A group's identity is the tuple its digest is taken of; prices other than the asking price,
texts and broker details are abstracted to `price`, `facets` and `detail`.

### Accounts

| Model | Code |
|---|---|
| `users`, `sessions`, `adopted` | rows of `users` and `auth_sessions`; whether the sources of the system user have an owner |
| `hashes` | the number of calls of `hash_password`; a hash is the number of its call |
| `locks` | who holds a user's row by `FOR UPDATE` or `UPDATE` (PostgreSQL) |
| `pc`, `reg` | where a request is and what it has read: `copy` is the object its session has loaded |
| `streak` | history: wrong passwords in a row |
| `Bootstrap`, `BootstrapReads`, `BootstrapCommits`, `InsertFails` | `bootstrap_admin` and the login after it; the unique email |
| `Login`, `LoginReads`, `LoginCommits` | `login`: read for update, verify, count or open a session |
| `Authenticate`, `Answer`, `Logout` | `authenticate` and requests that change nothing; `revoke_session` |
| `ChangePassword`, `SetTemporaryPassword`, `CreateUser`, `CreateCommits`, `UpdateUser` | the methods of that name; a route for another user loads it first |
| `ScanStarts`, `LockRow` | `_protect_last_admin`: `SELECT ... FOR UPDATE` without `ORDER BY` takes the rows of the active admins one by one, in any order, and waits for each while it holds those before |
| `DeadlockAborts` | PostgreSQL ends a request that waits in a circle |
| `Flush`, `Revoke`, `Commit` | the autoflush (the `UPDATE` waits for its row), `revoke_all_sessions` (a statement that sees what is committed when it starts), the commit of the changed columns |
| `LockoutEnds` | 15 minutes are over |

Sessions do not expire their objects on commit and `authenticate` does not lock: a request
acts on the user it read, which may be stale, and writes only the columns that differ from
what it read. Tokens, CSRF and the validation of input reject a request before it does
anything and are left out. With SQLite nothing locks; this model is the Docker deployment.

### Collector

| Model | Code |
|---|---|
| `lists`, `edits` | the site's lists per trade type, and how often they changed during the crawl |
| `tab`, `top`, `view` | the list that is open, where it is scrolled to and where it is rendered |
| `scope`, `counts`, `turn` | `CrawlScope`, `trade_counts` (`None` of a trade type whose count the panel has not displayed), the trade types taken up |
| `seen`, `groups`, `passStart`, `latest` | the locals of `_scan_listing_groups` |
| `cur` | the card in hand: its key, its place, the HTML read, the rows collected, what is left to visit |
| `articles`, `listings`, `partial` | `seen_article_ids` and the payload |
| `ReadPanel`, `SwitchTradeType` | `_parse_stable_complex_panel`, which goes on with any count it finds, and the switch to the next trade type that has one |
| `TakeCard`, `ReadCard`, `ReadRows`, `SkipArticle`, `CollectArticle`, `DetailParseFails`, `CloseGroup` | one group: a card is the n-th rendered one, whichever that is at the step |
| `ScrollOn`, `Settle`, `EndOfList` | the scroll, its bounded wait, and the decision at the end of the list |
| `CheckGroups`, `Finish`, `Raise` | the checks of a full collection, the payload, and any exception |
| `Render`, `ListingComes`, `ListingGoes`, `ListingChanges` | the page, between any two steps of the collector |

The rows of a card are collected by article, first wins, and visited in the order they were
attached; nothing depends on that order, and the model keeps a set and visits it in any. A card
in hand is a place among the rendered ones, so its key, its HTML and its rows are three reads
with awaits between: the rendering or the site may move another card there each time.

Coarser than the code: the key of a card, its HTML, and one round of its rows are each read in one
step, where the code awaits card by card, attribute by attribute and row by row
(`browser.py:704-711`, `468-496`, `422-438`), so that a round of rows is not mixed of two cards,
though two rounds may be; with a window of one card the run has one key at a time to read. After a
switch the model shows the list of the trade type from its top; the code takes a first card of that
type for it (`298-302`) and gives up waiting for the top (`636-650`), and this lateness is left to
`Raise`, to `Render` and to the scrolls that follow.

## 3. The runs

| Run | Instance | What it shows |
|---|---|---|
| `runs_docker` | Docker; 1 source, 2 runs, 2 requests, 2 workers, 1 crash | one active run, one worker per run, one save, checks under a row lock still hold, no queued run is forgotten but by a revoke that raised, ended runs change by a request only, refinement of the ledger |
| `runs_local` | local; 2 sources, 2 runs, 2 requests, 1 thread, progress marks, 1 crash | the whole inductive invariant (a result that is announced exists, a run is claimed before it is crawled, ...) without row locks, progress never goes back, refinement |
| `runs_settle` | no crash, with fairness; publishes and revokes raise, with and without effect | every accepted run ends, but for one whose message a revoke that raised took away |
| `runs_cancel_race` | Docker | *violation*: a running run is cancelled |
| `schedules_local` | local; one loop, one client with other options, 1 crash | no lock is left behind, one run per occurrence, a missed occurrence has no run, and the invariant that makes it so |
| `schedules_overlap` | Docker; two cycles, 1 edit, 1 crash, 2 run ids | the invariant of runs, runners and locks (`RunnersInv`) under stale rows and expiring locks; the token protects the next holder |
| `schedules_served` | Docker; the schedules of 2 sources, a client with 2 options on one of them, 2 run ids, one loop, 1 crash, fairness | a due schedule moves on, though its call may lose the insert, meet another option, or be in a batch that an earlier row aborts |
| `schedules_patch_race` | Docker; one edit | *violation*: a PATCH is overwritten |
| `history` | 2 sources of one complex, 4 crawls of one and 1 of the other, complete, partial, re-priced, empty and of another complex; 1 failure, cancel or preference change | the whole inductive invariant; refinement of `ListingWatch`; states and events agree; nothing vanishes from the history and what is shown of a run never changes; the chart adds up; notifications open what they announce and compare with the run before, even if a cancel commits between the reads of a save |
| `history_twin` | the same two sources, 2 crawls and 1 | *violation*: a new listing that looks like a known one makes the save fail |
| `accounts` | 2 users, any 2 requests at a time, lock-out after 2, 2 passwords, 2 sessions, 1 lock-out that ends | the inductive invariant; passwords, deactivation and sessions; failures are counted; only removals wait in a circle; of bootstraps at a time one makes the first user; a removal leaves an admin |
| `collector` | 4 pages of up to 3 listings in 2 trade types, a window of one card, any counts displayed, 3 scopes, 1 change of the page | the whole inductive invariant; a payload is complete and free of duplicates; from a page that stood still it has a listing for every card of the trade types that were counted, with the articles of that card's brokers; a full one misses no more single-broker cards than it hands over articles that have gone; and the scan ends |

Why the bounds are enough: the hazards are races of two. Two runs of one source (with
sources that may be known from before) is the least with which an index violation or a
stale write to another run can happen; two requests give a create against a create and a
cancel against a create; two workers give a second delivery; a message may be published
twice; one crash covers each step of each process in turn. Two ticks of the clock are not
needed where a cycle is compared with its own copy: an occurrence is due at tick 1 and a
second cycle meets it again. `OncePerOccurrence` speaks of one loop, and like
`MissedIsNotRunning` of the time before a crash, as the code promises no more: a crash between
the two commits of a cycle starts an occurrence again, and overlapping cycles may do so. The
proofs below lift the safety results to any number of everything.

In `history` four crawls let a listing appear, go missing, be removed and come back with each kind
of crawl between, and the second source shares its group and its articles before or after; a fifth
crawl starts from a state four have shown. In `accounts` a race is of two requests: two bootstraps,
two removals, a removal or password change against a login, a create against a create. (Three
requests and four users, checked once outside the runs, corrected a property: see `BootstrapIsFirst`
in section 5.) Two passwords are the one of an admin and the one of a second user, or an admin's
first and second; the proof covers a third. In `collector` a window of one card makes every list
long enough to scroll and every place change its card; the pages have a group that looks like
another, groups that share an article, a card without a count and a listing in each trade type. With
two changes of the page (page by page and with every count displayed: 32 million states, too many
for a run) TLC found no violation of what the payload promises either. In `schedules_served` two
sources make a batch with a row behind the one that aborts it; the client asks for one of them only,
as they are alike, and does not cancel, and there is no worker, so that a run keeps its source taken
until its publish raises: what a runner's call may answer is all there, and what would end the run
sooner only makes its turn easier. Edits are left to `schedules_overlap`.

`CHECK_DEADLOCK FALSE` is set because the instances really stop: run ids, crashes, edits
and ticks are bounded, and an idle service waits for requests.

Symmetry is used over interchangeable ids, in runs without liveness properties only; their
invariants, action properties and refinements do not tell the ids apart.

**Fairness.** `WF(CallerStep)`: asyncio resumes a handler, and every statement or broker
call ends or raises. `WF(WorkerStep)`: a worker takes the oldest message, and every wait of
the crawl has a time limit. `WF(RunnerStep)`: Beat, or the local loop, starts a cycle every
minute and a cycle goes on. `WF(ExpireLock)`: Redis expires keys. There is no fairness for
requests, edits, crashes, the clock or for one outcome of a step, and none is strong.
`Collector` has `WF(Collect)` alone: every wait of the collector has a time limit, after which
it goes on or raises, so that it is never without a step while it runs; nothing is assumed of
the page, and not that rendering catches up. In
`schedules_served` run ids are finite, and `IdsUsedUp` excuses a state in which none is left.

**Mutants.** Every property of a passing run has a mutated definition of the model, a bug
the code could plausibly have (a dropped condition of `_claim_run`, a terminal tuple that
misses `cancelled`, a lock released outside `finally`, ...), under which TLC finds it
violated. They stand before the definition they change.

## 4. Disagreements found

* `runs_cancel_race`: "queued 작업만 취소할 수 있다" (plan *stage 2*, line 183; also the message
  at `analysis_service.py:243`), but `cancel` checks what it read, then updates by primary
  key: a run claimed in between is cancelled while it is crawled. The crawl goes on, its
  result is dropped, and a second run of the source may start beside it.
* `schedules_patch_race`: the plan of the scheduler (line 212) computes `next_run_at` in the
  transaction after the run; the code computes it from the row read before the cycle, and
  overwrites what a PATCH stored meanwhile.
* `history_twin`: the plan of the backend (line 169) calls a listing that was absent from the
  last run and is in this one `new`. The code looks for the group of a listing without known
  articles by its building, area, floor and direction; when the only group that looks like it
  is in the crawl too, both are taken for it and `persist` raises: nothing of the crawl is saved.

Met while modelling, stated here and in the hazards without a run of their own:

* A cancel whose revoke raises after the workers have received it is answered with an error and
  changes no row. Its run stays queued, no worker executes it, and its source is taken until
  somebody cancels again: `QueuedIsCarried` and `EveryRunSettles` make an exception of it
  (`misfired`).
* `persist` asks whether there is a complete run, and for the last one, by two statements. A cancel
  of the only complete run that commits between them leaves a save that is no baseline and has
  nothing to compare with: it may notify without a compared run. `ComparedWithLastComplete` says
  that this is the only way to such a notification.
* Two removals of admins that scan the rows of the admins in different orders deadlock; PostgreSQL
  aborts one of them, which is answered with an error. `OnlyRemovalsDeadlock` says that it happens
  to nobody else.
* The panel is taken as soon as it displays the count of any trade type, and one whose count is
  not displayed yet is passed over like one without listings (`browser.py:267-281`, `99-107`,
  `live_dom.py:149-162`): the payload is completed without it. The plan of the optional details
  (*2026-07-28*, line 293) lists "비어 있지 않은 거래유형 전수 순회" (every trade type that is not empty)
  among the checks, that of the integration (*2026-07-22*, line 705) records a run as partial if
  "단지 화면 표시 건수와 실제 수집 건수가 다르면" (if the displayed and the collected numbers differ), and that
  of all listings (*2026-07-25*, line 22) does not store fewer than displayed as completed: none of
  them sees a count that was never read. `NothingIsMissed` speaks of the trade types with a
  count.
* `_protect_last_admin` looks at the copy of the user that the route loaded. A target that
  was not an active admin then, and has become the only one since, is removed unprotected. A
  bootstrap is let in again after that, and a request that was creating an admin before the loss
  may commit while it hashes its password: the "first" admin is then a second one.
* A full crawl of a list that changes can leave out, or list under another card's heading, more
  cards than there were changes. Of four cards A to D, the list is scrolled past B and C
  before they are rendered; the late rendering moves D in place between the reads of a card's key
  and of its HTML; D is collected once for the key of C and again for its own; then D is taken away,
  and the rows read for its second group are those of C. There are three groups for three cards, so
  the list is complete: A, D, and D again with the articles of C; B has been missed.
* Two changes of one password at a time both succeed; the later commit stays.
* Two saves of one complex merge the apartment's details with what they read before they hold
  its row; the later one drops what the other added.
* A card that does not say how many brokers it has is complete with the rows that are
  attached when it is read.
* One change of the page is enough to give a listing the brokers of another card. A card that has
  been collected gets the price of the next one, so that the two look alike, and is taken once more
  because its key is new; its HTML is read, then the late rendering moves the next card into its
  place, and its rows are those of that card. If both display as many brokers, the listing counts as
  complete, and the other card, whose key has been seen, is passed over: as many groups as cards
  have been found. This is why `ArticlesAreItsOwn` and `NothingIsMissed` speak of a page that stands
  still and displays how many brokers each card has. Late rendering alone moves cards in the same
  way, and is caught by the checks.

## 5. The proofs

`AnalysisRunsProofs` proves, for any sets of sources, runs, options, requests, scheduler
tasks and workers, either runtime and any number of crashes, `Spec => []IndInv`. The
assumptions are those named in the module: the local executor has one thread, progress
marks do not decrease, and names are distinct.

The safety properties are not inductive one by one. That a run is saved once needs that what a
worker holds has not been saved (`ClaimedBeforeCrawled`), which needs that no two workers hold one
run (`CrawledByOne`), which needs that a queued run is held by nobody: a consequence of
`ClaimedBeforeCrawled` again. With row locks the check inside a transaction is still true at its end
(`LockedRunIsRunning`); without them the invariant still bounds what may have happened (cancelled or
failed by a request). That nothing is forgotten (`QueuedIsCarried`) needs to know who may revoke a
message (`RevokedIsCancelled`: a queued run whose revoke did not raise is about to be cancelled),
and that messages belong to rows (`MessagesHaveRows`). `IndInv` is their conjunction; there is a
lemma per action. From it follow the invariants, that ended runs change only through a request
(`WorkersRespectEnds`, Docker) and that every step is a step of the ledger or none
(`LedgerImplemented`).

`ScheduleRunnerProofs` proves `ScheduleSpec => []RunnersInv`: the same invariant with the scheduler
beside it, overlapping cycles and expiring locks included, its types and registers, and that in one
process a lock is held only inside `enqueue_with_source_lock` (`LockIsNotLeaked`). The lemmas of
`AnalysisRunsProofs` hold for every caller and are reused for a runner's call. That no runner takes
a lock from another is `OnlyHolderUnlocks`.

What `AnalysisRunsProofs` says about steps holds of the composition too. `RowsBeside`: a step of the
scheduled system is a step of a caller (a request, or the call of a runner), a step of a worker, a
crash, or leaves the rows and the workers alone; and each action property has a lemma for each of
these. So `ScheduleSpec` implements the run ledger (`ScheduleKeepsLedger`), progress goes forward in
it (`ScheduledProgressGoesForward`), and with row locks no worker rewrites an ended run
(`ScheduledEndsAreKept`).

`AccountsProofs` proves `Spec => []AccountsInv` for any users, any number of requests at a time and
any bounds; it assumes that lock-outs need at least one failure and that names are distinct.
`SessionsFollowPassword` is not inductive: a commit that sets a password revokes the sessions it saw
when `revoke_all_sessions` ran, and only because it has held the user's row since its flush, and a
login holds it from its read to its commit, are these all of them (`LocksAreHeld`). That a removal
leaves an admin needs that it holds the row of one who stays (`LocksAreHeld`: what it has found
stays an active admin's). `HoldersGoOn` says who may hold a row at which place; whoever waits while
holding one is a removal at its scan or its flush, so that a circle of waits has nobody else in it
(`OnlyRemovalsMeet`). The lemma `OwnStep` says once what a step must show for itself so that the
other requests keep what they hold; there is a lemma per action.

`OneMakesTheFirstUser` proves `BootstrapIsFirst` for any number of requests with one more invariant,
`FirstBootstrap`: a bootstrap that has found no admin holds the row of the system user until it
commits, so that no other is at the same place; and before the first commit nobody exists, so nobody
logs in and nobody is about to create a user. It does not say that there is no admin at the commit
of every bootstrap: three requests refute that once the last admin has been lost (section 4).
`AnAdminStays` covers the removals that are protected.

`ProgressNeverRegresses` (in `AnalysisRunsProofs`) needs more than `IndInv`: a run that waits has no
progress, and one that is crawled is not past the marks its worker has yet to report
(`ProgressIsReported`), which holds because no second worker reports for it.

`OccurrenceProofs` proves `ScheduleSpec => []ScheduleInv` and from it `OncePerOccurrence` and
`MissedIsNotRunning`, for any sources, requests, workers, cadences and edits. Next to
`RunnersInv` it needs `OccurrenceInv`: of a lone loop before any crash, each copy it works on was
due, an occurrence that is *spent* (it has a run, or a failed run that stands for it) lies before
the `next_run_at` of its schedule or is the one the loop is at, and what the call of the loop will
answer is known from the step it is at. A new cycle cannot copy a spent occurrence again, and what
a PATCH or a new schedule sets lies ahead of the clock, where nothing is spent yet.

`HistoryProofs` proves `Spec => []HistoryInv` for any sources, payloads, preferences and bounds. It
assumes that a payload's status and articles are what the collector returns and that `None` is none
of the values it is compared with (`NoneAssumption`). Only `Store` writes the tables; one lemma
(`StoreHasEffect`) says what it does in terms of the set of groups that the save lists, one
(`QuietSteps`) that every other action leaves the tables alone, and each conjunct is proved from
these two. The conjuncts say what the tables have in common: a saved run has one snapshot of each
group and at most one event of it; the last event a source has of a group says what its state row
says (`StatesFollowEvents`); what a complete run does not list has been reported gone before
(`GoneIsReported`); between two complete runs what comes up and what drops out is reported
(`StepsAreReported`); an open save compares with the last complete run, or with none if a cancel
took that one back, whatever commits between its statements (`SavesCompare`, from one active run per
source and `RunsInOrder`).

`HistoryViewProofs` derives from it what the queries answer. `NothingVanishes`, `NotificationOpens`
and `ReplayMatchesStates` rest on one fact: the events of a listing through a run, replayed, end
with the newest one, which is that of its state row or of its snapshot. `HistoryAddsUp` counts: the
rows of two runs differ by the events between them. `WatchRefinement` maps each `Store` to the
`Save` of `ListingWatch` (`StatesAreJudged`: a row's counter is the number of complete crawls since
the listing was seen, up to two) and every other step to a stutter. `HistoryIsKept` is an action
property about the steps that save: a run that has a result before and after the step is shown as
before; a cancel that takes away a result is not such a step and is left to the ledger. The queries
take the least or greatest of a set of run ids by CHOOSE; that a set of naturals has a least element
is proved from the well-foundedness of finite intervals under inclusion (`LeastNumber`), since
induction is not at hand.

`CollectorProofs` proves `Spec => []CollectorInv` for any pages, scopes, windows, strides and any
number of changes of the page. It assumes what the names of the model mean: a window and a stride
of at least one card (`ScrollAssumption`), pages that are lists of cards with at least one broker
and no broker twice (`PageAssumption`), and that `None` is not a count (`NoneAssumption`). From it
follow `PayloadIsSound` and `MissedAreOutweighed`. Four arguments are joined in it:

* *No article twice* (`ArticlesAreHeldOnce`): `seen_article_ids` covers what is in the payload, in
  the groups and in hand, and an article is taken only when it is not there yet.
* *The articles are the card's own* (`ListingsAreRight`). While a list is scanned on a page that
  stands still, either everything is as it should be (`OnItsWay`: groups are cards of the list with
  all their brokers, and the rows in hand are those of the card whose HTML was read, or of the card
  that the rendering is moving into its place) or the collection of this list can no longer succeed
  (`Doomed`): two cards look alike, so that there are fewer keys than cards; or a card still to be
  taken, or the one in hand, has lost an article to another group, so that it will be incomplete;
  or a group is incomplete already. Each of these lasts until `CheckGroups`, which then raises.
* *Nothing is missed* of the trade types whose count was displayed (`TurnsAreWhole`): at the check
  there are at least as many groups as cards (`CountsAreCurrent`), each key was taken once, and each
  group is a card of the list, so that by counting every card has its group.
* *What changes may cost* (`MissedAreOutweighed`). The cards that a changing page leaves without a
  listing of their own are not bounded by the number of changes (section 4), so it is the articles
  that are counted. No group is handed over empty (`GroupsAreRead`), and at the end of a list there
  are as many groups as cards (`EndsAreMet`); as no article is handed over twice, there are at least
  as many articles as cards. An article that no card of the list has any more was read before a
  change took its card away, and that card had at most `MostBrokers` brokers: there are at most
  `MostBrokers * edits` of them (`FewHaveGone`). If each card has one broker, the other articles are
  of as many cards, and the cards missed are outweighed by the articles that have gone.
  `BrokersAssumption` asks only that `MostBrokers` is a number.

Only model-checked:

* liveness (`EveryRunSettles`, `DueIsServed`, `CollectEnds`), as fairness
  is out of the prover's reach;
* the three violations of section 4, which are counterexamples.

## 6. The plan

In this order, each with its MC module, runs and, where marked, proofs:

1. `AnalysisRuns`, `RunLedger` with proofs: done.
2. `ScheduleRunner` with proofs: done.
3. `ListingHistory` with `ListingWatch` and proofs: done.
4. `Accounts` with proofs: done.
5. `Collector` with proofs: done.
6. `LocalDispatcher`: futures, the lock around the map, done callbacks in either thread;
   implements the queue of `AnalysisRuns`. Proof: one future per run.
7. `RunSession`: the frontend's current run, saved session and hydration against the ledger.
8. Pure functions against reference definitions: `calculate_next_run` on a calendar,
   `compare_listings`, aggregation.

## 7. Not modelled

* Parsing of HTML, normalisation of text, aggregation of prices, exports, formatting,
  validation of input, logging, migrations and scripts: functions without state, or I/O.
* `LocalDispatcher`'s map of futures with its lock and callbacks: `AnalysisRuns` has its queue.
* Of the notifications, the feed with its cursor and the read marks; of the queries, the
  dashboard's figures, sorting and paging: reads, and one flag.
* The calendar of a schedule (days, weeks, time zone): an occurrence is a multiple of a period.
* The start of Chrome: its probe is an input of the scheduler.
* The frontend: its run session is planned.
* Accounts on SQLite, where no row is locked and requests are serialised by the file's lock
  only when they write.

Redis and PostgreSQL are modelled by what the code relies on: SET NX with a time to live, a
release that compares the token, lists that may hold a message twice, unique indexes and row
locks. That a worker slot may be shared by crawls and scheduler tasks (`worker_concurrency`) is
not modelled: they may overlap, as they do with more than one slot.
