# RozgarPK: specifications

TLA+ modules, TLC configurations and TLAPS proofs about RozgarPK, the job
aggregator of this repository: what its workers and its API do to the shared
PostgreSQL tables when they run at the same time, fail, are retried and lose
messages.

All paths below are relative to `src/`; `core/` stands for
`packages/core/pakjobs_core/`.

## The system

RozgarPK fetches job postings from public sources, normalises and validates
them, upserts them into PostgreSQL, links duplicates, expires what is gone and
mails alert digests. Celery workers do the writing in the background (beat
starts their tasks), the FastAPI service serves users and administrators.
Every task and every request is one SQLAlchemy session and one transaction at
isolation READ COMMITTED (`core/db/session.py`), except that alert dispatch
opens one for each alert. No module of the code takes a lock of its own and no
table has a version column, so correctness rests on three facts that the
modules here spell out:

- a transaction decides on rows it read earlier;
- a flush writes only the columns whose value the transaction changed, as
  absolute values (module `UnitOfWork`), unless the code asks for a relative
  update or for one `UPDATE` without a read before it;
- unique keys, and the locks PostgreSQL holds on written rows until the
  transaction ends, are all the mutual exclusion there is.

### Inventory

| Component | State it keeps | Operations | Interacts with | What makes it correct |
|---|---|---|---|---|
| Ingestion upsert (`core/services/ingestion.py`) | rows of `jobs`, `job_events` | create, update, reactivate | validation before it; shares rows with the sweep, the URL check and moderation | held jobs stay held, hidden jobs stay hidden, a republished job comes back, every transition is logged |
| Expiration (`core/services/expiration.py`) | `status`, `last_checked_at` | deadline sweep, unseen sweep, apply-URL check | writes verdicts minutes after it read the row | no administrator's decision is undone, overdue jobs end |
| Moderation (`apps/api/app/routers/admin.py`) | `status`, `hidden_by_admin` | hide, restore, remove, approve, resolve a report | requests of two administrators interleave with each other and with the workers | only a restore makes a hidden or removed job public |
| Duplicate links (`core/services/ingestion.py`, `core/pipeline/deduplicator.py`) | `canonical_job_id`, `is_canonical`, `duplicate_count`, `job_duplicates` | match, follow the chain, link, merge, swap | runs of several sources write the same canonical row | chains end, exactly their ends are listed, all sources are attributed |
| Source runs (`apps/worker/worker/tasks.py`, `celery_app.py`) | `job_sources` health and counters, `source_runs`, the broker's queue | schedule, run, retry, roll back, enable, disable | beat, Celery delivery, administrators | failures show, counters cover the tables, a batch survives one bad posting |
| Alert dispatch (`apps/worker/worker/tasks.py`, `core/services/alerts.py`, `notifications.py`) | `alerts`, `alert_matches`, `notifications`, mails sent | match, send, record, retry, unsubscribe | the mail provider, ingestion, the owner of the alert | one digest per job, retries end, silence after an unsubscribe |
| Sessions and tokens (`apps/api/app/services/auth_service.py`, `routers/auth.py`, `core/deps.py`) | `users.status`, `token_version`, `email_verified_at`, `password_hash`; `refresh_tokens`, `verification_tokens` | sign up, log in, Google, rotate, log out, verify, reset, change password, suspend, restore | overlapping requests of one account; administrators | a token is exchanged once, a closed session never reopens, a new password ends all of them, only an administrator ends a suspension |
| Saved jobs, reports, alert limit, profile (`routers/saved.py`, `jobs.py`, `alerts.py`, `profile.py`, `core/services/profile.py`) | `saved_jobs`, `job_reports`, `job_alerts`, counters of `jobs`, `profiles` | save, unsave, report, create and delete an alert, update the profile | overlapping requests of one user | counters follow the rows, the limit is not passed by much, the completion is that of its row |
| Rate limiter (`apps/api/app/core/middleware.py`) | in-memory deques | admit, refuse, clean up | concurrent requests, proxies | the limit holds in a window, waiting helps |
| Pipeline (`core/pipeline/*`, `core/domain/*`, `_create_job` and `_update_job` of ingestion) | the descriptive columns of `jobs` | normalise, classify, validate, score, compare, create, refresh | between connectors and the table | fields agree with each other, flags are found, the best duplicate wins, label and evidence are of one version |
| Connectors (`core/connectors/*`) | none | page through a source, parse, fail | the network, a list that changes | nothing is missed that need not be |
| Search, recommendations, public lists (`core/services/search.py`, `recommendation.py`, `routers/jobs.py`, `seo.py`) | none | count, page, rank, facet | reads `jobs` while they change | a walk through the pages is complete, lists agree with the search |
| Analytics, AI, mails, serialisation (`apps/api/app/routers/*`, `services/*`) | append-only analytics | read, count | reads `jobs` | - |
| Companies (`core/repositories/company.py`) | `companies` | get or create, recount | ingestion | one row per matching key |
| Configuration, migration, scripts, web frontend | settings, schema | - | - | - |

`PROJECT.json` lists each of them with its status; a component that is not
modelled has its reason there.

### What is hard here

- **Stale decisions.** A URL check reads its batch, spends minutes on HTTP and
  then writes; an ingestion run reads `status` and `hidden_by_admin` and writes
  `active` later. Between the two, anybody commits.
- **Column-wise writes.** Two requests that read the same row and change
  different columns leave a row neither of them intended.
- **Long sessions.** A run keeps one transaction for its whole batch; one
  persist error rolls all of it back, and objects the session still holds are
  older than the table.
- **Overtaken requests.** A login, a rotation or a verification reads the
  account before a password reset or a suspension commits and writes after it.
- **Two statements, one answer.** The count of a search and its rows, the number
  of alerts and the insert, are read apart; pages are numbered over a list that
  moves.
- **Mixtures of versions.** A posting that is published again refreshes only the
  columns it says something of.
- **At-least-once delivery.** `task_acks_late` runs a task again after its
  worker died; a mail that has left cannot be rolled back.
- **Independent schedules.** Beat entries enqueue without knowing what is
  queued or running.

The list of hazards, each at its line, is in `PROJECT.json` under `hazards`,
with the properties that are about it.

## Modules

| Module | Models | Checked by | Proved in |
|---|---|---|---|
| `UnitOfWork` | the column-wise write of the ORM | (used by `JobLifecycle`, `DuplicateLinks`, `SourceRuns`, `Sessions`, `PersonalData`) | |
| `JobLifecycle` | ingestion upsert, sweep, URL check, moderation | `MCJobLifecycle` | `JobLifecycle_proofs` |
| `DuplicateLinks` | canonical chains, merges and swaps | `MCDuplicateLinks` | `DuplicateLinks_proofs` |
| `SourceRuns` | scheduling, delivery, batch transactions, health | `MCSourceRuns` | `SourceRuns_proofs` |
| `AlertDispatch` | digests, mail outcomes, retries | `MCAlertDispatch` | `AlertDispatch_proofs` |
| `Account` | what is promised of an account (abstract) | through `Sessions` | |
| `Sessions` | the account, its sessions and links, in overlapping requests | `MCApi` | `Account_proofs` |
| `PersonalData` | saved jobs, reports, alerts, profile | `MCApi` | `Account_proofs` |
| `RateLimiter` | the request limiter | `MCApi` | `RateLimiter_proofs` |
| `Ordering` | sorting, selecting and adding up (operators) | `MCPosting` | `Posting_proofs` |
| `Normalizer` | fields of a posting: title, company, place, salary, dates, skills (operators) | `MCPosting` | `Posting_proofs` |
| `Classifier` | category, flags, confidence (operators) | `MCPosting` | `Posting_proofs` |
| `Assessment` | validation, quality, comparison of two postings (operators) | `MCPosting` | `Posting_proofs` |
| `Posting` | one posting through its versions: the descriptive columns of its row | `MCPosting` | `Posting_proofs` |
| `Fetching` | one fetch of a connector from a list that changes | `MCPosting` | `Paging_proofs` |
| `Listings` | search, feed, facets while jobs come and go | `MCPosting` | `Paging_proofs` |

`Posting` extends `Assessment` and `Classifier`, which extend `Normalizer`, and all rest on `Ordering`;
`Sessions` instantiates `Account`. `MCApi` and `MCPosting` put components that
share no state into one run: the variable `part` says which of them a behaviour
exercises, so their state spaces add up and every property is checked on the
component it is about.

### JobLifecycle

One row per job with the columns some guard reads; `inserted` holds the
`JobEvent` rows of the last commit and `flagged` is a history variable (jobs
created with `needs_review` and not yet approved or restored).

| Action | Code |
|---|---|
| `Publish`, `Tick` | what the source publishes; the clock |
| `IngestFetch`, `IngestLoad` | `_process`, `get_by_source_job_id` |
| `IngestCreate`, `IngestUpdate` | `_persist` with `_create_job` or `_update_job`, and the commit |
| `IngestAbort`, `SweepAbort`, `CheckAbort` | a rollback or a dead worker |
| `SweepLoad`, `SweepSave` | `run_all` with `jobs_past_deadline` and `stale_active_jobs`; `_transition` of each and the commit |
| `CheckLoad`, `CheckSave` | `jobs_needing_url_check`; `_check_urls` with the verdict per URL, and the commit |
| `AdminLoad`, `HideJob`, `RestoreJob`, `RemoveJob`, `ApproveJob`, `ResolveReport` | the requests of `routers/admin.py` |

Each transaction is a step that reads and a step that writes and commits.
Nothing of it is visible in between, and a flushed row is locked until the
commit, so a finer division shows no other behaviour of these rows. A run's
postings are independent rows; the batch they share is in `SourceRuns`.

### DuplicateLinks

`row` and `links` are the committed tables; `run[r]` is the session of an
ingestion run: `mine` what it has written and not committed, `object` the
objects it holds and `loaded` the attributes they were read with, so that an
object is dirty exactly when the two differ.

| Action | Code |
|---|---|
| `Read`, `Candidates` | `_persist`, lines 210-224, with `_duplicate_candidates` |
| `Insert` | the flush of the new row, and of what the last posting left |
| `Follow` | one turn of the loop over `canonical_job_id` in `_link_duplicate` |
| `Link` | the rest of `_link_duplicate` |
| `Flush` | a flush between two postings (new company, posting that has its row) |
| `Commit`, `Rollback` | `session_scope`; the rollback of `_process` |

The objects matter: the changes of a link are flushed with the next posting's
insert, and until then the session answers with its own, possibly outdated,
object. An object that is not dirty is only held while `_persist` refers to it
(SQLAlchemy's identity map is weak) and is then read again.

### SourceRuns

`queue` counts the copies of each message, `task[w]` is the task of a worker,
`source`, `rows` and `runs` are the committed tables. `Schedule` and
`RunSource` enqueue; `TaskStart`, `FetchDone`, `Persist`, `PersistFails`,
`Finish` are the life of a run, `Unconfigured` and `FetchFailed` its other
ends, `Crash` the death of its worker, with or without redelivery.
`PersistFails` is `session.rollback()` at `ingestion.py:188`: it takes the
whole session back, and the loop goes on.

### AlertDispatch

`job[j].created` is the time the ingestion transaction of `j` began, which is
what `created_at` is, and `listed` whether the conditions of an alert hold of
it. A dispatch task goes through `DispatchStart` (list the alerts), then per
alert `DispatchMatch`, `DispatchSend`, `DispatchCommit`, each of which may be
the last before `DispatchCrash`; `DispatchConflict` is the loser of two that
record the same pair. A mail has three outcomes: taken, refused, and taken with
the answer lost. `inbox` counts the mails that arrived, and `unrecorded` is a
history variable: those that no commit recorded.

### Account and Sessions

`Account` is the specification: `status`, `version`, and the sets `open` and
`closed` of sessions, with one atomic action per promise (`SignUp`, `SignIn`,
`Rotate`, `SignOut`, `VerifyEmail`, `NewPassword`, `Suspend`, `Restore`).
`Sessions` is the code: each request reads the account, later the sessions it
will close, and writes at its commit; any number of requests overlap.

| Action | Code |
|---|---|
| `BeginRegister`, `BeginLogin`, `BeginGoogle`, `BeginRefresh`, `BeginVerifyEmail`, `BeginResetPassword`, `BeginChangePassword`, `BeginSuspend`, `BeginRestore` | what lets a request in: `authenticate`, `rotate_refresh_token`, `consume_verification_token`, `_load_user`, and the reads of the handlers |
| `PruneSessions` | `_prune_sessions`, with the order of rows left open: `created_at` has the quoted default `'now()'`, a constant of the table |
| `RevokeAll` | the read of `revoke_all_sessions` |
| `Register`, `Login`, `Google`, `Refresh`, `VerifyEmail`, `ResetPassword`, `ChangePassword`, `Suspend`, `Restore` | the writes of the request, and its commit |
| `Lost` | the unique key on the address |
| `Logout`, `Resend`, `Forgot` | requests of one statement |
| `Abort` | any failure of a request: nothing is kept |

The refinement mapping is `status <- user.status`, `version <- user.version`,
`open` and `closed` the unrevoked and the revoked tokens. `KeepsPromises` says
that every step is a step of `Account` or a stutter, except a commit of a
request that another commit has overtaken. The exception is real: at READ
COMMITTED a login, a rotation or a verification that read the account before a
password reset or a suspension opens its session, or makes the account active,
after it. Two rotations of one token are the same case. Nothing in the
repository says that these cannot happen; `stale` marks the requests concerned,
so the exception is no wider than that.

### PersonalData

A handler that reads before it writes is a call in flight (`BeginSave` and
`Save`, `BeginAlert` and `CreateAlert`, `BeginProfile` and `UpdateProfile`);
`Unsave`, `DeleteAlert` and `Report` are one step. `Save` shows what the unique
key does: the loser of two keeps neither the row nor the increment. A profile is
a number for every column, 0 for nothing, and for a list how long it is.

### RateLimiter

`dispatch` has no `await` between the clock and the append, so a request is one
step, `Admit` or `Refuse`. `Since` is the loop of `popleft`: it stops at the
first entry that is not too old. `served` and `told` are history variables: when each
identity was admitted, and how often it was refused although it waited as
Retry-After told it.

### Normalizer, Classifier, Assessment, Posting

A text is the sequence or the set of the words that some pattern of the code
recognises, and a dictionary is represented by one or two entries for every way
an entry can behave (a city with a province, a suffix of two words, a currency
for which an amount is read as yearly). What the code does with what it found -
which of several matches wins, defaults, bounds, swaps, limits of a list, order
of a table - is kept. `Posting` is the state machine over them: `Fetch` a
version, `Normalize` it, then `Reject`, `Create` or `Update`; `Refreshed` is the
"keep the old value where the new version says nothing" of `_update_job`.
Points and percentages are integers, in hundredths or thousandths; how the code
rounds its floats is left out.

### Fetching

One `fetch_jobs` of each of the five connectors (GitHub twice: repositories and
search). `Open` and `Close` change the list while it is read; `ReadIssues` and
`ReadSearch` read a page by its number, with the rate limit header;
`ReadBoard`, `ReadPostings`, `ReadFeed`, `ReadSeed` read it all;
`PageFails`, `PageUnreadable`, `PageShapeless`, `AnswerFails` are the failures,
which differ in what they keep. A list shows the newest posting first, so a page is
a set of numbers and the place of a posting (`Rank`) counts those not older.

### Listings

A reader asks (`Search`), and then for each page `Count` and `Read`, the two
statements of `PostgresSearchBackend.search`; `Publish` and `Withdraw` happen
between any two. `slips` is a history variable that counts those that may hide a
job. A search by skills in an order other than deadline or quality is not
`Served`: PostgreSQL refuses `SELECT DISTINCT` ordered by an expression that is
not selected, and the code joins the skills and asks for exactly that. The
feed, the facets and the landing pages are operators over the listed jobs.

## What the runs check

Runs that must pass:

| Run | Shows | Bounds |
|---|---|---|
| `lifecycle` | `HeldUntilReviewed`, `RemovedIsHidden`, `NoSilentReturn`, `TransitionsAreLogged`, with a run, the sweep, a URL check and a request interleaved | 1 job, 1 run, 1 request, 3 postings (open, deadline ahead, flagged and overdue), clock to 1 |
| `lifecycle_live` | a republished job returns; an overdue one ends | 1 job, no request, clock to 2 |
| `dedup` | chains end, the loop advances, exactly the ends are listed, counters are covered | 4 jobs, 2 runs |
| `sources` | `FailingIsShown`, `CountersCover` | 1 source, 2 postings, 1 task at a time, 3 runs, thresholds 1 and 2 |
| `alerts` | `OneDigestPerJob`, `CopiesAccounted`, `RetriesEnd` | 1 alert, 2 jobs, 2 tasks, 2 attempts, 1 unrecorded copy per job |
| `api` | the promises of `Account` (`KeepsPromises`) with `SessionsBounded`, `ActiveIsVerified`, `FreshReads`; `CountersExact`, `AlertsBounded`, `CompletionMatches`; `RateBounded`, `WaitingHelps` | 2 requests, 3 tokens, 1 link, MaxSessions 1, 1 version; 2 users, 2 jobs, 2 calls, 2 alerts each, 5 payloads; a window of 2 seconds in 4 ticks, 2 peers of which 1 proxy, 1 cookie, 1 bucket before the cleanup |
| `posting` | `FieldsAgree`, `FlagsFound`, `KeysMerge`, `VerdictIsBest`, `ClassificationTogether`; `NothingMissed`; `WalkComplete`, `ListsAgree` | about 120 versions of a posting, 2 in a row; 7 postings of a source, pages of 2, at most 3 pages and 3 items, 2 closings; 4 jobs, 7 queries, 3 profiles, 2 slips |

Runs that must find a violation are disagreements between the code and what the
repository says of it:

| Run | What is said | What the code does |
|---|---|---|
| `review_gate` | flagged postings are reviewed, not published (`docs/LEGAL.md:83`) | one whose deadline has passed is created expired, and reactivated without review when the deadline moves |
| `two_admins` | a removed job is not resurrected (`routers/admin.py:297`) | a removal and a restore that both read a hidden row leave it removed but shown; ingestion reactivates it |
| `all_sources` | all merged sources are shown (`docs/SOURCES.md:172`) | when the new row becomes canonical, the link is recorded the other way round and the page shows none |
| `batch_isolated` | a persist error is rolled back individually (`docs/ARCHITECTURE.md:177`) | the postings persisted before it are lost as well |
| `signed_out` | a suspended user is signed out of all sessions (`routers/admin.py:542`) | only the access tokens end; a refresh token that was live at the suspension is exchanged once the account is restored |

Three more disagreements are visible in the models without a run of their own:

- `apps/worker/worker/celery_app.py:10` says a source is never fetched more
  often than its interval. Two coinciding beat entries enqueue it twice, and the
  task does not test again (`tasks.py:107`; `SourceRuns!Schedule`).
- `core/services/alerts.py:6` says a job is never sent twice for one alert. The
  mail leaves before the commit that records it (`tasks.py:224`), so a crash in
  between sends it again. `CopiesAccounted` says that this is the only way.
- `apps/api/app/routers/alerts.py:150` says no mail follows an unsubscribe. The
  retry task does not look at the alert (`tasks.py:253-268`;
  `AlertDispatch!RetrySend`).

### Why the bounds are enough

- *Jobs do not interact in `JobLifecycle`*: no guard or assignment of one row
  reads another, except that a check batch has a size. One job with every kind
  of transaction in flight therefore shows every interleaving on it;
  `UnseenAfter`, `RecheckAfter` 0 and `CheckBatch` 1 make every guard change
  its value within the two clock values. The proofs remove the bound for the
  safety properties.
- *Four jobs in `DuplicateLinks`* are one canonical row, two runs that replace
  it at the same time, and a posting that one of them matches afterwards with
  its outdated object.
- *One task at a time in `SourceRuns`*, because two overlapping runs of one
  source lose increments of the counters: the code writes absolute values. That
  is listed as a hazard; nothing in the repository promises otherwise. With two
  tasks TLC refutes both properties, which is why the theorems about them have
  `[]NoOverlap` as a hypothesis; they remove every other bound.
- *Two dispatch tasks, two notifications and one ingestion transaction in
  `AlertDispatch`* give every conflict of two digests, a job that commits after
  a cursor passed it, and a retry beside a dispatch. `MaxFaults` bounds the
  copies nobody records, which are unbounded in reality.
- *Two requests in `Sessions`*: whether a request is overtaken depends on one
  other commit. Three tokens are one that is rotated, the one it becomes and one
  of a concurrent login; with `MaxSessions` 1 the second session is already
  pruned. The proofs remove these bounds.
- *Two calls in `PersonalData`* are a double click, and two users one that is
  not concerned; the proofs remove the bound.
- *A window of four ticks in `RateLimiter`*, two to the second, has instants at
  which Retry-After is rounded and ones at which it is not; one bucket before
  the cleanup, with three identities, cleans at almost every request. The proofs
  hold of every window, also of one that is not a whole number of seconds.
- *The versions of `MCPosting`* vary one or two parts of a plain posting at a
  time, each over the cases its code distinguishes (a range the wrong way round,
  two cities, a hint against the text, a year where a salary is looked for); two
  versions in a row are what a refresh can mix.
- *Three pages of two* are a first, a middle and a last page; a source of five
  postings that opens up to two more and closes two moves every boundary.
  *Four jobs and two slips* do the same for a reader; the jobs tie in date, in
  quality and in skills.
- `MaxNow`, `MaxQueued`, `MaxRuns`, `MaxFaults`, `MaxVersion`,
  `MaxReports`, `MaxTime`, `MaxVersions`, `MaxClosings` and `MaxSlips` are bounds of the guards and
  not of the code; the systems may stop there, so deadlock is not checked.

Symmetry is used only in runs without liveness, over constants that are only
compared for equality.

### Fairness

Only `lifecycle_live` has liveness properties. `FairSpec` assumes weak fairness
of the steps beat starts periodically (`celery_app.py:55-98`), `IngestFetch`
and `SweepLoad`, and strong fairness of the steps that end a transaction: a
task may be killed at its time limit and start over, but is not killed every
time. Nothing is assumed of administrators, of the source or of the URL check.
`retry_failed_notifications` has no beat entry, so nothing is assumed of it
either.

## What is proved

TLAPS checks the theorems below for every value of the constants that satisfies
the assumptions of the modules. These say that what a proof counts is finite
(dispatch workers and notifications; calls, users and jobs of `PersonalData`;
tokens and requests of `Sessions`), that limits and lengths of time are numbers,
positive where zero would switch the behaviour off, and that the model values for
NULL are no values. The rest are about data that a proof computes with:

- a profile update carries numbers (`ProfileAssumption`), and `NoCall`,
  `NoRequest` are no calls or requests;
- amounts and dates of a posting are numbers or nothing, its names sequences of words,
  and a place that is wholly the name of a province has no city in its parts
  (`IsPosting`, in `PostingAssumption`): "Punjab" is not a city, and where one name
  is both (Islamabad), it is the same place;
- a stored job has an address, since `jobs.apply_url` is not null, and salaries above
  zero (`IsCandidate`); stored rows are distinct, as their keys are;
- the similarity of two texts is at most one and does not depend on which comes
  first (`IsSimilarity`): rapidfuzz is outside the repository;
- a catalogue is finite, the qualities in it are between 0 and 100
  (`ListingAssumption`): `PostingTypesHold` proves the bounds of what ingestion writes.

TLC evaluates all of them on the constants of the runs.

### JobLifecycle

- `TypeCorrect`: `TypeOK`.
- `ReviewIsKept`: `HeldUntilReviewed`, for any number of runs and
  administrators. The property is about a step, and what makes it true is what
  the transactions in flight remember. `HeldInv` says it: no memory of a row is
  older than its creation or its review, since no transaction but
  `IngestCreate` makes a row pending and it needs the row to be absent. From
  `TypeOK /\ HeldInv` every commit that leaves `pending_review` is one of an
  administrator.
- `StatusIsLogged`: `TransitionsAreLogged`. It needs no more than `TypeOK`,
  because a flush writes a status only if the transaction changed it, and whoever
  changes it in memory inserts the event that names the new status, in the same
  commit; what the row held meanwhile does not matter (`FlushedStatus`).
- `RemovedStaysHidden` and `RemovalIsFinal`: `RemovedIsHidden` and
  `NoSilentReturn` in every behaviour in which no two administrator requests are
  in flight about one job (`OneRequestPerJob`). The hypothesis is needed:
  `two_admins` is the counterexample without it. `RemovalInv` is the invariant: a
  request alone in flight about its job remembers `hidden_by_admin` as it is,
  because only administrators write it, so it never writes half of a decision.
- `ReviewGateInTime`: `ReviewGate`, the property that `review_gate` finds violated,
  in every behaviour that creates no flagged posting after its deadline
  (`FlagsInTime`), for any number of administrators. The run shows that such a
  posting gets past the review; the theorem, that nothing else does. `GateInv`
  says that a flagged row waits for its review or is hidden, and that whoever read
  it hidden still finds it so; `HeldInv` has the rest.

### DuplicateLinks

- `LinksTypeCorrect` and `ListedRowsAreRoots`: `TypeOK`, and `ListedIsRoot` for
  any number of jobs and concurrent runs. The property is
  not inductive, because `is_canonical` and `canonical_job_id` are two columns
  that a flush writes separately on top of what others committed. `LinkInv`
  adds what makes it so: every version of a row that a session holds is either
  an end or points to another existing row (`Sound`); a change of one of the
  two columns is a change of both (`Together`), because only the end of a chain
  is ever extended; written rows are locked to one run (`Locks`); and between
  the insert of a posting and its link nothing points to it (`LinkingInv`).
- `ChainsAlwaysEnd`: `ChainsEnd`. Committed rows alone are not inductive: a
  session may commit a pointer that it took from an outdated object. `Forward`
  therefore leaves no version out: a row *leads* to wherever its committed row,
  or the version that some session has written, loaded or changed, points, and
  no set of rows is closed under all of these together. It survives because a
  link adds one edge only, between the posting that is being linked, which has
  no other edge in any version (`PostingIsolated`), and the end of the chain.
- `LoopNeverTurnsBack`: `LoopAdvances`. The rows the loop of `_link_duplicate`
  has left are held by the session with the pointers it followed (`WalkInv`), so
  coming back to one would close a set under `Leads`.
- `EveryMergeRecorded`: every committed pointer to a canonical row has its
  `job_duplicates` row, in one direction or the other. `SourcesShownWithoutSwap`:
  in every behaviour in which no link swaps two rows (`NoSwap`), it is in the
  direction the detail page reads, so that `AllSourcesShown` holds: the swap of
  `all_sources` is the only cause of its counterexample. Both are one proof over
  one invariant, `NamedInv`, which says it of every version of a row that a
  session holds, with the links the session has not committed counted.
- `CountsAreCovered`: `CountCovered`. `CountInv` says it of every version of a
  row: in the table of the committed links, in a session of those and its own.
  Increments are lost when two sessions write; each is paid for by a link.

### SourceRuns

- `SourceRunsTyped`: `TypeOK`, whatever overlaps; no message is a retry beyond
  `MaxRetries`.
- `StreakIsShown` and `CountersNeverBehind`: `FailingIsShown` and
  `CountersCover` in every behaviour in which no two runs of one source overlap
  (`Spec /\ []NoOverlap`). Nothing in the code ensures `NoOverlap` (see the hazard
  at `tasks.py:107`), and it is needed: with two tasks TLC finds both properties
  violated, a streak written over a status of the other run and an increment
  lost. Crashes, redelivery, rollbacks of the session and administrators who
  enable or disable the source meanwhile are all covered. `HealthInv` says what
  a session remembers of a row nobody but an administrator has changed
  (`RunInv`) and that the rows it has flushed are no more than it counts
  (`AddedInv`).
- `RecordedBatch`: a run whose `SourceRun` row is still in its session commits
  every posting it persisted, whatever failed before. `BatchWithoutRollback`: all
  runs keep theirs (`BatchIsolated`) as long as no posting fails to persist
  (`NoRollback`), so that the rollback in the counterexample of `batch_isolated` is
  its only cause. `BatchInv` is the invariant: the postings counted as done are
  rows, in the session or committed.

### AlertDispatch

- `DispatchTyped`: `TypeOK`.
- `DigestsAreDisjoint`: `OneDigestPerJob`, for any number of overlapping
  dispatch tasks, together with
- `CopiesAreAccounted`: `CopiesAccounted`, and
- `RetriesAreBounded`: `RetriesEnd`. The three are parts of one inductive
  invariant, `DispatchInv`: a digest that fails at the commit does so because a
  committed one has a job of it, so disjointness decides which copies are
  recorded; a notification that was sent is never retried (`NoteInv`), so a retry
  adds no copy of one that is counted; a digest lists some job (`DigestInv`), and
  no cursor or time of a job is in the future (`ClockInv`).

### Sessions and personal data

- `PromisesKept`: `KeepsPromises`, so `Sessions` implements
  `Account` for any number of overlapping requests and any number of sessions,
  commits that were overtaken excepted. `SessionInv` is the invariant. `Fresh`
  says that a request nobody has overtaken remembers the account, its token and
  the sessions it closes as they are (this is `ReadsAreFresh`), and that those
  leave `MaxSessions` at most; `InFlight` keeps what admitted a request true of
  the account it remembers; `Unused` says that there are no sessions before
  there is an account. Given it, a lone commit writes exactly what its handler
  made of the account (`LoneFlush`), and each commit is one action of `Account`.
- `SessionsAreBounded`: `SessionsBounded`, by counting what pruning leaves.
- `ActiveMeansVerified`: `ActiveIsVerified`, which holds of overtaken commits
  too: a verified address stays verified, and whoever writes "active" writes the
  verification with it or read it.
- `SignedOutUnlessDisturbed`: `SignedOut` in every behaviour in which no
  administrator restores the account and no request commits that another has
  overtaken. `signed_out` shows that a restore is enough to violate it, since a
  suspension leaves the rows of `refresh_tokens` alone; the theorem, that one of the
  two is needed. The invariant, `OutlawInv`, is that the account is suspended while
  there is a session of before a suspension.
- `SessionsTyped`: `SessionTypeOK`.
- `PersonalTyped`: `PersonalTypeOK`.
- `CountersAreExact` and `AlertsAreBounded`:
  `CountersExact` and `AlertsBounded` for any number of users and calls. The
  limit counts the calls that are about to insert along with the alerts there
  are, which makes it inductive.
- `ScoreIsOfItsRow`: `CompletionMatches`. `ReadIsCurrent` is the invariant: a
  profile update that no other has overtaken remembers the row as it is, so the
  row it leaves is the one it computed the score of. `Completion` is the sum of
  twelve shares, and it reaches a hundred only when every share is there
  (`FullScore`).

### RateLimiter

- `LimiterTyped`: `LimiterTypeOK`.
- `ClientsAreBounded`: `RateBounded`. `LimiterInv` says that the deque of a
  client *covers* the requests it was admitted to within the window: they are its
  newest entries, in order. `popleft` then drops none of them, a deque that the
  cleanup drops covers none, and the length of the deque, which `Admit` tests, is
  a bound of their number.
- `WaitingIsEnough`: `WaitingHelps`. The same invariant has what a refused
  client was *promised* of a full deque: after the first refusal its oldest entry
  leaves the window less than a second after the time told, after the second
  before it, since the wait lasts a second at least. A third refusal would have
  found the entry gone.

### Fetching, Listings

- `NothingIsMissed`: `NothingMissed`. `FetchInv` says it of a fetch that is still
  reading: of the vacancies it has *passed*, on a page it has read or newer than one
  it has taken, it has missed no more than were closed. A posting that opens moves
  others down out of what was read (`FirstShrinks`), one that closes moves one up at
  most (`OneMovesUp`), and a page takes every vacancy on it until the limit, which
  cuts the oldest (`PageMisses`). A short page is the last one by counting
  (`ShortPart`): the first *k* of a list are *k* unless the list is shorter. Where
  this needs induction, the proof takes the least number that has a property
  (`LeastNumber`, from the well-foundedness of the naturals).

- `EveryPageRead`: `WalkComplete`, by the same counting, for every catalogue, query
  and size of a page. `WalkInv` counts what a reader has *overlooked*: jobs that
  matched all along, are now at a place of a page he has read, and were not on it. A job
  that comes moves others down into what was read, one that goes moves one out of it
  at most, and each of those is a slip. At the last page, which the count decides on
  before the rows are read, nothing is left to stand behind. The jobs that tie with
  another are not counted, because the order of ties is open to the server at every
  statement.
- `ListsOfAnyCatalogueAgree`: `ListsAgree`. A feed is put in order twice, by the
  server and by score, and widened once; `ListOf` says of each of these lists that it
  holds the members of a set, each once. A match is a share of a share: `ScoreIs`
  bounds each part and then their sum, so the score stays within its scale.

### Normalizer, Classifier, Assessment, Posting

`PostInv`, the invariant of the state machine, is short: a normalised job is made of
the version at hand, and a row whose last version was kept has the classification of
that version. The work is in the lemmas about the functions between them.

- `PostingTypesHold`: `PostingTypeOK`. `ScorePair` is a weighted mean, so at most one;
  `Quality` adds shares and subtracts penalties between two bounds, and confidence is
  cut off below one.
- `FieldsOfAnyPostingAgree`: `FieldsAgree`. `LookupFinds` says where the value of a
  place was found; the amounts of a text are numbers of it, in order once swapped.
- `AnyFlagFound`: `FlagsFound`. A flag that is not the category joins three others at
  most, so it is within the four that are kept (`FlaggedIs`); a government job that is an
  internship too comes fifth. A label that is not trusted gives way to the flag
  (`TrustedIs`).
- `KeysOfAnyNameMerge`: `KeysMerge`. Two names that differ in their suffixes end
  in the same word that is none (`SuffixesMerge`): the loop removes suffixes of one word
  or two, takes only words of suffixes, and stops at a word that is none, wherever the
  turns of the two names cut. The loop is counted down by the words it leaves
  (`StripIs`). Words that are dropped leave the others in one order
  (`IncreasingAgree`), which is why a key computed again is the same.
- `VerdictOnAnyPostingIsBest`: `VerdictIsBest`. The fold over the candidates keeps the
  first of the best so far (`SearchFindsBest`).
- `ClassificationOfOneVersion`: `ClassificationTogether`. The columns of the
  classification are never empty, so a refresh writes all of them or, when the version
  is rejected, none (`ClassRefreshed`).

No lemma needs induction over data: the recursion of these operators is a recursive
function over positions, and where a proof goes along them it takes the least
position that fails. The sorting and the selecting of the community modules are folds
and recursive operators that the provers cannot unfold; `Ordering` states both by the
places of the elements.

### Only model-checked

- Liveness (`RepublishedReturns`, `OverdueEnds`): out of the prover's reach.
- That the properties of the `violation` runs fail: their counterexamples are the
  runs. What the theorems add is when they hold.

## What is not modelled

- *Regular expressions, dictionaries, HTML*: the pipeline modules start from the
  words a pattern finds. That a pattern finds the right ones is for unit tests.
- *`core/services/skills.py`* (`job_skills` rows), *company records*, *analytics*,
  *mails*, *serialisation*: written once and read by nothing modelled here.
- *Passwords, JWTs, cookies, the OAuth exchange, account deletion*: encodings, or
  one cascade of the schema.
- *Storage and AI adapters, configuration, migration, scripts, web frontend*: no
  state that others depend on, or no caller in the repository.
- The counts of a `SourceRun` and `prune_old_data`.

Of some behaviour met on the way no property is stated, because nothing in the
repository promises otherwise:

- `retry_failed_notifications` has no beat entry (`celery_app.py:55`).
- Marking a failed notification as read ends its retries.
- A partial profile update can leave a salary range the wrong way round: only a
  range given in full is put in order (`apps/api/app/routers/profile.py:48`).
- Two overlapping runs of a source lose increments of its counters.
- A job whose ingestion commits after a digest moved its cursor is passed over
  (`core/services/alerts.py:74`).

## Plan

Written, in this order: `JobLifecycle`, `SourceRuns`, `AlertDispatch`,
`DuplicateLinks`; `Sessions` with `Account`, `PersonalData`, `RateLimiter`;
the pipeline from `Fetching` to `Listings`; and the proofs above. What is left:

1. Composition of links and lifecycle: the page that a reader of a merged job is
   led to, once the canonical row is expired, hidden or no longer the end of its
   chain.
2. Abstractions of `JobLifecycle` (a job as a member of {held, public, gone}) and
   of `AlertDispatch` (a digest recorded once), as `Account` is one of `Sessions`.
3. Liveness of sources: an enabled, reachable source is run again.

## Running

    tlc -workers 2 -config MCJobLifecycle.cfg MCJobLifecycle.tla
    tlapm JobLifecycle_proofs.tla

A `.cfg` belongs to the MC module whose constants it uses; `PROJECT.json` pairs
them. The passing runs take up to about two minutes each, a proof module up to about five
minutes.
