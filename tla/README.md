# Verification of Listarr

Listarr is a Flask application that fills Radarr and Sonarr from TMDB lists.
This directory holds TLA+ models of its core, the TLC configurations that check
them on small instances, and TLAPS proofs of what matters most for every
instance. Paths below are relative to the repository root (`src/` in
`PROJECT.json`).

Check everything from this directory:

    tlc -workers 2 -config JobExecutorOne.cfg JobExecutorMC    # one run
    tlapm JobExecutorProofs.tla                                # one proof module

`PROJECT.json` lists the runs, the mutants that show that each property can
fail, the lines of code behind each definition, the findings and the hazards.

## 1. Inventory

The application runs in two gunicorn worker *processes* of four request threads
each (`config/gunicorn_config.py`); there is no preload, so each process calls
`create_app`. One process, the first worker, also runs the APScheduler thread.
The processes share the SQLite database and nothing else.

| Component | State | Operations | Talks to |
|---|---|---|---|
| Job executor (`services/job_executor.py`) | per process: thread pool, `_stop_events`, `_submit_lock`; per job: `ActivityTracker`, stop event, monitor thread | `submit_job`, `_execute_job`, `_monitor_idle`, `_mark_job_*`, done callback | jobs table, import service |
| Jobs table (`models/jobs_model.py`) | rows with status and `list_id`; partial unique index "one running row per list" | insert, status updates, deletes | everything that shows jobs |
| Activity routes (`routes/activity_routes.py`) | none | clear all or one list's history, rerun, pages | jobs table, `submit_job` |
| Start-up (`__init__.py`) | `SCHEDULER_WORKER` | `create_app`, `recover_interrupted_jobs`, schema changes | jobs table, scheduler |
| Import service (`services/import_service.py`) | one call: pages, batch, seen ids, `ImportResult` | `import_list`, TMDB paging, settings rules, the two item loops, the two flushes | Radarr, Sonarr, TMDB cache, stop event |
| Scheduler (`services/scheduler.py`) | APScheduler job store (one process), paused flag, timezone it last saw | init, load, schedule, unschedule, reconcile, timezone poll, pause, resume, `_run_scheduled_import`, cron translation | lists table, `submit_job`, timezone record |
| List routes (`routes/lists_routes.py`) | lists table | wizard, edit, delete, toggle, run, status, schedule, pause, resume | scheduler, `submit_job` |
| Settings routes (`routes/settings_routes.py`) | service and app configuration rows | save services, general settings (timezone), import defaults | timezone memo, scheduler |
| Timezone memo (`utils/time_utils.py`) | per process: cached record and a generation | resolve, invalidate, state | app configuration row |
| TMDB cache (`services/tmdb_cache.py`) | per process: TTL caches under one lock | a getter per feed, keyed by page and region | TMDB client |
| TMDB, Radarr, Sonarr clients | a shared HTTP session | stateless requests with timeouts; retries of GETs only | the services |
| Authentication, encryption, frontend, deployment | one user row, one key file, none | forms, Fernet, templates, containers | - |

What is hard:

* **Threads of one process.** Submitter, worker, idle monitor and done callback
  of a job share a stop event that is found by job id, and ids come back when
  the history is cleared (SQLite reuses `INTEGER PRIMARY KEY` values).
* **Two processes.** Locks, stop events, the job store, memo and caches are per
  process; only the database is shared. Recovery at boot is run by both.
* **Failure between two steps.** A commit may raise, a thread may not start, a
  process may die between the commit of a running row and the end of its job.
* **Time.** The idle clock runs while a job waits in the queue and while a
  bulk request (timeout 300 s, as long as the idle timeout) is on its way.
* **Two readings of one text.** Users are shown what cronsim makes of a cron
  expression, APScheduler fires by its own reading, a translation in between; a
  setting passes a column, a form or JSON, a page and back, each with another
  notion of "nothing", and what cannot be fetched at that moment looks like nothing.
* **Partial results.** A TMDB request that fails reads as an empty page. A bulk request may be carried out and still fail; other
  imports and users change the library between the query and the request.

What makes each component correct:

* executor: at most one import per list; every running row settles; every event
  and monitor thread goes away; a settled job stays settled; clearing never
  touches a running job;
* import: every processed item is in the result, once, and the result tells the
  truth about the library;
* scheduler: a list on which nobody works has exactly the job of its row; the
  job store converges to the committed timezone; jobs of deleted lists leave;
* timezone memo: nothing older than the last invalidation is kept or answered;
* cron expressions: a list runs on the POSIX days of its expression, an accepted
  expression stays accepted, what was previewed takes place;
* settings: a page that is saved keeps what its user has not changed, and an
  import uses what the page showed;
* paging and TMDB caches: a list imports the top of the ranking of its own feed and
  region, without gaps and in full, and not older than the caches promise; what a
  failure may change is only what the failing call was for.

## 2. Modules

| Module | What it is |
|---|---|
| `JobTable` | abstract: what readers of the jobs table may rely on (`Spec`), and what is left of it under database faults and sibling processes (`LooseSpec`) |
| `JobExecutor` | submitters, worker threads, monitors, processes, recovery, clearing; implements `JobTable` |
| `JobExecutorMC` | symmetry for TLC |
| `JobExecutorProofs` | theorems about `JobExecutor` |
| `ImportRun` | one call of `import_list` against a library that others change |
| `ImportRunMC` | symmetry for TLC |
| `ImportRunProofs` | theorems about `ImportRun` |
| `TzMemo` | the timezone setting and its memo in each process |
| `TzMemoProofs` | theorems about `TzMemo` |
| `Scheduler` | lists, job store, poll and the routes that change schedules; composes `TzMemo` and implements its specification |
| `SchedulerMC` | threads, what they serve, and starting rows for TLC |
| `SchedulerProofs` | `Scheduler` implements the memo's specification |
| `SchedulerStoreProofs` | types of `Scheduler`, and that the job store follows the rows |
| `CronField` | day-of-week fields: POSIX reading, translation, APScheduler's reading |
| `CronDays` | one list whose cron is validated, stored, scheduled, reconciled and fires, day by day |
| `CronDaysMC` | twenty expressions for TLC |
| `CronDaysProofs` | the translation is exact; theorems about `CronDays` |
| `ListSettings` | overrides of a list, import defaults, and the pages that write them |
| `ListSettingsMC` | starting rows and symmetry for TLC |
| `ListSettingsProofs` | theorems about `ListSettings` |
| `TmdbFeed` | the page loop of an import or preview and the caches that threads share |
| `TmdbFeedMC` | feeds and rankings for TLC |
| `TmdbFeedProofs` | theorems about `TmdbFeed` |

`JobExecutor` and `ImportRun` meet at `FinishImport`: `JobExecutor` lets an import take any
time and end with a result or an exception; `ImportRun` opens that step up, and
its `Stop` is the `MonitorFires` of `JobExecutor`. `TmdbFeed` produces the items
that `ImportRun` starts from, `ListSettings` the settings it sends, and the
`schedule_list` of `Scheduler` succeeds for the crons that `CronDays` accepts.

### JobExecutor and the code

A *task* is one call of `submit_job`. Its three threads have a control point
each (`submitter`, `worker`, `monitor`); the points lie where another thread can
get in between: around lock acquisition, each query, each commit, each dictionary
operation under `_stop_events_lock`, each thread start.

| State | Code |
|---|---|
| `jobStatus`, `jobList` | columns of `jobs`; "none" is an absent row |
| `owner` | history: the task that inserted the row |
| `procState`, `toRecover` | a worker process: down, inside `create_app` with the rows read by `recover_interrupted_jobs`, serving |
| `submitLock`, `stopEvents`, `queue` | `_submit_lock`, `_stop_events`, queue of the pool, per process |
| `stopped`, `monitorStop`, `idle` | the two events and the tracker of a job |
| `clearing` | ids read by `_clear_jobs` and not deleted yet |

Every `if`, early return and `except` of `submit_job`, `_execute_job`,
`_mark_job_*`, `_monitor_idle`, `recover_interrupted_jobs` and `_clear_jobs` is a
disjunct. `Mark` deserves a note: a query that raises leads to the `except`
clause of `_execute_job`; a flush or commit that raises leaves an SQLAlchemy
session that refuses further work until a rollback, and there is none, so that
`_mark_job_failed` raises as well. `submit_job` reads `job.id` after its commit, which is a
query: if it raises, the row stays and no task gets it (`InsertRow` under `DbMayFail`).

Abstracted: counters, messages and `JobItem` rows (data written together with
the status); the three kinds of `_mark_*` differ only by status. A read and a
write by primary key within one `_mark_*` call are one step. Time passes in
units of `Elapse`; the 30 s polling of the monitor is its freedom to wake late.
A row that was deleted is `None` for `_mark_*`, which then does nothing. Crashes
are those of whole processes.

### ImportRun and the code

An item is a position in the list TMDB returned, so that "counted twice" and
"lost" are about items even when TMDB repeats an id. `target` and `idIn` say
whether the library knows the item by its TMDB id (Radarr) or by a TVDB id
(Sonarr; two TMDB ids may share one, and some have none). `added`, `skipped` and
`failed` count the entries of each item in the three lists of `ImportResult`.
`library` remembers what this import put there, whatever the answers were.

One action per way through the loop (`NoTmdbId`, `Duplicate`, `NoTvdbId`,
`NotWanted`, `NotFound`, `Queue`), one each for the stop check, the end of the
loop, and the flush with and without an exception. A failing bulk request may
have been carried out for any part of the batch. The loop for movies and the one
for series are the same but for `NoTvdbId`. A pass through the loop body is one
action: between its stop check and its end it reads nothing that others write.

Abstracted: titles and payloads, delays, the activity tracker (it is `ImportItem`
of `JobExecutor`), and exceptions from malformed answers inside the loop, which
end the call without a result (`FinishImport` of `JobExecutor` has them).

### TzMemo, Scheduler and the code

`TzMemo` is `_get_timezone_record` cut where the lock is released: look up, read
the database, store unless the generation has moved, return. A setting carries
the number of saves before it, which the code does not keep; it tells which of
two records is older. A database error reads as "no setting" and is memoized.

`Scheduler` adds the rest. Every thread runs a request whose steps are the
commits, re-reads and job store calls of the route; `ProcOf` says whether it runs
in the process that has the scheduler, elsewhere `schedule_list` and
`unschedule_list` do nothing.

| State | Code |
|---|---|
| `row` | `schedule_cron` and `is_active` of each list, or no row |
| `paused`, `apPaused` | `service_config.scheduler_paused`, or no row of `service_config` yet; APScheduler's own state |
| `job` | the job store: cron and zone of the job `list_<id>` |
| `schedTz`, `lastTz`, `lock` | `scheduler.timezone`, `_last_reconciled_tz`, `_reschedule_lock` |
| `req` | where a thread or the poll is, and the locals it will still use |
| `gone` | lists whose scheduled run has found no row and has not removed the job yet |
| `excused` | history, see below |

The columns an UPDATE names are those the request changed (SQLAlchemy's unit of
work), so that two edits of one row may merge (`Written`). A new list takes the
id after the largest one, so the id of the last list comes back once it is deleted.

`excused` holds the lists whose job may differ from their row: since two actors
worked on the list at a time (`Contended`), since another process changed the row
(`ChangedElsewhere`), since the row could not be read again after its commit
(`Unread`: the routes refresh it before they call `schedule_list`), since
the deletion failed after the job was removed (`HalfDeleted`), or since
no list could be loaded at the start (`RestartFails`). A reconcile that starts alone on a
list ends its excuse. `StoreFollowsRows` says that these are the *only* ways in
which job store and table part; `JobsMatchRows` is the same without the
excuse, which the code does not keep (section 6). A start that loads nothing is repaired by the first tick of the poll, which
finds no zone remembered and reconciles; a row that was not read again waits for the next reconcile.

`_tz_poll` is a job of APScheduler itself: it does not run while APScheduler is paused
(`PollReads`). `pause_scheduler` and `resume_scheduler` store the flag only if `service_config` has a row
(`ConnectService` adds it) and pause or resume APScheduler in any case.

Reductions. Taking the reschedule lock and reading the rows under it are one
step, and so is applying all rows: no other step looks at the job store of two
lists, and the poll skips when it sees the lock held. A commit that fails changes
nothing and ends the request, so that only the failures after something has been changed are
actions: `EraseFails` after the job was removed, `RereadFails` after the row was committed,
and the reads of timezone and rows that leave a reconcile undone. A scheduled run of a list that exists changes nothing in
this module. Cron expressions are valid values; which ones are is the subject of
`CronDays`. When the scheduler's process dies its replacement runs no scheduler
(`config/gunicorn_config.py:71`), until `Restart`.

### CronField, CronDays and the code

`validate_cron_expression` has cronsim compute the next three runs, builds an
APScheduler trigger from the translated expression and accepts it only if the trigger
has the same three. `schedule_list`, `reconcile_scheduler_jobs` and the
loading at start-up each validate again, *on the day they run*. That is why an
expression is not simply valid or invalid: the two libraries disagree about
three kinds of expressions, and three days that agree today may differ next week:

* `Mixed`: both the day of the month and the day of the week are restricted (cronsim
  takes either, APScheduler requires both);
* months written as names with a step (`jan-dec/2`; cronsim keeps the step, APScheduler drops it)
  or with an end in digits;
* a weekday of one week of the month (`mon#1`): the translation does not know `#` and passes the whole field
  through, APScheduler reads every Monday, and digits beside it in its own numbers.

`Plain` excludes the last two. What the properties say of expressions that are not plain is that their
previewed runs take place.

| State | Code |
|---|---|
| `now` | the date; the calendar repeats after `7 * MonthLen * YearLen` days |
| `cron`, `active` | the row of the list |
| `pending` | a route has committed and not called `schedule_list` yet |
| `job` | the expression of the trigger in the job store |
| `shown` | `next_runs` of the validation that the user was shown |
| `ran` | history: the list was imported on the day that has just passed |

`CronField` is one day-of-week field: a sequence of terms (`*`, number, name,
range, each with a step or without, or a day with `#`). `PosixDays` is cronsim's reading in one week of the month, `ParseTerm`
and `TermParses` are `_parse_posix_dow_term`, `Translated` is the digit test before it and the `except` after it, `ApDays`
and `ApBuilds` what APScheduler does with the result, or with the field as it was. Two libraries are external; their readings were taken from
the way the code and its tests use them. Left out are `friL`, which APScheduler refuses
wherever it stands, and a range from a day to itself, which is written as the day.

Abstracted: hour and minute are fixed and today's is still to come, so a day is one
step; months have one length; a field for the day of the month is the set
of days it names, with a flag for a leading `*` (what both libraries look at to
tell "restricted") and one for syntax that APScheduler does not have (`L`); a field for the month is the
two sets of months that cronsim and APScheduler make of it. Clocks are not set forward or back: an hour
that is skipped or comes twice is not in the model.
Zones are in `Scheduler`.

### ListSettings and the code

| State | Code |
|---|---|
| `row` | the `override_*` columns and `sonarr_monitor_mode` of one list |
| `defaults` | the `MediaImportSettings` row of the service, or none |
| `served`, `tagOf`, `lastTag` | what the Sonarr server knows: folders and profiles, tags by label |
| `page` | per browser tab: which page, what its fields hold, what the user has touched |
| `page[t].kept` | `dataset.restoreValue` of the search field of the settings page |
| `page[t].snap`, `.tagId` | locals of `edit_list` between its read of the row, its calls to the server, and its commit |
| `page[t].opened`, `.seen`, `missed` | history: the row and defaults when the page was opened, whether a call failed or the server lost something |

`OpenEdit`, `OpenWizard`, `FetchDefaults`, `OpenSettings` are the GET requests,
`Change*` what a user does (with the rule of the wizard's script that a
choice equal to the default is stored as no override), `BeginEdit`/`CommitEdit`,
`SubmitWizard`, `SubmitSettings` the POST requests. `edit_list` is two steps because it waits
for the server between reading the row and writing it; SQLAlchemy writes the columns
that differ from the row as it was read. All three pages disable the mode of what is not
monitored, and search-on-add of that and of mode "none" (`Gated`). The edit page and the wizard leave the value as it is;
the settings page sets a search that it disables to "false", keeps the old value and
brings it back when the field is enabled again, when it loads and after every change of Monitor or of the mode (`Gate`);
what it shows is what it sends. `Used` is `resolve_import_settings`.

Reductions. Root folder and quality profile behave alike and are one field
(`option`); `season_folder` behaves like `monitored` but for the rules of
`_reconcile_*`. The module is about Sonarr; Radarr has the same columns but
the modes and the season folder. Credentials are always there. At the start the server knows
every stored tag; later it may lose them.

### TmdbFeed and the code

A thread that runs `_fetch_tmdb_items` (`Import`) or `wizard_preview` (`Preview`)
goes through the pages; each page is one call of a cached getter:

| Step | Code |
|---|---|
| `Find`, `Miss` | the lock is taken and `cache_key in cache` tested |
| `Read`, `Lapse` | `cache[cache_key]` under the same lock; `TTLCache` looks at the clock once more, and a key that expires in between raises `KeyError` |
| `Fetch` | the request, without the lock; a failed one reads as an empty page |
| `Store`, `Empty` | the answer is stored under the lock, unless it is empty |
| `Take` | part of each of them: the page is added, and the loop ends or goes on |

| State | Code |
|---|---|
| `entries`, `lock`, `now` | the caches of the process, `_cache_lock`, the clock of `TTLCache` |
| `region` | `ServiceConfig.tmdb_region` |
| `pass`, `page`, `got`, `answer` | locals of the loop: feed, limit and region; page number; `all_items`; the answer not stored yet |
| `place` | the region in the key and the request of the page, as `_get_tmdb_region` gave it |
| `missed`, `strayed` | history: a request, a query for the region of this loop has failed |

The eight getters have one shape, and the map cites a different one of them for each
step. Every page of a feed that has a region queries it again (`Locate`, part of the step that goes on to the
page). The caller keeps the TMDB row alive in its session, so SQLAlchemy answers with
the attributes it has read before: as long as the query succeeds a loop
sees the region of its beginning. A query that fails reads as "worldwide" for
that one page, in the key and in the request (`RegionRead`). Storing drops what has expired and one more
entry if the cache is full, any one (`Put`): which one does not matter to the
properties. An older answer may overwrite a newer one; `AnswersAreFresh` holds
nevertheless, because an entry's age counts from its request.

Abstracted: items are a feed, a region and a rank, a feed is a list type with its filters.
TMDB's ranking does not change while the model runs; what a change between two pages
does is TMDB's matter. Caches are per process, so one process is the whole.

## 3. Runs

Submissions, imports, requests and saves are bounded, so the configurations of
`JobExecutor`, `ImportRun`, `Scheduler` and `ListSettings` switch the deadlock check off: once
everything is over nothing is left to do. It is on in `cron` and `feed`.

| Run | Instance | Shows |
|---|---|---|
| `one` | 1 process, 2 tasks, 2 lists, 2 pool threads, 1 clear request, 1 crash | types; no list is imported twice at once; nothing takes the list between check and INSERT; every running row has a task (or recovery) that settles it; the threads implement `JobTable` |
| `faults` | 2 processes, 2 tasks, 1 list, 1 clear request, 1 crash, faults of database and threads | the unique index alone keeps one running row per list across processes; clearing never deletes a running row; the threads implement the weak table of `JobTable`: a row may get a second outcome, but never runs again |
| `live` | 1 process, 2 tasks, 1 list, 1 pool thread, 1 crash | every running row settles, every stop event is removed |
| `live_faults` | as `live`, no crash, faults of database and threads | every submission ends, every monitor ends, and a job's monitor finds the job's event while no history is cleared |
| `import` | 2 ids, up to 4 items, batches of 2, Radarr and Sonarr | no item is lost, counted twice (before a stop) or misreported |
| `scheduler` | 2 processes, 3 threads, 1 list, 2 requests, 2 saves, 1 fault, 1 crash; a service is connected | types; job store and table part only in the ways that `excused` names; memo and reads never go back behind a save |
| `scheduler_live` | the same processes, 3 requests: pause, resume, connect, delete and 1 save; 1 fault | a scheduler that is not paused forever ends up in the committed zone; jobs of deleted lists leave; every request ends |
| `cron` | 20 expressions, months of 8 days, years of 2 months (a calendar of 112) | previewed runs take place, whatever the expression; no scheduled list waits forever; a list runs on the POSIX days of its plain expression, one that restricts the days in one way stays scheduled once accepted, all processes name the same next run of it |
| `list_settings` | 2 tabs, 2 options, 1 label, 2 rows, defaults or none, 2 changes, 2 saves | no page erases or changes what its user did not touch unless a call failed; an import uses what the page showed |
| `feed` | 2 threads, 2 feeds, 1 region and worldwide, pages of 2, limits 2 and 3, caches of 2 entries | entries are what their keys say; a loop returns the top of the ranking in the saved region, in order and in full, unless a request or a query for the region failed in it; answers are fresh; every loop ends |
| `double_flush`, `edit_elsewhere` | the smallest instances | the findings of section 6 |

Bounds. Two tasks are two submissions for the same list or for two lists,
whichever TLC picks, so both sides of every race between two jobs occur; with two keys
a cleared id comes back. One crash gives a restart in every state. One unit of
idle time separates "idle" from "active"; an item resets it. Four items with
batches of two give a full batch, a rest, a full batch at the very end,
duplicates inside and across batches, and a stop at each point. The theorems
remove these bounds. In `scheduler` one list is enough because no step relates
two lists; two requests at a time, with the poll and a firing job beside them,
give every pair of actors on the same list, and `OpsOf` lets each pair of kinds
that touch the same state meet in two threads. Two zones (the fallback and another one)
tell a missed change from an applied one; the setting also takes the value NULL.
In `scheduler_live` three requests are a pause, its resume and the save or deletion they overlap with;
ids do not come back there (nothing creates lists) and one save cannot overtake another: `scheduler` has both.
In `cron`, months of 8 days make every weekday meet every day of the month within 56 days, and its second week has one day, so that
a first Monday is sometimes followed by one in the second week; of two months one is odd. The
expressions are chosen one per rule of the translation (both Sundays, ranges up to 7, steps
on ranges, numbers and `*`, names, mixtures, `#` alone and beside digits), per refusal (backward ranges, days that no month
has, `L`, `1#1`), per way to restrict both kinds of days, and for months that are read alike and not. In `list_settings` a
second save is what the first one can damage, the defaults are gated when the settings page opens, and two
changes open the gate and close it again. In `feed` the rankings end with a page, within a page and after the
limit; caches of two entries, or three keys for one of them, make eviction happen; the shorter time to
live is shorter than the clock, so entries expire between every two steps.

Fairness (`FairSpec` of `JobExecutor`). Submitters, worker threads, monitors, free pool threads
and `Elapse` are weakly fair: they are operating system threads and a clock,
and an enabled one is eventually run. `FinishImport` is part of the worker's
fairness because an import handles finitely many items and every HTTP call has a
timeout (`services/http_client.py`). A process that is down boots again because
gunicorn replaces dead workers. Nothing is assumed to make anyone submit, clear
or crash. `SubmissionsEnd` needs only weak fairness on the lock because with two
tasks the lock is not contended again and again.

Fairness of `Scheduler`: threads run, the poll has its interval
(`services/scheduler.py`, 300 s) and a job with a cron comes due, both unless APScheduler is
paused, which stops them: `ZoneConverges` therefore asks for a scheduler that lives and in the end is not paused. Nothing makes a
request arrive, a memo expire or a call fail. In `CronDays` only days pass. In
`TmdbFeed` a running thread goes on, with weak fairness for the lock
because it is free again after one step, and the loops of others are bounded; neither
time nor new loops are assumed. `ListSettings` has no fairness: users need not do anything. `RequestsEnd` with weak fairness
on the lock is right because the poll takes it only when the zone has changed,
which the bound on saves makes finite.

## 4. Proofs

All theorems hold for any number of processes, tasks, lists and keys (or ids,
items and batch size), without bounds on the run.

`JobExecutorProofs`. Everything rests on `TypeOK`, `Placed` (a submitted task has a process
and a list) and `Life` (a worker thread exists only after its submission,
unfinished work only in a process that serves), which need no assumption.

Where the code keeps a promise only under conditions, the theorem is about any number of processes and
names the condition as a rule for steps; a second theorem shows what is enough for the rule:

| Rule | Says | Kept if |
|---|---|---|
| `RunningRowsAreKept` | clearing deletes no running row | `OneClearer` (`ClearKeepsRunning`), or `KeysNew` (`NewKeysKeepRunning`) |
| `RecoversTheDead` | a booting process fails only rows of processes that are gone | `OneProcess` and the rule above (lemma `RecoveryByOneProcess`) |
| `KeysNew` | no key is given twice, as AUTOINCREMENT would have it; the table does not | `NewestKept` (lemma `NewestKeptNewKeys`) |
| `NewestKept` | the newest row is never deleted; the next key is the one after it, so none comes back | nobody clears (lemma `UnclearedKeepsNewest`) |

| Theorem | Assumes |
|---|---|
| `TypeCorrect`, `RunningRowsUnique`, `SubmitLockHeld`, `QueuesAreExact`, `OnlyFailedStartsLeak` | nothing: any faults, crashes, processes, clears |
| `EventsAreCleaned` | threads can be started |
| `StopEventsReachable`, `MonitorsStopOwnJobs` | `KeysNew` |
| `NewestKeptSuffices` | `NewestKept` |
| `UnclearedEventsReachable`, `UnclearedMonitorsStopOwn` | no clear request |
| `CheckSuffices` | one process |
| `ClearKeepsRunning` | one clear request at a time |
| `NewKeysKeepRunning` | `KeysNew` |
| `ExecutorImplementsLooseTable` | `RunningRowsAreKept` |
| `FaultyImplementsLooseTable` | one clear request at a time |
| `ImportsUniqueAmongProcesses`, `ProcessesImplementTable` | no database fault, `RunningRowsAreKept`, `RecoversTheDead` |
| `ImportsUnique`, `ExecutorImplementsTable` | one process, one clear request at a time, no database fault |
| `RunningRowsSettled` | no database fault, threads can be started |
| `RowsHaveSettlers` | the same, and one process |

The inductive invariants behind them:

* Imports and the refinement: `RowHeld` (an unsettled task holds its running row). That a task
  in the middle of its import still holds its row depends on what clearing and recovery may do, which is
  what the two rules say. For the refinements `AbsentUnlisted` is added (an absent row has no list).
* Stop events: `EventsHaveCleaners` (what is registered under an id is the event of that job's own task,
  which still has its cleanup before it, or could not start a thread and leaves its event for good), with `KeysDistinct` and `Registered` (two watched tasks have
  two ids; a watched task is registered). The ids are distinct because of `KeysNew`, or because
  the newest row is an upper bound of all ids in use (`NewestBounds`).
* Clearing: with one request, `ClearingSettled` (rows about to be deleted are
  settled); with several, `Past`: the ids a request has read belong to rows that have been inserted before,
  so that none of them can run again.
* Queues: `QueuesExact` is inductive.
* `RunningRowIsSettled`: the task of a running row is at work, or its process is gone
  or has read the row for recovery.

The assumptions are needed, as section 6 tells.

`ImportRunProofs`. `TypeCorrect` includes that no item ever has more than two entries. `Counted` (an item has no entry before the loop reaches it;
until a stop is seen it has one entry or waits in the batch; after that at least
one) gives `NothingLost` and `NothingCountedTwice`. `Reported` and `SeenQueued`
(queued items have an id in the library, are in `seen` and have distinct ids;
what is in the library because of this import has an entry) give
`AddedWasImported`, `ImportedWasReported` and `AddedOnce`.

`TzMemoProofs`. `MemoIsCurrent` is inductive only with `ReadersAreCurrent` (a read
that would still be stored, because its generation is the memo's, is not older
than the last save of its process) and `NothingAhead` (generations only grow and
nothing is saved that is not committed). It gives `MemoCurrent`.
`SchedulerProofs` shows that every step of `Scheduler` is a step of `MemoSpec` or
leaves the memo alone (`SchedulerImplementsMemo`), so that the memo's theorem
holds there too (`SchedulerMemoCurrent`). No assumption but those on constants.

`SchedulerStoreProofs`. `SchedulerInv` is `Shaped` (types, and what a control point
says of a request: who is about to touch the job store runs in a living scheduler
process and holds a zone that loads) and `Good` for every list that is not
excused: `Exclusive` (at most one actor works on it) and what that actor knows
(`Knows`: between commit and job store call the row is still the one it has
written; a reconcile between reading and applying holds the current row; a list
whose run found no row still has none). `StoreFollowsRows` is not inductive without it: it says
nothing while somebody works. `ActorStep` reduces every step of a thread or the
poll to what it does to its own list. Theorems `ScheduleTypeCorrect` and `StoreFollows`, again without
further assumptions. Three more about what the routes and the poll share:

* `ReconcilesLocked`: `_reschedule_lock` is held by whoever applies rows, and by nobody else, through
  failed reads, deaths and restarts. This is the safety half of `RequestsEnd`.
* `RememberedZoneIsApplied`: when the zone that the poll remembers is the one of the setting, all lists that are not
  excused and on which nobody works have the job of their row *in that zone*. This is the safety half of
  `ZoneConverges`: a poll that rests has nothing to do.
* `PausesFollowTheFlag`: a scheduler that the database calls running is not paused in
  APScheduler, if `service_config` has a row from the start (`Configured`) and no pause or resume starts between the commit and the call of another (`PausesApart`).
  The converse does not hold: a restart resumes APScheduler and leaves the flag, which the
  scheduled runs then obey.

`CronDaysProofs`. `TranslationIsExact` is about fields without `#`, of any length with any steps: where
both libraries accept a field, the trigger fires on exactly its POSIX days. It rests on
`EveryNthOfInterval` (every n-th element of a sorted interval is the set of
those at a distance divisible by n, which is what the code's slice relies on) and one lemma for
parsed and one for untranslated terms. It gives `FiringIsPosix`, and with the
invariant `CronInv` (what is stored or scheduled was accepted on *some*
day) `AcceptedStays`: for a plain expression that restricts the days in one way, acceptance does not
depend on the day. `NextRunsAgree` follows from the same: fewer days
mean a later next one, and a next day exists because a nonempty set of numbers has a least one.
`ShownRunsTakePlace` follows a preview through the days: as long as the stored cron is the scheduled one, a previewed day
that comes is a day of the trigger. Its invariant `ShownInv` (every day still shown is one on which APScheduler
reads the stored cron to fire) holds at the preview because validation compares the two readings (`ShownAreFired`), and
each day it moves along with the calendar and across its end (`ModShift`). No assumptions but those on constants; `cron` evaluates
the operators of the translation through the properties of its runs.

`TmdbFeedProofs`. `FeedInv` joins `EntryIsTrue`, `KeptForTtl` (no entry
outlives its time to live), `LockOK` (the lock is held by the thread that has
found its key, and that key has an entry) and `ThreadOK`, the state of each loop: before a page `p`
it has exactly `p - 1` full pages, every item in its rank (`InOrder`) and, until a query for the region
fails (`Located`), in the saved region; and something is missing only if the page
that ends the loop was. `TakesTheTop` and `FullUnlessMissed` speak of finished loops only
and need it; arithmetic lemmas relate pages to the limit for every page size. The theorems hold for
any number of threads, feeds, regions, pages and cache sizes.

`ListSettingsProofs`. `SettingsInv` joins the types, `ServerOK` (a stored tag is one that
the server has, unless it has lost something) and, for the page of every tab,
`PageOK`: a field that the user has not touched shows what was stored when the page
was opened, converted as that page converts it; the label shown and the id stored
belong together (`TagShown`), the search of the settings page is in the field or kept aside (`SearchKept`), and so do the label and the id that the edit page
has fetched before it writes (`TagResolved`). That a save keeps the untouched fields
(`OverridesSurvive`, `DefaultsSurvive`) then rests on the two conversions of each page being
inverse to each other, and on tags keeping their ids while other
tabs create new ones. `ImportsUseWhatIsShown` needs no history of the page: both
resolutions, of the page and of the import, are shown equal field by field. The theorems hold for any number of tabs,
options, labels and saves; no assumptions but those on constants.

Only model-checked: liveness (`JobsSettle`, `StopEventsDrain`,
`SubmissionsEnd`, `MonitorsEnd`, `ZoneConverges`, `OrphansLeave`, `RequestsEnd`,
`ScheduledListRuns`, `LoopEnds`), which the provers do not cover. Every other property of a passing run
is stated by a theorem. Only proved: `TypesHold` of `TmdbFeedProofs`, and the properties that the proof
modules define themselves (TLC agreed with each on a small instance before it was proved).

## 5. Not modelled

* Login, first-run set-up, encryption, deployment, dashboards, pages that only
  read, schema changes, the command line: sequential code over single rows, or pure I/O.
* The HTTP clients, but for their answers and failures (`ImportRun`,
  `ListSettings`, `TmdbFeed`); connection tests and the saving of credentials. The
  latter matter to lists only in that stored tag ids and profiles belong to the old server.
* `get_executor`'s unlocked creation of the pool: the model starts with one pool per process.
* The two inserts of a first save of import defaults in two threads: `ListSettings` saves
  in one step.
* Times of day, leap days and daylight saving in cron expressions, and `misfire_grace_time`. What the properties
  of `cron` say of days they do not say of a night in which the clock is changed.
* The TMDB details caches, their statistics and `clear_all_caches`: only tests call them.
* `genre_ids` of filters stored by older versions, which the preview honours
  and the import does not; no code of this version writes them.

## 6. Findings

* `double_flush`: a batch flushed for the stop event is not reset and is flushed
  again after the loop; its items are sent and counted twice.
* `edit_elsewhere`: a schedule changed through the process that does not run the
  scheduler is committed and reported as saved, and the job that fires stays as it
  was until a restart or a change of the timezone.

Seen on the way. Each of these is behaviour that the model has; a property or a theorem
is stated with the assumption that excludes it.

* Every booting process fails *all* running rows, those of a live sibling worker included
  (`listarr/__init__.py:389`); the list can then be submitted and imported
  a second time while the first import is at work. The theorems name the rule that would do, `RecoversTheDead`: with it imports are unique among any number of
  processes. (`ImportsUnique`: one process.)
* The done callback removes the stop event by job id, and the monitor sets it by id; after a
  clear the id may belong to a new job, which loses its idle timeout or is stopped for
  another one. A key comes back only if the newest row is
  deleted: AUTOINCREMENT, or a clear that spares the newest row, would be enough. (`StopEventsReachable`, `NewestKeptSuffices`.)
* Two overlapping clears and a reused id let `_clear_jobs` delete a running job.
  (`ClearKeepsRunning`: one clear at a time; `NewKeysKeepRunning`: any number, without reused ids.)
* A flush or commit that raises while the outcome is written leaves the row running, because the
  handler uses the same session without a rollback; an error while `last_run_at` is
  written turns a completed job into a failed one. (`RowsHaveSettlers`: no database fault.)
* A thread that cannot be started leaves a running row behind the answer "Failed to start job".
* A job of a sibling that completes between a booting process's query and its commit is turned into a
  failed one; its row never runs again, though. (`ProcessesImplementTable`, `ExecutorImplementsLooseTable`.)
* A pause and a resume that overlap may reach APScheduler in the other order than the database: the page
  says running and nothing fires. Nothing serializes them. (`PausesFollowTheFlag`.)
* Without a row in `service_config` a pause stores no flag and pauses APScheduler all the same: the page says
  running. (`PausesFollowTheFlag`: `Configured`.)
* While the scheduler is paused the timezone poll is, too: a zone saved in the other process is applied after the
  resume. (`ZoneConverges`.)
* A query that fails between the commit of a schedule and the call of `schedule_list` leaves the old job; the route
  answers with an error. (`Unread`.)
* Two edits of one list in two threads, or an edit during a reconcile, may leave the
  older schedule in the job store. (`excused` in `Scheduler`.)
* An entry that expires between the membership test and the lookup raises
  `KeyError`, which the callers do not expect: an import fails, a preview answers 500 (`Lapse`).
* A query for the region that fails turns one page of an import into a page of the worldwide ranking,
  between pages of the saved region: items of the region are left out, others come in, and some may come
  twice. (`TakesTheTop`: `strayed`.)
* A failed TMDB request ends the loop over pages like the end of a ranking: the import
  is shorter and reported as complete (`FullUnlessMissed` says: only then).
* An expression that restricts both kinds of days is accepted if the next three days
  happen to agree; a later validation may refuse it and drop or keep its old job, and
  fewer days fire than POSIX names. (`AcceptedStaysScheduled`: not `Mixed`.)
* So is `jan-dec/2` in the months in which it agrees, and `mon#1,mon#2,mon#3` before the first Monday. Until a
  later validation refuses it and removes its job, the list also runs on days that POSIX does not
  name. (`Plain`.)
* The docstring of the translation (`services/scheduler.py:211`) says that `mon-fri/2` has
  no digit, is left alone and loses its step in APScheduler; its step is a digit, so it is translated
  and runs on the right days.
* The settings page sends a search-on-add that it has disabled as "no": saving anything on it while
  Monitor is No or the mode is "none" erases a stored "yes", which lists that override Monitor and the mode
  would have inherited. The server's comment wants the raw choice stored verbatim
  (`listarr/routes/settings_routes.py:698`). (`UntouchedDefaultsSurvive`: `Gated`.)
* While the server does not answer, the edit page shows no folder, profile or tag, and
  saving anything erases those overrides; a tag that cannot be created is saved as no
  tag and the answer is success. (`missed` in `UntouchedOverridesSurvive`.)

## 7. Plan

Done: `JobTable`, `JobExecutor`, `ImportRun`, `TzMemo`, `Scheduler`, `CronDays`,
`ListSettings`, `TmdbFeed`. What is left, in this order:

1. `JobExecutor`: the lazy creation of the pool; list deletion during an import.
2. Credentials: a service whose address changes under lists and defaults.
3. `Scheduler`: pauses and resumes that overlap, as a run of their own.
4. Proofs: the safety halves of the remaining liveness properties (what a waiting
   submitter, an orphaned job and a loop over pages wait for), and bounds on what they count.
