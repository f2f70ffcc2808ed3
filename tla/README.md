# Verification of zwfm-aerontoolbox

TLA+ models of the Aeron toolbox, a Go service beside the Aeron radio system:
it backs up the database, watches files, checks playlist audio, mails about
failures and serves an HTTP API. Each module names in its header the file it
models; `PROJECT.json` ("map") gives the lines of every definition.

Run TLC with `tlc -config MCBackup.cfg MCBackup.tla` and the like, and the
proofs with `tlapm RunnerProofs.tla` and the like.

## The system

| Component | State it keeps | Operations | Interacts with |
|---|---|---|---|
| Runner (`internal/async`) | closed flag, running flag, WaitGroup, context watchers | TryStart, Go, Done, Context, GoChild, TryGoBackground, Close | every service below |
| Backup service (`service/backup.go`, `s3.go`) | backup directory, status, bucket | Start, Run, Delete, upload, retention, Close | Runner, pg_dump, pg_restore, S3, notifier |
| File monitor (`service/filemonitor.go`) | alert state, grace flag, published results and run ids | TriggerCheck, Status, Close | Runner, stat flights, notifier |
| Stat flights (`service/statflight.go`) | one flight per key | startOrJoin, waitStatFlight | file monitor, media check |
| Media check (`mediacheck.go`, `mediamatch.go`) | published results, run ids, roots, file index | trigger, Status, Close | Runner, stat flights, database, notifier |
| Maintenance check (`maintenance.go`) | none | Health, CheckHealthAndAlert | database, notifier |
| Notifier (`internal/notify`) | one flag per signal, last error | Notify..., SendFile..., Close | Runner, mail client |
| Secret expiry (`notify/expiry.go`) | cached answer, its age, refreshing flag | Info, refresh | Graph, health endpoint |
| Scheduler, `main.go`, `service.go` | cron jobs, root context, deferred closes | Start, Stop, shutdown order | all services |
| Rate limiter (`api/ratelimit.go`) | window and count per client | allow | HTTP middleware |
| HTTP API (`server.go`, `handlers.go`) | the shared database ping | health, images, triggers, listings | all services |
| Images (`media.go`, `image.go`, `repository.go`, `validators.go`) | Aeron's rows | upload, delete, read, count | database, web |
| Configuration (`config.go`, `timewindow.go`) | fixed after load | Load, getters, validate, Contains | everything |

What is hard in it: the Runner's lock-free flag beside a locked one and a
WaitGroup; goroutines that outlive the run that made them (uploads, remote
deletes, mails, hung stats, expiry lookups); deletes by users between the steps
of a backup; alert state that spans many runs, windows and restarts; snapshots
and counts read while runs begin and end; times read before a lock; one
database ping shared by requests whose clients go away; uploads that span
several statements and outlast the server's write timeout; and shutdown at any
moment and on two paths. "hazards" in `PROJECT.json` lists these at their lines
with the properties that cover them.

What makes each component correct:

- Runner: one primary operation, an exact WaitGroup, and a Close() that joins
  everything and returns.
- Backup: no run harms another run's file, retention is bounded and keeps a
  restorable backup, only validated dumps are reported and uploaded, the bucket
  follows the directory, shutdown waits for uploads and deletes.
- File monitor: alerts and recoveries alternate, /health and mail agree, a
  restart is silent, run ids name the results shown with them and complete.
- Stat flights: a frozen mount costs one goroutine and one timeout per path.
- Media check: a verdict is true of the disk or an error, a clean check found
  everything, /health and the mails mean the same scheduled run, runs end
  although stats and walks hang (not if opening a drive does).
- Notifier and maintenance: flags and mails agree, a lost mail shows, and work
  that a health check finds is mailed about.
- Process: it stops (unless a media check never ends), the services are closed before the database, and what
  still runs then has one of the known causes.
- API: a window grants its budget and no more, refusals are earned, health
  answers are true of the time of the ping, an acknowledged image is stored.
- Configuration: what validate accepts is what the models assume.

## The modules

**Runner** is the whole of `runner.go` at the grain of its atomic steps: the
reservation under closeMu, the compare-and-swap, the WaitGroup's Add, Done and
Wait, the select of the context watcher. `pc` is where each thread of control
is, `ctx` and `watching` the context and watcher of a primary body, `cpc` each
call of Close(). The WaitGroup is modelled from its documented behaviour (Done
to zero wakes every Wait). Calls that fail because the Runner is closed change
nothing and are left out. Context() is called at most once by a body, as its
users do.

**ShutdownGate** is what a user of the Runner may rely on: admission while
open, one primary, children only from a primary, and a shutdown that completes
only when all is gone. `Runner!ImplementsGate` maps `tracked` to the threads
that hold a slot and `phase` to the closed flag and the returned Close() calls.
Backup, FileMonitor and Notifier use the gate's actions for their Runner, so
the refinement proof is what lets them leave the Runner's inner steps out.

**Backup** has one action per step of `execute`, `cleanupOldBackups`, the upload
and delete goroutines and the two delete entry points. A file is a name and its
content (partial, corrupt, valid); names are numbers in the order of time. A
dump that exits with 0 may still be corrupt; a user may delete a file while
pg_dump writes it; pg_dump may then recreate the path. A failed upload may have
stored the object. An upload reads the file when it opens it. `expired` is the
set of files older than the retention period; the current run's file does not
age during its own run (days against minutes). `status` holds what
/api/db/backup/status shows and `failing` the notifier's two flags. A crash
keeps the directory and the bucket, may complete a dump or an upload that was
under way, and forgets the rest. S3 and notifications are configured.
`orphanCause` is a history variable.

**FileMonitor** has TriggerCheck, the steps of executeRun, the publication under
the write lock, Status under the read lock as two reads (the runner's atomic
flag, then the guarded fields), Close and a restart. The result of a stat is
stale or not, and the set of paths whose window is active is chosen anew in
every run. publishedMu is a writer-preferring RWMutex, as Go's is.
**AlertPairing** is the abstract promise: per path, alerts and recoveries
alternate, beginning with an alert. `FileMonitor!ImplementsPairing` maps the
mails dispatched to it.

**StatFlight** counts time in ticks. A stat may hang for ever, a goroutine may
start late, a check may queue after its run began, and a timer fires on its
tick; when a timer and a result are both ready either wins.

**MediaCheck** has a run as the steps of executeRun, and beside it a worker per
item (the paths one after another, each with its stat flight, then the index),
the goroutines of the flights, which go on after the run has closed its root,
and the single build of the index. Opening the drive (`OpenRoot`) is a step of
its own that need not end: `os.OpenRoot` has no timer and no context. A stat is
the start on an open or closed root, the moment the file system looks, and the
return to those who wait. Files below the drive come and go (`PathChanges`), and
`held` is the history by which verdicts are judged: for each path, what an honest
stat could tell the current run, which is what was so at some moment since the
run began, or what a flight of an earlier run had already found out when this
one began and may yet join. The search directories hold still. Of an item the
index keeps the number of files with its full name and of others with its stem;
an index that is cut short, because directories are unreadable one by one or the
wait ended, may lack any of them. The run's context and the timers end a wait at
any moment, so they are not variables. Starting, refusing and closing are module
Runner's: a trigger is one step here.

**Maintenance** holds the conditions of `convertTableRow` and
`generateRecommendations` over a report of tables, sessions and connections.
Percentages are float64 in the code. One that is not whole compares as the exact
quotient does; one that is whole may come out just above or below itself, and the
`rounding` of a table or a report says which (29 of 100 connections count as 28).
**Notifier** extends it: the decision under stateMu, the hand-over after the
unlock and the goroutine that sends, with failing sends and shutdown in between.
Signals are the flags of the notifier; one of them is fed by health checks with
any report, and NotifyHealthCheckError is a failure report. The endpoint's flags
and the advice that makes a mail call the same helpers, so they cannot disagree
on a threshold; `MaintenanceMailed` says that a report in which a flag or a long
query shows is mailed about, and stays so while other reports are decided.

**Shutdown** composes `main.go`, the scheduler and `AeronService.Close()`: cron
with any set of jobs, the runs they start, the health check that runs in its
job's own goroutine, the listener and its handlers, a signal, and the main
goroutine with its two drains, their timeouts and the deferred closes. The gate
of a service has ShutdownGate's phases. `Start()` writes `s.server` without
synchronisation, so `Shutdown()` may or may not see a server that is built but
does not listen yet. `excuses` and `dropped` are history.

**HttpServer** is what handlers share (how long a request has been handled and
its status code). **RateLimiter** reads the time first and takes the mutex
later; the sweep is part of the admission that triggers it. `start` and `opened`
are history. **Health** has the shared ping, the details read one lock at a
time, the cached expiry and its refresh goroutines. **Images** has an upload as
its steps (body, lookup, download and optimisation, update), the other image
endpoints as one statement each, and Aeron, which adds and removes rows
meanwhile. A statement that reports an error may have been carried out. **Api**
is the router: `/health` is public, all else passes the limiter, then the key
check, then its handler.

**Resize**, **TimeWindow** and **Config** are functions with reference
definitions: the pixel limit without overflow, the resized sides, windows around
midnight, defaults, durations of 64 bits (`Wrap`, each setting with its unit) and
what `validate` accepts.
A floating-point product is any integer the rounding can give (the exact floor,
or one less where the product is whole).

Operators introduced by "a bug to catch" are variants of the action after them,
each with a plausible mistake; the model does not use them. "mutants" in
`PROJECT.json` says which property refutes which.

## The runs

| Run | Bounds | Shows |
|---|---|---|
| runner | 3 threads, 2 Close() calls, fair | SingleFlight, CloseJoins, NoAddFromZeroAfterClose, CloseReturns, refinement of ShutdownGate |
| backup | 2 callers, 2 runs, max_backups 1, user deletes, disk faults | status, notifier and bucket agree with the files; Close() joins |
| backup_retention | 1 caller, 3 runs, max_backups 2, 1 crash, two runs in a second | retention's bound, the last good backup, no damage to other files |
| backup_live | 2 callers, 2 runs, fair | Close() completes, uploads are reported |
| backup_synced | 1 caller, 2 runs | violated: an older upload marks a newer backup as synced |
| file_monitor | 2 paths, 2 triggers, 1 reader, 3 runs, 1 restart, fair | pairing, grace run, consistent snapshots, runs complete |
| stat_flight | 1 path, 2 callers, 3 flights, timeout 2, 5 ticks | one goroutine and one timeout per path |
| media_check | 2 items, a path that comes and goes, 3 contents of the search directories, 2 runs, fair | true verdicts, clean checks found everything, /health and mail agree, runs complete unless opening a drive hangs |
| notifier | 2 signals, 2 reporters, 4 mails, 12 reports, fair | flags and mails agree, work found is mailed about, every mail ends |
| shutdown | any set of jobs, 1 request, 1 run per service, fair | the process stops unless a media check never ends, closes the database last, drops no run's mail |
| api | 6 workloads of up to 4 requests, fair refreshes | budgets, refusals, true health answers, kept images, refreshed expiry |
| upload_whole | 1 workload of 2 requests | violated: a download cut at the limit is stored |

Why the bounds are enough to see the cases that matter. Runner: a primary, a
loser of the swap and a child or background goroutine at once, with a second
Close() that finds the first one's work; the theorems lift the bound. Backup:
an upload of run 1 that meets every step of run 2, a conflict of two callers,
and with three runs and two kept files a retention step with more to delete than
one file. File monitor: the grace run, an alert, a recovery, twice over a
restart, with the second trigger in conflict. Stat flights: a creator, a joiner
and a later run, with time for two timeouts. Media check: a run whose stats
hang and a second one that joins them; an item tried twice below the drive, its
two references writing the same path, while the file appears or goes in between;
an item that goes to the index at once; no search directories, two files with the
stem alone, and one with the full name beside them, so that an index cut short
can miss the name and see one or two of the others. Items with several different
paths are left to the theorems. Notifier: two
reports of one signal that overlap, and reports on each side of every threshold
that decides between advice and none. Shutdown: each job may be in each of its
steps when main is in each of its; a second run changes nothing that a first
does not show, and the theorems lift the bound.

Api: the components share no variable but the requests, so a product of all
loads would only multiply their states. A workload lets in the requests, and the
part of the environment, that concern one of them: four requests against the
limiter (two windows, a refusal, a sweep, a request that stalls at the mutex),
two that pass it to a handler, two health probes that share a ping while the
database changes and a client leaves, one detailed probe while the file monitor
publishes, three while the expiry ages, two editors of one row. A query that
stalls longer than two seconds is "slow". The cached expiry does not age between
the store and the reset of the flag, which are microseconds apart and an hour is
meant.

`MaxRuns`, `MaxStarts`, `MaxCrashes`, `MaxRestarts`, `MaxFlights`, `MaxTime`,
`MaxMails`, `MaxCopies`, `MaxFlips`, `MaxPublishes`, `MaxAges`, `MaxAeron` and the sizes in a
workload are bounds of the model, not of the program. `MaxStall` is an assumption
on the program's environment: a request waits for the limiter's mutex no longer
than a window lasts. Deadlock is not checked: every model may stop when its
bounds are used up or the service is closed; the liveness properties say what
may not get stuck.

The type invariant of a module is named `TypeOK` (`LimiterTypeOK`). It is proved
where there are proofs about the module; no run lists it.

`MCApi` and `MCFileMonitor` carry assumptions (`BoundedSizes`, `BoundedWindows`,
`BoundedConfigs`) in which TLC compares the functions of Resize, TimeWindow and
Config with their reference definitions on all small inputs.

Fairness. Goroutines are scheduled, so every step a goroutine can take by
itself is weakly fair. External tools, uploads, deletes, lookups and mails end
because each runs under a context with a timeout. Not fair: new requests,
handlers, the queries of a health check, timeouts of a primary body (shutdown
must reach it through its watcher), users, crashes, stats, and the opening of a
drive by a media check, so that neither `OpenRoot` nor, in Shutdown, the work of a
media check need end. The walk of the search directories need not end either;
the wait for it does, by its timer. Calls on the backup directory and on search
directories other than the walk are taken to return. Readers of publishedMu
release it.

## The findings

1. `setS3SyncStatus` does not know which backup it speaks about: the upload of
   one backup writes its verdict into the status of the next
   (`backup_synced`).
2. The download of an image URL is cut at its limit without an error. Any other
   image then fails to decode, but one of exactly the target size is stored as
   it arrived, cut, with a 200 (`upload_whole`).

Observed while modelling, and not stated as a run:

- The comment of `mediaCheckRunTimeout` (`mediacheck.go:25`) says that it bounds a
  run end to end. `buildMatcher` opens the drives under neither that context nor a
  timer: on a frozen mount the run may go on for ever, hold its slot and keep
  Close() waiting. `RunsComplete` and `Stops` except such a run.
- A remote delete can overtake the upload of the same file; the object then
  stays in the bucket although no delete failed, and the comment at
  `backup.go:667` names only failure as a cause. `OrphansExplained` lists the
  race among its causes.
- `notifyOnTransition` is documented to mail the first failure
  (`notify/service.go:109`); it mails every failure. The other documents do not
  promise otherwise.
- The server's write timeout is shorter than the read timeout of an upload, so
  the answer to a slow upload, also the 408, never reaches its client
  (`ImageKept` allows for that). The download of a backup clears its deadline.
- A failed expiry lookup replaces a good cached value for an hour, in which the
  health endpoint does not warn.
- The health endpoint's `problems` are those of the last scheduled run; the
  comment at `handlers.go:53` says the most recent completed run.
- Durations in the configuration have no upper bound; one beyond 64 bits wraps.
  `ValidSupportsModels` therefore speaks of durations that fit.

## The proofs

Every theorem holds for every value of the constants that meets the module's
named assumptions.

`RunnerProofs`: for every finite set of threads and every set of Close() calls,
what `runner` checks on three threads, and the refinement of ShutdownGate. The
only assumption is `ProcsFinite` (so that the WaitGroup's counter is a number).
None of the properties is inductive alone. CloseJoins needs that a Close() which
returned saw the counter at zero, that the counter is exact (WgCounts), that
nothing is added from zero once closed is set, and that a watcher is only there
while it is counted. The inductive invariant `IInv` is the conjunction of these
with the types and SingleFlight; each action is a step of the proof. The
refinement follows from IInv: a step of a thread is the gate's step of the same
name or a stutter, and the last Done() that wakes a Close() is the gate's Leave
that completes the shutdown.

`ShutdownProofs`: the database is closed last, late work has its excuse, the
mails of runs are kept and no timeout is burned. The invariant says how far
`closing` has come in `CloseOrder`, that a closed gate has nothing behind it, and
that main only passes a drain when it is over or excused.

`BackupProofs`: Close() joins everything, the status and the notifier's flag are
true of the disk, and a validated file is lost only to a delete somebody asked
for, whoever crashes, deletes or collides on a name. The invariant has a part
about the gate (every goroutine is tracked, the primary is the one caller with a
run, and each caller without a name will find one: `Room`) and a part about what
the run's own file may hold at each step (`Target`), which needs that the run is
alone.

On top of it stands what retention needs (`Retained`). No file is newer than the
current run's, and that one does not age during its run, so the first pass
spares it; the second pass spares the newest. Between the listing and the end of
a cleanup no other run can create a file, so what the second pass does not mean
to delete stays within the limit (`Quota`). That this is so when the listing is
taken is a fact about finite sets (`SurplusLeaves`): the oldest file that is kept
has fewer than max_backups newer ones, and every other kept file is one of them.
RetentionBound is proved where no removal fails (`~DiskFaults`, a file that cannot
be removed stays), NeverLosesLastBackup where no user deletes (`~UserDeletes`),
each with everything else allowed.

RemoteValidated and OrphansExplained are proved unless two runs can begin in one
second and users delete (`~(SameSecond /\ UserDeletes)`), by two invariants. With a
second for each run, upload n is about file n and nothing is sent of a file that
is still written (`Bucket`). Without deletes by users, names may collide, but what
has been sent under the current name is a validated file that is still there, so
O_EXCL refuses the name to a later run (`Shared`). With both, the properties are
false: a run takes over the name of a deleted backup and its partial file is
picked up by the older upload.

`FileMonitorProofs`: snapshots are consistent, /health and the mails agree, the
first run is silent, and the mails implement AlertPairing, for any paths,
triggers and readers. `ReadersSafe` says why a reader that saw no run may read
the ids later: the next run cannot take its number before the lock is released.
`Balanced` counts alerts and recoveries with those that a run has decided and not
dispatched yet; `Quiet` keeps them empty in the first run. The module also holds
the theorems about its configuration: a time window is active from its start
until its end, and what validate accepts meets what the models assume of their
constants.

`StatFlightProofs`: one goroutine per path and one timeout per hung stat, for
any paths, callers, timeout and number of runs. The invariant makes the map and
the live goroutines each other's mirror, and keeps every waiter's deadline
within the budget of its flight while a late goroutine may still move the start
of that budget, only ever forward.

`NotifierProofs`: flags and mails agree, no mail is sent after Close(), losses
show, and work found is mailed about whatever the thresholds. It needs that a
mail is held by one reporter, and that the gate tracks exactly the mails being
sent.

`MediaCheckProofs`: when a run publishes, its verdicts are true of the disk or say
that they are not, a check published as clean has found everything, and /health
and the mails agree, for any finite set of items, any paths, disks and number of
runs. The first two are action properties, because files that come and go make an
old result stale. The invariant follows the truth from the flights (`FlightsTrue`:
whoever joins a stat hears an error or something in `held`) through the worker of
an item (`WorkerTrue`: without a failure it has ruled out the paths behind it, so
only then does it ask the index) and the index (`IndexTrue`, `Part`: it has no more files
of an item than there are, and all of them if it is complete) to the result. An index cut
short can hide some of the copies, also those under the full name while others
with the same stem are seen; `Phases` says that such a run publishes with an
error, which is what VerdictsMatchDisk then asks for (`Miscounted`).

`ApiProofs`: inside the whole API, a window grants at most its budget and
refusals are earned, for any keys, hosts, requests, limit and window. The hard
part is a bucket that a sweep has forgotten: `Latest` says that it then had no
window for more than two window lengths, so that no request stamped up to
`MaxStall` ago can still belong to one and be given a second budget. The count of
an entry equals the number of requests its window admitted (`Counted`). For the
health endpoints: a ping has seen the state the database is in and answers only
those who wait for it (`PingSees`), and the first count a request has read is of
the published run or an older one (`FirstCount`). For the images: a request is
with one handler (`OneHandler`), is stored in the step that ends it (`UploadTrue`),
and a picture in a row names such a request. The assumption on a workload that
its requests are of the router's kinds is `WorkloadAssumption`. The module also
holds the theorems about module Resize: the pixel limit, the refusal of images
that would vanish, and that all others keep a pixel per side and fit the target.

Model-checked only: liveness (CloseReturns, UploadsReported, CloseCompletes,
RunsComplete, MailsEnd, Stops, StaleRefreshed), which is out of TLAPS's reach. Every
invariant and every other action property of a passing run, and both refinements,
are theorems; the two properties that a run shows violated are not.

## What could come next

SyncedMeansUploaded and UploadWhole under the conditions that exclude the
findings (one run at a time with its upload, no download at the limit); the
parsing of Windows paths in `mediamatch.go`; a refinement of the limiter by an
abstract budget.

## Not modelled

Listings of entities and playlists, SQL text, mail texts, the arguments of
pg_dump, the on-demand validation and the download of backups (they change
nothing), the parsing of JSON, of times of day and of drive letters, pixels and
encoding, and the libraries (cron, the S3, Graph and database clients), which
appear only through what the code relies on. The test mail goes straight to the
client and touches no state. Metrics and logging are left out.
