------------------------------ MODULE Shutdown ------------------------------
(***************************************************************************)
(* main.go, internal/service/scheduler.go and AeronService.Close(): how    *)
(* the process stops.  The main goroutine drains the scheduler and the     *)
(* HTTP server, each with a timeout, then its deferred calls close the     *)
(* services one by one and the database last.  Jobs, requests, runs and    *)
(* mails go on meanwhile.  The gate of a service is its async.Runner, with *)
(* the phases of ShutdownGate.                                             *)
(***************************************************************************)
EXTENDS Integers, Sequences

CONSTANTS Requests,     \* HTTP requests, each made at most once
          MaxStarts     \* bound: runs of one service

ASSUME ShutdownAssumption == MaxStarts \in Nat

Jobs == {"backup", "health-check", "file-monitor", "media-file-check"}
Runners == {"Backup", "FileMonitor", "MediaFileCheck"}
Services == Runners \cup {"Notify"}

VARIABLES main,       \* where the main goroutine is
          cancelled,  \* the root context, which is the parent of the jobs' contexts
          server,     \* api.Server
          jobs,       \* s.jobs: registered by NewScheduler
          ticking,    \* the cron instance starts jobs
          job,        \* the cron goroutine of each job
          gate,       \* the runner of each service
          run,        \* the primary operation of each service
          starts,     \* runs each service has begun
          mails,      \* who has a mail in flight
          db,         \* the connection pool
          req,        \* where the handler of each request is
          excuses,    \* history: why work may outlive what it uses
          dropped     \* history: whose mail was dropped

process == <<main, cancelled, excuses>>
cron == <<jobs, ticking, job>>
work == <<gate, run, starts, mails, dropped>>
http == <<server, req>>
vars == <<process, cron, work, http, db>>

Reporters == Runners \cup {"health-check"}

TypeOK ==
  /\ main \in {"serving", "draining", "stopping", "closing", "last", "exited"}
  /\ cancelled \in BOOLEAN
  /\ server \in {"unborn", "built", "listening", "stopped", "failed"}
  /\ jobs \subseteq Jobs
  /\ ticking \in BOOLEAN
  /\ job \in [Jobs -> {"idle", "running", "reporting"}]
  /\ gate \in [Services -> {"open", "closing", "closed"}]
  /\ run \in [Runners -> {"idle", "working", "reporting"}]
  /\ starts \in [Runners -> 0 .. MaxStarts]
  /\ mails \subseteq Reporters
  /\ db \in {"open", "closed"}
  /\ req \in [Requests -> {"none", "handling", "done"}]
  /\ excuses \subseteq {"drain timeout", "shutdown timeout", "serve failure", "unseen server"}
  /\ dropped \subseteq Reporters

(* NewScheduler registers what is enabled; Start() runs cron only with jobs. *)
Init == /\ main = "serving" /\ cancelled = FALSE /\ server = "unborn"
        /\ jobs \in SUBSET Jobs
        /\ ticking = (jobs # {})
        /\ job = [j \in Jobs |-> "idle"]
        /\ gate = [s \in Services |-> "open"]
        /\ run = [s \in Runners |-> "idle"]
        /\ starts = [s \in Runners |-> 0]
        /\ mails = {} /\ db = "open"
        /\ req = [r \in Requests |-> "none"]
        /\ excuses = {} /\ dropped = {}

Alive == main # "exited"

-----------------------------------------------------------------------------
(* Runs and their mails. *)

CanStart(s) == gate[s] = "open" /\ run[s] = "idle" /\ starts[s] < MaxStarts

Begin(s) == /\ run' = [run EXCEPT ![s] = "working"]
            /\ starts' = [starts EXCEPT ![s] = @ + 1]

(* sendAsync: admitted by the runner of Notify or dropped.                  *)
SendAsync(w) == /\ w \notin mails
                /\ IF gate["Notify"] = "open"
                   THEN mails' = mails \cup {w} /\ UNCHANGED dropped
                   ELSE dropped' = dropped \cup {w} /\ UNCHANGED mails

(* A scheduled backup runs in the goroutine of its job. *)
Release(s) == /\ run' = [run EXCEPT ![s] = "idle"]
              /\ job' = IF s = "Backup" THEN [job EXCEPT !["backup"] = "idle"] ELSE job

(* A run ends its work with something to mail or with nothing. *)
Work(s) == /\ Alive /\ run[s] = "working"
           /\ \/ run' = [run EXCEPT ![s] = "reporting"] /\ UNCHANGED job
              \/ Release(s)
           /\ UNCHANGED <<process, http, jobs, ticking, gate, starts, mails, db, dropped>>

Report(s) == /\ Alive /\ run[s] = "reporting"
             /\ SendAsync(s)
             /\ Release(s)
             /\ UNCHANGED <<process, http, jobs, ticking, gate, starts, db>>

Deliver(w) == /\ Alive /\ w \in mails
              /\ mails' = mails \ {w}
              /\ UNCHANGED <<process, http, cron, gate, run, starts, db, dropped>>

-----------------------------------------------------------------------------
(* The scheduler.  SkipIfStillRunning: a job that runs is not started again. *)

Ticks(j) == Alive /\ ticking /\ j \in jobs /\ job[j] = "idle"

(* runBackup: a refused run ends the job at once. *)
TickBackup == /\ Ticks("backup")
              /\ CanStart("Backup")
              /\ Begin("Backup")
              /\ job' = [job EXCEPT !["backup"] = "running"]
              /\ UNCHANGED <<process, http, jobs, ticking, gate, mails, db, dropped>>

(* runTriggered: the run is the service's, the job is over. *)
TickTrigger(j, s) == /\ Ticks(j)
                     /\ CanStart(s)
                     /\ Begin(s)
                     /\ UNCHANGED <<process, http, cron, gate, mails, db, dropped>>

(* runHealthCheck: queries and decides in the job's own goroutine, which no *)
(* runner tracks.                                                           *)
TickHealthCheck == /\ Ticks("health-check")
                   /\ job' = [job EXCEPT !["health-check"] = "running"]
                   /\ UNCHANGED <<process, http, work, jobs, ticking, db>>

CheckHealth == /\ Alive /\ job["health-check"] = "running"
               /\ job' = [job EXCEPT !["health-check"] = "reporting"]
               /\ UNCHANGED <<process, http, work, jobs, ticking, db>>

AlertHealth == /\ Alive /\ job["health-check"] = "reporting"
               /\ \/ SendAsync("health-check")
                  \/ UNCHANGED <<mails, dropped>>
               /\ job' = [job EXCEPT !["health-check"] = "idle"]
               /\ UNCHANGED <<process, http, jobs, ticking, gate, run, starts, db>>

-----------------------------------------------------------------------------
(* The HTTP server.  Start() assigns s.server without synchronisation.      *)

BuildServer == /\ Alive /\ server = "unborn"
               /\ server' = "built"
               /\ UNCHANGED <<process, cron, work, db, req>>

ListenAndServe == /\ Alive /\ server = "built"
                  /\ server' \in {"listening", "failed"}
                  /\ UNCHANGED <<process, cron, work, db, req>>

ServeFails == /\ Alive /\ server = "listening"
              /\ server' = "failed"
              /\ UNCHANGED <<process, cron, work, db, req>>

Accept(r) == /\ Alive /\ server = "listening" /\ req[r] = "none"
             /\ req' = [req EXCEPT ![r] = "handling"]
             /\ UNCHANGED <<process, cron, work, server, db>>

(* A handler queries the database, or triggers a run, and answers.          *)
Answer(r) == /\ Alive /\ req[r] = "handling"
             /\ req' = [req EXCEPT ![r] = "done"]
             /\ \/ UNCHANGED <<run, starts>>
                \/ \E s \in Runners : CanStart(s) /\ Begin(s)
             /\ UNCHANGED <<process, cron, server, gate, mails, db, dropped>>

-----------------------------------------------------------------------------
(* The main goroutine. *)

Signal == /\ Alive /\ ~cancelled
          /\ cancelled' = TRUE
          /\ UNCHANGED <<http, cron, work, main, db, excuses>>

(* A bug to catch: Stop() is awaited when there are no jobs. *)
AlwaysHasJobs == TRUE

HasJobs == jobs # {}

(* The signal is noticed: gracefulShutdown, which stops cron if it has jobs. *)
NoticeSignal == /\ main = "serving" /\ cancelled
                /\ \/ HasJobs /\ main' = "draining" /\ ticking' = FALSE
                   \/ ~HasJobs /\ main' = "stopping" /\ UNCHANGED ticking
                /\ UNCHANGED <<http, work, cancelled, jobs, job, db, excuses>>

(* serverErr: run() returns at once; its deferred stop() cancels the jobs'  *)
(* contexts, the scheduler goes on.                                         *)
NoticeFailure == /\ main = "serving" /\ server = "failed"
                 /\ main' = "closing" /\ cancelled' = TRUE
                 /\ excuses' = excuses \cup {"serve failure"}
                 /\ UNCHANGED <<http, cron, work, db>>

(* Without jobs Stop() returns a context that is never done. *)
Drained == jobs # {} /\ \A j \in Jobs : job[j] = "idle"

(* A bug to catch: the scheduler is not waited for. *)
StopWithoutWaiting == main = "draining" /\ main' = "stopping"
                      /\ UNCHANGED <<http, cron, work, cancelled, db, excuses>>

SchedulerStopped == /\ main = "draining" /\ Drained
                    /\ main' = "stopping"
                    /\ UNCHANGED <<http, cron, work, cancelled, db, excuses>>

(* A bug to catch: the scheduler is waited for without a bound. *)
NeverTimesOut == FALSE /\ UNCHANGED vars

(* 35 seconds are long: a drain that is over is noticed before. *)
DrainTimeout == /\ main = "draining" /\ ~Drained
                /\ main' = "stopping"
                /\ excuses' = excuses \cup {"drain timeout"}
                /\ UNCHANGED <<http, cron, work, cancelled, db>>

Handling == \E r \in Requests : req[r] = "handling"

(* server.Shutdown: no new connections; a no-op while s.server is not seen, *)
(* which a built server may not be.                                         *)
StopListening == /\ main = "stopping" /\ server \in {"built", "listening"}
                 /\ server' = "stopped"
                 /\ UNCHANGED <<process, cron, work, db, req>>

SeesNoServer == /\ main = "stopping" /\ server \in {"unborn", "built"}
                /\ main' = "closing"
                /\ excuses' = excuses \cup {"unseen server"}
                /\ UNCHANGED <<http, cron, work, cancelled, db>>

ServerStopped == /\ main = "stopping" /\ server \in {"stopped", "failed"} /\ ~Handling
                 /\ main' = "closing"
                 /\ UNCHANGED <<http, cron, work, cancelled, db, excuses>>

ShutdownTimeout == /\ main = "stopping" /\ server \in {"stopped", "failed"} /\ Handling
                   /\ main' = "closing"
                   /\ excuses' = excuses \cup {"shutdown timeout"}
                   /\ UNCHANGED <<http, cron, work, cancelled, db>>

(* A bug to catch: the mailer is closed before those who report to it. *)
NotifyFirst == <<"Notify", "Backup", "FileMonitor", "MediaFileCheck">>

CloseOrder == <<"Backup", "FileMonitor", "MediaFileCheck", "Notify">>

Quiet(s) == IF s = "Notify" THEN mails = {} ELSE run[s] = "idle"

(* AeronService.Close(): each Close() refuses new work, then joins the old. *)
Turn(i) == main = "closing" /\ \A k \in 1 .. (i - 1) : gate[CloseOrder[k]] = "closed"

BeginClose(i) == /\ Turn(i) /\ gate[CloseOrder[i]] = "open"
                 /\ gate' = [gate EXCEPT ![CloseOrder[i]] = "closing"]
                 /\ UNCHANGED <<process, http, cron, run, starts, mails, db, dropped>>

EndClose(i) == /\ Turn(i) /\ gate[CloseOrder[i]] = "closing"
               /\ Quiet(CloseOrder[i])
               /\ gate' = [gate EXCEPT ![CloseOrder[i]] = "closed"]
               /\ UNCHANGED <<process, http, cron, run, starts, mails, db, dropped>>

(* A bug to catch: the deferred calls run in the order they were written.   *)
DbCloseFirst == /\ main = "closing" /\ db = "open"
                /\ db' = "closed" /\ main' = "last"
                /\ UNCHANGED <<http, cron, work, cancelled, excuses>>

DbClose == /\ main = "closing" /\ \A s \in Services : gate[s] = "closed"
           /\ db' = "closed" /\ main' = "last"
           /\ UNCHANGED <<http, cron, work, cancelled, excuses>>

Exit == /\ main = "last" /\ main' = "exited"
        /\ UNCHANGED <<http, cron, work, cancelled, db, excuses>>

MainStep == \/ NoticeSignal \/ NoticeFailure
            \/ SchedulerStopped \/ DrainTimeout
            \/ StopListening \/ SeesNoServer \/ ServerStopped \/ ShutdownTimeout
            \/ \E i \in 1 .. Len(CloseOrder) : BeginClose(i) \/ EndClose(i)
            \/ DbClose \/ Exit

WorkStep == \/ \E s \in Runners : Work(s) \/ Report(s)
            \/ \E w \in Reporters : Deliver(w)

CronStep == \/ TickBackup \/ TickHealthCheck \/ CheckHealth \/ AlertHealth
            \/ TickTrigger("file-monitor", "FileMonitor")
            \/ TickTrigger("media-file-check", "MediaFileCheck")

HttpStep == \/ BuildServer \/ ListenAndServe \/ ServeFails
            \/ \E r \in Requests : Accept(r) \/ Answer(r)

Next == WorkStep \/ CronStep \/ HttpStep \/ Signal \/ MainStep

Spec == Init /\ [][Next]_vars

(* Goroutines are scheduled, timers fire, a run and a mail end once their   *)
(* runner is closed: their contexts are cancelled or expire.  Nothing is    *)
(* assumed of a handler, of the queries of a health check, or of the work   *)
(* of a media check, which opens its drive under no context.                *)
Fairness == /\ WF_vars(MainStep)
            /\ \A s \in Runners \ {"MediaFileCheck"} : WF_vars(Work(s))
            /\ \A s \in Runners : WF_vars(Report(s))
            /\ \A w \in Reporters : WF_vars(Deliver(w))

FairSpec == Spec /\ Fairness

-----------------------------------------------------------------------------
JobsExcused == "drain timeout" \in excuses \/ "serve failure" \in excuses
HandlersExcused == \/ "shutdown timeout" \in excuses
                   \/ "serve failure" \in excuses
                   \/ "unseen server" \in excuses

(* The database is closed only after every run of every service and every   *)
(* mail was joined, whichever way the process stops, and no run begins      *)
(* later.                                                                   *)
JoinedBeforeDbClose ==
  db = "closed" => /\ \A s \in Runners : gate[s] = "closed" /\ run[s] = "idle"
                   /\ mails = {}

(* The comment of gracefulShutdown: jobs are drained before the HTTP server *)
(* stops.  A job that still runs on a closed database overran the drain or  *)
(* meets the path that never drains; a handler that does so overran the     *)
(* shutdown, lost its listener or was accepted by a server main never saw.  *)
LateWorkExplained ==
  db = "closed" =>
     /\ (\E j \in Jobs : job[j] # "idle") => JobsExcused
     /\ Handling => HandlersExcused

(* Whatever a run of a service decides to mail is still accepted while the  *)
(* process stops: only the untracked health check can lose its mail, and    *)
(* only when it was not drained.                                            *)
RunMailsKept == \A w \in dropped : w = "health-check" /\ JobsExcused

(* The comment in gracefulShutdown: no full timeout is burned for nothing.  *)
TimeoutsEarned ==
  [][/\ DrainTimeout => \E j \in Jobs : job[j] # "idle"
     /\ ShutdownTimeout => Handling]_vars

(* The process ends after a signal or a failure to serve, however long its  *)
(* handlers and health checks take, unless a media check never ends.        *)
Stops == cancelled \/ server = "failed" ~>
           main = "exited" \/ [](run["MediaFileCheck"] = "working")
=============================================================================
