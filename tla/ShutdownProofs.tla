--------------------------- MODULE ShutdownProofs ---------------------------
(***************************************************************************)
(* Proofs about Shutdown for every set of requests and any number of runs. *)
(* The inductive invariant has two parts besides the types: how far the    *)
(* closing of the services has come, and what the drain of the scheduler   *)
(* and of the server left behind when nothing excuses it.                  *)
(***************************************************************************)
EXTENDS Shutdown, TLAPS

Ending == {"closing", "last", "exited"}

(* A service closes only while the process ends, idle and in its turn.      *)
ClosingInv ==
  /\ \A s \in Services : gate[s] # "open" => main \in Ending
  /\ \A s \in Runners : gate[s] = "closed" => run[s] = "idle"
  /\ gate["Notify"] # "open" => \A s \in Runners : gate[s] = "closed"
  /\ gate["Notify"] = "closed" => mails = {}
  /\ db = "closed" => \A s \in Services : gate[s] = "closed"
  /\ main \in {"last", "exited"} => db = "closed"

(* Without an excuse no job is left after the drain ...                     *)
JobsInv ==
  /\ ticking => jobs # {}
  /\ main = "draining" => jobs # {} /\ ~ticking
  /\ \A j \in Jobs : job[j] # "idle" => jobs # {}
  /\ main \in {"stopping", "closing", "last", "exited"} /\ ~JobsExcused
       => ~ticking /\ \A j \in Jobs : job[j] = "idle"

(* ... and no handler after the server has stopped. *)
HandlersInv ==
  main \in Ending /\ ~HandlersExcused
    => server \in {"stopped", "failed"} /\ \A r \in Requests : req[r] # "handling"

IInv == TypeOK /\ ClosingInv /\ JobsInv /\ HandlersInv /\ RunMailsKept

-----------------------------------------------------------------------------
(* The order of AeronService.Close() puts Notify behind the others. *)
LEMMA NotifyLast ==
  ASSUME NEW i \in 1 .. Len(CloseOrder), Turn(i)
  PROVE  /\ CloseOrder[i] \in Services
         /\ CloseOrder[i] = "Notify" => \A s \in Runners : gate[s] = "closed"
<1>1. i \in 1 .. 4
  BY DEF CloseOrder
<1>2. CASE i = 4
  BY <1>2 DEF Turn, CloseOrder, Services, Runners
<1>3. CASE i \in 1 .. 3
  BY <1>3 DEF CloseOrder, Services, Runners
<1>4. QED
  BY <1>1, <1>2, <1>3

LEMMA InitTyped ==
  ASSUME Init
  PROVE  TypeOK
<1>1. ticking \in BOOLEAN
  BY Zenon DEF Init
<1>2. \A s \in Runners : starts[s] \in 0 .. MaxStarts
  BY ShutdownAssumption DEF Init, ShutdownAssumption
<1>3. QED
  BY <1>1, <1>2 DEF Init, TypeOK, Runners, Services, Jobs, Reporters

(* A run that may start keeps within the bound. *)
LEMMA BeginTyped ==
  ASSUME TypeOK, NEW s \in Runners, CanStart(s), Begin(s)
  PROVE  /\ run' \in [Runners -> {"idle", "working", "reporting"}]
         /\ starts' \in [Runners -> 0 .. MaxStarts]
<1>1. run' \in [Runners -> {"idle", "working", "reporting"}]
  BY DEF TypeOK, Begin
<1>2. starts[s] + 1 \in 0 .. MaxStarts
  <2>1. starts[s] \in 0 .. MaxStarts /\ starts[s] < MaxStarts
    BY DEF TypeOK, CanStart
  <2>2. QED
    BY <2>1, ShutdownAssumption DEF ShutdownAssumption
<1>3. QED
  BY <1>1, <1>2 DEF TypeOK, Begin

(* Every step preserves the types. *)
LEMMA StepTyped ==
  ASSUME TypeOK, [Next]_vars
  PROVE  TypeOK'
<1> USE DEF TypeOK
<1>1. CASE WorkStep
  <2>1. ASSUME NEW s \in Runners, Work(s) PROVE TypeOK'
    BY <2>1 DEF Work, Release, process, http
  <2>2. ASSUME NEW s \in Runners, Report(s) PROVE TypeOK'
    BY <2>2 DEF Report, Release, SendAsync, Reporters, process, http
  <2>3. ASSUME NEW w \in Reporters, Deliver(w) PROVE TypeOK'
    BY <2>3 DEF Deliver, process, http, cron
  <2>4. QED
    BY <1>1, <2>1, <2>2, <2>3 DEF WorkStep
<1>2. CASE CronStep
  <2>1. CASE TickBackup
    BY <2>1, BeginTyped DEF TickBackup, Runners, process, http
  <2>2. CASE TickHealthCheck
    BY <2>2 DEF TickHealthCheck, process, http, work
  <2>3. CASE CheckHealth
    BY <2>3 DEF CheckHealth, process, http, work
  <2>4. CASE AlertHealth
    BY <2>4 DEF AlertHealth, SendAsync, Reporters, process, http
  <2>5. ASSUME NEW j \in Jobs, NEW s \in Runners, TickTrigger(j, s) PROVE TypeOK'
    BY <2>5, BeginTyped DEF TickTrigger, process, http, cron
  <2>6. QED
    BY <1>2, <2>1, <2>2, <2>3, <2>4, <2>5 DEF CronStep, Jobs, Runners
<1>3. CASE HttpStep
  <2>1. CASE BuildServer \/ ListenAndServe \/ ServeFails
    BY <2>1 DEF BuildServer, ListenAndServe, ServeFails, process, cron, work
  <2>2. ASSUME NEW r \in Requests, Accept(r) PROVE TypeOK'
    BY <2>2 DEF Accept, process, cron, work
  <2>3. ASSUME NEW r \in Requests, Answer(r) PROVE TypeOK'
    BY <2>3, BeginTyped DEF Answer, process, cron
  <2>4. QED
    BY <1>3, <2>1, <2>2, <2>3 DEF HttpStep
<1>4. CASE Signal
  BY <1>4 DEF Signal, http, cron, work
<1>5. CASE MainStep
  <2>1. CASE NoticeSignal \/ NoticeFailure
    BY <2>1 DEF NoticeSignal, NoticeFailure, http, cron, work
  <2>2. CASE SchedulerStopped \/ DrainTimeout
    BY <2>2 DEF SchedulerStopped, DrainTimeout, http, cron, work
  <2>3. CASE StopListening \/ SeesNoServer \/ ServerStopped \/ ShutdownTimeout
    BY <2>3 DEF StopListening, SeesNoServer, ServerStopped, ShutdownTimeout, process, http, cron, work
  <2>4. ASSUME NEW i \in 1 .. Len(CloseOrder), BeginClose(i) \/ EndClose(i) PROVE TypeOK'
    BY <2>4 DEF BeginClose, EndClose, process, http, cron
  <2>5. CASE DbClose \/ Exit
    BY <2>5 DEF DbClose, Exit, http, cron, work
  <2>6. QED
    BY <1>5, <2>1, <2>2, <2>3, <2>4, <2>5 DEF MainStep
<1>6. CASE UNCHANGED vars
  BY <1>6 DEF vars, process, cron, work, http
<1>7. QED
  BY <1>1, <1>2, <1>3, <1>4, <1>5, <1>6 DEF Next

-----------------------------------------------------------------------------
(* A run that starts, starts behind an open gate. *)
LEMMA StartKeepsClosing ==
  ASSUME TypeOK, ClosingInv, UNCHANGED <<main, gate, mails, db>>,
         \/ run' = run
         \/ \E s \in Runners : CanStart(s) /\ Begin(s)
  PROVE  ClosingInv'
<1>1. \A s \in Runners : gate[s] = "closed" => run'[s] = "idle"
  BY DEF TypeOK, ClosingInv, CanStart, Begin
<1>2. QED
  BY <1>1 DEF ClosingInv

(* A service is closed in its turn, idle, and nothing starts behind a gate  *)
(* that is not open.                                                        *)
LEMMA StepClosing ==
  ASSUME TypeOK, ClosingInv, [Next]_vars
  PROVE  ClosingInv'
<1> USE DEF TypeOK, ClosingInv, Ending
<1>1. CASE WorkStep
  <2>1. ASSUME NEW s \in Runners, Work(s) \/ Report(s) PROVE ClosingInv'
    <3>1. gate[s] # "closed" /\ gate' = gate /\ main' = main /\ db' = db
      BY <2>1 DEF Work, Report, Services, process
    <3>2. \A u \in Runners \ {s} : run'[u] = run[u]
      BY <2>1 DEF Work, Report, Release
    <3>3. mails' = mails \/ gate["Notify"] = "open"
      BY <2>1 DEF Work, Report, SendAsync
    <3>4. QED
      BY <3>1, <3>2, <3>3 DEF Services
  <2>2. ASSUME NEW w \in Reporters, Deliver(w) PROVE ClosingInv'
    BY <2>2 DEF Deliver, process, http, cron
  <2>3. QED
    BY <1>1, <2>1, <2>2 DEF WorkStep
<1>2. CASE CronStep
  <2>1. CASE TickBackup
    BY <2>1, StartKeepsClosing DEF TickBackup, Runners, process, http
  <2>2. CASE TickHealthCheck \/ CheckHealth
    BY <2>2 DEF TickHealthCheck, CheckHealth, process, http, work
  <2>3. CASE AlertHealth
    BY <2>3 DEF AlertHealth, SendAsync, Services, process, http
  <2>4. ASSUME NEW j \in Jobs, NEW s \in Runners, TickTrigger(j, s) PROVE ClosingInv'
    BY <2>4, StartKeepsClosing DEF TickTrigger, process, http, cron
  <2>5. QED
    BY <1>2, <2>1, <2>2, <2>3, <2>4 DEF CronStep, Jobs, Runners
<1>3. CASE HttpStep
  <2>1. CASE BuildServer \/ ListenAndServe \/ ServeFails
    BY <2>1 DEF BuildServer, ListenAndServe, ServeFails, process, cron, work
  <2>2. ASSUME NEW r \in Requests, Accept(r) PROVE ClosingInv'
    BY <2>2 DEF Accept, process, cron, work
  <2>3. ASSUME NEW r \in Requests, Answer(r) PROVE ClosingInv'
    BY <2>3, StartKeepsClosing DEF Answer, process, cron
  <2>4. QED
    BY <1>3, <2>1, <2>2, <2>3 DEF HttpStep
<1>4. CASE Signal
  BY <1>4 DEF Signal, http, cron, work
<1>5. CASE MainStep
  <2>1. CASE NoticeSignal \/ NoticeFailure \/ SchedulerStopped \/ DrainTimeout
    BY <2>1 DEF NoticeSignal, NoticeFailure, SchedulerStopped, DrainTimeout, http, cron, work
  <2>2. CASE StopListening \/ SeesNoServer \/ ServerStopped \/ ShutdownTimeout
    BY <2>2 DEF StopListening, SeesNoServer, ServerStopped, ShutdownTimeout, process, http, cron, work
  <2>3. ASSUME NEW i \in 1 .. Len(CloseOrder), BeginClose(i) \/ EndClose(i)
        PROVE  ClosingInv'
    <3>1. Turn(i) /\ main = "closing"
      BY <2>3 DEF BeginClose, EndClose, Turn
    <3>2. /\ CloseOrder[i] \in Services
          /\ CloseOrder[i] = "Notify" => \A s \in Runners : gate[s] = "closed"
      BY <3>1, NotifyLast
    <3>3. CASE BeginClose(i)
      BY <3>1, <3>2, <3>3 DEF BeginClose, Services, Runners, process, http, cron
    <3>4. CASE EndClose(i)
      BY <3>1, <3>2, <3>4 DEF EndClose, Quiet, Services, Runners, process, http, cron
    <3>5. QED
      BY <2>3, <3>3, <3>4
  <2>4. CASE DbClose \/ Exit
    BY <2>4 DEF DbClose, Exit, http, cron, work
  <2>5. QED
    BY <1>5, <2>1, <2>2, <2>3, <2>4 DEF MainStep
<1>6. CASE UNCHANGED vars
  BY <1>6 DEF vars, process, cron, work, http
<1>7. QED
  BY <1>1, <1>2, <1>3, <1>4, <1>5, <1>6 DEF Next

(* Only jobs that end, or tick before the drain, change what is known of    *)
(* the jobs.                                                                *)
LEMMA JobsKept ==
  ASSUME JobsInv, UNCHANGED <<main, jobs, ticking, excuses>>,
         \A j \in Jobs : job'[j] = job[j] \/ job'[j] = "idle" \/ job[j] # "idle"
  PROVE  JobsInv'
BY DEF JobsInv, JobsExcused

LEMMA StepJobs ==
  ASSUME TypeOK, JobsInv, [Next]_vars
  PROVE  JobsInv'
<1>1. CASE WorkStep
  <2>1. UNCHANGED <<main, jobs, ticking, excuses>>
    BY <1>1 DEF WorkStep, Work, Report, Deliver, process, cron
  <2>2. \A j \in Jobs : job'[j] = job[j] \/ job'[j] = "idle"
    BY <1>1 DEF WorkStep, Work, Report, Release, Deliver, cron, TypeOK
  <2>3. QED
    BY <2>1, <2>2, JobsKept
<1>2. CASE CronStep
  <2>1. CASE TickBackup \/ TickHealthCheck
    <3>1. ticking /\ UNCHANGED <<main, jobs, ticking, excuses>>
      BY <2>1 DEF TickBackup, TickHealthCheck, Ticks, process
    <3>2. QED
      BY <3>1 DEF JobsInv, JobsExcused
  <2>2. CASE CheckHealth \/ AlertHealth
    <3>1. UNCHANGED <<main, jobs, ticking, excuses>>
      BY <2>2 DEF CheckHealth, AlertHealth, process
    <3>2. \A j \in Jobs : job'[j] = job[j] \/ job[j] # "idle"
      BY <2>2 DEF CheckHealth, AlertHealth, TypeOK
    <3>3. QED
      BY <3>1, <3>2, JobsKept
  <2>3. ASSUME NEW j \in Jobs, NEW s \in Runners, TickTrigger(j, s) PROVE JobsInv'
    BY <2>3, JobsKept DEF TickTrigger, process, cron
  <2>4. QED
    BY <1>2, <2>1, <2>2, <2>3 DEF CronStep, Jobs, Runners
<1>3. CASE HttpStep
  <2>1. UNCHANGED <<process, cron>>
    BY <1>3 DEF HttpStep, BuildServer, ListenAndServe, ServeFails, Accept, Answer
  <2>2. QED
    BY <2>1, JobsKept DEF process, cron
<1>4. CASE Signal
  BY <1>4, JobsKept DEF Signal, cron
<1>5. CASE MainStep
  <2>1. CASE NoticeSignal
    <3>1. UNCHANGED <<jobs, job, excuses>>
      BY <2>1 DEF NoticeSignal
    <3>2. CASE jobs # {}
      <4>1. main' = "draining" /\ ticking' = FALSE
        BY <2>1, <3>2 DEF NoticeSignal, HasJobs
      <4>2. QED
        BY <3>1, <3>2, <4>1 DEF JobsInv
    <3>3. CASE jobs = {}
      <4>1. main' = "stopping" /\ UNCHANGED ticking
        BY <2>1, <3>3 DEF NoticeSignal, HasJobs
      <4>2. ~ticking /\ \A j \in Jobs : job[j] = "idle"
        BY <3>3 DEF JobsInv
      <4>3. QED
        BY <3>1, <3>3, <4>1, <4>2 DEF JobsInv
    <3>4. QED
      BY <3>2, <3>3
  <2>2. CASE NoticeFailure
    BY <2>2 DEF NoticeFailure, cron, JobsInv, JobsExcused
  <2>3. CASE SchedulerStopped
    BY <2>3 DEF SchedulerStopped, Drained, cron, JobsInv, JobsExcused
  <2>4. CASE DrainTimeout
    BY <2>4 DEF DrainTimeout, cron, JobsInv, JobsExcused
  <2>5. CASE StopListening
    BY <2>5, JobsKept DEF StopListening, process, cron
  <2>6. CASE SeesNoServer \/ ServerStopped \/ ShutdownTimeout
    <3>1. /\ main = "stopping" /\ main' = "closing" /\ UNCHANGED <<jobs, ticking, job>>
          /\ JobsExcused => JobsExcused'
      BY <2>6 DEF SeesNoServer, ServerStopped, ShutdownTimeout, cron, JobsExcused
    <3>2. QED
      BY <3>1 DEF JobsInv
  <2>7. ASSUME NEW i \in 1 .. Len(CloseOrder), BeginClose(i) \/ EndClose(i)
        PROVE  JobsInv'
    BY <2>7, JobsKept DEF BeginClose, EndClose, process, cron
  <2>8. CASE DbClose \/ Exit
    <3>1. /\ main \in {"closing", "last"} /\ main' \in {"last", "exited"}
          /\ UNCHANGED <<jobs, ticking, job, excuses>>
      BY <2>8 DEF DbClose, Exit, cron
    <3>2. QED
      BY <3>1 DEF JobsInv, JobsExcused
  <2>9. QED
    BY <1>5, <2>1, <2>2, <2>3, <2>4, <2>5, <2>6, <2>7, <2>8 DEF MainStep
<1>6. CASE UNCHANGED vars
  BY <1>6, JobsKept DEF vars, process, cron
<1>7. QED
  BY <1>1, <1>2, <1>3, <1>4, <1>5, <1>6 DEF Next

(* Behind a server that stopped no handler begins. *)
LEMMA HandlersKept ==
  ASSUME HandlersInv, UNCHANGED <<main, excuses>>,
         server' = server \/ server \notin {"stopped", "failed"},
         \A r \in Requests : req'[r] = "handling" => req[r] = "handling" \/ server = "listening"
  PROVE  HandlersInv'
BY DEF HandlersInv, HandlersExcused

LEMMA StepHandlers ==
  ASSUME TypeOK, HandlersInv, [Next]_vars
  PROVE  HandlersInv'
<1>1. CASE WorkStep \/ CronStep
  <2>1. UNCHANGED <<process, http>>
    BY <1>1 DEF WorkStep, Work, Report, Deliver, CronStep, TickBackup, TickHealthCheck,
                CheckHealth, AlertHealth, TickTrigger
  <2>2. QED
    BY <2>1, HandlersKept DEF process, http
<1>2. CASE HttpStep
  <2>1. UNCHANGED <<main, excuses>>
    BY <1>2 DEF HttpStep, BuildServer, ListenAndServe, ServeFails, Accept, Answer, process
  <2>2. server' = server \/ server \notin {"stopped", "failed"}
    BY <1>2 DEF HttpStep, BuildServer, ListenAndServe, ServeFails, Accept, Answer
  <2>3. \A r \in Requests : req'[r] = "handling" => req[r] = "handling" \/ server = "listening"
    BY <1>2 DEF HttpStep, BuildServer, ListenAndServe, ServeFails, Accept, Answer, TypeOK
  <2>4. QED
    BY <2>1, <2>2, <2>3, HandlersKept
<1>3. CASE Signal
  BY <1>3, HandlersKept DEF Signal, http
<1>4. CASE MainStep
  <2>1. CASE NoticeSignal \/ SchedulerStopped \/ DrainTimeout
    BY <2>1 DEF NoticeSignal, SchedulerStopped, DrainTimeout, HandlersInv, Ending
  <2>2. CASE NoticeFailure
    BY <2>2 DEF NoticeFailure, HandlersInv, HandlersExcused
  <2>3. CASE StopListening
    BY <2>3 DEF StopListening, process, HandlersInv, Ending
  <2>4. CASE SeesNoServer \/ ShutdownTimeout
    BY <2>4 DEF SeesNoServer, ShutdownTimeout, HandlersInv, HandlersExcused
  <2>5. CASE ServerStopped
    BY <2>5 DEF ServerStopped, Handling, http, HandlersInv
  <2>6. ASSUME NEW i \in 1 .. Len(CloseOrder), BeginClose(i) \/ EndClose(i)
        PROVE  HandlersInv'
    BY <2>6, HandlersKept DEF BeginClose, EndClose, process, http
  <2>7. CASE DbClose \/ Exit
    <3>1. main \in Ending /\ main' \in Ending /\ UNCHANGED <<server, req, excuses>>
      BY <2>7 DEF DbClose, Exit, Ending, http
    <3>2. QED
      BY <3>1 DEF HandlersInv, HandlersExcused
  <2>8. QED
    BY <1>4, <2>1, <2>2, <2>3, <2>4, <2>5, <2>6, <2>7 DEF MainStep
<1>5. CASE UNCHANGED vars
  BY <1>5, HandlersKept DEF vars, process, http
<1>6. QED
  BY <1>1, <1>2, <1>3, <1>4, <1>5 DEF Next

(* A mail is dropped only behind the closed mailer: by then every run is    *)
(* joined, so only the health check is left to report.                      *)
LEMMA StepMails ==
  ASSUME TypeOK, ClosingInv, JobsInv, RunMailsKept, [Next]_vars
  PROVE  RunMailsKept'
<1>1. JobsExcused => JobsExcused'
  <2>1. excuses \subseteq excuses'
    BY DEF Next, WorkStep, Work, Report, Deliver, CronStep, TickBackup, TickHealthCheck,
           CheckHealth, AlertHealth, TickTrigger, HttpStep, BuildServer, ListenAndServe,
           ServeFails, Accept, Answer, Signal, MainStep, NoticeSignal, NoticeFailure,
           SchedulerStopped, DrainTimeout, StopListening, SeesNoServer, ServerStopped,
           ShutdownTimeout, BeginClose, EndClose, DbClose, Exit, vars, process
  <2>2. QED
    BY <2>1 DEF JobsExcused
<1>2. SUFFICES dropped' # dropped => dropped' = dropped \cup {"health-check"} /\ JobsExcused
  BY <1>1 DEF RunMailsKept
<1>3. ASSUME NEW s \in Runners, Report(s) PROVE dropped' = dropped
  <2>1. run[s] = "reporting" /\ gate[s] # "closed"
    BY <1>3 DEF Report, ClosingInv
  <2>2. gate["Notify"] = "open"
    BY <2>1 DEF ClosingInv
  <2>3. QED
    BY <1>3, <2>2 DEF Report, SendAsync
<1>4. CASE AlertHealth
  <2>1. job["health-check"] = "reporting" /\ "health-check" \in Jobs
    BY <1>4 DEF AlertHealth, Jobs
  <2>2. main \in Ending => JobsExcused
    BY <2>1 DEF JobsInv, Ending
  <2>3. gate["Notify"] # "open" => main \in Ending
    BY DEF ClosingInv, Services
  <2>4. QED
    BY <1>4, <2>2, <2>3 DEF AlertHealth, SendAsync
<1>5. CASE dropped' = dropped
  BY <1>5
<1>6. QED
  BY <1>3, <1>4, <1>5 DEF Next, WorkStep, Work, Deliver, CronStep, TickBackup, TickHealthCheck,
       CheckHealth, TickTrigger, HttpStep, BuildServer, ListenAndServe, ServeFails, Accept, Answer,
       Signal, MainStep, NoticeSignal, NoticeFailure, SchedulerStopped, DrainTimeout,
       StopListening, SeesNoServer, ServerStopped, ShutdownTimeout, BeginClose, EndClose, DbClose,
       Exit, vars, work

-----------------------------------------------------------------------------
LEMMA Inductive == Spec => []IInv
<1>1. Init => IInv
  <2>1. ASSUME Init PROVE TypeOK
    BY <2>1, InitTyped
  <2>2. ASSUME Init PROVE ClosingInv
    BY <2>2 DEF Init, ClosingInv, Ending, Services, Runners
  <2>3. ASSUME Init PROVE JobsInv
    BY <2>3 DEF Init, JobsInv
  <2>4. ASSUME Init PROVE HandlersInv /\ RunMailsKept
    BY <2>4 DEF Init, HandlersInv, Ending, RunMailsKept
  <2>5. QED
    BY <2>1, <2>2, <2>3, <2>4 DEF IInv
<1>2. IInv /\ [Next]_vars => IInv'
  BY StepTyped, StepClosing, StepJobs, StepHandlers, StepMails DEF IInv
<1>3. QED
  BY <1>1, <1>2, PTL DEF Spec

(* Type correctness. *)
THEOREM ShutdownTyped == Spec => []TypeOK
<1>1. IInv => TypeOK
  BY DEF IInv
<1>2. QED
  BY <1>1, Inductive, PTL

(* The database outlives every run and every mail (main.go's order of the   *)
(* deferred calls, AeronService.Close and the runners).                     *)
THEOREM DbClosedLast == Spec => []JoinedBeforeDbClose
<1>1. IInv => JoinedBeforeDbClose
  BY DEF IInv, ClosingInv, JoinedBeforeDbClose, Services
<1>2. QED
  BY <1>1, Inductive, PTL

(* A job or a handler that meets the closed database had an excuse          *)
(* (gracefulShutdown and its two timeouts).                                 *)
THEOREM LateWorkHasExcuse == Spec => []LateWorkExplained
<1>1. ASSUME IInv PROVE LateWorkExplained
  <2>1. db = "closed" => main \in Ending
    BY <1>1 DEF IInv, ClosingInv, Services
  <2>2. QED
    BY <1>1, <2>1 DEF IInv, JobsInv, HandlersInv, LateWorkExplained, Handling, Ending
<1>2. QED
  BY <1>1, Inductive, PTL

(* The mail of a run is never dropped (the order of AeronService.Close). *)
THEOREM NoRunMailDropped == Spec => []RunMailsKept
<1>1. IInv => RunMailsKept
  BY DEF IInv
<1>2. QED
  BY <1>1, Inductive, PTL

(* The timeouts of gracefulShutdown are spent only on work that is there.   *)
THEOREM NoTimeoutForNothing == Spec => TimeoutsEarned
<1>1. IInv /\ [Next]_vars =>
        [/\ DrainTimeout => \E j \in Jobs : job[j] # "idle"
         /\ ShutdownTimeout => Handling]_vars
  BY DEF IInv, JobsInv, DrainTimeout, Drained, ShutdownTimeout
<1>2. QED
  BY <1>1, Inductive, PTL DEF Spec, TimeoutsEarned
=============================================================================
