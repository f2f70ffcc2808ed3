---------------------------- MODULE FileMonitor -----------------------------
(***************************************************************************)
(* internal/service/filemonitor.go: single-flight check runs triggered by  *)
(* cron and HTTP, the per-path alert state with its grace run and active   *)
(* windows, and the published snapshot that polling clients correlate by   *)
(* run id.  The outcome of one stat is abstracted to stale or not; how a   *)
(* stat is shared and times out is module StatFlight.                      *)
(***************************************************************************)
EXTENDS Integers, FiniteSets

CONSTANTS Paths,        \* configured checks; config rejects duplicates
          Triggers,     \* callers of TriggerCheck: the cron job, HTTP handlers
          Readers,      \* callers of Status
          MaxRuns,      \* bound: runs of one process
          MaxRestarts   \* bound: restarts of the process

ASSUME MonitorAssumption == MaxRuns \in Nat \ {0} /\ MaxRestarts \in Nat

VARIABLES phase, tracked, primary,   \* the gate: s.runner
          pc,                        \* where each trigger and its run is
          runID, completedRunID,     \* guarded by publishedMu
          lastCheck,                 \* guarded by publishedMu
          run,                       \* locals of the running executeRun
          alertState, graceRunDone,  \* guarded by stateMu
          mail,                      \* history: the mails dispatched per path
          reading,                   \* Status(): readers holding publishedMu
          snap,                      \* Status(): what each reader has read
          restarts

gate == <<phase, tracked, primary>>
published == <<runID, completedRunID, lastCheck>>
alerting == <<alertState, graceRunDone, mail>>
status == <<reading, snap>>
vars == <<gate, pc, published, run, alerting, status, restarts>>

Gate == INSTANCE ShutdownGate WITH Workers <- Triggers

PC == {"idle", "admitted", "entered", "starting", "stat", "process", "alerts",
       "recoveries", "publish", "publishing", "finishing", "leaving"}
NoCheck == [id |-> 0, stale |-> {}, inAlert |-> {}]
NoRun == [id |-> 0, stale |-> {}, inAlert |-> {}, alerts |-> {}, recoveries |-> {}]
NoSnap == [read |-> "nothing", running |-> FALSE, runID |-> 0, completedRunID |-> 0,
           checks |-> 0]
NoMail == [p \in Paths |-> [alerts |-> 0, recoveries |-> 0]]
TypeOK ==
  /\ phase \in {"open", "closing", "closed"}
  /\ tracked \subseteq Triggers /\ primary \subseteq Triggers
  /\ pc \in [Triggers -> PC]
  /\ runID \in Nat /\ completedRunID \in Nat
  /\ lastCheck \in [id : Nat, stale : SUBSET Paths, inAlert : SUBSET Paths]
  /\ run \in [id : Nat, stale : SUBSET Paths, inAlert : SUBSET Paths,
              alerts : SUBSET Paths, recoveries : SUBSET Paths]
  /\ alertState \in [Paths -> BOOLEAN] /\ graceRunDone \in BOOLEAN
  /\ mail \in [Paths -> [alerts : Nat, recoveries : Nat]]
  /\ reading \subseteq Readers
  /\ snap \in [Readers -> [read : {"nothing", "running", "all"}, running : BOOLEAN,
                           runID : Nat, completedRunID : Nat, checks : Nat]]
  /\ restarts \in Nat

Init == /\ phase = "open" /\ tracked = {} /\ primary = {}
        /\ pc = [t \in Triggers |-> "idle"]
        /\ runID = 0 /\ completedRunID = 0 /\ lastCheck = NoCheck
        /\ run = NoRun
        /\ alertState = [p \in Paths |-> FALSE] /\ graceRunDone = FALSE
        /\ mail = NoMail
        /\ reading = {} /\ snap = [r \in Readers |-> NoSnap]
        /\ restarts = 0

Goto(t, label) == pc' = [pc EXCEPT ![t] = label]

-----------------------------------------------------------------------------
(* TriggerCheck. *)

Unnumbered == {t \in Triggers : pc[t] \in {"admitted", "entered", "starting"}}

TryStart(t) == /\ pc[t] = "idle"
               /\ runID + Cardinality(Unnumbered) < MaxRuns
               /\ Gate!Admit(t)
               /\ Goto(t, "admitted")
               /\ UNCHANGED <<published, run, alerting, status, restarts>>

Enter(t) == /\ pc[t] = "admitted"
            /\ Gate!Enter(t)
            /\ Goto(t, "entered")
            /\ UNCHANGED <<published, run, alerting, status, restarts>>

Conflict(t) == /\ pc[t] = "admitted" /\ primary # {}
               /\ Goto(t, "leaving")
               /\ UNCHANGED <<gate, published, run, alerting, status, restarts>>

(* publishedMu.Lock(): from here on the writer keeps new readers out, and   *)
(* it waits for those that are inside.                                      *)
Lock(t) == /\ \/ pc[t] = "entered" /\ Goto(t, "starting")
              \/ pc[t] = "publish" /\ Goto(t, "publishing")
           /\ UNCHANGED <<gate, published, run, alerting, status, restarts>>

WriterWaits == \E t \in Triggers : pc[t] \in {"starting", "publishing"}

(* A bug to catch: the run id is taken without the lock. *)
StartNewRunUnlocked(t) == /\ pc[t] = "starting"
                          /\ runID' = runID + 1
                          /\ run' = [NoRun EXCEPT !.id = runID + 1]
                          /\ Goto(t, "stat")
                          /\ UNCHANGED <<gate, completedRunID, lastCheck, alerting, status,
                                         restarts>>

StartNewRun(t) == /\ pc[t] = "starting" /\ reading = {}
                  /\ runID' = runID + 1
                  /\ run' = [NoRun EXCEPT !.id = runID + 1]
                  /\ Goto(t, "stat")
                  /\ UNCHANGED <<gate, completedRunID, lastCheck, alerting, status, restarts>>

-----------------------------------------------------------------------------
(* executeRun. *)

(* The parallel stats: missing, unreadable, timed-out and old files are     *)
(* all stale.                                                               *)
Stat(t) == /\ pc[t] = "stat"
           /\ \E S \in SUBSET Paths : run' = [run EXCEPT !.stale = S]
           /\ Goto(t, "process")
           /\ UNCHANGED <<gate, published, alerting, status, restarts>>

(* Bugs to catch: the window silences the mail but not the state; the first *)
(* run alerts like any other; every fresh path is reported as recovered.    *)
AlertStatesIgnoringWindow(t) ==
  /\ pc[t] = "process"
  /\ graceRunDone' = TRUE
  /\ IF ~graceRunDone THEN UNCHANGED <<alertState, run>>
     ELSE \E active \in SUBSET Paths :
            /\ alertState' = [p \in Paths |-> p \in run.stale]
            /\ run' = [run EXCEPT !.alerts = {p \in run.stale \cap active : ~alertState[p]},
                                  !.recoveries = {p \in active \ run.stale : alertState[p]}]
  /\ Goto(t, "alerts")
  /\ UNCHANGED <<gate, published, mail, status, restarts>>

AlertStatesWithoutGrace(t) ==
  /\ pc[t] = "process"
  /\ graceRunDone' = TRUE
  /\ alertState' = [p \in Paths |-> p \in run.stale]
  /\ run' = [run EXCEPT !.inAlert = run.stale,
                        !.alerts = {p \in run.stale : ~alertState[p]},
                        !.recoveries = {p \in Paths \ run.stale : alertState[p]}]
  /\ Goto(t, "alerts")
  /\ UNCHANGED <<gate, published, mail, status, restarts>>

AlertStatesForgetful(t) ==
  /\ pc[t] = "process"
  /\ graceRunDone' = TRUE
  /\ alertState' = [p \in Paths |-> p \in run.stale]
  /\ run' = IF ~graceRunDone THEN run
            ELSE [run EXCEPT !.inAlert = run.stale, !.alerts = run.stale,
                             !.recoveries = Paths \ run.stale]
  /\ Goto(t, "alerts")
  /\ UNCHANGED <<gate, published, mail, status, restarts>>

(* processAlertStates, under stateMu: the first run only ends the grace     *)
(* period; later runs move the paths whose window is active at the run's    *)
(* start.                                                                   *)
ProcessAlertStates(t) ==
  /\ pc[t] = "process"
  /\ \/ ~graceRunDone /\ graceRunDone' = TRUE /\ UNCHANGED <<alertState, run>>
     \/ /\ graceRunDone /\ UNCHANGED graceRunDone
        /\ \E active \in SUBSET Paths :
             LET stale == run.stale \cap active
                 fresh == active \ run.stale
             IN /\ alertState' = [p \in Paths |->
                                    IF p \in active THEN p \in run.stale ELSE alertState[p]]
                /\ run' = [run EXCEPT !.inAlert = stale,
                                      !.alerts = {p \in stale : ~alertState[p]},
                                      !.recoveries = {p \in fresh : alertState[p]}]
  /\ Goto(t, "alerts")
  /\ UNCHANGED <<gate, published, mail, status, restarts>>

(* dispatchNotifications: first the alerts, then the recoveries. *)
DispatchAlerts(t) == /\ pc[t] = "alerts"
                     /\ mail' = [p \in Paths |-> IF p \in run.alerts
                                    THEN [mail[p] EXCEPT !.alerts = @ + 1] ELSE mail[p]]
                     /\ Goto(t, "recoveries")
                     /\ UNCHANGED <<gate, published, run, alertState, graceRunDone, status,
                                    restarts>>

DispatchRecoveries(t) == /\ pc[t] = "recoveries"
                         /\ mail' = [p \in Paths |-> IF p \in run.recoveries
                                        THEN [mail[p] EXCEPT !.recoveries = @ + 1] ELSE mail[p]]
                         /\ Goto(t, "publish")
                         /\ UNCHANGED <<gate, published, run, alertState, graceRunDone,
                                        status, restarts>>

(* A bug to catch: the id is not written. *)
PublishChecksOnly(t) ==
  /\ pc[t] = "publishing" /\ reading = {}
  /\ lastCheck' = [id |-> run.id, stale |-> run.stale, inAlert |-> run.inAlert]
  /\ run' = NoRun
  /\ Goto(t, "finishing")
  /\ UNCHANGED <<gate, runID, completedRunID, alerting, status, restarts>>

PublishCompleted(t) ==
  /\ pc[t] = "publishing" /\ reading = {}
  /\ lastCheck' = [id |-> run.id, stale |-> run.stale, inAlert |-> run.inAlert]
  /\ completedRunID' = run.id
  /\ run' = NoRun
  /\ Goto(t, "finishing")
  /\ UNCHANGED <<gate, runID, alerting, status, restarts>>

Finish(t) == /\ pc[t] = "finishing"
             /\ Gate!Exit(t)
             /\ Goto(t, "leaving")
             /\ UNCHANGED <<published, run, alerting, status, restarts>>

Leave(t) == /\ pc[t] = "leaving"
            /\ Gate!Leave(t)
            /\ Goto(t, "idle")
            /\ UNCHANGED <<published, run, alerting, status, restarts>>

-----------------------------------------------------------------------------
(* Status: under the read lock, the runner's flag first, then the rest. *)

RLock(r) == /\ r \notin reading /\ ~WriterWaits
            /\ reading' = reading \cup {r}
            /\ snap' = [snap EXCEPT ![r] = NoSnap]
            /\ UNCHANGED <<gate, pc, published, run, alerting, restarts>>

ReadRunning(r) == /\ r \in reading /\ snap[r].read = "nothing"
                  /\ snap' = [snap EXCEPT ![r].read = "running",
                                          ![r].running = primary # {}]
                  /\ UNCHANGED <<gate, pc, published, run, alerting, reading, restarts>>

ReadRest(r) == /\ r \in reading /\ snap[r].read = "running"
               /\ snap' = [snap EXCEPT ![r] = [@ EXCEPT !.read = "all", !.runID = runID,
                                                       !.completedRunID = completedRunID,
                                                       !.checks = lastCheck.id]]
               /\ reading' = reading \ {r}
               /\ UNCHANGED <<gate, pc, published, run, alerting, restarts>>

(* Close(), and a new process. *)
Close == /\ Gate!BeginClose \/ Gate!Close
         /\ UNCHANGED <<pc, published, run, alerting, status, restarts>>

Restart == /\ restarts < MaxRestarts /\ restarts' = restarts + 1
           /\ phase' = "open" /\ tracked' = {} /\ primary' = {}
           /\ pc' = [t \in Triggers |-> "idle"]
           /\ runID' = 0 /\ completedRunID' = 0 /\ lastCheck' = NoCheck
           /\ run' = NoRun
           /\ alertState' = [p \in Paths |-> FALSE] /\ graceRunDone' = FALSE
           /\ mail' = NoMail
           /\ reading' = {} /\ snap' = [r \in Readers |-> NoSnap]

RunStep(t) == \/ Enter(t) \/ Conflict(t) \/ Lock(t) \/ StartNewRun(t)
              \/ Stat(t) \/ ProcessAlertStates(t) \/ DispatchAlerts(t)
              \/ DispatchRecoveries(t) \/ PublishCompleted(t) \/ Finish(t) \/ Leave(t)

Next == \/ \E t \in Triggers : TryStart(t) \/ RunStep(t)
        \/ \E r \in Readers : RLock(r) \/ ReadRunning(r) \/ ReadRest(r)
        \/ Close
        \/ Restart

Spec == Init /\ [][Next]_vars

(* Goroutines are scheduled, stats time out and readers release the lock. *)
Fairness == /\ \A t \in Triggers : WF_vars(RunStep(t))
            /\ \A r \in Readers : WF_vars(ReadRunning(r)) /\ WF_vars(ReadRest(r))

FairSpec == Spec /\ Fairness

-----------------------------------------------------------------------------
(* A snapshot that says "not running" shows the results of the newest run,  *)
(* and completed_run_id always names the run whose checks are shown: a      *)
(* client that polls for its run id never pairs it with other results.      *)
SnapshotConsistent ==
  \A r \in Readers : snap[r].read = "all" =>
     /\ snap[r].checks = snap[r].completedRunID
     /\ snap[r].completedRunID <= snap[r].runID
     /\ ~snap[r].running => snap[r].completedRunID = snap[r].runID

(* Between runs every path that degrades /health is in alert and its alert  *)
(* was handed to the notifier, and a path is in alert exactly while its     *)
(* last alert was not taken back.                                           *)
DegradedMeansMailed ==
  primary = {} => /\ \A p \in lastCheck.inAlert : alertState[p]
                  /\ \A p \in Paths : alertState[p] <=> mail[p].alerts > mail[p].recoveries

(* No mail leaves before the first run of a process has been completed: a   *)
(* restart never mails about files that were already stale.                 *)
GraceRunSilent == completedRunID = 0 => mail = NoMail

Pairing == INSTANCE AlertPairing

(* The mails of the file monitor implement alert/recovery pairing, through  *)
(* windows that open and close, flapping files, conflicts and restarts.     *)
ImplementsPairing == Pairing!Spec

(* Every run id that TriggerCheck returned is completed unless the process  *)
(* restarts, also when Close() begins under the run and while readers keep  *)
(* taking the lock.                                                         *)
RunsComplete == \A n \in 1 .. MaxRuns : runID = n ~> completedRunID >= n \/ runID < n
=============================================================================
