------------------------------ MODULE Notifier ------------------------------
(***************************************************************************)
(* internal/notify: the failure and recovery mails of the signals (backup, *)
(* S3 sync, database health, media check) and their delivery.  The signal  *)
(* is decided under stateMu; the mail is handed to the runner after the    *)
(* unlock and sent by a goroutine of its own, or dropped once the runner   *)
(* is closed.  The mail client is configured; its Send ends within         *)
(* sendTimeout, with or without an error.                                  *)
(***************************************************************************)
EXTENDS Maintenance

CONSTANTS Signals,     \* one prevFailed flag each
          DbHealth,    \* the signal of the database health check
          Reports,     \* what a health check may read: [tables, queries, active, maxConns]
          Reporters,   \* threads that report results; uploads report concurrently
          MaxMails     \* bound: mails of one process

ASSUME NotifierAssumption == MaxMails \in Nat /\ DbHealth \in Signals

Mails == 1 .. MaxMails

VARIABLES phase, tracked, primary,   \* the gate: s.runner
          prevFailed,                \* guarded by stateMu
          holding,                   \* the mail each reporter has yet to hand over
          mail,                      \* every mail
          lastError,                 \* whether LastError() reports an error
          since,                     \* history: failure mails since the last recovery mail
          checked                    \* what the last health check found

gate == <<phase, tracked, primary>>
vars == <<gate, prevFailed, holding, mail, lastError, since, checked>>

Gate == INSTANCE ShutdownGate WITH Workers <- Mails

NoMail == 0
NothingFound == [needsMaintenance |-> FALSE, longRunning |-> FALSE]
MailStates == {"none", "decided", "sending", "delivered", "lost"}

TypeOK ==
  /\ phase \in {"open", "closing", "closed"}
  /\ tracked \subseteq Mails /\ primary = {}
  /\ prevFailed \in [Signals -> BOOLEAN]
  /\ holding \in [Reporters -> Mails \cup {NoMail}]
  /\ mail \in [Mails -> MailStates]
  /\ lastError \in BOOLEAN
  /\ since \in [Signals -> Nat]
  /\ checked \in [needsMaintenance : BOOLEAN, longRunning : BOOLEAN]

Init == /\ phase = "open" /\ tracked = {} /\ primary = {}
        /\ prevFailed = [s \in Signals |-> FALSE]
        /\ holding = [r \in Reporters |-> NoMail]
        /\ mail = [m \in Mails |-> "none"]
        /\ lastError = FALSE
        /\ since = [s \in Signals |-> 0]
        /\ checked = NothingFound

-----------------------------------------------------------------------------
(* A reporter composes a mail and leaves the critical section with it. *)
Decide(r) == \E m \in Mails :
               /\ mail[m] = "none" /\ \A n \in Mails : n < m => mail[n] # "none"
               /\ mail' = [mail EXCEPT ![m] = "decided"]
               /\ holding' = [holding EXCEPT ![r] = m]

(* notifyOnTransition with a failing result. *)
ReportFailure(r, s) == /\ holding[r] = NoMail
                       /\ Decide(r)
                       /\ prevFailed' = [prevFailed EXCEPT ![s] = TRUE]
                       /\ since' = [since EXCEPT ![s] = @ + 1]
                       /\ UNCHANGED <<gate, lastError>>

(* A bug to catch: a recovery leaves the flag up. *)
ReportSuccessKeepingFlag(r, s) == /\ holding[r] = NoMail
                                  /\ prevFailed[s]
                                  /\ Decide(r)
                                  /\ since' = [since EXCEPT ![s] = 0]
                                  /\ UNCHANGED <<gate, prevFailed, lastError>>

(* notifyOnTransition with a good result; without a failure before it       *)
(* nothing changes.                                                         *)
ReportSuccess(r, s) == /\ holding[r] = NoMail
                       /\ prevFailed[s]
                       /\ Decide(r)
                       /\ prevFailed' = [prevFailed EXCEPT ![s] = FALSE]
                       /\ since' = [since EXCEPT ![s] = 0]
                       /\ UNCHANGED <<gate, lastError>>

(* CheckHealthAndAlert with a report: NotifyHealthAlert.                    *)
CheckHealth(r, report) ==
  /\ checked' = [needsMaintenance |-> NeedsMaintenance(report),
                 longRunning |-> report.queries # << >>]
  /\ \/ HasIssues(report) /\ ReportFailure(r, DbHealth)
     \/ ~HasIssues(report) /\ ReportSuccess(r, DbHealth)
     \/ /\ ~HasIssues(report) /\ ~prevFailed[DbHealth] /\ holding[r] = NoMail
        /\ UNCHANGED <<gate, prevFailed, holding, mail, lastError, since>>

(* CheckHealthAndAlert when a query fails: NotifyHealthCheckError.          *)
CheckHealthFails(r) == ReportFailure(r, DbHealth) /\ checked' = NothingFound

(* A bug to catch: a reporter that waits for a runner to open. *)
SendWhenOpen(r) == /\ holding[r] # NoMail
                   /\ Gate!Admit(holding[r])
                   /\ holding' = [holding EXCEPT ![r] = NoMail]
                   /\ mail' = [mail EXCEPT ![holding[r]] = "sending"]
                   /\ UNCHANGED <<prevFailed, lastError, since, checked>>

SendAsync(r) ==
  LET m == holding[r] IN
  /\ m # NoMail
  /\ holding' = [holding EXCEPT ![r] = NoMail]
  /\ \/ /\ Gate!Admit(m)
        /\ mail' = [mail EXCEPT ![m] = "sending"]
        /\ UNCHANGED lastError
     \/ /\ phase # "open"
        /\ mail' = [mail EXCEPT ![m] = "lost"]
        /\ lastError' = TRUE
        /\ UNCHANGED gate
  /\ UNCHANGED <<prevFailed, since, checked>>

(* The goroutine of a mail: Send, trackError, wg.Done(). *)
Send(m) == /\ mail[m] = "sending"
           /\ \/ /\ mail' = [mail EXCEPT ![m] = "delivered"]
                 /\ UNCHANGED lastError
              \/ /\ mail' = [mail EXCEPT ![m] = "lost"]
                 /\ lastError' = TRUE
           /\ Gate!Leave(m)
           /\ UNCHANGED <<prevFailed, holding, since, checked>>

Close == /\ Gate!BeginClose \/ Gate!Close
         /\ UNCHANGED <<prevFailed, holding, mail, lastError, since, checked>>

Report(r, s) == (ReportFailure(r, s) \/ ReportSuccess(r, s)) /\ UNCHANGED checked

Next == \/ \E r \in Reporters : \/ \E s \in Signals \ {DbHealth} : Report(r, s)
                                \/ \E report \in Reports : CheckHealth(r, report)
                                \/ CheckHealthFails(r)
        \/ \E r \in Reporters : SendAsync(r)
        \/ \E m \in Mails : Send(m)
        \/ Close

Spec == Init /\ [][Next]_vars

(* Reporters and mail goroutines are scheduled, and Send ends. *)
Fairness == /\ \A r \in Reporters : WF_vars(SendAsync(r))
            /\ \A m \in Mails : WF_vars(Send(m))

FairSpec == Spec /\ Fairness

-----------------------------------------------------------------------------
(* The flag says what the mails say: a recovery is mailed exactly when a    *)
(* failure was mailed after the last recovery, however reporters of one     *)
(* signal overlap.                                                          *)
FlagMatchesMails == \A s \in Signals : prevFailed[s] <=> since[s] > 0

(* The comment of Close(): it waits for the background sends, so no mail is *)
(* in flight after it, and one decided later is dropped, not sent.          *)
NoSendAfterClose == phase = "closed" => \A m \in Mails : mail[m] # "sending"

(* No mail is lost in silence: the health endpoint shows an error once one  *)
(* failed or was dropped at shutdown.                                       *)
LossVisible == (\E m \in Mails : mail[m] = "lost") => lastError

(* Every mail that was decided is delivered or lost in the end. *)
MailsEnd == \A m \in Mails : mail[m] = "decided" ~> mail[m] \in {"delivered", "lost"}

(* A table that needs VACUUM or ANALYZE and a query that runs too long keep *)
(* the health signal up: /api/db/maintenance/health never shows work to do  *)
(* that the scheduled check does not mail about.                            *)
MaintenanceMailed ==
  checked.needsMaintenance \/ checked.longRunning => prevFailed[DbHealth]
=============================================================================
