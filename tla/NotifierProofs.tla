--------------------------- MODULE NotifierProofs ---------------------------
(***************************************************************************)
(* Proofs about Notifier, for any signals, reporters, thresholds and       *)
(* reports of a health check: the flag of a signal agrees with its mails,  *)
(* no mail is under way once Close() returned or lost in silence, and work *)
(* a health check finds is mailed about.                                   *)
(***************************************************************************)
EXTENDS Notifier, TLAPS

(* A mail is with one reporter until it is handed over. *)
Held == /\ \A r \in Reporters : holding[r] # NoMail => mail[holding[r]] = "decided"
        /\ \A r, q \in Reporters : holding[r] # NoMail /\ holding[r] = holding[q] => r = q

(* The runner tracks the goroutines of the mails being sent, and Close()    *)
(* returns when there is none.                                              *)
Tracked == /\ tracked = {m \in Mails : mail[m] = "sending"}
           /\ phase = "closed" => tracked = {}

Inv == /\ TypeOK /\ Held /\ Tracked
       /\ FlagMatchesMails /\ LossVisible /\ MaintenanceMailed

USE NotifierAssumption DEF NotifierAssumption

-----------------------------------------------------------------------------
(* What every report that composes a mail does, whatever the signal.        *)
LEMMA DecideStep ==
  ASSUME TypeOK, Held, Tracked, LossVisible, NEW r \in Reporters,
         holding[r] = NoMail, Decide(r), UNCHANGED <<gate, lastError>>
  PROVE  /\ holding' \in [Reporters -> Mails \cup {NoMail}]
         /\ mail' \in [Mails -> MailStates]
         /\ Held' /\ Tracked' /\ LossVisible'
<1>1. PICK m \in Mails : /\ mail[m] = "none"
                         /\ mail' = [mail EXCEPT ![m] = "decided"]
                         /\ holding' = [holding EXCEPT ![r] = m]
  BY DEF Decide
<1>2. m # NoMail /\ \A q \in Reporters : holding[q] # m
  BY <1>1 DEF Held, Mails, NoMail
<1>3. holding' \in [Reporters -> Mails \cup {NoMail}] /\ mail' \in [Mails -> MailStates]
  BY <1>1 DEF TypeOK, MailStates
<1>4. Held'
  BY <1>1, <1>2 DEF TypeOK, Held
<1>5. Tracked'
  BY <1>1 DEF TypeOK, Tracked, gate
<1>6. LossVisible'
  BY <1>1 DEF TypeOK, LossVisible
<1>7. QED
  BY <1>3, <1>4, <1>5, <1>6

(* A failure raises the flag and counts, a recovery lowers it and starts    *)
(* the count anew.                                                          *)
LEMMA FailureStep ==
  ASSUME TypeOK, Held, Tracked, LossVisible, FlagMatchesMails,
         NEW r \in Reporters, NEW s \in Signals, ReportFailure(r, s),
         checked' \in [needsMaintenance : BOOLEAN, longRunning : BOOLEAN]
  PROVE  /\ TypeOK' /\ Held' /\ Tracked' /\ LossVisible' /\ FlagMatchesMails'
         /\ prevFailed'[s] /\ \A x \in Signals \ {s} : prevFailed'[x] = prevFailed[x]
<1>1. /\ holding' \in [Reporters -> Mails \cup {NoMail}] /\ mail' \in [Mails -> MailStates]
      /\ Held' /\ Tracked' /\ LossVisible'
  BY DecideStep DEF ReportFailure
<1>2. /\ prevFailed' = [prevFailed EXCEPT ![s] = TRUE]
      /\ since' = [since EXCEPT ![s] = @ + 1]
      /\ UNCHANGED <<phase, tracked, primary, lastError>>
  BY DEF ReportFailure, gate
<1>3. since' \in [Signals -> Nat] /\ since'[s] = since[s] + 1
      /\ \A x \in Signals \ {s} : since'[x] = since[x]
  BY <1>2 DEF TypeOK
<1>4. /\ prevFailed' \in [Signals -> BOOLEAN] /\ prevFailed'[s]
      /\ \A x \in Signals \ {s} : prevFailed'[x] = prevFailed[x]
  BY <1>2, Zenon DEF TypeOK
<1>5. TypeOK'
  BY <1>1, <1>2, <1>3, <1>4 DEF TypeOK
<1>6. since'[s] > 0
  BY <1>3 DEF TypeOK
<1>7. FlagMatchesMails'
  BY <1>3, <1>4, <1>6, Zenon DEF FlagMatchesMails
<1>8. QED
  BY <1>1, <1>4, <1>5, <1>7

LEMMA SuccessStep ==
  ASSUME TypeOK, Held, Tracked, LossVisible, FlagMatchesMails,
         NEW r \in Reporters, NEW s \in Signals, ReportSuccess(r, s),
         checked' \in [needsMaintenance : BOOLEAN, longRunning : BOOLEAN]
  PROVE  /\ TypeOK' /\ Held' /\ Tracked' /\ LossVisible' /\ FlagMatchesMails'
         /\ \A x \in Signals \ {s} : prevFailed'[x] = prevFailed[x]
<1>1. /\ holding' \in [Reporters -> Mails \cup {NoMail}] /\ mail' \in [Mails -> MailStates]
      /\ Held' /\ Tracked' /\ LossVisible'
  BY DecideStep DEF ReportSuccess
<1>2. /\ prevFailed' = [prevFailed EXCEPT ![s] = FALSE]
      /\ since' = [since EXCEPT ![s] = 0]
      /\ UNCHANGED <<phase, tracked, primary, lastError>>
  BY DEF ReportSuccess, gate
<1>3. since' \in [Signals -> Nat] /\ ~(since'[s] > 0)
      /\ \A x \in Signals \ {s} : since'[x] = since[x]
  BY <1>2 DEF TypeOK
<1>4. /\ prevFailed' \in [Signals -> BOOLEAN] /\ ~prevFailed'[s]
      /\ \A x \in Signals \ {s} : prevFailed'[x] = prevFailed[x]
  BY <1>2, Zenon DEF TypeOK
<1>5. TypeOK'
  BY <1>1, <1>2, <1>3, <1>4 DEF TypeOK
<1>6. FlagMatchesMails'
  BY <1>3, <1>4, Zenon DEF FlagMatchesMails
<1>7. QED
  BY <1>1, <1>4, <1>5, <1>6

(* A table that needs VACUUM or ANALYZE, and a query that runs too long,    *)
(* are always worth a mail: each condition of NeedsMaintenance has its      *)
(* advice in checkTableHealth.                                              *)
LEMMA MaintenanceIsAnIssue ==
  ASSUME NEW r, NeedsMaintenance(r) \/ r.queries # << >>
  PROVE  HasIssues(r)
<1>1. ASSUME NEW t, NeedsVacuum(t) \/ NeedsAnalyze(t)
      PROVE  Advised(t)
  BY <1>1 DEF NeedsVacuum, NeedsAnalyze, Advised
<1>2. QED
  BY <1>1 DEF NeedsMaintenance, HasIssues, Recommends

-----------------------------------------------------------------------------
LEMMA InitInv == Init => Inv
<1> SUFFICES ASSUME Init PROVE Inv
    OBVIOUS
<1>1. TypeOK /\ Held /\ Tracked /\ LossVisible
  BY DEF Init, TypeOK, Held, Tracked, LossVisible, MailStates, NothingFound
<1>2. \A s \in Signals : ~prevFailed[s] /\ ~(since[s] > 0)
  BY DEF Init
<1>3. ~checked.needsMaintenance /\ ~checked.longRunning
  BY DEF Init, NothingFound
<1>4. QED
  BY <1>1, <1>2, <1>3, Zenon DEF Inv, FlagMatchesMails, MaintenanceMailed

LEMMA InvStep == Inv /\ [Next]_vars => Inv'
<1> SUFFICES ASSUME Inv, [Next]_vars PROVE Inv'
    OBVIOUS
<1>0. TypeOK /\ Held /\ Tracked /\ FlagMatchesMails /\ LossVisible /\ MaintenanceMailed
  BY DEF Inv
<1> DEFINE Checks == [needsMaintenance : BOOLEAN, longRunning : BOOLEAN]
<1>1. CASE UNCHANGED vars
  BY <1>0, <1>1 DEF vars, gate, Inv, TypeOK, Held, Tracked, FlagMatchesMails, LossVisible,
                    MaintenanceMailed
<1>2. ASSUME NEW r \in Reporters, NEW s \in Signals \ {DbHealth}, Report(r, s)
      PROVE  Inv'
  <2>1. checked' = checked /\ checked' \in Checks
    BY <1>0, <1>2 DEF Report, TypeOK
  <2>2. (ReportFailure(r, s) \/ ReportSuccess(r, s)) /\ prevFailed[DbHealth] \in BOOLEAN
    BY <1>0, <1>2 DEF Report, TypeOK
  <2>3. /\ TypeOK' /\ Held' /\ Tracked' /\ LossVisible' /\ FlagMatchesMails'
        /\ prevFailed'[DbHealth] = prevFailed[DbHealth]
    BY <1>0, <2>1, <2>2, FailureStep, SuccessStep
  <2>4. MaintenanceMailed'
    BY <1>0, <2>1, <2>3, Zenon DEF MaintenanceMailed
  <2>5. QED
    BY <2>3, <2>4 DEF Inv
<1>3. ASSUME NEW r \in Reporters, NEW report \in Reports, CheckHealth(r, report)
      PROVE  Inv'
  <2>1. checked' = [needsMaintenance |-> NeedsMaintenance(report),
                    longRunning |-> report.queries # << >>]
    BY <1>3 DEF CheckHealth
  <2>2. NeedsMaintenance(report) \in BOOLEAN
    BY DEF NeedsMaintenance
  <2>3. checked' \in Checks
    BY <2>1, <2>2
  <2>4. CASE HasIssues(report) /\ ReportFailure(r, DbHealth)
    <3>1. /\ TypeOK' /\ Held' /\ Tracked' /\ LossVisible' /\ FlagMatchesMails'
          /\ prevFailed'[DbHealth]
      BY <1>0, <2>3, <2>4, FailureStep
    <3>2. QED
      BY <3>1, Zenon DEF Inv, MaintenanceMailed
  <2>5. CASE ~HasIssues(report)
    <3>1. ~checked'.needsMaintenance /\ ~checked'.longRunning
      BY <2>1, <2>5, MaintenanceIsAnIssue
    <3>2. MaintenanceMailed'
      BY <3>1 DEF MaintenanceMailed
    <3>3. CASE ReportSuccess(r, DbHealth)
      BY <1>0, <2>3, <3>2, <3>3, SuccessStep DEF Inv
    <3>4. CASE UNCHANGED <<gate, prevFailed, holding, mail, lastError, since>>
      <4>1. TypeOK'
        BY <1>0, <2>3, <3>4 DEF gate, TypeOK
      <4>2. Held' /\ Tracked' /\ LossVisible'
        BY <1>0, <3>4 DEF gate, Held, Tracked, LossVisible
      <4>3. FlagMatchesMails'
        BY <1>0, <3>4, Zenon DEF FlagMatchesMails
      <4>4. QED
        BY <4>1, <4>2, <4>3, <3>2 DEF Inv
    <3>5. QED
      BY <1>3, <2>5, <3>3, <3>4 DEF CheckHealth
  <2>6. QED
    BY <1>3, <2>4, <2>5 DEF CheckHealth
<1>4. ASSUME NEW r \in Reporters, CheckHealthFails(r) PROVE Inv'
  <2>1. checked' = NothingFound /\ ReportFailure(r, DbHealth)
    BY <1>4 DEF CheckHealthFails
  <2>2. checked' \in Checks
    BY <2>1 DEF NothingFound
  <2>3. /\ TypeOK' /\ Held' /\ Tracked' /\ LossVisible' /\ FlagMatchesMails'
        /\ prevFailed'[DbHealth]
    BY <1>0, <2>1, <2>2, FailureStep
  <2>4. QED
    BY <2>3, Zenon DEF Inv, MaintenanceMailed
<1>5. ASSUME NEW r \in Reporters, SendAsync(r) PROVE Inv'
  <2> DEFINE m == holding[r]
  <2>1. m \in Mails /\ mail[m] = "decided" /\ \A q \in Reporters \ {r} : holding[q] # m
    BY <1>0, <1>5 DEF SendAsync, TypeOK, Held
  <2>2. /\ holding' = [holding EXCEPT ![r] = NoMail]
        /\ UNCHANGED <<prevFailed, since, checked>>
    BY <1>5 DEF SendAsync
  <2>3. FlagMatchesMails' /\ MaintenanceMailed'
    BY <1>0, <2>2, Zenon DEF FlagMatchesMails, MaintenanceMailed
  <2>4. CASE /\ Gate!Admit(m) /\ mail' = [mail EXCEPT ![m] = "sending"]
             /\ UNCHANGED lastError
    <3>1. TypeOK'
      BY <1>0, <2>1, <2>2, <2>4 DEF TypeOK, MailStates, Gate!Admit
    <3>2. Held'
      BY <1>0, <2>1, <2>2, <2>4 DEF TypeOK, Held
    <3>3. Tracked'
      BY <1>0, <2>1, <2>4 DEF TypeOK, Tracked, Gate!Admit
    <3>4. LossVisible'
      BY <1>0, <2>1, <2>4 DEF TypeOK, LossVisible
    <3>5. QED
      BY <2>3, <3>1, <3>2, <3>3, <3>4 DEF Inv
  <2>5. CASE /\ mail' = [mail EXCEPT ![m] = "lost"] /\ lastError' = TRUE /\ UNCHANGED gate
    <3>1. TypeOK'
      BY <1>0, <2>1, <2>2, <2>5 DEF TypeOK, MailStates, gate
    <3>2. Held'
      BY <1>0, <2>1, <2>2, <2>5 DEF TypeOK, Held
    <3>3. Tracked' /\ LossVisible'
      BY <1>0, <2>1, <2>5 DEF TypeOK, Tracked, LossVisible, gate
    <3>4. QED
      BY <2>3, <3>1, <3>2, <3>3 DEF Inv
  <2>6. QED
    BY <1>5, <2>4, <2>5 DEF SendAsync
<1>6. ASSUME NEW m \in Mails, Send(m) PROVE Inv'
  <2>1. /\ mail[m] = "sending" /\ Gate!Leave(m)
        /\ UNCHANGED <<prevFailed, holding, since, checked>>
    BY <1>6 DEF Send
  <2>2. PICK end \in {"delivered", "lost"} :
          /\ mail' = [mail EXCEPT ![m] = end]
          /\ lastError' = IF end = "lost" THEN TRUE ELSE lastError
    BY <1>6 DEF Send
  <2>3. FlagMatchesMails' /\ MaintenanceMailed'
    BY <1>0, <2>1, Zenon DEF FlagMatchesMails, MaintenanceMailed
  <2>4. TypeOK'
    BY <1>0, <2>1, <2>2 DEF TypeOK, MailStates, Gate!Leave
  <2>5. Held'
    BY <1>0, <2>1, <2>2 DEF TypeOK, Held
  <2>6. Tracked'
    BY <1>0, <2>1, <2>2 DEF TypeOK, Tracked, Gate!Leave
  <2>7. LossVisible'
    BY <1>0, <2>1, <2>2 DEF TypeOK, LossVisible
  <2>8. QED
    BY <2>3, <2>4, <2>5, <2>6, <2>7 DEF Inv
<1>7. CASE Close
  <2>1. UNCHANGED <<tracked, primary, prevFailed, holding, mail, lastError, since, checked>>
        /\ phase' \in {"closing", "closed"} /\ (phase' = "closed" => tracked = {})
    BY <1>7 DEF Close, Gate!BeginClose, Gate!Close
  <2>2. TypeOK' /\ Held' /\ Tracked' /\ LossVisible'
    BY <1>0, <2>1 DEF TypeOK, Held, Tracked, LossVisible
  <2>3. FlagMatchesMails' /\ MaintenanceMailed'
    BY <1>0, <2>1, Zenon DEF FlagMatchesMails, MaintenanceMailed
  <2>4. QED
    BY <2>2, <2>3 DEF Inv
<1>8. QED
  BY <1>1, <1>2, <1>3, <1>4, <1>5, <1>6, <1>7 DEF Next

LEMMA Invariance == Spec => []Inv
  BY InitInv, InvStep, PTL DEF Spec

-----------------------------------------------------------------------------
(* Types are correct in every reachable state. *)
THEOREM TypeCorrect == Spec => []TypeOK
<1>1. Inv => TypeOK
  BY DEF Inv
<1>2. QED
  BY <1>1, Invariance, PTL

(* A recovery is mailed exactly when a failure was mailed since the last    *)
(* one, for any number of signals and overlapping reporters.                *)
THEOREM FlagsAgree == Spec => []FlagMatchesMails
<1>1. Inv => FlagMatchesMails
  BY DEF Inv
<1>2. QED
  BY <1>1, Invariance, PTL

(* When Close() has returned no mail is being sent, nor will be. *)
THEOREM CloseDrainsMails == Spec => []NoSendAfterClose
<1>1. Inv => NoSendAfterClose
  BY DEF Inv, Tracked, NoSendAfterClose
<1>2. QED
  BY <1>1, Invariance, PTL

(* A mail that failed, or was dropped at shutdown, shows in LastError(). *)
THEOREM NoSilentLoss == Spec => []LossVisible
<1>1. Inv => LossVisible
  BY DEF Inv
<1>2. QED
  BY <1>1, Invariance, PTL

(* What the maintenance endpoint shows as needing work, the scheduled check *)
(* has mailed about, whatever the thresholds.                               *)
THEOREM WorkIsMailed == Spec => []MaintenanceMailed
<1>1. Inv => MaintenanceMailed
  BY DEF Inv
<1>2. QED
  BY <1>1, Invariance, PTL
=============================================================================
