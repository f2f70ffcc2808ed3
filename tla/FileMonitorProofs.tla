------------------------- MODULE FileMonitorProofs --------------------------
(***************************************************************************)
(* Proofs about FileMonitor, for any paths, triggers and readers and any   *)
(* number of runs and restarts: snapshots are consistent, alerts and       *)
(* recoveries are paired, the first run is silent.  Then the active        *)
(* windows of its checks and the configuration they come from, for every   *)
(* length of the day and integer width.                                    *)
(***************************************************************************)
EXTENDS FileMonitor, Config, TLAPS

Decided == {"alerts", "recoveries", "publish", "publishing"}
Numbered == {"stat", "process"} \cup Decided
Single == {"entered", "starting", "finishing"} \cup Numbered

At(labels) == \E t \in Triggers : pc[t] \in labels

(* At most one trigger has a run, and it is the primary of the gate. *)
OneRun == /\ primary = {t \in Triggers : pc[t] \in Single}
          /\ \A t, u \in Triggers : pc[t] \in Single /\ pc[u] \in Single => t = u

(* The ids run ahead of the published results by the run under way. *)
IdsAgree == /\ lastCheck.id = completedRunID
            /\ completedRunID <= runID
            /\ IF At(Numbered) THEN run.id = runID /\ runID > 0
                               ELSE completedRunID = runID

(* A reader that saw no run keeps the next one from taking its number. *)
ReadersSafe ==
  \A r \in Readers : /\ snap[r].read = "running" => r \in reading
                     /\ snap[r].read = "running" /\ ~snap[r].running
                          => completedRunID = runID

(* What a run decided and has not mailed yet. *)
DueAlerts == IF At({"alerts"}) THEN run.alerts ELSE {}
DueRecoveries == IF At({"alerts", "recoveries"}) THEN run.recoveries ELSE {}

(* The mails follow the alert state, but for those that are due. *)
Balanced ==
  \A p \in Paths :
     /\ p \in DueAlerts => alertState[p] /\ p \notin DueRecoveries
     /\ p \in DueRecoveries => ~alertState[p]
     /\ mail[p].alerts = mail[p].recoveries
          + IF p \in DueRecoveries \/ (alertState[p] /\ p \notin DueAlerts) THEN 1 ELSE 0

(* Before a run has decided it has nothing to say; what it calls an alert,  *)
(* and what the last run published as one, is in alert.                     *)
AlertsBacked ==
  /\ At({"stat", "process"}) => /\ run.alerts = {} /\ run.recoveries = {}
                                /\ run.inAlert = {}
  /\ IF At(Decided) THEN \A p \in run.inAlert : alertState[p]
                    ELSE \A p \in lastCheck.inAlert : alertState[p]

(* The first run of a process finds the grace period and says nothing. *)
Quiet == /\ graceRunDone /\ ~At(Decided) => completedRunID > 0
         /\ completedRunID = 0 => /\ mail = NoMail
                                  /\ At(Decided) => run.alerts = {} /\ run.recoveries = {}

Inv == /\ TypeOK /\ OneRun /\ IdsAgree /\ ReadersSafe /\ SnapshotConsistent
       /\ Balanced /\ AlertsBacked /\ Quiet

-----------------------------------------------------------------------------
LEMMA InitInv == Init => Inv
<1> SUFFICES ASSUME Init PROVE Inv
    OBVIOUS
<1>1. \A t \in Triggers : pc[t] = "idle"
  BY DEF Init
<1>2. ~At(Decided) /\ ~At(Numbered) /\ ~At({"alerts"}) /\ ~At({"stat", "process"})
      /\ ~At({"alerts", "recoveries"})
  BY <1>1 DEF At, Decided, Numbered
<1>3. TypeOK
  BY DEF Init, TypeOK, PC, NoCheck, NoRun, NoMail, NoSnap
<1>4. OneRun
  BY <1>1 DEF Init, OneRun, Single, Numbered, Decided
<1>5. IdsAgree /\ ReadersSafe /\ SnapshotConsistent
  BY <1>2 DEF Init, IdsAgree, ReadersSafe, SnapshotConsistent, NoCheck, NoSnap
<1>6. Balanced
  BY <1>2 DEF Init, Balanced, DueAlerts, DueRecoveries, NoMail
<1>7. AlertsBacked /\ Quiet
  BY <1>2 DEF Init, AlertsBacked, Quiet, NoCheck
<1>8. QED
  BY <1>3, <1>4, <1>5, <1>6, <1>7 DEF Inv

(* Where the only run is, no other trigger is. *)
LEMMA OnlyRun ==
  ASSUME TypeOK, OneRun, NEW t \in Triggers, pc[t] \in Single, NEW label,
         Goto(t, label)
  PROVE  /\ \A u \in Triggers \ {t} : pc'[u] = pc[u] /\ pc[u] \notin Single
         /\ pc'[t] = label
         /\ \A labels \in SUBSET Single : (At(labels) <=> pc[t] \in labels)
                                       /\ (At(labels)' <=> label \in labels)
<1>1. pc' = [pc EXCEPT ![t] = label] /\ pc \in [Triggers -> PC]
  BY DEF Goto, TypeOK
<1>2. \A u \in Triggers \ {t} : pc'[u] = pc[u] /\ pc[u] \notin Single
  BY <1>1 DEF OneRun
<1>3. pc'[t] = label
  BY <1>1
<1>4. QED
  BY <1>2, <1>3 DEF At

(* A trigger that has no run moves without one. *)
LEMMA NoRunMoves ==
  ASSUME TypeOK, NEW t \in Triggers, pc[t] \notin Single, NEW label, label \notin Single,
         Goto(t, label)
  PROVE  /\ \A u \in Triggers : pc'[u] \in Single <=> pc[u] \in Single
         /\ \A labels \in SUBSET Single : At(labels)' <=> At(labels)
<1>1. pc' = [pc EXCEPT ![t] = label] /\ pc \in [Triggers -> PC]
  BY DEF Goto, TypeOK
<1>2. \A u \in Triggers \ {t} : pc'[u] = pc[u]
  BY <1>1
<1>3. pc'[t] = label
  BY <1>1
<1>4. QED
  BY <1>2, <1>3 DEF At

(* What the ids, the mails and the alert state say of each other. *)
Facts == /\ IdsAgree /\ ReadersSafe /\ SnapshotConsistent
         /\ Balanced /\ AlertsBacked /\ Quiet

Milestones == {Numbered, Decided, {"alerts"}, {"alerts", "recoveries"}, {"stat", "process"}}

(* Whoever moves without touching data, and past no milestone, changes      *)
(* nothing that matters.                                                    *)
LEMMA Unmoved ==
  ASSUME Facts, UNCHANGED <<published, run, alerting, status>>,
         \A labels \in Milestones : At(labels)' <=> At(labels)
  PROVE  Facts'
<1>1. /\ At(Numbered)' <=> At(Numbered)
      /\ At(Decided)' <=> At(Decided)
      /\ At({"alerts"})' <=> At({"alerts"})
      /\ At({"alerts", "recoveries"})' <=> At({"alerts", "recoveries"})
      /\ At({"stat", "process"})' <=> At({"stat", "process"})
  BY Zenon DEF Milestones
<1>2. /\ UNCHANGED <<runID, completedRunID, lastCheck, run, alertState, graceRunDone>>
      /\ UNCHANGED <<mail, reading, snap>>
  BY DEF published, alerting, status
<1>3. IdsAgree' /\ ReadersSafe' /\ SnapshotConsistent'
  BY <1>1, <1>2 DEF Facts, IdsAgree, ReadersSafe, SnapshotConsistent
<1>4. DueAlerts' = DueAlerts /\ DueRecoveries' = DueRecoveries
  BY <1>1, <1>2, Zenon DEF DueAlerts, DueRecoveries
<1>5. Balanced'
  BY <1>2, <1>4 DEF Facts, Balanced
<1>6. AlertsBacked' /\ Quiet'
  BY <1>1, <1>2, Zenon DEF Facts, AlertsBacked, Quiet
<1>7. QED
  BY <1>3, <1>5, <1>6 DEF Facts

LEMMA MilestonesSingle == Milestones \subseteq SUBSET Single
  BY DEF Milestones, Single, Numbered, Decided

-----------------------------------------------------------------------------
(* The gate. *)
LEMMA TryStartStep ==
  ASSUME Inv, NEW t \in Triggers, TryStart(t) PROVE Inv'
<1>1. pc[t] = "idle" /\ Goto(t, "admitted") /\ Gate!Admit(t)
      /\ UNCHANGED <<published, run, alerting, status, restarts>>
  BY DEF TryStart
<1>2. pc[t] \notin Single /\ "admitted" \notin Single
  BY <1>1 DEF Single, Numbered, Decided
<1>3. /\ \A u \in Triggers : pc'[u] \in Single <=> pc[u] \in Single
      /\ \A labels \in SUBSET Single : At(labels)' <=> At(labels)
  BY <1>1, <1>2, NoRunMoves DEF Inv
<1>4. TypeOK'
  BY <1>1 DEF Inv, TypeOK, PC, Gate!Admit, Goto, published, alerting, status
<1>5. OneRun'
  BY <1>1, <1>3 DEF Inv, OneRun, Gate!Admit
<1>6. Facts'
  BY <1>1, <1>3, Unmoved, MilestonesSingle DEF Inv, Facts
<1>7. QED
  BY <1>4, <1>5, <1>6 DEF Inv, Facts

LEMMA EnterStep ==
  ASSUME Inv, NEW t \in Triggers, Enter(t) PROVE Inv'
<1>1. pc[t] = "admitted" /\ pc' = [pc EXCEPT ![t] = "entered"]
      /\ primary = {} /\ primary' = {t} /\ UNCHANGED <<phase, tracked>>
      /\ UNCHANGED <<published, run, alerting, status, restarts>>
  BY DEF Enter, Gate!Enter, Goto
<1>2. \A u \in Triggers : pc[u] \notin Single
  BY <1>1 DEF Inv, OneRun
<1>3. \A u \in Triggers \ {t} : pc'[u] = pc[u]
  BY <1>1 DEF Inv, TypeOK
<1>4. pc'[t] = "entered"
  BY <1>1 DEF Inv, TypeOK
<1>5. TypeOK'
  BY <1>1 DEF Inv, TypeOK, PC, published, alerting, status
<1>6. OneRun'
  BY <1>1, <1>2, <1>3, <1>4 DEF OneRun, Single
<1>7. \A labels \in Milestones : "entered" \notin labels
  BY DEF Milestones, Numbered, Decided
<1>8. \A labels \in Milestones : ~At(labels) /\ ~At(labels)'
  BY <1>2, <1>3, <1>4, <1>7, MilestonesSingle DEF At
<1>9. Facts'
  BY <1>1, <1>8, Unmoved DEF Inv, Facts
<1>10. QED
  BY <1>5, <1>6, <1>9 DEF Inv, Facts

(* The steps of a run that publish and decide nothing. *)
LEMMA PlainStep ==
  ASSUME Inv, NEW t \in Triggers,
         Conflict(t) \/ Lock(t) \/ Finish(t) \/ Leave(t)
  PROVE  Inv'
<1>1. UNCHANGED <<published, run, alerting, status, restarts>>
  BY DEF Conflict, Lock, Finish, Leave
<1>2. CASE Conflict(t) \/ Leave(t)
  <2>1. PICK label \in {"leaving", "idle"} : Goto(t, label)
    BY <1>2 DEF Conflict, Leave
  <2>2. pc[t] \notin Single /\ label \notin Single
    BY <1>2 DEF Conflict, Leave, Single, Numbered, Decided
  <2>3. primary' = primary /\ tracked' \subseteq tracked
        /\ phase' \in {phase, "closed"}
    BY <1>2 DEF Conflict, Leave, Gate!Leave, gate
  <2>4. /\ \A u \in Triggers : pc'[u] \in Single <=> pc[u] \in Single
        /\ \A labels \in SUBSET Single : At(labels)' <=> At(labels)
    BY <2>1, <2>2, NoRunMoves DEF Inv
  <2>5. TypeOK'
    BY <1>1, <2>1, <2>3 DEF Inv, TypeOK, PC, Goto, published, alerting, status
  <2>6. OneRun'
    BY <2>3, <2>4 DEF Inv, OneRun
  <2>7. Facts'
    BY <1>1, <2>4, Unmoved, MilestonesSingle DEF Inv, Facts
  <2>8. QED
    BY <2>5, <2>6, <2>7 DEF Inv, Facts
<1>3. CASE Lock(t)
  <2>1. PICK label \in {"starting", "publishing"} :
          /\ Goto(t, label)
          /\ label = "starting" => pc[t] = "entered"
          /\ label = "publishing" => pc[t] = "publish"
    BY <1>3 DEF Lock
  <2>2. pc[t] \in Single /\ label \in Single /\ UNCHANGED <<phase, tracked, primary>>
    BY <1>3, <2>1 DEF Lock, Single, Numbered, Decided, gate
  <2>3. /\ \A u \in Triggers \ {t} : pc'[u] = pc[u] /\ pc[u] \notin Single
        /\ pc'[t] = label
        /\ \A labels \in SUBSET Single : (At(labels) <=> pc[t] \in labels)
                                       /\ (At(labels)' <=> label \in labels)
    BY <2>1, <2>2, OnlyRun DEF Inv
  <2>4. \A labels \in Milestones : pc[t] \in labels <=> label \in labels
    BY <2>1 DEF Milestones, Numbered, Decided
  <2>5. TypeOK'
    BY <1>1, <2>1, <2>2 DEF Inv, TypeOK, PC, Goto, published, alerting, status
  <2>6. OneRun'
    BY <2>2, <2>3 DEF Inv, OneRun
  <2>7. Facts'
    BY <1>1, <2>3, <2>4, Unmoved, MilestonesSingle DEF Inv, Facts
  <2>8. QED
    BY <2>5, <2>6, <2>7 DEF Inv, Facts
<1>4. CASE Finish(t)
  <2>1. pc[t] = "finishing" /\ Goto(t, "leaving") /\ primary' = {}
        /\ UNCHANGED <<phase, tracked>>
    BY <1>4 DEF Finish, Gate!Exit
  <2>2. pc[t] \in Single /\ "leaving" \notin Single
    BY <2>1 DEF Single, Numbered, Decided
  <2>3. /\ \A u \in Triggers \ {t} : pc'[u] = pc[u] /\ pc[u] \notin Single
        /\ pc'[t] = "leaving"
        /\ \A labels \in SUBSET Single : (At(labels) <=> pc[t] \in labels)
                                       /\ (At(labels)' <=> "leaving" \in labels)
    BY <2>1, <2>2, OnlyRun DEF Inv
  <2>4. \A labels \in Milestones : "finishing" \notin labels /\ "leaving" \notin labels
    BY DEF Milestones, Numbered, Decided
  <2>5. TypeOK'
    BY <1>1, <2>1 DEF Inv, TypeOK, PC, Goto, published, alerting, status
  <2>6. OneRun'
    BY <2>1, <2>2, <2>3 DEF OneRun
  <2>7. Facts'
    BY <1>1, <2>1, <2>3, <2>4, Unmoved, MilestonesSingle DEF Inv, Facts
  <2>8. QED
    BY <2>5, <2>6, <2>7 DEF Inv, Facts
<1>5. QED
  BY <1>2, <1>3, <1>4

-----------------------------------------------------------------------------
(* The steps of executeRun. *)

(* A step of the run from one label to the next, the gate at rest. *)
RunGoes(t, from, to) == /\ pc[t] = from /\ Goto(t, to) /\ UNCHANGED gate
                        /\ UNCHANGED restarts

LEMMA RunStepPc ==
  ASSUME Inv, NEW t \in Triggers, NEW from \in Single, NEW to \in Single,
         RunGoes(t, from, to)
  PROVE  /\ OneRun'
         /\ pc' \in [Triggers -> PC]
         /\ \A labels \in SUBSET Single : (At(labels) <=> from \in labels)
                                        /\ (At(labels)' <=> to \in labels)
<1>1. /\ \A u \in Triggers \ {t} : pc'[u] = pc[u] /\ pc[u] \notin Single
      /\ pc'[t] = to
      /\ \A labels \in SUBSET Single : (At(labels) <=> pc[t] \in labels)
                                     /\ (At(labels)' <=> to \in labels)
  BY OnlyRun DEF Inv, RunGoes
<1>2. OneRun'
  BY <1>1 DEF Inv, OneRun, RunGoes, gate
<1>3. to \in PC
  BY DEF Single, Numbered, Decided, PC
<1>4. pc' \in [Triggers -> PC]
  BY <1>3 DEF Inv, TypeOK, RunGoes, Goto
<1>5. QED
  BY <1>1, <1>2, <1>4 DEF RunGoes

LEMMA StartStep ==
  ASSUME Inv, NEW t \in Triggers, StartNewRun(t) PROVE Inv'
<1>1. /\ RunGoes(t, "starting", "stat") /\ reading = {}
      /\ runID' = runID + 1
      /\ UNCHANGED <<completedRunID, lastCheck, alerting, status>>
  BY DEF StartNewRun, RunGoes
<1>2. "starting" \in Single /\ "stat" \in Single
  BY DEF Single, Numbered
<1>3. /\ OneRun' /\ pc' \in [Triggers -> PC]
      /\ \A labels \in SUBSET Single : (At(labels) <=> "starting" \in labels)
                                     /\ (At(labels)' <=> "stat" \in labels)
  BY <1>1, <1>2, RunStepPc
<1>4. /\ ~At(Numbered) /\ At(Numbered)' /\ ~At(Decided) /\ ~At(Decided)'
      /\ DueAlerts = {} /\ DueAlerts' = {} /\ DueRecoveries = {} /\ DueRecoveries' = {}
  BY <1>3, MilestonesSingle DEF Milestones, Numbered, Decided, DueAlerts, DueRecoveries
<1>5. run' = [id |-> runID + 1, stale |-> {}, inAlert |-> {}, alerts |-> {},
              recoveries |-> {}]
  BY DEF StartNewRun, NoRun
<1>6. UNCHANGED <<lastCheck, completedRunID, alertState, graceRunDone, mail, reading, snap>>
  BY <1>1 DEF alerting, status
<1>7. TypeOK'
  <2>1. /\ runID' \in Nat
        /\ run' \in [id : Nat, stale : SUBSET Paths, inAlert : SUBSET Paths,
                     alerts : SUBSET Paths, recoveries : SUBSET Paths]
    <3>1. runID + 1 \in Nat
      BY DEF Inv, TypeOK
    <3>2. QED
      BY <1>1, <1>5, <3>1
  <2>2. QED
    BY <1>1, <1>3, <1>6, <2>1 DEF Inv, TypeOK, RunGoes, gate
<1>8. IdsAgree'
  BY <1>1, <1>4, <1>5, <1>6 DEF Inv, TypeOK, IdsAgree
<1>9. ReadersSafe'
  BY <1>1, <1>6 DEF Inv, ReadersSafe
<1>10. SnapshotConsistent'
  BY <1>6 DEF Inv, SnapshotConsistent
<1>11. Balanced'
  BY <1>4, <1>6 DEF Inv, Balanced
<1>12. AlertsBacked' /\ Quiet'
  BY <1>4, <1>5, <1>6 DEF Inv, AlertsBacked, Quiet
<1>13. QED
  BY <1>3, <1>7, <1>8, <1>9, <1>10, <1>11, <1>12 DEF Inv

LEMMA StatStep ==
  ASSUME Inv, NEW t \in Triggers, Stat(t) PROVE Inv'
<1>1. /\ RunGoes(t, "stat", "process") /\ UNCHANGED <<published, alerting, status>>
      /\ \E S \in SUBSET Paths : run' = [run EXCEPT !.stale = S]
  BY DEF Stat, RunGoes
<1>2. "stat" \in Single /\ "process" \in Single
  BY DEF Single, Numbered
<1>3. /\ OneRun' /\ pc' \in [Triggers -> PC]
      /\ \A labels \in SUBSET Single : (At(labels) <=> "stat" \in labels)
                                     /\ (At(labels)' <=> "process" \in labels)
  BY <1>1, <1>2, RunStepPc
<1>4. /\ At(Numbered) /\ At(Numbered)' /\ ~At(Decided) /\ ~At(Decided)'
      /\ At({"stat", "process"})
      /\ DueAlerts = {} /\ DueAlerts' = {} /\ DueRecoveries = {} /\ DueRecoveries' = {}
  BY <1>3, MilestonesSingle DEF Milestones, Numbered, Decided, DueAlerts, DueRecoveries
<1>5. /\ run'.id = run.id /\ run'.inAlert = run.inAlert
      /\ run'.alerts = run.alerts /\ run'.recoveries = run.recoveries
      /\ run' \in [id : Nat, stale : SUBSET Paths, inAlert : SUBSET Paths,
                   alerts : SUBSET Paths, recoveries : SUBSET Paths]
  BY <1>1 DEF Inv, TypeOK
<1>6. UNCHANGED <<runID, lastCheck, completedRunID, alertState, graceRunDone, mail,
                  reading, snap>>
  BY <1>1 DEF published, alerting, status
<1>7. TypeOK'
  BY <1>1, <1>3, <1>5, <1>6 DEF Inv, TypeOK, RunGoes, gate
<1>8. IdsAgree' /\ ReadersSafe' /\ SnapshotConsistent'
  BY <1>4, <1>5, <1>6 DEF Inv, IdsAgree, ReadersSafe, SnapshotConsistent
<1>9. Balanced'
  BY <1>4, <1>6 DEF Inv, Balanced
<1>10. AlertsBacked' /\ Quiet'
  BY <1>4, <1>5, <1>6 DEF Inv, AlertsBacked, Quiet
<1>11. QED
  BY <1>3, <1>7, <1>8, <1>9, <1>10 DEF Inv

LEMMA ProcessStep ==
  ASSUME Inv, NEW t \in Triggers, ProcessAlertStates(t) PROVE Inv'
<1>1. /\ RunGoes(t, "process", "alerts") /\ UNCHANGED <<published, mail, status>>
  BY DEF ProcessAlertStates, RunGoes
<1>2. "process" \in Single /\ "alerts" \in Single
  BY DEF Single, Numbered, Decided
<1>3. /\ OneRun' /\ pc' \in [Triggers -> PC]
      /\ \A labels \in SUBSET Single : (At(labels) <=> "process" \in labels)
                                     /\ (At(labels)' <=> "alerts" \in labels)
  BY <1>1, <1>2, RunStepPc
<1>4. /\ At(Numbered) /\ At(Numbered)' /\ ~At(Decided) /\ At(Decided)'
      /\ At({"stat", "process"}) /\ ~At({"stat", "process"})'
      /\ DueAlerts = {} /\ DueAlerts' = run'.alerts
      /\ DueRecoveries = {} /\ DueRecoveries' = run'.recoveries
  BY <1>3, MilestonesSingle DEF Milestones, Numbered, Decided, DueAlerts, DueRecoveries
<1>5. UNCHANGED <<runID, lastCheck, completedRunID, mail, reading, snap>>
  BY <1>1 DEF published, status
<1>6. run.alerts = {} /\ run.recoveries = {} /\ run.inAlert = {}
  BY <1>4 DEF Inv, AlertsBacked
<1>7. CASE ~graceRunDone /\ graceRunDone' = TRUE /\ UNCHANGED <<alertState, run>>
  <2>1. TypeOK'
    BY <1>1, <1>3, <1>5, <1>7 DEF Inv, TypeOK, RunGoes, gate
  <2>2. IdsAgree' /\ ReadersSafe' /\ SnapshotConsistent'
    BY <1>4, <1>5, <1>7 DEF Inv, IdsAgree, ReadersSafe, SnapshotConsistent
  <2>3. Balanced'
    BY <1>4, <1>5, <1>6, <1>7 DEF Inv, Balanced
  <2>4. AlertsBacked' /\ Quiet'
    BY <1>4, <1>5, <1>6, <1>7 DEF Inv, AlertsBacked, Quiet
  <2>5. QED
    BY <1>3, <2>1, <2>2, <2>3, <2>4 DEF Inv
<1>8. CASE graceRunDone
  <2>1. PICK active \in SUBSET Paths :
          /\ alertState' = [p \in Paths |->
                              IF p \in active THEN p \in run.stale ELSE alertState[p]]
          /\ run' = [run EXCEPT !.inAlert = run.stale \cap active,
                       !.alerts = {p \in run.stale \cap active : ~alertState[p]},
                       !.recoveries = {p \in active \ run.stale : alertState[p]}]
          /\ UNCHANGED graceRunDone
    BY <1>8 DEF ProcessAlertStates
  <2>2. /\ run'.id = run.id /\ run'.inAlert = run.stale \cap active
        /\ run'.alerts = {p \in run.stale \cap active : ~alertState[p]}
        /\ run'.recoveries = {p \in active \ run.stale : alertState[p]}
        /\ run' \in [id : Nat, stale : SUBSET Paths, inAlert : SUBSET Paths,
                     alerts : SUBSET Paths, recoveries : SUBSET Paths]
    BY <2>1 DEF Inv, TypeOK
  <2>3. alertState' \in [Paths -> BOOLEAN]
    <3>1. \A p \in Paths : (IF p \in active THEN p \in run.stale ELSE alertState[p])
                             \in BOOLEAN
      <4>1. \A p \in Paths : alertState[p] \in BOOLEAN
        BY Zenon DEF Inv, TypeOK
      <4>2. \A p \in Paths : (p \in run.stale) \in BOOLEAN
        OBVIOUS
      <4>3. QED
        BY <4>1, <4>2, Zenon
    <3> DEFINE moved == [p \in Paths |->
                           IF p \in active THEN p \in run.stale ELSE alertState[p]]
    <3>2. alertState' = moved
      BY <2>1
    <3>3. moved \in [Paths -> BOOLEAN]
      BY <3>1, Zenon
    <3> HIDE DEF moved
    <3>4. QED
      BY <3>2, <3>3, Zenon
  <2>4. TypeOK'
    BY <1>1, <1>3, <1>5, <2>1, <2>2, <2>3 DEF Inv, TypeOK, RunGoes, gate
  <2>5. IdsAgree' /\ ReadersSafe' /\ SnapshotConsistent'
    BY <1>4, <1>5, <2>2 DEF Inv, IdsAgree, ReadersSafe, SnapshotConsistent
  <2>6. ASSUME NEW p \in Paths
        PROVE  /\ p \in run'.alerts => alertState'[p] /\ p \notin run'.recoveries
               /\ p \in run'.recoveries => ~alertState'[p]
               /\ (p \in run'.recoveries \/ (alertState'[p] /\ p \notin run'.alerts))
                    <=> alertState[p]
    <3>1. alertState'[p] <=> IF p \in active THEN p \in run.stale ELSE alertState[p]
      BY <2>1
    <3>2. /\ p \in run'.alerts <=> p \in run.stale /\ p \in active /\ ~alertState[p]
          /\ p \in run'.recoveries <=> p \notin run.stale /\ p \in active /\ alertState[p]
      BY <2>2
    <3>3. QED
      BY <3>1, <3>2
  <2>7. \A p \in Paths : mail[p].alerts = mail[p].recoveries
                            + IF alertState[p] THEN 1 ELSE 0
    BY <1>4 DEF Inv, Balanced
  <2>8. Balanced'
    BY <1>4, <1>5, <2>6, <2>7 DEF Balanced
  <2>9. completedRunID > 0
    BY <1>4, <1>8 DEF Inv, Quiet
  <2>10. \A p \in run'.inAlert : alertState'[p]
    BY <2>1, <2>2
  <2>11. AlertsBacked' /\ Quiet'
    BY <1>4, <1>5, <2>9, <2>10 DEF Inv, TypeOK, AlertsBacked, Quiet
  <2>12. QED
    BY <1>3, <2>4, <2>5, <2>8, <2>11 DEF Inv
<1>9. QED
  BY <1>7, <1>8 DEF ProcessAlertStates

LEMMA DispatchAlertsStep ==
  ASSUME Inv, NEW t \in Triggers, DispatchAlerts(t) PROVE Inv'
<1>1. /\ RunGoes(t, "alerts", "recoveries")
      /\ UNCHANGED <<published, run, alertState, graceRunDone, status>>
  BY DEF DispatchAlerts, RunGoes
<1>2. "alerts" \in Single /\ "recoveries" \in Single
  BY DEF Single, Numbered, Decided
<1>3. /\ OneRun' /\ pc' \in [Triggers -> PC]
      /\ \A labels \in SUBSET Single : (At(labels) <=> "alerts" \in labels)
                                     /\ (At(labels)' <=> "recoveries" \in labels)
  BY <1>1, <1>2, RunStepPc
<1>4. UNCHANGED <<runID, lastCheck, completedRunID, run, alertState, graceRunDone,
                  reading, snap>>
  BY <1>1 DEF published, status
<1>5. /\ At(Numbered) /\ At(Numbered)' /\ At(Decided) /\ At(Decided)'
      /\ ~At({"stat", "process"})'
      /\ DueAlerts = run.alerts /\ DueAlerts' = {}
      /\ DueRecoveries = run.recoveries /\ DueRecoveries' = run.recoveries
  BY <1>3, <1>4, MilestonesSingle DEF Milestones, Numbered, Decided, DueAlerts, DueRecoveries
<1>6. mail' = [p \in Paths |-> IF p \in run.alerts
                 THEN [mail[p] EXCEPT !.alerts = @ + 1] ELSE mail[p]]
  BY DEF DispatchAlerts
<1>7. /\ mail' \in [Paths -> [alerts : Nat, recoveries : Nat]]
      /\ \A p \in Paths :
           /\ mail'[p].alerts = mail[p].alerts + IF p \in run.alerts THEN 1 ELSE 0
           /\ mail'[p].recoveries = mail[p].recoveries
  BY <1>6 DEF Inv, TypeOK
<1>8. TypeOK'
  BY <1>1, <1>3, <1>4, <1>7 DEF Inv, TypeOK, RunGoes, gate
<1>9. IdsAgree' /\ ReadersSafe' /\ SnapshotConsistent'
  BY <1>4, <1>5 DEF Inv, IdsAgree, ReadersSafe, SnapshotConsistent
<1>10. mail \in [Paths -> [alerts : Nat, recoveries : Nat]]
  BY DEF Inv, TypeOK
<1>11. Balanced'
  <2> SUFFICES ASSUME NEW p \in Paths
               PROVE  /\ p \in DueRecoveries' => ~alertState'[p]
                      /\ mail'[p].alerts = mail'[p].recoveries
                           + IF p \in DueRecoveries' \/ alertState'[p] THEN 1 ELSE 0
    BY <1>5 DEF Balanced
  <2>1. /\ p \in run.alerts => alertState[p] /\ p \notin run.recoveries
        /\ p \in run.recoveries => ~alertState[p]
        /\ mail[p].alerts = mail[p].recoveries
             + IF p \in run.recoveries \/ (alertState[p] /\ p \notin run.alerts) THEN 1 ELSE 0
    BY <1>5 DEF Inv, Balanced
  <2>2. mail[p].alerts \in Nat /\ mail[p].recoveries \in Nat
    BY <1>10
  <2>3. QED
    BY <1>4, <1>5, <1>7, <2>1, <2>2
<1>12. completedRunID = 0 => mail' = mail
  <2>1. completedRunID = 0 => run.alerts = {}
    BY <1>5 DEF Inv, Quiet
  <2>2. QED
    BY <1>6, <1>10, <2>1
<1>13. AlertsBacked' /\ Quiet'
  BY <1>4, <1>5, <1>12 DEF Inv, AlertsBacked, Quiet
<1>14. QED
  BY <1>3, <1>8, <1>9, <1>11, <1>13 DEF Inv

LEMMA DispatchRecoveriesStep ==
  ASSUME Inv, NEW t \in Triggers, DispatchRecoveries(t) PROVE Inv'
<1>1. /\ RunGoes(t, "recoveries", "publish")
      /\ UNCHANGED <<published, run, alertState, graceRunDone, status>>
  BY DEF DispatchRecoveries, RunGoes
<1>2. "recoveries" \in Single /\ "publish" \in Single
  BY DEF Single, Numbered, Decided
<1>3. /\ OneRun' /\ pc' \in [Triggers -> PC]
      /\ \A labels \in SUBSET Single : (At(labels) <=> "recoveries" \in labels)
                                     /\ (At(labels)' <=> "publish" \in labels)
  BY <1>1, <1>2, RunStepPc
<1>4. UNCHANGED <<runID, lastCheck, completedRunID, run, alertState, graceRunDone,
                  reading, snap>>
  BY <1>1 DEF published, status
<1>5. /\ At(Numbered) /\ At(Numbered)' /\ At(Decided) /\ At(Decided)'
      /\ ~At({"stat", "process"})'
      /\ DueAlerts = {} /\ DueAlerts' = {}
      /\ DueRecoveries = run.recoveries /\ DueRecoveries' = {}
  BY <1>3, <1>4, MilestonesSingle DEF Milestones, Numbered, Decided, DueAlerts, DueRecoveries
<1>6. mail' = [p \in Paths |-> IF p \in run.recoveries
                 THEN [mail[p] EXCEPT !.recoveries = @ + 1] ELSE mail[p]]
  BY DEF DispatchRecoveries
<1>7. /\ mail' \in [Paths -> [alerts : Nat, recoveries : Nat]]
      /\ \A p \in Paths :
           /\ mail'[p].alerts = mail[p].alerts
           /\ mail'[p].recoveries = mail[p].recoveries
                + IF p \in run.recoveries THEN 1 ELSE 0
  BY <1>6 DEF Inv, TypeOK
<1>8. TypeOK'
  BY <1>1, <1>3, <1>4, <1>7 DEF Inv, TypeOK, RunGoes, gate
<1>9. IdsAgree' /\ ReadersSafe' /\ SnapshotConsistent'
  BY <1>4, <1>5 DEF Inv, IdsAgree, ReadersSafe, SnapshotConsistent
<1>10. mail \in [Paths -> [alerts : Nat, recoveries : Nat]]
  BY DEF Inv, TypeOK
<1>11. Balanced'
  <2> SUFFICES ASSUME NEW p \in Paths
               PROVE  mail'[p].alerts = mail'[p].recoveries
                        + IF alertState'[p] THEN 1 ELSE 0
    BY <1>5 DEF Balanced
  <2>1. /\ p \in run.recoveries => ~alertState[p]
        /\ mail[p].alerts = mail[p].recoveries
             + IF p \in run.recoveries \/ alertState[p] THEN 1 ELSE 0
    BY <1>5 DEF Inv, Balanced
  <2>2. mail[p].alerts \in Nat /\ mail[p].recoveries \in Nat
    BY <1>10
  <2>3. QED
    BY <1>4, <1>7, <2>1, <2>2
<1>12. completedRunID = 0 => mail' = mail
  <2>1. completedRunID = 0 => run.recoveries = {}
    BY <1>5 DEF Inv, Quiet
  <2>2. QED
    BY <1>6, <1>10, <2>1
<1>13. AlertsBacked' /\ Quiet'
  BY <1>4, <1>5, <1>12 DEF Inv, AlertsBacked, Quiet
<1>14. QED
  BY <1>3, <1>8, <1>9, <1>11, <1>13 DEF Inv

LEMMA PublishStep ==
  ASSUME Inv, NEW t \in Triggers, PublishCompleted(t) PROVE Inv'
<1>1. /\ RunGoes(t, "publishing", "finishing") /\ reading = {}
      /\ lastCheck' = [id |-> run.id, stale |-> run.stale, inAlert |-> run.inAlert]
      /\ completedRunID' = run.id /\ run' = NoRun
      /\ UNCHANGED <<runID, alerting, status>>
  BY DEF PublishCompleted, RunGoes
<1>2. "publishing" \in Single /\ "finishing" \in Single
  BY DEF Single, Numbered, Decided
<1>3. /\ OneRun' /\ pc' \in [Triggers -> PC]
      /\ \A labels \in SUBSET Single : (At(labels) <=> "publishing" \in labels)
                                     /\ (At(labels)' <=> "finishing" \in labels)
  BY <1>1, <1>2, RunStepPc
<1>4. /\ At(Numbered) /\ ~At(Numbered)' /\ At(Decided) /\ ~At(Decided)'
      /\ ~At({"stat", "process"})'
      /\ DueAlerts = {} /\ DueAlerts' = {} /\ DueRecoveries = {} /\ DueRecoveries' = {}
  BY <1>3, MilestonesSingle DEF Milestones, Numbered, Decided, DueAlerts, DueRecoveries
<1>5. UNCHANGED <<alertState, graceRunDone, mail, reading, snap>>
  BY <1>1 DEF alerting, status
<1>6. run.id = runID /\ run.inAlert \subseteq Paths
  BY <1>4 DEF Inv, IdsAgree, TypeOK
<1>7. TypeOK'
  <2>1. /\ run.id \in Nat
        /\ lastCheck' \in [id : Nat, stale : SUBSET Paths, inAlert : SUBSET Paths]
        /\ run' \in [id : Nat, stale : SUBSET Paths, inAlert : SUBSET Paths,
                     alerts : SUBSET Paths, recoveries : SUBSET Paths]
    BY <1>1 DEF Inv, TypeOK, NoRun
  <2>2. QED
    BY <1>1, <1>3, <1>5, <2>1 DEF Inv, TypeOK, RunGoes, gate
<1>8. IdsAgree'
  BY <1>1, <1>4, <1>6 DEF Inv, TypeOK, IdsAgree
<1>9. ReadersSafe'
  BY <1>1, <1>5 DEF Inv, ReadersSafe
<1>10. SnapshotConsistent'
  BY <1>5 DEF Inv, SnapshotConsistent
<1>11. Balanced'
  BY <1>4, <1>5 DEF Inv, Balanced
<1>12. AlertsBacked'
  BY <1>1, <1>4, <1>5 DEF Inv, AlertsBacked
<1>13. Quiet'
  <2>1. /\ completedRunID' = runID /\ runID >= completedRunID
        /\ runID \in Nat /\ completedRunID \in Nat
    BY <1>1, <1>6 DEF Inv, TypeOK, IdsAgree
  <2>2. runID > 0
    BY <1>4 DEF Inv, IdsAgree
  <2>3. QED
    BY <1>4, <1>5, <2>1, <2>2 DEF Quiet
<1>14. QED
  BY <1>3, <1>7, <1>8, <1>9, <1>10, <1>11, <1>12, <1>13 DEF Inv

-----------------------------------------------------------------------------
(* Status. *)
LEMMA ReaderStep ==
  ASSUME Inv, NEW r \in Readers, RLock(r) \/ ReadRunning(r) \/ ReadRest(r) PROVE Inv'
<1> DEFINE Snaps == [read : {"nothing", "running", "all"}, running : BOOLEAN, runID : Nat,
                     completedRunID : Nat, checks : Nat]
<1>1. /\ UNCHANGED <<phase, tracked, primary, pc, runID, completedRunID, lastCheck, run>>
      /\ UNCHANGED <<alertState, graceRunDone, mail, restarts>>
  BY DEF RLock, ReadRunning, ReadRest, gate, published, alerting
<1>2. \A labels \in Milestones : At(labels)' <=> At(labels)
  BY <1>1 DEF At
<1>3. OneRun'
  BY <1>1 DEF Inv, OneRun
<1>4. /\ At(Numbered)' <=> At(Numbered)
      /\ At(Decided)' <=> At(Decided)
      /\ At({"stat", "process"})' <=> At({"stat", "process"})
      /\ DueAlerts' = DueAlerts /\ DueRecoveries' = DueRecoveries
  BY <1>1, <1>2 DEF Milestones, DueAlerts, DueRecoveries
<1>5. IdsAgree' /\ Balanced' /\ AlertsBacked' /\ Quiet'
  <2>1. IdsAgree'
    BY <1>1, <1>4 DEF Inv, IdsAgree
  <2>2. Balanced'
    BY <1>1, <1>4 DEF Inv, Balanced
  <2>3. AlertsBacked' /\ Quiet'
    BY <1>1, <1>4 DEF Inv, AlertsBacked, Quiet
  <2>4. QED
    BY <2>1, <2>2, <2>3
<1>6. snap \in [Readers -> Snaps] /\ reading \subseteq Readers
  BY DEF Inv, TypeOK
<1>7. /\ snap' \in [Readers -> Snaps] /\ reading' \subseteq Readers
      /\ ReadersSafe' /\ SnapshotConsistent'
  <2>1. CASE RLock(r)
    <3>1. reading' = reading \cup {r} /\ snap' = [snap EXCEPT ![r] = NoSnap]
      BY <2>1 DEF RLock
    <3>2. snap' \in [Readers -> Snaps] /\ reading' \subseteq Readers
      BY <1>6, <3>1 DEF NoSnap
    <3>3. snap'[r].read = "nothing" /\ \A q \in Readers \ {r} : snap'[q] = snap[q]
      BY <1>6, <3>1 DEF NoSnap
    <3>4. ReadersSafe' /\ SnapshotConsistent'
      BY <1>1, <3>1, <3>3 DEF Inv, ReadersSafe, SnapshotConsistent
    <3>5. QED
      BY <3>2, <3>4
  <2>2. CASE ReadRunning(r)
    <3>1. /\ r \in reading /\ reading' = reading
          /\ snap' = [snap EXCEPT ![r] = [@ EXCEPT !.read = "running",
                                                  !.running = primary # {}]]
      BY <2>2, <1>6 DEF ReadRunning
    <3>2. /\ snap'[r].read = "running" /\ (snap'[r].running <=> primary # {})
          /\ \A q \in Readers \ {r} : snap'[q] = snap[q]
      BY <1>6, <3>1
    <3>3. snap' \in [Readers -> Snaps] /\ reading' \subseteq Readers
      BY <1>6, <3>1
    <3>4. primary = {} => completedRunID = runID
      <4>1. Numbered \subseteq Single
        BY MilestonesSingle DEF Milestones
      <4>2. QED
        BY <4>1 DEF Inv, OneRun, IdsAgree, At
    <3>5. ReadersSafe' /\ SnapshotConsistent'
      BY <1>1, <3>1, <3>2, <3>4 DEF Inv, ReadersSafe, SnapshotConsistent
    <3>6. QED
      BY <3>3, <3>5
  <2>3. CASE ReadRest(r)
    <3>1. /\ snap[r].read = "running" /\ reading' = reading \ {r}
          /\ snap' = [snap EXCEPT ![r] = [@ EXCEPT !.read = "all", !.runID = runID,
                                                  !.completedRunID = completedRunID,
                                                  !.checks = lastCheck.id]]
      BY <2>3 DEF ReadRest
    <3>2. /\ snap'[r].read = "all" /\ snap'[r].running = snap[r].running
          /\ snap'[r].runID = runID /\ snap'[r].completedRunID = completedRunID
          /\ snap'[r].checks = lastCheck.id
          /\ \A q \in Readers \ {r} : snap'[q] = snap[q]
      BY <1>6, <3>1
    <3>3. snap' \in [Readers -> Snaps] /\ reading' \subseteq Readers
      BY <1>6, <3>1 DEF Inv, TypeOK
    <3>4. ReadersSafe'
      BY <1>1, <3>1, <3>2 DEF Inv, ReadersSafe
    <3>5. /\ lastCheck.id = completedRunID /\ completedRunID <= runID
          /\ ~snap[r].running => completedRunID = runID
      BY <3>1 DEF Inv, IdsAgree, ReadersSafe
    <3>6. SnapshotConsistent'
      BY <1>1, <3>2, <3>5 DEF Inv, SnapshotConsistent
    <3>7. QED
      BY <3>3, <3>4, <3>6
  <2>4. QED
    BY <2>1, <2>2, <2>3
<1>8. TypeOK'
  BY <1>1, <1>7 DEF Inv, TypeOK
<1>9. QED
  BY <1>3, <1>5, <1>7, <1>8 DEF Inv

-----------------------------------------------------------------------------
LEMMA CloseStep == ASSUME Inv, Close PROVE Inv'
<1>1. /\ phase' \in {"closing", "closed"}
      /\ UNCHANGED <<tracked, primary, pc, published, run, alerting, status, restarts>>
  BY DEF Close, Gate!BeginClose, Gate!Close
<1>2. TypeOK' /\ OneRun'
  BY <1>1 DEF Inv, TypeOK, OneRun, published, alerting, status
<1>3. \A labels \in Milestones : At(labels)' <=> At(labels)
  BY <1>1 DEF At
<1>4. Facts'
  BY <1>1, <1>3, Unmoved DEF Inv, Facts
<1>5. QED
  BY <1>2, <1>4 DEF Inv, Facts

(* A new process begins as the first one did. *)
LEMMA RestartStep == ASSUME Inv, Restart PROVE Inv'
<1>1. \A t \in Triggers : pc'[t] = "idle"
  BY DEF Restart
<1>2. /\ ~At(Decided)' /\ ~At(Numbered)' /\ ~At({"alerts"})' /\ ~At({"stat", "process"})'
      /\ ~At({"alerts", "recoveries"})'
  BY <1>1 DEF At, Decided, Numbered
<1>3. TypeOK'
  <2>1. restarts' = restarts + 1 /\ restarts' \in Nat
    BY DEF Restart, Inv, TypeOK
  <2>2. /\ phase' = "open" /\ tracked' = {} /\ primary' = {}
        /\ pc' \in [Triggers -> PC]
        /\ runID' \in Nat /\ completedRunID' \in Nat
        /\ lastCheck' \in [id : Nat, stale : SUBSET Paths, inAlert : SUBSET Paths]
        /\ run' \in [id : Nat, stale : SUBSET Paths, inAlert : SUBSET Paths,
                     alerts : SUBSET Paths, recoveries : SUBSET Paths]
    BY DEF Restart, PC, NoCheck, NoRun
  <2>3. /\ alertState' \in [Paths -> BOOLEAN] /\ graceRunDone' \in BOOLEAN
        /\ mail' \in [Paths -> [alerts : Nat, recoveries : Nat]]
        /\ reading' \subseteq Readers
        /\ snap' \in [Readers -> [read : {"nothing", "running", "all"}, running : BOOLEAN,
                                  runID : Nat, completedRunID : Nat, checks : Nat]]
    BY DEF Restart, NoMail, NoSnap
  <2>4. QED
    BY <2>1, <2>2, <2>3 DEF TypeOK
<1>4. OneRun'
  BY <1>1 DEF Restart, OneRun, Single, Numbered, Decided
<1>5. IdsAgree' /\ ReadersSafe' /\ SnapshotConsistent'
  BY <1>2 DEF Restart, IdsAgree, ReadersSafe, SnapshotConsistent, NoCheck, NoSnap
<1>6. Balanced'
  BY <1>2 DEF Restart, Balanced, DueAlerts, DueRecoveries, NoMail
<1>7. AlertsBacked' /\ Quiet'
  BY <1>2 DEF Restart, AlertsBacked, Quiet, NoCheck
<1>8. QED
  BY <1>3, <1>4, <1>5, <1>6, <1>7 DEF Inv

LEMMA InvStep == Inv /\ [Next]_vars => Inv'
<1> SUFFICES ASSUME Inv, [Next]_vars PROVE Inv'
    OBVIOUS
<1>1. CASE UNCHANGED vars
  <2>1. UNCHANGED <<phase, tracked, primary, pc, published, run, alerting, status, restarts>>
    BY <1>1 DEF vars, gate
  <2>2. TypeOK' /\ OneRun'
    BY <2>1 DEF Inv, TypeOK, OneRun, published, alerting, status
  <2>3. \A labels \in Milestones : At(labels)' <=> At(labels)
    BY <2>1 DEF At
  <2>4. Facts'
    BY <2>1, <2>3, Unmoved DEF Inv, Facts
  <2>5. QED
    BY <2>2, <2>4 DEF Inv, Facts
<1>2. ASSUME NEW t \in Triggers, TryStart(t) \/ RunStep(t) PROVE Inv'
  BY <1>2, TryStartStep, EnterStep, PlainStep, StartStep, StatStep, ProcessStep,
     DispatchAlertsStep, DispatchRecoveriesStep, PublishStep DEF RunStep
<1>3. QED
  BY <1>1, <1>2, ReaderStep, CloseStep, RestartStep DEF Next

LEMMA Invariance == Spec => []Inv
  BY InitInv, InvStep, PTL DEF Spec

-----------------------------------------------------------------------------
(* Types are correct in every reachable state. *)
THEOREM TypeCorrect == Spec => []TypeOK
<1>1. Inv => TypeOK
  BY DEF Inv
<1>2. QED
  BY <1>1, Invariance, PTL

(* A client of Status() never pairs a run id with the results of another    *)
(* run, for any number of readers, triggers and runs.                       *)
THEOREM SnapshotsConsistent == Spec => []SnapshotConsistent
<1>1. Inv => SnapshotConsistent
  BY DEF Inv
<1>2. QED
  BY <1>1, Invariance, PTL

(* Between runs, what degrades /health is in alert and has been mailed,     *)
(* through any flapping of files and windows.                               *)
THEOREM HealthIsMailed == Spec => []DegradedMeansMailed
<1>1. Inv => DegradedMeansMailed
  <2> SUFFICES ASSUME Inv, primary = {}
               PROVE  /\ \A p \in lastCheck.inAlert : alertState[p]
                      /\ \A p \in Paths : alertState[p] <=> mail[p].alerts > mail[p].recoveries
    BY DEF DegradedMeansMailed
  <2>1. \A labels \in Milestones : ~At(labels)
    BY MilestonesSingle DEF Inv, OneRun, At
  <2>2. ~At(Decided) /\ DueAlerts = {} /\ DueRecoveries = {}
    BY <2>1 DEF Milestones, DueAlerts, DueRecoveries
  <2>3. \A p \in Paths : mail[p].alerts = mail[p].recoveries + IF alertState[p] THEN 1 ELSE 0
    BY <2>2 DEF Inv, Balanced
  <2>4. \A p \in Paths : mail[p].alerts \in Nat /\ mail[p].recoveries \in Nat
    BY DEF Inv, TypeOK
  <2>5. \A p \in lastCheck.inAlert : alertState[p]
    BY <2>2 DEF Inv, AlertsBacked
  <2>6. QED
    BY <2>3, <2>4, <2>5
<1>2. QED
  BY <1>1, Invariance, PTL

(* A restart never mails about files that were stale before it. *)
THEOREM RestartIsSilent == Spec => []GraceRunSilent
<1>1. Inv => GraceRunSilent
  BY DEF Inv, Quiet, GraceRunSilent
<1>2. QED
  BY <1>1, Invariance, PTL

-----------------------------------------------------------------------------
(* The mails as alert/recovery pairing sees them. *)
LEMMA PairingInit == Init => Pairing!Init
  BY DEF Init, Pairing!Init, NoMail, Pairing!NoMail

LEMMA PairingStep == Inv /\ [Next]_vars => [Pairing!Next]_mail
<1> SUFFICES ASSUME Inv, [Next]_vars, mail' # mail PROVE Pairing!Next
    OBVIOUS
<1>1. mail \in [Paths -> [alerts : Nat, recoveries : Nat]]
  BY DEF Inv, TypeOK
<1>2. ASSUME NEW t \in Triggers, DispatchAlerts(t) PROVE Pairing!Next
  <2>1. mail' = [p \in Paths |-> IF p \in run.alerts
                   THEN [mail[p] EXCEPT !.alerts = @ + 1] ELSE mail[p]]
        /\ pc[t] = "alerts"
    BY <1>2 DEF DispatchAlerts
  <2>2. run.alerts # {} /\ run.alerts \subseteq Paths
    BY <1>1, <2>1 DEF Inv, TypeOK
  <2>3. DueAlerts = run.alerts
    BY <2>1 DEF At, DueAlerts
  <2>4. \A p \in run.alerts : ~Pairing!InAlert(p)
    BY <1>1, <2>2, <2>3 DEF Inv, Balanced, Pairing!InAlert
  <2>5. Pairing!Alert(run.alerts)
    BY <2>1, <2>2, <2>4 DEF Pairing!Alert
  <2>6. QED
    BY <2>2, <2>5 DEF Pairing!Next
<1>3. ASSUME NEW t \in Triggers, DispatchRecoveries(t) PROVE Pairing!Next
  <2>1. mail' = [p \in Paths |-> IF p \in run.recoveries
                   THEN [mail[p] EXCEPT !.recoveries = @ + 1] ELSE mail[p]]
        /\ pc[t] = "recoveries"
    BY <1>3 DEF DispatchRecoveries
  <2>2. run.recoveries # {} /\ run.recoveries \subseteq Paths
    BY <1>1, <2>1 DEF Inv, TypeOK
  <2>3. DueRecoveries = run.recoveries
    BY <2>1 DEF At, DueRecoveries
  <2>4. \A p \in run.recoveries : Pairing!InAlert(p)
    BY <1>1, <2>2, <2>3 DEF Inv, Balanced, Pairing!InAlert
  <2>5. Pairing!Recover(run.recoveries)
    BY <2>1, <2>2, <2>4 DEF Pairing!Recover
  <2>6. QED
    BY <2>2, <2>5 DEF Pairing!Next
<1>4. CASE Restart
  BY <1>4 DEF Restart, NoMail, Pairing!NoMail, Pairing!Restart, Pairing!Next
<1>5. ASSUME NEW t \in Triggers, TryStart(t) \/ RunStep(t),
             ~DispatchAlerts(t), ~DispatchRecoveries(t)
      PROVE  mail' = mail
  BY <1>5 DEF TryStart, RunStep, Enter, Conflict, Lock, StartNewRun, Stat,
              ProcessAlertStates, PublishCompleted, Finish, Leave, alerting
<1>6. ASSUME NEW r \in Readers, RLock(r) \/ ReadRunning(r) \/ ReadRest(r)
      PROVE  mail' = mail
  BY <1>6 DEF RLock, ReadRunning, ReadRest, alerting
<1>7. Close \/ UNCHANGED vars => mail' = mail
  BY DEF Close, vars, alerting
<1>8. QED
  BY <1>2, <1>3, <1>4, <1>5, <1>6, <1>7 DEF Next

(* The mails of the file monitor implement alert/recovery pairing, for any  *)
(* paths and triggers, windows, conflicts and restarts.                     *)
THEOREM Refinement == Spec => ImplementsPairing
<1>1. Pairing!Init /\ [][Pairing!Next]_mail => ImplementsPairing
  BY DEF ImplementsPairing, Pairing!Spec, Pairing!vars
<1>2. QED
  BY <1>1, PairingInit, PairingStep, Invariance, PTL DEF Spec

-----------------------------------------------------------------------------
(* The remainder of a number that is at most one period away. *)
LEMMA NearRemainder ==
  ASSUME NEW x \in Int, -Day < x, x < Day
  PROVE  x % Day = IF x >= 0 THEN x ELSE x + Day
BY DayAssumption, SMT DEF DayAssumption

(* A configured window is active exactly from its start up to its end,      *)
(* around midnight or not, however long the day.                            *)
THEOREM WindowExact == WindowIsInterval
<1> SUFFICES ASSUME NEW w \in Parsed, w.configured
             PROVE  /\ \A cur \in Minutes : Active(w, cur) <=> Within(w, cur)
                    /\ Active(w, w.startMin) /\ ~Active(w, w.endMin)
  BY DEF WindowIsInterval
<1>1. Day \in Nat /\ Day > 0
  BY DayAssumption, SMT DEF DayAssumption
<1>2. w.startMin \in Minutes /\ w.endMin \in Minutes /\ w.startMin # w.endMin
  BY DEF Parsed, Windows, NotConfigured
<1>3. ASSUME NEW cur \in Minutes
      PROVE  Active(w, cur) <=> Within(w, cur)
  <2> DEFINE a == cur - w.startMin
             b == w.endMin - w.startMin
  <2>1. /\ a \in Int /\ -Day < a /\ a < Day
        /\ b \in Int /\ -Day < b /\ b < Day
    BY <1>1, <1>2, SMT DEF Minutes
  <2>2. /\ a % Day = IF a >= 0 THEN a ELSE a + Day
        /\ b % Day = IF b >= 0 THEN b ELSE b + Day
    <3> HIDE DEF a, b
    <3> QED BY <2>1, NearRemainder
  <2> QED BY <1>1, <1>2, <2>1, <2>2, SMT DEF Active, Within, Minutes
<1>4. Active(w, w.startMin) /\ ~Active(w, w.endMin)
  BY <1>1, <1>2, SMT DEF Active, Minutes
<1> QED BY <1>3, <1>4

-----------------------------------------------------------------------------
(* A product that fits is not changed. *)
LEMMA WrapFits ==
  ASSUME NEW n \in Nat, n <= IntMax
  PROVE  Wrap(n) = n
BY ConfigAssumption, SMT DEF ConfigAssumption, Wrap

(* A configuration that Load() accepts keeps what the models of the limiter, *)
(* the monitors and the API assume of their constants, whatever the defaults *)
(* and however many checks there are.                                        *)
THEOREM ValidSupportsModels ==
  ASSUME NEW Check, NEW c, c.checks \in Seq(Check), Valid(c)
  PROVE  SupportsModels(c)
<1>1. \A s \in Settings : /\ Get(c, s) \in Nat /\ Get(c, s) > 0
                          /\ c.number[s] <= 0 => c.number[s] = 0
  BY ConfigAssumption, SMT DEF ConfigAssumption, Valid, ValidNumbers, Get, Or
<1>2. ASSUME NEW s \in Times, Fits(c, s)
      PROVE  /\ GetDuration(c, s) = Get(c, s) * Unit[s]
             /\ GetDuration(c, s) > 0
             /\ GetInterval(c, s) = GetDuration(c, s)
  <2>1. s \in Settings /\ Unit[s] \in Nat /\ Unit[s] > 0
    BY ConfigAssumption, SMT DEF ConfigAssumption
  <2>2. Get(c, s) * Unit[s] \in Nat /\ Get(c, s) * Unit[s] > 0
    BY <1>1, <2>1, SMT
  <2>3. GetDuration(c, s) = Get(c, s) * Unit[s]
    BY <1>2, <2>2, WrapFits DEF Fits, GetDuration
  <2>4. (IF c.number[s] <= 0 THEN Default[s] ELSE c.number[s]) = Get(c, s)
    BY <1>1, <2>1, ConfigAssumption, SMT DEF ConfigAssumption, Valid, ValidNumbers, Get, Or
  <2> QED BY <2>2, <2>3, <2>4 DEF GetInterval, GetDuration
<1>3. ASSUME c.fileMonitorEnabled
      PROVE  /\ DOMAIN c.checks # {}
             /\ \A i, j \in DOMAIN c.checks : c.checks[i].path = c.checks[j].path => i = j
  <2>1. DOMAIN c.checks = 1 .. Len(c.checks) /\ Len(c.checks) \in Nat
    OBVIOUS
  <2>2. c.checks # << >>
    BY <1>3 DEF Valid, ValidateFileMonitorConfig
  <2>3. Len(c.checks) # 0
    BY <2>2, SMT
  <2>4. 1 \in DOMAIN c.checks
    BY <2>1, <2>3, SMT
  <2>5. \A i, j \in DOMAIN c.checks : i < j => c.checks[i].path # c.checks[j].path
    BY <1>3 DEF Valid, ValidateFileMonitorConfig
  <2>6. \A i, j \in DOMAIN c.checks : i = j \/ i < j \/ j < i
    BY <2>1, SMT
  <2> QED BY <2>4, <2>5, <2>6
<1>4. ASSUME NEW i \in DOMAIN c.checks, c.checks[i].window.configured
      PROVE  \E open, shut \in Minutes : /\ Active(c.checks[i].window, open)
                                         /\ ~Active(c.checks[i].window, shut)
  <2> DEFINE w == c.checks[i].window
  <2>1. w \in Parsed
    BY DEF Valid, ValidateFileMonitorConfig
  <2>2. w.startMin \in Minutes /\ w.endMin \in Minutes
    BY <1>4, <2>1 DEF Parsed, Windows, NotConfigured
  <2>3. Active(w, w.startMin) /\ ~Active(w, w.endMin)
    BY <1>4, <2>1, WindowExact DEF WindowIsInterval
  <2> QED BY <2>2, <2>3
<1> QED BY <1>1, <1>2, <1>3, <1>4 DEF SupportsModels
=============================================================================
