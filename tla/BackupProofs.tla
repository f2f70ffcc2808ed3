---------------------------- MODULE BackupProofs ----------------------------
(***************************************************************************)
(* Proofs about Backup, for any callers, runs, crashes and limits: Close() *)
(* joins everything, no run harms the file of another, the status and the  *)
(* notifier speak of what is on disk; retention holds its limit and never  *)
(* takes the last restorable backup.  Unless names can collide and users   *)
(* delete: only validated dumps reach the bucket, and an object that       *)
(* outlives its file has a cause.                                          *)
(***************************************************************************)
EXTENDS Backup, FiniteSetTheorems, TLAPS

Before == {"dumping", "dumped", "validated", "pending", "succeeded", "failed",
           "unsuccessful", "upload"}
Accepted == {"validated", "pending", "succeeded", "upload"}
Single == {"entered", "started", "listAge", "deleteAged", "deleteSurplus", "finishing"}
            \cup Before
NoNameYet == {"admitted", "entered", "started"}

(* Every caller that has no name yet finds one. *)
Room == Cur + Cardinality(Unnamed) <= MaxRuns

OneRun == /\ \A c \in Callers : pc[c] \in Single => primary = {Caller(c)}
          /\ primary # {} => \E c \in Callers : pc[c] \in Single

(* The gate tracks every goroutine, and is not closed while it tracks one. *)
Joined == /\ \A c \in Callers : pc[c] # "idle" => Caller(c) \in tracked
          /\ \A n \in Names : up[n].at # "none" => Upload(n) \in tracked
          /\ \A f \in del : Delete(f) \in tracked
          /\ phase = "closed" => tracked = {}

(* What the file of the current run may hold at each of its steps. *)
Target == \A c \in Callers :
            /\ pc[c] \in Before => Cur > 0
            /\ pc[c] = "dumping" => files[CurFile] \in {"none", "partial"}
            /\ pc[c] \in Accepted => files[CurFile] \in {"none", "valid"}

(* A run that may write its file does not report success. *)
Verdict == /\ \A c \in Callers : pc[c] \in {"started", "dumping"} => ~status.success
           /\ status.success => status.file # NoFile

Gated == TypeOK /\ Room /\ OneRun /\ Joined
Local == Target /\ Verdict /\ SuccessIsValid /\ SignalTracksRuns

(* What the bucket may hold, when each run has a second of its own. *)
Distinct == \A n \in 1 .. Cur : name[n] = n
NotSent == \A n \in Names : n > Cur \/ (n = Cur /\ \E c \in Callers : pc[c] \in Before)
               => remote[n] = "none" /\ up[n].at = "none"
UploadsGood == \A n \in Names : /\ up[n].at = "open" => files[n] \in {"none", "valid"}
                                /\ up[n].at = "send" => up[n].good
Explained == \A f \in Names :
               files[f] = "none" /\ (remote[f] # "none" \/ up[f].at = "send")
                 => f \in del \/ orphanCause[f] # {}
Bucket == ~SameSecond => Distinct /\ NotSent /\ UploadsGood /\ RemoteValidated /\ Explained

Inv == Gated /\ Local /\ Bucket

USE BackupAssumption DEF BackupAssumption

-----------------------------------------------------------------------------
LEMMA WorkersDiffer ==
  ASSUME NEW c, NEW d, NEW n, NEW f
  PROVE  /\ Caller(c) # Upload(n) /\ Caller(c) # Delete(f) /\ Upload(n) # Delete(f)
         /\ Caller(c) = Caller(d) => c = d
         /\ Upload(n) = Upload(f) => n = f
         /\ Delete(n) = Delete(f) => n = f
  BY DEF Caller, Upload, Delete

LEMMA NameFacts ==
  ASSUME TypeOK
  PROVE  /\ Cur \in Nat /\ Cur <= MaxRuns
         /\ \A n \in 1 .. Cur : n \in Names /\ name[n] \in Names
         /\ Cur > 0 => CurFile \in Names /\ Cur \in Names
<1>1. name \in Seq(Names) /\ Len(name) <= MaxRuns
  BY DEF TypeOK
<1>2. Cur \in Nat /\ Cur <= MaxRuns
  BY <1>1 DEF Cur
<1>3. \A n \in 1 .. Cur : name[n] \in Names
  BY <1>1 DEF Cur
<1>4. QED
  BY <1>2, <1>3 DEF Names, CurFile

LEMMA UnnamedFinite == IsFiniteSet(Unnamed) /\ Cardinality(Unnamed) \in Nat
<1>1. Unnamed \subseteq Callers
  BY DEF Unnamed
<1>2. QED
  BY <1>1, FS_Subset, FS_CardinalityType

(* One move of a caller; nobody else moves. *)
LEMMA Moves ==
  ASSUME TypeOK, NEW c \in Callers, NEW to \in PC, Goto(c, to)
  PROVE  /\ pc' \in [Callers -> PC] /\ pc'[c] = to
         /\ \A d \in Callers \ {c} : pc'[d] = pc[d]
  BY DEF TypeOK, Goto

LEMMA RoomKept ==
  ASSUME TypeOK, Room, NEW c \in Callers, NEW to \in PC, Goto(c, to), UNCHANGED name,
         pc[c] \in NoNameYet <=> to \in NoNameYet
  PROVE  Room'
<1>1. Unnamed' = Unnamed
  BY Moves DEF Unnamed, NoNameYet
<1>2. QED
  BY <1>1 DEF Room, Cur

(* The only run is alone with the data. *)
LEMMA OnlyRun ==
  ASSUME OneRun, NEW c \in Callers, pc[c] \in Single
  PROVE  primary = {Caller(c)} /\ \A d \in Callers \ {c} : pc[d] \notin Single
  BY WorkersDiffer DEF OneRun

(* A step of the run that spawns nothing. *)
LEMMA RunMoves ==
  ASSUME Gated, NEW c \in Callers, pc[c] \in Single, NEW to \in Single, Goto(c, to),
         UNCHANGED <<gate, up, del>>
  PROVE  /\ pc' \in [Callers -> PC] /\ pc'[c] = to /\ OneRun' /\ Joined'
         /\ \A d \in Callers \ {c} : pc'[d] = pc[d] /\ pc[d] \notin Single
<1>1. to \in PC /\ to # "idle" /\ pc[c] # "idle"
  BY DEF PC, Single, Before
<1>2. /\ pc' \in [Callers -> PC] /\ pc'[c] = to
      /\ \A d \in Callers \ {c} : pc'[d] = pc[d]
  BY <1>1, Moves DEF Gated
<1>3. primary = {Caller(c)} /\ \A d \in Callers \ {c} : pc[d] \notin Single
  BY OnlyRun DEF Gated
<1>4. UNCHANGED <<phase, tracked, primary, up, del>>
  BY DEF gate
<1>5. OneRun'
  BY <1>2, <1>3, <1>4 DEF OneRun
<1>6. Joined'
  BY <1>1, <1>2, <1>4 DEF Gated, Joined
<1>7. QED
  BY <1>2, <1>3, <1>5, <1>6

-----------------------------------------------------------------------------
LEMMA InitInv == Init => Inv
<1> SUFFICES ASSUME Init PROVE Inv
    OBVIOUS
<1>1. \A c \in Callers : pc[c] = "idle"
  BY DEF Init, Idle
<1>2. name = << >> /\ Cur = 0 /\ Unnamed = {}
  BY <1>1 DEF Init, Cur, Unnamed
<1>3. TypeOK
  <2>1. name \in Seq(Names) /\ Len(name) <= MaxRuns
    BY <1>2
  <2>2. /\ pc \in [Callers -> PC] /\ files \in [Names -> Content]
        /\ up \in [Names -> [at : {"none", "open", "send", "report", "notify"},
                             good : BOOLEAN]]
        /\ remote \in [Names -> Content \ {"partial"}]
        /\ orphanCause \in [Names -> SUBSET {"failed", "dropped", "crashed", "raced"}]
    BY DEF Init, Idle, PC, Content, NoUploads, NoUpload
  <2>3. QED
    BY <2>1, <2>2 DEF Init, TypeOK, NoStatus, NoFile, AllWell
<1>4. Room
  BY <1>2, FS_EmptySet DEF Room
<1>5. OneRun /\ Joined
  BY <1>1 DEF Init, OneRun, Joined, Single, Before, NoUploads, NoUpload
<1>6. Local
  BY <1>1 DEF Init, Local, Target, Verdict, SuccessIsValid, SignalTracksRuns, Before,
              Accepted, NoStatus
<1>7. Bucket
  <2>1. \A n \in Names : remote[n] = "none" /\ up[n].at = "none"
    BY DEF Init, NoUploads, NoUpload
  <2>2. Distinct
    BY <1>2 DEF Distinct
  <2>3. QED
    BY <2>1, <2>2 DEF Bucket, NotSent, UploadsGood, RemoteValidated, Explained
<1>8. QED
  BY <1>3, <1>4, <1>5, <1>6, <1>7 DEF Inv, Gated

Touching == Before \cup {"started"}

(* Where the data rests and only callers that do not touch it move, what is *)
(* known of the data stays.                                                 *)
LEMMA Calm ==
  ASSUME Local, Bucket,
         UNCHANGED <<name, files, status, up, del, remote, failing, orphanCause>>,
         \A c \in Callers : \/ pc'[c] = pc[c]
                            \/ pc'[c] \notin Touching /\ pc[c] \notin Touching
  PROVE  Local' /\ Bucket'
<1>1. Cur' = Cur /\ CurFile' = CurFile
  BY DEF Cur, CurFile
<1>2. \A c \in Callers : \/ pc'[c] = pc[c]
                         \/ /\ pc'[c] \notin Before /\ pc'[c] \notin Accepted
                            /\ pc'[c] \notin {"started", "dumping", "succeeded",
                                             "unsuccessful"}
                            /\ pc[c] \notin Before
                            /\ pc[c] \notin {"started", "succeeded", "unsuccessful"}
  BY DEF Touching, Before, Accepted
<1>3. Target' /\ Verdict'
  BY <1>1, <1>2 DEF Local, Target, Verdict
<1>4. SuccessIsValid' /\ SignalTracksRuns'
  BY <1>2 DEF Local, SuccessIsValid, SignalTracksRuns
<1>5. ASSUME ~SameSecond
      PROVE  Distinct' /\ NotSent' /\ UploadsGood' /\ RemoteValidated' /\ Explained'
  <2>1. Distinct /\ NotSent /\ UploadsGood /\ RemoteValidated /\ Explained
    BY <1>5 DEF Bucket
  <2>2. NotSent'
    BY <1>1, <1>2, <2>1 DEF NotSent
  <2>3. QED
    BY <1>1, <2>1, <2>2 DEF Distinct, UploadsGood, RemoteValidated, Explained
<1>6. QED
  BY <1>3, <1>4, <1>5 DEF Local, Bucket

-----------------------------------------------------------------------------
(* Admission. *)
LEMMA TryStartStep == ASSUME Inv, NEW c \in Callers, TryStart(c) PROVE Inv'
<1>1. /\ pc[c] = "idle" /\ Goto(c, "admitted") /\ Gate!Admit(Caller(c))
      /\ Cur + Cardinality(Unnamed) < MaxRuns
      /\ UNCHANGED <<rootOpen, name, files, expired, victims, status, up, del, remote,
                     failing, orphanCause, crashes>>
  BY DEF TryStart, disk
<1>2. "admitted" \in PC /\ Gated /\ Local /\ Bucket
  BY DEF PC, Inv
<1>3. pc' \in [Callers -> PC] /\ pc'[c] = "admitted"
      /\ \A d \in Callers \ {c} : pc'[d] = pc[d]
  BY <1>1, <1>2, Moves DEF Gated
<1>4. Caller(c) \in Workers /\ phase = "open" /\ tracked' = tracked \cup {Caller(c)}
      /\ UNCHANGED <<phase, primary>>
  BY <1>1 DEF Workers, Gate!Admit
<1>5. TypeOK'
  BY <1>1, <1>2, <1>3, <1>4 DEF Gated, TypeOK
<1>6. Room'
  <2>1. Unnamed' = Unnamed \cup {c} /\ c \notin Unnamed
    BY <1>1, <1>3 DEF Unnamed
  <2>2. Cardinality(Unnamed') = Cardinality(Unnamed) + 1
    BY <2>1, UnnamedFinite, FS_AddElement
  <2>3. Cur \in Nat /\ Cur' = Cur
    BY <1>1, <1>2, NameFacts DEF Gated, Cur
  <2>4. QED
    BY <1>1, <2>2, <2>3, UnnamedFinite DEF Room
<1>7. OneRun'
  BY <1>1, <1>2, <1>3, <1>4 DEF Gated, OneRun, Single, Before
<1>8. Joined'
  BY <1>1, <1>2, <1>3, <1>4 DEF Gated, Joined
<1>9. Local' /\ Bucket'
  BY <1>1, <1>2, <1>3, Calm DEF Touching, Before
<1>10. QED
  BY <1>5, <1>6, <1>7, <1>8, <1>9 DEF Inv, Gated

LEMMA EnterStep == ASSUME Inv, NEW c \in Callers, Enter(c) PROVE Inv'
<1>1. /\ pc[c] = "admitted" /\ Goto(c, "entered") /\ primary = {}
      /\ primary' = {Caller(c)} /\ UNCHANGED <<phase, tracked>>
      /\ UNCHANGED <<rootOpen, name, files, expired, victims, status, up, del, remote,
                     failing, orphanCause, crashes>>
  BY DEF Enter, disk, Gate!Enter
<1>2. "entered" \in PC /\ Gated /\ Local /\ Bucket /\ Caller(c) \in Workers
  BY DEF PC, Inv, Workers
<1>3. pc' \in [Callers -> PC] /\ pc'[c] = "entered"
      /\ \A d \in Callers \ {c} : pc'[d] = pc[d]
  BY <1>1, <1>2, Moves DEF Gated
<1>4. TypeOK'
  BY <1>1, <1>2, <1>3 DEF Gated, TypeOK
<1>5. Room'
  BY <1>1, <1>2, RoomKept DEF Gated, NoNameYet
<1>6. OneRun'
  <2>1. \A d \in Callers : pc[d] \notin Single
    BY <1>1, <1>2 DEF Gated, OneRun
  <2>2. "entered" \in Single
    BY DEF Single
  <2>3. QED
    BY <1>1, <1>3, <2>1, <2>2 DEF OneRun
<1>7. Joined'
  BY <1>1, <1>2, <1>3 DEF Gated, Joined
<1>8. Local' /\ Bucket'
  BY <1>1, <1>2, <1>3, Calm DEF Touching, Before
<1>9. QED
  BY <1>4, <1>5, <1>6, <1>7, <1>8 DEF Inv, Gated

LEMMA ConflictStep == ASSUME Inv, NEW c \in Callers, Conflict(c) PROVE Inv'
<1>1. /\ pc[c] = "admitted" /\ Goto(c, "leaving")
      /\ UNCHANGED <<phase, tracked, primary>>
      /\ UNCHANGED <<rootOpen, name, files, expired, victims, status, up, del, remote,
                     failing, orphanCause, crashes>>
  BY DEF Conflict, disk, gate
<1>2. "leaving" \in PC /\ Gated /\ Local /\ Bucket
  BY DEF PC, Inv
<1>3. pc' \in [Callers -> PC] /\ pc'[c] = "leaving"
      /\ \A d \in Callers \ {c} : pc'[d] = pc[d]
  BY <1>1, <1>2, Moves DEF Gated
<1>4. TypeOK'
  BY <1>1, <1>2, <1>3 DEF Gated, TypeOK
<1>5. Room'
  <2>1. Unnamed' = Unnamed \ {c} /\ c \in Unnamed
    BY <1>1, <1>3 DEF Unnamed
  <2>2. Cardinality(Unnamed') = Cardinality(Unnamed) - 1
    BY <2>1, UnnamedFinite, FS_RemoveElement
  <2>3. Cur \in Nat /\ Cur' = Cur
    BY <1>1, <1>2, NameFacts DEF Gated, Cur
  <2>4. QED
    BY <1>2, <2>2, <2>3, UnnamedFinite DEF Gated, Room
<1>6. OneRun'
  BY <1>1, <1>2, <1>3 DEF Gated, OneRun, Single, Before
<1>7. Joined'
  BY <1>1, <1>2, <1>3 DEF Gated, Joined
<1>8. Local' /\ Bucket'
  BY <1>1, <1>2, <1>3, Calm DEF Touching, Before
<1>9. QED
  BY <1>4, <1>5, <1>6, <1>7, <1>8 DEF Inv, Gated

LEMMA FinishStep == ASSUME Inv, NEW c \in Callers, Finish(c) PROVE Inv'
<1>1. /\ pc[c] = "finishing" /\ Goto(c, "leaving") /\ primary' = {}
      /\ UNCHANGED <<phase, tracked>>
      /\ UNCHANGED <<rootOpen, name, files, expired, victims, status, up, del, remote,
                     failing, orphanCause, crashes>>
  BY DEF Finish, disk, Gate!Exit
<1>2. "leaving" \in PC /\ Gated /\ Local /\ Bucket
  BY DEF PC, Inv
<1>3. pc' \in [Callers -> PC] /\ pc'[c] = "leaving"
      /\ \A d \in Callers \ {c} : pc'[d] = pc[d]
  BY <1>1, <1>2, Moves DEF Gated
<1>4. TypeOK'
  BY <1>1, <1>2, <1>3 DEF Gated, TypeOK
<1>5. Room'
  BY <1>1, <1>2, RoomKept DEF Gated, NoNameYet
<1>6. OneRun'
  <2>1. \A d \in Callers \ {c} : pc[d] \notin Single
    BY <1>1, <1>2, OnlyRun DEF Gated, Single
  <2>2. "leaving" \notin Single
    BY DEF Single, Before
  <2>3. QED
    BY <1>1, <1>3, <2>1, <2>2 DEF OneRun
<1>7. Joined'
  BY <1>1, <1>2, <1>3 DEF Gated, Joined
<1>8. Local' /\ Bucket'
  BY <1>1, <1>2, <1>3, Calm DEF Touching, Before
<1>9. QED
  BY <1>4, <1>5, <1>6, <1>7, <1>8 DEF Inv, Gated

LEMMA LeaveStep == ASSUME Inv, NEW c \in Callers, Leave(c) PROVE Inv'
<1>1. /\ pc[c] = "leaving" /\ Goto(c, "idle")
      /\ tracked' = tracked \ {Caller(c)} /\ primary' = primary
      /\ phase' = phase \/ (phase' = "closed" /\ tracked' = {})
      /\ UNCHANGED <<rootOpen, name, files, expired, victims, status, up, del, remote,
                     failing, orphanCause, crashes>>
  BY DEF Leave, disk, Gate!Leave
<1>2. "idle" \in PC /\ Gated /\ Local /\ Bucket
  BY DEF PC, Inv
<1>3. pc' \in [Callers -> PC] /\ pc'[c] = "idle"
      /\ \A d \in Callers \ {c} : pc'[d] = pc[d]
  BY <1>1, <1>2, Moves DEF Gated
<1>4. TypeOK'
  BY <1>1, <1>2, <1>3 DEF Gated, TypeOK
<1>5. Room'
  BY <1>1, <1>2, RoomKept DEF Gated, NoNameYet
<1>6. OneRun'
  BY <1>1, <1>2, <1>3 DEF Gated, OneRun, Single, Before
<1>7. Joined'
  BY <1>1, <1>2, <1>3, WorkersDiffer DEF Gated, Joined
<1>8. Local' /\ Bucket'
  BY <1>1, <1>2, <1>3, Calm DEF Touching, Before
<1>9. QED
  BY <1>4, <1>5, <1>6, <1>7, <1>8 DEF Inv, Gated

(* Retention takes its listings and ends. *)
LEMMA ListingStep ==
  ASSUME Inv, NEW c \in Callers, ListAged(c) \/ ListSurplus(c) \/ CleanupDone(c)
  PROVE  Inv'
<1>1. /\ UNCHANGED <<phase, tracked, primary>>
      /\ UNCHANGED <<rootOpen, name, files, expired, status, up, del, remote, failing,
                     orphanCause, crashes>>
  BY DEF ListAged, ListSurplus, CleanupDone, disk, gate
<1>2. Gated /\ Local /\ Bucket
  BY DEF Inv
<1>3. victims' \subseteq Names /\ pc[c] \in {"listAge", "deleteAged", "deleteSurplus"}
  BY <1>2 DEF Gated, TypeOK, ListAged, ListSurplus, CleanupDone, Managed, Surplus
<1>4. PICK to \in {"deleteAged", "deleteSurplus", "finishing"} : Goto(c, to)
  BY DEF ListAged, ListSurplus, CleanupDone
<1>5. pc[c] \in Single /\ to \in Single /\ to \in PC
  BY <1>3 DEF Single, PC
<1>6. /\ pc' \in [Callers -> PC] /\ pc'[c] = to /\ OneRun' /\ Joined'
      /\ \A d \in Callers \ {c} : pc'[d] = pc[d]
  BY <1>1, <1>2, <1>4, <1>5, RunMoves DEF gate
<1>7. TypeOK'
  BY <1>1, <1>2, <1>3, <1>6 DEF Gated, TypeOK
<1>8. Room'
  <2>1. pc[c] \notin NoNameYet /\ to \notin NoNameYet
    BY <1>3 DEF NoNameYet
  <2>2. QED
    BY <1>1, <1>2, <1>4, <1>5, <2>1, RoomKept DEF Gated
<1>9. Local' /\ Bucket'
  <2>1. pc[c] \notin Touching /\ to \notin Touching
    BY <1>3 DEF Touching, Before
  <2>2. QED
    BY <1>1, <1>2, <1>6, <2>1, Calm
<1>10. QED
  BY <1>6, <1>7, <1>8, <1>9 DEF Inv, Gated

(* Nobody moves: files age, Close() proceeds. *)
LEMMA NobodyMoves ==
  ASSUME Inv, (\E f \in Names : Expire(f)) \/ BeginClose \/ Drained \/ CloseRoot
              \/ UNCHANGED vars
  PROVE  Inv'
<1>1. /\ UNCHANGED <<tracked, primary, pc, name, files, status, up, del, remote, failing,
                     orphanCause, crashes, victims>>
      /\ \/ phase' = phase
         \/ phase' = "closing"
         \/ phase' = "closed" /\ tracked = {}
  BY DEF Expire, BeginClose, Drained, CloseRoot, Gate!BeginClose, Gate!Close, vars, gate, disk
<1>2. Gated /\ Local /\ Bucket
  BY DEF Inv
<1>3. expired' \subseteq Names /\ rootOpen' \in BOOLEAN
  BY <1>2 DEF Gated, TypeOK, Expire, BeginClose, Drained, CloseRoot, vars, disk
<1>4. TypeOK'
  BY <1>1, <1>2, <1>3 DEF Gated, TypeOK
<1>5. Room' /\ OneRun' /\ Joined'
  BY <1>1, <1>2 DEF Gated, Room, Cur, Unnamed, OneRun, Joined
<1>6. Local' /\ Bucket'
  BY <1>1, <1>2, Calm
<1>7. QED
  BY <1>4, <1>5, <1>6 DEF Inv, Gated

-----------------------------------------------------------------------------
(* The steps of a run that spawn nothing.  What they share: the gate, the   *)
(* uploads and the bucket rest.                                             *)
RunGoes(c, from, to) == /\ pc[c] = from /\ Goto(c, to)
                        /\ UNCHANGED <<phase, tracked, primary>>
                        /\ UNCHANGED <<rootOpen, expired, victims, up, del, remote,
                                       orphanCause, crashes>>

LEMMA RunGoesGated ==
  ASSUME Inv, NEW c \in Callers, NEW from \in Single, NEW to \in Single,
         RunGoes(c, from, to)
  PROVE  /\ pc' \in [Callers -> PC] /\ pc'[c] = to /\ OneRun' /\ Joined'
         /\ \A d \in Callers \ {c} : pc'[d] = pc[d] /\ pc[d] \notin Single
         /\ name' = name /\ (from \in NoNameYet <=> to \in NoNameYet) => Room'
<1>1. to \in PC
  BY DEF PC, Single, Before
<1>2. QED
  BY <1>1, RunMoves, RoomKept DEF Inv, Gated, RunGoes, gate

(* While the bucket, the uploads and the local files rest, the bucket is    *)
(* as it was.                                                               *)
LEMMA BucketRests ==
  ASSUME Inv, NEW c \in Callers, pc[c] \in Before,
         UNCHANGED <<name, files, up, del, remote, orphanCause>>,
         \A d \in Callers \ {c} : pc'[d] = pc[d]
  PROVE  Bucket'
<1> SUFFICES ASSUME ~SameSecond
             PROVE  Distinct' /\ NotSent' /\ UploadsGood' /\ RemoteValidated' /\ Explained'
    BY DEF Bucket
<1>1. Distinct /\ NotSent /\ UploadsGood /\ RemoteValidated /\ Explained
  BY DEF Inv, Bucket
<1>2. Cur' = Cur
  BY DEF Cur
<1>3. NotSent'
  BY <1>1, <1>2 DEF NotSent
<1>4. QED
  BY <1>1, <1>2, <1>3 DEF Distinct, UploadsGood, RemoteValidated, Explained

LEMMA SetStatusStartedStep ==
  ASSUME Inv, NEW c \in Callers, SetStatusStarted(c) PROVE Inv'
<1>1. /\ RunGoes(c, "entered", "started") /\ UNCHANGED <<name, files, failing>>
      /\ status' = NoStatus
  BY DEF SetStatusStarted, RunGoes, gate, disk
<1>2. "entered" \in Single /\ "started" \in Single /\ "entered" \in NoNameYet
      /\ "started" \in NoNameYet
  BY DEF Single, NoNameYet
<1>3. /\ pc' \in [Callers -> PC] /\ pc'[c] = "started" /\ OneRun' /\ Joined' /\ Room'
      /\ \A d \in Callers \ {c} : pc'[d] = pc[d] /\ pc[d] \notin Single
  BY <1>1, <1>2, RunGoesGated
<1>4. TypeOK'
  BY <1>1, <1>3 DEF Inv, Gated, TypeOK, RunGoes, NoStatus
<1>5. Cur' = Cur /\ CurFile' = CurFile
  BY <1>1 DEF Cur, CurFile
<1>6. \A d \in Callers : pc'[d] \notin Before /\ pc[d] \notin Before
  BY <1>1, <1>3 DEF RunGoes, Single, Before
<1>7. Local'
  BY <1>1, <1>6 DEF Local, Target, Verdict, SuccessIsValid, SignalTracksRuns, NoStatus,
                    Before, Accepted
<1>8. Bucket'
  <2>1. ASSUME ~SameSecond
        PROVE  Distinct' /\ NotSent' /\ UploadsGood' /\ RemoteValidated' /\ Explained'
    <3>1. Distinct /\ NotSent /\ UploadsGood /\ RemoteValidated /\ Explained
      BY <2>1 DEF Inv, Bucket
    <3>2. UNCHANGED <<up, del, remote, orphanCause>>
      BY <1>1 DEF RunGoes
    <3>3. NotSent'
      BY <1>5, <1>6, <3>1, <3>2 DEF NotSent
    <3>4. QED
      BY <1>1, <1>5, <3>1, <3>2, <3>3 DEF Distinct, UploadsGood, RemoteValidated, Explained
  <2>2. QED
    BY <2>1 DEF Bucket
<1>9. QED
  BY <1>3, <1>4, <1>7, <1>8 DEF Inv, Gated

LEMMA CreateFileStep == ASSUME Inv, NEW c \in Callers, CreateFile(c) PROVE Inv'
<1>1. PICK f \in {Cur + 1} \cup {name[n] : n \in IF SameSecond THEN {Cur} \ {0} ELSE {}} :
        /\ name' = Append(name, f)
        /\ status' = [status EXCEPT !.file = f]
        /\ \/ /\ files[f] = "none"
              /\ files' = [files EXCEPT ![f] = "partial"]
              /\ Goto(c, "dumping")
           \/ UNCHANGED files /\ Goto(c, "failed")
  BY DEF CreateFile
<1>2. PICK to \in {"dumping", "failed"} :
        /\ RunGoes(c, "started", to) /\ failing' = failing
        /\ \/ to = "dumping" /\ files[f] = "none" /\ files' = [files EXCEPT ![f] = "partial"]
           \/ to = "failed" /\ files' = files
  BY <1>1 DEF CreateFile, RunGoes, gate, disk
<1>3. "started" \in Single /\ to \in Single
  BY DEF Single, Before
<1>4. /\ pc' \in [Callers -> PC] /\ pc'[c] = to /\ OneRun' /\ Joined'
      /\ \A d \in Callers \ {c} : pc'[d] = pc[d] /\ pc[d] \notin Single
  BY <1>2, <1>3, RunGoesGated
<1>5. TypeOK /\ Room /\ Local /\ pc[c] = "started"
  BY <1>2 DEF Inv, Gated, RunGoes
<1>6. /\ Cur \in Nat /\ c \in Unnamed /\ Unnamed' = Unnamed \ {c}
      /\ Cardinality(Unnamed') = Cardinality(Unnamed) - 1
      /\ Cardinality(Unnamed) \in Nat
  <2>1. c \in Unnamed /\ Unnamed' = Unnamed \ {c}
    BY <1>4, <1>5 DEF Unnamed
  <2>2. QED
    BY <1>5, <2>1, NameFacts, UnnamedFinite, FS_RemoveElement
<1>7. Cur + 1 <= MaxRuns
  <2>1. Cardinality(Unnamed) # 0
    BY <1>6, UnnamedFinite, FS_EmptySet
  <2>2. QED
    BY <1>5, <1>6, <2>1 DEF Room
<1>8. f \in Names
  BY <1>5, <1>6, <1>7, NameFacts DEF Names
<1>9. /\ name' \in Seq(Names) /\ Cur' = Cur + 1 /\ name'[Cur'] = f
      /\ \A n \in 1 .. Cur : name'[n] = name[n]
  BY <1>1, <1>5, <1>8 DEF TypeOK, Cur
<1>10. CurFile' = f
  BY <1>9 DEF CurFile
<1>11. TypeOK'
  <2>1. status' \in [file : Names \cup {NoFile}, ended : BOOLEAN, success : BOOLEAN,
                     s3 : {"none", "pending", "synced", "failed"}]
    BY <1>1, <1>5, <1>8 DEF TypeOK
  <2>2. files' \in [Names -> Content]
    BY <1>2, <1>5, <1>8 DEF TypeOK, Content
  <2>3. Len(name') <= MaxRuns
    BY <1>7, <1>9 DEF Cur
  <2>4. QED
    BY <1>2, <1>4, <1>5, <1>9, <2>1, <2>2, <2>3 DEF TypeOK, RunGoes
<1>12. Room'
  BY <1>5, <1>6, <1>9 DEF Room
<1>13. ~status.success /\ status'.success = status.success /\ status'.ended = status.ended
  BY <1>1, <1>5 DEF TypeOK, Local, Verdict
<1>14. files'[CurFile'] = "partial" \/ to = "failed"
  BY <1>2, <1>5, <1>8, <1>10 DEF TypeOK
<1>15. \A d \in Callers \ {c} : pc'[d] \notin Single /\ pc[d] \notin Single
  BY <1>4
<1>16. Local'
  <2>1. Target'
    BY <1>4, <1>6, <1>9, <1>14, <1>15 DEF Target, Before, Accepted, Single
  <2>2. Verdict' /\ SuccessIsValid'
    BY <1>13 DEF Verdict, SuccessIsValid
  <2>3. SignalTracksRuns'
    BY <1>2, <1>4, <1>5, <1>13, <1>15 DEF Local, SignalTracksRuns, Single, Before
  <2>4. QED
    BY <2>1, <2>2, <2>3 DEF Local
<1>17. Bucket'
  <2> SUFFICES ASSUME ~SameSecond
               PROVE  Distinct' /\ NotSent' /\ UploadsGood' /\ RemoteValidated' /\ Explained'
    BY DEF Bucket
  <2>1. Distinct /\ NotSent /\ UploadsGood /\ RemoteValidated /\ Explained
    BY DEF Inv, Bucket
  <2>2. f = Cur + 1
    BY <1>1
  <2>3. remote[f] = "none" /\ up[f].at = "none"
    BY <1>6, <1>8, <2>1, <2>2 DEF NotSent
  <2>4. UNCHANGED <<up, del, remote, orphanCause>>
    BY <1>2 DEF RunGoes
  <2>5. Distinct'
    BY <1>6, <1>9, <2>1, <2>2 DEF Distinct
  <2>6. NotSent'
    BY <1>6, <1>9, <2>1, <2>2, <2>3, <2>4 DEF NotSent, Names
  <2>7. \A g \in Names \ {f} : files'[g] = files[g]
    BY <1>2, <1>5 DEF TypeOK
  <2>8. UploadsGood' /\ RemoteValidated' /\ Explained'
    BY <2>1, <2>3, <2>4, <2>7 DEF UploadsGood, RemoteValidated, Explained
  <2>9. QED
    BY <2>1, <2>5, <2>6, <2>8
<1>18. QED
  BY <1>4, <1>11, <1>12, <1>16, <1>17 DEF Inv, Gated

LEMMA DumpStep ==
  ASSUME Inv, NEW c \in Callers, DumpOk(c) \/ DumpFail(c) PROVE Inv'
<1>1. PICK to \in {"dumped", "failed"} :
        RunGoes(c, "dumping", to) /\ UNCHANGED <<name, status, failing>>
  BY DEF DumpOk, DumpFail, RunGoes, gate
<1>2. "dumping" \in Single /\ to \in Single /\ "dumping" \notin NoNameYet
      /\ to \notin NoNameYet
  BY DEF Single, Before, NoNameYet
<1>3. /\ pc' \in [Callers -> PC] /\ pc'[c] = to /\ OneRun' /\ Joined' /\ Room'
      /\ \A d \in Callers \ {c} : pc'[d] = pc[d] /\ pc'[d] \notin Single
  BY <1>1, <1>2, RunGoesGated
<1>4. TypeOK /\ Local /\ pc[c] = "dumping"
  BY <1>1 DEF Inv, Gated, RunGoes
<1>5. Cur > 0 /\ Cur' = Cur /\ CurFile' = CurFile /\ CurFile \in Names
      /\ Cur \in Names
  BY <1>1, <1>4, NameFacts DEF Local, Target, Before, Cur, CurFile
<1>6. PICK d \in Content : files' = [files EXCEPT ![CurFile] = d] \/ files' = files
  BY DEF DumpOk, DumpFail, Content
<1>7. files' \in [Names -> Content] /\ \A f \in Names \ {CurFile} : files'[f] = files[f]
  BY <1>4, <1>6 DEF TypeOK
<1>8. TypeOK'
  BY <1>1, <1>3, <1>4, <1>7 DEF TypeOK, RunGoes
<1>9. ~status.success
  BY <1>4 DEF Local, Verdict
<1>10. Local'
  <2>1. Target'
    BY <1>3, <1>5 DEF Target, Before, Accepted, Single
  <2>2. Verdict' /\ SuccessIsValid'
    BY <1>1, <1>9 DEF Verdict, SuccessIsValid
  <2>3. SignalTracksRuns'
    BY <1>1, <1>3, <1>4 DEF Local, SignalTracksRuns, Single, Before
  <2>4. QED
    BY <2>1, <2>2, <2>3 DEF Local
<1>11. Bucket'
  <2> SUFFICES ASSUME ~SameSecond
               PROVE  Distinct' /\ NotSent' /\ UploadsGood' /\ RemoteValidated' /\ Explained'
    BY DEF Bucket
  <2>1. Distinct /\ NotSent /\ UploadsGood /\ RemoteValidated /\ Explained
    BY DEF Inv, Bucket
  <2>2. CurFile = Cur
    BY <1>4, <1>5, <2>1, NameFacts DEF Distinct, CurFile
  <2>3. remote[Cur] = "none" /\ up[Cur].at = "none"
    BY <1>4, <1>5, <2>1 DEF NotSent, Before
  <2>4. UNCHANGED <<up, del, remote, orphanCause>>
    BY <1>1 DEF RunGoes
  <2>5. Distinct'
    BY <1>1, <1>5, <2>1 DEF Distinct
  <2>6. NotSent'
    BY <1>4, <1>5, <2>1, <2>3, <2>4, NameFacts DEF NotSent, Names
  <2>7. UploadsGood' /\ RemoteValidated' /\ Explained'
    BY <1>7, <2>1, <2>2, <2>3, <2>4 DEF UploadsGood, RemoteValidated, Explained
  <2>8. QED
    BY <2>5, <2>6, <2>7
<1>12. QED
  BY <1>3, <1>8, <1>10, <1>11 DEF Inv, Gated

LEMMA ValidateStep ==
  ASSUME Inv, NEW c \in Callers, Validate(c) PROVE Inv'
<1>1. PICK to \in {"validated", "failed"} :
        /\ RunGoes(c, "dumped", to) /\ UNCHANGED <<name, files, status, failing>>
        /\ to = "validated" => files[CurFile] = "valid"
  BY DEF Validate, RunGoes, gate, disk
<1>2. "dumped" \in Single /\ to \in Single /\ "dumped" \notin NoNameYet
      /\ to \notin NoNameYet
  BY DEF Single, Before, NoNameYet
<1>3. /\ pc' \in [Callers -> PC] /\ pc'[c] = to /\ OneRun' /\ Joined' /\ Room'
      /\ \A d \in Callers \ {c} : pc'[d] = pc[d] /\ pc'[d] \notin Single
  BY <1>1, <1>2, RunGoesGated
<1>4. TypeOK /\ Local /\ pc[c] = "dumped"
  BY <1>1 DEF Inv, Gated, RunGoes
<1>5. TypeOK'
  BY <1>1, <1>3, <1>4 DEF TypeOK, RunGoes
<1>6. Cur > 0 /\ Cur' = Cur /\ CurFile' = CurFile
  BY <1>1, <1>4 DEF Local, Target, Before, Cur, CurFile
<1>7. Local'
  <2>1. Target'
    BY <1>1, <1>3, <1>6 DEF Target, Before, Accepted, Single
  <2>2. Verdict' /\ SuccessIsValid'
    BY <1>1, <1>3, <1>4 DEF Local, Verdict, SuccessIsValid, Single, Before
  <2>3. SignalTracksRuns'
    BY <1>1, <1>3, <1>4 DEF Local, SignalTracksRuns, Single, Before
  <2>4. QED
    BY <2>1, <2>2, <2>3 DEF Local
<1>8. Bucket'
  BY <1>1, <1>3, <1>4, BucketRests DEF RunGoes, Before
<1>9. QED
  BY <1>3, <1>5, <1>7, <1>8 DEF Inv, Gated

LEMMA SetS3PendingStep ==
  ASSUME Inv, NEW c \in Callers, SetS3Pending(c) PROVE Inv'
<1>1. /\ RunGoes(c, "validated", "pending") /\ UNCHANGED <<name, files, failing>>
      /\ status' = [status EXCEPT !.s3 = "pending"]
  BY DEF SetS3Pending, RunGoes, gate, disk
<1>2. /\ "validated" \in Single /\ "pending" \in Single
      /\ "validated" \notin NoNameYet /\ "pending" \notin NoNameYet
  BY DEF Single, Before, NoNameYet
<1>3. /\ pc' \in [Callers -> PC] /\ pc'[c] = "pending" /\ OneRun' /\ Joined' /\ Room'
      /\ \A d \in Callers \ {c} : pc'[d] = pc[d] /\ pc'[d] \notin Single
  BY <1>1, <1>2, RunGoesGated
<1>4. TypeOK /\ Local /\ pc[c] = "validated"
  BY <1>1 DEF Inv, Gated, RunGoes
<1>5. TypeOK' /\ status'.success = status.success /\ status'.ended = status.ended
      /\ status'.file = status.file
  BY <1>1, <1>3, <1>4 DEF TypeOK, RunGoes
<1>6. /\ Cur > 0 /\ Cur' = Cur /\ CurFile' = CurFile
      /\ files[CurFile] \in {"none", "valid"}
  BY <1>1, <1>4 DEF Local, Target, Before, Accepted, Cur, CurFile
<1>7. Local'
  <2>1. Target'
    BY <1>1, <1>3, <1>6 DEF Target, Before, Accepted, Single
  <2>2. Verdict' /\ SuccessIsValid'
    BY <1>1, <1>3, <1>4, <1>5 DEF Local, Verdict, SuccessIsValid, Single, Before
  <2>3. SignalTracksRuns'
    BY <1>1, <1>3, <1>4, <1>5 DEF Local, SignalTracksRuns, Single, Before
  <2>4. QED
    BY <2>1, <2>2, <2>3 DEF Local
<1>8. Bucket'
  BY <1>1, <1>3, <1>4, BucketRests DEF RunGoes, Before
<1>9. QED
  BY <1>3, <1>5, <1>7, <1>8 DEF Inv, Gated

LEMMA SetStatusDoneStep ==
  ASSUME Inv, NEW c \in Callers, SetStatusDone(c) PROVE Inv'
<1>1. PICK from \in {"pending", "failed"}, to \in {"succeeded", "unsuccessful"} :
        /\ RunGoes(c, from, to) /\ UNCHANGED <<name, files, failing>>
        /\ from = "pending" <=> to = "succeeded"
        /\ status' = [status EXCEPT !.ended = TRUE, !.success = pc[c] = "pending",
                                   !.file = CurFile]
  BY DEF SetStatusDone, RunGoes, gate, disk
<1>2. /\ from \in Single /\ to \in Single /\ from \notin NoNameYet /\ to \notin NoNameYet
  BY DEF Single, Before, NoNameYet
<1>3. /\ pc' \in [Callers -> PC] /\ pc'[c] = to /\ OneRun' /\ Joined' /\ Room'
      /\ \A d \in Callers \ {c} : pc'[d] = pc[d] /\ pc'[d] \notin Single
  BY <1>1, <1>2, RunGoesGated
<1>4. TypeOK /\ Local /\ pc[c] = from
  BY <1>1 DEF Inv, Gated, RunGoes
<1>5. /\ Cur > 0 /\ Cur' = Cur /\ CurFile' = CurFile /\ CurFile \in Names
      /\ from = "pending" => files[CurFile] \in {"none", "valid"}
  BY <1>1, <1>4, NameFacts DEF Local, Target, Before, Accepted, Cur, CurFile
<1>6. /\ status' \in [file : Names \cup {NoFile}, ended : BOOLEAN, success : BOOLEAN,
                      s3 : {"none", "pending", "synced", "failed"}]
      /\ status'.success <=> from = "pending"
      /\ status'.file = CurFile
  BY <1>1, <1>4, <1>5 DEF TypeOK
<1>7. TypeOK'
  BY <1>1, <1>3, <1>4, <1>6 DEF TypeOK, RunGoes
<1>8. Local'
  <2>1. Target'
    BY <1>1, <1>3, <1>5 DEF Target, Before, Accepted, Single
  <2>2. Verdict'
    BY <1>3, <1>5, <1>6 DEF Verdict, Single, Before, Names, NoFile
  <2>3. SuccessIsValid'
    BY <1>1, <1>5, <1>6 DEF SuccessIsValid
  <2>4. SignalTracksRuns'
    BY <1>3 DEF SignalTracksRuns
  <2>5. QED
    BY <2>1, <2>2, <2>3, <2>4 DEF Local
<1>9. Bucket'
  BY <1>1, <1>3, <1>4, BucketRests DEF RunGoes, Before
<1>10. QED
  BY <1>3, <1>7, <1>8, <1>9 DEF Inv, Gated

LEMMA NotifyBackupStep ==
  ASSUME Inv, NEW c \in Callers, NotifyBackup(c) PROVE Inv'
<1>1. PICK from \in {"succeeded", "unsuccessful"}, to \in {"upload", "finishing"} :
        /\ RunGoes(c, from, to) /\ UNCHANGED <<name, files, status>>
        /\ to = "upload" => from = "succeeded"
        /\ failing' = [failing EXCEPT !.backup = ~status.success]
  BY DEF NotifyBackup, RunGoes, gate, disk
<1>2. /\ from \in Single /\ to \in Single /\ from \notin NoNameYet /\ to \notin NoNameYet
  BY DEF Single, Before, NoNameYet
<1>3. /\ pc' \in [Callers -> PC] /\ pc'[c] = to /\ OneRun' /\ Joined' /\ Room'
      /\ \A d \in Callers \ {c} : pc'[d] = pc[d] /\ pc'[d] \notin Single
  BY <1>1, <1>2, RunGoesGated
<1>4. TypeOK /\ Local /\ pc[c] = from
  BY <1>1 DEF Inv, Gated, RunGoes
<1>5. /\ failing' \in [backup : BOOLEAN, s3 : BOOLEAN]
      /\ failing'.backup = ~status.success
  BY <1>1, <1>4 DEF TypeOK
<1>6. TypeOK'
  BY <1>1, <1>3, <1>4, <1>5 DEF TypeOK, RunGoes
<1>7. /\ Cur > 0 /\ Cur' = Cur /\ CurFile' = CurFile
      /\ from = "succeeded" => files[CurFile] \in {"none", "valid"}
  BY <1>1, <1>4 DEF Local, Target, Before, Accepted, Cur, CurFile
<1>8. Local'
  <2>1. Target'
    BY <1>1, <1>3, <1>7 DEF Target, Before, Accepted, Single
  <2>2. Verdict' /\ SuccessIsValid'
    BY <1>1, <1>3, <1>4 DEF Local, Verdict, SuccessIsValid, Single, Before
  <2>3. SignalTracksRuns'
    BY <1>1, <1>5 DEF SignalTracksRuns
  <2>4. QED
    BY <2>1, <2>2, <2>3 DEF Local
<1>9. Bucket'
  BY <1>1, <1>3, <1>4, BucketRests DEF RunGoes, Before
<1>10. QED
  BY <1>3, <1>6, <1>8, <1>9 DEF Inv, Gated

-----------------------------------------------------------------------------
(* Goroutines beside the run: how the gate sees them come and go. *)
LEMMA Spawned ==
  ASSUME Gated, NEW w \in Workers, Gate!Spawn(w) \/ Gate!Admit(w)
  PROVE  /\ tracked' = tracked \cup {w} /\ tracked' \subseteq Workers
         /\ UNCHANGED <<phase, primary>> /\ phase # "closed"
<1>1. primary # {} => tracked # {}
  BY DEF Gated, OneRun, Joined, Single, Before
<1>2. QED
  BY <1>1 DEF Gated, TypeOK, Joined, Gate!Spawn, Gate!Admit

LEMMA Left ==
  ASSUME Gated, NEW w, Gate!Leave(w)
  PROVE  /\ tracked' = tracked \ {w} /\ tracked' \subseteq Workers
         /\ primary' = primary /\ phase' \in {"open", "closing", "closed"}
         /\ phase' = "closed" => tracked' = {}
  BY DEF Gated, TypeOK, Joined, Gate!Leave

LEMMA SpawnUploadStep ==
  ASSUME Inv, NEW c \in Callers, SpawnUpload(c) PROVE Inv'
<1>1. /\ pc[c] = "upload" /\ Goto(c, "listAge") /\ Gate!Spawn(Upload(Cur))
      /\ up' = [up EXCEPT ![Cur] = [at |-> "open", good |-> FALSE]]
      /\ UNCHANGED <<rootOpen, name, files, expired, victims, status, del, remote, failing,
                     orphanCause, crashes>>
  BY DEF SpawnUpload, disk
<1>2. Gated /\ Local /\ Bucket /\ TypeOK
  BY DEF Inv, Gated
<1>3. /\ Cur > 0 /\ Cur \in Names /\ Cur' = Cur /\ CurFile' = CurFile
      /\ files[CurFile] \in {"none", "valid"}
  BY <1>1, <1>2, NameFacts DEF Local, Target, Before, Accepted, Cur, CurFile
<1>4. "listAge" \in PC /\ Upload(Cur) \in Workers
  BY <1>3 DEF PC, Workers
<1>5. /\ pc' \in [Callers -> PC] /\ pc'[c] = "listAge"
      /\ \A d \in Callers \ {c} : pc'[d] = pc[d]
  BY <1>1, <1>2, <1>4, Moves
<1>6. /\ tracked' = tracked \cup {Upload(Cur)} /\ tracked' \subseteq Workers
      /\ UNCHANGED <<phase, primary>> /\ phase # "closed"
  BY <1>1, <1>2, <1>4, Spawned
<1>7. /\ up' \in [Names -> [at : {"none", "open", "send", "report", "notify"},
                            good : BOOLEAN]]
      /\ up'[Cur].at = "open" /\ \A n \in Names \ {Cur} : up'[n] = up[n]
  BY <1>1, <1>2, <1>3 DEF TypeOK
<1>8. TypeOK'
  BY <1>1, <1>2, <1>5, <1>6, <1>7 DEF TypeOK
<1>9. Room'
  BY <1>1, <1>2, <1>4, RoomKept DEF Gated, NoNameYet
<1>10. \A d \in Callers \ {c} : pc[d] \notin Single
  BY <1>1, <1>2, OnlyRun DEF Gated, Single, Before
<1>11. OneRun'
  BY <1>1, <1>2, <1>5, <1>6, <1>10 DEF Gated, OneRun, Single, Before
<1>12. Joined'
  BY <1>1, <1>2, <1>5, <1>6, <1>7 DEF Gated, Joined
<1>13. \A d \in Callers : pc'[d] \notin Touching
  BY <1>5, <1>10 DEF Single, Touching, Before
<1>14. Local'
  <2>1. Target' /\ Verdict'
    BY <1>1, <1>2, <1>13 DEF Local, Target, Verdict, Touching, Before, Accepted
  <2>2. SuccessIsValid' /\ SignalTracksRuns'
    BY <1>1, <1>2, <1>10 DEF Local, SuccessIsValid, SignalTracksRuns, Single, Before
  <2>3. QED
    BY <2>1, <2>2 DEF Local
<1>15. Bucket'
  <2> SUFFICES ASSUME ~SameSecond
               PROVE  Distinct' /\ NotSent' /\ UploadsGood' /\ RemoteValidated' /\ Explained'
    BY DEF Bucket
  <2>1. Distinct /\ NotSent /\ UploadsGood /\ RemoteValidated /\ Explained
    BY <1>2 DEF Bucket
  <2>2. CurFile = Cur
    BY <1>2, <1>3, <2>1, NameFacts DEF Distinct, CurFile
  <2>3. Distinct'
    BY <1>1, <1>3, <2>1 DEF Distinct
  <2>4. NotSent'
    BY <1>1, <1>3, <1>7, <1>13, <2>1 DEF NotSent, Touching, Names
  <2>5. UploadsGood'
    BY <1>1, <1>3, <1>7, <2>1, <2>2 DEF UploadsGood
  <2>6. RemoteValidated' /\ Explained'
    BY <1>1, <1>7, <2>1 DEF RemoteValidated, Explained
  <2>7. QED
    BY <2>3, <2>4, <2>5, <2>6
<1>16. QED
  BY <1>8, <1>9, <1>11, <1>12, <1>14, <1>15 DEF Inv, Gated

(* A file that is removed, with its remote delete on the way or the cause   *)
(* noted why there is none, leaves all of this true.                        *)
LEMMA Removed ==
  ASSUME Inv, NEW f \in Names, RemoveLocal(f), UNCHANGED <<pc, name, status, up, remote, failing>>,
         del \subseteq del', f \in del' \/ orphanCause'[f] # {},
         \A g \in Names \ {f} : orphanCause'[g] = orphanCause[g]
  PROVE  /\ files' \in [Names -> Content] /\ expired' \subseteq Names
         /\ Local' /\ Bucket'
<1>1. TypeOK /\ Local
  BY DEF Inv, Gated
<1>2. /\ files' \in [Names -> Content] /\ expired' \subseteq Names
      /\ files'[f] = "none" /\ \A g \in Names \ {f} : files'[g] = files[g]
  BY <1>1 DEF TypeOK, RemoveLocal, Content
<1>3. Cur' = Cur /\ CurFile' = CurFile /\ (Cur > 0 => CurFile \in Names)
  BY <1>1, NameFacts DEF Cur, CurFile
<1>4. Target'
  BY <1>1, <1>2, <1>3 DEF Local, Target, Before, Accepted
<1>5. Verdict' /\ SignalTracksRuns'
  BY <1>1 DEF Local, Verdict, SignalTracksRuns
<1>6. SuccessIsValid'
  BY <1>1, <1>2 DEF Local, Verdict, SuccessIsValid, TypeOK
<1>7. ASSUME ~SameSecond
      PROVE  Distinct' /\ NotSent' /\ UploadsGood' /\ RemoteValidated' /\ Explained'
  <2>1. Distinct /\ NotSent /\ UploadsGood /\ RemoteValidated /\ Explained
    BY <1>7 DEF Inv, Bucket
  <2>2. Distinct' /\ NotSent' /\ RemoteValidated'
    BY <1>3, <2>1 DEF Distinct, NotSent, RemoteValidated
  <2>3. UploadsGood' /\ Explained'
    BY <1>2, <2>1 DEF UploadsGood, Explained
  <2>4. QED
    BY <2>2, <2>3
<1>8. QED
  BY <1>2, <1>4, <1>5, <1>6, <1>7 DEF Local, Bucket

LEMMA CleanupDeleteStep ==
  ASSUME Inv, NEW c \in Callers, NEW f \in Names, CleanupDelete(c, f) PROVE Inv'
<1>1. /\ victims' = victims \ {f}
      /\ UNCHANGED <<rootOpen, pc, name, status, up, remote, failing, orphanCause, crashes>>
  BY DEF CleanupDelete
<1>2. Gated /\ Local /\ Bucket /\ TypeOK
  BY DEF Inv, Gated
<1>3. Cur' = Cur /\ Unnamed' = Unnamed
  BY <1>1 DEF Cur, Unnamed
<1>4. CASE RemoveLocal(f) /\ Gate!Spawn(Delete(f)) /\ del' = del \cup {f}
  <2>1. Delete(f) \in Workers
    BY DEF Workers
  <2>2. /\ tracked' = tracked \cup {Delete(f)} /\ tracked' \subseteq Workers
        /\ UNCHANGED <<phase, primary>> /\ phase # "closed"
    BY <1>2, <1>4, <2>1, Spawned
  <2>3. /\ files' \in [Names -> Content] /\ expired' \subseteq Names /\ Local' /\ Bucket'
    BY <1>1, <1>4, Removed
  <2>4. TypeOK'
    BY <1>1, <1>2, <1>4, <2>2, <2>3 DEF TypeOK
  <2>5. Room' /\ OneRun' /\ Joined'
    BY <1>1, <1>2, <1>3, <1>4, <2>2 DEF Gated, Room, OneRun, Joined
  <2>6. QED
    BY <2>3, <2>4, <2>5 DEF Inv, Gated
<1>5. CASE UNCHANGED <<gate, disk, del>>
  <2>1. UNCHANGED <<phase, tracked, primary, files, expired, del>>
    BY <1>5 DEF gate, disk
  <2>2. TypeOK'
    BY <1>1, <1>2, <2>1 DEF TypeOK
  <2>3. Room' /\ OneRun' /\ Joined'
    BY <1>1, <1>2, <1>3, <2>1 DEF Gated, Room, OneRun, Joined
  <2>4. Local' /\ Bucket'
    BY <1>1, <1>2, <2>1, Calm
  <2>5. QED
    BY <2>2, <2>3, <2>4 DEF Inv, Gated
<1>6. QED
  BY <1>4, <1>5 DEF CleanupDelete

LEMMA UserDeleteStep == ASSUME Inv, NEW f \in Names, UserDelete(f) PROVE Inv'
<1>1. /\ RemoveLocal(f)
      /\ UNCHANGED <<rootOpen, pc, name, victims, status, up, remote, failing, crashes>>
  BY DEF UserDelete
<1>2. Gated /\ Local /\ Bucket /\ TypeOK
  BY DEF Inv, Gated
<1>3. Cur' = Cur /\ Unnamed' = Unnamed
  BY <1>1 DEF Cur, Unnamed
<1>4. CASE Gate!Admit(Delete(f)) /\ del' = del \cup {f} /\ UNCHANGED orphanCause
  <2>1. Delete(f) \in Workers
    BY DEF Workers
  <2>2. /\ tracked' = tracked \cup {Delete(f)} /\ tracked' \subseteq Workers
        /\ UNCHANGED <<phase, primary>> /\ phase # "closed"
    BY <1>2, <1>4, <2>1, Spawned
  <2>3. /\ files' \in [Names -> Content] /\ expired' \subseteq Names /\ Local' /\ Bucket'
    BY <1>1, <1>4, Removed
  <2>4. TypeOK'
    BY <1>1, <1>2, <1>4, <2>2, <2>3 DEF TypeOK
  <2>5. Room' /\ OneRun' /\ Joined'
    BY <1>1, <1>2, <1>3, <1>4, <2>2 DEF Gated, Room, OneRun, Joined
  <2>6. QED
    BY <2>3, <2>4, <2>5 DEF Inv, Gated
<1>5. CASE /\ orphanCause' = [orphanCause EXCEPT ![f] = @ \cup {"dropped"}]
           /\ UNCHANGED <<gate, del>>
  <2>1. UNCHANGED <<phase, tracked, primary, del>>
    BY <1>5 DEF gate
  <2>2. /\ orphanCause' \in [Names -> SUBSET {"failed", "dropped", "crashed", "raced"}]
        /\ "dropped" \in orphanCause'[f]
        /\ \A g \in Names \ {f} : orphanCause'[g] = orphanCause[g]
    BY <1>2, <1>5 DEF TypeOK
  <2>3. /\ files' \in [Names -> Content] /\ expired' \subseteq Names /\ Local' /\ Bucket'
    BY <1>1, <2>1, <2>2, Removed
  <2>4. TypeOK'
    BY <1>1, <1>2, <2>1, <2>2, <2>3 DEF TypeOK
  <2>5. Room' /\ OneRun' /\ Joined'
    BY <1>1, <1>2, <1>3, <2>1 DEF Gated, Room, OneRun, Joined
  <2>6. QED
    BY <2>3, <2>4, <2>5 DEF Inv, Gated
<1>6. QED
  BY <1>4, <1>5 DEF UserDelete

-----------------------------------------------------------------------------
(* With a second for each run, upload n is about the file n.                *)
LEMMA OwnFile ==
  ASSUME Inv, ~SameSecond, NEW n \in Names, up[n].at # "none"
  PROVE  n \in 1 .. Cur /\ name[n] = n
<1>1. NotSent /\ Distinct /\ Cur \in Nat
  BY NameFacts DEF Inv, Gated, Bucket
<1>2. ~(n > Cur)
  BY <1>1 DEF NotSent
<1>3. n \in 1 .. Cur
  BY <1>1, <1>2 DEF Names
<1>4. QED
  BY <1>1, <1>3 DEF Distinct

(* The steps of an upload before it ends. *)
UploadGoes(n, at) == /\ up[n].at # "none" /\ at # "none"
                     /\ up' \in [Names -> [at : {"none", "open", "send", "report", "notify"},
                                          good : BOOLEAN]]
                     /\ up'[n].at = at /\ \A m \in Names \ {n} : up'[m] = up[m]
                     /\ UNCHANGED <<phase, tracked, primary, rootOpen, pc, name, files, expired,
                                    victims, del, failing, orphanCause, crashes>>

LEMMA UploadGoesOn ==
  ASSUME Inv, NEW n \in Names, NEW at \in {"send", "report", "notify"}, UploadGoes(n, at)
  PROVE  /\ up' \in [Names -> [at : {"none", "open", "send", "report", "notify"},
                               good : BOOLEAN]]
         /\ up'[n].at = at /\ \A m \in Names \ {n} : up'[m] = up[m]
         /\ Room' /\ OneRun' /\ Joined' /\ Target'
         /\ ~SameSecond => Distinct' /\ (remote' = remote => NotSent')
<1>1. TypeOK /\ Gated /\ Local /\ Bucket
  BY DEF Inv, Gated
<1>2. /\ up' \in [Names -> [at : {"none", "open", "send", "report", "notify"},
                            good : BOOLEAN]]
      /\ up'[n].at = at /\ \A m \in Names \ {n} : up'[m] = up[m]
  BY DEF UploadGoes
<1>3. UNCHANGED <<phase, tracked, primary, pc, name, files, del>> /\ up[n].at # "none"
  BY DEF UploadGoes
<1>4. Cur' = Cur /\ CurFile' = CurFile /\ Unnamed' = Unnamed
  BY <1>3 DEF Cur, CurFile, Unnamed
<1>5. Room' /\ OneRun' /\ Joined' /\ Target'
  BY <1>1, <1>2, <1>3, <1>4 DEF Gated, Local, Room, OneRun, Joined, Target
<1>6. ~SameSecond => Distinct' /\ (remote' = remote => NotSent')
  BY <1>1, <1>2, <1>3, <1>4 DEF Bucket, Distinct, NotSent
<1>7. QED
  BY <1>2, <1>5, <1>6

LEMMA UploadOpenStep == ASSUME Inv, NEW n \in Names, UploadOpen(n) PROVE Inv'
<1>1. PICK at \in {"send", "report"} :
        /\ UploadGoes(n, at) /\ UNCHANGED <<status, remote>> /\ up[n].at = "open"
        /\ at = "send" => files[name[n]] # "none"
        /\ at = "send" /\ files[name[n]] = "valid" => up'[n].good
  BY DEF UploadOpen, UploadGoes, gate, disk, Inv, Gated, TypeOK
<1>2. TypeOK /\ Local /\ Bucket
  BY DEF Inv, Gated
<1>3. /\ up' \in [Names -> [at : {"none", "open", "send", "report", "notify"},
                            good : BOOLEAN]]
      /\ up'[n].at = at /\ \A m \in Names \ {n} : up'[m] = up[m]
      /\ Room' /\ OneRun' /\ Joined' /\ Target'
      /\ ~SameSecond => Distinct' /\ NotSent'
  BY <1>1, UploadGoesOn
<1>4. UNCHANGED <<phase, tracked, primary, rootOpen, pc, name, files, expired, victims, del,
                  failing, orphanCause, crashes>>
  BY <1>1 DEF UploadGoes
<1>5. TypeOK'
  BY <1>1, <1>2, <1>3, <1>4 DEF TypeOK
<1>6. Verdict' /\ SuccessIsValid' /\ SignalTracksRuns'
  BY <1>1, <1>2, <1>4 DEF Local, Verdict, SuccessIsValid, SignalTracksRuns
<1>7. ASSUME ~SameSecond PROVE UploadsGood' /\ RemoteValidated' /\ Explained'
  <2>1. UploadsGood /\ RemoteValidated /\ Explained
    BY <1>2, <1>7 DEF Bucket
  <2>2. name[n] = n
    BY <1>1, <1>7, OwnFile
  <2>3. at = "send" => files[n] # "none"
    <3>1. at = "send" => files[name[n]] # "none"
      BY <1>1, Zenon
    <3>2. QED
      BY <2>2, <3>1, Zenon
  <2>4. at = "send" => up'[n].good
    <3>1. at = "send" /\ files[name[n]] = "valid" => up'[n].good
      BY <1>1, Zenon
    <3>2. files[n] \in {"none", "valid"}
      BY <1>1, <2>1 DEF UploadsGood
    <3>3. QED
      BY <2>2, <2>3, <3>1, <3>2, Zenon
  <2>5. QED
    BY <1>1, <1>3, <1>4, <2>1, <2>3, <2>4 DEF UploadsGood, RemoteValidated, Explained
<1>8. QED
  BY <1>3, <1>5, <1>6, <1>7 DEF Inv, Gated, Local, Bucket

LEMMA UploadSendStep == ASSUME Inv, NEW n \in Names, UploadSend(n) PROVE Inv'
<1>1. /\ UploadGoes(n, "report") /\ UNCHANGED status /\ up[n].at = "send"
      /\ \/ remote' = remote
         \/ remote' = [remote EXCEPT ![name[n]] = IF up[n].good THEN "valid" ELSE "corrupt"]
  BY DEF UploadSend, UploadGoes, gate, disk, Inv, Gated, TypeOK
<1>2. TypeOK /\ Local /\ Bucket
  BY DEF Inv, Gated
<1>3. /\ up' \in [Names -> [at : {"none", "open", "send", "report", "notify"},
                            good : BOOLEAN]]
      /\ up'[n].at = "report" /\ \A m \in Names \ {n} : up'[m] = up[m]
      /\ Room' /\ OneRun' /\ Joined' /\ Target'
      /\ ~SameSecond => Distinct' /\ (remote' = remote => NotSent')
  BY <1>1, UploadGoesOn
<1>4. UNCHANGED <<phase, tracked, primary, rootOpen, pc, name, files, expired, victims, del,
                  failing, orphanCause, crashes>>
  BY <1>1 DEF UploadGoes
<1>5. remote' \in [Names -> Content \ {"partial"}]
  BY <1>1, <1>2 DEF TypeOK, Content
<1>6. TypeOK'
  BY <1>1, <1>2, <1>3, <1>4, <1>5 DEF TypeOK
<1>7. Verdict' /\ SuccessIsValid' /\ SignalTracksRuns'
  BY <1>1, <1>2, <1>4 DEF Local, Verdict, SuccessIsValid, SignalTracksRuns
<1>8. ASSUME ~SameSecond PROVE NotSent' /\ UploadsGood' /\ RemoteValidated' /\ Explained'
  <2>1. NotSent /\ UploadsGood /\ RemoteValidated /\ Explained
    BY <1>2, <1>8 DEF Bucket
  <2>2. name[n] = n /\ up[n].good
    BY <1>1, <1>8, <2>1, OwnFile DEF UploadsGood
  <2>3. /\ remote'[n] # "corrupt"
        /\ \A m \in Names \ {n} : remote'[m] = remote[m]
    BY <1>1, <1>2, <2>1, <2>2 DEF TypeOK, RemoteValidated
  <2>4. Cur' = Cur
    BY <1>4 DEF Cur
  <2>5. NotSent'
    BY <1>1, <1>3, <1>4, <2>1, <2>3, <2>4 DEF NotSent
  <2>6. UploadsGood' /\ RemoteValidated' /\ Explained'
    BY <1>1, <1>3, <1>4, <2>1, <2>3 DEF UploadsGood, RemoteValidated, Explained
  <2>7. QED
    BY <2>5, <2>6
<1>9. QED
  BY <1>3, <1>6, <1>7, <1>8 DEF Inv, Gated, Local, Bucket

LEMMA UploadReportStep == ASSUME Inv, NEW n \in Names, UploadReport(n) PROVE Inv'
<1>1. /\ up[n].at = "report" /\ UNCHANGED remote
      /\ up' = [up EXCEPT ![n].at = "notify"]
      /\ status' = [status EXCEPT !.s3 = IF up[n].good THEN "synced" ELSE "failed"]
      /\ UNCHANGED <<phase, tracked, primary, rootOpen, pc, name, files, expired, victims,
                     del, failing, orphanCause, crashes>>
  BY DEF UploadReport, gate, disk
<1>2. TypeOK /\ Local /\ Bucket
  BY DEF Inv, Gated
<1>3. UploadGoes(n, "notify")
  <2>1. /\ up' \in [Names -> [at : {"none", "open", "send", "report", "notify"},
                              good : BOOLEAN]]
        /\ up'[n].at = "notify" /\ \A m \in Names \ {n} : up'[m] = up[m]
    BY <1>1, <1>2 DEF TypeOK
  <2>2. QED
    BY <1>1, <2>1 DEF UploadGoes
<1>4. /\ up' \in [Names -> [at : {"none", "open", "send", "report", "notify"},
                            good : BOOLEAN]]
      /\ up'[n].at = "notify" /\ \A m \in Names \ {n} : up'[m] = up[m]
      /\ Room' /\ OneRun' /\ Joined' /\ Target'
      /\ ~SameSecond => Distinct' /\ NotSent'
  BY <1>1, <1>3, UploadGoesOn
<1>5. /\ status' \in [file : Names \cup {NoFile}, ended : BOOLEAN, success : BOOLEAN,
                      s3 : {"none", "pending", "synced", "failed"}]
      /\ status'.file = status.file /\ status'.ended = status.ended
      /\ status'.success = status.success
  BY <1>1, <1>2 DEF TypeOK
<1>6. TypeOK'
  BY <1>1, <1>2, <1>4, <1>5 DEF TypeOK
<1>7. Verdict' /\ SuccessIsValid' /\ SignalTracksRuns'
  BY <1>1, <1>2, <1>5 DEF Local, Verdict, SuccessIsValid, SignalTracksRuns
<1>8. ASSUME ~SameSecond PROVE UploadsGood' /\ RemoteValidated' /\ Explained'
  BY <1>1, <1>2, <1>4, <1>8 DEF Bucket, UploadsGood, RemoteValidated, Explained
<1>9. QED
  BY <1>4, <1>6, <1>7, <1>8 DEF Inv, Gated, Local, Bucket

LEMMA UploadNotifyStep == ASSUME Inv, NEW n \in Names, UploadNotify(n) PROVE Inv'
<1>1. /\ up' = [up EXCEPT ![n] = NoUpload] /\ Gate!Leave(Upload(n))
      /\ failing' = [failing EXCEPT !.s3 = ~up[n].good]
      /\ UNCHANGED <<rootOpen, pc, name, files, expired, victims, status, del, remote,
                     orphanCause, crashes>>
  BY DEF UploadNotify, disk
<1>2. Gated /\ TypeOK /\ Local /\ Bucket
  BY DEF Inv, Gated
<1>3. /\ tracked' = tracked \ {Upload(n)} /\ tracked' \subseteq Workers
      /\ primary' = primary /\ phase' \in {"open", "closing", "closed"}
      /\ phase' = "closed" => tracked' = {}
  BY <1>1, <1>2, Left
<1>4. /\ up' \in [Names -> [at : {"none", "open", "send", "report", "notify"},
                            good : BOOLEAN]]
      /\ up'[n].at = "none" /\ \A m \in Names \ {n} : up'[m] = up[m]
  BY <1>1, <1>2 DEF TypeOK, NoUpload
<1>5. /\ failing' \in [backup : BOOLEAN, s3 : BOOLEAN]
      /\ failing'.backup = failing.backup
  <2>1. up[n].good \in BOOLEAN
    BY <1>2 DEF TypeOK
  <2>2. QED
    BY <1>1, <1>2, <2>1 DEF TypeOK
<1>6. TypeOK'
  BY <1>1, <1>2, <1>3, <1>4, <1>5 DEF TypeOK
<1>7. Cur' = Cur /\ CurFile' = CurFile /\ Unnamed' = Unnamed
  BY <1>1 DEF Cur, CurFile, Unnamed
<1>8. Room' /\ OneRun'
  BY <1>1, <1>2, <1>3, <1>7 DEF Gated, Room, OneRun
<1>9. Joined'
  BY <1>1, <1>2, <1>3, <1>4, WorkersDiffer DEF Gated, Joined
<1>10. Local'
  BY <1>1, <1>2, <1>5, <1>7 DEF Local, Target, Verdict, SuccessIsValid, SignalTracksRuns
<1>11. Bucket'
  BY <1>1, <1>2, <1>4, <1>7 DEF Bucket, Distinct, NotSent, UploadsGood, RemoteValidated,
                                Explained
<1>12. QED
  BY <1>6, <1>8, <1>9, <1>10, <1>11 DEF Inv, Gated

LEMMA DeleteRemoteStep == ASSUME Inv, NEW f \in Names, DeleteRemote(f) PROVE Inv'
<1>1. /\ f \in del /\ del' = del \ {f} /\ Gate!Leave(Delete(f))
      /\ UNCHANGED <<rootOpen, pc, name, files, expired, victims, status, up, failing, crashes>>
  BY DEF DeleteRemote, disk
<1>2. PICK cause \in SUBSET {"failed", "raced"} :
        /\ orphanCause' = [orphanCause EXCEPT ![f] = @ \cup cause]
        /\ \/ /\ remote' = [remote EXCEPT ![f] = "none"]
              /\ Uploading(f) => cause # {}
           \/ remote' = remote /\ cause # {}
  <2>1. CASE /\ remote' = [remote EXCEPT ![f] = "none"]
             /\ orphanCause' = [orphanCause EXCEPT ![f] =
                                  IF Uploading(f) THEN @ \cup {"raced"} ELSE @]
    <3>1. CASE Uploading(f)
      BY <2>1, <3>1
    <3>2. CASE ~Uploading(f)
      <4>1. orphanCause[f] \cup {} = orphanCause[f]
        OBVIOUS
      <4>2. orphanCause' = [orphanCause EXCEPT ![f] = @ \cup {}]
        BY <2>1, <3>2, <4>1, Zenon
      <4>3. {} \in SUBSET {"failed", "raced"}
        OBVIOUS
      <4>4. QED
        BY <2>1, <3>2, <4>2, <4>3, Zenon
    <3>3. QED
      BY <3>1, <3>2
  <2>2. CASE /\ orphanCause' = [orphanCause EXCEPT ![f] = @ \cup {"failed"}]
             /\ UNCHANGED remote
    BY <2>2
  <2>3. QED
    BY <2>1, <2>2 DEF DeleteRemote
<1>3. Gated /\ TypeOK /\ Local /\ Bucket
  BY DEF Inv, Gated
<1>4. /\ tracked' = tracked \ {Delete(f)} /\ tracked' \subseteq Workers
      /\ primary' = primary /\ phase' \in {"open", "closing", "closed"}
      /\ phase' = "closed" => tracked' = {}
  BY <1>1, <1>3, Left
<1>5. /\ orphanCause' \in [Names -> SUBSET {"failed", "dropped", "crashed", "raced"}]
      /\ orphanCause'[f] = orphanCause[f] \cup cause
      /\ \A g \in Names \ {f} : orphanCause'[g] = orphanCause[g]
  BY <1>2, <1>3 DEF TypeOK
<1>6. /\ remote' \in [Names -> Content \ {"partial"}]
      /\ remote'[f] \in {remote[f], "none"}
      /\ \A g \in Names \ {f} : remote'[g] = remote[g]
  BY <1>2, <1>3 DEF TypeOK, Content
<1>7. TypeOK'
  BY <1>1, <1>3, <1>4, <1>5, <1>6 DEF TypeOK
<1>8. Cur' = Cur /\ CurFile' = CurFile /\ Unnamed' = Unnamed
  BY <1>1 DEF Cur, CurFile, Unnamed
<1>9. Room' /\ OneRun'
  BY <1>1, <1>3, <1>4, <1>8 DEF Gated, Room, OneRun
<1>10. Joined'
  BY <1>1, <1>3, <1>4, WorkersDiffer DEF Gated, Joined
<1>11. Local'
  BY <1>1, <1>3, <1>8 DEF Local, Target, Verdict, SuccessIsValid, SignalTracksRuns
<1>12. ASSUME ~SameSecond
       PROVE  Distinct' /\ NotSent' /\ UploadsGood' /\ RemoteValidated' /\ Explained'
  <2>1. Distinct /\ NotSent /\ UploadsGood /\ RemoteValidated /\ Explained
    BY <1>3, <1>12 DEF Bucket
  <2>2. Distinct' /\ NotSent' /\ UploadsGood' /\ RemoteValidated'
    BY <1>1, <1>6, <1>8, <2>1 DEF Distinct, NotSent, UploadsGood, RemoteValidated
  <2>3. up[f].at = "send" => Uploading(f)
    BY <1>12, OwnFile DEF Uploading
  <2>4. remote'[f] # "none" \/ up[f].at = "send" => orphanCause'[f] # {}
    BY <1>2, <1>3, <1>5, <1>6, <2>3 DEF TypeOK
  <2>5. Explained'
    BY <1>1, <1>5, <1>6, <2>1, <2>4 DEF Explained
  <2>6. QED
    BY <2>2, <2>5
<1>13. QED
  BY <1>7, <1>9, <1>10, <1>11, <1>12 DEF Inv, Gated, Bucket

(* What a crash leaves: the directory, the bucket and the names.            *)
LEMMA CrashStep == ASSUME Inv, Crash PROVE Inv'
<1>1. /\ phase' = "open" /\ tracked' = {} /\ primary' = {} /\ rootOpen' = TRUE
      /\ pc' = Idle /\ victims' = {} /\ status' = NoStatus /\ up' = NoUploads /\ del' = {}
      /\ failing' = AllWell /\ UNCHANGED <<name, expired>>
      /\ crashes < MaxCrashes /\ crashes' = crashes + 1
  BY DEF Crash
<1>2. TypeOK /\ Local /\ Bucket /\ Room
  BY DEF Inv, Gated
<1>3. /\ pc' \in [Callers -> PC] /\ \A c \in Callers : pc'[c] = "idle"
  BY <1>1 DEF Idle, PC
<1>4. /\ up' \in [Names -> [at : {"none", "open", "send", "report", "notify"},
                            good : BOOLEAN]]
      /\ \A n \in Names : up'[n].at = "none"
  BY <1>1 DEF NoUploads, NoUpload
<1>5. /\ files' \in [Names -> Content]
      /\ \A f \in Names : files'[f] = files[f] \/ files[f] = "partial"
      /\ \A f \in Names : files'[f] = "none" => files[f] = "none"
  <2>1. CASE UNCHANGED files
    BY <1>2, <2>1 DEF TypeOK
  <2>2. CASE files' = [files EXCEPT ![CurFile] = IF @ = "partial" THEN "valid" ELSE @]
    BY <1>2, <2>2 DEF TypeOK, Content
  <2>3. QED
    BY <2>1, <2>2 DEF Crash
<1>6. /\ remote' = remote
      \/ \E n \in 1 .. Cur : /\ up[n].at = "send"
                             /\ remote' = [remote EXCEPT ![name[n]] = "valid"]
  BY DEF Crash
<1>7. remote' \in [Names -> Content \ {"partial"}]
  BY <1>2, <1>6 DEF TypeOK, Content
<1>8. orphanCause' = [f \in Names |-> IF f \in del \/ Uploading(f)
                                     THEN orphanCause[f] \cup {"crashed"} ELSE orphanCause[f]]
  BY DEF Crash
<1>9. orphanCause' \in [Names -> SUBSET {"failed", "dropped", "crashed", "raced"}]
  BY <1>2, <1>8 DEF TypeOK
<1>10. crashes' \in 0 .. MaxCrashes
  BY <1>1, <1>2 DEF TypeOK
<1>11. TypeOK'
  BY <1>1, <1>2, <1>3, <1>4, <1>5, <1>7, <1>9, <1>10 DEF TypeOK, NoStatus, NoFile, AllWell
<1>12. Cur' = Cur /\ Cur \in Nat
  BY <1>1, <1>2, NameFacts DEF Cur
<1>13. Room'
  <2>1. Unnamed' = {}
    BY <1>3 DEF Unnamed
  <2>2. Cardinality(Unnamed') = 0
    BY <2>1, FS_EmptySet
  <2>3. QED
    BY <1>2, <1>12, <2>2, NameFacts DEF Room
<1>14. OneRun' /\ Joined'
  BY <1>1, <1>3, <1>4 DEF OneRun, Joined, Single, Before
<1>15. Local'
  BY <1>1, <1>3 DEF Local, Target, Verdict, SuccessIsValid, SignalTracksRuns, NoStatus, Before,
                    Accepted
<1>16. ASSUME ~SameSecond
       PROVE  Distinct' /\ NotSent' /\ UploadsGood' /\ RemoteValidated' /\ Explained'
  <2>1. Distinct /\ NotSent /\ UploadsGood /\ RemoteValidated /\ Explained
    BY <1>2, <1>16 DEF Bucket
  <2>2. \A g \in Names : remote'[g] = remote[g] \/ (up[g].at = "send" /\ remote'[g] = "valid")
    BY <1>2, <1>6, <2>1 DEF Distinct, TypeOK
  <2>3. Distinct' /\ UploadsGood' /\ RemoteValidated'
    BY <1>1, <1>4, <1>12, <2>1, <2>2 DEF Distinct, UploadsGood, RemoteValidated
  <2>4. NotSent'
    BY <1>3, <1>4, <1>12, <2>1, <2>2 DEF NotSent, Before
  <2>5. \A g \in Names : up[g].at = "send" => Uploading(g)
    BY <1>16, OwnFile DEF Uploading
  <2>6. \A g \in Names : (g \in del \/ orphanCause[g] # {} \/ up[g].at = "send")
                            => orphanCause'[g] # {}
    BY <1>8, <2>5
  <2>7. Explained'
    BY <1>4, <1>5, <2>1, <2>2, <2>6 DEF Explained
  <2>8. QED
    BY <2>3, <2>4, <2>7
<1>17. QED
  BY <1>11, <1>13, <1>14, <1>15, <1>16 DEF Inv, Gated, Bucket

LEMMA InvStep == Inv /\ [Next]_vars => Inv'
<1> SUFFICES ASSUME Inv, [Next]_vars PROVE Inv'
    OBVIOUS
<1>1. ASSUME NEW c \in Callers, TryStart(c) \/ RunStep(c) PROVE Inv'
  BY <1>1, TryStartStep, EnterStep, ConflictStep, SetStatusStartedStep, CreateFileStep,
     DumpStep, ValidateStep, SetS3PendingStep, SetStatusDoneStep, NotifyBackupStep,
     SpawnUploadStep, ListingStep, CleanupDeleteStep, FinishStep, LeaveStep DEF RunStep
<1>2. ASSUME NEW n \in Names, UploadStep(n) PROVE Inv'
  BY <1>2, UploadOpenStep, UploadSendStep, UploadReportStep, UploadNotifyStep DEF UploadStep
<1>3. ASSUME NEW f \in Names, DeleteRemote(f) \/ UserDelete(f) \/ Expire(f) PROVE Inv'
  BY <1>3, DeleteRemoteStep, UserDeleteStep, NobodyMoves
<1>4. QED
  BY <1>1, <1>2, <1>3, CrashStep, NobodyMoves DEF Next

LEMMA Invariance == Spec => []Inv
  BY InitInv, InvStep, PTL DEF Spec

-----------------------------------------------------------------------------
(* Types are correct in every reachable state. *)
THEOREM TypeCorrect == Spec => []TypeOK
<1>1. Inv => TypeOK
  BY DEF Inv, Gated
<1>2. QED
  BY <1>1, Invariance, PTL

(* When Close() has returned, no caller, upload or remote delete is left to *)
(* touch the files, the status or the bucket.                               *)
THEOREM ShutdownJoins == Spec => []JoinedAtClose
<1>1. Inv => JoinedAtClose
  BY DEF Inv, Gated, TypeOK, Joined, JoinedAtClose
<1>2. QED
  BY <1>1, Invariance, PTL

(* A status that reports success names a file that passed validation, or    *)
(* one that has been deleted since, whoever deletes and collides.           *)
THEOREM StatusTruthful == Spec => []SuccessIsValid
<1>1. Inv => SuccessIsValid
  BY DEF Inv, Local
<1>2. QED
  BY <1>1, Invariance, PTL

(* The notifier's backup flag is the verdict of the last finished run.      *)
THEOREM SignalTruthful == Spec => []SignalTracksRuns
<1>1. Inv => SignalTracksRuns
  BY DEF Inv, Local
<1>2. QED
  BY <1>1, Invariance, PTL

(* A validated backup is lost only to a delete that a user or retention     *)
(* asked for: no run truncates, overwrites or removes another run's file,   *)
(* not even one that has its name, and no crash does.                       *)
LEMMA ValidStays ==
  ASSUME Inv, [Next]_vars, NEW f \in Names, files[f] = "valid", files'[f] # "valid"
  PROVE  UserDelete(f) \/ \E c \in Callers : CleanupDelete(c, f)
<1>1. TypeOK /\ Target
  BY DEF Inv, Gated, Local
<1>2. ASSUME NEW c \in Callers, CreateFile(c) PROVE FALSE
  <2>1. PICK g : files' = files \/ (files[g] = "none" /\ files' = [files EXCEPT ![g] = "partial"])
    BY <1>2 DEF CreateFile
  <2>2. QED
    BY <1>1, <2>1 DEF TypeOK
<1>3. ASSUME NEW c \in Callers, DumpOk(c) \/ DumpFail(c) PROVE FALSE
  <2>1. pc[c] = "dumping"
    BY <1>3 DEF DumpOk, DumpFail
  <2>2. files[CurFile] \in {"none", "partial"}
    BY <1>1, <2>1 DEF Target
  <2>3. PICK d : files' = files \/ files' = [files EXCEPT ![CurFile] = d]
    BY <1>3 DEF DumpOk, DumpFail
  <2>4. QED
    BY <1>1, <2>2, <2>3 DEF TypeOK
<1>4. CASE Crash
  <2>1. \/ files' = files
        \/ files' = [files EXCEPT ![CurFile] = IF @ = "partial" THEN "valid" ELSE @]
    BY <1>4 DEF Crash
  <2>2. QED
    BY <1>1, <2>1 DEF TypeOK
<1>5. ASSUME NEW g \in Names, RemoveLocal(g) PROVE g = f
  BY <1>1, <1>5 DEF TypeOK, RemoveLocal
<1>6. ASSUME NEW c \in Callers, NEW g \in Names, CleanupDelete(c, g) PROVE g = f
  BY <1>5, <1>6 DEF CleanupDelete, disk
<1>7. ASSUME NEW g \in Names, UserDelete(g) PROVE g = f
  BY <1>5, <1>7 DEF UserDelete
<1>8. ASSUME NEW c \in Callers,
             TryStart(c) \/ Enter(c) \/ Conflict(c) \/ SetStatusStarted(c) \/ Validate(c)
             \/ SetS3Pending(c) \/ SetStatusDone(c) \/ NotifyBackup(c) \/ SpawnUpload(c)
             \/ ListAged(c) \/ ListSurplus(c) \/ CleanupDone(c) \/ Finish(c) \/ Leave(c)
      PROVE  FALSE
  BY <1>8 DEF TryStart, Enter, Conflict, SetStatusStarted, Validate, SetS3Pending,
              SetStatusDone, NotifyBackup, SpawnUpload, ListAged, ListSurplus, CleanupDone,
              Finish, Leave, disk
<1>9. ASSUME NEW n \in Names, UploadStep(n) \/ DeleteRemote(n) \/ Expire(n) PROVE FALSE
  BY <1>9 DEF UploadStep, UploadOpen, UploadSend, UploadReport, UploadNotify, DeleteRemote,
              Expire, disk
<1>10. CASE BeginClose \/ Drained \/ CloseRoot \/ UNCHANGED vars
  BY <1>10 DEF BeginClose, Drained, CloseRoot, vars, disk
<1>11. QED
  BY <1>2, <1>3, <1>4, <1>6, <1>7, <1>8, <1>9, <1>10 DEF Next, RunStep

THEOREM LostOnlyByDelete == Spec => ValidLostOnlyByDelete
<1>1. Inv /\ [Next]_vars =>
        [\A f \in Names : files[f] = "valid" /\ files'[f] # "valid" =>
            UserDelete(f) \/ \E c \in Callers : CleanupDelete(c, f)]_vars
  BY ValidStays
<1>2. QED
  BY <1>1, Invariance, PTL DEF Spec, ValidLostOnlyByDelete

-----------------------------------------------------------------------------
(* Retention.  What a run produces and keeps, from its file to the end of   *)
(* its cleanup.                                                             *)
Cleaning == {"deleteAged", "deleteSurplus"}
Keeping == {"listAge"} \cup Accepted \cup Cleaning
Producing == {"dumping", "dumped"} \cup Keeping

(* No file is newer than the current run's, and only files age.             *)
Newest == /\ Cur = 0 => Managed = {}
          /\ Cur > 0 => CurFile <= Cur /\ \A f \in Managed : f <= CurFile
          /\ expired \subseteq Managed

(* The file of a run does not age, is the validated one if no user deletes, *)
(* and is not chosen by its own cleanup.                                    *)
Fresh == \A c \in Callers : pc[c] \in Producing => CurFile \notin expired
Spared == \A c \in Callers : /\ pc[c] \in Keeping => files[CurFile] = "valid"
                             /\ pc[c] \in Cleaning => CurFile \notin victims

(* What the second pass does not mean to delete is within the limit.        *)
Quota == \A c \in Callers :
           pc[c] = "deleteSurplus" => Cardinality(Managed \ victims) <= MaxBackups

Retained == /\ Newest /\ Fresh
            /\ ~UserDeletes => Spared
            /\ ~DiskFaults => Quota

(* The bucket, where names may collide but no user deletes.  What has been  *)
(* or is being sent under a name comes from a run that succeeded, so no     *)
(* later run can have that name: its file is there until the next cleanup.  *)
Sent(f) == remote[f] # "none" \/ \E n \in 1 .. Cur : name[n] = f /\ up[n].at # "none"
Sending(f) == \E n \in 1 .. Cur : name[n] = f /\ up[n].at = "send"

Covered == /\ \A n \in Names : up[n].at # "none" => n <= Cur
           /\ \A f \in Names : Sent(f) => Cur > 0 /\ f <= CurFile
           /\ Cur > 0 /\ Sent(CurFile) => files[CurFile] = "valid"
SentGood == \A n \in 1 .. Cur : /\ up[n].at = "open" => files[name[n]] \in {"none", "valid"}
                                /\ up[n].at = "send" => up[n].good
Accounted == \A f \in Names : files[f] = "none" /\ (remote[f] # "none" \/ Sending(f))
                               => f \in del \/ orphanCause[f] # {}
Shared == Covered /\ SentGood /\ RemoteValidated /\ Accounted

(* A directory is finite, and so is every part of it.                       *)
LEMMA FilesFinite ==
  ASSUME NEW S, S \subseteq Names
  PROVE  IsFiniteSet(S) /\ Cardinality(S) \in Nat
<1>1. IsFiniteSet(Names)
  BY FS_Interval DEF Names
<1>2. QED
  BY <1>1, FS_Subset, FS_CardinalityType

LEMMA Oldest ==
  ASSUME NEW K, K \subseteq Names, K # {}
  PROVE  \E m \in K : \A k \in K : m <= k
<1>1. K \subseteq Nat
  BY DEF Names
<1>2. PICK m \in K : \A k \in K : <<k, m>> \notin OpToRel(<, Nat)
  BY <1>1, NatLessThanWellFounded, WFMin
<1>3. ASSUME NEW k \in K, k < m PROVE FALSE
  <2>1. <<k, m>> \in Nat \X Nat /\ <<k, m>>[1] < <<k, m>>[2]
    BY <1>1, <1>3
  <2>2. <<k, m>> \in OpToRel(<, Nat)
    BY <2>1, Zenon DEF OpToRel
  <2>3. QED
    BY <1>2, <2>2
<1>4. \A k \in K : m <= k
  BY <1>1, <1>3
<1>5. QED
  BY <1>4

(* What is left of a directory without its surplus is within the limit: the *)
(* oldest file that is kept has fewer newer ones than the limit allows.     *)
LEMMA SurplusLeaves == Cardinality(Managed \ Surplus) <= MaxBackups
<1> DEFINE K == Managed \ Surplus
<1>1. Managed \subseteq Names /\ K \subseteq Names
  BY DEF Managed
<1>2. CASE K = {}
  BY <1>2, FS_EmptySet
<1>3. CASE K # {}
  <2>1. PICK m \in K : \A k \in K : m <= k
    BY <1>1, <1>3, Oldest
  <2> DEFINE N == {g \in Managed : g > m}
  <2>2. N \subseteq Names /\ m \notin N
    <3>1. m \in Names /\ N \subseteq Managed
      BY <1>1, <2>1
    <3>2. ~(m > m)
      BY <3>1 DEF Names
    <3>3. QED
      BY <1>1, <3>1, <3>2
  <2>3. Cardinality(N) < MaxBackups
    <3>1. ~(Cardinality(N) >= MaxBackups)
      BY <2>1 DEF Surplus
    <3>2. QED
      BY <2>2, <3>1, FilesFinite
  <2>4. K \subseteq N \cup {m}
    BY <1>1, <2>1 DEF Names
  <2>5. IsFiniteSet(N \cup {m}) /\ Cardinality(N \cup {m}) = Cardinality(N) + 1
    BY <2>2, FilesFinite, FS_AddElement
  <2>6. Cardinality(K) <= Cardinality(N \cup {m})
    BY <2>4, <2>5, FS_Subset
  <2>7. QED
    BY <1>1, <2>2, <2>3, <2>5, <2>6, FilesFinite
<1>4. QED
  BY <1>2, <1>3

LEMMA InitRetained == Init => Retained
  BY DEF Init, Retained, Newest, Fresh, Spared, Quota, Cur, Managed, Idle, Producing, Keeping,
         Accepted, Cleaning

(* Where the directory rests and nobody begins to produce or to clean,      *)
(* retention is as it was.                                                  *)
LEMMA DirectoryRests ==
  ASSUME Retained, UNCHANGED <<name, files, expired, victims>>,
         \A c \in Callers : \/ pc'[c] = pc[c]
                            \/ pc'[c] \notin Producing
                            \/ pc'[c] \in Keeping \ Cleaning /\ pc[c] \in Keeping
  PROVE  Retained'
<1>1. Cur' = Cur /\ CurFile' = CurFile /\ Managed' = Managed
  BY DEF Cur, CurFile, Managed
<1>2. Newest'
  BY <1>1 DEF Retained, Newest
<1>3. Keeping \subseteq Producing /\ Cleaning \subseteq Keeping
      /\ "deleteSurplus" \in Cleaning
  BY DEF Producing, Keeping, Cleaning
<1>4. Fresh'
  BY <1>1, <1>3 DEF Retained, Fresh
<1>5. ~UserDeletes => Spared'
  BY <1>1, <1>3 DEF Retained, Spared
<1>6. ~DiskFaults => Quota'
  BY <1>1, <1>3 DEF Retained, Quota
<1>7. QED
  BY <1>2, <1>4, <1>5, <1>6 DEF Retained

LEMMA CallerGoesOn ==
  ASSUME Inv, Retained, NEW c \in Callers,
         TryStart(c) \/ Enter(c) \/ Conflict(c) \/ SetStatusStarted(c) \/ SetS3Pending(c)
         \/ SetStatusDone(c) \/ NotifyBackup(c) \/ SpawnUpload(c) \/ CleanupDone(c)
         \/ Finish(c) \/ Leave(c)
  PROVE  Retained'
<1>1. UNCHANGED <<name, files, expired, victims>>
  BY DEF TryStart, Enter, Conflict, SetStatusStarted, SetS3Pending, SetStatusDone,
         NotifyBackup, SpawnUpload, CleanupDone, Finish, Leave, disk
<1>2. PICK to \in PC : /\ Goto(c, to)
                       /\ \/ to \notin Producing
                          \/ to \in Keeping \ Cleaning /\ pc[c] \in Keeping
  BY DEF TryStart, Enter, Conflict, SetStatusStarted, SetS3Pending, SetStatusDone,
         NotifyBackup, SpawnUpload, CleanupDone, Finish, Leave, PC, Producing, Keeping,
         Accepted, Cleaning
<1>3. pc'[c] = to /\ \A d \in Callers \ {c} : pc'[d] = pc[d]
  BY <1>2, Moves DEF Inv, Gated
<1>4. QED
  BY <1>1, <1>2, <1>3, DirectoryRests

(* The bucket and the gate are none of the directory's business.            *)
LEMMA OthersGoOn ==
  ASSUME Retained, (\E n \in Names : UploadStep(n) \/ DeleteRemote(n)) \/ BeginClose
                   \/ Drained \/ CloseRoot \/ UNCHANGED vars
  PROVE  Retained'
<1>1. UNCHANGED <<pc, name, files, expired, victims>>
  BY DEF UploadStep, UploadOpen, UploadSend, UploadReport, UploadNotify, DeleteRemote,
         BeginClose, Drained, CloseRoot, vars, disk
<1>2. QED
  BY <1>1, DirectoryRests

(* Validation is where a file begins to be kept.                            *)
LEMMA ValidateKeeps ==
  ASSUME Inv, Retained, NEW c \in Callers, Validate(c) PROVE Retained'
<1>1. /\ pc[c] = "dumped" /\ UNCHANGED <<name, files, expired, victims>>
      /\ \/ files[CurFile] = "valid" /\ Goto(c, "validated")
         \/ Goto(c, "failed")
  BY DEF Validate, disk
<1>2. Cur' = Cur /\ CurFile' = CurFile /\ Managed' = Managed
  BY <1>1 DEF Cur, CurFile, Managed
<1>3. PICK to \in {"validated", "failed"} :
        Goto(c, to) /\ (to = "validated" => files[CurFile] = "valid")
  BY <1>1
<1>4. pc'[c] = to /\ \A d \in Callers \ {c} : pc'[d] = pc[d]
  BY <1>3, Moves DEF Inv, Gated, PC
<1>5. /\ "dumped" \in Producing /\ "failed" \notin Producing /\ "failed" \notin Keeping
      /\ to \notin Cleaning /\ to # "deleteSurplus"
  BY DEF Producing, Keeping, Accepted, Cleaning
<1>6. Newest' /\ Fresh'
  BY <1>1, <1>2, <1>4, <1>5 DEF Retained, Newest, Fresh
<1>7. ~UserDeletes => Spared'
  BY <1>1, <1>2, <1>3, <1>4, <1>5 DEF Retained, Spared
<1>8. ~DiskFaults => Quota'
  BY <1>1, <1>2, <1>4, <1>5 DEF Retained, Quota
<1>9. QED
  BY <1>6, <1>7, <1>8 DEF Retained

(* A run's file is the newest; a name that is taken ends the run.           *)
LEMMA CreateFileKeeps ==
  ASSUME Inv, Retained, NEW c \in Callers, CreateFile(c) PROVE Retained'
<1>1. PICK f \in {Cur + 1} \cup {name[n] : n \in IF SameSecond THEN {Cur} \ {0} ELSE {}},
           to \in {"dumping", "failed"} :
        /\ pc[c] = "started" /\ Goto(c, to) /\ name' = Append(name, f)
        /\ UNCHANGED <<expired, victims>>
        /\ \/ to = "dumping" /\ files[f] = "none" /\ files' = [files EXCEPT ![f] = "partial"]
           \/ to = "failed" /\ files' = files
  BY DEF CreateFile
<1>2. TypeOK /\ name \in Seq(Names) /\ Cur \in Nat /\ files \in [Names -> Content]
  BY NameFacts DEF Inv, Gated, TypeOK
<1>3. /\ pc'[c] = to /\ \A d \in Callers \ {c} : pc'[d] = pc[d]
      /\ \A d \in Callers \ {c} : pc[d] \notin Single
  <2>1. to \in PC /\ pc[c] \in Single
    BY <1>1 DEF PC, Single
  <2>2. QED
    BY <1>1, <1>2, <2>1, Moves, OnlyRun DEF Inv, Gated
<1>4. f = Cur + 1 \/ (Cur > 0 /\ f = CurFile)
  BY <1>1, <1>2 DEF CurFile
<1>5. f \in Nat /\ f <= Cur + 1 /\ \A g \in Managed : g <= f
  <2>1. CASE f = Cur + 1
    BY <1>2, <2>1, NameFacts DEF Retained, Newest, Managed, Names
  <2>2. CASE Cur > 0 /\ f = CurFile
    BY <1>2, <2>2, NameFacts DEF Retained, Newest, Names
  <2>3. QED
    BY <1>4, <2>1, <2>2
<1>6. Cur' = Cur + 1 /\ CurFile' = f
  BY <1>1, <1>2 DEF Cur, CurFile
<1>7. Managed \subseteq Managed' /\ Managed' \subseteq Managed \cup {f}
  BY <1>1, <1>2 DEF Managed
<1>8. Newest'
  BY <1>1, <1>2, <1>5, <1>6, <1>7 DEF Retained, Newest
<1>9. \A d \in Callers : pc'[d] \in Producing => d = c /\ to = "dumping"
  BY <1>1, <1>3 DEF Producing, Keeping, Accepted, Cleaning, Single, Before
<1>10. "dumping" \notin Keeping /\ "dumping" \notin Cleaning /\ Keeping \subseteq Producing
       /\ Cleaning \subseteq Producing /\ "deleteSurplus" \in Cleaning
  BY DEF Producing, Keeping, Accepted, Cleaning
<1>11. Fresh'
  <2>1. to = "dumping" => f \notin expired
    BY <1>1 DEF Retained, Newest, Managed
  <2>2. QED
    BY <1>1, <1>6, <1>9, <2>1 DEF Fresh
<1>12. Spared' /\ Quota'
  BY <1>3, <1>9, <1>10 DEF Spared, Quota
<1>13. QED
  BY <1>8, <1>11, <1>12 DEF Retained

LEMMA DumpKeeps ==
  ASSUME Inv, Retained, NEW c \in Callers, DumpOk(c) \/ DumpFail(c) PROVE Retained'
<1>1. PICK to \in {"dumped", "failed"} :
        /\ pc[c] = "dumping" /\ Goto(c, to) /\ UNCHANGED <<name, expired, victims>>
        /\ files' = files \/ \E d : files' = [files EXCEPT ![CurFile] = d]
  BY DEF DumpOk, DumpFail
<1>2. TypeOK /\ Cur > 0 /\ CurFile \in Names /\ files \in [Names -> Content]
  BY <1>1, NameFacts DEF Inv, Gated, Local, Target, Before, TypeOK
<1>3. /\ pc'[c] = to /\ \A d \in Callers \ {c} : pc'[d] = pc[d]
      /\ \A d \in Callers \ {c} : pc[d] \notin Single
  <2>1. to \in PC /\ pc[c] \in Single
    BY <1>1 DEF PC, Single, Before
  <2>2. QED
    BY <1>1, <1>2, <2>1, Moves, OnlyRun DEF Inv, Gated
<1>4. Cur' = Cur /\ CurFile' = CurFile
  BY <1>1 DEF Cur, CurFile
<1>5. /\ Managed' \subseteq Managed \cup {CurFile}
      /\ Managed \subseteq Managed' \cup {CurFile}
  BY <1>1, <1>2 DEF Managed
<1>6. CurFile \notin expired
  BY <1>1 DEF Retained, Fresh, Producing
<1>7. Newest'
  <2>1. CurFile <= Cur /\ \A f \in Managed' : f <= CurFile
    BY <1>2, <1>5 DEF Retained, Newest, Names
  <2>2. expired \subseteq Managed'
    BY <1>5, <1>6 DEF Retained, Newest
  <2>3. QED
    BY <1>1, <1>2, <1>4, <2>1, <2>2 DEF Newest
<1>8. Fresh'
  BY <1>1, <1>3, <1>4, <1>6 DEF Fresh, Producing, Keeping, Accepted, Cleaning, Single, Before
<1>9. \A d \in Callers : pc'[d] \notin Keeping /\ pc'[d] \notin Cleaning
                         /\ pc'[d] # "deleteSurplus"
  BY <1>1, <1>3 DEF Keeping, Accepted, Cleaning, Single, Before
<1>10. Spared' /\ Quota'
  BY <1>9 DEF Spared, Quota
<1>11. QED
  BY <1>7, <1>8, <1>10 DEF Retained

(* A listing spares the file of its own run: that is not old, and nothing   *)
(* is newer.                                                                *)
LEMMA ListingKeeps ==
  ASSUME Inv, Retained, NEW c \in Callers, ListAged(c) \/ ListSurplus(c)
  PROVE  Retained'
<1>1. /\ UNCHANGED <<name, files, expired>>
      /\ pc[c] \in Keeping
      /\ \/ Goto(c, "deleteAged") /\ victims' = expired \cap Managed
         \/ Goto(c, "deleteSurplus") /\ victims' = Surplus
         \/ Goto(c, "finishing")
  BY DEF ListAged, ListSurplus, disk, Keeping, Cleaning
<1>2. PICK to \in {"deleteAged", "deleteSurplus", "finishing"} :
        /\ Goto(c, to)
        /\ to = "deleteAged" => victims' = expired \cap Managed
        /\ to = "deleteSurplus" => victims' = Surplus
  BY <1>1
<1>3. /\ pc'[c] = to /\ \A d \in Callers \ {c} : pc'[d] = pc[d]
      /\ \A d \in Callers \ {c} : pc[d] \notin Single
  <2>1. to \in PC /\ pc[c] \in Single
    BY <1>1 DEF PC, Single, Keeping, Cleaning, Accepted, Before
  <2>2. QED
    BY <1>2, <2>1, Moves, OnlyRun DEF Inv, Gated
<1>4. Cur' = Cur /\ CurFile' = CurFile /\ Managed' = Managed
  BY <1>1 DEF Cur, CurFile, Managed
<1>5. \A d \in Callers : /\ pc'[d] \in Producing => d = c
                         /\ pc'[d] \in Keeping => d = c /\ to \in Cleaning
                         /\ pc'[d] \in Cleaning => d = c
                         /\ pc'[d] = "deleteSurplus" => d = c
  BY <1>3 DEF Producing, Keeping, Accepted, Cleaning, Single, Before
<1>6. Newest' /\ Fresh'
  <2>1. CurFile \notin expired
    BY <1>1 DEF Retained, Fresh, Producing
  <2>2. QED
    BY <1>1, <1>4, <1>5, <2>1 DEF Retained, Newest, Fresh
<1>7. ASSUME ~UserDeletes PROVE Spared'
  <2>1. files[CurFile] = "valid" /\ CurFile \notin expired
    BY <1>1, <1>7 DEF Retained, Spared, Fresh, Producing
  <2>2. CurFile \notin Surplus
    <3>1. Cur = 0 => Managed = {}
      BY DEF Retained, Newest
    <3>2. ASSUME CurFile \in Managed PROVE {g \in Managed : g > CurFile} = {}
      <4>1. Cur > 0
        BY <3>1, <3>2, NameFacts DEF Inv, Gated
      <4>2. \A g \in Managed : g <= CurFile
        BY <4>1 DEF Retained, Newest
      <4>3. QED
        BY <3>2, <4>2 DEF Managed, Names
    <3>3. QED
      BY <3>2, FS_EmptySet DEF Surplus
  <2>3. to \in Cleaning => CurFile \notin victims'
    BY <1>2, <2>1, <2>2 DEF Cleaning
  <2>4. QED
    BY <1>1, <1>3, <1>4, <1>5, <2>1, <2>3 DEF Spared
<1>8. ASSUME ~DiskFaults PROVE Quota'
  BY <1>2, <1>3, <1>4, <1>5, SurplusLeaves DEF Quota
<1>9. QED
  BY <1>6, <1>7, <1>8 DEF Retained

(* A removed file only makes room.                                          *)
LEMMA RemovalKeeps ==
  ASSUME TypeOK, Retained, NEW f \in Names, RemoveLocal(f), UNCHANGED <<pc, name>>,
         victims' = victims \/ victims' = victims \ {f},
         UserDeletes \/ f # CurFile
  PROVE  Retained'
<1>1. /\ files \in [Names -> Content] /\ files' = [files EXCEPT ![f] = "none"]
      /\ expired' = expired \ {f}
  BY DEF TypeOK, RemoveLocal
<1>2. Cur' = Cur /\ CurFile' = CurFile
  BY DEF Cur, CurFile
<1>3. Managed' = Managed \ {f}
  BY <1>1 DEF Managed
<1>4. Newest' /\ Fresh'
  BY <1>1, <1>2, <1>3 DEF Retained, Newest, Fresh
<1>5. ASSUME ~UserDeletes PROVE Spared'
  <2>1. files'[CurFile] = files[CurFile]
    BY <1>1, <1>5
  <2>2. QED
    BY <1>2, <1>5, <2>1 DEF Retained, Spared
<1>6. ASSUME ~DiskFaults PROVE Quota'
  <2>1. Managed' \ victims' \subseteq Managed \ victims
    BY <1>3
  <2>2. Managed \ victims \subseteq Names /\ Managed' \ victims' \subseteq Names
    BY <2>1 DEF Managed
  <2>3. /\ Cardinality(Managed' \ victims') <= Cardinality(Managed \ victims)
        /\ Cardinality(Managed' \ victims') \in Nat /\ Cardinality(Managed \ victims) \in Nat
    BY <2>1, <2>2, FilesFinite, FS_Subset
  <2>4. QED
    BY <1>6, <2>3 DEF Retained, Quota
<1>7. QED
  BY <1>4, <1>5, <1>6 DEF Retained

LEMMA DeletesKeep ==
  ASSUME Inv, Retained, NEW f \in Names,
         UserDelete(f) \/ \E c \in Callers : CleanupDelete(c, f)
  PROVE  Retained'
<1>1. TypeOK
  BY DEF Inv, Gated
<1>2. CASE UserDelete(f)
  BY <1>1, <1>2, RemovalKeeps DEF UserDelete
<1>3. ASSUME NEW c \in Callers, CleanupDelete(c, f) PROVE Retained'
  <2>1. /\ pc[c] \in Cleaning /\ f \in victims /\ victims' = victims \ {f}
        /\ UNCHANGED <<pc, name>>
    BY <1>3 DEF CleanupDelete, Cleaning
  <2>2. CASE RemoveLocal(f)
    <3>1. ~UserDeletes => f # CurFile
      BY <2>1 DEF Retained, Spared
    <3>2. QED
      BY <1>1, <2>1, <2>2, <3>1, RemovalKeeps
  <2>3. CASE UNCHANGED disk /\ (files[f] = "none" \/ DiskFaults)
    <3>1. UNCHANGED <<files, expired>>
      BY <2>3 DEF disk
    <3>2. Cur' = Cur /\ CurFile' = CurFile /\ Managed' = Managed
      BY <2>1, <3>1 DEF Cur, CurFile, Managed
    <3>3. Newest' /\ Fresh'
      BY <2>1, <3>1, <3>2 DEF Retained, Newest, Fresh
    <3>4. ~UserDeletes => Spared'
      BY <2>1, <3>1, <3>2 DEF Retained, Spared
    <3>5. ASSUME ~DiskFaults PROVE Quota'
      <4>1. Managed \ victims' = Managed \ victims
        BY <2>1, <2>3, <3>5 DEF Managed
      <4>2. QED
        BY <2>1, <3>2, <3>5, <4>1 DEF Retained, Quota
    <3>6. QED
      BY <3>3, <3>4, <3>5 DEF Retained
  <2>4. QED
    BY <1>3, <2>2, <2>3 DEF CleanupDelete
<1>4. QED
  BY <1>2, <1>3

LEMMA ExpireKeeps ==
  ASSUME Inv, Retained, NEW f \in Names, Expire(f) PROVE Retained'
<1>1. /\ f \in Managed /\ ~(InRun /\ f = CurFile) /\ expired' = expired \cup {f}
      /\ UNCHANGED <<pc, name, files, victims>>
  BY DEF Expire
<1>2. Cur' = Cur /\ CurFile' = CurFile /\ Managed' = Managed
  BY <1>1 DEF Cur, CurFile, Managed
<1>3. Newest' /\ (~UserDeletes => Spared') /\ (~DiskFaults => Quota')
  BY <1>1, <1>2 DEF Retained, Newest, Spared, Quota
<1>4. Fresh'
  <2> SUFFICES ASSUME NEW c \in Callers, pc[c] \in Producing PROVE CurFile \notin expired'
    BY <1>1, <1>2 DEF Fresh
  <2>1. pc[c] \in Single /\ pc[c] \notin {"entered", "started"}
    BY DEF Producing, Keeping, Accepted, Cleaning, Single, Before
  <2>2. InRun
    BY <2>1, OnlyRun DEF InRun, Inv, Gated
  <2>3. QED
    BY <1>1, <2>2 DEF Retained, Fresh
<1>5. QED
  BY <1>3, <1>4 DEF Retained

LEMMA CrashKeeps == ASSUME Inv, Retained, Crash PROVE Retained'
<1>1. pc' = Idle /\ UNCHANGED <<name, expired>>
  BY DEF Crash
<1>2. Managed' = Managed
  <2>1. files \in [Names -> Content]
    BY DEF Inv, Gated, TypeOK
  <2>2. \/ files' = files
        \/ files' = [files EXCEPT ![CurFile] = IF @ = "partial" THEN "valid" ELSE @]
    BY DEF Crash
  <2>3. QED
    BY <2>1, <2>2 DEF Managed
<1>3. Newest'
  BY <1>1, <1>2 DEF Retained, Newest, Cur, CurFile
<1>4. Fresh' /\ Spared' /\ Quota'
  BY <1>1 DEF Fresh, Spared, Quota, Idle, Producing, Keeping, Accepted, Cleaning
<1>5. QED
  BY <1>3, <1>4 DEF Retained

LEMMA RetainedStep == Inv /\ Retained /\ [Next]_vars => Retained'
<1> SUFFICES ASSUME Inv, Retained, [Next]_vars PROVE Retained'
    OBVIOUS
<1>1. ASSUME NEW c \in Callers, TryStart(c) \/ RunStep(c) PROVE Retained'
  BY <1>1, CallerGoesOn, ValidateKeeps, CreateFileKeeps, DumpKeeps, ListingKeeps, DeletesKeep
     DEF RunStep
<1>2. QED
  BY <1>1, OthersGoOn, DeletesKeep, ExpireKeeps, CrashKeeps DEF Next

LEMMA Retention == Spec => [](Inv /\ Retained)
<1>1. Init => Inv /\ Retained
  BY InitInv, InitRetained
<1>2. Inv /\ Retained /\ [Next]_vars => (Inv /\ Retained)'
  BY InvStep, RetainedStep
<1>3. QED
  BY <1>1, <1>2, PTL DEF Spec

(* A cleanup that ends leaves no more files than max_backups, whatever      *)
(* older runs, crashes and users left or took: no removal fails.            *)
THEOREM RetentionHolds == ASSUME ~DiskFaults PROVE Spec => RetentionBound
<1>1. Inv /\ Retained /\ [Next]_vars =>
        [\A c \in Callers : CleanupDone(c) => Cardinality(Managed) <= MaxBackups]_vars
  <2> SUFFICES ASSUME Retained, NEW c \in Callers, CleanupDone(c)
               PROVE  Cardinality(Managed) <= MaxBackups
    OBVIOUS
  <2>1. pc[c] = "deleteSurplus" /\ victims = {}
    BY DEF CleanupDone
  <2>2. Managed \ victims = Managed
    BY <2>1
  <2>3. QED
    BY <2>1, <2>2 DEF Retained, Quota
<1>2. QED
  BY <1>1, Retention, PTL DEF Spec, RetentionBound

(* While no user deletes, the directory never loses its last restorable     *)
(* backup, not even when removals fail and names collide: what a cleanup    *)
(* removes is never the file whose validation it followed.                  *)
THEOREM LastBackupKept == ASSUME ~UserDeletes PROVE Spec => NeverLosesLastBackup
<1>1. Inv /\ Retained /\ [Next]_vars =>
        [(\E f \in Names : files[f] = "valid") => (\E f \in Names : files'[f] = "valid")]_vars
  <2> SUFFICES ASSUME Inv, Retained, [Next]_vars, NEW f \in Names, files[f] = "valid",
                      files'[f] # "valid"
               PROVE  \E g \in Names : files'[g] = "valid"
    OBVIOUS
  <2>1. ~UserDelete(f)
    BY DEF UserDelete
  <2>2. PICK c \in Callers : CleanupDelete(c, f)
    BY <2>1, ValidStays
  <2>3. /\ pc[c] \in {"deleteAged", "deleteSurplus"} /\ f \in victims
        /\ files' = files \/ files' = [files EXCEPT ![f] = "none"]
    BY <2>2 DEF CleanupDelete, RemoveLocal, disk
  <2>4. files[CurFile] = "valid" /\ CurFile # f
    BY <2>3 DEF Retained, Spared, Keeping, Cleaning
  <2>5. files \in [Names -> Content] /\ CurFile \in Names
    <3>1. TypeOK /\ files \in [Names -> Content]
      BY DEF Inv, Gated, TypeOK
    <3>2. f \in Managed
      BY DEF Managed
    <3>3. Cur > 0
      BY <3>1, <3>2, NameFacts DEF Retained, Newest
    <3>4. QED
      BY <3>1, <3>3, NameFacts
  <2>6. QED
    BY <2>3, <2>4, <2>5
<1>2. QED
  BY <1>1, Retention, PTL DEF Spec, NeverLosesLastBackup

-----------------------------------------------------------------------------
LEMMA InitShared == Init => Shared
<1> SUFFICES ASSUME Init PROVE Shared
    OBVIOUS
<1>1. /\ Cur = 0
      /\ \A n \in Names : remote[n] = "none" /\ up[n].at = "none"
  BY DEF Init, Cur, NoUploads, NoUpload
<1>2. \A f \in Names : ~Sent(f) /\ ~Sending(f)
  BY <1>1 DEF Sent, Sending
<1>3. QED
  BY <1>1, <1>2 DEF Shared, Covered, SentGood, RemoteValidated, Accounted

(* While the bucket, its goroutines and the directory rest, all this stays. *)
LEMMA BucketAlone ==
  ASSUME Shared, UNCHANGED <<name, files, up, del, remote, orphanCause>>
  PROVE  Shared'
<1>1. Cur' = Cur /\ CurFile' = CurFile
  BY DEF Cur, CurFile
<1>2. \A f \in Names \cup {CurFile} : (Sent(f)' <=> Sent(f)) /\ (Sending(f)' <=> Sending(f))
  BY <1>1 DEF Sent, Sending
<1>3. QED
  BY <1>1, <1>2 DEF Shared, Covered, SentGood, RemoteValidated, Accounted

LEMMA BucketAloneSteps ==
  ASSUME Shared,
         \/ \E c \in Callers :
              \/ TryStart(c) \/ Enter(c) \/ Conflict(c) \/ SetStatusStarted(c) \/ Validate(c)
              \/ SetS3Pending(c) \/ SetStatusDone(c) \/ NotifyBackup(c) \/ ListAged(c)
              \/ ListSurplus(c) \/ CleanupDone(c) \/ Finish(c) \/ Leave(c)
         \/ \E f \in Names : Expire(f)
         \/ BeginClose \/ Drained \/ CloseRoot \/ UNCHANGED vars
  PROVE  Shared'
<1>1. UNCHANGED <<name, files, up, del, remote, orphanCause>>
  BY DEF TryStart, Enter, Conflict, SetStatusStarted, Validate, SetS3Pending, SetStatusDone,
         NotifyBackup, ListAged, ListSurplus, CleanupDone, Finish, Leave, Expire, BeginClose,
         Drained, CloseRoot, vars, disk
<1>2. QED
  BY <1>1, BucketAlone

(* The file of a new run was never sent: what was sent under the name of    *)
(* the run before is still there, and O_EXCL refuses it.                    *)
LEMMA CreateFileShared ==
  ASSUME Inv, Retained, Shared, NEW c \in Callers, CreateFile(c) PROVE Shared'
<1>1. PICK f \in {Cur + 1} \cup {name[n] : n \in IF SameSecond THEN {Cur} \ {0} ELSE {}} :
        /\ name' = Append(name, f) /\ UNCHANGED <<up, del, remote, orphanCause>>
        /\ \/ files[f] = "none" /\ files' = [files EXCEPT ![f] = "partial"]
           \/ files' = files
  BY DEF CreateFile
<1>2. TypeOK /\ name \in Seq(Names) /\ Cur \in Nat /\ files \in [Names -> Content]
  BY NameFacts DEF Inv, Gated, TypeOK
<1>3. f = Cur + 1 \/ (Cur > 0 /\ f = CurFile)
  BY <1>1, <1>2 DEF CurFile
<1>4. /\ Cur' = Cur + 1 /\ CurFile' = f /\ name'[Cur + 1] = f
      /\ \A n \in 1 .. Cur : name'[n] = name[n]
  BY <1>1, <1>2 DEF Cur, CurFile
<1>5. f \in Names /\ Cur + 1 \in Names
  <2>1. TypeOK'
    BY CreateFileStep DEF Inv, Gated
  <2>2. Cur' <= MaxRuns /\ CurFile' \in Names
    <3>1. name' \in Seq(Names) /\ Len(name') <= MaxRuns
      BY <2>1 DEF TypeOK
    <3>2. QED
      BY <1>2, <1>4, <3>1 DEF Cur, CurFile
  <2>3. QED
    BY <1>2, <1>4, <2>2 DEF Names
<1>6. up[Cur + 1].at = "none"
  BY <1>2, <1>5 DEF Shared, Covered
<1>7. \A g \in Names : (Sent(g)' <=> Sent(g)) /\ (Sending(g)' <=> Sending(g))
  <2>1. \A n : n \in 1 .. Cur + 1 <=> n \in 1 .. Cur \/ n = Cur + 1
    BY <1>2
  <2>2. QED
    BY <1>1, <1>4, <1>6, <2>1 DEF Sent, Sending
<1>8. Sent(f) => files[f] = "valid"
  <2>1. CASE f = Cur + 1
    BY <1>2, <1>5, <2>1, NameFacts DEF Shared, Covered, Retained, Newest, Names
  <2>2. CASE Cur > 0 /\ f = CurFile
    BY <2>2 DEF Shared, Covered
  <2>3. QED
    BY <1>3, <2>1, <2>2
<1>9. /\ Sent(f) => files' = files
      /\ \A g \in Names : files'[g] # files[g] => g = f /\ files[g] = "none"
      /\ \A g \in Names : files'[g] = "none" => files[g] = "none"
  BY <1>1, <1>2, <1>8
<1>10. Covered'
  <2>1. \A n \in Names : up'[n].at # "none" => n <= Cur'
    BY <1>1, <1>2, <1>4 DEF Shared, Covered, Names
  <2>2. ASSUME NEW g \in Names, Sent(g)' PROVE g <= CurFile'
    <3>1. Cur > 0 /\ g <= CurFile
      BY <1>7, <2>2 DEF Shared, Covered
    <3>2. CurFile \in Names /\ CurFile <= f
      BY <1>2, <1>3, <3>1, NameFacts DEF Retained, Newest, Names
    <3>3. QED
      BY <1>4, <1>5, <3>1, <3>2 DEF Names
  <2>3. Sent(CurFile') => files'[CurFile'] = "valid"
    BY <1>4, <1>8, <1>9
  <2>4. QED
    BY <1>2, <1>4, <1>5, <1>7, <2>1, <2>2, <2>3 DEF Covered
<1>11. SentGood'
  <2>1. ASSUME NEW n \in 1 .. Cur, up[n].at = "open" PROVE files'[name[n]] = files[name[n]]
    <3>1. n \in Names /\ name[n] \in Names /\ Sent(name[n])
      BY <1>2, <2>1, NameFacts DEF Sent
    <3>2. QED
      BY <1>9, <3>1
  <2>2. \A n \in 1 .. Cur' : n \in 1 .. Cur \/ n = Cur + 1
    BY <1>2, <1>4
  <2>3. ASSUME NEW n \in 1 .. Cur'
        PROVE  /\ up'[n].at = "open" => files'[name'[n]] \in {"none", "valid"}
               /\ up'[n].at = "send" => up'[n].good
    <3>1. CASE n = Cur + 1
      BY <1>1, <1>6, <3>1
    <3>2. CASE n \in 1 .. Cur
      <4>1. up' = up /\ name'[n] = name[n]
        BY <1>1, <1>4, <3>2
      <4>2. up[n].at = "send" => up[n].good
        BY <3>2, Zenon DEF Shared, SentGood
      <4>3. up[n].at = "open" => files'[name[n]] \in {"none", "valid"}
        BY <2>1, <3>2, Zenon DEF Shared, SentGood
      <4>4. QED
        BY <4>1, <4>2, <4>3, Zenon
    <3>3. QED
      BY <2>2, <3>1, <3>2
  <2>4. QED
    BY <2>3 DEF SentGood
<1>12. RemoteValidated' /\ Accounted'
  BY <1>1, <1>7, <1>9 DEF Shared, RemoteValidated, Accounted
<1>13. QED
  BY <1>10, <1>11, <1>12 DEF Shared

(* What a dump writes was not sent yet.                                     *)
LEMMA DumpShared ==
  ASSUME Inv, Shared, NEW c \in Callers, DumpOk(c) \/ DumpFail(c) PROVE Shared'
<1>1. /\ pc[c] = "dumping" /\ UNCHANGED <<name, up, del, remote, orphanCause>>
      /\ files' = files \/ \E d : files' = [files EXCEPT ![CurFile] = d]
  BY DEF DumpOk, DumpFail
<1>2. /\ TypeOK /\ Cur > 0 /\ CurFile \in Names /\ files \in [Names -> Content]
      /\ files[CurFile] \in {"none", "partial"}
  BY <1>1, NameFacts DEF Inv, Gated, Local, Target, Before, TypeOK
<1>3. Cur' = Cur /\ CurFile' = CurFile
  BY <1>1 DEF Cur, CurFile
<1>4. \A g \in Names : (Sent(g)' <=> Sent(g)) /\ (Sending(g)' <=> Sending(g))
  BY <1>1, <1>3 DEF Sent, Sending
<1>5. ~Sent(CurFile)
  BY <1>2 DEF Shared, Covered
<1>6. \A g \in Names : Sent(g) => files'[g] = files[g]
  BY <1>1, <1>2, <1>5
<1>7. \A g \in Names : Sending(g) => Sent(g)
  BY DEF Sent, Sending
<1>8. Covered'
  BY <1>1, <1>2, <1>3, <1>4, <1>5 DEF Shared, Covered
<1>9. SentGood'
  <2>1. \A n \in 1 .. Cur : up[n].at = "open" => name[n] \in Names /\ Sent(name[n])
    BY <1>2, NameFacts DEF Sent
  <2>2. QED
    BY <1>1, <1>3, <1>6, <2>1 DEF Shared, SentGood
<1>10. Accounted'
  <2>1. \A g \in Names : remote[g] # "none" => Sent(g)
    BY DEF Sent
  <2>2. QED
    BY <1>1, <1>4, <1>6, <1>7, <2>1 DEF Shared, Accounted
<1>11. RemoteValidated'
  BY <1>1 DEF Shared, RemoteValidated
<1>12. QED
  BY <1>8, <1>9, <1>10, <1>11 DEF Shared

(* A run hands over a file that is there and was validated.                 *)
LEMMA SpawnUploadShared ==
  ASSUME ~UserDeletes, Inv, Retained, Shared, NEW c \in Callers, SpawnUpload(c) PROVE Shared'
<1>1. /\ pc[c] = "upload" /\ UNCHANGED <<name, files, del, remote, orphanCause>>
      /\ up' = [up EXCEPT ![Cur] = [at |-> "open", good |-> FALSE]]
  BY DEF SpawnUpload, disk
<1>2. /\ TypeOK /\ Cur > 0 /\ Cur \in Names /\ CurFile \in Names /\ Cur \in Nat
      /\ files[CurFile] = "valid"
  BY <1>1, NameFacts DEF Inv, Gated, Local, Target, Before, Retained, Spared, Keeping, Accepted
<1>3. Cur' = Cur /\ CurFile' = CurFile
  BY <1>1 DEF Cur, CurFile
<1>4. up'[Cur].at = "open" /\ \A n \in Names \ {Cur} : up'[n] = up[n]
  BY <1>1, <1>2 DEF TypeOK
<1>5. 1 .. Cur \subseteq Names
  BY <1>2 DEF Names
<1>6. \A g \in Names : /\ Sent(g)' => Sent(g) \/ g = CurFile
                       /\ Sending(g)' => Sending(g)
  BY <1>1, <1>3, <1>4, <1>5 DEF Sent, Sending, CurFile
<1>7. Covered'
  BY <1>1, <1>2, <1>3, <1>4, <1>6 DEF Shared, Covered, Names
<1>8. SentGood'
  BY <1>1, <1>2, <1>3, <1>4, <1>5 DEF Shared, SentGood, CurFile
<1>9. RemoteValidated' /\ Accounted'
  BY <1>1, <1>6 DEF Shared, RemoteValidated, Accounted
<1>10. QED
  BY <1>7, <1>8, <1>9 DEF Shared

(* A cleanup takes the file of an older run, and asks for the object too.   *)
LEMMA CleanupShared ==
  ASSUME ~UserDeletes, Inv, Retained, Shared, NEW c \in Callers, NEW f \in Names,
         CleanupDelete(c, f)
  PROVE  Shared'
<1>1. /\ pc[c] \in Cleaning /\ f \in victims
      /\ UNCHANGED <<name, up, remote, orphanCause>>
      /\ \/ files' = [files EXCEPT ![f] = "none"] /\ del' = del \cup {f}
         \/ files' = files /\ del' = del
  BY DEF CleanupDelete, Cleaning, RemoveLocal, disk
<1>2. TypeOK /\ files \in [Names -> Content]
  BY DEF Inv, Gated, TypeOK
<1>3. Cur' = Cur /\ CurFile' = CurFile /\ f # CurFile
  BY <1>1 DEF Cur, CurFile, Retained, Spared
<1>4. \A g \in Names : (Sent(g)' <=> Sent(g)) /\ (Sending(g)' <=> Sending(g))
  BY <1>1, <1>3 DEF Sent, Sending
<1>5. /\ files'[f] = files[f] \/ (files'[f] = "none" /\ f \in del')
      /\ \A g \in Names \ {f} : files'[g] = files[g]
      /\ del \subseteq del'
  <2>1. CASE files' = [files EXCEPT ![f] = "none"] /\ del' = del \cup {f}
    BY <1>2, <2>1
  <2>2. CASE files' = files /\ del' = del
    BY <2>2
  <2>3. QED
    BY <1>1, <2>1, <2>2
<1>6. Covered'
  BY <1>1, <1>2, <1>3, <1>4, <1>5, NameFacts DEF Shared, Covered
<1>7. SentGood'
  BY <1>1, <1>2, <1>3, <1>5, NameFacts DEF Shared, SentGood
<1>8. RemoteValidated' /\ Accounted'
  BY <1>1, <1>4, <1>5 DEF Shared, RemoteValidated, Accounted
<1>9. QED
  BY <1>6, <1>7, <1>8 DEF Shared

(* An upload opens what was handed over, and stores what it opened.         *)
LEMMA UploadShared ==
  ASSUME Inv, Shared, NEW n \in Names, UploadStep(n) PROVE Shared'
<1>1. TypeOK
  BY DEF Inv, Gated
<1>2. /\ UNCHANGED <<name, files, del, orphanCause>> /\ up[n].at # "none"
      /\ \A m \in Names \ {n} : up'[m] = up[m]
      /\ up'[n].at # "open"
      /\ up'[n].at = "send" => /\ up[n].at = "open" /\ files[name[n]] # "none"
                               /\ files[name[n]] = "valid" => up'[n].good
      /\ \/ remote' = remote
         \/ /\ up[n].at = "send"
            /\ \E v \in {"valid", "corrupt"} : /\ remote' = [remote EXCEPT ![name[n]] = v]
                                               /\ up[n].good => v = "valid"
  <2>1. CASE UploadOpen(n)
    BY <1>1, <2>1 DEF UploadOpen, TypeOK, disk
  <2>2. CASE UploadSend(n)
    <3>1. PICK ok \in BOOLEAN, stored \in BOOLEAN :
            /\ up[n].at = "send"
            /\ remote' = IF stored
                         THEN [remote EXCEPT ![name[n]] = IF up[n].good THEN "valid" ELSE "corrupt"]
                         ELSE remote
            /\ up' = [up EXCEPT ![n] = [at |-> "report", good |-> ok]]
            /\ UNCHANGED <<name, files, del, orphanCause>>
      BY <2>2 DEF UploadSend, disk
    <3>2. up'[n].at = "report" /\ \A m \in Names \ {n} : up'[m] = up[m]
      BY <1>1, <3>1 DEF TypeOK
    <3>3. \/ remote' = remote
          \/ \E v \in {"valid", "corrupt"} : /\ remote' = [remote EXCEPT ![name[n]] = v]
                                             /\ up[n].good => v = "valid"
      <4>1. CASE up[n].good
        BY <3>1, <4>1
      <4>2. CASE ~up[n].good
        BY <3>1, <4>2
      <4>3. QED
        BY <4>1, <4>2
    <3>4. QED
      BY <3>1, <3>2, <3>3
  <2>3. CASE UploadReport(n)
    BY <1>1, <2>3 DEF UploadReport, TypeOK, disk
  <2>4. CASE UploadNotify(n)
    BY <1>1, <2>4 DEF UploadNotify, TypeOK, NoUpload, disk
  <2>5. QED
    BY <2>1, <2>2, <2>3, <2>4 DEF UploadStep
<1>3. /\ Cur \in Nat /\ n \in 1 .. Cur /\ name[n] \in Names
      /\ \A m \in 1 .. Cur : m \in Names
  <2>1. n <= Cur
    BY <1>2 DEF Shared, Covered
  <2>2. QED
    BY <1>1, <2>1, NameFacts DEF Names
<1>4. Cur' = Cur /\ CurFile' = CurFile
  BY <1>2 DEF Cur, CurFile
<1>5. /\ \A g \in Names \ {name[n]} : remote'[g] = remote[g]
      /\ \/ remote'[name[n]] = remote[name[n]]
         \/ up[n].at = "send" /\ (up[n].good => remote'[name[n]] = "valid")
  <2>1. CASE remote' = remote
    BY <2>1
  <2>2. ASSUME up[n].at = "send", NEW v \in {"valid", "corrupt"}, up[n].good => v = "valid",
               remote' = [remote EXCEPT ![name[n]] = v]
        PROVE  /\ remote'[name[n]] = v
               /\ \A g \in Names \ {name[n]} : remote'[g] = remote[g]
    BY <1>1, <1>3, <2>2 DEF TypeOK
  <2>3. CASE remote' # remote
    <3>1. PICK v \in {"valid", "corrupt"} :
            up[n].at = "send" /\ remote' = [remote EXCEPT ![name[n]] = v] /\ (up[n].good => v = "valid")
      BY <1>2, <2>3, Zenon
    <3>2. /\ remote'[name[n]] = v
          /\ \A g \in Names \ {name[n]} : remote'[g] = remote[g]
      BY <2>2, <3>1, Zenon
    <3>3. QED
      BY <3>1, <3>2, Zenon
  <2>4. QED
    BY <2>1, <2>3, Zenon
<1>6. \A g \in Names : /\ Sent(g)' => Sent(g)
                       /\ Sending(g)' => Sending(g) \/ files[g] # "none"
                       /\ remote'[g] # "none" => remote[g] # "none" \/ Sending(g)
  <2>1. \A g \in Names : remote'[g] # "none" => remote[g] # "none" \/ Sending(g)
    BY <1>3, <1>5 DEF Sending
  <2>2. \A g \in Names : Sending(g)' => Sending(g) \/ files[g] # "none"
    BY <1>2, <1>3, <1>4 DEF Sending
  <2>3. \A m \in 1 .. Cur : up'[m].at # "none" => up[m].at # "none"
    BY <1>2, <1>3
  <2>4. \A g \in Names : Sending(g) => Sent(g)
    BY DEF Sending, Sent
  <2>5. \A g \in Names : Sent(g)' => Sent(g)
    BY <1>2, <1>4, <2>1, <2>3, <2>4 DEF Sent
  <2>6. QED
    BY <2>1, <2>2, <2>5
<1>7. Covered'
  <2>1. \A m \in Names : up'[m].at # "none" => up[m].at # "none"
    BY <1>2
  <2>2. Cur > 0 => CurFile \in Names
    BY <1>1, NameFacts
  <2>3. QED
    BY <1>2, <1>4, <1>6, <2>1, <2>2 DEF Shared, Covered
<1>8. SentGood' /\ RemoteValidated'
  <2>1. SentGood'
    <3>1. up'[n].at = "send" => up'[n].good
      <4>1. up[n].at = "open" => files[name[n]] \in {"none", "valid"}
        BY <1>3, Zenon DEF Shared, SentGood
      <4>2. up[n].at = "open" /\ files[name[n]] # "none" => files[name[n]] = "valid"
        BY <4>1
      <4>3. QED
        BY <1>2, <4>2, Zenon
    <3>2. ASSUME NEW m \in 1 .. Cur
          PROVE  /\ up'[m].at = "open" => files'[name'[m]] \in {"none", "valid"}
                 /\ up'[m].at = "send" => up'[m].good
      <4>1. CASE m = n
        BY <1>2, <3>1, <4>1, Zenon
      <4>2. CASE m # n
        <5>1. up'[m] = up[m] /\ files' = files /\ name' = name
          BY <1>2, <1>3, <4>2
        <5>2. QED
          BY <5>1, Zenon DEF Shared, SentGood
      <4>3. QED
        BY <4>1, <4>2
    <3>3. QED
      BY <1>4, <3>2 DEF SentGood
  <2>2. up[n].at = "send" => up[n].good
    BY <1>3 DEF Shared, SentGood
  <2>3. QED
    BY <1>3, <1>5, <2>1, <2>2 DEF Shared, RemoteValidated
<1>9. Accounted'
  BY <1>2, <1>6 DEF Shared, Accounted
<1>10. QED
  BY <1>7, <1>8, <1>9 DEF Shared

(* A remote delete that meets an upload of that name leaves its trace.      *)
LEMMA DeleteRemoteShared ==
  ASSUME Inv, Shared, NEW f \in Names, DeleteRemote(f) PROVE Shared'
<1>1. TypeOK
  BY DEF Inv, Gated
<1>2. /\ del' = del \ {f} /\ UNCHANGED <<name, files, up>>
      /\ \/ /\ remote' = [remote EXCEPT ![f] = "none"]
            /\ orphanCause' = [orphanCause EXCEPT ![f] =
                                 IF Uploading(f) THEN @ \cup {"raced"} ELSE @]
         \/ /\ orphanCause' = [orphanCause EXCEPT ![f] = @ \cup {"failed"}]
            /\ UNCHANGED remote
  BY DEF DeleteRemote, disk
<1>3. Cur' = Cur /\ CurFile' = CurFile
  BY <1>2 DEF Cur, CurFile
<1>4. /\ \A g \in Names : remote'[g] \in {remote[g], "none"}
      /\ \A g \in Names \ {f} : orphanCause'[g] = orphanCause[g]
      /\ (remote'[f] = "none" /\ ~Uploading(f)) \/ orphanCause'[f] # {}
  <2>1. CASE /\ remote' = [remote EXCEPT ![f] = "none"]
             /\ orphanCause' = [orphanCause EXCEPT ![f] =
                                  IF Uploading(f) THEN @ \cup {"raced"} ELSE @]
    <3>1. CASE Uploading(f)
      BY <1>1, <2>1, <3>1 DEF TypeOK
    <3>2. CASE ~Uploading(f)
      BY <1>1, <2>1, <3>2 DEF TypeOK
    <3>3. QED
      BY <3>1, <3>2
  <2>2. CASE /\ orphanCause' = [orphanCause EXCEPT ![f] = @ \cup {"failed"}]
             /\ UNCHANGED remote
    BY <1>1, <2>2 DEF TypeOK
  <2>3. QED
    BY <1>2, <2>1, <2>2
<1>5. \A g \in Names : /\ Sent(g)' => Sent(g)
                       /\ Sending(g)' <=> Sending(g)
                       /\ Sending(g) => Uploading(g)
  BY <1>2, <1>3, <1>4 DEF Sent, Sending, Uploading
<1>6. Covered'
  BY <1>1, <1>2, <1>3, <1>5, NameFacts DEF Shared, Covered
<1>7. SentGood' /\ RemoteValidated'
  BY <1>2, <1>3, <1>4 DEF Shared, SentGood, RemoteValidated
<1>8. Accounted'
  BY <1>2, <1>4, <1>5 DEF Shared, Accounted
<1>9. QED
  BY <1>6, <1>7, <1>8 DEF Shared

(* What a crash cuts off leaves its trace too, and no partial file is sent. *)
LEMMA CrashShared == ASSUME Inv, Shared, Crash PROVE Shared'
<1>1. TypeOK
  BY DEF Inv, Gated
<1>2. /\ up' = NoUploads /\ UNCHANGED name
      /\ orphanCause' = [f \in Names |-> IF f \in del \/ Uploading(f)
                                     THEN orphanCause[f] \cup {"crashed"} ELSE orphanCause[f]]
      /\ \/ files' = files
         \/ files' = [files EXCEPT ![CurFile] = IF @ = "partial" THEN "valid" ELSE @]
      /\ \/ remote' = remote
         \/ \E n \in 1 .. Cur : /\ up[n].at = "send"
                                /\ remote' = [remote EXCEPT ![name[n]] = "valid"]
  BY DEF Crash
<1>3. Cur' = Cur /\ CurFile' = CurFile
  BY <1>2 DEF Cur, CurFile
<1>4. \A n \in Names : up'[n].at = "none"
  BY <1>2 DEF NoUploads, NoUpload
<1>5. 1 .. Cur \subseteq Names /\ (Cur > 0 => CurFile \in Names)
  BY <1>1, NameFacts
<1>6. /\ \A g \in Names : files[g] = "valid" => files'[g] = "valid"
      /\ \A g \in Names : files'[g] = "none" => files[g] = "none"
  BY <1>1, <1>2 DEF TypeOK
<1>7. \A g \in Names : remote'[g] = remote[g] \/ (Sending(g) /\ remote'[g] = "valid")
  BY <1>1, <1>2 DEF TypeOK, Sending
<1>8. \A g \in Names : /\ Sending(g) => Sent(g) /\ Uploading(g)
                       /\ Sent(g)' => Sent(g)
                       /\ ~Sending(g)'
  <2>1. \A g \in Names : Sending(g) => Sent(g) /\ Uploading(g)
    BY DEF Sending, Sent, Uploading
  <2>2. \A g \in Names : ~Sending(g)'
    BY <1>3, <1>4, <1>5 DEF Sending
  <2>3. \A g \in Names : Sent(g)' => Sent(g)
    BY <1>3, <1>4, <1>5, <1>7, <2>1 DEF Sent
  <2>4. QED
    BY <2>1, <2>2, <2>3
<1>9. Covered'
  BY <1>3, <1>4, <1>5, <1>6, <1>8 DEF Shared, Covered
<1>10. SentGood' /\ RemoteValidated'
  BY <1>3, <1>4, <1>5, <1>7 DEF Shared, SentGood, RemoteValidated
<1>11. Accounted'
  <2>1. \A g \in Names : g \in del \/ orphanCause[g] # {} \/ Sending(g) => orphanCause'[g] # {}
    BY <1>2, <1>8
  <2>2. QED
    BY <1>6, <1>7, <1>8, <2>1 DEF Shared, Accounted
<1>12. QED
  BY <1>9, <1>10, <1>11 DEF Shared

LEMMA SharedStep ==
  ASSUME ~UserDeletes, Inv, Retained, Shared, [Next]_vars PROVE Shared'
<1>1. ASSUME NEW c \in Callers, TryStart(c) \/ RunStep(c) PROVE Shared'
  BY <1>1, BucketAloneSteps, CreateFileShared, DumpShared, SpawnUploadShared, CleanupShared
     DEF RunStep
<1>2. ASSUME NEW f \in Names, UserDelete(f) PROVE FALSE
  BY <1>2 DEF UserDelete
<1>3. QED
  BY <1>1, <1>2, BucketAloneSteps, UploadShared, DeleteRemoteShared, CrashShared DEF Next

LEMMA SharedHolds == ASSUME ~UserDeletes PROVE Spec => [](Inv /\ Retained /\ Shared)
<1>1. Init => Inv /\ Retained /\ Shared
  BY InitInv, InitRetained, InitShared
<1>2. Inv /\ Retained /\ Shared /\ [Next]_vars => (Inv /\ Retained /\ Shared)'
  BY InvStep, RetainedStep, SharedStep
<1>3. QED
  BY <1>1, <1>2, PTL DEF Spec

(* Only validated dumps reach the bucket, unless two runs can begin within  *)
(* one second (the resolution of a file name) and users delete: then a run  *)
(* can take the name of a deleted backup whose upload has yet to open it.   *)
THEOREM UploadedIsValidated ==
  ASSUME ~(SameSecond /\ UserDeletes) PROVE Spec => []RemoteValidated
<1>1. CASE ~SameSecond
  <2>1. Inv => RemoteValidated
    BY <1>1 DEF Inv, Bucket
  <2>2. QED
    BY <2>1, Invariance, PTL
<1>2. CASE ~UserDeletes
  <2>1. Inv /\ Retained /\ Shared => RemoteValidated
    BY DEF Shared
  <2>2. QED
    BY <1>2, <2>1, SharedHolds, PTL
<1>3. QED
  BY <1>1, <1>2

(* On the same terms an object whose file is gone stays in the bucket for a *)
(* cause: its delete failed, was dropped at shutdown, lost in a crash, or   *)
(* met the upload.                                                          *)
THEOREM OrphansHaveCause ==
  ASSUME ~(SameSecond /\ UserDeletes) PROVE Spec => []OrphansExplained
<1>1. CASE ~SameSecond
  <2>1. Inv => OrphansExplained
    <3> SUFFICES ASSUME Inv, NEW f \in Names, Orphan(f) PROVE orphanCause[f] # {}
      BY DEF OrphansExplained
    <3>1. files[f] = "none" /\ remote[f] # "none" /\ f \notin del
      BY DEF Orphan
    <3>2. QED
      BY <1>1, <3>1 DEF Inv, Bucket, Explained
  <2>2. QED
    BY <2>1, Invariance, PTL
<1>2. CASE ~UserDeletes
  <2>1. Inv /\ Retained /\ Shared => OrphansExplained
    BY DEF Shared, Accounted, OrphansExplained, Orphan
  <2>2. QED
    BY <1>2, <2>1, SharedHolds, PTL
<1>3. QED
  BY <1>1, <1>2
=============================================================================
