------------------------------- MODULE Backup -------------------------------
(***************************************************************************)
(* internal/service/backup.go with its S3 store and the two notification   *)
(* signals it feeds: one backup run at a time creates, dumps, validates    *)
(* and reports a file, hands it to an upload goroutine and applies         *)
(* retention, while HTTP deletes, older uploads, shutdown and crashes      *)
(* interleave.                                                             *)
(*                                                                         *)
(* The Runner is used through the gate it implements (ShutdownGate).  A    *)
(* file is named by the second its run began: here, by a number.  Runs are *)
(* sequential, so a later name is also a later modification time.          *)
(***************************************************************************)
EXTENDS Integers, Sequences, FiniteSets

CONSTANTS Callers,      \* threads that call Start (HTTP) or Run (cron)
          MaxRuns,      \* bound: runs that generate a file name
          MaxBackups,   \* backup.max_backups
          MaxCrashes,   \* bound: crashes of the process
          UserDeletes,  \* whether DELETE /api/db/backups/{name} is called
          DiskFaults,   \* whether creating, listing or removing local files can fail
          SameSecond    \* whether two runs can begin within one second

ASSUME BackupAssumption ==
  /\ IsFiniteSet(Callers)
  /\ MaxRuns \in Nat \ {0} /\ MaxBackups \in Nat \ {0} /\ MaxCrashes \in Nat
  /\ UserDeletes \in BOOLEAN /\ DiskFaults \in BOOLEAN /\ SameSecond \in BOOLEAN

Names == 1 .. MaxRuns
NoFile == 0

(* Goroutines tracked by the runner: callers, one upload for each run and   *)
(* one remote delete for each name.                                         *)
Upload(n) == <<"upload", n>>
Delete(f) == <<"delete", f>>
Caller(c) == <<"caller", c>>
Workers == {Caller(c) : c \in Callers} \cup {Upload(n) : n \in Names}
             \cup {Delete(f) : f \in Names}

VARIABLES
  phase, tracked, primary,   \* the gate: s.runner
  rootOpen,    \* s.backupRoot is open
  pc,          \* where each caller is
  name,        \* the file name of each run, in order
  files,       \* the backup directory: content under each name
  expired,     \* files older than the retention period
  victims,     \* files the current cleanup loop has still to delete
  status,      \* s.status
  up,          \* upload goroutine of each run
  del,         \* names with a remote delete in flight
  remote,      \* the bucket: content under each key
  failing,     \* prevBackupFailed and prevS3Failed of the notifier
  orphanCause, \* history: why a remote object may outlive its local file
  crashes

gate == <<phase, tracked, primary>>
disk == <<files, expired>>
vars == <<gate, rootOpen, pc, name, disk, victims, status, up, del, remote,
          failing, orphanCause, crashes>>

Gate == INSTANCE ShutdownGate

PC == {"idle", "admitted", "entered", "started", "dumping", "dumped", "validated",
       "pending", "succeeded", "failed", "unsuccessful", "upload", "listAge",
       "deleteAged", "deleteSurplus", "finishing", "leaving"}
Content == {"none", "partial", "corrupt", "valid"}
NoStatus == [file |-> NoFile, ended |-> FALSE, success |-> FALSE, s3 |-> "none"]
NoUpload == [at |-> "none", good |-> FALSE]

TypeOK ==
  /\ phase \in {"open", "closing", "closed"}
  /\ tracked \subseteq Workers /\ primary \subseteq Workers
  /\ rootOpen \in BOOLEAN
  /\ pc \in [Callers -> PC]
  /\ name \in Seq(Names) /\ Len(name) <= MaxRuns
  /\ files \in [Names -> Content]
  /\ expired \subseteq Names /\ victims \subseteq Names
  /\ status \in [file : Names \cup {NoFile}, ended : BOOLEAN, success : BOOLEAN,
                 s3 : {"none", "pending", "synced", "failed"}]
  /\ up \in [Names -> [at : {"none", "open", "send", "report", "notify"}, good : BOOLEAN]]
  /\ del \subseteq Names
  /\ remote \in [Names -> Content \ {"partial"}]
  /\ failing \in [backup : BOOLEAN, s3 : BOOLEAN]
  /\ orphanCause \in [Names -> SUBSET {"failed", "dropped", "crashed", "raced"}]
  /\ crashes \in 0 .. MaxCrashes

Idle == [c \in Callers |-> "idle"]
NoUploads == [n \in Names |-> NoUpload]
AllWell == [backup |-> FALSE, s3 |-> FALSE]

Init == /\ phase = "open" /\ tracked = {} /\ primary = {}
        /\ rootOpen = TRUE
        /\ pc = Idle
        /\ victims = {}
        /\ status = NoStatus
        /\ up = NoUploads /\ del = {}
        /\ failing = AllWell
        /\ name = << >>
        /\ files = [f \in Names |-> "none"]
        /\ expired = {}
        /\ remote = [f \in Names |-> "none"]
        /\ orphanCause = [f \in Names |-> {}]
        /\ crashes = 0

Cur == Len(name)            \* the number of the current run once it has a file
CurFile == name[Cur]
Goto(c, label) == pc' = [pc EXCEPT ![c] = label]
Managed == {f \in Names : files[f] # "none"}

-----------------------------------------------------------------------------
(* Admission: TryStart, and the status of the new run. *)

Unnamed == {c \in Callers : pc[c] \in {"admitted", "entered", "started"}}

TryStart(c) == /\ pc[c] = "idle"
               /\ Cur + Cardinality(Unnamed) < MaxRuns
               /\ Gate!Admit(Caller(c))
               /\ Goto(c, "admitted")
               /\ UNCHANGED <<rootOpen, name, disk, victims, status, up, del, remote,
                              failing, orphanCause, crashes>>

Enter(c) == /\ pc[c] = "admitted"
            /\ Gate!Enter(Caller(c))
            /\ Goto(c, "entered")
            /\ UNCHANGED <<rootOpen, name, disk, victims, status, up, del, remote,
                           failing, orphanCause, crashes>>

(* A bug to catch: the refused caller keeps its reservation. *)
ConflictKeepsSlot(c) == /\ pc[c] = "admitted" /\ primary # {}
                        /\ Goto(c, "idle")
                        /\ UNCHANGED <<gate, rootOpen, name, disk, victims, status, up, del,
                                       remote, failing, orphanCause, crashes>>

(* "backup already in progress" *)
Conflict(c) == /\ pc[c] = "admitted" /\ primary # {}
               /\ Goto(c, "leaving")
               /\ UNCHANGED <<gate, rootOpen, name, disk, victims, status, up, del, remote,
                              failing, orphanCause, crashes>>

SetStatusStarted(c) == /\ pc[c] = "entered"
                       /\ status' = NoStatus
                       /\ Goto(c, "started")
                       /\ UNCHANGED <<gate, rootOpen, name, disk, victims, up, del, remote,
                                      failing, orphanCause, crashes>>

-----------------------------------------------------------------------------
(* execute: one run from the file name to its verdict. *)

(* A bug to catch: without O_EXCL the file that has the name is truncated. *)
CreateOrTruncate(c) ==
  /\ pc[c] = "started"
  /\ \E f \in {Cur + 1} \cup {name[n] : n \in IF SameSecond THEN {Cur} \ {0} ELSE {}} :
       /\ name' = Append(name, f)
       /\ status' = [status EXCEPT !.file = f]
       /\ files' = [files EXCEPT ![f] = "partial"]
  /\ Goto(c, "dumping")
  /\ UNCHANGED <<gate, rootOpen, expired, victims, up, del, remote, failing, orphanCause,
                 crashes>>

(* The name has one-second resolution, so it may be the previous run's.     *)
(* O_EXCL refuses a name that is taken and leaves that file alone.          *)
CreateFile(c) ==
  /\ pc[c] = "started"
  /\ \E f \in {Cur + 1} \cup {name[n] : n \in IF SameSecond THEN {Cur} \ {0} ELSE {}} :
       /\ name' = Append(name, f)
       /\ status' = [status EXCEPT !.file = f]
       /\ \/ /\ files[f] = "none"
             /\ files' = [files EXCEPT ![f] = "partial"]
             /\ Goto(c, "dumping")
          \/ /\ files[f] # "none" \/ DiskFaults
             /\ UNCHANGED files
             /\ Goto(c, "failed")
  /\ UNCHANGED <<gate, rootOpen, expired, victims, up, del, remote, failing, orphanCause,
                 crashes>>

(* pg_dump exits with 0.  A file deleted under it is gone at the Stat, or   *)
(* is there again when pg_dump opened the path after the delete.            *)
DumpOk(c) ==
  /\ pc[c] = "dumping"
  /\ \/ /\ files' \in {[files EXCEPT ![CurFile] = d] : d \in {"valid", "corrupt"}}
        /\ Goto(c, "dumped")
     \/ /\ files[CurFile] = "none" /\ UNCHANGED files
        /\ Goto(c, "failed")
  /\ UNCHANGED <<gate, rootOpen, name, expired, victims, status, up, del, remote, failing,
                 orphanCause, crashes>>

(* pg_dump fails, times out or is cancelled; its partial file is removed.   *)
DumpFail(c) ==
  /\ pc[c] = "dumping"
  /\ \/ files' = [files EXCEPT ![CurFile] = "none"]
     \/ DiskFaults /\ UNCHANGED files
  /\ Goto(c, "failed")
  /\ UNCHANGED <<gate, rootOpen, name, expired, victims, status, up, del, remote, failing,
                 orphanCause, crashes>>

(* A bug to catch: a file that is only looked at for its presence. *)
ValidatePresence(c) ==
  /\ pc[c] = "dumped"
  /\ \/ files[CurFile] # "none" /\ Goto(c, "validated")
     \/ Goto(c, "failed")
  /\ UNCHANGED <<gate, rootOpen, name, disk, victims, status, up, del, remote, failing,
                 orphanCause, crashes>>

(* pg_restore --list, within 30 seconds.  A rejected file stays on disk. *)
Validate(c) ==
  /\ pc[c] = "dumped"
  /\ \/ files[CurFile] = "valid" /\ Goto(c, "validated")
     \/ Goto(c, "failed")
  /\ UNCHANGED <<gate, rootOpen, name, disk, victims, status, up, del, remote, failing,
                 orphanCause, crashes>>

SetS3Pending(c) ==
  /\ pc[c] = "validated"
  /\ status' = [status EXCEPT !.s3 = "pending"]
  /\ Goto(c, "pending")
  /\ UNCHANGED <<gate, rootOpen, name, disk, victims, up, del, remote, failing,
                 orphanCause, crashes>>

SetStatusDone(c) ==
  /\ \/ pc[c] = "pending" /\ Goto(c, "succeeded")
     \/ pc[c] = "failed" /\ Goto(c, "unsuccessful")
  /\ status' = [status EXCEPT !.ended = TRUE, !.success = pc[c] = "pending",
                              !.file = CurFile]
  /\ UNCHANGED <<gate, rootOpen, name, disk, victims, up, del, remote, failing,
                 orphanCause, crashes>>

(* A bug to catch: a success is not reported. *)
NotifyFailuresOnly(c) ==
  /\ \/ pc[c] = "succeeded" /\ Goto(c, "upload") /\ UNCHANGED failing
     \/ pc[c] = "unsuccessful" /\ Goto(c, "finishing")
        /\ failing' = [failing EXCEPT !.backup = TRUE]
  /\ UNCHANGED <<gate, rootOpen, name, disk, victims, status, up, del, remote,
                 orphanCause, crashes>>

(* notifyBackup: the notifier keeps whether the last result was a failure. *)
NotifyBackup(c) ==
  /\ \/ pc[c] = "succeeded" /\ Goto(c, "upload")
     \/ pc[c] = "unsuccessful" /\ Goto(c, "finishing")
  /\ failing' = [failing EXCEPT !.backup = ~status.success]
  /\ UNCHANGED <<gate, rootOpen, name, disk, victims, status, up, del, remote,
                 orphanCause, crashes>>

(* A bug to catch: a plain go statement, which Close() does not wait for. *)
SpawnUntracked(c) ==
  /\ pc[c] = "upload"
  /\ up' = [up EXCEPT ![Cur] = [at |-> "open", good |-> FALSE]]
  /\ Goto(c, "listAge")
  /\ UNCHANGED <<gate, rootOpen, name, disk, victims, status, del, remote, failing,
                 orphanCause, crashes>>

SpawnUpload(c) ==
  /\ pc[c] = "upload"
  /\ Gate!Spawn(Upload(Cur))
  /\ up' = [up EXCEPT ![Cur] = [at |-> "open", good |-> FALSE]]
  /\ Goto(c, "listAge")
  /\ UNCHANGED <<rootOpen, name, disk, victims, status, del, remote, failing,
                 orphanCause, crashes>>

-----------------------------------------------------------------------------
(* cleanupOldBackups: two passes, each over a listing taken at its start.   *)

RemoveLocal(f) == /\ files' = [files EXCEPT ![f] = "none"]
                  /\ expired' = expired \ {f}

(* Bugs to catch: the listing is oldest first; one file too many is kept. *)
SurplusNewest == {f \in Managed : Cardinality({g \in Managed : g < f}) >= MaxBackups}
SurplusLess == {f \in Managed : Cardinality({g \in Managed : g > f}) > MaxBackups}

(* List() is newest first; max_backups files are kept, whatever they hold.  *)
Surplus == {f \in Managed : Cardinality({g \in Managed : g > f}) >= MaxBackups}

(* Either listing may fail, which ends the cleanup.                         *)
ListAged(c) == /\ pc[c] = "listAge"
               /\ \/ victims' = expired \cap Managed /\ Goto(c, "deleteAged")
                  \/ DiskFaults /\ UNCHANGED victims /\ Goto(c, "finishing")
               /\ UNCHANGED <<gate, rootOpen, name, disk, status, up, del, remote, failing,
                              orphanCause, crashes>>

(* A bug to catch: retention removes the local file only. *)
CleanupDeleteLocal(c, f) ==
  /\ pc[c] \in {"deleteAged", "deleteSurplus"} /\ f \in victims
  /\ victims' = victims \ {f}
  /\ RemoveLocal(f)
  /\ UNCHANGED <<gate, rootOpen, pc, name, status, up, del, remote, failing, orphanCause,
                 crashes>>

(* deleteDuringRun.  A file that is gone or cannot be removed is skipped,   *)
(* with no remote delete.                                                   *)
CleanupDelete(c, f) ==
  /\ pc[c] \in {"deleteAged", "deleteSurplus"} /\ f \in victims
  /\ victims' = victims \ {f}
  /\ \/ /\ files[f] # "none"
        /\ RemoveLocal(f)
        /\ Gate!Spawn(Delete(f))
        /\ del' = del \cup {f}
     \/ /\ files[f] = "none" \/ DiskFaults
        /\ UNCHANGED <<gate, disk, del>>
  /\ UNCHANGED <<rootOpen, pc, name, status, up, remote, failing, orphanCause, crashes>>

ListSurplus(c) == /\ pc[c] = "deleteAged" /\ victims = {}
                  /\ \/ victims' = Surplus /\ Goto(c, "deleteSurplus")
                     \/ DiskFaults /\ UNCHANGED victims /\ Goto(c, "finishing")
                  /\ UNCHANGED <<gate, rootOpen, name, disk, status, up, del, remote,
                                 failing, orphanCause, crashes>>

CleanupDone(c) == /\ pc[c] = "deleteSurplus" /\ victims = {}
                  /\ Goto(c, "finishing")
                  /\ UNCHANGED <<gate, rootOpen, name, disk, victims, status, up, del,
                                 remote, failing, orphanCause, crashes>>

(* The slot is given back: running.Store(false), then wg.Done(). *)
Finish(c) == /\ pc[c] = "finishing"
             /\ Gate!Exit(Caller(c))
             /\ Goto(c, "leaving")
             /\ UNCHANGED <<rootOpen, name, disk, victims, status, up, del, remote, failing,
                            orphanCause, crashes>>

Leave(c) == /\ pc[c] = "leaving"
            /\ Gate!Leave(Caller(c))
            /\ Goto(c, "idle")
            /\ UNCHANGED <<rootOpen, name, disk, victims, status, up, del, remote, failing,
                           orphanCause, crashes>>

-----------------------------------------------------------------------------
(* The upload goroutine of run n. *)

UploadOpen(n) ==
  /\ up[n].at = "open"
  /\ up' = [up EXCEPT ![n] =
              IF files[name[n]] = "none" THEN [at |-> "report", good |-> FALSE]
              ELSE [at |-> "send", good |-> files[name[n]] = "valid"]]
  /\ UNCHANGED <<gate, rootOpen, pc, name, disk, victims, status, del, remote, failing,
                 orphanCause, crashes>>

(* A request that failed for the client may still have stored the object.   *)
UploadSend(n) ==
  /\ up[n].at = "send"
  /\ \E ok \in BOOLEAN, stored \in BOOLEAN :
       /\ ok => stored
       /\ remote' = IF stored
                    THEN [remote EXCEPT ![name[n]] = IF up[n].good THEN "valid" ELSE "corrupt"]
                    ELSE remote
       /\ up' = [up EXCEPT ![n] = [at |-> "report", good |-> ok]]
  /\ UNCHANGED <<gate, rootOpen, pc, name, disk, victims, status, del, failing,
                 orphanCause, crashes>>

(* A bug to catch: a failed upload that returns before it reports.          *)
UploadReportSuccess(n) ==
  /\ up[n].at = "report"
  /\ status' = IF up[n].good THEN [status EXCEPT !.s3 = "synced"] ELSE status
  /\ up' = [up EXCEPT ![n].at = "notify"]
  /\ UNCHANGED <<gate, rootOpen, pc, name, disk, victims, del, remote, failing,
                 orphanCause, crashes>>

(* setS3SyncStatus writes into whatever status is current. *)
UploadReport(n) ==
  /\ up[n].at = "report"
  /\ status' = [status EXCEPT !.s3 = IF up[n].good THEN "synced" ELSE "failed"]
  /\ up' = [up EXCEPT ![n].at = "notify"]
  /\ UNCHANGED <<gate, rootOpen, pc, name, disk, victims, del, remote, failing,
                 orphanCause, crashes>>

UploadNotify(n) ==
  /\ up[n].at = "notify"
  /\ failing' = [failing EXCEPT !.s3 = ~up[n].good]
  /\ up' = [up EXCEPT ![n] = NoUpload]
  /\ Gate!Leave(Upload(n))
  /\ UNCHANGED <<rootOpen, pc, name, disk, victims, status, del, remote, orphanCause,
                 crashes>>

Uploading(f) == \E n \in 1 .. Cur : name[n] = f /\ up[n].at \in {"open", "send"}

(* deleteS3Backup.  Deleting an object that is not there succeeds. *)
DeleteRemote(f) ==
  /\ f \in del
  /\ del' = del \ {f}
  /\ Gate!Leave(Delete(f))
  /\ \/ /\ remote' = [remote EXCEPT ![f] = "none"]
        /\ orphanCause' = [orphanCause EXCEPT ![f] = IF Uploading(f) THEN @ \cup {"raced"} ELSE @]
     \/ /\ orphanCause' = [orphanCause EXCEPT ![f] = @ \cup {"failed"}]
        /\ UNCHANGED remote
  /\ UNCHANGED <<rootOpen, pc, name, disk, victims, status, up, failing, crashes>>

-----------------------------------------------------------------------------
(* Delete from an HTTP handler: the file goes first, then TryGoBackground,  *)
(* which a closed runner refuses.  Bound: one remote delete per name in     *)
(* flight.                                                                  *)
UserDelete(f) ==
  /\ UserDeletes /\ rootOpen /\ files[f] # "none" /\ f \notin del
  /\ RemoveLocal(f)
  /\ \/ /\ Gate!Admit(Delete(f))
        /\ del' = del \cup {f}
        /\ UNCHANGED orphanCause
     \/ /\ phase # "open"
        /\ orphanCause' = [orphanCause EXCEPT ![f] = @ \cup {"dropped"}]
        /\ UNCHANGED <<gate, del>>
  /\ UNCHANGED <<rootOpen, pc, name, victims, status, up, remote, failing, crashes>>

(* A file passes the retention age after every older one.  Retention is     *)
(* counted in days and a run lasts minutes, so the file of the current run  *)
(* does not age while it is being produced and cleaned up after.            *)
InRun == \E c \in Callers : Caller(c) \in primary /\ pc[c] \notin {"entered", "started"}

Expire(f) ==
  /\ f \in Managed \ expired
  /\ \A g \in Managed : g < f => g \in expired
  /\ ~(InRun /\ f = CurFile)
  /\ expired' = expired \cup {f}
  /\ UNCHANGED <<gate, rootOpen, pc, name, files, victims, status, up, del, remote, failing,
                 orphanCause, crashes>>

(* Close(): the runner, then the backup root. *)
BeginClose == /\ Gate!BeginClose
              /\ UNCHANGED <<rootOpen, pc, name, disk, victims, status, up, del, remote,
                             failing, orphanCause, crashes>>

Drained == /\ Gate!Close
           /\ UNCHANGED <<rootOpen, pc, name, disk, victims, status, up, del, remote,
                          failing, orphanCause, crashes>>

CloseRoot == /\ phase = "closed" /\ rootOpen
             /\ rootOpen' = FALSE
             /\ UNCHANGED <<gate, pc, name, disk, victims, status, up, del, remote, failing,
                            orphanCause, crashes>>

(* The process dies and starts again.  A pg_dump it started may still       *)
(* complete its file; a request that was sent may still be carried out.     *)
Crash ==
  /\ crashes < MaxCrashes
  /\ crashes' = crashes + 1
  /\ phase' = "open" /\ tracked' = {} /\ primary' = {}
  /\ rootOpen' = TRUE
  /\ pc' = Idle
  /\ victims' = {}
  /\ status' = NoStatus
  /\ up' = NoUploads /\ del' = {}
  /\ failing' = AllWell
  /\ \/ UNCHANGED files
     \/ /\ \E c \in Callers : pc[c] = "dumping"
        /\ files' = [files EXCEPT ![CurFile] = IF @ = "partial" THEN "valid" ELSE @]
  /\ \/ UNCHANGED remote
     \/ \E n \in 1 .. Cur : /\ up[n].at = "send" /\ up[n].good
                            /\ remote' = [remote EXCEPT ![name[n]] = "valid"]
  /\ orphanCause' = [f \in Names |-> IF f \in del \/ Uploading(f)
                                     THEN orphanCause[f] \cup {"crashed"} ELSE orphanCause[f]]
  /\ UNCHANGED <<name, expired>>

RunStep(c) == \/ Enter(c) \/ Conflict(c) \/ SetStatusStarted(c)
              \/ CreateFile(c) \/ DumpOk(c) \/ DumpFail(c) \/ Validate(c)
              \/ SetS3Pending(c) \/ SetStatusDone(c) \/ NotifyBackup(c) \/ SpawnUpload(c)
              \/ ListAged(c) \/ (\E f \in Names : CleanupDelete(c, f)) \/ ListSurplus(c)
              \/ CleanupDone(c) \/ Finish(c) \/ Leave(c)

UploadStep(n) == UploadOpen(n) \/ UploadSend(n) \/ UploadReport(n) \/ UploadNotify(n)

Next == \/ \E c \in Callers : TryStart(c) \/ RunStep(c)
        \/ \E n \in Names : UploadStep(n)
        \/ \E f \in Names : DeleteRemote(f) \/ UserDelete(f) \/ Expire(f)
        \/ BeginClose \/ Drained \/ CloseRoot
        \/ Crash

Spec == Init /\ [][Next]_vars

(* Goroutines are scheduled; pg_dump, pg_restore, uploads and deletes end   *)
(* because each runs under a context with a timeout.                        *)
Fairness == /\ \A c \in Callers : WF_vars(RunStep(c))
            /\ \A n \in Names : WF_vars(UploadStep(n)) /\ WF_vars(DeleteRemote(n))
            /\ WF_vars(Drained) /\ WF_vars(CloseRoot)

FairSpec == Spec /\ Fairness

-----------------------------------------------------------------------------
(* A backup that pg_restore accepted disappears only because somebody asked *)
(* or retention chose it: no run, failed or colliding on the same second,   *)
(* truncates or removes another run's file.                                 *)
ValidLostOnlyByDelete ==
  [][\A f \in Names : files[f] = "valid" /\ files'[f] # "valid" =>
        UserDelete(f) \/ \E c \in Callers : CleanupDelete(c, f)]_vars

(* Without deletes by users the directory never loses its last restorable   *)
(* backup: failures do not trigger retention, and retention keeps the file  *)
(* whose validation it followed, whatever else is on disk.                  *)
NeverLosesLastBackup ==
  [][(\E f \in Names : files[f] = "valid") => (\E f \in Names : files'[f] = "valid")]_vars

(* After a successful run max_backups holds, also when older runs, crashes  *)
(* or users left partial and corrupt files around (no removal fails here).  *)
RetentionBound ==
  [][\A c \in Callers : CleanupDone(c) => Cardinality(Managed) <= MaxBackups]_vars

(* A status that reports success names a file that passed validation. *)
SuccessIsValid == status.success /\ files[status.file] # "none" =>
                     files[status.file] = "valid"

(* The notifier's backup state is the verdict of the last finished run,     *)
(* outside the moment between a run's verdict and its notification.         *)
SignalTracksRuns ==
  status.ended /\ (\A c \in Callers : pc[c] \notin {"succeeded", "unsuccessful"}) =>
     failing.backup = ~status.success

(* Only validated dumps reach the bucket. *)
RemoteValidated == \A f \in Names : remote[f] # "corrupt"

(* Close() returned: no run, upload or remote delete is left to touch the   *)
(* files, the status or the bucket, so the root may be closed.              *)
JoinedAtClose ==
  phase = "closed" => /\ \A c \in Callers : pc[c] = "idle"
                      /\ \A n \in Names : up[n].at = "none"
                      /\ del = {}

Orphan(f) == /\ files[f] = "none" /\ remote[f] # "none"
             /\ f \notin del
             /\ \A n \in 1 .. Cur : name[n] = f => up[n].at = "none"

(* When all is quiet, an object whose local file is gone stays in the       *)
(* bucket only for a cause: its delete failed, was dropped at shutdown or   *)
(* lost in a crash, or it was carried out while the upload was under way.   *)
OrphansExplained == \A f \in Names : Orphan(f) => orphanCause[f] # {}

(* API.md: s3_sync.synced says that the upload of this backup completed.    *)
SyncedMeansUploaded ==
  status.ended /\ status.success /\ status.s3 = "synced" /\ files[status.file] = "valid" =>
     remote[status.file] # "none"

(* The verdict of an upload is eventually published: s3_sync does not stay  *)
(* at "pending".                                                            *)
UploadsReported == status.s3 = "pending" ~> status.s3 # "pending"

(* Close() returns and closes the root, whatever runs, uploads and deletes  *)
(* are in flight.                                                           *)
CloseCompletes == phase = "closing" ~> ~rootOpen
=============================================================================
