------------------------------- MODULE Images --------------------------------
(***************************************************************************)
(* The image endpoints: internal/api/handlers.go over service/media.go,    *)
(* image/image.go and database/repository.go.  The rows belong to Aeron,   *)
(* which adds and removes them on its own; no transaction spans the steps  *)
(* of an upload.  Durations are counted per request, in units of the       *)
(* write timeout.                                                          *)
(***************************************************************************)
EXTENDS HttpServer

CONSTANTS Entities,
          UploadReadTimeout,  \* upload_read_timeout_seconds
          MaxAeron            \* bound: rows Aeron adds or removes

VARIABLES rows,     \* the picture of each entity
          aeron,    \* bound: changes by Aeron
          ipc,      \* where each image request is
          target,   \* the entity of each request
          upload,   \* what an upload is about to store
          stored,   \* history: uploads that changed a row
          removed   \* history: uploads whose row was gone when they stored

imageVars == <<rows, aeron, ipc, target, upload, stored, removed>>

Nobody == 0
Absent == [exists |-> FALSE, by |-> Nobody, whole |-> TRUE]
NoPicture == [exists |-> TRUE, by |-> Nobody, whole |-> TRUE]
Picture(r, u) == [exists |-> TRUE, by |-> r, whole |-> u.whole]
NoUpload == [source |-> "none", tooBig |-> FALSE, exact |-> FALSE, whole |-> TRUE]

(* What clients send: image bytes or a URL.  The image may exceed           *)
(* max_image_download_size_bytes and may have exactly the target size.      *)
Uploads == [source : {"data", "url"}, tooBig : BOOLEAN, exact : BOOLEAN, whole : {TRUE}]

ImagesInit ==
  /\ rows = [e \in Entities |-> NoPicture] /\ aeron = 0
  /\ ipc = [r \in Requests |-> "idle"]
  /\ target \in [Requests -> Entities]
  /\ upload = [r \in Requests |-> NoUpload]
  /\ stored = {} /\ removed = {}

Finish(r, status) == ipc' = [ipc EXCEPT ![r] = "done"] /\ Respond(r, status)
Goto(r, step) == ipc' = [ipc EXCEPT ![r] = step] /\ UNCHANGED code

Pictured(e) == rows[e].by # Nobody

-----------------------------------------------------------------------------
(* Aeron's own traffic. *)
AeronChanges(e) ==
  /\ aeron < MaxAeron
  /\ aeron' = aeron + 1
  /\ rows' = [rows EXCEPT ![e] = IF @ = Absent THEN NoPicture ELSE Absent]
  /\ UNCHANGED <<ipc, target, upload, stored, removed, serverVars>>

StartImage(r, kind) ==
  /\ ipc[r] = "idle"
  /\ Goto(r, kind)
  /\ UNCHANGED <<rows, aeron, target, upload, took, stored, removed>>

(* An id that is no GUID, or a bulk delete without its confirmation header. *)
Malformed(r, kind) ==
  /\ ipc[r] = "idle" /\ kind # "stats"
  /\ Finish(r, 400)
  /\ UNCHANGED <<rows, aeron, target, upload, took, stored, removed>>

(* handleImageUpload: the body, within its own read deadline and size.      *)
ReadBody(r, u, duration) ==
  /\ ipc[r] = "upload"
  /\ took' = [took EXCEPT ![r] = duration]
  /\ \/ duration = UploadReadTimeout /\ Finish(r, 408) /\ UNCHANGED upload
     \/ duration < UploadReadTimeout /\ Finish(r, 413) /\ UNCHANGED upload
     \/ duration < UploadReadTimeout /\ Finish(r, 400) /\ UNCHANGED upload
     \/ /\ duration < UploadReadTimeout /\ Goto(r, "find")
        /\ upload' = [upload EXCEPT ![r] = u]
  /\ UNCHANGED <<rows, aeron, target, stored, removed>>

(* UploadImage asks for the entity first. *)
FindEntity(r) ==
  /\ ipc[r] = "find"
  /\ \/ Finish(r, 500)
     \/ rows[target[r]] = Absent /\ Finish(r, 404)
     \/ rows[target[r]] # Absent /\ Goto(r, "fetch")
  /\ UNCHANGED <<rows, aeron, target, upload, took, stored, removed>>

(* Process: only the header of an image of exactly the target size is       *)
(* decoded; any other has to decode as a whole.                             *)
Decodes(u) == u.exact \/ u.whole

(* ValidateAndDownloadImage reads at most max_image_download_size_bytes.    *)
Fetched(u) == [u EXCEPT !.whole = u.source = "data" \/ ~u.tooBig]

Fetch(r, duration) ==
  /\ ipc[r] = "fetch"
  /\ upload[r].source = "data" => duration = 0
  /\ took' = [took EXCEPT ![r] = @ + duration]
  /\ upload' = [upload EXCEPT ![r] = Fetched(@)]
  /\ \/ Finish(r, 400)
     \/ Decodes(upload'[r]) /\ Goto(r, "store")
  /\ UNCHANGED <<rows, aeron, target, stored, removed>>

(* A bug to catch: the error of the UPDATE is logged only. *)
IgnoreUpdateError(failed) == 200

UpdateStatus(failed) == IF failed THEN 500 ELSE 200

(* UpdateImage: no row may be affected, and an error may come from a        *)
(* statement that was carried out.                                          *)
StoreImage(r, failed, done) ==
  /\ ipc[r] = "store"
  /\ ~failed => done
  /\ IF done /\ rows[target[r]] # Absent
     THEN /\ rows' = [rows EXCEPT ![target[r]] = Picture(r, upload[r])]
          /\ stored' = stored \cup {r}
          /\ UNCHANGED removed
     ELSE /\ removed' = IF done THEN removed \cup {r} ELSE removed
          /\ UNCHANGED <<rows, stored>>
  /\ Finish(r, UpdateStatus(failed))
  /\ UNCHANGED <<aeron, target, upload, took>>

(* DeleteImage: 404 only when there is no row. *)
DeleteImage(r, failed, done) ==
  /\ ipc[r] = "delete"
  /\ ~failed => done
  /\ rows' = IF done /\ rows[target[r]] # Absent THEN [rows EXCEPT ![target[r]] = NoPicture]
             ELSE rows
  /\ Finish(r, IF failed THEN 500 ELSE IF rows[target[r]] = Absent THEN 404 ELSE 200)
  /\ UNCHANGED <<aeron, target, upload, took, stored, removed>>

(* DeleteAllImages: one statement. *)
DeleteAllImages(r, failed, done) ==
  /\ ipc[r] = "bulk"
  /\ ~failed => done
  /\ rows' = IF done THEN [e \in Entities |-> IF Pictured(e) THEN NoPicture ELSE rows[e]] ELSE rows
  /\ Finish(r, IF failed THEN 500 ELSE 200)
  /\ UNCHANGED <<aeron, target, upload, took, stored, removed>>

(* GetStatistics counts the rows. *)
CountImages(r) ==
  /\ ipc[r] = "stats"
  /\ \E status \in {200, 500} : Finish(r, status)
  /\ UNCHANGED <<rows, aeron, target, upload, took, stored, removed>>

(* GetImage. *)
GetImage(r) ==
  /\ ipc[r] = "image"
  /\ \/ Finish(r, 500)
     \/ Finish(r, IF Pictured(target[r]) THEN 200 ELSE 404)
  /\ UNCHANGED <<rows, aeron, target, upload, took, stored, removed>>

-----------------------------------------------------------------------------
Durations == {0, WriteTimeout, UploadReadTimeout}

HandleImage(r) ==
  \/ \E u \in Uploads, d \in Durations : ReadBody(r, u, d)
  \/ FindEntity(r)
  \/ \E d \in {0, WriteTimeout} : Fetch(r, d)
  \/ GetImage(r) \/ CountImages(r)
  \/ \E failed, done \in BOOLEAN : \/ StoreImage(r, failed, done)
                                   \/ DeleteImage(r, failed, done)
                                   \/ DeleteAllImages(r, failed, done)

ImagesStep == \/ \E r \in Requests : HandleImage(r)
              \/ \E e \in Entities : AeronChanges(e)

-----------------------------------------------------------------------------
(* A client that is told 200 has its image in the database, unless Aeron    *)
(* removed the entity between the lookup and the update; an image that is   *)
(* in the database was not refused: its client was told 200, was told 500,  *)
(* or was told nothing because the answer came after the write timeout.     *)
ImageKept ==
  \A r \in Requests :
     /\ code[r] = 200 /\ upload[r].source # "none" => r \in stored \cup removed
     /\ r \in stored => \/ Told(r) \in {200, 500}
                        \/ Told(r) = 0 /\ took[r] >= WriteTimeout
     /\ \A e \in Entities : Pictured(e) => rows[e].by \in stored

(* An image is stored as it was sent or re-encoded, never cut short.        *)
UploadWhole == \A e \in Entities : Pictured(e) => rows[e].whole
=============================================================================
