----------------------------- MODULE ImageStore -----------------------------
(***************************************************************************)
(* backend/image_handler.go: an image is a file in uploadDir and a row of  *)
(* common_images.  Nothing makes the two change together: an upload writes *)
(* and syncs the file before it inserts the row, a deletion removes the    *)
(* row only, and serving looks up the row before it opens the file.        *)
(*                                                                         *)
(* Every upload has a fresh uuid, so an image stands for its upload too.   *)
(* The database keeps what it committed; a file survives a power loss if   *)
(* it was synced.  (That its directory entry then survives is assumed.)    *)
(***************************************************************************)
EXTENDS Naturals

CONSTANTS
    Images,     \* the uuids of the uploads
    Readers,    \* request goroutines that serve an image
    Deleters,   \* request goroutines that delete one
    Null,       \* no image
    MaxCrashes  \* bound: restarts and power losses

ASSUME ImageAssumption == Null \notin Images /\ MaxCrashes \in Nat

VARIABLES
    up,        \* where each upload is, or how it was answered
    big,       \* it has more than maxUploadSize bytes
    files,     \* its file in uploadDir
    sync,      \* dst.Sync: not called, succeeded, failed
    rows,      \* common_images
    removed,   \* ids deleted from it
    serving,   \* the image whose row a reader has fetched
    deleting,  \* the image whose row a deleter has found
    crashes,   \* restarts and power losses so far
    torn       \* history: images whose file lost data in a power loss

requests == <<serving, deleting>>
imageVars == <<up, big, files, sync, rows, removed, requests, crashes, torn>>

UnderWay == {"open", "copying", "copied", "synced"}
Answers == {"done", "tooLarge", "failed"}

ImageTypeOK ==
    /\ up \in [Images -> {"none"} \union UnderWay \union Answers]
    /\ big \in [Images -> BOOLEAN]
    /\ files \in [Images -> {"none", "partial", "oversize", "whole"}]
    /\ sync \in [Images -> {"no", "ok", "failed"}]
    /\ rows \subseteq Images
    /\ removed \subseteq Images \ rows
    /\ serving \in [Readers -> Images \union {Null}]
    /\ deleting \in [Deleters -> Images \union {Null}]
    /\ crashes \in 0..MaxCrashes
    /\ torn \subseteq Images

ImageInit ==
    /\ up = [i \in Images |-> "none"]
    /\ big = [i \in Images |-> FALSE]
    /\ files = [i \in Images |-> "none"]
    /\ sync = [i \in Images |-> "no"]
    /\ rows = {} /\ removed = {}
    /\ serving = [r \in Readers |-> Null]
    /\ deleting = [d \in Deleters |-> Null]
    /\ crashes = 0
    /\ torn = {}

-----------------------------------------------------------------------------
(* handleUploadImage *)

Goto(i, s) ==
    /\ up' = [up EXCEPT ![i] = s]
    /\ UNCHANGED <<removed, requests, crashes, torn>>

\* The size the form declares, when it declares one, is checked first; with a
\* size of 0 it is only the copy that finds out.
StartUpload(i, b, declared) ==
    /\ up[i] = "none"
    /\ big' = [big EXCEPT ![i] = b]
    /\ Goto(i, IF b /\ declared THEN "tooLarge" ELSE "open")
    /\ UNCHANGED <<files, sync, rows>>

\* The form file does not open, no uuid, os.Create fails.
OpenFails(i) ==
    /\ up[i] = "open"
    /\ Goto(i, "failed")
    /\ UNCHANGED <<big, files, sync, rows>>

CreateFile(i) ==
    /\ up[i] = "open"
    /\ files' = [files EXCEPT ![i] = "partial"]
    /\ Goto(i, "copying")
    /\ UNCHANGED <<big, sync, rows>>

\* io.Copy stops one byte past the limit.
CopyFile(i) ==
    /\ up[i] = "copying"
    /\ files' = [files EXCEPT ![i] = IF big[i] THEN "oversize" ELSE "whole"]
    /\ Goto(i, "copied")
    /\ UNCHANGED <<big, sync, rows>>

\* What was written stays behind.
CopyFails(i) ==
    /\ up[i] = "copying"
    /\ Goto(i, "failed")
    /\ UNCHANGED <<big, files, sync, rows>>

\* The error of os.Remove is ignored.
RejectOversize(i) ==
    /\ up[i] = "copied" /\ big[i]
    /\ \/ files' = [files EXCEPT ![i] = "none"]
       \/ UNCHANGED files
    /\ Goto(i, "tooLarge")
    /\ UNCHANGED <<big, sync, rows>>

SeekFails(i) ==
    /\ up[i] = "copied" /\ ~big[i]
    /\ Goto(i, "failed")
    /\ UNCHANGED <<big, files, sync, rows>>

\* The error of dst.Sync is ignored.
SyncFile(i) ==
    /\ up[i] = "copied" /\ ~big[i]
    /\ \E outcome \in {"ok", "failed"} : sync' = [sync EXCEPT ![i] = outcome]
    /\ Goto(i, "synced")
    /\ UNCHANGED <<big, files, rows>>

\* Mutant: the row may be inserted before the file is synced.
InsertRowBeforeSync(i) ==
    /\ up[i] \in {"copied", "synced"} /\ ~big[i]
    /\ rows' = rows \union {i}
    /\ \E answer \in {"done", "failed"} : Goto(i, answer)
    /\ UNCHANGED <<big, files, sync>>

\* The INSERT commits; if the connection is lost before the handler learns of
\* it, an image that is stored is answered with 500.
InsertRow(i) ==
    /\ up[i] = "synced"
    /\ rows' = rows \union {i}
    /\ \E answer \in {"done", "failed"} : Goto(i, answer)
    /\ UNCHANGED <<big, files, sync>>

\* Mutant: the error of the INSERT is not looked at.
InsertErrorIgnored(i) ==
    /\ up[i] = "synced"
    /\ Goto(i, "done")
    /\ UNCHANGED <<big, files, sync, rows>>

InsertFails(i) ==
    /\ up[i] = "synced"
    /\ Goto(i, "failed")
    /\ UNCHANGED <<big, files, sync, rows>>

-----------------------------------------------------------------------------
(* handleServeImage and handleDeleteImage *)

uploads == <<up, big, sync>>

FetchRow(r, i) ==
    /\ serving[r] = Null
    /\ i \in rows
    /\ serving' = [serving EXCEPT ![r] = i]
    /\ UNCHANGED <<uploads, files, rows, removed, deleting, crashes, torn>>

\* serveImageContent opens the file and sends it, whatever its size is now
\* and although the image may be deleted by now.
ServeContent(r) ==
    /\ serving[r] # Null
    /\ serving' = [serving EXCEPT ![r] = Null]
    /\ UNCHANGED <<uploads, files, rows, removed, deleting, crashes, torn>>

FindRow(d, i) ==
    /\ deleting[d] = Null
    /\ i \in rows
    /\ deleting' = [deleting EXCEPT ![d] = i]
    /\ UNCHANGED <<uploads, files, rows, removed, serving, crashes, torn>>

\* Mutant: the file goes with the row.
DeleteRowAndFile(d) ==
    /\ deleting[d] # Null
    /\ rows' = rows \ {deleting[d]}
    /\ removed' = removed \union {deleting[d]}
    /\ files' = [files EXCEPT ![deleting[d]] = "none"]
    /\ deleting' = [deleting EXCEPT ![d] = Null]
    /\ UNCHANGED <<uploads, serving, crashes, torn>>

\* The file stays.  Deleting a row that is gone already is no error.
DeleteRow(d) ==
    /\ deleting[d] # Null
    /\ rows' = rows \ {deleting[d]}
    /\ removed' = removed \union {deleting[d]}
    /\ deleting' = [deleting EXCEPT ![d] = Null]
    /\ UNCHANGED <<uploads, files, serving, crashes, torn>>

DeleteFails(d) ==
    /\ deleting[d] # Null
    /\ deleting' = [deleting EXCEPT ![d] = Null]
    /\ UNCHANGED <<uploads, files, rows, removed, serving, crashes, torn>>

-----------------------------------------------------------------------------
(* The backend stops, with or without the machine under it *)

Crash ==
    /\ crashes < MaxCrashes
    /\ crashes' = crashes + 1
    /\ up' = [i \in Images |-> IF up[i] \in UnderWay THEN "failed" ELSE up[i]]
    /\ serving' = [r \in Readers |-> Null]
    /\ deleting' = [d \in Deleters |-> Null]
    /\ UNCHANGED <<big, sync, rows, removed>>

Restart == Crash /\ UNCHANGED <<files, torn>>

\* Of a file that was not synced any part may be lost.
PowerLoss ==
    /\ Crash
    /\ \E lost \in SUBSET {i \in Images : files[i] # "none" /\ sync[i] # "ok"} :
         /\ files' = [i \in Images |-> IF i \in lost THEN "partial" ELSE files[i]]
         /\ torn' = torn \union lost

-----------------------------------------------------------------------------
Upload(i) ==
    \/ \E b, declared \in BOOLEAN : StartUpload(i, b, declared)
    \/ OpenFails(i) \/ CreateFile(i) \/ CopyFile(i) \/ CopyFails(i)
    \/ RejectOversize(i) \/ SeekFails(i) \/ SyncFile(i)
    \/ InsertRow(i) \/ InsertFails(i)

Serve(r) == ServeContent(r) \/ \E i \in Images : FetchRow(r, i)

Delete(d) == DeleteRow(d) \/ DeleteFails(d) \/ \E i \in Images : FindRow(d, i)

ImageNext ==
    \/ \E i \in Images : Upload(i)
    \/ \E r \in Readers : Serve(r)
    \/ \E d \in Deleters : Delete(d)
    \/ Restart
    \/ PowerLoss

ImageSpec == ImageInit /\ [][ImageNext]_imageVars

-----------------------------------------------------------------------------
(* Properties *)

\* The file is whole; or it could not be synced and a power loss met it.
Intact(i) == files[i] = "whole" \/ (i \in torn /\ sync[i] = "failed")

\* An image the database knows has its file, whole and within the limit, at
\* whatever point uploads failed, were cut off by a crash or raced: handlers
\* and works can rely on the row alone.
RowHasFile == \A i \in rows : Intact(i)

\* A reader that has found the row is not answered "image file missing" or
\* sent a torn file, even if the image is deleted before the file is opened.
ServingFindsFile == \A r \in Readers : serving[r] # Null => Intact(serving[r])

\* An upload answered with the image was stored; one answered "file too large"
\* never was.  (One answered with 500 may have been.)
AnswerIsTrue ==
    \A i \in Images :
        /\ up[i] = "done" => i \in rows \union removed
        /\ up[i] = "tooLarge" => i \notin rows \union removed
=============================================================================
