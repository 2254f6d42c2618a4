----------------------------- MODULE FileStorage -----------------------------
(***************************************************************************)
(* The file storage service over the local engine: rows of table files, an *)
(* original <id>.zst and a WebP derivative <id>.webp.zst per file on disk, *)
(* HTTP/gRPC requests that upload, read, convert and delete, and the River *)
(* worker that pre-generates the WebP derivative of an uploaded image.     *)
(*                                                                         *)
(* Rows and files change in separate steps, any step can fail where the    *)
(* code has an error path, a database reply can be lost after the change   *)
(* was committed, and the process can crash between two steps.  The bytes  *)
(* of a file are abstracted to whether they are all there.  Dimensions and *)
(* blurhash (UpdateMetadata) and byte counts are left out: no property     *)
(* depends on them.                                                        *)
(***************************************************************************)
EXTENDS Naturals, FiniteSets

CONSTANTS
    Files,       \* file identifiers (uuid.New: each is used by one upload)
    Requests,    \* concurrent HTTP and gRPC calls
    Workers,     \* River workers (MaxWorkers)
    MaxCrashes,  \* bound on the crashes of a behaviour
    NoFile       \* the file of an idle process

Procs == Requests \cup Workers

ASSUME CrashAssumption == MaxCrashes \in Nat
ASSUME FileAssumption == NoFile \notin Files
ASSUME ProcAssumption ==
    Procs \cap {"none", "full", "queued", "done", "discarded"} = {}

VARIABLES
    row,      \* row[f]: "unused", "pending" (no row yet), "stored" or "gone"
    kind,     \* kind[f]: what was uploaded (mime_type)
    blob,     \* blob[f]: the original on disk: "none", "partial" or "full"
    webp,     \* webp[f]: the derivative: "none", "full", or the process that
              \*          created or truncated it last and has not finished it
    job,      \* job[f]: "none", "queued", "done", "discarded", or its worker
    pc,       \* pc[p]: where process p is
    file,     \* file[p]: the file it works on
    view,     \* view[p]: what its open stream will deliver
    crashes,  \* number of crashes so far
    \* History, read by no action:
    lost,     \* files whose INSERT committed although the reply was lost
    leaked,   \* files that a failed removal, a lost reply or a crash touched
    raced,    \* files whose derivative was removed under a running conversion
    unremoved \* files whose derivative a deletion could not remove

disk == <<blob, webp>>
history == <<lost, leaked, raced, unremoved>>
vars == <<row, kind, disk, job, pc, file, view, crashes, history>>

Stages == {"idle",
           "saving", "saved", "enqueue",           \* Upload
           "open", "stream",                       \* Get
           "lookup", "orig", "convert", "writing", "serve",   \* GetAsWebP
           "drop", "rm_webp", "rm_blob"}           \* Delete, and undoing Upload

\* "webp" is an image that is WebP already.
Kinds == {"image", "webp", "other"}

\* A stream delivers the whole file from the path, the whole file from a
\* file that was unlinked meanwhile, or a file that is cut short.
Views == {"none", "whole", "kept", "cut"}

TypeOK ==
    /\ row \in [Files -> {"unused", "pending", "stored", "gone"}]
    /\ kind \in [Files -> Kinds]
    /\ blob \in [Files -> {"none", "partial", "full"}]
    /\ webp \in [Files -> {"none", "full"} \cup Procs]
    /\ job \in [Files -> {"none", "queued", "done", "discarded"} \cup Workers]
    /\ pc \in [Procs -> Stages]
    /\ file \in [Procs -> Files \cup {NoFile}]
    /\ view \in [Procs -> Views]
    /\ crashes \in 0 .. MaxCrashes
    /\ lost \cup leaked \cup raced \cup unremoved \in SUBSET Files

Init ==
    /\ row = [f \in Files |-> "unused"]
    /\ kind = [f \in Files |-> "other"]
    /\ blob = [f \in Files |-> "none"]
    /\ webp = [f \in Files |-> "none"]
    /\ job = [f \in Files |-> "none"]
    /\ pc = [p \in Procs |-> "idle"]
    /\ file = [p \in Procs |-> NoFile]
    /\ view = [p \in Procs |-> "none"]
    /\ crashes = 0
    /\ lost = {}
    /\ leaked = {}
    /\ raced = {}
    /\ unremoved = {}

-----------------------------------------------------------------------------
(* A process begins an operation, moves on, and ends it. *)

Begin(p, f, stage) ==
    /\ pc[p] = "idle"
    /\ pc' = [pc EXCEPT ![p] = stage]
    /\ file' = [file EXCEPT ![p] = f]

Goto(p, stage) == pc' = [pc EXCEPT ![p] = stage] /\ UNCHANGED file

\* Mutant of End: the worker never reports its job as complete.
EndKeepingJob(p) ==
    /\ pc' = [pc EXCEPT ![p] = "idle"]
    /\ file' = [file EXCEPT ![p] = NoFile]
    /\ view' = [view EXCEPT ![p] = "none"]
    /\ job' = job

\* ProcessAsync returns nil whether or not the conversion worked, so the job
\* of a worker that ends is complete.
End(p) ==
    /\ pc' = [pc EXCEPT ![p] = "idle"]
    /\ file' = [file EXCEPT ![p] = NoFile]
    /\ view' = [view EXCEPT ![p] = "none"]
    /\ job' = [f \in Files |-> IF job[f] = p THEN "done" ELSE job[f]]

At(p, stage) == pc[p] = stage /\ file[p] \in Files

-----------------------------------------------------------------------------
(* Upload: Save, then the row, then the job. *)

UploadStart(p, f, k) ==
    /\ row[f] = "unused"
    /\ Begin(p, f, "saving")
    /\ row' = [row EXCEPT ![f] = "pending"]
    /\ kind' = [kind EXCEPT ![f] = k]
    /\ blob' = [blob EXCEPT ![f] = "partial"]
    /\ UNCHANGED <<webp, job, view, crashes, history>>

SaveDone(p) ==
    /\ At(p, "saving")
    /\ blob' = [blob EXCEPT ![file[p]] = "full"]
    /\ Goto(p, "saved")
    /\ UNCHANGED <<kind, row, webp, job, view, crashes, history>>

\* The copy fails: Save removes what it wrote.
SaveFails(p) ==
    /\ At(p, "saving")
    /\ blob' = [blob EXCEPT ![file[p]] = "none"]
    /\ row' = [row EXCEPT ![file[p]] = "gone"]
    /\ End(p)
    /\ UNCHANGED <<kind, webp, crashes, history>>

\* Stat fails on the finished file: Save returns without removing it.
SaveStatFails(p) ==
    /\ At(p, "saving")
    /\ blob' = [blob EXCEPT ![file[p]] = "full"]
    /\ row' = [row EXCEPT ![file[p]] = "gone"]
    /\ leaked' = leaked \cup {file[p]}
    /\ End(p)
    /\ UNCHANGED <<kind, webp, crashes, lost, raced, unremoved>>

\* Mutant of UploadUndo: the error path returns without engine.Delete.
UploadAbandon(p) ==
    /\ At(p, "saved")
    /\ row' = [row EXCEPT ![file[p]] = "gone"]
    /\ End(p)
    /\ UNCHANGED <<kind, disk, crashes, history>>

\* The file is over the size limit, or the INSERT fails: engine.Delete.
UploadUndo(p) ==
    /\ At(p, "saved")
    /\ row' = [row EXCEPT ![file[p]] = "gone"]
    /\ Goto(p, "rm_webp")
    /\ UNCHANGED <<kind, disk, job, view, crashes, history>>

InsertRow(p) ==
    /\ At(p, "saved")
    /\ row' = [row EXCEPT ![file[p]] = "stored"]
    /\ IF kind[file[p]] = "other" THEN End(p)
       ELSE Goto(p, "enqueue") /\ UNCHANGED <<job, view>>
    /\ UNCHANGED <<kind, disk, crashes, history>>

\* The INSERT commits but its reply does not arrive: Upload deletes the file.
InsertReplyLost(p) ==
    /\ At(p, "saved")
    /\ row' = [row EXCEPT ![file[p]] = "stored"]
    /\ lost' = lost \cup {file[p]}
    /\ leaked' = leaked \cup {file[p]}
    /\ Goto(p, "rm_webp")
    /\ UNCHANGED <<kind, disk, job, view, crashes, raced, unremoved>>

Enqueue(p) ==
    /\ At(p, "enqueue")
    /\ pc' = [pc EXCEPT ![p] = "idle"]
    /\ file' = [file EXCEPT ![p] = NoFile]
    /\ job' = [job EXCEPT ![file[p]] = "queued"]
    /\ UNCHANGED <<kind, row, disk, view, crashes, history>>

\* The failure is logged and the upload succeeds all the same.
EnqueueFails(p) ==
    /\ At(p, "enqueue")
    /\ End(p)
    /\ UNCHANGED <<kind, row, disk, crashes, history>>

-----------------------------------------------------------------------------
(* Get: the row, then the original. A request for an absent row ends at once. *)

GetStart(p, f) ==
    /\ row[f] = "stored"
    /\ Begin(p, f, "open")
    /\ UNCHANGED <<kind, row, disk, job, view, crashes, history>>

GetOpen(p) ==
    /\ At(p, "open")
    /\ IF blob[file[p]] = "none" THEN End(p)
       ELSE /\ view' = [view EXCEPT ![p] = IF blob[file[p]] = "full"
                                           THEN "whole" ELSE "cut"]
            /\ Goto(p, "stream")
            /\ UNCHANGED job
    /\ UNCHANGED <<kind, row, disk, crashes, history>>

StreamEnd(p) ==
    /\ pc[p] \in {"stream", "serve"}
    /\ End(p)
    /\ UNCHANGED <<kind, row, disk, crashes, history>>

-----------------------------------------------------------------------------
(* GetAsWebP: the row, the cached derivative, or the original converted. *)

\* The streams that read the derivative of f by its path.
OnPath(f) == {p \in Procs : pc[p] = "serve" /\ file[p] = f /\ view[p] = "whole"}

\* os.Remove of the derivative: open streams keep the unlinked file.
UnlinkWebP(f) == webp' = [webp EXCEPT ![f] = "none"]

Unlinked(f) == [p \in Procs |-> IF p \in OnPath(f) THEN "kept" ELSE view[p]]

\* os.OpenFile with O_TRUNC: open streams lose the rest of the file.
TruncateWebP(p, f) ==
    /\ webp' = [webp EXCEPT ![f] = p]
    /\ view' = [q \in Procs |-> IF q \in OnPath(f) THEN "cut" ELSE view[q]]

WebPStart(p, f) ==
    /\ row[f] = "stored" /\ kind[f] # "other"
    /\ Begin(p, f, "lookup")
    /\ UNCHANGED <<kind, row, disk, job, view, crashes, history>>

\* OpenWebP finds a file, complete or not.
WebPHit(p) ==
    /\ At(p, "lookup")
    /\ webp[file[p]] # "none"
    /\ view' = [view EXCEPT ![p] = IF webp[file[p]] = "full" THEN "whole" ELSE "cut"]
    /\ Goto(p, "serve")
    /\ UNCHANGED <<kind, row, disk, job, crashes, history>>

WebPMiss(p) ==
    /\ At(p, "lookup")
    /\ webp[file[p]] = "none"
    /\ Goto(p, "orig")
    /\ UNCHANGED <<kind, row, disk, job, view, crashes, history>>

\* An original that is WebP already is copied and no derivative is written.
WebPOpenOriginal(p) ==
    /\ At(p, "orig")
    /\ IF blob[file[p]] = "none" \/ kind[file[p]] = "webp" THEN End(p)
       ELSE Goto(p, "convert") /\ UNCHANGED <<job, view>>
    /\ UNCHANGED <<kind, row, disk, crashes, history>>

\* The original cannot be read or converted, or the target cannot be opened.
WebPConvertFails(p) ==
    /\ At(p, "convert")
    /\ End(p)
    /\ UNCHANGED <<kind, row, disk, crashes, history>>

\* The original is converted, from its open descriptor, and SaveWebP opens its
\* target.
WebPConvert(p) ==
    /\ At(p, "convert")
    /\ TruncateWebP(p, file[p])
    /\ Goto(p, "writing")
    /\ UNCHANGED <<kind, row, blob, job, crashes, history>>

\* The last byte is written. It completes the file unless another process has
\* truncated the path since, or it names another file, or none, by now.
SaveWebPDone(p) ==
    /\ At(p, "writing")
    /\ webp' = IF webp[file[p]] = p THEN [webp EXCEPT ![file[p]] = "full"] ELSE webp
    /\ End(p)
    /\ UNCHANGED <<kind, row, blob, crashes, history>>

\* Mutant of SaveWebPFails: the half-written derivative stays.
SaveWebPFailsDirty(p) ==
    /\ At(p, "writing")
    /\ End(p)
    /\ UNCHANGED <<kind, row, disk, crashes, history>>

\* Writing fails: SaveWebP removes whatever the path names; GetAsWebP ignores it.
SaveWebPFails(p) ==
    /\ At(p, "writing")
    /\ UnlinkWebP(file[p])
    /\ pc' = [pc EXCEPT ![p] = "idle"]
    /\ file' = [file EXCEPT ![p] = NoFile]
    /\ view' = [Unlinked(file[p]) EXCEPT ![p] = "none"]
    /\ job' = [f \in Files |-> IF job[f] = p THEN "done" ELSE job[f]]
    /\ UNCHANGED <<kind, row, blob, crashes, history>>

-----------------------------------------------------------------------------
(* Delete: the row first, then the derivative, then the original. *)

\* Mutant of DeleteStart: the files are removed and the row is left to last.
DeleteStartFilesFirst(p, f) ==
    /\ row[f] = "stored"
    /\ Begin(p, f, "rm_webp")
    /\ UNCHANGED <<kind, row, disk, job, view, crashes, history>>

DeleteStart(p, f) ==
    /\ row[f] = "stored"
    /\ Begin(p, f, "drop")
    /\ UNCHANGED <<kind, row, disk, job, view, crashes, history>>

\* A conversion that has passed its SELECT and not saved its result yet.
Converting == {"lookup", "orig", "convert", "writing"}
Converters(f) == {p \in Procs : file[p] = f /\ pc[p] \in Converting}

DropRow(p) ==
    /\ At(p, "drop")
    /\ row[file[p]] = "stored"
    /\ row' = [row EXCEPT ![file[p]] = "gone"]
    /\ Goto(p, "rm_webp")
    /\ UNCHANGED <<kind, disk, job, view, crashes, history>>

\* The row is gone already (ErrRecordNotFound) or the statement fails.
DropRowFails(p) ==
    /\ At(p, "drop")
    /\ End(p)
    /\ UNCHANGED <<kind, row, disk, crashes, history>>

\* The DELETE commits but its reply is lost: the files stay.
DropReplyLost(p) ==
    /\ At(p, "drop")
    /\ row[file[p]] = "stored"
    /\ row' = [row EXCEPT ![file[p]] = "gone"]
    /\ leaked' = leaked \cup {file[p]}
    /\ End(p)
    /\ UNCHANGED <<kind, disk, crashes, lost, raced, unremoved>>

RemoveWebP(p) ==
    /\ At(p, "rm_webp")
    /\ UnlinkWebP(file[p])
    /\ view' = Unlinked(file[p])
    /\ raced' = IF Converters(file[p]) = {} THEN raced ELSE raced \cup {file[p]}
    /\ Goto(p, "rm_blob")
    /\ UNCHANGED <<kind, row, blob, job, crashes, lost, leaked, unremoved>>

\* The derivative cannot be removed: the error is ignored, and Delete goes on to
\* the original and may report success.
RemoveWebPFails(p) ==
    /\ At(p, "rm_webp")
    /\ webp[file[p]] # "none"
    /\ unremoved' = unremoved \cup {file[p]}
    /\ Goto(p, "rm_blob")
    /\ UNCHANGED <<kind, row, disk, job, view, crashes, lost, leaked, raced>>

RemoveBlob(p) ==
    /\ At(p, "rm_blob")
    /\ blob' = [blob EXCEPT ![file[p]] = "none"]
    /\ End(p)
    /\ UNCHANGED <<kind, row, webp, crashes, history>>

RemoveBlobFails(p) ==
    /\ At(p, "rm_blob")
    /\ leaked' = leaked \cup {file[p]}
    /\ End(p)
    /\ UNCHANGED <<kind, row, disk, crashes, lost, raced, unremoved>>

-----------------------------------------------------------------------------
(* The background job, and a crash of the process. *)

\* Mutant of JobStart: the job does not look whether the row is still there.
JobStartUnchecked(w, f) ==
    /\ job[f] = "queued"
    /\ Begin(w, f, "lookup")
    /\ job' = [job EXCEPT ![f] = w]
    /\ UNCHANGED <<kind, row, disk, view, crashes, history>>

\* A worker fetches a job and finds its row: ProcessAsync runs GetAsWebP.
JobStart(w, f) ==
    /\ job[f] = "queued"
    /\ row[f] = "stored"
    /\ Begin(w, f, "lookup")
    /\ job' = [job EXCEPT ![f] = w]
    /\ UNCHANGED <<kind, row, disk, view, crashes, history>>

\* The row is gone: every attempt fails until River discards the job.
JobDiscard(f) ==
    /\ job[f] = "queued"
    /\ row[f] # "stored"
    /\ job' = [job EXCEPT ![f] = "discarded"]
    /\ UNCHANGED <<kind, row, disk, pc, file, view, crashes, history>>

\* Rows, files and queued jobs survive; River hands a running job out again.
Crash ==
    /\ crashes < MaxCrashes
    /\ crashes' = crashes + 1
    /\ leaked' = leaked \cup {file[p] : p \in {q \in Procs : pc[q] # "idle"}}
    /\ pc' = [p \in Procs |-> "idle"]
    /\ file' = [p \in Procs |-> NoFile]
    /\ view' = [p \in Procs |-> "none"]
    /\ job' = [f \in Files |-> IF job[f] \in Workers THEN "queued" ELSE job[f]]
    /\ UNCHANGED <<kind, row, disk, lost, raced, unremoved>>

-----------------------------------------------------------------------------
UploadStep(p) ==
    \/ SaveDone(p) \/ SaveFails(p) \/ SaveStatFails(p) \/ UploadUndo(p)
    \/ InsertRow(p) \/ InsertReplyLost(p) \/ Enqueue(p) \/ EnqueueFails(p)

WebPStep(p) ==
    \/ WebPHit(p) \/ WebPMiss(p) \/ WebPOpenOriginal(p) \/ WebPConvertFails(p)
    \/ WebPConvert(p) \/ SaveWebPDone(p) \/ SaveWebPFails(p) \/ StreamEnd(p)

DeleteStep(p) ==
    \/ DropRow(p) \/ DropRowFails(p) \/ DropReplyLost(p)
    \/ RemoveWebP(p) \/ RemoveWebPFails(p) \/ RemoveBlob(p) \/ RemoveBlobFails(p)

Step(p) == UploadStep(p) \/ GetOpen(p) \/ WebPStep(p) \/ DeleteStep(p)

Next ==
    \/ \E p \in Requests, f \in Files :
          \/ \E k \in Kinds : UploadStart(p, f, k)
          \/ GetStart(p, f) \/ WebPStart(p, f) \/ DeleteStart(p, f)
    \/ \E p \in Procs : Step(p)
    \/ \E w \in Workers, f \in Files : JobStart(w, f)
    \/ \E f \in Files : JobDiscard(f)
    \/ Crash

Spec == Init /\ [][Next]_vars

\* An operation under way goes on; River keeps handing out queued jobs and
\* gives up on a job whose attempts all fail. Requests owe nothing.
FairSpec ==
    /\ Spec
    /\ \A p \in Procs : WF_vars(Step(p))
    /\ \A f \in Files : WF_vars(JobDiscard(f))
    /\ \A w \in Workers, f \in Files : WF_vars(JobStart(w, f))

-----------------------------------------------------------------------------
(* Properties *)

Quiescent(f) == \A p \in Procs : file[p] # f

\* A row never points at a missing or half-written original, through crashes,
\* failed steps and concurrent deletes: Upload writes the file before the row,
\* Delete drops the row before the file (service/storage.go). The one exception
\* is an INSERT whose reply was lost, after which Upload deletes the file.
RecordHasBlob ==
    \A f \in Files : (row[f] = "stored" /\ f \notin lost) => blob[f] = "full"

\* Whoever got an original open reads all of it, also while the file is being
\* deleted or after an upload of it crashed (Get, storage/storage.go Open).
OriginalServedWhole == \A p \in Procs : pc[p] = "stream" => view[p] # "cut"

\* Nothing is left of a failed upload or a deleted file once its requests have
\* ended, unless a removal failed, a reply was lost or the process crashed.
NoOrphanBlob ==
    \A f \in Files :
        (Quiescent(f) /\ f \notin leaked /\ row[f] # "stored") => blob[f] = "none"

\* Once a deletion has ended the file's derivative is gone for good: readers,
\* failed conversions, jobs and other deletions cannot bring it back. Delete misses
\* it in two ways only: os.Remove fails on it, which is ignored, or a conversion
\* that has passed its SELECT still runs when it is removed (GetAsWebP, Delete).
CacheGoesWithFile ==
    \A f \in Files :
        (Quiescent(f) /\ row[f] = "gone" /\ f \notin leaked \cup raced \cup unremoved)
            => webp[f] = "none"

\* Concurrent conversions that truncate, finish and remove the same path never
\* leave an incomplete derivative behind, unless one of them crashed.
WebPLeftWhole ==
    \A f \in Files :
        (Quiescent(f) /\ f \notin leaked) => webp[f] \in {"none", "full"}

\* A background job ends: it runs, or it is given up when its file is deleted.
JobsEnd ==
    \A f \in Files : job[f] = "queued" ~> job[f] \in {"done", "discarded"}
=============================================================================
