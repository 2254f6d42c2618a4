-------------------------- MODULE FileStorage_proofs --------------------------
(***************************************************************************)
(* Proofs about FileStorage, for any files of any kinds, any requests and  *)
(* workers and any number of crashes.                                      *)
(***************************************************************************)
EXTENDS FileStorage, TLAPS

-----------------------------------------------------------------------------
(* The inductive invariant, in named parts. *)

Uploading == {"saving", "saved"}
Removing == {"rm_webp", "rm_blob"}

\* A process that is not idle works on a file.
BusyHasFile == \A p \in Procs : pc[p] # "idle" => file[p] \in Files

\* Until its row is inserted a file belongs to the one request that uploads it,
\* and it is complete once Save has returned.
UploadOwns ==
    /\ \A p \in Procs : pc[p] \in Uploading => row[file[p]] = "pending"
    /\ \A p, q \in Procs :
          (p # q /\ pc[p] \in Uploading /\ pc[q] \in Uploading) => file[p] # file[q]
    /\ \A p \in Procs : pc[p] = "saved" => blob[file[p]] = "full"

\* Files are removed only when their row is gone, or was never acknowledged.
RemovedAfterRow ==
    \A p \in Procs : pc[p] \in Removing =>
        row[file[p]] = "gone" \/ (row[file[p]] = "stored" /\ file[p] \in lost)

\* Whoever has seen a row opens a complete original, or finds none.
SeenIsWhole ==
    /\ \A p \in Procs : pc[p] = "open" => row[file[p]] \in {"stored", "gone"}
    /\ \A f \in Files : row[f] \in {"stored", "gone"} => blob[f] # "partial"

\* An original without a row has a process that will insert the row or remove
\* the file, unless something failed on the way.
Accounted ==
    \A f \in Files : (blob[f] # "none" /\ f \notin leaked) =>
        \/ row[f] = "stored"
        \/ \E p \in Procs : file[p] = f /\ pc[p] \in Uploading \cup Removing

\* The process that truncated an unfinished derivative last is writing it.
WriterWrites ==
    \A f \in Files : (f \notin leaked /\ webp[f] \notin {"none", "full"}) =>
        \E p \in Procs : p = webp[f] /\ pc[p] = "writing" /\ file[p] = f

\* A row is there before its file is converted, and a conversion of a deleted
\* file was under way when the derivative was removed, or still has to be.
ConvertsSeen ==
    /\ \A p \in Procs : pc[p] \in Converting => row[file[p]] \in {"stored", "gone"}
    /\ \A p \in Procs : (pc[p] \in Converting /\ row[file[p]] = "gone")
                          => \/ file[p] \in leaked \cup raced \cup unremoved
                             \/ \E q \in Procs : file[q] = file[p] /\ pc[q] = "rm_webp"

\* A derivative belongs to a row, or its removal is due.
DerivativeOwned ==
    \A f \in Files : (webp[f] # "none" /\ f \notin leaked \cup raced \cup unremoved) =>
        \/ row[f] = "stored"
        \/ \E p \in Procs : file[p] = f /\ pc[p] = "rm_webp"

IInv ==
    /\ TypeOK
    /\ BusyHasFile
    /\ UploadOwns
    /\ RemovedAfterRow
    /\ RecordHasBlob
    /\ SeenIsWhole
    /\ OriginalServedWhole
    /\ Accounted
    /\ WriterWrites
    /\ ConvertsSeen
    /\ DerivativeOwned

-----------------------------------------------------------------------------
LEMMA InitInv == Init => IInv
BY FileAssumption, CrashAssumption
   DEF Init, IInv, TypeOK, Stages, Views, Kinds, Uploading, Removing, BusyHasFile, UploadOwns,
       RemovedAfterRow, RecordHasBlob, SeenIsWhole, OriginalServedWhole, Accounted,
       WriterWrites, ConvertsSeen, DerivativeOwned, Converting

LEMMA StepInv == IInv /\ [Next]_vars => IInv'
<1> SUFFICES ASSUME IInv, [Next]_vars PROVE IInv'
  OBVIOUS
<1> USE FileAssumption, CrashAssumption, ProcAssumption
    DEF IInv, TypeOK, Stages, Views, disk, history, Procs, Uploading, Removing,
        BusyHasFile, UploadOwns, RemovedAfterRow, RecordHasBlob, SeenIsWhole,
        OriginalServedWhole, Accounted, WriterWrites, ConvertsSeen, DerivativeOwned,
        Converting, Converters, At, Begin, Goto, End
<1>1. ASSUME NEW p \in Requests, NEW f \in Files, NEW k \in Kinds, UploadStart(p, f, k) PROVE IInv'
  BY <1>1 DEF UploadStart
<1>2. ASSUME NEW p \in Requests, NEW f \in Files, GetStart(p, f) PROVE IInv'
  BY <1>2 DEF GetStart
<1>3. ASSUME NEW p \in Requests, NEW f \in Files, WebPStart(p, f) PROVE IInv'
  BY <1>3 DEF WebPStart
<1>4. ASSUME NEW p \in Requests, NEW f \in Files, DeleteStart(p, f) PROVE IInv'
  BY <1>4 DEF DeleteStart
<1>5. ASSUME NEW p \in Procs, SaveDone(p) PROVE IInv'
  BY <1>5 DEF SaveDone
<1>6. ASSUME NEW p \in Procs, SaveFails(p) PROVE IInv'
  BY <1>6 DEF SaveFails
<1>7. ASSUME NEW p \in Procs, SaveStatFails(p) PROVE IInv'
  BY <1>7 DEF SaveStatFails
<1>8. ASSUME NEW p \in Procs, UploadUndo(p) PROVE IInv'
  BY <1>8 DEF UploadUndo
<1>9. ASSUME NEW p \in Procs, InsertRow(p) PROVE IInv'
  <2>1. CASE kind[file[p]] = "other"
    <3>1. TypeOK' /\ BusyHasFile' /\ UploadOwns' /\ RemovedAfterRow'
      BY <1>9, <2>1, SMTT(30) DEF InsertRow
    <3>2. RecordHasBlob' /\ SeenIsWhole' /\ OriginalServedWhole'
      BY <1>9, <2>1, SMTT(30) DEF InsertRow
    <3>3. Accounted'
      BY <1>9, <2>1, SMTT(30) DEF InsertRow
    <3>4. WriterWrites' /\ ConvertsSeen' /\ DerivativeOwned'
      BY <1>9, <2>1, SMTT(30) DEF InsertRow
    <3> QED BY <3>1, <3>2, <3>3, <3>4
  <2>2. CASE kind[file[p]] # "other"
    <3>1. TypeOK' /\ BusyHasFile' /\ UploadOwns' /\ RemovedAfterRow'
      BY <1>9, <2>2, SMTT(30) DEF InsertRow
    <3>2. RecordHasBlob' /\ SeenIsWhole' /\ OriginalServedWhole'
      BY <1>9, <2>2, SMTT(30) DEF InsertRow
    <3>3. Accounted'
      BY <1>9, <2>2, SMTT(30) DEF InsertRow
    <3>4. WriterWrites' /\ ConvertsSeen' /\ DerivativeOwned'
      BY <1>9, <2>2, SMTT(30) DEF InsertRow
    <3> QED BY <3>1, <3>2, <3>3, <3>4
  <2> QED BY <2>1, <2>2
<1>10. ASSUME NEW p \in Procs, InsertReplyLost(p) PROVE IInv'
  BY <1>10 DEF InsertReplyLost
<1>11. ASSUME NEW p \in Procs, Enqueue(p) PROVE IInv'
  BY <1>11 DEF Enqueue
<1>12. ASSUME NEW p \in Procs, EnqueueFails(p) PROVE IInv'
  BY <1>12 DEF EnqueueFails
<1>13. ASSUME NEW p \in Procs, GetOpen(p) PROVE IInv'
  BY <1>13 DEF GetOpen
<1>14. ASSUME NEW p \in Procs, WebPHit(p) PROVE IInv'
  BY <1>14 DEF WebPHit
<1>15. ASSUME NEW p \in Procs, WebPMiss(p) PROVE IInv'
  BY <1>15 DEF WebPMiss
<1>16. ASSUME NEW p \in Procs, WebPOpenOriginal(p) PROVE IInv'
  BY <1>16 DEF WebPOpenOriginal
<1>17. ASSUME NEW p \in Procs, WebPConvertFails(p) PROVE IInv'
  BY <1>17 DEF WebPConvertFails
<1>18. ASSUME NEW p \in Procs, WebPConvert(p) PROVE IInv'
  BY <1>18 DEF WebPConvert, TruncateWebP, OnPath
<1>19. ASSUME NEW p \in Procs, SaveWebPDone(p) PROVE IInv'
  BY <1>19 DEF SaveWebPDone
<1>20. ASSUME NEW p \in Procs, SaveWebPFails(p) PROVE IInv'
  BY <1>20 DEF SaveWebPFails, UnlinkWebP, Unlinked, OnPath
<1>21. ASSUME NEW p \in Procs, StreamEnd(p) PROVE IInv'
  BY <1>21 DEF StreamEnd
<1>22. ASSUME NEW p \in Procs, DropRow(p) PROVE IInv'
  BY <1>22 DEF DropRow
<1>23. ASSUME NEW p \in Procs, DropRowFails(p) PROVE IInv'
  BY <1>23 DEF DropRowFails
<1>24. ASSUME NEW p \in Procs, DropReplyLost(p) PROVE IInv'
  BY <1>24 DEF DropReplyLost
<1>25. ASSUME NEW p \in Procs, RemoveWebP(p) PROVE IInv'
  BY <1>25 DEF RemoveWebP, UnlinkWebP, Unlinked, OnPath
<1>32. ASSUME NEW p \in Procs, RemoveWebPFails(p) PROVE IInv'
  BY <1>32 DEF RemoveWebPFails
<1>26. ASSUME NEW p \in Procs, RemoveBlob(p) PROVE IInv'
  BY <1>26 DEF RemoveBlob
<1>27. ASSUME NEW p \in Procs, RemoveBlobFails(p) PROVE IInv'
  BY <1>27 DEF RemoveBlobFails
<1>28. ASSUME NEW w \in Workers, NEW f \in Files, JobStart(w, f) PROVE IInv'
  BY <1>28 DEF JobStart
<1>29. ASSUME NEW f \in Files, JobDiscard(f) PROVE IInv'
  BY <1>29 DEF JobDiscard
<1>30. CASE Crash
  BY <1>30 DEF Crash
<1>31. CASE UNCHANGED vars
  BY <1>31 DEF vars
<1> HIDE DEF IInv, At, Begin, Goto, End, disk, history, Procs
<1> QED
  BY <1>1, <1>2, <1>3, <1>4, <1>5, <1>6, <1>7, <1>8, <1>9, <1>10, <1>11, <1>12, <1>13, <1>14, <1>15, <1>16, <1>17, <1>18, <1>19, <1>20, <1>21, <1>22, <1>23, <1>24, <1>25, <1>26, <1>27, <1>28, <1>29, <1>30, <1>31, <1>32
     DEF Next, Step, UploadStep, WebPStep, DeleteStep

-----------------------------------------------------------------------------
\* The inductive invariant holds in every reachable state (service/storage.go
\* and storage/storage.go, with failing steps, lost replies and crashes).
THEOREM Invariance == Spec => []IInv
BY InitInv, StepInv, PTL DEF Spec

\* Type correctness of rows, files on disk, jobs and processes.
THEOREM TypeCorrect == Spec => []TypeOK
BY Invariance, PTL DEF IInv

\* A stored row always has its complete original (the order of writes in Upload
\* and Delete), except when the reply to its INSERT was lost.
THEOREM RecordsHaveBlobs == Spec => []RecordHasBlob
BY Invariance, PTL DEF IInv

\* A reader that opened an original reads all of it (Get).
THEOREM OriginalsServedWhole == Spec => []OriginalServedWhole
BY Invariance, PTL DEF IInv

\* Failed uploads and deletions leave no original behind, unless a removal
\* failed, a reply was lost or the process crashed on the way.
THEOREM NoOrphans == Spec => []NoOrphanBlob
<1>1. IInv => NoOrphanBlob
  BY DEF IInv, Accounted, NoOrphanBlob, Quiescent
<1> QED BY <1>1, Invariance, PTL

\* Concurrent conversions leave a complete derivative or none (SaveWebP).
THEOREM DerivativesLeftWhole == Spec => []WebPLeftWhole
<1>1. IInv => WebPLeftWhole
  BY DEF IInv, WriterWrites, WebPLeftWhole, Quiescent
<1> QED BY <1>1, Invariance, PTL

\* A deleted file leaves no derivative, unless its removal failed or a conversion
\* of the file was under way at that moment (Delete, GetAsWebP).
THEOREM CachesGoWithFiles == Spec => []CacheGoesWithFile
<1>1. IInv => CacheGoesWithFile
  BY DEF IInv, DerivativeOwned, CacheGoesWithFile, Quiescent
<1> QED BY <1>1, Invariance, PTL
-----------------------------------------------------------------------------
\* Where a worker is while its job runs.
Running == Converting \cup {"serve"}

\* A job that runs is run by its worker: none is left behind by a worker that
\* has gone on, by a failed conversion or by a crash (the safety part of JobsEnd).
RunningJobsAreRun ==
    \A f \in Files : job[f] \in Workers => file[job[f]] = f /\ pc[job[f]] \in Running

\* A file gets one job, from the request that inserted its row.
OneJobPerFile ==
    /\ \A f \in Files : row[f] \in {"unused", "pending"} => job[f] = "none"
    /\ \A p \in Procs : pc[p] = "enqueue" =>
          job[file[p]] = "none" /\ row[file[p]] \in {"stored", "gone"}
    /\ \A p, q \in Procs :
          p # q /\ pc[p] = "enqueue" /\ pc[q] = "enqueue" => file[p] # file[q]

\* What is added to the inductive invariant for the jobs.
JobsInv == RunningJobsAreRun /\ OneJobPerFile

\* A job that has ended stays ended: it is never enqueued or run again, also not
\* after a crash (queue/queue.go).
EndedJobsStayEnded ==
    [][\A f \in Files : job[f] \in {"done", "discarded"} => job'[f] = job[f]]_vars

\* Every step keeps the jobs, and leaves those alone that have ended.
LEMMA JobsStep ==
    ASSUME IInv, JobsInv, [Next]_vars
    PROVE  /\ JobsInv'
           /\ \A f \in Files : job[f] \in {"done", "discarded"} => job'[f] = job[f]
<1> DEFINE Kept == \A f \in Files : job[f] \in {"done", "discarded"} => job'[f] = job[f]
<1>0. TypeOK /\ BusyHasFile /\ UploadOwns
  BY DEF IInv
<1> USE <1>0, FileAssumption, ProcAssumption
    DEF TypeOK, Stages, disk, history, Procs, Uploading, BusyHasFile, UploadOwns, Converting,
        Running, JobsInv, RunningJobsAreRun, OneJobPerFile, At, Begin, Goto, End
<1>1. ASSUME NEW p \in Requests, NEW f \in Files, NEW k \in Kinds, UploadStart(p, f, k)
      PROVE  JobsInv' /\ Kept
  BY <1>1 DEF UploadStart
<1>2. ASSUME NEW p \in Requests, NEW f \in Files,
             GetStart(p, f) \/ WebPStart(p, f) \/ DeleteStart(p, f)
      PROVE  JobsInv' /\ Kept
  BY <1>2 DEF GetStart, WebPStart, DeleteStart
<1>3. ASSUME NEW p \in Procs, SaveDone(p) \/ SaveFails(p) \/ SaveStatFails(p) \/ UploadUndo(p)
      PROVE  JobsInv' /\ Kept
  BY <1>3 DEF SaveDone, SaveFails, SaveStatFails, UploadUndo
<1>4. ASSUME NEW p \in Procs, InsertRow(p) PROVE JobsInv' /\ Kept
  <2>1. CASE kind[file[p]] = "other"
    BY <1>4, <2>1 DEF InsertRow
  <2>2. CASE kind[file[p]] # "other"
    BY <1>4, <2>2 DEF InsertRow
  <2> QED BY <2>1, <2>2
<1>5. ASSUME NEW p \in Procs, InsertReplyLost(p) PROVE JobsInv' /\ Kept
  BY <1>5 DEF InsertReplyLost
<1>6. ASSUME NEW p \in Procs, Enqueue(p) PROVE JobsInv' /\ Kept
  BY <1>6 DEF Enqueue
<1>7. ASSUME NEW p \in Procs, EnqueueFails(p) PROVE JobsInv' /\ Kept
  BY <1>7 DEF EnqueueFails
<1>8. ASSUME NEW p \in Procs, GetOpen(p) PROVE JobsInv' /\ Kept
  BY <1>8 DEF GetOpen
<1>9. ASSUME NEW p \in Procs, WebPHit(p) \/ WebPMiss(p) PROVE JobsInv' /\ Kept
  BY <1>9 DEF WebPHit, WebPMiss
<1>10. ASSUME NEW p \in Procs, WebPOpenOriginal(p) PROVE JobsInv' /\ Kept
  BY <1>10 DEF WebPOpenOriginal
<1>11. ASSUME NEW p \in Procs, WebPConvert(p) PROVE JobsInv' /\ Kept
  BY <1>11 DEF WebPConvert, TruncateWebP
<1>12. ASSUME NEW p \in Procs, WebPConvertFails(p) \/ SaveWebPDone(p) \/ StreamEnd(p)
       PROVE  JobsInv' /\ Kept
  BY <1>12 DEF WebPConvertFails, SaveWebPDone, StreamEnd
<1>13. ASSUME NEW p \in Procs, SaveWebPFails(p) PROVE JobsInv' /\ Kept
  BY <1>13 DEF SaveWebPFails
<1>14. ASSUME NEW p \in Procs, DropRow(p) \/ DropRowFails(p) \/ DropReplyLost(p)
       PROVE  JobsInv' /\ Kept
  BY <1>14 DEF DropRow, DropRowFails, DropReplyLost
<1>15. ASSUME NEW p \in Procs, RemoveWebP(p) \/ RemoveWebPFails(p) \/ RemoveBlob(p) \/ RemoveBlobFails(p)
       PROVE  JobsInv' /\ Kept
  BY <1>15 DEF RemoveWebP, RemoveWebPFails, RemoveBlob, RemoveBlobFails
<1>16. ASSUME NEW w \in Workers, NEW f \in Files, JobStart(w, f) PROVE JobsInv' /\ Kept
  BY <1>16 DEF JobStart
<1>17. ASSUME NEW f \in Files, JobDiscard(f) PROVE JobsInv' /\ Kept
  BY <1>17 DEF JobDiscard
<1>18. CASE Crash
  BY <1>18 DEF Crash
<1>19. CASE UNCHANGED vars
  BY <1>19 DEF vars
<1> HIDE DEF JobsInv, Kept, At, Begin, Goto, End, disk, history, Procs
<1> QED
  BY <1>1, <1>2, <1>3, <1>4, <1>5, <1>6, <1>7, <1>8, <1>9, <1>10, <1>11, <1>12, <1>13, <1>14,
     <1>15, <1>16, <1>17, <1>18, <1>19 DEF Next, Step, UploadStep, WebPStep, DeleteStep, Kept

\* The jobs of any files, with any requests, workers and crashes: one that runs
\* has its worker at work on it, and one that ended stays ended.
THEOREM JobsAreRunOnce == Spec => []RunningJobsAreRun /\ EndedJobsStayEnded
<1>1. Init => JobsInv
  BY ProcAssumption DEF Init, JobsInv, RunningJobsAreRun, OneJobPerFile, Procs
<1>2. IInv /\ JobsInv /\ [Next]_vars => JobsInv'
  BY JobsStep
<1>3. IInv /\ JobsInv /\ [Next]_vars
        => [\A f \in Files : job[f] \in {"done", "discarded"} => job'[f] = job[f]]_vars
  BY JobsStep
<1>4. JobsInv => RunningJobsAreRun
  BY DEF JobsInv
<1> QED BY <1>1, <1>2, <1>3, <1>4, Invariance, PTL DEF Spec, EndedJobsStayEnded
=============================================================================
