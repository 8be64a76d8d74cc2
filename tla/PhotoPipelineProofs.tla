------------------------- MODULE PhotoPipelineProofs -------------------------
(***************************************************************************)
(* Proofs about the pipeline, for any number of photos, events, requests,  *)
(* attempts and faults: a stored photo has its original, its job is queued *)
(* once, its status only moves on, and a READY photo that is deleted       *)
(* leaves no derivative.                                                   *)
(*                                                                         *)
(* They rest on each other.  A photo that is being processed has its       *)
(* original, so its upload is complete and no abort gets through; so its   *)
(* status leaves PROCESSING for READY or with the row only; so its job,    *)
(* once queued, finds it there, and nobody queues a second.                *)
(***************************************************************************)
EXTENDS PhotoPipelineProps, FiniteSums

ObjectKeys == Derivatives \cup {"original"}
Underway   == {"assemble", "head", "mark", "enqueue", "abort", "fail", "drop", "delete", "cleanup"}

RowsTypeOK ==
    /\ row \in [Photos -> Live \cup {"none", "gone"}]
    /\ original \in [Photos -> {"absent", "right", "wrong"}]
    /\ upload \in [Photos -> {"none", "open", "completed", "aborted"}]

RequestsTypeOK ==
    /\ op \in [Requests -> Underway \cup {"idle"}]
    /\ arg \in [Requests -> Photos \cup {NoPhoto}]

WorkTypeOK == work \in [Photos -> Handling \cup {"none", "pending", "done", "failed", "lost"}]

CleanTypeOK ==
    /\ clean \in [Photos -> {"none", "pending", "running", "done", "failed", "lost"}]
    /\ derived \in [Photos -> SUBSET Derivatives]
    /\ todo \in [Photos -> Seq(ObjectKeys)]
    /\ payload \in [Photos -> Seq(ObjectKeys)]

PipelineTypeOK == RowsTypeOK /\ RequestsTypeOK /\ WorkTypeOK /\ CleanTypeOK

\* A request under way is about a photo that was there; one about an upload
\* in parts, about a large file; one that fails a photo has aborted it.
RequestsOK ==
    \A r \in Requests :
        /\ op[r] # "idle" => arg[r] \in Photos /\ row[arg[r]] # "none"
        /\ op[r] \in {"assemble", "abort", "fail"} => arg[r] \in Multipart
        /\ op[r] = "fail" => upload[arg[r]] = "aborted"

\* A large file's object is made by completing its upload.
UploadsOK ==
    \A p \in Photos :
        /\ p \in Multipart /\ upload[p] # "completed" => original[p] = "absent"
        /\ row[p] = "none" => upload[p] = "none"

\* What was verified stays, and is there when the photo is counted.
VerifiedHasOriginal ==
    \A r \in Requests : op[r] = "mark" => row[arg[r]] = "gone" \/ original[arg[r]] # "absent"

\* What has a job, or is about to be given one, is past UPLOADING for good;
\* what is READY has a job that is done.
Past == {"PROCESSING", "READY", "gone"}
JobsOK ==
    /\ \A r \in Requests : op[r] = "enqueue" => row[arg[r]] \in Past
    /\ \A p \in Photos : work[p] # "none" => row[p] \in Past
    /\ \A p \in Photos : row[p] = "READY" => work[p] = "done"

\* A cleanup is that of a deleted photo.  One that names derivatives names
\* all of them, nothing makes new ones, and those that are left are to do.
Names(keys, k) == \E i \in 1..Len(keys) : keys[i] = k
CleanupsOK ==
    /\ \A r \in Requests : op[r] = "cleanup" => row[arg[r]] = "gone"
    /\ \A p \in Photos : clean[p] # "none" \/ payload[p] # <<>> => row[p] = "gone"
    /\ \A p \in Photos : Len(payload[p]) > 1 =>
          /\ work[p] = "done"
          /\ \A k \in Derivatives : Names(payload[p], k)
          /\ clean[p] = "running" => \A k \in derived[p] : Names(todo[p], k)

IInv ==
    /\ PipelineTypeOK /\ RequestsOK /\ UploadsOK
    /\ VerifiedHasOriginal /\ StoredHasOriginal
    /\ JobsOK /\ SingleEnqueue
    /\ CleanupsOK /\ ReadyPhotoCleanedUp

-----------------------------------------------------------------------------
\* There is nothing at first.
LEMMA InitIInv == Init => IInv
<1>. SUFFICES ASSUME Init PROVE IInv
  OBVIOUS
<1>1. PipelineTypeOK
  BY DEF Init, PipelineTypeOK, RowsTypeOK, RequestsTypeOK, WorkTypeOK, CleanTypeOK
<1>2. RequestsOK /\ UploadsOK /\ VerifiedHasOriginal /\ StoredHasOriginal
  BY DEF Init, RequestsOK, UploadsOK, VerifiedHasOriginal, StoredHasOriginal
<1>3. JobsOK /\ SingleEnqueue /\ CleanupsOK /\ ReadyPhotoCleanedUp
  BY DEF Init, JobsOK, SingleEnqueue, CleanupsOK, ReadyPhotoCleanedUp
<1>. QED BY <1>1, <1>2, <1>3 DEF IInv

\* A step that has nothing to do with cleanups: no photo comes back, no job
\* that is done is taken up again.
CleanupsAside ==
    /\ UNCHANGED <<derived, cleanVars>>
    /\ \A p \in Photos : (row[p] = "gone" => row'[p] = "gone") /\ (work[p] = "done" => work'[p] = "done")
    /\ \A r \in Requests : op'[r] = "cleanup" => op[r] = "cleanup" /\ arg'[r] = arg[r]

\* Such a step leaves everything that is said of cleanups as it is.
LEMMA CleanupsKept ==
  ASSUME IInv, CleanupsAside
  PROVE  CleanTypeOK' /\ CleanupsOK' /\ ReadyPhotoCleanedUp'
<1>1. \A r \in Requests : op[r] # "idle" => arg[r] \in Photos
  BY DEF IInv, RequestsOK
<1>2. CleanTypeOK'
  BY DEF IInv, PipelineTypeOK, CleanTypeOK, CleanupsAside, cleanVars
<1>3. CleanupsOK'
  BY <1>1 DEF IInv, CleanupsOK, CleanupsAside, cleanVars
<1>4. ReadyPhotoCleanedUp'
  BY DEF IInv, ReadyPhotoCleanedUp, CleanupsAside, cleanVars
<1>. QED BY <1>2, <1>3, <1>4

\* A client announces a photo, or puts its object.
LEMMA ClientKeeps ==
  ASSUME IInv, NEW p \in Photos, Initialize(p) \/ PutOriginal(p)
  PROVE  IInv'
<1>. USE DEF IInv, Initialize, PutOriginal,
             rowVars, storeVars, reqVars, workVars, cleanVars
<1>1. RowsTypeOK' /\ RequestsTypeOK'
  BY DEF PipelineTypeOK, RowsTypeOK, RequestsTypeOK, Live
<1>2. WorkTypeOK'
  BY DEF PipelineTypeOK, WorkTypeOK
<1>3. RequestsOK' /\ UploadsOK'
  BY DEF PipelineTypeOK, RowsTypeOK, RequestsOK, UploadsOK
<1>4. VerifiedHasOriginal' /\ StoredHasOriginal'
  BY DEF PipelineTypeOK, RowsTypeOK, RequestsOK, VerifiedHasOriginal, StoredHasOriginal
<1>5. JobsOK' /\ SingleEnqueue'
  BY DEF PipelineTypeOK, RowsTypeOK, RequestsOK, JobsOK, Past, SingleEnqueue
<1>6. CleanupsAside
  BY DEF PipelineTypeOK, RowsTypeOK, CleanupsAside
<1>. QED BY <1>1, <1>2, <1>3, <1>4, <1>5, <1>6, CleanupsKept DEF PipelineTypeOK

\* A request that is let in starts with its first call.
LEMMA ArrivalKeeps ==
  ASSUME IInv, NEW r \in Requests, NEW p \in Photos, Arrival(r, p)
  PROVE  IInv'
<1>. USE DEF IInv, Arrival, AssembleRead, CompleteRead, AbortRead, DeleteRead, Begin,
             rowVars, storeVars, reqVars, workVars, cleanVars
<1>1. RowsTypeOK' /\ RequestsTypeOK'
  BY DEF PipelineTypeOK, RowsTypeOK, RequestsTypeOK, Underway
<1>2. WorkTypeOK'
  BY DEF PipelineTypeOK, WorkTypeOK
<1>3. RequestsOK' /\ UploadsOK'
  BY DEF PipelineTypeOK, RequestsTypeOK, RequestsOK, UploadsOK, Live
<1>4. VerifiedHasOriginal' /\ StoredHasOriginal'
  BY DEF PipelineTypeOK, RequestsTypeOK, VerifiedHasOriginal, StoredHasOriginal
<1>5. JobsOK' /\ SingleEnqueue'
  BY DEF PipelineTypeOK, RequestsTypeOK, JobsOK, SingleEnqueue
<1>6. CleanupsAside
  BY DEF PipelineTypeOK, RequestsTypeOK, CleanupsAside
<1>. QED BY <1>1, <1>2, <1>3, <1>4, <1>5, <1>6, CleanupsKept DEF PipelineTypeOK

\* The store makes the object of an upload that is open.
LEMMA AssembleKeeps ==
  ASSUME IInv, NEW r \in Requests, Assemble(r)
  PROVE  IInv'
<1>. USE DEF IInv, Assemble, Respond,
             rowVars, storeVars, reqVars, workVars, cleanVars
<1>1. RowsTypeOK' /\ RequestsTypeOK'
  BY DEF PipelineTypeOK, RowsTypeOK, RequestsTypeOK
<1>2. WorkTypeOK'
  BY DEF PipelineTypeOK, WorkTypeOK
<1>3. RequestsOK' /\ UploadsOK'
  BY DEF PipelineTypeOK, RowsTypeOK, RequestsTypeOK, RequestsOK, UploadsOK
<1>4. VerifiedHasOriginal' /\ StoredHasOriginal'
  BY DEF PipelineTypeOK, RowsTypeOK, RequestsOK, VerifiedHasOriginal, StoredHasOriginal
<1>5. JobsOK' /\ SingleEnqueue'
  BY DEF JobsOK, SingleEnqueue
<1>6. CleanupsAside
  BY DEF CleanupsAside
<1>. QED BY <1>1, <1>2, <1>3, <1>4, <1>5, <1>6, CleanupsKept DEF PipelineTypeOK

\* The object is verified.
LEMMA HeadObjectKeeps ==
  ASSUME IInv, NEW r \in Requests, HeadObject(r)
  PROVE  IInv'
<1>. USE DEF IInv, HeadObject, Continue, Respond,
             rowVars, storeVars, reqVars, workVars, cleanVars
<1>1. RowsTypeOK' /\ RequestsTypeOK'
  BY DEF PipelineTypeOK, RowsTypeOK, RequestsTypeOK, Underway
<1>2. WorkTypeOK'
  BY DEF PipelineTypeOK, WorkTypeOK
<1>3. RequestsOK' /\ UploadsOK'
  BY DEF PipelineTypeOK, RequestsTypeOK, RequestsOK, UploadsOK
<1>4. VerifiedHasOriginal' /\ StoredHasOriginal'
  BY DEF PipelineTypeOK, RequestsTypeOK, VerifiedHasOriginal, StoredHasOriginal
<1>5. JobsOK' /\ SingleEnqueue'
  BY DEF PipelineTypeOK, RequestsTypeOK, JobsOK, SingleEnqueue
<1>6. CleanupsAside
  BY DEF PipelineTypeOK, RequestsTypeOK, CleanupsAside
<1>. QED BY <1>1, <1>2, <1>3, <1>4, <1>5, <1>6, CleanupsKept DEF PipelineTypeOK

\* A photo that was UPLOADING has no job, nor has a request that would queue one.
LEMMA MarkProcessingKeeps ==
  ASSUME IInv, NEW r \in Requests, MarkProcessing(r)
  PROVE  IInv'
<1>. USE DEF IInv, MarkProcessing, Count, Continue, Respond,
             rowVars, storeVars, reqVars, workVars, cleanVars
<1>1. RowsTypeOK' /\ RequestsTypeOK'
  BY DEF PipelineTypeOK, RowsTypeOK, RequestsTypeOK, Live, Underway
<1>2. WorkTypeOK'
  BY DEF PipelineTypeOK, WorkTypeOK
<1>3. RequestsOK' /\ UploadsOK'
  BY DEF PipelineTypeOK, RowsTypeOK, RequestsTypeOK, RequestsOK, UploadsOK
<1>4. VerifiedHasOriginal' /\ StoredHasOriginal'
  BY DEF PipelineTypeOK, RowsTypeOK, RequestsTypeOK, RequestsOK, VerifiedHasOriginal, StoredHasOriginal
<1>5. JobsOK' /\ SingleEnqueue'
  BY DEF PipelineTypeOK, RowsTypeOK, RequestsTypeOK, RequestsOK, JobsOK, Past, SingleEnqueue
<1>6. CleanupsAside
  BY DEF PipelineTypeOK, RowsTypeOK, RequestsTypeOK, CleanupsAside
<1>. QED BY <1>1, <1>2, <1>3, <1>4, <1>5, <1>6, CleanupsKept DEF PipelineTypeOK

\* The one request that moved a photo queues its job.
LEMMA EnqueueProcessPhotoKeeps ==
  ASSUME IInv, NEW r \in Requests, EnqueueProcessPhoto(r)
  PROVE  IInv'
<1>. USE DEF IInv, EnqueueProcessPhoto, Respond,
             rowVars, storeVars, reqVars, workVars, cleanVars
<1>1. RowsTypeOK' /\ RequestsTypeOK'
  BY DEF PipelineTypeOK, RowsTypeOK, RequestsTypeOK
<1>2. WorkTypeOK'
  BY DEF PipelineTypeOK, WorkTypeOK
<1>3. RequestsOK' /\ UploadsOK'
  BY DEF PipelineTypeOK, RequestsTypeOK, RequestsOK, UploadsOK
<1>4. VerifiedHasOriginal' /\ StoredHasOriginal'
  BY DEF VerifiedHasOriginal, StoredHasOriginal
<1>5. JobsOK' /\ SingleEnqueue'
  BY DEF PipelineTypeOK, RequestsTypeOK, JobsOK, SingleEnqueue
<1>6. CleanupsAside
  BY DEF CleanupsAside, SingleEnqueue
<1>. QED BY <1>1, <1>2, <1>3, <1>4, <1>5, <1>6, CleanupsKept DEF PipelineTypeOK

\* Only an open upload is aborted, so its photo has no original.
LEMMA AbortStoreKeeps ==
  ASSUME IInv, NEW r \in Requests, AbortStore(r)
  PROVE  IInv'
<1>. USE DEF IInv, AbortStore, Continue, Respond,
             rowVars, storeVars, reqVars, workVars, cleanVars
<1>1. RowsTypeOK' /\ RequestsTypeOK'
  BY DEF PipelineTypeOK, RowsTypeOK, RequestsTypeOK, Underway
<1>2. WorkTypeOK'
  BY DEF PipelineTypeOK, WorkTypeOK
<1>3. RequestsOK' /\ UploadsOK'
  BY DEF PipelineTypeOK, RowsTypeOK, RequestsTypeOK, RequestsOK, UploadsOK
<1>4. VerifiedHasOriginal' /\ StoredHasOriginal'
  BY DEF PipelineTypeOK, RequestsTypeOK, VerifiedHasOriginal, StoredHasOriginal
<1>5. JobsOK' /\ SingleEnqueue'
  BY DEF PipelineTypeOK, RequestsTypeOK, JobsOK, SingleEnqueue
<1>6. CleanupsAside
  BY DEF PipelineTypeOK, RequestsTypeOK, CleanupsAside
<1>. QED BY <1>1, <1>2, <1>3, <1>4, <1>5, <1>6, CleanupsKept DEF PipelineTypeOK

\* What was aborted is not being processed, so the row goes from UPLOADING only.
LEMMA MarkFailedKeeps ==
  ASSUME IInv, NEW r \in Requests, MarkFailed(r)
  PROVE  IInv'
<1>. USE DEF IInv, MarkFailed, Respond,
             rowVars, storeVars, reqVars, workVars, cleanVars
<1>0. /\ arg[r] \in Photos /\ row[arg[r]] \notin {"PROCESSING", "READY"}
      /\ row' = [row EXCEPT ![arg[r]] = IF row[arg[r]] \in {"UPLOADING", "FAILED"} THEN "FAILED" ELSE row[arg[r]]]
      /\ op' = [op EXCEPT ![r] = "idle"] /\ arg' = [arg EXCEPT ![r] = NoPhoto]
  BY DEF RequestsOK, UploadsOK, StoredHasOriginal, Live
<1>1. RowsTypeOK' /\ RequestsTypeOK'
  BY DEF PipelineTypeOK, RowsTypeOK, RequestsTypeOK, Live
<1>2. WorkTypeOK'
  BY DEF PipelineTypeOK, WorkTypeOK
<1>3. RequestsOK' /\ UploadsOK'
  BY DEF PipelineTypeOK, RequestsTypeOK, RequestsOK, UploadsOK
<1>4. VerifiedHasOriginal' /\ StoredHasOriginal'
  BY <1>0 DEF VerifiedHasOriginal, StoredHasOriginal
<1>5. JobsOK' /\ SingleEnqueue'
  BY <1>0 DEF JobsOK, Past, SingleEnqueue
<1>6. CleanupsAside
  BY <1>0 DEF CleanupsAside
<1>. QED BY <1>1, <1>2, <1>3, <1>4, <1>5, <1>6, CleanupsKept DEF PipelineTypeOK

\* Dropping an upload on the way to a delete.
LEMMA DropUploadKeeps ==
  ASSUME IInv, NEW r \in Requests, DropUpload(r)
  PROVE  IInv'
<1>. USE DEF IInv, DropUpload, Fault, Continue,
             rowVars, storeVars, reqVars, workVars, cleanVars
<1>1. RowsTypeOK' /\ RequestsTypeOK'
  BY DEF PipelineTypeOK, RowsTypeOK, RequestsTypeOK, Underway
<1>2. WorkTypeOK'
  BY DEF PipelineTypeOK, WorkTypeOK
<1>3. RequestsOK' /\ UploadsOK'
  BY DEF PipelineTypeOK, RowsTypeOK, RequestsOK, UploadsOK
<1>4. VerifiedHasOriginal' /\ StoredHasOriginal'
  BY DEF VerifiedHasOriginal, StoredHasOriginal
<1>5. JobsOK' /\ SingleEnqueue'
  BY DEF JobsOK, SingleEnqueue
<1>6. CleanupsAside
  BY DEF CleanupsAside
<1>. QED BY <1>1, <1>2, <1>3, <1>4, <1>5, <1>6, CleanupsKept DEF PipelineTypeOK

\* The keys a row names: its derivatives only if it is READY, then all of them.
LEMMA RowKeysNamed ==
  ASSUME NEW p \in Photos
  PROVE  /\ RowKeys(p) \in Seq(ObjectKeys)
         /\ Len(RowKeys(p)) > 1 => row[p] = "READY" /\ \A k \in Derivatives : Names(RowKeys(p), k)
<1>1. CASE row[p] = "READY"
  <2>1. RowKeys(p) = <<"original", "thumbnail", "medium", "optimized">>
    BY <1>1 DEF RowKeys
  <2>2. Names(RowKeys(p), "thumbnail") /\ Names(RowKeys(p), "medium") /\ Names(RowKeys(p), "optimized")
    BY <2>1 DEF Names
  <2>3. RowKeys(p) \in Seq(ObjectKeys)
    BY <2>1 DEF ObjectKeys, Derivatives
  <2>4. \A k \in Derivatives : Names(RowKeys(p), k)
    BY <2>2 DEF Derivatives
  <2>. QED BY <1>1, <2>3, <2>4
<1>2. CASE row[p] # "READY"
  <2>1. RowKeys(p) = <<"original">>
    BY <1>2 DEF RowKeys
  <2>2. RowKeys(p) \in Seq(ObjectKeys) /\ Len(RowKeys(p)) = 1
    BY <2>1 DEF ObjectKeys
  <2>. QED BY <2>2
<1>. QED BY <1>1, <1>2

\* A READY row is deleted with all its keys, and its job is done; no other
\* row names a derivative.
LEMMA DeleteOwnedKeeps ==
  ASSUME IInv, NEW r \in Requests, DeleteOwned(r)
  PROVE  IInv'
<1>. USE DEF IInv, DeleteOwned, Uncount, Continue, Respond,
             rowVars, storeVars, reqVars, workVars, cleanVars
<1>0. /\ arg[r] \in Photos /\ RowKeys(arg[r]) \in Seq(ObjectKeys)
      /\ \A q \in Requests : op[q] # "idle" => arg[q] \in Photos
  BY RowKeysNamed DEF RequestsOK
<1>1. RowsTypeOK' /\ RequestsTypeOK'
  BY DEF PipelineTypeOK, RowsTypeOK, RequestsTypeOK, Underway
<1>2. WorkTypeOK'
  BY DEF PipelineTypeOK, WorkTypeOK
<1>3. RequestsOK' /\ UploadsOK'
  BY DEF PipelineTypeOK, RowsTypeOK, RequestsTypeOK, RequestsOK, UploadsOK
<1>4. VerifiedHasOriginal' /\ StoredHasOriginal'
  BY DEF PipelineTypeOK, RowsTypeOK, RequestsTypeOK, RequestsOK, VerifiedHasOriginal, StoredHasOriginal
<1>5. JobsOK' /\ SingleEnqueue'
  BY DEF PipelineTypeOK, RowsTypeOK, RequestsTypeOK, RequestsOK, JobsOK, Past, SingleEnqueue
<1>6. CleanTypeOK'
  BY <1>0 DEF PipelineTypeOK, CleanTypeOK
<1>7. CleanupsOK'
  <2>1. CASE row[arg[r]] = "gone"
    BY <1>0, <2>1 DEF PipelineTypeOK, RequestsTypeOK, CleanupsOK
  <2>2. CASE row[arg[r]] # "gone"
    <3>1. /\ clean[arg[r]] = "none" /\ row' = [row EXCEPT ![arg[r]] = "gone"]
          /\ payload' = [payload EXCEPT ![arg[r]] = RowKeys(arg[r])]
      BY <1>0, <2>2 DEF CleanupsOK
    <3>2. Len(RowKeys(arg[r])) > 1 => work[arg[r]] = "done" /\ \A k \in Derivatives : Names(RowKeys(arg[r]), k)
      BY <1>0, RowKeysNamed DEF JobsOK
    <3>. QED BY <1>0, <2>2, <3>1, <3>2 DEF PipelineTypeOK, RowsTypeOK, RequestsTypeOK, CleanTypeOK, CleanupsOK, RequestsOK
  <2>. QED BY <2>1, <2>2
<1>8. ReadyPhotoCleanedUp'
  BY DEF PipelineTypeOK, CleanTypeOK, CleanupsOK, ReadyPhotoCleanedUp
<1>. QED BY <1>1, <1>2, <1>3, <1>4, <1>5, <1>6, <1>7, <1>8 DEF PipelineTypeOK

\* The cleanup of a deleted photo is queued.
LEMMA EnqueueCleanupKeeps ==
  ASSUME IInv, NEW r \in Requests, EnqueueObjectCleanup(r)
  PROVE  IInv'
<1>. USE DEF IInv, EnqueueObjectCleanup, Respond,
             rowVars, storeVars, reqVars, workVars, cleanVars
<1>1. RowsTypeOK' /\ RequestsTypeOK'
  BY DEF PipelineTypeOK, RowsTypeOK, RequestsTypeOK
<1>2. WorkTypeOK'
  BY DEF PipelineTypeOK, WorkTypeOK
<1>3. RequestsOK' /\ UploadsOK'
  BY DEF PipelineTypeOK, RequestsTypeOK, RequestsOK, UploadsOK
<1>4. VerifiedHasOriginal' /\ StoredHasOriginal'
  BY DEF VerifiedHasOriginal, StoredHasOriginal
<1>5. JobsOK' /\ SingleEnqueue'
  BY DEF JobsOK, SingleEnqueue
<1>6. CleanTypeOK'
  BY DEF PipelineTypeOK, CleanTypeOK
<1>7. CleanupsOK'
  BY DEF PipelineTypeOK, RequestsTypeOK, CleanupsOK
<1>8. ReadyPhotoCleanedUp'
  BY DEF ReadyPhotoCleanedUp
<1>. QED BY <1>1, <1>2, <1>3, <1>4, <1>5, <1>6, <1>7, <1>8 DEF PipelineTypeOK

\* A request that fails leaves what it has done.
LEMMA RequestFailsKeeps ==
  ASSUME IInv, NEW r \in Requests, RequestFails(r)
  PROVE  IInv'
<1>. USE DEF IInv, RequestFails, Fault, Respond,
             rowVars, storeVars, reqVars, workVars, cleanVars
<1>1. RowsTypeOK' /\ RequestsTypeOK'
  BY DEF PipelineTypeOK, RowsTypeOK, RequestsTypeOK
<1>2. WorkTypeOK'
  BY DEF PipelineTypeOK, WorkTypeOK
<1>3. RequestsOK' /\ UploadsOK'
  BY DEF PipelineTypeOK, RequestsTypeOK, RequestsOK, UploadsOK
<1>4. VerifiedHasOriginal' /\ StoredHasOriginal'
  BY DEF PipelineTypeOK, RequestsTypeOK, VerifiedHasOriginal, StoredHasOriginal
<1>5. JobsOK' /\ SingleEnqueue'
  BY DEF PipelineTypeOK, RequestsTypeOK, JobsOK, SingleEnqueue
<1>6. CleanupsAside
  BY DEF PipelineTypeOK, RequestsTypeOK, CleanupsAside
<1>. QED BY <1>1, <1>2, <1>3, <1>4, <1>5, <1>6, CleanupsKept DEF PipelineTypeOK

\* The sweep fails photos that are UPLOADING, which have no job.
LEMMA SweepKeeps ==
  ASSUME IInv, FailStaleUploads
  PROVE  IInv'
<1>. USE DEF IInv, FailStaleUploads,
             rowVars, storeVars, reqVars, workVars, cleanVars
<1>1. RowsTypeOK' /\ RequestsTypeOK'
  BY DEF PipelineTypeOK, RowsTypeOK, RequestsTypeOK, Live
<1>2. WorkTypeOK'
  BY DEF PipelineTypeOK, WorkTypeOK
<1>3. RequestsOK' /\ UploadsOK'
  BY DEF RequestsOK, UploadsOK
<1>4. VerifiedHasOriginal' /\ StoredHasOriginal'
  BY DEF RequestsOK, VerifiedHasOriginal, StoredHasOriginal
<1>5. JobsOK' /\ SingleEnqueue'
  BY DEF RequestsOK, JobsOK, Past, SingleEnqueue
<1>6. CleanupsAside
  BY DEF CleanupsAside
<1>. QED BY <1>1, <1>2, <1>3, <1>4, <1>5, <1>6, CleanupsKept DEF PipelineTypeOK

\* The processor reads, fails or is lost.
LEMMA WorkKeeps ==
  ASSUME IInv, NEW p \in Photos, WorkLoad(p) \/ WorkGet(p) \/ WorkError(p)
  PROVE  IInv'
<1>. USE DEF IInv, WorkLoad, WorkGet, WorkError, WorkGoesTo, WorkFails, Attempted, Fault,
             rowVars, storeVars, reqVars, workVars, cleanVars
<1>1. RowsTypeOK' /\ RequestsTypeOK'
  BY DEF PipelineTypeOK, RowsTypeOK, RequestsTypeOK
<1>2. WorkTypeOK'
  BY DEF PipelineTypeOK, WorkTypeOK, Handling, Derivatives
<1>3. RequestsOK' /\ UploadsOK'
  BY DEF RequestsOK, UploadsOK
<1>4. VerifiedHasOriginal' /\ StoredHasOriginal'
  BY DEF VerifiedHasOriginal, StoredHasOriginal
<1>5. JobsOK' /\ SingleEnqueue'
  BY DEF PipelineTypeOK, WorkTypeOK, RequestsOK, JobsOK, SingleEnqueue, Handling, Derivatives
<1>6. CleanupsAside
  BY DEF PipelineTypeOK, WorkTypeOK, CleanupsAside, Handling, Derivatives
<1>. QED BY <1>1, <1>2, <1>3, <1>4, <1>5, <1>6, CleanupsKept DEF PipelineTypeOK

\* A derivative is put by a job that is not done, so no cleanup names it.
LEMMA WorkPutKeeps ==
  ASSUME IInv, NEW p \in Photos, WorkPut(p)
  PROVE  IInv'
<1>. USE DEF IInv, WorkPut, WorkGoesTo, AfterDerivative, Derivatives,
             rowVars, storeVars, reqVars, workVars, cleanVars
<1>1. RowsTypeOK' /\ RequestsTypeOK'
  BY DEF PipelineTypeOK, RowsTypeOK, RequestsTypeOK
<1>2. WorkTypeOK'
  BY DEF PipelineTypeOK, WorkTypeOK, Handling
<1>3. RequestsOK' /\ UploadsOK'
  BY DEF RequestsOK, UploadsOK
<1>4. VerifiedHasOriginal' /\ StoredHasOriginal'
  BY DEF VerifiedHasOriginal, StoredHasOriginal
<1>5. JobsOK' /\ SingleEnqueue'
  BY DEF JobsOK, SingleEnqueue
<1>6. CleanTypeOK'
  BY DEF PipelineTypeOK, CleanTypeOK
<1>7. CleanupsOK'
  BY DEF CleanupsOK
<1>8. ReadyPhotoCleanedUp'
  BY DEF CleanupsOK, ReadyPhotoCleanedUp
<1>. QED BY <1>1, <1>2, <1>3, <1>4, <1>5, <1>6, <1>7, <1>8 DEF PipelineTypeOK

\* A photo becomes READY as its job is done.
LEMMA MarkReadyKeeps ==
  ASSUME IInv, NEW p \in Photos, MarkReady(p)
  PROVE  IInv'
<1>. USE DEF IInv, MarkReady, WorkGoesTo, WorkFails, Attempted,
             rowVars, storeVars, reqVars, workVars, cleanVars
<1>1. RowsTypeOK' /\ RequestsTypeOK'
  BY DEF PipelineTypeOK, RowsTypeOK, RequestsTypeOK, Live
<1>2. WorkTypeOK'
  BY DEF PipelineTypeOK, WorkTypeOK
<1>3. RequestsOK' /\ UploadsOK'
  BY DEF PipelineTypeOK, RowsTypeOK, RequestsOK, UploadsOK
<1>4. VerifiedHasOriginal' /\ StoredHasOriginal'
  BY DEF PipelineTypeOK, RowsTypeOK, RequestsOK, VerifiedHasOriginal, StoredHasOriginal, JobsOK, Past
<1>5. JobsOK' /\ SingleEnqueue'
  BY DEF PipelineTypeOK, RowsTypeOK, WorkTypeOK, RequestsOK, JobsOK, Past, SingleEnqueue
<1>6. CleanupsAside
  BY DEF PipelineTypeOK, RowsTypeOK, WorkTypeOK, CleanupsAside
<1>. QED BY <1>1, <1>2, <1>3, <1>4, <1>5, <1>6, CleanupsKept DEF PipelineTypeOK

\* A cleanup starts with all its keys.
LEMMA CleanStartKeeps ==
  ASSUME IInv, NEW p \in Photos, CleanStart(p)
  PROVE  IInv'
<1>. USE DEF IInv, CleanStart,
             rowVars, storeVars, reqVars, workVars, cleanVars
<1>1. RowsTypeOK' /\ RequestsTypeOK'
  BY DEF PipelineTypeOK, RowsTypeOK, RequestsTypeOK
<1>2. WorkTypeOK'
  BY DEF PipelineTypeOK, WorkTypeOK
<1>3. RequestsOK' /\ UploadsOK'
  BY DEF RequestsOK, UploadsOK
<1>4. VerifiedHasOriginal' /\ StoredHasOriginal'
  BY DEF VerifiedHasOriginal, StoredHasOriginal
<1>5. JobsOK' /\ SingleEnqueue'
  BY DEF JobsOK, SingleEnqueue
<1>6. CleanTypeOK'
  BY DEF PipelineTypeOK, CleanTypeOK
<1>7. CleanupsOK'
  BY DEF PipelineTypeOK, CleanTypeOK, CleanupsOK
<1>8. ReadyPhotoCleanedUp'
  BY DEF ReadyPhotoCleanedUp
<1>. QED BY <1>1, <1>2, <1>3, <1>4, <1>5, <1>6, <1>7, <1>8 DEF PipelineTypeOK

\* What a cleanup has taken off its list is gone from the store.
LEMMA CleanDeleteKeeps ==
  ASSUME IInv, NEW p \in Photos, CleanDelete(p)
  PROVE  IInv'
<1>. USE DEF IInv, CleanDelete,
             rowVars, storeVars, reqVars, workVars, cleanVars
<1>0. /\ Tail(todo[p]) \in Seq(ObjectKeys)
      /\ \A k \in derived[p] \ {Head(todo[p])} : Names(todo[p], k) => Names(Tail(todo[p]), k)
      /\ derived' = [derived EXCEPT ![p] = @ \ {Head(todo[p])}]
  <2>1. todo[p] \in Seq(ObjectKeys) /\ todo[p] # <<>>
    BY DEF PipelineTypeOK, CleanTypeOK
  <2>2. ASSUME NEW k \in derived[p], k # Head(todo[p]), Names(todo[p], k)
        PROVE  Names(Tail(todo[p]), k)
    <3>1. PICK i \in 1..Len(todo[p]) : todo[p][i] = k
      BY <2>2 DEF Names
    <3>2. i # 1 /\ i - 1 \in 1..Len(Tail(todo[p])) /\ Tail(todo[p])[i - 1] = k
      BY <2>1, <2>2, <3>1
    <3>. QED BY <3>2 DEF Names
  <2>3. derived[p] \subseteq Derivatives
    BY DEF PipelineTypeOK, CleanTypeOK
  <2>4. "original" \notin derived[p]
    BY <2>3 DEF Derivatives
  <2>5. ASSUME Head(todo[p]) = "original"
        PROVE  derived = [derived EXCEPT ![p] = @ \ {Head(todo[p])}]
    BY <2>4, <2>5 DEF PipelineTypeOK, CleanTypeOK
  <2>6. derived' = [derived EXCEPT ![p] = @ \ {Head(todo[p])}]
    BY <2>5
  <2>7. \A s \in Seq(ObjectKeys) : s # <<>> => Tail(s) \in Seq(ObjectKeys)
    OBVIOUS
  <2>. QED BY <2>1, <2>2, <2>6, <2>7
<1>1. RowsTypeOK' /\ RequestsTypeOK'
  BY DEF PipelineTypeOK, RowsTypeOK, RequestsTypeOK
<1>2. WorkTypeOK'
  BY DEF PipelineTypeOK, WorkTypeOK
<1>3. RequestsOK' /\ UploadsOK'
  BY DEF PipelineTypeOK, RowsTypeOK, RequestsOK, UploadsOK
<1>4. VerifiedHasOriginal' /\ StoredHasOriginal'
  BY DEF PipelineTypeOK, RowsTypeOK, RequestsOK, VerifiedHasOriginal, StoredHasOriginal, CleanupsOK
<1>5. JobsOK' /\ SingleEnqueue'
  BY DEF JobsOK, SingleEnqueue
<1>6. CleanTypeOK'
  BY <1>0 DEF PipelineTypeOK, CleanTypeOK
<1>7. CleanupsOK'
  BY <1>0 DEF PipelineTypeOK, CleanTypeOK, CleanupsOK
<1>8. ReadyPhotoCleanedUp'
  BY DEF PipelineTypeOK, CleanTypeOK, ReadyPhotoCleanedUp
<1>. QED BY <1>1, <1>2, <1>3, <1>4, <1>5, <1>6, <1>7, <1>8 DEF PipelineTypeOK

\* With nothing left to do nothing is left.
LEMMA CleanDoneKeeps ==
  ASSUME IInv, NEW p \in Photos, CleanDone(p)
  PROVE  IInv'
<1>. USE DEF IInv, CleanDone,
             rowVars, storeVars, reqVars, workVars, cleanVars
<1>1. RowsTypeOK' /\ RequestsTypeOK'
  BY DEF PipelineTypeOK, RowsTypeOK, RequestsTypeOK
<1>2. WorkTypeOK'
  BY DEF PipelineTypeOK, WorkTypeOK
<1>3. RequestsOK' /\ UploadsOK'
  BY DEF RequestsOK, UploadsOK
<1>4. VerifiedHasOriginal' /\ StoredHasOriginal'
  BY DEF VerifiedHasOriginal, StoredHasOriginal
<1>5. JobsOK' /\ SingleEnqueue'
  BY DEF JobsOK, SingleEnqueue
<1>6. CleanTypeOK'
  BY DEF PipelineTypeOK, CleanTypeOK
<1>7. CleanupsOK'
  BY DEF CleanupsOK
<1>8. ReadyPhotoCleanedUp'
  <2>1. Len(payload[p]) > 1 => derived[p] = {}
    BY DEF CleanupsOK, Names
  <2>. QED BY <2>1 DEF PipelineTypeOK, CleanTypeOK, ReadyPhotoCleanedUp
<1>. QED BY <1>1, <1>2, <1>3, <1>4, <1>5, <1>6, <1>7, <1>8 DEF PipelineTypeOK

\* A cleanup that fails is started again with all its keys, or not at all.
LEMMA CleanErrorKeeps ==
  ASSUME IInv, NEW p \in Photos, CleanError(p)
  PROVE  IInv'
<1>. USE DEF IInv, CleanError, Attempted, Fault,
             rowVars, storeVars, reqVars, workVars, cleanVars
<1>1. RowsTypeOK' /\ RequestsTypeOK'
  BY DEF PipelineTypeOK, RowsTypeOK, RequestsTypeOK
<1>2. WorkTypeOK'
  BY DEF PipelineTypeOK, WorkTypeOK
<1>3. RequestsOK' /\ UploadsOK'
  BY DEF RequestsOK, UploadsOK
<1>4. VerifiedHasOriginal' /\ StoredHasOriginal'
  BY DEF VerifiedHasOriginal, StoredHasOriginal
<1>5. JobsOK' /\ SingleEnqueue'
  BY DEF JobsOK, SingleEnqueue
<1>6. CleanTypeOK'
  <2>1. <<>> \in Seq(ObjectKeys)
    OBVIOUS
  <2>. QED BY <2>1 DEF PipelineTypeOK, CleanTypeOK
<1>7. CleanupsOK'
  BY DEF PipelineTypeOK, CleanTypeOK, CleanupsOK
<1>8. ReadyPhotoCleanedUp'
  BY DEF PipelineTypeOK, CleanTypeOK, ReadyPhotoCleanedUp
<1>. QED BY <1>1, <1>2, <1>3, <1>4, <1>5, <1>6, <1>7, <1>8 DEF PipelineTypeOK

LEMMA NextIInv == IInv /\ [Next]_vars => IInv'
<1>. SUFFICES ASSUME IInv, [Next]_vars PROVE IInv'
  OBVIOUS
<1>1. CASE \E p \in Photos : Initialize(p) \/ PutOriginal(p)
  BY <1>1, ClientKeeps
<1>2. CASE \E p \in Photos : WorkStep(p) \/ WorkError(p)
  BY <1>2, WorkKeeps, WorkPutKeeps, MarkReadyKeeps DEF WorkStep
<1>3. CASE \E p \in Photos : CleanStep(p) \/ CleanError(p)
  BY <1>3, CleanStartKeeps, CleanDeleteKeeps, CleanDoneKeeps, CleanErrorKeeps DEF CleanStep
<1>4. CASE \E r \in Requests, p \in Photos : Arrival(r, p)
  BY <1>4, ArrivalKeeps
<1>5. CASE \E r \in Requests : RequestStep(r) \/ RequestFails(r)
  BY <1>5, AssembleKeeps, HeadObjectKeeps, MarkProcessingKeeps, EnqueueProcessPhotoKeeps, AbortStoreKeeps,
     MarkFailedKeeps, DropUploadKeeps, DeleteOwnedKeeps, EnqueueCleanupKeeps, RequestFailsKeeps DEF RequestStep
<1>6. CASE FailStaleUploads
  BY <1>6, SweepKeeps
<1>7. CASE UNCHANGED vars
  <2>1. PipelineTypeOK' /\ RequestsOK' /\ UploadsOK' /\ VerifiedHasOriginal' /\ StoredHasOriginal' /\ JobsOK' /\ SingleEnqueue'
    BY <1>7 DEF IInv, vars, PipelineTypeOK, RowsTypeOK, RequestsTypeOK, WorkTypeOK, CleanTypeOK, RequestsOK,
           UploadsOK, VerifiedHasOriginal, StoredHasOriginal, JobsOK, SingleEnqueue
  <2>2. CleanupsAside
    BY <1>7 DEF vars, CleanupsAside, cleanVars
  <2>. QED BY <2>1, <2>2, CleanupsKept DEF IInv
<1>. QED BY <1>1, <1>2, <1>3, <1>4, <1>5, <1>6, <1>7 DEF Next

LEMMA Invariance == Spec => []IInv
<1>. QED BY InitIInv, NextIInv, PTL DEF Spec

-----------------------------------------------------------------------------
\* A photo that is counted has its original in the store.
THEOREM OriginalStays == Spec => []StoredHasOriginal
<1>1. IInv => StoredHasOriginal
  BY DEF IInv
<1>. QED BY <1>1, Invariance, PTL

\* The job of a photo is queued once.
THEOREM QueuedOnce == Spec => []SingleEnqueue
<1>1. IInv => SingleEnqueue
  BY DEF IInv
<1>. QED BY <1>1, Invariance, PTL

\* Once the cleanup of a photo that was READY is done, no derivative is left.
THEOREM NothingLeft == Spec => []ReadyPhotoCleanedUp
<1>1. IInv => ReadyPhotoCleanedUp
  BY DEF IInv
<1>. QED BY <1>1, Invariance, PTL

\* What the code does: nothing makes a photo FAILED but its upload.
OnlyForward(p) == row'[p] # row[p] =>
    <<row[p], row'[p]>> \in {<<"none", "UPLOADING">>, <<"UPLOADING", "PROCESSING">>, <<"PROCESSING", "READY">>,
                             <<"UPLOADING", "FAILED">>} \cup (Live \X {"gone"})

LEMMA RequestForward ==
  ASSUME IInv, NEW r \in Requests, RequestStep(r) \/ RequestFails(r), NEW p \in Photos
  PROVE  OnlyForward(p)
<1>1. CASE MarkProcessing(r)
  BY <1>1 DEF IInv, PipelineTypeOK, RowsTypeOK, MarkProcessing, rowVars, OnlyForward
<1>2. CASE MarkFailed(r)
  <2>1. row[arg[r]] \notin {"PROCESSING", "READY"}
    BY <1>2 DEF MarkFailed, IInv, RequestsOK, UploadsOK, StoredHasOriginal
  <2>2. row'[p] # row[p] => p = arg[r] /\ row[p] = "UPLOADING" /\ row'[p] = "FAILED"
    BY <1>2, <2>1 DEF MarkFailed, Live
  <2>. QED BY <2>2 DEF OnlyForward
<1>3. CASE DeleteOwned(r)
  <2>1. row'[p] # row[p] => row[p] \in Live /\ row'[p] = "gone"
    BY <1>3 DEF DeleteOwned, IInv, PipelineTypeOK, RowsTypeOK, RequestsOK, rowVars
  <2>. QED BY <2>1 DEF OnlyForward
<1>4. CASE row' = row
  BY <1>4 DEF OnlyForward
<1>. QED BY <1>1, <1>2, <1>3, <1>4 DEF RequestStep, RequestFails, Assemble, HeadObject, EnqueueProcessPhoto, AbortStore,
            DropUpload, EnqueueObjectCleanup, rowVars

LEMMA StepForward ==
  ASSUME IInv, [Next]_vars, NEW p \in Photos
  PROVE  OnlyForward(p)
<1>1. CASE \E q \in Photos : Initialize(q)
  BY <1>1 DEF Initialize, OnlyForward
<1>2. CASE \E q \in Photos : MarkReady(q)
  <2>1. PICK q \in Photos : MarkReady(q)
    BY <1>2
  <2>2. row[q] \in Past
    BY <2>1 DEF MarkReady, IInv, JobsOK
  <2>3. row'[p] # row[p] => row[p] = "PROCESSING" /\ row'[p] = "READY"
    BY <2>1, <2>2 DEF MarkReady, IInv, PipelineTypeOK, RowsTypeOK, Past
  <2>. QED BY <2>3 DEF OnlyForward
<1>3. CASE FailStaleUploads
  BY <1>3 DEF FailStaleUploads, OnlyForward
<1>4. CASE \E r \in Requests : RequestStep(r) \/ RequestFails(r)
  BY <1>4, RequestForward
<1>5. CASE row' = row
  BY <1>5 DEF OnlyForward
<1>6. \/ \E q \in Photos : Initialize(q) \/ MarkReady(q)
      \/ \E r \in Requests : RequestStep(r) \/ RequestFails(r)
      \/ FailStaleUploads \/ row' = row
  BY DEF Next, vars, PutOriginal, WorkStep, WorkLoad, WorkGet, WorkPut, WorkError, CleanStep, CleanStart,
         CleanDelete, CleanDone, CleanError, Arrival, AssembleRead, CompleteRead, AbortRead, DeleteRead, rowVars
<1>. QED BY <1>1, <1>2, <1>3, <1>4, <1>5, <1>6

\* The status of a photo only moves on, though MarkReady has no predicate and
\* MarkFailed takes a PROCESSING photo: an abort of a photo that is being
\* processed does not succeed.
THEOREM OnlyMovesOn == Spec => StatusMovesOn
<1>1. IInv /\ [Next]_vars => [\A p \in Photos : MovesOn(p)]_row
  BY StepForward DEF OnlyForward, MovesOn
<1>. QED BY <1>1, Invariance, PTL DEF Spec, StatusMovesOn

-----------------------------------------------------------------------------
(* The counters.                                                           *)

FiniteWorld == IsFiniteSet(Photos) /\ IsFiniteSet(Events)

CountersTypeOK ==
    /\ photoCount \in [Events -> Nat]
    /\ storageBytes \in [Events -> Nat]
    /\ userBytes \in Nat

\* CountersNotAbove, with its sums named.
Below ==
    /\ \A e \in Events :
          /\ photoCount[e] <= Cardinality(Stored(e))
          /\ storageBytes[e] <= Total(FileSize, Stored(e))
    /\ userBytes <= Total(storageBytes, Events)

LEMMA BelowMeans == Below <=> CountersNotAbove
BY DEF Below, CountersNotAbove, BytesOf, SumBytes, Total

LEMMA StoredFinite ==
  ASSUME FiniteWorld, NEW S \in SUBSET Photos
  PROVE  /\ IsFiniteSet(S) /\ Cardinality(S) \in Nat
         /\ \A p \in Photos : FileSize[p] \in Nat
         /\ Total(FileSize, S) \in Nat
<1>1. IsFiniteSet(S) /\ Cardinality(S) \in Nat
  BY FS_Subset, FS_CardinalityType DEF FiniteWorld
<1>2. \A p \in Photos : FileSize[p] \in Nat
  BY PhotosAssumption
<1>3. Total(FileSize, S) \in Nat
  BY <1>1, <1>2, TotalType
<1>. QED BY <1>1, <1>2, <1>3

\* A photo is counted when it is stored.
LEMMA CountBelow ==
  ASSUME FiniteWorld, CountersTypeOK, Below, NEW p \in Photos, Count(p),
         row[p] \notin {"PROCESSING", "READY"}, row' = [row EXCEPT ![p] = "PROCESSING"], PipelineTypeOK
  PROVE  CountersTypeOK' /\ Below'
<1>. DEFINE e == EventOf[p]
            n == storageBytes[e] + FileSize[p]
            new == [storageBytes EXCEPT ![e] = n]
<1>1. e \in Events /\ FileSize[p] \in Nat
  BY PhotosAssumption
<1>2. /\ photoCount' = [photoCount EXCEPT ![e] = photoCount[e] + 1]
      /\ storageBytes' = new
      /\ userBytes' = userBytes + FileSize[p]
      /\ n \in Nat
  BY <1>1 DEF Count, CountersTypeOK
<1>3. CountersTypeOK'
  BY <1>1, <1>2 DEF CountersTypeOK
<1>4. /\ Stored(e)' = Stored(e) \cup {p} /\ p \notin Stored(e)
      /\ \A f \in Events \ {e} : Stored(f)' = Stored(f)
  BY DEF Stored, PipelineTypeOK, RowsTypeOK
<1>5. \A f \in Events : Stored(f) \in SUBSET Photos
  BY DEF Stored
<1>6. /\ Cardinality(Stored(e)') = Cardinality(Stored(e)) + 1
      /\ Total(FileSize, Stored(e)') = Total(FileSize, Stored(e)) + FileSize[p]
  BY <1>1, <1>4, <1>5, StoredFinite, FS_AddElement, TotalAdd
<1>7. /\ Total(new, Events) = Total(storageBytes, Events) - storageBytes[e] + n
      /\ Total(storageBytes, Events) \in Nat
  <2>1. /\ \A f \in Events : storageBytes[f] \in Nat /\ new[f] \in Nat
        /\ \A f \in Events \ {e} : storageBytes[f] = new[f]
        /\ new[e] = n
    BY <1>1, <1>2 DEF CountersTypeOK
  <2>. HIDE DEF new, n, e
  <2>. QED BY <1>1, <2>1, TotalUpdate DEF FiniteWorld
<1>8. userBytes' <= Total(new, Events)
  BY <1>1, <1>2, <1>7 DEF Below, CountersTypeOK
<1>9. ASSUME NEW f \in Events
      PROVE  photoCount'[f] <= Cardinality(Stored(f)') /\ storageBytes'[f] <= Total(FileSize, Stored(f)')
  <2>1. CASE f = e
    BY <1>1, <1>2, <1>5, <1>6, <2>1, StoredFinite DEF Below, CountersTypeOK
  <2>2. CASE f # e
    BY <1>2, <1>4, <2>2 DEF Below, CountersTypeOK
  <2>. QED BY <2>1, <2>2
<1>. QED BY <1>2, <1>3, <1>8, <1>9 DEF Below

\* It is taken off when it is deleted, and a failed one, that was not
\* counted, is too; never below zero.
LEMMA UncountBelow ==
  ASSUME FiniteWorld, CountersTypeOK, Below, NEW p \in Photos, Uncount(p),
         row' = [row EXCEPT ![p] = "gone"], PipelineTypeOK
  PROVE  CountersTypeOK' /\ Below'
<1>. DEFINE e == EventOf[p]
            n == AtLeastZero(storageBytes[e] - FileSize[p])
            new == [storageBytes EXCEPT ![e] = n]
<1>1. e \in Events /\ FileSize[p] \in Nat /\ storageBytes[e] \in Nat
  BY PhotosAssumption DEF CountersTypeOK
<1>2. /\ photoCount' = [photoCount EXCEPT ![e] = AtLeastZero(photoCount[e] - 1)]
      /\ storageBytes' = new
      /\ userBytes' = AtLeastZero(userBytes - FileSize[p])
      /\ n \in Nat /\ n >= storageBytes[e] - FileSize[p]
  BY <1>1 DEF Uncount, CountersTypeOK, AtLeastZero
<1>3. CountersTypeOK'
  BY <1>1, <1>2 DEF CountersTypeOK, AtLeastZero
<1>4. /\ Stored(e)' = Stored(e) \ {p}
      /\ \A f \in Events \ {e} : Stored(f)' = Stored(f)
  BY DEF Stored, PipelineTypeOK, RowsTypeOK
<1>5. \A f \in Events : Stored(f) \in SUBSET Photos
  BY DEF Stored
<1>6. /\ Cardinality(Stored(e)') >= Cardinality(Stored(e)) - 1
      /\ Total(FileSize, Stored(e)') >= Total(FileSize, Stored(e)) - FileSize[p]
      /\ Cardinality(Stored(e)') \in Nat /\ Total(FileSize, Stored(e)') \in Nat
  <2>1. CASE p \in Stored(e)
    <3>1. Cardinality(Stored(e) \ {p}) = Cardinality(Stored(e)) - 1
      BY <1>1, <1>5, <2>1, StoredFinite, FS_RemoveElement
    <3>2. Total(FileSize, Stored(e)) = FileSize[p] + Total(FileSize, Stored(e) \ {p})
      BY <1>1, <1>5, <2>1, StoredFinite, TotalRemove
    <3>3. Cardinality(Stored(e) \ {p}) \in Nat /\ Total(FileSize, Stored(e) \ {p}) \in Nat
      BY <1>1, <1>5, StoredFinite
    <3>. QED BY <1>1, <1>4, <3>1, <3>2, <3>3
  <2>2. CASE p \notin Stored(e)
    <3>1. Stored(e)' = Stored(e)
      BY <1>4, <2>2
    <3>. QED BY <1>1, <1>5, <3>1, StoredFinite
  <2>. QED BY <2>1, <2>2
<1>7. /\ Total(new, Events) = Total(storageBytes, Events) - storageBytes[e] + n
      /\ Total(storageBytes, Events) \in Nat /\ Total(new, Events) \in Nat
  <2>1. /\ \A f \in Events : storageBytes[f] \in Nat /\ new[f] \in Nat
        /\ \A f \in Events \ {e} : storageBytes[f] = new[f]
        /\ new[e] = n
    BY <1>1, <1>2 DEF CountersTypeOK
  <2>. HIDE DEF new, n, e
  <2>. QED BY <1>1, <2>1, TotalUpdate DEF FiniteWorld
<1>8. userBytes' <= Total(new, Events)
  BY <1>1, <1>2, <1>7 DEF Below, CountersTypeOK, AtLeastZero
<1>9. ASSUME NEW f \in Events
      PROVE  photoCount'[f] <= Cardinality(Stored(f)') /\ storageBytes'[f] <= Total(FileSize, Stored(f)')
  <2>1. CASE f = e
    <3>1. photoCount[e] <= Cardinality(Stored(e)) /\ storageBytes[e] <= Total(FileSize, Stored(e))
      BY <1>1 DEF Below
    <3>2. photoCount'[e] = AtLeastZero(photoCount[e] - 1) /\ storageBytes'[e] = n /\ photoCount[e] \in Nat
      BY <1>1, <1>2 DEF CountersTypeOK
    <3>3. Cardinality(Stored(e)) \in Nat /\ Total(FileSize, Stored(e)) \in Nat
      BY <1>1, <1>5, StoredFinite
    <3>. QED BY <1>1, <1>6, <2>1, <3>1, <3>2, <3>3 DEF AtLeastZero
  <2>2. CASE f # e
    BY <1>2, <1>4, <2>2 DEF Below, CountersTypeOK
  <2>. QED BY <2>1, <2>2
<1>. QED BY <1>2, <1>3, <1>8, <1>9 DEF Below

LEMMA NextBelow ==
  ASSUME FiniteWorld, IInv, CountersTypeOK, Below, [Next]_vars
  PROVE  CountersTypeOK' /\ Below'
<1>. DEFINE StoredStatus == {"PROCESSING", "READY"}
<1>1. ASSUME UNCHANGED <<photoCount, storageBytes, userBytes>>,
             \A p \in Photos : row'[p] \in StoredStatus <=> row[p] \in StoredStatus
      PROVE  CountersTypeOK' /\ Below'
  <2>1. \A e \in Events : Stored(e)' = Stored(e)
    BY <1>1 DEF Stored
  <2>. QED BY <1>1, <2>1 DEF CountersTypeOK, Below
<1>2. ASSUME NEW r \in Requests, MarkProcessing(r) PROVE CountersTypeOK' /\ Below'
  <2>1. CASE row[arg[r]] = "UPLOADING"
    BY <1>2, <2>1, CountBelow DEF MarkProcessing, IInv, RequestsOK
  <2>2. CASE row[arg[r]] # "UPLOADING"
    BY <1>1, <1>2, <2>2 DEF MarkProcessing, rowVars
  <2>. QED BY <2>1, <2>2
<1>3. ASSUME NEW r \in Requests, DeleteOwned(r) PROVE CountersTypeOK' /\ Below'
  <2>1. arg[r] \in Photos
    BY <1>3 DEF DeleteOwned, IInv, RequestsOK
  <2>2. CASE row[arg[r]] \notin {"UPLOADING", "gone"}
    BY <1>3, <2>1, <2>2, UncountBelow DEF DeleteOwned, IInv
  <2>3. CASE row[arg[r]] \in {"UPLOADING", "gone"}
    BY <1>1, <1>3, <2>1, <2>3 DEF DeleteOwned, rowVars, IInv, PipelineTypeOK, RowsTypeOK
  <2>. QED BY <2>2, <2>3
<1>4. ASSUME NEW r \in Requests, MarkFailed(r) PROVE CountersTypeOK' /\ Below'
  <2>1. \A p \in Photos : row'[p] \in {row[p], "FAILED"}
    BY <1>4 DEF MarkFailed, IInv, PipelineTypeOK, RowsTypeOK
  <2>2. \A p \in Photos : OnlyForward(p)
    BY StepForward
  <2>3. \A p \in Photos : row'[p] \in StoredStatus <=> row[p] \in StoredStatus
    BY <2>1, <2>2 DEF OnlyForward
  <2>. QED BY <1>1, <1>4, <2>3 DEF MarkFailed
<1>5. ASSUME NEW p \in Photos, MarkReady(p) PROVE CountersTypeOK' /\ Below'
  <2>1. row[p] \in Past
    BY <1>5 DEF MarkReady, IInv, JobsOK
  <2>2. \A q \in Photos : row'[q] \in StoredStatus <=> row[q] \in StoredStatus
    BY <1>5, <2>1 DEF MarkReady, IInv, PipelineTypeOK, RowsTypeOK, Past
  <2>. QED BY <1>1, <1>5, <2>2 DEF MarkReady
<1>6. ASSUME NEW p \in Photos, Initialize(p) PROVE CountersTypeOK' /\ Below'
  <2>1. \A q \in Photos : row'[q] \in StoredStatus <=> row[q] \in StoredStatus
    BY <1>6 DEF Initialize, IInv, PipelineTypeOK, RowsTypeOK
  <2>. QED BY <1>1, <1>6, <2>1 DEF Initialize
<1>7. CASE FailStaleUploads
  <2>1. \A q \in Photos : row'[q] \in StoredStatus <=> row[q] \in StoredStatus
    BY <1>7 DEF FailStaleUploads
  <2>. QED BY <1>1, <1>7, <2>1 DEF FailStaleUploads
<1>8. ASSUME UNCHANGED rowVars PROVE CountersTypeOK' /\ Below'
  BY <1>1, <1>8 DEF rowVars
<1>9. ASSUME NEW r \in Requests, RequestStep(r) \/ RequestFails(r) PROVE CountersTypeOK' /\ Below'
  BY <1>2, <1>3, <1>4, <1>8, <1>9 DEF RequestStep, RequestFails, Assemble, HeadObject, EnqueueProcessPhoto, AbortStore,
     DropUpload, EnqueueObjectCleanup
<1>10. ASSUME NEW p \in Photos, NEW r \in Requests, Arrival(r, p) PROVE CountersTypeOK' /\ Below'
  BY <1>8, <1>10 DEF Arrival, AssembleRead, CompleteRead, AbortRead, DeleteRead
<1>11. ASSUME NEW p \in Photos, PutOriginal(p) \/ WorkStep(p) \/ WorkError(p) \/ CleanStep(p) \/ CleanError(p)
       PROVE  CountersTypeOK' /\ Below'
  BY <1>5, <1>8, <1>11 DEF PutOriginal, WorkStep, WorkLoad, WorkGet, WorkPut, WorkError, CleanStep, CleanStart,
     CleanDelete, CleanDone, CleanError
<1>12. CASE UNCHANGED vars
  BY <1>8, <1>12 DEF vars, rowVars
<1>. QED BY <1>6, <1>7, <1>9, <1>10, <1>11, <1>12 DEF Next

\* The counters never claim more than is stored, though each is clamped at
\* zero apart from the others.
THEOREM NeverAbove ==
  ASSUME FiniteWorld
  PROVE  Spec => []CountersNotAbove
<1>1. Init => CountersTypeOK /\ Below
  <2>1. ASSUME Init PROVE CountersTypeOK /\ Below
    <3>1. CountersTypeOK
      BY <2>1 DEF Init, CountersTypeOK
    <3>2. \A e \in Events : Stored(e) \in SUBSET Photos /\ photoCount[e] = 0 /\ storageBytes[e] = 0
      BY <2>1 DEF Init, Stored
    <3>3. Total(storageBytes, Events) \in Nat
      BY <3>1, TotalType DEF FiniteWorld, CountersTypeOK
    <3>. QED BY <2>1, <3>1, <3>2, <3>3, StoredFinite DEF Init, Below
  <2>. QED BY <2>1
<1>. QED BY <1>1, BelowMeans, InitIInv, NextIInv, NextBelow, PTL DEF Spec
=============================================================================
