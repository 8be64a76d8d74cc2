---------------------------- MODULE PhotoPipeline ----------------------------
(***************************************************************************)
(* A photo from the presigned URL to its removal: the API requests of      *)
(* internal/uploads and internal/photos, the worker's processor, object    *)
(* cleanup and stale upload sweep, the object store, and the counters on   *)
(* events and users.                                                       *)
(*                                                                         *)
(* A request is a sequence of calls to the database, the store and the     *)
(* queue with no transaction around them, so each call is a step; steps of *)
(* different requests and jobs interleave, and a request can end after any *)
(* of them.  Jobs follow the life cycle that JobQueue establishes: one     *)
(* holder at a time, retried until attempts run out, or lost with their    *)
(* worker.  All photos belong to events of one owner.                      *)
(***************************************************************************)
EXTENDS Integers, FiniteSets, Sequences

CONSTANTS
    Photos, Events,
    Requests,      \* API request handlers that may be in flight together
    EventOf,       \* the event a photo is uploaded to
    FileSize,      \* the size a client declares
    Multipart,     \* photos of MultipartFloor bytes or more
    Corrupt,       \* photos the decoder rejects
    MaxAttempts,   \* of a job
    MaxFaults,     \* bound: requests, calls and workers that fail
    Sweeps,        \* whether uploads get old enough to be swept
    NoPhoto

ASSUME PhotosAssumption ==
    /\ EventOf \in [Photos -> Events]
    /\ FileSize \in [Photos -> Nat \ {0}]
    /\ Multipart \subseteq Photos
    /\ Corrupt \subseteq Photos
    /\ NoPhoto \notin Photos

ASSUME PipelineBounds ==
    /\ MaxAttempts \in Nat \ {0}
    /\ MaxFaults \in Nat
    /\ Sweeps \in BOOLEAN

VARIABLES
    row,          \* photos.status, "none" before the insert, "gone" after the delete
    original,     \* the object at storage_key: absent, right size or wrong size
    derived,      \* derivative objects in the store
    upload,       \* the store's multipart upload
    photoCount, storageBytes,   \* of each event
    userBytes,    \* users.storage_bytes of the owner
    op, arg,      \* the next call of a request, and the photo it is about
    work, tries,  \* the PROCESS_PHOTO job of a photo and its failed attempts
    clean, todo, cleanTries, payload,  \* the object.cleanup job of a photo
    faults

rowVars   == <<row, photoCount, storageBytes, userBytes>>
storeVars == <<original, derived, upload>>
reqVars   == <<op, arg>>
workVars  == <<work, tries>>
cleanVars == <<clean, todo, cleanTries, payload>>
vars == <<row, original, derived, upload, photoCount, storageBytes, userBytes,
          op, arg, work, tries, clean, todo, cleanTries, payload, faults>>

Derivatives == {"thumbnail", "medium", "optimized"}
Live == {"UPLOADING", "PROCESSING", "READY", "FAILED"}

Init ==
    /\ row          = [p \in Photos |-> "none"]
    /\ original     = [p \in Photos |-> "absent"]
    /\ derived      = [p \in Photos |-> {}]
    /\ upload       = [p \in Photos |-> "none"]
    /\ photoCount   = [e \in Events |-> 0]
    /\ storageBytes = [e \in Events |-> 0]
    /\ userBytes    = 0
    /\ op           = [r \in Requests |-> "idle"]
    /\ arg          = [r \in Requests |-> NoPhoto]
    /\ work         = [p \in Photos |-> "none"]
    /\ tries        = [p \in Photos |-> 0]
    /\ clean        = [p \in Photos |-> "none"]
    /\ todo         = [p \in Photos |-> <<>>]
    /\ cleanTries   = [p \in Photos |-> 0]
    /\ payload      = [p \in Photos |-> <<>>]
    /\ faults       = 0

Fault == faults < MaxFaults /\ faults' = faults + 1

\* A request makes next its next call, about photo p.
Begin(r, next, p) ==
    /\ op[r] = "idle"
    /\ op'  = [op EXCEPT ![r] = next]
    /\ arg' = [arg EXCEPT ![r] = p]

Continue(r, next) ==
    /\ op' = [op EXCEPT ![r] = next]
    /\ UNCHANGED arg

Respond(r) ==
    /\ op'  = [op EXCEPT ![r] = "idle"]
    /\ arg' = [arg EXCEPT ![r] = NoPhoto]

-----------------------------------------------------------------------------
(* Uploading                                                               *)

\* The row and, for a large file, the store's multipart upload.
Initialize(p) ==
    /\ row[p] = "none"
    /\ row' = [row EXCEPT ![p] = "UPLOADING"]
    /\ upload' = [upload EXCEPT ![p] = IF p \in Multipart THEN "open" ELSE "none"]
    /\ UNCHANGED <<original, derived, photoCount, storageBytes, userBytes,
                   reqVars, workVars, cleanVars, faults>>

\* The client sends bytes to the presigned URL.  It stays valid after the
\* upload is completed, and after the photo is deleted.
PutOriginal(p) ==
    /\ row[p] # "none"
    /\ p \notin Multipart
    /\ \E size \in {"right", "wrong"} : original' = [original EXCEPT ![p] = size]
    /\ UNCHANGED <<rowVars, derived, upload, reqVars, workVars, cleanVars, faults>>

\* CompleteMultipart: the row is read and the part ETags saved ...
AssembleRead(r, p) ==
    /\ p \in Multipart
    /\ row[p] \in Live
    /\ Begin(r, "assemble", p)
    /\ UNCHANGED <<rowVars, storeVars, workVars, cleanVars, faults>>

\* ... then the store puts the parts together, or has no such upload.
Assemble(r) ==
    LET p == arg[r] IN
    /\ op[r] = "assemble"
    /\ \/ /\ upload[p] = "open"
          /\ upload' = [upload EXCEPT ![p] = "completed"]
          /\ \E size \in {"right", "wrong"} : original' = [original EXCEPT ![p] = size]
       \/ upload[p] # "open" /\ UNCHANGED <<upload, original>>
    /\ Respond(r)
    /\ UNCHANGED <<rowVars, derived, workVars, cleanVars, faults>>

\* Complete answers at once for a photo that is PROCESSING or READY.
CompleteRead(r, p) ==
    /\ row[p] \in {"UPLOADING", "FAILED"}
    /\ Begin(r, "head", p)
    /\ UNCHANGED <<rowVars, storeVars, workVars, cleanVars, faults>>

\* Mutant: the object's presence and size are not verified.
HeadUnchecked(r) ==
    /\ op[r] = "head"
    /\ Continue(r, "mark")
    /\ UNCHANGED <<rowVars, storeVars, workVars, cleanVars, faults>>

HeadObject(r) ==
    /\ op[r] = "head"
    /\ IF original[arg[r]] = "right" THEN Continue(r, "mark") ELSE Respond(r)
    /\ UNCHANGED <<rowVars, storeVars, workVars, cleanVars, faults>>

Count(p) ==
    LET e == EventOf[p] IN
    /\ photoCount'   = [photoCount EXCEPT ![e] = @ + 1]
    /\ storageBytes' = [storageBytes EXCEPT ![e] = @ + FileSize[p]]
    /\ userBytes'    = userBytes + FileSize[p]

\* Mutant: the transition has no status predicate.
MarkProcessingAlways(r) ==
    LET p == arg[r] IN
    /\ op[r] = "mark"
    /\ IF row[p] \in Live
       THEN /\ row' = [row EXCEPT ![p] = "PROCESSING"]
            /\ Count(p)
            /\ Continue(r, "enqueue")
       ELSE Respond(r) /\ UNCHANGED rowVars
    /\ UNCHANGED <<storeVars, workVars, cleanVars, faults>>

\* One transaction: the transition and both counters.
MarkProcessing(r) ==
    LET p == arg[r] IN
    /\ op[r] = "mark"
    /\ IF row[p] = "UPLOADING"
       THEN /\ row' = [row EXCEPT ![p] = "PROCESSING"]
            /\ Count(p)
            /\ Continue(r, "enqueue")
       ELSE Respond(r) /\ UNCHANGED rowVars
    /\ UNCHANGED <<storeVars, workVars, cleanVars, faults>>

EnqueueProcessPhoto(r) ==
    /\ op[r] = "enqueue"
    /\ work' = [work EXCEPT ![arg[r]] = "pending"]
    /\ Respond(r)
    /\ UNCHANGED <<rowVars, storeVars, tries, cleanVars, faults>>

-----------------------------------------------------------------------------
(* Giving up an upload                                                     *)

AbortRead(r, p) ==
    /\ p \in Multipart
    /\ row[p] \in Live
    /\ Begin(r, "abort", p)
    /\ UNCHANGED <<rowVars, storeVars, workVars, cleanVars, faults>>

\* Mutant: the store's error for an upload that is not open is ignored.
AbortStoreLenient(r) ==
    LET p == arg[r] IN
    /\ op[r] = "abort"
    /\ upload' = [upload EXCEPT ![p] = IF @ = "open" THEN "aborted" ELSE @]
    /\ Continue(r, "fail")
    /\ UNCHANGED <<rowVars, original, derived, workVars, cleanVars, faults>>

\* The store knows only an open upload; AbortMultipart returns its error.
AbortStore(r) ==
    LET p == arg[r] IN
    /\ op[r] = "abort"
    /\ IF upload[p] = "open"
       THEN upload' = [upload EXCEPT ![p] = "aborted"] /\ Continue(r, "fail")
       ELSE UNCHANGED upload /\ Respond(r)
    /\ UNCHANGED <<rowVars, original, derived, workVars, cleanVars, faults>>

\* Every status but READY, so PROCESSING too as far as this statement goes.
MarkFailed(r) ==
    LET p == arg[r] IN
    /\ op[r] = "fail"
    /\ row' = [row EXCEPT ![p] = IF @ \in Live \ {"READY"} THEN "FAILED" ELSE @]
    /\ Respond(r)
    /\ UNCHANGED <<photoCount, storageBytes, userBytes, storeVars, workVars, cleanVars, faults>>

\* The periodic sweep fails the uploads whose row is old; which ones are
\* depends on time alone, not on what the client has sent since.
FailStaleUploads ==
    /\ Sweeps
    /\ \E stale \in SUBSET {p \in Photos : row[p] = "UPLOADING"} :
          /\ stale # {}
          /\ row' = [p \in Photos |-> IF p \in stale THEN "FAILED" ELSE row[p]]
    /\ UNCHANGED <<photoCount, storageBytes, userBytes, storeVars, reqVars, workVars, cleanVars, faults>>

-----------------------------------------------------------------------------
(* Deleting                                                                *)

DeleteRead(r, p) ==
    /\ row[p] \in Live
    /\ Begin(r, IF p \in Multipart THEN "drop" ELSE "delete", p)
    /\ UNCHANGED <<rowVars, storeVars, workVars, cleanVars, faults>>

\* Best effort: the request goes on when the store returns an error.
DropUpload(r) ==
    LET p == arg[r] IN
    /\ op[r] = "drop"
    /\ \/ upload' = [upload EXCEPT ![p] = IF @ = "open" THEN "aborted" ELSE @] /\ UNCHANGED faults
       \/ Fault /\ UNCHANGED upload
    /\ Continue(r, "delete")
    /\ UNCHANGED <<rowVars, original, derived, workVars, cleanVars>>

AtLeastZero(n) == IF n > 0 THEN n ELSE 0

Uncount(p) ==
    LET e == EventOf[p] IN
    /\ photoCount'   = [photoCount EXCEPT ![e] = AtLeastZero(@ - 1)]
    /\ storageBytes' = [storageBytes EXCEPT ![e] = AtLeastZero(@ - FileSize[p])]
    /\ userBytes'    = AtLeastZero(userBytes - FileSize[p])

\* Mutant: the last derivative's key is forgotten.
RowKeysButOne(p) == IF row[p] = "READY" THEN <<"original", "thumbnail", "medium">>
                                        ELSE <<"original">>

\* The keys the row names: a row has its derivative keys once it is READY.
RowKeys(p) == IF row[p] = "READY" THEN <<"original", "thumbnail", "medium", "optimized">>
                                  ELSE <<"original">>

\* Mutant: the counters stay as they are.
DeleteOwnedUncounted(r) ==
    LET p == arg[r] IN
    /\ op[r] = "delete"
    /\ IF row[p] = "gone"
       THEN Respond(r) /\ UNCHANGED <<rowVars, payload>>
       ELSE /\ row' = [row EXCEPT ![p] = "gone"]
            /\ payload' = [payload EXCEPT ![p] = RowKeys(p)]
            /\ UNCHANGED <<photoCount, storageBytes, userBytes>>
            /\ Continue(r, "cleanup")
    /\ UNCHANGED <<storeVars, workVars, clean, todo, cleanTries, faults>>

\* Under the row's lock: its keys are read, it is deleted and, unless it is
\* still UPLOADING, taken out of the counters.
DeleteOwned(r) ==
    LET p == arg[r] IN
    /\ op[r] = "delete"
    /\ IF row[p] = "gone"
       THEN Respond(r) /\ UNCHANGED <<rowVars, payload>>
       ELSE /\ row' = [row EXCEPT ![p] = "gone"]
            /\ payload' = [payload EXCEPT ![p] = RowKeys(p)]
            /\ IF row[p] # "UPLOADING" THEN Uncount(p)
               ELSE UNCHANGED <<photoCount, storageBytes, userBytes>>
            /\ Continue(r, "cleanup")
    /\ UNCHANGED <<storeVars, workVars, clean, todo, cleanTries, faults>>

EnqueueObjectCleanup(r) ==
    /\ op[r] = "cleanup"
    /\ clean' = [clean EXCEPT ![arg[r]] = "pending"]
    /\ Respond(r)
    /\ UNCHANGED <<rowVars, storeVars, workVars, todo, cleanTries, payload, faults>>

\* A call of the request fails, its client goes away, or the API stops.
RequestFails(r) ==
    /\ op[r] # "idle"
    /\ Fault
    /\ Respond(r)
    /\ UNCHANGED <<rowVars, storeVars, workVars, cleanVars>>

-----------------------------------------------------------------------------
(* Processing                                                              *)

\* The job fails: it is retried while it has attempts left.
Attempted(job, count, p) ==
    /\ count' = [count EXCEPT ![p] = @ + 1]
    /\ job' = [job EXCEPT ![p] = IF count[p] + 1 >= MaxAttempts THEN "failed" ELSE "pending"]

WorkGoesTo(p, next) == work' = [work EXCEPT ![p] = next] /\ UNCHANGED tries
WorkFails(p)        == Attempted(work, tries, p)

\* Handle reads the row: nothing to do for a photo that is gone or READY.
WorkLoad(p) ==
    /\ work[p] = "pending"
    /\ CASE row[p] \in {"gone", "READY"} -> WorkGoesTo(p, "done")
         [] row[p] = "FAILED"            -> WorkFails(p)
         [] OTHER                        -> WorkGoesTo(p, "get")
    /\ UNCHANGED <<rowVars, storeVars, reqVars, cleanVars, faults>>

\* The original is downloaded and decoded.
WorkGet(p) ==
    /\ work[p] = "get"
    /\ IF original[p] = "absent" \/ p \in Corrupt
       THEN WorkFails(p) ELSE WorkGoesTo(p, "thumbnail")
    /\ UNCHANGED <<rowVars, storeVars, reqVars, cleanVars, faults>>

AfterDerivative == [thumbnail |-> "medium", medium |-> "optimized", optimized |-> "ready"]

WorkPut(p) ==
    /\ work[p] \in Derivatives
    /\ derived' = [derived EXCEPT ![p] = @ \cup {work[p]}]
    /\ WorkGoesTo(p, AfterDerivative[work[p]])
    /\ UNCHANGED <<rowVars, original, upload, reqVars, cleanVars, faults>>

\* Whatever the status of the row is by now.
MarkReady(p) ==
    /\ work[p] = "ready"
    /\ IF row[p] = "gone"
       THEN WorkFails(p) /\ UNCHANGED row
       ELSE WorkGoesTo(p, "done") /\ row' = [row EXCEPT ![p] = "READY"]
    /\ UNCHANGED <<photoCount, storageBytes, userBytes, storeVars, reqVars, cleanVars, faults>>

Handling == {"get", "ready"} \cup Derivatives

\* A call of the handler fails, or the job is lost with its worker.
WorkError(p) ==
    /\ work[p] \in Handling
    /\ Fault
    /\ WorkFails(p) \/ WorkGoesTo(p, "lost")
    /\ UNCHANGED <<rowVars, storeVars, reqVars, cleanVars>>

-----------------------------------------------------------------------------
(* Object cleanup                                                          *)

CleanStart(p) ==
    /\ clean[p] = "pending"
    /\ clean' = [clean EXCEPT ![p] = "running"]
    /\ todo' = [todo EXCEPT ![p] = payload[p]]
    /\ UNCHANGED <<rowVars, storeVars, reqVars, workVars, cleanTries, payload, faults>>

\* The next key of the payload is deleted; an absent object is no error.
CleanDelete(p) ==
    /\ clean[p] = "running"
    /\ todo[p] # <<>>
    /\ IF Head(todo[p]) = "original"
       THEN original' = [original EXCEPT ![p] = "absent"] /\ UNCHANGED derived
       ELSE derived' = [derived EXCEPT ![p] = @ \ {Head(todo[p])}] /\ UNCHANGED original
    /\ todo' = [todo EXCEPT ![p] = Tail(@)]
    /\ UNCHANGED <<rowVars, upload, reqVars, workVars, clean, cleanTries, payload, faults>>

CleanDone(p) ==
    /\ clean[p] = "running"
    /\ todo[p] = <<>>
    /\ clean' = [clean EXCEPT ![p] = "done"]
    /\ UNCHANGED <<rowVars, storeVars, reqVars, workVars, todo, cleanTries, payload, faults>>

CleanError(p) ==
    /\ clean[p] = "running"
    /\ Fault
    /\ \/ Attempted(clean, cleanTries, p)
       \/ clean' = [clean EXCEPT ![p] = "lost"] /\ UNCHANGED cleanTries
    /\ todo' = [todo EXCEPT ![p] = <<>>]
    /\ UNCHANGED <<rowVars, storeVars, reqVars, workVars, payload>>

-----------------------------------------------------------------------------
RequestStep(r) ==
    \/ Assemble(r)
    \/ HeadObject(r) \/ MarkProcessing(r) \/ EnqueueProcessPhoto(r)
    \/ AbortStore(r) \/ MarkFailed(r)
    \/ DropUpload(r) \/ DeleteOwned(r) \/ EnqueueObjectCleanup(r)

Arrival(r, p) ==
    AssembleRead(r, p) \/ CompleteRead(r, p) \/ AbortRead(r, p) \/ DeleteRead(r, p)

WorkStep(p)  == WorkLoad(p) \/ WorkGet(p) \/ WorkPut(p) \/ MarkReady(p)
CleanStep(p) == CleanStart(p) \/ CleanDelete(p) \/ CleanDone(p)

Next ==
    \/ \E p \in Photos :
          \/ Initialize(p) \/ PutOriginal(p)
          \/ WorkStep(p) \/ WorkError(p)
          \/ CleanStep(p) \/ CleanError(p)
          \/ \E r \in Requests : Arrival(r, p)
    \/ \E r \in Requests : RequestStep(r) \/ RequestFails(r)
    \/ FailStaleUploads

Spec == Init /\ [][Next]_vars

=============================================================================
