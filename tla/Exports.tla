------------------------------- MODULE Exports -------------------------------
(***************************************************************************)
(* ZIP exports of one event (internal/exports): the request that creates   *)
(* an export or returns the active one, the zip.generate job that pages    *)
(* through the event's photos and stores the archive, and the              *)
(* export.cleanup job that expires archives and gives up exports that were *)
(* left in PROCESSING.                                                     *)
(*                                                                         *)
(* Every call to the database or the store is a step.  The zip.generate    *)
(* job of an export follows JobQueue: one holder at a time, retried until  *)
(* attempts run out, or lost with its worker.  There is one worker, so one *)
(* export.cleanup at a time.                                               *)
(***************************************************************************)
EXTENDS Integers, FiniteSets, FiniteSetsExt

CONSTANTS
    Exports,      \* ids of exports rows
    Requests,     \* POST /exports handlers that may be in flight together
    NPhotos,      \* photos of the event, 1..NPhotos by created_at
    PageSize,     \* photos per page of the listing
    MaxAttempts,  \* of a job
    MaxFaults,    \* bound: failed calls, requests and workers
    NoExport, NoArchive

ASSUME ExportsAssumption ==
    /\ NPhotos \in Nat \ {0}
    /\ PageSize \in Nat \ {0}
    /\ MaxAttempts \in Nat \ {0}
    /\ MaxFaults \in Nat
    /\ NoExport \notin Exports
    /\ {"idle", "delete", "fail"} \cap Exports = {}   \* pc is a call, or an export

Photos == 1..NPhotos

VARIABLES
    status,     \* exports.status, "none" before the insert
    due,        \* expires_at has passed
    old,        \* updated_at is staleProcessingTimeout ago
    archive,    \* the object at the export's key: the photos in it
    op, arg,    \* the next call of a request and the export it is about
    job, tries, \* the zip.generate job of an export and its failed attempts
    cursor, page, zip,  \* what a generation has listed and put in its file
    photo,      \* of the event: "processing", "READY" or "gone"
    steady,     \* history: photos READY ever since a generation began
    pc, batch,  \* export.cleanup: its next call and the exports it listed
    faults

reqVars   == <<op, arg>>
genVars   == <<job, tries, cursor, page, zip, steady>>
cleanVars == <<pc, batch>>
vars == <<status, due, old, archive, op, arg, job, tries, cursor, page, zip,
          photo, steady, pc, batch, faults>>

Active == {"pending", "processing"}

Init ==
    /\ status  = [x \in Exports |-> "none"]
    /\ due     = [x \in Exports |-> FALSE]
    /\ old     = [x \in Exports |-> FALSE]
    /\ archive = [x \in Exports |-> NoArchive]
    /\ op      = [r \in Requests |-> "idle"]
    /\ arg     = [r \in Requests |-> NoExport]
    /\ job     = [x \in Exports |-> "none"]
    /\ tries   = [x \in Exports |-> 0]
    /\ cursor  = [x \in Exports |-> NPhotos + 1]
    /\ page    = [x \in Exports |-> {}]
    /\ zip     = [x \in Exports |-> {}]
    /\ photo   \in [Photos -> {"processing", "READY"}]
    /\ steady  = [x \in Exports |-> {}]
    /\ pc      = "idle"
    /\ batch   = {}
    /\ faults  = 0

Fault == faults < MaxFaults /\ faults' = faults + 1

Goto(r, next, x) ==
    /\ op'  = [op EXCEPT ![r] = next]
    /\ arg' = [arg EXCEPT ![r] = x]

Respond(r) == Goto(r, "idle", NoExport)

-----------------------------------------------------------------------------
(* Creating                                                                *)

\* The event has photos and no active export, so one will be inserted.
GetActiveByEvent(r) ==
    /\ op[r] = "idle"
    /\ \E p \in Photos : photo[p] # "gone"
    /\ \A x \in Exports : status[x] \notin Active
    /\ Goto(r, "insert", NoExport)
    /\ UNCHANGED <<status, due, old, archive, genVars, photo, cleanVars, faults>>

Create(r) ==
    /\ op[r] = "insert"
    /\ \E x \in Exports :
          /\ status[x] = "none"
          /\ status' = [status EXCEPT ![x] = "pending"]
          /\ Goto(r, "enqueue", x)
    /\ UNCHANGED <<due, old, archive, genVars, photo, cleanVars, faults>>

\* A failed enqueue may have been committed all the same.
EnqueueGenerate(r) ==
    /\ op[r] = "enqueue"
    /\ \/ /\ job' = [job EXCEPT ![arg[r]] = "pending"]
          /\ Respond(r)
          /\ UNCHANGED faults
       \/ /\ Fault
          /\ Goto(r, "fail", arg[r])
          /\ job' \in {job, [job EXCEPT ![arg[r]] = "pending"]}
    /\ UNCHANGED <<status, due, old, archive, tries, cursor, page, zip, steady, photo, cleanVars>>

\* MarkFailed has no effect on an export that is no longer active.
Failed(x) == IF status[x] \in Active THEN "failed" ELSE status[x]

EnqueueFailed(r) ==
    /\ op[r] = "fail"
    /\ status' = [status EXCEPT ![arg[r]] = Failed(arg[r])]
    /\ Respond(r)
    /\ UNCHANGED <<due, old, archive, genVars, photo, cleanVars, faults>>

\* A call of the request fails or the API stops.
RequestFails(r) ==
    /\ op[r] # "idle"
    /\ Fault
    /\ Respond(r)
    /\ UNCHANGED <<status, due, old, archive, genVars, photo, cleanVars>>

-----------------------------------------------------------------------------
(* Generating                                                              *)

Generating == {"mark", "list", "append", "put", "ready"}

GenGoto(x, next) == job' = [job EXCEPT ![x] = next] /\ UNCHANGED tries

\* Mutant: an export that is ready or expired is generated again.
GenLoadUnchecked(x) ==
    /\ job[x] = "pending"
    /\ GenGoto(x, "mark")
    /\ UNCHANGED <<status, due, old, archive, reqVars, cursor, page, zip, steady, photo, cleanVars, faults>>

GenLoad(x) ==
    /\ job[x] = "pending"
    /\ GenGoto(x, IF status[x] \in {"ready", "expired"} THEN "done" ELSE "mark")
    /\ UNCHANGED <<status, due, old, archive, reqVars, cursor, page, zip, steady, photo, cleanVars, faults>>

\* A FAILED export is taken up again, so that a retry can succeed.
MarkProcessing(x) ==
    /\ job[x] = "mark"
    /\ IF status[x] \in Active \cup {"failed"}
       THEN /\ status' = [status EXCEPT ![x] = "processing"]
            /\ old' = [old EXCEPT ![x] = FALSE]
       ELSE UNCHANGED <<status, old>>
    /\ cursor' = [cursor EXCEPT ![x] = NPhotos + 1]
    /\ zip'    = [zip EXCEPT ![x] = {}]
    /\ steady' = [steady EXCEPT ![x] = {p \in Photos : photo[p] = "READY"}]
    /\ GenGoto(x, "list")
    /\ UNCHANGED <<due, archive, reqVars, page, photo, cleanVars, faults>>

Newest(S, n) == {p \in S : Cardinality({q \in S : q > p}) < n}

\* The next page of READY photos, newest first, after the last one listed.
ListByEvent(x) ==
    LET found == Newest({p \in Photos : photo[p] = "READY" /\ p < cursor[x]}, PageSize) IN
    /\ job[x] = "list"
    /\ page' = [page EXCEPT ![x] = found]
    /\ GenGoto(x, "append")
    /\ UNCHANGED <<status, due, old, archive, reqVars, cursor, zip, steady, photo, cleanVars, faults>>

\* Mutant: the page that fills up exactly ends the listing.
AppendPhotosShort(x) ==
    /\ job[x] = "append"
    /\ \E kept \in SUBSET page[x] :
          /\ \A p \in page[x] : photo[p] # "gone" => p \in kept
          /\ zip' = [zip EXCEPT ![x] = @ \cup kept]
    /\ cursor' = [cursor EXCEPT ![x] = IF page[x] = {} THEN @ ELSE Min(page[x])]
    /\ page' = [page EXCEPT ![x] = {}]
    /\ GenGoto(x, IF Cardinality(page[x]) <= PageSize THEN "put" ELSE "list")
    /\ UNCHANGED <<status, due, old, archive, reqVars, steady, photo, cleanVars, faults>>

\* The page's originals are copied; one that is deleted meanwhile may be
\* missing and is skipped.  A short page is the last one.
AppendPhotos(x) ==
    /\ job[x] = "append"
    /\ \E kept \in SUBSET page[x] :
          /\ \A p \in page[x] : photo[p] # "gone" => p \in kept
          /\ zip' = [zip EXCEPT ![x] = @ \cup kept]
    /\ cursor' = [cursor EXCEPT ![x] = IF page[x] = {} THEN @ ELSE Min(page[x])]
    /\ page' = [page EXCEPT ![x] = {}]
    /\ GenGoto(x, IF Cardinality(page[x]) < PageSize THEN "put" ELSE "list")
    /\ UNCHANGED <<status, due, old, archive, reqVars, steady, photo, cleanVars, faults>>

PutArchive(x) ==
    /\ job[x] = "put"
    /\ archive' = [archive EXCEPT ![x] = zip[x]]
    /\ GenGoto(x, "ready")
    /\ UNCHANGED <<status, due, old, reqVars, cursor, page, zip, steady, photo, cleanVars, faults>>

\* The job fails: it is retried while it has attempts left.
Attempted(x) ==
    /\ tries' = [tries EXCEPT ![x] = @ + 1]
    /\ job' = [job EXCEPT ![x] = IF tries[x] + 1 >= MaxAttempts THEN "failed" ELSE "pending"]

\* The statement has no status predicate.  Its answer may be lost.
MarkReady(x) ==
    /\ job[x] = "ready"
    /\ status' = [status EXCEPT ![x] = "ready"]
    /\ due' = [due EXCEPT ![x] = FALSE]
    /\ \/ GenGoto(x, "done") /\ UNCHANGED faults
       \/ Fault /\ Attempted(x)
    /\ UNCHANGED <<old, archive, reqVars, cursor, page, zip, steady, photo, cleanVars>>

GenError(x) ==
    /\ job[x] \in Generating
    /\ Fault
    /\ Attempted(x) \/ GenGoto(x, "lost")
    /\ page' = [page EXCEPT ![x] = {}]
    /\ UNCHANGED <<status, due, old, archive, reqVars, cursor, zip, steady, photo, cleanVars>>

-----------------------------------------------------------------------------
(* Cleanup                                                                 *)

ListExpired ==
    /\ pc = "idle"
    /\ batch' = {x \in Exports : status[x] = "ready" /\ due[x]}
    /\ pc' = "delete"
    /\ UNCHANGED <<status, due, old, archive, reqVars, genVars, photo, faults>>

\* Mutant: an error of the store does not stop the handler.
DeleteArchiveLenient(x) ==
    /\ pc = "delete"
    /\ x \in batch
    /\ \/ archive' = [archive EXCEPT ![x] = NoArchive] /\ UNCHANGED faults
       \/ Fault /\ UNCHANGED archive
    /\ pc' = x
    /\ UNCHANGED <<status, due, old, reqVars, genVars, photo, batch>>

DeleteArchive(x) ==
    /\ pc = "delete"
    /\ x \in batch
    /\ archive' = [archive EXCEPT ![x] = NoArchive]
    /\ pc' = x
    /\ UNCHANGED <<status, due, old, reqVars, genVars, photo, batch, faults>>

MarkExpired(x) ==
    /\ pc = x
    /\ status' = [status EXCEPT ![x] = IF @ = "ready" THEN "expired" ELSE @]
    /\ batch' = batch \ {x}
    /\ pc' = "delete"
    /\ UNCHANGED <<due, old, archive, reqVars, genVars, photo, faults>>

ListStaleProcessing ==
    /\ pc = "delete"
    /\ batch = {}
    /\ batch' = {x \in Exports : status[x] = "processing" /\ old[x]}
    /\ pc' = "fail"
    /\ UNCHANGED <<status, due, old, archive, reqVars, genVars, photo, faults>>

\* Mutant: only an export that nobody has started is failed.
FailStalePending(x) ==
    /\ pc = "fail"
    /\ x \in batch
    /\ status' = [status EXCEPT ![x] = IF @ = "pending" THEN "failed" ELSE @]
    /\ batch' = batch \ {x}
    /\ UNCHANGED <<due, old, archive, reqVars, genVars, photo, pc, faults>>

FailStale(x) ==
    /\ pc = "fail"
    /\ x \in batch
    /\ status' = [status EXCEPT ![x] = Failed(x)]
    /\ batch' = batch \ {x}
    /\ UNCHANGED <<due, old, archive, reqVars, genVars, photo, pc, faults>>

CleanupDone ==
    /\ pc = "fail"
    /\ batch = {}
    /\ pc' = "idle"
    /\ UNCHANGED <<status, due, old, archive, reqVars, genVars, photo, batch, faults>>

\* A call fails; what was done so far stays, the next run lists again.
CleanupError ==
    /\ pc # "idle"
    /\ Fault
    /\ pc' = "idle"
    /\ batch' = {}
    /\ UNCHANGED <<status, due, old, archive, reqVars, genVars, photo>>

-----------------------------------------------------------------------------
(* Time and the event's photos                                             *)

Expire(x) ==
    /\ status[x] = "ready" /\ ~due[x]
    /\ due' = [due EXCEPT ![x] = TRUE]
    /\ UNCHANGED <<status, old, archive, reqVars, genVars, photo, cleanVars, faults>>

Age(x) ==
    /\ status[x] = "processing" /\ ~old[x]
    /\ old' = [old EXCEPT ![x] = TRUE]
    /\ UNCHANGED <<status, due, archive, reqVars, genVars, photo, cleanVars, faults>>

PhotoReady(p) ==
    /\ photo[p] = "processing"
    /\ photo' = [photo EXCEPT ![p] = "READY"]
    /\ UNCHANGED <<status, due, old, archive, reqVars, genVars, cleanVars, faults>>

PhotoDeleted(p) ==
    /\ photo[p] # "gone"
    /\ photo' = [photo EXCEPT ![p] = "gone"]
    /\ steady' = [x \in Exports |-> IF job[x] \in Generating THEN steady[x] \ {p} ELSE steady[x]]
    /\ UNCHANGED <<status, due, old, archive, reqVars, job, tries, cursor, page, zip, cleanVars, faults>>

-----------------------------------------------------------------------------
RequestStep(r) == Create(r) \/ EnqueueGenerate(r) \/ EnqueueFailed(r)

GenStep(x) ==
    \/ GenLoad(x) \/ MarkProcessing(x) \/ ListByEvent(x)
    \/ AppendPhotos(x) \/ PutArchive(x) \/ MarkReady(x)

CleanStep ==
    \/ ListExpired \/ ListStaleProcessing \/ CleanupDone
    \/ \E x \in Exports : DeleteArchive(x) \/ MarkExpired(x) \/ FailStale(x)

Next ==
    \/ \E r \in Requests : GetActiveByEvent(r) \/ RequestStep(r) \/ RequestFails(r)
    \/ \E x \in Exports : GenStep(x) \/ GenError(x) \/ Expire(x) \/ Age(x)
    \/ CleanStep \/ CleanupError
    \/ \E p \in Photos : PhotoReady(p) \/ PhotoDeleted(p)

Spec == Init /\ [][Next]_vars

\* Jobs and requests that run make progress and time passes; clients and
\* failures owe nothing.
Fairness ==
    /\ \A r \in Requests : WF_vars(RequestStep(r))
    /\ \A x \in Exports : WF_vars(GenStep(x)) /\ WF_vars(Age(x))
    /\ WF_vars(CleanStep)

FairSpec == Spec /\ Fairness
=============================================================================
