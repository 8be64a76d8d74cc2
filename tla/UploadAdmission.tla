--------------------------- MODULE UploadAdmission ---------------------------
(***************************************************************************)
(* How an upload is admitted (internal/uploads): Initialize checks that    *)
(* the event is open and the plan has room, looks the Idempotency-Key up,  *)
(* opens a multipart upload for a large file, inserts the row and records  *)
(* the key; Complete records a key of its own and counts the bytes.        *)
(*                                                                         *)
(* Each call to the database or the store is a step, with no transaction   *)
(* around a request, so requests interleave between the checks and the     *)
(* insert.  One event of one owner.  A body is what requestHash covers; a  *)
(* row ends up PROCESSING once counted, and what becomes of it then is     *)
(* PhotoPipeline's.                                                        *)
(***************************************************************************)
EXTENDS Integers, FiniteSets

CONSTANTS
    Photos,
    Requests,    \* API handlers that may be in flight together
    Keys,        \* values of the Idempotency-Key header
    Bodies,      \* of an Initialize request
    Size,        \* the size a body declares
    Large,       \* bodies of MultipartFloor bytes or more
    MaxPhotos,   \* photosPerEvent of the plan; 0 is unlimited
    MaxBytes,    \* storageBytes of the plan; 0 is unlimited
    MaxFaults,   \* bound: failed calls and stopped handlers
    NoKey, NoPhoto, NoBody, NoRecord,
    Completion   \* the hash of a Complete request, of which its photo is part

ASSUME AdmissionAssumption ==
    /\ IsFiniteSet(Photos) /\ IsFiniteSet(Requests)
    /\ Size \in [Bodies -> Nat \ {0}]
    /\ Large \subseteq Bodies
    /\ MaxPhotos \in Nat /\ MaxBytes \in Nat /\ MaxFaults \in Nat
    /\ NoKey \notin Keys /\ NoPhoto \notin Photos
    /\ NoBody \notin Bodies /\ Completion \notin Bodies \cup {NoBody}
    /\ NoRecord \notin [photo : Photos, hash : Bodies \cup {Completion}]

VARIABLES
    open,        \* the event takes uploads: neither archived nor expired
    row,         \* photos.status, "none" before the insert, "gone" after the delete
    body,        \* what the row was inserted with
    madeFor,     \* history: the key a row that is there was inserted under
    userBytes,   \* users.storage_bytes
    record,      \* upload_idempotency by key
    opened,      \* photos whose storage key has an open multipart upload
    op, call,    \* the next call of a request and its local variables
    faults

vars == <<open, row, body, madeFor, userBytes, record, opened, op, call, faults>>

Rows   == {p \in Photos : row[p] \in {"UPLOADING", "PROCESSING", "FAILED"}}
NoCall == [key |-> NoKey, body |-> NoBody, photo |-> NoPhoto]

Init ==
    /\ open      = TRUE
    /\ row       = [p \in Photos |-> "none"]
    /\ body      = [p \in Photos |-> NoBody]
    /\ madeFor   = [p \in Photos |-> NoKey]
    /\ userBytes = 0
    /\ record    = [k \in Keys |-> NoRecord]
    /\ opened    = {}
    /\ op        = [r \in Requests |-> "idle"]
    /\ call      = [r \in Requests |-> NoCall]
    /\ faults    = 0

AtLeastZero(n) == IF n > 0 THEN n ELSE 0

Then(r, next) == op' = [op EXCEPT ![r] = next] /\ UNCHANGED call

Respond(r) ==
    /\ op'   = [op EXCEPT ![r] = "idle"]
    /\ call' = [call EXCEPT ![r] = NoCall]

-----------------------------------------------------------------------------
(* Initialize                                                              *)

\* enforceEventOpen.
InitializeOpen(r) ==
    /\ op[r] = "idle"
    /\ open
    /\ \E k \in Keys \cup {NoKey}, b \in Bodies :
          call' = [call EXCEPT ![r] = [key |-> k, body |-> b, photo |-> NoPhoto]]
    /\ op' = [op EXCEPT ![r] = "count"]
    /\ UNCHANGED <<open, row, body, madeFor, userBytes, record, opened, faults>>

\* What counts against the plan: every row but the FAILED ones.
CountByEvent == Cardinality({p \in Photos : row[p] \in {"UPLOADING", "PROCESSING"}})

\* Mutant: the comparison is off by one.
EnforcePhotosOffByOne(r) ==
    /\ op[r] = "count"
    /\ IF MaxPhotos > 0 /\ CountByEvent > MaxPhotos THEN Respond(r) ELSE Then(r, "bytes")
    /\ UNCHANGED <<open, row, body, madeFor, userBytes, record, opened, faults>>

EnforcePhotos(r) ==
    /\ op[r] = "count"
    /\ IF MaxPhotos > 0 /\ CountByEvent >= MaxPhotos THEN Respond(r) ELSE Then(r, "bytes")
    /\ UNCHANGED <<open, row, body, madeFor, userBytes, record, opened, faults>>

\* Against the bytes of completed uploads: those in progress do not count.
EnforceBytes(r) ==
    /\ op[r] = "bytes"
    /\ IF MaxBytes > 0 /\ userBytes + Size[call[r].body] > MaxBytes
       THEN Respond(r)
       ELSE Then(r, IF call[r].key = NoKey THEN "store" ELSE "lookup")
    /\ UNCHANGED <<open, row, body, madeFor, userBytes, record, opened, faults>>

\* Mutant: the hash of the request is not compared.
LookupIdempotencyUnhashed(r) ==
    LET found == record[call[r].key] IN
    /\ op[r] = "lookup"
    /\ IF found = NoRecord
       THEN Then(r, "store")
       ELSE /\ op'   = [op EXCEPT ![r] = "rebuild"]
            /\ call' = [call EXCEPT ![r].photo = found.photo]
    /\ UNCHANGED <<open, row, body, madeFor, userBytes, record, opened, faults>>

\* A key with another hash is a conflict; with this hash its photo is
\* answered again.
LookupIdempotency(r) ==
    LET found == record[call[r].key] IN
    /\ op[r] = "lookup"
    /\ IF found = NoRecord THEN Then(r, "store")
       ELSE IF found.hash # call[r].body THEN Respond(r)
       ELSE /\ op'   = [op EXCEPT ![r] = "rebuild"]
            /\ call' = [call EXCEPT ![r].photo = found.photo]
    /\ UNCHANGED <<open, row, body, madeFor, userBytes, record, opened, faults>>

\* The photo is read, in whatever status it is, unless it is gone by now.
RebuildInit(r) ==
    /\ op[r] = "rebuild"
    /\ IF call[r].photo \in Rows THEN Then(r, "answer") ELSE Respond(r)
    /\ UNCHANGED <<open, row, body, madeFor, userBytes, record, opened, faults>>

\* A storage key nobody has used; for a large file the store opens a
\* multipart upload under it.
Fresh == {p \in Photos \ opened : row[p] = "none" /\ \A r \in Requests : call[r].photo # p}

CreateMultipartUpload(r) ==
    /\ op[r] = "store"
    /\ \E p \in Fresh :
          /\ call' = [call EXCEPT ![r].photo = p]
          /\ opened' = IF call[r].body \in Large THEN opened \cup {p} ELSE opened
    /\ op' = [op EXCEPT ![r] = "insert"]
    /\ UNCHANGED <<open, row, body, madeFor, userBytes, record, faults>>

Create(r) ==
    /\ op[r] = "insert"
    /\ row'  = [row EXCEPT ![call[r].photo] = "UPLOADING"]
    /\ body' = [body EXCEPT ![call[r].photo] = call[r].body]
    /\ madeFor' = [madeFor EXCEPT ![call[r].photo] = call[r].key]
    /\ Then(r, IF call[r].key = NoKey THEN "answer" ELSE "save")
    /\ UNCHANGED <<open, userBytes, record, opened, faults>>

\* ON CONFLICT DO NOTHING: the first record of a key stays.  The photo is a
\* foreign key, so nothing is recorded of one that is gone.
RecordKey(r, hash) ==
    record' = [record EXCEPT ![call[r].key] =
                  IF @ = NoRecord /\ call[r].photo \in Rows
                  THEN [photo |-> call[r].photo, hash |-> hash] ELSE @]

\* Mutant: the key of a simple upload is not recorded.
SaveIdempotencyLarge(r) ==
    /\ op[r] = "save"
    /\ IF call[r].body \in Large THEN RecordKey(r, call[r].body) ELSE UNCHANGED record
    /\ IF call[r].photo \in Rows \/ record[call[r].key] # NoRecord THEN Then(r, "answer") ELSE Respond(r)
    /\ UNCHANGED <<open, row, body, madeFor, userBytes, opened, faults>>

SaveIdempotency(r) ==
    /\ op[r] = "save"
    /\ RecordKey(r, call[r].body)
    /\ IF call[r].photo \in Rows \/ record[call[r].key] # NoRecord THEN Then(r, "answer") ELSE Respond(r)
    /\ UNCHANGED <<open, row, body, madeFor, userBytes, opened, faults>>

\* The URL is presigned and the client answered.
Answer(r) ==
    /\ op[r] = "answer"
    /\ Respond(r)
    /\ UNCHANGED <<open, row, body, madeFor, userBytes, record, opened, faults>>

-----------------------------------------------------------------------------
(* Complete                                                                *)

\* The row is read; without a key there is nothing to look up.
CompleteRead(r, p) ==
    /\ op[r] = "idle"
    /\ p \in Rows
    /\ \E k \in Keys \cup {NoKey} :
          /\ call' = [call EXCEPT ![r] = [key |-> k, body |-> NoBody, photo |-> p]]
          /\ op' = [op EXCEPT ![r] = IF k = NoKey THEN "mark" ELSE "complete"]
    /\ UNCHANGED <<open, row, body, madeFor, userBytes, record, opened, faults>>

CompleteLookup(r) ==
    LET found == record[call[r].key] IN
    /\ op[r] = "complete"
    /\ IF found = NoRecord THEN Then(r, "note")
       ELSE IF found # [photo |-> call[r].photo, hash |-> Completion] THEN Respond(r)
       ELSE Then(r, "mark")
    /\ UNCHANGED <<open, row, body, madeFor, userBytes, record, opened, faults>>

CompleteSave(r) ==
    /\ op[r] = "note"
    /\ RecordKey(r, Completion)
    /\ IF call[r].photo \in Rows \/ record[call[r].key] # NoRecord THEN Then(r, "mark") ELSE Respond(r)
    /\ UNCHANGED <<open, row, body, madeFor, userBytes, opened, faults>>

\* Where the object is there, with the declared size, the row moves and the
\* bytes count, in one transaction, once.
MarkProcessing(r) ==
    LET p == call[r].photo IN
    /\ op[r] = "mark"
    /\ IF row[p] = "UPLOADING" /\ p \notin opened
       THEN /\ row' = [row EXCEPT ![p] = "PROCESSING"]
            /\ userBytes' = userBytes + Size[body[p]]
       ELSE UNCHANGED <<row, userBytes>>
    /\ Respond(r)
    /\ UNCHANGED <<open, body, madeFor, record, opened, faults>>

\* The store puts the parts of a multipart upload together.
CompleteMultipart(p) ==
    /\ p \in Rows \cap opened
    /\ opened' = opened \ {p}
    /\ UNCHANGED <<open, row, body, madeFor, userBytes, record, op, call, faults>>

-----------------------------------------------------------------------------
\* The event is archived or expires.
CloseEvent ==
    /\ open
    /\ open' = FALSE
    /\ UNCHANGED <<row, body, madeFor, userBytes, record, opened, op, call, faults>>

\* The sweep fails an upload that never completed.
FailStale(p) ==
    /\ row[p] = "UPLOADING"
    /\ row' = [row EXCEPT ![p] = "FAILED"]
    /\ UNCHANGED <<open, body, madeFor, userBytes, record, opened, op, call, faults>>

\* A photo is deleted: its records go with it, and its bytes are taken off
\* unless it was still uploading.
DeleteOwned(p) ==
    /\ p \in Rows
    /\ row' = [row EXCEPT ![p] = "gone"]
    /\ record' = [k \in Keys |-> IF record[k] # NoRecord /\ record[k].photo = p
                                 THEN NoRecord ELSE record[k]]
    /\ madeFor' = [madeFor EXCEPT ![p] = NoKey]
    /\ userBytes' = IF row[p] = "UPLOADING" THEN userBytes ELSE AtLeastZero(userBytes - Size[body[p]])
    /\ UNCHANGED <<open, body, opened, op, call, faults>>

\* A call fails, the client goes away or the API stops.
RequestFails(r) ==
    /\ op[r] # "idle"
    /\ faults < MaxFaults
    /\ faults' = faults + 1
    /\ Respond(r)
    /\ UNCHANGED <<open, row, body, madeFor, userBytes, record, opened>>

Next ==
    \/ \E r \in Requests :
          \/ InitializeOpen(r) \/ EnforcePhotos(r) \/ EnforceBytes(r)
          \/ LookupIdempotency(r) \/ RebuildInit(r)
          \/ CreateMultipartUpload(r) \/ Create(r) \/ SaveIdempotency(r) \/ Answer(r)
          \/ CompleteLookup(r) \/ CompleteSave(r) \/ MarkProcessing(r)
          \/ RequestFails(r)
          \/ \E p \in Photos : CompleteRead(r, p)
    \/ \E p \in Photos : CompleteMultipart(p) \/ FailStale(p) \/ DeleteOwned(p)
    \/ CloseEvent

Spec == Init /\ [][Next]_vars
=============================================================================
