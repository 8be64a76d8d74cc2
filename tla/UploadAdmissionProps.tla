------------------------ MODULE UploadAdmissionProps ------------------------
(***************************************************************************)
(* What must hold of the admission of uploads.                             *)
(***************************************************************************)
EXTENDS UploadAdmission

\* Every variable of the admission has its type.
TypeOK ==
    /\ open \in BOOLEAN
    /\ row \in [Photos -> {"none", "UPLOADING", "PROCESSING", "FAILED", "gone"}]
    /\ body \in [Photos -> Bodies \cup {NoBody}]
    /\ madeFor \in [Photos -> Keys \cup {NoKey}]
    /\ userBytes \in Nat
    /\ record \in [Keys -> [photo : Photos, hash : Bodies \cup {Completion}] \cup {NoRecord}]
    /\ opened \subseteq Photos
    /\ op \in [Requests -> {"idle", "count", "bytes", "lookup", "rebuild", "store", "insert",
                            "save", "answer", "complete", "note", "mark"}]
    /\ call \in [Requests -> [key : Keys \cup {NoKey}, body : Bodies \cup {NoBody},
                              photo : Photos \cup {NoPhoto}]]
    /\ faults \in 0..MaxFaults

\* The plan's photos per event are exceeded by fewer photos than handlers
\* run at once, whatever order the checks and the inserts come in, and so
\* not at all where requests come one at a time.
OvershootBounded ==
    MaxPhotos > 0 => CountByEvent < MaxPhotos + Cardinality(Requests)

\* An answer to Initialize names a photo that was inserted for the very
\* body of the request: not that of another request under the same key, nor
\* one under a key that a Complete has used.
AnsweredPhotoFits ==
    \A r \in Requests : op[r] = "answer" => body[call[r].photo] = call[r].body

\* The photos that are there and were inserted under a key, and the photos
\* that have been deleted.
MadeUnder(k) == {p \in Photos : madeFor[p] = k}
Deleted      == {p \in Photos : row[p] = "gone"}

\* Phase 3 - Uploads.md:11 promises that a repeated Idempotency-Key never
\* makes a second photo.  Requests at once all look it up before any of them
\* records it (service.go:194), and each inserts a photo of its own; a call
\* that fails between insert and record leaves a photo without a record; and
\* a delete takes the record along, so that the key starts anew.  Nothing else
\* makes another photo: a request that repeats an earlier one does not.
DuplicatesBounded ==
    \A k \in Keys :
        Cardinality(MadeUnder(k)) <= Cardinality(Requests) * (1 + Cardinality(Deleted)) + faults
=============================================================================
