------------------------- MODULE PhotoPipelineProps -------------------------
(***************************************************************************)
(* What must hold of a photo, its objects and the counters.                *)
(***************************************************************************)
EXTENDS PhotoPipeline, FiniteSetsExt

\* The photos of an event that were counted and are still there.
Stored(e) == {p \in Photos : EventOf[p] = e /\ row[p] \in {"PROCESSING", "READY"}}
BytesOf(S) == MapThenSumSet(LAMBDA p : FileSize[p], S)
SumBytes   == MapThenSumSet(LAMBDA e : storageBytes[e], Events)

\* The counters never claim more than is stored, whatever order uploads,
\* sweeps, aborts and deletes run in; and the owner's total, which the code
\* clamps apart from the events', is never above their sum.
CountersNotAbove ==
    /\ \A e \in Events :
          /\ photoCount[e] <= Cardinality(Stored(e))
          /\ storageBytes[e] <= BytesOf(Stored(e))
    /\ userBytes <= SumBytes

\* A photo is counted, and shown, only with its original in the store: the
\* object was there when it was verified and nothing removes it before the
\* row is gone, however requests and jobs interleave.
StoredHasOriginal ==
    \A p \in Photos : row[p] \in {"PROCESSING", "READY"} => original[p] # "absent"

\* Complete may be called again and again, and at once by several clients:
\* one processing job is queued for a photo, by the one request that moved it.
SingleEnqueue ==
    \A r \in Requests : op[r] = "enqueue" =>
        /\ work[arg[r]] = "none"
        /\ \A s \in Requests \ {r} : op[s] = "enqueue" => arg[s] # arg[r]

\* The status of a photo only moves on: what was failed or made ready stays
\* so until the row is deleted, and a photo that is being processed fails only
\* with its job, when the attempts are used up (Phase 4 - Processing.md:20).
\* MarkReady has no status predicate and MarkFailed takes a PROCESSING photo,
\* so this rests on an abort never succeeding once the original is complete.
JobExhausted(p) == "failed" \in {work[p], work'[p]}

MovesOn(p) == row'[p] # row[p] =>
    \/ <<row[p], row'[p]>> \in
          {<<"none", "UPLOADING">>, <<"UPLOADING", "PROCESSING">>, <<"PROCESSING", "READY">>,
           <<"UPLOADING", "FAILED">>} \cup (Live \X {"gone"})
    \/ <<row[p], row'[p]>> = <<"PROCESSING", "FAILED">> /\ JobExhausted(p)

StatusMovesOn == [][\A p \in Photos : MovesOn(p)]_row

\* Deleting a READY photo removes every derivative once its cleanup is done.
ReadyPhotoCleanedUp ==
    \A p \in Photos :
        clean[p] = "done" /\ Len(payload[p]) > 1 => derived[p] = {}

=============================================================================
