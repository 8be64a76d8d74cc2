------------------------ MODULE BrowserUploadsProps ------------------------
(***************************************************************************)
(* What the upload queue of the browser owes its user.                     *)
(***************************************************************************)
EXTENDS BrowserUploads

\* An upload the server waits for is one the user can still get at: a row of
\* the queue, an entry a reload brings back, or a request under way.  Except
\* those whose Initialize or DELETE was never answered, those of an item that
\* two processes initialized, and one that a queue already left has entered
\* while its successor asks about the entry's older photo, which is then
\* dropped (uploader.ts:308-323, 395, 420, 446, 553).
NoUploadForgotten ==
    \A p \in Photos : row[p] = "UPLOADING" /\ p \notin disowned =>
        \/ \E k \in Keys : p \in {registry[k], restored[k], todo[k]}
        \/ \E k \in items : item[k].photo = p
        \/ \E s \in Slots : slot[s].pc = "initialized" /\ slot[s].target = p
        \/ \E o \in ops : o.photo = p

\* A file that waits or uploads does not do so for ever: nothing is left
\* queued with no process to start it (pump, uploader.ts:366-385).
Waiting(k) == k \in items /\ item[k].status \in {"queued", "uploading"}
UploadEnds == \A k \in Keys : Waiting(k) ~> ~Waiting(k)

=============================================================================
