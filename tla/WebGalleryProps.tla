--------------------------- MODULE WebGalleryProps ---------------------------
(***************************************************************************)
(* What the guest's page promises.                                         *)
(***************************************************************************)
EXTENDS WebGallery

\* A promise, in the cache or waited for, is one that will settle: of a key
\* the next batch asks for, or of a batch in flight that asks for it.  No
\* component waits for ever, whoever else asked for its URL and whatever
\* was cleared meanwhile (url-cache.ts:45, batch-url-fetcher.ts:107).
Settles(on, k) ==
    /\ on = Pending => k \in pending
    /\ on \in Batches => k \in batch[on].photos \X {batch[on].variant}
PromisesSettle ==
    /\ \A k \in Keys : Settles(inflight[k], k)
    /\ \A c \in Callers :
          caller[c].state = "waiting" => caller[c].on # None /\ Settles(caller[c].on, caller[c].key)

\* A guest whose token the page holds is not asked for the password again
\* (api.ts:147 useUnlockGallery, gallery-shell.tsx:41 locked).
GateMeansNoToken == token => ~locked

=============================================================================
