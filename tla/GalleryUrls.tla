----------------------------- MODULE GalleryUrls -----------------------------
(***************************************************************************)
(* The signed URLs of the guest gallery (features/gallery): url-cache.ts,  *)
(* batch-url-fetcher.ts and the components that ask for a URL.  A URL is   *)
(* named by its key.  The promise of a fetch is named by what settles it:  *)
(* the batch that is still collected, or a batch in flight.                *)
(***************************************************************************)
EXTENDS Integers, FiniteSets, Sequences

CONSTANTS
    MaxPhotos, Variants, Available,   \* keys the server can sign
    CoverVariants,                    \* in the order they are tried
    URL_BATCH_MAX_SIZE,
    MaxBatches,                       \* bound: batches in flight
    MaxBatchCalls                     \* bound: batches sent

Photos  == 1..MaxPhotos
Keys    == Photos \X Variants
Batches == 1..MaxBatches
None    == 0     \* no promise, ...
Pending == -1    \* ... or that of the batch being collected

\* Who asks: the tile and the viewer of a photo, the cover, the download.
Callers == ({"tile", "view"} \X Photos) \cup {<<"cover", 1>>, <<"save", 1>>}

ASSUME GalleryUrlsAssumption ==
    /\ {MaxBatches, MaxBatchCalls} \subseteq Nat
    /\ {MaxPhotos, URL_BATCH_MAX_SIZE} \subseteq Nat \ {0}
    /\ Available \subseteq Keys /\ {"thumbnail", "large"} \subseteq Variants
    /\ IsFiniteSet(Variants) /\ CoverVariants \in Seq(Variants) \ {<<>>}

VARIABLES
    entries,   \* keys whose URL is cached, and not about to expire
    inflight,  \* the promise of a key: None, Pending or a batch
    pending,   \* keys the next batches will ask for; the timer runs
    batch,     \* requests in flight
    caller,    \* what each component waits for or shows
    sent       \* batches sent so far

urls == <<entries, inflight, pending, batch, caller, sent>>

NoBatch  == [variant |-> "none", photos |-> {}, token |-> FALSE]
NoCaller == [state |-> "idle", key |-> <<1, "thumbnail">>, on |-> None, failures |-> 0, retried |-> FALSE]

UrlsInit ==
    /\ entries = {} /\ pending = {} /\ sent = 0
    /\ inflight = [k \in Keys |-> None]
    /\ batch = [b \in Batches |-> NoBatch]
    /\ caller = [c \in Callers |-> NoCaller]

-----------------------------------------------------------------------------
(* The cache and the batches                                               *)

\* The batches a flush sends: one for each variant, in free slots.
Group(ks, v) == {p \in Photos : <<p, v>> \in ks}
Groups(ks)   == {v \in Variants : Group(ks, v) # {}}
Free         == {b \in Batches : batch[b] = NoBatch}
SlotOf(ks)   == CHOOSE f \in [Groups(ks) -> Free] : \A v, w \in Groups(ks) : f[v] = f[w] => v = w
Room(ks)     == Cardinality(Groups(ks)) <= Cardinality(Free) /\ sent < MaxBatchCalls

\* Mutant: only the promises the cache still holds are carried over.
DispatchedCached(on, k, ks) == IF on = Pending /\ k \in ks /\ inflight[k] = Pending THEN SlotOf(ks)[k[2]] ELSE on

\* Whatever waited for the pending batch now waits for the one that is sent.
Dispatched(on, k, ks) == IF on = Pending /\ k \in ks THEN SlotOf(ks)[k[2]] ELSE on

Flushed(ks, wait, fly, token) ==
    LET f == SlotOf(ks) IN
    /\ Room(ks) /\ sent' = sent + 1
    /\ pending' = {}
    /\ batch' = [b \in Batches |->
          IF \E v \in Groups(ks) : f[v] = b
          THEN LET v == CHOOSE w \in Groups(ks) : f[w] = b
               IN [variant |-> v, photos |-> Group(ks, v), token |-> token]
          ELSE batch[b]]
    /\ inflight' = [k \in Keys |-> Dispatched(fly[k], k, ks)]
    /\ caller' = [c \in Callers |-> [wait[c] EXCEPT !.on = Dispatched(@, wait[c].key, ks)]]

flush(token) ==
    /\ pending # {}
    /\ Flushed(pending, caller, inflight, token)
    /\ UNCHANGED entries

\* Caller c fetches k: from the cache, the promise in flight, or a batch.
\* A full batch is sent at once.
Fetch(c, k, failures, retried, token) ==
    LET asks == [state |-> "waiting", key |-> k, on |-> inflight[k], failures |-> failures, retried |-> retried]
        ks   == pending \cup {k}
        fly  == [inflight EXCEPT ![k] = Pending]
        wait == [caller EXCEPT ![c] = [asks EXCEPT !.on = Pending]]
    IN
    IF k \in entries
    THEN /\ caller' = [caller EXCEPT ![c] = [asks EXCEPT !.state = "url", !.on = None]]
         /\ UNCHANGED <<inflight, pending, batch, sent>>
    ELSE IF inflight[k] # None
    THEN /\ caller' = [caller EXCEPT ![c] = asks]
         /\ UNCHANGED <<inflight, pending, batch, sent>>
    ELSE IF Cardinality(ks) >= URL_BATCH_MAX_SIZE THEN Flushed(ks, wait, fly, token)
    ELSE pending' = ks /\ inflight' = fly /\ caller' = wait /\ UNCHANGED <<batch, sent>>

\* Time passes: the URL comes within its margin of expiry.
UrlExpires(k) ==
    /\ k \in entries
    /\ entries' = entries \ {k}
    /\ UNCHANGED <<inflight, pending, batch, caller, sent>>

\* clear(): promises in flight are forgotten, and settle all the same.
clearPhotoUrls == entries' = {} /\ inflight' = [k \in Keys |-> None]

-----------------------------------------------------------------------------
(* What becomes of an answer                                               *)

\* Tries again after a failure: never a client error, four times when the
\* server asks to slow down, else once.
retryUrls(failures, why) ==
    CASE why = "429" -> failures < 4
      [] why \in {"401", "404"} -> FALSE
      [] OTHER -> failures < 1

\* The next variant a cover falls back to, or the one it has.
Fallback(k) ==
    LET more == {i \in 1..(Len(CoverVariants) - 1) : CoverVariants[i] = k[2]}
    IN  IF more = {} THEN k[2] ELSE CoverVariants[1 + CHOOSE i \in more : TRUE]

Rejected(c, why) ==
    LET s == [caller[c] EXCEPT !.on = None] IN
    IF c[1] = "save" THEN [s EXCEPT !.state = "error"]
    ELSE IF c[1] = "cover" /\ why = "404" /\ Fallback(s.key) # s.key[2]
    THEN [s EXCEPT !.state = "next", !.key = <<1, Fallback(@)>>]
    ELSE IF retryUrls(s.failures, why) THEN [s EXCEPT !.state = "retry", !.failures = @ + 1]
    ELSE [s EXCEPT !.state = "error"]

\* The promises of batch b leave the cache, whatever they settle with.
Settled(b, why) == [k \in Keys |-> IF inflight[k] = b THEN None ELSE inflight[k]]

\* Batch b is answered: "ok" for the keys the server can sign, or fails as
\* a whole.  401 empties the cache before anyone hears of it.
dispatch(b, why) ==
    LET asked == batch[b].photos \X {batch[b].variant}
        got   == IF why = "ok" THEN asked \cap Available ELSE {}
    IN
    /\ batch[b] # NoBatch
    /\ batch' = [batch EXCEPT ![b] = NoBatch]
    /\ IF why = "401" THEN clearPhotoUrls ELSE entries' = entries \cup got /\ inflight' = Settled(b, why)
    /\ caller' = [c \in Callers |->
          IF caller[c].on # b THEN caller[c]
          ELSE IF caller[c].key \in got THEN [caller[c] EXCEPT !.state = "url", !.on = None]
          ELSE Rejected(c, IF why = "ok" THEN "404" ELSE why)]
    /\ UNCHANGED <<pending, sent>>

\* A query tries again once its delay is over, a cover its next variant.
Again(c, token) ==
    /\ caller[c].state \in {"retry", "next"}
    /\ Fetch(c, caller[c].key, caller[c].failures, caller[c].retried, token)
    /\ UNCHANGED entries

\* A component that mounts asks for its URL, unless it has one or waits; a
\* download asks each time.
Ask(c, k, token) ==
    /\ caller[c].state \in {"idle", "error"} \/ (c[1] = "save" /\ caller[c].state = "url")
    /\ Fetch(c, k, 0, FALSE, token)
    /\ UNCHANGED entries

\* Its image does not load: one more fetch, and no third.
Retry(c, token) ==
    /\ c[1] = "tile" /\ caller[c].state = "url" /\ ~caller[c].retried
    /\ Fetch(c, caller[c].key, 0, TRUE, token)
    /\ UNCHANGED entries
=============================================================================
