----------------------------- MODULE WebGallery -----------------------------
(***************************************************************************)
(* The page a guest opens (features/gallery): the password gate and the    *)
(* unlock token, the list of photos, the viewer, and the URLs they ask     *)
(* for (GalleryUrls).  Any answer 401 drops the token and the URLs.  The   *)
(* token is read when a request is sent; an answer may come much later.    *)
(***************************************************************************)
EXTENDS GalleryUrls

CONSTANTS
    allowDownload,                    \* of the event
    MaxListCalls, MaxUnlocks, MaxFaults   \* bounds

ASSUME WebGalleryAssumption ==
    /\ {MaxListCalls, MaxUnlocks, MaxFaults} \subseteq Nat
    /\ allowDownload \in BOOLEAN

VARIABLES
    requiresUnlock,  \* the event had a password when the page was made
    protected,   \* the event has a password by now
    token,       \* an unlock token is stored, and fresh
    unlockDismissed,
    list,        \* the photos query: its state, pages and retry
    listCall,    \* its request in flight
    stray,       \* requests of a photos query that was removed or cancelled
    unlock,      \* the unlock mutation
    viewerIndex, \* the photo the viewer is at, or 0
    listCalls, unlocks, faults

shell == <<requiresUnlock, protected, token, unlockDismissed, list, listCall, stray, unlock,
           viewerIndex, listCalls, unlocks, faults>>
vars  == <<urls, shell>>

NoCall  == [on |-> "none", token |-> FALSE]
NewList == [status |-> "pending", pages |-> 0, retry |-> "none", error |-> "none"]

Init ==
    /\ UrlsInit
    /\ requiresUnlock \in BOOLEAN /\ protected = requiresUnlock /\ token = FALSE /\ unlockDismissed = FALSE
    /\ list = NewList /\ listCall = NoCall /\ stray = {}
    /\ unlock = "idle" /\ viewerIndex = 0
    /\ listCalls = 0 /\ unlocks = 0 /\ faults = 0

-----------------------------------------------------------------------------
(* What the page shows                                                     *)

baseLocked == ~unlockDismissed /\ requiresUnlock /\ ~token
locked     == baseLocked \/ list.error = "401"
photos     == 1..list.pages                \* a page has one photo
hasNextPage == list.pages > 0 /\ list.pages < MaxPhotos
showGrid   == ~locked /\ list.status = "success"
showPhotosError == ~locked /\ list.status = "error"
viewing    == viewerIndex \in photos /\ ~locked

Fault == faults < MaxFaults /\ faults' = faults + 1

\* The components that ask for URLs: a tile, the viewer for its photo and the
\* neighbours, the cover of the header, the button unless it is busy.
PhotoTile(p)   == showGrid /\ p \in photos
ViewedPhoto(p) == viewing /\ p \in {viewerIndex - 1, viewerIndex, viewerIndex + 1} \cap photos
GalleryHeader  == ~locked
DownloadButton == viewing /\ allowDownload /\ caller[<<"save", 1>>].state # "waiting"
Mounted(c) ==
    CASE c[1] = "tile"  -> PhotoTile(c[2])
      [] c[1] = "view"  -> ViewedPhoto(c[2])
      [] c[1] = "cover" -> GalleryHeader
      [] c[1] = "save"  -> DownloadButton

\* The variant a component starts with.
KeyOf(c) ==
    CASE c[1] = "tile"  -> <<c[2], "thumbnail">>
      [] c[1] = "view"  -> <<c[2], "large">>
      [] c[1] = "cover" -> <<1, CoverVariants[1]>>
      [] c[1] = "save"  -> <<IF viewing THEN viewerIndex ELSE 1, "large">>

-----------------------------------------------------------------------------
(* The list                                                                *)

Call(on) == listCalls < MaxListCalls /\ listCalls' = listCalls + 1
            /\ listCall' = [on |-> on, token |-> token]

\* The query is mounted and enabled, or tries again after its delay.
FetchList ==
    /\ listCall = NoCall
    /\ \/ list.retry = "none" /\ list.status = "pending" /\ ~baseLocked /\ Call("first")
       \/ list.retry # "none" /\ Call(list.retry)
    /\ UNCHANGED <<urls, requiresUnlock, protected, token, unlockDismissed, list, stray, unlock, viewerIndex, unlocks, faults>>

\* What is fetched makes room for another request of the same query, or for a
\* new query.
Superseded == stray' = stray \cup IF listCall = NoCall THEN {} ELSE {listCall.token}

\* The sentinel or the button, once nothing is fetched; or the viewer at its
\* last photo, which cancels what is.
fetchNextPage ==
    /\ hasNextPage
    /\ \/ showGrid /\ listCall = NoCall /\ list.retry = "none"
       \/ viewing /\ viewerIndex = list.pages
    /\ Superseded /\ Call("next")
    /\ list' = [list EXCEPT !.retry = "none"]
    /\ UNCHANGED <<urls, requiresUnlock, protected, token, unlockDismissed, unlock, viewerIndex, unlocks, faults>>

\* All the pages again; without one the query is as it was at first.
TryAgain ==
    /\ showPhotosError
    /\ Superseded /\ Call("first")
    /\ list' = [list EXCEPT !.retry = "none", !.status = IF list.pages = 0 THEN "pending" ELSE @]
    /\ UNCHANGED <<urls, requiresUnlock, protected, token, unlockDismissed, unlock, viewerIndex, unlocks, faults>>

\* publicCall: the server refuses who has no token; that drops the token.
Refused(t) == protected /\ ~t
unauthorized == token' = FALSE /\ clearPhotoUrls /\ UNCHANGED <<pending, batch, caller, sent>>

\* A refusal is tried once more, a second one is the query's error.
ListRefused ==
    list' = IF list.retry = "none" THEN [list EXCEPT !.retry = listCall.on]
            ELSE [list EXCEPT !.status = "error", !.retry = "none", !.error = "401"]

\* An answer, a refusal, or two failures in a row.
ListAnswered ==
    /\ listCall # NoCall
    /\ listCall' = NoCall
    /\ \/ /\ Refused(listCall.token) /\ ListRefused /\ unauthorized /\ UNCHANGED faults
       \/ /\ ~Refused(listCall.token)
          /\ list' = [status |-> "success", retry |-> "none", error |-> "none",
                      pages |-> IF listCall.on = "next" THEN list.pages + 1
                                ELSE IF list.pages = 0 THEN 1 ELSE list.pages]
          /\ UNCHANGED <<urls, token, faults>>
       \/ Fault /\ list' = [list EXCEPT !.status = "error", !.retry = "none", !.error = "5xx"] /\ UNCHANGED <<urls, token>>
    /\ UNCHANGED <<requiresUnlock, protected, unlockDismissed, stray, unlock, viewerIndex, listCalls, unlocks>>

\* The answer to a query that is no more is dropped, but publicCall saw it.
StrayAnswered(t) ==
    /\ t \in stray
    /\ stray' = stray \ {t}
    /\ IF Refused(t) THEN unauthorized ELSE UNCHANGED <<urls, token>>
    /\ UNCHANGED <<requiresUnlock, protected, unlockDismissed, list, listCall, unlock, viewerIndex, listCalls, unlocks, faults>>

-----------------------------------------------------------------------------
(* The gate                                                                *)

\* The form, unless the gallery is gone; disabled while it submits.
UnlockGate == locked /\ unlock \notin {"sent", "404"}

handleUnlock ==
    /\ UnlockGate
    /\ unlocks < MaxUnlocks /\ unlocks' = unlocks + 1
    /\ unlock' = "sent"
    /\ UNCHANGED <<urls, requiresUnlock, protected, token, unlockDismissed, list, listCall, stray, viewerIndex, listCalls, faults>>

\* Mutant: the photos query is left as it is.
listKept == UNCHANGED <<list, listCall, stray>>

\* The photos query starts over; a request in flight is no longer its own.
removeQueries == list' = NewList /\ listCall' = NoCall /\ Superseded

UnlockAnswered ==
    /\ unlock = "sent"
    /\ \/ /\ unlock' = "done" /\ token' = TRUE /\ unlockDismissed' = TRUE
          /\ removeQueries
          /\ UNCHANGED <<urls, faults>>
       \/ /\ unlock' = "401" /\ unauthorized
          /\ UNCHANGED <<unlockDismissed, list, listCall, stray, faults>>
       \/ /\ Fault /\ unlock' \in {"404", "5xx"}
          /\ UNCHANGED <<urls, token, unlockDismissed, list, listCall, stray>>
    /\ UNCHANGED <<requiresUnlock, protected, viewerIndex, listCalls, unlocks>>

\* Nobody is told that the token has expired: it is not there when read.
TokenExpires ==
    /\ token /\ Fault
    /\ token' = FALSE
    /\ UNCHANGED <<urls, requiresUnlock, protected, unlockDismissed, list, listCall, stray, unlock, viewerIndex, listCalls, unlocks>>

\* The operator sets a password.
Protect ==
    /\ ~protected /\ Fault
    /\ protected' = TRUE
    /\ UNCHANGED <<urls, requiresUnlock, token, unlockDismissed, list, listCall, stray, unlock, viewerIndex, listCalls, unlocks>>

-----------------------------------------------------------------------------
(* The viewer, and the URLs                                                *)

\* Open a tile, go to a neighbour, close.
PhotoViewer ==
    /\ \/ showGrid /\ ~viewing /\ viewerIndex' \in photos
       \/ viewing /\ viewerIndex' \in ({viewerIndex - 1, viewerIndex + 1} \cap photos) \cup {0}
    /\ UNCHANGED <<urls, requiresUnlock, protected, token, unlockDismissed, list, listCall, stray, unlock, listCalls, unlocks, faults>>

Urls(c) ==
    /\ \/ Mounted(c) /\ Ask(c, KeyOf(c), token)
       \/ Mounted(c) /\ Retry(c, token)
       \/ Again(c, token)
    /\ UNCHANGED shell

Flush == flush(token) /\ UNCHANGED shell

UrlsAnswered(b) ==
    /\ \/ ~Refused(batch[b].token) /\ dispatch(b, "ok") /\ UNCHANGED <<token, faults>>
       \/ Refused(batch[b].token) /\ dispatch(b, "401") /\ token' = FALSE /\ UNCHANGED faults
       \/ \E why \in {"429", "5xx"} : Fault /\ dispatch(b, why) /\ UNCHANGED token
    /\ UNCHANGED <<requiresUnlock, protected, unlockDismissed, list, listCall, stray, unlock, viewerIndex, listCalls, unlocks>>

Expire(k) == UrlExpires(k) /\ Fault /\ UNCHANGED <<requiresUnlock, protected, token, unlockDismissed, list, listCall, stray, unlock, viewerIndex, listCalls, unlocks>>

-----------------------------------------------------------------------------
Next ==
    \/ FetchList \/ fetchNextPage \/ TryAgain \/ ListAnswered
    \/ \E t \in stray : StrayAnswered(t)
    \/ handleUnlock \/ UnlockAnswered \/ TokenExpires \/ Protect
    \/ PhotoViewer \/ Flush
    \/ \E c \in Callers : Urls(c)
    \/ \E b \in Batches : UrlsAnswered(b)
    \/ \E k \in Keys : Expire(k)

Spec == Init /\ [][Next]_vars
=============================================================================
