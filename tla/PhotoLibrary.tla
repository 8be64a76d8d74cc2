---------------------------- MODULE PhotoLibrary ----------------------------
(***************************************************************************)
(* The photos of one event in the operator's browser (features/photos):    *)
(* three cached lists, one per filter, each polled while it shows a photo  *)
(* being processed; and the deletion of one photo or of a selection, which *)
(* removes each photo from every cached list before the server answers,    *)
(* puts the lists back when it refuses, and then asks for them again.      *)
(*                                                                         *)
(* A list is asked for by one request at a time.  A cancelled request's    *)
(* answer is ignored.  The requests of an infinite query's pages are one   *)
(* step: the server is read once.                                          *)
(***************************************************************************)
EXTENDS Naturals, FiniteSets

CONSTANTS
    MaxRows,       \* photo 1 is the newest
    PageLimit,       \* photos of a page
    Filters,         \* "all", and statuses
    Arriving,        \* the statuses photos have at first
    MaxAsks, MaxConfirms, MaxLost   \* bounds: requests for a list, confirmed deletions, failures

ASSUME PhotoLibraryAssumption ==
    /\ {MaxRows, PageLimit} \subseteq Nat \ {0}
    /\ {MaxAsks, MaxConfirms, MaxLost} \subseteq Nat
    /\ Filters \subseteq {"all", "PROCESSING", "FAILED"} /\ "all" \in Filters
    /\ Arriving \subseteq {"UPLOADING", "PROCESSING", "READY"}

VARIABLES
    row,             \* the server's status of a photo, or "gone"
    library,         \* the cached list of each filter
    fetch,           \* its request in flight
    status,          \* the filter the grid shows
    pendingDelete,   \* the photos the dialog is open for
    deletion,        \* the batch of deletions under way
    snapshots,       \* the lists as they were before the current one
    deleted,         \* the photos the page has reported deleted
    asks, confirms, lost

libraryVars == <<row, library, fetch, status, pendingDelete, deletion,
                 snapshots, deleted, asks, confirms, lost>>

Rows  == 1..MaxRows
Unsettled == {"UPLOADING", "PROCESSING"}
Nothing == [p \in Rows |-> "none"]

\* Data: what the pages show, the last cursor, how many there are and whether
\* there is more.
NoData  == [items |-> Nothing, cursor |-> 0, pages |-> 0, more |-> FALSE]
NoList  == [data |-> NoData, state |-> "pending", stale |-> TRUE, last |-> "first"]
NoLists == [f \in Filters |-> NoList]
NoFetch == [on |-> "none", data |-> NoData, read |-> FALSE]
NoDeletion == [todo |-> {}, photo |-> 0, call |-> "none"]

LibraryInit ==
    /\ row \in [Rows -> Arriving]
    /\ library = NoLists
    /\ fetch = [f \in Filters |-> IF f = "all" THEN [NoFetch EXCEPT !.on = "first"] ELSE NoFetch]
    /\ status = "all"
    /\ pendingDelete = {} /\ deletion = NoDeletion /\ snapshots = NoLists /\ deleted = {}
    /\ asks = 0 /\ confirms = 0 /\ lost = 0

-----------------------------------------------------------------------------
(* The lists                                                               *)

HasData(l) == l.data.pages > 0
ShownBy(l) == {p \in Rows : l.data.items[p] # "none"}
hasPendingPhotos(l) == \E p \in Rows : l.data.items[p] \in Unsettled

\* The panel reads "all", the grid the filter.
OnScreen(f) == f \in {"all", status}

Loss == lost < MaxLost /\ lost' = lost + 1

\* A request for a list: for all its pages again, or for one more on the data
\* it has.  Without data its errors are gone.
Sent(l, on) == [on   |-> IF HasData(l) THEN on ELSE "first", read |-> FALSE,
                data |-> IF on = "next" THEN l.data ELSE [NoData EXCEPT !.pages = l.data.pages]]
Started(l)  == IF HasData(l) THEN l ELSE [l EXCEPT !.state = "pending"]
Start(f, on) ==
    /\ asks < MaxAsks /\ asks' = asks + 1
    /\ fetch' = [fetch EXCEPT ![f] = Sent(library[f], on)]
    /\ library' = [library EXCEPT ![f] = Started(@)]

\* Its timer, every four seconds; nothing while a request is in flight.
Poll(f) ==
    /\ OnScreen(f) /\ hasPendingPhotos(library[f]) /\ fetch[f].on = "none"
    /\ Start(f, "again")
    /\ UNCHANGED <<row, status, pendingDelete, deletion, snapshots, deleted, confirms, lost>>

\* A filter: its list is asked for if there is none, if it was invalidated or
\* is older than thirty seconds.
setStatus(f) ==
    /\ pendingDelete = {} /\ f # status /\ status' = f
    /\ \/ fetch[f].on = "none" /\ Start(f, "again")
       \/ (fetch[f].on # "none" \/ ~library[f].stale) /\ UNCHANGED <<library, fetch, asks>>
    /\ UNCHANGED <<row, pendingDelete, deletion, snapshots, deleted, confirms, lost>>

\* Load more: instead of what the list is being asked for.
LoadMore ==
    /\ pendingDelete = {} /\ library[status].state = "success" /\ ShownBy(library[status]) # {}
    /\ library[status].data.more /\ fetch[status].on # "next"
    /\ Start(status, "next")
    /\ UNCHANGED <<row, status, pendingDelete, deletion, snapshots, deleted, confirms, lost>>

RefetchLibrary ==
    /\ pendingDelete = {} /\ library[status].state = "error"
    /\ HasData(library[status]) \/ fetch[status].on = "none"
    /\ Start(status, "again")
    /\ UNCHANGED <<row, status, pendingDelete, deletion, snapshots, deleted, confirms, lost>>

\* The server: photos that match, the n newest after a cursor.
Matching(f, after) == {p \in Rows : p > after /\ row[p] # "gone" /\ f \in {"all", row[p]}}
Newest(S, n)       == {p \in S : Cardinality({q \in S : q < p}) < n}
Largest(S, none)   == IF S = {} THEN none ELSE CHOOSE p \in S : \A q \in S : q <= p
PagesOf(S)         == IF S = {} THEN 1 ELSE (Cardinality(S) + PageLimit - 1) \div PageLimit

\* All the pages there were, from the first; or one after the last.
ListRead(f) ==
    LET old  == fetch[f].data
        next == fetch[f].on = "next"
        S    == Matching(f, IF next THEN old.cursor ELSE 0)
        got  == Newest(S, IF next \/ old.pages = 0 THEN PageLimit ELSE old.pages * PageLimit)
    IN  [items  |-> [p \in Rows |-> IF p \in got THEN row[p] ELSE IF next THEN old.items[p] ELSE "none"],
         cursor |-> Largest(got, old.cursor),
         pages  |-> PagesOf(got) + IF next THEN old.pages ELSE 0,
         more   |-> S # got]

ReadList(f) ==
    /\ fetch[f].on # "none" /\ ~fetch[f].read
    /\ fetch' = [fetch EXCEPT ![f] = [@ EXCEPT !.data = ListRead(f), !.read = TRUE]]
    /\ UNCHANGED <<row, library, status, pendingDelete, deletion, snapshots, deleted, asks, confirms, lost>>

\* The answer, or the second failure: the data stays, the grid shows the error.
LibraryAnswered(f) ==
    /\ \/ /\ fetch[f].read
          /\ library' = [library EXCEPT ![f] = [data |-> fetch[f].data, state |-> "success", stale |-> FALSE, last |-> fetch[f].on]]
          /\ UNCHANGED lost
       \/ fetch[f].on # "none" /\ Loss /\ library' = [library EXCEPT ![f].state = "error"]
    /\ fetch' = [fetch EXCEPT ![f] = NoFetch]
    /\ UNCHANGED <<row, status, pendingDelete, deletion, snapshots, deleted, asks, confirms>>

\* The worker.
Processed(p) ==
    /\ \/ row[p] = "UPLOADING" /\ row' = [row EXCEPT ![p] = "PROCESSING"]
       \/ row[p] = "PROCESSING" /\ \E s \in {"READY", "FAILED"} : row' = [row EXCEPT ![p] = s]
    /\ UNCHANGED <<library, fetch, status, pendingDelete, deletion, snapshots, deleted, asks, confirms, lost>>

-----------------------------------------------------------------------------
(* The selection and the dialog                                            *)

\* A photo that is shown has a tile, which offers to delete it or, in select
\* mode, to select it; the selection is what is shown of it.
LibraryTile(p) == library[status].state = "success" /\ p \in ShownBy(library[status])
PhotoGrid(photos) ==
    /\ pendingDelete = {} /\ photos # {} /\ \A p \in photos : LibraryTile(p)
    /\ pendingDelete' = photos
    /\ UNCHANGED <<row, library, fetch, status, deletion, snapshots, deleted, asks, confirms, lost>>

\* Escape, at any time; the buttons only while no deletion is under way.
isPending == deletion.photo # 0
DeletePhotoDialog ==
    /\ pendingDelete # {} /\ pendingDelete' = {}
    /\ UNCHANGED <<row, library, fetch, status, deletion, snapshots, deleted, asks, confirms, lost>>

-----------------------------------------------------------------------------
(* The deletion                                                            *)

withoutPhoto(l, p) ==
    IF HasData(l) THEN [l EXCEPT !.data.items[p] = "none", !.state = "success", !.stale = FALSE] ELSE l

\* onMutate, over the lists as they are: no request outlives it.
onMutate(lists, p, rest) ==
    /\ deletion' = [todo |-> rest, photo |-> p, call |-> "sent"]
    /\ snapshots' = lists
    /\ library' = [f \in Filters |-> withoutPhoto(lists[f], p)]
    /\ fetch' = [f \in Filters |-> NoFetch]

handleConfirmDelete ==
    /\ pendingDelete # {} /\ ~isPending
    /\ confirms < MaxConfirms /\ confirms' = confirms + 1
    /\ \E p \in pendingDelete : onMutate(library, p, pendingDelete \ {p})
    /\ UNCHANGED <<row, status, pendingDelete, deleted, asks, lost>>

\* The server deletes the photo, or has deleted it before; or the call fails,
\* before or after.
DeleteServed ==
    /\ deletion.call = "sent"
    /\ \E ends \in {"ok", "404", "error"} :
         /\ deletion' = [deletion EXCEPT !.call = ends]
         /\ \/ ends = "ok" /\ row[deletion.photo] # "gone" /\ row' = [row EXCEPT ![deletion.photo] = "gone"] /\ UNCHANGED lost
            \/ ends = "404" /\ row[deletion.photo] = "gone" /\ UNCHANGED <<row, lost>>
            \/ ends = "error" /\ Loss /\ row' \in {row, [row EXCEPT ![deletion.photo] = "gone"]}
    /\ UNCHANGED <<library, fetch, status, pendingDelete, snapshots, deleted, asks, confirms>>

\* onError: the snapshots, where there was data.
Restored == [f \in Filters |-> IF deletion.call # "ok" /\ HasData(snapshots[f])
                                THEN [snapshots[f] EXCEPT !.state = "success"] ELSE library[f]]

\* Mutant: nothing is asked for again.
notInvalidated(lists) == library' = lists /\ UNCHANGED fetch

\* onSettled: every list is old; those on screen are asked for, again if they
\* were and have data.
Invalidated(lists) == [f \in Filters |-> [lists[f] EXCEPT !.stale = TRUE]]
Refetched(lists) ==
    /\ fetch' = [f \in Filters |->
         IF OnScreen(f) /\ (HasData(lists[f]) \/ fetch[f].on = "none")
         THEN Sent(lists[f], "again") ELSE fetch[f]]
    /\ library' = [f \in Filters |-> IF OnScreen(f) THEN Started(lists[f]) ELSE lists[f]]

\* The loop goes on with the next photo, at once; after the last one the
\* dialog closes, whichever it is.
DeleteSettled ==
    /\ deletion.call \in {"ok", "404", "error"}
    /\ deleted' = deleted \cup IF deletion.call = "ok" THEN {deletion.photo} ELSE {}
    /\ LET settled == Invalidated(Restored)
       IN  \/ deletion.todo = {} /\ Refetched(settled) /\ deletion' = NoDeletion
              /\ pendingDelete' = {} /\ snapshots' = NoLists
           \/ \E p \in deletion.todo : onMutate(settled, p, deletion.todo \ {p}) /\ UNCHANGED pendingDelete
    /\ UNCHANGED <<row, status, asks, confirms, lost>>

-----------------------------------------------------------------------------
LibraryNext ==
    \/ \E f \in Filters : Poll(f) \/ setStatus(f) \/ ReadList(f) \/ LibraryAnswered(f)
    \/ LoadMore \/ RefetchLibrary \/ (\E photos \in SUBSET Rows : PhotoGrid(photos)) \/ DeletePhotoDialog
    \/ handleConfirmDelete \/ DeleteServed \/ DeleteSettled
    \/ \E p \in Rows : Processed(p)

LibrarySpec == LibraryInit /\ [][LibraryNext]_libraryVars
=============================================================================
