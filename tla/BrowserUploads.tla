--------------------------- MODULE BrowserUploads ---------------------------
(***************************************************************************)
(* The upload queue of the browser (features/photos): UploadQueue of       *)
(* uploader.ts, the registry in localStorage that outlives the page, the   *)
(* requests each attempt makes and what the server does with them, and the *)
(* photo list that settles the rows of the queue.                          *)
(*                                                                         *)
(* JavaScript runs to the next await, so an action is what runs between    *)
(* two awaits.  A process() in flight is a slot; its item is the object    *)
(* item[k], which the process keeps when the map drops k.  Leaving the     *)
(* page stops the queue and a new one is mounted later: the files up to    *)
(* `departed' belong to queues already left, whose processes may go on.    *)
(***************************************************************************)
EXTENDS Integers, FiniteSets

CONSTANTS
    MaxFiles, Size,               \* the files, by key, and their sizes
    MaxFileSize, MultipartFloor, PartSize,
    Concurrency, MaxAttempts,     \* of the queue
    MaxSlots, MaxPhotos,          \* bounds: process() calls, rows
    MaxTroubles, MaxLeaves        \* bounds: mishaps, departures and reloads

Keys    == 1..MaxFiles
Slots   == 1..MaxSlots
Photos  == 1..MaxPhotos
NoPhoto == 0
NoEntry == -1
NoSlot  == 0

ASSUME BrowserUploadsAssumption ==
    /\ {MaxFiles, MaxSlots, MaxPhotos, MaxTroubles, MaxLeaves} \subseteq Nat
    /\ {Concurrency, MaxAttempts, PartSize} \subseteq Nat \ {0}
    /\ Size \in [Keys -> Nat] /\ {MaxFileSize, MultipartFloor} \subseteq Nat

VARIABLES
    added,       \* files that have been given a key
    departed,    \* the files of queues already left
    mounted,     \* an UploadProvider is mounted
    items,       \* keys of the map of the mounted queue
    item,        \* the UploadItem of a key, in the map or kept by a process
    slot,        \* the process() calls
    controller,  \* AbortController by key: the slot that waits on it
    restored,    \* items made by reconcile: the photo, or NoPhoto
    todo,        \* entries reconcile has still to look at
    registry,    \* localStorage: the photo of an entry, or NoEntry
    ops,         \* cancels and discards waiting for an answer
    row, object, part,  \* the server: photos.status, the object, the parts
    file,        \* the file a row was made for
    troubles, leaves,
    disowned     \* history: rows the browser cannot be expected to know

uploadsVars == <<added, departed, mounted, items, item, slot, controller, restored, todo,
                 registry, ops, row, object, part, file, troubles, leaves, disowned>>

queueVars  == <<items, item, slot, controller>>
serverVars == <<row, object, part, file>>
pageVars   == <<added, departed, mounted, restored, todo, leaves>>

Statuses == {"queued", "uploading", "processing", "ready", "failed"}
Answers  == {"ok", "retry", "fatal"}

NewItem   == [status |-> "queued", attempts |-> 0, photo |-> NoPhoto, parts |-> {}]
NoProcess == [key |-> 0, pc |-> "idle", target |-> NoPhoto, parts |-> {}, error |-> "ok"]

validateFile(k) == Size[k] \in 1..MaxFileSize
uploadKindFor(k) == IF Size[k] >= MultipartFloor THEN "multipart" ELSE "simple"
PartNumbers(k) == 1..((Size[k] + PartSize - 1) \div PartSize)

UploadsInit ==
    /\ added = 0 /\ departed = 0 /\ mounted = TRUE
    /\ items = {}
    /\ item       = [k \in Keys |-> NewItem]
    /\ slot       = [s \in Slots |-> NoProcess]
    /\ controller = [k \in Keys |-> NoSlot]
    /\ restored   = [k \in Keys |-> NoPhoto]
    /\ todo       = [k \in Keys |-> NoEntry]
    /\ registry   = [k \in Keys |-> NoEntry]
    /\ ops = {}
    /\ row    = [p \in Photos |-> "none"]
    /\ object = [p \in Photos |-> "absent"]
    /\ part   = [p \in Photos |-> {}]
    /\ file   = [p \in Photos |-> 0]
    /\ troubles = 0 /\ leaves = 0
    /\ disowned = {}

-----------------------------------------------------------------------------
(* The queue                                                               *)

Rank(x, S) == Cardinality({y \in S : y <= x})

\* Where the first await of an attempt is.
Attempt(k, it) ==
    LET missing == IF it[k].photo # NoPhoto /\ uploadKindFor(k) = "multipart"
                   THEN PartNumbers(k) \ it[k].parts ELSE {}
        pc == IF it[k].photo = NoPhoto THEN "initialize"
              ELSE IF uploadKindFor(k) = "simple" THEN "presign"
              ELSE IF missing = {} THEN "join" ELSE "partUrls"
    IN [NoProcess EXCEPT !.key = k, !.pc = pc, !.target = it[k].photo, !.parts = missing]

\* An item that neither the map nor a process holds is collected.
Held(k, in, sl) == k \in in \/ \E s \in Slots : sl[s].key = k

Unpumped(it, in, sl, ct) ==
    /\ item'  = [k \in Keys |-> IF Held(k, in, sl) THEN it[k] ELSE NewItem]
    /\ items' = in /\ slot' = sl /\ controller' = ct

\* Starts queued items, oldest first, while fewer than Concurrency run.
Pump(it, in, sl, ct) ==
    LET waiting == {k \in in : it[k].status = "queued"}
        idle    == {s \in Slots : sl[s].pc = "idle"}
        active  == Cardinality({s \in Slots \ idle : sl[s].key > departed})
        started == {k \in waiting : Rank(k, waiting) <= Concurrency - active}
        Runs(s, k) == Rank(s, idle) = Rank(k, started)
    IN Unpumped(
         [k \in Keys |-> IF k \in started THEN [it[k] EXCEPT !.status = "uploading"] ELSE it[k]],
         in,
         [s \in Slots |-> IF s \in idle /\ \E k \in started : Runs(s, k)
                          THEN Attempt(CHOOSE k \in started : Runs(s, k), it) ELSE sl[s]],
         [k \in Keys |-> IF k \in started THEN CHOOSE s \in idle : Runs(s, k) ELSE ct[k]])

\* Mutant: a process ends and nobody is started in its place.
ReturnUnpumped(s, it, ct) == Unpumped(it, items, [slot EXCEPT ![s] = NoProcess], ct)

\* The process ends; its queue pumps, unless the page was left.
Return(s, it, ct) ==
    IF slot[s].key <= departed THEN Unpumped(it, items, [slot EXCEPT ![s] = NoProcess], ct)
                               ELSE Pump(it, items, [slot EXCEPT ![s] = NoProcess], ct)

\* Mutant: only an entry that is there already is written.
PersistKnown(k, p) == registry' = IF registry[k] = NoEntry THEN registry ELSE [registry EXCEPT ![k] = p]

Persist(k, p) == registry' = [registry EXCEPT ![k] = p]

\* The catch clause of process(): abort, another attempt, or failed.
Fail(s, why) ==
    LET k     == slot[s].key
        ct    == [controller EXCEPT ![k] = NoSlot]
        tried == [item EXCEPT ![k].attempts = @ + 1]
    IN IF why = "abort"
       THEN /\ Return(s, IF k \in items THEN [item EXCEPT ![k].status = "queued"] ELSE item, ct)
            /\ UNCHANGED registry
       ELSE IF why = "retry" /\ tried[k].attempts < MaxAttempts
       THEN /\ Unpumped([tried EXCEPT ![k].status = "queued"], items,
                        [slot EXCEPT ![s] = [NoProcess EXCEPT !.key = k, !.pc = "sleep"]], ct)
            /\ UNCHANGED registry
       ELSE /\ Return(s, [tried EXCEPT ![k].status = "failed"], ct)
            /\ Persist(k, item[k].photo)

Slept(s) ==
    LET k == slot[s].key IN
    /\ slot[s].pc = "sleep"
    /\ IF k \in items
       THEN Unpumped([item EXCEPT ![k].status = "uploading"], items,
                     [slot EXCEPT ![s] = Attempt(k, item)], [controller EXCEPT ![k] = s])
       ELSE Return(s, item, controller)
    /\ UNCHANGED <<pageVars, registry, ops, serverVars, troubles, disowned>>

\* A request that fails, or whose answer does.
Trouble == troubles < MaxTroubles /\ troubles' = troubles + 1

\* The next await of process s.
Await(s, pc, target) == slot' = [slot EXCEPT ![s].pc = pc, ![s].target = target]

Fresh == CHOOSE p \in Photos : row[p] = "none" /\ \A q \in Photos : row[q] = "none" => p <= q

\* The row of file k exists, or its photo is lost to the caller.
InsertRow(p, k) ==
    /\ row'  = [row EXCEPT ![p] = "UPLOADING"]
    /\ file' = [file EXCEPT ![p] = k]
    /\ UNCHANGED <<object, part>>

\* Another process has, or had since this attempt began, the same item.
Shared(s) == \/ item[slot[s].key].photo # slot[s].target
             \/ \E t \in Slots \ {s} : slot[t].key = slot[s].key

\* Initialize with a key of its own: a row, whose answer is on its way, ...
Initialize(s) ==
    /\ slot[s].pc = "initialize"
    /\ \E p \in Photos : row[p] = "none"
    /\ InsertRow(Fresh, slot[s].key)
    /\ Await(s, "initialized", Fresh)
    /\ disowned' = IF Shared(s) THEN disowned \cup {Fresh} ELSE disowned
    /\ UNCHANGED <<item, items, controller, pageVars, registry, ops, troubles>>

\* ... or it is refused, or lost before or after the server did it.
InitializeFails(s) ==
    /\ slot[s].pc = "initialize"
    /\ Trouble
    /\ \/ \E why \in {"retry", "fatal"} : Fail(s, why) /\ UNCHANGED <<serverVars, disowned>>
       \/ /\ \E p \in Photos : row[p] = "none"
          /\ InsertRow(Fresh, slot[s].key)
          /\ Fail(s, "retry")
          /\ disowned' = disowned \cup {Fresh}
    /\ UNCHANGED <<pageVars, ops>>

Initialized(s) ==
    LET k == slot[s].key
        p == slot[s].target
        known == [item EXCEPT ![k].photo = p]
    IN
    /\ slot[s].pc = "initialized"
    /\ item' = known
    /\ slot' = [slot EXCEPT ![s] = IF uploadKindFor(k) = "simple"
                                   THEN [@ EXCEPT !.pc = "put"] ELSE Attempt(k, known)]
    /\ Persist(k, p)
    /\ disowned' = IF {p, item[k].photo} \cap disowned # {}
                   THEN disowned \cup ({p, item[k].photo} \ {NoPhoto}) ELSE disowned
    /\ UNCHANGED <<items, controller, pageVars, ops, serverVars, troubles>>

\* A request is lost before the server sees it, or answered with a 5xx.
RequestLost(s) ==
    /\ slot[s].pc \in {"presign", "put", "partUrls", "join", "complete"}
    /\ Trouble
    /\ Fail(s, "retry")
    /\ UNCHANGED <<pageVars, ops, serverVars, disowned>>

\* Only an UPLOADING row is presigned again.
RePresign(s) ==
    /\ slot[s].pc = "presign"
    /\ IF row[slot[s].target] = "UPLOADING"
       THEN Await(s, "put", slot[s].target) /\ UNCHANGED <<item, items, controller, registry>>
       ELSE Fail(s, "fatal")
    /\ UNCHANGED <<pageVars, ops, serverVars, troubles, disowned>>

\* complete names the photo the item has by now.
Put(s) ==
    /\ slot[s].pc = "put"
    /\ object' = [object EXCEPT ![slot[s].target] = "stored"]
    /\ \/ /\ Await(s, "complete", item[slot[s].key].photo)
          /\ UNCHANGED <<item, items, controller, registry, troubles>>
       \/ Trouble /\ Fail(s, "retry")
    /\ UNCHANGED <<pageVars, ops, row, part, file, disowned>>

PartUrls(s) ==
    /\ slot[s].pc = "partUrls"
    /\ IF row[slot[s].target] # "gone"
       THEN Await(s, "parts", slot[s].target) /\ UNCHANGED <<item, items, controller, registry>>
       ELSE Fail(s, "fatal")
    /\ UNCHANGED <<pageVars, ops, serverVars, troubles, disowned>>

\* One part of the pool settles; the others go on whatever became of it.
PutPart(s) ==
    LET p == slot[s].target
        PartSettled(n, e) == slot' = [slot EXCEPT ![s].parts = @ \ {n},
                                              ![s].error = IF @ = "ok" THEN e ELSE @]
    IN
    /\ slot[s].pc = "parts"
    /\ \E n \in slot[s].parts :
          \/ /\ object[p] = "absent"
             /\ PartSettled(n, "ok")
             /\ part' = [part EXCEPT ![p] = @ \cup {n}]
             /\ item' = [item EXCEPT ![slot[s].key].parts = @ \cup {n}]
             /\ UNCHANGED troubles
          \/ object[p] # "absent" /\ PartSettled(n, "fatal") /\ UNCHANGED <<part, item, troubles>>
          \/ Trouble /\ PartSettled(n, "retry") /\ UNCHANGED <<part, item>>
    /\ UNCHANGED <<items, controller, pageVars, registry, ops, row, object, file, disowned>>

\* allSettled: the first rejection is thrown.  An aborted PUT ends here too.
PoolSettled(s) ==
    /\ slot[s].pc = "parts" /\ slot[s].parts = {}
    /\ IF slot[s].error = "ok"
       THEN Await(s, "join", slot[s].target) /\ UNCHANGED <<item, items, controller, registry>>
       ELSE Fail(s, slot[s].error)
    /\ UNCHANGED <<pageVars, ops, serverVars, troubles, disowned>>

\* The store takes the parts of one open upload, once.
CompleteMultipart(s) ==
    LET k == slot[s].key  p == slot[s].target IN
    /\ slot[s].pc = "join"
    /\ IF row[p] = "gone" THEN Fail(s, "fatal") /\ UNCHANGED <<object, troubles>>
       ELSE IF object[p] # "absent" \/ ~(item[k].parts \subseteq part[p])
       THEN Fail(s, "retry") /\ UNCHANGED <<object, troubles>>
       ELSE /\ object' = [object EXCEPT ![p] = "stored"]
            /\ \/ /\ Await(s, "complete", item[k].photo)
                  /\ UNCHANGED <<item, items, controller, registry, troubles>>
               \/ Trouble /\ Fail(s, "retry")
    /\ UNCHANGED <<pageVars, ops, row, part, file, disowned>>

\* The server completes the upload; its answer is on its way, or lost.
Complete(s) ==
    LET p == slot[s].target
        done == row[p] \in {"PROCESSING", "READY"} \/ (row[p] # "gone" /\ object[p] = "stored")
    IN
    /\ slot[s].pc = "complete"
    /\ row' = IF done /\ row[p] = "UPLOADING" THEN [row EXCEPT ![p] = "PROCESSING"] ELSE row
    /\ \/ /\ slot' = [slot EXCEPT ![s].pc = "completed", ![s].error = IF done THEN "ok" ELSE "fatal"]
          /\ UNCHANGED troubles
       \/ /\ Trouble
          /\ slot' = [slot EXCEPT ![s].pc = "completed", ![s].error = "retry"]
    /\ UNCHANGED <<item, items, controller, pageVars, registry, ops, object, part, file, disowned>>

Completed(s) ==
    LET k == slot[s].key IN
    /\ slot[s].pc = "completed"
    /\ IF slot[s].error = "ok"
       THEN /\ Return(s, [item EXCEPT ![k].status = "processing"], [controller EXCEPT ![k] = NoSlot])
            /\ Persist(k, item[k].photo)
       ELSE Fail(s, slot[s].error)
    /\ UNCHANGED <<pageVars, ops, serverVars, troubles, disowned>>

-----------------------------------------------------------------------------
(* The user                                                                *)

Ready == {k \in items : item[k].status = "ready"}
Forget(S) == registry' = [k \in Keys |-> IF k \in S THEN NoEntry ELSE registry[k]]

\* The buttons of a row; a restored row has no file to try again with.
isActive(k) == k \in items /\ item[k].status \in {"queued", "uploading", "processing"}
RowActions(k) ==
    (IF isActive(k) THEN {"cancel"} ELSE {})
    \cup (IF k \in items /\ item[k].status = "failed" THEN {"retry", "remove"} ELSE {})
    \cup (IF restored[k] # NoPhoto THEN {"remove"} ELSE {})

\* A dropped or chosen file; finished rows leave the queue.
AddFiles ==
    LET k == added + 1 IN
    /\ mounted /\ added < MaxFiles
    /\ added' = k
    /\ Pump(item, (items \ Ready) \cup (IF validateFile(k) THEN {k} ELSE {}), slot, controller)
    /\ Forget(Ready)
    /\ UNCHANGED <<departed, mounted, restored, todo, leaves, ops, serverVars, troubles, disowned>>

Retry(k) ==
    /\ "retry" \in RowActions(k)
    /\ Pump([item EXCEPT ![k].status = "queued", ![k].attempts = 0], items, slot, controller)
    /\ UNCHANGED <<pageVars, registry, ops, serverVars, troubles, disowned>>

\* abort() reaches the PUTs in flight, and nothing else.
Abort(s) ==
    IF slot[s].pc = "put" \/ (slot[s].pc = "parts" /\ slot[s].parts # {})
    THEN [slot[s] EXCEPT !.pc = "parts", !.parts = {}, !.error = IF @ = "ok" THEN "abort" ELSE @]
    ELSE slot[s]

\* Out of the map before the first await; then the requests that undo it.
Cancel(k) ==
    LET aborted == [s \in Slots |-> IF controller[k] = s THEN Abort(s) ELSE slot[s]]
        ct == [controller EXCEPT ![k] = NoSlot]
    IN
    /\ "cancel" \in RowActions(k)
    /\ Forget({k})
    /\ IF item[k].photo = NoPhoto
       THEN Pump(item, items \ {k}, aborted, ct) /\ UNCHANGED ops
       ELSE /\ Unpumped(item, items \ {k}, aborted, ct)
            /\ ops' = ops \cup {[op |-> IF uploadKindFor(k) = "multipart" THEN "abort" ELSE "delete",
                                 key |-> k, photo |-> item[k].photo]}
    /\ UNCHANGED <<pageVars, serverVars, troubles, disowned>>

\* Whatever comes of the abort, the photo is deleted next.
AbortAnswered(o) ==
    LET p == o.photo IN
    /\ o \in ops /\ o.op = "abort"
    /\ \/ /\ row[p] # "gone" /\ object[p] = "absent"
          /\ object' = [object EXCEPT ![p] = "aborted"]
          /\ row' = [row EXCEPT ![p] = IF @ = "READY" THEN @ ELSE "FAILED"]
          /\ UNCHANGED troubles
       \/ (row[p] = "gone" \/ object[p] # "absent") /\ UNCHANGED <<row, object, troubles>>
       \/ Trouble /\ UNCHANGED <<row, object>>
    /\ ops' = (ops \ {o}) \cup {[op |-> "delete", key |-> o.key, photo |-> IF Held(o.key, {}, slot) THEN item[o.key].photo ELSE p]}
    /\ UNCHANGED <<queueVars, pageVars, registry, part, file, disowned>>

\* DELETE is answered (404 is as good), or fails with the photo left behind.
CancelDeleted(o) ==
    /\ o \in ops /\ o.op = "delete"
    /\ \/ row' = [row EXCEPT ![o.photo] = "gone"] /\ UNCHANGED <<troubles, disowned>>
       \/ Trouble /\ disowned' = disowned \cup {o.photo} /\ UNCHANGED row
    /\ ops' = ops \ {o}
    /\ IF o.key > departed THEN Pump(item, items, slot, controller) ELSE UNCHANGED queueVars
    /\ UNCHANGED <<pageVars, registry, object, part, file>>

Discard(k) ==
    LET p == IF restored[k] # NoPhoto THEN restored[k] ELSE item[k].photo IN
    /\ "remove" \in RowActions(k)
    /\ IF p = NoPhoto
       THEN Unpumped(item, items \ {k}, slot, controller) /\ Forget({k}) /\ UNCHANGED ops
       ELSE ops' = ops \cup {[op |-> IF p = restored[k] THEN "remove" ELSE "discard", key |-> k, photo |-> p]} /\ UNCHANGED <<queueVars, registry>>
    /\ UNCHANGED <<pageVars, serverVars, troubles, disowned>>

\* Only a photo that is gone leaves the queue and the registry.
Discarded(o) ==
    /\ o \in ops /\ o.op \in {"discard", "remove"}
    /\ ops' = ops \ {o}
    /\ \/ /\ row' = [row EXCEPT ![o.photo] = "gone"]
          /\ Forget({o.key})
          /\ Unpumped(item, items \ {o.key}, slot, controller)
          /\ restored' = [restored EXCEPT ![o.key] = IF o.op = "remove" THEN NoPhoto ELSE @]
          /\ UNCHANGED troubles
       \/ Trouble /\ UNCHANGED <<queueVars, row, registry, restored>>
    /\ UNCHANGED <<added, departed, mounted, todo, leaves,
                   object, part, file, disowned>>

\* Drops the rows of the queue; the photos stay in the library.
ClearFinished ==
    /\ Ready # {}
    /\ Unpumped(item, items \ Ready, slot, controller)
    /\ Forget(Ready)
    /\ UNCHANGED <<pageVars, ops, serverVars, troubles, disowned>>

\* The provider unmounts: the PUTs abort, the rest goes on unseen.
AbortAll ==
    /\ mounted /\ leaves < MaxLeaves
    /\ leaves' = leaves + 1 /\ mounted' = FALSE /\ departed' = added
    /\ Unpumped([k \in Keys |-> IF k \in items /\ item[k].status = "uploading"
                                THEN [item[k] EXCEPT !.status = "queued"] ELSE item[k]],
                {}, [s \in Slots |-> IF slot[s].pc # "idle" /\ controller[slot[s].key] = s
                                     THEN Abort(s) ELSE slot[s]],
                controller)
    /\ restored' = [k \in Keys |-> NoPhoto]
    /\ UNCHANGED <<added, todo, registry, ops, serverVars, troubles, disowned>>

\* The tab reloads or closes: whatever was on its way is not heard of again.
ReloadTab ==
    /\ leaves < MaxLeaves
    /\ leaves' = leaves + 1 /\ mounted' = FALSE /\ departed' = added
    /\ Unpumped(item, {}, [s \in Slots |-> NoProcess], [k \in Keys |-> NoSlot])
    /\ restored' = [k \in Keys |-> NoPhoto]
    /\ todo' = [k \in Keys |-> NoEntry]
    /\ ops' = {}
    /\ disowned' = disowned \cup {slot[s].target : s \in {t \in Slots : slot[t].pc = "initialized"}}
                            \cup {o.photo : o \in {q \in ops : q.op \in {"abort", "delete"}}}
    /\ UNCHANGED <<added, registry, serverVars, troubles>>

\* A new queue, which reads the registry: the one left has heard all it asked.
Mount ==
    /\ ~mounted /\ todo = [k \in Keys |-> NoEntry]
    /\ mounted' = TRUE
    /\ todo' = registry
    /\ UNCHANGED <<queueVars, added, departed, restored, leaves, registry, ops, serverVars, troubles, disowned>>

\* One entry: unfinished uploads come back as rows, the others are dropped.
\* A queue that was left goes on asking, and its rows are not seen.
Reconcile(k) ==
    LET p == todo[k] IN
    /\ p # NoEntry
    /\ todo' = [todo EXCEPT ![k] = NoEntry]
    /\ \/ /\ p # NoPhoto => row[p] \in {"PROCESSING", "READY", "gone"}
          /\ Forget({k})
          /\ disowned' = disowned \cup ({registry[k]} \ {p, NoPhoto, NoEntry})
          /\ UNCHANGED <<restored, troubles>>
       \/ /\ p # NoPhoto /\ row[p] \in {"UPLOADING", "FAILED"}
          /\ restored' = IF mounted THEN [restored EXCEPT ![k] = p] ELSE restored
          /\ UNCHANGED <<registry, troubles, disowned>>
       \/ p # NoPhoto /\ Trouble /\ UNCHANGED <<restored, registry, disowned>>
    /\ UNCHANGED <<queueVars, added, departed, mounted, leaves, ops, serverVars>>

-----------------------------------------------------------------------------
(* The list of photos, and the server                                      *)

\* A list that has been fetched settles the rows whose photos are done.
SettledItem(k) == IF k \in items /\ item[k].status = "processing" /\ row[item[k].photo] \in {"READY", "FAILED"}
              THEN [item[k] EXCEPT !.status = IF row[item[k].photo] = "READY" THEN "ready" ELSE "failed"]
              ELSE item[k]

ApplyPhotoStatuses ==
    /\ mounted
    /\ item' = [k \in Keys |-> SettledItem(k)]
    /\ UNCHANGED <<items, slot, controller, pageVars, registry, ops, serverVars, troubles, disowned>>

ProcessPhoto(p) ==
    /\ row[p] = "PROCESSING"
    /\ \/ row' = [row EXCEPT ![p] = "READY"] /\ UNCHANGED troubles
       \/ Trouble /\ row' = [row EXCEPT ![p] = "FAILED"]
    /\ UNCHANGED <<queueVars, pageVars, registry, ops, object, part, file, disowned>>

FailStaleUploads(p) ==
    /\ row[p] = "UPLOADING" /\ Trouble
    /\ row' = [row EXCEPT ![p] = "FAILED"]
    /\ UNCHANGED <<queueVars, pageVars, registry, ops, object, part, file, disowned>>

\* From the grid, or another tab.
DeletePhoto(p) ==
    /\ row[p] \in {"UPLOADING", "PROCESSING", "READY", "FAILED"} /\ Trouble
    /\ row' = [row EXCEPT ![p] = "gone"]
    /\ UNCHANGED <<queueVars, pageVars, registry, ops, object, part, file, disowned>>

-----------------------------------------------------------------------------
Process(s) ==
    \/ Initialize(s) \/ InitializeFails(s) \/ Initialized(s) \/ RequestLost(s)
    \/ RePresign(s) \/ Put(s) \/ PartUrls(s) \/ PutPart(s) \/ PoolSettled(s)
    \/ CompleteMultipart(s) \/ Complete(s) \/ Completed(s) \/ Slept(s)

Answer(o) == AbortAnswered(o) \/ CancelDeleted(o) \/ Discarded(o)

UploadsNext ==
    \/ \E s \in Slots : Process(s)
    \/ \E o \in ops : Answer(o)
    \/ AddFiles \/ ClearFinished \/ AbortAll \/ ReloadTab \/ Mount \/ ApplyPhotoStatuses
    \/ \E k \in Keys : Retry(k) \/ Cancel(k) \/ Discard(k) \/ Reconcile(k)
    \/ \E p \in Photos : ProcessPhoto(p) \/ FailStaleUploads(p) \/ DeletePhoto(p)

UploadsSpec == UploadsInit /\ [][UploadsNext]_uploadsVars

\* The browser goes on while the page is open, requests are answered or
\* time out, and the list is polled; the user owes nothing.
UploadsFairness ==
    /\ \A s \in Slots : WF_uploadsVars(Process(s))
    /\ \A p \in Photos : WF_uploadsVars(ProcessPhoto(p))
    /\ WF_uploadsVars(\E o \in ops : Answer(o))
    /\ WF_uploadsVars(ApplyPhotoStatuses)

FairUploadsSpec == UploadsSpec /\ UploadsFairness
=============================================================================
