----------------------------- MODULE ExportCard -----------------------------
(***************************************************************************)
(* The card that asks for an archive of an event and follows it to the     *)
(* download (features/events/export-card.tsx).  The id of the export is    *)
(* kept in the tab's session storage; its status is a cached query, polled *)
(* while the archive is made.  An export that is ready expires by the      *)
(* clock first, then by the cleanup job.                                   *)
(***************************************************************************)
EXTENDS Naturals, FiniteSets

CONSTANTS
    MaxArchives,      \* bound: exports of the event
    MaxMishaps       \* bound: failed requests and enqueues, and a purge

ASSUME ExportCardAssumption == {MaxArchives, MaxMishaps} \subseteq Nat

VARIABLES
    job,             \* the server's exports
    overdue,         \* those past their expiresAt
    storage,         \* session storage can be used
    exportId,        \* the id stored in it, or 0
    exportQuery,     \* the cached query of each id
    asked,           \* its request in flight
    createExport,    \* the mutation, and the export it is answered with
    now,             \* the exports the card's clock has seen expire
    mishaps

exportVars == <<job, overdue, storage, exportId, exportQuery, asked, createExport, now, mishaps>>

Ids    == 1..MaxArchives
Active == {"pending", "processing"}
NoQuery == [status |-> "none", url |-> FALSE, error |-> "none"]
NoCreate == [on |-> "idle", id |-> 0, status |-> "none"]
NoAsk   == [on |-> FALSE, answer |-> NoQuery]

ExportInit ==
    /\ job = [i \in Ids |-> "none"] /\ overdue = {}
    /\ storage \in BOOLEAN /\ exportId = 0
    /\ exportQuery = [i \in Ids |-> NoQuery] /\ asked = [i \in Ids |-> NoAsk]
    /\ createExport = NoCreate /\ now = {} /\ mishaps = 0

Mishap == mishaps < MaxMishaps /\ mishaps' = mishaps + 1

-----------------------------------------------------------------------------
(* What the card shows                                                     *)

\* Of the export whose id is stored; without one the query is disabled.
Shown     == IF exportId = 0 THEN NoQuery ELSE exportQuery[exportId]
isWorking == Shown.status \in Active
expiredByClock == Shown.status = "ready" /\ exportId \in now
showReady   == Shown.status = "ready" /\ ~expiredByClock

\* Mutant: the clock does not count.
expiredByStatus == Shown.status = "expired"
showExpired == Shown.status = "expired" \/ expiredByClock

\* The buttons, of an event with photos: without any the card asks for them.
\* What may not be pressed meanwhile, a download while the query is fetched and
\* a new export while one is asked for, is a guard of the handler.
Buttons ==
    {b \in {"create", "download", "again", "retry"} :
        CASE b = "create"   -> exportId = 0
          [] b = "download" -> showReady
          [] b = "again"    -> showReady \/ Shown.status = "failed" \/ showExpired
          [] b = "retry"    -> exportId # 0 /\ Shown.error = "5xx"}

\* Mutant: a claimed export is not polled.
pendingOnly(status) == status = "pending"

\* Polled every five seconds, also after a failure.
exportRefetchInterval(status) == status \in Active

-----------------------------------------------------------------------------
(* The query                                                               *)

AskExport ==
    /\ exportId # 0 /\ asked[exportId] = NoAsk
    /\ asked' = [asked EXCEPT ![exportId].on = TRUE]
    /\ exportQuery' = [exportQuery EXCEPT ![exportId].error = IF Shown.status = "none" THEN "none" ELSE @]
    /\ UNCHANGED <<job, overdue, storage, exportId, createExport, now, mishaps>>

\* The card is mounted, or mounted again, with a query that has no data or old data.
MountCard  == AskExport /\ Shown.error = "none"
PollExport == exportRefetchInterval(Shown.status) /\ AskExport
RetryAsk   == "retry" \in Buttons /\ AskExport

\* The server: a URL for an archive that has not expired.
ExportView(i) == [status |-> job[i], url |-> job[i] = "ready" /\ i \notin overdue, error |-> "none"]

ReadExport(i) ==
    /\ asked[i].on /\ asked[i].answer = NoQuery
    /\ asked' = [asked EXCEPT ![i].answer = IF job[i] = "gone" THEN [NoQuery EXCEPT !.error = "404"] ELSE ExportView(i)]
    /\ UNCHANGED <<job, overdue, storage, exportId, exportQuery, createExport, now, mishaps>>

\* A view, or not found: the card forgets the id; or a failure.
ExportAnswered(i) ==
    /\ \E ends \in {"ok", "404", "5xx"} :
         /\ ends = "5xx" => Mishap /\ asked[i].on
         /\ ends # "5xx" => asked[i].answer # NoQuery /\ (ends = "404" <=> asked[i].answer.error = "404") /\ UNCHANGED mishaps
         /\ exportQuery' = [exportQuery EXCEPT ![i] = IF ends = "ok" THEN asked[i].answer ELSE [@ EXCEPT !.error = ends]]
         /\ exportId' = IF ends = "404" /\ exportId = i THEN 0 ELSE exportId
    /\ asked' = [asked EXCEPT ![i] = NoAsk]
    /\ UNCHANGED <<job, overdue, storage, createExport, now>>

\* It then goes to the URL the query has, which changes nothing here.
handleDownload == "download" \in Buttons /\ AskExport

-----------------------------------------------------------------------------
(* The mutation                                                            *)

handleCreate ==
    /\ Buttons \cap {"create", "again"} # {} /\ createExport = NoCreate
    /\ createExport' = [NoCreate EXCEPT !.on = "sent"]
    /\ UNCHANGED <<job, overdue, storage, exportId, exportQuery, asked, now, mishaps>>

\* The server answers with the export under way, or with a new one.
CreateServed ==
    /\ createExport.on = "sent"
    /\ \E i \in Ids :
         /\ \/ job[i] \in Active /\ UNCHANGED job
            \/ (\A j \in Ids : job[j] \notin Active) /\ i = Cardinality({j \in Ids : job[j] # "none"}) + 1
               /\ job' = [job EXCEPT ![i] = "pending"]
         /\ createExport' = [on |-> "served", id |-> i, status |-> job'[i]]
    /\ UNCHANGED <<overdue, storage, exportId, exportQuery, asked, now, mishaps>>

\* The answer is put in the cache and the id stored, where that works.
CreateAnswered ==
    /\ createExport # NoCreate /\ createExport' = NoCreate
    /\ \/ /\ createExport.on = "served"
          /\ exportQuery' = [exportQuery EXCEPT ![createExport.id] = [NoQuery EXCEPT !.status = createExport.status]]
          /\ exportId' = IF storage THEN createExport.id ELSE 0
          /\ UNCHANGED mishaps
       \/ Mishap /\ UNCHANGED <<exportQuery, exportId>>
    /\ UNCHANGED <<job, overdue, storage, asked, now>>

\* The tab is reloaded: the cache is gone, the id is not.
Reload ==
    /\ Mishap
    /\ exportQuery' = [i \in Ids |-> NoQuery] /\ asked' = [i \in Ids |-> NoAsk] /\ createExport' = NoCreate /\ now' = {}
    /\ UNCHANGED <<job, overdue, storage, exportId>>

-----------------------------------------------------------------------------
(* The worker, the clock, and the event's purge                            *)

WorkExport(i) ==
    /\ \/ job[i] = "pending" /\ job' = [job EXCEPT ![i] = "processing"]
       \/ job[i] = "processing" /\ \E s \in {"ready", "failed"} : job' = [job EXCEPT ![i] = s]
    /\ UNCHANGED <<overdue, storage, exportId, exportQuery, asked, createExport, now, mishaps>>

Elapse(i) ==
    /\ \/ job[i] = "ready" /\ i \notin overdue /\ overdue' = overdue \cup {i} /\ UNCHANGED <<job, now>>
       \/ i \in overdue /\ job[i] = "ready" /\ job' = [job EXCEPT ![i] = "expired"] /\ UNCHANGED <<overdue, now>>
       \/ i \in overdue \ now /\ now' = now \cup {i} /\ UNCHANGED <<job, overdue>>
    /\ UNCHANGED <<storage, exportId, exportQuery, asked, createExport, mishaps>>

PurgeExport(i) ==
    /\ job[i] # "none" /\ Mishap
    /\ job' = [job EXCEPT ![i] = "gone"]
    /\ UNCHANGED <<overdue, storage, exportId, exportQuery, asked, createExport, now>>

-----------------------------------------------------------------------------
ExportNext ==
    \/ MountCard \/ PollExport \/ RetryAsk \/ handleDownload
    \/ handleCreate \/ CreateServed \/ CreateAnswered \/ Reload
    \/ \E i \in Ids : ReadExport(i) \/ ExportAnswered(i) \/ WorkExport(i) \/ Elapse(i) \/ PurgeExport(i)

\* The timers fire, requests end, the worker works.
ExportFairness ==
    /\ WF_exportVars(MountCard) /\ WF_exportVars(PollExport)
    /\ \A i \in Ids : WF_exportVars(ReadExport(i)) /\ WF_exportVars(ExportAnswered(i)) /\ WF_exportVars(WorkExport(i))

ExportSpec == ExportInit /\ [][ExportNext]_exportVars /\ ExportFairness
=============================================================================
