# Verification of cloud-photo-delivery

TLA+ models of cloud-photo-delivery: photographers create events and upload
photos straight to an S3 compatible store (R2), a worker makes derivatives,
guests look at the gallery in a browser, background jobs expire, purge and
export. Both halves are modelled: the Go backend (`internal/`, `cmd/`,
`migrations/`) and the web client (`apps/web/src`).

Run everything from this directory:

    tlc -config JobQueue_exclusive.cfg MCJobQueue.tla    # a run of PROJECT.json
    tlapm JobQueueProofs.tla                             # a module of proofs

## Inventory

The backend:

| Part | State | Operations | Talks to | Hard behaviour |
|---|---|---|---|---|
| `internal/jobs` queue, poller, scheduler | table `jobs`; goroutines of each worker process | Enqueue, EnqueueUnique, Claim, Complete, Fail, Release; loop/handle; ticks | every component that enqueues or handles a job | two workers, row locks, retries, shutdown and crash between statements |
| `internal/uploads` | tables `photos`, `upload_idempotency`, `upload_parts` | Initialize, InitializeMultipart, Parts, Complete, CompleteMultipart, Abort, RePresign | photos, object store, job queue, billing limits | steps that are not one transaction: object store, then database, then queue; client retries |
| `internal/photos` | table `photos`, counters `events.photo_count`, `events.storage_bytes`, `users.storage_bytes` | List, URL, Delete; jobs PROCESS_PHOTO, object.cleanup, uploads.stale_sweep | object store, job queue | processor against abort, delete and sweep; counters |
| `internal/events` | tables `events`, `event_settings` | Create, Update, Extend, Activate/Archive/Reactivate, Delete, UpdateSettings; jobs event.expire, event.purge | photos, exports (cascade), object store | scans that read a list and act on it later |
| `internal/exports` | table `exports`, archives in the store | Create, Get, List; jobs zip.generate, export.cleanup | job queue, photos, object store | check then insert; late generator against cleanup |
| `internal/billing` | tables `subscriptions`, `invoices`, `webhook_events`, plans | Subscribe, Cancel, Resume, change plan, webhook | payment provider | duplicated, reordered and retried webhooks; periods that end |
| `internal/auth`, `internal/users` | tables `users`, `refresh_tokens`, `password_reset_tokens`; the branding columns | Register, Login, Refresh, Logout, reset; branding and profile | object store | rotation races, reuse; read, merge, write |
| `internal/devices` | table `devices` | Create, Rotate, Revoke, Authenticate | | a key shown once against the next rotation |
| `internal/gallery` | none of its own; unlock tokens | GetEvent, Unlock, PhotoURL, BatchPhotoURLs | events, photos, object store | tokens that expire |
| `internal/analytics`, `internal/admin`, `pkg/httpx` limiter, `internal/qr`, config, metrics, logging, audit, mail | counters; buckets | | | nothing that several steps share |

The web client:

| Part | State | Operations | Talks to | Hard behaviour |
|---|---|---|---|---|
| `features/photos/uploader.ts` | the queue's items, the processes in flight, the registry in `localStorage` | add, pump, process, pause, cancel, retry, dispose, restore | uploads, photos | everything between two awaits; a reload, a lost answer, a cancel in flight |
| `features/photos` list and dialogs | cached lists per filter, their requests, the dialog | load more, poll, delete one or many, restore | photos | optimistic removal against refetch and refusal |
| `lib/auth` | session of each tab, lock between tabs, refresh cookie; the Next server's requests | refresh, sign in, log out, reload | auth | rotation by several tabs, requests nobody waits for |
| `features/gallery` | unlock token, gate, list, viewer, URL cache with its batches | unlock, list, view, download | gallery | promises shared by components, cleared under them |
| `features/billing` | cached subscription, dialogs and their mutations | subscribe, change, cancel, resume | billing | what is offered against what is accepted |
| `features/events` export card | export id in `sessionStorage`, cached status | create, poll, download | exports | an archive that fails, expires or is purged while followed |
| `features/events` forms | form values, cached settings, requests | create with settings, save, refetch | events | two calls; a save that reads and then writes the whole row, beside another client's |
| `features/devices` | dialogs, their mutations, the key shown | create, rename, rotate, revoke | devices | dialogs left with a mutation in flight |
| `features/branding` | form, staged logo, uploads | edit, upload, save, discard | users | uploads that end during and after a save |
| other pages, `packages/*` | lists; rendering | | | |

How they meet. A request of the API is a goroutine that makes its calls one
after the other: a statement on a pooled connection (READ COMMITTED), a call to
the store, an insert into table `jobs`. Few places use a transaction: `Claim` and
`Fail` of the queue, `MarkProcessing` and `DeleteOwned` of photos, `Create` and
`PurgeEvent` of events, and the recording of analytics. A worker (any number of
processes may be deployed, `Deployment.md:13`, each with `WORKER_CONCURRENCY`
goroutines and a scheduler) claims the rows of `jobs` and calls the handlers
the components registered; its scheduler inserts the periodic types at their
intervals. So the components never call each other
back: they meet in the rows, the objects and the jobs, which is where the
models put their variables.

A page of the web client is one thread that runs from one await to the next.
Its pages share little: the session, and a cache of queries by key. They meet
the backend in requests whose answer may be late, lost, or an error, and they
meet each other (tabs, reloads) in cookies, `localStorage` and the rows. So a
web module has the page's state, the rows it is about with the server's
handler for them, and what another tab, job or clock does to those rows.

What makes each part correct:

| Part | Properties |
|---|---|
| jobs | a job is run by one goroutine at a time; attempts are counted exactly; a row is lost only with its process; every job ends; no more instances of a periodic type than processes; a process told to stop does |
| uploads | a plan is exceeded by a known bound only; a key answers with a photo of the body it came with, and makes a known number of photos only; a photo is counted once, when its object is there; its job is queued once |
| photos | the counters cover what is stored; a status only moves on; a delete of a processed photo removes all objects |
| events | a plan's live events are exceeded by a known bound only, its retention not at all; only what is past grace is purged, and it is; a purge leaves no object and no bytes |
| exports | an archive has every photo; nothing stays in PROCESSING; an expired archive is gone for good |
| billing | what the page offers the server accepts; a webhook that found its row and was answered has had its effect |
| sessions | a token family has one usable token; tabs do not lose their session to each other; an ended session is over |
| devices, branding, forms | a key that is shown works; a logo that is named is stored; what is stored of an event's access fits together |
| gallery page | no component waits for ever for a URL; who holds a token is not asked for the password |
| upload queue, photo list, export card | no upload is forgotten, a file becomes a known number of photos only, and each upload ends; no deleted photo comes back; the card always offers a way on |

## Plan

The order the models were written in: `JobQueue` with its abstract life cycle
first, since every other component relies on it; then the pipeline of a photo,
exports, events and admission, in which several writers meet in one row; then
the web client, the largest part of the code and the one with the fewest tests
of interleavings, each page with the server's side of it; last the proofs that
do not depend on what TLC can enumerate. Each abstract promise is stated in the
`Props` module of its component; `JobLifecycle` is the one that is a
specification of its own, because the other models are built on it.

Left for later, in order: the composition of `event.purge` with an export and a
processor at work on the event, which no run covers; the names of ZIP entries as
a function.

## Modules

Each component has its model (`X`), its properties (`XProps`), a module of
instances for TLC (`MCX`, where constants need more than a `.cfg` can say) and,
where something is proved, `XProofs`. The pages of the web client share two
modules of proofs: `WebPagesProofs` is about the components of `WebPages`,
`WebDashboardProofs` about those of `WebDashboard`, the session and the upload
queue.
`FiniteSums` has the lemmas several of them need: every set of numbers has a
least, and what a sum over a finite set becomes when one term changes. A
definition marked "Mutant" is a wrong form of the operator after it: it shows
that a property can fail. It is never part of `Next`.

| Module | Code | Correspondence |
|---|---|---|
| `JobQueue` | `internal/jobs`, `cmd/worker` | `status`, `attempts`, `lockedBy` are columns; `due` and `earlier` stand for `run_at` (past, and the order among due rows); `proc` is the life of a process, `pc` and `cur` where each goroutine is in `loop` and `handle`. `ClaimSelect` locks a row (`FOR UPDATE SKIP LOCKED`), `ClaimCommit`, `ClaimCommitUnseen` and `ClaimRollback` end its transaction. `Complete`, `Fail`, `Release` update by id alone, as the code does. `EnqueueUnique` is a check and an insert, as READ COMMITTED allows. `Shutdown` cancels the context: `Complete` then fails where `Fail` and `Release`, which use `context.WithoutCancel`, do not |
| `JobLifecycle` | the interface `Queue` of `job.go` | what one row goes through: submit, take, succeed, retry, give up, put back, lose |
| `PhotoPipeline` | `internal/uploads`, `internal/photos` | one step per call to database, store or queue. `row` and the three counters change in the transactions of `MarkProcessing` and `DeleteOwned`; `op` and `arg` say which call a request makes next; `work` and `clean` are the jobs of a photo, in the states `JobQueue` allows |
| `Exports` | `internal/exports` | `Create` is find, insert, enqueue; the generation lists in pages by a keyset, newest first, while photos come and go; `export.cleanup` acts on lists it read before |
| `EventLifecycle` | `internal/events` | each service method is read, check, write; the clock counts days; both jobs act on lists they read before. A purge reads the keys, deletes object by object, then the row and the bytes |
| `UploadAdmission` | `Initialize` and `Complete` of `internal/uploads` | the calls of `initialize` in their order: event open, photos, bytes, key, store, insert, record of the key, answer. `record` is `upload_idempotency`, with its unique key and its foreign key |
| `BrowserUploads` | `uploader.ts`, `storage.ts` (the registry) and the uploads they call | an action is what runs between two awaits. A `process()` in flight is a slot, which keeps its item when the map drops it; the registry and the server's rows outlive the page. Leaving a page stops its queue, whose processes may go on beside the next one's |
| `WebSession` | `lib/auth`, the Next route handlers, `internal/auth` | tabs with the session each holds in memory, the lock they queue for, the cookie, the requests at the Next server, the families of refresh tokens. A request carries the cookie of the moment it was sent; its answer reaches a tab that still waits |
| `GalleryUrls`, `WebGallery` | `features/gallery` | the former is the URL cache: a promise is named by what settles it, the batch being collected or one in flight. The latter extends it with the gate, the token, the list and the viewer; a 401 to any request drops the token and the URLs |
| `PhotoLibrary` | the list and the deletions of `features/photos` | a cached list per filter with at most one request; a deletion cancels, removes, asks, restores if refused, and asks for the lists again |
| `Billing` | `internal/billing`, `features/billing` | rows of subscriptions and invoices; a change is read, write and invoice, in the handler's statements; the page's dialog and query; another page of the operator; webhooks recorded, applied where there is a row for them, and taken back when they fail; a change whose page was left; periods that end |
| `ExportCard` | `export-card.tsx` and its hooks | the stored id, the query's data and error, its polling, the download's refetch, the mutation, a reload; beside them the worker, the clock and a purge |
| `EventForms` | `event-form.tsx`, `settings-form.tsx`, `schema.ts`, the rules for settings of `internal/events` | the two calls that make an event, the form of its settings, the cached settings; the handler's read, check and write of all columns; another client's save between them. A field is what access depends on; a password is whether there is one |
| `DeviceKeys` | `devices-panel.tsx`, its dialogs, `internal/devices` | a target and a mutation per dialog, the key that is shown, the list, the keys the server takes |
| `BrandingForm` | `branding-form.tsx`, `asset-upload.tsx`, `internal/users` | the fields typed, the patch of those that changed, uploads with their second attempt, the staged logo, discarding; the server's read, merge and write |
| `WebPages` | | `PhotoLibrary`, `Billing` and `WebGallery`, of which one is open (`tab`) |
| `WebDashboard` | | `ExportCard`, `EventForms`, `DeviceKeys` and `BrandingForm`, of which one is open (`screen`) |

`PhotoPipeline`, `Exports` and `EventLifecycle` do not repeat the queue: their
jobs are run by one holder, retried until attempts run out, or lost, which is
what `ImplementsLifecycle` shows of `JobQueue`. `UploadAdmission` and
`PhotoPipeline` share the row of a photo: the former stops at PROCESSING, the
latter lets every upload in. `WebPages` and `WebDashboard` are not
interleavings: the pages have no state in common that both change, so one run
explores each of them, and the state of a page that is closed does not move.

## Runs

| Run | Question | Bounds |
|---|---|---|
| `jobs_exclusive` | Can a job be run twice at once, or its attempts be miscounted? Does the queue implement `JobLifecycle`? | 2 processes of 2 goroutines, 3 rows, 2 attempts, 1 stop or crash, 1 failed call |
| `jobs_worker` | How many instances of a periodic type can several schedulers have in flight? Does every queued job end, and every process that is told to stop? | 2 processes, each of a scheduler and a goroutine, 3 rows of one periodic type, 2 attempts, 1 stop or crash, 1 failed call |
| `photos` | Counters, objects, statuses and jobs under two requests at once, the processor, the sweep, cleanup and a failure anywhere | a simple and a multipart upload, of different sizes and events, 2 attempts, 1 fault |
| `exports` | Is an archive complete, and gone for good once expired? Does every export that is taken up end? | 1 export, 3 photos in pages of 2, 2 attempts, 1 failure |
| `events_safety` | By how much can a plan's limit be exceeded, and can its retention be got round? | 2 events, every call, 2 requests at once, a plan of one live event kept a day, `event.expire` beside them, no failure |
| `events_jobs` | Do the jobs do what they must and nothing else, whatever call fails? | 1 event, 2 objects, 1 failure; clients create and delete |
| `events_early_purge` (violation) | Is only what is past the grace period purged? | 1 event; clients create and extend |
| `uploads_requests` | By how much can a plan be exceeded, what does a repeated key answer, and how many photos does it make? | 2 requests at once, 1 key, 2 bodies, 3 photos, a plan of one photo and two bytes, 1 failure |
| `web_uploads` | Is an upload ever forgotten or stuck in the browser? | a small file and one of two parts, 1 process of the queue at a time, 2 attempts, 2 processes in all, 3 photos, 1 mishap, 1 departure or reload |
| `web_session` | Can rotation leave two tokens or none, tabs end each other's session, or a session outlive its end? | 2 tabs, 3 tokens, 2 requests at once, 1 mishap, 1 expiry |
| `web_pages` | Do promises settle, gate and token agree, deleted photos stay away, offers hold, and webhooks count? | gallery: 2 photos of 2 variants, 2 batches; list: 2 photos in pages of 1, filters all and FAILED; billing: 1 subscription, a free and a paid plan, 1 incident |
| `web_dashboard` | Does the card always offer a way on and settle? Do stored settings fit together, are keys that are shown good, logos that are named stored? | 2 archives; a plan that allows originals, 3 saves, another client's included; 2 devices, 3 keys; 2 uploads, 2 assets; 1 mishap on a page |

Deadlock is not checked: every model has states in which the system may rest,
with all rows ended and no request in flight.

Why the bounds are enough. Two goroutines in each of two processes give the
races within a process and between processes; a third row lets a goroutine
choose while two are locked. Two attempts tell a retry from the last attempt.
One stop leaves another process to go on. One fault can strike at each call of
a behaviour; two faults only add combinations of states one fault leaves
behind. Two requests give every race on one row: the code has no step that
needs three. Three photos in pages of two give a page boundary with photos on
both sides. Two bodies of different size tell a sum from a count and a hash
from another. Three photos are two that race for a plan of one, and one more
that is inserted after a delete. In the browser: a file of two parts has one
part done when the other fails; one process at a time makes a second file
wait, and two slots leave one for the queue that was left; three photos are
two files and one that is made again. Three saves of settings are a form's, another
client's between its read and its write, and one more that finds the result; the
calls that make an event count as one. Three tokens are a sign-in, its
rotation, and the rotation of that or a second family; two tabs race for one
cookie. Two batches are one in flight while the next is collected. Pages of
one with two photos have a cursor to move. Two archives are a failed one and
its successor; three keys on two devices a key, its rotation and another's.
What is proved holds without these bounds.

Bounds in the models, which the code does not have: `MaxStops`, `MaxFaults`,
`MaxTime`, `MaxDays`, `MaxUploads`, `MaxSlots`, `MaxPhotos`, `MaxLeaves`,
`MaxTokens`, `MaxRequests`, `MaxExpiries`, `MaxBatches`, `MaxBatchCalls`,
`MaxListCalls`, `MaxUnlocks`, `MaxRows`, `MaxAsks`, `MaxConfirms`, `MaxLost`,
`MaxSubs`, `MaxIncidents`, `MaxArchives`, `MaxMishaps`, `MaxSaves`,
`MaxDevices`, `MaxKeys`, `MaxAssets`, `MaxAccidents`, `MaxTroubles` (in
`UploadAdmission`, `MaxPhotos` is a plan's limit, which the code does have).
`MaxAttempts` is 5 in the migration. A page of billing makes its next change
when the server has ended with the one it left, and an upload queue that is
left has its `reconcile` answered before the page is open again. A job of a
type nobody registered is one whose handler always errs (`worker.go`): the run
of several schedulers has the periodic type only. `Sweeps`, `Calls` and `Jobs`
say which parts of the environment an instance has. Symmetry is used in runs
without liveness only, over identities no operator tells apart.

## Fairness

Liveness is checked under weak fairness only: of the next step of a goroutine,
of a request that is being served, of a job that is queued, of a page that is
open.

- `JobQueue`: a goroutine that can run does run, and a call returns, with an
  answer or an error: contexts, HTTP clients and the pool have timeouts. A
  handler returns: each works on a bounded list or a bounded photo. Time
  passes, so a backoff ends. A worker process that is deployed starts, and one
  that was told to stop and holds nothing exits. Nothing makes it stop.
- `Exports`, `EventLifecycle`: the steps of requests, of the generation and of
  the periodic jobs, which the scheduler runs again and again; exports grow
  old. This is where the models take the code at its best: a worker that dies
  while it runs `event.expire`, `event.purge` or `export.cleanup` leaves that
  row running, nothing reclaims it, and `EnqueueUnique` never inserts the type
  again. `JobQueue` has these behaviours, and `EveryJobSettles` excepts the
  rows lost with their holder (`Orphans`). `ProcessingEnds` and
  `DeletedIsPurged` therefore speak of workers that do not die in such a job;
  an ordinary job's worker may.
- `BrowserUploads`: each process goes on, each request is answered or fails,
  the worker processes a photo, and the list is polled while a row of the
  queue waits for it (`ApplyPhotoStatuses`).
- `ExportCard`: while the page is open (`screen = "export"`) it mounts, polls
  when its interval says so, its requests are served and answered, and the
  worker takes up an export. The page may be any other instead, and then owes
  nothing.

Clients, clocks of expiry, sweeps, shutdowns, crashes and failures owe nothing:
no fairness makes a client complete an upload or a failure go away. Nor is
anything assumed of the user of a page.

## Proofs

`tlapm` checks every step of the eight modules of proofs. The assumptions are
those the models state of their constants (`ASSUME`), which TLC evaluates on
every run: sizes are positive, sentinels are outside the sets, attempts are at
least one, sets whose size is counted are finite (the tabs of a browser among
them), and a cover has at least one variant to show. A theorem that needs more
states it as a hypothesis, named below.

`JobQueueProofs`, for any number of processes, goroutines, rows, attempts,
stops and faults:

- `Exclusion`: no job is run by two goroutines at once, and who runs a job owns
  its row.
- `RetryBudget`: a row is failed exactly when its attempts are used up.
- `TypeCorrect`.
- `Implementation`: the queue implements `JobLifecycle`, under the mapping that
  takes a row's status and attempts as they are and, for who has taken a job,
  the goroutines that hold it (`HoldersOf`). Initial states map to initial
  states, and each step of the queue is a step of the life cycle or none.
- `InstancesPerWorker`: while no more than N processes run at once
  (`AtMostAlive`), however often they are restarted, a periodic type has N
  instances in flight at most; `InstancesAreBounded` is the case of the run, N
  the number of processes. `Shares` says that what is in flight of a type and
  the schedulers between their check and their insert are N together, and that
  who is between them runs, so that a crash or an exit takes the check along. A
  check passes only when nothing is in flight, and then no more schedulers can
  have passed it than run.

`ExclusiveExecution` is not inductive: it says nothing of a claim whose
transaction is still open, and that such a claim can commit safely is the
point. The inductive invariant `IInv` adds `HandMatchesRow` (what an open claim
has locked is pending, what a goroutine holds is running in its process's name)
and `HandsDisjoint` (no row is in two hands, open claims included). Each kind
of step has its lemma; `HolderLeaves` and `MovingOn` carry the cases that are
alike. The refinement needs the same invariant: a goroutine that settles a row
is its only holder, so `Leave` takes all of them (`HolderSettles`); one that
stops without a word is `Lose` (`PollerLost`); a step that moves no holder is
not seen (`Unseen`).

`UploadAdmissionProofs`, for any number of photos, requests, keys, bodies and
faults and any plan:

- `AnswersFit`: Initialize answers with a photo of the body it was called with.
  By itself the property is not inductive: a request takes a photo over from a
  record of its key, so the invariant `FitInv` must say that records name rows
  of the body they were made with (`RecordFits`), that a request has it from
  the insert on (`RequestFits`), and that nobody else inserts under a storage
  key that is chosen (`InsertIsFresh`).
- `DuplicatesAreBounded`: a key makes no more photos than there are requests at
  once, once over for each delete of a photo, and one for each failed call. The
  invariant `KeyBudget` counts, beside the photos made under a key, the requests
  that have looked it up and may yet insert; and while the key has no record, it
  keeps a place for every request but those about to record it.
- `Overshoot`: the photos that count never exceed the plan by as many as
  requests run at once. The invariant `SlotsBounded` counts photos and the
  requests that have passed the check and may yet insert. Passing the check
  bounds both at once, an insert moves one from the second set to the first,
  and every other step shrinks one of them or neither.
- `TypeCorrect`, with it that the owner's bytes are never negative.

`PhotoPipelineProofs`, for any number of photos, events, requests, attempts and
faults:

- `OriginalStays`, `QueuedOnce`, `OnlyMovesOn`, `NothingLeft`: a stored photo
  has its original, its job is queued once, its status only moves on, and the
  cleanup of a READY photo leaves no derivative. The first three rest on each
  other and are proved together. A photo that is being processed has its
  original, so its upload is complete and no abort gets through (`UploadsOK`,
  `VerifiedHasOriginal`); so its status leaves PROCESSING for READY or with the
  row only; so its job, once queued, finds it there, and nobody queues a second
  (`JobsOK`). For the last, `CleanupsOK` relates what a cleanup was told to
  delete, what it has still to do and what the store holds.
- `NeverAbove`: the counters never claim more than is stored, for finite sets
  of photos and events. The invariant `Below` is the property with its sums
  named (`Total`); each clamp lowers a counter to what the smaller sum is or to
  zero, which is no more than the sum. That a sum changes by the term that
  changes is proved in `FiniteSums`, by the smallest set for which it would
  not: the library's induction cannot be used.

`ExportsProofs`, for any number of exports, requests, photos, attempts and
faults and any page size:

- `ExpiredForGood`, `EndedForGood`: while a generation is at work its export is
  neither READY nor EXPIRED (`GeneratingIsOpen`), so what it stores is in no
  list of a cleanup, and `MarkReady` needs no status predicate. What a cleanup
  has listed as READY stays so or is expired (`BatchIsEnded`).
- `NoPhotoSkipped`: `ListingOK` says for each step of a generation which photos
  must be in its file by then. The step that lists a page needs that a photo
  left out is older than all of the page and the page is full (`NewestPage`),
  which rests on every set of photos having a newest and an oldest
  (`Extremes`, from the well-foundedness of the naturals).

`EventLifecycleProofs`, for any number of events, requests, days and faults:

- `Retained`: no live event lasts beyond the plan's retention. The invariant
  says of each request that is under way that what it is about to write was
  checked against a day that is not later than today (`RequestsInPlan`).
- `OvershootByRequests`: live events exceed the limit by fewer than there are
  requests at once. The property counts the creations that have passed the
  check; `Overshoot` counts the events a request is about to revive as well.
- `TotalBalanced`: the owner's bytes are the sum over the events.
- `NoObjectLeft`: a purged event has no object left, whatever call of the purge
  fails. `PurgeInv` says that what the job has listed is still past its grace
  period, and that the keys a purge has still to delete name all the objects
  there are, because nothing is uploaded to such an event.
- `OnlyPastGrace`: only what is past its grace period is purged.

The last two are for every call of a client, and under one hypothesis on the
behaviour, `ListedLeft`: nobody brings back an expired event while the running
purge has it on its list. The code does not see to it, and
`events_early_purge` shows what happens otherwise. So that reactivation is the
only way to a premature purge.

`WebPagesProofs`, for any number of photos, variants, requests and failures:

- `UrlPromisesSettle`: every promise of a URL settles. `UrlsSettle` says that
  who waits holds a promise and that a promise is of the batch being collected
  or of one in flight that asks for its key, whatever clears the cache.
- `GateOpens`: who holds a token does not see the gate (`ShellInv`).
- `ListAtRest`: the list of all photos shows none that was reported deleted and
  misses none. A request for the list again started from no cursor, and what
  it read still holds unless a deletion is under way, which asks again when it
  ends (`FetchOK`).
- `AnsweredHasEffect`: a webhook that found its row (`landed`) and was answered
  has had its effect, is being handled, or lost its record (`AccountedFor`).
  `TableOK` says that rows are made in order, `ChangeOK` that what a change is
  about to write exists and the invoice it is about to make does not; `EventsOK`
  is the property over what was recorded and landed. A webhook that came before
  its row is in the model, and what it may expect is below (divergences).
- `OffersAccepted`: what the plan grid offers the server accepts, unless a
  subscription has lapsed. Only the latest subscription can be usable
  (`LatestUsable`), so the page's view and the server's read find the same one
  (`ViewMatches`), and the verdicts on it agree (`OfferAccepted`).
- `PagesKeepApart`, `PagesSafe`: a behaviour of the pages composed is one of
  each page, so all five hold of `PagesSpec`, the specification of the run.

`WebDashboardProofs`, for any number of tabs, requests, tokens, exports, saves,
devices, files, photos, processes, departures and failures:

- `OneValidPerFamily`: a family of refresh tokens has one that can be used.
  `TokenInv` follows a rotation through the API: one request at a time is past
  its read of a token, it holds the only valid one of the family, and once it
  has revoked it there is none until it issues the next (`OneRotation`).
- `TabsTakeTurns`: where the browser has locks (`Locks`: `navigator.locks`
  exists), no tab has its family revoked by another. One refresh is waited for
  in the whole browser (`LockInv`), so the cookie of a family that has had no
  mishap is valid whenever the next one is sent (`RaceInv`).
- `EndedForGood`: where there are locks, a session that ended is over, with the
  exceptions the property names. `EndInv`: an ended family has nothing but the
  token of the logout under way, or nothing at all and nobody about to issue.
- `CardNeverStuck`: the export card always offers a way on. The card shows no
  export it was told is gone (`CardInv`).
- `StoredSettingsFit`: what is stored of an event's access fits together,
  however the saves of two clients overlap, or of a client that has left. What
  a handler is about to write was checked as a whole when it was made, and the
  invariant says so of every row that is about to be written (`PendingFits`);
  what the stored row is by then plays no part, because the write leaves
  nothing of it.
- `ShownKeyWorks`: the key shown after a rotation is the one the server takes.
  A later rotation of the device would break it, so the invariant says that
  while a key is shown none is under way and none can be confirmed
  (`ShownWorks`), and that an answer on its way carries the key the device has
  (`AnswerWorks`).
- `LogoStored`: the logo a gallery names is an object that was stored. The
  invariant follows a key from the upload to what is staged, to the patch, to
  the row that was merged, to the row.
- `DashboardSafe`: these four (`CardNeverStuck` to `LogoStored`) hold of
  `DashboardSpec`, the specification of the run.

- `NothingForgotten`: an upload the server waits for stays within the user's
  reach, but for the photos the history `disowned` excepts.
- `CopiesAreBounded`: a file becomes no more photos than the queue runs
  processes beside each other, with no exception. Both are for queues of any
  concurrency and number of attempts, files of any sizes, and any number of
  processes, departures and mishaps. `UploadsInvariant` is their common
  inductive invariant, `UploadsInv` and `Places`.

For the upload queue neither property is inductive. That nothing is forgotten
needs what each place that names a photo may hold. An entry is dropped for a
photo that is done, for an item that is discarded, or for a cancelled one whose
DELETE is on its way; so the entry must name the photo of that item and no
other (`ItemsRegistered`, `PageRegistered`), what waits must be in the
registry, have its Initialize answered now or be undone by a request
(`WaitingKnown`), and what is cleared as finished must not wait (`ReadyDone`).
Whatever names a photo of one file names the same one, save for `disowned`
(`NamesAgree`); while an item is held by the map or by a process, any other row
of its file is excepted or has its Initialize answered now (`HeldPhotos`); a
photo that is being answered is known to nobody else, and its item has none yet
(`NewPhotosOK`); a process past that answer works for the photo of a row of its
own file (`TargetsOK`); rows, keys and departed files are where they may be
(`KeysOK`, `RowsOK`, `NamedRows`). Each action has its lemma. A step that
brings no row back to waiting and enters nothing but the photo of an item that
is held is one case (`ProcessKeeps`); `Initialize` and `Initialized`, `Cancel`,
`Discard`, their answers, `Reconcile` and the departures are the ones that do
not fit it.

The copies of a file come from the processes that ask for a photo before the
first of them is answered; from then on the item has a photo, and each attempt
goes on with it (`CopiesOK` counts both, the photos that are or may become
copies and the processes that have asked). Those processes are no more than the
queue runs beside each other (`Places`), because `pump` starts as many as there
is room for.

TLC checked `UploadsInv` on larger instances than the run's before it was proved,
among them one of two processes at a time and two mishaps: there the history
rule of `Initialized` first proved too narrow, as the divergence about a second
process of an item (below) tells. `CopiesBounded` is not in the run: two
processes of one file take two places of the queue, a third for a queue that was
left and two mishaps, which is beyond five minutes of TLC.

The two theorems named `TypeCorrect`, `InstancesPerWorker`, `CopiesAreBounded`,
`UploadsInvariant` and `PagesKeepApart` state no property of a run; `PagesSafe`
and `DashboardSafe` repeat properties of theirs for the composition.

Every safety property of a run is thus a theorem, but for the one that
`events_early_purge` refutes. Only model-checked is all liveness
(`EveryJobSettles`, `ShutdownCompletes`, `ProcessingEnds`, `DeletedIsPurged`,
`UploadEnds`, `ExportSettles`), which needs ENABLED and temporal reasoning about
fairness that the prover does not have.

## Known divergences

Where the code does other than a comment or a document of the repository says,
or surprises its user. One has a run that shows it; the properties of the
others are left out of the runs, or hold under the condition given.

Jobs:

- A graceful shutdown can leave a row running. `handle` calls `Complete` with
  the context that is cancelled (`worker.go:126`), and `Claim` may commit as it
  is cancelled, while `worker.go:62` says "A graceful shutdown leaves no job
  stuck in running". One process and one row are enough: claim, shut down, the
  handler returns without error, `CompleteError`. `EveryJobSettles` excepts
  these rows.
- Two schedulers can both insert a periodic job: each evaluates NOT EXISTS
  before the other inserts (`queue.go:75`), against `scheduler.go:22`.
  `queue.go:67` says that concurrent callers may race, `Deployment.md:22` to
  scale by adding workers. `InstancesBounded` is what remains true: as many
  instances as processes, however often they tick.

Photos:

- The counters drift: a photo the sweep failed was never counted, and its
  delete takes its size off the counters all the same
  (`photos/repository.go:346`, against `:66`). `CountersNotAbove` is what
  remains true.
- A photo whose job used up its attempts stays PROCESSING: no code calls
  `MarkFailed` for it, against `Phase 4 - Processing.md:9`, `:20`, `:103` and
  `:120`; the test of the failure path calls it itself, around the handler.
  `StatusMovesOn` permits the transition those lines require, with the job used
  up and not before; the code never takes it.
- A delete that overtakes the processor reads the derivative keys before they
  are written (`photos/repository.go:331`): its cleanup leaves the derivatives
  in the store, against `photos/service.go:146`. `ReadyPhotoCleanedUp` is about
  photos that were READY.

Uploads:

- `Complete` marks the photo PROCESSING and then queues its job
  (`uploads/service.go:453`). If the insert fails, or the API stops in between,
  a repeated call returns early for PROCESSING: the photo stays there with no
  job. `PhotoPipeline` has these behaviours and no property speaks of them.
- Two requests under one key that both look it up before either records it, or
  one whose `SaveIdempotency` fails and is repeated, insert two photos, against
  `Phase 3 - Uploads.md:11`. `DuplicatesBounded` says how many, and
  `AnsweredPhotoFits` that each answer is a photo of the right body.
- A repeated request at the plan's limit is refused: the limits are checked
  before the key is looked up, so the photo that fills the plan refuses its own
  retry, against `Phase 3 - Uploads.md:158`.
- The bytes of uploads in progress do not count against `storageBytes`, so
  uploads that are admitted one after the other can exceed it together, and
  requests at once can exceed `photosPerEvent`, against `Phase 8.1 -
  Report.md:17`. `OvershootBounded` is the bound that holds for photos.

Exports:

- Two requests that both find no active export queue two archives
  (`exports/service.go:91`, against `:73`). One request is enough where a
  failed export is brought back by its job after the next one was created.
- A FAILED export becomes READY when its late generation ends, since
  `MarkReady` has no predicate (`exports/repository.go:99`, against `Phase F6 -
  Analytics, Exports and Lifecycle.md:33`).
- Cleanup fails an export that a retry took up after it was listed
  (`exports/repository.go:107`): `MarkFailed` does not look at `updated_at`.

Events:

- Two creations at once exceed the limit of live events: both count before
  either writes (`events/service.go:523`, against `Phase 8.1 - Report.md:11`).
  `LiveOvershootBounded` is by how many.
- `SetStatus` writes whatever the row has become since it was read
  (`events/repository.go:236`): an event that `event.expire` expired in between
  is completed or archived from EXPIRED, which `model.go:68` does not allow.
- `MarkExpired` expires by id an event that was extended after it was listed
  (`events/repository.go:411`, against `jobs.go:47`).
- `events_early_purge`: an event that is reactivated after `event.purge` listed
  it is deleted for good (`events/repository.go:504`, against `jobs.go:94`).
  `PurgeOnlyPastGrace` holds in `events_jobs`, where nothing is reactivated.

The upload queue of the browser:

- Cancelling while Initialize is in flight leaves the server's photo UPLOADING
  until the sweep; `NoUploadForgotten` excepts a photo whose Initialize or
  DELETE was never answered.
- Every attempt sends a new `Idempotency-Key`, so the server's protection
  against a lost answer is never used, against `Phase F3:114` and `:116`.
- When the answer to `complete` is lost, the next attempt meets 409 and the row
  is shown as failed, though the photo is being processed.
- A row shown as processing waits for the list to say otherwise: one whose
  photo is not in the pages that are loaded waits for ever.
- A retry can start a second process of an item whose first is still in flight
  or sleeps before its next attempt (`uploader.ts:395`, `:420`). Both call
  Initialize, and the item and its registry entry go from one photo to the
  other when the later answer comes (`:447`, `:553`), even after the first
  photo has been completed: then an item that shows "ready" names an upload
  that waits, and clearing the finished items drops its entry. The file then
  has two photos, or as many as the queue has places (`CopiesAreBounded`),
  against `F3:116`; `NoUploadForgotten` excepts photos of an item that was
  initialized twice.
- `reconcile` drops an entry by its key for the photo it asked about
  (`uploader.ts:321`, `:323`), which a process of the queue before may have
  replaced meanwhile; `NoUploadForgotten` excepts that photo.

Sessions:

- A refresh that overlaps a logout may store its rotated cookie after the
  logout cleared it: the session is back. `EndedStaysEnded` excepts it.
- A reload while a refresh is under way loses the session: the old token was
  rotated, the new one reached nobody, against `F1:9`.
- The client looks for `EMAIL_ALREADY_REGISTERED`; the API says `EMAIL_TAKEN`.

The gallery:

- A tile whose image fails asks again and gets the same URL from the cache; and
  the query keeps a URL fresh for 4 minutes on top of the cache's own time.
- A late 401, to a request sent with an old token, clears the token that was
  stored meanwhile.
- After a batch is refused with 401 a gate that was dismissed stays dismissed,
  against `F4:111`. `GateMeansNoToken` is the other direction.

The list of photos:

- `Load more` cancels the refetch a deletion asked for, so what it would have
  corrected stays; and a filter that was off screen or is opened for the first
  time may show a photo that is deleted. `NoGhosts` is about the list of all
  photos after a request with its data at hand.
- A photo another tab deleted answers 404 and is reported as a failure, against
  `F3:127`. The dashboard's numbers are not asked for again, against `F3:125`.
- Pending photos beyond the loaded pages are not polled. The end of a batch
  closes whatever dialog is open by then.

The export card:

- When the refetch before a download fails, the card downloads with the stale
  URL, against `export-card.tsx:109-111`.

Forms of an event:

- Saves are lost: `UpdateSettings` reads the row (`service.go:417`) and later
  writes all its columns (`repository.go:337`) with no lock. A save that sends
  no password writes back the one it has read, so a password another tab sets
  in between is erased, or one it cleared is back, although `settings-form.tsx:133`
  says "Leave blank to keep the current password". The other tab's form, which
  was told that the event is protected, is then refused with 422 when it is
  saved with the password left blank. What is stored fits together all the same
  (`SettingsFitTogether`).
- `allowOriginalDownload` can be true while its control is hidden. A password
  typed during a save is wiped when it ends; one typed before the visibility
  was switched is sent. Downloads are shown as on for a private event.
- A create whose answer is lost is made twice by the retry. Between its two
  calls a protected event is public.

Devices:

- A second answer replaces the key that is being shown, unacknowledged, against
  `F5:157`. `RotatedKeyWorks` is about the key that is shown.

Billing:

- A subscription whose period is over and which was not cancelled stays on the
  page while the server no longer finds it (`billing/service.go:74`): changes
  answer 404, subscribing 409 by the unique index, against `F5:48`.
  `GridAccepted` excepts it (`Lapsed`).
- Escape while a subscription is being made leaves the page without the notice
  of the manual payment. Two upgrades at once can lower the plan. Resume is
  offered on an expired subscription, and does not undo the provider's Cancel.
- A webhook that comes before the row it names, between the provider's
  checkout and `CreateInvoice` (`service.go:173`) or after that failed, is
  recorded, answered with success and has no effect (`service.go:355`, `:366`,
  `:386`); its repetition is a duplicate. `AnsweredIsApplied` is about webhooks
  that found their row.
- A webhook delivered twice at once is lost if the first delivery then fails.
  `AnsweredIsApplied` excepts lost records.

Branding:

- The form sends fields that a refetch changed under it, against `F5:34` (a
  partial PATCH).
- A save that ends drops the logo that was staged during it
  (`setLogoChange(null)`) and what was typed; an upload that ends after Discard
  stages its logo. Of two uploads the last to end wins.
- The server reads, merges and writes without a lock: of two saves at once one
  is lost.

## Not modelled

- Gallery access at the server: it reads; its answers are inputs of
  `WebGallery`. Analytics: each operation adds to a counter nothing reads.
- Storage reconciliation and administration: they read and report.
- The rate limiter: token buckets of `golang.org/x/time/rate`; what it does to
  others is a refusal, which the modules allow anywhere.
- QR codes, imaging, configuration, metrics, logging, audit, mail: pure
  functions and input or output. Decoding, validation, presigning, HTTP
  handlers and routing: no state that steps share. The decoder is a set of
  photos it rejects.
- The other pages of the web client: lists and single requests behind a
  confirmation, whose server side is in `EventLifecycle`. The shared packages:
  rendering and generated types.
- Of the modules: the names of ZIP entries, and the batches of 100 in which the
  jobs read their lists (a list is read whole); the URL cache of the photos'
  service; names, slugs and texts; progress, expiry of a registry entry and the
  reading of dropped directories in the browser; lockout after failed
  passwords, reset mails and the expiry of refresh tokens; slicing of a batch
  of more than 100 keys; the interval and amounts of a plan, the list of
  invoices, and a provider with a checkout of its own (the manual one is the
  only one there is, so a checkout is always offline); the profile image, which
  is the logo's code under another name, and the plan's gate on branding, which
  is a failure of the save.
- Who may call what (tenants, operators, devices): every call in the models is
  one the checks let through.
- The events of other owners: counters of different owners are disjoint rows.
- Wall-clock time: days in `EventLifecycle`, "due", "old" and "over" elsewhere.
