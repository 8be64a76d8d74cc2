------------------------- MODULE EventLifecycleProps -------------------------
(***************************************************************************)
(* What must hold of events.                                               *)
(***************************************************************************)
EXTENDS EventLifecycle, TLC

\* Events are alike, and so are requests: the symmetry of the run with two of each.
Alike == Permutations(Events) \cup Permutations(Requests)

\* The requests that have passed the check of the plan's limit and are about
\* to insert an event.
Creating == {r \in Requests : op[r] = "create"}

\* Requests at once all count the live events before any of them writes
\* (service.go:523), so the plan's limit can be exceeded; but by fewer than
\* there are requests, creations about to insert included, however creations,
\* reactivations and extensions of expired events are mixed.
LiveOvershootBounded ==
    MaxEvents > 0 => Cardinality(Live) + Cardinality(Creating) < MaxEvents + Cardinality(Requests)

\* A plan with retention cannot be got round: no live event lasts beyond
\* the window, by creation, extension, change or reactivation.
WithinRetention ==
    Retention > 0 => \A e \in Live : expiresAt[e] # Never /\ expiresAt[e] <= now + Retention

\* The owner's total is the sum over the events whose rows remain: a purge
\* takes an event's bytes off once, across failures and repeated runs.
StorageBalanced ==
    userBytes = MapThenSumSet(LAMBDA e : storageBytes[e], Events)

\* events/jobs.go:94: the job permanently deletes soft-deleted and expired
\* events that are past the grace period.
PurgeOnlyPastGrace ==
    [][\A e \in Events :
          status'[e] = "purged" /\ status[e] # "purged" =>
              \/ deletedAt[e] # Never /\ deletedAt[e] + Grace <= now
              \/ status[e] = "expired" /\ expiresAt[e] # Never /\ expiresAt[e] + Grace <= now]_status

\* Objects are removed before rows: no object is left without a row that
\* names it, whatever call of the purge fails.
PurgeRemovesObjects == \A e \in Events : status[e] = "purged" => objects[e] = {}

\* A deleted event past the grace period is purged.
DeletedIsPurged ==
    \A e \in Events :
        (deletedAt[e] # Never /\ deletedAt[e] + Grace <= now) ~> status[e] = "purged"
=============================================================================
