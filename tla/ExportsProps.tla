---------------------------- MODULE ExportsProps ----------------------------
(***************************************************************************)
(* What must hold of exports.                                              *)
(***************************************************************************)
EXTENDS Exports

\* An archive whose export is EXPIRED is gone from the store for good: no
\* retried generation stores it again.
ExpiredIsGone ==
    \A x \in Exports : status[x] = "expired" => archive[x] = NoArchive

\* An archive a client can download has every photo that was READY when its
\* generation began and was not deleted before it ended, however the
\* photos change between the pages of the listing.
ArchiveComplete ==
    \A x \in Exports :
        status[x] = "ready" /\ archive[x] # NoArchive => steady[x] \subseteq archive[x]

\* READY ends in EXPIRED alone and EXPIRED in nothing, though MarkReady has
\* no status predicate and a lost answer makes the job run again.
ReadyOnlyExpires ==
    [][\A x \in Exports :
          /\ status[x] = "ready" => status'[x] \in {"ready", "expired"}
          /\ status[x] = "expired" => status'[x] = "expired"]_status

\* An export does not stay in PROCESSING, even when its job is lost with
\* its worker: the job ends it or cleanup does.
ProcessingEnds ==
    \A x \in Exports : status[x] = "processing" ~> status[x] # "processing"

=============================================================================
