--------------------------- MODULE MCPhotoPipeline ---------------------------
(***************************************************************************)
(* Instances of the photo pipeline for TLC.                                *)
(***************************************************************************)
EXTENDS PhotoPipelineProps, TLC

CONSTANTS e1, e2, p1, p2, r1, r2

\* Each photo in an event of its own, the second photo twice as large.
TwoEvents == p1 :> e1 @@ p2 :> e2
Sizes     == p1 :> 1 @@ p2 :> 2

Alike == Permutations(Requests)
=============================================================================
