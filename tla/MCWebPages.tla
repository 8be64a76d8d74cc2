----------------------------- MODULE MCWebPages -----------------------------
(***************************************************************************)
(* Instances of WebPages for model checking.                               *)
(***************************************************************************)
EXTENDS WebPages, TLC

\* The gallery: the larger variant of the first photo is missing.
ThumbnailsOnly == {<<1, "thumbnail">>, <<2, "thumbnail">>, <<2, "large">>}
LargeFirst     == <<"large", "thumbnail">>

\* The plans.
Prices == [free |-> 0, starter |-> 1]
=============================================================================
