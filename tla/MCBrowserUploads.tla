-------------------------- MODULE MCBrowserUploads --------------------------
(***************************************************************************)
(* Instances of BrowserUploads for model checking.                         *)
(***************************************************************************)
EXTENDS BrowserUploadsProps, TLC

\* A small file, then one of two parts.
SmallThenLarge == 1 :> 1 @@ 2 :> 2
=============================================================================
