---------------------------- MODULE MCWebSession ----------------------------
(***************************************************************************)
(* Instances of WebSession for model checking.                             *)
(***************************************************************************)
EXTENDS WebSessionProps, TLC

\* The tabs differ in nothing.
Alike == Permutations(Tabs)
=============================================================================
