-------------------------- MODULE MCUploadAdmission --------------------------
(***************************************************************************)
(* Instances of UploadAdmission for model checking.                        *)
(***************************************************************************)
EXTENDS UploadAdmissionProps, TLC
CONSTANTS small, large

Sizes == small :> 1 @@ large :> 2

Alike == Permutations(Photos) \cup Permutations(Requests)
=============================================================================
