--------------------------- MODULE MCSealManager ---------------------------
(***************************************************************************)
(* Instances of SealManager for TLC.                                       *)
(***************************************************************************)
EXTENDS SealManager, TLC

\* The calls in progress are interchangeable.
CallerSymmetry == Permutations(Callers)
=============================================================================
