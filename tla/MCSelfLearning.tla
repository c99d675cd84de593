--------------------------- MODULE MCSelfLearning ---------------------------
(***************************************************************************)
(* Small instances of SelfLearning.                                        *)
(***************************************************************************)
EXTENDS SelfLearning, TLC

\* No action tells one name from another.
KeySymmetry == Permutations(Keys)
=============================================================================
