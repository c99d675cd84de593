------------------------------ MODULE MCAccess ------------------------------
(***************************************************************************)
(* A small instance of AccessStrategy.                                     *)
(***************************************************************************)
EXTENDS AccessStrategy, TLC

\* No action tells one name from another.
KeySymmetry == Permutations(Keys)
=============================================================================
