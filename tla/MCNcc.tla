------------------------------- MODULE MCNcc -------------------------------
(***************************************************************************)
(* Small instances of NccStrategy.                                         *)
(***************************************************************************)
EXTENDS NccStrategy

CONSTANTS a, b, c

OrderBC == <<b, c>>
=============================================================================
