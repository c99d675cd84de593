------------------------------- MODULE MCAsf --------------------------------
(***************************************************************************)
(* A small instance of AsfStrategy.                                        *)
(***************************************************************************)
EXTENDS AsfStrategy

CONSTANTS b, c

\* b costs less than c.
OrderBC == <<b, c>>
=============================================================================
