------------------------------- MODULE MCPcon -------------------------------
(***************************************************************************)
(* A small instance of PconStrategy: a prefix with two next hops and two   *)
(* names.  Shares are exact multiples of 1 / Whole.                        *)
(***************************************************************************)
EXTENDS PconStrategy, TLC

CONSTANTS a, b, k1, k2

TwoHops == <<a, b>>

\* Names are only compared for equality.
NameSymmetry == Permutations(Keys)

\* Bound: a goes only when b is gone, and without next hops nothing goes on but for a
\* node that never had measurements.
HopsGoInOrder == a \in up \/ (up = {} /\ info = [f \in Faces |-> NoInfo])
=============================================================================
