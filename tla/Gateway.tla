------------------------------ MODULE Gateway ------------------------------
(***************************************************************************)
(* A consumer's gateway of the "Central PIT" variant: Forwarder, with a    *)
(* record of the entries for which the quota was asked.  Nothing reads the *)
(* record but the property at the end, and every step is one of Forwarder. *)
(***************************************************************************)
EXTENDS Forwarder

VARIABLE gated   \* history: the entries made by Interests that met the quota

gatewayVars == <<vars, gated>>

GatewayInit == Init /\ gated = {}

\* Pit::insert, on the way into either pipeline that an admitted Interest takes.
MakesEntry(f, i) ==
    /\ i.key \notin Pending
    /\ \/ MissInterest(f, i)
       \/ \E d \in DataPackets : HitInterest(f, i, d)

GatewayNext ==
    \/ \E f \in Faces, i \in Interests :
          /\ MakesEntry(f, i)
          /\ gated' = IF MeetsQuota(i) THEN gated \cup {i.key} ELSE gated
    \/ /\ Next
       /\ Pending' \subseteq Pending
       /\ gated' = gated \cap Pending'

GatewaySpec == GatewayInit /\ [][GatewayNext]_gatewayVars

GatewayLiveSpec == GatewaySpec /\ Fairness

(***************************************************************************)
(* Safety.                                                                 *)
(***************************************************************************)
\* The entries that had to meet the quota never fill more than half of the PIT, whatever
\* quotas were in force when they were made and however old they were: a quota is half
\* of what a PIT within its limit held, and the entries that stay while it is lowered
\* count against the next.  Entries that need not meet it, those of Interests past their
\* first hop and those under /dst1/, may take all of the PIT
\* (forwarder.cpp:262-306, 523-548, 609-618).
GateBound == CentralPit => 2 * Cardinality(gated) <= PitLimit
=============================================================================
