---------------------------- MODULE MCForwarder ----------------------------
(***************************************************************************)
(* Small instances of Forwarder.                                           *)
(***************************************************************************)
EXTENDS ForwarderPromise, TLC

CONSTANTS a, b, c, n1, n2

Key(name, prefix, fresh) == [name |-> name, prefix |-> prefix, fresh |-> fresh]
Packet(name, freshness, marked) ==
    [name |-> name, freshness |-> freshness, marked |-> marked]

AllInterests(life, hops, vias) ==
    [key : Keys, nonce : Nonces, life : life, hop : hops, via : vias]

\* No action compares Nonces but for equality.
NonceSymmetry == Permutations(Nonces)

\* No action reads what the last step sent; the properties that do are about steps,
\* and TLC checks every step.
ForgetSent == <<pit, cs, dnl, up, quota, reductions>>

ABC == {a, b, c}

(***************************************************************************)
(* best_route.cfg: one name, three links between routers, each of them     *)
(* both a downstream and a next hop.                                       *)
(***************************************************************************)
NameX == <<"x", "1">>
OneKey == {Key(NameX, FALSE, FALSE)}
OneData == {Packet(NameX, "long", FALSE)}
PlainInterests == AllInterests(Lifetimes, {"untagged"}, {NoFace})
RoutesABC == [n \in Names |-> <<a, b, c>>]
RoutesBA == [n \in Names |-> <<b, a>>]
AllBestRoute == [k \in Keys |-> "best-route"]

(***************************************************************************)
(* matching.cfg: a prefix that must be fresh, a name under it, and a name  *)
(* under /localhost, on a local face, a multi-access one and a link.  The  *)
(* first two do not count for the quota, so that a reduction finds at most *)
(* one entry to count.                                                     *)
(***************************************************************************)
AB == {a, b}
PrefixName == <<"dst1", "s", "1">>
PacketName == PrefixName \o <<"1">>
LocalName == <<"localhost", "1">>
MatchingKeys ==
    {Key(PrefixName, TRUE, TRUE), Key(PacketName, FALSE, FALSE), Key(LocalName, FALSE, FALSE)}
MatchingData == {Packet(PacketName, "short", FALSE), Packet(LocalName, "zero", TRUE)}
MulticastAndRandom ==
    [k \in Keys |-> IF k.prefix THEN "multicast" ELSE "random"]

\* Bound: no step looks at more entries than the two one Data satisfies.
AtMostTwoPending == Cardinality(Pending) <= 2
=============================================================================
