----------------------------- MODULE MCGateway -----------------------------
(***************************************************************************)
(* A small instance of Gateway, between a local face and an ad hoc one.    *)
(* The name /dst1/s/1 neither meets the quota nor counts; /dst2/1 and      *)
(* /dst2/2 do both.  The local face may choose b as the next hop, also once*)
(* b has been removed and a is the only one left.                          *)
(***************************************************************************)
EXTENDS MCForwarder, Gateway

Dst1Deep == <<"dst1", "s", "1">>
Dst2Name == <<"dst2", "1">>
OtherDst2Name == <<"dst2", "2">>
GatewayKeys ==
    {Key(n, FALSE, FALSE) : n \in {Dst1Deep, Dst2Name, OtherDst2Name}}
GatewayData == {Packet(Dst2Name, "zero", TRUE)}
GatewayInterests ==
    AllInterests(Lifetimes, {"first", "later"}, {NoFace})
    \cup {i \in AllInterests(Lifetimes, {"first"}, {b}) : i.key.name = Dst2Name}
AllFirstBestRoute == [k \in Keys |-> "best-route-v1"]
=============================================================================
