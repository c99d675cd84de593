-------------------------------- MODULE Ndn --------------------------------
(***************************************************************************)
(* Names, packets and faces: the data that the forwarding pipelines pass   *)
(* around.  Their classes live in ndn-cxx and in NFD's table and face      *)
(* directories, which the repository does not hold; what is modelled here  *)
(* is what fw/ asks of them.                                               *)
(***************************************************************************)
EXTENDS Integers, Sequences, FiniteSets

CONSTANTS
    Faces,        \* every face the forwarder may ever have
    Local,        \* the faces whose scope is FACE_SCOPE_LOCAL
    P2P,          \* the faces whose link type is LINK_TYPE_POINT_TO_POINT
    AdHoc,        \* the faces whose link type is LINK_TYPE_AD_HOC
    NoFace,       \* an Interest that carries no NextHopFaceIdTag
    Nonces,
    Lifetimes,    \* InterestLifetime values, in ticks
    Keys,         \* identities of PIT entries: [name, prefix, fresh]
    Interests,    \* the Interests that may arrive
    DataPackets   \* the Data that may arrive

(***************************************************************************)
(* Names are sequences of components.                                      *)
(***************************************************************************)
\* Name::getPrefix(-1).
Parent(name) == SubSeq(name, 1, Len(name) - 1)

\* Name::isPrefixOf.
IsPrefixOf(prefix, name) ==
    /\ Len(prefix) <= Len(name)
    /\ SubSeq(name, 1, Len(prefix)) = prefix

\* str.compare(0, strlen("/c/"), "/c/") == 0 on the URI of the name: the URI of
\* the one-component name is "/c", without the second slash.
UnderUri(component, name) == Len(name) >= 2 /\ name[1] = component

\* scope_prefix::LOCALHOST and scope_prefix::LOCALHOP (isPrefixOf).
IsLocalhost(name) == IsPrefixOf(<<"localhost">>, name)
IsLocalhop(name) == IsPrefixOf(<<"localhop">>, name)

(***************************************************************************)
(* Packets.  hop is the HopCountTag seen on arrival: none, exactly 1 (the  *)
(* receiver is the consumer's gateway), or anything else.  via is the      *)
(* NextHopFaceIdTag a privileged local application may set.  freshness is  *)
(* the Data's FreshnessPeriod: zero, shorter than the lifetime of the Dead *)
(* Nonce List, or at least that long.                                      *)
(***************************************************************************)
Names == {k.name : k \in Keys}

Hops == {"untagged", "first", "later"}

Freshness == {"zero", "short", "long"}

Reasons == {"congestion", "duplicate", "no-route"}

ASSUME FaceAssumption ==
    /\ Local \subseteq Faces
    /\ P2P \subseteq Faces
    /\ AdHoc \subseteq Faces \ P2P
    /\ NoFace \notin Faces

ASSUME PacketAssumption ==
    /\ Lifetimes \subseteq Nat
    /\ Keys \subseteq [name : Seq(STRING), prefix : BOOLEAN, fresh : BOOLEAN]
    /\ Interests \subseteq [key : Keys, nonce : Nonces, life : Lifetimes,
                            hop : Hops, via : Faces \cup {NoFace}]
    /\ DataPackets \subseteq [name : Seq(STRING), freshness : Freshness, marked : BOOLEAN]

\* Interest::matchesData, without the implicit digest and the freshness, which
\* only the Content Store looks at.
Matches(key, data) ==
    \/ key.name = data.name
    \/ key.prefix /\ IsPrefixOf(key.name, data.name)

(***************************************************************************)
(* What the forwarder hands to the transmission side of a face.            *)
(***************************************************************************)
SentInterest(face, key, nonce) ==
    [type |-> "interest", to |-> face, key |-> key, nonce |-> nonce]

SentData(face, data) == [type |-> "data", to |-> face, data |-> data]

SentNack(face, key, nonce, reason) ==
    [type |-> "nack", to |-> face, key |-> key, nonce |-> nonce, reason |-> reason]

Transmission ==
    [type : {"interest"}, to : Faces, key : Keys, nonce : Nonces]
    \cup [type : {"data"}, to : Faces, data : DataPackets]
    \cup [type : {"nack"}, to : Faces, key : Keys, nonce : Nonces, reason : Reasons]

\* A face a packet with this name must not leave by.
LeaksLocalhost(face, name) == face \notin Local /\ IsLocalhost(name)
=============================================================================
