----------------------------- MODULE Strategies -----------------------------
(***************************************************************************)
(* The forwarding strategies that keep no state outside the PIT entry:     *)
(* best route (both versions), multicast and random, with the common       *)
(* procedure for Nacks and the two retransmission suppressions.            *)
(*                                                                         *)
(* A trigger is an operator that returns the set of its possible outcomes: *)
(* the entry it leaves and what it has the faces transmit.  Only the       *)
(* random strategy has more than one.                                      *)
(***************************************************************************)
EXTENDS PitEntry

CONSTANTS
    Fib,          \* Fib[name]: the next hops of name's longest match, by cost
    StrategyOf    \* StrategyOf[key]: the effective strategy of the entry

StrategyNames == {"best-route", "best-route-v1", "multicast", "random"}

ASSUME RouteAssumption ==
    /\ Fib \in [Names -> Seq(Faces)]
    /\ StrategyOf \in [Keys -> StrategyNames]

Outcome == [entry : Entry, sent : SUBSET Transmission]

\* Strategy::lookupFib; a removed face is no next hop any more.
NextHops(key, up) == {Fib[key.name][n] : n \in DOMAIN Fib[key.name]} \cap up

(***************************************************************************)
(* What a strategy may do to an entry (fw/strategy.cpp and the outgoing    *)
(* pipelines of fw/forwarder.cpp).                                         *)
(***************************************************************************)
\* Mutant: a face that has an out-record is not sent the Interest again.
SendInterestOnce(e, i, egress) ==
    [entry |-> WithOutRecord(e, egress, i.nonce, i.life),
     sent |-> IF egress \in Upstreams(e) THEN {} ELSE {SentInterest(egress, i.key, i.nonce)}]

\* Strategy::sendInterest, onOutgoingInterest.
SendInterest(e, i, egress) ==
    [entry |-> WithOutRecord(e, egress, i.nonce, i.life),
     sent |-> {SentInterest(egress, i.key, i.nonce)}]

\* Mutant: the in-record stays.
SendNacksKeeping(e, key, faces, reason) ==
    LET to == faces \cap Downstreams(e) \cap P2P
    IN  [entry |-> e, sent |-> {SentNack(f, key, e.in[f].nonce, reason) : f \in to}]

\* Strategy::sendNack, onOutgoingNack, to each of a set of faces: a face needs an
\* in-record and a point-to-point link, and loses the in-record.
SendNacks(e, key, faces, reason) ==
    LET to == faces \cap Downstreams(e) \cap P2P
    IN  [entry |-> WithoutIn(e, to),
         sent |-> {SentNack(f, key, e.in[f].nonce, reason) : f \in to}]

\* The Nack with which best route, multicast and random give up, followed by
\* rejectPendingInterest.
Reject(e, key, ingress) ==
    LET nacked == SendNacks(e, key, {ingress}, "no-route")
    IN  [nacked EXCEPT !.entry.timer = 0]

Keep(e) == [entry |-> e, sent |-> {}]

(***************************************************************************)
(* RetxSuppressionExponential.                                             *)
(***************************************************************************)
\* Mutant: the largest interval is not looked at.
DoubledWithoutLimit(interval) == 2 * interval

Doubled(interval) == IF 2 * interval < RetxMax THEN 2 * interval ELSE RetxMax

\* Mutant: judged by the oldest transmission.
SuppressedByOldest(e) == \A f \in Upstreams(e) : e.out[f].age < e.interval

\* decidePerPitEntry: some out-record, pending or not, is younger than the
\* entry's interval (getLastOutgoing is the age of the youngest).
SuppressedPerEntry(e) == \E f \in Upstreams(e) : e.out[f].age < e.interval

\* decidePerUpstream.
SuppressedPerUpstream(e, face) ==
    face \in Upstreams(e) /\ e.out[face].age < e.out[face].interval

(***************************************************************************)
(* Choice of a next hop.                                                   *)
(***************************************************************************)
\* The cheapest of some next hops, in a set; empty when there is none.
Cheapest(key, faces) ==
    LET hops == Fib[key.name]
    IN  {hops[n] : n \in {m \in DOMAIN hops : /\ hops[m] \in faces
                                             /\ \A l \in 1 .. m - 1 : hops[l] \notin faces}}

\* findEligibleNextHopWithEarliestOutRecord: every eligible next hop has an
\* out-record by then; of those renewed in the tick longest ago, any may be first.
Earliest(e, faces) == {f \in faces : \A g \in faces : e.out[g].age <= e.out[f].age}

(***************************************************************************)
(* afterReceiveInterest, once the incoming Interest pipeline has recorded  *)
(* the downstream.                                                         *)
(***************************************************************************)
\* BestRouteStrategy2.
BestRoute(e, i, ingress, up) ==
    LET able == {f \in NextHops(i.key, up) : IsEligible(ingress, i.key, f)}
        unused == {f \in able : IsUnused(e, f)}
        retried == IF unused # {} THEN Cheapest(i.key, unused)
                                  ELSE Earliest(e, able)
        doubled == [e EXCEPT !.interval = Doubled(@)]
    IN  IF ~HasPendingOutRecords(e)
        THEN IF able = {}
             THEN {Reject(e, i.key, ingress)}
             ELSE {SendInterest(e, i, f) : f \in Cheapest(i.key, able)}
        ELSE IF SuppressedPerEntry(e)
             THEN {Keep(e)}
             ELSE IF able = {}
                  THEN {Keep(doubled)}
                  ELSE {SendInterest(doubled, i, f) : f \in retried}

\* BestRouteStrategyBase.
BestRouteV1(e, i, ingress, up) ==
    LET able == {f \in NextHops(i.key, up) : /\ ~ViolatesScope(ingress, i.key, f)
                                             /\ CanForwardToLegacy(e, f)}
    IN  IF HasPendingOutRecords(e)
        THEN {Keep(e)}
        ELSE IF able = {}
             THEN {Keep([e EXCEPT !.timer = 0])}
             ELSE {SendInterest(e, i, f) : f \in Cheapest(i.key, able)}

\* MulticastStrategy: every next hop is decided by its own out-record.
Multicast(e, i, ingress, up) ==
    LET suppressed == {f \in NextHops(i.key, up) : SuppressedPerUpstream(e, f)}
        targets == {f \in NextHops(i.key, up) \ suppressed : IsEligible(ingress, i.key, f)}
        Sent(f) == LET renewed == Renewed(e.out[f], i.nonce, i.life)
                   IN  IF f \in Upstreams(e)
                       THEN [renewed EXCEPT !.interval = Doubled(@)]
                       ELSE renewed
    IN  IF targets = {} /\ suppressed = {}
        THEN {Reject(e, i.key, ingress)}
        ELSE {[entry |-> [e EXCEPT !.out = [f \in Faces |->
                             IF f \in targets THEN Sent(f) ELSE e.out[f]]],
               sent |-> {SentInterest(f, i.key, i.nonce) : f \in targets}]}

\* RandomStrategy.
RandomHop(e, i, ingress, up) ==
    LET able == {f \in NextHops(i.key, up) : IsEligible(ingress, i.key, f)}
    IN  IF able = {}
        THEN {Reject(e, i.key, ingress)}
        ELSE {SendInterest(e, i, f) : f \in able}

AfterReceiveInterest(e, i, ingress, up) ==
    CASE StrategyOf[i.key] = "best-route" -> BestRoute(e, i, ingress, up)
      [] StrategyOf[i.key] = "best-route-v1" -> BestRouteV1(e, i, ingress, up)
      [] StrategyOf[i.key] = "multicast" -> Multicast(e, i, ingress, up)
      [] StrategyOf[i.key] = "random" -> RandomHop(e, i, ingress, up)

(***************************************************************************)
(* afterReceiveNack.                                                       *)
(***************************************************************************)
\* isLessSevere orders the reasons of lp::NackReason.
Severity == [r \in Reasons |->
    CASE r = "congestion" -> 1 [] r = "duplicate" -> 2 [] r = "no-route" -> 3]

\* Mutant: whoever the last upstream is, all downstreams get the Nack.
ProcessNackToAll(e, key) ==
    LET waiting == {f \in Upstreams(e) : e.out[f].nack = NotNacked}
        reasons == {e.out[f].nack : f \in Upstreams(e) \ waiting}
        least == {r \in reasons : \A s \in reasons : Severity[r] <= Severity[s]}
    IN  {SendNacks(e, key, IF Cardinality(waiting) <= 1 THEN Downstreams(e) ELSE {}, r) :
            r \in least}

\* ProcessNackTraitsBase::processNack.
ProcessNack(e, key) ==
    LET waiting == {f \in Upstreams(e) : e.out[f].nack = NotNacked}
        reasons == {e.out[f].nack : f \in Upstreams(e) \ waiting}
        least == {r \in reasons : \A s \in reasons : Severity[r] <= Severity[s]}
        mutual == {f \in waiting \cap Downstreams(e) : waiting = {f}}
        to == IF waiting = {} THEN Downstreams(e) ELSE mutual
    IN  {SendNacks(e, key, to, r) : r \in least}

\* Best route version 1 keeps the base class's empty trigger.
AfterReceiveNack(e, key) ==
    IF StrategyOf[key] = "best-route-v1" THEN {Keep(e)} ELSE ProcessNack(e, key)

(***************************************************************************)
(* Sending Data.                                                           *)
(***************************************************************************)
\* onOutgoingData: the Data that really leaves for each of a set of faces.
OutgoingData(data, faces) ==
    {SentData(f, data) : f \in {g \in faces : ~LeaksLocalhost(g, data.name)}}

\* Mutant: an expired Interest still counts.
AnyDownstreams(e) == Downstreams(e)

\* The downstreams still waiting when Data comes in on ingress.
PendingDownstreams(e) == {f \in Downstreams(e) : e.in[f].left > 0}

\* Mutant: the in-records stay.
AfterReceiveDataKeeping(e, data, ingress) ==
    LET to == {f \in PendingDownstreams(e) : f # ingress \/ f \in AdHoc}
    IN  [entry |-> e, sent |-> OutgoingData(data, to)]

\* Strategy::afterReceiveData: sendDataToAll, and sendData for each downstream.
AfterReceiveData(e, data, ingress) ==
    LET to == {f \in PendingDownstreams(e) : f # ingress \/ f \in AdHoc}
    IN  [entry |-> WithoutIn(e, to), sent |-> OutgoingData(data, to)]

\* Strategy::afterContentStoreHit: sendData to the face that asked.
AfterContentStoreHit(e, data, ingress) ==
    [entry |-> WithoutIn(e, {ingress}), sent |-> OutgoingData(data, {ingress})]
=============================================================================
