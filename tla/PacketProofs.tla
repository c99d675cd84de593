---------------------------- MODULE PacketProofs ----------------------------
(***************************************************************************)
(* What holds of the packets the forwarder sends, and of the records it    *)
(* keeps of them; and that it implements PendingInterests: for every choice*)
(* of its constants.                                                       *)
(***************************************************************************)
EXTENDS ForwarderPromise, ForwarderProofs

(***************************************************************************)
(* What a strategy does with an Interest: it sends it to a set of faces,   *)
(* perhaps empty, or it rejects it.                                        *)
(***************************************************************************)
\* The outcome o of entry e sends Interest i to the faces of T, and changes no record
\* but theirs.
Sends(e, i, o, T) ==
    /\ o.sent = {SentInterest(g, i.key, i.nonce) : g \in T}
    /\ o.entry.in = e.in
    /\ o.entry.satisfied = e.satisfied
    /\ o.entry.interval \in {e.interval, Doubled(e.interval)}
    /\ o.entry.timer \in {e.timer, 0}
    /\ \A g \in Faces \ T : o.entry.out[g] = e.out[g]
    /\ \A g \in T : o.entry.out[g] # NoRecord /\ o.entry.out[g].nonce = i.nonce

\* The faces of T are next hops that a strategy may choose for the Interest i of f.
Chosen(e, i, f, u, T) ==
    /\ T \subseteq NextHops(i.key, u)
    /\ \A g \in T : /\ ~ViolatesScope(f, i.key, g)
                    /\ StrategyOf[i.key] # "best-route-v1" => IsEligible(f, i.key, g)
    /\ StrategyOf[i.key] = "best-route" /\ T # {} /\ HasPendingOutRecords(e) =>
         ~SuppressedPerEntry(e)

\* The outcome o of entry e rejects the Interest i of f, which no next hop could have
\* been sent.
Rejects(e, i, f, u, o) ==
    /\ o = Reject(e, i.key, f)
    /\ \A g \in NextHops(i.key, u) : ~IsEligible(f, i.key, g)

\* sendInterest sends to its egress, whatever the suppression interval has become.
LEMMA SendInterestSends ==
  ASSUME NEW e \in Entry, NEW i \in Interests, NEW g \in Faces,
         NEW x \in {e, [e EXCEPT !.interval = Doubled(@)]}
  PROVE  Sends(e, i, SendInterest(x, i, g), {g})
<1> DEFINE o == SendInterest(x, i, g)
<1>1. i.key \in Keys /\ i.nonce \in Nonces /\ i.life \in Lifetimes
  BY PacketAssumption
<1>2. /\ x \in Entry /\ x.in = e.in /\ x.out = e.out /\ x.timer = e.timer
      /\ x.interval \in {e.interval, Doubled(e.interval)}
  BY DoubledType DEF Entry
<1>3. x.satisfied = e.satisfied
  BY DEF Entry
<1>4. o.sent = {SentInterest(g, i.key, i.nonce)}
  BY DEF SendInterest
<1>5. o.entry = [x EXCEPT !.out = [x.out EXCEPT ![g] = Renewed(x.out[g], i.nonce, i.life)]]
  BY DEF SendInterest, WithOutRecord
<1>6. Renewed(x.out[g], i.nonce, i.life) \in OutRecord
  BY <1>1, <1>2, RenewedType DEF Entry
<1>7. Renewed(x.out[g], i.nonce, i.life).nonce = i.nonce
  BY DEF Renewed
<1>8. o.entry.in = e.in /\ o.entry.timer = e.timer /\ o.entry.interval = x.interval
  BY <1>2, <1>5 DEF Entry
<1>9. o.entry.satisfied = e.satisfied
  BY <1>2, <1>3, <1>5 DEF Entry
<1>10. o.entry.out = [x.out EXCEPT ![g] = Renewed(x.out[g], i.nonce, i.life)]
  BY <1>2, <1>5 DEF Entry
<1>11. \A h \in Faces : o.entry.out[h] = IF h = g THEN Renewed(x.out[g], i.nonce, i.life)
                                                  ELSE e.out[h]
  BY <1>2, <1>10 DEF Entry
<1> HIDE DEF o
<1>12. o.entry.out[g] # NoRecord /\ o.entry.out[g].nonce = i.nonce
  BY <1>6, <1>7, <1>11, NoRecordAssumption
<1>13. \A h \in Faces \ {g} : o.entry.out[h] = e.out[h]
  BY <1>11
<1>14. o.sent = {SentInterest(h, i.key, i.nonce) : h \in {g}}
  BY <1>4
<1>15. o.entry.interval \in {e.interval, Doubled(e.interval)}
  BY <1>2, <1>8
<1>16. \A h \in {g} : o.entry.out[h] # NoRecord /\ o.entry.out[h].nonce = i.nonce
  BY <1>12
<1>17. o.entry.in = e.in /\ o.entry.timer \in {e.timer, 0}
  BY <1>8
<1>18. Sends(e, i, o, {g})
  BY <1>9, <1>13, <1>14, <1>15, <1>16, <1>17, Zenon DEF Sends
<1> QED
  BY <1>18 DEF o

\* Keeping silent sends to nobody.
LEMMA KeepSends ==
  ASSUME NEW e \in Entry, NEW i,
         NEW x \in {e, [e EXCEPT !.interval = Doubled(@)], [e EXCEPT !.timer = 0]}
  PROVE  Sends(e, i, Keep(x), {})
<1>1. /\ x.in = e.in /\ x.out = e.out /\ x.timer \in {e.timer, 0}
      /\ x.interval \in {e.interval, Doubled(e.interval)}
  BY DEF Entry
<1>2. x.satisfied = e.satisfied
  BY DEF Entry
<1>3. Keep(x).entry = x /\ Keep(x).sent = {}
  BY DEF Keep
<1> QED
  BY <1>1, <1>2, <1>3 DEF Sends

\* Best route.
LEMMA BestRouteSends ==
  ASSUME NEW e \in Entry, NEW i \in Interests, NEW f \in Faces, NEW u \in SUBSET Faces,
         StrategyOf[i.key] = "best-route", NEW o \in BestRoute(e, i, f, u)
  PROVE  \/ Rejects(e, i, f, u, o)
         \/ \E T \in SUBSET u : Sends(e, i, o, T) /\ Chosen(e, i, f, u, T)
<1> DEFINE able == {g \in NextHops(i.key, u) : IsEligible(f, i.key, g)}
           unused == {g \in able : IsUnused(e, g)}
           doubled == [e EXCEPT !.interval = Doubled(@)]
<1>1. able \subseteq u /\ unused \subseteq able
  BY DEF NextHops
<1>2. Cheapest(i.key, able) \subseteq able /\ Cheapest(i.key, unused) \subseteq able
  BY <1>1, CheapestOffered
<1>3. Earliest(e, able) \subseteq able
  BY DEF Earliest
<1>4. \A g \in able : ~HasPendingOutRecords(e) \/ ~SuppressedPerEntry(e) => Chosen(e, i, f, u, {g})
  BY DEF Chosen, IsEligible
<1>5. Chosen(e, i, f, u, {})
  BY DEF Chosen
<1>6. able = {} => \A g \in NextHops(i.key, u) : ~IsEligible(f, i.key, g)
  OBVIOUS
<1> HIDE DEF able, unused, doubled
<1>7. \/ o = Reject(e, i.key, f) /\ able = {}
      \/ o = Keep(e)
      \/ o = Keep(doubled)
      \/ ~HasPendingOutRecords(e) /\ \E g \in Cheapest(i.key, able) : o = SendInterest(e, i, g)
      \/ ~SuppressedPerEntry(e)
         /\ \E g \in Cheapest(i.key, unused) \cup Earliest(e, able) :
              o = SendInterest(doubled, i, g)
  BY DEF BestRoute, able, unused, doubled
<1>8. CASE o = Reject(e, i.key, f) /\ able = {}
  BY <1>6, <1>8 DEF Rejects
<1>9. CASE o = Keep(e) \/ o = Keep(doubled)
  <2>1. Sends(e, i, o, {})
    BY <1>9, KeepSends DEF doubled
  <2> QED
    BY <1>5, <2>1
<1>10. ASSUME NEW g \in able, o = SendInterest(e, i, g) \/ o = SendInterest(doubled, i, g),
              ~HasPendingOutRecords(e) \/ ~SuppressedPerEntry(e)
       PROVE  \E T \in SUBSET u : Sends(e, i, o, T) /\ Chosen(e, i, f, u, T)
  <2>1. Sends(e, i, o, {g})
    BY <1>1, <1>10, SendInterestSends DEF doubled
  <2> QED
    BY <1>1, <1>4, <1>10, <2>1
<1> QED
  BY <1>2, <1>3, <1>7, <1>8, <1>9, <1>10

\* The first best route, which rejects without a Nack.
LEMMA BestRouteV1Sends ==
  ASSUME NEW e \in Entry, NEW i \in Interests, NEW f \in Faces, NEW u \in SUBSET Faces,
         StrategyOf[i.key] = "best-route-v1", NEW o \in BestRouteV1(e, i, f, u)
  PROVE  \E T \in SUBSET u : Sends(e, i, o, T) /\ Chosen(e, i, f, u, T)
<1> DEFINE able == {g \in NextHops(i.key, u) : /\ ~ViolatesScope(f, i.key, g)
                                               /\ CanForwardToLegacy(e, g)}
<1>1. Cheapest(i.key, able) \subseteq able /\ able \subseteq u
  BY CheapestOffered DEF NextHops
<1>2. \A g \in able : Chosen(e, i, f, u, {g})
  BY DEF Chosen
<1>3. Chosen(e, i, f, u, {})
  BY DEF Chosen
<1> HIDE DEF able
<1>4. \/ o = Keep(e)
      \/ o = Keep([e EXCEPT !.timer = 0])
      \/ \E g \in Cheapest(i.key, able) : o = SendInterest(e, i, g)
  BY DEF BestRouteV1, able
<1>5. CASE o = Keep(e) \/ o = Keep([e EXCEPT !.timer = 0])
  <2>1. Sends(e, i, o, {})
    BY <1>5, KeepSends
  <2> QED
    BY <1>3, <2>1
<1>6. ASSUME NEW g \in able, o = SendInterest(e, i, g)
      PROVE  \E T \in SUBSET u : Sends(e, i, o, T) /\ Chosen(e, i, f, u, T)
  <2>1. Sends(e, i, o, {g})
    BY <1>1, <1>6, SendInterestSends
  <2> QED
    BY <1>1, <1>2, <2>1
<1> QED
  BY <1>1, <1>4, <1>5, <1>6

\* Multicast.
LEMMA MulticastSends ==
  ASSUME NEW e \in Entry, NEW i \in Interests, NEW f \in Faces, NEW u \in SUBSET Faces,
         StrategyOf[i.key] = "multicast", NEW o \in Multicast(e, i, f, u)
  PROVE  \/ Rejects(e, i, f, u, o)
         \/ \E T \in SUBSET u : Sends(e, i, o, T) /\ Chosen(e, i, f, u, T)
<1> DEFINE suppressed == {g \in NextHops(i.key, u) : SuppressedPerUpstream(e, g)}
           targets == {g \in NextHops(i.key, u) \ suppressed : IsEligible(f, i.key, g)}
           Fresh(g) == Renewed(e.out[g], i.nonce, i.life)
           Sent(g) == IF g \in Upstreams(e) THEN [Fresh(g) EXCEPT !.interval = Doubled(@)]
                                            ELSE Fresh(g)
           out == [g \in Faces |-> IF g \in targets THEN Sent(g) ELSE e.out[g]]
<1>1. targets \subseteq u /\ targets \subseteq NextHops(i.key, u)
      /\ \A g \in targets : IsEligible(f, i.key, g)
  BY DEF NextHops
<1>2. CASE targets = {} /\ suppressed = {}
  <2>1. \A g \in NextHops(i.key, u) : ~IsEligible(f, i.key, g)
    BY <1>2
  <2>2. o = Reject(e, i.key, f)
    BY <1>2 DEF Multicast
  <2> QED
    BY <2>1, <2>2 DEF Rejects
<1>3. CASE ~(targets = {} /\ suppressed = {})
  <2>1. o = [entry |-> [e EXCEPT !.out = out],
             sent |-> {SentInterest(g, i.key, i.nonce) : g \in targets}]
    BY <1>3 DEF Multicast
  <2>2. \A g \in targets : Fresh(g) \in OutRecord /\ Fresh(g).nonce = i.nonce
    <3>1. i.nonce \in Nonces /\ i.life \in Lifetimes
      BY PacketAssumption
    <3>2. \A g \in targets : e.out[g] \in OutRecord \cup {NoRecord}
      BY <1>1 DEF Entry
    <3> QED
      BY <3>1, <3>2, RenewedType DEF Renewed
  <2> HIDE DEF Fresh, targets, suppressed
  <2>3. \A g \in targets : Sent(g) \in OutRecord /\ Sent(g).nonce = i.nonce
    <3>1. \A r \in OutRecord : /\ [r EXCEPT !.interval = Doubled(@)] \in OutRecord
                               /\ [r EXCEPT !.interval = Doubled(@)].nonce = r.nonce
      BY TimeAssumption DEF OutRecord, Doubled
    <3> QED
      BY <2>2, <3>1
  <2> HIDE DEF Sent
  <2>4. o.sent = {SentInterest(g, i.key, i.nonce) : g \in targets}
    BY <2>1
  <2>5. o.entry = [e EXCEPT !.out = out]
    BY <2>1
  <2>6. o.entry.out = out
    BY <2>5 DEF Entry
  <2>7. o.entry.in = e.in /\ o.entry.timer = e.timer /\ o.entry.interval = e.interval
    BY <2>5 DEF Entry
  <2>8. o.entry.satisfied = e.satisfied
    BY <2>5 DEF Entry
  <2>9. \A g \in Faces : out[g] = IF g \in targets THEN Sent(g) ELSE e.out[g]
    OBVIOUS
  <2> HIDE DEF out
  <2>10. \A g \in targets : o.entry.out[g] # NoRecord /\ o.entry.out[g].nonce = i.nonce
    BY <1>1, <2>3, <2>6, <2>9, NoRecordAssumption
  <2>11. \A g \in Faces \ targets : o.entry.out[g] = e.out[g]
    BY <2>6, <2>9
  <2>12. Sends(e, i, o, targets)
    BY <2>4, <2>7, <2>8, <2>10, <2>11 DEF Sends
  <2>13. Chosen(e, i, f, u, targets)
    BY <1>1 DEF Chosen, IsEligible
  <2> QED
    BY <1>1, <2>12, <2>13
<1> QED
  BY <1>2, <1>3

\* Hence every strategy.
LEMMA AfterReceiveInterestSends ==
  ASSUME NEW e \in Entry, NEW i \in Interests, NEW f \in Faces, NEW u \in SUBSET Faces,
         NEW o \in AfterReceiveInterest(e, i, f, u)
  PROVE  \/ Rejects(e, i, f, u, o)
         \/ \E T \in SUBSET u : Sends(e, i, o, T) /\ Chosen(e, i, f, u, T)
<1>1. ASSUME StrategyOf[i.key] = "random", o \in RandomHop(e, i, f, u)
      PROVE  \/ Rejects(e, i, f, u, o)
             \/ \E T \in SUBSET u : Sends(e, i, o, T) /\ Chosen(e, i, f, u, T)
  <2> DEFINE able == {g \in NextHops(i.key, u) : IsEligible(f, i.key, g)}
  <2>1. CASE able = {}
    BY <1>1, <2>1 DEF RandomHop, Rejects
  <2>2. CASE able # {}
    <3>1. PICK g \in able : o = SendInterest(e, i, g)
      BY <1>1, <2>2 DEF RandomHop
    <3>2. g \in u /\ Sends(e, i, o, {g})
      BY <3>1, SendInterestSends DEF NextHops
    <3>3. Chosen(e, i, f, u, {g})
      BY <1>1, <3>1 DEF Chosen, IsEligible
    <3> QED
      BY <3>2, <3>3
  <2> QED
    BY <2>1, <2>2
<1>2. StrategyOf[i.key] \in StrategyNames
  BY RouteAssumption, PacketAssumption
<1> QED
  BY <1>1, <1>2, BestRouteSends, BestRouteV1Sends, MulticastSends
  DEF AfterReceiveInterest, StrategyNames

(***************************************************************************)
(* What a miss and a Nack do to an entry.                                  *)
(***************************************************************************)
\* Entry x once face f has asked with Interest i: its in-record, and maybe the timer.
Recorded(x, f, i, e) ==
    /\ e.in = [x.in EXCEPT ![f] = [nonce |-> i.nonce, left |-> i.life]]
    /\ e.out = x.out
    /\ e.satisfied = x.satisfied
    /\ e.interval = x.interval

\* On a miss the downstream is recorded, and then the Interest is sent to some faces,
\* which the strategy has chosen unless an application has, or rejected.
LEMMA MissSends ==
  ASSUME TypeOK, NEW f \in Faces, NEW i \in Interests, MissInterest(f, i)
  PROVE  \E e \in Entry, o \in Outcome :
            /\ Recorded(EntryOf(i.key), f, i, e)
            /\ pit' = [pit EXCEPT ![i.key] = o.entry] /\ sent' = o.sent
            /\ \/ i.via = NoFace /\ Rejects(e, i, f, up, o)
               \/ \E T \in SUBSET up : /\ Sends(e, i, o, T)
                                       /\ i.via = NoFace => Chosen(e, i, f, up, T)
<1> DEFINE w == WithInRecord(EntryOf(i.key), f, i.nonce, i.life)
<1>1. i.key \in Keys /\ i.nonce \in Nonces /\ i.life \in Lifetimes /\ up \in SUBSET Faces
  BY PacketAssumption DEF TypeOK
<1>2. PICK t \in LastExpiry(w) : \E o \in MissOutcomes([w EXCEPT !.timer = t], i, f) :
               pit' = [pit EXCEPT ![i.key] = o.entry] /\ sent' = o.sent
  BY DEF MissInterest
<1> DEFINE e == [w EXCEPT !.timer = t]
<1>3. e \in Entry
  BY <1>2, MissTimer
<1>4. PICK o \in MissOutcomes(e, i, f) : pit' = [pit EXCEPT ![i.key] = o.entry] /\ sent' = o.sent
  BY <1>2
<1>5. Recorded(EntryOf(i.key), f, i, e)
  <2>1. EntryOf(i.key) \in Entry
    BY <1>1, EntryOfType
  <2>2. /\ e.in = [EntryOf(i.key).in EXCEPT ![f] = [nonce |-> i.nonce, left |-> i.life]]
        /\ e.out = EntryOf(i.key).out
        /\ e.interval = EntryOf(i.key).interval
    BY <2>1 DEF WithInRecord, Entry
  <2>3. e.satisfied = EntryOf(i.key).satisfied
    BY <2>1 DEF WithInRecord, Entry
  <2> QED
    BY <2>2, <2>3 DEF Recorded
<1> HIDE DEF e
<1>6. o \in Outcome
  BY <1>1, <1>3, <1>4, AfterReceiveInterestType, SendInterestType, KeepType DEF MissOutcomes
<1>7. CASE i.via = NoFace
  <2>1. o \in AfterReceiveInterest(e, i, f, up)
    BY <1>4, <1>7 DEF MissOutcomes
  <2>2. \/ Rejects(e, i, f, up, o)
        \/ \E T \in SUBSET up : Sends(e, i, o, T) /\ Chosen(e, i, f, up, T)
    BY <1>1, <1>3, <2>1, AfterReceiveInterestSends
  <2> QED
    BY <1>3, <1>4, <1>5, <1>6, <1>7, <2>2
<1>8. CASE i.via # NoFace
  <2>1. \E T \in SUBSET up : Sends(e, i, o, T)
    <3>1. CASE i.via \in up
      <4>1. o = SendInterest(e, i, i.via)
        BY <1>4, <1>8, <3>1 DEF MissOutcomes
      <4>2. Sends(e, i, o, {i.via})
        BY <1>1, <1>3, <3>1, <4>1, SendInterestSends
      <4> QED
        BY <3>1, <4>2
    <3>2. CASE i.via \notin up
      <4>1. o = Keep(e)
        BY <1>4, <1>8, <3>2 DEF MissOutcomes
      <4>2. Sends(e, i, o, {})
        BY <1>3, <4>1, KeepSends
      <4> QED
        BY <4>2
    <3> QED
      BY <3>1, <3>2
  <2> QED
    BY <1>3, <1>4, <1>5, <1>6, <1>8, <2>1
<1> QED
  BY <1>7, <1>8

\* A rejected Interest leaves an entry that is due, and perhaps a Nack to its face.
LEMMA RejectEffect ==
  ASSUME NEW e \in Entry, NEW key \in Keys, NEW f \in Faces, NEW o, o = Reject(e, key, f)
  PROVE  LET to == {f} \cap Downstreams(e) \cap P2P
         IN  /\ o.sent = {SentNack(g, key, e.in[g].nonce, "no-route") : g \in to}
             /\ o.entry.in = [g \in Faces |-> IF g \in to THEN NoRecord ELSE e.in[g]]
             /\ o.entry.out = e.out
             /\ o.entry.timer = 0
             /\ o.entry.interval = e.interval
<1> DEFINE s == SendNacks(e, key, {f}, "no-route")
           to == {f} \cap Downstreams(e) \cap P2P
<1>1. s \in Outcome
  BY SendNacksType DEF Reasons
<1>2. o = [s EXCEPT !.entry = [s.entry EXCEPT !.timer = 0]]
  BY DEF Reject
<1>3. o.entry = [s.entry EXCEPT !.timer = 0] /\ o.sent = s.sent
  BY <1>1, <1>2 DEF Outcome
<1>4. s.entry = WithoutIn(e, to) /\ s.sent = {SentNack(g, key, e.in[g].nonce, "no-route") : g \in to}
  BY DEF SendNacks
<1> HIDE DEF s, to
<1>5. /\ o.entry.in = [g \in Faces |-> IF g \in to THEN NoRecord ELSE e.in[g]]
      /\ o.entry.out = e.out /\ o.entry.timer = 0 /\ o.entry.interval = e.interval
  BY <1>3, <1>4 DEF WithoutIn, Entry
<1> QED
  BY <1>3, <1>4, <1>5 DEF to

\* The only packet of a rejection is a Nack of the entry's name to the downstream.
LEMMA RejectSent ==
  ASSUME NEW e \in Entry, NEW key \in Keys, NEW f \in Faces, NEW o, o = Reject(e, key, f),
         NEW p \in o.sent
  PROVE  p.type = "nack" /\ p.to = f /\ p.key = key
<1> DEFINE to == {f} \cap Downstreams(e) \cap P2P
<1>1. /\ o.sent = {SentNack(g, key, e.in[g].nonce, "no-route") : g \in to}
      /\ o.entry.in = [g \in Faces |-> IF g \in to THEN NoRecord ELSE e.in[g]]
      /\ o.entry.timer = 0
  BY RejectEffect
<1>2. to \subseteq {f}
  OBVIOUS
<1> HIDE DEF to
<1>3. PICK g \in to : p = SentNack(g, key, e.in[g].nonce, "no-route")
  BY <1>1
<1> QED
  BY <1>2, <1>3 DEF SentNack

\* A rejected entry is not satisfied by that.
LEMMA RejectSatisfied ==
  ASSUME NEW e \in Entry, NEW key \in Keys, NEW f \in Faces, NEW o, o = Reject(e, key, f)
  PROVE  o.entry.satisfied = e.satisfied
<1> DEFINE s == SendNacks(e, key, {f}, "no-route")
           to == {f} \cap Downstreams(e) \cap P2P
<1>1. s \in Outcome
  BY SendNacksType DEF Reasons
<1>2. o = [s EXCEPT !.entry = [s.entry EXCEPT !.timer = 0]]
  BY DEF Reject
<1>3. s.entry = WithoutIn(e, to)
  BY DEF SendNacks
<1> HIDE DEF s, to
<1>4. o.entry = [s.entry EXCEPT !.timer = 0]
  BY <1>1, <1>2 DEF Outcome
<1> QED
  BY <1>3, <1>4 DEF WithoutIn, Entry

\* Entry x is entry e with the Nack of upstream f noted.
Noted(e, f, r, x) ==
    /\ x.in = e.in
    /\ x.out = [e.out EXCEPT ![f] = [e.out[f] EXCEPT !.nack = r]]
    /\ x.satisfied = e.satisfied
    /\ x.interval = e.interval
    /\ x.timer \in {e.timer, 0}
    /\ x.timer = 0 \/ HasPendingOutRecords(x)

\* Nacks are returned to none but the one upstream that has not sent a Nack itself, as
\* long as there is one.
AloneInWaiting(x, to) ==
    \A g \in to : \A h \in Upstreams(x) : x.out[h].nack = NotNacked => h = g

\* The step has noted the Nack of upstream f for key k, in entry x, and taken the
\* downstreams of to.
NackTakes(f, k, r, x, to) ==
    /\ Noted(pit[k], f, r, x)
    /\ AloneInWaiting(x, to)
    /\ StrategyOf[k] = "best-route-v1" => to = {}
    /\ pit' = [pit EXCEPT ![k] = WithoutIn(x, to)]

\* A Nack that is accepted is noted, and some downstreams are sent Nacks and forgotten.
LEMMA NackReturns ==
  ASSUME TypeOK, NEW f \in Faces, NEW k \in Keys, NEW n \in Nonces, NEW r \in NackReasons,
         ReceiveNack(f, k, n, r)
  PROVE  /\ pit[k] \in Entry /\ pit[k] # NoEntry /\ f \in Upstreams(pit[k]) /\ f \in P2P
         /\ \E x \in Entry : \E to \in SUBSET (Downstreams(x) \cap P2P), why \in Reasons :
              /\ NackTakes(f, k, r, x, to)
              /\ sent' = {SentNack(g, k, x.in[g].nonce, why) : g \in to}
<1> DEFINE e == [pit[k] EXCEPT !.out[f].nack = r]
           x == IF HasPendingOutRecords(e) THEN e ELSE [e EXCEPT !.timer = 0]
<1>1. pit[k] \in Entry /\ pit[k] # NoEntry /\ f \in Upstreams(pit[k]) /\ f \in P2P
  BY EntryOfType DEF ReceiveNack, NackAccepted
<1>2. e \in Entry
  BY <1>1, NackedType
<1>3. /\ e.in = pit[k].in /\ e.timer = pit[k].timer /\ e.interval = pit[k].interval
      /\ e.out = [pit[k].out EXCEPT ![f] = [pit[k].out[f] EXCEPT !.nack = r]]
  BY <1>1 DEF Entry, Upstreams
<1>4. e.satisfied = pit[k].satisfied
  BY <1>1 DEF Entry
<1>5. PICK o \in AfterReceiveNack(x, k) : pit' = [pit EXCEPT ![k] = o.entry] /\ sent' = o.sent
  BY DEF ReceiveNack
<1> HIDE DEF e
<1>6. x \in Entry /\ x.in = e.in /\ x.out = e.out /\ x.interval = e.interval /\ x.timer \in {e.timer, 0}
  <2>1. [e EXCEPT !.timer = 0] \in Entry
    BY <1>2, TimerType, TimeAssumption
  <2>2. LET y == [e EXCEPT !.timer = 0]
        IN  y.in = e.in /\ y.out = e.out /\ y.interval = e.interval /\ y.timer = 0
    BY <1>2 DEF Entry
  <2> QED
    BY <1>2, <2>1, <2>2
<1>7. x.satisfied = e.satisfied
  BY <1>2 DEF Entry
<1>8. x.timer = 0 \/ HasPendingOutRecords(x)
  BY <1>2 DEF Entry
<1> HIDE DEF x
<1>9. Noted(pit[k], f, r, x)
  <2>1. x.satisfied = pit[k].satisfied
    BY <1>4, <1>7
  <2>2. /\ x.in = pit[k].in /\ x.interval = pit[k].interval /\ x.timer \in {pit[k].timer, 0}
        /\ x.out = [pit[k].out EXCEPT ![f] = [pit[k].out[f] EXCEPT !.nack = r]]
    BY <1>3, <1>6
  <2> QED
    BY <1>8, <2>1, <2>2 DEF Noted
<1>10. \E to \in SUBSET (Downstreams(x) \cap P2P), why \in Reasons :
          /\ AloneInWaiting(x, to)
          /\ StrategyOf[k] = "best-route-v1" => to = {}
          /\ o.entry = WithoutIn(x, to)
          /\ o.sent = {SentNack(g, k, x.in[g].nonce, why) : g \in to}
  <2>1. CASE StrategyOf[k] = "best-route-v1"
    <3>1. o.entry = x /\ o.sent = {}
      BY <1>5, <2>1 DEF AfterReceiveNack, Keep
    <3>2. WithoutIn(x, {}) = x
      BY <1>6 DEF WithoutIn, Entry
    <3>3. AloneInWaiting(x, {}) /\ "no-route" \in Reasons
      BY DEF AloneInWaiting, Reasons
    <3> QED
      BY <3>1, <3>2, <3>3
  <2>2. CASE StrategyOf[k] # "best-route-v1"
    <3> DEFINE waiting == {g \in Upstreams(x) : x.out[g].nack = NotNacked}
               reasons == {x.out[g].nack : g \in Upstreams(x) \ waiting}
               mutual == {g \in waiting \cap Downstreams(x) : waiting = {g}}
               S == IF waiting = {} THEN Downstreams(x) ELSE mutual
               to == S \cap Downstreams(x) \cap P2P
    <3>1. PICK why \in reasons : o = SendNacks(x, k, S, why)
      BY <1>5, <2>2 DEF AfterReceiveNack, ProcessNack
    <3>2. why \in Reasons
      BY <1>6, <3>1 DEF Entry, OutRecord, Upstreams
    <3>3. o.entry = WithoutIn(x, to) /\ o.sent = {SentNack(g, k, x.in[g].nonce, why) : g \in to}
      BY <3>1 DEF SendNacks
    <3>4. x.timer = 0 \/ waiting # {}
      BY <1>8 DEF HasPendingOutRecords
    <3>5. AloneInWaiting(x, to)
      BY <3>4 DEF AloneInWaiting
    <3>6. to \in SUBSET (Downstreams(x) \cap P2P)
      OBVIOUS
    <3> HIDE DEF to
    <3> QED
      BY <2>2, <3>2, <3>3, <3>5, <3>6
  <2> QED
    BY <2>1, <2>2
<1> QED
  BY <1>1, <1>5, <1>6, <1>9, <1>10 DEF NackTakes

(***************************************************************************)
(* What a step makes of the records of one entry.                          *)
(***************************************************************************)
\* Entry x has no record that entry e has not, and the same Nonces.
Shrinks(e, x) ==
    /\ \A g \in Faces : x.in[g] \in {e.in[g], NoRecord}
    /\ \A g \in Faces : x.out[g] # NoRecord =>
          e.out[g] # NoRecord /\ x.out[g].nonce = e.out[g].nonce
    /\ x.interval = e.interval

\* Data has satisfied the entry, on the spot or from the Content Store.
Settled(k) == pit'[k].satisfied /\ Shrinks(EntryOf(k), pit'[k])

LeftAlone(k) == pit[k] # NoEntry /\ pit'[k] = pit[k] /\ UNCHANGED up

\* A face has gone.
Abandoned(k) == RemovableFaces # {} /\ pit[k] # NoEntry /\ Shrinks(pit[k], pit'[k])

NackedEntry(k) ==
    \E f \in Faces, n \in Nonces, r \in NackReasons : ReceiveNack(f, k, n, r)

Requested(k) == \E f \in Faces, i \in Interests : i.key = k /\ MissInterest(f, i)

\* Every step leaves an entry in one of these ways.
LEMMA RecordStep ==
  ASSUME TypeOK, [Next]_vars, NEW k \in Keys
  PROVE  \/ pit'[k] = NoEntry
         \/ LeftAlone(k) \/ AgedEntry(k) \/ Settled(k) \/ Abandoned(k) \/ NackedEntry(k)
         \/ Requested(k)
<1> DEFINE Goal == \/ pit'[k] = NoEntry
                   \/ LeftAlone(k) \/ AgedEntry(k) \/ Settled(k) \/ Abandoned(k)
                   \/ NackedEntry(k) \/ Requested(k)
<1>1. ASSUME pit' = pit, UNCHANGED up PROVE Goal
  BY <1>1 DEF LeftAlone
<1>2. ASSUME NEW key \in Keys, NEW x, k # key, pit' = [pit EXCEPT ![key] = x], UNCHANGED up
      PROVE  Goal
  <2>1. pit'[k] = pit[k]
    BY <1>2 DEF TypeOK
  <2> QED
    BY <1>2, <2>1 DEF LeftAlone
<1>3. ASSUME NEW f \in Faces, NEW i \in Interests, NEW d \in DataPackets, HitInterest(f, i, d)
      PROVE  Goal
  <2> DEFINE e == [Satisfied(EntryOf(i.key), d) EXCEPT !.timer = 0]
  <2>1. i.key \in Keys /\ UNCHANGED up
    BY <1>3, PacketAssumption DEF HitInterest
  <2>2. pit' = [pit EXCEPT ![i.key] = WithoutIn(e, {f})]
    BY <1>3 DEF HitInterest, AfterContentStoreHit
  <2>3. CASE k # i.key
    BY <1>2, <2>1, <2>2, <2>3
  <2>4. CASE k = i.key
    <3>1. EntryOf(k) \in Entry /\ Satisfied(EntryOf(k), d) \in Entry
      BY EntryOfType, SatisfiedType
    <3> DEFINE x == Satisfied(EntryOf(k), d)
    <3>2. /\ x.in = EntryOf(k).in /\ x.out = EntryOf(k).out
          /\ x.interval = EntryOf(k).interval
      BY <3>1 DEF Entry, Satisfied
    <3>3. x.satisfied = TRUE
      BY <3>1 DEF Entry, Satisfied
    <3>4. e = [x EXCEPT !.timer = 0] /\ x \in Entry
      BY <2>4, <3>1
    <3> HIDE DEF e, x
    <3>5. /\ e.in = EntryOf(k).in /\ e.out = EntryOf(k).out
          /\ e.interval = EntryOf(k).interval /\ e \in Entry
      BY <3>2, <3>4, TimerType, TimeAssumption DEF Entry
    <3>6. e.satisfied = TRUE
      BY <3>3, <3>4 DEF Entry
    <3>7. pit'[k] = WithoutIn(e, {f})
      BY <2>2, <2>4 DEF TypeOK
    <3>8. Shrinks(EntryOf(k), pit'[k])
      BY <3>1, <3>5, <3>7 DEF Shrinks, WithoutIn, Entry
    <3>9. pit'[k].satisfied = TRUE
      BY <3>5, <3>6, <3>7 DEF WithoutIn, Entry
    <3> QED
      BY <3>8, <3>9, Zenon DEF Settled
  <2> QED
    BY <2>3, <2>4
<1>4. ASSUME NEW f \in Faces, NEW i \in Interests, MissInterest(f, i) PROVE Goal
  <2>1. i.key \in Keys /\ UNCHANGED up
    BY <1>4, PacketAssumption DEF MissInterest
  <2>2. \E x : pit' = [pit EXCEPT ![i.key] = x]
    BY <1>4, MissSends
  <2> QED
    BY <1>2, <1>4, <2>1, <2>2 DEF Requested
<1>5. ASSUME NEW e \in Entry, NEW d \in DataPackets, NEW S, NEW R, NEW x,
             x = WithoutOut(Satisfied(WithoutIn(e, S), d), R)
      PROVE  x.satisfied /\ Shrinks(e, x)
  <2>1. WithoutIn(e, S) \in Entry /\ Satisfied(WithoutIn(e, S), d) \in Entry
    BY WithoutInType, SatisfiedType
  <2>2. Shrinks(e, x)
    BY <1>5, <2>1 DEF Shrinks, WithoutIn, WithoutOut, Satisfied, Entry
  <2>3. x.satisfied
    BY <1>5, <2>1 DEF WithoutIn, WithoutOut, Satisfied, Entry
  <2> QED
    BY <2>2, <2>3
<1>6. ASSUME NEW f \in Faces, NEW d \in DataPackets, SatisfyOne(f, d) PROVE Goal
  <2>1. PICK key \in Keys :
          /\ DataMatches(d) = {key}
          /\ LET o == AfterReceiveData([pit[key] EXCEPT !.timer = 0], d, f)
             IN  pit' = [pit EXCEPT ![key] = WithoutOut(Satisfied(o.entry, d), {f})]
    BY <1>6 DEF SatisfyOne
  <2>2. UNCHANGED up
    BY <1>6 DEF SatisfyOne
  <2>3. CASE k # key
    BY <1>2, <2>1, <2>2, <2>3
  <2>4. CASE k = key
    <3> DEFINE e == [pit[k] EXCEPT !.timer = 0]
    <3>1. pit[k] \in Entry /\ pit[k] # NoEntry
      BY <2>1, <2>4, EntryOfType DEF DataMatches, Pending
    <3>2. e \in Entry /\ e.in = pit[k].in /\ e.out = pit[k].out /\ e.interval = pit[k].interval
      BY <3>1, TimerType, TimeAssumption DEF Entry
    <3>3. PICK S : pit'[k] = WithoutOut(Satisfied(WithoutIn(e, S), d), {f})
      BY <2>1, <2>4 DEF TypeOK, AfterReceiveData
    <3> HIDE DEF e
    <3>4. pit'[k].satisfied /\ Shrinks(e, pit'[k])
      <4>1. \A x : x = WithoutOut(Satisfied(WithoutIn(e, S), d), {f}) => x.satisfied /\ Shrinks(e, x)
        BY <1>5, <3>2
      <4> QED
        BY <3>3, <4>1, Zenon
    <3>5. Shrinks(EntryOf(k), pit'[k])
      BY <3>1, <3>2, <3>4 DEF Shrinks, EntryOf
    <3> QED
      BY <3>4, <3>5 DEF Settled
  <2> QED
    BY <2>3, <2>4
<1>7. ASSUME NEW f \in Faces, NEW b \in BOOLEAN, NEW d \in DataPackets, SatisfyMany(f, b, d)
      PROVE  Goal
  <2>1. pit'[k] = IF k \in DataMatches(d) THEN SatisfiedTogether(pit[k], d, f) ELSE pit[k]
    BY <1>7 DEF SatisfyMany
  <2>2. UNCHANGED up
    BY <1>7 DEF SatisfyMany
  <2>3. CASE k \notin DataMatches(d)
    BY <2>1, <2>2, <2>3 DEF LeftAlone
  <2>4. CASE k \in DataMatches(d)
    <3>1. pit[k] \in Entry /\ pit[k] # NoEntry
      BY <2>4, EntryOfType DEF DataMatches, Pending
    <3>2. Shrinks(pit[k], SatisfiedTogether(pit[k], d, f))
      BY <3>1 DEF Shrinks, Entry, SatisfiedTogether, Satisfied, WithoutIn, WithoutOut
    <3>3. SatisfiedTogether(pit[k], d, f).satisfied
      BY <3>1 DEF Entry, SatisfiedTogether, Satisfied, WithoutIn, WithoutOut
    <3> QED
      BY <2>1, <2>4, <3>1, <3>2, <3>3 DEF Settled, EntryOf
  <2> QED
    BY <2>3, <2>4
<1>8. ASSUME NEW f \in Faces, NEW key \in Keys, NEW n \in Nonces, NEW r \in NackReasons,
             ReceiveNack(f, key, n, r)
      PROVE  Goal
  <2>1. UNCHANGED up /\ \E x : pit' = [pit EXCEPT ![key] = x]
    BY <1>8, NackReturns DEF ReceiveNack
  <2> QED
    BY <1>2, <1>8, <2>1 DEF NackedEntry
<1>9. ASSUME NEW key \in Keys, FinalizeInterest(key) PROVE Goal
  <2>1. pit' = [pit EXCEPT ![key] = NoEntry] /\ UNCHANGED up
    BY <1>9 DEF FinalizeInterest
  <2>2. CASE k = key
    BY <2>1, <2>2 DEF TypeOK
  <2> QED
    BY <1>2, <2>1, <2>2
<1>10. ASSUME Tick PROVE Goal
  BY <1>10 DEF Tick, AgedEntry
<1>11. ASSUME NEW f \in Faces, RemoveFace(f) PROVE Goal
  <2>1. pit'[k] = IF pit[k] = NoEntry THEN NoEntry ELSE WithoutIn(WithoutOut(pit[k], {f}), {f})
    BY <1>11 DEF RemoveFace
  <2>2. CASE pit[k] = NoEntry
    BY <2>1, <2>2
  <2>3. CASE pit[k] # NoEntry
    <3>1. pit[k] \in Entry
      BY <2>3, EntryOfType
    <3>2. Shrinks(pit[k], WithoutIn(WithoutOut(pit[k], {f}), {f}))
      BY <3>1 DEF Shrinks, Entry, WithoutIn, WithoutOut
    <3> QED
      BY <1>11, <2>1, <2>3, <3>2 DEF Abandoned, RemoveFace
  <2> QED
    BY <2>2, <2>3
<1>12. CASE UNCHANGED vars
  BY <1>1, <1>12 DEF vars
<1>13. CASE \E f \in Faces, i \in Interests : DropInterest(f, i) \/ LoopInterest(f, i)
  BY <1>1, <1>13 DEF DropInterest, LoopInterest
<1>14. CASE \/ \E f \in Faces, d \in DataPackets : StrayData(f, d)
            \/ ReducePit
            \/ \E d \in DataPackets : AgeContent(d)
            \/ \E dead \in Names \X Nonces : ForgetNonce(dead)
  BY <1>1, <1>14 DEF StrayData, DataUnsolicited, ReducePit, AgeContent, ForgetNonce
<1> QED
  BY <1>3, <1>4, <1>6, <1>7, <1>8, <1>9, <1>10, <1>11, <1>12, <1>13, <1>14 DEF Next

\* A tick keeps the Nonces, the Nacks and the suppression intervals.
LEMMA AgedOutRecord ==
  ASSUME NEW e \in Entry, NEW f \in Faces
  PROVE  /\ Aged(e).interval = e.interval
         /\ Aged(e).out[f] # NoRecord => /\ e.out[f] # NoRecord
                                         /\ Aged(e).out[f].nonce = e.out[f].nonce
                                         /\ Aged(e).out[f].nack = e.out[f].nack
<1>1. Aged(e).out[f] = IF e.out[f] = NoRecord THEN NoRecord
                       ELSE [e.out[f] EXCEPT !.left = Countdown(@), !.age = Older(@)]
  BY DEF Aged, Entry
<1>2. \A r \in OutRecord : LET s == [r EXCEPT !.left = Countdown(@), !.age = Older(@)]
                           IN  s.nonce = r.nonce /\ s.nack = r.nack
  BY DEF OutRecord
<1>3. e.out[f] # NoRecord => e.out[f] \in OutRecord
  BY DEF Entry
<1>4. Aged(e).interval = e.interval
  BY DEF Aged, Entry
<1> QED
  BY <1>1, <1>2, <1>3, <1>4

\* Nor does it satisfy an entry.
LEMMA AgedSatisfied ==
  ASSUME NEW e \in Entry
  PROVE  Aged(e).satisfied = e.satisfied
  BY DEF Aged, Entry

\* A Nack takes downstreams from its entry, and neither upstreams nor their Nonces.
LEMMA NackedRecords ==
  ASSUME TypeOK, NEW f \in Faces, NEW k \in Keys, NEW n \in Nonces, NEW r \in NackReasons,
         ReceiveNack(f, k, n, r)
  PROVE  /\ pit[k] \in Entry /\ pit[k] # NoEntry
         /\ Shrinks(pit[k], pit'[k])
         /\ Upstreams(pit'[k]) = Upstreams(pit[k])
<1>1. pit[k] \in Entry /\ pit[k] # NoEntry /\ f \in Upstreams(pit[k]) /\ f \in Faces
  BY NackReturns
<1>2. PICK x \in Entry : \E to : NackTakes(f, k, r, x, to)
  BY NackReturns
<1>3. PICK to : Noted(pit[k], f, r, x) /\ pit' = [pit EXCEPT ![k] = WithoutIn(x, to)]
  BY <1>2 DEF NackTakes
<1>4. pit'[k] = WithoutIn(x, to)
  BY <1>3 DEF TypeOK
<1>5. /\ pit'[k].in = [g \in Faces |-> IF g \in to THEN NoRecord ELSE x.in[g]]
      /\ pit'[k].out = x.out /\ pit'[k].interval = x.interval
  BY <1>2, <1>4 DEF WithoutIn, Entry
<1> DEFINE noted == [pit[k].out[f] EXCEPT !.nack = r]
<1>6. noted \in OutRecord /\ noted.nonce = pit[k].out[f].nonce
  BY <1>1, LimitAssumption DEF Entry, Upstreams, OutRecord
<1>7. x.in = pit[k].in /\ x.interval = pit[k].interval /\ x.out = [pit[k].out EXCEPT ![f] = noted]
  BY <1>3 DEF Noted
<1> HIDE DEF noted
<1>8. \A g \in Faces : x.out[g] = IF g = f THEN noted ELSE pit[k].out[g]
  BY <1>1, <1>7 DEF Entry
<1>9. \A g \in Faces : /\ x.out[g] # NoRecord <=> pit[k].out[g] # NoRecord
                       /\ x.out[g] # NoRecord => x.out[g].nonce = pit[k].out[g].nonce
  BY <1>1, <1>6, <1>8, NoRecordAssumption DEF Upstreams
<1>10. Shrinks(pit[k], pit'[k])
  BY <1>5, <1>7, <1>9 DEF Shrinks
<1>11. Upstreams(pit'[k]) = Upstreams(pit[k])
  BY <1>5, <1>9 DEF Upstreams
<1> QED
  BY <1>1, <1>10, <1>11

\* The step has sent Interest i to the faces of T, of all upstreams.
SentOn(k, i, T) ==
    /\ \A g \in T : SentInterest(g, k, i.nonce) \in sent'
    /\ \A g \in Faces \ T : pit'[k].out[g] = EntryOf(k).out[g]
    /\ \A g \in T : pit'[k].out[g] # NoRecord /\ pit'[k].out[g].nonce = i.nonce

\* They are next hops that may have it from f.
SentRight(k, f, T) ==
    /\ T \subseteq NextHops(k, up)
    /\ \A g \in T : StrategyOf[k] # "best-route-v1" => IsEligible(f, k, g)

\* An Interest adds its own downstream, which is rejected only when no next hop may have
\* the Interest, and the upstreams it is sent to; no other record changes.
LEMMA RequestedRecords ==
  ASSUME TypeOK, NEW f \in Faces, NEW i \in Interests, MissInterest(f, i), NEW k, k = i.key
  PROVE  /\ pit'[k] # NoEntry
         /\ \A g \in Faces \ {f} : pit'[k].in[g] = EntryOf(k).in[g]
         /\ pit'[k].in[f] \in {[nonce |-> i.nonce, left |-> i.life], NoRecord}
         /\ pit'[k].timer = 0 \/ pit'[k].in[f] # NoRecord
         /\ pit'[k].interval \in {EntryOf(k).interval, Doubled(EntryOf(k).interval)}
         /\ pit'[k].satisfied = EntryOf(k).satisfied
         /\ pit'[k].in[f] # NoRecord \/ \A g \in NextHops(k, up) : ~IsEligible(f, k, g)
         /\ \E T \in SUBSET up : SentOn(k, i, T) /\ (i.via = NoFace => SentRight(k, f, T))
<1>1. PICK e \in Entry, o \in Outcome :
            /\ Recorded(EntryOf(k), f, i, e)
            /\ pit' = [pit EXCEPT ![k] = o.entry] /\ sent' = o.sent
            /\ \/ Rejects(e, i, f, up, o)
               \/ \E T \in SUBSET up : /\ Sends(e, i, o, T)
                                       /\ i.via = NoFace => Chosen(e, i, f, up, T)
  BY MissSends
<1>2. k \in Keys /\ i.nonce \in Nonces /\ i.life \in Lifetimes
  BY PacketAssumption
<1> DEFINE new == [nonce |-> i.nonce, left |-> i.life]
           old == EntryOf(k)
<1>3. new \in InRecord /\ new # NoRecord
  <2>1. i.life \in Left
    BY <1>2, TimeAssumption, PacketAssumption DEF Left, Expired
  <2> QED
    BY <1>2, <2>1, NoRecordAssumption DEF InRecord
<1>4. old \in Entry
  BY <1>2, EntryOfType
<1>5. e.in = [old.in EXCEPT ![f] = new] /\ e.out = old.out /\ e.interval = old.interval
  BY <1>1 DEF Recorded
<1>10. e.satisfied = old.satisfied
  BY <1>1 DEF Recorded
<1> HIDE DEF new, old
<1>6. \A g \in Faces : e.in[g] = IF g = f THEN new ELSE old.in[g]
  BY <1>4, <1>5 DEF Entry
<1>7. pit'[k] = o.entry /\ pit'[k] \in Entry /\ pit'[k] # NoEntry
  BY <1>1, <1>2, NoEntryAssumption DEF TypeOK, Outcome
<1>8. CASE Rejects(e, i, f, up, o)
  <2>1. o = Reject(e, k, f) /\ \A g \in NextHops(k, up) : ~IsEligible(f, k, g)
    BY <1>8 DEF Rejects
  <2> DEFINE to == {f} \cap Downstreams(e) \cap P2P
  <2>2. /\ o.entry.in = [g \in Faces |-> IF g \in to THEN NoRecord ELSE e.in[g]]
        /\ o.entry.out = e.out /\ o.entry.timer = 0 /\ o.entry.interval = e.interval
    <3>1. o = Reject(e, k, f) /\ k \in Keys
      BY <1>2, <2>1
    <3> HIDE DEF to
    <3> QED
      BY <3>1, RejectEffect DEF to
  <2>3. to \subseteq {f}
    OBVIOUS
  <2> HIDE DEF to
  <2>4. /\ \A g \in Faces \ {f} : pit'[k].in[g] = old.in[g]
        /\ pit'[k].in[f] \in {new, NoRecord}
        /\ pit'[k].out = old.out /\ pit'[k].timer = 0 /\ pit'[k].interval = old.interval
    BY <1>5, <1>6, <1>7, <2>2, <2>3
  <2>6. pit'[k].satisfied = old.satisfied
    <3>1. o = Reject(e, k, f) /\ k \in Keys
      BY <1>2, <2>1
    <3>2. o.entry.satisfied = e.satisfied
      BY <3>1, RejectSatisfied
    <3> QED
      BY <1>7, <1>10, <3>2
  <2>5. SentOn(k, i, {}) /\ SentRight(k, f, {})
    BY <2>4 DEF SentOn, SentRight, old
  <2> QED
    BY <1>7, <2>1, <2>4, <2>5, <2>6 DEF new, old
<1>9. ASSUME NEW T \in SUBSET up, Sends(e, i, o, T), i.via = NoFace => Chosen(e, i, f, up, T)
      PROVE  /\ \A g \in Faces \ {f} : pit'[k].in[g] = old.in[g]
             /\ pit'[k].in[f] = new
             /\ pit'[k].interval \in {old.interval, Doubled(old.interval)}
             /\ pit'[k].satisfied = old.satisfied
             /\ SentOn(k, i, T)
             /\ i.via = NoFace => SentRight(k, f, T)
  <2>1. /\ pit'[k].in = e.in
        /\ pit'[k].interval \in {e.interval, Doubled(e.interval)}
        /\ \A g \in Faces \ T : pit'[k].out[g] = e.out[g]
        /\ \A g \in T : pit'[k].out[g] # NoRecord /\ pit'[k].out[g].nonce = i.nonce
    BY <1>7, <1>9 DEF Sends
  <2>5. \A g \in T : SentInterest(g, k, i.nonce) \in sent'
    BY <1>1, <1>9 DEF Sends
  <2>2. i.via = NoFace => SentRight(k, f, T)
    BY <1>9 DEF Chosen, SentRight
  <2>3. SentOn(k, i, T)
    BY <1>5, <2>1, <2>5 DEF SentOn, old
  <2>4. pit'[k].satisfied = old.satisfied
    BY <1>7, <1>9, <1>10 DEF Sends
  <2> QED
    BY <1>5, <1>6, <2>1, <2>2, <2>3, <2>4
<1> QED
  BY <1>1, <1>3, <1>7, <1>8, <1>9 DEF new, old

(***************************************************************************)
(* Reflection.                                                             *)
(***************************************************************************)
\* No strategy but the first best route sends an Interest back to the face whose Interest
\* it is, where applications do not choose next hops: the ingress of the last Interest is
\* not eligible, and that of an earlier one has another Nonce.
THEOREM NothingReflected == Spec => []NoReflection
<1>1. Init => NoReflection
  BY DEF Init, NoReflection, Pending
<1>2. TypeOK /\ InRecordNonceUnique /\ NoReflection /\ [Next]_vars => NoReflection'
  <2> SUFFICES ASSUME TypeOK, InRecordNonceUnique, NoReflection, [Next]_vars, NoneSteered,
                      NEW k \in Keys, pit'[k] # NoEntry, StrategyOf[k] # "best-route-v1",
                      NEW g \in Faces, g \notin AdHoc,
                      pit'[k].in[g] # NoRecord, pit'[k].out[g] # NoRecord
               PROVE  pit'[k].in[g].nonce # pit'[k].out[g].nonce
    BY DEF NoReflection, Pending, Downstreams, Upstreams
  <2> DEFINE old == EntryOf(k)
  <2>1. old.in[g] # NoRecord /\ old.out[g] # NoRecord => old.in[g].nonce # old.out[g].nonce
    <3>1. ASSUME pit[k] # NoEntry PROVE old = pit[k]
      BY <3>1 DEF EntryOf
    <3>2. ASSUME pit[k] = NoEntry PROVE old.in[g] = NoRecord
      BY <3>2, NewRecords DEF EntryOf
    <3> HIDE DEF old
    <3> QED
      BY <3>1, <3>2 DEF NoReflection, Pending, Downstreams, Upstreams
  <2>2. pit[k] # NoEntry => old = pit[k]
    BY DEF EntryOf
  <2>3. CASE Requested(k)
    <3>1. PICK f \in Faces, i \in Interests : i.key = k /\ MissInterest(f, i)
      BY <2>3 DEF Requested
    <3>2. i.via = NoFace /\ ~DuplicateNonce(old, i.nonce, f)
      BY <3>1 DEF NoneSteered, MissInterest, IsLoop
    <3>3. /\ \A h \in Faces \ {f} : pit'[k].in[h] = old.in[h]
          /\ pit'[k].in[f] \in {[nonce |-> i.nonce, left |-> i.life], NoRecord}
      BY <3>1, RequestedRecords
    <3>4. PICK T \in SUBSET up : SentOn(k, i, T) /\ SentRight(k, f, T)
      BY <3>1, <3>2, RequestedRecords
    <3>5. /\ \A h \in Faces \ T : pit'[k].out[h] = old.out[h]
          /\ \A h \in T : pit'[k].out[h].nonce = i.nonce /\ IsEligible(f, k, h)
      BY <3>4 DEF SentOn, SentRight
    <3>6. CASE g = f
      <4>1. pit'[k].in[g].nonce = i.nonce
        BY <3>3, <3>6
      <4>2. g \notin T
        BY <3>5, <3>6 DEF IsEligible
      <4>3. pit'[k].out[g] = old.out[g]
        BY <3>5, <4>2
      <4>4. old.out[g].nonce # i.nonce
        BY <2>1, <3>2, <3>6, <4>3 DEF DuplicateNonce, Downstreams, Upstreams
      <4> QED
        BY <4>1, <4>3, <4>4
    <3>7. CASE g # f /\ g \notin T
      BY <2>1, <3>3, <3>5, <3>7
    <3>8. CASE g # f /\ g \in T
      <4>1. pit'[k].in[g] = old.in[g] /\ pit'[k].out[g].nonce = i.nonce
        BY <3>3, <3>5, <3>8
      <4>2. ASSUME old.in[g].nonce = i.nonce PROVE FALSE
        <5>1. f \in Downstreams(old) /\ old.in[f].nonce = i.nonce
          BY <3>2, <4>1, <4>2 DEF DuplicateNonce, Downstreams
        <5>2. pit[k] # NoEntry
          BY <5>1, NewRecords DEF EntryOf
        <5> QED
          BY <2>2, <3>8, <4>1, <4>2, <5>1, <5>2 DEF InRecordNonceUnique, Pending, Downstreams
      <4> QED
        BY <4>1, <4>2
    <3> QED
      BY <3>6, <3>7, <3>8
  <2> HIDE DEF old
  <2>4. ASSUME NEW e, e.in[g] # NoRecord /\ e.out[g] # NoRecord => e.in[g].nonce # e.out[g].nonce,
               Shrinks(e, pit'[k])
        PROVE  pit'[k].in[g].nonce # pit'[k].out[g].nonce
    <3>1. pit'[k].in[g] = e.in[g] /\ pit'[k].out[g].nonce = e.out[g].nonce /\ e.out[g] # NoRecord
      BY <2>4 DEF Shrinks
    <3> QED
      BY <2>4, <3>1
  <2>5. CASE LeftAlone(k)
    BY <2>1, <2>2, <2>5 DEF LeftAlone
  <2>6. CASE AgedEntry(k)
    <3>1. pit[k] \in Entry /\ pit[k] # NoEntry /\ pit'[k] = Aged(pit[k])
      BY <2>6, EntryOfType DEF AgedEntry
    <3>2. /\ pit[k].in[g] # NoRecord /\ pit'[k].in[g].nonce = pit[k].in[g].nonce
          /\ pit[k].out[g] # NoRecord /\ pit'[k].out[g].nonce = pit[k].out[g].nonce
      BY <3>1, AgedRecord, AgedOutRecord
    <3> QED
      BY <2>1, <2>2, <3>1, <3>2
  <2>7. CASE Settled(k) \/ Abandoned(k) \/ NackedEntry(k)
    <3>1. Shrinks(old, pit'[k])
      BY <2>2, <2>7, NackedRecords DEF Settled, Abandoned, NackedEntry, old
    <3> QED
      BY <2>1, <2>4, <3>1
  <2> QED
    BY <2>3, <2>5, <2>6, <2>7, RecordStep
<1> QED
  BY <1>1, <1>2, TypeCorrect, NonceUnique, PTL DEF Spec

(***************************************************************************)
(* Who waits.                                                              *)
(***************************************************************************)
\* Whoever is still expected to answer was asked on behalf of a downstream that is still
\* there, and is still a next hop.
Sponsored(k) ==
    ~pit[k].satisfied /\ StrategyOf[k] # "best-route-v1" =>
        \A h \in Upstreams(pit[k]) : pit[k].out[h].nack = NotNacked =>
            /\ h \in NextHops(k, up)
            /\ \E d \in Downstreams(pit[k]) : IsEligible(d, k, h)

AllSponsored == RemovableFaces = {} /\ NoneSteered => \A k \in Pending : Sponsored(k)

\* A step that only takes downstreams leaves the others and all upstreams; without any
\* faces that go the face table stays as it is.
LEMMA FacesStay ==
  ASSUME [Next]_vars, RemovableFaces = {}
  PROVE  up' = up
  BY DEF Next, vars, DropInterest, LoopInterest, HitInterest, MissInterest, StrayData, SatisfyOne,
         SatisfyMany, ReceiveNack, FinalizeInterest, ReducePit, Tick, RemoveFace, AgeContent,
         ForgetNonce

\* What a Nack leaves: the upstreams still expected to answer were so before, and no
\* downstream is sent a Nack but, perhaps, the last of these upstreams.
LEMMA NackedSponsors ==
  ASSUME TypeOK, NEW k \in Keys, NackedEntry(k), NEW h \in Faces, pit'[k].out[h] # NoRecord,
         pit'[k].out[h].nack = NotNacked
  PROVE  /\ pit[k] # NoEntry
         /\ pit[k].out[h] # NoRecord /\ pit[k].out[h].nack = NotNacked
         /\ pit'[k].satisfied = pit[k].satisfied
         /\ \A d \in Downstreams(pit[k]) : d \notin Downstreams(pit'[k]) => d = h /\ d \in P2P
<1>1. PICK f \in Faces, n \in Nonces, r \in NackReasons : ReceiveNack(f, k, n, r)
  BY DEF NackedEntry
<1>2. pit[k] \in Entry /\ pit[k] # NoEntry /\ f \in Upstreams(pit[k])
  BY <1>1, NackReturns
<1>3. PICK x \in Entry : \E to \in SUBSET (Downstreams(x) \cap P2P) : NackTakes(f, k, r, x, to)
  BY <1>1, NackReturns
<1>4. PICK to \in SUBSET (Downstreams(x) \cap P2P) :
          /\ Noted(pit[k], f, r, x)
          /\ AloneInWaiting(x, to)
          /\ pit' = [pit EXCEPT ![k] = WithoutIn(x, to)]
  BY <1>3 DEF NackTakes
<1>5. pit'[k] = WithoutIn(x, to)
  BY <1>4 DEF TypeOK
<1>6. /\ pit'[k].in = [g \in Faces |-> IF g \in to THEN NoRecord ELSE x.in[g]]
      /\ pit'[k].out = x.out
  BY <1>3, <1>5 DEF WithoutIn, Entry
<1>7. pit'[k].satisfied = pit[k].satisfied
  <2>1. pit'[k].satisfied = x.satisfied
    BY <1>3, <1>5 DEF WithoutIn, Entry
  <2> QED
    BY <1>4, <2>1 DEF Noted
<1>8. x.in = pit[k].in
  BY <1>4 DEF Noted
<1>9. pit[k].out[h] # NoRecord /\ pit[k].out[h].nack = NotNacked
  <2>1. h # f
    <3>1. r # NotNacked
      BY LimitAssumption DEF Reasons, NotNacked
    <3>2. x.out = [pit[k].out EXCEPT ![f] = [pit[k].out[f] EXCEPT !.nack = r]]
      BY <1>4 DEF Noted
    <3>3. x.out[f].nack = r
      BY <1>2, <3>2 DEF Entry, Upstreams, OutRecord
    <3> QED
      BY <1>6, <3>1, <3>3
  <2>2. x.out[h] = pit[k].out[h]
    BY <1>2, <1>4, <2>1 DEF Noted, Entry
  <2> QED
    BY <1>6, <2>2
<1>10. ASSUME NEW d \in Downstreams(pit[k]), d \notin Downstreams(pit'[k])
       PROVE  d = h /\ d \in P2P
  <2>1. d \in to
    BY <1>6, <1>8, <1>10 DEF Downstreams
  <2>2. h \in Upstreams(x) /\ x.out[h].nack = NotNacked
    BY <1>6 DEF Upstreams
  <2> QED
    BY <1>4, <2>1, <2>2 DEF AloneInWaiting
<1> QED
  BY <1>2, <1>7, <1>9, <1>10

\* The upstreams an entry waits for keep their downstreams.
LEMMA SponsorsStay ==
  ASSUME TypeOK, AllSponsored, [Next]_vars
  PROVE  AllSponsored'
<1> SUFFICES ASSUME RemovableFaces = {}, NoneSteered, NEW k \in Keys, pit'[k] # NoEntry,
                    ~pit'[k].satisfied, StrategyOf[k] # "best-route-v1",
                    NEW h \in Faces, pit'[k].out[h] # NoRecord, pit'[k].out[h].nack = NotNacked
             PROVE  /\ h \in NextHops(k, up)
                    /\ \E d \in Faces : pit'[k].in[d] # NoRecord /\ IsEligible(d, k, h)
  BY FacesStay DEF AllSponsored, Sponsored, Pending, Upstreams, Downstreams, NextHops
<1>1. ASSUME pit[k] # NoEntry, ~pit[k].satisfied, pit[k].out[h] # NoRecord,
             pit[k].out[h].nack = NotNacked
      PROVE  /\ h \in NextHops(k, up)
             /\ \E d \in Faces : pit[k].in[d] # NoRecord /\ IsEligible(d, k, h)
  BY <1>1 DEF AllSponsored, Sponsored, Pending, Upstreams, Downstreams
<1>2. CASE LeftAlone(k)
  BY <1>1, <1>2 DEF LeftAlone
<1>3. CASE AgedEntry(k)
  <2>1. pit[k] \in Entry /\ pit[k] # NoEntry /\ pit'[k] = Aged(pit[k])
    BY <1>3, EntryOfType DEF AgedEntry
  <2>2. pit[k].satisfied = pit'[k].satisfied
    BY <2>1, AgedSatisfied
  <2>3. pit[k].out[h] # NoRecord /\ pit[k].out[h].nack = NotNacked
    BY <2>1, AgedOutRecord
  <2>4. \A d \in Faces : pit[k].in[d] # NoRecord => pit'[k].in[d] # NoRecord
    BY <2>1, AgedRecord
  <2> QED
    BY <1>1, <2>1, <2>2, <2>3, <2>4
<1>4. CASE Settled(k) \/ Abandoned(k)
  BY <1>4 DEF Settled, Abandoned
<1>5. CASE NackedEntry(k)
  <2>1. /\ pit[k] # NoEntry
        /\ pit[k].out[h] # NoRecord /\ pit[k].out[h].nack = NotNacked
        /\ pit'[k].satisfied = pit[k].satisfied
        /\ \A d \in Downstreams(pit[k]) : d \notin Downstreams(pit'[k]) => d = h /\ d \in P2P
    BY <1>5, NackedSponsors
  <2>2. PICK d \in Faces : pit[k].in[d] # NoRecord /\ IsEligible(d, k, h)
    BY <1>1, <2>1
  <2>3. ~(d = h /\ d \in P2P)
    BY <2>2, FaceAssumption DEF IsEligible
  <2>4. pit'[k].in[d] # NoRecord
    BY <2>1, <2>2, <2>3 DEF Downstreams
  <2> QED
    BY <1>1, <2>1, <2>2, <2>4
<1>6. CASE Requested(k)
  <2>1. PICK f \in Faces, i \in Interests : i.key = k /\ MissInterest(f, i) /\ i.via = NoFace
    BY <1>6 DEF Requested, NoneSteered
  <2>2. /\ \A g \in Faces \ {f} : pit'[k].in[g] = EntryOf(k).in[g]
        /\ pit'[k].satisfied = EntryOf(k).satisfied
        /\ pit'[k].in[f] # NoRecord \/ \A g \in NextHops(k, up) : ~IsEligible(f, k, g)
    BY <2>1, RequestedRecords
  <2>3. PICK T \in SUBSET up : SentOn(k, i, T) /\ SentRight(k, f, T)
    BY <2>1, RequestedRecords
  <2>4. CASE h \in T
    <3>1. h \in NextHops(k, up) /\ IsEligible(f, k, h)
      BY <2>3, <2>4 DEF SentRight
    <3> QED
      BY <2>2, <3>1
  <2>5. CASE h \notin T
    <3>1. pit'[k].out[h] = EntryOf(k).out[h]
      BY <2>3, <2>5 DEF SentOn
    <3>2. pit[k] # NoEntry /\ EntryOf(k) = pit[k]
      BY <3>1, NewRecords DEF EntryOf, Upstreams
    <3>3. PICK d \in Faces : pit[k].in[d] # NoRecord /\ IsEligible(d, k, h)
      BY <1>1, <2>2, <3>1, <3>2
    <3>4. h \in NextHops(k, up)
      BY <1>1, <2>2, <3>1, <3>2
    <3>5. CASE d = f
      BY <2>2, <3>3, <3>4, <3>5
    <3>6. CASE d # f
      BY <2>2, <3>2, <3>3, <3>4, <3>6
    <3> QED
      BY <3>5, <3>6
  <2> QED
    BY <2>4, <2>5
<1> QED
  BY <1>2, <1>3, <1>4, <1>5, <1>6, RecordStep

\* An entry that lives on after a Nack has an upstream that may still answer.
LEMMA NackedTimer ==
  ASSUME TypeOK, NEW k \in Keys, NackedEntry(k)
  PROVE  /\ pit[k] # NoEntry
         /\ \/ pit'[k].timer = 0
            \/ \E h \in Upstreams(pit'[k]) : pit'[k].out[h].nack = NotNacked
         /\ pit'[k].satisfied = pit[k].satisfied
         /\ pit'[k].timer \in {pit[k].timer, 0}
         /\ StrategyOf[k] = "best-route-v1" => Downstreams(pit'[k]) = Downstreams(pit[k])
<1>1. PICK f \in Faces, n \in Nonces, r \in NackReasons : ReceiveNack(f, k, n, r)
  BY DEF NackedEntry
<1>2. pit[k] # NoEntry
  BY <1>1, NackReturns
<1>3. PICK x \in Entry : \E to : NackTakes(f, k, r, x, to)
  BY <1>1, NackReturns
<1>4. PICK to : /\ Noted(pit[k], f, r, x)
                /\ StrategyOf[k] = "best-route-v1" => to = {}
                /\ pit' = [pit EXCEPT ![k] = WithoutIn(x, to)]
  BY <1>3 DEF NackTakes
<1>5. pit'[k] = WithoutIn(x, to)
  BY <1>4 DEF TypeOK
<1>6. /\ pit'[k].in = [g \in Faces |-> IF g \in to THEN NoRecord ELSE x.in[g]]
      /\ pit'[k].out = x.out /\ pit'[k].timer = x.timer
  BY <1>3, <1>5 DEF WithoutIn, Entry
<1>7. pit'[k].satisfied = pit[k].satisfied
  <2>1. pit'[k].satisfied = x.satisfied
    BY <1>3, <1>5 DEF WithoutIn, Entry
  <2> QED
    BY <1>4, <2>1 DEF Noted
<1>8. /\ x.in = pit[k].in /\ x.timer \in {pit[k].timer, 0}
      /\ x.timer = 0 \/ HasPendingOutRecords(x)
  BY <1>4 DEF Noted
<1>9. pit'[k].timer = 0 \/ \E h \in Upstreams(pit'[k]) : pit'[k].out[h].nack = NotNacked
  BY <1>6, <1>8 DEF HasPendingOutRecords, Upstreams
<1>10. StrategyOf[k] = "best-route-v1" => Downstreams(pit'[k]) = Downstreams(pit[k])
  BY <1>4, <1>6, <1>8 DEF Downstreams
<1> QED
  BY <1>2, <1>6, <1>7, <1>8, <1>9, <1>10

\* Where no face is removed and applications choose no next hops, an entry with time left
\* that Data has not satisfied has a downstream: a Nack that does not end the entry leaves
\* the downstream on whose behalf the remaining upstreams were asked.
THEOREM SomebodyWaits == Spec => []SomeoneWaits
<1>1. Init => AllSponsored /\ SomeoneWaits
  BY DEF Init, AllSponsored, SomeoneWaits, Pending
<1>2. TypeOK /\ AllSponsored /\ SomeoneWaits /\ [Next]_vars => AllSponsored' /\ SomeoneWaits'
  <2> SUFFICES ASSUME TypeOK, AllSponsored, SomeoneWaits, [Next]_vars PROVE SomeoneWaits'
    BY SponsorsStay
  <2> SUFFICES ASSUME RemovableFaces = {}, NoneSteered, NEW k \in Keys, pit'[k] # NoEntry,
                      pit'[k].timer > 0, ~pit'[k].satisfied
               PROVE  Downstreams(pit'[k]) # {}
    BY DEF SomeoneWaits, Pending
  <2>1. ASSUME pit[k] # NoEntry, pit[k].timer > 0, ~pit[k].satisfied
        PROVE  Downstreams(pit[k]) # {}
    BY <2>1 DEF SomeoneWaits, Pending
  <2>2. CASE LeftAlone(k)
    BY <2>1, <2>2 DEF LeftAlone
  <2>3. CASE AgedEntry(k)
    <3>1. pit[k] \in Entry /\ pit[k] # NoEntry /\ pit[k].timer > 0 /\ pit'[k] = Aged(pit[k])
      BY <2>3, EntryOfType DEF AgedEntry, Tick, Pending
    <3>2. PICK d \in Downstreams(pit[k]) : TRUE
      <4>1. pit'[k].satisfied = pit[k].satisfied
        BY <3>1, AgedSatisfied
      <4> QED
        BY <2>1, <3>1, <4>1
    <3>3. d \in Faces /\ pit'[k].in[d] # NoRecord
      BY <3>1, <3>2, AgedRecord DEF Downstreams
    <3> QED
      BY <3>3 DEF Downstreams
  <2>4. CASE Settled(k) \/ Abandoned(k)
    BY <2>4 DEF Settled, Abandoned
  <2>5. CASE NackedEntry(k)
    <3>1. /\ pit[k] # NoEntry /\ ~pit[k].satisfied /\ pit[k].timer > 0
          /\ \E h \in Upstreams(pit'[k]) : pit'[k].out[h].nack = NotNacked
      BY <2>5, NackedTimer
    <3>2. CASE StrategyOf[k] = "best-route-v1"
      BY <2>1, <2>5, <3>1, <3>2, NackedTimer
    <3>3. CASE StrategyOf[k] # "best-route-v1"
      <4>1. AllSponsored'
        BY SponsorsStay
      <4> QED
        BY <3>1, <3>3, <4>1 DEF AllSponsored, Sponsored, Pending
    <3> QED
      BY <3>2, <3>3
  <2>6. CASE Requested(k)
    <3>1. \E f \in Faces : pit'[k].timer = 0 \/ pit'[k].in[f] # NoRecord
      BY <2>6, RequestedRecords DEF Requested
    <3> QED
      BY <3>1 DEF Downstreams
  <2> QED
    BY <2>2, <2>3, <2>4, <2>5, <2>6, RecordStep
<1> QED
  BY <1>1, <1>2, TypeCorrect, PTL DEF Spec

(***************************************************************************)
(* Nacks.                                                                  *)
(***************************************************************************)
\* What is said of Nacks holds of a packet p, whatever else it is.
Balanced(p) ==
    p.type = "nack" =>
      /\ p.to \in P2P
      /\ \/ /\ p.key \in Pending
            /\ p.to \in Downstreams(pit[p.key])
            /\ p.nonce = pit[p.key].in[p.to].nonce
            /\ pit'[p.key] # NoEntry
            /\ p.to \notin Downstreams(pit'[p.key])
         \/ /\ p.reason = "no-route"
            /\ pit'[p.key] # NoEntry
            /\ pit'[p.key].timer = 0
            /\ p.to \notin Downstreams(pit'[p.key])
         \/ /\ p.reason = "duplicate"
            /\ pit' = pit
            /\ \/ <<p.key.name, p.nonce>> \in dnl
               \/ \E f \in Faces : \/ f \in Downstreams(EntryOf(p.key))
                                      /\ pit[p.key].in[f].nonce = p.nonce
                                   \/ f \in Upstreams(EntryOf(p.key))
                                      /\ pit[p.key].out[f].nonce = p.nonce

\* A loop is answered without a trace.
LEMMA LoopBalanced ==
  ASSUME TypeOK, NEW f \in Faces, NEW i \in Interests, LoopInterest(f, i), NEW p \in sent'
  PROVE  Balanced(p)
<1>1. f \in P2P /\ p = SentNack(f, i.key, i.nonce, "duplicate") /\ pit' = pit
  BY DEF LoopInterest
<1>2. p.to = f /\ p.key = i.key /\ p.nonce = i.nonce /\ p.reason = "duplicate"
  BY <1>1 DEF SentNack
<1>3. <<i.key.name, i.nonce>> \in dnl \/ DuplicateNonce(EntryOf(i.key), i.nonce, f)
  BY DEF LoopInterest, IsLoop
<1>4. ASSUME DuplicateNonce(EntryOf(i.key), i.nonce, f)
      PROVE  \E g \in Faces : \/ g \in Downstreams(EntryOf(i.key))
                                 /\ pit[i.key].in[g].nonce = i.nonce
                              \/ g \in Upstreams(EntryOf(i.key))
                                 /\ pit[i.key].out[g].nonce = i.nonce
  <2>1. pit[i.key] # NoEntry
    BY <1>4, NewRecords DEF EntryOf, DuplicateNonce
  <2>2. EntryOf(i.key) = pit[i.key]
    BY <2>1 DEF EntryOf
  <2> QED
    BY <1>4, <2>2 DEF DuplicateNonce, Downstreams, Upstreams
<1> QED
  BY <1>1, <1>2, <1>3, <1>4 DEF Balanced

\* A rejection leaves an entry that is due and without the downstream.
LEMMA MissBalanced ==
  ASSUME TypeOK, NEW f \in Faces, NEW i \in Interests, MissInterest(f, i), NEW p \in sent'
  PROVE  Balanced(p)
<1> DEFINE k == i.key
<1>1. PICK e \in Entry, o \in Outcome :
            /\ pit' = [pit EXCEPT ![k] = o.entry] /\ sent' = o.sent
            /\ Rejects(e, i, f, up, o) \/ \E T : Sends(e, i, o, T)
  BY MissSends
<1>2. k \in Keys /\ pit'[k] = o.entry /\ pit'[k] # NoEntry
  BY <1>1, PacketAssumption, NoEntryAssumption DEF TypeOK, Outcome
<1>3. CASE \E T : Sends(e, i, o, T)
  <2>1. p.type = "interest"
    BY <1>1, <1>3 DEF Sends, SentInterest
  <2> QED
    BY <2>1 DEF Balanced
<1>4. CASE Rejects(e, i, f, up, o)
  <2> DEFINE to == {f} \cap Downstreams(e) \cap P2P
  <2>1. o = Reject(e, k, f)
    BY <1>4 DEF Rejects
  <2>2. /\ o.sent = {SentNack(g, k, e.in[g].nonce, "no-route") : g \in to}
        /\ o.entry.in = [g \in Faces |-> IF g \in to THEN NoRecord ELSE e.in[g]]
        /\ o.entry.timer = 0
    <3> HIDE DEF to, k
    <3> QED
      BY <1>2, <2>1, RejectEffect DEF to
  <2> HIDE DEF to, k
  <2>3. PICK g \in to : p = SentNack(g, k, e.in[g].nonce, "no-route")
    BY <1>1, <2>2
  <2>4. p.to = g /\ p.key = k /\ p.reason = "no-route"
    BY <2>3 DEF SentNack
  <2>5. g \in P2P /\ g \in Faces
    BY <2>3 DEF to
  <2>6. g \notin Downstreams(pit'[k]) /\ pit'[k].timer = 0
    BY <1>2, <2>2, <2>3, <2>5 DEF Downstreams
  <2> QED
    BY <1>2, <2>4, <2>5, <2>6 DEF Balanced
<1> QED
  BY <1>1, <1>3, <1>4

\* A Nack is returned to downstreams that wait no longer after it, with their Nonces.
LEMMA ReturnBalanced ==
  ASSUME TypeOK, NEW f \in Faces, NEW k \in Keys, NEW n \in Nonces, NEW r \in NackReasons,
         ReceiveNack(f, k, n, r), NEW p \in sent'
  PROVE  Balanced(p)
<1>1. pit[k] \in Entry /\ pit[k] # NoEntry
  BY NackReturns
<1>2. PICK x \in Entry : \E to \in SUBSET (Downstreams(x) \cap P2P), why \in Reasons :
          /\ NackTakes(f, k, r, x, to)
          /\ sent' = {SentNack(g, k, x.in[g].nonce, why) : g \in to}
  BY NackReturns
<1>3. PICK to \in SUBSET (Downstreams(x) \cap P2P), why \in Reasons :
          /\ NackTakes(f, k, r, x, to)
          /\ sent' = {SentNack(g, k, x.in[g].nonce, why) : g \in to}
  BY <1>2
<1>4. x.in = pit[k].in /\ pit'[k] = WithoutIn(x, to)
  BY <1>3 DEF NackTakes, Noted, TypeOK
<1>5. PICK g \in to : p = SentNack(g, k, x.in[g].nonce, why)
  BY <1>3
<1>6. p.to = g /\ p.key = k /\ p.nonce = x.in[g].nonce
  BY <1>5 DEF SentNack
<1>7. g \in P2P /\ g \in Downstreams(pit[k])
  BY <1>4, <1>5 DEF Downstreams
<1>8. g \notin Downstreams(pit'[k]) /\ pit'[k] # NoEntry
  <2>1. WithoutIn(x, to) \in Entry
    BY WithoutInType
  <2>2. WithoutIn(x, to).in[g] = NoRecord
    BY <1>2, <1>5, <1>7 DEF WithoutIn, Entry, Downstreams
  <2> QED
    BY <1>4, <2>1, <2>2, NoEntryAssumption DEF Downstreams
<1> QED
  BY <1>1, <1>4, <1>6, <1>7, <1>8 DEF Balanced, Pending

\* Data and silence are no Nacks.
LEMMA DataBalanced ==
  /\ \A d, S : \A p \in OutgoingData(d, S) : p.type = "data"
  /\ \A p : p.type = "data" => Balanced(p)
  BY DEF OutgoingData, SentData, Balanced

\* Whatever the packets and their order, a Nack leaves by a point-to-point face that waits
\* no longer after it, for the Nonce it waited with, or rejects the Interest that has just
\* come.
THEOREM NacksBalanced == Spec => NackBalance
<1>1. TypeOK /\ [Next]_vars => [\A p \in sent' : Balanced(p)]_vars
  <2> SUFFICES ASSUME TypeOK, Next, NEW p \in sent' PROVE Balanced(p)
    OBVIOUS
  <2>1. ASSUME NEW f \in Faces, NEW d \in DataPackets, SatisfyOne(f, d) PROVE Balanced(p)
    <3>1. \E S : sent' = OutgoingData(d, S)
      BY <2>1 DEF SatisfyOne, AfterReceiveData
    <3> QED
      BY <3>1, DataBalanced
  <2>2. ASSUME NEW f \in Faces, NEW b \in BOOLEAN, NEW d \in DataPackets, SatisfyMany(f, b, d)
        PROVE  Balanced(p)
    BY <2>2, DataBalanced DEF SatisfyMany
  <2>3. ASSUME NEW f \in Faces, NEW i \in Interests, NEW d \in DataPackets, HitInterest(f, i, d)
        PROVE  Balanced(p)
    BY <2>3, DataBalanced DEF HitInterest, AfterContentStoreHit
  <2> QED
    BY <2>1, <2>2, <2>3, LoopBalanced, MissBalanced, ReturnBalanced
    DEF Next, DropInterest, StrayData, FinalizeInterest, ReducePit, Tick, RemoveFace,
        AgeContent, ForgetNonce
<1> QED
  BY <1>1, TypeCorrect, PTL DEF Spec, NackBalance, Balanced

(***************************************************************************)
(* Scope.                                                                  *)
(***************************************************************************)
\* What is said of /localhost holds of a packet p.
InScope(p) ==
    IF p.type = "data" THEN ~LeaksLocalhost(p.to, p.data.name)
    ELSE p.type = "nack" \/ NoneSteered => ~LeaksLocalhost(p.to, p.key.name)

\* onOutgoingData stops Data that would leak.
LEMMA DataInScope ==
  \A d, S : \A p \in OutgoingData(d, S) : InScope(p)
<1> SUFFICES ASSUME NEW d, NEW S, NEW p \in OutgoingData(d, S) PROVE InScope(p)
  OBVIOUS
<1>1. PICK g \in S : p = SentData(g, d) /\ ~LeaksLocalhost(g, d.name)
  BY DEF OutgoingData
<1>2. p.type = "data" /\ p.to = g /\ p.data = d
  BY <1>1 DEF SentData
<1> QED
  BY <1>1, <1>2 DEF InScope

\* On a miss the Interest is sent to faces that wouldViolateScope allows, or its own face,
\* which was allowed to send it, gets a Nack.
LEMMA MissInScope ==
  ASSUME TypeOK, NEW f \in Faces, NEW i \in Interests, MissInterest(f, i), NEW p \in sent'
  PROVE  InScope(p)
<1>1. PICK e \in Entry, o \in Outcome :
            /\ sent' = o.sent
            /\ \/ Rejects(e, i, f, up, o)
               \/ \E T \in SUBSET up : /\ Sends(e, i, o, T)
                                       /\ i.via = NoFace => Chosen(e, i, f, up, T)
  BY MissSends
<1>2. i.key \in Keys /\ ~LeaksLocalhost(f, i.key.name)
  BY PacketAssumption DEF MissInterest, Admitted
<1>3. ASSUME NEW T \in SUBSET up, Sends(e, i, o, T), i.via = NoFace => Chosen(e, i, f, up, T)
      PROVE  InScope(p)
  <2>1. PICK g \in T : p = SentInterest(g, i.key, i.nonce)
    BY <1>1, <1>3 DEF Sends
  <2>2. p.type = "interest" /\ p.to = g /\ p.key = i.key
    BY <2>1 DEF SentInterest
  <2>3. NoneSteered => ~LeaksLocalhost(g, i.key.name)
    BY <1>3 DEF NoneSteered, Chosen, ViolatesScope, LeaksLocalhost
  <2> QED
    BY <2>2, <2>3 DEF InScope
<1>4. CASE Rejects(e, i, f, up, o)
  <2>1. p.type = "nack" /\ p.to = f /\ p.key = i.key
    BY <1>1, <1>2, <1>4, RejectSent DEF Rejects
  <2> QED
    BY <1>2, <2>1 DEF InScope
<1> QED
  BY <1>1, <1>3, <1>4

\* Nacks for names under /localhost are returned to downstreams, which are local.
LEMMA ReturnInScope ==
  ASSUME TypeOK, LocalhostDownstreams, NEW f \in Faces, NEW k \in Keys, NEW n \in Nonces,
         NEW r \in NackReasons, ReceiveNack(f, k, n, r), NEW p \in sent'
  PROVE  InScope(p)
<1>1. pit[k] \in Entry /\ pit[k] # NoEntry
  BY NackReturns
<1>2. PICK x \in Entry : \E to \in SUBSET (Downstreams(x) \cap P2P), why \in Reasons :
          /\ NackTakes(f, k, r, x, to)
          /\ sent' = {SentNack(g, k, x.in[g].nonce, why) : g \in to}
  BY NackReturns
<1>3. PICK to \in SUBSET (Downstreams(x) \cap P2P), why \in Reasons :
          /\ NackTakes(f, k, r, x, to)
          /\ sent' = {SentNack(g, k, x.in[g].nonce, why) : g \in to}
  BY <1>2
<1>4. PICK g \in to : p = SentNack(g, k, x.in[g].nonce, why)
  BY <1>3
<1>5. p.type = "nack" /\ p.to = g /\ p.key = k
  BY <1>4 DEF SentNack
<1>6. g \in Downstreams(pit[k])
  BY <1>3, <1>4 DEF NackTakes, Noted, Downstreams
<1> QED
  BY <1>1, <1>5, <1>6 DEF InScope, LocalhostDownstreams, Pending, LeaksLocalhost

\* Nothing named under /localhost leaves the node, but what a local application steers.
THEOREM ScopeHolds == Spec => ScopeKept
<1>1. TypeOK /\ LocalhostDownstreams /\ [Next]_vars => [\A p \in sent' : InScope(p)]_vars
  <2> SUFFICES ASSUME TypeOK, LocalhostDownstreams, Next, NEW p \in sent' PROVE InScope(p)
    OBVIOUS
  <2>1. ASSUME NEW f \in Faces, NEW d \in DataPackets, SatisfyOne(f, d) PROVE InScope(p)
    <3>1. \E S : sent' = OutgoingData(d, S)
      BY <2>1 DEF SatisfyOne, AfterReceiveData
    <3> QED
      BY <3>1, DataInScope
  <2>2. ASSUME NEW f \in Faces, NEW b \in BOOLEAN, NEW d \in DataPackets, SatisfyMany(f, b, d)
        PROVE  InScope(p)
    BY <2>2, DataInScope DEF SatisfyMany
  <2>3. ASSUME NEW f \in Faces, NEW i \in Interests, NEW d \in DataPackets, HitInterest(f, i, d)
        PROVE  InScope(p)
    BY <2>3, DataInScope DEF HitInterest, AfterContentStoreHit
  <2>4. ASSUME NEW f \in Faces, NEW i \in Interests, LoopInterest(f, i) PROVE InScope(p)
    <3>1. p = SentNack(f, i.key, i.nonce, "duplicate") /\ ~LeaksLocalhost(f, i.key.name)
      BY <2>4 DEF LoopInterest, Admitted
    <3>2. p.type = "nack" /\ p.to = f /\ p.key = i.key
      BY <3>1 DEF SentNack
    <3> QED
      BY <3>1, <3>2 DEF InScope
  <2> QED
    BY <2>1, <2>2, <2>3, <2>4, MissInScope, ReturnInScope
    DEF Next, DropInterest, StrayData, FinalizeInterest, ReducePit, Tick, RemoveFace,
        AgeContent, ForgetNonce
<1> QED
  BY <1>1, TypeCorrect, LocalhostKept, PTL DEF Spec, ScopeKept, InScope

(***************************************************************************)
(* Retransmission suppression.                                             *)
(***************************************************************************)
\* The suppression interval of an entry never is less than it was at first.
Paced == \A k \in Pending : pit[k].interval >= RetxInitial

\* RetxSuppressionExponential only doubles it, up to its largest value.
LEMMA PacedStep == TypeOK /\ Paced /\ [Next]_vars => Paced'
<1> SUFFICES ASSUME TypeOK, Paced, [Next]_vars, NEW k \in Keys, pit'[k] # NoEntry
             PROVE  pit'[k].interval >= RetxInitial
  BY DEF Paced, Pending
<1>1. EntryOf(k).interval >= RetxInitial /\ EntryOf(k).interval \in 1 .. RetxMax
  <2>1. EntryOf(k) \in Entry
    BY EntryOfType
  <2>2. EntryOf(k).interval \in 1 .. RetxMax
    BY <2>1 DEF Entry
  <2>3. CASE pit[k] = NoEntry
    BY <2>2, <2>3, TimeAssumption DEF EntryOf, NewEntry
  <2>4. CASE pit[k] # NoEntry
    BY <2>2, <2>4 DEF EntryOf, Paced, Pending
  <2> QED
    BY <2>3, <2>4
<1>2. pit[k] # NoEntry => EntryOf(k) = pit[k]
  BY DEF EntryOf
<1>3. pit'[k].interval \in {EntryOf(k).interval, Doubled(EntryOf(k).interval)}
  <2>1. CASE Requested(k)
    BY <2>1, RequestedRecords DEF Requested
  <2>2. CASE AgedEntry(k)
    <3>1. pit[k] \in Entry /\ pit[k] # NoEntry /\ pit'[k] = Aged(pit[k])
      BY <2>2, EntryOfType DEF AgedEntry
    <3>2. Aged(pit[k]).interval = pit[k].interval
      BY <3>1 DEF Aged, Entry
    <3> QED
      BY <1>2, <3>1, <3>2
  <2>3. CASE Settled(k) \/ Abandoned(k) \/ NackedEntry(k) \/ LeftAlone(k)
    BY <1>2, <2>3, NackedRecords DEF Settled, Abandoned, NackedEntry, LeftAlone, Shrinks
  <2> QED
    BY <2>1, <2>2, <2>3, RecordStep
<1>4. \A n \in 1 .. RetxMax : n >= RetxInitial => Doubled(n) >= RetxInitial
  BY TimeAssumption DEF Doubled
<1> QED
  BY <1>1, <1>3, <1>4

\* The pace of one packet p.
PacedPacket(p) ==
    /\ p.type = "interest"
    /\ StrategyOf[p.key] = "best-route"
    /\ p.key \in Pending
    /\ HasPendingOutRecords(pit[p.key])
    => \A f \in Upstreams(pit[p.key]) : pit[p.key].out[f].age >= RetxInitial

\* An Interest that leaves in best route while the entry waits for an answer was not
\* suppressed: every out-record has reached the entry's interval.
LEMMA MissPaced ==
  ASSUME TypeOK, Paced, NoneSteered, NEW f \in Faces, NEW i \in Interests, MissInterest(f, i),
         NEW p \in sent'
  PROVE  PacedPacket(p)
<1> DEFINE k == i.key
<1>1. PICK e \in Entry, o \in Outcome :
            /\ Recorded(EntryOf(k), f, i, e)
            /\ sent' = o.sent
            /\ \/ Rejects(e, i, f, up, o)
               \/ \E T \in SUBSET up : Sends(e, i, o, T) /\ Chosen(e, i, f, up, T)
  BY MissSends DEF NoneSteered
<1>2. k \in Keys
  BY PacketAssumption
<1>3. CASE Rejects(e, i, f, up, o)
  <2>1. p.type = "nack"
    BY <1>1, <1>2, <1>3, RejectSent DEF Rejects
  <2> QED
    BY <2>1 DEF PacedPacket
<1>4. ASSUME NEW T \in SUBSET up, Sends(e, i, o, T), Chosen(e, i, f, up, T),
             StrategyOf[p.key] = "best-route", p.key \in Pending,
             HasPendingOutRecords(pit[p.key]), NEW g \in Upstreams(pit[p.key])
      PROVE  pit[p.key].out[g].age >= RetxInitial
  <2>1. PICK h \in T : p = SentInterest(h, k, i.nonce)
    BY <1>1, <1>4 DEF Sends
  <2>2. p.key = k
    BY <2>1 DEF SentInterest
  <2>3. pit[k] \in Entry /\ EntryOf(k) = pit[k] /\ pit[k].interval >= RetxInitial
    BY <1>2, <1>4, <2>2, EntryOfType DEF EntryOf, Pending, Paced
  <2>4. e.out = pit[k].out /\ e.interval = pit[k].interval
    BY <1>1, <2>3 DEF Recorded
  <2>5. HasPendingOutRecords(e) /\ g \in Upstreams(e)
    BY <1>4, <2>2, <2>4 DEF HasPendingOutRecords, Upstreams
  <2>6. ~SuppressedPerEntry(e)
    BY <1>4, <2>1, <2>2, <2>5 DEF Chosen
  <2>7. ~(pit[k].out[g].age < pit[k].interval)
    BY <2>4, <2>5, <2>6 DEF SuppressedPerEntry
  <2>8. pit[k].out[g].age \in Int /\ pit[k].interval \in Int /\ RetxInitial \in Int
    BY <2>2, <2>3, <1>4, TimeAssumption DEF Entry, OutRecord, Upstreams
  <2> QED
    BY <2>2, <2>3, <2>7, <2>8
<1> QED
  BY <1>1, <1>3, <1>4 DEF PacedPacket

\* Best route leaves at least the initial suppression interval between two transmissions of
\* an entry that waits for an answer, whichever downstreams ask and however often.
THEOREM RetransmissionsPaced == Spec => RetransmissionPaced
<1>1. Init => Paced
  BY DEF Init, Paced, Pending
<1>2. TypeOK /\ Paced /\ [Next]_vars =>
        [NoneSteered => \A p \in sent' : PacedPacket(p)]_vars
  <2> SUFFICES ASSUME TypeOK, Paced, Next, NoneSteered, NEW p \in sent' PROVE PacedPacket(p)
    OBVIOUS
  <2>1. \A d, S : \A q \in OutgoingData(d, S) : PacedPacket(q)
    BY DEF OutgoingData, SentData, PacedPacket
  <2>2. ASSUME NEW f \in Faces, NEW d \in DataPackets, SatisfyOne(f, d) PROVE PacedPacket(p)
    <3>1. \E S : sent' = OutgoingData(d, S)
      BY <2>2 DEF SatisfyOne, AfterReceiveData
    <3> QED
      BY <2>1, <3>1
  <2>3. ASSUME NEW f \in Faces, NEW b \in BOOLEAN, NEW d \in DataPackets, SatisfyMany(f, b, d)
        PROVE  PacedPacket(p)
    BY <2>1, <2>3 DEF SatisfyMany
  <2>4. ASSUME NEW f \in Faces, NEW i \in Interests, NEW d \in DataPackets, HitInterest(f, i, d)
        PROVE  PacedPacket(p)
    BY <2>1, <2>4 DEF HitInterest, AfterContentStoreHit
  <2>5. ASSUME NEW f \in Faces, NEW i \in Interests, LoopInterest(f, i) PROVE PacedPacket(p)
    BY <2>5 DEF LoopInterest, SentNack, PacedPacket
  <2>6. ASSUME NEW f \in Faces, NEW k \in Keys, NEW n \in Nonces, NEW r \in NackReasons,
               ReceiveNack(f, k, n, r)
        PROVE  PacedPacket(p)
    <3>1. PICK x \in Entry : \E to \in SUBSET (Downstreams(x) \cap P2P), why \in Reasons :
              /\ NackTakes(f, k, r, x, to)
              /\ sent' = {SentNack(g, k, x.in[g].nonce, why) : g \in to}
      BY <2>6, NackReturns
    <3>2. PICK to \in SUBSET (Downstreams(x) \cap P2P), why \in Reasons :
              sent' = {SentNack(g, k, x.in[g].nonce, why) : g \in to}
      BY <3>1
    <3> QED
      BY <3>2 DEF SentNack, PacedPacket
  <2> QED
    BY <2>2, <2>3, <2>4, <2>5, <2>6, MissPaced
    DEF Next, DropInterest, StrayData, FinalizeInterest, ReducePit, Tick, RemoveFace,
        AgeContent, ForgetNonce
<1> QED
  BY <1>1, <1>2, PacedStep, TypeCorrect, PTL DEF Spec, RetransmissionPaced, PacedPacket

(***************************************************************************)
(* Nonces that leave the PIT.                                              *)
(***************************************************************************)
\* Of an upstream's Nonce, and of all of an entry that a step leaves alone or renews.
NonceSafe(k, f) == NonceKept(k, f) \/ NonceRetired(k, f)

UpstreamsKept(k) == \A g \in Upstreams(pit[k]) : NonceKept(k, g)

\* insertDeadNonceList takes a Nonce unless such Data has come.
LEMMA DeadOrAnswered ==
  ASSUME NEW k \in Keys, NEW e, NEW S, NEW g \in S \cap Upstreams(e)
  PROVE  \/ <<k.name, e.out[g].nonce>> \in DeadNonces(k, e, S)
         \/ e.satisfied /\ ~(k.fresh /\ e.short)
<1>1. CASE e.satisfied /\ ~(k.fresh /\ e.short)
  BY <1>1
<1>2. CASE ~(e.satisfied /\ ~(k.fresh /\ e.short))
  <2>1. DeadNonces(k, e, S) = {<<k.name, e.out[h].nonce>> : h \in S \cap Upstreams(e)}
    BY <1>2, Zenon DEF DeadNonces
  <2> QED
    BY <2>1
<1> QED
  BY <1>1, <1>2

\* Taking records from an entry leaves what is known of its Data.
LEMMA FlagsKept ==
  ASSUME NEW e \in Entry, NEW S
  PROVE  /\ WithoutOut(e, S).satisfied = e.satisfied /\ WithoutOut(e, S).short = e.short
         /\ WithoutIn(e, S).satisfied = e.satisfied /\ WithoutIn(e, S).short = e.short
<1>1. WithoutOut(e, S).satisfied = e.satisfied
  BY DEF WithoutOut, Entry
<1>2. WithoutOut(e, S).short = e.short
  BY DEF WithoutOut, Entry
<1>3. WithoutIn(e, S).satisfied = e.satisfied
  BY DEF WithoutIn, Entry
<1>4. WithoutIn(e, S).short = e.short
  BY DEF WithoutIn, Entry
<1> QED
  BY <1>1, <1>2, <1>3, <1>4

\* Data leaves an entry e with the upstreams the entry had, and retires the one it came
\* from.
LEMMA AnsweredRetires ==
  ASSUME NEW k \in Keys, NEW e \in Entry, e.out = pit[k].out, NEW f \in Faces, NEW x, pit'[k] = x,
         x.out = [h \in Faces |-> IF h \in {f} THEN NoRecord ELSE e.out[h]], x # NoEntry,
         x.satisfied = e.satisfied, x.short = e.short,
         DeadNonces(k, e, {f}) \subseteq dnl',
         NEW g \in Upstreams(pit[k])
  PROVE  NonceSafe(k, g)
<1> SUFFICES ASSUME g = f
             PROVE  NonceRetired(k, g)
  BY DEF NonceSafe, NonceKept, Upstreams
<1>1. g = f /\ g \in Upstreams(e)
  BY DEF Upstreams
<1>2. \/ <<k.name, e.out[g].nonce>> \in DeadNonces(k, e, {f})
      \/ e.satisfied /\ ~(k.fresh /\ e.short)
  BY <1>1, DeadOrAnswered
<1>3. CASE <<k.name, e.out[g].nonce>> \in DeadNonces(k, e, {f})
  BY <1>3 DEF NonceRetired
<1>4. CASE e.satisfied /\ ~(k.fresh /\ e.short)
  <2>1. x.satisfied /\ ~(k.fresh /\ x.short)
    BY <1>4, Zenon
  <2> QED
    BY <2>1, Zenon DEF NonceRetired
<1> QED
  BY <1>2, <1>3, <1>4

\* The entry of a Data's one match.
LEMMA OneRetires ==
  ASSUME TypeOK, NEW f \in Faces, NEW d \in DataPackets, SatisfyOne(f, d), NEW k \in Pending,
         NEW g \in Upstreams(pit[k])
  PROVE  NonceSafe(k, g)
<1>1. PICK key \in Keys :
        /\ DataMatches(d) = {key}
        /\ LET o == AfterReceiveData([pit[key] EXCEPT !.timer = 0], d, f)
               e == Satisfied(o.entry, d)
           IN  /\ pit' = [pit EXCEPT ![key] = WithoutOut(e, {f})]
               /\ dnl' = dnl \cup DeadNonces(key, e, {f})
  BY DEF SatisfyOne
<1>2. pit[k] \in Entry /\ pit[k] # NoEntry /\ k \in Keys
  BY EntryOfType DEF Pending
<1>3. CASE k # key
  <2>1. pit'[k] = pit[k]
    BY <1>1, <1>2, <1>3 DEF TypeOK
  <2> QED
    BY <1>2, <2>1 DEF NonceSafe, NonceKept, Upstreams
<1> SUFFICES ASSUME k = key
             PROVE  NonceSafe(k, g)
  BY <1>3
<1> DEFINE y == [pit[k] EXCEPT !.timer = 0]
           S == {h \in PendingDownstreams(y) : h # f \/ h \in AdHoc}
           z == WithoutIn(y, S)
           e == Satisfied(z, d)
           x == WithoutOut(e, {f})
<1>4. pit'[k] = x /\ DeadNonces(k, e, {f}) \subseteq dnl'
  BY <1>1, <1>2 DEF TypeOK, AfterReceiveData
<1>5. y \in Entry /\ y.out = pit[k].out
  BY <1>2, TimerType, TimeAssumption DEF Entry
<1> HIDE DEF y, S
<1>6. z \in Entry /\ z.out = y.out
  BY <1>5, WithoutInType DEF WithoutIn, Entry
<1> HIDE DEF z
<1>7. e \in Entry /\ e.out = z.out
  BY <1>6, SatisfiedType DEF Satisfied, Entry
<1> HIDE DEF e
<1>8. x \in Entry /\ x.out = [h \in Faces |-> IF h \in {f} THEN NoRecord ELSE e.out[h]]
  BY <1>7, WithoutOutType DEF WithoutOut, Entry
<1>9. x.satisfied = e.satisfied /\ x.short = e.short
  BY <1>7, FlagsKept
<1> HIDE DEF x
<1>10. e.out = pit[k].out /\ x # NoEntry
  BY <1>4, <1>5, <1>6, <1>7, <1>8, NoEntryAssumption
<1> QED
  BY <1>2, <1>4, <1>7, <1>8, <1>9, <1>10, AnsweredRetires

\* The entries that a Data satisfies together.
LEMMA ManyRetire ==
  ASSUME TypeOK, NEW f \in Faces, NEW b \in BOOLEAN, NEW d \in DataPackets, SatisfyMany(f, b, d),
         NEW k \in Pending, NEW g \in Upstreams(pit[k])
  PROVE  NonceSafe(k, g)
<1>1. pit[k] \in Entry /\ pit[k] # NoEntry /\ k \in Keys
  BY EntryOfType DEF Pending
<1>2. pit'[k] = IF k \in DataMatches(d) THEN SatisfiedTogether(pit[k], d, f) ELSE pit[k]
  BY <1>1 DEF SatisfyMany
<1>3. CASE k \notin DataMatches(d)
  BY <1>1, <1>2, <1>3 DEF NonceSafe, NonceKept, Upstreams
<1> SUFFICES ASSUME k \in DataMatches(d)
             PROVE  NonceSafe(k, g)
  BY <1>3
<1> DEFINE e == Satisfied(pit[k], d)
           y == [e EXCEPT !.timer = 0]
           z == WithoutOut(y, {f})
           x == WithoutIn(z, Faces)
<1>4. pit'[k] = x
  BY <1>2 DEF SatisfiedTogether
<1>5. DeadNonces(k, e, {f}) \subseteq dnl'
  BY DEF SatisfyMany
<1>6. e \in Entry /\ e.out = pit[k].out
  BY <1>1, SatisfiedType DEF Satisfied, Entry
<1> HIDE DEF e
<1>7. y \in Entry /\ y.out = e.out
  BY <1>6, TimerType, TimeAssumption DEF Entry
<1>8. y.satisfied = e.satisfied
  BY <1>6 DEF Entry
<1>9. y.short = e.short
  BY <1>6 DEF Entry
<1> HIDE DEF y
<1>10. z \in Entry /\ z.out = [h \in Faces |-> IF h \in {f} THEN NoRecord ELSE e.out[h]]
  BY <1>7, WithoutOutType DEF WithoutOut, Entry
<1>11. z.satisfied = e.satisfied /\ z.short = e.short
  BY <1>7, <1>8, <1>9, FlagsKept
<1> HIDE DEF z
<1>12. x \in Entry /\ x.out = z.out
  BY <1>10, WithoutInType DEF WithoutIn, Entry
<1>13. x.satisfied = e.satisfied /\ x.short = e.short
  BY <1>10, <1>11, FlagsKept
<1> HIDE DEF x
<1>14. x # NoEntry
  BY <1>12, NoEntryAssumption
<1> QED
  BY <1>1, <1>4, <1>5, <1>6, <1>10, <1>12, <1>13, <1>14, AnsweredRetires

\* The finalizing of an entry.
LEMMA FinalizingRetires ==
  ASSUME TypeOK, NEW key \in Keys, FinalizeInterest(key), NEW k \in Pending,
         NEW g \in Upstreams(pit[k])
  PROVE  NonceSafe(k, g)
<1>1. pit' = [pit EXCEPT ![key] = NoEntry] /\ dnl' = dnl \cup DeadNonces(key, pit[key], Faces)
  BY DEF FinalizeInterest
<1>2. CASE k # key
  <2>1. pit'[k] = pit[k] /\ pit[k] # NoEntry
    BY <1>1, <1>2 DEF TypeOK, Pending
  <2> QED
    BY <2>1 DEF NonceSafe, NonceKept, Upstreams
<1> SUFFICES ASSUME k = key
             PROVE  NonceRetired(k, g)
  BY <1>2 DEF NonceSafe
<1>3. pit'[k] = NoEntry /\ k \in Keys /\ g \in Faces \cap Upstreams(pit[k])
  BY <1>1 DEF TypeOK, Upstreams
<1>4. \/ <<k.name, pit[k].out[g].nonce>> \in DeadNonces(k, pit[k], Faces)
      \/ pit[k].satisfied /\ ~(k.fresh /\ pit[k].short)
  BY <1>3, DeadOrAnswered
<1>5. CASE <<k.name, pit[k].out[g].nonce>> \in DeadNonces(k, pit[k], Faces)
  BY <1>1, <1>5 DEF NonceRetired
<1>6. CASE pit[k].satisfied /\ ~(k.fresh /\ pit[k].short)
  BY <1>3, <1>6, Zenon DEF NonceRetired
<1> QED
  BY <1>4, <1>5, <1>6

\* An Interest that arrives takes no upstream from its entry.
LEMMA MissKeepsUpstreams ==
  ASSUME TypeOK, NEW f \in Faces, NEW i \in Interests, MissInterest(f, i), NEW k \in Pending
  PROVE  UpstreamsKept(k)
<1>1. i.key \in Keys /\ k \in Keys /\ pit[k] # NoEntry
  BY PacketAssumption DEF Pending
<1>2. CASE k # i.key
  <2>1. \E x : pit' = [pit EXCEPT ![i.key] = x]
    BY MissSends
  <2>2. pit'[k] = pit[k]
    BY <1>1, <1>2, <2>1 DEF TypeOK
  <2> QED
    BY <1>1, <2>2 DEF UpstreamsKept, NonceKept, Upstreams
<1>3. CASE k = i.key
  <2>1. pit'[k] # NoEntry
    BY <1>3, RequestedRecords
  <2>2. PICK T \in SUBSET up : SentOn(k, i, T)
    BY <1>3, RequestedRecords
  <2>3. EntryOf(k) = pit[k]
    BY <1>1 DEF EntryOf
  <2> QED
    BY <2>1, <2>2, <2>3 DEF UpstreamsKept, NonceKept, SentOn, Upstreams
<1> QED
  BY <1>2, <1>3

\* Nor does Data from the Content Store.
LEMMA HitKeepsUpstreams ==
  ASSUME TypeOK, NEW f \in Faces, NEW i \in Interests, NEW d \in DataPackets,
         HitInterest(f, i, d), NEW k \in Pending
  PROVE  UpstreamsKept(k)
<1> DEFINE z == Satisfied(EntryOf(i.key), d)
           e == [z EXCEPT !.timer = 0]
           x == WithoutIn(e, {f})
<1>1. i.key \in Keys /\ k \in Keys /\ pit[k] # NoEntry
  BY PacketAssumption DEF Pending
<1>2. pit' = [pit EXCEPT ![i.key] = x]
  BY DEF HitInterest, AfterContentStoreHit
<1>3. CASE k # i.key
  <2>1. pit'[k] = pit[k]
    BY <1>1, <1>2, <1>3 DEF TypeOK
  <2> QED
    BY <1>1, <2>1 DEF UpstreamsKept, NonceKept, Upstreams
<1>4. CASE k = i.key
  <2>1. pit'[k] = x
    BY <1>1, <1>2, <1>4 DEF TypeOK
  <2>2. EntryOf(i.key) = pit[k] /\ pit[k] \in Entry
    BY <1>1, <1>4, EntryOfType DEF EntryOf
  <2>3. z \in Entry /\ z.out = pit[k].out
    BY <2>2, SatisfiedType DEF Satisfied, Entry
  <2> HIDE DEF z
  <2>4. e \in Entry /\ e.out = z.out
    BY <2>3, TimerType, TimeAssumption DEF Entry
  <2> HIDE DEF e
  <2>5. x \in Entry /\ x.out = e.out
    BY <2>4, WithoutInType DEF WithoutIn, Entry
  <2> HIDE DEF x
  <2> QED
    BY <2>1, <2>3, <2>4, <2>5, NoEntryAssumption DEF UpstreamsKept, NonceKept, Upstreams
<1> QED
  BY <1>3, <1>4

\* Nor does a Nack.
LEMMA NackKeepsUpstreams ==
  ASSUME TypeOK, NEW f \in Faces, NEW key \in Keys, NEW n \in Nonces, NEW r \in NackReasons,
         ReceiveNack(f, key, n, r), NEW k \in Pending
  PROVE  UpstreamsKept(k)
<1>1. k \in Keys /\ pit[k] # NoEntry
  BY DEF Pending
<1>2. PICK x \in Entry : \E to \in SUBSET (Downstreams(x) \cap P2P), why \in Reasons :
          /\ NackTakes(f, key, r, x, to)
          /\ sent' = {SentNack(g, key, x.in[g].nonce, why) : g \in to}
  BY NackReturns
<1>3. PICK to : pit' = [pit EXCEPT ![key] = WithoutIn(x, to)]
  BY <1>2 DEF NackTakes
<1>4. CASE k # key
  <2>1. pit'[k] = pit[k]
    BY <1>1, <1>3, <1>4 DEF TypeOK
  <2> QED
    BY <1>1, <2>1 DEF UpstreamsKept, NonceKept, Upstreams
<1>5. CASE k = key
  <2>1. Upstreams(pit'[k]) = Upstreams(pit[k]) /\ Shrinks(pit[k], pit'[k])
    BY <1>5, NackedRecords
  <2>2. pit'[k] \in Entry
    BY <1>1, <1>2, <1>3, <1>5, WithoutInType DEF TypeOK
  <2> QED
    BY <2>1, <2>2, NoEntryAssumption DEF Shrinks, UpstreamsKept, NonceKept, Upstreams
<1> QED
  BY <1>4, <1>5

\* Nor does the clock.
LEMMA TickKeepsUpstreams ==
  ASSUME TypeOK, Tick, NEW k \in Pending
  PROVE  UpstreamsKept(k)
<1>1. pit[k] \in Entry /\ k \in Keys /\ pit[k] # NoEntry /\ pit[k].timer > 0
  BY EntryOfType DEF Pending, Tick
<1>2. pit'[k] = Aged(pit[k]) /\ Aged(pit[k]) \in Entry
  BY <1>1, AgedType DEF Tick
<1>3. \A g \in Faces :
        /\ Aged(pit[k]).out[g] = NoRecord <=> pit[k].out[g] = NoRecord
        /\ pit[k].out[g] # NoRecord => Aged(pit[k]).out[g].nonce = pit[k].out[g].nonce
  BY <1>1, AgedRecord
<1> QED
  BY <1>2, <1>3, NoEntryAssumption DEF UpstreamsKept, NonceKept, Upstreams

\* A step takes a Nonce that was sent upstream out of the PIT only together with its face,
\* or by sending that face a newer Interest, or it makes the Nonce dead unless its Interest
\* was answered for good: none is dropped silently.  What the newer Interest overwrites
\* is lost, and a dead Nonce may be forgotten later on.
THEOREM NoncesRetired == Spec => OutNonceRetired
<1>1. TypeOK /\ [Next]_vars =>
        [\A k \in Pending : \A f \in up' :
            pit[k].out[f] = NoRecord \/ NonceKept(k, f) \/ NonceRetired(k, f)]_vars
  <2> SUFFICES ASSUME TypeOK, Next, NEW k \in Pending, NEW g \in up', pit[k].out[g] # NoRecord
               PROVE  NonceSafe(k, g)
    BY DEF NonceSafe
  <2>0. up' \subseteq Faces /\ g \in Upstreams(pit[k]) /\ pit[k] # NoEntry
    <3>1. up' \subseteq Faces
      BY TypeStep DEF TypeOK
    <3> QED
      BY <3>1 DEF Upstreams, Pending
  <2>1. UpstreamsKept(k) => NonceSafe(k, g)
    BY <2>0 DEF UpstreamsKept, NonceSafe
  <2>2. pit' = pit => NonceSafe(k, g)
    BY <2>0 DEF NonceSafe, NonceKept, Upstreams
  <2>3. ASSUME NEW f \in Faces, RemoveFace(f) PROVE NonceSafe(k, g)
    <3>1. k \in Keys /\ pit[k] \in Entry /\ pit[k] # NoEntry /\ g # f /\ g \in Faces
      BY <2>0, <2>3, EntryOfType DEF Pending, RemoveFace
    <3> DEFINE y == WithoutOut(pit[k], {f})
               x == WithoutIn(y, {f})
    <3>2. pit'[k] = x
      BY <2>3, <3>1 DEF RemoveFace
    <3>3. y \in Entry /\ y.out[g] = pit[k].out[g]
      BY <3>1, WithoutOutType DEF WithoutOut, Entry
    <3> HIDE DEF y
    <3>4. x \in Entry /\ x.out = y.out
      BY <3>3, WithoutInType DEF WithoutIn, Entry
    <3> HIDE DEF x
    <3> QED
      BY <3>1, <3>2, <3>3, <3>4, NoEntryAssumption DEF NonceSafe, NonceKept
  <2>4. CASE \E f \in Faces, i \in Interests : DropInterest(f, i) \/ LoopInterest(f, i)
    BY <2>2, <2>4 DEF DropInterest, LoopInterest
  <2>5. CASE \/ \E f \in Faces, d \in DataPackets : StrayData(f, d)
             \/ ReducePit
             \/ \E d \in DataPackets : AgeContent(d)
             \/ \E dead \in Names \X Nonces : ForgetNonce(dead)
    BY <2>2, <2>5 DEF StrayData, ReducePit, AgeContent, ForgetNonce
  <2> QED
    BY <2>0, <2>1, <2>3, <2>4, <2>5, OneRetires, ManyRetire, FinalizingRetires, MissKeepsUpstreams,
       HitKeepsUpstreams, NackKeepsUpstreams, TickKeepsUpstreams DEF Next
<1> QED
  BY <1>1, TypeCorrect, PTL DEF Spec, OutNonceRetired

(***************************************************************************)
(* The forwarder implements PendingInterests.  First, the steps of         *)
(* PendingInterests are said in terms of the forwarder's tables; then each *)
(* operation of the forwarder is shown to be one of them.                  *)
(***************************************************************************)
\* What it sees of an in-record.
Remaining(x, g) ==
    IF x = NoEntry \/ x.in[g] = NoRecord THEN NoRecord
    ELSE IF x.in[g].left > 0 THEN x.in[g].left ELSE 0

\* The times seen of an entry.
RowOf(x) == [g \in Faces |-> Remaining(x, g)]

Time == [q \in Keys |-> [g \in Faces |-> Remaining(pit[q], g)]]
Done == {q \in Pending : pit[q].timer = 0}
Known == {d \in DataPackets : cs[d] # "absent"}

NothingSent == DataSent = {} /\ NacksSent = {}

AskersOf(q) == {g \in Faces : Time[q][g] # NoRecord}
WaitersOf(q) == {g \in AskersOf(q) : Time[q][g] > 0}

\* The row of times once the faces of S do not ask any longer.
RowWithout(q, S) == [g \in Faces |-> IF g \in S THEN NoRecord ELSE Time[q][g]]

MatchedBy(d) == {q \in Keys : Matches(q, d)}
AllWaiting(d) == UNION {WaitersOf(q) : q \in MatchedBy(d)}

\* The variables of PendingInterests.
LEMMA Seen ==
  /\ [k \in Keys |-> [f \in Faces |-> TimeLeft(k, f)]] = Time
  /\ {k \in Pending : pit[k].timer = 0} = Done
  /\ {d \in DataPackets : cs[d] # "absent"} = Known
  BY DEF Time, Done, Known, TimeLeft, Remaining

\* Nothing that is seen changes.
LEMMA StutterMapped ==
  ASSUME UNCHANGED <<Time, Done, Known, DataSent, NacksSent>>
  PROVE  UNCHANGED Promise!vars
  BY DEF Promise!vars, Time, Done, Known, TimeLeft, Remaining

\* A step in which an Interest is taken up.
LEMMA AskMapped ==
  ASSUME NEW f \in Faces, NEW k \in Keys, NEW life \in Lifetimes,
         Time' = [Time EXCEPT ![k] = [Time[k] EXCEPT ![f] = life]], Done' \in {Done \ {k}, Done \cup {k}},
         Known' = Known, NothingSent'
  PROVE  Promise!Next
<1>1. Time' = [Time EXCEPT ![k][f] = life]
  OBVIOUS
<1>2. Promise!Ask(f, k)
  BY <1>1 DEF Promise!Ask, Promise!Silent, Time, Done, Known, TimeLeft, Remaining, NothingSent
<1> QED
  BY <1>2 DEF Promise!Next

\* A step in which an Interest is not taken up, or nothing happens at all.
LEMMA RefuseMapped ==
  ASSUME NEW f \in Faces, NEW k \in Keys, Time' = Time, Done' = Done, Known' = Known,
         DataSent' = {}, NacksSent' \in {{}, {<<f, k>>}}
  PROVE  Promise!Next
<1>1. Promise!Refuse(f, k)
  BY DEF Promise!Refuse, Time, Done, Known, TimeLeft, Remaining
<1> QED
  BY <1>1 DEF Promise!Next

\* A step in which an Interest is rejected.
LEMMA RejectMapped ==
  ASSUME NEW f \in Faces, NEW k \in Keys, Time' = [Time EXCEPT ![k] = RowWithout(k, {f})],
         Done' = Done \cup {k}, Known' = Known, DataSent' = {}, NacksSent' = {<<f, k>>}
  PROVE  Promise!Next
<1>1. Promise!Reject(f, k)
  BY DEF Promise!Reject, Promise!Without, Time, Done, Known, TimeLeft, Remaining, RowWithout
<1> QED
  BY <1>1 DEF Promise!Next

\* A step in which the Content Store answers.
LEMMA ServeMapped ==
  ASSUME NEW f \in Faces, NEW k \in Keys, NEW d \in DataPackets, d \in Known, Matches(k, d),
         AskersOf(k) = {}, Time' = Time, Done' = Done \cup {k}, Known' = Known,
         NacksSent' = {},
         DataSent' = {<<g, d>> : g \in {h \in {f} : ~LeaksLocalhost(h, d.name)}}
  PROVE  Promise!Next
<1> DEFINE Permitted == {p \in Faces \X DataPackets : ~LeaksLocalhost(p[1], p[2].name)}
<1>1. DataSent' = {<<f, d>>} \cap Permitted
  OBVIOUS
<1>2. Promise!Asking(k) = {}
  BY DEF Promise!Asking, AskersOf, Time, TimeLeft, Remaining
<1>3. <<k, d>> \in {p \in Keys \X DataPackets : Matches(p[1], p[2])}
  OBVIOUS
<1>4. Promise!Serve(f, k, d)
  BY <1>1, <1>2, <1>3 DEF Promise!Serve, Time, Done, Known, TimeLeft, Remaining
<1> QED
  BY <1>4 DEF Promise!Next

\* A step in which Data comes in.
LEMMA DeliverMapped ==
  ASSUME NEW f \in Faces, NEW d \in DataPackets,
         NEW to, to \in {AllWaiting(d), AllWaiting(d) \ {f}},
         NEW gone \in {to, Faces},
         Time' = [q \in Keys |-> IF q \in MatchedBy(d) THEN RowWithout(q, gone) ELSE Time[q]],
         Done \cup {q \in MatchedBy(d) : AskersOf(q) # {}} \subseteq Done',
         Done' \subseteq Done \cup MatchedBy(d),
         Known' = Known \cup {d}, NacksSent' = {},
         DataSent' = {<<g, d>> : g \in {h \in to : ~LeaksLocalhost(h, d.name)}}
  PROVE  Promise!Next
<1> DEFINE Permitted == {p \in Faces \X DataPackets : ~LeaksLocalhost(p[1], p[2].name)}
           Satisfies == {p \in Keys \X DataPackets : Matches(p[1], p[2])}
           matching == {k \in Keys : <<k, d>> \in Satisfies}
<1>1. matching = MatchedBy(d)
  BY DEF MatchedBy
<1>2. \A q : WaitersOf(q) \subseteq Faces
  BY DEF WaitersOf, AskersOf
<1>3. to \subseteq Faces
  BY <1>2 DEF AllWaiting
<1>4. DataSent' = {<<g, d>> : g \in to} \cap Permitted
  BY <1>3
<1>5. \A q \in Keys : Promise!Asking(q) = AskersOf(q) /\ Promise!Waiting(q) = WaitersOf(q)
  BY DEF Promise!Asking, Promise!Waiting, AskersOf, WaitersOf, Time, TimeLeft, Remaining
<1>6. \A q \in Keys : \A S : Promise!Without(q, S) = RowWithout(q, S)
  BY DEF Promise!Without, RowWithout, Time, TimeLeft, Remaining
<1>7. UNION {Promise!Waiting(q) : q \in matching} = AllWaiting(d)
  BY <1>1, <1>5 DEF AllWaiting
<1>8. {q \in matching : Promise!Asking(q) # {}} = {q \in MatchedBy(d) : AskersOf(q) # {}}
  BY <1>1, <1>5
<1>9. Time' = [q \in Keys |-> IF q \in matching THEN Promise!Without(q, gone) ELSE Time[q]]
  BY <1>1, <1>6
<1> DEFINE all == UNION {Promise!Waiting(q) : q \in matching}
<1>10. \E t \in {all, all \ {f}} :
          /\ DataSent' = {<<g, d>> : g \in t} \cap Permitted
          /\ \E h \in {t, Faces} :
                Time' = [q \in Keys |-> IF q \in matching THEN Promise!Without(q, h) ELSE Time[q]]
  <2> HIDE DEF matching, Permitted
  <2>1. to \in {all, all \ {f}}
    BY <1>7
  <2> HIDE DEF all
  <2>2. \E h \in {to, Faces} :
          Time' = [q \in Keys |-> IF q \in matching THEN Promise!Without(q, h) ELSE Time[q]]
    BY <1>9
  <2> WITNESS to \in {all, all \ {f}}
  <2> QED
    BY <1>4, <2>2
<1>11. /\ Done \cup {q \in matching : Promise!Asking(q) # {}} \subseteq Done'
       /\ Done' \subseteq Done \cup matching
  BY <1>1, <1>8
<1>12. Promise!Deliver(f, d)
  BY <1>10, <1>11 DEF Promise!Deliver, Time, Done, Known, TimeLeft, Remaining
<1> QED
  BY <1>12 DEF Promise!Next

\* A step in which a Nack comes in.
LEMMA ReturnMapped ==
  ASSUME NEW k \in Keys, NEW to \in SUBSET AskersOf(k),
         Time' = [Time EXCEPT ![k] = RowWithout(k, to)], Done' \in {Done, Done \cup {k}},
         Known' = Known, DataSent' = {}, NacksSent' = {<<g, k>> : g \in to}
  PROVE  Promise!Next
<1>1. Promise!Asking(k) = AskersOf(k)
  BY DEF Promise!Asking, AskersOf, Time, TimeLeft, Remaining
<1>2. Promise!Without(k, to) = RowWithout(k, to)
  BY DEF Promise!Without, RowWithout, Time, TimeLeft, Remaining
<1>3. Promise!Return(k)
  BY <1>1, <1>2 DEF Promise!Return, Time, Done, Known, TimeLeft, Remaining
<1> QED
  BY <1>3 DEF Promise!Next

\* A step in which an entry is removed.
LEMMA RemoveMapped ==
  ASSUME NEW k \in Keys, k \in Done, Time' = [Time EXCEPT ![k] = RowWithout(k, Faces)],
         Done' = Done \ {k}, Known' = Known, NothingSent'
  PROVE  Promise!Next
<1>1. Promise!Remove(k)
  BY DEF Promise!Remove, Promise!Silent, Promise!Without, Time, Done, Known, TimeLeft, Remaining,
         RowWithout, NothingSent
<1> QED
  BY <1>1 DEF Promise!Next

\* A step in which a face goes.
LEMMA LeaveMapped ==
  ASSUME NEW f \in Faces, Time' = [q \in Keys |-> RowWithout(q, {f})], Done' = Done,
         Known' = Known, NothingSent'
  PROVE  Promise!Next
<1>1. Promise!Leave(f)
  BY DEF Promise!Leave, Promise!Silent, Promise!Without, Time, Done, Known, TimeLeft, Remaining,
         RowWithout, NothingSent
<1> QED
  BY <1>1 DEF Promise!Next

\* A step in which the clock ticks.
LEMMA PassMapped ==
  ASSUME Done = {}, Done' \subseteq {q \in Keys : \A g \in WaitersOf(q) : Time[q][g] = 1},
         Time' = [q \in Keys |-> [g \in Faces |->
                    IF g \in WaitersOf(q) THEN Time[q][g] - 1 ELSE Time[q][g]]],
         Known' = Known, NothingSent'
  PROVE  Promise!Next
<1>1. \A q \in Keys : Promise!Waiting(q) = WaitersOf(q)
  BY DEF Promise!Asking, Promise!Waiting, AskersOf, WaitersOf, Time, TimeLeft, Remaining
<1>2. Time' = [q \in Keys |-> [g \in Faces |->
                 IF g \in Promise!Waiting(q) THEN Time[q][g] - 1 ELSE Time[q][g]]]
  BY <1>1
<1>3. Done' \subseteq {q \in Keys : \A g \in Promise!Waiting(q) : Time[q][g] = 1}
  BY <1>1
<1>4. Promise!Pass
  BY <1>2, <1>3 DEF Promise!Pass, Promise!Silent, NothingSent, Time, Done, Known, TimeLeft, Remaining
<1> QED
  BY <1>4 DEF Promise!Next

\* A step in which a Data gets into the Content Store, or out of it.
LEMMA KeepMapped ==
  ASSUME NEW d \in DataPackets, Known' \in {Known \cup {d}, Known \ {d}},
         Time' = Time, Done' = Done, NothingSent'
  PROVE  Promise!Next
<1>1. Promise!Keep(d) \/ Promise!Lose(d)
  BY DEF Promise!Keep, Promise!Lose, Promise!Silent, Time, Done, Known, TimeLeft, Remaining, NothingSent
<1> QED
  BY <1>1 DEF Promise!Next

(***************************************************************************)
(* How the forwarder's tables are seen.                                    *)
(***************************************************************************)
\* A step that leaves the PIT alone.
LEMMA SamePit == ASSUME pit' = pit PROVE Time' = Time /\ Done' = Done
  BY DEF Time, Done, Pending

\* A step that changes the entry of one key.
LEMMA OneEntry ==
  ASSUME TypeOK, NEW k \in Keys, NEW x, pit' = [pit EXCEPT ![k] = x]
  PROVE  /\ Time' = [Time EXCEPT ![k] = [g \in Faces |-> Remaining(x, g)]]
         /\ Done' = IF x # NoEntry /\ x.timer = 0 THEN Done \cup {k} ELSE Done \ {k}
<1>1. \A q \in Keys : pit'[q] = IF q = k THEN x ELSE pit[q]
  BY DEF TypeOK
<1>2. Time' = [Time EXCEPT ![k] = [g \in Faces |-> Remaining(x, g)]]
  <2> DEFINE Row(y) == [g \in Faces |-> Remaining(y, g)]
  <2>1. Time' = [q \in Keys |-> Row(pit'[q])] /\ Time = [q \in Keys |-> Row(pit[q])]
    BY DEF Time, Remaining
  <2> HIDE DEF Row
  <2>2. Time' = [Time EXCEPT ![k] = Row(x)]
    BY <1>1, <2>1
  <2> QED
    BY <2>2 DEF Row
<1>3. Pending' = {q \in Keys : pit'[q] # NoEntry}
  BY DEF Pending
<1>4. Done' = {q \in Pending' : pit'[q].timer = 0}
  BY DEF Done
<1>5. Done' = IF x # NoEntry /\ x.timer = 0 THEN Done \cup {k} ELSE Done \ {k}
  BY <1>1, <1>3, <1>4 DEF Done, Pending
<1> QED
  BY <1>2, <1>5

\* An entry that is not there is seen as an empty one.
LEMMA SeenRow ==
  ASSUME TypeOK, NEW k \in Keys
  PROVE  Time[k] = [g \in Faces |-> Remaining(EntryOf(k), g)]
<1>1. CASE pit[k] = NoEntry
  <2>1. EntryOf(k) = NewEntry
    BY <1>1 DEF EntryOf
  <2>2. \A g \in Faces : Remaining(NewEntry, g) = NoRecord
    BY NewRecords DEF Remaining
  <2>3. \A g \in Faces : Remaining(NoEntry, g) = NoRecord
    BY DEF Remaining
  <2> QED
    BY <1>1, <2>1, <2>2, <2>3 DEF Time
<1>2. CASE pit[k] # NoEntry
  BY <1>2 DEF Time, EntryOf
<1> QED
  BY <1>1, <1>2

\* An in-record is seen by the time left to it.
LEMMA SeenRecord ==
  ASSUME NEW x \in Entry, NEW g \in Faces
  PROVE  /\ x.in[g] = NoRecord => Remaining(x, g) = NoRecord
         /\ x.in[g] # NoRecord => /\ Remaining(x, g) = IF x.in[g].left > 0 THEN x.in[g].left ELSE 0
                                  /\ Remaining(x, g) \in Nat
                                  /\ Remaining(x, g) # NoRecord
<1>1. x # NoEntry
  BY NoEntryAssumption
<1>2. x.in[g] # NoRecord => x.in[g].left \in Left
  BY DEF Entry, InRecord
<1>3. x.in[g] # NoRecord => /\ Remaining(x, g) = IF x.in[g].left > 0 THEN x.in[g].left ELSE 0
                            /\ Remaining(x, g) \in Nat
  BY <1>1, <1>2, TimeAssumption DEF Remaining, Left, Expired
<1> QED
  BY <1>1, <1>3, NoRecordAssumption DEF Remaining

\* Those who ask have in-records, those who wait unexpired ones.
LEMMA SeenFaces ==
  ASSUME TypeOK, NEW k \in Keys
  PROVE  AskersOf(k) = Downstreams(EntryOf(k)) /\ WaitersOf(k) = PendingDownstreams(EntryOf(k))
<1>1. EntryOf(k) \in Entry
  BY EntryOfType
<1>2. \A g \in Faces : Time[k][g] = Remaining(EntryOf(k), g)
  BY SeenRow
<1>3. AskersOf(k) = Downstreams(EntryOf(k))
  BY <1>1, <1>2, SeenRecord DEF AskersOf, Downstreams
<1>4. \A g \in Downstreams(EntryOf(k)) : Time[k][g] > 0 <=> EntryOf(k).in[g].left > 0
  <2> TAKE g \in Downstreams(EntryOf(k))
  <2>1. /\ Time[k][g] = IF EntryOf(k).in[g].left > 0 THEN EntryOf(k).in[g].left ELSE 0
    BY <1>1, <1>2, SeenRecord DEF Downstreams
  <2> QED
    BY <2>1
<1> QED
  BY <1>3, <1>4 DEF WaitersOf, PendingDownstreams

\* An entry that nobody has is one that nobody asks with.
LEMMA SeenNobody ==
  ASSUME TypeOK, NEW k \in Keys, pit[k] = NoEntry
  PROVE  AskersOf(k) = {} /\ WaitersOf(k) = {}
<1>1. Downstreams(EntryOf(k)) = {}
  BY NewRecords DEF EntryOf
<1> QED
  BY <1>1, SeenFaces DEF PendingDownstreams

\* An entry of which some faces are taken is seen without them.
LEMMA SeenWithout ==
  ASSUME TypeOK, NEW k \in Keys, NEW x \in Entry, NEW S,
         \A g \in Faces : x.in[g] = IF g \in S THEN NoRecord ELSE EntryOf(k).in[g]
  PROVE  RowOf(x) = RowWithout(k, S)
<1>1. EntryOf(k) \in Entry /\ EntryOf(k) # NoEntry /\ x # NoEntry
  BY EntryOfType, NoEntryAssumption
<1>2. \A g \in Faces : Remaining(x, g) = IF g \in S THEN NoRecord ELSE Remaining(EntryOf(k), g)
  BY <1>1 DEF Remaining
<1>3. \A g \in Faces : Time[k][g] = Remaining(EntryOf(k), g)
  BY SeenRow
<1> QED
  BY <1>2, <1>3 DEF RowWithout, RowOf

(***************************************************************************)
(* How the packets that are sent are seen.                                 *)
(***************************************************************************)
\* Data that is sent out.
LEMMA SeenData ==
  ASSUME NEW d, NEW S, sent' = OutgoingData(d, S)
  PROVE  /\ DataSent' = {<<g, d>> : g \in {h \in S : ~LeaksLocalhost(h, d.name)}}
         /\ NacksSent' = {}
<1>1. \A p \in sent' : p.type = "data" /\ p.data = d
  BY DEF OutgoingData, SentData
<1> DEFINE to == {h \in S : ~LeaksLocalhost(h, d.name)}
<1>2. sent' = {SentData(g, d) : g \in to}
  BY DEF OutgoingData
<1> HIDE DEF to
<1>5. /\ \A p \in sent' : p.to \in to
      /\ \A g \in to : SentData(g, d) \in sent' /\ SentData(g, d).to = g
  BY <1>2 DEF SentData
<1>3. DataSent' = {<<p.to, p.data>> : p \in {q \in sent' : q.type = "data"}}
  BY DEF DataSent
<1>4. NacksSent' = {<<p.to, p.key>> : p \in {q \in sent' : q.type = "nack"}}
  BY DEF NacksSent
<1>6. DataSent' = {<<g, d>> : g \in to}
  BY <1>1, <1>3, <1>5
<1>7. NacksSent' = {}
  BY <1>1, <1>4
<1> QED
  BY <1>6, <1>7 DEF to

\* Interests are not seen.
LEMMA SeenQuiet == ASSUME \A p \in sent' : p.type = "interest" PROVE NothingSent'
<1>1. DataSent' = {<<p.to, p.data>> : p \in {q \in sent' : q.type = "data"}}
  BY DEF DataSent
<1>2. NacksSent' = {<<p.to, p.key>> : p \in {q \in sent' : q.type = "nack"}}
  BY DEF NacksSent
<1> QED
  BY <1>1, <1>2 DEF NothingSent

\* Nacks for one key.
LEMMA SeenNacks ==
  ASSUME NEW k, NEW S, \A p \in sent' : p.type = "nack" /\ p.key = k /\ p.to \in S,
         \A g \in S : \E p \in sent' : p.to = g
  PROVE  DataSent' = {} /\ NacksSent' = {<<g, k>> : g \in S}
<1>1. DataSent' = {<<p.to, p.data>> : p \in {q \in sent' : q.type = "data"}}
  BY DEF DataSent
<1>2. NacksSent' = {<<p.to, p.key>> : p \in {q \in sent' : q.type = "nack"}}
  BY DEF NacksSent
<1> QED
  BY <1>1, <1>2

(***************************************************************************)
(* The operations of the forwarder, one after the other.                   *)
(***************************************************************************)
\* What is done to the tables that PendingInterests does not see.
LEMMA IdleImplements ==
  ASSUME TypeOK, pit' = pit, cs' = cs, sent' = {}
  PROVE  Promise!Next \/ UNCHANGED Promise!vars
<1>1. Time' = Time /\ Done' = Done /\ Known' = Known
  BY SamePit DEF Known
<1>2. NothingSent'
  BY SeenQuiet
<1>3. CASE NothingSent
  BY <1>1, <1>2, <1>3, StutterMapped DEF NothingSent
<1>4. CASE DataSent # {}
  <2>1. PICK p \in sent : p.type = "data"
    BY <1>4 DEF DataSent
  <2>2. p.data \in DataPackets
    BY <2>1 DEF TypeOK, Transmission
  <2>3. Known' \in {Known \cup {p.data}, Known \ {p.data}}
    BY <1>1
  <2> QED
    BY <1>1, <1>2, <2>2, <2>3, KeepMapped
<1>5. CASE NacksSent # {}
  <2>1. PICK p \in sent : p.type = "nack"
    BY <1>5 DEF NacksSent
  <2>2. p.to \in Faces /\ p.key \in Keys
    BY <2>1 DEF TypeOK, Transmission
  <2> QED
    BY <1>1, <1>2, <2>2, RefuseMapped DEF NothingSent
<1> QED
  BY <1>3, <1>4, <1>5 DEF NothingSent

\* An Interest that loops is refused.
LEMMA LoopImplements ==
  ASSUME TypeOK, NEW f \in Faces, NEW i \in Interests, LoopInterest(f, i)
  PROVE  Promise!Next
<1> DEFINE S == {f} \cap P2P
<1>1. Time' = Time /\ Done' = Done /\ Known' = Known
  BY SamePit DEF Known, LoopInterest
<1>2. sent' = {SentNack(g, i.key, i.nonce, "duplicate") : g \in S}
  BY DEF LoopInterest
<1>3. S \in {{}, {f}}
  OBVIOUS
<1>4. i.key \in Keys
  BY PacketAssumption
<1> HIDE DEF S
<1>5. \A p \in sent' : p.type = "nack" /\ p.key = i.key /\ p.to \in S
  BY <1>2 DEF SentNack
<1>8. \A g \in S : \E p \in sent' : p.to = g
  <2>1. \A g \in S : SentNack(g, i.key, i.nonce, "duplicate") \in sent'
    BY <1>2
  <2>2. \A g \in S : SentNack(g, i.key, i.nonce, "duplicate").to = g
    BY DEF SentNack
  <2> QED
    BY <2>1, <2>2
<1>6. DataSent' = {} /\ NacksSent' = {<<g, i.key>> : g \in S}
  BY <1>5, <1>8, SeenNacks
<1>7. NacksSent' \in {{}, {<<f, i.key>>}}
  BY <1>3, <1>6
<1> QED
  BY <1>1, <1>4, <1>6, <1>7, RefuseMapped

\* A hit in the Content Store serves.
LEMMA HitImplements ==
  ASSUME TypeOK, NEW f \in Faces, NEW i \in Interests, NEW d \in DataPackets,
         HitInterest(f, i, d)
  PROVE  Promise!Next
<1> DEFINE k == i.key
           z == Satisfied(EntryOf(k), d)
           e == [z EXCEPT !.timer = 0]
           x == WithoutIn(e, {f})
<1>1. k \in Keys /\ EntryOf(k) \in Entry
  BY PacketAssumption, EntryOfType
<1>2. pit' = [pit EXCEPT ![k] = x] /\ sent' = OutgoingData(d, {f})
  BY DEF HitInterest, AfterContentStoreHit
<1>3. /\ Downstreams(EntryOf(k)) = {}
      /\ d \in CsMatches(k)
      /\ cs' = cs
  BY DEF HitInterest
<1>4. z \in Entry /\ z.in = EntryOf(k).in
  BY <1>1, SatisfiedType DEF Satisfied, Entry
<1> HIDE DEF k, z
<1>5. e \in Entry /\ e.in = z.in /\ e.timer = 0
  BY <1>4, TimerType, TimeAssumption DEF Entry
<1> HIDE DEF e
<1>6. /\ x \in Entry /\ x.timer = 0 /\ x # NoEntry
      /\ \A g \in Faces : x.in[g] = IF g \in {f} THEN NoRecord ELSE e.in[g]
  BY <1>5, WithoutInType, NoEntryAssumption DEF WithoutIn, Entry
<1> HIDE DEF x
<1>7. \A g \in Faces : x.in[g] = IF g \in {} THEN NoRecord ELSE EntryOf(k).in[g]
  BY <1>3, <1>4, <1>5, <1>6 DEF Downstreams
<1>8. RowOf(x) = RowWithout(k, {})
  BY <1>1, <1>6, <1>7, SeenWithout
<1>9. RowWithout(k, {}) = Time[k]
  BY <1>1 DEF RowWithout, Time
<1>10. Time' = [Time EXCEPT ![k] = RowOf(x)] /\ Done' = Done \cup {k}
  BY <1>1, <1>2, <1>6, OneEntry DEF RowOf
<1>11. Time' = Time
  BY <1>1, <1>8, <1>9, <1>10 DEF Time
<1>12. /\ DataSent' = {<<g, d>> : g \in {h \in {f} : ~LeaksLocalhost(h, d.name)}}
       /\ NacksSent' = {}
  BY <1>2, SeenData
<1>13. d \in Known /\ Matches(k, d) /\ Known' = Known
  BY <1>3 DEF CsMatches, Known
<1>14. AskersOf(k) = {}
  BY <1>1, <1>3, SeenFaces
<1> QED
  BY <1>1, <1>10, <1>11, <1>12, <1>13, <1>14, ServeMapped

\* An entry with one downstream more is seen with one face asking more.
LEMMA SeenAsked ==
  ASSUME TypeOK, NEW k \in Keys, NEW x \in Entry, NEW f \in Faces, NEW life \in Lifetimes,
         x.in[f] # NoRecord, x.in[f].left = life,
         \A g \in Faces \ {f} : x.in[g] = EntryOf(k).in[g]
  PROVE  RowOf(x) = [Time[k] EXCEPT ![f] = life]
<1>1. EntryOf(k) # NoEntry /\ x # NoEntry
  BY EntryOfType, NoEntryAssumption
<1>2. life \in Nat
  BY PacketAssumption
<1>3. Remaining(x, f) = life
  BY <1>1, <1>2 DEF Remaining
<1>4. \A g \in Faces \ {f} : Remaining(x, g) = Remaining(EntryOf(k), g)
  BY <1>1 DEF Remaining
<1>5. Time[k] = RowOf(EntryOf(k))
  BY SeenRow DEF RowOf
<1> QED
  BY <1>3, <1>4, <1>5 DEF RowOf

\* An Interest that the Content Store cannot answer asks, unless it is rejected.
LEMMA MissImplements ==
  ASSUME TypeOK, NEW f \in Faces, NEW i \in Interests, MissInterest(f, i)
  PROVE  Promise!Next
<1> DEFINE k == i.key
<1>1. PICK e \in Entry, o \in Outcome :
            /\ Recorded(EntryOf(k), f, i, e)
            /\ pit' = [pit EXCEPT ![k] = o.entry] /\ sent' = o.sent
            /\ \/ Rejects(e, i, f, up, o)
               \/ \E T \in SUBSET up : Sends(e, i, o, T)
  BY MissSends
<1>2. k \in Keys /\ i.nonce \in Nonces /\ i.life \in Lifetimes
  BY PacketAssumption
<1>3. Known' = Known
  BY DEF MissInterest, Known
<1>4. EntryOf(k) \in Entry /\ o.entry \in Entry /\ o.entry # NoEntry
  BY <1>1, <1>2, EntryOfType, NoEntryAssumption DEF Outcome
<1>5. e.in = [EntryOf(k).in EXCEPT ![f] = [nonce |-> i.nonce, left |-> i.life]]
  BY <1>1 DEF Recorded
<1>10. e.in[f] = [nonce |-> i.nonce, left |-> i.life] /\ e.in[f] # NoRecord
  <2>1. i.life \in Left
    <3>1. i.life \in Nat /\ i.life <= MaxAge /\ MaxAge \in Nat
      BY <1>2, PacketAssumption, TimeAssumption
    <3> QED
      BY <3>1 DEF Left, Expired
  <2>2. [nonce |-> i.nonce, left |-> i.life] # NoRecord
    BY <1>2, <2>1, NoRecordAssumption DEF InRecord
  <2> QED
    BY <1>4, <1>5, <2>2 DEF Entry
<1>11. e.in[f].left = i.life /\ \A g \in Faces \ {f} : e.in[g] = EntryOf(k).in[g]
  BY <1>4, <1>5, <1>10 DEF Entry
<1> HIDE DEF k
<1>6. /\ Time' = [Time EXCEPT ![k] = RowOf(o.entry)]
      /\ Done' = IF o.entry # NoEntry /\ o.entry.timer = 0 THEN Done \cup {k} ELSE Done \ {k}
  BY <1>1, <1>2, OneEntry DEF RowOf
<1>7. ASSUME o.entry.in = e.in, NothingSent' PROVE Promise!Next
  <2>1. /\ o.entry.in[f] # NoRecord /\ o.entry.in[f].left = i.life
        /\ \A g \in Faces \ {f} : o.entry.in[g] = EntryOf(k).in[g]
    BY <1>7, <1>10, <1>11
  <2>3. RowOf(o.entry) = [Time[k] EXCEPT ![f] = i.life]
    BY <1>2, <1>4, <2>1, SeenAsked
  <2>2. Done' \in {Done \ {k}, Done \cup {k}}
    BY <1>6
  <2> QED
    BY <1>2, <1>3, <1>6, <1>7, <2>2, <2>3, AskMapped
<1>8. ASSUME NEW T \in SUBSET up, Sends(e, i, o, T) PROVE Promise!Next
  <2>1. \A p \in sent' : p.type = "interest"
    BY <1>1, <1>8 DEF Sends, SentInterest
  <2> QED
    BY <1>7, <1>8, <2>1, SeenQuiet DEF Sends
<1>9. CASE Rejects(e, i, f, up, o)
  <2> DEFINE to == {f} \cap Downstreams(e) \cap P2P
  <2>1. o = Reject(e, k, f)
    BY <1>9 DEF Rejects, k
  <2>2. /\ o.sent = {SentNack(g, k, e.in[g].nonce, "no-route") : g \in to}
        /\ o.entry.in = [g \in Faces |-> IF g \in to THEN NoRecord ELSE e.in[g]]
        /\ o.entry.timer = 0
    <3> HIDE DEF to
    <3> QED
      BY <1>2, <2>1, RejectEffect DEF to
  <2>4. to = {f} \cap P2P
    BY <1>10 DEF Downstreams
  <2> HIDE DEF to
  <2>5. CASE f \in P2P
    <3>1. to = {f}
      BY <2>4, <2>5
    <3>2. \A g \in Faces : o.entry.in[g] = IF g \in {f} THEN NoRecord ELSE EntryOf(k).in[g]
      BY <1>4, <1>5, <2>2, <3>1 DEF Entry
    <3>3. RowOf(o.entry) = RowWithout(k, {f})
      BY <1>2, <1>4, <3>2, SeenWithout
    <3>4. Time' = [Time EXCEPT ![k] = RowWithout(k, {f})] /\ Done' = Done \cup {k}
      BY <1>4, <1>6, <2>2, <3>3
    <3>5. sent' = {SentNack(f, k, e.in[f].nonce, "no-route")}
      BY <1>1, <2>2, <3>1
    <3>6. \A p \in sent' : p.type = "nack" /\ p.key = k /\ p.to = f
      BY <3>5 DEF SentNack
    <3>8. DataSent' = {} /\ NacksSent' = {<<g, k>> : g \in {f}}
      BY <3>5, <3>6, SeenNacks
    <3>7. NacksSent' = {<<f, k>>}
      BY <3>8
    <3> QED
      BY <1>2, <1>3, <3>4, <3>7, <3>8, RejectMapped
  <2>6. CASE f \notin P2P
    <3>1. to = {}
      BY <2>4, <2>6
    <3>2. o.entry.in = e.in /\ sent' = {}
      BY <1>1, <2>2, <3>1 DEF Entry
    <3> QED
      BY <1>7, <3>2, SeenQuiet
  <2> QED
    BY <2>5, <2>6
<1> QED
  BY <1>1, <1>8, <1>9

\* What the times become, entry by entry.
LEMMA NextTime == Time' = [q \in Keys |-> RowOf(pit'[q])]
  BY DEF Time, RowOf, Remaining

\* What is inserted into the Content Store is at hand.
LEMMA SeenInsert ==
  ASSUME TypeOK, NEW d \in DataPackets, CsInsert(d)
  PROVE  Known' = Known \cup {d}
<1>1. cs' = [cs EXCEPT ![d] = IF d.freshness = "zero" THEN "stale" ELSE "fresh"]
  BY DEF CsInsert
<1>2. \A b \in DataPackets \ {d} : cs'[b] = cs[b]
  BY <1>1 DEF TypeOK
<1>3. cs'[d] # "absent"
  BY <1>1 DEF TypeOK
<1> QED
  BY <1>2, <1>3 DEF Known

\* Data that nobody asked for may be kept.
LEMMA StrayImplements ==
  ASSUME TypeOK, NEW f \in Faces, NEW d \in DataPackets, StrayData(f, d)
  PROVE  Promise!Next
<1>1. Time' = Time /\ Done' = Done /\ NothingSent'
  BY SamePit, SeenQuiet DEF StrayData
<1>2. Known' = Known \/ Known' = Known \cup {d}
  <2>1. cs' = cs \/ CsInsert(d)
    BY DEF StrayData, DataUnsolicited
  <2>2. CASE cs' = cs
    BY <2>2 DEF Known
  <2> QED
    BY <2>1, <2>2, SeenInsert
<1>3. Known' \in {Known \cup {d}, Known \ {d}}
  BY <1>2
<1> QED
  BY <1>1, <1>3, KeepMapped

\* What is kept may grow stale or be lost.
LEMMA AgeImplements ==
  ASSUME TypeOK, NEW d \in DataPackets, AgeContent(d)
  PROVE  Promise!Next
<1>1. Time' = Time /\ Done' = Done /\ NothingSent'
  BY SamePit, SeenQuiet DEF AgeContent
<1>2. PICK s \in {"stale", "absent"} : cs' = [cs EXCEPT ![d] = s]
  BY DEF AgeContent
<1>3. d \in Known
  BY DEF AgeContent, Known
<1>4. \A b \in DataPackets : cs'[b] = IF b = d THEN s ELSE cs[b]
  BY <1>2 DEF TypeOK
<1>5. Known' \in {Known \cup {d}, Known \ {d}}
  <2>1. CASE s = "stale"
    <3>1. Known' = Known \cup {d}
      BY <1>4, <2>1 DEF Known
    <3> QED
      BY <3>1
  <2>2. CASE s = "absent"
    <3>1. Known' = Known \ {d}
      BY <1>4, <2>2 DEF Known
    <3> QED
      BY <3>1
  <2> QED
    BY <2>1, <2>2
<1> QED
  BY <1>1, <1>5, KeepMapped

\* The entry of a Data's one match is delivered to and due.
LEMMA OneImplements ==
  ASSUME TypeOK, NEW f \in Faces, NEW d \in DataPackets, SatisfyOne(f, d)
  PROVE  Promise!Next
<1>1. PICK k \in Keys :
        /\ DataMatches(d) = {k}
        /\ LET o == AfterReceiveData([pit[k] EXCEPT !.timer = 0], d, f)
               e == Satisfied(o.entry, d)
           IN  /\ pit' = [pit EXCEPT ![k] = WithoutOut(e, {f})]
               /\ sent' = o.sent
  BY DEF SatisfyOne
<1> DEFINE y == [pit[k] EXCEPT !.timer = 0]
           to == {g \in PendingDownstreams(y) : g # f \/ g \in AdHoc}
           z == WithoutIn(y, to)
           e == Satisfied(z, d)
           x == WithoutOut(e, {f})
<1>2. pit[k] \in Entry /\ pit[k] # NoEntry /\ EntryOf(k) = pit[k] /\ k \in MatchedBy(d)
  BY <1>1, EntryOfType DEF DataMatches, Pending, EntryOf, MatchedBy
<1>3. pit' = [pit EXCEPT ![k] = x] /\ sent' = OutgoingData(d, to)
  BY <1>1 DEF AfterReceiveData
<1>4. y \in Entry /\ y.in = pit[k].in /\ y.timer = 0
  BY <1>2, TimerType, TimeAssumption DEF Entry
<1> HIDE DEF y
<1>5. to \in {WaitersOf(k), WaitersOf(k) \ {f}}
  <2>1. WaitersOf(k) = PendingDownstreams(y)
    BY <1>2, <1>4, SeenFaces DEF PendingDownstreams, Downstreams
  <2>2. CASE f \in AdHoc
    BY <2>1, <2>2
  <2>3. CASE f \notin AdHoc
    BY <2>1, <2>3
  <2> QED
    BY <2>2, <2>3
<1> HIDE DEF to
<1>6. z \in Entry /\ z.timer = 0 /\ z.in = [g \in Faces |-> IF g \in to THEN NoRecord ELSE y.in[g]]
  BY <1>4, WithoutInType DEF WithoutIn, Entry
<1> HIDE DEF z
<1>7. e \in Entry /\ e.in = z.in /\ e.timer = 0
  BY <1>6, SatisfiedType DEF Satisfied, Entry
<1> HIDE DEF e
<1>8. x \in Entry /\ x.in = e.in /\ x.timer = 0 /\ x # NoEntry
  BY <1>7, WithoutOutType, NoEntryAssumption DEF WithoutOut, Entry
<1> HIDE DEF x
<1>9. \A g \in Faces : x.in[g] = IF g \in to THEN NoRecord ELSE EntryOf(k).in[g]
  BY <1>2, <1>4, <1>6, <1>7, <1>8
<1>10. RowOf(x) = RowWithout(k, to)
  BY <1>8, <1>9, SeenWithout
<1>11. \A q \in MatchedBy(d) \ {k} : pit[q] = NoEntry /\ AskersOf(q) = {} /\ WaitersOf(q) = {}
  BY <1>1, SeenNobody DEF DataMatches, MatchedBy, Pending
<1>12. Time' = [q \in Keys |-> IF q \in MatchedBy(d) THEN RowWithout(q, to) ELSE Time[q]]
  <2>1. \A q \in Keys : pit'[q] = IF q = k THEN x ELSE pit[q]
    BY <1>3 DEF TypeOK
  <2>2. \A q \in Keys \ {k} : RowOf(pit'[q]) = Time[q]
    BY <2>1 DEF RowOf, Time
  <2>3. \A q \in MatchedBy(d) \ {k} : RowWithout(q, to) = Time[q]
    BY <1>11 DEF RowWithout, AskersOf, MatchedBy, Time, Remaining
  <2>4. \A q \in Keys : RowOf(pit'[q]) = IF q \in MatchedBy(d) THEN RowWithout(q, to) ELSE Time[q]
    BY <1>2, <1>10, <2>1, <2>2, <2>3
  <2> QED
    BY <2>4, NextTime
<1>13. Done' = Done \cup {k}
  BY <1>3, <1>8, OneEntry
<1>14. /\ Done \cup {q \in MatchedBy(d) : AskersOf(q) # {}} \subseteq Done'
       /\ Done' \subseteq Done \cup MatchedBy(d)
  BY <1>2, <1>11, <1>13
<1>15. AllWaiting(d) = WaitersOf(k)
  BY <1>2, <1>11 DEF AllWaiting
<1>16. Known' = Known \cup {d}
  BY SeenInsert DEF SatisfyOne
<1>17. /\ DataSent' = {<<g, d>> : g \in {h \in to : ~LeaksLocalhost(h, d.name)}}
       /\ NacksSent' = {}
  BY <1>3, SeenData
<1> QED
  BY <1>5, <1>12, <1>14, <1>15, <1>16, <1>17, DeliverMapped

\* The entries that a Data satisfies together are delivered to, and nobody waits in them
\* any longer.
LEMMA ManyImplements ==
  ASSUME TypeOK, NEW f \in Faces, NEW b \in BOOLEAN, NEW d \in DataPackets, SatisfyMany(f, b, d)
  PROVE  Promise!Next
<1> DEFINE waiting == UNION {PendingDownstreams(pit[k]) : k \in DataMatches(d)}
           to == {g \in waiting : g # f \/ ~b \/ g \in AdHoc}
<1>1. sent' = OutgoingData(d, to)
  BY DEF SatisfyMany
<1>2. \A q \in Keys : pit'[q] = IF q \in DataMatches(d) THEN SatisfiedTogether(pit[q], d, f)
                                ELSE pit[q]
  BY DEF SatisfyMany
<1>3. DataMatches(d) \subseteq MatchedBy(d) /\ MatchedBy(d) \subseteq Keys
  BY DEF DataMatches, MatchedBy, Pending
<1>4. \A q \in MatchedBy(d) \ DataMatches(d) :
          pit[q] = NoEntry /\ AskersOf(q) = {} /\ WaitersOf(q) = {}
  BY SeenNobody DEF DataMatches, MatchedBy, Pending
<1>5. \A q \in DataMatches(d) : /\ pit[q] \in Entry /\ pit[q] # NoEntry
                                /\ WaitersOf(q) = PendingDownstreams(pit[q])
  <2> TAKE q \in DataMatches(d)
  <2>1. q \in Keys /\ pit[q] # NoEntry
    BY DEF DataMatches, Pending
  <2> QED
    BY <2>1, EntryOfType, SeenFaces DEF EntryOf
<1>6. AllWaiting(d) = waiting
  BY <1>3, <1>4, <1>5 DEF AllWaiting
<1>7. to \in {AllWaiting(d), AllWaiting(d) \ {f}}
  <2> HIDE DEF waiting
  <2>1. CASE b /\ f \notin AdHoc
    BY <1>6, <2>1
  <2>2. CASE ~(b /\ f \notin AdHoc)
    BY <1>6, <2>2
  <2> QED
    BY <2>1, <2>2
<1> HIDE DEF to, waiting
<1>8. \A q \in DataMatches(d) : /\ pit'[q] \in Entry /\ pit'[q].timer = 0 /\ pit'[q] # NoEntry
                                /\ \A g \in Faces : pit'[q].in[g] = NoRecord
  <2> TAKE q \in DataMatches(d)
  <2> DEFINE e == Satisfied(pit[q], d)
             y == [e EXCEPT !.timer = 0]
             z == WithoutOut(y, {f})
             x == WithoutIn(z, Faces)
  <2>1. pit'[q] = x
    BY <1>2, <1>3 DEF SatisfiedTogether
  <2>2. e \in Entry
    BY <1>5, SatisfiedType
  <2> HIDE DEF e
  <2>3. y \in Entry /\ y.timer = 0
    BY <2>2, TimerType, TimeAssumption DEF Entry
  <2> HIDE DEF y
  <2>4. z \in Entry /\ z.timer = 0
    BY <2>3, WithoutOutType DEF WithoutOut, Entry
  <2> HIDE DEF z
  <2>5. x \in Entry /\ x.timer = 0 /\ \A g \in Faces : x.in[g] = NoRecord
    BY <2>4, WithoutInType DEF WithoutIn, Entry
  <2> HIDE DEF x
  <2> QED
    BY <2>1, <2>5, NoEntryAssumption
<1>9. Time' = [q \in Keys |-> IF q \in MatchedBy(d) THEN RowWithout(q, Faces) ELSE Time[q]]
  <2>1. \A q \in DataMatches(d) : RowOf(pit'[q]) = RowWithout(q, Faces)
    BY <1>8, SeenRecord DEF RowOf, RowWithout
  <2>2. \A q \in MatchedBy(d) \ DataMatches(d) : RowOf(pit'[q]) = RowWithout(q, Faces)
    BY <1>2, <1>3, <1>4 DEF RowOf, RowWithout, Remaining
  <2>3. \A q \in Keys \ MatchedBy(d) : RowOf(pit'[q]) = Time[q]
    BY <1>2, <1>3 DEF RowOf, Time
  <2>4. \A q \in Keys : RowOf(pit'[q]) = IF q \in MatchedBy(d) THEN RowWithout(q, Faces) ELSE Time[q]
    BY <2>1, <2>2, <2>3
  <2> QED
    BY <2>4, NextTime
<1>10. Done' = Done \cup DataMatches(d)
  <2>1. Done' = {q \in Keys : pit'[q] # NoEntry /\ pit'[q].timer = 0}
    BY DEF Done, Pending
  <2>2. Done = {q \in Keys : pit[q] # NoEntry /\ pit[q].timer = 0}
    BY DEF Done, Pending
  <2> QED
    BY <1>2, <1>3, <1>8, <2>1, <2>2
<1>11. /\ Done \cup {q \in MatchedBy(d) : AskersOf(q) # {}} \subseteq Done'
       /\ Done' \subseteq Done \cup MatchedBy(d)
  BY <1>3, <1>4, <1>10
<1>12. Known' = Known \cup {d}
  BY SeenInsert DEF SatisfyMany
<1>13. /\ DataSent' = {<<g, d>> : g \in {h \in to : ~LeaksLocalhost(h, d.name)}}
       /\ NacksSent' = {}
  BY <1>1, SeenData
<1> QED
  BY <1>7, <1>9, <1>11, <1>12, <1>13, DeliverMapped

\* A Nack is returned to faces that ask.
LEMMA NackImplements ==
  ASSUME TypeOK, NEW f \in Faces, NEW k \in Keys, NEW n \in Nonces, NEW r \in NackReasons,
         ReceiveNack(f, k, n, r)
  PROVE  Promise!Next
<1>1. pit[k] \in Entry /\ pit[k] # NoEntry /\ EntryOf(k) = pit[k]
  BY NackReturns DEF EntryOf
<1>2. PICK x \in Entry : \E to \in SUBSET (Downstreams(x) \cap P2P), why \in Reasons :
          /\ NackTakes(f, k, r, x, to)
          /\ sent' = {SentNack(g, k, x.in[g].nonce, why) : g \in to}
  BY NackReturns
<1>3. PICK to \in SUBSET (Downstreams(x) \cap P2P), why \in Reasons :
          /\ NackTakes(f, k, r, x, to)
          /\ sent' = {SentNack(g, k, x.in[g].nonce, why) : g \in to}
  BY <1>2
<1>4. /\ x.in = pit[k].in /\ x.timer \in {pit[k].timer, 0}
      /\ pit' = [pit EXCEPT ![k] = WithoutIn(x, to)]
  BY <1>3 DEF NackTakes, Noted
<1> DEFINE w == WithoutIn(x, to)
<1>5. /\ w \in Entry /\ w # NoEntry /\ w.timer = x.timer
      /\ \A g \in Faces : w.in[g] = IF g \in to THEN NoRecord ELSE EntryOf(k).in[g]
  BY <1>1, <1>4, WithoutInType, NoEntryAssumption DEF WithoutIn, Entry
<1> HIDE DEF w
<1>6. RowOf(w) = RowWithout(k, to)
  BY <1>5, SeenWithout
<1>7. /\ Time' = [Time EXCEPT ![k] = RowOf(w)]
      /\ Done' = IF w # NoEntry /\ w.timer = 0 THEN Done \cup {k} ELSE Done \ {k}
  BY <1>4, OneEntry DEF RowOf, w
<1>8. Done' \in {Done, Done \cup {k}}
  BY <1>1, <1>4, <1>5, <1>7 DEF Done, Pending
<1>9. to \in SUBSET AskersOf(k)
  BY <1>1, <1>4, SeenFaces DEF Downstreams
<1>10. Known' = Known
  BY DEF ReceiveNack, Known
<1>11. \A p \in sent' : p.type = "nack" /\ p.key = k /\ p.to \in to
  BY <1>3 DEF SentNack
<1>12. \A g \in to : \E p \in sent' : p.to = g
  <2>1. \A g \in to : SentNack(g, k, x.in[g].nonce, why) \in sent'
    BY <1>3
  <2>2. \A g \in to : SentNack(g, k, x.in[g].nonce, why).to = g
    BY DEF SentNack
  <2> QED
    BY <2>1, <2>2
<1>13. DataSent' = {} /\ NacksSent' = {<<g, k>> : g \in to}
  BY <1>11, <1>12, SeenNacks
<1> QED
  BY <1>6, <1>7, <1>8, <1>9, <1>10, <1>13, ReturnMapped

\* An entry that is finalized is removed.
LEMMA FinalizeImplements ==
  ASSUME TypeOK, NEW k \in Keys, FinalizeInterest(k)
  PROVE  Promise!Next
<1>1. pit' = [pit EXCEPT ![k] = NoEntry] /\ k \in Done
  BY DEF FinalizeInterest, Done
<1>2. RowOf(NoEntry) = RowWithout(k, Faces)
  BY DEF RowOf, RowWithout, Remaining
<1>3. Time' = [Time EXCEPT ![k] = RowOf(NoEntry)] /\ Done' = Done \ {k}
  BY <1>1, OneEntry DEF RowOf
<1>4. Known' = Known /\ NothingSent'
  BY SeenQuiet DEF FinalizeInterest, Known
<1> QED
  BY <1>1, <1>2, <1>3, <1>4, RemoveMapped

\* A face that is removed leaves.
LEMMA LeaveImplements ==
  ASSUME TypeOK, NEW f \in Faces, RemoveFace(f)
  PROVE  Promise!Next
<1>1. \A q \in Keys : pit'[q] = IF pit[q] = NoEntry THEN NoEntry
                                ELSE WithoutIn(WithoutOut(pit[q], {f}), {f})
  BY DEF RemoveFace
<1>2. \A q \in Keys : pit[q] # NoEntry =>
          /\ pit'[q] \in Entry /\ pit'[q] # NoEntry /\ pit'[q].timer = pit[q].timer
          /\ \A g \in Faces : pit'[q].in[g] = IF g \in {f} THEN NoRecord ELSE pit[q].in[g]
  <2> SUFFICES ASSUME NEW q \in Keys, pit[q] # NoEntry
               PROVE  /\ pit'[q] \in Entry /\ pit'[q] # NoEntry /\ pit'[q].timer = pit[q].timer
                      /\ \A g \in Faces : pit'[q].in[g] = IF g \in {f} THEN NoRecord ELSE pit[q].in[g]
    OBVIOUS
  <2> DEFINE y == WithoutOut(pit[q], {f})
             x == WithoutIn(y, {f})
  <2>1. pit'[q] = x /\ pit[q] \in Entry
    BY <1>1, EntryOfType
  <2>2. y \in Entry /\ y.in = pit[q].in /\ y.timer = pit[q].timer
    BY <2>1, WithoutOutType DEF WithoutOut, Entry
  <2> HIDE DEF y
  <2>3. /\ x \in Entry /\ x.timer = y.timer
        /\ \A g \in Faces : x.in[g] = IF g \in {f} THEN NoRecord ELSE y.in[g]
    BY <2>2, WithoutInType DEF WithoutIn, Entry
  <2> HIDE DEF x
  <2> QED
    BY <2>1, <2>2, <2>3, NoEntryAssumption
<1>3. Time' = [q \in Keys |-> RowWithout(q, {f})]
  <2>1. \A q \in Keys : pit[q] # NoEntry => RowOf(pit'[q]) = RowWithout(q, {f})
    BY <1>2, SeenWithout DEF EntryOf
  <2>2. \A q \in Keys : pit[q] = NoEntry => RowOf(pit'[q]) = RowWithout(q, {f})
    BY <1>1 DEF RowOf, RowWithout, Time, Remaining
  <2> QED
    BY <2>1, <2>2, NextTime
<1>4. Done' = Done
  <2>1. Done' = {q \in Keys : pit'[q] # NoEntry /\ pit'[q].timer = 0}
    BY DEF Done, Pending
  <2>2. Done = {q \in Keys : pit[q] # NoEntry /\ pit[q].timer = 0}
    BY DEF Done, Pending
  <2> QED
    BY <1>1, <1>2, <2>1, <2>2
<1>5. Known' = Known /\ NothingSent'
  BY SeenQuiet DEF RemoveFace, Known
<1> QED
  BY <1>3, <1>4, <1>5, LeaveMapped

\* A tick passes time; an entry whose timer runs out with it is one that nobody waits in
\* any longer, since the timer covers the in-records.
LEMMA TickImplements ==
  ASSUME TypeOK, TimerCoversDownstreams, Tick
  PROVE  Promise!Next
<1>1. \A q \in Pending : pit[q].timer > 0
  BY DEF Tick
<1>2. \A q \in Keys : pit'[q] = IF pit[q] = NoEntry THEN NoEntry ELSE Aged(pit[q])
  BY DEF Tick
<1>3. \A q \in Pending : q \in Keys /\ pit[q] \in Entry /\ pit'[q] = Aged(pit[q]) /\ pit'[q] \in Entry
                         /\ pit'[q] # NoEntry /\ pit'[q].timer = pit[q].timer - 1
  <2> TAKE q \in Pending
  <2>1. q \in Keys /\ pit[q] \in Entry /\ pit'[q] = Aged(pit[q])
    BY <1>2, EntryOfType DEF Pending
  <2>2. Aged(pit[q]) \in Entry
    BY <1>1, <2>1, AgedType
  <2>3. Aged(pit[q]).timer = pit[q].timer - 1
    BY <2>1 DEF Aged, Entry
  <2> QED
    BY <2>1, <2>2, <2>3, NoEntryAssumption
<1>4. Done = {}
  BY <1>1 DEF Done
<1>5. \A q \in Pending : \A g \in Faces :
          /\ Time[q][g] = Remaining(pit[q], g)
          /\ pit[q].in[g] = NoRecord => Remaining(pit'[q], g) = NoRecord /\ Time[q][g] = NoRecord
          /\ pit[q].in[g] # NoRecord =>
                /\ g \in WaitersOf(q) <=> pit[q].in[g].left > 0
                /\ Time[q][g] = IF pit[q].in[g].left > 0 THEN pit[q].in[g].left ELSE 0
                /\ Remaining(pit'[q], g) = IF pit[q].in[g].left > 0 THEN pit[q].in[g].left - 1 ELSE 0
  <2> SUFFICES ASSUME NEW q \in Pending, NEW g \in Faces
               PROVE  /\ Time[q][g] = Remaining(pit[q], g)
                      /\ pit[q].in[g] = NoRecord =>
                            Remaining(pit'[q], g) = NoRecord /\ Time[q][g] = NoRecord
                      /\ pit[q].in[g] # NoRecord =>
                            /\ g \in WaitersOf(q) <=> pit[q].in[g].left > 0
                            /\ Time[q][g] = IF pit[q].in[g].left > 0 THEN pit[q].in[g].left ELSE 0
                            /\ Remaining(pit'[q], g) = IF pit[q].in[g].left > 0
                                                       THEN pit[q].in[g].left - 1 ELSE 0
    OBVIOUS
  <2>1. q \in Keys /\ pit[q] \in Entry /\ pit'[q] = Aged(pit[q]) /\ pit'[q] \in Entry /\ EntryOf(q) = pit[q]
    BY <1>3 DEF Pending, EntryOf
  <2>2. Time[q][g] = Remaining(pit[q], g)
    BY <2>1 DEF Time
  <2>3. pit'[q].in[g] = NoRecord <=> pit[q].in[g] = NoRecord
    BY <2>1, AgedRecord
  <2>4. ASSUME pit[q].in[g] # NoRecord
        PROVE  /\ g \in WaitersOf(q) <=> pit[q].in[g].left > 0
               /\ Time[q][g] = IF pit[q].in[g].left > 0 THEN pit[q].in[g].left ELSE 0
               /\ Remaining(pit'[q], g) = IF pit[q].in[g].left > 0 THEN pit[q].in[g].left - 1 ELSE 0
    <3>1. pit'[q].in[g].left = Countdown(pit[q].in[g].left)
      BY <2>1, <2>4, AgedRecord
    <3>2. pit[q].in[g].left \in Left
      BY <2>1, <2>4 DEF Entry, InRecord
    <3>3. Time[q][g] = IF pit[q].in[g].left > 0 THEN pit[q].in[g].left ELSE 0
      BY <2>1, <2>2, <2>4, SeenRecord
    <3>4. Remaining(pit'[q], g) = IF pit'[q].in[g].left > 0 THEN pit'[q].in[g].left ELSE 0
      BY <2>1, <2>3, <2>4, SeenRecord
    <3>5. Remaining(pit'[q], g) = IF pit[q].in[g].left > 0 THEN pit[q].in[g].left - 1 ELSE 0
      BY <3>1, <3>2, <3>4, TimeAssumption DEF Left, Expired, Countdown
    <3>6. g \in WaitersOf(q) <=> pit[q].in[g].left > 0
      BY <2>1, <2>4, SeenFaces DEF PendingDownstreams, Downstreams
    <3> QED
      BY <3>3, <3>5, <3>6
  <2>5. pit[q].in[g] = NoRecord => Remaining(pit'[q], g) = NoRecord /\ Time[q][g] = NoRecord
    BY <2>1, <2>2, <2>3, SeenRecord
  <2> QED
    BY <2>2, <2>4, <2>5
<1>6. \A q \in Keys \ Pending : /\ pit[q] = NoEntry /\ pit'[q] = NoEntry /\ WaitersOf(q) = {}
                                /\ \A g \in Faces : Time[q][g] = NoRecord
  BY <1>2, SeenNobody DEF Pending, Time, Remaining
<1>7. Time' = [q \in Keys |-> [g \in Faces |->
                 IF g \in WaitersOf(q) THEN Time[q][g] - 1 ELSE Time[q][g]]]
  <2> DEFINE New(q) == [g \in Faces |-> IF g \in WaitersOf(q) THEN Time[q][g] - 1 ELSE Time[q][g]]
  <2>1. ASSUME NEW q \in Pending PROVE RowOf(pit'[q]) = New(q)
    <3>1. \A g \in Faces :
             Remaining(pit'[q], g) = IF g \in WaitersOf(q) THEN Time[q][g] - 1 ELSE Time[q][g]
      <4> TAKE g \in Faces
      <4>1. CASE pit[q].in[g] = NoRecord
        <5>1. g \notin WaitersOf(q)
          BY <1>5, <4>1 DEF WaitersOf, AskersOf
        <5> QED
          BY <1>5, <4>1, <5>1
      <4>2. CASE pit[q].in[g] # NoRecord
        <5>1. CASE pit[q].in[g].left > 0
          BY <1>5, <4>2, <5>1
        <5>2. CASE ~(pit[q].in[g].left > 0)
          BY <1>5, <4>2, <5>2
        <5> QED
          BY <5>1, <5>2
      <4> QED
        BY <4>1, <4>2
    <3> QED
      BY <3>1 DEF RowOf
  <2>2. ASSUME NEW q \in Keys \ Pending PROVE RowOf(pit'[q]) = New(q)
    BY <1>6, <2>2 DEF RowOf, Remaining
  <2>3. \A q \in Keys : RowOf(pit'[q]) = New(q)
    BY <2>1, <2>2
  <2> HIDE DEF New
  <2>4. Time' = [q \in Keys |-> New(q)]
    BY <2>3, NextTime
  <2> QED
    BY <2>4 DEF New
<1>8. Done' \subseteq {q \in Keys : \A g \in WaitersOf(q) : Time[q][g] = 1}
  <2> SUFFICES ASSUME NEW q \in Done', NEW g \in WaitersOf(q)
               PROVE  q \in Keys /\ Time[q][g] = 1
    BY <1>3, <1>6 DEF Done, Pending
  <2>1. q \in Keys /\ pit'[q] # NoEntry /\ pit'[q].timer = 0
    BY DEF Done, Pending
  <2>2. q \in Pending
    BY <1>6, <2>1
  <2>3. g \in Faces
    BY DEF WaitersOf, AskersOf
  <2>4. pit[q].in[g] # NoRecord
    BY <1>5, <2>2, <2>3 DEF WaitersOf, AskersOf
  <2>5. pit[q].in[g].left > 0 /\ Time[q][g] = pit[q].in[g].left
    BY <1>5, <2>2, <2>3, <2>4
  <2>6. pit[q].timer = 1
    BY <1>3, <2>1, <2>2 DEF Entry
  <2>7. pit[q].in[g].left <= pit[q].timer
    BY <2>2, <2>3, <2>4, <2>6 DEF TimerCoversDownstreams, Downstreams
  <2>8. pit[q].in[g].left \in Int
    BY <1>3, <2>2, <2>3, <2>4, TimeAssumption DEF Entry, InRecord, Left, Expired
  <2> QED
    BY <2>1, <2>5, <2>6, <2>7, <2>8
<1>9. Known' = Known /\ NothingSent'
  BY SeenQuiet DEF Tick, Known
<1> QED
  BY <1>4, <1>7, <1>8, <1>9, PassMapped

(***************************************************************************)
(* The refinement.                                                         *)
(***************************************************************************)
\* Nothing is pending, cached or sent at first.
LEMMA InitImplements == Init => Promise!Init
<1> SUFFICES ASSUME Init PROVE Promise!Init
  OBVIOUS
<1>1. \A q \in Keys : pit[q] = NoEntry
  BY DEF Init
<1>2. Pending = {} /\ Done = {}
  BY <1>1 DEF Pending, Done
<1>3. \A q \in Keys, g \in Faces : TimeLeft(q, g) = NoRecord
  BY <1>1 DEF TimeLeft
<1>4. Known = {}
  BY DEF Init, Known
<1>5. DataSent = {} /\ NacksSent = {}
  BY DEF Init, DataSent, NacksSent
<1> QED
  BY <1>2, <1>3, <1>4, <1>5 DEF Promise!Init, Known, Done

\* Every step of the forwarder is a step of PendingInterests, or is not seen.
LEMMA StepImplements ==
  TypeOK /\ TimerCoversDownstreams /\ [Next]_vars => [Promise!Next]_(Promise!vars)
<1> SUFFICES ASSUME TypeOK, TimerCoversDownstreams, [Next]_vars
             PROVE  Promise!Next \/ UNCHANGED Promise!vars
  OBVIOUS
<1>1. CASE UNCHANGED vars
  <2>1. pit' = pit /\ cs' = cs /\ sent' = sent
    BY <1>1 DEF vars
  <2> QED
    BY <2>1, SamePit, StutterMapped DEF Known, DataSent, NacksSent
<1>2. ASSUME NEW f \in Faces, NEW i \in Interests, DropInterest(f, i)
      PROVE  Promise!Next \/ UNCHANGED Promise!vars
  BY <1>2, IdleImplements DEF DropInterest
<1>3. ASSUME ReducePit \/ \E dead \in Names \X Nonces : ForgetNonce(dead)
      PROVE  Promise!Next \/ UNCHANGED Promise!vars
  <2>1. pit' = pit /\ cs' = cs /\ sent' = {}
    BY <1>3 DEF ReducePit, ForgetNonce
  <2> QED
    BY <2>1, IdleImplements
<1> QED
  BY <1>1, <1>2, <1>3, LoopImplements, HitImplements, MissImplements, StrayImplements,
     OneImplements, ManyImplements, NackImplements, FinalizeImplements, TickImplements,
     LeaveImplements, AgeImplements DEF Next

\* The forwarder keeps its promise to those who ask, for whatever faces, names, Data,
\* routes, limits and lifetimes: it implements PendingInterests.
THEOREM PromiseKept == Spec => KeepsPromise
  BY InitImplements, StepImplements, TypeCorrect, TimerCovers, PTL
  DEF Spec, KeepsPromise, Promise!Spec
=============================================================================
