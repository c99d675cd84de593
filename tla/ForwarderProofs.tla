-------------------------- MODULE ForwarderProofs --------------------------
(***************************************************************************)
(* What holds of the forwarder for every choice of its constants.          *)
(***************************************************************************)
EXTENDS Gateway, FiniteSetTheorems, TLAPS

(***************************************************************************)
(* Entries stay entries.                                                   *)
(***************************************************************************)
\* A new entry is one.
LEMMA NewEntryType == NewEntry \in Entry
  BY TimeAssumption DEF NewEntry, Entry

\* A record made or renewed for an Interest is an out-record
\* (insertOrUpdateOutRecord).
LEMMA RenewedType ==
  ASSUME NEW record \in OutRecord \cup {NoRecord}, NEW nonce \in Nonces, NEW life \in Lifetimes
  PROVE  Renewed(record, nonce, life) \in OutRecord
<1>1. life \in Left /\ 0 \in 0 .. MaxAge /\ RetxInitial \in 1 .. RetxMax
  BY TimeAssumption, PacketAssumption DEF Left, Expired
<1>2. record # NoRecord => record.nack \in Reasons \cup {NotNacked} /\ record.interval \in 1 .. RetxMax
  BY DEF OutRecord
<1> QED
  BY <1>1, <1>2 DEF Renewed, OutRecord

\* An entry whose timer is set within bounds stays an entry (setExpiryTimer).
LEMMA TimerType ==
  ASSUME NEW e \in Entry, NEW t \in 0 .. MaxAge
  PROVE  [e EXCEPT !.timer = t] \in Entry
  BY DEF Entry

\* Recording a downstream leaves an entry (insertOrUpdateInRecord).
LEMMA WithInRecordType ==
  ASSUME NEW e \in Entry, NEW f \in Faces, NEW nonce \in Nonces, NEW life \in Lifetimes
  PROVE  WithInRecord(e, f, nonce, life) \in Entry
<1>1. [nonce |-> nonce, left |-> life] \in InRecord
  BY TimeAssumption, PacketAssumption DEF InRecord, Left, Expired
<1> QED
  BY <1>1 DEF WithInRecord, Entry

\* Recording an upstream leaves an entry (insertOrUpdateOutRecord).
LEMMA WithOutRecordType ==
  ASSUME NEW e \in Entry, NEW f \in Faces, NEW nonce \in Nonces, NEW life \in Lifetimes
  PROVE  WithOutRecord(e, f, nonce, life) \in Entry
<1>1. e.out[f] \in OutRecord \cup {NoRecord}
  BY DEF Entry
<1>2. Renewed(e.out[f], nonce, life) \in OutRecord
  BY <1>1, RenewedType
<1> QED
  BY <1>2 DEF WithOutRecord, Entry

\* Deleting in-records leaves an entry (deleteInRecord, clearInRecords).
LEMMA WithoutInType ==
  ASSUME NEW e \in Entry, NEW S
  PROVE  WithoutIn(e, S) \in Entry
  BY DEF WithoutIn, Entry

\* Deleting out-records leaves an entry (deleteOutRecord).
LEMMA WithoutOutType ==
  ASSUME NEW e \in Entry, NEW S
  PROVE  WithoutOut(e, S) \in Entry
  BY DEF WithoutOut, Entry

\* Marking an entry satisfied leaves an entry.
LEMMA SatisfiedType ==
  ASSUME NEW e \in Entry, NEW d \in DataPackets
  PROVE  Satisfied(e, d) \in Entry
  BY DEF Satisfied, Entry

\* A tick leaves an entry of one that is not due.
LEMMA AgedType ==
  ASSUME NEW e \in Entry, e.timer > 0
  PROVE  Aged(e) \in Entry
<1>1. \A left \in Left : Countdown(left) \in Left
  BY TimeAssumption DEF Countdown, Left, Expired
<1>2. \A age \in 0 .. MaxAge : Older(age) \in 0 .. MaxAge
  BY TimeAssumption DEF Older
<1>3. \A r \in InRecord : [r EXCEPT !.left = Countdown(@)] \in InRecord
  BY <1>1 DEF InRecord
<1>4. \A r \in OutRecord : [r EXCEPT !.left = Countdown(@), !.age = Older(@)] \in OutRecord
  BY <1>1, <1>2 DEF OutRecord
<1>5. e.timer - 1 \in 0 .. MaxAge
  BY TimeAssumption DEF Entry
<1> QED
  BY <1>3, <1>4, <1>5 DEF Aged, Entry

(***************************************************************************)
(* Outcomes of the strategies are outcomes.                                *)
(***************************************************************************)
\* sendInterest leaves an entry and sends an Interest of the packets there are.
LEMMA SendInterestType ==
  ASSUME NEW e \in Entry, NEW i \in Interests, NEW egress \in Faces
  PROVE  SendInterest(e, i, egress) \in Outcome
<1>1. i.key \in Keys /\ i.nonce \in Nonces /\ i.life \in Lifetimes
  BY PacketAssumption
<1>2. WithOutRecord(e, egress, i.nonce, i.life) \in Entry
  BY <1>1, WithOutRecordType
<1>3. SentInterest(egress, i.key, i.nonce) \in Transmission
  BY <1>1 DEF SentInterest, Transmission
<1> QED
  BY <1>2, <1>3 DEF SendInterest, Outcome

\* sendNacks leaves an entry and sends Nacks with Nonces of its in-records.
LEMMA SendNacksType ==
  ASSUME NEW e \in Entry, NEW key \in Keys, NEW S, NEW reason \in Reasons
  PROVE  SendNacks(e, key, S, reason) \in Outcome
<1>1. \A f \in Downstreams(e) : e.in[f].nonce \in Nonces
  BY DEF Downstreams, Entry, InRecord
<1>2. \A f \in Downstreams(e) : SentNack(f, key, e.in[f].nonce, reason) \in Transmission
  BY <1>1 DEF SentNack, Transmission, Downstreams
<1>3. WithoutIn(e, S \cap Downstreams(e) \cap P2P) \in Entry
  BY WithoutInType
<1> QED
  BY <1>2, <1>3 DEF SendNacks, Outcome

\* The same of a Nack followed by rejectPendingInterest.
LEMMA RejectType ==
  ASSUME NEW e \in Entry, NEW key \in Keys, NEW f \in Faces
  PROVE  Reject(e, key, f) \in Outcome
<1> DEFINE o == SendNacks(e, key, {f}, "no-route")
<1>1. o \in Outcome
  BY SendNacksType DEF Reasons
<1>2. [o.entry EXCEPT !.timer = 0] \in Entry
  BY <1>1, TimerType, TimeAssumption DEF Outcome
<1>3. Reject(e, key, f) = [o EXCEPT !.entry = [o.entry EXCEPT !.timer = 0]]
  BY DEF Reject
<1> QED
  BY <1>1, <1>2, <1>3 DEF Outcome

\* Doing nothing is an outcome.
LEMMA KeepType ==
  ASSUME NEW e \in Entry
  PROVE  Keep(e) \in Outcome
  BY DEF Keep, Outcome

\* The next hop chosen is one of those offered.
LEMMA CheapestOffered ==
  ASSUME NEW key, NEW S
  PROVE  Cheapest(key, S) \subseteq S
  BY DEF Cheapest

\* Doubling the suppression interval keeps it within its bounds.
LEMMA DoubledType ==
  ASSUME NEW e \in Entry
  PROVE  [e EXCEPT !.interval = Doubled(@)] \in Entry
<1>1. Doubled(e.interval) \in 1 .. RetxMax
  BY TimeAssumption DEF Doubled, Entry
<1> QED
  BY <1>1 DEF Entry

\* What best route decides is an outcome.
LEMMA BestRouteType ==
  ASSUME NEW e \in Entry, NEW i \in Interests, NEW f \in Faces, NEW u \in SUBSET Faces
  PROVE  BestRoute(e, i, f, u) \subseteq Outcome
<1> DEFINE able == {g \in NextHops(i.key, u) : IsEligible(f, i.key, g)}
           unused == {g \in able : IsUnused(e, g)}
           doubled == [e EXCEPT !.interval = Doubled(@)]
<1>1. able \subseteq Faces /\ unused \subseteq Faces
  BY DEF NextHops
<1>2. Cheapest(i.key, able) \subseteq Faces /\ Cheapest(i.key, unused) \subseteq Faces
  BY <1>1, CheapestOffered
<1>3. Earliest(e, able) \subseteq Faces
  BY <1>1 DEF Earliest
<1>4. doubled \in Entry
  BY DoubledType
<1>5. i.key \in Keys
  BY PacketAssumption
<1>6. Reject(e, i.key, f) \in Outcome /\ Keep(e) \in Outcome /\ Keep(doubled) \in Outcome
  BY <1>4, <1>5, RejectType, KeepType
<1>7. \A g \in Faces : SendInterest(e, i, g) \in Outcome /\ SendInterest(doubled, i, g) \in Outcome
  BY <1>4, SendInterestType
<1> HIDE DEF able, unused, doubled
<1>8. BestRoute(e, i, f, u) =
        IF ~HasPendingOutRecords(e)
        THEN IF able = {}
             THEN {Reject(e, i.key, f)}
             ELSE {SendInterest(e, i, g) : g \in Cheapest(i.key, able)}
        ELSE IF SuppressedPerEntry(e)
             THEN {Keep(e)}
             ELSE IF able = {}
                  THEN {Keep(doubled)}
                  ELSE {SendInterest(doubled, i, g) :
                            g \in IF unused # {} THEN Cheapest(i.key, unused)
                                                 ELSE Earliest(e, able)}
  BY DEF BestRoute, able, unused, doubled
<1> QED
  BY <1>2, <1>3, <1>6, <1>7, <1>8

\* What the first best route decides is an outcome.
LEMMA BestRouteV1Type ==
  ASSUME NEW e \in Entry, NEW i \in Interests, NEW f \in Faces, NEW u \in SUBSET Faces
  PROVE  BestRouteV1(e, i, f, u) \subseteq Outcome
<1> DEFINE able == {g \in NextHops(i.key, u) : /\ ~ViolatesScope(f, i.key, g)
                                               /\ CanForwardToLegacy(e, g)}
<1>1. Cheapest(i.key, able) \subseteq Faces
  BY CheapestOffered DEF NextHops
<1>2. Keep(e) \in Outcome /\ Keep([e EXCEPT !.timer = 0]) \in Outcome
  BY KeepType, TimerType, TimeAssumption
<1>3. \A g \in Faces : SendInterest(e, i, g) \in Outcome
  BY SendInterestType
<1> QED
  BY <1>1, <1>2, <1>3 DEF BestRouteV1

\* What multicast decides is an outcome.
LEMMA MulticastType ==
  ASSUME NEW e \in Entry, NEW i \in Interests, NEW f \in Faces, NEW u \in SUBSET Faces
  PROVE  Multicast(e, i, f, u) \subseteq Outcome
<1> DEFINE suppressed == {g \in NextHops(i.key, u) : SuppressedPerUpstream(e, g)}
           targets == {g \in NextHops(i.key, u) \ suppressed : IsEligible(f, i.key, g)}
           Sent(g) == LET renewed == Renewed(e.out[g], i.nonce, i.life)
                      IN  IF g \in Upstreams(e)
                          THEN [renewed EXCEPT !.interval = Doubled(@)]
                          ELSE renewed
           out == [g \in Faces |-> IF g \in targets THEN Sent(g) ELSE e.out[g]]
           packets == {SentInterest(g, i.key, i.nonce) : g \in targets}
<1>1. i.key \in Keys /\ i.nonce \in Nonces /\ i.life \in Lifetimes
  BY PacketAssumption
<1>2. targets \subseteq Faces
  BY DEF NextHops
<1>3. \A g \in Faces : Renewed(e.out[g], i.nonce, i.life) \in OutRecord
  BY <1>1, RenewedType DEF Entry
<1>4. \A n \in 1 .. RetxMax : Doubled(n) \in 1 .. RetxMax
  BY TimeAssumption DEF Doubled
<1>5. \A r \in OutRecord : [r EXCEPT !.interval = Doubled(@)] \in OutRecord
  BY <1>4 DEF OutRecord
<1>6. \A g \in Faces : Sent(g) \in OutRecord
  BY <1>3, <1>5
<1> HIDE DEF Sent, targets, suppressed
<1>7. out \in [Faces -> OutRecord \cup {NoRecord}]
  BY <1>6 DEF Entry
<1>8. packets \subseteq Transmission
  BY <1>1, <1>2 DEF SentInterest, Transmission
<1> HIDE DEF out, packets
<1>9. [entry |-> [e EXCEPT !.out = out], sent |-> packets] \in Outcome
  <2>1. [e EXCEPT !.out = out] \in Entry
    BY <1>7 DEF Entry
  <2> QED
    BY <2>1, <1>8 DEF Outcome
<1>10. Reject(e, i.key, f) \in Outcome
  BY <1>1, RejectType
<1>11. Multicast(e, i, f, u) =
         IF targets = {} /\ suppressed = {}
         THEN {Reject(e, i.key, f)}
         ELSE {[entry |-> [e EXCEPT !.out = out], sent |-> packets]}
  BY DEF Multicast, suppressed, targets, Sent, out, packets
<1> QED
  BY <1>9, <1>10, <1>11

\* What the random strategy decides is an outcome.
LEMMA RandomHopType ==
  ASSUME NEW e \in Entry, NEW i \in Interests, NEW f \in Faces, NEW u \in SUBSET Faces
  PROVE  RandomHop(e, i, f, u) \subseteq Outcome
<1>1. NextHops(i.key, u) \subseteq Faces
  BY DEF NextHops
<1>2. Reject(e, i.key, f) \in Outcome
  BY RejectType, PacketAssumption
<1>3. \A g \in Faces : SendInterest(e, i, g) \in Outcome
  BY SendInterestType
<1> QED
  BY <1>1, <1>2, <1>3 DEF RandomHop

\* Hence so is what any strategy decides on an Interest.
LEMMA AfterReceiveInterestType ==
  ASSUME NEW e \in Entry, NEW i \in Interests, NEW f \in Faces, NEW u \in SUBSET Faces
  PROVE  AfterReceiveInterest(e, i, f, u) \subseteq Outcome
<1>1. StrategyOf[i.key] \in StrategyNames
  BY RouteAssumption, PacketAssumption
<1> QED
  BY <1>1, BestRouteType, BestRouteV1Type, MulticastType, RandomHopType
  DEF AfterReceiveInterest, StrategyNames

\* What a strategy decides on a Nack is an outcome (processNack).
LEMMA AfterReceiveNackType ==
  ASSUME NEW e \in Entry, NEW key \in Keys
  PROVE  AfterReceiveNack(e, key) \subseteq Outcome
<1>1. \A f \in Upstreams(e) : e.out[f].nack # NotNacked => e.out[f].nack \in Reasons
  BY DEF Upstreams, Entry, OutRecord
<1>2. ProcessNack(e, key) \subseteq Outcome
  <2> DEFINE waiting == {f \in Upstreams(e) : e.out[f].nack = NotNacked}
             reasons == {e.out[f].nack : f \in Upstreams(e) \ waiting}
  <2>1. reasons \subseteq Reasons
    BY <1>1
  <2>2. \A o \in ProcessNack(e, key) : \E r \in reasons : \E S : o = SendNacks(e, key, S, r)
    BY DEF ProcessNack
  <2> QED
    BY <2>1, <2>2, SendNacksType
<1> QED
  BY <1>2, KeepType DEF AfterReceiveNack

\* What a strategy does with Data is an outcome (sendDataToAll).
LEMMA AfterReceiveDataType ==
  ASSUME NEW e \in Entry, NEW d \in DataPackets, NEW f \in Faces
  PROVE  AfterReceiveData(e, d, f) \in Outcome
<1>1. \A g \in Faces : SentData(g, d) \in Transmission
  BY DEF SentData, Transmission
<1>2. PendingDownstreams(e) \subseteq Faces
  BY DEF PendingDownstreams, Downstreams
<1> QED
  BY <1>1, <1>2, WithoutInType DEF AfterReceiveData, OutgoingData, Outcome

\* Answering from the Content Store is an outcome.
LEMMA AfterContentStoreHitType ==
  ASSUME NEW e \in Entry, NEW d \in DataPackets, NEW f \in Faces
  PROVE  AfterContentStoreHit(e, d, f) \in Outcome
<1>1. SentData(f, d) \in Transmission
  BY DEF SentData, Transmission
<1> QED
  BY <1>1, WithoutInType DEF AfterContentStoreHit, OutgoingData, Outcome

(***************************************************************************)
(* What a strategy leaves of an entry.  Whatever it decides, it adds no    *)
(* downstream, changes no in-record, turns only faces of the face table    *)
(* into upstreams, and leaves the timer alone or makes the entry due.      *)
(***************************************************************************)
Obeys(e, u, x) ==
    /\ \A f \in Faces : x.in[f] \in {e.in[f], NoRecord}
    /\ x.timer \in {e.timer, 0}
    /\ Upstreams(x) \subseteq Upstreams(e) \cup u

\* An entry left alone obeys.
LEMMA ObeysSame == ASSUME NEW e, NEW u PROVE Obeys(e, u, e)
  BY DEF Obeys

\* Making an entry due obeys.
LEMMA DueObeys ==
  ASSUME NEW e \in Entry, NEW u, NEW x \in Entry, Obeys(e, u, x)
  PROVE  Obeys(e, u, [x EXCEPT !.timer = 0])
  BY DEF Obeys, Entry, Upstreams

\* So does an entry whose suppression interval is doubled.
LEMMA DoubledObeys ==
  ASSUME NEW e \in Entry, NEW u
  PROVE  Obeys(e, u, [e EXCEPT !.interval = Doubled(@)])
  BY DEF Obeys, Entry, Upstreams

\* So does an entry that loses in-records.
LEMMA WithoutInObeys ==
  ASSUME NEW e \in Entry, NEW u, NEW S
  PROVE  Obeys(e, u, WithoutIn(e, S))
  BY DEF Obeys, Entry, Upstreams, WithoutIn

\* So does one whose downstreams are sent Nacks.
LEMMA SendNacksObeys ==
  ASSUME NEW e \in Entry, NEW u, NEW key, NEW S, NEW reason
  PROVE  Obeys(e, u, SendNacks(e, key, S, reason).entry)
  BY WithoutInObeys DEF SendNacks

\* So does one that is rejected.
LEMMA RejectObeys ==
  ASSUME NEW e \in Entry, NEW u, NEW key \in Keys, NEW f
  PROVE  Obeys(e, u, Reject(e, key, f).entry)
<1> DEFINE o == SendNacks(e, key, {f}, "no-route")
<1>1. o \in Outcome /\ Obeys(e, u, o.entry)
  BY SendNacksType, SendNacksObeys DEF Reasons
<1>2. Reject(e, key, f) = [o EXCEPT !.entry = [o.entry EXCEPT !.timer = 0]]
  BY DEF Reject
<1>3. Reject(e, key, f).entry = [o.entry EXCEPT !.timer = 0]
  BY <1>1, <1>2 DEF Outcome
<1> QED
  BY <1>1, <1>3, DueObeys DEF Outcome

\* Sending to a face of the face table adds no other upstream.
LEMMA SendInterestObeys ==
  ASSUME NEW e \in Entry, NEW u, NEW x \in Entry, Obeys(e, u, x), NEW i, NEW g \in u \cap Faces
  PROVE  Obeys(e, u, SendInterest(x, i, g).entry)
<1>1. SendInterest(x, i, g).entry = [x EXCEPT !.out = [x.out EXCEPT ![g] = Renewed(x.out[g], i.nonce, i.life)]]
  BY DEF SendInterest, WithOutRecord
<1> QED
  BY <1>1 DEF Obeys, Entry, Upstreams

\* Best route sends to faces of the face table only.
LEMMA BestRouteObeys ==
  ASSUME NEW e \in Entry, NEW i \in Interests, NEW f \in Faces, NEW u \in SUBSET Faces,
         NEW o \in BestRoute(e, i, f, u)
  PROVE  Obeys(e, u, o.entry)
<1> DEFINE able == {g \in NextHops(i.key, u) : IsEligible(f, i.key, g)}
           unused == {g \in able : IsUnused(e, g)}
           doubled == [e EXCEPT !.interval = Doubled(@)]
<1>1. able \subseteq u /\ unused \subseteq u
  BY DEF NextHops
<1>2. Cheapest(i.key, able) \subseteq u /\ Cheapest(i.key, unused) \subseteq u
  BY <1>1, CheapestOffered
<1>3. Earliest(e, able) \subseteq u
  BY <1>1 DEF Earliest
<1>4. doubled \in Entry /\ Obeys(e, u, doubled) /\ Obeys(e, u, e)
  BY DoubledType, DoubledObeys, ObeysSame
<1>5. Obeys(e, u, Reject(e, i.key, f).entry)
  BY RejectObeys, PacketAssumption
<1> HIDE DEF able, unused, doubled
<1>6. \A g \in u : /\ Obeys(e, u, SendInterest(e, i, g).entry)
                   /\ Obeys(e, u, SendInterest(doubled, i, g).entry)
  BY <1>4, SendInterestObeys
<1>7. \/ o = Reject(e, i.key, f)
      \/ o = Keep(e)
      \/ o = Keep(doubled)
      \/ \E g \in Cheapest(i.key, able) : o = SendInterest(e, i, g)
      \/ \E g \in Cheapest(i.key, unused) \cup Earliest(e, able) :
            o = SendInterest(doubled, i, g)
  BY DEF BestRoute, able, unused, doubled
<1> QED
  BY <1>2, <1>3, <1>4, <1>5, <1>6, <1>7 DEF Keep

\* So does the first best route.
LEMMA BestRouteV1Obeys ==
  ASSUME NEW e \in Entry, NEW i \in Interests, NEW f \in Faces, NEW u \in SUBSET Faces,
         NEW o \in BestRouteV1(e, i, f, u)
  PROVE  Obeys(e, u, o.entry)
<1>1. \/ o = Keep(e)
      \/ o = Keep([e EXCEPT !.timer = 0])
      \/ \E g \in u : o = SendInterest(e, i, g)
  BY CheapestOffered DEF BestRouteV1, NextHops
<1>2. Obeys(e, u, e) /\ Obeys(e, u, [e EXCEPT !.timer = 0])
  BY ObeysSame, DueObeys
<1> QED
  BY <1>1, <1>2, SendInterestObeys DEF Keep

\* So does multicast.
LEMMA MulticastObeys ==
  ASSUME NEW e \in Entry, NEW i \in Interests, NEW f \in Faces, NEW u \in SUBSET Faces,
         NEW o \in Multicast(e, i, f, u)
  PROVE  Obeys(e, u, o.entry)
<1>1. ASSUME o = Reject(e, i.key, f) PROVE Obeys(e, u, o.entry)
  BY <1>1, RejectObeys, PacketAssumption
<1>2. ASSUME NEW out, NEW S, NEW targets \in SUBSET u, o = [entry |-> [e EXCEPT !.out = out], sent |-> S],
             out \in [Faces -> OutRecord \cup {NoRecord}],
             \A g \in Faces \ targets : out[g] = e.out[g]
      PROVE  Obeys(e, u, o.entry)
  BY <1>2 DEF Obeys, Entry, Upstreams
<1> DEFINE suppressed == {g \in NextHops(i.key, u) : SuppressedPerUpstream(e, g)}
           targets == {g \in NextHops(i.key, u) \ suppressed : IsEligible(f, i.key, g)}
<1>3. CASE targets = {} /\ suppressed = {}
  BY <1>1, <1>3 DEF Multicast
<1>4. CASE ~(targets = {} /\ suppressed = {})
  <2>1. targets \in SUBSET u
    BY DEF NextHops
  <2> HIDE DEF targets, suppressed
  <2>2. \E out, S : /\ o = [entry |-> [e EXCEPT !.out = out], sent |-> S]
                    /\ \A g \in Faces \ targets : out[g] = e.out[g]
    BY <1>4 DEF Multicast, targets, suppressed
  <2>3. o.entry \in Entry
    BY MulticastType DEF Outcome
  <2>4. \A out : [e EXCEPT !.out = out].out = out
    BY DEF Entry
  <2> QED
    BY <1>2, <2>1, <2>2, <2>3, <2>4 DEF Entry
<1> QED
  BY <1>3, <1>4

\* Hence every strategy obeys when an Interest comes.
LEMMA AfterReceiveInterestObeys ==
  ASSUME NEW e \in Entry, NEW i \in Interests, NEW f \in Faces, NEW u \in SUBSET Faces,
         NEW o \in AfterReceiveInterest(e, i, f, u)
  PROVE  Obeys(e, u, o.entry)
<1>1. ASSUME o \in RandomHop(e, i, f, u) PROVE Obeys(e, u, o.entry)
  <2>1. o = Reject(e, i.key, f) \/ \E g \in u : o = SendInterest(e, i, g)
    BY <1>1 DEF RandomHop, NextHops
  <2> QED
    BY <2>1, ObeysSame, RejectObeys, SendInterestObeys, PacketAssumption
<1>2. StrategyOf[i.key] \in StrategyNames
  BY RouteAssumption, PacketAssumption
<1> QED
  BY <1>1, <1>2, BestRouteObeys, BestRouteV1Obeys, MulticastObeys
  DEF AfterReceiveInterest, StrategyNames

\* And when a Nack comes.
LEMMA AfterReceiveNackObeys ==
  ASSUME NEW e \in Entry, NEW key \in Keys, NEW u, NEW o \in AfterReceiveNack(e, key)
  PROVE  Obeys(e, u, o.entry)
<1>1. o = Keep(e) \/ \E S, r : o = SendNacks(e, key, S, r)
  BY DEF AfterReceiveNack, ProcessNack
<1> QED
  BY <1>1, ObeysSame, SendNacksObeys DEF Keep

(***************************************************************************)
(* Type correctness.                                                       *)
(***************************************************************************)
\* An entry, found or made for an Interest, is an entry.
LEMMA EntryOfType ==
  ASSUME TypeOK, NEW k \in Keys
  PROVE  /\ EntryOf(k) \in Entry
         /\ pit[k] # NoEntry => pit[k] \in Entry
  BY NewEntryType DEF EntryOf, TypeOK

\* Only Nonces of this forwarder die.
LEMMA DeadNoncesType ==
  ASSUME NEW k \in Keys, NEW e \in Entry, NEW S
  PROVE  DeadNonces(k, e, S) \subseteq Names \X Nonces
<1>1. k.name \in Names
  BY DEF Names
<1>2. \A f \in Upstreams(e) : e.out[f].nonce \in Nonces
  BY DEF Upstreams, Entry, OutRecord
<1> QED
  BY <1>1, <1>2 DEF DeadNonces

\* The timer set on a miss is one: an in-record that has just been made has not
\* expired.
LEMMA MissTimer ==
  ASSUME TypeOK, NEW f \in Faces, NEW i \in Interests,
         NEW t \in LastExpiry(WithInRecord(EntryOf(i.key), f, i.nonce, i.life))
  PROVE  [WithInRecord(EntryOf(i.key), f, i.nonce, i.life) EXCEPT !.timer = t] \in Entry
<1> DEFINE e == WithInRecord(EntryOf(i.key), f, i.nonce, i.life)
<1>1. i.key \in Keys /\ i.nonce \in Nonces /\ i.life \in Lifetimes
  BY PacketAssumption
<1>2. e \in Entry
  BY <1>1, EntryOfType, WithInRecordType
<1>3. f \in Downstreams(e) /\ e.in[f].left = i.life
  BY <1>1, EntryOfType, NoRecordAssumption, TimeAssumption, PacketAssumption
  DEF WithInRecord, Downstreams, Entry, InRecord, Left, Expired
<1>4. t >= i.life
  BY <1>3 DEF LastExpiry
<1>5. t \in Left
  BY <1>2 DEF LastExpiry, Downstreams, Entry, InRecord
<1>6. i.life \in Nat /\ MaxAge \in Nat
  BY <1>1, TimeAssumption, PacketAssumption
<1>7. t \in 0 .. MaxAge
  BY <1>4, <1>5, <1>6 DEF Left, Expired
<1> QED
  BY <1>2, <1>7, TimerType

\* A Nack is noted on an out-record, and on nothing else.
LEMMA NackedType ==
  ASSUME NEW e \in Entry, NEW f \in Upstreams(e), NEW r \in NackReasons, NEW u
  PROVE  /\ [e EXCEPT !.out[f].nack = r] \in Entry
         /\ Obeys(e, u, [e EXCEPT !.out[f].nack = r])
<1> DEFINE record == [e.out[f] EXCEPT !.nack = r]
           out == [e.out EXCEPT ![f] = record]
<1>1. [e EXCEPT !.out[f].nack = r] = [e EXCEPT !.out = out]
  OBVIOUS
<1>2. f \in Faces /\ record \in OutRecord
  BY LimitAssumption DEF Upstreams, Entry, OutRecord
<1> HIDE DEF record
<1>3. out \in [Faces -> OutRecord \cup {NoRecord}] /\ \A g \in Faces : out[g] # NoRecord => e.out[g] # NoRecord
  BY <1>2 DEF Entry, Upstreams
<1> HIDE DEF out
<1>4. [e EXCEPT !.out = out] \in Entry /\ Obeys(e, u, [e EXCEPT !.out = out])
  BY <1>3 DEF Entry, Obeys, Upstreams
<1> QED
  BY <1>1, <1>4

\* Scheduling a reduction counts one call more, or none.
LEMMA ScheduleReductionType ==
  ASSUME TypeOK, NEW d, ScheduleReduction(d)
  PROVE  reductions' \in [0 .. ReductionDelay -> Nat]
<1>1. ReductionDelay \in 0 .. ReductionDelay
  BY LimitAssumption
<1> QED
  BY <1>1 DEF ScheduleReduction, TypeOK

\* What the Content Store inserts is stale or fresh.
LEMMA CsInsertType ==
  ASSUME TypeOK, NEW d \in DataPackets, CsInsert(d)
  PROVE  cs' \in [DataPackets -> Cached]
  BY DEF CsInsert, TypeOK, Cached

\* Every step keeps the types, one action after the other.
LEMMA TypeStep == TypeOK /\ [Next]_vars => TypeOK'
<1> SUFFICES ASSUME TypeOK, [Next]_vars PROVE TypeOK'
  OBVIOUS
<1> USE DEF TypeOK
<1>1. ASSUME NEW f \in Faces, NEW i \in Interests, DropInterest(f, i) PROVE TypeOK'
  BY <1>1 DEF DropInterest
<1>2. ASSUME NEW f \in Faces, NEW i \in Interests, LoopInterest(f, i) PROVE TypeOK'
  <2>1. i.key \in Keys /\ i.nonce \in Nonces
    BY PacketAssumption
  <2>2. sent' \subseteq Transmission
    BY <1>2, <2>1 DEF LoopInterest, SentNack, Transmission, Reasons
  <2> QED
    BY <1>2, <2>2 DEF LoopInterest
<1>3. ASSUME NEW f \in Faces, NEW i \in Interests, NEW d \in DataPackets, HitInterest(f, i, d)
      PROVE  TypeOK'
  <2> DEFINE e == [Satisfied(EntryOf(i.key), d) EXCEPT !.timer = 0]
             o == AfterContentStoreHit(e, d, f)
  <2>1. i.key \in Keys
    BY PacketAssumption
  <2>2. Satisfied(EntryOf(i.key), d) \in Entry
    BY <2>1, EntryOfType, SatisfiedType
  <2>3. e \in Entry
    BY <2>2, TimerType, TimeAssumption
  <2>4. o \in Outcome
    BY <2>3, AfterContentStoreHitType
  <2>5. o.entry \in Entry /\ o.sent \subseteq Transmission
    BY <2>4 DEF Outcome
  <2>6. pit' = [pit EXCEPT ![i.key] = o.entry] /\ sent' = o.sent
    BY <1>3 DEF HitInterest
  <2> QED
    BY <1>3, <2>1, <2>5, <2>6 DEF HitInterest
<1>4. ASSUME NEW f \in Faces, NEW i \in Interests, MissInterest(f, i) PROVE TypeOK'
  <2> DEFINE e == WithInRecord(EntryOf(i.key), f, i.nonce, i.life)
  <2>1. i.key \in Keys /\ i.nonce \in Nonces /\ i.life \in Lifetimes
    BY PacketAssumption
  <2>2. e \in Entry
    BY <2>1, EntryOfType, WithInRecordType
  <2>3. PICK t \in LastExpiry(e) : \E o \in MissOutcomes([e EXCEPT !.timer = t], i, f) :
                 pit' = [pit EXCEPT ![i.key] = o.entry] /\ sent' = o.sent
    BY <1>4 DEF MissInterest
  <2>5. [e EXCEPT !.timer = t] \in Entry
    BY MissTimer
  <2>6. MissOutcomes([e EXCEPT !.timer = t], i, f) \subseteq Outcome
    BY <2>5, AfterReceiveInterestType, SendInterestType, KeepType DEF MissOutcomes
  <2>7. PICK o \in Outcome : pit' = [pit EXCEPT ![i.key] = o.entry] /\ sent' = o.sent
    BY <2>3, <2>6
  <2> QED
    BY <1>4, <2>1, <2>7 DEF MissInterest, Outcome
<1>5. ASSUME NEW f \in Faces, NEW d \in DataPackets, StrayData(f, d) PROVE TypeOK'
  BY <1>5, ScheduleReductionType, CsInsertType DEF StrayData, DataUnsolicited
<1>6. ASSUME NEW f \in Faces, NEW d \in DataPackets, SatisfyOne(f, d) PROVE TypeOK'
  <2>1. PICK k \in Keys :
          /\ DataMatches(d) = {k}
          /\ LET o == AfterReceiveData([pit[k] EXCEPT !.timer = 0], d, f)
                 e == Satisfied(o.entry, d)
             IN  /\ pit' = [pit EXCEPT ![k] = WithoutOut(e, {f})]
                 /\ dnl' = dnl \cup DeadNonces(k, e, {f})
                 /\ sent' = o.sent
    BY <1>6 DEF SatisfyOne
  <2> DEFINE o == AfterReceiveData([pit[k] EXCEPT !.timer = 0], d, f)
             e == Satisfied(o.entry, d)
  <2>2. pit[k] \in Entry
    BY <2>1, EntryOfType DEF DataMatches, Pending
  <2>3. o \in Outcome
    BY <2>2, TimerType, TimeAssumption, AfterReceiveDataType
  <2>4. e \in Entry /\ o.sent \subseteq Transmission
    BY <2>3, SatisfiedType DEF Outcome
  <2>5. WithoutOut(e, {f}) \in Entry /\ DeadNonces(k, e, {f}) \subseteq Names \X Nonces
    BY <2>4, WithoutOutType, DeadNoncesType
  <2>6. cs' \in [DataPackets -> Cached] /\ reductions' \in [0 .. ReductionDelay -> Nat]
    BY <1>6, ScheduleReductionType, CsInsertType DEF SatisfyOne
  <2> HIDE DEF o, e
  <2>7. pit' = [pit EXCEPT ![k] = WithoutOut(e, {f})] /\ dnl' = dnl \cup DeadNonces(k, e, {f})
        /\ sent' = o.sent
    BY <2>1 DEF o, e
  <2>8. up' = up /\ quota' = quota
    BY <1>6 DEF SatisfyOne
  <2> QED
    BY <2>4, <2>5, <2>6, <2>7, <2>8
<1>7. ASSUME NEW f \in Faces, NEW b \in BOOLEAN, NEW d \in DataPackets, SatisfyMany(f, b, d)
      PROVE  TypeOK'
  <2>1. \A k \in DataMatches(d) : k \in Keys /\ pit[k] \in Entry
    BY EntryOfType DEF DataMatches, Pending
  <2>2. \A k \in DataMatches(d) : Satisfied(pit[k], d) \in Entry
    BY <2>1, SatisfiedType
  <2>3. \A k \in DataMatches(d) : SatisfiedTogether(pit[k], d, f) \in Entry
    BY <2>2, TimerType, TimeAssumption, WithoutOutType, WithoutInType DEF SatisfiedTogether
  <2>4. pit' \in [Keys -> Entry \cup {NoEntry}]
    BY <1>7, <2>3 DEF SatisfyMany
  <2>5. \A k \in DataMatches(d) : DeadNonces(k, Satisfied(pit[k], d), {f}) \subseteq Names \X Nonces
    BY <2>1, <2>2, DeadNoncesType
  <2>6. dnl' \subseteq Names \X Nonces
    BY <1>7, <2>5 DEF SatisfyMany
  <2>7. sent' \subseteq Transmission
    <3>1. \A k \in DataMatches(d) : PendingDownstreams(pit[k]) \subseteq Faces
      BY DEF PendingDownstreams, Downstreams
    <3>2. \A S \in SUBSET Faces : OutgoingData(d, S) \subseteq Transmission
      BY DEF OutgoingData, SentData, Transmission
    <3> QED
      BY <1>7, <3>1, <3>2 DEF SatisfyMany
  <2>8. cs' \in [DataPackets -> Cached] /\ reductions' \in [0 .. ReductionDelay -> Nat]
    BY <1>7, ScheduleReductionType, CsInsertType DEF SatisfyMany
  <2>9. up' = up /\ quota' = quota
    BY <1>7 DEF SatisfyMany
  <2> QED
    BY <2>4, <2>6, <2>7, <2>8, <2>9
<1>8. ASSUME NEW f \in Faces, NEW k \in Keys, NEW n \in Nonces, NEW r \in NackReasons,
             ReceiveNack(f, k, n, r)
      PROVE  TypeOK'
  <2> DEFINE e == [pit[k] EXCEPT !.out[f].nack = r]
             timed == IF HasPendingOutRecords(e) THEN e ELSE [e EXCEPT !.timer = 0]
  <2>1. pit[k] \in Entry /\ f \in Upstreams(pit[k])
    BY <1>8, EntryOfType DEF ReceiveNack, NackAccepted
  <2>3. e \in Entry
    BY <2>1, NackedType
  <2> HIDE DEF e
  <2>4. timed \in Entry
    BY <2>3, TimerType, TimeAssumption
  <2>5. AfterReceiveNack(timed, k) \subseteq Outcome
    BY <2>4, AfterReceiveNackType
  <2>6. PICK o \in AfterReceiveNack(timed, k) : pit' = [pit EXCEPT ![k] = o.entry] /\ sent' = o.sent
    BY <1>8 DEF ReceiveNack, e
  <2> QED
    BY <1>8, <2>5, <2>6 DEF ReceiveNack, Outcome
<1>9. ASSUME NEW k \in Keys, FinalizeInterest(k) PROVE TypeOK'
  <2>1. DeadNonces(k, pit[k], Faces) \subseteq Names \X Nonces
    BY <1>9, EntryOfType, DeadNoncesType DEF FinalizeInterest, Pending
  <2> QED
    BY <1>9, <2>1 DEF FinalizeInterest
<1>10. ASSUME ReducePit PROVE TypeOK'
  <2>1. Pending \in SUBSET Keys /\ IsFiniteSet(Keys)
    BY LimitAssumption DEF Pending
  <2>2. Counted \in SUBSET Keys
    BY DEF Counted, Pending
  <2>3. Cardinality(Counted) \in Nat
    BY <2>1, <2>2, FS_Subset, FS_CardinalityType
  <2>4. Cardinality(Counted) \div 2 \in Nat
    BY <2>3
  <2>5. reductions' \in [0 .. ReductionDelay -> Nat]
    BY <1>10, LimitAssumption DEF ReducePit
  <2> QED
    BY <1>10, <2>4, <2>5 DEF ReducePit
<1>11. ASSUME Tick PROVE TypeOK'
  <2>1. \A k \in Keys : pit[k] # NoEntry => Aged(pit[k]) \in Entry
    BY <1>11, EntryOfType, AgedType DEF Tick, Pending
  <2>2. pit' \in [Keys -> Entry \cup {NoEntry}]
    BY <1>11, <2>1 DEF Tick
  <2>3. reductions' \in [0 .. ReductionDelay -> Nat]
    BY <1>11, LimitAssumption DEF Tick
  <2> QED
    BY <1>11, <2>2, <2>3 DEF Tick
<1>12. ASSUME NEW f \in Faces, RemoveFace(f) PROVE TypeOK'
  <2>1. \A k \in Keys : pit[k] # NoEntry => WithoutIn(WithoutOut(pit[k], {f}), {f}) \in Entry
    BY EntryOfType, WithoutInType, WithoutOutType
  <2> QED
    BY <1>12, <2>1 DEF RemoveFace
<1>13. ASSUME NEW d \in DataPackets, AgeContent(d) PROVE TypeOK'
  BY <1>13 DEF AgeContent, Cached
<1>14. ASSUME NEW dead \in Names \X Nonces, ForgetNonce(dead) PROVE TypeOK'
  BY <1>14 DEF ForgetNonce
<1>15. CASE UNCHANGED vars
  BY <1>15 DEF vars
<1> QED
  BY <1>1, <1>2, <1>3, <1>4, <1>5, <1>6, <1>7, <1>8, <1>9, <1>10, <1>11, <1>12, <1>13,
     <1>14, <1>15 DEF Next

\* In every state the PIT, the caches, the schedule and what is sent have their types.
THEOREM TypeCorrect == Spec => []TypeOK
<1>1. Init => TypeOK
  BY NewEntryType, LimitAssumption DEF Init, TypeOK, Cached
<1> QED
  BY <1>1, TypeStep, PTL DEF Spec

(***************************************************************************)
(* What a step makes of one entry: it is gone, or kept, or a tick older,   *)
(* or an Interest has asked for it, or the Content Store has answered it.  *)
(***************************************************************************)
KeptEntry(k) ==
    /\ pit[k] # NoEntry
    /\ Obeys(pit[k], up, pit'[k])
    /\ pit'[k] # NoEntry

AgedEntry(k) ==
    /\ Tick
    /\ pit[k] # NoEntry
    /\ pit'[k] = Aged(pit[k])

AskedEntry(k) ==
    \E f \in up \cap Faces, i \in Interests :
        /\ i.key = k
        /\ Admitted(f, i)
        /\ ~IsLoop(f, i)
        /\ UNCHANGED up
        /\ LET e == WithInRecord(EntryOf(k), f, i.nonce, i.life)
           IN  \E t \in LastExpiry(e) : Obeys([e EXCEPT !.timer = t], up, pit'[k])

AnsweredEntry(k) ==
    /\ Downstreams(EntryOf(k)) = {}
    /\ pit'[k].timer = 0
    /\ UNCHANGED up
    /\ Obeys([EntryOf(k) EXCEPT !.timer = 0], up, pit'[k])

\* The other entries of a step that changes only that of key.
LEMMA OthersKept ==
  ASSUME TypeOK, NEW key \in Keys, NEW k \in Keys, NEW x, k # key,
         pit' = [pit EXCEPT ![key] = x]
  PROVE  pit'[k] = NoEntry \/ KeptEntry(k)
<1>1. pit'[k] = pit[k]
  BY DEF TypeOK
<1> QED
  BY <1>1, ObeysSame DEF KeptEntry

\* Every step leaves each entry in one of these five ways; the invariants about records
\* need look at no more than that.
LEMMA EntryStep ==
  ASSUME TypeOK, [Next]_vars, NEW k \in Keys
  PROVE  pit'[k] = NoEntry \/ KeptEntry(k) \/ AgedEntry(k) \/ AskedEntry(k) \/ AnsweredEntry(k)
<1> DEFINE Goal == \/ pit'[k] = NoEntry \/ KeptEntry(k) \/ AgedEntry(k) \/ AskedEntry(k)
                   \/ AnsweredEntry(k)
<1>1. ASSUME pit' = pit PROVE Goal
  BY <1>1, ObeysSame DEF KeptEntry
<1>2. ASSUME NEW f \in Faces, NEW i \in Interests, NEW d \in DataPackets, HitInterest(f, i, d)
      PROVE  Goal
  <2> DEFINE e == [Satisfied(EntryOf(i.key), d) EXCEPT !.timer = 0]
             o == AfterContentStoreHit(e, d, f)
  <2>1. i.key \in Keys
    BY PacketAssumption
  <2>2. pit' = [pit EXCEPT ![i.key] = o.entry]
    BY <1>2 DEF HitInterest
  <2>3. CASE k # i.key
    BY <2>1, <2>2, <2>3, OthersKept
  <2>4. CASE k = i.key
    <3>1. EntryOf(k) \in Entry /\ Satisfied(EntryOf(k), d) \in Entry
      BY EntryOfType, SatisfiedType
    <3>2. e \in Entry /\ e.timer = 0 /\ Obeys([EntryOf(k) EXCEPT !.timer = 0], up, e)
      <4>1. e \in Entry
        BY <2>4, <3>1, TimerType, TimeAssumption
      <4>2. e.timer = 0 /\ e.in = EntryOf(k).in /\ e.out = EntryOf(k).out
        BY <2>4, <3>1 DEF Entry, Satisfied
      <4> HIDE DEF e
      <4> QED
        BY <3>1, <4>1, <4>2 DEF Obeys, Entry, Upstreams
    <3>3. pit'[k] = WithoutIn(e, {f})
      BY <2>2, <2>4 DEF TypeOK, AfterContentStoreHit
    <3> HIDE DEF e
    <3>4. pit'[k].timer = 0 /\ Obeys([EntryOf(k) EXCEPT !.timer = 0], up, pit'[k])
      BY <3>2, <3>3 DEF Obeys, Entry, WithoutIn, Upstreams
    <3> QED
      BY <1>2, <2>4, <3>4 DEF AnsweredEntry, HitInterest
  <2> QED
    BY <2>3, <2>4
<1>3. ASSUME NEW f \in Faces, NEW i \in Interests, MissInterest(f, i) PROVE Goal
  <2> DEFINE e == WithInRecord(EntryOf(i.key), f, i.nonce, i.life)
  <2>1. i.key \in Keys
    BY PacketAssumption
  <2>2. PICK t \in LastExpiry(e) : \E o \in MissOutcomes([e EXCEPT !.timer = t], i, f) :
                 pit' = [pit EXCEPT ![i.key] = o.entry]
    BY <1>3 DEF MissInterest
  <2>3. PICK o \in MissOutcomes([e EXCEPT !.timer = t], i, f) :
                 pit' = [pit EXCEPT ![i.key] = o.entry]
    BY <2>2
  <2>4. CASE k # i.key
    BY <2>1, <2>3, <2>4, OthersKept
  <2>5. CASE k = i.key
    <3>1. [e EXCEPT !.timer = t] \in Entry
      BY <2>1, MissTimer DEF InterestArrives
    <3>2. Obeys([e EXCEPT !.timer = t], up, o.entry)
      <4>1. CASE i.via = NoFace
        BY <2>3, <3>1, <4>1, AfterReceiveInterestObeys DEF MissOutcomes, TypeOK
      <4>2. CASE i.via # NoFace /\ i.via \in up
        BY <2>3, <3>1, <4>2, SendInterestObeys, ObeysSame DEF MissOutcomes, TypeOK
      <4>3. CASE i.via # NoFace /\ i.via \notin up
        BY <2>3, <4>3, ObeysSame DEF MissOutcomes, Keep
      <4> QED
        BY <4>1, <4>2, <4>3
    <3>3. Obeys([e EXCEPT !.timer = t], up, pit'[k])
      BY <2>1, <2>3, <2>5, <3>2 DEF TypeOK
    <3> QED
      BY <1>3, <2>5, <3>3 DEF AskedEntry, MissInterest, InterestArrives
  <2> QED
    BY <2>4, <2>5
<1>4. ASSUME NEW f \in Faces, NEW d \in DataPackets, SatisfyOne(f, d) PROVE Goal
  <2>1. PICK key \in Keys :
          /\ DataMatches(d) = {key}
          /\ LET o == AfterReceiveData([pit[key] EXCEPT !.timer = 0], d, f)
             IN  pit' = [pit EXCEPT ![key] = WithoutOut(Satisfied(o.entry, d), {f})]
    BY <1>4 DEF SatisfyOne
  <2>2. CASE k # key
    BY <2>1, <2>2, OthersKept
  <2>3. CASE k = key
    <3> DEFINE e == [pit[k] EXCEPT !.timer = 0]
    <3>1. pit[k] \in Entry /\ pit[k] # NoEntry
      BY <2>1, <2>3, EntryOfType DEF DataMatches, Pending
    <3>2. e \in Entry /\ Obeys(pit[k], up, e)
      <4>1. e \in Entry
        BY <3>1, TimerType, TimeAssumption
      <4>2. Obeys(pit[k], up, pit[k])
        BY ObeysSame
      <4> QED
        BY <3>1, <4>1, <4>2, DueObeys
    <3>3. PICK S : pit'[k] = WithoutOut(Satisfied(WithoutIn(e, S), d), {f})
      BY <2>1, <2>3 DEF TypeOK, AfterReceiveData
    <3> HIDE DEF e
    <3>4. pit'[k] \in Entry
      BY <3>2, <3>3, WithoutInType, SatisfiedType, WithoutOutType
    <3>5. Obeys(pit[k], up, pit'[k])
      BY <3>2, <3>3 DEF Obeys, Entry, WithoutIn, WithoutOut, Satisfied, Upstreams
    <3> QED
      BY <3>1, <3>4, <3>5, NoEntryAssumption DEF KeptEntry
  <2> QED
    BY <2>2, <2>3
<1>5. ASSUME NEW f \in Faces, NEW b \in BOOLEAN, NEW d \in DataPackets, SatisfyMany(f, b, d)
      PROVE  Goal
  <2>1. pit'[k] = IF k \in DataMatches(d) THEN SatisfiedTogether(pit[k], d, f) ELSE pit[k]
    BY <1>5 DEF SatisfyMany
  <2>2. CASE k \notin DataMatches(d)
    BY <2>1, <2>2, ObeysSame DEF KeptEntry
  <2>3. CASE k \in DataMatches(d)
    <3>1. pit[k] \in Entry /\ pit[k] # NoEntry
      BY <2>3, EntryOfType DEF DataMatches, Pending
    <3>2. Satisfied(pit[k], d) \in Entry
      BY <3>1, SatisfiedType
    <3>3. SatisfiedTogether(pit[k], d, f) \in Entry
      BY <3>2, TimerType, TimeAssumption, WithoutOutType, WithoutInType DEF SatisfiedTogether
    <3>4. Obeys(pit[k], up, SatisfiedTogether(pit[k], d, f))
      BY <3>1 DEF Obeys, Entry, SatisfiedTogether, Satisfied, WithoutIn, WithoutOut, Upstreams
    <3> QED
      BY <2>1, <2>3, <3>1, <3>3, <3>4, NoEntryAssumption DEF KeptEntry
  <2> QED
    BY <2>2, <2>3
<1>6. ASSUME NEW f \in Faces, NEW key \in Keys, NEW n \in Nonces, NEW r \in NackReasons,
             ReceiveNack(f, key, n, r)
      PROVE  Goal
  <2> DEFINE e == [pit[key] EXCEPT !.out[f].nack = r]
             timed == IF HasPendingOutRecords(e) THEN e ELSE [e EXCEPT !.timer = 0]
  <2>1. pit[key] \in Entry /\ pit[key] # NoEntry /\ f \in Upstreams(pit[key])
    BY <1>6, EntryOfType DEF ReceiveNack, NackAccepted
  <2>2. e \in Entry
    BY <2>1, NackedType
  <2>3. Obeys(pit[key], up, e)
    BY <2>1, NackedType
  <2> HIDE DEF e
  <2>4. timed \in Entry /\ Obeys(pit[key], up, timed)
    BY <2>1, <2>2, <2>3, TimerType, TimeAssumption, DueObeys
  <2>5. PICK o \in AfterReceiveNack(timed, key) : pit' = [pit EXCEPT ![key] = o.entry]
    BY <1>6 DEF ReceiveNack, e
  <2> HIDE DEF timed
  <2>6. o \in Outcome /\ Obeys(timed, up, o.entry)
    BY <2>4, <2>5, AfterReceiveNackType, AfterReceiveNackObeys
  <2>7. Obeys(pit[key], up, o.entry)
    BY <2>4, <2>6 DEF Obeys
  <2>8. CASE k # key
    BY <2>5, <2>8, OthersKept
  <2>9. CASE k = key
    BY <2>1, <2>5, <2>6, <2>7, <2>9, NoEntryAssumption DEF KeptEntry, Outcome, TypeOK
  <2> QED
    BY <2>8, <2>9
<1>7. ASSUME NEW key \in Keys, FinalizeInterest(key) PROVE Goal
  <2>1. pit' = [pit EXCEPT ![key] = NoEntry]
    BY <1>7 DEF FinalizeInterest
  <2> QED
    BY <2>1, OthersKept DEF TypeOK
<1>8. ASSUME Tick PROVE Goal
  BY <1>8 DEF Tick, AgedEntry
<1>9. ASSUME NEW f \in Faces, RemoveFace(f) PROVE Goal
  <2> DEFINE x == WithoutIn(WithoutOut(pit[k], {f}), {f})
  <2>1. pit'[k] = IF pit[k] = NoEntry THEN NoEntry ELSE x
    BY <1>9 DEF RemoveFace
  <2>2. CASE pit[k] = NoEntry
    BY <2>1, <2>2
  <2>3. CASE pit[k] # NoEntry
    <3>1. pit[k] \in Entry /\ x \in Entry
      BY <2>3, EntryOfType, WithoutInType, WithoutOutType
    <3>2. Obeys(pit[k], up, x)
      BY <3>1 DEF Obeys, Entry, WithoutIn, WithoutOut, Upstreams
    <3> QED
      BY <2>1, <2>3, <3>1, <3>2, NoEntryAssumption DEF KeptEntry
  <2> QED
    BY <2>2, <2>3
<1>10. CASE UNCHANGED vars
  BY <1>1, <1>10 DEF vars
<1>11. CASE \E f \in Faces, i \in Interests : DropInterest(f, i) \/ LoopInterest(f, i)
  BY <1>1, <1>11 DEF DropInterest, LoopInterest
<1>12. CASE \/ \E f \in Faces, d \in DataPackets : StrayData(f, d)
            \/ ReducePit
            \/ \E d \in DataPackets : AgeContent(d)
            \/ \E dead \in Names \X Nonces : ForgetNonce(dead)
  BY <1>1, <1>12 DEF StrayData, DataUnsolicited, ReducePit, AgeContent, ForgetNonce
<1> QED
  BY <1>2, <1>3, <1>4, <1>5, <1>6, <1>7, <1>8, <1>9, <1>10, <1>11, <1>12 DEF Next

(***************************************************************************)
(* The bounds of "Central PIT".                                            *)
(***************************************************************************)
\* A subset of the PIT's keys is counted by a natural number.
LEMMA PendingFinite ==
  /\ IsFiniteSet(Pending) /\ Cardinality(Pending) \in Nat
  /\ IsFiniteSet(Counted) /\ Cardinality(Counted) \in Nat
  /\ Cardinality(Counted) <= Cardinality(Pending)
<1>1. Pending \in SUBSET Keys /\ Counted \in SUBSET Pending
  BY DEF Pending, Counted
<1>2. IsFiniteSet(Pending)
  BY <1>1, FS_Subset, LimitAssumption
<1> QED
  BY <1>1, <1>2, FS_Subset, FS_CardinalityType

\* One element more is at most one more to count.
LEMMA OneMore ==
  ASSUME NEW S, IsFiniteSet(S), NEW x, NEW T \in SUBSET (S \cup {x})
  PROVE  Cardinality(T) \in Nat /\ Cardinality(T) <= Cardinality(S) + 1
<1>1. IsFiniteSet(S \cup {x})
  BY FS_AddElement
<1>2. Cardinality(S) \in Nat /\ Cardinality(S \cup {x}) \in Nat
  BY <1>1, FS_CardinalityType
<1>3. Cardinality(S \cup {x}) = Cardinality(S) \/ Cardinality(S \cup {x}) = Cardinality(S) + 1
  BY FS_AddElement
<1>4. Cardinality(T) \in Nat /\ Cardinality(T) <= Cardinality(S \cup {x})
  BY <1>1, FS_Subset, FS_CardinalityType
<1> QED
  BY <1>2, <1>3, <1>4

\* A step lets the PIT grow by at most one entry, and only if it is not full.
LEMMA PitGrowth ==
  ASSUME TypeOK, [Next]_vars
  PROVE  Pending' \subseteq Pending \/ \E k \in Keys : ~PitFull /\ Pending' \subseteq Pending \cup {k}
<1>1. CASE \E f \in Faces, i \in Interests, d \in DataPackets : HitInterest(f, i, d)
  BY <1>1, PacketAssumption DEF HitInterest, Admitted, Pending, TypeOK
<1>2. CASE \E f \in Faces, i \in Interests : MissInterest(f, i)
  <2>1. PICK f \in Faces, i \in Interests : MissInterest(f, i)
    BY <1>2
  <2>2. i.key \in Keys
    BY PacketAssumption
  <2>3. \E x : pit' = [pit EXCEPT ![i.key] = x]
    BY <2>1 DEF MissInterest
  <2>4. ~PitFull
    BY <2>1 DEF MissInterest, Admitted
  <2> QED
    BY <2>2, <2>3, <2>4 DEF Pending, TypeOK
<1>3. CASE ~(\E f \in Faces, i \in Interests, d \in DataPackets : HitInterest(f, i, d))
           /\ ~(\E f \in Faces, i \in Interests : MissInterest(f, i))
  <2>1. ASSUME NEW k \in Keys, pit[k] = NoEntry PROVE pit'[k] = NoEntry
    <3>1. ASSUME NEW f \in Faces, NEW d \in DataPackets, SatisfyOne(f, d) PROVE pit'[k] = NoEntry
      <4>1. PICK key \in Pending : \E x : pit' = [pit EXCEPT ![key] = x]
        BY <3>1 DEF SatisfyOne, DataMatches
      <4> QED
        BY <2>1, <4>1 DEF Pending, TypeOK
    <3>2. ASSUME NEW f \in Faces, NEW b \in BOOLEAN, NEW d \in DataPackets, SatisfyMany(f, b, d)
          PROVE  pit'[k] = NoEntry
      BY <2>1, <3>2 DEF SatisfyMany, DataMatches, Pending
    <3>3. ASSUME NEW f \in Faces, NEW key \in Keys, NEW n \in Nonces, NEW r \in NackReasons,
                 ReceiveNack(f, key, n, r)
          PROVE  pit'[k] = NoEntry
      <4>1. \E x : pit' = [pit EXCEPT ![key] = x]
        BY <3>3 DEF ReceiveNack
      <4>2. pit[key] # NoEntry
        BY <3>3 DEF ReceiveNack, NackAccepted
      <4> QED
        BY <2>1, <4>1, <4>2 DEF TypeOK
    <3>4. CASE UNCHANGED vars
      BY <2>1, <3>4 DEF vars
    <3> QED
      BY <1>3, <2>1, <3>1, <3>2, <3>3, <3>4
      DEF Next, DropInterest, LoopInterest, StrayData, FinalizeInterest, ReducePit, Tick,
          RemoveFace, AgeContent, ForgetNonce, TypeOK
  <2> QED
    BY <2>1 DEF Pending
<1> QED
  BY <1>1, <1>2, <1>3

\* "Central PIT" keeps its limit, however Interests, Data, Nacks and expiries interleave,
\* although only the arrival of an Interest looks at it.
THEOREM PitBounded == Spec => []PitBound
<1>1. Init => PitBound
  <2> SUFFICES ASSUME Init PROVE PitBound
    OBVIOUS
  <2>1. Pending = {}
    BY DEF Init, Pending
  <2> QED
    BY <2>1, FS_EmptySet, LimitAssumption DEF PitBound
<1>2. TypeOK /\ PitBound /\ [Next]_vars => PitBound'
  <2> SUFFICES ASSUME TypeOK, PitBound, [Next]_vars, CentralPit
               PROVE  Cardinality(Pending') <= PitLimit
    BY DEF PitBound
  <2>1. CASE Pending' \subseteq Pending
    <3>1. Cardinality(Pending') <= Cardinality(Pending) /\ Cardinality(Pending') \in Nat
      BY <2>1, PendingFinite, FS_Subset, FS_CardinalityType
    <3> QED
      BY <3>1, PendingFinite, LimitAssumption DEF PitBound
  <2>2. ASSUME NEW k \in Keys, ~PitFull, Pending' \subseteq Pending \cup {k}
        PROVE  Cardinality(Pending') <= PitLimit
    <3>1. Cardinality(Pending') \in Nat /\ Cardinality(Pending') <= Cardinality(Pending) + 1
      BY <2>2, PendingFinite, OneMore
    <3>3. Cardinality(Pending) < PitLimit
      BY <2>2, PendingFinite, LimitAssumption DEF PitFull
    <3> QED
      BY <3>1, <3>3, PendingFinite, LimitAssumption
  <2> QED
    BY <2>1, <2>2, PitGrowth
<1> QED
  BY <1>1, <1>2, TypeCorrect, PTL DEF Spec

\* A reduction never leaves a gateway more than half of what the PIT may hold.
QuotaHalf == CentralPit => 2 * quota <= PitLimit

LEMMA QuotaStaysHalf == TypeOK /\ PitBound /\ QuotaHalf /\ [Next]_vars => QuotaHalf'
<1> SUFFICES ASSUME TypeOK, PitBound, QuotaHalf, [Next]_vars
             PROVE  QuotaHalf'
  OBVIOUS
<1>1. CASE ReducePit
  <2>1. quota' = Cardinality(Counted) \div 2
    BY <1>1 DEF ReducePit
  <2>2. CentralPit => Cardinality(Counted) <= PitLimit
    BY PendingFinite, LimitAssumption DEF PitBound
  <2>3. \A n \in Nat : 2 * (n \div 2) <= n /\ n \div 2 \in Nat
    OBVIOUS
  <2>4. 2 * quota' <= Cardinality(Counted) /\ quota' \in Nat
    BY <2>1, <2>3, PendingFinite
  <2>5. Cardinality(Counted) \in Nat /\ PitLimit \in Nat
    BY PendingFinite, LimitAssumption
  <2>6. \A m, n, q \in Nat : 2 * q <= n /\ n <= m => 2 * q <= m
    OBVIOUS
  <2>7. ASSUME CentralPit PROVE 2 * quota' <= PitLimit
    BY <2>2, <2>4, <2>5, <2>6, <2>7
  <2> QED
    BY <2>7 DEF QuotaHalf
<1>2. CASE ~ReducePit
  <2>1. quota' = quota
    BY <1>2 DEF Next, vars, DropInterest, LoopInterest, HitInterest, MissInterest, StrayData,
                SatisfyOne, SatisfyMany, ReceiveNack, FinalizeInterest, Tick, RemoveFace,
                AgeContent, ForgetNonce
  <2> QED
    BY <2>1 DEF QuotaHalf
<1> QED
  BY <1>1, <1>2

(***************************************************************************)
(* The gateway.  What had to meet the quota is counted as long as it is    *)
(* pending, and found the count below a quota of half the limit.           *)
(***************************************************************************)
GateInv == QuotaHalf /\ gated \subseteq Counted /\ GateBound

\* The parent of a name that is not under a component is not, either.
LEMMA UnderParent ==
  ASSUME NEW name \in Seq(STRING), NEW c, UnderUri(c, Parent(name))
  PROVE  UnderUri(c, name)
<1>1. CASE Len(name) >= 2
  <2>1. Parent(name)[1] = name[1]
    BY <1>1 DEF Parent
  <2> QED
    BY <1>1, <2>1 DEF UnderUri
<1>2. CASE ~(Len(name) >= 2)
  <2>1. Len(Parent(name)) <= 1
    BY <1>2 DEF Parent
  <2> QED
    BY <2>1 DEF UnderUri
<1> QED
  BY <1>1, <1>2

LEMMA GatewayForwards ==
  /\ GatewayInit => Init
  /\ [GatewayNext]_gatewayVars => [Next]_vars
<1>1. ASSUME NEW f \in Faces, NEW i \in Interests, MakesEntry(f, i)
      PROVE  Next
  BY <1>1 DEF MakesEntry, Next
<1> QED
  BY <1>1 DEF GatewayInit, GatewayNext, gatewayVars, vars

\* Either pipeline leaves an entry.
LEMMA EntryMade ==
  ASSUME TypeOK, NEW f \in Faces, NEW i \in Interests, MakesEntry(f, i)
  PROVE  /\ Admitted(f, i)
         /\ i.key \in Keys \ Pending
         /\ \E x \in Entry : pit' = [pit EXCEPT ![i.key] = x]
<1>1. i.key \in Keys /\ i.nonce \in Nonces /\ i.life \in Lifetimes /\ i.key \notin Pending
  BY PacketAssumption DEF MakesEntry
<1>2. CASE MissInterest(f, i)
  <2> DEFINE e == WithInRecord(EntryOf(i.key), f, i.nonce, i.life)
  <2>1. PICK t \in LastExpiry(e) : \E o \in MissOutcomes([e EXCEPT !.timer = t], i, f) :
                 pit' = [pit EXCEPT ![i.key] = o.entry]
    BY <1>2 DEF MissInterest
  <2>2. [e EXCEPT !.timer = t] \in Entry
    BY <1>1, <1>2, <2>1, MissTimer
  <2>3. MissOutcomes([e EXCEPT !.timer = t], i, f) \subseteq Outcome
    BY <2>2, AfterReceiveInterestType, SendInterestType, KeepType DEF MissOutcomes, TypeOK
  <2> QED
    BY <1>1, <1>2, <2>1, <2>3 DEF MissInterest, Outcome
<1>3. ASSUME NEW d \in DataPackets, HitInterest(f, i, d)
      PROVE  Admitted(f, i) /\ \E x \in Entry : pit' = [pit EXCEPT ![i.key] = x]
  <2> DEFINE e == [Satisfied(EntryOf(i.key), d) EXCEPT !.timer = 0]
             o == AfterContentStoreHit(e, d, f)
  <2>1. Satisfied(EntryOf(i.key), d) \in Entry
    BY <1>1, EntryOfType, SatisfiedType
  <2>2. e \in Entry
    BY <2>1, TimerType, TimeAssumption
  <2>3. o \in Outcome
    BY <2>2, AfterContentStoreHitType
  <2>4. pit' = [pit EXCEPT ![i.key] = o.entry]
    BY <1>3 DEF HitInterest
  <2> HIDE DEF o
  <2> QED
    BY <1>3, <2>3, <2>4 DEF HitInterest, Outcome
<1> QED
  BY <1>1, <1>2, <1>3 DEF MakesEntry

LEMMA GateStep ==
  ASSUME TypeOK, GateInv, [GatewayNext]_gatewayVars, QuotaHalf'
  PROVE  GateInv'
<1>p. /\ Counted \subseteq Pending /\ Counted' \subseteq Pending'
      /\ IsFiniteSet(Counted) /\ Cardinality(Counted) \in Nat
      /\ IsFiniteSet(gated) /\ Cardinality(gated) \in Nat
      /\ Cardinality(gated) <= Cardinality(Counted)
  <2>1. Counted \subseteq Pending /\ Counted' \subseteq Pending'
    BY DEF Counted
  <2>2. IsFiniteSet(Counted) /\ gated \subseteq Counted
    BY <2>1, PendingFinite, FS_Subset DEF GateInv
  <2> QED
    BY <2>1, <2>2, FS_Subset, FS_CardinalityType
<1>q. gated \subseteq Pending /\ \A k \in gated : ~UnderUri("dst1", Parent(k.name))
  BY DEF GateInv, Counted
<1>1. ASSUME NEW f \in Faces, NEW i \in Interests, MakesEntry(f, i),
             gated' = IF MeetsQuota(i) THEN gated \cup {i.key} ELSE gated
      PROVE  GateInv'
  <2>1. i.key.name \in Seq(STRING)
    BY PacketAssumption
  <2>2. PICK x \in Entry : pit' = [pit EXCEPT ![i.key] = x]
    BY <1>1, EntryMade
  <2>3. Admitted(f, i) /\ i.key \in Keys \ Pending
    BY <1>1, EntryMade
  <2>4. Pending' = Pending \cup {i.key}
    BY <2>2, <2>3, NoEntryAssumption DEF Pending, TypeOK
  <2>5. CASE MeetsQuota(i)
    <3>1. CentralPit /\ ~(Cardinality(Counted) >= quota)
      BY <2>3, <2>5 DEF Admitted, OverQuota, MeetsQuota
    <3>2. gated' = gated \cup {i.key} /\ i.key \notin gated
      BY <1>1, <1>q, <2>3, <2>5
    <3>3. Cardinality(gated') = Cardinality(gated) + 1
      BY <1>p, <3>2, FS_AddElement
    <3>4. quota \in Nat /\ PitLimit \in Nat /\ 2 * quota <= PitLimit
      BY <3>1, LimitAssumption DEF TypeOK, GateInv, QuotaHalf
    <3>5. 2 * Cardinality(gated') <= PitLimit
      BY <1>p, <3>1, <3>3, <3>4
    <3>6. ~UnderUri("dst1", Parent(i.key.name))
      BY <2>1, <2>5, UnderParent DEF MeetsQuota
    <3>7. gated' \subseteq Counted'
      BY <1>q, <2>4, <3>2, <3>6 DEF Counted
    <3> QED
      BY <3>5, <3>7 DEF GateInv, GateBound
  <2>6. CASE ~MeetsQuota(i)
    <3>1. gated' = gated
      BY <1>1, <2>6
    <3>2. gated' \subseteq Counted'
      BY <1>q, <2>4, <3>1 DEF Counted
    <3> QED
      BY <3>1, <3>2 DEF GateInv, GateBound
  <2> QED
    BY <2>5, <2>6
<1>2. CASE gated' = gated \cap Pending'
  <2>1. gated' \subseteq Counted'
    BY <1>q, <1>2 DEF Counted
  <2>2. Cardinality(gated') \in Nat /\ Cardinality(gated') <= Cardinality(gated)
    BY <1>p, <1>2, FS_Subset, FS_CardinalityType
  <2> QED
    BY <1>p, <2>1, <2>2, LimitAssumption DEF GateInv, GateBound
<1>3. CASE UNCHANGED gatewayVars
  <2>1. gated' = gated /\ Counted' = Counted
    BY <1>3 DEF gatewayVars, vars, Counted, Pending
  <2> QED
    BY <2>1 DEF GateInv, GateBound
<1> QED
  BY <1>1, <1>2, <1>3 DEF GatewayNext

\* The entries that had to meet a gateway's quota take at most half of the PIT, at any
\* limit and for any Interests: not only the quota in force is half of what a PIT within
\* its limit held, but what was let in under a higher one counts against it.
THEOREM GateBounded == GatewaySpec => []GateBound
<1>1. GatewayInit => GateInv
  <2> SUFFICES ASSUME GatewayInit
               PROVE  GateInv
    OBVIOUS
  <2>1. gated = {} /\ quota = 0
    BY DEF GatewayInit, Init
  <2> QED
    BY <2>1, FS_EmptySet, LimitAssumption DEF GateInv, QuotaHalf, GateBound
<1>2. TypeOK /\ PitBound /\ GateInv /\ [GatewayNext]_gatewayVars => GateInv'
  BY GatewayForwards, QuotaStaysHalf, GateStep DEF GateInv
<1>3. GatewaySpec => Spec
  BY GatewayForwards, PTL DEF GatewaySpec, Spec
<1>4. GateInv => GateBound
  BY DEF GateInv
<1> QED
  BY <1>1, <1>2, <1>3, <1>4, TypeCorrect, PitBounded, PTL DEF GatewaySpec

(***************************************************************************)
(* The records.                                                            *)
(***************************************************************************)
\* An Interest that asks for an entry adds its own in-record and no other.
LEMMA AskedRecords ==
  ASSUME TypeOK, NEW k \in Keys, NEW f \in Faces, NEW nonce \in Nonces, NEW life \in Lifetimes,
         NEW t, NEW x,
         Obeys([WithInRecord(EntryOf(k), f, nonce, life) EXCEPT !.timer = t], up, x)
  PROVE  /\ \A g \in Faces \ {f} : x.in[g] \in {EntryOf(k).in[g], NoRecord}
         /\ x.in[f] \in {[nonce |-> nonce, left |-> life], NoRecord}
         /\ Upstreams(x) \subseteq Upstreams(EntryOf(k)) \cup up
         /\ x.timer \in {t, 0}
  BY EntryOfType DEF Obeys, WithInRecord, Upstreams, Entry

\* An entry that is new has no records.
LEMMA NewRecords ==
  /\ Downstreams(NewEntry) = {} /\ Upstreams(NewEntry) = {}
  /\ \A f \in Faces : NewEntry.in[f] = NoRecord
  BY DEF Downstreams, Upstreams, NewEntry

\* A tick takes a record's time and the timer's, and nothing else.
LEMMA AgedRecord ==
  ASSUME NEW e \in Entry, NEW f \in Faces
  PROVE  /\ Aged(e).in[f] = NoRecord <=> e.in[f] = NoRecord
         /\ e.in[f] # NoRecord => /\ Aged(e).in[f].nonce = e.in[f].nonce
                                  /\ Aged(e).in[f].left = Countdown(e.in[f].left)
         /\ Aged(e).out[f] = NoRecord <=> e.out[f] = NoRecord
         /\ e.out[f] # NoRecord => Aged(e).out[f].nonce = e.out[f].nonce
         /\ Aged(e).timer = e.timer - 1
<1>1. \A left \in Left : Countdown(left) \in Left
  BY TimeAssumption DEF Countdown, Left, Expired
<1>2. \A age \in 0 .. MaxAge : Older(age) \in 0 .. MaxAge
  BY TimeAssumption DEF Older
<1>3. \A r \in InRecord : /\ [r EXCEPT !.left = Countdown(@)].nonce = r.nonce
                          /\ [r EXCEPT !.left = Countdown(@)].left = Countdown(r.left)
                          /\ [r EXCEPT !.left = Countdown(@)] # NoRecord
  BY <1>1, NoRecordAssumption DEF InRecord
<1>4. \A r \in OutRecord :
        /\ [r EXCEPT !.left = Countdown(@), !.age = Older(@)] # NoRecord
        /\ [r EXCEPT !.left = Countdown(@), !.age = Older(@)].nonce = r.nonce
  BY <1>1, <1>2, NoRecordAssumption DEF OutRecord
<1>5. /\ Aged(e).in[f] = IF e.in[f] = NoRecord THEN NoRecord
                         ELSE [e.in[f] EXCEPT !.left = Countdown(@)]
      /\ Aged(e).out[f] = IF e.out[f] = NoRecord THEN NoRecord
                          ELSE [e.out[f] EXCEPT !.left = Countdown(@), !.age = Older(@)]
      /\ Aged(e).timer = e.timer - 1
  BY DEF Aged, Entry
<1>6. /\ e.in[f] # NoRecord => e.in[f] \in InRecord
      /\ e.out[f] # NoRecord => e.out[f] \in OutRecord
  BY DEF Entry
<1> QED
  BY <1>3, <1>4, <1>5, <1>6

\* Of an Interest that arrives by two ways the second arrival is a loop: two
\* downstreams of an entry never wait with one Nonce.
THEOREM NonceUnique == Spec => []InRecordNonceUnique
<1>1. Init => InRecordNonceUnique
  BY DEF Init, InRecordNonceUnique, Pending
<1>2. TypeOK /\ InRecordNonceUnique /\ [Next]_vars => InRecordNonceUnique'
  <2> SUFFICES ASSUME TypeOK, InRecordNonceUnique, [Next]_vars, NEW k \in Keys, pit'[k] # NoEntry,
                      NEW g \in Faces, NEW h \in Faces,
                      pit'[k].in[g] # NoRecord, pit'[k].in[h] # NoRecord,
                      pit'[k].in[g].nonce = pit'[k].in[h].nonce
               PROVE  g = h
    BY DEF InRecordNonceUnique, Pending, Downstreams
  <2>1. CASE KeptEntry(k)
    BY <2>1 DEF KeptEntry, Obeys, InRecordNonceUnique, Pending, Downstreams
  <2>2. CASE AgedEntry(k)
    <3>1. pit[k] \in Entry
      BY <2>2, EntryOfType DEF AgedEntry
    <3> QED
      BY <2>2, <3>1, AgedRecord DEF AgedEntry, InRecordNonceUnique, Pending, Downstreams
  <2>3. CASE AskedEntry(k)
    <3>1. PICK f \in up \cap Faces, i \in Interests :
            /\ i.key = k
            /\ ~IsLoop(f, i)
            /\ \E t : Obeys([WithInRecord(EntryOf(k), f, i.nonce, i.life) EXCEPT !.timer = t], up, pit'[k])
      BY <2>3 DEF AskedEntry
    <3>2. i.nonce \in Nonces /\ i.life \in Lifetimes
      BY PacketAssumption
    <3>3. /\ \A j \in Faces \ {f} : pit'[k].in[j] \in {EntryOf(k).in[j], NoRecord}
          /\ pit'[k].in[f] \in {[nonce |-> i.nonce, left |-> i.life], NoRecord}
      BY <3>1, <3>2, AskedRecords
    <3>4. ~DuplicateNonce(EntryOf(k), i.nonce, f)
      BY <3>1 DEF IsLoop
    <3>5. ASSUME NEW j \in Faces \ {f}, pit'[k].in[j] # NoRecord, pit'[k].in[j].nonce = i.nonce
          PROVE  FALSE
      <4>1. EntryOf(k).in[j] # NoRecord /\ EntryOf(k).in[j].nonce = i.nonce
        BY <3>3, <3>5
      <4>2. f \in Downstreams(EntryOf(k)) /\ EntryOf(k).in[f].nonce = i.nonce
        BY <3>4, <4>1 DEF DuplicateNonce, Downstreams
      <4>3. EntryOf(k) = pit[k] /\ pit[k] # NoEntry
        BY <4>1, NewRecords DEF EntryOf
      <4> QED
        BY <4>1, <4>2, <4>3 DEF InRecordNonceUnique, Pending, Downstreams
    <3>6. ASSUME NEW j \in Faces \ {f}, NEW l \in Faces \ {f}, pit'[k].in[j] # NoRecord,
                 pit'[k].in[l] # NoRecord, pit'[k].in[j].nonce = pit'[k].in[l].nonce
          PROVE  j = l
      <4>1. EntryOf(k).in[j] # NoRecord /\ EntryOf(k).in[l] # NoRecord
            /\ EntryOf(k).in[j].nonce = EntryOf(k).in[l].nonce
        BY <3>3, <3>6
      <4>2. EntryOf(k) = pit[k] /\ pit[k] # NoEntry
        BY <4>1, NewRecords DEF EntryOf
      <4> QED
        BY <4>1, <4>2 DEF InRecordNonceUnique, Pending, Downstreams
    <3> QED
      BY <3>3, <3>5, <3>6
  <2>4. CASE AnsweredEntry(k)
    <3>1. pit'[k].in[g] \in {EntryOf(k).in[g], NoRecord} /\ EntryOf(k).in[g] = NoRecord
      BY <2>4, EntryOfType DEF AnsweredEntry, Obeys, Entry, Downstreams
    <3> QED
      BY <3>1
  <2> QED
    BY <2>1, <2>2, <2>3, <2>4, EntryStep
<1> QED
  BY <1>1, <1>2, TypeCorrect, PTL DEF Spec

\* Nobody outside the node ever waits for a name under /localhost.
THEOREM LocalhostKept == Spec => []LocalhostDownstreams
<1>1. Init => LocalhostDownstreams
  BY DEF Init, LocalhostDownstreams, Pending
<1>2. TypeOK /\ LocalhostDownstreams /\ [Next]_vars => LocalhostDownstreams'
  <2> SUFFICES ASSUME TypeOK, LocalhostDownstreams, [Next]_vars, NEW k \in Keys, pit'[k] # NoEntry,
                      IsLocalhost(k.name), NEW g \in Faces, pit'[k].in[g] # NoRecord
               PROVE  g \in Local
    BY DEF LocalhostDownstreams, Pending, Downstreams
  <2>1. CASE KeptEntry(k)
    BY <2>1 DEF KeptEntry, Obeys, LocalhostDownstreams, Pending, Downstreams
  <2>2. CASE AgedEntry(k)
    BY <2>2, EntryOfType, AgedRecord DEF AgedEntry, LocalhostDownstreams, Pending, Downstreams
  <2>3. CASE AskedEntry(k)
    <3>1. PICK f \in up \cap Faces, i \in Interests :
            /\ i.key = k
            /\ Admitted(f, i)
            /\ \E t : Obeys([WithInRecord(EntryOf(k), f, i.nonce, i.life) EXCEPT !.timer = t], up, pit'[k])
      BY <2>3 DEF AskedEntry
    <3>2. f \in Local
      BY <3>1 DEF Admitted, LeaksLocalhost
    <3>3. g # f => EntryOf(k).in[g] # NoRecord
      <4>1. PICK t : Obeys([WithInRecord(EntryOf(k), f, i.nonce, i.life) EXCEPT !.timer = t], up, pit'[k])
        BY <3>1
      <4>2. i.nonce \in Nonces /\ i.life \in Lifetimes
        BY PacketAssumption
      <4>3. \A j \in Faces \ {f} : pit'[k].in[j] \in {EntryOf(k).in[j], NoRecord}
        BY <4>1, <4>2, AskedRecords
      <4> QED
        BY <4>3
    <3>4. EntryOf(k).in[g] # NoRecord => g \in Local
      BY NewRecords DEF EntryOf, LocalhostDownstreams, Pending, Downstreams
    <3> QED
      BY <3>2, <3>3, <3>4
  <2>4. CASE AnsweredEntry(k)
    BY <2>4, EntryOfType DEF AnsweredEntry, Obeys, Entry, Downstreams
  <2> QED
    BY <2>1, <2>2, <2>3, <2>4, EntryStep
<1> QED
  BY <1>1, <1>2, TypeCorrect, PTL DEF Spec

\* The expiry timer covers the downstreams: an entry whose timer was not cut short
\* outlives every Interest that waits in it, whatever came and went.
THEOREM TimerCovers == Spec => []TimerCoversDownstreams
<1>1. Init => TimerCoversDownstreams
  BY DEF Init, TimerCoversDownstreams, Pending
<1>2. TypeOK /\ TimerCoversDownstreams /\ [Next]_vars => TimerCoversDownstreams'
  <2> SUFFICES ASSUME TypeOK, TimerCoversDownstreams, [Next]_vars, NEW k \in Keys, pit'[k] # NoEntry,
                      pit'[k].timer > 0, NEW g \in Faces, pit'[k].in[g] # NoRecord
               PROVE  pit'[k].in[g].left <= pit'[k].timer
    BY DEF TimerCoversDownstreams, Pending, Downstreams
  <2>1. CASE KeptEntry(k)
    BY <2>1 DEF KeptEntry, Obeys, TimerCoversDownstreams, Pending, Downstreams
  <2>2. CASE AgedEntry(k)
    <3>1. pit[k] \in Entry /\ pit[k].timer > 0
      BY <2>2, EntryOfType DEF AgedEntry, Tick, Pending
    <3>2. /\ pit[k].in[g] # NoRecord
          /\ pit'[k].in[g].left = Countdown(pit[k].in[g].left)
          /\ pit'[k].timer = pit[k].timer - 1
      BY <2>2, <3>1, AgedRecord DEF AgedEntry
    <3>3. pit[k].in[g].left <= pit[k].timer
      BY <2>2, <3>1, <3>2 DEF AgedEntry, TimerCoversDownstreams, Pending, Downstreams
    <3>4. pit[k].in[g].left \in Left /\ pit[k].timer \in 0 .. MaxAge
      BY <3>1, <3>2 DEF Entry, InRecord
    <3>5. \A l \in Left, t \in 0 .. MaxAge : l <= t /\ t - 1 > 0 => Countdown(l) <= t - 1
      BY TimeAssumption DEF Countdown, Left, Expired
    <3> QED
      BY <3>2, <3>3, <3>4, <3>5
  <2>3. CASE AskedEntry(k)
    <3>1. PICK f \in up \cap Faces, i \in Interests :
            /\ i.key = k
            /\ \E t \in LastExpiry(WithInRecord(EntryOf(k), f, i.nonce, i.life)) :
                  Obeys([WithInRecord(EntryOf(k), f, i.nonce, i.life) EXCEPT !.timer = t], up, pit'[k])
      BY <2>3 DEF AskedEntry
    <3> DEFINE e == WithInRecord(EntryOf(k), f, i.nonce, i.life)
    <3>2. PICK t \in LastExpiry(e) : Obeys([e EXCEPT !.timer = t], up, pit'[k])
      BY <3>1
    <3>3. e \in Entry /\ t \in Left
      <4>1. e \in Entry
        BY <3>1, EntryOfType, WithInRecordType, PacketAssumption
      <4>2. \A f2 \in Downstreams(e) : e.in[f2].left \in Left
        BY <4>1 DEF Downstreams, Entry, InRecord
      <4> QED
        BY <4>1, <4>2 DEF LastExpiry
    <3> HIDE DEF e
    <3>4. pit'[k].in[g] = e.in[g] /\ pit'[k].timer \in {t, 0}
      BY <3>2, <3>3 DEF Obeys, Entry
    <3>5. e.in[g].left <= t
      BY <3>2, <3>4 DEF LastExpiry, Downstreams
    <3>6. pit'[k].timer = t
      BY <3>4
    <3> QED
      BY <3>4, <3>5, <3>6
  <2>4. CASE AnsweredEntry(k)
    BY <2>4 DEF AnsweredEntry
  <2> QED
    BY <2>1, <2>2, <2>3, <2>4, EntryStep
<1> QED
  BY <1>1, <1>2, TypeCorrect, PTL DEF Spec

\* No record outlives its face.
THEOREM NoRecordDangles == Spec => []NoDanglingFace
<1>1. Init => NoDanglingFace
  BY DEF Init, NoDanglingFace, Pending
<1>2. TypeOK /\ NoDanglingFace /\ [Next]_vars => NoDanglingFace'
  <2> SUFFICES ASSUME TypeOK, NoDanglingFace, [Next]_vars, NEW k \in Keys, pit'[k] # NoEntry,
                      NEW g \in Faces, g \in Downstreams(pit'[k]) \cup Upstreams(pit'[k])
               PROVE  g \in up'
    BY DEF NoDanglingFace, Pending, Downstreams, Upstreams
  <2>1. ASSUME NEW f \in Faces, RemoveFace(f) PROVE g \in up'
    <3>1. /\ pit[k] # NoEntry
          /\ pit'[k] = WithoutIn(WithoutOut(pit[k], {f}), {f})
          /\ up' = up \ {f}
      BY <2>1 DEF RemoveFace
    <3>2. pit[k] \in Entry
      BY <3>1, EntryOfType
    <3>3. g # f /\ g \in Downstreams(pit[k]) \cup Upstreams(pit[k])
      BY <3>1, <3>2 DEF Entry, WithoutIn, WithoutOut, Downstreams, Upstreams
    <3> QED
      BY <3>1, <3>3 DEF NoDanglingFace, Pending
  <2>2. CASE ~(\E f \in Faces : RemoveFace(f))
    <3>1. up' = up
      BY <2>2 DEF Next, vars, DropInterest, LoopInterest, HitInterest, MissInterest, StrayData,
                  SatisfyOne, SatisfyMany, ReceiveNack, FinalizeInterest, ReducePit, Tick,
                  AgeContent, ForgetNonce
    <3>2. \A f \in Downstreams(EntryOf(k)) \cup Upstreams(EntryOf(k)) : f \in up
      BY NewRecords DEF EntryOf, NoDanglingFace, Pending
    <3>3. CASE KeptEntry(k)
      BY <3>1, <3>3 DEF KeptEntry, Obeys, NoDanglingFace, Pending, Downstreams
    <3>4. CASE AgedEntry(k)
      BY <3>1, <3>4, EntryOfType, AgedRecord
      DEF AgedEntry, NoDanglingFace, Pending, Downstreams, Upstreams
    <3>5. CASE AskedEntry(k)
      <4>1. PICK f \in up \cap Faces, i \in Interests :
              \E t : Obeys([WithInRecord(EntryOf(k), f, i.nonce, i.life) EXCEPT !.timer = t], up, pit'[k])
        BY <3>5 DEF AskedEntry
      <4>2. i.nonce \in Nonces /\ i.life \in Lifetimes
        BY PacketAssumption
      <4>3. PICK t : Obeys([WithInRecord(EntryOf(k), f, i.nonce, i.life) EXCEPT !.timer = t], up, pit'[k])
        BY <4>1
      <4>4. /\ \A j \in Faces \ {f} : pit'[k].in[j] \in {EntryOf(k).in[j], NoRecord}
            /\ Upstreams(pit'[k]) \subseteq Upstreams(EntryOf(k)) \cup up
        BY <4>2, <4>3, AskedRecords
      <4>5. g = f \/ g \in Downstreams(EntryOf(k)) \cup Upstreams(EntryOf(k)) \cup up
        BY <4>4 DEF Downstreams
      <4> QED
        BY <3>1, <3>2, <4>1, <4>5
    <3>6. CASE AnsweredEntry(k)
      <4>1. g \in Downstreams(EntryOf(k)) \cup Upstreams(EntryOf(k)) \cup up
        BY <3>6, EntryOfType DEF AnsweredEntry, Obeys, Entry, Downstreams, Upstreams
      <4> QED
        BY <3>1, <3>2, <4>1
    <3> QED
      BY <3>3, <3>4, <3>5, <3>6, EntryStep
  <2> QED
    BY <2>1, <2>2
<1> QED
  BY <1>1, <1>2, TypeCorrect, PTL DEF Spec

(***************************************************************************)
(* Flow balance.                                                           *)
(***************************************************************************)
NoData(o) == \A p \in o.sent : p.type # "data"

\* What the strategies do for Interests and Nacks makes no Data leave.
LEMMA ActionsSendNoData ==
  /\ \A x, i, g : NoData(SendInterest(x, i, g))
  /\ \A x, k, S, r : NoData(SendNacks(x, k, S, r))
  /\ \A x : NoData(Keep(x))
<1>1. \A x, i, g : NoData(SendInterest(x, i, g))
  BY DEF NoData, SendInterest, SentInterest
<1>2. \A x, k, S, r : NoData(SendNacks(x, k, S, r))
  BY DEF NoData, SendNacks, SentNack
<1>3. \A x : NoData(Keep(x))
  BY DEF NoData, Keep
<1> QED
  BY <1>1, <1>2, <1>3

\* Nor does a strategy that gets a Nack.
LEMMA NackSendsNoData ==
  ASSUME NEW x, NEW k, NEW o \in AfterReceiveNack(x, k)
  PROVE  NoData(o)
<1>1. o = Keep(x) \/ \E S, r : o = SendNacks(x, k, S, r)
  BY DEF AfterReceiveNack, ProcessNack
<1> QED
  BY <1>1, ActionsSendNoData

\* Nor does a strategy that gets an Interest.
LEMMA InterestSendsNoData ==
  ASSUME NEW e \in Entry, NEW i \in Interests, NEW f \in Faces, NEW u \in SUBSET Faces,
         NEW out \in AfterReceiveInterest(e, i, f, u)
  PROVE  NoData(out)
<1>1. \A x, g : NoData(SendInterest(x, i, g))
  BY ActionsSendNoData
<1>2. \A x, k, S, r : NoData(SendNacks(x, k, S, r))
  BY ActionsSendNoData
<1>3. \A x : NoData(Keep(x))
  BY ActionsSendNoData
<1>4. NoData(Reject(e, i.key, f))
  <2> DEFINE o == SendNacks(e, i.key, {f}, "no-route")
  <2>1. o \in Outcome
    BY SendNacksType, PacketAssumption DEF Reasons
  <2>2. Reject(e, i.key, f) = [o EXCEPT !.entry = [o.entry EXCEPT !.timer = 0]]
    BY DEF Reject
  <2>3. Reject(e, i.key, f).sent = o.sent
    BY <2>1, <2>2 DEF Outcome
  <2> QED
    BY <1>2, <2>3 DEF NoData
<1>5. \A o \in BestRoute(e, i, f, u) : NoData(o)
  BY <1>1, <1>3, <1>4 DEF BestRoute
<1>6. \A o \in BestRouteV1(e, i, f, u) : NoData(o)
  BY <1>1, <1>3 DEF BestRouteV1
<1>7. \A o \in RandomHop(e, i, f, u) : NoData(o)
  BY <1>1, <1>4 DEF RandomHop
<1>8. \A o \in Multicast(e, i, f, u) : NoData(o)
  <2>1. ASSUME NEW o \in Multicast(e, i, f, u), o # Reject(e, i.key, f) PROVE NoData(o)
    <3>1. \E x, T : o = [entry |-> x, sent |-> {SentInterest(g, i.key, i.nonce) : g \in T}]
      BY <2>1 DEF Multicast
    <3> QED
      BY <3>1 DEF NoData, SentInterest
  <2> QED
    BY <1>4, <2>1
<1>9. StrategyOf[i.key] \in StrategyNames
  BY RouteAssumption, PacketAssumption
<1> QED
  BY <1>5, <1>6, <1>7, <1>8, <1>9 DEF AfterReceiveInterest, StrategyNames

\* Data that one entry's downstreams wait for is paid for by their in-records.
LEMMA OnePays ==
  ASSUME TypeOK, NEW f \in Faces, NEW d \in DataPackets, SatisfyOne(f, d), NEW p \in sent'
  PROVE  PaidByPending(p)
<1>1. PICK k \in Keys :
        /\ DataMatches(d) = {k}
        /\ LET o == AfterReceiveData([pit[k] EXCEPT !.timer = 0], d, f)
               e == Satisfied(o.entry, d)
           IN  /\ pit' = [pit EXCEPT ![k] = WithoutOut(e, {f})]
               /\ sent' = o.sent
  BY DEF SatisfyOne
<1> DEFINE e == [pit[k] EXCEPT !.timer = 0]
           to == {g \in PendingDownstreams(e) : g # f \/ g \in AdHoc}
<1>2. k \in Pending /\ Matches(k, d) /\ pit[k] \in Entry
  BY <1>1, EntryOfType DEF DataMatches, Pending
<1>3. e \in Entry /\ e.in = pit[k].in
  BY <1>2, TimerType, TimeAssumption DEF Entry
<1>4. pit'[k] = WithoutOut(Satisfied(WithoutIn(e, to), d), {f}) /\ sent' = OutgoingData(d, to)
  BY <1>1 DEF TypeOK, AfterReceiveData
<1> HIDE DEF e
<1>5. p.to \in to /\ p.data = d
  BY <1>4 DEF OutgoingData, SentData
<1>6. p.to \in Downstreams(pit[k]) /\ pit[k].in[p.to].left > 0
  BY <1>3, <1>5 DEF PendingDownstreams, Downstreams
<1> HIDE DEF to
<1>7. pit'[k] \in Entry
  BY <1>3, <1>4, WithoutInType, SatisfiedType, WithoutOutType
<1>8. pit'[k].in[p.to] = NoRecord
  BY <1>3, <1>4, <1>5, <1>6 DEF WithoutOut, Satisfied, WithoutIn, Entry, Downstreams
<1> QED
  BY <1>2, <1>5, <1>6, <1>7, <1>8, NoEntryAssumption DEF PaidByPending, Downstreams

\* Data that several entries' downstreams wait for is paid for by their in-records.
LEMMA ManyPay ==
  ASSUME TypeOK, NEW f \in Faces, NEW b \in BOOLEAN, NEW d \in DataPackets, SatisfyMany(f, b, d),
         NEW p \in sent'
  PROVE  PaidByPending(p)
<1>1. PICK k \in DataMatches(d) : p.to \in PendingDownstreams(pit[k]) /\ p.data = d
  BY DEF SatisfyMany, OutgoingData, SentData
<1>2. k \in Pending /\ Matches(k, d) /\ pit[k] \in Entry
  BY <1>1, EntryOfType DEF DataMatches, Pending
<1>3. pit'[k] = SatisfiedTogether(pit[k], d, f)
  BY <1>1, <1>2 DEF SatisfyMany, Pending
<1>4. pit'[k] \in Entry
  BY <1>2, <1>3, SatisfiedType, TimerType, TimeAssumption, WithoutOutType, WithoutInType
  DEF SatisfiedTogether
<1>5. Downstreams(pit'[k]) = {}
  BY <1>2, <1>3 DEF SatisfiedTogether, Satisfied, WithoutIn, WithoutOut, Downstreams, Entry
<1> QED
  BY <1>1, <1>2, <1>4, <1>5, NoEntryAssumption DEF PaidByPending, PendingDownstreams

\* The Content Store answers the one face that has just asked, and the entry is due.
LEMMA HitPays ==
  ASSUME TypeOK, NEW f \in Faces, NEW i \in Interests, NEW d \in DataPackets, HitInterest(f, i, d),
         NEW p \in sent'
  PROVE  PaidByHit(p)
<1> DEFINE e == [Satisfied(EntryOf(i.key), d) EXCEPT !.timer = 0]
<1>1. i.key \in Keys
  BY PacketAssumption
<1>2. e \in Entry /\ e.satisfied /\ e.timer = 0
  <2>1. EntryOf(i.key) \in Entry /\ Satisfied(EntryOf(i.key), d) \in Entry
    BY <1>1, EntryOfType, SatisfiedType
  <2>2. e \in Entry
    BY <2>1, TimerType, TimeAssumption
  <2>3. e.satisfied = TRUE
    BY <2>1 DEF Satisfied, Entry
  <2>4. e.timer = 0
    BY <2>1 DEF Entry
  <2> QED
    BY <2>2, <2>3, <2>4
<1>3. pit' = [pit EXCEPT ![i.key] = WithoutIn(e, {f})] /\ sent' = OutgoingData(d, {f})
  BY DEF HitInterest, AfterContentStoreHit
<1>4. p.data = d /\ sent' = {p}
  BY <1>3 DEF OutgoingData, SentData
<1>5. cs[d] # "absent" /\ Matches(i.key, d)
  BY DEF HitInterest, CsMatches
<1>6. i.key \in Pending => Downstreams(pit[i.key]) = {}
  BY DEF HitInterest, EntryOf, Pending
<1> HIDE DEF e
<1>7. pit'[i.key] = WithoutIn(e, {f})
  BY <1>1, <1>3 DEF TypeOK
<1>8. pit'[i.key] \in Entry /\ pit'[i.key].satisfied /\ pit'[i.key].timer = 0
  BY <1>2, <1>7, WithoutInType DEF WithoutIn, Entry
<1> QED
  BY <1>1, <1>4, <1>5, <1>6, <1>8, NoEntryAssumption DEF PaidByHit

\* Flow balance: no step sends Data that a downstream has not paid for with an Interest
\* which the step consumes or answers from the Content Store.
THEOREM FlowBalanced == Spec => FlowBalance
<1>1. TypeOK /\ [Next]_vars =>
        [\A p \in sent' : p.type = "data" => PaidByPending(p) \/ PaidByHit(p)]_vars
  <2> SUFFICES ASSUME TypeOK, Next, NEW p \in sent', p.type = "data"
               PROVE  PaidByPending(p) \/ PaidByHit(p)
    OBVIOUS
  <2>1. ASSUME NEW f \in Faces, NEW i \in Interests, MissInterest(f, i) PROVE FALSE
    <3> DEFINE e == WithInRecord(EntryOf(i.key), f, i.nonce, i.life)
    <3>1. PICK t \in LastExpiry(e) :
                 \E o \in MissOutcomes([e EXCEPT !.timer = t], i, f) : sent' = o.sent
      BY <2>1 DEF MissInterest
    <3>2. [e EXCEPT !.timer = t] \in Entry
      BY <3>1, MissTimer
    <3> HIDE DEF e
    <3>3. PICK o \in MissOutcomes([e EXCEPT !.timer = t], i, f) : sent' = o.sent
      BY <3>1
    <3>4. NoData(o)
      <4>1. CASE i.via = NoFace
        BY <3>2, <3>3, <4>1, InterestSendsNoData DEF MissOutcomes, TypeOK
      <4>2. CASE i.via # NoFace
        BY <3>3, <4>2, ActionsSendNoData DEF MissOutcomes
      <4> QED
        BY <4>1, <4>2
    <3> QED
      BY <3>3, <3>4 DEF NoData
  <2>2. ASSUME NEW f \in Faces, NEW k \in Keys, NEW n \in Nonces, NEW r \in NackReasons,
               ReceiveNack(f, k, n, r)
        PROVE  FALSE
    <3>1. PICK x : \E o \in AfterReceiveNack(x, k) : sent' = o.sent
      BY <2>2 DEF ReceiveNack
    <3>2. PICK o \in AfterReceiveNack(x, k) : sent' = o.sent
      BY <3>1
    <3> QED
      BY <3>2, NackSendsNoData DEF NoData
  <2>3. ASSUME NEW f \in Faces, NEW i \in Interests, LoopInterest(f, i) PROVE FALSE
    BY <2>3 DEF LoopInterest, SentNack
  <2> QED
    BY <2>1, <2>2, <2>3, OnePays, ManyPay, HitPays
    DEF Next, DropInterest, StrayData, FinalizeInterest, ReducePit, Tick, RemoveFace,
        AgeContent, ForgetNonce
<1> QED
  BY <1>1, TypeCorrect, PTL DEF Spec, FlowBalance

(***************************************************************************)
(* Loops.                                                                  *)
(***************************************************************************)
\* What an outcome for an Interest sends is that Interest, and then every in-record is
\* kept.
Forwards(e, i, o) ==
    \A p \in o.sent : p.type = "interest" =>
        p.key = i.key /\ p.nonce = i.nonce /\ o.entry.in = e.in

\* sendInterest sends this very Interest and leaves the in-records alone.
LEMMA SendInterestForwards ==
  ASSUME NEW e, NEW x \in Entry, x.in = e.in, NEW i, NEW g
  PROVE  Forwards(e, i, SendInterest(x, i, g))
<1>1. SendInterest(x, i, g).entry.in = x.in
  BY DEF SendInterest, WithOutRecord, Entry
<1>2. SendInterest(x, i, g).sent = {SentInterest(g, i.key, i.nonce)}
  BY DEF SendInterest
<1> QED
  BY <1>1, <1>2 DEF Forwards, SentInterest

\* Neither Nacks nor silence send an Interest.
LEMMA NoInterestInNacks ==
  /\ \A e, i, x, k, S, r : Forwards(e, i, SendNacks(x, k, S, r))
  /\ \A e, i, x : Forwards(e, i, Keep(x))
<1>1. \A x, k, S, r : \A p \in SendNacks(x, k, S, r).sent : p.type # "interest"
  BY DEF SendNacks, SentNack
<1>2. \A x : Keep(x).sent = {}
  BY DEF Keep
<1> QED
  BY <1>1, <1>2 DEF Forwards

\* Hence whatever a strategy sends when an Interest comes is that Interest.
LEMMA AfterReceiveInterestForwards ==
  ASSUME NEW e \in Entry, NEW i \in Interests, NEW f \in Faces, NEW u \in SUBSET Faces,
         NEW out \in AfterReceiveInterest(e, i, f, u)
  PROVE  Forwards(e, i, out)
<1> DEFINE doubled == [e EXCEPT !.interval = Doubled(@)]
<1>1. doubled \in Entry /\ doubled.in = e.in
  BY DoubledType DEF Entry
<1> HIDE DEF doubled
<1>2. \A g : Forwards(e, i, SendInterest(e, i, g)) /\ Forwards(e, i, SendInterest(doubled, i, g))
  BY <1>1, SendInterestForwards
<1>3. \A x : Forwards(e, i, Keep(x))
  BY NoInterestInNacks
<1>4. Forwards(e, i, Reject(e, i.key, f))
  <2> DEFINE o == SendNacks(e, i.key, {f}, "no-route")
  <2>1. o \in Outcome
    BY SendNacksType, PacketAssumption DEF Reasons
  <2>2. Reject(e, i.key, f) = [o EXCEPT !.entry = [o.entry EXCEPT !.timer = 0]]
    BY DEF Reject
  <2>3. Reject(e, i.key, f).sent = o.sent
    BY <2>1, <2>2 DEF Outcome
  <2>4. \A p \in o.sent : p.type # "interest"
    BY DEF SendNacks, SentNack
  <2> QED
    BY <2>3, <2>4 DEF Forwards
<1>5. ASSUME out \in BestRoute(e, i, f, u) PROVE Forwards(e, i, out)
  BY <1>2, <1>3, <1>4, <1>5 DEF BestRoute, doubled
<1>6. ASSUME out \in BestRouteV1(e, i, f, u) PROVE Forwards(e, i, out)
  BY <1>2, <1>3, <1>6 DEF BestRouteV1
<1>7. ASSUME out \in RandomHop(e, i, f, u) PROVE Forwards(e, i, out)
  BY <1>2, <1>4, <1>7 DEF RandomHop
<1>8. ASSUME out \in Multicast(e, i, f, u) PROVE Forwards(e, i, out)
  <2>1. ASSUME out # Reject(e, i.key, f) PROVE Forwards(e, i, out)
    <3>1. PICK x, T : out = [entry |-> [e EXCEPT !.out = x],
                             sent |-> {SentInterest(g, i.key, i.nonce) : g \in T}]
      BY <1>8, <2>1 DEF Multicast
    <3>2. out.entry.in = e.in
      BY <3>1 DEF Entry
    <3>3. ASSUME NEW p \in out.sent PROVE p.key = i.key /\ p.nonce = i.nonce
      <4>1. PICK g \in T : p = SentInterest(g, i.key, i.nonce)
        BY <3>1, <3>3
      <4> QED
        BY <4>1 DEF SentInterest
    <3> QED
      BY <3>2, <3>3 DEF Forwards
  <2> QED
    BY <1>4, <2>1
<1>9. StrategyOf[i.key] \in StrategyNames
  BY RouteAssumption, PacketAssumption
<1> QED
  BY <1>5, <1>6, <1>7, <1>8, <1>9 DEF AfterReceiveInterest, StrategyNames

\* An Interest that leaves on a miss leaves on behalf of the face that sent it.
LEMMA MissOnBehalf ==
  ASSUME TypeOK, NEW f \in Faces, NEW i \in Interests, MissInterest(f, i),
         NEW p \in sent', p.type = "interest"
  PROVE  OnBehalf(p)
<1> DEFINE e == WithInRecord(EntryOf(i.key), f, i.nonce, i.life)
<1>1. i.key \in Keys /\ i.nonce \in Nonces /\ i.life \in Lifetimes
  BY PacketAssumption
<1>2. PICK t \in LastExpiry(e) : \E o \in MissOutcomes([e EXCEPT !.timer = t], i, f) :
               pit' = [pit EXCEPT ![i.key] = o.entry] /\ sent' = o.sent
  BY DEF MissInterest
<1> DEFINE timed == [e EXCEPT !.timer = t]
<1>3. timed \in Entry
  BY <1>2, MissTimer
<1>4. timed.in[f] = [nonce |-> i.nonce, left |-> i.life]
  BY <1>1, EntryOfType DEF WithInRecord, Entry
<1> HIDE DEF e
<1>5. PICK o \in MissOutcomes(timed, i, f) : pit' = [pit EXCEPT ![i.key] = o.entry] /\ sent' = o.sent
  BY <1>2
<1> HIDE DEF timed
<1>6. o \in Outcome
  BY <1>3, AfterReceiveInterestType, SendInterestType, KeepType DEF MissOutcomes, TypeOK
<1>7. Forwards(timed, i, o)
  <2>1. CASE i.via = NoFace
    <3>1. o \in AfterReceiveInterest(timed, i, f, up) /\ up \in SUBSET Faces
      BY <1>5, <2>1 DEF MissOutcomes, TypeOK
    <3> QED
      BY <1>3, <3>1, AfterReceiveInterestForwards
  <2>2. CASE i.via # NoFace /\ i.via \in up
    <3>1. o = SendInterest(timed, i, i.via)
      BY <1>5, <2>2 DEF MissOutcomes
    <3> QED
      BY <1>3, <3>1, SendInterestForwards
  <2>3. CASE i.via # NoFace /\ i.via \notin up
    <3>1. o = Keep(timed)
      BY <1>5, <2>3 DEF MissOutcomes
    <3> QED
      BY <3>1, NoInterestInNacks
  <2> QED
    BY <2>1, <2>2, <2>3
<1>8. p.key = i.key /\ p.nonce = i.nonce /\ o.entry.in = timed.in
  BY <1>5, <1>7 DEF Forwards
<1>9. pit'[i.key] = o.entry /\ pit'[i.key] # NoEntry
  BY <1>1, <1>5, <1>6, NoEntryAssumption DEF TypeOK, Outcome
<1>10. pit'[i.key].in[f] = [nonce |-> i.nonce, left |-> i.life]
  BY <1>4, <1>8, <1>9
<1>11. [nonce |-> i.nonce, left |-> i.life] \in InRecord
  <2>1. i.life \in Nat /\ i.life <= MaxAge /\ MaxAge \in Nat
    BY <1>1, TimeAssumption, PacketAssumption
  <2>2. i.life \in Left
    BY <2>1 DEF Left, Expired
  <2> QED
    BY <1>1, <2>2 DEF InRecord
<1>12. f \in Downstreams(pit'[i.key]) /\ pit'[i.key].in[f].nonce = i.nonce
  BY <1>10, <1>11, NoRecordAssumption DEF Downstreams
<1>13. <<i.key.name, i.nonce>> \notin dnl /\ ~DuplicateNonce(EntryOf(i.key), i.nonce, f)
  BY DEF MissInterest, IsLoop
<1>14. \/ /\ f \in P2P
          /\ f \in Downstreams(EntryOf(i.key))
          /\ pit[i.key].in[f].nonce = i.nonce
       \/ \A g \in Upstreams(EntryOf(i.key)) : pit[i.key].out[g].nonce # i.nonce
  BY <1>13, NewRecords DEF DuplicateNonce, EntryOf
<1> QED
  BY <1>8, <1>9, <1>12, <1>13, <1>14 DEF OnBehalf

\* No Interest leaves with a Nonce that is in the Dead Nonce List, nor with one that an
\* out-record of its entry holds at that time, except on behalf of a point-to-point
\* downstream that repeats its own, however the records came to be.
THEOREM NoLoopForwarded == Spec => NoLoopForward
<1>1. TypeOK /\ [Next]_vars =>
        [\A p \in sent' : p.type = "interest" => OnBehalf(p)]_vars
  <2> SUFFICES ASSUME TypeOK, Next, NEW p \in sent', p.type = "interest" PROVE OnBehalf(p)
    OBVIOUS
  <2>1. ASSUME NEW f \in Faces, NEW k \in Keys, NEW n \in Nonces, NEW r \in NackReasons,
               ReceiveNack(f, k, n, r)
        PROVE  FALSE
    <3>1. PICK x : \E o \in AfterReceiveNack(x, k) : sent' = o.sent
      BY <2>1 DEF ReceiveNack
    <3>2. PICK o \in AfterReceiveNack(x, k) : sent' = o.sent
      BY <3>1
    <3>3. o = Keep(x) \/ \E S, why : o = SendNacks(x, k, S, why)
      BY <3>2 DEF AfterReceiveNack, ProcessNack
    <3>4. CASE o = Keep(x)
      BY <3>2, <3>4 DEF Keep
    <3>5. CASE \E S, why : o = SendNacks(x, k, S, why)
      BY <3>2, <3>5 DEF SendNacks, SentNack
    <3> QED
      BY <3>3, <3>4, <3>5
  <2>2. ASSUME NEW f \in Faces, NEW i \in Interests, LoopInterest(f, i) PROVE FALSE
    BY <2>2 DEF LoopInterest, SentNack
  <2>3. ASSUME NEW S, NEW d, sent' = OutgoingData(d, S) PROVE FALSE
    BY <2>3 DEF OutgoingData, SentData
  <2>4. ASSUME NEW f \in Faces, NEW d \in DataPackets, SatisfyOne(f, d) PROVE FALSE
    <3>1. \E S : sent' = OutgoingData(d, S)
      BY <2>4 DEF SatisfyOne, AfterReceiveData
    <3> QED
      BY <2>3, <3>1
  <2> QED
    BY <2>1, <2>2, <2>3, <2>4, MissOnBehalf
    DEF Next, DropInterest, HitInterest, AfterContentStoreHit, StrayData, SatisfyMany,
        FinalizeInterest, ReducePit, Tick, RemoveFace, AgeContent, ForgetNonce
<1> QED
  BY <1>1, TypeCorrect, PTL DEF Spec, NoLoopForward
=============================================================================
