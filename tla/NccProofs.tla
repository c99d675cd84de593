------------------------------- MODULE NccProofs -----------------------------
(***************************************************************************)
(* Theorems about NccStrategy, for any faces, names, FIB entries and any   *)
(* predictions between the least and the largest.                          *)
(***************************************************************************)
EXTENDS NccStrategy, PipelineProofs, FiniteSetTheorems

(***************************************************************************)
(* The measurements.                                                       *)
(***************************************************************************)
LEMMA QuotientType ==
    ASSUME NEW p \in Nat, NEW d \in Nat \ {0}
    PROVE  p \div d \in Nat
OBVIOUS

LEMMA PredictionType ==
    ASSUME NEW p \in MinPrediction .. MaxPrediction
    PROVE  /\ Lower(p) \in MinPrediction .. MaxPrediction
           /\ Higher(p) \in MinPrediction .. MaxPrediction
<1>1. /\ MinPrediction \in Nat /\ MaxPrediction \in Nat /\ MinPrediction <= MaxPrediction
      /\ DownPart \in Nat \ {0} /\ UpPart \in Nat \ {0}
      /\ p \in Nat
    BY PredictionAssumption
<1>2. p \div DownPart \in Nat /\ p \div UpPart \in Nat
    BY <1>1, QuotientType
<1> QED
    BY <1>1, <1>2 DEF Lower, Higher

LEMMA NewInfoType == NewInfo \in Info
BY PredictionAssumption DEF NewInfo, Info

LEMMA UpdatedType ==
    ASSUME NEW i \in Info, NEW f \in Faces
    PROVE  /\ Updated(i, f) \in Info
           /\ Slower(i) \in Info
           /\ WithBest(i) \in Info
           /\ Without(i, f) \in Info
<1>1. Lower(i.prediction) \in MinPrediction .. MaxPrediction
    BY PredictionType DEF Info
<1>2. Higher(i.prediction) \in MinPrediction .. MaxPrediction
    BY PredictionType DEF Info
<1>3. Updated(i, f) \in Info
    BY <1>1 DEF Updated, Info
<1>4. Slower(i) \in Info
    BY <1>2 DEF Slower, Info
<1>5. WithBest(i) \in Info /\ Without(i, f) \in Info
    BY DEF WithBest, Without, Info
<1> QED
    BY <1>3, <1>4, <1>5

Measurements == [Names -> Info \cup {NoInfo}]

LEMMA SeenType ==
    ASSUME mi \in Measurements, NEW k \in Keys
    PROVE  /\ Seen(k) \in Measurements
           /\ Seen(k)[k] \in Info
           /\ \A n \in Names : InfoAt(k, n) \in Info
<1>1. k \in Names /\ Parent \in Names /\ k # Parent
    BY OrderAssumption DEF Names
<1>2. ParentInfo \in Info
    BY <1>1, NewInfoType DEF ParentInfo, Measurements
<1>3. Seen(k) \in Measurements /\ Seen(k)[k] \in Info
    BY <1>1, <1>2, NewInfoType DEF Seen, Measurements
<1> QED
    BY <1>3, NewInfoType DEF InfoAt, Measurements

LEMMA ConsultedType ==
    ASSUME mi \in Measurements, NEW k \in Keys
    PROVE  /\ Consulted(k) \in Measurements
           /\ Consulted(k)[k] \in Info
<1>1. k \in Names
    BY DEF Names
<1>2. Seen(k) \in Measurements /\ Seen(k)[k] \in Info
    BY SeenType
<1>3. WithBest(Seen(k)[k]) \in Info
    BY <1>2 DEF WithBest, Info
<1> QED
    BY <1>1, <1>2, <1>3 DEF Consulted, Measurements

(***************************************************************************)
(* The next hops.                                                          *)
(***************************************************************************)
LEMMA FirstOfType ==
    ASSUME NEW S
    PROVE  FirstOf(S) \subseteq S
BY DEF FirstOf

LEMMA OrderedFinite == IsFiniteSet(Ordered) /\ Ordered \subseteq Faces
<1>1. Order \in Seq(Faces) /\ Len(Order) \in Nat /\ DOMAIN Order = 1 .. Len(Order)
    BY OrderAssumption
<1>2. IsFiniteSet(1 .. Len(Order))
    BY <1>1, FS_Interval
<1>3. Order \in Surjection(1 .. Len(Order), Ordered)
    BY <1>1 DEF Surjection, Ordered
<1>4. Ordered \subseteq Faces
    BY <1>1 DEF Ordered
<1> QED
    BY <1>2, <1>3, <1>4, FS_Surjection

LEMMA ChosenType ==
    ASSUME NEW k \in Keys, NEW f \in Faces, NEW g \in Chosen(f, k)
    PROVE  g \in Able(Asked(k, f), f)
BY FirstOfType DEF Chosen

(***************************************************************************)
(* The overwritten timers.                                                 *)
(***************************************************************************)
Strays == [Keys -> [Faces -> Nat]]

LEMMA AstrayType ==
    ASSUME stray \in Strays, propagate \in [Keys -> Faces \cup {NoTimer}], NEW k \in Keys
    PROVE  /\ Astray(k) \in Strays
           /\ \A j \in Keys \ {k} : Astray(k)[j] = stray[j]
           /\ \A g \in Faces : /\ stray[k][g] <= Astray(k)[k][g]
                               /\ Astray(k)[k][g] > 0 => stray[k][g] > 0 \/ propagate[k] = g
<1>1. CASE propagate[k] = NoTimer
    BY <1>1 DEF Astray, Strays
<1>2. CASE propagate[k] # NoTimer
    <2> DEFINE p == propagate[k]
               row == [stray[k] EXCEPT ![p] = stray[k][p] + 1]
    <2>1. p \in Faces /\ stray[k] \in [Faces -> Nat]
        BY <1>2 DEF Strays
    <2>2. Astray(k) = [stray EXCEPT ![k] = row]
        BY <1>2 DEF Astray
    <2>3. /\ row \in [Faces -> Nat]
          /\ \A g \in Faces : stray[k][g] <= row[g] /\ (row[g] > 0 => stray[k][g] > 0 \/ p = g)
        BY <2>1
    <2> HIDE DEF row, p
    <2>4. Astray(k) \in Strays /\ Astray(k)[k] = row
        BY <2>2, <2>3 DEF Strays
    <2> QED
        BY <2>2, <2>3, <2>4 DEF Strays, p
<1> QED
    BY <1>1, <1>2

(***************************************************************************)
(* The inductive invariant.  An entry that no Data has answered has someone*)
(* waiting; each timer of it serves one of its downstreams, those astray   *)
(* too, so that it finds the in-record it looks for; and where there is no *)
(* timer, what the last one could not send to is closed off.  All this     *)
(* holds of an entry that is due as well: a new Interest may renew it.     *)
(***************************************************************************)
RoutesKnown == Ordered \ Gains \subseteq hops /\ hops \subseteq Ordered

Spread(e) ==
    \E g \in Downstreams(e) :
        \A h \in Ordered \ Gains :
            h \in Upstreams(e) \cup Downstreams(e) \/ <<g, h>> \in Barred

Kept(e, timer, strays) ==
    \/ e.satisfied
    \/ /\ Unexpired(e) # {}
       /\ \A f \in Faces : timer = f \/ strays[f] > 0 => f \in Downstreams(e)
       /\ \/ timer # NoTimer
          \/ \E f \in Faces : strays[f] > 0
          \/ Spread(e)

AllKept ==
    /\ \A k \in Keys \ Pending : propagate[k] = NoTimer /\ \A f \in Faces : stray[k][f] = 0
    /\ up = Faces => \A k \in Pending : Kept(pit[k], propagate[k], stray[k])

Inv == TypeOK /\ RoutesKnown /\ AllKept

LEMMA KeptGrows ==
    ASSUME NEW e, NEW e2, NEW timer, NEW strays,
           Kept(e, timer, strays),
           e2.satisfied = e.satisfied,
           Unexpired(e) # {} => Unexpired(e2) # {},
           Downstreams(e) \subseteq Downstreams(e2),
           Upstreams(e) \subseteq Upstreams(e2)
    PROVE  Kept(e2, timer, strays)
<1>1. Spread(e) => Spread(e2)
    BY DEF Spread
<1> QED
    BY <1>1 DEF Kept

\* Where nothing can be sent on behalf of a downstream, its next hops are closed off.
LEMMA ClosedOff ==
    ASSUME RoutesKnown, up = Faces,
           NEW e \in Entry, NEW f \in Downstreams(e), Unexpired(e) # {}, Able(e, f) = {}
    PROVE  Spread(e)
<1> SUFFICES ASSUME NEW h \in Ordered \ Gains, <<f, h>> \notin Barred, h \notin Upstreams(e)
             PROVE  h \in Downstreams(e)
    BY DEF Spread
<1>1. h \in hops /\ h \in Faces
    BY OrderedFinite DEF RoutesKnown
<1>2. ~CanForwardToLegacy(e, h)
    BY <1>1 DEF Able
<1>3. e.out[h] \notin {"pending", "nacked"}
    BY <1>1 DEF Upstreams, NoRecord
<1>4. Unexpired(e) \ {h} = {}
    BY <1>2, <1>3 DEF CanForwardToLegacy
<1> QED
    BY <1>4 DEF Unexpired, Downstreams, NoRecord

(***************************************************************************)
(* Steps that change one entry and its timers.                             *)
(***************************************************************************)
LEMMA OneKept ==
    ASSUME Inv, NEW k \in Keys, NEW e \in Entry,
           pit' = [pit EXCEPT ![k] = e],
           up' = up,
           propagate' \in [Keys -> Faces \cup {NoTimer}],
           stray' \in Strays,
           \A j \in Keys \ {k} : propagate'[j] = propagate[j] /\ stray'[j] = stray[j],
           up = Faces => Kept(e, propagate'[k], stray'[k])
    PROVE  AllKept'
<1>1. ASSUME NEW j \in Keys, j # k
      PROVE  pit'[j] = pit[j]
    BY <1>1
<1>2. pit'[k] = e /\ e # NoEntry
    BY NoEntryAssumption DEF Inv, TypeOK, PipelineType
<1>3. ASSUME NEW j \in Keys, pit'[j] = NoEntry
      PROVE  propagate'[j] = NoTimer /\ \A f \in Faces : stray'[j][f] = 0
    BY <1>1, <1>2, <1>3 DEF Inv, AllKept, Pending
<1>4. ASSUME NEW j \in Keys, pit'[j] # NoEntry, up = Faces
      PROVE  Kept(pit'[j], propagate'[j], stray'[j])
    BY <1>1, <1>2, <1>4 DEF Inv, AllKept, Pending
<1> QED
    BY <1>3, <1>4 DEF AllKept, Pending, Kept, Spread, Unexpired, Downstreams, Upstreams

\* An Interest comes in and nothing is sent: what was kept still is.
LEMMA AskedKept ==
    ASSUME Inv, up = Faces, NEW k \in Keys, NEW f \in Faces,
           k \in Pending \/ Spread(Asked(k, f))
    PROVE  Kept(Asked(k, f), propagate[k], stray[k])
<1>0. PipelineType
    BY DEF Inv, TypeOK
<1> DEFINE e == Asked(k, f)
<1>1. /\ e \in Entry
      /\ e.satisfied = EntryOf(k).satisfied
      /\ Unexpired(e) # {}
      /\ Downstreams(EntryOf(k)) \subseteq Downstreams(e)
      /\ Upstreams(EntryOf(k)) = Upstreams(e)
    BY <1>0, AskedType DEF Upstreams
<1>2. CASE k \in Pending
    <2>1. EntryOf(k) = pit[k] /\ Kept(pit[k], propagate[k], stray[k])
        BY <1>0, <1>2, PendingType DEF Inv, AllKept
    <2>2. /\ Asked(k, f).satisfied = pit[k].satisfied
          /\ Unexpired(Asked(k, f)) # {}
          /\ Downstreams(pit[k]) \subseteq Downstreams(Asked(k, f))
          /\ Upstreams(pit[k]) \subseteq Upstreams(Asked(k, f))
        BY <1>1, <2>1
    <2> QED
        BY <2>1, <2>2, KeptGrows
<1>3. CASE k \notin Pending
    <2>1. propagate[k] = NoTimer /\ \A g \in Faces : stray[k][g] = 0
        BY <1>3 DEF Inv, AllKept
    <2>2. NoTimer \notin Faces
        BY OrderAssumption
    <2> QED
        BY <1>1, <1>3, <2>1, <2>2 DEF Kept
<1> QED
    BY <1>2, <1>3

\* Steps that leave the timers alone.
LEMMA KeepsTimers ==
    ASSUME Inv, NEW k \in Keys, NEW e \in Entry,
           pit' = [pit EXCEPT ![k] = e],
           UNCHANGED <<up, propagate, stray>>,
           up = Faces => Kept(e, propagate[k], stray[k])
    PROVE  AllKept'
<1>1. propagate' \in [Keys -> Faces \cup {NoTimer}] /\ stray' \in Strays
    BY DEF Inv, TypeOK, Strays
<1> QED
    BY <1>1, OneKept

LEMMA InitInv == Init => Inv
<1> SUFFICES ASSUME Init
             PROVE  Inv
    OBVIOUS
<1>1. PipelineType /\ Pending = {}
    BY DEF Init, PipelineInit, PipelineType, Pending
<1>2. RoutesKnown
    BY DEF Init, RoutesKnown
<1>3. TypeOK
    BY <1>1, OrderedFinite DEF Init, TypeOK
<1>4. AllKept
    BY <1>1 DEF Init, AllKept
<1> QED
    BY <1>2, <1>3, <1>4 DEF Inv

LEMMA NextInv == Inv /\ [Next]_vars => Inv'
<1> SUFFICES ASSUME Inv, [Next]_vars
             PROVE  Inv'
    OBVIOUS
<1>p. TypeOK /\ PipelineType /\ RoutesKnown /\ AllKept /\ mi \in Measurements /\ stray \in Strays
    BY DEF Inv, TypeOK, Measurements, Strays
<1>q. ASSUME TypeOK', hops' = hops, AllKept'
      PROVE  Inv'
    BY <1>p, <1>q DEF Inv, RoutesKnown
<1>w. ASSUME NEW k \in Pending, up = Faces
      PROVE  Kept(pit[k], propagate[k], stray[k])
    BY <1>p, <1>w DEF AllKept
<1>1. ASSUME NEW f \in Faces, NEW k \in Keys, DeclineInterest(f, k)
      PROVE  Inv'
    <2> DEFINE asked == Asked(k, f)
               e == IF hops \cap up = {} THEN Rejected(asked) ELSE asked
    <2>1. /\ pit' = [pit EXCEPT ![k] = e]
          /\ UNCHANGED <<up, hops, mi, propagate, late, stray, strayLate>>
          /\ hops \cap up = {} \/ HasPendingOutRecords(asked)
        BY <1>1 DEF DeclineInterest
    <2>2. asked \in Entry /\ f \in Downstreams(asked)
        BY <1>p, AskedType
    <2>3. ASSUME up = Faces
          PROVE  k \in Pending \/ Spread(asked)
        <3>1. CASE hops \cap up = {}
            <4>1. Ordered \ Gains = {}
                BY <1>p, <2>3, <3>1, OrderedFinite DEF RoutesKnown
            <4> HIDE DEF asked
            <4> QED
                BY <2>2, <4>1 DEF Spread
        <3>2. CASE HasPendingOutRecords(asked) /\ k \notin Pending
            <4>1. asked.out = NewEntry.out
                BY <1>p, <3>2, AskedType DEF EntryOf, Pending
            <4> QED
                BY <3>2, <4>1 DEF HasPendingOutRecords, NewEntry, NoRecord
        <3> QED
            BY <2>1, <3>1, <3>2
    <2>4. up = Faces => Kept(asked, propagate[k], stray[k])
        BY <2>3, AskedKept
    <2> HIDE DEF asked
    <2>5. e \in Entry
        BY <2>2, RejectedType
    <2>6. up = Faces => Kept(e, propagate[k], stray[k])
        <3>1. /\ Rejected(asked).satisfied = asked.satisfied
              /\ Rejected(asked).in = asked.in
              /\ Rejected(asked).out = asked.out
            BY <2>2, RejectedType
        <3> QED
            BY <2>4, <3>1 DEF Kept, Spread, Unexpired, Downstreams, Upstreams
    <2> HIDE DEF e
    <2>7. TypeOK'
        BY <1>p, <2>1, <2>5, EntryChanges DEF TypeOK
    <2> QED
        BY <1>q, <2>1, <2>5, <2>6, <2>7, KeepsTimers
<1>2. ASSUME NEW f \in Faces, NEW g \in Faces, NEW k \in Keys, ForwardInterest(f, k, g)
      PROVE  Inv'
    <2> DEFINE e == SentTo(Asked(k, f), {g})
    <2>1. /\ pit' = [pit EXCEPT ![k] = e]
          /\ mi' = Consulted(k)
          /\ propagate' = [propagate EXCEPT ![k] = f]
          /\ stray' = Astray(k)
          /\ UNCHANGED <<up, hops>>
          /\ late' = [late EXCEPT ![k] = @ \/ g = Consulted(k)[k].best]
          /\ strayLate' = [strayLate EXCEPT
                             ![k] = IF late[k] /\ g = Consulted(k)[k].best THEN @ + 1 ELSE @]
        BY <1>2 DEF ForwardInterest
    <2>2. /\ e \in Entry
          /\ f \in Downstreams(e)
          /\ Unexpired(e) # {}
          /\ Downstreams(EntryOf(k)) \subseteq Downstreams(e)
          /\ e.satisfied = EntryOf(k).satisfied
        <3>1. Asked(k, f) \in Entry /\ Asked(k, f).satisfied = EntryOf(k).satisfied
            BY <1>p, AskedType
        <3>2. e.satisfied = EntryOf(k).satisfied
            BY <3>1, SentToType
        <3> QED
            BY <1>p, <3>2, AskedDownstreams
    <2>3. /\ propagate' \in [Keys -> Faces \cup {NoTimer}]
          /\ propagate'[k] = f
          /\ \A j \in Keys \ {k} : propagate'[j] = propagate[j]
        BY <1>p, <2>1 DEF TypeOK
    <2>4. /\ stray' \in Strays
          /\ \A j \in Keys \ {k} : stray'[j] = stray[j]
          /\ \A h \in Faces : stray'[k][h] > 0 => stray[k][h] > 0 \/ propagate[k] = h
        BY <1>p, <2>1, AstrayType DEF TypeOK
    <2>5. late' \in [Keys -> BOOLEAN] /\ strayLate' \in [Keys -> Nat]
        BY <1>p, <2>1 DEF TypeOK
    <2> HIDE DEF e
    <2>6. TypeOK'
        BY <1>p, <2>1, <2>2, <2>3, <2>4, <2>5, EntryChanges, ConsultedType
           DEF TypeOK, Measurements, Strays
    <2>7. ASSUME up = Faces
          PROVE  Kept(e, propagate'[k], stray'[k])
        <3>1. f # NoTimer
            BY OrderAssumption
        <3>2. ASSUME ~e.satisfied, NEW h \in Faces, f = h \/ stray'[k][h] > 0
              PROVE  h \in Downstreams(e)
            <4>1. CASE f = h
                BY <2>2, <4>1
            <4>2. CASE stray'[k][h] > 0
                <5>1. stray[k][h] > 0 \/ propagate[k] = h
                    BY <2>4, <4>2
                <5>2. k \in Pending /\ EntryOf(k) = pit[k]
                    BY <1>p, <5>1, OrderAssumption DEF AllKept, Pending, EntryOf
                <5>3. h \in Downstreams(EntryOf(k))
                    BY <1>w, <2>2, <2>7, <3>2, <5>1, <5>2 DEF Kept
                <5> QED
                    BY <2>2, <5>3
            <4> QED
                BY <3>2, <4>1, <4>2
        <3> QED
            BY <2>2, <2>3, <3>1, <3>2 DEF Kept
    <2> QED
        BY <1>q, <2>1, <2>2, <2>3, <2>4, <2>6, <2>7, OneKept
<1>3. ASSUME NEW f \in Faces, NEW k \in Keys, RejectInterest(f, k)
      PROVE  Inv'
    <2> DEFINE asked == Asked(k, f)
    <2>1. /\ pit' = [pit EXCEPT ![k] = Rejected(asked)]
          /\ mi' = Consulted(k)
          /\ UNCHANGED <<up, hops, propagate, late, stray, strayLate>>
          /\ Able(asked, f) = {}
        BY <1>3 DEF RejectInterest
    <2>2. asked \in Entry /\ f \in Downstreams(asked) /\ Unexpired(asked) # {}
        BY <1>p, AskedType
    <2>3. ASSUME up = Faces
          PROVE  Kept(asked, propagate[k], stray[k])
        <3>1. Spread(asked)
            BY <1>p, <2>1, <2>2, <2>3, ClosedOff
        <3> QED
            BY <2>3, <3>1, AskedKept
    <2> HIDE DEF asked
    <2>4. /\ Rejected(asked) \in Entry
          /\ Rejected(asked).satisfied = asked.satisfied
          /\ Rejected(asked).in = asked.in
          /\ Rejected(asked).out = asked.out
        BY <2>2, RejectedType
    <2>5. up = Faces => Kept(Rejected(asked), propagate[k], stray[k])
        BY <2>3, <2>4 DEF Kept, Spread, Unexpired, Downstreams, Upstreams
    <2>6. TypeOK'
        BY <1>p, <2>1, <2>4, EntryChanges, ConsultedType DEF TypeOK, Measurements
    <2> QED
        BY <1>q, <2>1, <2>4, <2>5, <2>6, KeepsTimers
<1>4. ASSUME NEW f \in Faces, NEW k \in Keys, HitInterest(f, k)
      PROVE  Inv'
    <2>1. /\ pit' = [pit EXCEPT ![k] = Hit(k)]
          /\ UNCHANGED <<up, hops, mi, propagate, late, stray, strayLate>>
        BY <1>4 DEF HitInterest, InterestHits
    <2>2. Hit(k) \in Entry /\ Hit(k).satisfied
        BY <1>p, HitType, EntryOfType DEF Hit, Entry
    <2>3. Kept(Hit(k), propagate[k], stray[k])
        BY <2>2 DEF Kept
    <2>4. TypeOK'
        BY <1>p, <2>1, <2>2, EntryChanges DEF TypeOK
    <2> QED
        BY <1>q, <2>1, <2>2, <2>3, <2>4, KeepsTimers
<1>5. ASSUME NEW k \in Keys, NEW f \in Faces, NEW b \in BOOLEAN, DoPropagate(k, f, b)
      PROVE  Inv'
    <2> DEFINE sent == SentTo(pit[k], {Seen(k)[k].previous} \cap Able(pit[k], f))
               e == IF StillAsked(k, f) THEN Propagated(pit[k], k, f) ELSE pit[k]
               rearmed == StillAsked(k, f) /\ GoesOn(pit[k], k, f)
    <2>1. /\ IF b THEN stray[k][f] > 0 ELSE propagate[k] = f
          /\ StillAsked(k, f) => pit' = [pit EXCEPT ![k] = Propagated(pit[k], k, f)]
                                 /\ mi' = Seen(k)
          /\ ~StillAsked(k, f) => UNCHANGED <<pit, mi>>
          /\ propagate' = [propagate EXCEPT
                             ![k] = IF rearmed THEN f ELSE IF b THEN @ ELSE NoTimer]
          /\ stray' = [(IF b /\ rearmed THEN Astray(k) ELSE stray)
                         EXCEPT ![k][f] = IF b THEN @ - 1 ELSE @]
          /\ UNCHANGED <<up, hops, late, strayLate>>
        BY <1>5 DEF DoPropagate
    <2>2. k \in Pending /\ pit[k] \in Entry /\ EntryOf(k) = pit[k]
        <3>1. k \in Pending
            BY <1>p, <2>1, OrderAssumption DEF AllKept
        <3> QED
            BY <1>p, <3>1, PendingType
    <2>3. pit' = [pit EXCEPT ![k] = e]
        BY <1>p, <2>1, <2>2 DEF PipelineType
    <2>4. /\ sent \in Entry
          /\ Propagated(pit[k], k, f) = SentTo(sent, FirstOf(Able(sent, f)))
          /\ GoesOn(pit[k], k, f) = (Able(sent, f) # {})
          /\ sent.in = pit[k].in
          /\ sent.satisfied = pit[k].satisfied
          /\ Upstreams(pit[k]) \subseteq Upstreams(sent)
        BY <2>2, SentToType DEF Propagated, GoesOn
    <2> HIDE DEF sent
    <2>5. /\ Propagated(pit[k], k, f) \in Entry
          /\ Propagated(pit[k], k, f).in = pit[k].in
          /\ Propagated(pit[k], k, f).satisfied = pit[k].satisfied
          /\ Upstreams(sent) \subseteq Upstreams(Propagated(pit[k], k, f))
        BY <2>4, SentToType
    <2>6. /\ e \in Entry
          /\ e.in = pit[k].in
          /\ e.satisfied = pit[k].satisfied
          /\ Upstreams(pit[k]) \subseteq Upstreams(e)
          /\ StillAsked(k, f) => Upstreams(sent) \subseteq Upstreams(e)
        BY <2>2, <2>4, <2>5
    <2> HIDE DEF e, rearmed
    <2>7. /\ propagate' \in [Keys -> Faces \cup {NoTimer}]
          /\ \A j \in Keys \ {k} : propagate'[j] = propagate[j]
          /\ rearmed => propagate'[k] = f
          /\ ~rearmed /\ b => propagate'[k] = propagate[k]
          /\ ~rearmed /\ ~b => propagate'[k] = NoTimer
        BY <1>p, <2>1 DEF TypeOK
    <2>8. /\ stray' \in Strays
          /\ \A j \in Keys \ {k} : stray'[j] = stray[j]
          /\ \A g \in Faces : stray'[k][g] > 0 => stray[k][g] > 0 \/ propagate[k] = g
          /\ ~b => \A g \in Faces : stray'[k][g] = stray[k][g]
        <3> DEFINE from == IF b /\ rearmed THEN Astray(k) ELSE stray
        <3>1. /\ from \in Strays
              /\ \A j \in Keys \ {k} : from[j] = stray[j]
              /\ \A g \in Faces : /\ stray[k][g] <= from[k][g]
                                  /\ from[k][g] > 0 => stray[k][g] > 0 \/ propagate[k] = g
              /\ ~b => from = stray
            BY <1>p, AstrayType DEF TypeOK, Strays
        <3>2. stray' = [from EXCEPT ![k][f] = IF b THEN from[k][f] - 1 ELSE from[k][f]]
            BY <2>1
        <3>3. b => from[k][f] \in Nat \ {0}
            BY <1>p, <2>1, <3>1 DEF Strays
        <3> HIDE DEF from
        <3> DEFINE row == [from[k] EXCEPT ![f] = IF b THEN from[k][f] - 1 ELSE from[k][f]]
        <3>4. stray' = [from EXCEPT ![k] = row]
            BY <3>2
        <3>5. /\ row \in [Faces -> Nat]
              /\ \A g \in Faces : row[g] > 0 => from[k][g] > 0
              /\ ~b => \A g \in Faces : row[g] = from[k][g]
            BY <3>1, <3>3 DEF Strays
        <3> HIDE DEF row
        <3>6. stray' \in Strays /\ stray'[k] = row /\ \A j \in Keys \ {k} : stray'[j] = from[j]
            BY <3>1, <3>4, <3>5 DEF Strays
        <3> QED
            BY <3>1, <3>5, <3>6
    <2>9. mi' \in Measurements
        BY <1>p, <2>1, SeenType
    <2>10. TypeOK'
        BY <1>p, <2>1, <2>3, <2>6, <2>7, <2>8, <2>9, EntryChanges DEF TypeOK, Measurements, Strays
    <2>11. ASSUME up = Faces, ~pit[k].satisfied
           PROVE  Kept(e, propagate'[k], stray'[k])
        <3>1. /\ Unexpired(pit[k]) # {}
              /\ \A g \in Faces : propagate[k] = g \/ stray[k][g] > 0 => g \in Downstreams(pit[k])
            BY <1>w, <2>2, <2>11 DEF Kept
        <3>2. Unexpired(e) # {} /\ Downstreams(e) = Downstreams(pit[k])
            BY <2>6, <3>1 DEF Unexpired, Downstreams
        <3>3. f \in Downstreams(pit[k]) /\ StillAsked(k, f)
            BY <2>1, <2>2, <2>11, <3>1 DEF StillAsked
        <3>4. \A g \in Faces : propagate'[k] = g \/ stray'[k][g] > 0 => g \in Downstreams(e)
            <4>1. \A g \in Faces : propagate'[k] = g => g = f \/ propagate[k] = g
                BY <2>7, OrderAssumption
            <4> QED
                BY <2>8, <3>1, <3>2, <3>3, <4>1
        <3>5. CASE rearmed
            BY <2>7, <3>2, <3>4, <3>5, OrderAssumption DEF Kept
        <3>6. CASE ~rearmed
            <4>1. Able(sent, f) = {}
                BY <2>4, <3>3, <3>6 DEF rearmed
            <4>2. f \in Downstreams(sent) /\ Unexpired(sent) # {}
                BY <2>4, <3>1, <3>3 DEF Downstreams, Unexpired
            <4>3. Spread(sent)
                BY <1>p, <2>4, <2>11, <4>1, <4>2, ClosedOff
            <4>4. Downstreams(sent) = Downstreams(e) /\ Upstreams(sent) \subseteq Upstreams(e)
                BY <2>4, <2>6, <3>3 DEF Downstreams
            <4>5. Spread(e)
                BY <4>3, <4>4 DEF Spread
            <4> QED
                BY <3>2, <3>4, <4>5 DEF Kept
        <3> QED
            BY <3>5, <3>6
    <2>12. pit[k].satisfied => Kept(e, propagate'[k], stray'[k])
        BY <2>6 DEF Kept
    <2> QED
        BY <1>q, <2>1, <2>3, <2>6, <2>7, <2>8, <2>10, <2>11, <2>12, OneKept
<1>k. ASSUME UNCHANGED <<pit, up, propagate, stray>>
      PROVE  AllKept'
    BY <1>p, <1>k DEF AllKept, Pending, Kept, Spread, Unexpired, Downstreams, Upstreams
<1>6. ASSUME NEW k \in Keys, NEW b \in BOOLEAN, TimeoutOnBestFace(k, b)
      PROVE  Inv'
    <2>1. /\ IF b THEN strayLate[k] > 0 ELSE late[k]
          /\ mi' = [n \in Names |->
                      IF n \in Levels(k) THEN Slower(InfoAt(k, n)) ELSE Seen(k)[n]]
          /\ late' = [late EXCEPT ![k] = b /\ @]
          /\ strayLate' = [strayLate EXCEPT ![k] = IF b THEN @ - 1 ELSE @]
          /\ UNCHANGED <<pit, up, hops, propagate, stray>>
        BY <1>6 DEF TimeoutOnBestFace
    <2>2. mi' \in Measurements
        <3>1. \A n \in Names : InfoAt(k, n) \in Info /\ Seen(k)[n] \in Info \cup {NoInfo}
            BY <1>p, SeenType DEF Measurements
        <3>2. \A i \in Info : Slower(i) \in Info
            <4> TAKE i \in Info
            <4>1. Higher(i.prediction) \in MinPrediction .. MaxPrediction
                BY PredictionType DEF Info
            <4> QED
                BY <4>1 DEF Slower, Info
        <3> QED
            BY <2>1, <3>1, <3>2 DEF Measurements
    <2>3. late' \in [Keys -> BOOLEAN] /\ strayLate' \in [Keys -> Nat]
        BY <1>p, <2>1 DEF TypeOK
    <2>4. TypeOK'
        BY <1>p, <2>1, <2>2, <2>3 DEF TypeOK, PipelineType, Measurements
    <2> QED
        BY <1>q, <1>k, <2>1, <2>4
<1>7. ASSUME NEW f \in Faces, NEW k \in Keys, NEW b \in BOOLEAN, ReceiveData(f, k, b)
      PROVE  Inv'
    <2> DEFINE counts == Downstreams(pit[k]) # {}
    <2>1. /\ DataAnswers(f, {k}, b)
          /\ up' = up
          /\ mi' = [n \in Names |->
                IF ~counts THEN mi[n]
                ELSE IF n \in Levels(k) THEN Updated(InfoAt(k, n), f)
                ELSE Seen(k)[n]]
          /\ propagate' = [propagate EXCEPT ![k] = IF counts /\ ParentIn THEN NoTimer ELSE @]
          /\ late' = [late EXCEPT ![k] = @ /\ ~(counts /\ ParentIn)]
          /\ UNCHANGED <<hops, stray, strayLate>>
        BY <1>7 DEF ReceiveData, DataAnswers
    <2>2. /\ PipelineType'
          /\ \A j \in Keys \ {k} : pit'[j] = pit[j]
          /\ pit'[k] \in Entry /\ pit'[k].satisfied
        BY <1>p, <2>1, DataAnswersType
    <2>3. mi' \in Measurements
        <3>1. \A n \in Names : /\ InfoAt(k, n) \in Info
                               /\ Seen(k)[n] \in Info \cup {NoInfo}
                               /\ mi[n] \in Info \cup {NoInfo}
            BY <1>p, SeenType DEF Measurements
        <3>2. \A i \in Info : Updated(i, f) \in Info
            BY UpdatedType
        <3> QED
            BY <2>1, <3>1, <3>2 DEF Measurements
    <2>4. /\ propagate' \in [Keys -> Faces \cup {NoTimer}]
          /\ \A j \in Keys \ {k} : propagate'[j] = propagate[j]
          /\ late' \in [Keys -> BOOLEAN]
        BY <1>p, <2>1 DEF TypeOK
    <2>5. TypeOK'
        BY <1>p, <2>1, <2>2, <2>3, <2>4 DEF TypeOK, Measurements
    <2>6. pit' = [pit EXCEPT ![k] = pit'[k]] /\ Kept(pit'[k], propagate'[k], stray'[k])
        <3>1. pit' \in [Keys -> Entry \cup {NoEntry}] /\ pit \in [Keys -> Entry \cup {NoEntry}]
            BY <1>p, <2>2 DEF PipelineType
        <3>2. pit' = [pit EXCEPT ![k] = pit'[k]]
            BY <2>2, <3>1
        <3> QED
            BY <2>2, <3>2 DEF Kept
    <2>7. AllKept'
        BY <1>p, <2>1, <2>2, <2>4, <2>6, OneKept
    <2> QED
        BY <1>q, <2>1, <2>5, <2>7
<1>8. ASSUME NEW f \in Faces, NEW k \in Keys, ReceiveNack(f, k)
      PROVE  Inv'
    <2>1. /\ k \in Pending
          /\ pit[k] \in Entry
          /\ pit' = [pit EXCEPT ![k] = Nacked(pit[k], f)]
          /\ UNCHANGED <<up, hops, mi, propagate, late, stray, strayLate>>
        BY <1>8, <1>p, PendingType DEF ReceiveNack, NackArrives
    <2>2. /\ Nacked(pit[k], f) \in Entry
          /\ Nacked(pit[k], f).in = pit[k].in
          /\ Nacked(pit[k], f).satisfied = pit[k].satisfied
          /\ Upstreams(pit[k]) \subseteq Upstreams(Nacked(pit[k], f))
        BY <2>1, NackedType
    <2>3. /\ Unexpired(Nacked(pit[k], f)) = Unexpired(pit[k])
          /\ Downstreams(Nacked(pit[k], f)) = Downstreams(pit[k])
        BY <2>2 DEF Unexpired, Downstreams
    <2>4. up = Faces => Kept(Nacked(pit[k], f), propagate[k], stray[k])
        BY <1>w, <2>1, <2>2, <2>3, KeptGrows
    <2>5. TypeOK'
        BY <1>p, <2>1, <2>2, EntryChanges DEF TypeOK
    <2> QED
        BY <1>q, <2>1, <2>2, <2>4, <2>5, KeepsTimers
<1>9. ASSUME NEW k \in Keys, FinalizeInterest(k)
      PROVE  Inv'
    <2>1. /\ pit' = [pit EXCEPT ![k] = NoEntry]
          /\ propagate' = [propagate EXCEPT ![k] = NoTimer]
          /\ late' = [late EXCEPT ![k] = FALSE]
          /\ stray' = [stray EXCEPT ![k] = [f \in Faces |-> 0]]
          /\ strayLate' = [strayLate EXCEPT ![k] = 0]
          /\ UNCHANGED <<up, hops, mi>>
        BY <1>9 DEF FinalizeInterest, EntryEnds
    <2>2. TypeOK'
        BY <1>p, <2>1, EntryChanges DEF TypeOK
    <2>3. /\ propagate'[k] = NoTimer /\ \A f \in Faces : stray'[k][f] = 0
          /\ \A j \in Keys \ {k} : /\ pit'[j] = pit[j]
                                   /\ propagate'[j] = propagate[j]
                                   /\ stray'[j] = stray[j]
          /\ pit'[k] = NoEntry
        BY <1>p, <2>1 DEF TypeOK, PipelineType
    <2>4. AllKept'
        BY <1>p, <2>1, <2>3
           DEF AllKept, Pending, Kept, Spread, Unexpired, Downstreams, Upstreams
    <2> QED
        BY <1>q, <2>1, <2>2, <2>4
<1>10. ASSUME NEW k \in Keys, NEW f \in Faces, Lapse(k, f)
       PROVE  Inv'
    <2>1. RecordLapses(k, f) /\ UNCHANGED <<hops, mi, propagate, late, stray, strayLate>>
        BY <1>10 DEF Lapse
    <2>2. PICK e \in Entry :
             /\ pit' = [pit EXCEPT ![k] = e]
             /\ Downstreams(e) = Downstreams(pit[k])
             /\ Upstreams(e) = Upstreams(pit[k])
             /\ e.satisfied = pit[k].satisfied
             /\ up = Faces /\ Unexpired(pit[k]) # {} => Unexpired(e) # {}
        BY <1>p, <2>1, RecordLapsesType
    <2>3. PipelineType' /\ k \in Pending /\ up' = up
        BY <1>p, <2>1, RecordLapsesType
    <2>4. up = Faces => Kept(e, propagate[k], stray[k])
        BY <1>w, <2>2, <2>3, KeptGrows
    <2>5. TypeOK'
        BY <1>p, <2>1, <2>3 DEF TypeOK
    <2> QED
        BY <1>q, <2>1, <2>2, <2>3, <2>4, <2>5, KeepsTimers
<1>11. ASSUME NEW f \in Faces, RemoveFace(f)
       PROVE  Inv'
    <2>1. /\ FaceGoes(f)
          /\ mi' = [n \in Names |-> IF mi[n] = NoInfo THEN NoInfo ELSE Without(mi[n], f)]
          /\ UNCHANGED <<hops, propagate, late, stray, strayLate>>
        BY <1>11 DEF RemoveFace
    <2>2. /\ PipelineType'
          /\ up' = up \ {f}
          /\ \A k \in Keys : pit'[k] = NoEntry => pit[k] = NoEntry
        BY <1>p, <2>1, FaceGoesType
    <2>3. mi' \in Measurements
        <3>1. \A i \in Info : Without(i, f) \in Info
            BY UpdatedType
        <3> QED
            BY <1>p, <2>1, <3>1 DEF Measurements
    <2>4. TypeOK'
        BY <1>p, <2>1, <2>2, <2>3 DEF TypeOK, Measurements
    <2>5. AllKept'
        BY <1>p, <2>1, <2>2 DEF AllKept, Pending
    <2> QED
        BY <1>q, <2>1, <2>4, <2>5
<1>12. ASSUME NEW f \in Faces, ChangeRoute(f)
       PROVE  Inv'
    <2>1. /\ f \in Gains \cap Ordered
          /\ hops' = IF f \in hops THEN hops \ {f} ELSE hops \cup {f}
          /\ UNCHANGED <<pit, up, mi, propagate, late, stray, strayLate>>
        BY <1>12 DEF ChangeRoute
    <2>2. RoutesKnown'
        BY <1>p, <2>1 DEF RoutesKnown
    <2>3. TypeOK'
        BY <1>p, <2>1, <2>2, OrderedFinite DEF TypeOK, PipelineType
    <2> QED
        BY <1>k, <2>1, <2>2, <2>3 DEF Inv
<1>13. ASSUME NEW n \in Names, ForgetMeasurements(n)
       PROVE  Inv'
    <2>1. /\ mi' = [mi EXCEPT ![n] = NoInfo]
          /\ UNCHANGED <<pit, up, hops, propagate, late, stray, strayLate>>
        BY <1>13 DEF ForgetMeasurements
    <2>2. TypeOK'
        BY <1>p, <2>1 DEF TypeOK, PipelineType
    <2> QED
        BY <1>q, <1>k, <2>1, <2>2
<1>14. CASE UNCHANGED vars
    <2>1. TypeOK' /\ hops' = hops /\ UNCHANGED <<pit, up, propagate, stray>>
        BY <1>p, <1>14 DEF vars, TypeOK, PipelineType
    <2> QED
        BY <1>q, <1>k, <2>1
<1> QED
    BY <1>1, <1>2, <1>3, <1>4, <1>5, <1>6, <1>7, <1>8, <1>9, <1>10, <1>11, <1>12, <1>13,
       <1>14 DEF Next

LEMMA SpecInv == Spec => []Inv
BY InitInv, NextInv, PTL DEF Spec

(***************************************************************************)
(* The theorems.                                                           *)
(***************************************************************************)
\* The measurements of both levels, the timers and the events that are astray stay well
\* formed; in particular no sequence of answers and timeouts takes a prediction out of
\* its limits (ncc-strategy.cpp:186-245, 300-329).
THEOREM NccTyped == Spec => []TypeOK
<1>1. Inv => TypeOK
    BY DEF Inv
<1> QED
    BY <1>1, SpecInv, PTL

\* A prefix of the next hops that holds the face just used and, if it is counted, the
\* previous one.
LEMMA SpareNotNegative ==
    ASSUME TypeOK, RoutesKnown, NEW k \in Keys, NEW f \in Faces, NEW g \in Chosen(f, k)
    PROVE  Spare(k, f, g) >= 0
<1> DEFINE i == Consulted(k)[k]
           able == Able(SentTo(Asked(k, f), {g}), f)
           all == hops \cap up
           chosen == {h \in {i.best} : g = h}
           previous == {i.previous} \cap able
<1>1. g \in all
    BY ChosenType DEF Able
<1>2. g \notin able
    <2>1. PipelineType /\ g \in Faces
        BY <1>1 DEF TypeOK
    <2>2. Asked(k, f) \in Entry
        BY <2>1, AskedType
    <2>3. SentTo(Asked(k, f), {g}).out[g] = "pending"
        BY <2>1, <2>2 DEF SentTo, Entry
    <2> QED
        BY <2>3 DEF Able, CanForwardToLegacy
<1>3. chosen \subseteq {g} /\ previous \subseteq all \ {g} /\ (previous = {} \/ previous = {i.previous})
    BY <1>2 DEF Able
<1>4. IsFiniteSet(all)
    BY OrderedFinite, FS_Subset DEF RoutesKnown
<1>5. Spare(k, f, g) = Cardinality(all) - Cardinality(chosen) - Cardinality(previous)
    BY DEF Spare
<1> HIDE DEF all, chosen, previous, able, i
<1>6. IsFiniteSet(all \ {g}) /\ Cardinality(all \ {g}) = Cardinality(all) - 1
    BY <1>1, <1>4, FS_RemoveElement
<1>7. /\ Cardinality(chosen) \in Nat /\ Cardinality(chosen) <= 1
    <2>1. IsFiniteSet({g}) /\ Cardinality({g}) = 1
        BY FS_Singleton
    <2>2. IsFiniteSet(chosen) /\ Cardinality(chosen) <= Cardinality({g})
        BY <1>3, <2>1, FS_Subset
    <2> QED
        BY <2>1, <2>2, FS_CardinalityType
<1>8. /\ Cardinality(previous) \in Nat /\ Cardinality(previous) <= Cardinality(all) - 1
    BY <1>3, <1>6, FS_Subset, FS_CardinalityType
<1>9. Cardinality(all) \in Nat
    BY <1>4, FS_CardinalityType
<1> QED
    BY <1>5, <1>7, <1>8, <1>9

\* The number of next hops that are left, a size_t, is never counted below zero, for any
\* FIB entry, whatever it gained or lost meanwhile (ncc-strategy.cpp:83-130).
THEOREM SpareCounted == Spec => []UpstreamsCounted
<1>1. Inv => UpstreamsCounted
    <2> SUFFICES ASSUME Inv, NEW k \in Keys, NEW f \in up \cap Askers, NEW g \in Chosen(f, k)
                 PROVE  Spare(k, f, g) >= 0
        BY DEF UpstreamsCounted
    <2> QED
        BY SpareNotNegative DEF Inv, TypeOK, PipelineType
<1> QED
    BY <1>1, SpecInv, PTL

\* Propagation does not stop before every next hop that stays is tried, for any number of
\* next hops and any number of overwritten timers (ncc-strategy.cpp:62-184).
THEOREM PropagationKeptUp == Spec => []PropagationGoesOn
<1>1. Inv => PropagationGoesOn
    <2> SUFFICES ASSUME Inv, up = Faces, NEW k \in Pending, ~pit[k].satisfied
                 PROVE  \/ propagate[k] # NoTimer
                        \/ \E g \in Faces : stray[k][g] > 0
                        \/ Spread(pit[k])
        BY DEF PropagationGoesOn, Spread
    <2> QED
        BY DEF Inv, AllKept, Kept
<1> QED
    BY <1>1, SpecInv, PTL
=============================================================================
