---------------------------- MODULE AccessProofs ----------------------------
(***************************************************************************)
(* Theorems about AccessStrategy, for any faces, names and next hops.      *)
(***************************************************************************)
EXTENDS AccessStrategy, PipelineProofs

(***************************************************************************)
(* Steps that change one entry and leave its downstreams there.            *)
(***************************************************************************)
Inv == TypeOK /\ RtoHasDownstream

\* The timer of a key is set on behalf of a face that is a downstream, or gone.
Covered(k, e) == rto'[k] # NoTimer /\ rto'[k].face \in up => rto'[k].face \in Downstreams(e)

LEMMA OneEntry ==
    ASSUME Inv, NEW k \in Keys, NEW e \in Entry,
           pit' = [pit EXCEPT ![k] = e],
           up' = up,
           last' \in Faces \cup {NoFace},
           rto' \in [Keys -> Timer \cup {NoTimer}],
           \A j \in Keys \ {k} : rto'[j] = rto[j],
           Covered(k, e)
    PROVE  Inv'
<1>1. PipelineType'
    BY DEF Inv, TypeOK, PipelineType
<1>2. TypeOK'
    BY <1>1 DEF TypeOK
<1>3. ASSUME NEW j \in Keys, rto'[j] # NoTimer
      PROVE  /\ j \in Pending'
             /\ rto'[j].face \in up' => rto'[j].face \in Downstreams(pit'[j])
    <2>1. CASE j = k
        BY <1>3, <2>1, NoEntryAssumption DEF Pending, Covered, Inv, TypeOK, PipelineType
    <2>2. CASE j # k
        BY <1>3, <2>2 DEF Pending, Inv, TypeOK, PipelineType, RtoHasDownstream
    <2> QED
        BY <2>1, <2>2
<1>4. RtoHasDownstream'
    BY <1>3 DEF RtoHasDownstream
<1> QED
    BY <1>2, <1>4 DEF Inv

\* An entry that keeps its downstreams keeps that of its timer.
LEMMA KeptDownstream ==
    ASSUME Inv, NEW k \in Keys, NEW e \in Entry, rto' = rto,
           Downstreams(EntryOf(k)) \subseteq Downstreams(e)
    PROVE  Covered(k, e)
BY DEF Inv, RtoHasDownstream, Covered, Pending, EntryOf

LEMMA CancelledType ==
    ASSUME TypeOK, NEW K
    PROVE  Cancelled(K) \in [Keys -> Timer \cup {NoTimer}]
BY DEF TypeOK, Cancelled

\* Steps without a change of the timers in which only records go on ageing.
LEMMA KeepsTimers ==
    ASSUME Inv, NEW k \in Keys, NEW e \in Entry,
           pit' = [pit EXCEPT ![k] = e],
           UNCHANGED <<up, last, rto>>,
           Downstreams(EntryOf(k)) \subseteq Downstreams(e)
    PROVE  Inv'
<1>1. /\ rto' \in [Keys -> Timer \cup {NoTimer}]
      /\ last' \in Faces \cup {NoFace}
      /\ \A j \in Keys \ {k} : rto'[j] = rto[j]
    BY DEF Inv, TypeOK
<1> QED
    BY <1>1, KeptDownstream, OneEntry

LEMMA InitInv == Init => Inv
BY DEF Init, Inv, TypeOK, PipelineInit, PipelineType, RtoHasDownstream

LEMMA NextInv == Inv /\ [Next]_vars => Inv'
<1> SUFFICES ASSUME Inv, [Next]_vars
             PROVE  Inv'
    OBVIOUS
<1> USE HopAssumption
<1>p. PipelineType
    BY DEF Inv, TypeOK
<1>1. ASSUME NEW f \in Faces, NEW k \in Keys, SendToLastNexthop(f, k)
      PROVE  Inv'
    <2> DEFINE e == SentTo(Asked(k, f), {last})
    <2>1. /\ e \in Entry
          /\ f \in Downstreams(e)
        BY <1>p, AskedDownstreams
    <2>2. /\ pit' = [pit EXCEPT ![k] = e]
          /\ up' = up
          /\ last' = last
          /\ last \in Faces
          /\ rto' = [rto EXCEPT ![k] = [face |-> f, first |-> last]]
        BY <1>1 DEF SendToLastNexthop, LastUsable, Targets
    <2>3. /\ rto' \in [Keys -> Timer \cup {NoTimer}]
          /\ rto'[k].face = f
          /\ \A j \in Keys \ {k} : rto'[j] = rto[j]
        BY <2>2 DEF Inv, TypeOK, Timer
    <2>4. Covered(k, e)
        BY <2>1, <2>3 DEF Covered
    <2> HIDE DEF e
    <2> QED
        BY <2>1, <2>2, <2>3, <2>4, OneEntry
<1>2. ASSUME NEW f \in Faces, NEW k \in Keys, MulticastNew(f, k)
      PROVE  Inv'
    <2> DEFINE sent == SentTo(Asked(k, f), Targets(f))
               e == IF Targets(f) = {} THEN Rejected(sent) ELSE sent
    <2>1. /\ sent \in Entry
          /\ Downstreams(EntryOf(k)) \subseteq Downstreams(sent)
        BY <1>p, AskedDownstreams
    <2>2. /\ e \in Entry
          /\ Downstreams(e) = Downstreams(sent)
        BY <2>1, RejectedType DEF Downstreams
    <2>3. /\ pit' = [pit EXCEPT ![k] = e]
          /\ UNCHANGED <<up, last, rto>>
        BY <1>2 DEF MulticastNew
    <2> HIDE DEF e, sent
    <2> QED
        BY <2>1, <2>2, <2>3, KeepsTimers
<1>3. ASSUME NEW f \in Faces, NEW k \in Keys, NEW b \in BOOLEAN, Retransmit(f, k, b)
      PROVE  Inv'
    <2> DEFINE e == SentTo(Asked(k, f), IF b THEN {} ELSE Targets(f))
    <2>1. /\ e \in Entry
          /\ Downstreams(EntryOf(k)) \subseteq Downstreams(e)
        BY <1>p, AskedDownstreams
    <2>2. /\ pit' = [pit EXCEPT ![k] = e]
          /\ UNCHANGED <<up, last, rto>>
        BY <1>3 DEF Retransmit
    <2> HIDE DEF e
    <2> QED
        BY <2>1, <2>2, KeepsTimers
<1>4. ASSUME NEW f \in Faces, NEW k \in Keys, HitInterest(f, k)
      PROVE  Inv'
    <2>1. /\ pit' = [pit EXCEPT ![k] = Hit(k)]
          /\ up' = up
          /\ last' = last
          /\ rto' = Cancelled({k})
        BY <1>4 DEF HitInterest, InterestHits
    <2>2. /\ rto' \in [Keys -> Timer \cup {NoTimer}]
          /\ rto'[k] = NoTimer
          /\ \A j \in Keys \ {k} : rto'[j] = rto[j]
          /\ last' \in Faces \cup {NoFace}
        BY <2>1, CancelledType DEF Inv, TypeOK, Cancelled
    <2>3. Covered(k, Hit(k))
        BY <2>2 DEF Covered
    <2> QED
        BY <1>p, <2>1, <2>2, <2>3, HitType, OneEntry
<1>5. ASSUME NEW k \in Keys, RtoTimeout(k)
      PROVE  Inv'
    <2>1. /\ k \in Pending
          /\ pit[k] \in Entry
          /\ rto[k] # NoTimer
        BY <1>5 DEF RtoTimeout, Inv, TypeOK, PipelineType, RtoHasDownstream, Pending
    <2>2. PICK e \in Entry : pit' = [pit EXCEPT ![k] = e]
        <3>1. SentTo(pit[k], Targets(rto[k].face) \ {rto[k].first}) \in Entry
            BY <2>1, SentToType
        <3>2. pit = [pit EXCEPT ![k] = pit[k]]
            BY DEF Inv, TypeOK, PipelineType
        <3> QED
            BY <1>5, <2>1, <3>1, <3>2 DEF RtoTimeout
    <2>3. /\ rto' \in [Keys -> Timer \cup {NoTimer}]
          /\ rto'[k] = NoTimer
          /\ \A j \in Keys \ {k} : rto'[j] = rto[j]
          /\ last' \in Faces \cup {NoFace}
          /\ up' = up
        BY <1>5 DEF RtoTimeout, Inv, TypeOK
    <2>4. Covered(k, e)
        BY <2>3 DEF Covered
    <2> QED
        BY <2>2, <2>3, <2>4, OneEntry
<1>6. ASSUME NEW f \in Faces, NEW K \in SUBSET Keys, NEW b \in BOOLEAN, ReceiveData(f, K, b)
      PROVE  Inv'
    <2>1. /\ K \subseteq Pending
          /\ pit' = [k \in Keys |-> IF k \in K THEN Answered(pit[k], f, b) ELSE pit[k]]
          /\ up' = up
          /\ rto' = Cancelled(K)
          /\ last' \in Faces \cup {NoFace}
        BY <1>6 DEF ReceiveData, DataAnswers, Inv, TypeOK
    <2>3. PipelineType'
        BY <1>6, <1>p, DataAnswersType DEF ReceiveData
    <2>4. RtoHasDownstream'
        BY <2>1 DEF Inv, TypeOK, PipelineType, RtoHasDownstream, Cancelled, Pending
    <2> QED
        BY <2>1, <2>3, <2>4, CancelledType DEF Inv, TypeOK
<1>7. ASSUME NEW f \in Faces, NEW k \in Keys, ReceiveNack(f, k)
      PROVE  Inv'
    <2>1. /\ k \in Pending
          /\ pit[k] \in Entry
          /\ EntryOf(k) = pit[k]
        BY <1>7 DEF ReceiveNack, NackArrives, Inv, TypeOK, PipelineType, Pending, EntryOf
    <2>2. /\ pit' = [pit EXCEPT ![k] = Nacked(pit[k], f)]
          /\ UNCHANGED <<up, last, rto>>
        BY <1>7 DEF ReceiveNack
    <2>3. /\ Nacked(pit[k], f) \in Entry
          /\ Downstreams(Nacked(pit[k], f)) = Downstreams(pit[k])
        BY <2>1, NackedType DEF Downstreams
    <2> QED
        BY <2>1, <2>2, <2>3, KeepsTimers
<1>8. ASSUME NEW k \in Keys, FinalizeInterest(k)
      PROVE  Inv'
    <2>1. /\ pit' = [pit EXCEPT ![k] = NoEntry]
          /\ UNCHANGED <<up, last>>
          /\ rto' = Cancelled({k})
        BY <1>8 DEF FinalizeInterest, EntryEnds
    <2>2. TypeOK'
        BY <2>1, CancelledType DEF Inv, TypeOK, PipelineType
    <2>3. RtoHasDownstream'
        BY <2>1 DEF Inv, TypeOK, PipelineType, RtoHasDownstream, Cancelled, Pending
    <2> QED
        BY <2>2, <2>3 DEF Inv
<1>9. ASSUME NEW k \in Keys, NEW f \in Faces, Lapse(k, f)
      PROVE  Inv'
    <2>1. RecordLapses(k, f) /\ UNCHANGED <<last, rto>>
        BY <1>9 DEF Lapse
    <2>2. PICK e \in Entry : /\ pit' = [pit EXCEPT ![k] = e]
                            /\ Downstreams(e) = Downstreams(pit[k])
        BY <1>p, <2>1, RecordLapsesType
    <2>3. EntryOf(k) = pit[k] /\ up' = up
        BY <1>p, <2>1, RecordLapsesType, PendingType
    <2> QED
        BY <2>1, <2>2, <2>3, KeepsTimers
<1>10. ASSUME NEW f \in Faces, RemoveFace(f)
       PROVE  Inv'
    <2>1. FaceGoes(f) /\ UNCHANGED <<last, rto>>
        BY <1>10 DEF RemoveFace
    <2>2. /\ PipelineType'
          /\ up' = up \ {f}
          /\ \A k \in Keys : pit[k] # NoEntry =>
                /\ pit'[k] # NoEntry
                /\ Downstreams(pit'[k]) = Downstreams(pit[k]) \ {f}
        BY <1>p, <2>1, FaceGoesType
    <2>3. TypeOK'
        BY <2>1, <2>2 DEF Inv, TypeOK
    <2>4. RtoHasDownstream'
        BY <2>1, <2>2 DEF Inv, RtoHasDownstream, Pending
    <2> QED
        BY <2>3, <2>4 DEF Inv
<1>11. CASE ForgetMeasurements
    BY <1>11 DEF ForgetMeasurements, Inv, TypeOK, PipelineType, RtoHasDownstream, Pending,
                 Downstreams
<1>12. CASE UNCHANGED vars
    BY <1>12 DEF vars, Inv, TypeOK, PipelineType, RtoHasDownstream, Pending, Downstreams
<1> QED
    BY <1>1, <1>2, <1>3, <1>4, <1>5, <1>6, <1>7, <1>8, <1>9, <1>10, <1>11, <1>12 DEF Next

LEMMA SpecInv == Spec => []Inv
BY InitInv, NextInv, PTL DEF Spec

(***************************************************************************)
(* EveryHopTried, strengthened: as long as every face is there, an entry   *)
(* that no Data answered is waiting for its timer or has been sent to all  *)
(* the next hops open to one of its downstreams, even while it is due; and *)
(* the next hop a timer leaves out has an out-record already.              *)
(***************************************************************************)
Tries(e, timer) ==
    /\ \/ e.satisfied
       \/ timer # NoTimer
       \/ \E f \in Downstreams(e) : Targets(f) \subseteq Upstreams(e)
    /\ timer # NoTimer => timer.first \in Upstreams(e)

AllTried == up = Faces => \A k \in Pending : Tries(pit[k], rto[k])

LEMMA OneTries ==
    ASSUME Inv, AllTried, NEW k \in Keys, NEW e \in Entry \cup {NoEntry},
           pit' = [pit EXCEPT ![k] = e],
           up' = up,
           \A j \in Keys \ {k} : rto'[j] = rto[j],
           up = Faces /\ e # NoEntry => Tries(e, rto'[k])
    PROVE  AllTried'
<1> SUFFICES ASSUME up = Faces, NEW j \in Keys, pit'[j] # NoEntry
             PROVE  Tries(pit[j], rto[j])'
    BY DEF AllTried, Pending
<1>1. \A f : Targets(f)' = Targets(f)
    BY DEF Targets
<1>2. Tries(pit'[j], rto'[j])
    BY DEF AllTried, Pending, Inv, TypeOK, PipelineType
<1> QED
    BY <1>1, <1>2 DEF Tries, Downstreams, Upstreams

\* The record of an Interest that was sent to its targets, or to one with a timer.
LEMMA AskedTries ==
    ASSUME PipelineType, AllTried, up = Faces, NEW k \in Keys, NEW f \in Faces, NEW S, NEW t,
           \/ Targets(f) \subseteq S /\ t = rto[k]
           \/ t # NoTimer /\ t.first \in S \cap Faces
           \/ HasPendingOutRecords(Asked(k, f)) /\ t = rto[k],
           pit[k] = NoEntry => rto[k] = NoTimer
    PROVE  Tries(SentTo(Asked(k, f), S), t)
<1> DEFINE e == SentTo(Asked(k, f), S)
<1>1. /\ f \in Downstreams(e)
      /\ Downstreams(EntryOf(k)) \subseteq Downstreams(e)
      /\ Upstreams(e) = Upstreams(EntryOf(k)) \cup (S \cap Faces)
      /\ e.satisfied = EntryOf(k).satisfied
    <2>1. /\ Asked(k, f) \in Entry
          /\ Upstreams(Asked(k, f)) = Upstreams(EntryOf(k))
          /\ Asked(k, f).satisfied = EntryOf(k).satisfied
        BY AskedType DEF Upstreams
    <2> QED
        BY <2>1, SentToType, AskedDownstreams
<1>2. Targets(f) \subseteq Faces
    BY HopAssumption DEF Targets
<1>3. ASSUME k \in Pending
      PROVE  EntryOf(k) = pit[k] /\ Tries(pit[k], rto[k])
    BY <1>3 DEF EntryOf, Pending, AllTried
<1>4. CASE t = rto[k] /\ k \in Pending
    BY <1>1, <1>2, <1>3, <1>4 DEF Tries
<1>5. CASE t # NoTimer /\ t.first \in S \cap Faces
    BY <1>1, <1>5 DEF Tries
<1>6. CASE t = rto[k] /\ k \notin Pending
    <2>1. EntryOf(k) = NewEntry /\ t = NoTimer
        BY <1>6 DEF EntryOf, Pending
    <2>2. ~HasPendingOutRecords(Asked(k, f))
        <3>1. Asked(k, f).out = NewEntry.out
            BY <2>1, AskedType
        <3> QED
            BY <3>1 DEF HasPendingOutRecords, NewEntry, NoRecord
    <2>3. Targets(f) \subseteq S \/ t.first \in S \cap Faces
        BY <2>1, <2>2
    <2> QED
        BY <1>1, <1>2, <2>1, <2>2, <2>3 DEF Tries
<1> QED
    BY <1>4, <1>5, <1>6

LEMMA NextTries == Inv /\ AllTried /\ [Next]_vars => AllTried'
<1> SUFFICES ASSUME Inv, AllTried, [Next]_vars
             PROVE  AllTried'
    OBVIOUS
<1>p. /\ PipelineType
      /\ \A k \in Keys : pit[k] = NoEntry => rto[k] = NoTimer
    BY DEF Inv, TypeOK, RtoHasDownstream, Pending
<1>1. ASSUME NEW f \in Faces, NEW k \in Keys, SendToLastNexthop(f, k)
      PROVE  AllTried'
    <2> DEFINE e == SentTo(Asked(k, f), {last})
               t == [face |-> f, first |-> last]
    <2>1. /\ pit' = [pit EXCEPT ![k] = e]
          /\ up' = up
          /\ last \in Faces
          /\ rto' = [rto EXCEPT ![k] = t]
        BY <1>1, HopAssumption DEF SendToLastNexthop, LastUsable, Targets
    <2>2. rto'[k] = t /\ \A j \in Keys \ {k} : rto'[j] = rto[j]
        BY <2>1 DEF Inv, TypeOK
    <2>3. t # NoTimer
        BY <2>1, NoTimerAssumption DEF Timer
    <2>4. e \in Entry
        BY <1>p, AskedDownstreams
    <2>5. up = Faces => Tries(e, t)
        BY <1>p, <2>1, <2>3, AskedTries
    <2> HIDE DEF e, t
    <2> QED
        BY <2>1, <2>2, <2>4, <2>5, OneTries
<1>2. ASSUME NEW f \in Faces, NEW k \in Keys, MulticastNew(f, k)
      PROVE  AllTried'
    <2> DEFINE sent == SentTo(Asked(k, f), Targets(f))
               e == IF Targets(f) = {} THEN Rejected(sent) ELSE sent
    <2>1. pit' = [pit EXCEPT ![k] = e] /\ UNCHANGED <<up, rto>>
        BY <1>2 DEF MulticastNew
    <2>2. sent \in Entry
        BY <1>p, AskedDownstreams
    <2>3. up = Faces => Tries(sent, rto[k])
        BY <1>p, AskedTries
    <2> HIDE DEF sent
    <2>4. e \in Entry /\ (up = Faces => Tries(e, rto[k]))
        BY <2>2, <2>3, RejectedType DEF Tries, Downstreams, Upstreams
    <2> HIDE DEF e
    <2> QED
        BY <2>1, <2>4, OneTries
<1>3. ASSUME NEW f \in Faces, NEW k \in Keys, NEW b \in BOOLEAN, Retransmit(f, k, b)
      PROVE  AllTried'
    <2> DEFINE e == SentTo(Asked(k, f), IF b THEN {} ELSE Targets(f))
    <2>1. /\ pit' = [pit EXCEPT ![k] = e]
          /\ UNCHANGED <<up, rto>>
          /\ HasPendingOutRecords(Asked(k, f))
        BY <1>3 DEF Retransmit
    <2>2. e \in Entry
        BY <1>p, AskedDownstreams
    <2>3. up = Faces => Tries(e, rto[k])
        BY <1>p, <2>1, AskedTries
    <2> HIDE DEF e
    <2> QED
        BY <2>1, <2>2, <2>3, OneTries
<1>4. ASSUME NEW f \in Faces, NEW k \in Keys, HitInterest(f, k)
      PROVE  AllTried'
    <2>1. /\ pit' = [pit EXCEPT ![k] = Hit(k)]
          /\ up' = up
          /\ rto' = Cancelled({k})
        BY <1>4 DEF HitInterest, InterestHits
    <2>2. /\ rto'[k] = NoTimer
          /\ \A j \in Keys \ {k} : rto'[j] = rto[j]
        BY <2>1 DEF Cancelled
    <2>3. Tries(Hit(k), NoTimer)
        BY <1>p, EntryOfType DEF Tries, Hit, Entry
    <2> QED
        BY <1>p, <2>1, <2>2, <2>3, HitType, OneTries
<1>5. ASSUME NEW k \in Keys, RtoTimeout(k)
      PROVE  AllTried'
    <2> DEFINE f == rto[k].face
               e == SentTo(pit[k], Targets(f) \ {rto[k].first})
    <2>1. /\ k \in Pending
          /\ pit[k] \in Entry
          /\ f \in Faces
          /\ f \in up => f \in Downstreams(pit[k])
          /\ rto[k] # NoTimer
        BY <1>5, <1>p, PendingType DEF RtoTimeout, Inv, TypeOK, RtoHasDownstream, Timer
    <2>2. /\ rto' = [rto EXCEPT ![k] = NoTimer]
          /\ up' = up
          /\ f \in up => pit' = [pit EXCEPT ![k] = e]
        BY <1>5 DEF RtoTimeout
    <2>3. /\ rto'[k] = NoTimer
          /\ \A j \in Keys \ {k} : rto'[j] = rto[j]
        BY <2>2 DEF Inv, TypeOK
    <2>4. CASE f \notin up
        BY <2>1, <2>2, <2>4 DEF AllTried
    <2>5. CASE f \in up
        <3>1. /\ e \in Entry
              /\ Downstreams(e) = Downstreams(pit[k])
              /\ Upstreams(e) = Upstreams(pit[k]) \cup ((Targets(f) \ {rto[k].first}) \cap Faces)
            BY <2>1, SentToType DEF Downstreams
        <3>2. ASSUME up = Faces
              PROVE  Targets(f) \subseteq Upstreams(e)
            <4>1. rto[k].first \in Upstreams(pit[k])
                BY <2>1, <3>2 DEF AllTried, Tries
            <4>2. Targets(f) \subseteq Faces
                BY HopAssumption DEF Targets
            <4> QED
                BY <3>1, <4>1, <4>2
        <3>3. up = Faces => Tries(e, NoTimer)
            BY <2>1, <2>5, <3>1, <3>2 DEF Tries
        <3> HIDE DEF e, f
        <3> QED
            BY <2>2, <2>3, <2>5, <3>1, <3>3, OneTries
    <2> QED
        BY <2>4, <2>5
<1>6. ASSUME NEW f \in Faces, NEW K \in SUBSET Keys, NEW b \in BOOLEAN, ReceiveData(f, K, b)
      PROVE  AllTried'
    <2>1. DataAnswers(f, K, b) /\ rto' = Cancelled(K) /\ up' = up
        BY <1>6 DEF ReceiveData, DataAnswers
    <2>2. /\ \A k \in Keys \ K : pit'[k] = pit[k]
          /\ \A k \in K : pit'[k] \in Entry /\ pit'[k].satisfied
        BY <1>p, <2>1, DataAnswersType
    <2>3. \A g : Targets(g)' = Targets(g)
        BY <2>1 DEF Targets
    <2> SUFFICES ASSUME up = Faces, NEW k \in Keys, pit'[k] # NoEntry
                 PROVE  Tries(pit[k], rto[k])'
        BY <2>1 DEF AllTried, Pending
    <2>4. CASE k \in K
        <3>1. rto'[k] = NoTimer
            BY <2>1, <2>4 DEF Cancelled
        <3> QED
            BY <2>2, <2>4, <3>1 DEF Tries
    <2>5. CASE k \notin K
        <3>1. rto'[k] = rto[k] /\ pit'[k] = pit[k]
            BY <2>1, <2>2, <2>5 DEF Cancelled
        <3>2. Tries(pit[k], rto[k])
            BY <3>1 DEF AllTried, Pending
        <3> QED
            BY <2>3, <3>1, <3>2 DEF Tries, Downstreams, Upstreams
    <2> QED
        BY <2>4, <2>5
<1>7. ASSUME NEW f \in Faces, NEW k \in Keys, ReceiveNack(f, k)
      PROVE  AllTried'
    <2>1. /\ k \in Pending
          /\ pit[k] \in Entry
          /\ pit' = [pit EXCEPT ![k] = Nacked(pit[k], f)]
          /\ UNCHANGED <<up, rto>>
        BY <1>7, <1>p, PendingType DEF ReceiveNack, NackArrives
    <2>2. up = Faces => Tries(pit[k], rto[k])
        BY <2>1 DEF AllTried
    <2>3. up = Faces => Tries(Nacked(pit[k], f), rto[k])
        BY <2>1, <2>2, NackedType DEF Tries, Downstreams
    <2> QED
        BY <2>1, <2>3, NackedType, OneTries
<1>8. ASSUME NEW k \in Keys, FinalizeInterest(k)
      PROVE  AllTried'
    <2>1. /\ pit' = [pit EXCEPT ![k] = NoEntry]
          /\ up' = up
          /\ rto' = Cancelled({k})
        BY <1>8 DEF FinalizeInterest, EntryEnds
    <2>2. \A j \in Keys \ {k} : rto'[j] = rto[j]
        BY <2>1 DEF Cancelled
    <2> QED
        BY <2>1, <2>2, OneTries
<1>9. ASSUME NEW k \in Keys, NEW f \in Faces, Lapse(k, f)
      PROVE  AllTried'
    <2>1. RecordLapses(k, f) /\ rto' = rto
        BY <1>9 DEF Lapse
    <2>2. PICK e \in Entry : /\ pit' = [pit EXCEPT ![k] = e]
                            /\ Downstreams(e) = Downstreams(pit[k])
                            /\ Upstreams(e) = Upstreams(pit[k])
                            /\ e.satisfied = pit[k].satisfied
        BY <1>p, <2>1, RecordLapsesType
    <2>3. k \in Pending /\ up' = up
        BY <1>p, <2>1, RecordLapsesType
    <2>4. up = Faces => Tries(e, rto[k])
        BY <2>2, <2>3 DEF AllTried, Tries
    <2> QED
        BY <2>1, <2>2, <2>3, <2>4, OneTries
<1>10. ASSUME NEW f \in Faces, RemoveFace(f)
       PROVE  AllTried'
    <2>1. up' = up \ {f} /\ f \in up
        BY <1>10, <1>p, FaceGoesType DEF RemoveFace
    <2> QED
        BY <2>1 DEF AllTried
<1>11. CASE ForgetMeasurements \/ UNCHANGED vars
    <2>1. UNCHANGED <<pit, up, rto>>
        BY <1>11 DEF ForgetMeasurements, vars
    <2> QED
        BY <2>1 DEF AllTried, Tries, Pending, Targets, Downstreams, Upstreams
<1> QED
    BY <1>1, <1>2, <1>3, <1>4, <1>5, <1>6, <1>7, <1>8, <1>9, <1>10, <1>11 DEF Next

(***************************************************************************)
(* The theorems.                                                           *)
(***************************************************************************)
\* The strategy's timers and last next hop and the entries stay well formed, whatever the
\* faces, next hops and names (access-strategy.cpp:59-283).
THEOREM AccessTyped == Spec => []TypeOK
<1>1. Inv => TypeOK
    BY DEF Inv
<1> QED
    BY <1>1, SpecInv, PTL

\* What afterRtoTimeout asserts holds whenever its timer may run out, for any number of
\* names under the prefix and any next hops (access-strategy.cpp:160-187).
THEOREM TimerHasDownstream == Spec => []RtoHasDownstream
<1>1. Inv => RtoHasDownstream
    BY DEF Inv
<1> QED
    BY <1>1, SpecInv, PTL

\* No Interest is stuck at the last next hop: while no face is removed, an entry that
\* nothing answers has a timer running or has been sent to every next hop open to one
\* of its downstreams, whatever Interests, Nacks and Data came in between
\* (access-strategy.cpp:59-117, 164-191).
THEOREM NoHopForgotten == Spec => []EveryHopTried
<1>1. Init => AllTried
    BY DEF Init, PipelineInit, AllTried, Pending
<1>2. AllTried => EveryHopTried
    BY DEF AllTried, EveryHopTried, Tries
<1> QED
    BY <1>1, <1>2, InitInv, NextInv, NextTries, PTL DEF Spec
=============================================================================
