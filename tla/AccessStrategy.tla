--------------------------- MODULE AccessStrategy ---------------------------
(***************************************************************************)
(* The access router strategy (fw/access-strategy.cpp): an Interest goes to*)
(* the next hop the last Data came from, and to all others when no Data    *)
(* comes within the RTO.                                                   *)
(*                                                                         *)
(* All keys are under one prefix, so that they share one MtInfo.  How long *)
(* an RTO is, the RTT estimator says: the timer runs out at any time.      *)
(***************************************************************************)
EXTENDS Pipeline

CONSTANTS
    Hops,      \* the prefix's next hops
    NoFace,    \* there is no MtInfo: no Data came under the prefix for 8 s
    NoTimer    \* the entry has no PitInfo, or its rtoTimer is not scheduled

VARIABLES
    last,   \* lastNexthop
    rto     \* rto[k]: what afterRtoTimeout is bound to

vars == <<pit, up, last, rto>>

ASSUME HopAssumption == Hops \subseteq Faces
ASSUME NoFaceAssumption == NoFace \notin Faces

Timer == [face : Faces, first : Faces]

ASSUME NoTimerAssumption == NoTimer \notin Timer

TypeOK ==
    /\ PipelineType
    /\ last \in Faces \cup {NoFace}
    /\ rto \in [Keys -> Timer \cup {NoTimer}]

Init ==
    /\ PipelineInit
    /\ last = NoFace
    /\ rto = [k \in Keys |-> NoTimer]

(***************************************************************************)
(* afterReceiveInterest.                                                   *)
(***************************************************************************)
\* multicast: the next hops an Interest from inFace is sent to.
Targets(inFace) == {f \in (Hops \cap up) \ {inFace} : <<inFace, f>> \notin Barred}

\* sendToLastNexthop refuses; a removed face's id stays in lastNexthop.
LastUsable(f) == last \in Targets(f)

\* RetxSuppressionFixed says NEW, and the last next hop is there: it alone gets the
\* Interest.  Scheduling rtoTimer cancels what it was set to.
SendToLastNexthop(f, k) ==
    /\ f \in up \cap Askers
    /\ ~HasPendingOutRecords(Asked(k, f))
    /\ LastUsable(f)
    /\ pit' = [pit EXCEPT ![k] = SentTo(Asked(k, f), {last})]
    /\ rto' = [rto EXCEPT ![k] = [face |-> f, first |-> last]]
    /\ UNCHANGED <<up, last>>

\* NEW, and there is no last next hop to use.
MulticastNew(f, k) ==
    /\ f \in up \cap Askers
    /\ ~HasPendingOutRecords(Asked(k, f))
    /\ ~LastUsable(f)
    /\ LET sent == SentTo(Asked(k, f), Targets(f))
       IN  pit' = [pit EXCEPT ![k] = IF Targets(f) = {} THEN Rejected(sent) ELSE sent]
    /\ UNCHANGED <<up, last, rto>>

\* FORWARD, or SUPPRESS within 100 ms of the last transmission.
Retransmit(f, k, suppressed) ==
    /\ f \in up \cap Askers
    /\ HasPendingOutRecords(Asked(k, f))
    /\ pit' = [pit EXCEPT ![k] = SentTo(Asked(k, f), IF suppressed THEN {} ELSE Targets(f))]
    /\ UNCHANGED <<up, last, rto>>

(***************************************************************************)
(* Timers and answers.                                                     *)
(***************************************************************************)
\* Mutant: an Interest that has expired meanwhile is not sent on.
RtoTimeoutUnexpired(k) ==
    /\ rto[k] # NoTimer
    /\ rto' = [rto EXCEPT ![k] = NoTimer]
    /\ IF rto[k].face \notin Waiting(pit[k])
       THEN UNCHANGED pit
       ELSE pit' = [pit EXCEPT ![k] = SentTo(@, Targets(rto[k].face) \ {rto[k].first})]
    /\ UNCHANGED <<up, last>>

\* afterRtoTimeout, which asserts that the entry and the in-record exist.
RtoTimeout(k) ==
    /\ rto[k] # NoTimer
    /\ rto' = [rto EXCEPT ![k] = NoTimer]
    /\ IF rto[k].face \notin up
       THEN UNCHANGED pit
       ELSE pit' = [pit EXCEPT ![k] = SentTo(@, Targets(rto[k].face) \ {rto[k].first})]
    /\ UNCHANGED <<up, last>>

Cancelled(K) == [k \in Keys |-> IF k \in K THEN NoTimer ELSE rto[k]]

\* Mutant: the Content Store becomes the last next hop.
HitInterestLearned(f, k) ==
    /\ InterestHits(f, k)
    /\ rto' = Cancelled({k})
    /\ last' = "content-store"

\* The Content Store's face has no out-record: nothing is learned.
HitInterest(f, k) ==
    /\ InterestHits(f, k)
    /\ rto' = Cancelled({k})
    /\ UNCHANGED last

\* The entries whose measurements Data from f updates: those it is the fastest for.
Fastest(f, K) == {k \in K : Downstreams(pit[k]) # {} /\ f \in Upstreams(pit[k])}

\* Mutant: the timer is cancelled after the checks that may return early.
DataForFastest(f, K, alone) ==
    /\ DataAnswers(f, K, alone)
    /\ rto' = Cancelled(Fastest(f, K))
    /\ last' = IF Fastest(f, K) = {} THEN last ELSE f

\* beforeSatisfyInterest for every entry that Data from f satisfies.
ReceiveData(f, K, alone) ==
    /\ DataAnswers(f, K, alone)
    /\ rto' = Cancelled(K)
    /\ last' = IF Fastest(f, K) = {} THEN last ELSE f

\* The base class does nothing about a Nack.
ReceiveNack(f, k) ==
    /\ NackArrives(f, k)
    /\ pit' = [pit EXCEPT ![k] = Nacked(@, f)]
    /\ UNCHANGED <<up, last, rto>>

\* rtoTimer is a ScopedEventId: it is cancelled with its entry.
FinalizeInterest(k) ==
    /\ EntryEnds(k)
    /\ rto' = Cancelled({k})
    /\ UNCHANGED last

Lapse(k, f) == RecordLapses(k, f) /\ UNCHANGED <<last, rto>>

RemoveFace(f) == FaceGoes(f) /\ UNCHANGED <<last, rto>>

\* The measurements entry has lived for 8 s.
ForgetMeasurements ==
    /\ last # NoFace
    /\ last' = NoFace
    /\ UNCHANGED <<pit, up, rto>>

Next ==
    \/ \E f \in Faces, k \in Keys : SendToLastNexthop(f, k)
    \/ \E f \in Faces, k \in Keys : MulticastNew(f, k)
    \/ \E f \in Faces, k \in Keys, b \in BOOLEAN : Retransmit(f, k, b)
    \/ \E f \in Faces, k \in Keys : HitInterest(f, k)
    \/ \E k \in Keys : RtoTimeout(k)
    \/ \E f \in Faces, K \in SUBSET Keys, b \in BOOLEAN : ReceiveData(f, K, b)
    \/ \E f \in Faces, k \in Keys : ReceiveNack(f, k)
    \/ \E k \in Keys : FinalizeInterest(k)
    \/ \E k \in Keys, f \in Faces : Lapse(k, f)
    \/ \E f \in Faces : RemoveFace(f)
    \/ ForgetMeasurements

Spec == Init /\ [][Next]_vars

(***************************************************************************)
(* Properties.                                                             *)
(***************************************************************************)
\* What afterRtoTimeout asserts: whenever the timer may run out, its entry is still
\* there, and so is the in-record of the downstream it was set for, unless that face
\* is gone: "in-record is erased only if Interest is satisfied, and RTO timer should
\* have been cancelled" (access-strategy.cpp:168-182, 119-162, 212-235).
RtoHasDownstream ==
    \A k \in Keys : rto[k] # NoTimer =>
        /\ k \in Pending
        /\ rto[k].face \in up => rto[k].face \in Downstreams(pit[k])

\* The Interest that waits for the last next hop alone is never stuck there: as long
\* as nothing answers it, either every next hop open to one of its downstreams has
\* been tried, or the timer that will try them is running.  (A removed face takes its
\* in-record along, and the timer set for it then serves nobody.)
\* (access-strategy.cpp:59-117, 164-191)
EveryHopTried ==
    up = Faces =>
        \A k \in Pending :
            ~pit[k].due /\ ~pit[k].satisfied =>
                \/ rto[k] # NoTimer
                \/ \E f \in Downstreams(pit[k]) : Targets(f) \subseteq Upstreams(pit[k])
=============================================================================
