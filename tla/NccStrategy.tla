----------------------------- MODULE NccStrategy -----------------------------
(***************************************************************************)
(* The CCNx-like strategy (fw/ncc-strategy.cpp): an Interest goes to the   *)
(* best next hop first, and then, one timer after the other, to the rest.  *)
(*                                                                         *)
(* Of the measurements, those of a key's own name and of its parent are    *)
(* kept: the two levels the code updates.  Timers run out at any time, so  *)
(* that of the intervals only the prediction is kept.  The timers are plain*)
(* EventIds: one that is overwritten still runs out, astray.               *)
(***************************************************************************)
EXTENDS Pipeline, Integers, Sequences, Functions

CONSTANTS
    Order,          \* the faces that may be next hops, cheapest first
    Gains,          \* bound: next hops the FIB entry may gain
    Parent,         \* the name above the keys' names
    ParentIn,       \* that name, too, is in the strategy's namespace
    NoInfo,         \* no MeasurementsEntryInfo
    NoFace,         \* a null weak_ptr
    NoTimer,
    MinPrediction, MaxPrediction, InitialPrediction,
    DownPart,       \* 2 ^ ADJUST_PREDICT_DOWN_SHIFT
    UpPart,         \* 2 ^ ADJUST_PREDICT_UP_SHIFT
    MaxStray        \* bound: events of one entry that are astray

VARIABLES
    hops,       \* the next hops of the FIB entry
    mi,         \* the MeasurementsEntryInfo of each name
    propagate,  \* propagate[k]: the downstream doPropagate is bound to
    late,       \* late[k]: bestFaceTimeout is scheduled
    stray,      \* stray[k][f]: overwritten events that call doPropagate for f
    strayLate   \* strayLate[k]: overwritten events that call timeoutOnBestFace

vars == <<pit, up, hops, mi, propagate, late, stray, strayLate>>

ASSUME OrderAssumption ==
    /\ Order \in Seq(Faces)
    /\ Gains \subseteq Faces
    /\ Parent \notin Keys
    /\ ParentIn \in BOOLEAN
    /\ NoFace \notin Faces
    /\ NoTimer \notin Faces
    /\ MaxStray \in Nat

ASSUME PredictionAssumption ==
    /\ MinPrediction \in Nat \ {0}
    /\ MaxPrediction \in Nat
    /\ InitialPrediction \in MinPrediction .. MaxPrediction
    /\ DownPart \in Nat \ {0}
    /\ UpPart \in Nat \ {0}

Names == Keys \cup {Parent}

Info == [best : Faces \cup {NoFace}, previous : Faces \cup {NoFace},
         prediction : MinPrediction .. MaxPrediction]

ASSUME NoInfoAssumption == NoInfo \notin Info

TypeOK ==
    /\ PipelineType
    /\ hops \subseteq Faces
    /\ mi \in [Names -> Info \cup {NoInfo}]
    /\ propagate \in [Keys -> Faces \cup {NoTimer}]
    /\ late \in [Keys -> BOOLEAN]
    /\ stray \in [Keys -> [Faces -> Nat]]
    /\ strayLate \in [Keys -> Nat]

Ordered == {Order[n] : n \in DOMAIN Order}

Init ==
    /\ PipelineInit
    /\ hops = Ordered \ Gains
    /\ mi = [n \in Names |-> NoInfo]
    /\ propagate = [k \in Keys |-> NoTimer]
    /\ late = [k \in Keys |-> FALSE]
    /\ stray = [k \in Keys |-> [f \in Faces |-> 0]]
    /\ strayLate = [k \in Keys |-> 0]

(***************************************************************************)
(* Measurements.                                                           *)
(***************************************************************************)
NewInfo == [best |-> NoFace, previous |-> NoFace, prediction |-> InitialPrediction]

ParentInfo == IF mi[Parent] = NoInfo THEN NewInfo ELSE mi[Parent]

\* getMeasurementsEntryInfo: a new one is inherited from the parent's.
Seen(k) ==
    IF mi[k] # NoInfo THEN mi
    ELSE IF ParentIn THEN [mi EXCEPT ![k] = ParentInfo, ![Parent] = ParentInfo]
    ELSE [mi EXCEPT ![k] = NewInfo]

\* getBestFace: previousFace takes the place of a best face that is gone.
WithBest(i) ==
    [i EXCEPT !.best = IF @ = NoFace THEN i.previous ELSE @]

Lower(prediction) ==
    LET p == prediction - prediction \div DownPart
    IN  IF p < MinPrediction THEN MinPrediction ELSE p

\* Mutant: the prediction is not limited.
HigherUnlimited(prediction) == prediction + prediction \div UpPart

Higher(prediction) ==
    LET p == prediction + prediction \div UpPart
    IN  IF p > MaxPrediction THEN MaxPrediction ELSE p

\* updateBestFace.
Updated(i, f) ==
    IF i.best = NoFace THEN [i EXCEPT !.best = f]
    ELSE IF i.best = f THEN [i EXCEPT !.prediction = Lower(@)]
    ELSE [i EXCEPT !.previous = i.best, !.best = f]

Slower(i) == [i EXCEPT !.prediction = Higher(@)]

\* The names whose measurements an answer, or its absence, changes, and what they are.
Levels(k) == {k} \cup {n \in {Parent} : ParentIn}
InfoAt(k, n) == IF Seen(k)[n] = NoInfo THEN NewInfo ELSE Seen(k)[n]

(***************************************************************************)
(* afterReceiveInterest.                                                   *)
(***************************************************************************)
\* The next hops to which an Interest from inFace can be forwarded.
Able(e, inFace) ==
    {f \in hops \cap up : <<inFace, f>> \notin Barred /\ CanForwardToLegacy(e, f)}

FirstOf(faces) ==
    {Order[n] : n \in {m \in DOMAIN Order : /\ Order[m] \in faces
                                             /\ \A l \in 1 .. m - 1 : Order[l] \notin faces}}

\* What assigning propagateTimer does to the event it referred to.
Astray(k) ==
    IF propagate[k] = NoTimer THEN stray
    ELSE [stray EXCEPT ![k][propagate[k]] = @ + 1]

InBounds ==
    \A k \in Keys : SumFunction(stray[k]) + strayLate[k] <= MaxStray

\* No next hop at all, or upstreams that have not answered: a PitEntryInfo may be
\* inserted, but nothing is set in it.
DeclineInterest(f, k) ==
    /\ f \in up \cap Askers
    /\ hops \cap up = {} \/ HasPendingOutRecords(Asked(k, f))
    /\ pit' = [pit EXCEPT ![k] =
                 IF hops \cap up = {} THEN Rejected(Asked(k, f)) ELSE Asked(k, f)]
    /\ UNCHANGED <<up, hops, mi, propagate, late, stray, strayLate>>

\* The measurements as afterReceiveInterest leaves them.
Consulted(k) == [Seen(k) EXCEPT ![k] = WithBest(@)]

\* The next hop for a new Interest: the best face, or else the first that can take it.
Chosen(f, k) ==
    LET best == Consulted(k)[k].best
        able == Able(Asked(k, f), f)
    IN  IF best \in able THEN {best} ELSE FirstOf(able)

\* Mutant: the previous face is looked at before the Interest is sent.
SpareIgnoringSend(k, f, g) ==
    LET i == Consulted(k)[k]
    IN  Cardinality(hops \cap up)
        - Cardinality({h \in {i.best} : g = h})
        - Cardinality({i.previous} \cap Able(Asked(k, f), f))

\* nUpstreams once the Interest from f was sent to g.
Spare(k, f, g) ==
    LET i == Consulted(k)[k]
    IN  Cardinality(hops \cap up)
        - Cardinality({h \in {i.best} : g = h})
        - Cardinality({i.previous} \cap Able(SentTo(Asked(k, f), {g}), f))

\* A new Interest is forwarded, and timers are set for the best face's answer and for
\* propagation.
ForwardInterest(f, k, g) ==
    /\ f \in up \cap Askers
    /\ ~HasPendingOutRecords(Asked(k, f))
    /\ g \in Chosen(f, k)
    /\ LET isBest == g = Consulted(k)[k].best
       IN  /\ late' = [late EXCEPT ![k] = @ \/ isBest]
           /\ strayLate' = [strayLate EXCEPT ![k] = IF late[k] /\ isBest THEN @ + 1 ELSE @]
    /\ pit' = [pit EXCEPT ![k] = SentTo(Asked(k, f), {g})]
    /\ mi' = Consulted(k)
    /\ propagate' = [propagate EXCEPT ![k] = f]
    /\ stray' = Astray(k)
    /\ UNCHANGED <<up, hops>>
    /\ InBounds'

\* No next hop can take it.
RejectInterest(f, k) ==
    /\ f \in up \cap Askers
    /\ hops \cap up # {}
    /\ ~HasPendingOutRecords(Asked(k, f))
    /\ Able(Asked(k, f), f) = {}
    /\ pit' = [pit EXCEPT ![k] = Rejected(Asked(k, f))]
    /\ mi' = Consulted(k)
    /\ UNCHANGED <<up, hops, propagate, late, stray, strayLate>>

(***************************************************************************)
(* Timers.                                                                 *)
(***************************************************************************)
\* What doPropagate for f sends: to the previous face, then to the first able.
Propagated(e, k, f) ==
    LET e1 == SentTo(e, {Seen(k)[k].previous} \cap Able(e, f))
    IN  SentTo(e1, FirstOf(Able(e1, f)))

GoesOn(e, k, f) == Able(SentTo(e, {Seen(k)[k].previous} \cap Able(e, f)), f) # {}

\* Mutant: the in-record must not have expired.
StillAskedUnexpired(k, f) == f \in up \cap Waiting(EntryOf(k))

\* What doPropagate looks for first: the face, the entry and its in-record.
StillAsked(k, f) == f \in up \cap Downstreams(EntryOf(k))

\* doPropagate.  One that is astray sets the timer anew like the other.
DoPropagate(k, f, isStray) ==
    /\ IF isStray THEN stray[k][f] > 0 ELSE propagate[k] = f
    /\ LET rearmed == StillAsked(k, f) /\ GoesOn(pit[k], k, f)
       IN  /\ IF StillAsked(k, f)
              THEN /\ pit' = [pit EXCEPT ![k] = Propagated(@, k, f)]
                   /\ mi' = Seen(k)
              ELSE UNCHANGED <<pit, mi>>
           /\ propagate' = [propagate EXCEPT ![k] =
                IF rearmed THEN f ELSE IF isStray THEN @ ELSE NoTimer]
           /\ stray' = [(IF isStray /\ rearmed THEN Astray(k) ELSE stray)
                           EXCEPT ![k][f] = IF isStray THEN @ - 1 ELSE @]
    /\ UNCHANGED <<up, hops, late, strayLate>>
    /\ InBounds'

\* timeoutOnBestFace.
TimeoutOnBestFace(k, isStray) ==
    /\ IF isStray THEN strayLate[k] > 0 ELSE late[k]
    /\ mi' = [n \in Names |->
                IF n \in Levels(k) THEN Slower(InfoAt(k, n)) ELSE Seen(k)[n]]
    /\ late' = [late EXCEPT ![k] = isStray /\ @]
    /\ strayLate' = [strayLate EXCEPT ![k] = IF isStray THEN @ - 1 ELSE @]
    /\ UNCHANGED <<pit, up, hops, propagate, stray>>

(***************************************************************************)
(* Answers and the end of an entry.                                        *)
(***************************************************************************)
\* An entry without in-records is left as it is.
HitInterest(f, k) ==
    /\ InterestHits(f, k)
    /\ UNCHANGED <<hops, mi, propagate, late, stray, strayLate>>

\* beforeSatisfyInterest.  It returns where the second level is out of the namespace,
\* before it cancels the timers; and the face it then compares with the best face has
\* just been made the best.
ReceiveData(f, k, alone) ==
    /\ DataAnswers(f, {k}, alone)
    /\ LET counts == Downstreams(pit[k]) # {}
       IN  /\ mi' = [n \in Names |->
                IF ~counts THEN mi[n]
                ELSE IF n \in Levels(k) THEN Updated(InfoAt(k, n), f)
                ELSE Seen(k)[n]]
           /\ propagate' = [propagate EXCEPT ![k] = IF counts /\ ParentIn THEN NoTimer ELSE @]
           /\ late' = [late EXCEPT ![k] = @ /\ ~(counts /\ ParentIn)]
    /\ UNCHANGED <<hops, stray, strayLate>>

\* The base class does nothing about a Nack.
ReceiveNack(f, k) ==
    /\ NackArrives(f, k)
    /\ pit' = [pit EXCEPT ![k] = Nacked(@, f)]
    /\ UNCHANGED <<up, hops, mi, propagate, late, stray, strayLate>>

\* The destructor of PitEntryInfo cancels both timers; what is astray finds no entry.
FinalizeInterest(k) ==
    /\ EntryEnds(k)
    /\ propagate' = [propagate EXCEPT ![k] = NoTimer]
    /\ late' = [late EXCEPT ![k] = FALSE]
    /\ stray' = [stray EXCEPT ![k] = [f \in Faces |-> 0]]
    /\ strayLate' = [strayLate EXCEPT ![k] = 0]
    /\ UNCHANGED <<hops, mi>>

Lapse(k, f) ==
    /\ RecordLapses(k, f)
    /\ UNCHANGED <<hops, mi, propagate, late, stray, strayLate>>

Without(i, f) ==
    [i EXCEPT !.best = IF @ = f THEN NoFace ELSE @,
              !.previous = IF @ = f THEN NoFace ELSE @]

\* The weak_ptrs to the face are null from then on.
RemoveFace(f) ==
    /\ FaceGoes(f)
    /\ mi' = [n \in Names |-> IF mi[n] = NoInfo THEN NoInfo ELSE Without(mi[n], f)]
    /\ UNCHANGED <<hops, propagate, late, stray, strayLate>>

\* The FIB entry gains or loses a next hop.
ChangeRoute(f) ==
    /\ f \in Gains \cap Ordered
    /\ hops' = IF f \in hops THEN hops \ {f} ELSE hops \cup {f}
    /\ UNCHANGED <<pit, up, mi, propagate, late, stray, strayLate>>

\* Nothing was measured under the name for 16 s.
ForgetMeasurements(n) ==
    /\ mi[n] # NoInfo
    /\ mi' = [mi EXCEPT ![n] = NoInfo]
    /\ UNCHANGED <<pit, up, hops, propagate, late, stray, strayLate>>

Next ==
    \/ \E f \in Faces, k \in Keys : DeclineInterest(f, k)
    \/ \E f, g \in Faces, k \in Keys : ForwardInterest(f, k, g)
    \/ \E f \in Faces, k \in Keys : RejectInterest(f, k)
    \/ \E f \in Faces, k \in Keys : HitInterest(f, k)
    \/ \E k \in Keys, f \in Faces, b \in BOOLEAN : DoPropagate(k, f, b)
    \/ \E k \in Keys, b \in BOOLEAN : TimeoutOnBestFace(k, b)
    \/ \E f \in Faces, k \in Keys, b \in BOOLEAN : ReceiveData(f, k, b)
    \/ \E f \in Faces, k \in Keys : ReceiveNack(f, k)
    \/ \E k \in Keys : FinalizeInterest(k)
    \/ \E k \in Keys, f \in Faces : Lapse(k, f)
    \/ \E f \in Faces : RemoveFace(f)
    \/ \E f \in Faces : ChangeRoute(f)
    \/ \E n \in Names : ForgetMeasurements(n)

Spec == Init /\ [][Next]_vars

(***************************************************************************)
(* Properties.                                                             *)
(***************************************************************************)
\* nUpstreams, a size_t from which maxInterval is computed, is never counted below
\* zero: the best and the previous face it leaves out are two different next hops,
\* through all changes of the FIB entry, the measurements and the out-records
\* (ncc-strategy.cpp:83-130).
UpstreamsCounted ==
    \A k \in Keys : \A f \in up \cap Askers :
        ~HasPendingOutRecords(Asked(k, f)) =>
            \A g \in Chosen(f, k) : Spare(k, f, g) >= 0

\* As long as no face was removed and nothing has answered an Interest, every next hop
\* that was there when it came has got it, or waits for it itself, or a timer that
\* will go on to it is running, whatever timers were overwritten meanwhile
\* (ncc-strategy.cpp:62-184).
PropagationGoesOn ==
    up = Faces =>
        \A k \in Pending : \A f \in Downstreams(pit[k]) :
            ~pit[k].due /\ ~pit[k].satisfied =>
                \/ propagate[k] # NoTimer
                \/ \E g \in Faces : stray[k][g] > 0
                \/ \E g \in Downstreams(pit[k]) :
                       \A h \in Ordered \ Gains :
                          \/ h \in Upstreams(pit[k]) \cup Downstreams(pit[k])
                          \/ <<g, h>> \in Barred
=============================================================================
