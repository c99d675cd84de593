---------------------------- MODULE AsfStrategy -----------------------------
(***************************************************************************)
(* The adaptive SRTT-based forwarding strategy (fw/asf-strategy.cpp,       *)
(* asf-measurements and asf-probing-module): Interests go to the next hop  *)
(* with the best RTT, and from time to time a second copy, the probe, goes *)
(* to another one.                                                         *)
(*                                                                         *)
(* All keys are under one FIB entry and share one NamespaceInfo.  A RTT is *)
(* measured or not; which of the measured ones is the lowest is left open, *)
(* and so is when a timer set by the RTT estimator runs out.  The timers of*)
(* probing and of the measurements count ticks of a clock.                 *)
(***************************************************************************)
EXTENDS Pipeline, Naturals, Sequences

CONSTANTS
    Order,         \* the next hops, by cost
    MaxSilent,     \* n-silent-timeouts
    Interval,      \* probing-interval, in ticks
    Life,          \* MEASUREMENTS_LIFETIME, in ticks
    FirstProbes,   \* the ticks after which the first probe may be due
    NoInfo,        \* there is no FaceInfo
    NoNamespace,   \* there is no NamespaceInfo
    NoTimer

VARIABLES
    info,    \* info[f]: the FaceInfo of a face
    ns,      \* the NamespaceInfo
    probes   \* probes[n]: how many events of scheduleProbe run out in n ticks

vars == <<pit, up, info, ns, probes>>

FaceInfo == [rtt : {"none", "some", "timeout", "mute"},   \* m_lastRtt; "mute" is a
                                                          \* timeout before any RTT
             silent : 0..MaxSilent + 1,    \* m_nSilentTimeouts, which counts further
             timer : Keys \cup {NoTimer}]  \* m_timeoutEvent, m_lastInterestName
NamespaceInfo == [life : 0..Life, first : BOOLEAN, due : BOOLEAN]

ASSUME AsfAssumption ==
    /\ Order \in Seq(Faces)
    /\ MaxSilent \in Nat
    /\ Interval \in Nat \ {0}
    /\ Life \in Nat
    /\ Interval < Life
    /\ FirstProbes \subseteq 0..Interval
    /\ NoInfo \notin FaceInfo
    /\ NoNamespace \notin NamespaceInfo
    /\ NoTimer \notin Keys

TypeOK ==
    /\ PipelineType
    /\ info \in [Faces -> FaceInfo \cup {NoInfo}]
    /\ ns \in NamespaceInfo \cup {NoNamespace}
    /\ probes \in [0..Interval -> Nat]
    /\ ns = NoNamespace => \A f \in Faces : info[f] = NoInfo

Init ==
    /\ PipelineInit
    /\ info = [f \in Faces |-> NoInfo]
    /\ ns = NoNamespace
    /\ probes = [n \in 0..Interval |-> 0]

NewInfo == [rtt |-> "none", silent |-> 0, timer |-> NoTimer]
NewNamespace == [life |-> Life, first |-> FALSE, due |-> FALSE]

\* getOrCreateNamespaceInfo and, where there is one, getNamespaceInfo.
Used == IF ns = NoNamespace THEN NewNamespace ELSE [ns EXCEPT !.life = Life]
UsedIfThere == IF ns = NoNamespace THEN ns ELSE Used

(***************************************************************************)
(* The choice of a face.                                                   *)
(***************************************************************************)
Hops == {Order[i] : i \in 1..Len(Order)} \cap up
Rtt(g) == IF info[g] = NoInfo THEN "none" ELSE info[g].rtt

\* The first of the faces in the FIB entry, if there is any.
First(faces) ==
    {g \in faces : \E i \in 1..Len(Order) :
                       Order[i] = g /\ \A j \in 1..i - 1 : Order[j] \notin faces}

\* isNextHopEligible, for a new Interest and where an unused face is wanted.
Eligible(f) == {g \in Hops : (g # f \/ g \in AdHoc) /\ <<f, g>> \notin Barred}
Unused(f, e) == {g \in Eligible(f) : e.out[g] \in {NoRecord, "late"}}

\* getBestFaceForForwarding: srtt < RTT_NO_MEASUREMENT < RTT_TIMEOUT, then the cost.
Best(faces) ==
    LET With(rtt) == {g \in faces : Rtt(g) = rtt}
    IN  IF With("some") # {} THEN With("some")
        ELSE IF With("none") # {} THEN First(With("none"))
        ELSE First(faces)

\* Mutant: a face that timed out is never probed.
ToProbeAnswering(f, used) ==
    LET others == {g \in Hops \ {f, used} : <<f, g>> \notin Barred}
        With(rtt) == {g \in others : Rtt(g) = rtt}
    IN  IF With("none") # {} THEN First(With("none")) ELSE With("some")

\* getFaceToProbe.  FaceInfoCompare holds two faces that timed out before any RTT
\* for the same, and the set takes the first of them only.
ToProbe(f, used) ==
    LET others == {g \in Hops \ {f, used} : <<f, g>> \notin Barred}
        With(rtt) == {g \in others : Rtt(g) = rtt}
    IN  IF With("none") # {} THEN First(With("none"))
        ELSE With("some") \cup With("timeout") \cup First(With("mute"))

\* forwardInterest, for each of a set of faces: the FaceInfo of a face in use, with
\* its timer running.
Timed(k, faces) ==
    [g \in Faces |->
        IF g \notin faces THEN info[g]
        ELSE LET i == IF info[g] = NoInfo THEN NewInfo ELSE info[g]
             IN  IF i.timer = NoTimer THEN [i EXCEPT !.timer = k] ELSE i]

(***************************************************************************)
(* afterReceiveInterest.                                                   *)
(***************************************************************************)
IsNew(f, k) == f \in up \cap Askers /\ ~HasPendingOutRecords(Asked(k, f))

\* sendNoRouteNack.  Only a point-to-point face gets the Nack and loses its in-record.
NoRoute(f, k) ==
    /\ IsNew(f, k)
    /\ Eligible(f) = {}
    /\ pit' = [pit EXCEPT ![k] = Rejected(WithoutIn(Asked(k, f), {f} \cap P2P))]
    /\ UNCHANGED <<up, info, ns, probes>>

\* A new Interest that no probe goes with: none is due, or there is no face for it.
ForwardNew(f, k, g) ==
    /\ IsNew(f, k)
    /\ g \in Best(Eligible(f))
    /\ ~Used.due \/ ToProbe(f, g) = {}
    /\ pit' = [pit EXCEPT ![k] = SentTo(Asked(k, f), {g})]
    /\ info' = Timed(k, {g})
    /\ ns' = [Used EXCEPT !.first = TRUE]
    /\ IF Used.first THEN UNCHANGED probes
       ELSE \E n \in FirstProbes : probes' = [probes EXCEPT ![n] = @ + 1]
    /\ UNCHANGED up

\* Mutant: the flag is not reset after the probe.
ForwardAndProbeStillDue(f, k, g, h) ==
    /\ IsNew(f, k)
    /\ g \in Best(Eligible(f))
    /\ Used.due
    /\ h \in ToProbe(f, g)
    /\ pit' = [pit EXCEPT ![k] = SentTo(Asked(k, f), {g, h})]
    /\ info' = Timed(k, {g, h})
    /\ ns' = Used
    /\ probes' = [probes EXCEPT ![Interval] = @ + 1]
    /\ UNCHANGED up

\* A new Interest and its probe; afterForwardingProbe schedules the next one.
ForwardAndProbe(f, k, g, h) ==
    /\ IsNew(f, k)
    /\ g \in Best(Eligible(f))
    /\ Used.due
    /\ h \in ToProbe(f, g)
    /\ pit' = [pit EXCEPT ![k] = SentTo(Asked(k, f), {g, h})]
    /\ info' = Timed(k, {g, h})
    /\ ns' = [Used EXCEPT !.due = FALSE]
    /\ probes' = [probes EXCEPT ![Interval] = @ + 1]
    /\ UNCHANGED up

\* RetxSuppressionExponential says SUPPRESS, or FORWARD.
IsRetx(f, k) == f \in up \cap Askers /\ HasPendingOutRecords(Asked(k, f))

Suppress(f, k) ==
    /\ IsRetx(f, k)
    /\ pit' = [pit EXCEPT ![k] = Asked(k, f)]
    /\ UNCHANGED <<up, info, ns, probes>>

ForwardUnused(f, k, g) ==
    /\ IsRetx(f, k)
    /\ g \in Best(Unused(f, Asked(k, f)))
    /\ pit' = [pit EXCEPT ![k] = SentTo(Asked(k, f), {g})]
    /\ info' = Timed(k, {g})
    /\ ns' = Used
    /\ UNCHANGED <<up, probes>>

\* The face that was used the longest ago, if any: sendInterest, without a timer.
RetryUsed(f, k, faces) ==
    /\ IsRetx(f, k)
    /\ Unused(f, Asked(k, f)) = {}
    /\ IF Eligible(f) = {} THEN faces = {} ELSE \E g \in Eligible(f) : faces = {g}
    /\ pit' = [pit EXCEPT ![k] = SentTo(Asked(k, f), faces)]
    /\ UNCHANGED <<up, info, ns, probes>>

(***************************************************************************)
(* Answers and timeouts.                                                   *)
(***************************************************************************)
\* beforeSatisfyInterest with the Content Store's face, which has no FaceInfo.
HitInterest(f, k) ==
    /\ InterestHits(f, k)
    /\ ns' = UsedIfThere
    /\ UNCHANGED <<info, probes>>

\* beforeSatisfyInterest for every entry that Data from f satisfies: the RTT is
\* measured for those with an out-record.  names are those its name begins with.
ReceiveData(f, K, names, alone) ==
    /\ K \subseteq names
    /\ DataAnswers(f, K, alone)
    /\ ns' = UsedIfThere
    /\ info' = IF info[f] = NoInfo THEN info
               ELSE [info EXCEPT
                       ![f].rtt = IF \E k \in K : f \in Upstreams(pit[k]) THEN "some" ELSE @,
                       ![f].timer = IF @ \in names THEN NoTimer ELSE @]
    /\ UNCHANGED probes

\* recordTimeout.
TimedOut(rtt) == IF rtt \in {"none", "mute"} THEN "mute" ELSE "timeout"

\* onTimeout, for the Interest k.
Silence(i, k) ==
    LET n == i.silent + 1
    IN  [rtt |-> IF n <= MaxSilent THEN i.rtt ELSE TimedOut(i.rtt),
         silent |-> IF n > MaxSilent THEN MaxSilent + 1 ELSE n,
         timer |-> IF i.timer = k THEN NoTimer ELSE i.timer]

ReceiveNack(f, k) ==
    /\ NackArrives(f, k)
    /\ pit' = [pit EXCEPT ![k] = Nacked(@, f)]
    /\ ns' = UsedIfThere
    /\ info' = IF info[f] = NoInfo THEN info ELSE [info EXCEPT ![f] = Silence(@, k)]
    /\ UNCHANGED <<up, probes>>

\* The timer set by scheduleTimeout runs out.
RtoTimeout(f) ==
    /\ info[f] # NoInfo
    /\ info[f].timer # NoTimer
    /\ info' = [info EXCEPT ![f] = Silence(@, @.timer)]
    /\ ns' = UsedIfThere
    /\ UNCHANGED <<pit, up, probes>>

(***************************************************************************)
(* Time.                                                                   *)
(***************************************************************************)
\* The event of scheduleProbe.
ProbeDue ==
    /\ probes[0] > 0
    /\ probes' = [probes EXCEPT ![0] = @ - 1]
    /\ ns' = IF ns = NoNamespace THEN ns ELSE [Used EXCEPT !.due = TRUE]
    /\ UNCHANGED <<pit, up, info>>

Expired == ns # NoNamespace /\ ns.life = 0

Tick ==
    /\ probes[0] = 0
    /\ ~Expired
    /\ ns # NoNamespace \/ \E n \in 0..Interval : probes[n] > 0
    /\ probes' = [n \in 0..Interval |-> IF n < Interval THEN probes[n + 1] ELSE 0]
    /\ ns' = IF ns = NoNamespace THEN ns ELSE [ns EXCEPT !.life = @ - 1]
    /\ UNCHANGED <<pit, up, info>>

\* Mutant: the FaceInfos outlive the namespace.
NamespaceExpiresAlone ==
    /\ Expired
    /\ ns' = NoNamespace
    /\ UNCHANGED <<pit, up, info, probes>>

\* The measurements entry goes, with its FaceInfos; a probe stays scheduled.
NamespaceExpires ==
    /\ Expired
    /\ ns' = NoNamespace
    /\ info' = [f \in Faces |-> NoInfo]
    /\ UNCHANGED <<pit, up, probes>>

\* m_measurementExpiration: 5 minutes without use.  A timer goes with its FaceInfo.
FaceInfoExpires(f) ==
    /\ info[f] # NoInfo
    /\ info' = [info EXCEPT ![f] = NoInfo]
    /\ UNCHANGED <<pit, up, ns, probes>>

FinalizeInterest(k) == EntryEnds(k) /\ UNCHANGED <<info, ns, probes>>

Lapse(k, f) == RecordLapses(k, f) /\ UNCHANGED <<info, ns, probes>>

RemoveFace(f) == FaceGoes(f) /\ UNCHANGED <<info, ns, probes>>

Forward(f) ==
    \/ \E g \in Faces, k \in Keys : ForwardNew(f, k, g)
    \/ \E g, h \in Faces, k \in Keys : ForwardAndProbe(f, k, g, h)

Next ==
    \/ \E f \in Faces : Forward(f)
    \/ \E f \in Faces, k \in Keys : NoRoute(f, k)
    \/ \E f \in Faces, k \in Keys : Suppress(f, k)
    \/ \E f, g \in Faces, k \in Keys : ForwardUnused(f, k, g)
    \/ \E f \in Faces, k \in Keys, faces \in SUBSET Faces : RetryUsed(f, k, faces)
    \/ \E f \in Faces, k \in Keys : HitInterest(f, k)
    \/ \E f \in Faces, K, names \in SUBSET Keys, b \in BOOLEAN : ReceiveData(f, K, names, b)
    \/ \E f \in Faces, k \in Keys : ReceiveNack(f, k)
    \/ \E f \in Faces : RtoTimeout(f)
    \/ ProbeDue
    \/ Tick
    \/ NamespaceExpires
    \/ \E f \in Faces : FaceInfoExpires(f)
    \/ \E k \in Keys : FinalizeInterest(k)
    \/ \E k \in Keys, f \in Faces : Lapse(k, f)
    \/ \E f \in Faces : RemoveFace(f)

Spec == Init /\ [][Next]_vars

\* The scheduler runs its events, and time passes.
LiveSpec == Spec /\ WF_vars(ProbeDue) /\ WF_vars(Tick)

(***************************************************************************)
(* Properties.                                                             *)
(***************************************************************************)
ProbesScheduled == {n \in 0..Interval : probes[n] > 0}

\* Probing is one chain of events: from the first Interest of a namespace on, either
\* a probe is due or exactly one event is scheduled that makes it due; without a
\* namespace, or before, there is none.  A second chain would double the probes, and a
\* lost event would end them.  It rests on a probing interval shorter than the life of
\* the measurements (asf-probing-module.cpp:39-64, 102-129, asf-measurements.cpp:107-144).
ProbeChain ==
    IF ns # NoNamespace /\ ns.first
    THEN IF ns.due
         THEN ProbesScheduled = {}
         ELSE \E n \in 0..Interval : ProbesScheduled = {n} /\ probes[n] = 1
    ELSE ProbesScheduled = {} /\ (ns # NoNamespace => ~ns.due)

\* No next hop is given up: if new Interests keep coming from elsewhere, often enough
\* that the measurements of the namespace live on, every next hop that stays is sent an
\* Interest again and again, even one that never answered (asf-strategy.cpp:125-139,
\* 208-253, asf-probing-module.cpp:48-129).
Consumers == {f \in Askers : \A i \in 1..Len(Order) : Order[i] # f}

TriedAgain ==
    ([]<><<\E f \in Consumers : Forward(f)>>_vars /\ <>[](ns # NoNamespace)) =>
        \A g \in Faces :
            <>[](g \in Hops) => []<>(\E k \in Pending : pit[k].out[g] = "pending")
=============================================================================
