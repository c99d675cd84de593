------------------------------- MODULE AsfProofs -----------------------------
(***************************************************************************)
(* Theorems about AsfStrategy, for any faces, names, order of the next     *)
(* hops and any probing interval shorter than the life of the measurements.*)
(***************************************************************************)
EXTENDS AsfStrategy, PipelineProofs

(***************************************************************************)
(* The inductive invariant.  ProbeChain alone is not inductive: it does not*)
(* say why the namespace cannot expire while a probe is scheduled.  Every  *)
(* use that may schedule one renews the life of the measurements, and both *)
(* count down together; so the probe comes first.                          *)
(***************************************************************************)
NoneScheduled == \A m \in 0..Interval : probes[m] = 0
OnlyScheduled(n) == probes[n] = 1 /\ \A m \in 0..Interval \ {n} : probes[m] = 0

ChainLives ==
    IF ns # NoNamespace /\ ns.first
    THEN IF ns.due
         THEN NoneScheduled
         ELSE \E n \in 0..Interval : OnlyScheduled(n) /\ n < ns.life
    ELSE NoneScheduled /\ (ns # NoNamespace => ~ns.due)

Inv == TypeOK /\ ChainLives

LEMMA ChainIsProbeChain == TypeOK /\ ChainLives => ProbeChain
<1> SUFFICES ASSUME TypeOK, ChainLives
             PROVE  ProbeChain
    OBVIOUS
<1>1. NoneScheduled => ProbesScheduled = {}
    BY DEF NoneScheduled, ProbesScheduled
<1>2. ASSUME NEW n \in 0..Interval, OnlyScheduled(n)
      PROVE  ProbesScheduled = {n} /\ probes[n] = 1
    BY <1>2 DEF OnlyScheduled, ProbesScheduled
<1> QED
    BY <1>1, <1>2 DEF ChainLives, ProbeChain

(***************************************************************************)
(* The types of what the actions write.                                    *)
(***************************************************************************)
LEMMA UsedType ==
    ASSUME TypeOK
    PROVE  /\ Used \in NamespaceInfo
           /\ Used # NoNamespace
           /\ Used.life = Life
           /\ ns = NoNamespace => ~Used.first /\ ~Used.due
           /\ ns # NoNamespace => Used.first = ns.first /\ Used.due = ns.due
<1>1. Life \in 0..Life
    BY AsfAssumption
<1>2. CASE ns = NoNamespace
    <2>1. Used = NewNamespace
        BY <1>2 DEF Used
    <2>2. /\ NewNamespace \in NamespaceInfo
          /\ NewNamespace.life = Life
          /\ ~NewNamespace.first /\ ~NewNamespace.due
        BY <1>1 DEF NewNamespace, NamespaceInfo
    <2> QED
        BY <1>2, <2>1, <2>2, AsfAssumption
<1>3. CASE ns # NoNamespace
    <2>1. ns \in NamespaceInfo /\ Used = [ns EXCEPT !.life = Life]
        BY <1>3 DEF TypeOK, Used
    <2>2. /\ Used \in NamespaceInfo
          /\ Used.life = Life
          /\ Used.first = ns.first
          /\ Used.due = ns.due
        BY <1>1, <2>1 DEF NamespaceInfo
    <2> QED
        BY <1>3, <2>2, AsfAssumption
<1> QED
    BY <1>2, <1>3

LEMMA TimedType ==
    ASSUME TypeOK, NEW k \in Keys, NEW S
    PROVE  Timed(k, S) \in [Faces -> FaceInfo \cup {NoInfo}]
<1>1. NewInfo \in FaceInfo
    BY AsfAssumption DEF NewInfo, FaceInfo
<1>2. ASSUME NEW i \in FaceInfo
      PROVE  [i EXCEPT !.timer = k] \in FaceInfo
    BY DEF FaceInfo
<1>3. \A g \in Faces : info[g] \in FaceInfo \cup {NoInfo}
    BY DEF TypeOK
<1> QED
    BY <1>1, <1>2, <1>3 DEF Timed

LEMMA SilenceType ==
    ASSUME NEW i \in FaceInfo, NEW k \in Keys
    PROVE  Silence(i, k) \in FaceInfo
<1>1. /\ i.silent \in 0..MaxSilent + 1
      /\ i.rtt \in {"none", "some", "timeout", "mute"}
      /\ i.timer \in Keys \cup {NoTimer}
    BY DEF FaceInfo
<1>2. TimedOut(i.rtt) \in {"none", "some", "timeout", "mute"}
    BY DEF TimedOut
<1>3. (IF i.silent + 1 > MaxSilent THEN MaxSilent + 1 ELSE i.silent + 1) \in 0..MaxSilent + 1
    BY <1>1, AsfAssumption
<1> QED
    BY <1>1, <1>2, <1>3 DEF Silence, FaceInfo

\* A step that writes the FaceInfos and leaves the namespace one.
LEMMA WritesInfo ==
    ASSUME PipelineType',
           ns' \in NamespaceInfo,
           info' \in [Faces -> FaceInfo \cup {NoInfo}],
           probes' \in [0..Interval -> Nat]
    PROVE  TypeOK'
BY AsfAssumption DEF TypeOK

(***************************************************************************)
(* Steps that only use the namespace, or do not touch it.                  *)
(***************************************************************************)
LEMMA ChainKept ==
    ASSUME Inv,
           probes' = probes,
           ns' \in {ns, Used, UsedIfThere}
    PROVE  ChainLives'
<1>1. CASE ns' = ns
    BY <1>1 DEF Inv, ChainLives, NoneScheduled, OnlyScheduled
<1>2. CASE ns' = Used
    <2>1. \A n \in 0..Interval : n < Life
        BY AsfAssumption
    <2>2. CASE ns = NoNamespace
        BY <1>2, <2>2, UsedType DEF Inv, ChainLives, NoneScheduled
    <2>3. CASE ns # NoNamespace
        <3>1. /\ ns' # NoNamespace
              /\ ns'.first = ns.first
              /\ ns'.due = ns.due
              /\ ns'.life = Life
            BY <1>2, <2>3, UsedType DEF Inv
        <3> QED
            BY <2>1, <2>3, <3>1 DEF Inv, ChainLives, NoneScheduled, OnlyScheduled
    <2> QED
        BY <2>2, <2>3
<1> QED
    BY <1>1, <1>2 DEF UsedIfThere

\* An event the map of the probes gets, or loses.
LEMMA Scheduled ==
    ASSUME TypeOK, NEW n \in 0..Interval, NoneScheduled, probes' = [probes EXCEPT ![n] = @ + 1]
    PROVE  /\ probes' \in [0..Interval -> Nat]
           /\ probes'[n] = 1
           /\ \A m \in 0..Interval \ {n} : probes'[m] = 0
BY DEF TypeOK, NoneScheduled

(***************************************************************************)
(* The theorems.                                                           *)
(***************************************************************************)
LEMMA InitInv == Init => Inv
BY AsfAssumption DEF Init, PipelineInit, Inv, TypeOK, PipelineType, ChainLives, NoneScheduled

LEMMA NextInv == Inv /\ [Next]_vars => Inv'
<1> SUFFICES ASSUME Inv, [Next]_vars
             PROVE  Inv'
    OBVIOUS
<1>p. TypeOK /\ PipelineType /\ ChainLives
    BY DEF Inv, TypeOK
<1>q. \A f \in Faces, k \in Keys : \A S : SentTo(Asked(k, f), S) \in Entry
    BY <1>p, AskedDownstreams
<1>1. ASSUME NEW f \in Faces, NEW g \in Faces, NEW k \in Keys, ForwardNew(f, k, g)
      PROVE  Inv'
    <2>1. /\ pit' = [pit EXCEPT ![k] = SentTo(Asked(k, f), {g})]
          /\ up' = up
          /\ info' = Timed(k, {g})
          /\ ns' = [Used EXCEPT !.first = TRUE]
        BY <1>1 DEF ForwardNew
    <2>2. /\ ns' \in NamespaceInfo
          /\ ns' # NoNamespace
          /\ ns'.first
          /\ ns'.due = Used.due
          /\ ns'.life = Life
        <3>1. ns' \in NamespaceInfo
            BY <1>p, <2>1, UsedType DEF NamespaceInfo
        <3>2. ns'.first /\ ns'.due = Used.due /\ ns'.life = Used.life
            BY <1>p, <2>1, UsedType DEF NamespaceInfo
        <3> QED
            BY <1>p, <3>1, <3>2, UsedType, AsfAssumption
    <2>3. PipelineType' /\ info' \in [Faces -> FaceInfo \cup {NoInfo}]
        BY <1>p, <1>q, <2>1, TimedType, EntryChanges
    <2>4. \A n \in 0..Interval : n < Life
        BY AsfAssumption
    <2>5. CASE Used.first
        <3>1. probes' = probes
            BY <1>1, <2>5 DEF ForwardNew
        <3>2. ns # NoNamespace /\ ns.first /\ Used.due = ns.due
            BY <1>p, <2>5, UsedType
        <3>3. ChainLives'
            BY <1>p, <2>2, <2>4, <3>1, <3>2 DEF ChainLives, NoneScheduled, OnlyScheduled
        <3> QED
            BY <1>p, <2>2, <2>3, <3>1, <3>3, WritesInfo DEF Inv, TypeOK
    <2>6. CASE ~Used.first
        <3>1. PICK n \in FirstProbes : probes' = [probes EXCEPT ![n] = @ + 1]
            BY <1>1, <2>6 DEF ForwardNew
        <3>2. n \in 0..Interval
            BY AsfAssumption
        <3>3. NoneScheduled /\ ~Used.due
            BY <1>p, <2>6, UsedType DEF ChainLives
        <3>4. /\ probes' \in [0..Interval -> Nat]
              /\ OnlyScheduled(n)'
            BY <1>p, <3>1, <3>2, <3>3, Scheduled DEF OnlyScheduled
        <3>5. ChainLives'
            BY <2>2, <2>4, <3>2, <3>3, <3>4 DEF ChainLives
        <3> QED
            BY <2>2, <2>3, <3>4, <3>5, WritesInfo DEF Inv
    <2> QED
        BY <2>5, <2>6
<1>2. ASSUME NEW f \in Faces, NEW g \in Faces, NEW h \in Faces, NEW k \in Keys,
             ForwardAndProbe(f, k, g, h)
      PROVE  Inv'
    <2>1. /\ pit' = [pit EXCEPT ![k] = SentTo(Asked(k, f), {g, h})]
          /\ up' = up
          /\ info' = Timed(k, {g, h})
          /\ ns' = [Used EXCEPT !.due = FALSE]
          /\ probes' = [probes EXCEPT ![Interval] = @ + 1]
          /\ Used.due
        BY <1>2 DEF ForwardAndProbe
    <2>2. /\ ns' \in NamespaceInfo
          /\ ns'.first = Used.first
          /\ ~ns'.due
          /\ ns'.life = Used.life
        BY <1>p, <2>1, UsedType DEF NamespaceInfo
    <2>3. /\ ns' # NoNamespace
          /\ ns'.first
          /\ ns'.life = Life
          /\ NoneScheduled
        BY <1>p, <2>1, <2>2, UsedType, AsfAssumption DEF ChainLives
    <2>4. PipelineType' /\ info' \in [Faces -> FaceInfo \cup {NoInfo}]
        BY <1>p, <1>q, <2>1, TimedType, EntryChanges
    <2>5. Interval \in 0..Interval /\ Interval < Life
        BY AsfAssumption
    <2>6. /\ probes' \in [0..Interval -> Nat]
          /\ OnlyScheduled(Interval)'
        BY <1>p, <2>1, <2>3, <2>5, Scheduled DEF OnlyScheduled
    <2>7. ChainLives'
        BY <2>2, <2>3, <2>5, <2>6 DEF ChainLives
    <2> QED
        BY <2>2, <2>4, <2>6, <2>7, WritesInfo DEF Inv
<1>3. ASSUME NEW f \in Faces, NEW k \in Keys, NoRoute(f, k)
      PROVE  Inv'
    <2> DEFINE e == WithoutIn(Asked(k, f), {f} \cap P2P)
    <2>1. pit' = [pit EXCEPT ![k] = Rejected(e)] /\ UNCHANGED <<up, info, ns, probes>>
        BY <1>3 DEF NoRoute
    <2>2. Rejected(e) \in Entry
        BY <1>p, AskedType, WithoutInType, RejectedType
    <2> HIDE DEF e
    <2>3. PipelineType'
        BY <1>p, <2>1, <2>2, EntryChanges
    <2> QED
        BY <1>p, <2>1, <2>3, ChainKept DEF Inv, TypeOK
<1>4. ASSUME NEW f \in Faces, NEW k \in Keys, Suppress(f, k)
      PROVE  Inv'
    <2>1. pit' = [pit EXCEPT ![k] = Asked(k, f)] /\ UNCHANGED <<up, info, ns, probes>>
        BY <1>4 DEF Suppress
    <2>2. PipelineType'
        BY <1>p, <2>1, AskedType, EntryChanges
    <2> QED
        BY <1>p, <2>1, <2>2, ChainKept DEF Inv, TypeOK
<1>5. ASSUME NEW f \in Faces, NEW g \in Faces, NEW k \in Keys, ForwardUnused(f, k, g)
      PROVE  Inv'
    <2>1. /\ pit' = [pit EXCEPT ![k] = SentTo(Asked(k, f), {g})]
          /\ info' = Timed(k, {g})
          /\ ns' = Used
          /\ UNCHANGED <<up, probes>>
        BY <1>5 DEF ForwardUnused
    <2>2. /\ PipelineType'
          /\ info' \in [Faces -> FaceInfo \cup {NoInfo}]
          /\ ns' \in NamespaceInfo
        BY <1>p, <1>q, <2>1, TimedType, UsedType, EntryChanges
    <2>3. ChainLives'
        BY <1>p, <2>1, ChainKept DEF Inv
    <2> QED
        BY <1>p, <2>1, <2>2, <2>3, WritesInfo DEF Inv, TypeOK
<1>6. ASSUME NEW f \in Faces, NEW k \in Keys, NEW faces \in SUBSET Faces, RetryUsed(f, k, faces)
      PROVE  Inv'
    <2>1. /\ pit' = [pit EXCEPT ![k] = SentTo(Asked(k, f), faces)]
          /\ UNCHANGED <<up, info, ns, probes>>
        BY <1>6 DEF RetryUsed
    <2>2. PipelineType'
        BY <1>p, <1>q, <2>1, EntryChanges
    <2> QED
        BY <1>p, <2>1, <2>2, ChainKept DEF Inv, TypeOK
<1>u. ASSUME PipelineType', ns' = UsedIfThere, probes' = probes,
             info' \in [Faces -> FaceInfo \cup {NoInfo}],
             ns = NoNamespace => info' = info
      PROVE  Inv'
    <2>1. ChainLives'
        BY <1>p, <1>u, ChainKept DEF Inv
    <2>2. CASE ns = NoNamespace
        BY <1>p, <1>u, <2>1, <2>2 DEF Inv, TypeOK, UsedIfThere
    <2>3. CASE ns # NoNamespace
        <3>1. ns' \in NamespaceInfo
            BY <1>p, <1>u, <2>3, UsedType DEF UsedIfThere
        <3> QED
            BY <1>p, <1>u, <2>1, <3>1, WritesInfo DEF Inv, TypeOK
    <2> QED
        BY <2>2, <2>3
<1>7. ASSUME NEW f \in Faces, NEW k \in Keys, HitInterest(f, k)
      PROVE  Inv'
    <2>1. /\ pit' = [pit EXCEPT ![k] = Hit(k)]
          /\ ns' = UsedIfThere
          /\ UNCHANGED <<up, info, probes>>
        BY <1>7 DEF HitInterest, InterestHits
    <2>2. PipelineType'
        BY <1>p, <2>1, HitType, EntryChanges
    <2>3. info' \in [Faces -> FaceInfo \cup {NoInfo}]
        BY <1>p, <2>1 DEF TypeOK
    <2> QED
        BY <2>1, <2>2, <2>3, <1>u
<1>8. ASSUME NEW f \in Faces, NEW K \in SUBSET Keys, NEW names \in SUBSET Keys,
             NEW b \in BOOLEAN, ReceiveData(f, K, names, b)
      PROVE  Inv'
    <2> DEFINE Measured(i) ==
            [i EXCEPT !.rtt = IF \E k \in K : f \in Upstreams(pit[k]) THEN "some" ELSE @,
                      !.timer = IF @ \in names THEN NoTimer ELSE @]
    <2>1. PipelineType'
        BY <1>8, <1>p, DataAnswersType DEF ReceiveData
    <2>2. /\ ns' = UsedIfThere
          /\ probes' = probes
          /\ info[f] = NoInfo => info' = info
          /\ info[f] # NoInfo =>
                info' = [info EXCEPT
                           ![f].rtt = IF \E k \in K : f \in Upstreams(pit[k]) THEN "some" ELSE @,
                           ![f].timer = IF @ \in names THEN NoTimer ELSE @]
        BY <1>8 DEF ReceiveData
    <2>3. ASSUME NEW i \in FaceInfo
          PROVE  Measured(i) \in FaceInfo
        BY DEF FaceInfo
    <2>4. info' \in [Faces -> FaceInfo \cup {NoInfo}]
        <3>1. CASE info[f] = NoInfo
            BY <1>p, <2>2, <3>1 DEF TypeOK
        <3>2. CASE info[f] # NoInfo
            <4>1. info[f] \in FaceInfo
                BY <1>p, <3>2 DEF TypeOK
            <4>2. info' = [info EXCEPT ![f] = Measured(info[f])]
                BY <1>p, <2>2, <3>2, <4>1 DEF TypeOK, FaceInfo
            <4> HIDE DEF Measured
            <4> QED
                BY <1>p, <2>3, <4>1, <4>2 DEF TypeOK
        <3> QED
            BY <3>1, <3>2
    <2>5. ns = NoNamespace => info' = info
        BY <1>p, <2>2 DEF TypeOK
    <2> QED
        BY <2>1, <2>2, <2>4, <2>5, <1>u
<1>9. ASSUME NEW f \in Faces, NEW k \in Keys, ReceiveNack(f, k)
      PROVE  Inv'
    <2>1. /\ pit' = [pit EXCEPT ![k] = Nacked(pit[k], f)]
          /\ up' = up
          /\ k \in Pending
          /\ ns' = UsedIfThere
          /\ probes' = probes
          /\ info[f] = NoInfo => info' = info
          /\ info[f] # NoInfo => info' = [info EXCEPT ![f] = Silence(info[f], k)]
        BY <1>9 DEF ReceiveNack, NackArrives
    <2>2. PipelineType'
        BY <1>p, <2>1, PendingType, NackedType, EntryChanges
    <2>3. info' \in [Faces -> FaceInfo \cup {NoInfo}]
        BY <1>p, <2>1, SilenceType DEF TypeOK
    <2>4. ns = NoNamespace => info' = info
        BY <1>p, <2>1 DEF TypeOK
    <2> QED
        BY <2>1, <2>2, <2>3, <2>4, <1>u
<1>10. ASSUME NEW f \in Faces, RtoTimeout(f)
       PROVE  Inv'
    <2>1. /\ info[f] \in FaceInfo
          /\ info[f].timer \in Keys
          /\ ns # NoNamespace
        BY <1>10, <1>p DEF RtoTimeout, TypeOK, FaceInfo
    <2>2. /\ info' = [info EXCEPT ![f] = Silence(info[f], info[f].timer)]
          /\ ns' = UsedIfThere
          /\ UNCHANGED <<pit, up, probes>>
        BY <1>10 DEF RtoTimeout
    <2>3. info' \in [Faces -> FaceInfo \cup {NoInfo}]
        BY <1>p, <2>1, <2>2, SilenceType DEF TypeOK
    <2>4. PipelineType'
        BY <1>p, <2>2 DEF PipelineType
    <2> QED
        BY <2>1, <2>2, <2>3, <2>4, <1>u
<1>11. CASE ProbeDue
    <2>1. /\ probes[0] > 0
          /\ probes' = [probes EXCEPT ![0] = @ - 1]
          /\ ns' = IF ns = NoNamespace THEN ns ELSE [Used EXCEPT !.due = TRUE]
          /\ UNCHANGED <<pit, up, info>>
        BY <1>11 DEF ProbeDue
    <2>2. 0 \in 0..Interval /\ ~NoneScheduled
        BY <2>1, AsfAssumption DEF NoneScheduled
    <2>3. ns # NoNamespace /\ ns.first /\ ~ns.due
        BY <1>p, <2>2 DEF ChainLives
    <2>4. OnlyScheduled(0)
        BY <1>p, <2>1, <2>2, <2>3 DEF ChainLives, OnlyScheduled
    <2>5. probes' \in [0..Interval -> Nat] /\ NoneScheduled'
        BY <1>p, <2>1, <2>2, <2>4 DEF TypeOK, OnlyScheduled, NoneScheduled
    <2>6. /\ ns' \in NamespaceInfo
          /\ ns'.due
          /\ ns'.first = Used.first
        BY <1>p, <2>1, <2>3, UsedType DEF NamespaceInfo
    <2>7. PipelineType' /\ info' \in [Faces -> FaceInfo \cup {NoInfo}]
        BY <1>p, <2>1 DEF PipelineType, TypeOK
    <2>8. ChainLives'
        BY <1>p, <2>3, <2>5, <2>6, UsedType DEF ChainLives
    <2> QED
        BY <2>5, <2>6, <2>7, <2>8, WritesInfo DEF Inv
<1>12. CASE Tick
    <2>1. /\ probes[0] = 0
          /\ ~Expired
          /\ probes' = [n \in 0..Interval |-> IF n < Interval THEN probes[n + 1] ELSE 0]
          /\ ns' = IF ns = NoNamespace THEN ns ELSE [ns EXCEPT !.life = @ - 1]
          /\ UNCHANGED <<pit, up, info>>
        BY <1>12 DEF Tick
    <2>2. probes' \in [0..Interval -> Nat]
        BY <1>p, <2>1, AsfAssumption DEF TypeOK
    <2>3. NoneScheduled => NoneScheduled'
        BY <2>1, AsfAssumption DEF NoneScheduled
    <2>4. ASSUME NEW n \in 0..Interval, OnlyScheduled(n)
          PROVE  n - 1 \in 0..Interval /\ OnlyScheduled(n - 1)'
        <3>1. n # 0 /\ n - 1 \in 0..Interval /\ n - 1 < Interval
            BY <2>1, <2>4, AsfAssumption DEF OnlyScheduled
        <3>2. probes'[n - 1] = probes[n]
            BY <2>1, <3>1
        <3>3. ASSUME NEW m \in 0..Interval \ {n - 1}
              PROVE  probes'[m] = 0
            <4>1. CASE m < Interval
                <5>1. m + 1 \in 0..Interval \ {n}
                    BY <4>1, AsfAssumption
                <5> QED
                    BY <2>1, <2>4, <4>1, <5>1 DEF OnlyScheduled
            <4>2. CASE ~(m < Interval)
                BY <2>1, <4>2
            <4> QED
                BY <4>1, <4>2
        <3> QED
            BY <2>4, <3>1, <3>2, <3>3 DEF OnlyScheduled
    <2>5. CASE ns = NoNamespace
        <3>1. NoneScheduled /\ ns' = ns
            BY <1>p, <2>1, <2>5 DEF ChainLives
        <3> QED
            BY <1>p, <2>1, <2>2, <2>3, <2>5, <3>1 DEF Inv, TypeOK, PipelineType, ChainLives
    <2>6. CASE ns # NoNamespace
        <3>1. ns \in NamespaceInfo /\ ns.life \in Nat \ {0} /\ ns.life \in 0..Life
            BY <1>p, <2>1, <2>6, AsfAssumption DEF TypeOK, Expired, NamespaceInfo
        <3>2. /\ ns' \in NamespaceInfo
              /\ ns'.life = ns.life - 1
              /\ ns'.first = ns.first
              /\ ns'.due = ns.due
            BY <2>1, <2>6, <3>1, AsfAssumption DEF NamespaceInfo
        <3>3. \A n \in 0..Interval : n < ns.life => n - 1 < ns'.life
            BY <3>1, <3>2, AsfAssumption
        <3>4. ns' # NoNamespace
            BY <3>2, AsfAssumption
        <3>5. ChainLives'
            <4>1. CASE ns.first /\ ~ns.due
                <5>1. PICK n \in 0..Interval : OnlyScheduled(n) /\ n < ns.life
                    BY <1>p, <2>6, <4>1 DEF ChainLives
                <5>2. n - 1 \in 0..Interval /\ OnlyScheduled(n - 1)' /\ n - 1 < ns'.life
                    BY <2>4, <3>3, <5>1
                <5>3. \E m \in 0..Interval : OnlyScheduled(m)' /\ m < ns'.life
                    BY <5>2
                <5> QED
                    BY <3>2, <3>4, <4>1, <5>3 DEF ChainLives
            <4>2. CASE ~(ns.first /\ ~ns.due)
                BY <1>p, <2>3, <2>6, <3>2, <3>4, <4>2 DEF ChainLives
            <4> QED
                BY <4>1, <4>2
        <3> QED
            BY <1>p, <2>1, <2>2, <3>2, <3>5, WritesInfo DEF Inv, TypeOK, PipelineType
    <2> QED
        BY <2>5, <2>6
<1>13. CASE NamespaceExpires
    <2>1. /\ ns # NoNamespace
          /\ ns.life = 0
          /\ ns' = NoNamespace
          /\ info' = [f \in Faces |-> NoInfo]
          /\ UNCHANGED <<pit, up, probes>>
        BY <1>13 DEF NamespaceExpires, Expired
    <2>2. NoneScheduled
        BY <1>p, <2>1 DEF ChainLives
    <2> QED
        BY <1>p, <2>1, <2>2 DEF Inv, TypeOK, PipelineType, ChainLives, NoneScheduled
<1>14. ASSUME NEW f \in Faces, FaceInfoExpires(f)
       PROVE  Inv'
    <2>1. info' = [info EXCEPT ![f] = NoInfo] /\ UNCHANGED <<pit, up, ns, probes>>
        BY <1>14 DEF FaceInfoExpires
    <2>2. ChainLives'
        BY <1>p, <2>1, ChainKept DEF Inv
    <2> QED
        BY <1>p, <2>1, <2>2 DEF Inv, TypeOK, PipelineType
<1>k. ASSUME PipelineType', UNCHANGED <<info, ns, probes>>
      PROVE  Inv'
    BY <1>p, <1>k, ChainKept DEF Inv, TypeOK
<1>15. ASSUME NEW k \in Keys, FinalizeInterest(k)
       PROVE  Inv'
    <2>1. PipelineType'
        BY <1>15, <1>p, EntryChanges DEF FinalizeInterest, EntryEnds
    <2> QED
        BY <1>15, <2>1, <1>k DEF FinalizeInterest
<1>16. ASSUME NEW k \in Keys, NEW f \in Faces, Lapse(k, f)
       PROVE  Inv'
    BY <1>16, <1>p, <1>k, RecordLapsesType DEF Lapse
<1>17. ASSUME NEW f \in Faces, RemoveFace(f)
       PROVE  Inv'
    BY <1>17, <1>p, <1>k, FaceGoesType DEF RemoveFace
<1>18. CASE UNCHANGED vars
    BY <1>18, <1>p, <1>k DEF vars, PipelineType
<1> QED
    BY <1>1, <1>2, <1>3, <1>4, <1>5, <1>6, <1>7, <1>8, <1>9, <1>10, <1>11, <1>12, <1>13,
       <1>14, <1>15, <1>16, <1>17, <1>18 DEF Next, Forward

LEMMA SpecInv == Spec => []Inv
BY InitInv, NextInv, PTL DEF Spec

\* The measurements stay well formed, and no FaceInfo outlives the namespace it belongs
\* to, whatever the faces, names and next hops (asf-measurements.cpp:34-144,
\* asf-strategy.cpp:71-253).
THEOREM AsfTyped == Spec => []TypeOK
<1>1. Inv => TypeOK
    BY DEF Inv
<1> QED
    BY <1>1, SpecInv, PTL

\* Probing stays one chain of events, for any probing interval shorter than the life of
\* the measurements and any first delay up to the interval: no second chain is started
\* and no scheduled probe is left without its namespace (asf-probing-module.cpp:39-129,
\* asf-measurements.cpp:107-144).
THEOREM OneChainOfProbes == Spec => []ProbeChain
<1>1. Inv => ProbeChain
    BY ChainIsProbeChain DEF Inv
<1> QED
    BY <1>1, SpecInv, PTL
=============================================================================
