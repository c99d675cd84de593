----------------------------- MODULE Forwarder -----------------------------
(***************************************************************************)
(* The forwarding pipelines of one node: fw/forwarder.cpp, with the        *)
(* strategies of Strategies and the limits DFace puts on the Pending       *)
(* Interest Table.                                                         *)
(*                                                                         *)
(* ns-3 runs one event at a time, so one action is one whole handler.      *)
(* Events due at the same instant run in any order: a packet may arrive    *)
(* while an entry whose timer has run out awaits its removal.              *)
(***************************************************************************)
EXTENDS Strategies

CONSTANTS
    NoEntry,             \* the PIT has no entry with this key
    CentralPit,          \* the limits of the "Central PIT" variant are in force
    PitLimit,            \* its bound on the PIT (450)
    ReductionDelay,      \* marked Data to onReductionPITEntry (1000 ms), in ticks
    MarksPerTick,        \* bound: marked Data in one tick
    UnsolicitedPolicy,   \* what to do with Data nobody asked for
    RemovableFaces,      \* bound: the faces that may be removed
    NackReasons          \* bound: the reasons of the Nacks that arrive

VARIABLES
    pit,          \* the Pending Interest Table
    cs,           \* the Content Store
    dnl,          \* the Dead Nonce List
    up,           \* the faces in the face table
    quota,        \* pit_size: what a gateway admits for names not under /dst1/
    reductions,   \* reductions[t]: calls of onReductionPITEntry due in t ticks
    sent          \* what the last step handed to the faces

vars == <<pit, cs, dnl, up, quota, reductions, sent>>

Policies == {"drop-all", "admit-local", "admit-network", "admit-all"}

ASSUME LimitAssumption ==
    /\ CentralPit \in BOOLEAN
    /\ PitLimit \in Nat
    /\ ReductionDelay \in Nat
    /\ MarksPerTick \in Nat
    /\ UnsolicitedPolicy \in Policies
    /\ RemovableFaces \subseteq Faces
    /\ NackReasons \subseteq Reasons
    /\ IsFiniteSet(Keys)

ASSUME NoEntryAssumption == NoEntry \notin Entry

Cached == {"absent", "stale", "fresh"}

TypeOK ==
    /\ pit \in [Keys -> Entry \cup {NoEntry}]
    /\ cs \in [DataPackets -> Cached]
    /\ dnl \subseteq Names \X Nonces
    /\ up \subseteq Faces
    /\ quota \in Nat
    /\ reductions \in [0 .. ReductionDelay -> Nat]
    /\ sent \subseteq Transmission

Init ==
    /\ pit = [k \in Keys |-> NoEntry]
    /\ cs = [d \in DataPackets |-> "absent"]
    /\ dnl = {}
    /\ up = Faces
    /\ quota = 0
    /\ reductions = [t \in 0 .. ReductionDelay |-> 0]
    /\ sent = {}

Pending == {k \in Keys : pit[k] # NoEntry}

(***************************************************************************)
(* Limits on the PIT.                                                      *)
(***************************************************************************)
\* Mutant: one entry too many.
PitOverfull == CentralPit /\ Cardinality(Pending) > PitLimit

PitFull == CentralPit /\ Cardinality(Pending) >= PitLimit

\* The entries that onIncomingInterest and onReductionPITEntry count: those whose
\* parent's URI does not start with "/dst1/".
Counted == {k \in Pending : ~UnderUri("dst1", Parent(k.name))}

\* Only a consumer's gateway asks, and not for names under "/dst1/".
MeetsQuota(i) ==
    /\ CentralPit
    /\ i.hop = "first"
    /\ ~UnderUri("dst1", i.key.name)

\* Mutant: one entry too many.
OverQuotaByOne(i) == MeetsQuota(i) /\ Cardinality(Counted) > quota

OverQuota(i) == MeetsQuota(i) /\ Cardinality(Counted) >= quota

(***************************************************************************)
(* Tables.                                                                 *)
(***************************************************************************)
\* Pit::insert.
EntryOf(key) == IF pit[key] = NoEntry THEN NewEntry ELSE pit[key]

\* The Data with which the Content Store can answer an Interest.
CsMatches(key) ==
    {d \in DataPackets : /\ cs[d] # "absent"
                         /\ Matches(key, d)
                         /\ key.fresh => cs[d] = "fresh"}

CsInsert(data) ==
    cs' = [cs EXCEPT ![data] = IF data.freshness = "zero" THEN "stale" ELSE "fresh"]

\* Mutant: nothing of a satisfied entry is kept, even when a MustBeFresh
\* Interest will soon get past the caches again.
DeadUnlessSatisfied(key, e, faces) ==
    IF e.satisfied
    THEN {}
    ELSE {<<key.name, e.out[f].nonce>> : f \in faces \cap Upstreams(e)}

\* insertDeadNonceList: the Nonces of an entry's out-records to a set of faces,
\* unless Data that may come again from a cache has satisfied the entry.
DeadNonces(key, e, faces) ==
    IF e.satisfied /\ ~(key.fresh /\ e.short)
    THEN {}
    ELSE {<<key.name, e.out[f].nonce>> : f \in faces \cap Upstreams(e)}

(***************************************************************************)
(* onIncomingInterest.                                                     *)
(***************************************************************************)
\* Only a local application may choose the next hop.
InterestArrives(f, i) ==
    /\ f \in up
    /\ i.via # NoFace => f \in Local

\* No Interest that may arrive names its own next hop (NextHopFaceIdTag).
NoneSteered == \A i \in Interests : i.via = NoFace

\* Mutant: the scope of /localhost is not looked at.
AdmittedFromAnywhere(f, i) == ~PitFull /\ ~OverQuota(i)

Admitted(f, i) ==
    /\ ~PitFull
    /\ ~OverQuota(i)
    /\ ~LeaksLocalhost(f, i.key.name)

\* Mutant: the Dead Nonce List is not consulted.
IsLoopInPit(f, i) == DuplicateNonce(EntryOf(i.key), i.nonce, f)

IsLoop(f, i) ==
    \/ <<i.key.name, i.nonce>> \in dnl
    \/ DuplicateNonce(EntryOf(i.key), i.nonce, f)

\* A full PIT, the gateway's quota and the scope of /localhost drop silently.
DropInterest(f, i) ==
    /\ InterestArrives(f, i)
    /\ ~Admitted(f, i)
    /\ sent' = {}
    /\ UNCHANGED <<pit, cs, dnl, up, quota, reductions>>

\* onInterestLoop.
LoopInterest(f, i) ==
    /\ InterestArrives(f, i)
    /\ Admitted(f, i)
    /\ IsLoop(f, i)
    /\ sent' = {SentNack(g, i.key, i.nonce, "duplicate") : g \in {f} \cap P2P}
    /\ UNCHANGED <<pit, cs, dnl, up, quota, reductions>>

\* onContentStoreHit.
HitInterest(f, i, d) ==
    /\ InterestArrives(f, i)
    /\ Admitted(f, i)
    /\ ~IsLoop(f, i)
    /\ Downstreams(EntryOf(i.key)) = {}
    /\ d \in CsMatches(i.key)
    /\ LET e == [Satisfied(EntryOf(i.key), d) EXCEPT !.timer = 0]
           o == AfterContentStoreHit(e, d, f)
       IN  /\ pit' = [pit EXCEPT ![i.key] = o.entry]
           /\ sent' = o.sent
    /\ UNCHANGED <<cs, dnl, up, quota, reductions>>

\* The outcomes of onContentStoreMiss once the downstream is recorded.
MissOutcomes(e, i, f) ==
    IF i.via = NoFace THEN AfterReceiveInterest(e, i, f, up)
    ELSE IF i.via \in up THEN {SendInterest(e, i, i.via)}
    ELSE {Keep(e)}

\* onContentStoreMiss.
MissInterest(f, i) ==
    /\ InterestArrives(f, i)
    /\ Admitted(f, i)
    /\ ~IsLoop(f, i)
    /\ Downstreams(EntryOf(i.key)) # {} \/ CsMatches(i.key) = {}
    /\ LET e == WithInRecord(EntryOf(i.key), f, i.nonce, i.life)
       IN  \E t \in LastExpiry(e) :
             \E o \in MissOutcomes([e EXCEPT !.timer = t], i, f) :
                /\ pit' = [pit EXCEPT ![i.key] = o.entry]
                /\ sent' = o.sent
    /\ UNCHANGED <<cs, dnl, up, quota, reductions>>

(***************************************************************************)
(* onIncomingData.                                                         *)
(***************************************************************************)
DataMatches(d) == {k \in Pending : Matches(k, d)}

\* Marked Data, dropped later or not, schedules a reduction.
ScheduleReduction(d) ==
    /\ d.marked => reductions[ReductionDelay] < MarksPerTick
    /\ reductions' = IF d.marked
                     THEN [reductions EXCEPT ![ReductionDelay] = @ + 1]
                     ELSE reductions

\* UnsolicitedDataPolicy::decide.
AdmitsUnsolicited(f) ==
    \/ UnsolicitedPolicy = "admit-all"
    \/ UnsolicitedPolicy = "admit-local" /\ f \in Local
    \/ UnsolicitedPolicy = "admit-network" /\ f \notin Local

\* onDataUnsolicited.
DataUnsolicited(f, d) == IF AdmitsUnsolicited(f) THEN CsInsert(d) ELSE UNCHANGED cs

\* Data that leaks /localhost is dropped; Data nobody asked for may be cached.
StrayData(f, d) ==
    /\ f \in up
    /\ LeaksLocalhost(f, d.name) \/ DataMatches(d) = {}
    /\ ScheduleReduction(d)
    /\ IF LeaksLocalhost(f, d.name) THEN UNCHANGED cs ELSE DataUnsolicited(f, d)
    /\ sent' = {}
    /\ UNCHANGED <<pit, dnl, up, quota>>

\* One match: the strategy sends the Data.
SatisfyOne(f, d) ==
    /\ f \in up
    /\ ~LeaksLocalhost(f, d.name)
    /\ ScheduleReduction(d)
    /\ \E k \in Keys :
        /\ DataMatches(d) = {k}
        /\ LET o == AfterReceiveData([pit[k] EXCEPT !.timer = 0], d, f)
               e == Satisfied(o.entry, d)
           IN  /\ pit' = [pit EXCEPT ![k] = WithoutOut(e, {f})]
               /\ dnl' = dnl \cup DeadNonces(k, e, {f})
               /\ sent' = o.sent
    /\ CsInsert(d)
    /\ UNCHANGED <<up, quota>>

\* An entry that one Data satisfies together with others.
SatisfiedTogether(e, d, f) ==
    WithoutIn(WithoutOut([Satisfied(e, d) EXCEPT !.timer = 0], {f}), Faces)

\* Several matches: the pipeline itself sends the Data, once per face.  The
\* ingress is left out only when the Data came from endpoint 0, the endpoint the
\* collected downstreams have: of a face of multi-access type, others exist.
SatisfyMany(f, fromEndpoint0, d) ==
    /\ f \in up
    /\ fromEndpoint0 \/ f \notin P2P \cup AdHoc
    /\ ~LeaksLocalhost(f, d.name)
    /\ DataMatches(d) # {}
    /\ \A k \in Keys : DataMatches(d) # {k}
    /\ ScheduleReduction(d)
    /\ LET waiting == UNION {PendingDownstreams(pit[k]) : k \in DataMatches(d)}
           to == {g \in waiting : g # f \/ ~fromEndpoint0 \/ g \in AdHoc}
       IN  sent' = OutgoingData(d, to)
    /\ pit' = [k \in Keys |-> IF k \in DataMatches(d)
                              THEN SatisfiedTogether(pit[k], d, f)
                              ELSE pit[k]]
    /\ dnl' = dnl \cup UNION {DeadNonces(k, Satisfied(pit[k], d), {f}) :
                                k \in DataMatches(d)}
    /\ CsInsert(d)
    /\ UNCHANGED <<up, quota>>

(***************************************************************************)
(* onIncomingNack.                                                         *)
(***************************************************************************)
NackAccepted(f, k, nonce) ==
    /\ f \in P2P
    /\ pit[k] # NoEntry
    /\ f \in Upstreams(pit[k])
    /\ pit[k].out[f].nonce = nonce

\* Any other Nack is dropped without effect.
ReceiveNack(f, k, nonce, reason) ==
    /\ f \in up
    /\ NackAccepted(f, k, nonce)
    /\ LET e == [pit[k] EXCEPT !.out[f].nack = reason]
           timed == IF HasPendingOutRecords(e) THEN e ELSE [e EXCEPT !.timer = 0]
       IN  \E o \in AfterReceiveNack(timed, k) :
              /\ pit' = [pit EXCEPT ![k] = o.entry]
              /\ sent' = o.sent
    /\ UNCHANGED <<cs, dnl, up, quota, reductions>>

(***************************************************************************)
(* Scheduled events and the clock.                                         *)
(***************************************************************************)
\* onInterestFinalize.
FinalizeInterest(k) ==
    /\ k \in Pending
    /\ pit[k].timer = 0
    /\ dnl' = dnl \cup DeadNonces(k, pit[k], Faces)
    /\ pit' = [pit EXCEPT ![k] = NoEntry]
    /\ sent' = {}
    /\ UNCHANGED <<cs, up, quota, reductions>>

\* Mutant: the last of the calls due never runs.
ReduceAllButOne ==
    /\ reductions[0] > 1
    /\ reductions' = [reductions EXCEPT ![0] = @ - 1]
    /\ quota' = Cardinality(Counted) \div 2
    /\ sent' = {}
    /\ UNCHANGED <<pit, cs, dnl, up>>

\* onReductionPITEntry: isr is set to 0.5 before the quota is computed from it.
ReducePit ==
    /\ reductions[0] > 0
    /\ reductions' = [reductions EXCEPT ![0] = @ - 1]
    /\ quota' = Cardinality(Counted) \div 2
    /\ sent' = {}
    /\ UNCHANGED <<pit, cs, dnl, up>>

\* Time passes once nothing is due.
Tick ==
    /\ \A k \in Pending : pit[k].timer > 0
    /\ reductions[0] = 0
    /\ pit' = [k \in Keys |-> IF pit[k] = NoEntry THEN NoEntry ELSE Aged(pit[k])]
    /\ reductions' = [t \in 0 .. ReductionDelay |->
                        IF t < ReductionDelay THEN reductions[t + 1] ELSE 0]
    /\ sent' = {}
    /\ UNCHANGED <<cs, dnl, up, quota>>

(***************************************************************************)
(* The tables around the pipelines.                                        *)
(***************************************************************************)
\* Mutant: the face's out-records are forgotten, its in-records stay.
RemoveUpstream(f) ==
    /\ f \in up \cap RemovableFaces
    /\ up' = up \ {f}
    /\ pit' = [k \in Keys |-> IF pit[k] = NoEntry THEN NoEntry
                              ELSE WithoutOut(pit[k], {f})]
    /\ sent' = {}
    /\ UNCHANGED <<cs, dnl, quota, reductions>>

\* FaceTable::remove: cleanupOnFaceRemoval takes the face's records out of the
\* PIT and its next hops out of the FIB.
RemoveFace(f) ==
    /\ f \in up \cap RemovableFaces
    /\ up' = up \ {f}
    /\ pit' = [k \in Keys |-> IF pit[k] = NoEntry THEN NoEntry
                              ELSE WithoutIn(WithoutOut(pit[k], {f}), {f})]
    /\ sent' = {}
    /\ UNCHANGED <<cs, dnl, quota, reductions>>

\* The Content Store lets a Data grow stale, or evicts it.
AgeContent(d) ==
    /\ cs[d] # "absent"
    /\ \E s \in {"stale", "absent"} \ {cs[d]} : cs' = [cs EXCEPT ![d] = s]
    /\ sent' = {}
    /\ UNCHANGED <<pit, dnl, up, quota, reductions>>

\* The Dead Nonce List forgets.
ForgetNonce(dead) ==
    /\ dead \in dnl
    /\ dnl' = dnl \ {dead}
    /\ sent' = {}
    /\ UNCHANGED <<pit, cs, up, quota, reductions>>

Next ==
    \/ \E f \in Faces, i \in Interests : DropInterest(f, i)
    \/ \E f \in Faces, i \in Interests : LoopInterest(f, i)
    \/ \E f \in Faces, i \in Interests, d \in DataPackets : HitInterest(f, i, d)
    \/ \E f \in Faces, i \in Interests : MissInterest(f, i)
    \/ \E f \in Faces, d \in DataPackets : StrayData(f, d)
    \/ \E f \in Faces, d \in DataPackets : SatisfyOne(f, d)
    \/ \E f \in Faces, b \in BOOLEAN, d \in DataPackets : SatisfyMany(f, b, d)
    \/ \E f \in Faces, k \in Keys, n \in Nonces, r \in NackReasons : ReceiveNack(f, k, n, r)
    \/ \E k \in Keys : FinalizeInterest(k)
    \/ ReducePit
    \/ Tick
    \/ \E f \in Faces : RemoveFace(f)
    \/ \E d \in DataPackets : AgeContent(d)
    \/ \E dead \in Names \X Nonces : ForgetNonce(dead)

Spec == Init /\ [][Next]_vars

\* What ns-3's scheduler guarantees: a scheduled event is run at its time, and time
\* goes on.  No packet need ever arrive.
Fairness ==
    /\ \A k \in Keys : WF_vars(FinalizeInterest(k))
    /\ WF_vars(ReducePit)
    /\ WF_vars(Tick)

LiveSpec == Spec /\ Fairness

(***************************************************************************)
(* Safety.                                                                 *)
(***************************************************************************)
\* "Central PIT" never holds more entries than its limit, although only the
\* arrival of an Interest looks at the limit (forwarder.cpp:190).
PitBound == CentralPit => Cardinality(Pending) <= PitLimit

\* One Nonce waits on one downstream only: of an Interest that arrives by two ways
\* the second arrival is a loop, also where a point-to-point face may repeat its
\* own Nonce (forwarder.cpp:351-363).
InRecordNonceUnique ==
    \A k \in Pending : \A f, g \in Downstreams(pit[k]) :
        pit[k].in[f].nonce = pit[k].in[g].nonce => f = g

\* Where applications do not choose next hops, no strategy but the first best route
\* sends an Interest back to the face whose Interest it is: a face never is upstream
\* and downstream of one Nonce, whatever arrived in between (algorithm.cpp:155-177,
\* forwarder.cpp:351-363).
NoReflection ==
    NoneSteered =>
        \A k \in Pending : StrategyOf[k] # "best-route-v1" =>
            \A f \in (Downstreams(pit[k]) \cap Upstreams(pit[k])) \ AdHoc :
                pit[k].in[f].nonce # pit[k].out[f].nonce

\* Records hold references to faces: none outlives its face (forwarder.cpp:85-87).
NoDanglingFace ==
    \A k \in Pending : Downstreams(pit[k]) \cup Upstreams(pit[k]) \subseteq up

\* An entry whose timer was not cut short outlives the Interests of all its
\* downstreams, in whatever order they came and went: "The PIT entry is set to
\* expire after InterestLifetime has elapsed at each downstream"
\* (strategy.hpp:137, forwarder.cpp:403-412).
TimerCoversDownstreams ==
    \A k \in Pending : pit[k].timer > 0 =>
        \A f \in Downstreams(pit[k]) : pit[k].in[f].left <= pit[k].timer

\* As long as no face is removed and applications choose no next hops, an entry with
\* time left that Data has not satisfied has a downstream: Nacks are returned to one
\* downstream or to all, and never leave an entry running on behalf of nobody
\* (process-nack-traits.cpp:34-83, forwarder.cpp:818-823).
SomeoneWaits ==
    RemovableFaces = {} /\ NoneSteered =>
        \A k \in Pending :
            pit[k].timer > 0 /\ ~pit[k].satisfied => Downstreams(pit[k]) # {}

\* Only local faces wait for names under /localhost, so that neither Data nor a
\* Nack for such a name can be asked for from outside (forwarder.cpp:320-327).
LocalhostDownstreams ==
    \A k \in Pending : IsLocalhost(k.name) => Downstreams(pit[k]) \subseteq Local

(***************************************************************************)
(* What a step may never do.                                               *)
(***************************************************************************)
\* The Data a pending Interest of a face calls for, which the step consumes.
PaidByPending(p) ==
    \E k \in Pending :
        /\ Matches(k, p.data)
        /\ p.to \in Downstreams(pit[k])
        /\ pit[k].in[p.to].left > 0
        /\ pit'[k] # NoEntry
        /\ p.to \notin Downstreams(pit'[k])

\* The answer of the Content Store to the Interest that has just come.
PaidByHit(p) ==
    /\ cs[p.data] # "absent"
    /\ sent' = {p}
    /\ \E k \in Keys :
          /\ Matches(k, p.data)
          /\ k \in Pending => Downstreams(pit[k]) = {}
          /\ pit'[k] # NoEntry
          /\ pit'[k].satisfied
          /\ pit'[k].timer = 0

\* Flow balance: Data leaves by a face either because an Interest of that face was
\* pending and unexpired, which the step consumes, or as the answer of the Content
\* Store to the Interest that has just come (forwarder.cpp:437-461, 550-734,
\* strategy.cpp:225-271).
FlowBalance ==
    [][\A p \in sent' : p.type = "data" => PaidByPending(p) \/ PaidByHit(p)]_vars

\* A Nack leaves by a point-to-point face that waits no longer after it, for the
\* Nonce it waited with, or rejects the Interest that has just come: because of a
\* loop, without a trace in the PIT, or for want of a route, and then the entry is
\* due for removal (forwarder.cpp:376-394, 831-874, process-nack-traits.cpp:34-83).
NackBalance ==
    [][\A p \in sent' : p.type = "nack" =>
          /\ p.to \in P2P
          /\ \/ /\ p.key \in Pending
                /\ p.to \in Downstreams(pit[p.key])
                /\ p.nonce = pit[p.key].in[p.to].nonce
                /\ pit'[p.key] # NoEntry
                /\ p.to \notin Downstreams(pit'[p.key])
             \/ /\ p.reason = "no-route"
                /\ pit'[p.key] # NoEntry
                /\ pit'[p.key].timer = 0
                /\ p.to \notin Downstreams(pit'[p.key])
             \/ /\ p.reason = "duplicate"
                /\ pit' = pit
                /\ \/ <<p.key.name, p.nonce>> \in dnl
                   \/ \E f \in Faces : \/ f \in Downstreams(EntryOf(p.key))
                                          /\ pit[p.key].in[f].nonce = p.nonce
                                       \/ f \in Upstreams(EntryOf(p.key))
                                          /\ pit[p.key].out[f].nonce = p.nonce]_vars

\* A downstream waits with this Interest's Nonce, which neither the Dead Nonce List nor
\* an out-record holds, but for an out-record where a point-to-point downstream has
\* repeated it.
OnBehalf(p) ==
    /\ <<p.key.name, p.nonce>> \notin dnl
    /\ pit'[p.key] # NoEntry
    /\ \E f \in Downstreams(pit'[p.key]) :
          /\ pit'[p.key].in[f].nonce = p.nonce
          /\ \/ /\ f \in P2P
                /\ f \in Downstreams(EntryOf(p.key))
                /\ pit[p.key].in[f].nonce = p.nonce
             \/ \A g \in Upstreams(EntryOf(p.key)) : pit[p.key].out[g].nonce # p.nonce

\* An Interest leaves only on behalf of a downstream that waits with its Nonce, and never
\* with a Nonce that the node remembers: one that is dead, or one that an out-record
\* holds, unless a point-to-point downstream has repeated it itself.  A Nonce that a
\* newer one has overwritten in an out-record, or that the Dead Nonce List has forgotten,
\* is unknown, and a copy with it is forwarded again (forwarder.cpp:329-363, 485).
NoLoopForward ==
    [][\A p \in sent' : p.type = "interest" => OnBehalf(p)]_vars

\* Best route leaves at least the initial suppression interval between two
\* transmissions of an entry that waits for an answer, whichever downstreams ask, where
\* applications do not choose next hops (retx-suppression-exponential.cpp:69-92).
RetransmissionPaced ==
    [][NoneSteered => \A p \in sent' :
          /\ p.type = "interest"
          /\ StrategyOf[p.key] = "best-route"
          /\ p.key \in Pending
          /\ HasPendingOutRecords(pit[p.key])
          => \A f \in Upstreams(pit[p.key]) : pit[p.key].out[f].age >= RetxInitial]_vars

\* The Nonce of f's out-record in k is still there, or has been overwritten by an
\* Interest that has really been sent.
NonceKept(k, f) ==
    /\ pit'[k] # NoEntry
    /\ pit'[k].out[f] # NoRecord
    /\ \/ pit'[k].out[f].nonce = pit[k].out[f].nonce
       \/ SentInterest(f, k, pit'[k].out[f].nonce) \in sent'

\* It is dead by the end of the step, or was answered with Data that caches go on
\* answering.
NonceRetired(k, f) ==
    \/ <<k.name, pit[k].out[f].nonce>> \in dnl'
    \/ pit'[k] = NoEntry /\ pit[k].satisfied
    \/ pit'[k] # NoEntry /\ pit'[k].satisfied /\ ~(k.fresh /\ pit'[k].short)

\* A step takes a Nonce that was sent upstream out of the PIT in three ways only: with the
\* face; with an Interest to that face that takes its place, and then the Nonce is lost;
\* or with its record, and then it is dead after the step (until the Dead Nonce List
\* forgets it) or was answered for good (forwarder.cpp:485, 492-516, 673-685, 932-962).
OutNonceRetired ==
    [][\A k \in Pending : \A f \in up' :
          pit[k].out[f] = NoRecord \/ NonceKept(k, f) \/ NonceRetired(k, f)]_vars

\* Nothing named under /localhost leaves the node, Interests steered by a local
\* application apart (forwarder.cpp:320-327, 628-634, 757-763, algorithm.cpp:31-51).
ScopeKept ==
    [][\A p \in sent' :
          IF p.type = "data" THEN ~LeaksLocalhost(p.to, p.data.name)
          ELSE p.type = "nack" \/ NoneSteered => ~LeaksLocalhost(p.to, p.key.name)]_vars

(***************************************************************************)
(* What must happen in the end.                                            *)
(***************************************************************************)
Quiet == <>[][\A f \in Faces, i \in Interests :
                /\ ~MissInterest(f, i)
                /\ \A d \in DataPackets : ~HitInterest(f, i, d)]_vars

\* When no more Interests are taken up, the PIT empties, whatever Data and Nacks
\* still come in: no entry is without a running timer (forwarder.cpp:403-412,
\* 437-461, 818-823, 922-930).
Drained == Quiet => <>[](Pending = {})

\* And every reduction that marked Data has scheduled falls due and is carried out:
\* time passes for it, however many events are due at each instant
\* (forwarder.cpp:609-618).
Reduced ==
    Quiet => /\ \A t \in 0 .. ReductionDelay : reductions[t] > 0 ~> reductions[0] > 0
             /\ reductions[0] > 0 ~> reductions[0] = 0

(***************************************************************************)
(* What the code's comments promise and the code does not do.              *)
(***************************************************************************)
\* "calculation of response time" (forwarder.cpp:653): the sample is taken from the
\* in-record that expires last, so the one entry that Data matches has an in-record;
\* asked only of entries that still wait, it does not hang on the order of the events
\* of one instant.
ResponseTimeDefined ==
    \A d \in DataPackets : \A k \in Keys :
        DataMatches(d) = {k} /\ pit[k].timer > 0 => Downstreams(pit[k]) # {}

\* "Otherwise, wait for the arrival of more Nacks or Data" (process-nack-traits.hpp:43):
\* a Nack that is not passed on while an upstream has not answered leaves the
\* entry's timer alone.
NackWaits ==
    [][\A k \in Pending :
          LET nacked == {f \in Upstreams(pit[k]) : pit[k].out[f].nack # NotNacked}
              nackedNext == {f \in Upstreams(pit'[k]) : pit'[k].out[f].nack # NotNacked}
          IN  /\ pit'[k] # NoEntry
              /\ ~pit[k].satisfied
              /\ nackedNext \ nacked # {}
              /\ Upstreams(pit'[k]) # nackedNext
              /\ sent' = {}
              => pit'[k].timer = pit[k].timer]_vars
=============================================================================
