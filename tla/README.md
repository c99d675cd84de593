# DFace: a verification of the forwarder

DFace changes the forwarder of NFD, the Named Data Networking forwarding daemon, as
it is embedded in ndnSIM (an extension of the ns-3 simulator): marked Data, a limit on
the Pending Interest Table (PIT) of a "Central PIT" node, a quota for the names a
consumer's gateway admits, and a strategy (PCON) that reacts to congestion marks. This
directory holds TLA+ models of that forwarder, their model-checking runs and
machine-checked proofs.

## 1. What is in the repository

| Part | Where | Role here |
|---|---|---|
| Central PIT forwarder | `src/Central PIT/fw/` (45 files, 8171 lines) | the reference of the models |
| 3rd August forwarder | `src/3rd August/fw/` | the same code with `forwarder.cpp:196, 299, 301` commented out: no limit, no quota. The instances with `CentralPit = FALSE` |
| 7th May forwarder | `src/7th May/forwarder.cpp` | an older draft of one file, not modelled |
| ns-3 | `src/ns-3/` | vendored simulator, scratch scripts with the topologies, and logs |
| Analysis | `src/Analysis/` | outputs of past simulations |

The PIT, the FIB, the Content Store, the Dead Nonce List, the Measurements table, the
faces and ndn-cxx are *not* in the repository. What the models need of them is
taken from how `fw/` uses them and marked `external` in `PROJECT.json`. Below, file
names without a directory are in `src/Central PIT/fw/`.

## 2. Inventory

| Component | State | Operations | Hard behaviour | What makes it correct |
|---|---|---|---|---|
| Forwarding pipelines (`forwarder.cpp`) | the tables; per entry in-records, out-records, an expiry timer, `isSatisfied`, `dataFreshnessPeriod` | `onIncomingInterest`, `onInterestLoop`, `onContentStoreMiss/Hit`, `onOutgoingInterest`, `onInterestFinalize`, `onIncomingData`, `onDataUnsolicited`, `onOutgoingData`, `onIncomingNack`, `onOutgoingNack`, `setExpiryTimer`, `insertDeadNonceList` | packets of several faces interleave; the removal of an entry and the arrival of a packet are due at one instant; one Data satisfies several entries; records whose Interest has expired stay | flow balance of Data and Nacks; no Interest loops; no Nonce is lost between PIT and Dead Nonce List; entries outlive what waits for them and then go; `/localhost` stays inside |
| Central PIT limits (`forwarder.cpp:189-198, 523-548, 609-618`) | `pit_size`, reductions scheduled a second ahead | the two early returns, `onReductionPITEntry` | the quota is stale when used; reductions pile up | the PIT is bounded; the entries subject to the quota never fill more than half of it; every reduction happens |
| Entry algorithms (`algorithm.cpp`, `scope-prefix.cpp`) | none | `wouldViolateScope`, `canForwardToLegacy`, `findDuplicateNonce`, `hasPendingOutRecords`, `isNextHopEligible`, the searches | several notions of "pending" (`>` or `>=` now, nacked or not) | used consistently by their callers |
| Strategy base class (`strategy.cpp`) | registry | `sendInterest/Data/DataToAll/Nack/Nacks`, `rejectPendingInterest`, `lookupFib`, default triggers | actions on an entry that the pipeline goes on to change | every action leaves the records the pipelines expect |
| Retransmission suppression (`retx-suppression-*.cpp`) | interval per entry, or per out-record | `decidePerPitEntry`, `decidePerUpstream`, `incrementIntervalForOutRecord` | interval versus age of the youngest out-record | a minimum distance of transmissions |
| Nack processing (`process-nack-traits.cpp`) | none | `processNack` | order of Nacks of several upstreams; two nodes waiting for each other | Nacks go back when nobody else can answer, and nobody is left waiting |
| Best route, v1 and v2; multicast; random | suppression info | the triggers | retransmissions with and without unused next hops | above, per strategy |
| Unsolicited Data policies | none | `decide` | - | what may be cached unasked |
| Face table (`face-table.cpp`) | faces by id | `add`, `addReserved`, `remove` | a face goes while records and next hops refer to it | no dangling reference |
| PCON strategy (`pcon-strategy.cpp`, `pcon-measurements.cpp`) | per prefix and face: share, pending Interests, RTO, `congested` | the two triggers, `forwardInterest`, `getFaceForForwarding`, `onTimeout`, `endOfCongestion`, expiry of the measurements | timers bound to copies of the measurements, whose destructors cancel the originals' timers; counts that timeouts and Data both lower; an uninitialised hop count | shares are moved, not made, and never negative; a timeout finds the face it is for; an Interest that has next hops gets one; congestion ends |
| ASF strategy (`asf-*.cpp`) | RTT, silent timeouts and RTO timer per face, probing flags and events per prefix | triggers, `onTimeout`, probing, expiry of the measurements | a timeout races a late answer; events outlive the measurements they are for | probing is one unbroken chain; every next hop is tried again |
| Access strategy (`access-strategy.cpp`) | last next hop per prefix, RTO timer per entry | triggers, `afterRtoTimeout` | the timer could outlive the records it asserts | the timer finds its in-record; no Interest is stuck with the last next hop |
| NCC strategy (`ncc-strategy.cpp`) | best and previous face and prediction per name, two timers per entry | triggers, `doPropagate`, `timeoutOnBestFace` | timers after entry, route or face have gone; overwritten timers that still run out | every next hop is tried in the end |
| Self-learning strategy (`self-learning-strategy.cpp`) | discovery marks on records, jobs on two threads' queues | triggers, `asyncProcessData`, `addRoute`, `renewRoute` | a search on another queue while the entry lives on; routes end meanwhile | routes follow the packets that bring them, however late they are changed; searches and entries end |
| Statistics (`CollectInfo`, `TraceInfo1`, the prefix maps, `forwarder-counters.hpp`) | maps per prefix, `isr`, `restime`, `rescount` | updates in the pipelines, a trace every interval | zero denominators, samples from records that are gone | the figures mean what their headings say |
| Scripts, ns-3, logs | - | - | - | not modelled |

**How they interact.** A face calls `startProcessInterest/Data/Nack`; the pipeline reads
and changes the tables and calls the strategy's trigger synchronously; the strategy calls
back `sendInterest` and its companions, which run the outgoing pipelines. The pipelines
arm one expiry timer per entry; marked Data arms an `onReductionPITEntry` 1000 ms ahead; the
strategies PCON, ASF, Access and NCC arm timers of their own. Removing a face raises a signal
(`beforeRemove`) that cleans the PIT and the FIB. All this runs on the ns-3 scheduler, which
runs one event at a time: nothing is concurrent inside a handler, and everything is
between handlers.

The hazards that follow are listed, each at its line, in `PROJECT.json`.

## 3. The modules

    Ndn  <-  PitEntry  <-  Strategies  <-  Forwarder  <-  ForwarderPromise  <-  MCForwarder
                                               ^                 |
                                               |                 +--- INSTANCE PendingInterests
                                               +---  Gateway  <---  MCGateway
                                                        ^
                                                        +---  ForwarderProofs  <---  PacketProofs

    PconStrategy  <-  MCPcon                Pipeline  <-  AccessStrategy  <-  MCAccess
         ^                                     ^      <-  NccStrategy     <-  MCNcc
         +----------  PconProofs               |      <-  SelfLearning    <-  MCSelfLearning
                                               |      <-  AsfStrategy     <-  MCAsf
                                               +----  PipelineProofs  <-  AccessProofs, NccProofs,
                                                                          SelfLearningProofs, AsfProofs

- **`Ndn`**: names, scopes, Interests (a PIT key, a Nonce, a lifetime, the hop count tag
  as seen, the next hop a local application chooses), Data (a name, a class of
  freshness, a congestion mark) and what is handed to a face.
- **`PitEntry`**: one entry with its records, the predicates of `algorithm.cpp`, the
  changes the pipelines make, and one tick of the clock.
- **`Strategies`**: for each trigger of a strategy, the set of its outcomes, an outcome
  being the entry after it and what it sent. Best route (both versions), multicast, random,
  the exponential suppression, the procedure for Nacks and `strategy.cpp`'s way of
  sending Data and Nacks.
- **`Forwarder`**: the node: tables, handlers, timers, and all properties.
- **`PendingInterests`**: what a forwarder promises the faces that send it Interests, in terms
  of who asks for what and for how long, and nothing else: no upstreams, strategies or
  limits. **`ForwarderPromise`**: `Forwarder` implements it, by a refinement mapping.
- **`Gateway`**: `Forwarder` with a record of the entries that had to meet the quota when they
  were made (`gated`), which nothing reads but the property `GateBound`.
- **`MCForwarder`**, **`MCGateway`** (which extends both `MCForwarder` and `Gateway`): the small instances.
  **`ForwarderProofs`**: the theorems about types, tables and
  records. **`PacketProofs`**: those about what is sent and who waits for it, and the refinement.
- **`Pipeline`**: the pipelines once more, without a clock, Nonces and the cache's contents, as a
  strategy that keeps timers and measurements of its own sees them. It has no
  specification of its own: **`AccessStrategy`**, **`NccStrategy`**, **`SelfLearning`** and
  **`AsfStrategy`** extend it, each with the strategy's state and with actions that are the
  pipeline's step and the strategy's trigger together. Their `MC` modules are the small instances.
  **`PipelineProofs`**: lemmas about what they share; **`AccessProofs`**, **`NccProofs`**,
  **`SelfLearningProofs`**, **`AsfProofs`**: the theorems about each.
- **`PconStrategy`**: the PCON strategy with its measurements, for the names under one
  prefix. Of the PIT it keeps what the strategy asks of it, the faces with an out-record per
  entry, so that it stands alone; the composition with `Forwarder` is in the plan.
  **`MCPcon`**: its small instances. **`PconProofs`**: its theorems.

### State of `Forwarder`

| Variable | Code |
|---|---|
| `pit[k]` | the entry of name, CanBePrefix and MustBeFresh `k`, or `NoEntry` |
| `.in[f]`, `.out[f]` | in- and out-record of face `f`, or `NoRecord` |
| `.left` | `getExpiry()` minus now, saturated at -1: `> now` is `> 0`, `>= now` is `>= 0` |
| `.age` | now minus `getLastRenewed()`, saturated at `MaxAge` |
| `.timer` | what the entry's expiry timer still has to run |
| `.satisfied`, `.short` | `isSatisfied`; `dataFreshnessPeriod` below the Dead Nonce List's lifetime |
| `.interval` (entry, out-record) | the suppression's `suppressionInterval` in the strategy info |
| `cs`, `dnl`, `up` | Content Store, Dead Nonce List, face table |
| `quota` | `pit_size` |
| `reductions[t]` | calls of `onReductionPITEntry` due in `t` ticks |
| `sent` | what the last step handed to the faces |

### Actions of `Forwarder`

One action is one run of one handler to its end, its calls included.

| Action | Code |
|---|---|
| `DropInterest` | `onIncomingInterest`, returning at the limit (190), the quota (196) or the `/localhost` check (323) |
| `LoopInterest` | ... into `onInterestLoop` |
| `HitInterest` | ... into `onContentStoreHit`, the strategy, `onOutgoingData` |
| `MissInterest` | ... into `onContentStoreMiss`: in-record, expiry timer, chosen next hop or `afterReceiveInterest`, `onOutgoingInterest` or a Nack |
| `StrayData` | `onIncomingData` for Data outside its scope, or unsolicited |
| `SatisfyOne` | ... with one matching entry: the strategy sends |
| `SatisfyMany` | ... with several: the pipeline collects the downstreams and sends |
| `ReceiveNack` | `onIncomingNack` with an accepted Nack, `afterReceiveNack`; a Nack that is not accepted changes nothing |
| `FinalizeInterest` | `onInterestFinalize`, from the expiry timer |
| `ReducePit` | `onReductionPITEntry` |
| `RemoveFace` | `FaceTable::remove` with `cleanupOnFaceRemoval` |
| `AgeContent`, `ForgetNonce` | the Content Store and the Dead Nonce List lose what they hold, at any time |
| `Tick` | time passes, when nothing is due at this instant |

Several events due at one instant run in any order, as their order in the scheduler
depends on when they were scheduled: an entry that is due (`timer = 0`) may still meet
packets before `FinalizeInterest`.

### State and actions of `PconStrategy`

| Variable | Code |
|---|---|
| `pit`, `out[k]` | the names with an entry; the faces with an out-record in it |
| `info[f]` | the `FaceInfo` of face `f` in the prefix's `NamespaceInfo`: pending Interests, share, congested flag, `m_isTimeoutScheduled`, `m_lastInterestName`; or `NoInfo` |
| `rto[f]` | the name `onTimeout` is bound to, while that event is to come |
| `calm[f]` | the last Interest name of the *copy* of the `FaceInfo` that `endOfCongestion` is bound to, while that event is to come |
| `lasting` | the faces whose `FaceInfo` has an expiration event |
| `global`, `faceNumber` | the prefix's entries in `global_PI_numbers` and `face_numbers`, which outlive the `NamespaceInfo` |
| `up` | faces that have not been removed; with them go their next hops |

| Action | Code |
|---|---|
| `ForwardInterest` | `afterReceiveInterest`, `getFaceForForwarding` returns a face, `forwardInterest` |
| `FindNoFace` | ... returns none: a Nack, the entry is rejected |
| `RejectInterest` | ... the prefix has no next hop |
| `SatisfyUnknown` | `beforeSatisfyInterest` without a `FaceInfo` for the face; in all three, the pipeline's deletion of the out-record |
| `SatisfyUnmarked`, `SatisfyMarked` | ... with one, and Data without and with a congestion mark |
| `OnTimeout`, `EndOfCongestion` | the scheduled events |
| `ExpireFaceInfo`, `ExpireNamespace` | the measurements of a face, or of the whole prefix, expire |
| `FinalizeInterest`, `RemoveFace` | what the pipelines do without telling the strategy |

- *Copies.* A copy of an `EventId` stands for the same event, and `FaceInfo`'s destructor
  cancels the three events it holds ids of (`pcon-measurements.cpp:38-45`). The local variable
  of `pcon-strategy.cpp:280` copies every `FaceInfo` of the prefix and dies at the end of the
  call: RTO, end-of-congestion and expiration events of the originals are cancelled, their
  flags are not. The temporaries of the `bind` at 363 do the same to one face. This is
  what `LookUp`, `ForwardInterest` and `SatisfyMarked` do to `rto`, `calm` and `lasting`.
- *Time.* No sample is ever given to the RTT estimator, so that the RTO is its initial
  second; congestion ends after 110 ms; measurements last 300 s from their last use. The model
  has no clock: RTO and end of congestion happen at any time after they were set, in any order,
  and measurements expire when neither is due. That is every order the code has, and more,
  so that what holds of the model holds of the code. The findings need no more than one such
  event after one packet, and each is possible with the code's delays.
- *Shares* are exact rationals, in units of `1 / Whole`; a step is taken only where its
  division is exact (`Exact`), which is a bound: rounding of `float` is left out.
- The exponential suppression only decides whether a retransmission is seen at all, and
  any may come late enough to be. The trace is left out, and the probes with a new Nonce, which no
  caller asks for.

### `PendingInterests` and the refinement

| Variable | Seen in `Forwarder` as |
|---|---|
| `left[k][f]` | what is left of the in-record of `f`; 0 when it has expired |
| `done` | the entries whose timer has run out (`timer = 0`) |
| `known` | the Data in the Content Store |
| `data`, `nacks` | of `sent`, the Data with its face, the Nacks with face and key |

`Ask`, `Refuse`, `Reject` and `Serve` are what may become of an Interest, `Deliver` and `Keep` of Data,
`Return` of a Nack, `Remove` is the end of an entry, `Leave` of a face, `Lose` of something in
the cache and `Pass` the clock's tick. What makes it a promise is what is missing: nothing
else takes a place in `left` away, `Deliver` names the one set of faces that get Data, which is
everyone waiting in any matching entry, and `Pass` lets no entry end that somebody waits for.

### `Pipeline` and the strategies over it

An in-record is `"live"`, `"ending"` (at the instant it expires: `getExpiry() == now`) or `"late"`
(expired, while the entry runs on), an out-record `"pending"`, `"nacked"` or `"late"`; `due` is an expiry
timer that is zero. Records expire at any time (`RecordLapses`), which is every order of
lifetimes; with the last unexpired in-record the entry is due, as the timer is that record's, unless a
face that was removed took a longer one away. That record is `"ending"`: Data of the same
instant is no longer sent to it (`> now`, `strategy.cpp:259`, `forwarder.cpp:698`), while
`canForwardToLegacy` still counts it (`>= now`, `algorithm.cpp:67`). Once another Interest of that
instant has renewed the entry the model takes it as expired for both. Due entries go before
time passes. Data matches one key or several, here or
elsewhere (`alone`).

| Module | State of the strategy | Actions of its own |
|---|---|---|
| `AccessStrategy` | `last` (`lastNexthop` of the prefix), `rto[k]` (the face and the next hop `afterRtoTimeout` is bound to) | `SendToLastNexthop`, `MulticastNew`, `Retransmit`, `RtoTimeout`, `HitInterest`, `ReceiveData`, `ForgetMeasurements` |
| `NccStrategy` | `mi` (best, previous face, prediction of the key's name and the one above), `propagate`, `late` (the two timers), `stray`, `strayLate` (events of either that were overwritten, not cancelled), `hops` (next hops, which change) | `DeclineInterest`, `ForwardInterest`, `RejectInterest`, `DoPropagate`, `TimeoutOnBestFace`, `ReceiveData`, `ChangeRoute`, `ForgetMeasurements` |
| `SelfLearning` | `plainIn`, `plainOut` (the non-discovery marks on records), `held` (the timer is extended for a search), `learned` (routes), `jobs`, `found` (the RIB thread's and the main thread's queue) | `BroadcastInterest`, `MulticastInterest`, `RefuseInterest`, five cases of Data, `ReceiveNack`; `FindAnnouncement`, `ChangeRoute` (the RIB thread), `SendAnnounced`, `HoldEnds`, `RouteEnds` |
| `AsfStrategy` | `info` (per face: kind of RTT, silent timeouts, the Interest its timer is for), `ns` (life and flags of the `NamespaceInfo`), `probes` (probing events by the ticks they have to run) | `ForwardNew`, `ForwardAndProbe`, `Suppress`, `ForwardUnused`, `RetryUsed`, `NoRoute`, `ReceiveData`, `ReceiveNack`, `RtoTimeout`, `ProbeDue`, `Tick`, `NamespaceExpires`, `FaceInfoExpires` |

- All keys of an instance are under one prefix and share its measurements; NCC keeps two
  levels, those the code updates.
- RTTs and the timers computed from them are not kept: an RTO, a prediction interval or a
  probability is any. Of a prediction NCC keeps the number, as its limits are what could fail;
  of an RTT ASF keeps whether it was measured, is missing, or is a timeout, with or without an
  RTT before, since that is what the rankings tell apart.
- ASF's probing interval and the life of its measurements count ticks, because
  the one chain of probes rests on the first being shorter (`asf-probing-module.cpp:39`).
- NCC's bounds: `MaxStray` overwritten events at a time, in the guards only. Self-learning's: `MaxJobs`
  in both queues. A search whose entry has gone stays in its queue, as the code's lambda with an
  expired `std::weak_ptr` does (`Orphan`). `Askers`, `RemovableFaces` and `Gains` say which faces ask, may go, and may become next hops.

### Choices and limits of the abstraction of `Forwarder`

- Time is counted in ticks and relative to now. Ages and lifetimes never exceed
  `MaxAge`, which is at least every suppression interval and every lifetime: no comparison
  in the code tells larger values apart. Where the code takes the earliest of several
  out-records, ties at tick resolution are open in the model (`Earliest`).
- A FIB entry that loses its last next hop with a face is erased in the code, and the lookup falls
  back on a shorter prefix; in the model the name is then without next hops (`NextHops`).
- Of an endpoint, the model keeps whether it is endpoint 0 (`SatisfyMany`'s second
  argument): the code compares the ingress with downstreams it collected with endpoint 0, and
  only on a multi-access face do others exist.
- Only a local face's Interest carries a `NextHopFaceIdTag` (faces strip it elsewhere);
  the chosen face may have been removed (`MissOutcomes`).
- Whether renewing an out-record forgets the Nack in it is decided in the PIT's source,
  which is not in the repository: `ResendClearsNack` is a constant and runs take
  both values.
- The Nack that ends without a reason (`lp::NackReason::NONE`), `PitToken`s, hop limits and
  forwarding hints are left out; so are the packet counters and, until the module `Accounting`
  of the plan, the per-prefix statistics, `isr`, `restime` and `rescount`, which no
  decision of this variant reads (`isr` is overwritten with 0.5 before its only use in
  forwarding, `forwarder.cpp:525-548`).
- Bounds that the code does not have: `MarksPerTick` (marked Data per tick),
  `RemovableFaces`, `NackReasons`, and the finite sets of names, Nonces and packets. A face
  that was removed does not come back; in the code it would return with another id.

## 4. Runs

| Run | Instance | Shows | Distinct states |
|---|---|---|---|
| `best_route` | one name, three links that are all downstreams and next hops, two Nonces, two lifetimes, Nacks with two reasons, both steps of the suppression interval | `TypeOK`, `InRecordNonceUnique`, `NoReflection`, `TimerCoversDownstreams`, `SomeoneWaits`, `FlowBalance`, `NackBalance`, `NoLoopForward`, `OutNonceRetired`, `RetransmissionPaced` | 200,087 |
| `matching` | `/dst1/s/1` (prefix, must be fresh; multicast) and `/dst1/s/1/1` (random), which one Data satisfies together, and `/localhost/1`, whose Data is marked, with the reduction due at once; a local, a multi-access and a removable face; `admit-local` | `NoDanglingFace`, `LocalhostDownstreams`, `KeepsPromise` (the refinement of `PendingInterests`), `FlowBalance`, `NackBalance`, `OutNonceRetired`, `ScopeKept` | 90,860 |
| `gateway` | Central PIT, under `GatewayLiveSpec`: two names that meet the quota and one that neither meets it nor counts, Interests at their first and at a later hop, limit 2, a local application that chooses next hops, an ad hoc face that is removed, marked Data, reductions a tick ahead | `PitBound`, `GateBound`, `Drained`, `Reduced` | 43,756 |
| `pcon` | two next hops, removed in a fixed order, two names, marks next to the congested link, shares in steps of 1/20000 with `CHANGE_PERC` 3/100 as in the code, counts up to 2, two faces ever counted | `TypeOK`, `TimerOwner`, `SharesNonNegative`, `SharesConserved`, `TotalKeepsUp`, `NackOnlyAfterDrift` | 520,696 |
| `access` | two names under one prefix, three faces, two that ask (one of them a next hop), a next hop that asks and may go | `TypeOK`, `RtoHasDownstream`, `EveryHopTried` | 520,678 |
| `ncc` | one name and the one above it, two next hops of which one comes and goes and may be removed, predictions between 4 and 5, one overwritten event at a time | `TypeOK`, `UpstreamsCounted`, `PropagationGoesOn` | 802,378 |
| `self_learning` | one name, a local and two remote faces, two jobs, under `LiveSpec` | `TypeOK`, `RoutesFollowPackets`, `Settled` | 314,587 |
| `asf` | one name, two next hops, two faces that ask (one a next hop), no silent timeouts (the default), probes after 0 or 1 tick, measurements that live 2, under `LiveSpec` | `TypeOK`, `ProbeChain`, `TriedAgain` | 181,099 |
| `response_time`, `nack_waits`, `pcon_congestion`, `self_learning_nack` | variants of the above; the last with two names and one remote consumer | each refutes one statement of a comment or an assertion, see section 6 | - |

**Why these bounds are enough to be telling.** Every record question in the code compares a
record with *another* face's record or with the Interest that comes: three faces give a
downstream, an upstream and a bystander that may be both, two Nonces the equal and the
different one. Lifetimes 1 and 2 with `MaxAge` 2 give records that expire before,
with and after their entry, and the suppression interval reaches its maximum.
`matching` is the smallest set of names where Data satisfies one and several entries; its `CONSTRAINT`
`AtMostTwoPending` keeps a third entry, which no step compares with the two, from multiplying the states;
`gateway` reaches its limit with names the quota counts and names it does not, and two
reductions wait at different distances. In `pcon` a share is divided up to two marks
deep, `MaxShare` lets congestion end once in favour of the best face, and counts reach -2, so that
the total passes through zero in both directions; two names are what it takes for an RTO
event to be another Interest's; the removed next hop leaves a prefix with one, and the `CONSTRAINT`
`HopsGoInOrder` lets the other go after it: without next hops, states that have measurements are checked but
not continued. In the runs
over `Pipeline` a next hop is also a downstream, so that "all but the ingress" leaves
different next hops to different Interests of one entry; in `access` two names are two timers
on one `lastNexthop`; in `ncc` one stray event is enough to find the entry with another
propagation running, answered, or under another downstream's name, and predictions reach both of
their limits; in `self_learning` two jobs are a search overtaken by a route, and two searches
for one entry; in `asf` every timeout is recorded, as `n-silent-timeouts` is 0 unless
set (`asf-strategy.hpp:95`; `Silence` has the other case), and the namespace expires with a probe on its way. Every action fires in the passing runs. Each
property is known to fail under a plausible change of a definition it depends on; the
changed definitions stand in the modules, commented "Mutant", and are used by nothing else.

`SYMMETRY NonceSymmetry` is sound because Nonces are only compared for equality, and is
used with safety properties only. `VIEW ForgetSent` leaves `sent` out of the
fingerprint: no action reads it, and the properties that do are about `sent'`, which TLC
evaluates on every transition it generates, before it compares fingerprints. The
runs with liveness properties (`gateway`, `self_learning`, `asf`) use neither. `KeySymmetry` in `access` is
sound because no action tells one name from another.

**Deadlock** is checked in every run of `Forwarder`: a node is never stuck, since time may
pass whenever nothing is due. The other runs say `CHECK_DEADLOCK FALSE`: where there
is no clock, a prefix whose counts, jobs or stray events have reached their bound, or whose
faces are gone, may have nothing left to do.

### Properties

- *Flow balance* (`FlowBalance`): Data leaves a face only for an Interest of that face
  that was pending and unexpired, which the step consumes, or as the Content Store's answer
  to the Interest that has come.
- *Nack balance* (`NackBalance`): a Nack leaves only by a point-to-point face, with the
  Nonce that face waited with, and the face waits no longer.
- *Loops* (`NoLoopForward`, `NoReflection`, `InRecordNonceUnique`): an
  Interest leaves on behalf of a downstream that waits with its Nonce, and never with a
  Nonce that the Dead Nonce List or an out-record of its entry holds at that moment, unless a
  point-to-point downstream repeats it.
- *What becomes of Nonces* (`OutNonceRetired`): a Nonce sent upstream leaves the PIT with its
  face; with an Interest to that face that overwrites it; or with its record, and then it is dead by the
  end of the step, or was answered with Data that caches can keep answering. Neither property
  says that a Nonce is never forwarded twice, and it may be: one that a renewal has overwritten
  (`forwarder.cpp:485`) goes to no list, and the Dead Nonce List forgets (`ForgetNonce`).
- *Timers* (`TimerCoversDownstreams`, `SomeoneWaits`): an entry with time left outlives
  its downstreams' Interests and, if no face is removed, has a downstream unless it is
  satisfied.
- *Steered Interests.* A local application that chooses the next hop (`NextHopFaceIdTag`) is above
  scope, suppression and strategies (`forwarder.cpp:417-427`). `NoReflection`, `SomeoneWaits`,
  `RetransmissionPaced` and, for Interests, `ScopeKept` therefore have the hypothesis `NoneSteered`;
  `best_route` and `matching`, which check them, have no steered Interests, and `gateway` has them
  without these properties.
- *Scope* (`LocalhostDownstreams`, `ScopeKept`), *faces* (`NoDanglingFace`), *suppression*
  (`RetransmissionPaced`), *limits* (`PitBound`,
  `GateBound`): entries that had to meet the quota fill at most half of the PIT, whatever quotas were
  in force when they were made. Entries of Interests past their first hop and of names under `/dst1/`
  need not meet it and may fill all of the PIT; those named one component below `/dst1`
  are let in without it and are counted all the same.
- *The promise* (`KeepsPromise`): the forwarder implements `PendingInterests`. A downstream
  loses its place only to Data, a Nack, time, the end of its face or of an entry that is done
  with; Data reaches everyone who waits, over all matching entries, and nobody else.
- *PCON's timers* (`TimerOwner`): an RTO event belongs to the Interest its face is flagged
  for, through all the cancellations by copies.
- *PCON's shares* (`SharesNonNegative`, `SharesConserved`): marks move shares between faces and never
  overdraw one; the sum changes only where congestion ends, a `FaceInfo` is lost,
  `face_numbers` has lost count, or the first next hop gets everything.
- *PCON's counts* (`TotalKeepsUp`, `NackOnlyAfterDrift`): the total leaks one way only, and an Interest
  with next hops is answered with a Nack only once counts or shares have drifted.
- *Liveness* (`Drained`, `Reduced`): when no more Interests are taken up, the PIT
  empties, and every scheduled reduction falls due and is carried out.
- *Access* (`RtoHasDownstream`, `EveryHopTried`): what `afterRtoTimeout` asserts holds whenever it may
  run; an Interest that nothing answers has been sent to every next hop open to one of its
  downstreams, or the timer that will do so is running.
- *NCC* (`UpstreamsCounted`, `PropagationGoesOn`): the count of other upstreams, an unsigned
  number, is never taken below zero; propagation goes on until every next hop has the
  Interest, whatever timers were overwritten on the way.
- *Self-learning* (`RoutesFollowPackets`, `Settled`): with the jobs that wait for the RIB thread, routes
  come and go in the order of the packets that bring them, and with nothing else; searches,
  routes to be changed and entries come to an end.
- *ASF* (`ProbeChain`, `TriedAgain`): exactly one probing event per namespace, or a probe that is due;
  every next hop is sent an Interest again and again, if new ones keep coming.

## 5. Fairness

`LiveSpec`, and `GatewayLiveSpec` like it, adds weak fairness of `FinalizeInterest(k)` for each key,
of `ReducePit` and of `Tick`: a scheduled event is run at its time, and simulated time goes on. This is what
the ns-3 scheduler does with a non-empty event queue. Nothing is assumed of packets: no
Interest, Data or Nack need arrive, and none is kept from arriving, at any instant,
before an expiry timer that is due. Weak fairness is enough, as nothing but the event
itself takes `timer = 0` back, except a new Interest for the same key, which restarts
the timer; therefore both properties assume `Quiet`: from some time on no Interest
is taken up. The removal of a face, Data and Nacks continue to interfere.

`SelfLearning!LiveSpec` has weak fairness of what either thread does with the head of its queue
(`FindAnnouncement`, `ChangeRoute`, `SendAnnounced`: an `io_service` runs what is posted), of the
entry's timer (`HoldEnds`, `FinalizeInterest`) and of the expiry of in-records. `HoldEnds` fires
only when no search for the entry is under way: a search is taken to last less than the second the
code gives it. `Settled`, too, assumes `Quiet`; Data, Nacks, the end of routes and the removal of a
face continue.

`AsfStrategy!LiveSpec` has weak fairness of `ProbeDue` and `Tick`: the scheduler runs its events and
time goes on. That new Interests keep coming from a face that is no next hop, and often enough for
the measurements to live on, is the premise of `TriedAgain`, not fairness: nothing obliges a
consumer. No fairness is assumed of RTO timers, answers or the choice among the ranked
faces: the property holds with two next hops because a face that is not in use is then the one to
probe; with three or more, it would rest on the random numbers of `chooseFace` as well.

`PconStrategy`, `AccessStrategy` and `NccStrategy` state safety only and assume no fairness.

## 6. Where the code and its comments disagree

1. **Response time of an entry without a downstream** (`ResponseTimeDefined`,
   `forwarder.cpp:655`, a bug). With one matching entry, `onIncomingData` takes the maximum
   over the in-records and reads through the iterator (656-657) unconditionally. An
   entry whose only downstream was removed with its face (85-87) and that still runs has
   none: the end iterator is dereferenced. The models go on as if the
   read had no other effect, since what it yields goes to the statistics only.
2. **A Nack that the strategy answers by waiting ends the wait** (`NackWaits`,
   `process-nack-traits.hpp:43` against `forwarder.cpp:822`). `onIncomingNack` asks
   `hasPendingOutRecords`, which does not count expired out-records (`algorithm.cpp:113`);
   `processNack` counts every out-record that has no Nack. With one upstream expired and
   silent and another answering with a Nack, the strategy "waits" and the entry is removed
   at the same instant, without a Nack to anyone.
3. **Congestion never ends** (`CongestionEnds`, `pcon-strategy.cpp:363`, a bug).
   `endOfCongestion` is bound to the `FaceInfo` by value: the flag it clears (376-377) and the
   share it takes back (401-402) are the copy's. In the table the flag stays, and the best
   face's share grows by what no other face gives: the sum exceeds 1.
4. **A NO_ROUTE Nack without a route** (`RouteWhenNacked`, `self-learning-strategy.cpp:139`, a bug). The
   strategy asserts that there is a route when a Nack says that there is none upstream. Between
   the Interest and its Nack the route may end (45) or be withdrawn (142) for the Nack of
   another Interest under the same prefix: two Interests in flight to an upstream that has lost
   its route are enough.

Other places, which the models follow and no run is kept for, since a run would repeat one line:

- *What the quota counts* (`forwarder.cpp:538`). Comments and log (527, 546) speak of entries under
  `/dst1`; the condition `compare(...) != 0` counts the others.
- *A flag without a timeout* (`pcon-strategy.cpp:280`). The destructor of the local copy of the
  `NamespaceInfo` cancels the RTO events of the prefix and leaves `m_isTimeoutScheduled` set: from the
  second Interest on, no timeout is scheduled (256) for a face until Data for the flagged
  Interest comes.
- *A mark without a tag* (`pcon-strategy.cpp:149`). The hop count is read uninitialised when marked Data
  has no `HopCountCongestionTag`. A negative one makes the share of the congested face grow, and -1
  makes `calculateReduction` divide by zero (177, 370): the shares are infinite or no number from then
  on. `HopCounts` admits any integers; the theorems about PCON name the condition they need
  (`NoZeroDivisor`, no negative count), and in the run every mark carries its count.
- *NCC's check of the best face* (`ncc-strategy.cpp:238`) always succeeds: `updateBestFace` has just
  made the ingress face the best (229), so that the timeout on the best face is cancelled by any
  upstream's Data. Where the name above is out of the strategy's namespace, the function
  returns before it (222-225), and neither timer is cancelled.
- *NCC's timers* are plain `EventId`s: assigning one (94, 131) leaves the event it referred to scheduled.
- *Self-learning's extension of the entry* (183-186: "to ensure that the entry will not be removed
  before the whole processing is finished") is undone by the next Data from the same face, which
  the pipeline answers by setting the timer to zero, by a Nack from the last pending upstream, or by
  another Interest for the entry, which sets the timer to its in-records' expiry or, refused for
  want of a route, to zero. And if no announcement is found (191), the Data is never sent on.
- *Self-learning's announcements* (`self-learning-strategy.hpp:124-127`). Data that satisfies several
  entries does not reach the strategy: the pipeline sends it (`forwarder.cpp:690-734`,
  `ReceiveSharedData`), to a remote downstream that asked for discovery too, without the announcement
  that the comment requires when the Interest sent upstream was non-discovery.
- *A Nonce that is lost* (`forwarder.cpp:485`). The renewal of an out-record overwrites its Nonce, which then
  is neither in the PIT nor in the Dead Nonce List: a copy of the earlier Interest that comes
  back over another face is no loop to the node.
- *ASF*: `m_nSilentTimeouts` is never set back by an answer, so that after the first few timeouts each
  is recorded at once. Data that arrives after its entry is gone (a slower, probed face) cancels
  no timer and counts as a timeout. Two faces that timed out before any RTT compare as equal in
  `FaceInfoCompare`, and the set keeps the first: the other is not probed until its measurements
  expire. A FIB entry above the strategy's namespace loses its first probe for good, as
  `getNamespaceInfo` finds nothing under the entry's prefix (`asf-probing-module.cpp:55`).

PCON's code has more such places, which the model follows and no run is kept for. A timeout lowers a
face's count although the out-record stays, so that late Data lowers it again: one Interest
brings it to -1 (`pcon-measurements.cpp:128`). `face_numbers` is never lowered: a prefix with one
next hop has "multiple path to data" (`pcon-strategy.cpp:172, 386`) once its measurements
have expired, and a mark then takes share for nobody. When congestion ends and the next hops have
gone, or the face never had an Interest, an end iterator or a null pointer is read (379-389). An
Interest may be sent back to the face it came from (274).

Besides, the constructor sets `pit_size` to 0 (`forwarder.cpp:95`) over the 999999 of
`forwarder.hpp:318`: a Central PIT gateway admits no consumer's Interest outside `/dst1/`
until a reduction has counted at least two entries. No comment says otherwise, so no
property does.

## 7. What is proved

`ForwarderProofs` proves the following for every value of the constants: any faces, names,
routes, strategies, limits and packets. Its only assumptions are those the modules declare:
`FaceAssumption` (kinds of faces), `PacketAssumption` (shape of packets), `TimeAssumption`
(`MaxAge` bounds lifetimes and intervals), `RouteAssumption` (routes are sequences of
faces, every key has a strategy), `LimitAssumption` (the limits are natural numbers, the set
of keys is finite), two on the marker values `NoRecord` (neither a record nor a time) and `NoEntry`,
and that `ResendClearsNack` is a truth value. TLC evaluates all of them in every run.

| Theorem | Property | Argument |
|---|---|---|
| `TypeCorrect` | `TypeOK` | One typing lemma per operator of `PitEntry` and `Strategies`, one step per action. `Countdown` and `Older` are where it could fail: it is the saturation that keeps times in range. |
| `PitBounded` | `PitBound` | Not inductive alone, as `Cardinality` says nothing without finiteness: with `TypeOK` the set of pending keys is finite; `PitGrowth` shows every step adds at most one key, and one only where `PitFull` was false. |
| `GateBounded` | `GateBound` | Of `Gateway`, each step of which is one of `Forwarder`. The quota in force is at most half the limit (`QuotaStaysHalf`, from `PitBound`), but may be lower than what was let in before; what keeps the bound is that an entry is let in only if all that count, and with them all that met a quota (`UnderParent`), are fewer than the quota of now. |
| `NonceUnique` | `InRecordNonceUnique` | Only `WithInRecord` adds a Nonce; the guard `~IsLoop` excludes a second holder except where the same face repeats its own. |
| `LocalhostKept` | `LocalhostDownstreams` | Only `MissInterest` adds a downstream, behind the scope check. |
| `TimerCovers` | `TimerCoversDownstreams` | The timer and the records age together; `LastExpiry` is an upper bound; elsewhere the timer is 0 or untouched. The ageing step is sound only because a tick requires every timer to be positive. |
| `NoRecordDangles` | `NoDanglingFace` | Every strategy sends to next hops in `up` only; `RemoveFace` removes both kinds of records. |
| `FlowBalanced` | `FlowBalance` | Per action that sends Data, the entry that pays is exhibited: the one match, or, with several, the one the downstream was collected from. |
| `NoLoopForwarded` | `NoLoopForward` | Only `MissInterest` and its strategy's trigger send Interests, on behalf of the in-record just written; `~IsLoop` yields both halves, for the Nonces that list and records hold then. |

The invariants about records rest on one lemma, `EntryStep`: a step leaves an entry gone, kept
(records only go or, by the strategy, upstreams in the face table come; the timer stays or
becomes 0), a tick older, asked (an in-record is written, the timer set, and then as
before) or answered by the Content Store (due, without other downstreams). With it, each is
proved over five cases rather than over every outcome of every strategy.

`PacketProofs` proves, from the same assumptions, what holds of the packets, and the refinement:

| Theorem | Property | Argument |
|---|---|---|
| `NothingReflected` | `NoReflection` | Inductive with `TypeOK` and `InRecordNonceUnique`: an Interest is sent to eligible next hops, which its own ingress is not; the in-record of any other downstream has another Nonce, because a duplicate would have been a loop. |
| `SomebodyWaits` | `SomeoneWaits` | Not inductive. What keeps an entry from running for nobody is that whoever may still answer was asked for somebody: `AllSponsored` says that every upstream without a Nack is still a next hop, and open to a downstream that is still there. `processNack` returns a Nack to a single downstream only if that face is itself the last upstream without a Nack; as a point-to-point face is not open to itself, the downstream it was asked for is another, and remains. The first best route leaves Nacks alone, and is not covered by `AllSponsored`. |
| `NacksBalanced` | `NackBalance` | Per action that sends Nacks, the record that is erased. |
| `ScopeHolds` | `ScopeKept` | With `LocalhostDownstreams`: Nacks go to downstreams, Data past `onOutgoingData`'s check, Interests past `wouldViolateScope`. |
| `RetransmissionsPaced` | `RetransmissionPaced` | `Paced` (an entry's interval never falls below the initial one) and the suppression's own test. |
| `NoncesRetired` | `OutNonceRetired` | An out-record goes only with Data, the end of its entry or its face; the first two run `insertDeadNonceList` first, for the record or for all. A strategy that writes a record over another has also sent the Interest (`UpstreamsKept`). |
| `PromiseKept` | `KeepsPromise` | The refinement: `InitImplements` and `StepImplements`. `AskMapped` to `KeepMapped` say what a step of `PendingInterests` is in terms of `pit`, `cs` and `sent`; `LoopImplements` to `TickImplements` show, action by action, that a step of `Forwarder` is one of these or a stutter. The tick needs `TimerCoversDownstreams`: the promise lets no time end an entry that somebody waits in. |

`PconProofs` rests on `ShareAssumption` (`CHANGE_PERC` is a fraction from 0 to 1; hop counts are integers),
`NameAssumption` (next hops are a sequence of faces, of which there are finitely many; markers are no
names) and `InfoAssumption` (`NoInfo` is no `FaceInfo`), for any number of next hops and any order of
events. `PconTyped` and `TimerOwned` have the hypothesis `NoZeroDivisor`: no marked Data has a hop count of
-1, which a tag's conversion to `int` and the uninitialised `int` of `pcon-strategy.cpp:149` do allow and
which the code does not catch. `SharesNonNegative` says of itself that hop counts are not negative.

| Theorem | Property | Argument |
|---|---|---|
| `PconTyped` | `TypeOK` | Where it could fail is the arithmetic of shares: `LossType` needs `faceNumber # 1`, which the code asks, and a distance other than 0, which it does not: hence the hypothesis. |
| `TimerOwned` | `TimerOwner` | Face by face, over every action: only `ForwardInterest` sets an event, together with flag and name; `KeepsFlag` shows that Data for another name leaves the three as they are. |
| `SharesKept` | `SharesNonNegative` | Not inductive alone: the others' gain is divided by `face_numbers - 1`, which must be positive. `PconInv` adds `Counted` (as long as there is a `FaceInfo`, `face_numbers` is at least 1) and `TimerOwner`, without which `onTimeout` would create a `FaceInfo` that is counted under another name (332-335). `PartOfShare` is the arithmetic: the part a mark takes lies between nothing and the whole share. |

The proofs about the strategies over `Pipeline` rest on `PipelineAssumption` (the kinds of faces are sets
of faces), on the markers being none of the values they stand beside, and on what each module assumes of
its own constants: next hops are faces (`HopAssumption`, `OrderAssumption`, `AsfAssumption`,
`SelfLearningAssumption`), NCC's predictions have a least, an initial and a largest value
(`PredictionAssumption`), ASF's probing interval is shorter than the life of its measurements and no
shorter than the first delay (`AsfAssumption`; `asf-probing-module.cpp:39`). The lemmas they share, what
the operators of `Pipeline` do to an entry and to the PIT, are in `PipelineProofs`.

| Theorem | Property | Argument |
|---|---|---|
| `AccessTyped` | `TypeOK` | One typing lemma per operator of `Pipeline` that changes an entry, one step per action. |
| `TimerHasDownstream` | `RtoHasDownstream` | Inductive with `TypeOK`. Wherever an in-record is erased, the timer of its entry is cancelled (Data, the end of an entry) or the record belongs to a face that goes; `KeepsTimers` covers the steps that only add to an entry or let a record expire: one that expires stays in the entry. |
| `NoHopForgotten` | `EveryHopTried` | `AllTried` is stronger in two ways: it holds of entries that are due, which a new Interest may renew, and it adds that the next hop a timer will leave out has an out-record already. |
| `NccTyped` | `TypeOK` | `PredictionType`: lowering and raising a prediction are clamped. |
| `SpareCounted` | `UpstreamsCounted` | By counting: the set of next hops that is taken away from is a subset of what it is taken from (`SpareNotNegative`). |
| `PropagationKeptUp` | `PropagationGoesOn` | `AllKept`: an entry without an answer has a timer, or an overwritten event that will still run, each for a face that is still a downstream; or what the last round could not send to is barred (`Spread`). Without the overwritten events it is false: assigning an `EventId` loses one (131). `RoutesKnown` bounds the FIB entry. |
| `SelfLearningTyped` | `TypeOK` | Not inductive alone: what a search finds would write the records of an entry that has gone. `SearchesLive` adds that an entry that is searched for, or whose timer is extended, is there. Queues are sequences with three lemmas: what is put in, taken out, and left of one when an entry ends. |
| `RoutesFollowed` | `RoutesFollowPackets` | With `TypeOK` (learned routes are of faces that are there). What the RIB thread does with the head of its queue leaves `SoonLearned` as it is, since a face's last job decides; only what is put at the end of the queue, `RouteEnds` and `RemoveFace` change it. |
| `AsfTyped` | `TypeOK` | One step per action. |
| `OneChainOfProbes` | `ProbeChain` | `ChainLives` gives the reason why the namespace cannot expire with a probe scheduled: the probe's ticks to run are fewer than those the measurements have to live, both count down together, and every use that may schedule a probe renews the measurements. |

**Only model-checked**:

- `Drained`, `Reduced`, `Settled` and `TriedAgain`: liveness under fairness, and `ENABLED`, are out of the
  prover's reach.
- `SharesConserved`, `TotalKeepsUp` and `NackOnlyAfterDrift` of PCON: sums over a set of faces, folds in
  the model. That a sum changes by what one summand changes by is an induction over data.
- The four properties that the code refutes (section 6).

No module uses `RECURSIVE` operators.

## 8. Plan, and what is not modelled

Done: sections 3 to 7. What is left, in this order:

1. **Theorems**: every safety property the passing runs check is proved but for PCON's three sums. For two
   next hops, the case of the repository's scripts, these might be stated without a fold.
2. **`PconStrategy` with `Forwarder`**: the out-records come from the pipelines, the ingress face is known
   (an Interest sent back to its downstream, 274), marked Data both moves shares and reduces the
   quota; two prefixes, one above the other.
3. **`Accounting`**: the prefix maps, `restime`, `rescount` and `isr` next to `Forwarder`.
4. **`FaceTable`**: adding faces, reserved ids, reuse of ids.
5. **`Network`**: two or three `Forwarder`s joined by links that lose and delay packets;
   loops across nodes, and two nodes each waiting for the other's Nack.

Not modelled:

- *ns-3* and the scripts in `src/ns-3/scratch/`: vendored code, generated Python bindings
  (`src/ns-3/src/*/bindings/modulegen__*.py`, nearly all of the repository's Python) and straight-line
  configuration. The program's own logic is the C++ in `src/Central PIT/fw/`, and that is what the map
  covers; a count of lines over the Python files says nothing of it.
- *Statistics* and the *7th May forwarder*: no forwarding decision reads the former; the latter is
  an older draft of a file that is modelled.
- *The RIB manager*, the PIT, FIB, Content Store and ndn-cxx: not in the repository, external.
- Of the strategies: RTTs as numbers, parsing of parameters, registration; ASF under a FIB entry
  above its namespace.

## 9. Running it

    tlc -workers 2 -config best_route.cfg MCForwarder    # likewise matching, response_time, nack_waits
    tlc -workers 2 -config gateway.cfg MCGateway
    tlc -workers 2 -config pcon.cfg MCPcon               # likewise pcon_congestion
    tlc -workers 2 -config access.cfg MCAccess
    tlc -workers 2 -config ncc.cfg MCNcc
    tlc -workers 2 -config self_learning.cfg MCSelfLearning   # likewise self_learning_nack
    tlc -workers 2 -config asf.cfg MCAsf
    tlapm ForwarderProofs.tla                            # likewise the other modules of proofs
