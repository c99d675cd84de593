---------------------------- MODULE SelfLearning ----------------------------
(***************************************************************************)
(* The self-learning strategy (fw/self-learning-strategy.cpp): an Interest *)
(* for which there is no route is broadcast for discovery, and the prefix  *)
(* announcement that Data brings back becomes a route.                     *)
(*                                                                         *)
(* Routes are the RIB's, which is on another thread: what the strategy asks*)
(* of it is queued there, and what a search finds is queued here.  All keys*)
(* are under one prefix with one FIB entry.                                *)
(***************************************************************************)
EXTENDS Pipeline, Naturals, Sequences

CONSTANTS
    Local,     \* the faces of local scope
    Static,    \* the next hops whose route came without a prefix announcement
    MaxJobs    \* bound: jobs in both queues together

VARIABLES
    plainIn,    \* plainIn[k]: the in-records of non-discovery Interests
    plainOut,   \* plainOut[k]: the out-records of non-discovery Interests
    held,       \* held[k]: the expiry timer is set to 1 s, for a search
    learned,    \* the next hops whose route came with an announcement
    jobs,       \* the RIB thread's queue
    found       \* the main thread's queue of Data with an announcement

vars == <<pit, up, plainIn, plainOut, held, learned, jobs, found>>

ASSUME SelfLearningAssumption ==
    /\ Local \subseteq Faces
    /\ Static \subseteq Faces
    /\ MaxJobs \in Nat

\* A search whose std::weak_ptr to the entry has expired.
Orphan == [op |-> "orphan"]

Search == [op : {"find"}, key : Keys, face : Faces] \cup {Orphan}
Job == Search \cup [op : {"announce", "withdraw"}, face : Faces]

\* The information on a record goes with the record.
TypeOK ==
    /\ PipelineType
    /\ plainIn \in [Keys -> SUBSET Faces]
    /\ plainOut \in [Keys -> SUBSET Faces]
    /\ \A k \in Keys : /\ plainIn[k] \subseteq Downstreams(EntryOf(k))
                        /\ plainOut[k] \subseteq Upstreams(EntryOf(k))
    /\ held \in [Keys -> BOOLEAN]
    /\ learned \subseteq up
    /\ jobs \in Seq(Job)
    /\ found \in Seq(Search)
    /\ Len(jobs) + Len(found) <= MaxJobs

Init ==
    /\ PipelineInit
    /\ plainIn = [k \in Keys |-> {}]
    /\ plainOut = [k \in Keys |-> {}]
    /\ held = [k \in Keys |-> FALSE]
    /\ learned = {}
    /\ jobs = <<>>
    /\ found = <<>>

NextHops == (Static \cup learned) \cap up

\* A job for the RIB thread.
Queue(job) ==
    /\ Len(jobs) + Len(found) < MaxJobs
    /\ jobs' = Append(jobs, job)

\* A job for an entry is still in the queue.
InQueue(queue, k) == \E n \in DOMAIN queue : queue[n].op = "find" /\ queue[n].key = k

\* A queue after the end of an entry, whose jobs will not find it.
Orphaned(queue, k) ==
    [n \in DOMAIN queue |->
        IF queue[n].op = "find" /\ queue[n].key = k THEN Orphan ELSE queue[n]]

\* The records that are left in an entry keep their information.
KeepInfo(k, e) ==
    /\ plainIn' = [plainIn EXCEPT ![k] = @ \cap Downstreams(e)]
    /\ plainOut' = [plainOut EXCEPT ![k] = @ \cap Upstreams(e)]

(***************************************************************************)
(* afterReceiveInterest.                                                   *)
(***************************************************************************)
\* The faces of a set that an Interest from f may leave by.
Open(f, faces) == {g \in faces : (g # f \/ g \in AdHoc) /\ <<f, g>> \notin Barred}

\* The Interest is sent on, marked as non-discovery or not.
Forwarded(f, k, plain, targets, plainOn) ==
    /\ f \in up \cap Askers
    /\ pit' = [pit EXCEPT ![k] = SentTo(Asked(k, f), targets)]
    /\ plainIn' = [plainIn EXCEPT ![k] = IF plain THEN @ \cup {f} ELSE @ \ {f}]
    /\ plainOut' = [plainOut EXCEPT ![k] = IF plainOn THEN @ \cup targets ELSE @ \ targets]
    /\ held' = [held EXCEPT ![k] = FALSE]
    /\ UNCHANGED <<up, learned, jobs, found>>

\* A discovery Interest that no route matches is broadcast.
BroadcastInterest(f, k) ==
    /\ NextHops = {}
    /\ Forwarded(f, k, FALSE, Open(f, up \ Local), FALSE)

\* Along routes every Interest goes as a non-discovery Interest.
MulticastInterest(f, k, plain) ==
    /\ NextHops # {}
    /\ Forwarded(f, k, plain, Open(f, NextHops), TRUE)

\* A non-discovery Interest that no route matches is answered with a Nack; only
\* a point-to-point face takes it.
RefuseInterest(f, k) ==
    /\ f \in up \cap Askers
    /\ NextHops = {}
    /\ LET asked == Rejected(Asked(k, f))
           e == IF f \in P2P THEN WithoutIn(asked, {f}) ELSE asked
       IN  /\ pit' = [pit EXCEPT ![k] = e]
           /\ plainIn' = [plainIn EXCEPT ![k] = (@ \cup {f}) \cap Downstreams(e)]
    /\ held' = [held EXCEPT ![k] = FALSE]
    /\ UNCHANGED <<up, plainOut, learned, jobs, found>>

HitInterest(f, k) ==
    /\ InterestHits(f, k)
    /\ held' = [held EXCEPT ![k] = FALSE]
    /\ UNCHANGED <<plainIn, plainOut, learned, jobs, found>>

(***************************************************************************)
(* afterReceiveData and afterReceiveNack.                                  *)
(***************************************************************************)
NeedPrefixAnn(k) ==
    /\ \E f \in Waiting(pit[k]) : f \notin plainIn[k]
    /\ \E f \in Waiting(pit[k]) : f \notin Local

\* What both ways of taking Data leave of an entry.
Satisfied(f, k, e, isHeld) ==
    /\ f \in up
    /\ k \in Pending
    /\ pit' = [pit EXCEPT ![k] = e]
    /\ KeepInfo(k, e)
    /\ held' = [held EXCEPT ![k] = isHeld]
    /\ UNCHANGED <<up, learned, found>>

\* Data from a face without an out-record is not sent to anyone, but the pipeline has
\* set the timer to zero.
ReceiveUnaskedData(f, k) ==
    /\ f \notin Upstreams(EntryOf(k))
    /\ Satisfied(f, k, AnsweredTo(EntryOf(k), f, {}), FALSE)
    /\ UNCHANGED jobs

\* The answer to a non-discovery Interest, for which no announcement is needed.
ReceivePlainData(f, k) ==
    /\ f \in plainOut[k]
    /\ ~NeedPrefixAnn(k)
    /\ Satisfied(f, k, AnsweredTo(pit[k], f, DataTargets(pit[k], f)), FALSE)
    /\ UNCHANGED jobs

\* asyncProcessData: an announcement is needed, and is searched for.
SearchAnnouncement(f, k) ==
    /\ f \in plainOut[k]
    /\ NeedPrefixAnn(k)
    /\ Satisfied(f, k, [AnsweredTo(pit[k], f, {}) EXCEPT !.due = FALSE], TRUE)
    /\ Queue([op |-> "find", key |-> k, face |-> f])

\* The answer to a discovery Interest, which may bring an announcement.
ReceiveDiscoveryData(f, k, announced) ==
    /\ f \in Upstreams(EntryOf(k)) \ plainOut[k]
    /\ Satisfied(f, k, AnsweredTo(pit[k], f, DataTargets(pit[k], f)), FALSE)
    /\ IF announced THEN Queue([op |-> "announce", face |-> f]) ELSE UNCHANGED jobs

\* Where Data matches more entries than one, the strategy is not asked.
ReceiveSharedData(f, k) ==
    /\ Satisfied(f, k, Answered(EntryOf(k), f, FALSE), FALSE)
    /\ UNCHANGED jobs

\* A Nack for another reason than the want of a route is not looked at.
ReceiveNack(f, k, noRoute) ==
    /\ NackArrives(f, k)
    /\ LET nacked == Nacked(pit[k], f)
           e == IF noRoute THEN WithoutIn(nacked, P2P) ELSE nacked
       IN  /\ pit' = [pit EXCEPT ![k] = e]
           /\ KeepInfo(k, e)
           /\ held' = [held EXCEPT ![k] = @ /\ HasPendingOutRecords(e)]
    /\ IF noRoute THEN Queue([op |-> "withdraw", face |-> f]) ELSE UNCHANGED jobs
    /\ UNCHANGED <<up, learned, found>>

(***************************************************************************)
(* The two queues.                                                         *)
(***************************************************************************)
\* slFindAnn, which finds an announcement or not.
FindAnnouncement ==
    /\ jobs # <<>>
    /\ Head(jobs).op \in {"find", "orphan"}
    /\ jobs' = Tail(jobs)
    /\ found' \in {found, Append(found, Head(jobs))}
    /\ UNCHANGED <<pit, up, plainIn, plainOut, held, learned>>

\* Mutant: the face may have gone meanwhile.
ChangeRouteOfAnyFace ==
    /\ jobs # <<>>
    /\ Head(jobs).op \in {"announce", "withdraw"}
    /\ jobs' = Tail(jobs)
    /\ learned' = IF Head(jobs).op = "announce"
                  THEN learned \cup {Head(jobs).face}
                  ELSE learned \ {Head(jobs).face}
    /\ UNCHANGED <<pit, up, plainIn, plainOut, held, found>>

\* Mutant: as in asyncProcessData, the entry must still be there.
ChangeRouteForPending ==
    /\ jobs # <<>>
    /\ Head(jobs).op \in {"announce", "withdraw"}
    /\ jobs' = Tail(jobs)
    /\ learned' = IF Head(jobs).op = "withdraw" THEN learned \ {Head(jobs).face}
                  ELSE IF Pending = {} THEN learned
                  ELSE learned \cup ({Head(jobs).face} \cap up)
    /\ UNCHANGED <<pit, up, plainIn, plainOut, held, found>>

\* slAnnounce, and slRenew for no time, which leaves a route without an announcement.
ChangeRoute ==
    /\ jobs # <<>>
    /\ Head(jobs).op \in {"announce", "withdraw"}
    /\ jobs' = Tail(jobs)
    /\ learned' = IF Head(jobs).op = "announce"
                  THEN learned \cup ({Head(jobs).face} \cap up)
                  ELSE learned \ {Head(jobs).face}
    /\ UNCHANGED <<pit, up, plainIn, plainOut, held, found>>

\* The Data goes on with the announcement, if its entry and face are still there.
SendAnnounced ==
    /\ found # <<>>
    /\ found' = Tail(found)
    /\ IF Head(found).op = "find" /\ Head(found).face \in up
       THEN LET k == Head(found).key
                e == Rejected(WithoutIn(pit[k], DataTargets(pit[k], Head(found).face)))
            IN  /\ pit' = [pit EXCEPT ![k] = e]
                /\ KeepInfo(k, e)
                /\ held' = [held EXCEPT ![k] = FALSE]
       ELSE UNCHANGED <<pit, plainIn, plainOut, held>>
    /\ UNCHANGED <<up, learned, jobs>>

(***************************************************************************)
(* The end of an entry, faces and routes.                                  *)
(***************************************************************************)
Searching(k) == InQueue(jobs, k) \/ InQueue(found, k)

\* Mutant: the timer is set on behalf of an unexpired in-record only.
HoldEndsForWaiting(k) ==
    /\ held[k]
    /\ ~Searching(k)
    /\ Waiting(pit[k]) # {}
    /\ pit' = [pit EXCEPT ![k].due = TRUE]
    /\ held' = [held EXCEPT ![k] = FALSE]
    /\ UNCHANGED <<up, plainIn, plainOut, learned, jobs, found>>

\* 1 s is over: more than any search takes.
HoldEnds(k) ==
    /\ held[k]
    /\ ~Searching(k)
    /\ pit' = [pit EXCEPT ![k].due = TRUE]
    /\ held' = [held EXCEPT ![k] = FALSE]
    /\ UNCHANGED <<up, plainIn, plainOut, learned, jobs, found>>

\* With the entry go its records and its std::weak_ptrs.
FinalizeInterest(k) ==
    /\ EntryEnds(k)
    /\ ~held[k]
    /\ plainIn' = [plainIn EXCEPT ![k] = {}]
    /\ plainOut' = [plainOut EXCEPT ![k] = {}]
    /\ jobs' = Orphaned(jobs, k)
    /\ found' = Orphaned(found, k)
    /\ UNCHANGED <<held, learned>>

\* A record expires; while the timer is set to 1 s, the last one does not matter.
Lapse(k, f) ==
    /\ IF held[k] /\ Waiting(EntryOf(k)) = {f}
       THEN /\ \A j \in Pending : ~pit[j].due
            /\ pit' = [pit EXCEPT ![k].in[f] = "late"]
            /\ UNCHANGED up
       ELSE RecordLapses(k, f)
    /\ UNCHANGED <<plainIn, plainOut, held, learned, jobs, found>>

RemoveFace(f) ==
    /\ FaceGoes(f)
    /\ plainIn' = [k \in Keys |-> plainIn[k] \ {f}]
    /\ plainOut' = [k \in Keys |-> plainOut[k] \ {f}]
    /\ learned' = learned \ {f}
    /\ UNCHANGED <<held, jobs, found>>

\* 10 min are over.
RouteEnds(f) ==
    /\ f \in learned
    /\ learned' = learned \ {f}
    /\ UNCHANGED <<pit, up, plainIn, plainOut, held, jobs, found>>

ReceiveInterest(f, k) ==
    \/ BroadcastInterest(f, k)
    \/ \E b \in BOOLEAN : MulticastInterest(f, k, b)
    \/ RefuseInterest(f, k)
    \/ HitInterest(f, k)

ReceiveData(f, k) ==
    \/ ReceiveUnaskedData(f, k)
    \/ ReceivePlainData(f, k)
    \/ SearchAnnouncement(f, k)
    \/ \E b \in BOOLEAN : ReceiveDiscoveryData(f, k, b)
    \/ ReceiveSharedData(f, k)

Next ==
    \/ \E f \in Faces, k \in Keys : ReceiveInterest(f, k)
    \/ \E f \in Faces, k \in Keys : ReceiveData(f, k)
    \/ \E f \in Faces, k \in Keys, b \in BOOLEAN : ReceiveNack(f, k, b)
    \/ FindAnnouncement
    \/ ChangeRoute
    \/ SendAnnounced
    \/ \E k \in Keys : HoldEnds(k)
    \/ \E k \in Keys : FinalizeInterest(k)
    \/ \E k \in Keys, f \in Faces : Lapse(k, f)
    \/ \E f \in Faces : RemoveFace(f)
    \/ \E f \in Faces : RouteEnds(f)

Spec == Init /\ [][Next]_vars

\* Both threads take up what is queued, and timers run out.
Fairness ==
    /\ WF_vars(FindAnnouncement)
    /\ WF_vars(ChangeRoute)
    /\ WF_vars(SendAnnounced)
    /\ \A k \in Keys : /\ WF_vars(HoldEnds(k))
                        /\ WF_vars(FinalizeInterest(k))
                        /\ WF_vars(\E f \in Waiting(EntryOf(k)) : Lapse(k, f))

LiveSpec == Spec /\ Fairness

(***************************************************************************)
(* Properties.                                                             *)
(***************************************************************************)
\* The places in the RIB thread's queue of the jobs for a face's route.
RouteJobs(f) == {n \in DOMAIN jobs : /\ jobs[n].op \in {"announce", "withdraw"}
                                     /\ jobs[n].face = f}

\* The learned routes as they will be when the RIB thread has caught up.
SoonLearned ==
    {f \in up :
        \/ /\ RouteJobs(f) = {}
           /\ f \in learned
        \/ \E n \in RouteJobs(f) : /\ jobs[n].op = "announce"
                                   /\ \A m \in RouteJobs(f) : m <= n}

\* The routes that the two threads together have come and go in the order of the packets
\* that bring them: one comes only when Data with an announcement answers a discovery
\* Interest, and goes only by a Nack for want of a route that comes later on, after
\* 10 min or with its face.  When the RIB thread takes its jobs up, and what has become
\* of the PIT entry meanwhile, is of no account (self-learning-strategy.cpp:236-262).
RoutesFollowPackets ==
    [][/\ \A f \in SoonLearned' \ SoonLearned :
             \E k \in Keys : ReceiveDiscoveryData(f, k, TRUE)
       /\ \A f \in SoonLearned \ SoonLearned' :
             \/ f \notin up'
             \/ RouteEnds(f)
             \/ \E k \in Keys : ReceiveNack(f, k, TRUE)]_<<up, learned, jobs>>

\* From some time on no Interest comes in.
Quiet == <>[][~\E f \in Faces, k \in Keys : ReceiveInterest(f, k)]_vars

\* When no more Interests come in, the searches come to an end and so do the entries,
\* those too for which no announcement is found (self-learning-strategy.cpp:180-208).
Settled == Quiet => <>[](Pending = {} /\ jobs = <<>> /\ found = <<>>)

(***************************************************************************)
(* What an assertion says and the code does not ensure.                    *)
(***************************************************************************)
\* BOOST_ASSERT(this->lookupFib(*pitEntry).hasNextHops()): a Nack for want of a route
\* comes only while there is one here, at least where the Interest was a
\* non-discovery one, the only ones that this strategy answers so
\* (self-learning-strategy.cpp:139, 77-85).
RouteWhenNacked ==
    [][\A f \in Faces, k \in Keys :
          f \in plainOut[k] /\ ReceiveNack(f, k, TRUE) => NextHops # {}]_vars
=============================================================================
