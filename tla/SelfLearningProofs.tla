-------------------------- MODULE SelfLearningProofs -------------------------
(***************************************************************************)
(* Theorems about SelfLearning, for any faces, names, static routes and    *)
(* any bound of the queues.                                                *)
(***************************************************************************)
EXTENDS SelfLearning, PipelineProofs

(***************************************************************************)
(* The inductive invariant.  TypeOK alone is not inductive: what is found  *)
(* for an entry, or the end of its extended timer, would write a record of *)
(* an entry that is gone.  As long as it is searched for, or its timer is  *)
(* extended, it is there; with it, its jobs become orphans.                *)
(***************************************************************************)
SearchesLive == \A k \in Keys : held[k] \/ Searching(k) => k \in Pending

Inv == TypeOK /\ SearchesLive

(***************************************************************************)
(* Queues.                                                                 *)
(***************************************************************************)
LEMMA AppendQueue ==
    ASSUME NEW S, NEW q \in Seq(S), NEW job \in S
    PROVE  /\ Append(q, job) \in Seq(S)
           /\ Len(Append(q, job)) = Len(q) + 1
           /\ \A k : InQueue(Append(q, job), k) =>
                        InQueue(q, k) \/ (job.op = "find" /\ job.key = k)
<1>1. /\ Append(q, job) \in Seq(S)
      /\ Len(Append(q, job)) = Len(q) + 1
      /\ \A n \in 1..Len(q) : Append(q, job)[n] = q[n]
      /\ Append(q, job)[Len(q) + 1] = job
    OBVIOUS
<1>2. DOMAIN q = 1..Len(q) /\ DOMAIN Append(q, job) = 1..(Len(q) + 1)
    BY <1>1
<1>3. Len(q) \in Nat
    OBVIOUS
<1>4. \A n \in 1..(Len(q) + 1) : n \in 1..Len(q) \/ n = Len(q) + 1
    BY <1>3
<1>5. ASSUME NEW k, NEW n \in 1..(Len(q) + 1),
             Append(q, job)[n].op = "find", Append(q, job)[n].key = k
      PROVE  InQueue(q, k) \/ (job.op = "find" /\ job.key = k)
    BY <1>1, <1>2, <1>4, <1>5 DEF InQueue
<1>6. ASSUME NEW k, InQueue(Append(q, job), k)
      PROVE  InQueue(q, k) \/ (job.op = "find" /\ job.key = k)
    BY <1>2, <1>5, <1>6 DEF InQueue
<1> QED
    BY <1>1, <1>6

LEMMA TailQueue ==
    ASSUME NEW S, NEW q \in Seq(S), q # <<>>
    PROVE  /\ Head(q) \in S
           /\ Tail(q) \in Seq(S)
           /\ Len(Tail(q)) = Len(q) - 1
           /\ \A k : InQueue(Tail(q), k) => InQueue(q, k)
           /\ \A k : Head(q).op = "find" /\ Head(q).key = k => InQueue(q, k)
<1>1. /\ Head(q) \in S
      /\ Head(q) = q[1]
      /\ Tail(q) \in Seq(S)
      /\ Len(q) \in Nat \ {0}
      /\ Len(Tail(q)) = Len(q) - 1
      /\ \A n \in 1..(Len(q) - 1) : Tail(q)[n] = q[n + 1]
    OBVIOUS
<1>2. DOMAIN q = 1..Len(q) /\ DOMAIN Tail(q) = 1..(Len(q) - 1)
    BY <1>1
<1>3. \A n \in 1..(Len(q) - 1) : n + 1 \in 1..Len(q)
    BY <1>1
<1>4. 1 \in 1..Len(q)
    BY <1>1
<1> QED
    BY <1>1, <1>2, <1>3, <1>4 DEF InQueue

LEMMA OrphanedQueue ==
    ASSUME NEW S, Orphan \in S, NEW q \in Seq(S), NEW k
    PROVE  /\ Orphaned(q, k) \in Seq(S)
           /\ Len(Orphaned(q, k)) = Len(q)
           /\ \A j : InQueue(Orphaned(q, k), j) => InQueue(q, j) /\ j # k
<1>1. /\ Len(q) \in Nat
      /\ DOMAIN q = 1..Len(q)
      /\ \A n \in 1..Len(q) : q[n] \in S
    OBVIOUS
<1>2. /\ DOMAIN Orphaned(q, k) = 1..Len(q)
      /\ \A n \in 1..Len(q) : \/ Orphaned(q, k)[n] = Orphan
                              \/ /\ Orphaned(q, k)[n] = q[n]
                                 /\ ~(q[n].op = "find" /\ q[n].key = k)
      /\ Orphaned(q, k) = [n \in 1..Len(q) |-> Orphaned(q, k)[n]]
    BY <1>1 DEF Orphaned
<1>3. \A n \in 1..Len(q) : Orphaned(q, k)[n] \in S
    BY <1>1, <1>2
<1>4. Orphaned(q, k) \in Seq(S) /\ Len(Orphaned(q, k)) = Len(q)
    BY <1>1, <1>2, <1>3
<1>5. Orphan.op # "find"
    BY DEF Orphan
<1> QED
    BY <1>1, <1>2, <1>4, <1>5 DEF InQueue

\* The faces and keys of a job.
LEMMA JobParts ==
    /\ Search \subseteq Job
    /\ Orphan \in Search /\ Orphan \in Job
    /\ \A k \in Keys, f \in Faces : [op |-> "find", key |-> k, face |-> f] \in Job
    /\ \A f \in Faces : /\ [op |-> "announce", face |-> f] \in Job
                        /\ [op |-> "withdraw", face |-> f] \in Job
    /\ \A j \in Job : j.op = "find" => j \in Search /\ j.key \in Keys /\ j.face \in Faces
    /\ \A j \in Job : j.op = "orphan" => j \in Search
    /\ \A j \in Job : j.op \in {"announce", "withdraw"} => j.face \in Faces
BY DEF Job, Search, Orphan

(***************************************************************************)
(* Entries.                                                                *)
(***************************************************************************)
LEMMA WithoutInFaces ==
    ASSUME NEW e \in Entry, NEW S
    PROVE  /\ Downstreams(WithoutIn(e, S)) = Downstreams(e) \ S
           /\ Upstreams(WithoutIn(e, S)) = Upstreams(e)
           /\ Waiting(WithoutIn(e, S)) = Waiting(e) \ S
BY DEF WithoutIn, Entry, Downstreams, Upstreams, Waiting, NoRecord

LEMMA AnsweredToType ==
    ASSUME NEW e \in Entry, NEW f \in Faces, NEW S
    PROVE  /\ AnsweredTo(e, f, S) \in Entry
           /\ AnsweredTo(e, f, S).in = WithoutIn(e, S).in
           /\ Downstreams(AnsweredTo(e, f, S)) \subseteq Downstreams(e)
           /\ Upstreams(AnsweredTo(e, f, S)) \subseteq Upstreams(e)
<1> DEFINE w == WithoutIn(e, S)
<1>1. w \in Entry /\ Downstreams(w) \subseteq Downstreams(e) /\ Upstreams(w) = Upstreams(e)
    BY WithoutInType, WithoutInFaces
<1>2. AnsweredTo(e, f, S) = [w EXCEPT !.due = TRUE, !.satisfied = TRUE, !.out[f] = NoRecord]
    BY DEF AnsweredTo
<1> HIDE DEF w
<1>3. /\ AnsweredTo(e, f, S) \in Entry
      /\ AnsweredTo(e, f, S).in = w.in
      /\ AnsweredTo(e, f, S).out = [w.out EXCEPT ![f] = NoRecord]
    <2>1. AnsweredTo(e, f, S) \in Entry
        <3>1. ASSUME NEW x \in Entry
              PROVE  [x EXCEPT !.due = TRUE, !.satisfied = TRUE, !.out[f] = NoRecord] \in Entry
            BY DEF Entry, NoRecord
        <3> QED
            BY <1>1, <1>2, <3>1
    <2>2. AnsweredTo(e, f, S).in = w.in
        BY <1>1, <1>2 DEF Entry
    <2>3. AnsweredTo(e, f, S).out = [w.out EXCEPT ![f] = NoRecord]
        BY <1>1, <1>2 DEF Entry
    <2> QED
        BY <2>1, <2>2, <2>3
<1>4. Downstreams(AnsweredTo(e, f, S)) = Downstreams(w)
    BY <1>3 DEF Downstreams
<1>5. Upstreams(AnsweredTo(e, f, S)) \subseteq Upstreams(w)
    <2>1. w.out \in [Faces -> {NoRecord, "pending", "nacked", "late"}]
        BY <1>1 DEF Entry
    <2> QED
        BY <1>3, <2>1 DEF Upstreams
<1> QED
    BY <1>1, <1>3, <1>4, <1>5 DEF w

(***************************************************************************)
(* A step that writes one entry, what is known of its records, and whether *)
(* its timer is extended.                                                  *)
(***************************************************************************)
\* The queues stay well formed, and only an entry of K has new jobs.
QueuesKept(K) ==
    /\ jobs' \in Seq(Job)
    /\ found' \in Seq(Search)
    /\ Len(jobs') + Len(found') <= MaxJobs
    /\ \A j \in Keys : InQueue(jobs', j) \/ InQueue(found', j) => Searching(j) \/ j \in K

LEMMA QueuesStay ==
    ASSUME Inv, UNCHANGED <<jobs, found>>, NEW K
    PROVE  QueuesKept(K)
BY DEF Inv, TypeOK, QueuesKept, Searching

LEMMA QueueJob ==
    ASSUME Inv, NEW job \in Job, Queue(job), UNCHANGED found,
           NEW K, job.op = "find" => job.key \in K
    PROVE  QueuesKept(K)
<1>1. /\ jobs \in Seq(Job)
      /\ found \in Seq(Search)
      /\ Len(jobs) + Len(found) < MaxJobs
      /\ jobs' = Append(jobs, job)
      /\ found' = found
    BY DEF Inv, TypeOK, Queue
<1>2. /\ jobs' \in Seq(Job)
      /\ Len(jobs') = Len(jobs) + 1
      /\ \A j : InQueue(jobs', j) => InQueue(jobs, j) \/ (job.op = "find" /\ job.key = j)
    BY <1>1, AppendQueue
<1>3. Len(jobs) \in Nat /\ Len(found) \in Nat /\ MaxJobs \in Nat
    BY <1>1, SelfLearningAssumption
<1>4. Len(jobs') + Len(found') <= MaxJobs
    BY <1>1, <1>2, <1>3
<1> QED
    BY <1>1, <1>2, <1>4 DEF QueuesKept, Searching

LEMMA EntryWritten ==
    ASSUME Inv, NEW k \in Keys, NEW e \in Entry, NEW h \in BOOLEAN,
           NEW A \in SUBSET Downstreams(e), NEW B \in SUBSET Upstreams(e),
           pit' = [pit EXCEPT ![k] = e],
           plainIn' = [plainIn EXCEPT ![k] = A],
           plainOut' = [plainOut EXCEPT ![k] = B],
           held' = [held EXCEPT ![k] = h],
           UNCHANGED <<up, learned>>,
           QueuesKept({k})
    PROVE  Inv'
<1>1. PipelineType /\ PipelineType'
    BY EntryChanges DEF Inv, TypeOK
<1>2. /\ plainIn \in [Keys -> SUBSET Faces]
      /\ plainOut \in [Keys -> SUBSET Faces]
      /\ held \in [Keys -> BOOLEAN]
      /\ \A j \in Keys : /\ plainIn[j] \subseteq Downstreams(EntryOf(j))
                          /\ plainOut[j] \subseteq Upstreams(EntryOf(j))
    BY DEF Inv, TypeOK
<1>3. A \subseteq Faces /\ B \subseteq Faces
    BY DEF Downstreams, Upstreams
<1>4. /\ pit'[k] = e /\ e # NoEntry
      /\ \A j \in Keys \ {k} : pit'[j] = pit[j]
    BY <1>1, NoEntryAssumption DEF PipelineType
<1>5. /\ EntryOf(k)' = e
      /\ \A j \in Keys \ {k} : EntryOf(j)' = EntryOf(j)
    BY <1>4 DEF EntryOf
<1>6. /\ plainIn' \in [Keys -> SUBSET Faces]
      /\ plainOut' \in [Keys -> SUBSET Faces]
      /\ held' \in [Keys -> BOOLEAN]
    BY <1>2, <1>3
<1>7. ASSUME NEW j \in Keys
      PROVE  /\ plainIn'[j] \subseteq Downstreams(EntryOf(j)')
             /\ plainOut'[j] \subseteq Upstreams(EntryOf(j)')
    BY <1>2, <1>5
<1>8. TypeOK'
    BY <1>1, <1>6, <1>7 DEF Inv, TypeOK, QueuesKept, Downstreams, Upstreams
<1>9. ASSUME NEW j \in Keys, held'[j] \/ Searching(j)'
      PROVE  pit'[j] # NoEntry
    <2>1. j # k => held[j] \/ Searching(j)
        BY <1>2, <1>9 DEF QueuesKept, Searching
    <2> QED
        BY <1>4, <2>1 DEF Inv, SearchesLive, Pending
<1> QED
    BY <1>8, <1>9 DEF Inv, SearchesLive, Pending

\* The same, where the records that are left keep what is known of them.
LEMMA EntryThinned ==
    ASSUME Inv, NEW k \in Keys, NEW e \in Entry, NEW h \in BOOLEAN,
           pit' = [pit EXCEPT ![k] = e],
           KeepInfo(k, e),
           held' = [held EXCEPT ![k] = h],
           UNCHANGED <<up, learned>>,
           QueuesKept({k})
    PROVE  Inv'
<1> DEFINE A == plainIn[k] \cap Downstreams(e)
           B == plainOut[k] \cap Upstreams(e)
<1>1. /\ plainIn \in [Keys -> SUBSET Faces]
      /\ plainOut \in [Keys -> SUBSET Faces]
    BY DEF Inv, TypeOK
<1>2. /\ plainIn' = [plainIn EXCEPT ![k] = A]
      /\ plainOut' = [plainOut EXCEPT ![k] = B]
    BY <1>1 DEF KeepInfo
<1>3. A \in SUBSET Downstreams(e) /\ B \in SUBSET Upstreams(e)
    OBVIOUS
<1> HIDE DEF A, B
<1> QED
    BY <1>2, <1>3, EntryWritten

(***************************************************************************)
(* The actions.                                                            *)
(***************************************************************************)
LEMMA InitInv == Init => Inv
<1> SUFFICES ASSUME Init
             PROVE  Inv
    OBVIOUS
<1>1. \A k \in Keys : ~InQueue(jobs, k) /\ ~InQueue(found, k)
    BY DEF Init, InQueue
<1>2. <<>> \in Seq(Job) /\ <<>> \in Seq(Search) /\ Len(<<>>) = 0
    OBVIOUS
<1> QED
    BY <1>1, <1>2, SelfLearningAssumption
    DEF Init, PipelineInit, Inv, TypeOK, PipelineType, SearchesLive, Searching

LEMMA ReceiveInterestInv ==
    ASSUME Inv, NEW f \in Faces, NEW k \in Keys, ReceiveInterest(f, k)
    PROVE  Inv'
<1>p. /\ PipelineType
      /\ plainIn[k] \subseteq Downstreams(EntryOf(k))
      /\ plainOut[k] \subseteq Upstreams(EntryOf(k))
      /\ plainIn \in [Keys -> SUBSET Faces]
      /\ plainOut \in [Keys -> SUBSET Faces]
      /\ held \in [Keys -> BOOLEAN]
      /\ EntryOf(k) \in Entry
    BY EntryOfType DEF Inv, TypeOK
<1>1. ASSUME NEW plain \in BOOLEAN, NEW T \in SUBSET Faces, NEW plainOn \in BOOLEAN,
             Forwarded(f, k, plain, T, plainOn)
      PROVE  Inv'
    <2> DEFINE e == SentTo(Asked(k, f), T)
               A == IF plain THEN plainIn[k] \cup {f} ELSE plainIn[k] \ {f}
               B == IF plainOn THEN plainOut[k] \cup T ELSE plainOut[k] \ T
    <2>1. /\ pit' = [pit EXCEPT ![k] = e]
          /\ plainIn' = [plainIn EXCEPT ![k] = A]
          /\ plainOut' = [plainOut EXCEPT ![k] = B]
          /\ held' = [held EXCEPT ![k] = FALSE]
          /\ UNCHANGED <<up, learned>>
          /\ UNCHANGED <<jobs, found>>
        BY <1>1, <1>p DEF Forwarded
    <2>2. /\ e \in Entry
          /\ f \in Downstreams(e)
          /\ Downstreams(EntryOf(k)) \subseteq Downstreams(e)
        BY <1>p, AskedDownstreams
    <2>3. Upstreams(e) = Upstreams(EntryOf(k)) \cup T
        <3>1. Asked(k, f) \in Entry /\ Asked(k, f).out = EntryOf(k).out
            BY <1>p, AskedType
        <3>2. Upstreams(Asked(k, f)) = Upstreams(EntryOf(k))
            BY <3>1 DEF Upstreams
        <3> QED
            BY <3>1, <3>2, SentToType
    <2> HIDE DEF e
    <2>4. A \in SUBSET Downstreams(e)
        BY <1>p, <2>2
    <2>5. B \in SUBSET Upstreams(e)
        BY <1>p, <2>3
    <2>6. QueuesKept({k})
        BY <2>1, QueuesStay
    <2> HIDE DEF A, B
    <2> QED
        BY <2>1, <2>2, <2>4, <2>5, <2>6, EntryWritten
<1>2. CASE BroadcastInterest(f, k)
    BY <1>1, <1>2 DEF BroadcastInterest, Open, Inv, TypeOK, PipelineType
<1>3. ASSUME NEW plain \in BOOLEAN, MulticastInterest(f, k, plain)
      PROVE  Inv'
    BY <1>1, <1>3 DEF MulticastInterest, Open, NextHops, Inv, TypeOK, PipelineType
<1>4. CASE RefuseInterest(f, k)
    <2> DEFINE asked == Rejected(Asked(k, f))
               e == IF f \in P2P THEN WithoutIn(asked, {f}) ELSE asked
               A == (plainIn[k] \cup {f}) \cap Downstreams(e)
    <2>1. /\ pit' = [pit EXCEPT ![k] = e]
          /\ plainIn' = [plainIn EXCEPT ![k] = A]
          /\ held' = [held EXCEPT ![k] = FALSE]
          /\ plainOut' = plainOut
          /\ UNCHANGED <<up, learned>>
          /\ UNCHANGED <<jobs, found>>
        BY <1>4, <1>p DEF RefuseInterest
    <2>2. asked \in Entry /\ Upstreams(asked) = Upstreams(EntryOf(k))
        <3>1. Asked(k, f) \in Entry /\ Asked(k, f).out = EntryOf(k).out
            BY <1>p, AskedType
        <3>2. asked \in Entry /\ asked.out = EntryOf(k).out
            BY <3>1, RejectedType
        <3> QED
            BY <3>2 DEF Upstreams
    <2> HIDE DEF asked
    <2>3. e \in Entry /\ Upstreams(e) = Upstreams(EntryOf(k))
        BY <2>2, WithoutInType, WithoutInFaces
    <2> HIDE DEF e
    <2>4. A \in SUBSET Downstreams(e)
        OBVIOUS
    <2>5. plainOut' = [plainOut EXCEPT ![k] = plainOut[k]] /\ plainOut[k] \in SUBSET Upstreams(e)
        BY <1>p, <2>1, <2>3
    <2>6. QueuesKept({k})
        BY <2>1, QueuesStay
    <2> HIDE DEF A
    <2> QED
        BY <2>1, <2>3, <2>4, <2>5, <2>6, EntryWritten
<1>5. CASE HitInterest(f, k)
    <2>1. /\ pit' = [pit EXCEPT ![k] = Hit(k)]
          /\ held' = [held EXCEPT ![k] = FALSE]
          /\ UNCHANGED <<plainIn, plainOut>>
          /\ UNCHANGED <<up, learned>>
          /\ UNCHANGED <<jobs, found>>
        BY <1>5 DEF HitInterest, InterestHits
    <2>2. /\ Hit(k) \in Entry
          /\ Downstreams(Hit(k)) = Downstreams(EntryOf(k))
          /\ Upstreams(Hit(k)) = Upstreams(EntryOf(k))
        BY <1>p, HitType DEF Hit, Entry, Downstreams, Upstreams
    <2>3. /\ plainIn' = [plainIn EXCEPT ![k] = plainIn[k]]
          /\ plainOut' = [plainOut EXCEPT ![k] = plainOut[k]]
          /\ plainIn[k] \in SUBSET Downstreams(Hit(k))
          /\ plainOut[k] \in SUBSET Upstreams(Hit(k))
        BY <1>p, <2>1, <2>2
    <2>4. QueuesKept({k})
        BY <2>1, QueuesStay
    <2> QED
        BY <2>1, <2>2, <2>3, <2>4, EntryWritten
<1> QED
    BY <1>2, <1>3, <1>4, <1>5 DEF ReceiveInterest

LEMMA ReceiveDataInv ==
    ASSUME Inv, NEW f \in Faces, NEW k \in Keys, ReceiveData(f, k)
    PROVE  Inv'
<1>p. PipelineType /\ EntryOf(k) \in Entry
    BY EntryOfType DEF Inv, TypeOK
<1>1. ASSUME NEW S, NEW K, QueuesKept({k}), Satisfied(f, k, AnsweredTo(EntryOf(k), f, S), FALSE)
      PROVE  Inv'
    <2>1. AnsweredTo(EntryOf(k), f, S) \in Entry
        BY <1>p, AnsweredToType
    <2> QED
        BY <1>1, <2>1, EntryThinned DEF Satisfied
<1>2. ASSUME NEW e, NEW h, Satisfied(f, k, e, h)
      PROVE  k \in Pending /\ pit[k] = EntryOf(k) /\ UNCHANGED found
    BY <1>2 DEF Satisfied, Pending, EntryOf
<1>3. UNCHANGED <<jobs, found>> => QueuesKept({k})
    BY QueuesStay
<1>4. CASE ReceiveUnaskedData(f, k)
    BY <1>1, <1>2, <1>3, <1>4 DEF ReceiveUnaskedData
<1>5. CASE ReceivePlainData(f, k)
    BY <1>1, <1>2, <1>3, <1>5 DEF ReceivePlainData
<1>6. CASE SearchAnnouncement(f, k)
    <2> DEFINE job == [op |-> "find", key |-> k, face |-> f]
               answered == AnsweredTo(pit[k], f, {})
               e == [answered EXCEPT !.due = FALSE]
    <2>1. Satisfied(f, k, e, TRUE) /\ Queue(job)
        BY <1>6 DEF SearchAnnouncement
    <2>2. job \in Job /\ job.key = k
        BY JobParts
    <2>3. answered \in Entry
        BY <1>2, <1>p, <2>1, AnsweredToType
    <2> HIDE DEF job, answered
    <2>4. e \in Entry
        BY <2>3 DEF Entry
    <2> HIDE DEF e
    <2>5. QueuesKept({k})
        BY <1>2, <2>1, <2>2, QueueJob
    <2> QED
        BY <2>1, <2>4, <2>5, EntryThinned DEF Satisfied
<1>7. ASSUME NEW announced \in BOOLEAN, ReceiveDiscoveryData(f, k, announced)
      PROVE  Inv'
    <2> DEFINE job == [op |-> "announce", face |-> f]
    <2>1. /\ Satisfied(f, k, AnsweredTo(EntryOf(k), f, DataTargets(pit[k], f)), FALSE)
          /\ Queue(job) \/ UNCHANGED jobs
        BY <1>2, <1>7 DEF ReceiveDiscoveryData
    <2>2. job \in Job /\ job.op # "find"
        BY JobParts
    <2> HIDE DEF job
    <2>3. QueuesKept({k})
        BY <1>2, <1>3, <2>1, <2>2, QueueJob
    <2> QED
        BY <1>1, <2>1, <2>3
<1>8. CASE ReceiveSharedData(f, k)
    BY <1>1, <1>2, <1>3, <1>8 DEF ReceiveSharedData, Answered
<1> QED
    BY <1>4, <1>5, <1>6, <1>7, <1>8 DEF ReceiveData

LEMMA ReceiveNackInv ==
    ASSUME Inv, NEW f \in Faces, NEW k \in Keys, NEW noRoute \in BOOLEAN,
           ReceiveNack(f, k, noRoute)
    PROVE  Inv'
<1> DEFINE job == [op |-> "withdraw", face |-> f]
           nacked == Nacked(pit[k], f)
           e == IF noRoute THEN WithoutIn(nacked, P2P) ELSE nacked
           h == held[k] /\ HasPendingOutRecords(e)
<1>1. /\ k \in Pending
      /\ pit' = [pit EXCEPT ![k] = e]
      /\ KeepInfo(k, e)
      /\ Queue(job) \/ UNCHANGED jobs
      /\ UNCHANGED <<up, learned>>
      /\ UNCHANGED found
    BY DEF ReceiveNack, NackArrives
<1>2. held' = [held EXCEPT ![k] = h]
    BY DEF ReceiveNack, Inv, TypeOK
<1>3. nacked \in Entry
    BY <1>1, PendingType, NackedType DEF Inv, TypeOK
<1>4. job \in Job /\ job.op # "find"
    BY JobParts
<1> HIDE DEF job, nacked
<1>5. e \in Entry
    BY <1>3, WithoutInType
<1> HIDE DEF e
<1>6. h \in BOOLEAN
    BY DEF Inv, TypeOK, HasPendingOutRecords
<1> HIDE DEF h
<1>7. QueuesKept({k})
    BY <1>1, <1>4, QueueJob, QueuesStay
<1> QED
    BY <1>1, <1>2, <1>5, <1>6, <1>7, EntryThinned

\* What goes on in the queues, and what is found.
LEMMA QueueServed ==
    ASSUME Inv, FindAnnouncement \/ ChangeRoute
    PROVE  /\ QueuesKept({})
           /\ learned' \subseteq up
<1>p. /\ jobs \in Seq(Job)
      /\ found \in Seq(Search)
      /\ Len(jobs) \in Nat /\ Len(found) \in Nat
      /\ Len(jobs) + Len(found) <= MaxJobs
      /\ learned \subseteq up
    BY DEF Inv, TypeOK
<1>1. jobs # <<>> /\ jobs' = Tail(jobs)
    BY DEF FindAnnouncement, ChangeRoute
<1>2. /\ Head(jobs) \in Job
      /\ jobs' \in Seq(Job)
      /\ Len(jobs') = Len(jobs) - 1
      /\ \A k : InQueue(jobs', k) => InQueue(jobs, k)
      /\ \A k : Head(jobs).op = "find" /\ Head(jobs).key = k => InQueue(jobs, k)
    BY <1>1, <1>p, TailQueue
<1>3. CASE FindAnnouncement
    <2>1. /\ Head(jobs) \in Search
          /\ found' = found \/ found' = Append(found, Head(jobs))
          /\ learned' = learned
        BY <1>2, <1>3, JobParts DEF FindAnnouncement
    <2>2. /\ found' \in Seq(Search)
          /\ Len(found') = Len(found) \/ Len(found') = Len(found) + 1
          /\ \A k : InQueue(found', k) => InQueue(found, k) \/ InQueue(jobs, k)
        <3>1. CASE found' = found
            BY <1>p, <3>1
        <3>2. CASE found' = Append(found, Head(jobs))
            <4>1. /\ found' \in Seq(Search)
                  /\ Len(found') = Len(found) + 1
                  /\ \A k : InQueue(found', k) =>
                        InQueue(found, k) \/ (Head(jobs).op = "find" /\ Head(jobs).key = k)
                BY <1>p, <2>1, <3>2, AppendQueue
            <4> QED
                BY <1>2, <4>1
        <3> QED
            BY <2>1, <3>1, <3>2
    <2>3. Len(jobs') + Len(found') <= MaxJobs
        BY <1>p, <1>2, <2>2, SelfLearningAssumption
    <2> QED
        BY <1>p, <1>2, <2>1, <2>2, <2>3 DEF QueuesKept, Searching
<1>4. CASE ChangeRoute
    <2>1. found' = found /\ learned' \subseteq up
        BY <1>p, <1>4 DEF ChangeRoute
    <2>2. Len(jobs') + Len(found') <= MaxJobs
        BY <1>p, <1>2, <2>1, SelfLearningAssumption
    <2> QED
        BY <1>p, <1>2, <2>1, <2>2 DEF QueuesKept, Searching
<1> QED
    BY <1>3, <1>4

\* A step that leaves the entries.
LEMMA EntriesKept ==
    ASSUME Inv, UNCHANGED <<pit, up, plainIn, plainOut, held>>,
           QueuesKept({}), learned' \subseteq up
    PROVE  Inv'
<1>1. TypeOK'
    BY DEF Inv, TypeOK, PipelineType, QueuesKept, EntryOf, Downstreams, Upstreams
<1>2. SearchesLive'
    BY DEF Inv, SearchesLive, QueuesKept, Searching, Pending
<1> QED
    BY <1>1, <1>2 DEF Inv

LEMMA SendAnnouncedInv ==
    ASSUME Inv, SendAnnounced
    PROVE  Inv'
<1>p. /\ jobs \in Seq(Job)
      /\ found \in Seq(Search)
      /\ Len(jobs) \in Nat /\ Len(found) \in Nat
      /\ Len(jobs) + Len(found) <= MaxJobs
      /\ learned \subseteq up
    BY DEF Inv, TypeOK
<1>1. found # <<>> /\ found' = Tail(found) /\ UNCHANGED <<up, learned, jobs>>
    BY DEF SendAnnounced
<1>2. /\ Head(found) \in Search
      /\ found' \in Seq(Search)
      /\ Len(found') = Len(found) - 1
      /\ \A k : InQueue(found', k) => InQueue(found, k)
      /\ \A k : Head(found).op = "find" /\ Head(found).key = k => InQueue(found, k)
    BY <1>1, <1>p, TailQueue
<1>3. Len(jobs') + Len(found') <= MaxJobs
    BY <1>p, <1>1, <1>2, SelfLearningAssumption
<1>4. \A K : QueuesKept(K)
    BY <1>p, <1>1, <1>2, <1>3 DEF QueuesKept, Searching
<1>5. CASE Head(found).op = "find" /\ Head(found).face \in up
    <2> DEFINE k == Head(found).key
               targets == DataTargets(pit[k], Head(found).face)
               e == Rejected(WithoutIn(pit[k], targets))
    <2>1. /\ pit' = [pit EXCEPT ![k] = e]
          /\ KeepInfo(k, e)
          /\ held' = [held EXCEPT ![k] = FALSE]
        BY <1>5 DEF SendAnnounced
    <2>2. k \in Keys
        BY <1>2, <1>5, JobParts
    <2>3. k \in Pending
        BY <1>2, <1>5, <2>2 DEF Inv, SearchesLive, Searching
    <2> HIDE DEF targets, k
    <2>4. e \in Entry
        <3>1. pit[k] \in Entry
            BY <2>3, PendingType DEF Inv, TypeOK
        <3>2. WithoutIn(pit[k], targets) \in Entry
            BY <3>1, WithoutInType
        <3> QED
            BY <3>2, RejectedType
    <2> HIDE DEF e
    <2> QED
        BY <1>1, <1>4, <2>1, <2>2, <2>4, EntryThinned
<1>6. CASE ~(Head(found).op = "find" /\ Head(found).face \in up)
    <2>1. UNCHANGED <<pit, plainIn, plainOut, held>>
        BY <1>6 DEF SendAnnounced
    <2> QED
        BY <1>1, <1>4, <1>p, <2>1, EntriesKept
<1> QED
    BY <1>5, <1>6

LEMMA HoldEndsInv ==
    ASSUME Inv, NEW k \in Keys, HoldEnds(k)
    PROVE  Inv'
<1> DEFINE e == [pit[k] EXCEPT !.due = TRUE]
<1>1. /\ held[k]
      /\ pit' = [pit EXCEPT ![k] = e]
      /\ held' = [held EXCEPT ![k] = FALSE]
      /\ UNCHANGED <<plainIn, plainOut>>
      /\ UNCHANGED <<up, learned>>
      /\ UNCHANGED <<jobs, found>>
    BY DEF HoldEnds
<1>2. pit[k] \in Entry /\ EntryOf(k) = pit[k]
    BY <1>1, PendingType DEF Inv, SearchesLive, TypeOK
<1>3. e \in Entry /\ Downstreams(e) = Downstreams(pit[k]) /\ Upstreams(e) = Upstreams(pit[k])
    BY <1>2 DEF Entry, Downstreams, Upstreams
<1> HIDE DEF e
<1>4. /\ plainIn' = [plainIn EXCEPT ![k] = plainIn[k]]
      /\ plainOut' = [plainOut EXCEPT ![k] = plainOut[k]]
      /\ plainIn[k] \in SUBSET Downstreams(e)
      /\ plainOut[k] \in SUBSET Upstreams(e)
    BY <1>1, <1>2, <1>3 DEF Inv, TypeOK
<1>5. QueuesKept({k})
    BY <1>1, QueuesStay
<1> QED
    BY <1>1, <1>3, <1>4, <1>5, EntryWritten

\* With an entry go what is known of its records and its jobs.
LEMMA FinalizeInv ==
    ASSUME Inv, NEW k \in Keys, FinalizeInterest(k)
    PROVE  Inv'
<1>p. /\ PipelineType
      /\ plainIn \in [Keys -> SUBSET Faces]
      /\ plainOut \in [Keys -> SUBSET Faces]
      /\ jobs \in Seq(Job)
      /\ found \in Seq(Search)
    BY DEF Inv, TypeOK
<1>1. /\ pit' = [pit EXCEPT ![k] = NoEntry]
      /\ plainIn' = [plainIn EXCEPT ![k] = {}]
      /\ plainOut' = [plainOut EXCEPT ![k] = {}]
      /\ jobs' = Orphaned(jobs, k)
      /\ found' = Orphaned(found, k)
      /\ UNCHANGED <<up, held, learned>>
      /\ ~held[k]
    BY DEF FinalizeInterest, EntryEnds
<1>2. /\ jobs' \in Seq(Job)
      /\ Len(jobs') = Len(jobs)
      /\ \A j : InQueue(jobs', j) => InQueue(jobs, j) /\ j # k
    BY <1>p, <1>1, JobParts, OrphanedQueue
<1>3. /\ found' \in Seq(Search)
      /\ Len(found') = Len(found)
      /\ \A j : InQueue(found', j) => InQueue(found, j) /\ j # k
    BY <1>p, <1>1, JobParts, OrphanedQueue
<1>4. PipelineType'
    BY <1>p, <1>1, EntryChanges
<1>5. \A j \in Keys \ {k} : pit'[j] = pit[j] /\ EntryOf(j)' = EntryOf(j)
    BY <1>p, <1>1 DEF EntryOf, PipelineType
<1>6. ASSUME NEW j \in Keys
      PROVE  /\ plainIn'[j] \subseteq Downstreams(EntryOf(j)')
             /\ plainOut'[j] \subseteq Upstreams(EntryOf(j)')
    BY <1>p, <1>1, <1>5 DEF Inv, TypeOK
<1>7. TypeOK'
    BY <1>p, <1>1, <1>2, <1>3, <1>4, <1>6 DEF Inv, TypeOK, Downstreams, Upstreams
<1>8. SearchesLive'
    BY <1>1, <1>2, <1>3, <1>5 DEF Inv, SearchesLive, Searching, Pending
<1> QED
    BY <1>7, <1>8 DEF Inv

LEMMA LapseInv ==
    ASSUME Inv, NEW k \in Keys, NEW f \in Faces, Lapse(k, f)
    PROVE  Inv'
<1>p. PipelineType
    BY DEF Inv, TypeOK
<1>1. /\ UNCHANGED <<plainIn, plainOut, held>>
      /\ UNCHANGED <<up, learned>>
      /\ UNCHANGED <<jobs, found>>
    BY DEF Lapse, RecordLapses
<1>2. PICK e \in Entry : /\ pit' = [pit EXCEPT ![k] = e]
                         /\ Downstreams(e) = Downstreams(pit[k])
                         /\ Upstreams(e) = Upstreams(pit[k])
                         /\ k \in Pending
    <2>1. CASE held[k] /\ Waiting(EntryOf(k)) = {f}
        <3> DEFINE e == [pit[k] EXCEPT !.in[f] = "late"]
        <3>1. k \in Pending /\ pit' = [pit EXCEPT ![k] = e]
            <4>1. held[k] => k \in Pending
                BY DEF Inv, SearchesLive
            <4>2. pit' = [pit EXCEPT ![k].in[f] = "late"]
                BY <2>1 DEF Lapse
            <4> QED
                BY <2>1, <4>1, <4>2
        <3>2. pit[k] \in Entry /\ pit[k].in[f] = "live"
            <4>1. pit[k] \in Entry /\ EntryOf(k) = pit[k]
                BY <1>p, <3>1, PendingType
            <4> QED
                BY <2>1, <4>1 DEF Waiting
        <3>3. e \in Entry /\ Downstreams(e) = Downstreams(pit[k]) /\ Upstreams(e) = Upstreams(pit[k])
            BY <3>2 DEF Entry, Downstreams, Upstreams, NoRecord
        <3> QED
            BY <3>1, <3>3
    <2>2. CASE RecordLapses(k, f)
        BY <1>p, <2>2, RecordLapsesType
    <2> QED
        BY <2>1, <2>2 DEF Lapse
<1>3. EntryOf(k) = pit[k]
    BY <1>p, <1>2, PendingType
<1>4. /\ plainIn' = [plainIn EXCEPT ![k] = plainIn[k]]
      /\ plainOut' = [plainOut EXCEPT ![k] = plainOut[k]]
      /\ held' = [held EXCEPT ![k] = held[k]]
      /\ plainIn[k] \in SUBSET Downstreams(e)
      /\ plainOut[k] \in SUBSET Upstreams(e)
      /\ held[k] \in BOOLEAN
    BY <1>1, <1>2, <1>3 DEF Inv, TypeOK
<1>5. QueuesKept({k})
    BY <1>1, QueuesStay
<1> QED
    BY <1>1, <1>2, <1>4, <1>5, EntryWritten

LEMMA RemoveFaceInv ==
    ASSUME Inv, NEW f \in Faces, RemoveFace(f)
    PROVE  Inv'
<1>p. /\ PipelineType
      /\ plainIn \in [Keys -> SUBSET Faces]
      /\ plainOut \in [Keys -> SUBSET Faces]
      /\ learned \subseteq up
    BY DEF Inv, TypeOK
<1>1. /\ plainIn' = [k \in Keys |-> plainIn[k] \ {f}]
      /\ plainOut' = [k \in Keys |-> plainOut[k] \ {f}]
      /\ learned' = learned \ {f}
      /\ UNCHANGED <<held, jobs, found>>
      /\ FaceGoes(f)
    BY DEF RemoveFace
<1>2. /\ PipelineType'
      /\ up' = up \ {f}
      /\ \A k \in Keys :
            /\ pit[k] = NoEntry => pit'[k] = NoEntry
            /\ pit[k] # NoEntry => /\ pit'[k] # NoEntry
                                   /\ Downstreams(pit'[k]) = Downstreams(pit[k]) \ {f}
    BY <1>p, <1>1, FaceGoesType
<1>3. ASSUME NEW k \in Keys, pit[k] # NoEntry
      PROVE  Upstreams(pit'[k]) = Upstreams(pit[k]) \ {f}
    <2>1. pit[k] \in Entry
        BY <1>p, <1>3 DEF PipelineType
    <2>2. pit'[k] = [pit[k] EXCEPT !.in[f] = NoRecord, !.out[f] = NoRecord]
        BY <1>1, <1>3 DEF FaceGoes
    <2> QED
        BY <2>1, <2>2 DEF Entry, Upstreams, NoRecord
<1>4. ASSUME NEW k \in Keys
      PROVE  /\ plainIn'[k] \subseteq Downstreams(EntryOf(k)')
             /\ plainOut'[k] \subseteq Upstreams(EntryOf(k)')
    <2>1. /\ plainIn[k] \subseteq Downstreams(EntryOf(k))
          /\ plainOut[k] \subseteq Upstreams(EntryOf(k))
        BY DEF Inv, TypeOK
    <2>2. CASE pit[k] = NoEntry
        <3>1. EntryOf(k) = NewEntry /\ EntryOf(k)' = NewEntry
            BY <1>2, <2>2 DEF EntryOf
        <3> QED
            BY <1>1, <2>1, <3>1
    <2>3. CASE pit[k] # NoEntry
        <3>1. EntryOf(k) = pit[k] /\ EntryOf(k)' = pit'[k]
            BY <1>2, <2>3 DEF EntryOf
        <3> QED
            BY <1>1, <1>2, <1>3, <2>1, <2>3, <3>1
    <2> QED
        BY <2>2, <2>3
<1>5. TypeOK'
    BY <1>p, <1>1, <1>2, <1>4 DEF Inv, TypeOK
<1>6. SearchesLive'
    BY <1>1, <1>2 DEF Inv, SearchesLive, Searching, Pending
<1> QED
    BY <1>5, <1>6 DEF Inv

LEMMA NextInv == Inv /\ [Next]_vars => Inv'
<1> SUFFICES ASSUME Inv, [Next]_vars
             PROVE  Inv'
    OBVIOUS
<1>1. ASSUME NEW f \in Faces, RouteEnds(f)
      PROVE  Inv'
    BY <1>1, EntriesKept, QueuesStay DEF RouteEnds, Inv, TypeOK
<1>2. CASE FindAnnouncement \/ ChangeRoute
    BY <1>2, EntriesKept, QueueServed DEF FindAnnouncement, ChangeRoute
<1>3. CASE UNCHANGED vars
    BY <1>3, EntriesKept, QueuesStay DEF vars, Inv, TypeOK
<1> QED
    BY <1>1, <1>2, <1>3, ReceiveInterestInv, ReceiveDataInv, ReceiveNackInv, SendAnnouncedInv,
       HoldEndsInv, FinalizeInv, LapseInv, RemoveFaceInv DEF Next

LEMMA SpecInv == Spec => []Inv
BY InitInv, NextInv, PTL DEF Spec

(***************************************************************************)
(* The theorems.                                                           *)
(***************************************************************************)
\* What is known of records, routes and queues stays well formed for any faces, names and
\* bound: no record that is gone keeps its mark, no route outlives its face, and a job of
\* either thread's queue finds its entry there or finds it gone
\* (self-learning-strategy.cpp:62-262).
THEOREM SelfLearningTyped == Spec => []TypeOK
<1>1. Inv => TypeOK
    BY DEF Inv
<1> QED
    BY <1>1, SpecInv, PTL

(***************************************************************************)
(* Learned routes and the jobs that are to change them, for any queue.     *)
(***************************************************************************)
IsRouteJob(job, f) == job.op \in {"announce", "withdraw"} /\ job.face = f

Queued(q, f) == {n \in DOMAIN q : IsRouteJob(q[n], f)}

ToLearn(q, f, L) ==
    \/ Queued(q, f) = {} /\ f \in L
    \/ \E n \in Queued(q, f) : /\ q[n].op = "announce"
                               /\ \A m \in Queued(q, f) : m <= n

LEMMA SoonMember ==
    ASSUME NEW f
    PROVE  /\ f \in SoonLearned <=> f \in up /\ ToLearn(jobs, f, learned)
           /\ f \in SoonLearned' <=> f \in up' /\ ToLearn(jobs', f, learned')
BY DEF SoonLearned, RouteJobs, ToLearn, Queued, IsRouteJob

\* The last job that concerns a face decides.
LEMMA AppendRoute ==
    ASSUME NEW q \in Seq(Job), NEW job \in Job, NEW f, NEW L
    PROVE  /\ ~IsRouteJob(job, f) => (ToLearn(Append(q, job), f, L) <=> ToLearn(q, f, L))
           /\ IsRouteJob(job, f) => (ToLearn(Append(q, job), f, L) <=> job.op = "announce")
<1>1. /\ Append(q, job) \in Seq(Job)
      /\ Len(Append(q, job)) = Len(q) + 1
      /\ \A n \in 1..Len(q) : Append(q, job)[n] = q[n]
      /\ Append(q, job)[Len(q) + 1] = job
      /\ Len(q) \in Nat
    OBVIOUS
<1>2. DOMAIN q = 1..Len(q) /\ DOMAIN Append(q, job) = 1..(Len(q) + 1)
    BY <1>1
<1>3. \A n \in 1..(Len(q) + 1) : n \in 1..Len(q) \/ n = Len(q) + 1
    BY <1>1
<1>4. \A n \in 1..Len(q) : n \in 1..(Len(q) + 1) /\ n <= Len(q) + 1 /\ ~(Len(q) + 1 <= n)
    BY <1>1
<1>5. Len(q) + 1 \in 1..(Len(q) + 1) /\ Len(q) + 1 <= Len(q) + 1
    BY <1>1
<1>6. Queued(q, f) \subseteq 1..Len(q)
    BY <1>2 DEF Queued
<1>7. CASE ~IsRouteJob(job, f)
    <2>1. Queued(Append(q, job), f) = Queued(q, f)
        BY <1>1, <1>2, <1>3, <1>4, <1>7 DEF Queued
    <2>2. \A n \in Queued(q, f) : Append(q, job)[n].op = q[n].op
        BY <1>1, <1>6
    <2> QED
        BY <1>7, <2>1, <2>2 DEF ToLearn
<1>8. CASE IsRouteJob(job, f)
    <2>1. Queued(Append(q, job), f) = Queued(q, f) \cup {Len(q) + 1}
        BY <1>1, <1>2, <1>3, <1>4, <1>5, <1>8 DEF Queued
    <2>2. \A m \in Queued(Append(q, job), f) : m <= Len(q) + 1
        BY <1>4, <1>5, <1>6, <2>1
    <2>3. \A n \in Queued(Append(q, job), f) :
             (\A m \in Queued(Append(q, job), f) : m <= n) => n = Len(q) + 1
        BY <1>4, <1>6, <2>1
    <2> QED
        BY <1>1, <1>8, <2>1, <2>2, <2>3 DEF ToLearn
<1> QED
    BY <1>7, <1>8

\* A job that is carried out leaves the routes to come as they were.
LEMMA ServeRoute ==
    ASSUME NEW q \in Seq(Job), q # <<>>, NEW f, NEW L, NEW L2,
           ~IsRouteJob(Head(q), f) => (f \in L2 <=> f \in L),
           IsRouteJob(Head(q), f) => (f \in L2 <=> Head(q).op = "announce")
    PROVE  ToLearn(Tail(q), f, L2) <=> ToLearn(q, f, L)
<1>1. /\ Head(q) = q[1]
      /\ Tail(q) \in Seq(Job)
      /\ Len(q) \in Nat \ {0}
      /\ Len(Tail(q)) = Len(q) - 1
      /\ \A n \in 1..(Len(q) - 1) : Tail(q)[n] = q[n + 1]
    OBVIOUS
<1>2. DOMAIN q = 1..Len(q) /\ DOMAIN Tail(q) = 1..(Len(q) - 1)
    BY <1>1
<1>3. /\ \A n \in 1..(Len(q) - 1) : n + 1 \in 1..Len(q) /\ n + 1 > 1 /\ n \in Nat
      /\ \A n \in 1..Len(q) : n \in Nat /\ (n = 1 \/ n - 1 \in 1..(Len(q) - 1))
      /\ 1 \in 1..Len(q)
    BY <1>1
<1>4. \A n \in Queued(Tail(q), f) : n + 1 \in Queued(q, f) /\ Tail(q)[n] = q[n + 1] /\ n \in Nat
    BY <1>1, <1>2, <1>3 DEF Queued
<1>5. \A n \in Queued(q, f) : n \in Nat /\ (n = 1 \/ n - 1 \in Queued(Tail(q), f))
    <2> SUFFICES ASSUME NEW n \in Queued(q, f), n # 1
                 PROVE  n - 1 \in Queued(Tail(q), f)
        BY <1>2, <1>3 DEF Queued
    <2>1. n \in 1..Len(q) /\ n - 1 \in 1..(Len(q) - 1) /\ (n - 1) + 1 = n
        BY <1>2, <1>3 DEF Queued
    <2>2. Tail(q)[n - 1] = q[n]
        BY <1>1, <2>1
    <2> QED
        BY <1>2, <2>1, <2>2 DEF Queued
<1>6. 1 \in Queued(q, f) <=> IsRouteJob(Head(q), f)
    BY <1>1, <1>2, <1>3 DEF Queued
<1>7. CASE Queued(Tail(q), f) = {}
    <2>1. Queued(q, f) = {} \/ Queued(q, f) = {1}
        BY <1>5, <1>7
    <2>2. CASE Queued(q, f) = {}
        BY <1>6, <1>7, <2>2 DEF ToLearn
    <2>3. CASE Queued(q, f) = {1}
        BY <1>1, <1>6, <1>7, <2>3 DEF ToLearn
    <2> QED
        BY <2>1, <2>2, <2>3
<1>8. CASE Queued(Tail(q), f) # {}
    <2>1. Queued(q, f) # {}
        BY <1>4, <1>8
    <2>2. ASSUME NEW n \in Queued(Tail(q), f), Tail(q)[n].op = "announce",
                 \A m \in Queued(Tail(q), f) : m <= n
          PROVE  ToLearn(q, f, L)
        <3>1. n + 1 \in Queued(q, f) /\ q[n + 1].op = "announce" /\ n \in Nat
            BY <1>4, <2>2
        <3>2. ASSUME NEW m \in Queued(q, f)
              PROVE  m <= n + 1
            <4>1. CASE m = 1
                BY <3>1, <4>1
            <4>2. CASE m - 1 \in Queued(Tail(q), f)
                BY <1>5, <2>2, <3>1, <4>2
            <4> QED
                BY <1>5, <4>1, <4>2
        <3> QED
            BY <3>1, <3>2 DEF ToLearn
    <2>3. ASSUME NEW n \in Queued(q, f), q[n].op = "announce",
                 \A m \in Queued(q, f) : m <= n
          PROVE  ToLearn(Tail(q), f, L2)
        <3>1. PICK m \in Queued(Tail(q), f) : TRUE
            BY <1>8
        <3>2. m \in Nat /\ m + 1 <= n /\ m \in 1..(Len(q) - 1)
            BY <1>2, <1>4, <2>3 DEF Queued
        <3>3. n \in Nat /\ n # 1
            BY <1>3, <1>5, <3>2
        <3>4. n - 1 \in Queued(Tail(q), f)
            BY <1>5, <3>3
        <3>5. Tail(q)[n - 1].op = "announce"
            <4>1. PICK i \in Queued(Tail(q), f) : i = n - 1
                BY <3>4
            <4>2. i + 1 = n
                BY <3>3, <4>1
            <4>3. Tail(q)[i] = q[i + 1]
                BY <1>4
            <4>4. Tail(q)[i] = q[n]
                BY <4>2, <4>3
            <4> QED
                BY <2>3, <4>1, <4>4
        <3>6. ASSUME NEW j \in Queued(Tail(q), f)
              PROVE  j <= n - 1
            BY <1>4, <2>3, <3>3
        <3> QED
            BY <3>4, <3>5, <3>6 DEF ToLearn
    <2> QED
        BY <1>8, <2>1, <2>2, <2>3 DEF ToLearn
<1> QED
    BY <1>7, <1>8

LEMMA OrphanedRoutes ==
    ASSUME NEW q \in Seq(Job), NEW k, NEW f, NEW L
    PROVE  ToLearn(Orphaned(q, k), f, L) <=> ToLearn(q, f, L)
<1>1. DOMAIN Orphaned(q, k) = DOMAIN q
    BY DEF Orphaned
<1>2. ASSUME NEW n \in DOMAIN q
      PROVE  /\ IsRouteJob(Orphaned(q, k)[n], f) <=> IsRouteJob(q[n], f)
             /\ IsRouteJob(q[n], f) => Orphaned(q, k)[n] = q[n]
    BY DEF Orphaned, Orphan, IsRouteJob
<1>3. Queued(Orphaned(q, k), f) = Queued(q, f)
    BY <1>1, <1>2 DEF Queued
<1>4. \A n \in Queued(q, f) : Orphaned(q, k)[n] = q[n]
    BY <1>2 DEF Queued
<1> QED
    BY <1>3, <1>4 DEF ToLearn

(***************************************************************************)
(* What a step makes of the routes to come.                                *)
(***************************************************************************)
RoutesStep ==
    /\ \A f \in SoonLearned' \ SoonLearned :
          \E k \in Keys : ReceiveDiscoveryData(f, k, TRUE)
    /\ \A f \in SoonLearned \ SoonLearned' :
          \/ f \notin up'
          \/ RouteEnds(f)
          \/ \E k \in Keys : ReceiveNack(f, k, TRUE)

LEMMA SameRoutes ==
    ASSUME up' = up,
           \A f \in up : ToLearn(jobs', f, learned') <=> ToLearn(jobs, f, learned)
    PROVE  RoutesStep
<1>1. SoonLearned' = SoonLearned
    BY SoonMember
<1> QED
    BY <1>1 DEF RoutesStep

LEMMA OtherJob ==
    ASSUME Inv, NEW job \in Job, Queue(job), UNCHANGED <<up, learned>>,
           job.op \notin {"announce", "withdraw"}
    PROVE  RoutesStep
BY AppendRoute, SameRoutes DEF Queue, IsRouteJob, Inv, TypeOK

LEMMA NextRoutes == Inv /\ [Next]_<<up, learned, jobs>> => RoutesStep
<1> SUFFICES ASSUME Inv, [Next]_<<up, learned, jobs>>
             PROVE  RoutesStep
    OBVIOUS
<1>p. jobs \in Seq(Job) /\ learned \subseteq up
    BY DEF Inv, TypeOK
<1>s. UNCHANGED <<up, learned, jobs>> => RoutesStep
    BY SameRoutes
<1>1. ASSUME NEW f \in Faces, NEW k \in Keys, ReceiveInterest(f, k)
      PROVE  RoutesStep
    BY <1>1, <1>s DEF ReceiveInterest, BroadcastInterest, MulticastInterest, Forwarded,
                      RefuseInterest, HitInterest, InterestHits
<1>2. ASSUME NEW f \in Faces, NEW k \in Keys, NEW b \in BOOLEAN, ReceiveDiscoveryData(f, k, b)
      PROVE  RoutesStep
    <2>1. UNCHANGED <<up, learned>>
        BY <1>2 DEF ReceiveDiscoveryData, Satisfied
    <2>2. CASE b = FALSE
        BY <1>2, <1>s, <2>1, <2>2 DEF ReceiveDiscoveryData
    <2>3. CASE b = TRUE
        <3> DEFINE job == [op |-> "announce", face |-> f]
        <3>1. jobs' = Append(jobs, job) /\ ReceiveDiscoveryData(f, k, TRUE)
            BY <1>2, <2>3 DEF ReceiveDiscoveryData, Queue
        <3>2. job \in Job /\ job.op = "announce" /\ job.face = f
            BY JobParts
        <3> HIDE DEF job
        <3>3. ASSUME NEW g
              PROVE  /\ g # f => (ToLearn(jobs', g, learned) <=> ToLearn(jobs, g, learned))
                     /\ g = f => ToLearn(jobs', g, learned)
            BY <1>p, <3>1, <3>2, AppendRoute DEF IsRouteJob
        <3>4. SoonLearned' \ SoonLearned \subseteq {f} /\ SoonLearned \subseteq SoonLearned'
            BY <2>1, <3>3, SoonMember
        <3> QED
            BY <3>1, <3>4 DEF RoutesStep
    <2> QED
        BY <2>2, <2>3
<1>3. ASSUME NEW f \in Faces, NEW k \in Keys, ReceiveData(f, k)
      PROVE  RoutesStep
    <2>1. CASE SearchAnnouncement(f, k)
        <3>1. /\ UNCHANGED <<up, learned>>
              /\ Queue([op |-> "find", key |-> k, face |-> f])
            BY <2>1 DEF SearchAnnouncement, Satisfied
        <3> QED
            BY <3>1, JobParts, OtherJob
    <2>2. CASE ReceiveUnaskedData(f, k) \/ ReceivePlainData(f, k) \/ ReceiveSharedData(f, k)
        BY <1>s, <2>2 DEF ReceiveUnaskedData, ReceivePlainData, ReceiveSharedData, Satisfied
    <2> QED
        BY <1>2, <1>3, <2>1, <2>2 DEF ReceiveData
<1>4. ASSUME NEW f \in Faces, NEW k \in Keys, NEW b \in BOOLEAN, ReceiveNack(f, k, b)
      PROVE  RoutesStep
    <2>1. UNCHANGED <<up, learned>>
        BY <1>4 DEF ReceiveNack
    <2>2. CASE b = FALSE
        BY <1>4, <1>s, <2>1, <2>2 DEF ReceiveNack
    <2>3. CASE b = TRUE
        <3> DEFINE job == [op |-> "withdraw", face |-> f]
        <3>1. jobs' = Append(jobs, job) /\ ReceiveNack(f, k, TRUE)
            BY <1>4, <2>3 DEF ReceiveNack, Queue
        <3>2. job \in Job /\ job.op = "withdraw" /\ job.face = f
            BY JobParts
        <3> HIDE DEF job
        <3>3. ASSUME NEW g
              PROVE  /\ g # f => (ToLearn(jobs', g, learned) <=> ToLearn(jobs, g, learned))
                     /\ g = f => ~ToLearn(jobs', g, learned)
            BY <1>p, <3>1, <3>2, AppendRoute DEF IsRouteJob
        <3>4. SoonLearned \ SoonLearned' \subseteq {f} /\ SoonLearned' \subseteq SoonLearned
            BY <2>1, <3>3, SoonMember
        <3> QED
            BY <3>1, <3>4 DEF RoutesStep
    <2> QED
        BY <2>2, <2>3
<1>5. CASE FindAnnouncement
    <2>1. /\ jobs # <<>> /\ jobs' = Tail(jobs)
          /\ UNCHANGED <<up, learned>>
          /\ \A g : ~IsRouteJob(Head(jobs), g)
        BY <1>5 DEF FindAnnouncement, IsRouteJob
    <2>2. \A g : ToLearn(Tail(jobs), g, learned) <=> ToLearn(jobs, g, learned)
        BY <1>p, <2>1, ServeRoute
    <2> QED
        BY <2>1, <2>2, SameRoutes
<1>6. CASE ChangeRoute
    <2>1. /\ jobs # <<>> /\ jobs' = Tail(jobs)
          /\ up' = up
          /\ Head(jobs).op \in {"announce", "withdraw"}
          /\ learned' = IF Head(jobs).op = "announce"
                        THEN learned \cup ({Head(jobs).face} \cap up)
                        ELSE learned \ {Head(jobs).face}
        BY <1>6 DEF ChangeRoute
    <2>2. ASSUME NEW g \in up
          PROVE  ToLearn(jobs', g, learned') <=> ToLearn(jobs, g, learned)
        <3>1. /\ ~IsRouteJob(Head(jobs), g) => (g \in learned' <=> g \in learned)
              /\ IsRouteJob(Head(jobs), g) => (g \in learned' <=> Head(jobs).op = "announce")
            BY <2>1 DEF IsRouteJob
        <3> QED
            BY <1>p, <2>1, <3>1, ServeRoute
    <2> QED
        BY <2>1, <2>2, SameRoutes
<1>7. ASSUME NEW k \in Keys, FinalizeInterest(k)
      PROVE  RoutesStep
    <2>1. jobs' = Orphaned(jobs, k) /\ UNCHANGED <<up, learned>>
        BY <1>7 DEF FinalizeInterest, EntryEnds
    <2> QED
        BY <1>p, <2>1, OrphanedRoutes, SameRoutes
<1>8. ASSUME NEW f \in Faces, RemoveFace(f)
      PROVE  RoutesStep
    <2>1. up' = up \ {f} /\ learned' = learned \ {f} /\ jobs' = jobs
        BY <1>8 DEF RemoveFace, FaceGoes
    <2>2. \A g \in up' : ToLearn(jobs', g, learned') <=> ToLearn(jobs, g, learned)
        BY <2>1 DEF ToLearn
    <2>3. SoonLearned' \subseteq SoonLearned /\ SoonLearned \ SoonLearned' \subseteq up \ up'
        BY <2>1, <2>2, SoonMember
    <2> QED
        BY <2>3 DEF RoutesStep
<1>9. ASSUME NEW f \in Faces, RouteEnds(f)
      PROVE  RoutesStep
    <2>1. up' = up /\ learned' = learned \ {f} /\ jobs' = jobs
        BY <1>9 DEF RouteEnds
    <2>2. ASSUME NEW g
          PROVE  /\ ToLearn(jobs', g, learned') => ToLearn(jobs, g, learned)
                 /\ g # f => (ToLearn(jobs', g, learned') <=> ToLearn(jobs, g, learned))
        BY <2>1 DEF ToLearn
    <2>3. SoonLearned' \subseteq SoonLearned /\ SoonLearned \ SoonLearned' \subseteq {f}
        BY <2>1, <2>2, SoonMember
    <2> QED
        BY <1>9, <2>3 DEF RoutesStep
<1>10. ASSUME NEW k \in Keys, HoldEnds(k)
       PROVE  RoutesStep
    BY <1>10, <1>s DEF HoldEnds
<1>11. ASSUME NEW k \in Keys, NEW f \in Faces, Lapse(k, f)
       PROVE  RoutesStep
    BY <1>11, <1>s DEF Lapse, RecordLapses
<1>12. CASE SendAnnounced
    BY <1>12, <1>s DEF SendAnnounced
<1> QED
    BY <1>1, <1>3, <1>4, <1>5, <1>6, <1>7, <1>8, <1>9, <1>10, <1>11, <1>12, <1>s DEF Next

\* For any number of jobs in the RIB thread's queue, in whatever order the threads run:
\* a route that they together have is one that Data with an announcement brought in
\* answer to a discovery Interest, and no Nack for want of a route came after, nor has it
\* ended or its face gone (self-learning-strategy.cpp:86-141, 236-262).
THEOREM RoutesFollowed == Spec => RoutesFollowPackets
<1>1. [Next]_vars => [Next]_<<up, learned, jobs>>
    BY DEF vars
<1>2. Inv /\ [Next]_vars => [RoutesStep]_<<up, learned, jobs>>
    BY <1>1, NextRoutes
<1>3. RoutesFollowPackets <=> [][RoutesStep]_<<up, learned, jobs>>
    BY DEF RoutesFollowPackets, RoutesStep
<1> QED
    BY <1>2, <1>3, SpecInv, PTL DEF Spec
=============================================================================
