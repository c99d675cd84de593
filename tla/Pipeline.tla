------------------------------ MODULE Pipeline ------------------------------
(***************************************************************************)
(* The forwarding pipelines of fw/forwarder.cpp as a strategy with timers  *)
(* and measurements of its own sees them: the PIT entries, without a clock.*)
(* A record is unexpired or has expired, at any time after it was renewed; *)
(* Nonces and the Content Store's contents are not kept, so that a looping *)
(* Interest, which reaches no strategy, is left out, and a cache may hold  *)
(* what is asked for or not.  Forwarder has what is left out here.         *)
(***************************************************************************)
EXTENDS FiniteSets

CONSTANTS
    Faces,
    Keys,            \* the PIT entries there may be, all under one prefix
    NoEntry,         \* the PIT has no entry with this key
    P2P,             \* the faces Nacks come in by
    AdHoc,
    Barred,          \* pairs of an ingress and an egress: wouldViolateScope
    Askers,          \* bound: the faces Interests come in by
    RemovableFaces   \* bound: the faces that may be removed

VARIABLES
    pit,   \* the Pending Interest Table
    up     \* the faces in the face table

ASSUME PipelineAssumption ==
    /\ P2P \subseteq Faces
    /\ AdHoc \subseteq Faces \ P2P
    /\ Barred \subseteq Faces \X Faces
    /\ Askers \subseteq Faces
    /\ RemovableFaces \subseteq Faces

NoRecord == "none"

\* The last in-record is "ending" at the instant it expires; until time passes, or another
\* Interest comes, that is.  A Nack on a record that expires later on no longer matters.
Entry == [in : [Faces -> {NoRecord, "live", "ending", "late"}],
          out : [Faces -> {NoRecord, "pending", "nacked", "late"}],
          due : BOOLEAN,          \* the expiry timer runs out now
          satisfied : BOOLEAN]

ASSUME NoEntryAssumption == NoEntry \notin Entry

NewEntry == [in |-> [f \in Faces |-> NoRecord],
             out |-> [f \in Faces |-> NoRecord],
             due |-> FALSE,
             satisfied |-> FALSE]

PipelineType ==
    /\ pit \in [Keys -> Entry \cup {NoEntry}]
    /\ up \subseteq Faces

PipelineInit ==
    /\ pit = [k \in Keys |-> NoEntry]
    /\ up = Faces

Pending == {k \in Keys : pit[k] # NoEntry}
EntryOf(k) == IF pit[k] = NoEntry THEN NewEntry ELSE pit[k]

(***************************************************************************)
(* What a strategy asks of an entry.                                       *)
(***************************************************************************)
Downstreams(e) == {f \in Faces : e.in[f] # NoRecord}

\* getExpiry() > now, which is asked where Data is sent, and getExpiry() >= now.
Waiting(e) == {f \in Faces : e.in[f] = "live"}
Unexpired(e) == {f \in Faces : e.in[f] \in {"live", "ending"}}

Upstreams(e) == {f \in Faces : e.out[f] # NoRecord}

HasPendingOutRecords(e) == \E f \in Faces : e.out[f] = "pending"

CanForwardToLegacy(e, face) ==
    /\ e.out[face] \notin {"pending", "nacked"}
    /\ Unexpired(e) \ {face} # {}

(***************************************************************************)
(* What the pipelines do to an entry before, for and after the strategy.   *)
(***************************************************************************)
\* onContentStoreMiss, up to the strategy.
Asked(k, f) ==
    LET e == EntryOf(k)
    IN  [e EXCEPT !.in = [g \in Faces |-> IF g = f THEN "live"
                                          ELSE IF e.in[g] = "ending" THEN "late" ELSE e.in[g]],
                  !.due = FALSE]

\* Strategy::sendInterest to each of a set of faces.
SentTo(e, faces) ==
    [e EXCEPT !.out = [f \in Faces |-> IF f \in faces THEN "pending" ELSE e.out[f]]]

\* Strategy::rejectPendingInterest.
Rejected(e) == [e EXCEPT !.due = TRUE]

\* onContentStoreHit, for an entry without downstreams.
Hit(k) == [EntryOf(k) EXCEPT !.due = TRUE, !.satisfied = TRUE]

WithoutIn(e, faces) ==
    [e EXCEPT !.in = [f \in Faces |-> IF f \in faces THEN NoRecord ELSE e.in[f]]]

\* Strategy::sendDataToAll: the faces that Data from f is sent to.
DataTargets(e, f) == {g \in Waiting(e) : g # f \/ g \in AdHoc}

\* onIncomingData for an entry that alone matches, and sends the Data to some faces.
AnsweredTo(e, f, faces) ==
    [WithoutIn(e, faces) EXCEPT !.due = TRUE, !.satisfied = TRUE, !.out[f] = NoRecord]

\* onIncomingData for an entry that matches Data from f, alone or with others.
Answered(e, f, alone) == AnsweredTo(e, f, IF alone THEN DataTargets(e, f) ELSE Faces)

\* onIncomingNack, up to the strategy.
Nacked(e, f) ==
    LET marked == [e EXCEPT !.out[f] = IF @ = "late" THEN "late" ELSE "nacked"]
    IN  IF HasPendingOutRecords(marked) THEN marked ELSE Rejected(marked)

(***************************************************************************)
(* The parts of the actions that are the same whatever the strategy.       *)
(***************************************************************************)
InterestHits(f, k) ==
    /\ f \in up \cap Askers
    /\ Downstreams(EntryOf(k)) = {}
    /\ pit' = [pit EXCEPT ![k] = Hit(k)]
    /\ UNCHANGED up

\* K are those of the entries here that match; entries elsewhere may match, too.
DataAnswers(f, K, alone) ==
    /\ f \in up
    /\ K # {}
    /\ K \subseteq Pending
    /\ alone => Cardinality(K) = 1
    /\ pit' = [k \in Keys |-> IF k \in K THEN Answered(pit[k], f, alone) ELSE pit[k]]
    /\ UNCHANGED up

NackArrives(f, k) ==
    /\ f \in up \cap P2P
    /\ k \in Pending
    /\ f \in Upstreams(pit[k])

\* onInterestFinalize: the entry's timer has run out, which it may do any time where
\* no unexpired in-record is left.
EntryEnds(k) ==
    /\ k \in Pending
    /\ pit[k].due \/ Waiting(pit[k]) = {}
    /\ pit' = [pit EXCEPT ![k] = NoEntry]
    /\ UNCHANGED up

\* Time passes only when no entry is due for removal.  The moment the last in-record
\* expires, the entry's own timer runs out, unless a face took away a longer one.
RecordLapses(k, f) ==
    /\ \A j \in Pending : ~pit[j].due
    /\ k \in Pending
    /\ \/ /\ f \in Waiting(pit[k])
          /\ Waiting(pit[k]) # {f} \/ up # Faces
          /\ pit' = [pit EXCEPT ![k].in[f] = "late"]
       \/ /\ Waiting(pit[k]) = {f}
          /\ pit' = [pit EXCEPT ![k] = [@ EXCEPT !.in[f] = "ending", !.due = TRUE]]
       \/ /\ pit[k].out[f] \in {"pending", "nacked"}
          /\ pit' = [pit EXCEPT ![k].out[f] = "late"]
    /\ UNCHANGED up

\* FaceTable::remove and cleanupOnFaceRemoval.
FaceGoes(f) ==
    /\ f \in up \cap RemovableFaces
    /\ up' = up \ {f}
    /\ pit' = [k \in Keys |->
                 IF pit[k] = NoEntry THEN NoEntry
                 ELSE [pit[k] EXCEPT !.in[f] = NoRecord, !.out[f] = NoRecord]]
=============================================================================
