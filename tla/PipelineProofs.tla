---------------------------- MODULE PipelineProofs ---------------------------
(***************************************************************************)
(* What the operators of Pipeline do to an entry and to the PIT, for the   *)
(* proofs about the strategies that are built on it.                       *)
(***************************************************************************)
EXTENDS Pipeline, TLAPS

(***************************************************************************)
(* An entry.                                                               *)
(***************************************************************************)
LEMMA EntryOfType ==
    ASSUME PipelineType, NEW k \in Keys
    PROVE  EntryOf(k) \in Entry
BY DEF PipelineType, EntryOf, NewEntry, Entry, NoRecord

LEMMA PendingType ==
    ASSUME PipelineType, NEW k \in Pending
    PROVE  /\ k \in Keys
           /\ pit[k] \in Entry
           /\ EntryOf(k) = pit[k]
BY DEF PipelineType, Pending, EntryOf

LEMMA AskedType ==
    ASSUME PipelineType, NEW k \in Keys, NEW f \in Faces
    PROVE  /\ Asked(k, f) \in Entry
           /\ f \in Waiting(Asked(k, f))
           /\ Waiting(Asked(k, f)) \subseteq Unexpired(Asked(k, f))
           /\ Downstreams(Asked(k, f)) = Downstreams(EntryOf(k)) \cup {f}
           /\ Asked(k, f).out = EntryOf(k).out
           /\ Asked(k, f).satisfied = EntryOf(k).satisfied
           /\ ~Asked(k, f).due
<1> DEFINE in == [g \in Faces |-> IF g = f THEN "live"
                                  ELSE IF EntryOf(k).in[g] = "ending" THEN "late"
                                  ELSE EntryOf(k).in[g]]
<1>1. /\ EntryOf(k) \in Entry
      /\ EntryOf(k).in \in [Faces -> {NoRecord, "live", "ending", "late"}]
    BY EntryOfType DEF Entry
<1>2. in \in [Faces -> {NoRecord, "live", "ending", "late"}]
    BY <1>1 DEF NoRecord
<1>3. Asked(k, f) = [EntryOf(k) EXCEPT !.in = in, !.due = FALSE]
    BY DEF Asked
<1>4. /\ in[f] = "live"
      /\ \A g \in Faces \ {f} : in[g] # NoRecord <=> EntryOf(k).in[g] # NoRecord
    BY <1>1 DEF NoRecord
<1> HIDE DEF in
<1>5. /\ Asked(k, f) \in Entry
      /\ Asked(k, f).in = in
      /\ Asked(k, f).out = EntryOf(k).out
      /\ Asked(k, f).satisfied = EntryOf(k).satisfied
      /\ Asked(k, f).due = FALSE
    BY <1>1, <1>2, <1>3 DEF Entry
<1> QED
    BY <1>4, <1>5 DEF Downstreams, Waiting, Unexpired, NoRecord

LEMMA SentToType ==
    ASSUME NEW e \in Entry, NEW S
    PROVE  /\ SentTo(e, S) \in Entry
           /\ SentTo(e, S).in = e.in
           /\ SentTo(e, S).due = e.due
           /\ SentTo(e, S).satisfied = e.satisfied
           /\ Upstreams(SentTo(e, S)) = Upstreams(e) \cup (S \cap Faces)
BY DEF SentTo, Entry, Upstreams, NoRecord

LEMMA RejectedType ==
    ASSUME NEW e \in Entry
    PROVE  /\ Rejected(e) \in Entry
           /\ Rejected(e).in = e.in
           /\ Rejected(e).out = e.out
           /\ Rejected(e).satisfied = e.satisfied
BY DEF Rejected, Entry

LEMMA HitType ==
    ASSUME PipelineType, NEW k \in Keys
    PROVE  Hit(k) \in Entry
BY EntryOfType DEF Hit, Entry

LEMMA WithoutInType ==
    ASSUME NEW e \in Entry, NEW S
    PROVE  WithoutIn(e, S) \in Entry
BY DEF WithoutIn, Entry, NoRecord

LEMMA AnsweredType ==
    ASSUME NEW e \in Entry, NEW f \in Faces, NEW alone \in BOOLEAN
    PROVE  /\ Answered(e, f, alone) \in Entry
           /\ Answered(e, f, alone).satisfied
<1> DEFINE S == IF alone THEN DataTargets(e, f) ELSE Faces
           Closed(w) == [w EXCEPT !.due = TRUE, !.satisfied = TRUE, !.out[f] = NoRecord]
<1>1. Answered(e, f, alone) = Closed(WithoutIn(e, S))
    BY DEF Answered, AnsweredTo
<1>2. ASSUME NEW w \in Entry
      PROVE  Closed(w) \in Entry /\ Closed(w).satisfied
    BY DEF Entry, NoRecord
<1> HIDE DEF S, Closed
<1> QED
    BY <1>1, <1>2, WithoutInType

LEMMA NackedType ==
    ASSUME NEW e \in Entry, NEW f \in Faces
    PROVE  /\ Nacked(e, f) \in Entry
           /\ Nacked(e, f).in = e.in
           /\ Nacked(e, f).satisfied = e.satisfied
           /\ Upstreams(e) \subseteq Upstreams(Nacked(e, f))
<1> DEFINE marked == [e EXCEPT !.out[f] = IF @ = "late" THEN "late" ELSE "nacked"]
<1>1. /\ marked \in Entry
      /\ marked.in = e.in
      /\ marked.satisfied = e.satisfied
      /\ Upstreams(e) \subseteq Upstreams(marked)
    BY DEF Entry, Upstreams, NoRecord
<1>2. Nacked(e, f) = marked \/ Nacked(e, f) = Rejected(marked)
    BY DEF Nacked
<1> HIDE DEF marked
<1> QED
    BY <1>1, <1>2, RejectedType DEF Upstreams

\* Whatever an Interest is sent on to, its face is now a downstream.
LEMMA AskedDownstreams ==
    ASSUME PipelineType, NEW k \in Keys, NEW f \in Faces, NEW S
    PROVE  /\ SentTo(Asked(k, f), S) \in Entry
           /\ f \in Downstreams(SentTo(Asked(k, f), S))
           /\ f \in Waiting(SentTo(Asked(k, f), S))
           /\ Unexpired(SentTo(Asked(k, f), S)) # {}
           /\ Downstreams(EntryOf(k)) \subseteq Downstreams(SentTo(Asked(k, f), S))
BY AskedType, SentToType DEF Downstreams, Waiting, Unexpired

(***************************************************************************)
(* The PIT.                                                                *)
(***************************************************************************)
LEMMA EntryChanges ==
    ASSUME PipelineType, NEW k \in Keys, NEW e \in Entry \cup {NoEntry},
           pit' = [pit EXCEPT ![k] = e],
           up' = up
    PROVE  PipelineType'
BY DEF PipelineType

LEMMA DataAnswersType ==
    ASSUME PipelineType, NEW f \in Faces, NEW K, NEW alone \in BOOLEAN,
           DataAnswers(f, K, alone)
    PROVE  /\ PipelineType'
           /\ \A k \in Keys \ K : pit'[k] = pit[k]
           /\ \A k \in K : pit'[k] \in Entry /\ pit'[k].satisfied
<1>1. /\ K \subseteq Pending
      /\ pit' = [k \in Keys |-> IF k \in K THEN Answered(pit[k], f, alone) ELSE pit[k]]
      /\ up' = up
    BY DEF DataAnswers
<1>2. \A k \in K : /\ k \in Keys
                   /\ Answered(pit[k], f, alone) \in Entry
                   /\ Answered(pit[k], f, alone).satisfied
    BY <1>1, PendingType, AnsweredType
<1> QED
    BY <1>1, <1>2 DEF PipelineType

\* What ages of an entry: an in-record, its own timer or an out-record.
LEMMA RecordLapsesType ==
    ASSUME PipelineType, NEW k \in Keys, NEW f \in Faces, RecordLapses(k, f)
    PROVE  /\ PipelineType'
           /\ k \in Pending
           /\ up' = up
           /\ \E e \in Entry :
                 /\ pit' = [pit EXCEPT ![k] = e]
                 /\ Downstreams(e) = Downstreams(pit[k])
                 /\ Upstreams(e) = Upstreams(pit[k])
                 /\ e.satisfied = pit[k].satisfied
                 /\ up = Faces /\ Unexpired(pit[k]) # {} => Unexpired(e) # {}
<1>1. /\ k \in Pending
      /\ pit[k] \in Entry
      /\ up' = up
    BY PendingType DEF RecordLapses
<1>2. PICK e : /\ pit' = [pit EXCEPT ![k] = e]
               /\ \/ /\ f \in Waiting(pit[k])
                     /\ Waiting(pit[k]) # {f} \/ up # Faces
                     /\ e = [pit[k] EXCEPT !.in[f] = "late"]
                  \/ /\ f \in Waiting(pit[k])
                     /\ e = [pit[k] EXCEPT !.in[f] = "ending", !.due = TRUE]
                  \/ /\ pit[k].out[f] \in {"pending", "nacked"}
                     /\ e = [pit[k] EXCEPT !.out[f] = "late"]
    BY DEF RecordLapses
<1>3. /\ e \in Entry
      /\ Downstreams(e) = Downstreams(pit[k])
      /\ Upstreams(e) = Upstreams(pit[k])
      /\ e.satisfied = pit[k].satisfied
      /\ up = Faces /\ Unexpired(pit[k]) # {} => Unexpired(e) # {}
    <2>1. CASE /\ f \in Waiting(pit[k])
               /\ Waiting(pit[k]) # {f} \/ up # Faces
               /\ e = [pit[k] EXCEPT !.in[f] = "late"]
        <3>1. /\ e \in Entry
              /\ Downstreams(e) = Downstreams(pit[k])
              /\ Upstreams(e) = Upstreams(pit[k])
              /\ e.satisfied = pit[k].satisfied
            BY <1>1, <2>1 DEF Entry, Downstreams, Upstreams, Waiting, NoRecord
        <3>2. Waiting(pit[k]) \ {f} \subseteq Unexpired(e)
            BY <1>1, <2>1 DEF Entry, Waiting, Unexpired
        <3> QED
            BY <2>1, <3>1, <3>2
    <2>2. CASE f \in Waiting(pit[k]) /\ e = [pit[k] EXCEPT !.in[f] = "ending", !.due = TRUE]
        <3>1. pit[k].in[f] = "live"
            BY <2>2 DEF Waiting
        <3> QED
            BY <1>1, <2>2, <3>1 DEF Entry, Downstreams, Upstreams, Unexpired, NoRecord
    <2>3. CASE pit[k].out[f] \in {"pending", "nacked"} /\ e = [pit[k] EXCEPT !.out[f] = "late"]
        BY <1>1, <2>3 DEF Entry, Downstreams, Upstreams, Unexpired, NoRecord
    <2> QED
        BY <1>2, <2>1, <2>2, <2>3
<1> QED
    BY <1>1, <1>2, <1>3, EntryChanges

LEMMA FaceGoesType ==
    ASSUME PipelineType, NEW f \in Faces, FaceGoes(f)
    PROVE  /\ PipelineType'
           /\ up' = up \ {f}
           /\ f \in up
           /\ \A k \in Keys :
                 /\ pit[k] = NoEntry => pit'[k] = NoEntry
                 /\ pit[k] # NoEntry => /\ pit'[k] # NoEntry
                                        /\ Downstreams(pit'[k]) = Downstreams(pit[k]) \ {f}
<1>1. /\ f \in up
      /\ up' = up \ {f}
      /\ pit' = [k \in Keys |->
                   IF pit[k] = NoEntry THEN NoEntry
                   ELSE [pit[k] EXCEPT !.in[f] = NoRecord, !.out[f] = NoRecord]]
    BY DEF FaceGoes
<1>2. ASSUME NEW e \in Entry
      PROVE  /\ [e EXCEPT !.in[f] = NoRecord, !.out[f] = NoRecord] \in Entry
             /\ Downstreams([e EXCEPT !.in[f] = NoRecord, !.out[f] = NoRecord])
                    = Downstreams(e) \ {f}
    BY DEF Entry, Downstreams, NoRecord
<1>3. ASSUME NEW k \in Keys
      PROVE  /\ pit'[k] \in Entry \cup {NoEntry}
             /\ pit[k] = NoEntry => pit'[k] = NoEntry
             /\ pit[k] # NoEntry => /\ pit'[k] # NoEntry
                                    /\ Downstreams(pit'[k]) = Downstreams(pit[k]) \ {f}
    <2>1. CASE pit[k] = NoEntry
        BY <1>1, <2>1
    <2>2. CASE pit[k] # NoEntry
        <3>1. pit[k] \in Entry
            BY <2>2 DEF PipelineType
        <3>2. pit'[k] = [pit[k] EXCEPT !.in[f] = NoRecord, !.out[f] = NoRecord]
            BY <1>1, <2>2
        <3> QED
            BY <1>2, <2>2, <3>1, <3>2, NoEntryAssumption
    <2> QED
        BY <2>1, <2>2
<1> QED
    BY <1>1, <1>3 DEF PipelineType
=============================================================================
