------------------------------ MODULE PitEntry ------------------------------
(***************************************************************************)
(* One entry of the Pending Interest Table: its in-records, out-records    *)
(* and expiry timer, and the questions fw/algorithm.cpp asks of it.        *)
(*                                                                         *)
(* Time is relative.  "left" is a record's expiry minus now, counted in    *)
(* ticks and saturated at Expired, so that                                 *)
(*     getExpiry() > now   is  left > 0     and                            *)
(*     getExpiry() >= now  is  left >= 0.                                  *)
(* "age" is now minus getLastRenewed(), saturated at MaxAge, and "timer"   *)
(* is what the entry's expiry timer still has to run.                      *)
(***************************************************************************)
EXTENDS Ndn

CONSTANTS
    NoRecord,          \* the face has no record in the entry
    MaxAge,            \* where ages saturate
    RetxInitial,       \* initial suppression interval
    RetxMax,           \* largest suppression interval
    ResendClearsNack   \* whether renewing an out-record forgets its Nack

ASSUME TimeAssumption ==
    /\ MaxAge \in Nat
    /\ RetxInitial \in Nat \ {0}
    /\ RetxMax \in Nat
    /\ RetxInitial <= RetxMax
    /\ RetxMax <= MaxAge
    /\ \A life \in Lifetimes : life <= MaxAge

ASSUME RecordAssumption == ResendClearsNack \in BOOLEAN

Expired == -1
Left == Expired .. MaxAge
NotNacked == "none"

InRecord == [nonce : Nonces, left : Left]

OutRecord == [nonce : Nonces, left : Left, age : 0 .. MaxAge,
              nack : Reasons \cup {NotNacked}, interval : 1 .. RetxMax]

ASSUME NoRecordAssumption == NoRecord \notin InRecord \cup OutRecord \cup Nat

\* "short" is dataFreshnessPeriod < DeadNonceList::getLifetime().
Entry == [in : [Faces -> InRecord \cup {NoRecord}],
          out : [Faces -> OutRecord \cup {NoRecord}],
          timer : 0 .. MaxAge,
          satisfied : BOOLEAN,
          short : BOOLEAN,
          interval : 1 .. RetxMax]

NewEntry == [in |-> [f \in Faces |-> NoRecord],
             out |-> [f \in Faces |-> NoRecord],
             timer |-> 0,
             satisfied |-> FALSE,
             short |-> TRUE,
             interval |-> RetxInitial]

Downstreams(e) == {f \in Faces : e.in[f] # NoRecord}
Upstreams(e) == {f \in Faces : e.out[f] # NoRecord}

(***************************************************************************)
(* fw/algorithm.cpp.                                                       *)
(***************************************************************************)
\* Mutant: of the two scopes only the link-local one is kept.
ViolatesLocalhop(inFace, key, outFace) ==
    outFace \notin Local /\ IsLocalhop(key.name) /\ inFace \notin Local

\* wouldViolateScope.
ViolatesScope(inFace, key, outFace) ==
    /\ outFace \notin Local
    /\ \/ IsLocalhost(key.name)
       \/ IsLocalhop(key.name) /\ inFace \notin Local

CanForwardToLegacy(e, face) ==
    /\ ~(face \in Upstreams(e) /\ e.out[face].left >= 0)
    /\ \E f \in Downstreams(e) \ {face} : e.in[f].left >= 0

\* Mutant: only the in-records are searched.
DuplicateInRecordNonce(e, nonce, face) ==
    \E f \in Downstreams(e) \ {face} : e.in[f].nonce = nonce

\* Mutant: whatever a point-to-point downstream sends is a retransmission.
DuplicateUnlessDownstream(e, nonce, face) ==
    /\ \/ \E f \in Downstreams(e) : e.in[f].nonce = nonce
       \/ \E f \in Upstreams(e) : e.out[f].nonce = nonce
    /\ ~(face \in P2P /\ face \in Downstreams(e))

\* findDuplicateNonce and its use in the incoming Interest pipeline: on a
\* point-to-point face, the Nonce coming again from the face it came from is a
\* retransmission, whatever else holds that Nonce.
DuplicateNonce(e, nonce, face) ==
    /\ \/ \E f \in Downstreams(e) : e.in[f].nonce = nonce
       \/ \E f \in Upstreams(e) : e.out[f].nonce = nonce
    /\ ~(face \in P2P /\ face \in Downstreams(e) /\ e.in[face].nonce = nonce)

HasPendingOutRecords(e) ==
    \E f \in Upstreams(e) : e.out[f].left >= 0 /\ e.out[f].nack = NotNacked

\* isNextHopEligible with wantUnused = false.
IsEligible(inFace, key, outFace) ==
    /\ outFace # inFace \/ outFace \in AdHoc
    /\ ~ViolatesScope(inFace, key, outFace)

\* What wantUnused = true adds to it.
IsUnused(e, outFace) == ~(outFace \in Upstreams(e) /\ e.out[outFace].left > 0)

(***************************************************************************)
(* Changes of an entry.                                                    *)
(***************************************************************************)
WithInRecord(e, face, nonce, life) ==
    [e EXCEPT !.in[face] = [nonce |-> nonce, left |-> life]]

\* insertOrUpdateOutRecord.  A renewed record keeps its suppression interval; the
\* tables' source, which says whether it keeps the Nack, is not in the repository.
Renewed(record, nonce, life) ==
    [nonce |-> nonce, left |-> life, age |-> 0,
     nack |-> IF record = NoRecord \/ ResendClearsNack THEN NotNacked ELSE record.nack,
     interval |-> IF record = NoRecord THEN RetxInitial ELSE record.interval]

WithOutRecord(e, face, nonce, life) ==
    [e EXCEPT !.out[face] = Renewed(e.out[face], nonce, life)]

WithoutIn(e, faces) ==
    [e EXCEPT !.in = [f \in Faces |-> IF f \in faces THEN NoRecord ELSE e.in[f]]]

WithoutOut(e, faces) ==
    [e EXCEPT !.out = [f \in Faces |-> IF f \in faces THEN NoRecord ELSE e.out[f]]]

\* Mutant: the in-record that expires first.
FirstExpiry(e) ==
    {t \in {e.in[f].left : f \in Downstreams(e)} :
        \A f \in Downstreams(e) : e.in[f].left >= t}

\* The time left to the in-record that expires last: one value, in a set.
LastExpiry(e) ==
    {t \in {e.in[f].left : f \in Downstreams(e)} :
        \A f \in Downstreams(e) : e.in[f].left <= t}

Satisfied(e, data) == [e EXCEPT !.satisfied = TRUE, !.short = data.freshness # "long"]

(***************************************************************************)
(* One tick of the clock.                                                  *)
(***************************************************************************)
Countdown(left) == IF left > Expired THEN left - 1 ELSE Expired

Older(age) == IF age < MaxAge THEN age + 1 ELSE MaxAge

\* Mutant: the expiry timer stands still.
AgedRecords(e) ==
    [e EXCEPT !.in = [f \in Faces |->
        IF e.in[f] = NoRecord THEN NoRecord
        ELSE [e.in[f] EXCEPT !.left = Countdown(@)]]]

Aged(e) ==
    [e EXCEPT
        !.in = [f \in Faces |->
            IF e.in[f] = NoRecord THEN NoRecord
            ELSE [e.in[f] EXCEPT !.left = Countdown(@)]],
        !.out = [f \in Faces |->
            IF e.out[f] = NoRecord THEN NoRecord
            ELSE [e.out[f] EXCEPT !.left = Countdown(@), !.age = Older(@)]],
        !.timer = @ - 1]
=============================================================================
