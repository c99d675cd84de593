----------------------------- MODULE PconStrategy -----------------------------
(***************************************************************************)
(* The PCON strategy (fw/pcon-strategy.cpp, fw/pcon-measurements.cpp) for  *)
(* the names under one prefix: it shares the Interests out over the next   *)
(* hops, and moves a part of a face's share to the others when Data comes  *)
(* back marked as congested.                                               *)
(*                                                                         *)
(* Of the PIT the strategy asks whether a face has an out-record in an     *)
(* entry, and that is what is kept of it.  Timers run out at any time after*)
(* they are set, except that measurements, which last 300 s, outlast the   *)
(* RTO (1 s, as no sample is ever taken) and the end of congestion         *)
(* (110 ms).                                                               *)
(*                                                                         *)
(* A scheduled event is identified by its EventId, and a copy of an        *)
(* EventId stands for the same event.  The destructor of FaceInfo cancels  *)
(* the three events whose ids it holds: a copy of a FaceInfo that dies     *)
(* cancels the events of the original, whose fields do not show it.        *)
(***************************************************************************)
EXTENDS Integers, Sequences, FiniteSetsExt

CONSTANTS
    Faces,
    Fib,             \* the prefix's next hops, by cost
    Keys,            \* the Interests' names, none a prefix of another
    NoInfo,          \* the namespace has no FaceInfo for the face
    NoName,          \* the name that m_lastInterestName starts with
    NoTimer,         \* the event is not scheduled
    TaggedHops,      \* values of the HopCountCongestionTag of marked Data
    StackHops,       \* what an uninitialised int may hold
    Whole,           \* units of a share of 1.0
    ChangeNum,       \* CHANGE_PERC is ChangeNum / ChangeDen
    ChangeDen,
    RemovableFaces,  \* bound: the faces that may be removed
    MaxCount,        \* bound on the counts of pending Interests
    MaxFaceNumber,   \* bound on the count of faces
    MaxShare         \* bound on a face's share, which congestion that ends makes grow

VARIABLES
    pit,         \* the names that have an entry in the PIT
    out,         \* out[k]: the faces with an out-record in the entry of k
    info,        \* m_fit: what is known of each face
    rto,         \* the name onTimeout is bound to, per face
    calm,        \* the lastInterestName of the copy endOfCongestion is bound to
    lasting,     \* the faces whose FaceInfo has an expiration event
    global,      \* global_PI_numbers of the prefix
    faceNumber,  \* face_numbers of the prefix
    up           \* the faces in the face table

vars == <<pit, out, info, rto, calm, lasting, global, faceNumber, up>>

ASSUME ShareAssumption ==
    /\ Whole \in Nat \ {0}
    /\ ChangeNum \in Nat
    /\ ChangeDen \in Nat \ {0}
    /\ ChangeNum <= ChangeDen
    /\ TaggedHops \subseteq Int
    /\ StackHops \subseteq Int

ASSUME NameAssumption ==
    /\ IsFiniteSet(Faces)
    /\ Fib \in Seq(Faces)
    /\ NoName \notin Keys
    /\ NoTimer \notin Keys \cup {NoName}
    /\ RemovableFaces \subseteq Faces

FaceInfo == [pi : Int, share : Int, congested : BOOLEAN,
             scheduled : BOOLEAN, last : Keys \cup {NoName}]

ASSUME InfoAssumption == NoInfo \notin FaceInfo

TypeOK ==
    /\ pit \subseteq Keys
    /\ out \in [Keys -> SUBSET Faces]
    /\ info \in [Faces -> FaceInfo \cup {NoInfo}]
    /\ rto \in [Faces -> Keys \cup {NoTimer}]
    /\ calm \in [Faces -> Keys \cup {NoName, NoTimer}]
    /\ lasting \subseteq Faces
    /\ global \in Int
    /\ faceNumber \in Nat
    /\ up \subseteq Faces

Init ==
    /\ pit = {}
    /\ out = [k \in Keys |-> {}]
    /\ info = [f \in Faces |-> NoInfo]
    /\ rto = [f \in Faces |-> NoTimer]
    /\ calm = [f \in Faces |-> NoTimer]
    /\ lasting = {}
    /\ global = 0
    /\ faceNumber = 0
    /\ up = Faces

NewInfo == [pi |-> 0, share |-> 0, congested |-> FALSE, scheduled |-> FALSE, last |-> NoName]

Known == {f \in Faces : info[f] # NoInfo}
InfoOf(f) == IF info[f] = NoInfo THEN NewInfo ELSE info[f]

InBounds ==
    /\ global \in -MaxCount .. MaxCount
    /\ faceNumber <= MaxFaceNumber
    /\ \A f \in Known : /\ info[f].pi \in -MaxCount .. MaxCount
                        /\ info[f].share <= MaxShare

(***************************************************************************)
(* afterReceiveInterest.  A suppressed retransmission changes nothing; any *)
(* retransmission may come late enough not to be.                          *)
(***************************************************************************)
\* Positions in Fib; the next hops of a removed face are gone.
Hops == {n \in DOMAIN Fib : Fib[n] \in up}
First(positions) == {n \in positions : \A m \in positions : n <= m}

\* real_percentage < percentage, on floats: the count of the Interest in hand is
\* already in the total, which may still be zero or less.
UsesLess(i, total) ==
    \/ total > 0 /\ i.pi * Whole < i.share * total
    \/ total = 0 /\ i.pi < 0
    \/ total < 0 /\ i.pi * Whole > i.share * total

\* Mutant: the total is without the Interest in hand.
LightUncounted == {n \in Hops : UsesLess(InfoOf(Fib[n]), global)}

\* The next hops below their share.
Light == {n \in Hops : UsesLess(InfoOf(Fib[n]), global + 1)}

\* The faces the loop has looked up, and created a FaceInfo for, when it ends.
LookedUp == {Fib[n] : n \in {m \in Hops : \A l \in Light : m <= l}}

\* The next hop returned: at most one.
Chosen ==
    IF Light # {} THEN First(Light)
    ELSE IF \A n \in Hops : InfoOf(Fib[n]).share = 0 THEN First(Hops)
    ELSE {}

\* What getFaceForForwarding leaves behind, whatever it returns.  Its local variable
\* namespaceinfo is a copy of the NamespaceInfo, with a copy of every FaceInfo.
LookUp ==
    /\ global' = global + 1
    /\ faceNumber' = faceNumber + Cardinality(LookedUp \ Known)
    /\ calm' = [f \in Faces |-> NoTimer]

Looked == [f \in Faces |-> IF f \in LookedUp THEN InfoOf(f) ELSE info[f]]

\* forwardInterest to the face of next hop n.
ForwardInterest(k, n) ==
    /\ n \in Chosen
    /\ LookUp
    /\ LET f == Fib[n]
           i == [Looked[f] EXCEPT !.pi = @ + 1,
                                  !.share = IF Light = {} THEN Whole ELSE @]
       IN  /\ out' = [out EXCEPT ![k] = @ \cup {f}]
           /\ info' = [Looked EXCEPT ![f] =
                         IF i.scheduled THEN i
                         ELSE [i EXCEPT !.scheduled = TRUE, !.last = k]]
           /\ rto' = [g \in Faces |-> IF g = f /\ ~i.scheduled THEN k ELSE NoTimer]
           /\ lasting' = (LookedUp \ Known) \cup {f}
    /\ pit' = pit \cup {k}
    /\ UNCHANGED up
    /\ InBounds'

\* No next hop is below its share: the Interest is answered with a Nack and its
\* entry rejected.
FindNoFace(k) ==
    /\ Hops # {}
    /\ Chosen = {}
    /\ LookUp
    /\ pit' = pit \cup {k}
    /\ info' = Looked
    /\ rto' = [f \in Faces |-> NoTimer]
    /\ lasting' = LookedUp \ Known
    /\ UNCHANGED <<out, up>>
    /\ InBounds'

\* There is no next hop.
RejectInterest(k) ==
    /\ Hops = {}
    /\ pit' = pit \cup {k}
    /\ UNCHANGED <<out, info, rto, calm, lasting, global, faceNumber, up>>

(***************************************************************************)
(* beforeSatisfyInterest.  The face of the Content Store has no FaceInfo,  *)
(* so that a hit there changes nothing.                                    *)
(***************************************************************************)
\* The quotient of share arithmetic, which the code does in floats; only steps where
\* it is exact are taken (bound).
Over(x, d) == IF d > 0 THEN x \div d ELSE -(x \div (-d))
Exact(x, d) == IF d > 0 THEN x % d = 0 ELSE x % (-d) = 0

\* Mutant: a fixed part of the whole, not of the face's own share.
FixedReduction(share, hops) == Over(Whole * ChangeNum, ChangeDen * hops)

\* calculateReduction.
CalculateReduction(share, hops) == Over(share * ChangeNum, ChangeDen * hops)

\* Mutant: divided by the number of all faces.
IncreaseOverAll(reduction) == Over(reduction, faceNumber)

\* What each of the other faces gains.
Increase(reduction) == Over(reduction, faceNumber - 1)

\* Shares after Data marked at a distance of hops came in on f.
Rebalanced(f, hops) ==
    LET reduction == CalculateReduction(info[f].share, hops)
    IN  [g \in Faces |->
           IF g \notin Known THEN NoInfo
           ELSE IF g = f THEN [info[g] EXCEPT !.share = @ - reduction]
           ELSE [info[g] EXCEPT !.share = @ + Increase(reduction)]]

\* Mutant: the flag is cleared whichever Interest it stands for.
AnsweredByAny(i, k) == [i EXCEPT !.scheduled = FALSE]

\* cancelTimeoutEvent(name): the flag, which stands for the last Interest, is cleared
\* by that Interest's name only.
Unscheduled(i, k) ==
    IF i.scheduled /\ i.last = k THEN [i EXCEPT !.scheduled = FALSE] ELSE i

\* Mutant: the pipeline has deleted the out-record already.
CountedDownTooLate(i, f, k) == i

\* FaceInfo::decrementPINumber.
CountedDown(i, f, k) == IF f \in out[k] THEN [i EXCEPT !.pi = @ - 1] ELSE i

\* Data for k comes in on f, then the pipeline deletes the out-record.
SatisfyUnknown(k, f) ==
    /\ k \in pit
    /\ f \in up \ Known
    /\ out' = [out EXCEPT ![k] = @ \ {f}]
    /\ UNCHANGED <<pit, info, rto, calm, lasting, global, faceNumber, up>>

SatisfyUnmarked(k, f) ==
    /\ k \in pit
    /\ f \in up \cap Known
    /\ out' = [out EXCEPT ![k] = @ \ {f}]
    /\ info' = [info EXCEPT ![f] = Unscheduled(CountedDown(@, f, k), k)]
    /\ rto' = [rto EXCEPT ![f] = IF info[f].scheduled /\ info[f].last = k
                                 THEN NoTimer ELSE @]
    /\ global' = global - 1
    /\ lasting' = lasting \cup {f}
    /\ UNCHANGED <<pit, calm, faceNumber, up>>
    /\ InBounds'

\* hop_count_to_congested_link: the tag's value or, without one, what the int held.
HopCounts == TaggedHops \cup StackHops

\* Binding endOfCongestion to a copy of the FaceInfo makes temporary copies, which
\* cancel the RTO event.  A Data without a tag leaves the hop count uninitialised.
SatisfyMarked(k, f, hopCount) ==
    /\ k \in pit
    /\ f \in up \cap Known
    /\ LET hops == hopCount + 1
           shared == IF faceNumber # 1 THEN Rebalanced(f, hops) ELSE info
       IN  /\ faceNumber # 1 =>
                 Exact(info[f].share * ChangeNum, ChangeDen * hops * (faceNumber - 1))
           /\ info' = [shared EXCEPT ![f] =
                         Unscheduled(CountedDown([@ EXCEPT !.congested = TRUE], f, k), k)]
    /\ out' = [out EXCEPT ![k] = @ \ {f}]
    /\ rto' = [rto EXCEPT ![f] = NoTimer]
    /\ calm' = [calm EXCEPT ![f] = info[f].last]
    /\ global' = global - 1
    /\ lasting' = lasting \cup {f}
    /\ UNCHANGED <<pit, faceNumber, up>>
    /\ InBounds'

(***************************************************************************)
(* Scheduled events.                                                       *)
(***************************************************************************)
OnTimeout(f) ==
    /\ rto[f] # NoTimer
    /\ info' = [info EXCEPT ![f] = Unscheduled([InfoOf(f) EXCEPT !.pi = @ - 1], rto[f])]
    /\ rto' = [rto EXCEPT ![f] = NoTimer]
    /\ global' = global - 1
    /\ UNCHANGED <<pit, out, calm, lasting, faceNumber, up>>
    /\ InBounds'

Recovery == (Whole * ChangeNum) \div (10 * ChangeDen)

\* endOfCongestion works on the copy it is bound to: the flag it clears and the share
\* it reduces are the copy's.  Without a last name or a next hop it reads through a
\* null pointer or an end iterator, and is taken to do no more.
EndOfCongestion(f) ==
    /\ calm[f] # NoTimer
    /\ calm' = [calm EXCEPT ![f] = NoTimer]
    /\ info' = [g \in Faces |->
                  IF /\ calm[f] # NoName
                     /\ faceNumber # 1
                     /\ g \in Known \ {f}
                     /\ \E n \in First(Hops) : g = Fib[n]
                  THEN [info[g] EXCEPT !.share = @ + Recovery]
                  ELSE info[g]]
    /\ UNCHANGED <<pit, out, rto, lasting, global, faceNumber, up>>
    /\ InBounds'

\* Mutant: every face is taken off the count, not only the one that expires.
ExpireFaceInfoOfAll(f) ==
    /\ f \in lasting
    /\ rto[f] = NoTimer
    /\ calm[f] = NoTimer
    /\ info' = [info EXCEPT ![f] = NoInfo]
    /\ lasting' = lasting \ {f}
    /\ faceNumber' = faceNumber - Cardinality(Known)
    /\ UNCHANGED <<pit, out, rto, calm, global, up>>

\* expireFaceInfo; face_numbers is left as it is.
ExpireFaceInfo(f) ==
    /\ f \in lasting
    /\ rto[f] = NoTimer
    /\ calm[f] = NoTimer
    /\ info' = [info EXCEPT ![f] = NoInfo]
    /\ lasting' = lasting \ {f}
    /\ UNCHANGED <<pit, out, rto, calm, global, faceNumber, up>>

\* The measurements entry of the prefix expires, and the NamespaceInfo with it.
ExpireNamespace ==
    /\ Known # {}
    /\ \A f \in Faces : rto[f] = NoTimer /\ calm[f] = NoTimer
    /\ info' = [f \in Faces |-> NoInfo]
    /\ lasting' = {}
    /\ UNCHANGED <<pit, out, rto, calm, global, faceNumber, up>>

(***************************************************************************)
(* The tables around the strategy.                                         *)
(***************************************************************************)
\* onInterestFinalize: the strategy is not told.
FinalizeInterest(k) ==
    /\ k \in pit
    /\ pit' = pit \ {k}
    /\ out' = [out EXCEPT ![k] = {}]
    /\ UNCHANGED <<info, rto, calm, lasting, global, faceNumber, up>>

\* cleanupOnFaceRemoval: records and next hops go, measurements stay.
RemoveFace(f) ==
    /\ f \in up \cap RemovableFaces
    /\ up' = up \ {f}
    /\ out' = [k \in Keys |-> out[k] \ {f}]
    /\ UNCHANGED <<pit, info, rto, calm, lasting, global, faceNumber>>

Next ==
    \/ \E k \in Keys, n \in DOMAIN Fib : ForwardInterest(k, n)
    \/ \E k \in Keys : FindNoFace(k)
    \/ \E k \in Keys : RejectInterest(k)
    \/ \E k \in Keys, f \in Faces : SatisfyUnknown(k, f)
    \/ \E k \in Keys, f \in Faces : SatisfyUnmarked(k, f)
    \/ \E k \in Keys, f \in Faces, h \in HopCounts : SatisfyMarked(k, f, h)
    \/ \E f \in Faces : OnTimeout(f)
    \/ \E f \in Faces : EndOfCongestion(f)
    \/ \E f \in Faces : ExpireFaceInfo(f)
    \/ ExpireNamespace
    \/ \E k \in Keys : FinalizeInterest(k)
    \/ \E f \in Faces : RemoveFace(f)

Spec == Init /\ [][Next]_vars

(***************************************************************************)
(* Safety.                                                                 *)
(***************************************************************************)
\* An RTO event that is still to come belongs to the Interest the face's flag stands
\* for, however often copies have cancelled earlier ones: onTimeout finds its FaceInfo
\* and clears the flag (pcon-strategy.cpp:256-268, 319-343, pcon-measurements.cpp:47-84, 126-130).
TimerOwner ==
    \A f \in Faces : rto[f] # NoTimer =>
        f \in Known /\ info[f].scheduled /\ info[f].last = rto[f]

\* A hop count of -1, which a tag's conversion to int and an uninitialised int allow,
\* makes calculateReduction divide by zero (pcon-strategy.cpp:149, 177, 367-371).
NoZeroDivisor == -1 \notin HopCounts

\* As long as no hop count is negative, no series of marks takes from a face more
\* than it has: 1.0 - CHANGE_PERC never reaches the bottom (pcon-strategy.cpp:172-192,
\* 367-371).
SharesNonNegative ==
    HopCounts \subseteq Nat => \A f \in Known : info[f].share >= 0

TotalShare == MapThenSumSet(LAMBDA f : info[f].share, Known)
TotalPi == MapThenSumSet(LAMBDA f : info[f].pi, Known)
HopFaces == {Fib[n] : n \in Hops}

\* What one face loses on a mark the others gain: the shares keep their sum but when
\* congestion ends, when a FaceInfo is lost or face_numbers has lost count of them, and
\* when the prefix has no share at all and its first next hop gets everything
\* (pcon-strategy.cpp:172-192, 303-311).
SharesConserved ==
    [][TotalShare' # TotalShare =>
          \/ \E f \in Faces : EndOfCongestion(f)
          \/ ~(Known \subseteq Known')
          \/ faceNumber # Cardinality(Known)
          \/ \A f \in HopFaces : InfoOf(f).share = 0]_vars

\* Data for an entry, from a face that has no out-record in it.
Unasked ==
    \E k \in Keys, f \in Faces :
        /\ f \notin out[k]
        /\ SatisfyUnmarked(k, f) \/ \E h \in HopCounts : SatisfyMarked(k, f, h)

\* The total count of pending Interests leaks one way only: it never falls behind the
\* counts of the faces, but through Data from a face that was not asked and by
\* the loss of a FaceInfo (pcon-strategy.cpp:196-199, 247-248, 285, 339-341).
TotalKeepsUp ==
    [][Known \subseteq Known' /\ ~Unasked =>
          global' - TotalPi' >= global - TotalPi]_vars

\* Since the total counts the Interest in hand, an Interest with next hops gets one,
\* unless the counts or the shares have drifted: the total is not positive, or
\* not above the next hops' counts, or their shares are less than 1
\* (pcon-strategy.cpp:283-314).
NackOnlyAfterDrift ==
    [][(\E k \in Keys : FindNoFace(k)) =>
          \/ global' <= 0
          \/ MapThenSumSet(LAMBDA f : InfoOf(f).pi, HopFaces) >= global'
          \/ MapThenSumSet(LAMBDA f : InfoOf(f).share, HopFaces) < Whole]_vars

(***************************************************************************)
(* What the code's comments promise and the code does not do.              *)
(***************************************************************************)
\* "Set the congested flag to false" (pcon-strategy.cpp:377): of the face whose
\* congestion ends.
CongestionEnds == [][\A f \in Faces : EndOfCongestion(f) => ~info'[f].congested]_vars
=============================================================================
