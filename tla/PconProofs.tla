----------------------------- MODULE PconProofs -----------------------------
(***************************************************************************)
(* What holds of the PCON strategy for every choice of its constants.      *)
(***************************************************************************)
EXTENDS PconStrategy, FiniteSetTheorems, TLAPS

(***************************************************************************)
(* Types.                                                                  *)
(***************************************************************************)
\* Exact division yields an integer.
LEMMA OverType ==
  ASSUME NEW x \in Int, NEW d \in Int, d # 0
  PROVE  Over(x, d) \in Int
<1>1. CASE d > 0
  BY <1>1 DEF Over
<1>2. CASE d < 0
  <2>1. -d \in Int /\ -d > 0
    BY <1>2
  <2>2. x \div (-d) \in Int
    BY <2>1
  <2> QED
    BY <1>2, <2>2 DEF Over
<1> QED
  BY <1>1, <1>2

\* A new FaceInfo is one, and so is what is known of a face or created for it.
LEMMA InfoOfType ==
  ASSUME TypeOK, NEW f \in Faces
  PROVE  InfoOf(f) \in FaceInfo
  BY DEF TypeOK, InfoOf, NewInfo, FaceInfo

\* The faces looked up are faces, and their count is a number (getFaceForForwarding).
LEMMA LookedUpType ==
  /\ LookedUp \subseteq Faces
  /\ Cardinality(LookedUp \ Known) \in Nat
<1>1. LookedUp \subseteq Faces
  BY NameAssumption DEF LookedUp, Hops
<1>2. LookedUp \ Known \in SUBSET Faces
  BY <1>1
<1>3. IsFiniteSet(LookedUp \ Known)
  BY <1>2, FS_Subset, NameAssumption
<1> QED
  BY <1>1, <1>3, FS_CardinalityType

\* The table after the loop over the next hops holds FaceInfos.
LEMMA LookedType ==
  ASSUME TypeOK
  PROVE  Looked \in [Faces -> FaceInfo \cup {NoInfo}]
<1>1. ASSUME NEW f \in Faces
      PROVE  (IF f \in LookedUp THEN InfoOf(f) ELSE info[f]) \in FaceInfo \cup {NoInfo}
  <2>1. InfoOf(f) \in FaceInfo
    BY InfoOfType
  <2>2. info[f] \in FaceInfo \cup {NoInfo}
    BY DEF TypeOK
  <2> QED
    BY <2>1, <2>2
<1> QED
  BY <1>1 DEF Looked

\* The next hop returned was looked up.
LEMMA ChosenLookedUp ==
  ASSUME NEW n \in Chosen
  PROVE  n \in Hops /\ Fib[n] \in LookedUp
<1>1. CASE Light # {}
  <2>1. n \in Light /\ \A m \in Light : n <= m
    BY <1>1 DEF Chosen, First
  <2>2. n \in Hops
    BY <2>1 DEF Light
  <2> QED
    BY <2>1, <2>2 DEF LookedUp
<1>2. CASE Light = {}
  <2>1. n \in Hops
    BY <1>2 DEF Chosen, First
  <2> QED
    BY <1>2, <2>1 DEF LookedUp
<1> QED
  BY <1>1, <1>2

\* Counting an Interest and setting a share leave a FaceInfo.
LEMMA UpdatedType ==
  ASSUME NEW i \in FaceInfo, NEW share \in Int
  PROVE  [i EXCEPT !.pi = @ + 1, !.share = share] \in FaceInfo
<1> DEFINE pi == i.pi + 1
<1>1. pi \in Int
  BY DEF FaceInfo
<1> HIDE DEF pi
<1>2. [i EXCEPT !.pi = pi, !.share = share] \in FaceInfo
  BY <1>1 DEF FaceInfo
<1> QED
  BY <1>2 DEF pi

\* Clearing the flag and lowering the count leave a FaceInfo.
LEMMA AnsweredType ==
  ASSUME NEW i \in FaceInfo, NEW f, NEW k
  PROVE  Unscheduled(i, k) \in FaceInfo /\ CountedDown(i, f, k) \in FaceInfo
<1>1. [i EXCEPT !.scheduled = FALSE] \in FaceInfo
  BY DEF FaceInfo
<1>2. [i EXCEPT !.pi = @ - 1] \in FaceInfo
  BY DEF FaceInfo
<1> QED
  BY <1>1, <1>2 DEF Unscheduled, CountedDown

\* What a mark takes from a face, and what the others gain, are numbers.
LEMMA LossType ==
  ASSUME TypeOK, faceNumber # 1, NEW f \in Known, NEW hops \in Int, hops # 0
  PROVE  /\ CalculateReduction(info[f].share, hops) \in Int
         /\ Increase(CalculateReduction(info[f].share, hops)) \in Int
<1> DEFINE reduction == CalculateReduction(info[f].share, hops)
<1>1. reduction \in Int
  <2>1. info[f].share * ChangeNum \in Int
    BY ShareAssumption DEF TypeOK, Known, FaceInfo
  <2>2. ChangeDen * hops \in Int /\ ChangeDen * hops # 0
    BY ShareAssumption
  <2> QED
    BY <2>1, <2>2, OverType DEF CalculateReduction
<1> HIDE DEF reduction
<1>2. Increase(reduction) \in Int
  <2>1. faceNumber - 1 \in Int /\ faceNumber - 1 # 0
    BY DEF TypeOK
  <2> QED
    BY <1>1, <2>1, OverType DEF Increase
<1> QED
  BY <1>1, <1>2 DEF reduction

\* Moving shares leaves FaceInfos (beforeSatisfyInterest).
LEMMA RebalancedType ==
  ASSUME TypeOK, faceNumber # 1, NEW f \in Known, NEW hops \in Int, hops # 0
  PROVE  /\ Rebalanced(f, hops) \in [Faces -> FaceInfo \cup {NoInfo}]
         /\ \A g \in Known : Rebalanced(f, hops)[g] \in FaceInfo
<1> DEFINE reduction == CalculateReduction(info[f].share, hops)
<1>1. reduction \in Int /\ Increase(reduction) \in Int
  BY LossType
<1> HIDE DEF reduction
<1>2. ASSUME NEW g \in Known
      PROVE  /\ [info[g] EXCEPT !.share = @ - reduction] \in FaceInfo
             /\ [info[g] EXCEPT !.share = @ + Increase(reduction)] \in FaceInfo
  <2>1. info[g] \in FaceInfo
    BY DEF Known, TypeOK
  <2> QED
    BY <1>1, <2>1 DEF FaceInfo
<1> QED
  BY <1>2 DEF Rebalanced, reduction, Known

\* Unless a hop count is -1, the divisor is a number other than zero.
LEMMA HopType ==
  ASSUME NoZeroDivisor, NEW h \in HopCounts
  PROVE  h + 1 \in Int /\ h + 1 # 0
BY ShareAssumption DEF NoZeroDivisor, HopCounts

\* Every step keeps the types.
LEMMA TypeStep == NoZeroDivisor /\ TypeOK /\ [Next]_vars => TypeOK'
<1> SUFFICES ASSUME NoZeroDivisor, TypeOK, [Next]_vars PROVE TypeOK'
  OBVIOUS
<1> USE DEF TypeOK
<1>1. ASSUME NEW k \in Keys, NEW n \in DOMAIN Fib, ForwardInterest(k, n) PROVE TypeOK'
  <2> DEFINE f == Fib[n]
             share == IF Light = {} THEN Whole ELSE Looked[f].share
             i == [Looked[f] EXCEPT !.pi = @ + 1, !.share = share]
             j == IF i.scheduled THEN i ELSE [i EXCEPT !.scheduled = TRUE, !.last = k]
  <2>1. f \in LookedUp
    BY <1>1, ChosenLookedUp DEF ForwardInterest
  <2>2. f \in Faces /\ Looked[f] \in FaceInfo
    BY <2>1, LookedUpType, InfoOfType DEF Looked
  <2>3. i \in FaceInfo
    <3>1. share \in Int
      BY <2>2, ShareAssumption DEF FaceInfo
    <3> HIDE DEF share, f
    <3> QED
      BY <2>2, <3>1, UpdatedType
  <2>4. j \in FaceInfo
    <3> HIDE DEF i
    <3> QED
      BY <2>3 DEF FaceInfo
  <2>5. info' = [Looked EXCEPT ![f] = j]
    BY <1>1 DEF ForwardInterest
  <2>6. info' \in [Faces -> FaceInfo \cup {NoInfo}]
    <3> HIDE DEF j, f
    <3> QED
      BY <2>2, <2>4, <2>5, LookedType
  <2>7. /\ pit' \subseteq Keys
        /\ out' \in [Keys -> SUBSET Faces]
        /\ rto' \in [Faces -> Keys \cup {NoTimer}]
        /\ lasting' \subseteq Faces
        /\ up' \subseteq Faces
    BY <1>1, <2>2, LookedUpType DEF ForwardInterest
  <2> QED
    BY <1>1, <2>6, <2>7, LookedUpType DEF ForwardInterest, LookUp
<1>2. ASSUME NEW k \in Keys, FindNoFace(k) PROVE TypeOK'
  BY <1>2, LookedType, LookedUpType DEF FindNoFace, LookUp
<1>3. ASSUME NEW k \in Keys, RejectInterest(k) PROVE TypeOK'
  BY <1>3 DEF RejectInterest
<1>4. ASSUME NEW k \in Keys, NEW f \in Faces, SatisfyUnknown(k, f) PROVE TypeOK'
  BY <1>4 DEF SatisfyUnknown
<1>5. ASSUME NEW k \in Keys, NEW f \in Faces, SatisfyUnmarked(k, f) PROVE TypeOK'
  <2>1. info[f] \in FaceInfo
    BY <1>5 DEF SatisfyUnmarked, Known
  <2>2. Unscheduled(CountedDown(info[f], f, k), k) \in FaceInfo
    BY <2>1, AnsweredType
  <2> QED
    BY <1>5, <2>2 DEF SatisfyUnmarked
<1>6. ASSUME NEW k \in Keys, NEW f \in Faces, NEW h \in HopCounts,
             SatisfyMarked(k, f, h)
      PROVE  TypeOK'
  <2> DEFINE shared == IF faceNumber # 1 THEN Rebalanced(f, h + 1) ELSE info
             i == [shared[f] EXCEPT !.congested = TRUE]
  <2>1. f \in Known /\ info[f] \in FaceInfo /\ h + 1 \in Int /\ h + 1 # 0
    BY <1>6, HopType DEF SatisfyMarked, Known
  <2>2. shared \in [Faces -> FaceInfo \cup {NoInfo}]
    BY <2>1, RebalancedType
  <2>3. shared[f] \in FaceInfo
    BY <2>1, RebalancedType
  <2>4. i \in FaceInfo
    <3> HIDE DEF shared
    <3> QED
      BY <2>3 DEF FaceInfo
  <2>5. info' = [shared EXCEPT ![f] = Unscheduled(CountedDown(i, f, k), k)]
    BY <1>6 DEF SatisfyMarked
  <2>6. info' \in [Faces -> FaceInfo \cup {NoInfo}]
    <3>1. Unscheduled(CountedDown(i, f, k), k) \in FaceInfo
      <4> HIDE DEF i
      <4> QED
        BY <2>4, AnsweredType
    <3> HIDE DEF i, shared
    <3> QED
      BY <2>2, <2>5, <3>1
  <2>7. info[f].last \in Keys \cup {NoName}
    BY <2>1 DEF FaceInfo
  <2>8. calm' \in [Faces -> Keys \cup {NoName, NoTimer}]
    BY <1>6, <2>7 DEF SatisfyMarked
  <2> QED
    BY <1>6, <2>6, <2>8 DEF SatisfyMarked
<1>7. ASSUME NEW f \in Faces, OnTimeout(f) PROVE TypeOK'
  <2>1. [InfoOf(f) EXCEPT !.pi = @ - 1] \in FaceInfo
    BY InfoOfType DEF FaceInfo
  <2>2. Unscheduled([InfoOf(f) EXCEPT !.pi = @ - 1], rto[f]) \in FaceInfo
    BY <2>1, AnsweredType
  <2> QED
    BY <1>7, <2>2 DEF OnTimeout
<1>8. ASSUME NEW f \in Faces, EndOfCongestion(f) PROVE TypeOK'
  <2>1. Recovery \in Int
    BY ShareAssumption DEF Recovery
  <2>2. ASSUME NEW g \in Known PROVE [info[g] EXCEPT !.share = @ + Recovery] \in FaceInfo
    <3>1. info[g] \in FaceInfo
      BY <2>2 DEF Known
    <3> QED
      BY <2>1, <3>1 DEF FaceInfo
  <2>3. info' \in [Faces -> FaceInfo \cup {NoInfo}]
    BY <1>8, <2>2 DEF EndOfCongestion
  <2> QED
    BY <1>8, <2>3 DEF EndOfCongestion
<1>9. ASSUME NEW f \in Faces, ExpireFaceInfo(f) PROVE TypeOK'
  BY <1>9 DEF ExpireFaceInfo
<1>10. CASE ExpireNamespace
  BY <1>10 DEF ExpireNamespace
<1>11. ASSUME NEW k \in Keys, FinalizeInterest(k) PROVE TypeOK'
  BY <1>11 DEF FinalizeInterest
<1>12. ASSUME NEW f \in Faces, RemoveFace(f) PROVE TypeOK'
  BY <1>12 DEF RemoveFace
<1>13. CASE UNCHANGED vars
  BY <1>13 DEF vars
<1> QED
  BY <1>1, <1>2, <1>3, <1>4, <1>5, <1>6, <1>7, <1>8, <1>9, <1>10, <1>11, <1>12, <1>13 DEF Next

\* The strategy's measurements stay well formed, whatever the next hops and the order of
\* marks and timers, provided that no marked Data has a hop count of -1: with one, the
\* share is no number any more (pcon-strategy.cpp:149, 177, 370; pcon-measurements.hpp).
THEOREM PconTyped ==
  ASSUME NoZeroDivisor
  PROVE  Spec => []TypeOK
<1>1. Init => TypeOK
  BY DEF Init, TypeOK
<1>2. TypeOK /\ [Next]_vars => TypeOK'
  BY TypeStep
<1> QED
  BY <1>1, <1>2, PTL DEF Spec

(***************************************************************************)
(* Timers.                                                                 *)
(***************************************************************************)
\* What TimerOwner says of one face, for a FaceInfo and a bound name.
Owns(i, k) == k # NoTimer => i # NoInfo /\ i.scheduled /\ i.last = k

\* TimerOwner, face by face.
LEMMA OwnerByFace ==
  ASSUME TypeOK
  PROVE  TimerOwner <=> \A f \in Faces : Owns(info[f], rto[f])
  BY DEF TimerOwner, Owns, Known, TypeOK

\* Clearing the flag by another name than the last Interest's, and lowering the count,
\* leave the flag and the last name as they are.
LEMMA KeepsFlag ==
  ASSUME NEW i \in FaceInfo, NEW f, NEW k, ~(i.scheduled /\ i.last = k)
  PROVE  LET j == Unscheduled(CountedDown(i, f, k), k)
         IN  j.scheduled = i.scheduled /\ j.last = i.last
<1> DEFINE c == CountedDown(i, f, k)
<1>1. c.scheduled = i.scheduled /\ c.last = i.last
  BY DEF CountedDown, FaceInfo
<1>2. ~(c.scheduled /\ c.last = k)
  BY <1>1
<1>3. Unscheduled(c, k) = c
  BY <1>2 DEF Unscheduled
<1> QED
  BY <1>1, <1>3

\* Every step keeps the owners of the RTO events.
LEMMA TimerStep == NoZeroDivisor /\ TypeOK /\ TimerOwner /\ [Next]_vars => TimerOwner'
<1> SUFFICES ASSUME NoZeroDivisor, TypeOK, TimerOwner, [Next]_vars PROVE TimerOwner'
  OBVIOUS
<1> SUFFICES \A g \in Faces : Owns(info'[g], rto'[g])
  BY DEF TimerOwner, Owns, Known
<1> TAKE g \in Faces
<1>0. Owns(info[g], rto[g])
  BY OwnerByFace
<1>1. ASSUME NEW k \in Keys, NEW n \in DOMAIN Fib, ForwardInterest(k, n)
      PROVE  Owns(info'[g], rto'[g])
  <2> DEFINE f == Fib[n]
             share == IF Light = {} THEN Whole ELSE Looked[f].share
             i == [Looked[f] EXCEPT !.pi = @ + 1, !.share = share]
             j == [i EXCEPT !.scheduled = TRUE, !.last = k]
  <2>1. CASE rto'[g] = NoTimer
    BY <2>1 DEF Owns
  <2>2. CASE rto'[g] # NoTimer
    <3>1. g = f /\ ~i.scheduled /\ rto'[g] = k
      BY <1>1, <2>2 DEF ForwardInterest
    <3>2. info'[g] = j
      <4>1. info' = [Looked EXCEPT ![f] = IF i.scheduled THEN i ELSE j]
        BY <1>1 DEF ForwardInterest
      <4>2. g \in DOMAIN Looked
        BY DEF Looked
      <4> HIDE DEF i, j, f
      <4> QED
        BY <3>1, <4>1, <4>2
    <3>3. i \in FaceInfo
      <4>1. f \in Faces /\ Looked[f] \in FaceInfo
        BY <1>1, ChosenLookedUp, LookedUpType, InfoOfType DEF ForwardInterest, Looked
      <4>2. share \in Int
        BY <4>1, ShareAssumption DEF FaceInfo
      <4> HIDE DEF share, f
      <4> QED
        BY <4>1, <4>2, UpdatedType
    <3> HIDE DEF i
    <3>4. j \in FaceInfo /\ j.scheduled /\ j.last = k
      BY <3>3 DEF FaceInfo
    <3> HIDE DEF j
    <3> QED
      BY <3>1, <3>2, <3>4, InfoAssumption DEF Owns
  <2> QED
    BY <2>1, <2>2
<1>2. ASSUME NEW k \in Keys, FindNoFace(k) PROVE Owns(info'[g], rto'[g])
  BY <1>2 DEF FindNoFace, Owns
<1>3. ASSUME NEW k \in Keys, RejectInterest(k) PROVE Owns(info'[g], rto'[g])
  BY <1>0, <1>3 DEF RejectInterest
<1>4. ASSUME NEW k \in Keys, NEW f \in Faces, SatisfyUnknown(k, f)
      PROVE  Owns(info'[g], rto'[g])
  BY <1>0, <1>4 DEF SatisfyUnknown
<1>5. ASSUME NEW k \in Keys, NEW f \in Faces, SatisfyUnmarked(k, f)
      PROVE  Owns(info'[g], rto'[g])
  <2> DEFINE i == Unscheduled(CountedDown(info[f], f, k), k)
             owned == info[f].scheduled /\ info[f].last = k
  <2>1. info[f] \in FaceInfo /\ info' = [info EXCEPT ![f] = i]
    BY <1>5 DEF SatisfyUnmarked, Known, TypeOK
  <2>2. i \in FaceInfo
    BY <2>1, AnsweredType
  <2>3. rto' = [rto EXCEPT ![f] = IF owned THEN NoTimer ELSE @]
    BY <1>5 DEF SatisfyUnmarked
  <2>4. CASE g # f
    BY <1>0, <2>1, <2>3, <2>4 DEF TypeOK
  <2>5. CASE g = f /\ owned
    BY <2>3, <2>5 DEF TypeOK, Owns
  <2>6. CASE g = f /\ ~owned
    <3>1. i.scheduled = info[f].scheduled /\ i.last = info[f].last
      BY <2>1, <2>6, KeepsFlag
    <3>2. info'[g] = i /\ rto'[g] = rto[g]
      <4> HIDE DEF i, owned
      <4> QED
        BY <2>1, <2>3, <2>6 DEF TypeOK
    <3>3. i # NoInfo
      BY <2>2, InfoAssumption
    <3> HIDE DEF i, owned
    <3> QED
      BY <1>0, <2>6, <3>1, <3>2, <3>3 DEF Owns
  <2> HIDE DEF owned
  <2> QED
    BY <2>4, <2>5, <2>6
<1>6. ASSUME NEW k \in Keys, NEW f \in Faces, NEW h \in HopCounts,
             SatisfyMarked(k, f, h)
      PROVE  Owns(info'[g], rto'[g])
  <2> DEFINE shared == IF faceNumber # 1 THEN Rebalanced(f, h + 1) ELSE info
  <2>1. rto' = [rto EXCEPT ![f] = NoTimer]
    BY <1>6 DEF SatisfyMarked
  <2>2. CASE g = f \/ rto[g] = NoTimer
    BY <2>1, <2>2 DEF TypeOK, Owns
  <2>3. CASE g # f /\ rto[g] # NoTimer
    <3>1. info'[g] = shared[g]
      <4>1. g \in DOMAIN shared
        BY DEF Rebalanced, TypeOK
      <4>2. \E i : info' = [shared EXCEPT ![f] = i]
        BY <1>6 DEF SatisfyMarked
      <4> HIDE DEF shared
      <4> QED
        BY <2>3, <4>1, <4>2
    <3>2. info[g] \in FaceInfo /\ info[g].scheduled /\ info[g].last = rto[g]
      BY <1>0, <2>3 DEF Owns, TypeOK
    <3>3. rto'[g] = rto[g]
      BY <2>1, <2>3 DEF TypeOK
    <3>4. CASE faceNumber = 1
      BY <1>0, <3>1, <3>3, <3>4
    <3>5. CASE faceNumber # 1
      <4> DEFINE share == info[g].share + Increase(CalculateReduction(info[f].share, h + 1))
                 i == [info[g] EXCEPT !.share = share]
      <4>1. g \in Known
        BY <3>2, InfoAssumption DEF Known
      <4>2. info'[g] = i
        BY <2>3, <3>1, <3>5, <4>1 DEF Rebalanced
      <4> HIDE DEF share
      <4>3. i.scheduled = info[g].scheduled /\ i.last = info[g].last
        BY <3>2 DEF FaceInfo
      <4>4. i # NoInfo
        <5>1. f \in Known /\ h + 1 \in Int /\ h + 1 # 0
          BY <1>6, HopType DEF SatisfyMarked
        <5>2. share \in Int
          BY <3>2, <3>5, <5>1, LossType DEF share, FaceInfo
        <5>3. i \in FaceInfo
          BY <3>2, <5>2 DEF FaceInfo
        <5> HIDE DEF i
        <5> QED
          BY <5>3, InfoAssumption
      <4> HIDE DEF i
      <4> QED
        BY <3>2, <3>3, <4>2, <4>3, <4>4 DEF Owns
    <3> QED
      BY <3>4, <3>5
  <2> QED
    BY <2>2, <2>3
<1>7. ASSUME NEW f \in Faces, OnTimeout(f) PROVE Owns(info'[g], rto'[g])
  <2>1. CASE g = f
    BY <1>7, <2>1 DEF OnTimeout, TypeOK, Owns
  <2>2. CASE g # f
    BY <1>0, <1>7, <2>2 DEF OnTimeout, TypeOK
  <2> QED
    BY <2>1, <2>2
<1>8. ASSUME NEW f \in Faces, EndOfCongestion(f) PROVE Owns(info'[g], rto'[g])
  <2> DEFINE i == [info[g] EXCEPT !.share = @ + Recovery]
  <2>1. rto'[g] = rto[g] /\ (info'[g] = info[g] \/ info'[g] = i)
    BY <1>8 DEF EndOfCongestion
  <2>2. CASE rto[g] = NoTimer \/ info'[g] = info[g]
    BY <1>0, <2>1, <2>2 DEF Owns
  <2>3. CASE rto[g] # NoTimer /\ info'[g] = i
    <3>1. info[g] \in FaceInfo
      BY <1>0, <2>3 DEF Owns, TypeOK
    <3>2. i \in FaceInfo /\ i.scheduled = info[g].scheduled /\ i.last = info[g].last
      BY <3>1, ShareAssumption DEF FaceInfo, Recovery
    <3> HIDE DEF i
    <3> QED
      BY <1>0, <2>1, <2>3, <3>2, InfoAssumption DEF Owns
  <2> QED
    BY <2>1, <2>2, <2>3
<1>9. ASSUME NEW f \in Faces, ExpireFaceInfo(f) PROVE Owns(info'[g], rto'[g])
  <2>1. CASE g = f
    BY <1>9, <2>1 DEF ExpireFaceInfo, Owns
  <2>2. CASE g # f
    BY <1>0, <1>9, <2>2 DEF ExpireFaceInfo, TypeOK
  <2> QED
    BY <2>1, <2>2
<1>10. CASE ExpireNamespace
  BY <1>10 DEF ExpireNamespace, Owns
<1>11. ASSUME NEW k \in Keys, FinalizeInterest(k) PROVE Owns(info'[g], rto'[g])
  BY <1>0, <1>11 DEF FinalizeInterest
<1>12. ASSUME NEW f \in Faces, RemoveFace(f) PROVE Owns(info'[g], rto'[g])
  BY <1>0, <1>12 DEF RemoveFace
<1>13. CASE UNCHANGED vars
  BY <1>0, <1>13 DEF vars
<1> QED
  BY <1>1, <1>2, <1>3, <1>4, <1>5, <1>6, <1>7, <1>8, <1>9, <1>10, <1>11, <1>12, <1>13 DEF Next

\* onTimeout always finds its FaceInfo, flagged for its own Interest, although the
\* copies of FaceInfo cancel events behind the flags (pcon-strategy.cpp:319-343), as
\* long as the shares are numbers.
THEOREM TimerOwned ==
  ASSUME NoZeroDivisor
  PROVE  Spec => []TimerOwner
<1>1. Init => TypeOK /\ TimerOwner
  BY DEF Init, TypeOK, TimerOwner
<1>2. TypeOK /\ TimerOwner /\ [Next]_vars => (TypeOK /\ TimerOwner)'
  BY TypeStep, TimerStep
<1> QED
  BY <1>1, <1>2, PTL DEF Spec

(***************************************************************************)
(* Shares.  A mark takes from a face reduction / face_numbers - 1 per other*)
(* face: that this divides by one or more rests on face_numbers counting at*)
(* least one face as long as there is a FaceInfo.                          *)
(***************************************************************************)
\* Of face_numbers, which never goes down: it does not miss every known face.
Counted == Known # {} => faceNumber >= 1

\* The part of a share that a mark takes is between nothing and the whole of it
\* (calculateReduction).
LEMMA PartOfShare ==
  ASSUME NEW x \in Nat, NEW d \in Nat, NEW n \in Nat, NEW h \in Nat,
         d >= 1, h >= 1, n <= d
  PROVE  /\ Over(x * n, d * h) \in Nat
         /\ Over(x * n, d * h) <= x
<1> DEFINE whole == x * n
           parts == d * h
<1>1. whole \in Nat /\ parts \in Nat
  OBVIOUS
<1>2. parts >= d
  <2>1. parts = d * (h - 1) + d
    OBVIOUS
  <2>2. d * (h - 1) \in Nat
    OBVIOUS
  <2> QED
    BY <2>1, <2>2, <1>1
<1>3. whole <= x * parts
  <2>1. x * parts = x * n + x * (parts - n)
    BY <1>1
  <2>2. parts - n \in Nat
    BY <1>1, <1>2
  <2>3. x * (parts - n) \in Nat
    <3> HIDE DEF parts
    <3> QED
      BY <2>2
  <2> QED
    BY <2>1, <2>3, <1>1
<1>4. Over(whole, parts) = whole \div parts
  BY <1>2 DEF Over
<1>5. whole \div parts \in Nat /\ parts * (whole \div parts) <= whole
  <2> HIDE DEF whole, parts
  <2> QED
    BY <1>1, <1>2
<1>6. whole \div parts <= x
  <2> DEFINE q == whole \div parts
             r == q - x
  <2>1. q \in Nat /\ parts * q <= whole /\ parts \in Nat /\ parts >= 1
    BY <1>1, <1>2, <1>5
  <2> HIDE DEF q, parts, whole
  <2>2. SUFFICES ASSUME r >= 1 PROVE FALSE
    BY <2>1 DEF q
  <2>3. r \in Nat /\ parts - 1 \in Nat
    BY <2>1, <2>2
  <2> HIDE DEF r
  <2>4. parts * r >= 1
    <3>1. parts * r = (parts - 1) * r + r
      BY <2>1, <2>3
    <3>2. (parts - 1) * r \in Nat
      BY <2>3
    <3> QED
      BY <2>2, <2>3, <3>1, <3>2
  <2>5. parts * q = parts * x + parts * r
    <3>1. q = x + r
      BY <2>1 DEF r
    <3> QED
      BY <2>1, <2>3, <3>1
  <2> QED
    BY <1>1, <1>3, <2>1, <2>3, <2>4, <2>5
<1> QED
  BY <1>4, <1>5, <1>6

\* The loop over the next hops counts at least one face if it leaves any behind
\* (getOrCreateFaceInfo).
LEMMA LookUpCounts ==
  ASSUME TypeOK, Counted, LookedUp \cup Known # {}
  PROVE  faceNumber + Cardinality(LookedUp \ Known) >= 1
<1>1. LookedUp \ Known \in SUBSET Faces
  BY LookedUpType
<1>2. IsFiniteSet(LookedUp \ Known)
  BY <1>1, FS_Subset, NameAssumption
<1>3. Cardinality(LookedUp \ Known) \in Nat
  BY LookedUpType
<1>4. CASE Known # {}
  BY <1>3, <1>4 DEF Counted, TypeOK
<1>5. CASE Known = {}
  <2>1. LookedUp \ Known # {}
    BY <1>5
  <2>2. Cardinality(LookedUp \ Known) # 0
    BY <1>2, <2>1, FS_EmptySet
  <2> QED
    BY <1>3, <2>2 DEF TypeOK
<1> QED
  BY <1>4, <1>5

\* Every step keeps the count of faces above zero.
LEMMA CountedStep ==
  TypeOK /\ TimerOwner /\ Counted /\ [Next]_vars => Counted'
<1> SUFFICES ASSUME TypeOK, TimerOwner, Counted, [Next]_vars, Known' # {}
             PROVE  faceNumber' >= 1
  BY DEF Counted
<1>0. ASSUME Known # {}, faceNumber' = faceNumber PROVE faceNumber' >= 1
  BY <1>0 DEF Counted
<1>1. ASSUME NEW k \in Keys, NEW n \in DOMAIN Fib, ForwardInterest(k, n)
      PROVE  faceNumber' >= 1
  <2>1. LookedUp # {}
    BY <1>1, ChosenLookedUp DEF ForwardInterest
  <2> QED
    BY <1>1, <2>1, LookUpCounts DEF ForwardInterest, LookUp
<1>2. ASSUME NEW k \in Keys, FindNoFace(k) PROVE faceNumber' >= 1
  <2>1. LookedUp \cup Known # {}
    BY <1>2 DEF FindNoFace, Looked, Known
  <2> QED
    BY <1>2, <2>1, LookUpCounts DEF FindNoFace, LookUp
<1>3. ASSUME NEW k \in Keys, RejectInterest(k) PROVE faceNumber' >= 1
  BY <1>0, <1>3 DEF RejectInterest, Known
<1>4. ASSUME NEW k \in Keys, NEW f \in Faces, SatisfyUnknown(k, f) PROVE faceNumber' >= 1
  BY <1>0, <1>4 DEF SatisfyUnknown, Known
<1>5. ASSUME NEW k \in Keys, NEW f \in Faces, SatisfyUnmarked(k, f) PROVE faceNumber' >= 1
  BY <1>0, <1>5 DEF SatisfyUnmarked
<1>6. ASSUME NEW k \in Keys, NEW f \in Faces, NEW h \in HopCounts,
             SatisfyMarked(k, f, h)
      PROVE  faceNumber' >= 1
  BY <1>0, <1>6 DEF SatisfyMarked
<1>7. ASSUME NEW f \in Faces, OnTimeout(f) PROVE faceNumber' >= 1
  BY <1>0, <1>7 DEF OnTimeout, TimerOwner
<1>8. ASSUME NEW f \in Faces, EndOfCongestion(f) PROVE faceNumber' >= 1
  BY <1>0, <1>8 DEF EndOfCongestion, Known
<1>9. ASSUME NEW f \in Faces, ExpireFaceInfo(f) PROVE faceNumber' >= 1
  BY <1>0, <1>9 DEF ExpireFaceInfo, Known, TypeOK
<1>10. CASE ExpireNamespace
  BY <1>0, <1>10 DEF ExpireNamespace
<1>11. ASSUME NEW k \in Keys, FinalizeInterest(k) PROVE faceNumber' >= 1
  BY <1>0, <1>11 DEF FinalizeInterest, Known
<1>12. ASSUME NEW f \in Faces, RemoveFace(f) PROVE faceNumber' >= 1
  BY <1>0, <1>12 DEF RemoveFace, Known
<1>13. CASE UNCHANGED vars
  BY <1>0, <1>13 DEF vars, Known
<1> QED
  BY <1>1, <1>2, <1>3, <1>4, <1>5, <1>6, <1>7, <1>8, <1>9, <1>10, <1>11, <1>12, <1>13 DEF Next

\* What SharesNonNegative says of one face.
Solvent(i) == i # NoInfo => i.share >= 0

\* Clearing the flag and lowering the count leave the share.
LEMMA AnsweredShare ==
  ASSUME NEW i \in FaceInfo, NEW f, NEW k
  PROVE  Unscheduled(CountedDown(i, f, k), k).share = i.share
<1> DEFINE c == CountedDown(i, f, k)
<1>1. c \in FaceInfo /\ c.share = i.share
  <2>1. [i EXCEPT !.pi = @ - 1].share = i.share
    BY DEF FaceInfo
  <2> QED
    BY <2>1, AnsweredType DEF CountedDown
<1> HIDE DEF c
<1>2. [c EXCEPT !.scheduled = FALSE].share = c.share
  BY <1>1 DEF FaceInfo
<1> QED
  BY <1>1, <1>2 DEF Unscheduled, c

\* A mark leaves every share at zero or more (beforeSatisfyInterest).
LEMMA RebalancedSolvent ==
  ASSUME TypeOK, Counted, \A g \in Faces : Solvent(info[g]),
         faceNumber # 1, NEW f \in Known, NEW hops \in Nat, hops >= 1, NEW g \in Known
  PROVE  Rebalanced(f, hops)[g].share >= 0
<1> DEFINE reduction == CalculateReduction(info[f].share, hops)
           gain == Increase(reduction)
<1>1. /\ info[f] \in FaceInfo /\ info[f].share \in Nat
      /\ info[g] \in FaceInfo /\ info[g].share \in Nat
  <2>1. \A e \in Known : info[e] \in FaceInfo /\ info[e].share \in Int
    BY DEF Known, TypeOK, FaceInfo
  <2> QED
    BY <2>1 DEF Known, Solvent
<1>2. reduction \in Nat /\ reduction <= info[f].share
  <2> DEFINE x == info[f].share
  <2>1. x \in Nat /\ ChangeNum \in Nat /\ ChangeDen \in Nat
    BY <1>1, ShareAssumption
  <2>2. ChangeDen >= 1 /\ ChangeNum <= ChangeDen
    BY ShareAssumption
  <2> HIDE DEF x
  <2>3. Over(x * ChangeNum, ChangeDen * hops) \in Nat /\ Over(x * ChangeNum, ChangeDen * hops) <= x
    BY <2>1, <2>2, PartOfShare
  <2> QED
    BY <2>3 DEF CalculateReduction, x
<1> HIDE DEF reduction
<1>3. gain \in Nat
  <2>1. faceNumber - 1 \in Nat /\ faceNumber - 1 > 0
    BY DEF Counted, TypeOK
  <2>2. reduction \div (faceNumber - 1) \in Nat
    BY <1>2, <2>1
  <2> QED
    BY <2>1, <2>2 DEF Increase, Over
<1> HIDE DEF gain
<1>4. CASE g = f
  <2>1. Rebalanced(f, hops)[g] = [info[f] EXCEPT !.share = @ - reduction]
    BY <1>4 DEF Rebalanced, reduction, Known
  <2>2. Rebalanced(f, hops)[g].share = info[f].share - reduction
    BY <1>1, <2>1 DEF FaceInfo
  <2> QED
    BY <1>1, <1>2, <2>2
<1>5. CASE g # f
  <2>1. Rebalanced(f, hops)[g] = [info[g] EXCEPT !.share = @ + gain]
    BY <1>5 DEF Rebalanced, reduction, gain, Known
  <2>2. Rebalanced(f, hops)[g].share = info[g].share + gain
    BY <1>1, <2>1 DEF FaceInfo
  <2> QED
    BY <1>1, <1>3, <2>2
<1> QED
  BY <1>4, <1>5

\* Every step keeps the shares at zero or more.
LEMMA SharesStep ==
  TypeOK /\ TimerOwner /\ Counted /\ SharesNonNegative /\ [Next]_vars => SharesNonNegative'
<1> SUFFICES ASSUME TypeOK, TimerOwner, Counted, SharesNonNegative, [Next]_vars,
                    HopCounts \subseteq Nat
             PROVE  \A g \in Faces : Solvent(info'[g])
  BY DEF SharesNonNegative, Solvent, Known
<1>0. \A g \in Faces : Solvent(info[g])
  BY DEF SharesNonNegative, Solvent, Known
<1> TAKE g \in Faces
<1>a. Solvent(InfoOf(g)) /\ Solvent(Looked[g])
  BY <1>0 DEF Solvent, InfoOf, NewInfo, Looked
<1>1. ASSUME NEW k \in Keys, NEW n \in DOMAIN Fib, ForwardInterest(k, n)
      PROVE  Solvent(info'[g])
  <2> DEFINE f == Fib[n]
             share == IF Light = {} THEN Whole ELSE Looked[f].share
             i == [Looked[f] EXCEPT !.pi = @ + 1, !.share = share]
             j == IF i.scheduled THEN i ELSE [i EXCEPT !.scheduled = TRUE, !.last = k]
  <2>1. info' = [Looked EXCEPT ![f] = j]
    BY <1>1 DEF ForwardInterest
  <2>2. g \in DOMAIN Looked
    BY DEF Looked
  <2>3. CASE g # f
    <3> HIDE DEF f, j
    <3> QED
      BY <1>a, <2>1, <2>2, <2>3
  <2>4. CASE g = f
    <3>1. Looked[f] \in FaceInfo
      BY <1>1, ChosenLookedUp, LookedUpType, InfoOfType DEF ForwardInterest, Looked
    <3>2. share \in Int /\ share >= 0
      <4>1. Looked[f] # NoInfo
        BY <3>1, InfoAssumption
      <4> HIDE DEF f
      <4> QED
        BY <1>a, <2>4, <3>1, <4>1, ShareAssumption DEF Solvent, FaceInfo
    <3>3. i \in FaceInfo /\ i.share = share
      <4> HIDE DEF f, share
      <4>1. i \in FaceInfo
        BY <3>1, <3>2, UpdatedType
      <4> QED
        BY <3>1, <4>1 DEF FaceInfo
    <3>4. j.share = i.share
      <4> HIDE DEF i
      <4> QED
        BY <3>3 DEF FaceInfo
    <3>5. info'[g] = j
      <4> HIDE DEF f, j
      <4> QED
        BY <2>1, <2>2, <2>4
    <3> HIDE DEF i, j, share
    <3> QED
      BY <3>2, <3>3, <3>4, <3>5 DEF Solvent
  <2> QED
    BY <2>3, <2>4
<1>2. ASSUME NEW k \in Keys, FindNoFace(k) PROVE Solvent(info'[g])
  BY <1>a, <1>2 DEF FindNoFace
<1>3. ASSUME NEW k \in Keys, RejectInterest(k) PROVE Solvent(info'[g])
  BY <1>0, <1>3 DEF RejectInterest
<1>4. ASSUME NEW k \in Keys, NEW f \in Faces, SatisfyUnknown(k, f) PROVE Solvent(info'[g])
  BY <1>0, <1>4 DEF SatisfyUnknown
<1>5. ASSUME NEW k \in Keys, NEW f \in Faces, SatisfyUnmarked(k, f) PROVE Solvent(info'[g])
  <2> DEFINE i == Unscheduled(CountedDown(info[f], f, k), k)
  <2>1. info[f] \in FaceInfo /\ info[f] # NoInfo /\ info' = [info EXCEPT ![f] = i]
    BY <1>5 DEF SatisfyUnmarked, Known, TypeOK
  <2>2. i.share = info[f].share
    BY <2>1, AnsweredShare
  <2> HIDE DEF i
  <2> QED
    BY <1>0, <2>1, <2>2 DEF Solvent, TypeOK
<1>6. ASSUME NEW k \in Keys, NEW f \in Faces, NEW h \in HopCounts,
             SatisfyMarked(k, f, h)
      PROVE  Solvent(info'[g])
  <2> DEFINE shared == IF faceNumber # 1 THEN Rebalanced(f, h + 1) ELSE info
             i == [shared[f] EXCEPT !.congested = TRUE]
             j == Unscheduled(CountedDown(i, f, k), k)
  <2>1. f \in Known /\ h + 1 \in Nat /\ h + 1 >= 1
    BY <1>6 DEF SatisfyMarked
  <2>2. info' = [shared EXCEPT ![f] = j]
    BY <1>6 DEF SatisfyMarked
  <2>3. shared \in [Faces -> FaceInfo \cup {NoInfo}] /\ shared[f] \in FaceInfo
    BY <2>1, RebalancedType DEF Known, TypeOK
  <2>4. ASSUME NEW e \in Faces PROVE Solvent(shared[e])
    <3>1. CASE faceNumber = 1
      BY <1>0, <3>1
    <3>2. CASE faceNumber # 1 /\ e \in Known
      BY <1>0, <2>1, <3>2, RebalancedSolvent DEF Solvent
    <3>3. CASE faceNumber # 1 /\ e \notin Known
      BY <3>3 DEF Rebalanced, Solvent
    <3> QED
      BY <3>1, <3>2, <3>3
  <2>5. j.share = shared[f].share
    <3>1. i \in FaceInfo /\ i.share = shared[f].share
      <4> HIDE DEF shared
      <4> QED
        BY <2>3 DEF FaceInfo
    <3> HIDE DEF i
    <3> QED
      BY <3>1, AnsweredShare
  <2> HIDE DEF shared, j
  <2>6. shared[f].share >= 0
    BY <2>1, <2>3, <2>4, InfoAssumption DEF Solvent, Known
  <2> QED
    BY <2>2, <2>3, <2>4, <2>5, <2>6 DEF Solvent
<1>7. ASSUME NEW f \in Faces, OnTimeout(f) PROVE Solvent(info'[g])
  <2> DEFINE i == [InfoOf(f) EXCEPT !.pi = @ - 1]
  <2>1. InfoOf(f) \in FaceInfo /\ InfoOf(f).share >= 0
    <3>1. NewInfo.share >= 0
      BY DEF NewInfo
    <3> QED
      BY <1>0, <3>1, InfoOfType DEF InfoOf, Solvent
  <2>2. i \in FaceInfo /\ i.share = InfoOf(f).share
    BY <2>1 DEF FaceInfo
  <2>3. Unscheduled(i, rto[f]).share = i.share
    <3> HIDE DEF i
    <3> QED
      BY <2>2 DEF Unscheduled, FaceInfo
  <2>4. info' = [info EXCEPT ![f] = Unscheduled(i, rto[f])]
    BY <1>7 DEF OnTimeout
  <2> HIDE DEF i
  <2> QED
    BY <1>0, <2>1, <2>2, <2>3, <2>4 DEF Solvent, TypeOK
<1>8. ASSUME NEW f \in Faces, EndOfCongestion(f) PROVE Solvent(info'[g])
  <2> DEFINE i == [info[g] EXCEPT !.share = @ + Recovery]
  <2>1. info'[g] = info[g] \/ (g \in Known /\ info'[g] = i)
    BY <1>8 DEF EndOfCongestion
  <2>2. CASE info'[g] = info[g]
    BY <1>0, <2>2
  <2>3. CASE g \in Known /\ info'[g] = i
    <3>1. info[g] \in FaceInfo /\ info[g].share \in Int /\ info[g].share >= 0
      BY <1>0, <2>3 DEF Known, Solvent, TypeOK, FaceInfo
    <3>2. Recovery \in Nat
      <4>1. Whole * ChangeNum \in Nat /\ 10 * ChangeDen \in Nat /\ 10 * ChangeDen > 0
        BY ShareAssumption
      <4> QED
        BY <4>1 DEF Recovery
    <3>3. i.share = info[g].share + Recovery
      BY <3>1 DEF FaceInfo
    <3> HIDE DEF i
    <3> QED
      BY <2>3, <3>1, <3>2, <3>3 DEF Solvent
  <2> QED
    BY <2>1, <2>2, <2>3
<1>9. ASSUME NEW f \in Faces, ExpireFaceInfo(f) PROVE Solvent(info'[g])
  BY <1>0, <1>9 DEF ExpireFaceInfo, Solvent, TypeOK
<1>10. CASE ExpireNamespace
  BY <1>10 DEF ExpireNamespace, Solvent
<1>11. ASSUME NEW k \in Keys, FinalizeInterest(k) PROVE Solvent(info'[g])
  BY <1>0, <1>11 DEF FinalizeInterest
<1>12. ASSUME NEW f \in Faces, RemoveFace(f) PROVE Solvent(info'[g])
  BY <1>0, <1>12 DEF RemoveFace
<1>13. CASE UNCHANGED vars
  BY <1>0, <1>13 DEF vars
<1> QED
  BY <1>1, <1>2, <1>3, <1>4, <1>5, <1>6, <1>7, <1>8, <1>9, <1>10, <1>11, <1>12, <1>13 DEF Next

\* The inductive invariant behind the shares.
PconInv ==
    HopCounts \subseteq Nat => TypeOK /\ TimerOwner /\ Counted /\ SharesNonNegative

\* No series of marks, timeouts, expiries and ends of congestion takes from a face more
\* than its share, for any number of next hops, any hop counts of zero or more and any
\* CHANGE_PERC up to 1 (pcon-strategy.cpp:172-192, 367-371).
THEOREM SharesKept == Spec => []SharesNonNegative
<1>1. Init => PconInv
  BY DEF Init, PconInv, TypeOK, TimerOwner, Counted, SharesNonNegative, Known
<1>2. PconInv /\ [Next]_vars => PconInv'
  <2> SUFFICES ASSUME PconInv, [Next]_vars, HopCounts \subseteq Nat
               PROVE  (TypeOK /\ TimerOwner /\ Counted /\ SharesNonNegative)'
    BY DEF PconInv
  <2>1. NoZeroDivisor
    BY DEF NoZeroDivisor
  <2> QED
    BY <2>1, TypeStep, TimerStep, CountedStep, SharesStep DEF PconInv
<1>3. PconInv => SharesNonNegative
  BY DEF PconInv, SharesNonNegative
<1> QED
  BY <1>1, <1>2, <1>3, PTL DEF Spec
=============================================================================
