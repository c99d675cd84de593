-------------------------- MODULE PendingInterests --------------------------
(***************************************************************************)
(* What a forwarder promises the faces that send it Interests, whatever    *)
(* its routes, strategies and limits on what it takes up: an Interest that *)
(* it has taken up waits until Data or a Nack answers it, its lifetime     *)
(* passes, its face goes, or the forwarder has done with its entry; Data   *)
(* goes at once to all that wait for it; and nobody else gets anything.    *)
(***************************************************************************)
EXTENDS Naturals

CONSTANTS
    Faces,
    Keys,         \* what may be asked for
    Data,
    Satisfies,    \* the pairs of a key and the Data that satisfies it
    Permitted,    \* the pairs of a face and the Data that may leave by it
    Lifetimes,
    None          \* a face does not ask

VARIABLES
    left,     \* left[k][f]: what is left of the time for which f asks for k
    done,     \* the keys whose entry is to be removed at once
    known,    \* the Data at hand
    data,     \* the Data that the last step returned: pairs of a face and a Data
    nacks     \* the Nacks that the last step returned: pairs of a face and a key

vars == <<left, done, known, data, nacks>>

Init ==
    /\ left = [k \in Keys |-> [f \in Faces |-> None]]
    /\ done = {}
    /\ known = {}
    /\ data = {}
    /\ nacks = {}

Asking(k) == {f \in Faces : left[k][f] # None}
Waiting(k) == {f \in Asking(k) : left[k][f] > 0}

\* left[k] once a set of faces asks for k no longer.
Without(k, faces) == [f \in Faces |-> IF f \in faces THEN None ELSE left[k][f]]

Silent == data' = {} /\ nacks' = {}

\* An Interest is taken up; without a way to go, its entry has no future.
Ask(f, k) ==
    /\ Silent
    /\ UNCHANGED known
    /\ \E life \in Lifetimes : left' = [left EXCEPT ![k][f] = life]
    /\ done' \in {done \ {k}, done \cup {k}}

\* An Interest is not taken up: a loop, or a limit is reached.
Refuse(f, k) ==
    /\ nacks' \in {{}, {<<f, k>>}}
    /\ data' = {}
    /\ UNCHANGED <<known, done, left>>

\* An Interest finds no way to go: the Nack ends also what its face asked before.
Reject(f, k) ==
    /\ nacks' = {<<f, k>>}
    /\ data' = {}
    /\ UNCHANGED known
    /\ done' = done \cup {k}
    /\ left' = [left EXCEPT ![k] = Without(k, {f})]

\* Data at hand answers an Interest that nobody asks with yet.
Serve(f, k, d) ==
    /\ d \in known
    /\ <<k, d>> \in Satisfies
    /\ Asking(k) = {}
    /\ nacks' = {}
    /\ data' = {<<f, d>>} \cap Permitted
    /\ done' = done \cup {k}
    /\ UNCHANGED <<known, left>>

\* Data comes in on f for all entries it satisfies, and goes to all that wait, f
\* perhaps left out.  Whether there is an entry that nobody asks with is not seen.
Deliver(f, d) ==
    LET matching == {k \in Keys : <<k, d>> \in Satisfies}
        all == UNION {Waiting(k) : k \in matching}
    IN  /\ nacks' = {}
        /\ known' = known \cup {d}
        /\ done \cup {k \in matching : Asking(k) # {}} \subseteq done'
        /\ done' \subseteq done \cup matching
        /\ \E to \in {all, all \ {f}} :
              /\ data' = {<<g, d>> : g \in to} \cap Permitted
              /\ \E gone \in {to, Faces} :
                    left' = [k \in Keys |->
                               IF k \in matching THEN Without(k, gone) ELSE left[k]]

\* A Nack comes in for k, and is returned to some that ask.
Return(k) ==
    /\ data' = {}
    /\ UNCHANGED known
    /\ done' \in {done, done \cup {k}}
    /\ \E to \in SUBSET Asking(k) :
          /\ nacks' = {<<f, k>> : f \in to}
          /\ left' = [left EXCEPT ![k] = Without(k, to)]

\* The entry is removed, with all that ask.
Remove(k) ==
    /\ k \in done
    /\ Silent
    /\ UNCHANGED known
    /\ done' = done \ {k}
    /\ left' = [left EXCEPT ![k] = Without(k, Faces)]

\* A face goes.
Leave(f) ==
    /\ Silent
    /\ UNCHANGED <<known, done>>
    /\ left' = [k \in Keys |-> Without(k, {f})]

\* Time passes once every entry that is done with is removed; an entry is not done
\* with as long as somebody waits.
Pass ==
    /\ done = {}
    /\ Silent
    /\ UNCHANGED known
    /\ done' \subseteq {k \in Keys : \A f \in Waiting(k) : left[k][f] = 1}
    /\ left' = [k \in Keys |-> [f \in Faces |->
                  IF f \in Waiting(k) THEN left[k][f] - 1 ELSE left[k][f]]]

\* Data nobody asked for may be kept, and what is kept be lost.
Keep(d) == Silent /\ known' = known \cup {d} /\ UNCHANGED <<done, left>>

Lose(d) == Silent /\ known' = known \ {d} /\ UNCHANGED <<done, left>>

Next ==
    \/ \E f \in Faces, k \in Keys : Refuse(f, k)
    \/ \E d \in Data : Keep(d)
    \/ \E d \in Data : Lose(d)
    \/ \E k \in Keys : Remove(k)
    \/ \E k \in Keys : Return(k)
    \/ \E f \in Faces : Leave(f)
    \/ Pass
    \/ \E f \in Faces, k \in Keys : Ask(f, k)
    \/ \E f \in Faces, k \in Keys : Reject(f, k)
    \/ \E f \in Faces, k \in Keys, d \in Data : Serve(f, k, d)
    \/ \E f \in Faces, d \in Data : Deliver(f, d)

Spec == Init /\ [][Next]_vars
=============================================================================
