-------------------------- MODULE ForwarderPromise --------------------------
(***************************************************************************)
(* The forwarder implements PendingInterests: of the tables, the in-records*)
(* and the timers that have run out are seen, and what the Content Store   *)
(* holds; of the packets sent, Data and Nacks.                             *)
(***************************************************************************)
EXTENDS Forwarder

\* The time left to an in-record, which may have expired.
TimeLeft(k, f) ==
    IF pit[k] = NoEntry \/ pit[k].in[f] = NoRecord THEN NoRecord
    ELSE IF pit[k].in[f].left > 0 THEN pit[k].in[f].left ELSE 0

DataSent == {<<p.to, p.data>> : p \in {q \in sent : q.type = "data"}}
NacksSent == {<<p.to, p.key>> : p \in {q \in sent : q.type = "nack"}}

Promise == INSTANCE PendingInterests WITH
    Data <- DataPackets,
    Satisfies <- {p \in Keys \X DataPackets : Matches(p[1], p[2])},
    Permitted <- {p \in Faces \X DataPackets : ~LeaksLocalhost(p[1], p[2].name)},
    None <- NoRecord,
    left <- [k \in Keys |-> [f \in Faces |-> TimeLeft(k, f)]],
    done <- {k \in Pending : pit[k].timer = 0},
    known <- {d \in DataPackets : cs[d] # "absent"},
    data <- DataSent,
    nacks <- NacksSent

\* The forwarder keeps its promise to those who ask: who waits loses its place only to
\* Data, a Nack, time, the end of its face or of an entry that is done with; Data
\* reaches all that wait for it, in whatever entries, and nobody else; time ends no
\* entry that somebody waits for (forwarder.cpp:153-874, strategy.cpp:150-294,
\* process-nack-traits.cpp:34-83).
KeepsPromise == Promise!Spec
=============================================================================
