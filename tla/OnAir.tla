------------------------------- MODULE OnAir -------------------------------
(***************************************************************************)
(* What the stream service promises to users who wait for their answers,   *)
(* without awaits, database commands or HTTP: a user has one stream on air  *)
(* at most.  A stream goes on air and off air in one step, on a request of *)
(* its streamer that has not had its effect yet, and once off air it is    *)
(* past for ever.                                                          *)
(***************************************************************************)
CONSTANTS Streams, Users

VARIABLES
    live,  \* live[u]: the stream that u has on air, in a set
    past,  \* past[u]: the streams of u that have ended
    asked  \* asked[u]: the request that u waits for, in a set

vars == <<live, past, asked>>

Questions == {<<"create">>} \cup ({"end", "leave"} \X Streams)

\* Streams may be on air already.
Init ==
    /\ live \in [Users -> SUBSET Streams]
    /\ \A u \in Users : \A s, x \in live[u] : s = x
    /\ \A u, v \in Users : u # v => live[u] \cap live[v] = {}
    /\ past = [u \in Users |-> {}]
    /\ asked = [u \in Users |-> {}]

Ask(u, what) ==
    /\ asked[u] = {}
    /\ asked' = [asked EXCEPT ![u] = {what}]
    /\ UNCHANGED <<live, past>>

\* The user gets his answer now, or when the tags of the stream are stored.
GoOnAir(u, st) ==
    /\ asked[u] = {<<"create">>}
    /\ live[u] = {}
    /\ \A v \in Users : st \notin live[v] \cup past[v]
    /\ live' = [live EXCEPT ![u] = {st}]
    /\ asked' \in {[asked EXCEPT ![u] = {}], [asked EXCEPT ![u] = {<<"created">>}]}
    /\ UNCHANGED past

GoOffAir(u, st) ==
    /\ asked[u] \in {{<<"end", st>>}, {<<"leave", st>>}}
    /\ live[u] = {st}
    /\ live' = [live EXCEPT ![u] = {}]
    /\ past' = [past EXCEPT ![u] = @ \cup {st}]
    /\ asked' = [asked EXCEPT ![u] = {}]

\* Refused, failed, or answered when nothing is left to do.
Answer(u) ==
    /\ asked' = [asked EXCEPT ![u] = {}]
    /\ UNCHANGED <<live, past>>

Next ==
    \E u \in Users :
       \/ \E what \in Questions : Ask(u, what)
       \/ \E st \in Streams : GoOnAir(u, st) \/ GoOffAir(u, st)
       \/ Answer(u)

Spec == Init /\ [][Next]_vars

\* A user has one stream on air, and none of them twice: a stream that is past
\* is nobody's stream on air (stream.service.ts:49-51, 112-116).
OneOnAir ==
    \A u, v \in Users :
        /\ \A s, x \in live[u] : s = x
        /\ live[u] \cap past[v] = {}
        /\ u # v => live[u] \cap live[v] = {}
=============================================================================
