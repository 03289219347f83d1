-------------------------- MODULE OnAirRefinement --------------------------
(***************************************************************************)
(* The refinement mapping from StreamLifecycle to OnAir: the rows of a     *)
(* user by their status, and his pending request.                          *)
(***************************************************************************)
EXTENDS StreamLifecycle

RowsOf(u, s) == {st \in Streams : owner[st] = u /\ status[st] = s}

\* A create that awaits the insertion of its tags has had its effect.
WhatAsked(r) ==
    IF req[r].kind = "create"
    THEN IF req[r].pc = "tags" THEN <<"created">> ELSE <<"create">>
    ELSE <<req[r].kind, req[r].stream>>

AskedBy(u) == {WhatAsked(r) : r \in {x \in Requests : Pending(x) /\ req[x].user = u}}

Promise == INSTANCE OnAir WITH
    live <- [u \in Users |-> RowsOf(u, "LIVE")],
    past <- [u \in Users |-> RowsOf(u, "FINISHED")],
    asked <- [u \in Users |-> AskedBy(u)]

\* When every client waits for its answers, the check and the INSERT of
\* createStream, and the SELECT and the UPDATE of leaveStream, act as one command
\* each, even when the commands fail or their replies are lost: a stream goes on
\* or off air once, at its streamer's request (stream.service.ts:49-91, 111-126,
\* 343-362).
ImplementsOnAir == Promise!Spec
=============================================================================
