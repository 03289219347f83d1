------------------------- MODULE AudienceRefinement -------------------------
(***************************************************************************)
(* The refinement mapping from StreamsGateway to Audience: the seats are   *)
(* the members of the Redis set, and what a user has asked is the handler  *)
(* that runs for him.                                                      *)
(***************************************************************************)
EXTENDS StreamsGateway

\* The handler that a user whose handlers do not overlap has running for st.
AskedOf(st, u) ==
    LET T == {t \in Tasks : Active(t) /\ task[t].stream = st /\ User(t) = u}
    IN  IF T = {} THEN None
        ELSE LET t == CHOOSE t \in T : TRUE IN <<task[t].kind, task[t].sock>>

Requested == [st \in Streams |-> [u \in Users |-> AskedOf(st, u)]]

Promise == INSTANCE Audience WITH
    audience <- viewers,
    asked <- Requested,
    Nobody <- None

\* When one user's handlers do not overlap and no mapping expires (CalmSpec), the
\* four Redis commands of a handler and the awaits between them keep the promise
\* of Audience: a seat is yielded before it is taken, only by its user's request,
\* and nobody is answered before his seat is as he asked, wherever a socket
\* closes.  With overlapping handlers, or a tab that joins after the hour of the
\* mapping, a user may have two seats (streams.gateway.ts:148-168, 217-251,
\* 264-287, 383-411).
ImplementsAudience == Promise!Spec

\* and every request is answered (streams.gateway.ts:160, 203, 260).
EveryRequestServed == Promise!Served
=============================================================================
