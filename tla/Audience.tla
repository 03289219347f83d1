------------------------------ MODULE Audience ------------------------------
(***************************************************************************)
(* What the viewer bookkeeping promises, without sockets' rooms, Redis     *)
(* keys or handlers: every stream has an audience, in which a user has one *)
(* seat at most and the streamer none.  A user asks for a stream with one  *)
(* of his sockets, one request at a time; a join is answered when the      *)
(* socket has the seat, a leave or a disconnect when it has not.           *)
(***************************************************************************)
CONSTANTS Streams, Users, Sockets, Owner, UserOf, Nobody

VARIABLES
    audience,  \* audience[st]: the sockets that have a seat
    asked      \* asked[st][u]: <<what, socket>> the user u waits for, or Nobody

vars == <<audience, asked>>

Init ==
    /\ audience = [st \in Streams |-> {}]
    /\ asked = [st \in Streams |-> [u \in Users |-> Nobody]]

\* A socket asks for one stream; or it closes, which may ask for several.
Ask(k, s, R) ==
    /\ \A st \in R : asked[st][UserOf[s]] = Nobody
    /\ asked' = [st \in Streams |->
                   IF st \in R THEN [asked[st] EXCEPT ![UserOf[s]] = <<k, s>>]
                   ELSE asked[st]]
    /\ UNCHANGED audience

\* The seat of the user's other socket is given up for the one that joins.
Yield(st, s, x) ==
    /\ asked[st][UserOf[s]] = <<"join", s>>
    /\ x \in audience[st] \ {s} /\ UserOf[x] = UserOf[s]
    /\ audience' = [audience EXCEPT ![st] = @ \ {x}]
    /\ UNCHANGED asked

Take(st, s) ==
    /\ asked[st][UserOf[s]] = <<"join", s>>
    /\ UserOf[s] # Owner[st]
    /\ \A x \in audience[st] : UserOf[x] # UserOf[s]
    /\ audience' = [audience EXCEPT ![st] = @ \cup {s}]
    /\ UNCHANGED asked

Vacate(st, s) ==
    /\ asked[st][UserOf[s]] \in {<<"leave", s>>, <<"disconnect", s>>}
    /\ audience' = [audience EXCEPT ![st] = @ \ {s}]
    /\ UNCHANGED asked

Answer(st, s) ==
    /\ \/ /\ asked[st][UserOf[s]] = <<"join", s>>
          /\ s \in audience[st] \/ UserOf[s] = Owner[st]
       \/ /\ asked[st][UserOf[s]] \in {<<"leave", s>>, <<"disconnect", s>>}
          /\ s \notin audience[st]
    /\ asked' = [asked EXCEPT ![st][UserOf[s]] = Nobody]
    /\ UNCHANGED audience

Next ==
    \E s \in Sockets :
       \/ \E st \in Streams : \/ Ask("join", s, {st}) \/ Ask("leave", s, {st})
                              \/ \E x \in Sockets : Yield(st, s, x)
                              \/ Take(st, s) \/ Vacate(st, s) \/ Answer(st, s)
       \/ \E R \in SUBSET Streams : Ask("disconnect", s, R)

Spec == Init /\ [][Next]_vars

\* A user has one seat in a stream and the streamer has none: what
\* updateViewerCount is for (streams.gateway.ts:230, 389, 399).
OneSeat ==
    \A st \in Streams : \A s, x \in audience[st] :
        UserOf[s] # Owner[st] /\ (UserOf[s] = UserOf[x] => s = x)

\* Every request is answered in the end (streams.gateway.ts:203, 260, 160).
Served ==
    \A st \in Streams, u \in Users :
        asked[st][u] # Nobody ~> asked[st][u] = Nobody
=============================================================================
