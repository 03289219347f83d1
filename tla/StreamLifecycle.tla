--------------------------- MODULE StreamLifecycle ---------------------------
(***************************************************************************)
(* The life of a stream row: POST /stream, POST /stream/:id/end and        *)
(* POST /stream/:id/leave (src/src/domain/stream/stream.service.ts) on the *)
(* tables `streams` and `stream_tags` (src/prisma/schema.prisma).          *)
(*                                                                         *)
(* A request is a sequence of awaited calls, to the user service and to    *)
(* the database; `pc` names the one it awaits.  Requests interleave at     *)
(* every await, no two database commands are in one transaction, and no    *)
(* unique constraint backs the check of createStream.                      *)
(***************************************************************************)
EXTENDS Naturals, FiniteSets

CONSTANTS
    Users,
    Streams,   \* bound: the ids the database can give to new rows
    Requests,  \* bound: the HTTP requests ever made
    None

ASSUME NoneIsNobody == None \notin Users \cup Streams \cup Requests

VARIABLES
    owner,   \* owner[st]: user_id, or None
    status,  \* status[st]: "LIVE", "FINISHED", or "none": no such row
    endedAt, \* endedAt[st]: the request whose clock reading ended_at holds, or None
    tagged,  \* tagged[st]: the rows of stream_tags for st have been inserted
    req      \* req[r]: what request r asks, where it stands, what it was answered

vars == <<owner, status, endedAt, tagged, req>>

rows == <<owner, status, endedAt, tagged>>

Kinds == {"create", "end", "leave"}

Waits == {"auth", "check", "insert", "tags", "update", "find", "finish"}

Replies == {"ok", "400", "401", "404", "500", "auth status"}

NewReq == [kind |-> "none", user |-> None, stream |-> None, tags |-> FALSE,
           pc |-> "new", reply |-> "none"]

Pending(r) == req[r].pc \in Waits

Answered(r, k, a) == req[r].kind = k /\ req[r].pc = "done" /\ req[r].reply = a

Init ==
    /\ owner = [st \in Streams |-> None]
    /\ status = [st \in Streams |-> "none"]
    /\ endedAt = [st \in Streams |-> None]
    /\ tagged = [st \in Streams |-> FALSE]
    /\ req = [r \in Requests |-> NewReq]

Goto(r, p) == req' = [req EXCEPT ![r].pc = p]

Answer(r, a) == req' = [req EXCEPT ![r].pc = "done", ![r].reply = a]

(***************************************************************************)
(* Deviations: wrong versions of some decisions and commands below, used   *)
(* by no specification.                                                    *)
(***************************************************************************)

\* the existing LIVE row is not looked for
HasLiveUnchecked(u) == FALSE

\* UPDATE ... WHERE id, user_id     and     WHERE id, status
EndableAnyStatus(r) == owner[req[r].stream] = req[r].user

EndableAnyUser(r) == status[req[r].stream] = "LIVE"

\* the streamer's own departure is only logged
LeavingEndsNever(r) == FALSE

\* the status is left LIVE, the tags are not inserted
FinishStaysLive(st, r) ==
    endedAt' = [endedAt EXCEPT ![st] = r] /\ UNCHANGED status

InsertTagsForgotten(st) == UNCHANGED tagged

\* a status that the enum lacks
FinishAsEnded(st, r) ==
    status' = [status EXCEPT ![st] = "ENDED"] /\ endedAt' = [endedAt EXCEPT ![st] = r]

(***************************************************************************)
(* Decisions and commands.                                                 *)
(***************************************************************************)

\* findFirst WHERE user_id, status = LIVE
HasLive(u) == \E st \in Streams : owner[st] = u /\ status[st] = "LIVE"

\* UPDATE ... WHERE id, user_id, status = LIVE finds its row
Endable(r) ==
    owner[req[r].stream] = req[r].user /\ status[req[r].stream] = "LIVE"

\* stream.userId === userId and stream.status !== FINISHED
LeavingEnds(r) ==
    owner[req[r].stream] = req[r].user /\ status[req[r].stream] # "FINISHED"

InsertRow(st, u) ==
    /\ owner' = [owner EXCEPT ![st] = u]
    /\ status' = [status EXCEPT ![st] = "LIVE"]
    /\ UNCHANGED <<endedAt, tagged>>

InsertTags(st) == tagged' = [tagged EXCEPT ![st] = TRUE]

\* data: { status: FINISHED, endedAt: new Date() }
Finish(st, r) ==
    /\ status' = [status EXCEPT ![st] = "FINISHED"]
    /\ endedAt' = [endedAt EXCEPT ![st] = r]

(***************************************************************************)
(* Requests arrive.  JwtAuthGuard has put the userId of a valid token in   *)
(* the request; ids in the path are arbitrary.                             *)
(***************************************************************************)
Arrive(r, k, u, st, tg, p) ==
    /\ req[r].pc = "new"
    /\ req' = [req EXCEPT ![r] = [kind |-> k, user |-> u, stream |-> st,
                                  tags |-> tg, pc |-> p, reply |-> "none"]]
    /\ UNCHANGED rows

CreateStream(r, u, tg) == Arrive(r, "create", u, None, tg, "auth")

EndStream(r, u, st) == Arrive(r, "end", u, st, FALSE, "auth")

LeaveStream(r, u, st) == Arrive(r, "leave", u, st, FALSE, "find")

(***************************************************************************)
(* findUserByUserId: GET /user/<id> of the user service, with a timeout.   *)
(***************************************************************************)
AuthConfirms(r) ==
    /\ req[r].pc = "auth"
    /\ Goto(r, IF req[r].kind = "create" THEN "check" ELSE "update")
    /\ UNCHANGED rows

\* The statuses a client gets when the service does not confirm the user: its
\* own 401 and 404, "500" when it stays silent until the timeout, when the
\* connection fails or when the body is empty (the NotFoundException thrown
\* for that is caught as an unexpected error), any other status passed on.
AuthRefusals == {"401", "404", "500", "auth status"}

AuthRefuses(r, a) ==
    /\ req[r].pc = "auth"
    /\ Answer(r, a)
    /\ UNCHANGED rows

(***************************************************************************)
(* createStream                                                            *)
(***************************************************************************)
CheckLive(r) ==
    /\ req[r].pc = "check"
    /\ IF HasLive(req[r].user) THEN Answer(r, "400") ELSE Goto(r, "insert")
    /\ UNCHANGED rows

Insert(r, st) ==
    /\ req[r].pc = "insert"
    /\ status[st] = "none"
    /\ InsertRow(st, req[r].user)
    /\ req' = [req EXCEPT ![r].stream = st,
                          ![r].pc = IF req[r].tags THEN "tags" ELSE "done",
                          ![r].reply = IF req[r].tags THEN "none" ELSE "ok"]

Tag(r) ==
    /\ req[r].pc = "tags"
    /\ InsertTags(req[r].stream)
    /\ Answer(r, "ok")
    /\ UNCHANGED <<owner, status, endedAt>>

(***************************************************************************)
(* endStream: one conditional UPDATE; Prisma's P2025 becomes 404.          *)
(***************************************************************************)
EndUpdate(r) ==
    /\ req[r].pc = "update"
    /\ IF Endable(r)
       THEN Finish(req[r].stream, r) /\ Answer(r, "ok")
       ELSE UNCHANGED <<status, endedAt>> /\ Answer(r, "404")
    /\ UNCHANGED <<owner, tagged>>

(***************************************************************************)
(* leaveStream: a SELECT, then an UPDATE by id only.                       *)
(***************************************************************************)
LeaveFind(r) ==
    /\ req[r].pc = "find"
    /\ \/ status[req[r].stream] = "none" /\ Answer(r, "404")
       \/ status[req[r].stream] # "none" /\ LeavingEnds(r) /\ Goto(r, "finish")
       \/ status[req[r].stream] # "none" /\ ~LeavingEnds(r) /\ Answer(r, "ok")
    /\ UNCHANGED rows

LeaveFinish(r) ==
    /\ req[r].pc = "finish"
    /\ Finish(req[r].stream, r)
    /\ Answer(r, "ok")
    /\ UNCHANGED <<owner, tagged>>

Step(r) ==
    \/ AuthConfirms(r)
    \/ \E a \in AuthRefusals : AuthRefuses(r, a)
    \/ CheckLive(r)
    \/ \E st \in Streams : Insert(r, st)
    \/ Tag(r)
    \/ EndUpdate(r)
    \/ LeaveFind(r) \/ LeaveFinish(r)

(***************************************************************************)
(* The awaited database call rejects: the command was not executed, or it  *)
(* was and its reply is lost.  Nothing done before is undone.              *)
(***************************************************************************)
LostReply(r) ==
    \/ /\ req[r].pc = "insert"
       /\ \E st \in Streams : status[st] = "none" /\ InsertRow(st, req[r].user)
    \/ /\ req[r].pc = "tags"
       /\ InsertTags(req[r].stream)
       /\ UNCHANGED <<owner, status, endedAt>>
    \/ /\ req[r].pc = "finish" \/ (req[r].pc = "update" /\ Endable(r))
       /\ Finish(req[r].stream, r)
       /\ UNCHANGED <<owner, tagged>>

DatabaseFails(r) ==
    /\ Pending(r) /\ req[r].pc # "auth"
    /\ LostReply(r) \/ UNCHANGED rows
    /\ Answer(r, "500")

-----------------------------------------------------------------------------
Arrivals(r, u) ==
    \/ \E tg \in BOOLEAN : CreateStream(r, u, tg)
    \/ \E st \in Streams : EndStream(r, u, st) \/ LeaveStream(r, u, st)

Handling == \E r \in Requests : Step(r) \/ DatabaseFails(r)

Next == (\E r \in Requests, u \in Users : Arrivals(r, u)) \/ Handling

Spec == Init /\ [][Next]_vars

\* The same, but no user sends a request while one of his is pending.
Alone(u) == \A r \in Requests : Pending(r) => req[r].user # u

SerialNext == (\E r \in Requests, u \in Users : Alone(u) /\ Arrivals(r, u)) \/ Handling

SerialSpec == Init /\ [][SerialNext]_vars

\* Every awaited call is answered or rejected: the HTTP client gives up after
\* 5 s (http.module.ts:16), and the database is assumed to answer.
FairSpec == Spec /\ \A r \in Requests : WF_vars(Step(r) \/ DatabaseFails(r))

-----------------------------------------------------------------------------
\* The columns and the requests have their types: a status is a member of the
\* enum StreamStatus (schema.prisma:25-51).
TypeOK ==
    /\ owner \in [Streams -> Users \cup {None}]
    /\ status \in [Streams -> {"LIVE", "FINISHED", "none"}]
    /\ endedAt \in [Streams -> Requests \cup {None}]
    /\ tagged \in [Streams -> BOOLEAN]
    /\ req \in [Requests ->
                  [kind : Kinds, user : Users, stream : Streams \cup {None},
                   tags : BOOLEAN, pc : Waits \cup {"done"},
                   reply : Replies \cup {"none"}] \cup {NewReq}]

\* At most one 'end' of a stream is ever acknowledged, and whoever got the
\* acknowledgement owns the stream (stream.service.ts:111-121).
EndAckedOnce ==
    \A r1, r2 \in Requests :
        /\ Answered(r1, "end", "ok") /\ Answered(r2, "end", "ok")
        /\ req[r1].stream = req[r2].stream
        => r1 = r2 /\ req[r1].user = owner[req[r1].stream]

\* What a client has been told stays true: a created stream is his and has its
\* tags, an ended one and one its streamer left are over
\* (stream.service.ts:54-91, 111-126, 354-371).
AckTruthful ==
    \A r \in Requests :
        LET st == req[r].stream IN
        /\ Answered(r, "create", "ok") =>
              /\ owner[st] = req[r].user /\ status[st] # "none"
              /\ req[r].tags => tagged[st]
        /\ Answered(r, "end", "ok") => status[st] = "FINISHED"
        /\ Answered(r, "leave", "ok") /\ owner[st] = req[r].user
              => status[st] = "FINISHED"

\* A stream ends only by a request of its own streamer, and a finished one
\* never comes back, loses its owner or changes hands
\* (stream.service.ts:112, 354-362).
EndedByOwnerForGood ==
    [][\A st \in Streams :
          /\ owner[st] # None => owner'[st] = owner[st]
          /\ status[st] = "FINISHED" => status'[st] = "FINISHED"
          /\ status[st] = "LIVE" /\ status'[st] # "LIVE" =>
                \E r \in Requests : /\ Pending(r) /\ ~Pending(r)'
                                    /\ req[r].kind \in {"end", "leave"}
                                    /\ req[r].stream = st
                                    /\ req[r].user = owner[st]]_vars

\* The streamer's departure ends his stream unless the database failed
\* (stream.service.ts:353-362).
DepartureEnds ==
    \A r \in Requests, st \in Streams :
        /\ req[r].kind = "leave" /\ Pending(r)
        /\ req[r].stream = st /\ req[r].user = owner[st]
        ~> status[st] = "FINISHED" \/ Answered(r, "leave", "500")

\* A user has one LIVE stream (stream.service.ts:49-51).
OneLivePerUser ==
    \A s1, s2 \in Streams :
        /\ owner[s1] = owner[s2] /\ status[s1] = "LIVE" /\ status[s2] = "LIVE"
        => s1 = s2

\* The streamer's UPDATE of a row that he has read as his and not FINISHED.
ReadAsUnended(r, st) ==
    req[r].pc = "finish" /\ req[r].stream = st /\ req[r].user = owner[st]

\* Once a stream has its end time, only departures of the streamer that had read
\* the row before can move it, each of them once; a retried or late 'end', and
\* whatever arrives afterwards, cannot (stream.service.ts:112-116, 343-362).
EndTimeMovesInRaceOnly ==
    [][\A st \in Streams :
          endedAt[st] # None =>
             /\ endedAt'[st] # endedAt[st] =>
                   \E r \in Requests : /\ ReadAsUnended(r, st) /\ ~Pending(r)'
                                       /\ endedAt'[st] = r
             /\ \A r \in Requests : ReadAsUnended(r, st)' => ReadAsUnended(r, st)]_vars

\* The end time of a stream, once stored, is never moved: a departure looks for
\* FINISHED and only logs "already finished" then (stream.service.ts:355, 368).
EndTimeStable ==
    [][\A st \in Streams :
          endedAt[st] # None => endedAt'[st] = endedAt[st]]_vars
=============================================================================
