--------------------------- MODULE StreamsGateway ---------------------------
(***************************************************************************)
(* The viewer bookkeeping of the socket.io gateway                         *)
(* (src/src/common/rtc/streams/streams.gateway.ts): which sockets are in a *)
(* stream's room, which sockets the Redis set `stream:<id>:viewers` counts, *)
(* and which socket the Redis key `stream:<id>:user:<uid>` remembers.      *)
(*                                                                         *)
(* Every handler of the gateway is asynchronous.  Between two `await`s it  *)
(* runs undisturbed on the event loop; at an `await` any other handler, of *)
(* the same socket too, may run.  A handler that has started is a task,    *)
(* its `pc` names the database or Redis reply it awaits, and one action    *)
(* stands for "the store executes the awaited command and the handler runs *)
(* on to its next await".  Commands of different tasks interleave freely:  *)
(* the gateway uses the socket.io Redis adapter, so the sockets may be     *)
(* served by any number of processes that share the stores.                *)
(***************************************************************************)
EXTENDS Naturals, FiniteSets

CONSTANTS
    Streams,           \* the stream rows of the database
    Users,             \* userIds
    Sockets,           \* socket.io connections; a socket id is never reused
    Calls,             \* bound: how many 'join'/'leave' requests run at once
    Owner,             \* Owner[st]: stream.userId, never updated by any code
    UserOf,            \* UserOf[s]: the userId in the socket's handshake token
    RoomsAtDisconnect, \* external: does client.rooms still list the rooms when
                       \* 'disconnect' fires?  FALSE for the socket.io 4.8.1 of
                       \* yarn.lock, which has left them by then; TRUE, what the
                       \* handler is written for, adds behaviours to Spec: a
                       \* callback that fails at once has done nothing.  No
                       \* property is claimed that needs TRUE
    None               \* Redis nil

ASSUME OwnerAssumption == Owner \in [Streams -> Users]
ASSUME UserOfAssumption == UserOf \in [Sockets -> Users]
ASSUME RoomsAssumption == RoomsAtDisconnect \in BOOLEAN
ASSUME NoneAssumption == None \notin Sockets
ASSUME CallsAssumption == Calls \cap (Sockets \X Streams) = {}

VARIABLES
    conn,     \* conn[s]: the life of a connection
    rooms,    \* rooms[s]: the streams whose room `stream-<id>` holds s
    viewers,  \* viewers[st]: the Redis set `stream:<id>:viewers`
    userKey,  \* userKey[st][u]: the Redis string `stream:<id>:user:<u>`
    task      \* task[t]: the handler activation in slot t, or Idle

vars == <<conn, rooms, viewers, userKey, task>>

(***************************************************************************)
(* A request occupies a slot of Calls; the callback that handleDisconnect  *)
(* starts for the room st of socket s has the slot <<s, st>>.              *)
(***************************************************************************)
Tasks == Calls \cup (Sockets \X Streams)

Kinds == {"join", "leave", "disconnect"}

Awaits == {"lookup", "srem", "get", "sadd", "set", "del", "card", "reply"}

Activation ==
    [kind : Kinds, sock : Sockets, stream : Streams, pc : Awaits,
     old : Sockets \cup {None}]

Idle == [kind |-> "none", sock |-> None, stream |-> None, pc |-> "idle",
         old |-> None]

Start(k, s, st) ==
    [kind |-> k, sock |-> s, stream |-> st, pc |-> "lookup", old |-> None]

Active(t) == task[t].pc # "idle"

User(t) == UserOf[task[t].sock]

\* The task t waits for the reply named p in handlers of the kinds K.
At(t, K, p) == task[t].kind \in K /\ task[t].pc = p

(***************************************************************************)
(* Deviations: wrong versions of some decisions and commands below.  No    *)
(* specification uses them; a property that still held with one of them in *)
(* the place of the definition it deviates from would say nothing.         *)
(***************************************************************************)

\* isOwner is never computed
IsOwnerNever(t) == FALSE

\* the previous socket of the user is not looked for
HasOldSocketNever(t) == FALSE

\* the mapping is never deleted
IsCurrentNever(t) == FALSE

\* SADD, client.leave forgotten
SAddForgotten(st, s) == UNCHANGED viewers

LeaveRoomForgotten(s, st) == UNCHANGED rooms

\* the key lacks the userId
SetKeyShared(st, u, s) == userKey' = [userKey EXCEPT ![st] = [v \in Users |-> s]]

\* SET ... NX
SetKeyIfAbsent(st, u, s) ==
    userKey' = [userKey EXCEPT ![st][u] = IF s = None \/ @ = None THEN s ELSE @]

\* the mapping stores the userId
SetKeyToUser(st, u, s) == userKey' = [userKey EXCEPT ![st][u] = u]

\* the handler waits for something that never comes
FinishForgotten(t) == UNCHANGED task

Goto(t, p) == task' = [task EXCEPT ![t].pc = p]

Finish(t) == task' = [task EXCEPT ![t] = Idle]

(***************************************************************************)
(* The decisions of the code, one operator each.                           *)
(***************************************************************************)

\* stream.userId === userId
IsOwner(t) == Owner[task[t].stream] = User(t)

\* oldSocketId && oldSocketId !== socketId
HasOldSocket(t) ==
    userKey[task[t].stream][User(t)] \notin {None, task[t].sock}

\* current === socketId
IsCurrent(t) == userKey[task[t].stream][User(t)] = task[t].sock

\* The rooms that `client.rooms.forEach` visits when 'disconnect' fires.
RoomsVisited(s) == IF RoomsAtDisconnect THEN rooms[s] ELSE {}

(***************************************************************************)
(* What a Redis command does to the store.                                 *)
(***************************************************************************)

SRem(st, s) == viewers' = [viewers EXCEPT ![st] = @ \ {s}]

SAdd(st, s) == viewers' = [viewers EXCEPT ![st] = @ \cup {s}]

SetKey(st, u, s) == userKey' = [userKey EXCEPT ![st][u] = s]

(***************************************************************************)
(* socket.io: client.join after the socket is gone does nothing.           *)
(***************************************************************************)
JoinRoom(s, st) ==
    rooms' = IF conn[s] = "up" THEN [rooms EXCEPT ![s] = @ \cup {st}] ELSE rooms

LeaveRoom(s, st) == rooms' = [rooms EXCEPT ![s] = @ \ {st}]

Init ==
    /\ conn = [s \in Sockets |-> "fresh"]
    /\ rooms = [s \in Sockets |-> {}]
    /\ viewers = [st \in Streams |-> {}]
    /\ userKey = [st \in Streams |-> [u \in Users |-> None]]
    /\ task = [t \in Tasks |-> Idle]

(***************************************************************************)
(* Connections.  WsJwtGuard runs before every 'join' and 'leave' and stores *)
(* the payload of the handshake token in client.data.user, so a socket in  *)
(* a room always has its userId there; a request the guard rejects changes *)
(* nothing and has no action here.                                         *)
(***************************************************************************)
Connect(s) ==
    /\ conn[s] = "fresh"
    /\ conn' = [conn EXCEPT ![s] = "up"]
    /\ UNCHANGED <<rooms, viewers, userKey, task>>

\* The transport closes, the client disconnects, or the server does it: it
\* answers a 'join' whose streamId is not a number with client.disconnect(true).
\* The callbacks for all rooms start in the same turn of the event loop.
Disconnect(s) ==
    /\ conn[s] = "up"
    /\ conn' = [conn EXCEPT ![s] = "down"]
    /\ rooms' = [rooms EXCEPT ![s] = {}]
    /\ task' = [t \in Tasks |->
                  IF t \in {s} \X RoomsVisited(s)
                  THEN Start("disconnect", s, t[2]) ELSE task[t]]
    /\ UNCHANGED <<viewers, userKey>>

(***************************************************************************)
(* Requests: the handler runs up to its await of findStreamById.           *)
(***************************************************************************)
Request(c, k, s, st) ==
    /\ ~Active(c)
    /\ conn[s] = "up"
    /\ task' = [task EXCEPT ![c] = Start(k, s, st)]
    /\ UNCHANGED <<conn, rooms, viewers, userKey>>

JoinRequest(c, s, st) == Request(c, "join", s, st)

LeaveRequest(c, s, st) == Request(c, "leave", s, st)

(***************************************************************************)
(* The stream row arrives.                                                 *)
(***************************************************************************)
JoinLookup(t) ==
    /\ At(t, {"join"}, "lookup")
    /\ JoinRoom(task[t].sock, task[t].stream)
    /\ Goto(t, IF IsOwner(t) THEN "reply" ELSE "get")
    /\ UNCHANGED <<conn, viewers, userKey>>

LeaveLookup(t) ==
    /\ At(t, {"leave"}, "lookup")
    /\ IF IsOwner(t)
       THEN LeaveRoom(task[t].sock, task[t].stream) /\ Finish(t)
       ELSE UNCHANGED rooms /\ Goto(t, "srem")
    /\ UNCHANGED <<conn, viewers, userKey>>

DisconnectLookup(t) ==
    /\ At(t, {"disconnect"}, "lookup")
    /\ IF IsOwner(t) THEN Finish(t) ELSE Goto(t, "srem")
    /\ UNCHANGED <<conn, rooms, viewers, userKey>>

(***************************************************************************)
(* updateViewerCount(..., join = true)                                     *)
(***************************************************************************)
AddGet(t) ==
    /\ At(t, {"join"}, "get")
    /\ task' = [task EXCEPT
                  ![t].pc = IF HasOldSocket(t) THEN "srem" ELSE "sadd",
                  ![t].old = IF HasOldSocket(t)
                             THEN userKey[task[t].stream][User(t)] ELSE None]
    /\ UNCHANGED <<conn, rooms, viewers, userKey>>

AddSRem(t) ==
    /\ At(t, {"join"}, "srem")
    /\ SRem(task[t].stream, task[t].old)
    /\ task' = [task EXCEPT ![t].pc = "sadd", ![t].old = None]
    /\ UNCHANGED <<conn, rooms, userKey>>

AddSAdd(t) ==
    /\ At(t, {"join"}, "sadd")
    /\ SAdd(task[t].stream, task[t].sock)
    /\ Goto(t, "set")
    /\ UNCHANGED <<conn, rooms, userKey>>

AddSet(t) ==
    /\ At(t, {"join"}, "set")
    /\ SetKey(task[t].stream, User(t), task[t].sock)
    /\ Goto(t, "card")
    /\ UNCHANGED <<conn, rooms, viewers>>

(***************************************************************************)
(* updateViewerCount(..., join = false), for 'leave' and for 'disconnect'. *)
(***************************************************************************)
RemoveSRem(t) ==
    /\ At(t, {"leave", "disconnect"}, "srem")
    /\ SRem(task[t].stream, task[t].sock)
    /\ Goto(t, "get")
    /\ UNCHANGED <<conn, rooms, userKey>>

RemoveGet(t) ==
    /\ At(t, {"leave", "disconnect"}, "get")
    /\ Goto(t, IF IsCurrent(t) THEN "del" ELSE "card")
    /\ UNCHANGED <<conn, rooms, viewers, userKey>>

RemoveDel(t) ==
    /\ At(t, {"leave", "disconnect"}, "del")
    /\ SetKey(task[t].stream, User(t), None)
    /\ Goto(t, "card")
    /\ UNCHANGED <<conn, rooms, viewers>>

(***************************************************************************)
(* The last SCARD of updateViewerCount and what its caller does after it.  *)
(* The number itself, and who is shown it, is not part of this module.     *)
(***************************************************************************)
JoinCounted(t) ==
    /\ At(t, {"join"}, "card")
    /\ Goto(t, "reply")
    /\ UNCHANGED <<conn, rooms, viewers, userKey>>

\* The second SCARD of handleJoin, 'joined' to the client, end of handler.
JoinReply(t) ==
    /\ At(t, {"join"}, "reply")
    /\ Finish(t)
    /\ UNCHANGED <<conn, rooms, viewers, userKey>>

LeaveCounted(t) ==
    /\ At(t, {"leave"}, "card")
    /\ LeaveRoom(task[t].sock, task[t].stream)
    /\ Finish(t)
    /\ UNCHANGED <<conn, viewers, userKey>>

DisconnectCounted(t) ==
    /\ At(t, {"disconnect"}, "card")
    /\ Finish(t)
    /\ UNCHANGED <<conn, rooms, viewers, userKey>>

Step(t) ==
    \/ JoinLookup(t) \/ LeaveLookup(t) \/ DisconnectLookup(t)
    \/ AddGet(t) \/ AddSRem(t) \/ AddSAdd(t) \/ AddSet(t)
    \/ RemoveSRem(t) \/ RemoveGet(t) \/ RemoveDel(t)
    \/ JoinCounted(t) \/ LeaveCounted(t) \/ DisconnectCounted(t)
    \/ JoinReply(t)

(***************************************************************************)
(* What else happens to the stores and the processes.                      *)
(***************************************************************************)

\* The mapping was set with EX 3600 and its hour is over.
Expire(st, u) ==
    /\ userKey[st][u] # None
    /\ SetKey(st, u, None)
    /\ UNCHANGED <<conn, rooms, viewers, task>>

\* The awaited write was executed although its reply never arrived.
LostReply(t) ==
    \/ /\ task[t].pc = "srem"
       /\ SRem(task[t].stream,
               IF task[t].kind = "join" THEN task[t].old ELSE task[t].sock)
       /\ UNCHANGED userKey
    \/ /\ task[t].pc = "sadd"
       /\ SAdd(task[t].stream, task[t].sock)
       /\ UNCHANGED userKey
    \/ /\ task[t].pc = "set"
       /\ SetKey(task[t].stream, User(t), task[t].sock)
       /\ UNCHANGED viewers
    \/ /\ task[t].pc = "del"
       /\ SetKey(task[t].stream, User(t), None)
       /\ UNCHANGED viewers

\* The awaited promise rejects.  Only 'leave' goes on after a failed update
\* (its .catch), and only if the stream row had been found.
Fail(t) ==
    /\ Active(t)
    /\ LostReply(t) \/ UNCHANGED <<viewers, userKey>>
    /\ IF task[t].kind = "leave" /\ task[t].pc # "lookup"
       THEN LeaveRoom(task[t].sock, task[t].stream)
       ELSE UNCHANGED rooms
    /\ Finish(t)
    /\ UNCHANGED conn

\* A process dies with the sockets it serves and their handlers; Redis lives.
Crash(S) ==
    /\ S # {}
    /\ \A s \in S : conn[s] # "fresh"
    /\ conn' = [s \in Sockets |-> IF s \in S THEN "down" ELSE conn[s]]
    /\ rooms' = [s \in Sockets |-> IF s \in S THEN {} ELSE rooms[s]]
    /\ task' = [t \in Tasks |-> IF task[t].sock \in S THEN Idle ELSE task[t]]
    /\ UNCHANGED <<viewers, userKey>>

-----------------------------------------------------------------------------
(***************************************************************************)
(* The specifications, from the harshest environment to the kindest.  The  *)
(* code itself enforces none of the restrictions of the later ones: they   *)
(* say under which use of the server a property is claimed.                *)
(***************************************************************************)
Arrivals ==
    \/ \E s \in Sockets : Connect(s) \/ Disconnect(s)
    \/ \E c \in Calls, s \in Sockets, st \in Streams :
          JoinRequest(c, s, st) \/ LeaveRequest(c, s, st)

Steps == \E t \in Tasks : Step(t)

Expiry == \E st \in Streams, u \in Users : Expire(st, u)

Faults ==
    \/ \E t \in Tasks : Fail(t)
    \/ \E S \in SUBSET Sockets : Crash(S)

\* Everything: any interleaving, the mapping expires, commands fail,
\* processes die.
Next == Arrivals \/ Steps \/ Expiry \/ Faults

Spec == Init /\ [][Next]_vars

\* No failing command and no crash.
ReliableNext == Arrivals \/ Steps \/ Expiry

ReliableSpec == Init /\ [][ReliableNext]_vars

\* The same within the hour that a mapping lasts.
WithinHourSpec == Init /\ [][Arrivals \/ Steps]_vars

\* The handlers of one user on one stream do not overlap: he waits for the
\* answer before he asks again, with any of his sockets.  A socket may close at
\* any moment, the middle of its own join included; only the handlers that its
\* disconnection starts count as a request.
Quiet(u, st) ==
    \A t \in Tasks : Active(t) => ~(User(t) = u /\ task[t].stream = st)

TurnArrivals ==
    \/ \E s \in Sockets :
          \/ Connect(s)
          \/ /\ \A st \in RoomsVisited(s) : Quiet(UserOf[s], st)
             /\ Disconnect(s)
    \/ \E c \in Calls, s \in Sockets, st \in Streams :
          /\ Quiet(UserOf[s], st)
          /\ JoinRequest(c, s, st) \/ LeaveRequest(c, s, st)

TurnNext == TurnArrivals \/ Steps \/ Expiry

TurnSpec == Init /\ [][TurnNext]_vars

\* Moreover no mapping expires: all within the hour that a mapping lasts.
CalmNext == TurnArrivals \/ Steps

CalmSpec == Init /\ [][CalmNext]_vars

\* Moreover a socket closes only when none of its user's requests is pending,
\* the case that handleDisconnect is written for.
ClosesAtRest ==
    \A s \in Sockets : conn[s] = "up" /\ conn'[s] = "down" =>
        \A st \in Streams : Quiet(UserOf[s], st)

OrderlySpec == Init /\ [][CalmNext /\ ClosesAtRest]_vars

(***************************************************************************)
(* A reliable store answers every command and the event loop runs every    *)
(* continuation; nobody is obliged to connect, to ask or to close.         *)
(***************************************************************************)
Fairness == \A t \in Tasks : WF_vars(Step(t))

FairReliableSpec == ReliableSpec /\ Fairness

FairCalmSpec == CalmSpec /\ Fairness

-----------------------------------------------------------------------------
(***************************************************************************)
(* What holds in every environment (Spec).                                 *)
(***************************************************************************)

\* The variables have their types: streams.gateway.ts keeps socket ids in the
\* viewers set and a socket id or nothing in a mapping.
TypeOK ==
    /\ conn \in [Sockets -> {"fresh", "up", "down"}]
    /\ rooms \in [Sockets -> SUBSET Streams]
    /\ viewers \in [Streams -> SUBSET Sockets]
    /\ userKey \in [Streams -> [Users -> Sockets \cup {None}]]
    /\ task \in [Tasks -> Activation \cup {Idle}]

\* The streamer is never part of the audience that Redis counts, whichever of
\* the streamer's sockets joins, leaves, disconnects or fails half-way
\* (streams.gateway.ts:153, 230-233, 271).
HostExcluded ==
    \A st \in Streams :
        /\ \A s \in viewers[st] : UserOf[s] # Owner[st]
        /\ userKey[st][Owner[st]] = None

\* A socket stops being counted only through a handler of its own user for
\* that stream: nobody else's join, leave, disconnect or failure uncounts it
\* (the mapping that names the socket to remove is per user,
\* streams.gateway.ts:386-393).
NoForeignUncount ==
    [][\A st \in Streams : \A s \in viewers[st] \ viewers'[st] :
          \E t \in Tasks : /\ Active(t)
                           /\ task'[t] # task[t]
                           /\ task[t].stream = st
                           /\ User(t) = UserOf[s]]_vars

(***************************************************************************)
(* What holds when the stores answer and no process dies (ReliableSpec).   *)
(***************************************************************************)

\* s is the only connection its user ever made so far.
OnlySocket(s) ==
    /\ conn[s] = "up"
    /\ \A x \in Sockets \ {s} : UserOf[x] = UserOf[s] => conn[x] = "fresh"

Watches(s, st) == st \in rooms[s] /\ UserOf[s] # Owner[st]

Pending(s, st, k, P) ==
    \E t \in Tasks : /\ task[t].kind = k /\ task[t].pc \in P
                     /\ task[t].sock = s /\ task[t].stream = st

\* A user with one connection who is in the room is counted, unless the join
\* that put him there has not reached SADD yet or a leave that will take him
\* out has passed its SREM; however many joins and leaves of that connection
\* overlap (streams.gateway.ts:228-233, 273-284, 396, 400).
LoneViewerCounted ==
    \A s \in Sockets, st \in Streams :
        OnlySocket(s) /\ Watches(s, st) =>
            \/ s \in viewers[st]
            \/ Pending(s, st, "join", {"get", "srem", "sadd"})
            \/ Pending(s, st, "leave", {"get", "del", "card"})

\* Such a user does not stay in the room uncounted: he becomes counted or
\* leaves, unless a second connection of his appears.
LoneViewerSettles ==
    \A s \in Sockets, st \in Streams :
        OnlySocket(s) /\ Watches(s, st)
            ~> \/ s \in viewers[st] \/ st \notin rooms[s] \/ ~OnlySocket(s)

(***************************************************************************)
(* What holds when moreover one user's handlers do not overlap: while      *)
(* mappings expire (TurnSpec), and within their hour (CalmSpec).           *)
(***************************************************************************)
Counted(u, st) == {s \in viewers[st] : UserOf[s] = u}

\* Between the user's requests his mapping names a socket that is counted for
\* him, or nothing: losing the mapping, at any await of a handler or between
\* two of them, and closing a socket in the middle of its join never leave it
\* naming a socket that is not counted, which the next join would then remove
\* in vain (streams.gateway.ts:385-404).
KeyNamesCounted ==
    \A st \in Streams, u \in Users :
        Quiet(u, st) => userKey[st][u] \in Counted(u, st) \cup {None}

\* When a viewer is told 'joined', he is counted, and the mapping does not name
\* another socket of his (streams.gateway.ts:232-247, 389-397).
AckHonest ==
    \A t \in Tasks :
        At(t, {"join"}, "reply") /\ ~IsOwner(t) =>
            /\ task[t].sock \in viewers[task[t].stream]
            /\ userKey[task[t].stream][User(t)] \in {task[t].sock, None}

\* Within the hour of his mapping a user counts once in a stream, however many
\* tabs he watches it in and whenever they close: a socket that was left counted
\* when it closed is replaced by his next join (streams.gateway.ts:389-393).
OneCountedPerUser ==
    \A st \in Streams, u \in Users, s1, s2 \in Sockets :
        s1 \in Counted(u, st) /\ s2 \in Counted(u, st) => s1 = s2

(***************************************************************************)
(* What comments of the gateway say and the code does not keep.            *)
(***************************************************************************)

\* A counted socket is in the room, or the cleanup of its disconnection is on
\* its way: what handleDisconnect promises (streams.gateway.ts:139-140).
NoGhost ==
    \A st \in Streams : \A s \in viewers[st] :
        \/ st \in rooms[s]
        \/ Pending(s, st, "disconnect", {"lookup", "srem"})

\* A user none of whose requests is pending counts once: the promise of the
\* comments "동일 유저의 이전 소켓ID 제거" (streams.gateway.ts:389) and
\* "중복-소켓을 정확히 정리" (272), without supposing that his tabs take turns or
\* that his mapping is still there.
OneCountedAtRest ==
    \A st \in Streams, u \in Users, s1, s2 \in Sockets :
        Quiet(u, st) /\ s1 \in Counted(u, st) /\ s2 \in Counted(u, st) => s1 = s2

\* A user who sits in the room with some socket is counted in the number that
\* the streamer is shown, when none of his requests is pending
\* (streams.gateway.ts:235, 369).
RoomUserCounted ==
    \A s \in Sockets, st \in Streams :
        Watches(s, st) /\ Quiet(UserOf[s], st) => Counted(UserOf[s], st) # {}
=============================================================================
