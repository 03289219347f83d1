--------------------------- MODULE AudienceProofs ---------------------------
(***************************************************************************)
(* When the handlers of a user do not overlap and no mapping expires,      *)
(* StreamsGateway implements Audience: for every number of sockets, users, *)
(* streams and requests.                                                   *)
(***************************************************************************)
EXTENDS AudienceRefinement, StreamsGatewayProofs

USE OwnerAssumption, UserOfAssumption, RoomsAssumption, NoneAssumption,
    CallsAssumption

(***************************************************************************)
(* What a user has asked.  AskedExact follows from CalmInv: the request is *)
(* that of the one active handler, if there is one.                        *)
(***************************************************************************)
AskedExact ==
    /\ \A t \in Tasks : Active(t) =>
          AskedOf(task[t].stream, User(t)) = <<task[t].kind, task[t].sock>>
    /\ \A st \in Streams, u \in Users : Quiet(u, st) => AskedOf(st, u) = None

LEMMA AskedKnown == CalmInv => AskedExact
  <1> SUFFICES ASSUME CalmInv PROVE AskedExact
    OBVIOUS
  <1>1. ASSUME NEW t \in Tasks, Active(t)
        PROVE  AskedOf(task[t].stream, User(t)) = <<task[t].kind, task[t].sock>>
    <2> DEFINE T == {x \in Tasks : /\ Active(x) /\ task[x].stream = task[t].stream
                                   /\ User(x) = User(t)}
    <2>1. T = {t}
      BY <1>1 DEF CalmInv, NoOverlap
    <2>2. (CHOOSE x \in T : TRUE) = t
      BY <2>1
    <2>3. QED
      BY <2>1, <2>2 DEF AskedOf
  <1>2. ASSUME NEW st \in Streams, NEW u \in Users, Quiet(u, st)
        PROVE  AskedOf(st, u) = None
    BY <1>2 DEF AskedOf, Quiet
  <1>3. QED
    BY <1>1, <1>2 DEF AskedExact

\* A handler's step changes what is asked only by ending.
LEMMA StepAsked ==
    ASSUME CalmInv, CalmInv', AskedExact, AskedExact', NEW t \in Tasks, Step(t)
    PROVE  /\ task'[t] = Idle =>
                Requested' = [Requested EXCEPT ![task[t].stream][User(t)] = None]
           /\ task'[t] # Idle => Requested' = Requested
  <1>0. /\ TypeOK /\ Active(t)
        /\ task[t].sock \in Sockets /\ task[t].stream \in Streams /\ User(t) \in Users
        /\ \A x \in Tasks \ {t} : task'[x] = task[x]
    BY HandlerActive, HandlerSlots, ActiveTask DEF CalmInv, KeysInv
  <1>1. PICK y \in Streams, v \in Users : task[t].stream = y /\ User(t) = v
    BY <1>0
  <1>2. ASSUME NEW st \in Streams, NEW u \in Users, ~(st = y /\ u = v)
        PROVE  AskedOf(st, u)' = AskedOf(st, u)
    <2>1. CASE Quiet(u, st)
      <3>1. Quiet(u, st)'
        BY <1>0, <1>1, <1>2, <2>1, HandlerSlots DEF Quiet, Active, User, Idle
      <3>2. QED
        BY <2>1, <3>1 DEF AskedExact
    <2>2. CASE ~Quiet(u, st)
      <3>1. PICK x \in Tasks : Active(x) /\ User(x) = u /\ task[x].stream = st
        BY <2>2 DEF Quiet
      <3>2. /\ task'[x] = task[x] /\ Active(x)' /\ User(x)' = u
            /\ task'[x].stream = st
        BY <1>0, <1>1, <1>2, <3>1 DEF Active, User
      <3>3. AskedOf(st, u) = <<task[x].kind, task[x].sock>>
        BY <3>1 DEF AskedExact
      <3>4. AskedOf(st, u)' = <<task'[x].kind, task'[x].sock>>
        BY <3>2 DEF AskedExact
      <3>5. QED
        BY <3>2, <3>3, <3>4
    <2>3. QED
      BY <2>1, <2>2
  <1>3. task'[t] = Idle => AskedOf(y, v)' = None
    <2>1. ASSUME task'[t] = Idle PROVE Quiet(v, y)'
      <3>1. ~Active(t)'
        BY <2>1 DEF Active, Idle
      <3>2. QED
        BY <1>0, <1>1, <3>1 DEF CalmInv, NoOverlap, Quiet, Active, User
    <2>2. QED
      BY <2>1 DEF AskedExact
  <1>4. task'[t] # Idle => AskedOf(y, v)' = AskedOf(y, v)
    <2>1. ASSUME task'[t] # Idle
          PROVE  /\ Active(t)' /\ User(t)' = v /\ task'[t].stream = y
                 /\ task'[t].kind = task[t].kind /\ task'[t].sock = task[t].sock
      <3>1. Active(t)'
        BY <2>1, <1>0, <1>1, OwnProgress
      <3>2. QED
        BY <1>0, <1>1, <2>1, <3>1, HandlerSlots DEF User
    <2>2. QED
      BY <1>0, <1>1, <2>1 DEF AskedExact
  <1>5. ASSUME task'[t] = Idle
        PROVE  Requested' = [Requested EXCEPT ![y][v] = None]
    BY <1>2, <1>3, <1>5 DEF Requested
  <1>6. ASSUME task'[t] # Idle PROVE Requested' = Requested
    BY <1>2, <1>4, <1>6 DEF Requested
  <1>7. QED
    BY <1>1, <1>5, <1>6

\* The requests R that the socket s starts are new ones of a user at rest.
Arrived(k, s, R) ==
    /\ R \subseteq Streams
    /\ \A st \in R : Quiet(UserOf[s], st)
    /\ \A t \in Tasks :
          \/ task'[t] = task[t]
          \/ ~Active(t) /\ \E st \in R : task'[t] = Start(k, s, st)
    /\ \A st \in R : \E t \in Tasks : task'[t] = Start(k, s, st)
    /\ UNCHANGED <<viewers, userKey>>

\* Whatever arrives, it is one request, or the cleanups of one socket, or none.
LEMMA CalmArrival ==
    ASSUME CalmInv, TurnArrivals
    PROVE  \E s \in Sockets :
              \/ \E st \in Streams : \/ Arrived("join", s, {st})
                                     \/ Arrived("leave", s, {st})
              \/ \E R \in SUBSET Streams : Arrived("disconnect", s, R)
  <1>0. /\ task \in [Tasks -> Activation \cup {Idle}]
        /\ rooms \in [Sockets -> SUBSET Streams]
    BY DEF CalmInv, KeysInv, TypeOK
  <1>1. ASSUME NEW s \in Sockets, Connect(s) PROVE Arrived("disconnect", s, {})
    BY <1>1 DEF Connect, Arrived
  <1>2. ASSUME NEW s \in Sockets, \A st \in RoomsVisited(s) : Quiet(UserOf[s], st),
               Disconnect(s)
        PROVE  Arrived("disconnect", s, RoomsVisited(s))
    <2>1. RoomsVisited(s) \subseteq Streams /\ Sockets \X Streams \subseteq Tasks
      BY <1>0 DEF RoomsVisited, Tasks
    <2>2. ASSUME NEW st \in RoomsVisited(s)
          PROVE  \E t \in Tasks : task'[t] = Start("disconnect", s, st)
      <3>1. <<s, st>> \in Tasks /\ <<s, st>> \in {s} \X RoomsVisited(s)
        BY <2>1
      <3>2. task'[<<s, st>>] = Start("disconnect", s, st)
        BY <1>2, <3>1 DEF Disconnect
      <3>3. QED
        BY <3>1, <3>2
    <2>3. ASSUME NEW t \in Tasks
          PROVE  \/ task'[t] = task[t]
                 \/ ~Active(t) /\ \E st \in RoomsVisited(s) :
                                     task'[t] = Start("disconnect", s, st)
      <3>1. CASE t \in {s} \X RoomsVisited(s)
        <4>1. task'[t] = Start("disconnect", s, t[2]) /\ t[2] \in RoomsVisited(s)
          BY <1>2, <3>1 DEF Disconnect
        <4>2. t \in Sockets \X Streams /\ t[1] = s
          BY <2>1, <3>1
        <4>3. ~Active(t)
          BY <1>2, <4>2 DEF CalmInv, SlotsInv, Disconnect
        <4>4. QED
          BY <4>1, <4>3
      <3>2. CASE t \notin {s} \X RoomsVisited(s)
        BY <1>2, <3>2 DEF Disconnect
      <3>3. QED
        BY <3>1, <3>2
    <2>4. UNCHANGED <<viewers, userKey>>
      BY <1>2 DEF Disconnect
    <2>5. QED
      BY <1>2, <2>1, <2>2, <2>3, <2>4 DEF Arrived
  <1>3. ASSUME NEW c \in Calls, NEW s \in Sockets, NEW st \in Streams,
               Quiet(UserOf[s], st), NEW k \in {"join", "leave"}, Request(c, k, s, st)
        PROVE  Arrived(k, s, {st})
    BY <1>0, <1>3 DEF Request, Arrived, Tasks
  <1>4. \A s \in Sockets : RoomsVisited(s) \in SUBSET Streams
    BY <1>0 DEF RoomsVisited
  <1>5. QED
    BY <1>1, <1>2, <1>3, <1>4 DEF TurnArrivals, JoinRequest, LeaveRequest

\* An arrival asks for just the streams of R.
LEMMA ArrivalAsked ==
    ASSUME CalmInv, AskedExact, AskedExact',
           NEW k, NEW s \in Sockets, NEW R, Arrived(k, s, R)
    PROVE  Promise!Ask(k, s, R)
  <1> DEFINE v == UserOf[s]
  <1>0. R \subseteq Streams /\ v \in Users
    BY DEF Arrived
  <1>1. \A st \in R : Requested[st][v] = None
    BY <1>0 DEF Arrived, AskedExact, Requested
  <1>2. ASSUME NEW st \in R PROVE AskedOf(st, v)' = <<k, s>>
    <2>1. PICK t \in Tasks : task'[t] = Start(k, s, st)
      BY DEF Arrived
    <2>2. /\ Active(t)' /\ User(t)' = v /\ task'[t].stream = st
          /\ task'[t].kind = k /\ task'[t].sock = s
      BY <2>1 DEF Start, Active, User
    <2>3. QED
      BY <2>2 DEF AskedExact
  <1>3. ASSUME NEW st \in Streams, NEW u \in Users, ~(st \in R /\ u = v)
        PROVE  AskedOf(st, u)' = AskedOf(st, u)
    <2>1. CASE Quiet(u, st)
      <3>1. ASSUME NEW t \in Tasks, Active(t)'
            PROVE  ~(User(t)' = u /\ task'[t].stream = st)
        <4>1. CASE task'[t] = task[t]
          BY <2>1, <3>1, <4>1 DEF Quiet, Active, User
        <4>2. CASE \E x \in R : task'[t] = Start(k, s, x)
          BY <1>3, <4>2 DEF Start, User
        <4>3. QED
          BY <4>1, <4>2 DEF Arrived
      <3>2. Quiet(u, st)'
        BY <3>1 DEF Quiet
      <3>3. QED
        BY <2>1, <3>2 DEF AskedExact
    <2>2. CASE ~Quiet(u, st)
      <3>1. PICK x \in Tasks : Active(x) /\ User(x) = u /\ task[x].stream = st
        BY <2>2 DEF Quiet
      <3>2. task'[x] = task[x]
        BY <3>1 DEF Arrived
      <3>3. Active(x)' /\ User(x)' = u /\ task'[x].stream = st
        BY <3>1, <3>2 DEF Active, User
      <3>4. AskedOf(st, u) = <<task[x].kind, task[x].sock>>
        BY <3>1 DEF AskedExact
      <3>5. AskedOf(st, u)' = <<task'[x].kind, task'[x].sock>>
        BY <3>3 DEF AskedExact
      <3>6. QED
        BY <3>2, <3>4, <3>5
    <2>3. QED
      BY <2>1, <2>2
  <1>4. Requested' = [st \in Streams |->
                        IF st \in R THEN [Requested[st] EXCEPT ![v] = <<k, s>>]
                        ELSE Requested[st]]
    <2>1. ASSUME NEW st \in Streams
          PROVE  Requested'[st] = IF st \in R
                                  THEN [Requested[st] EXCEPT ![v] = <<k, s>>]
                                  ELSE Requested[st]
      BY <1>2, <1>3 DEF Requested
    <2>2. QED
      BY <2>1 DEF Requested
  <1>5. viewers' = viewers
    BY DEF Arrived
  <1>6. QED
    BY <1>1, <1>4, <1>5 DEF Promise!Ask

-----------------------------------------------------------------------------
(***************************************************************************)
(* A leave or a disconnect has given the seat up from its SREM on, so that *)
(* what it answers is true.                                                *)
(***************************************************************************)
Left(t) ==
    /\ task[t].kind \in {"leave", "disconnect"}
    /\ task[t].pc \in {"get", "del", "card"}

SeatLeft ==
    \A t \in Tasks : Left(t) => task[t].sock \notin viewers[task[t].stream]

\* Only the join of the same user could take the seat again, and there is none.
LEMMA SeatStaysLeft == CalmInv /\ SeatLeft /\ [CalmNext]_vars => SeatLeft'
  <1> SUFFICES ASSUME CalmInv, SeatLeft, [CalmNext]_vars,
                      NEW x \in Tasks, Left(x)'
               PROVE  task'[x].sock \notin viewers'[task'[x].stream]
    BY DEF SeatLeft
  <1>1. CASE TurnArrivals
    <2>1. PICK k \in Kinds, s \in Sockets, R \in SUBSET Streams : Arrived(k, s, R)
      BY <1>1, CalmArrival DEF Kinds
    <2>2. task'[x] = task[x]
      <3>1. \A st \in R : task'[x] # Start(k, s, st)
        BY DEF Start, Left
      <3>2. QED
        BY <2>1, <3>1 DEF Arrived
    <2>3. viewers' = viewers /\ Left(x)
      BY <2>1, <2>2 DEF Arrived, Left
    <2>4. QED
      BY <2>2, <2>3 DEF SeatLeft
  <1>2. ASSUME NEW t \in Tasks, Step(t)
        PROVE  task'[x].sock \notin viewers'[task'[x].stream]
    <2>1. /\ TypeOK /\ Active(t) /\ StoreEffect(t) /\ task[t] \in Activation
          /\ task[t].sock \in Sockets /\ task[t].stream \in Streams
          /\ task \in [Tasks -> Activation \cup {Idle}]
          /\ \A y \in Tasks \ {t} : task'[y] = task[y]
      BY <1>2, HandlerActive, HandlerEffect, HandlerSlots, ActiveTask
         DEF CalmInv, KeysInv, TypeOK
    <2>2. CASE x # t
      <3>1. task'[x] = task[x] /\ Left(x) /\ Active(x)
        BY <2>1, <2>2 DEF Left, Active
      <3>2. ~(User(x) = User(t) /\ task[x].stream = task[t].stream)
        BY <2>1, <2>2, <3>1 DEF CalmInv, NoOverlap
      <3>3. task[x].sock \notin viewers[task[x].stream] /\ task[x].stream \in Streams
        BY <2>1, <3>1, ActiveTask DEF SeatLeft
      <3>4. PICK s \in Sockets, st \in Streams :
               task[x].sock = s /\ task[x].stream = st /\ s \notin viewers[st]
        BY <2>1, <3>1, <3>3, ActiveTask
      <3>5. ~(task[t].sock = s /\ task[t].stream = st)
        BY <3>2, <3>4 DEF User
      <3>6. s \notin viewers'[st]
        <4>1. viewers \in [Streams -> SUBSET Sockets]
          BY <2>1 DEF TypeOK
        <4>2. ASSUME NEW z, SRem(task[t].stream, z) PROVE s \notin viewers'[st]
          BY <3>4, <4>1, <4>2 DEF SRem
        <4>3. ASSUME SAdd(task[t].stream, task[t].sock) PROVE s \notin viewers'[st]
          BY <3>4, <3>5, <4>1, <4>3 DEF SAdd
        <4>4. QED
          BY <2>1, <3>4, <4>2, <4>3 DEF StoreEffect
      <3>7. QED
        BY <3>1, <3>4, <3>6
    <2>3. CASE x = t
      <3>1. RemoveSRem(t) \/ RemoveGet(t) \/ RemoveDel(t)
        <4>1. task'[t] # Idle /\ task[t].kind \in {"leave", "disconnect"}
          BY <1>2, <2>1, <2>3, HandlerSlots DEF Left, Idle
        <4>2. ~(LeaveLookup(t) \/ DisconnectLookup(t))
          BY <2>1, <2>3, <4>1
             DEF LeaveLookup, DisconnectLookup, Goto, Finish, Left, Activation
        <4>3. ~(LeaveCounted(t) \/ DisconnectCounted(t))
          BY <2>1, <4>1 DEF LeaveCounted, DisconnectCounted, Finish
        <4>4. QED
          BY <1>2, <4>1, <4>2, <4>3
             DEF Step, JoinLookup, AddGet, AddSRem, AddSAdd, AddSet,
                 JoinCounted, JoinReply, At
      <3>2. task'[t].sock = task[t].sock /\ task'[t].stream = task[t].stream
        BY <1>2, <2>1, <2>3, HandlerSlots DEF Left, Idle
      <3>3. CASE RemoveSRem(t)
        BY <2>1, <2>3, <3>2, <3>3 DEF RemoveSRem, SRem, TypeOK
      <3>4. CASE RemoveGet(t) \/ RemoveDel(t)
        BY <2>3, <3>2, <3>4 DEF RemoveGet, RemoveDel, At, SeatLeft, Left
      <3>5. QED
        BY <3>1, <3>3, <3>4
    <2>4. QED
      BY <2>2, <2>3
  <1>3. CASE UNCHANGED vars
    BY <1>3 DEF vars, SeatLeft, Left
  <1>4. QED
    BY <1>1, <1>2, <1>3 DEF CalmNext, Steps

\* Every step of a handler is one of Audience, or none.
LEMMA StepPromised ==
    ASSUME CalmInv, CalmInv', AskedExact, AskedExact', SeatLeft,
           NEW t \in Tasks, Step(t)
    PROVE  \/ UNCHANGED <<viewers, Requested>>
           \/ \E s \in Sockets, st \in Streams :
                \/ \E x \in Sockets : Promise!Yield(st, s, x)
                \/ Promise!Take(st, s) \/ Promise!Vacate(st, s)
                \/ Promise!Answer(st, s)
  <1>0. /\ TypeOK /\ Active(t) /\ task[t] \in Activation
        /\ task[t].sock \in Sockets /\ task[t].stream \in Streams /\ User(t) \in Users
        /\ task \in [Tasks -> Activation \cup {Idle}]
        /\ Progress(t) /\ Placed(t)
    BY HandlerActive, ActiveTask DEF CalmInv, KeysInv, TypeOK
  <1>1. PICK s \in Sockets, y \in Streams :
           task[t].sock = s /\ task[t].stream = y /\ User(t) = UserOf[s]
    BY <1>0 DEF User
  <1>2. Requested[y][UserOf[s]] = <<task[t].kind, s>>
    BY <1>0, <1>1 DEF AskedExact, Requested
  <1>3. /\ task'[t] = Idle => Requested' = [Requested EXCEPT ![y][UserOf[s]] = None]
        /\ task'[t] # Idle => Requested' = Requested
    BY <1>1, StepAsked
  <1>4. ASSUME NEW p \in Awaits, Goto(t, p) PROVE Requested' = Requested
    BY <1>0, <1>3, <1>4 DEF Goto, Idle, Activation, Awaits
  <1>5. ASSUME Finish(t)
        PROVE  Requested' = [Requested EXCEPT ![y][UserOf[s]] = None]
    BY <1>0, <1>3, <1>5 DEF Finish
  <1>6. {"lookup", "srem", "get", "sadd", "set", "del", "card", "reply"} = Awaits
    BY DEF Awaits
  \* Seats do not change, and the handler goes on.
  <1>7. CASE \/ JoinLookup(t) \/ AddSet(t) \/ RemoveGet(t) \/ RemoveDel(t)
             \/ JoinCounted(t)
    BY <1>4, <1>6, <1>7 DEF JoinLookup, AddSet, RemoveGet, RemoveDel, JoinCounted
  <1>8. CASE AddGet(t)
    BY <1>0, <1>3, <1>8 DEF AddGet, Idle, Activation
  \* Seats change.
  <1>9. CASE AddSRem(t)
    <2>1. /\ task[t].kind = "join" /\ SRem(y, task[t].old)
          /\ Counted(UserOf[s], y) = {task[t].old}
      BY <1>0, <1>1, <1>9 DEF AddSRem, At, Progress
    <2>2. task[t].old \in Sockets \ {s} /\ UserOf[task[t].old] = UserOf[s]
      BY <1>1, <1>9 DEF AddSRem, CalmInv, KeysInv, OldIsOwn, At
    <2>3. Requested' = Requested
      BY <1>0, <1>3, <1>9 DEF AddSRem, Idle, Activation
    <2>4. task[t].old \in viewers[y]
      BY <2>1 DEF Counted
    <2>5. Promise!Yield(y, s, task[t].old)
      BY <1>2, <2>1, <2>2, <2>3, <2>4 DEF Promise!Yield, SRem
    <2>6. QED
      BY <2>2, <2>5
  <1>10. CASE AddSAdd(t)
    <2>1. /\ task[t].kind = "join" /\ SAdd(y, s) /\ Requested' = Requested
          /\ Counted(UserOf[s], y) \subseteq {s}
      BY <1>0, <1>1, <1>4, <1>6, <1>10 DEF AddSAdd, At, Progress
    <2>2. UserOf[s] # Owner[y]
      BY <1>1, <1>10 DEF CalmInv, KeysInv, BusyNotOwner, Busy, AddSAdd, At, IsOwner
    <2>3. CASE s \in viewers[y]
      <3>1. viewers' = viewers
        BY <1>0, <2>1, <2>3 DEF SAdd, TypeOK
      <3>2. QED
        BY <2>1, <3>1
    <2>4. CASE s \notin viewers[y]
      <3>1. \A x \in viewers[y] : UserOf[x] # UserOf[s]
        BY <1>0, <2>1, <2>4 DEF Counted, TypeOK
      <3>2. Promise!Take(y, s)
        BY <1>2, <2>1, <2>2, <3>1 DEF Promise!Take, SAdd
      <3>3. QED
        BY <3>2
    <2>5. QED
      BY <2>3, <2>4
  <1>11. CASE RemoveSRem(t)
    <2>1. /\ task[t].kind \in {"leave", "disconnect"} /\ SRem(y, s)
          /\ Requested' = Requested
      BY <1>1, <1>4, <1>6, <1>11 DEF RemoveSRem, At
    <2>2. Promise!Vacate(y, s)
      BY <1>2, <2>1 DEF Promise!Vacate, SRem
    <2>3. QED
      BY <2>2
  \* The handler ends.
  <1>12. CASE JoinReply(t)
    <2>1. /\ task[t].kind = "join" /\ viewers' = viewers /\ Finish(t)
          /\ UserOf[s] = Owner[y] \/ s \in viewers[y]
      BY <1>0, <1>1, <1>12 DEF JoinReply, At, Progress, IsOwner, Counted
    <2>2. Promise!Answer(y, s)
      BY <1>2, <1>5, <2>1 DEF Promise!Answer
    <2>3. QED
      BY <2>2
  <1>13. CASE LeaveLookup(t) \/ DisconnectLookup(t)
    <2>1. task[t].kind \in {"leave", "disconnect"} /\ viewers' = viewers
      BY <1>13 DEF LeaveLookup, DisconnectLookup, At
    <2>2. CASE IsOwner(t)
      <3>1. Finish(t)
        BY <1>13, <2>2 DEF LeaveLookup, DisconnectLookup
      <3>2. s \notin viewers[y]
        BY <1>1, <2>2 DEF IsOwner, CalmInv, KeysInv, HostExcluded
      <3>3. Promise!Answer(y, s)
        BY <1>2, <1>5, <2>1, <3>1, <3>2 DEF Promise!Answer
      <3>4. QED
        BY <3>3
    <2>3. CASE ~IsOwner(t)
      <3>1. Goto(t, "srem")
        BY <1>13, <2>3 DEF LeaveLookup, DisconnectLookup
      <3>2. QED
        BY <1>4, <1>6, <2>1, <3>1
    <2>4. QED
      BY <2>2, <2>3
  <1>14. CASE LeaveCounted(t) \/ DisconnectCounted(t)
    <2>1. /\ task[t].kind \in {"leave", "disconnect"} /\ viewers' = viewers
          /\ Finish(t) /\ task[t].pc = "card"
      BY <1>14 DEF LeaveCounted, DisconnectCounted, At
    <2>2. s \notin viewers[y]
      BY <1>1, <2>1 DEF SeatLeft, Left
    <2>3. Promise!Answer(y, s)
      BY <1>2, <1>5, <2>1, <2>2 DEF Promise!Answer
    <2>4. QED
      BY <2>3
  <1>15. QED
    BY <1>7, <1>8, <1>9, <1>10, <1>11, <1>12, <1>13, <1>14 DEF Step

\* The initial state is one of Audience: nobody has a seat or waits for one.
LEMMA InitPromised == Init => SeatLeft /\ Promise!Init
  <1> SUFFICES ASSUME Init PROVE SeatLeft /\ Promise!Init
    OBVIOUS
  <1>1. \A t \in Tasks : ~Active(t) /\ ~Left(t)
    BY DEF Init, Active, Left, Idle
  <1>2. \A st \in Streams, u \in Users : AskedOf(st, u) = None
    BY <1>1 DEF AskedOf
  <1>3. QED
    BY <1>1, <1>2 DEF SeatLeft, Promise!Init, Requested, Init

\* Every step of the calm environment is one of Audience, or none.
LEMMA NextPromised ==
    ASSUME CalmInv, CalmInv', AskedExact, AskedExact', SeatLeft, [CalmNext]_vars
    PROVE  [Promise!Next]_(Promise!vars)
  <1>1. CASE TurnArrivals
    <2>1. PICK s \in Sockets :
             \/ \E st \in Streams : \/ Arrived("join", s, {st})
                                    \/ Arrived("leave", s, {st})
             \/ \E R \in SUBSET Streams : Arrived("disconnect", s, R)
      BY <1>1, CalmArrival
    <2>2. \/ \E st \in Streams : \/ Promise!Ask("join", s, {st})
                                 \/ Promise!Ask("leave", s, {st})
          \/ \E R \in SUBSET Streams : Promise!Ask("disconnect", s, R)
      BY <2>1, ArrivalAsked
    <2>3. QED
      BY <2>2 DEF Promise!Next
  <1>2. ASSUME NEW t \in Tasks, Step(t) PROVE [Promise!Next]_(Promise!vars)
    BY <1>2, StepPromised DEF Promise!Next, Promise!vars
  <1>3. CASE UNCHANGED vars
    BY <1>3 DEF vars, Promise!vars, Requested, AskedOf, Active, User
  <1>4. QED
    BY <1>1, <1>2, <1>3 DEF CalmNext, Steps

\* When the handlers of a user do not overlap and his mapping does not expire,
\* the gateway keeps the promise of Audience: a seat is yielded before it is taken, only by a
\* request of its user, and answers are true (streams.gateway.ts:148-168,
\* 217-251, 264-287, 383-411).
THEOREM CalmImplementsAudience == CalmSpec => ImplementsAudience
  <1>1. CalmInv /\ CalmInv' => AskedExact /\ AskedExact'
    BY AskedKnown, PTL
  <1>2. CalmInv /\ CalmInv' /\ SeatLeft /\ [CalmNext]_vars
           => SeatLeft' /\ [Promise!Next]_(Promise!vars)
    BY <1>1, SeatStaysLeft, NextPromised
  <1>3. QED
    BY <1>2, InitPromised, CalmCorrect, PTL
       DEF CalmSpec, ImplementsAudience, Promise!Spec

-----------------------------------------------------------------------------
\* Audience keeps its promise of one seat: nobody takes a seat before his other
\* socket has yielded its own, and the streamer takes none
\* (streams.gateway.ts:230, 389-399).
THEOREM AudienceOneSeat == Promise!Spec => []Promise!OneSeat
  <1> DEFINE Seats == viewers \in [Streams -> SUBSET Sockets] /\ Promise!OneSeat
  <1>1. Promise!Init => Seats
    BY DEF Promise!Init, Promise!OneSeat
  <1>2. Seats /\ [Promise!Next]_(Promise!vars) => Seats'
    <2> SUFFICES ASSUME Seats, [Promise!Next]_(Promise!vars) PROVE Seats'
      OBVIOUS
    <2>1. ASSUME NEW st \in Streams, NEW s \in Sockets, Promise!Take(st, s) PROVE Seats'
      BY <2>1 DEF Promise!Take, Promise!OneSeat
    <2>2. ASSUME NEW st \in Streams, NEW z, viewers' = [viewers EXCEPT ![st] = @ \ {z}]
          PROVE  Seats'
      BY <2>2 DEF Promise!OneSeat
    <2>3. ASSUME viewers' = viewers PROVE Seats'
      BY <2>3 DEF Promise!OneSeat
    <2>4. QED
      BY <2>1, <2>2, <2>3
         DEF Promise!Next, Promise!vars, Promise!Ask, Promise!Yield,
             Promise!Vacate, Promise!Answer
  <1>3. QED
    BY <1>1, <1>2, PTL DEF Promise!Spec

\* So the Redis set of a room never holds its streamer or two sockets of a user
\* whose handlers do not overlap while his mapping lasts
\* (streams.gateway.ts:230, 389-399).
THEOREM CalmOneSeat == CalmSpec => []Promise!OneSeat
  BY CalmImplementsAudience, AudienceOneSeat, PTL DEF ImplementsAudience
=============================================================================
