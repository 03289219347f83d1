------------------------ MODULE StreamsGatewayProofs ------------------------
(***************************************************************************)
(* Proofs about StreamsGateway, for every number of sockets, users,        *)
(* streams and overlapping requests, and for both values of                *)
(* RoomsAtDisconnect.                                                      *)
(***************************************************************************)
EXTENDS StreamsGateway, TLAPS

USE OwnerAssumption, UserOfAssumption, RoomsAssumption, NoneAssumption,
    CallsAssumption

(***************************************************************************)
(* Type correctness.                                                       *)
(***************************************************************************)

\* What an active slot holds.
LEMMA ActiveTask ==
    ASSUME TypeOK, NEW t \in Tasks, Active(t)
    PROVE  /\ task[t] \in Activation
           /\ task[t].sock \in Sockets
           /\ task[t].stream \in Streams
           /\ task[t].kind \in Kinds
           /\ task[t].pc \in Awaits
           /\ task[t].old \in Sockets \cup {None}
           /\ User(t) \in Users
  BY DEF TypeOK, Active, Idle, Activation, User

\* The three ways in which a handler changes its own slot.
LEMMA SlotTypes ==
    ASSUME TypeOK, NEW t \in Tasks, Active(t)
    PROVE  /\ Finish(t) => task' \in [Tasks -> Activation \cup {Idle}]
           /\ \A p \in Awaits :
                Goto(t, p) => task' \in [Tasks -> Activation \cup {Idle}]
           /\ \A p \in Awaits, o \in Sockets \cup {None} :
                task' = [task EXCEPT ![t].pc = p, ![t].old = o]
                   => task' \in [Tasks -> Activation \cup {Idle}]
  <1>1. task \in [Tasks -> Activation \cup {Idle}]
    BY DEF TypeOK
  <1>2. task[t] \in Activation
    BY ActiveTask
  <1>3. \A p \in Awaits, o \in Sockets \cup {None} :
           /\ [task[t] EXCEPT !.pc = p] \in Activation
           /\ [task[t] EXCEPT !.pc = p, !.old = o] \in Activation
    BY <1>2 DEF Activation
  <1>4. Finish(t) => task' \in [Tasks -> Activation \cup {Idle}]
    BY <1>1 DEF Finish
  <1>5. ASSUME NEW p \in Awaits, Goto(t, p)
        PROVE  task' \in [Tasks -> Activation \cup {Idle}]
    <2>1. task' = [task EXCEPT ![t] = [task[t] EXCEPT !.pc = p]]
      BY <1>5 DEF Goto
    <2>2. QED
      BY <1>1, <1>3, <2>1
  <1>6. ASSUME NEW p \in Awaits, NEW o \in Sockets \cup {None},
               task' = [task EXCEPT ![t].pc = p, ![t].old = o]
        PROVE  task' \in [Tasks -> Activation \cup {Idle}]
    <2>1. task' = [task EXCEPT ![t] = [task[t] EXCEPT !.pc = p, !.old = o]]
      BY <1>1, <1>6
    <2>2. QED
      BY <1>1, <1>3, <2>1
  <1>7. QED
    BY <1>4, <1>5, <1>6

\* A step of a handler keeps the types.
LEMMA StepTypes ==
    ASSUME TypeOK, NEW t \in Tasks, Step(t)
    PROVE  TypeOK'
  <1>a. Active(t)
    BY DEF Step, JoinLookup, LeaveLookup, DisconnectLookup, AddGet, AddSRem,
           AddSAdd, AddSet, RemoveSRem, RemoveGet, RemoveDel, JoinCounted,
           JoinReply, LeaveCounted, DisconnectCounted, At, Active
  <1>b. /\ task[t].sock \in Sockets /\ task[t].stream \in Streams
        /\ User(t) \in Users /\ task[t].old \in Sockets \cup {None}
    BY <1>a, ActiveTask
  <1>c. \A p \in Awaits : Goto(t, p) => task' \in [Tasks -> Activation \cup {Idle}]
    BY <1>a, SlotTypes
  <1>d. Finish(t) => task' \in [Tasks -> Activation \cup {Idle}]
    BY <1>a, SlotTypes
  <1>e. \A p \in Awaits, o \in Sockets \cup {None} :
           task' = [task EXCEPT ![t].pc = p, ![t].old = o]
              => task' \in [Tasks -> Activation \cup {Idle}]
    BY <1>a, SlotTypes
  <1>f. {"lookup", "srem", "get", "sadd", "set", "del", "card", "reply"} = Awaits
    BY DEF Awaits
  <1>1. CASE JoinLookup(t)
    <2>1. rooms' \in [Sockets -> SUBSET Streams]
      BY <1>1, <1>b DEF JoinLookup, JoinRoom, TypeOK
    <2>2. task' \in [Tasks -> Activation \cup {Idle}]
      BY <1>1, <1>c, <1>f DEF JoinLookup
    <2>3. QED
      BY <1>1, <2>1, <2>2 DEF JoinLookup, TypeOK
  <1>2. CASE LeaveLookup(t)
    <2>1. rooms' \in [Sockets -> SUBSET Streams]
      BY <1>2, <1>b DEF LeaveLookup, LeaveRoom, TypeOK
    <2>2. task' \in [Tasks -> Activation \cup {Idle}]
      BY <1>2, <1>c, <1>d, <1>f DEF LeaveLookup
    <2>3. QED
      BY <1>2, <2>1, <2>2 DEF LeaveLookup, TypeOK
  <1>3. CASE DisconnectLookup(t)
    BY <1>3, <1>c, <1>d, <1>f DEF DisconnectLookup, TypeOK
  <1>4. CASE AddGet(t)
    <2>1. userKey[task[t].stream][User(t)] \in Sockets \cup {None}
      BY <1>b DEF TypeOK
    <2>2. task' \in [Tasks -> Activation \cup {Idle}]
      BY <1>4, <2>1, <1>e, <1>f DEF AddGet
    <2>3. QED
      BY <1>4, <2>2 DEF AddGet, TypeOK
  <1>5. CASE AddSRem(t)
    <2>1. task' \in [Tasks -> Activation \cup {Idle}]
      BY <1>5, <1>e, <1>f DEF AddSRem
    <2>2. QED
      BY <1>5, <2>1 DEF AddSRem, SRem, TypeOK
  <1>6. CASE AddSAdd(t)
    BY <1>6, <1>b, <1>c, <1>f DEF AddSAdd, SAdd, TypeOK
  <1>7. CASE AddSet(t)
    BY <1>7, <1>b, <1>c, <1>f DEF AddSet, SetKey, TypeOK
  <1>8. CASE RemoveSRem(t)
    BY <1>8, <1>c, <1>f DEF RemoveSRem, SRem, TypeOK
  <1>9. CASE RemoveGet(t)
    BY <1>9, <1>c, <1>f DEF RemoveGet, TypeOK
  <1>10. CASE RemoveDel(t)
    BY <1>10, <1>b, <1>c, <1>f DEF RemoveDel, SetKey, TypeOK
  <1>11. CASE JoinCounted(t)
    BY <1>11, <1>c, <1>f DEF JoinCounted, TypeOK
  <1>12. CASE LeaveCounted(t)
    BY <1>12, <1>b, <1>d DEF LeaveCounted, LeaveRoom, TypeOK
  <1>13. CASE DisconnectCounted(t)
    BY <1>13, <1>d DEF DisconnectCounted, TypeOK
  <1>14. CASE JoinReply(t)
    BY <1>14, <1>d DEF JoinReply, TypeOK
  <1>15. QED
    BY <1>1, <1>2, <1>3, <1>4, <1>5, <1>6, <1>7, <1>8, <1>9, <1>10, <1>11,
       <1>12, <1>13, <1>14 DEF Step

\* Every step keeps the types: TypeOK is inductive.
LEMMA NextTypes ==
    TypeOK /\ [Next]_vars => TypeOK'
  <1> SUFFICES ASSUME TypeOK, [Next]_vars PROVE TypeOK'
    OBVIOUS
  <1>0. task \in [Tasks -> Activation \cup {Idle}]
    BY DEF TypeOK
  <1>1. ASSUME NEW s \in Sockets, Connect(s) PROVE TypeOK'
    BY <1>1 DEF Connect, TypeOK
  <1>2. ASSUME NEW s \in Sockets, Disconnect(s) PROVE TypeOK'
    <2>1. ASSUME NEW t \in {s} \X RoomsVisited(s)
          PROVE  Start("disconnect", s, t[2]) \in Activation
      BY <2>1 DEF RoomsVisited, Start, Activation, Kinds, Awaits, TypeOK
    <2>2. task' \in [Tasks -> Activation \cup {Idle}]
      BY <1>0, <1>2, <2>1 DEF Disconnect
    <2>3. QED
      BY <1>2, <2>2 DEF Disconnect, TypeOK
  <1>3. ASSUME NEW c \in Calls, NEW s \in Sockets, NEW st \in Streams,
               JoinRequest(c, s, st) \/ LeaveRequest(c, s, st)
        PROVE  TypeOK'
    <2>1. \A k \in {"join", "leave"} : Start(k, s, st) \in Activation
      BY DEF Start, Activation, Kinds, Awaits
    <2>2. task' \in [Tasks -> Activation \cup {Idle}]
      BY <1>0, <1>3, <2>1 DEF JoinRequest, LeaveRequest, Request
    <2>3. QED
      BY <1>3, <2>2 DEF JoinRequest, LeaveRequest, Request, TypeOK
  <1>4. ASSUME NEW t \in Tasks, Step(t) PROVE TypeOK'
    BY <1>4, StepTypes
  <1>5. ASSUME NEW st \in Streams, NEW u \in Users, Expire(st, u) PROVE TypeOK'
    BY <1>5 DEF Expire, SetKey, TypeOK
  <1>6. ASSUME NEW t \in Tasks, Fail(t) PROVE TypeOK'
    <2>1. /\ task[t].sock \in Sockets /\ task[t].stream \in Streams
          /\ User(t) \in Users
      BY <1>6, ActiveTask DEF Fail
    <2>2. viewers' \in [Streams -> SUBSET Sockets]
      <3>1. CASE LostReply(t)
        <4>1. \A x : SRem(task[t].stream, x) => viewers' \in [Streams -> SUBSET Sockets]
          BY <2>1 DEF SRem, TypeOK
        <4>2. SAdd(task[t].stream, task[t].sock) => viewers' \in [Streams -> SUBSET Sockets]
          BY <2>1 DEF SAdd, TypeOK
        <4>3. QED
          BY <3>1, <4>1, <4>2 DEF LostReply, TypeOK
      <3>2. QED
        BY <1>6, <3>1 DEF Fail, TypeOK
    <2>3. userKey' \in [Streams -> [Users -> Sockets \cup {None}]]
      <3>1. CASE LostReply(t)
        <4>1. \A x \in Sockets \cup {None} :
                SetKey(task[t].stream, User(t), x)
                  => userKey' \in [Streams -> [Users -> Sockets \cup {None}]]
          BY <2>1 DEF SetKey, TypeOK
        <4>2. QED
          BY <2>1, <3>1, <4>1 DEF LostReply, TypeOK
      <3>2. QED
        BY <1>6, <3>1 DEF Fail, TypeOK
    <2>4. rooms' \in [Sockets -> SUBSET Streams]
      <3>1. LeaveRoom(task[t].sock, task[t].stream)
               => rooms' \in [Sockets -> SUBSET Streams]
        BY <2>1 DEF LeaveRoom, TypeOK
      <3>2. QED
        BY <1>6, <3>1 DEF Fail, TypeOK
    <2>5. task' \in [Tasks -> Activation \cup {Idle}]
      BY <1>6, SlotTypes DEF Fail
    <2>6. QED
      BY <1>6, <2>2, <2>3, <2>4, <2>5 DEF Fail, TypeOK
  <1>7. ASSUME NEW S \in SUBSET Sockets, Crash(S) PROVE TypeOK'
    <2>1. task' \in [Tasks -> Activation \cup {Idle}]
      BY <1>0, <1>7 DEF Crash
    <2>2. QED
      BY <1>7, <2>1 DEF Crash, TypeOK
  <1>8. CASE UNCHANGED vars
    BY <1>8 DEF vars, TypeOK
  <1>9. QED
    BY <1>1, <1>2, <1>3, <1>4, <1>5, <1>6, <1>7, <1>8
       DEF Next, Arrivals, Steps, Expiry, Faults

\* The milder specifications only take steps of the harshest.
LEMMA MilderSteps ==
    /\ ReliableNext => Next
    /\ TurnNext => ReliableNext
    /\ CalmNext => TurnNext
  BY DEF ReliableNext, TurnNext, CalmNext, TurnArrivals, Next, Arrivals

\* The initial state has the types.
LEMMA InitTypes == Init => TypeOK
  BY DEF Init, TypeOK

\* Whatever interleaves, fails or dies, the state keeps its types
\* (all of streams.gateway.ts).
THEOREM TypeCorrect == Spec => []TypeOK
  BY InitTypes, NextTypes, PTL DEF Spec

-----------------------------------------------------------------------------
(***************************************************************************)
(* Whom the handlers count.  KeysInv is inductive under every environment: *)
(* a handler past its lookup serves a viewer, never the streamer; a mapping *)
(* and the `old` read from it name a socket of the mapping's own user.     *)
(***************************************************************************)
Busy == {"srem", "get", "sadd", "set", "del", "card"}

BusyNotOwner == \A t \in Tasks : task[t].pc \in Busy => ~IsOwner(t)

KeyIsOwn ==
    \A st \in Streams, u \in Users :
        userKey[st][u] # None => UserOf[userKey[st][u]] = u

OldIsOwn ==
    \A t \in Tasks : At(t, {"join"}, "srem") =>
        /\ task[t].old \in Sockets \ {task[t].sock}
        /\ UserOf[task[t].old] = User(t)

KeysInv == TypeOK /\ BusyNotOwner /\ KeyIsOwn /\ OldIsOwn /\ HostExcluded

\* The socket that an awaited SREM removes.
Removed(t) == IF task[t].kind = "join" THEN task[t].old ELSE task[t].sock

\* All that a handler does to Redis, whether its reply arrives or is lost.
StoreEffect(t) ==
    /\ \/ viewers' = viewers
       \/ task[t].pc = "srem" /\ SRem(task[t].stream, Removed(t))
       \/ task[t].pc = "sadd" /\ SAdd(task[t].stream, task[t].sock)
    /\ \/ userKey' = userKey
       \/ task[t].pc = "set" /\ SetKey(task[t].stream, User(t), task[t].sock)
       \/ task[t].pc = "del" /\ SetKey(task[t].stream, User(t), None)

\* SET and DEL change one mapping.
LEMMA SetKeyValue ==
    ASSUME TypeOK, NEW st \in Streams, NEW u \in Users, NEW x, SetKey(st, u, x),
           NEW st2 \in Streams, NEW u2 \in Users
    PROVE  userKey'[st2][u2] =
              IF st2 = st /\ u2 = u THEN x ELSE userKey[st2][u2]
  <1>1. /\ userKey \in [Streams -> [Users -> Sockets \cup {None}]]
        /\ userKey[st] \in [Users -> Sockets \cup {None}]
    BY DEF TypeOK
  <1>2. userKey' = [userKey EXCEPT ![st] = [userKey[st] EXCEPT ![u] = x]]
    BY DEF SetKey
  <1>3. CASE st2 = st
    BY <1>1, <1>2, <1>3
  <1>4. CASE st2 # st
    BY <1>1, <1>2, <1>4
  <1>5. QED
    BY <1>3, <1>4

\* Only an active slot takes a step.
LEMMA HandlerActive ==
    ASSUME NEW t \in Tasks, Step(t) \/ Fail(t)
    PROVE  Active(t)
  BY DEF Step, JoinLookup, LeaveLookup, DisconnectLookup, AddGet, AddSRem,
         AddSAdd, AddSet, RemoveSRem, RemoveGet, RemoveDel, JoinCounted,
         JoinReply, LeaveCounted, DisconnectCounted, At, Active, Fail

\* All that a handler, failing or not, does to the set and to the mapping.
LEMMA HandlerEffect ==
    ASSUME NEW t \in Tasks, Step(t) \/ Fail(t)
    PROVE  StoreEffect(t)
  <1>1. CASE Fail(t)
    BY <1>1 DEF Fail, LostReply, StoreEffect, Removed
  <1>2. CASE AddSRem(t) \/ RemoveSRem(t)
    BY <1>2 DEF AddSRem, RemoveSRem, At, StoreEffect, Removed
  <1>3. CASE AddSAdd(t) \/ AddSet(t) \/ RemoveDel(t)
    BY <1>3 DEF AddSAdd, AddSet, RemoveDel, At, StoreEffect
  <1>4. CASE \/ JoinLookup(t) \/ LeaveLookup(t) \/ DisconnectLookup(t)
             \/ AddGet(t) \/ RemoveGet(t) \/ JoinCounted(t)
             \/ LeaveCounted(t) \/ DisconnectCounted(t) \/ JoinReply(t)
    BY <1>4 DEF JoinLookup, LeaveLookup, DisconnectLookup, AddGet, RemoveGet,
                JoinCounted, LeaveCounted, DisconnectCounted, JoinReply,
                StoreEffect
  <1>5. QED
    BY <1>1, <1>2, <1>3, <1>4 DEF Step

\* A handler changes no slot but its own, and the request in its own slot
\* stays the same until the slot is free; what it reads with GET is `old`.
LEMMA HandlerSlots ==
    ASSUME TypeOK, NEW t \in Tasks, Step(t) \/ Fail(t)
    PROVE  /\ \A x \in Tasks \ {t} : task'[x] = task[x]
           /\ \/ task'[t] = Idle
              \/ /\ task'[t].kind = task[t].kind
                 /\ task'[t].sock = task[t].sock
                 /\ task'[t].stream = task[t].stream
           /\ task'[t] # task[t]
  <1>0. /\ task \in [Tasks -> Activation \cup {Idle}]
        /\ task[t] \in Activation
    BY HandlerActive, ActiveTask DEF TypeOK
  <1>1. ASSUME Finish(t)
        PROVE  task' = [task EXCEPT ![t] = Idle] /\ task[t] # Idle
    BY <1>1, HandlerActive DEF Finish, Active, Idle
  <1>2. ASSUME NEW p \in Awaits, Goto(t, p), p # task[t].pc
        PROVE  /\ task' = [task EXCEPT ![t] = [task[t] EXCEPT !.pc = p]]
               /\ [task[t] EXCEPT !.pc = p] # task[t]
    BY <1>0, <1>2 DEF Goto, Activation
  <1>3. ASSUME NEW p \in Awaits, NEW o,
               task' = [task EXCEPT ![t].pc = p, ![t].old = o], p # task[t].pc
        PROVE  /\ task' = [task EXCEPT ![t] = [task[t] EXCEPT !.pc = p, !.old = o]]
               /\ [task[t] EXCEPT !.pc = p, !.old = o] # task[t]
    BY <1>0, <1>3 DEF Activation
  <1>4. CASE \/ Fail(t) \/ LeaveCounted(t) \/ DisconnectCounted(t) \/ JoinReply(t)
    <2>1. Finish(t)
      BY <1>4 DEF Fail, LeaveCounted, DisconnectCounted, JoinReply
    <2>2. QED
      BY <1>0, <1>1, <2>1
  <1>5. CASE AddGet(t) \/ AddSRem(t)
    <2>1. \E p \in Awaits, o \in Sockets \cup {None} :
            /\ task' = [task EXCEPT ![t].pc = p, ![t].old = o]
            /\ p # task[t].pc
      <3>1. CASE AddGet(t)
        <4>1. userKey[task[t].stream][User(t)] \in Sockets \cup {None}
          BY HandlerActive, ActiveTask DEF TypeOK
        <4>2. QED
          BY <3>1, <4>1 DEF AddGet, At, Awaits
      <3>2. CASE AddSRem(t)
        BY <3>2 DEF AddSRem, At, Awaits
      <3>3. QED
        BY <1>5, <3>1, <3>2
    <2>2. PICK p \in Awaits, o \in Sockets \cup {None} :
            /\ task' = [task EXCEPT ![t].pc = p, ![t].old = o]
            /\ p # task[t].pc
      BY <2>1
    <2>3. /\ task' = [task EXCEPT ![t] = [task[t] EXCEPT !.pc = p, !.old = o]]
          /\ [task[t] EXCEPT !.pc = p, !.old = o] # task[t]
      BY <1>3, <2>2
    <2>4. QED
      BY <1>0, <2>3 DEF Activation
  <1>6. CASE \/ JoinLookup(t) \/ LeaveLookup(t) \/ DisconnectLookup(t)
             \/ AddSAdd(t) \/ AddSet(t) \/ RemoveSRem(t) \/ RemoveGet(t)
             \/ RemoveDel(t) \/ JoinCounted(t)
    <2>1. Finish(t) \/ \E p \in Awaits : Goto(t, p) /\ p # task[t].pc
      BY <1>6 DEF JoinLookup, LeaveLookup, DisconnectLookup, AddSAdd, AddSet,
                  RemoveSRem, RemoveGet, RemoveDel, JoinCounted, At, Awaits
    <2>2. CASE Finish(t)
      BY <1>0, <1>1, <2>2
    <2>3. CASE \E p \in Awaits : Goto(t, p) /\ p # task[t].pc
      <3>1. PICK p \in Awaits : Goto(t, p) /\ p # task[t].pc
        BY <2>3
      <3>2. /\ task' = [task EXCEPT ![t] = [task[t] EXCEPT !.pc = p]]
            /\ [task[t] EXCEPT !.pc = p] # task[t]
        BY <1>2, <3>1
      <3>3. QED
        BY <1>0, <3>2 DEF Activation
    <2>4. QED
      BY <2>1, <2>2, <2>3
  <1>7. QED
    BY <1>4, <1>5, <1>6 DEF Step

\* The keys are empty at first.
LEMMA InitKeys == Init => KeysInv
  BY InitTypes
     DEF Init, KeysInv, BusyNotOwner, KeyIsOwn, OldIsOwn, HostExcluded, Busy,
         Idle, At

\* A step of a handler keeps the mapping and `old` within the user's own sockets.
LEMMA HandlerKeys ==
    ASSUME KeysInv, NEW t \in Tasks, Step(t) \/ Fail(t)
    PROVE  BusyNotOwner' /\ KeyIsOwn' /\ OldIsOwn' /\ HostExcluded'
  <1>0. /\ TypeOK /\ Active(t)
        /\ task[t] \in Activation
        /\ task[t].sock \in Sockets /\ task[t].stream \in Streams
        /\ User(t) \in Users /\ User(t) = UserOf[task[t].sock]
    BY HandlerActive, ActiveTask DEF KeysInv, User
  <1>1. \A x \in Tasks \ {t} : task'[x] = task[x]
    BY <1>0, HandlerSlots
  <1>2. \/ task'[t] = Idle
        \/ /\ task'[t].kind = task[t].kind
           /\ task'[t].sock = task[t].sock
           /\ task'[t].stream = task[t].stream
    BY <1>0, HandlerSlots
  <1>3. BusyNotOwner'
    <2>1. task'[t].pc \in Busy => ~IsOwner(t)
      <3>1. CASE JoinLookup(t) \/ LeaveLookup(t) \/ DisconnectLookup(t)
        BY <1>0, <3>1
           DEF JoinLookup, LeaveLookup, DisconnectLookup, Goto, Finish, Busy,
               Idle, TypeOK, Activation
      <3>2. CASE JoinReply(t) \/ Fail(t)
        BY <1>0, <3>2 DEF JoinReply, Fail, Finish, Busy, Idle, TypeOK
      <3>3. CASE ~(JoinLookup(t) \/ LeaveLookup(t) \/ DisconnectLookup(t)
                   \/ JoinReply(t) \/ Fail(t))
        <4>1. task[t].pc \in Busy
          BY <3>3 DEF Step, AddGet, AddSRem, AddSAdd, AddSet, RemoveSRem,
                      RemoveGet, RemoveDel, JoinCounted, LeaveCounted,
                      DisconnectCounted, At, Busy
        <4>2. QED
          BY <1>0, <4>1 DEF KeysInv, BusyNotOwner
      <3>4. QED
        BY <3>1, <3>2, <3>3
    <2>2. QED
      BY <1>1, <1>2, <2>1
         DEF KeysInv, BusyNotOwner, IsOwner, User, Busy, Idle
  <1>4. StoreEffect(t)
    BY HandlerEffect
  <1>5. ~IsOwner(t) \/ task[t].pc \notin Busy
    BY DEF KeysInv, BusyNotOwner
  <1>6. KeyIsOwn'
    <2>1. ASSUME NEW st \in Streams, NEW u \in Users
          PROVE  \/ userKey'[st][u] = userKey[st][u]
                 \/ userKey'[st][u] = None
                 \/ u = User(t) /\ userKey'[st][u] = task[t].sock
      BY <1>0, <1>4, SetKeyValue DEF StoreEffect
    <2>2. QED
      BY <1>0, <2>1 DEF KeysInv, KeyIsOwn
  <1>7. OldIsOwn'
    <2>1. task'[t].kind = "join" /\ task'[t].pc = "srem"
             => /\ task'[t].old \in Sockets \ {task'[t].sock}
                /\ UserOf[task'[t].old] = UserOf[task'[t].sock]
      <3>1. CASE AddGet(t)
        <4>1. userKey[task[t].stream][User(t)] # None
                => UserOf[userKey[task[t].stream][User(t)]] = User(t)
          BY <1>0 DEF KeysInv, KeyIsOwn
        <4>2. userKey[task[t].stream][User(t)] \in Sockets \cup {None}
          BY <1>0 DEF TypeOK
        <4>3. QED
          BY <1>0, <3>1, <4>1, <4>2
             DEF AddGet, HasOldSocket, TypeOK, Activation, User
      <3>2. CASE ~AddGet(t)
        <4>1. task'[t].kind = "join" => task'[t].pc # "srem"
          <5>1. CASE JoinLookup(t) \/ AddSRem(t) \/ AddSAdd(t) \/ AddSet(t)
                     \/ JoinCounted(t) \/ JoinReply(t) \/ LeaveCounted(t)
                     \/ DisconnectCounted(t) \/ Fail(t)
            BY <1>0, <5>1
               DEF JoinLookup, AddSRem, AddSAdd, AddSet, JoinCounted, JoinReply,
                   LeaveCounted, DisconnectCounted, Fail, Goto, Finish, Idle,
                   TypeOK, Activation
          <5>2. CASE LeaveLookup(t) \/ DisconnectLookup(t) \/ RemoveSRem(t)
                     \/ RemoveGet(t) \/ RemoveDel(t)
            BY <1>2, <5>2
               DEF LeaveLookup, DisconnectLookup, RemoveSRem, RemoveGet,
                   RemoveDel, At, Idle
          <5>3. QED
            BY <3>2, <5>1, <5>2 DEF Step
        <4>2. QED
          BY <4>1
      <3>3. QED
        BY <3>1, <3>2
    <2>2. QED
      BY <1>1, <2>1 DEF KeysInv, OldIsOwn, At, User
  <1>8. HostExcluded'
    <2>1. ASSUME NEW st \in Streams
          PROVE  userKey'[st][Owner[st]] = None
      <3>1. Owner[st] \in Users /\ userKey[st][Owner[st]] = None
        BY DEF KeysInv, HostExcluded
      <3>2. QED
        BY <1>0, <1>4, <1>5, <3>1
           DEF StoreEffect, SetKey, TypeOK, Busy, IsOwner
    <2>2. ASSUME NEW st \in Streams, NEW s \in viewers'[st]
          PROVE  UserOf[s] # Owner[st]
      BY <1>0, <1>4, <1>5, <2>2
         DEF StoreEffect, SRem, SAdd, TypeOK, Busy, IsOwner, KeysInv, HostExcluded
    <2>3. QED
      BY <2>1, <2>2 DEF HostExcluded
  <1>9. QED
    BY <1>3, <1>6, <1>7, <1>8

\* Every step does: KeysInv is inductive.
LEMMA NextKeys == KeysInv /\ [Next]_vars => KeysInv'
  <1> SUFFICES ASSUME KeysInv, [Next]_vars PROVE KeysInv'
    OBVIOUS
  <1>0. TypeOK /\ TypeOK'
    BY NextTypes DEF KeysInv
  <1>a. task \in [Tasks -> Activation \cup {Idle}]
    BY <1>0 DEF TypeOK
  \* Steps that start or drop handlers and leave the stores alone.
  <1>b. ASSUME UNCHANGED <<viewers, userKey>>,
               \A t \in Tasks : \/ task'[t] = task[t]
                                \/ task'[t].pc \in {"lookup", "idle"}
        PROVE  KeysInv'
    BY <1>0, <1>b DEF KeysInv, BusyNotOwner, KeyIsOwn, OldIsOwn, HostExcluded,
                      IsOwner, User, At, Busy
  <1>1. ASSUME NEW s \in Sockets, Connect(s) PROVE KeysInv'
    BY <1>1, <1>b DEF Connect
  <1>2. ASSUME NEW s \in Sockets, Disconnect(s) PROVE KeysInv'
    BY <1>2, <1>a, <1>b DEF Disconnect, Start
  <1>3. ASSUME NEW c \in Calls, NEW s \in Sockets, NEW st \in Streams,
               JoinRequest(c, s, st) \/ LeaveRequest(c, s, st)
        PROVE  KeysInv'
    <2>1. \A t \in Tasks : task'[t] = task[t] \/ task'[t].pc = "lookup"
      BY <1>3, <1>a DEF JoinRequest, LeaveRequest, Request, Start
    <2>2. QED
      BY <1>3, <1>b, <2>1 DEF JoinRequest, LeaveRequest, Request
  <1>4. ASSUME NEW t \in Tasks, Step(t) \/ Fail(t) PROVE KeysInv'
    BY <1>0, <1>4, HandlerKeys DEF KeysInv
  <1>5. ASSUME NEW st \in Streams, NEW u \in Users, Expire(st, u) PROVE KeysInv'
    <2>1. BusyNotOwner' /\ OldIsOwn'
      BY <1>5 DEF Expire, KeysInv, BusyNotOwner, OldIsOwn, IsOwner, User, At
    <2>2. KeyIsOwn' /\ HostExcluded'
      BY <1>5, <1>0 DEF Expire, SetKey, TypeOK, KeysInv, KeyIsOwn, HostExcluded
    <2>3. QED
      BY <1>0, <2>1, <2>2 DEF KeysInv
  <1>6. ASSUME NEW S \in SUBSET Sockets, Crash(S) PROVE KeysInv'
    BY <1>6, <1>a, <1>b DEF Crash, Idle
  <1>7. CASE UNCHANGED vars
    BY <1>7, <1>b DEF vars
  <1>8. QED
    BY <1>1, <1>2, <1>3, <1>4, <1>5, <1>6, <1>7
       DEF Next, Arrivals, Steps, Expiry, Faults

\* Every mapping names a socket of the user it is for, the socket that a join
\* removes as the old one is of the same user, and no handler of the streamer
\* reaches updateViewerCount (streams.gateway.ts:153, 231, 271, 386-393).
THEOREM KeysCorrect == Spec => []KeysInv
  BY InitKeys, NextKeys, PTL DEF Spec

\* Whatever interleaves, expires, fails or dies, the streamer is never in the
\* audience Redis counts (streams.gateway.ts:153, 230-233, 271).
THEOREM HostNeverCounted == Spec => []HostExcluded
  <1>1. KeysInv => HostExcluded
    BY DEF KeysInv
  <1>2. QED
    BY <1>1, KeysCorrect, PTL

\* Whatever interleaves, expires, fails or dies, a socket is uncounted only by
\* a handler of its own user (streams.gateway.ts:386-393).
THEOREM NobodyUncountsOthers == Spec => NoForeignUncount
  <1> DEFINE Own == \A st \in Streams : \A s \in viewers[st] \ viewers'[st] :
                      \E t \in Tasks : /\ Active(t)
                                       /\ task'[t] # task[t]
                                       /\ task[t].stream = st
                                       /\ User(t) = UserOf[s]
  <1>1. KeysInv /\ [Next]_vars => [Own]_vars
    <2> SUFFICES ASSUME KeysInv, Next PROVE Own
      OBVIOUS
    <2>1. CASE \E t \in Tasks : Step(t) \/ Fail(t)
      <3>1. PICK t \in Tasks : Step(t) \/ Fail(t)
        BY <2>1
      <3>2. Active(t) /\ task'[t] # task[t] /\ StoreEffect(t)
        BY <3>1, HandlerActive, HandlerSlots, HandlerEffect DEF KeysInv
      <3>3. ASSUME NEW st \in Streams, NEW s \in viewers[st] \ viewers'[st]
            PROVE  task[t].stream = st /\ User(t) = UserOf[s]
        <4>1. task[t].stream = st /\ task[t].pc = "srem" /\ s = Removed(t)
          BY <3>2, <3>3 DEF StoreEffect, SRem, SAdd, KeysInv, TypeOK
        <4>2. task[t].kind = "join" => UserOf[s] = User(t)
          BY <4>1 DEF KeysInv, OldIsOwn, At, Removed
        <4>3. task[t].kind # "join" => UserOf[s] = User(t)
          BY <4>1 DEF Removed, User
        <4>4. QED
          BY <4>1, <4>2, <4>3
      <3>4. QED
        BY <3>2, <3>3
    <2>2. CASE ~\E t \in Tasks : Step(t) \/ Fail(t)
      <3>1. viewers' = viewers
        BY <2>2 DEF Next, Arrivals, Steps, Expiry, Faults, Connect, Disconnect,
                    JoinRequest, LeaveRequest, Request, Expire, Crash
      <3>2. QED
        BY <3>1
    <2>3. QED
      BY <2>1, <2>2
  <1>2. QED
    BY <1>1, KeysCorrect, PTL DEF Spec, NoForeignUncount

-----------------------------------------------------------------------------
(***************************************************************************)
(* Connections and slots: a handler belongs to a socket that has been      *)
(* connected, a cleanup to one that is closed, a cleanup slot holds nothing *)
(* but its cleanup, and only an open socket is in rooms.                   *)
(***************************************************************************)
SlotsInv ==
    /\ \A t \in Tasks : Active(t) =>
          /\ conn[task[t].sock] # "fresh"
          /\ task[t].kind = "disconnect" => conn[task[t].sock] = "down"
    /\ \A t \in Sockets \X Streams : Active(t) =>
          /\ task[t].kind = "disconnect"
          /\ task[t].sock = t[1] /\ task[t].stream = t[2]
    /\ \A s \in Sockets : conn[s] # "up" => rooms[s] = {}

\* No slot is taken at first.
LEMMA InitSlots == Init => SlotsInv
  BY DEF Init, SlotsInv, Active, Idle, Tasks

\* Handlers open and close no connection.
LEMMA HandlerConn ==
    ASSUME NEW t \in Tasks, Step(t) \/ Fail(t)
    PROVE  conn' = conn
  BY DEF Step, JoinLookup, LeaveLookup, DisconnectLookup, AddGet, AddSRem,
         AddSAdd, AddSet, RemoveSRem, RemoveGet, RemoveDel, JoinCounted,
         JoinReply, LeaveCounted, DisconnectCounted, Fail

\* All that a handler does to the rooms.
LEMMA HandlerRooms ==
    ASSUME TypeOK, NEW t \in Tasks, Step(t) \/ Fail(t)
    PROVE  \/ rooms' = rooms
           \/ JoinLookup(t) /\ JoinRoom(task[t].sock, task[t].stream)
           \/ LeaveRoom(task[t].sock, task[t].stream)
  BY DEF Step, JoinLookup, LeaveLookup, DisconnectLookup, AddGet, AddSRem,
         AddSAdd, AddSet, RemoveSRem, RemoveGet, RemoveDel, JoinCounted,
         JoinReply, LeaveCounted, DisconnectCounted, Fail

\* A slot <<s, st>> only ever holds the cleanup of s for st, and a socket that
\* is not connected is in no room.
LEMMA NextSlots == TypeOK /\ SlotsInv /\ [Next]_vars => SlotsInv'
  <1> SUFFICES ASSUME TypeOK, SlotsInv, [Next]_vars PROVE SlotsInv'
    OBVIOUS
  <1>a. /\ task \in [Tasks -> Activation \cup {Idle}]
        /\ conn \in [Sockets -> {"fresh", "up", "down"}]
        /\ rooms \in [Sockets -> SUBSET Streams]
        /\ Sockets \X Streams \subseteq Tasks
    BY DEF TypeOK, Tasks
  <1>b. \A t \in Tasks : Active(t) => task[t].sock \in Sockets
    BY ActiveTask
  <1>1. ASSUME NEW s \in Sockets, Connect(s) PROVE SlotsInv'
    BY <1>1, <1>a, <1>b DEF Connect, SlotsInv, Active
  <1>2. ASSUME NEW s \in Sockets, Disconnect(s) PROVE SlotsInv'
    <2>1. \A t \in Tasks :
            \/ /\ t \in {s} \X RoomsVisited(s)
               /\ task'[t] = Start("disconnect", s, t[2])
            \/ task'[t] = task[t]
      BY <1>2, <1>a DEF Disconnect
    <2>2. \A x \in Sockets : /\ conn'[x] = IF x = s THEN "down" ELSE conn[x]
                             /\ rooms'[x] = IF x = s THEN {} ELSE rooms[x]
      BY <1>2, <1>a DEF Disconnect
    <2>3. ASSUME NEW t \in Tasks, Active(t)'
          PROVE  /\ conn'[task'[t].sock] # "fresh"
                 /\ task'[t].kind = "disconnect" => conn'[task'[t].sock] = "down"
      <3>1. CASE task'[t] = task[t]
        BY <1>b, <2>2, <2>3, <3>1 DEF SlotsInv, Active
      <3>2. CASE task'[t] = Start("disconnect", s, t[2])
        BY <2>2, <3>2 DEF Start
      <3>3. QED
        BY <2>1, <3>1, <3>2
    <2>4. ASSUME NEW t \in Sockets \X Streams, Active(t)'
          PROVE  /\ task'[t].kind = "disconnect"
                 /\ task'[t].sock = t[1] /\ task'[t].stream = t[2]
      <3>1. CASE task'[t] = task[t]
        BY <2>4, <3>1 DEF SlotsInv, Active
      <3>2. CASE /\ t \in {s} \X RoomsVisited(s)
                 /\ task'[t] = Start("disconnect", s, t[2])
        BY <3>2 DEF Start
      <3>3. QED
        BY <1>a, <2>1, <3>1, <3>2
    <2>5. ASSUME NEW x \in Sockets, conn'[x] # "up" PROVE rooms'[x] = {}
      BY <2>2, <2>5 DEF SlotsInv
    <2>6. QED
      BY <2>3, <2>4, <2>5 DEF SlotsInv
  <1>3. ASSUME NEW c \in Calls, NEW s \in Sockets, NEW st \in Streams,
               JoinRequest(c, s, st) \/ LeaveRequest(c, s, st)
        PROVE  SlotsInv'
    <2>1. /\ c \in Tasks /\ c \notin Sockets \X Streams
          /\ conn[s] = "up" /\ UNCHANGED <<conn, rooms>>
          /\ \E k \in {"join", "leave"} :
                task' = [task EXCEPT ![c] = Start(k, s, st)]
      BY <1>3 DEF JoinRequest, LeaveRequest, Request, Tasks
    <2>2. \A t \in Tasks \ {c} : task'[t] = task[t]
      BY <1>a, <2>1
    <2>3. /\ task'[c].kind \in {"join", "leave"}
          /\ task'[c].sock = s
      BY <1>a, <2>1 DEF Start
    <2>4. QED
      BY <1>a, <2>1, <2>2, <2>3 DEF SlotsInv, Active
  <1>4. ASSUME NEW t \in Tasks, Step(t) \/ Fail(t) PROVE SlotsInv'
    <2>1. /\ conn' = conn
          /\ \A x \in Tasks \ {t} : task'[x] = task[x]
          /\ Active(t) /\ task[t].sock \in Sockets
          /\ \/ task'[t] = Idle
             \/ /\ task'[t].kind = task[t].kind
                /\ task'[t].sock = task[t].sock
                /\ task'[t].stream = task[t].stream
      BY <1>4, <1>b, HandlerConn, HandlerSlots, HandlerActive
    <2>2. \A s \in Sockets : conn[s] # "up" => rooms'[s] = {}
      <3>1. CASE rooms' = rooms
        BY <3>1 DEF SlotsInv
      <3>2. CASE JoinRoom(task[t].sock, task[t].stream)
        BY <1>a, <2>1, <3>2 DEF SlotsInv, JoinRoom
      <3>3. CASE LeaveRoom(task[t].sock, task[t].stream)
        BY <1>a, <2>1, <3>3 DEF SlotsInv, LeaveRoom
      <3>4. QED
        BY <1>4, <3>1, <3>2, <3>3, HandlerRooms
    <2>3. QED
      BY <1>a, <2>1, <2>2 DEF SlotsInv, Active, Idle
  <1>5. ASSUME NEW st \in Streams, NEW u \in Users, Expire(st, u) PROVE SlotsInv'
    BY <1>5 DEF Expire, SlotsInv, Active
  <1>6. ASSUME NEW S \in SUBSET Sockets, Crash(S) PROVE SlotsInv'
    <2>1. \A s \in Sockets : /\ conn'[s] = IF s \in S THEN "down" ELSE conn[s]
                             /\ rooms'[s] = IF s \in S THEN {} ELSE rooms[s]
      BY <1>6 DEF Crash
    <2>2. \A t \in Tasks : task'[t] = IF task[t].sock \in S THEN Idle ELSE task[t]
      BY <1>6 DEF Crash
    <2>3. QED
      BY <1>a, <1>b, <2>1, <2>2 DEF SlotsInv, Active, Idle
  <1>7. CASE UNCHANGED vars
    BY <1>7 DEF vars, SlotsInv, Active
  <1>8. QED
    BY <1>1, <1>2, <1>3, <1>4, <1>5, <1>6, <1>7
       DEF Next, Arrivals, Steps, Expiry, Faults

(***************************************************************************)
(* A lone viewer is counted.                                               *)
(***************************************************************************)
LoneInv == KeysInv /\ SlotsInv /\ LoneViewerCounted

\* The socket s is counted for st, or a handler answers for it.
Accounted(s, st) ==
    \/ s \in viewers[st]
    \/ Pending(s, st, "join", {"get", "srem", "sadd"})
    \/ Pending(s, st, "leave", {"get", "del", "card"})

\* Only a step of a handler of s for st itself can end the accounting of s.
LEMMA OthersKeepAccounted ==
    ASSUME KeysInv, SlotsInv, NEW t \in Tasks, Step(t),
           NEW s \in Sockets, NEW st \in Streams, OnlySocket(s),
           ~(task[t].sock = s /\ task[t].stream = st)
    PROVE  /\ Accounted(s, st) => Accounted(s, st)'
           /\ st \in rooms'[s] => st \in rooms[s]
  <1>0. /\ TypeOK /\ Active(t) /\ StoreEffect(t)
        /\ task[t].sock \in Sockets /\ task[t].stream \in Streams
        /\ \A x \in Tasks \ {t} : task'[x] = task[x]
    BY HandlerActive, HandlerEffect, HandlerSlots, ActiveTask DEF KeysInv
  <1>1. s \in viewers[st] => s \in viewers'[st]
    <2>1. ASSUME task[t].pc = "srem", task[t].stream = st, Removed(t) = s
          PROVE  FALSE
      <3>1. task[t].kind = "join" /\ task[t].old = s
        BY <2>1 DEF Removed
      <3>2. UserOf[s] = UserOf[task[t].sock]
        BY <2>1, <3>1 DEF KeysInv, OldIsOwn, At, User
      <3>3. conn[task[t].sock] = "fresh"
        BY <1>0, <2>1, <3>2 DEF OnlySocket
      <3>4. QED
        BY <1>0, <3>3 DEF SlotsInv
    <2>2. QED
      BY <1>0, <2>1 DEF StoreEffect, SRem, SAdd, TypeOK
  <1>2. \A k, P : Pending(s, st, k, P) => Pending(s, st, k, P)'
    BY <1>0 DEF Pending
  <1>3. st \in rooms'[s] => st \in rooms[s]
    BY <1>0, HandlerRooms DEF JoinRoom, LeaveRoom, TypeOK
  <1>4. QED
    BY <1>1, <1>2, <1>3 DEF Accounted

\* The steps of the handlers of s for st.
LEMMA OwnStepsAccount ==
    ASSUME KeysInv, SlotsInv, NEW t \in Tasks, Step(t),
           NEW s \in Sockets, NEW st \in Streams,
           task[t].sock = s, task[t].stream = st, conn[s] = "up", ~IsOwner(t),
           st \in rooms[s] => Accounted(s, st),
           st \in rooms'[s]
    PROVE  Accounted(s, st)'
  <1>0. /\ TypeOK /\ Active(t)
        /\ task[t] \in Activation
        /\ \A x \in Tasks \ {t} : task'[x] = task[x]
        /\ task[t].kind # "disconnect"
    BY HandlerActive, HandlerSlots, ActiveTask DEF KeysInv, SlotsInv
  <1>a. task \in [Tasks -> Activation \cup {Idle}] /\ t \in Tasks
    BY <1>0 DEF TypeOK
  \* A step after which the handler itself answers for s.
  <1>b. ASSUME NEW k, NEW P, task'[t].kind = k, task'[t].pc \in P,
               task'[t].sock = s, task'[t].stream = st
        PROVE  Pending(s, st, k, P)'
    BY <1>b DEF Pending
  \* A step of a handler that did not answer for s.
  <1>c. ASSUME viewers' = viewers, st \in rooms[s],
               ~(task[t].kind = "join" /\ task[t].pc \in {"get", "srem", "sadd"}),
               ~(task[t].kind = "leave" /\ task[t].pc \in {"get", "del", "card"})
        PROVE  Accounted(s, st)'
    BY <1>0, <1>c DEF Accounted, Pending
  <1>1. CASE JoinLookup(t)
    <2>1. /\ task'[t].kind = "join" /\ task'[t].pc \in {"get", "srem", "sadd"}
          /\ task'[t].sock = s /\ task'[t].stream = st
      BY <1>0, <1>a, <1>1 DEF JoinLookup, At, Goto, Activation
    <2>2. QED
      BY <1>b, <2>1 DEF Accounted
  <1>2. CASE LeaveLookup(t) \/ JoinReply(t) \/ JoinCounted(t) \/ AddSet(t)
    BY <1>2, <1>c
       DEF LeaveLookup, JoinReply, JoinCounted, AddSet, At
  <1>3. CASE AddGet(t) \/ AddSRem(t)
    <2>1. /\ task'[t].kind = "join" /\ task'[t].pc \in {"get", "srem", "sadd"}
          /\ task'[t].sock = s /\ task'[t].stream = st
      BY <1>0, <1>a, <1>3 DEF AddGet, AddSRem, At, Activation
    <2>2. QED
      BY <1>b, <2>1 DEF Accounted
  <1>4. CASE AddSAdd(t)
    BY <1>0, <1>4 DEF AddSAdd, SAdd, Accounted, TypeOK
  <1>5. CASE RemoveSRem(t) \/ RemoveGet(t) \/ RemoveDel(t)
    <2>1. /\ task'[t].kind = "leave" /\ task'[t].pc \in {"get", "del", "card"}
          /\ task'[t].sock = s /\ task'[t].stream = st
      BY <1>0, <1>a, <1>5 DEF RemoveSRem, RemoveGet, RemoveDel, At, Goto, Activation
    <2>2. QED
      BY <1>b, <2>1 DEF Accounted
  <1>6. CASE LeaveCounted(t)
    BY <1>0, <1>6 DEF LeaveCounted, LeaveRoom, TypeOK
  <1>7. CASE DisconnectLookup(t) \/ DisconnectCounted(t)
    BY <1>0, <1>7 DEF DisconnectLookup, DisconnectCounted, At
  <1>8. QED
    BY <1>1, <1>2, <1>3, <1>4, <1>5, <1>6, <1>7 DEF Step

\* LoneInv is inductive when no command fails and no process dies.
LEMMA ReliableLone == LoneInv /\ [ReliableNext]_vars => LoneInv'
  <1> SUFFICES ASSUME LoneInv, [ReliableNext]_vars PROVE LoneInv'
    OBVIOUS
  <1>0. KeysInv /\ SlotsInv /\ TypeOK /\ LoneViewerCounted
    BY DEF LoneInv, KeysInv
  <1>a. KeysInv' /\ SlotsInv'
    BY <1>0, MilderSteps, NextKeys, NextSlots
  <1>b. SUFFICES ASSUME NEW s \in Sockets, NEW st \in Streams,
                        OnlySocket(s)', Watches(s, st)'
                 PROVE  Accounted(s, st)'
    BY <1>a DEF LoneInv, LoneViewerCounted, Accounted
  <1>c. OnlySocket(s) /\ Watches(s, st) => Accounted(s, st)
    BY <1>0 DEF LoneViewerCounted, Accounted
  <1>1. ASSUME NEW x \in Sockets, Connect(x) PROVE Accounted(s, st)'
    <2>1. x # s
      BY <1>0, <1>1, <1>b DEF Connect, SlotsInv, Watches
    <2>2. OnlySocket(s)
      BY <1>0, <1>1, <1>b, <2>1 DEF Connect, OnlySocket, TypeOK
    <2>3. QED
      BY <1>1, <1>b, <1>c, <2>2 DEF Connect, Watches, Accounted, Pending
  <1>2. ASSUME NEW x \in Sockets, Disconnect(x) PROVE Accounted(s, st)'
    <2>1. x # s
      BY <1>0, <1>2, <1>b DEF Disconnect, OnlySocket, TypeOK
    <2>2. OnlySocket(s) /\ Watches(s, st)
      BY <1>0, <1>2, <1>b, <2>1 DEF Disconnect, OnlySocket, Watches, TypeOK
    <2>3. ASSUME NEW t \in Tasks, task[t].kind \in {"join", "leave"}
          PROVE  task'[t] = task[t]
      <3>1. Active(t)
        BY <1>0, <2>3 DEF TypeOK, Idle, Activation, Awaits, Active
      <3>2. t \notin Sockets \X Streams
        BY <1>0, <2>3, <3>1 DEF SlotsInv
      <3>3. RoomsVisited(x) \subseteq Streams
        BY <1>0 DEF RoomsVisited, TypeOK
      <3>4. QED
        BY <1>0, <1>2, <3>2, <3>3 DEF Disconnect, TypeOK
    <2>4. QED
      BY <1>2, <1>c, <2>2, <2>3 DEF Disconnect, Accounted, Pending
  <1>3. ASSUME NEW c \in Calls, NEW x \in Sockets, NEW y \in Streams,
               JoinRequest(c, x, y) \/ LeaveRequest(c, x, y)
        PROVE  Accounted(s, st)'
    <2>1. /\ OnlySocket(s) /\ Watches(s, st) /\ viewers' = viewers
          /\ ~Active(c) /\ \A t \in Tasks \ {c} : task'[t] = task[t]
      BY <1>0, <1>3, <1>b DEF JoinRequest, LeaveRequest, Request, OnlySocket,
                              Watches, TypeOK
    <2>2. QED
      BY <1>c, <2>1 DEF Accounted, Pending, Active
  <1>4. ASSUME NEW t \in Tasks, Step(t) PROVE Accounted(s, st)'
    <2>1. OnlySocket(s)
      BY <1>4, <1>b, HandlerConn DEF OnlySocket
    <2>2. CASE task[t].sock = s /\ task[t].stream = st
      BY <1>0, <1>4, <1>b, <1>c, <2>1, <2>2, OwnStepsAccount
         DEF Watches, OnlySocket, IsOwner, User
    <2>3. CASE ~(task[t].sock = s /\ task[t].stream = st)
      BY <1>0, <1>4, <1>b, <1>c, <2>1, <2>3, OthersKeepAccounted DEF Watches
    <2>4. QED
      BY <2>2, <2>3
  <1>5. ASSUME NEW y \in Streams, NEW u \in Users, Expire(y, u)
        PROVE  Accounted(s, st)'
    BY <1>5, <1>b, <1>c DEF Expire, OnlySocket, Watches, Accounted, Pending
  <1>6. CASE UNCHANGED vars
    BY <1>6, <1>b, <1>c DEF vars, OnlySocket, Watches, Accounted, Pending
  <1>7. QED
    BY <1>1, <1>2, <1>3, <1>4, <1>5, <1>6
       DEF ReliableNext, Arrivals, Steps, Expiry

\* While the stores answer and no process dies, a viewer with one connection
\* who is in the room is counted, or the handler that settles it is running;
\* whatever else interleaves or expires (streams.gateway.ts:228-233, 273-284).
THEOREM LoneViewersCounted == ReliableSpec => []LoneViewerCounted
  <1>1. Init => LoneInv
    BY InitKeys, InitSlots DEF Init, LoneInv, LoneViewerCounted, OnlySocket
  <1>2. LoneInv => LoneViewerCounted
    BY DEF LoneInv
  <1>3. QED
    BY <1>1, <1>2, ReliableLone, PTL DEF ReliableSpec

-----------------------------------------------------------------------------
(***************************************************************************)
(* Users who take turns.  When the handlers of a user on a stream do not   *)
(* overlap, the two Redis keys may disagree only in the middle of the one  *)
(* handler that is changing them.  Kept says what remains of their         *)
(* agreement at each await when a mapping may expire at any moment.        *)
(***************************************************************************)
NoOverlap ==
    \A t1, t2 \in Tasks :
        /\ Active(t1) /\ Active(t2)
        /\ User(t1) = User(t2) /\ task[t1].stream = task[t2].stream
        => t1 = t2

Placed(t) ==
    /\ task[t].kind = "join" =>
          task[t].pc \in {"lookup", "get", "srem", "sadd", "set", "card", "reply"}
    /\ task[t].kind \in {"leave", "disconnect"} =>
          task[t].pc \in {"lookup", "srem", "get", "del", "card"}

Honest(u, st) == userKey[st][u] \in Counted(u, st) \cup {None}

Kept(t) ==
    LET s    == task[t].sock
        st   == task[t].stream
        C    == Counted(User(t), st)
        key  == userKey[st][User(t)]
        Ends == {"leave", "disconnect"}
    IN  /\ task[t].pc \in {"lookup", "card", "reply"} => Honest(User(t), st)
        /\ At(t, {"join"}, "get") => Honest(User(t), st)
        /\ At(t, {"join"}, "set") => s \in C
        /\ At(t, {"join"}, "card") => s \in C /\ key \in {s, None}
        /\ At(t, {"join"}, "reply") => IsOwner(t) \/ (s \in C /\ key \in {s, None})
        /\ At(t, Ends, "srem") => Honest(User(t), st)
        /\ At(t, Ends, "get") => key \in C \cup {None, s}
        /\ At(t, Ends, "del") => key \in {None, s}

TurnInv ==
    /\ KeysInv /\ SlotsInv /\ NoOverlap
    /\ KeyNamesCounted
    /\ \A t \in Tasks : Active(t) => Kept(t) /\ Placed(t)

\* What the Redis commands do to the count of a user.
LEMMA CountedChanges ==
    ASSUME TypeOK, NEW st \in Streams, NEW u \in Users, NEW x \in Sockets
    PROVE  /\ viewers' = viewers => Counted(u, st)' = Counted(u, st)
           /\ SRem(st, x) => Counted(u, st)' = Counted(u, st) \ {x}
           /\ SAdd(st, x) /\ UserOf[x] = u => Counted(u, st)' = Counted(u, st) \cup {x}
  BY DEF Counted, SRem, SAdd, TypeOK

\* A handler does not touch the count or the mapping of anybody else.
LEMMA HandlerFrame ==
    ASSUME KeysInv, NEW t \in Tasks, Step(t), NEW u \in Users, NEW st \in Streams,
           ~(User(t) = u /\ task[t].stream = st)
    PROVE  /\ Counted(u, st)' = Counted(u, st)
           /\ userKey'[st][u] = userKey[st][u]
  <1>0. /\ TypeOK /\ Active(t) /\ StoreEffect(t)
        /\ task[t].sock \in Sockets /\ task[t].stream \in Streams
        /\ User(t) \in Users /\ User(t) = UserOf[task[t].sock]
    BY HandlerActive, HandlerEffect, ActiveTask DEF KeysInv, User
  <1>1. userKey'[st][u] = userKey[st][u]
    BY <1>0, SetKeyValue DEF StoreEffect
  <1>2. ASSUME task[t].pc = "srem", SRem(task[t].stream, Removed(t))
        PROVE  Counted(u, st)' = Counted(u, st)
    <2>1. UserOf[Removed(t)] = User(t)
      BY <1>2 DEF Removed, KeysInv, OldIsOwn, At, User
    <2>2. QED
      BY <1>0, <1>2, <2>1 DEF SRem, Counted, TypeOK
  <1>3. ASSUME SAdd(task[t].stream, task[t].sock)
        PROVE  Counted(u, st)' = Counted(u, st)
    BY <1>0, <1>3 DEF SAdd, Counted, TypeOK
  <1>4. ASSUME viewers' = viewers
        PROVE  Counted(u, st)' = Counted(u, st)
    BY <1>4 DEF Counted
  <1>5. QED
    BY <1>0, <1>1, <1>2, <1>3, <1>4 DEF StoreEffect

\* Slots that the step fills, for users without a pending request.
Started(t) ==
    /\ ~Active(t)
    /\ task'[t].kind \in Kinds /\ task'[t].pc = "lookup"
    /\ task'[t].sock \in Sockets /\ task'[t].stream \in Streams
    /\ Quiet(UserOf[task'[t].sock], task'[t].stream)

\* Arrivals at rest and steps of a handler leave at most one handler per user
\* and stream.
LEMMA ArrivalsTakeTurns ==
    ASSUME NoOverlap,
           \A t \in Tasks : task'[t] = task[t] \/ Started(t),
           \A t1, t2 \in Tasks :
              /\ Started(t1) /\ Started(t2)
              /\ UserOf[task'[t1].sock] = UserOf[task'[t2].sock]
              /\ task'[t1].stream = task'[t2].stream
              => t1 = t2
    PROVE  NoOverlap'
  <1> SUFFICES ASSUME NEW t1 \in Tasks, NEW t2 \in Tasks,
                      Active(t1)', Active(t2)', (User(t1) = User(t2))',
                      task'[t1].stream = task'[t2].stream
               PROVE  t1 = t2
    BY DEF NoOverlap
  <1>1. CASE Started(t1) /\ Started(t2)
    BY <1>1 DEF User
  <1>2. CASE Started(t1) /\ task'[t2] = task[t2]
    BY <1>2 DEF Started, Quiet, Active, User
  <1>3. CASE task'[t1] = task[t1] /\ Started(t2)
    BY <1>3 DEF Started, Quiet, Active, User
  <1>4. CASE task'[t1] = task[t1] /\ task'[t2] = task[t2]
    BY <1>4 DEF NoOverlap, Active, User
  <1>5. QED
    BY <1>1, <1>2, <1>3, <1>4

LEMMA StepTakesTurns ==
    ASSUME TypeOK, NoOverlap, NEW t \in Tasks, Step(t)
    PROVE  /\ NoOverlap'
           /\ Active(t)' => User(t)' = User(t) /\ task'[t].stream = task[t].stream
           /\ \A x \in Tasks \ {t} :
                 Active(x)' => /\ Active(x) /\ task'[x] = task[x]
                               /\ User(x)' = User(x)
                               /\ ~(User(x) = User(t) /\ task[x].stream = task[t].stream)
  <1>1. /\ Active(t) /\ task[t].sock \in Sockets
        /\ \A x \in Tasks \ {t} : task'[x] = task[x]
    BY HandlerActive, HandlerSlots, ActiveTask
  <1>2. Active(t)' => User(t)' = User(t) /\ task'[t].stream = task[t].stream
    BY <1>1, HandlerSlots DEF User, Active, Idle
  <1>3. \A x \in Tasks \ {t} :
           Active(x)' => /\ Active(x) /\ task'[x] = task[x]
                         /\ User(x)' = User(x)
                         /\ ~(User(x) = User(t) /\ task[x].stream = task[t].stream)
    BY <1>1 DEF NoOverlap, Active, User
  <1>4. NoOverlap'
    <2>1. ASSUME NEW x1 \in Tasks, NEW x2 \in Tasks, Active(x1)', Active(x2)',
                 User(x1)' = User(x2)', task'[x1].stream = task'[x2].stream
          PROVE  x1 = x2
      BY <1>1, <1>2, <1>3, <2>1 DEF NoOverlap
    <2>2. QED
      BY <2>1 DEF NoOverlap
  <1>5. QED
    BY <1>2, <1>3, <1>4

\* The user's own handler goes from one stage of Kept to the next, and leaves an
\* honest mapping when it ends.
LEMMA OwnKept ==
    ASSUME TurnInv, NEW t \in Tasks, Step(t),
           NEW s \in Sockets, NEW st \in Streams, NEW u \in Users,
           task[t].sock = s, task[t].stream = st, User(t) = u
    PROVE  \/ task'[t] = Idle /\ Honest(u, st)'
           \/ Kept(t)' /\ Placed(t)' /\ Active(t)'
  <1>0. /\ TypeOK /\ Active(t) /\ UserOf[s] = u
        /\ task[t] \in Activation
        /\ task \in [Tasks -> Activation \cup {Idle}]
        /\ userKey[st][u] \in Sockets \cup {None}
        /\ None \notin Sockets
        /\ Counted(u, st) \subseteq Sockets
    BY HandlerActive, ActiveTask DEF TurnInv, KeysInv, User, TypeOK, Counted
  <1>1. Kept(t) /\ Placed(t)
    BY <1>0 DEF TurnInv
  <1> DEFINE C    == Counted(u, st)
             key  == userKey[st][u]
  <1>2. /\ viewers' = viewers => C' = C
        /\ \A x \in Sockets : SRem(st, x) => C' = C \ {x}
        /\ SAdd(st, s) => C' = C \cup {s}
    BY <1>0, CountedChanges
  <1>3. \A x : SetKey(st, u, x) => key' = x
    BY <1>0, SetKeyValue
  \* A step that goes on to the await p.
  <1>4. ASSUME NEW p, task'[t].pc = p, p \in Awaits,
               task'[t].kind = task[t].kind,
               task'[t].sock = s, task'[t].stream = st,
               task[t].kind = "join" =>
                  p \in {"lookup", "get", "srem", "sadd", "set", "card", "reply"},
               task[t].kind \in {"leave", "disconnect"} =>
                  p \in {"lookup", "srem", "get", "del", "card"},
               p \in {"lookup", "card", "reply"} => key' \in C' \cup {None},
               p = "reply" => IsOwner(t) \/ (s \in C' /\ key' \in {s, None}),
               task[t].kind = "join" =>
                  /\ p = "get" => key' \in C' \cup {None}
                  /\ p = "set" => s \in C'
                  /\ p = "card" => s \in C' /\ key' \in {s, None},
               task[t].kind \in {"leave", "disconnect"} =>
                  /\ p = "srem" => key' \in C' \cup {None}
                  /\ p = "get" => key' \in C' \cup {None, s}
                  /\ p = "del" => key' \in {None, s}
        PROVE  Kept(t)' /\ Placed(t)' /\ Active(t)'
    <2>1. User(t)' = u /\ IsOwner(t)' = IsOwner(t)
      BY <1>0, <1>4 DEF User, IsOwner
    <2>2. Placed(t)' /\ Active(t)'
      BY <1>4 DEF Placed, Active, Awaits
    <2>3. Kept(t)'
      BY <1>4, <2>1 DEF Kept, Honest, At
    <2>4. QED
      BY <2>2, <2>3
  \* How the slot looks after the two kinds of assignment.
  <1>5. ASSUME NEW p \in Awaits, Goto(t, p)
        PROVE  /\ task'[t].pc = p /\ task'[t].kind = task[t].kind
               /\ task'[t].sock = s /\ task'[t].stream = st
    BY <1>0, <1>5 DEF Goto, Activation
  <1>6. ASSUME NEW p \in Awaits, NEW o, task' = [task EXCEPT ![t].pc = p, ![t].old = o]
        PROVE  /\ task'[t].pc = p /\ task'[t].kind = task[t].kind
               /\ task'[t].sock = s /\ task'[t].stream = st
    BY <1>0, <1>6 DEF Activation
  <1>7. Finish(t) => task'[t] = Idle
    BY <1>0 DEF Finish
  <1>j1. CASE JoinLookup(t)
    <2>1. C' = C /\ key' = key /\ key \in C \cup {None} /\ task[t].kind = "join"
      BY <1>0, <1>1, <1>2, <1>j1 DEF JoinLookup, At, Kept, Honest
    <2>2. PICK p \in {"reply", "get"} : Goto(t, p) /\ (p = "reply" => IsOwner(t))
      BY <1>j1 DEF JoinLookup
    <2>3. p \in Awaits
      BY <2>2 DEF Awaits
    <2>4. QED
      BY <1>4, <1>5, <2>1, <2>2, <2>3
  <1>j2. CASE AddGet(t)
    <2>1. task[t].kind = "join" /\ {"srem", "sadd"} \subseteq Awaits
      BY <1>j2 DEF AddGet, At, Awaits
    <2>2. PICK p \in {"srem", "sadd"}, o \in Sockets \cup {None} :
             task' = [task EXCEPT ![t].pc = p, ![t].old = o]
      BY <1>0, <1>j2 DEF AddGet
    <2>3. QED
      BY <1>4, <1>6, <2>1, <2>2
  <1>j3. CASE AddSRem(t)
    <2>1. /\ task[t].kind = "join" /\ "sadd" \in Awaits
          /\ task' = [task EXCEPT ![t].pc = "sadd", ![t].old = None]
      BY <1>j3 DEF AddSRem, At, Awaits
    <2>2. QED
      BY <1>4, <1>6, <2>1
  <1>j4. CASE AddSAdd(t)
    <2>1. task[t].kind = "join" /\ SAdd(st, s) /\ Goto(t, "set") /\ "set" \in Awaits
      BY <1>j4 DEF AddSAdd, At, Awaits
    <2>2. s \in C'
      BY <1>2, <2>1
    <2>3. QED
      BY <1>4, <1>5, <2>1, <2>2
  <1>j5. CASE AddSet(t)
    <2>1. /\ s \in C /\ C' = C /\ task[t].kind = "join" /\ Goto(t, "card")
          /\ SetKey(st, u, s) /\ "card" \in Awaits
      BY <1>0, <1>1, <1>2, <1>j5 DEF AddSet, At, Kept, Awaits
    <2>2. key' = s
      BY <1>3, <2>1
    <2>3. QED
      BY <1>4, <1>5, <2>1, <2>2
  <1>j6. CASE JoinCounted(t)
    <2>1. /\ s \in C /\ C' = C /\ key \in {s, None} /\ key' = key
          /\ task[t].kind = "join" /\ Goto(t, "reply") /\ "reply" \in Awaits
      BY <1>0, <1>1, <1>2, <1>j6 DEF JoinCounted, At, Kept, Awaits
    <2>2. QED
      BY <1>4, <1>5, <2>1
  <1>j7. CASE JoinReply(t)
    BY <1>0, <1>1, <1>2, <1>7, <1>j7 DEF JoinReply, At, Kept, Honest
  <1>l1. CASE LeaveLookup(t) \/ DisconnectLookup(t)
    <2>1. /\ C' = C /\ key' = key /\ key \in C \cup {None}
          /\ task[t].kind \in {"leave", "disconnect"}
      BY <1>0, <1>1, <1>2, <1>l1
         DEF LeaveLookup, DisconnectLookup, At, Kept, Honest
    <2>2. Finish(t) \/ (Goto(t, "srem") /\ "srem" \in Awaits)
      BY <1>l1 DEF LeaveLookup, DisconnectLookup, Awaits
    <2>3. CASE Finish(t)
      BY <1>7, <2>1, <2>3 DEF Honest
    <2>4. CASE Goto(t, "srem") /\ "srem" \in Awaits
      BY <1>4, <1>5, <2>1, <2>4
    <2>5. QED
      BY <2>2, <2>3, <2>4
  <1>l2. CASE RemoveSRem(t)
    <2>1. /\ key \in C \cup {None} /\ task[t].kind \in {"leave", "disconnect"}
          /\ SRem(st, s) /\ key' = key /\ Goto(t, "get") /\ "get" \in Awaits
      BY <1>0, <1>1, <1>l2 DEF RemoveSRem, At, Kept, Honest, Awaits
    <2>2. key' \in C' \cup {None, s}
      BY <1>2, <2>1
    <2>3. QED
      BY <1>4, <1>5, <2>1, <2>2
  <1>l3. CASE RemoveGet(t)
    <2>1. /\ key \in C \cup {None, s} /\ task[t].kind \in {"leave", "disconnect"}
          /\ C' = C /\ key' = key
          /\ Goto(t, IF key = s THEN "del" ELSE "card")
      BY <1>0, <1>1, <1>2, <1>l3 DEF RemoveGet, IsCurrent, At, Kept
    <2>2. {"del", "card"} \subseteq Awaits
      BY DEF Awaits
    <2>3. CASE key = s
      BY <1>4, <1>5, <2>1, <2>2, <2>3
    <2>4. CASE key # s
      BY <1>4, <1>5, <2>1, <2>2, <2>4
    <2>5. QED
      BY <2>3, <2>4
  <1>l4. CASE RemoveDel(t)
    <2>1. /\ task[t].kind \in {"leave", "disconnect"}
          /\ Goto(t, "card") /\ "card" \in Awaits /\ SetKey(st, u, None)
      BY <1>0, <1>l4 DEF RemoveDel, At, Awaits
    <2>2. key' = None
      BY <1>3, <2>1
    <2>3. QED
      BY <1>4, <1>5, <2>1, <2>2
  <1>l5. CASE LeaveCounted(t) \/ DisconnectCounted(t)
    BY <1>0, <1>1, <1>2, <1>7, <1>l5
       DEF LeaveCounted, DisconnectCounted, At, Kept, Honest
  <1>q. QED
    BY <1>j1, <1>j2, <1>j3, <1>j4, <1>j5, <1>j6, <1>j7, <1>l1, <1>l2, <1>l3,
       <1>l4, <1>l5 DEF Step

\* A connection, a request of a user at rest and an expiry keep TurnInv.
LEMMA OthersKeepTurns ==
    ASSUME TurnInv, KeysInv', SlotsInv',
           UNCHANGED viewers,
           \A st \in Streams, u \in Users :
              userKey'[st][u] \in {userKey[st][u], None},
           \A t \in Tasks : task'[t] = task[t] \/ Started(t),
           \A t1, t2 \in Tasks :
              /\ Started(t1) /\ Started(t2)
              /\ UserOf[task'[t1].sock] = UserOf[task'[t2].sock]
              /\ task'[t1].stream = task'[t2].stream
              => t1 = t2
    PROVE  TurnInv'
  <1>0. TypeOK
    BY DEF TurnInv, KeysInv
  <1>1. NoOverlap'
    BY ArrivalsTakeTurns DEF TurnInv
  <1>2. \A u \in Users, st \in Streams :
           Counted(u, st)' = Counted(u, st) /\ (Honest(u, st) => Honest(u, st)')
    BY DEF Counted, Honest
  <1>3. KeyNamesCounted'
    <2> SUFFICES ASSUME NEW st \in Streams, NEW u \in Users, Quiet(u, st)'
                 PROVE  Honest(u, st)'
      BY DEF KeyNamesCounted, Honest
    <2>1. Quiet(u, st)
      BY DEF Quiet, Started, Active, User
    <2>2. QED
      BY <1>2, <2>1 DEF TurnInv, KeyNamesCounted, Honest
  <1>4. ASSUME NEW t \in Tasks, Active(t)'
        PROVE  Kept(t)' /\ Placed(t)'
    <2>1. CASE task'[t] = task[t]
      <3>1. /\ Kept(t) /\ Placed(t)
            /\ task[t].stream \in Streams /\ User(t) \in Users
        BY <1>0, <1>4, <2>1, ActiveTask DEF TurnInv, Active
      <3>2. PICK u \in Users, st \in Streams : User(t) = u /\ task[t].stream = st
        BY <3>1
      <3>3. User(t)' = u /\ task'[t].stream = st /\ IsOwner(t)' = IsOwner(t)
        BY <2>1, <3>2 DEF User, IsOwner
      <3>4. /\ Counted(u, st)' = Counted(u, st)
            /\ userKey'[st][u] \in {userKey[st][u], None}
            /\ Honest(u, st) => Honest(u, st)'
        BY <1>2
      <3>5. Kept(t)'
        BY <2>1, <3>1, <3>2, <3>3, <3>4 DEF Kept, At
      <3>6. Placed(t)'
        BY <2>1, <3>1 DEF Placed
      <3>7. QED
        BY <3>5, <3>6
    <2>2. CASE Started(t)
      <3>1. PICK u \in Users, st \in Streams :
               u = UserOf[task'[t].sock] /\ st = task'[t].stream
        BY <2>2 DEF Started
      <3>2. Honest(u, st)'
        BY <1>2, <2>2, <3>1 DEF Started, TurnInv, KeyNamesCounted, Honest
      <3>3. Placed(t)'
        BY <2>2 DEF Started, Placed
      <3>4. Kept(t)'
        BY <2>2, <3>1, <3>2 DEF Started, Kept, At, User
      <3>5. QED
        BY <3>3, <3>4
    <2>3. QED
      BY <2>1, <2>2
  <1>5. QED
    BY <1>1, <1>3, <1>4 DEF TurnInv

\* A step of the one handler that a user runs for a stream keeps TurnInv.
LEMMA StepKeepsTurns ==
    ASSUME TurnInv, KeysInv', SlotsInv', NEW t \in Tasks, Step(t)
    PROVE  TurnInv'
  <1>0. /\ TypeOK /\ KeysInv /\ Active(t)
        /\ task[t].sock \in Sockets /\ task[t].stream \in Streams
        /\ User(t) \in Users
        /\ \A x \in Tasks \ {t} : task'[x] = task[x]
    BY HandlerActive, HandlerSlots, ActiveTask DEF TurnInv, KeysInv
  <1>1. PICK s \in Sockets, y \in Streams, v \in Users :
           task[t].sock = s /\ task[t].stream = y /\ User(t) = v
    BY <1>0
  <1>2. \/ task'[t] = Idle /\ Honest(v, y)'
        \/ Kept(t)' /\ Placed(t)' /\ Active(t)'
    BY <1>1, OwnKept
  <1>3. /\ NoOverlap'
        /\ Active(t)' => User(t)' = v /\ task'[t].stream = y
        /\ \A x \in Tasks \ {t} :
              Active(x)' => /\ Active(x) /\ task'[x] = task[x]
                            /\ User(x)' = User(x)
                            /\ ~(User(x) = v /\ task[x].stream = y)
    BY <1>0, <1>1, StepTakesTurns DEF TurnInv
  <1>4. ASSUME NEW u \in Users, NEW st \in Streams, ~(v = u /\ y = st)
        PROVE  /\ Counted(u, st)' = Counted(u, st)
               /\ userKey'[st][u] = userKey[st][u]
    BY <1>0, <1>1, <1>4, HandlerFrame
  <1>5. KeyNamesCounted'
    <2> SUFFICES ASSUME NEW st \in Streams, NEW u \in Users, Quiet(u, st)'
                 PROVE  Honest(u, st)'
      BY DEF KeyNamesCounted, Honest
    <2>1. CASE v = u /\ y = st
      <3>1. ~Active(t)'
        BY <1>3, <2>1 DEF Quiet
      <3>2. QED
        BY <1>2, <2>1, <3>1
    <2>2. CASE ~(v = u /\ y = st)
      <3>1. Quiet(u, st)
        BY <1>0, <1>1, <2>2 DEF Quiet, Active, User
      <3>2. Honest(u, st)
        BY <3>1 DEF TurnInv, KeyNamesCounted, Honest
      <3>3. QED
        BY <1>4, <2>2, <3>2 DEF Honest
    <2>3. QED
      BY <2>1, <2>2
  <1>6. ASSUME NEW x \in Tasks, Active(x)'
        PROVE  Kept(x)' /\ Placed(x)'
    <2>1. CASE x = t
      BY <1>2, <1>6, <2>1 DEF Active, Idle
    <2>2. CASE x # t
      <3>1. /\ Kept(x) /\ Placed(x) /\ task'[x] = task[x]
            /\ ~(User(x) = v /\ task[x].stream = y)
            /\ task[x].stream \in Streams /\ User(x) \in Users
        BY <1>0, <1>3, <1>6, <2>2, ActiveTask DEF TurnInv
      <3>2. PICK u \in Users, st \in Streams : User(x) = u /\ task[x].stream = st
        BY <3>1
      <3>3. User(x)' = u /\ task'[x].stream = st /\ IsOwner(x)' = IsOwner(x)
        BY <3>1, <3>2 DEF User, IsOwner
      <3>4. /\ Counted(u, st)' = Counted(u, st)
            /\ userKey'[st][u] = userKey[st][u]
        BY <1>4, <3>1, <3>2
      <3>5. Kept(x)'
        BY <3>1, <3>2, <3>3, <3>4 DEF Kept, Honest, At
      <3>6. Placed(x)'
        BY <3>1 DEF Placed
      <3>7. QED
        BY <3>5, <3>6
    <2>3. QED
      BY <2>1, <2>2
  <1>7. QED
    BY <1>3, <1>5, <1>6 DEF TurnInv

\* What the arrivals of users who take turns do to the slots.
LEMMA TurnArrivalStarts ==
    ASSUME TypeOK, SlotsInv, TurnArrivals
    PROVE  /\ UNCHANGED <<viewers, userKey>>
           /\ \A t \in Tasks : task'[t] = task[t] \/ Started(t)
           /\ \A t1, t2 \in Tasks :
                 /\ Started(t1) /\ Started(t2)
                 /\ UserOf[task'[t1].sock] = UserOf[task'[t2].sock]
                 /\ task'[t1].stream = task'[t2].stream
                 => t1 = t2
  <1>0. task \in [Tasks -> Activation \cup {Idle}]
    BY DEF TypeOK
  <1> DEFINE Turns == /\ UNCHANGED <<viewers, userKey>>
                      /\ \A t \in Tasks : task'[t] = task[t] \/ Started(t)
                      /\ \A t1, t2 \in Tasks :
                            /\ Started(t1) /\ Started(t2)
                            /\ UserOf[task'[t1].sock] = UserOf[task'[t2].sock]
                            /\ task'[t1].stream = task'[t2].stream
                            => t1 = t2
  <1>1. ASSUME NEW s \in Sockets, Connect(s) PROVE Turns
    <2>1. \A t \in Tasks : task'[t] = task[t] /\ ~Started(t)
      BY <1>1 DEF Connect, Started, Active
    <2>2. UNCHANGED <<viewers, userKey>>
      BY <1>1 DEF Connect
    <2>3. QED
      BY <2>1, <2>2
  <1>2. ASSUME NEW s \in Sockets, \A st \in RoomsVisited(s) : Quiet(UserOf[s], st),
               Disconnect(s)
        PROVE  Turns
    <2>1. RoomsVisited(s) \subseteq Streams /\ Sockets \X Streams \subseteq Tasks
      BY <1>0 DEF RoomsVisited, TypeOK, Tasks
    <2>2. ASSUME NEW t \in Tasks, t \in {s} \X RoomsVisited(s)
          PROVE  /\ Started(t)
                 /\ task'[t].stream = t[2]
      <3>1. task'[t] = Start("disconnect", s, t[2])
        BY <1>2, <2>2 DEF Disconnect
      <3>2. /\ t[2] \in RoomsVisited(s) /\ t[2] \in Streams
            /\ t \in Sockets \X Streams /\ t[1] = s
        BY <2>1, <2>2
      <3>3. ~Active(t)
        BY <1>0, <1>2, <3>2 DEF SlotsInv, Disconnect
      <3>4. QED
        BY <1>2, <3>1, <3>2, <3>3 DEF Start, Started, Kinds
    <2>3. \A t \in Tasks \ ({s} \X RoomsVisited(s)) : task'[t] = task[t] /\ ~Started(t)
      BY <1>2 DEF Disconnect, Started, Active
    <2>4. ASSUME NEW t1 \in Tasks, NEW t2 \in Tasks, Started(t1), Started(t2),
                 task'[t1].stream = task'[t2].stream
          PROVE  t1 = t2
      <3>1. t1 \in {s} \X RoomsVisited(s) /\ t2 \in {s} \X RoomsVisited(s)
        BY <2>3, <2>4
      <3>2. t1[2] = t2[2]
        BY <2>2, <2>4, <3>1
      <3>3. QED
        BY <3>1, <3>2
    <2>5. \A t \in Tasks : task'[t] = task[t] \/ Started(t)
      BY <2>2, <2>3
    <2>6. UNCHANGED <<viewers, userKey>>
      BY <1>2 DEF Disconnect
    <2>7. QED
      BY <2>4, <2>5, <2>6
  <1>3. ASSUME NEW c \in Calls, NEW s \in Sockets, NEW st \in Streams,
               Quiet(UserOf[s], st), JoinRequest(c, s, st) \/ LeaveRequest(c, s, st)
        PROVE  Turns
    <2>1. /\ c \in Tasks /\ ~Active(c) /\ UNCHANGED <<viewers, userKey>>
          /\ \E k \in {"join", "leave"} : task' = [task EXCEPT ![c] = Start(k, s, st)]
      BY <1>3 DEF JoinRequest, LeaveRequest, Request, Tasks
    <2>2. \A t \in Tasks \ {c} : task'[t] = task[t]
      BY <1>0, <2>1
    <2>3. \A t \in Tasks \ {c} : ~Started(t)
      BY <2>2 DEF Started, Active
    <2>4. Started(c)
      BY <1>0, <1>3, <2>1 DEF Started, Start, Kinds
    <2>5. QED
      BY <2>1, <2>2, <2>3, <2>4
  <1>4. QED
    BY <1>1, <1>2, <1>3 DEF TurnArrivals

\* TurnInv is inductive when the handlers of a user take turns.
LEMMA TurnKept == TurnInv /\ [TurnNext]_vars => TurnInv'
  <1> SUFFICES ASSUME TurnInv, [TurnNext]_vars PROVE TurnInv'
    OBVIOUS
  <1>0. /\ TypeOK /\ KeysInv /\ SlotsInv
        /\ KeysInv' /\ SlotsInv'
    BY MilderSteps, NextKeys, NextSlots DEF TurnInv, KeysInv
  <1>1. CASE TurnArrivals
    BY <1>0, <1>1, TurnArrivalStarts, OthersKeepTurns
  <1>2. ASSUME NEW t \in Tasks, Step(t) PROVE TurnInv'
    BY <1>0, <1>2, StepKeepsTurns
  <1>3. ASSUME NEW y \in Streams, NEW v \in Users, Expire(y, v) PROVE TurnInv'
    <2>1. \A st \in Streams, u \in Users :
             userKey'[st][u] \in {userKey[st][u], None}
      BY <1>0, <1>3, SetKeyValue DEF Expire
    <2>2. \A t \in Tasks : task'[t] = task[t] /\ ~Started(t)
      BY <1>3 DEF Expire, Started, Active
    <2>3. UNCHANGED viewers
      BY <1>3 DEF Expire
    <2>4. QED
      BY <1>0, <2>1, <2>2, <2>3, OthersKeepTurns
  <1>4. CASE UNCHANGED vars
    <2>1. \A t \in Tasks : task'[t] = task[t] /\ ~Started(t)
      BY <1>4 DEF vars, Started, Active
    <2>2. UNCHANGED <<viewers, userKey>>
      BY <1>4 DEF vars
    <2>3. QED
      BY <1>0, <2>1, <2>2, OthersKeepTurns
  <1>5. QED
    BY <1>1, <1>2, <1>3, <1>4 DEF TurnNext, Steps, Expiry

\* Nobody is counted and nothing runs at first.
LEMMA InitTurns == Init => TurnInv
  <1>1. Init => NoOverlap /\ \A t \in Tasks : ~Active(t)
    BY DEF Init, NoOverlap, Active, Idle
  <1>2. Init => KeyNamesCounted
    BY DEF Init, KeyNamesCounted
  <1>3. QED
    BY <1>1, <1>2, InitKeys, InitSlots DEF TurnInv

\* When a user's handlers do not overlap, his handler for a stream is always at
\* one of the stages of Kept, whichever mappings expire and whichever sockets
\* close (streams.gateway.ts:377-411).
THEOREM TurnsCorrect == TurnSpec => []TurnInv
  BY InitTurns, TurnKept, PTL DEF TurnSpec

\* When a user's handlers do not overlap, his mapping names a socket that is
\* counted for him, or nothing, between them (streams.gateway.ts:385-404).
THEOREM MappingsHonest == TurnSpec => []KeyNamesCounted
  <1>1. TurnInv => KeyNamesCounted
    BY DEF TurnInv
  <1>2. QED
    BY <1>1, TurnsCorrect, PTL

\* When a user's handlers do not overlap, whoever is told 'joined' is counted
\* and his mapping names no other socket (streams.gateway.ts:232-247, 389-397).
THEOREM AcksHonest == TurnSpec => []AckHonest
  <1>1. TurnInv => AckHonest
    <2> SUFFICES ASSUME TurnInv, NEW t \in Tasks, At(t, {"join"}, "reply"), ~IsOwner(t)
                 PROVE  /\ task[t].sock \in viewers[task[t].stream]
                        /\ userKey[task[t].stream][User(t)] \in {task[t].sock, None}
      BY DEF AckHonest
    <2>1. Kept(t)
      BY DEF TurnInv, At, Active
    <2>2. QED
      BY <2>1 DEF Kept, At, Counted
  <1>2. QED
    BY <1>1, TurnsCorrect, PTL

-----------------------------------------------------------------------------
(***************************************************************************)
(* One user, one count.  Within the hour of the mapping, Progress says how *)
(* far the two keys agree at each await.                                   *)
(***************************************************************************)
Settled(u, st) == Counted(u, st) = {userKey[st][u]} \ {None}

Progress(t) ==
    LET s    == task[t].sock
        st   == task[t].stream
        C    == Counted(User(t), st)
        key  == userKey[st][User(t)]
        Ends == {"leave", "disconnect"}
    IN  /\ task[t].pc \in {"lookup", "reply"} => Settled(User(t), st)
        /\ At(t, {"join"}, "get") => Settled(User(t), st)
        /\ At(t, {"join"}, "srem") => C = {task[t].old} /\ task[t].old # None
        /\ At(t, {"join"}, "sadd") => C \subseteq {s}
        /\ At(t, {"join"}, "set") => C = {s}
        /\ At(t, {"join"}, "card") => C = {s} /\ key = s
        /\ At(t, {"join"}, "reply") => IsOwner(t) \/ (C = {s} /\ key = s)
        /\ At(t, Ends, "srem") => Settled(User(t), st)
        /\ At(t, Ends, "get") => C = {key} \ {None, s}
        /\ At(t, Ends, "del") => C = {} /\ key = s
        /\ At(t, Ends, "card") => Settled(User(t), st)

UserKeyExact == \A st \in Streams, u \in Users : Quiet(u, st) => Settled(u, st)

CalmInv ==
    /\ KeysInv /\ SlotsInv /\ NoOverlap
    /\ UserKeyExact
    /\ \A t \in Tasks : Active(t) => Progress(t) /\ Placed(t)

\* The user's own handler goes from one stage of Progress to the next, and
\* leaves the keys in agreement when it ends.
LEMMA OwnProgress ==
    ASSUME CalmInv, NEW t \in Tasks, Step(t),
           NEW s \in Sockets, NEW st \in Streams, NEW u \in Users,
           task[t].sock = s, task[t].stream = st, User(t) = u
    PROVE  \/ task'[t] = Idle /\ Settled(u, st)'
           \/ Progress(t)' /\ Placed(t)' /\ Active(t)'
  <1>0. /\ TypeOK /\ Active(t) /\ UserOf[s] = u
        /\ task[t] \in Activation
        /\ task \in [Tasks -> Activation \cup {Idle}]
        /\ userKey[st][u] \in Sockets \cup {None}
        /\ task[t].old \in Sockets \cup {None}
        /\ None \notin Sockets
        /\ Counted(u, st) \subseteq Sockets
    BY HandlerActive, ActiveTask DEF CalmInv, KeysInv, User, TypeOK, Counted
  <1>1. Progress(t) /\ Placed(t)
    BY <1>0 DEF CalmInv
  <1> DEFINE C    == Counted(u, st)
             key  == userKey[st][u]
  <1>2. /\ viewers' = viewers => C' = C
        /\ \A x \in Sockets : SRem(st, x) => C' = C \ {x}
        /\ SAdd(st, s) => C' = C \cup {s}
    BY <1>0, CountedChanges
  <1>3. \A x : SetKey(st, u, x) => key' = x
    BY <1>0, SetKeyValue
  \* A step that goes on to the await p.
  <1>4. ASSUME NEW p, task'[t].pc = p, p \in Awaits,
               task'[t].kind = task[t].kind,
               task'[t].sock = s, task'[t].stream = st,
               task[t].kind = "join" =>
                  p \in {"lookup", "get", "srem", "sadd", "set", "card", "reply"},
               task[t].kind \in {"leave", "disconnect"} =>
                  p \in {"lookup", "srem", "get", "del", "card"},
               p = "lookup" => C' = {key'} \ {None},
               p = "reply" => /\ C' = {key'} \ {None}
                              /\ IsOwner(t) \/ (C' = {s} /\ key' = s),
               task[t].kind = "join" =>
                  /\ p = "get" => C' = {key'} \ {None}
                  /\ p = "srem" => C' = {task'[t].old} /\ task'[t].old # None
                  /\ p = "sadd" => C' \subseteq {s}
                  /\ p = "set" => C' = {s}
                  /\ p = "card" => C' = {s} /\ key' = s,
               task[t].kind \in {"leave", "disconnect"} =>
                  /\ p = "srem" => C' = {key'} \ {None}
                  /\ p = "get" => C' = {key'} \ {None, s}
                  /\ p = "del" => C' = {} /\ key' = s
                  /\ p = "card" => C' = {key'} \ {None}
        PROVE  Progress(t)' /\ Placed(t)' /\ Active(t)'
    <2>1. User(t)' = u /\ IsOwner(t)' = IsOwner(t)
      BY <1>0, <1>4 DEF User, IsOwner
    <2>2. Placed(t)' /\ Active(t)'
      BY <1>4 DEF Placed, Active, Awaits
    <2>3. Progress(t)'
      BY <1>4, <2>1 DEF Progress, Settled, At
    <2>4. QED
      BY <2>2, <2>3
  \* How the slot looks after the two kinds of assignment.
  <1>5. ASSUME NEW p \in Awaits, Goto(t, p)
        PROVE  /\ task'[t].pc = p /\ task'[t].kind = task[t].kind
               /\ task'[t].sock = s /\ task'[t].stream = st
    BY <1>0, <1>5 DEF Goto, Activation
  <1>6. ASSUME NEW p \in Awaits, NEW o, task' = [task EXCEPT ![t].pc = p, ![t].old = o]
        PROVE  /\ task'[t].pc = p /\ task'[t].kind = task[t].kind
               /\ task'[t].sock = s /\ task'[t].stream = st /\ task'[t].old = o
    BY <1>0, <1>6 DEF Activation
  <1>7. Finish(t) => task'[t] = Idle
    BY <1>0 DEF Finish
  <1>j1. CASE JoinLookup(t)
    <2>1. C' = C /\ key' = key /\ C = {key} \ {None} /\ task[t].kind = "join"
      BY <1>0, <1>1, <1>2, <1>j1 DEF JoinLookup, At, Progress, Settled
    <2>2. PICK p \in {"reply", "get"} : Goto(t, p) /\ (p = "reply" => IsOwner(t))
      BY <1>j1 DEF JoinLookup
    <2>3. p \in Awaits
      BY <2>2 DEF Awaits
    <2>4. QED
      BY <1>4, <1>5, <2>1, <2>2, <2>3
  <1>j2. CASE AddGet(t)
    <2>1. C' = C /\ key' = key /\ C = {key} \ {None} /\ task[t].kind = "join"
      BY <1>0, <1>1, <1>2, <1>j2 DEF AddGet, At, Progress, Settled
    <2>2. CASE HasOldSocket(t)
      <3>1. /\ task' = [task EXCEPT ![t].pc = "srem", ![t].old = key]
            /\ key \notin {None, s}
        BY <1>0, <1>j2, <2>2 DEF AddGet, HasOldSocket
      <3>2. "srem" \in Awaits
        BY DEF Awaits
      <3>3. /\ task'[t].pc = "srem" /\ task'[t].kind = "join"
            /\ task'[t].sock = s /\ task'[t].stream = st /\ task'[t].old = key
        BY <1>6, <2>1, <3>1, <3>2
      <3>4. C' = {key} /\ key # None
        BY <2>1, <3>1
      <3>5. QED
        BY <1>4, <2>1, <3>2, <3>3, <3>4
    <2>3. CASE ~HasOldSocket(t)
      <3>1. /\ task' = [task EXCEPT ![t].pc = "sadd", ![t].old = None]
            /\ key \in {None, s}
        BY <1>0, <1>j2, <2>3 DEF AddGet, HasOldSocket
      <3>2. "sadd" \in Awaits
        BY DEF Awaits
      <3>3. /\ task'[t].pc = "sadd" /\ task'[t].kind = "join"
            /\ task'[t].sock = s /\ task'[t].stream = st
        BY <1>6, <2>1, <3>1, <3>2
      <3>4. C' \subseteq {s}
        BY <2>1, <3>1
      <3>5. QED
        BY <1>4, <2>1, <3>2, <3>3, <3>4
    <2>4. QED
      BY <2>2, <2>3
  <1>j3. CASE AddSRem(t)
    <2>1. /\ C = {task[t].old} /\ task[t].old \in Sockets /\ task[t].kind = "join"
          /\ SRem(st, task[t].old)
          /\ task' = [task EXCEPT ![t].pc = "sadd", ![t].old = None]
      BY <1>0, <1>1, <1>j3 DEF AddSRem, At, Progress
    <2>2. C' = {} /\ "sadd" \in Awaits
      BY <1>2, <2>1 DEF Awaits
    <2>3. QED
      BY <1>4, <1>6, <2>1, <2>2
  <1>j4. CASE AddSAdd(t)
    <2>1. /\ C \subseteq {s} /\ task[t].kind = "join" /\ SAdd(st, s) /\ Goto(t, "set")
      BY <1>0, <1>1, <1>j4 DEF AddSAdd, At, Progress
    <2>2. C' = {s} /\ "set" \in Awaits
      BY <1>2, <2>1 DEF Awaits
    <2>3. QED
      BY <1>4, <1>5, <2>1, <2>2
  <1>j5. CASE AddSet(t)
    <2>1. /\ C = {s} /\ C' = C /\ task[t].kind = "join" /\ Goto(t, "card")
          /\ SetKey(st, u, s)
      BY <1>0, <1>1, <1>2, <1>j5 DEF AddSet, At, Progress
    <2>2. key' = s /\ "card" \in Awaits
      BY <1>3, <2>1 DEF Awaits
    <2>3. QED
      BY <1>4, <1>5, <2>1, <2>2
  <1>j6. CASE JoinCounted(t)
    <2>1. /\ C = {s} /\ C' = C /\ key = s /\ key' = key /\ task[t].kind = "join"
          /\ Goto(t, "reply") /\ "reply" \in Awaits
      BY <1>0, <1>1, <1>2, <1>j6 DEF JoinCounted, At, Progress, Awaits
    <2>2. QED
      BY <1>0, <1>4, <1>5, <2>1
  <1>j7. CASE JoinReply(t)
    BY <1>0, <1>1, <1>2, <1>7, <1>j7 DEF JoinReply, At, Progress, Settled
  <1>l1. CASE LeaveLookup(t) \/ DisconnectLookup(t)
    <2>1. /\ C' = C /\ key' = key /\ C = {key} \ {None}
          /\ task[t].kind \in {"leave", "disconnect"}
      BY <1>0, <1>1, <1>2, <1>l1
         DEF LeaveLookup, DisconnectLookup, At, Progress, Settled
    <2>2. Finish(t) \/ (Goto(t, "srem") /\ "srem" \in Awaits)
      BY <1>l1 DEF LeaveLookup, DisconnectLookup, Awaits
    <2>3. CASE Finish(t)
      BY <1>7, <2>1, <2>3 DEF Settled
    <2>4. CASE Goto(t, "srem") /\ "srem" \in Awaits
      BY <1>4, <1>5, <2>1, <2>4
    <2>5. QED
      BY <2>2, <2>3, <2>4
  <1>l2. CASE RemoveSRem(t)
    <2>1. /\ C = {key} \ {None} /\ task[t].kind \in {"leave", "disconnect"}
          /\ SRem(st, s) /\ key' = key /\ Goto(t, "get") /\ "get" \in Awaits
      BY <1>0, <1>1, <1>l2 DEF RemoveSRem, At, Progress, Settled, Awaits
    <2>2. C' = {key'} \ {None, s}
      BY <1>2, <2>1
    <2>3. QED
      BY <1>4, <1>5, <2>1, <2>2
  <1>l3. CASE RemoveGet(t)
    <2>1. /\ C = {key} \ {None, s} /\ task[t].kind \in {"leave", "disconnect"}
          /\ C' = C /\ key' = key
          /\ Goto(t, IF key = s THEN "del" ELSE "card")
      BY <1>0, <1>1, <1>2, <1>l3 DEF RemoveGet, IsCurrent, At, Progress
    <2>2. {"del", "card"} \subseteq Awaits
      BY DEF Awaits
    <2>3. CASE key = s
      BY <1>4, <1>5, <2>1, <2>2, <2>3
    <2>4. CASE key # s
      BY <1>4, <1>5, <2>1, <2>2, <2>4
    <2>5. QED
      BY <2>3, <2>4
  <1>l4. CASE RemoveDel(t)
    <2>1. /\ C = {} /\ task[t].kind \in {"leave", "disconnect"} /\ C' = C
          /\ Goto(t, "card") /\ "card" \in Awaits /\ SetKey(st, u, None)
      BY <1>0, <1>1, <1>2, <1>l4 DEF RemoveDel, At, Progress, Awaits
    <2>2. key' = None
      BY <1>3, <2>1
    <2>3. QED
      BY <1>4, <1>5, <2>1, <2>2
  <1>l5. CASE LeaveCounted(t) \/ DisconnectCounted(t)
    BY <1>0, <1>1, <1>2, <1>7, <1>l5
       DEF LeaveCounted, DisconnectCounted, At, Progress, Settled
  <1>q. QED
    BY <1>j1, <1>j2, <1>j3, <1>j4, <1>j5, <1>j6, <1>j7, <1>l1, <1>l2, <1>l3,
       <1>l4, <1>l5 DEF Step

\* A connection or a request of a user at rest keeps CalmInv.
LEMMA ArrivalsKeepCalm ==
    ASSUME CalmInv, KeysInv', SlotsInv',
           UNCHANGED <<viewers, userKey>>,
           \A t \in Tasks : task'[t] = task[t] \/ Started(t),
           \A t1, t2 \in Tasks :
              /\ Started(t1) /\ Started(t2)
              /\ UserOf[task'[t1].sock] = UserOf[task'[t2].sock]
              /\ task'[t1].stream = task'[t2].stream
              => t1 = t2
    PROVE  CalmInv'
  <1>0. TypeOK
    BY DEF CalmInv, KeysInv
  <1>1. NoOverlap'
    BY ArrivalsTakeTurns DEF CalmInv
  <1>2. UserKeyExact'
    <2> SUFFICES ASSUME NEW st \in Streams, NEW u \in Users, Quiet(u, st)'
                 PROVE  Settled(u, st)
      BY DEF UserKeyExact, Settled, Counted
    <2>1. Quiet(u, st)
      BY DEF Quiet, Started, Active, User
    <2>2. QED
      BY <2>1 DEF CalmInv, UserKeyExact, Settled
  <1>3. ASSUME NEW t \in Tasks, Active(t)'
        PROVE  Progress(t)' /\ Placed(t)'
    <2>1. CASE task'[t] = task[t]
      <3>1. Progress(t) /\ Placed(t)
        BY <1>3, <2>1 DEF CalmInv, Active
      <3>2. Placed(t)'
        BY <2>1, <3>1 DEF Placed
      <3>3. Progress(t)'
        BY <2>1, <3>1 DEF Progress, Settled, Counted, At, User, IsOwner
      <3>4. QED
        BY <3>2, <3>3
    <2>2. CASE Started(t)
      <3>1. Settled(UserOf[task'[t].sock], task'[t].stream)
        BY <2>2 DEF Started, CalmInv, UserKeyExact, Settled
      <3>2. Placed(t)'
        BY <2>2 DEF Started, Placed
      <3>3. Progress(t)'
        BY <2>2, <3>1 DEF Started, Progress, Settled, Counted, At, User
      <3>4. QED
        BY <3>2, <3>3
    <2>3. QED
      BY <2>1, <2>2
  <1>4. QED
    BY <1>1, <1>2, <1>3 DEF CalmInv

\* A step of the one handler that a user runs for a stream keeps CalmInv.
LEMMA StepKeepsCalm ==
    ASSUME CalmInv, KeysInv', SlotsInv', NEW t \in Tasks, Step(t)
    PROVE  CalmInv'
  <1>0. /\ TypeOK /\ KeysInv /\ Active(t)
        /\ task[t].sock \in Sockets /\ task[t].stream \in Streams
        /\ User(t) \in Users
        /\ \A x \in Tasks \ {t} : task'[x] = task[x]
    BY HandlerActive, HandlerSlots, ActiveTask DEF CalmInv, KeysInv
  <1> DEFINE Own(u, st) == User(t) = u /\ task[t].stream = st
  <1>1. PICK s \in Sockets, y \in Streams, v \in Users :
           task[t].sock = s /\ task[t].stream = y /\ User(t) = v
    BY <1>0
  <1>2. \/ task'[t] = Idle /\ Settled(v, y)'
        \/ Progress(t)' /\ Placed(t)' /\ Active(t)'
    BY <1>1, OwnProgress
  <1>3. Active(t)' => User(t)' = v /\ task'[t].stream = y
    BY <1>0, <1>1, StepTakesTurns DEF CalmInv
  <1>4. \A x \in Tasks \ {t} : Active(x)' => /\ Active(x)
                                            /\ User(x)' = User(x)
                                            /\ task'[x].stream = task[x].stream
                                            /\ ~(User(x) = v /\ task[x].stream = y)
    BY <1>0, <1>1, StepTakesTurns DEF CalmInv
  <1>5. NoOverlap'
    BY <1>0, StepTakesTurns DEF CalmInv
  <1>6. ASSUME NEW u \in Users, NEW st \in Streams, ~(v = u /\ y = st)
        PROVE  /\ Counted(u, st)' = Counted(u, st)
               /\ userKey'[st][u] = userKey[st][u]
    BY <1>0, <1>1, <1>6, HandlerFrame
  <1>7. UserKeyExact'
    <2> SUFFICES ASSUME NEW st \in Streams, NEW u \in Users, Quiet(u, st)'
                 PROVE  Settled(u, st)'
      BY DEF UserKeyExact, Settled
    <2>1. CASE v = u /\ y = st
      <3>1. ~Active(t)'
        BY <1>3, <2>1 DEF Quiet
      <3>2. QED
        BY <1>2, <2>1, <3>1
    <2>2. CASE ~(v = u /\ y = st)
      <3>1. Quiet(u, st)
        BY <1>0, <1>1, <2>2 DEF Quiet, Active, User
      <3>2. Settled(u, st)
        BY <3>1 DEF CalmInv, UserKeyExact, Settled
      <3>3. QED
        BY <1>6, <2>2, <3>2 DEF Settled
    <2>3. QED
      BY <2>1, <2>2
  <1>8. ASSUME NEW x \in Tasks, Active(x)'
        PROVE  Progress(x)' /\ Placed(x)'
    <2>1. CASE x = t
      BY <1>2, <1>8, <2>1 DEF Active, Idle
    <2>2. CASE x # t
      <3>1. /\ Progress(x) /\ Placed(x) /\ task'[x] = task[x]
            /\ ~(User(x) = v /\ task[x].stream = y)
            /\ task[x].stream \in Streams /\ User(x) \in Users
        BY <1>0, <1>4, <1>8, <2>2, ActiveTask DEF CalmInv
      <3>2. PICK u \in Users, st \in Streams : User(x) = u /\ task[x].stream = st
        BY <3>1
      <3>3. User(x)' = u /\ task'[x].stream = st /\ IsOwner(x)' = IsOwner(x)
        BY <3>1, <3>2 DEF User, IsOwner
      <3>4. /\ Counted(u, st)' = Counted(u, st)
            /\ userKey'[st][u] = userKey[st][u]
        BY <1>6, <3>1, <3>2
      <3>5. Progress(x)'
        BY <3>1, <3>2, <3>3, <3>4 DEF Progress, Settled, At
      <3>6. Placed(x)'
        BY <3>1 DEF Placed
      <3>7. QED
        BY <3>5, <3>6
    <2>3. QED
      BY <2>1, <2>2
  <1>9. QED
    BY <1>5, <1>7, <1>8 DEF CalmInv

\* CalmInv is inductive under CalmSpec.
LEMMA CalmKept == CalmInv /\ [CalmNext]_vars => CalmInv'
  <1> SUFFICES ASSUME CalmInv, [CalmNext]_vars PROVE CalmInv'
    OBVIOUS
  <1>0. /\ TypeOK /\ KeysInv /\ SlotsInv
        /\ task \in [Tasks -> Activation \cup {Idle}]
        /\ KeysInv' /\ SlotsInv'
    BY MilderSteps, NextKeys, NextSlots DEF CalmInv, KeysInv, TypeOK
  <1>1. CASE TurnArrivals
    BY <1>0, <1>1, TurnArrivalStarts, ArrivalsKeepCalm
  <1>2. ASSUME NEW t \in Tasks, Step(t) PROVE CalmInv'
    BY <1>0, <1>2, StepKeepsCalm
  <1>3. CASE UNCHANGED vars
    <2>1. \A t \in Tasks : task'[t] = task[t] /\ ~Started(t)
      BY <1>3 DEF vars, Started, Active
    <2>2. UNCHANGED <<viewers, userKey>>
      BY <1>3 DEF vars
    <2>3. QED
      BY <1>0, <2>1, <2>2, ArrivalsKeepCalm
  <1>4. QED
    BY <1>1, <1>2, <1>3 DEF CalmNext, Steps

\* Nobody is counted at first.
LEMMA InitCalm == Init => CalmInv
  <1>1. Init => NoOverlap /\ \A t \in Tasks : ~Active(t)
    BY DEF Init, NoOverlap, Active, Idle
  <1>2. Init => UserKeyExact
    BY DEF Init, UserKeyExact, Settled, Counted
  <1>3. QED
    BY <1>1, <1>2, InitKeys, InitSlots DEF CalmInv

\* When a user's handlers do not overlap and his mapping does not expire, his
\* handler for a stream is always at one of the stages of Progress, and between
\* handlers the two keys agree (streams.gateway.ts:377-411).
THEOREM CalmCorrect == CalmSpec => []CalmInv
  BY InitCalm, CalmKept, PTL DEF CalmSpec

\* When a user's handlers do not overlap and his mapping does not expire, he
\* counts at most once in a stream, in every state, with any number of tabs and
\* whenever they close (streams.gateway.ts:389-393).
THEOREM CalmOneCount == CalmSpec => []OneCountedPerUser
  <1>1. CalmInv => OneCountedPerUser
    <2> SUFFICES ASSUME CalmInv, NEW st \in Streams, NEW u \in Users,
                        NEW s1 \in Counted(u, st), NEW s2 \in Counted(u, st)
                 PROVE  s1 = s2
      BY DEF OneCountedPerUser
    <2>1. CASE Quiet(u, st)
      BY <2>1 DEF CalmInv, UserKeyExact, Settled
    <2>2. CASE ~Quiet(u, st)
      <3>1. PICK t \in Tasks : Active(t) /\ User(t) = u /\ task[t].stream = st
        BY <2>2 DEF Quiet
      <3>2. Progress(t) /\ Placed(t) /\ task[t].kind \in Kinds
        BY <3>1, ActiveTask DEF CalmInv, KeysInv
      <3>3. QED
        BY <3>1, <3>2 DEF Progress, Placed, Settled, At, Kinds
    <2>3. QED
      BY <2>1, <2>2
  <1>2. QED
    BY <1>1, CalmCorrect, PTL

=============================================================================
