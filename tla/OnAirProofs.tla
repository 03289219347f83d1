---------------------------- MODULE OnAirProofs ----------------------------
(***************************************************************************)
(* The handlers of the stream service implement OnAir when every client    *)
(* waits for its answers: as StreamLifecycle has them, and behind the HTTP *)
(* path, where the process may die with commands on their way.             *)
(***************************************************************************)
EXTENDS HttpLifecycleProofs, OnAirRefinement

USE NoneIsNobody

LiveRows == [u \in Users |-> RowsOf(u, "LIVE")]

PastRows == [u \in Users |-> RowsOf(u, "FINISHED")]

AskedRows == [u \in Users |-> AskedBy(u)]

\* The user who waits for r waits for nothing else.
LEMMA AsksOne ==
    ASSUME SerialInv, NEW r \in Requests, Pending(r)
    PROVE  AskedBy(req[r].user) = {WhatAsked(r)}
  BY DEF SerialInv, OneAtATime, AskedBy

\* A request that goes on or ends changes what its own user waits for.
LEMMA AskedAfter ==
    ASSUME SerialInv, NEW r \in Requests, Step(r) \/ CutOff(r)
    PROVE  /\ req[r].user \in Users /\ Pending(r)
           /\ ~Pending(r)' => AskedRows' = [AskedRows EXCEPT ![req[r].user] = {}]
           /\ Pending(r)' =>
                 AskedRows' = [AskedRows EXCEPT ![req[r].user] = {WhatAsked(r)'}]
  <1>0. /\ LifeInv /\ Pending(r) /\ req[r].user \in Users
        /\ \A x \in Requests \ {r} : req'[x] = req[x]
        /\ req'[r].user = req[r].user
    BY HandlingEffect, ReqAfter
       DEF SerialInv, LifeInv, TypeOK, Pending, Waits, NewReq
  <1>1. PICK u \in Users : u = req[r].user /\ req'[r].user = u
    BY <1>0
  <1>2. ASSUME NEW x \in Requests \ {r} PROVE ~(Pending(x) /\ req[x].user = u)
    BY <1>0, <1>1 DEF SerialInv, OneAtATime
  <1>3. \A x \in Requests \ {r} : /\ WhatAsked(x)' = WhatAsked(x)
                                  /\ Pending(x)' <=> Pending(x)
                                  /\ req'[x].user = req[x].user
    BY <1>0, <1>1 DEF WhatAsked, Pending
  <1>4. ASSUME NEW v \in Users \ {u} PROVE AskedBy(v)' = AskedBy(v)
    BY <1>0, <1>1, <1>3, <1>4 DEF AskedBy
  <1>5. ~Pending(r)' => AskedBy(u)' = {}
    BY <1>0, <1>1, <1>2, <1>3 DEF AskedBy
  <1>6. Pending(r)' => AskedBy(u)' = {WhatAsked(r)'}
    BY <1>0, <1>1, <1>2, <1>3 DEF AskedBy
  <1>7. /\ AskedRows' = [v \in Users |-> AskedBy(v)']
        /\ AskedRows = [v \in Users |-> AskedBy(v)]
    BY DEF AskedRows
  <1>8. AskedRows' = [AskedRows EXCEPT ![u] = AskedBy(u)']
    BY <1>4, <1>7
  <1>9. QED
    BY <1>0, <1>1, <1>5, <1>6, <1>8

\* The row that an INSERT adds is on air.
LEMMA InsertedRow ==
    ASSUME SerialInv, NEW u \in Users, NEW st \in Streams, status[st] = "none",
           InsertRow(st, u), ~HasLive(u)
    PROVE  /\ LiveRows[u] = {}
           /\ \A v \in Users : st \notin LiveRows[v] \cup PastRows[v]
           /\ LiveRows' = [LiveRows EXCEPT ![u] = {st}] /\ PastRows' = PastRows
  <1>1. TypeOK /\ RowsInv
    BY DEF SerialInv, LifeInv
  <1>2. \A x \in Streams : /\ owner'[x] = IF x = st THEN u ELSE owner[x]
                           /\ status'[x] = IF x = st THEN "LIVE" ELSE status[x]
    BY <1>1 DEF InsertRow, TypeOK
  <1>3. RowsOf(u, "LIVE") = {}
    BY DEF RowsOf, HasLive
  <1>4. \A v \in Users : st \notin RowsOf(v, "LIVE") \cup RowsOf(v, "FINISHED")
    BY DEF RowsOf
  <1>5. RowsOf(u, "LIVE")' = {st}
    BY <1>2, <1>3 DEF RowsOf
  <1>6. ASSUME NEW v \in Users \ {u} PROVE RowsOf(v, "LIVE")' = RowsOf(v, "LIVE")
    BY <1>2, <1>4 DEF RowsOf
  <1>7. ASSUME NEW v \in Users PROVE RowsOf(v, "FINISHED")' = RowsOf(v, "FINISHED")
    BY <1>2, <1>4 DEF RowsOf
  <1>8. QED
    BY <1>3, <1>4, <1>5, <1>6, <1>7 DEF LiveRows, PastRows

\* The row that an UPDATE ends is the one its user has on air.
LEMMA FinishedRow ==
    ASSUME SerialInv, NEW u \in Users, NEW st \in Streams, NEW r, Finish(st, r),
           owner[st] = u, status[st] = "LIVE", owner' = owner
    PROVE  /\ LiveRows[u] = {st}
           /\ LiveRows' = [LiveRows EXCEPT ![u] = {}]
           /\ PastRows' = [PastRows EXCEPT ![u] = @ \cup {st}]
  <1>1. \A x \in Streams : status'[x] = IF x = st THEN "FINISHED" ELSE status[x]
    BY DEF Finish, SerialInv, LifeInv, TypeOK
  <1>2. RowsOf(u, "LIVE") = {st}
    BY DEF RowsOf, SerialInv, OneLivePerUser
  <1>3. RowsOf(u, "LIVE")' = {}
    BY <1>1, <1>2 DEF RowsOf
  <1>4. RowsOf(u, "FINISHED")' = RowsOf(u, "FINISHED") \cup {st}
    BY <1>1 DEF RowsOf
  <1>5. ASSUME NEW v \in Users \ {u}
        PROVE  /\ RowsOf(v, "LIVE")' = RowsOf(v, "LIVE")
               /\ RowsOf(v, "FINISHED")' = RowsOf(v, "FINISHED")
    BY <1>1 DEF RowsOf
  <1>6. QED
    BY <1>2, <1>3, <1>4, <1>5 DEF LiveRows, PastRows

\* A step that inserts and ends no row.
LEMMA RowsStay ==
    ASSUME owner' = owner, status' = status
    PROVE  LiveRows' = LiveRows /\ PastRows' = PastRows
  BY DEF LiveRows, PastRows, RowsOf

\* Every step of a handler is a step of OnAir or changes nothing there.
LEMMA HandlingOnAir ==
    ASSUME SerialInv, NEW r \in Requests, Step(r) \/ CutOff(r)
    PROVE  [Promise!Next]_(Promise!vars)
  <1> DEFINE u == req[r].user
             st == req[r].stream
  <1>0. /\ u \in Users /\ Pending(r) /\ LifeInv /\ ReqPlaced(r) /\ ChecksHold(r)
        /\ RowEffect(r) /\ req \in [Requests -> ReqType \cup {NewReq}]
    BY AskedAfter, HandlingEffect DEF SerialInv, LifeInv, TypeOK, ReqType
  <1>a. req[r] \in ReqType
    BY <1>0 DEF Pending, Waits, NewReq
  <1>1. AskedRows[u] = {WhatAsked(r)}
    BY <1>0, AsksOne DEF AskedRows
  <1>2. /\ ~Pending(r)' => AskedRows' = [AskedRows EXCEPT ![u] = {}]
        /\ Pending(r)' => AskedRows' = [AskedRows EXCEPT ![u] = {WhatAsked(r)'}]
    BY AskedAfter
  <1>3. ASSUME ~Pending(r)', owner' = owner, status' = status
        PROVE  Promise!Answer(u)
    BY <1>2, <1>3, RowsStay DEF Promise!Answer, LiveRows, PastRows, AskedRows
  <1>4. ASSUME NEW x \in Streams, req[r].pc = "insert", status[x] = "none",
               InsertRow(x, u), ~Pending(r)' \/ WhatAsked(r)' = <<"created">>
        PROVE  Promise!GoOnAir(u, x)
    <2>1. ~HasLive(u) /\ WhatAsked(r) = <<"create">>
      BY <1>0, <1>4 DEF ChecksHold, ReqPlaced, WhatAsked
    <2>2. /\ LiveRows[u] = {}
          /\ \A v \in Users : x \notin LiveRows[v] \cup PastRows[v]
          /\ LiveRows' = [LiveRows EXCEPT ![u] = {x}] /\ PastRows' = PastRows
      BY <1>0, <1>4, <2>1, InsertedRow
    <2>3. AskedRows' \in {[AskedRows EXCEPT ![u] = {}],
                          [AskedRows EXCEPT ![u] = {<<"created">>}]}
      BY <1>2, <1>4
    <2>4. AskedRows[u] = {<<"create">>}
      BY <1>1, <2>1
    <2> HIDE DEF u
    <2>5. QED
      BY <2>2, <2>3, <2>4 DEF Promise!GoOnAir, LiveRows, PastRows, AskedRows
  <1>5. ASSUME req[r].pc = "finish" \/ (req[r].pc = "update" /\ Endable(r)),
               Finish(st, r), owner' = owner, ~Pending(r)'
        PROVE  st \in Streams /\ Promise!GoOffAir(u, st)
    <2>1. st \in Streams /\ owner[st] = u /\ status[st] = "LIVE"
      BY <1>0, <1>5 DEF ReqPlaced, ChecksHold, Endable
    <2>2. WhatAsked(r) \in {<<"end", st>>, <<"leave", st>>}
      BY <1>0, <1>5 DEF ReqPlaced, WhatAsked
    <2>3. /\ LiveRows[u] = {st}
          /\ LiveRows' = [LiveRows EXCEPT ![u] = {}]
          /\ PastRows' = [PastRows EXCEPT ![u] = @ \cup {st}]
      BY <1>0, <1>5, <2>1, FinishedRow
    <2>4. AskedRows[u] \in {{<<"end", st>>}, {<<"leave", st>>}}
      BY <1>1, <2>2
    <2>5. AskedRows' = [AskedRows EXCEPT ![u] = {}]
      BY <1>2, <1>5
    <2> HIDE DEF u, st
    <2>6. QED
      BY <2>1, <2>3, <2>4, <2>5 DEF Promise!GoOffAir, LiveRows, PastRows, AskedRows
  <1>6. /\ \A a : Answer(r, a) => ~Pending(r)'
        /\ \A p : Goto(r, p) => req'[r] = [req[r] EXCEPT !.pc = p]
    BY <1>0, <1>a DEF Answer, Goto, Pending, Waits, ReqType
  <1>7. CASE \E x \in Streams : Insert(r, x)
    <2>1. PICK x \in Streams : Insert(r, x)
      BY <1>7
    <2>2. /\ req'[r].kind = "create"
          /\ req'[r].pc = IF req[r].tags THEN "tags" ELSE "done"
      BY <1>0, <1>a, <2>1 DEF Insert, ReqPlaced, ReqType
    <2>3. ~Pending(r)' \/ WhatAsked(r)' = <<"created">>
      BY <2>2 DEF Pending, Waits, WhatAsked
    <2>4. Promise!GoOnAir(u, x)
      BY <1>4, <2>1, <2>3 DEF Insert
    <2>5. QED
      BY <1>0, <2>4 DEF Promise!Next
  <1>8. CASE \E a : Answer(r, a)
    <2>0. ~Pending(r)'
      BY <1>6, <1>8
    <2>1. CASE UNCHANGED rows
      BY <1>0, <1>3, <2>0, <2>1 DEF rows, Promise!Next
    <2>2. CASE /\ req[r].pc = "insert"
               /\ \E x \in Streams : status[x] = "none" /\ InsertRow(x, u)
      BY <1>0, <1>4, <2>0, <2>2 DEF Promise!Next
    <2>3. CASE /\ req[r].pc = "tags"
               /\ InsertTags(st) /\ UNCHANGED <<owner, status, endedAt>>
      BY <1>0, <1>3, <2>0, <2>3 DEF Promise!Next
    <2>4. CASE /\ req[r].pc = "finish" \/ (req[r].pc = "update" /\ Endable(r))
               /\ Finish(st, r) /\ UNCHANGED <<owner, tagged>>
      BY <1>0, <1>5, <2>0, <2>4 DEF Promise!Next
    <2>5. QED
      BY <1>0, <2>1, <2>2, <2>3, <2>4 DEF RowEffect
  <1>9. CASE UNCHANGED rows /\ req[r].pc # "tags"
             /\ \E p \in Waits \ {"tags"} : Goto(r, p)
    <2>0. PICK p \in Waits \ {"tags"} : req'[r] = [req[r] EXCEPT !.pc = p]
      BY <1>6, <1>9
    <2>a. /\ req'[r].pc = p /\ req'[r].kind = req[r].kind
          /\ req'[r].stream = req[r].stream
      BY <2>0, <1>a DEF ReqType
    <2>1. Pending(r)' /\ WhatAsked(r)' = WhatAsked(r)
      BY <2>a, <1>9 DEF Pending, WhatAsked
    <2>2. AskedRows' = AskedRows
      BY <1>1, <1>2, <2>1 DEF AskedRows
    <2>3. QED
      BY <1>9, <2>2, RowsStay
         DEF rows, Promise!vars, LiveRows, PastRows, AskedRows
  <1>10. QED
    <2>1. CASE AuthConfirms(r) \/ CheckLive(r) \/ LeaveFind(r)
      BY <1>8, <1>9, <2>1 DEF AuthConfirms, CheckLive, LeaveFind, Waits
    <2>2. CASE \/ CutOff(r) \/ Tag(r) \/ EndUpdate(r) \/ LeaveFinish(r)
               \/ \E a \in AuthRefusals : AuthRefuses(r, a)
      BY <1>8, <2>2 DEF CutOff, Tag, EndUpdate, LeaveFinish, AuthRefuses
    <2>3. QED
      BY <1>7, <2>1, <2>2 DEF Step

\* A request of u that arrives when u waits for nothing asks its question.
LEMMA ArrivalOnAir ==
    ASSUME SerialInv, NEW r \in Requests, NEW u \in Users, Alone(u), Arrivals(r, u)
    PROVE  Promise!Next
  <1>1. PICK what \in Promise!Questions, k \in Kinds, z \in Streams \cup {None},
             tg \in BOOLEAN, p \in {"auth", "find"} :
           /\ Arrive(r, k, u, z, tg, p)
           /\ what = IF k = "create" THEN <<"create">> ELSE <<k, z>>
    <2>1. CASE \E tg \in BOOLEAN : CreateStream(r, u, tg)
      BY <2>1 DEF CreateStream, Promise!Questions, Kinds
    <2>2. CASE \E st \in Streams : EndStream(r, u, st) \/ LeaveStream(r, u, st)
      <3>1. PICK st \in Streams : EndStream(r, u, st) \/ LeaveStream(r, u, st)
        BY <2>2
      <3>2. <<"end", st>> \in Promise!Questions /\ <<"leave", st>> \in Promise!Questions
        BY DEF Promise!Questions
      <3>3. QED
        BY <3>1, <3>2 DEF EndStream, LeaveStream, Kinds
    <2>3. QED
      BY <2>1, <2>2 DEF Arrivals
  <1>2. /\ req[r].pc = "new" /\ UNCHANGED rows
        /\ \A x \in Requests \ {r} : req'[x] = req[x]
        /\ req'[r].user = u /\ req'[r].kind = k /\ req'[r].stream = z /\ req'[r].pc = p
    BY <1>1 DEF Arrive, SerialInv, LifeInv, TypeOK
  <1>3. Pending(r)' /\ WhatAsked(r)' = what /\ ~Pending(r)
    BY <1>1, <1>2 DEF Pending, Waits, WhatAsked
  <1>4. \A y \in Requests \ {r} : /\ WhatAsked(y)' = WhatAsked(y)
                                  /\ Pending(y)' <=> Pending(y)
                                  /\ req'[y].user = req[y].user
    BY <1>2 DEF WhatAsked, Pending
  <1>5. AskedBy(u) = {}
    BY DEF AskedBy, Alone
  <1>6. AskedBy(u)' = {what}
    BY <1>2, <1>3, <1>4 DEF AskedBy, Alone
  <1>7. ASSUME NEW v \in Users \ {u} PROVE AskedBy(v)' = AskedBy(v)
    BY <1>2, <1>3, <1>4 DEF AskedBy
  <1>8. AskedRows[u] = {} /\ AskedRows' = [AskedRows EXCEPT ![u] = {what}]
    BY <1>5, <1>6, <1>7 DEF AskedRows
  <1>9. Promise!Ask(u, what)
    BY <1>2, <1>8, RowsStay DEF Promise!Ask, rows, LiveRows, PastRows, AskedRows
  <1>10. QED
    BY <1>9 DEF Promise!Next

\* A step that the handlers and the table do not see.
LEMMA OffAirStays ==
    ASSUME UNCHANGED vars
    PROVE  UNCHANGED Promise!vars
  BY DEF vars, Promise!vars, RowsOf, AskedBy, WhatAsked, Pending

\* Nobody waits, nothing is past; streams of an earlier process are on air.
LEMMA InitOnAir ==
    ASSUME \A r \in Requests : ~Pending(r),
           \A st \in Streams : status[st] # "FINISHED",
           OneLivePerUser
    PROVE  Promise!Init
  <1>1. \A u \in Users : RowsOf(u, "FINISHED") = {} /\ AskedBy(u) = {}
    BY DEF RowsOf, AskedBy
  <1>2. \A u \in Users : \A s, x \in RowsOf(u, "LIVE") : s = x
    BY DEF RowsOf, OneLivePerUser
  <1>3. \A u, v \in Users : u # v => RowsOf(u, "LIVE") \cap RowsOf(v, "LIVE") = {}
    BY DEF RowsOf
  <1>4. \A u \in Users : RowsOf(u, "LIVE") \in SUBSET Streams
    BY DEF RowsOf
  <1>5. QED
    BY <1>1, <1>2, <1>3, <1>4 DEF Promise!Init

-----------------------------------------------------------------------------
\* When every user waits for his answers, the check and the INSERT of
\* createStream, and the SELECT and the UPDATE of leaveStream, act as one command
\* each, whatever fails in between (stream.service.ts:49-91, 111-126, 343-362).
THEOREM SerialImplementsOnAir == SerialSpec => ImplementsOnAir
  <1>1. Init => Promise!Init
    <2>1. Init => /\ \A r \in Requests : ~Pending(r)
                  /\ \A st \in Streams : status[st] # "FINISHED"
                  /\ OneLivePerUser
      BY DEF Init, Pending, NewReq, Waits, OneLivePerUser
    <2>2. QED
      BY <2>1, InitOnAir
  <1>2. SerialInv /\ [SerialNext]_vars => [Promise!Next]_(Promise!vars)
    <2> SUFFICES ASSUME SerialInv, [SerialNext]_vars
                 PROVE  [Promise!Next]_(Promise!vars)
      OBVIOUS
    <2>1. CASE \E r \in Requests, u \in Users : Alone(u) /\ Arrivals(r, u)
      BY <2>1, ArrivalOnAir
    <2>2. CASE Handling
      BY <2>2, HandlingOnAir, DatabaseCutsOff DEF Handling
    <2>3. CASE UNCHANGED vars
      BY <2>3, OffAirStays
    <2>4. QED
      BY <2>1, <2>2, <2>3 DEF SerialNext
  <1>3. QED
    BY <1>1, <1>2, SerialCorrect, PTL DEF SerialSpec, ImplementsOnAir, Promise!Spec

\* The guard's decision lets a request arrive or leaves the table alone.
LEMMA JudgeOnAir ==
    ASSUME ServedInv, NEW r \in Requests, NEW k \in Routes,
           NEW tok, NEW st \in Streams, tok \in Token => HasTurn(r, tok.user),
           Judge(r, k, tok, st)
    PROVE  Promise!Next \/ UNCHANGED vars
  <1>1. CASE Refuse(r)
    BY <1>1 DEF Refuse
  <1>2. CASE Admits(k, tok) /\ Admit(r, k, tok, st)
    <2>1. CASE k \in {"end", "leave"}
      <3>1. PICK u \in Users : u = HttpUser(mode, tok) /\ HasTurn(r, u)
        BY <1>2, <2>1 DEF Admits, HttpUser, Token
      <3>2. EndStream(r, u, st) \/ LeaveStream(r, u, st)
        BY <1>2, <2>1, <3>1 DEF Admit
      <3>3. Arrivals(r, u) /\ Alone(u)
        BY <3>1, <3>2 DEF Arrivals, HasTurn
      <3>4. QED
        BY <3>3, ArrivalOnAir DEF ServedInv
    <2>2. CASE k \in {"create", "status"}
      BY <1>2, <2>2 DEF Admit
    <2>3. QED
      BY <2>1, <2>2 DEF Routes
  <1>3. QED
    BY <1>1, <1>2 DEF Judge

\* Behind the guard the promise to waiting users is kept too: by requests that wait for a key or a
\* body, with streams of an earlier process on air, and by the commands that are
\* executed after the process died (jwt.strategy.ts:24-40,
\* stream.service.ts:49-91, 111-126, 343-362).
THEOREM HttpImplementsOnAir == SerialHSpec => ImplementsOnAir
  <1>1. HInit => Promise!Init
    <2>1. HInit => /\ \A r \in Requests : ~Pending(r)
                   /\ \A st \in Streams : status[st] # "FINISHED"
                   /\ OneLivePerUser
      BY DEF HInit, Pending, NewReq, Waits, OneLivePerUser
    <2>2. QED
      BY <2>1, InitOnAir
  <1>2. ServedInv /\ [SerialHNext]_hvars => [Promise!Next]_(Promise!vars)
    <2> SUFFICES ASSUME ServedInv, [SerialHNext]_hvars
                 PROVE  Promise!Next \/ UNCHANGED Promise!vars
      OBVIOUS
    <2>0. SerialInv /\ TurnInv /\ http \in [Requests -> HttpRequest]
      BY DEF ServedInv, HttpInv
    <2>1. ASSUME NEW r \in Requests, NEW k \in Routes, NEW tok \in Offered,
                 NEW st \in Streams, tok \in Token => Free(tok.user),
                 Receive(r, k, tok, st)
          PROVE  Promise!Next \/ UNCHANGED vars
      <3>1. ASSUME tok \in Token PROVE HasTurn(r, tok.user)
        <4>1. Free(tok.user)
          BY <2>1, <3>1
        <4>2. ASSUME NEW x \in Requests \ {r}, Waiting(x)
              PROVE  http[x].token.user # tok.user
          BY <2>0, <4>1, <4>2 DEF Free, Waiting, TurnInv, Turn
        <4>3. QED
          BY <4>1, <4>2 DEF HasTurn, Free
      <3>2. QED
        BY <2>1, <3>1, JudgeOnAir DEF Receive
    <2>2. ASSUME NEW r \in Requests, KeyArrives(r)
          PROVE  Promise!Next \/ UNCHANGED vars
      <3>1. /\ http[r].stage = "key"
            /\ Judge(r, http[r].route, http[r].token, http[r].stream)
        BY <2>2 DEF KeyArrives
      <3>2. /\ http[r].route \in Routes /\ http[r].token \in Token
            /\ http[r].stream \in Streams /\ HasTurn(r, http[r].token.user)
        BY <2>0, <3>1 DEF ServedInv, HttpInv, Fits, TurnInv, Turn, Waiting
      <3>3. QED
        BY <3>1, <3>2, JudgeOnAir
    <2>3. ASSUME NEW r \in Requests, NEW tg \in BOOLEAN, BodyAccepted(r, tg)
          PROVE  Promise!Next
      <3>1. http[r].stage = "body" /\ CreateStream(r, Caller(r), tg)
        BY <2>3 DEF BodyAccepted
      <3>2. PICK u \in Users : u = Caller(r) /\ Alone(u)
        BY <2>0, <3>1 DEF TurnInv, Turn, Waiting, HasTurn, Caller, HttpUser, Token
      <3>3. QED
        BY <2>0, <3>1, <3>2, ArrivalOnAir DEF Arrivals
    <2>4. ASSUME NEW r \in Requests, Handle(r) \/ Orphaned(r)
          PROVE  Promise!Next \/ UNCHANGED Promise!vars
      <3>1. Step(r) \/ CutOff(r)
        BY <2>4, DatabaseCutsOff DEF Handle, Orphaned, CutOff
      <3>2. QED
        BY <2>0, <3>1, HandlingOnAir
    <2>5. ASSUME NEW r \in Requests,
                 \/ Preflight(r) \/ KeyLost(r) \/ BodyRejected(r) \/ BodyAbandoned(r)
                 \/ GetStreamStatus(r)
                 \/ \E k \in Routes, tok \in Brought : HeaderUnreadable(r, k, tok)
          PROVE  UNCHANGED vars
      BY <2>5 DEF Preflight, KeyLost, BodyRejected, BodyAbandoned, GetStreamStatus,
                  HeaderUnreadable, ProcessEnds
    <2>6. CASE KeyExpires \/ UNCHANGED hvars
      <3>1. UNCHANGED vars
        BY <2>6 DEF KeyExpires, hvars
      <3>2. QED
        BY <3>1, OffAirStays
    <2>7. QED
      BY <2>1, <2>2, <2>3, <2>4, <2>5, <2>6, OffAirStays
         DEF SerialHNext, Onward, Handled
  <1>3. QED
    BY <1>1, <1>2, ServedCorrect, PTL DEF SerialHSpec, ImplementsOnAir, Promise!Spec

-----------------------------------------------------------------------------
\* OnAir keeps its promise: a user has one stream on air, which is nobody else's,
\* and one that is past is on air no more (stream.service.ts:49-51, 112-116).
THEOREM OneOnAirKept == Promise!Spec => []Promise!OneOnAir
  <1> DEFINE Typed == /\ LiveRows \in [Users -> SUBSET Streams]
                      /\ PastRows \in [Users -> SUBSET Streams]
             Kept == Typed /\ Promise!OneOnAir
  <1>1. Promise!Init => Kept
    BY DEF Promise!Init, Promise!OneOnAir, LiveRows, PastRows
  <1>2. Kept /\ [Promise!Next]_(Promise!vars) => Kept'
    <2> SUFFICES ASSUME Kept, [Promise!Next]_(Promise!vars) PROVE Kept'
      OBVIOUS
    <2>0. Promise!OneOnAir <=>
            \A u, v \in Users :
               /\ \A s, x \in LiveRows[u] : s = x
               /\ LiveRows[u] \cap PastRows[v] = {}
               /\ u # v => LiveRows[u] \cap LiveRows[v] = {}
      BY DEF Promise!OneOnAir, LiveRows, PastRows
    <2>a. Promise!OneOnAir' <=>
            \A u, v \in Users :
               /\ \A s, x \in LiveRows'[u] : s = x
               /\ LiveRows'[u] \cap PastRows'[v] = {}
               /\ u # v => LiveRows'[u] \cap LiveRows'[v] = {}
      BY DEF Promise!OneOnAir, LiveRows, PastRows
    <2>1. ASSUME NEW u \in Users, NEW st \in Streams, Promise!GoOnAir(u, st) PROVE Kept'
      <3>1. /\ \A v \in Users : st \notin LiveRows[v] \cup PastRows[v]
            /\ LiveRows' = [LiveRows EXCEPT ![u] = {st}] /\ PastRows' = PastRows
        BY <2>1 DEF Promise!GoOnAir, LiveRows, PastRows
      <3>2. QED
        BY <2>0, <2>a, <3>1
    <2>2. ASSUME NEW u \in Users, NEW st \in Streams, Promise!GoOffAir(u, st) PROVE Kept'
      <3>1. /\ LiveRows[u] = {st}
            /\ LiveRows' = [LiveRows EXCEPT ![u] = {}]
            /\ PastRows' = [PastRows EXCEPT ![u] = @ \cup {st}]
        BY <2>2 DEF Promise!GoOffAir, LiveRows, PastRows
      <3>2. QED
        BY <2>0, <2>a, <3>1
    <2>3. ASSUME LiveRows' = LiveRows, PastRows' = PastRows PROVE Kept'
      BY <2>0, <2>a, <2>3
    <2>4. ASSUME NEW u \in Users,
                 Promise!Answer(u) \/ \E what \in Promise!Questions : Promise!Ask(u, what)
          PROVE  Kept'
      BY <2>3, <2>4 DEF Promise!Answer, Promise!Ask, LiveRows, PastRows
    <2>5. CASE UNCHANGED Promise!vars
      BY <2>3, <2>5 DEF Promise!vars, LiveRows, PastRows
    <2>6. QED
      BY <2>1, <2>2, <2>4, <2>5 DEF Promise!Next
  <1>3. QED
    BY <1>1, <1>2, PTL DEF Promise!Spec
=============================================================================
