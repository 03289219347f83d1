------------------------ MODULE HttpLifecycleProofs ------------------------
(***************************************************************************)
(* Proofs about the life of a stream behind the HTTP path of HttpApi, for  *)
(* every number of users, streams and requests: the guard that may wait    *)
(* for a key, the body that may be rejected or abandoned, and the process  *)
(* that dies with commands on their way, added to the handlers that        *)
(* StreamLifecycleProofs is about.  The table may hold streams of an       *)
(* earlier process.                                                        *)
(***************************************************************************)
EXTENDS HttpApiProofs, StreamLifecycleProofs

(***************************************************************************)
(* First with requests of a user that overlap: what passes the guard and   *)
(* the body is a request of a user, as StreamLifecycle has them.           *)
(***************************************************************************)
CallersKnown == \A r \in Requests : http[r].stage = "body" => Caller(r) # None

HttpLifeInv == HttpInv /\ LifeInv /\ CallersKnown

\* Streams of an earlier process are LIVE and not ended.
LEMMA InitHttpLife == HInit => HttpLifeInv
  <1> SUFFICES ASSUME HInit PROVE HttpLifeInv
    OBVIOUS
  <1>1. TypeOK /\ RowsInv
    BY DEF HInit, TypeOK, RowsInv
  <1>2. \A r \in Requests : req[r] = NewReq
    BY DEF HInit
  <1>3. \A r \in Requests : ReqPlaced(r) /\ AckHolds(r)
    BY <1>2 DEF NewReq, ReqPlaced, AckHolds, Answered
  <1>4. EndAckedOnce
    BY <1>2 DEF NewReq, EndAckedOnce, Answered
  <1>5. CallersKnown
    BY DEF HInit, CallersKnown, NewHttp
  <1>6. QED
    BY <1>1, <1>3, <1>4, <1>5, InitHttp DEF HttpLifeInv, LifeInv

\* What the guard admits is a request of a user, or none of the table's.
LEMMA JudgeArrives ==
    ASSUME NEW r \in Requests, NEW k \in Routes, NEW tok, NEW st \in Streams,
           Judge(r, k, tok, st)
    PROVE  UNCHANGED vars \/ \E u \in Users : Arrivals(r, u)
  <1>1. CASE Refuse(r)
    BY <1>1 DEF Refuse
  <1>2. CASE Admits(k, tok) /\ Admit(r, k, tok, st)
    <2>1. CASE k \in {"end", "leave"}
      <3>1. PICK u \in Users : u = HttpUser(mode, tok)
        BY <1>2, <2>1 DEF Admits, HttpUser, Token
      <3>2. EndStream(r, u, st) \/ LeaveStream(r, u, st)
        BY <1>2, <2>1, <3>1 DEF Admit
      <3>3. QED
        BY <3>2 DEF Arrivals
    <2>2. CASE k \notin {"end", "leave"}
      BY <1>2, <2>2 DEF Admit
    <2>3. QED
      BY <2>1, <2>2
  <1>3. QED
    BY <1>1, <1>2 DEF Judge

\* Every step of the server is a step of one handler, an arrival, or leaves the
\* table and the handlers alone.
LEMMA NextMoves ==
    ASSUME HttpLifeInv, [HNext]_hvars
    PROVE  \/ UNCHANGED vars
           \/ \E r \in Requests, u \in Users : Arrivals(r, u)
           \/ \E r \in Requests : Step(r) \/ CutOff(r)
  <1>0. http \in [Requests -> HttpRequest] /\ \A r \in Requests : Fits(http[r])
    BY DEF HttpLifeInv, HttpInv
  <1>1. ASSUME NEW r \in Requests, NEW k \in Routes, NEW tok \in Offered,
               NEW st \in Streams, Receive(r, k, tok, st)
        PROVE  UNCHANGED vars \/ \E u \in Users : Arrivals(r, u)
    BY <1>1, JudgeArrives DEF Receive
  <1>2. ASSUME NEW r \in Requests, KeyArrives(r)
        PROVE  UNCHANGED vars \/ \E u \in Users : Arrivals(r, u)
    <2>1. /\ http[r].route \in Routes /\ http[r].stream \in Streams
          /\ Judge(r, http[r].route, http[r].token, http[r].stream)
      BY <1>0, <1>2 DEF KeyArrives, Fits
    <2>2. QED
      BY <2>1, JudgeArrives
  <1>3. ASSUME NEW r \in Requests, NEW tg \in BOOLEAN, BodyAccepted(r, tg)
        PROVE  \E u \in Users : Arrivals(r, u)
    <2>1. PICK u \in Users : u = Caller(r)
      BY <1>3 DEF BodyAccepted, HttpLifeInv, CallersKnown, Caller, HttpUser, Token
    <2>2. QED
      BY <1>3, <2>1 DEF BodyAccepted, Arrivals
  <1>4. ASSUME NEW r \in Requests, Handle(r) \/ Orphaned(r)
        PROVE  Step(r) \/ CutOff(r)
    BY <1>4, DatabaseCutsOff DEF Handle, Orphaned, CutOff
  <1>5. ASSUME \/ \E r \in Requests :
                     \/ Preflight(r) \/ KeyLost(r) \/ BodyRejected(r)
                     \/ BodyAbandoned(r) \/ GetStreamStatus(r)
                     \/ \E k \in Routes, tok \in Brought : HeaderUnreadable(r, k, tok)
               \/ KeyExpires \/ UNCHANGED hvars
        PROVE  UNCHANGED vars
    BY <1>5 DEF Preflight, KeyLost, BodyRejected, BodyAbandoned, GetStreamStatus,
                HeaderUnreadable, ProcessEnds, KeyExpires, hvars
  <1>6. QED
    BY <1>1, <1>2, <1>3, <1>4, <1>5 DEF HNext, Onward, Handled

\* A request that waits for its body has passed the guard.
LEMMA CallersKept == HttpLifeInv /\ [HNext]_hvars => CallersKnown'
  <1> SUFFICES ASSUME HttpLifeInv, [HNext]_hvars, NEW r \in Requests,
                      http'[r].stage = "body"
               PROVE  Caller(r)' # None
    BY DEF CallersKnown
  <1>0. http \in [Requests -> HttpRequest] /\ CallersKnown /\ mode' = mode
    BY DEF HttpLifeInv, HttpInv, HNext, Onward, Handled, Preflight, Receive,
           HeaderUnreadable, ProcessEnds, KeyArrives, KeyLost, KeyExpires,
           BodyAccepted, BodyRejected, BodyAbandoned, Handle, GetStreamStatus,
           Orphaned, server, hvars
  <1>1. CASE http'[r] = http[r]
    BY <1>0, <1>1 DEF CallersKnown, Caller
  <1>2. ASSUME NEW x \in Requests, NEW k, NEW tok, NEW st, Judge(x, k, tok, st),
               http'[r] # http[r]
        PROVE  Caller(r)' # None
    <2>1. x = r /\ k = "create" /\ http'[r].token = tok /\ Admits(k, tok)
      BY <1>0, <1>2 DEF Judge, Refuse, Admit, NewHttp
    <2>2. QED
      BY <1>0, <2>1 DEF Admits, Caller
  <1>3. ASSUME NEW x \in Requests,
               \/ (\E class : Send(x, class)) \/ BodyAbandoned(x)
               \/ \E tg \in BOOLEAN : BodyAccepted(x, tg)
        PROVE  http'[r] = http[r]
    BY <1>0, <1>3 DEF Send, BodyAbandoned, BodyAccepted, HttpRequest
  <1>4. ASSUME NEW x \in Requests, Preflight(x) \/ Handled(x) \/ Orphaned(x),
               http'[r] # http[r]
        PROVE  Caller(r)' # None
    <2>1. \/ http' = http \/ KeyArrives(x) \/ (\E class : Send(x, class))
          \/ BodyAbandoned(x) \/ \E tg \in BOOLEAN : BodyAccepted(x, tg)
      BY <1>4 DEF Preflight, Handled, Orphaned, KeyLost, ProcessEnds, BodyRejected,
                  Handle, GetStreamStatus, Outcome
    <2>2. QED
      BY <1>2, <1>3, <1>4, <2>1 DEF KeyArrives
  <1>5. ASSUME NEW x \in Requests, NEW k \in Routes, NEW tok \in Offered,
               NEW st \in Streams, Receive(x, k, tok, st), http'[r] # http[r]
        PROVE  Caller(r)' # None
    BY <1>0, <1>2, <1>5 DEF Receive, NewHttp
  <1>6. ASSUME \/ \E x \in Requests, k \in Routes, tok \in Brought :
                     HeaderUnreadable(x, k, tok)
               \/ KeyExpires \/ UNCHANGED hvars
        PROVE  http'[r] = http[r]
    BY <1>6 DEF HeaderUnreadable, ProcessEnds, KeyExpires, hvars
  <1>7. QED
    BY <1>1, <1>4, <1>5, <1>6 DEF HNext, Onward

\* HttpLifeInv is inductive.
LEMMA NextHttpLife == HttpLifeInv /\ [HNext]_hvars => HttpLifeInv'
  <1> SUFFICES ASSUME HttpLifeInv, [HNext]_hvars PROVE LifeInv'
    BY NextHttp, CallersKept DEF HttpLifeInv
  <1>1. CASE UNCHANGED vars \/ \E r \in Requests, u \in Users : Arrivals(r, u)
    BY <1>1, NextLife DEF HttpLifeInv, Next
  <1>2. CASE \E r \in Requests : Step(r) \/ CutOff(r)
    BY <1>2, HandlingLife DEF HttpLifeInv
  <1>3. QED
    BY <1>1, <1>2, NextMoves

\* Behind the guard too, with requests of a user that overlap, with streams of an
\* earlier process and commands executed after the process died, each request is
\* where its rows say (jwt.strategy.ts:24-47, stream.service.ts:40-126, 341-371).
THEOREM HttpLifeCorrect == HSpec => []HttpLifeInv
  BY InitHttpLife, NextHttpLife, PTL DEF HSpec

\* What the endpoints acknowledge behind the guard stays true, for streams of an
\* earlier process too (stream.service.ts:54-91, 111-126, 354-371).
THEOREM HttpAcknowledgementsHold == HSpec => []AckTruthful
  <1>1. HttpLifeInv => AckTruthful
    BY LifeInvAcks DEF HttpLifeInv
  <1>2. QED
    BY <1>1, HttpLifeCorrect, PTL

\* Behind the guard, and after the process died, only the streamer's own 'end' or
\* 'leave' ends a stream, and for good (stream.service.ts:112, 354-362).
THEOREM HttpEndedByOwner == HSpec => EndedByOwnerForGood
  <1>1. HttpLifeInv /\ [HNext]_hvars => [EndsByOwner]_vars
    <2> SUFFICES ASSUME HttpLifeInv, [HNext]_hvars PROVE EndsByOwner \/ UNCHANGED vars
      OBVIOUS
    <2>1. ASSUME NEW r \in Requests, NEW u \in Users, Arrivals(r, u) PROVE EndsByOwner
      BY <2>1 DEF Arrivals, CreateStream, EndStream, LeaveStream, Arrive, rows,
                  EndsByOwner
    <2>2. ASSUME NEW r \in Requests, Step(r) \/ CutOff(r) PROVE EndsByOwner
      BY <2>2, HandlingEnds DEF HttpLifeInv
    <2>3. QED
      BY <2>1, <2>2, NextMoves
  <1>2. QED
    BY <1>1, HttpLifeCorrect, PTL DEF HSpec, EndedByOwnerForGood, EndsByOwner

\* And a stored end time is moved only by departures of the streamer that had read
\* the row before it was ended, even by one whose command is executed after the
\* process died (stream.service.ts:112-116, 343-362).
THEOREM HttpEndTime == HSpec => EndTimeMovesInRaceOnly
  <1>1. HttpLifeInv /\ [HNext]_hvars => [EndTimesMove]_vars
    <2> SUFFICES ASSUME HttpLifeInv, [HNext]_hvars
                 PROVE  EndTimesMove \/ UNCHANGED vars
      OBVIOUS
    <2>1. ASSUME NEW r \in Requests, NEW u \in Users, Arrivals(r, u)
          PROVE  EndTimesMove
      <3>1. UNCHANGED rows /\ TypeOK
        BY <2>1 DEF Arrivals, CreateStream, EndStream, LeaveStream, Arrive,
                    HttpLifeInv, LifeInv
      <3>2. QED
        BY <2>1, <3>1, StillMoves
    <2>2. ASSUME NEW r \in Requests, Step(r) \/ CutOff(r) PROVE EndTimesMove
      BY <2>2, HandlingMoves DEF HttpLifeInv
    <2>3. QED
      BY <2>1, <2>2, NextMoves
  <1>2. QED
    BY <1>1, HttpLifeCorrect, PTL DEF HSpec, EndTimeMovesInRaceOnly, EndTimesMove

-----------------------------------------------------------------------------
(***************************************************************************)
(* Now clients that wait for each answer.                                  *)
(***************************************************************************)
\* A request that the guard or multer has not passed on to its handler.
Waiting(r) == http[r].stage \in {"key", "body"}

\* No other request, with or without a handler, has the user of the token.
HasTurn(r, u) ==
    /\ Alone(u)
    /\ \A x \in Requests \ {r} : Waiting(x) => http[x].token.user # u

(***************************************************************************)
(* A request that waits holds the turn of its user, and what its handler   *)
(* is to be given: an id, and if it waits for its body a user.             *)
(***************************************************************************)
Turn(r) ==
    Waiting(r) =>
        /\ http[r].token \in Token
        /\ HasTurn(r, http[r].token.user)
        /\ http[r].stage = "key" => http[r].stream \in Streams
        /\ http[r].stage = "body" => Caller(r) # None

TurnInv == \A r \in Requests : Turn(r)

ServedInv == HttpInv /\ SerialInv /\ TurnInv

\* Streams of an earlier process are LIVE, one for each user, and not ended.
LEMMA InitServed == HInit => ServedInv
  <1> SUFFICES ASSUME HInit PROVE ServedInv
    OBVIOUS
  <1>1. \A r \in Requests : req[r] = NewReq /\ ~Pending(r)
    BY DEF HInit, Pending, NewReq, Waits
  <1>2. OneLivePerUser
    BY DEF HInit, OneLivePerUser
  <1>3. SerialInv
    BY <1>1, <1>2, InitHttpLife
       DEF HttpLifeInv, SerialInv, OneAtATime, ChecksHold, NewReq
  <1>4. TurnInv
    BY DEF HInit, TurnInv, Turn, Waiting, NewHttp
  <1>5. QED
    BY <1>3, <1>4, InitHttp DEF ServedInv

\* The turns are kept by a step of r if r has a turn when it waits, and when its
\* handler runs is not the request of a user whose turn it is not.
LEMMA TurnsKept ==
    ASSUME TurnInv, NEW r \in Requests, mode' = mode,
           \A x \in Requests \ {r} : http'[x] = http[x] /\ req'[x] = req[x],
           \A x \in Requests \ {r} :
              Waiting(x) /\ Pending(r)' => http[x].token.user # req'[r].user,
           Turn(r)'
    PROVE  TurnInv'
  <1> SUFFICES ASSUME NEW x \in Requests \ {r}, Waiting(x)'
               PROVE  Turn(x)'
    BY DEF TurnInv, Turn
  <1>1. Waiting(x) /\ http'[x] = http[x] /\ Turn(x)
    BY DEF Waiting, TurnInv
  <1>2. Alone(http[x].token.user)'
    BY <1>1 DEF Turn, HasTurn, Alone, Pending
  <1>3. ASSUME NEW y \in Requests \ {x}, Waiting(y)'
        PROVE  http'[y].token.user # http[x].token.user
    <2>1. CASE y = r
      BY <1>1, <1>3, <2>1 DEF Turn, HasTurn, Waiting
    <2>2. CASE y # r
      BY <1>1, <1>3, <2>2 DEF Turn, HasTurn, Waiting
    <2>3. QED
      BY <2>1, <2>2
  <1>4. QED
    BY <1>1, <1>2, <1>3 DEF Turn, HasTurn, Caller, Waiting

\* A handler that goes on or ends takes no turn.
LEMMA HandlerTurns ==
    ASSUME ServedInv, NEW r \in Requests, Step(r) \/ CutOff(r), mode' = mode,
           \A x \in Requests \ {r} : http'[x] = http[x],
           http'[r] = http[r] \/ ~Waiting(r)'
    PROVE  SerialInv' /\ TurnInv'
  <1>1. SerialInv' /\ LifeInv
    BY SerialHandling DEF ServedInv, SerialInv
  <1>2. /\ \A x \in Requests \ {r} : req'[x] = req[x]
        /\ req'[r].user = req[r].user /\ Pending(r)
    BY <1>1, ReqAfter, HandlingEffect
  <1>3. \A x \in Requests \ {r} :
           Waiting(x) /\ Pending(r)' => http[x].token.user # req'[r].user
    BY <1>2 DEF ServedInv, TurnInv, Turn, HasTurn, Alone
  <1>4. Turn(r)'
    <2>1. CASE ~Waiting(r)'
      BY <2>1 DEF Turn
    <2>2. CASE http'[r] = http[r] /\ Waiting(r)
      <3>1. Turn(r)
        BY DEF ServedInv, TurnInv
      <3>2. Alone(http[r].token.user)'
        BY <1>2, <2>2, <3>1 DEF Turn, HasTurn, Alone, Pending
      <3>3. QED
        BY <2>2, <3>1, <3>2 DEF Turn, HasTurn, Waiting, Caller
    <2>3. QED
      BY <2>1, <2>2 DEF Waiting
  <1>5. TurnInv'
    BY <1>2, <1>3, <1>4, TurnsKept DEF ServedInv
  <1>6. QED
    BY <1>1, <1>5

\* So does a step that leaves the handlers alone and ends no wait but its own.
LEMMA OutsideTurns ==
    ASSUME TurnInv, NEW r \in Requests, UNCHANGED vars, mode' = mode,
           \A x \in Requests \ {r} : http'[x] = http[x],
           Turn(r)'
    PROVE  TurnInv'
  <1>1. \A x \in Requests \ {r} :
           Waiting(x) /\ Pending(r)' => http[x].token.user # req'[r].user
    BY DEF vars, TurnInv, Turn, HasTurn, Alone, Pending
  <1>2. QED
    BY <1>1, TurnsKept DEF vars

\* A request of u that arrives at its handler when it is u's turn.
LEMMA ArrivalTurns ==
    ASSUME ServedInv, NEW r \in Requests, NEW u \in Users, HasTurn(r, u),
           Arrivals(r, u), mode' = mode,
           \A x \in Requests \ {r} : http'[x] = http[x], ~Waiting(r)'
    PROVE  SerialInv' /\ TurnInv'
  <1>1. SerialInv'
    BY SerialKept DEF ServedInv, SerialNext, HasTurn
  <1>2. /\ \A x \in Requests \ {r} : req'[x] = req[x]
        /\ req'[r].user = u
    BY DEF Arrivals, CreateStream, EndStream, LeaveStream, Arrive, ServedInv,
           SerialInv, LifeInv, TypeOK
  <1>3. \A x \in Requests \ {r} : Waiting(x) => http[x].token.user # u
    BY DEF HasTurn
  <1>4. TurnInv'
    BY <1>2, <1>3, TurnsKept DEF ServedInv, Turn
  <1>5. QED
    BY <1>1, <1>4

\* Nothing changes in the table or in the handlers.
LEMMA SerialStays ==
    ASSUME SerialInv, UNCHANGED vars
    PROVE  SerialInv'
  BY SerialKept

\* The guard's decision about a request whose user has no other.
LEMMA JudgeTurns ==
    ASSUME ServedInv, NEW r \in Requests, NEW k \in Routes,
           NEW tok, NEW st \in Streams, tok \in Token => HasTurn(r, tok.user),
           Judge(r, k, tok, st), mode' = mode
    PROVE  SerialInv' /\ TurnInv'
  <1>0. http \in [Requests -> HttpRequest]
    BY DEF ServedInv, HttpInv
  <1>1. CASE Refuse(r)
    <2>1. /\ \A x \in Requests \ {r} : http'[x] = http[x]
          /\ http'[r].stage = "done" /\ UNCHANGED vars
      BY <1>0, <1>1 DEF Refuse, NewHttp
    <2>2. Turn(r)'
      BY <2>1 DEF Turn, Waiting
    <2>3. QED
      BY <2>1, <2>2, OutsideTurns, SerialStays DEF ServedInv
  <1>2. CASE Admits(k, tok) /\ Admit(r, k, tok, st)
    <2> DEFINE u == HttpUser(mode, tok)
    <2>1. /\ \A x \in Requests \ {r} : http'[x] = http[x]
          /\ http'[r].stage = IF k = "create" THEN "body" ELSE "handler"
          /\ http'[r].token = IF k = "create" THEN tok ELSE None
      BY <1>0, <1>2 DEF Admit, NewHttp
    <2>2. k # "status" => /\ tok \in Token
                          /\ u = tok.user /\ u \in Users /\ u # None
      BY <1>2 DEF Admits, HttpUser, Token
    <2>3. CASE k \in {"create", "status"}
      <3>1. UNCHANGED vars
        BY <1>2, <2>3 DEF Admit
      <3>2. Turn(r)'
        <4>1. CASE k = "status"
          BY <2>1, <4>1 DEF Turn, Waiting
        <4>2. CASE k = "create"
          <5>1. HasTurn(r, u)'
            BY <2>1, <2>2, <3>1, <4>2 DEF HasTurn, Alone, Pending, Waiting, vars
          <5>2. Caller(r)' # None
            BY <2>1, <2>2, <4>2 DEF Caller
          <5>3. QED
            BY <2>1, <2>2, <4>2, <5>1, <5>2 DEF Turn
        <4>3. QED
          BY <2>3, <4>1, <4>2
      <3>3. QED
        BY <2>1, <3>1, <3>2, OutsideTurns, SerialStays DEF ServedInv
    <2>4. CASE k \in {"end", "leave"}
      <3>1. EndStream(r, u, st) \/ LeaveStream(r, u, st)
        BY <1>2, <2>4 DEF Admit
      <3>2. Arrivals(r, u) /\ HasTurn(r, u) /\ u \in Users
        BY <2>2, <2>4, <3>1 DEF Arrivals
      <3>3. ~Waiting(r)'
        BY <2>1, <2>4 DEF Waiting
      <3> HIDE DEF u
      <3>4. QED
        BY <2>1, <3>2, <3>3, ArrivalTurns
    <2>5. QED
      BY <2>3, <2>4 DEF Routes
  <1>3. QED
    BY <1>1, <1>2 DEF Judge

\* To wait is a restriction on the clients only.
LEMMA SerialIsHttp == [SerialHNext]_hvars => [HNext]_hvars
  BY DEF SerialHNext, HNext

\* Every step keeps the turns and the facts that go with them.
LEMMA NextServed ==
    ServedInv /\ [SerialHNext]_hvars => ServedInv'
  <1> SUFFICES ASSUME ServedInv, [SerialHNext]_hvars
               PROVE  SerialInv' /\ TurnInv'
    BY NextHttp, SerialIsHttp DEF ServedInv
  <1>0. http \in [Requests -> HttpRequest] /\ SerialInv /\ TurnInv
    BY DEF ServedInv, HttpInv
  <1>a. ASSUME NEW r \in Requests, NEW class, Send(r, class)
        PROVE  /\ \A x \in Requests \ {r} : http'[x] = http[x]
               /\ http'[r].stage = "done" /\ ~Waiting(r)' /\ Turn(r)'
    <2>1. /\ \A x \in Requests \ {r} : http'[x] = http[x]
          /\ http'[r].stage = "done"
      BY <1>0, <1>a DEF Send, HttpRequest
    <2>2. QED
      BY <2>1 DEF Waiting, Turn
  <1>b. ASSUME NEW r \in Requests, NEW class, Send(r, class),
               UNCHANGED <<vars, server>>
        PROVE  SerialInv' /\ TurnInv'
    BY <1>0, <1>a, <1>b, OutsideTurns, SerialStays DEF server
  <1>c. ASSUME NEW r \in Requests, Turn(r)
        PROVE  Waiting(r) => HasTurn(r, http[r].token.user)
    BY <1>c DEF Turn
  <1>1. ASSUME NEW r \in Requests, Preflight(r)
        PROVE  SerialInv' /\ TurnInv'
    BY <1>1, <1>b DEF Preflight
  <1>2. ASSUME NEW r \in Requests, NEW k \in Routes, NEW tok \in Offered,
               NEW st \in Streams, tok \in Token => Free(tok.user),
               Receive(r, k, tok, st)
        PROVE  SerialInv' /\ TurnInv'
    <2>1. mode' = mode
      BY <1>2 DEF Receive, server
    <2>2. ASSUME tok \in Token PROVE HasTurn(r, tok.user)
      <3>1. Free(tok.user)
        BY <1>2, <2>2
      <3>2. ASSUME NEW x \in Requests \ {r}, Waiting(x)
            PROVE  http[x].token.user # tok.user
        <4>1. http[x].token \in Token
          BY <1>0, <3>2 DEF TurnInv, Turn
        <4>2. QED
          BY <3>1, <3>2, <4>1 DEF Free, Waiting
      <3>3. QED
        BY <3>1, <3>2 DEF HasTurn, Free
    <2>3. CASE Judge(r, k, tok, st)
      BY <2>1, <2>2, <2>3, JudgeTurns
    <2>4. CASE /\ NeedsKey(k, tok)
               /\ http' = [http EXCEPT ![r] = [NewHttp EXCEPT !.route = k, !.token = tok,
                                                 !.stream = st, !.stage = "key"]]
               /\ UNCHANGED vars
      <3>1. /\ \A x \in Requests \ {r} : http'[x] = http[x]
            /\ http'[r].stage = "key" /\ http'[r].token = tok /\ http'[r].stream = st
        BY <1>0, <2>4 DEF NewHttp
      <3>2. tok \in Token
        BY <2>4 DEF NeedsKey
      <3>3. HasTurn(r, tok.user)'
        BY <2>2, <2>4, <3>1, <3>2 DEF HasTurn, Alone, Pending, Waiting, vars
      <3>4. Turn(r)'
        BY <3>1, <3>2, <3>3 DEF Turn
      <3>5. QED
        BY <1>0, <2>1, <2>4, <3>1, <3>4, OutsideTurns, SerialStays
    <2>5. QED
      BY <1>2, <2>3, <2>4 DEF Receive
  <1>3. ASSUME NEW r \in Requests, KeyArrives(r)
        PROVE  SerialInv' /\ TurnInv'
    <2>1. /\ http[r].stage = "key" /\ mode' = mode
          /\ Judge(r, http[r].route, http[r].token, http[r].stream)
      BY <1>3 DEF KeyArrives
    <2>2. /\ http[r].route \in Routes /\ http[r].token \in Token
          /\ http[r].stream \in Streams /\ HasTurn(r, http[r].token.user)
      BY <1>0, <2>1 DEF ServedInv, HttpInv, Fits, TurnInv, Turn, Waiting
    <2>3. QED
      BY <2>1, <2>2, JudgeTurns
  <1>4. ASSUME NEW r \in Requests, NEW tg \in BOOLEAN, BodyAccepted(r, tg)
        PROVE  SerialInv' /\ TurnInv'
    <2>1. /\ http[r].stage = "body" /\ mode' = mode
          /\ CreateStream(r, Caller(r), tg)
          /\ \A x \in Requests \ {r} : http'[x] = http[x]
          /\ http'[r].stage = "handler"
      BY <1>0, <1>4 DEF BodyAccepted, server, HttpRequest
    <2>2. /\ http[r].token \in Token /\ Caller(r) # None
          /\ HasTurn(r, http[r].token.user)
      BY <1>0, <2>1 DEF TurnInv, Turn, Waiting
    <2>3. PICK u \in Users : u = Caller(r) /\ u = http[r].token.user
      BY <2>2 DEF Caller, HttpUser, Token
    <2>4. Arrivals(r, u) /\ HasTurn(r, u) /\ ~Waiting(r)'
      BY <2>1, <2>2, <2>3 DEF Arrivals, Waiting
    <2>5. QED
      BY <2>1, <2>4, ArrivalTurns
  <1>5. ASSUME NEW r \in Requests, BodyAbandoned(r)
        PROVE  SerialInv' /\ TurnInv'
    <2>1. /\ \A x \in Requests \ {r} : http'[x] = http[x]
          /\ http'[r].stage = "abandoned" /\ UNCHANGED vars /\ mode' = mode
      BY <1>0, <1>5 DEF BodyAbandoned, server, HttpRequest
    <2>2. Turn(r)'
      BY <2>1 DEF Turn, Waiting
    <2>3. QED
      BY <1>0, <2>1, <2>2, OutsideTurns, SerialStays
  <1>6. ASSUME NEW r \in Requests, BodyRejected(r) \/ GetStreamStatus(r)
        PROVE  SerialInv' /\ TurnInv'
    <2>1. UNCHANGED <<vars, server>> /\ \E class : Send(r, class)
      BY <1>6 DEF BodyRejected, GetStreamStatus, Outcome
    <2>2. QED
      BY <1>b, <2>1
  <1>7. ASSUME NEW r \in Requests, Handle(r)
        PROVE  SerialInv' /\ TurnInv'
    <2>1. Step(r) \/ CutOff(r)
      BY <1>7, DatabaseCutsOff DEF Handle
    <2>2. /\ mode' = mode
          /\ http' = http \/ \E class : Send(r, class)
      BY <1>7 DEF Handle, server, Outcome
    <2>3. /\ \A x \in Requests \ {r} : http'[x] = http[x]
          /\ http'[r] = http[r] \/ ~Waiting(r)'
      BY <1>a, <2>2
    <2>4. QED
      BY <2>1, <2>2, <2>3, HandlerTurns
  <1>8. ASSUME NEW r \in Requests, Orphaned(r)
        PROVE  SerialInv' /\ TurnInv'
    <2>1. CutOff(r) /\ mode' = mode /\ http' = http
      BY <1>8 DEF Orphaned, CutOff, server
    <2>2. QED
      BY <2>1, HandlerTurns
  <1>9. CASE \/ \E r \in Requests :
                   \/ KeyLost(r)
                   \/ \E k \in Routes, tok \in Brought : HeaderUnreadable(r, k, tok)
             \/ KeyExpires \/ UNCHANGED hvars
    <2>1. UNCHANGED <<vars, http, mode>>
      BY <1>9 DEF KeyLost, HeaderUnreadable, ProcessEnds, KeyExpires, hvars, server
    <2>2. TurnInv'
      BY <1>0, <2>1
         DEF TurnInv, Turn, HasTurn, Alone, Pending, Waiting, Caller, vars
    <2>3. QED
      BY <1>0, <2>1, <2>2, SerialStays
  <1>10. QED
    BY <1>1, <1>2, <1>3, <1>4, <1>5, <1>6, <1>7, <1>8, <1>9
       DEF SerialHNext, Onward, Handled

\* Behind the guard too, a waiting user's check and what he acts on agree, and a
\* request that waits for its key or its body keeps its user's turn
\* (jwt.strategy.ts:24-40, stream.service.ts:49-62, 343-362).
THEOREM ServedCorrect == SerialHSpec => []ServedInv
  BY InitServed, NextServed, PTL DEF SerialHSpec

\* A user whose client waits for each answer has at most one LIVE stream, the
\* ones of an earlier process included, whether requests wait for keys or bodies,
\* fail, or are cut off by the end of the process (stream.service.ts:49-51).
THEOREM HttpOneLive == SerialHSpec => []OneLivePerUser
  <1>1. ServedInv => OneLivePerUser
    BY DEF ServedInv, SerialInv
  <1>2. QED
    BY <1>1, ServedCorrect, PTL
=============================================================================
