------------------------ MODULE StreamLifecycleProofs ------------------------
(***************************************************************************)
(* Proofs about StreamLifecycle, for any number of users, rows and         *)
(* requests, and with database calls that fail at any point.               *)
(***************************************************************************)
EXTENDS StreamLifecycle, TLAPS

USE NoneIsNobody

ReqType ==
    [kind : Kinds, user : Users, stream : Streams \cup {None},
     tags : BOOLEAN, pc : Waits \cup {"done"}, reply : Replies \cup {"none"}]

(***************************************************************************)
(* What a request at a given await is about.  A leave that goes on to its  *)
(* UPDATE has read that the row is its user's; a create that goes on to    *)
(* the tags has inserted the row.                                          *)
(***************************************************************************)
ReqPlaced(r) ==
    LET st == req[r].stream IN
    /\ req[r].pc \in {"check", "insert"} => req[r].kind = "create"
    /\ req[r].pc = "auth" => \/ req[r].kind = "create"
                             \/ req[r].kind = "end" /\ st \in Streams
    /\ req[r].pc = "update" => req[r].kind = "end" /\ st \in Streams
    /\ req[r].pc = "tags" => /\ req[r].kind = "create" /\ st \in Streams
                             /\ owner[st] = req[r].user
    /\ req[r].pc = "find" => req[r].kind = "leave" /\ st \in Streams
    /\ req[r].pc = "finish" => /\ req[r].kind = "leave" /\ st \in Streams
                               /\ owner[st] = req[r].user

\* What an acknowledgement says, with the facts that make it stay true.
AckHolds(r) ==
    LET st == req[r].stream IN
    /\ Answered(r, "create", "ok") =>
          /\ st \in Streams /\ owner[st] = req[r].user
          /\ req[r].tags => tagged[st]
    /\ Answered(r, "end", "ok") =>
          /\ st \in Streams /\ owner[st] = req[r].user
          /\ status[st] = "FINISHED"
    /\ Answered(r, "leave", "ok") =>
          /\ st \in Streams /\ owner[st] # None
          /\ owner[st] = req[r].user => status[st] = "FINISHED"

RowsInv ==
    \A st \in Streams : /\ owner[st] = None <=> status[st] = "none"
                        /\ endedAt[st] # None => status[st] = "FINISHED"

LifeInv ==
    /\ TypeOK /\ RowsInv
    /\ \A r \in Requests : ReqPlaced(r) /\ AckHolds(r)
    /\ EndAckedOnce

\* Nothing is asked and no row exists at first.
LEMMA InitLife == Init => LifeInv
  BY DEF Init, LifeInv, TypeOK, RowsInv, ReqPlaced, AckHolds, EndAckedOnce,
         Answered, NewReq

(***************************************************************************)
(* A command that is executed or not, and a request that is answered with  *)
(* an error or, if the process died meanwhile, not at all.                 *)
(***************************************************************************)
CutOff(r) ==
    /\ Pending(r)
    /\ LostReply(r) \/ UNCHANGED rows
    /\ \E a \in {"500", "none"} : Answer(r, a)

\* So end the database calls that fail.
LEMMA DatabaseCutsOff ==
    ASSUME NEW r \in Requests, DatabaseFails(r)
    PROVE  CutOff(r)
  BY DEF DatabaseFails, CutOff

(***************************************************************************)
(* What a step may do to the rows: insert a LIVE one, finish one of the    *)
(* requester, insert tags.                                                 *)
(***************************************************************************)
RowEffect(r) ==
    \/ UNCHANGED rows
    \/ /\ req[r].pc = "insert"
       /\ \E st \in Streams : status[st] = "none" /\ InsertRow(st, req[r].user)
    \/ /\ req[r].pc = "tags"
       /\ InsertTags(req[r].stream) /\ UNCHANGED <<owner, status, endedAt>>
    \/ /\ req[r].pc = "finish" \/ (req[r].pc = "update" /\ Endable(r))
       /\ Finish(req[r].stream, r) /\ UNCHANGED <<owner, tagged>>

\* Every step of a request has one of these effects on the rows.
LEMMA HandlingEffect ==
    ASSUME NEW r \in Requests, Step(r) \/ CutOff(r)
    PROVE  RowEffect(r) /\ Pending(r)
  <1>1. CASE CutOff(r)
    BY <1>1 DEF CutOff, LostReply, RowEffect
  <1>2. CASE EndUpdate(r)
    <2>1. CASE Endable(r)
      BY <1>2, <2>1 DEF EndUpdate, RowEffect, Pending, Waits
    <2>2. CASE ~Endable(r)
      BY <1>2, <2>2 DEF EndUpdate, RowEffect, rows, Pending, Waits
    <2>3. QED
      BY <2>1, <2>2
  <1>3. CASE Tag(r) \/ LeaveFinish(r) \/ \E st \in Streams : Insert(r, st)
    BY <1>3 DEF Tag, LeaveFinish, Insert, RowEffect, Pending, Waits
  <1>4. CASE \/ AuthConfirms(r) \/ CheckLive(r) \/ LeaveFind(r)
             \/ \E a \in AuthRefusals : AuthRefuses(r, a)
    BY <1>4 DEF AuthConfirms, CheckLive, LeaveFind, AuthRefuses, RowEffect,
                Pending, Waits
  <1>5. QED
    BY <1>1, <1>2, <1>3, <1>4 DEF Step

\* Rows are never lost, reopened or handed over, and tags stay.
LEMMA RowsAfter ==
    ASSUME LifeInv, NEW r \in Requests, RowEffect(r)
    PROVE  /\ owner' \in [Streams -> Users \cup {None}]
           /\ status' \in [Streams -> {"LIVE", "FINISHED", "none"}]
           /\ endedAt' \in [Streams -> Requests \cup {None}]
           /\ tagged' \in [Streams -> BOOLEAN]
           /\ RowsInv'
           /\ \A st \in Streams :
                 /\ owner[st] # None => owner'[st] = owner[st]
                 /\ status[st] = "FINISHED" => status'[st] = "FINISHED"
                 /\ tagged[st] => tagged'[st]
  <1>0. /\ TypeOK /\ RowsInv /\ ReqPlaced(r)
    BY DEF LifeInv
  <1>1. CASE UNCHANGED rows
    BY <1>0, <1>1 DEF rows, TypeOK, RowsInv
  <1>2. CASE /\ req[r].pc = "insert"
             /\ \E st \in Streams : status[st] = "none" /\ InsertRow(st, req[r].user)
    <2>1. req[r].user \in Users
      BY <1>0, <1>2 DEF TypeOK, NewReq
    <2>2. QED
      BY <1>0, <1>2, <2>1 DEF InsertRow, TypeOK, RowsInv
  <1>3. CASE /\ req[r].pc = "tags"
             /\ InsertTags(req[r].stream) /\ UNCHANGED <<owner, status, endedAt>>
    <2>1. /\ owner' = owner /\ status' = status /\ endedAt' = endedAt
          /\ tagged' = [tagged EXCEPT ![req[r].stream] = TRUE]
      BY <1>3 DEF InsertTags
    <2>2. tagged' \in [Streams -> BOOLEAN] /\ \A st \in Streams : tagged[st] => tagged'[st]
      BY <1>0, <2>1 DEF TypeOK
    <2>3. QED
      BY <1>0, <2>1, <2>2 DEF TypeOK, RowsInv
  <1>4. CASE /\ req[r].pc = "finish" \/ (req[r].pc = "update" /\ Endable(r))
             /\ Finish(req[r].stream, r) /\ UNCHANGED <<owner, tagged>>
    <2>1. /\ req[r].stream \in Streams /\ owner[req[r].stream] = req[r].user
          /\ req[r].user \in Users
      BY <1>0, <1>4 DEF ReqPlaced, Endable, TypeOK, NewReq
    <2>2. QED
      BY <1>0, <1>4, <2>1 DEF Finish, TypeOK, RowsInv
  <1>5. QED
    BY <1>1, <1>2, <1>3, <1>4 DEF RowEffect

\* A request keeps its question; a create learns its id.
LEMMA ReqAfter ==
    ASSUME LifeInv, NEW r \in Requests, Step(r) \/ CutOff(r)
    PROVE  /\ \A x \in Requests \ {r} : req'[x] = req[x]
           /\ req'[r] \in ReqType
           /\ req'[r].kind = req[r].kind /\ req'[r].user = req[r].user
           /\ req'[r].tags = req[r].tags
           /\ req'[r].stream = req[r].stream \/ req[r].pc = "insert"
  <1>0. /\ req \in [Requests -> ReqType \cup {NewReq}]
        /\ Pending(r) /\ ReqPlaced(r)
    BY HandlingEffect DEF LifeInv, TypeOK, ReqType
  <1>1. req[r] \in ReqType
    BY <1>0 DEF Pending, Waits, NewReq
  <1>2. ASSUME NEW p \in Waits, Goto(r, p)
        PROVE  /\ \A x \in Requests \ {r} : req'[x] = req[x]
               /\ req'[r] = [req[r] EXCEPT !.pc = p]
               /\ req'[r] \in ReqType
    BY <1>0, <1>1, <1>2 DEF Goto, ReqType
  <1>3. ASSUME NEW a \in Replies \cup {"none"}, Answer(r, a)
        PROVE  /\ \A x \in Requests \ {r} : req'[x] = req[x]
               /\ req'[r] = [req[r] EXCEPT !.pc = "done", !.reply = a]
               /\ req'[r] \in ReqType
    <2>1. req' = [req EXCEPT ![r] = [req[r] EXCEPT !.pc = "done", !.reply = a]]
      BY <1>0, <1>3 DEF Answer
    <2>2. QED
      BY <1>0, <1>1, <2>1 DEF ReqType
  <1>4. CASE \E st \in Streams : Insert(r, st)
    <2>1. PICK st \in Streams : Insert(r, st)
      BY <1>4
    <2>2. PICK p \in Waits \cup {"done"}, a \in Replies \cup {"none"} :
            req' = [req EXCEPT ![r] = [req[r] EXCEPT !.stream = st, !.pc = p, !.reply = a]]
      <3>1. CASE req[r].tags
        <4>1. req' = [req EXCEPT ![r] =
                        [req[r] EXCEPT !.stream = st, !.pc = "tags", !.reply = "none"]]
          BY <1>0, <2>1, <3>1 DEF Insert
        <4>2. QED
          BY <4>1 DEF Waits
      <3>2. CASE ~req[r].tags
        <4>1. req' = [req EXCEPT ![r] =
                        [req[r] EXCEPT !.stream = st, !.pc = "done", !.reply = "ok"]]
          BY <1>0, <2>1, <3>2 DEF Insert
        <4>2. QED
          BY <4>1 DEF Replies
      <3>3. QED
        BY <3>1, <3>2
    <2>3. QED
      BY <1>0, <1>1, <2>1, <2>2 DEF ReqType, Insert
  <1>5. CASE ~\E st \in Streams : Insert(r, st)
    <2>1. (\E p \in Waits : Goto(r, p)) \/ (\E a \in Replies \cup {"none"} : Answer(r, a))
      <3>1. CASE \E a \in AuthRefusals : AuthRefuses(r, a)
        BY <3>1 DEF AuthRefuses, AuthRefusals, Replies
      <3>2. CASE AuthConfirms(r) \/ CheckLive(r) \/ LeaveFind(r)
        BY <3>2 DEF AuthConfirms, CheckLive, LeaveFind, Waits, Replies
      <3>3. CASE CutOff(r) \/ Tag(r) \/ EndUpdate(r) \/ LeaveFinish(r)
        BY <3>3 DEF CutOff, Tag, EndUpdate, LeaveFinish, Replies
      <3>4. QED
        BY <1>5, <3>1, <3>2, <3>3 DEF Step
    <2>2. CASE \E p \in Waits : Goto(r, p)
      <3>1. PICK p \in Waits : Goto(r, p)
        BY <2>2
      <3>2. /\ \A x \in Requests \ {r} : req'[x] = req[x]
            /\ req'[r] = [req[r] EXCEPT !.pc = p]
            /\ req'[r] \in ReqType
        BY <1>2, <3>1
      <3>3. QED
        BY <1>1, <3>2 DEF ReqType
    <2>3. CASE \E a \in Replies \cup {"none"} : Answer(r, a)
      <3>1. PICK a \in Replies \cup {"none"} : Answer(r, a)
        BY <2>3
      <3>2. /\ \A x \in Requests \ {r} : req'[x] = req[x]
            /\ req'[r] = [req[r] EXCEPT !.pc = "done", !.reply = a]
            /\ req'[r] \in ReqType
        BY <1>3, <3>1
      <3>3. QED
        BY <1>1, <3>2 DEF ReqType
    <2>4. QED
      BY <2>1, <2>2, <2>3
  <1>6. QED
    BY <1>4, <1>5

\* The request that the step handles goes on as ReqPlaced and AckHolds say.
LEMMA OwnRequest ==
    ASSUME LifeInv, NEW r \in Requests, Step(r) \/ CutOff(r)
    PROVE  ReqPlaced(r)' /\ AckHolds(r)'
  <1>0. /\ req \in [Requests -> ReqType \cup {NewReq}]
        /\ TypeOK /\ RowsInv /\ ReqPlaced(r) /\ Pending(r)
    BY HandlingEffect DEF LifeInv, TypeOK, ReqType
  <1>1. req[r] \in ReqType
    BY <1>0 DEF Pending, Waits, NewReq
  <1>2. ASSUME NEW p \in Waits, Goto(r, p)
        PROVE  req'[r] = [req[r] EXCEPT !.pc = p]
    BY <1>0, <1>1, <1>2 DEF Goto
  <1>3. ASSUME NEW a \in Replies \cup {"none"}, Answer(r, a)
        PROVE  /\ req'[r].pc = "done" /\ req'[r].reply = a
               /\ req'[r].kind = req[r].kind /\ req'[r].user = req[r].user
               /\ req'[r].stream = req[r].stream /\ req'[r].tags = req[r].tags
    BY <1>0, <1>1, <1>3 DEF Answer, ReqType
  \* An answer other than "ok" promises nothing.
  <1>4. ASSUME NEW a \in (Replies \cup {"none"}) \ {"ok"}, Answer(r, a)
        PROVE  ReqPlaced(r)' /\ AckHolds(r)'
    BY <1>3, <1>4 DEF ReqPlaced, AckHolds, Answered
  <1>5. CASE CutOff(r) \/ \E a \in AuthRefusals : AuthRefuses(r, a)
    BY <1>4, <1>5 DEF CutOff, AuthRefuses, AuthRefusals, Replies
  <1>6. CASE AuthConfirms(r)
    BY <1>0, <1>1, <1>2, <1>6
       DEF AuthConfirms, rows, ReqPlaced, AckHolds, Answered, Waits, ReqType
  <1>7. CASE CheckLive(r)
    <2>1. CASE Answer(r, "400")
      BY <1>4, <2>1 DEF Replies
    <2>2. CASE Goto(r, "insert")
      BY <1>0, <1>1, <1>2, <1>7, <2>2
         DEF CheckLive, ReqPlaced, AckHolds, Answered, Waits, ReqType
    <2>3. QED
      BY <1>7, <2>1, <2>2 DEF CheckLive
  <1>8. CASE \E st \in Streams : Insert(r, st)
    <2>1. PICK st \in Streams : Insert(r, st)
      BY <1>8
    <2>2. /\ owner'[st] = req[r].user
          /\ req'[r].stream = st
          /\ req'[r].kind = "create" /\ req'[r].user = req[r].user
          /\ req'[r].tags = req[r].tags
          /\ req'[r].pc = IF req[r].tags THEN "tags" ELSE "done"
      BY <1>0, <1>1, <2>1 DEF Insert, InsertRow, TypeOK, ReqPlaced, ReqType
    <2>3. QED
      BY <2>2 DEF ReqPlaced, AckHolds, Answered
  <1>9. CASE Tag(r)
    <2>1. Answer(r, "ok") /\ "ok" \in Replies
      BY <1>9 DEF Tag, Replies
    <2>2. /\ req[r].kind = "create" /\ req[r].stream \in Streams
          /\ owner'[req[r].stream] = req[r].user
          /\ tagged'[req[r].stream]
      BY <1>0, <1>9 DEF Tag, InsertTags, ReqPlaced, TypeOK
    <2>3. QED
      BY <1>3, <2>1, <2>2 DEF ReqPlaced, AckHolds, Answered
  <1>10. CASE EndUpdate(r)
    <2>1. CASE Answer(r, "404")
      BY <1>4, <2>1 DEF Replies
    <2>2. CASE Endable(r) /\ Finish(req[r].stream, r) /\ Answer(r, "ok")
      <3>1. /\ req[r].kind = "end" /\ req[r].stream \in Streams
            /\ owner'[req[r].stream] = req[r].user
            /\ status'[req[r].stream] = "FINISHED"
        BY <1>0, <1>10, <2>2 DEF EndUpdate, Endable, Finish, ReqPlaced, TypeOK
      <3>2. "ok" \in Replies
        BY DEF Replies
      <3>3. QED
        BY <1>3, <2>2, <3>1, <3>2 DEF ReqPlaced, AckHolds, Answered
    <2>3. QED
      BY <1>10, <2>1, <2>2 DEF EndUpdate
  <1>11. CASE LeaveFind(r)
    <2>1. CASE Answer(r, "404")
      BY <1>4, <2>1 DEF Replies
    <2>2. CASE LeavingEnds(r) /\ Goto(r, "finish")
      BY <1>0, <1>1, <1>2, <1>11, <2>2
         DEF LeaveFind, rows, LeavingEnds, ReqPlaced, AckHolds, Answered, Waits, ReqType
    <2>3. CASE ~LeavingEnds(r) /\ status[req[r].stream] # "none" /\ Answer(r, "ok")
      <3>1. /\ req[r].kind = "leave" /\ req[r].stream \in Streams
            /\ owner'[req[r].stream] # None
            /\ owner'[req[r].stream] = req[r].user
                  => status'[req[r].stream] = "FINISHED"
        BY <1>0, <1>11, <2>3 DEF LeaveFind, rows, LeavingEnds, ReqPlaced, RowsInv
      <3>2. "ok" \in Replies
        BY DEF Replies
      <3>3. QED
        BY <1>3, <2>3, <3>1, <3>2 DEF ReqPlaced, AckHolds, Answered
    <2>4. QED
      BY <1>11, <2>1, <2>2, <2>3 DEF LeaveFind
  <1>12. CASE LeaveFinish(r)
    <2>1. /\ req[r].kind = "leave" /\ req[r].stream \in Streams
          /\ owner'[req[r].stream] = req[r].user /\ req[r].user # None
          /\ status'[req[r].stream] = "FINISHED"
      BY <1>0, <1>1, <1>12 DEF LeaveFinish, Finish, ReqPlaced, TypeOK, ReqType
    <2>2. Answer(r, "ok") /\ "ok" \in Replies
      BY <1>12 DEF LeaveFinish, Replies
    <2>3. QED
      BY <1>3, <2>1, <2>2 DEF ReqPlaced, AckHolds, Answered
  <1>13. QED
    BY <1>5, <1>6, <1>7, <1>8, <1>9, <1>10, <1>11, <1>12 DEF Step

\* Only an UPDATE that found the row LIVE acknowledges an 'end'.
LEMMA EndAck ==
    ASSUME LifeInv, NEW r \in Requests, Step(r) \/ CutOff(r),
           Answered(r, "end", "ok")'
    PROVE  Endable(r) /\ req[r].pc = "update"
  <1>0. /\ req \in [Requests -> ReqType \cup {NewReq}]
        /\ ReqPlaced(r) /\ Pending(r)
    BY HandlingEffect DEF LifeInv, TypeOK, ReqType
  <1>1. req[r] \in ReqType
    BY <1>0 DEF Pending, Waits, NewReq
  <1>2. req[r].kind = "end"
    BY ReqAfter DEF Answered
  <1>3. /\ \A a : Answer(r, a) => req'[r].reply = a
        /\ \A p : Goto(r, p) => req'[r].pc = p
    BY <1>0, <1>1 DEF Answer, Goto, ReqType
  <1>4. ~Answer(r, "404") /\ ~Answer(r, "500") /\ ~Answer(r, "none")
    BY <1>3 DEF Answered
  <1>5. CASE EndUpdate(r)
    BY <1>4, <1>5 DEF EndUpdate
  <1>6. CASE ~EndUpdate(r)
    <2>1. CASE AuthConfirms(r) \/ \E a \in AuthRefusals : AuthRefuses(r, a)
      BY <1>3, <2>1 DEF AuthConfirms, AuthRefuses, AuthRefusals, Answered
    <2>2. QED
      BY <1>0, <1>2, <1>4, <1>6, <2>1
         DEF Step, CutOff, CheckLive, Insert, Tag, LeaveFind, LeaveFinish,
             ReqPlaced
  <1>7. QED
    BY <1>5, <1>6

\* A step of a request, failing or not, keeps LifeInv.
LEMMA HandlingLife ==
    ASSUME LifeInv, NEW r \in Requests, Step(r) \/ CutOff(r)
    PROVE  LifeInv'
  <1>0. /\ RowEffect(r) /\ TypeOK
        /\ \A x \in Requests \ {r} : req'[x] = req[x]
        /\ req'[r] \in ReqType
        /\ req \in [Requests -> ReqType \cup {NewReq}]
    BY HandlingEffect, ReqAfter DEF LifeInv, TypeOK, ReqType
  <1>1. /\ RowsInv'
        /\ \A st \in Streams :
              /\ owner[st] # None => owner'[st] = owner[st]
              /\ status[st] = "FINISHED" => status'[st] = "FINISHED"
              /\ tagged[st] => tagged'[st]
    BY <1>0, RowsAfter
  <1>2. TypeOK'
    <2>1. DOMAIN req' = Requests /\ req' = [x \in Requests |-> req'[x]]
      BY <1>0 DEF Step, CutOff, AuthConfirms, AuthRefuses, CheckLive, Insert,
                  Tag, EndUpdate, LeaveFind, LeaveFinish, Goto, Answer
    <2>2. req' \in [Requests -> ReqType \cup {NewReq}]
      BY <1>0, <2>1
    <2>3. QED
      BY <1>0, <2>2, RowsAfter DEF TypeOK, ReqType
  <1>3. ASSUME NEW x \in Requests
        PROVE  ReqPlaced(x)' /\ AckHolds(x)'
    <2>1. CASE x = r
      BY <2>1, OwnRequest
    <2>2. CASE x # r
      <3>1. /\ req'[x] = req[x] /\ ReqPlaced(x) /\ AckHolds(x)
            /\ req[x] \in ReqType \cup {NewReq}
        BY <1>0, <2>2 DEF LifeInv
      <3>2. req[x].pc # "new" => req[x].user # None
        BY <3>1 DEF ReqType, NewReq
      <3>3. ReqPlaced(x)'
        BY <1>1, <3>1, <3>2 DEF ReqPlaced
      <3>4. AckHolds(x)'
        BY <1>1, <3>1, <3>2 DEF AckHolds, Answered
      <3>5. QED
        BY <3>3, <3>4
    <2>3. QED
      BY <2>1, <2>2
  <1>4. EndAckedOnce'
    <2> SUFFICES ASSUME NEW r1 \in Requests, NEW r2 \in Requests,
                        Answered(r1, "end", "ok")', Answered(r2, "end", "ok")',
                        req'[r1].stream = req'[r2].stream
                 PROVE  r1 = r2 /\ req'[r1].user = owner'[req'[r1].stream]
      BY DEF EndAckedOnce
    <2>1. req'[r1].user = owner'[req'[r1].stream]
      BY <1>3 DEF AckHolds
    \* An 'end' acknowledged before found the row FINISHED and keeps it so.
    <2>2. ASSUME NEW x \in Requests \ {r}, Answered(x, "end", "ok")',
                 Answered(r, "end", "ok")', req'[x].stream = req'[r].stream
          PROVE  FALSE
      <3>1. status[req[x].stream] = "FINISHED"
        BY <1>0, <2>2 DEF LifeInv, AckHolds, Answered
      <3>2. Endable(r) /\ req[r].pc = "update" /\ req'[r].stream = req[r].stream
        BY <2>2, EndAck, ReqAfter
      <3>3. QED
        BY <1>0, <2>2, <3>1, <3>2 DEF Endable
    <2>3. CASE r1 # r /\ r2 # r
      BY <1>0, <2>1, <2>3 DEF LifeInv, EndAckedOnce, Answered
    <2>4. QED
      BY <2>1, <2>2, <2>3
  <1>5. QED
    BY <1>1, <1>2, <1>3, <1>4 DEF LifeInv

\* So does a request that arrives: LifeInv is inductive.
LEMMA NextLife == LifeInv /\ [Next]_vars => LifeInv'
  <1> SUFFICES ASSUME LifeInv, [Next]_vars PROVE LifeInv'
    OBVIOUS
  <1>1. ASSUME NEW r \in Requests, NEW u \in Users, Arrivals(r, u) PROVE LifeInv'
    <2>0. PICK k \in Kinds, st \in Streams \cup {None}, tg \in BOOLEAN, p \in Waits :
             /\ Arrive(r, k, u, st, tg, p)
             /\ \/ k = "create" /\ p = "auth"
                \/ st \in Streams /\ k = "end" /\ p = "auth"
                \/ st \in Streams /\ k = "leave" /\ p = "find"
      <3>1. {"create", "end", "leave"} \subseteq Kinds /\ {"auth", "find"} \subseteq Waits
        BY DEF Kinds, Waits
      <3>2. CASE \E tg \in BOOLEAN : CreateStream(r, u, tg)
        BY <3>1, <3>2 DEF CreateStream
      <3>3. CASE \E st \in Streams : EndStream(r, u, st)
        BY <3>1, <3>3 DEF EndStream
      <3>4. CASE \E st \in Streams : LeaveStream(r, u, st)
        BY <3>1, <3>4 DEF LeaveStream
      <3>5. QED
        BY <1>1, <3>2, <3>3, <3>4 DEF Arrivals
    <2>1. /\ owner' = owner /\ status' = status /\ endedAt' = endedAt /\ tagged' = tagged
          /\ \A x \in Requests \ {r} : req'[x] = req[x]
          /\ req'[r] = [kind |-> k, user |-> u, stream |-> st, tags |-> tg,
                        pc |-> p, reply |-> "none"]
      BY <2>0 DEF Arrive, rows, LifeInv, TypeOK
    <2>2. TypeOK'
      <3>1. req'[r] \in ReqType
        BY <2>1 DEF ReqType
      <3>2. req' \in [Requests -> ReqType \cup {NewReq}]
        BY <2>0, <3>1 DEF Arrive, LifeInv, TypeOK, ReqType
      <3>3. QED
        BY <2>1, <3>2 DEF LifeInv, TypeOK, ReqType
    <2>3. ReqPlaced(r)' /\ AckHolds(r)' /\ \A k1, a1 : ~Answered(r, k1, a1)'
      BY <2>0, <2>1 DEF ReqPlaced, AckHolds, Answered, Waits
    <2>4. \A x \in Requests \ {r} : ReqPlaced(x)' /\ AckHolds(x)'
      BY <2>1 DEF LifeInv, ReqPlaced, AckHolds, Answered
    <2>5. EndAckedOnce'
      BY <2>1, <2>3 DEF LifeInv, EndAckedOnce, Answered
    <2>6. RowsInv'
      BY <2>1 DEF LifeInv, RowsInv
    <2>7. QED
      BY <2>2, <2>3, <2>4, <2>5, <2>6 DEF LifeInv
  <1>2. ASSUME NEW r \in Requests, Step(r) \/ DatabaseFails(r) PROVE LifeInv'
    BY <1>2, HandlingLife, DatabaseCutsOff
  <1>3. CASE UNCHANGED vars
    BY <1>3 DEF vars, LifeInv, TypeOK, RowsInv, ReqPlaced, AckHolds, EndAckedOnce,
                Answered
  <1>4. QED
    BY <1>1, <1>2, <1>3 DEF Next, Handling

\* Whatever requests race and whatever database calls fail, each request is
\* where its rows say, and what was acknowledged holds
\* (stream.service.ts:40-126, 341-371).
THEOREM LifeCorrect == Spec => []LifeInv
  BY InitLife, NextLife, PTL DEF Spec

\* The columns and requests keep their types, whatever races or fails
\* (schema.prisma:34-51).
THEOREM LifeTypes == Spec => []TypeOK
  <1>1. LifeInv => TypeOK
    BY DEF LifeInv
  <1>2. QED
    BY <1>1, LifeCorrect, PTL

\* However many 'end' requests race, at most one per stream is acknowledged,
\* and to the stream's owner (stream.service.ts:111-121).
THEOREM OneAcknowledgedEnd == Spec => []EndAckedOnce
  <1>1. LifeInv => EndAckedOnce
    BY DEF LifeInv
  <1>2. QED
    BY <1>1, LifeCorrect, PTL

\* The invariant says that acknowledgements hold.
LEMMA LifeInvAcks == LifeInv => AckTruthful
  <1> SUFFICES ASSUME LifeInv, NEW r \in Requests
               PROVE  LET st == req[r].stream IN
                      /\ Answered(r, "create", "ok") =>
                            /\ owner[st] = req[r].user /\ status[st] # "none"
                            /\ req[r].tags => tagged[st]
                      /\ Answered(r, "end", "ok") => status[st] = "FINISHED"
                      /\ Answered(r, "leave", "ok") /\ owner[st] = req[r].user
                            => status[st] = "FINISHED"
    BY DEF AckTruthful
  <1>1. AckHolds(r) /\ RowsInv
    BY DEF LifeInv
  <1>2. req[r].pc = "done" => req[r].user # None
    BY DEF LifeInv, TypeOK, NewReq
  <1>3. QED
    BY <1>1, <1>2 DEF AckHolds, RowsInv, Answered

\* What the three endpoints acknowledge stays true for ever
\* (stream.service.ts:54-91, 111-126, 354-371).
THEOREM AcknowledgementsHold == Spec => []AckTruthful
  BY LifeInvAcks, LifeCorrect, PTL

\* What a step may do to a stream that has an owner.
EndsByOwner ==
    \A st \in Streams :
        /\ owner[st] # None => owner'[st] = owner[st]
        /\ status[st] = "FINISHED" => status'[st] = "FINISHED"
        /\ status[st] = "LIVE" /\ status'[st] # "LIVE" =>
              \E r \in Requests : /\ Pending(r) /\ ~Pending(r)'
                                  /\ req[r].kind \in {"end", "leave"}
                                  /\ req[r].stream = st
                                  /\ req[r].user = owner[st]

\* A request's own steps end no stream but its user's, and then it is over.
LEMMA HandlingEnds ==
    ASSUME LifeInv, NEW r \in Requests, Step(r) \/ CutOff(r)
    PROVE  EndsByOwner
  <1>1. RowEffect(r) /\ Pending(r) /\ ReqPlaced(r) /\ TypeOK
    BY HandlingEffect DEF LifeInv
  <1>2. \A st \in Streams : /\ owner[st] # None => owner'[st] = owner[st]
                            /\ status[st] = "FINISHED" => status'[st] = "FINISHED"
    BY <1>1, RowsAfter
  <1>3. ASSUME NEW st \in Streams, status[st] = "LIVE", status'[st] # "LIVE"
        PROVE  /\ req[r].pc \in {"update", "finish"} /\ req[r].stream = st
               /\ req[r].pc = "update" => Endable(r)
    BY <1>1, <1>3 DEF RowEffect, rows, InsertRow, Finish, TypeOK
  <1>4. ASSUME NEW st \in Streams, status[st] = "LIVE", status'[st] # "LIVE"
        PROVE  /\ req[r].kind \in {"end", "leave"}
               /\ req[r].stream = st /\ req[r].user = owner[st]
    BY <1>1, <1>3, <1>4 DEF ReqPlaced, Endable
  <1>5. req[r].pc \in {"update", "finish"} => ~Pending(r)'
    <2>1. ASSUME req[r].pc \in {"update", "finish"}
          PROVE  \E a : Answer(r, a)
      BY <2>1 DEF Step, CutOff, AuthConfirms, AuthRefuses, CheckLive, Insert, Tag,
                  EndUpdate, LeaveFind, LeaveFinish
    <2>2. \A a : Answer(r, a) => req'[r].pc = "done"
      BY <1>1 DEF Answer, TypeOK, Pending, Waits, NewReq
    <2>3. QED
      BY <2>1, <2>2 DEF Pending, Waits
  <1>6. QED
    BY <1>1, <1>2, <1>3, <1>4, <1>5 DEF EndsByOwner

\* Only the streamer's own 'end' or 'leave' ends a stream, and for good
\* (stream.service.ts:112, 354-362).
THEOREM EndedOnlyByOwner == Spec => EndedByOwnerForGood
  <1>1. LifeInv /\ [Next]_vars => [EndsByOwner]_vars
    <2> SUFFICES ASSUME LifeInv, Next PROVE EndsByOwner
      OBVIOUS
    <2>1. CASE \E r \in Requests, u \in Users : Arrivals(r, u)
      BY <2>1 DEF Arrivals, CreateStream, EndStream, LeaveStream, Arrive, rows,
                  EndsByOwner
    <2>2. CASE Handling
      BY <2>2, HandlingEnds, DatabaseCutsOff DEF Handling
    <2>3. QED
      BY <2>1, <2>2 DEF Next
  <1>2. QED
    BY <1>1, LifeCorrect, PTL DEF Spec, EndedByOwnerForGood, EndsByOwner

\* What a step may do to the end time of a stream that has one.
EndTimesMove ==
    \A st \in Streams :
        endedAt[st] # None =>
           /\ endedAt'[st] # endedAt[st] =>
                 \E r \in Requests : /\ ReadAsUnended(r, st) /\ ~Pending(r)'
                                     /\ endedAt'[st] = r
           /\ \A r \in Requests : ReadAsUnended(r, st)' => ReadAsUnended(r, st)

\* A handler's own steps move an end time only at the UPDATE of a departure, and
\* no departure gets to its UPDATE once there is an end time.
LEMMA HandlingMoves ==
    ASSUME LifeInv, NEW r \in Requests, Step(r) \/ CutOff(r)
    PROVE  EndTimesMove
  <1>0. /\ RowEffect(r) /\ Pending(r) /\ ReqPlaced(r) /\ TypeOK /\ RowsInv
        /\ \A x \in Requests \ {r} : req'[x] = req[x]
        /\ req'[r].stream = req[r].stream \/ req[r].pc = "insert"
        /\ req'[r].user = req[r].user
        /\ \A st \in Streams : owner[st] # None => owner'[st] = owner[st]
    BY HandlingEffect, ReqAfter, RowsAfter DEF LifeInv
  <1>1. /\ \A a : Answer(r, a) => req'[r].pc = "done"
        /\ \A p : Goto(r, p) => req'[r].pc = p
    BY <1>0 DEF Answer, Goto, TypeOK, Pending, Waits, NewReq
  <1> SUFFICES ASSUME NEW st \in Streams, endedAt[st] # None
               PROVE  /\ endedAt'[st] # endedAt[st] =>
                            \E x \in Requests : /\ ReadAsUnended(x, st) /\ ~Pending(x)'
                                                /\ endedAt'[st] = x
                      /\ \A x \in Requests : ReadAsUnended(x, st)' => ReadAsUnended(x, st)
    BY DEF EndTimesMove
  <1>2. status[st] = "FINISHED" /\ owner[st] # None /\ owner'[st] = owner[st]
    BY <1>0 DEF RowsInv
  <1>3. ASSUME endedAt'[st] # endedAt[st]
        PROVE  ReadAsUnended(r, st) /\ ~Pending(r)' /\ endedAt'[st] = r
    <2>1. /\ req[r].pc = "finish" \/ (req[r].pc = "update" /\ Endable(r))
          /\ req[r].stream = st /\ endedAt'[st] = r
      BY <1>0, <1>3 DEF RowEffect, rows, InsertRow, Finish, TypeOK
    <2>2. req[r].pc = "finish"
      BY <1>2, <2>1 DEF Endable
    <2>3. \E a : Answer(r, a)
      BY <2>2 DEF Step, CutOff, AuthConfirms, AuthRefuses, CheckLive, Insert, Tag,
                  EndUpdate, LeaveFind, LeaveFinish
    <2>4. QED
      BY <1>0, <1>1, <2>1, <2>2, <2>3 DEF ReadAsUnended, ReqPlaced, Pending, Waits
  <1>4. ASSUME NEW x \in Requests, ReadAsUnended(x, st)'
        PROVE  ReadAsUnended(x, st)
    <2>1. CASE x # r
      BY <1>0, <1>2, <1>4, <2>1 DEF ReadAsUnended
    <2>2. CASE x = r
      <3>1. CASE \E z \in Streams : Insert(r, z)
        BY <1>0, <1>4, <2>2, <3>1
           DEF Insert, ReadAsUnended, TypeOK, Pending, Waits, NewReq
      <3>2. CASE LeaveFind(r)
        BY <1>0, <1>1, <1>2, <1>4, <2>2, <3>2
           DEF LeaveFind, LeavingEnds, ReadAsUnended
      <3>3. CASE \E a : Answer(r, a)
        BY <1>1, <1>4, <2>2, <3>3 DEF ReadAsUnended
      <3>4. CASE AuthConfirms(r) \/ CheckLive(r)
        BY <1>1, <1>4, <2>2, <3>4 DEF AuthConfirms, CheckLive, ReadAsUnended
      <3>5. QED
        BY <3>1, <3>2, <3>3, <3>4
           DEF Step, CutOff, AuthRefuses, Tag, EndUpdate, LeaveFinish
    <2>3. QED
      BY <2>1, <2>2
  <1>5. QED
    BY <1>3, <1>4

\* Requests that arrive, and steps outside the handlers, move none.
LEMMA StillMoves ==
    ASSUME UNCHANGED rows,
           \/ req' = req
           \/ TypeOK /\ \E r \in Requests, u \in Users : Arrivals(r, u)
    PROVE  EndTimesMove
  <1>1. ASSUME NEW x \in Requests, NEW st \in Streams, ReadAsUnended(x, st)'
        PROVE  ReadAsUnended(x, st)
    <2>1. CASE req' = req
      BY <1>1, <2>1 DEF ReadAsUnended, rows
    <2>2. CASE TypeOK /\ \E r \in Requests, u \in Users : Arrivals(r, u)
      <3>1. PICK r \in Requests : \E u \in Users : Arrivals(r, u)
        BY <2>2
      <3>2. /\ \A y \in Requests \ {r} : req'[y] = req[y]
            /\ req'[r].pc \in {"auth", "find"}
        BY <2>2, <3>1
           DEF Arrivals, CreateStream, EndStream, LeaveStream, Arrive, TypeOK
      <3>3. QED
        BY <1>1, <3>2 DEF ReadAsUnended, rows
    <2>3. QED
      BY <2>1, <2>2
  <1>2. QED
    BY <1>1 DEF EndTimesMove, rows

\* However many requests race and whatever fails, a stored end time is moved only
\* by departures of the streamer that had read the row before it was ended
\* (stream.service.ts:112-116, 343-362).
THEOREM EndTimeMovedByRacersOnly == Spec => EndTimeMovesInRaceOnly
  <1>1. LifeInv /\ [Next]_vars => [EndTimesMove]_vars
    <2> SUFFICES ASSUME LifeInv, Next PROVE EndTimesMove
      OBVIOUS
    <2>1. CASE \E r \in Requests, u \in Users : Arrivals(r, u)
      <3>1. UNCHANGED rows /\ TypeOK
        BY <2>1 DEF Arrivals, CreateStream, EndStream, LeaveStream, Arrive, LifeInv
      <3>2. QED
        BY <2>1, <3>1, StillMoves
    <2>2. CASE Handling
      BY <2>2, HandlingMoves, DatabaseCutsOff DEF Handling
    <2>3. QED
      BY <2>1, <2>2 DEF Next
  <1>2. QED
    BY <1>1, LifeCorrect, PTL DEF Spec, EndTimeMovesInRaceOnly, EndTimesMove

-----------------------------------------------------------------------------
(***************************************************************************)
(* A user who waits for each answer: his check of LIVE rows, and his read  *)
(* of the row he leaves, are still true when he acts on them.              *)
(***************************************************************************)
OneAtATime ==
    \A r1, r2 \in Requests :
        Pending(r1) /\ Pending(r2) /\ req[r1].user = req[r2].user => r1 = r2

ChecksHold(r) ==
    /\ req[r].pc = "insert" => ~HasLive(req[r].user)
    /\ req[r].pc = "finish" => status[req[r].stream] = "LIVE"

SerialInv ==
    /\ LifeInv /\ OneAtATime /\ OneLivePerUser
    /\ \A r \in Requests : ChecksHold(r)

\* A step of a request keeps the facts that hold when users wait for answers:
\* the absence of a LIVE row, once checked, is not invalidated before the INSERT.
LEMMA SerialHandling ==
    ASSUME SerialInv, NEW r \in Requests, Step(r) \/ CutOff(r)
    PROVE  /\ SerialInv'
           /\ \A st \in Streams : endedAt[st] # None => endedAt'[st] = endedAt[st]
  <1>0. /\ RowEffect(r) /\ TypeOK /\ LifeInv /\ RowsInv /\ Pending(r)
        /\ \A x \in Requests \ {r} : req'[x] = req[x]
        /\ req'[r].user = req[r].user
        /\ ReqPlaced(r) /\ ChecksHold(r)
        /\ req[r].user \in Users
    BY HandlingEffect, ReqAfter
       DEF SerialInv, LifeInv, TypeOK, Pending, Waits, NewReq
  <1>1. LifeInv'
    BY <1>0, HandlingLife
  <1>2. OneAtATime'
    BY <1>0 DEF SerialInv, OneAtATime, Pending
  \* The rows: LIVE ones appear only for a user who had none, and only LIVE
  \* ones get an end time.
  <1>3. /\ OneLivePerUser'
        /\ \A st \in Streams : endedAt[st] # None => endedAt'[st] = endedAt[st]
    <2>1. CASE UNCHANGED rows
      BY <2>1 DEF rows, SerialInv, OneLivePerUser
    <2>2. CASE /\ req[r].pc = "insert"
               /\ \E st \in Streams : status[st] = "none" /\ InsertRow(st, req[r].user)
      <3>1. PICK st \in Streams : status[st] = "none" /\ InsertRow(st, req[r].user)
        BY <2>2
      <3>2. ~HasLive(req[r].user)
        BY <1>0, <2>2 DEF ChecksHold
      <3>3. /\ endedAt' = endedAt
            /\ \A x \in Streams :
                  /\ owner'[x] = IF x = st THEN req[r].user ELSE owner[x]
                  /\ status'[x] = IF x = st THEN "LIVE" ELSE status[x]
        BY <1>0, <3>1 DEF InsertRow, TypeOK
      <3>4. OneLivePerUser'
        BY <3>2, <3>3 DEF SerialInv, OneLivePerUser, HasLive
      <3>5. endedAt[st] = None
        BY <1>0, <3>1 DEF RowsInv
      <3>6. QED
        BY <3>3, <3>4, <3>5 DEF SerialInv
    <2>3. CASE /\ req[r].pc = "tags"
               /\ InsertTags(req[r].stream) /\ UNCHANGED <<owner, status, endedAt>>
      BY <2>3 DEF SerialInv, OneLivePerUser
    <2>4. CASE /\ req[r].pc = "finish" \/ (req[r].pc = "update" /\ Endable(r))
               /\ Finish(req[r].stream, r) /\ UNCHANGED <<owner, tagged>>
      <3>1. req[r].stream \in Streams /\ status[req[r].stream] = "LIVE"
        BY <1>0, <2>4 DEF ReqPlaced, ChecksHold, Endable
      <3>2. endedAt[req[r].stream] = None
        BY <1>0, <3>1 DEF RowsInv
      <3>3. /\ owner' = owner
            /\ \A x \in Streams :
                  /\ status'[x] = IF x = req[r].stream THEN "FINISHED" ELSE status[x]
                  /\ endedAt'[x] = IF x = req[r].stream THEN r ELSE endedAt[x]
        BY <1>0, <2>4 DEF Finish, TypeOK
      <3>4. QED
        BY <3>2, <3>3 DEF SerialInv, OneLivePerUser
    <2>5. QED
      BY <1>0, <2>1, <2>2, <2>3, <2>4 DEF RowEffect
  <1>4. ASSUME NEW x \in Requests
        PROVE  ChecksHold(x)'
    <2>1. CASE x = r
      <3>1. CASE CheckLive(r)
        <4>1. /\ \A a : Answer(r, a) => req'[r].pc = "done"
              /\ \A p : Goto(r, p) => req'[r].pc = p
          BY <1>0 DEF Answer, Goto, TypeOK, Pending, Waits, NewReq
        <4>2. QED
          BY <1>0, <2>1, <3>1, <4>1 DEF CheckLive, rows, ChecksHold, HasLive
      <3>2. CASE LeaveFind(r)
        <4>1. /\ \A a : Answer(r, a) => req'[r].pc = "done"
              /\ \A p : Goto(r, p) => req'[r].pc = p /\ req'[r].stream = req[r].stream
          BY <1>0 DEF Answer, Goto, TypeOK, Pending, Waits, NewReq
        <4>2. status[req[r].stream] # "none" /\ LeavingEnds(r)
                 => status[req[r].stream] = "LIVE"
          BY <1>0, <3>2 DEF LeaveFind, ReqPlaced, LeavingEnds, TypeOK
        <4>3. QED
          BY <2>1, <3>2, <4>1, <4>2 DEF LeaveFind, rows, ChecksHold
      <3>3. CASE ~CheckLive(r) /\ ~LeaveFind(r)
        <4>1. req'[r].pc \notin {"insert", "finish"}
          <5>1. /\ \A a : Answer(r, a) => req'[r].pc = "done"
                /\ \A p : Goto(r, p) => req'[r].pc = p
            BY <1>0 DEF Answer, Goto, TypeOK, Pending, Waits, NewReq
          <5>2. CASE \E st \in Streams : Insert(r, st)
            BY <1>0, <5>2 DEF Insert, TypeOK, Pending, Waits, NewReq
          <5>3. CASE \E a : Answer(r, a)
            BY <5>1, <5>3
          <5>4. CASE AuthConfirms(r)
            BY <5>1, <5>4 DEF AuthConfirms
          <5>5. QED
            BY <3>3, <5>2, <5>3, <5>4
               DEF Step, CutOff, AuthRefuses, Tag, EndUpdate, LeaveFinish
        <4>2. QED
          BY <2>1, <4>1 DEF ChecksHold
      <3>4. QED
        BY <3>1, <3>2, <3>3
    <2>2. CASE x # r
      <3>1. req'[x] = req[x] /\ ChecksHold(x) /\ ReqPlaced(x)
        BY <1>0, <2>2 DEF SerialInv, LifeInv
      <3>2. Pending(x) => req[x].user # req[r].user
        BY <1>0, <2>2 DEF SerialInv, OneAtATime
      \* A LIVE row that appears or disappears is one of r's user.
      <3>3. ASSUME NEW st \in Streams
            PROVE  \/ status'[st] = status[st] /\ owner'[st] = owner[st]
                   \/ owner'[st] = req[r].user
        BY <1>0, <3>1
           DEF RowEffect, rows, InsertRow, Finish, TypeOK, ReqPlaced, Endable
      <3>4. req[x].pc = "insert" => ~HasLive(req[x].user)'
        BY <3>1, <3>2, <3>3 DEF ChecksHold, HasLive, Pending, Waits
      <3>5. req[x].pc = "finish" => status'[req[x].stream] = "LIVE"
        <4> SUFFICES ASSUME req[x].pc = "finish"
                     PROVE  status'[req[x].stream] = "LIVE"
          OBVIOUS
        <4>1. /\ req[x].stream \in Streams /\ owner[req[x].stream] = req[x].user
              /\ status[req[x].stream] = "LIVE" /\ req[x].user # req[r].user
              /\ req[x].user \in Users
          BY <1>0, <3>1, <3>2
             DEF ReqPlaced, ChecksHold, Pending, Waits, TypeOK, NewReq
        <4>2. owner'[req[x].stream] = owner[req[x].stream]
          BY <1>0, <4>1, RowsAfter
        <4>3. QED
          BY <3>3, <4>1, <4>2
      <3>6. QED
        BY <3>1, <3>4, <3>5 DEF ChecksHold, HasLive
    <2>3. QED
      BY <2>1, <2>2
  <1>5. QED
    BY <1>1, <1>2, <1>3, <1>4 DEF SerialInv

\* A request that arrives while its user has none pending keeps them too.
LEMMA SerialKept ==
    SerialInv /\ [SerialNext]_vars =>
        /\ SerialInv'
        /\ \A st \in Streams : endedAt[st] # None => endedAt'[st] = endedAt[st]
  <1> SUFFICES ASSUME SerialInv, [SerialNext]_vars
               PROVE  /\ SerialInv'
                      /\ \A st \in Streams : endedAt[st] # None => endedAt'[st] = endedAt[st]
    OBVIOUS
  <1>1. LifeInv'
    BY NextLife DEF SerialInv, SerialNext, Next
  <1>2. ASSUME NEW r \in Requests, NEW u \in Users, Alone(u), Arrivals(r, u)
        PROVE  /\ SerialInv'
               /\ \A st \in Streams : endedAt[st] # None => endedAt'[st] = endedAt[st]
    <2>1. /\ owner' = owner /\ status' = status /\ endedAt' = endedAt /\ tagged' = tagged
          /\ \A x \in Requests \ {r} : req'[x] = req[x]
          /\ req'[r].user = u /\ req'[r].pc \in {"auth", "find"}
      BY <1>2 DEF Arrivals, CreateStream, EndStream, LeaveStream, Arrive, rows,
                  SerialInv, LifeInv, TypeOK
    <2>2. OneAtATime'
      BY <1>2, <2>1 DEF SerialInv, OneAtATime, Alone, Pending
    <2>3. \A x \in Requests : ChecksHold(x)'
      BY <2>1 DEF SerialInv, ChecksHold, HasLive
    <2>4. QED
      BY <1>1, <2>1, <2>2, <2>3 DEF SerialInv, OneLivePerUser
  <1>3. ASSUME NEW r \in Requests, Step(r) \/ DatabaseFails(r)
        PROVE  /\ SerialInv'
               /\ \A st \in Streams : endedAt[st] # None => endedAt'[st] = endedAt[st]
    BY <1>3, SerialHandling, DatabaseCutsOff
  <1>4. CASE UNCHANGED vars
    BY <1>1, <1>4 DEF vars, SerialInv, OneAtATime, OneLivePerUser, ChecksHold,
                      HasLive, Pending
  <1>5. QED
    BY <1>2, <1>3, <1>4 DEF SerialNext, Handling

\* When each user waits for his answers, the separate SELECT and INSERT of
\* createStream, and SELECT and UPDATE of leaveStream, act as if they were one
\* (stream.service.ts:49-62, 343-362).
THEOREM SerialCorrect == SerialSpec => []SerialInv
  <1>1. Init => SerialInv
    BY InitLife DEF Init, SerialInv, OneAtATime, OneLivePerUser, ChecksHold, Pending,
                    Waits, NewReq
  <1>2. QED
    BY <1>1, SerialKept, PTL DEF SerialSpec

\* A user who waits for each answer has at most one LIVE stream, whatever
\* fails in between (stream.service.ts:49-51).
THEOREM SerialOneLive == SerialSpec => []OneLivePerUser
  <1>1. SerialInv => OneLivePerUser
    BY DEF SerialInv
  <1>2. QED
    BY <1>1, SerialCorrect, PTL

\* If every streamer waits for each answer, stored end times never move
\* (stream.service.ts:112-116, 355-361).
THEOREM SerialEndTime == SerialSpec => EndTimeStable
  <1>1. SerialInv /\ [SerialNext]_vars =>
          [\A st \in Streams : endedAt[st] # None => endedAt'[st] = endedAt[st]]_vars
    BY SerialKept
  <1>2. QED
    BY <1>1, SerialCorrect, PTL DEF SerialSpec, EndTimeStable
=============================================================================
