--------------------------- MODULE HttpApiProofs ---------------------------
(***************************************************************************)
(* Proofs about HttpApi: what MetricsInterceptor counts, for every number  *)
(* of requests, users and streams, every set of tokens and both modes.     *)
(***************************************************************************)
EXTENDS HttpApi, FiniteSetTheorems, TLAPS

USE RequestsAssumption

Stages == {"new", "key", "done"} \cup Inside

HttpRequest ==
    [route : Routes \cup {"none"}, stage : Stages, token : Token \cup {None},
     stream : Streams \cup {None}, code : {"default", "200", "201", "204"},
     reply : {"none", "2xx", "4xx", "5xx"}]

\* A request has its route from the guard on; the interceptor has seen the end
\* of one that is done and has a route.
Fits(h) ==
    /\ h.stage = "new" => h.route = "none"
    /\ h.stage \in {"key"} \cup Inside => h.route \in Routes
    /\ h.stage = "key" => h.stream \in Streams

Seen(h) == h.stage = "done" /\ h.route # "none"

\* The gauge counts what the interceptor has not seen the end of.
Counted == inFlight = Cardinality(At(Inside))

HttpInv ==
    /\ http \in [Requests -> HttpRequest]
    /\ timed \in [Requests -> Nat]
    /\ \A r \in Requests : Fits(http[r])
    /\ Counted /\ TimedOnce

\* Nobody is in the server at first.
LEMMA InitHttp == HInit => HttpInv
  <1> SUFFICES ASSUME HInit PROVE HttpInv
    OBVIOUS
  <1>1. http = [r \in Requests |-> NewHttp] /\ NewHttp \in HttpRequest
    BY DEF HInit, NewHttp, HttpRequest, Stages
  <1>2. At(Inside) = {}
    BY <1>1 DEF At, NewHttp, Inside, InProgress
  <1>3. Counted
    BY <1>2, FS_EmptySet DEF Counted, HInit
  <1>4. TimedOnce /\ \A r \in Requests : Fits(http[r])
    BY <1>1 DEF HInit, TimedOnce, Fits, NewHttp, Inside, InProgress
  <1>5. timed \in [Requests -> Nat]
    BY DEF HInit
  <1>6. QED
    BY <1>1, <1>3, <1>4, <1>5 DEF HttpInv

Within(h) == IF h.stage \in Inside THEN 1 ELSE 0

\* The metrics agree with the requests as long as the gauge changes with every
\* entry and exit, and the timer stops once, at the end.
LEMMA RequestMoves ==
    ASSUME HttpInv, NEW r \in Requests, NEW h \in HttpRequest, Fits(h),
           http' = [http EXCEPT ![r] = h],
           inFlight' = inFlight + Within(h) - Within(http[r]),
           timed' = [timed EXCEPT ![r] = IF Seen(h) THEN 1 ELSE 0]
    PROVE  HttpInv'
  <1>0. http \in [Requests -> HttpRequest] /\ timed \in [Requests -> Nat]
    BY DEF HttpInv
  <1>1. http' \in [Requests -> HttpRequest] /\ timed' \in [Requests -> Nat]
    BY <1>0
  <1>2. \A x \in Requests : http'[x] = IF x = r THEN h ELSE http[x]
    BY <1>0
  <1>3. (\A x \in Requests : Fits(http[x])) /\ TimedOnce
    BY DEF HttpInv
  <1>4. (\A x \in Requests : Fits(http'[x])) /\ TimedOnce'
    BY <1>0, <1>2, <1>3 DEF TimedOnce, Seen
  <1>5. Counted'
    <2> DEFINE S == At(Inside)
               T == {x \in Requests : http'[x].stage \in Inside}
    <2>1. IsFiniteSet(S) /\ Cardinality(S) \in Nat /\ inFlight = Cardinality(S)
      BY FS_Subset, FS_CardinalityType DEF HttpInv, Counted, At
    <2>2. T = IF h.stage \in Inside THEN S \cup {r} ELSE S \ {r}
      BY <1>2 DEF At
    <2>3. r \in S <=> http[r].stage \in Inside
      BY DEF At
    <2>4. /\ Cardinality(S \cup {r}) = IF r \in S THEN Cardinality(S) ELSE Cardinality(S) + 1
          /\ Cardinality(S \ {r}) = IF r \in S THEN Cardinality(S) - 1 ELSE Cardinality(S)
      BY <2>1, FS_AddElement, FS_RemoveElement
    <2> HIDE DEF S, T
    <2>5. inFlight' = Cardinality(T)
      BY <2>1, <2>2, <2>3, <2>4 DEF Within
    <2>6. QED
      BY <2>5 DEF Counted, At, T
  <1>6. QED
    BY <1>1, <1>4, <1>5 DEF HttpInv

\* Nothing about the request changes.
LEMMA RequestStays ==
    ASSUME HttpInv, UNCHANGED <<http, inFlight, timed>>
    PROVE  HttpInv'
  BY DEF HttpInv, Counted, At, TimedOnce

\* A request outside the interceptor that stays outside.
LEMMA StaysOutside ==
    ASSUME HttpInv, NEW r \in Requests, http[r].stage \in {"new", "key"},
           NEW h \in HttpRequest, Fits(h), h.stage \notin Inside, ~Seen(h),
           http' = [http EXCEPT ![r] = h], UNCHANGED <<inFlight, timed>>
    PROVE  HttpInv'
  <1>1. inFlight \in Nat /\ timed \in [Requests -> Nat] /\ timed[r] = 0
    BY FS_Subset, FS_CardinalityType DEF HttpInv, Counted, At, TimedOnce
  <1>2. Within(h) = 0 /\ Within(http[r]) = 0
    BY DEF Within, Inside, InProgress
  <1>3. inFlight' = inFlight + Within(h) - Within(http[r])
    BY <1>1, <1>2
  <1>4. timed' = [timed EXCEPT ![r] = IF Seen(h) THEN 1 ELSE 0]
    BY <1>1
  <1>5. QED
    BY <1>3, <1>4, RequestMoves

\* The guard admits or refuses.
LEMMA JudgeCounts ==
    ASSUME HttpInv, NEW r \in Requests, http[r].stage \in {"new", "key"},
           NEW k \in Routes, NEW tok \in Offered \cup Token,
           NEW st \in Streams \cup {None}, Judge(r, k, tok, st)
    PROVE  HttpInv'
  <1>1. CASE Refuse(r)
    <2>1. [NewHttp EXCEPT !.stage = "done", !.reply = "4xx"] \in HttpRequest
      BY DEF NewHttp, HttpRequest, Stages
    <2>2. QED
      BY <1>1, <2>1, StaysOutside DEF Refuse, NewHttp, Fits, Seen, Inside, InProgress, metrics
  <1>2. CASE Admits(k, tok) /\ Admit(r, k, tok, st)
    <2> DEFINE h == [NewHttp EXCEPT !.route = k, !.code = SuccessCode[k],
                       !.token = IF k = "create" THEN tok ELSE None,
                       !.stream = IF k = "status" THEN st ELSE None,
                       !.stage = IF k = "create" THEN "body" ELSE "handler"]
    <2>1. SuccessCode[k] \in {"200", "201", "204"}
      BY DEF SuccessCode, Routes
    <2>a. k = "create" => tok \in Token
      BY <1>2 DEF Admits, HttpUser
    <2>2. h \in HttpRequest
      BY <2>1, <2>a DEF NewHttp, HttpRequest, Stages, Inside, InProgress
    <2>3. Fits(h) /\ Within(h) = 1 /\ ~Seen(h) /\ Within(http[r]) = 0
      BY DEF Fits, Within, Seen, NewHttp, Inside, InProgress
    <2>4. http' = [http EXCEPT ![r] = h] /\ inFlight' = inFlight + 1 /\ timed' = timed
      BY <1>2 DEF Admit
    <2>5. inFlight \in Nat /\ timed \in [Requests -> Nat] /\ timed[r] = 0
      BY FS_Subset, FS_CardinalityType DEF HttpInv, Counted, At, TimedOnce
    <2> HIDE DEF h
    <2>6. inFlight' = inFlight + Within(h) - Within(http[r])
      BY <2>3, <2>4, <2>5
    <2>7. timed' = [timed EXCEPT ![r] = IF Seen(h) THEN 1 ELSE 0]
      BY <2>3, <2>4, <2>5
    <2>8. QED
      BY <2>2, <2>3, <2>4, <2>6, <2>7, RequestMoves
  <1>3. QED
    BY <1>1, <1>2 DEF Judge

\* finalize decrements the gauge and stops the timer, whatever the outcome.
LEMMA OutcomeCounts ==
    ASSUME HttpInv, NEW r \in Requests, http[r].stage \in Inside,
           NEW a, Outcome(r, a)
    PROVE  HttpInv'
  <1>1. PICK class \in {"2xx", "4xx", "5xx"} : Send(r, class)
    BY DEF Outcome, Classes
  <1> DEFINE h == [http[r] EXCEPT !.stage = "done", !.token = None,
                                  !.stream = None, !.reply = class]
  <1>2. http[r] \in HttpRequest /\ http[r].route \in Routes
    BY DEF HttpInv, Fits
  <1>3. h \in HttpRequest
    BY <1>2 DEF HttpRequest, Stages
  <1>4. Fits(h) /\ Within(h) = 0 /\ Seen(h) /\ Within(http[r]) = 1
    BY <1>2 DEF Fits, Within, Seen, HttpRequest, Inside, InProgress, Routes
  <1>5. http' = [http EXCEPT ![r] = h]
    BY <1>1 DEF Send
  <1>6. /\ inFlight \in Nat /\ timed \in [Requests -> Nat] /\ timed[r] = 0
        /\ inFlight' = inFlight - 1 /\ timed' = [timed EXCEPT ![r] = timed[r] + 1]
    BY FS_Subset, FS_CardinalityType
       DEF HttpInv, Counted, At, TimedOnce, Outcome, Settle, Inside, InProgress
  <1> HIDE DEF h
  <1>7. inFlight' = inFlight + Within(h) - Within(http[r])
    BY <1>4, <1>6
  <1>8. timed' = [timed EXCEPT ![r] = IF Seen(h) THEN 1 ELSE 0]
    BY <1>4, <1>6
  <1>9. QED
    BY <1>3, <1>4, <1>5, <1>7, <1>8, RequestMoves

\* The body is read; or never, and the request stays inside for ever.
LEMMA BodyCounts ==
    ASSUME HttpInv, NEW r \in Requests, http[r].stage = "body",
           NEW p \in {"handler", "abandoned"},
           http' = [http EXCEPT ![r].stage = p, ![r].token = None],
           UNCHANGED <<inFlight, timed>>
    PROVE  HttpInv'
  <1> DEFINE h == [http[r] EXCEPT !.stage = p, !.token = None]
  <1>1. http[r] \in HttpRequest /\ http[r].route \in Routes
    BY DEF HttpInv, Fits, Inside, InProgress
  <1>2. h \in HttpRequest
    BY <1>1 DEF HttpRequest, Stages, Inside, InProgress
  <1>3. Fits(h) /\ Within(h) = 1 /\ ~Seen(h) /\ Within(http[r]) = 1
    BY <1>1 DEF Fits, Within, Seen, HttpRequest, Inside, InProgress
  <1>4. http' = [http EXCEPT ![r] = h]
    OBVIOUS
  <1>5. inFlight \in Nat /\ timed \in [Requests -> Nat] /\ timed[r] = 0
    BY FS_Subset, FS_CardinalityType DEF HttpInv, Counted, At, TimedOnce
  <1> HIDE DEF h
  <1>6. inFlight' = inFlight + Within(h) - Within(http[r])
    BY <1>3, <1>5
  <1>7. timed' = [timed EXCEPT ![r] = IF Seen(h) THEN 1 ELSE 0]
    BY <1>3, <1>5
  <1>8. QED
    BY <1>2, <1>3, <1>4, <1>6, <1>7, RequestMoves

\* HttpInv is inductive.
LEMMA NextHttp == HttpInv /\ [HNext]_hvars => HttpInv'
  <1> SUFFICES ASSUME HttpInv, [HNext]_hvars PROVE HttpInv'
    OBVIOUS
  <1>0. \A r \in Requests : http[r] \in HttpRequest /\ Fits(http[r])
    BY DEF HttpInv
  <1>1. ASSUME NEW r \in Requests, Preflight(r) PROVE HttpInv'
    <2> DEFINE h == [http[r] EXCEPT !.stage = "done", !.token = None,
                                    !.stream = None, !.reply = "2xx"]
    <2>1. h \in HttpRequest
      BY <1>0 DEF HttpRequest, Stages
    <2>2. h.stage = "done" /\ h.route = "none" /\ http[r].stage = "new"
      BY <1>0, <1>1 DEF Preflight, Fits, HttpRequest
    <2>3. http' = [http EXCEPT ![r] = h] /\ UNCHANGED <<inFlight, timed>>
      BY <1>1 DEF Preflight, Send, metrics
    <2> HIDE DEF h
    <2>4. QED
      BY <2>1, <2>2, <2>3, StaysOutside DEF Fits, Seen, Inside, InProgress
  <1>2. ASSUME NEW r \in Requests, NEW k \in Routes, NEW tok \in Offered,
               NEW st \in Streams, Receive(r, k, tok, st)
        PROVE  HttpInv'
    <2>1. CASE Judge(r, k, tok, st)
      BY <1>2, <2>1, JudgeCounts DEF Receive
    <2>2. CASE ~Judge(r, k, tok, st)
      <3> DEFINE h == [NewHttp EXCEPT !.route = k, !.token = tok, !.stream = st,
                                      !.stage = "key"]
      <3>0. tok \in Token
        BY <1>2, <2>2 DEF Receive, NeedsKey
      <3>1. h \in HttpRequest
        BY <3>0 DEF NewHttp, HttpRequest, Stages
      <3>2. h.stage = "key" /\ h.route = k /\ h.stream = st
        BY DEF NewHttp
      <3>3. /\ http[r].stage = "new"
            /\ http' = [http EXCEPT ![r] = h] /\ UNCHANGED <<inFlight, timed>>
        BY <1>2, <2>2 DEF Receive, metrics
      <3> HIDE DEF h
      <3>4. QED
        BY <3>1, <3>2, <3>3, StaysOutside DEF Fits, Seen, Inside, InProgress
    <2>3. QED
      BY <2>1, <2>2
  <1>3. ASSUME NEW r \in Requests, KeyArrives(r) PROVE HttpInv'
    <2>1. /\ http[r].stage = "key" /\ http[r].route \in Routes
          /\ http[r].token \in Offered \cup Token /\ http[r].stream \in Streams \cup {None}
          /\ Judge(r, http[r].route, http[r].token, http[r].stream)
      BY <1>0, <1>3 DEF KeyArrives, Fits, HttpRequest, Offered
    <2>2. QED
      BY <2>1, JudgeCounts
  <1>4. ASSUME NEW r \in Requests, NEW tg \in BOOLEAN, BodyAccepted(r, tg) PROVE HttpInv'
    BY <1>4, BodyCounts DEF BodyAccepted, metrics
  <1>5. ASSUME NEW r \in Requests, BodyAbandoned(r) PROVE HttpInv'
    BY <1>5, BodyCounts DEF BodyAbandoned, metrics
  <1>6. ASSUME NEW r \in Requests, BodyRejected(r) PROVE HttpInv'
    BY <1>6, OutcomeCounts DEF BodyRejected, Inside, InProgress
  <1>7. ASSUME NEW r \in Requests, Handle(r) PROVE HttpInv'
    BY <1>7, OutcomeCounts, RequestStays DEF Handle, Inside, InProgress, metrics
  <1>8. ASSUME NEW r \in Requests, GetStreamStatus(r) PROVE HttpInv'
    BY <1>8, OutcomeCounts DEF GetStreamStatus, Inside, InProgress
  <1>9. ASSUME \/ \E r \in Requests :
                     \/ KeyLost(r) \/ Orphaned(r)
                     \/ \E k \in Routes, tok \in Brought : HeaderUnreadable(r, k, tok)
               \/ KeyExpires \/ UNCHANGED hvars
        PROVE  HttpInv'
    BY <1>9, RequestStays
       DEF KeyLost, HeaderUnreadable, ProcessEnds, Orphaned, KeyExpires, hvars, metrics
  <1>10. QED
    BY <1>1, <1>2, <1>3, <1>4, <1>5, <1>6, <1>7, <1>8, <1>9
       DEF HNext, Onward, Handled

\* Wherever requests are, the metrics of the interceptor agree with them.
THEOREM HttpCorrect == HSpec => []HttpInv
  BY InitHttp, NextHttp, PTL DEF HSpec

\* The gauge is wrong by the abandoned uploads and by nothing else, however many
\* requests overlap and whatever they end with (metrics.interceptor.ts:50, 75).
THEOREM GaugeDrift == HSpec => []GaugeDriftsByAbandoned
  <1>1. HttpInv => GaugeDriftsByAbandoned
    <2> SUFFICES ASSUME HttpInv PROVE GaugeDriftsByAbandoned
      OBVIOUS
    <2> DEFINE P == At(InProgress)
               A == At({"abandoned"})
    <2>1. IsFiniteSet(P) /\ IsFiniteSet(A)
      BY FS_Subset DEF At
    <2>2. P \cup A = At(Inside) /\ P \cap A = {}
      BY DEF At, Inside, InProgress
    <2> HIDE DEF P, A
    <2>3. Cardinality(P) \in Nat /\ Cardinality(A) \in Nat
      BY <2>1, FS_CardinalityType
    <2>4. Cardinality(At(Inside)) = Cardinality(P) + Cardinality(A) - Cardinality(P \cap A)
      BY <2>1, <2>2, FS_Union
    <2>5. Cardinality(P \cap A) = 0
      BY <2>2, FS_EmptySet
    <2>6. QED
      BY <2>3, <2>4, <2>5 DEF P, A, HttpInv, Counted, GaugeDriftsByAbandoned
  <1>2. QED
    BY <1>1, HttpCorrect, PTL

\* Every admitted request is observed once, when it is over, and no other
\* (metrics.interceptor.ts:53, 76).
THEOREM ObservedOnce == HSpec => []TimedOnce
  <1>1. HttpInv => TimedOnce
    BY DEF HttpInv
  <1>2. QED
    BY <1>1, HttpCorrect, PTL
=============================================================================
