------------------------------ MODULE HttpApi ------------------------------
(***************************************************************************)
(* An HTTP request on its way through the server, around the handlers of   *)
(* StreamLifecycle: CorsMiddleware; JwtAuthGuard with JwtStrategy; the     *)
(* status of the route (external: Nest sets it before any interceptor);    *)
(* MetricsInterceptor; the multipart body and ValidationPipe; the handler; *)
(* tap.error and finalize of the interceptor; the exception filter.        *)
(*                                                                         *)
(* In mode "jwks" the strategy reads the header of the token and may have  *)
(* to ask the auth server for the key that it names.  If the header cannot *)
(* be read, or the key cannot be had, its promise rejects with nobody to   *)
(* catch it, and the process ends (external: Node's default).              *)
(***************************************************************************)
EXTENDS StreamLifecycle

CONSTANTS
    Blank, Garbled, Kids, Served, \* as in Tokens
    Brought  \* bound: the tokens that clients bring

INSTANCE Tokens

ASSUME ServedAssumption == Served \subseteq Kids
ASSUME BroughtAssumption == Brought \subseteq Token \cup {Garbled}
ASSUME GarbledAssumption == Garbled \notin Token /\ None \notin Token
ASSUME RequestsAssumption == IsFiniteSet(Requests)

VARIABLES
    mode,     \* JWKS_URI is set or not
    cached,   \* the key ids whose keys the JWKS client has in its cache
    up,       \* the process runs
    http,     \* http[r]: where r is, what it asks, res.statusCode, the reply
    inFlight, \* the gauge http_in_flight_requests
    timed,    \* timed[r]: observations of r in http_request_duration_seconds
    errors    \* the counter http_errors_total

server == <<mode, cached, up>>
metrics == <<inFlight, timed, errors>>
hvars == <<vars, server, http, metrics>>

Routes == {"create", "end", "leave", "status"}

\* @HttpCode, or what Nest answers to a POST
SuccessCode == [k \in Routes |-> CASE k = "create" -> "201"
                                   [] k = "leave" -> "204"
                                   [] OTHER -> "200"]

NewHttp == [route |-> "none", stage |-> "new", token |-> None, stream |-> None,
            code |-> "default", reply |-> "none"]

\* Replies are told apart by their class; the auth server's own status, passed
\* on, may be of either class of errors.
Classes(a) == CASE a = "ok" -> {"2xx"}
                [] a = "500" -> {"5xx"}
                [] a = "auth status" -> {"4xx", "5xx"}
                [] OTHER -> {"4xx"}

\* The server works on a request or waits for its body.
InProgress == {"body", "handler"}

\* The stages in which the interceptor has not seen the end of the request.
Inside == InProgress \cup {"abandoned"}

\* Streams of an earlier process may be in the table.
HInit ==
    /\ owner \in [Streams -> Users \cup {None}]
    /\ status = [st \in Streams |-> IF owner[st] = None THEN "none" ELSE "LIVE"]
    /\ \A s1, s2 \in Streams : owner[s1] = owner[s2] /\ owner[s1] # None => s1 = s2
    /\ endedAt = [st \in Streams |-> None]
    /\ tagged = [st \in Streams |-> FALSE]
    /\ req = [r \in Requests |-> NewReq]
    /\ mode \in Modes /\ cached = {} /\ up = TRUE
    /\ http = [r \in Requests |-> NewHttp]
    /\ inFlight = 0 /\ timed = [r \in Requests |-> 0] /\ errors = 0

(***************************************************************************)
(* Deviations, as in StreamLifecycle.                                      *)
(***************************************************************************)

\* the gauge is decremented, the timer stopped, when next.handle() completes
SettleOnSuccess(r, ok) ==
    IF ok THEN /\ inFlight' = inFlight - 1
               /\ timed' = [timed EXCEPT ![r] = @ + 1]
    ELSE UNCHANGED <<inFlight, timed>>

\* both in the error and in the final callback
SettleTwice(r, ok) ==
    /\ inFlight' = inFlight - IF ok THEN 1 ELSE 2
    /\ timed' = [timed EXCEPT ![r] = @ + IF ok THEN 1 ELSE 2]

\* the exception filter is left out: nothing is sent
NothingSent(r, class) == http' = http

(***************************************************************************)
(* Answers.                                                                *)
(***************************************************************************)

\* res.sendStatus of the middleware, the result of the handler, or the answer of
\* the exception filter.
Send(r, class) ==
    http' = [http EXCEPT ![r].stage = "done", ![r].token = None, ![r].stream = None,
                         ![r].reply = class]

\* finalize
Settle(r, ok) ==
    /\ inFlight' = inFlight - 1
    /\ timed' = [timed EXCEPT ![r] = @ + 1]

\* tap.error sees the status that res has before the exception filter sets it.
CountError(r, ok) ==
    errors' = IF ~ok /\ http[r].code = "500" THEN errors + 1 ELSE errors

\* What the handler, the pipe or multer ended with: "ok" or an exception.
Outcome(r, a) ==
    /\ Settle(r, a = "ok") /\ CountError(r, a = "ok")
    /\ \E class \in Classes(a) : Send(r, class)

(***************************************************************************)
(* The request arrives and is admitted or refused.                         *)
(***************************************************************************)
Caller(r) == HttpUser(mode, http[r].token)

\* CorsMiddleware answers OPTIONS itself.
Preflight(r) ==
    /\ up /\ http[r].stage = "new"
    /\ Send(r, "2xx")
    /\ UNCHANGED <<vars, server, metrics>>

\* GET /stream/:id has no guard.
Admits(k, tok) == k = "status" \/ HttpUser(mode, tok) # None

Refuse(r) ==
    /\ http' = [http EXCEPT ![r] = [NewHttp EXCEPT !.stage = "done", !.reply = "4xx"]]
    /\ UNCHANGED <<vars, metrics>>

\* Into the interceptor, with the status of a success; only 'create' has a body.
Admit(r, k, tok, st) ==
    LET u == HttpUser(mode, tok) IN
    /\ inFlight' = inFlight + 1
    /\ http' = [http EXCEPT ![r] =
                  [NewHttp EXCEPT !.route = k, !.code = SuccessCode[k],
                     !.token = IF k = "create" THEN tok ELSE None,
                     !.stream = IF k = "status" THEN st ELSE None,
                     !.stage = IF k = "create" THEN "body" ELSE "handler"]]
    /\ CASE k = "end" -> EndStream(r, u, st)
         [] k = "leave" -> LeaveStream(r, u, st)
         [] OTHER -> UNCHANGED vars
    /\ UNCHANGED <<timed, errors>>

Judge(r, k, tok, st) ==
    \/ Admits(k, tok) /\ Admit(r, k, tok, st)
    \/ ~Admits(k, tok) /\ Refuse(r)

\* secretOrKeyProvider is called: a guarded route, a token, and JWKS_URI is set.
ReadsHeader(k, tok) == k # "status" /\ tok # None /\ mode = "jwks"

NeedsKey(k, tok) == ReadsHeader(k, tok) /\ tok \in Token /\ tok.kid \notin cached

\* The promise of secretOrKeyProvider rejects and nobody catches it.
ProcessEnds ==
    /\ up' = FALSE
    /\ UNCHANGED <<vars, mode, cached, http, metrics>>

Receive(r, k, tok, st) ==
    /\ up /\ http[r].stage = "new"
    /\ k = "status" => tok = None
    /\ ~(ReadsHeader(k, tok) /\ tok = Garbled)
    /\ \/ ~NeedsKey(k, tok) /\ Judge(r, k, tok, st)
       \/ /\ NeedsKey(k, tok)
          /\ http' = [http EXCEPT ![r] = [NewHttp EXCEPT !.route = k, !.token = tok,
                                             !.stream = st, !.stage = "key"]]
          /\ UNCHANGED <<vars, metrics>>
    /\ UNCHANGED server

\* JSON.parse throws.
HeaderUnreadable(r, k, tok) ==
    /\ up /\ http[r].stage = "new"
    /\ ReadsHeader(k, tok) /\ tok = Garbled
    /\ ProcessEnds

\* getSigningKey resolves: the auth server has the key and delivers it.
KeyArrives(r) ==
    /\ up /\ http[r].stage = "key"
    /\ http[r].token.kid \in Served
    /\ cached' = cached \cup {http[r].token.kid}
    /\ Judge(r, http[r].route, http[r].token, http[r].stream)
    /\ UNCHANGED <<mode, up>>

\* getSigningKey rejects: no answer, an error, or no such key.
KeyLost(r) ==
    /\ up /\ http[r].stage = "key"
    /\ ProcessEnds

\* cacheMaxAge, cacheMaxEntries
KeyExpires ==
    /\ up
    /\ \E kid \in cached : cached' = cached \ {kid}
    /\ UNCHANGED <<vars, mode, up, http, metrics>>

(***************************************************************************)
(* The body: multer, then ValidationPipe with CreateStreamRequestDto.      *)
(***************************************************************************)
BodyAccepted(r, tg) ==
    /\ up /\ http[r].stage = "body"
    /\ CreateStream(r, Caller(r), tg)
    /\ http' = [http EXCEPT ![r].stage = "handler", ![r].token = None]
    /\ UNCHANGED <<server, metrics>>

BodyRejected(r) ==
    /\ up /\ http[r].stage = "body"
    /\ Outcome(r, "400")
    /\ UNCHANGED <<vars, server>>

\* The client closes in the middle of its upload: multer 1.4 never calls back
\* (external), the interceptor waits for ever.
BodyAbandoned(r) ==
    /\ up /\ http[r].stage = "body"
    /\ http' = [http EXCEPT ![r].stage = "abandoned", ![r].token = None]
    /\ UNCHANGED <<vars, server, metrics>>

(***************************************************************************)
(* The handlers: those of StreamLifecycle, and findStreamById.             *)
(***************************************************************************)
Handle(r) ==
    /\ up /\ http[r].stage = "handler"
    /\ Step(r) \/ DatabaseFails(r)
    /\ IF req'[r].pc = "done" THEN Outcome(r, req'[r].reply)
       ELSE UNCHANGED <<http, metrics>>
    /\ UNCHANGED server

GetStreamStatus(r) ==
    /\ up /\ http[r].stage = "handler" /\ http[r].route = "status"
    /\ \/ Outcome(r, IF status[http[r].stream] = "none" THEN "404" ELSE "ok")
       \/ Outcome(r, "500")
    /\ UNCHANGED <<vars, server>>

\* A command that was on its way when the process ended is executed.
Orphaned(r) ==
    /\ ~up /\ Pending(r)
    /\ LostReply(r)
    /\ Answer(r, "none")
    /\ UNCHANGED <<server, http, metrics>>

-----------------------------------------------------------------------------
Handled(r) ==
    \/ KeyArrives(r) \/ KeyLost(r)
    \/ (\E tg \in BOOLEAN : BodyAccepted(r, tg)) \/ BodyRejected(r) \/ BodyAbandoned(r)
    \/ Handle(r) \/ GetStreamStatus(r)

\* Everything but the arrival of a request that the guard can read.
Onward ==
    \/ \E r \in Requests :
          \/ Preflight(r) \/ Handled(r) \/ Orphaned(r)
          \/ \E k \in Routes, tok \in Brought : HeaderUnreadable(r, k, tok)
    \/ KeyExpires

Offered == Brought \cup {None}

HNext ==
    \/ \E r \in Requests, k \in Routes, tok \in Offered, st \in Streams :
          Receive(r, k, tok, st)
    \/ Onward

HSpec == HInit /\ [][HNext]_hvars

\* The same, but a client sends a request when no other of its user is waiting or
\* being handled.
Free(u) ==
    /\ Alone(u)
    /\ \A r \in Requests :
          http[r].stage \in {"key", "body"} /\ http[r].token \in Token
              => http[r].token.user # u

SerialHNext ==
    \/ \E r \in Requests, k \in Routes, tok \in Offered, st \in Streams :
          (tok \in Token => Free(tok.user)) /\ Receive(r, k, tok, st)
    \/ Onward

SerialHSpec == HInit /\ [][SerialHNext]_hvars

\* The auth server, the database and the body come to an answer, an error or an
\* end; the event loop runs every continuation.
FairSerialHSpec == SerialHSpec /\ \A r \in Requests : WF_hvars(Handled(r))

-----------------------------------------------------------------------------
At(stages) == {r \in Requests : http[r].stage \in stages}

\* The gauge that says "Number of HTTP requests in progress"
\* (metrics.interceptor.ts:41) is too high by the uploads that were abandoned,
\* which it counts for ever, and by nothing else: whatever requests overlap and
\* however they end, it comes down once for each of the others (50, 75).
GaugeDriftsByAbandoned ==
    inFlight - Cardinality(At(InProgress)) = Cardinality(At({"abandoned"}))

\* A request that was admitted and is over is in the histogram once, whatever
\* ended it; one that the guard or the middleware answered is not in it
\* (metrics.interceptor.ts:53, 76).
TimedOnce ==
    \A r \in Requests :
        timed[r] = IF http[r].stage = "done" /\ http[r].route # "none" THEN 1 ELSE 0

\* Every request is answered, unless its client went away or the process ended
\* (jwt.strategy.ts:41-47, stream.service.ts:40-127, 341-375).
EveryRequestAnswered ==
    \A r \in Requests :
        http[r].stage # "new" ~> http[r].stage \in {"done", "abandoned"} \/ ~up
=============================================================================
