# StreamsUp RTC in TLA+

This directory holds TLA+ models of the StreamsUp RTC server, a NestJS application
for live streams: a socket.io gateway that keeps track of who watches what and relays
WebRTC signalling and chat, and an HTTP API for the life of a stream. The models are
checked with TLC on small instances; every safety property that a run finds to hold is also proved
with TLAPS, for every number of users, sockets, streams and requests. What comments of the code say and
the code does not keep is stated too, and a run shows how it fails.

Paths begin with `src/`, the root of the repository; "the gateway" is
`src/src/common/rtc/streams/streams.gateway.ts` and "the service" is
`src/src/domain/stream/stream.service.ts`.

## The system

| Component | State | Operations | Interacts with |
|---|---|---|---|
| Streams gateway, viewer bookkeeping | socket.io rooms `stream-<id>`; in Redis a set `stream:<id>:viewers` of socket ids and a string `stream:<id>:user:<uid>` (EX 3600) naming the counted socket of a user | `handleConnection`, `handleJoin`, `handleLeave`, `handleDisconnect`, `updateViewerCount` | reads the stream row through StreamFacade; socket.io; Redis |
| Viewer-count broadcast | nothing of its own: SCARD of the set | the tail of `updateViewerCount` and of `handleJoin` | Redis adapter: pub/sub between processes |
| Signalling and chat relay | nothing of its own: the rooms | `handleOffer`, `handleAnswer`, `handleIce`, `handleChatMessage`, `viewer-joined` | the rooms; the adapter |
| StreamService, StreamController, StreamFacade | tables `streams`, `stream_tags` | `createStream`, `endStream`, `leaveStream`, `updateStream` (no caller), `find*` (read only) | user service (HTTP, 5 s timeout); MySQL through Prisma |
| WebSocket authentication | `client.data.user` | `WsJwtGuard.canActivate`; `wsAuthMiddleware` (not installed) | JwtService |
| HTTP authentication | key cache of the JWKS client | `JwtStrategy`, `JwtAuthGuard`, `LoginUser` | passport |
| Image upload | objects in S3 | `uploadToS3`, `deleteFromS3` | sharp, S3; no caller at this commit |
| HTTP metrics | gauge, histogram, counter | `MetricsInterceptor.intercept` | every HTTP request |
| Stream tags, CORS, DTOs, modules, bootstrap | none | read-only or wiring | |

What makes each of them correct:

* **Viewer bookkeeping** - the streamer never counts; a viewer counts once, however many
  tabs he has; whoever is in the room counts and whoever counts is in the room; a closed
  socket stops counting; nobody's request disturbs the count of another user.
* **Broadcast** - the last number a room is shown is the size of the set.
* **Relay** - a message reaches the sockets in the room, each once, whichever adapter
  holds them; the signalling messages do not come back to their sender.
* **Life of a stream** - one LIVE stream per user; only the streamer ends his stream, once,
  and for good; what is acknowledged is stored.
* **Authentication** - a handler runs only with a verified `userId`; a valid token is recognised
  at both doors, and as the same user.
* **HTTP requests** - every request is answered, or its client is gone.
* **Upload** - what is stored has the type it is labelled with.
* **Metrics** - the gauge counts the requests in progress, each is timed once, each 5xx is counted.

What is hard here: every handler is asynchronous and nothing is transactional. The handlers
of one socket are not serialised, so its joins and leaves overlap; the three Redis commands
of a join interleave with those of the user's other tabs, served perhaps by another process;
the mapping expires while the viewer watches; a command fails half-way through, or is executed
while its reply is lost; a process dies and Redis keeps what it wrote; socket.io empties
`client.rooms` before it fires `disconnect`; a number read with SCARD is emitted later, through
one of two adapters of the process, which is replaced while sockets connect. A request passes guard,
interceptor, body parser and handler, and each may end it; the guard may have to ask another server for a
key, and a token it cannot read ends the process. The service checks and then writes, and reads and
then writes, in separate database commands. The list with lines is under `hazards` in
`PROJECT.json`.

## The modules

| Module | What it is |
|---|---|
| `StreamsGateway` | the viewer bookkeeping, and its properties |
| `StreamsGatewayProofs` | theorems about it |
| `Audience` | what the bookkeeping promises: an abstract specification |
| `AudienceRefinement` | the mapping from `StreamsGateway` to `Audience` |
| `AudienceProofs` | the proof that it is a refinement |
| `RoomBroadcast` | `StreamsGateway` with the numbers it shows, and the relayed messages |
| `RoomBroadcastProofs` | theorems about it |
| `Tokens` | how a token is found, verified and turned into a user, for HTTP and for sockets (operators only) |
| `SocketAuth` | sockets, their tokens and `WsJwtGuard` |
| `StreamLifecycle` | the life of a stream, and its properties |
| `StreamLifecycleProofs` | theorems about it |
| `HttpApi` | `StreamLifecycle` behind the guard and inside the interceptor |
| `HttpApiProofs` | theorems about its metrics |
| `HttpLifecycleProofs` | theorems about the life of a stream in it, with requests that overlap and without |
| `OnAir` | what the stream service promises to users who wait for their answers: an abstract specification |
| `OnAirRefinement` | the mapping from `StreamLifecycle` to `OnAir` |
| `OnAirProofs` | the proof that it is a refinement, of the handlers alone and behind the guard |
| `MCStreamsGateway`, `MCRoomBroadcast`, `MCStreamLifecycle`, `MCHttpApi` | instances for TLC: whose the sockets and streams are, which tokens there are, symmetry |

`RoomBroadcast` and `AudienceRefinement` extend `StreamsGateway`; `HttpApi` and `OnAirRefinement` extend
`StreamLifecycle`, and `HttpApi` instantiates `Tokens`. A model has a section of *deviations*: wrong versions of single decisions
(a dropped comparison, a forgotten command). No specification uses them; each property was
seen to fail when one of them takes the place of the definition it deviates from
(`mutants` in `PROJECT.json`).

### StreamsGateway

A handler that runs is a task: `task[t]` is a record of the kind of handler, its socket and
stream, the local `oldSocketId`, and `pc`, the reply it awaits. One action is "the store
executes the awaited command, and the handler runs to its next `await`", which is the grain of
the event loop; tasks interleave freely, since the Redis adapter lets any number of processes
serve the sockets. Requests take a slot of `Calls`; the cleanup that `handleDisconnect` starts
for a room has the slot `<<socket, stream>>`.

| Code | Actions |
|---|---|
| `handleConnection` | `Connect` |
| `handleJoin`, `updateViewerCount(.., true)` | `JoinRequest`, `JoinLookup`, `AddGet`, `AddSRem`, `AddSAdd`, `AddSet`, `JoinCounted`, `JoinReply` |
| `handleLeave`, `updateViewerCount(.., false)` | `LeaveRequest`, `LeaveLookup`, `RemoveSRem`, `RemoveGet`, `RemoveDel`, `LeaveCounted` |
| `handleDisconnect` | `Disconnect`, `DisconnectLookup`, `RemoveSRem`, `RemoveGet`, `RemoveDel`, `DisconnectCounted` |
| a rejected promise, with or without its command executed | `Fail`, `LostReply` |
| `EX 3600` | `Expire` |
| the death of a process | `Crash` |

`RoomsAtDisconnect` says whether `client.rooms` still lists the rooms when `disconnect` fires.
It does not in socket.io 4.8.1 of `yarn.lock` (`_onclose` leaves all rooms, replaces `join` by a no-op, and
then emits `disconnect`); the handler is written as if it did. Every run but one has it `FALSE`. `gateway_faults`
has it `TRUE`, so that the code after line 150 runs and is checked. In `Spec` that only adds behaviours: a callback
whose lookup fails at once leaves the stores as if it had never run. No property depends on its being `TRUE`, and the
theorems hold for both values.

The environments, from the harshest to the kindest. The code enforces none of the restrictions: they say
under which use of the server a property is claimed.

* `Spec` - anything interleaves, mappings expire, commands fail, processes die.
* `ReliableSpec` - no failing command, no crash.
* `WithinHourSpec` - moreover no mapping expires; handlers of one user overlap as they like. A violation is shown in it.
* `TurnSpec` - `ReliableSpec` in which the handlers of one user on one stream do not overlap: he waits for his
  answer before he asks again, with any of his sockets. Mappings expire at any moment, in the middle of a
  handler too, and a socket may close in the middle of its own join. Theorems are about it.
* `CalmSpec` - `TurnSpec` within the hour of the mappings.
* `OrderlySpec` - moreover a socket closes only when none of its user's requests is pending. Only violations are
  shown in it: what fails here fails in the kindest use.

Abstractions: ids are atoms. A request the guard or the `Number.isNaN` test rejects changes
nothing (the latter closes the socket, which `Disconnect` may do at any time). A stream row's
owner never changes and rows are never deleted, in any code, so `Owner` is a constant; a missing
row is a failed lookup, `Fail`. `client.data.user` is the payload of the handshake token, the
same for every event of a socket: `UserOf` (`SocketAuth` is about how it gets there). The numbers SCARD
returns and the messages are in `RoomBroadcast`.

### Audience and its refinement

`Audience` knows seats and requests only: who has a seat in a stream, and what each user is waiting for.
A user has one request per stream at a time; a join first yields the seat of the user's other socket, then
takes one; nobody is answered before his seat is as he asked. `AudienceRefinement` maps the seats to the Redis
set and the request to the handler that runs (`AskedOf`). The mapping needs `CalmSpec`, in which a user has at
most one handler per stream and no mapping expires: with overlapping requests the promise is broken
(`gateway_two_tabs_race`), and by a tab that joins after the hour, which finds no mapping. `SET`,
`DEL`, `GET`, `SCARD` and the rooms are stutters of `Audience`, `SREM` and `SADD` are its `Yield`, `Take` and
`Vacate`, or stutters if they change nothing.

### RoomBroadcast

It adds to each socket the last number shown for each stream, and to each process the queue of SCARD replies,
since a process handles the replies of its one Redis connection in the order of the commands. The
`card` and `reply` stages of a handler become two actions: `SCard` reads the number, `HandleReply` emits it.

A process has two adapters. `main.ts` (31-38) installs one when the socket.io server is created, and `afterInit`
(87-115) awaits Redis and then replaces it (`Replace`), before or after sockets have connected, in the middle of handlers
and with counts on their way; a socket accepted before keeps the first. So `GivenTo[s]` is the adapter that holds a
socket, which connects when its process has that one, and `Current(p)` the one `server.to` uses in the process `p`. An
adapter emits to its own sockets at once and publishes; each other adapter that has subscribed reads what it
published, in order (`chan`, `Deliver`).

| Code | Actions |
|---|---|
| the awaits before the count | `SilentStep`, which is the actions of `StreamsGateway` |
| requests, connections | `Asking`: those of `StreamsGateway`, with any overlap |
| `afterInit` after its await | `Replace` |
| `sCard` in `updateViewerCount` and `handleJoin` | `SCard` |
| what follows it, `viewer-count` | `HandleReply` |
| `handleOffer`, `handleAnswer`, `handleIce`, `handleChatMessage` | `Relay` |
| the adapter's subscription | `Deliver` |

The bookkeeping in it is `ReliableSpec`: requests of one user overlap as they do in the gateway. The `SCARD` of
`handleJoin` uses the id as the client spelled it (236); under an odd spelling it reads a set nobody writes, so it
returns 0. `Odd` is the set of sockets whose clients may do so. `LastCountRight` asks for the exact size of the set of
every other socket. Such a client itself is told 0 when it joins, until the next broadcast, although the
comment (235) says that the streamer is told the current number. `LastCountRight` has
`OneProcess` as a premise: over several processes an older number may arrive last. One message is followed at a time
(`relay`: who got it how often, who is due it), sent when no count and no reply is on its way; counts follow it. The
announcements `joined` and `viewer-joined`, emitted twice each at the end of a join, are left out, and so are failing
commands, after which no number is broadcast.

### Tokens and SocketAuth

A token is what matters of it: its user, the algorithm and the key id of its header, whether the configured key verifies it
and it has not expired, whether it has a `sub`, and what its `userId` is. `Garbled` is one whose header is no JSON, `Served` the
key ids the auth server has. `HttpUser` is `JwtStrategy` (key and algorithm, `sub` and
`userId` present, `Number(userId)`), `WsUser` is `WsJwtGuard` (`userId` must be a number). In `SocketAuth` a socket
connects with anything or nothing in one of the three places of the handshake, sends events and lives to see its token expire.

### HttpApi

A request goes through the stages of the code:

| Code | Actions |
|---|---|
| `CorsMiddleware` answers `OPTIONS` | `Preflight` |
| `JwtAuthGuard`, `JwtStrategy` | `Receive`, `HeaderUnreadable`, `KeyArrives`, `KeyLost`, `KeyExpires`; `Admit` and `Refuse` are their outcomes |
| `MetricsInterceptor.intercept` | `Admit` (gauge, timer), `Outcome` (`tap.error`: `CountError`; `finalize`: `Settle`) |
| multer and `ValidationPipe`, for `POST /stream` | `BodyAccepted`, `BodyRejected`, `BodyAbandoned` |
| the handlers of the guarded routes | `Handle`, which is a step of `StreamLifecycle` |
| `GET /stream/:streamId` | `GetStreamStatus` |
| commands under way when the process ends | `Orphaned` |

The order is that of Nest: the guard refuses before the interceptor runs, and the status of the route is set before
it; the exception filter sets the status of an error after `tap.error` and `finalize`. In mode `jwks` the strategy reads
the header of the token to find the key id, and a request whose key is not in the cache (`cached`, by key id) waits
for the auth server. The function that does so is asynchronous and nobody catches its rejection (`jwt.strategy.ts`,
41-47), so Node ends the process (`ProcessEnds`) if the header is no JSON (`HeaderUnreadable`), whatever is cached, and
if the key cannot be had: no answer, an error, or no key of that id though another is cached (`KeyLost`). Status codes are told apart by
their class. The table may hold streams of an earlier process, one per user at most.

`HSpec` lets any requests overlap, as the server does. `SerialHSpec` is `HSpec` in which a client sends a request
only when its user has no other under way.

What is external here is the behaviour of libraries at the versions of `yarn.lock`: Nest 11.1, `@nestjs/jwt` 11,
`passport-jwt` 4, socket.io 4.8, `@socket.io/redis-adapter` 8.3, multer 1.4.5-lts.2.

### StreamLifecycle

`req[r]` is an HTTP request: its kind, user, stream, the awaited call, and its answer. The rows
are `owner`, `status`, `endedAt`, `tagged`. One action is one call to the user service or to the
database. A failing call (`DatabaseFails`) has been executed or not, and nothing before it is undone.

| Code | Actions |
|---|---|
| the routes of StreamController | `CreateStream`, `EndStream`, `LeaveStream` |
| `findUserByUserId` | `AuthConfirms`, `AuthRefuses` |
| `createStream` | `CheckLive`, `Insert`, `Tag` |
| `endStream` | `EndUpdate` |
| `leaveStream` | `LeaveFind`, `LeaveFinish` |

`endedAt[st]` is the request whose clock reading is stored, so "the end time moved" is "another
request overwrote it". Each Prisma call is one atomic command: `update` with its `where` changes the row
that satisfies it when it executes. On MySQL Prisma 6.8 may issue several statements for it, and the
acknowledgement of one end only (`EndAckedOnce`) rests on their acting as one. Titles, categories and descriptions are left out, and the tags are one
bit: inserted or not. `SerialSpec` is `Spec` in which a user sends a request only when he has
none pending.

### OnAir and its refinement

`OnAir` has no awaits: a user has one stream on air at most, which goes on air and off air in one step, each on a
request of its streamer that has not had its effect yet, and once off air is past. `OnAirRefinement` maps the streams on
air and past to the rows of a user by their `status`, and what he waits for to his pending request. `Insert` is
`GoOnAir`, and the tags come later or not at all; `EndUpdate` and `LeaveFinish` are `GoOffAir`; so are the commands
of a failing call that were executed. The mapping needs users who wait for each answer: with two creates of one
user at once the promise is broken (`lifecycle_two_live`).

## The runs

`CHECK_DEADLOCK FALSE` is in the configurations whose system may stop: all sockets are closed (an id
is never reused), or all requests are answered. `SocketAuth` never stops.

| Run | Specification, instance | Result |
|---|---|---|
| `gateway_faults` | `Spec`, rooms listed at disconnect; host, alice, bob with a socket each, 1 stream, 2 requests at once | `TypeOK`, `HostExcluded`, `NoForeignUncount` hold |
| `gateway_reliable` | `FairReliableSpec`; two sockets of alice, 1 stream, 2 requests at once | `LoneViewerCounted`, `LoneViewerSettles` hold |
| `gateway_calm` | `FairCalmSpec`; two sockets of alice, a stream of the host and one of alice, 2 requests at once | `OneCountedPerUser`, `KeyNamesCounted`, `AckHonest` hold; it implements `Audience` (`ImplementsAudience`) and answers every request (`EveryRequestServed`) |
| `gateway_disconnect` | `OrderlySpec`, two tabs | `NoGhost` **violated** |
| `gateway_two_tabs_race` | `WithinHourSpec`, two tabs | `OneCountedAtRest` **violated** |
| `gateway_two_tabs_leave` | `OrderlySpec`, two tabs, 1 request at once | `RoomUserCounted` **violated** |
| `room_broadcast` | `BSpec`; a process whose adapter is replaced, a viewer on a socket of each adapter, 1 stream, 2 requests at once, offers and chat | `LastCountRight`, `RelayedOnce`, `RelayOnItsWay` hold |
| `lifecycle_races` | `FairSpec`; 2 users, 1 row, 3 requests | `TypeOK`, `EndAckedOnce`, `AckTruthful`, `EndedByOwnerForGood`, `EndTimeMovesInRaceOnly`, `DepartureEnds` hold |
| `lifecycle_end_time` | `Spec`; 1 user, 1 row, 3 requests | `EndTimeStable` **violated** |
| `lifecycle_two_live` | `Spec`; 1 user, 2 rows, 2 requests | `OneLivePerUser` **violated** |
| `http_api` | `FairSerialHSpec`; 2 users, 2 rows, 2 requests, both modes | `OneLivePerUser`, `GaugeDriftsByAbandoned`, `TimedOnce`, `EveryRequestAnswered` hold; it implements `OnAir` (`ImplementsOnAir`) |
| `socket_jwks` | `Spec` of `SocketAuth`; 1 socket, every token of 2 users, garbled and blank ones | `ValidTokenRecognised` **violated** |

Why the bounds are enough. Streams do not share keys or rooms, so one stream shows every
interleaving of the bookkeeping; the second one of `gateway_calm`, of which alice is the streamer, lets her
be viewer and streamer at once, on the same sockets. Two requests at once are what a race between
two tabs, or between a join and a leave of one, takes; the slots are reused, so sequences of
requests are of any length. Sockets are the only bound on histories: two of one user are an old
and a new tab. In the lifecycle, three requests give create, end and leave of one stream in every
overlap, and `DepartureEnds` and `EndTimeMovesInRaceOnly` a departure racing an end.

The instance of `gateway_faults` has one socket per user, so a second tab meets the faults in the theorem only;
`gateway_reliable` and `gateway_calm` have two. Symmetry is declared where it is sound: the slots of requests, and in
`gateway_faults` the two viewers with their sockets. `KeyNamesCounted` and `AckHonest` are run within the hour of the
mappings, and proved (`MappingsHonest`, `AcksHonest`) with mappings that expire at any moment.

In `room_broadcast` the two viewers and the two requests give overlapping joins and leaves, of one viewer
too, whose SCARDs and replies are in every order; each adapter has a socket and reads the other, and the
replacement comes at every moment that the sockets allow: alice connects before it, bob after it.
`Backlog = 1` is how many messages an adapter may lag behind: a handler then waits, which the code does not.
Two replies may wait in the process, and the set may change while a count is on its way; several counts
that follow each other in one channel are left to the theorem `LastCountCorrect`, which has any `Backlog`.
`offer` stands for the three signalling events, whose code is the same, and handlers move members in and out
while a message is on its way. `Odd` is empty, so that the numbers of both viewers are checked; the theorem
has any `Odd`.

In `http_api` two requests suffice because the table
starts with any streams of an earlier process: one ends or leaves a stream, the other creates, ends, leaves or asks, of the
same or of the other user. `Brought` holds the tokens an RS256 auth server issues for each user, one with HS256 and a
numeral, one whose key the server does not have and one that cannot be read, so that each mode admits and refuses some and
each way to end the process is taken; `Requests`, each used once, bounds the histories.

The theorems below hold for any sets, and so for any of these instances. Two bounds are in the specification `BSpec`
itself, and its theorems are about runs within them: `Backlog`, for any value (an adapter that lags further in some run
does so within some larger `Backlog` up to any moment, so no invariant can fail for it), and the one relayed
message at a time, sent when no count and no reply is on its way.

### What the violated properties show

1. `gateway_disconnect`. The comment of `handleDisconnect` (139-140) promises the cleanup of the
   rooms for clients that never sent `leave`. It reads `client.rooms` (148), which socket.io has
   emptied: the callback never runs and the socket stays in the set, which has no expiry. The
   count shown to the streamer only ever grows by viewers who close the tab, until the same user
   joins again within the hour.
2. `gateway_two_tabs_race`. GET, SREM, SADD and SET are four commands. Two tabs that join at once
   both read the mapping first; neither removes the other.
3. `gateway_two_tabs_leave`. The second tab replaces the first in the set. When it leaves, the
   mapping is deleted and the first tab, still in the room, is in no set: the user watches uncounted.
4. `lifecycle_two_live`. SELECT and INSERT are separate and no unique constraint backs the
   check: a double click gives a user two LIVE streams.
5. `lifecycle_end_time`. A departure reads the row (343-346), sees that it is not FINISHED (355), and updates it by its
   id alone (357). An end that comes in between has its end time overwritten, though a departure is to leave a finished
   stream as it is (367-370). `EndTimeMovesInRaceOnly` says how far this goes: only departures that had read the row
   before it was ended can do so, each of them once.
6. `socket_jwks`. `WsJwtGuard` (57) calls the synchronous `jwtService.verify`. With `JWKS_URI` set, `AuthModule`
   (24) configures an asynchronous key provider, for which `@nestjs/jwt` throws: no event of any socket passes,
   whatever its token, although the gateway's comment (181) says a valid token suffices. With a shared
   secret the property holds (`KeyAtHand` is the only difference).

### What the properties that hold do not say

The models also show the following. Each is a step or two beyond a property that holds, and the properties
are stated so as not to hide it.

* A mapping lives for an hour and is not renewed while its user watches (397). A second tab opened after that finds
  nothing to remove, and the user counts twice without any overlap. `OneCountedPerUser` and `ImplementsAudience` are
  therefore claimed within the hour only; under `TurnSpec` they fail.
* A leave compares the mapping and deletes it in two commands (401-403). A join of that socket in between loses the
  mapping it has just written, within its hour; his next tab counts in addition.
* `handleLeave` leaves the room after its awaits (284), `handleJoin` enters it before its own (228). When both run for
  a socket, it can end in the set and out of the room: counted, and sent nothing. `LoneViewerCounted` is the other half.
* A leave that overlaps a join of the same user may uncount him before he is told `joined`: `AckHonest` is about
  handlers that do not overlap.
* A socket that closes in the middle of its join is counted until its user joins again within the hour.
* An odd spelling of the id makes `handleJoin` (236) tell its client 0.
* The gauge goes down in `finalize` (73-76) of the interceptor. When a client closes in the middle of its upload, multer
  never calls back and the request stays in the "number of HTTP requests in progress" (41) for ever.
  `GaugeDriftsByAbandoned` says that the gauge is too high by exactly these.
* `tap.error` of the interceptor (59-72) runs before Nest's exception filter sets the status of the answer (`CountError`):
  `res.statusCode` is still the 200, 201 or 204 of the route, `status >= 500` is never true and `http_errors_total`,
  "Number of HTTP 5xx errors" (34), stays at zero; the histogram has the failed request under the status of a success.
* One token whose header cannot be read, or whose key cannot be had, ends the process with all its requests:
  `EveryRequestAnswered` excuses them.

### Fairness

The gateway has weak fairness of each task's next step: a reliable store answers every command,
and the event loop runs every continuation. Nobody is obliged to connect, ask or close. The
lifecycle has weak fairness of "the awaited call is answered or fails", per request: the HTTP
client gives up after 5 s, and the database is assumed to answer or to reject. Nothing is fair
about requests arriving. `RoomBroadcast` is checked for safety only. `HttpApi` has weak fairness of
"the stage a request is in comes to an end", per request: the auth server delivers a key or an error, a body is
read, refused or given up, and a handler is as in the lifecycle. A stage with several ends may always take the same one.
Safety runs use no fairness.

## The proofs

All theorems hold for any sets of users, sockets, streams and requests (empty or infinite; of the
HTTP requests of `HttpApi` there are finitely many, since a gauge counts them). The assumptions are the `ASSUME`s of the modules: the constants have their types, Redis's nil is no
socket id, the slots of requests are not those of disconnects, the null is no id.

**Gateway.** `TypeOK` is inductive. `HostExcluded` is not: it needs that no handler of the streamer
is beyond the stream row inside `updateViewerCount`. `NoForeignUncount` needs that a mapping
names a socket of the user it is for, and so does the `oldSocketId` a join has read. `KeysInv`
is the conjunction; it is inductive under `Next` (`NextKeys`), with one lemma for the effect of
a handler (`HandlerKeys`) and one case per other action.

`LoneViewerCounted` adds `SlotsInv`: a slot of a disconnect holds only the cleanup of its own
socket and stream, a task belongs to a socket that was connected, and a socket that is not
connected is in no room. `OthersKeepAccounted` and `OwnStepsAccount` then split a step by whether
it is one of the socket's own handlers.

When users take turns the argument is a rely-guarantee one. `TurnInv` says that a user has at most one handler per stream
(`NoOverlap`), that his mapping names a counted socket or nothing when he has none (`KeyNamesCounted`), and for his
handler what remains of that at each await (`Kept`): from SADD on the new socket is counted, before DEL the mapping names
the socket that has just been removed or nothing. Each of these facts survives the expiry of the mapping at that very
await. `HandlerFrame` shows that no one else touches his keys, `OwnKept` that his own handler goes from stage to stage.
Within the hour `CalmInv` says more: the mapping names the one counted socket (`UserKeyExact`), and `Progress`, in the
place of `Kept`, how far that is true at each await; before SREM the old socket is the only one that can be counted,
before SADD none but the new one is, before SET the new one is, and so on (`OwnProgress`). `UserKeyExact` is a part of the
invariant and no claim about the server: after the hour it is false.

| Theorem | Of | States |
|---|---|---|
| `TypeCorrect`, `KeysCorrect` | `Spec` | types; the invariant of the keys |
| `HostNeverCounted` | `Spec` | `HostExcluded` |
| `NobodyUncountsOthers` | `Spec` | `NoForeignUncount` |
| `LoneViewersCounted` | `ReliableSpec` | `LoneViewerCounted` |
| `TurnsCorrect`, `MappingsHonest`, `AcksHonest` | `TurnSpec` | `TurnInv`, `KeyNamesCounted`, `AckHonest` |
| `CalmCorrect`, `CalmOneCount` | `CalmSpec` | `CalmInv`, `OneCountedPerUser` |
| `CalmImplementsAudience` | `CalmSpec` | `ImplementsAudience` |
| `AudienceOneSeat`; `CalmOneSeat` | `Promise!Spec`; `CalmSpec` | `Promise!OneSeat` |

**Refinement.** `AskedExact` follows from `CalmInv`: what a user has asked is the request of his one task, or nothing.
So a step changes it only by ending the task (`StepAsked`), and an arrival only for a user at rest (`ArrivalAsked`).
`StepPromised` maps the awaits: the SREM of a join is `Yield`, its SADD is `Take` (or nothing, for a socket that has the
seat already), the SREM of a leave or a disconnect is `Vacate`, the end of a handler is `Answer`; other steps are stutters.
That a leave is answered truly needs one thing more than `CalmInv`: from its SREM on the socket is not in the set
(`SeatLeft`, inductive because only a join of the same user could put it back).

**Broadcast.** A queue of replies or of an adapter is a sequence that grows at its end and is read at its head; the first
lemmas of `RoomBroadcastProofs` say which messages, and how many of them, are in it after that. On them rest two arguments.

*A relayed message.* There is one at a time, so `RelayInv` can say where its copies are: an adapter has at most one
of them to read (`OneMessage`); a socket whose adapter has one has not got the message yet, one that got it got it
once (`GotOnce`), and the sender of a signalling message is left out in every copy (`LeftOut`); whoever is due
the message is in its room, and his adapter has a copy (`DueInRoom`). A socket's adapter never changes, it reads when the
socket is connected (`AdaptersInv`: whoever is in a room is held by an adapter that has subscribed), and whoever is
in the room when a copy is read is served from it.

*The last number.* At rest means that nothing is asked and no count is on its way, but the last number was decided
long before: it is the SCARD of the last handler that changed the set. `RepliesAwaited` says that the replies in the queue
of a process are those of handlers that await them, each once. `LastInv` follows a change of the set until everyone has
been told: either a handler of the stream is yet to count (`Uncounted`), or the right number is the last reply in the
queue, or the last count on the way to an adapter (`EndsRight`), or it is shown. Because one connection answers in the order
of the commands, what follows the right number is itself right; the replies that only the joining client is shown are
told apart from those that are broadcast (`BroadcastsFor`), since overlapping joins of one socket mix them. All counts of
a process come through its present adapter (`CountsFrom`), and when it is replaced nothing that the old one published is
misread (`ReplaceKeepsLast`): its counts are still on their way to the new one, and no right number is overtaken. With several
processes the same argument fails where their two queues meet, which is why `OneProcess` is a premise.

| Theorem | Of | States |
|---|---|---|
| `RelayCorrect`, `NobodyGetsItTwice`, `NobodyMissesIt` | `BSpec` | `RelayInv`, `RelayedOnce`, `RelayOnItsWay` |
| `LastCountCorrect` | `BSpec` | `LastCountRight` |
| `BroadcastIsReliable` | `BSpec` | `ReliableSpec`: the bookkeeping inside it is that of `StreamsGateway` |

**Lifecycle.** `LifeInv` says for each await what the request is about (`ReqPlaced`: a leave that
goes on to its UPDATE has read that the row is its user's; rows never change hands, so it still is) and
for each answer the facts that make it stay true (`AckHolds`). `SerialInv` adds `OneAtATime`, and that what a
check or a select has read still holds at the command that uses it. A call that is cut off (`CutOff`: executed or not, answered with
500 or not at all) stands for `DatabaseFails` and for `Orphaned`, so that the same lemmas serve both specifications.

| Theorem | Of | States |
|---|---|---|
| `LifeCorrect`, `LifeTypes` | `Spec` | `LifeInv`, `TypeOK` |
| `OneAcknowledgedEnd`, `AcknowledgementsHold`, `EndedOnlyByOwner`, `EndTimeMovedByRacersOnly` | `Spec` | `EndAckedOnce`, `AckTruthful`, `EndedByOwnerForGood`, `EndTimeMovesInRaceOnly` |
| `SerialCorrect`, `SerialOneLive`, `SerialEndTime` | `SerialSpec` | `SerialInv`, `OneLivePerUser`, `EndTimeStable` |

**HTTP.** `HttpInv` gives the requests their types, says that a request has a route from the guard on (`Fits`), and
says that the gauge counts the requests whose end the interceptor has not seen, and contains `TimedOnce`. `RequestMoves` reduces a step to one request: the gauge must change by its entry
or exit, and its timer must stop when the interceptor has seen its end; then there is one lemma per way in or out.

| Theorem | Of | States |
|---|---|---|
| `HttpCorrect`, `GaugeDrift`, `ObservedOnce` | `HSpec` | `HttpInv`, `GaugeDriftsByAbandoned`, `TimedOnce` |
| `HttpLifeCorrect` | `HSpec` | `HttpLifeInv` |
| `HttpEndTime`, `HttpAcknowledgementsHold`, `HttpEndedByOwner` | `HSpec` | `EndTimeMovesInRaceOnly`, `AckTruthful`, `EndedByOwnerForGood` |
| `ServedCorrect`, `HttpOneLive` | `SerialHSpec` | `ServedInv`, `OneLivePerUser` |

What is proved of the handlers alone does not carry over to `HSpec` by itself: the table may be filled at the start, a
request is admitted long after its client sent it, and the last commands come from a process that has died. With any
overlap it takes only that a request which waits for its body has a caller (`CallersKnown`). For users who wait for their
answers `TurnInv` closes the gap: a request that waits for its key or its body has a token, and nobody else of the token's user is
waiting or being handled (`HasTurn`). So `OneAtATime` holds when it comes to its handler, and `SerialInv` is invariant here too
(`NextServed`; `HandlerTurns`, `ArrivalTurns` and `OutsideTurns` are the three ways in which a step meets the turns).

**OnAir.** `HandlingOnAir` maps every step of a handler, whole or cut off, and both refinements use it. At an INSERT the user has no
LIVE row (`ChecksHold`) and the new id is in no row (`InsertedRow`); at an UPDATE the row is the one that its user has on
air (`FinishedRow`, with `OneLivePerUser`); and since a user has one request at a time, the step changes only what he waits for
(`AskedAfter`). `ArrivalOnAir` maps arrivals to `Ask`; all that guard, interceptor and body do besides is a stutter.

| Theorem | Of | States |
|---|---|---|
| `SerialImplementsOnAir` | `SerialSpec` | `ImplementsOnAir` |
| `HttpImplementsOnAir` | `SerialHSpec` | `ImplementsOnAir` |
| `OneOnAirKept` | `Promise!Spec` | `Promise!OneOnAir` |

**Only model-checked**: the liveness properties `LoneViewerSettles`, `EveryRequestServed`, `DepartureEnds` and
`EveryRequestAnswered`: liveness under fairness and ENABLED are beyond this prover, as are induction over
data and recursive operators, of which these modules have none. Every invariant, action property and refinement
that a passing run checks is stated by a theorem. The inductive invariants were themselves checked with TLC on small
instances before they were proved.

## Not modelled

* `StreamService.updateStream`, the image upload (`UploadService`, its facade, `ImagesService`) and the optional file
  interceptor: no route and no other code calls them at this commit. `wsAuthMiddleware` and the test guard are not installed.
* The reading endpoints other than `GET /stream/:streamId`, and the `my-streams` event: they change nothing.
* `joined` and `viewer-joined`; wording and logging; which bodies are valid; the headers of CORS.
* Numbers from several processes. `RoomBroadcast` can be given several, but its count properties speak of one: then the
  replies of one Redis connection come in order. A reconnecting Redis client that queues commands only delays them.
* Failing commands and expiring mappings in `RoomBroadcast`: a count that could not be read is not broadcast, so nothing is promised.
* A process that starts again after it ended: `StreamsGateway` has what Redis keeps (`Crash`), `HttpApi` what the database keeps.

## Plan

1. A specification of a room's number over several processes: what is still true of the numbers shown.
2. Theorems about `Tokens`: a token that both doors accept names the same user at both.
3. The upload, when a route calls it.
