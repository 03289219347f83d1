--------------------------- MODULE RoomBroadcast ---------------------------
(***************************************************************************)
(* What the members of a room are sent: the viewer counts that the handlers *)
(* of StreamsGateway read with SCARD and emit, and the signalling and chat  *)
(* messages that other handlers relay.  The announcements 'joined' and     *)
(* 'viewer-joined', and commands that fail, are left out.                  *)
(*                                                                         *)
(* An adapter of @socket.io/redis-adapter emits to the sockets it holds at *)
(* once and publishes to Redis, where every other adapter reads, in order, *)
(* what one adapter published, and skips its own.  main.ts gives a process *)
(* its first adapter, afterInit awaits Redis and then replaces it by that  *)
(* of the gateway; the sockets accepted before keep the first, which goes  *)
(* on reading.  A process handles the replies of its one Redis connection  *)
(* in the order in which Redis executed the commands.                      *)
(***************************************************************************)
EXTENDS StreamsGateway, Sequences

CONSTANTS
    Processes,
    GivenTo,  \* GivenTo[s]: the adapter that holds the socket s
    Odd,      \* the sockets whose clients may spell a stream's number as "07"
    Relays,   \* bound: the relayed events; the signalling ones have one code
    Backlog   \* bound: how far an adapter may lag behind another

\* A process has the adapter of main.ts, and later that of the gateway too.
Adapters == Processes \X {"main", "gateway"}

\* The process that serves s.
ServedBy(s) == GivenTo[s][1]

ASSUME GivenToAssumption == GivenTo \in [Sockets -> Adapters]
ASSUME OddAssumption == Odd \subseteq Sockets
ASSUME RelaysAssumption == Relays \subseteq {"offer", "answer", "ice", "chat-message"}

VARIABLES
    shown,    \* shown[s][st]: the last 'viewer-count' emitted to s while in the room
    replaced, \* the processes whose gateway has replaced the adapter
    replies,  \* replies[p]: SCARD replies, <<task, number>>, in order
    chan,     \* chan[a][b]: what a has published and b has not read
    relay     \* the last relayed message: who got it how often, who is due it

sent == <<shown, replaced, replies, chan, relay>>

(***************************************************************************)
(* Deviations, as in StreamsGateway.                                       *)
(***************************************************************************)

\* the count is broadcast after a join only
BroadcastsAfterJoin(t) == task[t].kind = "join"

\* server.to instead of client.to
ExceptNobody(k, s) == {}

\* server.local, client.local
PublishNothing(a, m) == chan

(***************************************************************************)
(* The decisions of the code.                                              *)
(***************************************************************************)

\* updateViewerCount broadcasts whether it added or removed.
Broadcasts(t) == task[t].pc = "card"

\* The SCARD of updateViewerCount uses the number of the id, that of handleJoin
\* the id as the client spelled it: nobody writes the set of "stream:07:viewers".
Counts(t) ==
    {Cardinality(viewers[task[t].stream])}
        \cup (IF task[t].pc = "reply" /\ task[t].sock \in Odd THEN {0} ELSE {})

\* client.to(room) leaves the sender out, server.to(room) does not.
Except(k, s) == IF k = "chat-message" THEN {} ELSE {s}

\* The adapter that the namespace has in the process p.
Current(p) == <<p, IF p \in replaced THEN "gateway" ELSE "main">>

\* The adapters that have subscribed.
Reading == {b \in Adapters : b[2] = "main" \/ b[1] \in replaced}

\* client.to uses the adapter of the socket, server.to that of the namespace.
Through(k, s) == IF k = "chat-message" THEN Current(ServedBy(s)) ELSE GivenTo[s]

\* Every other adapter that has subscribed is to read m.
Publish(a, m) ==
    [chan EXCEPT ![a] =
        [b \in Adapters |-> IF b \in Reading \ {a} THEN Append(@[b], m) ELSE @[b]]]

\* The sockets that the adapter a emits m to.
Receivers(a, m) ==
    {s \in Sockets : GivenTo[s] = a /\ m.stream \in rooms[s]} \ m.except

CountMessage(st, n) == [what |-> "count", stream |-> st, n |-> n, except |-> {}]

RelayMessage(k, st, s) == [what |-> k, stream |-> st, n |-> 0, except |-> Except(k, s)]

NoRelay == [what |-> "none", stream |-> None, from |-> None,
            got |-> [s \in Sockets |-> 0], due |-> {}]

Tell(S, st, n) ==
    [s \in Sockets |-> IF s \in S THEN [shown[s] EXCEPT ![st] = n] ELSE shown[s]]

\* Whoever has received the relayed message, or left the room, is not due it.
Got(a, m, r) ==
    [r EXCEPT !.got = [s \in Sockets |-> @[s] + IF s \in Receivers(a, m) THEN 1 ELSE 0],
              !.due = @ \ Receivers(a, m)]

\* The adapters that have yet to read a message of the kinds K.
OnItsWayTo(K) ==
    {b \in Adapters : \E a \in Adapters : \E i \in DOMAIN chan[a][b] : chan[a][b][i].what \in K}

\* Whoever has left the room shows no number and is due no message; a message
\* that everyone has read is forgotten.
Here(r) ==
    IF OnItsWayTo(Relays) = {} THEN NoRelay
    ELSE [r EXCEPT !.due = {s \in @ : r.stream \in rooms'[s]}]

ShownIn(f) ==
    [s \in Sockets |-> [st \in Streams |-> IF st \in rooms'[s] THEN f[s][st] ELSE None]]

BInit ==
    /\ Init
    /\ shown = [s \in Sockets |-> [st \in Streams |-> None]]
    /\ replaced = {}
    /\ replies = [p \in Processes |-> <<>>]
    /\ chan = [a \in Adapters |-> [b \in Adapters |-> <<>>]]
    /\ relay = NoRelay

(***************************************************************************)
(* The steps of StreamsGateway that send nothing.                          *)
(***************************************************************************)
SilentStep(t) ==
    /\ \/ JoinLookup(t) \/ LeaveLookup(t) \/ DisconnectLookup(t)
       \/ AddGet(t) \/ AddSRem(t) \/ AddSAdd(t) \/ AddSet(t)
       \/ RemoveSRem(t) \/ RemoveGet(t) \/ RemoveDel(t)
    /\ relay' = Here(relay) /\ shown' = ShownIn(shown)
    /\ UNCHANGED <<replaced, replies, chan>>

\* A socket is held by the adapter that its namespace has when it connects.
Asking ==
    /\ \/ \E s \in Sockets :
             \/ GivenTo[s] = Current(ServedBy(s)) /\ Connect(s)
             \/ Disconnect(s)
       \/ \E c \in Calls, s \in Sockets, st \in Streams :
             JoinRequest(c, s, st) \/ LeaveRequest(c, s, st)
    /\ relay' = Here(relay) /\ shown' = ShownIn(shown)
    /\ UNCHANGED <<replaced, replies, chan>>

\* The rest of afterInit, once both of its clients have connected.  Nothing says
\* that the process has accepted no socket by then.
Replace(p) ==
    /\ p \notin replaced
    /\ replaced' = replaced \cup {p}
    /\ UNCHANGED <<vars, shown, replies, chan, relay>>

(***************************************************************************)
(* Redis executes the SCARD a handler awaits; the process gets to its      *)
(* reply later.                                                            *)
(***************************************************************************)
SCard(t) ==
    LET p == ServedBy(task[t].sock) IN
    /\ At(t, Kinds, "card") \/ At(t, {"join"}, "reply")
    /\ \A i \in DOMAIN replies[p] : replies[p][i][1] # t
    /\ \E n \in Counts(t) : replies' = [replies EXCEPT ![p] = Append(@, <<t, n>>)]
    /\ UNCHANGED <<vars, shown, replaced, chan, relay>>

\* The end of updateViewerCount, and what its caller does then; or the end of
\* handleJoin, which tells the client alone.
HandleReply(p) ==
    /\ replies[p] # <<>>
    /\ \A b \in Adapters : Len(chan[Current(p)][b]) < Backlog
    /\ replies' = [replies EXCEPT ![p] = Tail(@)]
    /\ LET t == Head(replies[p])[1]
           m == CountMessage(task[t].stream, Head(replies[p])[2])
           s == task[t].sock
           a == Current(p)
       IN  \/ /\ JoinCounted(t) \/ LeaveCounted(t) \/ DisconnectCounted(t)
              /\ IF Broadcasts(t)
                 THEN /\ shown' = ShownIn(Tell(Receivers(a, m), m.stream, m.n))
                      /\ chan' = Publish(a, m)
                 ELSE shown' = ShownIn(shown) /\ UNCHANGED chan
           \/ /\ JoinReply(t)
              /\ shown' = ShownIn(Tell({s}, m.stream, m.n))
              /\ UNCHANGED chan
    /\ relay' = Here(relay)
    /\ UNCHANGED replaced

(***************************************************************************)
(* handleOffer, handleAnswer, handleIce, handleChatMessage.  Nothing asks   *)
(* whether the sender is in the room.  Bound: a message is sent only when  *)
(* nothing is on its way; handlers may run, counts follow it, and the      *)
(* adapter may be replaced.                                                *)
(***************************************************************************)
Relay(k, s, st) ==
    LET m == RelayMessage(k, st, s)
        a == Through(k, s)
    IN  /\ conn[s] = "up"
        /\ \A p \in Processes : replies[p] = <<>>
        /\ OnItsWayTo({"count"} \cup Relays) = {}
        /\ relay' = Got(a, m, [NoRelay EXCEPT !.what = k, !.stream = st, !.from = s,
                                 !.due = {x \in Sockets : st \in rooms[x]} \ Except(k, s)])
        /\ chan' = Publish(a, m)
        /\ UNCHANGED <<vars, shown, replaced, replies>>

\* The adapter b reads what a published.
Deliver(a, b) ==
    /\ chan[a][b] # <<>>
    /\ chan' = [chan EXCEPT ![a][b] = Tail(@)]
    /\ LET m == Head(chan[a][b]) IN
       IF m.what = "count"
       THEN shown' = Tell(Receivers(b, m), m.stream, m.n) /\ UNCHANGED relay
       ELSE relay' = Got(b, m, relay) /\ UNCHANGED shown
    /\ UNCHANGED <<vars, replaced, replies>>

-----------------------------------------------------------------------------
Delivery == \E a, b \in Adapters : Deliver(a, b)

BNext ==
    \/ Asking
    \/ \E t \in Tasks : SilentStep(t) \/ SCard(t)
    \/ \E p \in Processes : Replace(p) \/ HandleReply(p)
    \/ Delivery
    \/ \E k \in Relays, s \in Sockets, st \in Streams : Relay(k, s, st)

BSpec == BInit /\ [][BNext]_<<vars, sent>>

-----------------------------------------------------------------------------
\* One process serves everybody, with one adapter or with two.
OneProcess == \A s, x \in Sockets : ServedBy(s) = ServedBy(x)

Asked(st) == \E t \in Tasks : Active(t) /\ task[t].stream = st

AtRest(st) == ~Asked(st) /\ OnItsWayTo({"count"}) = {}

\* The sockets of S that are in the room show the size of the set.
ShownRight(S, st) ==
    \A s \in S : st \in rooms[s] => shown[s][st] = Cardinality(viewers[st])

\* When one process serves a stream, the last number its room was told is the
\* size of the set once no handler runs and nothing is on its way, whatever
\* joins and leaves overlapped, of one user or of several, and whenever the
\* adapter was replaced.  Nothing is said of a client that spells the number
\* oddly: it may be told 0 when it joins, against the comment at line 235
\* (streams.gateway.ts:87-115, 235-238, 407-410).
LastCountRight ==
    \A st \in Streams : OneProcess /\ AtRest(st) => ShownRight(Sockets \ Odd, st)

\* A relayed message reaches nobody twice, and a signalling message never its
\* sender, though two adapters of one process read the same channel
\* (streams.gateway.ts:113-115, 301, 318, 336).
RelayedOnce ==
    /\ \A s \in Sockets : relay.got[s] <= 1
    /\ relay.what \in Relays \ {"chat-message"} => relay.got[relay.from] = 0

\* Whoever was in the room when a message was relayed, is there still, and has
\* not got it, has it on its way; a chat message its sender too
\* (streams.gateway.ts:301, 318, 336, 359).
RelayOnItsWay ==
    \A s \in relay.due : GivenTo[s] \in OnItsWayTo({relay.what})
=============================================================================
