------------------------ MODULE RoomBroadcastProofs ------------------------
(***************************************************************************)
(* Proofs about RoomBroadcast, for every number of sockets, streams,       *)
(* overlapping requests and processes, and for every lag of an adapter.    *)
(***************************************************************************)
EXTENDS RoomBroadcast, StreamsGatewayProofs, SequenceTheorems,
        FiniteSetTheorems

USE GivenToAssumption, RelaysAssumption

-----------------------------------------------------------------------------
(***************************************************************************)
(* Queues: what a Tail and an Append do to the facts that the invariants   *)
(* state of a queue q.                                                     *)
(***************************************************************************)

\* q holds a member of S.
Holds(q, S) == \E i \in DOMAIN q : q[i] \in S

\* q holds at most one member of S.
HoldsOne(q, S) == \A i, j \in DOMAIN q : q[i] \in S /\ q[j] \in S => i = j

\* The members of S in q are in G, except those that one of T follows.
Newest(q, S, T, G) ==
    \A i \in DOMAIN q :
        q[i] \in S /\ (\A j \in DOMAIN q : j > i => q[j] \notin T) => q[i] \in G

\* The places of the Tail of a queue.
LEMMA TailPlaces ==
    ASSUME NEW X, NEW q \in Seq(X), q # <<>>
    PROVE  /\ Tail(q) \in Seq(X) /\ Head(q) \in X /\ Head(q) = q[1]
           /\ 1 \in DOMAIN q /\ DOMAIN q \subseteq Nat \ {0}
           /\ \A i \in DOMAIN Tail(q) :
                 i \in Nat /\ i + 1 \in DOMAIN q /\ Tail(q)[i] = q[i + 1]
           /\ \A i \in DOMAIN q \ {1} :
                 i - 1 \in DOMAIN Tail(q) /\ q[i] = Tail(q)[i - 1]
  <1>1. /\ Head(q) \in X /\ Tail(q) \in Seq(X) /\ Len(Tail(q)) = Len(q) - 1
        /\ \A i \in 1 .. Len(Tail(q)) : Tail(q)[i] = q[i + 1]
    BY HeadTailProperties
  <1>2. /\ Len(q) \in Nat \ {0} /\ Head(q) = q[1]
        /\ DOMAIN q = 1 .. Len(q) /\ DOMAIN Tail(q) = 1 .. Len(Tail(q))
    BY <1>1, EmptySeq, LenProperties
  <1>3. QED
    BY <1>1, <1>2

\* The places of a queue with one more element.
LEMMA AppendPlaces ==
    ASSUME NEW X, NEW q \in Seq(X), NEW e \in X
    PROVE  /\ Append(q, e) \in Seq(X)
           /\ \E n \in Nat : /\ DOMAIN q = 1 .. n /\ DOMAIN Append(q, e) = 1 .. n + 1
                            /\ \A i \in 1 .. n : Append(q, e)[i] = q[i]
                            /\ Append(q, e)[n + 1] = e
  <1>1. /\ Append(q, e) \in Seq(X) /\ Len(Append(q, e)) = Len(q) + 1
        /\ \A i \in 1 .. Len(q) : Append(q, e)[i] = q[i]
        /\ Append(q, e)[Len(q) + 1] = e
    BY AppendProperties
  <1>2. /\ Len(q) \in Nat /\ DOMAIN q = 1 .. Len(q)
        /\ DOMAIN Append(q, e) = 1 .. Len(Append(q, e))
    BY <1>1, LenProperties
  <1>3. QED
    BY <1>1, <1>2

\* What reading the oldest element of a queue keeps.
LEMMA TailHolds ==
    ASSUME NEW X, NEW q \in Seq(X), q # <<>>, NEW S
    PROVE  /\ Holds(Tail(q), S) => Holds(q, S)
           /\ Holds(q, S) => Head(q) \in S \/ Holds(Tail(q), S)
           /\ HoldsOne(q, S) => HoldsOne(Tail(q), S)
           /\ HoldsOne(q, S) /\ Head(q) \in S => ~Holds(Tail(q), S)
  <1>0. /\ Tail(q) \in Seq(X) /\ Head(q) \in X /\ Head(q) = q[1]
        /\ 1 \in DOMAIN q /\ DOMAIN q \subseteq Nat \ {0}
        /\ \A i \in DOMAIN Tail(q) :
              i \in Nat /\ i + 1 \in DOMAIN q /\ Tail(q)[i] = q[i + 1]
        /\ \A i \in DOMAIN q \ {1} :
              i - 1 \in DOMAIN Tail(q) /\ q[i] = Tail(q)[i - 1]
    BY TailPlaces
  <1>1. Holds(Tail(q), S) => Holds(q, S)
    BY <1>0 DEF Holds
  <1>2. Holds(q, S) => Head(q) \in S \/ Holds(Tail(q), S)
    BY <1>0 DEF Holds
  <1>3. HoldsOne(q, S) => HoldsOne(Tail(q), S)
    BY <1>0 DEF HoldsOne
  <1>4. HoldsOne(q, S) /\ Head(q) \in S => ~Holds(Tail(q), S)
    BY <1>0 DEF HoldsOne, Holds
  <1>5. QED
    BY <1>1, <1>2, <1>3, <1>4

LEMMA TailNewest ==
    ASSUME NEW X, NEW q \in Seq(X), q # <<>>, NEW S, NEW T, NEW G
    PROVE  /\ Newest(q, S, T, G) => Newest(Tail(q), S, T, G)
           /\ Newest(q, S, T, G) /\ Head(q) \in S /\ ~Holds(Tail(q), T)
                => Head(q) \in G
  <1>0. /\ Tail(q) \in Seq(X) /\ Head(q) \in X /\ Head(q) = q[1]
        /\ 1 \in DOMAIN q /\ DOMAIN q \subseteq Nat \ {0}
        /\ \A i \in DOMAIN Tail(q) :
              i \in Nat /\ i + 1 \in DOMAIN q /\ Tail(q)[i] = q[i + 1]
        /\ \A i \in DOMAIN q \ {1} :
              i - 1 \in DOMAIN Tail(q) /\ q[i] = Tail(q)[i - 1]
    BY TailPlaces
  <1>1. ASSUME Newest(q, S, T, G) PROVE Newest(Tail(q), S, T, G)
    <2> SUFFICES ASSUME NEW i \in DOMAIN Tail(q), Tail(q)[i] \in S,
                        \A j \in DOMAIN Tail(q) : j > i => Tail(q)[j] \notin T
                 PROVE  Tail(q)[i] \in G
      BY DEF Newest
    <2>1. ASSUME NEW j \in DOMAIN q, j > i + 1 PROVE q[j] \notin T
      <3>1. j \in Nat /\ i \in Nat
        BY <1>0
      <3>2. j # 1 /\ j - 1 > i
        BY <1>0, <2>1, <3>1
      <3>3. QED
        BY <1>0, <3>2
    <2>2. i + 1 \in DOMAIN q /\ q[i + 1] = Tail(q)[i]
      BY <1>0
    <2>3. \A k \in DOMAIN q : q[k] \in S /\ (\A j \in DOMAIN q : j > k => q[j] \notin T)
                                => q[k] \in G
      BY <1>1 DEF Newest
    <2>4. QED
      BY <2>1, <2>2, <2>3
  <1>2. ASSUME Newest(q, S, T, G), Head(q) \in S, ~Holds(Tail(q), T)
        PROVE  Head(q) \in G
    <2>1. ASSUME NEW j \in DOMAIN q, j > 1 PROVE q[j] \notin T
      <3>1. j \in Nat
        BY <1>0
      <3>2. j # 1
        BY <2>1, <3>1
      <3>3. QED
        BY <1>0, <1>2, <3>2 DEF Holds
    <2>2. q[1] \in S /\ (\A j \in DOMAIN q : j > 1 => q[j] \notin T) => q[1] \in G
      BY <1>0, <1>2 DEF Newest
    <2>3. QED
      BY <1>0, <1>2, <2>1, <2>2
  <1>3. QED
    BY <1>1, <1>2

\* What adding an element to a queue keeps.
LEMMA AppendHolds ==
    ASSUME NEW X, NEW q \in Seq(X), NEW e \in X, NEW S
    PROVE  /\ Holds(Append(q, e), S) <=> Holds(q, S) \/ e \in S
           /\ HoldsOne(q, S) /\ (e \in S => ~Holds(q, S)) => HoldsOne(Append(q, e), S)
  <1>0. PICK n \in Nat : /\ DOMAIN q = 1 .. n /\ DOMAIN Append(q, e) = 1 .. n + 1
                         /\ \A i \in 1 .. n : Append(q, e)[i] = q[i]
                         /\ Append(q, e)[n + 1] = e
    BY AppendPlaces
  <1>1. \A i \in 1 .. n + 1 : i \in 1 .. n \/ i = n + 1
    OBVIOUS
  <1>2. \A i \in 1 .. n : i \in 1 .. n + 1 /\ n + 1 > i
    OBVIOUS
  <1>3. n + 1 \in 1 .. n + 1
    OBVIOUS
  <1>4. Holds(Append(q, e), S) <=> Holds(q, S) \/ e \in S
    BY <1>0, <1>1, <1>2, <1>3 DEF Holds
  <1>5. HoldsOne(q, S) /\ (e \in S => ~Holds(q, S)) => HoldsOne(Append(q, e), S)
    BY <1>0, <1>1, <1>2, <1>3 DEF Holds, HoldsOne
  <1>6. QED
    BY <1>4, <1>5

LEMMA AppendNewest ==
    ASSUME NEW X, NEW q \in Seq(X), NEW e \in X, NEW S, NEW T, NEW G,
           e \in S => e \in G, Newest(q, S, T, G) \/ e \in T
    PROVE  Newest(Append(q, e), S, T, G)
  <1>0. PICK n \in Nat : /\ DOMAIN q = 1 .. n /\ DOMAIN Append(q, e) = 1 .. n + 1
                         /\ \A i \in 1 .. n : Append(q, e)[i] = q[i]
                         /\ Append(q, e)[n + 1] = e
    BY AppendPlaces
  <1>1. \A i \in 1 .. n + 1 : i \in 1 .. n \/ i = n + 1
    OBVIOUS
  <1>2. \A i \in 1 .. n : i \in 1 .. n + 1 /\ n + 1 > i
    OBVIOUS
  <1>3. n + 1 \in 1 .. n + 1
    OBVIOUS
  <1> SUFFICES ASSUME NEW i \in 1 .. n + 1, Append(q, e)[i] \in S,
                      \A j \in 1 .. n + 1 : j > i => Append(q, e)[j] \notin T
               PROVE  Append(q, e)[i] \in G
    BY <1>0 DEF Newest
  <1>4. CASE i = n + 1
    BY <1>0, <1>4
  <1>5. CASE i \in 1 .. n
    <2>1. e \notin T
      BY <1>0, <1>2, <1>3, <1>5
    <2>2. \A j \in 1 .. n : j > i => q[j] \notin T
      BY <1>0, <1>2
    <2>3. QED
      BY <1>0, <1>5, <2>1, <2>2 DEF Newest
  <1>6. QED
    BY <1>1, <1>4, <1>5

-----------------------------------------------------------------------------
(***************************************************************************)
(* Types.                                                                  *)
(***************************************************************************)
Numbers == {Cardinality(S) : S \in SUBSET Sockets}

\* The numbers that are right for st.
RightFor(st) == {Cardinality(viewers[st])}

\* The SCARD that t awaits may be of a key that nobody writes.
AsksOddly(t) == task[t].pc = "reply" /\ task[t].sock \in Odd

Replies == Tasks \X Numbers

Messages ==
    {m \in [what : {"count"} \cup Relays, stream : Streams, n : Numbers,
            except : SUBSET Sockets] : m.what = "count" => m.except = {}}

RelayRecords ==
    [what : {"none"} \cup Relays, stream : Streams \cup {None},
     from : Sockets \cup {None}, got : [Sockets -> Nat], due : SUBSET Sockets]

BTypeOK ==
    /\ TypeOK
    /\ replaced \in SUBSET Processes
    /\ replies \in [Processes -> Seq(Replies)]
    /\ chan \in [Adapters -> [Adapters -> Seq(Messages)]]
    /\ shown \in [Sockets -> [Streams -> Numbers \cup {None}]]
    /\ relay \in RelayRecords

\* A process uses an adapter of its own that reads.
LEMMA AdapterFacts ==
    /\ Reading \subseteq Adapters
    /\ \A p \in Processes :
          Current(p) \in Adapters /\ Current(p) \in Reading /\ Current(p)[1] = p
    /\ \A s \in Sockets : ServedBy(s) \in Processes
    /\ \A k \in Relays, s \in Sockets : Through(k, s) \in Adapters
  BY DEF Adapters, Reading, Current, ServedBy, Through

\* Two adapters of a process differ in their second part.
LEMMA OtherAdapter ==
    ASSUME NEW p \in Processes
    PROVE  /\ p \notin replaced => Current(p) = <<p, "main">> /\ <<p, "gateway">> \notin Reading
           /\ \A b \in Adapters : b[1] = p => b = <<p, "main">> \/ b = <<p, "gateway">>
           /\ replaced' = replaced \cup {p} => Current(p)' = <<p, "gateway">>
  BY DEF Adapters, Reading, Current

\* Every step is a step of StreamsGateway with reliable stores, or leaves its
\* variables alone.
LEMMA BStepsReliable ==
    ASSUME BTypeOK, [BNext]_<<vars, sent>>
    PROVE  [ReliableNext]_vars
  <1>1. CASE Asking
    BY <1>1 DEF Asking, ReliableNext, Arrivals
  <1>2. ASSUME NEW t \in Tasks, SilentStep(t) PROVE Step(t)
    BY <1>2 DEF SilentStep, Step
  <1>3. ASSUME NEW p \in Processes, HandleReply(p) PROVE \E t \in Tasks : Step(t)
    <2>1. replies[p] \in Seq(Replies) /\ replies[p] # <<>>
      BY <1>3 DEF HandleReply, BTypeOK
    <2>2. Head(replies[p])[1] \in Tasks
      BY <2>1, TailPlaces DEF Replies
    <2>3. Step(Head(replies[p])[1])
      BY <1>3 DEF HandleReply, Step
    <2>4. QED
      BY <2>2, <2>3
  <1>4. CASE \/ \E t \in Tasks : SCard(t)
             \/ Delivery \/ \E p \in Processes : Replace(p)
             \/ \E k \in Relays, s \in Sockets, st \in Streams : Relay(k, s, st)
    BY <1>4 DEF SCard, Delivery, Deliver, Replace, Relay
  <1>5. CASE UNCHANGED <<vars, sent>>
    BY <1>5
  <1>6. QED
    BY <1>1, <1>2, <1>3, <1>4, <1>5 DEF BNext, ReliableNext, Steps

\* What is published to the others.
LEMMA PublishValue ==
    ASSUME BTypeOK, NEW a \in Adapters, NEW m \in Messages, chan' = Publish(a, m)
    PROVE  /\ chan' \in [Adapters -> [Adapters -> Seq(Messages)]]
           /\ \A x, b \in Adapters :
                 chan'[x][b] = IF x = a /\ b # a /\ b \in Reading
                               THEN Append(chan[x][b], m) ELSE chan[x][b]
  <1>1. chan \in [Adapters -> [Adapters -> Seq(Messages)]]
    BY DEF BTypeOK
  <1>2. \A x, b \in Adapters : Append(chan[x][b], m) \in Seq(Messages)
    BY <1>1, AppendPlaces
  <1>3. chan' = [chan EXCEPT ![a] = [b \in Adapters |-> IF b \in Reading \ {a}
                                                       THEN Append(chan[a][b], m)
                                                       ELSE chan[a][b]]]
    BY DEF Publish
  <1>4. QED
    BY <1>1, <1>2, <1>3

\* What reading a channel leaves.
LEMMA DeliverValue ==
    ASSUME BTypeOK, NEW a \in Adapters, NEW b \in Adapters, Deliver(a, b)
    PROVE  /\ chan[a][b] \in Seq(Messages) /\ chan[a][b] # <<>>
           /\ Head(chan[a][b]) \in Messages
           /\ chan' \in [Adapters -> [Adapters -> Seq(Messages)]]
           /\ \A x, y \in Adapters :
                 chan'[x][y] = IF x = a /\ y = b THEN Tail(chan[a][b])
                               ELSE chan[x][y]
  <1>1. chan \in [Adapters -> [Adapters -> Seq(Messages)]]
    BY DEF BTypeOK
  <1>2. chan[a][b] \in Seq(Messages) /\ chan[a][b] # <<>>
    BY <1>1 DEF Deliver
  <1>3. Head(chan[a][b]) \in Messages /\ Tail(chan[a][b]) \in Seq(Messages)
    BY <1>2, TailPlaces
  <1>4. chan' = [chan EXCEPT ![a] = [chan[a] EXCEPT ![b] = Tail(chan[a][b])]]
    BY DEF Deliver
  <1>5. QED
    BY <1>1, <1>2, <1>3, <1>4

\* What a socket shows once it has been told a number.
LEMMA TellValue ==
    ASSUME BTypeOK, NEW S \in SUBSET Sockets, NEW st \in Streams, NEW n \in Numbers
    PROVE  /\ Tell(S, st, n) \in [Sockets -> [Streams -> Numbers \cup {None}]]
           /\ \A s \in Sockets, x \in Streams :
                 /\ s \in S /\ x = st => Tell(S, st, n)[s][x] = n
                 /\ ~(s \in S /\ x = st) => Tell(S, st, n)[s][x] = shown[s][x]
  <1>1. shown \in [Sockets -> [Streams -> Numbers \cup {None}]]
    BY DEF BTypeOK
  <1>2. QED
    BY <1>1 DEF Tell

\* What it shows after a step that may take it out of a room.
LEMMA ShownInValue ==
    ASSUME NEW f \in [Sockets -> [Streams -> Numbers \cup {None}]]
    PROVE  /\ ShownIn(f) \in [Sockets -> [Streams -> Numbers \cup {None}]]
           /\ \A s \in Sockets, st \in Streams :
                 st \in rooms'[s] => ShownIn(f)[s][st] = f[s][st]
  BY DEF ShownIn

\* The sockets of S that are still in the room of st show n, the others and the
\* other rooms what they showed.
Told(S, st, n) ==
    \A s \in Sockets, x \in Streams :
        x \in rooms'[s] =>
            /\ s \in S /\ x = st => shown'[s][x] = n
            /\ ~(s \in S /\ x = st) => shown'[s][x] = shown[s][x]

LEMMA TellTold ==
    ASSUME BTypeOK, NEW S \in SUBSET Sockets, NEW st \in Streams, NEW n \in Numbers,
           shown' = ShownIn(Tell(S, st, n))
    PROVE  Told(S, st, n)
  <1> DEFINE f == Tell(S, st, n)
  <1>1. /\ f \in [Sockets -> [Streams -> Numbers \cup {None}]]
        /\ \A s \in Sockets, x \in Streams :
              /\ s \in S /\ x = st => f[s][x] = n
              /\ ~(s \in S /\ x = st) => f[s][x] = shown[s][x]
    BY DEF BTypeOK, Tell
  <1>2. shown' = ShownIn(f)
    OBVIOUS
  <1> HIDE DEF f
  <1>3. \A s \in Sockets, x \in Streams : x \in rooms'[s] => shown'[s][x] = f[s][x]
    BY <1>1, <1>2, ShownInValue
  <1>4. QED
    BY <1>1, <1>3 DEF Told

\* What an adapter's emission changes in the record of the relayed message.
LEMMA GotValue ==
    ASSUME NEW r \in RelayRecords, NEW a \in Adapters, NEW m \in Messages
    PROVE  /\ Got(a, m, r) \in RelayRecords
           /\ Got(a, m, r).what = r.what
           /\ Got(a, m, r).stream = r.stream
           /\ Got(a, m, r).from = r.from
           /\ Got(a, m, r).due = r.due \ Receivers(a, m)
           /\ \A s \in Sockets : Got(a, m, r).got[s] =
                 IF s \in Receivers(a, m) THEN r.got[s] + 1 ELSE r.got[s]
  <1>1. r.got \in [Sockets -> Nat] /\ r.due \in SUBSET Sockets
    BY DEF RelayRecords
  <1> DEFINE g == [s \in Sockets |-> r.got[s] + IF s \in Receivers(a, m) THEN 1 ELSE 0]
             d == r.due \ Receivers(a, m)
  <1>2. /\ g \in [Sockets -> Nat] /\ d \in SUBSET Sockets
        /\ \A s \in Sockets :
              g[s] = IF s \in Receivers(a, m) THEN r.got[s] + 1 ELSE r.got[s]
    BY <1>1
  <1>3. Got(a, m, r) = [r EXCEPT !.got = g, !.due = d]
    BY DEF Got
  <1> HIDE DEF g, d
  <1>4. /\ Got(a, m, r) \in RelayRecords
        /\ Got(a, m, r).what = r.what /\ Got(a, m, r).stream = r.stream
        /\ Got(a, m, r).from = r.from
        /\ Got(a, m, r).got = g /\ Got(a, m, r).due = d
    BY <1>2, <1>3 DEF RelayRecords
  <1>5. QED
    BY <1>2, <1>4 DEF d

\* The record of a message that nobody has got.
DueAtFirst(k, st, s) == {x \in Sockets : st \in rooms[x]} \ Except(k, s)

Begun(k, st, s) ==
    [NoRelay EXCEPT !.what = k, !.stream = st, !.from = s, !.due = DueAtFirst(k, st, s)]

LEMMA BegunValue ==
    ASSUME NEW k \in Relays, NEW st \in Streams, NEW s \in Sockets
    PROVE  /\ Begun(k, st, s) \in RelayRecords
           /\ Begun(k, st, s).what = k
           /\ Begun(k, st, s).stream = st
           /\ Begun(k, st, s).from = s
           /\ Begun(k, st, s).due = DueAtFirst(k, st, s)
           /\ \A x \in Sockets : Begun(k, st, s).got[x] = 0
  <1> DEFINE zero == [x \in Sockets |-> 0]
             d == DueAtFirst(k, st, s)
  <1>1. zero \in [Sockets -> Nat] /\ \A x \in Sockets : zero[x] = 0
    OBVIOUS
  <1>2. d \in SUBSET Sockets
    BY DEF DueAtFirst
  <1>3. NoRelay = [what |-> "none", stream |-> None, from |-> None,
                   got |-> zero, due |-> {}]
    BY DEF NoRelay
  <1>4. Begun(k, st, s) = [NoRelay EXCEPT !.what = k, !.stream = st, !.from = s, !.due = d]
    BY DEF Begun
  <1> HIDE DEF zero, d
  <1>5. Begun(k, st, s) = [what |-> k, stream |-> st, from |-> s, got |-> zero, due |-> d]
    BY <1>3, <1>4
  <1>6. Begun(k, st, s) \in RelayRecords
    BY <1>1, <1>2, <1>5 DEF RelayRecords
  <1>7. QED
    BY <1>1, <1>5, <1>6 DEF d

\* What relaying a message does.
LEMMA RelayStep ==
    ASSUME NEW k \in Relays, NEW s \in Sockets, NEW st \in Streams, Relay(k, s, st)
    PROVE  /\ relay' = Got(Through(k, s), RelayMessage(k, st, s), Begun(k, st, s))
           /\ chan' = Publish(Through(k, s), RelayMessage(k, st, s))
           /\ Through(k, s) \in Adapters
           /\ conn[s] = "up" /\ UNCHANGED <<vars, shown, replaced, replies>>
  BY AdapterFacts DEF Relay, Begun, DueAtFirst

\* What a step that may take a socket out of a room changes in it.
LEMMA HereValue ==
    ASSUME NEW r \in RelayRecords
    PROVE  /\ Here(r) \in RelayRecords
           /\ \/ Here(r) = NoRelay /\ OnItsWayTo(Relays) = {}
              \/ /\ Here(r).what = r.what /\ Here(r).stream = r.stream
                 /\ Here(r).from = r.from /\ Here(r).got = r.got
                 /\ Here(r).due = {s \in r.due : r.stream \in rooms'[s]}
  <1>1. NoRelay \in RelayRecords
    BY DEF NoRelay, RelayRecords
  <1> DEFINE d == {s \in r.due : r.stream \in rooms'[s]}
  <1>2. d \in SUBSET Sockets
    BY DEF RelayRecords
  <1>3. Here(r) = IF OnItsWayTo(Relays) = {} THEN NoRelay ELSE [r EXCEPT !.due = d]
    BY DEF Here
  <1> HIDE DEF d
  <1>4. /\ [r EXCEPT !.due = d] \in RelayRecords
        /\ [r EXCEPT !.due = d].what = r.what
        /\ [r EXCEPT !.due = d].stream = r.stream
        /\ [r EXCEPT !.due = d].from = r.from
        /\ [r EXCEPT !.due = d].got = r.got
        /\ [r EXCEPT !.due = d].due = d
    BY <1>2 DEF RelayRecords
  <1>5. QED
    BY <1>1, <1>3, <1>4 DEF d

\* Counts and relayed messages are messages.
LEMMA MessageTypes ==
    /\ Relays \cap {"count", "none"} = {}
    /\ \A st \in Streams, n \in Numbers : CountMessage(st, n) \in Messages
    /\ \A k \in Relays, st \in Streams, s \in Sockets :
          RelayMessage(k, st, s) \in Messages
  <1>1. 0 \in Numbers
    <2>1. Cardinality({}) = 0
      BY FS_EmptySet
    <2>2. QED
      BY <2>1 DEF Numbers
  <1>2. QED
    BY <1>1 DEF CountMessage, RelayMessage, Messages, Except

\* What handling the oldest reply at p does: t is the handler, n its number.
LEMMA ReplyStep ==
    ASSUME BTypeOK, NEW p \in Processes, HandleReply(p),
           NEW t, t = Head(replies[p])[1], NEW n, n = Head(replies[p])[2]
    PROVE  /\ replies[p] \in Seq(Replies) /\ replies[p] # <<>>
           /\ Head(replies[p]) = <<t, n>> /\ t \in Tasks /\ n \in Numbers
           /\ Active(t) /\ Step(t)
           /\ task[t].sock \in Sockets /\ task[t].stream \in Streams
           /\ CountMessage(task[t].stream, n) \in Messages
           /\ replies' \in [Processes -> Seq(Replies)]
           /\ \A x \in Processes :
                 replies'[x] = IF x = p THEN Tail(replies[p]) ELSE replies[x]
  <1>1. replies \in [Processes -> Seq(Replies)] /\ replies[p] # <<>>
    BY DEF BTypeOK, HandleReply
  <1>2. Head(replies[p]) \in Replies /\ Tail(replies[p]) \in Seq(Replies)
    BY <1>1, TailPlaces
  <1>3. Head(replies[p]) = <<t, n>> /\ t \in Tasks /\ n \in Numbers
    BY <1>2 DEF Replies
  <1>4. Step(t)
    BY DEF HandleReply, Step
  <1>5. Active(t) /\ task[t].sock \in Sockets /\ task[t].stream \in Streams
    BY <1>3, <1>4, HandlerActive, ActiveTask DEF BTypeOK
  <1>6. replies' = [replies EXCEPT ![p] = Tail(replies[p])]
    BY DEF HandleReply
  <1>7. QED
    BY <1>1, <1>2, <1>3, <1>4, <1>5, <1>6, MessageTypes

\* What Redis adds to the replies when it executes an SCARD.
LEMMA SCardStep ==
    ASSUME BTypeOK, NEW t \in Tasks, SCard(t), NEW p, p = ServedBy(task[t].sock)
    PROVE  /\ p \in Processes /\ Active(t)
           /\ task[t].sock \in Sockets /\ task[t].stream \in Streams
           /\ \E n \in Numbers :
                 /\ ~AsksOddly(t) => n \in RightFor(task[t].stream)
                 /\ \A x \in Processes :
                      replies'[x] = IF x = p THEN Append(replies[p], <<t, n>>)
                                    ELSE replies[x]
           /\ replies' \in [Processes -> Seq(Replies)]
  <1>1. Active(t) /\ task[t].sock \in Sockets /\ task[t].stream \in Streams
    BY ActiveTask DEF SCard, At, Active, BTypeOK
  <1>2. p \in Processes /\ replies \in [Processes -> Seq(Replies)]
    BY <1>1, AdapterFacts DEF BTypeOK
  <1>3. PICK n \in Counts(t) : replies' = [replies EXCEPT ![p] = Append(@, <<t, n>>)]
    BY DEF SCard
  <1>4. n \in Numbers /\ (~AsksOddly(t) => n \in RightFor(task[t].stream))
    <2>1. 0 \in Numbers
      <3>1. Cardinality({}) = 0
        BY FS_EmptySet
      <3>2. QED
        BY <3>1 DEF Numbers
    <2>2. QED
      BY <1>1, <1>3, <2>1 DEF Counts, Numbers, RightFor, AsksOddly, BTypeOK, TypeOK
  <1>5. Append(replies[p], <<t, n>>) \in Seq(Replies)
    BY <1>2, <1>4, AppendPlaces DEF Replies
  <1>6. QED
    BY <1>1, <1>2, <1>3, <1>4, <1>5

\* The variables of this module have their types at first.
LEMMA InitBTypes == BInit => BTypeOK
  <1> SUFFICES ASSUME BInit PROVE BTypeOK
    OBVIOUS
  <1>1. TypeOK
    BY InitTypes DEF BInit
  <1>2. \A X : <<>> \in Seq(X)
    OBVIOUS
  <1>3. NoRelay \in RelayRecords
    BY DEF NoRelay, RelayRecords
  <1>4. QED
    BY <1>1, <1>2, <1>3 DEF BInit, BTypeOK

\* Every step keeps them.
LEMMA NextBTypes == BTypeOK /\ [BNext]_<<vars, sent>> => BTypeOK'
  <1> SUFFICES ASSUME BTypeOK, [BNext]_<<vars, sent>> PROVE BTypeOK'
    OBVIOUS
  <1>0. TypeOK'
    <2>1. [ReliableNext]_vars
      BY BStepsReliable
    <2>2. QED
      BY <2>1, NextTypes, MilderSteps DEF BTypeOK
  <1>a. /\ shown \in [Sockets -> [Streams -> Numbers \cup {None}]]
        /\ relay \in RelayRecords
    BY DEF BTypeOK
  <1>b. Here(relay) \in RelayRecords
    BY <1>a, HereValue
  <1>1. CASE Asking \/ \E t \in Tasks : SilentStep(t)
    <2>1. /\ relay' = Here(relay) /\ shown' = ShownIn(shown)
          /\ UNCHANGED <<replaced, replies, chan>>
      BY <1>1 DEF Asking, SilentStep
    <2>2. QED
      BY <1>0, <1>a, <1>b, <2>1, ShownInValue DEF BTypeOK
  <1>2. ASSUME NEW t \in Tasks, SCard(t) PROVE BTypeOK'
    <2>1. replies' \in [Processes -> Seq(Replies)]
      BY <1>2, SCardStep
    <2>2. QED
      BY <1>0, <1>2, <2>1 DEF SCard, BTypeOK
  <1>3. ASSUME NEW p \in Processes, HandleReply(p) PROVE BTypeOK'
    <2> DEFINE t == Head(replies[p])[1]
               n == Head(replies[p])[2]
               m == CountMessage(task[t].stream, n)
               a == Current(p)
    <2>1. /\ replies' \in [Processes -> Seq(Replies)]
          /\ n \in Numbers /\ m \in Messages
          /\ task[t].stream \in Streams /\ task[t].sock \in Sockets
          /\ m.stream = task[t].stream /\ m.n = n
      BY <1>3, ReplyStep DEF CountMessage
    <2>2. \/ shown' = ShownIn(Tell(Receivers(a, m), m.stream, m.n))
          \/ shown' = ShownIn(Tell({task[t].sock}, m.stream, m.n))
          \/ shown' = ShownIn(shown)
      BY <1>3 DEF HandleReply
    <2>3. Receivers(a, m) \in SUBSET Sockets /\ a \in Adapters /\ replaced' = replaced
      BY <1>3, AdapterFacts DEF Receivers, HandleReply
    <2>4. shown' \in [Sockets -> [Streams -> Numbers \cup {None}]]
      <3> HIDE DEF m, t, n
      <3>1. \A S \in SUBSET Sockets : Tell(S, m.stream, m.n)
                 \in [Sockets -> [Streams -> Numbers \cup {None}]]
        <4>1. m.stream \in Streams /\ m.n \in Numbers
          BY <2>1
        <4>2. QED
          BY <4>1, TellValue
      <3>2. \A f \in [Sockets -> [Streams -> Numbers \cup {None}]] :
              ShownIn(f) \in [Sockets -> [Streams -> Numbers \cup {None}]]
        BY ShownInValue
      <3>3. {task[t].sock} \in SUBSET Sockets
        BY <2>1
      <3>4. QED
        BY <1>a, <2>2, <2>3, <3>1, <3>2, <3>3
    <2>5. chan' = chan \/ chan' = Publish(a, m)
      BY <1>3 DEF HandleReply
    <2>6. chan' \in [Adapters -> [Adapters -> Seq(Messages)]]
      <3> HIDE DEF m
      <3>1. QED
        BY <2>1, <2>3, <2>5, PublishValue DEF BTypeOK
    <2>7. relay' \in RelayRecords
      BY <1>3, <1>b DEF HandleReply
    <2>8. QED
      BY <1>0, <2>1, <2>3, <2>4, <2>6, <2>7 DEF BTypeOK
  <1>4. ASSUME NEW a \in Adapters, NEW b \in Adapters, Deliver(a, b) PROVE BTypeOK'
    <2> DEFINE m == Head(chan[a][b])
    <2>1. m \in Messages /\ chan' \in [Adapters -> [Adapters -> Seq(Messages)]]
      BY <1>4, DeliverValue
    <2>2. UNCHANGED <<replaced, replies, vars>>
      BY <1>4 DEF Deliver
    <2>3. CASE m.what = "count"
      <3>1. shown' = Tell(Receivers(b, m), m.stream, m.n) /\ relay' = relay
        BY <1>4, <2>3 DEF Deliver
      <3>2. shown' \in [Sockets -> [Streams -> Numbers \cup {None}]]
        <4>1. /\ m.stream \in Streams /\ m.n \in Numbers
              /\ Receivers(b, m) \in SUBSET Sockets
          BY <2>1 DEF Messages, Receivers
        <4> HIDE DEF m
        <4>2. \A S \in SUBSET Sockets : Tell(S, m.stream, m.n)
                 \in [Sockets -> [Streams -> Numbers \cup {None}]]
          BY <4>1, TellValue
        <4>3. QED
          BY <3>1, <4>1, <4>2
      <3>3. QED
        BY <1>0, <1>a, <2>1, <2>2, <3>1, <3>2 DEF BTypeOK
    <2>4. CASE m.what # "count"
      <3>1. relay' = Got(b, m, relay) /\ shown' = shown
        BY <1>4, <2>4 DEF Deliver
      <3>2. relay' \in RelayRecords
        BY <1>a, <2>1, <3>1, GotValue
      <3>3. QED
        BY <1>0, <1>a, <2>1, <2>2, <3>1, <3>2 DEF BTypeOK
    <2>5. QED
      BY <2>3, <2>4
  <1>5. ASSUME NEW k \in Relays, NEW s \in Sockets, NEW st \in Streams,
               Relay(k, s, st)
        PROVE  BTypeOK'
    <2>1. RelayMessage(k, st, s) \in Messages /\ Through(k, s) \in Adapters
      BY <1>5, MessageTypes, RelayStep
    <2>2. Begun(k, st, s) \in RelayRecords
      BY BegunValue
    <2>3. relay' \in RelayRecords
      BY <1>5, <2>1, <2>2, RelayStep, GotValue
    <2>4. chan' \in [Adapters -> [Adapters -> Seq(Messages)]]
      BY <1>5, <2>1, RelayStep, PublishValue
    <2>5. QED
      BY <1>0, <1>5, <2>3, <2>4 DEF Relay, BTypeOK
  <1>6. ASSUME UNCHANGED <<vars, sent>> \/ \E p \in Processes : Replace(p) PROVE BTypeOK'
    BY <1>0, <1>6 DEF sent, Replace, BTypeOK
  <1>7. QED
    BY <1>1, <1>2, <1>3, <1>4, <1>5, <1>6 DEF BNext, Delivery

-----------------------------------------------------------------------------
(***************************************************************************)
(* Adapters: one that does not read yet has neither sockets nor messages.  *)
(***************************************************************************)
HeldByReading == \A s \in Sockets : GivenTo[s] \notin Reading => conn[s] = "fresh"

SilentIfNotReading ==
    \A a, b \in Adapters : ~(a \in Reading /\ b \in Reading) => chan[a][b] = <<>>

AdaptersInv == HeldByReading /\ SilentIfNotReading

\* Whoever is in a room is held by an adapter that reads.
LEMMA InRoomReading ==
    ASSUME SlotsInv, AdaptersInv, NEW s \in Sockets, NEW st \in rooms[s]
    PROVE  GivenTo[s] \in Reading
  BY DEF SlotsInv, AdaptersInv, HeldByReading

LEMMA InitAdapters == BInit => AdaptersInv
  BY DEF BInit, Init, AdaptersInv, HeldByReading, SilentIfNotReading

\* Every step keeps it: only an adapter that reads publishes, and it does so for
\* those that read.
LEMMA NextAdapters ==
    BTypeOK /\ AdaptersInv /\ [BNext]_<<vars, sent>> => AdaptersInv'
  <1> SUFFICES ASSUME BTypeOK, AdaptersInv, [BNext]_<<vars, sent>> PROVE AdaptersInv'
    OBVIOUS
  <1>0. /\ TypeOK /\ conn \in [Sockets -> {"fresh", "up", "down"}]
        /\ Reading \subseteq Reading'
    <2>1. replaced \subseteq replaced'
      BY DEF BNext, Asking, SilentStep, SCard, Replace, HandleReply, Delivery,
             Deliver, Relay, sent
    <2>2. QED
      BY <2>1 DEF BTypeOK, TypeOK, Reading
  <1>1. ASSUME conn' = conn PROVE HeldByReading'
    BY <1>0, <1>1 DEF AdaptersInv, HeldByReading
  <1>2. ASSUME chan' = chan PROVE SilentIfNotReading'
    BY <1>0, <1>2 DEF AdaptersInv, SilentIfNotReading
  <1>3. ASSUME NEW a \in Adapters, NEW m \in Messages, chan' = Publish(a, m),
               a \in Reading, replaced' = replaced
        PROVE  SilentIfNotReading'
    <2>1. \A x, b \in Adapters :
             chan'[x][b] = IF x = a /\ b # a /\ b \in Reading
                           THEN Append(chan[x][b], m) ELSE chan[x][b]
      BY <1>3, PublishValue
    <2>2. Reading' = Reading
      BY <1>3 DEF Reading
    <2>3. QED
      BY <1>3, <2>1, <2>2 DEF AdaptersInv, SilentIfNotReading
  <1>4. CASE Asking
    <2>1. ASSUME NEW s \in Sockets, GivenTo[s] = Current(ServedBy(s)), Connect(s)
          PROVE  HeldByReading'
      <3>1. GivenTo[s] \in Reading'
        BY <1>0, <2>1, AdapterFacts
      <3>2. \A x \in Sockets \ {s} : conn'[x] = conn[x]
        BY <1>0, <2>1 DEF Connect
      <3>3. QED
        BY <1>0, <3>1, <3>2 DEF AdaptersInv, HeldByReading
    <2>2. ASSUME NEW s \in Sockets, Disconnect(s) PROVE HeldByReading'
      <3>1. conn[s] # "fresh" /\ \A x \in Sockets \ {s} : conn'[x] = conn[x]
        BY <1>0, <2>2 DEF Disconnect
      <3>2. QED
        BY <1>0, <3>1 DEF AdaptersInv, HeldByReading
    <2>3. ASSUME NEW c \in Calls, NEW s \in Sockets, NEW st \in Streams,
                 JoinRequest(c, s, st) \/ LeaveRequest(c, s, st)
          PROVE  conn' = conn
      BY <2>3 DEF JoinRequest, LeaveRequest, Request
    <2>4. HeldByReading' /\ chan' = chan
      BY <1>1, <1>4, <2>1, <2>2, <2>3 DEF Asking
    <2>5. QED
      BY <1>2, <2>4 DEF AdaptersInv
  <1>5. ASSUME NEW t \in Tasks, SilentStep(t) PROVE conn' = conn /\ chan' = chan
    <2>1. Step(t)
      BY <1>5 DEF SilentStep, Step
    <2>2. QED
      BY <1>5, <2>1, HandlerConn DEF SilentStep
  <1>6. ASSUME NEW p \in Processes, HandleReply(p)
        PROVE  conn' = conn /\ SilentIfNotReading'
    <2> DEFINE t == Head(replies[p])[1]
               m == CountMessage(task[t].stream, Head(replies[p])[2])
    <2>1. t \in Tasks /\ Step(t) /\ m \in Messages
      BY <1>6, ReplyStep
    <2>2. conn' = conn
      BY <2>1, HandlerConn
    <2>3. /\ chan' = chan \/ chan' = Publish(Current(p), m)
          /\ replaced' = replaced
      BY <1>6 DEF HandleReply
    <2> HIDE DEF m, t
    <2>4. QED
      BY <1>2, <1>3, <2>1, <2>2, <2>3, AdapterFacts
  <1>7. ASSUME NEW a \in Adapters, NEW b \in Adapters, Deliver(a, b)
        PROVE  conn' = conn /\ SilentIfNotReading'
    <2>1. /\ chan[a][b] # <<>> /\ replaced' = replaced /\ conn' = conn
          /\ \A x, y \in Adapters :
                chan'[x][y] = IF x = a /\ y = b THEN Tail(chan[a][b]) ELSE chan[x][y]
      BY <1>7, DeliverValue DEF Deliver, vars
    <2>2. Reading' = Reading
      BY <2>1 DEF Reading
    <2>3. QED
      BY <2>1, <2>2 DEF AdaptersInv, SilentIfNotReading
  <1>8. ASSUME NEW k \in Relays, NEW s \in Sockets, NEW st \in Streams,
               Relay(k, s, st)
        PROVE  conn' = conn /\ SilentIfNotReading'
    <2>1. /\ RelayMessage(k, st, s) \in Messages /\ Through(k, s) \in Adapters
          /\ chan' = Publish(Through(k, s), RelayMessage(k, st, s))
          /\ conn[s] = "up" /\ conn' = conn /\ replaced' = replaced
      BY <1>8, RelayStep, MessageTypes DEF vars
    <2>2. Through(k, s) \in Reading
      BY <2>1, AdapterFacts DEF Through, AdaptersInv, HeldByReading
    <2>3. QED
      BY <1>3, <2>1, <2>2
  <1>9. CASE \/ UNCHANGED <<vars, sent>> \/ \E t \in Tasks : SCard(t)
             \/ \E p \in Processes : Replace(p)
    <2>1. conn' = conn /\ chan' = chan
      BY <1>9 DEF SCard, Replace, vars, sent
    <2>2. QED
      BY <1>1, <1>2, <2>1 DEF AdaptersInv
  <1>10. QED
    <2>1. ASSUME conn' = conn, SilentIfNotReading' PROVE AdaptersInv'
      BY <1>1, <2>1 DEF AdaptersInv
    <2>2. QED
      BY <1>2, <1>4, <1>5, <1>6, <1>7, <1>8, <1>9, <2>1 DEF BNext, Delivery

-----------------------------------------------------------------------------
(***************************************************************************)
(* The relayed message.                                                    *)
(***************************************************************************)
RelayMessages == {m \in Messages : m.what \in Relays}

\* The message that was relayed last, as adapters exchange it.
LastRelayed == RelayMessage(relay.what, relay.stream, relay.from)

\* What is on its way is the last relayed message, in the channels of one
\* adapter, the one it was emitted through, once in each.
OneMessage ==
    \A a, b \in Adapters :
        /\ HoldsOne(chan[a][b], RelayMessages)
        /\ ~Holds(chan[a][b], RelayMessages \ {LastRelayed})
        /\ Holds(chan[a][b], RelayMessages) =>
              /\ relay.what \in Relays /\ b # a
              /\ \A x, y \in Adapters : Holds(chan[x][y], RelayMessages) => x = a

\* Nobody whose adapter has yet to read it has got it, and nobody got it twice.
GotOnce ==
    \A s \in Sockets :
        /\ relay.got[s] \in {0, 1}
        /\ relay.got[s] = 1 =>
              \A a \in Adapters : ~Holds(chan[a][GivenTo[s]], RelayMessages)

\* Whoever is left out has not got it.
LeftOut ==
    relay.what \in Relays =>
        /\ relay.from \in Sockets
        /\ \A s \in Except(relay.what, relay.from) : relay.got[s] = 0

\* Whoever is due it is in the room, is not left out, and his adapter has yet
\* to read it.
DueInRoom ==
    \A s \in relay.due :
        /\ relay.what \in Relays
        /\ relay.stream \in rooms[s] /\ s \notin Except(relay.what, relay.from)
        /\ \E a \in Adapters : Holds(chan[a][GivenTo[s]], RelayMessages)

RelayInv == OneMessage /\ GotOnce /\ LeftOut /\ DueInRoom

\* The adapters that have yet to read a relayed message.
LEMMA OnItsWayHolds ==
    ASSUME BTypeOK, NEW b \in Adapters
    PROVE  b \in OnItsWayTo(Relays)
             <=> \E a \in Adapters : Holds(chan[a][b], RelayMessages)
  <1>1. \A a \in Adapters : \A i \in DOMAIN chan[a][b] : chan[a][b][i] \in Messages
    <2>1. \A a \in Adapters : chan[a][b] \in Seq(Messages)
      BY DEF BTypeOK
    <2>2. QED
      BY <2>1, LenProperties, ElementOfSeq
  <1>2. QED
    BY <1>1 DEF OnItsWayTo, Holds, RelayMessages

\* The invariant is what the properties ask.
LEMMA RelayInvHolds ==
    ASSUME BTypeOK, RelayInv
    PROVE  RelayedOnce /\ RelayOnItsWay
  <1>0. relay \in RelayRecords
    BY DEF BTypeOK
  <1>1. \A s \in Sockets : relay.got[s] <= 1
    BY DEF RelayInv, GotOnce
  <1>2. ASSUME relay.what \in Relays \ {"chat-message"} PROVE relay.got[relay.from] = 0
    BY <1>2 DEF RelayInv, LeftOut, Except
  <1>3. ASSUME NEW s \in relay.due PROVE GivenTo[s] \in OnItsWayTo({relay.what})
    <2>1. s \in Sockets /\ relay.what \in Relays
      BY <1>0, <1>3 DEF RelayInv, DueInRoom, RelayRecords
    <2>2. PICK a \in Adapters : Holds(chan[a][GivenTo[s]], RelayMessages)
      BY <1>3 DEF RelayInv, DueInRoom
    <2>3. GivenTo[s] \in Adapters
      BY <2>1
    <2>4. ~Holds(chan[a][GivenTo[s]], RelayMessages \ {LastRelayed})
      BY <2>3 DEF RelayInv, OneMessage
    <2>5. PICK i \in DOMAIN chan[a][GivenTo[s]] : chan[a][GivenTo[s]][i] = LastRelayed
      BY <2>2, <2>4 DEF Holds
    <2>6. chan[a][GivenTo[s]][i].what = relay.what
      BY <2>5 DEF LastRelayed, RelayMessage
    <2>7. QED
      BY <2>3, <2>6 DEF OnItsWayTo
  <1>4. QED
    BY <1>1, <1>2, <1>3 DEF RelayedOnce, RelayOnItsWay

\* Nothing is on its way at first.
LEMMA InitRelay == BInit => RelayInv
  <1> SUFFICES ASSUME BInit PROVE RelayInv
    OBVIOUS
  <1>1. \A a, b \in Adapters : \A S : HoldsOne(chan[a][b], S) /\ ~Holds(chan[a][b], S)
    BY DEF BInit, Holds, HoldsOne
  <1>2. relay.due = {} /\ relay.what = "none" /\ \A s \in Sockets : relay.got[s] = 0
    BY DEF BInit, NoRelay
  <1>3. QED
    BY <1>1, <1>2, MessageTypes
       DEF RelayInv, OneMessage, GotOnce, LeftOut, DueInRoom

\* Steps that relay nothing and read no relayed message leave the relayed
\* messages in the channels as they are.
SameRelays ==
    \A a, b \in Adapters :
        /\ HoldsOne(chan[a][b], RelayMessages) => HoldsOne(chan'[a][b], RelayMessages)
        /\ \A S \in SUBSET RelayMessages : Holds(chan'[a][b], S) <=> Holds(chan[a][b], S)

\* They keep the invariant, though they may move sockets out of rooms.
LEMMA HereKeepsRelay ==
    ASSUME BTypeOK, RelayInv, SameRelays, relay' = Here(relay)
    PROVE  RelayInv'
  <1>0. relay \in RelayRecords /\ RelayMessages' = RelayMessages
    BY DEF BTypeOK, RelayMessages
  <1>1. CASE relay' = NoRelay /\ OnItsWayTo(Relays) = {}
    <2>1. \A a, b \in Adapters : ~Holds(chan[a][b], RelayMessages)
      BY <1>1, OnItsWayHolds
    <2>2. \A a, b \in Adapters : ~Holds(chan'[a][b], RelayMessages)
      BY <2>1 DEF SameRelays
    <2>3. \A a, b \in Adapters : \A S \in SUBSET RelayMessages : ~Holds(chan'[a][b], S)
      BY <2>2 DEF Holds
    <2>4. \A a, b \in Adapters : HoldsOne(chan'[a][b], RelayMessages)
      BY <2>2 DEF Holds, HoldsOne
    <2>5. relay'.due = {} /\ relay'.what = "none" /\ \A s \in Sockets : relay'.got[s] = 0
      BY <1>1 DEF NoRelay
    <2>6. OneMessage'
      BY <1>0, <2>2, <2>3, <2>4 DEF OneMessage
    <2>7. QED
      BY <2>5, <2>6, MessageTypes DEF RelayInv, GotOnce, LeftOut, DueInRoom
  <1>2. CASE ~(relay' = NoRelay /\ OnItsWayTo(Relays) = {})
    <2>1. /\ relay'.what = relay.what /\ relay'.stream = relay.stream
          /\ relay'.from = relay.from /\ relay'.got = relay.got
          /\ relay'.due = {s \in relay.due : relay.stream \in rooms'[s]}
      BY <1>0, <1>2, HereValue
    <2>2. LastRelayed' = LastRelayed
      BY <2>1 DEF LastRelayed, RelayMessage, Except
    <2>3. OneMessage'
      <3>1. RelayMessages \ {LastRelayed} \in SUBSET RelayMessages
        OBVIOUS
      <3> SUFFICES ASSUME NEW a \in Adapters, NEW b \in Adapters
                   PROVE  /\ HoldsOne(chan'[a][b], RelayMessages)
                          /\ ~Holds(chan'[a][b], RelayMessages \ {LastRelayed})
                          /\ Holds(chan'[a][b], RelayMessages) =>
                                /\ relay'.what \in Relays /\ b # a
                                /\ \A x, y \in Adapters :
                                      Holds(chan'[x][y], RelayMessages) => x = a
        BY <1>0, <2>2 DEF OneMessage
      <3>3. /\ HoldsOne(chan[a][b], RelayMessages)
            /\ ~Holds(chan[a][b], RelayMessages \ {LastRelayed})
            /\ Holds(chan[a][b], RelayMessages) =>
                  /\ relay.what \in Relays /\ b # a
                  /\ \A x, y \in Adapters :
                        Holds(chan[x][y], RelayMessages) => x = a
        BY DEF RelayInv, OneMessage
      <3>4. /\ HoldsOne(chan'[a][b], RelayMessages)
            /\ \A S \in SUBSET RelayMessages : Holds(chan'[a][b], S) <=> Holds(chan[a][b], S)
            /\ \A x, y \in Adapters : Holds(chan'[x][y], RelayMessages)
                                          <=> Holds(chan[x][y], RelayMessages)
        BY <3>3 DEF SameRelays
      <3>5. QED
        BY <2>1, <3>1, <3>3, <3>4
    <2>4. GotOnce'
      BY <1>0, <2>1 DEF RelayInv, GotOnce, SameRelays
    <2>5. LeftOut'
      BY <2>1 DEF RelayInv, LeftOut, Except
    <2>6. DueInRoom'
      <3>1. \A s \in relay.due : GivenTo[s] \in Adapters
        BY <1>0 DEF RelayRecords
      <3>2. QED
        BY <1>0, <2>1, <3>1 DEF RelayInv, DueInRoom, SameRelays, Except
    <2>7. QED
      BY <2>3, <2>4, <2>5, <2>6 DEF RelayInv
  <1>3. QED
    BY <1>1, <1>2

\* Publishing a count is such a step.
LEMMA CountsAreNoRelays ==
    ASSUME BTypeOK, NEW a \in Adapters, NEW m \in Messages, m.what = "count",
           chan' = Publish(a, m)
    PROVE  SameRelays
  <1>1. m \notin RelayMessages
    BY MessageTypes DEF RelayMessages
  <1>2. ASSUME NEW x \in Adapters, NEW b \in Adapters
        PROVE  /\ HoldsOne(chan[x][b], RelayMessages) => HoldsOne(chan'[x][b], RelayMessages)
               /\ \A S \in SUBSET RelayMessages :
                     Holds(chan'[x][b], S) <=> Holds(chan[x][b], S)
    <2>1. chan[x][b] \in Seq(Messages)
      BY DEF BTypeOK
    <2>2. chan'[x][b] = IF x = a /\ b # a /\ b \in Reading
                           THEN Append(chan[x][b], m) ELSE chan[x][b]
      BY PublishValue
    <2>3. \A S \in SUBSET RelayMessages : m \notin S
      BY <1>1
    <2>4. HoldsOne(chan[x][b], RelayMessages)
             => HoldsOne(Append(chan[x][b], m), RelayMessages)
      BY <1>1, <2>1, AppendHolds
    <2>5. \A S : Holds(Append(chan[x][b], m), S) <=> Holds(chan[x][b], S) \/ m \in S
      BY <2>1, AppendHolds
    <2>6. QED
      BY <2>2, <2>3, <2>4, <2>5
  <1>3. QED
    BY <1>2 DEF SameRelays

\* A message that is relayed is on its way to everyone it is for but those
\* whom the adapter of its sender has emitted it to.
LEMMA RelayKeepsRelay ==
    ASSUME BTypeOK, SlotsInv, AdaptersInv, RelayInv, NEW k \in Relays, NEW s \in Sockets,
           NEW st \in Streams, Relay(k, s, st)
    PROVE  RelayInv'
  <1> DEFINE m == RelayMessage(k, st, s)
             a == Through(k, s)
             r == Begun(k, st, s)
  <1>0. /\ relay \in RelayRecords /\ RelayMessages' = RelayMessages
        /\ m \in Messages /\ a \in Adapters /\ m \in RelayMessages
        /\ rooms' = rooms
    BY RelayStep, MessageTypes DEF BTypeOK, RelayMessages, RelayMessage, Relay, vars
  <1>1. /\ relay'.what = k /\ relay'.stream = st /\ relay'.from = s
        /\ relay'.due = DueAtFirst(k, st, s) \ Receivers(a, m)
        /\ \A x \in Sockets : relay'.got[x] = IF x \in Receivers(a, m) THEN 1 ELSE 0
    <2>1. /\ r \in RelayRecords /\ r.what = k /\ r.stream = st /\ r.from = s
          /\ r.due = DueAtFirst(k, st, s) /\ \A x \in Sockets : r.got[x] = 0
      BY BegunValue
    <2>2. relay' = Got(a, m, r)
      BY RelayStep
    <2> HIDE DEF r, m, a
    <2>3. /\ Got(a, m, r).what = r.what /\ Got(a, m, r).stream = r.stream
          /\ Got(a, m, r).from = r.from /\ Got(a, m, r).due = r.due \ Receivers(a, m)
          /\ \A x \in Sockets : Got(a, m, r).got[x] =
                IF x \in Receivers(a, m) THEN r.got[x] + 1 ELSE r.got[x]
      BY <1>0, <2>1, GotValue
    <2>4. QED
      BY <2>1, <2>2, <2>3
  <1>2. \A x, b \in Adapters :
           chan'[x][b] = IF x = a /\ b # a /\ b \in Reading
                         THEN Append(chan[x][b], m) ELSE chan[x][b]
    BY <1>0, RelayStep, PublishValue
  <1>3. \A x, b \in Adapters : ~Holds(chan[x][b], RelayMessages)
    <2>1. OnItsWayTo(Relays) = {}
      BY DEF Relay, OnItsWayTo
    <2>2. QED
      BY <2>1, OnItsWayHolds
  <1>4. \A x \in Sockets :
           x \in Receivers(a, m) <=> GivenTo[x] = a /\ st \in rooms[x] /\ x \notin Except(k, s)
    BY DEF Receivers, RelayMessage
  <1>5. LastRelayed' = m
    BY <1>1 DEF LastRelayed, RelayMessage, Except
  <1> HIDE DEF m, a, r
  <1>6. ASSUME NEW x \in Adapters, NEW b \in Adapters
        PROVE  /\ HoldsOne(chan'[x][b], RelayMessages)
               /\ ~Holds(chan'[x][b], RelayMessages \ {m})
               /\ Holds(chan'[x][b], RelayMessages) <=> x = a /\ b # a /\ b \in Reading
    <2>1. chan[x][b] \in Seq(Messages)
      BY DEF BTypeOK
    <2>2. /\ HoldsOne(chan[x][b], RelayMessages)
          /\ ~Holds(chan[x][b], RelayMessages \ {m})
      BY <1>3 DEF Holds, HoldsOne
    <2>3. CASE x = a /\ b # a /\ b \in Reading
      <3>1. chan'[x][b] = Append(chan[x][b], m)
        BY <1>2, <2>3
      <3>2. HoldsOne(Append(chan[x][b], m), RelayMessages)
        BY <1>0, <1>3, <2>1, <2>2, AppendHolds
      <3>3. \A S : Holds(Append(chan[x][b], m), S) <=> Holds(chan[x][b], S) \/ m \in S
        BY <1>0, <2>1, AppendHolds
      <3>4. QED
        BY <1>0, <2>2, <2>3, <3>1, <3>2, <3>3
    <2>4. CASE ~(x = a /\ b # a /\ b \in Reading)
      BY <1>2, <1>3, <2>2, <2>4
    <2>5. QED
      BY <2>3, <2>4
  <1>7. OneMessage'
    <2>1. relay'.what \in Relays
      BY <1>1
    <2>2. \A x, b \in Adapters :
             Holds(chan'[x][b], RelayMessages) => x = a /\ b # a
      BY <1>6
    <2>3. \A x, b \in Adapters : /\ HoldsOne(chan'[x][b], RelayMessages)
                                 /\ ~Holds(chan'[x][b], RelayMessages \ {m})
      BY <1>6
    <2>4. RelayMessages' \ {LastRelayed'} = RelayMessages \ {m}
      BY <1>0, <1>5
    <2>5. QED
      BY <1>0, <2>1, <2>2, <2>3, <2>4 DEF OneMessage
  <1>8. GotOnce'
    <2>1. ASSUME NEW x \in Sockets
          PROVE  /\ relay'.got[x] \in {0, 1}
                 /\ relay'.got[x] = 1 =>
                       \A y \in Adapters : ~Holds(chan'[y][GivenTo[x]], RelayMessages)
      BY <1>1, <1>4, <1>6
    <2>2. QED
      BY <1>0, <2>1 DEF GotOnce
  <1>9. LeftOut'
    <2>1. Except(k, s) \subseteq Sockets
      BY DEF Except
    <2>2. \A x \in Except(k, s) : relay'.got[x] = 0
      BY <1>1, <1>4, <2>1
    <2>3. Except(relay'.what, relay'.from) = Except(k, s)
      BY <1>1 DEF Except
    <2>4. QED
      BY <1>1, <2>2, <2>3 DEF LeftOut
  <1>10. DueInRoom'
    <2>1. ASSUME NEW x \in relay'.due
          PROVE  /\ st \in rooms[x] /\ x \notin Except(k, s)
                 /\ \E y \in Adapters : Holds(chan'[y][GivenTo[x]], RelayMessages)
      <3>1. x \in Sockets /\ st \in rooms[x] /\ x \notin Except(k, s)
            /\ x \notin Receivers(a, m)
        BY <1>1, <2>1 DEF DueAtFirst
      <3>2. GivenTo[x] # a /\ GivenTo[x] \in Adapters /\ GivenTo[x] \in Reading
        BY <1>4, <3>1, InRoomReading
      <3>3. QED
        BY <1>0, <1>6, <3>1, <3>2
    <2>2. Except(relay'.what, relay'.from) = Except(k, s)
      BY <1>1 DEF Except
    <2>3. QED
      BY <1>0, <1>1, <2>1, <2>2 DEF DueInRoom
  <1>11. QED
    BY <1>7, <1>8, <1>9, <1>10 DEF RelayInv

\* An adapter that reads the relayed message has not read it before and emits
\* it to all of its sockets that are due it.
LEMMA DeliverKeepsRelay ==
    ASSUME BTypeOK, RelayInv, NEW a \in Adapters, NEW b \in Adapters, Deliver(a, b)
    PROVE  RelayInv'
  <1> DEFINE m == Head(chan[a][b])
  <1>0. /\ relay \in RelayRecords /\ RelayMessages' = RelayMessages
        /\ chan[a][b] \in Seq(Messages) /\ chan[a][b] # <<>> /\ m \in Messages
        /\ \A x, y \in Adapters :
              chan'[x][y] = IF x = a /\ y = b THEN Tail(chan[a][b]) ELSE chan[x][y]
        /\ rooms' = rooms
    <2>1. /\ relay \in RelayRecords /\ RelayMessages' = RelayMessages /\ rooms' = rooms
      BY DEF BTypeOK, RelayMessages, Deliver, vars
    <2>2. QED
      BY <2>1, DeliverValue
  <1>a. \A S : Holds(Tail(chan[a][b]), S) => Holds(chan[a][b], S)
    BY <1>0, TailHolds
  <1>b. \A S : Holds(chan[a][b], S) => m \in S \/ Holds(Tail(chan[a][b]), S)
    BY <1>0, TailHolds
  <1>c. \A S : HoldsOne(chan[a][b], S) => HoldsOne(Tail(chan[a][b]), S)
    BY <1>0, TailHolds
  <1>d. OneMessage'
    <2>1. /\ relay'.what = relay.what /\ relay'.stream = relay.stream
          /\ relay'.from = relay.from
      <3>1. relay' = relay \/ relay' = Got(b, m, relay)
        BY DEF Deliver
      <3> HIDE DEF m
      <3>2. /\ Got(b, m, relay).what = relay.what
            /\ Got(b, m, relay).stream = relay.stream
            /\ Got(b, m, relay).from = relay.from
        BY <1>0, GotValue
      <3>3. QED
        BY <3>1, <3>2
    <2>2. LastRelayed' = LastRelayed
      BY <2>1 DEF LastRelayed, RelayMessage, Except
    <2> HIDE DEF m
    <2>4. \A x, y \in Adapters :
            /\ \A S : Holds(chan'[x][y], S) => Holds(chan[x][y], S)
            /\ \A S : HoldsOne(chan[x][y], S) => HoldsOne(chan'[x][y], S)
      <3> SUFFICES ASSUME NEW x \in Adapters, NEW y \in Adapters
                   PROVE  /\ \A S : Holds(chan'[x][y], S) => Holds(chan[x][y], S)
                          /\ \A S : HoldsOne(chan[x][y], S) => HoldsOne(chan'[x][y], S)
        OBVIOUS
      <3>1. CASE x = a /\ y = b
        BY <1>0, <1>a, <1>c, <3>1
      <3>2. CASE ~(x = a /\ y = b)
        BY <1>0, <3>2
      <3>3. QED
        BY <3>1, <3>2
    <2>5. QED
      BY <1>0, <2>1, <2>2, <2>4 DEF RelayInv, OneMessage
  <1>1. CASE m.what = "count"
    <2>1. relay' = relay
      BY <1>1 DEF Deliver
    <2>2. m \notin RelayMessages
      BY <1>1, MessageTypes DEF RelayMessages
    <2>3. \A x, y \in Adapters :
             Holds(chan'[x][y], RelayMessages) <=> Holds(chan[x][y], RelayMessages)
      BY <1>0, <1>a, <1>b, <2>2
    <2>4. GotOnce'
      BY <1>0, <2>1, <2>3 DEF RelayInv, GotOnce
    <2>5. LeftOut'
      BY <2>1 DEF RelayInv, LeftOut, Except
    <2>6. DueInRoom'
      <3>1. \A s \in relay.due : GivenTo[s] \in Adapters
        BY <1>0 DEF RelayRecords
      <3>2. QED
        BY <1>0, <2>1, <2>3, <3>1 DEF RelayInv, DueInRoom, Except
    <2>7. QED
      BY <1>d, <2>4, <2>5, <2>6 DEF RelayInv
  <1>2. CASE m.what # "count"
    <2>1. m \in RelayMessages
      BY <1>0, <1>2 DEF Messages, RelayMessages
    <2>2. Holds(chan[a][b], RelayMessages)
      BY <1>0, <2>1, TailPlaces DEF Holds
    <2>3. m = LastRelayed
      <3>1. ~Holds(chan[a][b], RelayMessages \ {LastRelayed})
        BY DEF RelayInv, OneMessage
      <3>2. QED
        BY <1>0, <2>1, <3>1, TailPlaces DEF Holds
    <2>4. \A x \in Adapters : ~Holds(chan'[x][b], RelayMessages)
      <3>1. ~Holds(Tail(chan[a][b]), RelayMessages)
        BY <1>0, <2>1, TailHolds DEF RelayInv, OneMessage
      <3>2. \A x \in Adapters \ {a} : ~Holds(chan[x][b], RelayMessages)
        BY <2>2 DEF RelayInv, OneMessage
      <3>3. QED
        BY <1>0, <3>1, <3>2
    <2>5. \A x \in Adapters, y \in Adapters \ {b} : chan'[x][y] = chan[x][y]
      BY <1>0
    <2>6. \A s \in Sockets :
             s \in Receivers(b, m) <=> /\ GivenTo[s] = b /\ relay.stream \in rooms[s]
                                      /\ s \notin Except(relay.what, relay.from)
      BY <2>3 DEF Receivers, LastRelayed, RelayMessage
    <2>7. /\ relay'.what = relay.what /\ relay'.stream = relay.stream
          /\ relay'.from = relay.from
          /\ relay'.due = relay.due \ Receivers(b, m)
          /\ \A s \in Sockets : relay'.got[s] =
                IF s \in Receivers(b, m) THEN relay.got[s] + 1 ELSE relay.got[s]
      <3>1. relay' = Got(b, m, relay)
        BY <1>2 DEF Deliver
      <3> HIDE DEF m
      <3>2. /\ Got(b, m, relay).what = relay.what
            /\ Got(b, m, relay).stream = relay.stream
            /\ Got(b, m, relay).from = relay.from
            /\ Got(b, m, relay).due = relay.due \ Receivers(b, m)
            /\ \A s \in Sockets : Got(b, m, relay).got[s] =
                  IF s \in Receivers(b, m) THEN relay.got[s] + 1 ELSE relay.got[s]
        BY <1>0, GotValue
      <3>3. QED
        BY <3>1, <3>2
    <2> HIDE DEF m
    <2>8. GotOnce'
      <3>1. ASSUME NEW s \in Sockets
            PROVE  /\ relay'.got[s] \in {0, 1}
                   /\ relay'.got[s] = 1 =>
                         \A x \in Adapters : ~Holds(chan'[x][GivenTo[s]], RelayMessages)
        <4>1. CASE GivenTo[s] = b
          <5>1. relay.got[s] = 0
            BY <2>2, <4>1 DEF RelayInv, GotOnce
          <5>2. QED
            BY <2>4, <2>7, <4>1, <5>1
        <4>2. CASE GivenTo[s] # b
          <5>1. relay'.got[s] = relay.got[s]
            BY <2>6, <2>7, <4>2
          <5>2. QED
            BY <2>5, <4>2, <5>1 DEF RelayInv, GotOnce
        <4>3. QED
          BY <4>1, <4>2
      <3>2. QED
        BY <1>0, <3>1 DEF GotOnce
    <2>9. LeftOut'
      <3>1. relay.what \in Relays => Except(relay.what, relay.from) \subseteq Sockets
        BY DEF RelayInv, LeftOut, Except
      <3>2. Except(relay'.what, relay'.from) = Except(relay.what, relay.from)
        BY <2>7 DEF Except
      <3>3. QED
        BY <2>6, <2>7, <3>1, <3>2 DEF RelayInv, LeftOut
    <2>10. DueInRoom'
      <3>1. Except(relay'.what, relay'.from) = Except(relay.what, relay.from)
        BY <2>7 DEF Except
      <3>2. ASSUME NEW s \in relay'.due
            PROVE  /\ relay.what \in Relays
                   /\ relay.stream \in rooms[s] /\ s \notin Except(relay.what, relay.from)
                   /\ \E x \in Adapters : Holds(chan'[x][GivenTo[s]], RelayMessages)
        <4>1. s \in relay.due /\ s \notin Receivers(b, m) /\ s \in Sockets
          BY <1>0, <2>7, <3>2 DEF RelayRecords
        <4>2. GivenTo[s] # b /\ GivenTo[s] \in Adapters
          BY <2>6, <4>1 DEF RelayInv, DueInRoom
        <4>3. QED
          BY <2>5, <4>1, <4>2 DEF RelayInv, DueInRoom
      <3>3. QED
        BY <1>0, <2>7, <3>1, <3>2 DEF DueInRoom
    <2>11. QED
      BY <1>d, <2>8, <2>9, <2>10 DEF RelayInv
  <1>3. QED
    BY <1>1, <1>2

\* Every step keeps the invariant.
LEMMA NextRelay ==
    BTypeOK /\ SlotsInv /\ AdaptersInv /\ RelayInv /\ [BNext]_<<vars, sent>>
        => RelayInv'
  <1> SUFFICES ASSUME BTypeOK, SlotsInv, AdaptersInv, RelayInv,
                      [BNext]_<<vars, sent>>
               PROVE  RelayInv'
    OBVIOUS
  <1>1. chan' = chan => SameRelays
    BY DEF SameRelays
  <1>2. CASE Asking \/ \E t \in Tasks : SilentStep(t)
    BY <1>1, <1>2, HereKeepsRelay DEF Asking, SilentStep
  <1>3. ASSUME NEW p \in Processes, HandleReply(p) PROVE RelayInv'
    <2> DEFINE t == Head(replies[p])[1]
               n == Head(replies[p])[2]
               m == CountMessage(task[t].stream, n)
    <2>1. m \in Messages /\ m.what = "count" /\ Current(p) \in Adapters
      BY <1>3, ReplyStep, AdapterFacts DEF CountMessage
    <2>2. chan' = chan \/ chan' = Publish(Current(p), m)
      BY <1>3 DEF HandleReply
    <2>3. relay' = Here(relay)
      BY <1>3 DEF HandleReply
    <2> HIDE DEF m
    <2>4. QED
      BY <1>1, <2>1, <2>2, <2>3, CountsAreNoRelays, HereKeepsRelay
  <1>4. CASE \/ \E t \in Tasks : SCard(t)
             \/ \E p \in Processes : Replace(p)
             \/ UNCHANGED <<vars, sent>>
    <2>1. UNCHANGED <<rooms, chan, relay>>
      BY <1>4 DEF SCard, Replace, vars, sent
    <2>2. QED
      BY <2>1 DEF RelayInv, OneMessage, GotOnce, LeftOut, DueInRoom, LastRelayed,
                  RelayMessages, RelayMessage, Except
  <1>5. QED
    BY <1>2, <1>3, <1>4, RelayKeepsRelay, DeliverKeepsRelay DEF BNext, Delivery

\* The invariant of relayed messages holds in every behaviour.
THEOREM RelayCorrect == BSpec => []RelayInv
  <1> DEFINE IInv == BTypeOK /\ SlotsInv /\ AdaptersInv /\ RelayInv
  <1>1. BInit => IInv
    BY InitBTypes, InitSlots, InitAdapters, InitRelay DEF BInit
  <1>2. IInv /\ [BNext]_<<vars, sent>> => IInv'
    <2> SUFFICES ASSUME IInv, [BNext]_<<vars, sent>> PROVE IInv'
      OBVIOUS
    <2>1. [Next]_vars
      BY BStepsReliable, MilderSteps
    <2>2. QED
      BY <2>1, NextBTypes, NextSlots, NextAdapters, NextRelay DEF BTypeOK
  <1>3. QED
    BY <1>1, <1>2, PTL DEF BSpec

\* However joins, leaves and disconnections overlap with it and however far the
\* adapters lag or when they are replaced, a relayed message reaches nobody twice and a signalling message
\* never its sender (streams.gateway.ts:113-115, 301, 318, 336).
THEOREM NobodyGetsItTwice == BSpec => []RelayedOnce
  <1>1. BTypeOK /\ RelayInv => RelayedOnce
    BY RelayInvHolds
  <1>2. BSpec => []BTypeOK
    BY InitBTypes, NextBTypes, PTL DEF BSpec
  <1>3. QED
    BY <1>1, <1>2, RelayCorrect, PTL

\* It stays on its way to whoever was in the room when it was sent, is there
\* still and has not got it (streams.gateway.ts:301, 318, 336, 359).
THEOREM NobodyMissesIt == BSpec => []RelayOnItsWay
  <1>1. BTypeOK /\ RelayInv => RelayOnItsWay
    BY RelayInvHolds
  <1>2. BSpec => []BTypeOK
    BY InitBTypes, NextBTypes, PTL DEF BSpec
  <1>3. QED
    BY <1>1, <1>2, RelayCorrect, PTL

-----------------------------------------------------------------------------
(***************************************************************************)
(* Replies: one that a process has yet to handle is of a handler that      *)
(* awaits it, at the process of that handler, and is its only one.         *)
(***************************************************************************)
EntriesOf(t) == {e \in Replies : e[1] = t}

AwaitsCount(t) == At(t, Kinds, "card") \/ At(t, {"join"}, "reply")

RepliesAwaited ==
    \A p \in Processes, t \in Tasks :
        /\ HoldsOne(replies[p], EntriesOf(t))
        /\ Holds(replies[p], EntriesOf(t)) =>
              AwaitsCount(t) /\ ServedBy(task[t].sock) = p

\* A request and a closing socket change no slot that holds a handler.
LEMMA AskingFrame ==
    ASSUME BTypeOK, SlotsInv, Asking
    PROVE  /\ \A t \in Tasks : Active(t) => task'[t] = task[t]
           /\ viewers' = viewers
           /\ \A s \in Sockets : rooms'[s] \subseteq rooms[s]
  <1>0. /\ task \in [Tasks -> Activation \cup {Idle}]
        /\ rooms \in [Sockets -> SUBSET Streams]
    BY DEF BTypeOK, TypeOK
  <1>1. ASSUME NEW s \in Sockets, Connect(s)
        PROVE  UNCHANGED <<task, viewers, rooms>>
    BY <1>1 DEF Connect
  <1>2. ASSUME NEW s \in Sockets, Disconnect(s)
        PROVE  /\ \A t \in Tasks : Active(t) => task'[t] = task[t]
               /\ viewers' = viewers
               /\ \A x \in Sockets : rooms'[x] \subseteq rooms[x]
    <2>1. ASSUME NEW t \in Tasks, Active(t) PROVE t \notin {s} \X RoomsVisited(s)
      <3> SUFFICES ASSUME t \in {s} \X RoomsVisited(s) PROVE FALSE
        OBVIOUS
      <3>1. t[1] = s /\ t \in Sockets \X Streams
        BY <1>0 DEF RoomsVisited
      <3>2. task[t].kind = "disconnect" /\ task[t].sock = s
        BY <2>1, <3>1 DEF SlotsInv
      <3>3. conn[s] = "down"
        BY <2>1, <3>2 DEF SlotsInv
      <3>4. QED
        BY <1>2, <3>3 DEF Disconnect
    <2>2. QED
      BY <1>0, <1>2, <2>1 DEF Disconnect
  <1>3. ASSUME NEW c \in Calls, NEW s \in Sockets, NEW st \in Streams,
               JoinRequest(c, s, st) \/ LeaveRequest(c, s, st)
        PROVE  /\ \A t \in Tasks : Active(t) => task'[t] = task[t]
               /\ UNCHANGED <<viewers, rooms>>
    BY <1>0, <1>3 DEF JoinRequest, LeaveRequest, Request
  <1>4. QED
    BY <1>1, <1>2, <1>3 DEF Asking

\* A step that sends nothing is one of a handler that awaits no count; the
\* handler of a change goes on until it awaits its count.
LEMMA SilentFrame ==
    ASSUME BTypeOK, NEW t \in Tasks, SilentStep(t)
    PROVE  /\ Active(t) /\ Step(t) /\ ~AwaitsCount(t)
           /\ \A x \in Tasks \ {t} : task'[x] = task[x]
           /\ task[t].pc \in Busy =>
                 task'[t].pc \in Busy /\ task'[t].stream = task[t].stream
           /\ task[t].kind = "join" =>
                 /\ task'[t].kind = "join" /\ task'[t].pc # "lookup"
                 /\ task'[t].sock = task[t].sock /\ task'[t].stream = task[t].stream
           /\ \A st \in Streams : viewers'[st] # viewers[st] =>
                 task[t].stream = st /\ task[t].pc \in Busy
           /\ \A s \in Sockets, st \in Streams :
                 st \in rooms'[s] \ rooms[s] =>
                    task[t].kind = "join" /\ task[t].sock = s /\ task[t].stream = st
  <1>0. /\ Step(t) /\ TypeOK
        /\ viewers \in [Streams -> SUBSET Sockets] /\ rooms \in [Sockets -> SUBSET Streams]
        /\ task \in [Tasks -> Activation \cup {Idle}]
    BY DEF SilentStep, Step, BTypeOK, TypeOK
  <1>1. Active(t) /\ task[t] \in Activation
    BY <1>0, HandlerActive, ActiveTask
  <1>2. ~AwaitsCount(t)
    BY DEF SilentStep, AwaitsCount, At, JoinLookup, LeaveLookup, DisconnectLookup,
           AddGet, AddSRem, AddSAdd, AddSet, RemoveSRem, RemoveGet, RemoveDel
  <1>3. \A x \in Tasks \ {t} : task'[x] = task[x]
    BY <1>0, HandlerSlots
  <1>4. /\ task[t].pc \in Busy =>
              task'[t].pc \in Busy /\ task'[t].stream = task[t].stream
        /\ task[t].kind = "join" =>
              /\ task'[t].kind = "join" /\ task'[t].pc # "lookup"
              /\ task'[t].sock = task[t].sock /\ task'[t].stream = task[t].stream
    <2>1. CASE JoinLookup(t) \/ LeaveLookup(t) \/ DisconnectLookup(t)
      BY <1>0, <1>1, <2>1 DEF JoinLookup, LeaveLookup, DisconnectLookup, At, Goto,
                              Finish, Busy, Activation
    <2>2. CASE AddGet(t) \/ AddSRem(t)
      BY <1>0, <1>1, <2>2 DEF AddGet, AddSRem, At, Busy, Activation
    <2>3. CASE \/ AddSAdd(t) \/ AddSet(t) \/ RemoveSRem(t) \/ RemoveGet(t)
               \/ RemoveDel(t)
      BY <1>0, <1>1, <2>3 DEF AddSAdd, AddSet, RemoveSRem, RemoveGet, RemoveDel,
                              At, Goto, Busy, Activation
    <2>4. QED
      BY <2>1, <2>2, <2>3 DEF SilentStep
  <1>5. ASSUME NEW st \in Streams, viewers'[st] # viewers[st]
        PROVE  task[t].stream = st /\ task[t].pc \in Busy
    <2>1. StoreEffect(t)
      BY <1>0, HandlerEffect
    <2>2. QED
      BY <1>0, <1>5, <2>1 DEF StoreEffect, SRem, SAdd, Busy
  <1>6. ASSUME NEW s \in Sockets, NEW st \in Streams, st \in rooms'[s] \ rooms[s]
        PROVE  task[t].kind = "join" /\ task[t].sock = s /\ task[t].stream = st
    <2>1. JoinLookup(t) /\ JoinRoom(task[t].sock, task[t].stream)
      BY <1>0, <1>6, HandlerRooms DEF LeaveRoom
    <2>2. QED
      BY <1>0, <1>6, <2>1 DEF JoinRoom, JoinLookup, At
  <1>7. QED
    BY <1>0, <1>1, <1>2, <1>3, <1>4, <1>5, <1>6

\* A step that handles a reply: the handler goes on or ends, the others stay.
LEMMA ReplyFrame ==
    ASSUME BTypeOK, NEW p \in Processes, HandleReply(p),
           NEW t, t = Head(replies[p])[1]
    PROVE  /\ \A x \in Tasks \ {t} : task'[x] = task[x]
           /\ viewers' = viewers
           /\ \A s \in Sockets : rooms'[s] \subseteq rooms[s]
           /\ AwaitsCount(t)
  <1>0. TypeOK /\ rooms \in [Sockets -> SUBSET Streams] /\ t \in Tasks /\ Step(t)
    BY ReplyStep DEF BTypeOK, TypeOK
  <1>1. \A x \in Tasks \ {t} : task'[x] = task[x]
    BY <1>0, HandlerSlots
  <1>2. JoinCounted(t) \/ LeaveCounted(t) \/ DisconnectCounted(t) \/ JoinReply(t)
    BY DEF HandleReply
  <1>3. viewers' = viewers
    BY <1>2 DEF JoinCounted, LeaveCounted, DisconnectCounted, JoinReply
  <1>4. rooms' = rooms \/ LeaveRoom(task[t].sock, task[t].stream)
    BY <1>2 DEF JoinCounted, LeaveCounted, DisconnectCounted, JoinReply
  <1>5. \A s \in Sockets : rooms'[s] \subseteq rooms[s]
    BY <1>0, <1>4 DEF LeaveRoom
  <1>6. AwaitsCount(t)
    BY <1>2 DEF JoinCounted, LeaveCounted, DisconnectCounted, JoinReply, AwaitsCount,
                At, Kinds
  <1>7. QED
    BY <1>1, <1>3, <1>5, <1>6

\* Every step keeps a reply and its handler together.
LEMMA NextReplies ==
    BTypeOK /\ SlotsInv /\ RepliesAwaited /\ [BNext]_<<vars, sent>> => RepliesAwaited'
  <1> SUFFICES ASSUME BTypeOK, SlotsInv, RepliesAwaited, [BNext]_<<vars, sent>>
               PROVE  RepliesAwaited'
    OBVIOUS
  <1>0. /\ replies \in [Processes -> Seq(Replies)]
        /\ \A t : EntriesOf(t)' = EntriesOf(t)
    BY DEF BTypeOK, EntriesOf, Replies, Numbers
  <1>a. \A t \in Tasks : AwaitsCount(t) => Active(t)
    BY DEF AwaitsCount, At, Active
  <1>b. ASSUME NEW t \in Tasks, task'[t] = task[t]
        PROVE  (AwaitsCount(t) <=> AwaitsCount(t)')
    BY <1>b DEF AwaitsCount, At
  <1>1. ASSUME replies' = replies,
               \A t \in Tasks : AwaitsCount(t) => task'[t] = task[t]
        PROVE  RepliesAwaited'
    BY <1>0, <1>1, <1>b DEF RepliesAwaited
  <1>2. CASE Asking
    <2>1. replies' = replies
      BY <1>2 DEF Asking
    <2>2. QED
      BY <1>1, <1>2, <1>a, <2>1, AskingFrame
  <1>3. ASSUME NEW t \in Tasks, SilentStep(t) PROVE RepliesAwaited'
    <2>1. replies' = replies
      BY <1>3 DEF SilentStep
    <2>2. QED
      BY <1>1, <1>3, <2>1, SilentFrame
  <1>4. ASSUME NEW t \in Tasks, SCard(t) PROVE RepliesAwaited'
    <2>0. PICK a \in Processes : ServedBy(task[t].sock) = a
      BY <1>4, SCardStep
    <2>1. task' = task
      BY <1>4 DEF SCard, vars
    <2>2. PICK n \in Numbers :
            /\ \A x \in Processes : replies'[x] = IF x = a THEN Append(replies[a], <<t, n>>)
                                                          ELSE replies[x]
      BY <1>4, <2>0, SCardStep
    <2>3. a \in Processes /\ <<t, n>> \in Replies /\ AwaitsCount(t)
      BY <1>4, <2>0, SCardStep DEF Replies, SCard, AwaitsCount
    <2>4. ~Holds(replies[a], EntriesOf(t))
      BY <1>4, <2>0 DEF SCard, Holds, EntriesOf
    <2>5. ASSUME NEW x \in Processes, NEW y \in Tasks
          PROVE  /\ HoldsOne(replies'[x], EntriesOf(y))
                 /\ Holds(replies'[x], EntriesOf(y)) =>
                       AwaitsCount(y) /\ ServedBy(task[y].sock) = x
      <3>1. /\ HoldsOne(replies[x], EntriesOf(y))
            /\ Holds(replies[x], EntriesOf(y)) =>
                  AwaitsCount(y) /\ ServedBy(task[y].sock) = x
        BY DEF RepliesAwaited
      <3>2. CASE x = a
        <4>1. <<t, n>> \in EntriesOf(y) <=> y = t
          BY <2>3 DEF EntriesOf
        <4>2. HoldsOne(Append(replies[a], <<t, n>>), EntriesOf(y))
          BY <1>0, <2>3, <2>4, <3>1, <3>2, <4>1, AppendHolds
        <4>3. Holds(Append(replies[a], <<t, n>>), EntriesOf(y))
                => Holds(replies[a], EntriesOf(y)) \/ y = t
          BY <1>0, <2>3, <4>1, AppendHolds
        <4>4. QED
          BY <2>2, <2>3, <3>1, <3>2, <2>0, <4>2, <4>3
      <3>3. CASE x # a
        BY <2>2, <3>1, <3>3
      <3>4. QED
        BY <3>2, <3>3
    <2>6. QED
      BY <1>0, <2>1, <2>5 DEF RepliesAwaited, AwaitsCount, At
  <1>5. ASSUME NEW a \in Processes, HandleReply(a) PROVE RepliesAwaited'
    <2> DEFINE t == Head(replies[a])[1]
    <2>1. /\ replies[a] \in Seq(Replies) /\ replies[a] # <<>> /\ t \in Tasks
          /\ \A x \in Processes :
                replies'[x] = IF x = a THEN Tail(replies[a]) ELSE replies[x]
      BY <1>5, ReplyStep
    <2>2. \A x \in Tasks \ {t} : task'[x] = task[x]
      BY <1>5, ReplyFrame
    <2>3. Head(replies[a]) \in EntriesOf(t) /\ Holds(replies[a], EntriesOf(t))
      BY <2>1, TailPlaces DEF EntriesOf, Holds
    <2> HIDE DEF t
    <2>4. ASSUME NEW x \in Processes PROVE ~Holds(replies'[x], EntriesOf(t))
      <3>1. CASE x = a
        BY <2>1, <2>3, <3>1, TailHolds DEF RepliesAwaited
      <3>2. CASE x # a
        BY <2>1, <2>3, <3>2 DEF RepliesAwaited
      <3>3. QED
        BY <3>1, <3>2
    <2>5. ASSUME NEW x \in Processes, NEW y \in Tasks
          PROVE  /\ HoldsOne(replies'[x], EntriesOf(y))
                 /\ Holds(replies'[x], EntriesOf(y)) => Holds(replies[x], EntriesOf(y))
      <3>1. HoldsOne(replies[x], EntriesOf(y))
        BY DEF RepliesAwaited
      <3>2. CASE x = a
        <4>1. /\ HoldsOne(Tail(replies[a]), EntriesOf(y))
              /\ Holds(Tail(replies[a]), EntriesOf(y)) => Holds(replies[a], EntriesOf(y))
          BY <2>1, <3>1, <3>2, TailHolds
        <4>2. QED
          BY <2>1, <3>2, <4>1
      <3>3. CASE x # a
        BY <2>1, <3>1, <3>3
      <3>4. QED
        BY <3>2, <3>3
    <2>6. ASSUME NEW x \in Processes, NEW y \in Tasks, Holds(replies'[x], EntriesOf(y))
          PROVE  AwaitsCount(y)' /\ ServedBy(task'[y].sock) = x
      <3>1. y # t
        BY <2>4, <2>6
      <3>2. AwaitsCount(y) /\ ServedBy(task[y].sock) = x
        BY <2>5, <2>6 DEF RepliesAwaited
      <3>3. task'[y] = task[y]
        BY <2>2, <3>1
      <3>4. QED
        BY <1>b, <3>2, <3>3
    <2>7. QED
      BY <1>0, <2>5, <2>6 DEF RepliesAwaited
  <1>6. CASE \/ Delivery \/ UNCHANGED <<vars, sent>>
             \/ \E p \in Processes : Replace(p)
             \/ \E k \in Relays, s \in Sockets, st \in Streams : Relay(k, s, st)
    <2>1. UNCHANGED <<task, replies>>
      BY <1>6 DEF Delivery, Deliver, Replace, Relay, vars, sent
    <2>2. QED
      BY <1>1, <2>1
  <1>7. QED
    BY <1>2, <1>3, <1>4, <1>5, <1>6 DEF BNext

-----------------------------------------------------------------------------
(***************************************************************************)
(* The last count.  When a handler changes the set of a stream, a count of *)
(* that stream is to be taken after the change; the counts are broadcast,  *)
(* published and emitted in the order in which they were taken; so unless  *)
(* one is still to be taken, the last on its way is the size of the set,   *)
(* and so is what a socket shows to which nothing is on its way.           *)
(***************************************************************************)
RepliesFor(st) == {e \in Replies : task[e[1]].stream = st /\ ~AsksOddly(e[1])}

BroadcastsFor(st) == {e \in RepliesFor(st) : task[e[1]].pc = "card"}

RightReplies(st) == {e \in Replies : e[2] \in RightFor(st)}

CountMessages == {m \in Messages : m.what = "count"}

CountsFor(st) == {m \in CountMessages : m.stream = st}

RightCounts(st) == {m \in Messages : m.n \in RightFor(st)}

\* Some handler of st is to broadcast a count that Redis has not taken.
Uncounted(st) ==
    \E t \in Tasks :
        /\ task[t].stream = st /\ task[t].pc \in Busy
        /\ \A p \in Processes : ~Holds(replies[p], EntriesOf(t))

\* Some join of s has put it in the room of st and is not over.
JoinOpen(s, st) ==
    \E t \in Tasks : /\ task[t].kind = "join" /\ task[t].pc # "lookup"
                     /\ task[t].sock = s /\ task[t].stream = st

\* Nothing is on its way from the adapter c to s, and s was told the right number.
ToldRight(c, s, st) ==
    \/ s \in Odd
    \/ st \notin rooms[s]
    \/ Holds(chan[c][GivenTo[s]], CountsFor(st))
    \/ shown[s][st] \in RightFor(st)
    \/ JoinOpen(s, st)

\* What the process p, whose adapter is c, has to send ends with the right number.
EndsRight(p, c, st) ==
    /\ Newest(replies[p], RepliesFor(st), BroadcastsFor(st), RightReplies(st))
    /\ ~Holds(replies[p], BroadcastsFor(st)) =>
          /\ \A b \in Adapters :
                Newest(chan[c][b], CountsFor(st), CountsFor(st), RightCounts(st))
          /\ \A s \in Sockets : ToldRight(c, s, st)

\* The adapters of p are sent counts by its adapter c alone.
CountsFrom(p, c) ==
    \A a, b \in Adapters :
        b[1] = p /\ Holds(chan[a][b], CountMessages) => a = c /\ b # c

LastOf(p, c) ==
    /\ CountsFrom(p, c)
    /\ \A st \in Streams : Uncounted(st) \/ EndsRight(p, c, st)

\* All sockets are served by p.
Serves(p) == \A s \in Sockets : ServedBy(s) = p

LastInv == \A p \in Processes : Serves(p) => LastOf(p, Current(p))

\* What the process takes for a broadcast or a reply depends only on the
\* handlers that have an entry in the queue.
LEMMA SameClasses ==
    ASSUME BTypeOK, NEW q \in Seq(Replies), NEW st \in Streams,
           viewers'[st] = viewers[st],
           \A t \in Tasks : Holds(q, EntriesOf(t)) => task'[t] = task[t]
    PROVE  /\ Holds(q, BroadcastsFor(st)) <=> Holds(q, BroadcastsFor(st)')
           /\ Newest(q, RepliesFor(st), BroadcastsFor(st), RightReplies(st))
                => Newest(q, RepliesFor(st)', BroadcastsFor(st)', RightReplies(st)')
  <1>1. \A i \in DOMAIN q : q[i] \in Replies
    BY LenProperties, ElementOfSeq
  <1>2. \A i \in DOMAIN q : q[i][1] \in Tasks /\ q[i] \in EntriesOf(q[i][1])
    BY <1>1 DEF EntriesOf, Replies
  <1>3. \A i \in DOMAIN q : task'[q[i][1]] = task[q[i][1]]
    BY <1>2 DEF Holds
  <1>4. \A i \in DOMAIN q : /\ q[i] \in RepliesFor(st) <=> q[i] \in RepliesFor(st)'
                            /\ q[i] \in BroadcastsFor(st) <=> q[i] \in BroadcastsFor(st)'
    BY <1>1, <1>3 DEF RepliesFor, BroadcastsFor, AsksOddly
  <1>5. RightReplies(st)' = RightReplies(st)
    BY DEF RightReplies, RightFor
  <1>6. QED
    BY <1>4, <1>5 DEF Holds, Newest

\* What a count still to be taken survives: the steps of other handlers.
LEMMA UncountedKept ==
    ASSUME NEW st \in Streams, Uncounted(st),
           \A t \in Tasks :
              /\ task[t].pc \in Busy
              /\ \A p \in Processes : ~Holds(replies[p], EntriesOf(t))
              => /\ task'[t].pc \in Busy /\ task'[t].stream = task[t].stream
                 /\ \A p \in Processes : ~Holds(replies'[p], EntriesOf(t))
    PROVE  Uncounted(st)'
  <1>1. \A t : EntriesOf(t)' = EntriesOf(t)
    BY DEF EntriesOf, Replies, Numbers
  <1>2. QED
    BY <1>1 DEF Uncounted

\* Nothing is lost by a step that leaves the queues of c as they are.
LEMMA QueuesKept ==
    ASSUME BTypeOK, NEW p \in Processes, NEW c \in Adapters, NEW st \in Streams, EndsRight(p, c, st),
           viewers'[st] = viewers[st], UNCHANGED <<replies, chan>>,
           \A t \in Tasks : Holds(replies[p], EntriesOf(t)) => task'[t] = task[t],
           \A s \in Sockets : ToldRight(c, s, st) => ToldRight(c, s, st)'
    PROVE  EndsRight(p, c, st)'
  <1>1. replies[p] \in Seq(Replies)
    BY DEF BTypeOK
  <1>2. /\ Holds(replies[p], BroadcastsFor(st)) <=> Holds(replies[p], BroadcastsFor(st)')
        /\ Newest(replies[p], RepliesFor(st), BroadcastsFor(st), RightReplies(st))
             => Newest(replies[p], RepliesFor(st)', BroadcastsFor(st)', RightReplies(st)')
    BY <1>1, SameClasses
  <1>3. /\ CountsFor(st)' = CountsFor(st) /\ RightCounts(st)' = RightCounts(st)
        /\ replies'[p] = replies[p] /\ chan' = chan
    BY DEF CountsFor, CountMessages, Messages, Numbers, RightCounts, RightFor
  <1>4. QED
    BY <1>2, <1>3 DEF EndsRight

\* The environment's steps and those that send nothing.
LEMMA QuietKeepsLast ==
    ASSUME BTypeOK, SlotsInv, RepliesAwaited, NEW p \in Processes,
           NEW c \in Adapters, NEW st \in Streams,
           Uncounted(st) \/ EndsRight(p, c, st),
           Asking \/ \E t \in Tasks : SilentStep(t)
    PROVE  Uncounted(st)' \/ EndsRight(p, c, st)'
  <1>0. /\ UNCHANGED <<replies, chan>> /\ shown' = ShownIn(shown)
        /\ shown \in [Sockets -> [Streams -> Numbers \cup {None}]]
        /\ task \in [Tasks -> Activation \cup {Idle}]
    BY DEF Asking, SilentStep, BTypeOK, TypeOK
  <1>a. \A s \in Sockets : st \in rooms'[s] => shown'[s][st] = shown[s][st]
    BY <1>0, ShownInValue
  <1>b. \A s \in Sockets : CountsFor(st)' = CountsFor(st)
    BY DEF CountsFor, CountMessages, Messages, Numbers
  <1>c. \A t \in Tasks : AwaitsCount(t) => Active(t)
    BY DEF AwaitsCount, At, Active
  <1>d. \A t \in Tasks : (task[t].pc \in Busy \/ task[t].kind = "join") => Active(t)
    BY <1>0 DEF Active, Busy, Idle, Activation, Awaits
  <1>1. CASE Asking
    <2>1. /\ \A t \in Tasks : Active(t) => task'[t] = task[t]
          /\ viewers' = viewers /\ \A s \in Sockets : rooms'[s] \subseteq rooms[s]
      BY <1>1, AskingFrame
    <2>2. CASE Uncounted(st)
      BY <1>0, <1>d, <2>1, <2>2, UncountedKept
    <2>3. CASE EndsRight(p, c, st)
      <3>1. \A t \in Tasks : Holds(replies[p], EntriesOf(t)) => task'[t] = task[t]
        BY <1>c, <2>1 DEF RepliesAwaited
      <3>2. ASSUME NEW s \in Sockets, ToldRight(c, s, st) PROVE ToldRight(c, s, st)'
        <4>1. JoinOpen(s, st) => JoinOpen(s, st)'
          BY <1>d, <2>1 DEF JoinOpen
        <4>2. RightFor(st)' = RightFor(st)
          BY <2>1 DEF RightFor
        <4>3. QED
          BY <1>0, <1>a, <1>b, <2>1, <3>2, <4>1, <4>2 DEF ToldRight
      <3>3. QED
        BY <1>0, <2>1, <2>3, <3>1, <3>2, QueuesKept
    <2>4. QED
      BY <2>2, <2>3
  <1>2. ASSUME NEW t \in Tasks, SilentStep(t)
        PROVE  Uncounted(st)' \/ EndsRight(p, c, st)'
    <2>1. /\ ~AwaitsCount(t) /\ \A x \in Tasks \ {t} : task'[x] = task[x]
          /\ task[t].pc \in Busy =>
                task'[t].pc \in Busy /\ task'[t].stream = task[t].stream
          /\ task[t].kind = "join" =>
                /\ task'[t].kind = "join" /\ task'[t].pc # "lookup"
                /\ task'[t].sock = task[t].sock /\ task'[t].stream = task[t].stream
          /\ viewers'[st] # viewers[st] => task[t].stream = st /\ task[t].pc \in Busy
          /\ \A s \in Sockets : st \in rooms'[s] \ rooms[s] =>
                task[t].kind = "join" /\ task[t].sock = s /\ task[t].stream = st
      BY <1>2, SilentFrame
    <2>2. \A x \in Processes : ~Holds(replies[x], EntriesOf(t))
      BY <2>1 DEF RepliesAwaited
    <2>3. CASE viewers'[st] # viewers[st]
      <3>1. \A x \in Processes : ~Holds(replies[x], EntriesOf(t))'
        BY <1>0, <2>2 DEF EntriesOf, Replies, Numbers
      <3>2. QED
        BY <2>1, <2>3, <3>1 DEF Uncounted
    <2>4. CASE viewers'[st] = viewers[st] /\ Uncounted(st)
      BY <1>0, <2>1, <2>4, UncountedKept
    <2>5. CASE viewers'[st] = viewers[st] /\ EndsRight(p, c, st)
      <3>1. \A x \in Tasks : Holds(replies[p], EntriesOf(x)) => task'[x] = task[x]
        BY <2>1, <2>2
      <3>2. ASSUME NEW s \in Sockets, ToldRight(c, s, st) PROVE ToldRight(c, s, st)'
        <4>1. JoinOpen(s, st) => JoinOpen(s, st)'
          BY <2>1 DEF JoinOpen
        <4>2. st \in rooms'[s] \ rooms[s] => JoinOpen(s, st)'
          BY <2>1 DEF JoinOpen
        <4>3. RightFor(st)' = RightFor(st)
          BY <2>5 DEF RightFor
        <4>4. QED
          BY <1>0, <1>a, <1>b, <3>2, <4>1, <4>2, <4>3 DEF ToldRight
      <3>3. QED
        BY <1>0, <2>5, <3>1, <3>2, QueuesKept
    <2>6. QED
      BY <2>3, <2>4, <2>5
  <1>3. QED
    BY <1>1, <1>2

\* The count that Redis takes is the size of the set.
LEMMA SCardKeepsLast ==
    ASSUME BTypeOK, RepliesAwaited, NEW p \in Processes,
           NEW c \in Adapters, NEW st \in Streams,
           Uncounted(st) \/ EndsRight(p, c, st),
           NEW t \in Tasks, SCard(t), ServedBy(task[t].sock) = p
    PROVE  Uncounted(st)' \/ EndsRight(p, c, st)'
  <1>1. PICK n \in Numbers :
           /\ ~AsksOddly(t) => n \in RightFor(task[t].stream)
           /\ \A x \in Processes : replies'[x] = IF x = p THEN Append(replies[p], <<t, n>>)
                                                         ELSE replies[x]
    BY SCardStep
  <1> DEFINE e == <<t, n>>
  <1>2. /\ replies[p] \in Seq(Replies) /\ e \in Replies /\ e[1] = t /\ e[2] = n
        /\ UNCHANGED <<task, viewers, rooms, shown, chan>>
    BY DEF BTypeOK, Replies, SCard, vars
  <1>3. /\ RepliesFor(st)' = RepliesFor(st) /\ BroadcastsFor(st)' = BroadcastsFor(st)
        /\ RightReplies(st)' = RightReplies(st) /\ CountsFor(st)' = CountsFor(st)
        /\ RightCounts(st)' = RightCounts(st)
        /\ \A x : EntriesOf(x)' = EntriesOf(x)
    BY <1>2 DEF RepliesFor, BroadcastsFor, RightReplies, CountsFor, CountMessages,
                Messages, Numbers, RightCounts, RightFor, EntriesOf, Replies, AsksOddly
  <1>4. \A s \in Sockets : ToldRight(c, s, st) <=> ToldRight(c, s, st)'
    BY <1>2, <1>3 DEF ToldRight, JoinOpen, RightFor
  <1>5. e \in RepliesFor(st) => e \in RightReplies(st)
    BY <1>1, <1>2 DEF RepliesFor, RightReplies
  <1> HIDE DEF e
  <1>6. ASSUME Newest(replies[p], RepliesFor(st), BroadcastsFor(st), RightReplies(st))
                 \/ e \in BroadcastsFor(st)
        PROVE  Newest(replies'[p], RepliesFor(st), BroadcastsFor(st), RightReplies(st))
    <2>1. replies'[p] = Append(replies[p], e)
      BY <1>1 DEF e
    <2>2. QED
      BY <1>2, <1>5, <1>6, <2>1, AppendNewest
  <1>7. Holds(replies'[p], BroadcastsFor(st))
           <=> Holds(replies[p], BroadcastsFor(st)) \/ e \in BroadcastsFor(st)
    <2>1. replies'[p] = Append(replies[p], e)
      BY <1>1 DEF e
    <2>2. QED
      BY <1>2, <2>1, AppendHolds
  <1>8. CASE e \in BroadcastsFor(st)
    BY <1>3, <1>6, <1>7, <1>8 DEF EndsRight
  <1>9. CASE e \notin BroadcastsFor(st) /\ EndsRight(p, c, st)
    BY <1>2, <1>3, <1>4, <1>6, <1>7, <1>9 DEF EndsRight
  <1>10. CASE e \notin BroadcastsFor(st) /\ Uncounted(st)
    <2>1. PICK x \in Tasks :
             /\ task[x].stream = st /\ task[x].pc \in Busy
             /\ \A a \in Processes : ~Holds(replies[a], EntriesOf(x))
      BY <1>10 DEF Uncounted
    <2>2. x # t
      <3>1. SUFFICES ASSUME x = t PROVE FALSE
        OBVIOUS
      <3>2. task[t].pc = "card"
        BY <2>1, <3>1 DEF SCard, At, Busy
      <3>3. QED
        BY <1>2, <1>10, <2>1, <3>1, <3>2 DEF BroadcastsFor, RepliesFor, AsksOddly
    <2>3. ASSUME NEW a \in Processes PROVE ~Holds(replies'[a], EntriesOf(x))
      <3>1. e \notin EntriesOf(x)
        BY <1>2, <2>2 DEF EntriesOf
      <3>2. Holds(Append(replies[p], e), EntriesOf(x))
               <=> Holds(replies[p], EntriesOf(x)) \/ e \in EntriesOf(x)
        BY <1>2, AppendHolds
      <3>3. QED
        BY <1>1, <2>1, <3>1, <3>2 DEF e
    <2>4. QED
      BY <1>2, <1>3, <2>1, <2>3 DEF Uncounted
  <1>11. QED
    BY <1>8, <1>9, <1>10

\* The handler whose reply is the oldest at the process p, its number, and the
\* message that broadcasts it.
ReplyHandler(p) == Head(replies[p])[1]

ReplyNumber(p) == Head(replies[p])[2]

ReplyMessage(p) == CountMessage(task[ReplyHandler(p)].stream, ReplyNumber(p))

\* Handling a reply broadcasts the number or tells it to the client alone.
LEMMA ReplyEffect ==
    ASSUME BTypeOK, NEW p \in Processes, HandleReply(p)
    PROVE  /\ ReplyMessage(p) \in Messages /\ ReplyMessage(p).what = "count"
           /\ ReplyMessage(p).stream = task[ReplyHandler(p)].stream
           /\ ReplyMessage(p).n = ReplyNumber(p) /\ ReplyMessage(p).except = {}
           /\ \/ /\ task[ReplyHandler(p)].pc = "card"
                 /\ chan' = Publish(Current(p), ReplyMessage(p))
                 /\ Told(Receivers(Current(p), ReplyMessage(p)),
                         task[ReplyHandler(p)].stream, ReplyNumber(p))
              \/ /\ task[ReplyHandler(p)].pc = "reply" /\ chan' = chan
                 /\ Told({task[ReplyHandler(p)].sock},
                         task[ReplyHandler(p)].stream, ReplyNumber(p))
  <1> DEFINE t == ReplyHandler(p)
             n == ReplyNumber(p)
             m == ReplyMessage(p)
  <1>0. /\ t = Head(replies[p])[1] /\ n = Head(replies[p])[2]
        /\ m = CountMessage(task[t].stream, n)
    BY DEF ReplyHandler, ReplyNumber, ReplyMessage
  <1> HIDE DEF t, n, m
  <1>1. /\ m \in Messages /\ n \in Numbers /\ task[t].stream \in Streams
        /\ {task[t].sock} \in SUBSET Sockets
    BY <1>0, ReplyStep
  <1>2. /\ m.what = "count" /\ m.stream = task[t].stream /\ m.n = n /\ m.except = {}
    BY <1>0 DEF CountMessage
  <1>3. \/ /\ JoinCounted(t) \/ LeaveCounted(t) \/ DisconnectCounted(t)
           /\ shown' = ShownIn(Tell(Receivers(Current(p), m), m.stream, m.n))
           /\ chan' = Publish(Current(p), m)
        \/ /\ JoinReply(t)
           /\ shown' = ShownIn(Tell({task[t].sock}, m.stream, m.n))
           /\ chan' = chan
    BY <1>0 DEF HandleReply, Broadcasts, JoinCounted, LeaveCounted, DisconnectCounted, At
  <1>4. CASE JoinReply(t) /\ shown' = ShownIn(Tell({task[t].sock}, m.stream, m.n))
             /\ chan' = chan
    <2>1. task[t].pc = "reply"
      BY <1>4 DEF JoinReply, At
    <2>2. Told({task[t].sock}, task[t].stream, n)
      BY <1>1, <1>2, <1>4, TellTold
    <2>3. QED
      BY <1>1, <1>2, <1>4, <2>1, <2>2 DEF t, n, m
  <1>5. CASE /\ JoinCounted(t) \/ LeaveCounted(t) \/ DisconnectCounted(t)
             /\ shown' = ShownIn(Tell(Receivers(Current(p), m), m.stream, m.n))
             /\ chan' = Publish(Current(p), m)
    <2>1. task[t].pc = "card"
      BY <1>5 DEF JoinCounted, LeaveCounted, DisconnectCounted, At
    <2>2. Receivers(Current(p), m) \in SUBSET Sockets
      BY DEF Receivers
    <2>3. Told(Receivers(Current(p), m), task[t].stream, n)
      BY <1>1, <1>2, <1>5, <2>2, TellTold
    <2>4. QED
      BY <1>1, <1>2, <1>5, <2>1, <2>3 DEF t, n, m
  <1>6. QED
    BY <1>1, <1>2, <1>3, <1>4, <1>5 DEF t, n, m

\* A number that is handled takes its place at the end of what is on its way.
LEMMA ReplyKeepsLast ==
    ASSUME BTypeOK, SlotsInv, AdaptersInv, RepliesAwaited, NEW p \in Processes,
           NEW c \in Adapters, c = Current(p), NEW st \in Streams,
           CountsFrom(p, c), Uncounted(st) \/ EndsRight(p, c, st), HandleReply(p)
    PROVE  Uncounted(st)' \/ EndsRight(p, c, st)'
  <1> DEFINE t == ReplyHandler(p)
             n == ReplyNumber(p)
             m == ReplyMessage(p)
             q == Tail(replies[p])
  <1>a. t = Head(replies[p])[1] /\ n = Head(replies[p])[2]
    BY DEF ReplyHandler, ReplyNumber
  <1>b. /\ m \in Messages /\ m.what = "count" /\ m.stream = task[t].stream
        /\ m.n = n /\ m.except = {}
        /\ \/ /\ task[t].pc = "card" /\ chan' = Publish(c, m)
              /\ Told(Receivers(c, m), task[t].stream, n)
           \/ /\ task[t].pc = "reply" /\ chan' = chan
              /\ Told({task[t].sock}, task[t].stream, n)
    BY ReplyEffect
  <1> HIDE DEF t, n, m
  <1>1. /\ replies[p] \in Seq(Replies) /\ replies[p] # <<>>
        /\ Head(replies[p]) = <<t, n>> /\ t \in Tasks /\ n \in Numbers
        /\ \A x \in Processes : replies'[x] = IF x = p THEN q ELSE replies[x]
        /\ task[t].sock \in Sockets
    BY <1>a, ReplyStep
  <1>2. /\ \A x \in Tasks \ {t} : task'[x] = task[x]
        /\ viewers' = viewers /\ \A s \in Sockets : rooms'[s] \subseteq rooms[s]
    BY <1>a, ReplyFrame
  <1>3. /\ q \in Seq(Replies) /\ Head(replies[p]) \in Replies
        /\ Head(replies[p]) \in EntriesOf(t) /\ Holds(replies[p], EntriesOf(t))
    BY <1>1, <1>a, TailPlaces DEF EntriesOf, Holds
  <1>4. ~Holds(q, EntriesOf(t))
    BY <1>1, <1>3, TailHolds DEF RepliesAwaited
  <1> HIDE DEF q
  <1>5. /\ Holds(q, BroadcastsFor(st)) <=> Holds(q, BroadcastsFor(st)')
        /\ Newest(q, RepliesFor(st), BroadcastsFor(st), RightReplies(st))
             => Newest(q, RepliesFor(st)', BroadcastsFor(st)', RightReplies(st)')
    <2>1. \A x \in Tasks : Holds(q, EntriesOf(x)) => task'[x] = task[x]
      BY <1>2, <1>4
    <2>2. viewers'[st] = viewers[st]
      BY <1>2
    <2>3. QED
      BY <1>3, <2>1, <2>2, SameClasses
  <1>6. CASE Uncounted(st)
    <2>1. ASSUME NEW x \in Tasks, \A y \in Processes : ~Holds(replies[y], EntriesOf(x))
          PROVE  /\ task'[x] = task[x]
                 /\ \A y \in Processes : ~Holds(replies'[y], EntriesOf(x))
      <3>1. x # t
        BY <1>3, <2>1
      <3>2. ~Holds(q, EntriesOf(x))
        BY <1>1, <2>1, TailHolds DEF q
      <3>3. QED
        BY <1>1, <1>2, <2>1, <3>1, <3>2
    <2>2. QED
      BY <1>6, <2>1, UncountedKept
  <1>7. CASE EndsRight(p, c, st)
    <2> DEFINE R == RightCounts(st)
               C == CountsFor(st)
    <2>0. /\ RightFor(st)' = RightFor(st) /\ C' = C /\ R' = R
      BY <1>2 DEF CountsFor, CountMessages, Messages, Numbers, RightCounts, RightFor
    <2>a. Newest(q, RepliesFor(st), BroadcastsFor(st), RightReplies(st))
      BY <1>1, <1>7, TailNewest DEF EndsRight, q
    <2>b. ASSUME ~Holds(q, BroadcastsFor(st)), Head(replies[p]) \in RepliesFor(st)
          PROVE  n \in RightFor(st)
      <3>1. Head(replies[p]) \in RightReplies(st)
        BY <1>1, <1>7, <2>b, TailNewest DEF EndsRight, q
      <3>2. QED
        BY <1>1, <3>1 DEF RightReplies
    <2>c. /\ Head(replies[p]) \in RepliesFor(st)
               <=> task[t].stream = st /\ ~AsksOddly(t)
          /\ Head(replies[p]) \in BroadcastsFor(st)
               <=> task[t].stream = st /\ task[t].pc = "card"
      BY <1>1, <1>3 DEF RepliesFor, BroadcastsFor, AsksOddly
    <2>d. chan \in [Adapters -> [Adapters -> Seq(Messages)]]
      BY DEF BTypeOK
    <2>1. SUFFICES ASSUME ~Holds(q, BroadcastsFor(st))
                   PROVE  /\ \A b \in Adapters : Newest(chan'[c][b], C, C, R)
                          /\ \A s \in Sockets : ToldRight(c, s, st)'
      BY <1>1, <1>5, <2>0, <2>a DEF EndsRight
    <2>2. CASE task[t].stream = st /\ task[t].pc = "card"
      <3>0. ~AsksOddly(t)
        BY <2>2 DEF AsksOddly
      <3>1. m \in C /\ m \in R /\ n \in RightFor(st)
        BY <1>b, <2>1, <2>2, <2>b, <2>c, <3>0
           DEF CountsFor, CountMessages, RightCounts
      <3>2. \A b \in Adapters :
               chan'[c][b] = IF b # c /\ b \in Reading THEN Append(chan[c][b], m)
                             ELSE chan[c][b]
        BY <1>b, <2>2, PublishValue
      <3>3. ASSUME NEW b \in Adapters PROVE Newest(chan'[c][b], C, C, R)
        <4>1. CASE b # c /\ b \in Reading
          BY <1>b, <2>d, <3>1, <3>2, <4>1, AppendNewest
        <4>a. CASE b \notin Reading
          <5>1. chan[c][b] = <<>> /\ DOMAIN <<>> = {}
            BY <4>a DEF AdaptersInv, SilentIfNotReading
          <5>2. QED
            BY <3>2, <4>a, <5>1 DEF Newest
        <4>2. CASE b = c
          <5>1. ~Holds(chan[c][c], CountMessages)
            BY AdapterFacts DEF CountsFrom
          <5>2. QED
            BY <3>2, <4>2, <5>1 DEF Holds, Newest, CountsFor
        <4>3. QED
          BY <4>1, <4>a, <4>2
      <3>4. ASSUME NEW s \in Sockets PROVE ToldRight(c, s, st)'
        <4>1. CASE GivenTo[s] # c /\ st \in rooms'[s]
          <5>1. Holds(Append(chan[c][GivenTo[s]], m), C)
            BY <1>b, <2>d, <3>1, AppendHolds
          <5>2. GivenTo[s] \in Reading
            BY <1>2, <4>1, InRoomReading
          <5>3. QED
            BY <2>0, <3>2, <4>1, <5>1, <5>2 DEF ToldRight
        <4>2. CASE GivenTo[s] = c /\ st \in rooms'[s]
          <5>1. s \in Receivers(c, m)
            BY <1>2, <1>b, <2>2, <4>2 DEF Receivers
          <5>2. shown'[s][st] = n
            BY <1>b, <2>2, <4>2, <5>1 DEF Told
          <5>3. QED
            BY <2>0, <3>1, <5>2 DEF ToldRight
        <4>3. CASE st \notin rooms'[s]
          BY <4>3 DEF ToldRight
        <4>4. QED
          BY <4>1, <4>2, <4>3
      <3>5. QED
        BY <3>3, <3>4
    <2>3. CASE ~(task[t].stream = st /\ task[t].pc = "card")
      <3>1. ~Holds(replies[p], BroadcastsFor(st))
        BY <1>1, <2>1, <2>3, <2>c, TailHolds DEF q
      <3>2. /\ \A b \in Adapters : Newest(chan[c][b], C, C, R)
            /\ \A s \in Sockets : ToldRight(c, s, st)
        BY <1>7, <3>1 DEF EndsRight
      <3>3. CASE task[t].pc = "card"
        <4>1. m \notin C /\ task[t].stream # st
          BY <1>b, <2>3, <3>3 DEF CountsFor
        <4>2. \A b \in Adapters :
                 chan'[c][b] = IF b # c /\ b \in Reading THEN Append(chan[c][b], m)
                               ELSE chan[c][b]
          BY <1>b, <3>3, PublishValue
        <4>3. \A b \in Adapters : Newest(Append(chan[c][b], m), C, C, R)
          BY <1>b, <2>d, <3>2, <4>1, AppendNewest
        <4>4. \A b \in Adapters : Holds(chan[c][b], C) => Holds(Append(chan[c][b], m), C)
          BY <1>b, <2>d, AppendHolds
        <4>5. ASSUME NEW s \in Sockets PROVE ToldRight(c, s, st)'
          <5>1. JoinOpen(s, st) => JoinOpen(s, st)'
            BY <1>2, <4>1 DEF JoinOpen
          <5>2. Holds(chan[c][GivenTo[s]], C) => Holds(chan'[c][GivenTo[s]], C)
            BY <4>2, <4>4
          <5>3. st \in rooms'[s] => shown'[s][st] = shown[s][st] /\ st \in rooms[s]
            BY <1>2, <1>b, <3>3, <4>1 DEF Told
          <5>4. QED
            BY <2>0, <3>2, <5>1, <5>2, <5>3 DEF ToldRight
        <4>6. QED
          BY <3>2, <4>2, <4>3, <4>5
      <3>4. CASE task[t].pc # "card"
        <4>1. /\ chan' = chan
              /\ \A s \in Sockets : st \in rooms'[s] =>
                    /\ s = task[t].sock /\ st = task[t].stream => shown'[s][st] = n
                    /\ ~(s = task[t].sock /\ st = task[t].stream)
                         => shown'[s][st] = shown[s][st]
          BY <1>b, <3>4 DEF Told
        <4>2. ASSUME NEW s \in Sockets PROVE ToldRight(c, s, st)'
          <5>1. CASE s = task[t].sock /\ st = task[t].stream
            BY <2>0, <2>1, <2>b, <2>c, <4>1, <5>1 DEF ToldRight, AsksOddly
          <5>2. CASE ~(s = task[t].sock /\ st = task[t].stream)
            <6>1. JoinOpen(s, st) => JoinOpen(s, st)'
              BY <1>2, <5>2 DEF JoinOpen
            <6>2. st \in rooms'[s] => shown'[s][st] = shown[s][st] /\ st \in rooms[s]
              BY <1>2, <4>1, <5>2
            <6>3. QED
              BY <2>0, <3>2, <4>1, <6>1, <6>2 DEF ToldRight
          <5>3. QED
            BY <5>1, <5>2
        <4>3. QED
          BY <3>2, <4>1, <4>2
      <3>5. QED
        BY <3>3, <3>4
    <2>4. QED
      BY <2>2, <2>3
  <1>8. QED
    BY <1>6, <1>7

\* A count that is read is the newest of its channel, or a newer one follows it.
LEMMA DeliverKeepsLast ==
    ASSUME BTypeOK, NEW p \in Processes, Serves(p), NEW c \in Adapters,
           NEW st \in Streams, CountsFrom(p, c), Uncounted(st) \/ EndsRight(p, c, st),
           NEW a \in Adapters, NEW b \in Adapters, Deliver(a, b)
    PROVE  Uncounted(st)' \/ EndsRight(p, c, st)'
  <1> DEFINE m == Head(chan[a][b])
             q == Tail(chan[a][b])
             C == CountsFor(st)
             R == RightCounts(st)
  <1>1. /\ chan[a][b] \in Seq(Messages) /\ chan[a][b] # <<>> /\ m \in Messages
        /\ \A x, y \in Adapters :
              chan'[x][y] = IF x = a /\ y = b THEN q ELSE chan[x][y]
    BY DeliverValue
  <1>2. UNCHANGED <<task, viewers, rooms, replies>>
    BY DEF Deliver, vars
  <1>3. /\ C' = C /\ R' = R /\ RightFor(st)' = RightFor(st)
        /\ RepliesFor(st)' = RepliesFor(st) /\ BroadcastsFor(st)' = BroadcastsFor(st)
        /\ RightReplies(st)' = RightReplies(st)
        /\ \A x : EntriesOf(x)' = EntriesOf(x)
    BY <1>2 DEF RepliesFor, BroadcastsFor, RightReplies, CountsFor, CountMessages,
                Messages, Numbers, RightCounts, RightFor, EntriesOf, Replies, AsksOddly
  <1>4. Uncounted(st) => Uncounted(st)'
    BY <1>2, <1>3 DEF Uncounted
  <1>5. SUFFICES ASSUME EndsRight(p, c, st), ~Holds(replies[p], BroadcastsFor(st))
                 PROVE  /\ \A y \in Adapters : Newest(chan'[c][y], C, C, R)
                        /\ \A s \in Sockets : ToldRight(c, s, st)'
    BY <1>2, <1>3, <1>4 DEF EndsRight
  <1>6. /\ \A y \in Adapters : Newest(chan[c][y], C, C, R)
        /\ \A s \in Sockets : ToldRight(c, s, st)
    BY <1>5 DEF EndsRight
  <1>7. /\ Newest(chan[a][b], C, C, R) => Newest(q, C, C, R)
        /\ Newest(chan[a][b], C, C, R) /\ m \in C /\ ~Holds(q, C) => m \in R
    <2>1. Newest(chan[a][b], C, C, R) => Newest(Tail(chan[a][b]), C, C, R)
      BY <1>1, TailNewest
    <2>2. Newest(chan[a][b], C, C, R) /\ Head(chan[a][b]) \in C
             /\ ~Holds(Tail(chan[a][b]), C) => Head(chan[a][b]) \in R
      BY <1>1, TailNewest
    <2>3. QED
      BY <2>1, <2>2
  <1>8. Holds(chan[a][b], C) => m \in C \/ Holds(q, C)
    BY <1>1, TailHolds
  <1>9. b[1] = p /\ m \in C => a = c
    <2>1. m \in C => Holds(chan[a][b], CountMessages)
      BY <1>1, TailPlaces DEF Holds, CountsFor
    <2>2. QED
      BY <2>1 DEF CountsFrom
  <1>b. /\ m.stream \in Streams /\ m.n \in Numbers
        /\ m.what = "count" => m.except = {}
        /\ Receivers(b, m) \in SUBSET Sockets
    BY <1>1 DEF Messages, Receivers
  <1>c. \/ /\ m.what = "count" /\ shown' = Tell(Receivers(b, m), m.stream, m.n)
        \/ /\ m.what # "count" /\ shown' = shown
    BY DEF Deliver
  <1> HIDE DEF m, q
  <1>d. ASSUME NEW s \in Sockets
        PROVE  /\ m.what = "count" /\ s \in Receivers(b, m) /\ m.stream = st
                    => shown'[s][st] = m.n
               /\ ~(m.what = "count" /\ s \in Receivers(b, m) /\ m.stream = st)
                    => shown'[s][st] = shown[s][st]
    <2>1. \A S \in SUBSET Sockets, x \in Streams, n \in Numbers :
             /\ s \in S /\ st = x => Tell(S, x, n)[s][st] = n
             /\ ~(s \in S /\ st = x) => Tell(S, x, n)[s][st] = shown[s][st]
      BY TellValue
    <2>2. CASE m.what = "count"
      <3>1. PICK S \in SUBSET Sockets : S = Receivers(b, m)
        BY <1>b
      <3>2. PICK x \in Streams, n \in Numbers : x = m.stream /\ n = m.n
        BY <1>b
      <3>3. shown' = Tell(S, x, n)
        BY <1>c, <2>2, <3>1, <3>2
      <3>4. QED
        BY <2>1, <2>2, <3>1, <3>2, <3>3
    <2>3. CASE m.what # "count"
      BY <1>c, <2>3
    <2>4. QED
      BY <2>2, <2>3
  <1>e. m \in C <=> m.what = "count" /\ m.stream = st
    BY <1>1 DEF CountsFor, CountMessages
  <1>f. ASSUME NEW y \in Adapters PROVE Newest(chan'[c][y], C, C, R)
    BY <1>1, <1>6, <1>7
  <1>g. ASSUME NEW s \in Sockets PROVE ToldRight(c, s, st)'
    <2>0. JoinOpen(s, st)' <=> JoinOpen(s, st)
      BY <1>2 DEF JoinOpen
    <2>1. CASE GivenTo[s] = b /\ a = c /\ m \in C
      <3>1. CASE Holds(q, C)
        BY <1>1, <1>3, <2>1, <3>1 DEF ToldRight
      <3>2. CASE ~Holds(q, C) /\ st \in rooms[s]
        <4>1. m \in R
          BY <1>6, <1>7, <2>1, <3>2
        <4>2. s \in Receivers(b, m)
          BY <1>b, <1>e, <2>1, <3>2 DEF Receivers
        <4>3. shown'[s][st] \in RightFor(st)
          BY <1>d, <1>e, <2>1, <4>1, <4>2 DEF RightCounts
        <4>4. QED
          BY <1>3, <4>3 DEF ToldRight
      <3>3. CASE st \notin rooms[s]
        BY <1>2, <3>3 DEF ToldRight
      <3>4. QED
        BY <3>1, <3>2, <3>3
    <2>2. CASE ~(GivenTo[s] = b /\ a = c /\ m \in C)
      <3>0. GivenTo[s] = b => b[1] = p
        BY DEF Serves, ServedBy
      <3>1. shown'[s][st] = shown[s][st]
        BY <1>9, <1>d, <1>e, <2>2, <3>0 DEF Receivers
      <3>2. Holds(chan[c][GivenTo[s]], C) => Holds(chan'[c][GivenTo[s]], C)
        <4>1. GivenTo[s] \in Adapters
          OBVIOUS
        <4>2. QED
          BY <1>1, <1>8, <2>2, <4>1
      <3>3. QED
        BY <1>2, <1>3, <1>6, <2>0, <3>1, <3>2 DEF ToldRight
    <2>3. QED
      BY <2>1, <2>2
  <1>h. QED
    BY <1>f, <1>g

\* A relayed message is no count.
LEMMA RelayKeepsLast ==
    ASSUME BTypeOK, NEW p \in Processes, NEW c \in Adapters, NEW st \in Streams,
           Uncounted(st) \/ EndsRight(p, c, st),
           NEW k \in Relays, NEW s \in Sockets, NEW x \in Streams, Relay(k, s, x)
    PROVE  Uncounted(st)' \/ EndsRight(p, c, st)'
  <1> DEFINE a == Through(k, s)
             m == RelayMessage(k, x, s)
             C == CountsFor(st)
             R == RightCounts(st)
  <1>1. /\ a \in Adapters /\ m \in Messages /\ chan' = Publish(a, m)
        /\ m.what = k
    BY RelayStep, MessageTypes DEF RelayMessage
  <1> HIDE DEF a, m
  <1>2. UNCHANGED <<task, viewers, rooms, replies, shown>>
    BY DEF Relay, vars
  <1>3. /\ C' = C /\ R' = R /\ RightFor(st)' = RightFor(st)
        /\ RepliesFor(st)' = RepliesFor(st) /\ BroadcastsFor(st)' = BroadcastsFor(st)
        /\ RightReplies(st)' = RightReplies(st)
        /\ \A y : EntriesOf(y)' = EntriesOf(y)
    BY <1>2 DEF RepliesFor, BroadcastsFor, RightReplies, CountsFor, CountMessages,
                Messages, Numbers, RightCounts, RightFor, EntriesOf, Replies, AsksOddly
  <1>4. Uncounted(st) => Uncounted(st)'
    BY <1>2, <1>3 DEF Uncounted
  <1>5. SUFFICES ASSUME EndsRight(p, c, st), ~Holds(replies[p], BroadcastsFor(st))
                 PROVE  /\ \A y \in Adapters : Newest(chan'[c][y], C, C, R)
                        /\ \A y \in Sockets : ToldRight(c, y, st)'
    BY <1>2, <1>3, <1>4 DEF EndsRight
  <1>6. /\ \A y \in Adapters : Newest(chan[c][y], C, C, R)
        /\ \A y \in Sockets : ToldRight(c, y, st)
    BY <1>5 DEF EndsRight
  <1>7. m \notin C
    BY <1>1, MessageTypes DEF CountsFor, CountMessages
  <1>8. chan \in [Adapters -> [Adapters -> Seq(Messages)]]
    BY DEF BTypeOK
  <1>9. ASSUME NEW y \in Adapters
        PROVE  /\ Newest(chan'[c][y], C, C, R)
               /\ Holds(chan[c][y], C) => Holds(chan'[c][y], C)
    <2>1. chan'[c][y] = Append(chan[c][y], m) \/ chan'[c][y] = chan[c][y]
      <3>1. \A z, w \in Adapters :
               chan'[z][w] = IF z = a /\ w # a /\ w \in Reading
                             THEN Append(chan[z][w], m) ELSE chan[z][w]
        BY <1>1, PublishValue
      <3>2. QED
        BY <3>1
    <2>2. /\ Newest(Append(chan[c][y], m), C, C, R)
          /\ Holds(chan[c][y], C) => Holds(Append(chan[c][y], m), C)
      <3>1. chan[c][y] \in Seq(Messages) /\ Newest(chan[c][y], C, C, R)
        BY <1>6, <1>8
      <3>2. QED
        BY <1>1, <1>7, <3>1, AppendNewest, AppendHolds
    <2>3. QED
      BY <1>6, <2>1, <2>2
  <1>10. ASSUME NEW y \in Sockets PROVE ToldRight(c, y, st)'
    <2>1. JoinOpen(y, st)' <=> JoinOpen(y, st)
      BY <1>2 DEF JoinOpen
    <2>2. Holds(chan[c][GivenTo[y]], C) => Holds(chan'[c][GivenTo[y]], C)
      BY <1>9
    <2>3. QED
      BY <1>2, <1>3, <1>6, <2>1, <2>2 DEF ToldRight
  <1>11. QED
    BY <1>9, <1>10

\* The one process handles its own replies.
LEMMA RepliesOf ==
    ASSUME BTypeOK, RepliesAwaited, NEW p \in Processes, Serves(p),
           NEW a \in Processes, HandleReply(a)
    PROVE  a = p
  <1>1. /\ replies[a] \in Seq(Replies) /\ replies[a] # <<>>
        /\ ReplyHandler(a) \in Tasks /\ task[ReplyHandler(a)].sock \in Sockets
    BY ReplyStep DEF ReplyHandler
  <1>2. Holds(replies[a], EntriesOf(ReplyHandler(a)))
    BY <1>1, TailPlaces DEF ReplyHandler, EntriesOf, Holds
  <1>3. ServedBy(task[ReplyHandler(a)].sock) = a
    BY <1>1, <1>2 DEF RepliesAwaited
  <1>4. QED
    BY <1>1, <1>3 DEF Serves

\* Counts are published by the adapter that the one process uses.
LEMMA CountsFromKept ==
    ASSUME BTypeOK, RepliesAwaited, NEW p \in Processes, Serves(p),
           NEW c \in Adapters, c = Current(p), CountsFrom(p, c), [BNext]_<<vars, sent>>
    PROVE  CountsFrom(p, c)'
  <1>0. /\ CountMessages' = CountMessages
        /\ chan \in [Adapters -> [Adapters -> Seq(Messages)]]
    BY DEF CountMessages, Messages, Numbers, BTypeOK
  <1>1. ASSUME chan' = chan PROVE CountsFrom(p, c)'
    BY <1>0, <1>1 DEF CountsFrom
  <1>2. ASSUME NEW a \in Adapters, NEW m \in Messages, chan' = Publish(a, m),
               m.what = "count" => a = c
        PROVE  CountsFrom(p, c)'
    <2>1. \A x, b \in Adapters :
             chan'[x][b] = IF x = a /\ b # a /\ b \in Reading
                           THEN Append(chan[x][b], m) ELSE chan[x][b]
      BY <1>2, PublishValue
    <2>2. \A x, b \in Adapters : Holds(Append(chan[x][b], m), CountMessages)
             => Holds(chan[x][b], CountMessages) \/ m \in CountMessages
      BY <1>0, AppendHolds
    <2>3. m \in CountMessages => a = c
      BY <1>2 DEF CountMessages
    <2>4. ASSUME NEW x \in Adapters, NEW b \in Adapters, b[1] = p,
                 Holds(chan'[x][b], CountMessages)
          PROVE  x = c /\ b # c
      <3>1. CASE x = a /\ b # a /\ b \in Reading
        BY <2>1, <2>2, <2>3, <2>4, <3>1 DEF CountsFrom
      <3>2. CASE ~(x = a /\ b # a /\ b \in Reading)
        BY <2>1, <2>4, <3>2 DEF CountsFrom
      <3>3. QED
        BY <3>1, <3>2
    <2>5. QED
      BY <1>0, <2>4 DEF CountsFrom
  <1>3. ASSUME NEW a \in Processes, HandleReply(a) PROVE CountsFrom(p, c)'
    <2>1. a = p
      BY <1>3, RepliesOf
    <2>2. /\ ReplyMessage(p) \in Messages
          /\ chan' = Publish(c, ReplyMessage(p)) \/ chan' = chan
      BY <1>3, <2>1, ReplyEffect
    <2>3. QED
      BY <1>1, <1>2, <2>1, <2>2
  <1>4. ASSUME NEW a \in Adapters, NEW b \in Adapters, Deliver(a, b)
        PROVE  CountsFrom(p, c)'
    <2>1. /\ chan[a][b] \in Seq(Messages) /\ chan[a][b] # <<>>
          /\ \A x, y \in Adapters :
                chan'[x][y] = IF x = a /\ y = b THEN Tail(chan[a][b]) ELSE chan[x][y]
      BY <1>4, DeliverValue
    <2>2. Holds(Tail(chan[a][b]), CountMessages) => Holds(chan[a][b], CountMessages)
      BY <2>1, TailHolds
    <2>3. QED
      BY <1>0, <2>1, <2>2 DEF CountsFrom
  <1>5. ASSUME NEW k \in Relays, NEW s \in Sockets, NEW st \in Streams,
               Relay(k, s, st)
        PROVE  CountsFrom(p, c)'
    <2>1. /\ Through(k, s) \in Adapters /\ RelayMessage(k, st, s) \in Messages
          /\ chan' = Publish(Through(k, s), RelayMessage(k, st, s))
      BY <1>5, RelayStep, MessageTypes
    <2>2. RelayMessage(k, st, s).what # "count"
      BY MessageTypes DEF RelayMessage
    <2>3. QED
      BY <1>2, <2>1, <2>2
  <1>6. CASE \/ Asking \/ UNCHANGED <<vars, sent>>
             \/ \E t \in Tasks : SilentStep(t) \/ SCard(t)
             \/ \E a \in Processes : Replace(a)
    BY <1>1, <1>6 DEF Asking, SilentStep, SCard, Replace, sent
  <1>7. QED
    BY <1>3, <1>4, <1>5, <1>6 DEF BNext, Delivery

\* When its adapter is replaced, the adapters of the process have read what there
\* was to read, and the new one has sent nothing.
LEMMA ReplaceKeepsLast ==
    ASSUME BTypeOK, SlotsInv, AdaptersInv, NEW p \in Processes, Serves(p),
           NEW c \in Adapters, c = Current(p), LastOf(p, c), Replace(p),
           NEW g \in Adapters, g = <<p, "gateway">>
    PROVE  LastOf(p, g)'
  <1>0. /\ UNCHANGED <<task, viewers, rooms, shown, replies, chan>>
        /\ c = <<p, "main">> /\ g \notin Reading
        /\ \A b \in Adapters : b[1] = p => b = c \/ b = g
    BY OtherAdapter DEF Replace, vars
  <1>1. \A b \in Adapters : chan[g][b] = <<>> /\ chan[b][g] = <<>>
    BY <1>0 DEF AdaptersInv, SilentIfNotReading
  <1>2. DOMAIN <<>> = {} /\ CountMessages' = CountMessages
    BY DEF CountMessages, Messages, Numbers
  <1>3. \A a \in Adapters : ~Holds(chan[a][c], CountMessages)
    BY <1>0 DEF LastOf, CountsFrom
  <1>4. CountsFrom(p, g)'
    <2>1. \A a, b \in Adapters : b[1] = p => ~Holds(chan[a][b], CountMessages)
      BY <1>0, <1>1, <1>2, <1>3 DEF Holds
    <2>2. QED
      BY <1>0, <1>2, <2>1 DEF CountsFrom
  <1>5. ASSUME NEW st \in Streams PROVE Uncounted(st)' \/ EndsRight(p, g, st)'
    <2>1. /\ RepliesFor(st)' = RepliesFor(st) /\ BroadcastsFor(st)' = BroadcastsFor(st)
          /\ RightReplies(st)' = RightReplies(st) /\ CountsFor(st)' = CountsFor(st)
          /\ RightCounts(st)' = RightCounts(st) /\ RightFor(st)' = RightFor(st)
          /\ \A x : EntriesOf(x)' = EntriesOf(x)
      BY <1>0 DEF RepliesFor, BroadcastsFor, RightReplies, CountsFor, CountMessages,
                  Messages, Numbers, RightCounts, RightFor, EntriesOf, Replies, AsksOddly
    <2>2. Uncounted(st) => Uncounted(st)'
      BY <1>0, <2>1 DEF Uncounted
    <2>3. ASSUME NEW s \in Sockets, ToldRight(c, s, st) PROVE ToldRight(g, s, st)'
      <3>1. GivenTo[s] = c \/ GivenTo[s] = g
        BY <1>0 DEF Serves, ServedBy
      <3>2. GivenTo[s] = g => st \notin rooms[s]
        BY <1>0, InRoomReading
      <3>3. ~Holds(chan[c][c], CountsFor(st))
        BY <1>3 DEF Holds, CountsFor
      <3>4. JoinOpen(s, st)' <=> JoinOpen(s, st)
        BY <1>0 DEF JoinOpen
      <3>5. QED
        BY <1>0, <2>1, <2>3, <3>1, <3>2, <3>3, <3>4 DEF ToldRight
    <2>4. \A b \in Adapters :
             Newest(chan'[g][b], CountsFor(st), CountsFor(st), RightCounts(st))
      BY <1>0, <1>1, <1>2 DEF Newest
    <2>5. QED
      BY <1>0, <2>1, <2>2, <2>3, <2>4 DEF EndsRight, LastOf
  <1>6. QED
    BY <1>4, <1>5 DEF LastOf

\* Nothing was counted at first, and nobody is in a room.
LEMMA InitLast == BInit => LastInv
  <1> SUFFICES ASSUME BInit, NEW p \in Processes PROVE LastOf(p, Current(p))
    BY DEF LastInv
  <1>1. /\ replies[p] = <<>>
        /\ \A a, b \in Adapters : chan[a][b] = <<>>
        /\ \A x \in Sockets : rooms[x] = {}
    BY DEF BInit, Init
  <1>2. Current(p) \in Adapters /\ DOMAIN <<>> = {}
    BY AdapterFacts
  <1>3. CountsFrom(p, Current(p))
    BY <1>1, <1>2 DEF CountsFrom, Holds
  <1>4. ASSUME NEW st \in Streams PROVE EndsRight(p, Current(p), st)
    BY <1>1, <1>2 DEF EndsRight, Newest, ToldRight
  <1>5. QED
    BY <1>3, <1>4 DEF LastOf

\* No reply has been sent at first.
LEMMA InitReplies == BInit => RepliesAwaited
  <1>1. DOMAIN <<>> = {}
    OBVIOUS
  <1>2. QED
    BY <1>1 DEF BInit, RepliesAwaited, Holds, HoldsOne

\* Every step keeps the last count right.
LEMMA NextLast ==
    BTypeOK /\ SlotsInv /\ AdaptersInv /\ RepliesAwaited /\ LastInv
        /\ [BNext]_<<vars, sent>> => LastInv'
  <1> SUFFICES ASSUME BTypeOK, SlotsInv, AdaptersInv, RepliesAwaited, LastInv,
                      [BNext]_<<vars, sent>>, NEW p \in Processes, Serves(p)
               PROVE  LastOf(p, Current(p))'
    BY DEF LastInv, Serves
  <1>0. PICK c \in Adapters : c = Current(p)
    BY AdapterFacts
  <1>2. LastOf(p, c)
    BY <1>0 DEF LastInv
  <1>r. CASE Replace(p)
    <2>1. PICK g \in Adapters : g = <<p, "gateway">>
      BY DEF Adapters
    <2>2. LastOf(p, g)'
      BY <1>0, <1>2, <1>r, <2>1, ReplaceKeepsLast
    <2>3. Current(p)' = g
      BY <1>r, <2>1, OtherAdapter DEF Replace
    <2>4. QED
      BY <2>2, <2>3
  <1>3. CountsFrom(p, c)'
    BY <1>0, <1>2, CountsFromKept DEF LastOf
  <1>4. ASSUME NEW st \in Streams PROVE Uncounted(st)' \/ EndsRight(p, c, st)'
    <2>0. CountsFrom(p, c) /\ (Uncounted(st) \/ EndsRight(p, c, st))
      BY <1>2 DEF LastOf
    <2>1. CASE Asking \/ \E t \in Tasks : SilentStep(t)
      BY <2>0, <2>1, QuietKeepsLast
    <2>2. ASSUME NEW t \in Tasks, SCard(t)
          PROVE  Uncounted(st)' \/ EndsRight(p, c, st)'
      <3>1. task[t].sock \in Sockets
        BY <2>2, SCardStep
      <3>2. ServedBy(task[t].sock) = p
        BY <3>1 DEF Serves
      <3>3. QED
        BY <2>0, <2>2, <3>2, SCardKeepsLast
    <2>3. ASSUME NEW a \in Processes, HandleReply(a)
          PROVE  Uncounted(st)' \/ EndsRight(p, c, st)'
      <3>1. HandleReply(p)
        BY <2>3, RepliesOf
      <3>2. QED
        BY <1>0, <2>0, <3>1, ReplyKeepsLast
    <2>4. ASSUME NEW a \in Adapters, NEW b \in Adapters, Deliver(a, b)
          PROVE  Uncounted(st)' \/ EndsRight(p, c, st)'
      BY <2>0, <2>4, DeliverKeepsLast
    <2>5. ASSUME NEW k \in Relays, NEW x \in Sockets, NEW y \in Streams,
                 Relay(k, x, y)
          PROVE  Uncounted(st)' \/ EndsRight(p, c, st)'
      BY <2>0, <2>5, RelayKeepsLast
    <2>6. CASE UNCHANGED <<vars, sent>> \/ \E a \in Processes : Replace(a)
      <3>1. UNCHANGED <<task, viewers, rooms, replies, chan, shown>>
        BY <2>6 DEF Replace, vars, sent
      <3>2. /\ CountsFor(st)' = CountsFor(st) /\ RightCounts(st)' = RightCounts(st)
            /\ RightFor(st)' = RightFor(st) /\ RepliesFor(st)' = RepliesFor(st)
            /\ BroadcastsFor(st)' = BroadcastsFor(st)
            /\ RightReplies(st)' = RightReplies(st)
            /\ \A y : EntriesOf(y)' = EntriesOf(y)
        BY <3>1 DEF RepliesFor, BroadcastsFor, RightReplies, CountsFor, CountMessages,
                    Messages, Numbers, RightCounts, RightFor, EntriesOf, Replies, AsksOddly
      <3>3. Uncounted(st)' <=> Uncounted(st)
        BY <3>1, <3>2 DEF Uncounted
      <3>4. \A x \in Sockets : ToldRight(c, x, st)' <=> ToldRight(c, x, st)
        BY <3>1, <3>2 DEF ToldRight, JoinOpen
      <3>5. EndsRight(p, c, st)' <=> EndsRight(p, c, st)
        BY <3>1, <3>2, <3>4 DEF EndsRight
      <3>6. QED
        BY <2>0, <3>3, <3>5
    <2>7. QED
      BY <2>1, <2>2, <2>3, <2>4, <2>5, <2>6 DEF BNext, Delivery
  <1>5. CASE ~Replace(p)
    <2>1. Current(p)' = c
      <3>1. p \in replaced' <=> p \in replaced
        BY <1>5 DEF BNext, Asking, SilentStep, SCard, Replace, HandleReply, Delivery,
                    Deliver, Relay, sent
      <3>2. QED
        BY <1>0, <3>1 DEF Current
    <2>2. LastOf(p, c)'
      BY <1>3, <1>4 DEF LastOf
    <2>3. QED
      BY <2>1, <2>2
  <1>6. QED
    BY <1>r, <1>5

\* With no handler of a stream and no count on its way, the numbers are right.
LEMMA LastInvHolds ==
    ASSUME BTypeOK, LastInv
    PROVE  LastCountRight
  <1> SUFFICES ASSUME NEW st \in Streams, OneProcess, ~Asked(st),
                      OnItsWayTo({"count"}) = {}, NEW s \in Sockets \ Odd,
                      st \in rooms[s]
               PROVE  shown[s][st] = Cardinality(viewers[st])
    BY DEF LastCountRight, AtRest, ShownRight
  <1>p. PICK p \in Processes : p = ServedBy(s)
    BY AdapterFacts
  <1>a. Serves(p)
    BY <1>p DEF OneProcess, Serves
  <1>c. PICK c \in Adapters : c = Current(p)
    BY AdapterFacts
  <1>0. /\ task \in [Tasks -> Activation \cup {Idle}]
        /\ GivenTo[s] \in Adapters /\ replies[p] \in Seq(Replies)
        /\ chan[c][GivenTo[s]] \in Seq(Messages)
    BY DEF BTypeOK, TypeOK
  <1>1. ASSUME NEW t \in Tasks, task[t].stream = st PROVE ~Active(t)
    BY <1>1 DEF Asked
  <1>2. ~Uncounted(st)
    BY <1>0, <1>1 DEF Uncounted, Active, Busy, Idle
  <1>3. ~JoinOpen(s, st)
    BY <1>0, <1>1 DEF JoinOpen, Active, Idle, Activation, Awaits
  <1>4. ~Holds(replies[p], BroadcastsFor(st))
    <2>1. SUFFICES ASSUME NEW i \in DOMAIN replies[p],
                          replies[p][i] \in BroadcastsFor(st)
                   PROVE  FALSE
      BY DEF Holds
    <2>2. PICK t \in Tasks : t = replies[p][i][1]
      BY <2>1 DEF BroadcastsFor, RepliesFor, Replies
    <2>3. task[t].stream = st /\ task[t].pc = "card"
      BY <2>1, <2>2 DEF BroadcastsFor, RepliesFor
    <2>4. QED
      BY <1>1, <2>3 DEF Active
  <1>5. ~Holds(chan[c][GivenTo[s]], CountsFor(st))
    BY <1>0 DEF Holds, CountsFor, CountMessages, OnItsWayTo
  <1>6. EndsRight(p, c, st)
    BY <1>2, <1>a, <1>c DEF LastInv, LastOf
  <1>7. ToldRight(c, s, st)
    BY <1>4, <1>6 DEF EndsRight
  <1>8. QED
    BY <1>3, <1>5, <1>7 DEF ToldRight, RightFor

LastIInv == BTypeOK /\ SlotsInv /\ AdaptersInv /\ RepliesAwaited /\ LastInv

\* At rest everyone in a room of one process who does not spell ids oddly shows
\* the size of the set, whatever requests overlapped and whenever the adapter was
\* replaced (streams.gateway.ts:87-115, 235-238, 407-410).
THEOREM LastCountCorrect == BSpec => []LastCountRight
  <1>1. BInit => LastIInv
    BY InitBTypes, InitSlots, InitAdapters, InitReplies, InitLast DEF BInit, LastIInv
  <1>2. LastIInv /\ [BNext]_<<vars, sent>> => LastIInv'
    <2> SUFFICES ASSUME LastIInv, [BNext]_<<vars, sent>> PROVE LastIInv'
      OBVIOUS
    <2>1. [Next]_vars
      BY BStepsReliable, MilderSteps DEF LastIInv
    <2>2. QED
      BY <2>1, NextBTypes, NextSlots, NextAdapters, NextReplies, NextLast
         DEF LastIInv, BTypeOK
  <1>3. LastIInv => LastCountRight
    BY LastInvHolds DEF LastIInv
  <1>4. QED
    BY <1>1, <1>2, <1>3, PTL DEF BSpec

-----------------------------------------------------------------------------
(***************************************************************************)
(* The broadcast is an extension of the bookkeeping with reliable stores:  *)
(* what is proved of that holds here too.                                  *)
(***************************************************************************)

\* The order of replies and the bounds on what is on its way only restrict the
\* bookkeeping (streams.gateway.ts:87-161, 191-293).
THEOREM BroadcastIsReliable == BSpec => ReliableSpec
  <1>1. BInit => Init /\ BTypeOK
    BY InitBTypes DEF BInit
  <1>2. BTypeOK /\ [BNext]_<<vars, sent>> => BTypeOK' /\ [ReliableNext]_vars
    BY NextBTypes, BStepsReliable
  <1>3. QED
    BY <1>1, <1>2, PTL DEF BSpec, ReliableSpec
=============================================================================
