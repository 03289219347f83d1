----------------------------- MODULE SocketAuth -----------------------------
(***************************************************************************)
(* WsJwtGuard in front of the events of the gateway: a socket brings its   *)
(* token in the handshake, the guard reads it at every event and stores    *)
(* the payload in client.data.user.                                        *)
(***************************************************************************)
EXTENDS Tokens

CONSTANTS Sockets

VARIABLES
    config,    \* the mode, and JWT_ALGORITHM
    handshake, \* handshake[s]: what the socket brought, or None: not connected
    dataUser,  \* dataUser[s]: client.data.user
    verdict    \* verdict[s]: what became of the last event of the socket

vars == <<config, handshake, dataUser, verdict>>

Given(tok, place) == [p \in Places |-> IF p = place THEN tok ELSE None]

Init ==
    /\ config \in {[mode |-> "secret", alg |-> "HS256"], [mode |-> "jwks", alg |-> "RS256"]}
    /\ handshake = [s \in Sockets |-> None]
    /\ dataUser = [s \in Sockets |-> None]
    /\ verdict = [s \in Sockets |-> "none"]

\* Nothing is checked when the socket connects.
Connect(s, tok, place) ==
    /\ handshake[s] = None
    /\ handshake' = [handshake EXCEPT ![s] = Given(tok, place)]
    /\ UNCHANGED <<config, dataUser, verdict>>

Event(s) ==
    LET u == WsUser(config.mode, config.alg, HandshakeToken(handshake[s])) IN
    /\ handshake[s] # None
    /\ dataUser' = [dataUser EXCEPT ![s] = IF u # None THEN u ELSE @]
    /\ verdict' = [verdict EXCEPT ![s] = IF u # None THEN "handled" ELSE "unauthorized"]
    /\ UNCHANGED <<config, handshake>>

\* The token a socket brought expires.
Expire(s) ==
    /\ handshake[s] # None
    /\ handshake' = [handshake EXCEPT ![s] =
                       [p \in Places |-> IF @[p] \notin Token THEN @[p]
                                         ELSE [@[p] EXCEPT !.genuine = FALSE]]]
    /\ verdict' = [verdict EXCEPT ![s] = "none"]
    /\ UNCHANGED <<config, dataUser>>

Next ==
    \E s \in Sockets :
       \/ \E tok \in Token \cup {Blank, Garbled}, p \in Places : Connect(s, tok, p)
       \/ Event(s) \/ Expire(s)

Spec == Init /\ [][Next]_vars

\* A socket that brings a token of the auth server is recognised at its first
\* event, as the user that HTTP recognises: "thanks to WsJwtGuard, if the token
\* is valid, client.data.user has the userId" (streams.gateway.ts:181).
ValidTokenRecognised ==
    \A s \in Sockets :
        /\ verdict[s] # "none"
        /\ HandshakeToken(handshake[s]) \in Issued(config.mode)
        => dataUser[s] = HttpUser(config.mode, HandshakeToken(handshake[s]))
=============================================================================
