------------------------------- MODULE Tokens -------------------------------
(***************************************************************************)
(* How the two doors of the server read a JWT: JwtStrategy for HTTP        *)
(* requests, WsJwtGuard for socket events.  Which key verifies a token     *)
(* depends on the configuration: "jwks" if JWKS_URI is set, else "secret". *)
(***************************************************************************)
CONSTANTS Users, None,
    Blank,   \* the string 'null', 'undefined' or '' in the place of a token
    Garbled, \* a string whose first part is not the JSON of a header
    Kids,    \* bound: the key ids that tokens name
    Served   \* those the auth server has a key for

Modes == {"secret", "jwks"}

Algorithms == {"HS256", "RS256"}

(***************************************************************************)
(* A token that can be parsed: who it is for, the algorithm and the key    *)
(* id of its header, whether the key verifies it and it has not expired,   *)
(* and what its payload holds.                                             *)
(***************************************************************************)
Token == [user : Users, alg : Algorithms, kid : Kids, genuine : BOOLEAN, sub : BOOLEAN,
          userId : {"number", "numeral", "missing"}]

\* What the auth server issues for its users in a mode.
Issued(mode) ==
    {tok \in Token : /\ tok.genuine /\ tok.sub /\ tok.userId = "number"
                     /\ tok.kid \in Served
                     /\ tok.alg = IF mode = "jwks" THEN "RS256" ELSE "HS256"}

(***************************************************************************)
(* HTTP: the bearer token, JwtStrategy's key and algorithm, validate() and *)
(* the userId that @LoginUser hands to the route: Number(payload.userId).  *)
(* None stands for no token, and for the strings 'null' and 'undefined'; a *)
(* garbled one is nobody's.  In "jwks" the strategy reads the header and   *)
(* has the key when it gets here.                                          *)
(***************************************************************************)
HttpAlgorithm(mode) == IF mode = "jwks" THEN "RS256" ELSE "HS256"

HttpUser(mode, tok) ==
    IF /\ tok \in Token
       /\ tok.genuine /\ tok.alg = HttpAlgorithm(mode)
       /\ tok.sub /\ tok.userId # "missing"
    THEN tok.user ELSE None

(***************************************************************************)
(* socket.io: the first place of the handshake that holds anything decides. *)
(***************************************************************************)
Places == {"auth.accessToken", "auth.token", "authorization"}

HandshakeToken(h) ==
    LET first == IF h["auth.accessToken"] # None THEN h["auth.accessToken"]
                 ELSE IF h["auth.token"] # None THEN h["auth.token"]
                 ELSE h["authorization"]
    IN  IF first = Blank THEN None ELSE first

\* jwtService.verify is synchronous.  AuthModule gives it the secret, or in
\* "jwks" an asynchronous secretOrKeyProvider, for which it throws.
KeyAtHand(mode) == mode = "secret"

WsUser(mode, alg, tok) ==
    IF /\ tok \in Token
       /\ KeyAtHand(mode) /\ tok.genuine /\ tok.alg = alg
       /\ tok.userId = "number"
    THEN tok.user ELSE None
=============================================================================
