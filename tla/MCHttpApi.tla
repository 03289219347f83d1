----------------------------- MODULE MCHttpApi -----------------------------
(***************************************************************************)
(* An instance of HttpApi for TLC: users with the tokens of an auth server *)
(* that signs with RS256, a token whose key the server does not have, one  *)
(* with HS256 and a numeral userId, and one that cannot be read.           *)
(***************************************************************************)
EXTENDS HttpApi, OnAirRefinement

CONSTANTS u1, kid1, kid2

Hers(alg, kid, id) ==
    [user |-> u1, alg |-> alg, kid |-> kid, genuine |-> TRUE, sub |-> TRUE, userId |-> id]

MCBrought ==
    Issued("jwks") \cup
    {Hers("RS256", kid2, "number"), Hers("HS256", kid1, "numeral"), Garbled}
=============================================================================
