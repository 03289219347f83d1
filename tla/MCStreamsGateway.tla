-------------------------- MODULE MCStreamsGateway --------------------------
(***************************************************************************)
(* Instances of StreamsGateway for TLC: a host with two tabs, a viewer     *)
(* with two tabs, another with one, and a second stream that the first     *)
(* viewer owns.                                                            *)
(***************************************************************************)
EXTENDS AudienceRefinement, TLC

CONSTANTS host, alice, bob, h1, h2, a1, a2, b1, st1, st2

MCOwner == [st \in Streams |-> IF st = st1 THEN host ELSE alice]

MCUserOf ==
    [s \in Sockets |-> IF s \in {h1, h2} THEN host ELSE IF s = b1 THEN bob ELSE alice]

\* The request slots are interchangeable, and so are the viewers alice and bob
\* with a socket each.
ViewersSwapped == (alice :> bob) @@ (bob :> alice) @@ (a1 :> b1) @@ (b1 :> a1)

FaultSymmetry == {p @@ v : p \in Permutations(Calls), v \in {<<>>, ViewersSwapped}}
=============================================================================
