-------------------------- MODULE MCRoomBroadcast --------------------------
(***************************************************************************)
(* Instances of RoomBroadcast for TLC: one process; alice's socket is held *)
(* by the adapter of main.ts, bob's by that of the gateway, so he connects *)
(* after the replacement.                                                  *)
(***************************************************************************)
EXTENDS RoomBroadcast, TLC

CONSTANTS host, alice, bob, h1, a1, b1, p1

MCOwner == [st \in Streams |-> host]

MCUserOf == [s \in Sockets |-> IF s = a1 THEN alice ELSE IF s = b1 THEN bob ELSE host]

MCGivenTo == [s \in Sockets |-> <<p1, IF s = a1 THEN "main" ELSE "gateway">>]

\* The request slots are interchangeable.
CallSymmetry == Permutations(Calls)
=============================================================================
