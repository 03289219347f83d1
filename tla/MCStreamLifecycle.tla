-------------------------- MODULE MCStreamLifecycle --------------------------
(***************************************************************************)
(* Symmetry for the instances of StreamLifecycle without liveness: ids,    *)
(* users and requests are interchangeable.                                 *)
(***************************************************************************)
EXTENDS StreamLifecycle, TLC

Symmetry == Permutations(Users) \cup Permutations(Streams) \cup Permutations(Requests)
=============================================================================
