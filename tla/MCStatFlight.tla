---------------------------- MODULE MCStatFlight ----------------------------
(* Instances of StatFlight for TLC; callers are interchangeable. *)
EXTENDS StatFlight, TLC

Symmetry == Permutations(Callers)
=============================================================================
