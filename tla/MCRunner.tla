------------------------------ MODULE MCRunner ------------------------------
(* Instances of Runner for TLC; no symmetry, since liveness is checked. *)
EXTENDS Runner
=============================================================================
