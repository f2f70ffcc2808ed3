------------------------------ MODULE MCBackup ------------------------------
(* Instances of Backup for TLC; callers are interchangeable. *)
EXTENDS Backup, TLC

Symmetry == Permutations(Callers)
=============================================================================
