------------------------------ MODULE MCSyncPool ------------------------------
(* SyncPool on small instances. *)
EXTENDS SyncPool, TLC

(* Queries are interchangeable; sound for the safety runs. *)
Symmetry == Permutations(Queries)
===============================================================================
