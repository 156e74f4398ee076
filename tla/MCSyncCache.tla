----------------------------- MODULE MCSyncCache -----------------------------
(* SyncCache on small instances. *)
EXTENDS SyncCache, TLC

ReadOnly == {"read"}
ReadAndRefresh == {"read", "refresh"}

(* Queries are interchangeable, and so are keys; sound for the safety runs. *)
Symmetry == Permutations(Queries) \cup Permutations(Keys)
=============================================================================
