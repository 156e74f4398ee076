------------------------------ MODULE MCAsyncJob ------------------------------
(* AsyncJob on small instances. *)
EXTENDS AsyncJob, TLC

AllKinds == {"helper", "legacy", "plugin"}
JobKinds == {"helper", "legacy"}
BothVias == {"live", "wait"}

(* Runs are interchangeable; sound for the safety run. *)
Symmetry == Permutations(Runs)
===============================================================================
