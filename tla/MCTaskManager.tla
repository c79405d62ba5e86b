---------------------------- MODULE MCTaskManager ----------------------------
(* An instance of TaskManager for TLC: a cargo or vm, a job and a source of *)
(* the other events.  No symmetry: the run checks a liveness property.      *)
EXTENDS TaskManager
=============================================================================
