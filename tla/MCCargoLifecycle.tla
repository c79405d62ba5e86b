-------------------------- MODULE MCCargoLifecycle --------------------------
(* Instances of CargoLifecycle for TLC.                                     *)
EXTENDS CargoLifecycle, TLC

(* Task handles, and connections, are interchangeable.  Sound for the runs  *)
(* without a liveness property.                                             *)
HandleSymmetry == Permutations(TaskIds) \cup Permutations(Clients)

World(ops, calm, replicas, init, conts, reqs, fails, crashes) ==
    [ops |-> ops, calm |-> calm, replicas |-> replicas, init |-> init,
     conts |-> conts, reqs |-> reqs, fails |-> fails, crashes |-> crashes]

(* Any three operations, of two clients, with a failure and a crash.        *)
AnyOps == World(AllOps \ {"delete"}, FALSE, 1, FALSE, 3, 3, 1, 1)
(* Six requests, one after the other, for a cargo of two replicas.          *)
CalmOps == World({"create", "start", "stop", "put", "delete", "force"}, TRUE, 2, FALSE, 12, 6, 0, 0)
(* Racing updates, forced deletions and re-creations, without a failure.    *)
Race == World({"create", "put", "force"}, FALSE, 1, FALSE, 4, 4, 0, 0)
(* An update of two replicas that fails.                                    *)
TwoFail == World({"create", "start", "put"}, FALSE, 2, FALSE, 6, 2, 2, 0)
(* A cargo with an init container.                                          *)
WithInit == World({"create", "start", "stop", "put", "delete"}, FALSE, 1, TRUE, 4, 3, 1, 0)

MCWorlds == {AnyOps, CalmOps, Race, TwoFail, WithInit}
MCRace == {Race}
MCStop == {World({"create", "start", "stop"}, FALSE, 1, FALSE, 3, 4, 0, 0)}
=============================================================================
