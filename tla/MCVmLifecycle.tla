--------------------------- MODULE MCVmLifecycle ----------------------------
(* An instance of VmLifecycle for TLC: a vm on a base image, and a name for *)
(* one more image.                                                         *)
EXTENDS VmLifecycle, TLC

CONSTANTS b, s, x, v1, k1, k2

MCSnapName == [i \in {b} |-> [v \in {v1} |-> s]]

Scenario(ops, reqs, db, crash, exits, cuts) ==
    [ops |-> ops, reqs |-> reqs, db |-> db, crash |-> crash, exits |-> exits, cuts |-> cuts]

(* The life of a vm; images; failures; crashes of the daemon.              *)
MCScenarios == {
    Scenario({"create", "start", "delete"}, 4, 0, 0, 0, 0),
    Scenario({"create", "patch", "delete"}, 4, 0, 0, 0, 0),
    Scenario({"create", "start", "stop", "startone"}, 4, 0, 0, 1, 0),
    Scenario({"import", "snapshot", "clone", "rmi", "resize"}, 4, 0, 0, 0, 1),
    Scenario({"create", "clone", "rmi"}, 3, 0, 0, 0, 0),
    Scenario({"create", "snapshot", "delete"}, 4, 0, 0, 0, 0),
    Scenario({"create", "start", "patch", "delete"}, 4, 1, 0, 0, 0),
    Scenario({"import", "snapshot", "rmi", "resize"}, 2, 1, 1, 0, 1),
    Scenario({"create", "start", "startone", "delete"}, 4, 0, 1, 0, 0)}

MCSymmetry == Permutations({k1, k2})
=============================================================================
