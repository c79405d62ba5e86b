--------------------------- MODULE MCJobLifecycle ---------------------------
(* Instances of JobLifecycle for TLC.                                       *)
EXTENDS JobLifecycle, TLC

World(ops, size, hasTtl, reqs, starts, fails) ==
    [ops |-> ops, size |-> size, ttl |-> hasTtl, reqs |-> reqs, starts |-> starts, fails |-> fails]

Main == CHOOSE k \in Clients : TRUE
Calls(main, others) == [k \in Clients |-> IF k = Main THEN main ELSE others]

(* A job of two containers and a ttl, started once: while another client    *)
(* deletes it; with a container or a docker call that fails.                *)
Deleted == World(Calls({"create", "start"}, {"delete"}), 2, TRUE, 3, 1, 0)
Failing == World(Calls({"create", "start"}, {}), 2, TRUE, 2, 1, 1)
(* Both, with one container.                                                *)
Both == World(Calls({"create", "start"}, {"delete"}), 1, TRUE, 3, 1, 1)
(* One container; a stop as well, and time for a second creation.           *)
Race == World(Calls({"create", "start", "stop", "delete"}, {}), 1, FALSE, 4, 1, 0)

(* Started twice: two start tasks of one job overlap.                       *)
Twice == World(Calls({"create", "start"}, {"start"}), 1, FALSE, 3, 2, 0)

MCWorlds == {Deleted, Failing, Both, Race, Twice}
MCTtl == {World(Calls({"create", "start"}, {}), 1, TRUE, 2, 1, 0)}
=============================================================================
