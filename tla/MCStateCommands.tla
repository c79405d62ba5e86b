--------------------------- MODULE MCStateCommands ---------------------------
(* An instance of StateCommands for TLC: a Statefile that includes an other, *)
(* a later version of it, and commands about one cargo or vm.              *)
EXTENDS StateCommands, TLC

CONSTANTS c1, c2

MCObjects == {"s", "j", "ca", "cb", "r", "vg", "vn"}
MCKind == [o \in MCObjects |->
    CASE o = "s" -> "secret" [] o = "j" -> "job" [] o = "r" -> "resource"
      [] o \in {"ca", "cb"} -> "cargo" [] OTHER -> "vm"]
MCSpace == [o \in MCObjects |->
    CASE o \in {"ca", "cb", "vn"} -> "n" [] o = "vg" -> "global" [] OTHER -> "none"]
MCGlobalVm == [vg |-> "vg", vn |-> "vg"]

Same(spec) == [o \in MCObjects |-> spec]

MCFile == [
    main |-> [subs |-> <<"sub">>, space |-> "n", group |-> "g", spec |-> Same("one"),
              secs |-> [secret |-> <<"s">>, job |-> <<"j">>, cargo |-> <<"ca", "cb">>]],
    next |-> [subs |-> <<"sub">>, space |-> "n", group |-> "g", spec |-> Same("two"),
              secs |-> [cargo |-> <<"ca">>, job |-> <<"j">>]],
    sub  |-> [subs |-> <<>>, space |-> "global", group |-> "h", spec |-> Same("one"),
              secs |-> [resource |-> <<"r">>]],
    vms  |-> [subs |-> <<"sub">>, space |-> "n", group |-> "v", spec |-> Same("one"),
              secs |-> [vm |-> <<"vn">>]],
    top  |-> [subs |-> <<"main", "bad">>, space |-> "n", group |-> "t", spec |-> Same("one"),
              secs |-> [vm |-> <<>>]],
    bad  |-> [subs |-> <<>>, space |-> "n", group |-> "b", spec |-> Same("one"), secs |-> [vm |-> <<>>]]]

Apply(f, reload, orphans) == [op |-> "apply", f |-> f, reload |-> reload, orphans |-> orphans,
                              o |-> "none", spec |-> "one", force |-> TRUE]
StateRm(f) == [op |-> "staterm", f |-> f, reload |-> FALSE, orphans |-> FALSE,
               o |-> "none", spec |-> "one", force |-> TRUE]
One(op, o, force) == [op |-> op, f |-> "none", reload |-> FALSE, orphans |-> FALSE,
                      o |-> o, spec |-> "two", force |-> force]

Scenario(cmds, n, bad) == [cmds |-> cmds, n |-> n, faults |-> bad, spaces |-> {"global", "n"}]
Fresh(sc) == [sc EXCEPT !.spaces = {"global"}]

(* Versions of a file; a file and single commands; one cargo; vms; faults. *)
MCScenarios == {
    Fresh(Scenario({Apply("main", FALSE, FALSE), Apply("next", FALSE, TRUE), StateRm("main"),
              Apply("top", FALSE, FALSE)}, 3, 0)),
    Fresh(Scenario({One("nscreate", "n", FALSE), One("nsrm", "n", FALSE), One("create", "cb", FALSE),
              One("run", "ca", FALSE), One("stop", "ca", FALSE), One("create", "vn", FALSE)}, 5, 0)),
    Fresh(Scenario({Apply("next", FALSE, FALSE), One("nsrm", "n", FALSE), One("stop", "ca", FALSE)}, 3, 0)),
    Scenario({Apply("main", FALSE, FALSE), Apply("main", TRUE, TRUE), One("stop", "ca", FALSE)}, 3, 0),
    Scenario({One(op, "ca", FALSE) : op \in {"run", "start", "stop", "patch", "rm"}}, 4, 0),
    Scenario({One("run", "ca", FALSE), One("patch", "ca", FALSE), One("stop", "ca", FALSE)}, 3, 1),
    Scenario({Apply("vms", FALSE, FALSE), StateRm("vms"), One("run", "vg", FALSE), One("rm", "vg", FALSE),
              One("rm", "vn", FALSE)}, 3, 0),
    Scenario({Apply("next", FALSE, FALSE), Apply("next", TRUE, TRUE), One("rm", "ca", TRUE)}, 2, 1)}

Sym == Permutations(Clients)
=============================================================================
