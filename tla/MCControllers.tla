--------------------------- MODULE MCControllers ----------------------------
(* An instance of Controllers for TLC: a proxy rule with an http and a      *)
(* stream part, a second one nginx refuses, and two dns rules.              *)
EXTENDS Controllers, TLC

CONSTANTS r1, r2, d1, d2, k1, k2

MCNames == {r1, r2, d1, d2}
MCKindOf == [n \in MCNames |-> IF n \in {d1, d2} THEN "ncdns.io/rule" ELSE "ncproxy.io/rule"]
MCUrl == {"ncdns.io/rule", "ncproxy.io/rule"}
MCDataOf == [n \in MCNames |->
    CASE n = r1 -> {[site |-> "ok", stream |-> "ok", bad |-> FALSE],
                    [site |-> "no", stream |-> "ssl", bad |-> FALSE]}
      [] n = r2 -> {[site |-> "no", stream |-> "bad", bad |-> FALSE]}
      [] n = d1 -> {[net |-> "public", names |-> {"a"}, bad |-> FALSE],
                    [net |-> "all", names |-> {"b"}, bad |-> TRUE]}
      [] n = d2 -> {[net |-> "public", names |-> {"b"}, bad |-> FALSE]}]

Scenario(about, reqs, db, out, changes, fails, cuts) ==
    [about |-> about, reqs |-> reqs, db |-> db, out |-> out, changes |-> changes,
     fails |-> fails, cuts |-> cuts]

(* Racing requests; events; a rule refused beside a good one; faults; dns;  *)
(* kinds.                                                                   *)
MCScenarios == {
    Scenario({r1}, 3, 0, 0, 0, 0, 0),
    Scenario({r1}, 2, 0, 0, 1, 0, 0),
    Scenario({r1, r2}, 2, 0, 0, 1, 0, 0),
    Scenario({r1}, 1, 0, 0, 2, 1, 1),
    Scenario({r1}, 2, 1, 1, 0, 0, 0),
    Scenario({d1, d2}, 3, 0, 1, 0, 1, 0),
    Scenario({"ncproxy.io/rule"}, 3, 1, 0, 0, 0, 0)}

MCSymmetry == Permutations({k1, k2})
=============================================================================
