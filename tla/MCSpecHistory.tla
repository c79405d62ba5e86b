---------------------------- MODULE MCSpecHistory ---------------------------
(* Instances of SpecHistory for TLC.                                        *)
EXTENDS SpecHistory, TLC

E(n, v) == [n |-> n, v |-> v]
S(env, binds, image, repl, meta) ==
    [name |-> "other", env |-> env, binds |-> binds, image |-> image, repl |-> repl, meta |-> meta]
P(env, binds, image, repl, meta) ==
    [container |-> env # <<>> \/ binds # {} \/ image # Absent, name |-> Absent,
     env |-> env, binds |-> binds, image |-> image, repl |-> repl, meta |-> meta]

Entries == {E(n, v) : n \in {"A", "B"}, v \in {"bare", "empty", "1"}}
Lists == UNION {[1..n -> Entries] : n \in 0..2}

(* One object and one connection: environments of up to two entries        *)
(* against patches of up to two, those that name a variable twice too.     *)
Merging ==
    [conns |-> {CHOOSE c \in Conns : TRUE}, ops |-> {"create", "patch"}, keys |-> {"a"}, reqs |-> 2, fails |-> 0,
     specs |-> {S(e, {"u"}, "i", r, "none") : e \in {e \in Lists : Once(SelectSeq(e, IsSetting))},
                                              r \in {"none", "2"}},
     patches |-> {P(e, b, i, "none", m) : e \in Lists, b \in {{}, {"u", "v"}},
                                          i \in {"none", "j"}, m \in {"none", "m"}}]

(* Few payloads, and every order of the operations.                        *)
Few ==
    [conns |-> Conns, ops |-> {"create", "put", "patch", "revert", "delete"},
     keys |-> Cargoes, reqs |-> 4, fails |-> 0,
     specs |-> {S(<<E("A", "1")>>, {}, "i", "2", "none")},
     patches |-> {P(<<E("B", "1")>>, {}, "none", "none", "none")}]
Crossing == [Few EXCEPT !.reqs = 5]
Failing == [Few EXCEPT !.reqs = 4, !.fails = 1]
Machines == [Few EXCEPT !.ops = {"create", "patch", "delete"}, !.keys = Vms, !.fails = 1,
                        !.patches = {[P(<<>>, {}, "none", "none", "m") EXCEPT !.name = "new"]}]

MCScenarios ==
    [merging |-> Merging, crossing |-> Crossing, failing |-> Failing, machines |-> Machines]

(* Connections are interchangeable.                                        *)
ConnSymmetry == Permutations(Conns)
=============================================================================
