------------------------------ MODULE MCListing ------------------------------
(* An instance of Listing for TLC: filters of every form, on the tables    *)
(* they tell apart.                                                        *)
EXTENDS Listing, TLC

Cl(op, val) == [op |-> op, val |-> val]
F(conds, alts, order, limit) == [conds |-> conds, alts |-> alts, order |-> order, limit |-> limit, st |-> "ok"]
By(col, dir) == [col |-> col, dir |-> dir]
Q(tab, filter) == [tab |-> tab, space |-> 1, filter |-> filter]
NoConds == [c \in {} |-> Cl("eq", {})]

All(limit) == F(NoConds, {}, {}, limit)
BadFilter == [All({}) EXCEPT !.st = "bad"]

ClauseQueries ==
    {Q("job", F(c, {}, {}, {})) : c \in
        {"created_at" :> Cl(op, {2}) : op \in {"eq", "ne", "gt", "lt", "ge", "le"}}
        \cup {"created_at" :> Cl("eq", {0}), "created_at" :> Cl("like", {1}), "created_at" :> Cl("notin", {0, 1}),
              "key" :> Cl("like", {1, 2}), "key" :> Cl("notlike", {1}), "key" :> Cl("in", {1, 3}),
              "key" :> Cl("notin", {1}), "metadata" :> Cl("isnull", {}), "metadata" :> Cl("isnotnull", {}),
              "metadata" :> Cl("haskey", {7}), "metadata" :> Cl("eq", {1}), "nope" :> Cl("eq", {1})}}
    \cup {Q("event", F(c, {}, {}, {1})) :
            c \in {"key" :> Cl("eq", {0}), "key" :> Cl("eq", {2}), "key" :> Cl("gt", {1})}}
    \cup {Q("resource", F("spec_key" :> Cl("eq", {1}), {}, {}, {1})), Q("metric", BadFilter)}

OrderQueries ==
    {Q("secret", F(NoConds, {}, {o}, {1})) : o \in
        {<<>>, <<By("kind", "asc"), By("key", "asc")>>, <<By("key", "desc")>>,
         <<By("created_at", "desc"), By("nope", "asc")>>, <<By("nope", "")>>}}

SpaceQueries ==
    {Q("cargo", f) : f \in
        {All({}), All({1}), F("metadata" :> Cl("contains", {7}), {}, {}, {1}),
         F("namespace_name" :> Cl("eq", {2}), {}, {}, {}),
         F(NoConds, {"metadata" :> Cl("contains", {7}), "key" :> Cl("eq", {1})}, {}, {1}),
         F(NoConds, {"metadata" :> Cl("eq", {1})}, {}, {1})}}
    \cup {[Q("vm", All({1})) EXCEPT !.space = 3]}

PlainQueries == {Q(t, All({2})) : t \in {"process", "kind", "node", "namespace", "image"}}

MCQueries == ClauseQueries \cup OrderQueries \cup SpaceQueries \cup PlainQueries
=============================================================================
