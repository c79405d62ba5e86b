------------------------------- MODULE Listing -------------------------------
(***************************************************************************)
(* Lists and counts.  Every repository of nanocld translates a generic     *)
(* filter (conditions, alternatives, an order, a page) into a query with   *)
(* the same macros, from the table of its columns.  A client pages through *)
(* the result while rows are inserted and deleted.                         *)
(*                                                                         *)
(* A cell is a set of at most one value, and empty if it is NULL.  A text, *)
(* a uuid, a time and a label are numbers, a json value the set of its     *)
(* labels.  The value of a clause is a set too: the value compared with,   *)
(* the values of "in", the texts a "like" matches, the labels contained.   *)
(* A date that cannot be parsed, and a uuid that is none, is 0.            *)
(***************************************************************************)
EXTENDS Naturals, Sequences, FiniteSets, SequencesExt

CONSTANTS
    Queries,       (* the lists asked for: [tab, space, filter]              *)
    Spaces,        (* the namespaces, as texts                               *)
    Labels,        (* json labels                                            *)
    DefaultLimit,  (* rows of a page, 100 in the code                        *)
    MaxRows        (* bound: rows inserted                                   *)

ASSUME ListingAssumption == DefaultLimit \in Nat \ {0} /\ 0 \notin Spaces

VARIABLES
    rows,    (* the table                                                    *)
    clock,   (* rows inserted so far                                         *)
    cur      (* the client: query, offset, what it has seen, state           *)

vars == <<rows, clock, cur>>

-----------------------------------------------------------------------------
(* Repositories: the types of the columns a filter may name, the primary   *)
(* key, and whether the list reads the specification of each row again.    *)
Tab(texts, times, uuids, jsons, pk, again) ==
    [cols |-> [c \in texts \cup times \cup uuids \cup jsons |->
                  CASE c \in texts -> "text" [] c \in times -> "time"
                    [] c \in uuids -> "uuid" [] c \in jsons -> "json"],
     pk |-> pk, again |-> again]

CargoTable == Tab({"key", "name", "namespace_name", "status.wanted", "status.actual"},
                  {"created_at", "updated_at"}, {}, {"data", "metadata"}, "key", TRUE)
VmTable == Tab({"key", "name", "namespace_name", "spec_key", "status.wanted", "status.actual"},
               {"created_at"}, {}, {"data", "metadata"}, "key", TRUE)
JobTable == Tab({"key", "status.wanted", "status.actual"}, {"created_at", "updated_at"}, {},
                {"data", "metadata"}, "key", FALSE)
ProcessTable == Tab({"key", "name", "kind", "node_name", "kind_key"}, {"created_at"}, {},
                    {"data"}, "key", FALSE)
SecretTable == Tab({"key", "kind"}, {"created_at", "updated_at"}, {}, {"data", "metadata"}, "key", FALSE)
ResourceTable == Tab({"key", "kind", "spec_key"}, {"created_at"}, {}, {"data", "metadata"}, "key", FALSE)
KindTable == Tab({"name", "spec_key"}, {"created_at"}, {}, {}, "name", FALSE)
EventTable == Tab({"reporting_node", "reporting_controller", "kind", "note", "action", "reason"},
                  {"created_at"}, {"key"}, {"actor", "related", "metadata"}, "key", FALSE)
MetricTable == Tab({"node_name", "kind"}, {"created_at"}, {"key"}, {"data"}, "key", FALSE)
NodeTable == Tab({"name", "ip_address"}, {"created_at"}, {}, {}, "name", FALSE)
NamespaceTable == Tab({"name"}, {"created_at"}, {}, {}, "name", FALSE)
VmImageTable == Tab({"name", "kind", "parent", "format", "path"}, {"created_at"}, {}, {}, "name", FALSE)

Table == [cargo |-> CargoTable, vm |-> VmTable, job |-> JobTable, process |-> ProcessTable,
          secret |-> SecretTable, resource |-> ResourceTable, kind |-> KindTable, event |-> EventTable,
          metric |-> MetricTable, node |-> NodeTable, namespace |-> NamespaceTable, image |-> VmImageTable]

Cols(t) == DOMAIN Table[t].cols
Type(t, c) == Table[t].cols[c]

(* A query names a table, and its filter has the fields described below.   *)
ASSUME QueriesAssumption ==
    \A q \in Queries :
        /\ q.tab \in DOMAIN Table
        /\ DOMAIN q.filter = {"conds", "alts", "order", "limit", "st"}
        /\ q.filter.limit \subseteq Nat /\ q.filter.st \in {"ok", "bad"}

-----------------------------------------------------------------------------
(* Clauses: the ones each type of column knows, and when they hold.        *)
Nulls == {"isnull", "isnotnull"}
Orders == {"eq", "ne", "gt", "lt", "ge", "le", "in", "notin"}
Clauses == Nulls \cup Orders \cup {"like", "notlike", "contains", "haskey"}

Compare(cl, x) ==
    CASE cl.op \in {"eq", "in", "like"} -> x \in cl.val
      [] cl.op \in {"ne", "notin", "notlike"} -> x \notin cl.val
      [] cl.op = "gt" -> \E y \in cl.val : x > y
      [] cl.op = "lt" -> \E y \in cl.val : x < y
      [] cl.op = "ge" -> \E y \in cl.val : x >= y
      [] cl.op = "le" -> \E y \in cl.val : x <= y

NullHolds(cl, v) == cl.op = "isnull" <=> v = {}

TextHolds(cl, v) == IF cl.op \in Nulls THEN NullHolds(cl, v) ELSE \E x \in v : Compare(cl, x)
TimeHolds(cl, v) == IF cl.op \in Nulls THEN NullHolds(cl, v) ELSE \E x \in v : Compare(cl, x)
UuidHolds(cl, v) == IF cl.op \in Nulls THEN NullHolds(cl, v) ELSE v = cl.val
JsonHolds(cl, v) == CASE cl.op \in Nulls -> NullHolds(cl, v)
                      [] cl.op \in {"contains", "haskey"} -> \E x \in v : cl.val \subseteq x

TextClauses == Nulls \cup Orders \cup {"like", "notlike"}
TimeClauses == Nulls \cup Orders
UuidClauses == Nulls \cup {"eq"}
JsonClauses == Nulls \cup {"contains", "haskey"}

Known(type) == CASE type = "text" -> TextClauses [] type = "time" -> TimeClauses
                 [] type = "uuid" -> UuidClauses [] type = "json" -> JsonClauses

Holds(t, r, c, cl) ==
    CASE Type(t, c) = "text" -> TextHolds(cl, r[c])
      [] Type(t, c) = "time" -> TimeHolds(cl, r[c])
      [] Type(t, c) = "uuid" -> UuidHolds(cl, r[c])
      [] Type(t, c) = "json" -> JsonHolds(cl, r[c])

(* A date with no offset from UTC, and what is no date, is not parsed.     *)
Unparsed(t, c, cl) ==
    Type(t, c) = "time" /\ cl.op \in Orders /\ 0 \in cl.val

(* Columns that the database stores as a uuid or an address are compared   *)
(* as texts, which it refuses.                                             *)
Mistyped(c, cl) == c \in {"spec_key", "ip_address"} /\ cl.op \notin Nulls

-----------------------------------------------------------------------------
(* Filters: [conds, alts, order, limit, st]; order and limit are sets of   *)
(* at most one element, st is "bad" if the text of the filter is no filter.*)
(* A condition on an unknown                                               *)
(* column, or of an unknown clause, is dropped; one of an alternative on   *)
(* an unknown column is dropped, of an unknown clause it panics.           *)
Applied(t, f) == {c \in DOMAIN f.conds : c \in Cols(t) /\ f.conds[c].op \in Known(Type(t, c))}

AltPanics(t, alt) ==
    \E c \in DOMAIN alt \cap Cols(t) : alt[c].op \notin Known(Type(t, c)) \/ Unparsed(t, c, alt[c])

OrderPanics(f) == \E os \in f.order : \E i \in DOMAIN os : os[i].dir \notin {"asc", "desc"}

Fails(t, f) ==
    \/ f.st = "bad"
    \/ \E c \in Applied(t, f) : Unparsed(t, c, f.conds[c]) \/ Mistyped(c, f.conds[c])
    \/ \E alt \in f.alts : AltPanics(t, alt) \/ \E c \in DOMAIN alt \cap Cols(t) : Mistyped(c, alt[c])
    \/ OrderPanics(f)

(* Each alternative is or-ed to all that comes before it.                  *)
Meets(t, f, r) ==
    \/ Applied(t, f) = {} /\ f.alts = {}
    \/ Applied(t, f) # {} /\ \A c \in Applied(t, f) : Holds(t, r, c, f.conds[c])
    \/ \E alt \in f.alts : \A c \in DOMAIN alt \cap Cols(t) : Holds(t, r, c, alt[c])

Selected(t, f) == {r \in rows : Meets(t, f, r)}

(* Of several orders the last one counts, and none if no column is known;  *)
(* NULL is greater than every value.                                       *)
OrderOf(t, f) ==
    IF f.order = {} THEN <<[col |-> "created_at", dir |-> "desc"]>>
    ELSE SelectSeq(CHOOSE os \in f.order : TRUE, LAMBDA o : o.col \in Cols(t))

Less(a, b) == a # {} /\ (b = {} \/ \E x \in a, y \in b : x < y)

InOrder(t, f, s) ==
    LET os == OrderOf(t, f)
        o == Last(os)
    IN  os # <<>> => \A i, j \in DOMAIN s : i < j =>
            IF o.dir = "asc" THEN ~Less(s[j][o.col], s[i][o.col]) ELSE ~Less(s[i][o.col], s[j][o.col])

LimitOf(f) == IF f.limit = {} THEN DefaultLimit ELSE CHOOSE n \in f.limit : TRUE

(* Mutant: the offset counts pages from one.                               *)
PageLate(s, off, lim) == SubSeq(s, off + 2, Min({off + lim + 1, Len(s)}))

Page(s, off, lim) == SubSeq(s, off + 1, Min({off + lim, Len(s)}))

Pages(t, f, off) == {Page(s, off, LimitOf(f)) : s \in {q \in SetToSeqs(Selected(t, f)) : InOrder(t, f, q)}}

WithSpace(conds, space) ==
    [c \in DOMAIN conds \cup {"namespace_name"} |->
        IF c = "namespace_name" THEN [op |-> "eq", val |-> {space}] ELSE conds[c]]

(* Mutant: the client's condition on the namespace stays.                  *)
InSpaceUnlessAsked(f, space) ==
    IF "namespace_name" \in DOMAIN f.conds THEN f ELSE [f EXCEPT !.conds = WithSpace(@, space)]

InSpace(f, space) == [f EXCEPT !.conds = WithSpace(@, space)]

(* The lists of cargoes and vms are of one namespace.                      *)
FilterOf(q) == IF q.tab \in {"cargo", "vm"} /\ q.filter.st = "ok" THEN InSpace(q.filter, q.space) ELSE q.filter

Count(q) == Cardinality(Selected(q.tab, FilterOf(q)))

-----------------------------------------------------------------------------
Start(q) == [q |-> q, off |-> 0, seen |-> {}, page |-> <<>>, base |-> {}, gone |-> {}, new |-> {}, st |-> "new"]

Init == rows = {} /\ clock = 0 /\ cur \in {Start(q) : q \in Queries}

Tabs == cur.q.tab

(* A row is inserted, its time that of the insertion.                      *)
Row(t, k, space, md) ==
    [c \in Cols(t) |->
        CASE c = "namespace_name" -> {space} [] c = "metadata" -> md
          [] Type(t, c) = "json" -> {{}} [] OTHER -> {k}]

Insert ==
    /\ clock < MaxRows
    /\ clock' = clock + 1
    /\ \E space \in Spaces, md \in {{}, {{}}} \cup {{{l}} : l \in Labels} :
          LET r == Row(Tabs, clock + 1, space, md) IN
          /\ rows' = rows \cup {r}
          /\ cur' = [cur EXCEPT !.new = @ \cup {r}]

Delete ==
    \E r \in rows : /\ rows' = rows \ {r}
                    /\ cur' = [cur EXCEPT !.gone = @ \cup {r}]
                    /\ UNCHANGED clock

(* The first page is asked for.  A namespace must be there to be listed.   *)
Open ==
    /\ cur.st = "new"
    /\ LET bad == cur.q.tab \in {"cargo", "vm"} /\ cur.q.space \notin Spaces IN
       cur' = [cur EXCEPT !.st = IF bad \/ Fails(cur.q.tab, FilterOf(cur.q)) THEN "err" ELSE "ask",
                          !.base = rows, !.gone = {}, !.new = {}]
    /\ UNCHANGED <<rows, clock>>

ReadBy ==
    /\ cur.st = "ask"
    /\ \E p \in Pages(cur.q.tab, FilterOf(cur.q), cur.off) : cur' = [cur EXCEPT !.page = p, !.st = "rows"]
    /\ UNCHANGED <<rows, clock>>

(* The rest of the list: the rows' specifications, which fails if one is   *)
(* gone, and their instances.  The client asks for the next page.          *)
List ==
    LET f == FilterOf(cur.q)
        lost == Table[cur.q.tab].again /\ ToSet(cur.page) \cap cur.gone # {}
    IN  /\ cur.st = "rows"
        /\ cur' = IF lost THEN [cur EXCEPT !.st = "err"]
                  ELSE [cur EXCEPT !.seen = @ \cup ToSet(cur.page), !.off = @ + LimitOf(f), !.page = <<>>,
                                   !.st = IF Len(cur.page) < LimitOf(f) THEN "end" ELSE "ask"]
        /\ UNCHANGED <<rows, clock>>

Next == Insert \/ Delete \/ Open \/ ReadBy \/ List

Spec == Init /\ [][Next]_vars

-----------------------------------------------------------------------------
(* A query whose last known order is on a column with no two equal values. *)
Total(t, f) ==
    LET os == OrderOf(t, f) IN
    os # <<>> /\ Last(os).col \in {"created_at", Table[t].pk}

(* Paging until a page is not full misses no row that was there when the   *)
(* first page was asked for, whatever is inserted meanwhile, as long as no *)
(* row is deleted and the last known order is total; if no row is inserted *)
(* either, it sees as many rows as the count says.                         *)
PagesMissNothing ==
    LET t == cur.q.tab
        f == FilterOf(cur.q)
    IN  cur.st = "end" /\ cur.gone = {} /\ Total(t, f) =>
            /\ {r \in cur.base : Meets(t, f, r)} \subseteq cur.seen
            /\ cur.new = {} => Cardinality(cur.seen) = Count(cur.q)

(* A list of a namespace holds rows of that namespace only, whatever the   *)
(* filter's own conditions are, if it has no alternatives.                 *)
SpaceIsKept ==
    cur.q.tab \in {"cargo", "vm"} /\ cur.q.filter.alts = {} =>
        \A r \in cur.seen : r["namespace_name"] = {cur.q.space}

=============================================================================
