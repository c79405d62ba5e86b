----------------------------- MODULE Resources ------------------------------
(***************************************************************************)
(* Resources and resource kinds in nanocld.  A resource is a row that      *)
(* points at its current spec; before a row is written, the kind's         *)
(* controller (ncproxy, ncdns) is called and may refuse.  Every database   *)
(* statement is a step of its own: nothing here runs in a transaction.     *)
(*                                                                         *)
(* The call to a controller is call[k]: nanocld sends it, the controller   *)
(* answers, and after CTRL_CLIENT's timeout nanocld stops waiting while    *)
(* the controller may go on.                                               *)
(***************************************************************************)
EXTENDS Naturals, FiniteSets

CONSTANTS
    Conns,       (* HTTP connections to nanocld                              *)
    Names,       (* resource names                                           *)
    KindOf,      (* the kind a resource is given                             *)
    Url,         (* the kinds that have a controller                         *)
    Versions,    (* versions of a kind                                       *)
    Registered,  (* the kinds that have a version already                    *)
    DataOf,      (* the data a client may give a resource                    *)
    Ops,         (* the operations the clients call                          *)
    MaxSpecs,    (* bound: specs inserted                                    *)
    Scenarios    (* bounds of a behaviour: the names and kinds its requests  *)
                 (* are about, and how many requests, failing statements,    *)
                 (* timeouts and faults of the controllers it has            *)

Kinds == {KindOf[n] : n \in Names}
Keys == 1..MaxSpecs
None == [st |-> "none"]

(* Specs are found by the key of their owner alone: no resource has the    *)
(* name of a kind.                                                         *)
ASSUME ResourcesAssumption ==
    /\ Url \subseteq Kinds /\ Names \cap Kinds = {}
    /\ Registered \subseteq Kinds /\ Cardinality(Registered) \in 0..MaxSpecs
    /\ MaxSpecs \in Nat
    /\ \A s \in Scenarios : s.about \subseteq Names \cup Kinds
    /\ Ops \subseteq {"create", "put", "revert", "delete", "kind", "unkind"}

VARIABLES
    kinds,   (* resource_kinds: the key of the kind's latest version         *)
    res,     (* resources: the key of the resource's current spec            *)
    specs,   (* specs, of kinds and of resources                             *)
    req,     (* the request each connection serves                           *)
    call,    (* its call to a controller                                     *)
    calm,    (* history: nothing failed or overlapped for the resource, nor  *)
             (* was a stream of it skipped that replaces another             *)
    scope,   (* the bounds of this behaviour                                 *)
    rleft    (* what is left of them, and whether a statement failed         *)

rvars == <<kinds, res, specs, req, call, calm, scope, rleft>>

RInit ==
    /\ kinds \in [Kinds -> 0..Cardinality(Registered)]
    /\ \A d \in Kinds : (kinds[d] # 0) <=> (d \in Registered)
    /\ \A d, e \in Registered : d # e => kinds[d] # kinds[e]
    /\ res = [n \in Names |-> 0]
    /\ specs = [s \in Keys |-> IF \E d \in Registered : kinds[d] = s
                THEN [st |-> "spec", of |-> CHOOSE d \in Registered : kinds[d] = s, ver |-> 1,
                      data |-> 0]
                ELSE None]
    /\ req = [k \in Conns |-> None]
    /\ call = [k \in Conns |-> None]
    /\ scope \in Scenarios
    /\ calm = [n \in Names |-> TRUE]
    /\ rleft = [made |-> Cardinality(Registered), reqs |-> scope.reqs, db |-> scope.db, out |-> scope.out,
                failed |-> FALSE]

-----------------------------------------------------------------------------
(* Tables.  A row is never left pointing at a spec that is gone: that is   *)
(* the foreign key on spec_key, and Unreferenced what it lets through.     *)
Data(n) == specs[res[n]].data

HasVersion(d, v) == \E s \in Keys : specs[s] # None /\ specs[s].of = d /\ specs[s].ver = v

SpecsOf(o) == {s \in Keys : specs[s] # None /\ specs[s].of = o}

Unreferenced(S) ==
    /\ \A n \in Names : res[n] \notin S
    /\ \A d \in Kinds : kinds[d] \notin S

InsertSpec(spec) ==
    /\ rleft.made < MaxSpecs
    /\ specs' = [specs EXCEPT ![rleft.made + 1] = spec]
    /\ rleft' = [rleft EXCEPT !.made = @ + 1]

DeleteSpecs(o) == specs' = [s \in Keys |-> IF s \in SpecsOf(o) THEN None ELSE specs[s]]

At(k, op, pc) == req[k] # None /\ req[k].op \in op /\ req[k].pc = pc

Go(k, pc) == req' = [req EXCEPT ![k].pc = pc]

End(k) == req' = [req EXCEPT ![k] = None]

(* A request that fails: what it did so far stays done.                    *)
Spoil(k) == calm' = [calm EXCEPT ![req[k].key] = FALSE]

Others(k, n) == \E j \in Conns \ {k} :
                    \/ req[j] # None /\ req[j].key = n
                    \/ call[j] # None /\ call[j].key = n

Spend(f) == rleft' = [rleft EXCEPT ![f] = @ - 1]

-----------------------------------------------------------------------------
Frame(op, o, data, ver) ==
    [st |-> "run", op |-> op, pc |-> "read", key |-> o, data |-> data, ver |-> ver, spec |-> 0]

(* services/resource: revert reads the old spec before it becomes a put.   *)
Request(k, op, n, data) ==
    /\ req[k] = None /\ call[k] = None /\ op \in Ops \ {"kind", "unkind"}
    /\ rleft.reqs > 0
    /\ IF op = "revert"
       THEN \E s \in SpecsOf(n) : req' = [req EXCEPT ![k] = Frame("put", n, specs[s].data, 0)]
       ELSE req' = [req EXCEPT ![k] = Frame(op, n, data, 0)]
    /\ calm' = [calm EXCEPT ![n] = @ /\ ~Others(k, n)]
    /\ Spend("reqs")
    /\ UNCHANGED <<kinds, res, specs, call>>

(* create refuses a name in use; put and delete one that is not.           *)
ReadRow(k) ==
    /\ At(k, {"create", "put", "delete"}, "read")
    /\ IF (req[k].op = "create") = (res[req[k].key] = 0) THEN Go(k, "hook") ELSE End(k)
    /\ UNCHANGED <<kinds, res, specs, call, calm, rleft>>

KindKnown(d) == kinds[d] # 0 /\ HasVersion(d, specs[kinds[d]].ver)

(* Mutant: a rule is saved whatever the controller says.                   *)
HookUnchecked(k) ==
    LET d == KindOf[req[k].key] IN
    /\ At(k, {"create", "put", "delete"}, "hook")
    /\ Go(k, IF req[k].op = "delete" THEN "row" ELSE "kind")
    /\ UNCHANGED <<kinds, res, specs, call, calm, rleft>>

(* hook_create and hook_delete up to the call: the kind and its version    *)
(* are read (either missing is the same error), data a schema refuses ends *)
(* the request, and delete goes on without the hook.                       *)
Hook(k) ==
    LET d == KindOf[req[k].key]
        del == req[k].op = "delete"
        refused == ~KindKnown(d) \/ (~del /\ d \notin Url /\ req[k].data.bad)
    IN  /\ At(k, {"create", "put", "delete"}, "hook")
        /\ IF refused
           THEN /\ IF del THEN Go(k, "row") ELSE End(k)
                /\ IF del THEN Spoil(k) ELSE UNCHANGED calm
                /\ UNCHANGED call
           ELSE /\ IF d \in Url THEN Go(k, "wait") ELSE Go(k, IF del THEN "row" ELSE "kind")
                /\ call' = IF d \in Url
                           THEN [call EXCEPT ![k] = [st |-> "sent", key |-> req[k].key,
                                    verb |-> IF del THEN "del" ELSE "add", data |-> req[k].data]]
                           ELSE call
                /\ UNCHANGED calm
        /\ UNCHANGED <<kinds, res, specs, rleft>>

(* apply_rule and delete_rule return: an error ends create and put, while  *)
(* delete only logs it.                                                    *)
HookDone(k) ==
    /\ At(k, {"create", "put", "delete"}, "wait")
    /\ call[k] # None /\ call[k].st \in {"ok", "err"}
    /\ IF req[k].op = "delete" THEN Go(k, "row")
       ELSE IF call[k].st = "ok" THEN Go(k, "kind") ELSE End(k)
    /\ IF call[k].st = "ok" THEN UNCHANGED calm ELSE Spoil(k)
    /\ call' = [call EXCEPT ![k] = None]
    /\ UNCHANGED <<kinds, res, specs, rleft>>

(* The client of the controller gives up; the controller goes on.          *)
HookTimeout(k) ==
    /\ At(k, {"create", "put", "delete"}, "wait")
    /\ call[k] # None /\ call[k].st = "sent" /\ rleft.out > 0
    /\ IF req[k].op = "delete" THEN Go(k, "row") ELSE End(k)
    /\ Spoil(k)
    /\ call' = [call EXCEPT ![k].st = "lost"]
    /\ Spend("out")
    /\ UNCHANGED <<kinds, res, specs>>

(* create_from_spec and update_from_spec: put reads the row again, both    *)
(* read the kind again, then insert the spec ...                           *)
SaveSpec(k) ==
    LET n == req[k].key
        gone == kinds[KindOf[n]] = 0 \/ (req[k].op = "put" /\ res[n] = 0)
    IN  /\ At(k, {"create", "put"}, "kind")
        /\ IF gone
           THEN End(k) /\ Spoil(k) /\ UNCHANGED <<specs, rleft>>
           ELSE /\ InsertSpec([st |-> "spec", of |-> n, data |-> req[k].data,
                               ver |-> specs[kinds[KindOf[n]]].ver])
                /\ req' = [req EXCEPT ![k].pc = "save", ![k].spec = rleft.made + 1]
                /\ UNCHANGED calm
        /\ UNCHANGED <<kinds, res, call>>

(* ... and write the row: create inserts, which fails when another request *)
(* inserted it first, and put updates, which fails when it is gone.  Both  *)
(* fail when a delete has removed the spec in between.                     *)
SaveRow(k) ==
    LET n == req[k].key
        fails == (req[k].op = "create") # (res[n] = 0) \/ specs[req[k].spec] = None
    IN  /\ At(k, {"create", "put"}, "save")
        /\ IF fails THEN Spoil(k) /\ UNCHANGED res
           ELSE res' = [res EXCEPT ![n] = req[k].spec] /\ UNCHANGED calm
        /\ End(k)
        /\ UNCHANGED <<kinds, specs, call, rleft>>

DelRow(k) ==
    /\ At(k, {"delete"}, "row")
    /\ res' = [res EXCEPT ![req[k].key] = 0]
    /\ Go(k, "specs")
    /\ UNCHANGED <<kinds, specs, call, calm, rleft>>

(* del_by_kind_key: one statement, refused as a whole by the foreign keys. *)
DelSpecs(k) ==
    /\ At(k, {"delete", "unkind"}, "specs")
    /\ IF Unreferenced(SpecsOf(req[k].key)) THEN DeleteSpecs(req[k].key) ELSE UNCHANGED specs
    /\ End(k)
    /\ UNCHANGED <<kinds, res, call, calm, rleft>>

-----------------------------------------------------------------------------
(* Kinds.  Create refuses a version that has a spec; delete a kind that    *)
(* has no row.                                                             *)
KindRequest(k, op, d, v) ==
    /\ req[k] = None /\ call[k] = None /\ op \in Ops \cap {"kind", "unkind"}
    /\ rleft.reqs > 0
    /\ req' = [req EXCEPT ![k] = Frame(op, d, 0, v)]
    /\ Spend("reqs")
    /\ UNCHANGED <<kinds, res, specs, call, calm>>

KindRead(k) ==
    /\ At(k, {"kind"}, "read")
    /\ IF HasVersion(req[k].key, req[k].ver) THEN End(k) ELSE Go(k, "spec")
    /\ UNCHANGED <<kinds, res, specs, call, calm, rleft>>

KindSpec(k) ==
    /\ At(k, {"kind"}, "spec")
    /\ InsertSpec([st |-> "spec", of |-> req[k].key, ver |-> req[k].ver, data |-> 0])
    /\ req' = [req EXCEPT ![k].pc = "lookup", ![k].spec = rleft.made + 1]
    /\ UNCHANGED <<kinds, res, call, calm>>

KindLookup(k) ==
    /\ At(k, {"kind"}, "lookup")
    /\ Go(k, IF kinds[req[k].key] = 0 THEN "insert" ELSE "update")
    /\ UNCHANGED <<kinds, res, specs, call, calm, rleft>>

(* The row is inserted (unless it is there by now) or updated (unless it   *)
(* is gone by now); a spec a delete took meanwhile fails both.             *)
KindRow(k) ==
    LET d == req[k].key IN
    /\ At(k, {"kind"}, "insert") \/ At(k, {"kind"}, "update")
    /\ kinds' = IF specs[req[k].spec] # None /\ (req[k].pc = "insert") = (kinds[d] = 0)
                THEN [kinds EXCEPT ![d] = req[k].spec] ELSE kinds
    /\ End(k)
    /\ UNCHANGED <<res, specs, call, calm, rleft>>

KindDelete(k) ==
    /\ At(k, {"unkind"}, "read")
    /\ IF kinds[req[k].key] = 0 THEN End(k) ELSE Go(k, "row")
    /\ UNCHANGED <<kinds, res, specs, call, calm, rleft>>

(* Mutant: the versions are left behind.                                   *)
KindDelRowOnly(k) ==
    /\ At(k, {"unkind"}, "row")
    /\ kinds' = [kinds EXCEPT ![req[k].key] = 0]
    /\ End(k)
    /\ UNCHANGED <<res, specs, call, calm, rleft>>

KindDelRow(k) ==
    /\ At(k, {"unkind"}, "row")
    /\ kinds' = [kinds EXCEPT ![req[k].key] = 0]
    /\ Go(k, "specs")
    /\ UNCHANGED <<res, specs, call, calm, rleft>>

(* A statement fails (the pool or the database): the request ends there.   *)
DbFails(k) ==
    /\ req[k] # None /\ req[k].pc # "wait" /\ rleft.db > 0
    /\ End(k)
    /\ calm' = [n \in Names |-> calm[n] /\ n # req[k].key]
    /\ rleft' = [rleft EXCEPT !.db = @ - 1, !.failed = TRUE]
    /\ UNCHANGED <<kinds, res, specs, call>>

RequestStep(k) ==
    \/ ReadRow(k) \/ Hook(k) \/ HookDone(k) \/ HookTimeout(k)
    \/ SaveSpec(k) \/ SaveRow(k) \/ DelRow(k) \/ DelSpecs(k)
    \/ KindRead(k) \/ KindSpec(k) \/ KindLookup(k) \/ KindRow(k)
    \/ KindDelete(k) \/ KindDelRow(k) \/ DbFails(k)

RNext ==
    /\ \E k \in Conns :
        \/ \E op \in Ops, n \in Names \cap scope.about :
                \E data \in DataOf[n] : Request(k, op, n, data)
        \/ \E op \in Ops, d \in Kinds \cap scope.about, v \in Versions : KindRequest(k, op, d, v)
        \/ RequestStep(k)
    /\ UNCHANGED scope

-----------------------------------------------------------------------------
Resting == \A k \in Conns : req[k] = None /\ call[k] = None

(* A kind never ends up with versions and no row, in which case it could   *)
(* neither be created again (the version exists) nor deleted (the row does *)
(* not), whatever creations and deletions of it race, as long as no        *)
(* database statement failed.                                              *)
KindUsable ==
    Resting /\ ~rleft.failed =>
        \A d \in Kinds : SpecsOf(d) # {} => kinds[d] # 0
=============================================================================
