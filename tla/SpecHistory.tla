----------------------------- MODULE SpecHistory ----------------------------
(***************************************************************************)
(* The specifications of cargoes and virtual machines in nanocld's         *)
(* database.  A cargo or vm is three rows made and removed by separate     *)
(* statements, without a transaction: its row, its status, and one spec    *)
(* per version, kept as its history.  Creation, PUT, PATCH (which merges   *)
(* what it read with the payload), the revert to an earlier spec and the   *)
(* deletion's background task interleave statement by statement; foreign   *)
(* keys are what the database itself refuses.                              *)
(***************************************************************************)
EXTENDS Naturals, Sequences, FiniteSets, SequencesExt

CONSTANTS
    Cargoes,     (* keys of cargoes                                          *)
    Vms,         (* keys of virtual machines                                 *)
    Conns,       (* HTTP connections                                         *)
    Scenarios    (* bounds of a behaviour, by name: the connections it uses, *)
                 (* the operations, keys, specs and patches of its requests, *)
                 (* how many requests and failing statements it has          *)

Keys == Cargoes \cup Vms
None == [st |-> "none"]

(* A payload field that was not given.                                     *)
Absent == "none"

(* A spec: the container's environment, binds and image (a vm has none of  *)
(* the first two, and its image is its disk), the replication, and one     *)
(* field, meta, for those that are kept when a patch does not give them.   *)
SpecFields == {"name", "env", "binds", "image", "repl", "meta"}
VmFields == {"name", "image", "meta"}
Spec0 == [name |-> "a", env |-> <<>>, binds |-> {}, image |-> "i", repl |-> Absent, meta |-> Absent]

(* A patch gives each field or leaves it out; "container" says whether it  *)
(* gives the cargo's container at all.  A vm's patch has no disk.          *)
PatchFields == SpecFields \cup {"container"}
VmPatchFields == VmFields \ {"image"}

(* An environment entry.  "bare" has no "=", "empty" nothing after it.     *)
IsSetting(e) == e.v # "bare"

ASSUME SpecAssumption ==
    /\ Cargoes \cap Vms = {} /\ Keys \cap Conns = {}
    /\ \A w \in DOMAIN Scenarios :
          /\ \A s \in Scenarios[w].specs : DOMAIN s = SpecFields
          /\ \A p \in Scenarios[w].patches : DOMAIN p = PatchFields

VARIABLES
    row,     (* cargoes and vms: name and spec                               *)
    status,  (* object_process_statuses: the keys that have one              *)
    specs,   (* specs, in the order of their creation, the deleted included  *)
    act,     (* what each connection, and the task of each key, does         *)
    queue,   (* Destroying events the event loop has not handled             *)
    hist,    (* history: the specs answered to clients, and the keys that    *)
             (* a failure or an overlap with a deletion was about            *)
    left     (* what is left of the bounds                                   *)

vars == <<row, status, specs, act, queue, hist, left>>

Init ==
    /\ row = [k \in Keys |-> None]
    /\ status = {} /\ specs = <<>> /\ queue = <<>>
    /\ act = [a \in Conns \cup Keys |-> None]
    /\ hist = [acked |-> [k \in Keys |-> {}], worn |-> {}]
    /\ left \in {[w |-> w, reqs |-> Scenarios[w].reqs, fails |-> Scenarios[w].fails] :
                  w \in DOMAIN Scenarios}

-----------------------------------------------------------------------------
(* Merging a patch into a spec.                                            *)

(* Mutant: looks for the whole entry instead of the name.                   *)
MergeEntryWhole(env, e) == IF ~IsSetting(e) \/ Contains(env, e) THEN env ELSE Append(env, e)

(* One entry of the payload's environment.                                 *)
MergeEntry(env, e) ==
    LET pos == SelectInSeq(env, LAMBDA o : o.n = e.n /\ IsSetting(o))
    IN  CASE ~IsSetting(e) -> env
          [] IsSetting(e) /\ pos = 0 -> Append(env, e)
          [] pos > 0 /\ e.v = "empty" -> RemoveAt(env, pos)
          [] pos > 0 /\ e.v \notin {"bare", "empty"} -> ReplaceAt(env, pos, e)

MergeEnv(old, new) == FoldLeft(MergeEntry, old, new)

Given(new, old) == IF new # Absent THEN new ELSE old

(* CargoDb::fn_patch_obj_by_pk: the name of the payload is not used, the   *)
(* container only when it is given, and the replication always.            *)
MergeCargo(s, p) ==
    [s EXCEPT !.env = IF p.container THEN MergeEnv(@, p.env) ELSE @,
              !.binds = IF p.container THEN @ \cup p.binds ELSE @,
              !.image = IF p.container THEN Given(p.image, @) ELSE @,
              !.repl = p.repl,
              !.meta = Given(p.meta, @)]

(* VmDb::fn_patch_obj_by_pk: the disk is the old one whatever is sent.     *)
MergeVm(s, p) ==
    [f \in SpecFields |-> IF f \in VmPatchFields THEN Given(p[f], s[f]) ELSE s[f]]

Merge(k, s, p) == IF k \in Cargoes THEN MergeCargo(s, p) ELSE MergeVm(s, p)

-----------------------------------------------------------------------------
(* The statements.                                                         *)

At(a, ops, pc) == act[a] # None /\ act[a].op \in ops /\ act[a].pc = pc
Go(a, pc) == act' = [act EXCEPT ![a].pc = pc]
End(a) == act' = [act EXCEPT ![a] = None]

Exists(i) == specs[i].st = "row"
SpecsOf(k) == {i \in DOMAIN specs : Exists(i) /\ specs[i].key = k}

(* The specs no row refers to may be deleted.                              *)
Referenced(i) == \E k \in Keys : row[k] # None /\ row[k].spec = i

(* Operations of one key that overlap with its deletion are remembered.    *)
Begin(a, f) ==
    /\ act' = [act EXCEPT ![a] = f]
    /\ hist' = [hist EXCEPT !.worn = @ \cup
            {f.k : b \in {b \in DOMAIN act : /\ act[b] # None /\ act[b].k = f.k
                                             /\ "clear" \in {f.op, act[b].op}}}]

Frame(op, pc, k, data, patch, base) ==
    [st |-> "run", op |-> op, pc |-> pc, k |-> k, data |-> data, patch |-> patch,
     base |-> base, i |-> 0]

(* A request is answered with the spec it made.                            *)
Answer(a) ==
    /\ End(a)
    /\ hist' = [hist EXCEPT !.acked[act[a].k] = @ \cup {[i |-> act[a].i, data |-> act[a].data]}]

-----------------------------------------------------------------------------
(* The requests, within the bounds of the behaviour.                       *)

Bound == Scenarios[left.w]

MayAsk(a, op) == act[a] = None /\ left.reqs > 0 /\ a \in Bound.conns /\ op \in Bound.ops

Ask(a, f) ==
    /\ f.k \in Bound.keys
    /\ Begin(a, f)
    /\ left' = [left EXCEPT !.reqs = @ - 1]
    /\ UNCHANGED <<row, status, specs, queue>>

CreateCargo(a) ==
    /\ MayAsk(a, "create")
    /\ \E k \in Cargoes, s \in Bound.specs :
          Ask(a, Frame("create", "spec", k, [s EXCEPT !.name = k], Absent, 0))

CreateVm(a) ==
    /\ MayAsk(a, "create")
    /\ \E k \in Vms :
          Ask(a, Frame("create", "begin", k, [Spec0 EXCEPT !.name = k], Absent, 0))

(* The key is made of the path; the name in the body may be another.       *)
PutCargo(a) ==
    /\ MayAsk(a, "put")
    /\ \E k \in Cargoes, s \in Bound.specs :
          Ask(a, Frame("put", "begin", k, s, Absent, 0))

PatchCargo(a) ==
    /\ MayAsk(a, "patch")
    /\ \E k \in Cargoes, p \in Bound.patches :
          Ask(a, Frame("patch", "merge", k, Spec0, p, 0))

(* A vm has no PUT: patching is the only way to change it.                 *)
PatchVm(a) ==
    /\ MayAsk(a, "patch")
    /\ \E k \in Vms, p \in Bound.patches :
          Ask(a, Frame("patch", "merge", k, Spec0, p, 0))

(* The client gives the key of any spec it has seen.                       *)
RevertCargo(a) ==
    /\ MayAsk(a, "revert")
    /\ \E k \in Cargoes, i \in DOMAIN specs :
          Ask(a, Frame("revert", "fetch", k, Spec0, Absent, i))

DeleteCargo(a) ==
    /\ MayAsk(a, "delete")
    /\ \E k \in Cargoes :
          Ask(a, Frame("delete", "begin", k, Spec0, Absent, 0))

DeleteVm(a) ==
    /\ MayAsk(a, "delete")
    /\ \E k \in Vms :
          Ask(a, Frame("delete", "begin", k, Spec0, Absent, 0))

-----------------------------------------------------------------------------
(* Their statements.                                                       *)

(* VmDb::fn_create_obj looks for the vm before it makes anything.          *)
VmCreate(a) ==
    /\ At(a, {"create"}, "begin")
    /\ IF row[act[a].k] # None THEN End(a) ELSE Go(a, "status")
    /\ UNCHANGED <<row, status, specs, queue, hist, left>>

(* Mutant: an update overwrites the spec the row points at.                 *)
InsertSpecInPlace(a) ==
    LET k == act[a].k
        old == IF row[k] = None THEN Len(specs) + 1 ELSE row[k].spec
    IN
    /\ At(a, {"create", "put", "patch", "revert"}, "spec")
    /\ specs' = [i \in DOMAIN specs \cup {old} |->
                    IF i = old THEN [st |-> "row", key |-> k, data |-> act[a].data] ELSE specs[i]]
    /\ act' = [act EXCEPT ![a].i = old,
                          ![a].pc = IF act[a].op = "create" /\ k \in Cargoes
                                    THEN "status" ELSE "row"]
    /\ UNCHANGED <<row, status, queue, hist, left>>

(* A cargo's spec comes before its status, a vm's after it.                *)
InsertSpec(a) ==
    /\ At(a, {"create", "put", "patch", "revert"}, "spec")
    /\ specs' = Append(specs, [st |-> "row", key |-> act[a].k, data |-> act[a].data])
    /\ act' = [act EXCEPT ![a].i = Len(specs) + 1,
                          ![a].pc = IF act[a].op = "create" /\ act[a].k \in Cargoes
                                    THEN "status" ELSE "row"]
    /\ UNCHANGED <<row, status, queue, hist, left>>

InsertStatus(a) ==
    /\ At(a, {"create"}, "status")
    /\ IF act[a].k \in status
       THEN End(a) /\ UNCHANGED status
       ELSE /\ status' = status \cup {act[a].k}
            /\ Go(a, IF act[a].k \in Cargoes THEN "row" ELSE "spec")
    /\ UNCHANGED <<row, specs, queue, hist, left>>

(* The insert is refused if the row, or not both rows it refers to, exist. *)
InsertRow(a) ==
    /\ At(a, {"create"}, "row")
    /\ IF row[act[a].k] # None \/ act[a].k \notin status \/ ~Exists(act[a].i)
       THEN End(a) /\ UNCHANGED <<row, hist>>
       ELSE /\ row' = [row EXCEPT ![act[a].k] =
                        [st |-> "row", name |-> act[a].data.name, spec |-> act[a].i]]
            /\ Answer(a)
    /\ UNCHANGED <<status, specs, queue, left>>

(* fn_patch_obj_by_pk reads the object with its spec and merges.           *)
PatchMerge(a) ==
    LET k == act[a].k IN
    /\ At(a, {"patch"}, "merge")
    /\ IF row[k] = None THEN End(a)
       ELSE act' = [act EXCEPT ![a].data = Merge(k, specs[row[k].spec].data, act[a].patch),
                               ![a].base = row[k].spec, ![a].pc = "begin"]
    /\ UNCHANGED <<row, status, specs, queue, hist, left>>

(* revert_cargo reads the spec by its key alone: of any cargo, but not a   *)
(* vm's, whose fields try_to_cargo_spec refuses.                           *)
RevertRead(a) ==
    LET i == act[a].base IN
    /\ At(a, {"revert"}, "fetch")
    /\ IF Exists(i) /\ specs[i].key \in Cargoes
       THEN act' = [act EXCEPT ![a].data = specs[i].data, ![a].pc = "begin"]
       ELSE End(a)
    /\ UNCHANGED <<row, status, specs, queue, hist, left>>

(* fn_put_obj_by_pk reads and writes the status; the vm's reads its row    *)
(* first.  What the status says is the subject of CargoLifecycle.          *)
PutStatus(a) ==
    LET k == act[a].k IN
    /\ At(a, {"put", "patch", "revert"}, "begin")
    /\ IF k \notin status \/ (k \in Vms /\ row[k] = None) THEN End(a) ELSE Go(a, "read")
    /\ UNCHANGED <<row, status, specs, queue, hist, left>>

(* update_from_spec.                                                       *)
UpdateRead(a) ==
    /\ At(a, {"put", "patch", "revert"}, "read")
    /\ IF row[act[a].k] = None THEN End(a) ELSE Go(a, "spec")
    /\ UNCHANGED <<row, status, specs, queue, hist, left>>

(* Mutant: the name is not written.                                         *)
UpdateRowKeepsName(a) ==
    /\ At(a, {"put", "patch", "revert"}, "row")
    /\ IF row[act[a].k] = None \/ ~Exists(act[a].i)
       THEN End(a) /\ UNCHANGED <<row, hist>>
       ELSE row' = [row EXCEPT ![act[a].k].spec = act[a].i] /\ Answer(a)
    /\ UNCHANGED <<status, specs, queue, left>>

UpdateRow(a) ==
    /\ At(a, {"put", "patch", "revert"}, "row")
    /\ IF row[act[a].k] = None \/ ~Exists(act[a].i)
       THEN End(a) /\ UNCHANGED <<row, hist>>
       ELSE /\ row' = [row EXCEPT ![act[a].k].spec = act[a].i,
                                  ![act[a].k].name = act[a].data.name]
            /\ Answer(a)
    /\ UNCHANGED <<status, specs, queue, left>>

(* fn_del_obj_by_pk marks the object, the event asks for its deletion.     *)
DeleteRead(a) ==
    /\ At(a, {"delete"}, "begin")
    /\ IF row[act[a].k] = None THEN End(a) ELSE Go(a, "mark")
    /\ UNCHANGED <<row, status, specs, queue, hist, left>>

DeleteMark(a) ==
    /\ At(a, {"delete"}, "mark")
    /\ queue' = IF act[a].k \in status THEN Append(queue, act[a].k) ELSE queue
    /\ End(a)
    /\ UNCHANGED <<row, status, specs, hist, left>>

-----------------------------------------------------------------------------
(* The task of a deletion.  The event loop starts it when the task the     *)
(* same key has now is over, and reads no other event until then.          *)
TaskBegin ==
    /\ queue # <<>> /\ act[Head(queue)] = None
    /\ Begin(Head(queue), Frame("clear", "begin", Head(queue), Spec0, Absent, 0))
    /\ queue' = Tail(queue)
    /\ UNCHANGED <<row, status, specs, left>>

TaskRead(k) ==
    /\ At(k, {"clear"}, "begin")
    /\ IF row[k] = None THEN End(k) ELSE Go(k, "row")
    /\ UNCHANGED <<row, status, specs, queue, hist, left>>

(* clear_by_pk: three statements.                                          *)
ClearRow(k) ==
    /\ At(k, {"clear"}, "row")
    /\ row' = [row EXCEPT ![k] = None]
    /\ Go(k, "specs")
    /\ UNCHANGED <<status, specs, queue, hist, left>>

ClearSpecs(k) ==
    /\ At(k, {"clear"}, "specs")
    /\ IF \E i \in SpecsOf(k) : Referenced(i)
       THEN End(k) /\ UNCHANGED <<specs, hist>>
       ELSE /\ specs' = [i \in DOMAIN specs |->
                           IF i \in SpecsOf(k) THEN [specs[i] EXCEPT !.st = "gone"] ELSE specs[i]]
            /\ hist' = [hist EXCEPT !.acked[k] = {}]
            /\ Go(k, "status")
    /\ UNCHANGED <<row, status, queue, left>>

(* Mutant: the status stays.                                                *)
ClearStatusKeeps(k) ==
    /\ At(k, {"clear"}, "status")
    /\ End(k)
    /\ UNCHANGED <<row, status, specs, queue, hist, left>>

ClearStatus(k) ==
    /\ At(k, {"clear"}, "status")
    /\ status' = IF row[k] = None THEN status \ {k} ELSE status
    /\ End(k)
    /\ UNCHANGED <<row, specs, queue, hist, left>>

(* A statement fails, and with it the request or the task.                 *)
DbFails(a) ==
    /\ act[a] # None /\ left.fails > 0
    /\ End(a)
    /\ hist' = [hist EXCEPT !.worn = @ \cup {act[a].k}]
    /\ left' = [left EXCEPT !.fails = @ - 1]
    /\ UNCHANGED <<row, status, specs, queue>>

Next ==
    \/ \E a \in Conns : \/ CreateCargo(a) \/ CreateVm(a) \/ PutCargo(a) \/ PatchCargo(a)
                        \/ PatchVm(a) \/ RevertCargo(a) \/ DeleteCargo(a) \/ DeleteVm(a)
                        \/ VmCreate(a) \/ InsertSpec(a) \/ InsertStatus(a) \/ InsertRow(a)
                       \/ PatchMerge(a) \/ RevertRead(a) \/ PutStatus(a)
                        \/ UpdateRead(a) \/ UpdateRow(a) \/ DeleteRead(a) \/ DeleteMark(a)
    \/ TaskBegin
    \/ \E k \in Keys : TaskRead(k) \/ ClearRow(k) \/ ClearSpecs(k) \/ ClearStatus(k)
    \/ \E a \in DOMAIN act : DbFails(a)

Spec == Init /\ [][Next]_vars
-----------------------------------------------------------------------------
(* No two entries name the same variable.                                  *)
Once(env) == \A i, j \in DOMAIN env : env[i].n = env[j].n => i = j

(* The row of a cargo or vm and the spec it points at agree: the spec      *)
(* exists, was made for that very key (a revert copies, it never shares)   *)
(* and carries the name of the row, whatever creations, puts, patches,     *)
(* reverts and deletions interleave.                                       *)
SpecIsOwn ==
    \A k \in Keys : row[k] # None =>
        LET s == specs[row[k].spec] IN
        /\ k \in status
        /\ s.st = "row" /\ s.key = k /\ s.data.name = row[k].name

(* What a variable is after a patch that names each variable once.         *)
EnvAfter(old, new) ==
    LET named == {e.n : e \in {e \in new : IsSetting(e)}}
        known == {e.n : e \in {e \in old : IsSetting(e)}}
    IN  {e \in old : IsSetting(e) => e.n \notin named}
        \cup {e \in new : IsSetting(e) /\ ~(e.v = "empty" /\ e.n \in known)}

(* A patch is the spec it was merged with, changed in what the payload     *)
(* gives and nowhere else: of the environment the variables it names (an   *)
(* empty value removes one), of the container also its image and further   *)
(* binds; the disk of a vm and the name of a cargo stay.  No variable is   *)
(* set twice that was not before ("merge env and ensure no duplicate       *)
(* key").  The replication is not spoken of: the code takes the payload's, *)
(* given or not.                                                           *)
PatchMerges ==
    \A a \in Conns : (act[a] # None /\ act[a].op = "patch" /\ act[a].pc # "merge") =>
        LET old == specs[act[a].base].data
            new == act[a].data
            p == act[a].patch
            cargo == act[a].k \in Cargoes
        IN  /\ \A f \in {"meta"} \cup (IF cargo THEN {} ELSE {"name"}) :
                  new[f] = IF p[f] # Absent THEN p[f] ELSE old[f]
            /\ cargo => new.name = old.name
            /\ Once(SelectSeq(old.env, IsSetting)) => Once(SelectSeq(new.env, IsSetting))
            /\ ~cargo => new.image = old.image
            /\ cargo => IF p.container
                        THEN /\ new.image \in {p.image, old.image} \ {Absent}
                             /\ new.image = old.image => p.image \in {Absent, old.image}
                             /\ old.binds \cup p.binds = new.binds
                             /\ Once(old.env) /\ Once(p.env) =>
                                   ToSet(new.env) = EnvAfter(ToSet(old.env), ToSet(p.env))
                        ELSE [new EXCEPT !.meta = old.meta, !.repl = old.repl] = old

(* "It will keep the old values in the history": every spec a client was   *)
(* given for a cargo or vm is in its history, unchanged, until the object  *)
(* is deleted.                                                             *)
AckInHistory ==
    \A k \in Keys : \A r \in hist.acked[k] :
        r.i \in SpecsOf(k) /\ specs[r.i].data = r.data

(* With nothing on its way, a key has a row, a status and a history or     *)
(* none of them, so that its name can be used again: refused creations,    *)
(* patches of a missing object and repeated deletions leave nothing.       *)
(* Excepted are keys with a failed statement, or where another operation   *)
(* ran beside the deletion's task.                                         *)
NamesFree ==
    (queue = <<>> /\ \A a \in DOMAIN act : act[a] = None) =>
        \A k \in Keys \ hist.worn :
            row[k] = None => k \notin status /\ SpecsOf(k) = {}

=============================================================================
