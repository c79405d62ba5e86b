----------------------------- MODULE VmLifecycle ----------------------------
(***************************************************************************)
(* Virtual machines and their images in nanocld.  A vm is a row, a status, *)
(* specs, a snapshot of a base image (a row and a qcow2 file over its      *)
(* parent's file) and a Docker container named after its key.  A request   *)
(* only changes the status and emits an event; the event loop runs one     *)
(* background task per vm, in the order of the events.                     *)
(*                                                                         *)
(* An actor is an HTTP connection or the task of a vm; each statement,     *)
(* qemu-img run or Docker call it makes is a step, so that steps of other  *)
(* actors, Docker's events and the synchronisation at boot fall between.   *)
(***************************************************************************)
EXTENDS Naturals, Sequences, FiniteSets

CONSTANTS
    Vms,         (* keys of virtual machines                                 *)
    Conns,       (* HTTP connections                                         *)
    Bases,       (* images imported before                                   *)
    Extra,       (* further image names clients may use                      *)
    SnapName,    (* the name of the snapshot made of a base for a vm         *)
    MaxConts,    (* bound: containers created                                *)
    Scenarios    (* bounds of a behaviour: the operations and images its     *)
                 (* requests use, how many requests, failing statements,     *)
                 (* crashes, guests that stop and uploads cut short it has   *)

Images == Bases \cup Extra \cup {SnapName[b][v] : b \in Bases, v \in Vms}
Actors == Conns \cup Vms
Conts == 1..MaxConts
None == [st |-> "none"]

ImageOps == {"import", "snapshot", "clone", "rmi", "resize"}
VmOps == {"create", "start", "stop", "delete", "patch", "startone"}

(* A snapshot is named after its base and its vm, with a dot between them, *)
(* which validate_name refuses in the names of other images.               *)
ASSUME VmAssumption ==
    /\ MaxConts \in Nat
    /\ Conns \cap Vms = {} /\ Images \cap Vms = {} /\ "none" \notin Images \cup Vms
    /\ \A b \in Bases, v \in Vms :
          /\ SnapName[b][v] \notin Bases \cup Extra
          /\ \A c \in Bases, w \in Vms : SnapName[b][v] = SnapName[c][w] => b = c /\ v = w
    /\ \A s \in Scenarios : s.ops \subseteq ImageOps \cup VmOps

VARIABLES
    img,     (* vm_images: kind, parent and size                             *)
    file,    (* the image files: state, backing file and size                *)
    vm,      (* vms: the image of the vm's disk                              *)
    status,  (* object_process_statuses: wanted and actual                   *)
    specs,   (* the vms that have rows in specs                              *)
    conts,   (* Docker's containers, those that are gone included            *)
    rows,    (* processes: the containers that have a row                    *)
    act,     (* what each actor does                                         *)
    queue,   (* events the event loop has not handled                        *)
    dock,    (* Docker events the analyser has not handled                   *)
    boot,    (* the synchronisation at boot                                  *)
    hist,    (* history: the images and vms no failure and no overlap was    *)
             (* about, whether nothing was lost since the last boot, and the *)
             (* images clients made snapshots of                             *)
    left     (* what is left of the bounds                                   *)

store == <<img, file, vm, status, specs>>
vars == <<img, file, vm, status, specs, conts, rows, act, queue, dock, boot, hist, left>>

Idle == [pc |-> "off", ids |-> {}, files |-> {}, alone |-> TRUE]

Init ==
    /\ left \in {[reqs |-> s.reqs, db |-> s.db, crash |-> s.crash, exits |-> s.exits,
                  cuts |-> s.cuts, made |-> 0, lost |-> FALSE, ops |-> s.ops] : s \in Scenarios}
    /\ img = [i \in Images |-> IF i \in Bases
                THEN [st |-> "row", kind |-> "Base", parent |-> "none", size |-> 1] ELSE None]
    /\ file = [i \in Images |-> IF i \in Bases
                THEN [st |-> "full", over |-> "none", size |-> 1] ELSE None]
    /\ vm = [v \in Vms |-> None]
    /\ status = [v \in Vms |-> None]
    /\ specs = {}
    /\ conts = [c \in Conts |-> None]
    /\ rows = {}
    /\ act = [a \in Actors |-> None]
    /\ queue = <<>> /\ dock = <<>> /\ boot = Idle
    /\ hist = [fine |-> Vms \cup Images, synced |-> TRUE, based |-> {}]

-----------------------------------------------------------------------------
At(a, op, pc) == act[a] # None /\ act[a].op \in op /\ act[a].pc = pc

Go(a, pc) == act' = [act EXCEPT ![a].pc = pc]

End(a) == act' = [act EXCEPT ![a] = None]

(* exec_event: a task that fails leaves its error in the status.           *)
Err(a) ==
    /\ End(a)
    /\ status' = IF a \in Vms /\ status[a] # None
                 THEN [status EXCEPT ![a].actual = "fail"] ELSE status

Frame(op, v, i, src) ==
    [st |-> "run", op |-> op, pc |-> "begin", v |-> v, img |-> i, src |-> src,
     c |-> 0, todo |-> {}]

RowsOf(v) == {c \in rows : conts[c].v = v}

Children(i) == {j \in Images : img[j] # None /\ img[j].parent = i}

(* The file can be read: it is complete and so are the files under it.     *)
Whole(i) ==
    /\ file[i] # None /\ file[i].st = "full"
    /\ file[i].over # "none" => file[file[i].over] # None

(* What an operation changes, and what it depends on.                      *)
Writes(f) ==
    (IF f.op \in ImageOps \cup {"create"} THEN {f.img} ELSE {})
    \cup (IF f.op \in {"create", "patch", "Destroying"} THEN {f.v} ELSE {})
    \cup (IF f.op = "Destroying" THEN {SnapName[b][f.v] : b \in Bases} ELSE {})

Uses(f) == Writes(f) \cup (IF f.op \in {"snapshot", "clone", "create"} THEN {f.src} ELSE {})

Clash(f, g) == (Writes(f) \cap Uses(g)) \cup (Uses(f) \cap Writes(g))

Clashing(a, f) == {b \in Actors \ {a} : act[b] # None /\ Clash(f, act[b]) # {}}

(* The vms whose disk f deletes through the image API.                     *)
Undone(f) == {v \in Vms : f.op = "rmi" /\ \E b \in Bases : SnapName[b][v] = f.img}

(* An actor begins.  Operations that overlap on an image or a vm, or run   *)
(* beside the synchronisation at boot, are remembered, and so is the       *)
(* deletion of an image that is the disk of a vm.                          *)
Worn(a, f) ==
    (IF Clashing(a, f) = {} /\ boot.pc = "off" THEN {} ELSE Writes(f))
    \cup (UNION {Writes(act[b]) : b \in Clashing(a, f)})
    \cup Undone(f)

Begin(a, f) ==
    /\ act' = [act EXCEPT ![a] = f]
    /\ hist' = [hist EXCEPT !.fine = @ \ Worn(a, f)]
    /\ boot' = [boot EXCEPT !.alone = @ /\ boot.pc = "off"]

-----------------------------------------------------------------------------
(* Requests.                                                               *)
Request(k, op) ==
    /\ act[k] = None /\ left.reqs > 0 /\ op \in left.ops
    /\ \/ /\ op \in {"import", "rmi", "resize"}
          /\ \E i \in (IF op = "import" THEN Extra ELSE Images) : Begin(k, Frame(op, "none", i, "none"))
       \/ /\ op \in {"snapshot", "clone"}
          /\ \E i \in Extra, j \in Images \ Extra : Begin(k, Frame(op, "none", i, j))
       \/ /\ op \in VmOps
          /\ \E v \in Vms, b \in Bases : Begin(k, Frame(op, v, SnapName[b][v], b))
    /\ left' = [left EXCEPT !.reqs = @ - 1]
    /\ UNCHANGED <<img, file, vm, status, specs, conts, rows, queue, dock>>

(* The reads an image is made after: create refuses a vm that exists and   *)
(* an image that is not a base, clone one that is not a snapshot.          *)
CheckVm(k) ==
    /\ At(k, {"create"}, "begin")
    /\ IF vm[act[k].v] = None THEN Go(k, "source") ELSE End(k)
    /\ UNCHANGED <<store, conts, rows, queue, dock, boot, hist, left>>

ReadSource(k) ==
    LET src == act[k].src
        kinds == CASE act[k].op = "create" -> {"Base"}
                   [] act[k].op = "clone" -> {"Snapshot"}
                   [] OTHER -> {"Base", "Snapshot"}
    IN  /\ At(k, {"create"}, "source") \/ At(k, {"snapshot", "clone"}, "begin")
        /\ IF img[src] # None /\ img[src].kind \in kinds THEN Go(k, "free") ELSE End(k)
        /\ UNCHANGED <<store, conts, rows, queue, dock, boot, hist, left>>

NameFree(k) ==
    /\ At(k, {"create", "snapshot", "clone"}, "free") \/ At(k, {"import"}, "begin")
    /\ IF img[act[k].img] = None THEN Go(k, "file") ELSE End(k)
    /\ UNCHANGED <<store, conts, rows, queue, dock, boot, hist, left>>

(* qemu-img create: a file over its parent's, whatever was there before.   *)
Snapshot(k) ==
    /\ At(k, {"create", "snapshot"}, "file")
    /\ IF Whole(act[k].src)
       THEN /\ file' = [file EXCEPT ![act[k].img] = [st |-> "full", over |-> act[k].src, size |-> 1]]
            /\ Go(k, "row")
       ELSE End(k) /\ UNCHANGED file
    /\ UNCHANGED <<img, vm, status, specs, conts, rows, queue, dock, boot, hist, left>>

(* An upload, or qemu-img convert: the file is there before it is whole.   *)
Fill(k) ==
    /\ At(k, {"import", "clone"}, "file")
    /\ file' = [file EXCEPT ![act[k].img] = [st |-> "part", over |-> "none", size |-> 1]]
    /\ Go(k, "fill")
    /\ UNCHANGED <<img, vm, status, specs, conts, rows, queue, dock, boot, hist, left>>

(* An upload cut short leaves its part; a whole one qemu-img info refuses  *)
(* is removed; convert fails when its source cannot be read.               *)
Filled(k) ==
    LET i == act[k].img
        f == act[k]
        source == IF f.op = "clone" THEN Whole(f.src) ELSE TRUE
    IN  /\ At(k, {"import", "clone"}, "fill")
        /\ \/ /\ file[i] # None /\ source
              /\ file' = [file EXCEPT ![i] = [st |-> "full", over |-> "none", size |-> 1]]
              /\ Go(k, "row")
              /\ UNCHANGED <<hist, left>>
           \/ /\ ~(file[i] # None /\ source)
              /\ End(k)
              /\ hist' = [hist EXCEPT !.fine = @ \ {i}]
              /\ UNCHANGED <<file, left>>
           \/ /\ f.op = "import" /\ left.cuts > 0
              /\ \/ file' = [file EXCEPT ![i] = None] /\ UNCHANGED hist
                 \/ hist' = [hist EXCEPT !.fine = @ \ {i}] /\ UNCHANGED file
              /\ End(k)
              /\ left' = [left EXCEPT !.cuts = @ - 1]
        /\ UNCHANGED <<img, vm, status, specs, conts, rows, queue, dock, boot>>

(* The row is inserted last: it fails when the name is taken by now, or    *)
(* the parent gone.                                                        *)
ImageRow(k) ==
    LET f == act[k]
        snap == f.op \in {"create", "snapshot"}
        free == img[f.img] = None /\ (snap => img[f.src] # None)
    IN  /\ At(k, {"create", "snapshot", "clone", "import"}, "row")
        /\ IF free
           THEN /\ img' = [img EXCEPT ![f.img] =
                      [st |-> "row", size |-> 1, parent |-> IF snap THEN f.src ELSE "none",
                       kind |-> IF snap THEN "Snapshot" ELSE "Base"]]
                /\ IF f.op = "create" THEN Go(k, "status") ELSE End(k)
                /\ hist' = [hist EXCEPT !.based = @ \cup IF f.op = "snapshot" THEN {f.src} ELSE {}]
           ELSE End(k) /\ UNCHANGED <<img, hist>>
        /\ UNCHANGED <<file, vm, status, specs, conts, rows, queue, dock, boot, left>>

(* resize: the file first, then the sizes in the row.                      *)
Resize(k) ==
    LET i == act[k].img IN
    /\ At(k, {"resize"}, "begin")
    /\ IF img[i] # None /\ Whole(i)
       THEN file' = [file EXCEPT ![i].size = 2] /\ Go(k, "size")
       ELSE End(k) /\ UNCHANGED file
    /\ UNCHANGED <<img, vm, status, specs, conts, rows, queue, dock, boot, hist, left>>

ResizeRow(k) ==
    LET i == act[k].img IN
    /\ At(k, {"resize"}, "size")
    /\ img' = IF img[i] # None THEN [img EXCEPT ![i].size = 2] ELSE img
    /\ End(k)
    /\ UNCHANGED <<file, vm, status, specs, conts, rows, queue, dock, boot, hist, left>>

-----------------------------------------------------------------------------
(* Mutant: the children are not looked for.                                *)
ReadNoChildren(a) ==
    LET i == act[a].img IN
    /\ At(a, {"rmi"}, "begin") \/ At(a, {"Destroying"}, "image")
    /\ IF img[i] # None THEN Go(a, "unlink") /\ UNCHANGED status ELSE Err(a)
    /\ UNCHANGED <<img, file, vm, specs, conts, rows, queue, dock, boot, hist, left>>

(* delete_by_pk of an image, for a request and for the task that deletes a *)
(* vm: children are looked for, the file is removed, then the row.         *)
ReadChildren(a) ==
    LET i == act[a].img IN
    /\ At(a, {"rmi"}, "begin") \/ At(a, {"Destroying"}, "image")
    /\ IF img[i] # None /\ Children(i) = {} THEN Go(a, "unlink") /\ UNCHANGED status ELSE Err(a)
    /\ UNCHANGED <<img, file, vm, specs, conts, rows, queue, dock, boot, hist, left>>

Unlink(a) ==
    /\ At(a, {"rmi", "Destroying"}, "unlink")
    /\ file' = [file EXCEPT ![act[a].img] = None]
    /\ Go(a, "unrow")
    /\ UNCHANGED <<img, vm, status, specs, conts, rows, queue, dock, boot, hist, left>>

UnRow(a) ==
    LET i == act[a].img IN
    /\ At(a, {"rmi", "Destroying"}, "unrow")
    /\ IF Children(i) # {}
       THEN Err(a) /\ UNCHANGED img
       ELSE /\ img' = [img EXCEPT ![i] = None]
            /\ IF act[a].op = "rmi" THEN End(a) ELSE Go(a, "vm")
            /\ UNCHANGED status
    /\ UNCHANGED <<file, vm, specs, conts, rows, queue, dock, boot, hist, left>>

-----------------------------------------------------------------------------
(* create goes on: the status, the spec, the vm.                           *)
NewStatus(k) ==
    LET v == act[k].v IN
    /\ At(k, {"create"}, "status")
    /\ IF status[v] = None
       THEN status' = [status EXCEPT ![v] = [st |-> "row", wanted |-> "create", actual |-> "create"]]
            /\ Go(k, "spec")
       ELSE End(k) /\ UNCHANGED status
    /\ UNCHANGED <<img, file, vm, specs, conts, rows, queue, dock, boot, hist, left>>

NewSpec(k) ==
    /\ At(k, {"create", "patch"}, "spec")
    /\ specs' = specs \cup {act[k].v}
    /\ Go(k, "vm")
    /\ UNCHANGED <<img, file, vm, status, conts, rows, queue, dock, boot, hist, left>>

NewVm(k) ==
    LET v == act[k].v IN
    /\ At(k, {"create"}, "vm")
    /\ vm' = IF vm[v] = None /\ status[v] # None /\ v \in specs
             THEN [vm EXCEPT ![v] = [st |-> "row", img |-> act[k].img]] ELSE vm
    /\ End(k)
    /\ UNCHANGED <<img, file, status, specs, conts, rows, queue, dock, boot, hist, left>>

(* The other requests: the status says what is wanted (a stopped vm is not *)
(* stopped again), and the event is emitted if the vm is there.            *)
Wanted(op) == CASE op = "start" -> [wanted |-> "start", actual |-> "starting"]
                [] op = "stop" -> [wanted |-> "stop", actual |-> "stopping"]
                [] op = "delete" -> [wanted |-> "destroy", actual |-> "destroying"]
                [] op = "patch" -> [wanted |-> "start", actual |-> "updating"]

Event(op) == CASE op = "start" -> "Starting" [] op = "stop" -> "Stopping"
               [] op = "delete" -> "Destroying" [] op = "patch" -> "Updating"

ReadVm(k) ==
    /\ At(k, {"delete", "patch"}, "begin")
    /\ IF vm[act[k].v] # None THEN Go(k, "status") ELSE End(k)
    /\ UNCHANGED <<store, conts, rows, queue, dock, boot, hist, left>>

SetStatus(k) ==
    LET v == act[k].v
        op == act[k].op
    IN  /\ At(k, {"delete", "patch"}, "status") \/ At(k, {"start", "stop"}, "begin")
        /\ IF status[v] = None \/ (op = "stop" /\ status[v].actual = "stop")
           THEN End(k) /\ UNCHANGED status
           ELSE /\ status' = [status EXCEPT ![v].wanted = Wanted(op).wanted,
                                            ![v].actual = Wanted(op).actual]
                /\ Go(k, IF op = "patch" THEN "spec" ELSE "emit")
        /\ UNCHANGED <<img, file, vm, specs, conts, rows, queue, dock, boot, hist, left>>

PatchVm(k) ==
    /\ At(k, {"patch"}, "vm")
    /\ IF vm[act[k].v] # None THEN Go(k, "emit") ELSE End(k)
    /\ UNCHANGED <<store, conts, rows, queue, dock, boot, hist, left>>

(* start and stop read the vm again for its event, delete and patch have it.*)
Emit(k) ==
    LET v == act[k].v
        op == act[k].op
    IN  /\ At(k, {"start", "stop", "delete", "patch"}, "emit")
        /\ queue' = IF vm[v] # None \/ op \in {"delete", "patch"}
                    THEN Append(queue, [ev |-> Event(op), v |-> v]) ELSE queue
        /\ End(k)
        /\ UNCHANGED <<store, conts, rows, dock, boot, hist, left>>

(* POST /processes/{pk}/start starts one container.                        *)
StartOne(k) ==
    /\ At(k, {"startone"}, "begin")
    /\ \/ \E c \in RowsOf(act[k].v) :
            /\ conts[c].st = "down"
            /\ conts' = [conts EXCEPT ![c].st = "up"]
            /\ dock' = Append(dock, [ev |-> "start", c |-> c])
       \/ (\A c \in RowsOf(act[k].v) : conts[c].st # "down") /\ UNCHANGED <<conts, dock>>
    /\ End(k)
    /\ UNCHANGED <<store, rows, queue, boot, hist, left>>

-----------------------------------------------------------------------------
(* The event loop waits for the vm's task, then starts the next one.       *)
Dispatch(v) ==
    /\ queue # <<>> /\ Head(queue).v = v /\ act[v] = None
    /\ Begin(v, Frame(Head(queue).ev, v, IF vm[v] # None THEN vm[v].img ELSE "none", "none"))
    /\ queue' = Tail(queue)
    /\ UNCHANGED <<store, conts, rows, dock, left>>

(* start and update read the vm and its image; start makes a container     *)
(* when there is no row for one, update removes the one of its name.       *)
TaskRead(v) ==
    LET op == act[v].op
        known == vm[v] # None /\ (op # "Destroying" => img[vm[v].img] # None)
    IN  /\ At(v, {"Starting", "Updating", "Destroying"}, "begin")
        /\ IF known
           THEN /\ act' = [act EXCEPT ![v].pc = IF op = "Updating" THEN "remove" ELSE "rows",
                                      ![v].img = vm[v].img]
                /\ UNCHANGED status
           ELSE Err(v)
        /\ UNCHANGED <<img, file, vm, specs, conts, rows, queue, dock, boot, hist, left>>

TaskRows(v) ==
    /\ At(v, {"Starting", "Destroying"}, "rows")
    /\ IF act[v].op = "Starting"
       THEN Go(v, IF RowsOf(v) = {} THEN "make" ELSE "run")
       ELSE act' = [act EXCEPT ![v].pc = "kill", ![v].todo = RowsOf(v)]
    /\ UNCHANGED <<store, conts, rows, queue, dock, boot, hist, left>>

Named(v) == {c \in Conts : conts[c].st \in {"down", "up"} /\ conts[c].v = v}

Destroyed(c) ==
    (IF conts[c].st = "up" THEN <<[ev |-> "die", c |-> c]>> ELSE <<>>)
    \o <<[ev |-> "destroy", c |-> c]>>

(* delete_instances takes the name for a key: the container is removed,    *)
(* its row stays until Docker's event is handled.                          *)
RemoveNamed(v) ==
    /\ At(v, {"Updating"}, "remove")
    /\ conts' = [c \in Conts |-> IF c \in Named(v) THEN [conts[c] EXCEPT !.st = "gone"] ELSE conts[c]]
    /\ dock' = IF Named(v) = {} THEN dock ELSE dock \o Destroyed(CHOOSE c \in Named(v) : TRUE)
    /\ Go(v, "make")
    /\ UNCHANGED <<store, rows, queue, boot, hist, left>>

(* Mutant: the container is made whatever its name is.                     *)
MakeAgain(v) ==
    LET c == left.made + 1 IN
    /\ At(v, {"Starting", "Updating"}, "make")
    /\ left.made < MaxConts
    /\ conts' = [conts EXCEPT ![c] = [st |-> "down", v |-> v]]
    /\ left' = [left EXCEPT !.made = c]
    /\ act' = [act EXCEPT ![v].pc = "process", ![v].c = c]
    /\ UNCHANGED <<store, rows, queue, dock, boot, hist>>

(* Docker refuses a name in use.                                           *)
Make(v) ==
    LET c == left.made + 1 IN
    /\ At(v, {"Starting", "Updating"}, "make")
    /\ left.made < MaxConts
    /\ IF Named(v) = {}
       THEN /\ conts' = [conts EXCEPT ![c] = [st |-> "down", v |-> v]]
            /\ left' = [left EXCEPT !.made = c]
            /\ act' = [act EXCEPT ![v].pc = "process", ![v].c = c]
            /\ UNCHANGED status
       ELSE Err(v) /\ UNCHANGED <<conts, left>>
    /\ UNCHANGED <<img, file, vm, specs, rows, queue, dock, boot, hist>>

NewProcess(v) ==
    /\ At(v, {"Starting", "Updating"}, "process")
    /\ rows' = rows \cup {act[v].c}
    /\ Go(v, "run")
    /\ UNCHANGED <<store, conts, queue, dock, boot, hist, left>>

(* The labels create_instance and create give a container of a vm.         *)
VmLabels == {"io.nanocl.v", "io.nanocl.n", "io.nanocl", "io.nanocl.kind"}

(* start_instances starts the containers whose label says they are not     *)
(* init containers.                                                        *)
StartInstances(v) ==
    LET chosen == {c \in RowsOf(v) : "io.nanocl.not-init-c" \in VmLabels} IN
    /\ At(v, {"Starting", "Updating"}, "run")
    /\ IF \A c \in chosen : conts[c].st # "gone"
       THEN /\ conts' = [c \in Conts |-> IF c \in chosen THEN [conts[c] EXCEPT !.st = "up"] ELSE conts[c]]
            /\ Go(v, "mark")
            /\ UNCHANGED status
       ELSE Err(v) /\ UNCHANGED conts
    /\ UNCHANGED <<img, file, vm, specs, rows, queue, dock, boot, hist, left>>

(* stop_instances stops them all, one call after the other.                *)
StopInstances(v) ==
    LET ups == {c \in RowsOf(v) : conts[c].st = "up"} IN
    /\ At(v, {"Stopping"}, "begin")
    /\ \/ /\ ups # {}
          /\ \E c \in ups :
               /\ conts' = [conts EXCEPT ![c].st = "down"]
               /\ dock' = Append(dock, [ev |-> "die", c |-> c])
          /\ UNCHANGED <<act, status>>
       \/ /\ ups = {}
          /\ IF \A c \in RowsOf(v) : conts[c].st # "gone"
             THEN Go(v, "mark") /\ UNCHANGED status ELSE Err(v)
          /\ UNCHANGED <<conts, dock>>
    /\ UNCHANGED <<img, file, vm, specs, rows, queue, boot, hist, left>>

(* The status says what was done; the event needs the vm, which may fail   *)
(* the task after all.                                                     *)
Mark(v) ==
    /\ At(v, {"Starting", "Updating", "Stopping"}, "mark")
    /\ IF status[v] # None
       THEN /\ status' = [status EXCEPT ![v].actual =
                  IF vm[v] = None THEN "fail" ELSE IF act[v].op = "Stopping" THEN "stop" ELSE "start"]
            /\ End(v)
       ELSE Err(v)
    /\ UNCHANGED <<img, file, vm, specs, conts, rows, queue, dock, boot, hist, left>>

-----------------------------------------------------------------------------
(* The task that deletes a vm: its containers with their rows, the image   *)
(* of its disk (above), its row, its specs, its status.                    *)
Kill(v) ==
    /\ At(v, {"Destroying"}, "kill")
    /\ IF act[v].todo = {}
       THEN Go(v, "image") /\ UNCHANGED <<conts, dock>>
       ELSE \E c \in act[v].todo :
              /\ act' = [act EXCEPT ![v].pc = "killed", ![v].c = c, ![v].todo = @ \ {c}]
              /\ conts' = [conts EXCEPT ![c].st = "gone"]
              /\ dock' = IF conts[c].st = "gone" THEN dock ELSE dock \o Destroyed(c)
    /\ UNCHANGED <<store, rows, queue, boot, hist, left>>

Killed(v) ==
    /\ At(v, {"Destroying"}, "killed")
    /\ rows' = rows \ {act[v].c}
    /\ Go(v, "kill")
    /\ UNCHANGED <<store, conts, queue, dock, boot, hist, left>>

ClearVm(v) ==
    /\ At(v, {"Destroying"}, "vm")
    /\ vm' = [vm EXCEPT ![v] = None]
    /\ Go(v, "specs")
    /\ UNCHANGED <<img, file, status, specs, conts, rows, queue, dock, boot, hist, left>>

ClearSpecs(v) ==
    /\ At(v, {"Destroying"}, "specs")
    /\ specs' = specs \ {v}
    /\ Go(v, "status")
    /\ UNCHANGED <<img, file, vm, status, conts, rows, queue, dock, boot, hist, left>>

(* Mutant: the status of a vm that is gone is kept.                        *)
ClearStatusNot(v) ==
    /\ At(v, {"Destroying"}, "status")
    /\ End(v)
    /\ UNCHANGED <<store, conts, rows, queue, dock, boot, hist, left>>

ClearStatus(v) ==
    /\ At(v, {"Destroying"}, "status")
    /\ status' = [status EXCEPT ![v] = None]
    /\ End(v)
    /\ UNCHANGED <<img, file, vm, specs, conts, rows, queue, dock, boot, hist, left>>

-----------------------------------------------------------------------------
(* Faults.  A statement fails: a request ends, a task leaves its error, and *)
(* what was done so far stays.                                             *)
Half(f) == f.pc \in {"row", "status", "spec", "vm", "fill", "size", "unrow", "specs"}

Fail(a) ==
    /\ act[a] # None /\ left.db > 0
    /\ act[a].pc \notin {"unlink", "emit", "file", "killed"}
    /\ Err(a)
    /\ hist' = [hist EXCEPT !.fine = IF Half(act[a]) THEN @ \ Writes(act[a]) ELSE @,
                            !.synced = @ /\ act[a].pc # "process"]
    /\ left' = [left EXCEPT !.db = @ - 1, !.lost = TRUE]
    /\ UNCHANGED <<img, file, vm, specs, conts, rows, queue, dock, boot>>

(* A guest that stops by itself.                                           *)
Exit(c) ==
    /\ conts[c].st = "up" /\ left.exits > 0
    /\ conts' = [conts EXCEPT ![c].st = "down"]
    /\ dock' = Append(dock, [ev |-> "die", c |-> c])
    /\ left' = [left EXCEPT !.exits = @ - 1]
    /\ UNCHANGED <<store, rows, act, queue, boot, hist>>

(* nanocld stops: requests, tasks, queued events and Docker's are lost.    *)
Crash ==
    /\ left.crash > 0
    /\ left' = [left EXCEPT !.crash = @ - 1, !.lost = TRUE]
    /\ hist' = [hist EXCEPT
          !.fine = @ \ UNION {Writes(act[a]) : a \in {b \in Actors : act[b] # None}},
          !.synced = FALSE]
    /\ act' = [a \in Actors |-> None]
    /\ queue' = <<>> /\ dock' = <<>>
    /\ boot' = [pc |-> "list", ids |-> {}, files |-> {}, alone |-> TRUE]
    /\ UNCHANGED <<store, conts, rows>>

-----------------------------------------------------------------------------
(* Mutant: the row of a container that is gone stays.                      *)
AnalyseKeepsRow ==
    LET e == Head(dock) IN
    /\ dock # <<>>
    /\ dock' = Tail(dock)
    /\ UNCHANGED <<store, conts, rows, act, queue, boot, hist, left>>

(* Docker's events, in order.  A vm that dies and was not asked to stop has *)
(* failed.                                                                 *)
Analyse ==
    LET e == Head(dock)
        v == conts[e.c].v
        seen(s) == IF status[v] # None THEN [status EXCEPT ![v].actual = s] ELSE status
    IN  /\ dock # <<>>
        /\ dock' = Tail(dock)
        /\ rows' = IF e.ev = "destroy" THEN rows \ {e.c} ELSE rows
        /\ status' = CASE e.ev = "start" -> seen("start")
                       [] e.ev = "die" /\ status[v] # None /\ status[v].wanted # "stop" -> seen("fail")
                       [] OTHER -> status
        /\ UNCHANGED <<img, file, vm, specs, conts, act, queue, boot, hist, left>>

(* At boot, beside the requests: Docker's containers get rows, rows of     *)
(* containers that were not in the list are deleted, image files get rows. *)
BootList ==
    /\ boot.pc = "list"
    /\ boot' = [boot EXCEPT !.pc = "rows", !.ids = {c \in Conts : conts[c].st \in {"down", "up"}}]
    /\ UNCHANGED <<store, conts, rows, act, queue, dock, hist, left>>

BootRow ==
    /\ boot.pc = "rows"
    /\ \/ \E c \in boot.ids \ rows :
            /\ IF conts[c].st = "gone"
               THEN rows' = rows /\ boot' = [boot EXCEPT !.pc = "off"]
               ELSE rows' = rows \cup {c} /\ UNCHANGED boot
            /\ UNCHANGED hist
       \/ /\ boot.ids \subseteq rows
          /\ rows' = boot.ids
          /\ boot' = [boot EXCEPT !.pc = "files", !.files = {i \in Images : file[i] # None}]
          /\ hist' = [hist EXCEPT !.synced = boot.alone]
    /\ UNCHANGED <<store, conts, act, queue, dock, left>>

(* A file with no row becomes a base image, whatever it was made for.      *)
BootImage ==
    /\ boot.pc = "files"
    /\ IF boot.files = {}
       THEN boot' = Idle /\ UNCHANGED img
       ELSE \E i \in boot.files :
              /\ boot' = [boot EXCEPT !.files = @ \ {i}]
              /\ img' = IF img[i] = None /\ file[i] # None
                        THEN [img EXCEPT ![i] = [st |-> "row", kind |-> "Base", parent |-> "none",
                                                 size |-> file[i].size]]
                        ELSE img
    /\ UNCHANGED <<file, vm, status, specs, conts, rows, act, queue, dock, hist, left>>

-----------------------------------------------------------------------------
ImageStep(a) ==
    \/ ReadSource(a) \/ NameFree(a) \/ Snapshot(a) \/ Fill(a) \/ Filled(a) \/ ImageRow(a)
    \/ Resize(a) \/ ResizeRow(a) \/ ReadChildren(a) \/ Unlink(a) \/ UnRow(a)

VmStep(k) ==
    \/ CheckVm(k) \/ NewStatus(k) \/ NewSpec(k) \/ NewVm(k)
    \/ ReadVm(k) \/ SetStatus(k) \/ PatchVm(k) \/ Emit(k) \/ StartOne(k)

TaskStep(v) ==
    \/ Dispatch(v) \/ TaskRead(v) \/ TaskRows(v) \/ RemoveNamed(v) \/ Make(v) \/ NewProcess(v)
    \/ StartInstances(v) \/ StopInstances(v) \/ Mark(v) \/ Kill(v) \/ Killed(v)
    \/ ClearVm(v) \/ ClearSpecs(v) \/ ClearStatus(v)

Next ==
    \/ \E k \in Conns : \E op \in ImageOps \cup VmOps : Request(k, op)
    \/ \E k \in Conns : VmStep(k)
    \/ \E a \in Actors : ImageStep(a) \/ Fail(a)
    \/ \E v \in Vms : TaskStep(v)
    \/ \E c \in Conts : Exit(c)
    \/ Analyse \/ Crash \/ BootList \/ BootRow \/ BootImage

Spec == Init /\ [][Next]_vars

-----------------------------------------------------------------------------
Rest == (\A a \in Actors : act[a] = None) /\ queue = <<>> /\ dock = <<>> /\ boot.pc = "off"

(* The types of the variables; a container has the owner it was made for.  *)
TypeOK ==
    /\ \A i \in Images : img[i] # None =>
          img[i].kind \in {"Base", "Snapshot"} /\ img[i].parent \in Images \cup {"none"}
    /\ \A i \in Images : file[i] # None => file[i].st \in {"part", "full"}
    /\ \A v \in Vms : vm[v] # None => status[v] # None /\ v \in specs /\ vm[v].img \in Images
    /\ rows \subseteq 1..left.made
    /\ \A v \in Vms : Cardinality(Named(v)) <= 1
    /\ \A v \in Vms : act[v] # None => act[v].op \in {"Starting", "Stopping", "Updating", "Destroying"}

(* An image one can use: at rest an image that has a row has a complete    *)
(* file, the files under it are there, and the row knows the file's size.  *)
(* It holds of the images, and parents, no operation overlapped on and no  *)
(* failure was about: nothing locks an image between the check and the use.*)
ImageHasFile ==
    Rest => \A i \in Images :
        i \in hist.fine /\ img[i] # None /\ (img[i].parent # "none" => img[i].parent \in hist.fine)
            => Whole(i) /\ file[i].size = img[i].size

(* The process rows of vms are Docker's containers, once the events are    *)
(* handled; a boot nothing disturbed repairs what was lost.  A container   *)
(* without a row would keep its name, and the vm never start again.        *)
VmRows == Rest /\ hist.synced => rows = UNION {Named(v) : v \in Vms}

(* A vm that is gone leaves nothing behind, so its name can be used again, *)
(* and one that was to be deleted is gone, unless a failure was about it   *)
(* or a client made a snapshot of its disk, which delete_by_pk respects.   *)
NoLeftovers ==
    Rest => \A v \in Vms \cap hist.fine :
        /\ vm[v] = None => /\ status[v] = None /\ v \notin specs
                           /\ \A b \in Bases : img[SnapName[b][v]] = None
        /\ vm[v] # None => img[vm[v].img] # None
        /\ vm[v] # None /\ ~left.lost /\ vm[v].img \notin hist.based => status[v].wanted # "destroy"

=============================================================================
