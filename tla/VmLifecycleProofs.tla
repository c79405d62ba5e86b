------------------------- MODULE VmLifecycleProofs -------------------------
(***************************************************************************)
(* Safety of the life of virtual machines and their images, for every set  *)
(* of vms, connections, base images and names, every number of containers  *)
(* and every scenario.                                                     *)
(*                                                                         *)
(* The invariant is built in four layers, each a conjunct of the next.     *)
(*   Core    what an actor is about and the shape of the tables; how the   *)
(*           rows of processes follow Docker (ContInv: a row is missing    *)
(*           only while a task is about to insert it, and left over only   *)
(*           while a task or an event is about to delete it); how far the  *)
(*           rows of a vm are while it is created and deleted (RowInv).    *)
(*   Stored  for an image no failure and no overlap was about, how far the *)
(*           operation on it is (Stage), or that row and file agree        *)
(*           (Settled).  It needs that operations that overlap have given  *)
(*           up what they write (Apart) and that parents exist (Linked).   *)
(*   VmInvariant  for a vm no failure and no overlap was about, how far    *)
(*           its creation or deletion is, or that its rows are all there   *)
(*           or all gone (Clean).                                          *)
(*   Doomed  a status that wants a vm deleted has a request, an event or a *)
(*           task that will do it.                                         *)
(***************************************************************************)
EXTENDS VmLifecycle, FiniteSetTheorems, SequenceTheorems, TLAPS

Tasks == {"Starting", "Stopping", "Updating", "Destroying"}
Snaps(v) == {SnapName[b][v] : b \in Bases}

IsFrame(f) ==
    /\ DOMAIN f = {"st", "op", "pc", "v", "img", "src", "c", "todo"} /\ f.st = "run"

(* A request about an image has an image, one about a vm the vm, its disk  *)
(* and the base of that.                                                   *)
IsRequest(f) ==
    \/ f.op \in {"import", "rmi", "resize"} /\ f.img \in Images /\ (f.op = "import" => f.img \in Extra)
    \/ f.op \in {"snapshot", "clone"} /\ f.img \in Extra /\ f.src \in Images \ Extra
    \/ f.op \in VmOps /\ f.v \in Vms /\ f.src \in Bases /\ f.img = SnapName[f.src][f.v]

Acts ==
    /\ DOMAIN act = Actors
    /\ \A a \in Actors : act[a] = None \/ IsFrame(act[a])
    /\ \A k \in Conns : act[k] # None => IsRequest(act[k])
    /\ \A v \in Vms : act[v] # None =>
          act[v].op \in Tasks /\ act[v].v = v /\ act[v].img \in Snaps(v) \cup {"none"}

QueueOk == queue \in Seq([ev : Tasks, v : Vms])

ImagesOk ==
    /\ DOMAIN img = Images
    /\ \A i \in Images : img[i] # None =>
          /\ DOMAIN img[i] = {"st", "kind", "parent", "size"} /\ img[i].st = "row"
          /\ img[i].kind \in {"Base", "Snapshot"} /\ img[i].parent \in Images \cup {"none"}

FilesOk ==
    /\ DOMAIN file = Images
    /\ \A i \in Images : file[i] # None =>
          DOMAIN file[i] = {"st", "over", "size"} /\ file[i].st \in {"part", "full"}

VmsOk ==
    /\ DOMAIN vm = Vms
    /\ \A v \in Vms : vm[v] # None =>
          DOMAIN vm[v] = {"st", "img"} /\ vm[v].st = "row" /\ vm[v].img \in Snaps(v)

StatusOk ==
    /\ DOMAIN status = Vms
    /\ \A v \in Vms : status[v] # None =>
          DOMAIN status[v] = {"st", "wanted", "actual"} /\ status[v].st = "row"

RestOk ==
    /\ DOMAIN hist = {"fine", "synced", "based"} /\ hist.fine \subseteq Vms \cup Images
    /\ hist.synced \in BOOLEAN
    /\ DOMAIN left = {"reqs", "db", "crash", "exits", "cuts", "made", "lost", "ops"}
    /\ left.lost \in BOOLEAN
    /\ DOMAIN boot = {"pc", "ids", "files", "alone"} /\ boot.alone \in BOOLEAN
    /\ boot.files \subseteq Images
    /\ boot.pc \in {"off", "list", "rows", "files"}

Tables == ImagesOk /\ FilesOk /\ VmsOk /\ StatusOk /\ RestOk /\ QueueOk
-----------------------------------------------------------------------------
(* Docker's containers, their rows and their events.                       *)
Live(c) == conts[c].st \in {"down", "up"}
Doing(v, pc, c) == act[v] # None /\ act[v].pc = pc /\ act[v].c = c

ContsOk ==
    /\ left.made \in 0..MaxConts
    /\ DOMAIN conts = Conts /\ conts = [c \in Conts |-> conts[c]]
    /\ \A c \in Conts : IF c <= left.made
                        THEN /\ DOMAIN conts[c] = {"st", "v"} /\ conts[c].v \in Vms
                             /\ conts[c].st \in {"down", "up", "gone"}
                        ELSE conts[c] = None

Events == [ev : {"start", "die", "destroy"}, c : 1..left.made]

TellsGone == \A n \in DOMAIN dock : dock[n].ev = "destroy" => ~Live(dock[n].c)

Docker ==
    /\ ContsOk
    /\ rows \subseteq 1..left.made
    /\ dock \in Seq(Events)
    /\ TellsGone

Unique == \A c, d \in Conts : Live(c) /\ Live(d) /\ conts[c].v = conts[d].v => c = d

HeldBy(v) ==
    act[v] # None =>
        /\ act[v].pc = "process" => /\ act[v].c \in 1..left.made /\ Live(act[v].c)
                                    /\ conts[act[v].c].v = v
        /\ act[v].pc = "killed" => act[v].c \in 1..left.made /\ ~Live(act[v].c)
        /\ act[v].pc \in {"kill", "killed"} =>
              \A c \in act[v].todo : c \in 1..left.made /\ conts[c].v = v

Held == \A v \in Vms : HeldBy(v)

Booting ==
    /\ boot.pc = "rows" => boot.ids \subseteq 1..left.made
    /\ boot.pc \in {"list", "rows"} =>
        /\ ~hist.synced
        /\ boot.alone => /\ \A a \in Actors : act[a] = None
                         /\ boot.pc = "rows" => boot.ids = {c \in Conts : Live(c)}

Told(c) == \E n \in DOMAIN dock : dock[n].ev = "destroy" /\ dock[n].c = c

Synced ==
    hist.synced => \A c \in 1..left.made :
        IF Live(c) THEN c \in rows \/ \E v \in Vms : Doing(v, "process", c)
        ELSE c \in rows => Told(c) \/ \E v \in Vms : Doing(v, "killed", c)

ContInv == Docker /\ Unique /\ Held /\ Booting /\ Synced
-----------------------------------------------------------------------------
(* The rows of a vm while it is created and while it is deleted.           *)
Claims(k, v) ==
    act[k] # None /\ act[k].op = "create" /\ act[k].v = v /\ act[k].pc \in {"spec", "vm"}

Deleting(v, pcs) == act[v] # None /\ act[v].op = "Destroying" /\ act[v].pc \in pcs

Whole1 == {"rows", "kill", "killed", "image", "unlink", "unrow", "vm"}

RowInv ==
    /\ \A v \in Vms : vm[v] # None => status[v] # None /\ v \in specs
    /\ \A k \in Conns, v \in Vms : Claims(k, v) =>
          /\ vm[v] = None /\ status[v] # None /\ ~Deleting(v, {"specs", "status"})
          /\ \A l \in Conns : Claims(l, v) => l = k
    /\ \A v \in Vms : Deleting(v, Whole1) => vm[v] # None /\ act[v].img = vm[v].img
    /\ \A v \in Vms : Deleting(v, {"specs", "status"}) => vm[v] = None /\ status[v] # None
-----------------------------------------------------------------------------
(* Images no failure and no overlap was about.                             *)
Active(a) == act[a] # None

Apart ==
    /\ \A a, b \in Actors : a # b /\ Active(a) /\ Active(b) /\ Clash(act[a], act[b]) # {} =>
          Writes(act[a]) \cap hist.fine = {}
    /\ boot.pc # "off" => \A a \in Actors : Active(a) => Writes(act[a]) \cap hist.fine = {}
    /\ \A k \in Conns, b \in Bases, v \in Vms :
          Active(k) /\ act[k].op = "rmi" /\ act[k].img = SnapName[b][v] => v \notin hist.fine

Linked ==
    \A i \in Images : img[i] # None /\ img[i].parent # "none" =>
        /\ img[img[i].parent] # None
        /\ img[i].parent \in Bases \cup hist.based

Settled(i) ==
    \/ img[i] = None /\ file[i] = None
    \/ /\ img[i] # None /\ file[i] # None /\ file[i].st = "full"
       /\ file[i].over = img[i].parent /\ file[i].size = img[i].size

Works(a, i) == Active(a) /\ act[a].op \in ImageOps \cup {"create", "Destroying"} /\ act[a].img = i

Midway == {"fill", "row", "size", "unrow"}

Over(f) == IF f.op \in {"create", "snapshot"} THEN f.src ELSE "none"

Stage(a, i) ==
    /\ act[a].pc \in {"file", "fill", "row"} => img[i] = None
    /\ act[a].pc = "row" => file[i] = [st |-> "full", over |-> Over(act[a]), size |-> 1]
    /\ act[a].pc = "size" => /\ img[i] # None
                             /\ file[i] = [st |-> "full", over |-> img[i].parent, size |-> 2]
    /\ act[a].pc \in {"unlink", "unrow"} => Children(i) = {}
    /\ act[a].pc = "unrow" => file[i] = None
    /\ act[a].op \in {"create", "snapshot"} /\ act[a].pc \in {"free", "file", "row"} =>
          img[act[a].src] # None
    /\ act[a].pc \notin Midway => Settled(i)

ImageInv ==
    \A i \in Images \cap hist.fine :
        /\ \A a \in Actors : Works(a, i) => Stage(a, i)
        /\ (\A a \in Actors : ~Works(a, i)) => Settled(i)
-----------------------------------------------------------------------------
Writer(a, v) == Active(a) /\ act[a].op \in {"create", "patch", "Destroying"} /\ act[a].v = v

(* The disk of a vm: no image of its name, or one.                         *)
NoDisk(v) == \A i \in Snaps(v) : img[i] = None /\ file[i] = None
OneDisk(v, i) == img[i] # None /\ file[i] # None /\ \A j \in Snaps(v) : j # i => img[j] = None /\ file[j] = None

Clean(v) ==
    IF vm[v] = None THEN status[v] = None /\ v \notin specs /\ NoDisk(v)
    ELSE OneDisk(v, vm[v].img)

(* How far the one that creates the vm is, and the one that deletes it.     *)
MakeStage(f, v) ==
    /\ f.pc # "begin" => vm[v] = None
    /\ f.pc \in {"free", "file", "row"} => img[f.src] # None
    /\ f.pc \in {"row", "status"} => status[v] = None /\ v \notin specs
    /\ f.pc = "row" => /\ file[f.img] # None
                       /\ \A j \in Snaps(v) : img[j] = None /\ (j # f.img => file[j] = None)
    /\ f.pc \in {"status", "spec", "vm"} => OneDisk(v, f.img)
    /\ f.pc \in {"spec", "vm"} => status[v] # None
    /\ f.pc = "vm" => v \in specs

RemoveStage(f, v) ==
    /\ f.pc \in {"unlink", "unrow"} => Children(f.img) = {}
    /\ f.pc = "unrow" => /\ vm[v] # None
                         /\ \A j \in Snaps(v) : file[j] = None /\ (j # f.img => img[j] = None)
    /\ f.pc \in {"vm", "specs", "status"} => NoDisk(v)
    /\ f.pc \in {"specs", "status"} => vm[v] = None
    /\ f.pc = "status" => v \notin specs

Open(f) ==
    \/ f.op = "create" /\ f.pc \in {"row", "status", "spec", "vm"}
    \/ f.op = "Destroying" /\ f.pc \in {"unrow", "vm", "specs", "status"}

VmStage(a, v) ==
    /\ act[a].op = "create" => MakeStage(act[a], v)
    /\ act[a].op = "Destroying" => RemoveStage(act[a], v)
    /\ act[a].op = "patch" /\ act[a].pc # "begin" => vm[v] # None
    /\ ~Open(act[a]) => Clean(v)

VmInvariant ==
    \A v \in Vms \cap hist.fine :
        /\ \A a \in Actors : Writer(a, v) => VmStage(a, v)
        /\ (\A a \in Actors : ~Writer(a, v)) => Clean(v)

(* Something will delete the vm; its status wants it deleted.              *)
Due(v) ==
    \/ \E k \in Conns : Active(k) /\ act[k].op = "delete" /\ act[k].v = v /\ act[k].pc = "emit"
    \/ \E n \in DOMAIN queue : queue[n] = [ev |-> "Destroying", v |-> v]
    \/ Active(v) /\ act[v].op = "Destroying"

Wished(v) ==
    /\ v \in hist.fine /\ ~left.lost
    /\ status[v] # None /\ status[v].wanted = "destroy"
    /\ vm[v] # None => vm[v].img \notin hist.based

Doomed == \A v \in Vms : Wished(v) => Due(v)
-----------------------------------------------------------------------------
(* One actor moves, and the others are as they were.                       *)
Others(a) == DOMAIN act' = Actors /\ \A b \in Actors : b # a => act'[b] = act[b]

Goes(a, pc) ==
    /\ Others(a) /\ IsFrame(act'[a]) /\ act'[a] # None /\ act'[a].pc = pc
    /\ act'[a].op = act[a].op /\ act'[a].v = act[a].v /\ act'[a].img = act[a].img
    /\ act'[a].src = act[a].src /\ act'[a].c = act[a].c /\ act'[a].todo = act[a].todo

Ends(a) == Others(a) /\ act'[a] = None

LEMMA FrameShape == \A f : IsFrame(f) => f # None
BY DEF IsFrame, None

LEMMA GoDo ==
    ASSUME Acts, NEW a \in Actors, Active(a), NEW pc, Go(a, pc)
    PROVE  Goes(a, pc)
<1>1. IsFrame(act[a]) /\ DOMAIN act = Actors
  BY DEF Acts, Active
<1>2. act' = [act EXCEPT ![a] = [act[a] EXCEPT !.pc = pc]]
  BY DEF Go
<1>3. act'[a] = [act[a] EXCEPT !.pc = pc] /\ Others(a)
  BY <1>1, <1>2 DEF Others
<1>4. QED
  BY <1>1, <1>3, FrameShape DEF Goes, IsFrame

LEMMA EndDo ==
    ASSUME Acts, NEW a \in Actors, End(a)
    PROVE  Ends(a)
BY DEF Acts, End, Ends, Others

(* A step of the actor a in what it began.                                 *)
TaskMove(v) ==
    \/ TaskRead(v) \/ TaskRows(v) \/ RemoveNamed(v) \/ Make(v) \/ NewProcess(v)
    \/ StartInstances(v) \/ StopInstances(v) \/ Mark(v) \/ Kill(v) \/ Killed(v)
    \/ ClearVm(v) \/ ClearSpecs(v) \/ ClearStatus(v)

Step(a) ==
    \/ a \in Conns /\ VmStep(a)
    \/ ImageStep(a) \/ Fail(a)
    \/ a \in Vms /\ TaskMove(a)

Moved(a) ==
    /\ Active(a) /\ Others(a)
    /\ act'[a] # None =>
          /\ IsFrame(act'[a]) /\ act'[a].op = act[a].op /\ act'[a].v = act[a].v
          /\ act'[a].src = act[a].src
          /\ act'[a].img = act[a].img \/ (a \in Vms /\ act'[a].img \in Snaps(a))

LEMMA GoMoves ==
    ASSUME Acts, NEW a \in Actors, Active(a), NEW pc, Go(a, pc)
    PROVE  Moved(a)
BY GoDo DEF Goes, Moved

LEMMA EndMoves ==
    ASSUME Acts, NEW a \in Actors, Active(a), End(a)
    PROVE  Moved(a)
BY EndDo DEF Ends, Moved

LEMMA ErrMoves ==
    ASSUME Acts, NEW a \in Actors, Active(a), Err(a)
    PROVE  Moved(a)
BY EndMoves DEF Err

(* A step that sets some local variables.                                  *)
LEMMA Redone ==
    ASSUME Acts, NEW a \in Actors, Active(a), NEW f, act' = [act EXCEPT ![a] = f],
           IsFrame(f), f.op = act[a].op, f.v = act[a].v, f.src = act[a].src,
           f.img = act[a].img \/ (a \in Vms /\ f.img \in Snaps(a))
    PROVE  Moved(a) /\ act'[a] = f /\ f # None
<1>1. act'[a] = f /\ Others(a)
  BY DEF Acts, Others
<1>2. f # None
  BY FrameShape
<1>3. QED
  BY <1>1, <1>2 DEF Moved

LEMMA VmMoves ==
    ASSUME Acts, NEW k \in Conns, VmStep(k)
    PROVE  Moved(k)
<1> USE DEF At, Active
<1>0. k \in Actors
  BY DEF Actors
<1>1. CheckVm(k) => Moved(k)
  BY <1>0, GoMoves, EndMoves DEF CheckVm
<1>2. NewStatus(k) => Moved(k)
  BY <1>0, GoMoves, EndMoves DEF NewStatus
<1>3. NewSpec(k) => Moved(k)
  BY <1>0, GoMoves, EndMoves DEF NewSpec
<1>4. NewVm(k) => Moved(k)
  BY <1>0, GoMoves, EndMoves DEF NewVm
<1>5. ReadVm(k) => Moved(k)
  BY <1>0, GoMoves, EndMoves DEF ReadVm
<1>6. SetStatus(k) => Moved(k)
  BY <1>0, GoMoves, EndMoves DEF SetStatus
<1>7. PatchVm(k) => Moved(k)
  BY <1>0, GoMoves, EndMoves DEF PatchVm
<1>8. Emit(k) => Moved(k)
  BY <1>0, GoMoves, EndMoves DEF Emit
<1>9. StartOne(k) => Moved(k)
  BY <1>0, GoMoves, EndMoves DEF StartOne
<1>10. QED
  BY <1>1, <1>2, <1>3, <1>4, <1>5, <1>6, <1>7, <1>8, <1>9 DEF VmStep

LEMMA ImageMoves ==
    ASSUME Acts, NEW a \in Actors, ImageStep(a)
    PROVE  Moved(a)
<1> USE DEF At, Active
<1>1. ReadSource(a) => Moved(a)
  BY GoMoves, EndMoves DEF ReadSource
<1>2. NameFree(a) => Moved(a)
  BY GoMoves, EndMoves DEF NameFree
<1>3. Snapshot(a) => Moved(a)
  BY GoMoves, EndMoves DEF Snapshot
<1>4. Fill(a) => Moved(a)
  BY GoMoves, EndMoves DEF Fill
<1>5. Filled(a) => Moved(a)
  BY GoMoves, EndMoves DEF Filled
<1>6. ImageRow(a) => Moved(a)
  BY GoMoves, EndMoves DEF ImageRow
<1>7. Resize(a) => Moved(a)
  BY GoMoves, EndMoves DEF Resize
<1>8. ResizeRow(a) => Moved(a)
  BY GoMoves, EndMoves DEF ResizeRow
<1>9. ReadChildren(a) => Moved(a)
  BY GoMoves, ErrMoves DEF ReadChildren
<1>10. Unlink(a) => Moved(a)
  BY GoMoves, EndMoves DEF Unlink
<1>11. UnRow(a) => Moved(a)
  BY GoMoves, EndMoves, ErrMoves DEF UnRow
<1>12. QED
  BY <1>1, <1>2, <1>3, <1>4, <1>5, <1>6, <1>7, <1>8, <1>9, <1>10, <1>11 DEF ImageStep

LEMMA TaskMoves ==
    ASSUME Acts, Tables, NEW v \in Vms, TaskMove(v)
    PROVE  Moved(v)
<1> USE DEF At, Active
<1>0. v \in Actors
  BY DEF Actors
<1>a. IsFrame(act[v])
  <2>1. act[v] # None
    BY DEF TaskMove, TaskRead, TaskRows, RemoveNamed, Make, NewProcess, StartInstances,
           StopInstances, Mark, Kill, Killed, ClearVm, ClearSpecs, ClearStatus
  <2>2. QED
    BY <1>0, <2>1 DEF Acts
<1>1. TaskRead(v) => Moved(v)
  <2>1. CASE TaskRead(v) /\ Err(v)
    BY <2>1, <1>0, ErrMoves DEF TaskRead
  <2>2. CASE TaskRead(v) /\ ~Err(v)
    <3>1. PICK pc : act' = [act EXCEPT ![v].pc = pc, ![v].img = vm[v].img]
      BY <2>2 DEF TaskRead
    <3>2. act' = [act EXCEPT ![v] = [act[v] EXCEPT !.pc = pc, !.img = vm[v].img]]
      BY <3>1
    <3>3. vm[v].img \in Snaps(v) /\ act[v] # None
      BY <2>2 DEF TaskRead, Tables, VmsOk
    <3>4. QED
      BY <1>0, <1>a, <3>2, <3>3, Redone DEF IsFrame
  <2>3. QED
    BY <2>1, <2>2
<1>2. TaskRows(v) => Moved(v)
  <2>1. CASE TaskRows(v) /\ act[v].op = "Starting"
    BY <2>1, <1>0, GoMoves DEF TaskRows
  <2>2. CASE TaskRows(v) /\ act[v].op # "Starting"
    <3>1. act' = [act EXCEPT ![v] = [act[v] EXCEPT !.pc = "kill", !.todo = RowsOf(v)]]
      BY <2>2 DEF TaskRows
    <3>2. QED
      BY <1>0, <1>a, <3>1, <2>2, Redone DEF IsFrame, TaskRows
  <2>3. QED
    BY <2>1, <2>2
<1>3. RemoveNamed(v) => Moved(v)
  BY <1>0, GoMoves DEF RemoveNamed
<1>4. Make(v) => Moved(v)
  <2>1. CASE Make(v) /\ Err(v)
    BY <2>1, <1>0, ErrMoves DEF Make
  <2>2. CASE Make(v) /\ ~Err(v)
    <3>1. act' = [act EXCEPT ![v] = [act[v] EXCEPT !.pc = "process", !.c = left.made + 1]]
      BY <2>2 DEF Make
    <3>2. QED
      BY <1>0, <1>a, <3>1, <2>2, Redone DEF IsFrame, Make
  <2>3. QED
    BY <2>1, <2>2
<1>5. NewProcess(v) => Moved(v)
  BY <1>0, GoMoves DEF NewProcess
<1>6. StartInstances(v) => Moved(v)
  BY <1>0, GoMoves, ErrMoves DEF StartInstances
<1>7. StopInstances(v) => Moved(v)
  <2>1. CASE StopInstances(v) /\ UNCHANGED act
    BY <2>1, <1>0, <1>a DEF StopInstances, Moved, Others, Acts
  <2>2. QED
    BY <2>1, <1>0, GoMoves, ErrMoves DEF StopInstances
<1>8. Mark(v) => Moved(v)
  BY <1>0, EndMoves, ErrMoves DEF Mark
<1>9. Kill(v) => Moved(v)
  <2>1. CASE Kill(v) /\ act[v].todo = {}
    BY <2>1, <1>0, GoMoves DEF Kill
  <2>2. CASE Kill(v) /\ act[v].todo # {}
    <3>1. PICK c : act' = [act EXCEPT ![v].pc = "killed", ![v].c = c, ![v].todo = @ \ {c}]
      BY <2>2 DEF Kill
    <3>2. act' = [act EXCEPT ![v] = [act[v] EXCEPT !.pc = "killed", !.c = c, !.todo = @ \ {c}]]
      BY <3>1
    <3>3. QED
      BY <1>0, <1>a, <3>2, <2>2, Redone DEF IsFrame, Kill
  <2>3. QED
    BY <2>1, <2>2
<1>10. Killed(v) => Moved(v)
  BY <1>0, GoMoves DEF Killed
<1>11. ClearVm(v) => Moved(v)
  BY <1>0, GoMoves DEF ClearVm
<1>12. ClearSpecs(v) => Moved(v)
  BY <1>0, GoMoves DEF ClearSpecs
<1>13. ClearStatus(v) => Moved(v)
  BY <1>0, EndMoves DEF ClearStatus
<1>14. QED
  BY <1>1, <1>2, <1>3, <1>4, <1>5, <1>6, <1>7, <1>8, <1>9, <1>10, <1>11, <1>12, <1>13
  DEF TaskMove

LEMMA StepMoves ==
    ASSUME Acts, Tables, NEW a \in Actors, Step(a)
    PROVE  Moved(a)
<1>1. Fail(a) => Moved(a)
  BY ErrMoves DEF Fail, Active
<1>2. QED
  BY <1>1, VmMoves, ImageMoves, TaskMoves DEF Step

LEMMA Disjoint ==
    /\ Actors = Conns \cup Vms /\ \A k \in Conns : k \notin Vms
    /\ \A v \in Vms : Snaps(v) \subseteq Images
    /\ \A v \in Vms, w \in Vms : \A i : i \in Snaps(v) /\ i \in Snaps(w) => v = w
    /\ \A v \in Vms : \A i \in Snaps(v) : i \notin Bases /\ i \notin Extra /\ i # "none" /\ i \notin Vms
    /\ Bases \subseteq Images /\ Extra \subseteq Images
    /\ \A v \in Vms : v \notin Images /\ v # "none"
    /\ "none" \notin Images
BY VmAssumption DEF Actors, Snaps, Images

(* A new operation of a, and what its beginning wears out.                 *)
Starts(a, f) ==
    /\ act[a] = None /\ IsFrame(f) /\ f.pc = "begin"
    /\ a \in Conns => IsRequest(f)
    /\ a \in Vms => f.op \in Tasks /\ f.v = a /\ f.img \in Snaps(a) \cup {"none"}

Begun(a, f) ==
    /\ Starts(a, f) /\ Others(a) /\ act'[a] = f /\ f # None
    /\ DOMAIN hist' = DOMAIN hist /\ hist'.fine \subseteq hist.fine
    /\ hist'.synced = hist.synced /\ hist'.based = hist.based
    /\ DOMAIN boot' = DOMAIN boot /\ boot'.pc = boot.pc /\ boot'.ids = boot.ids /\ boot'.files = boot.files
    /\ boot'.alone = (boot.alone /\ boot.pc = "off")
    /\ \A b \in Actors : b # a /\ Active(b) /\ Clash(f, act[b]) # {} =>
          Writes(f) \cap hist'.fine = {} /\ Writes(act[b]) \cap hist'.fine = {}
    /\ boot.pc # "off" => Writes(f) \cap hist'.fine = {}
    /\ f.op = "rmi" => \A b \in Bases, v \in Vms : SnapName[b][v] = f.img => v \notin hist'.fine

LEMMA BeginDo ==
    ASSUME Acts, RestOk, NEW a \in Actors, NEW f, Starts(a, f), Begin(a, f)
    PROVE  Begun(a, f)
<1>1. /\ act' = [act EXCEPT ![a] = f] /\ hist' = [hist EXCEPT !.fine = @ \ Worn(a, f)]
      /\ boot' = [boot EXCEPT !.alone = @ /\ boot.pc = "off"]
  BY DEF Begin
<1>2. act'[a] = f /\ f # None /\ Others(a)
  BY <1>1, FrameShape DEF Acts, Others, Starts
<1>3. /\ DOMAIN hist' = DOMAIN hist /\ hist'.fine = hist.fine \ Worn(a, f)
      /\ hist'.synced = hist.synced /\ hist'.based = hist.based
  BY <1>1 DEF RestOk
<1>4. /\ DOMAIN boot' = DOMAIN boot /\ boot'.pc = boot.pc /\ boot'.ids = boot.ids /\ boot'.files = boot.files
      /\ boot'.alone = (boot.alone /\ boot.pc = "off")
  BY <1>1 DEF RestOk
<1>5. ASSUME NEW b \in Actors, b # a, Active(b), Clash(f, act[b]) # {}
      PROVE  Writes(f) \subseteq Worn(a, f) /\ Writes(act[b]) \subseteq Worn(a, f)
  <2>1. b \in Clashing(a, f)
    BY <1>5 DEF Active, Clashing
  <2>2. Writes(act[b]) \subseteq UNION {Writes(act[c]) : c \in Clashing(a, f)}
    BY <2>1
  <2>3. QED
    BY <2>1, <2>2 DEF Worn
<1>6. boot.pc # "off" => Writes(f) \subseteq Worn(a, f)
  BY DEF Worn
<1>7. f.op = "rmi" => \A b \in Bases, v \in Vms : SnapName[b][v] = f.img => v \in Worn(a, f)
  <2>1. f.op = "rmi" => \A b \in Bases, v \in Vms : SnapName[b][v] = f.img => v \in Undone(f)
    BY DEF Undone
  <2>2. Undone(f) \subseteq Worn(a, f)
    <3>1. \A A, B, C : C \subseteq A \cup B \cup C
      OBVIOUS
    <3>2. QED
      BY <3>1 DEF Worn
  <2>3. QED
    BY <2>1, <2>2
<1>8. QED
  BY <1>2, <1>3, <1>4, <1>5, <1>6, <1>7 DEF Begun

LEMMA RequestDo ==
    ASSUME Acts, RestOk, NEW k \in Conns, NEW op \in ImageOps \cup VmOps, Request(k, op)
    PROVE  \E f : Begun(k, f)
<1>0. k \in Actors /\ k \notin Vms
  BY Disjoint
<1>1. CASE op \in {"import", "rmi", "resize"}
  <2>1. PICK i \in Images : Begin(k, Frame(op, "none", i, "none")) /\ (op = "import" => i \in Extra)
    BY <1>1, Disjoint DEF Request, VmOps
  <2>2. Starts(k, Frame(op, "none", i, "none"))
    BY <1>0, <1>1, <2>1 DEF Request, Frame, Starts, IsFrame, IsRequest
  <2>3. QED
    BY <1>0, <2>1, <2>2, BeginDo
<1>2. CASE op \in {"snapshot", "clone"}
  <2>1. PICK i \in Extra, j \in Images \ Extra : Begin(k, Frame(op, "none", i, j))
    BY <1>2 DEF Request, VmOps
  <2>2. Starts(k, Frame(op, "none", i, j))
    BY <1>0, <1>2, <2>1 DEF Request, Frame, Starts, IsFrame, IsRequest
  <2>3. QED
    BY <1>0, <2>1, <2>2, BeginDo
<1>3. CASE op \in VmOps
  <2>1. PICK v \in Vms, b \in Bases : Begin(k, Frame(op, v, SnapName[b][v], b))
    BY <1>3 DEF Request, VmOps
  <2>2. Starts(k, Frame(op, v, SnapName[b][v], b))
    BY <1>0, <1>3, <2>1 DEF Request, Frame, Starts, IsFrame, IsRequest
  <2>3. QED
    BY <1>0, <2>1, <2>2, BeginDo
<1>4. QED
  BY <1>1, <1>2, <1>3 DEF ImageOps

LEMMA DispatchDo ==
    ASSUME Acts, Tables, NEW v \in Vms, Dispatch(v)
    PROVE  \E f : Begun(v, f) /\ f.op = Head(queue).ev
<1> DEFINE f == Frame(Head(queue).ev, v, IF vm[v] # None THEN vm[v].img ELSE "none", "none")
<1>0. v \in Actors /\ v \notin Conns
  BY Disjoint
<1>1. Head(queue) \in [ev : Tasks, v : Vms]
  <2>1. queue # <<>> /\ queue \in Seq([ev : Tasks, v : Vms])
    BY DEF Tables, QueueOk, Dispatch
  <2>2. \A S : queue \in Seq(S) => Head(queue) \in S
    BY <2>1
  <2>3. QED
    BY <2>1, <2>2
<1>2. Starts(v, f) /\ f.op = Head(queue).ev
  <2>1. f.img \in Snaps(v) \cup {"none"}
    BY DEF Frame, Tables, VmsOk
  <2>2. IsFrame(f) /\ f.pc = "begin" /\ f.v = v /\ f.op = Head(queue).ev /\ act[v] = None
    BY DEF Frame, IsFrame, Dispatch
  <2>3. QED
    <3> HIDE DEF f
    <3> QED
      BY <1>0, <1>1, <2>1, <2>2 DEF Starts
<1>3. Begin(v, f)
  BY DEF Dispatch
<1>4. QED
  <2> HIDE DEF f
  <2> QED
    BY <1>0, <1>2, <1>3, BeginDo DEF Tables

-----------------------------------------------------------------------------
(* Frames.                                                                 *)
LEMMA ActsMoved ==
    ASSUME Acts, NEW a \in Actors, Moved(a)
    PROVE  Acts'
<1>1. IsFrame(act[a])
  BY DEF Acts, Moved, Active
<1>2. \A k \in Conns : act'[k] # None => IsRequest(act'[k])
  BY <1>1, Disjoint DEF Acts, Moved, Others, Active, IsRequest
<1>3. \A v \in Vms : act'[v] # None =>
          act'[v].op \in Tasks /\ act'[v].v = v /\ act'[v].img \in Snaps(v) \cup {"none"}
  BY <1>1, Disjoint DEF Acts, Moved, Others, Active
<1>4. QED
  BY <1>2, <1>3 DEF Acts, Moved, Others

LEMMA ActsBegun ==
    ASSUME Acts, NEW a \in Actors, NEW f, Begun(a, f)
    PROVE  Acts'
BY Disjoint DEF Acts, Begun, Starts, Others

(* What an operation writes and uses is known when it begins.              *)
LEMMA SameReach ==
    ASSUME Acts, NEW a \in Actors, Moved(a), act'[a] # None
    PROVE  Writes(act'[a]) = Writes(act[a]) /\ Uses(act'[a]) = Uses(act[a])
<1>1. CASE a \in Vms
  <2>1. act[a].op \in Tasks /\ act'[a].op = act[a].op /\ act'[a].v = act[a].v
    BY <1>1 DEF Acts, Moved, Active
  <2>2. Writes(act'[a]) = Writes(act[a])
    BY <2>1 DEF Tasks, Writes, ImageOps
  <2>3. QED
    BY <2>1, <2>2 DEF Uses, Tasks
<1>2. CASE a \notin Vms
  BY <1>2 DEF Moved, Writes, Uses
<1>3. QED
  BY <1>1, <1>2

LEMMA ApartMoved ==
    ASSUME Acts, Apart, NEW a \in Actors, Moved(a), hist'.fine \subseteq hist.fine,
           boot'.pc = boot.pc
    PROVE  Apart'
<1>1. ASSUME NEW b \in Actors, act'[b] # None
      PROVE  Active(b) /\ Writes(act'[b]) = Writes(act[b]) /\ Uses(act'[b]) = Uses(act[b])
  BY <1>1, SameReach DEF Moved, Others, Active
<1>2. ASSUME NEW b \in Actors, NEW d \in Actors, b # d, act'[b] # None, act'[d] # None,
             Clash(act'[b], act'[d]) # {}
      PROVE  Writes(act'[b]) \cap hist'.fine = {}
  <2>1. Clash(act[b], act[d]) # {}
    BY <1>1, <1>2 DEF Clash
  <2>2. Writes(act[b]) \cap hist.fine = {}
    BY <1>1, <1>2, <2>1 DEF Apart
  <2>3. QED
    BY <1>1, <1>2, <2>2
<1>3. ASSUME boot'.pc # "off", NEW b \in Actors, act'[b] # None
      PROVE  Writes(act'[b]) \cap hist'.fine = {}
  <2>1. Writes(act[b]) \cap hist.fine = {}
    BY <1>1, <1>3 DEF Apart
  <2>2. QED
    BY <1>1, <1>3, <2>1
<1>4. ASSUME NEW k \in Conns, NEW b \in Bases, NEW v \in Vms, act'[k] # None,
             act'[k].op = "rmi", act'[k].img = SnapName[b][v]
      PROVE  v \notin hist'.fine
  BY <1>4, Disjoint DEF Apart, Moved, Others, Active
<1>5. QED
  BY <1>2, <1>3, <1>4 DEF Apart, Active

LEMMA ApartBegun ==
    ASSUME Acts, Apart, NEW a \in Actors, NEW f, Begun(a, f)
    PROVE  Apart'
<1>1. ASSUME NEW b \in Actors, NEW d \in Actors, b # d, act'[b] # None, act'[d] # None,
             Clash(act'[b], act'[d]) # {}
      PROVE  Writes(act'[b]) \cap hist'.fine = {}
  <2>1. CASE b = a
    BY <1>1, <2>1 DEF Begun, Others, Active
  <2>2. CASE d = a
    <3>1. act'[b] = act[b] /\ act'[d] = f
      BY <1>1, <2>2 DEF Begun, Others
    <3>2. Clash(f, act[b]) # {}
      BY <1>1, <3>1 DEF Clash
    <3>3. QED
      BY <1>1, <2>2, <3>1, <3>2 DEF Begun, Active
  <2>3. CASE b # a /\ d # a
    <3>1. Writes(act[b]) \cap hist.fine = {}
      BY <1>1, <2>3 DEF Apart, Begun, Others, Active
    <3>2. act'[b] = act[b] /\ hist'.fine \subseteq hist.fine
      BY <2>3 DEF Begun, Others
    <3>3. QED
      BY <3>1, <3>2
  <2>4. QED
    BY <2>1, <2>2, <2>3
<1>2. ASSUME boot'.pc # "off", NEW b \in Actors, act'[b] # None
      PROVE  Writes(act'[b]) \cap hist'.fine = {}
  <2>1. CASE b = a
    BY <1>2, <2>1 DEF Begun
  <2>2. CASE b # a
    <3>1. Writes(act[b]) \cap hist.fine = {}
      BY <1>2, <2>2 DEF Apart, Begun, Others, Active
    <3>2. act'[b] = act[b] /\ hist'.fine \subseteq hist.fine
      BY <2>2 DEF Begun, Others
    <3>3. QED
      BY <3>1, <3>2
  <2>3. QED
    BY <2>1, <2>2
<1>3. ASSUME NEW k \in Conns, NEW b \in Bases, NEW v \in Vms, act'[k] # None,
             act'[k].op = "rmi", act'[k].img = SnapName[b][v]
      PROVE  v \notin hist'.fine
  BY <1>3, Disjoint DEF Apart, Begun, Others, Active
<1>4. QED
  BY <1>1, <1>2, <1>3 DEF Apart, Active

(* Two operations that clash have worn out what they write.                *)
LEMMA Excluded ==
    ASSUME Acts, Apart, NEW a \in Actors, NEW b \in Actors, Active(a), Active(b), a # b,
           NEW i, (i \in Writes(act[a]) /\ i \in Uses(act[b])) \/ (i \in Uses(act[a]) /\ i \in Writes(act[b]))
    PROVE  /\ \A j : j \in Writes(act[a]) \cup Writes(act[b]) => j \notin hist.fine
<1>1. Clash(act[a], act[b]) # {} /\ Clash(act[b], act[a]) # {}
  BY DEF Clash
<1>2. QED
  BY <1>1 DEF Apart
-----------------------------------------------------------------------------
(* Who writes what.                                                        *)
LEMMA Quiet ==
    ASSUME NEW a, Step(a)
    PROVE  /\ img' = img \/ ImageRow(a) \/ ResizeRow(a) \/ UnRow(a)
           /\ file' = file \/ Snapshot(a) \/ Fill(a) \/ Filled(a) \/ Resize(a) \/ Unlink(a)
           /\ vm' = vm \/ NewVm(a) \/ ClearVm(a)
           /\ specs' = specs \/ NewSpec(a) \/ ClearSpecs(a)
           /\ \/ status' = status \/ Err(a) \/ NewStatus(a) \/ SetStatus(a) \/ Mark(a)
              \/ ClearStatus(a)
           /\ queue' = queue \/ Emit(a)
           /\ hist' = hist \/ Filled(a) \/ ImageRow(a) \/ Fail(a)
           /\ left' = left \/ Filled(a) \/ Make(a) \/ Fail(a)
           /\ boot' = boot
<1> USE DEF store
<1>1. CASE VmStep(a)
  BY <1>1 DEF VmStep, CheckVm, NewStatus, NewSpec, NewVm, ReadVm, SetStatus, PatchVm, Emit, StartOne
<1>2. CASE ImageStep(a)
  BY <1>2 DEF ImageStep, ReadSource, NameFree, Snapshot, Fill, Filled, ImageRow, Resize, ResizeRow,
              ReadChildren, Unlink, UnRow
<1>3. CASE Fail(a)
  BY <1>3 DEF Fail
<1>4. CASE TaskMove(a)
  BY <1>4 DEF TaskMove, TaskRead, TaskRows, RemoveNamed, Make, NewProcess, StartInstances,
              StopInstances, Mark, Kill, Killed, ClearVm, ClearSpecs, ClearStatus
<1>5. QED
  BY <1>1, <1>2, <1>3, <1>4 DEF Step

LEMMA Outside ==
    /\ \A c : Exit(c) => UNCHANGED <<img, file, vm, status, specs, rows, act, queue, boot, hist>>
    /\ Analyse => UNCHANGED <<img, file, vm, specs, conts, act, queue, boot, hist, left>>
    /\ Crash => UNCHANGED <<img, file, vm, status, specs, conts, rows>>
    /\ BootList => UNCHANGED <<img, file, vm, status, specs, conts, rows, act, queue, dock, hist, left>>
    /\ BootRow => UNCHANGED <<img, file, vm, status, specs, conts, act, queue, dock, left>>
    /\ BootImage => UNCHANGED <<file, vm, status, specs, conts, rows, act, queue, dock, hist, left>>
    /\ \A k, op : Request(k, op) =>
          UNCHANGED <<img, file, vm, status, specs, conts, rows, queue, dock>>
    /\ \A v : Dispatch(v) => UNCHANGED <<img, file, vm, status, specs, conts, rows, dock, left>>
BY DEF Exit, Analyse, Crash, BootList, BootRow, BootImage, Request, Dispatch, store

LEMMA NextCases ==
    ASSUME Acts, Tables, [Next]_vars
    PROVE  \/ UNCHANGED vars
           \/ \E a \in Actors : Step(a)
           \/ \E k \in Conns, op \in ImageOps \cup VmOps : Request(k, op)
           \/ \E v \in Vms : Dispatch(v)
           \/ \E c \in Conts : Exit(c)
           \/ Analyse \/ Crash \/ BootList \/ BootRow \/ BootImage
BY Disjoint DEF Next, Step, TaskStep, TaskMove
-----------------------------------------------------------------------------
(* Statuses that only change in what is.                                   *)
StatusLike ==
    /\ StatusOk'
    /\ \A v \in Vms : /\ status'[v] = None <=> status[v] = None
                      /\ status[v] # None => status'[v].wanted = status[v].wanted

LEMMA StatusSame ==
    ASSUME StatusOk, status' = status
    PROVE  StatusLike
BY DEF StatusOk, StatusLike

LEMMA ActualSet ==
    ASSUME StatusOk, NEW v \in Vms, status[v] # None, NEW s, status' = [status EXCEPT ![v].actual = s]
    PROVE  StatusLike
<1>1. status' = [status EXCEPT ![v] = [status[v] EXCEPT !.actual = s]]
  OBVIOUS
<1>2. /\ status'[v] = [status[v] EXCEPT !.actual = s] /\ DOMAIN status' = Vms
      /\ \A w \in Vms : w # v => status'[w] = status[w]
  BY <1>1 DEF StatusOk
<1>3. /\ DOMAIN status'[v] = {"st", "wanted", "actual"} /\ status'[v].st = "row"
      /\ status'[v].wanted = status[v].wanted
  BY <1>2 DEF StatusOk
<1>4. status'[v] # None
  BY <1>3 DEF None
<1>5. QED
  BY <1>2, <1>3, <1>4 DEF StatusOk, StatusLike

LEMMA ErrStatus ==
    ASSUME StatusOk, NEW a, Err(a)
    PROVE  StatusLike
<1>1. CASE a \in Vms /\ status[a] # None
  BY <1>1, ActualSet DEF Err
<1>2. CASE ~(a \in Vms /\ status[a] # None)
  BY <1>2, StatusSame DEF Err
<1>3. QED
  BY <1>1, <1>2

LEMMA MarkStatus ==
    ASSUME StatusOk, NEW v \in Vms, Mark(v)
    PROVE  StatusLike
<1>1. CASE status[v] # None
  BY <1>1, ActualSet DEF Mark
<1>2. CASE status[v] = None
  BY <1>2, ErrStatus DEF Mark
<1>3. QED
  BY <1>1, <1>2

LEMMA Known ==
    ASSUME Docker
    PROVE  /\ left.made \in Nat /\ left.made <= MaxConts
           /\ \A c \in 1..left.made : /\ c \in Conts /\ DOMAIN conts[c] = {"st", "v"}
                                     /\ conts[c].v \in Vms /\ conts[c].st \in {"down", "up", "gone"}
BY VmAssumption DEF Docker, ContsOk, Conts

LEMMA AnalyseStatus ==
    ASSUME Tables, Docker, Analyse
    PROVE  StatusLike
<1> DEFINE e == Head(dock)
           v == conts[e.c].v
<1>1. e \in [ev : {"start", "die", "destroy"}, c : 1..left.made]
  <2>1. dock # <<>> /\ dock \in Seq([ev : {"start", "die", "destroy"}, c : 1..left.made])
    BY DEF Docker, Events, Analyse
  <2>2. \A S : dock \in Seq(S) => Head(dock) \in S
    BY <2>1
  <2>3. QED
    BY <2>1, <2>2
<1>2. v \in Vms
  BY <1>1, Known
<1>3. status' = status \/ (status[v] # None /\ \E s : status' = [status EXCEPT ![v].actual = s])
  BY DEF Analyse
<1>4. QED
  <2> HIDE DEF v
  <2> QED
    BY <1>2, <1>3, ActualSet, StatusSame DEF Tables

(* A status that tells what is wanted.                                     *)
LEMMA SetStatusDo ==
    ASSUME Acts, Tables, NEW k \in Conns, SetStatus(k)
    PROVE  /\ StatusOk' /\ act[k].v \in Vms
           /\ \A v \in Vms : status'[v] = None <=> status[v] = None
           /\ \A v \in Vms : v # act[k].v => status'[v] = status[v]
           /\ status' # status => /\ status'[act[k].v].wanted = Wanted(act[k].op).wanted
                                  /\ Go(k, IF act[k].op = "patch" THEN "spec" ELSE "emit")
<1> DEFINE v == act[k].v
           w == Wanted(act[k].op).wanted
           s == Wanted(act[k].op).actual
<1>1. v \in Vms
  <2>1. act[k] # None /\ act[k].op \in {"delete", "patch", "start", "stop"}
    BY DEF SetStatus, At
  <2>2. IsRequest(act[k])
    BY <2>1 DEF Acts
  <2>3. QED
    BY <2>1, <2>2 DEF IsRequest
<1>2. CASE status' = status
  BY <1>1, <1>2 DEF Tables, StatusOk
<1>3. CASE status' # status
  <2>1. /\ status[v] # None /\ Go(k, IF act[k].op = "patch" THEN "spec" ELSE "emit")
        /\ status' = [status EXCEPT ![v].wanted = w, ![v].actual = s]
    BY <1>3 DEF SetStatus
  <2> HIDE DEF w, s, v
  <2>2. status' = [status EXCEPT ![v] = [status[v] EXCEPT !.wanted = w, !.actual = s]]
    BY <2>1
  <2>3. /\ status'[v] = [status[v] EXCEPT !.wanted = w, !.actual = s] /\ DOMAIN status' = Vms
        /\ \A x \in Vms : x # v => status'[x] = status[x]
    BY <1>1, <2>2 DEF Tables, StatusOk
  <2>4. /\ DOMAIN status'[v] = {"st", "wanted", "actual"} /\ status'[v].st = "row"
        /\ status'[v].wanted = w
    BY <1>1, <2>1, <2>3 DEF Tables, StatusOk
  <2>5. status'[v] # None
    BY <2>4 DEF None
  <2>6. QED
    BY <1>1, <2>1, <2>3, <2>4, <2>5 DEF Tables, StatusOk, v, w
<1>4. QED
  BY <1>2, <1>3

LEMMA StatusStep ==
    ASSUME Acts, Tables, NEW a \in Actors, Step(a)
    PROVE  StatusOk'
<1>0. a \in Conns \/ a \in Vms
  BY Disjoint
<1>1. CASE status' = status \/ Err(a)
  BY <1>1, StatusSame, ErrStatus DEF Tables, StatusLike
<1>2. CASE NewStatus(a)
  BY <1>2 DEF NewStatus, Tables, StatusOk, None
<1>3. CASE SetStatus(a)
  <2>1. a \notin Vms
    BY <1>3, Disjoint DEF SetStatus, At, Acts, Tasks
  <2>2. QED
    BY <1>0, <1>3, <2>1, SetStatusDo
<1>4. CASE Mark(a)
  <2>1. a \notin Conns
    BY <1>4, Disjoint DEF Mark, At, Acts, IsRequest, VmOps
  <2>2. QED
    BY <1>0, <1>4, <2>1, MarkStatus DEF Tables, StatusLike
<1>5. CASE ClearStatus(a)
  BY <1>5 DEF ClearStatus, Tables, StatusOk
<1>6. QED
  BY <1>1, <1>2, <1>3, <1>4, <1>5, Quiet

LEMMA ImagesStep ==
    ASSUME Acts, Tables, NEW a \in Actors, Step(a)
    PROVE  ImagesOk'
<1>1. CASE img' = img
  BY <1>1 DEF Tables, ImagesOk
<1>2. CASE ImageRow(a)
  <2>1. act[a] # None /\ a \in Conns
    BY <1>2, Disjoint DEF ImageRow, At, Acts, Tasks
  <2>2. IsRequest(act[a]) /\ act[a].op \in {"create", "snapshot", "clone", "import"}
    BY <1>2, <2>1 DEF Acts, ImageRow, At
  <2>3. act[a].op \in {"create", "snapshot"} => act[a].src \in Images
    BY <2>2, Disjoint DEF IsRequest
  <2>4. QED
    BY <1>2, <2>3 DEF ImageRow, Tables, ImagesOk
<1>3. CASE ResizeRow(a)
  <2> DEFINE i == act[a].img
  <2>1. img' = img \/ (img[i] # None /\ img' = [img EXCEPT ![i] = [img[i] EXCEPT !.size = 2]])
    BY <1>3 DEF ResizeRow
  <2> HIDE DEF i
  <2>2. QED
    BY <2>1 DEF Tables, ImagesOk
<1>4. CASE UnRow(a)
  BY <1>4 DEF UnRow, Tables, ImagesOk
<1>5. QED
  BY <1>1, <1>2, <1>3, <1>4, Quiet

LEMMA FilesStep ==
    ASSUME Acts, Tables, NEW a \in Actors, Step(a)
    PROVE  FilesOk'
<1>1. CASE file' = file
  BY <1>1 DEF Tables, FilesOk
<1>2. CASE Snapshot(a)
  BY <1>2 DEF Snapshot, Tables, FilesOk
<1>3. CASE Fill(a)
  BY <1>3 DEF Fill, Tables, FilesOk
<1>4. CASE Filled(a)
  BY <1>4 DEF Filled, Tables, FilesOk
<1>5. CASE Resize(a)
  <2> DEFINE i == act[a].img
  <2>1. file' = file \/ (file[i] # None /\ file' = [file EXCEPT ![i] = [file[i] EXCEPT !.size = 2]])
    BY <1>5 DEF Resize, Whole
  <2> HIDE DEF i
  <2>2. QED
    BY <2>1 DEF Tables, FilesOk
<1>6. CASE Unlink(a)
  BY <1>6 DEF Unlink, Tables, FilesOk
<1>7. QED
  BY <1>1, <1>2, <1>3, <1>4, <1>5, <1>6, Quiet

LEMMA VmsStep ==
    ASSUME Acts, Tables, NEW a \in Actors, Step(a)
    PROVE  VmsOk'
<1>1. CASE vm' = vm
  BY <1>1 DEF Tables, VmsOk
<1>2. CASE NewVm(a)
  <2>1. act[a] # None /\ a \in Conns
    BY <1>2, Disjoint DEF NewVm, At, Acts, Tasks
  <2>2. IsRequest(act[a]) /\ act[a].op = "create"
    BY <1>2, <2>1 DEF Acts, NewVm, At
  <2>3. act[a].v \in Vms /\ act[a].img \in Snaps(act[a].v)
    BY <2>2 DEF IsRequest, Snaps
  <2>4. QED
    BY <1>2, <2>3 DEF NewVm, Tables, VmsOk
<1>3. CASE ClearVm(a)
  BY <1>3 DEF ClearVm, Tables, VmsOk
<1>4. QED
  BY <1>1, <1>2, <1>3, Quiet

LEMMA RestStep ==
    ASSUME Acts, Tables, NEW a \in Actors, Step(a)
    PROVE  RestOk' /\ hist'.fine \subseteq hist.fine /\ hist.based \subseteq hist'.based
<1>1. /\ DOMAIN hist' = DOMAIN hist /\ hist'.fine \subseteq hist.fine
      /\ hist.based \subseteq hist'.based /\ hist'.synced \in BOOLEAN
  <2>1. CASE hist' = hist
    BY <2>1 DEF Tables, RestOk
  <2>2. CASE Filled(a)
    BY <2>2 DEF Filled, Tables, RestOk
  <2>3. CASE ImageRow(a)
    BY <2>3 DEF ImageRow, Tables, RestOk
  <2>4. CASE Fail(a)
    BY <2>4 DEF Fail, Tables, RestOk
  <2>5. QED
    BY <2>1, <2>2, <2>3, <2>4, Quiet
<1>2. DOMAIN left' = DOMAIN left /\ left'.lost \in BOOLEAN
  <2>1. CASE left' = left
    BY <2>1 DEF Tables, RestOk
  <2>2. CASE Filled(a)
    BY <2>2 DEF Filled, Tables, RestOk
  <2>3. CASE Make(a)
    BY <2>3 DEF Make, Tables, RestOk
  <2>4. CASE Fail(a)
    BY <2>4 DEF Fail, Tables, RestOk
  <2>5. QED
    BY <2>1, <2>2, <2>3, <2>4, Quiet
<1>3. QED
  BY <1>1, <1>2, Quiet DEF Tables, RestOk

LEMMA QueueStep ==
    ASSUME Acts, Tables, NEW a \in Actors, Step(a)
    PROVE  QueueOk'
<1>1. CASE queue' = queue
  BY <1>1 DEF Tables, QueueOk
<1>2. CASE Emit(a)
  <2>1. act[a] # None /\ a \in Conns
    BY <1>2, Disjoint DEF Emit, At, Acts, Tasks
  <2>2. IsRequest(act[a]) /\ act[a].op \in {"start", "stop", "delete", "patch"}
    BY <1>2, <2>1 DEF Acts, Emit, At
  <2>3. [ev |-> Event(act[a].op), v |-> act[a].v] \in [ev : Tasks, v : Vms]
    BY <2>2 DEF IsRequest, Event, Tasks
  <2> DEFINE S == [ev : Tasks, v : Vms]
             e == [ev |-> Event(act[a].op), v |-> act[a].v]
  <2>4. queue' = queue \/ queue' = Append(queue, e)
    BY <1>2 DEF Emit
  <2>5. e \in S /\ queue \in Seq(S)
    BY <2>3 DEF Tables, QueueOk
  <2>6. queue' \in Seq(S)
    <3> HIDE DEF S, e
    <3> QED
      BY <2>4, <2>5
  <2>7. QED
    BY <2>6 DEF QueueOk
<1>3. QED
  BY <1>1, <1>2, Quiet

LEMMA TablesStep ==
    ASSUME Acts, Tables, NEW a \in Actors, Step(a)
    PROVE  Tables'
BY ImagesStep, FilesStep, VmsStep, StatusStep, RestStep, QueueStep DEF Tables

LEMMA TablesBegun ==
    ASSUME Tables, NEW a, NEW f, Begun(a, f), UNCHANGED <<img, file, vm, status>>, QueueOk',
           DOMAIN left' = DOMAIN left, left'.lost = left.lost
    PROVE  Tables'
BY DEF Tables, Begun, ImagesOk, FilesOk, VmsOk, StatusOk, RestOk

LEMMA QueueDispatch ==
    ASSUME Tables, NEW v, Dispatch(v)
    PROVE  QueueOk'
<1>1. queue # <<>> /\ queue \in Seq([ev : Tasks, v : Vms]) /\ queue' = Tail(queue)
  BY DEF Tables, QueueOk, Dispatch
<1>2. \A S : queue \in Seq(S) => Tail(queue) \in Seq(S)
  BY <1>1
<1>3. QED
  BY <1>1, <1>2 DEF QueueOk

LEMMA TablesRest ==
    ASSUME Acts, Tables, Docker,
           UNCHANGED vars \/ (\E c \in Conts : Exit(c)) \/ Analyse \/ Crash \/ BootList \/ BootRow \/ BootImage
    PROVE  Tables' /\ hist'.fine \subseteq hist.fine /\ hist'.based = hist.based
<1>1. CASE UNCHANGED vars
  BY <1>1 DEF vars, Tables, ImagesOk, FilesOk, VmsOk, StatusOk, RestOk, QueueOk
<1>2. ASSUME NEW c \in Conts, Exit(c) PROVE Tables' /\ UNCHANGED hist
  <2>1. DOMAIN left' = DOMAIN left /\ left'.lost = left.lost
    BY <1>2 DEF Exit, Tables, RestOk
  <2>2. QED
    BY <1>2, <2>1, Outside DEF Tables, ImagesOk, FilesOk, VmsOk, StatusOk, RestOk, QueueOk
<1>3. CASE Analyse
  BY <1>3, Outside, AnalyseStatus DEF StatusLike, Tables, ImagesOk, FilesOk, VmsOk, RestOk, QueueOk
<1>4. CASE Crash
  <2>1. /\ DOMAIN left' = DOMAIN left /\ left'.lost \in BOOLEAN
    BY <1>4 DEF Crash, Tables, RestOk
  <2>2. /\ DOMAIN hist' = DOMAIN hist /\ hist'.fine \subseteq hist.fine
        /\ hist'.synced \in BOOLEAN /\ hist'.based = hist.based
    BY <1>4 DEF Crash, Tables, RestOk
  <2>3. /\ DOMAIN boot' = {"pc", "ids", "files", "alone"} /\ boot'.pc = "list"
        /\ boot'.alone \in BOOLEAN /\ boot'.files = {} /\ queue' = <<>>
    BY <1>4 DEF Crash
  <2>4. RestOk' /\ QueueOk'
    BY <2>1, <2>2, <2>3 DEF Tables, RestOk, QueueOk
  <2>5. QED
    BY <1>4, <2>2, <2>4, Outside DEF Tables, ImagesOk, FilesOk, VmsOk, StatusOk
<1>5. CASE BootList
  <2>1. DOMAIN boot' = DOMAIN boot /\ boot'.alone = boot.alone /\ boot'.pc = "rows" /\ boot'.files = boot.files
    BY <1>5 DEF BootList, Tables, RestOk
  <2>2. QED
    BY <1>5, <2>1, Outside DEF Tables, ImagesOk, FilesOk, VmsOk, StatusOk, RestOk, QueueOk
<1>6. CASE BootRow
  <2>1. DOMAIN boot' = DOMAIN boot /\ boot'.alone = boot.alone /\ boot'.pc \in {"off", "rows", "files"}
        /\ boot'.files \subseteq Images
    <3>1. \/ boot' = boot \/ boot' = [boot EXCEPT !.pc = "off"]
          \/ boot' = [boot EXCEPT !.pc = "files", !.files = {i \in Images : file[i] # None}]
      BY <1>6 DEF BootRow
    <3>2. {i \in Images : file[i] # None} \subseteq Images
      OBVIOUS
    <3> DEFINE F == {i \in Images : file[i] # None}
    <3> HIDE DEF F
    <3>3. boot' = [boot EXCEPT !.pc = "files", !.files = F] =>
             /\ DOMAIN boot' = DOMAIN boot /\ boot'.alone = boot.alone
             /\ boot'.pc = "files" /\ boot'.files = F
      BY DEF Tables, RestOk
    <3>4. boot' = boot \/ boot' = [boot EXCEPT !.pc = "off"] =>
             /\ DOMAIN boot' = DOMAIN boot /\ boot'.alone = boot.alone
             /\ boot'.pc \in {"off", "rows"} /\ boot'.files = boot.files
      BY <1>6 DEF Tables, RestOk, BootRow
    <3>5. QED
      BY <3>1, <3>2, <3>3, <3>4 DEF F, Tables, RestOk
  <2>2. /\ DOMAIN hist' = DOMAIN hist /\ hist'.fine = hist.fine /\ hist'.based = hist.based
        /\ hist'.synced \in BOOLEAN
    BY <1>6 DEF BootRow, Tables, RestOk
  <2>3. QED
    BY <1>6, <2>1, <2>2, Outside DEF Tables, ImagesOk, FilesOk, VmsOk, StatusOk, RestOk, QueueOk
<1>7. CASE BootImage
  <2>1. DOMAIN boot' = {"pc", "ids", "files", "alone"} /\ boot'.alone \in BOOLEAN /\ boot'.pc \in {"off", "files"}
        /\ boot'.files \subseteq Images
    <3>1. CASE boot.files = {}
      <4>1. boot' = [pc |-> "off", ids |-> {}, files |-> {}, alone |-> TRUE]
        BY <1>7, <3>1 DEF BootImage, Idle
      <4>2. DOMAIN boot' = {"pc", "ids", "files", "alone"} /\ boot'.pc = "off" /\ boot'.files = {}
        BY <4>1
      <4>3. boot'.alone = TRUE
        BY <4>1
      <4>4. QED
        BY <4>2, <4>3
    <3>2. CASE boot.files # {}
      <4>1. PICK i : boot' = [boot EXCEPT !.files = @ \ {i}]
        BY <1>7, <3>2 DEF BootImage
      <4>2. QED
        BY <1>7, <4>1 DEF BootImage, Tables, RestOk
    <3>3. QED
      BY <3>1, <3>2
  <2>2. ImagesOk'
    <3>1. img' = img \/ \E i \in boot.files : \E n : img' = [img EXCEPT ![i] =
              [st |-> "row", kind |-> "Base", parent |-> "none", size |-> n]]
      BY <1>7 DEF BootImage
    <3>2. QED
      BY <3>1 DEF Tables, ImagesOk
  <2>3. QED
    BY <1>7, <2>1, <2>2, Outside DEF Tables, FilesOk, VmsOk, StatusOk, RestOk, QueueOk
<1>8. QED
  BY <1>1, <1>2, <1>3, <1>4, <1>5, <1>6, <1>7
-----------------------------------------------------------------------------
(* Containers.                                                             *)
Steady ==
    /\ left.made <= left'.made
    /\ \A c \in 1..left.made : conts'[c].v = conts[c].v /\ (Live(c)' => Live(c))

LEMMA HeldKept ==
    ASSUME Held, Docker, Docker', Steady, NEW a, \A b \in Vms : b # a => act'[b] = act[b],
           \A c \in 1..left.made : conts[c].v # a /\ Live(c) => Live(c)', a \in Vms => HeldBy(a)'
    PROVE  Held'
<1>1. left.made \in Nat /\ left'.made \in Nat
  BY VmAssumption DEF Docker, ContsOk
<1>2. \A c \in 1..left.made : c \in 1..left'.made
  BY <1>1 DEF Steady
<1>3. SUFFICES ASSUME NEW v \in Vms, v # a
               PROVE  HeldBy(v)'
  BY DEF Held
<1>4. HeldBy(v) /\ act'[v] = act[v]
  BY <1>3 DEF Held
<1>5. QED
  BY <1>2, <1>3, <1>4 DEF HeldBy, Steady

LEMMA UniqueKept ==
    ASSUME Unique, Docker, Docker', Steady, left'.made = left.made
    PROVE  Unique'
<1>1. \A c \in Conts : Live(c)' => c \in 1..left.made
  BY VmAssumption DEF Docker, ContsOk, Live, Conts, None
<1>2. QED
  BY <1>1 DEF Unique, Steady

LEMMA SyncedKept ==
    ASSUME Synced, Docker, Docker', Steady, left'.made = left.made, hist'.synced => hist.synced,
           NEW a, \A b \in Vms : b # a => act'[b] = act[b],
           \A c \in 1..left.made : Live(c)' =>
               /\ c \in rows => c \in rows'
               /\ a \in Vms /\ Doing(a, "process", c) => c \in rows' \/ Doing(a, "process", c)',
           \A c \in 1..left.made : ~Live(c)' /\ c \in rows' =>
               \/ Told(c)' \/ (a \in Vms /\ Doing(a, "killed", c)')
               \/ ~Live(c) /\ c \in rows /\ (Told(c) => Told(c)') /\ ~(a \in Vms /\ Doing(a, "killed", c))
    PROVE  Synced'
<1>1. SUFFICES ASSUME hist'.synced, NEW c \in 1..left.made
               PROVE  IF Live(c)' THEN c \in rows' \/ \E v \in Vms : Doing(v, "process", c)'
                      ELSE c \in rows' => Told(c)' \/ \E v \in Vms : Doing(v, "killed", c)'
  BY DEF Synced
<1>2. \A v \in Vms : \A pc : v # a /\ Doing(v, pc, c) => Doing(v, pc, c)'
  BY DEF Doing
<1>3. CASE Live(c)'
  <2>1. Live(c)
    BY <1>3 DEF Steady
  <2>2. c \in rows \/ \E v \in Vms : Doing(v, "process", c)
    BY <1>1, <2>1 DEF Synced
  <2>3. QED
    BY <1>2, <1>3, <2>2
<1>4. CASE ~Live(c)' /\ c \in rows'
  <2>1. CASE ~Live(c) /\ c \in rows /\ (Told(c) => Told(c)') /\ ~(a \in Vms /\ Doing(a, "killed", c))
    <3>1. Told(c) \/ \E v \in Vms : Doing(v, "killed", c)
      BY <1>1, <2>1 DEF Synced
    <3>2. QED
      BY <1>2, <1>4, <2>1, <3>1
  <2>2. QED
    BY <1>4, <2>1
<1>5. QED
  BY <1>3, <1>4

(* A step of a that leaves containers, rows and docker's events alone.     *)
LEMMA ContAside ==
    ASSUME Acts, ContInv, NEW a \in Actors, Moved(a), UNCHANGED <<conts, rows, dock, boot>>,
           left'.made = left.made, hist'.synced = hist.synced,
           a \in Vms => act[a].pc \notin {"process", "killed"},
           a \in Vms /\ act'[a] # None => act'[a].pc \notin {"process", "kill", "killed"}
    PROVE  ContInv'
<1>1. Docker' /\ Steady /\ Unique'
  BY DEF ContInv, Docker, ContsOk, Events, TellsGone, Live, Steady, Unique
<1>2. \A b \in Vms : b # a => act'[b] = act[b]
  BY Disjoint DEF Moved, Others
<1>3. \A c : Live(c)' = Live(c) /\ Told(c)' = Told(c)
  BY DEF Live, Told
<1>4. Held'
  <2>1. a \in Vms => HeldBy(a)'
    BY DEF HeldBy
  <2>2. QED
    BY <1>1, <1>2, <1>3, <2>1, HeldKept DEF ContInv
<1>5. Booting'
  BY <1>3 DEF ContInv, Booting, Moved, Active
<1>6. Synced'
  <2>1. \A c : ~(a \in Vms /\ Doing(a, "process", c)) /\ ~(a \in Vms /\ Doing(a, "killed", c))
    BY DEF Doing
  <2>2. QED
    BY <1>1, <1>2, <1>3, <2>1, SyncedKept DEF ContInv
<1>7. QED
  BY <1>1, <1>4, <1>5, <1>6 DEF ContInv

Mild(a) ==
    /\ UNCHANGED <<conts, rows, dock, boot>>
    /\ left'.made = left.made /\ hist'.synced = hist.synced
    /\ a \in Vms => act[a].pc \notin {"process", "killed"}
    /\ a \in Vms /\ act'[a] # None => act'[a].pc \notin {"process", "kill", "killed"}

LEMMA MildVm ==
    ASSUME Acts, Tables, NEW k \in Conns, VmStep(k)
    PROVE  Mild(k) \/ StartOne(k)
<1>1. k \notin Vms
  BY Disjoint
<1>2. UNCHANGED <<conts, rows, dock, boot, left, hist>> \/ StartOne(k)
  BY DEF VmStep, CheckVm, NewStatus, NewSpec, NewVm, ReadVm, SetStatus, PatchVm, Emit
<1>3. QED
  BY <1>1, <1>2 DEF Mild

LEMMA MildImage ==
    ASSUME Acts, Tables, NEW a \in Actors, ImageStep(a)
    PROVE  Mild(a)
<1>1. UNCHANGED <<conts, rows, dock, boot>>
  BY DEF ImageStep, ReadSource, NameFree, Snapshot, Fill, Filled, ImageRow, Resize, ResizeRow,
         ReadChildren, Unlink, UnRow
<1>2. left'.made = left.made
  <2>1. CASE left' = left
    BY <2>1
  <2>2. CASE Filled(a)
    BY <2>2 DEF Filled, Tables, RestOk
  <2>3. QED
    BY <2>1, <2>2 DEF ImageStep, ReadSource, NameFree, Snapshot, Fill, ImageRow, Resize, ResizeRow,
         ReadChildren, Unlink, UnRow
<1>3. hist'.synced = hist.synced
  <2>1. CASE hist' = hist
    BY <2>1
  <2>2. CASE Filled(a)
    BY <2>2 DEF Filled, Tables, RestOk
  <2>3. CASE ImageRow(a)
    BY <2>3 DEF ImageRow, Tables, RestOk
  <2>4. QED
    BY <2>1, <2>2, <2>3 DEF ImageStep, ReadSource, NameFree, Snapshot, Fill, Resize, ResizeRow,
         ReadChildren, Unlink, UnRow
<1>4. ASSUME a \in Vms
      PROVE  /\ act[a].pc \notin {"process", "killed"}
             /\ act'[a] # None => act'[a].pc \notin {"process", "kill", "killed"}
  <2>1. act[a] # None => act[a].op \in Tasks
    BY <1>4 DEF Acts
  <2>2. ReadChildren(a) \/ Unlink(a) \/ UnRow(a)
    BY <2>1 DEF ImageStep, ReadSource, NameFree, Snapshot, Fill, Filled, ImageRow, Resize, ResizeRow, At, Tasks
  <2>3. Active(a)
    BY <2>2 DEF ReadChildren, Unlink, UnRow, At, Active
  <2>4. act[a].pc \in {"begin", "image", "unlink", "unrow"}
    BY <2>2 DEF ReadChildren, Unlink, UnRow, At
  <2>5. End(a) \/ Go(a, "unlink") \/ Go(a, "unrow") \/ Go(a, "vm")
    BY <2>2 DEF ReadChildren, Unlink, UnRow, Err
  <2>6. Ends(a) \/ Goes(a, "unlink") \/ Goes(a, "unrow") \/ Goes(a, "vm")
    BY <2>3, <2>5, GoDo, EndDo
  <2>7. QED
    BY <2>4, <2>6 DEF Goes, Ends
<1>5. QED
  BY <1>1, <1>2, <1>3, <1>4 DEF Mild

(* What a task does to containers and their rows.                          *)
Heavy(v) ==
    \/ TaskRows(v) /\ act[v].op # "Starting"
    \/ RemoveNamed(v) \/ (Make(v) /\ Named(v) = {}) \/ NewProcess(v)
    \/ StopInstances(v) /\ UNCHANGED act
    \/ Kill(v) /\ act[v].todo # {}
    \/ Killed(v)

LEMMA MildTask ==
    ASSUME Acts, Tables, ContsOk, NEW v \in Vms, TaskMove(v)
    PROVE  Mild(v) \/ Heavy(v)
<1>0. v \in Actors
  BY Disjoint
<1> SUFFICES ASSUME ~Heavy(v) PROVE Mild(v)
  OBVIOUS
<1>1. Active(v)
  BY DEF TaskMove, TaskRead, TaskRows, RemoveNamed, Make, NewProcess, StartInstances,
         StopInstances, Mark, Kill, Killed, ClearVm, ClearSpecs, ClearStatus, At, Active
<1>2. act[v].pc \notin {"process", "killed"}
  BY DEF Heavy, TaskMove, TaskRead, TaskRows, RemoveNamed, Make, NewProcess, StartInstances,
         StopInstances, Mark, Kill, Killed, ClearVm, ClearSpecs, ClearStatus, At
<1>3. CASE TaskRead(v)
  <2>1. UNCHANGED <<conts, rows, dock, boot, left, hist>>
    BY <1>3 DEF TaskRead
  <2>2. CASE Err(v)
    BY <1>0, <2>1, <2>2, <1>2, EndDo DEF Mild, Err, Ends
  <2>3. CASE ~Err(v)
    <3>1. PICK pc \in {"remove", "rows"} : act' = [act EXCEPT ![v].pc = pc, ![v].img = vm[v].img]
      BY <1>3, <2>3 DEF TaskRead
    <3>2. act'[v] = [act[v] EXCEPT !.pc = pc, !.img = vm[v].img] /\ IsFrame(act[v])
      BY <1>0, <1>1, <3>1 DEF Acts, Active
    <3>3. act'[v].pc = pc
      BY <3>2 DEF IsFrame
    <3>4. QED
      BY <2>1, <1>2, <3>3 DEF Mild
  <2>4. QED
    BY <2>2, <2>3
<1>4. ASSUME NEW pc, pc \notin {"process", "kill", "killed"}, Go(v, pc) \/ End(v),
             UNCHANGED <<conts, rows, dock, boot, left, hist>>
      PROVE  Mild(v)
  BY <1>0, <1>1, <1>2, <1>4, GoDo, EndDo DEF Mild, Goes, Ends
<1>5. TaskRows(v) => Mild(v)
  BY <1>4 DEF TaskRows, Heavy
<1>6. Make(v) => Mild(v)
  BY <1>4 DEF Make, Heavy, Err
<1>7. CASE StartInstances(v)
  <2>1. {c \in RowsOf(v) : "io.nanocl.not-init-c" \in VmLabels} = {}
    BY DEF VmLabels
  <2>2. conts' = conts \/ conts' = [c \in Conts |-> conts[c]]
    BY <1>7, <2>1 DEF StartInstances
  <2>3. conts' = conts
    BY <2>2 DEF ContsOk
  <2>4. QED
    BY <1>4, <1>7, <2>3 DEF StartInstances, Err
<1>8. StopInstances(v) => Mild(v)
  BY <1>4 DEF StopInstances, Heavy, Err
<1>9. Mark(v) => Mild(v)
  BY <1>4 DEF Mark, Err
<1>10. Kill(v) => Mild(v)
  BY <1>4 DEF Kill, Heavy
<1>11. ClearVm(v) => Mild(v)
  BY <1>4 DEF ClearVm
<1>12. ClearSpecs(v) => Mild(v)
  BY <1>4 DEF ClearSpecs
<1>13. ClearStatus(v) => Mild(v)
  BY <1>4 DEF ClearStatus
<1>14. QED
  BY <1>3, <1>5, <1>6, <1>7, <1>8, <1>9, <1>10, <1>11, <1>12, <1>13 DEF TaskMove, Heavy
-----------------------------------------------------------------------------
LEMMA EventsGrow ==
    ASSUME Docker, NEW T, Events \subseteq T
    PROVE  dock \in Seq(T)
<1>1. dock \in Seq(Events)
  BY DEF Docker
<1> HIDE DEF Events
<1>2. QED
  BY <1>1

LEMMA EventKnown ==
    ASSUME Docker
    PROVE  \A n \in DOMAIN dock : dock[n] \in Events /\ dock[n].c \in 1..left.made /\ dock[n].c \in Conts
<1>1. dock \in Seq(Events)
  BY DEF Docker
<1>2. ASSUME NEW n \in DOMAIN dock PROVE dock[n] \in Events
  <2> HIDE DEF Events
  <2> QED
    BY <1>1, <1>2
<1>3. QED
  BY <1>2, Known DEF Events

(* What Docker tells of a container that is removed.                       *)
LEMMA DestroyedTold ==
    ASSUME Docker, NEW c \in 1..left.made, dock' = dock \o Destroyed(c), left'.made = left.made
    PROVE  /\ dock' \in Seq(Events)' /\ Told(c)'
           /\ \A d : Told(d) => Told(d)'
           /\ \A n \in DOMAIN dock' : dock'[n].ev = "destroy" =>
                 dock'[n].c = c \/ (n \in DOMAIN dock /\ dock'[n] = dock[n])
<1> DEFINE E == Events
           die == [ev |-> "die", c |-> c]
           des == [ev |-> "destroy", c |-> c]
<1>0. die \in E /\ des \in E /\ Events' = E /\ dock \in Seq(E)
  BY DEF Events, Docker
<1>a. des.ev = "destroy" /\ des.c = c /\ die.c = c
  OBVIOUS
<1> DEFINE t == Destroyed(c)
<1>1. /\ t \in Seq(E) /\ Len(t) \in 1..2 /\ t[Len(t)] = des
      /\ \A n \in 1..Len(t) : t[n] = die \/ t[n] = des
  <2>1. t = (IF conts[c].st = "up" THEN <<die>> ELSE <<>>) \o <<des>>
    BY DEF Destroyed
  <2> HIDE DEF die, des, E, t
  <2>2. <<die>> \in Seq(E) /\ <<des>> \in Seq(E) /\ Len(<<die>>) = 1 /\ Len(<<des>>) = 1
        /\ <<die>>[1] = die /\ <<des>>[1] = des
    BY <1>0
  <2>3. CASE conts[c].st = "up"
    <3>1. t = <<die>> \o <<des>>
      BY <2>1, <2>3
    <3>2. /\ t \in Seq(E) /\ Len(t) = Len(<<die>>) + Len(<<des>>)
          /\ \A i \in 1..(Len(<<die>>) + Len(<<des>>)) :
                t[i] = IF i <= Len(<<die>>) THEN <<die>>[i] ELSE <<des>>[i - Len(<<die>>)]
      BY <2>2, <3>1, ConcatProperties
    <3>3. Len(t) = 2 /\ t[1] = die /\ t[2] = des
      BY <2>2, <3>2
    <3>4. QED
      BY <3>2, <3>3
  <2>4. CASE conts[c].st # "up"
    <3>1. t = <<des>>
      BY <2>1, <2>2, <2>4, ConcatEmptySeq
    <3>2. QED
      BY <2>2, <3>1
  <2>5. QED
    BY <2>3, <2>4
<1> HIDE DEF E, die, des, t
<1>2. /\ dock' \in Seq(E) /\ DOMAIN dock \subseteq DOMAIN dock'
      /\ \A n \in DOMAIN dock : dock'[n] = dock[n]
      /\ \A n \in DOMAIN dock' : n \in DOMAIN dock \/ dock'[n] = die \/ dock'[n] = des
      /\ \E n \in DOMAIN dock' : dock'[n] = des
  <2>1. dock' = dock \o t /\ dock \in Seq(E) /\ t \in Seq(E)
    BY <1>0, <1>1 DEF t
  <2>2. /\ dock' \in Seq(E) /\ Len(dock') = Len(dock) + Len(t)
        /\ \A i \in 1..(Len(dock) + Len(t)) : dock'[i] = IF i <= Len(dock) THEN dock[i] ELSE t[i - Len(dock)]
    BY <2>1, ConcatProperties
  <2>3. Len(dock) \in Nat /\ DOMAIN dock = 1..Len(dock) /\ DOMAIN dock' = 1..Len(dock')
    BY <2>1, <2>2
  <2> DEFINE m == Len(dock)
             l == Len(t)
  <2>4. m \in Nat /\ l \in 1..2 /\ DOMAIN dock = 1..m /\ DOMAIN dock' = 1..(m + l)
    BY <1>1, <2>2, <2>3
  <2>5. /\ \A i \in 1..(m + l) : dock'[i] = IF i <= m THEN dock[i] ELSE t[i - m]
        /\ t[l] = des /\ \A n \in 1..l : t[n] = die \/ t[n] = des
    BY <1>1, <2>2
  <2> HIDE DEF m, l
  <2>6. /\ \A i \in 1..(m + l) : i \in 1..m \/ (i - m \in 1..l /\ ~(i <= m))
        /\ 1..m \subseteq 1..(m + l) /\ m + l \in 1..(m + l) /\ ~(m + l <= m) /\ (m + l) - m = l
    BY <2>4
  <2>7. dock'[m + l] = des
    BY <2>5, <2>6
  <2>8. \A i \in 1..m : dock'[i] = dock[i]
    BY <2>4, <2>5, <2>6
  <2>9. \A i \in 1..(m + l) : i \in 1..m \/ dock'[i] = die \/ dock'[i] = des
    BY <2>5, <2>6
  <2>10. QED
    BY <2>2, <2>4, <2>6, <2>7, <2>8, <2>9
<1>3. QED
  BY <1>0, <1>a, <1>2 DEF Told

LEMMA AppendTold ==
    ASSUME Docker, NEW e \in Events, e.ev # "destroy", dock' = Append(dock, e), left'.made = left.made
    PROVE  /\ dock' \in Seq(Events)'
           /\ \A d : Told(d) => Told(d)'
           /\ \A n \in DOMAIN dock' : dock'[n].ev = "destroy" =>
                 n \in DOMAIN dock /\ dock'[n] = dock[n]
<1>0. Events' = Events /\ dock \in Seq(Events)
  BY DEF Events, Docker
<1> HIDE DEF Events
<1>1. /\ Len(dock) \in Nat /\ DOMAIN dock = 1..Len(dock) /\ DOMAIN dock' = 1..(Len(dock) + 1)
      /\ dock'[Len(dock) + 1] = e /\ dock' \in Seq(Events)
      /\ \A n \in DOMAIN dock : dock'[n] = dock[n]
  BY <1>0
<1>2. DOMAIN dock \subseteq DOMAIN dock' /\ \A n \in DOMAIN dock' : n \in DOMAIN dock \/ dock'[n] = e
  BY <1>1
<1>3. QED
  BY <1>0, <1>1, <1>2 DEF Told

(* A container that is there goes up or down.                              *)
LEMMA ContFlip ==
    ASSUME Acts, ContInv, NEW c \in 1..left.made, Live(c), NEW s \in {"up", "down"},
           conts' = [conts EXCEPT ![c].st = s], NEW e \in Events, e.ev # "destroy",
           dock' = Append(dock, e), UNCHANGED <<rows, boot>>, left'.made = left.made,
           hist'.synced = hist.synced, \A v \in Vms : act'[v] = act[v],
           \A a \in Actors : act'[a] = act[a] \/ act'[a] = None
    PROVE  ContInv'
<1>1. conts' = [conts EXCEPT ![c] = [conts[c] EXCEPT !.st = s]]
  OBVIOUS
<1>2. /\ c \in Conts /\ DOMAIN conts[c] = {"st", "v"} /\ conts[c].v \in Vms
  BY Known DEF ContInv
<1>3. /\ DOMAIN conts' = Conts /\ conts' = [d \in Conts |-> conts'[d]]
      /\ \A d \in Conts : d # c => conts'[d] = conts[d]
      /\ DOMAIN conts'[c] = {"st", "v"} /\ conts'[c].v = conts[c].v /\ conts'[c].st = s
  BY <1>1, <1>2 DEF ContInv, Docker, ContsOk
<1>4. \A d \in Conts : Live(d)' = Live(d) /\ (d <= left.made => conts'[d].v = conts[d].v)
  BY <1>3 DEF Live
<1>5. Docker'
  <2>1. ContsOk'
    BY <1>2, <1>3 DEF ContInv, Docker, ContsOk
  <2>2. TellsGone'
    <3>1. ASSUME NEW n \in DOMAIN dock, dock[n].ev = "destroy"
          PROVE  conts'[dock[n].c].st \notin {"down", "up"}
      BY <1>4, <3>1, EventKnown DEF ContInv, Docker, TellsGone, Live
    <3>2. QED
      BY <3>1, AppendTold DEF ContInv, TellsGone, Live
  <2>3. QED
    BY <2>1, <2>2, AppendTold DEF ContInv, Docker
<1>6. Steady /\ left.made \in Nat
  BY <1>4, Known DEF ContInv, Steady
<1>7. Unique'
  BY <1>5, <1>6, UniqueKept DEF ContInv
<1>8. \A d \in 1..left.made : Live(d)' = Live(d)
  BY <1>4, Known DEF ContInv
<1>9. Held'
  BY <1>5, <1>6, <1>8, HeldKept DEF ContInv, HeldBy, Held, Steady
<1>10. Booting'
  <2>1. {d \in Conts : Live(d)'} = {d \in Conts : Live(d)}
    BY <1>4
  <2>2. QED
    BY <2>1 DEF ContInv, Booting
<1>11. Synced'
  <2>1. "none" \notin Vms
    BY Disjoint
  <2>2. \A d : Told(d) => Told(d)'
    BY AppendTold DEF ContInv
  <2>3. QED
    BY <1>5, <1>6, <1>8, <2>1, <2>2, SyncedKept DEF ContInv
<1>12. QED
  BY <1>5, <1>7, <1>9, <1>10, <1>11 DEF ContInv
-----------------------------------------------------------------------------
(* A container of the task's vm is removed.                                *)
LEMMA ContGone ==
    ASSUME Acts, ContInv, NEW v \in Vms, Moved(v), NEW c \in 1..left.made, conts[c].v = v,
           DOMAIN conts' = Conts, conts' = [d \in Conts |-> conts'[d]],
           \A d \in Conts : d # c => conts'[d] = conts[d],
           DOMAIN conts'[c] = {"st", "v"}, conts'[c].v = v, conts'[c].st = "gone",
           dock' = dock \o Destroyed(c) \/ (dock' = dock /\ ~Live(c)),
           UNCHANGED <<rows, boot>>, left'.made = left.made, hist'.synced = hist.synced,
           act[v].pc \notin {"process", "killed"}, HeldBy(v)', Told(c)' \/ Doing(v, "killed", c)'
    PROVE  ContInv'
<1>1. c \in Conts /\ left.made \in Nat
  BY Known DEF ContInv
<1>2. ~Live(c)' /\ \A d \in Conts : d # c => Live(d)' = Live(d)
  BY DEF Live
<1>3. /\ dock' \in Seq(Events)' /\ \A d : Told(d) => Told(d)'
      /\ \A n \in DOMAIN dock' : dock'[n].ev = "destroy" =>
            dock'[n].c = c \/ (n \in DOMAIN dock /\ dock'[n] = dock[n])
  <2>1. CASE dock' = dock \o Destroyed(c)
    BY <2>1, DestroyedTold DEF ContInv
  <2>2. CASE dock' = dock
    BY <2>2 DEF ContInv, Docker, Events, Told
  <2>3. QED
    BY <2>1, <2>2
<1>4. Docker'
  <2>1. ContsOk'
    BY <1>1 DEF ContInv, Docker, ContsOk
  <2>2. TellsGone'
    <3>1. ASSUME NEW n \in DOMAIN dock, dock[n].ev = "destroy"
          PROVE  conts'[dock[n].c].st \notin {"down", "up"}
      BY <1>2, <3>1, EventKnown DEF ContInv, Docker, TellsGone, Live
    <3>2. QED
      BY <1>3, <3>1 DEF TellsGone, Live
  <2>3. QED
    BY <1>3, <2>1, <2>2 DEF ContInv, Docker
<1>5. Steady
  BY <1>1, <1>2, Known DEF ContInv, Steady
<1>6. \A b \in Vms : b # v => act'[b] = act[b]
  BY Disjoint DEF Moved, Others
<1>7. Held'
  <2>1. \A d \in 1..left.made : conts[d].v # v /\ Live(d) => Live(d)'
    BY <1>2, Known DEF ContInv
  <2>2. QED
    BY <1>4, <1>5, <1>6, <2>1, HeldKept DEF ContInv
<1>8. Booting'
  BY Disjoint DEF ContInv, Booting, Moved, Active
<1>9. Synced'
  <2>1. ASSUME NEW d \in 1..left.made, ~Live(d)', d \in rows'
        PROVE  \/ Told(d)' \/ (v \in Vms /\ Doing(v, "killed", d)')
               \/ ~Live(d) /\ d \in rows /\ (Told(d) => Told(d)') /\ ~(v \in Vms /\ Doing(v, "killed", d))
    BY <1>2, <1>3, <2>1, Known DEF ContInv, Doing
  <2>2. \A d \in 1..left.made : Live(d)' =>
               /\ d \in rows => d \in rows'
               /\ v \in Vms /\ Doing(v, "process", d) => d \in rows' \/ Doing(v, "process", d)'
    BY DEF Doing
  <2>3. QED
    BY <1>4, <1>5, <1>6, <2>1, <2>2, SyncedKept DEF ContInv
<1>10. QED
  BY <1>4, <1>5, <1>7, <1>8, <1>9, UniqueKept DEF ContInv

LEMMA ContRemoveNamed ==
    ASSUME Acts, Tables, ContInv, NEW v \in Vms, RemoveNamed(v)
    PROVE  ContInv'
<1>0. v \in Actors /\ Active(v) /\ act[v].pc = "remove"
  BY Disjoint DEF RemoveNamed, At, Active
<1>1. Moved(v) /\ Goes(v, "make")
  BY <1>0, GoMoves, GoDo DEF RemoveNamed
<1>2. CASE Named(v) = {}
  <2>1. conts' = [c \in Conts |-> conts[c]] /\ dock' = dock
    BY <1>2 DEF RemoveNamed
  <2>2. conts' = conts
    BY <2>1 DEF ContInv, Docker, ContsOk
  <2>3. QED
    BY <1>0, <1>1, <2>1, <2>2, ContAside DEF RemoveNamed, Goes
<1>3. CASE Named(v) # {}
  <2>0. dock' = dock \o Destroyed(CHOOSE c \in Named(v) : TRUE) /\ (CHOOSE c \in Named(v) : TRUE) \in Named(v)
    BY <1>3 DEF RemoveNamed
  <2>1. PICK c \in Named(v) : dock' = dock \o Destroyed(c)
    BY <2>0
  <2>2. c \in 1..left.made /\ conts[c].v = v /\ c \in Conts /\ Live(c)
    BY <2>1, VmAssumption DEF Named, ContInv, Docker, ContsOk, Conts, None, Live
  <2>3. \A d \in Named(v) : d = c
    BY <2>1, <2>2 DEF ContInv, Unique, Named, Live
  <2>4. conts' = [d \in Conts |-> IF d \in Named(v) THEN [conts[d] EXCEPT !.st = "gone"] ELSE conts[d]]
    BY DEF RemoveNamed
  <2>5. /\ DOMAIN conts' = Conts /\ conts' = [d \in Conts |-> conts'[d]]
        /\ \A d \in Conts : d # c => conts'[d] = conts[d]
        /\ conts'[c] = [conts[c] EXCEPT !.st = "gone"]
    BY <2>1, <2>2, <2>3, <2>4
  <2>6. DOMAIN conts'[c] = {"st", "v"} /\ conts'[c].v = v /\ conts'[c].st = "gone"
    BY <2>2, <2>5, Known DEF ContInv
  <2>7. Told(c)'
    BY <2>1, <2>2, DestroyedTold DEF ContInv, RemoveNamed
  <2>8. HeldBy(v)'
    BY <1>1 DEF HeldBy, Goes
  <2>9. UNCHANGED <<rows, boot, left, hist>>
    BY DEF RemoveNamed
  <2>10. QED
    BY <1>0, <1>1, <2>1, <2>2, <2>5, <2>6, <2>7, <2>8, <2>9, ContGone
<1>4. QED
  BY <1>2, <1>3

LEMMA ContKill ==
    ASSUME Acts, Tables, ContInv, NEW v \in Vms, Kill(v), act[v].todo # {}
    PROVE  ContInv'
<1>0. v \in Actors /\ Active(v) /\ act[v].pc = "kill" /\ IsFrame(act[v])
  BY Disjoint DEF Kill, At, Active, Acts
<1>1. Moved(v)
  BY Disjoint, TaskMoves DEF TaskMove
<1>2. PICK c \in act[v].todo :
         /\ act' = [act EXCEPT ![v].pc = "killed", ![v].c = c, ![v].todo = @ \ {c}]
         /\ conts' = [conts EXCEPT ![c].st = "gone"]
         /\ dock' = IF conts[c].st = "gone" THEN dock ELSE dock \o Destroyed(c)
  BY DEF Kill
<1>3. c \in 1..left.made /\ conts[c].v = v /\ \A d \in act[v].todo : d \in 1..left.made /\ conts[d].v = v
  BY <1>0 DEF ContInv, Held, HeldBy, Active
<1>4. c \in Conts /\ DOMAIN conts[c] = {"st", "v"}
  BY <1>3, Known DEF ContInv
<1>5. act'[v] = [act[v] EXCEPT !.pc = "killed", !.c = c, !.todo = @ \ {c}]
  BY <1>0, <1>2 DEF Acts
<1>6. act'[v] # None /\ act'[v].pc = "killed" /\ act'[v].c = c /\ act'[v].todo \subseteq act[v].todo
  BY <1>0, <1>5 DEF IsFrame, None
<1>7. conts' = [conts EXCEPT ![c] = [conts[c] EXCEPT !.st = "gone"]]
  BY <1>2
<1>8. /\ DOMAIN conts' = Conts /\ conts' = [d \in Conts |-> conts'[d]]
      /\ \A d \in Conts : d # c => conts'[d] = conts[d]
      /\ conts'[c] = [conts[c] EXCEPT !.st = "gone"]
  BY <1>4, <1>7 DEF ContInv, Docker, ContsOk
<1>9. DOMAIN conts'[c] = {"st", "v"} /\ conts'[c].v = v /\ conts'[c].st = "gone"
  BY <1>3, <1>4, <1>8
<1>10. UNCHANGED <<rows, boot, left, hist>>
  BY DEF Kill
<1>11. HeldBy(v)'
  <2>1. \A d \in act[v].todo : conts'[d].v = v
    BY <1>3, <1>4, <1>8, <1>9, Known DEF ContInv
  <2>2. QED
    BY <1>3, <1>6, <1>9, <1>10, <2>1 DEF HeldBy, Live
<1>12. Doing(v, "killed", c)'
  BY <1>6 DEF Doing
<1>13. dock' = dock \o Destroyed(c) \/ (dock' = dock /\ ~Live(c))
  BY <1>2 DEF Live
<1>14. QED
  BY <1>0, <1>1, <1>3, <1>8, <1>9, <1>10, <1>11, <1>12, <1>13, ContGone

LEMMA ContMake ==
    ASSUME Acts, Tables, ContInv, NEW v \in Vms, Make(v), Named(v) = {}
    PROVE  ContInv'
<1>c. PICK c : c = left.made + 1
  OBVIOUS
<1>0. v \in Actors /\ Active(v) /\ act[v].pc = "make" /\ IsFrame(act[v])
  BY Disjoint DEF Make, At, Active, Acts
<1>1. \A b \in Actors : b # v => act'[b] = act[b]
  BY <1>0, Disjoint, TaskMoves DEF TaskMove, Moved, Others
<1>2. left.made \in Nat /\ left.made < MaxConts /\ MaxConts \in Nat /\ left'.made = c
  <2>1. left' = [left EXCEPT !.made = c] /\ left.made < MaxConts
    BY <1>c DEF Make
  <2>2. QED
    BY <2>1, Known, VmAssumption DEF ContInv, Tables, RestOk
<1>3. /\ c \in Conts /\ c \notin 1..left.made /\ left.made <= left'.made /\ 1..left.made \subseteq 1..left'.made
      /\ c \in 1..left'.made /\ \A d \in 1..left'.made : d # c => d \in 1..left.made
      /\ \A d \in Conts : d <= left'.made <=> (d = c \/ d <= left.made)
      /\ left'.made \in 0..MaxConts /\ ~(c <= left.made)
  BY <1>c, <1>2 DEF Conts
<1>4. /\ DOMAIN conts' = Conts /\ conts' = [d \in Conts |-> conts'[d]]
      /\ conts'[c] = [st |-> "down", v |-> v] /\ \A d \in Conts : d # c => conts'[d] = conts[d]
  <2>1. conts' = [conts EXCEPT ![c] = [st |-> "down", v |-> v]]
    BY <1>c DEF Make
  <2>2. QED
    BY <1>3, <2>1 DEF ContInv, Docker, ContsOk
<1>5. act'[v] # None /\ act'[v].pc = "process" /\ act'[v].c = c
  <2>1. act' = [act EXCEPT ![v].pc = "process", ![v].c = c]
    BY <1>c DEF Make
  <2>2. act'[v] = [act[v] EXCEPT !.pc = "process", !.c = c]
    BY <1>0, <2>1 DEF Acts
  <2>3. QED
    BY <1>0, <2>2 DEF IsFrame, None
<1>6. UNCHANGED <<rows, dock, boot, hist>>
  BY DEF Make
<1>7. /\ \A d \in Conts : d # c => Live(d)' = Live(d)
      /\ \A d \in 1..left.made : d \in Conts /\ d # c
      /\ ~Live(c) /\ Live(c)' /\ \A d \in Conts : Live(d) => d <= left.made
  <2>1. \A d \in 1..left.made : d \in Conts /\ d # c
    BY <1>3, Known DEF ContInv
  <2>2. \A d \in Conts : Live(d) => d <= left.made
    BY DEF Live, ContInv, Docker, ContsOk, None
  <2>3. Live(c)' /\ \A d \in Conts : d # c => Live(d)' = Live(d)
    BY <1>3, <1>4 DEF Live
  <2>4. QED
    BY <1>3, <2>1, <2>2, <2>3
<1>8. Docker'
  <2>1. ContsOk'
    BY <1>3, <1>4 DEF ContInv, Docker, ContsOk
  <2>2. dock' \in Seq(Events)'
    <3>1. Events \subseteq Events'
      BY <1>3 DEF Events
    <3>2. dock \in Seq(Events')
      BY <3>1, EventsGrow DEF ContInv
    <3>3. QED
      BY <1>6, <3>2
  <2>3. TellsGone'
    <3>1. ASSUME NEW n \in DOMAIN dock, dock[n].ev = "destroy"
          PROVE  conts'[dock[n].c].st \notin {"down", "up"}
      BY <1>7, <3>1, EventKnown DEF ContInv, Docker, TellsGone, Live
    <3>2. QED
      BY <1>6, <3>1 DEF TellsGone, Live
  <2>4. rows' \subseteq 1..left'.made
    BY <1>3, <1>6 DEF ContInv, Docker
  <2>5. QED
    BY <2>1, <2>2, <2>3, <2>4 DEF Docker
<1>9. Steady
  BY <1>3, <1>4, <1>7 DEF Steady
<1>10. Unique'
  <2>1. \A d \in Conts : Live(d) => conts[d].v # v
    BY DEF Named, Live
  <2>2. SUFFICES ASSUME NEW d \in Conts, NEW e \in Conts, Live(d)', Live(e)', conts'[d].v = conts'[e].v
                 PROVE  d = e
    BY DEF Unique
  <2>3. CASE d = c \/ e = c
    BY <1>4, <1>7, <2>1, <2>2, <2>3
  <2>4. CASE d # c /\ e # c
    BY <1>4, <1>7, <2>2, <2>4 DEF ContInv, Unique
  <2>5. QED
    BY <2>3, <2>4
<1>11. Held'
  <2>1. HeldBy(v)'
    BY <1>3, <1>4, <1>5, <1>7 DEF HeldBy
  <2>2. \A b \in Vms : b # v => act'[b] = act[b]
    BY <1>1, Disjoint
  <2>3. QED
    BY <1>7, <1>8, <1>9, <2>1, <2>2, HeldKept DEF ContInv
<1>12. Booting'
  <2>1. boot.pc \in {"list", "rows"} => ~boot.alone
    BY <1>0 DEF ContInv, Booting, Active
  <2>2. QED
    BY <1>3, <1>6, <2>1 DEF ContInv, Booting
<1>13. Synced'
  <2>1. SUFFICES ASSUME hist'.synced, NEW d \in 1..left'.made
                 PROVE  IF Live(d)' THEN d \in rows' \/ \E w \in Vms : Doing(w, "process", d)'
                        ELSE d \in rows' => Told(d)' \/ \E w \in Vms : Doing(w, "killed", d)'
    BY DEF Synced
  <2>2. CASE d = c
    BY <1>5, <1>7, <2>2 DEF Doing
  <2>3. CASE d # c
    <3>1. d \in 1..left.made /\ Live(d)' = Live(d) /\ Told(d)' = Told(d) /\ rows' = rows
      BY <1>3, <1>6, <1>7, <2>3 DEF Told
    <3>2. \A w \in Vms, pc \in {"process", "killed"} : Doing(w, pc, d) => Doing(w, pc, d)'
      BY <1>0, <1>1, Disjoint DEF Doing
    <3>3. QED
      BY <1>6, <2>1, <3>1, <3>2 DEF ContInv, Synced
  <2>4. QED
    BY <2>2, <2>3
<1>14. QED
  BY <1>8, <1>10, <1>11, <1>12, <1>13 DEF ContInv

(* A step of the task v that leaves the containers alone.                  *)
LEMMA ContRows ==
    ASSUME Acts, ContInv, NEW v \in Vms, Moved(v), UNCHANGED <<conts, dock, boot>>,
           left'.made = left.made, hist'.synced = hist.synced, HeldBy(v)',
           rows' \subseteq 1..left.made,
           \A c \in 1..left.made : Live(c) =>
               (c \in rows => c \in rows') /\ (Doing(v, "process", c) => c \in rows'),
           \A c \in 1..left.made : ~Live(c) /\ c \in rows' => c \in rows /\ ~Doing(v, "killed", c)
    PROVE  ContInv'
<1>1. \A c : Live(c)' = Live(c) /\ Told(c)' = Told(c)
  BY DEF Live, Told
<1>2. Docker' /\ Steady /\ Unique'
  BY DEF ContInv, Docker, ContsOk, Events, TellsGone, Live, Steady, Unique
<1>3. \A b \in Vms : b # v => act'[b] = act[b]
  BY Disjoint DEF Moved, Others
<1>4. Held'
  BY <1>1, <1>2, <1>3, HeldKept DEF ContInv
<1>5. Booting'
  BY <1>1, Disjoint DEF ContInv, Booting, Moved, Active
<1>6. Synced'
  BY <1>1, <1>2, <1>3, SyncedKept DEF ContInv
<1>7. QED
  BY <1>2, <1>4, <1>5, <1>6 DEF ContInv

LEMMA ContHeavy ==
    ASSUME Acts, Tables, ContInv, NEW v \in Vms, Heavy(v)
    PROVE  ContInv'
<1>0. v \in Actors /\ left.made \in Nat /\ rows \subseteq 1..left.made
  BY Disjoint, Known DEF ContInv, Docker
<1>1. Moved(v)
  BY TaskMoves DEF Heavy, TaskMove
<1>a. IsFrame(act[v]) /\ Active(v)
  BY <1>0, <1>1 DEF Moved, Active, Acts
<1>2. CASE TaskRows(v) /\ act[v].op # "Starting"
  <2>1. act' = [act EXCEPT ![v].pc = "kill", ![v].todo = RowsOf(v)] /\ UNCHANGED <<conts, rows, dock, boot, left, hist>>
        /\ act[v].pc = "rows"
    BY <1>2 DEF TaskRows, At
  <2>2. act'[v] = [act[v] EXCEPT !.pc = "kill", !.todo = RowsOf(v)]
    BY <1>0, <2>1 DEF Acts
  <2>3. act'[v].pc = "kill" /\ act'[v].todo = RowsOf(v)
    BY <1>a, <2>2 DEF IsFrame
  <2>4. HeldBy(v)'
    BY <1>0, <2>1, <2>3 DEF HeldBy, RowsOf
  <2>5. QED
    BY <1>0, <1>1, <2>1, <2>4, ContRows DEF Doing
<1>3. CASE NewProcess(v)
  <2>1. /\ act[v].pc = "process" /\ rows' = rows \cup {act[v].c} /\ Goes(v, "run")
        /\ UNCHANGED <<conts, dock, boot, left, hist>>
    BY <1>0, <1>3, <1>a, GoDo DEF NewProcess, At
  <2>2. act[v].c \in 1..left.made /\ Live(act[v].c)
    BY <1>a, <2>1 DEF ContInv, Held, HeldBy, Active
  <2>3. HeldBy(v)'
    BY <2>1 DEF HeldBy, Goes
  <2>4. QED
    BY <1>0, <1>1, <2>1, <2>2, <2>3, ContRows DEF Doing
<1>4. CASE Killed(v)
  <2>1. /\ act[v].pc = "killed" /\ rows' = rows \ {act[v].c} /\ Goes(v, "kill")
        /\ UNCHANGED <<conts, dock, boot, left, hist>>
    BY <1>0, <1>4, <1>a, GoDo DEF Killed, At
  <2>2. act[v].c \in 1..left.made /\ ~Live(act[v].c)
    BY <1>a, <2>1 DEF ContInv, Held, HeldBy, Active
  <2>3. HeldBy(v)'
    BY <1>a, <2>1 DEF HeldBy, Goes, ContInv, Held, Active
  <2>4. QED
    BY <1>0, <1>1, <2>1, <2>2, <2>3, ContRows DEF Doing
<1>5. CASE StopInstances(v) /\ UNCHANGED act
  <2>1. CASE UNCHANGED <<conts, dock>>
    <3>1. UNCHANGED <<conts, rows, dock, boot, left, hist, act>> /\ act[v].pc = "begin"
      BY <1>5, <2>1 DEF StopInstances, At
    <3>2. HeldBy(v)'
      BY <3>1 DEF HeldBy
    <3>3. QED
      BY <1>0, <1>1, <3>1, <3>2, ContRows DEF Doing
  <2>2. CASE ~UNCHANGED <<conts, dock>>
    <3>1. PICK c \in RowsOf(v) : /\ conts[c].st = "up" /\ conts' = [conts EXCEPT ![c].st = "down"]
                                 /\ dock' = Append(dock, [ev |-> "die", c |-> c])
      BY <1>5, <2>2 DEF StopInstances
    <3>2. UNCHANGED <<rows, boot, left, hist, act>>
      BY <1>5 DEF StopInstances
    <3>3. c \in 1..left.made /\ Live(c)
      BY <1>0, <3>1 DEF RowsOf, Live
    <3>4. [ev |-> "die", c |-> c] \in Events /\ [ev |-> "die", c |-> c].ev # "destroy"
      BY <3>3 DEF Events
    <3>5. QED
      BY <3>1, <3>2, <3>3, <3>4, ContFlip
  <2>3. QED
    BY <2>1, <2>2
<1>6. QED
  BY <1>2, <1>3, <1>4, <1>5, ContRemoveNamed, ContMake, ContKill DEF Heavy

LEMMA ContStep ==
    ASSUME Acts, Tables, ContInv, NEW a \in Actors, Step(a)
    PROVE  ContInv'
<1>0. Moved(a) /\ (a \in Conns => a \notin Vms) /\ left.made \in Nat /\ rows \subseteq 1..left.made
  BY StepMoves, Disjoint, Known DEF ContInv, Docker
<1>1. CASE Mild(a)
  BY <1>0, <1>1, ContAside DEF Mild
<1>2. CASE a \in Conns /\ StartOne(a)
  <2>1. Ends(a) /\ UNCHANGED <<rows, boot, left, hist>>
    BY <1>2, EndDo DEF StartOne
  <2>2. CASE UNCHANGED <<conts, dock>>
    BY <1>0, <1>2, <2>1, <2>2, ContAside
  <2>3. CASE ~UNCHANGED <<conts, dock>>
    <3>1. PICK c \in RowsOf(act[a].v) : /\ conts[c].st = "down" /\ conts' = [conts EXCEPT ![c].st = "up"]
                                        /\ dock' = Append(dock, [ev |-> "start", c |-> c])
      BY <1>2, <2>3 DEF StartOne
    <3>2. c \in 1..left.made /\ Live(c)
      BY <1>0, <3>1 DEF RowsOf, Live
    <3>3. [ev |-> "start", c |-> c] \in Events /\ [ev |-> "start", c |-> c].ev # "destroy"
      BY <3>2 DEF Events
    <3>4. /\ \A v \in Vms : act'[v] = act[v]
          /\ \A b \in Actors : act'[b] = act[b] \/ act'[b] = None
      BY <1>2, <2>1, Disjoint DEF Ends, Others
    <3>5. QED
      BY <2>1, <3>1, <3>2, <3>3, <3>4, ContFlip
  <2>4. QED
    BY <2>2, <2>3
<1>3. CASE Fail(a)
  <2>1. /\ Ends(a) /\ UNCHANGED <<conts, rows, dock, boot>> /\ act[a].pc # "killed"
    BY <1>3, EndDo DEF Fail, Err
  <2>2. left'.made = left.made /\ hist'.synced = (hist.synced /\ act[a].pc # "process")
    BY <1>3 DEF Fail, Tables, RestOk
  <2>3. CASE act[a].pc # "process"
    BY <1>0, <2>1, <2>2, <2>3, ContAside DEF Ends, Tables, RestOk
  <2>4. CASE act[a].pc = "process"
    <3>1. Docker' /\ Steady /\ Unique' /\ \A c : Live(c)' = Live(c)
      BY <2>1, <2>2 DEF ContInv, Docker, ContsOk, Events, TellsGone, Live, Steady, Unique
    <3>2. Held'
      <4>1. a \in Vms => HeldBy(a)'
        BY <2>1 DEF Ends, HeldBy
      <4>2. \A b \in Vms : b # a => act'[b] = act[b]
        BY <2>1, Disjoint DEF Ends, Others
      <4>3. QED
        BY <3>1, <4>1, <4>2, HeldKept DEF ContInv
    <3>3. ~hist'.synced
      BY <2>2, <2>4
    <3>4. Booting' /\ Synced'
      <4>1. boot.pc \in {"list", "rows"} => ~boot.alone
        BY <1>0 DEF ContInv, Booting, Moved, Active
      <4>2. QED
        BY <2>1, <2>2, <3>3, <4>1 DEF ContInv, Booting, Synced
    <3>5. QED
      BY <3>1, <3>2, <3>4 DEF ContInv
  <2>5. QED
    BY <2>3, <2>4
<1>4. CASE a \in Vms /\ Heavy(a)
  BY <1>4, ContHeavy
<1>5. QED
  BY <1>1, <1>2, <1>3, <1>4, MildVm, MildImage, MildTask DEF Step, ContInv, Docker

LEMMA ContBegun ==
    ASSUME Acts, ContInv, NEW a \in Actors, NEW f, Begun(a, f), UNCHANGED <<conts, rows, dock>>,
           left'.made = left.made
    PROVE  ContInv'
<1>1. \A c : Live(c)' = Live(c) /\ Told(c)' = Told(c)
  BY DEF Live, Told
<1>2. Docker' /\ Steady /\ Unique'
  BY Known DEF ContInv, Docker, ContsOk, Events, TellsGone, Live, Steady, Unique
<1>3. \A b \in Vms : b # a => act'[b] = act[b]
  BY Disjoint DEF Begun, Others
<1>4. act[a] = None /\ act'[a].pc = "begin" /\ hist'.synced = hist.synced
  BY DEF Begun, Starts
<1>5. Held'
  <2>1. a \in Vms => HeldBy(a)'
    BY <1>4 DEF HeldBy
  <2>2. QED
    BY <1>1, <1>2, <1>3, <2>1, HeldKept DEF ContInv
<1>6. Booting'
  <2>1. boot'.pc = boot.pc /\ boot'.ids = boot.ids /\ (boot.pc # "off" => ~boot'.alone)
    BY DEF Begun
  <2>2. QED
    BY <1>4, <2>1 DEF ContInv, Booting
<1>7. Synced'
  <2>1. \A c, pc : ~Doing(a, pc, c)
    BY <1>4 DEF Doing
  <2>2. QED
    BY <1>1, <1>2, <1>3, <1>4, <2>1, SyncedKept DEF ContInv
<1>8. QED
  BY <1>2, <1>5, <1>6, <1>7 DEF ContInv

LEMMA ContAnalyse ==
    ASSUME Acts, Tables, ContInv, Analyse
    PROVE  ContInv'
<1> DEFINE E == Events
<1>0. dock # <<>> /\ dock' = Tail(dock) /\ dock \in Seq(E) /\ E' = E
      /\ UNCHANGED <<conts, act, boot, hist, left>>
  BY Outside DEF Analyse, ContInv, Docker, Events
<1> HIDE DEF E
<1>1. /\ dock' \in Seq(E) /\ 1 \in DOMAIN dock /\ Head(dock) = dock[1]
      /\ \A n \in DOMAIN dock' : n + 1 \in DOMAIN dock /\ dock'[n] = dock[n + 1]
      /\ \A n \in DOMAIN dock : n = 1 \/ (n - 1 \in DOMAIN dock' /\ dock'[n - 1] = dock[n])
  BY <1>0
<1>2. rows' = IF dock[1].ev = "destroy" THEN rows \ {dock[1].c} ELSE rows
  BY <1>1 DEF Analyse
<1>3. \A c : Live(c)' = Live(c)
  BY <1>0 DEF Live
<1>4. Docker'
  <2>1. TellsGone'
    <3>1. ASSUME NEW n \in DOMAIN dock, dock[n].ev = "destroy"
          PROVE  conts'[dock[n].c].st \notin {"down", "up"}
      BY <1>0, <3>1 DEF ContInv, Docker, TellsGone, Live
    <3>2. QED
      BY <1>1, <3>1 DEF TellsGone, Live
  <2>2. ContsOk' /\ rows' \subseteq 1..left'.made
    BY <1>0, <1>2 DEF ContInv, Docker, ContsOk
  <2>3. dock' \in Seq(Events)'
    BY <1>0, <1>1 DEF E
  <2>4. QED
    BY <2>1, <2>2, <2>3 DEF Docker
<1>5. Steady /\ Unique' /\ Booting'
  BY <1>0, <1>3, Known DEF ContInv, Steady, Unique, Booting
<1>6. Held'
  BY <1>0, <1>3 DEF ContInv, Held, HeldBy
<1>7. Synced'
  <2>1. \A c : Told(c) => Told(c)' \/ (dock[1].ev = "destroy" /\ dock[1].c = c)
    BY <1>1 DEF Told
  <2>2. dock[1].ev = "destroy" => ~Live(dock[1].c)
    BY <1>1 DEF ContInv, Docker, TellsGone
  <2>3. \A c : (c \in rows' => c \in rows /\ ~(dock[1].ev = "destroy" /\ dock[1].c = c))
               /\ (Live(c) /\ c \in rows => c \in rows')
    BY <1>2, <2>2
  <2>4. \A v, pc, c : Doing(v, pc, c)' = Doing(v, pc, c)
    BY <1>0 DEF Doing
  <2>5. QED
    BY <1>0, <1>3, <2>1, <2>3, <2>4 DEF ContInv, Synced
<1>8. QED
  BY <1>4, <1>5, <1>6, <1>7 DEF ContInv

LEMMA ContOutside ==
    ASSUME Acts, Tables, ContInv,
           UNCHANGED vars \/ (\E c \in Conts : Exit(c)) \/ Analyse \/ Crash \/ BootList \/ BootRow \/ BootImage
    PROVE  ContInv'
<1>0. left.made \in Nat /\ ContsOk /\ rows \subseteq 1..left.made /\ \A c \in Conts : Live(c) => c \in 1..left.made
  BY Known DEF ContInv, Docker, ContsOk, Conts, Live, None
<1>1. CASE UNCHANGED vars
  <2>1. Docker' /\ Unique' /\ Held'
    BY <1>1 DEF vars, ContInv, Docker, ContsOk, Events, TellsGone, Live, Unique, Held, HeldBy
  <2>2. Synced'
    BY <1>1 DEF vars, ContInv, Synced, Live, Told, Doing
  <2>3. Booting'
    BY <1>1 DEF vars, ContInv, Booting, Live
  <2>4. QED
    BY <2>1, <2>2, <2>3 DEF ContInv
<1>2. ASSUME NEW c \in Conts, Exit(c) PROVE ContInv'
  <2>1. /\ conts[c].st = "up" /\ conts' = [conts EXCEPT ![c].st = "down"]
        /\ dock' = Append(dock, [ev |-> "die", c |-> c]) /\ left'.made = left.made
        /\ UNCHANGED <<rows, act, boot, hist>>
    BY <1>2 DEF Exit, Tables, RestOk
  <2>2. Live(c)
    BY <2>1 DEF Live
  <2>3. [ev |-> "die", c |-> c] \in Events /\ [ev |-> "die", c |-> c].ev # "destroy"
    BY <1>0, <2>2 DEF Events
  <2>4. QED
    BY <1>0, <2>1, <2>2, <2>3, ContFlip
<1>3. CASE Crash
  <2>1. /\ UNCHANGED <<conts, rows>> /\ dock' = <<>> /\ act' = [a \in Actors |-> None]
        /\ left'.made = left.made /\ boot'.pc = "list" /\ ~hist'.synced
    BY <1>3, Outside DEF Crash, Tables, RestOk
  <2>2. Docker' /\ Unique'
    <3>1. dock' \in Seq(Events') /\ DOMAIN dock' = {}
      BY <2>1
    <3>2. QED
      BY <2>1, <3>1 DEF ContInv, Docker, ContsOk, TellsGone, Unique, Live
  <2>3. \A a \in Actors : act'[a] = None
    BY <2>1
  <2>4. QED
    BY <2>1, <2>2, <2>3, Disjoint DEF ContInv, Held, HeldBy, Booting, Synced
<1>4. CASE BootList
  <2>1. /\ boot.pc = "list" /\ boot'.pc = "rows" /\ boot'.alone = boot.alone
        /\ boot'.ids = {c \in Conts : conts[c].st \in {"down", "up"}}
    BY <1>4 DEF BootList, Tables, RestOk
  <2>2. UNCHANGED <<conts, rows, act, dock, hist, left>>
    BY <1>4, Outside
  <2>3. Booting'
    <3>1. boot'.ids \subseteq 1..left.made
      BY <1>0, <2>1 DEF Live
    <3>2. QED
      BY <2>1, <2>2, <3>1 DEF ContInv, Booting, Live
  <2>4. QED
    BY <2>2, <2>3 DEF ContInv, Docker, ContsOk, Events, TellsGone, Live, Unique, Held, HeldBy, Synced, Told, Doing
<1>5. CASE BootRow
  <2>0. UNCHANGED <<conts, act, dock, left>> /\ boot.pc = "rows"
    BY <1>5, Outside DEF BootRow
  <2>1. boot.ids \subseteq 1..left.made /\ ~hist.synced
        /\ (boot.alone => (\A a \in Actors : act[a] = None) /\ boot.ids = {c \in Conts : Live(c)})
    BY <2>0 DEF ContInv, Booting
  <2>2. rows' \subseteq 1..left.made
    BY <1>0, <1>5, <2>1 DEF BootRow
  <2>3. Docker' /\ Unique' /\ Held'
    BY <2>0, <2>2 DEF ContInv, Docker, ContsOk, Events, TellsGone, Live, Unique, Held, HeldBy
  <2>4. CASE hist' = hist
    <3>1. boot' = boot \/ boot'.pc = "off" \/ boot'.pc = "files"
      BY <1>5 DEF BootRow, Tables, RestOk
    <3>2. QED
      BY <2>0, <2>1, <2>3, <2>4, <3>1 DEF ContInv, Booting, Synced, Live
  <2>5. CASE hist' # hist
    <3>1. rows' = boot.ids /\ boot'.pc = "files" /\ hist'.synced = boot.alone
      BY <1>5, <2>5 DEF BootRow, Tables, RestOk
    <3>2. Synced'
      <4>1. SUFFICES ASSUME boot.alone PROVE Synced'
        BY <3>1 DEF Synced
      <4>2. \A c \in 1..left.made : c \in Conts /\ (c \in rows' <=> Live(c)')
        BY <2>0, <2>1, <3>1, <4>1, Known DEF ContInv, Live
      <4>3. QED
        BY <2>0, <4>2 DEF Synced
    <3>3. QED
      BY <2>3, <3>1, <3>2 DEF ContInv, Booting
  <2>6. QED
    BY <2>4, <2>5
<1>6. CASE BootImage
  <2>1. UNCHANGED <<conts, rows, act, dock, hist, left>>
    BY <1>6, Outside
  <2>2. boot'.pc \in {"off", "files"}
    BY <1>6 DEF BootImage, Tables, RestOk, Idle
  <2>3. Docker' /\ Unique' /\ Held'
    <3>1. Docker'
      BY <2>1 DEF ContInv, Docker, ContsOk, Events, TellsGone, Live
    <3>2. Unique' /\ Held'
      BY <2>1 DEF ContInv, Unique, Live, Held, HeldBy
    <3>3. QED
      BY <3>1, <3>2
  <2>4. Synced'
    BY <2>1 DEF ContInv, Synced, Live, Told, Doing
  <2>5. Booting'
    BY <2>2 DEF Booting
  <2>6. QED
    BY <2>3, <2>4, <2>5 DEF ContInv
<1>7. QED
  BY <1>1, <1>2, <1>3, <1>4, <1>5, <1>6, ContAnalyse
-----------------------------------------------------------------------------
(* Rows of vms.                                                            *)
Pcs(a) ==
    /\ \A v \in Vms : a \in Conns /\ Claims(a, v)' => Claims(a, v)
    /\ a \in Vms /\ Deleting(a, Whole1)' => Deleting(a, Whole1) /\ act'[a].img = act[a].img
    /\ a \in Vms /\ Deleting(a, {"specs", "status"})' => Deleting(a, {"specs", "status"})

LEMMA GoPcs ==
    ASSUME NEW a \in Actors, Active(a), NEW pc, Goes(a, pc) \/ Ends(a),
           a \in Conns => act[a].op # "create" \/ pc \notin {"spec", "vm"} \/ act[a].pc \in {"spec", "vm"},
           a \in Vms => \/ act[a].op # "Destroying"
                        \/ pc \in Whole1 /\ act[a].pc \in Whole1
                        \/ pc \in {"specs", "status"} /\ act[a].pc \in {"specs", "status"}
    PROVE  Pcs(a)
BY DEF Pcs, Goes, Ends, Claims, Deleting, Active, Whole1

LEMMA PcsStep ==
    ASSUME Acts, Tables, NEW a \in Actors, Step(a)
    PROVE  Pcs(a) \/ NewStatus(a) \/ TaskRead(a) \/ ClearVm(a)
<1>0. (a \in Conns /\ a \notin Vms) \/ (a \in Vms /\ a \notin Conns /\ (act[a] # None => act[a].op \in Tasks))
  BY Disjoint DEF Acts
<1>1. ASSUME Active(a), NEW pc, Go(a, pc) \/ End(a) PROVE Goes(a, pc) \/ Ends(a)
  BY <1>1, GoDo, EndDo
<1>2. ASSUME a \in Conns, Active(a), NEW pc, Go(a, pc) \/ End(a),
             act[a].op # "create" \/ pc \notin {"spec", "vm"} \/ act[a].pc \in {"spec", "vm"}
      PROVE  Pcs(a)
  BY <1>0, <1>1, <1>2, GoPcs
<1>3. ASSUME a \in Vms, Active(a), NEW pc, Go(a, pc) \/ End(a),
             \/ act[a].op # "Destroying" \/ (pc \in Whole1 /\ act[a].pc \in Whole1)
             \/ (pc \in {"specs", "status"} /\ act[a].pc \in {"specs", "status"})
      PROVE  Pcs(a)
  BY <1>0, <1>1, <1>3, GoPcs
<1>4. Active(a) /\ End(a) => Pcs(a)
  BY EndDo DEF Ends, Pcs, Claims, Deleting
<1>5. CASE a \in Conns /\ VmStep(a)
  <2> USE DEF At, Active
  <2>1. CheckVm(a) => Pcs(a)
    BY <1>2, <1>4, <1>5 DEF CheckVm
  <2>2. NewSpec(a) => Pcs(a)
    BY <1>2, <1>4, <1>5 DEF NewSpec
  <2>3. NewVm(a) => Pcs(a)
    BY <1>4, <1>5 DEF NewVm
  <2>4. ReadVm(a) => Pcs(a)
    BY <1>2, <1>4, <1>5 DEF ReadVm
  <2>5. SetStatus(a) => Pcs(a)
    BY <1>2, <1>4, <1>5 DEF SetStatus
  <2>6. PatchVm(a) => Pcs(a)
    BY <1>2, <1>4, <1>5 DEF PatchVm
  <2>7. Emit(a) => Pcs(a)
    BY <1>4, <1>5 DEF Emit
  <2>8. StartOne(a) => Pcs(a)
    BY <1>4, <1>5 DEF StartOne
  <2>9. QED
    BY <1>5, <2>1, <2>2, <2>3, <2>4, <2>5, <2>6, <2>7, <2>8 DEF VmStep
<1>6. CASE a \in Conns /\ ImageStep(a)
  <2>1. Active(a)
    BY <1>6, ImageMoves DEF Moved
  <2>2. End(a) \/ \E pc \in {"free", "file", "row", "fill", "status", "size", "unlink", "unrow"} : Go(a, pc)
                \/ (act[a].op = "rmi" /\ Go(a, "vm")) \/ (act[a].op = "Destroying" /\ Go(a, "vm"))
    BY <1>6 DEF ImageStep, ReadSource, NameFree, Snapshot, Fill, Filled, ImageRow, Resize, ResizeRow,
                ReadChildren, Unlink, UnRow, Err, At
  <2>3. QED
    BY <1>2, <1>4, <1>6, <2>1, <2>2
<1>7. CASE a \in Vms /\ ImageStep(a)
  <2>1. ReadChildren(a) \/ Unlink(a) \/ UnRow(a)
    BY <1>0, <1>7 DEF ImageStep, ReadSource, NameFree, Snapshot, Fill, Filled, ImageRow, Resize, ResizeRow, At, Tasks
  <2>2. Active(a)
    BY <2>1 DEF ReadChildren, Unlink, UnRow, At, Active
  <2>3. act[a].pc \in {"image", "unlink", "unrow"}
    BY <1>0, <1>7, <2>1 DEF ReadChildren, Unlink, UnRow, At, Tasks
  <2>4. End(a) \/ Go(a, "unlink") \/ Go(a, "unrow") \/ Go(a, "vm")
    BY <2>1 DEF ReadChildren, Unlink, UnRow, Err
  <2>5. QED
    BY <1>3, <1>4, <1>7, <2>2, <2>3, <2>4 DEF Whole1
<1>8. CASE Fail(a)
  BY <1>4, <1>8 DEF Fail, Err, Active
<1>9. CASE a \in Vms /\ TaskMove(a)
  <2> USE DEF At, Active, Err
  <2>1. CASE TaskRows(a)
    <3>1. CASE act[a].op = "Starting"
      BY <1>3, <1>9, <2>1, <3>1 DEF TaskRows
    <3>2. CASE act[a].op = "Destroying"
      <4>1. act' = [act EXCEPT ![a].pc = "kill", ![a].todo = RowsOf(a)] /\ act[a].pc = "rows"
        BY <2>1, <3>2 DEF TaskRows
      <4>2. act'[a] = [act[a] EXCEPT !.pc = "kill", !.todo = RowsOf(a)] /\ IsFrame(act[a])
        BY <2>1, <4>1 DEF Acts, TaskRows
      <4>3. act'[a].pc = "kill" /\ act'[a].op = act[a].op /\ act'[a].img = act[a].img
        BY <4>2 DEF IsFrame
      <4>4. QED
        BY <1>0, <2>1, <3>2, <4>1, <4>3, <1>9 DEF Pcs, Deleting, Whole1, TaskRows
    <3>3. QED
      BY <2>1, <3>1, <3>2 DEF TaskRows
  <2>2. RemoveNamed(a) => Pcs(a)
    BY <1>3, <1>9 DEF RemoveNamed
  <2>3. CASE Make(a)
    <3>1. act'[a] # None => act'[a].op = act[a].op
      BY <1>9, <2>3, TaskMoves DEF Moved
    <3>2. act[a].op # "Destroying" /\ a \notin Conns
      BY <1>0, <1>9, <2>3 DEF Make
    <3>3. QED
      BY <3>1, <3>2 DEF Pcs, Deleting
  <2>4. NewProcess(a) => Pcs(a)
    BY <1>3, <1>9 DEF NewProcess
  <2>5. StartInstances(a) => Pcs(a)
    BY <1>3, <1>4, <1>9 DEF StartInstances
  <2>6. CASE StopInstances(a)
    <3>1. act'[a] # None => act'[a].op = act[a].op
      BY <1>9, TaskMoves DEF Moved
    <3>2. act[a].op # "Destroying" /\ a \notin Conns
      BY <1>0, <1>9, <2>6 DEF StopInstances
    <3>3. QED
      BY <3>1, <3>2 DEF Pcs, Deleting
  <2>7. Mark(a) => Pcs(a)
    BY <1>4 DEF Mark
  <2>8. CASE Kill(a)
    <3>1. act[a].op = "Destroying" /\ act[a].pc = "kill" /\ act[a] # None
      BY <2>8 DEF Kill
    <3>2. CASE act[a].todo = {}
      BY <1>3, <1>9, <2>8, <3>1, <3>2 DEF Kill, Whole1
    <3>3. CASE act[a].todo # {}
      <4>1. PICK c : act' = [act EXCEPT ![a].pc = "killed", ![a].c = c, ![a].todo = @ \ {c}]
        BY <2>8, <3>3 DEF Kill
      <4>2. act'[a] = [act[a] EXCEPT !.pc = "killed", !.c = c, !.todo = @ \ {c}] /\ IsFrame(act[a])
        BY <3>1, <4>1 DEF Acts
      <4>3. act'[a].pc = "killed" /\ act'[a].op = act[a].op /\ act'[a].img = act[a].img
        BY <4>2 DEF IsFrame
      <4>4. QED
        BY <1>0, <1>9, <3>1, <4>3 DEF Pcs, Deleting, Whole1
    <3>4. QED
      BY <3>2, <3>3
  <2>9. Killed(a) => Pcs(a)
    BY <1>3, <1>9 DEF Killed, Whole1
  <2>10. ClearSpecs(a) => Pcs(a)
    BY <1>3, <1>9 DEF ClearSpecs
  <2>11. ClearStatus(a) => Pcs(a)
    BY <1>4 DEF ClearStatus
  <2>12. QED
    BY <1>9, <2>1, <2>2, <2>3, <2>4, <2>5, <2>6, <2>7, <2>8, <2>9, <2>10, <2>11 DEF TaskMove
<1>10. QED
  BY <1>0, <1>5, <1>6, <1>7, <1>8, <1>9 DEF Step

LEMMA StatusKept ==
    ASSUME Acts, Tables, NEW a \in Actors, Step(a), ~NewStatus(a), ~ClearStatus(a)
    PROVE  \A v \in Vms : status'[v] = None <=> status[v] = None
<1>1. CASE status' = status \/ Err(a)
  BY <1>1, ErrStatus DEF Tables, StatusLike
<1>2. CASE SetStatus(a)
  <2>1. a \in Conns
    BY <1>2, Disjoint DEF SetStatus, At, Acts, Tasks
  <2>2. QED
    BY <1>2, <2>1, SetStatusDo
<1>3. CASE Mark(a)
  <2>1. a \in Vms
    BY <1>3, Disjoint DEF Mark, At, Acts, IsRequest, VmOps
  <2>2. QED
    BY <1>3, <2>1, MarkStatus DEF Tables, StatusLike
<1>4. QED
  BY <1>1, <1>2, <1>3, Quiet

LEMMA RowAside ==
    ASSUME Acts, RowInv, NEW a \in Actors, Others(a), Pcs(a), vm' = vm, specs \subseteq specs',
           \A v \in Vms : status'[v] = None <=> status[v] = None
    PROVE  RowInv'
<1>1. \A k \in Conns, v \in Vms : Claims(k, v)' => Claims(k, v)
  BY Disjoint DEF Others, Pcs, Claims
<1>2. \A v \in Vms : Deleting(v, Whole1)' => Deleting(v, Whole1) /\ act'[v].img = act[v].img
  BY Disjoint DEF Others, Pcs, Deleting
<1>3. \A v \in Vms : Deleting(v, {"specs", "status"})' => Deleting(v, {"specs", "status"})
  BY Disjoint DEF Others, Pcs, Deleting
<1>4. QED
  BY <1>1, <1>2, <1>3 DEF RowInv

LEMMA RequestOf ==
    ASSUME Acts, NEW a \in Actors, act[a] # None, act[a].op \in ImageOps \cup VmOps
    PROVE  a \in Conns /\ IsRequest(act[a])
BY Disjoint DEF Acts, Tasks, ImageOps, VmOps

LEMMA TaskOf ==
    ASSUME Acts, NEW a \in Actors, act[a] # None, act[a].op \in Tasks
    PROVE  a \in Vms /\ a \notin Conns
BY Disjoint DEF Acts, Tasks, IsRequest, VmOps

LEMMA RowNewStatus ==
    ASSUME Acts, Tables, RowInv, NEW k \in Actors, NewStatus(k)
    PROVE  RowInv'
<1>0. act[k] # None /\ act[k].op = "create" /\ act[k].pc = "status"
  BY DEF NewStatus, At
<1>1. k \in Conns /\ k \notin Vms /\ act[k].v \in Vms /\ Moved(k)
  BY <1>0, RequestOf, Disjoint, VmMoves DEF IsRequest, VmStep, ImageOps, VmOps
<1>2. CASE status' = status
  <2>1. Pcs(k)
    BY <1>0, <1>1, <1>2, GoDo, EndDo DEF NewStatus, Tables, StatusOk, None, Ends, Pcs, Claims, Active
  <2>2. QED
    BY <1>1, <1>2, <2>1, RowAside DEF NewStatus, Moved
<1>3. CASE status' # status
  <2> DEFINE v == act[k].v
  <2>1. /\ status[v] = None /\ Goes(k, "spec") /\ UNCHANGED <<vm, specs>>
        /\ status' = [status EXCEPT ![v] = [st |-> "row", wanted |-> "create", actual |-> "create"]]
    BY <1>0, <1>3, GoDo DEF NewStatus, Active
  <2>2. status'[v] # None /\ \A w \in Vms : w # v => status'[w] = status[w]
    BY <1>1, <2>1 DEF Tables, StatusOk, None
  <2>3. vm[v] = None /\ ~Deleting(v, {"specs", "status"}) /\ \A l \in Conns : ~Claims(l, v)
    BY <1>1, <2>1 DEF RowInv
  <2>4. \A w \in Vms : \A pcs : Deleting(w, pcs)' <=> Deleting(w, pcs)
    BY <1>1, <2>1 DEF Deleting, Goes, Others, Actors
  <2>5. \A l \in Conns, w \in Vms : Claims(l, w)' => Claims(l, w) \/ (l = k /\ w = v)
    BY <1>1, <2>1, Disjoint DEF Claims, Goes, Others
  <2>6. \A w \in Vms : act'[w] = act[w]
    BY <1>1, <2>1, Disjoint DEF Goes, Others
  <2>7. \A w \in Vms : status'[w] = None => status[w] = None
    BY <2>1, <2>2
  <2> HIDE DEF v
  <2>8. \A w \in Vms : (vm'[w] # None => status'[w] # None /\ w \in specs')
    BY <2>1, <2>7 DEF RowInv
  <2>9. \A l \in Conns, w \in Vms : Claims(l, w)' =>
          /\ vm'[w] = None /\ status'[w] # None /\ ~Deleting(w, {"specs", "status"})'
          /\ \A m \in Conns : Claims(m, w)' => m = l
    BY <2>1, <2>2, <2>3, <2>4, <2>5, <2>7 DEF RowInv
  <2>10. \A w \in Vms : Deleting(w, Whole1)' => vm'[w] # None /\ act'[w].img = vm'[w].img
    BY <2>1, <2>4, <2>6 DEF RowInv
  <2>11. \A w \in Vms : Deleting(w, {"specs", "status"})' => vm'[w] = None /\ status'[w] # None
    BY <2>1, <2>4, <2>7 DEF RowInv
  <2>12. QED
    BY <2>8, <2>9, <2>10, <2>11 DEF RowInv
<1>4. QED
  BY <1>2, <1>3

LEMMA RowNewVm ==
    ASSUME Acts, Tables, RowInv, NEW k \in Actors, NewVm(k)
    PROVE  RowInv'
<1>0. act[k] # None /\ act[k].op = "create" /\ act[k].pc = "vm"
  BY DEF NewVm, At
<1>1. k \in Conns /\ k \notin Vms /\ act[k].v \in Vms /\ Claims(k, act[k].v) /\ Ends(k)
  BY <1>0, RequestOf, Disjoint, EndDo DEF IsRequest, ImageOps, VmOps, Claims, NewVm
<1>2. UNCHANGED <<status, specs>>
  BY DEF NewVm
<1>3. CASE vm' = vm
  BY <1>1, <1>2, <1>3, RowAside DEF Ends, Pcs, Claims
<1>4. CASE vm' # vm
  <2> DEFINE v == act[k].v
  <2>1. vm' = [vm EXCEPT ![v] = [st |-> "row", img |-> act[k].img]] /\ status[v] # None /\ v \in specs
    BY <1>4 DEF NewVm
  <2>2. \A w \in Vms : w # v => vm'[w] = vm[w]
    BY <1>1, <2>1 DEF Tables, VmsOk
  <2>3. \A w \in Vms : act'[w] = act[w]
    BY <1>1, Disjoint DEF Ends, Others
  <2>4. \A l \in Conns, w \in Vms : Claims(l, w)' => Claims(l, w) /\ w # v
    BY <1>1 DEF Claims, Ends, Others, Actors, RowInv
  <2>5. \A w \in Vms : \A pcs : Deleting(w, pcs)' <=> Deleting(w, pcs)
    BY <2>3 DEF Deleting
  <2>6. ~Deleting(v, Whole1) /\ ~Deleting(v, {"specs", "status"})
    BY <1>1 DEF RowInv
  <2> HIDE DEF v
  <2>7. \A w \in Vms : (vm'[w] # None => status'[w] # None /\ w \in specs')
    BY <1>2, <2>1, <2>2 DEF RowInv
  <2>8. \A l \in Conns, w \in Vms : Claims(l, w)' =>
          /\ vm'[w] = None /\ status'[w] # None /\ ~Deleting(w, {"specs", "status"})'
          /\ \A m \in Conns : Claims(m, w)' => m = l
    BY <1>2, <2>2, <2>4, <2>5 DEF RowInv
  <2>9. \A w \in Vms : Deleting(w, Whole1)' => vm'[w] # None /\ act'[w].img = vm'[w].img
    BY <2>2, <2>3, <2>5, <2>6 DEF RowInv
  <2>10. \A w \in Vms : Deleting(w, {"specs", "status"})' => vm'[w] = None /\ status'[w] # None
    BY <1>2, <2>2, <2>5, <2>6 DEF RowInv
  <2>11. QED
    BY <2>7, <2>8, <2>9, <2>10 DEF RowInv
<1>5. QED
  BY <1>3, <1>4

LEMMA RowClear ==
    ASSUME Acts, Tables, RowInv, NEW v \in Actors, ClearVm(v) \/ ClearSpecs(v) \/ ClearStatus(v)
    PROVE  RowInv'
<1>0. act[v] # None /\ act[v].op = "Destroying"
  BY DEF ClearVm, ClearSpecs, ClearStatus, At
<1>1. v \in Vms /\ v \notin Conns
  BY <1>0, TaskOf DEF Tasks
<1>2. Others(v)
  BY <1>0, GoMoves, EndMoves DEF ClearVm, ClearSpecs, ClearStatus, Active, Moved
<1>3. \A l \in Conns, w \in Vms : Claims(l, w)' <=> Claims(l, w)
  BY <1>1, <1>2, Disjoint DEF Claims, Others
<1>4. \A w \in Vms : \A pcs : w # v => (Deleting(w, pcs)' <=> Deleting(w, pcs)) /\ act'[w] = act[w]
  BY <1>2 DEF Deleting, Others, Actors
<1>5. CASE ClearVm(v)
  <2>1. Deleting(v, Whole1)
    BY <1>5 DEF Deleting, ClearVm, At, Whole1
  <2>2. vm[v] # None /\ status[v] # None /\ v \in specs /\ \A l \in Conns : ~Claims(l, v)
    BY <1>1, <2>1 DEF RowInv
  <2>3. vm'[v] = None /\ \A w \in Vms : w # v => vm'[w] = vm[w]
    BY <1>1, <1>5 DEF ClearVm, Tables, VmsOk
  <2>4. ~Deleting(v, Whole1)' /\ UNCHANGED <<status, specs>>
    BY <1>0, <1>5, GoDo DEF ClearVm, Active, Goes, Deleting, Whole1
  <2>5. QED
    BY <1>1, <1>3, <1>4, <2>2, <2>3, <2>4 DEF RowInv
<1>6. CASE ClearSpecs(v)
  <2>1. Deleting(v, {"specs", "status"}) /\ Goes(v, "status") /\ UNCHANGED <<vm, status>> /\ specs' = specs \ {v}
    BY <1>0, <1>6, GoDo DEF Deleting, ClearSpecs, At, Active
  <2>2. vm[v] = None /\ status[v] # None
    BY <1>1, <2>1 DEF RowInv
  <2>3. ~Deleting(v, Whole1)' /\ \A l \in Conns : ~Claims(l, v)
    BY <1>1, <2>1 DEF Goes, Deleting, Whole1, RowInv
  <2>4. QED
    BY <1>1, <1>3, <1>4, <2>1, <2>2, <2>3 DEF RowInv
<1>7. CASE ClearStatus(v)
  <2>1. Deleting(v, {"specs", "status"}) /\ Ends(v) /\ UNCHANGED <<vm, specs>>
    BY <1>0, <1>7, EndDo DEF Deleting, ClearStatus, At
  <2>2. vm[v] = None /\ \A l \in Conns : ~Claims(l, v)
    BY <1>1, <2>1 DEF RowInv
  <2>3. \A w \in Vms : w # v => status'[w] = status[w]
    BY <1>7 DEF ClearStatus, Tables, StatusOk
  <2>4. \A pcs : ~Deleting(v, pcs)'
    BY <2>1 DEF Ends, Deleting
  <2>5. QED
    BY <1>1, <1>3, <1>4, <2>1, <2>2, <2>3, <2>4 DEF RowInv
<1>8. QED
  BY <1>5, <1>6, <1>7

LEMMA RowStep ==
    ASSUME Acts, Tables, RowInv, NEW a \in Actors, Step(a)
    PROVE  RowInv'
<1>0. Others(a)
  BY StepMoves DEF Moved
<1>1. CASE NewStatus(a) \/ NewVm(a) \/ ClearVm(a) \/ ClearSpecs(a) \/ ClearStatus(a)
  BY <1>1, RowNewStatus, RowNewVm, RowClear
<1>2. CASE TaskRead(a)
  <2>1. UNCHANGED <<vm, specs>> /\ ~NewStatus(a) /\ ~ClearStatus(a)
    BY <1>2 DEF TaskRead, NewStatus, ClearStatus, At
  <2>2. \A v \in Vms : status'[v] = None <=> status[v] = None
    BY <2>1, StatusKept
  <2>3. a \in Vms /\ a \notin Conns /\ Active(a) /\ IsFrame(act[a]) /\ act[a].op \in Tasks
    BY <1>2, TaskOf DEF TaskRead, At, Tasks, Active, Acts
  <2>4. CASE Err(a)
    <3>1. Pcs(a)
      BY <2>3, <2>4, EndDo DEF Err, Ends, Pcs, Deleting
    <3>2. QED
      BY <1>0, <2>1, <2>2, <3>1, RowAside
  <2>5. CASE ~Err(a)
    <3>1. PICK pc \in {"remove", "rows"} : act' = [act EXCEPT ![a].pc = pc, ![a].img = vm[a].img]
      BY <1>2, <2>5 DEF TaskRead
    <3>2. act'[a] = [act[a] EXCEPT !.pc = pc, !.img = vm[a].img] /\ vm[a] # None
      BY <1>2, <2>5, <3>1 DEF Acts, TaskRead
    <3>3. act'[a].pc = pc /\ act'[a].img = vm[a].img
      BY <2>3, <3>2 DEF IsFrame
    <3>4. ~Deleting(a, {"specs", "status"})'
      BY <3>3 DEF Deleting
    <3>5. \A w \in Vms : w # a => act'[w] = act[w]
      BY <1>0, Disjoint DEF Others
    <3>6. \A k \in Conns : act'[k] = act[k]
      BY <1>0, <2>3, Disjoint DEF Others
    <3>7. \A k \in Conns, w \in Vms : Claims(k, w)' <=> Claims(k, w)
      BY <3>6 DEF Claims
    <3>8. \A w \in Vms : w # a => (Deleting(w, Whole1)' <=> Deleting(w, Whole1))
      BY <3>5 DEF Deleting
    <3>9. \A w \in Vms : Deleting(w, {"specs", "status"})' => Deleting(w, {"specs", "status"})
      BY <3>4, <3>5 DEF Deleting
    <3>10. \A w \in Vms : Deleting(w, Whole1)' => vm'[w] # None /\ act'[w].img = vm'[w].img
      BY <2>1, <3>2, <3>3, <3>5, <3>8 DEF RowInv
    <3>11. QED
      BY <2>1, <2>2, <3>7, <3>9, <3>10 DEF RowInv
  <2>6. QED
    BY <2>4, <2>5
<1>3. CASE ~(NewStatus(a) \/ NewVm(a) \/ ClearVm(a) \/ ClearSpecs(a) \/ ClearStatus(a) \/ TaskRead(a))
  <2>1. Pcs(a)
    BY <1>3, PcsStep
  <2>2. vm' = vm /\ specs \subseteq specs'
    BY <1>3, Quiet DEF NewSpec
  <2>3. QED
    BY <1>0, <1>3, <2>1, <2>2, StatusKept, RowAside
<1>4. QED
  BY <1>1, <1>2, <1>3

LEMMA RowBegun ==
    ASSUME Acts, RowInv, NEW a \in Actors, NEW f, Begun(a, f), UNCHANGED <<vm, status, specs>>
    PROVE  RowInv'
<1>1. Pcs(a)
  BY DEF Begun, Starts, Pcs, Claims, Deleting, Whole1
<1>2. QED
  BY <1>1, RowAside DEF Begun

LEMMA RowOutside ==
    ASSUME Acts, Tables, Docker, RowInv,
           UNCHANGED vars \/ (\E c \in Conts : Exit(c)) \/ Analyse \/ Crash \/ BootList \/ BootRow \/ BootImage
    PROVE  RowInv'
<1>1. CASE Crash
  <2>1. UNCHANGED <<vm, status, specs>> /\ \A a \in Actors : act'[a] = None
    BY <1>1, Outside DEF Crash
  <2>2. QED
    BY <2>1, Disjoint DEF RowInv, Claims, Deleting
<1>2. CASE Analyse
  <2>1. UNCHANGED <<vm, specs, act>> /\ \A v \in Vms : status'[v] = None <=> status[v] = None
    BY <1>2, Outside, AnalyseStatus DEF StatusLike
  <2>2. QED
    BY <2>1 DEF RowInv, Claims, Deleting
<1>3. CASE ~Crash /\ ~Analyse
  <2>1. UNCHANGED <<vm, status, specs, act>>
    BY <1>3, Outside DEF vars
  <2>2. QED
    BY <2>1 DEF RowInv, Claims, Deleting
<1>4. QED
  BY <1>1, <1>2, <1>3
-----------------------------------------------------------------------------
Core == Acts /\ Tables /\ ContInv /\ RowInv

LEMMA CoreInit == Init => Core
<1> SUFFICES ASSUME Init PROVE Core
  OBVIOUS
<1>1. Acts
  BY Disjoint DEF Init, Acts
<1>2. PICK s \in Scenarios : left = [reqs |-> s.reqs, db |-> s.db, crash |-> s.crash,
         exits |-> s.exits, cuts |-> s.cuts, made |-> 0, lost |-> FALSE, ops |-> s.ops]
  BY DEF Init
<1>3. /\ DOMAIN left = {"reqs", "db", "crash", "exits", "cuts", "made", "lost", "ops"}
      /\ left.made = 0 /\ left.lost = FALSE
  BY <1>2
<1>4. /\ hist.fine = Vms \cup Images /\ DOMAIN hist = {"fine", "synced", "based"} /\ hist.synced = TRUE
      /\ boot.pc = "off" /\ DOMAIN boot = {"pc", "ids", "files", "alone"} /\ boot.alone = TRUE /\ boot.files = {}
  BY DEF Init, Idle
<1>5. Tables
  <2>1. ImagesOk
    BY Disjoint DEF Init, ImagesOk
  <2>2. FilesOk
    BY DEF Init, FilesOk
  <2>3. VmsOk /\ StatusOk
    BY DEF Init, VmsOk, StatusOk
  <2>4. RestOk
    BY <1>3, <1>4 DEF RestOk
  <2>5. QueueOk
    BY DEF Init, QueueOk
  <2>6. QED
    BY <2>1, <2>2, <2>3, <2>4, <2>5 DEF Tables
<1>6. ContInv
  <2>1. /\ conts = [c \in Conts |-> None] /\ rows = {} /\ dock = <<>> /\ act = [a \in Actors |-> None]
    BY DEF Init
  <2>2. \A c \in Conts : conts[c] = None /\ ~Live(c) /\ ~(c <= left.made)
    BY <1>3, <2>1, VmAssumption DEF Live, None, Conts
  <2>3. ContsOk
    BY <1>3, <2>1, <2>2, VmAssumption DEF ContsOk
  <2>4. dock \in Seq(Events) /\ TellsGone
    BY <2>1 DEF TellsGone
  <2>5. Docker /\ Unique
    BY <2>1, <2>2, <2>3, <2>4 DEF Docker, Unique
  <2>6. Held /\ Booting
    BY <1>4, <2>1, Disjoint DEF Held, HeldBy, Booting
  <2>7. Synced
    BY <1>3, <2>1 DEF Synced
  <2>8. QED
    BY <2>5, <2>6, <2>7 DEF ContInv
<1>7. RowInv
  BY Disjoint DEF Init, RowInv, Claims, Deleting
<1>8. QED
  BY <1>1, <1>5, <1>6, <1>7 DEF Core

LEMMA RequestBegun ==
    ASSUME Core, NEW k \in Conns, NEW op \in ImageOps \cup VmOps, Request(k, op)
    PROVE  /\ \E f : Begun(k, f)
           /\ UNCHANGED <<img, file, vm, status, specs, conts, rows, queue, dock>>
           /\ left'.made = left.made /\ left'.lost = left.lost /\ DOMAIN left' = DOMAIN left
<1>1. left' = [left EXCEPT !.reqs = @ - 1]
  BY DEF Request
<1>2. left'.made = left.made /\ left'.lost = left.lost /\ DOMAIN left' = DOMAIN left
  BY <1>1 DEF Core, Tables, RestOk
<1>3. QED
  BY <1>2, RequestDo, Outside DEF Core, Tables

LEMMA CoreBegun ==
    ASSUME Core, NEW a \in Actors, NEW f, Begun(a, f),
           UNCHANGED <<img, file, vm, status, specs, conts, rows, dock>>, QueueOk',
           left'.made = left.made, left'.lost = left.lost, DOMAIN left' = DOMAIN left
    PROVE  Core'
BY ActsBegun, TablesBegun, ContBegun, RowBegun DEF Core

LEMMA CoreDispatch ==
    ASSUME Core, NEW v \in Vms, Dispatch(v)
    PROVE  Core'
<1>1. PICK f : Begun(v, f)
  BY DispatchDo DEF Core
<1>2. UNCHANGED <<img, file, vm, status, specs, conts, rows, dock, left>> /\ QueueOk'
  BY Outside, QueueDispatch DEF Core
<1>3. QED
  BY <1>1, <1>2, CoreBegun, Disjoint

LEMMA CoreOutside ==
    ASSUME Core,
           UNCHANGED vars \/ (\E c \in Conts : Exit(c)) \/ Analyse \/ Crash \/ BootList \/ BootRow \/ BootImage
    PROVE  Core'
<1>1. Acts'
  <2>1. act' = act \/ act' = [a \in Actors |-> None]
    BY Outside DEF vars, Crash
  <2>2. QED
    BY <2>1, Disjoint DEF Core, Acts
<1>2. QED
  BY <1>1, TablesRest, ContOutside, RowOutside DEF Core, ContInv

LEMMA CoreNext == Core /\ [Next]_vars => Core'
<1> SUFFICES ASSUME Core, [Next]_vars PROVE Core'
  OBVIOUS
<1>1. ASSUME NEW a \in Actors, Step(a) PROVE Core'
  BY <1>1, StepMoves, ActsMoved, TablesStep, ContStep, RowStep DEF Core
<1>2. ASSUME NEW k \in Conns, NEW op \in ImageOps \cup VmOps, Request(k, op) PROVE Core'
  <2>1. QueueOk'
    BY <1>2, RequestBegun DEF Core, Tables, QueueOk
  <2>2. QED
    BY <1>2, <2>1, RequestBegun, CoreBegun, Disjoint
<1>3. QED
  BY <1>1, <1>2, CoreDispatch, CoreOutside, NextCases DEF Core

LEMMA CoreTyped == Core => TypeOK
<1> SUFFICES ASSUME Core PROVE TypeOK
  OBVIOUS
<1>1. ASSUME NEW v \in Vms PROVE Cardinality(Named(v)) <= 1
  <2>1. \A c, d \in Named(v) : c = d
    BY DEF Core, ContInv, Unique, Named, Live
  <2>2. CASE Named(v) = {}
    BY <2>2, FS_EmptySet
  <2>3. CASE Named(v) # {}
    <3>1. PICK c : Named(v) = {c}
      BY <2>1, <2>3
    <3>2. QED
      BY <3>1, FS_Singleton
  <2>4. QED
    BY <2>2, <2>3
<1>2. \A v \in Vms : vm[v] # None => vm[v].img \in Images
  BY Disjoint DEF Core, Tables, VmsOk
<1>3. QED
  BY <1>1, <1>2 DEF Core, Tables, ImagesOk, FilesOk, RowInv, ContInv, Docker, Acts, Tasks, TypeOK

LEMMA CoreRows == Core => VmRows
<1> SUFFICES ASSUME Core, Rest, hist.synced PROVE rows = UNION {Named(v) : v \in Vms}
  BY DEF VmRows
<1>1. \A v \in Vms : \A pc, c : ~Doing(v, pc, c)
  BY Disjoint DEF Rest, Doing
<1>2. \A c : ~Told(c)
  BY DEF Rest, Told
<1>3. \A c \in 1..left.made : c \in rows <=> Live(c)
  BY <1>1, <1>2 DEF Core, ContInv, Synced
<1>4. \A c \in Conts : Live(c) => c \in 1..left.made
  BY Known DEF Core, ContInv, Docker, ContsOk, Conts, Live, None
<1>5. \A c \in Conts : Live(c) => conts[c].v \in Vms
  BY <1>4, Known DEF Core, ContInv
<1>6. \A c : c \in rows <=> c \in Conts /\ Live(c)
  BY <1>3, <1>4, Known DEF Core, ContInv, Docker
<1>7. \A c : (\E v \in Vms : c \in Named(v)) <=> c \in Conts /\ Live(c)
  BY <1>5 DEF Named, Live
<1>8. QED
  BY <1>6, <1>7

(* What holds of the actors, the tables, the containers and the rows.      *)
THEOREM VmCore == Spec => []Core
<1>1. QED
  BY CoreInit, CoreNext, PTL DEF Spec

(* Every table keeps its shape: a vm has a status, specs and an image of   *)
(* its name, a row of processes is one of a container Docker was asked     *)
(* for, and Docker never has two containers of one vm, although create,    *)
(* patch and start of a vm run beside each other.                          *)
THEOREM VmTypes == Spec => []TypeOK
<1>1. QED
  BY VmCore, CoreTyped, PTL

(* Once the events are handled the rows of processes are Docker's          *)
(* containers: after any interleaving of the tasks, of Docker's events and *)
(* of the synchronisation at boot, a container that lives has its row, and *)
(* one that is gone has none.                                              *)
THEOREM RowsAreContainers == Spec => []VmRows
<1>1. QED
  BY VmCore, CoreRows, PTL
-----------------------------------------------------------------------------
(* Images.                                                                 *)
LEMMA ApartOutside ==
    ASSUME Acts, Tables, Apart,
           UNCHANGED vars \/ (\E c \in Conts : Exit(c)) \/ Analyse \/ Crash \/ BootList \/ BootRow \/ BootImage
    PROVE  Apart'
<1>1. CASE Crash
  <2>1. \A a \in Actors : act'[a] = None
    BY <1>1 DEF Crash
  <2>2. QED
    BY <2>1, Disjoint DEF Apart, Active
<1>2. CASE ~Crash
  <2>1. act' = act /\ hist'.fine = hist.fine
    BY <1>2, Outside DEF vars, BootRow, Tables, RestOk
  <2>2. boot'.pc # "off" => boot.pc # "off"
    BY <1>2, Outside DEF vars, BootList, BootRow, BootImage
  <2>3. QED
    BY <2>1, <2>2 DEF Apart, Active
<1>3. QED
  BY <1>1, <1>2

(* What a step does to the images.                                         *)
LEMMA RowAdded ==
    ASSUME Acts, Tables, NEW a \in Actors, ImageRow(a), img' # img
    PROVE  LET f == act[a] IN
           /\ a \in Conns /\ IsRequest(f) /\ f.img \in Images /\ f.op \in {"create", "snapshot", "clone", "import"}
           /\ f.pc = "row" /\ img[f.img] = None
           /\ f.op \in {"create", "snapshot"} => f.src \in Images /\ img[f.src] # None
           /\ img' = [img EXCEPT ![f.img] = [st |-> "row", size |-> 1, parent |-> Over(f),
                         kind |-> IF f.op \in {"create", "snapshot"} THEN "Snapshot" ELSE "Base"]]
           /\ hist'.based = hist.based \cup IF f.op = "snapshot" THEN {f.src} ELSE {}
<1>1. act[a] # None /\ act[a].op \in {"create", "snapshot", "clone", "import"} /\ act[a].pc = "row"
  BY DEF ImageRow, At
<1>2. a \in Conns /\ IsRequest(act[a])
  BY <1>1, RequestOf DEF ImageOps, VmOps
<1>3. act[a].img \in Images /\ (act[a].op \in {"create", "snapshot"} => act[a].src \in Images)
  BY <1>1, <1>2, Disjoint DEF IsRequest, Images, VmOps
<1>4. hist' = [hist EXCEPT !.based = @ \cup IF act[a].op = "snapshot" THEN {act[a].src} ELSE {}]
  BY DEF ImageRow
<1>5. hist'.based = hist.based \cup IF act[a].op = "snapshot" THEN {act[a].src} ELSE {}
  BY <1>4 DEF Tables, RestOk
<1>6. QED
  BY <1>1, <1>2, <1>3, <1>5 DEF ImageRow, Over

LEMMA Touch ==
    ASSUME Acts, Tables, NEW a \in Actors, Step(a)
    PROVE  /\ \A j \in Images : img'[j] = img[j] \/ Works(a, j)
           /\ \A j \in Images : file'[j] = file[j] \/ Works(a, j)
           /\ \A j \in Images : img'[j] # None =>
                 \/ img[j] # None /\ img'[j].parent = img[j].parent
                 \/ img'[j].parent = "none"
                 \/ Active(a) /\ act[a].op \in {"create", "snapshot"} /\ img'[j].parent = act[a].src
<1>1. \A j \in Images : img'[j] = img[j] \/ Works(a, j)
  <2>1. CASE ImageRow(a) /\ img' # img
    BY <2>1, RowAdded DEF Works, Active, ImageOps, Tables, ImagesOk, ImageRow, At
  <2>2. CASE ResizeRow(a)
    BY <2>2 DEF ResizeRow, At, Works, Active, ImageOps, Tables, ImagesOk
  <2>3. CASE UnRow(a)
    BY <2>3 DEF UnRow, At, Works, Active, ImageOps, Tables, ImagesOk
  <2>4. QED
    BY <2>1, <2>2, <2>3, Quiet
<1>2. \A j \in Images : file'[j] = file[j] \/ Works(a, j)
  <2>1. CASE Snapshot(a)
    BY <2>1 DEF Snapshot, At, Works, Active, ImageOps, Tables, FilesOk
  <2>2. CASE Fill(a)
    BY <2>2 DEF Fill, At, Works, Active, ImageOps, Tables, FilesOk
  <2>3. CASE Filled(a)
    BY <2>3 DEF Filled, At, Works, Active, ImageOps, Tables, FilesOk
  <2>4. CASE Resize(a)
    BY <2>4 DEF Resize, At, Works, Active, ImageOps, Tables, FilesOk
  <2>5. CASE Unlink(a)
    BY <2>5 DEF Unlink, At, Works, Active, ImageOps, Tables, FilesOk
  <2>6. QED
    BY <2>1, <2>2, <2>3, <2>4, <2>5, Quiet
<1>3. ASSUME NEW j \in Images, img'[j] # None
      PROVE  \/ img[j] # None /\ img'[j].parent = img[j].parent
             \/ img'[j].parent = "none"
             \/ Active(a) /\ act[a].op \in {"create", "snapshot"} /\ img'[j].parent = act[a].src
  <2>1. CASE img' = img
    BY <1>3, <2>1
  <2>2. CASE ImageRow(a) /\ img' # img
    <3>1. CASE j = act[a].img
      <4>0. PICK k : img' = [img EXCEPT ![j] = [st |-> "row", size |-> 1, parent |-> Over(act[a]), kind |-> k]]
        BY <2>2, <3>1, RowAdded
      <4>1. img'[j].parent = Over(act[a])
        BY <4>0 DEF Tables, ImagesOk
      <4>2. QED
        BY <2>2, <4>1 DEF Over, Active, ImageRow, At
    <3>2. CASE j # act[a].img
      BY <1>3, <2>2, <3>2, RowAdded DEF Tables, ImagesOk
    <3>3. QED
      BY <3>1, <3>2
  <2>3. CASE ResizeRow(a)
    <3> DEFINE i == act[a].img
    <3>1. img' = img \/ (img[i] # None /\ img' = [img EXCEPT ![i] = [img[i] EXCEPT !.size = 2]])
      BY <2>3 DEF ResizeRow
    <3> HIDE DEF i
    <3>2. QED
      BY <1>3, <3>1 DEF Tables, ImagesOk
  <2>4. CASE UnRow(a)
    BY <1>3, <2>4 DEF UnRow, Tables, ImagesOk
  <2>5. QED
    BY <2>1, <2>2, <2>3, <2>4, Quiet
<1>4. QED
  BY <1>1, <1>2, <1>3

(* A row that goes had no children.                                        *)
LEMMA RowGone ==
    ASSUME Acts, Tables, NEW a \in Actors, Step(a), NEW j \in Images, img[j] # None, img'[j] = None
    PROVE  UnRow(a) /\ act[a].img = j /\ Children(j) = {} /\ img' = [img EXCEPT ![j] = None]
<1>1. ~ImageRow(a)
  BY RowAdded DEF Tables, ImagesOk, None
<1>2. ~ResizeRow(a)
  <2>1. SUFFICES ASSUME ResizeRow(a) PROVE FALSE
    OBVIOUS
  <2> DEFINE i == act[a].img
  <2>2. img' = img \/ (img[i] # None /\ img' = [img EXCEPT ![i] = [img[i] EXCEPT !.size = 2]])
    BY <2>1 DEF ResizeRow
  <2> HIDE DEF i
  <2>3. i = j /\ img'[j] = [img[j] EXCEPT !.size = 2]
    BY <2>2 DEF Tables, ImagesOk
  <2>4. img'[j].st = "row" /\ DOMAIN img'[j] = {"st", "kind", "parent", "size"}
    BY <2>3 DEF Tables, ImagesOk
  <2>5. QED
    BY <2>4 DEF None
<1>3. UnRow(a)
  BY <1>1, <1>2, Quiet
<1>4. QED
  BY <1>3 DEF UnRow, Tables, ImagesOk

LEMMA LinkedStep ==
    ASSUME Acts, Tables, Linked, NEW a \in Actors, Step(a)
    PROVE  Linked'
<1> SUFFICES ASSUME NEW i \in Images, img'[i] # None, img'[i].parent # "none"
             PROVE  img'[img'[i].parent] # None /\ img'[i].parent \in Bases \cup hist'.based
  BY DEF Linked
<1>0. PICK p \in Images : p = img'[i].parent
  BY TablesStep DEF Tables, ImagesOk
<1>1. CASE img[i] # None /\ p = img[i].parent
  <2>1. img[p] # None /\ p \in Bases \cup hist'.based
    BY <1>0, <1>1, RestStep DEF Linked
  <2>2. img'[p] # None
    <3>1. SUFFICES ASSUME img'[p] = None PROVE FALSE
      OBVIOUS
    <3>2. Children(p) = {}
      BY <1>0, <2>1, <3>1, RowGone
    <3>3. i \in Children(p)
      BY <1>0, <1>1 DEF Children
    <3>4. QED
      BY <3>2, <3>3
  <2>3. QED
    BY <1>0, <2>1, <2>2
<1>2. CASE ~(img[i] # None /\ p = img[i].parent)
  <2>1. Active(a) /\ act[a].op \in {"create", "snapshot"} /\ p = act[a].src
    BY <1>0, <1>2, Touch
  <2>2. ImageRow(a) /\ img' # img
    BY <1>0, <1>2, <2>1, Quiet DEF ResizeRow, UnRow, At
  <2>3. img[p] # None /\ img[act[a].img] = None /\ IsRequest(act[a])
        /\ hist'.based = hist.based \cup IF act[a].op = "snapshot" THEN {act[a].src} ELSE {}
    BY <2>1, <2>2, RowAdded
  <2>4. p \in Bases \cup hist'.based
    BY <2>1, <2>3 DEF IsRequest, VmOps
  <2>5. img'[p] # None
    <3>1. img'[p] = img[p]
      BY <1>0, <2>2, <2>3, RowAdded DEF Tables, ImagesOk
    <3>2. QED
      BY <2>3, <3>1
  <2>6. QED
    BY <1>0, <2>4, <2>5
<1>3. QED
  BY <1>1, <1>2

(* The images boot finds files of.                                         *)
LEMMA BootRowAdded ==
    ASSUME Tables, BootImage, img' # img
    PROVE  \E j \in Images : \E n :
              /\ img[j] = None /\ file[j] # None
              /\ img' = [img EXCEPT ![j] = [st |-> "row", kind |-> "Base", parent |-> "none", size |-> n]]
<1>1. PICK j \in boot.files :
         img' = IF img[j] = None /\ file[j] # None
                THEN [img EXCEPT ![j] = [st |-> "row", kind |-> "Base", parent |-> "none",
                                         size |-> file[j].size]]
                ELSE img
  BY DEF BootImage
<1>2. j \in Images
  BY <1>1 DEF Tables, RestOk
<1>3. QED
  BY <1>1, <1>2

LEMMA LinkedOutside ==
    ASSUME Acts, Tables, Docker, Linked,
           UNCHANGED vars \/ (\E c \in Conts : Exit(c)) \/ Analyse \/ Crash \/ BootList \/ BootRow \/ BootImage
    PROVE  Linked'
<1>1. hist'.based = hist.based
  BY TablesRest
<1>2. CASE img' = img
  BY <1>1, <1>2 DEF Linked
<1>3. CASE img' # img
  <2>1. PICK j \in Images : \E n : img[j] = None /\
           img' = [img EXCEPT ![j] = [st |-> "row", kind |-> "Base", parent |-> "none", size |-> n]]
    BY <1>3, Outside, BootRowAdded DEF vars
  <2>2. img'[j] # None /\ img'[j].parent = "none" /\ \A i \in Images : i # j => img'[i] = img[i]
    BY <2>1 DEF Tables, ImagesOk, None
  <2>3. QED
    BY <1>1, <2>1, <2>2 DEF Linked, Tables, ImagesOk
<1>4. QED
  BY <1>2, <1>3

(* The one that works on an image nothing was wrong with is alone on it.   *)
LEMMA WorksWrites ==
    ASSUME Acts, NEW a \in Actors, NEW i \in Images, Works(a, i)
    PROVE  i \in Writes(act[a])
<1>1. CASE act[a].op \in ImageOps \cup {"create"}
  BY <1>1 DEF Works, Writes
<1>2. CASE act[a].op = "Destroying"
  <2>1. a \in Vms /\ act[a].v = a /\ act[a].img \in Snaps(a)
    BY <1>2, TaskOf, Disjoint DEF Works, Active, Tasks, Acts
  <2>2. QED
    BY <1>2, <2>1 DEF Works, Writes, Snaps
<1>3. QED
  BY <1>1, <1>2 DEF Works

LEMMA Sole ==
    ASSUME Acts, Apart, NEW a \in Actors, NEW i \in Images \cap hist.fine, Works(a, i),
           NEW b \in Actors, b # a, Active(b)
    PROVE  i \notin Uses(act[b]) /\ ~Works(b, i)
<1>1. Active(a) /\ i \in Writes(act[a])
  BY WorksWrites DEF Works
<1>2. i \notin Uses(act[b])
  BY <1>1, Excluded
<1>3. QED
  BY <1>2, WorksWrites DEF Uses

(* The step of another leaves the image, and what was read of it, alone.   *)
LEMMA StageKept ==
    ASSUME Acts, Tables, Apart, NEW a \in Actors, Step(a), NEW b \in Actors, b # a,
           NEW i \in Images \cap hist.fine, Works(b, i), Stage(b, i)
    PROVE  Stage(b, i)'
<1>0. Active(a) /\ Active(b) /\ act'[b] = act[b]
  BY StepMoves DEF Moved, Others, Works
<1>1. ~Works(a, i) /\ i \notin Uses(act[a])
  BY <1>0, Sole
<1>2. img'[i] = img[i] /\ file'[i] = file[i]
  BY <1>1, Touch
<1>3. Children(i) = {} => Children(i)' = {}
  <2>1. SUFFICES ASSUME NEW j \in Images, img'[j] # None, img'[j].parent = i
                 PROVE  img[j] # None /\ img[j].parent = i
    BY DEF Children
  <2>2. i # "none" /\ (act[a].op \in {"create", "snapshot"} => act[a].src # i)
    BY <1>1, Disjoint DEF Uses
  <2>3. QED
    BY <2>1, <2>2, Touch
<1>4. ASSUME act[b].op \in {"create", "snapshot"}, img[act[b].src] # None
      PROVE  img'[act[b].src] # None
  <2>1. act[b].src \in Uses(act[b]) /\ act[b].src \in Images
    BY <1>0, <1>4, RequestOf, Disjoint DEF Uses, Active, IsRequest, ImageOps, VmOps
  <2>2. SUFFICES ASSUME img'[act[b].src] = None PROVE FALSE
    OBVIOUS
  <2>3. Works(a, act[b].src)
    BY <1>4, <2>1, <2>2, Touch
  <2>4. act[b].src \in Writes(act[a])
    BY <2>1, <2>3, WorksWrites
  <2>5. i \in Writes(act[b])
    BY WorksWrites
  <2>6. QED
    BY <1>0, <2>1, <2>4, <2>5, Excluded
<1>5. Settled(i) => Settled(i)'
  BY <1>2 DEF Settled
<1>6. QED
  BY <1>0, <1>2, <1>3, <1>4, <1>5 DEF Stage, Over

(* A step of the one that works on the image.                              *)
Early == {"free", "file", "fill", "row", "size", "unlink", "unrow"}

After(a, i) == IF Works(a, i)' THEN Stage(a, i)' ELSE Settled(i)'

LEMMA OwnQuiet ==
    ASSUME NEW a, NEW i, Works(a, i), Stage(a, i), act[a].pc \notin Midway,
           UNCHANGED <<img, file>>, act'[a] = None \/ act'[a].pc \notin Early
    PROVE  After(a, i)
<1>1. Settled(i)'
  BY DEF Stage, Settled
<1>2. QED
  BY <1>1 DEF After, Stage, Early, Works, Active, Midway

LEMMA OwnEnds ==
    ASSUME NEW a, NEW i, Ends(a), Settled(i)'
    PROVE  After(a, i)
BY DEF After, Ends, Works, Active

LEMMA OwnRead ==
    ASSUME Acts, Tables, NEW a \in Actors, NEW i \in Images, Works(a, i), Stage(a, i),
           CheckVm(a) \/ ReadSource(a) \/ NameFree(a)
    PROVE  After(a, i)
<1>0. act[a].img = i /\ Active(a) /\ UNCHANGED <<img, file>>
  BY DEF Works, CheckVm, ReadSource, NameFree, store
<1>1. act[a].pc \notin Midway /\ Settled(i) /\ Settled(i)'
  BY <1>0 DEF Stage, CheckVm, ReadSource, NameFree, At, Midway, Settled
<1>2. End(a) => After(a, i)
  BY <1>0, <1>1, EndDo, OwnEnds
<1>3. CASE CheckVm(a) /\ ~End(a)
  <2>1. Goes(a, "source")
    BY <1>0, <1>3, GoDo DEF CheckVm
  <2>2. QED
    BY <1>0, <1>1, <2>1, OwnQuiet DEF Goes, Early
<1>4. CASE ReadSource(a) /\ ~End(a)
  <2>1. Goes(a, "free") /\ img[act[a].src] # None
    BY <1>0, <1>4, GoDo DEF ReadSource
  <2>2. QED
    BY <1>0, <1>1, <2>1 DEF Goes, After, Works, Active, Stage, Midway
<1>5. CASE NameFree(a) /\ ~End(a)
  <2>1. Goes(a, "file") /\ img[i] = None
    BY <1>0, <1>5, GoDo DEF NameFree
  <2>2. act[a].op \in {"create", "snapshot"} => act[a].pc = "free"
    BY <1>5 DEF NameFree, At
  <2>3. QED
    BY <1>0, <1>1, <2>1, <2>2 DEF Goes, After, Works, Active, Stage, Midway
<1>6. QED
  BY <1>2, <1>3, <1>4, <1>5

LEMMA OwnFile ==
    ASSUME Acts, Tables, NEW a \in Actors, NEW i \in Images, Works(a, i), Stage(a, i), i \in hist'.fine,
           Snapshot(a) \/ Fill(a) \/ Filled(a)
    PROVE  After(a, i)
<1>0. act[a].img = i /\ Active(a) /\ UNCHANGED img
  BY DEF Works, Snapshot, Fill, Filled
<1>a. img[i] = None
  BY <1>0 DEF Stage, Snapshot, Fill, Filled, At
<1>1. CASE Snapshot(a)
  <2>1. act[a].op \in {"create", "snapshot"} /\ act[a].pc = "file" /\ img[act[a].src] # None /\ Settled(i)
    BY <1>1 DEF Snapshot, At, Stage, Midway
  <2>2. CASE Whole(act[a].src)
    <3>1. Goes(a, "row") /\ file' = [file EXCEPT ![i] = [st |-> "full", over |-> act[a].src, size |-> 1]]
      BY <1>0, <1>1, <2>2, GoDo DEF Snapshot
    <3>2. file'[i] = [st |-> "full", over |-> act[a].src, size |-> 1]
      BY <3>1 DEF Tables, FilesOk
    <3>3. Over(act'[a]) = act[a].src
      BY <2>1, <3>1 DEF Over, Goes
    <3>4. QED
      BY <1>0, <1>a, <2>1, <3>1, <3>2, <3>3 DEF Goes, After, Works, Active, Stage, Midway
  <2>3. CASE ~Whole(act[a].src)
    <3>1. Ends(a) /\ UNCHANGED file
      BY <1>1, <2>3, EndDo DEF Snapshot
    <3>2. QED
      BY <1>0, <2>1, <3>1, OwnEnds DEF Settled
  <2>4. QED
    BY <2>2, <2>3
<1>2. CASE Fill(a)
  <2>1. Goes(a, "fill") /\ act[a].op \in {"import", "clone"}
    BY <1>0, <1>2, GoDo DEF Fill, At
  <2>2. QED
    BY <1>0, <1>a, <2>1 DEF Goes, After, Works, Active, Stage, Midway
<1>3. CASE Filled(a)
  <2>1. act[a].op \in {"import", "clone"}
    BY <1>3 DEF Filled, At
  <2>2. ASSUME hist' = [hist EXCEPT !.fine = @ \ {i}] PROVE FALSE
    BY <2>2 DEF Tables, RestOk
  <2>3. CASE file' = [file EXCEPT ![i] = [st |-> "full", over |-> "none", size |-> 1]] /\ Go(a, "row")
    <3>1. Goes(a, "row") /\ file'[i] = [st |-> "full", over |-> "none", size |-> 1]
      BY <1>0, <2>3, GoDo DEF Tables, FilesOk
    <3>2. Over(act'[a]) = "none" /\ act'[a].op \notin {"create", "snapshot"}
      BY <2>1, <3>1 DEF Over, Goes
    <3>3. QED
      BY <1>0, <1>a, <3>1, <3>2 DEF Goes, After, Works, Active, Stage, Midway
  <2>4. CASE file' = [file EXCEPT ![i] = None] /\ End(a)
    <3>1. Settled(i)'
      BY <1>0, <1>a, <2>4 DEF Tables, FilesOk, Settled
    <3>2. QED
      BY <2>4, <3>1, EndDo, OwnEnds
  <2>5. QED
    BY <1>0, <1>3, <2>2, <2>3, <2>4 DEF Filled
<1>4. QED
  BY <1>1, <1>2, <1>3

LEMMA OwnRow ==
    ASSUME Acts, Tables, NEW a \in Actors, NEW i \in Images, Works(a, i), Stage(a, i), ImageRow(a)
    PROVE  After(a, i)
<1>0. act[a].img = i /\ Active(a) /\ UNCHANGED file /\ act[a].pc = "row"
  BY DEF Works, ImageRow, At
<1>1. img[i] = None /\ file[i] = [st |-> "full", over |-> Over(act[a]), size |-> 1]
      /\ (act[a].op \in {"create", "snapshot"} => img[act[a].src] # None)
  BY <1>0 DEF Stage
<1>2. \E k : img' = [img EXCEPT ![i] = [st |-> "row", size |-> 1, parent |-> Over(act[a]), kind |-> k]]
  BY <1>0, <1>1 DEF ImageRow, Over
<1>3. Settled(i)'
  <2>1. PICK k : img'[i] = [st |-> "row", size |-> 1, parent |-> Over(act[a]), kind |-> k]
    BY <1>2 DEF Tables, ImagesOk
  <2>2. img'[i] # None /\ img'[i].parent = Over(act[a]) /\ img'[i].size = 1
    <3>1. img'[i].st = "row" /\ DOMAIN img'[i] = {"st", "size", "parent", "kind"}
      BY <2>1
    <3>2. QED
      BY <2>1, <3>1 DEF None
  <2>3. file'[i].over = Over(act[a]) /\ file'[i].size = 1 /\ file'[i].st = "full" /\ file'[i] # None
    BY <1>0, <1>1 DEF None
  <2>4. QED
    BY <2>2, <2>3 DEF Settled
<1>4. Goes(a, "status") \/ Ends(a)
  BY <1>0, <1>1, GoDo, EndDo DEF ImageRow
<1>5. QED
  BY <1>0, <1>3, <1>4, OwnEnds DEF Goes, After, Works, Active, Stage, Midway

LEMMA OwnResize ==
    ASSUME Acts, Tables, NEW a \in Actors, NEW i \in Images, Works(a, i), Stage(a, i),
           Resize(a) \/ ResizeRow(a)
    PROVE  After(a, i)
<1>0. act[a].img = i /\ Active(a) /\ act[a].op = "resize"
  BY DEF Works, Resize, ResizeRow, At
<1>1. CASE Resize(a)
  <2>1. Settled(i) /\ UNCHANGED img
    BY <1>1 DEF Resize, At, Stage, Midway
  <2>2. CASE img[i] # None /\ Whole(i)
    <3>1. Goes(a, "size") /\ file' = [file EXCEPT ![i] = [file[i] EXCEPT !.size = 2]]
      BY <1>0, <1>1, <2>2, GoDo DEF Resize
    <3>2. file'[i] = [file[i] EXCEPT !.size = 2] /\ DOMAIN file[i] = {"st", "over", "size"}
          /\ file[i].st = "full" /\ file[i].over = img[i].parent
      BY <2>1, <2>2, <3>1 DEF Tables, FilesOk, Settled
    <3>3. file'[i] = [st |-> "full", over |-> img[i].parent, size |-> 2]
      BY <3>2
    <3>4. QED
      BY <1>0, <2>1, <2>2, <3>1, <3>3 DEF Goes, After, Works, Active, Stage, Midway
  <2>3. CASE ~(img[i] # None /\ Whole(i))
    <3>1. Ends(a) /\ UNCHANGED file
      BY <1>0, <1>1, <2>3, EndDo DEF Resize
    <3>2. QED
      BY <2>1, <3>1, OwnEnds DEF Settled
  <2>4. QED
    BY <2>2, <2>3
<1>2. CASE ResizeRow(a)
  <2>1. img[i] # None /\ file[i] = [st |-> "full", over |-> img[i].parent, size |-> 2]
    BY <1>2 DEF ResizeRow, At, Stage
  <2>2. Ends(a) /\ UNCHANGED file /\ img' = [img EXCEPT ![i] = [img[i] EXCEPT !.size = 2]]
    BY <1>0, <1>2, <2>1, EndDo DEF ResizeRow
  <2>3. img'[i] = [img[i] EXCEPT !.size = 2] /\ DOMAIN img[i] = {"st", "kind", "parent", "size"} /\ img[i].st = "row"
    BY <2>1, <2>2 DEF Tables, ImagesOk
  <2>4. img'[i].st = "row" /\ DOMAIN img'[i] = {"st", "kind", "parent", "size"} /\ img'[i].size = 2
        /\ img'[i].parent = img[i].parent
    BY <2>3
  <2>5. Settled(i)'
    BY <2>1, <2>2, <2>4 DEF Settled, None
  <2>6. QED
    BY <2>2, <2>5, OwnEnds
<1>3. QED
  BY <1>1, <1>2

LEMMA OwnDelete ==
    ASSUME Acts, Tables, NEW a \in Actors, NEW i \in Images, Works(a, i), Stage(a, i),
           ReadChildren(a) \/ Unlink(a) \/ UnRow(a)
    PROVE  After(a, i)
<1>0. act[a].img = i /\ Active(a) /\ act[a].op \in {"rmi", "Destroying"}
  BY DEF Works, ReadChildren, Unlink, UnRow, At
<1>1. CASE ReadChildren(a)
  <2>1. Settled(i) /\ UNCHANGED <<img, file>> /\ Settled(i)'
    BY <1>1 DEF ReadChildren, At, Stage, Midway, Settled
  <2>2. Ends(a) \/ (Goes(a, "unlink") /\ Children(i) = {})
    BY <1>0, <1>1, GoDo, EndDo DEF ReadChildren, Err
  <2>3. QED
    BY <1>0, <2>1, <2>2, OwnEnds DEF Goes, After, Works, Active, Stage, Midway, Children
<1>2. CASE Unlink(a)
  <2>1. Goes(a, "unrow") /\ Children(i) = {} /\ UNCHANGED img /\ file'[i] = None
    BY <1>0, <1>2, GoDo DEF Unlink, At, Stage, Tables, FilesOk
  <2>2. QED
    BY <1>0, <2>1 DEF Goes, After, Works, Active, Stage, Midway, Children
<1>3. CASE UnRow(a)
  <2>1. Children(i) = {} /\ file[i] = None
    BY <1>3 DEF UnRow, At, Stage
  <2>2. img' = [img EXCEPT ![i] = None] /\ (Ends(a) \/ Goes(a, "vm")) /\ UNCHANGED file
    BY <1>0, <1>3, <2>1, GoDo, EndDo DEF UnRow
  <2>3. Settled(i)'
    BY <2>1, <2>2 DEF Tables, ImagesOk, Settled
  <2>4. QED
    BY <1>0, <2>2, <2>3, OwnEnds DEF Goes, After, Works, Active, Stage, Midway
<1>4. QED
  BY <1>1, <1>2, <1>3

(* The deletion of a vm outside of the image of its disk.                  *)
LEMMA DeletingPcs ==
    ASSUME Acts, Tables, NEW v \in Vms, TaskMove(v), act[v].op = "Destroying", ~TaskRead(v)
    PROVE  /\ act[v].pc \in {"rows", "kill", "killed", "vm", "specs", "status"}
           /\ act'[v] = None \/ act'[v].pc \in {"kill", "killed", "image", "specs", "status"}
           /\ act'[v] = None \/ act'[v].img = act[v].img
           /\ UNCHANGED <<img, file, hist>>
<1>0. v \in Actors /\ Active(v) /\ IsFrame(act[v])
  BY Disjoint, TaskMoves DEF Moved, Acts, Active
<1>1. TaskRows(v) \/ Kill(v) \/ Killed(v) \/ ClearVm(v) \/ ClearSpecs(v) \/ ClearStatus(v)
  BY DEF TaskMove, RemoveNamed, Make, NewProcess, StartInstances, StopInstances, Mark, At
<1>2. UNCHANGED <<img, file, hist>> /\ act[v].pc \in {"rows", "kill", "killed", "vm", "specs", "status"}
  BY <1>1 DEF TaskRows, Kill, Killed, ClearVm, ClearSpecs, ClearStatus, At, store
<1>3. ASSUME NEW pc, Go(v, pc) \/ End(v) PROVE act'[v] = None \/ (act'[v].pc = pc /\ act'[v].img = act[v].img)
  BY <1>0, <1>3, GoDo, EndDo DEF Goes, Ends
<1>4. CASE TaskRows(v)
  <2>1. act' = [act EXCEPT ![v].pc = "kill", ![v].todo = RowsOf(v)]
    BY <1>4 DEF TaskRows
  <2>2. act'[v] = [act[v] EXCEPT !.pc = "kill", !.todo = RowsOf(v)]
    BY <1>0, <2>1 DEF Acts
  <2>3. QED
    BY <1>0, <1>2, <2>2 DEF IsFrame
<1>5. CASE Kill(v)
  <2>1. CASE act[v].todo = {}
    BY <1>2, <1>3, <1>5, <2>1 DEF Kill
  <2>2. CASE act[v].todo # {}
    <3>1. PICK c : act' = [act EXCEPT ![v].pc = "killed", ![v].c = c, ![v].todo = @ \ {c}]
      BY <1>5, <2>2 DEF Kill
    <3>2. act'[v] = [act[v] EXCEPT !.pc = "killed", !.c = c, !.todo = @ \ {c}]
      BY <1>0, <3>1 DEF Acts
    <3>3. QED
      BY <1>0, <1>2, <3>2 DEF IsFrame
  <2>3. QED
    BY <2>1, <2>2
<1>6. CASE Killed(v) \/ ClearVm(v) \/ ClearSpecs(v) \/ ClearStatus(v)
  BY <1>2, <1>3, <1>6 DEF Killed, ClearVm, ClearSpecs, ClearStatus
<1>7. QED
  BY <1>1, <1>4, <1>5, <1>6

LEMMA OwnStep ==
    ASSUME Acts, Tables, NEW a \in Actors, Step(a), NEW i \in Images, Works(a, i), Stage(a, i),
           i \in hist'.fine, ~TaskRead(a)
    PROVE  After(a, i)
<1>0. Active(a)
  BY DEF Works
<1>1. CASE ImageStep(a)
  BY <1>1, OwnRead, OwnFile, OwnRow, OwnResize, OwnDelete DEF ImageStep
<1>2. CASE a \in Conns /\ VmStep(a)
  <2>1. CheckVm(a) \/ NewStatus(a) \/ NewSpec(a) \/ NewVm(a)
    BY <1>2 DEF VmStep, ReadVm, SetStatus, PatchVm, Emit, StartOne, At, Works, ImageOps
  <2>2. CASE NewStatus(a) \/ NewSpec(a) \/ NewVm(a)
    <3>1. UNCHANGED <<img, file>> /\ act[a].pc \in {"status", "spec", "vm"}
          /\ (End(a) \/ Go(a, "spec") \/ Go(a, "vm"))
      BY <2>2 DEF NewStatus, NewSpec, NewVm, At
    <3>2. Ends(a) \/ Goes(a, "spec") \/ Goes(a, "vm")
      BY <1>0, <3>1, GoDo, EndDo
    <3>3. QED
      BY <3>1, <3>2, OwnQuiet DEF Ends, Goes, Early, Midway
  <2>3. QED
    BY <2>1, <2>2, OwnRead
<1>3. CASE Fail(a)
  <2>1. hist' = [hist EXCEPT !.fine = IF Half(act[a]) THEN @ \ Writes(act[a]) ELSE @,
                             !.synced = @ /\ act[a].pc # "process"]
    BY <1>3 DEF Fail
  <2>2. ~Half(act[a])
    BY <2>1, WorksWrites DEF Tables, RestOk
  <2>3. act[a].pc \notin Midway /\ Ends(a) /\ UNCHANGED <<img, file>>
    BY <1>3, <2>2, EndDo DEF Half, Midway, Fail, Err
  <2>4. QED
    BY <2>3, OwnQuiet DEF Ends
<1>4. CASE a \in Vms /\ TaskMove(a)
  <2>1. act[a].op = "Destroying"
    BY <1>4, TaskOf, RequestOf, Disjoint DEF Works, Active, ImageOps, VmOps
  <2>2. QED
    BY <1>4, <2>1, DeletingPcs, OwnQuiet DEF Early, Midway
<1>5. QED
  BY <1>1, <1>2, <1>3, <1>4 DEF Step

LEMMA SameImage ==
    ASSUME Acts, Tables, NEW a \in Actors, Step(a), ~TaskRead(a), act'[a] # None,
           act[a].op \in ImageOps \cup {"create", "Destroying"}
    PROVE  act'[a].img = act[a].img
<1>0. Moved(a) /\ Active(a)
  BY StepMoves DEF Moved
<1>1. CASE a \notin Vms
  BY <1>0, <1>1 DEF Moved
<1>2. CASE a \in Vms
  <2>1. act[a].op = "Destroying" /\ a \notin Conns
    BY <1>0, <1>2, RequestOf, Disjoint DEF Active, ImageOps, VmOps
  <2>2. CASE ImageStep(a)
    <3>1. ReadChildren(a) \/ Unlink(a) \/ UnRow(a)
      BY <2>1, <2>2 DEF ImageStep, ReadSource, NameFree, Snapshot, Fill, Filled, ImageRow, Resize, ResizeRow, At
    <3>2. End(a) \/ Go(a, "unlink") \/ Go(a, "unrow") \/ Go(a, "vm")
      BY <3>1 DEF ReadChildren, Unlink, UnRow, Err
    <3>3. QED
      BY <1>0, <3>2, GoDo, EndDo DEF Goes, Ends
  <2>3. CASE Fail(a)
    BY <2>3, EndDo DEF Fail, Err, Ends
  <2>4. CASE TaskMove(a)
    BY <1>2, <2>1, <2>4, DeletingPcs
  <2>5. QED
    BY <2>1, <2>2, <2>3, <2>4 DEF Step
<1>3. QED
  BY <1>1, <1>2

LEMMA ImageTaskRead ==
    ASSUME Acts, Tables, Apart, ImageInv, NEW v \in Vms, TaskRead(v), NEW i \in Images \cap hist.fine
    PROVE  IF Works(v, i)' THEN Stage(v, i)' ELSE Works(v, i) => Settled(i)'
<1>0. v \in Actors /\ Active(v) /\ act[v].pc = "begin" /\ UNCHANGED <<img, file>> /\ Moved(v)
  BY Disjoint, TaskMoves DEF TaskRead, At, Active, TaskMove
<1>1. Works(v, i) => Settled(i)'
  BY <1>0 DEF ImageInv, Stage, Midway, Settled
<1>2. CASE Works(v, i)'
  <2>1. act'[v].op = "Destroying" /\ act[v].op = "Destroying" /\ act[v].v = v
    BY <1>0, <1>2, TaskOf, RequestOf, Disjoint DEF Works, Active, ImageOps, VmOps, Moved, Acts, Tasks
  <2>2. act'[v].img = i /\ i \in Snaps(v)
    BY <1>0, <1>2, <2>1, Disjoint, ActsMoved DEF Works, Acts, Active
  <2>3. i \in Writes(act[v])
    BY <2>1, <2>2 DEF Writes, Snaps
  <2>4. ASSUME NEW b \in Actors, b # v PROVE ~Works(b, i)
    BY <1>0, <2>3, <2>4, WorksWrites, Excluded DEF Works, Uses
  <2>5. Settled(i)
    <3>1. CASE Works(v, i)
      BY <1>0, <3>1 DEF ImageInv, Stage, Midway
    <3>2. CASE ~Works(v, i)
      BY <2>4, <3>2 DEF ImageInv
    <3>3. QED
      BY <3>1, <3>2
  <2>6. act'[v].pc \in {"remove", "rows"}
    <3>1. CASE Err(v)
      BY <1>0, <1>2, <3>1, EndDo DEF Err, Ends, Works, Active
    <3>2. CASE ~Err(v)
      <4>1. PICK pc \in {"remove", "rows"} : act' = [act EXCEPT ![v].pc = pc, ![v].img = vm[v].img]
        BY <3>2 DEF TaskRead
      <4>2. act'[v] = [act[v] EXCEPT !.pc = pc, !.img = vm[v].img] /\ IsFrame(act[v])
        BY <1>0, <4>1 DEF Acts, Active
      <4>3. QED
        BY <4>2 DEF IsFrame
    <3>3. QED
      BY <3>1, <3>2
  <2>7. QED
    BY <1>0, <1>2, <2>1, <2>5, <2>6 DEF Stage, Midway, Settled
<1>3. QED
  BY <1>1, <1>2

LEMMA ImageInvStep ==
    ASSUME Acts, Tables, Apart, ImageInv, NEW a \in Actors, Step(a)
    PROVE  ImageInv'
<1>0. Moved(a) /\ hist'.fine \subseteq hist.fine
  BY StepMoves, RestStep
<1> SUFFICES ASSUME NEW i \in Images, i \in hist'.fine
             PROVE  /\ \A b \in Actors : Works(b, i)' => Stage(b, i)'
                    /\ (\A b \in Actors : ~Works(b, i)') => Settled(i)'
  BY DEF ImageInv
<1>1. i \in Images \cap hist.fine
  BY <1>0
<1>2. \A b \in Actors : b # a => (Works(b, i)' <=> Works(b, i))
  BY <1>0 DEF Moved, Others, Works, Active
<1>3. \A b \in Actors : b # a /\ Works(b, i) => Stage(b, i)'
  BY <1>1, StageKept DEF ImageInv
<1>4. CASE TaskRead(a)
  <2>1. a \in Vms /\ UNCHANGED <<img, file>>
    BY <1>4, TaskOf DEF TaskRead, At, Tasks
  <2>2. IF Works(a, i)' THEN Stage(a, i)' ELSE Works(a, i) => Settled(i)'
    BY <1>1, <1>4, <2>1, ImageTaskRead
  <2>3. (\A b \in Actors : ~Works(b, i)') => Settled(i)'
    BY <1>1, <1>2, <2>1, <2>2 DEF ImageInv, Settled
  <2>4. QED
    BY <1>2, <1>3, <2>2, <2>3
<1>5. CASE ~TaskRead(a) /\ Works(a, i)
  <2>1. After(a, i)
    BY <1>1, <1>5, OwnStep DEF ImageInv
  <2>2. QED
    BY <1>2, <1>3, <2>1 DEF After
<1>6. CASE ~TaskRead(a) /\ ~Works(a, i)
  <2>1. ~Works(a, i)'
    <3>1. QED
      BY <1>0, <1>6, SameImage DEF Works, Active, Moved
  <2>2. img'[i] = img[i] /\ file'[i] = file[i]
    BY <1>6, Touch
  <2>3. QED
    BY <1>1, <1>2, <1>3, <1>6, <2>1, <2>2 DEF ImageInv, Settled
<1>7. QED
  BY <1>4, <1>5, <1>6

LEMMA ImageInvBegun ==
    ASSUME Acts, Apart, ImageInv, NEW a \in Actors, NEW f, Begun(a, f), UNCHANGED <<img, file>>
    PROVE  ImageInv'
<1> SUFFICES ASSUME NEW i \in Images, i \in hist'.fine
             PROVE  /\ \A b \in Actors : Works(b, i)' => Stage(b, i)'
                    /\ (\A b \in Actors : ~Works(b, i)') => Settled(i)'
  BY DEF ImageInv
<1>1. i \in Images \cap hist.fine
  BY DEF Begun
<1>2. act[a] = None /\ act'[a] = f /\ f # None /\ f.pc = "begin" /\ \A b \in Actors : b # a => act'[b] = act[b]
  BY DEF Begun, Starts, Others
<1>3. \A b \in Actors : b # a => (Works(b, i)' <=> Works(b, i)) /\ (Stage(b, i)' <=> Stage(b, i))
  BY <1>2 DEF Works, Active, Stage, Settled, Children, Over
<1>4. Settled(i)' <=> Settled(i)
  BY DEF Settled
<1>5. ~Works(a, i)
  BY <1>2 DEF Works, Active
<1>6. ASSUME Works(a, i)' PROVE Stage(a, i)'
  <2>1. i \in Writes(f)
    <3>1. f.img = i /\ f.op \in ImageOps \cup {"create", "Destroying"}
      BY <1>2, <1>6 DEF Works
    <3>2. f.op = "Destroying" => f.v = a /\ f.img \in Snaps(a)
      BY <3>1, Disjoint DEF Begun, Starts, IsRequest, VmOps
    <3>3. QED
      BY <3>1, <3>2 DEF Writes, Snaps
  <2>2. ASSUME NEW b \in Actors, b # a PROVE ~Works(b, i)
    <3>1. SUFFICES ASSUME Works(b, i) PROVE FALSE
      OBVIOUS
    <3>2. i \in Uses(act[b]) /\ Active(b)
      BY <3>1, WorksWrites DEF Uses, Works
    <3>3. Clash(f, act[b]) # {}
      BY <2>1, <3>2 DEF Clash
    <3>4. Writes(f) \cap hist'.fine = {}
      BY <2>2, <3>2, <3>3 DEF Begun
    <3>5. QED
      BY <2>1, <3>4
  <2>3. Settled(i)
    BY <1>1, <1>5, <2>2 DEF ImageInv
  <2>4. QED
    BY <1>2, <1>4, <2>3 DEF Stage, Midway
<1>7. QED
  BY <1>1, <1>2, <1>3, <1>4, <1>5, <1>6 DEF ImageInv

LEMMA ImageInvOutside ==
    ASSUME Acts, Tables, Apart, ImageInv,
           UNCHANGED vars \/ (\E c \in Conts : Exit(c)) \/ Analyse \/ Crash \/ BootList \/ BootRow \/ BootImage
    PROVE  ImageInv'
<1>1. CASE Crash
  <2>1. UNCHANGED <<img, file>> /\ act' = [a \in Actors |-> None]
        /\ hist' = [hist EXCEPT !.fine = @ \ UNION {Writes(act[a]) : a \in {b \in Actors : act[b] # None}},
                                !.synced = FALSE]
    BY <1>1, Outside DEF Crash
  <2>2. hist'.fine = hist.fine \ UNION {Writes(act[a]) : a \in {b \in Actors : act[b] # None}}
    BY <2>1 DEF Tables, RestOk
  <2>3. ASSUME NEW i \in Images, i \in hist'.fine PROVE Settled(i)'
    <3>1. \A a \in Actors : ~Works(a, i)
      BY <2>2, <2>3, WorksWrites DEF Works, Active
    <3>2. Settled(i)
      BY <2>2, <2>3, <3>1 DEF ImageInv
    <3>3. QED
      BY <2>1, <3>2 DEF Settled
  <2>4. QED
    BY <2>1, <2>3 DEF ImageInv, Works, Active
<1>2. CASE BootImage /\ img' # img
  <2>1. UNCHANGED <<file, act, hist>> /\ boot.pc # "off"
    BY <1>2, Outside DEF BootImage
  <2>2. PICK j \in Images : \E n : img[j] = None /\ file[j] # None
           /\ img' = [img EXCEPT ![j] = [st |-> "row", kind |-> "Base", parent |-> "none", size |-> n]]
    BY <1>2, BootRowAdded
  <2>3. ASSUME NEW i \in Images, i \in hist'.fine
        PROVE  (\A a \in Actors : ~Works(a, i)') /\ Settled(i)'
    <3>1. \A a \in Actors : ~Works(a, i)
      BY <2>1, <2>3, WorksWrites DEF Apart, Works
    <3>2. Settled(i)
      BY <2>1, <2>3, <3>1 DEF ImageInv
    <3>3. i # j
      BY <2>2, <3>2 DEF Settled
    <3>4. img'[i] = img[i]
      BY <2>2, <3>3 DEF Tables, ImagesOk
    <3>5. QED
      BY <2>1, <3>1, <3>2, <3>4 DEF Settled, Works, Active
  <2>4. QED
    BY <2>3 DEF ImageInv
<1>3. CASE ~Crash /\ ~(BootImage /\ img' # img)
  <2>1. UNCHANGED <<img, file, act>> /\ hist'.fine = hist.fine
    BY <1>3, Outside DEF vars, BootRow, Tables, RestOk
  <2>2. QED
    BY <2>1 DEF ImageInv, Works, Active, Stage, Settled, Children, Over
<1>4. QED
  BY <1>1, <1>2, <1>3

Stored == Core /\ Apart /\ Linked /\ ImageInv

LEMMA StoredInit == Init => Stored
<1> SUFFICES ASSUME Init PROVE Stored
  OBVIOUS
<1>1. \A a \in Actors : act[a] = None
  BY DEF Init
<1>2. Apart
  BY <1>1, Disjoint DEF Init, Apart, Active, Idle
<1>3. \A i \in Images : img[i] # None =>
         i \in Bases /\ img[i] = [st |-> "row", kind |-> "Base", parent |-> "none", size |-> 1]
  BY DEF Init
<1>4. Linked
  BY <1>3 DEF Linked
<1>5. \A i \in Images : Settled(i)
  <2>1. SUFFICES ASSUME NEW i \in Images PROVE Settled(i)
    OBVIOUS
  <2>2. CASE i \in Bases
    <3>1. /\ img[i] = [st |-> "row", kind |-> "Base", parent |-> "none", size |-> 1]
          /\ file[i] = [st |-> "full", over |-> "none", size |-> 1]
      BY <2>1, <2>2 DEF Init
    <3>2. img[i] # None /\ file[i] # None
      BY <3>1 DEF None
    <3>3. QED
      BY <3>1, <3>2 DEF Settled
  <2>3. CASE i \notin Bases
    BY <2>1, <2>3 DEF Init, Settled
  <2>4. QED
    BY <2>2, <2>3
<1>6. ImageInv
  BY <1>1, <1>5 DEF ImageInv, Works, Active
<1>7. QED
  BY <1>2, <1>4, <1>6, CoreInit DEF Stored

LEMMA StoredBegun ==
    ASSUME Stored, NEW a \in Actors, NEW f, Begun(a, f), UNCHANGED <<img, file>>
    PROVE  Apart' /\ Linked' /\ ImageInv'
<1>1. Linked'
  BY DEF Stored, Linked, Begun
<1>2. QED
  BY <1>1, ApartBegun, ImageInvBegun DEF Stored, Core

LEMMA StoredNext == Stored /\ [Next]_vars => Stored'
<1> SUFFICES ASSUME Stored, [Next]_vars PROVE Stored'
  OBVIOUS
<1>0. Core'
  BY CoreNext DEF Stored
<1>1. ASSUME NEW a \in Actors, Step(a) PROVE Stored'
  <2>1. Moved(a) /\ hist'.fine \subseteq hist.fine /\ boot' = boot
    BY <1>1, StepMoves, RestStep, Quiet DEF Stored, Core
  <2>2. QED
    BY <1>0, <1>1, <2>1, ApartMoved, LinkedStep, ImageInvStep DEF Stored, Core
<1>2. ASSUME NEW k \in Conns, NEW op \in ImageOps \cup VmOps, Request(k, op) PROVE Stored'
  BY <1>0, <1>2, RequestBegun, StoredBegun, Disjoint DEF Stored
<1>3. ASSUME NEW v \in Vms, Dispatch(v) PROVE Stored'
  BY <1>0, <1>3, DispatchDo, StoredBegun, Disjoint, Outside DEF Stored, Core
<1>4. CASE UNCHANGED vars \/ (\E c \in Conts : Exit(c)) \/ Analyse \/ Crash \/ BootList \/ BootRow \/ BootImage
  BY <1>0, <1>4, ApartOutside, LinkedOutside, ImageInvOutside DEF Stored, Core, ContInv
<1>5. QED
  BY <1>1, <1>2, <1>3, <1>4, NextCases DEF Stored, Core

LEMMA StoredFiles == Stored => ImageHasFile
<1> SUFFICES ASSUME Stored, Rest, NEW i \in Images, i \in hist.fine, img[i] # None,
                    img[i].parent # "none" => img[i].parent \in hist.fine
             PROVE  Whole(i) /\ file[i].size = img[i].size
  BY DEF ImageHasFile
<1>1. \A j \in Images \cap hist.fine : Settled(j)
  BY DEF Stored, ImageInv, Rest, Works, Active
<1>2. file[i] # None /\ file[i].st = "full" /\ file[i].over = img[i].parent /\ file[i].size = img[i].size
  BY <1>1 DEF Settled
<1>3. img[i].parent # "none" => file[img[i].parent] # None
  <2>1. img[i].parent # "none" => img[i].parent \in Images /\ img[img[i].parent] # None
    BY DEF Stored, Core, Tables, ImagesOk, Linked
  <2>2. QED
    BY <1>1, <2>1 DEF Settled
<1>4. QED
  BY <1>2, <1>3 DEF Whole

(* The invariant of the images.                                            *)
THEOREM VmStored == Spec => []Stored
<1>1. QED
  BY StoredInit, StoredNext, PTL DEF Spec

(* An image with a row can be used: import, snapshot, clone, resize and    *)
(* delete_by_pk, a request's or a task's, leave row and file in agreement, *)
(* whatever the others did to other images meanwhile.                      *)
THEOREM ImagesHaveFiles == Spec => []ImageHasFile
<1>1. QED
  BY VmStored, StoredFiles, PTL
-----------------------------------------------------------------------------
(* The rows of a vm.                                                       *)
LEMMA WriterIs ==
    ASSUME Acts, NEW a \in Actors, NEW v \in Vms, Writer(a, v)
    PROVE  /\ v \in Writes(act[a]) /\ v \in Uses(act[a])
           /\ act[a].op \in {"create", "patch"} => a \in Conns /\ IsRequest(act[a])
           /\ act[a].op = "create" =>
                 act[a].src \in Bases /\ act[a].img \in Snaps(v) /\ act[a].src \in Uses(act[a])
           /\ act[a].op = "Destroying" => a = v /\ Snaps(v) \subseteq Writes(act[a])
<1>1. act[a].op \in {"create", "patch"} => a \in Conns /\ IsRequest(act[a])
  BY RequestOf DEF Writer, Active, VmOps
<1>2. act[a].op = "create" => act[a].src \in Bases /\ act[a].img \in Snaps(v)
  BY <1>1 DEF Writer, IsRequest, Snaps
<1>3. act[a].op = "Destroying" => a = v
  BY TaskOf DEF Writer, Active, Tasks, Acts
<1>4. QED
  BY <1>1, <1>2, <1>3 DEF Writer, Writes, Uses, Snaps

LEMMA SoleWriter ==
    ASSUME Acts, Apart, NEW v \in Vms \cap hist.fine, NEW a \in Actors, NEW b \in Actors,
           Writer(a, v), Writer(b, v)
    PROVE  a = b
<1>1. SUFFICES ASSUME a # b PROVE FALSE
  OBVIOUS
<1>2. v \in Writes(act[a]) /\ v \in Uses(act[b]) /\ Active(a) /\ Active(b)
  BY WriterIs DEF Writer
<1>3. QED
  BY <1>1, <1>2, Excluded

(* The rows of the vm are there as they were.                              *)
SameRows(v) ==
    /\ vm'[v] = vm[v]
    /\ status'[v] = None <=> status[v] = None
    /\ v \in specs' <=> v \in specs
    /\ \A j \in Snaps(v) : (img'[j] = None <=> img[j] = None) /\ (file'[j] = None <=> file[j] = None)

LEMMA CleanKept ==
    ASSUME Tables, NEW v \in Vms, SameRows(v), Clean(v)
    PROVE  Clean(v)'
<1>1. CASE vm[v] = None
  BY <1>1 DEF SameRows, Clean, NoDisk
<1>2. CASE vm[v] # None
  <2>1. vm[v].img \in Snaps(v)
    BY <1>2 DEF Tables, VmsOk
  <2>2. QED
    BY <1>2, <2>1 DEF SameRows, Clean, OneDisk
<1>3. QED
  BY <1>1, <1>2

(* Only the one that writes a vm nothing was wrong with changes its rows.  *)
LEMMA VmTouch ==
    ASSUME Acts, Tables, Apart, NEW a \in Actors, Step(a), NEW v \in Vms \cap hist.fine, ~Writer(a, v)
    PROVE  SameRows(v)
<1>1. vm'[v] = vm[v]
  <2>1. CASE NewVm(a)
    BY <2>1 DEF NewVm, At, Writer, Active, Tables, VmsOk
  <2>2. CASE ClearVm(a)
    <3>1. a \in Vms /\ act[a].v = a
      BY <2>2, TaskOf DEF ClearVm, At, Tasks, Acts
    <3>2. QED
      BY <2>2, <3>1 DEF ClearVm, At, Writer, Active, Tables, VmsOk
  <2>3. QED
    BY <2>1, <2>2, Quiet
<1>2. status'[v] = None <=> status[v] = None
  <2>1. CASE NewStatus(a)
    BY <2>1 DEF NewStatus, At, Writer, Active, Tables, StatusOk
  <2>2. CASE ClearStatus(a)
    <3>1. a \in Vms /\ act[a].v = a
      BY <2>2, TaskOf DEF ClearStatus, At, Tasks, Acts
    <3>2. QED
      BY <2>2, <3>1 DEF ClearStatus, At, Writer, Active, Tables, StatusOk
  <2>3. QED
    BY <2>1, <2>2, StatusKept
<1>3. v \in specs' <=> v \in specs
  <2>1. CASE ClearSpecs(a)
    <3>1. a \in Vms /\ act[a].v = a
      BY <2>1, TaskOf DEF ClearSpecs, At, Tasks, Acts
    <3>2. QED
      BY <2>1, <3>1 DEF ClearSpecs, At, Writer, Active
  <2>2. QED
    BY <2>1, Quiet DEF NewSpec, At, Writer, Active
<1>4. ASSUME NEW j \in Snaps(v)
      PROVE  (img'[j] = None <=> img[j] = None) /\ (file'[j] = None <=> file[j] = None)
  <2>0. j \in Images /\ j \notin Extra
    BY Disjoint
  <2>1. CASE ~Works(a, j)
    BY <2>0, <2>1, Touch
  <2>2. CASE Works(a, j)
    <3>1. act[a].op = "resize"
      <4>1. act[a].op \notin {"import", "snapshot", "clone"}
        BY <2>0, <2>2, RequestOf DEF Works, Active, IsRequest, ImageOps, VmOps
      <4>2. act[a].op # "rmi"
        <5>1. PICK b \in Bases : j = SnapName[b][v]
          BY DEF Snaps
        <5>2. QED
          BY <2>2, <5>1, RequestOf DEF Works, Active, ImageOps, Apart
      <4>3. act[a].op # "create"
        <5>1. act[a].op = "create" => act[a].v \in Vms /\ j \in Snaps(act[a].v)
          BY <2>2, RequestOf DEF Works, Active, IsRequest, VmOps, Snaps
        <5>2. QED
          BY <2>2, <5>1, Disjoint DEF Works, Writer
      <4>4. act[a].op # "Destroying"
        <5>1. act[a].op = "Destroying" => a \in Vms /\ act[a].v = a /\ j \in Snaps(a)
          BY <2>0, <2>2, TaskOf, Disjoint DEF Works, Active, Tasks, Acts
        <5>2. QED
          BY <2>2, <5>1, Disjoint DEF Works, Writer
      <4>5. QED
        BY <2>2, <4>1, <4>2, <4>3, <4>4 DEF Works, ImageOps
    <3>2. img'[j] = None <=> img[j] = None
      <4>1. img' = img \/ ResizeRow(a)
        BY <3>1, Quiet DEF ImageRow, UnRow, At
      <4>2. img[j] = None => img'[j] = None
        BY <2>2, <4>1 DEF ResizeRow, Works
      <4>3. img[j] # None => img'[j] # None
        BY <2>0, <3>1, RowGone DEF UnRow, At
      <4>4. QED
        BY <4>2, <4>3
    <3>3. file'[j] = None <=> file[j] = None
      <4>1. file' = file \/ Resize(a)
        BY <3>1, Quiet DEF Snapshot, Fill, Filled, Unlink, At
      <4>2. file' = file \/ (file[j] # None /\ file' = [file EXCEPT ![j] = [file[j] EXCEPT !.size = 2]])
        BY <2>2, <4>1 DEF Resize, Works, Whole
      <4>3. ASSUME file[j] # None, file' = [file EXCEPT ![j] = [file[j] EXCEPT !.size = 2]]
            PROVE  file'[j] # None
        <5>1. file'[j] = [file[j] EXCEPT !.size = 2] /\ DOMAIN file[j] = {"st", "over", "size"}
          BY <2>0, <4>3 DEF Tables, FilesOk
        <5>2. DOMAIN file'[j] = {"st", "over", "size"}
          BY <5>1
        <5>3. QED
          BY <5>2 DEF None
      <4>4. QED
        BY <4>2, <4>3
    <3>4. QED
      BY <3>2, <3>3
  <2>3. QED
    BY <2>1, <2>2
<1>5. QED
  BY <1>1, <1>2, <1>3, <1>4 DEF SameRows

(* The step of another leaves the stage of the one that writes.            *)
LEMMA VmStageKept ==
    ASSUME Acts, Tables, Apart, RowInv, NEW a \in Actors, Step(a), NEW b \in Actors, b # a,
           NEW v \in Vms \cap hist.fine, Writer(b, v), VmStage(b, v)
    PROVE  VmStage(b, v)'
<1>0. Active(a) /\ Active(b) /\ act'[b] = act[b]
  BY StepMoves DEF Moved, Others, Writer
<1>1. SameRows(v)
  BY SoleWriter, VmTouch
<1>2. Clean(v) => Clean(v)'
  BY <1>1, CleanKept
<1>3. ASSUME act[b].op = "create", img[act[b].src] # None PROVE img'[act[b].src] # None
  <2>1. act[b].src \in Uses(act[b]) /\ act[b].src \in Images /\ v \in Writes(act[b])
    BY <1>3, WriterIs, Disjoint
  <2>2. SUFFICES ASSUME img'[act[b].src] = None PROVE FALSE
    OBVIOUS
  <2>3. Works(a, act[b].src)
    BY <1>3, <2>1, <2>2, Touch
  <2>4. act[b].src \in Writes(act[a])
    BY <2>1, <2>3, WorksWrites
  <2>5. QED
    BY <1>0, <2>1, <2>4, Excluded
<1>4. ASSUME act[b].op = "Destroying", act[b].pc \in {"unlink", "unrow"}, Children(act[b].img) = {}
      PROVE  (Children(act[b].img) = {})'
  <2>1. b = v /\ v \in Writes(act[b]) /\ Snaps(v) \subseteq Writes(act[b])
    BY <1>4, WriterIs
  <2>2. act[b].img \in Snaps(v)
    BY <1>0, <1>4, <2>1 DEF RowInv, Deleting, Whole1, Active, Tables, VmsOk
  <2>3. SUFFICES ASSUME NEW j \in Images, img'[j] # None, img'[j].parent = act[b].img
                 PROVE  img[j] # None /\ img[j].parent = act[b].img
    BY <1>0, <1>4 DEF Children
  <2>4. act[b].img # "none"
    BY <2>2, Disjoint
  <2>5. act[a].op \in {"create", "snapshot"} => act[a].src # act[b].img
    BY <1>0, <2>1, <2>2, Excluded DEF Uses
  <2>6. QED
    BY <2>3, <2>4, <2>5, Touch
<1>5. \A i \in Snaps(v) : OneDisk(v, i) => OneDisk(v, i)'
  BY <1>1 DEF SameRows, OneDisk
<1>6. NoDisk(v) => NoDisk(v)'
  BY <1>1 DEF SameRows, NoDisk
<1>7. act[b].op = "create" => MakeStage(act[b], v)'
  <2>1. act[b].op = "create" => act[b].img \in Snaps(v)
    BY WriterIs
  <2>2. QED
    BY <1>0, <1>1, <1>3, <1>5, <2>1 DEF VmStage, MakeStage, SameRows
<1>8. act[b].op = "Destroying" => RemoveStage(act[b], v)'
  BY <1>0, <1>1, <1>4, <1>6 DEF VmStage, RemoveStage, SameRows
<1>9. QED
  BY <1>0, <1>1, <1>2, <1>7, <1>8 DEF VmStage, Open, SameRows

(* The step of the one that writes.                                        *)
VmAfter(a, v) == IF Writer(a, v)' THEN VmStage(a, v)' ELSE Clean(v)'

LEMMA WriterEnds ==
    ASSUME NEW a, NEW v, Ends(a), Clean(v)'
    PROVE  VmAfter(a, v)
BY DEF VmAfter, Ends, Writer, Active

(* Where the creation of a vm goes.                                        *)
LEMMA Making ==
    ASSUME NEW a, NEW v, NEW pc, Writer(a, v), act[a].op = "create", Goes(a, pc),
           MakeStage(act[a], v)', pc \in {"row", "status", "spec", "vm"} \/ Clean(v)'
    PROVE  VmAfter(a, v)
BY DEF Goes, VmAfter, VmStage, Open, Writer, Active

LEMMA MakingReads ==
    ASSUME Acts, Tables, NEW a \in Actors, NEW v \in Vms, Writer(a, v), VmStage(a, v),
           act[a].op = "create", CheckVm(a) \/ ReadSource(a) \/ NameFree(a)
    PROVE  VmAfter(a, v)
<1>0. act[a].v = v /\ Active(a) /\ UNCHANGED <<img, file, vm, status, specs>> /\ MakeStage(act[a], v)
  BY DEF Writer, VmStage, CheckVm, ReadSource, NameFree, store
<1>1. Clean(v) /\ Clean(v)'
  <2>1. Clean(v)
    BY DEF VmStage, Open, CheckVm, ReadSource, NameFree, At
  <2>2. QED
    BY <1>0, <2>1 DEF Clean, NoDisk, OneDisk
<1>2. End(a) => VmAfter(a, v)
  BY <1>0, <1>1, EndDo, WriterEnds
<1>3. CASE CheckVm(a) /\ ~End(a)
  <2>1. Goes(a, "source") /\ vm[v] = None
    BY <1>0, <1>3, GoDo DEF CheckVm
  <2>2. MakeStage(act[a], v)'
    BY <1>0, <2>1 DEF MakeStage, Goes
  <2>3. QED
    BY <1>1, <2>1, <2>2 DEF Goes, VmAfter, VmStage, Open
<1>4. CASE ReadSource(a) /\ ~End(a)
  <2>1. Goes(a, "free") /\ img[act[a].src] # None /\ act[a].pc = "source"
    BY <1>0, <1>4, GoDo DEF ReadSource, At
  <2>2. MakeStage(act[a], v)'
    BY <1>0, <2>1 DEF MakeStage, Goes
  <2>3. QED
    BY <1>1, <2>1, <2>2 DEF Goes, VmAfter, VmStage, Open
<1>5. CASE NameFree(a) /\ ~End(a)
  <2>1. Goes(a, "file") /\ act[a].pc = "free"
    BY <1>0, <1>5, GoDo DEF NameFree, At
  <2>2. MakeStage(act[a], v)'
    BY <1>0, <2>1 DEF MakeStage, Goes
  <2>3. QED
    BY <1>1, <2>1, <2>2 DEF Goes, VmAfter, VmStage, Open
<1>6. QED
  BY <1>2, <1>3, <1>4, <1>5

LEMMA MakingDisk ==
    ASSUME Acts, Tables, NEW a \in Actors, NEW v \in Vms, Writer(a, v), VmStage(a, v),
           act[a].op = "create", Snapshot(a) \/ ImageRow(a)
    PROVE  VmAfter(a, v)
<1>0. act[a].v = v /\ Active(a) /\ UNCHANGED <<vm, status, specs>> /\ MakeStage(act[a], v)
      /\ act[a].img \in Snaps(v) /\ act[a].img \in Images
  BY WriterIs, Disjoint DEF Writer, VmStage, Snapshot, ImageRow
<1>p. PICK i \in Snaps(v) : i = act[a].img /\ i \in Images
  BY <1>0
<1>1. CASE Snapshot(a)
  <2>1. act[a].pc = "file" /\ Clean(v) /\ UNCHANGED img /\ vm[v] = None /\ img[act[a].src] # None
    BY <1>0, <1>1 DEF VmStage, Open, Snapshot, At, MakeStage
  <2>2. CASE Whole(act[a].src)
    <3>1. Goes(a, "row") /\ file' = [file EXCEPT ![i] = [st |-> "full", over |-> act[a].src, size |-> 1]]
      BY <1>0, <1>1, <1>p, <2>2, GoDo DEF Snapshot
    <3>2. file'[i] # None /\ \A j \in Images : j # i => file'[j] = file[j]
      BY <1>p, <3>1 DEF Tables, FilesOk, None
    <3>3. status[v] = None /\ v \notin specs /\ NoDisk(v)
      BY <2>1 DEF Clean
    <3>4. \A j \in Snaps(v) : img'[j] = None /\ (j # i => file'[j] = None)
      BY <2>1, <3>2, <3>3, Disjoint DEF NoDisk
    <3>5. MakeStage(act[a], v)'
      BY <1>0, <1>p, <2>1, <3>1, <3>2, <3>3, <3>4 DEF MakeStage, Goes
    <3>6. QED
      BY <3>1, <3>5, Making
  <2>3. CASE ~Whole(act[a].src)
    <3>1. Ends(a) /\ UNCHANGED file
      BY <1>1, <2>3, EndDo DEF Snapshot
    <3>2. Clean(v)'
      BY <1>0, <2>1, <3>1 DEF Clean, NoDisk, OneDisk
    <3>3. QED
      BY <3>1, <3>2, WriterEnds
  <2>4. QED
    BY <2>2, <2>3
<1>2. CASE ImageRow(a)
  <2>1. /\ act[a].pc = "row" /\ vm[v] = None /\ img[act[a].src] # None /\ img[i] = None /\ UNCHANGED file
        /\ file[i] # None /\ status[v] = None /\ v \notin specs
        /\ \A j \in Snaps(v) : img[j] = None /\ (j # i => file[j] = None)
    BY <1>0, <1>2, <1>p DEF ImageRow, At, MakeStage
  <2>2. Goes(a, "status") /\ img' = [img EXCEPT ![i] = [st |-> "row", size |-> 1, parent |-> act[a].src,
                                                        kind |-> "Snapshot"]]
    BY <1>0, <1>2, <1>p, <2>1, GoDo DEF ImageRow
  <2>3. img'[i] # None /\ \A j \in Images : j # i => img'[j] = img[j]
    BY <1>p, <2>2 DEF Tables, ImagesOk, None
  <2>4. OneDisk(v, i)'
    BY <2>1, <2>3, Disjoint DEF OneDisk
  <2>5. MakeStage(act[a], v)'
    BY <1>0, <1>p, <2>1, <2>2, <2>4 DEF MakeStage, Goes
  <2>6. QED
    BY <2>2, <2>5, Making
<1>3. QED
  BY <1>1, <1>2

LEMMA MakingRows ==
    ASSUME Acts, Tables, NEW a \in Actors, NEW v \in Vms, Writer(a, v), VmStage(a, v),
           act[a].op = "create", NewStatus(a) \/ NewSpec(a) \/ NewVm(a)
    PROVE  VmAfter(a, v)
<1>0. act[a].v = v /\ Active(a) /\ UNCHANGED <<img, file>> /\ MakeStage(act[a], v) /\ act[a].img \in Snaps(v)
  BY WriterIs DEF Writer, VmStage, NewStatus, NewSpec, NewVm
<1>1. OneDisk(v, act[a].img) /\ vm[v] = None /\ act[a].pc \in {"status", "spec", "vm"}
  BY <1>0 DEF MakeStage, NewStatus, NewSpec, NewVm, At
<1>p. PICK i \in Snaps(v) : i = act[a].img /\ OneDisk(v, i)
  BY <1>0, <1>1
<1>2. OneDisk(v, i)'
  BY <1>0, <1>p DEF OneDisk
<1>3. CASE NewStatus(a)
  <2>1. act[a].pc = "status" /\ status[v] = None
    BY <1>0, <1>3 DEF NewStatus, At, MakeStage
  <2>2. Goes(a, "spec") /\ UNCHANGED vm
        /\ status' = [status EXCEPT ![v] = [st |-> "row", wanted |-> "create", actual |-> "create"]]
    BY <1>0, <1>3, <2>1, GoDo DEF NewStatus
  <2>3. status'[v] # None
    BY <2>2 DEF Tables, StatusOk, None
  <2>4. MakeStage(act[a], v)'
    BY <1>1, <1>2, <1>p, <2>2, <2>3 DEF MakeStage, Goes
  <2>5. QED
    BY <2>2, <2>4, Making
<1>4. CASE NewSpec(a)
  <2>1. Goes(a, "vm") /\ UNCHANGED <<vm, status>> /\ v \in specs' /\ status[v] # None
    BY <1>0, <1>4, GoDo DEF NewSpec, At, MakeStage
  <2>2. MakeStage(act[a], v)'
    BY <1>1, <1>2, <1>p, <2>1 DEF MakeStage, Goes
  <2>3. QED
    BY <2>1, <2>2, Making
<1>5. CASE NewVm(a)
  <2>1. Ends(a) /\ vm' = [vm EXCEPT ![v] = [st |-> "row", img |-> i]]
    BY <1>0, <1>1, <1>5, <1>p, EndDo DEF NewVm, At, MakeStage
  <2>2. vm'[v] = [st |-> "row", img |-> i]
    BY <2>1 DEF Tables, VmsOk
  <2>3. vm'[v] # None /\ vm'[v].img = i
    BY <2>2 DEF None
  <2>4. QED
    BY <1>2, <2>1, <2>3, WriterEnds DEF Clean
<1>6. QED
  BY <1>3, <1>4, <1>5

LEMMA Patching ==
    ASSUME Acts, Tables, RowInv, NEW a \in Actors, Step(a), NEW v \in Vms, Writer(a, v), VmStage(a, v),
           act[a].op = "patch"
    PROVE  VmAfter(a, v)
<1>0. act[a].v = v /\ Active(a) /\ a \in Conns /\ a \notin Vms /\ Clean(v)
      /\ (act[a].pc # "begin" => vm[v] # None)
  BY WriterIs, Disjoint DEF Writer, VmStage, Open
<1>1. ReadVm(a) \/ SetStatus(a) \/ NewSpec(a) \/ PatchVm(a) \/ Emit(a) \/ Fail(a)
  BY <1>0 DEF Step, VmStep, CheckVm, NewStatus, NewVm, StartOne, ImageStep, ReadSource, NameFree, Snapshot,
              Fill, Filled, ImageRow, Resize, ResizeRow, ReadChildren, Unlink, UnRow, At
<1>2. UNCHANGED <<img, file, vm>>
  BY <1>1 DEF ReadVm, SetStatus, NewSpec, PatchVm, Emit, Fail, store
<1>3. status'[v] = None <=> status[v] = None
  BY <1>1, StatusKept DEF ReadVm, SetStatus, NewSpec, PatchVm, Emit, Fail, NewStatus, ClearStatus, At
<1>4. v \in specs' <=> v \in specs
  <2>1. CASE NewSpec(a)
    <3>1. vm[v] # None
      BY <1>0, <2>1 DEF NewSpec, At
    <3>2. QED
      BY <1>0, <2>1, <3>1 DEF NewSpec, RowInv
  <2>2. CASE ~NewSpec(a)
    BY <1>1, <2>2 DEF ReadVm, SetStatus, PatchVm, Emit, Fail, store
  <2>3. QED
    BY <2>1, <2>2
<1>5. Clean(v)'
  BY <1>0, <1>2, <1>3, <1>4, CleanKept DEF SameRows
<1>6. act'[a] = None \/ vm[v] # None
  <2>1. CASE act[a].pc = "begin"
    <3>1. ReadVm(a) \/ Fail(a)
      BY <1>0, <1>1, <2>1 DEF SetStatus, NewSpec, PatchVm, Emit, At
    <3>2. QED
      BY <1>0, <3>1, EndDo DEF ReadVm, Fail, Err, Ends
  <2>2. QED
    BY <1>0, <2>1
<1>7. act'[a] # None => act'[a].op = "patch"
  BY <1>0, StepMoves DEF Moved
<1>8. QED
  BY <1>2, <1>5, <1>6, <1>7 DEF VmAfter, VmStage, Writer, Active, Open

(* Where the deletion of a vm goes.                                        *)
LEMMA Removing ==
    ASSUME NEW a, NEW v, NEW pc, Writer(a, v), act[a].op = "Destroying", Goes(a, pc),
           RemoveStage(act[a], v)', pc \in {"unrow", "vm", "specs", "status"} \/ Clean(v)'
    PROVE  VmAfter(a, v)
BY DEF Goes, VmAfter, VmStage, Open, Writer, Active

LEMMA RemovingDisk ==
    ASSUME Acts, Tables, RowInv, NEW v \in Vms, Writer(v, v), VmStage(v, v),
           act[v].op = "Destroying", ReadChildren(v) \/ Unlink(v) \/ UnRow(v)
    PROVE  VmAfter(v, v)
<1>0. v \in Actors /\ Active(v) /\ UNCHANGED <<vm, specs>> /\ RemoveStage(act[v], v)
      /\ act[v].pc \in {"image", "unlink", "unrow"}
  BY Disjoint DEF Writer, VmStage, ReadChildren, Unlink, UnRow, At
<1>1. vm[v] # None /\ vm[v].img \in Snaps(v) /\ act[v].img = vm[v].img
  BY <1>0 DEF RowInv, Deleting, Whole1, Active, Tables, VmsOk
<1>p. PICK i \in Snaps(v) : i = act[v].img /\ i = vm[v].img /\ i \in Images
  BY <1>1, Disjoint
<1>2. CASE ReadChildren(v)
  <2>1. Clean(v) /\ UNCHANGED <<img, file>>
    BY <1>2 DEF VmStage, Open, ReadChildren, At
  <2>2. Clean(v)'
    BY <1>0, <1>1, <2>1 DEF Clean, OneDisk
  <2>3. CASE Err(v)
    BY <1>0, <2>2, <2>3, EndDo, WriterEnds DEF Err
  <2>4. CASE ~Err(v)
    <3>1. Goes(v, "unlink") /\ Children(i) = {}
      BY <1>0, <1>2, <1>p, <2>4, GoDo DEF ReadChildren
    <3>2. RemoveStage(act[v], v)'
      BY <1>p, <2>1, <3>1 DEF RemoveStage, Goes, Children
    <3>3. QED
      BY <2>2, <3>1, <3>2, Removing
  <2>5. QED
    BY <2>3, <2>4
<1>3. CASE Unlink(v)
  <2>1. act[v].pc = "unlink" /\ OneDisk(v, i) /\ UNCHANGED img /\ Children(i) = {}
    BY <1>0, <1>1, <1>3, <1>p DEF VmStage, Open, Unlink, At, Clean, RemoveStage
  <2>2. Goes(v, "unrow") /\ file' = [file EXCEPT ![i] = None]
    BY <1>0, <1>3, <1>p, GoDo DEF Unlink
  <2>3. \A j \in Snaps(v) : file'[j] = None /\ (j # i => img'[j] = None)
    BY <2>1, <2>2, Disjoint DEF OneDisk, Tables, FilesOk
  <2>4. RemoveStage(act[v], v)'
    BY <1>0, <1>1, <1>p, <2>1, <2>2, <2>3 DEF RemoveStage, Goes, Children
  <2>5. QED
    BY <2>2, <2>4, Removing
<1>4. CASE UnRow(v)
  <2>1. /\ act[v].pc = "unrow" /\ Children(i) = {} /\ UNCHANGED file
        /\ \A j \in Snaps(v) : file[j] = None /\ (j # i => img[j] = None)
    BY <1>0, <1>4, <1>p DEF UnRow, At, RemoveStage
  <2>2. Goes(v, "vm") /\ img' = [img EXCEPT ![i] = None]
    BY <1>0, <1>4, <1>p, <2>1, GoDo DEF UnRow
  <2>3. NoDisk(v)'
    BY <2>1, <2>2, Disjoint DEF NoDisk, Tables, ImagesOk
  <2>4. RemoveStage(act[v], v)'
    BY <2>2, <2>3 DEF RemoveStage, Goes
  <2>5. QED
    BY <2>2, <2>4, Removing
<1>5. QED
  BY <1>2, <1>3, <1>4

LEMMA RemovingRows ==
    ASSUME Acts, Tables, RowInv, NEW v \in Vms, Writer(v, v), VmStage(v, v),
           act[v].op = "Destroying", ClearVm(v) \/ ClearSpecs(v) \/ ClearStatus(v)
    PROVE  VmAfter(v, v)
<1>0. v \in Actors /\ Active(v) /\ UNCHANGED <<img, file>> /\ RemoveStage(act[v], v)
      /\ act[v].pc \in {"vm", "specs", "status"}
  BY Disjoint DEF Writer, VmStage, ClearVm, ClearSpecs, ClearStatus, At
<1>1. NoDisk(v)'
  BY <1>0 DEF RemoveStage, NoDisk
<1>2. CASE ClearVm(v)
  <2>1. Goes(v, "specs") /\ vm'[v] = None
    BY <1>0, <1>2, GoDo DEF ClearVm, Tables, VmsOk
  <2>2. RemoveStage(act[v], v)'
    BY <1>1, <2>1 DEF RemoveStage, Goes
  <2>3. QED
    BY <2>1, <2>2, Removing
<1>3. CASE ClearSpecs(v)
  <2>1. Goes(v, "status") /\ UNCHANGED vm /\ v \notin specs' /\ vm[v] = None
    BY <1>0, <1>3, GoDo DEF ClearSpecs, At, RemoveStage
  <2>2. RemoveStage(act[v], v)'
    BY <1>1, <2>1 DEF RemoveStage, Goes
  <2>3. QED
    BY <2>1, <2>2, Removing
<1>4. CASE ClearStatus(v)
  <2>1. Ends(v) /\ UNCHANGED <<vm, specs>> /\ vm[v] = None /\ v \notin specs
    BY <1>0, <1>4, EndDo DEF ClearStatus, At, RemoveStage
  <2>2. status'[v] = None
    BY <1>4 DEF ClearStatus, Tables, StatusOk
  <2>3. Clean(v)'
    BY <1>1, <2>1, <2>2 DEF Clean
  <2>4. QED
    BY <2>1, <2>3, WriterEnds
<1>5. QED
  BY <1>2, <1>3, <1>4

(* Before it touches the disk, the deletion leaves the vm as it is.        *)
LEMMA RemovingConts ==
    ASSUME Acts, Tables, NEW v \in Vms, Writer(v, v), VmStage(v, v),
           act[v].op = "Destroying", TaskRead(v) \/ TaskRows(v) \/ Kill(v) \/ Killed(v)
    PROVE  VmAfter(v, v)
<1>0. v \in Actors /\ UNCHANGED <<img, file, vm, specs>> /\ Clean(v) /\ Step(v)
  BY Disjoint DEF VmStage, Open, TaskRead, TaskRows, Kill, Killed, At, store, Step, TaskMove
<1>1. status'[v] = None <=> status[v] = None
  BY <1>0, StatusKept DEF TaskRead, TaskRows, Kill, Killed, NewStatus, ClearStatus, At
<1>2. Clean(v)'
  BY <1>0, <1>1, CleanKept DEF SameRows
<1>3. act'[v] = None \/ (act'[v].op = "Destroying" /\ act'[v].pc \in {"rows", "kill", "killed", "image"})
  <2>1. act'[v] # None => act'[v].op = "Destroying"
    BY <1>0, StepMoves DEF Moved
  <2>2. CASE TaskRead(v)
    <3>1. CASE Err(v)
      BY <1>0, <3>1, EndDo DEF Err, Ends
    <3>2. CASE ~Err(v)
      <4>1. act' = [act EXCEPT ![v].pc = "rows", ![v].img = vm[v].img]
        BY <2>2, <3>2 DEF TaskRead
      <4>2. act'[v] = [act[v] EXCEPT !.pc = "rows", !.img = vm[v].img] /\ IsFrame(act[v])
        BY <1>0, <4>1 DEF Acts, Writer, Active
      <4>3. QED
        BY <2>1, <4>2 DEF IsFrame
    <3>3. QED
      BY <3>1, <3>2
  <2>3. CASE TaskRows(v)
    <3>1. act' = [act EXCEPT ![v].pc = "kill", ![v].todo = RowsOf(v)]
      BY <2>3 DEF TaskRows
    <3>2. act'[v] = [act[v] EXCEPT !.pc = "kill", !.todo = RowsOf(v)] /\ IsFrame(act[v])
      BY <1>0, <3>1 DEF Acts, Writer, Active
    <3>3. QED
      BY <2>1, <3>2 DEF IsFrame
  <2>4. CASE Kill(v)
    <3>1. CASE act[v].todo = {}
      BY <1>0, <2>1, <2>4, <3>1, GoDo DEF Kill, Goes, Writer
    <3>2. CASE act[v].todo # {}
      <4>1. PICK c : act' = [act EXCEPT ![v].pc = "killed", ![v].c = c, ![v].todo = @ \ {c}]
        BY <2>4, <3>2 DEF Kill
      <4>2. act'[v] = [act[v] EXCEPT !.pc = "killed", !.c = c, !.todo = @ \ {c}] /\ IsFrame(act[v])
        BY <1>0, <4>1 DEF Acts, Writer, Active
      <4>3. QED
        BY <2>1, <4>2 DEF IsFrame
    <3>3. QED
      BY <3>1, <3>2
  <2>5. CASE Killed(v)
    BY <1>0, <2>1, <2>5, GoDo DEF Killed, Goes, Writer
  <2>6. QED
    BY <2>2, <2>3, <2>4, <2>5
<1>4. QED
  BY <1>2, <1>3 DEF VmAfter, VmStage, RemoveStage, Open, Writer, Active

LEMMA VmOwnStep ==
    ASSUME Acts, Tables, RowInv, NEW a \in Actors, Step(a), NEW v \in Vms, Writer(a, v), VmStage(a, v),
           v \in hist'.fine
    PROVE  VmAfter(a, v)
<1>0. Active(a) /\ act[a].op \in {"create", "patch", "Destroying"} /\ v \in Writes(act[a])
      /\ (act[a].op = "Destroying" => a = v) /\ (act[a].op \in {"create", "patch"} => a \in Conns /\ a \notin Vms)
  BY WriterIs, Disjoint DEF Writer
<1>1. CASE Fail(a)
  <2>1. hist' = [hist EXCEPT !.fine = IF Half(act[a]) THEN @ \ Writes(act[a]) ELSE @,
                             !.synced = @ /\ act[a].pc # "process"]
    BY <1>1 DEF Fail
  <2>2. ~Half(act[a])
    BY <1>0, <2>1 DEF Tables, RestOk
  <2>3. ~Open(act[a])
    <3>1. act[a].pc = "vm" \/ ~Open(act[a])
      BY <2>2 DEF Half, Open
    <3>2. QED
      BY <2>2, <3>1 DEF Half, Open
  <2>4. Clean(v) /\ UNCHANGED <<img, file, vm, specs>> /\ Ends(a)
    BY <1>1, <2>3, EndDo DEF VmStage, Fail, Err
  <2>5. status'[v] = None <=> status[v] = None
    BY <1>1, ErrStatus DEF Fail, Tables, StatusLike
  <2>6. QED
    BY <2>4, <2>5, CleanKept, WriterEnds DEF SameRows
<1>2. CASE act[a].op = "create" /\ ~Fail(a)
  <2>1. \/ CheckVm(a) \/ ReadSource(a) \/ NameFree(a) \/ Snapshot(a) \/ ImageRow(a)
        \/ NewStatus(a) \/ NewSpec(a) \/ NewVm(a)
    BY <1>0, <1>2 DEF Step, VmStep, ReadVm, SetStatus, PatchVm, Emit, StartOne, ImageStep, Fill, Filled,
              Resize, ResizeRow, ReadChildren, Unlink, UnRow, At
  <2>2. QED
    BY <1>2, <2>1, MakingReads, MakingDisk, MakingRows
<1>3. CASE act[a].op = "Destroying" /\ ~Fail(a)
  <2>1. a \in Vms /\ a \notin Conns
    BY <1>0, <1>3, TaskOf DEF Tasks, Active
  <2>2. \/ ReadChildren(a) \/ Unlink(a) \/ UnRow(a) \/ TaskRead(a) \/ TaskRows(a) \/ Kill(a) \/ Killed(a)
        \/ ClearVm(a) \/ ClearSpecs(a) \/ ClearStatus(a)
    BY <1>3, <2>1 DEF Step, TaskMove, RemoveNamed, Make, NewProcess, StartInstances, StopInstances, Mark,
              ImageStep, ReadSource, NameFree, Snapshot, Fill, Filled, ImageRow, Resize, ResizeRow, At
  <2>3. QED
    BY <1>0, <1>3, <2>2, RemovingDisk, RemovingRows, RemovingConts
<1>4. CASE act[a].op = "patch"
  BY <1>4, Patching
<1>5. QED
  BY <1>0, <1>1, <1>2, <1>3, <1>4

LEMMA VmInvariantStep ==
    ASSUME Acts, Tables, RowInv, Apart, VmInvariant, NEW a \in Actors, Step(a)
    PROVE  VmInvariant'
<1>0. Moved(a) /\ hist'.fine \subseteq hist.fine
  BY StepMoves, RestStep
<1> SUFFICES ASSUME NEW v \in Vms, v \in hist'.fine
             PROVE  /\ \A b \in Actors : Writer(b, v)' => VmStage(b, v)'
                    /\ (\A b \in Actors : ~Writer(b, v)') => Clean(v)'
  BY DEF VmInvariant
<1>1. v \in Vms \cap hist.fine
  BY <1>0
<1>2. \A b \in Actors : b # a => (Writer(b, v)' <=> Writer(b, v))
  BY <1>0 DEF Moved, Others, Writer, Active
<1>3. \A b \in Actors : b # a /\ Writer(b, v) => VmStage(b, v)'
  BY <1>1, VmStageKept DEF VmInvariant
<1>4. CASE Writer(a, v)
  <2>1. VmAfter(a, v)
    BY <1>1, <1>4, VmOwnStep DEF VmInvariant
  <2>2. QED
    BY <1>2, <1>3, <2>1 DEF VmAfter
<1>5. CASE ~Writer(a, v)
  <2>1. ~Writer(a, v)'
    BY <1>0, <1>5 DEF Moved, Writer, Active
  <2>2. Clean(v) => Clean(v)'
    BY <1>1, <1>5, VmTouch, CleanKept
  <2>3. QED
    BY <1>1, <1>2, <1>3, <1>5, <2>1, <2>2 DEF VmInvariant
<1>6. QED
  BY <1>4, <1>5

LEMMA VmInvariantBegun ==
    ASSUME Acts, VmInvariant, NEW a \in Actors, NEW f, Begun(a, f),
           UNCHANGED <<img, file, vm, status, specs>>
    PROVE  VmInvariant'
<1> SUFFICES ASSUME NEW v \in Vms, v \in hist'.fine
             PROVE  /\ \A b \in Actors : Writer(b, v)' => VmStage(b, v)'
                    /\ (\A b \in Actors : ~Writer(b, v)') => Clean(v)'
  BY DEF VmInvariant
<1>1. v \in Vms \cap hist.fine
  BY DEF Begun
<1>2. act[a] = None /\ act'[a] = f /\ f # None /\ f.pc = "begin" /\ \A b \in Actors : b # a => act'[b] = act[b]
  BY DEF Begun, Starts, Others
<1>3. Clean(v)' <=> Clean(v)
  BY DEF Clean, NoDisk, OneDisk
<1>4. \A b \in Actors : b # a => (Writer(b, v)' <=> Writer(b, v)) /\ (VmStage(b, v) => VmStage(b, v)')
  <2>1. ASSUME NEW b \in Actors, b # a, VmStage(b, v) PROVE VmStage(b, v)'
    <3>1. act'[b] = act[b]
      BY <1>2, <2>1
    <3>2. MakeStage(act[b], v) => MakeStage(act[b], v)'
      BY <3>1 DEF MakeStage, OneDisk
    <3>3. RemoveStage(act[b], v) => RemoveStage(act[b], v)'
      BY <3>1 DEF RemoveStage, NoDisk, Children
    <3>4. QED
      BY <1>3, <2>1, <3>1, <3>2, <3>3 DEF VmStage, Open
  <2>2. QED
    BY <1>2, <2>1 DEF Writer, Active
<1>5. ~Writer(a, v)
  BY <1>2 DEF Writer, Active
<1>6. ASSUME Writer(a, v)' PROVE VmStage(a, v)'
  <2>1. f.op \in {"create", "patch", "Destroying"} /\ f.v = v /\ v \in Writes(f)
    BY <1>2, <1>6 DEF Writer, Writes
  <2>2. ASSUME NEW b \in Actors, b # a PROVE ~Writer(b, v)
    <3>1. SUFFICES ASSUME Writer(b, v) PROVE FALSE
      OBVIOUS
    <3>2. v \in Uses(act[b]) /\ Active(b)
      BY <3>1, WriterIs DEF Writer
    <3>3. Clash(f, act[b]) # {}
      BY <2>1, <3>2 DEF Clash
    <3>4. Writes(f) \cap hist'.fine = {}
      BY <2>2, <3>2, <3>3 DEF Begun
    <3>5. QED
      BY <2>1, <3>4
  <2>3. Clean(v)'
    BY <1>1, <1>3, <1>5, <2>2 DEF VmInvariant
  <2>4. QED
    BY <1>2, <2>3 DEF VmStage, MakeStage, RemoveStage, Open
<1>7. QED
  BY <1>1, <1>2, <1>3, <1>4, <1>5, <1>6 DEF VmInvariant

LEMMA VmInvariantOutside ==
    ASSUME Acts, Tables, Docker, Apart, VmInvariant,
           UNCHANGED vars \/ (\E c \in Conts : Exit(c)) \/ Analyse \/ Crash \/ BootList \/ BootRow \/ BootImage
    PROVE  VmInvariant'
<1>0. UNCHANGED <<file, vm, specs>> /\ \A v \in Vms : status'[v] = None <=> status[v] = None
  BY Outside, AnalyseStatus DEF vars, StatusLike
<1>1. CASE Crash
  <2>1. UNCHANGED img /\ act' = [a \in Actors |-> None]
        /\ hist' = [hist EXCEPT !.fine = @ \ UNION {Writes(act[a]) : a \in {b \in Actors : act[b] # None}},
                                !.synced = FALSE]
    BY <1>1, Outside DEF Crash
  <2>2. hist'.fine = hist.fine \ UNION {Writes(act[a]) : a \in {b \in Actors : act[b] # None}}
    BY <2>1 DEF Tables, RestOk
  <2>3. ASSUME NEW v \in Vms, v \in hist'.fine PROVE Clean(v)'
    <3>1. \A a \in Actors : ~Writer(a, v)
      BY <2>2, <2>3, WriterIs DEF Writer, Active
    <3>2. Clean(v)
      BY <2>2, <2>3, <3>1 DEF VmInvariant
    <3>3. QED
      BY <1>0, <2>1, <3>2, CleanKept DEF SameRows
  <2>4. QED
    BY <2>1, <2>3 DEF VmInvariant, Writer, Active
<1>2. CASE BootImage /\ img' # img
  <2>1. UNCHANGED <<act, hist>> /\ boot.pc # "off"
    BY <1>2, Outside DEF BootImage
  <2>2. PICK j \in Images : \E n : img[j] = None /\ file[j] # None
           /\ img' = [img EXCEPT ![j] = [st |-> "row", kind |-> "Base", parent |-> "none", size |-> n]]
    BY <1>2, BootRowAdded
  <2>3. ASSUME NEW v \in Vms, v \in hist'.fine
        PROVE  (\A a \in Actors : ~Writer(a, v)') /\ Clean(v)'
    <3>1. \A a \in Actors : ~Writer(a, v)
      BY <2>1, <2>3, WriterIs DEF Apart, Writer
    <3>2. Clean(v)
      BY <2>1, <2>3, <3>1 DEF VmInvariant
    <3>3. j \notin Snaps(v)
      BY <2>2, <3>2 DEF Clean, NoDisk, OneDisk
    <3>4. \A i \in Snaps(v) : img'[i] = img[i]
      BY <2>2, <3>3, Disjoint DEF Tables, ImagesOk
    <3>5. QED
      BY <1>0, <2>1, <2>3, <3>1, <3>2, <3>4, CleanKept DEF SameRows, Writer, Active
  <2>4. QED
    BY <2>3 DEF VmInvariant
<1>3. CASE ~Crash /\ ~(BootImage /\ img' # img)
  <2>1. UNCHANGED <<img, act>> /\ hist'.fine = hist.fine
    BY <1>3, Outside DEF vars, BootRow, Tables, RestOk
  <2>2. ASSUME NEW v \in Vms, Clean(v) PROVE Clean(v)'
    BY <1>0, <2>1, <2>2, CleanKept DEF SameRows
  <2>3. ASSUME NEW v \in Vms, NEW a \in Actors, VmStage(a, v) PROVE VmStage(a, v)'
    <3>1. MakeStage(act[a], v) => MakeStage(act[a], v)'
      BY <1>0, <2>1, <2>3 DEF MakeStage, OneDisk
    <3>2. RemoveStage(act[a], v) => RemoveStage(act[a], v)'
      BY <1>0, <2>1, <2>3 DEF RemoveStage, NoDisk, Children
    <3>3. QED
      BY <1>0, <2>1, <2>2, <2>3, <3>1, <3>2 DEF VmStage, Open
  <2>4. QED
    BY <2>1, <2>2, <2>3 DEF VmInvariant, Writer, Active
<1>4. QED
  BY <1>1, <1>2, <1>3
-----------------------------------------------------------------------------
(* A vm that was to be deleted.                                            *)
LEMMA LostGrows ==
    ASSUME Tables, NEW a, Step(a), ~left'.lost
    PROVE  ~left.lost /\ ~Fail(a)
<1>1. CASE Fail(a)
  <2>1. left' = [left EXCEPT !.db = @ - 1, !.lost = TRUE]
    BY <1>1 DEF Fail
  <2>2. left'.lost
    BY <2>1 DEF Tables, RestOk
  <2>3. QED
    BY <2>2
<1>2. CASE ~Fail(a)
  <2>1. left'.lost = left.lost
    BY <1>2, Quiet DEF Filled, Make, Tables, RestOk
  <2>2. QED
    BY <1>2, <2>1
<1>3. QED
  BY <1>1, <1>2

(* Only a request to delete a vm makes its status want that.               *)
LEMMA WishBegins ==
    ASSUME Acts, Tables, NEW a \in Actors, Step(a), NEW v \in Vms,
           status'[v] # None, status'[v].wanted = "destroy",
           status[v] = None \/ status[v].wanted # "destroy"
    PROVE  Due(v)'
<1>1. CASE status' = status \/ Err(a)
  BY <1>1, ErrStatus DEF Tables, StatusLike
<1>2. CASE NewStatus(a)
  BY <1>2 DEF NewStatus, Tables, StatusOk
<1>3. CASE ClearStatus(a)
  BY <1>3 DEF ClearStatus, Tables, StatusOk
<1>4. CASE Mark(a)
  <2>1. a \in Vms
    BY <1>4, Disjoint DEF Mark, At, Acts, IsRequest, VmOps
  <2>2. QED
    BY <1>4, <2>1, MarkStatus DEF Tables, StatusLike
<1>5. CASE SetStatus(a) /\ status' # status
  <2>1. a \in Conns /\ act[a] # None /\ act[a].op \in {"delete", "patch", "start", "stop"}
    BY <1>5, Disjoint DEF SetStatus, At, Acts, Tasks
  <2>2. /\ act[a].v = v /\ status'[v].wanted = Wanted(act[a].op).wanted
        /\ Go(a, IF act[a].op = "patch" THEN "spec" ELSE "emit")
    BY <1>5, <2>1, SetStatusDo
  <2>3. act[a].op = "delete"
    BY <2>1, <2>2 DEF Wanted
  <2>4. Goes(a, "emit")
    BY <2>1, <2>2, <2>3, GoDo DEF Active
  <2>5. QED
    BY <2>1, <2>2, <2>3, <2>4 DEF Goes, Due, Active
<1>6. QED
  BY <1>1, <1>2, <1>3, <1>4, <1>5, Quiet

(* The deletion of a vm nothing was wrong with comes to its end.           *)
LEMMA RemovingGoes ==
    ASSUME Stored, VmInvariant, NEW v \in Vms, v \in hist.fine, Step(v), ~Fail(v),
           Active(v), act[v].op = "Destroying", status[v] # None, status'[v] # None,
           vm[v] # None => vm[v].img \notin hist.based
    PROVE  act'[v] # None
<1>0. v \in Actors /\ v \notin Conns /\ IsFrame(act[v]) /\ act[v].v = v /\ Acts /\ Tables /\ RowInv
  BY Disjoint DEF Stored, Core, Acts, Active
<1>1. Writer(v, v) /\ VmStage(v, v)
  BY <1>0 DEF Writer, VmInvariant
<1>2. \/ ReadChildren(v) \/ Unlink(v) \/ UnRow(v) \/ TaskRead(v) \/ TaskRows(v) \/ Kill(v) \/ Killed(v)
      \/ ClearVm(v) \/ ClearSpecs(v) \/ ClearStatus(v)
  BY <1>0 DEF Step, TaskMove, RemoveNamed, Make, NewProcess, StartInstances, StopInstances, Mark,
              ImageStep, ReadSource, NameFree, Snapshot, Fill, Filled, ImageRow, Resize, ResizeRow, At
<1>3. ASSUME NEW pc, Go(v, pc) PROVE act'[v] # None
  BY <1>0, <1>3, GoDo DEF Goes
<1>4. CASE ReadChildren(v)
  <2>1. act[v].pc = "image" /\ Clean(v)
    BY <1>1, <1>4 DEF ReadChildren, At, VmStage, Open
  <2>2. vm[v] # None /\ act[v].img = vm[v].img
    BY <1>0, <2>1 DEF RowInv, Deleting, Whole1, Active
  <2>3. vm[v].img \in Snaps(v) /\ img[vm[v].img] # None
    BY <1>0, <2>1, <2>2 DEF Tables, VmsOk, Clean, OneDisk
  <2>4. Children(vm[v].img) = {}
    <3>1. SUFFICES ASSUME NEW j \in Images, img[j] # None, img[j].parent = vm[v].img PROVE FALSE
      BY DEF Children
    <3>2. vm[v].img \in Bases \cup hist.based
      BY <2>3, <3>1, Disjoint DEF Stored, Linked
    <3>3. QED
      BY <2>2, <2>3, <3>2, Disjoint
  <2>5. QED
    BY <1>3, <1>4, <2>2, <2>3, <2>4 DEF ReadChildren
<1>5. CASE UnRow(v)
  <2>1. Children(act[v].img) = {}
    BY <1>1, <1>5 DEF UnRow, At, VmStage, RemoveStage
  <2>2. QED
    BY <1>3, <1>5, <2>1 DEF UnRow
<1>6. CASE TaskRead(v)
  <2>1. vm[v] # None
    <3>1. act[v].pc = "begin" /\ Clean(v)
      BY <1>1, <1>6 DEF TaskRead, At, VmStage, Open
    <3>2. QED
      BY <3>1 DEF Clean
  <2>2. act' = [act EXCEPT ![v].pc = "rows", ![v].img = vm[v].img]
    BY <1>6, <2>1 DEF TaskRead
  <2>3. act' = [act EXCEPT ![v] = [act[v] EXCEPT !.pc = "rows", !.img = vm[v].img]]
    BY <2>2
  <2>4. vm[v].img \in Snaps(v)
    BY <1>0, <2>1 DEF Tables, VmsOk
  <2>5. QED
    BY <1>0, <2>3, <2>4, Redone DEF IsFrame
<1>7. CASE TaskRows(v)
  <2>1. act' = [act EXCEPT ![v] = [act[v] EXCEPT !.pc = "kill", !.todo = RowsOf(v)]]
    BY <1>7 DEF TaskRows
  <2>2. QED
    BY <1>0, <2>1, Redone DEF IsFrame
<1>8. CASE Kill(v)
  <2>1. CASE act[v].todo = {}
    BY <1>3, <1>8, <2>1 DEF Kill
  <2>2. CASE act[v].todo # {}
    <3>1. PICK c : act' = [act EXCEPT ![v].pc = "killed", ![v].c = c, ![v].todo = @ \ {c}]
      BY <1>8, <2>2 DEF Kill
    <3>2. act' = [act EXCEPT ![v] = [act[v] EXCEPT !.pc = "killed", !.c = c, !.todo = @ \ {c}]]
      BY <3>1
    <3>3. QED
      BY <1>0, <3>2, Redone DEF IsFrame
  <2>3. QED
    BY <2>1, <2>2
<1>9. CASE ClearStatus(v)
  BY <1>0, <1>9 DEF ClearStatus, Tables, StatusOk
<1>10. CASE Unlink(v) \/ Killed(v) \/ ClearVm(v) \/ ClearSpecs(v)
  BY <1>3, <1>10 DEF Unlink, Killed, ClearVm, ClearSpecs
<1>11. QED
  BY <1>2, <1>4, <1>5, <1>6, <1>7, <1>8, <1>9, <1>10

LEMMA DoomedStep ==
    ASSUME Stored, VmInvariant, Doomed, NEW a \in Actors, Step(a)
    PROVE  Doomed'
<1> SUFFICES ASSUME NEW v \in Vms, Wished(v)' PROVE Due(v)'
  BY DEF Doomed
<1>0. /\ Acts /\ Tables /\ Moved(a) /\ ~left.lost /\ ~Fail(a)
      /\ v \in hist.fine /\ hist.based \subseteq hist'.based
  BY StepMoves, RestStep, LostGrows DEF Stored, Core, Wished
<1>1. CASE ClearVm(a) /\ a = v
  <2>1. Active(v) /\ act[v].op = "Destroying"
    BY <1>1 DEF ClearVm, At, Active
  <2>2. Goes(v, "specs")
    BY <1>0, <1>1, <2>1, GoDo DEF ClearVm
  <2>3. QED
    BY <2>1, <2>2 DEF Goes, Due, Active
<1>2. CASE status[v] = None \/ status[v].wanted # "destroy"
  BY <1>0, <1>2, WishBegins DEF Wished
<1>3. CASE ~(ClearVm(a) /\ a = v) /\ status[v] # None /\ status[v].wanted = "destroy"
  <2>1. vm[v] # None => vm[v].img \notin hist.based
    <3>1. vm[v] # None => vm'[v] = vm[v]
      <4>1. CASE NewVm(a)
        BY <1>0, <4>1 DEF NewVm, Tables, VmsOk
      <4>2. CASE ClearVm(a)
        BY <1>0, <1>3, <4>2 DEF ClearVm, Tables, VmsOk
      <4>3. QED
        BY <4>1, <4>2, Quiet
    <3>2. QED
      BY <1>0, <3>1 DEF Wished
  <2>2. Due(v)
    BY <1>0, <1>3, <2>1 DEF Doomed, Wished
  <2>3. CASE \E k \in Conns : Active(k) /\ act[k].op = "delete" /\ act[k].v = v /\ act[k].pc = "emit"
    <3>1. PICK k \in Conns : Active(k) /\ act[k].op = "delete" /\ act[k].v = v /\ act[k].pc = "emit"
      BY <2>3
    <3>2. CASE a # k
      BY <1>0, <3>1, <3>2, Disjoint DEF Moved, Others, Due, Active
    <3>3. CASE a = k
      <4>1. Emit(k)
        BY <1>0, <3>1, <3>3, Disjoint DEF Step, VmStep, CheckVm, NewStatus, NewSpec, NewVm, ReadVm, SetStatus,
              PatchVm, StartOne, ImageStep, ReadSource, NameFree, Snapshot, Fill, Filled, ImageRow, Resize,
              ResizeRow, ReadChildren, Unlink, UnRow, At
      <4>2. queue' = Append(queue, [ev |-> "Destroying", v |-> v])
        BY <3>1, <4>1 DEF Emit, Event
      <4> DEFINE S == [ev : Tasks, v : Vms]
      <4>3. queue \in Seq(S)
        BY <1>0 DEF Tables, QueueOk
      <4> HIDE DEF S
      <4>4. Len(queue) + 1 \in DOMAIN queue' /\ queue'[Len(queue) + 1] = [ev |-> "Destroying", v |-> v]
        BY <4>2, <4>3
      <4>5. QED
        BY <4>4 DEF Due
    <3>4. QED
      BY <3>2, <3>3
  <2>4. CASE \E n \in DOMAIN queue : queue[n] = [ev |-> "Destroying", v |-> v]
    <3>1. PICK n \in DOMAIN queue : queue[n] = [ev |-> "Destroying", v |-> v]
      BY <2>4
    <3>2. queue' = queue \/ \E e : queue' = Append(queue, e)
      BY Quiet DEF Emit
    <3> DEFINE S == [ev : Tasks, v : Vms]
    <3>3. queue \in Seq(S)
      BY <1>0 DEF Tables, QueueOk
    <3> HIDE DEF S
    <3>4. n \in DOMAIN queue' /\ queue'[n] = queue[n]
      BY <3>1, <3>2, <3>3
    <3>5. QED
      BY <3>1, <3>4 DEF Due
  <2>5. CASE Active(v) /\ act[v].op = "Destroying"
    <3>1. act'[v] # None /\ act'[v].op = "Destroying"
      <4>1. CASE a # v
        BY <1>0, <2>5, <4>1, Disjoint DEF Moved, Others, Active
      <4>2. CASE a = v
        <5>1. act'[v] # None
          BY <1>0, <1>3, <2>1, <2>5, <4>2, RemovingGoes DEF Wished
        <5>2. QED
          BY <1>0, <2>5, <4>2, <5>1 DEF Moved
      <4>3. QED
        BY <4>1, <4>2
    <3>2. QED
      BY <3>1 DEF Due, Active
  <2>6. QED
    BY <2>2, <2>3, <2>4, <2>5 DEF Due
<1>4. QED
  BY <1>1, <1>2, <1>3

LEMMA DoomedBegun ==
    ASSUME Acts, Doomed, NEW a \in Actors, NEW f, Begun(a, f), UNCHANGED <<vm, status, queue>>,
           left'.lost = left.lost
    PROVE  Doomed'
<1> SUFFICES ASSUME NEW v \in Vms, Wished(v)' PROVE Due(v)'
  BY DEF Doomed
<1>1. Due(v)
  BY DEF Wished, Doomed, Begun
<1>2. act[a] = None /\ \A b \in Actors : b # a => act'[b] = act[b]
  BY DEF Begun, Starts, Others
<1>3. QED
  BY <1>1, <1>2, Disjoint DEF Due, Active

LEMMA DoomedDispatch ==
    ASSUME Acts, Tables, Doomed, NEW w \in Vms, Dispatch(w)
    PROVE  Doomed'
<1> SUFFICES ASSUME NEW v \in Vms, Wished(v)' PROVE Due(v)'
  BY DEF Doomed
<1>1. PICK f : Begun(w, f) /\ f.op = Head(queue).ev
  BY DispatchDo
<1>2. UNCHANGED <<vm, status, left>> /\ Head(queue).v = w /\ queue # <<>> /\ queue' = Tail(queue)
  BY Outside DEF Dispatch
<1>3. Due(v)
  BY <1>1, <1>2 DEF Wished, Doomed, Begun
<1>4. /\ act[w] = None /\ act'[w] = f /\ f # None /\ w \in Actors
      /\ \A b \in Actors : b # w => act'[b] = act[b]
  BY <1>1, Disjoint DEF Begun, Starts, Others
<1>5. CASE \E n \in DOMAIN queue : queue[n] = [ev |-> "Destroying", v |-> v]
  <2>1. PICK n \in DOMAIN queue : queue[n] = [ev |-> "Destroying", v |-> v]
    BY <1>5
  <2> DEFINE S == [ev : Tasks, v : Vms]
  <2>2. queue \in Seq(S)
    BY DEF Tables, QueueOk
  <2> HIDE DEF S
  <2>3. n = 1 \/ (n - 1 \in DOMAIN queue' /\ queue'[n - 1] = queue[n])
    BY <1>2, <2>1, <2>2
  <2>4. CASE n = 1
    <3>1. Head(queue) = queue[1]
      BY <1>2, <2>2
    <3>2. w = v /\ f.op = "Destroying"
      BY <1>1, <1>2, <2>1, <2>4, <3>1
    <3>3. QED
      BY <1>4, <3>2 DEF Due, Active
  <2>5. CASE n # 1
    BY <2>1, <2>3, <2>5 DEF Due
  <2>6. QED
    BY <2>4, <2>5
<1>6. CASE ~\E n \in DOMAIN queue : queue[n] = [ev |-> "Destroying", v |-> v]
  BY <1>3, <1>4, <1>6, Disjoint DEF Due, Active
<1>7. QED
  BY <1>5, <1>6

LEMMA DoomedOutside ==
    ASSUME Acts, Tables, Docker, Doomed,
           UNCHANGED vars \/ (\E c \in Conts : Exit(c)) \/ Analyse \/ Crash \/ BootList \/ BootRow \/ BootImage
    PROVE  Doomed'
<1> SUFFICES ASSUME NEW v \in Vms, Wished(v)' PROVE Due(v)'
  BY DEF Doomed
<1>1. ~Crash
  <2>1. Crash => left'.lost
    <3>1. Crash => left' = [left EXCEPT !.crash = @ - 1, !.lost = TRUE]
      BY DEF Crash
    <3>2. QED
      BY <3>1 DEF Tables, RestOk
  <2>2. QED
    BY <2>1 DEF Wished
<1>2. UNCHANGED <<vm, act, queue>> /\ left'.lost = left.lost
  BY <1>1, Outside DEF vars, Exit, Tables, RestOk
<1>3. /\ status'[v] = None <=> status[v] = None
      /\ status[v] # None => status'[v].wanted = status[v].wanted
  BY <1>1, Outside, AnalyseStatus DEF vars, StatusLike
<1>4. Wished(v)
  BY <1>2, <1>3, TablesRest DEF Wished
<1>5. QED
  BY <1>2, <1>4 DEF Doomed, Due, Active
-----------------------------------------------------------------------------
Gone == Stored /\ VmInvariant /\ Doomed

LEMMA GoneInit == Init => Gone
<1> SUFFICES ASSUME Init PROVE Gone
  OBVIOUS
<1>1. \A a \in Actors : act[a] = None
  BY DEF Init
<1>2. \A v \in Vms : vm[v] = None /\ status[v] = None /\ v \notin specs
  BY DEF Init
<1>3. \A v \in Vms : NoDisk(v)
  BY Disjoint DEF Init, NoDisk
<1>4. QED
  BY <1>1, <1>2, <1>3, StoredInit DEF Gone, VmInvariant, Writer, Active, Clean, Doomed, Wished

LEMMA GoneNext == Gone /\ [Next]_vars => Gone'
<1> SUFFICES ASSUME Gone, [Next]_vars PROVE Gone'
  OBVIOUS
<1>0. Stored' /\ Stored /\ Core /\ Acts /\ Tables /\ Docker /\ RowInv /\ Apart /\ VmInvariant /\ Doomed
  BY StoredNext DEF Gone, Stored, Core, ContInv
<1>1. ASSUME NEW a \in Actors, Step(a) PROVE Gone'
  BY <1>0, <1>1, VmInvariantStep, DoomedStep DEF Gone
<1>2. ASSUME NEW k \in Conns, NEW op \in ImageOps \cup VmOps, Request(k, op) PROVE Gone'
  <2>1. UNCHANGED <<img, file, vm, status, specs, queue>> /\ left'.lost = left.lost /\ k \in Actors
    BY <1>0, <1>2, RequestBegun, Disjoint
  <2>2. PICK f : Begun(k, f)
    BY <1>0, <1>2, RequestBegun
  <2>3. QED
    BY <1>0, <2>1, <2>2, VmInvariantBegun, DoomedBegun DEF Gone
<1>3. ASSUME NEW v \in Vms, Dispatch(v) PROVE Gone'
  <2>1. UNCHANGED <<img, file, vm, status, specs>> /\ v \in Actors
    BY <1>3, Outside, Disjoint
  <2>2. PICK f : Begun(v, f)
    BY <1>0, <1>3, DispatchDo
  <2>3. QED
    BY <1>0, <1>3, <2>1, <2>2, VmInvariantBegun, DoomedDispatch DEF Gone
<1>4. CASE UNCHANGED vars \/ (\E c \in Conts : Exit(c)) \/ Analyse \/ Crash \/ BootList \/ BootRow \/ BootImage
  BY <1>0, <1>4, VmInvariantOutside, DoomedOutside DEF Gone
<1>5. QED
  BY <1>0, <1>1, <1>2, <1>3, <1>4, NextCases

LEMMA GoneNothing == Gone => NoLeftovers
<1> SUFFICES ASSUME Gone, Rest, NEW v \in Vms, v \in hist.fine
             PROVE  /\ vm[v] = None => /\ status[v] = None /\ v \notin specs
                                       /\ \A b \in Bases : img[SnapName[b][v]] = None
                    /\ vm[v] # None => img[vm[v].img] # None
                    /\ vm[v] # None /\ ~left.lost /\ vm[v].img \notin hist.based => status[v].wanted # "destroy"
  BY DEF NoLeftovers
<1>1. \A a \in Actors : act[a] = None
  BY DEF Rest
<1>2. Clean(v)
  BY <1>1 DEF Gone, VmInvariant, Writer, Active
<1>3. ~Due(v)
  BY <1>1, Disjoint DEF Rest, Due, Active
<1>4. vm[v] # None => status[v] # None
  BY DEF Gone, Stored, Core, RowInv
<1>5. QED
  BY <1>2, <1>3, <1>4 DEF Gone, Clean, NoDisk, OneDisk, Snaps, Doomed, Wished

(* The invariant of the rows of vms.                                       *)
THEOREM VmGone == Spec => []Gone
<1>1. QED
  BY GoneInit, GoneNext, PTL DEF Spec

(* Creation and deletion of a vm are all or nothing as long as no          *)
(* statement fails half-way and no other request works on the same vm: no  *)
(* status, spec or disk stays behind, no vm loses its disk, and a vm that  *)
(* was to be deleted is gone.                                              *)
THEOREM NothingLeft == Spec => []NoLeftovers
<1>1. QED
  BY VmGone, GoneNothing, PTL
=============================================================================
