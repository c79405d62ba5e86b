--------------------------- MODULE CargoLifecycle ---------------------------
(***************************************************************************)
(* The life of cargoes in nanocld: API handlers write the wanted and the   *)
(* actual status and emit an event; the event loop (module TaskManager)    *)
(* turns the event into a background task; the task drives docker and      *)
(* writes the outcome; docker's own events are analysed by another thread  *)
(* that writes the same status and the process rows.                       *)
(*                                                                         *)
(* A step is what runs between two awaits that matter: a read whose value  *)
(* is used later, a write, or one docker call.  Calls the code makes as    *)
(* one concurrent batch (creating the replicas, rolling an update back)    *)
(* are one step, and so is a status write with the notification event      *)
(* (Create, Start, Stop, Destroy, Restart) that follows it.  Events that   *)
(* exec_event drops at once (kind Error, and those of a container of a     *)
(* cargo) are left out of the queue.                                       *)
(***************************************************************************)
EXTENDS Naturals, Sequences, FiniteSets

CONSTANTS
    Cargoes,       (* cargo keys                                             *)
    Secrets,       (* secret keys; every cargo uses every secret             *)
    TaskIds, NoTask, MaxQueue,    (* see TaskManager                         *)
    Clients,       (* HTTP connections: each serves one request at a time    *)
    Worlds         (* cargoes and bounds of a behaviour: replicas of a spec, *)
                   (* whether it has an init container (init), the API       *)
                   (* operations called (ops), whether clients wait for the  *)
                   (* system to settle (calm), and how many containers are   *)
                   (* created (conts), requests made (reqs), docker calls    *)
                   (* fail (fails) and containers crash (crashes)            *)

AllOps == {"create", "start", "stop", "put", "delete", "force", "secret",
           "restart", "kill", "process"}

ASSUME ConstAssumption ==
    \A w \in Worlds :
        /\ w.ops \subseteq AllOps
        /\ w.calm \in BOOLEAN /\ w.init \in BOOLEAN
        /\ w.replicas \in Nat \ {0}
        /\ {w.conts, w.reqs, w.fails, w.crashes} \subseteq Nat

(* What TaskManager assumes of its constants.                              *)
ASSUME TmAssumption ==
    /\ Cargoes \cap Secrets = {}
    /\ NoTask \notin TaskIds
    /\ MaxQueue \in Nat \ {0}

VARIABLES
    queue, loop, tasks, task,    (* the event loop, see TaskManager          *)
    row,     (* cargoes joined with specs and object_process_statuses        *)
    proc,    (* the processes table, a stale copy of what docker holds       *)
    body,    (* of each running task: where it is and its local variables    *)
    doomed,  (* instances an update left to delete_instances, 4s later       *)
    secret,  (* the handler of a secret update, inside the loop              *)
    cont,    (* docker: the containers                                       *)
    dq,      (* docker: events not yet read by analyze                       *)
    dh,      (* exec_docker: the event in hand and what is left to do        *)
    req,     (* of each client: the request in progress                      *)
    asked,   (* history: the last request on the cargo that was accepted     *)
    left     (* the world (w), what is left of its bounds, and history: the  *)
             (* operations requested so far                                  *)

tmVars == <<queue, loop, tasks, task>>
dbVars == <<row, proc>>
dockerVars == <<cont, dq>>
daemonVars == <<body, doomed, secret, dh>>
clientVars == <<req, asked>>
vars == <<tmVars, dbVars, daemonVars, dockerVars, clientVars, left>>

TM == INSTANCE TaskManager WITH Serial <- Cargoes, Jobs <- {}, Sources <- Secrets

Conts == 1..left.w.conts
AllConts == UNION {1..w.conts : w \in Worlds}
Replicas == left.w.replicas
HasInit == left.w.init

None == [st |-> "none"]

Ev(c, a) == [obj |-> c, action |-> a]

Statuses == {"Create", "Start", "Starting", "Stop", "Stopping", "Updating",
             "Destroy", "Destroying", "Fail"}

Transitional == {"Starting", "Stopping", "Updating", "Destroying"}

ContStates == {"created", "up", "down", "crashed", "bad"}

Init ==
    /\ TM!Init
    /\ \E w \in Worlds :
          left = [w |-> w, made |-> 0, reqs |-> w.reqs, fails |-> w.fails, crashes |-> w.crashes,
                  seen |-> {}]
    /\ row = [c \in Cargoes |-> None]
    /\ proc = [i \in Conts |-> None]
    /\ body = [t \in TaskIds |-> None]
    /\ doomed = {}
    /\ secret = None
    /\ cont = [i \in Conts |-> None]
    /\ dq = <<>>
    /\ dh = None
    /\ req = [k \in Clients |-> None]
    /\ asked = [c \in Cargoes |-> "none"]

-----------------------------------------------------------------------------
(* The database.                                                           *)
Exists(c) == row[c] # None

Row(wanted, actual, spec) ==
    [st |-> "row", wanted |-> wanted, actual |-> actual, spec |-> spec]

(* ObjPsStatusDb::update_pk with both columns; update_actual_status.       *)
SetStatus(c, wanted, actual) == [row EXCEPT ![c].wanted = wanted, ![c].actual = actual]

SetActual(c, actual) == [row EXCEPT ![c].actual = actual]

(* ProcessDb::read_by_kind_key, all rows or the not-init-c ones; the rows  *)
(* come newest first.                                                      *)
ProcsOf(c) == {i \in Conts : proc[i] # None /\ proc[i].cargo = c}

InstancesOf(c) == {i \in ProcsOf(c) : ~proc[i].init}

InitsOf(c) == ProcsOf(c) \ InstancesOf(c)

Newest(S) == CHOOSE i \in S : \A j \in S : j <= i

(* count_status: a container that never ran has no finished_at and counts  *)
(* as running; one that is restarting counts as failed.                    *)
CountRunning(c) == Cardinality({i \in ProcsOf(c) : proc[i].st \in {"created", "up"}})

-----------------------------------------------------------------------------
(* Docker: containers and the events their changes produce.  tmp counts    *)
(* the "tmp-" prefixes of the name.  A container is created, up, down,     *)
(* crashed (restart policy always: docker is about to start it again) or,  *)
(* for an init container, bad: it ended with a non-zero code.              *)
Present(i) == cont[i] # None

DockerEvent(type, i) ==
    [type |-> type, id |-> i, cargo |-> cont[i].cargo,
     init |-> cont[i].init, tmp |-> cont[i].tmp]

DieOf(i) == IF cont[i].st = "up" THEN <<DockerEvent("die", i)>> ELSE <<>>

(* start_container: nothing happens to one that is up already.             *)
StartCont(i) ==
    /\ cont' = [cont EXCEPT ![i].st = "up"]
    /\ dq' = IF cont[i].st = "up" THEN dq ELSE Append(dq, DockerEvent("start", i))

RestartCont(i) ==
    /\ cont' = [cont EXCEPT ![i].st = "up"]
    /\ dq' = dq \o DieOf(i) \o <<DockerEvent("start", i)>>

(* stop_container: what never ran or is down is left as it is.             *)
StopCont(i) ==
    /\ cont' = [cont EXCEPT ![i].st =
                    CASE @ = "up" -> IF cont[i].init THEN "bad" ELSE "down"
                      [] @ = "crashed" -> "down"
                      [] OTHER -> @]
    /\ dq' = CASE cont[i].st = "up" -> dq \o DieOf(i)
               [] cont[i].st = "crashed" -> Append(dq, DockerEvent("stop", i))
               [] OTHER -> dq

(* remove_container with force: kills what is up.                          *)
RemoveCont(i) ==
    /\ cont' = [cont EXCEPT ![i] = None]
    /\ dq' = dq \o DieOf(i) \o <<DockerEvent("destroy", i)>>

(* rename_container fails on a missing container and on its own name.      *)
CanRename(i, n) == Present(i) /\ cont[i].tmp # n

RenameCont(i, n) ==
    /\ cont' = [cont EXCEPT ![i].tmp = n]
    /\ dq' = Append(dq, [DockerEvent("rename", i) EXCEPT !.tmp = n])

(* The next n containers docker creates.                                   *)
Fresh(n) == left.made + 1 .. left.made + n

NewCont(c, init, spec) ==
    [st |-> "created", cargo |-> c, init |-> init, tmp |-> 0, spec |-> spec]

NewProc(c, init) == [st |-> "created", cargo |-> c, init |-> init, tmp |-> 0]

(* process::create for the containers S: docker's container and its row.   *)
CreateConts(S, c, init, spec) ==
    /\ S \subseteq Conts
    /\ cont' = [i \in Conts |-> IF i \in S THEN NewCont(c, init, spec) ELSE cont[i]]
    /\ proc' = [i \in Conts |-> IF i \in S THEN NewProc(c, init) ELSE proc[i]]

-----------------------------------------------------------------------------
(* Task bodies.  The local variables of one: todo is what its loop has     *)
(* left, rows the process rows it read, new the instances it created, make *)
(* whether it has to create them, tmp the name of the init container it    *)
(* read, err whether a rename of the batch failed.                         *)
Frame(spec, pc, todo) ==
    [st |-> "run", pc |-> pc, todo |-> todo, new |-> {}, spec |-> spec,
     rows |-> [i \in Conts |-> None], make |-> TRUE, tmp |-> 0, err |-> FALSE]

Obj(t) == task[t].ev.obj

Reads(t, a) ==
    /\ task[t].phase = "body"
    /\ task[t].ev.action = a
    /\ body[t] = None

At(t, acts, pc) ==
    /\ body[t] # None
    /\ body[t].pc = pc
    /\ task[t].ev.action \in acts

Launching == {"Starting", "Updating"}

Set(t, b) == body' = [body EXCEPT ![t] = b]

Goto(t, pc, todo) == [body[t] EXCEPT !.pc = pc, !.todo = todo]

Done(t, i) == [body[t] EXCEPT !.todo = @ \ {i}]

(* Mutant: the locals of a task that ended are kept.                       *)
ReturnKeepsLocals(t) == TM!BodyOk(t) /\ UNCHANGED body

(* The body returns Ok, or Err.                                            *)
Return(t) == TM!BodyOk(t) /\ Set(t, None)

Err(t) == TM!BodyErr(t) /\ Set(t, None)

MayFail == left.fails > 0

SpendFail == left' = [left EXCEPT !.fails = @ - 1]

(* The docker call about i (what it needs: ok) fails, for a reason of the  *)
(* call or for one of docker's own.                                        *)
CallFails(ok) == (~ok /\ UNCHANGED left) \/ (MayFail /\ SpendFail)

(* cargo::start and cargo::update read the cargo first ...                 *)
ReadCargo(t) ==
    /\ \E a \in Launching : Reads(t, a)
    /\ \/ /\ ~Exists(Obj(t))
          /\ Err(t)
       \/ /\ Exists(Obj(t))
          /\ Set(t, Frame(row[Obj(t)].spec, "rows", {}))
          /\ UNCHANGED tmVars
    /\ UNCHANGED <<dbVars, doomed, secret, dh, dockerVars, clientVars, left>>

(* Mutant: a start creates instances whether or not there are some.        *)
ReadStartCreatesAgain(t) ==
    /\ At(t, {"Starting"}, "rows")
    /\ Set(t, Goto(t, IF HasInit THEN "init" ELSE "create", InitsOf(Obj(t))))
    /\ UNCHANGED <<tmVars, dbVars, doomed, secret, dh, dockerVars, clientVars, left>>

(* ... then a start its instances and its init container ...               *)
ReadStart(t) ==
    LET c == Obj(t)
        make == InstancesOf(c) = {}
        pc == IF HasInit THEN "init" ELSE IF make THEN "create" ELSE "list"
        tmp == IF InitsOf(c) = {} THEN 0 ELSE proc[Newest(InitsOf(c))].tmp
    IN  /\ At(t, {"Starting"}, "rows")
        /\ Set(t, [Goto(t, pc, InitsOf(c)) EXCEPT !.make = make, !.tmp = tmp])
        /\ UNCHANGED <<tmVars, dbVars, doomed, secret, dh, dockerVars, clientVars, left>>

(* create_init_container: for a start only when there is none.             *)
CreateInit(t) ==
    /\ At(t, Launching, "init")
    /\ \/ /\ body[t].todo = {}
          /\ CreateConts(Fresh(1), Obj(t), TRUE, body[t].spec)
          /\ Set(t, Goto(t, "initrun", Fresh(1)))
          /\ left' = [left EXCEPT !.made = @ + 1]
          /\ UNCHANGED tmVars
       \/ /\ body[t].todo = {}
          /\ MayFail /\ SpendFail
          /\ Err(t)
          /\ UNCHANGED <<cont, proc>>
       \/ /\ body[t].todo # {}
          /\ Set(t, Goto(t, "initrun", {Newest(body[t].todo)}))
          /\ UNCHANGED <<tmVars, cont, proc, left>>
    /\ UNCHANGED <<row, doomed, secret, dh, dq, clientVars>>

(* start_init_container: by the name that was read.                        *)
StartInit(t) ==
    /\ At(t, Launching, "initrun")
    /\ LET i == Newest(body[t].todo)
           ok == Present(i) /\ cont[i].tmp = body[t].tmp
       IN  \/ /\ ok
              /\ StartCont(i)
              /\ Set(t, Goto(t, "initwait", {i}))
              /\ UNCHANGED <<tmVars, left>>
           \/ /\ CallFails(ok)
              /\ Err(t)
              /\ UNCHANGED dockerVars
    /\ UNCHANGED <<dbVars, doomed, secret, dh, clientVars>>

(* Mutant: the exit code of the init container is not looked at.           *)
WaitInitAnyCode(t) ==
    /\ At(t, Launching, "initwait")
    /\ cont[Newest(body[t].todo)].st # "up"
    /\ Set(t, Goto(t, IF body[t].make THEN "create" ELSE "list", {}))
    /\ UNCHANGED <<tmVars, dbVars, doomed, secret, dh, dockerVars, clientVars, left>>

(* ... and wait until it is not running.                                   *)
WaitInit(t) ==
    /\ At(t, Launching, "initwait")
    /\ LET i == Newest(body[t].todo) IN
        \/ /\ Present(i) /\ cont[i].st = "down"
           /\ Set(t, Goto(t, IF body[t].make THEN "create" ELSE "list", {}))
           /\ UNCHANGED tmVars
        \/ /\ ~Present(i) \/ cont[i].st = "bad"
           /\ Err(t)
    /\ UNCHANGED <<dbVars, doomed, secret, dh, dockerVars, clientVars, left>>

(* cargo::create: the replicas are created concurrently; when one fails    *)
(* the others stay.                                                        *)
CreateInstances(t) ==
    /\ At(t, Launching, "create")
    /\ \E n \in 0..Replicas :
        /\ CreateConts(Fresh(n), Obj(t), FALSE, body[t].spec)
        /\ \/ /\ n = Replicas
              /\ Set(t, [Goto(t, "list", {}) EXCEPT !.new = Fresh(n)])
              /\ left' = [left EXCEPT !.made = @ + n]
              /\ UNCHANGED tmVars
           \/ /\ n < Replicas /\ MayFail
              /\ left' = [left EXCEPT !.made = @ + n, !.fails = @ - 1]
              /\ Err(t)
    /\ UNCHANGED <<row, doomed, secret, dh, dq, clientVars>>

(* start_instances: read the instances, start them one after the other.    *)
ListInstances(t) ==
    /\ At(t, Launching, "list")
    /\ Set(t, Goto(t, "run", InstancesOf(Obj(t))))
    /\ UNCHANGED <<tmVars, dbVars, doomed, secret, dh, dockerVars, clientVars, left>>

StartInstance(t) ==
    /\ At(t, Launching, "run")
    /\ body[t].todo # {}
    /\ LET i == Newest(body[t].todo) IN
        /\ Present(i)
        /\ StartCont(i)
        /\ Set(t, Done(t, i))
    /\ UNCHANGED <<tmVars, dbVars, doomed, secret, dh, clientVars, left>>

(* Mutant: a roll back that deletes every instance.                        *)
StartFailedDeletesAll(t) ==
    \/ /\ task[t].ev.action = "Starting"
       /\ Err(t)
    \/ /\ task[t].ev.action = "Updating"
       /\ Set(t, Goto(t, "undo", InstancesOf(Obj(t))))
       /\ UNCHANGED tmVars

(* What start_instances returning Err leads to: a start task fails, an     *)
(* update rolls back.                                                      *)
StartFailed(t) ==
    \/ /\ task[t].ev.action = "Starting"
       /\ Err(t)
    \/ /\ task[t].ev.action = "Updating"
       /\ Set(t, Goto(t, "undo", body[t].new))
       /\ UNCHANGED tmVars

StartInstanceErr(t) ==
    /\ At(t, Launching, "run")
    /\ body[t].todo # {}
    /\ CallFails(Present(Newest(body[t].todo)))
    /\ StartFailed(t)
    /\ UNCHANGED <<dbVars, doomed, secret, dh, dockerVars, clientVars>>

(* The end of start_instances: status and event.  An update then leaves    *)
(* the instances it renamed to a spawned delete_instances.                 *)
Started(t) ==
    /\ At(t, Launching, "run")
    /\ body[t].todo = {}
    /\ \/ /\ ~Exists(Obj(t))
          /\ StartFailed(t)
          /\ UNCHANGED <<row, doomed>>
       \/ /\ Exists(Obj(t))
          /\ row' = SetActual(Obj(t), "Start")
          /\ TM!Emit(Ev(Obj(t), "Other"))
          /\ \/ /\ task[t].ev.action = "Starting"
                /\ Set(t, Goto(t, "end", {}))
                /\ UNCHANGED doomed
             \/ /\ task[t].ev.action = "Updating"
                /\ Set(t, Goto(t, "final", {}))
                /\ doomed' = doomed \cup {i \in Conts : body[t].rows[i] # None}
    /\ UNCHANGED <<proc, secret, dh, dockerVars, clientVars, left>>

-----------------------------------------------------------------------------
(* ... and an update all its process rows.                                 *)
ReadUpdate(t) ==
    LET ps == ProcsOf(Obj(t)) IN
    /\ At(t, {"Updating"}, "rows")
    /\ Set(t, [Goto(t, "rename", ps) EXCEPT
                  !.rows = [i \in Conts |-> IF i \in ps THEN proc[i] ELSE None]])
    /\ UNCHANGED <<tmVars, dbVars, doomed, secret, dh, dockerVars, clientVars, left>>

(* An old instance whose row says it is restarting is stopped first, by    *)
(* the name the row has.                                                   *)
StopOld(t) ==
    /\ At(t, {"Updating"}, "rename")
    /\ body[t].todo # {}
    /\ LET i == Newest(body[t].todo)
           ok == Present(i) /\ cont[i].tmp = body[t].rows[i].tmp
       IN  /\ body[t].rows[i].st = "crashed"
           /\ \/ /\ ok
                 /\ StopCont(i)
                 /\ Set(t, [body[t] EXCEPT !.rows[i].st = "down"])
                 /\ UNCHANGED left
              \/ /\ CallFails(ok)
                 /\ Set(t, [Done(t, i) EXCEPT !.err = TRUE])
                 /\ UNCHANGED dockerVars
    /\ UNCHANGED <<tmVars, dbVars, doomed, secret, dh, clientVars>>

(* "tmp-" is put in front of the name the row has.  The batch runs to its  *)
(* end whatever fails.                                                     *)
RenameOld(t) ==
    /\ At(t, {"Updating"}, "rename")
    /\ body[t].todo # {}
    /\ LET i == Newest(body[t].todo)
           n == body[t].rows[i].tmp + 1
       IN  /\ body[t].rows[i].st # "crashed"
           /\ \/ /\ CanRename(i, n)
                 /\ RenameCont(i, n)
                 /\ Set(t, Done(t, i))
                 /\ UNCHANGED left
              \/ /\ CallFails(CanRename(i, n))
                 /\ Set(t, [Done(t, i) EXCEPT !.err = TRUE])
                 /\ UNCHANGED dockerVars
    /\ UNCHANGED <<tmVars, dbVars, doomed, secret, dh, clientVars>>

RenamedAll(t) ==
    /\ At(t, {"Updating"}, "rename")
    /\ body[t].todo = {}
    /\ \/ /\ body[t].err
          /\ Err(t)
       \/ /\ ~body[t].err
          /\ Set(t, Goto(t, IF HasInit THEN "init" ELSE "create", {}))
          /\ UNCHANGED tmVars
    /\ UNCHANGED <<dbVars, doomed, secret, dh, dockerVars, clientVars, left>>

(* The instances could not be started: delete the new ones, row included,  *)
(* then give the old ones the name their row had.                          *)
UndoCreate(t) ==
    /\ At(t, {"Updating"}, "undo")
    /\ \/ /\ body[t].todo = {}
          /\ Set(t, Goto(t, "back", {i \in Conts : body[t].rows[i] # None}))
          /\ UNCHANGED <<dockerVars, proc, left>>
       \/ /\ body[t].todo # {}
          /\ LET i == Newest(body[t].todo) IN
              /\ \/ /\ IF Present(i) THEN RemoveCont(i) ELSE UNCHANGED dockerVars
                    /\ proc' = [proc EXCEPT ![i] = None]
                    /\ UNCHANGED left
                 \/ /\ MayFail /\ SpendFail
                    /\ UNCHANGED <<dockerVars, proc>>
              /\ Set(t, Done(t, i))
    /\ UNCHANGED <<tmVars, row, doomed, secret, dh, clientVars>>

UndoRename(t) ==
    /\ At(t, {"Updating"}, "back")
    /\ \/ /\ body[t].todo = {}
          /\ Set(t, Goto(t, "final", {}))
          /\ UNCHANGED <<dockerVars, left>>
       \/ /\ body[t].todo # {}
          /\ LET i == Newest(body[t].todo)
                 n == body[t].rows[i].tmp
             IN  /\ \/ CanRename(i, n) /\ RenameCont(i, n) /\ UNCHANGED left
                    \/ CallFails(CanRename(i, n)) /\ UNCHANGED dockerVars
                 /\ Set(t, Done(t, i))
    /\ UNCHANGED <<tmVars, dbVars, doomed, secret, dh, clientVars>>

(* The last status write of an update, rolled back or not.                 *)
Updated(t) ==
    /\ At(t, {"Updating"}, "final")
    /\ \/ /\ ~Exists(Obj(t))
          /\ Err(t)
          /\ UNCHANGED row
       \/ /\ Exists(Obj(t))
          /\ row' = SetActual(Obj(t), "Start")
          /\ TM!Emit(Ev(Obj(t), "Other"))
          /\ Set(t, Goto(t, "end", {}))
    /\ UNCHANGED <<proc, doomed, secret, dh, dockerVars, clientVars, left>>

(* Mutant: the row goes first.                                             *)
ReapRowFirst(i) ==
    /\ i \in doomed
    /\ \/ /\ proc[i] # None
          /\ proc' = [proc EXCEPT ![i] = None]
          /\ UNCHANGED <<dockerVars, doomed>>
       \/ /\ proc[i] = None
          /\ IF Present(i) THEN RemoveCont(i) ELSE UNCHANGED dockerVars
          /\ doomed' = doomed \ {i}
          /\ UNCHANGED proc
    /\ UNCHANGED <<tmVars, row, body, secret, dh, clientVars, left>>

(* The spawned delete_instances of an update, 4s later: the container is   *)
(* removed by force, then its row; a removal that fails leaves both.       *)
Reap(i) ==
    /\ i \in doomed
    /\ \/ /\ Present(i)
          /\ RemoveCont(i)
          /\ UNCHANGED <<proc, doomed, left>>
       \/ /\ ~Present(i)
          /\ proc' = [proc EXCEPT ![i] = None]
          /\ doomed' = doomed \ {i}
          /\ UNCHANGED <<dockerVars, left>>
       \/ /\ Present(i)
          /\ MayFail /\ SpendFail
          /\ doomed' = doomed \ {i}
          /\ UNCHANGED <<dockerVars, proc>>
    /\ UNCHANGED <<tmVars, row, body, secret, dh, clientVars>>

-----------------------------------------------------------------------------
(* stop_instances.                                                         *)
ReadStop(t) ==
    /\ Reads(t, "Stopping")
    /\ Set(t, Frame(0, "run", ProcsOf(Obj(t))))
    /\ UNCHANGED <<tmVars, dbVars, doomed, secret, dh, dockerVars, clientVars, left>>

StopInstance(t) ==
    /\ At(t, {"Stopping"}, "run")
    /\ body[t].todo # {}
    /\ LET i == Newest(body[t].todo) IN
        \/ /\ Present(i)
           /\ StopCont(i)
           /\ Set(t, Done(t, i))
           /\ UNCHANGED <<tmVars, left>>
        \/ /\ CallFails(Present(i))
           /\ Err(t)
           /\ UNCHANGED dockerVars
    /\ UNCHANGED <<dbVars, doomed, secret, dh, clientVars>>

Stopped(t) ==
    /\ At(t, {"Stopping"}, "run")
    /\ body[t].todo = {}
    /\ \/ /\ ~Exists(Obj(t))
          /\ Err(t)
          /\ UNCHANGED row
       \/ /\ Exists(Obj(t))
          /\ row' = SetActual(Obj(t), "Stop")
          /\ TM!Emit(Ev(Obj(t), "Other"))
          /\ Set(t, Goto(t, "end", {}))
    /\ UNCHANGED <<proc, doomed, secret, dh, dockerVars, clientVars, left>>

(* cargo::delete: of each process row, stop and remove the container and   *)
(* ignore what goes wrong (a removal without force fails on a running      *)
(* container), then clear the cargo, its specs and its status.             *)
ReadDelete(t) ==
    /\ Reads(t, "Destroying")
    /\ Set(t, Frame(0, "stop", ProcsOf(Obj(t))))
    /\ UNCHANGED <<tmVars, dbVars, doomed, secret, dh, dockerVars, clientVars, left>>

(* Mutant: the container is not stopped before it is removed.              *)
DeleteWithoutStop(t) ==
    /\ At(t, {"Destroying"}, "stop")
    /\ body[t].todo # {}
    /\ Set(t, Goto(t, "remove", body[t].todo))
    /\ UNCHANGED <<tmVars, dbVars, doomed, secret, dh, dockerVars, clientVars, left>>

DeleteStop(t) ==
    /\ At(t, {"Destroying"}, "stop")
    /\ body[t].todo # {}
    /\ LET i == Newest(body[t].todo) IN
        \/ Present(i) /\ StopCont(i) /\ UNCHANGED left
        \/ CallFails(Present(i)) /\ UNCHANGED dockerVars
    /\ Set(t, Goto(t, "remove", body[t].todo))
    /\ UNCHANGED <<tmVars, dbVars, doomed, secret, dh, clientVars>>

DeleteRemove(t) ==
    /\ At(t, {"Destroying"}, "remove")
    /\ LET i == Newest(body[t].todo)
           removable == Present(i) /\ cont[i].st \notin {"up", "crashed"}
       IN  /\ \/ removable /\ RemoveCont(i) /\ UNCHANGED left
              \/ CallFails(removable) /\ UNCHANGED dockerVars
           /\ Set(t, Goto(t, "stop", body[t].todo \ {i}))
    /\ UNCHANGED <<tmVars, dbVars, doomed, secret, dh, clientVars>>

(* Mutant: the cargo is only cleared when no process row is left.          *)
ClearIfEmpty(t) ==
    /\ At(t, {"Destroying"}, "stop")
    /\ body[t].todo = {}
    /\ \/ /\ ~Exists(Obj(t)) \/ ProcsOf(Obj(t)) # {}
          /\ Err(t)
          /\ UNCHANGED row
       \/ /\ Exists(Obj(t)) /\ ProcsOf(Obj(t)) = {}
          /\ row' = [row EXCEPT ![Obj(t)] = None]
          /\ TM!Emit(Ev(Obj(t), "Other"))
          /\ Set(t, Goto(t, "end", {}))
    /\ UNCHANGED <<proc, doomed, secret, dh, dockerVars, clientVars, left>>

Clear(t) ==
    /\ At(t, {"Destroying"}, "stop")
    /\ body[t].todo = {}
    /\ \/ /\ ~Exists(Obj(t))
          /\ Err(t)
          /\ UNCHANGED row
       \/ /\ Exists(Obj(t))
          /\ row' = [row EXCEPT ![Obj(t)] = None]
          /\ TM!Emit(Ev(Obj(t), "Other"))
          /\ Set(t, Goto(t, "end", {}))
    /\ UNCHANGED <<proc, doomed, secret, dh, dockerVars, clientVars, left>>

(* The body is over; the on_error callback of exec_event.                  *)
End(t) ==
    /\ At(t, TM!TaskActions, "end")
    /\ Return(t)
    /\ UNCHANGED <<dbVars, doomed, secret, dh, dockerVars, clientVars, left>>

(* Mutant: a failed task leaves the status as it is.                       *)
OnErrorSilent(t) ==
    /\ TM!OnErrorDone(t)
    /\ UNCHANGED <<dbVars, daemonVars, dockerVars, clientVars, left>>

OnError(t) ==
    /\ TM!OnErrorDone(t)
    /\ row' = IF Exists(Obj(t)) THEN SetActual(Obj(t), "Fail") ELSE row
    /\ UNCHANGED <<proc, daemonVars, dockerVars, clientVars, left>>

TaskStep(t) ==
    \/ ReadCargo(t) \/ ReadStart(t) \/ CreateInit(t) \/ StartInit(t) \/ WaitInit(t)
    \/ CreateInstances(t) \/ ListInstances(t)
    \/ StartInstance(t) \/ StartInstanceErr(t) \/ Started(t)
    \/ ReadUpdate(t) \/ StopOld(t) \/ RenameOld(t) \/ RenamedAll(t)
    \/ UndoCreate(t) \/ UndoRename(t) \/ Updated(t)
    \/ ReadStop(t) \/ StopInstance(t) \/ Stopped(t)
    \/ ReadDelete(t) \/ DeleteStop(t) \/ DeleteRemove(t) \/ Clear(t)
    \/ End(t) \/ OnError(t)

-----------------------------------------------------------------------------
(* The event loop between tasks, and the secret branch of update, which    *)
(* runs inside it: read the cargoes, mark and notify each one.             *)
LoopStep ==
    /\ TM!RecvWait \/ TM!RecvSerial \/ TM!RecvSource \/ TM!WaitDone
    /\ UNCHANGED <<dbVars, daemonVars, dockerVars, clientVars, left>>

SecretRead ==
    /\ loop.pc = "busy"
    /\ secret = None
    /\ secret' = [st |-> "run", todo |-> {c \in Cargoes : Exists(c)}]
    /\ UNCHANGED <<tmVars, dbVars, body, doomed, dh, dockerVars, clientVars, left>>

SecretUpdate ==
    /\ secret # None
    /\ \E c \in secret.todo :
        /\ row' = IF Exists(c) THEN SetActual(c, "Updating") ELSE row
        /\ TM!Emit(Ev(c, "Updating"))
        /\ secret' = [secret EXCEPT !.todo = @ \ {c}]
    /\ UNCHANGED <<proc, body, doomed, dh, dockerVars, clientVars, left>>

SecretDone ==
    /\ secret # None
    /\ secret.todo = {}
    /\ TM!HandlerDone
    /\ secret' = None
    /\ UNCHANGED <<dbVars, body, doomed, dh, dockerVars, clientVars, left>>

-----------------------------------------------------------------------------
(* exec_docker, on the thread of analyze: one docker event at a time.  A   *)
(* start makes the cargo started, whatever it was; the death of an         *)
(* instance that is neither an old nor an init one makes it failed, unless *)
(* it was to stop.  A missing status is an error that ends the handler.    *)
Fatal(ev) == ev.type = "die" /\ ev.tmp = 0 /\ ~ev.init

Handle(ev, pc) == [st |-> "run", pc |-> pc, ev |-> ev]

DockerRecv ==
    /\ dh = None
    /\ dq # <<>>
    /\ dq' = Tail(dq)
    /\ LET ev == Head(dq)
           c == ev.cargo
           reads == ev.type = "start" \/ Fatal(ev)
           writes == Exists(c) /\
               \/ ev.type = "start" /\ row[c].actual # "Start"
               \/ Fatal(ev) /\ row[c].wanted # "Stop"
       IN  \/ /\ ev.type = "destroy"
              /\ proc' = [proc EXCEPT ![ev.id] = None]
              /\ UNCHANGED dh
           \/ /\ ev.type # "destroy"
              /\ dh' = CASE reads /\ ~Exists(c) -> None
                         [] writes -> Handle(ev, "write")
                         [] OTHER -> Handle(ev, "sync")
              /\ UNCHANGED proc
    /\ UNCHANGED <<tmVars, row, body, doomed, secret, cont, clientVars, left>>

DockerWrite ==
    /\ dh # None
    /\ dh.pc = "write"
    /\ LET c == dh.ev.cargo IN
        /\ row' = IF ~Exists(c) THEN row
                  ELSE SetActual(c, IF dh.ev.type = "start" THEN "Start" ELSE "Fail")
        /\ dh' = IF Exists(c) THEN [dh EXCEPT !.pc = "sync"] ELSE None
    /\ UNCHANGED <<tmVars, proc, body, doomed, secret, dockerVars, clientVars, left>>

(* Mutant: a rename does not reach the row.                                *)
DockerSyncKeepsName ==
    /\ dh # None
    /\ dh.pc = "sync"
    /\ LET i == dh.ev.id IN
        proc' = IF Present(i) /\ proc[i] # None
                  THEN [proc EXCEPT ![i].st = cont[i].st] ELSE proc
    /\ dh' = None
    /\ UNCHANGED <<tmVars, row, body, doomed, secret, dockerVars, clientVars, left>>

(* The row gets the name the event carries and what docker says now; a     *)
(* container or a row that is gone is an error.                            *)
DockerSync ==
    /\ dh # None
    /\ dh.pc = "sync"
    /\ LET i == dh.ev.id IN
        proc' = IF Present(i) /\ proc[i] # None
                  THEN [proc EXCEPT ![i].st = cont[i].st, ![i].tmp = dh.ev.tmp]
                  ELSE proc
    /\ dh' = None
    /\ UNCHANGED <<tmVars, row, body, doomed, secret, dockerVars, clientVars, left>>

DockerStep == DockerRecv \/ DockerWrite \/ DockerSync

-----------------------------------------------------------------------------
(* What containers do by themselves: an init container ends, an instance   *)
(* crashes and docker starts it again.                                     *)
Exit(i, st) ==
    /\ cont' = [cont EXCEPT ![i].st = st]
    /\ dq' = Append(dq, DockerEvent("die", i))
    /\ UNCHANGED <<tmVars, dbVars, daemonVars, clientVars>>

InitExit(i) ==
    /\ Present(i) /\ cont[i].init /\ cont[i].st = "up"
    /\ \/ Exit(i, "down") /\ UNCHANGED left
       \/ Exit(i, "bad") /\ MayFail /\ SpendFail

Crash(i) ==
    /\ left.crashes > 0
    /\ Present(i) /\ ~cont[i].init /\ cont[i].st = "up"
    /\ Exit(i, "crashed")
    /\ left' = [left EXCEPT !.crashes = @ - 1]

Revive(i) ==
    /\ Present(i) /\ cont[i].st = "crashed"
    /\ StartCont(i)
    /\ UNCHANGED <<tmVars, dbVars, daemonVars, clientVars, left>>

-----------------------------------------------------------------------------
(* Nothing is in flight: the next request meets a settled system.          *)
Quiet ==
    /\ queue = <<>> /\ loop = TM!Idle
    /\ \A t \in TaskIds : task[t] = TM!Done
    /\ dq = <<>> /\ dh = None
    /\ doomed = {}
    /\ \A k \in Clients : req[k] = None
    /\ \A i \in Conts : cont[i] # None => cont[i].st # "crashed"

(* API requests.  A request that ends with an HTTP error changes nothing   *)
(* more and is forgotten; todo is used by the ones that loop over rows.    *)
Begin(k, op) ==
    /\ op \in left.w.ops
    /\ req[k] = None
    /\ left.reqs > 0
    /\ left.w.calm => Quiet
    /\ left' = [left EXCEPT !.reqs = @ - 1, !.seen = @ \cup {op}]

Request(op, c, pc, todo) == [st |-> "run", op |-> op, c |-> c, pc |-> pc, todo |-> todo]

Goes(k, op, c, pc) == req' = [req EXCEPT ![k] = Request(op, c, pc, {})]

Ends(k) == req' = [req EXCEPT ![k] = None]

In(k, ops, pc) == req[k] # None /\ req[k].op \in ops /\ req[k].pc = pc

Accepted(c, op) == asked' = [asked EXCEPT ![c] = op]

(* CargoDb::create_obj: the rows of spec, status and cargo; a status row   *)
(* with that key makes it fail.                                            *)
CreateCargo(k, c) ==
    /\ Begin(k, "create")
    /\ ~Exists(c)
    /\ row' = [row EXCEPT ![c] = Row("Create", "Create", 1)]
    /\ TM!Emit(Ev(c, "Other"))
    /\ Accepted(c, "create")
    /\ UNCHANGED <<proc, daemonVars, dockerVars, req>>

(* emit_starting up to its status write.                                   *)
StartCargo(k, c) ==
    /\ Begin(k, "start")
    /\ Exists(c)
    /\ row' = SetStatus(c, "Start", "Starting")
    /\ Goes(k, "start", c, "emit")
    /\ UNCHANGED <<tmVars, proc, daemonVars, dockerVars, asked>>

(* emit_stopping: the read and its early return, then the write.           *)
StopCargo(k, c) ==
    /\ Begin(k, "stop")
    /\ Exists(c)
    /\ \/ /\ row[c].actual = "Stop"
          /\ Accepted(c, "stop")
          /\ UNCHANGED req
       \/ /\ row[c].actual # "Stop"
          /\ Goes(k, "stop", c, "write")
          /\ UNCHANGED asked
    /\ UNCHANGED <<tmVars, dbVars, daemonVars, dockerVars>>

(* fn_del_obj_by_pk: the read and its refusal, then the write.             *)
DeleteCargo(k, c, op) ==
    /\ Begin(k, op)
    /\ Exists(c)
    /\ CountRunning(c) > 0 => op = "force"
    /\ Goes(k, op, c, "write")
    /\ UNCHANGED <<tmVars, dbVars, daemonVars, dockerVars, asked>>

WriteStatus(k) ==
    /\ In(k, {"stop", "delete", "force"}, "write")
    /\ LET c == req[k].c IN
        \/ /\ ~Exists(c)
           /\ Ends(k)
           /\ UNCHANGED row
        \/ /\ Exists(c)
           /\ row' = IF req[k].op = "stop" THEN SetStatus(c, "Stop", "Stopping")
                                           ELSE SetStatus(c, "Destroy", "Destroying")
           /\ Goes(k, req[k].op, c, "emit")
    /\ UNCHANGED <<tmVars, proc, daemonVars, dockerVars, asked, left>>

(* fn_put_obj_by_pk (patch ends in it too): status, then the new spec.     *)
PutCargo(k, c) ==
    /\ Begin(k, "put")
    /\ Exists(c)
    /\ row' = SetStatus(c, "Start", "Updating")
    /\ Goes(k, "put", c, "spec")
    /\ UNCHANGED <<tmVars, proc, daemonVars, dockerVars, asked>>

PutSpec(k) ==
    /\ In(k, {"put"}, "spec")
    /\ LET c == req[k].c IN
        \/ /\ ~Exists(c)
           /\ Ends(k)
           /\ UNCHANGED row
        \/ /\ Exists(c)
           /\ row' = [row EXCEPT ![c].spec = @ + 1]
           /\ Goes(k, "put", c, "emit")
    /\ UNCHANGED <<tmVars, proc, daemonVars, dockerVars, asked, left>>

(* The event of a request.  generic::emit reads the cargo again and fails  *)
(* when it is gone; put_obj_by_pk and del_obj_by_pk do not.                *)
EventOf(op) ==
    CASE op = "start" -> "Starting"
      [] op = "stop" -> "Stopping"
      [] op = "put" -> "Updating"
      [] op \in {"delete", "force"} -> "Destroying"
      [] OTHER -> "Other"

EmitRequest(k) ==
    /\ req[k] # None
    /\ req[k].pc = "emit"
    /\ LET c == req[k].c
           op == req[k].op
       IN  \/ /\ Exists(c) \/ op \in {"put", "delete", "force"}
              /\ TM!Emit(Ev(c, EventOf(op)))
              /\ Accepted(c, op)
           \/ /\ ~Exists(c) /\ op \in {"start", "stop", "restart"}
              /\ UNCHANGED <<tmVars, asked>>
    /\ Ends(k)
    /\ UNCHANGED <<dbVars, daemonVars, dockerVars, left>>

(* An update of a secret: the row, which is not modelled, and its event.   *)
PutSecret(k, s) ==
    /\ Begin(k, "secret")
    /\ TM!Emit(Ev(s, "Long"))
    /\ UNCHANGED <<dbVars, daemonVars, dockerVars, clientVars>>

(* restart_instances and kill_by_kind_key call docker from the handler     *)
(* itself, outside the task manager, and stop at the first error.          *)
EachProcess(k, c, op) ==
    /\ op \in {"restart", "kill"}
    /\ Begin(k, op)
    /\ req' = [req EXCEPT ![k] = Request(op, c, "each", ProcsOf(c))]
    /\ UNCHANGED <<tmVars, dbVars, daemonVars, dockerVars, asked>>

NextProcess(k) ==
    /\ In(k, {"restart", "kill"}, "each")
    /\ LET r == req[k]
           i == Newest(r.todo)
           ok == Present(i) /\ (r.op = "kill" => cont[i].st = "up")
       IN  \/ /\ r.todo = {}
              /\ IF r.op = "restart" THEN Goes(k, r.op, r.c, "emit") ELSE Ends(k)
              /\ UNCHANGED <<dockerVars, left>>
           \/ /\ r.todo # {} /\ ok
              /\ IF r.op = "restart" THEN RestartCont(i) ELSE StopCont(i)
              /\ req' = [req EXCEPT ![k].todo = @ \ {i}]
              /\ UNCHANGED left
           \/ /\ r.todo # {} /\ CallFails(ok)
              /\ Ends(k)
              /\ UNCHANGED dockerVars
    /\ UNCHANGED <<tmVars, dbVars, daemonVars, asked>>

(* start_process_by_pk: one container, straight to docker.                 *)
StartProcess(k, i) ==
    /\ Begin(k, "process")
    /\ proc[i] # None /\ Present(i)
    /\ StartCont(i)
    /\ UNCHANGED <<tmVars, dbVars, daemonVars, clientVars>>

NewRequest(k) ==
    \/ \E c \in Cargoes :
        \/ CreateCargo(k, c) \/ StartCargo(k, c) \/ StopCargo(k, c) \/ PutCargo(k, c)
        \/ \E op \in {"delete", "force"} : DeleteCargo(k, c, op)
        \/ \E op \in {"restart", "kill"} : EachProcess(k, c, op)
    \/ \E s \in Secrets : PutSecret(k, s)
    \/ \E i \in Conts : StartProcess(k, i)

RequestStep(k) == WriteStatus(k) \/ PutSpec(k) \/ EmitRequest(k) \/ NextProcess(k)

-----------------------------------------------------------------------------
SecretStep == SecretRead \/ SecretUpdate \/ SecretDone

Next ==
    \/ \E k \in Clients : NewRequest(k) \/ RequestStep(k)
    \/ LoopStep
    \/ SecretStep
    \/ DockerStep
    \/ \E t \in TaskIds : TaskStep(t)
    \/ \E i \in Conts : Reap(i) \/ InitExit(i) \/ Crash(i) \/ Revive(i)

Spec == Init /\ [][Next]_vars

(* Requests once begun, the loop, the tasks and the analyser are polled,   *)
(* docker delivers its events and restarts what crashed, and init          *)
(* containers end.                                                         *)
FairSpec ==
    /\ Spec
    /\ \A k \in Clients : WF_vars(RequestStep(k))
    /\ WF_vars(LoopStep) /\ WF_vars(SecretStep) /\ WF_vars(DockerStep)
    /\ \A t \in TaskIds : WF_vars(TaskStep(t))
    /\ \A i \in AllConts : /\ WF_vars(i \in Conts /\ Reap(i))
                          /\ WF_vars(i \in Conts /\ InitExit(i))
                          /\ WF_vars(i \in Conts /\ Revive(i))

-----------------------------------------------------------------------------
UpInstances(c) ==
    {i \in Conts : cont[i] # None /\ cont[i].cargo = c /\ ~cont[i].init /\ cont[i].st = "up"}

Inits(c) == {i \in Conts : cont[i] # None /\ cont[i].cargo = c /\ cont[i].init}

(* No cargo was deleted; or one was, but docker did what it was asked to,  *)
(* no instance crashed and no client had docker start one.                 *)
NoDelete == left.seen \cap {"delete", "force"} = {}

Faultless ==
    /\ left.fails = left.w.fails /\ left.crashes = left.w.crashes
    /\ left.seen \cap {"restart", "process"} = {}

Tidy == NoDelete \/ Faultless

(* Every variable keeps its type, and a task has local variables only      *)
(* while its body runs.                                                    *)
TypeOK ==
    /\ TM!TypeOK
    /\ row \in [Cargoes -> {None} \cup
                    [st : {"row"}, wanted : Statuses, actual : Statuses, spec : Nat]]
    /\ proc \in [Conts -> {None} \cup
                    [st : ContStates, cargo : Cargoes, init : BOOLEAN, tmp : Nat]]
    /\ cont \in [Conts -> {None} \cup
                    [st : ContStates, cargo : Cargoes, init : BOOLEAN, tmp : Nat, spec : Nat]]
    /\ doomed \subseteq Conts
    /\ \A k \in Clients : req[k] = None \/ req[k].op \in left.w.ops
    /\ \A t \in TaskIds : body[t] # None => task[t].phase = "body"

(* Every row of the processes table is written by the analyser from events *)
(* it may handle late, or while the container changes again, and deleted   *)
(* by several hands.  What the tasks read from it (delete and stop act on  *)
(* rows only) must never miss a container docker has.                      *)
RowPerContainer == \A i \in Conts : cont[i] # None => proc[i] # None

(* ... and once docker's events are all handled the row says what docker   *)
(* says, name and state included: exec_docker leaves no stale row, but of  *)
(* a container a deletion missed, whose events it drops with the cargo.    *)
RowsSettle ==
    Tidy /\ dq = <<>> /\ dh = None => \A i \in Conts :
        /\ proc[i] = None <=> cont[i] = None
        /\ cont[i] # None => proc[i].st = cont[i].st /\ proc[i].tmp = cont[i].tmp

(* No cargo stays "starting", "stopping", "updating" or "destroying" once  *)
(* nothing is in flight, in whatever order the requests, tasks, on_error   *)
(* callbacks and docker events wrote its status.                           *)
NotStuck ==
    Quiet => \A c \in Cargoes : Exists(c) => row[c].actual \notin Transitional

(* cargo::delete: "Delete cargo instances and the cargo itself in the      *)
(* database": a cargo that is gone leaves no container behind, also while  *)
(* the tasks of earlier requests, late removals and other requests go on.  *)
(* delete ignores what docker refuses, and then it may.                    *)
NoOrphan ==
    Tidy => \A i \in Conts : cont[i] # None => Exists(cont[i].cargo)

(* As long as every request finds a settled system and no docker call      *)
(* failed, the system reaches what was last asked: as many running         *)
(* instances of the current spec as replicas, under their own name, or     *)
(* none.                                                                   *)
Converged ==
    Quiet /\ left.w.calm /\ left.fails = left.w.fails => \A c \in Cargoes :
        /\ asked[c] \in {"start", "put"} =>
            /\ row[c].wanted = "Start" /\ row[c].actual = "Start"
            /\ Cardinality(UpInstances(c)) = Replicas
            /\ \A i \in UpInstances(c) : cont[i].spec = row[c].spec /\ cont[i].tmp = 0
        /\ asked[c] = "stop" =>
            /\ row[c].wanted = "Stop" /\ row[c].actual = "Stop"
            /\ UpInstances(c) = {}
        /\ asked[c] \in {"delete", "force"} =>
            ~Exists(c) /\ UpInstances(c) = {}

(* emit_stopping: "So the system start to stop the group of processes in   *)
(* the background": after a stop that was accepted nothing is left up.     *)
StopIsHeeded ==
    Quiet => \A c \in Cargoes : asked[c] = "stop" => UpInstances(c) = {}

(* What a failed update made itself and is taking back.                    *)
Undone ==
    UNION {body[t].todo \cap body[t].new : t \in {u \in TaskIds : At(u, {"Updating"}, "undo")}}

(* cargo::update, "zero downtime deployment": as long as nothing was       *)
(* stopped or deleted and no instance crashed, rolling an update back, the *)
(* late removal of old instances and two updates in a row never take the   *)
(* last running instance down, but for the ones a failed update started    *)
(* itself and now takes back.                                              *)
UpdateKeepsUp ==
    [][/\ left'.seen \cap {"stop", "kill", "delete", "force"} = {}
       /\ left'.crashes = left.w.crashes
       => \A c \in Cargoes : UpInstances(c) \ Undone # {} => UpInstances(c)' # {}]_vars

(* start_init_container: "start and wait the status of the init container  *)
(* before the main cargo container": unless a client goes straight to      *)
(* docker, an instance runs for the first time only after the newest init  *)
(* container of its cargo ended well, which is one of the same spec if an  *)
(* update made them both.  After a start it may be one of another spec.    *)
InitFirst ==
    [][HasInit /\ Tidy' /\ left'.seen \cap {"restart", "process"} = {} =>
        \A i \in Conts :
            /\ cont[i] # None /\ cont[i].st = "created" /\ ~cont[i].init
            /\ cont'[i] # None /\ cont'[i].st = "up"
            => \E j \in Inits(cont[i].cargo) :
                  /\ cont[j].st = "down"
                  /\ \A k \in Inits(cont[i].cargo) : k <= j
                  /\ \A t \in TaskIds : At(t, {"Updating"}, "run") /\ i \in body[t].new =>
                        cont[j].spec = cont[i].spec]_vars

(* A cargo that is to be destroyed is: the Destroying event behind that    *)
(* status reaches its delete task, and the task clears the rows.           *)
DestroyHappens ==
    \A c \in Cargoes : (Exists(c) /\ row[c].wanted = "Destroy") ~> ~Exists(c)
=============================================================================
