---------------------------- MODULE JobLifecycle ----------------------------
(***************************************************************************)
(* The life of jobs in nanocld.  A job runs its containers one after the   *)
(* other inside a start task; docker's "die" events travel through the     *)
(* analyser and the event loop to job_ttl, which decides from the process  *)
(* rows whether the job is finished and, with a ttl, deletes it later.     *)
(*                                                                         *)
(* Unlike a cargo, the loop never waits for a job's task: tasks of one job *)
(* overlap, and Destroying aborts the one in the map, at whatever await it *)
(* is.  So creating a container and inserting its row are two steps here.  *)
(***************************************************************************)
EXTENDS Naturals, Sequences, FiniteSets

CONSTANTS
    Jobs,          (* job names                                              *)
    TaskIds, NoTask, MaxQueue,    (* see TaskManager                         *)
    Clients,       (* HTTP connections                                       *)
    MaxConts,      (* bound: containers created                              *)
    Worlds         (* what a behaviour is about: the operations each client  *)
                   (* calls, the containers of a job and whether it has a    *)
                   (* ttl, and the bounds: requests, start requests, docker  *)
                   (* calls and containers that fail                         *)

ASSUME ConstAssumption ==
    /\ MaxConts \in Nat
    /\ \A w \in Worlds :
          /\ w.ops \in [Clients -> SUBSET {"create", "start", "stop", "delete"}]
          /\ w.ttl \in BOOLEAN /\ w.size \in Nat \ {0}
          /\ {w.reqs, w.starts, w.fails} \subseteq Nat

Conts == 1..MaxConts

VARIABLES
    queue, loop, tasks, task,    (* the event loop, see TaskManager          *)
    row,     (* jobs joined with object_process_statuses                     *)
    proc,    (* the processes table                                          *)
    body,    (* of each running task: where it is and its local variables    *)
    ttl,     (* job_ttl in the loop: the outcome it is about to write        *)
    timers,  (* jobs whose ttl sleep is running                              *)
    cont,    (* docker: the containers                                       *)
    dq,      (* docker: events not yet read by analyze                       *)
    dh,      (* exec_docker: the event whose row update is still to come     *)
    pend,    (* "die" events spawned by exec_docker, not yet on the channel  *)
    req,     (* of each client: the request in progress                      *)
    left     (* the world, and what is left of its budgets                   *)

tmVars == <<queue, loop, tasks, task>>
dbVars == <<row, proc>>
dockerVars == <<cont, dq>>
analyserVars == <<dh, pend>>
vars == <<tmVars, dbVars, body, ttl, timers, dockerVars, analyserVars, req, left>>

(* The containers of a job are the actor of their events.                  *)
Process(j) == <<"process", j>>

TM == INSTANCE TaskManager WITH
        Serial <- {}, Sources <- {Process(j) : j \in Jobs}

None == [st |-> "none"]

Ev(o, a) == [obj |-> o, action |-> a]

(* TaskManager takes its own constants as given: kinds of objects do not   *)
(* mix and no handle stands for none.                                      *)
ASSUME TmAssumption ==
    /\ Jobs \cap {Process(j) : j \in Jobs} = {}
    /\ NoTask \notin TaskIds
    /\ MaxQueue \in Nat \ {0}

Transitional == {"Starting", "Stopping", "Destroying"}

Init ==
    /\ TM!Init
    /\ row = [j \in Jobs |-> None]
    /\ proc = [i \in Conts |-> None]
    /\ body = [t \in TaskIds |-> None]
    /\ ttl = None
    /\ timers = {}
    /\ cont = [i \in Conts |-> None]
    /\ dq = <<>>
    /\ dh = None
    /\ pend = [j \in Jobs |-> 0]
    /\ req = [k \in Clients |-> None]
    /\ left \in {[w |-> w, made |-> 0, reqs |-> w.reqs, starts |-> w.starts, fails |-> w.fails] :
                  w \in Worlds}

-----------------------------------------------------------------------------
Exists(j) == row[j] # None

SetStatus(j, wanted, actual) == [row EXCEPT ![j].wanted = wanted, ![j].actual = actual]

SetActual(j, actual) == [row EXCEPT ![j].actual = actual]

ProcsOf(j) == {i \in Conts : proc[i] # None /\ proc[i].job = j}

(* Mutant: a container that never ran does not count.                      *)
RunningOfUpOnly(j) == {i \in ProcsOf(j) : proc[i].st = "up"}

(* count_status: what never ran counts as running.                         *)
RunningOf(j) == {i \in ProcsOf(j) : proc[i].st \in {"created", "up"}}

FailedOf(j) == {i \in ProcsOf(j) : proc[i].st = "bad"}

(* Docker.  A container is created, up, ok (it ended with code 0) or bad.  *)
Present(i) == cont[i] # None

DockerEvent(type, i) == [type |-> type, id |-> i, job |-> cont[i].job]

StartCont(i) ==
    /\ cont' = [cont EXCEPT ![i].st = "up"]
    /\ dq' = IF cont[i].st = "up" THEN dq ELSE Append(dq, DockerEvent("start", i))

EndCont(i, st) ==
    /\ cont' = [cont EXCEPT ![i].st = st]
    /\ dq' = Append(dq, DockerEvent("die", i))

RemoveCont(i) ==
    /\ cont' = [cont EXCEPT ![i] = None]
    /\ dq' = dq \o (IF cont[i].st = "up" THEN <<DockerEvent("die", i)>> ELSE <<>>)
                \o <<DockerEvent("destroy", i)>>

-----------------------------------------------------------------------------
(* Task bodies.  todo is what is left of the loop over the processes, cur  *)
(* the container at hand, new how many were created, err whether a removal *)
(* of the batch failed.                                                    *)
Frame(pc, todo) ==
    [st |-> "run", pc |-> pc, todo |-> todo, cur |-> 0, new |-> 0, err |-> FALSE]

Obj(t) == task[t].ev.obj

Reads(t, a) ==
    /\ task[t].phase = "body"
    /\ task[t].ev.action = a
    /\ body[t] = None

At(t, a, pc) == body[t] # None /\ body[t].pc = pc /\ task[t].ev.action = a

Set(t, b) == body' = [body EXCEPT ![t] = b]

Return(t) == TM!BodyOk(t) /\ Set(t, None)

Err(t) == TM!BodyErr(t) /\ Set(t, None)

SpendFail == left.fails > 0 /\ left' = [left EXCEPT !.fails = @ - 1]

(* job::start: read the job and its processes, create them if none.        *)
ReadStart(t) ==
    LET ps == ProcsOf(Obj(t)) IN
    /\ Reads(t, "Starting")
    /\ \/ /\ ~Exists(Obj(t))
          /\ Err(t)
       \/ /\ Exists(Obj(t))
          /\ Set(t, Frame(IF ps = {} THEN "create" ELSE "status", ps))
          /\ UNCHANGED tmVars
    /\ UNCHANGED <<dbVars, ttl, timers, dockerVars, analyserVars, req, left>>

(* create_instances: the container first ...                               *)
CreateCont(t) ==
    /\ At(t, "Starting", "create")
    /\ \/ /\ left.made < MaxConts
          /\ cont' = [cont EXCEPT ![left.made + 1] = [st |-> "created", job |-> Obj(t)]]
          /\ left' = [left EXCEPT !.made = @ + 1]
          /\ Set(t, [body[t] EXCEPT !.pc = "insert", !.cur = left.made + 1])
          /\ UNCHANGED tmVars
       \/ /\ SpendFail
          /\ Err(t)
          /\ UNCHANGED cont
    /\ UNCHANGED <<dbVars, ttl, timers, dq, analyserVars, req>>

(* ... then its row, with what docker said right after the creation.       *)
InsertProc(t) ==
    /\ At(t, "Starting", "insert")
    /\ LET i == body[t].cur
           n == body[t].new + 1
       IN  /\ proc' = [proc EXCEPT ![i] = [st |-> "created", job |-> Obj(t)]]
           /\ Set(t, [body[t] EXCEPT
                        !.pc = IF n = left.w.size THEN "status" ELSE "create",
                        !.todo = @ \cup {i}, !.new = n])
    /\ UNCHANGED <<tmVars, row, ttl, timers, dockerVars, analyserVars, req, left>>

MarkStarted(t) ==
    /\ At(t, "Starting", "status")
    /\ \/ /\ ~Exists(Obj(t))
          /\ Err(t)
          /\ UNCHANGED row
       \/ /\ Exists(Obj(t))
          /\ row' = SetActual(Obj(t), "Start")
          /\ TM!Emit(Ev(Obj(t), "Other"))
          /\ Set(t, [body[t] EXCEPT !.pc = "run"])
    /\ UNCHANGED <<proc, ttl, timers, dockerVars, analyserVars, req, left>>

(* Mutant: the next container is started without waiting for this one.     *)
StartNextNoWait(t) ==
    /\ At(t, "Starting", "run")
    /\ \E i \in body[t].todo :
        /\ Present(i) /\ StartCont(i)
        /\ Set(t, [body[t] EXCEPT !.todo = @ \ {i}])
    /\ UNCHANGED <<tmVars, dbVars, ttl, timers, analyserVars, req, left>>

(* Start the next container; an error of that call is ignored.             *)
StartNext(t) ==
    /\ At(t, "Starting", "run")
    /\ \E i \in body[t].todo :
        /\ \/ Present(i) /\ StartCont(i) /\ UNCHANGED left
           \/ ~Present(i) /\ UNCHANGED <<dockerVars, left>>
           \/ SpendFail /\ UNCHANGED dockerVars
        /\ Set(t, [body[t] EXCEPT !.pc = "wait", !.cur = i, !.todo = @ \ {i}])
    /\ UNCHANGED <<tmVars, dbVars, ttl, timers, analyserVars, req>>

(* wait_container: a container that is gone and a code other than zero are *)
(* errors.                                                                 *)
WaitNext(t) ==
    /\ At(t, "Starting", "wait")
    /\ LET i == body[t].cur IN
        \/ /\ Present(i) /\ cont[i].st \in {"created", "ok"}
           /\ Set(t, [body[t] EXCEPT !.pc = "run"])
           /\ UNCHANGED tmVars
        \/ /\ ~Present(i) \/ cont[i].st = "bad"
           /\ Err(t)
    /\ UNCHANGED <<dbVars, ttl, timers, dockerVars, analyserVars, req, left>>

StartDone(t) ==
    /\ At(t, "Starting", "run")
    /\ body[t].todo = {}
    /\ Return(t)
    /\ UNCHANGED <<dbVars, ttl, timers, dockerVars, analyserVars, req, left>>

(* stop_instances.  A container that is told to stop ends with any code.   *)
ReadStop(t) ==
    /\ Reads(t, "Stopping")
    /\ Set(t, Frame("run", ProcsOf(Obj(t))))
    /\ UNCHANGED <<tmVars, dbVars, ttl, timers, dockerVars, analyserVars, req, left>>

StopNext(t) ==
    /\ At(t, "Stopping", "run")
    /\ \E i \in body[t].todo :
        \/ /\ Present(i)
           /\ IF cont[i].st = "up" THEN \E st \in {"ok", "bad"} : EndCont(i, st)
                                   ELSE UNCHANGED dockerVars
           /\ Set(t, [body[t] EXCEPT !.todo = @ \ {i}])
           /\ UNCHANGED <<tmVars, left>>
        \/ /\ ~Present(i)
           /\ Err(t)
           /\ UNCHANGED <<dockerVars, left>>
        \/ /\ SpendFail
           /\ Err(t)
           /\ UNCHANGED dockerVars
    /\ UNCHANGED <<dbVars, ttl, timers, analyserVars, req>>

MarkStopped(t) ==
    /\ At(t, "Stopping", "run")
    /\ body[t].todo = {}
    /\ \/ /\ ~Exists(Obj(t))
          /\ Err(t)
          /\ UNCHANGED row
       \/ /\ Exists(Obj(t))
          /\ row' = SetActual(Obj(t), "Stop")
          /\ TM!Emit(Ev(Obj(t), "Other"))
          /\ Set(t, [body[t] EXCEPT !.pc = "end"])
    /\ UNCHANGED <<proc, ttl, timers, dockerVars, analyserVars, req, left>>

(* job::delete: read the job and its processes, remove each container and  *)
(* its row, then clear the job, unless a removal failed.                   *)
ReadDelete(t) ==
    /\ Reads(t, "Destroying")
    /\ \/ /\ ~Exists(Obj(t))
          /\ Err(t)
       \/ /\ Exists(Obj(t))
          /\ Set(t, Frame("run", ProcsOf(Obj(t))))
          /\ UNCHANGED tmVars
    /\ UNCHANGED <<dbVars, ttl, timers, dockerVars, analyserVars, req, left>>

DeleteNext(t) ==
    /\ At(t, "Destroying", "run")
    /\ \E i \in body[t].todo :
        \/ /\ IF Present(i) THEN RemoveCont(i) ELSE UNCHANGED dockerVars
           /\ proc' = [proc EXCEPT ![i] = None]
           /\ Set(t, [body[t] EXCEPT !.todo = @ \ {i}])
           /\ UNCHANGED left
        \/ /\ SpendFail
           /\ Set(t, [body[t] EXCEPT !.todo = @ \ {i}, !.err = TRUE])
           /\ UNCHANGED <<dockerVars, proc>>
    /\ UNCHANGED <<tmVars, row, ttl, timers, analyserVars, req>>

ClearJob(t) ==
    /\ At(t, "Destroying", "run")
    /\ body[t].todo = {}
    /\ \/ /\ ~body[t].err
          /\ row' = [row EXCEPT ![Obj(t)] = None]
          /\ TM!Emit(Ev(Obj(t), "Other"))
          /\ Set(t, [body[t] EXCEPT !.pc = "end"])
       \/ /\ body[t].err
          /\ Err(t)
          /\ UNCHANGED row
    /\ UNCHANGED <<proc, ttl, timers, dockerVars, analyserVars, req, left>>

End(t) ==
    /\ body[t] # None
    /\ body[t].pc = "end"
    /\ Return(t)
    /\ UNCHANGED <<dbVars, ttl, timers, dockerVars, analyserVars, req, left>>

(* Mutant: a failed task leaves the status as it is.                       *)
OnErrorSilent(t) ==
    /\ TM!OnErrorDone(t)
    /\ UNCHANGED <<dbVars, body, ttl, timers, dockerVars, analyserVars, req, left>>

OnError(t) ==
    /\ TM!OnErrorDone(t)
    /\ row' = IF Exists(Obj(t)) THEN SetActual(Obj(t), "Fail") ELSE row
    /\ UNCHANGED <<proc, body, ttl, timers, dockerVars, analyserVars, req, left>>

TaskStep(t) ==
    \/ ReadStart(t) \/ CreateCont(t) \/ InsertProc(t) \/ MarkStarted(t)
    \/ StartNext(t) \/ WaitNext(t) \/ StartDone(t)
    \/ ReadStop(t) \/ StopNext(t) \/ MarkStopped(t)
    \/ ReadDelete(t) \/ DeleteNext(t) \/ ClearJob(t)
    \/ End(t) \/ OnError(t)

-----------------------------------------------------------------------------
(* Mutants: the aborted future goes on; Destroying is dropped while a task *)
(* of the job runs.                                                        *)
LoopRecvNoAbort ==
    /\ TM!RecvJob
    /\ UNCHANGED <<dbVars, body, ttl, timers, dockerVars, analyserVars, req, left>>

LoopRecvDropsBusy ==
    /\ \/ /\ TM!RecvJob
          /\ Head(queue).action = "Destroying" => tasks[Head(queue).obj] = NoTask
       \/ /\ TM!Receive
          /\ Head(queue).obj \in Jobs /\ Head(queue).action = "Destroying"
          /\ tasks[Head(queue).obj] # NoTask
          /\ UNCHANGED <<loop, tasks, task>>
    /\ UNCHANGED <<dbVars, body, ttl, timers, dockerVars, analyserVars, req, left>>

(* The loop.  Destroying aborts the future in the map, its locals with it. *)
LoopRecv ==
    /\ TM!RecvJob
    /\ body' = [t \in TaskIds |->
                  IF Head(queue).action = "Destroying" /\ t = tasks[Head(queue).obj]
                    THEN None ELSE body[t]]
    /\ UNCHANGED <<dbVars, ttl, timers, dockerVars, analyserVars, req, left>>

LoopDie ==
    /\ TM!RecvSource
    /\ UNCHANGED <<dbVars, body, ttl, timers, dockerVars, analyserVars, req, left>>

(* job_ttl: read the job, nothing to do when it is gone or done ...        *)
TtlRead ==
    /\ loop.pc = "busy"
    /\ ttl = None
    /\ LET j == loop.ev.obj[2]
           live == Exists(j) /\ row[j].actual \notin {"Finish", "Fail"}
       IN  \/ /\ live
              /\ ttl' = [st |-> "run", to |-> "count"]
              /\ UNCHANGED tmVars
           \/ /\ ~live
              /\ TM!HandlerDone
              /\ UNCHANGED ttl
    /\ UNCHANGED <<dbVars, body, timers, dockerVars, analyserVars, req, left>>

(* ... read its rows, nothing to do when an instance runs ...              *)
TtlCount ==
    /\ ttl # None
    /\ ttl.to = "count"
    /\ LET j == loop.ev.obj[2] IN
        \/ /\ RunningOf(j) = {}
           /\ ttl' = [ttl EXCEPT !.to = IF FailedOf(j) # {} THEN "Fail" ELSE "Finish"]
           /\ UNCHANGED tmVars
        \/ /\ RunningOf(j) # {}
           /\ TM!HandlerDone
           /\ ttl' = None
    /\ UNCHANGED <<dbVars, body, timers, dockerVars, analyserVars, req, left>>

(* ... write the outcome and its event ...                                 *)
TtlWrite ==
    /\ ttl # None
    /\ ttl.to \in {"Fail", "Finish"}
    /\ LET j == loop.ev.obj[2] IN
        \/ /\ Exists(j)
           /\ row' = SetActual(j, ttl.to)
           /\ TM!Emit(Ev(j, "Other"))
           /\ ttl' = [ttl EXCEPT !.to = "done"]
        \/ /\ ~Exists(j)
           /\ TM!HandlerDone
           /\ ttl' = None
           /\ UNCHANGED row
    /\ UNCHANGED <<proc, body, timers, dockerVars, analyserVars, req, left>>

(* ... and with a ttl spawn the sleep.                                     *)
TtlSpawn ==
    /\ ttl # None
    /\ ttl.to = "done"
    /\ TM!HandlerDone
    /\ ttl' = None
    /\ timers' = IF left.w.ttl THEN timers \cup {loop.ev.obj[2]} ELSE timers
    /\ UNCHANGED <<dbVars, body, dockerVars, analyserVars, req, left>>

TtlStep == TtlRead \/ TtlCount \/ TtlWrite \/ TtlSpawn

(* The sleep is over: del_obj_by_pk, its status write and its event; a job *)
(* that is gone is an error that is ignored.                               *)
TtlDelete(j) ==
    /\ j \in timers
    /\ timers' = timers \ {j}
    /\ \/ /\ Exists(j)
          /\ row' = SetStatus(j, "Destroy", "Destroying")
          /\ TM!Emit(Ev(j, "Destroying"))
       \/ /\ ~Exists(j)
          /\ UNCHANGED <<row, tmVars>>
    /\ UNCHANGED <<proc, body, ttl, dockerVars, analyserVars, req, left>>

-----------------------------------------------------------------------------
(* exec_docker for a job container: no status is written; a "die" event is *)
(* spawned before the row is updated.                                      *)
DockerRecv ==
    /\ dh = None
    /\ dq # <<>>
    /\ dq' = Tail(dq)
    /\ LET ev == Head(dq) IN
        \/ /\ ev.type = "destroy"
           /\ proc' = [proc EXCEPT ![ev.id] = None]
           /\ UNCHANGED <<dh, pend>>
        \/ /\ ev.type # "destroy"
           /\ dh' = IF Exists(ev.job) THEN [st |-> "run", ev |-> ev] ELSE None
           /\ pend' = IF ev.type = "die" /\ Exists(ev.job)
                        THEN [pend EXCEPT ![ev.job] = @ + 1] ELSE pend
           /\ UNCHANGED proc
    /\ UNCHANGED <<tmVars, row, body, ttl, timers, cont, req, left>>

DockerSync ==
    /\ dh # None
    /\ LET i == dh.ev.id IN
        proc' = IF Present(i) /\ proc[i] # None
                  THEN [proc EXCEPT ![i].st = cont[i].st] ELSE proc
    /\ dh' = None
    /\ UNCHANGED <<tmVars, row, body, ttl, timers, dockerVars, pend, req, left>>

DockerEmit(j) ==
    /\ pend[j] > 0
    /\ pend' = [pend EXCEPT ![j] = @ - 1]
    /\ TM!Emit(Ev(Process(j), "Long"))
    /\ UNCHANGED <<dbVars, body, ttl, timers, dockerVars, dh, req, left>>

(* A container ends by itself.                                             *)
Exit(i) ==
    /\ Present(i) /\ cont[i].st = "up"
    /\ \/ EndCont(i, "ok") /\ UNCHANGED left
       \/ EndCont(i, "bad") /\ SpendFail
    /\ UNCHANGED <<tmVars, dbVars, body, ttl, timers, analyserVars, req>>

-----------------------------------------------------------------------------
(* API requests: see CargoLifecycle.                                       *)
Begin(k, op) ==
    /\ op \in left.w.ops[k]
    /\ req[k] = None
    /\ left.reqs > 0
    /\ op = "start" => left.starts > 0
    /\ left' = [left EXCEPT !.reqs = @ - 1, !.starts = IF op = "start" THEN @ - 1 ELSE @]

Goes(k, op, j, pc) == req' = [req EXCEPT ![k] = [st |-> "run", op |-> op, j |-> j, pc |-> pc]]

CreateJob(k, j) ==
    /\ Begin(k, "create")
    /\ ~Exists(j)
    /\ row' = [row EXCEPT ![j] = [st |-> "row", wanted |-> "Create", actual |-> "Create"]]
    /\ TM!Emit(Ev(j, "Other"))
    /\ UNCHANGED <<proc, body, ttl, timers, dockerVars, analyserVars, req>>

StartJob(k, j) ==
    /\ Begin(k, "start")
    /\ Exists(j)
    /\ row' = SetStatus(j, "Finish", "Starting")
    /\ Goes(k, "start", j, "emit")
    /\ UNCHANGED <<tmVars, proc, body, ttl, timers, dockerVars, analyserVars>>

StopJob(k, j) ==
    /\ Begin(k, "stop")
    /\ Exists(j)
    /\ IF row[j].actual = "Stop" THEN UNCHANGED req ELSE Goes(k, "stop", j, "write")
    /\ UNCHANGED <<tmVars, dbVars, body, ttl, timers, dockerVars, analyserVars>>

DeleteJob(k, j) ==
    /\ Begin(k, "delete")
    /\ Exists(j)
    /\ Goes(k, "delete", j, "write")
    /\ UNCHANGED <<tmVars, dbVars, body, ttl, timers, dockerVars, analyserVars>>

WriteStatus(k) ==
    /\ req[k] # None
    /\ req[k].pc = "write"
    /\ LET j == req[k].j IN
        \/ /\ ~Exists(j)
           /\ req' = [req EXCEPT ![k] = None]
           /\ UNCHANGED row
        \/ /\ Exists(j)
           /\ row' = IF req[k].op = "stop" THEN SetStatus(j, "Stop", "Stopping")
                                           ELSE SetStatus(j, "Destroy", "Destroying")
           /\ Goes(k, req[k].op, j, "emit")
    /\ UNCHANGED <<tmVars, proc, body, ttl, timers, dockerVars, analyserVars, left>>

EventOf(op) ==
    CASE op = "start" -> "Starting" [] op = "stop" -> "Stopping" [] OTHER -> "Destroying"

EmitRequest(k) ==
    /\ req[k] # None
    /\ req[k].pc = "emit"
    /\ \/ /\ Exists(req[k].j) \/ req[k].op = "delete"
          /\ TM!Emit(Ev(req[k].j, EventOf(req[k].op)))
       \/ /\ ~Exists(req[k].j) /\ req[k].op # "delete"
          /\ UNCHANGED tmVars
    /\ req' = [req EXCEPT ![k] = None]
    /\ UNCHANGED <<dbVars, body, ttl, timers, dockerVars, analyserVars, left>>

NewRequest(k) ==
    \E j \in Jobs : CreateJob(k, j) \/ StartJob(k, j) \/ StopJob(k, j) \/ DeleteJob(k, j)

RequestStep(k) == WriteStatus(k) \/ EmitRequest(k)

-----------------------------------------------------------------------------
Next ==
    \/ \E k \in Clients : NewRequest(k) \/ RequestStep(k)
    \/ LoopRecv \/ LoopDie \/ TtlStep
    \/ \E j \in Jobs : TtlDelete(j) \/ DockerEmit(j)
    \/ DockerRecv \/ DockerSync
    \/ \E t \in TaskIds : TaskStep(t)
    \/ \E i \in Conts : Exit(i)

Spec == Init /\ [][Next]_vars

(* Requests once begun, the loop, its handler, the tasks, the ttl sleeps   *)
(* and the analyser go on, and every container ends.                       *)
FairSpec ==
    /\ Spec
    /\ \A k \in Clients : WF_vars(RequestStep(k))
    /\ WF_vars(LoopRecv \/ LoopDie) /\ WF_vars(TtlStep)
    /\ \A j \in Jobs : WF_vars(TtlDelete(j)) /\ WF_vars(DockerEmit(j))
    /\ WF_vars(DockerRecv \/ DockerSync)
    /\ \A t \in TaskIds : WF_vars(TaskStep(t))
    /\ \A i \in Conts : WF_vars(Exit(i))

-----------------------------------------------------------------------------
Quiet ==
    /\ queue = <<>> /\ loop = TM!Idle
    /\ \A t \in TaskIds : task[t] = TM!Done
    /\ dq = <<>> /\ dh = None /\ timers = {}
    /\ \A j \in Jobs : pend[j] = 0
    /\ \A k \in Clients : req[k] = None
    /\ \A i \in Conts : cont[i] # None => cont[i].st # "up"

UpOf(j) == {i \in Conts : cont[i] # None /\ cont[i].job = j /\ cont[i].st = "up"}

(* Every variable keeps its type; a task has local variables only while    *)
(* its body runs, also when Destroying aborts it, and job_ttl only while   *)
(* the loop is in it.                                                      *)
TypeOK ==
    /\ TM!TypeOK
    /\ \A t \in TaskIds : body[t] # None => task[t].phase = "body"
    /\ ttl # None => loop.pc = "busy"
    /\ timers \subseteq Jobs
    /\ \A j \in Jobs : pend[j] \in Nat

(* Once nothing is in flight no job is left "starting", "stopping" or      *)
(* "destroying", although tasks of one job overlap and are aborted.        *)
JobNotStuck ==
    Quiet => \A j \in Jobs : Exists(j) => row[j].actual \notin Transitional

(* job_ttl decides from rows the analyser updates late.  For a job that    *)
(* was started once "finish" is never early or wrong: every container      *)
(* ended, with code 0.                                                     *)
FinishIsTrue ==
    left.w.starts <= 1 =>
        \A j \in Jobs :
            Exists(j) /\ row[j].actual = "Finish" =>
                \A i \in Conts : cont[i] # None /\ cont[i].job = j => cont[i].st = "ok"

(* job::start: "We currently run a sequential order so we wait for the     *)
(* container to finish to start the next one": for a job that was started  *)
(* once, although an error of the start call is ignored.                   *)
Sequential == left.w.starts <= 1 => \A j \in Jobs : Cardinality(UpOf(j)) <= 1

(* job_ttl: "Remove a job after when finished and ttl is set": a job whose *)
(* start task is over and whose containers all ended is deleted.           *)
Ended(j) ==
    /\ Exists(j) /\ ProcsOf(j) # {}
    /\ \A i \in ProcsOf(j) : cont[i] # None /\ cont[i].st \in {"ok", "bad"}
    /\ \A t \in TaskIds : task[t] = TM!Done

TtlRemoves == \A j \in Jobs : Ended(j) ~> ~Exists(j)

(* A job that is to be destroyed is, whatever tasks of it run or are       *)
(* aborted, unless a docker call or a container fails: the task of a       *)
(* deletion is not retried.                                                *)
Failed == left.fails < left.w.fails
JobDestroyHappens ==
    \A j \in Jobs : (Exists(j) /\ row[j].wanted = "Destroy") ~> (~Exists(j) \/ Failed)
=============================================================================
