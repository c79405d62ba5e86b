----------------------------- MODULE TaskManager -----------------------------
(***************************************************************************)
(* The event loop of nanocld (SystemState::run with exec_event) and the    *)
(* task manager it pushes background work into.                            *)
(*                                                                         *)
(* The loop, the tasks it spawns and the task manager all run on ONE       *)
(* arbiter thread, so code interleaves only at await points.  The mutex of *)
(* the task map is never held across an await and never contended, hence   *)
(* get_task, remove_task and the spawn-and-insert of add_task belong to    *)
(* the step of the poll that runs them.                                    *)
(*                                                                         *)
(* What a task does is left open: its body ends well or with an error at   *)
(* any time.  CargoLifecycle and JobLifecycle give the bodies.             *)
(***************************************************************************)
EXTENDS Naturals, Sequences

CONSTANTS
    Serial,     (* objects of kind Cargo and Vm: the loop waits for their task *)
    Jobs,       (* objects of kind Job: the loop never waits for them          *)
    Sources,    (* actors of kind Process or Secret: they never get a task     *)
    TaskIds,    (* JoinHandles; a finished one may be used again               *)
    NoTask,     (* no entry in the task map                                    *)
    MaxQueue    (* bound: events the channel holds at once                     *)

Objects == Serial \cup Jobs

ASSUME KindsAssumption ==
    /\ Serial \cap Jobs = {}
    /\ Objects \cap Sources = {}

ASSUME TaskIdsAssumption == NoTask \notin TaskIds

ASSUME MaxQueueAssumption == MaxQueue \in Nat \ {0}

(* The actions that make exec_event push a task, and the rest: "Other" is   *)
(* any Normal event without a task (Create, Start, Stop, Destroy, ...),     *)
(* "Error" an event of kind Error or Warning, "Long" an event whose handler *)
(* awaits the database inside the loop (Die: job_ttl, Update of a secret).  *)
TaskActions == {"Starting", "Stopping", "Updating", "Destroying"}

Events ==
    [obj : Objects, action : TaskActions \cup {"Other", "Error"}]
        \cup [obj : Sources, action : {"Other", "Long"}]

VARIABLES
    queue,    (* the unbounded mpsc channel between emit_event and the loop  *)
    loop,     (* where the loop is: recv, wait (in wait_task) or busy        *)
    tasks,    (* TaskManager.tasks, the map from task key to running task    *)
    task      (* the futures behind the handles: the event each was created  *)
              (* for, and whether its body or its on_error callback runs     *)

vars == <<queue, loop, tasks, task>>

Idle == [pc |-> "recv"]

LoopStates ==
    {Idle}
        \cup [pc : {"wait"}, ev : {e \in Events : e.obj \in Serial}, on : TaskIds]
        \cup [pc : {"busy"}, ev : {e \in Events : e.obj \in Sources}]

Done == [phase |-> "done"]

Running(ev, ph) == [phase |-> ph, ev |-> ev]

TaskStates == {Done} \cup [phase : {"body", "onerr"}, ev : Events]

(* Every variable keeps its type: in particular the map only holds handles *)
(* of tasks, under keys of living objects.                                 *)
TypeOK ==
    /\ queue \in Seq(Events)
    /\ loop \in LoopStates
    /\ tasks \in [Objects -> TaskIds \cup {NoTask}]
    /\ task \in [TaskIds -> TaskStates]

Init ==
    /\ queue = <<>>
    /\ loop = Idle
    /\ tasks = [o \in Objects |-> NoTask]
    /\ task = [t \in TaskIds |-> Done]

-----------------------------------------------------------------------------
(* Whether exec_event creates a task: starting, stopping and destroying do  *)
(* for every living object, updating only for a Cargo or a Vm.              *)
CreatesTask(ev) ==
    /\ ev.obj \in Objects
    /\ ev.action \in TaskActions
    /\ ev.action = "Updating" => ev.obj \in Serial

(* add_task: spawn the future and insert its handle under the task key,    *)
(* whatever was there.  m and f are the map and the futures exec_event has *)
(* left so far.                                                            *)
AddTask(ev, m, f) ==
    \E t \in TaskIds :
        /\ f[t] = Done
        /\ task' = [f EXCEPT ![t] = Running(ev, "body")]
        /\ tasks' = [m EXCEPT ![ev.obj] = t]

(* remove_task: abort the task found under the key and drop the entry.     *)
Aborted(o) == [t \in TaskIds |-> IF t = tasks[o] THEN Done ELSE task[t]]

Removed(o) == [tasks EXCEPT ![o] = NoTask]

(* The part of exec_event after the wait: push the task, if there is one,  *)
(* and go back to the channel.                                             *)
Dispatch(ev, m, f) ==
    /\ loop' = Idle
    /\ \/ /\ CreatesTask(ev)
          /\ AddTask(ev, m, f)
       \/ /\ ~CreatesTask(ev)
          /\ tasks' = m
          /\ task' = f

-----------------------------------------------------------------------------
(* emit_event: the event is stored and sent on the channel.                *)
Emit(ev) ==
    /\ Len(queue) < MaxQueue
    /\ queue' = Append(queue, ev)
    /\ UNCHANGED <<loop, tasks, task>>

Receive ==
    /\ loop = Idle
    /\ queue # <<>>
    /\ queue' = Tail(queue)

(* Events of kind Error or Warning are dropped first thing.                *)
RecvError ==
    /\ Receive
    /\ Head(queue).action = "Error"
    /\ UNCHANGED <<loop, tasks, task>>

(* Mutant: the loop waits whether or not a task is in the map.             *)
RecvWaitAlways ==
    /\ Receive
    /\ LET ev == Head(queue) IN
        /\ ev.obj \in Serial
        /\ ev.action # "Error"
        /\ loop' = [pc |-> "wait", ev |-> ev, on |-> tasks[ev.obj]]
    /\ UNCHANGED <<tasks, task>>

(* A Cargo or Vm event while a task of that object is in the map: the loop *)
(* holds a clone of its handle and polls it.                               *)
RecvWait ==
    /\ Receive
    /\ LET ev == Head(queue) IN
        /\ ev.obj \in Serial
        /\ ev.action # "Error"
        /\ tasks[ev.obj] # NoTask
        /\ loop' = [pc |-> "wait", ev |-> ev, on |-> tasks[ev.obj]]
    /\ UNCHANGED <<tasks, task>>

(* Mutant: the event is handled without waiting for the running task.      *)
RecvSerialNoWait ==
    /\ Receive
    /\ LET ev == Head(queue) IN
        /\ ev.obj \in Serial
        /\ ev.action # "Error"
        /\ Dispatch(ev, tasks, task)

(* A Cargo or Vm event with no task in the map.                            *)
RecvSerial ==
    /\ Receive
    /\ LET ev == Head(queue) IN
        /\ ev.obj \in Serial
        /\ ev.action # "Error"
        /\ tasks[ev.obj] = NoTask
        /\ Dispatch(ev, tasks, task)

(* A Job event: never waits; Destroying aborts the task in the map.        *)
RecvJob ==
    /\ Receive
    /\ LET ev == Head(queue) IN
        /\ ev.obj \in Jobs
        /\ ev.action # "Error"
        /\ IF ev.action = "Destroying"
             THEN Dispatch(ev, Removed(ev.obj), Aborted(ev.obj))
             ELSE Dispatch(ev, tasks, task)

(* An event of a Process or a Secret: its handler, if any, runs inside the *)
(* loop.                                                                   *)
RecvSource ==
    /\ Receive
    /\ LET ev == Head(queue) IN
        /\ ev.obj \in Sources
        /\ loop' = IF ev.action = "Long" THEN [pc |-> "busy", ev |-> ev] ELSE Idle
    /\ UNCHANGED <<tasks, task>>

(* Mutant: the event the loop waited with is forgotten.                    *)
WaitDoneForgets ==
    /\ loop.pc = "wait"
    /\ task[loop.on] = Done
    /\ loop' = Idle
    /\ tasks' = Removed(loop.ev.obj)
    /\ UNCHANGED <<queue, task>>

(* wait_task returns: the handle is finished, remove_task clears the key,  *)
(* and exec_event goes on.                                                 *)
WaitDone ==
    /\ loop.pc = "wait"
    /\ task[loop.on] = Done
    /\ Dispatch(loop.ev, Removed(loop.ev.obj), Aborted(loop.ev.obj))
    /\ UNCHANGED queue

HandlerDone ==
    /\ loop.pc = "busy"
    /\ loop' = Idle
    /\ UNCHANGED <<queue, tasks, task>>

(* Mutant: a task that ended well keeps its entry.                         *)
BodyOkKeepsEntry(t) ==
    /\ task[t].phase = "body"
    /\ task' = [task EXCEPT ![t] = Done]
    /\ UNCHANGED <<queue, loop, tasks>>

(* The body of t returned Ok: the wrapper removes the KEY from the map,    *)
(* then the future is finished.                                            *)
BodyOk(t) ==
    /\ task[t].phase = "body"
    /\ tasks' = Removed(task[t].ev.obj)
    /\ task' = [task EXCEPT ![t] = Done]
    /\ UNCHANGED <<queue, loop>>

(* Mutant: a task that failed keeps its entry.                             *)
BodyErrKeepsEntry(t) ==
    /\ task[t].phase = "body"
    /\ task' = [task EXCEPT ![t] = Running(task[t].ev, "onerr")]
    /\ UNCHANGED <<queue, loop, tasks>>

(* The body of t returned Err: the key leaves the map before on_error is   *)
(* awaited.                                                                *)
BodyErr(t) ==
    /\ task[t].phase = "body"
    /\ tasks' = Removed(task[t].ev.obj)
    /\ task' = [task EXCEPT ![t] = Running(task[t].ev, "onerr")]
    /\ UNCHANGED <<queue, loop>>

(* on_error ended: the future is finished.                                 *)
OnErrorDone(t) ==
    /\ task[t].phase = "onerr"
    /\ task' = [task EXCEPT ![t] = Done]
    /\ UNCHANGED <<queue, loop, tasks>>

LoopStep ==
    \/ RecvError \/ RecvWait \/ RecvSerial \/ RecvJob \/ RecvSource
    \/ WaitDone \/ HandlerDone

TaskStep(t) == BodyOk(t) \/ BodyErr(t) \/ OnErrorDone(t)

Next ==
    \/ \E ev \in Events : Emit(ev)
    \/ LoopStep
    \/ \E t \in TaskIds : TaskStep(t)

Spec == Init /\ [][Next]_vars

(* The runtime polls the loop and every spawned task, and every body ends. *)
FairSpec ==
    /\ Spec
    /\ WF_vars(LoopStep)
    /\ \A t \in TaskIds : WF_vars(TaskStep(t))

-----------------------------------------------------------------------------
Body(t, o) == task[t].phase = "body" /\ task[t].ev.obj = o

(* Two task bodies of one cargo or vm never run at the same time: this is  *)
(* what wait_task in exec_event buys, although a task leaves the map by    *)
(* key and on its own.                                                     *)
OneBodyPerSerial ==
    \A o \in Serial, s, t \in TaskIds : Body(s, o) /\ Body(t, o) => s = t

(* An entry of the task map is the handle of a running body of that object *)
(* (exec_event neither waits for nor aborts a task of another object or    *)
(* one that is over); for a cargo or vm every running body has its entry.  *)
MapTracksBodies ==
    /\ \A o \in Objects : tasks[o] # NoTask => Body(tasks[o], o)
    /\ \A o \in Serial, t \in TaskIds : Body(t, o) => tasks[o] = t

(* wait_task ends with remove_task, which aborts what it finds under the   *)
(* key: while the loop waits, nothing but the task it waits for can be     *)
(* there, and once that one is over there is nothing, so that no task of a *)
(* cargo or vm is ever cut short between two docker calls.                 *)
WaitNeverAborts ==
    loop.pc = "wait" =>
        /\ tasks[loop.ev.obj] \in {NoTask, loop.on}
        /\ task[loop.on] = Done => tasks[loop.ev.obj] = NoTask

(* No event is lost in the loop or starved behind other objects' tasks: a  *)
(* Destroying event sent on the channel gets its delete task.              *)
DestroyingIsRun ==
    \A o \in Objects :
        LET ev == [obj |-> o, action |-> "Destroying"]
        IN  (\E i \in DOMAIN queue : queue[i] = ev)
                ~> (\E t \in TaskIds : task[t] = Running(ev, "body"))
=============================================================================
