-------------------------- MODULE TaskManagerProofs --------------------------
(***************************************************************************)
(* Safety of the event loop and the task manager, for every set of objects *)
(* and handles and every length of the channel.                            *)
(*                                                                         *)
(* OneBodyPerSerial is not inductive: that no second body of a cargo can   *)
(* start follows from what the MAP holds when the loop reads it.  The      *)
(* invariant proved is MapTracksBodies: for a cargo or vm the map and the  *)
(* running bodies agree in both directions.                                *)
(***************************************************************************)
EXTENDS TaskManager, TLAPS

USE DEF Objects

(* What a received event is, and that the rest of the channel stays typed. *)
LEMMA ReceivedEvent ==
    ASSUME TypeOK, Receive
    PROVE  Head(queue) \in Events /\ queue' \in Seq(Events)
BY DEF TypeOK, Receive

(* The shape of the futures and of the loop state.                         *)
LEMMA TaskShape ==
    ASSUME TypeOK, NEW t \in TaskIds
    PROVE  /\ task[t] # Done => /\ task[t].phase \in {"body", "onerr"}
                                /\ task[t].ev \in Events
                                /\ task[t] = Running(task[t].ev, task[t].phase)
           /\ task[t].phase \in {"body", "onerr"} => task[t] # Done
BY DEF TypeOK, TaskStates, Done, Running
-----------------------------------------------------------------------------
(* remove_task leaves a typed map and typed futures.                       *)
LEMMA AbortedTyped ==
    ASSUME TypeOK, NEW o \in Objects
    PROVE  /\ Aborted(o) \in [TaskIds -> TaskStates]
           /\ Removed(o) \in [Objects -> TaskIds \cup {NoTask}]
BY DEF TypeOK, Aborted, Removed, TaskStates

(* So does the end of exec_event, with or without a task to push.          *)
LEMMA DispatchTyped ==
    ASSUME NEW ev \in Events,
           NEW m \in [Objects -> TaskIds \cup {NoTask}],
           NEW f \in [TaskIds -> TaskStates],
           Dispatch(ev, m, f)
    PROVE  /\ loop' \in LoopStates
           /\ tasks' \in [Objects -> TaskIds \cup {NoTask}]
           /\ task' \in [TaskIds -> TaskStates]
<1>1. loop' \in LoopStates
  BY DEF Dispatch, LoopStates
<1>2. CASE ~CreatesTask(ev)
  BY <1>1, <1>2 DEF Dispatch
<1>3. CASE CreatesTask(ev)
  <2>1. PICK t \in TaskIds :
            /\ task' = [f EXCEPT ![t] = Running(ev, "body")]
            /\ tasks' = [m EXCEPT ![ev.obj] = t]
    BY <1>3 DEF Dispatch, AddTask
  <2>2. Running(ev, "body") \in TaskStates
    BY DEF Running, TaskStates
  <2>3. QED
    BY <1>1, <2>1, <2>2
<1>4. QED
  BY <1>2, <1>3

(* Every step of the loop and of a task keeps the variables typed.         *)
LEMMA TypeOKStep ==
    ASSUME TypeOK, [Next]_vars
    PROVE  TypeOK'
<1>1. ASSUME NEW ev \in Events, Emit(ev)
      PROVE  TypeOK'
  BY <1>1 DEF Emit, TypeOK
<1>2. CASE RecvError
  BY <1>2, ReceivedEvent DEF RecvError, TypeOK
<1>3. CASE RecvWait
  <2>1. tasks[Head(queue).obj] \in TaskIds
    BY <1>3, ReceivedEvent DEF RecvWait, TypeOK
  <2>2. loop' \in LoopStates
    BY <1>3, <2>1, ReceivedEvent DEF RecvWait, LoopStates
  <2>3. QED
    BY <1>3, <2>2, ReceivedEvent DEF RecvWait, TypeOK
<1>4. CASE RecvSerial
  BY <1>4, ReceivedEvent, DispatchTyped DEF RecvSerial, TypeOK
<1>5. CASE RecvJob
  <2>1. Head(queue).obj \in Objects
    BY <1>5 DEF RecvJob
  <2>2. QED
    BY <1>5, <2>1, ReceivedEvent, AbortedTyped, DispatchTyped DEF RecvJob, TypeOK
<1>6. CASE RecvSource
  <2>1. loop' \in LoopStates
    BY <1>6, ReceivedEvent DEF RecvSource, LoopStates
  <2>2. QED
    BY <1>6, <2>1, ReceivedEvent DEF RecvSource, TypeOK
<1>7. CASE WaitDone
  <2>1. loop.ev \in Events /\ loop.ev.obj \in Objects
    BY <1>7 DEF WaitDone, TypeOK, LoopStates, Idle
  <2>2. QED
    BY <1>7, <2>1, AbortedTyped, DispatchTyped DEF WaitDone, TypeOK
<1>8. CASE HandlerDone
  BY <1>8 DEF HandlerDone, TypeOK, LoopStates
<1>9. ASSUME NEW t \in TaskIds, BodyOk(t)
      PROVE  TypeOK'
  BY <1>9 DEF BodyOk, TypeOK, Removed, TaskStates
<1>10. ASSUME NEW t \in TaskIds, BodyErr(t)
       PROVE  TypeOK'
  <2>1. Running(task[t].ev, "onerr") \in TaskStates
    BY <1>10, TaskShape DEF BodyErr, Running, TaskStates
  <2>2. QED
    BY <1>10, <2>1 DEF BodyErr, TypeOK, Removed
<1>11. ASSUME NEW t \in TaskIds, OnErrorDone(t)
       PROVE  TypeOK'
  BY <1>11 DEF OnErrorDone, TypeOK, TaskStates
<1>12. CASE UNCHANGED vars
  BY <1>12 DEF vars, TypeOK
<1>13. QED
  BY <1>1, <1>2, <1>3, <1>4, <1>5, <1>6, <1>7, <1>8, <1>9, <1>10, <1>11, <1>12
  DEF Next, LoopStep, TaskStep

(* The variables of the event loop and the task manager keep their types,  *)
(* in every state of every instance: the map only ever holds handles, and  *)
(* the loop only ever waits on the task of a cargo or vm.                  *)
THEOREM TypeCorrect == Spec => []TypeOK
<1>1. Init => TypeOK
  BY DEF Init, TypeOK, LoopStates, TaskStates
<1>2. TypeOK /\ [Next]_vars => TypeOK'
  BY TypeOKStep
<1>3. QED
  BY <1>1, <1>2, PTL DEF Spec

-----------------------------------------------------------------------------
(* The map and the bodies, as predicates of a map m and futures f, so that *)
(* they can be stated of the intermediate values exec_event passes on.     *)
BodyIn(f, t, o) == f[t].phase = "body" /\ f[t].ev.obj = o

Tracks(m, f) ==
    /\ \A o \in Objects : m[o] # NoTask => BodyIn(f, m[o], o)
    /\ \A o \in Serial, t \in TaskIds : BodyIn(f, t, o) => m[o] = t

(* MapTracksBodies is Tracks of the map and the futures, before a step ... *)
LEMMA TracksNow == MapTracksBodies <=> Tracks(tasks, task)
BY DEF MapTracksBodies, Tracks, Body, BodyIn

(* ... and after it.                                                       *)
LEMMA TracksNext == MapTracksBodies' <=> Tracks(tasks', task')
BY DEF MapTracksBodies, Tracks, Body, BodyIn

(* remove_task leaves map and bodies in agreement, and no body of a cargo  *)
(* or vm under the removed key.                                            *)
LEMMA AbortTracks ==
    ASSUME TypeOK, MapTracksBodies, NEW o \in Objects
    PROVE  /\ Tracks(Removed(o), Aborted(o))
           /\ o \in Serial => \A t \in TaskIds : ~BodyIn(Aborted(o), t, o)
<1> USE TaskIdsAssumption
<1>1. \A p \in Objects : Removed(o)[p] = IF p = o THEN NoTask ELSE tasks[p]
  BY DEF Removed, TypeOK
<1>2. \A t \in TaskIds : Aborted(o)[t] = IF t = tasks[o] THEN Done ELSE task[t]
  BY DEF Aborted
<1>3. \A t \in TaskIds : \A p : BodyIn(Aborted(o), t, p) <=> t # tasks[o] /\ Body(t, p)
  BY <1>2 DEF BodyIn, Body, Done
<1>4. ASSUME NEW p \in Objects, Removed(o)[p] # NoTask
      PROVE  BodyIn(Aborted(o), Removed(o)[p], p)
  <2>1. p # o /\ Removed(o)[p] = tasks[p] /\ tasks[p] \in TaskIds
    BY <1>1, <1>4 DEF TypeOK
  <2>2. Body(tasks[p], p)
    BY <1>4, <2>1 DEF MapTracksBodies
  <2>3. tasks[p] # tasks[o]
    BY <2>1, <2>2 DEF MapTracksBodies, Body
  <2>4. QED
    BY <1>3, <2>1, <2>2, <2>3
<1>5. ASSUME NEW p \in Serial, NEW t \in TaskIds, BodyIn(Aborted(o), t, p)
      PROVE  Removed(o)[p] = t
  BY <1>1, <1>3, <1>5 DEF MapTracksBodies
<1>6. ASSUME o \in Serial, NEW t \in TaskIds
      PROVE  ~BodyIn(Aborted(o), t, o)
  BY <1>3, <1>6 DEF MapTracksBodies
<1>7. QED
  BY <1>4, <1>5, <1>6 DEF Tracks

(* Pushing a task keeps the agreement, provided that a cargo or vm has no  *)
(* body left when its next task is pushed.                                 *)
LEMMA DispatchTracks ==
    ASSUME NEW ev \in Events,
           NEW m \in [Objects -> TaskIds \cup {NoTask}],
           NEW f \in [TaskIds -> TaskStates],
           Tracks(m, f),
           ev.obj \in Serial => \A t \in TaskIds : ~BodyIn(f, t, ev.obj),
           Dispatch(ev, m, f)
    PROVE  Tracks(tasks', task')
<1> USE TaskIdsAssumption
<1>1. CASE ~CreatesTask(ev)
  BY <1>1 DEF Dispatch
<1>2. CASE CreatesTask(ev)
  <2>1. PICK t \in TaskIds :
            /\ f[t] = Done
            /\ task' = [f EXCEPT ![t] = Running(ev, "body")]
            /\ tasks' = [m EXCEPT ![ev.obj] = t]
    BY <1>2 DEF Dispatch, AddTask
  <2>2. ev.obj \in Objects
    BY <1>2 DEF CreatesTask
  <2>3. \A s \in TaskIds : \A o : BodyIn(task', s, o)
            <=> IF s = t THEN o = ev.obj ELSE BodyIn(f, s, o)
    BY <2>1 DEF BodyIn, Running
  <2>4. \A o : ~BodyIn(f, t, o)
    BY <2>1 DEF BodyIn, Done
  <2>5. \A o \in Objects : tasks'[o] = IF o = ev.obj THEN t ELSE m[o]
    BY <2>1, <2>2
  <2>6. ASSUME NEW o \in Objects, tasks'[o] # NoTask
        PROVE  BodyIn(task', tasks'[o], o)
    BY <2>3, <2>4, <2>5, <2>6 DEF Tracks
  <2>7. ASSUME NEW o \in Serial, NEW s \in TaskIds, BodyIn(task', s, o)
        PROVE  tasks'[o] = s
    BY <2>3, <2>5, <2>7 DEF Tracks
  <2>8. QED
    BY <2>6, <2>7 DEF Tracks
<1>3. QED
  BY <1>1, <1>2

(* The end of a body, or of on_error, in terms of bodies.                  *)
LEMMA EndTracks ==
    ASSUME TypeOK, MapTracksBodies, NEW t \in TaskIds, BodyOk(t) \/ BodyErr(t)
    PROVE  MapTracksBodies'
<1> USE TaskIdsAssumption
<1> DEFINE o == task[t].ev.obj
<1>1. tasks' = Removed(o)
  BY DEF BodyOk, BodyErr
<1>2. \A s \in TaskIds : \A p : BodyIn(task', s, p) <=> s # t /\ BodyIn(task, s, p)
  BY DEF BodyOk, BodyErr, BodyIn, Done, Running, TypeOK
<1>3. \A p \in Objects : tasks'[p] = IF p = o THEN NoTask ELSE tasks[p]
  BY <1>1 DEF Removed, TypeOK
<1>4. ASSUME NEW p \in Objects, tasks'[p] # NoTask
      PROVE  BodyIn(task', tasks'[p], p)
  <2>1. p # o /\ tasks'[p] = tasks[p] /\ tasks[p] \in TaskIds
    BY <1>3, <1>4 DEF TypeOK
  <2>2. BodyIn(task, tasks[p], p)
    BY <1>4, <2>1, TracksNow DEF Tracks
  <2>3. tasks[p] # t
    BY <2>1, <2>2 DEF BodyIn
  <2>4. QED
    BY <1>2, <2>1, <2>2, <2>3
<1>5. ASSUME NEW p \in Serial, NEW s \in TaskIds, BodyIn(task', s, p)
      PROVE  tasks'[p] = s
  <2>1. s # t /\ BodyIn(task, s, p)
    BY <1>2, <1>5
  <2>2. tasks[p] = s
    BY <2>1, TracksNow DEF Tracks
  <2>3. p # o
    <3>1. SUFFICES ASSUME p = o PROVE FALSE
      OBVIOUS
    <3>2. BodyIn(task, t, p)
      BY <3>1 DEF BodyOk, BodyErr, BodyIn
    <3>3. QED
      BY <2>1, <2>2, <3>2, TracksNow DEF Tracks
  <2>4. QED
    BY <1>3, <2>2, <2>3
<1>6. QED
  BY <1>4, <1>5, TracksNext DEF Tracks

(* A loop that waits, waits on the task under the key or the key is free.  *)
WaitsOnEntry ==
    loop.pc = "wait" => tasks[loop.ev.obj] \in {NoTask, loop.on}

IInv == TypeOK /\ MapTracksBodies /\ WaitsOnEntry

(* The inductive step: one case per action.                                *)
LEMMA IInvStep ==
    ASSUME IInv, [Next]_vars
    PROVE  IInv'
<1> USE TaskIdsAssumption
<1> TypeOK /\ MapTracksBodies /\ WaitsOnEntry
  BY DEF IInv
<1> TypeOK'
  BY TypeOKStep
<1> SUFFICES MapTracksBodies' /\ WaitsOnEntry'
  BY DEF IInv
<1>1. ASSUME UNCHANGED <<tasks, task>>, UNCHANGED loop \/ loop'.pc # "wait"
      PROVE  MapTracksBodies' /\ WaitsOnEntry'
  BY <1>1 DEF MapTracksBodies, Body, WaitsOnEntry
<1>2. ASSUME NEW ev \in Events, Emit(ev)
      PROVE  MapTracksBodies' /\ WaitsOnEntry'
  BY <1>1, <1>2 DEF Emit
<1>3. CASE RecvError
  BY <1>1, <1>3 DEF RecvError
<1>4. CASE RecvWait
  <2>1. MapTracksBodies'
    BY <1>4 DEF RecvWait, MapTracksBodies, Body
  <2>2. WaitsOnEntry'
    BY <1>4 DEF RecvWait, WaitsOnEntry
  <2>3. QED
    BY <2>1, <2>2
<1>5. CASE RecvSerial
  <2> DEFINE ev == Head(queue)
  <2>1. ev \in Events /\ ev.obj \in Serial /\ Dispatch(ev, tasks, task)
    BY <1>5, ReceivedEvent DEF RecvSerial
  <2>2. \A t \in TaskIds : ~BodyIn(task, t, ev.obj)
    BY <1>5 DEF RecvSerial, MapTracksBodies, Body, BodyIn
  <2>3. Tracks(tasks', task')
    BY <2>1, <2>2, TracksNow, DispatchTracks DEF TypeOK
  <2>4. WaitsOnEntry'
    BY <2>1 DEF Dispatch, Idle, WaitsOnEntry
  <2>5. QED
    BY <2>3, <2>4, TracksNext
<1>6. CASE RecvJob
  <2> DEFINE ev == Head(queue)
  <2>1. ev \in Events /\ ev.obj \in Jobs /\ ev.obj \in Objects /\ ev.obj \notin Serial
    BY <1>6, ReceivedEvent, KindsAssumption DEF RecvJob
  <2>2. CASE ev.action = "Destroying"
    <3>1. Dispatch(ev, Removed(ev.obj), Aborted(ev.obj))
      BY <1>6, <2>2 DEF RecvJob
    <3>2. Tracks(tasks', task')
      BY <2>1, <3>1, AbortTracks, AbortedTyped, DispatchTracks
    <3>3. QED
      BY <3>1, <3>2, TracksNext DEF Dispatch, Idle, WaitsOnEntry
  <2>3. CASE ev.action # "Destroying"
    <3>1. Dispatch(ev, tasks, task)
      BY <1>6, <2>3 DEF RecvJob
    <3>2. Tracks(tasks', task')
      BY <2>1, <3>1, TracksNow, DispatchTracks DEF TypeOK
    <3>3. QED
      BY <3>1, <3>2, TracksNext DEF Dispatch, Idle, WaitsOnEntry
  <2>4. QED
    BY <2>2, <2>3
<1>7. CASE RecvSource
  <2>1. loop'.pc # "wait"
    BY <1>7 DEF RecvSource, Idle
  <2>2. QED
    BY <1>1, <1>7, <2>1 DEF RecvSource
<1>8. CASE WaitDone
  <2> DEFINE ev == loop.ev
  <2>1. ev \in Events /\ ev.obj \in Objects
    BY <1>8 DEF WaitDone, TypeOK, LoopStates, Idle
  <2>2. Dispatch(ev, Removed(ev.obj), Aborted(ev.obj))
    BY <1>8 DEF WaitDone
  <2>3. Tracks(tasks', task')
    BY <2>1, <2>2, AbortTracks, AbortedTyped, DispatchTracks
  <2>4. QED
    BY <2>2, <2>3, TracksNext DEF Dispatch, Idle, WaitsOnEntry
<1>9. CASE HandlerDone
  BY <1>1, <1>9 DEF HandlerDone, Idle
<1>10. ASSUME NEW t \in TaskIds, BodyOk(t) \/ BodyErr(t)
       PROVE  MapTracksBodies' /\ WaitsOnEntry'
  <2>1. MapTracksBodies'
    BY <1>10, EndTracks
  <2>2. WaitsOnEntry'
    <3>1. loop' = loop /\ tasks' = Removed(task[t].ev.obj)
      BY <1>10 DEF BodyOk, BodyErr
    <3>2. \A p \in Objects : tasks'[p] \in {NoTask, tasks[p]}
      BY <3>1 DEF Removed, TypeOK
    <3>3. loop.pc = "wait" => loop.ev.obj \in Objects
      BY DEF TypeOK, LoopStates, Idle
    <3>4. QED
      BY <3>1, <3>2, <3>3 DEF WaitsOnEntry
  <2>3. QED
    BY <2>1, <2>2
<1>11. ASSUME NEW t \in TaskIds, OnErrorDone(t)
       PROVE  MapTracksBodies' /\ WaitsOnEntry'
  <2>1. \A s \in TaskIds : \A o : BodyIn(task', s, o) <=> BodyIn(task, s, o)
    BY <1>11 DEF OnErrorDone, BodyIn, Done, TypeOK
  <2>2. Tracks(tasks', task')
    BY <1>11, <2>1, TracksNow DEF OnErrorDone, Tracks, TypeOK
  <2>3. QED
    BY <1>11, <2>2, TracksNext DEF OnErrorDone, WaitsOnEntry
<1>12. CASE UNCHANGED vars
  BY <1>1, <1>12 DEF vars
<1>13. QED
  BY <1>2, <1>3, <1>4, <1>5, <1>6, <1>7, <1>8, <1>9, <1>10, <1>11, <1>12
  DEF Next, LoopStep, TaskStep

(* The inductive invariant holds in every state.                           *)
LEMMA InvariantHolds == Spec => []IInv
<1>1. Init => IInv
  BY DEF Init, IInv, TypeOK, LoopStates, TaskStates, MapTracksBodies, Body,
         WaitsOnEntry, Idle, Done
<1>2. IInv /\ [Next]_vars => IInv'
  BY IInvStep
<1>3. QED
  BY <1>1, <1>2, PTL DEF Spec

(* The task map and the running bodies agree: exec_event never waits for,  *)
(* or aborts, a task that is over or belongs to another object, and no     *)
(* body of a cargo or vm runs unseen.                                      *)
THEOREM MapSound == Spec => []MapTracksBodies
<1>1. IInv => MapTracksBodies
  BY DEF IInv
<1>2. QED
  BY <1>1, InvariantHolds, PTL

(* Mutual exclusion of the task bodies of a cargo or vm, the reason the    *)
(* event loop waits at all.                                                *)
THEOREM BodiesExclusive == Spec => []OneBodyPerSerial
<1>1. IInv => OneBodyPerSerial
  BY DEF IInv, MapTracksBodies, OneBodyPerSerial
<1>2. QED
  BY <1>1, InvariantHolds, PTL

(* The remove_task that ends wait_task finds nothing to abort.             *)
THEOREM WaitIsHarmless == Spec => []WaitNeverAborts
<1>1. IInv => WaitNeverAborts
  <2> SUFFICES ASSUME IInv, loop.pc = "wait", task[loop.on] = Done
               PROVE  tasks[loop.ev.obj] = NoTask
    BY DEF IInv, WaitsOnEntry, WaitNeverAborts
  <2>1. loop.ev.obj \in Objects
    BY DEF IInv, TypeOK, LoopStates, Idle
  <2>2. tasks[loop.ev.obj] = loop.on => tasks[loop.ev.obj] = NoTask
    BY <2>1 DEF IInv, MapTracksBodies, Body, Done
  <2>3. QED
    BY <2>2 DEF IInv, WaitsOnEntry
<1>2. QED
  BY <1>1, InvariantHolds, PTL
=============================================================================
