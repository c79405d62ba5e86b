------------------------- MODULE JobLifecycleProofs -------------------------
(***************************************************************************)
(* Safety of the life of jobs, for every set of jobs, task handles and     *)
(* connections, and every world: any number of containers, requests and    *)
(* failures.                                                               *)
(*                                                                         *)
(* The tasks of one job overlap, and Destroying aborts the one in the map. *)
(* That no job stays in a transitional status needs who will write the     *)
(* next one (Closing): a request not yet emitted, an event in the channel, *)
(* or a task that still has its status write before it; the loop aborts    *)
(* such a task only to put another in its place.                           *)
(*                                                                         *)
(* What a single start guarantees needs to know where that start is        *)
(* (OneStart): not asked for yet, in a request, in the channel or in the   *)
(* one start task, and what may have happened before its first container   *)
(* runs: nothing that docker would tell of (Untouched).                    *)
(***************************************************************************)
EXTENDS JobLifecycle, FiniteSetTheorems, SequenceTheorems, TLAPS

TMP == INSTANCE TaskManagerProofs WITH Serial <- {}, Sources <- {Process(j) : j \in Jobs}

Instances == [st : {"created", "up", "ok", "bad"}, job : Jobs]

DockerEvents == [type : {"start", "die", "destroy"}, id : Conts, job : Jobs]

Rows ==
    [st : {"row"}, wanted : {"Create", "Finish", "Stop", "Destroy"},
     actual : {"Create", "Start", "Stop", "Finish", "Fail"} \cup Transitional]

Frames ==
    [st : {"run"}, pc : {"create", "insert", "status", "run", "wait", "end"},
     todo : SUBSET Conts, cur : Nat, new : Nat, err : BOOLEAN]

Requests == [st : {"run"}, op : {"start", "stop", "delete"}, j : Jobs, pc : {"write", "emit"}]

Bounds == left \in [w : Worlds, made : 0..MaxConts, reqs : Nat, starts : Nat, fails : Nat]

(* The tables, docker, its events and the event exec_docker works on.      *)
Tables ==
    /\ row \in [Jobs -> {None} \cup Rows]
    /\ proc \in [Conts -> {None} \cup Instances]
    /\ cont \in [Conts -> {None} \cup Instances]
    /\ dq \in Seq(DockerEvents)
    /\ dh \in {None} \cup [st : {"run"}, ev : DockerEvents]

(* job_ttl, which runs in the loop only, its sleeps, the spawned events    *)
(* and the requests.                                                       *)
Callers ==
    /\ ttl \in {None} \cup [st : {"run"}, to : {"count", "Fail", "Finish", "done"}]
    /\ ttl # None => loop.pc = "busy"
    /\ timers \subseteq Jobs
    /\ pend \in [Jobs -> Nat]
    /\ req \in [Clients -> {None} \cup Requests]

(* The local variables of a task: a container that waits for its row is    *)
(* one of those made so far.                                               *)
GoodFrame(b, made) == b \in Frames /\ (b.pc = "insert" => b.cur \in Conts /\ b.cur <= made)

(* A task has local variables only while its body runs.                    *)
Locals ==
    /\ body \in [TaskIds -> {None} \cup Frames]
    /\ \A t \in TaskIds : body[t] # None =>
          GoodFrame(body[t], left.made) /\ task[t].phase = "body"

(* Containers not made yet have neither container nor row, and one whose   *)
(* destroy event is on its way never comes back.                           *)
Gone ==
    /\ \A i \in Conts : i > left.made => cont[i] = None /\ proc[i] = None
    /\ \A n \in DOMAIN dq : dq[n].type = "destroy" =>
          dq[n].id <= left.made /\ cont[dq[n].id] = None

(* Who will write the status of j next.                                    *)
Asks(k, j) == req[k] # None /\ req[k].j = j /\ req[k].pc = "emit"

Asking(j) == \E k \in Clients : Asks(k, j)

Calls(ev, j) == ev.obj = j /\ ev.action \in {"Starting", "Stopping", "Destroying"}

Queued(j) == \E n \in DOMAIN queue : Calls(queue[n], j)

(* The local variables b of a task for action a that has not written its   *)
(* status yet: a start task goes on after its write.                       *)
Unwritten(b, a) == b # None => b.pc # "end" /\ (a = "Starting" => b.pc \notin {"run", "wait"})

Works(t, j) ==
    /\ task[t] # TM!Done
    /\ task[t].ev.obj = j
    /\ Unwritten(body[t], task[t].ev.action)

Working(j) == \E t \in TaskIds : Works(t, j)

Closing ==
    \A j \in Jobs :
        Exists(j) /\ row[j].actual \in Transitional => Asking(j) \/ Queued(j) \/ Working(j)

JobInv ==
    /\ Bounds /\ Tables /\ Callers /\ Locals
    /\ TMP!IInv
    /\ Gone /\ Closing

-----------------------------------------------------------------------------
(* TaskManager as JobLifecycle and as TaskManagerProofs see it.            *)
LEMMA TmAssumed ==
    TMP!KindsAssumption /\ TMP!TaskIdsAssumption /\ TMP!MaxQueueAssumption
BY TmAssumption DEF TMP!KindsAssumption, TMP!TaskIdsAssumption, TMP!MaxQueueAssumption,
   TMP!Objects

LEMMA TmNext ==
    ASSUME [TM!Next]_(TM!vars)
    PROVE  [TMP!Next]_(TMP!vars)
BY DEF TM!Next, TMP!Next, TM!vars, TMP!vars, TM!Events, TMP!Events, TM!TaskActions,
   TMP!TaskActions, TM!Objects, TMP!Objects, TM!Emit, TMP!Emit, TM!LoopStep, TMP!LoopStep,
   TM!RecvError, TMP!RecvError, TM!RecvWait, TMP!RecvWait, TM!RecvSerial, TMP!RecvSerial,
   TM!RecvJob, TMP!RecvJob, TM!RecvSource, TMP!RecvSource, TM!WaitDone, TMP!WaitDone,
   TM!HandlerDone, TMP!HandlerDone, TM!TaskStep, TMP!TaskStep, TM!BodyOk, TMP!BodyOk,
   TM!BodyErr, TMP!BodyErr, TM!OnErrorDone, TMP!OnErrorDone, TM!Receive, TMP!Receive,
   TM!Dispatch, TMP!Dispatch, TM!AddTask, TMP!AddTask, TM!Aborted, TMP!Aborted,
   TM!Removed, TMP!Removed, TM!CreatesTask, TMP!CreatesTask, TM!Idle, TMP!Idle,
   TM!Done, TMP!Done, TM!Running, TMP!Running

LEMMA TmTyped ==
    ASSUME TMP!IInv
    PROVE  TM!TypeOK
BY DEF TMP!IInv, TMP!TypeOK, TM!TypeOK, TMP!Events, TM!Events, TMP!LoopStates,
   TM!LoopStates, TMP!TaskStates, TM!TaskStates, TM!Idle, TMP!Idle, TM!Done, TMP!Done,
   TM!Objects, TMP!Objects, TM!TaskActions, TMP!TaskActions

LEMMA TmInit ==
    ASSUME TM!Init
    PROVE  TMP!IInv
BY TmAssumption DEF TM!Init, TM!Idle, TM!Done, TM!Objects, TMP!IInv, TMP!TypeOK, TMP!LoopStates,
   TMP!TaskStates, TMP!MapTracksBodies, TMP!Body, TMP!WaitsOnEntry, TMP!Idle, TMP!Done,
   TMP!Objects

(* The invariant of TaskManager, kept by every step of TaskManager.        *)
LEMMA TmKept ==
    ASSUME TMP!IInv, [TM!Next]_(TM!vars)
    PROVE  TMP!IInv'
BY TmNext, TmAssumed, TMP!IInvStep
DEF TMP!IInvStep, TMP!KindsAssumption, TMP!TaskIdsAssumption, TMP!MaxQueueAssumption

(* An event with an action that creates tasks is of a job.                 *)
LEMMA OfJob ==
    ASSUME NEW ev \in TM!Events, ev.action \notin {"Long"}, ev.action # "Other"
    PROVE  ev.obj \in Jobs
BY DEF TM!Events, TM!Objects

LEMMA RunsJob ==
    ASSUME TM!TypeOK, NEW t \in TaskIds, task[t].phase = "body"
    PROVE  /\ task[t] = TM!Running(task[t].ev, "body")
           /\ task[t].ev \in TM!Events
BY DEF TM!TypeOK, TM!TaskStates, TM!Done, TM!Running

(* The events the daemon emits about jobs and their containers.            *)
LEMMA Emitted ==
    ASSUME NEW j \in Jobs, NEW a \in TM!TaskActions \cup {"Other"}
    PROVE  Ev(j, a) \in TM!Events
BY DEF Ev, TM!Events, TM!Objects

LEMMA EmittedDie ==
    ASSUME NEW j \in Jobs
    PROVE  Ev(Process(j), "Long") \in TM!Events
BY DEF Ev, TM!Events

(* While job_ttl runs, its event is of the containers of a job.            *)
LEMMA TtlJob ==
    ASSUME TM!TypeOK, loop.pc = "busy"
    PROVE  loop.ev.obj[2] \in Jobs
<1>1. loop.ev.obj \in {Process(j) : j \in Jobs}
  BY DEF TM!TypeOK, TM!LoopStates, TM!Idle
<1>2. QED
  BY <1>1 DEF Process

-----------------------------------------------------------------------------
(* Docker and the budgets.                                                 *)
LeftMove == Bounds' /\ left'.w = left.w /\ left'.made >= left.made

Docked ==
    /\ proc' \in [Conts -> {None} \cup Instances]
    /\ cont' \in [Conts -> {None} \cup Instances]
    /\ dq' \in Seq(DockerEvents)
    /\ Gone'

Kept == JobInv' /\ [TM!Next]_(TM!vars) /\ left'.w = left.w

(* Facts of Gone about what is made and the events still unread.           *)
LEMMA GoneNow ==
    ASSUME JobInv
    PROVE  /\ left.made \in Nat
           /\ dq \in Seq(DockerEvents)
           /\ \A i \in Conts : i > left.made => cont[i] = None /\ proc[i] = None
           /\ \A n \in DOMAIN dq : dq[n].type = "destroy" =>
                 dq[n].id <= left.made /\ cont[dq[n].id] = None
BY DEF JobInv, Bounds, Gone, Tables

LEMMA SameLeft ==
    ASSUME JobInv, UNCHANGED left
    PROVE  LeftMove /\ left'.made = left.made
BY GoneNow DEF JobInv, LeftMove, Bounds

LEMMA SpentFail ==
    ASSUME JobInv, SpendFail
    PROVE  LeftMove /\ left'.made = left.made
BY GoneNow DEF JobInv, LeftMove, Bounds, SpendFail

LEMMA SameDock ==
    ASSUME JobInv, UNCHANGED <<proc, dockerVars>>, left'.made = left.made
    PROVE  Docked
BY DEF JobInv, Docked, Gone, Tables, dockerVars

(* A step of docker on container i: it changes or goes, and its events are *)
(* appended; destroy only when it goes.                                    *)
Told(i, c, evs) ==
    /\ cont' = [cont EXCEPT ![i] = c]
    /\ dq' = dq \o evs
    /\ c \in {None} \cup Instances
    /\ evs \in Seq(DockerEvents)
    /\ \A n \in DOMAIN evs : evs[n].id = i /\ (evs[n].type = "destroy" => c = None)

(* Where an element of two joined sequences comes from.                    *)
LEMMA Joined ==
    ASSUME NEW S, NEW s \in Seq(S), NEW e \in Seq(S)
    PROVE  /\ s \o e \in Seq(S)
           /\ \A n \in DOMAIN (s \o e) :
                 \/ n \in DOMAIN s /\ (s \o e)[n] = s[n]
                 \/ n - Len(s) \in DOMAIN e /\ (s \o e)[n] = e[n - Len(s)]
OBVIOUS

LEMMA ToldDocked ==
    ASSUME JobInv, NEW i \in Conts, NEW c, NEW evs, Told(i, c, evs), Present(i),
           proc' \in [Conts -> {None} \cup Instances],
           \A h \in Conts : proc[h] = None => proc'[h] = None, left'.made = left.made
    PROVE  Docked
<1>1. /\ left.made \in Nat
      /\ dq \in Seq(DockerEvents) /\ i <= left.made /\ i \in Nat
      /\ cont' \in [Conts -> {None} \cup Instances]
      /\ cont'[i] = c /\ \A h \in Conts : h # i => cont'[h] = cont[h]
  BY GoneNow, ConstAssumption DEF Told, Present, JobInv, Tables, Conts
<1>2. dq' \in Seq(DockerEvents)
  BY <1>1, Joined DEF Told
<1>3. ASSUME NEW n \in DOMAIN dq', dq'[n].type = "destroy"
      PROVE  dq'[n].id <= left.made /\ cont'[dq'[n].id] = None
  <2>1. CASE n \in DOMAIN dq /\ dq'[n] = dq[n]
    <3>1. dq[n] \in DockerEvents
      BY <1>1, <2>1
    <3>2. dq[n].id <= left.made /\ cont[dq[n].id] = None /\ dq[n].id # i /\ dq[n].id \in Conts
      BY <1>3, <2>1, <3>1, GoneNow DEF Present, DockerEvents
    <3>3. QED
      BY <1>1, <2>1, <3>2
  <2>2. ASSUME NEW m \in DOMAIN evs, dq'[n] = evs[m]
        PROVE  dq'[n].id <= left.made /\ cont'[dq'[n].id] = None
    BY <1>1, <1>3, <2>2 DEF Told
  <2>3. QED
    BY <1>1, <2>1, <2>2, Joined DEF Told
<1>4. \A h \in Conts : h > left.made => cont'[h] = None /\ proc'[h] = None
  BY <1>1, GoneNow
<1>5. QED
  BY <1>1, <1>2, <1>3, <1>4 DEF Docked, Gone

LEMMA EventTyped ==
    ASSUME JobInv, NEW i \in Conts, Present(i), NEW type \in {"start", "die", "destroy"}
    PROVE  /\ DockerEvent(type, i) \in DockerEvents
           /\ DockerEvent(type, i).id = i /\ DockerEvent(type, i).type = type
BY DEF DockerEvent, DockerEvents, JobInv, Tables, Present, Instances

(* Changing the state of a container keeps it a container.                 *)
LEMMA StateTyped ==
    ASSUME JobInv, NEW i \in Conts, Present(i), NEW st \in {"created", "up", "ok", "bad"}
    PROVE  \E c \in Instances : /\ c.st = st /\ c.job = cont[i].job
                                /\ [cont EXCEPT ![i].st = st] = [cont EXCEPT ![i] = c]
<1>1. cont[i] \in Instances
  BY DEF JobInv, Tables, Present
<1>2. [cont[i] EXCEPT !.st = st] \in Instances /\ [cont[i] EXCEPT !.st = st].st = st
      /\ [cont[i] EXCEPT !.st = st].job = cont[i].job
  BY <1>1 DEF Instances
<1>3. QED
  BY <1>2

LEMMA StartTold ==
    ASSUME JobInv, NEW i \in Conts, Present(i), StartCont(i)
    PROVE  \E c \in Instances, evs \in Seq(DockerEvents) :
              /\ Told(i, c, evs) /\ c.st = "up" /\ c.job = cont[i].job
              /\ \A n \in DOMAIN evs : evs[n].type = "start"
<1>1. PICK c \in Instances : c.st = "up" /\ c.job = cont[i].job /\ cont' = [cont EXCEPT ![i] = c]
  BY StateTyped DEF StartCont
<1>2. dq \in Seq(DockerEvents)
  BY GoneNow
<1>3. PICK ev \in DockerEvents : ev.id = i /\ ev.type = "start" /\ ev = DockerEvent("start", i)
  BY EventTyped
<1>4. CASE cont[i].st = "up"
  <2>1. dq' = dq \o <<>> /\ <<>> \in Seq(DockerEvents) /\ DOMAIN <<>> = {}
    BY <1>2, <1>4 DEF StartCont
  <2>2. PICK evs \in Seq(DockerEvents) : evs = <<>>
    BY <2>1
  <2>3. Told(i, c, evs)
    BY <1>1, <2>1, <2>2 DEF Told
  <2>4. QED
    BY <1>1, <2>1, <2>2, <2>3
<1>5. CASE cont[i].st # "up"
  <2>1. dq' = dq \o <<ev>>
    BY <1>2, <1>3, <1>5 DEF StartCont
  <2>2. <<ev>> \in Seq(DockerEvents) /\ \A n \in DOMAIN <<ev>> : <<ev>>[n] = ev
    BY <1>3
  <2>3. Told(i, c, <<ev>>)
    BY <1>1, <1>3, <2>1, <2>2 DEF Told
  <2>4. QED
    BY <1>1, <1>3, <2>2, <2>3
<1>6. QED
  BY <1>4, <1>5

LEMMA EndTold ==
    ASSUME JobInv, NEW i \in Conts, Present(i), NEW st \in {"created", "up", "ok", "bad"},
           EndCont(i, st)
    PROVE  \E c \in Instances, evs \in Seq(DockerEvents) :
              Told(i, c, evs) /\ c.st = st /\ c.job = cont[i].job
<1>0. /\ cont' = [cont EXCEPT ![i].st = st]
      /\ \E c \in Instances : /\ c.st = st /\ c.job = cont[i].job
                              /\ [cont EXCEPT ![i].st = st] = [cont EXCEPT ![i] = c]
  BY StateTyped DEF EndCont
<1>1. PICK c \in Instances : c.st = st /\ c.job = cont[i].job /\ cont' = [cont EXCEPT ![i] = c]
  BY <1>0
<1>2. dq \in Seq(DockerEvents)
  BY GoneNow
<1>3. PICK ev \in DockerEvents : ev.id = i /\ ev.type = "die" /\ ev = DockerEvent("die", i)
  BY EventTyped
<1>4. dq' = dq \o <<ev>>
  BY <1>2, <1>3 DEF EndCont
<1>5. <<ev>> \in Seq(DockerEvents) /\ \A n \in DOMAIN <<ev>> : <<ev>>[n] = ev
  BY <1>3
<1>6. Told(i, c, <<ev>>)
  BY <1>1, <1>3, <1>4, <1>5 DEF Told
<1>7. QED
  BY <1>1, <1>5, <1>6

(* A container that goes without having run only tells that it is gone.    *)
LEMMA RemoveTold ==
    ASSUME JobInv, NEW i \in Conts, Present(i), RemoveCont(i)
    PROVE  \E evs : /\ Told(i, None, evs)
                    /\ cont[i].st # "up" => \A n \in DOMAIN evs : evs[n].type = "destroy"
<1>1. dq \in Seq(DockerEvents) /\ cont' = [cont EXCEPT ![i] = None]
  BY GoneNow DEF RemoveCont
<1>2. PICK d \in DockerEvents : d.id = i /\ d.type = "die" /\ d = DockerEvent("die", i)
  BY EventTyped
<1>3. PICK g \in DockerEvents : g.id = i /\ g.type = "destroy" /\ g = DockerEvent("destroy", i)
  BY EventTyped
<1>4. CASE cont[i].st = "up"
  <2>1. dq' = (dq \o <<d>>) \o <<g>>
    BY <1>2, <1>3, <1>4 DEF RemoveCont
  <2>2. /\ <<d>> \in Seq(DockerEvents) /\ <<g>> \in Seq(DockerEvents)
        /\ (\A n \in DOMAIN <<d>> : <<d>>[n] = d) /\ \A n \in DOMAIN <<g>> : <<g>>[n] = g
    BY <1>2, <1>3
  <2>3. PICK evs : evs = <<d>> \o <<g>>
    OBVIOUS
  <2>4. evs \in Seq(DockerEvents) /\ \A n \in DOMAIN evs : evs[n] = d \/ evs[n] = g
    BY <2>2, <2>3, Joined
  <2>5. dq' = dq \o evs
    BY <1>1, <2>1, <2>2, <2>3, ConcatAssociative
  <2>6. Told(i, None, evs)
    BY <1>1, <1>2, <1>3, <2>4, <2>5 DEF Told
  <2>7. QED
    BY <1>4, <2>6
<1>5. CASE cont[i].st # "up"
  <2>1. dq' = (dq \o <<>>) \o <<g>>
    BY <1>3, <1>5 DEF RemoveCont
  <2>2. dq' = dq \o <<g>>
    BY <1>1, <2>1
  <2>3. <<g>> \in Seq(DockerEvents) /\ \A n \in DOMAIN <<g>> : <<g>>[n] = g
    BY <1>3
  <2>4. Told(i, None, <<g>>)
    BY <1>1, <1>3, <2>2, <2>3 DEF Told
  <2>5. QED
    BY <1>3, <2>3, <2>4
<1>6. QED
  BY <1>4, <1>5

-----------------------------------------------------------------------------
(* A task at work: its event, its job and its local variables.             *)
LEMMA Running ==
    ASSUME JobInv, NEW t \in TaskIds, NEW a \in {"Starting", "Stopping", "Destroying"}, NEW pc,
           At(t, a, pc)
    PROVE  /\ task[t].phase = "body" /\ task[t].ev.action = a /\ Obj(t) \in Jobs
           /\ GoodFrame(body[t], left.made) /\ body[t].pc = pc /\ body[t] # None
<1>1. TM!TypeOK /\ task[t].phase = "body" /\ GoodFrame(body[t], left.made)
  BY TmTyped DEF JobInv, Locals, At
<1>2. QED
  BY <1>1, RunsJob, OfJob DEF At, Obj

LEMMA Starts ==
    ASSUME JobInv, NEW t \in TaskIds, NEW a \in {"Starting", "Stopping", "Destroying"}, Reads(t, a)
    PROVE  /\ task[t].phase = "body" /\ task[t].ev.action = a /\ Obj(t) \in Jobs
           /\ body[t] = None
BY TmTyped, RunsJob, OfJob DEF JobInv, Reads, Obj

(* The parts of the invariant under a step of the task t.                  *)
LEMMA FrameStays ==
    ASSUME JobInv, LeftMove, NEW b, GoodFrame(b, left.made)
    PROVE  GoodFrame(b, left'.made)
<1>1. left.made \in Nat /\ left'.made \in Nat /\ left'.made >= left.made
  BY GoneNow DEF LeftMove, Bounds
<1>2. QED
  BY <1>1, ConstAssumption DEF GoodFrame, Conts

LEMMA LocalsKept ==
    ASSUME JobInv, LeftMove, NEW t \in TaskIds, NEW b, Set(t, b),
           \A s \in TaskIds : s # t => task'[s] = task[s],
           b # None => GoodFrame(b, left'.made) /\ task'[t].phase = "body"
    PROVE  Locals'
<1>1. /\ body' \in [TaskIds -> {None} \cup Frames]
      /\ body'[t] = b /\ \A s \in TaskIds : s # t => body'[s] = body[s]
  BY DEF JobInv, Locals, Set, GoodFrame
<1>2. ASSUME NEW s \in TaskIds, body'[s] # None
      PROVE  GoodFrame(body'[s], left'.made) /\ task'[s].phase = "body"
  <2>1. CASE s = t
    BY <1>1, <1>2, <2>1
  <2>2. CASE s # t
    <3>1. GoodFrame(body[s], left.made) /\ task[s].phase = "body" /\ body'[s] = body[s]
      BY <1>1, <1>2, <2>2 DEF JobInv, Locals
    <3>2. QED
      BY <2>2, <3>1, FrameStays
  <2>3. QED
    BY <2>1, <2>2
<1>3. QED
  BY <1>1, <1>2 DEF Locals

LEMMA QueuedKept ==
    ASSUME TM!TypeOK, NEW j, Queued(j), queue' = queue \/ \E ev : queue' = Append(queue, ev)
    PROVE  Queued(j)'
<1>1. queue \in Seq(TM!Events)
  BY DEF TM!TypeOK
<1>2. PICK n \in DOMAIN queue : Calls(queue[n], j)
  BY DEF Queued
<1>3. n \in DOMAIN queue' /\ queue'[n] = queue[n]
  BY <1>1, <1>2
<1>4. QED
  BY <1>2, <1>3 DEF Queued, Calls

(* A step of t that makes no status transitional, and leaves no status of  *)
(* its job transitional when t was the one to write it and no longer is.   *)
LEMMA ClosingKept ==
    ASSUME JobInv, NEW t \in TaskIds, UNCHANGED req,
           queue' = queue \/ \E ev : queue' = Append(queue, ev),
           \A s \in TaskIds : s # t => task'[s] = task[s] /\ body'[s] = body[s],
           \A j \in Jobs : Exists(j)' /\ row'[j].actual \in Transitional =>
               /\ Exists(j) /\ row[j].actual \in Transitional
               /\ Works(t, j) => Works(t, j)'
    PROVE  Closing'
<1> SUFFICES ASSUME NEW j \in Jobs, Exists(j)', row'[j].actual \in Transitional
             PROVE  Asking(j)' \/ Queued(j)' \/ Working(j)'
  BY DEF Closing
<1>1. Asking(j) \/ Queued(j) \/ Working(j)
  BY DEF JobInv, Closing
<1>2. CASE Asking(j)
  BY <1>2 DEF Asking, Asks
<1>3. CASE Queued(j)
  BY <1>3, TmTyped, QueuedKept DEF JobInv
<1>4. ASSUME NEW s \in TaskIds, Works(s, j)
      PROVE  Working(j)'
  <2>1. CASE s = t
    BY <1>4, <2>1 DEF Working
  <2>2. CASE s # t
    BY <1>4, <2>2 DEF Working, Works, Unwritten
  <2>3. QED
    BY <2>1, <2>2
<1>5. QED
  BY <1>1, <1>2, <1>3, <1>4 DEF Working

(* What a task leaves alone.                                               *)
Apart == UNCHANGED <<ttl, timers, dh, pend, req>>

LEMMA CallersKept ==
    ASSUME JobInv, Apart, UNCHANGED loop
    PROVE  Callers'
BY DEF JobInv, Callers, Apart

(* The body goes on, its status write still before it if it was.           *)
LEMMA Proceeds ==
    ASSUME JobInv, NEW t \in TaskIds, task[t].phase = "body", Apart, UNCHANGED <<tmVars, row>>,
           NEW b, Set(t, b), GoodFrame(b, left'.made),
           Unwritten(body[t], task[t].ev.action) => Unwritten(b, task[t].ev.action),
           LeftMove, Docked
    PROVE  Kept
<1>1. Tables' /\ Callers' /\ Locals'
  BY CallersKept, LocalsKept DEF tmVars, JobInv, Tables, Docked, Apart
<1>2. [TM!Next]_(TM!vars)
  BY DEF TM!vars, tmVars
<1>3. TMP!IInv'
  BY <1>2, TmKept DEF JobInv
<1>4. body'[t] = b /\ \A s \in TaskIds : s # t => body'[s] = body[s]
  BY DEF Set, JobInv, Locals
<1>5. \A j \in Jobs : Works(t, j) => Works(t, j)'
  BY <1>4 DEF Works, tmVars
<1>6. Closing'
  BY <1>4, <1>5, ClosingKept DEF tmVars, Apart, Exists
<1>7. QED
  BY <1>1, <1>2, <1>3, <1>6 DEF Kept, JobInv, LeftMove, Docked

(* The body returns Err: its on_error callback will write the status.      *)
LEMMA Fails ==
    ASSUME JobInv, NEW t \in TaskIds, Err(t), Apart, UNCHANGED row, LeftMove, Docked
    PROVE  Kept
<1>1. TM!TypeOK
  BY TmTyped DEF JobInv
<1>2. /\ task[t].phase = "body" /\ UNCHANGED <<queue, loop>>
      /\ task'[t] = TM!Running(task[t].ev, "onerr")
      /\ \A s \in TaskIds : s # t => task'[s] = task[s]
  BY <1>1 DEF Err, TM!BodyErr, TM!TypeOK
<1>3. body'[t] = None /\ \A s \in TaskIds : s # t => body'[s] = body[s]
  BY DEF Err, Set, JobInv, Locals
<1>4. Tables' /\ Callers' /\ Locals'
  BY <1>2, CallersKept, LocalsKept DEF Err, JobInv, Tables, Docked, Apart
<1>5. [TM!Next]_(TM!vars)
  BY DEF Err, TM!Next, TM!TaskStep
<1>6. TMP!IInv'
  BY <1>5, TmKept DEF JobInv
<1>7. \A j \in Jobs : Works(t, j) => Works(t, j)'
  BY <1>2, <1>3 DEF Works, TM!Running, TM!Done, Unwritten
<1>8. Closing'
  BY <1>2, <1>3, <1>7, ClosingKept DEF Apart, Exists
<1>9. QED
  BY <1>4, <1>5, <1>6, <1>8 DEF Kept, JobInv, LeftMove, Docked

(* The body returns Ok, its status write behind it.                        *)
LEMMA Returns ==
    ASSUME JobInv, NEW t \in TaskIds, Return(t), ~Unwritten(body[t], task[t].ev.action),
           Apart, UNCHANGED row, LeftMove, Docked
    PROVE  Kept
<1>1. TM!TypeOK
  BY TmTyped DEF JobInv
<1>2. UNCHANGED <<queue, loop>> /\ \A s \in TaskIds : s # t => task'[s] = task[s]
  BY <1>1 DEF Return, TM!BodyOk, TM!TypeOK
<1>3. \A s \in TaskIds : s # t => body'[s] = body[s]
  BY DEF Return, Set, JobInv, Locals
<1>4. Tables' /\ Callers' /\ Locals'
  BY <1>2, CallersKept, LocalsKept DEF Return, JobInv, Tables, Docked, Apart
<1>5. [TM!Next]_(TM!vars)
  BY DEF Return, TM!Next, TM!TaskStep
<1>6. TMP!IInv'
  BY <1>5, TmKept DEF JobInv
<1>7. \A j : ~Works(t, j)
  BY DEF Works
<1>8. Closing'
  BY <1>2, <1>3, <1>7, ClosingKept DEF Apart, Exists
<1>9. QED
  BY <1>4, <1>5, <1>6, <1>8 DEF Kept, JobInv, LeftMove, Docked

(* The status write of the body, not transitional or taking the row, with  *)
(* its event.                                                              *)
LEMMA Writes ==
    ASSUME JobInv, NEW t \in TaskIds, task[t].phase = "body", Obj(t) \in Jobs,
           Apart, TM!Emit(Ev(Obj(t), "Other")),
           NEW r, row' = [row EXCEPT ![Obj(t)] = r],
           r = None \/ (r \in Rows /\ r.actual \notin Transitional),
           NEW b, Set(t, b), GoodFrame(b, left'.made), LeftMove, Docked
    PROVE  Kept
<1>1. UNCHANGED <<loop, tasks, task>> /\ \E ev : queue' = Append(queue, ev)
  BY DEF TM!Emit
<1>2. row' \in [Jobs -> {None} \cup Rows]
      /\ row'[Obj(t)] = r /\ \A j \in Jobs : j # Obj(t) => row'[j] = row[j]
  BY DEF JobInv, Tables
<1>3. Tables' /\ Callers' /\ Locals'
  BY <1>1, <1>2, CallersKept, LocalsKept DEF JobInv, Tables, Docked, Apart
<1>4. [TM!Next]_(TM!vars)
  BY Emitted DEF TM!Next
<1>5. TMP!IInv'
  BY <1>4, TmKept DEF JobInv
<1>6. \A s \in TaskIds : s # t => body'[s] = body[s]
  BY DEF Set, JobInv, Locals
<1>7. \A j \in Jobs : Works(t, j) => j = Obj(t)
  BY DEF Works, Obj
<1>8. \A j \in Jobs : Exists(j)' /\ row'[j].actual \in Transitional => j # Obj(t)
  BY <1>2 DEF Exists
<1>9. Closing'
  BY <1>1, <1>2, <1>6, <1>7, <1>8, ClosingKept DEF Apart, Exists
<1>10. QED
  BY <1>3, <1>4, <1>5, <1>9 DEF Kept, JobInv, LeftMove, Docked

(* Writing the actual status keeps a row a row.                            *)
LEMMA ActualRow ==
    ASSUME JobInv, NEW j \in Jobs, Exists(j),
           NEW st \in {"Create", "Start", "Stop", "Finish", "Fail"} \cup Transitional
    PROVE  \E r \in Rows : r.actual = st /\ SetActual(j, st) = [row EXCEPT ![j] = r]
<1>1. row[j] \in Rows
  BY DEF JobInv, Tables, Exists
<1>2. [row[j] EXCEPT !.actual = st] \in Rows /\ [row[j] EXCEPT !.actual = st].actual = st
  BY <1>1 DEF Rows
<1>3. SetActual(j, st) = [row EXCEPT ![j] = [row[j] EXCEPT !.actual = st]]
  BY DEF SetActual
<1>4. QED
  BY <1>2, <1>3

-----------------------------------------------------------------------------
(* The actions of a start, one lemma each.                                 *)
LEMMA FrameGood ==
    ASSUME NEW pc \in {"create", "status", "run"}, NEW todo \in SUBSET Conts, NEW made
    PROVE  GoodFrame(Frame(pc, todo), made) /\ Frame(pc, todo).pc = pc
BY DEF GoodFrame, Frames, Frame

(* A body that strikes i off its list, and goes to pc.                     *)
LEMMA StruckGood ==
    ASSUME NEW b, NEW made, GoodFrame(b, made), b.pc # "insert", NEW i
    PROVE  /\ GoodFrame([b EXCEPT !.todo = @ \ {i}], made)
           /\ [b EXCEPT !.todo = @ \ {i}].pc = b.pc
           /\ [b EXCEPT !.todo = @ \ {i}].todo = b.todo \ {i}
           /\ [b EXCEPT !.todo = @ \ {i}].cur = b.cur
BY DEF GoodFrame, Frames

LEMMA GotoGood ==
    ASSUME NEW b, NEW made, GoodFrame(b, made), NEW pc \in {"create", "status", "run", "wait", "end"}
    PROVE  /\ GoodFrame([b EXCEPT !.pc = pc], made)
           /\ [b EXCEPT !.pc = pc].pc = pc
           /\ [b EXCEPT !.pc = pc].todo = b.todo
BY DEF GoodFrame, Frames

LEMMA ReadStartKept ==
    ASSUME JobInv, NEW t \in TaskIds, ReadStart(t)
    PROVE  Kept
<1>1. task[t].phase = "body" /\ Apart /\ UNCHANGED row /\ body[t] = None
  BY Starts DEF ReadStart, Apart, analyserVars, dbVars
<1>2. LeftMove /\ Docked
  BY SameLeft, SameDock DEF ReadStart, dbVars
<1>3. CASE Err(t)
  BY <1>1, <1>2, <1>3, Fails
<1>4. ASSUME NEW pc \in {"create", "status"}, Set(t, Frame(pc, ProcsOf(Obj(t)))), UNCHANGED tmVars
      PROVE  Kept
  <2>1. PICK b : b = Frame(pc, ProcsOf(Obj(t)))
    OBVIOUS
  <2>2. ProcsOf(Obj(t)) \in SUBSET Conts
    BY DEF ProcsOf
  <2>3. GoodFrame(b, left'.made) /\ b.pc = pc
    BY <2>1, <2>2, FrameGood
  <2>4. Unwritten(b, task[t].ev.action)
    BY <2>3 DEF Unwritten
  <2>5. QED
    BY <1>1, <1>2, <1>4, <2>1, <2>3, <2>4, Proceeds
<1>5. QED
  BY <1>3, <1>4 DEF ReadStart

LEMMA CreateContKept ==
    ASSUME JobInv, NEW t \in TaskIds, CreateCont(t)
    PROVE  Kept
<1>1. /\ task[t].phase = "body" /\ Obj(t) \in Jobs /\ GoodFrame(body[t], left.made)
      /\ Apart /\ UNCHANGED row
  BY Running DEF CreateCont, Apart, analyserVars, dbVars
<1>2. CASE Err(t) /\ SpendFail /\ UNCHANGED cont
  BY <1>1, <1>2, SpentFail, SameDock, Fails DEF CreateCont, dbVars, dockerVars
<1>3. CASE /\ left.made < MaxConts
           /\ cont' = [cont EXCEPT ![left.made + 1] = [st |-> "created", job |-> Obj(t)]]
           /\ left' = [left EXCEPT !.made = @ + 1]
           /\ Set(t, [body[t] EXCEPT !.pc = "insert", !.cur = left.made + 1])
           /\ UNCHANGED tmVars
  <2>1. PICK i : i = left.made + 1
    OBVIOUS
  <2>2. left.made \in Nat /\ i \in Conts /\ i \in Nat /\ i > left.made
    BY <1>3, <2>1, GoneNow, ConstAssumption DEF Conts
  <2>3. left'.made = i /\ LeftMove
    BY <1>3, <2>1, <2>2, ConstAssumption DEF JobInv, Bounds, LeftMove, Conts
  <2>4. PICK c : c = [st |-> "created", job |-> Obj(t)]
    OBVIOUS
  <2>5. c \in Instances
    BY <1>1, <2>4 DEF Instances
  <2>6. /\ cont' \in [Conts -> {None} \cup Instances]
        /\ \A h \in Conts : h # i => cont'[h] = cont[h]
    BY <1>3, <2>1, <2>2, <2>4, <2>5 DEF JobInv, Tables
  <2>7. \A h \in Conts : h > i => cont'[h] = None /\ proc'[h] = None
    BY <2>2, <2>6, GoneNow, ConstAssumption DEF CreateCont, dbVars, Conts
  <2>8. ASSUME NEW n \in DOMAIN dq, dq[n].type = "destroy"
        PROVE  dq[n].id <= i /\ cont'[dq[n].id] = None
    <3>1. dq[n] \in DockerEvents
      BY GoneNow
    <3>2. dq[n].id \in Conts /\ dq[n].id <= left.made /\ cont[dq[n].id] = None
      BY <2>8, <3>1, GoneNow DEF DockerEvents
    <3>3. dq[n].id \in Nat /\ dq[n].id # i
      BY <2>2, <3>2, ConstAssumption DEF Conts
    <3>4. QED
      BY <2>2, <2>6, <3>2, <3>3
  <2>9. Docked
    BY <2>3, <2>6, <2>7, <2>8 DEF Docked, Gone, CreateCont, JobInv, Tables, dbVars
  <2>10. PICK b : b = [body[t] EXCEPT !.pc = "insert", !.cur = i]
    OBVIOUS
  <2>10a. b \in Frames /\ b.pc = "insert" /\ b.cur = i
    BY <1>1, <2>2, <2>10 DEF GoodFrame, Frames
  <2>11. GoodFrame(b, left'.made) /\ b.pc = "insert"
    BY <2>2, <2>3, <2>10a DEF GoodFrame
  <2>12. Unwritten(b, task[t].ev.action)
    BY <2>11 DEF Unwritten
  <2>13. QED
    BY <1>1, <1>3, <2>1, <2>3, <2>9, <2>10, <2>11, <2>12, Proceeds
<1>4. QED
  BY <1>2, <1>3 DEF CreateCont

LEMMA InsertProcKept ==
    ASSUME JobInv, NEW t \in TaskIds, InsertProc(t)
    PROVE  Kept
<1>1. /\ task[t].phase = "body" /\ Obj(t) \in Jobs /\ GoodFrame(body[t], left.made)
      /\ body[t].pc = "insert" /\ Apart /\ UNCHANGED <<tmVars, row>>
  BY Running DEF InsertProc, Apart, analyserVars
<1>2. LeftMove /\ left'.made = left.made
  BY SameLeft DEF InsertProc
<1>3. PICK i \in Conts : i = body[t].cur /\ i <= left.made
  BY <1>1 DEF GoodFrame
<1>4. PICK p : p = [st |-> "created", job |-> Obj(t)]
  OBVIOUS
<1>5. /\ proc' \in [Conts -> {None} \cup Instances]
      /\ \A h \in Conts : h # i => proc'[h] = proc[h]
  BY <1>1, <1>3, <1>4 DEF Instances, InsertProc, JobInv, Tables
<1>6. \A h \in Conts : h > left.made => proc'[h] = None
  BY <1>3, <1>5, GoneNow, ConstAssumption DEF Conts
<1>7. Docked
  BY <1>2, <1>5, <1>6 DEF Docked, Gone, JobInv, Tables, InsertProc, dockerVars
<1>8. PICK n \in Nat : n = body[t].new + 1
  BY <1>1 DEF GoodFrame, Frames
<1>8a. PICK pc \in {"status", "create"} : pc = IF n = left.w.size THEN "status" ELSE "create"
  OBVIOUS
<1>8b. Set(t, [body[t] EXCEPT !.pc = pc, !.todo = @ \cup {i}, !.new = n])
  BY <1>3, <1>8, <1>8a DEF InsertProc
<1>9. PICK b : b = [body[t] EXCEPT !.pc = pc, !.todo = @ \cup {i}, !.new = n]
  OBVIOUS
<1>10. GoodFrame(b, left'.made) /\ b.pc = pc
  BY <1>1, <1>2, <1>9 DEF GoodFrame, Frames
<1>11. Unwritten(b, task[t].ev.action)
  BY <1>10 DEF Unwritten
<1>12. QED
  BY <1>1, <1>2, <1>7, <1>8b, <1>9, <1>10, <1>11, Proceeds

(* The status write that MarkStarted, MarkStopped and ClearJob end with.   *)
LEMMA MarkKept ==
    ASSUME JobInv, NEW t \in TaskIds, NEW a \in {"Starting", "Stopping", "Destroying"}, NEW pc,
           At(t, a, pc), NEW st \in {"Start", "Stop"}, NEW to \in {"run", "end"},
           \/ Exists(Obj(t)) /\ row' = SetActual(Obj(t), st)
           \/ row' = [row EXCEPT ![Obj(t)] = None],
           TM!Emit(Ev(Obj(t), "Other")), Set(t, [body[t] EXCEPT !.pc = to]),
           Apart, LeftMove, Docked
    PROVE  Kept
<1>1. /\ task[t].phase = "body" /\ Obj(t) \in Jobs /\ GoodFrame(body[t], left'.made)
  BY Running, FrameStays
<1>2. PICK b : b = [body[t] EXCEPT !.pc = to]
  OBVIOUS
<1>3. GoodFrame(b, left'.made)
  BY <1>1, <1>2, GotoGood
<1>4. PICK r : /\ row' = [row EXCEPT ![Obj(t)] = r]
               /\ r = None \/ (r \in Rows /\ r.actual \notin Transitional)
  <2>1. CASE row' = [row EXCEPT ![Obj(t)] = None]
    BY <2>1
  <2>2. CASE Exists(Obj(t)) /\ row' = SetActual(Obj(t), st)
    <3>1. PICK r \in Rows : r.actual = st /\ row' = [row EXCEPT ![Obj(t)] = r]
      BY <1>1, <2>2, ActualRow
    <3>2. QED
      BY <3>1 DEF Transitional
  <2>3. QED
    BY <2>1, <2>2
<1>5. QED
  BY <1>1, <1>2, <1>3, <1>4, Writes

LEMMA MarkStartedKept ==
    ASSUME JobInv, NEW t \in TaskIds, MarkStarted(t)
    PROVE  Kept
<1>1. LeftMove /\ Docked /\ Apart
  BY SameLeft, SameDock DEF MarkStarted, Apart, analyserVars
<1>2. CASE Err(t) /\ UNCHANGED row
  BY <1>1, <1>2, Fails
<1>3. QED
  BY <1>1, <1>2, MarkKept DEF MarkStarted

LEMMA StartNextKept ==
    ASSUME JobInv, NEW t \in TaskIds, StartNext(t)
    PROVE  Kept
<1>1. /\ task[t].phase = "body" /\ GoodFrame(body[t], left.made) /\ body[t].pc = "run"
      /\ task[t].ev.action = "Starting" /\ Apart /\ UNCHANGED <<tmVars, row, proc>>
  BY Running DEF StartNext, Apart, analyserVars, dbVars
<1>2. PICK i \in body[t].todo :
        /\ \/ Present(i) /\ StartCont(i) /\ UNCHANGED left
           \/ ~Present(i) /\ UNCHANGED <<dockerVars, left>>
           \/ SpendFail /\ UNCHANGED dockerVars
        /\ Set(t, [body[t] EXCEPT !.pc = "wait", !.cur = i, !.todo = @ \ {i}])
  BY DEF StartNext
<1>3. i \in Conts /\ i \in Nat
  BY <1>1, ConstAssumption DEF GoodFrame, Frames, Conts
<1>4. LeftMove /\ left'.made = left.made
  BY <1>2, SameLeft, SpentFail
<1>5. Docked
  <2>1. CASE UNCHANGED dockerVars
    BY <1>1, <1>4, <2>1, SameDock
  <2>2. CASE Present(i) /\ StartCont(i)
    <3>1. PICK c \in Instances, evs \in Seq(DockerEvents) : Told(i, c, evs)
      BY <1>3, <2>2, StartTold
    <3>2. QED
      BY <1>1, <1>3, <1>4, <2>2, <3>1, ToldDocked DEF JobInv, Tables
  <2>3. QED
    BY <1>2, <2>1, <2>2
<1>6. PICK b : b = [body[t] EXCEPT !.pc = "wait", !.cur = i, !.todo = @ \ {i}]
  OBVIOUS
<1>7. GoodFrame(b, left'.made)
  BY <1>1, <1>3, <1>6 DEF GoodFrame, Frames
<1>8. ~Unwritten(body[t], task[t].ev.action)
  BY <1>1, <1>2 DEF Unwritten, At, StartNext
<1>9. QED
  BY <1>1, <1>2, <1>4, <1>5, <1>6, <1>7, <1>8, Proceeds

LEMMA WaitNextKept ==
    ASSUME JobInv, NEW t \in TaskIds, WaitNext(t)
    PROVE  Kept
<1>1. /\ task[t].phase = "body" /\ GoodFrame(body[t], left.made) /\ body[t].pc = "wait"
      /\ task[t].ev.action = "Starting" /\ body[t] # None /\ Apart /\ UNCHANGED row
  BY Running DEF WaitNext, Apart, analyserVars, dbVars
<1>2. LeftMove /\ Docked
  BY SameLeft, SameDock DEF WaitNext, dbVars
<1>3. CASE Err(t)
  BY <1>1, <1>2, <1>3, Fails
<1>4. CASE Set(t, [body[t] EXCEPT !.pc = "run"]) /\ UNCHANGED tmVars
  <2>1. PICK b : b = [body[t] EXCEPT !.pc = "run"]
    OBVIOUS
  <2>2. GoodFrame(b, left'.made)
    BY <1>1, <1>2, <2>1, GotoGood, FrameStays
  <2>3. ~Unwritten(body[t], task[t].ev.action)
    BY <1>1 DEF Unwritten
  <2>4. QED
    BY <1>1, <1>2, <1>4, <2>1, <2>2, <2>3, Proceeds
<1>5. QED
  BY <1>3, <1>4 DEF WaitNext

LEMMA StartDoneKept ==
    ASSUME JobInv, NEW t \in TaskIds, StartDone(t)
    PROVE  Kept
<1>1. /\ task[t].ev.action = "Starting" /\ body[t] # None /\ body[t].pc = "run"
      /\ Apart /\ UNCHANGED row
  BY Running DEF StartDone, Apart, analyserVars, dbVars
<1>2. LeftMove /\ Docked
  BY SameLeft, SameDock DEF StartDone, dbVars
<1>3. QED
  BY <1>1, <1>2, Returns DEF StartDone, Unwritten

-----------------------------------------------------------------------------
(* The actions of a stop and of a deletion.                                *)
LEMMA ReadsKept ==
    ASSUME JobInv, NEW t \in TaskIds, NEW a \in {"Stopping", "Destroying"}, Reads(t, a),
           Set(t, Frame("run", ProcsOf(Obj(t)))), UNCHANGED tmVars, Apart,
           UNCHANGED <<dbVars, dockerVars, left>>
    PROVE  Kept
<1>1. task[t].phase = "body" /\ task[t].ev.action = a
  BY Starts
<1>2. LeftMove /\ Docked
  BY SameLeft, SameDock DEF dbVars
<1>3. PICK b : b = Frame("run", ProcsOf(Obj(t)))
  OBVIOUS
<1>4. ProcsOf(Obj(t)) \in SUBSET Conts
  BY DEF ProcsOf
<1>5. GoodFrame(b, left'.made) /\ b.pc = "run"
  BY <1>3, <1>4, FrameGood
<1>6. Unwritten(b, task[t].ev.action)
  BY <1>1, <1>5 DEF Unwritten
<1>7. QED
  BY <1>1, <1>2, <1>3, <1>5, <1>6, Proceeds DEF dbVars

LEMMA ReadStopKept ==
    ASSUME JobInv, NEW t \in TaskIds, ReadStop(t)
    PROVE  Kept
BY ReadsKept DEF ReadStop, Apart, analyserVars

LEMMA ReadDeleteKept ==
    ASSUME JobInv, NEW t \in TaskIds, ReadDelete(t)
    PROVE  Kept
<1>1. LeftMove /\ Docked /\ Apart /\ UNCHANGED row
  BY SameLeft, SameDock DEF ReadDelete, Apart, analyserVars, dbVars
<1>2. CASE Err(t)
  BY <1>1, <1>2, Fails
<1>3. QED
  BY <1>1, <1>2, ReadsKept DEF ReadDelete

LEMMA StopNextKept ==
    ASSUME JobInv, NEW t \in TaskIds, StopNext(t)
    PROVE  Kept
<1>1. /\ task[t].phase = "body" /\ GoodFrame(body[t], left.made) /\ body[t].pc = "run"
      /\ task[t].ev.action = "Stopping" /\ Apart /\ UNCHANGED <<row, proc>>
  BY Running DEF StopNext, Apart, analyserVars, dbVars
<1>2. PICK i \in body[t].todo :
        \/ /\ Present(i)
           /\ IF cont[i].st = "up" THEN \E st \in {"ok", "bad"} : EndCont(i, st)
                                   ELSE UNCHANGED dockerVars
           /\ Set(t, [body[t] EXCEPT !.todo = @ \ {i}])
           /\ UNCHANGED <<tmVars, left>>
        \/ /\ ~Present(i)
           /\ Err(t)
           /\ UNCHANGED <<dockerVars, left>>
        \/ /\ SpendFail
           /\ Err(t)
           /\ UNCHANGED dockerVars
  BY DEF StopNext
<1>3. i \in Conts
  BY <1>1 DEF GoodFrame, Frames
<1>4. LeftMove /\ left'.made = left.made
  BY <1>2, SameLeft, SpentFail
<1>5. CASE Err(t) /\ UNCHANGED dockerVars
  BY <1>1, <1>4, <1>5, SameDock, Fails
<1>6. CASE /\ Present(i)
           /\ IF cont[i].st = "up" THEN \E st \in {"ok", "bad"} : EndCont(i, st)
                                   ELSE UNCHANGED dockerVars
           /\ Set(t, [body[t] EXCEPT !.todo = @ \ {i}])
           /\ UNCHANGED <<tmVars, left>>
  <2>1. Docked
    <3>1. CASE UNCHANGED dockerVars
      BY <1>1, <1>4, <3>1, SameDock
    <3>2. ASSUME NEW st \in {"ok", "bad"}, EndCont(i, st)
          PROVE  Docked
      <4>1. st \in {"created", "up", "ok", "bad"}
        OBVIOUS
      <4>2. PICK c \in Instances, evs \in Seq(DockerEvents) : Told(i, c, evs)
        BY <1>3, <1>6, <3>2, <4>1, EndTold
      <4>3. QED
        BY <1>1, <1>3, <1>4, <1>6, <4>2, ToldDocked DEF JobInv, Tables
    <3>3. QED
      BY <1>6, <3>1, <3>2
  <2>2. PICK b : b = [body[t] EXCEPT !.todo = @ \ {i}]
    OBVIOUS
  <2>3. GoodFrame(b, left'.made) /\ b.pc = "run"
    BY <1>1, <1>4, <2>2, StruckGood
  <2>4. Unwritten(b, task[t].ev.action)
    BY <1>1, <2>3 DEF Unwritten
  <2>5. QED
    BY <1>1, <1>4, <1>6, <2>1, <2>2, <2>3, <2>4, Proceeds
<1>7. QED
  BY <1>2, <1>5, <1>6

LEMMA MarkStoppedKept ==
    ASSUME JobInv, NEW t \in TaskIds, MarkStopped(t)
    PROVE  Kept
<1>1. LeftMove /\ Docked /\ Apart
  BY SameLeft, SameDock DEF MarkStopped, Apart, analyserVars
<1>2. CASE Err(t) /\ UNCHANGED row
  BY <1>1, <1>2, Fails
<1>3. QED
  BY <1>1, <1>2, MarkKept DEF MarkStopped

(* A row deleted keeps the table typed, and makes no new row.              *)
LEMMA RowGone ==
    ASSUME JobInv, NEW i, proc' = [proc EXCEPT ![i] = None]
    PROVE  /\ proc' \in [Conts -> {None} \cup Instances]
           /\ \A h \in Conts : proc'[h] = proc[h] \/ (h = i /\ proc'[h] = None)
           /\ \A h \in Conts : proc[h] = None => proc'[h] = None
BY DEF JobInv, Tables

LEMMA DeleteNextKept ==
    ASSUME JobInv, NEW t \in TaskIds, DeleteNext(t)
    PROVE  Kept
<1>1. /\ task[t].phase = "body" /\ GoodFrame(body[t], left.made) /\ body[t].pc = "run"
      /\ task[t].ev.action = "Destroying" /\ Apart /\ UNCHANGED <<tmVars, row>>
  BY Running DEF DeleteNext, Apart, analyserVars
<1>2. PICK i \in body[t].todo :
        \/ /\ IF Present(i) THEN RemoveCont(i) ELSE UNCHANGED dockerVars
           /\ proc' = [proc EXCEPT ![i] = None]
           /\ Set(t, [body[t] EXCEPT !.todo = @ \ {i}])
           /\ UNCHANGED left
        \/ /\ SpendFail
           /\ Set(t, [body[t] EXCEPT !.todo = @ \ {i}, !.err = TRUE])
           /\ UNCHANGED <<dockerVars, proc>>
  BY DEF DeleteNext
<1>3. i \in Conts
  BY <1>1 DEF GoodFrame, Frames
<1>4. LeftMove /\ left'.made = left.made
  BY <1>2, SameLeft, SpentFail
<1>5. CASE /\ IF Present(i) THEN RemoveCont(i) ELSE UNCHANGED dockerVars
           /\ proc' = [proc EXCEPT ![i] = None]
           /\ Set(t, [body[t] EXCEPT !.todo = @ \ {i}])
  <2>1. Docked
    <3>1. CASE Present(i) /\ RemoveCont(i)
      <4>1. PICK evs : Told(i, None, evs)
        BY <1>3, <3>1, RemoveTold
      <4>2. PICK c : c = None
        OBVIOUS
      <4>3. QED
        BY <1>3, <1>4, <1>5, <3>1, <4>1, <4>2, RowGone, ToldDocked
    <3>2. CASE UNCHANGED dockerVars
      BY <1>4, <1>5, <3>2, RowGone DEF Docked, JobInv, Tables, Gone, dockerVars
    <3>3. QED
      BY <1>5, <3>1, <3>2
  <2>2. PICK b : b = [body[t] EXCEPT !.todo = @ \ {i}]
    OBVIOUS
  <2>3. GoodFrame(b, left'.made) /\ b.pc = "run"
    BY <1>1, <1>4, <2>2, StruckGood
  <2>4. Unwritten(b, task[t].ev.action)
    BY <1>1, <2>3 DEF Unwritten
  <2>5. QED
    BY <1>1, <1>4, <1>5, <2>1, <2>2, <2>3, <2>4, Proceeds
<1>6. CASE /\ Set(t, [body[t] EXCEPT !.todo = @ \ {i}, !.err = TRUE])
           /\ UNCHANGED <<dockerVars, proc>>
  <2>1. Docked
    BY <1>4, <1>6, SameDock
  <2>2. PICK b : b = [body[t] EXCEPT !.todo = @ \ {i}, !.err = TRUE]
    OBVIOUS
  <2>3. GoodFrame(b, left'.made) /\ b.pc = "run"
    BY <1>1, <1>4, <2>2 DEF GoodFrame, Frames
  <2>4. Unwritten(b, task[t].ev.action)
    BY <1>1, <2>3 DEF Unwritten
  <2>5. QED
    BY <1>1, <1>4, <1>6, <2>1, <2>2, <2>3, <2>4, Proceeds
<1>7. QED
  BY <1>2, <1>5, <1>6

LEMMA ClearJobKept ==
    ASSUME JobInv, NEW t \in TaskIds, ClearJob(t)
    PROVE  Kept
<1>1. LeftMove /\ Docked /\ Apart
  BY SameLeft, SameDock DEF ClearJob, Apart, analyserVars
<1>2. CASE Err(t) /\ UNCHANGED row
  BY <1>1, <1>2, Fails
<1>3. QED
  BY <1>1, <1>2, MarkKept DEF ClearJob

LEMMA EndKept ==
    ASSUME JobInv, NEW t \in TaskIds, End(t)
    PROVE  Kept
<1>1. LeftMove /\ Docked /\ Apart /\ UNCHANGED row
  BY SameLeft, SameDock DEF End, Apart, analyserVars, dbVars
<1>2. QED
  BY <1>1, Returns DEF End, Unwritten

(* What on_error writes.                                                   *)
LEMMA FailWritten ==
    ASSUME JobInv, NEW t \in TaskIds, OnError(t)
    PROVE  /\ row' \in [Jobs -> {None} \cup Rows]
           /\ \A j \in Jobs : row'[j] = row[j] \/ row'[j].actual = "Fail"
           /\ \A j \in Jobs : Exists(j)' /\ row'[j].actual \in Transitional =>
                 row'[j] = row[j] /\ j # Obj(t)
<1>1. CASE Obj(t) \in Jobs /\ Exists(Obj(t))
  <2>1. PICK r \in Rows : r.actual = "Fail" /\ row' = [row EXCEPT ![Obj(t)] = r]
    BY <1>1, ActualRow DEF OnError
  <2>2. QED
    BY <2>1 DEF JobInv, Tables, Exists, Transitional
<1>2. CASE Obj(t) \in Jobs /\ ~Exists(Obj(t))
  BY <1>2 DEF OnError, JobInv, Tables, Exists
<1>3. CASE Obj(t) \notin Jobs
  <2>1. row' = row
    BY <1>3 DEF OnError, JobInv, Tables, SetActual
  <2>2. QED
    BY <1>3, <2>1 DEF JobInv, Tables
<1>4. QED
  BY <1>1, <1>2, <1>3

LEMMA OnErrorKept ==
    ASSUME JobInv, NEW t \in TaskIds, OnError(t)
    PROVE  Kept
<1>1. TM!TypeOK /\ TM!OnErrorDone(t) /\ body[t] = None
  BY TmTyped DEF JobInv, OnError, TM!OnErrorDone, Locals
<1>2. UNCHANGED <<queue, loop>> /\ \A s \in TaskIds : s # t => task'[s] = task[s]
  BY <1>1 DEF TM!OnErrorDone, TM!TypeOK
<1>3. LeftMove /\ Docked /\ Apart /\ UNCHANGED body
  BY SameLeft, SameDock DEF OnError, Apart, analyserVars
<1>4. Set(t, None)
  BY <1>1, <1>3 DEF Set, JobInv, Locals
<1>5. Tables' /\ Callers' /\ Locals'
  BY <1>2, <1>3, <1>4, FailWritten, CallersKept, LocalsKept DEF JobInv, Tables, Docked, Apart
<1>6. [TM!Next]_(TM!vars)
  BY <1>1 DEF TM!Next, TM!TaskStep
<1>7. TMP!IInv'
  BY <1>6, TmKept DEF JobInv
<1>8. \A j : Works(t, j) => j = Obj(t)
  BY DEF Works, Obj
<1>9. Closing'
  BY <1>2, <1>3, <1>8, FailWritten, ClosingKept DEF Exists, Apart
<1>10. QED
  BY <1>3, <1>5, <1>6, <1>7, <1>9 DEF Kept, JobInv, LeftMove, Docked

LEMMA TaskStepKept ==
    ASSUME JobInv, NEW t \in TaskIds, TaskStep(t)
    PROVE  Kept
BY ReadStartKept, CreateContKept, InsertProcKept, MarkStartedKept, StartNextKept,
   WaitNextKept, StartDoneKept, ReadStopKept, StopNextKept, MarkStoppedKept, ReadDeleteKept,
   DeleteNextKept, ClearJobKept, EndKept, OnErrorKept DEF TaskStep

-----------------------------------------------------------------------------
(* Steps that are not of a task.                                           *)
LEMMA Elsewhere ==
    ASSUME JobInv, UNCHANGED <<body, task>>, [TM!Next]_(TM!vars),
           queue' = queue \/ \E ev : queue' = Append(queue, ev),
           LeftMove, Docked, Callers', row' \in [Jobs -> {None} \cup Rows],
           dh' \in {None} \cup [st : {"run"}, ev : DockerEvents],
           \A j \in Jobs : Exists(j)' /\ row'[j].actual \in Transitional =>
               \/ /\ Exists(j) /\ row[j].actual \in Transitional
                  /\ Asking(j) => Asking(j)' \/ Queued(j)'
               \/ Asking(j)' \/ Queued(j)'
    PROVE  Kept
<1>1. Tables'
  BY DEF Tables, Docked
<1>2. Locals'
  <2>1. ASSUME NEW s \in TaskIds, body[s] # None
        PROVE  GoodFrame(body[s], left'.made) /\ task[s].phase = "body"
    <3>1. GoodFrame(body[s], left.made) /\ task[s].phase = "body"
      BY <2>1 DEF JobInv, Locals
    <3>2. QED
      BY <3>1, FrameStays
  <2>2. QED
    BY <2>1 DEF JobInv, Locals
<1>3. TMP!IInv'
  BY TmKept DEF JobInv
<1>4. ASSUME NEW j \in Jobs, Exists(j)', row'[j].actual \in Transitional
      PROVE  Asking(j)' \/ Queued(j)' \/ Working(j)'
  <2>1. SUFFICES ASSUME Queued(j) \/ Working(j)
                 PROVE  Queued(j)' \/ Working(j)'
    BY <1>4 DEF JobInv, Closing
  <2>2. CASE Queued(j)
    BY <2>2, TmTyped, QueuedKept DEF JobInv
  <2>3. CASE Working(j)
    BY <2>3 DEF Working, Works, Unwritten
  <2>4. QED
    BY <2>1, <2>2, <2>3
<1>5. Closing'
  BY <1>4 DEF Closing
<1>6. QED
  BY <1>1, <1>2, <1>3, <1>5 DEF Kept, JobInv, LeftMove, Docked

(* An event that calls for a task is in the channel once it is emitted.    *)
LEMMA EmitQueues ==
    ASSUME JobInv, NEW j, NEW a \in {"Starting", "Stopping", "Destroying"}, TM!Emit(Ev(j, a))
    PROVE  Queued(j)'
<1>1. queue \in Seq(TM!Events) /\ queue' = Append(queue, Ev(j, a))
  BY TmTyped DEF JobInv, TM!TypeOK, TM!Emit
<1>2. Len(queue) + 1 \in DOMAIN queue' /\ queue'[Len(queue) + 1] = Ev(j, a)
  BY <1>1
<1>3. Calls(Ev(j, a), j)
  BY DEF Calls, Ev
<1>4. QED
  BY <1>2, <1>3 DEF Queued, Calls

(* Docker and its analyser.                                                *)
LEMMA DockerKept ==
    ASSUME JobInv, UNCHANGED <<tmVars, body, row, ttl, timers, req>>, LeftMove, Docked,
           dh' \in {None} \cup [st : {"run"}, ev : DockerEvents], pend' \in [Jobs -> Nat]
    PROVE  Kept
<1>1. Callers'
  BY DEF JobInv, Callers, tmVars
<1>2. \A j : Asking(j) => Asking(j)'
  BY DEF Asking, Asks
<1>3. [TM!Next]_(TM!vars) /\ queue' = queue /\ UNCHANGED <<body, task>>
  BY DEF TM!vars, tmVars
<1>4. row' \in [Jobs -> {None} \cup Rows]
  BY DEF JobInv, Tables
<1>5. QED
  BY <1>1, <1>2, <1>3, <1>4, Elsewhere DEF Exists

LEMMA DockerRecvKept ==
    ASSUME JobInv, DockerRecv
    PROVE  Kept
<1>1. dq \in Seq(DockerEvents) /\ dq # <<>> /\ dq' = Tail(dq) /\ Head(dq) = dq[1] /\ 1 \in DOMAIN dq
  BY GoneNow DEF DockerRecv
<1>2. Head(dq) \in DockerEvents /\ dq' \in Seq(DockerEvents)
  BY <1>1
<1>3. \A n \in DOMAIN dq' : n + 1 \in DOMAIN dq /\ dq'[n] = dq[n + 1]
  BY <1>1
<1>4. LeftMove /\ left'.made = left.made /\ UNCHANGED cont
  BY SameLeft DEF DockerRecv
<1>5. \A n \in DOMAIN dq' : dq'[n].type = "destroy" =>
          dq'[n].id <= left'.made /\ cont'[dq'[n].id] = None
  BY <1>3, <1>4, GoneNow
<1>6. /\ proc' \in [Conts -> {None} \cup Instances]
      /\ \A h \in Conts : proc[h] = None => proc'[h] = None
  BY RowGone DEF DockerRecv, JobInv, Tables
<1>7. Docked
  BY <1>2, <1>4, <1>5, <1>6, GoneNow DEF Docked, Gone, JobInv, Tables
<1>8. dh' \in {None} \cup [st : {"run"}, ev : DockerEvents]
  BY <1>2 DEF DockerRecv
<1>9. pend' \in [Jobs -> Nat]
  <2>1. pend \in [Jobs -> Nat]
    BY DEF JobInv, Callers
  <2>2. Head(dq).job \in Jobs
    BY <1>2 DEF DockerEvents
  <2>3. QED
    BY <2>1, <2>2 DEF DockerRecv
<1>10. QED
  BY <1>4, <1>7, <1>8, <1>9, DockerKept DEF DockerRecv

(* A row rewritten from docker.                                            *)
LEMMA RowSynced ==
    ASSUME JobInv, DockerSync
    PROVE  /\ proc' \in [Conts -> {None} \cup Instances]
           /\ \A h \in Conts : proc[h] = None <=> proc'[h] = None
           /\ \A h \in Conts : proc'[h] = proc[h] \/
                 /\ cont[h] # None /\ proc'[h].st = cont[h].st /\ proc'[h].job = proc[h].job
<1>1. dh.ev.id \in Conts
  BY DEF JobInv, Tables, DockerSync, DockerEvents
<1>2. PICK i \in Conts : i = dh.ev.id
  BY <1>1
<1>3. CASE Present(i) /\ proc[i] # None
  <2>1. cont[i] \in Instances /\ proc[i] \in Instances
    BY <1>3 DEF JobInv, Tables, Present
  <2>2. PICK p : p = [proc[i] EXCEPT !.st = cont[i].st]
    OBVIOUS
  <2>3. p \in Instances /\ p.st = cont[i].st /\ p.job = proc[i].job
    BY <2>1, <2>2 DEF Instances
  <2>4. p # None
    BY <2>3 DEF Instances, None
  <2>5. proc' = [proc EXCEPT ![i] = p]
    BY <1>2, <1>3, <2>2 DEF DockerSync
  <2>6. QED
    BY <1>3, <2>3, <2>4, <2>5 DEF JobInv, Tables, Present
<1>4. CASE ~(Present(i) /\ proc[i] # None)
  <2>1. proc' = proc
    BY <1>2, <1>4 DEF DockerSync
  <2>2. QED
    BY <2>1 DEF JobInv, Tables
<1>5. QED
  BY <1>3, <1>4

LEMMA DockerSyncKept ==
    ASSUME JobInv, DockerSync
    PROVE  Kept
<1>1. LeftMove /\ left'.made = left.made /\ dh' = None /\ UNCHANGED <<cont, dq, pend>>
  BY SameLeft DEF DockerSync, dockerVars
<1>2. Docked
  BY <1>1, RowSynced, GoneNow DEF Docked, Gone, JobInv, Tables
<1>3. pend' \in [Jobs -> Nat]
  BY <1>1 DEF JobInv, Callers
<1>4. QED
  BY <1>1, <1>2, <1>3, DockerKept DEF DockerSync

LEMMA ExitKept ==
    ASSUME JobInv, NEW i \in Conts, Exit(i)
    PROVE  Kept
<1>1. PICK st \in {"created", "up", "ok", "bad"} : EndCont(i, st)
  BY DEF Exit
<1>2. LeftMove /\ left'.made = left.made
  BY SameLeft, SpentFail DEF Exit
<1>3. PICK c \in Instances, evs \in Seq(DockerEvents) : Told(i, c, evs)
  BY <1>1, EndTold DEF Exit
<1>4. Docked
  BY <1>2, <1>3, ToldDocked DEF Exit, JobInv, Tables, dbVars
<1>5. dh' \in {None} \cup [st : {"run"}, ev : DockerEvents] /\ pend' \in [Jobs -> Nat]
  BY DEF Exit, JobInv, Tables, Callers, analyserVars
<1>6. QED
  BY <1>2, <1>4, <1>5, DockerKept DEF Exit, dbVars

LEMMA DockerEmitKept ==
    ASSUME JobInv, NEW j \in Jobs, DockerEmit(j)
    PROVE  Kept
<1>1. LeftMove /\ Docked
  BY SameLeft, SameDock DEF DockerEmit, dbVars
<1>2. UNCHANGED <<loop, tasks, task>> /\ \E ev : queue' = Append(queue, ev)
  BY DEF DockerEmit, TM!Emit
<1>3. [TM!Next]_(TM!vars)
  BY EmittedDie DEF DockerEmit, TM!Next
<1>4. pend' \in [Jobs -> Nat]
  BY DEF DockerEmit, JobInv, Callers
<1>5. Callers'
  BY <1>2, <1>4 DEF DockerEmit, JobInv, Callers
<1>6. \A h : Asking(h) => Asking(h)'
  BY DEF Asking, Asks, DockerEmit
<1>7. UNCHANGED <<row, body, dh>> /\ row' \in [Jobs -> {None} \cup Rows]
      /\ dh' \in {None} \cup [st : {"run"}, ev : DockerEvents]
  BY DEF DockerEmit, dbVars, JobInv, Tables
<1>8. QED
  BY <1>1, <1>2, <1>3, <1>5, <1>6, <1>7, Elsewhere DEF Exists

-----------------------------------------------------------------------------
(* job_ttl.                                                                *)
LEMMA TtlKept ==
    ASSUME JobInv, UNCHANGED <<proc, body, dockerVars, analyserVars, req, left>>,
           timers' \subseteq Jobs, row' \in [Jobs -> {None} \cup Rows],
           \A j \in Jobs : Exists(j)' /\ row'[j].actual \in Transitional => row'[j] = row[j],
           \/ TM!HandlerDone /\ ttl' = None
           \/ /\ UNCHANGED tmVars \/ \E j \in Jobs : TM!Emit(Ev(j, "Other"))
              /\ loop.pc = "busy"
              /\ ttl' \in [st : {"run"}, to : {"count", "Fail", "Finish", "done"}]
    PROVE  Kept
<1>1. LeftMove /\ Docked
  BY SameLeft, SameDock
<1>2. UNCHANGED task /\ (queue' = queue \/ \E ev : queue' = Append(queue, ev))
  BY DEF TM!HandlerDone, TM!Emit, tmVars
<1>3. [TM!Next]_(TM!vars)
  BY Emitted DEF TM!Next, TM!LoopStep, TM!vars, tmVars
<1>4. ttl' # None => loop' = loop /\ loop.pc = "busy"
  BY DEF TM!Emit, tmVars
<1>5. Callers'
  BY <1>4 DEF JobInv, Callers, analyserVars
<1>6. \A h : Asking(h) => Asking(h)'
  BY DEF Asking, Asks
<1>7. dh' \in {None} \cup [st : {"run"}, ev : DockerEvents]
  BY DEF analyserVars, JobInv, Tables
<1>8. QED
  BY <1>1, <1>2, <1>3, <1>5, <1>6, <1>7, Elsewhere DEF Exists

LEMMA TtlReadKept ==
    ASSUME JobInv, TtlRead
    PROVE  Kept
<1>1. timers' \subseteq Jobs /\ row' = row /\ row' \in [Jobs -> {None} \cup Rows]
  BY DEF TtlRead, JobInv, Callers, Tables, dbVars
<1>2. QED
  BY <1>1, TtlKept DEF TtlRead, dbVars

LEMMA TtlBusy ==
    ASSUME JobInv, ttl # None
    PROVE  /\ loop.pc = "busy" /\ loop.ev.obj[2] \in Jobs
           /\ ttl \in [st : {"run"}, to : {"count", "Fail", "Finish", "done"}]
BY TmTyped, TtlJob DEF JobInv, Callers

LEMMA TtlCountKept ==
    ASSUME JobInv, TtlCount
    PROVE  Kept
<1>1. timers' \subseteq Jobs /\ row' = row /\ row' \in [Jobs -> {None} \cup Rows]
  BY DEF TtlCount, JobInv, Callers, Tables, dbVars
<1>2. loop.pc = "busy" /\ ttl \in [st : {"run"}, to : {"count", "Fail", "Finish", "done"}]
  BY TtlBusy DEF TtlCount
<1>3. CASE TM!HandlerDone /\ ttl' = None
  BY <1>1, <1>3, TtlKept DEF TtlCount, dbVars
<1>4. CASE UNCHANGED tmVars /\ \E to \in {"Fail", "Finish"} : ttl' = [ttl EXCEPT !.to = to]
  <2>1. ttl' \in [st : {"run"}, to : {"count", "Fail", "Finish", "done"}]
    BY <1>2, <1>4
  <2>2. QED
    BY <1>1, <1>2, <1>4, <2>1, TtlKept DEF TtlCount, dbVars
<1>5. QED
  BY <1>3, <1>4 DEF TtlCount

LEMMA TtlWriteKept ==
    ASSUME JobInv, TtlWrite
    PROVE  Kept
<1>1. timers' \subseteq Jobs
  BY DEF TtlWrite, JobInv, Callers
<1>2. PICK j \in Jobs : j = loop.ev.obj[2]
  BY TtlBusy DEF TtlWrite
<1>3. loop.pc = "busy" /\ ttl \in [st : {"run"}, to : {"count", "Fail", "Finish", "done"}]
  BY TtlBusy DEF TtlWrite
<1>4. CASE TM!HandlerDone /\ ttl' = None /\ UNCHANGED row
  <2>1. row' \in [Jobs -> {None} \cup Rows]
    BY <1>4 DEF JobInv, Tables
  <2>2. QED
    BY <1>1, <1>4, <2>1, TtlKept DEF TtlWrite
<1>5. CASE /\ Exists(j) /\ row' = SetActual(j, ttl.to)
           /\ TM!Emit(Ev(j, "Other")) /\ ttl' = [ttl EXCEPT !.to = "done"]
  <2>1. PICK st \in {"Finish", "Fail"} : st = ttl.to
    BY DEF TtlWrite
  <2>2. PICK r \in Rows : r.actual = st /\ row' = [row EXCEPT ![j] = r]
    BY <1>5, <2>1, ActualRow
  <2>3. /\ row' \in [Jobs -> {None} \cup Rows]
        /\ \A h \in Jobs : Exists(h)' /\ row'[h].actual \in Transitional => row'[h] = row[h]
    BY <2>1, <2>2 DEF JobInv, Tables, Transitional
  <2>4. ttl' \in [st : {"run"}, to : {"count", "Fail", "Finish", "done"}]
    BY <1>3, <1>5
  <2>5. QED
    BY <1>1, <1>3, <1>5, <2>3, <2>4, TtlKept DEF TtlWrite
<1>6. QED
  BY <1>2, <1>4, <1>5 DEF TtlWrite

LEMMA TtlSpawnKept ==
    ASSUME JobInv, TtlSpawn
    PROVE  Kept
<1>1. timers' \subseteq Jobs
  BY TtlBusy DEF TtlSpawn, JobInv, Callers
<1>2. row' = row /\ row' \in [Jobs -> {None} \cup Rows]
  BY DEF TtlSpawn, JobInv, Tables, dbVars
<1>3. QED
  BY <1>1, <1>2, TtlKept DEF TtlSpawn, dbVars

(* Writing both columns of the status.                                     *)
LEMMA StatusRow ==
    ASSUME JobInv, NEW j \in Jobs, Exists(j), NEW wanted \in {"Finish", "Stop", "Destroy"},
           NEW st \in Transitional
    PROVE  /\ SetStatus(j, wanted, st) \in [Jobs -> {None} \cup Rows]
           /\ SetStatus(j, wanted, st)[j].actual = st
           /\ \A h \in Jobs : h # j => SetStatus(j, wanted, st)[h] = row[h]
<1>1. row[j] \in Rows
  BY DEF JobInv, Tables, Exists
<1>2. PICK r : r = [row[j] EXCEPT !.wanted = wanted, !.actual = st]
  OBVIOUS
<1>3. r \in Rows /\ r.actual = st
  BY <1>1, <1>2 DEF Rows
<1>4. SetStatus(j, wanted, st) = [row EXCEPT ![j] = r]
  BY <1>2 DEF SetStatus, JobInv, Tables
<1>5. QED
  BY <1>3, <1>4 DEF JobInv, Tables

LEMMA TtlDeleteKept ==
    ASSUME JobInv, NEW j \in Jobs, TtlDelete(j)
    PROVE  Kept
<1>1. LeftMove /\ Docked
  BY SameLeft, SameDock DEF TtlDelete
<1>2. UNCHANGED <<loop, task>> /\ (queue' = queue \/ \E ev : queue' = Append(queue, ev))
  BY DEF TtlDelete, TM!Emit, tmVars
<1>3. [TM!Next]_(TM!vars)
  BY Emitted DEF TtlDelete, TM!Next, TM!vars, tmVars, TM!TaskActions
<1>4. Callers'
  BY <1>2 DEF TtlDelete, JobInv, Callers, analyserVars
<1>5. \A h : Asking(h) => Asking(h)'
  BY DEF Asking, Asks, TtlDelete
<1>6. dh' \in {None} \cup [st : {"run"}, ev : DockerEvents]
  BY DEF TtlDelete, analyserVars, JobInv, Tables
<1>7. CASE ~Exists(j) /\ UNCHANGED row
  <2>1. row' \in [Jobs -> {None} \cup Rows]
    BY <1>7 DEF JobInv, Tables
  <2>2. QED
    BY <1>1, <1>2, <1>3, <1>4, <1>5, <1>6, <1>7, <2>1, Elsewhere DEF TtlDelete, Exists
<1>8. CASE Exists(j) /\ row' = SetStatus(j, "Destroy", "Destroying") /\ TM!Emit(Ev(j, "Destroying"))
  <2>1. /\ row' \in [Jobs -> {None} \cup Rows]
        /\ \A h \in Jobs : h # j => row'[h] = row[h]
    BY <1>8, StatusRow DEF Transitional
  <2>2. Queued(j)'
    BY <1>8, EmitQueues
  <2>3. QED
    BY <1>1, <1>2, <1>3, <1>4, <1>5, <1>6, <2>1, <2>2, Elsewhere DEF TtlDelete, Exists
<1>9. QED
  BY <1>7, <1>8 DEF TtlDelete

-----------------------------------------------------------------------------
(* The loop.                                                               *)
LEMMA Received ==
    ASSUME TM!TypeOK, TM!Receive
    PROVE  /\ Head(queue) \in TM!Events /\ 1 \in DOMAIN queue /\ Head(queue) = queue[1]
           /\ \A n \in DOMAIN queue' : n + 1 \in DOMAIN queue /\ queue'[n] = queue[n + 1]
           /\ \A j : Queued(j) => Calls(Head(queue), j) \/ Queued(j)'
<1>1. queue \in Seq(TM!Events) /\ queue # <<>> /\ queue' = Tail(queue)
  BY DEF TM!TypeOK, TM!Receive
<1>2. Head(queue) \in TM!Events /\ 1 \in DOMAIN queue /\ Head(queue) = queue[1]
  BY <1>1
<1>3. /\ \A n \in DOMAIN queue' : n + 1 \in DOMAIN queue /\ queue'[n] = queue[n + 1]
      /\ \A n \in DOMAIN queue : n # 1 => n - 1 \in DOMAIN queue' /\ queue'[n - 1] = queue[n]
  BY <1>1
<1>4. ASSUME NEW j, NEW n \in DOMAIN queue, Calls(queue[n], j)
      PROVE  Calls(Head(queue), j) \/ Queued(j)'
  <2>1. CASE n = 1
    BY <1>2, <1>4, <2>1
  <2>2. CASE n # 1
    <3>1. n - 1 \in DOMAIN queue' /\ Calls(queue'[n - 1], j)
      BY <1>3, <1>4, <2>2
    <3>2. QED
      BY <3>1 DEF Queued, Calls
  <2>3. QED
    BY <2>1, <2>2
<1>5. QED
  BY <1>2, <1>3, <1>4 DEF Queued

(* What happens to task s when the event ev of a job is received: nothing, *)
(* it is aborted, or it is the task created for ev.                        *)
Stays(s) == task'[s] = task[s] /\ body'[s] = body[s]

Hit(s, ev) == ev.action = "Destroying" /\ task[s].ev.obj = ev.obj

Aborts(s, ev) == Hit(s, ev) /\ task'[s] = TM!Done /\ body'[s] = None

Created(s, ev) ==
    /\ ev.action \in {"Starting", "Stopping", "Destroying"}
    /\ task[s] = TM!Done \/ Hit(s, ev)
    /\ task'[s] = TM!Running(ev, "body") /\ body'[s] = None

LEMMA RecvMoves ==
    ASSUME JobInv, LoopRecv, NEW ev \in TM!Events, ev = Head(queue)
    PROVE  /\ ev.obj \in Jobs /\ loop' = TM!Idle
           /\ \/ /\ ev.action \notin {"Starting", "Stopping", "Destroying"}
                 /\ \A s \in TaskIds : Stays(s)
              \/ \E t \in TaskIds : /\ Created(t, ev)
                                    /\ \A s \in TaskIds : s # t => Stays(s) \/ Aborts(s, ev)
<1>1. TM!TypeOK /\ TM!RecvJob /\ ev.obj \in Jobs /\ loop' = TM!Idle
  BY TmTyped DEF JobInv, LoopRecv, TM!RecvJob, TM!Dispatch
<1>2. PICK f : f = IF ev.action = "Destroying" THEN TM!Aborted(ev.obj) ELSE task
  OBVIOUS
<1>3. \E m : TM!Dispatch(ev, m, f)
  BY <1>1, <1>2 DEF TM!RecvJob
<1>4. /\ \A s \in TaskIds : body'[s] = IF ev.action = "Destroying" /\ s = tasks[ev.obj]
                                         THEN None ELSE body[s]
  BY DEF LoopRecv
<1>5. /\ f \in [TaskIds -> TM!TaskStates]
      /\ \A s \in TaskIds : \/ f[s] = task[s] /\ body'[s] = body[s]
                            \/ f[s] = TM!Done /\ body'[s] = None /\ Hit(s, ev)
  <2>1. CASE ev.action # "Destroying"
    BY <1>1, <1>2, <1>4, <2>1 DEF TM!TypeOK
  <2>2. CASE ev.action = "Destroying"
    <3>1. f = [s \in TaskIds |-> IF s = tasks[ev.obj] THEN TM!Done ELSE task[s]]
      BY <1>2, <2>2 DEF TM!Aborted
    <3>2. f \in [TaskIds -> TM!TaskStates]
      BY <1>1, <3>1 DEF TM!TypeOK, TM!TaskStates
    <3>3. ASSUME NEW s \in TaskIds, s = tasks[ev.obj]
          PROVE  Hit(s, ev)
      <4>1. tasks[ev.obj] # NoTask
        BY <3>3, TmAssumption
      <4>2. task[s].ev.obj = ev.obj
        BY <1>1, <3>3, <4>1 DEF JobInv, TMP!IInv, TMP!MapTracksBodies, TMP!Body, TMP!Objects
      <4>3. QED
        BY <2>2, <4>2 DEF Hit
    <3>4. QED
      BY <1>4, <2>2, <3>1, <3>2, <3>3
  <2>3. QED
    BY <2>1, <2>2
<1>6. CASE ~TM!CreatesTask(ev)
  <2>1. ev.action \notin {"Starting", "Stopping", "Destroying"}
    BY <1>1, <1>6 DEF TM!CreatesTask, TM!Objects, TM!TaskActions
  <2>2. task' = task
    BY <1>2, <1>3, <1>6, <2>1 DEF TM!Dispatch
  <2>3. QED
    BY <1>1, <1>4, <2>1, <2>2 DEF Stays
<1>7. CASE TM!CreatesTask(ev)
  <2>1. ev.action \in {"Starting", "Stopping", "Destroying"}
    BY <1>7 DEF TM!CreatesTask, TM!TaskActions
  <2>2. PICK t \in TaskIds : f[t] = TM!Done /\ task' = [f EXCEPT ![t] = TM!Running(ev, "body")]
    BY <1>3, <1>7 DEF TM!Dispatch, TM!AddTask
  <2>3. task'[t] = TM!Running(ev, "body") /\ \A s \in TaskIds : s # t => task'[s] = f[s]
    BY <1>5, <2>2
  <2>4. Created(t, ev)
    <3>1. CASE f[t] = task[t] /\ body'[t] = body[t]
      <4>1. body[t] = None
        BY <2>2, <3>1 DEF JobInv, Locals, TM!Done
      <4>2. QED
        BY <2>1, <2>2, <2>3, <3>1, <4>1 DEF Created
    <3>2. CASE Hit(t, ev) /\ body'[t] = None
      BY <2>1, <2>3, <3>2 DEF Created
    <3>3. QED
      BY <1>5, <3>1, <3>2
  <2>5. \A s \in TaskIds : s # t => Stays(s) \/ Aborts(s, ev)
    BY <1>5, <2>3 DEF Stays, Aborts
  <2>6. QED
    BY <1>1, <2>4, <2>5
<1>8. QED
  BY <1>6, <1>7

LEMMA LoopRecvKept ==
    ASSUME JobInv, LoopRecv
    PROVE  Kept
<1>1. TM!TypeOK /\ TM!Receive /\ loop.pc = "recv"
  BY TmTyped DEF JobInv, LoopRecv, TM!RecvJob, TM!Receive, TM!Idle
<1>2. PICK ev \in TM!Events : ev = Head(queue)
  BY <1>1, Received
<1>3. [TM!Next]_(TM!vars)
  BY DEF LoopRecv, TM!Next, TM!LoopStep
<1>4. TMP!IInv'
  BY <1>3, TmKept DEF JobInv
<1>5. LeftMove /\ left'.made = left.made /\ Docked /\ Apart /\ UNCHANGED row
  BY SameLeft, SameDock DEF LoopRecv, dbVars, Apart, analyserVars
<1>6. Tables'
  BY <1>5 DEF JobInv, Tables, Docked, Apart
<1>7. Callers'
  <2>1. ttl = None
    BY <1>1 DEF JobInv, Callers
  <2>2. QED
    BY <1>5, <2>1 DEF JobInv, Callers, Apart
<1>8. Locals'
  <2>1. ASSUME NEW s \in TaskIds
        PROVE  body'[s] \in {None} \cup Frames /\
               (body'[s] # None => GoodFrame(body'[s], left'.made) /\ task'[s].phase = "body")
    <3>1. Stays(s) \/ body'[s] = None
      BY <1>2, RecvMoves DEF Created, Aborts
    <3>2. QED
      BY <1>5, <3>1 DEF Stays, JobInv, Locals
  <2>2. body' \in [TaskIds -> {None} \cup Frames]
    <3>1. body' = [t \in TaskIds |-> body'[t]]
      BY DEF LoopRecv
    <3>2. QED
      BY <2>1, <3>1
  <2>3. QED
    BY <2>1, <2>2 DEF Locals
<1>9. ASSUME NEW t \in TaskIds, Created(t, ev)
      PROVE  Working(ev.obj)'
  BY <1>9 DEF Created, Working, Works, TM!Running, TM!Done, Unwritten
<1>10. ASSUME NEW j \in Jobs, Exists(j)', row'[j].actual \in Transitional
      PROVE  Asking(j)' \/ Queued(j)' \/ Working(j)'
  <2>1. Asking(j) \/ Queued(j) \/ Working(j)
    BY <1>5, <1>10 DEF JobInv, Closing, Exists
  <2>2. CASE Asking(j)
    BY <1>5, <2>2 DEF Asking, Asks, Apart
  <2>3. CASE Queued(j)
    <3>1. CASE Calls(ev, j)
      <4>1. ev.action \in {"Starting", "Stopping", "Destroying"} /\ ev.obj = j
        BY <3>1 DEF Calls
      <4>2. QED
        BY <1>2, <1>9, <4>1, RecvMoves
    <3>2. QED
      BY <1>1, <1>2, <2>3, <3>1, Received
  <2>4. ASSUME NEW s \in TaskIds, Works(s, j)
        PROVE  Working(j)'
    <3>1. CASE Stays(s)
      BY <2>4, <3>1 DEF Stays, Working, Works, Unwritten
    <3>2. CASE ~Stays(s)
      <4>1. PICK t \in TaskIds : Created(t, ev) /\ \A r \in TaskIds : r # t => Stays(r) \/ Aborts(r, ev)
        BY <1>2, <3>2, RecvMoves
      <4>2. ev.obj = j
        BY <2>4, <3>2, <4>1 DEF Works, Created, Aborts, Hit
      <4>3. QED
        BY <1>9, <4>1, <4>2
    <3>3. QED
      BY <3>1, <3>2
  <2>5. QED
    BY <2>1, <2>2, <2>3, <2>4 DEF Working
<1>11. Closing'
  BY <1>10 DEF Closing
<1>12. QED
  BY <1>3, <1>4, <1>5, <1>6, <1>7, <1>8, <1>11 DEF Kept, JobInv, LeftMove, Docked

LEMMA LoopDieKept ==
    ASSUME JobInv, LoopDie
    PROVE  Kept
<1>1. TM!TypeOK /\ TM!RecvSource /\ TM!Receive /\ loop.pc = "recv" /\ UNCHANGED task
  BY TmTyped DEF JobInv, LoopDie, TM!RecvSource, TM!Receive, TM!Idle
<1>2. [TM!Next]_(TM!vars)
  BY <1>1 DEF TM!Next, TM!LoopStep
<1>3. TMP!IInv'
  BY <1>2, TmKept DEF JobInv
<1>4. LeftMove /\ left'.made = left.made /\ Docked /\ Apart /\ UNCHANGED <<row, body>>
  BY SameLeft, SameDock DEF LoopDie, dbVars, Apart, analyserVars
<1>5. Tables' /\ Locals'
  BY <1>1, <1>4 DEF JobInv, Tables, Docked, Apart, Locals
<1>6. Callers'
  <2>1. ttl = None
    BY <1>1 DEF JobInv, Callers
  <2>2. QED
    BY <1>4, <2>1 DEF JobInv, Callers, Apart
<1>7. ASSUME NEW j \in Jobs, Exists(j)', row'[j].actual \in Transitional
      PROVE  Asking(j)' \/ Queued(j)' \/ Working(j)'
  <2>1. Asking(j) \/ Queued(j) \/ Working(j)
    BY <1>4, <1>7 DEF JobInv, Closing, Exists
  <2>2. CASE Asking(j)
    BY <1>4, <2>2 DEF Asking, Asks, Apart
  <2>3. ~Calls(Head(queue), j)
    BY <1>1, TmAssumption DEF TM!RecvSource, Calls
  <2>4. CASE Queued(j)
    BY <1>1, <2>3, <2>4, Received
  <2>5. CASE Working(j)
    BY <1>1, <1>4, <2>5 DEF Working, Works, Unwritten
  <2>6. QED
    BY <2>1, <2>2, <2>4, <2>5
<1>8. Closing'
  BY <1>7 DEF Closing
<1>9. QED
  BY <1>2, <1>3, <1>4, <1>5, <1>6, <1>8 DEF Kept, JobInv, LeftMove, Docked

-----------------------------------------------------------------------------
(* Requests.  One that begins is counted.                                  *)
LEMMA Begun ==
    ASSUME JobInv, NEW k \in Clients, NEW op, Begin(k, op)
    PROVE  /\ LeftMove /\ left'.made = left.made /\ req[k] = None
           /\ left'.starts = IF op = "start" THEN left.starts - 1 ELSE left.starts
           /\ op = "start" => left.starts > 0
<1>1. left.reqs \in Nat /\ left.reqs > 0 /\ left.starts \in Nat /\ (op = "start" => left.starts > 0)
  BY DEF JobInv, Bounds, Begin
<1>2. PICK n \in Nat : n = IF op = "start" THEN left.starts - 1 ELSE left.starts
  BY <1>1
<1>3. left' = [left EXCEPT !.reqs = left.reqs - 1, !.starts = n]
  BY <1>2 DEF Begin
<1>4. left.reqs - 1 \in Nat
  BY <1>1
<1>5. /\ Bounds' /\ left'.w = left.w /\ left'.made = left.made /\ left'.starts = n
  BY <1>3, <1>4 DEF JobInv, Bounds
<1>6. left'.made >= left.made
  BY <1>5, GoneNow
<1>7. QED
  BY <1>1, <1>2, <1>5, <1>6 DEF LeftMove, Begin

(* A step of the request of k: everybody else's stays.                     *)
LEMMA Serves ==
    ASSUME JobInv, NEW k \in Clients, NEW q \in {None} \cup Requests,
           req' = [req EXCEPT ![k] = q],
           UNCHANGED <<loop, task, proc, body, ttl, timers, dockerVars, analyserVars>>,
           [TM!Next]_(TM!vars), queue' = queue \/ \E ev : queue' = Append(queue, ev),
           LeftMove, left'.made = left.made, row' \in [Jobs -> {None} \cup Rows],
           \A j \in Jobs : Exists(j)' /\ row'[j].actual \in Transitional =>
               \/ Exists(j) /\ row[j].actual \in Transitional /\ ~Asks(k, j)
               \/ Asks(k, j)' \/ Queued(j)'
    PROVE  Kept
<1>1. req' \in [Clients -> {None} \cup Requests]
      /\ \A c \in Clients : c # k => req'[c] = req[c]
  BY DEF JobInv, Callers
<1>2. Callers'
  BY <1>1 DEF JobInv, Callers, analyserVars
<1>3. \A j : Asking(j) /\ ~Asks(k, j) => Asking(j)'
  BY <1>1 DEF Asking, Asks
<1>4. \A j : Asks(k, j)' => Asking(j)'
  BY DEF Asking
<1>5. dh' \in {None} \cup [st : {"run"}, ev : DockerEvents]
  BY DEF JobInv, Tables, analyserVars
<1>6. Docked
  BY SameDock
<1>7. ASSUME NEW j \in Jobs, Exists(j)', row'[j].actual \in Transitional
      PROVE  \/ /\ Exists(j) /\ row[j].actual \in Transitional
                /\ Asking(j) => Asking(j)' \/ Queued(j)'
             \/ Asking(j)' \/ Queued(j)'
  BY <1>3, <1>4, <1>7
<1>8. QED
  BY <1>2, <1>5, <1>6, <1>7, Elsewhere

(* The same when the task manager is left alone.                           *)
LEMMA ServesAlone ==
    ASSUME JobInv, NEW k \in Clients, NEW q \in {None} \cup Requests,
           req' = [req EXCEPT ![k] = q],
           UNCHANGED <<tmVars, proc, body, ttl, timers, dockerVars, analyserVars>>,
           LeftMove, left'.made = left.made, row' \in [Jobs -> {None} \cup Rows],
           \A j \in Jobs : Exists(j)' /\ row'[j].actual \in Transitional =>
               \/ Exists(j) /\ row[j].actual \in Transitional /\ ~Asks(k, j)
               \/ Asks(k, j)'
    PROVE  Kept
<1>1. [TM!Next]_(TM!vars) /\ queue' = queue /\ UNCHANGED <<loop, task>>
  BY DEF TM!vars, tmVars
<1>2. QED
  BY <1>1, Serves

LEMMA RequestGoes ==
    ASSUME JobInv, NEW k \in Clients, NEW op \in {"start", "stop", "delete"}, NEW j \in Jobs,
           NEW pc \in {"write", "emit"}, Goes(k, op, j, pc)
    PROVE  \E q \in Requests : /\ q.op = op /\ q.j = j /\ q.pc = pc
                               /\ req' = [req EXCEPT ![k] = q] /\ req'[k] = q
                               /\ q # None
<1>1. PICK q : q = [st |-> "run", op |-> op, j |-> j, pc |-> pc]
  OBVIOUS
<1>2. q \in Requests /\ q.op = op /\ q.j = j /\ q.pc = pc /\ q # None
  BY <1>1 DEF Requests, None
<1>3. req' = [req EXCEPT ![k] = q] /\ req'[k] = q
  BY <1>1 DEF Goes, JobInv, Callers
<1>4. QED
  BY <1>2, <1>3

LEMMA InProgress ==
    ASSUME JobInv, NEW k \in Clients, req[k] # None
    PROVE  req[k] \in Requests /\ req[k].j \in Jobs /\ req[k].op \in {"start", "stop", "delete"}
BY DEF JobInv, Callers, Requests

LEMMA CreateJobKept ==
    ASSUME JobInv, NEW k \in Clients, NEW j \in Jobs, CreateJob(k, j)
    PROVE  Kept
<1>1. LeftMove /\ left'.made = left.made /\ req[k] = None
  BY Begun DEF CreateJob
<1>2. PICK r : r = [st |-> "row", wanted |-> "Create", actual |-> "Create"]
  OBVIOUS
<1>3. r \in Rows /\ r.actual \notin Transitional
  BY <1>2 DEF Rows, Transitional
<1>4. /\ row' \in [Jobs -> {None} \cup Rows]
      /\ row'[j] = r /\ \A h \in Jobs : h # j => row'[h] = row[h]
  BY <1>2, <1>3 DEF CreateJob, JobInv, Tables
<1>5. req' = [req EXCEPT ![k] = None] /\ \A h \in Jobs : ~Asks(k, h)
  BY <1>1 DEF CreateJob, JobInv, Callers, Asks
<1>6. UNCHANGED <<loop, task>> /\ \E ev : queue' = Append(queue, ev)
  BY DEF CreateJob, TM!Emit
<1>7. [TM!Next]_(TM!vars)
  BY Emitted DEF CreateJob, TM!Next
<1>8. PICK q \in {None} \cup Requests : q = None
  OBVIOUS
<1>9. ASSUME NEW h \in Jobs, Exists(h)', row'[h].actual \in Transitional
      PROVE  Exists(h) /\ row[h].actual \in Transitional /\ ~Asks(k, h)
  BY <1>3, <1>4, <1>5, <1>9 DEF Exists
<1>10. QED
  BY <1>1, <1>4, <1>5, <1>6, <1>7, <1>8, <1>9, Serves DEF CreateJob

(* A status write that the request follows with its event.                 *)
LEMMA AskKept ==
    ASSUME JobInv, NEW k \in Clients, NEW j \in Jobs, Exists(j),
           NEW op \in {"start", "stop", "delete"}, NEW wanted \in {"Finish", "Stop", "Destroy"},
           NEW st \in Transitional, row' = SetStatus(j, wanted, st), Goes(k, op, j, "emit"),
           UNCHANGED <<tmVars, proc, body, ttl, timers, dockerVars, analyserVars>>,
           LeftMove, left'.made = left.made, \A h \in Jobs : h # j => ~Asks(k, h)
    PROVE  Kept
<1>1. row' \in [Jobs -> {None} \cup Rows] /\ \A h \in Jobs : h # j => row'[h] = row[h]
  BY StatusRow
<1>2. PICK q \in Requests : /\ q.op = op /\ q.j = j /\ q.pc = "emit"
                            /\ req' = [req EXCEPT ![k] = q] /\ req'[k] = q /\ q # None
  BY RequestGoes
<1>3. Asks(k, j)'
  BY <1>2 DEF Asks
<1>4. QED
  BY <1>1, <1>2, <1>3, ServesAlone DEF Exists

LEMMA StartJobKept ==
    ASSUME JobInv, NEW k \in Clients, NEW j \in Jobs, StartJob(k, j)
    PROVE  Kept
<1>1. LeftMove /\ left'.made = left.made /\ req[k] = None
  BY Begun DEF StartJob
<1>2. \A h \in Jobs : ~Asks(k, h)
  BY <1>1 DEF Asks
<1>3. QED
  BY <1>1, <1>2, AskKept DEF StartJob, Transitional

(* A request that waits for its status write.                              *)
LEMMA WaitsKept ==
    ASSUME JobInv, NEW k \in Clients, NEW op, Begin(k, op), NEW q \in {None} \cup Requests,
           req' = [req EXCEPT ![k] = q],
           UNCHANGED <<tmVars, dbVars, body, ttl, timers, dockerVars, analyserVars>>
    PROVE  Kept
<1>1. LeftMove /\ left'.made = left.made /\ req[k] = None
  BY Begun
<1>2. \A h \in Jobs : ~Asks(k, h)
  BY <1>1 DEF Asks
<1>3. row' \in [Jobs -> {None} \cup Rows] /\ row' = row /\ proc' = proc
  BY DEF dbVars, JobInv, Tables
<1>4. QED
  BY <1>1, <1>2, <1>3, ServesAlone DEF Exists

LEMMA StopJobKept ==
    ASSUME JobInv, NEW k \in Clients, NEW j \in Jobs, StopJob(k, j)
    PROVE  Kept
<1>1. Begin(k, "stop") /\ req[k] = None
  BY Begun DEF StopJob
<1>2. CASE UNCHANGED req
  <2>1. req' = [req EXCEPT ![k] = None]
    BY <1>1, <1>2 DEF JobInv, Callers
  <2>2. PICK q \in {None} \cup Requests : q = None
    OBVIOUS
  <2>3. QED
    BY <1>1, <2>1, <2>2, WaitsKept DEF StopJob
<1>3. CASE Goes(k, "stop", j, "write")
  <2>1. PICK q \in Requests : req' = [req EXCEPT ![k] = q]
    BY <1>3, RequestGoes
  <2>2. QED
    BY <1>1, <2>1, WaitsKept DEF StopJob
<1>4. QED
  BY <1>2, <1>3 DEF StopJob

LEMMA DeleteJobKept ==
    ASSUME JobInv, NEW k \in Clients, NEW j \in Jobs, DeleteJob(k, j)
    PROVE  Kept
<1>1. PICK q \in Requests : req' = [req EXCEPT ![k] = q]
  BY RequestGoes DEF DeleteJob
<1>2. QED
  BY <1>1, WaitsKept DEF DeleteJob

LEMMA WriteStatusKept ==
    ASSUME JobInv, NEW k \in Clients, WriteStatus(k)
    PROVE  Kept
<1>1. LeftMove /\ left'.made = left.made
  BY SameLeft DEF WriteStatus
<1>2. req[k].j \in Jobs /\ req[k].op \in {"start", "stop", "delete"} /\ req[k].pc = "write"
  BY InProgress DEF WriteStatus
<1>3. \A h \in Jobs : ~Asks(k, h)
  BY <1>2 DEF Asks
<1>4. PICK j \in Jobs : j = req[k].j
  BY <1>2
<1>5. CASE req' = [req EXCEPT ![k] = None] /\ UNCHANGED row
  <2>1. PICK q \in {None} \cup Requests : q = None
    OBVIOUS
  <2>2. row' \in [Jobs -> {None} \cup Rows]
    BY <1>5 DEF JobInv, Tables
  <2>3. QED
    BY <1>1, <1>3, <1>5, <2>1, <2>2, ServesAlone DEF WriteStatus, Exists
<1>6. CASE /\ Exists(j)
           /\ row' = IF req[k].op = "stop" THEN SetStatus(j, "Stop", "Stopping")
                                           ELSE SetStatus(j, "Destroy", "Destroying")
           /\ Goes(k, req[k].op, j, "emit")
  <2>1. PICK wanted \in {"Finish", "Stop", "Destroy"}, st \in Transitional :
            row' = SetStatus(j, wanted, st)
    BY <1>6 DEF Transitional
  <2>2. PICK op \in {"start", "stop", "delete"} : op = req[k].op
    BY <1>2
  <2>3. QED
    BY <1>1, <1>3, <1>6, <2>1, <2>2, AskKept DEF WriteStatus
<1>7. QED
  BY <1>4, <1>5, <1>6 DEF WriteStatus

LEMMA EmitRequestKept ==
    ASSUME JobInv, NEW k \in Clients, EmitRequest(k)
    PROVE  Kept
<1>1. LeftMove /\ left'.made = left.made
  BY SameLeft DEF EmitRequest
<1>2. req[k].j \in Jobs /\ req[k].op \in {"start", "stop", "delete"}
  BY InProgress DEF EmitRequest
<1>3. PICK j \in Jobs : j = req[k].j
  BY <1>2
<1>4. \A h \in Jobs : Asks(k, h) => h = j
  BY <1>3 DEF Asks
<1>5. row' \in [Jobs -> {None} \cup Rows] /\ row' = row /\ proc' = proc
  BY DEF JobInv, Tables, dbVars, EmitRequest
<1>6. PICK q \in {None} \cup Requests : q = None
  OBVIOUS
<1>7. PICK a \in {"Starting", "Stopping", "Destroying"} : a = EventOf(req[k].op)
  BY DEF EventOf
<1>8. CASE TM!Emit(Ev(j, a))
  <2>1. Queued(j)'
    BY <1>8, EmitQueues
  <2>2. UNCHANGED <<loop, task>> /\ \E ev : queue' = Append(queue, ev)
    BY <1>8 DEF TM!Emit
  <2>3. [TM!Next]_(TM!vars)
    BY <1>8, Emitted DEF TM!Next, TM!TaskActions
  <2>4. ASSUME NEW h \in Jobs, Exists(h)', row'[h].actual \in Transitional
        PROVE  (Exists(h) /\ row[h].actual \in Transitional /\ ~Asks(k, h)) \/ Queued(h)'
    BY <1>4, <1>5, <2>1, <2>4 DEF Exists
  <2>5. QED
    BY <1>1, <1>5, <1>6, <2>2, <2>3, <2>4, Serves DEF EmitRequest
<1>9. CASE ~Exists(j) /\ UNCHANGED tmVars
  <2>1. \A h \in Jobs : Asks(k, h) => ~Exists(h)
    BY <1>4, <1>9
  <2>2. QED
    BY <1>1, <1>5, <1>6, <1>9, <2>1, ServesAlone DEF EmitRequest, Exists
<1>10. QED
  BY <1>3, <1>7, <1>8, <1>9 DEF EmitRequest

-----------------------------------------------------------------------------
LEMMA StepKept ==
    ASSUME JobInv, [Next]_vars
    PROVE  Kept
<1>1. CASE UNCHANGED vars
  <2>1. UNCHANGED <<tmVars, row, proc, body, ttl, timers, req, dh, pend, dockerVars, left>>
    BY <1>1 DEF vars, dbVars, analyserVars
  <2>2. LeftMove /\ Docked
    BY <2>1, SameLeft, SameDock
  <2>3. QED
    BY <2>1, <2>2, DockerKept DEF JobInv, Tables, Callers
<1>2. CASE Next
  <2>1. ASSUME NEW k \in Clients, NewRequest(k)
        PROVE  Kept
    BY <2>1, CreateJobKept, StartJobKept, StopJobKept, DeleteJobKept DEF NewRequest
  <2>2. ASSUME NEW k \in Clients, RequestStep(k)
        PROVE  Kept
    BY <2>2, WriteStatusKept, EmitRequestKept DEF RequestStep
  <2>3. CASE TtlStep
    BY <2>3, TtlReadKept, TtlCountKept, TtlWriteKept, TtlSpawnKept DEF TtlStep
  <2>4. QED
    BY <1>2, <2>1, <2>2, <2>3, LoopRecvKept, LoopDieKept, TtlDeleteKept, DockerEmitKept,
       DockerRecvKept, DockerSyncKept, TaskStepKept, ExitKept DEF Next
<1>3. QED
  BY <1>1, <1>2

LEMMA InitHolds ==
    ASSUME Init
    PROVE  JobInv
<1>1. PICK w \in Worlds : left = [w |-> w, made |-> 0, reqs |-> w.reqs, starts |-> w.starts,
                                  fails |-> w.fails]
  BY DEF Init
<1>2. Bounds
  BY <1>1, ConstAssumption DEF Bounds
<1>3. Tables /\ Callers /\ Locals
  BY DEF Init, Tables, Callers, Locals
<1>4. Gone /\ Closing
  BY DEF Init, Gone, Closing, Exists
<1>5. TMP!IInv
  BY TmInit DEF Init
<1>6. QED
  BY <1>2, <1>3, <1>4, <1>5 DEF JobInv

LEMMA JobInvariant == Spec => []JobInv
<1>1. Init => JobInv
  BY InitHolds
<1>2. JobInv /\ [Next]_vars => JobInv'
  BY StepKept DEF Kept
<1>3. QED
  BY <1>1, <1>2, PTL DEF Spec

(* Every variable keeps its type; a task has local variables only while    *)
(* its body runs, also when Destroying aborts it, and job_ttl only while   *)
(* the loop is in it.                                                      *)
THEOREM JobTypes == Spec => []TypeOK
<1>1. JobInv => TypeOK
  BY TmTyped DEF TypeOK, JobInv, Callers, Locals
<1>2. QED
  BY <1>1, JobInvariant, PTL

(* No job stays "starting", "stopping" or "destroying" once nothing is in  *)
(* flight, although its tasks overlap and Destroying aborts one of them.   *)
THEOREM NoJobIsStuck == Spec => []JobNotStuck
<1>1. JobInv => JobNotStuck
  <2> SUFFICES ASSUME JobInv, Quiet, NEW j \in Jobs, Exists(j), row[j].actual \in Transitional
               PROVE  FALSE
    BY DEF JobNotStuck
  <2>1. ~Asking(j) /\ ~Working(j)
    BY DEF Quiet, Asking, Asks, Working, Works
  <2>2. ~Queued(j)
    BY DEF Quiet, Queued
  <2>3. QED
    BY <2>1, <2>2 DEF JobInv, Closing
<1>2. QED
  BY <1>1, JobInvariant, PTL

(* Jobs drive the event loop the way TaskManager says: the requests, the   *)
(* tasks, job_ttl in the loop, its sleeps and the analyser only take steps *)
(* of TaskManager, an abort drops the future the map points at.            *)
THEOREM JobsImplementTaskManager == Spec => TM!Spec
<1>1. Init => TM!Init
  BY DEF Init
<1>2. JobInv /\ [Next]_vars => [TM!Next]_(TM!vars)
  BY StepKept DEF Kept
<1>3. QED
  BY <1>1, <1>2, JobInvariant, PTL DEF Spec, TM!Spec

-----------------------------------------------------------------------------
(* A single start.  Where it is: not asked for yet, in the request of k,   *)
(* at n in the channel, or in the task t.                                  *)
Asked(k) == req[k] # None /\ req[k].op = "start"

Sent(n) == queue[n].action = "Starting"

Runs(t) == task[t].phase = "body" /\ task[t].ev.action = "Starting"

OneStart ==
    /\ left.starts <= 1
    /\ left.starts = 1 => /\ \A k \in Clients : ~Asked(k)
                          /\ \A n \in DOMAIN queue : ~Sent(n)
                          /\ \A t \in TaskIds : ~Runs(t)
    /\ \A k \in Clients : Asked(k) => /\ \A h \in Clients : Asked(h) => h = k
                                      /\ \A n \in DOMAIN queue : ~Sent(n)
                                      /\ \A t \in TaskIds : ~Runs(t)
    /\ \A n \in DOMAIN queue : Sent(n) => /\ \A m \in DOMAIN queue : Sent(m) => m = n
                                          /\ \A t \in TaskIds : ~Runs(t)
    /\ \A t, s \in TaskIds : Runs(t) /\ Runs(s) => s = t

(* The start is still to read the job.                                     *)
Ahead ==
    \/ left.starts = 1
    \/ \E k \in Clients : Asked(k)
    \/ \E n \in DOMAIN queue : Sent(n)
    \/ \E t \in TaskIds : Runs(t) /\ body[t] = None

(* No container ran: docker only tells of containers that are gone, and    *)
(* job_ttl has not been called.                                            *)
Untouched ==
    /\ \A i \in Conts : cont[i] # None => cont[i].st = "created"
    /\ \A n \in DOMAIN dq : dq[n].type = "destroy"
    /\ dh = None
    /\ \A j \in Jobs : pend[j] = 0 /\ (Exists(j) => row[j].actual # "Finish")
    /\ \A n \in DOMAIN queue : queue[n].action # "Long"
    /\ loop.pc # "busy"

Up(i) == cont[i] # None /\ cont[i].st = "up"

(* The start task t: nothing runs while it creates its containers, each    *)
(* has its row before the next is made, and only the one it waits for is   *)
(* up.                                                                     *)
Launch(t) ==
    /\ body[t].pc \in {"create", "insert", "status"} => Untouched
    /\ \A i \in Conts : cont[i] # None =>
          \/ proc[i] # None
          \/ body[t].pc = "insert" /\ i = body[t].cur
    /\ \A i \in Conts : body[t].pc = "insert" /\ i = body[t].cur /\ cont[i] # None =>
          cont[i].job = Obj(t)
    /\ \A i \in body[t].todo : cont[i] = None \/ cont[i].st = "created"
    /\ \A i \in Conts : Up(i) => body[t].pc = "wait" /\ i = body[t].cur

Rowed == \A i \in Conts : cont[i] # None => proc[i] # None

(* A row is of the job of its container, and never ahead of it.            *)
Agree ==
    \A i \in Conts : proc[i] # None /\ cont[i] # None =>
        proc[i].job = cont[i].job /\ (proc[i].st = "ok" => cont[i].st = "ok")

AllOk(j) == \A i \in Conts : cont[i] # None /\ cont[i].job = j => cont[i].st = "ok"

Deciding(j) == ttl # None /\ ttl.to = "Finish" /\ loop.ev.obj[2] = j

Finished(j) == Exists(j) /\ row[j].actual = "Finish"

Single ==
    /\ OneStart
    /\ Ahead => Untouched /\ \A i \in Conts : cont[i] = None
    /\ \A t \in TaskIds : Runs(t) /\ body[t] # None => Launch(t)
    /\ Untouched \/ Rowed
    /\ \A a, b \in Conts : Up(a) /\ Up(b) => a = b
    /\ Agree
    /\ \A j \in Jobs : Deciding(j) \/ Finished(j) => AllOk(j)

(* A step in which containers at most end or go, and rows follow them.     *)
Fades ==
    /\ \A i \in Conts : cont'[i] # None =>
          /\ cont[i] # None /\ cont'[i].job = cont[i].job
          /\ cont'[i].st = cont[i].st \/ (cont[i].st = "up" /\ cont'[i].st \in {"ok", "bad"})
    /\ \A i \in Conts :
          \/ proc'[i] = proc[i]
          \/ proc'[i] = None /\ cont'[i] = None
          \/ /\ proc[i] # None /\ proc'[i] # None /\ cont'[i] = cont[i]
             /\ proc'[i].st = cont[i].st /\ proc'[i].job = proc[i].job

(* A step that moves the start nowhere, except perhaps out of existence.   *)
Shrinks ==
    /\ left'.starts = left.starts
    /\ \A k \in Clients : Asked(k)' => Asked(k)
    /\ \A n \in DOMAIN queue' : Sent(n)' => n \in DOMAIN queue /\ Sent(n)
    /\ \A t \in TaskIds : Runs(t)' => Runs(t) /\ (body'[t] = None => body[t] = None)

LEMMA Shrunk ==
    ASSUME OneStart, Shrinks
    PROVE  OneStart' /\ (Ahead' => Ahead)
<1>1. Ahead' => Ahead
  BY DEF Ahead, Shrinks
<1>2. OneStart'
  BY DEF OneStart, Shrinks
<1>3. QED
  BY <1>1, <1>2

(* What a fading step keeps.                                               *)
LEMMA Faded ==
    ASSUME Single, Fades
    PROVE  /\ Rowed => Rowed'
           /\ \A i \in Conts : Up(i)' => Up(i)
           /\ \A a, b \in Conts : Up(a)' /\ Up(b)' => a = b
           /\ Agree'
           /\ \A j : AllOk(j) => AllOk(j)'
<1>1. Rowed => Rowed'
  BY DEF Rowed, Fades
<1>2. \A i \in Conts : Up(i)' => Up(i)
  BY DEF Up, Fades
<1>3. \A a, b \in Conts : Up(a)' /\ Up(b)' => a = b
  BY <1>2 DEF Single
<1>4. ASSUME NEW i \in Conts, proc'[i] # None, cont'[i] # None
      PROVE  proc'[i].job = cont'[i].job /\ (proc'[i].st = "ok" => cont'[i].st = "ok")
  <2>1. proc[i] # None /\ cont[i] # None
    BY <1>4 DEF Fades
  <2>2. proc[i].job = cont[i].job /\ (proc[i].st = "ok" => cont[i].st = "ok")
    BY <2>1 DEF Single, Agree
  <2>3. QED
    BY <1>4, <2>1, <2>2 DEF Fades
<1>5. ASSUME NEW j, AllOk(j)
      PROVE  AllOk(j)'
  BY <1>5 DEF AllOk, Fades
<1>6. QED
  BY <1>1, <1>2, <1>3, <1>4, <1>5 DEF Agree

(* The start task while others move.                                       *)
LEMMA LaunchStays ==
    ASSUME JobInv, Single, Fades, Untouched => Untouched', NEW s \in TaskIds, Runs(s), Stays(s),
           body[s] # None
    PROVE  Launch(s)'
<1>1. Launch(s) /\ body'[s] = body[s] /\ Obj(s)' = Obj(s) /\ body[s].todo \subseteq Conts
  BY DEF Single, Stays, Obj, JobInv, Locals, GoodFrame, Frames
<1>2. body'[s].pc \in {"create", "insert", "status"} => Untouched'
  BY <1>1 DEF Launch
<1>3. ASSUME NEW i \in Conts, cont'[i] # None
      PROVE  proc'[i] # None \/ (body'[s].pc = "insert" /\ i = body'[s].cur)
  BY <1>1, <1>3 DEF Launch, Fades
<1>4. ASSUME NEW i \in Conts, body'[s].pc = "insert", i = body'[s].cur, cont'[i] # None
      PROVE  cont'[i].job = Obj(s)'
  BY <1>1, <1>4 DEF Launch, Fades
<1>5. ASSUME NEW i \in body'[s].todo
      PROVE  cont'[i] = None \/ cont'[i].st = "created"
  BY <1>1, <1>5 DEF Launch, Fades
<1>6. \A i \in Conts : Up(i)' => body'[s].pc = "wait" /\ i = body'[s].cur
  BY <1>1, Faded DEF Launch
<1>7. QED
  BY <1>2, <1>3, <1>4, <1>5, <1>6 DEF Launch, Obj

LEMMA CalmKept ==
    ASSUME JobInv, Single, Fades, Untouched => Untouched', OneStart', Ahead' => Ahead,
           \A j \in Jobs : Deciding(j)' \/ Finished(j)' => Deciding(j) \/ Finished(j) \/ AllOk(j),
           \A s \in TaskIds : Runs(s)' /\ body'[s] # None =>
               (Runs(s) /\ Stays(s)) \/ Launch(s)'
    PROVE  Single'
<1>1. Ahead' => Untouched' /\ \A i \in Conts : cont'[i] = None
  BY DEF Single, Fades
<1>2. ASSUME NEW s \in TaskIds, Runs(s)', body'[s] # None
      PROVE  Launch(s)'
  BY <1>2, LaunchStays DEF Stays
<1>3. Untouched' \/ Rowed'
  BY Faded DEF Single
<1>4. \A j \in Jobs : Deciding(j)' \/ Finished(j)' => AllOk(j)'
  BY Faded DEF Single
<1>5. QED
  BY <1>1, <1>2, <1>3, <1>4, Faded DEF Single

-----------------------------------------------------------------------------
(* The steps that neither create, record nor start a container.            *)
LEMMA Appended ==
    ASSUME JobInv, NEW ev, ev.action \notin {"Long", "Starting"},
           queue' = queue \/ queue' = Append(queue, ev)
    PROVE  /\ \A n \in DOMAIN queue' : Sent(n)' => n \in DOMAIN queue /\ Sent(n)
           /\ Untouched => \A n \in DOMAIN queue' : queue'[n].action # "Long"
<1>1. queue \in Seq(TM!Events)
  BY TmTyped DEF JobInv, TM!TypeOK
<1>2. \A n \in DOMAIN queue' : queue'[n] = ev \/ (n \in DOMAIN queue /\ queue'[n] = queue[n])
  BY <1>1
<1>3. QED
  BY <1>2 DEF Sent, Untouched

LEMMA SameFades ==
    ASSUME UNCHANGED <<cont, proc>>
    PROVE  Fades
BY DEF Fades

LEMMA StaysUntouched ==
    ASSUME Untouched, Fades, \A n \in DOMAIN dq' : dq'[n].type = "destroy",
           UNCHANGED <<dh, pend>>, \A j \in Jobs : Finished(j)' => Finished(j),
           \A n \in DOMAIN queue' : queue'[n].action # "Long", loop'.pc # "busy"
    PROVE  Untouched'
<1>1. \A i \in Conts : cont'[i] # None => cont'[i].st = "created"
  BY DEF Untouched, Fades
<1>2. \A j \in Jobs : pend'[j] = 0 /\ (Exists(j)' => row'[j].actual # "Finish")
  BY DEF Untouched, Finished
<1>3. QED
  BY <1>1, <1>2 DEF Untouched

(* A step of the task t.                                                   *)
LEMMA TaskCalm ==
    ASSUME JobInv, Single, NEW t \in TaskIds, Apart, UNCHANGED loop, left'.starts = left.starts,
           queue' = queue \/ queue' = Append(queue, Ev(Obj(t), "Other")),
           \A s \in TaskIds : s # t => Stays(s),
           Runs(t)' => Runs(t) /\ body'[t] # None,
           (Untouched => Untouched') /\ Runs(t)' => Launch(t)',
           Fades, Untouched => \A n \in DOMAIN dq' : dq'[n].type = "destroy",
           \A j \in Jobs : Finished(j)' => Finished(j)
    PROVE  Single'
<1>1. PICK ev : ev = Ev(Obj(t), "Other")
  OBVIOUS
<1>2. ev.action = "Other"
  BY <1>1 DEF Ev
<1>3. /\ \A n \in DOMAIN queue' : Sent(n)' => n \in DOMAIN queue /\ Sent(n)
      /\ Untouched => \A n \in DOMAIN queue' : queue'[n].action # "Long"
  BY <1>1, <1>2, Appended
<1>4. Untouched => Untouched'
  BY <1>3, StaysUntouched DEF Apart, Untouched
<1>5. Shrinks
  <2>1. \A s \in TaskIds : s # t => (Runs(s)' <=> Runs(s)) /\ body'[s] = body[s]
    BY DEF Stays, Runs
  <2>2. \A k \in Clients : Asked(k)' <=> Asked(k)
    BY DEF Asked, Apart
  <2>3. QED
    BY <1>3, <2>1, <2>2 DEF Shrinks
<1>6. OneStart' /\ (Ahead' => Ahead)
  BY <1>5, Shrunk DEF Single
<1>7. \A j \in Jobs : Deciding(j)' => Deciding(j)
  BY DEF Deciding, Apart
<1>8. ASSUME NEW s \in TaskIds, Runs(s)', body'[s] # None
      PROVE  (Runs(s) /\ Stays(s)) \/ Launch(s)'
  <2>1. CASE s = t
    BY <1>4, <1>8, <2>1
  <2>2. CASE s # t
    BY <1>8, <2>2 DEF Stays, Runs
  <2>3. QED
    BY <2>1, <2>2
<1>9. QED
  BY <1>4, <1>6, <1>7, <1>8, CalmKept

(* The end of a body.                                                      *)
LEMMA BodyEnds ==
    ASSUME JobInv, NEW t \in TaskIds, Err(t) \/ Return(t)
    PROVE  /\ UNCHANGED <<queue, loop>> /\ ~Runs(t)'
           /\ \A s \in TaskIds : s # t => Stays(s)
<1>1. TM!TypeOK
  BY TmTyped DEF JobInv
<1>2. /\ UNCHANGED <<queue, loop>> /\ task'[t].phase # "body"
      /\ \A s \in TaskIds : s # t => task'[s] = task[s]
  BY <1>1 DEF Err, Return, TM!BodyOk, TM!BodyErr, TM!TypeOK, TM!Running, TM!Done
<1>3. \A s \in TaskIds : s # t => body'[s] = body[s]
  BY DEF Err, Return, Set, JobInv, Locals
<1>4. QED
  BY <1>2, <1>3 DEF Runs, Stays

LEMMA SpentStarts ==
    ASSUME JobInv, SpendFail
    PROVE  left'.starts = left.starts
BY DEF SpendFail, JobInv, Bounds

LEMMA EndCalm ==
    ASSUME JobInv, Single, NEW t \in TaskIds, Err(t) \/ Return(t), Apart,
           left'.starts = left.starts, UNCHANGED <<row, proc, cont, dq>>
    PROVE  Single'
<1>1. Fades /\ \A j \in Jobs : Finished(j)' => Finished(j)
  BY SameFades DEF Finished, Exists
<1>2. Untouched => \A n \in DOMAIN dq' : dq'[n].type = "destroy"
  BY DEF Untouched
<1>3. QED
  BY <1>1, <1>2, BodyEnds, TaskCalm

(* A step of a body that goes on to b.                                     *)
LEMMA BodyCalm ==
    ASSUME JobInv, Single, NEW t \in TaskIds, Apart, UNCHANGED <<loop, task>>,
           left'.starts = left.starts,
           queue' = queue \/ queue' = Append(queue, Ev(Obj(t), "Other")),
           NEW b, Set(t, b), b # None,
           (Untouched => Untouched') /\ Runs(t) => Launch(t)',
           Fades, Untouched => \A n \in DOMAIN dq' : dq'[n].type = "destroy",
           \A j \in Jobs : Finished(j)' => Finished(j)
    PROVE  Single'
<1>1. body'[t] = b /\ \A s \in TaskIds : s # t => Stays(s)
  BY DEF Set, JobInv, Locals, Stays
<1>2. Runs(t)' => Runs(t) /\ body'[t] # None
  BY <1>1 DEF Runs
<1>3. QED
  BY <1>1, <1>2, TaskCalm

(* The status writes of a body are not "finish".                           *)
LEMMA NotFinished ==
    ASSUME JobInv, NEW j \in Jobs,
           \/ Exists(j) /\ \E st \in {"Create", "Start", "Stop", "Fail"} : row' = SetActual(j, st)
           \/ row' = [row EXCEPT ![j] = None]
    PROVE  \A h \in Jobs : Finished(h)' => Finished(h)
<1>1. CASE row' = [row EXCEPT ![j] = None]
  BY <1>1 DEF JobInv, Tables, Finished, Exists
<1>2. ASSUME NEW st \in {"Create", "Start", "Stop", "Fail"}, Exists(j), row' = SetActual(j, st)
      PROVE  \A h \in Jobs : Finished(h)' => Finished(h)
  <2>1. PICK r \in Rows : r.actual = st /\ row' = [row EXCEPT ![j] = r]
    BY <1>2, ActualRow
  <2>2. QED
    BY <2>1 DEF JobInv, Tables, Finished, Exists
<1>3. QED
  BY <1>1, <1>2

(* A start task moves on while docker and the rows stay.                   *)
LEMMA ReadStartSingle ==
    ASSUME JobInv, Single, NEW t \in TaskIds, ReadStart(t)
    PROVE  Single'
<1>1. Apart /\ UNCHANGED <<row, proc, cont, dq>> /\ left'.starts = left.starts
  BY DEF ReadStart, Apart, analyserVars, dbVars, dockerVars
<1>2. CASE Err(t)
  BY <1>1, <1>2, EndCalm
<1>3. ASSUME NEW pc \in {"create", "status"}, Set(t, Frame(pc, ProcsOf(Obj(t)))), UNCHANGED tmVars
      PROVE  Single'
  <2>1. PICK b : b = Frame(pc, ProcsOf(Obj(t)))
    OBVIOUS
  <2>2. b.pc = pc /\ b # None
    BY <2>1 DEF Frame, None
  <2>3. Ahead
    BY Starts DEF ReadStart, Reads, Ahead, Runs
  <2>4. Untouched /\ \A i \in Conts : cont[i] = None
    BY <2>3 DEF Single
  <2>5. body'[t] = b
    BY <1>3, <2>1 DEF Set, JobInv, Locals
  <2>5a. b.todo \subseteq Conts
    BY <2>1 DEF Frame, ProcsOf
  <2>6. (Untouched => Untouched') => Launch(t)'
    BY <1>1, <2>2, <2>4, <2>5, <2>5a DEF Launch, Up
  <2>7. Fades /\ \A j \in Jobs : Finished(j)' => Finished(j)
    BY <1>1, SameFades DEF Finished, Exists
  <2>8. Untouched => \A n \in DOMAIN dq' : dq'[n].type = "destroy"
    BY <1>1 DEF Untouched
  <2>9. UNCHANGED <<queue, loop, task>>
    BY <1>3 DEF tmVars
  <2>10. QED
    BY <1>1, <1>3, <2>1, <2>2, <2>6, <2>7, <2>8, <2>9, BodyCalm
<1>4. QED
  BY <1>2, <1>3 DEF ReadStart

LEMMA LaunchMoves ==
    ASSUME JobInv, Single, NEW t \in TaskIds, NEW pc \in {"status", "wait"}, At(t, "Starting", pc),
           Set(t, [body[t] EXCEPT !.pc = "run"]), UNCHANGED <<loop, task, proc, cont, dq>>, Apart,
           queue' = queue \/ queue' = Append(queue, Ev(Obj(t), "Other")),
           left'.starts = left.starts, \A i \in Conts : ~Up(i),
           \A j \in Jobs : Finished(j)' => Finished(j)
    PROVE  Single'
<1>1. /\ task[t].phase = "body" /\ task[t].ev.action = "Starting" /\ body[t].pc = pc
      /\ GoodFrame(body[t], left.made) /\ body[t] # None
  BY Running
<1>2. Launch(t)
  BY <1>1 DEF Single, Runs
<1>3. PICK b : b = [body[t] EXCEPT !.pc = "run"]
  OBVIOUS
<1>4. b \in Frames /\ b.pc = "run" /\ b.todo = body[t].todo
  BY <1>1, <1>3, GotoGood DEF GoodFrame
<1>5. b # None
  BY <1>4 DEF Frames, None
<1>6. body'[t] = b
  BY <1>3 DEF Set, JobInv, Locals
<1>7. Launch(t)'
  BY <1>1, <1>2, <1>4, <1>6 DEF Launch, Up
<1>8. Fades
  BY SameFades
<1>9. Untouched => \A n \in DOMAIN dq' : dq'[n].type = "destroy"
  BY DEF Untouched
<1>10. QED
  BY <1>3, <1>5, <1>7, <1>8, <1>9, BodyCalm

LEMMA MarkStartedSingle ==
    ASSUME JobInv, Single, NEW t \in TaskIds, MarkStarted(t)
    PROVE  Single'
<1>1. Apart /\ UNCHANGED <<proc, cont, dq>> /\ left'.starts = left.starts
  BY DEF MarkStarted, Apart, analyserVars, dockerVars
<1>2. CASE Err(t) /\ UNCHANGED row
  BY <1>1, <1>2, EndCalm
<1>3. CASE /\ Exists(Obj(t)) /\ row' = SetActual(Obj(t), "Start")
           /\ TM!Emit(Ev(Obj(t), "Other")) /\ Set(t, [body[t] EXCEPT !.pc = "run"])
  <2>1. Obj(t) \in Jobs /\ Runs(t) /\ body[t] # None /\ body[t].pc = "status"
    BY Running DEF MarkStarted, Runs
  <2>2. \A j \in Jobs : Finished(j)' => Finished(j)
    BY <1>3, <2>1, NotFinished
  <2>3. Untouched
    BY <2>1 DEF Single, Launch
  <2>4. \A i \in Conts : ~Up(i)
    BY <2>3 DEF Untouched, Up
  <2>5. UNCHANGED <<loop, task>> /\ queue' = Append(queue, Ev(Obj(t), "Other"))
    BY <1>3 DEF TM!Emit
  <2>6. QED
    BY <1>1, <1>3, <2>2, <2>4, <2>5, LaunchMoves DEF MarkStarted
<1>4. QED
  BY <1>2, <1>3 DEF MarkStarted

LEMMA WaitNextSingle ==
    ASSUME JobInv, Single, NEW t \in TaskIds, WaitNext(t)
    PROVE  Single'
<1>1. Apart /\ UNCHANGED <<row, proc, cont, dq>> /\ left'.starts = left.starts
  BY DEF WaitNext, Apart, analyserVars, dbVars, dockerVars
<1>2. CASE Err(t)
  BY <1>1, <1>2, EndCalm
<1>3. CASE /\ cont[body[t].cur].st \in {"created", "ok"}
           /\ Set(t, [body[t] EXCEPT !.pc = "run"]) /\ UNCHANGED tmVars
  <2>1. Runs(t) /\ body[t] # None
    BY Running DEF WaitNext, Runs
  <2>2. \A i \in Conts : ~Up(i)
    BY <1>3, <2>1 DEF Single, Launch, Up
  <2>3. \A j \in Jobs : Finished(j)' => Finished(j)
    BY <1>1 DEF Finished, Exists
  <2>4. UNCHANGED <<queue, loop, task>>
    BY <1>3 DEF tmVars
  <2>5. QED
    BY <1>1, <1>3, <2>2, <2>3, <2>4, LaunchMoves DEF WaitNext
<1>4. QED
  BY <1>2, <1>3 DEF WaitNext

LEMMA StartDoneSingle ==
    ASSUME JobInv, Single, NEW t \in TaskIds, StartDone(t) \/ End(t)
    PROVE  Single'
<1>1. Apart /\ UNCHANGED <<row, proc, cont, dq>> /\ left'.starts = left.starts /\ Return(t)
  BY DEF StartDone, End, Apart, analyserVars, dbVars, dockerVars
<1>2. QED
  BY <1>1, EndCalm

LEMMA OnErrorSingle ==
    ASSUME JobInv, Single, NEW t \in TaskIds, OnError(t)
    PROVE  Single'
<1>1. Apart /\ UNCHANGED <<proc, cont, dq, body>> /\ left'.starts = left.starts
  BY DEF OnError, Apart, analyserVars, dockerVars
<1>2. /\ UNCHANGED <<queue, loop>> /\ task'[t] = TM!Done
      /\ \A s \in TaskIds : s # t => task'[s] = task[s]
  BY TmTyped DEF JobInv, OnError, TM!OnErrorDone, TM!TypeOK
<1>3. ~Runs(t)' /\ \A s \in TaskIds : s # t => Stays(s)
  BY <1>1, <1>2 DEF Runs, Stays, TM!Done
<1>4. \A j \in Jobs : Finished(j)' => Finished(j)
  BY FailWritten DEF Finished, Exists
<1>5. Untouched => \A n \in DOMAIN dq' : dq'[n].type = "destroy"
  BY <1>1 DEF Untouched
<1>6. Fades
  BY <1>1, SameFades
<1>7. QED
  BY <1>1, <1>2, <1>3, <1>4, <1>5, <1>6, TaskCalm

(* A step of a stop or a deletion that leaves docker alone.                *)
LEMMA OtherCalm ==
    ASSUME JobInv, Single, NEW t \in TaskIds, task[t].ev.action # "Starting", Apart,
           UNCHANGED <<loop, task, proc, cont, dq>>, left'.starts = left.starts,
           queue' = queue \/ queue' = Append(queue, Ev(Obj(t), "Other")),
           NEW b, Set(t, b), b # None, \A j \in Jobs : Finished(j)' => Finished(j)
    PROVE  Single'
<1>1. ~Runs(t)
  BY DEF Runs
<1>2. Untouched => \A n \in DOMAIN dq' : dq'[n].type = "destroy"
  BY DEF Untouched
<1>3. Fades
  BY SameFades
<1>4. QED
  BY <1>1, <1>2, <1>3, BodyCalm

LEMMA ReadsSingle ==
    ASSUME JobInv, Single, NEW t \in TaskIds, ReadStop(t) \/ ReadDelete(t)
    PROVE  Single'
<1>1. /\ Apart /\ UNCHANGED <<row, proc, cont, dq>> /\ left'.starts = left.starts
      /\ task[t].ev.action # "Starting"
  BY DEF ReadStop, ReadDelete, Reads, Apart, analyserVars, dbVars, dockerVars
<1>2. CASE Err(t)
  BY <1>1, <1>2, EndCalm
<1>3. CASE Set(t, Frame("run", ProcsOf(Obj(t)))) /\ UNCHANGED tmVars
  <2>1. PICK b : b = Frame("run", ProcsOf(Obj(t)))
    OBVIOUS
  <2>2. b # None
    BY <2>1 DEF Frame, None
  <2>3. UNCHANGED <<queue, loop, task>> /\ \A j \in Jobs : Finished(j)' => Finished(j)
    BY <1>1, <1>3 DEF tmVars, Finished, Exists
  <2>4. QED
    BY <1>1, <1>3, <2>1, <2>2, <2>3, OtherCalm
<1>4. QED
  BY <1>2, <1>3 DEF ReadStop, ReadDelete

LEMMA MarksSingle ==
    ASSUME JobInv, Single, NEW t \in TaskIds, MarkStopped(t) \/ ClearJob(t)
    PROVE  Single'
<1>1. /\ Apart /\ UNCHANGED <<proc, cont, dq>> /\ left'.starts = left.starts
      /\ \E a \in {"Stopping", "Destroying"} : At(t, a, "run")
  BY DEF MarkStopped, ClearJob, Apart, analyserVars, dockerVars
<1>2. Obj(t) \in Jobs /\ task[t].ev.action # "Starting" /\ GoodFrame(body[t], left.made)
  BY <1>1, Running
<1>3. CASE Err(t) /\ UNCHANGED row
  BY <1>1, <1>3, EndCalm
<1>4. CASE /\ \/ Exists(Obj(t)) /\ row' = SetActual(Obj(t), "Stop")
              \/ row' = [row EXCEPT ![Obj(t)] = None]
           /\ TM!Emit(Ev(Obj(t), "Other")) /\ Set(t, [body[t] EXCEPT !.pc = "end"])
  <2>1. \A j \in Jobs : Finished(j)' => Finished(j)
    BY <1>2, <1>4, NotFinished
  <2>2. PICK b : b = [body[t] EXCEPT !.pc = "end"]
    OBVIOUS
  <2>3. b \in Frames
    BY <1>2, <2>2, GotoGood DEF GoodFrame
  <2>4. b # None
    BY <2>3 DEF Frames, None
  <2>5. UNCHANGED <<loop, task>> /\ queue' = Append(queue, Ev(Obj(t), "Other"))
    BY <1>4 DEF TM!Emit
  <2>6. QED
    BY <1>1, <1>2, <1>4, <2>1, <2>2, <2>4, <2>5, OtherCalm
<1>5. QED
  BY <1>3, <1>4 DEF MarkStopped, ClearJob

(* A container that ends or goes fades.                                    *)
LEMMA ToldFades ==
    ASSUME JobInv, NEW i \in Conts, NEW c, NEW evs, Told(i, c, evs), Present(i),
           \/ c = None
           \/ /\ c.job = cont[i].job /\ cont[i].st = "up" /\ c.st \in {"ok", "bad"}
              /\ UNCHANGED proc,
           \A h \in Conts : proc'[h] = proc[h] \/ (h = i /\ proc'[h] = None)
    PROVE  Fades
<1>1. cont'[i] = c /\ \A h \in Conts : h # i => cont'[h] = cont[h]
  BY DEF Told, JobInv, Tables
<1>2. QED
  BY <1>1 DEF Fades, Present

LEMMA StopNextSingle ==
    ASSUME JobInv, Single, NEW t \in TaskIds, StopNext(t)
    PROVE  Single'
<1>1. /\ GoodFrame(body[t], left.made) /\ body[t].pc = "run"
      /\ task[t].ev.action = "Stopping" /\ Apart /\ UNCHANGED <<row, proc>>
  BY Running DEF StopNext, Apart, analyserVars, dbVars
<1>2. PICK i \in body[t].todo :
        \/ /\ Present(i)
           /\ IF cont[i].st = "up" THEN \E st \in {"ok", "bad"} : EndCont(i, st)
                                   ELSE UNCHANGED dockerVars
           /\ Set(t, [body[t] EXCEPT !.todo = @ \ {i}])
           /\ UNCHANGED <<tmVars, left>>
        \/ /\ ~Present(i)
           /\ Err(t)
           /\ UNCHANGED <<dockerVars, left>>
        \/ /\ SpendFail
           /\ Err(t)
           /\ UNCHANGED dockerVars
  BY DEF StopNext
<1>3. i \in Conts /\ \A j \in Jobs : Finished(j)' => Finished(j)
  BY <1>1 DEF GoodFrame, Frames, Finished, Exists
<1>4. left'.starts = left.starts
  BY <1>2, SpentStarts
<1>5. CASE Err(t) /\ UNCHANGED dockerVars
  BY <1>1, <1>4, <1>5, EndCalm DEF dockerVars
<1>6. PICK b : b = [body[t] EXCEPT !.todo = @ \ {i}]
  OBVIOUS
<1>7. b \in Frames
  BY <1>1, <1>6, StruckGood DEF GoodFrame
<1>8. b # None
  BY <1>7 DEF Frames, None
<1>9. CASE Set(t, b) /\ UNCHANGED tmVars /\ UNCHANGED dockerVars
  BY <1>1, <1>3, <1>4, <1>8, <1>9, OtherCalm DEF tmVars, dockerVars
<1>10. ASSUME Present(i), cont[i].st = "up", NEW st \in {"ok", "bad"}, EndCont(i, st),
              Set(t, b), UNCHANGED tmVars
       PROVE  Single'
  <2>1. st \in {"created", "up", "ok", "bad"}
    OBVIOUS
  <2>2. PICK c \in Instances, evs \in Seq(DockerEvents) :
            Told(i, c, evs) /\ c.st = st /\ c.job = cont[i].job
    BY <1>3, <1>10, <2>1, EndTold
  <2>3. Fades
    BY <1>1, <1>3, <1>10, <2>2, ToldFades
  <2>4. ~Untouched
    BY <1>3, <1>10 DEF Untouched, Present
  <2>5. ~Runs(t)
    BY <1>1 DEF Runs
  <2>6. UNCHANGED <<queue, loop, task>>
    BY <1>10 DEF tmVars
  <2>7. QED
    BY <1>1, <1>3, <1>4, <1>8, <1>10, <2>3, <2>4, <2>5, <2>6, BodyCalm
<1>11. QED
  BY <1>2, <1>5, <1>6, <1>9, <1>10

LEMMA DeleteNextSingle ==
    ASSUME JobInv, Single, NEW t \in TaskIds, DeleteNext(t)
    PROVE  Single'
<1>1. /\ GoodFrame(body[t], left.made) /\ body[t].pc = "run" /\ ~Runs(t)
      /\ task[t].ev.action = "Destroying" /\ Apart /\ UNCHANGED <<tmVars, row>>
  BY Running DEF DeleteNext, Apart, analyserVars, Runs
<1>2. PICK i \in body[t].todo :
        \/ /\ IF Present(i) THEN RemoveCont(i) ELSE UNCHANGED dockerVars
           /\ proc' = [proc EXCEPT ![i] = None]
           /\ Set(t, [body[t] EXCEPT !.todo = @ \ {i}])
           /\ UNCHANGED left
        \/ /\ SpendFail
           /\ Set(t, [body[t] EXCEPT !.todo = @ \ {i}, !.err = TRUE])
           /\ UNCHANGED <<dockerVars, proc>>
  BY DEF DeleteNext
<1>3. i \in Conts /\ UNCHANGED <<queue, loop, task>> /\ \A j \in Jobs : Finished(j)' => Finished(j)
  BY <1>1 DEF GoodFrame, Frames, Finished, Exists, tmVars
<1>4. left'.starts = left.starts
  BY <1>2, SpentStarts
<1>5. CASE /\ Set(t, [body[t] EXCEPT !.todo = @ \ {i}, !.err = TRUE])
           /\ UNCHANGED <<dockerVars, proc>>
  <2>1. PICK b : b = [body[t] EXCEPT !.todo = @ \ {i}, !.err = TRUE]
    OBVIOUS
  <2>2. b \in Frames
    BY <1>1, <2>1 DEF GoodFrame, Frames
  <2>3. b # None
    BY <2>2 DEF Frames, None
  <2>4. QED
    BY <1>1, <1>3, <1>4, <1>5, <2>1, <2>3, OtherCalm DEF dockerVars
<1>6. CASE /\ IF Present(i) THEN RemoveCont(i) ELSE UNCHANGED dockerVars
           /\ proc' = [proc EXCEPT ![i] = None]
           /\ Set(t, [body[t] EXCEPT !.todo = @ \ {i}])
  <2>1. PICK b : b = [body[t] EXCEPT !.todo = @ \ {i}]
    OBVIOUS
  <2>2. b \in Frames
    BY <1>1, <2>1, StruckGood DEF GoodFrame
  <2>3. b # None
    BY <2>2 DEF Frames, None
  <2>4. Fades /\ (Untouched => \A n \in DOMAIN dq' : dq'[n].type = "destroy")
    <3>1. CASE Present(i) /\ RemoveCont(i)
      <4>1. PICK evs : /\ Told(i, None, evs)
                       /\ cont[i].st # "up" => \A n \in DOMAIN evs : evs[n].type = "destroy"
        BY <1>3, <3>1, RemoveTold
      <4>2. PICK c : c = None
        OBVIOUS
      <4>3. Fades
        BY <1>3, <1>6, <3>1, <4>1, <4>2, RowGone, ToldFades
      <4>4. ASSUME Untouched, NEW n \in DOMAIN dq'
            PROVE  dq'[n].type = "destroy"
        <5>1. \A m \in DOMAIN evs : evs[m].type = "destroy"
          BY <1>3, <3>1, <4>1, <4>4 DEF Untouched, Present
        <5>2. \A m \in DOMAIN dq : dq[m].type = "destroy"
          BY <4>4 DEF Untouched
        <5>3. dq \in Seq(DockerEvents) /\ evs \in Seq(DockerEvents) /\ dq' = dq \o evs
          BY <4>1, GoneNow DEF Told
        <5>4. QED
          BY <4>4, <5>1, <5>2, <5>3, Joined
      <4>5. QED
        BY <4>3, <4>4
    <3>2. CASE ~Present(i) /\ UNCHANGED dockerVars
      <4>1. Fades
        BY <1>6, <3>2, RowGone DEF Fades, Present, dockerVars
      <4>2. QED
        BY <3>2, <4>1 DEF Untouched, dockerVars
    <3>3. QED
      BY <1>6, <3>1, <3>2
  <2>5. QED
    BY <1>1, <1>3, <1>4, <1>6, <2>1, <2>3, <2>4, BodyCalm
<1>7. QED
  BY <1>2, <1>5, <1>6

-----------------------------------------------------------------------------
(* The steps of the start task that create, record or start a container.   *)
LEMMA Alone ==
    ASSUME JobInv, Single, NEW t \in TaskIds, Runs(t), body[t] # None,
           NEW b, Set(t, b), b # None, UNCHANGED <<tmVars, req>>, left'.starts = left.starts
    PROVE  OneStart' /\ ~Ahead' /\ body'[t] = b /\ \A s \in TaskIds : Runs(s)' => s = t
<1>1. body'[t] = b /\ \A s \in TaskIds : s # t => body'[s] = body[s]
  BY DEF Set, JobInv, Locals
<1>2. UNCHANGED <<queue, task>>
  BY DEF tmVars
<1>3. \A s \in TaskIds : (Runs(s)' <=> Runs(s)) /\ (Runs(s) => s = t)
  BY <1>2 DEF Runs, Single, OneStart
<1>4. ~Ahead'
  <2>1. left.starts # 1 /\ (\A k \in Clients : ~Asked(k)) /\ \A n \in DOMAIN queue : ~Sent(n)
    BY DEF Single, OneStart
  <2>2. QED
    BY <1>1, <1>2, <1>3, <2>1 DEF Ahead, Asked, Sent
<1>5. OneStart'
  BY <1>2, <1>3 DEF Single, OneStart, Asked, Sent
<1>6. QED
  BY <1>1, <1>3, <1>4, <1>5

(* While nothing ran no job is finished, and job_ttl decides nothing.      *)
LEMMA QuietFacts ==
    ASSUME Callers, Untouched
    PROVE  /\ \A i \in Conts : ~Up(i)
           /\ \A j \in Jobs : ~Deciding(j) /\ ~Finished(j)
BY DEF Callers, Untouched, Up, Deciding, Finished

LEMMA CreateContSingle ==
    ASSUME JobInv, Kept, Single, NEW t \in TaskIds, CreateCont(t)
    PROVE  Single'
<1>1. /\ Runs(t) /\ body[t] # None /\ body[t].pc = "create" /\ GoodFrame(body[t], left.made)
      /\ Obj(t) \in Jobs /\ Apart /\ UNCHANGED <<row, proc, dq>>
  BY Running DEF CreateCont, Apart, analyserVars, dbVars, Runs
<1>2. CASE SpendFail /\ Err(t) /\ UNCHANGED cont
  BY <1>1, <1>2, SpentStarts, EndCalm
<1>3. CASE /\ left.made < MaxConts
           /\ cont' = [cont EXCEPT ![left.made + 1] = [st |-> "created", job |-> Obj(t)]]
           /\ left' = [left EXCEPT !.made = @ + 1]
           /\ Set(t, [body[t] EXCEPT !.pc = "insert", !.cur = left.made + 1])
           /\ UNCHANGED tmVars
  <2>1. PICK i : i = left.made + 1
    OBVIOUS
  <2>2. i \in Conts /\ i > left.made /\ i \in Nat
    BY <1>3, <2>1, GoneNow, ConstAssumption DEF Conts
  <2>3. /\ cont'[i] = [st |-> "created", job |-> Obj(t)]
        /\ \A h \in Conts : h # i => cont'[h] = cont[h]
        /\ proc[i] = None
    BY <1>3, <2>1, <2>2, GoneNow DEF JobInv, Tables
  <2>4. PICK b : b = [body[t] EXCEPT !.pc = "insert", !.cur = i]
    OBVIOUS
  <2>5. b \in Frames /\ b.pc = "insert" /\ b.cur = i /\ b.todo = body[t].todo /\ b.todo \subseteq Conts
    BY <1>1, <2>2, <2>4 DEF GoodFrame, Frames
  <2>6. b # None /\ left'.starts = left.starts
    BY <1>3, <2>5 DEF Frames, None, JobInv, Bounds
  <2>7. OneStart' /\ ~Ahead' /\ body'[t] = b /\ \A s \in TaskIds : Runs(s)' => s = t
    BY <1>1, <1>3, <2>1, <2>4, <2>6, Alone DEF Apart
  <2>8. Launch(t) /\ Untouched
    BY <1>1 DEF Single, Launch
  <2>9. Untouched'
    <3>1. \A h \in Conts : cont'[h] # None => cont'[h].st = "created"
      BY <2>3, <2>8 DEF Untouched
    <3>2. QED
      BY <1>1, <1>3, <2>8, <3>1 DEF Untouched, Apart, tmVars, Exists
  <2>10. (\A h \in Conts : ~Up(h)') /\ \A j \in Jobs : ~Deciding(j)' /\ ~Finished(j)'
    BY <2>9, QuietFacts DEF Kept, JobInv, Callers, Untouched, Up, Deciding, Finished
  <2>11. Launch(t)'
    <3>1. \A h \in Conts : cont'[h] # None => proc'[h] # None \/ h = i
      BY <1>1, <2>3, <2>8 DEF Launch
    <3>2. cont'[i].job = Obj(t)'
      BY <1>3, <2>3 DEF Obj, tmVars
    <3>3. \A h \in b.todo : cont'[h] = None \/ cont'[h].st = "created"
      BY <2>5, <2>9 DEF Untouched
    <3>4. QED
      BY <2>5, <2>7, <2>9, <2>10, <3>1, <3>2, <3>3 DEF Launch
  <2>12. Agree'
    BY <1>1, <2>3 DEF Single, Agree
  <2>13. QED
    BY <2>7, <2>9, <2>10, <2>11, <2>12 DEF Single
<1>4. QED
  BY <1>2, <1>3 DEF CreateCont

LEMMA InsertProcSingle ==
    ASSUME JobInv, Kept, Single, NEW t \in TaskIds, InsertProc(t)
    PROVE  Single'
<1>1. /\ Runs(t) /\ body[t] # None /\ body[t].pc = "insert" /\ GoodFrame(body[t], left.made)
      /\ Obj(t) \in Jobs /\ Apart /\ UNCHANGED <<tmVars, row, cont, dq, left>>
  BY Running DEF InsertProc, Apart, analyserVars, dockerVars, Runs
<1>2. PICK i \in Conts : i = body[t].cur
  BY <1>1 DEF GoodFrame
<1>3. PICK p : p = [st |-> "created", job |-> Obj(t)]
  OBVIOUS
<1>4. /\ proc'[i] = p /\ p # None /\ p.job = Obj(t) /\ p.st = "created"
      /\ \A h \in Conts : h # i => proc'[h] = proc[h]
  BY <1>2, <1>3 DEF InsertProc, JobInv, Tables, None
<1>5. PICK n \in Nat : n = body[t].new + 1
  BY <1>1 DEF GoodFrame, Frames
<1>6. PICK pc \in {"status", "create"} : pc = IF n = left.w.size THEN "status" ELSE "create"
  OBVIOUS
<1>7. Set(t, [body[t] EXCEPT !.pc = pc, !.todo = @ \cup {i}, !.new = n])
  BY <1>2, <1>5, <1>6 DEF InsertProc
<1>8. PICK b : b = [body[t] EXCEPT !.pc = pc, !.todo = @ \cup {i}, !.new = n]
  OBVIOUS
<1>9. b \in Frames /\ b.pc = pc /\ b.todo = body[t].todo \cup {i} /\ b.todo \subseteq Conts
  BY <1>1, <1>2, <1>8 DEF GoodFrame, Frames
<1>10. b # None
  BY <1>9 DEF Frames, None
<1>11. OneStart' /\ ~Ahead' /\ body'[t] = b /\ \A s \in TaskIds : Runs(s)' => s = t
  BY <1>1, <1>7, <1>8, <1>10, Alone DEF Apart
<1>12. Launch(t) /\ Untouched
  BY <1>1 DEF Single, Launch
<1>13. Untouched'
  BY <1>1, <1>12 DEF Untouched, Apart, tmVars, Exists
<1>14. (\A h \in Conts : ~Up(h)') /\ \A j \in Jobs : ~Deciding(j)' /\ ~Finished(j)'
  BY <1>13, QuietFacts DEF Kept, JobInv, Callers, Untouched, Up, Deciding, Finished
<1>15. \A h \in Conts : cont'[h] # None => proc'[h] # None
  BY <1>1, <1>2, <1>4, <1>12 DEF Launch
<1>16. Launch(t)'
  <2>1. \A h \in b.todo : cont'[h] = None \/ cont'[h].st = "created"
    BY <1>9, <1>13 DEF Untouched
  <2>2. QED
    BY <1>9, <1>11, <1>13, <1>14, <1>15, <2>1 DEF Launch
<1>17. Agree'
  <2>1. cont[i] # None => cont[i].job = Obj(t)
    BY <1>1, <1>2, <1>12 DEF Launch
  <2>2. QED
    BY <1>1, <1>4, <2>1 DEF Single, Agree
<1>18. QED
  BY <1>11, <1>13, <1>14, <1>16, <1>17 DEF Single

LEMMA StartNextSingle ==
    ASSUME JobInv, Single, NEW t \in TaskIds, StartNext(t)
    PROVE  Single'
<1>1. /\ Runs(t) /\ body[t] # None /\ body[t].pc = "run" /\ GoodFrame(body[t], left.made)
      /\ Apart /\ UNCHANGED <<tmVars, row, proc>>
  BY Running DEF StartNext, Apart, analyserVars, dbVars, Runs
<1>2. PICK i \in body[t].todo :
        /\ \/ Present(i) /\ StartCont(i) /\ UNCHANGED left
           \/ ~Present(i) /\ UNCHANGED <<dockerVars, left>>
           \/ SpendFail /\ UNCHANGED dockerVars
        /\ Set(t, [body[t] EXCEPT !.pc = "wait", !.cur = i, !.todo = @ \ {i}])
  BY DEF StartNext
<1>3. i \in Conts /\ i \in Nat
  BY <1>1, ConstAssumption DEF GoodFrame, Frames, Conts
<1>4. PICK b : b = [body[t] EXCEPT !.pc = "wait", !.cur = i, !.todo = @ \ {i}]
  OBVIOUS
<1>5. /\ b \in Frames /\ b.pc = "wait" /\ b.cur = i /\ b.todo = body[t].todo \ {i}
      /\ body[t].todo \subseteq Conts
  BY <1>1, <1>3, <1>4 DEF GoodFrame, Frames
<1>6. b # None /\ left'.starts = left.starts
  BY <1>2, <1>5, SpentStarts DEF Frames, None
<1>7. OneStart' /\ ~Ahead' /\ body'[t] = b /\ \A s \in TaskIds : Runs(s)' => s = t
  BY <1>1, <1>2, <1>4, <1>6, Alone DEF Apart
<1>8. Launch(t)
  BY <1>1 DEF Single
<1>9. Rowed /\ \A h \in Conts : ~Up(h)
  BY <1>1, <1>8 DEF Launch, Rowed
<1>10. Rowed' /\ \A h \in Conts : Up(h)' => h = i
  <2>1. CASE UNCHANGED dockerVars
    BY <1>1, <1>9, <2>1 DEF Rowed, Up, dockerVars
  <2>2. CASE Present(i) /\ StartCont(i)
    <3>1. \A h \in Conts : h # i => cont'[h] = cont[h]
      BY <2>2 DEF StartCont, JobInv, Tables
    <3>2. cont[i] # None /\ proc[i] # None
      BY <1>3, <1>9, <2>2 DEF Present, Rowed
    <3>3. QED
      BY <1>1, <1>9, <3>1, <3>2 DEF Rowed, Up
  <2>3. QED
    BY <1>2, <2>1, <2>2
<1>11. \A h \in Conts : h # i => cont'[h] = cont[h]
  BY <1>2 DEF StartCont, JobInv, Tables, dockerVars
<1>12. Launch(t)'
  <2>1. \A h \in b.todo : cont'[h] = None \/ cont'[h].st = "created"
    BY <1>5, <1>8, <1>11 DEF Launch
  <2>2. QED
    BY <1>5, <1>7, <1>10, <2>1 DEF Launch, Rowed
<1>13. \/ cont'[i] = cont[i]
       \/ /\ cont[i] # None /\ cont[i].st = "created" /\ cont'[i] # None
          /\ cont'[i].job = cont[i].job
  <2>1. CASE UNCHANGED dockerVars
    BY <2>1 DEF dockerVars
  <2>2. CASE Present(i) /\ StartCont(i)
    <3>1. PICK c \in Instances, evs \in Seq(DockerEvents) : Told(i, c, evs) /\ c.job = cont[i].job
      BY <1>3, <2>2, StartTold
    <3>2. cont'[i] = c /\ c # None
      BY <1>3, <3>1 DEF Told, JobInv, Tables, Instances, None
    <3>3. cont[i].st = "created" /\ cont[i] # None
      BY <1>8, <2>2 DEF Launch, Present
    <3>4. QED
      BY <3>1, <3>2, <3>3
  <2>3. QED
    BY <1>2, <2>1, <2>2
<1>14. Agree'
  <2>1. ASSUME NEW h \in Conts, proc'[h] # None, cont'[h] # None
        PROVE  proc'[h].job = cont'[h].job /\ (proc'[h].st = "ok" => cont'[h].st = "ok")
    BY <1>1, <1>11, <1>13, <2>1 DEF Single, Agree
  <2>2. QED
    BY <2>1 DEF Agree
<1>15. ASSUME NEW j \in Jobs, Deciding(j)' \/ Finished(j)'
       PROVE  AllOk(j)'
  <2>1. Deciding(j) \/ Finished(j)
    BY <1>1, <1>15 DEF Deciding, Finished, Exists, Apart, tmVars
  <2>2. AllOk(j)
    BY <2>1 DEF Single
  <2>3. ASSUME NEW h \in Conts, cont'[h] # None, cont'[h].job = j
        PROVE  cont'[h].st = "ok"
    BY <1>3, <1>11, <1>13, <2>2, <2>3 DEF AllOk
  <2>4. QED
    BY <2>3 DEF AllOk
<1>16. QED
  BY <1>7, <1>10, <1>12, <1>14, <1>15 DEF Single

LEMMA TaskStepSingle ==
    ASSUME JobInv, Kept, Single, NEW t \in TaskIds, TaskStep(t)
    PROVE  Single'
BY ReadStartSingle, CreateContSingle, InsertProcSingle, MarkStartedSingle, StartNextSingle,
   WaitNextSingle, StartDoneSingle, ReadsSingle, StopNextSingle, MarksSingle, DeleteNextSingle,
   OnErrorSingle DEF TaskStep

-----------------------------------------------------------------------------
(* Steps that are not of a task.                                           *)
LEMMA ElseCalm ==
    ASSUME JobInv, Single, UNCHANGED <<body, task>>, Fades, Untouched => Untouched',
           OneStart', Ahead' => Ahead,
           \A j \in Jobs : Deciding(j)' \/ Finished(j)' => Deciding(j) \/ Finished(j) \/ AllOk(j)
    PROVE  Single'
<1>1. \A s \in TaskIds : Runs(s)' => Runs(s) /\ Stays(s)
  BY DEF Runs, Stays
<1>2. QED
  BY <1>1, CalmKept

(* ... nor of docker, its analyser or the loop.                            *)
LEMMA ApiCalm ==
    ASSUME JobInv, Single, UNCHANGED <<loop, task, body, proc, ttl, dockerVars, analyserVars>>,
           NEW ev, ev.action # "Long", queue' = queue \/ queue' = Append(queue, ev),
           OneStart', Ahead' => Ahead, \A j \in Jobs : Finished(j)' => Finished(j)
    PROVE  Single'
<1>1. Fades
  BY SameFades DEF dockerVars
<1>2. queue \in Seq(TM!Events)
  BY TmTyped DEF JobInv, TM!TypeOK
<1>3. \A n \in DOMAIN queue' : queue'[n] = ev \/ (n \in DOMAIN queue /\ queue'[n] = queue[n])
  BY <1>2
<1>4. Untouched => Untouched'
  BY <1>1, <1>3, StaysUntouched DEF Untouched, dockerVars, analyserVars
<1>5. \A j \in Jobs : Deciding(j)' => Deciding(j)
  BY DEF Deciding
<1>6. QED
  BY <1>1, <1>4, <1>5, ElseCalm

(* The channel gains at most an event that starts nothing.                 *)
LEMMA NoStartCalm ==
    ASSUME JobInv, Single, UNCHANGED <<loop, task, body, proc, ttl, dockerVars, analyserVars>>,
           NEW ev, ev.action \notin {"Long", "Starting"},
           queue' = queue \/ queue' = Append(queue, ev), left'.starts = left.starts,
           \A k \in Clients : Asked(k)' => Asked(k), \A j \in Jobs : Finished(j)' => Finished(j)
    PROVE  Single'
<1>1. \A n \in DOMAIN queue' : Sent(n)' => n \in DOMAIN queue /\ Sent(n)
  BY Appended
<1>2. Shrinks
  BY <1>1 DEF Shrinks, Runs
<1>3. OneStart' /\ (Ahead' => Ahead)
  BY <1>2, Shrunk DEF Single
<1>4. QED
  BY <1>3, ApiCalm

(* A status written by a request or a ttl sleep is not "finish".           *)
LEMMA AskedNotFinished ==
    ASSUME JobInv, NEW j \in Jobs, Exists(j), NEW wanted \in {"Finish", "Stop", "Destroy"},
           NEW st \in Transitional, row' = SetStatus(j, wanted, st)
    PROVE  \A h \in Jobs : Finished(h)' => Finished(h)
<1>1. row'[j].actual = st /\ \A h \in Jobs : h # j => row'[h] = row[h]
  BY StatusRow
<1>2. st # "Finish"
  BY DEF Transitional
<1>3. QED
  BY <1>1, <1>2 DEF Finished, Exists

LEMMA TtlDeleteSingle ==
    ASSUME JobInv, Single, NEW j \in Jobs, TtlDelete(j)
    PROVE  Single'
<1>1. PICK ev : ev = Ev(j, "Destroying")
  OBVIOUS
<1>2. ev.action \notin {"Long", "Starting"}
  BY <1>1 DEF Ev
<1>3. UNCHANGED <<loop, task>> /\ (queue' = queue \/ queue' = Append(queue, ev))
  BY <1>1 DEF TtlDelete, TM!Emit, tmVars
<1>4. \A h \in Jobs : Finished(h)' => Finished(h)
  BY AskedNotFinished DEF TtlDelete, Transitional, Finished, Exists
<1>5. left'.starts = left.starts /\ \A k \in Clients : Asked(k)' => Asked(k)
  BY DEF TtlDelete, Asked
<1>6. QED
  BY <1>2, <1>3, <1>4, <1>5, NoStartCalm DEF TtlDelete

LEMMA CreateJobSingle ==
    ASSUME JobInv, Single, NEW k \in Clients, NEW j \in Jobs, CreateJob(k, j)
    PROVE  Single'
<1>1. PICK ev : ev = Ev(j, "Other")
  OBVIOUS
<1>2. ev.action \notin {"Long", "Starting"}
  BY <1>1 DEF Ev
<1>3. UNCHANGED <<loop, task>> /\ queue' = Append(queue, ev)
  BY <1>1 DEF CreateJob, TM!Emit
<1>4. \A h \in Jobs : Finished(h)' => Finished(h)
  BY DEF CreateJob, JobInv, Tables, Finished, Exists
<1>5. left'.starts = left.starts /\ \A c \in Clients : Asked(c)' => Asked(c)
  BY Begun DEF CreateJob, Asked
<1>6. QED
  BY <1>2, <1>3, <1>4, <1>5, NoStartCalm DEF CreateJob

LEMMA StartJobSingle ==
    ASSUME JobInv, Single, NEW k \in Clients, NEW j \in Jobs, StartJob(k, j)
    PROVE  Single'
<1>1. left.starts = 1 /\ left'.starts = 0
  BY Begun DEF StartJob, Single, OneStart, JobInv, Bounds
<1>2. PICK q \in Requests : q.op = "start" /\ req' = [req EXCEPT ![k] = q] /\ req'[k] = q /\ q # None
  BY RequestGoes DEF StartJob
<1>3. UNCHANGED <<queue, loop, task>>
  BY DEF StartJob, tmVars
<1>4. \A c \in Clients : Asked(c)' => c = k
  BY <1>1, <1>2 DEF Single, OneStart, Asked, JobInv, Callers
<1>5. OneStart'
  BY <1>1, <1>3, <1>4 DEF Single, OneStart, Sent, Runs
<1>6. Ahead
  BY <1>1 DEF Ahead
<1>7. \A h \in Jobs : Finished(h)' => Finished(h)
  BY AskedNotFinished DEF StartJob, Transitional
<1>8. PICK ev : ev = Ev(j, "Other")
  OBVIOUS
<1>9. ev.action # "Long"
  BY <1>8 DEF Ev
<1>10. QED
  BY <1>3, <1>5, <1>6, <1>7, <1>9, ApiCalm DEF StartJob

LEMMA AsksSingle ==
    ASSUME JobInv, Single, NEW k \in Clients, NEW j \in Jobs, StopJob(k, j) \/ DeleteJob(k, j)
    PROVE  Single'
<1>1. left'.starts = left.starts /\ req[k] = None
  BY Begun DEF StopJob, DeleteJob
<1>2. CASE UNCHANGED req
  <2>1. \A c \in Clients : Asked(c)' => Asked(c)
    BY <1>2 DEF Asked
  <2>2. UNCHANGED <<queue, loop, task, proc>> /\ \A h \in Jobs : Finished(h)' => Finished(h)
    BY DEF StopJob, DeleteJob, tmVars, dbVars, Finished, Exists
  <2>3. PICK ev : ev = Ev(j, "Other")
    OBVIOUS
  <2>4. ev.action \notin {"Long", "Starting"}
    BY <2>3 DEF Ev
  <2>5. QED
    BY <1>1, <2>1, <2>2, <2>4, NoStartCalm DEF StopJob, DeleteJob
<1>3. ASSUME NEW op \in {"stop", "delete"}, Goes(k, op, j, "write")
      PROVE  Single'
  <2>1. PICK q \in Requests : q.op = op /\ req' = [req EXCEPT ![k] = q] /\ req'[k] = q
    BY <1>3, RequestGoes
  <2>2. \A c \in Clients : Asked(c)' => Asked(c)
    BY <2>1 DEF Asked, JobInv, Callers
  <2>3. UNCHANGED <<queue, loop, task, proc>> /\ \A h \in Jobs : Finished(h)' => Finished(h)
    BY DEF StopJob, DeleteJob, tmVars, dbVars, Finished, Exists
  <2>4. PICK ev : ev = Ev(j, "Other")
    OBVIOUS
  <2>5. ev.action \notin {"Long", "Starting"}
    BY <2>4 DEF Ev
  <2>6. QED
    BY <1>1, <2>2, <2>3, <2>5, NoStartCalm DEF StopJob, DeleteJob
<1>4. QED
  BY <1>2, <1>3 DEF StopJob, DeleteJob

LEMMA WriteStatusSingle ==
    ASSUME JobInv, Single, NEW k \in Clients, WriteStatus(k)
    PROVE  Single'
<1>1. PICK j \in Jobs : j = req[k].j
  BY InProgress DEF WriteStatus
<1>2. PICK op \in {"start", "stop", "delete"} : op = req[k].op
  BY InProgress DEF WriteStatus
<1>3. \A c \in Clients : Asked(c)' => Asked(c)
  <2>1. CASE req' = [req EXCEPT ![k] = None]
    BY <2>1 DEF Asked, JobInv, Callers
  <2>2. CASE Goes(k, op, j, "emit")
    <3>1. PICK q \in Requests : q.op = op /\ req' = [req EXCEPT ![k] = q] /\ req'[k] = q
      BY <2>2, RequestGoes
    <3>2. QED
      BY <1>2, <3>1 DEF Asked, JobInv, Callers, WriteStatus
  <2>3. QED
    BY <1>1, <1>2, <2>1, <2>2 DEF WriteStatus
<1>4. \A h \in Jobs : Finished(h)' => Finished(h)
  <2>1. CASE UNCHANGED row
    BY <2>1 DEF Finished, Exists
  <2>2. CASE Exists(j) /\ row' = SetStatus(j, "Stop", "Stopping")
    BY <2>2, AskedNotFinished DEF Transitional
  <2>3. CASE Exists(j) /\ row' = SetStatus(j, "Destroy", "Destroying")
    BY <2>3, AskedNotFinished DEF Transitional
  <2>4. QED
    BY <1>1, <2>1, <2>2, <2>3 DEF WriteStatus
<1>5. PICK ev : ev = Ev(j, "Other")
  OBVIOUS
<1>6. ev.action \notin {"Long", "Starting"}
  BY <1>5 DEF Ev
<1>7. UNCHANGED <<queue, loop, task>> /\ left'.starts = left.starts
  BY DEF WriteStatus, tmVars
<1>8. QED
  BY <1>3, <1>4, <1>6, <1>7, NoStartCalm DEF WriteStatus

LEMMA EmitRequestSingle ==
    ASSUME JobInv, Single, NEW k \in Clients, EmitRequest(k)
    PROVE  Single'
<1>1. PICK j \in Jobs : j = req[k].j
  BY InProgress DEF EmitRequest
<1>2. PICK a \in {"Starting", "Stopping", "Destroying"} : a = EventOf(req[k].op)
  BY DEF EventOf
<1>3. req'[k] = None /\ \A c \in Clients : c # k => req'[c] = req[c]
  BY DEF EmitRequest, JobInv, Callers
<1>4. ~Asked(k)' /\ \A c \in Clients : c # k => (Asked(c)' <=> Asked(c))
  BY <1>3 DEF Asked
<1>5. \A h \in Jobs : Finished(h)' => Finished(h)
  BY DEF EmitRequest, dbVars, Finished, Exists
<1>6. UNCHANGED <<loop, task, proc>> /\ left'.starts = left.starts
  BY DEF EmitRequest, dbVars, tmVars, TM!Emit
<1>7. PICK ev : ev = Ev(j, a)
  OBVIOUS
<1>8. ev.action = a /\ ev.action # "Long"
  BY <1>7 DEF Ev
<1>9. queue' = queue \/ queue' = Append(queue, ev)
  BY <1>1, <1>2, <1>7 DEF EmitRequest, tmVars, TM!Emit
<1>10. CASE a # "Starting"
  BY <1>4, <1>5, <1>6, <1>8, <1>9, <1>10, NoStartCalm DEF EmitRequest
<1>11. CASE a = "Starting"
  <2>1. req[k].op = "start" /\ Asked(k)
    BY <1>2, <1>11, InProgress DEF EventOf, Asked, EmitRequest
  <2>2. /\ left.starts # 1 /\ \A c \in Clients : c # k => ~Asked(c)
        /\ \A n \in DOMAIN queue : ~Sent(n)
        /\ \A t \in TaskIds : ~Runs(t)
    BY <2>1 DEF Single, OneStart
  <2>3. queue \in Seq(TM!Events)
    BY TmTyped DEF JobInv, TM!TypeOK
  <2>4. \A n \in DOMAIN queue' : n = Len(queue) + 1 \/ (n \in DOMAIN queue /\ queue'[n] = queue[n])
    BY <1>9, <2>3
  <2>5. \A n \in DOMAIN queue' : Sent(n)' => n = Len(queue) + 1
    BY <2>2, <2>4 DEF Sent
  <2>6. (\A c \in Clients : ~Asked(c)') /\ \A t \in TaskIds : ~Runs(t)'
    BY <1>4, <1>6, <2>2 DEF Runs
  <2>7. OneStart'
    BY <1>6, <2>2, <2>5, <2>6 DEF OneStart, Single
  <2>8. Ahead
    BY <2>1 DEF Ahead
  <2>9. QED
    BY <1>5, <1>6, <1>8, <1>9, <2>7, <2>8, ApiCalm DEF EmitRequest
<1>12. QED
  BY <1>10, <1>11

-----------------------------------------------------------------------------
(* Docker and its analyser.                                                *)
LEMMA DockerCalm ==
    ASSUME JobInv, Single, UNCHANGED <<tmVars, row, body, ttl, req>>, left'.starts = left.starts,
           Fades, Untouched => Untouched'
    PROVE  Single'
<1>1. UNCHANGED <<queue, loop, task>>
  BY DEF tmVars
<1>2. Shrinks
  BY <1>1 DEF Shrinks, Asked, Sent, Runs
<1>3. OneStart' /\ (Ahead' => Ahead)
  BY <1>2, Shrunk DEF Single
<1>4. \A j \in Jobs : (Deciding(j)' => Deciding(j)) /\ (Finished(j)' => Finished(j))
  BY <1>1 DEF Deciding, Finished, Exists
<1>5. QED
  BY <1>1, <1>3, <1>4, ElseCalm

LEMMA DockerRecvSingle ==
    ASSUME JobInv, Single, DockerRecv
    PROVE  Single'
<1>1. /\ dq \in Seq(DockerEvents) /\ dq # <<>> /\ dq' = Tail(dq)
      /\ Head(dq) = dq[1] /\ 1 \in DOMAIN dq
  BY GoneNow DEF DockerRecv
<1>2. \A n \in DOMAIN dq' : n + 1 \in DOMAIN dq /\ dq'[n] = dq[n + 1]
  BY <1>1
<1>3. UNCHANGED <<tmVars, row, body, ttl, req, cont>> /\ left'.starts = left.starts
  BY DEF DockerRecv
<1>4. Fades
  <2>1. CASE Head(dq).type = "destroy" /\ proc' = [proc EXCEPT ![Head(dq).id] = None]
    <3>1. cont[Head(dq).id] = None
      BY <1>1, <2>1, GoneNow
    <3>2. QED
      BY <1>3, <2>1, <3>1, RowGone DEF Fades
  <2>2. CASE UNCHANGED proc
    BY <1>3, <2>2, SameFades
  <2>3. QED
    BY <2>1, <2>2 DEF DockerRecv
<1>5. ASSUME Untouched
      PROVE  Untouched'
  <2>1. Head(dq).type = "destroy"
    BY <1>1, <1>5 DEF Untouched
  <2>2. UNCHANGED <<dh, pend>>
    BY <2>1 DEF DockerRecv
  <2>3. \A n \in DOMAIN dq' : dq'[n].type = "destroy"
    BY <1>2, <1>5 DEF Untouched
  <2>4. QED
    BY <1>3, <1>4, <1>5, <2>2, <2>3, StaysUntouched DEF Untouched, tmVars, Finished, Exists
<1>6. QED
  BY <1>3, <1>4, <1>5, DockerCalm

LEMMA DockerSyncSingle ==
    ASSUME JobInv, Single, DockerSync
    PROVE  Single'
<1>1. UNCHANGED <<tmVars, row, body, ttl, req, cont>> /\ left'.starts = left.starts
  BY DEF DockerSync, dockerVars
<1>2. Fades
  BY <1>1, RowSynced DEF Fades
<1>3. ~Untouched
  BY DEF DockerSync, Untouched
<1>4. QED
  BY <1>1, <1>2, <1>3, DockerCalm

LEMMA ExitSingle ==
    ASSUME JobInv, Single, NEW i \in Conts, Exit(i)
    PROVE  Single'
<1>1. PICK st \in {"created", "up", "ok", "bad"} : EndCont(i, st) /\ st \in {"ok", "bad"}
  BY DEF Exit
<1>2. PICK c \in Instances, evs \in Seq(DockerEvents) :
          Told(i, c, evs) /\ c.st = st /\ c.job = cont[i].job
  BY <1>1, EndTold DEF Exit
<1>3. Fades
  BY <1>1, <1>2, ToldFades DEF Exit, dbVars
<1>4. ~Untouched
  BY DEF Exit, Untouched, Present
<1>5. left'.starts = left.starts
  BY SpentStarts DEF Exit
<1>6. QED
  BY <1>3, <1>4, <1>5, DockerCalm DEF Exit, dbVars

(* A step that makes the channel grow by an event that starts nothing once *)
(* a container ran.                                                        *)
LEMMA RanCalm ==
    ASSUME JobInv, Single, ~Untouched, UNCHANGED <<task, body, proc, dockerVars, req>>,
           left'.starts = left.starts, NEW ev, ev.action # "Starting",
           queue' = queue \/ queue' = Append(queue, ev),
           \A j \in Jobs : Deciding(j)' \/ Finished(j)' => Deciding(j) \/ Finished(j) \/ AllOk(j)
    PROVE  Single'
<1>1. queue \in Seq(TM!Events)
  BY TmTyped DEF JobInv, TM!TypeOK
<1>2. \A n \in DOMAIN queue' : queue'[n] = ev \/ (n \in DOMAIN queue /\ queue'[n] = queue[n])
  BY <1>1
<1>3. Shrinks
  BY <1>2 DEF Shrinks, Asked, Sent, Runs
<1>4. OneStart' /\ (Ahead' => Ahead)
  BY <1>3, Shrunk DEF Single
<1>5. Fades
  BY SameFades DEF dockerVars
<1>6. QED
  BY <1>4, <1>5, ElseCalm

LEMMA DockerEmitSingle ==
    ASSUME JobInv, Single, NEW j \in Jobs, DockerEmit(j)
    PROVE  Single'
<1>1. ~Untouched
  BY DEF DockerEmit, Untouched
<1>2. PICK ev : ev = Ev(Process(j), "Long")
  OBVIOUS
<1>3. ev.action # "Starting"
  BY <1>2 DEF Ev
<1>4. UNCHANGED <<loop, task, row, proc>> /\ queue' = Append(queue, ev)
  BY <1>2 DEF DockerEmit, TM!Emit, dbVars
<1>5. \A h \in Jobs : (Deciding(h)' => Deciding(h)) /\ (Finished(h)' => Finished(h))
  BY <1>4 DEF DockerEmit, Deciding, Finished, Exists
<1>6. QED
  BY <1>1, <1>3, <1>4, <1>5, RanCalm DEF DockerEmit

-----------------------------------------------------------------------------
(* job_ttl.  Once a container ran every container has its row, so that the *)
(* rows of a job that count none that runs or failed are all "ok", and so  *)
(* are the containers.                                                     *)
LEMMA RowsDecide ==
    ASSUME Single, ~Untouched, NEW j, RunningOf(j) = {}, FailedOf(j) = {},
           proc \in [Conts -> {None} \cup Instances]
    PROVE  AllOk(j)
<1> SUFFICES ASSUME NEW i \in Conts, cont[i] # None, cont[i].job = j
             PROVE  cont[i].st = "ok"
  BY DEF AllOk
<1>1. proc[i] # None /\ proc[i].job = j /\ (proc[i].st = "ok" => cont[i].st = "ok")
  BY DEF Single, Rowed, Agree
<1>2. proc[i].st \notin {"created", "up", "bad"}
  BY <1>1 DEF RunningOf, FailedOf, ProcsOf
<1>3. QED
  BY <1>1, <1>2 DEF Instances

LEMMA TtlSingle ==
    ASSUME JobInv, Single, TtlStep
    PROVE  Single'
<1>1. loop.pc = "busy" /\ loop.ev.obj[2] \in Jobs
  BY TmTyped, TtlJob DEF JobInv, Callers, TtlStep, TtlRead, TtlCount, TtlWrite, TtlSpawn
<1>2. PICK j \in Jobs : j = loop.ev.obj[2]
  BY <1>1
<1>3. ~Untouched
  BY <1>1 DEF Untouched
<1>4. PICK ev : ev = Ev(j, "Other")
  OBVIOUS
<1>5. ev.action # "Starting"
  BY <1>4 DEF Ev
<1>6. UNCHANGED <<task, body, proc, dockerVars, req, left>>
  BY DEF TtlStep, TtlRead, TtlCount, TtlWrite, TtlSpawn, TM!HandlerDone, TM!Emit, tmVars, dbVars
<1>7. queue' = queue \/ queue' = Append(queue, ev)
  BY <1>2, <1>4 DEF TtlStep, TtlRead, TtlCount, TtlWrite, TtlSpawn, TM!HandlerDone, TM!Emit, tmVars
<1>8. ASSUME NEW h \in Jobs, Finished(h)'
      PROVE  Deciding(h) \/ Finished(h)
  <2>1. CASE UNCHANGED row
    BY <1>8, <2>1 DEF Finished, Exists
  <2>2. CASE TtlWrite /\ Exists(j) /\ row' = SetActual(j, ttl.to)
    <3>1. PICK st \in {"Fail", "Finish"} : st = ttl.to
      BY <2>2 DEF TtlWrite
    <3>2. PICK r \in Rows : r.actual = st /\ row' = [row EXCEPT ![j] = r]
      BY <2>2, <3>1, ActualRow
    <3>3. CASE h = j
      BY <1>2, <1>8, <2>2, <3>1, <3>2, <3>3 DEF Finished, Deciding, TtlWrite, JobInv, Tables
    <3>4. CASE h # j
      BY <1>8, <3>2, <3>4 DEF Finished, Exists, JobInv, Tables
    <3>5. QED
      BY <3>3, <3>4
  <2>3. QED
    BY <1>2, <2>1, <2>2 DEF TtlStep, TtlRead, TtlCount, TtlWrite, TtlSpawn, dbVars
<1>9. ASSUME NEW h \in Jobs, Deciding(h)'
      PROVE  AllOk(h)
  <2>1. ttl' # None /\ ttl'.to = "Finish"
    BY <1>9 DEF Deciding
  <2>2. /\ TtlCount /\ RunningOf(j) = {} /\ UNCHANGED tmVars
        /\ ttl' = [ttl EXCEPT !.to = IF FailedOf(j) # {} THEN "Fail" ELSE "Finish"]
    <3>1. ~TtlRead
      BY <2>1 DEF TtlRead
    <3>2. ~TtlSpawn
      BY <2>1 DEF TtlSpawn
    <3>3. ~TtlWrite
      <4>1. ASSUME ttl # None, ttl' = [ttl EXCEPT !.to = "done"]
            PROVE  FALSE
        <5>1. ttl \in [st : {"run"}, to : {"count", "Fail", "Finish", "done"}]
          BY <4>1, TtlBusy
        <5>2. QED
          BY <2>1, <4>1, <5>1
      <4>2. QED
        BY <2>1, <4>1 DEF TtlWrite
    <3>4. QED
      BY <1>2, <2>1, <3>1, <3>2, <3>3 DEF TtlStep, TtlCount
  <2>3. ttl \in [st : {"run"}, to : {"count", "Fail", "Finish", "done"}]
    BY <2>2, TtlBusy DEF TtlCount
  <2>4. FailedOf(j) = {}
    BY <2>1, <2>2, <2>3
  <2>5. h = j
    BY <1>2, <1>9, <2>2 DEF Deciding, tmVars
  <2>6. QED
    BY <1>3, <2>2, <2>4, <2>5, RowsDecide DEF JobInv, Tables
<1>10. QED
  BY <1>3, <1>5, <1>6, <1>7, <1>8, <1>9, RanCalm

-----------------------------------------------------------------------------
(* The loop takes an event from the channel.                               *)
LEMMA ShiftUntouched ==
    ASSUME JobInv, Untouched, TM!Receive, loop'.pc # "busy",
           UNCHANGED <<row, proc, dockerVars, analyserVars>>
    PROVE  Untouched'
<1>1. \A n \in DOMAIN queue' : queue'[n].action # "Long"
  BY TmTyped, Received DEF JobInv, Untouched
<1>2. Fades
  BY SameFades DEF dockerVars
<1>3. QED
  BY <1>1, <1>2, StaysUntouched DEF Untouched, dockerVars, analyserVars, Finished, Exists

(* What is left in the channel when the event at its head is taken.        *)
LEMMA ShiftSent ==
    ASSUME JobInv, TM!Receive
    PROVE  /\ \A n \in DOMAIN queue' : Sent(n)' => n + 1 \in DOMAIN queue /\ Sent(n + 1)
           /\ DOMAIN queue' \subseteq Nat /\ 1 \in DOMAIN queue /\ Head(queue) = queue[1]
<1>1. TM!TypeOK /\ queue' = Tail(queue) /\ queue \in Seq(TM!Events) /\ queue # <<>>
  BY TmTyped DEF JobInv, TM!Receive, TM!TypeOK
<1>2. QED
  BY <1>1, Received DEF Sent

LEMMA ShiftStart ==
    ASSUME JobInv, OneStart, TM!Receive, UNCHANGED req, left'.starts = left.starts,
           \A t \in TaskIds : Runs(t)' => Runs(t) /\ (body'[t] = None => body[t] = None)
    PROVE  OneStart' /\ (Ahead' => Ahead)
<1>1. \A k \in Clients : Asked(k)' <=> Asked(k)
  BY DEF Asked
<1>2. \A n, m \in DOMAIN queue' : Sent(n)' /\ Sent(m)' => m = n
  <2>1. \A n, m \in DOMAIN queue' : Sent(n)' /\ Sent(m)' => m + 1 = n + 1
    BY ShiftSent DEF OneStart
  <2>2. QED
    BY <2>1, ShiftSent
<1>3. (\E n \in DOMAIN queue' : Sent(n)') => \E n \in DOMAIN queue : Sent(n)
  BY ShiftSent
<1>4. OneStart'
  BY <1>1, <1>2, <1>3 DEF OneStart
<1>5. Ahead' => Ahead
  BY <1>1, <1>3 DEF Ahead
<1>6. QED
  BY <1>4, <1>5

LEMMA LoopDieSingle ==
    ASSUME JobInv, Single, LoopDie
    PROVE  Single'
<1>1. TM!Receive /\ loop.pc = "recv" /\ UNCHANGED <<task, body, row, proc, cont>>
  BY DEF LoopDie, TM!RecvSource, TM!Receive, TM!Idle, dbVars, dockerVars
<1>2. ASSUME Untouched
      PROVE  Untouched'
  <2>1. Head(queue).action # "Long"
    BY <1>1, <1>2, ShiftSent DEF Untouched
  <2>2. loop'.pc # "busy"
    BY <2>1 DEF LoopDie, TM!RecvSource, TM!Idle
  <2>3. QED
    BY <1>1, <1>2, <2>2, ShiftUntouched DEF LoopDie
<1>3. left'.starts = left.starts /\ UNCHANGED <<req, ttl>>
  BY DEF LoopDie
<1>4. OneStart' /\ (Ahead' => Ahead)
  BY <1>1, <1>3, ShiftStart DEF Single, Runs
<1>5. ttl = None
  BY <1>1 DEF JobInv, Callers
<1>6. \A j \in Jobs : ~Deciding(j)' /\ (Finished(j)' => Finished(j))
  BY <1>1, <1>3, <1>5 DEF Deciding, Finished, Exists
<1>7. Fades
  BY <1>1, SameFades
<1>8. QED
  BY <1>1, <1>2, <1>4, <1>6, <1>7, ElseCalm

LEMMA LoopRecvSingle ==
    ASSUME JobInv, Single, LoopRecv
    PROVE  Single'
<1>1. TM!TypeOK /\ TM!Receive /\ loop.pc = "recv" /\ UNCHANGED <<row, proc, cont, req, ttl>>
  BY TmTyped DEF JobInv, LoopRecv, TM!RecvJob, TM!Receive, TM!Idle, dbVars, dockerVars
<1>2. PICK ev \in TM!Events : ev = Head(queue)
  BY <1>1, Received
<1>3. loop'.pc # "busy" /\ left'.starts = left.starts
  BY <1>2, RecvMoves DEF TM!Idle, LoopRecv
<1>4. Untouched => Untouched'
  BY <1>1, <1>3, ShiftUntouched DEF LoopRecv
<1>5. \A s \in TaskIds : Stays(s) => (Runs(s)' <=> Runs(s)) /\ body'[s] = body[s]
  BY DEF Stays, Runs
<1>6. \A s \in TaskIds : Aborts(s, ev) => ~Runs(s)'
  BY DEF Aborts, Runs, TM!Done
<1>7. \A s \in TaskIds : Created(s, ev) => body'[s] = None /\ (Runs(s)' <=> ev.action = "Starting")
  BY DEF Created, Runs, TM!Running
<1>8. OneStart' /\ (Ahead' => Ahead)
  <2>1. CASE ev.action # "Starting"
    <3>1. \A s \in TaskIds : Runs(s)' => Runs(s) /\ body'[s] = body[s]
      BY <1>2, <1>5, <1>6, <1>7, <2>1, RecvMoves
    <3>2. QED
      BY <1>1, <1>3, <3>1, ShiftStart DEF Single
  <2>2. CASE ev.action = "Starting"
    <3>1. 1 \in DOMAIN queue /\ Sent(1)
      BY <1>1, <1>2, <2>2, ShiftSent DEF Sent
    <3>2. /\ left.starts # 1 /\ \A k \in Clients : ~Asked(k)
          /\ \A t \in TaskIds : ~Runs(t)
      BY <3>1 DEF Single, OneStart
    <3>3. \A n \in DOMAIN queue' : ~Sent(n)'
      <4>1. \A n \in DOMAIN queue' : Sent(n)' => n + 1 = 1 /\ n \in Nat
        BY <1>1, <3>1, ShiftSent DEF Single, OneStart
      <4>2. 0 \notin DOMAIN queue'
        BY <1>1 DEF TM!Receive, TM!TypeOK
      <4>3. QED
        BY <4>1, <4>2
    <3>4. PICK t \in TaskIds : \A s \in TaskIds : s # t => Stays(s) \/ Aborts(s, ev)
      BY <1>2, <2>2, RecvMoves
    <3>5. \A s \in TaskIds : Runs(s)' => s = t
      BY <1>5, <1>6, <3>2, <3>4
    <3>6. \A k \in Clients : ~Asked(k)'
      BY <1>1, <3>2 DEF Asked
    <3>7. OneStart'
      BY <1>3, <3>2, <3>3, <3>5, <3>6 DEF Single, OneStart
    <3>8. QED
      BY <3>1, <3>7 DEF Ahead
  <2>3. QED
    BY <2>1, <2>2
<1>9. ttl = None
  BY <1>1 DEF JobInv, Callers
<1>10. \A j \in Jobs : ~Deciding(j)' /\ (Finished(j)' => Finished(j))
  BY <1>1, <1>9 DEF Deciding, Finished, Exists
<1>11. ASSUME NEW s \in TaskIds, Runs(s)', body'[s] # None
       PROVE  Runs(s) /\ Stays(s)
  BY <1>2, <1>5, <1>6, <1>7, <1>11, RecvMoves
<1>12. Fades
  BY <1>1, SameFades
<1>13. QED
  BY <1>4, <1>8, <1>10, <1>11, <1>12, CalmKept

-----------------------------------------------------------------------------
LEMMA StepSingle ==
    ASSUME JobInv, Kept, Single, [Next]_vars
    PROVE  Single'
<1>1. CASE UNCHANGED vars
  <2>1. UNCHANGED <<tmVars, row, body, ttl, req, cont, proc, dq, dh, pend, left>>
    BY <1>1 DEF vars, dbVars, dockerVars, analyserVars
  <2>2. Fades
    BY <2>1, SameFades
  <2>3. Untouched => Untouched'
    BY <2>1 DEF Untouched, Exists, tmVars
  <2>4. QED
    BY <2>1, <2>2, <2>3, DockerCalm
<1>2. CASE Next
  <2>1. ASSUME NEW k \in Clients, NewRequest(k)
        PROVE  Single'
    BY <2>1, CreateJobSingle, StartJobSingle, AsksSingle DEF NewRequest
  <2>2. ASSUME NEW k \in Clients, RequestStep(k)
        PROVE  Single'
    BY <2>2, WriteStatusSingle, EmitRequestSingle DEF RequestStep
  <2>3. QED
    BY <1>2, <2>1, <2>2, LoopRecvSingle, LoopDieSingle, TtlSingle, TtlDeleteSingle,
       DockerEmitSingle, DockerRecvSingle, DockerSyncSingle, TaskStepSingle, ExitSingle DEF Next
<1>3. QED
  BY <1>1, <1>2

LEMMA InitSingle ==
    ASSUME Init, left.w.starts <= 1
    PROVE  Single
<1>1. PICK w \in Worlds : left = [w |-> w, made |-> 0, reqs |-> w.reqs, starts |-> w.starts,
                                  fails |-> w.fails]
  BY DEF Init
<1>2. left.starts <= 1
  BY <1>1
<1>3. \A t \in TaskIds : ~Runs(t)
  BY DEF Init, TM!Init, TM!Done, Runs
<1>4. (\A k \in Clients : ~Asked(k)) /\ \A i \in Conts : cont[i] = None
  BY DEF Init, Asked
<1>5. queue = <<>> /\ DOMAIN queue = {}
  BY DEF Init, TM!Init
<1>6. OneStart
  BY <1>2, <1>3, <1>4, <1>5 DEF OneStart
<1>7. dq = <<>> /\ DOMAIN dq = {} /\ dh = None /\ loop.pc # "busy"
  BY DEF Init, TM!Init, TM!Idle
<1>8. \A j \in Jobs : pend[j] = 0 /\ ~Exists(j)
  BY DEF Init, Exists
<1>9. Untouched
  BY <1>4, <1>5, <1>7, <1>8 DEF Untouched
<1>10. \A j \in Jobs : AllOk(j)
  BY <1>4 DEF AllOk
<1>11. Agree /\ \A i \in Conts : ~Up(i)
  BY <1>4 DEF Agree, Up
<1>12. QED
  BY <1>3, <1>4, <1>6, <1>9, <1>10, <1>11 DEF Single

LEMMA SingleInvariant == Spec => [](JobInv /\ (left.w.starts <= 1 => Single))
<1>1. Init => (left.w.starts <= 1 => Single)
  BY InitSingle
<1>2. ASSUME JobInv, left.w.starts <= 1 => Single, [Next]_vars
      PROVE  (left.w.starts <= 1 => Single)'
  <2>1. Kept /\ left'.w = left.w
    BY <1>2, StepKept DEF Kept
  <2>2. CASE left.w.starts <= 1
    BY <1>2, <2>1, <2>2, StepSingle
  <2>3. QED
    BY <2>1, <2>2
<1>3. QED
  BY <1>1, <1>2, JobInvariant, PTL DEF Spec

(* A job that is started once runs its containers one after the other,     *)
(* whatever start calls fail, requests stop or delete it and however late  *)
(* docker's events are handled.                                            *)
THEOREM JobIsSequential == Spec => []Sequential
<1>1. JobInv /\ (left.w.starts <= 1 => Single) => Sequential
  <2> SUFFICES ASSUME Single, NEW j \in Jobs
               PROVE  Cardinality(UpOf(j)) <= 1
    BY DEF Sequential
  <2>1. \A a, b \in UpOf(j) : a = b
    BY DEF Single, Up, UpOf
  <2>2. CASE UpOf(j) = {}
    BY <2>2, FS_EmptySet
  <2>3. ASSUME NEW i \in UpOf(j)
        PROVE  Cardinality(UpOf(j)) <= 1
    <3>1. UpOf(j) = {i}
      BY <2>1, <2>3
    <3>2. QED
      BY <3>1, FS_Singleton
  <2>4. QED
    BY <2>2, <2>3
<1>2. QED
  BY <1>1, SingleInvariant, PTL

(* job_ttl decides from the rows, which the analyser updates late: for a   *)
(* job that is started once "finish" is still never early or wrong.        *)
THEOREM FinishIsEarned == Spec => []FinishIsTrue
<1>1. JobInv /\ (left.w.starts <= 1 => Single) => FinishIsTrue
  BY DEF Single, Finished, AllOk, FinishIsTrue
<1>2. QED
  BY <1>1, SingleInvariant, PTL
=============================================================================
