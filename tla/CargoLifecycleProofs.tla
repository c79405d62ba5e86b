------------------------ MODULE CargoLifecycleProofs ------------------------
(***************************************************************************)
(* Safety of the life of cargoes, for every set of cargoes, secrets, task  *)
(* handles and connections, and every world: any number of replicas,       *)
(* containers, requests, failed docker calls and crashes.                  *)
(*                                                                         *)
(* Neither RowPerContainer nor NotStuck is inductive.  That an event of    *)
(* docker handled late never takes the row of a living container needs     *)
(* that containers are not made twice and that every destroy event in the  *)
(* channel is of one that is gone (Gone).  That no cargo stays in a        *)
(* transitional status needs who will write the next one: a request not    *)
(* yet emitted, an event in the channel or in the hand of the loop, or a   *)
(* task that has its last status write before it (Closing).  Both need     *)
(* that a task with local variables is running (Locals), which rests on    *)
(* the invariant of TaskManager: the loop aborts no cargo's task.          *)
(*                                                                         *)
(* The second half is about the containers, in layers of which each needs  *)
(* the ones before: what a task has in its hands (Steady), that what is    *)
(* gone has its destroy event ahead (Swept), that a deletion covers every  *)
(* container of its cargo (Deleting, Housed), that a row says what docker  *)
(* says or what an event ahead will make it say (Followed), which init     *)
(* container a task waits for (Staged), and that what is doomed has a      *)
(* relief (Upheld).                                                        *)
(***************************************************************************)
EXTENDS CargoLifecycle, WellFoundedInduction, TLAPS

TMP == INSTANCE TaskManagerProofs WITH Serial <- Cargoes, Jobs <- {}, Sources <- Secrets

Procs == [st : ContStates, cargo : Cargoes, init : BOOLEAN, tmp : Nat]

Containers == [st : ContStates, cargo : Cargoes, init : BOOLEAN, tmp : Nat, spec : Nat]

Rows == [st : {"row"}, wanted : Statuses, actual : Statuses, spec : Nat]

DockerEvents(C) ==
    [type : {"start", "die", "stop", "destroy", "rename"}, id : C,
     cargo : Cargoes, init : BOOLEAN, tmp : Nat]

Pcs == {"rows", "init", "initrun", "initwait", "create", "list", "run", "rename", "undo",
        "back", "stop", "remove", "final", "end"}

Frames(C) ==
    [st : {"run"}, pc : Pcs, todo : SUBSET C, new : SUBSET C, spec : Nat,
     rows : [C -> {None} \cup Procs], make : BOOLEAN, tmp : Nat, err : BOOLEAN]

Requests(C, ops) ==
    [st : {"run"}, op : ops, c : Cargoes, pc : {"each", "write", "spec", "emit"},
     todo : SUBSET C]

Bounds ==
    left \in [w : Worlds, made : Nat, reqs : Nat, fails : Nat, crashes : Nat,
              seen : SUBSET AllOps]

(* The tables, docker and its events.                                      *)
Tables ==
    /\ row \in [Cargoes -> {None} \cup Rows]
    /\ proc \in [Conts -> {None} \cup Procs]
    /\ cont \in [Conts -> {None} \cup Containers]
    /\ dq \in Seq(DockerEvents(Conts))
    /\ dh \in {None} \cup [st : {"run"}, pc : {"write", "sync"}, ev : DockerEvents(Conts)]

(* Requests, the secret handler and the late removals.                     *)
Callers ==
    /\ doomed \subseteq Conts
    /\ secret \in {None} \cup [st : {"run"}, todo : SUBSET Cargoes]
    /\ req \in [Clients -> {None} \cup Requests(Conts, left.w.ops)]

(* The local variables b of a task body: a step that takes the newest of   *)
(* its list has one, and an update renames instances it read a row of.     *)
GoodFrame(b, C) ==
    /\ b \in Frames(C)
    /\ b.pc \in {"initrun", "remove"} => b.todo # {}
    /\ b.pc \in {"rename", "back"} => \A i \in b.todo : b.rows[i] # None

(* A task has local variables only while its body runs.                    *)
Locals ==
    /\ body \in [TaskIds -> {None} \cup Frames(Conts)]
    /\ \A t \in TaskIds : body[t] # None => GoodFrame(body[t], Conts) /\ task[t].phase = "body"

(* Containers not made yet do not exist, and one whose destroy event is on *)
(* its way never comes back.                                               *)
Gone ==
    /\ \A i \in Conts : i > left.made => cont[i] = None
    /\ \A n \in DOMAIN dq : dq[n].type = "destroy" =>
          dq[n].id <= left.made /\ cont[dq[n].id] = None

(* Who will write the status of c next.                                    *)
Asks(k, c) ==
    /\ req[k] # None
    /\ req[k].c = c
    /\ req[k].op \in {"start", "stop", "put", "delete", "force"}
    /\ req[k].pc \in {"spec", "emit"}

Asking(c) == \E k \in Clients : Asks(k, c)

Calls(ev, c) == ev.obj = c /\ ev.action \in TM!TaskActions

Queued(c) ==
    \/ \E n \in DOMAIN queue : Calls(queue[n], c)
    \/ loop.pc = "wait" /\ Calls(loop.ev, c)

Works(t, c) ==
    /\ task[t] # TM!Done
    /\ Calls(task[t].ev, c)
    /\ body[t] # None => body[t].pc # "end"

Working(c) == \E t \in TaskIds : Works(t, c)

Closing ==
    \A c \in Cargoes :
        Exists(c) /\ row[c].actual \in Transitional => Asking(c) \/ Queued(c) \/ Working(c)

CargoInv ==
    /\ Bounds /\ Tables /\ Callers /\ Locals
    /\ TMP!IInv
    /\ RowPerContainer /\ Gone
    /\ Closing

-----------------------------------------------------------------------------
(* TaskManager as CargoLifecycle and as TaskManagerProofs see it.          *)
LEMMA TmAssumed ==
    TMP!KindsAssumption /\ TMP!TaskIdsAssumption /\ TMP!MaxQueueAssumption
BY TmAssumption DEF TMP!KindsAssumption, TMP!TaskIdsAssumption, TMP!MaxQueueAssumption,
   TMP!Objects

LEMMA TmNext ==
    ASSUME [TM!Next]_(TM!vars)
    PROVE  [TMP!Next]_(TMP!vars)
BY DEF TM!Next, TMP!Next, TM!vars, TMP!vars, TM!Events, TMP!Events, TM!TaskActions,
   TMP!TaskActions, TM!Objects, TMP!Objects, TM!Emit, TMP!Emit, TM!LoopStep, TMP!LoopStep,
   TM!RecvError, TMP!RecvError, TM!RecvWait, TMP!RecvWait, TM!RecvSerial, TMP!RecvSerial,
   TM!RecvJob, TMP!RecvJob, TM!RecvSource, TMP!RecvSource, TM!WaitDone, TMP!WaitDone,
   TM!HandlerDone, TMP!HandlerDone, TM!TaskStep, TMP!TaskStep, TM!BodyOk, TMP!BodyOk,
   TM!BodyErr, TMP!BodyErr, TM!OnErrorDone, TMP!OnErrorDone, TM!Receive, TMP!Receive,
   TM!Dispatch, TMP!Dispatch, TM!AddTask, TMP!AddTask, TM!Aborted, TMP!Aborted,
   TM!Removed, TMP!Removed, TM!CreatesTask, TMP!CreatesTask, TM!Idle, TMP!Idle,
   TM!Done, TMP!Done, TM!Running, TMP!Running

LEMMA TmTyped ==
    ASSUME TMP!IInv
    PROVE  TM!TypeOK
BY DEF TMP!IInv, TMP!TypeOK, TM!TypeOK, TMP!Events, TM!Events, TMP!LoopStates,
   TM!LoopStates, TMP!TaskStates, TM!TaskStates, TM!Idle, TMP!Idle, TM!Done, TMP!Done,
   TM!Objects, TMP!Objects, TM!TaskActions, TMP!TaskActions

LEMMA TmInit ==
    ASSUME TM!Init
    PROVE  TMP!IInv
BY TmAssumption DEF TM!Init, TM!Idle, TM!Done, TM!Objects, TMP!IInv, TMP!TypeOK, TMP!LoopStates,
   TMP!TaskStates, TMP!MapTracksBodies, TMP!Body, TMP!WaitsOnEntry, TMP!Idle, TMP!Done,
   TMP!Objects

(* The invariant of TaskManager, kept by every step of TaskManager.        *)
LEMMA TmKept ==
    ASSUME TMP!IInv, [TM!Next]_(TM!vars)
    PROVE  TMP!IInv'
BY TmNext, TmAssumed, TMP!IInvStep
DEF TMP!IInvStep, TMP!KindsAssumption, TMP!TaskIdsAssumption, TMP!MaxQueueAssumption

(* A task that runs, runs for an event of a cargo.                         *)
LEMMA RunsCargo ==
    ASSUME TM!TypeOK, NEW t \in TaskIds, task[t].phase = "body"
    PROVE  /\ task[t] = TM!Running(task[t].ev, "body")
           /\ task[t].ev \in TM!Events
           /\ task[t].ev.action \in TM!TaskActions => task[t].ev.obj \in Cargoes
BY TmAssumption DEF TM!TypeOK, TM!TaskStates, TM!Done, TM!Running, TM!Events, TM!Objects, TM!TaskActions

(* The events the daemon emits about cargoes and secrets.                  *)
LEMMA Emitted ==
    ASSUME NEW c \in Cargoes, NEW a \in TM!TaskActions \cup {"Other"}
    PROVE  Ev(c, a) \in TM!Events
BY DEF Ev, TM!Events, TM!Objects

LEMMA EmittedSecret ==
    ASSUME NEW s \in Secrets
    PROVE  Ev(s, "Long") \in TM!Events
BY DEF Ev, TM!Events

-----------------------------------------------------------------------------
(* The newest of a list that is not empty is one of it, and the newest.    *)
LEMMA NewestOf ==
    ASSUME NEW n \in Nat, NEW S \in SUBSET (1..n), S # {}
    PROVE  Newest(S) \in S /\ \A j \in S : j <= Newest(S)
<1> DEFINE T == {n - i : i \in S}
           R == OpToRel(<, Nat)
<1>1. T \subseteq Nat
  OBVIOUS
<1>2. T # {}
  OBVIOUS
<1>3. IsWellFoundedOn(R, Nat)
  BY NatLessThanWellFounded
<1>4. PICK x \in T : \A y \in T : ~ (<<y, x>> \in R)
  <2> HIDE DEF R, T
  <2> QED
    BY <1>1, <1>2, <1>3, WFMin
<1>5. PICK i \in S : x = n - i
  OBVIOUS
<1>6. \A j \in S : j <= i
  <2> SUFFICES ASSUME NEW j \in S, ~(j <= i) PROVE FALSE
    OBVIOUS
  <2>1. <<n - j, x>> \in R
    BY <1>5 DEF OpToRel
  <2> QED
    BY <1>4, <2>1
<1>7. QED
  BY <1>6 DEF Newest

LEMMA NewestCont ==
    ASSUME Bounds, NEW S \in SUBSET Conts, S # {}
    PROVE  Newest(S) \in S /\ Newest(S) \in Conts
<1>1. left.w.conts \in Nat
  BY ConstAssumption DEF Bounds
<1>2. QED
  BY <1>1, NewestOf DEF Conts

-----------------------------------------------------------------------------
(* A call of docker about the container i: no container but i changes, one *)
(* that is gone stays so, and the only destroy event that is new is i's,   *)
(* when i is gone.                                                         *)
Drives(i) ==
    /\ cont' \in [Conts -> {None} \cup Containers]
    /\ \A j \in Conts : j # i => cont'[j] = cont[j]
    /\ cont[i] # None
    /\ dq' \in Seq(DockerEvents(Conts))
    /\ \A n \in DOMAIN dq' : dq'[n].type = "destroy" =>
          \/ dq'[n].id = i /\ cont'[i] = None
          \/ \E m \in DOMAIN dq : dq'[n] = dq[m]

LEMMA Joined ==
    ASSUME NEW S, NEW s \in Seq(S), NEW u \in Seq(S)
    PROVE  /\ s \o u \in Seq(S)
           /\ \A n \in DOMAIN (s \o u) :
                 \/ \E m \in DOMAIN s : (s \o u)[n] = s[m]
                 \/ \E m \in DOMAIN u : (s \o u)[n] = u[m]
<1>1. s \o u \in Seq(S) /\ Len(s \o u) = Len(s) + Len(u)
  OBVIOUS
<1>2. ASSUME NEW n \in DOMAIN (s \o u)
      PROVE  \/ \E m \in DOMAIN s : (s \o u)[n] = s[m]
             \/ \E m \in DOMAIN u : (s \o u)[n] = u[m]
  <2>1. n \in 1..(Len(s) + Len(u))
    BY <1>1
  <2>2. CASE n <= Len(s)
    <3>1. n \in DOMAIN s /\ (s \o u)[n] = s[n]
      BY <2>1, <2>2
    <3>2. QED
      BY <3>1
  <2>3. CASE n > Len(s)
    <3>1. n - Len(s) \in DOMAIN u /\ (s \o u)[n] = u[n - Len(s)]
      BY <2>1, <2>3
    <3>2. QED
      BY <3>1
  <2>4. QED
    BY <2>1, <2>2, <2>3
<1>3. QED
  BY <1>1, <1>2

LEMMA Appended ==
    ASSUME NEW S, NEW s \in Seq(S), NEW e \in S
    PROVE  /\ Append(s, e) \in Seq(S)
           /\ \A n \in DOMAIN Append(s, e) :
                 Append(s, e)[n] = e \/ \E m \in DOMAIN s : Append(s, e)[n] = s[m]
<1>1. Append(s, e) \in Seq(S) /\ Len(Append(s, e)) = Len(s) + 1
  OBVIOUS
<1>2. ASSUME NEW n \in DOMAIN Append(s, e)
      PROVE  Append(s, e)[n] = e \/ \E m \in DOMAIN s : Append(s, e)[n] = s[m]
  <2>1. n \in 1..(Len(s) + 1)
    BY <1>1
  <2>2. CASE n = Len(s) + 1
    BY <2>2
  <2>3. CASE n # Len(s) + 1
    <3>1. n \in DOMAIN s /\ Append(s, e)[n] = s[n]
      BY <2>1, <2>3
    <3>2. QED
      BY <3>1
  <2>4. QED
    BY <2>2, <2>3
<1>3. QED
  BY <1>1, <1>2

(* What docker says of a container it has.                                 *)
LEMMA EventTyped ==
    ASSUME Tables, NEW i \in Conts, Present(i),
           NEW type \in {"start", "die", "stop", "destroy", "rename"}
    PROVE  /\ DockerEvent(type, i) \in DockerEvents(Conts)
           /\ DockerEvent(type, i).type = type
           /\ DockerEvent(type, i).id = i
<1>1. cont[i] \in Containers
  BY DEF Tables, Present
<1>2. QED
  BY <1>1 DEF Containers, DockerEvent, DockerEvents

LEMMA DieTyped ==
    ASSUME Tables, NEW i \in Conts, Present(i)
    PROVE  /\ DieOf(i) \in Seq(DockerEvents(Conts))
           /\ \A n \in DOMAIN DieOf(i) : DieOf(i)[n].type # "destroy"
<1>1. DockerEvent("die", i) \in DockerEvents(Conts) /\ DockerEvent("die", i).type = "die"
  BY EventTyped
<1>2. CASE cont[i].st = "up"
  BY <1>1, <1>2 DEF DieOf
<1>3. CASE cont[i].st # "up"
  BY <1>3 DEF DieOf
<1>4. QED
  BY <1>2, <1>3

(* Putting the container i in the state r and appending one event that is  *)
(* not a destroy, or none, is a call about i.                              *)
LEMMA DrivesBy ==
    ASSUME Tables, NEW i \in Conts, Present(i), NEW r \in Containers,
           cont' = [cont EXCEPT ![i] = r],
           \/ dq' = dq
           \/ \E e \in DockerEvents(Conts) : e.type # "destroy" /\ dq' = Append(dq, e)
           \/ \E u \in Seq(DockerEvents(Conts)) :
                 (\A n \in DOMAIN u : u[n].type # "destroy") /\ dq' = dq \o u
    PROVE  Drives(i)
<1>1. /\ cont' \in [Conts -> {None} \cup Containers]
      /\ \A j \in Conts : j # i => cont'[j] = cont[j]
      /\ cont[i] # None
  BY DEF Tables, Present
<1>2. dq \in Seq(DockerEvents(Conts))
  BY DEF Tables
<1>3. CASE dq' = dq
  BY <1>1, <1>2, <1>3 DEF Drives
<1>4. ASSUME NEW e \in DockerEvents(Conts), e.type # "destroy", dq' = Append(dq, e)
      PROVE  Drives(i)
  <2>1. /\ dq' \in Seq(DockerEvents(Conts))
        /\ \A n \in DOMAIN dq' : dq'[n] = e \/ \E m \in DOMAIN dq : dq'[n] = dq[m]
    BY <1>2, <1>4, Appended
  <2>2. QED
    BY <1>1, <1>4, <2>1 DEF Drives
<1>5. ASSUME NEW u \in Seq(DockerEvents(Conts)),
             \A n \in DOMAIN u : u[n].type # "destroy", dq' = dq \o u
      PROVE  Drives(i)
  <2>1. /\ dq' \in Seq(DockerEvents(Conts))
        /\ \A n \in DOMAIN dq' : \/ \E m \in DOMAIN dq : dq'[n] = dq[m]
                                 \/ \E m \in DOMAIN u : dq'[n] = u[m]
    <3>1. /\ dq \o u \in Seq(DockerEvents(Conts))
          /\ \A n \in DOMAIN (dq \o u) : \/ \E m \in DOMAIN dq : (dq \o u)[n] = dq[m]
                                         \/ \E m \in DOMAIN u : (dq \o u)[n] = u[m]
      <4>1. ASSUME NEW S, NEW s \in Seq(S), NEW e \in Seq(S)
            PROVE  /\ s \o e \in Seq(S)
                   /\ \A n \in DOMAIN (s \o e) : \/ \E m \in DOMAIN s : (s \o e)[n] = s[m]
                                                \/ \E m \in DOMAIN e : (s \o e)[n] = e[m]
        BY Joined
      <4>2. QED
        BY <1>2, <4>1
    <3>2. QED
      BY <1>5, <3>1, Zenon
  <2>2. ASSUME NEW n \in DOMAIN dq', dq'[n].type = "destroy"
        PROVE  \E m \in DOMAIN dq : dq'[n] = dq[m]
    BY <1>5, <2>1, <2>2
  <2>3. QED
    BY <1>1, <2>1, <2>2 DEF Drives
<1>6. QED
  BY <1>3, <1>4, <1>5

LEMMA StartDrives ==
    ASSUME Tables, NEW i \in Conts, Present(i), StartCont(i)
    PROVE  Drives(i)
<1> DEFINE r == [cont[i] EXCEPT !.st = "up"]
<1>1. r \in Containers /\ cont' = [cont EXCEPT ![i] = r]
  BY DEF Tables, Present, Containers, ContStates, StartCont
<1>2. \/ dq' = dq
      \/ \E e \in DockerEvents(Conts) : e.type # "destroy" /\ dq' = Append(dq, e)
  BY EventTyped DEF StartCont
<1> HIDE DEF r
<1>3. QED
  BY <1>1, <1>2, DrivesBy

LEMMA StopDrives ==
    ASSUME Tables, NEW i \in Conts, Present(i), StopCont(i)
    PROVE  Drives(i)
<1> DEFINE r == [cont[i] EXCEPT !.st = CASE @ = "up" -> IF cont[i].init THEN "bad" ELSE "down"
                                         [] @ = "crashed" -> "down"
                                         [] OTHER -> @]
<1>1. cont[i] \in Containers
  BY DEF Tables, Present
<1>2. r \in Containers
  BY <1>1 DEF Containers, ContStates
<1>3. cont' = [cont EXCEPT ![i] = r]
  BY DEF Tables, StopCont
<1>4. CASE cont[i].st = "up"
  <2>1. dq' = dq \o DieOf(i)
    BY <1>4 DEF StopCont
  <2> HIDE DEF r
  <2>2. QED
    BY <1>2, <1>3, <2>1, DieTyped, DrivesBy
<1>5. CASE cont[i].st # "up"
  <2>1. \/ dq' = dq
        \/ \E e \in DockerEvents(Conts) : e.type # "destroy" /\ dq' = Append(dq, e)
    BY <1>5, EventTyped DEF StopCont
  <2> HIDE DEF r
  <2>2. QED
    BY <1>2, <1>3, <2>1, DrivesBy
<1>6. QED
  BY <1>4, <1>5

LEMMA RenameDrives ==
    ASSUME Tables, NEW i \in Conts, Present(i), NEW n \in Nat, RenameCont(i, n)
    PROVE  Drives(i)
<1> DEFINE r == [cont[i] EXCEPT !.tmp = n]
           e == [DockerEvent("rename", i) EXCEPT !.tmp = n]
<1>1. r \in Containers /\ cont' = [cont EXCEPT ![i] = r]
  BY DEF Tables, Present, Containers, ContStates, RenameCont
<1>2. e \in DockerEvents(Conts) /\ e.type # "destroy"
  <2>1. DockerEvent("rename", i) \in DockerEvents(Conts)
        /\ DockerEvent("rename", i).type = "rename"
    BY EventTyped
  <2>2. QED
    BY <2>1 DEF DockerEvents
<1>3. dq' = Append(dq, e)
  BY DEF RenameCont
<1> HIDE DEF r, e
<1>4. QED
  BY <1>1, <1>2, <1>3, DrivesBy

LEMMA RestartDrives ==
    ASSUME Tables, NEW i \in Conts, Present(i), RestartCont(i)
    PROVE  Drives(i)
<1> DEFINE r == [cont[i] EXCEPT !.st = "up"]
           u == DieOf(i) \o <<DockerEvent("start", i)>>
<1>1. r \in Containers /\ cont' = [cont EXCEPT ![i] = r]
  BY DEF Tables, Present, Containers, ContStates, RestartCont
<1>2. <<DockerEvent("start", i)>> \in Seq(DockerEvents(Conts))
      /\ \A n \in DOMAIN <<DockerEvent("start", i)>> :
            <<DockerEvent("start", i)>>[n].type # "destroy"
  BY EventTyped
<1>3. u \in Seq(DockerEvents(Conts)) /\ \A n \in DOMAIN u : u[n].type # "destroy"
  BY <1>2, DieTyped, Joined
<1>4. dq' = dq \o u
  BY <1>2, DieTyped DEF RestartCont, Tables
<1> HIDE DEF r, u
<1>5. QED
  BY <1>1, <1>3, <1>4, DrivesBy

LEMMA ExitDrives ==
    ASSUME Tables, NEW i \in Conts, Present(i), NEW st \in ContStates, Exit(i, st)
    PROVE  Drives(i)
<1> DEFINE r == [cont[i] EXCEPT !.st = st]
<1>1. r \in Containers /\ cont' = [cont EXCEPT ![i] = r]
  BY DEF Tables, Present, Containers, Exit
<1>2. \E e \in DockerEvents(Conts) : e.type # "destroy" /\ dq' = Append(dq, e)
  BY EventTyped DEF Exit
<1> HIDE DEF r
<1>3. QED
  BY <1>1, <1>2, DrivesBy

LEMMA RemoveDrives ==
    ASSUME Tables, NEW i \in Conts, Present(i), RemoveCont(i)
    PROVE  Drives(i) /\ cont'[i] = None
<1> DEFINE d == <<DockerEvent("destroy", i)>>
           v == dq \o DieOf(i)
<1>1. /\ cont' \in [Conts -> {None} \cup Containers]
      /\ \A j \in Conts : j # i => cont'[j] = cont[j]
      /\ cont[i] # None /\ cont'[i] = None
  BY DEF Tables, Present, RemoveCont
<1>2. d \in Seq(DockerEvents(Conts)) /\ \A n \in DOMAIN d : d[n].id = i
  <2>1. PICK e \in DockerEvents(Conts) : e = DockerEvent("destroy", i) /\ e.id = i
    BY EventTyped
  <2>2. <<e>> \in Seq(DockerEvents(Conts)) /\ \A n \in DOMAIN <<e>> : <<e>>[n] = e
    OBVIOUS
  <2>3. QED
    BY <2>1, <2>2
<1>3. dq \in Seq(DockerEvents(Conts))
  BY DEF Tables
<1>4. /\ v \in Seq(DockerEvents(Conts))
      /\ \A n \in DOMAIN v : \/ \E m \in DOMAIN dq : v[n] = dq[m]
                             \/ \E m \in DOMAIN DieOf(i) : v[n] = DieOf(i)[m]
  <2>1. DieOf(i) \in Seq(DockerEvents(Conts))
    BY DieTyped
  <2>2. QED
    BY <1>3, <2>1, Joined
<1>5. dq' = v \o d
  BY DEF RemoveCont
<1> HIDE DEF d, v
<1>6. /\ dq' \in Seq(DockerEvents(Conts))
      /\ \A n \in DOMAIN dq' : \/ \E m \in DOMAIN v : dq'[n] = v[m]
                               \/ \E m \in DOMAIN d : dq'[n] = d[m]
  BY <1>2, <1>4, <1>5, Joined
<1>7. ASSUME NEW n \in DOMAIN dq', dq'[n].type = "destroy"
      PROVE  dq'[n].id = i \/ \E m \in DOMAIN dq : dq'[n] = dq[m]
  <2>1. CASE \E m \in DOMAIN d : dq'[n] = d[m]
    BY <1>2, <2>1
  <2>2. ASSUME NEW m \in DOMAIN v, dq'[n] = v[m]
        PROVE  \E k \in DOMAIN dq : dq'[n] = dq[k]
    BY <1>4, <1>7, <2>2, DieTyped
  <2>3. QED
    BY <1>6, <2>1, <2>2
<1>8. QED
  BY <1>1, <1>6, <1>7 DEF Drives

-----------------------------------------------------------------------------
(* A step that lets docker be or makes one call, and takes only rows of    *)
(* containers that are gone, keeps a row for every container.              *)
DockerMove == UNCHANGED dockerVars \/ \E i \in Conts : Drives(i)

RowMove ==
    /\ proc' \in [Conts -> {None} \cup Procs]
    /\ \A j \in Conts : proc[j] # None /\ proc'[j] = None => cont'[j] = None

LEMMA InDq ==
    ASSUME Tables, NEW n \in DOMAIN dq
    PROVE  dq[n] \in DockerEvents(Conts) /\ dq[n].id \in Conts
<1>1. dq \in Seq(DockerEvents(Conts))
  BY DEF Tables
<1>2. dq[n] \in DockerEvents(Conts)
  BY <1>1
<1>3. QED
  BY <1>2 DEF DockerEvents

LEMMA RowsStep ==
    ASSUME Bounds, Tables, Gone, RowPerContainer, left'.w = left.w, left'.made = left.made,
           DockerMove, RowMove
    PROVE  /\ proc' \in [Conts -> {None} \cup Procs]
           /\ cont' \in [Conts -> {None} \cup Containers]
           /\ dq' \in Seq(DockerEvents(Conts))
           /\ Gone' /\ RowPerContainer'
<1>1. Conts' = Conts
  BY DEF Conts
<1>2. CASE UNCHANGED dockerVars
  <2>1. RowPerContainer'
    BY <1>1, <1>2 DEF RowPerContainer, RowMove, dockerVars
  <2>2. QED
    BY <1>1, <1>2, <2>1 DEF Gone, RowMove, dockerVars, Tables
<1>3. ASSUME NEW i \in Conts, Drives(i)
      PROVE  /\ cont' \in [Conts -> {None} \cup Containers]
             /\ dq' \in Seq(DockerEvents(Conts))
             /\ Gone' /\ RowPerContainer'
  <2>1. \A j \in Conts : cont'[j] # None => cont[j] # None
    BY <1>3 DEF Drives
  <2>2. RowPerContainer'
    BY <1>1, <2>1 DEF RowPerContainer, RowMove
  <2>3. ASSUME NEW n \in DOMAIN dq', dq'[n].type = "destroy"
        PROVE  dq'[n].id <= left.made /\ cont'[dq'[n].id] = None
    <3>1. CASE dq'[n].id = i /\ cont'[i] = None
      <4>1. i \in Nat /\ left.made \in Nat
        BY ConstAssumption DEF Bounds, Conts
      <4>2. ~(i > left.made)
        BY <1>3 DEF Gone, Drives
      <4>3. QED
        BY <3>1, <4>1, <4>2
    <3>2. ASSUME NEW m \in DOMAIN dq, dq'[n] = dq[m]
          PROVE  dq'[n].id <= left.made /\ cont'[dq'[n].id] = None
      <4>1. dq[m].id <= left.made /\ cont[dq[m].id] = None
        BY <2>3, <3>2 DEF Gone
      <4>2. dq[m].id \in Conts
        BY InDq
      <4>3. QED
        BY <2>1, <3>2, <4>1, <4>2
    <3>3. QED
      BY <1>3, <2>3, <3>1, <3>2 DEF Drives
  <2>4. Gone'
    BY <1>1, <2>1, <2>3 DEF Gone
  <2>5. QED
    BY <1>3, <2>2, <2>4 DEF Drives
<1>4. QED
  BY <1>2, <1>3 DEF DockerMove, RowMove

(* process::create makes containers with their rows, under new ids.        *)
LEMMA CreateStep ==
    ASSUME Bounds, Tables, Gone, RowPerContainer, left'.w = left.w,
           NEW m \in Nat, left'.made = left.made + m, NEW c \in Cargoes,
           NEW init \in BOOLEAN, NEW spec \in Nat,
           CreateConts(Fresh(m), c, init, spec), UNCHANGED dq
    PROVE  /\ proc' \in [Conts -> {None} \cup Procs]
           /\ cont' \in [Conts -> {None} \cup Containers]
           /\ dq' \in Seq(DockerEvents(Conts))
           /\ Gone' /\ RowPerContainer'
<1>1. Conts' = Conts
  BY DEF Conts
<1>2. NewCont(c, init, spec) \in Containers /\ NewProc(c, init) \in Procs
  BY DEF NewCont, NewProc, Containers, Procs, ContStates
<1>3. NewProc(c, init) # None
  BY DEF NewProc, None
<1>4. /\ \A i \in Conts : cont'[i] = IF i \in Fresh(m) THEN NewCont(c, init, spec) ELSE cont[i]
      /\ \A i \in Conts : proc'[i] = IF i \in Fresh(m) THEN NewProc(c, init) ELSE proc[i]
  BY DEF CreateConts
<1>5. proc' \in [Conts -> {None} \cup Procs] /\ cont' \in [Conts -> {None} \cup Containers]
  BY <1>2 DEF CreateConts, Tables
<1>6. RowPerContainer'
  BY <1>1, <1>3, <1>4 DEF RowPerContainer
<1>7. left.made \in Nat /\ Conts \subseteq Nat
  BY ConstAssumption DEF Bounds, Conts
<1>8. \A i \in Conts : i > left.made + m => cont'[i] = None
  BY <1>4, <1>7 DEF Gone, Fresh
<1>9. ASSUME NEW n \in DOMAIN dq, dq[n].type = "destroy"
      PROVE  dq[n].id <= left.made + m /\ cont'[dq[n].id] = None
  <2>1. dq[n].id \in Conts
    BY InDq
  <2>2. dq[n].id <= left.made /\ cont[dq[n].id] = None
    BY <1>9 DEF Gone
  <2>3. dq[n].id \notin Fresh(m)
    BY <1>7, <2>1, <2>2 DEF Fresh
  <2>4. cont'[dq[n].id] = None
    BY <1>4, <2>1, <2>2, <2>3
  <2>5. dq[n].id <= left.made + m
    <3>1. PICK x \in Nat, y \in Nat : x = dq[n].id /\ y = left.made /\ x <= y
      BY <1>7, <2>1, <2>2
    <3>2. x <= y + m
      BY <3>1
    <3>3. QED
      BY <3>1, <3>2
  <2>6. QED
    BY <2>4, <2>5
<1>10. Gone'
  BY <1>1, <1>8, <1>9 DEF Gone
<1>11. QED
  BY <1>5, <1>6, <1>10 DEF Tables

-----------------------------------------------------------------------------
(* What every action shows: the world stays, docker and the process rows   *)
(* are as the lemmas above leave them, and the invariant is kept by a step *)
(* that TaskManager allows.                                                *)
LeftMove == Bounds' /\ left'.w = left.w

Docked ==
    /\ proc' \in [Conts -> {None} \cup Procs]
    /\ cont' \in [Conts -> {None} \cup Containers]
    /\ dq' \in Seq(DockerEvents(Conts))
    /\ Gone' /\ RowPerContainer'

Kept == CargoInv' /\ [TM!Next]_(TM!vars)

LEMMA SameDock ==
    ASSUME CargoInv, LeftMove, UNCHANGED <<proc, dockerVars>>, left'.made = left.made
    PROVE  Docked
BY RowsStep DEF CargoInv, LeftMove, Docked, DockerMove, RowMove, dockerVars, Tables

LEMMA SameLeft ==
    ASSUME CargoInv, UNCHANGED left
    PROVE  LeftMove /\ left'.made = left.made
BY DEF CargoInv, LeftMove, Bounds

LEMMA SpentFail ==
    ASSUME CargoInv, MayFail, SpendFail
    PROVE  LeftMove /\ left'.made = left.made
BY DEF CargoInv, LeftMove, Bounds, MayFail, SpendFail

LEMMA FailedCall ==
    ASSUME CargoInv, NEW ok, CallFails(ok)
    PROVE  LeftMove /\ left'.made = left.made
BY SameLeft, SpentFail DEF CallFails

(* The local variables of a task that goes on.                             *)
LEMMA GotoGood ==
    ASSUME NEW C, NEW t, GoodFrame(body[t], C), NEW pc \in Pcs \ {"rename", "back"},
           NEW todo, todo \subseteq C, pc \in {"initrun", "remove"} => todo # {}
    PROVE  GoodFrame(Goto(t, pc, todo), C) /\ Goto(t, pc, todo).pc = pc
BY DEF GoodFrame, Frames, Goto

LEMMA DoneGood ==
    ASSUME NEW C, NEW t, GoodFrame(body[t], C), NEW i,
           body[t].pc \notin {"initrun", "remove"}
    PROVE  GoodFrame(Done(t, i), C) /\ Done(t, i).pc = body[t].pc
BY DEF GoodFrame, Frames, Done

LEMMA FrameGood ==
    ASSUME NEW spec \in Nat, NEW pc \in Pcs \ {"initrun", "remove", "rename", "back"},
           NEW todo \in SUBSET Conts
    PROVE  GoodFrame(Frame(spec, pc, todo), Conts) /\ Frame(spec, pc, todo).pc = pc
BY DEF GoodFrame, Frames, Frame

LEMMA GotoInit ==
    ASSUME NEW C, NEW t, GoodFrame(body[t], C), NEW todo, todo \subseteq C, todo # {}
    PROVE  GoodFrame(Goto(t, "initrun", todo), C) /\ Goto(t, "initrun", todo).pc # "end"
BY DEF GoodFrame, Frames, Goto, Pcs

(* A task at work: its event, its cargo and its local variables.           *)
LEMMA Running ==
    ASSUME CargoInv, NEW t \in TaskIds, NEW acts, acts \subseteq TM!TaskActions, NEW pc,
           At(t, acts, pc)
    PROVE  /\ task[t].phase = "body" /\ task[t].ev.action \in acts /\ Obj(t) \in Cargoes
           /\ GoodFrame(body[t], Conts) /\ body[t].pc = pc
<1>1. TM!TypeOK /\ task[t].phase = "body" /\ GoodFrame(body[t], Conts)
  BY TmTyped DEF CargoInv, Locals, At
<1>2. QED
  BY <1>1, RunsCargo DEF At, Obj

LEMMA Starts ==
    ASSUME CargoInv, NEW t \in TaskIds, NEW a \in TM!TaskActions, Reads(t, a)
    PROVE  /\ task[t].phase = "body" /\ task[t].ev.action = a /\ Obj(t) \in Cargoes
           /\ body[t] = None
BY TmTyped, RunsCargo DEF CargoInv, Reads, Obj

-----------------------------------------------------------------------------
(* The parts of the invariant under a step of the task t.                  *)
LEMMA TablesKept ==
    ASSUME LeftMove, Docked, row' \in [Cargoes -> {None} \cup Rows],
           dh' \in {None} \cup [st : {"run"}, pc : {"write", "sync"}, ev : DockerEvents(Conts)]
    PROVE  Tables' /\ Conts' = Conts
<1>1. Conts' = Conts
  BY DEF Conts, LeftMove
<1>2. QED
  BY <1>1 DEF Tables, Docked

LEMMA CallersKept ==
    ASSUME CargoInv, LeftMove, doomed' \subseteq Conts, UNCHANGED <<secret, req>>
    PROVE  Callers'
<1>1. Conts' = Conts
  BY DEF Conts, LeftMove
<1>2. QED
  BY <1>1 DEF CargoInv, Callers, LeftMove

LEMMA LocalsKept ==
    ASSUME CargoInv, LeftMove, NEW t \in TaskIds, NEW b, Set(t, b),
           \A s \in TaskIds : s # t => task'[s] = task[s],
           b # None => GoodFrame(b, Conts) /\ task'[t].phase = "body"
    PROVE  Locals'
<1>1. Conts' = Conts
  BY DEF Conts, LeftMove
<1>2. /\ body' \in [TaskIds -> {None} \cup Frames(Conts)]
      /\ body'[t] = b /\ \A s \in TaskIds : s # t => body'[s] = body[s]
  BY DEF CargoInv, Locals, Set, GoodFrame
<1>3. ASSUME NEW s \in TaskIds, body'[s] # None
      PROVE  GoodFrame(body'[s], Conts) /\ task'[s].phase = "body"
  BY <1>2, <1>3 DEF CargoInv, Locals
<1>4. QED
  BY <1>1, <1>2, <1>3 DEF Locals

(* A step of t that makes no status transitional, and leaves no status of  *)
(* its cargo transitional when t was the one to write it and no longer is. *)
LEMMA QueuedKept ==
    ASSUME TM!TypeOK, NEW c, Queued(c), UNCHANGED loop,
           queue' = queue \/ \E ev : queue' = Append(queue, ev)
    PROVE  Queued(c)'
<1>1. CASE loop.pc = "wait" /\ Calls(loop.ev, c)
  BY <1>1 DEF Queued, Calls
<1>2. ASSUME NEW n \in DOMAIN queue, Calls(queue[n], c)
      PROVE  Queued(c)'
  <2>1. queue \in Seq(TM!Events)
    BY DEF TM!TypeOK
  <2>2. n \in DOMAIN queue' /\ queue'[n] = queue[n]
    BY <2>1
  <2>3. QED
    BY <1>2, <2>2 DEF Queued, Calls
<1>3. QED
  BY <1>1, <1>2 DEF Queued

LEMMA ClosingKept ==
    ASSUME CargoInv, NEW t \in TaskIds, UNCHANGED <<loop, req>>,
           queue' = queue \/ \E ev : queue' = Append(queue, ev),
           \A s \in TaskIds : s # t => task'[s] = task[s] /\ body'[s] = body[s],
           \A c \in Cargoes : Exists(c)' /\ row'[c].actual \in Transitional =>
               /\ Exists(c) /\ row[c].actual \in Transitional
               /\ Works(t, c) => Works(t, c)'
    PROVE  Closing'
<1> SUFFICES ASSUME NEW c \in Cargoes, Exists(c)', row'[c].actual \in Transitional
             PROVE  Asking(c)' \/ Queued(c)' \/ Working(c)'
  BY DEF Closing
<1>1. Asking(c) \/ Queued(c) \/ Working(c)
  BY DEF CargoInv, Closing
<1>2. CASE Asking(c)
  BY <1>2 DEF Asking, Asks
<1>3. CASE Queued(c)
  BY <1>3, TmTyped, QueuedKept DEF CargoInv
<1>4. ASSUME NEW s \in TaskIds, Works(s, c)
      PROVE  Working(c)'
  <2>1. CASE s = t
    BY <1>4, <2>1 DEF Working
  <2>2. CASE s # t
    BY <1>4, <2>2 DEF Working, Works
  <2>3. QED
    BY <2>1, <2>2
<1>5. QED
  BY <1>1, <1>2, <1>3, <1>4 DEF Working

(* The body goes on.                                                       *)
LEMMA Proceeds ==
    ASSUME CargoInv, NEW t \in TaskIds, task[t].phase = "body",
           UNCHANGED <<tmVars, row, secret, dh, clientVars>>,
           NEW b, Set(t, b), GoodFrame(b, Conts), b.pc # "end",
           doomed' \subseteq Conts, LeftMove, Docked
    PROVE  Kept
<1>1. Tables' /\ Callers' /\ Locals'
  BY TablesKept, CallersKept, LocalsKept DEF tmVars, clientVars, CargoInv, Tables
<1>2. [TM!Next]_(TM!vars)
  BY DEF TM!vars, tmVars
<1>3. TMP!IInv'
  BY <1>2, TmKept DEF CargoInv
<1>4. body'[t] = b /\ \A s \in TaskIds : s # t => body'[s] = body[s]
  BY DEF Set, CargoInv, Locals
<1>5. \A c \in Cargoes : Works(t, c) => Works(t, c)'
  BY <1>4 DEF Works, tmVars, Calls
<1>6. Closing'
  BY <1>4, <1>5, ClosingKept DEF tmVars, clientVars, Exists
<1>7. QED
  BY <1>1, <1>2, <1>3, <1>6 DEF Kept, CargoInv, LeftMove, Docked

(* The body returns Err: its on_error callback will write the status.      *)
LEMMA Fails ==
    ASSUME CargoInv, NEW t \in TaskIds, Err(t),
           UNCHANGED <<row, secret, dh, clientVars, doomed>>, LeftMove, Docked
    PROVE  Kept
<1>1. TM!TypeOK
  BY TmTyped DEF CargoInv
<1>2. /\ task[t].phase = "body" /\ UNCHANGED <<queue, loop>>
      /\ task'[t] = TM!Running(task[t].ev, "onerr")
      /\ \A s \in TaskIds : s # t => task'[s] = task[s]
  BY <1>1 DEF Err, TM!BodyErr, TM!TypeOK
<1>3. body'[t] = None /\ \A s \in TaskIds : s # t => body'[s] = body[s]
  BY DEF Err, Set, CargoInv, Locals
<1>4. Tables' /\ Callers' /\ Locals'
  BY <1>2, TablesKept, CallersKept, LocalsKept DEF Err, clientVars, CargoInv, Tables, Callers
<1>5. [TM!Next]_(TM!vars)
  BY DEF Err, TM!Next, TM!TaskStep
<1>6. TMP!IInv'
  BY <1>5, TmKept DEF CargoInv
<1>7. \A c \in Cargoes : Works(t, c) => Works(t, c)'
  BY <1>2, <1>3 DEF Works, Calls, TM!Running, TM!Done
<1>8. Closing'
  BY <1>2, <1>3, <1>7, ClosingKept DEF clientVars, Exists
<1>9. QED
  BY <1>4, <1>5, <1>6, <1>8 DEF Kept, CargoInv, LeftMove, Docked

(* A status write of the body that is not transitional, or that takes the  *)
(* row, with its event.                                                    *)
LEMMA Writes ==
    ASSUME CargoInv, NEW t \in TaskIds, task[t].phase = "body", Obj(t) \in Cargoes,
           UNCHANGED <<secret, dh, clientVars>>, TM!Emit(Ev(Obj(t), "Other")),
           NEW r, row' = [row EXCEPT ![Obj(t)] = r],
           r = None \/ (r \in Rows /\ r.actual \notin Transitional),
           NEW b, Set(t, b), GoodFrame(b, Conts), doomed' \subseteq Conts, LeftMove, Docked
    PROVE  Kept
<1>1. UNCHANGED <<loop, tasks, task>> /\ \E ev : queue' = Append(queue, ev)
  BY DEF TM!Emit
<1>2. row' \in [Cargoes -> {None} \cup Rows]
      /\ row'[Obj(t)] = r /\ \A c \in Cargoes : c # Obj(t) => row'[c] = row[c]
  BY DEF CargoInv, Tables
<1>3. Tables' /\ Callers' /\ Locals'
  BY <1>1, <1>2, TablesKept, CallersKept, LocalsKept DEF clientVars, CargoInv, Tables
<1>4. [TM!Next]_(TM!vars)
  BY Emitted DEF TM!Next
<1>5. TMP!IInv'
  BY <1>4, TmKept DEF CargoInv
<1>6. \A s \in TaskIds : s # t => body'[s] = body[s]
  BY DEF Set, CargoInv, Locals
<1>7. \A c \in Cargoes : Works(t, c) => c = Obj(t)
  BY DEF Works, Calls, Obj
<1>8. \A c \in Cargoes : Exists(c)' /\ row'[c].actual \in Transitional => c # Obj(t)
  BY <1>2 DEF Exists
<1>9. Closing'
  BY <1>1, <1>2, <1>6, <1>7, <1>8, ClosingKept DEF clientVars, Exists
<1>10. QED
  BY <1>3, <1>4, <1>5, <1>9 DEF Kept, CargoInv, LeftMove, Docked

-----------------------------------------------------------------------------
(* The actions of a start and an update, one lemma each where they differ. *)
LEMMA RowSpec ==
    ASSUME CargoInv, NEW c \in Cargoes, Exists(c)
    PROVE  row[c] \in Rows /\ row[c].spec \in Nat
BY DEF CargoInv, Tables, Exists, Rows

(* Writing the actual status keeps a row a row.                            *)
LEMMA ActualRow ==
    ASSUME CargoInv, NEW c \in Cargoes, Exists(c), NEW st \in Statuses
    PROVE  \E r \in Rows : r.actual = st /\ SetActual(c, st) = [row EXCEPT ![c] = r]
<1>1. row[c] \in Rows
  BY RowSpec
<1>2. [row[c] EXCEPT !.actual = st] \in Rows /\ [row[c] EXCEPT !.actual = st].actual = st
  BY <1>1 DEF Rows
<1>3. SetActual(c, st) = [row EXCEPT ![c] = [row[c] EXCEPT !.actual = st]]
  BY DEF SetActual
<1>4. QED
  BY <1>2, <1>3

LEMMA ReadCargoKept ==
    ASSUME CargoInv, NEW t \in TaskIds, ReadCargo(t)
    PROVE  Kept
<1>1. PICK a \in Launching : Reads(t, a)
  BY DEF ReadCargo
<1>2. task[t].phase = "body" /\ Obj(t) \in Cargoes
  BY <1>1, Starts DEF Launching, TM!TaskActions
<1>3. LeftMove /\ Docked /\ UNCHANGED <<row, secret, dh, clientVars, doomed>>
  BY SameLeft, SameDock DEF ReadCargo, dbVars
<1>4. CASE Err(t)
  BY <1>3, <1>4, Fails
<1>5. CASE /\ Exists(Obj(t)) /\ UNCHANGED tmVars
           /\ Set(t, Frame(row[Obj(t)].spec, "rows", {}))
  <2>1. GoodFrame(Frame(row[Obj(t)].spec, "rows", {}), Conts)
        /\ Frame(row[Obj(t)].spec, "rows", {}).pc # "end"
    BY <1>2, <1>5, RowSpec, FrameGood DEF Pcs
  <2>2. doomed' \subseteq Conts
    BY <1>3 DEF CargoInv, Callers
  <2>3. QED
    BY <1>2, <1>3, <1>5, <2>1, <2>2, Proceeds
<1>6. QED
  BY <1>4, <1>5 DEF ReadCargo

LEMMA ReadStartKept ==
    ASSUME CargoInv, NEW t \in TaskIds, ReadStart(t)
    PROVE  Kept
<1>1. At(t, {"Starting"}, "rows")
  BY DEF ReadStart
<1>2. task[t].phase = "body" /\ GoodFrame(body[t], Conts)
  BY <1>1, Running DEF TM!TaskActions
<1>3. LeftMove /\ Docked
  BY SameLeft, SameDock DEF ReadStart, dbVars
<1>0. PICK tmp : tmp = IF InitsOf(Obj(t)) = {} THEN 0 ELSE proc[Newest(InitsOf(Obj(t)))].tmp
  OBVIOUS
<1>4. PICK pc \in {"init", "create", "list"}, make \in BOOLEAN :
          Set(t, [Goto(t, pc, InitsOf(Obj(t))) EXCEPT !.make = make, !.tmp = tmp])
  BY <1>0 DEF ReadStart
<1>5. InitsOf(Obj(t)) \subseteq Conts /\ \A i \in InitsOf(Obj(t)) : proc[i] # None
  BY DEF InitsOf, ProcsOf
<1>6. tmp \in Nat
  <2>1. CASE InitsOf(Obj(t)) # {}
    <3>1. Newest(InitsOf(Obj(t))) \in InitsOf(Obj(t))
      BY <1>5, <2>1, NewestCont DEF CargoInv
    <3>2. proc[Newest(InitsOf(Obj(t)))] \in Procs
      BY <1>5, <3>1 DEF CargoInv, Tables
    <3>3. QED
      BY <1>0, <2>1, <3>2 DEF Procs
  <2>2. QED
    BY <1>0, <2>1
<1> DEFINE g == Goto(t, pc, InitsOf(Obj(t)))
           b == [g EXCEPT !.make = make, !.tmp = tmp]
<1>7. GoodFrame(g, Conts) /\ g.pc = pc
  <2>1. pc \in Pcs \ {"rename", "back"} /\ pc \notin {"initrun", "remove"}
    BY DEF Pcs
  <2>2. PICK todo : todo = InitsOf(Obj(t))
    OBVIOUS
  <2>3. GoodFrame(Goto(t, pc, todo), Conts) /\ Goto(t, pc, todo).pc = pc
    BY <1>2, <1>5, <2>1, <2>2, GotoGood
  <2>4. QED
    BY <2>2, <2>3
<1>8. GoodFrame(b, Conts) /\ b.pc # "end"
  <2> HIDE DEF g
  <2>1. PICK h : h = [g EXCEPT !.make = make]
    OBVIOUS
  <2>2. GoodFrame(h, Conts) /\ h.pc = pc
    BY <1>7, <2>1 DEF GoodFrame, Frames
  <2>3. PICK f : f = [h EXCEPT !.tmp = tmp]
    OBVIOUS
  <2>4. GoodFrame(f, Conts) /\ f.pc = pc
    BY <1>6, <2>2, <2>3 DEF GoodFrame, Frames
  <2>5. f = b
    BY <1>7, <2>1, <2>3 DEF GoodFrame, Frames
  <2>6. QED
    BY <2>4, <2>5
<1>9. Set(t, b)
  BY <1>4
<1> HIDE DEF b
<1>10. QED
  BY <1>2, <1>3, <1>8, <1>9, Proceeds DEF ReadStart, dbVars, CargoInv, Callers

LEMMA CreateInitKept ==
    ASSUME CargoInv, NEW t \in TaskIds, CreateInit(t)
    PROVE  Kept
<1>1. At(t, Launching, "init")
  BY DEF CreateInit
<1>2. task[t].phase = "body" /\ GoodFrame(body[t], Conts) /\ Obj(t) \in Cargoes
  BY <1>1, Running DEF TM!TaskActions, Launching
<1>3. UNCHANGED <<row, doomed, secret, dh, dq, clientVars>> /\ doomed' \subseteq Conts
  BY DEF CreateInit, CargoInv, Callers
<1>4. CASE /\ CreateConts(Fresh(1), Obj(t), TRUE, body[t].spec)
           /\ Set(t, Goto(t, "initrun", Fresh(1)))
           /\ left' = [left EXCEPT !.made = @ + 1]
           /\ UNCHANGED tmVars
  <2>1. LeftMove /\ left'.made = left.made + 1
    BY <1>4 DEF CargoInv, Bounds, LeftMove
  <2>2. body[t].spec \in Nat
    BY <1>2 DEF GoodFrame, Frames
  <2>3. Docked
    BY <1>2, <1>3, <1>4, <2>1, <2>2, CreateStep DEF CargoInv, LeftMove, Docked
  <2>4. Fresh(1) \subseteq Conts /\ Fresh(1) # {}
    <3>1. left.made \in Nat
      BY DEF CargoInv, Bounds
    <3>2. left.made + 1 \in Fresh(1)
      BY <3>1 DEF Fresh
    <3>3. QED
      BY <1>4, <3>2 DEF CreateConts
  <2>5. GoodFrame(Goto(t, "initrun", Fresh(1)), Conts) /\ Goto(t, "initrun", Fresh(1)).pc # "end"
    BY <1>2, <2>4, GotoInit
  <2>6. QED
    BY <1>2, <1>3, <1>4, <2>1, <2>3, <2>5, Proceeds
<1>5. CASE MayFail /\ SpendFail /\ Err(t) /\ UNCHANGED <<cont, proc>>
  <2>1. LeftMove /\ Docked
    BY <1>3, <1>5, SpentFail, SameDock DEF dockerVars
  <2>2. QED
    BY <1>3, <1>5, <2>1, Fails
<1>6. CASE /\ body[t].todo # {}
           /\ Set(t, Goto(t, "initrun", {Newest(body[t].todo)}))
           /\ UNCHANGED <<tmVars, cont, proc, left>>
  <2>1. LeftMove /\ Docked
    BY <1>3, <1>6, SameLeft, SameDock DEF dockerVars
  <2>2. Newest(body[t].todo) \in Conts
    BY <1>2, <1>6, NewestCont DEF CargoInv, GoodFrame, Frames
  <2> DEFINE b == Goto(t, "initrun", {Newest(body[t].todo)})
  <2>3. GoodFrame(b, Conts) /\ b.pc # "end"
    BY <1>2, <2>2, GotoInit
  <2> HIDE DEF b
  <2>4. QED
    BY <1>2, <1>3, <1>6, <2>1, <2>3, Proceeds DEF b
<1>7. QED
  BY <1>4, <1>5, <1>6 DEF CreateInit

(* One docker call, the process rows left alone.                           *)
LEMMA Driven ==
    ASSUME CargoInv, LeftMove, left'.made = left.made, UNCHANGED proc,
           NEW i \in Conts, Drives(i)
    PROVE  Docked
<1>1. DockerMove /\ RowMove
  BY DEF DockerMove, RowMove, CargoInv, Tables
<1>2. QED
  BY <1>1, RowsStep DEF CargoInv, LeftMove, Docked

LEMMA StartInitKept ==
    ASSUME CargoInv, NEW t \in TaskIds, StartInit(t)
    PROVE  Kept
<1>1. At(t, Launching, "initrun")
  BY DEF StartInit
<1>2. task[t].phase = "body" /\ GoodFrame(body[t], Conts) /\ body[t].pc = "initrun"
  BY <1>1, Running DEF TM!TaskActions, Launching
<1>3. UNCHANGED <<row, proc, doomed, secret, dh, clientVars>> /\ doomed' \subseteq Conts
  BY DEF StartInit, CargoInv, Callers, dbVars
<1>4. PICK i : i = Newest(body[t].todo)
  OBVIOUS
<1>5. i \in Conts
  BY <1>2, <1>4, NewestCont DEF CargoInv, GoodFrame, Frames
<1>6. CASE /\ Present(i) /\ StartCont(i) /\ Set(t, Goto(t, "initwait", {i}))
           /\ UNCHANGED <<tmVars, left>>
  <2>1. LeftMove /\ left'.made = left.made
    BY <1>6, SameLeft
  <2>2. Drives(i)
    BY <1>5, <1>6, StartDrives DEF CargoInv
  <2>3. Docked
    BY <1>3, <1>5, <2>1, <2>2, Driven
  <2>4. GoodFrame(Goto(t, "initwait", {i}), Conts) /\ Goto(t, "initwait", {i}).pc # "end"
    BY <1>2, <1>5 DEF GoodFrame, Frames, Goto, Pcs
  <2>5. QED
    BY <1>2, <1>3, <1>6, <2>1, <2>3, <2>4, Proceeds
<1>7. ASSUME NEW ok, CallFails(ok), Err(t), UNCHANGED dockerVars
      PROVE  Kept
  <2>1. LeftMove /\ Docked
    BY <1>3, <1>7, FailedCall, SameDock
  <2>2. QED
    BY <1>3, <1>7, <2>1, Fails
<1>8. QED
  BY <1>4, <1>6, <1>7 DEF StartInit

LEMMA WaitInitKept ==
    ASSUME CargoInv, NEW t \in TaskIds, WaitInit(t)
    PROVE  Kept
<1>1. At(t, Launching, "initwait")
  BY DEF WaitInit
<1>2. task[t].phase = "body" /\ GoodFrame(body[t], Conts)
  BY <1>1, Running DEF TM!TaskActions, Launching
<1>3. /\ UNCHANGED <<row, proc, doomed, secret, dh, clientVars>> /\ doomed' \subseteq Conts
      /\ LeftMove /\ Docked
  BY SameLeft, SameDock DEF WaitInit, CargoInv, Callers, dbVars
<1>4. ASSUME NEW pc \in {"create", "list"}, Set(t, Goto(t, pc, {})), UNCHANGED tmVars
      PROVE  Kept
  <2>1. GoodFrame(Goto(t, pc, {}), Conts) /\ Goto(t, pc, {}).pc # "end"
    BY <1>2 DEF GoodFrame, Frames, Goto, Pcs
  <2>2. QED
    BY <1>2, <1>3, <1>4, <2>1, Proceeds
<1>5. CASE Err(t)
  BY <1>3, <1>5, Fails
<1>6. QED
  BY <1>4, <1>5 DEF WaitInit

LEMMA CreateInstancesKept ==
    ASSUME CargoInv, NEW t \in TaskIds, CreateInstances(t)
    PROVE  Kept
<1>1. At(t, Launching, "create")
  BY DEF CreateInstances
<1>2. /\ task[t].phase = "body" /\ GoodFrame(body[t], Conts) /\ Obj(t) \in Cargoes
      /\ body[t].spec \in Nat
  BY <1>1, Running DEF TM!TaskActions, Launching, GoodFrame, Frames
<1>3. UNCHANGED <<row, doomed, secret, dh, dq, clientVars>> /\ doomed' \subseteq Conts
  BY DEF CreateInstances, CargoInv, Callers
<1>4. PICK n \in 0..Replicas :
        /\ CreateConts(Fresh(n), Obj(t), FALSE, body[t].spec)
        /\ \/ /\ Set(t, [Goto(t, "list", {}) EXCEPT !.new = Fresh(n)])
              /\ left' = [left EXCEPT !.made = @ + n]
              /\ UNCHANGED tmVars
           \/ /\ MayFail
              /\ left' = [left EXCEPT !.made = @ + n, !.fails = @ - 1]
              /\ Err(t)
  BY DEF CreateInstances
<1>5. n \in Nat
  BY ConstAssumption DEF Replicas, CargoInv, Bounds
<1>6. LeftMove /\ left'.made = left.made + n
  <2>1. Bounds
    BY DEF CargoInv
  <2>2. CASE left' = [left EXCEPT !.made = @ + n]
    BY <1>5, <2>1, <2>2 DEF Bounds, LeftMove
  <2>3. CASE MayFail /\ left' = [left EXCEPT !.made = @ + n, !.fails = @ - 1]
    <3>1. left.fails - 1 \in Nat
      BY <2>1, <2>3 DEF Bounds, MayFail
    <3>2. PICK g : g = [left EXCEPT !.made = @ + n]
      OBVIOUS
    <3>3. /\ g \in [w : Worlds, made : Nat, reqs : Nat, fails : Nat, crashes : Nat,
                   seen : SUBSET AllOps]
          /\ g.w = left.w /\ g.made = left.made + n /\ g.fails = left.fails
      BY <1>5, <2>1, <3>2 DEF Bounds
    <3>4. left' = [g EXCEPT !.fails = left.fails - 1]
      BY <2>3, <3>2, <3>3
    <3>5. QED
      BY <3>1, <3>3, <3>4 DEF Bounds, LeftMove
  <2>4. QED
    BY <1>4, <2>2, <2>3
<1>7. Docked
  BY <1>2, <1>3, <1>4, <1>5, <1>6, CreateStep DEF CargoInv, LeftMove, Docked
<1>8. CASE UNCHANGED tmVars /\ Set(t, [Goto(t, "list", {}) EXCEPT !.new = Fresh(n)])
  <2>1. Fresh(n) \subseteq Conts
    BY <1>4 DEF CreateConts
  <2> DEFINE b == [Goto(t, "list", {}) EXCEPT !.new = Fresh(n)]
  <2>2. GoodFrame(b, Conts) /\ b.pc # "end"
    BY <1>2, <2>1 DEF GoodFrame, Frames, Goto, Pcs
  <2>3. Set(t, b)
    BY <1>8
  <2> HIDE DEF b
  <2>4. QED
    BY <1>2, <1>3, <1>6, <1>7, <1>8, <2>2, <2>3, Proceeds
<1>9. CASE Err(t)
  BY <1>3, <1>6, <1>7, <1>9, Fails
<1>10. QED
  BY <1>4, <1>8, <1>9

LEMMA ListInstancesKept ==
    ASSUME CargoInv, NEW t \in TaskIds, ListInstances(t)
    PROVE  Kept
<1>1. At(t, Launching, "list")
  BY DEF ListInstances
<1>2. task[t].phase = "body" /\ GoodFrame(body[t], Conts)
  BY <1>1, Running DEF TM!TaskActions, Launching
<1>3. LeftMove /\ Docked
  BY SameLeft, SameDock DEF ListInstances, dbVars
<1>4. InstancesOf(Obj(t)) \subseteq Conts
  BY DEF InstancesOf, ProcsOf
<1> DEFINE b == Goto(t, "run", InstancesOf(Obj(t)))
<1>5. GoodFrame(b, Conts) /\ b.pc # "end"
  BY <1>2, <1>4 DEF GoodFrame, Frames, Goto, Pcs
<1>6. Set(t, b)
  BY DEF ListInstances
<1> HIDE DEF b
<1>7. QED
  BY <1>2, <1>3, <1>5, <1>6, Proceeds DEF ListInstances, dbVars, CargoInv, Callers

LEMMA StartInstanceKept ==
    ASSUME CargoInv, NEW t \in TaskIds, StartInstance(t)
    PROVE  Kept
<1>1. At(t, Launching, "run")
  BY DEF StartInstance
<1>2. task[t].phase = "body" /\ GoodFrame(body[t], Conts) /\ body[t].pc = "run"
  BY <1>1, Running DEF TM!TaskActions, Launching
<1>3. PICK i : i = Newest(body[t].todo)
  OBVIOUS
<1>4. i \in Conts
  BY <1>2, <1>3, NewestCont DEF CargoInv, GoodFrame, Frames, StartInstance
<1>5. Drives(i) /\ Set(t, Done(t, i))
  BY <1>3, <1>4, StartDrives DEF CargoInv, StartInstance
<1>6. LeftMove /\ Docked
  BY <1>4, <1>5, SameLeft, Driven DEF StartInstance, dbVars
<1>7. GoodFrame(Done(t, i), Conts) /\ Done(t, i).pc # "end"
  BY <1>2, DoneGood
<1>8. QED
  BY <1>2, <1>5, <1>6, <1>7, Proceeds DEF StartInstance, dbVars, CargoInv, Callers

(* An update that fails goes on rolling back.                              *)
LEMMA StartFailedKept ==
    ASSUME CargoInv, NEW t \in TaskIds, At(t, Launching, "run"), StartFailed(t),
           UNCHANGED <<row, doomed, secret, dh, clientVars>>, LeftMove, Docked
    PROVE  Kept
<1>1. task[t].phase = "body" /\ GoodFrame(body[t], Conts)
  BY Running DEF TM!TaskActions, Launching
<1>2. CASE Err(t)
  BY <1>2, Fails
<1>3. CASE Set(t, Goto(t, "undo", body[t].new)) /\ UNCHANGED tmVars
  <2> DEFINE b == Goto(t, "undo", body[t].new)
  <2>1. GoodFrame(b, Conts) /\ b.pc # "end"
    BY <1>1 DEF GoodFrame, Frames, Goto, Pcs
  <2>2. Set(t, b)
    BY <1>3
  <2> HIDE DEF b
  <2>3. QED
    BY <1>1, <1>3, <2>1, <2>2, Proceeds DEF CargoInv, Callers
<1>4. QED
  BY <1>2, <1>3 DEF StartFailed

LEMMA StartInstanceErrKept ==
    ASSUME CargoInv, NEW t \in TaskIds, StartInstanceErr(t)
    PROVE  Kept
<1>1. LeftMove /\ Docked
  BY FailedCall, SameDock DEF StartInstanceErr, dbVars
<1>2. QED
  BY <1>1, StartFailedKept DEF StartInstanceErr, dbVars

LEMMA StartedKept ==
    ASSUME CargoInv, NEW t \in TaskIds, Started(t)
    PROVE  Kept
<1>1. At(t, Launching, "run")
  BY DEF Started
<1>2. task[t].phase = "body" /\ GoodFrame(body[t], Conts) /\ Obj(t) \in Cargoes
  BY <1>1, Running DEF TM!TaskActions, Launching
<1>3. LeftMove /\ Docked
  BY SameLeft, SameDock DEF Started
<1>4. CASE StartFailed(t) /\ UNCHANGED <<row, doomed>>
  BY <1>1, <1>3, <1>4, StartFailedKept DEF Started
<1>5. CASE /\ Exists(Obj(t))
           /\ row' = SetActual(Obj(t), "Start")
           /\ TM!Emit(Ev(Obj(t), "Other"))
           /\ \/ Set(t, Goto(t, "end", {})) /\ UNCHANGED doomed
              \/ /\ Set(t, Goto(t, "final", {}))
                 /\ doomed' = doomed \cup {i \in Conts : body[t].rows[i] # None}
  <2>1. PICK r \in Rows : r.actual = "Start" /\ row' = [row EXCEPT ![Obj(t)] = r]
    BY <1>2, <1>5, ActualRow DEF Statuses
  <2>2. r.actual \notin Transitional
    BY <2>1 DEF Transitional
  <2>3. PICK pc \in {"end", "final"} : Set(t, Goto(t, pc, {}))
    BY <1>5
  <2>4. GoodFrame(Goto(t, pc, {}), Conts)
    BY <1>2 DEF GoodFrame, Frames, Goto, Pcs
  <2>5. doomed' \subseteq Conts
    BY <1>5 DEF CargoInv, Callers
  <2>6. QED
    BY <1>2, <1>3, <1>5, <2>1, <2>2, <2>3, <2>4, <2>5, Writes DEF Started
<1>6. QED
  BY <1>4, <1>5 DEF Started

-----------------------------------------------------------------------------
(* The renaming and the roll back of an update.                            *)
LEMMA ReadUpdateKept ==
    ASSUME CargoInv, NEW t \in TaskIds, ReadUpdate(t)
    PROVE  Kept
<1>1. At(t, {"Updating"}, "rows")
  BY DEF ReadUpdate
<1>2. task[t].phase = "body" /\ GoodFrame(body[t], Conts)
  BY <1>1, Running DEF TM!TaskActions
<1>3. LeftMove /\ Docked
  BY SameLeft, SameDock DEF ReadUpdate, dbVars
<1>4. PICK ps : ps = ProcsOf(Obj(t))
  OBVIOUS
<1>5. ps \subseteq Conts /\ \A i \in ps : proc[i] \in Procs /\ proc[i] # None
  BY <1>4 DEF ProcsOf, CargoInv, Tables
<1>6. PICK rs : rs = [i \in Conts |-> IF i \in ps THEN proc[i] ELSE None]
  OBVIOUS
<1>7. rs \in [Conts -> {None} \cup Procs] /\ \A i \in ps : rs[i] # None
  BY <1>5, <1>6
<1> DEFINE b == [Goto(t, "rename", ps) EXCEPT !.rows = rs]
<1>8. GoodFrame(b, Conts) /\ b.pc # "end"
  BY <1>2, <1>5, <1>7 DEF GoodFrame, Frames, Goto, Pcs
<1>9. Set(t, b)
  BY <1>4, <1>6 DEF ReadUpdate
<1> HIDE DEF b
<1>10. QED
  BY <1>2, <1>3, <1>8, <1>9, Proceeds DEF ReadUpdate, dbVars, CargoInv, Callers

(* The instance at hand has the row that was read.                         *)
LEMMA OldOne ==
    ASSUME CargoInv, NEW t \in TaskIds, NEW pc \in {"rename", "back"},
           At(t, {"Updating"}, pc), body[t].todo # {}, NEW i, i = Newest(body[t].todo)
    PROVE  /\ task[t].phase = "body" /\ GoodFrame(body[t], Conts) /\ body[t].pc = pc
           /\ i \in Conts /\ body[t].rows[i] \in Procs /\ body[t].rows[i].tmp \in Nat
<1>1. task[t].phase = "body" /\ GoodFrame(body[t], Conts) /\ body[t].pc = pc
  BY Running DEF TM!TaskActions
<1>2. i \in Conts /\ i \in body[t].todo
  BY <1>1, NewestCont DEF CargoInv, GoodFrame, Frames
<1>3. body[t].rows[i] \in Procs
  BY <1>1, <1>2 DEF GoodFrame, Frames
<1>4. QED
  BY <1>1, <1>2, <1>3 DEF Procs

(* Striking off one that went wrong.                                       *)
LEMMA StruckGood ==
    ASSUME NEW C, NEW t, GoodFrame(body[t], C), NEW i,
           body[t].pc \in {"rename", "back", "run", "undo"}
    PROVE  /\ GoodFrame([Done(t, i) EXCEPT !.err = TRUE], C)
           /\ [Done(t, i) EXCEPT !.err = TRUE].pc # "end"
BY DEF GoodFrame, Frames, Done

LEMMA StopOldKept ==
    ASSUME CargoInv, NEW t \in TaskIds, StopOld(t)
    PROVE  Kept
<1>1. PICK i : i = Newest(body[t].todo)
  OBVIOUS
<1>2. /\ task[t].phase = "body" /\ GoodFrame(body[t], Conts) /\ body[t].pc = "rename"
      /\ i \in Conts /\ body[t].rows[i] \in Procs
  BY <1>1, OldOne DEF StopOld
<1>3. UNCHANGED <<tmVars, row, proc, doomed, secret, dh, clientVars>> /\ doomed' \subseteq Conts
  BY DEF StopOld, CargoInv, Callers, dbVars
<1>4. CASE /\ Present(i) /\ StopCont(i) /\ UNCHANGED left
           /\ Set(t, [body[t] EXCEPT !.rows[i].st = "down"])
  <2>1. LeftMove /\ Docked
    BY <1>2, <1>3, <1>4, SameLeft, StopDrives, Driven DEF CargoInv
  <2>2. PICK p : p = [body[t].rows[i] EXCEPT !.st = "down"]
    OBVIOUS
  <2>3. p \in Procs /\ p # None
    BY <1>2, <2>2 DEF Procs, ContStates, None
  <2>4. PICK rs : rs = [body[t].rows EXCEPT ![i] = p]
    OBVIOUS
  <2>5. rs \in [Conts -> {None} \cup Procs] /\ \A j \in body[t].todo : rs[j] # None
    BY <1>2, <2>3, <2>4 DEF GoodFrame, Frames
  <2> DEFINE b == [body[t] EXCEPT !.rows = rs]
  <2>6. GoodFrame(b, Conts) /\ b.pc # "end"
    BY <1>2, <2>5 DEF GoodFrame, Frames
  <2>7. Set(t, b)
    BY <1>4, <2>2, <2>4
  <2> HIDE DEF b
  <2>8. QED
    BY <1>2, <1>3, <2>1, <2>6, <2>7, Proceeds
<1>5. ASSUME NEW ok, CallFails(ok), Set(t, [Done(t, i) EXCEPT !.err = TRUE]),
             UNCHANGED dockerVars
      PROVE  Kept
  <2>1. LeftMove /\ Docked
    BY <1>3, <1>5, FailedCall, SameDock
  <2> DEFINE b == [Done(t, i) EXCEPT !.err = TRUE]
  <2>2. GoodFrame(b, Conts) /\ b.pc # "end" /\ Set(t, b)
    BY <1>2, <1>5, StruckGood
  <2> HIDE DEF b
  <2>3. QED
    BY <1>2, <1>3, <2>1, <2>2, Proceeds
<1>6. QED
  BY <1>1, <1>4, <1>5 DEF StopOld

LEMMA RenameOldKept ==
    ASSUME CargoInv, NEW t \in TaskIds, RenameOld(t)
    PROVE  Kept
<1>1. PICK i : i = Newest(body[t].todo)
  OBVIOUS
<1>2. /\ task[t].phase = "body" /\ GoodFrame(body[t], Conts) /\ body[t].pc = "rename"
      /\ i \in Conts /\ body[t].rows[i].tmp \in Nat
  BY <1>1, OldOne DEF RenameOld
<1>3. UNCHANGED <<tmVars, row, proc, doomed, secret, dh, clientVars>> /\ doomed' \subseteq Conts
  BY DEF RenameOld, CargoInv, Callers, dbVars
<1>4. PICK n \in Nat : n = body[t].rows[i].tmp + 1
  BY <1>2
<1>5. CASE CanRename(i, n) /\ RenameCont(i, n) /\ Set(t, Done(t, i)) /\ UNCHANGED left
  <2>1. LeftMove /\ Docked
    BY <1>2, <1>3, <1>5, SameLeft, RenameDrives, Driven DEF CargoInv, CanRename
  <2>2. GoodFrame(Done(t, i), Conts) /\ Done(t, i).pc # "end"
    BY <1>2, DoneGood
  <2>3. QED
    BY <1>2, <1>3, <1>5, <2>1, <2>2, Proceeds
<1>6. ASSUME NEW ok, CallFails(ok), Set(t, [Done(t, i) EXCEPT !.err = TRUE]),
             UNCHANGED dockerVars
      PROVE  Kept
  <2>1. LeftMove /\ Docked
    BY <1>3, <1>6, FailedCall, SameDock
  <2> DEFINE b == [Done(t, i) EXCEPT !.err = TRUE]
  <2>2. GoodFrame(b, Conts) /\ b.pc # "end" /\ Set(t, b)
    BY <1>2, <1>6, StruckGood
  <2> HIDE DEF b
  <2>3. QED
    BY <1>2, <1>3, <2>1, <2>2, Proceeds
<1>7. QED
  BY <1>1, <1>4, <1>5, <1>6 DEF RenameOld

LEMMA RenamedAllKept ==
    ASSUME CargoInv, NEW t \in TaskIds, RenamedAll(t)
    PROVE  Kept
<1>1. At(t, {"Updating"}, "rename")
  BY DEF RenamedAll
<1>2. task[t].phase = "body" /\ GoodFrame(body[t], Conts)
  BY <1>1, Running DEF TM!TaskActions
<1>3. /\ UNCHANGED <<row, doomed, secret, dh, clientVars>> /\ doomed' \subseteq Conts
      /\ LeftMove /\ Docked
  BY SameLeft, SameDock DEF RenamedAll, CargoInv, Callers, dbVars
<1>4. CASE Err(t)
  BY <1>3, <1>4, Fails
<1>5. ASSUME NEW pc \in {"init", "create"}, Set(t, Goto(t, pc, {})), UNCHANGED tmVars
      PROVE  Kept
  <2>1. GoodFrame(Goto(t, pc, {}), Conts) /\ Goto(t, pc, {}).pc # "end"
    BY <1>2 DEF GoodFrame, Frames, Goto, Pcs
  <2>2. QED
    BY <1>2, <1>3, <1>5, <2>1, Proceeds
<1>6. QED
  BY <1>4, <1>5 DEF RenamedAll

LEMMA UndoCreateKept ==
    ASSUME CargoInv, NEW t \in TaskIds, UndoCreate(t)
    PROVE  Kept
<1>1. At(t, {"Updating"}, "undo")
  BY DEF UndoCreate
<1>2. task[t].phase = "body" /\ GoodFrame(body[t], Conts) /\ body[t].pc = "undo"
  BY <1>1, Running DEF TM!TaskActions
<1>3. UNCHANGED <<tmVars, row, doomed, secret, dh, clientVars>> /\ doomed' \subseteq Conts
  BY DEF UndoCreate, CargoInv, Callers
<1>4. CASE /\ Set(t, Goto(t, "back", {i \in Conts : body[t].rows[i] # None}))
           /\ UNCHANGED <<dockerVars, proc, left>>
  <2>1. LeftMove /\ Docked
    BY <1>4, SameLeft, SameDock
  <2>2. PICK S : S = {i \in Conts : body[t].rows[i] # None}
    OBVIOUS
  <2>3. GoodFrame(Goto(t, "back", S), Conts) /\ Goto(t, "back", S).pc # "end"
    BY <1>2, <2>2 DEF GoodFrame, Frames, Goto, Pcs
  <2>4. QED
    BY <1>2, <1>3, <1>4, <2>1, <2>2, <2>3, Proceeds
<1>5. ASSUME NEW i, i = Newest(body[t].todo), body[t].todo # {}, Set(t, Done(t, i)),
             \/ /\ IF Present(i) THEN RemoveCont(i) ELSE UNCHANGED dockerVars
                /\ proc' = [proc EXCEPT ![i] = None]
                /\ UNCHANGED left
             \/ /\ MayFail /\ SpendFail
                /\ UNCHANGED <<dockerVars, proc>>
      PROVE  Kept
  <2>1. i \in Conts
    BY <1>2, <1>5, NewestCont DEF CargoInv, GoodFrame, Frames
  <2>0. GoodFrame(Done(t, i), Conts) /\ Done(t, i).pc # "end"
    BY <1>2, DoneGood
  <2>2. CASE /\ IF Present(i) THEN RemoveCont(i) ELSE UNCHANGED dockerVars
             /\ proc' = [proc EXCEPT ![i] = None]
             /\ UNCHANGED left
    <3>1. DockerMove /\ cont'[i] = None
      BY <2>1, <2>2, RemoveDrives DEF DockerMove, CargoInv, Present, dockerVars
    <3>2. RowMove
      BY <2>1, <2>2, <3>1 DEF RowMove, CargoInv, Tables
    <3>3. LeftMove /\ Docked
      BY <2>2, <3>1, <3>2, SameLeft, RowsStep DEF CargoInv, LeftMove, Docked
    <3>4. QED
      BY <1>2, <1>3, <1>5, <2>0, <3>3, Proceeds
  <2>3. CASE MayFail /\ SpendFail /\ UNCHANGED <<dockerVars, proc>>
    <3>1. LeftMove /\ Docked
      BY <2>3, SpentFail, SameDock
    <3>2. QED
      BY <1>2, <1>3, <1>5, <2>0, <3>1, Proceeds
  <2>4. QED
    BY <1>5, <2>2, <2>3
<1>6. QED
  BY <1>4, <1>5 DEF UndoCreate

LEMMA UndoRenameKept ==
    ASSUME CargoInv, NEW t \in TaskIds, UndoRename(t)
    PROVE  Kept
<1>1. At(t, {"Updating"}, "back")
  BY DEF UndoRename
<1>2. task[t].phase = "body" /\ GoodFrame(body[t], Conts) /\ body[t].pc = "back"
  BY <1>1, Running DEF TM!TaskActions
<1>3. UNCHANGED <<tmVars, row, proc, doomed, secret, dh, clientVars>> /\ doomed' \subseteq Conts
  BY DEF UndoRename, CargoInv, Callers, dbVars
<1>4. CASE Set(t, Goto(t, "final", {})) /\ UNCHANGED <<dockerVars, left>>
  <2>1. LeftMove /\ Docked
    BY <1>3, <1>4, SameLeft, SameDock
  <2>2. GoodFrame(Goto(t, "final", {}), Conts) /\ Goto(t, "final", {}).pc # "end"
    BY <1>2 DEF GoodFrame, Frames, Goto, Pcs
  <2>3. QED
    BY <1>2, <1>3, <1>4, <2>1, <2>2, Proceeds
<1>5. ASSUME NEW i, NEW n, i = Newest(body[t].todo), n = body[t].rows[i].tmp,
             body[t].todo # {}, Set(t, Done(t, i)),
             \/ CanRename(i, n) /\ RenameCont(i, n) /\ UNCHANGED left
             \/ CallFails(CanRename(i, n)) /\ UNCHANGED dockerVars
      PROVE  Kept
  <2>1. i \in Conts /\ n \in Nat
    BY <1>1, <1>5, OldOne
  <2>2. LeftMove /\ Docked
    <3>1. CASE CanRename(i, n) /\ RenameCont(i, n) /\ UNCHANGED left
      BY <1>3, <2>1, <3>1, SameLeft, RenameDrives, Driven DEF CargoInv, CanRename
    <3>2. CASE CallFails(CanRename(i, n)) /\ UNCHANGED dockerVars
      BY <1>3, <3>2, FailedCall, SameDock
    <3>3. QED
      BY <1>5, <3>1, <3>2
  <2>3. GoodFrame(Done(t, i), Conts) /\ Done(t, i).pc # "end"
    BY <1>2, DoneGood
  <2>4. QED
    BY <1>2, <1>3, <1>5, <2>2, <2>3, Proceeds
<1>6. QED
  BY <1>4, <1>5 DEF UndoRename

(* The last status of a body: written with its event, or an error.         *)
LEMMA LastStatus ==
    ASSUME CargoInv, NEW t \in TaskIds, NEW acts, acts \subseteq TM!TaskActions, NEW pc,
           At(t, acts, pc), NEW st \in {"Start", "Stop"},
           \/ Err(t) /\ UNCHANGED row
           \/ /\ Exists(Obj(t))
              /\ row' = SetActual(Obj(t), st)
              /\ TM!Emit(Ev(Obj(t), "Other"))
              /\ Set(t, Goto(t, "end", {})),
           UNCHANGED <<proc, doomed, secret, dh, dockerVars, clientVars, left>>
    PROVE  Kept
<1>1. task[t].phase = "body" /\ GoodFrame(body[t], Conts) /\ Obj(t) \in Cargoes
  BY Running
<1>2. LeftMove /\ Docked /\ doomed' \subseteq Conts
  BY SameLeft, SameDock DEF CargoInv, Callers
<1>3. CASE Err(t) /\ UNCHANGED row
  BY <1>2, <1>3, Fails
<1>4. CASE /\ Exists(Obj(t))
           /\ row' = SetActual(Obj(t), st)
           /\ TM!Emit(Ev(Obj(t), "Other"))
           /\ Set(t, Goto(t, "end", {}))
  <2>1. PICK r \in Rows : r.actual = st /\ row' = [row EXCEPT ![Obj(t)] = r]
    BY <1>1, <1>4, ActualRow DEF Statuses
  <2>2. r.actual \notin Transitional
    BY <2>1 DEF Transitional
  <2>3. GoodFrame(Goto(t, "end", {}), Conts)
    BY <1>1 DEF GoodFrame, Frames, Goto, Pcs
  <2>4. QED
    BY <1>1, <1>2, <1>4, <2>1, <2>2, <2>3, Writes
<1>5. QED
  BY <1>3, <1>4

LEMMA UpdatedKept ==
    ASSUME CargoInv, NEW t \in TaskIds, Updated(t)
    PROVE  Kept
<1>1. {"Updating"} \subseteq TM!TaskActions
  BY DEF TM!TaskActions
<1>2. QED
  BY <1>1, LastStatus DEF Updated

LEMMA StoppedKept ==
    ASSUME CargoInv, NEW t \in TaskIds, Stopped(t)
    PROVE  Kept
<1>1. {"Stopping"} \subseteq TM!TaskActions
  BY DEF TM!TaskActions
<1>2. QED
  BY <1>1, LastStatus DEF Stopped

-----------------------------------------------------------------------------
(* Stop and delete.                                                        *)
LEMMA ReadProcsKept ==
    ASSUME CargoInv, NEW t \in TaskIds, ReadStop(t) \/ ReadDelete(t)
    PROVE  Kept
<1>1. PICK pc \in {"run", "stop"} : Set(t, Frame(0, pc, ProcsOf(Obj(t))))
  BY DEF ReadStop, ReadDelete
<1>2. task[t].phase = "body"
  BY DEF ReadStop, ReadDelete, Reads
<1>3. /\ UNCHANGED <<tmVars, row, proc, doomed, secret, dh, clientVars>> /\ doomed' \subseteq Conts
      /\ LeftMove /\ Docked
  BY SameLeft, SameDock DEF ReadStop, ReadDelete, CargoInv, Callers, dbVars
<1>4. ProcsOf(Obj(t)) \subseteq Conts
  BY DEF ProcsOf
<1> DEFINE b == Frame(0, pc, ProcsOf(Obj(t)))
<1>5. GoodFrame(b, Conts) /\ b.pc # "end"
  BY <1>4 DEF GoodFrame, Frames, Frame, Pcs
<1> HIDE DEF b
<1>6. QED
  BY <1>1, <1>2, <1>3, <1>5, Proceeds DEF b

LEMMA StopInstanceKept ==
    ASSUME CargoInv, NEW t \in TaskIds, StopInstance(t)
    PROVE  Kept
<1>1. At(t, {"Stopping"}, "run")
  BY DEF StopInstance
<1>2. task[t].phase = "body" /\ GoodFrame(body[t], Conts) /\ body[t].pc = "run"
  BY <1>1, Running DEF TM!TaskActions
<1>3. UNCHANGED <<row, proc, doomed, secret, dh, clientVars>> /\ doomed' \subseteq Conts
  BY DEF StopInstance, CargoInv, Callers, dbVars
<1>4. PICK i : i = Newest(body[t].todo)
  OBVIOUS
<1>5. i \in Conts
  BY <1>2, <1>4, NewestCont DEF CargoInv, GoodFrame, Frames, StopInstance
<1>6. CASE Present(i) /\ StopCont(i) /\ Set(t, Done(t, i)) /\ UNCHANGED <<tmVars, left>>
  <2>1. LeftMove /\ Docked
    BY <1>3, <1>5, <1>6, SameLeft, StopDrives, Driven DEF CargoInv
  <2>2. GoodFrame(Done(t, i), Conts) /\ Done(t, i).pc # "end"
    BY <1>2, DoneGood
  <2>3. QED
    BY <1>2, <1>3, <1>6, <2>1, <2>2, Proceeds
<1>7. CASE CallFails(Present(i)) /\ Err(t) /\ UNCHANGED dockerVars
  <2>1. LeftMove /\ Docked
    BY <1>3, <1>7, FailedCall, SameDock
  <2>2. QED
    BY <1>3, <1>7, <2>1, Fails
<1>8. QED
  BY <1>4, <1>6, <1>7 DEF StopInstance

LEMMA DeleteStopKept ==
    ASSUME CargoInv, NEW t \in TaskIds, DeleteStop(t)
    PROVE  Kept
<1>1. At(t, {"Destroying"}, "stop") /\ body[t].todo # {}
  BY DEF DeleteStop
<1>2. task[t].phase = "body" /\ GoodFrame(body[t], Conts)
  BY <1>1, Running DEF TM!TaskActions
<1>3. UNCHANGED <<tmVars, row, proc, doomed, secret, dh, clientVars>> /\ doomed' \subseteq Conts
  BY DEF DeleteStop, CargoInv, Callers, dbVars
<1>4. PICK i : i = Newest(body[t].todo)
  OBVIOUS
<1>5. i \in Conts
  BY <1>1, <1>2, <1>4, NewestCont DEF CargoInv, GoodFrame, Frames
<1>6. LeftMove /\ Docked
  <2>1. CASE Present(i) /\ StopCont(i) /\ UNCHANGED left
    BY <1>3, <1>5, <2>1, SameLeft, StopDrives, Driven DEF CargoInv
  <2>2. CASE CallFails(Present(i)) /\ UNCHANGED dockerVars
    BY <1>3, <2>2, FailedCall, SameDock
  <2>3. QED
    BY <1>4, <2>1, <2>2 DEF DeleteStop
<1> DEFINE b == Goto(t, "remove", body[t].todo)
<1>7. GoodFrame(b, Conts) /\ b.pc # "end" /\ Set(t, b)
  BY <1>1, <1>2 DEF GoodFrame, Frames, Goto, Pcs, DeleteStop
<1> HIDE DEF b
<1>8. QED
  BY <1>2, <1>3, <1>6, <1>7, Proceeds

LEMMA DeleteRemoveKept ==
    ASSUME CargoInv, NEW t \in TaskIds, DeleteRemove(t)
    PROVE  Kept
<1>1. At(t, {"Destroying"}, "remove")
  BY DEF DeleteRemove
<1>2. task[t].phase = "body" /\ GoodFrame(body[t], Conts) /\ body[t].pc = "remove"
  BY <1>1, Running DEF TM!TaskActions
<1>3. UNCHANGED <<tmVars, row, proc, doomed, secret, dh, clientVars>> /\ doomed' \subseteq Conts
  BY DEF DeleteRemove, CargoInv, Callers, dbVars
<1>4. PICK i : i = Newest(body[t].todo)
  OBVIOUS
<1>5. i \in Conts
  BY <1>2, <1>4, NewestCont DEF CargoInv, GoodFrame, Frames
<1>6. LeftMove /\ Docked
  <2>1. CASE Present(i) /\ RemoveCont(i) /\ UNCHANGED left
    BY <1>3, <1>5, <2>1, SameLeft, RemoveDrives, Driven DEF CargoInv
  <2>2. ASSUME NEW ok, CallFails(ok) /\ UNCHANGED dockerVars
        PROVE  LeftMove /\ Docked
    BY <1>3, <2>2, FailedCall, SameDock
  <2>3. QED
    BY <1>4, <2>1, <2>2 DEF DeleteRemove
<1> DEFINE b == Goto(t, "stop", body[t].todo \ {i})
<1>7. GoodFrame(b, Conts) /\ b.pc # "end"
  BY <1>2 DEF GoodFrame, Frames, Goto, Pcs
<1>8. Set(t, b)
  BY <1>4 DEF DeleteRemove
<1> HIDE DEF b
<1>9. QED
  BY <1>2, <1>3, <1>6, <1>7, <1>8, Proceeds

LEMMA ClearKept ==
    ASSUME CargoInv, NEW t \in TaskIds, Clear(t)
    PROVE  Kept
<1>1. At(t, {"Destroying"}, "stop")
  BY DEF Clear
<1>2. task[t].phase = "body" /\ GoodFrame(body[t], Conts) /\ Obj(t) \in Cargoes
  BY <1>1, Running DEF TM!TaskActions
<1>3. /\ UNCHANGED <<proc, doomed, secret, dh, clientVars>> /\ doomed' \subseteq Conts
      /\ LeftMove /\ Docked
  BY SameLeft, SameDock DEF Clear, CargoInv, Callers
<1>4. CASE Err(t) /\ UNCHANGED row
  BY <1>3, <1>4, Fails
<1>5. CASE /\ row' = [row EXCEPT ![Obj(t)] = None]
           /\ TM!Emit(Ev(Obj(t), "Other"))
           /\ Set(t, Goto(t, "end", {}))
  <2>1. GoodFrame(Goto(t, "end", {}), Conts)
    BY <1>2 DEF GoodFrame, Frames, Goto, Pcs
  <2>2. QED
    BY <1>2, <1>3, <1>5, <2>1, Writes
<1>6. QED
  BY <1>4, <1>5 DEF Clear

(* The end of a task: the status is written, the entry leaves the map.     *)
LEMMA EndKept ==
    ASSUME CargoInv, NEW t \in TaskIds, End(t)
    PROVE  Kept
<1>1. TM!TypeOK /\ body[t] # None /\ body[t].pc = "end" /\ TM!BodyOk(t) /\ Set(t, None)
  BY TmTyped DEF CargoInv, End, At, Return
<1>2. /\ UNCHANGED <<queue, loop>>
      /\ \A s \in TaskIds : s # t => task'[s] = task[s]
  BY <1>1 DEF TM!BodyOk, TM!TypeOK
<1>3. \A s \in TaskIds : s # t => body'[s] = body[s]
  BY <1>1 DEF Set, CargoInv, Locals
<1>4. LeftMove /\ Docked /\ UNCHANGED <<row, dh, secret, req, doomed>>
  BY SameLeft, SameDock DEF End, dbVars, clientVars
<1>5. Tables' /\ Callers' /\ Locals'
  BY <1>1, <1>2, <1>4, TablesKept, CallersKept, LocalsKept DEF CargoInv, Tables, Callers
<1>6. [TM!Next]_(TM!vars)
  BY <1>1 DEF TM!Next, TM!TaskStep
<1>7. TMP!IInv'
  BY <1>6, TmKept DEF CargoInv
<1>8. \A c : ~Works(t, c)
  BY <1>1 DEF Works
<1>9. Closing'
  BY <1>2, <1>3, <1>4, <1>8, ClosingKept DEF Exists
<1>10. QED
  BY <1>4, <1>5, <1>6, <1>7, <1>9 DEF Kept, CargoInv, LeftMove, Docked

LEMMA OnErrorKept ==
    ASSUME CargoInv, NEW t \in TaskIds, OnError(t)
    PROVE  Kept
<1>1. TM!TypeOK /\ TM!OnErrorDone(t) /\ body[t] = None
  BY TmTyped DEF CargoInv, OnError, TM!OnErrorDone, Locals
<1>2. /\ UNCHANGED <<queue, loop>>
      /\ \A s \in TaskIds : s # t => task'[s] = task[s]
  BY <1>1 DEF TM!OnErrorDone, TM!TypeOK
<1>3. LeftMove /\ Docked /\ UNCHANGED <<body, dh, secret, req, doomed>>
  BY SameLeft, SameDock DEF OnError, clientVars, daemonVars
<1>4. Set(t, None)
  BY <1>1, <1>3 DEF Set, CargoInv, Locals
<1>5. /\ row' \in [Cargoes -> {None} \cup Rows]
      /\ \A c \in Cargoes : Exists(c)' /\ row'[c].actual \in Transitional =>
            row'[c] = row[c] /\ c # Obj(t)
  <2>1. CASE Obj(t) \in Cargoes /\ Exists(Obj(t))
    <3>1. PICK r \in Rows : r.actual = "Fail" /\ row' = [row EXCEPT ![Obj(t)] = r]
      BY <2>1, ActualRow DEF OnError, Statuses
    <3>2. QED
      BY <3>1 DEF CargoInv, Tables, Exists, Transitional
  <2>2. CASE Obj(t) \in Cargoes /\ ~Exists(Obj(t))
    BY <2>2 DEF OnError, CargoInv, Tables, Exists
  <2>3. CASE Obj(t) \notin Cargoes
    <3>1. row' = row
      BY <2>3 DEF OnError, CargoInv, Tables, SetActual
    <3>2. QED
      BY <2>3, <3>1 DEF CargoInv, Tables
  <2>4. QED
    BY <2>1, <2>2, <2>3
<1>6. Tables' /\ Callers' /\ Locals'
  BY <1>2, <1>3, <1>4, <1>5, TablesKept, CallersKept, LocalsKept DEF CargoInv, Tables, Callers
<1>7. [TM!Next]_(TM!vars)
  BY <1>1 DEF TM!Next, TM!TaskStep
<1>8. TMP!IInv'
  BY <1>7, TmKept DEF CargoInv
<1>9. \A c : Works(t, c) => c = Obj(t)
  BY DEF Works, Calls, Obj
<1>10. Closing'
  BY <1>2, <1>3, <1>5, <1>9, ClosingKept DEF Exists
<1>11. QED
  BY <1>3, <1>6, <1>7, <1>8, <1>10 DEF Kept, CargoInv, LeftMove, Docked

LEMMA TaskStepKept ==
    ASSUME CargoInv, NEW t \in TaskIds, TaskStep(t)
    PROVE  Kept
BY ReadCargoKept, ReadStartKept, CreateInitKept, StartInitKept, WaitInitKept,
   CreateInstancesKept, ListInstancesKept, StartInstanceKept, StartInstanceErrKept,
   StartedKept, ReadUpdateKept, StopOldKept, RenameOldKept, RenamedAllKept, UndoCreateKept,
   UndoRenameKept, UpdatedKept, ReadProcsKept, StopInstanceKept, StoppedKept,
   DeleteStopKept, DeleteRemoveKept, ClearKept, EndKept, OnErrorKept DEF TaskStep

-----------------------------------------------------------------------------
(* Steps that are not of a task.                                           *)
LEMMA Elsewhere ==
    ASSUME CargoInv, UNCHANGED <<body, loop, task>>, [TM!Next]_(TM!vars),
           queue' = queue \/ \E ev : queue' = Append(queue, ev),
           LeftMove, Docked, Callers', row' \in [Cargoes -> {None} \cup Rows],
           dh' \in {None} \cup [st : {"run"}, pc : {"write", "sync"}, ev : DockerEvents(Conts)],
           \A c \in Cargoes : Exists(c)' /\ row'[c].actual \in Transitional =>
               \/ /\ Exists(c) /\ row[c].actual \in Transitional
                  /\ Asking(c) => Asking(c)' \/ Queued(c)'
               \/ Asking(c)' \/ Queued(c)'
    PROVE  Kept
<1>1. Tables' /\ Conts' = Conts
  BY TablesKept
<1>2. Locals'
  BY <1>1 DEF CargoInv, Locals
<1>3. TMP!IInv'
  BY TmKept DEF CargoInv
<1>4. ASSUME NEW c \in Cargoes, Exists(c)', row'[c].actual \in Transitional
      PROVE  Asking(c)' \/ Queued(c)' \/ Working(c)'
  <2>1. SUFFICES ASSUME Queued(c) \/ Working(c)
                 PROVE  Queued(c)' \/ Working(c)'
    BY <1>4 DEF CargoInv, Closing
  <2>2. CASE Queued(c)
    BY <2>2, TmTyped, QueuedKept DEF CargoInv
  <2>3. CASE Working(c)
    BY <2>3 DEF Working, Works
  <2>4. QED
    BY <2>1, <2>2, <2>3
<1>5. Closing'
  BY <1>4 DEF Closing
<1>6. QED
  BY <1>1, <1>2, <1>3, <1>5 DEF Kept, CargoInv, LeftMove, Docked

(* An event that calls for a task is in the channel once it is emitted.    *)
LEMMA EmitQueues ==
    ASSUME CargoInv, NEW c, NEW a \in TM!TaskActions, TM!Emit(Ev(c, a))
    PROVE  Queued(c)'
<1>1. queue \in Seq(TM!Events) /\ queue' = Append(queue, Ev(c, a))
  BY TmTyped DEF CargoInv, TM!TypeOK, TM!Emit
<1>2. Len(queue) + 1 \in DOMAIN queue' /\ queue'[Len(queue) + 1] = Ev(c, a)
  BY <1>1
<1>3. Calls(Ev(c, a), c)
  BY DEF Calls, Ev
<1>4. QED
  BY <1>2, <1>3 DEF Queued, Calls

(* Docker and its analyser.                                                *)
LEMMA DockerKept ==
    ASSUME CargoInv, UNCHANGED <<tmVars, body, secret, req>>, LeftMove, Docked,
           doomed' \subseteq Conts, row' \in [Cargoes -> {None} \cup Rows],
           dh' \in {None} \cup [st : {"run"}, pc : {"write", "sync"}, ev : DockerEvents(Conts)],
           \A c \in Cargoes : Exists(c)' /\ row'[c].actual \in Transitional => row'[c] = row[c]
    PROVE  Kept
<1>1. Callers'
  BY CallersKept
<1>2. \A c : Asking(c) => Asking(c)'
  BY DEF Asking, Asks
<1>3. [TM!Next]_(TM!vars) /\ queue' = queue /\ UNCHANGED <<body, loop, task>>
  BY DEF TM!vars, tmVars
<1>4. QED
  BY <1>1, <1>2, <1>3, Elsewhere DEF Exists

LEMMA ReapKept ==
    ASSUME CargoInv, NEW i \in Conts, Reap(i)
    PROVE  Kept
<1>1. UNCHANGED <<tmVars, body, secret, req, row, dh>> /\ doomed' \subseteq Conts
  BY DEF Reap, CargoInv, Callers, clientVars
<1>2. LeftMove /\ Docked
  <2>1. CASE Present(i) /\ RemoveCont(i) /\ UNCHANGED <<proc, left>>
    BY <2>1, SameLeft, RemoveDrives, Driven DEF CargoInv
  <2>2. CASE ~Present(i) /\ proc' = [proc EXCEPT ![i] = None] /\ UNCHANGED <<dockerVars, left>>
    <3>1. DockerMove /\ cont'[i] = None
      BY <2>2 DEF DockerMove, Present, dockerVars
    <3>2. RowMove
      BY <2>2, <3>1 DEF RowMove, CargoInv, Tables
    <3>3. QED
      BY <2>2, <3>1, <3>2, SameLeft, RowsStep DEF CargoInv, LeftMove, Docked
  <2>3. CASE MayFail /\ SpendFail /\ UNCHANGED <<dockerVars, proc>>
    BY <2>3, SpentFail, SameDock
  <2>4. QED
    BY <2>1, <2>2, <2>3 DEF Reap
<1>3. QED
  BY <1>1, <1>2, DockerKept DEF CargoInv, Tables

LEMMA ExitKept ==
    ASSUME CargoInv, NEW i \in Conts, InitExit(i) \/ Crash(i) \/ Revive(i)
    PROVE  Kept
<1>1. UNCHANGED <<tmVars, body, secret, req, row, proc, dh, doomed>>
  BY DEF InitExit, Crash, Revive, Exit, dbVars, daemonVars, clientVars
<1>2. LeftMove /\ left'.made = left.made
  <2>1. CASE UNCHANGED left
    BY <2>1, SameLeft
  <2>2. CASE MayFail /\ SpendFail
    BY <2>2, SpentFail
  <2>3. CASE left.crashes > 0 /\ left' = [left EXCEPT !.crashes = @ - 1]
    BY <2>3 DEF CargoInv, Bounds, LeftMove
  <2>4. QED
    BY <2>1, <2>2, <2>3 DEF InitExit, Crash, Revive
<1>3. Drives(i)
  <2>1. ASSUME NEW st \in {"down", "bad", "crashed"}, Present(i), Exit(i, st)
        PROVE  Drives(i)
    BY <2>1, ExitDrives DEF CargoInv, ContStates
  <2>2. CASE Present(i) /\ StartCont(i)
    BY <2>2, StartDrives DEF CargoInv
  <2>3. QED
    BY <2>1, <2>2 DEF InitExit, Crash, Revive
<1>4. Docked
  BY <1>1, <1>2, <1>3, Driven
<1>5. QED
  BY <1>1, <1>2, <1>4, DockerKept DEF CargoInv, Tables, Callers

(* The event in hand: its destroy takes the row of a container that is     *)
(* gone.                                                                   *)
LEMMA DockerRecvKept ==
    ASSUME CargoInv, DockerRecv
    PROVE  Kept
<1>1. UNCHANGED <<tmVars, body, secret, req, row, doomed, cont, left>>
  BY DEF DockerRecv, clientVars
<1>2. dq \in Seq(DockerEvents(Conts)) /\ dq # <<>>
  BY DEF CargoInv, Tables, DockerRecv
<1>3. PICK ev : ev = Head(dq)
  OBVIOUS
<1>4. ev \in DockerEvents(Conts) /\ 1 \in DOMAIN dq /\ ev = dq[1] /\ ev.id \in Conts
  <2>1. ev \in DockerEvents(Conts) /\ 1 \in DOMAIN dq /\ ev = dq[1]
    BY <1>2, <1>3
  <2>2. QED
    BY <2>1 DEF DockerEvents
<1>5. /\ dq' \in Seq(DockerEvents(Conts))
      /\ \A n \in DOMAIN dq' : n + 1 \in DOMAIN dq /\ dq'[n] = dq[n + 1]
  BY <1>2 DEF DockerRecv
<1>6. LeftMove
  BY <1>1, SameLeft
<1>7. Gone'
  <2>1. Conts' = Conts
    BY <1>6 DEF Conts, LeftMove
  <2>2. \A n \in DOMAIN dq' : dq'[n].type = "destroy" =>
          dq'[n].id <= left.made /\ cont[dq'[n].id] = None
    BY <1>5 DEF CargoInv, Gone
  <2>3. QED
    BY <1>1, <2>1, <2>2 DEF CargoInv, Gone
<1>8. /\ proc' \in [Conts -> {None} \cup Procs] /\ RowPerContainer'
      /\ dh' \in {None} \cup [st : {"run"}, pc : {"write", "sync"}, ev : DockerEvents(Conts)]
  <2>1. CASE ev.type = "destroy" /\ proc' = [proc EXCEPT ![ev.id] = None] /\ UNCHANGED dh
    <3>1. cont[ev.id] = None
      BY <1>4, <2>1 DEF CargoInv, Gone
    <3>2. Conts' = Conts
      BY <1>1 DEF Conts
    <3>3. QED
      BY <1>1, <1>4, <2>1, <3>1, <3>2 DEF CargoInv, Tables, RowPerContainer
  <2>2. CASE UNCHANGED proc /\ dh' \in {None, Handle(ev, "write"), Handle(ev, "sync")}
    <3>1. Conts' = Conts
      BY <1>1 DEF Conts
    <3>2. RowPerContainer'
      BY <1>1, <2>2, <3>1 DEF CargoInv, RowPerContainer
    <3>3. dh' \in {None} \cup [st : {"run"}, pc : {"write", "sync"}, ev : DockerEvents(Conts)]
      BY <1>4, <2>2 DEF Handle
    <3>4. QED
      BY <2>2, <3>2, <3>3 DEF CargoInv, Tables
  <2>3. QED
    BY <1>3, <2>1, <2>2 DEF DockerRecv
<1>9. Docked
  BY <1>1, <1>5, <1>7, <1>8 DEF Docked, CargoInv, Tables
<1>10. QED
  BY <1>1, <1>6, <1>8, <1>9, DockerKept DEF CargoInv, Tables, Callers

LEMMA DockerWriteKept ==
    ASSUME CargoInv, DockerWrite
    PROVE  Kept
<1>1. UNCHANGED <<tmVars, body, secret, req, doomed, proc, dockerVars, left>>
  BY DEF DockerWrite, clientVars
<1>2. LeftMove /\ Docked
  BY <1>1, SameLeft, SameDock
<1>3. dh \in [st : {"run"}, pc : {"write", "sync"}, ev : DockerEvents(Conts)]
  BY DEF CargoInv, Tables, DockerWrite
<1>4. PICK c \in Cargoes : c = dh.ev.cargo
  BY <1>3 DEF DockerEvents
<1>5. dh' \in {None} \cup [st : {"run"}, pc : {"write", "sync"}, ev : DockerEvents(Conts)]
  BY <1>3 DEF DockerWrite
<1>6. /\ row' \in [Cargoes -> {None} \cup Rows]
      /\ \A d \in Cargoes : Exists(d)' /\ row'[d].actual \in Transitional => row'[d] = row[d]
  <2>1. CASE ~Exists(c)
    BY <1>4, <2>1 DEF DockerWrite, CargoInv, Tables
  <2>2. CASE Exists(c)
    <3>1. PICK st \in {"Start", "Fail"} : row' = SetActual(c, st)
      BY <1>4, <2>2 DEF DockerWrite
    <3>2. PICK r \in Rows : r.actual = st /\ row' = [row EXCEPT ![c] = r]
      BY <2>2, <3>1, ActualRow DEF Statuses
    <3>3. QED
      BY <3>1, <3>2 DEF CargoInv, Tables, Transitional
  <2>3. QED
    BY <2>1, <2>2
<1>7. QED
  BY <1>1, <1>2, <1>5, <1>6, DockerKept DEF CargoInv, Callers

LEMMA DockerSyncKept ==
    ASSUME CargoInv, DockerSync
    PROVE  Kept
<1>1. UNCHANGED <<tmVars, body, secret, req, row, doomed, dockerVars, left>>
  BY DEF DockerSync, clientVars
<1>2. dh \in [st : {"run"}, pc : {"write", "sync"}, ev : DockerEvents(Conts)]
  BY DEF CargoInv, Tables, DockerSync
<1>3. PICK i \in Conts : i = dh.ev.id
  BY <1>2 DEF DockerEvents
<1>4. dh.ev.tmp \in Nat
  BY <1>2 DEF DockerEvents
<1>5. RowMove
  <2>1. CASE ~(Present(i) /\ proc[i] # None)
    BY <1>3, <2>1 DEF DockerSync, CargoInv, Tables, RowMove
  <2>2. CASE Present(i) /\ proc[i] # None
    <3>1. cont[i].st \in ContStates /\ proc[i] \in Procs
      BY <2>2 DEF CargoInv, Tables, Present, Containers
    <3>2. PICK p : p = [proc[i] EXCEPT !.st = cont[i].st, !.tmp = dh.ev.tmp]
      OBVIOUS
    <3>3. p \in Procs /\ p # None
      BY <1>4, <3>1, <3>2 DEF Procs, None
    <3>4. proc' = [proc EXCEPT ![i] = p]
      BY <1>3, <2>2, <3>2 DEF DockerSync, CargoInv, Tables
    <3>5. QED
      BY <3>3, <3>4 DEF RowMove, CargoInv, Tables
  <2>3. QED
    BY <2>1, <2>2
<1>6. LeftMove /\ Docked
  BY <1>1, <1>5, SameLeft, RowsStep DEF CargoInv, LeftMove, Docked, DockerMove
<1>7. QED
  BY <1>1, <1>6, DockerKept DEF CargoInv, Tables, Callers, DockerSync

-----------------------------------------------------------------------------
(* The event loop: it lets every task that is not over run on, and an      *)
(* event that calls for a task stays in its hand or gets the task.         *)
LEMMA DispatchAdds ==
    ASSUME TM!TypeOK, NEW ev \in TM!Events, NEW m, TM!Dispatch(ev, m, task)
    PROVE  /\ loop' = TM!Idle
           /\ \A s \in TaskIds : task[s] # TM!Done => task'[s] = task[s]
           /\ ev.obj \in Cargoes /\ ev.action \in TM!TaskActions =>
                 \E t \in TaskIds : task[t] = TM!Done /\ task'[t] = TM!Running(ev, "body")
<1>1. loop' = TM!Idle
  BY DEF TM!Dispatch
<1>2. CASE TM!CreatesTask(ev) /\ TM!AddTask(ev, m, task)
  <2>1. PICK t \in TaskIds : task[t] = TM!Done /\ task' = [task EXCEPT ![t] = TM!Running(ev, "body")]
    BY <1>2 DEF TM!AddTask
  <2>2. task'[t] = TM!Running(ev, "body") /\ \A s \in TaskIds : s # t => task'[s] = task[s]
    BY <2>1 DEF TM!TypeOK
  <2>3. QED
    BY <1>1, <2>1, <2>2
<1>3. CASE ~TM!CreatesTask(ev) /\ task' = task
  BY <1>1, <1>3 DEF TM!CreatesTask, TM!Objects
<1>4. QED
  BY <1>2, <1>3 DEF TM!Dispatch

(* wait_task ends with nothing to abort.                                   *)
LEMMA NothingAborted ==
    ASSUME CargoInv, loop.pc = "wait", task[loop.on] = TM!Done
    PROVE  TM!Aborted(loop.ev.obj) = task
<1>1. TM!TypeOK
  BY TmTyped DEF CargoInv
<1>2. tasks[loop.ev.obj] \in {NoTask, loop.on}
  BY DEF CargoInv, TMP!IInv, TMP!WaitsOnEntry
<1>3. ASSUME NEW t \in TaskIds, t = tasks[loop.ev.obj]
      PROVE  task[t] = TM!Done
  BY <1>2, <1>3, TmAssumption
<1>4. QED
  BY <1>1, <1>3 DEF TM!Aborted, TM!TypeOK

LEMMA LoopMoves ==
    ASSUME CargoInv, TM!RecvWait \/ TM!RecvSerial \/ TM!RecvSource \/ TM!WaitDone
    PROVE  /\ \A s \in TaskIds : task[s] # TM!Done => task'[s] = task[s]
           /\ \A c \in Cargoes : Queued(c) =>
                 \/ Queued(c)'
                 \/ \E t \in TaskIds : /\ task[t] = TM!Done /\ task'[t] # TM!Done
                                       /\ Calls(task'[t].ev, c)
<1>1. TM!TypeOK
  BY TmTyped DEF CargoInv
<1>2. ASSUME NEW ev \in TM!Events, NEW m, TM!Dispatch(ev, m, task), NEW c \in Cargoes,
             Calls(ev, c)
      PROVE  \E t \in TaskIds : /\ task[t] = TM!Done /\ task'[t] # TM!Done
                                /\ Calls(task'[t].ev, c)
  <2>1. PICK t \in TaskIds : task[t] = TM!Done /\ task'[t] = TM!Running(ev, "body")
    BY <1>1, <1>2, DispatchAdds DEF Calls
  <2>2. task'[t] # TM!Done /\ task'[t].ev = ev
    BY <2>1 DEF TM!Running, TM!Done
  <2>3. QED
    BY <1>2, <2>1, <2>2
<1>3. ASSUME TM!Receive
      PROVE  /\ Head(queue) \in TM!Events
             /\ \A c : Queued(c) => Calls(Head(queue), c) \/
                   \E n \in DOMAIN queue' : Calls(queue'[n], c)
  <2>1. queue \in Seq(TM!Events) /\ queue # <<>> /\ queue' = Tail(queue) /\ loop.pc # "wait"
    BY <1>1, <1>3 DEF TM!TypeOK, TM!Receive, TM!Idle
  <2>2. Head(queue) \in TM!Events /\ Head(queue) = queue[1]
    BY <2>1
  <2>3. \A n \in DOMAIN queue : n # 1 => n - 1 \in DOMAIN queue' /\ queue'[n - 1] = queue[n]
    BY <2>1
  <2>4. ASSUME NEW c, Queued(c)
        PROVE  Calls(Head(queue), c) \/ \E n \in DOMAIN queue' : Calls(queue'[n], c)
    <3>1. PICK n \in DOMAIN queue : Calls(queue[n], c)
      BY <2>1, <2>4 DEF Queued
    <3>2. CASE n = 1
      BY <2>2, <3>1, <3>2
    <3>3. CASE n # 1
      <4>1. n - 1 \in DOMAIN queue' /\ Calls(queue'[n - 1], c)
        BY <2>3, <3>1, <3>3
      <4>2. QED
        BY <4>1
    <3>4. QED
      BY <3>2, <3>3
  <2>5. QED
    BY <2>2, <2>4
<1>4. CASE TM!RecvWait
  <2>1. TM!Receive /\ UNCHANGED task /\ loop'.pc = "wait" /\ loop'.ev = Head(queue)
    BY <1>4 DEF TM!RecvWait
  <2>2. QED
    BY <1>3, <2>1 DEF Queued, Calls
<1>5. CASE TM!RecvSerial
  <2>1. TM!Receive /\ TM!Dispatch(Head(queue), tasks, task)
    BY <1>5 DEF TM!RecvSerial
  <2>2. QED
    BY <1>1, <1>2, <1>3, <2>1, DispatchAdds DEF Queued, Calls
<1>6. CASE TM!RecvSource
  <2>1. TM!Receive /\ UNCHANGED task /\ Head(queue).obj \in Secrets
    BY <1>6 DEF TM!RecvSource
  <2>2. \A c \in Cargoes : ~Calls(Head(queue), c)
    BY <2>1, TmAssumption DEF Calls
  <2>3. QED
    BY <1>3, <2>1, <2>2 DEF Queued, Calls
<1>7. CASE TM!WaitDone
  <2>1. loop.pc = "wait" /\ task[loop.on] = TM!Done /\ UNCHANGED queue
    BY <1>7 DEF TM!WaitDone
  <2>2. loop.ev \in TM!Events
    BY <1>1, <2>1 DEF TM!TypeOK, TM!LoopStates, TM!Idle
  <2>3. TM!Dispatch(loop.ev, TM!Removed(loop.ev.obj), task)
    BY <1>7, <2>1, NothingAborted DEF TM!WaitDone
  <2>4. ASSUME NEW c \in Cargoes, Queued(c)
        PROVE  Queued(c)' \/ Calls(loop.ev, c)
    BY <2>1, <2>4 DEF Queued, Calls
  <2>5. QED
    BY <1>1, <1>2, <2>2, <2>3, <2>4, DispatchAdds
<1>8. QED
  BY <1>4, <1>5, <1>6, <1>7

LEMMA LoopKept ==
    ASSUME CargoInv, LoopStep
    PROVE  Kept
<1>1. UNCHANGED <<row, proc, body, doomed, secret, dh, dockerVars, req, left>>
  BY DEF LoopStep, dbVars, daemonVars, clientVars
<1>2. [TM!Next]_(TM!vars)
  BY DEF LoopStep, TM!Next, TM!LoopStep
<1>3. TMP!IInv'
  BY <1>2, TmKept DEF CargoInv
<1>4. LeftMove /\ Docked
  BY <1>1, SameLeft, SameDock
<1>5. Tables' /\ Callers' /\ Conts' = Conts
  BY <1>1, <1>4, TablesKept, CallersKept DEF CargoInv, Tables, Callers
<1>6. \A s \in TaskIds : task[s] # TM!Done => task'[s] = task[s]
  BY LoopMoves DEF LoopStep
<1>7. \A s \in TaskIds : task[s].phase = "body" => task[s] # TM!Done
  BY DEF TM!Done
<1>8. Locals'
  BY <1>1, <1>5, <1>6, <1>7 DEF CargoInv, Locals
<1>9. ASSUME NEW c \in Cargoes, Exists(c)', row'[c].actual \in Transitional
      PROVE  Asking(c)' \/ Queued(c)' \/ Working(c)'
  <2>1. Asking(c) \/ Queued(c) \/ Working(c)
    BY <1>1, <1>9 DEF CargoInv, Closing, Exists
  <2>2. CASE Asking(c)
    BY <1>1, <2>2 DEF Asking, Asks
  <2>3. CASE Working(c)
    BY <1>1, <1>6, <2>3 DEF Working, Works
  <2>4. ASSUME NEW t \in TaskIds, task[t] = TM!Done, task'[t] # TM!Done, Calls(task'[t].ev, c)
        PROVE  Working(c)'
    <3>1. body[t] = None
      BY <2>4 DEF CargoInv, Locals, TM!Done
    <3>2. QED
      BY <1>1, <2>4, <3>1 DEF Working, Works, Calls
  <2>5. CASE Queued(c)
    BY <2>4, <2>5, LoopMoves DEF LoopStep
  <2>6. QED
    BY <2>1, <2>2, <2>3, <2>5
<1>10. Closing'
  BY <1>9 DEF Closing
<1>11. QED
  BY <1>2, <1>3, <1>4, <1>5, <1>8, <1>10 DEF Kept, CargoInv, LeftMove, Docked

-----------------------------------------------------------------------------
(* An update of a secret.                                                  *)
LEMMA SecretReadKept ==
    ASSUME CargoInv, SecretRead
    PROVE  Kept
<1>1. UNCHANGED <<tmVars, row, proc, body, doomed, dh, dockerVars, req, left>>
  BY DEF SecretRead, dbVars, clientVars
<1>2. LeftMove /\ Docked
  BY <1>1, SameLeft, SameDock
<1>3. Callers'
  <2>1. Conts' = Conts
    BY <1>1 DEF Conts
  <2>2. secret' \in [st : {"run"}, todo : SUBSET Cargoes]
    BY DEF SecretRead
  <2>3. QED
    BY <1>1, <2>1, <2>2 DEF CargoInv, Callers
<1>4. \A c : Asking(c) => Asking(c)'
  BY <1>1 DEF Asking, Asks
<1>5. [TM!Next]_(TM!vars) /\ queue' = queue /\ UNCHANGED <<loop, task>>
  BY <1>1 DEF TM!vars, tmVars
<1>6. QED
  BY <1>1, <1>2, <1>3, <1>4, <1>5, Elsewhere DEF CargoInv, Tables, Exists

LEMMA SecretUpdateKept ==
    ASSUME CargoInv, SecretUpdate
    PROVE  Kept
<1>1. UNCHANGED <<proc, body, doomed, dh, dockerVars, req, left>>
  BY DEF SecretUpdate, clientVars
<1>2. LeftMove /\ Docked
  BY <1>1, SameLeft, SameDock
<1>3. secret \in [st : {"run"}, todo : SUBSET Cargoes]
  BY DEF CargoInv, Callers, SecretUpdate
<1>4. PICK c \in Cargoes :
        /\ row' = IF Exists(c) THEN SetActual(c, "Updating") ELSE row
        /\ TM!Emit(Ev(c, "Updating"))
        /\ secret' = [secret EXCEPT !.todo = @ \ {c}]
  BY <1>3 DEF SecretUpdate
<1>5. Callers'
  <2>1. Conts' = Conts
    BY <1>1 DEF Conts
  <2>2. secret' \in [st : {"run"}, todo : SUBSET Cargoes]
    BY <1>3, <1>4
  <2>3. QED
    BY <1>1, <2>1, <2>2 DEF CargoInv, Callers
<1>6. /\ row' \in [Cargoes -> {None} \cup Rows]
      /\ \A d \in Cargoes : d # c => row'[d] = row[d]
  <2>1. CASE Exists(c)
    <3>1. PICK r \in Rows : row' = [row EXCEPT ![c] = r]
      BY <1>4, <2>1, ActualRow DEF Statuses
    <3>2. QED
      BY <3>1 DEF CargoInv, Tables
  <2>2. CASE ~Exists(c)
    BY <1>4, <2>2 DEF CargoInv, Tables
  <2>3. QED
    BY <2>1, <2>2
<1>7. Queued(c)'
  BY <1>4, EmitQueues DEF TM!TaskActions
<1>8. \A d : Asking(d) => Asking(d)'
  BY <1>1 DEF Asking, Asks
<1>9. UNCHANGED <<loop, task>> /\ \E ev : queue' = Append(queue, ev)
  BY <1>4 DEF TM!Emit
<1>10. [TM!Next]_(TM!vars)
  BY <1>4, Emitted DEF TM!Next, TM!TaskActions
<1>11. QED
  BY <1>1, <1>2, <1>5, <1>6, <1>7, <1>8, <1>9, <1>10, Elsewhere DEF CargoInv, Tables, Exists

(* The handler is over: the loop goes back to the channel.                 *)
LEMMA SecretDoneKept ==
    ASSUME CargoInv, SecretDone
    PROVE  Kept
<1>1. UNCHANGED <<row, proc, body, doomed, dh, dockerVars, req, left>> /\ secret' = None
  BY DEF SecretDone, dbVars, clientVars
<1>2. UNCHANGED <<queue, task>> /\ loop.pc = "busy"
  BY DEF SecretDone, TM!HandlerDone
<1>3. LeftMove /\ Docked
  BY <1>1, SameLeft, SameDock
<1>4. Tables' /\ Conts' = Conts
  BY <1>1, <1>3, TablesKept DEF CargoInv, Tables
<1>5. Callers' /\ Locals'
  BY <1>1, <1>2, <1>4 DEF CargoInv, Callers, Locals
<1>6. [TM!Next]_(TM!vars)
  BY DEF SecretDone, TM!Next, TM!LoopStep
<1>7. TMP!IInv'
  BY <1>6, TmKept DEF CargoInv
<1>8. \A c \in Cargoes : /\ Asking(c) => Asking(c)'
                         /\ Queued(c) => Queued(c)'
                         /\ Working(c) => Working(c)'
  BY <1>1, <1>2 DEF Asking, Asks, Queued, Calls, Working, Works
<1>9. Closing'
  BY <1>1, <1>8 DEF CargoInv, Closing, Exists
<1>10. QED
  BY <1>3, <1>4, <1>5, <1>6, <1>7, <1>9 DEF Kept, CargoInv, LeftMove, Docked

-----------------------------------------------------------------------------
(* Requests.  One that begins is counted; k asks for the cargo of the      *)
(* request it has written the status for and not emitted yet.              *)
LEMMA Begun ==
    ASSUME CargoInv, NEW k, NEW op, Begin(k, op)
    PROVE  /\ LeftMove /\ left'.made = left.made
           /\ op \in left.w.ops /\ req[k] = None
<1>1. op \in AllOps /\ left.reqs \in Nat /\ left.reqs > 0
  BY ConstAssumption DEF CargoInv, Bounds, Begin
<1>2. left.seen \cup {op} \in SUBSET AllOps /\ left.reqs - 1 \in Nat
  BY <1>1 DEF CargoInv, Bounds
<1>3. PICK g : g = [left EXCEPT !.reqs = @ - 1]
  OBVIOUS
<1>4. /\ g \in [w : Worlds, made : Nat, reqs : Nat, fails : Nat, crashes : Nat,
                seen : SUBSET AllOps]
      /\ g.w = left.w /\ g.made = left.made /\ g.seen = left.seen
  BY <1>2, <1>3 DEF CargoInv, Bounds
<1>5. left' = [g EXCEPT !.seen = left.seen \cup {op}]
  BY <1>3, <1>4 DEF Begin
<1>6. LeftMove /\ left'.made = left.made
  BY <1>2, <1>4, <1>5 DEF LeftMove, Bounds
<1>7. QED
  BY <1>6 DEF Begin

(* A step of the request of k: everybody else's stays.                     *)
LEMMA Serves ==
    ASSUME CargoInv, NEW k \in Clients, NEW q, q \in {None} \cup Requests(Conts, left.w.ops),
           req' = [req EXCEPT ![k] = q], UNCHANGED daemonVars, UNCHANGED <<loop, task>>,
           [TM!Next]_(TM!vars), queue' = queue \/ \E ev : queue' = Append(queue, ev),
           LeftMove, Docked, row' \in [Cargoes -> {None} \cup Rows],
           \A c \in Cargoes : Exists(c)' /\ row'[c].actual \in Transitional =>
               \/ Exists(c) /\ row[c].actual \in Transitional /\ ~Asks(k, c)
               \/ Asks(k, c)' \/ Queued(c)'
    PROVE  Kept
<1>1. req' \in [Clients -> {None} \cup Requests(Conts, left.w.ops)]
      /\ \A j \in Clients : j # k => req'[j] = req[j]
  BY DEF CargoInv, Callers
<1>2. Callers'
  <2>1. Conts' = Conts /\ left'.w = left.w
    BY DEF Conts, LeftMove
  <2>2. QED
    BY <1>1, <2>1 DEF CargoInv, Callers, daemonVars
<1>3. \A c : Asking(c) /\ ~Asks(k, c) => Asking(c)'
  BY <1>1 DEF Asking, Asks
<1>4. \A c : Asks(k, c)' => Asking(c)'
  BY DEF Asking
<1>5. dh' \in {None} \cup [st : {"run"}, pc : {"write", "sync"}, ev : DockerEvents(Conts)]
  BY DEF CargoInv, Tables, daemonVars
<1>6. ASSUME NEW c \in Cargoes, Exists(c)', row'[c].actual \in Transitional
      PROVE  \/ /\ Exists(c) /\ row[c].actual \in Transitional
                /\ Asking(c) => Asking(c)' \/ Queued(c)'
             \/ Asking(c)' \/ Queued(c)'
  BY <1>3, <1>4, <1>6
<1>7. QED
  BY <1>2, <1>5, <1>6, Elsewhere DEF daemonVars

(* The same when the task manager is left alone.                           *)
LEMMA ServesAlone ==
    ASSUME CargoInv, NEW k \in Clients, NEW q, q \in {None} \cup Requests(Conts, left.w.ops),
           req' = [req EXCEPT ![k] = q], UNCHANGED daemonVars, UNCHANGED tmVars,
           LeftMove, Docked, row' \in [Cargoes -> {None} \cup Rows],
           \A c \in Cargoes : Exists(c)' /\ row'[c].actual \in Transitional =>
               \/ Exists(c) /\ row[c].actual \in Transitional /\ ~Asks(k, c)
               \/ Asks(k, c)'
    PROVE  Kept
<1>1. [TM!Next]_(TM!vars) /\ queue' = queue /\ UNCHANGED <<loop, task>>
  BY DEF TM!vars, tmVars
<1>2. QED
  BY <1>1, Serves

(* A request that leaves its record as it is.                              *)
LEMMA SameRequest ==
    ASSUME CargoInv, NEW k \in Clients, UNCHANGED req
    PROVE  /\ req' = [req EXCEPT ![k] = req[k]]
           /\ req[k] \in {None} \cup Requests(Conts, left.w.ops)
BY DEF CargoInv, Callers

LEMMA RequestTyped ==
    ASSUME CargoInv, NEW op \in left.w.ops, NEW c \in Cargoes,
           NEW pc \in {"each", "write", "spec", "emit"}, NEW todo, todo \subseteq Conts
    PROVE  /\ Request(op, c, pc, todo) \in Requests(Conts, left.w.ops)
           /\ Request(op, c, pc, todo) # None
           /\ Request(op, c, pc, todo).op = op /\ Request(op, c, pc, todo).pc = pc
           /\ Request(op, c, pc, todo).c = c /\ Request(op, c, pc, todo).todo = todo
BY DEF Request, Requests, None

LEMMA NowAsks ==
    ASSUME CargoInv, NEW k \in Clients, NEW c \in Cargoes,
           NEW op \in left.w.ops \cap {"start", "stop", "put", "delete", "force"},
           NEW pc \in {"spec", "emit"}, Goes(k, op, c, pc)
    PROVE  Asks(k, c)'
<1>1. req'[k] = Request(op, c, pc, {})
  BY DEF Goes, CargoInv, Callers
<1>2. QED
  BY <1>1, RequestTyped DEF Asks

(* Writing both columns of the status.                                     *)
LEMMA StatusRow ==
    ASSUME CargoInv, NEW c \in Cargoes, Exists(c), NEW wanted \in Statuses, NEW st \in Statuses
    PROVE  /\ SetStatus(c, wanted, st) \in [Cargoes -> {None} \cup Rows]
           /\ \A d \in Cargoes : d # c => SetStatus(c, wanted, st)[d] = row[d]
<1>1. row[c] \in Rows
  BY RowSpec
<1>2. PICK r : r = [row[c] EXCEPT !.wanted = wanted, !.actual = st]
  OBVIOUS
<1>3. r \in Rows
  BY <1>1, <1>2 DEF Rows
<1>4. SetStatus(c, wanted, st) = [row EXCEPT ![c] = r]
  BY <1>2 DEF SetStatus, CargoInv, Tables
<1>5. QED
  BY <1>3, <1>4 DEF CargoInv, Tables

LEMMA CreateCargoKept ==
    ASSUME CargoInv, NEW k \in Clients, NEW c \in Cargoes, CreateCargo(k, c)
    PROVE  Kept
<1>1. LeftMove /\ Docked
  BY Begun, SameDock DEF CreateCargo
<1>2. req[k] = None
  BY Begun DEF CreateCargo
<1>3. PICK r : r = Row("Create", "Create", 1)
  OBVIOUS
<1>4. r \in Rows /\ r.actual \notin Transitional
  BY <1>3 DEF Row, Rows, Statuses, Transitional
<1>5. /\ row' \in [Cargoes -> {None} \cup Rows] /\ row'[c] = r
      /\ \A d \in Cargoes : d # c => row'[d] = row[d]
  BY <1>3, <1>4 DEF CargoInv, Tables, CreateCargo
<1>6. UNCHANGED <<loop, task>> /\ \E ev : queue' = Append(queue, ev)
  BY DEF TM!Emit, CreateCargo
<1>7. [TM!Next]_(TM!vars)
  BY Emitted DEF TM!Next, CreateCargo
<1>8. \A d : ~Asks(k, d)
  BY <1>2 DEF Asks
<1>9. req' = [req EXCEPT ![k] = None]
  BY <1>2, SameRequest DEF CreateCargo
<1>10. QED
  BY <1>1, <1>4, <1>5, <1>6, <1>7, <1>8, <1>9, Serves DEF CreateCargo, Exists

(* Requests that write a status and are about to emit, or to write a spec. *)
LEMMA MarkKept ==
    ASSUME CargoInv, NEW k \in Clients, NEW c \in Cargoes, Exists(c),
           NEW op \in left.w.ops \cap {"start", "stop", "put", "delete", "force"},
           NEW wanted \in Statuses, NEW st \in Statuses, NEW pc \in {"spec", "emit"},
           row' = SetStatus(c, wanted, st), Goes(k, op, c, pc), \A d \in Cargoes : ~Asks(k, d),
           UNCHANGED <<tmVars, proc, daemonVars, dockerVars>>, LeftMove, left'.made = left.made
    PROVE  Kept
<1>1. Docked
  BY SameDock
<1>2. /\ row' \in [Cargoes -> {None} \cup Rows]
      /\ \A d \in Cargoes : d # c => row'[d] = row[d]
  BY StatusRow
<1>3. PICK q : q = Request(op, c, pc, {})
  OBVIOUS
<1>4. q \in Requests(Conts, left.w.ops) /\ req' = [req EXCEPT ![k] = q]
  BY <1>3, RequestTyped DEF Goes
<1>5. Asks(k, c)'
  BY NowAsks
<1>6. QED
  BY <1>1, <1>2, <1>4, <1>5, ServesAlone DEF Exists

LEMMA StartCargoKept ==
    ASSUME CargoInv, NEW k \in Clients, NEW c \in Cargoes, StartCargo(k, c)
    PROVE  Kept
<1>1. LeftMove /\ left'.made = left.made /\ "start" \in left.w.ops
  BY Begun DEF StartCargo
<1>2. \A d \in Cargoes : ~Asks(k, d)
  BY Begun DEF StartCargo, Asks
<1>3. QED
  BY <1>1, <1>2, MarkKept DEF StartCargo, Statuses

LEMMA PutCargoKept ==
    ASSUME CargoInv, NEW k \in Clients, NEW c \in Cargoes, PutCargo(k, c)
    PROVE  Kept
<1>1. LeftMove /\ left'.made = left.made /\ "put" \in left.w.ops
  BY Begun DEF PutCargo
<1>2. \A d \in Cargoes : ~Asks(k, d)
  BY Begun DEF PutCargo, Asks
<1>3. QED
  BY <1>1, <1>2, MarkKept DEF PutCargo, Statuses

(* Requests that only note where they are.                                 *)
LEMMA NoteKept ==
    ASSUME CargoInv, NEW k \in Clients, NEW op, Begin(k, op),
           NEW q, q \in {None} \cup Requests(Conts, left.w.ops), req' = [req EXCEPT ![k] = q],
           UNCHANGED <<tmVars, dbVars, daemonVars, dockerVars>>
    PROVE  Kept
<1>1. LeftMove /\ Docked
  BY Begun, SameDock DEF dbVars
<1>2. \A d \in Cargoes : ~Asks(k, d)
  BY Begun DEF Asks
<1>3. row' \in [Cargoes -> {None} \cup Rows] /\ row' = row
  BY DEF CargoInv, Tables, dbVars
<1>4. QED
  BY <1>1, <1>2, <1>3, ServesAlone DEF Exists

LEMMA StopCargoKept ==
    ASSUME CargoInv, NEW k \in Clients, NEW c \in Cargoes, StopCargo(k, c)
    PROVE  Kept
<1>1. Begin(k, "stop") /\ "stop" \in left.w.ops /\ req[k] = None
  BY Begun DEF StopCargo
<1>2. PICK q : q \in {None} \cup Requests(Conts, left.w.ops) /\ req' = [req EXCEPT ![k] = q]
  <2>1. CASE UNCHANGED req
    BY <2>1, SameRequest
  <2>2. CASE Goes(k, "stop", c, "write")
    BY <1>1, <2>2, RequestTyped DEF Goes
  <2>3. QED
    BY <2>1, <2>2 DEF StopCargo
<1>3. QED
  BY <1>1, <1>2, NoteKept DEF StopCargo

LEMMA DeleteCargoKept ==
    ASSUME CargoInv, NEW k \in Clients, NEW c \in Cargoes, NEW op \in {"delete", "force"},
           DeleteCargo(k, c, op)
    PROVE  Kept
<1>1. Begin(k, op) /\ op \in left.w.ops
  BY Begun DEF DeleteCargo
<1>2. PICK q : q \in Requests(Conts, left.w.ops) /\ req' = [req EXCEPT ![k] = q]
  BY <1>1, RequestTyped DEF DeleteCargo, Goes
<1>3. QED
  BY <1>1, <1>2, NoteKept DEF DeleteCargo

LEMMA EachProcessKept ==
    ASSUME CargoInv, NEW k \in Clients, NEW c \in Cargoes, NEW op \in {"restart", "kill"},
           EachProcess(k, c, op)
    PROVE  Kept
<1>1. Begin(k, op) /\ op \in left.w.ops
  BY Begun DEF EachProcess
<1>2. PICK S : S = ProcsOf(c) /\ S \subseteq Conts
  BY DEF ProcsOf
<1>3. PICK q : q \in Requests(Conts, left.w.ops) /\ req' = [req EXCEPT ![k] = q]
  BY <1>1, <1>2, RequestTyped DEF EachProcess
<1>4. QED
  BY <1>1, <1>3, NoteKept DEF EachProcess

LEMMA PutSecretKept ==
    ASSUME CargoInv, NEW k \in Clients, NEW s \in Secrets, PutSecret(k, s)
    PROVE  Kept
<1>1. LeftMove /\ Docked /\ req[k] = None
  BY Begun, SameDock DEF PutSecret, dbVars
<1>2. UNCHANGED <<loop, task>> /\ \E ev : queue' = Append(queue, ev)
  BY DEF TM!Emit, PutSecret
<1>3. [TM!Next]_(TM!vars)
  BY EmittedSecret DEF TM!Next, PutSecret
<1>4. \A d : ~Asks(k, d)
  BY <1>1 DEF Asks
<1>5. req' = [req EXCEPT ![k] = None]
  BY <1>1, SameRequest DEF PutSecret, clientVars
<1>6. row' \in [Cargoes -> {None} \cup Rows] /\ row' = row
  BY DEF CargoInv, Tables, dbVars, PutSecret
<1>7. QED
  BY <1>1, <1>2, <1>3, <1>4, <1>5, <1>6, Serves DEF PutSecret, Exists

LEMMA StartProcessKept ==
    ASSUME CargoInv, NEW k \in Clients, NEW i \in Conts, StartProcess(k, i)
    PROVE  Kept
<1>1. LeftMove /\ left'.made = left.made /\ req[k] = None
  BY Begun DEF StartProcess
<1>2. Docked
  BY <1>1, StartDrives, Driven DEF StartProcess, dbVars, CargoInv
<1>3. \A d : ~Asks(k, d)
  BY <1>1 DEF Asks
<1>4. req' = [req EXCEPT ![k] = None]
  BY <1>1, SameRequest DEF StartProcess, clientVars
<1>5. row' \in [Cargoes -> {None} \cup Rows] /\ row' = row
  BY DEF CargoInv, Tables, dbVars, StartProcess
<1>6. QED
  BY <1>1, <1>2, <1>3, <1>4, <1>5, ServesAlone DEF StartProcess, Exists

(* A request in progress.                                                  *)
LEMMA InProgress ==
    ASSUME CargoInv, NEW k \in Clients, req[k] # None
    PROVE  /\ req[k] \in Requests(Conts, left.w.ops)
           /\ req[k].c \in Cargoes /\ req[k].op \in left.w.ops
           /\ req[k].pc \in {"each", "write", "spec", "emit"} /\ req[k].todo \subseteq Conts
BY DEF CargoInv, Callers, Requests

(* The request of k ends: what it was to write is about a cargo that is    *)
(* gone, or nothing.                                                       *)
LEMMA EndsKept ==
    ASSUME CargoInv, NEW k \in Clients, Ends(k), UNCHANGED <<tmVars, row, daemonVars>>,
           LeftMove, Docked, \A c \in Cargoes : Asks(k, c) => ~Exists(c)
    PROVE  Kept
<1>1. row' \in [Cargoes -> {None} \cup Rows]
  BY DEF CargoInv, Tables
<1>2. QED
  BY <1>1, ServesAlone DEF Ends, Exists

LEMMA WriteStatusKept ==
    ASSUME CargoInv, NEW k \in Clients, WriteStatus(k)
    PROVE  Kept
<1>1. LeftMove /\ left'.made = left.made /\ Docked
  BY SameLeft, SameDock DEF WriteStatus
<1>2. req[k] # None /\ req[k].pc = "write" /\ req[k].op \in {"stop", "delete", "force"}
  BY DEF WriteStatus, In
<1>3. \A d \in Cargoes : ~Asks(k, d)
  BY <1>2 DEF Asks
<1>4. PICK c \in Cargoes : c = req[k].c
  BY <1>2, InProgress
<1>5. CASE Ends(k) /\ UNCHANGED row
  BY <1>1, <1>3, <1>5, EndsKept DEF WriteStatus
<1>6. CASE /\ Exists(c)
           /\ row' = IF req[k].op = "stop" THEN SetStatus(c, "Stop", "Stopping")
                                           ELSE SetStatus(c, "Destroy", "Destroying")
           /\ Goes(k, req[k].op, c, "emit")
  <2>1. PICK wanted \in Statuses, st \in Statuses : row' = SetStatus(c, wanted, st)
    BY <1>6 DEF Statuses
  <2>2. req[k].op \in left.w.ops \cap {"start", "stop", "put", "delete", "force"}
    BY <1>2, InProgress
  <2>3. PICK op : op = req[k].op
    OBVIOUS
  <2>4. QED
    BY <1>1, <1>3, <1>6, <2>1, <2>2, <2>3, MarkKept DEF WriteStatus
<1>7. QED
  BY <1>4, <1>5, <1>6 DEF WriteStatus

LEMMA PutSpecKept ==
    ASSUME CargoInv, NEW k \in Clients, PutSpec(k)
    PROVE  Kept
<1>1. LeftMove /\ Docked
  BY SameLeft, SameDock DEF PutSpec
<1>2. req[k] # None /\ req[k].op = "put"
  BY DEF PutSpec, In
<1>3. PICK c \in Cargoes : c = req[k].c
  BY <1>2, InProgress
<1>4. CASE ~Exists(c) /\ Ends(k) /\ UNCHANGED row
  <2>1. \A d \in Cargoes : Asks(k, d) => ~Exists(d)
    BY <1>3, <1>4 DEF Asks
  <2>2. QED
    BY <1>1, <1>4, <2>1, EndsKept DEF PutSpec
<1>5. CASE Exists(c) /\ row' = [row EXCEPT ![c].spec = @ + 1] /\ Goes(k, "put", c, "emit")
  <2>1. PICK r : r = [row[c] EXCEPT !.spec = @ + 1]
    OBVIOUS
  <2>2. r \in Rows
    BY <1>5, <2>1, RowSpec DEF Rows
  <2>3. /\ row' \in [Cargoes -> {None} \cup Rows]
        /\ \A d \in Cargoes : d # c => row'[d] = row[d]
    BY <1>5, <2>1, <2>2 DEF CargoInv, Tables
  <2>4. "put" \in left.w.ops
    BY <1>2, InProgress
  <2>5. PICK q : q = Request("put", c, "emit", {})
    OBVIOUS
  <2>6. q \in Requests(Conts, left.w.ops) /\ req' = [req EXCEPT ![k] = q]
    BY <1>5, <2>4, <2>5, RequestTyped DEF Goes
  <2>7. Asks(k, c)'
    BY <1>5, <2>4, NowAsks
  <2>8. \A d \in Cargoes : d # c => ~Asks(k, d)
    BY <1>3 DEF Asks
  <2>9. QED
    BY <1>1, <2>3, <2>6, <2>7, <2>8, ServesAlone DEF PutSpec, Exists
<1>6. QED
  BY <1>3, <1>4, <1>5 DEF PutSpec

LEMMA EmitRequestKept ==
    ASSUME CargoInv, NEW k \in Clients, EmitRequest(k)
    PROVE  Kept
<1>1. LeftMove /\ Docked
  BY SameLeft, SameDock DEF EmitRequest, dbVars
<1>2. req[k] # None /\ Ends(k)
  BY DEF EmitRequest
<1>3. PICK c \in Cargoes : c = req[k].c
  BY <1>2, InProgress
<1>4. PICK op : op = req[k].op
  OBVIOUS
<1>5. row' \in [Cargoes -> {None} \cup Rows] /\ row' = row
  BY DEF CargoInv, Tables, dbVars, EmitRequest
<1>6. CASE TM!Emit(Ev(c, EventOf(op)))
  <2>1. EventOf(op) \in TM!TaskActions \cup {"Other"}
    BY DEF EventOf, TM!TaskActions
  <2>2. UNCHANGED <<loop, task>> /\ \E ev : queue' = Append(queue, ev)
    BY <1>6 DEF TM!Emit
  <2>3. [TM!Next]_(TM!vars)
    BY <1>6, <2>1, Emitted DEF TM!Next
  <2>4. ASSUME NEW d \in Cargoes, Asks(k, d)
        PROVE  Queued(d)'
    <3>1. d = c /\ op \in {"start", "stop", "put", "delete", "force"}
      BY <1>3, <1>4, <2>4 DEF Asks
    <3>2. EventOf(op) \in TM!TaskActions
      BY <3>1 DEF EventOf, TM!TaskActions
    <3>3. PICK a \in TM!TaskActions : a = EventOf(op)
      BY <3>2
    <3>4. QED
      BY <1>6, <3>1, <3>3, EmitQueues
  <2>5. QED
    BY <1>1, <1>2, <1>5, <2>2, <2>3, <2>4, Serves DEF Ends, EmitRequest, Exists
<1>7. CASE ~Exists(c) /\ UNCHANGED tmVars
  <2>1. \A d \in Cargoes : Asks(k, d) => ~Exists(d)
    BY <1>3, <1>7 DEF Asks
  <2>2. QED
    BY <1>1, <1>2, <1>5, <1>7, <2>1, EndsKept DEF EmitRequest
<1>8. QED
  BY <1>3, <1>4, <1>6, <1>7 DEF EmitRequest

LEMMA NextProcessKept ==
    ASSUME CargoInv, NEW k \in Clients, NextProcess(k)
    PROVE  Kept
<1>1. req[k] # None /\ req[k].pc = "each" /\ req[k].op \in {"restart", "kill"}
  BY DEF NextProcess, In
<1>2. \A d \in Cargoes : ~Asks(k, d)
  BY <1>1 DEF Asks
<1>3. /\ req[k] \in Requests(Conts, left.w.ops) /\ req[k].c \in Cargoes
      /\ req[k].op \in left.w.ops /\ req[k].todo \subseteq Conts
  BY <1>1, InProgress
<1>4. row' \in [Cargoes -> {None} \cup Rows] /\ UNCHANGED <<tmVars, row, proc, daemonVars>>
  BY DEF CargoInv, Tables, dbVars, NextProcess
<1>5. PICK i : i = Newest(req[k].todo)
  OBVIOUS
<1>6. CASE /\ IF req[k].op = "restart" THEN Goes(k, req[k].op, req[k].c, "emit") ELSE Ends(k)
           /\ UNCHANGED <<dockerVars, left>>
  <2>1. LeftMove /\ Docked
    BY <1>4, <1>6, SameLeft, SameDock
  <2>2. PICK q : q \in {None} \cup Requests(Conts, left.w.ops) /\ req' = [req EXCEPT ![k] = q]
    BY <1>3, <1>6, RequestTyped DEF Goes, Ends
  <2>3. QED
    BY <1>2, <1>4, <2>1, <2>2, ServesAlone DEF Exists
<1>7. CASE /\ req[k].todo # {} /\ Present(i)
           /\ IF req[k].op = "restart" THEN RestartCont(i) ELSE StopCont(i)
           /\ req' = [req EXCEPT ![k].todo = @ \ {i}]
           /\ UNCHANGED left
  <2>1. i \in Conts
    BY <1>3, <1>5, <1>7, NewestCont DEF CargoInv
  <2>2. Drives(i)
    BY <1>7, <2>1, RestartDrives, StopDrives DEF CargoInv
  <2>3. LeftMove /\ Docked
    BY <1>4, <1>7, <2>1, <2>2, SameLeft, Driven
  <2>4. PICK q : q = [req[k] EXCEPT !.todo = @ \ {i}]
    OBVIOUS
  <2>5. q \in Requests(Conts, left.w.ops)
    BY <1>3, <2>4 DEF Requests
  <2>6. req' = [req EXCEPT ![k] = q]
    BY <1>7, <2>4 DEF CargoInv, Callers
  <2>7. QED
    BY <1>2, <1>4, <2>3, <2>5, <2>6, ServesAlone DEF Exists
<1>8. ASSUME NEW ok, CallFails(ok), Ends(k), UNCHANGED dockerVars
      PROVE  Kept
  <2>1. LeftMove /\ Docked
    BY <1>4, <1>8, FailedCall, SameDock
  <2>2. QED
    BY <1>2, <1>4, <1>8, <2>1, EndsKept
<1>9. QED
  BY <1>5, <1>6, <1>7, <1>8 DEF NextProcess

-----------------------------------------------------------------------------
LEMMA NewRequestKept ==
    ASSUME CargoInv, NEW k \in Clients, NewRequest(k)
    PROVE  Kept
BY CreateCargoKept, StartCargoKept, StopCargoKept, PutCargoKept, DeleteCargoKept,
   EachProcessKept, PutSecretKept, StartProcessKept DEF NewRequest

LEMMA StepKept ==
    ASSUME CargoInv, [Next]_vars
    PROVE  Kept
<1>1. CASE UNCHANGED vars
  <2>1. UNCHANGED <<tmVars, row, proc, body, secret, req, dh, doomed, dockerVars, left>>
    BY <1>1 DEF vars, dbVars, daemonVars, clientVars
  <2>2. LeftMove /\ Docked
    BY <2>1, SameLeft, SameDock
  <2>3. QED
    BY <2>1, <2>2, DockerKept DEF CargoInv, Tables, Callers
<1>2. CASE Next
  <2>1. ASSUME NEW k \in Clients, RequestStep(k)
        PROVE  Kept
    BY <2>1, WriteStatusKept, PutSpecKept, EmitRequestKept, NextProcessKept DEF RequestStep
  <2>2. CASE SecretStep
    BY <2>2, SecretReadKept, SecretUpdateKept, SecretDoneKept DEF SecretStep
  <2>3. CASE DockerStep
    BY <2>3, DockerRecvKept, DockerWriteKept, DockerSyncKept DEF DockerStep
  <2>4. QED
    BY <1>2, <2>1, <2>2, <2>3, NewRequestKept, LoopKept, TaskStepKept, ReapKept, ExitKept
    DEF Next
<1>3. QED
  BY <1>1, <1>2

LEMMA InitHolds ==
    ASSUME Init
    PROVE  CargoInv
<1>1. PICK w \in Worlds :
          left = [w |-> w, made |-> 0, reqs |-> w.reqs, fails |-> w.fails, crashes |-> w.crashes,
                  seen |-> {}]
  BY DEF Init
<1>2. Bounds
  BY <1>1, ConstAssumption DEF Bounds
<1>3. Tables /\ Callers /\ Locals /\ RowPerContainer
  BY DEF Init, Tables, Callers, Locals, RowPerContainer
<1>4. Gone /\ Closing
  BY DEF Init, Gone, Closing, Exists
<1>5. TMP!IInv
  BY TmInit DEF Init
<1>6. QED
  BY <1>2, <1>3, <1>4, <1>5 DEF CargoInv

LEMMA CargoInvariant == Spec => []CargoInv
<1>1. Init => CargoInv
  BY InitHolds
<1>2. CargoInv /\ [Next]_vars => CargoInv'
  BY StepKept DEF Kept
<1>3. QED
  BY <1>1, <1>2, PTL DEF Spec

(* Every variable keeps its type; a task has local variables only while    *)
(* its body runs: no path through a task leaves them behind, and the loop  *)
(* never aborts a task between two docker calls.                           *)
THEOREM CargoTypes == Spec => []TypeOK
<1>1. CargoInv => TypeOK
  <2> SUFFICES ASSUME CargoInv PROVE TypeOK
    OBVIOUS
  <2>1. TM!TypeOK
    BY TmTyped DEF CargoInv
  <2>2. \A k \in Clients : req[k] = None \/ req[k].op \in left.w.ops
    BY InProgress
  <2>3. QED
    BY <2>1, <2>2 DEF TypeOK, CargoInv, Tables, Callers, Locals, Rows, Procs, Containers
<1>2. QED
  BY <1>1, CargoInvariant, PTL

(* The processes table misses no container docker has, however late the    *)
(* analyser handles docker's events and whoever deletes rows: the daemon's *)
(* stop and delete, which act on rows, reach every container.              *)
THEOREM RowsCoverContainers == Spec => []RowPerContainer
<1>1. CargoInv => RowPerContainer
  BY DEF CargoInv
<1>2. QED
  BY <1>1, CargoInvariant, PTL

(* No cargo stays "starting", "stopping", "updating" or "destroying" once  *)
(* nothing is in flight: every path of the handlers, the tasks and their   *)
(* on_error callbacks ends in a final status.                              *)
THEOREM NoCargoIsStuck == Spec => []NotStuck
<1>1. CargoInv => NotStuck
  <2> SUFFICES ASSUME CargoInv, Quiet, NEW c \in Cargoes, Exists(c),
                      row[c].actual \in Transitional
               PROVE  FALSE
    BY DEF NotStuck
  <2>1. ~Asking(c) /\ ~Working(c)
    BY DEF Quiet, Asking, Asks, Working, Works
  <2>2. ~Queued(c)
    BY DEF Quiet, Queued, TM!Idle
  <2>3. QED
    BY <2>1, <2>2 DEF CargoInv, Closing
<1>2. QED
  BY <1>1, CargoInvariant, PTL

(* The daemon drives its event loop the way TaskManager says: whatever the *)
(* handlers, tasks and analyser do, the channel, the map and the futures   *)
(* take steps of TaskManager.                                              *)
THEOREM ImplementsTaskManager == Spec => TM!Spec
<1>1. Init => TM!Init
  BY DEF Init
<1>2. CargoInv /\ [Next]_vars => [TM!Next]_(TM!vars)
  BY StepKept DEF Kept
<1>3. QED
  BY <1>1, <1>2, CargoInvariant, PTL DEF Spec, TM!Spec

(* ... so that two tasks of one cargo never run at the same time, with     *)
(* their real bodies.                                                      *)
THEOREM OneTaskPerCargo == Spec => []TM!OneBodyPerSerial
<1>1. CargoInv => TM!OneBodyPerSerial
  BY DEF CargoInv, TMP!IInv, TMP!MapTracksBodies, TMP!Body, TM!OneBodyPerSerial, TM!Body
<1>2. QED
  BY <1>1, CargoInvariant, PTL

-----------------------------------------------------------------------------
(* A task step is its own: no other task moves, and a body that goes on is *)
(* the body of the same event.                                             *)
Still(u) == body'[u] = body[u] /\ task'[u] = task[u]

Alone(t) ==
    /\ \A u \in TaskIds : u # t => Still(u)
    /\ body'[t] # None => task'[t] = task[t]

(* What is left of its local variables when the body of t goes on.         *)
GoesOn(t, pc, todo, new, rows) ==
    /\ body[t] # None /\ body'[t] # None
    /\ body'[t].pc = pc /\ body'[t].todo = todo /\ body'[t].new = new
    /\ body'[t].rows = rows /\ body'[t].spec = body[t].spec

Turns(t, pc, todo) == GoesOn(t, pc, todo, body[t].new, body[t].rows)

Ended(t) == body'[t] = None

LEMMA SetIs ==
    ASSUME CargoInv, NEW t \in TaskIds, NEW b, Set(t, b)
    PROVE  body'[t] = b /\ \A u \in TaskIds : u # t => body'[u] = body[u]
BY DEF CargoInv, Locals, Set

LEMMA SetAlone ==
    ASSUME CargoInv, NEW t \in TaskIds, NEW b, Set(t, b), UNCHANGED task
    PROVE  Alone(t) /\ body'[t] = b
BY SetIs DEF Alone, Still

LEMMA ErrAlone ==
    ASSUME CargoInv, NEW t \in TaskIds, Err(t)
    PROVE  Alone(t) /\ Ended(t)
<1>1. TM!TypeOK
  BY TmTyped DEF CargoInv
<1>2. \A s \in TaskIds : s # t => task'[s] = task[s]
  BY <1>1 DEF Err, TM!BodyErr, TM!TypeOK
<1>3. body'[t] = None /\ \A u \in TaskIds : u # t => body'[u] = body[u]
  BY SetIs DEF Err
<1>4. QED
  BY <1>2, <1>3 DEF Alone, Still, Ended

LEMMA GotoIs ==
    ASSUME NEW C, NEW t, GoodFrame(body[t], C), NEW pc, NEW todo
    PROVE  /\ Goto(t, pc, todo).pc = pc /\ Goto(t, pc, todo).todo = todo
           /\ Goto(t, pc, todo).new = body[t].new /\ Goto(t, pc, todo).rows = body[t].rows
           /\ Goto(t, pc, todo).spec = body[t].spec /\ Goto(t, pc, todo) # None
           /\ Goto(t, pc, todo).make = body[t].make /\ Goto(t, pc, todo).tmp = body[t].tmp
           /\ Goto(t, pc, todo).err = body[t].err /\ Goto(t, pc, todo).st = "run"
           /\ body[t] # None
<1>1. body[t] \in Frames(C)
  BY DEF GoodFrame
<1>2. PICK b : b = Goto(t, pc, todo)
  OBVIOUS
<1>3. /\ b.pc = pc /\ b.todo = todo /\ b.new = body[t].new /\ b.rows = body[t].rows
      /\ b.spec = body[t].spec /\ b.make = body[t].make /\ b.tmp = body[t].tmp
      /\ b.err = body[t].err /\ b.st = "run" /\ body[t].st = "run"
  BY <1>1, <1>2 DEF Frames, Goto
<1>4. QED
  BY <1>2, <1>3 DEF None

LEMMA DoneIs ==
    ASSUME NEW C, NEW t, GoodFrame(body[t], C), NEW i
    PROVE  Done(t, i) = Goto(t, body[t].pc, body[t].todo \ {i})
BY DEF GoodFrame, Frames, Done, Goto

LEMMA TurnsBy ==
    ASSUME CargoInv, NEW t \in TaskIds, GoodFrame(body[t], Conts), UNCHANGED task,
           NEW pc, NEW todo, Set(t, Goto(t, pc, todo))
    PROVE  /\ Alone(t) /\ Turns(t, pc, todo)
           /\ body'[t].make = body[t].make /\ body'[t].tmp = body[t].tmp
BY SetAlone, GotoIs DEF Turns, GoesOn

LEMMA TurnsDone ==
    ASSUME CargoInv, NEW t \in TaskIds, GoodFrame(body[t], Conts), UNCHANGED task,
           NEW i, Set(t, Done(t, i))
    PROVE  Alone(t) /\ Turns(t, body[t].pc, body[t].todo \ {i})
<1>1. PICK pc, todo : pc = body[t].pc /\ todo = body[t].todo \ {i}
  OBVIOUS
<1>2. Set(t, Goto(t, pc, todo))
  BY <1>1, DoneIs
<1>3. Alone(t) /\ Turns(t, pc, todo)
  BY <1>2, TurnsBy
<1>4. QED
  BY <1>1, <1>3

LEMMA FrameIs ==
    ASSUME NEW spec, NEW pc, NEW todo
    PROVE  /\ Frame(spec, pc, todo).pc = pc /\ Frame(spec, pc, todo).todo = todo
           /\ Frame(spec, pc, todo).new = {} /\ Frame(spec, pc, todo).spec = spec
           /\ Frame(spec, pc, todo).rows = [i \in Conts |-> None]
           /\ Frame(spec, pc, todo) # None
<1>1. PICK b : b = Frame(spec, pc, todo)
  OBVIOUS
<1>2. /\ b.pc = pc /\ b.todo = todo /\ b.new = {} /\ b.spec = spec
      /\ b.rows = [i \in Conts |-> None] /\ b.st = "run"
  BY <1>1, Zenon DEF Frame
<1>3. QED
  BY <1>1, <1>2 DEF None

-----------------------------------------------------------------------------
(* What docker tells of a call about i: nothing when the container keeps   *)
(* its state and name; events of i else, of which the last has its name,   *)
(* or is the destroy when it is gone.                                      *)
About(q, i, c) == \A n \in DOMAIN q : n \in DOMAIN dq \/ (q[n].id = i /\ q[n].cargo = c)

Extends(q) == \A n \in DOMAIN dq : n \in DOMAIN q /\ q[n] = dq[n]

Tells(i) ==
    /\ Extends(dq') /\ About(dq', i, cont[i].cargo)
    /\ \/ /\ dq' = dq /\ cont'[i] # None
          /\ cont'[i].st = cont[i].st /\ cont'[i].tmp = cont[i].tmp
       \/ \E n \in DOMAIN dq' :
            /\ n \notin DOMAIN dq /\ \A m \in DOMAIN dq' : m <= n
            /\ dq'[n].id = i
            /\ IF cont'[i] = None THEN dq'[n].type = "destroy" ELSE dq'[n].tmp = cont'[i].tmp

(* A container keeps its cargo, kind and spec until it is gone.            *)
Same(i) ==
    /\ cont'[i].cargo = cont[i].cargo /\ cont'[i].init = cont[i].init
    /\ cont'[i].spec = cont[i].spec

Steers(i) == Drives(i) /\ Tells(i) /\ (cont'[i] # None => Same(i))

LEMMA TellsLast ==
    ASSUME Tables, NEW v \in Seq(DockerEvents(Conts)), NEW i \in Conts,
           Extends(v), About(v, i, cont[i].cargo),
           NEW e \in DockerEvents(Conts), dq' = Append(v, e), e.id = i, e.cargo = cont[i].cargo,
           IF cont'[i] = None THEN e.type = "destroy" ELSE e.tmp = cont'[i].tmp
    PROVE  Tells(i)
<1>1. dq \in Seq(DockerEvents(Conts))
  BY DEF Tables
<1>2. /\ DOMAIN dq' = 1..(Len(v) + 1) /\ DOMAIN v = 1..Len(v) /\ Len(v) \in Nat
      /\ dq'[Len(v) + 1] = e /\ \A n \in DOMAIN v : dq'[n] = v[n]
      /\ DOMAIN dq = 1..Len(dq) /\ Len(dq) \in Nat
  BY <1>1
<1>3. Extends(dq')
  BY <1>2 DEF Extends
<1>4. About(dq', i, cont[i].cargo)
  BY <1>2 DEF About
<1>5. Len(v) + 1 \notin DOMAIN dq
  BY <1>2 DEF Extends
<1>6. Len(v) + 1 \in DOMAIN dq' /\ \A m \in DOMAIN dq' : m <= Len(v) + 1
  BY <1>2
<1>7. QED
  BY <1>2, <1>3, <1>4, <1>5, <1>6, Zenon DEF Tells

LEMMA TellsNothing ==
    ASSUME Tables, NEW i \in Conts, dq' = dq, cont'[i] # None,
           cont'[i].st = cont[i].st, cont'[i].tmp = cont[i].tmp
    PROVE  Tells(i)
<1>1. Extends(dq')
  BY Zenon DEF Extends
<1>2. About(dq', i, cont[i].cargo)
  BY Zenon DEF About
<1>3. QED
  BY <1>1, <1>2 DEF Tells

LEMMA EventIs ==
    ASSUME Tables, NEW i \in Conts, Present(i),
           NEW type \in {"start", "die", "stop", "destroy", "rename"}
    PROVE  /\ DockerEvent(type, i) \in DockerEvents(Conts)
           /\ DockerEvent(type, i).type = type /\ DockerEvent(type, i).id = i
           /\ DockerEvent(type, i).cargo = cont[i].cargo
           /\ DockerEvent(type, i).tmp = cont[i].tmp
BY EventTyped DEF DockerEvent

LEMMA Unsaid ==
    ASSUME Tables, NEW i \in Conts
    PROVE  dq \in Seq(DockerEvents(Conts)) /\ Extends(dq) /\ About(dq, i, cont[i].cargo)
<1>1. dq \in Seq(DockerEvents(Conts))
  BY DEF Tables
<1>2. Extends(dq)
  BY Zenon DEF Extends
<1>3. About(dq, i, cont[i].cargo)
  BY Zenon DEF About
<1>4. QED
  BY <1>1, <1>2, <1>3

(* The channel after docker killed i, if it was up.                        *)
LEMMA AfterDie ==
    ASSUME Tables, NEW i \in Conts, Present(i), NEW v, v = dq \o DieOf(i)
    PROVE  /\ v \in Seq(DockerEvents(Conts)) /\ Extends(v) /\ About(v, i, cont[i].cargo)
           /\ cont[i].st # "up" => v = dq
           /\ cont[i].st = "up" => v = Append(dq, DockerEvent("die", i))
<1>1. dq \in Seq(DockerEvents(Conts))
  BY DEF Tables
<1>2. PICK e \in DockerEvents(Conts) : e = DockerEvent("die", i) /\ e.id = i /\ e.cargo = cont[i].cargo
  BY EventIs
<1>3. CASE cont[i].st # "up"
  <2>1. v = dq
    BY <1>1, <1>3 DEF DieOf
  <2>2. QED
    BY <1>1, <1>3, <2>1, Unsaid
<1>4. CASE cont[i].st = "up"
  <2>1. v = dq \o <<e>>
    BY <1>2, <1>4 DEF DieOf
  <2>2. v = Append(dq, e)
    BY <1>1, <1>2, <2>1
  <2>3. /\ v \in Seq(DockerEvents(Conts)) /\ DOMAIN v = 1..(Len(dq) + 1)
        /\ v[Len(dq) + 1] = e /\ \A n \in DOMAIN dq : v[n] = dq[n]
        /\ DOMAIN dq = 1..Len(dq) /\ Len(dq) \in Nat
    BY <1>1, <1>2, <2>2
  <2>4. Extends(v)
    BY <2>3 DEF Extends
  <2>5. About(v, i, cont[i].cargo)
    BY <1>2, <2>3 DEF About
  <2>6. QED
    BY <1>2, <1>4, <2>2, <2>3, <2>4, <2>5
<1>5. QED
  BY <1>3, <1>4

LEMMA ContIs ==
    ASSUME Tables, NEW i \in Conts, Present(i)
    PROVE  cont[i] \in Containers /\ DOMAIN cont = Conts
BY DEF Tables, Present

LEMMA StateIs ==
    ASSUME Tables, NEW i \in Conts, Present(i), NEW st, cont' = [cont EXCEPT ![i].st = st]
    PROVE  /\ cont'[i] # None /\ cont'[i].st = st /\ cont'[i].tmp = cont[i].tmp
           /\ Same(i)
<1>1. cont[i] \in Containers /\ DOMAIN cont = Conts
  BY ContIs
<1>2. PICK r : r = [cont[i] EXCEPT !.st = st]
  OBVIOUS
<1>3. cont'[i] = r
  BY <1>1, <1>2
<1>4. /\ r.st = st /\ r.tmp = cont[i].tmp /\ r.cargo = cont[i].cargo
      /\ r.init = cont[i].init /\ r.spec = cont[i].spec /\ DOMAIN r = DOMAIN cont[i]
  BY <1>1, <1>2 DEF Containers
<1>5. r # None
  <2>1. "tmp" \in DOMAIN r /\ "tmp" \notin DOMAIN None
    BY <1>1, <1>4 DEF Containers, None
  <2>2. QED
    BY <2>1
<1>6. QED
  BY <1>3, <1>4, <1>5 DEF Same

LEMMA StartSteers ==
    ASSUME Tables, NEW i \in Conts, Present(i), StartCont(i)
    PROVE  Steers(i) /\ cont'[i] # None /\ cont'[i].st = "up"
<1>1. /\ Drives(i)
      /\ cont'[i] # None /\ cont'[i].st = "up" /\ cont'[i].tmp = cont[i].tmp /\ Same(i)
  BY StartDrives, StateIs DEF StartCont
<1>2. CASE cont[i].st = "up"
  BY <1>1, <1>2, TellsNothing DEF StartCont, Steers
<1>3. CASE cont[i].st # "up"
  <2>1. PICK e \in DockerEvents(Conts) : /\ e = DockerEvent("start", i) /\ e.id = i
                                         /\ e.cargo = cont[i].cargo /\ e.tmp = cont[i].tmp
    BY EventIs
  <2>2. dq' = Append(dq, e)
    BY <1>3, <2>1 DEF StartCont
  <2>3. Tells(i)
    BY <1>1, <2>1, <2>2, Unsaid, TellsLast
  <2>4. QED
    BY <1>1, <2>3 DEF Steers
<1>4. QED
  BY <1>2, <1>3

LEMMA RestartSteers ==
    ASSUME Tables, NEW i \in Conts, Present(i), RestartCont(i)
    PROVE  Steers(i) /\ cont'[i] # None /\ cont'[i].st = "up"
<1>1. /\ Drives(i)
      /\ cont'[i] # None /\ cont'[i].st = "up" /\ cont'[i].tmp = cont[i].tmp /\ Same(i)
  BY RestartDrives, StateIs DEF RestartCont
<1>2. PICK e \in DockerEvents(Conts) : /\ e = DockerEvent("start", i) /\ e.id = i
                                       /\ e.cargo = cont[i].cargo /\ e.tmp = cont[i].tmp
  BY EventIs
<1>3. PICK v : v = dq \o DieOf(i)
  OBVIOUS
<1>4. v \in Seq(DockerEvents(Conts)) /\ Extends(v) /\ About(v, i, cont[i].cargo)
  BY <1>3, AfterDie
<1>5. dq' = v \o <<e>>
  <2>1. dq \in Seq(DockerEvents(Conts)) /\ DieOf(i) \in Seq(DockerEvents(Conts))
    BY DieTyped DEF Tables
  <2>2. QED
    BY <1>2, <1>3, <2>1 DEF RestartCont
<1>6. dq' = Append(v, e)
  BY <1>4, <1>5
<1>7. Tells(i)
  BY <1>1, <1>2, <1>4, <1>6, TellsLast
<1>8. QED
  BY <1>1, <1>7 DEF Steers

LEMMA StopSteers ==
    ASSUME Tables, NEW i \in Conts, Present(i), StopCont(i)
    PROVE  /\ Steers(i) /\ cont'[i] # None /\ cont'[i].st \notin {"up", "crashed"}
           /\ cont'[i].st # "created" => cont[i].st # "created"
<1>1. PICK st : /\ cont' = [cont EXCEPT ![i].st = st]
                /\ st = CASE cont[i].st = "up" -> IF cont[i].init THEN "bad" ELSE "down"
                          [] cont[i].st = "crashed" -> "down"
                          [] OTHER -> cont[i].st
  BY ContIs DEF StopCont
<1>2. /\ Drives(i)
      /\ cont'[i] # None /\ cont'[i].st = st /\ cont'[i].tmp = cont[i].tmp /\ Same(i)
  BY <1>1, StopDrives, StateIs
<1>3. st \notin {"up", "crashed"} /\ (st # "created" => cont[i].st # "created")
  BY <1>1
<1>4. CASE cont[i].st = "up"
  <2>1. PICK e \in DockerEvents(Conts) : /\ e = DockerEvent("die", i) /\ e.id = i
                                         /\ e.cargo = cont[i].cargo /\ e.tmp = cont[i].tmp
    BY EventIs
  <2>2. dq' = Append(dq, e)
    BY <1>4, <2>1, AfterDie DEF StopCont
  <2>3. Tells(i)
    BY <1>2, <2>1, <2>2, Unsaid, TellsLast
  <2>4. QED
    BY <1>2, <1>3, <2>3 DEF Steers
<1>5. CASE cont[i].st = "crashed"
  <2>1. PICK e \in DockerEvents(Conts) : /\ e = DockerEvent("stop", i) /\ e.id = i
                                         /\ e.cargo = cont[i].cargo /\ e.tmp = cont[i].tmp
    BY EventIs
  <2>2. dq' = Append(dq, e)
    BY <1>5, <2>1 DEF StopCont
  <2>3. Tells(i)
    BY <1>2, <2>1, <2>2, Unsaid, TellsLast
  <2>4. QED
    BY <1>2, <1>3, <2>3 DEF Steers
<1>6. CASE cont[i].st \notin {"up", "crashed"}
  <2>1. dq' = dq /\ st = cont[i].st
    BY <1>1, <1>6 DEF StopCont
  <2>2. QED
    BY <1>2, <1>3, <2>1, TellsNothing DEF Steers
<1>7. QED
  BY <1>4, <1>5, <1>6

LEMMA ExitSteers ==
    ASSUME Tables, NEW i \in Conts, Present(i), NEW st \in ContStates, Exit(i, st)
    PROVE  Steers(i) /\ cont'[i] # None /\ cont'[i].st = st
<1>1. /\ Drives(i)
      /\ cont'[i] # None /\ cont'[i].st = st /\ cont'[i].tmp = cont[i].tmp /\ Same(i)
  BY ExitDrives, StateIs DEF Exit
<1>2. PICK e \in DockerEvents(Conts) : /\ e = DockerEvent("die", i) /\ e.id = i
                                       /\ e.cargo = cont[i].cargo /\ e.tmp = cont[i].tmp
  BY EventIs
<1>3. dq' = Append(dq, e)
  BY <1>2 DEF Exit
<1>4. Tells(i)
  BY <1>1, <1>2, <1>3, Unsaid, TellsLast
<1>5. QED
  BY <1>1, <1>4 DEF Steers

LEMMA RenameSteers ==
    ASSUME Tables, NEW i \in Conts, Present(i), NEW n \in Nat, RenameCont(i, n)
    PROVE  Steers(i) /\ cont'[i] # None /\ cont'[i].st = cont[i].st
<1>1. cont[i] \in Containers /\ DOMAIN cont = Conts
  BY ContIs
<1>2. PICK r : r = [cont[i] EXCEPT !.tmp = n]
  OBVIOUS
<1>3. cont'[i] = r
  BY <1>1, <1>2 DEF RenameCont
<1>4. /\ r.st = cont[i].st /\ r.tmp = n /\ r.cargo = cont[i].cargo
      /\ r.init = cont[i].init /\ r.spec = cont[i].spec /\ r \in Containers
  BY <1>1, <1>2 DEF Containers
<1>5. r # None
  BY <1>4 DEF Containers, None
<1>6. PICK d \in DockerEvents(Conts) : /\ d = DockerEvent("rename", i) /\ d.id = i
                                       /\ d.cargo = cont[i].cargo
  BY EventIs
<1>7. PICK e : e = [d EXCEPT !.tmp = n]
  OBVIOUS
<1>8. e \in DockerEvents(Conts) /\ e.id = i /\ e.cargo = cont[i].cargo /\ e.tmp = n
  BY <1>6, <1>7 DEF DockerEvents
<1>9. dq' = Append(dq, e)
  BY <1>6, <1>7 DEF RenameCont
<1>10. Tells(i)
  BY <1>3, <1>4, <1>5, <1>8, <1>9, Unsaid, TellsLast
<1>11. QED
  BY <1>3, <1>4, <1>5, <1>10, RenameDrives DEF Steers, Same

LEMMA RemoveSteers ==
    ASSUME Tables, NEW i \in Conts, Present(i), RemoveCont(i)
    PROVE  Steers(i) /\ cont'[i] = None
<1>1. Drives(i) /\ cont'[i] = None
  BY RemoveDrives
<1>2. PICK e \in DockerEvents(Conts) : /\ e = DockerEvent("destroy", i) /\ e.id = i
                                       /\ e.cargo = cont[i].cargo /\ e.type = "destroy"
  BY EventIs
<1>3. PICK v : v = dq \o DieOf(i)
  OBVIOUS
<1>4. v \in Seq(DockerEvents(Conts)) /\ Extends(v) /\ About(v, i, cont[i].cargo)
  BY <1>3, AfterDie
<1>5. dq' = v \o <<e>>
  BY <1>2, <1>3 DEF RemoveCont
<1>6. dq' = Append(v, e)
  BY <1>4, <1>5
<1>7. Tells(i)
  BY <1>1, <1>2, <1>4, <1>6, TellsLast
<1>8. QED
  BY <1>1, <1>7 DEF Steers

-----------------------------------------------------------------------------
(* What a step does to the containers, their rows and docker's events:     *)
(* nothing; a call about i, with its row when it removes i; the row of a   *)
(* container that is gone; containers of the cargo c with their rows.      *)
Silent == UNCHANGED <<cont, proc, dq, dh>> /\ left'.made = left.made

Struck(i) ==
    /\ i \in Conts /\ Steers(i) /\ UNCHANGED dh /\ left'.made = left.made
    /\ proc' = proc \/ (cont'[i] = None /\ proc' = [proc EXCEPT ![i] = None])

Dropped(i) ==
    /\ i \in Conts /\ UNCHANGED <<cont, dq, dh>> /\ left'.made = left.made
    /\ cont[i] = None /\ proc' = [proc EXCEPT ![i] = None]

Grows(c, init, spec, m) ==
    /\ m \in Nat /\ left'.made = left.made + m
    /\ CreateConts(Fresh(m), c, init, spec) /\ UNCHANGED <<dq, dh>>

RowsStay == \A c \in Cargoes : Exists(c) => Exists(c)'

(* The task t at pc, of its cargo, with its local variables.               *)
Runs(t, acts, pc) ==
    /\ task[t].phase = "body" /\ task[t].ev.action \in acts /\ Obj(t) \in Cargoes
    /\ body[t] # None /\ GoodFrame(body[t], Conts) /\ body[t].pc = pc

LEMMA AtRuns ==
    ASSUME CargoInv, NEW t \in TaskIds, NEW acts, acts \subseteq TM!TaskActions, NEW pc,
           At(t, acts, pc)
    PROVE  /\ Runs(t, acts, pc)
           /\ body[t].todo \subseteq Conts /\ body[t].new \subseteq Conts
           /\ body[t].todo # {} =>
                 Newest(body[t].todo) \in body[t].todo /\ Newest(body[t].todo) \in Conts
<1>1. Runs(t, acts, pc)
  BY Running DEF Runs, At
<1>2. body[t].todo \subseteq Conts /\ body[t].new \subseteq Conts
  BY <1>1 DEF Runs, GoodFrame, Frames
<1>3. QED
  BY <1>1, <1>2, NewestCont DEF CargoInv

LEMMA Acts == Launching \subseteq TM!TaskActions /\
              {"Starting", "Updating", "Stopping", "Destroying"} \subseteq TM!TaskActions
BY DEF Launching, TM!TaskActions

LEMMA SameRows ==
    ASSUME UNCHANGED row
    PROVE  RowsStay
BY DEF RowsStay, Exists

LEMMA WrittenRow ==
    ASSUME CargoInv, NEW c \in Cargoes, Exists(c), NEW st \in Statuses, row' = SetActual(c, st)
    PROVE  RowsStay
<1>1. PICK r \in Rows : row' = [row EXCEPT ![c] = r]
  BY ActualRow
<1>2. r # None
  BY DEF Rows, None
<1>3. QED
  BY <1>1, <1>2 DEF RowsStay, Exists, CargoInv, Tables

LEMMA Unspent ==
    ASSUME CargoInv, NEW ok, CallFails(ok)
    PROVE  left'.made = left.made /\ (ok => left'.fails < left.fails)
BY DEF CargoInv, Bounds, CallFails, MayFail, SpendFail

(* A call the body makes, by what it is.                                   *)
LEMMA Strikes ==
    ASSUME CargoInv, NEW i \in Conts, Steers(i), UNCHANGED <<dh, proc>>, left'.made = left.made
    PROVE  Struck(i)
BY DEF Struck

-----------------------------------------------------------------------------
(* The steps of a start and an update.                                     *)
LEMMA ReadCargoMoves ==
    ASSUME CargoInv, NEW t \in TaskIds, ReadCargo(t)
    PROVE  /\ task[t].phase = "body" /\ task[t].ev.action \in Launching /\ Obj(t) \in Cargoes
           /\ body[t] = None /\ Alone(t) /\ Silent /\ RowsStay /\ UNCHANGED doomed
           /\ \/ Ended(t)
              \/ /\ body'[t] # None /\ Exists(Obj(t))
                 /\ body'[t].pc = "rows" /\ body'[t].todo = {} /\ body'[t].new = {}
                 /\ body'[t].rows = [i \in Conts |-> None]
<1>1. PICK a \in Launching : Reads(t, a)
  BY DEF ReadCargo
<1>2. /\ task[t].phase = "body" /\ Obj(t) \in Cargoes /\ task[t].ev.action = a
      /\ body[t] = None
  BY <1>1, Starts, Acts
<1>3. Silent /\ RowsStay /\ UNCHANGED doomed
  BY SameRows DEF ReadCargo, dbVars, dockerVars, Silent
<1>4. CASE Err(t)
  BY <1>2, <1>3, <1>4, ErrAlone
<1>5. CASE /\ Exists(Obj(t)) /\ UNCHANGED tmVars
           /\ Set(t, Frame(row[Obj(t)].spec, "rows", {}))
  BY <1>2, <1>3, <1>5, SetAlone, FrameIs DEF tmVars
<1>6. QED
  BY <1>4, <1>5 DEF ReadCargo

LEMMA ReadStartMoves ==
    ASSUME CargoInv, NEW t \in TaskIds, ReadStart(t)
    PROVE  /\ Runs(t, {"Starting"}, "rows") /\ Alone(t) /\ Silent /\ RowsStay /\ UNCHANGED doomed
           /\ \E pc \in {"init", "create", "list"} :
                 /\ Turns(t, pc, InitsOf(Obj(t)))
                 /\ body'[t].make = (InstancesOf(Obj(t)) = {})
                 /\ HasInit => pc = "init"
                 /\ pc = "list" => InstancesOf(Obj(t)) # {}
<1>1. At(t, {"Starting"}, "rows")
  BY DEF ReadStart
<1>2. Runs(t, {"Starting"}, "rows")
  BY <1>1, AtRuns, Acts
<1>3. Silent /\ RowsStay /\ UNCHANGED doomed
  BY SameRows DEF ReadStart, dbVars, dockerVars, Silent
<1>4. PICK tmp : tmp = IF InitsOf(Obj(t)) = {} THEN 0 ELSE proc[Newest(InitsOf(Obj(t)))].tmp
  OBVIOUS
<1>5. PICK make : make = (InstancesOf(Obj(t)) = {})
  OBVIOUS
<1>6. PICK pc \in {"init", "create", "list"} :
          /\ pc = IF HasInit THEN "init" ELSE IF InstancesOf(Obj(t)) = {} THEN "create" ELSE "list"
          /\ Set(t, [Goto(t, pc, InitsOf(Obj(t))) EXCEPT !.make = make, !.tmp = tmp])
          /\ UNCHANGED task
  BY <1>4, <1>5 DEF ReadStart, tmVars
<1>7. PICK g : g = Goto(t, pc, InitsOf(Obj(t)))
  OBVIOUS
<1>8. /\ g.pc = pc /\ g.todo = InitsOf(Obj(t)) /\ g.new = body[t].new /\ g.rows = body[t].rows
      /\ g.spec = body[t].spec /\ g.st = "run"
      /\ {"make", "tmp"} \subseteq DOMAIN g
  BY <1>2, <1>7, GotoIs DEF Runs, Goto, GoodFrame, Frames
<1>9. PICK b : b = [g EXCEPT !.make = make, !.tmp = tmp]
  OBVIOUS
<1>10. /\ b.pc = pc /\ b.todo = InitsOf(Obj(t)) /\ b.new = body[t].new /\ b.rows = body[t].rows
       /\ b.spec = body[t].spec /\ b.st = "run" /\ b.make = make
  BY <1>8, <1>9
<1>11. b # None
  BY <1>10 DEF None
<1>12. Set(t, b) /\ Alone(t) /\ body'[t] = b
  BY <1>6, <1>7, <1>9, SetAlone
<1>13. Turns(t, pc, InitsOf(Obj(t))) /\ body'[t].make = make
  BY <1>2, <1>10, <1>11, <1>12 DEF Turns, GoesOn, Runs
<1>14. QED
  BY <1>2, <1>3, <1>5, <1>6, <1>12, <1>13

LEMMA CreateInitMoves ==
    ASSUME CargoInv, NEW t \in TaskIds, CreateInit(t)
    PROVE  /\ Runs(t, Launching, "init") /\ Alone(t) /\ RowsStay /\ UNCHANGED doomed
           /\ \/ /\ body[t].todo = {} /\ Grows(Obj(t), TRUE, body[t].spec, 1)
                 /\ Turns(t, "initrun", Fresh(1))
                 /\ body'[t].make = body[t].make
              \/ Silent /\ Ended(t)
              \/ /\ body[t].todo # {} /\ Silent /\ Turns(t, "initrun", {Newest(body[t].todo)})
                 /\ body'[t].make = body[t].make
<1>1. At(t, Launching, "init")
  BY DEF CreateInit
<1>2. Runs(t, Launching, "init")
  BY <1>1, AtRuns, Acts
<1>3. UNCHANGED <<row, doomed, dh, dq>> /\ RowsStay
  BY SameRows DEF CreateInit
<1>4. GoodFrame(body[t], Conts)
  BY <1>2 DEF Runs
<1>5. CASE /\ body[t].todo = {}
           /\ CreateConts(Fresh(1), Obj(t), TRUE, body[t].spec)
           /\ Set(t, Goto(t, "initrun", Fresh(1)))
           /\ left' = [left EXCEPT !.made = @ + 1]
           /\ UNCHANGED tmVars
  <2>1. left'.made = left.made + 1
    BY <1>5 DEF CargoInv, Bounds
  <2>2. Grows(Obj(t), TRUE, body[t].spec, 1)
    BY <1>3, <1>5, <2>1 DEF Grows
  <2>3. Alone(t) /\ Turns(t, "initrun", Fresh(1)) /\ body'[t].make = body[t].make
    BY <1>4, <1>5, TurnsBy DEF tmVars
  <2>4. QED
    BY <1>2, <1>3, <1>5, <2>2, <2>3
<1>6. CASE MayFail /\ SpendFail /\ Err(t) /\ UNCHANGED <<cont, proc>>
  <2>1. Silent
    BY <1>3, <1>6, SpentFail DEF Silent
  <2>2. QED
    BY <1>2, <1>3, <1>6, <2>1, ErrAlone
<1>7. CASE /\ body[t].todo # {}
           /\ Set(t, Goto(t, "initrun", {Newest(body[t].todo)}))
           /\ UNCHANGED <<tmVars, cont, proc, left>>
  <2>1. Silent
    BY <1>3, <1>7 DEF Silent
  <2>2. PICK todo : todo = {Newest(body[t].todo)}
    OBVIOUS
  <2>3. Alone(t) /\ Turns(t, "initrun", todo) /\ body'[t].make = body[t].make
    BY <1>4, <1>7, <2>2, TurnsBy DEF tmVars
  <2>4. QED
    BY <1>2, <1>3, <1>7, <2>1, <2>2, <2>3
<1>8. QED
  BY <1>5, <1>6, <1>7 DEF CreateInit

LEMMA StartInitMoves ==
    ASSUME CargoInv, NEW t \in TaskIds, StartInit(t)
    PROVE  /\ Runs(t, Launching, "initrun") /\ Alone(t) /\ RowsStay /\ UNCHANGED doomed
           /\ \/ \E i \in body[t].todo :
                 /\ i = Newest(body[t].todo) /\ Struck(i) /\ cont'[i] # None /\ cont'[i].st = "up"
                 /\ Turns(t, "initwait", {i}) /\ body'[t].make = body[t].make
              \/ Silent /\ Ended(t)
<1>1. At(t, Launching, "initrun")
  BY DEF StartInit
<1>2. Runs(t, Launching, "initrun") /\ GoodFrame(body[t], Conts)
  BY <1>1, AtRuns, Acts DEF Runs
<1>3. UNCHANGED <<row, proc, doomed, dh>> /\ RowsStay
  BY SameRows DEF StartInit, dbVars
<1>4. body[t].todo # {}
  BY <1>2 DEF Runs, GoodFrame
<1>5. PICK i \in Conts : i = Newest(body[t].todo) /\ i \in body[t].todo
  BY <1>1, <1>4, AtRuns, Acts
<1>6. CASE /\ Present(i) /\ StartCont(i) /\ Set(t, Goto(t, "initwait", {i}))
           /\ UNCHANGED <<tmVars, left>>
  <2>1. Struck(i) /\ cont'[i] # None /\ cont'[i].st = "up"
    BY <1>3, <1>6, StartSteers, Strikes DEF CargoInv
  <2>2. Alone(t) /\ Turns(t, "initwait", {i}) /\ body'[t].make = body[t].make
    BY <1>2, <1>6, TurnsBy DEF tmVars
  <2>3. QED
    BY <1>2, <1>3, <1>5, <2>1, <2>2
<1>7. ASSUME NEW ok, CallFails(ok), Err(t), UNCHANGED dockerVars
      PROVE  Silent /\ Ended(t) /\ Alone(t)
  BY <1>3, <1>7, Unspent, ErrAlone DEF Silent, dockerVars
<1>8. QED
  BY <1>2, <1>3, <1>5, <1>6, <1>7 DEF StartInit

LEMMA WaitInitMoves ==
    ASSUME CargoInv, NEW t \in TaskIds, WaitInit(t)
    PROVE  /\ Runs(t, Launching, "initwait") /\ Alone(t) /\ Silent /\ RowsStay /\ UNCHANGED doomed
           /\ \/ /\ cont[Newest(body[t].todo)] # None /\ cont[Newest(body[t].todo)].st = "down"
                 /\ \E pc \in {"create", "list"} :
                       Turns(t, pc, {}) /\ (pc = "create" <=> body[t].make = TRUE)
              \/ Ended(t)
<1>1. At(t, Launching, "initwait")
  BY DEF WaitInit
<1>2. Runs(t, Launching, "initwait") /\ GoodFrame(body[t], Conts) /\ body[t].make \in BOOLEAN
  BY <1>1, AtRuns, Acts DEF Runs, GoodFrame, Frames
<1>3. Silent /\ RowsStay /\ UNCHANGED doomed
  BY SameRows DEF WaitInit, dbVars, dockerVars, Silent
<1>4. CASE Err(t)
  BY <1>2, <1>3, <1>4, ErrAlone
<1>5. ASSUME NEW pc \in {"create", "list"}, Set(t, Goto(t, pc, {})), UNCHANGED tmVars
      PROVE  Alone(t) /\ Turns(t, pc, {})
  BY <1>2, <1>5, TurnsBy DEF tmVars
<1>6. QED
  BY <1>2, <1>3, <1>4, <1>5 DEF WaitInit, Present

LEMMA CreateInstancesMoves ==
    ASSUME CargoInv, NEW t \in TaskIds, CreateInstances(t)
    PROVE  /\ Runs(t, Launching, "create") /\ Alone(t) /\ RowsStay /\ UNCHANGED doomed
           /\ \E m \in Nat :
                /\ Grows(Obj(t), FALSE, body[t].spec, m)
                /\ \/ /\ m = Replicas
                      /\ GoesOn(t, "list", {}, Fresh(m), body[t].rows)
                   \/ Ended(t) /\ left'.fails < left.fails
<1>1. At(t, Launching, "create")
  BY DEF CreateInstances
<1>2. Runs(t, Launching, "create") /\ GoodFrame(body[t], Conts)
  BY <1>1, AtRuns, Acts DEF Runs
<1>3. UNCHANGED <<row, doomed, dh, dq>> /\ RowsStay
  BY SameRows DEF CreateInstances
<1>4. Replicas \in Nat
  BY ConstAssumption DEF CargoInv, Bounds, Replicas
<1>5. PICK n \in 0..Replicas :
        /\ CreateConts(Fresh(n), Obj(t), FALSE, body[t].spec)
        /\ \/ /\ n = Replicas
              /\ Set(t, [Goto(t, "list", {}) EXCEPT !.new = Fresh(n)])
              /\ left' = [left EXCEPT !.made = @ + n]
              /\ UNCHANGED tmVars
           \/ /\ n < Replicas /\ MayFail
              /\ left' = [left EXCEPT !.made = @ + n, !.fails = @ - 1]
              /\ Err(t)
  BY DEF CreateInstances
<1>6. n \in Nat
  BY <1>4
<1>7. CASE /\ n = Replicas
           /\ Set(t, [Goto(t, "list", {}) EXCEPT !.new = Fresh(n)])
           /\ left' = [left EXCEPT !.made = @ + n]
           /\ UNCHANGED tmVars
  <2>1. left'.made = left.made + n
    BY <1>7 DEF CargoInv, Bounds
  <2>2. Grows(Obj(t), FALSE, body[t].spec, n)
    BY <1>3, <1>5, <1>6, <2>1 DEF Grows
  <2>3. PICK g : g = Goto(t, "list", {})
    OBVIOUS
  <2>4. PICK b : b = [g EXCEPT !.new = Fresh(n)]
    OBVIOUS
  <2>5. /\ g.pc = "list" /\ g.todo = {} /\ g.rows = body[t].rows /\ g.spec = body[t].spec
        /\ g.st = "run" /\ "new" \in DOMAIN g
    BY <1>2, <2>3, GotoIs DEF Goto, GoodFrame, Frames
  <2>6. /\ b.pc = "list" /\ b.todo = {} /\ b.rows = body[t].rows /\ b.spec = body[t].spec
        /\ b.st = "run" /\ b.new = Fresh(n)
    BY <2>4, <2>5
  <2>7. b # None
    BY <2>6 DEF None
  <2>8. Alone(t) /\ body'[t] = b
    BY <1>7, <2>3, <2>4, SetAlone DEF tmVars
  <2>9. GoesOn(t, "list", {}, Fresh(n), body[t].rows)
    BY <1>2, <2>6, <2>7, <2>8 DEF GoesOn, Runs
  <2>10. QED
    BY <1>2, <1>3, <1>6, <1>7, <2>2, <2>8, <2>9
<1>8. CASE /\ n < Replicas /\ MayFail
           /\ left' = [left EXCEPT !.made = @ + n, !.fails = @ - 1]
           /\ Err(t)
  <2>1. left'.made = left.made + n /\ left'.fails < left.fails
    BY <1>6, <1>8 DEF CargoInv, Bounds, MayFail
  <2>2. Grows(Obj(t), FALSE, body[t].spec, n)
    BY <1>3, <1>5, <1>6, <2>1 DEF Grows
  <2>3. QED
    BY <1>2, <1>3, <1>6, <1>8, <2>1, <2>2, ErrAlone
<1>9. QED
  BY <1>5, <1>7, <1>8

LEMMA ListInstancesMoves ==
    ASSUME CargoInv, NEW t \in TaskIds, ListInstances(t)
    PROVE  /\ Runs(t, Launching, "list") /\ Alone(t) /\ Silent /\ RowsStay /\ UNCHANGED doomed
           /\ Turns(t, "run", InstancesOf(Obj(t)))
<1>1. At(t, Launching, "list")
  BY DEF ListInstances
<1>2. Runs(t, Launching, "list") /\ GoodFrame(body[t], Conts)
  BY <1>1, AtRuns, Acts DEF Runs
<1>3. Silent /\ RowsStay /\ UNCHANGED doomed
  BY SameRows DEF ListInstances, dbVars, dockerVars, Silent
<1>4. PICK todo : todo = InstancesOf(Obj(t))
  OBVIOUS
<1>5. Alone(t) /\ Turns(t, "run", todo)
  BY <1>2, <1>4, TurnsBy DEF ListInstances, tmVars
<1>6. QED
  BY <1>2, <1>3, <1>4, <1>5

LEMMA StartInstanceMoves ==
    ASSUME CargoInv, NEW t \in TaskIds, StartInstance(t)
    PROVE  /\ Runs(t, Launching, "run") /\ Alone(t) /\ RowsStay /\ UNCHANGED doomed
           /\ \E i \in body[t].todo :
                /\ Struck(i) /\ cont'[i] # None /\ cont'[i].st = "up"
                /\ Turns(t, "run", body[t].todo \ {i})
<1>1. At(t, Launching, "run")
  BY DEF StartInstance
<1>2. Runs(t, Launching, "run") /\ GoodFrame(body[t], Conts) /\ body[t].pc = "run"
  BY <1>1, AtRuns, Acts DEF Runs
<1>3. UNCHANGED <<row, proc, doomed, dh>> /\ RowsStay
  BY SameRows DEF StartInstance, dbVars
<1>4. PICK i \in Conts : i = Newest(body[t].todo) /\ i \in body[t].todo
  BY <1>1, AtRuns, Acts DEF StartInstance
<1>5. /\ Present(i) /\ StartCont(i) /\ Set(t, Done(t, i)) /\ UNCHANGED <<tmVars, left>>
  BY <1>4 DEF StartInstance
<1>6. Struck(i) /\ cont'[i] # None /\ cont'[i].st = "up"
  BY <1>3, <1>5, StartSteers, Strikes DEF CargoInv
<1>7. Alone(t) /\ Turns(t, body[t].pc, body[t].todo \ {i})
  BY <1>2, <1>5, TurnsDone DEF tmVars
<1>8. QED
  BY <1>2, <1>3, <1>4, <1>6, <1>7

LEMMA StartFailedMoves ==
    ASSUME CargoInv, NEW t \in TaskIds, GoodFrame(body[t], Conts), StartFailed(t)
    PROVE  Alone(t) /\ (Ended(t) \/ (Turns(t, "undo", body[t].new) /\ task[t].ev.action = "Updating"))
<1>1. CASE Err(t)
  BY <1>1, ErrAlone
<1>2. CASE task[t].ev.action = "Updating" /\ Set(t, Goto(t, "undo", body[t].new)) /\ UNCHANGED tmVars
  <2>1. PICK todo : todo = body[t].new
    OBVIOUS
  <2>2. Alone(t) /\ Turns(t, "undo", todo)
    BY <1>2, <2>1, TurnsBy DEF tmVars
  <2>3. QED
    BY <1>2, <2>1, <2>2
<1>3. QED
  BY <1>1, <1>2 DEF StartFailed

LEMMA StartInstanceErrMoves ==
    ASSUME CargoInv, NEW t \in TaskIds, StartInstanceErr(t)
    PROVE  /\ Runs(t, Launching, "run") /\ Alone(t) /\ Silent /\ RowsStay /\ UNCHANGED doomed
           /\ Ended(t) \/ (Turns(t, "undo", body[t].new) /\ task[t].ev.action = "Updating")
<1>1. At(t, Launching, "run")
  BY DEF StartInstanceErr
<1>2. Runs(t, Launching, "run") /\ GoodFrame(body[t], Conts)
  BY <1>1, AtRuns, Acts DEF Runs
<1>3. left'.made = left.made
  BY Unspent DEF StartInstanceErr
<1>4. Silent /\ RowsStay /\ UNCHANGED doomed
  BY <1>3, SameRows DEF StartInstanceErr, dbVars, dockerVars, Silent
<1>5. QED
  BY <1>2, <1>4, StartFailedMoves DEF StartInstanceErr

LEMMA StartedMoves ==
    ASSUME CargoInv, NEW t \in TaskIds, Started(t)
    PROVE  /\ Runs(t, Launching, "run") /\ Alone(t) /\ Silent /\ RowsStay
           /\ body[t].todo = {}
           /\ \/ UNCHANGED doomed /\ Ended(t)
              \/ UNCHANGED doomed /\ Turns(t, "undo", body[t].new) /\ task[t].ev.action = "Updating"
              \/ UNCHANGED doomed /\ Turns(t, "end", {})
              \/ /\ Turns(t, "final", {}) /\ task[t].ev.action = "Updating"
                 /\ doomed' = doomed \cup {i \in Conts : body[t].rows[i] # None}
<1>1. At(t, Launching, "run")
  BY DEF Started
<1>2. Runs(t, Launching, "run") /\ GoodFrame(body[t], Conts) /\ body[t].todo = {}
  BY <1>1, AtRuns, Acts DEF Runs, Started
<1>3. Silent
  BY DEF Started, dockerVars, Silent
<1>4. CASE StartFailed(t) /\ UNCHANGED <<row, doomed>>
  BY <1>2, <1>3, <1>4, StartFailedMoves, SameRows
<1>5. CASE /\ Exists(Obj(t)) /\ row' = SetActual(Obj(t), "Start") /\ TM!Emit(Ev(Obj(t), "Other"))
           /\ Set(t, Goto(t, "end", {})) /\ UNCHANGED doomed
  <2>1. RowsStay
    BY <1>2, <1>5, WrittenRow DEF Runs, Statuses
  <2>2. Alone(t) /\ Turns(t, "end", {})
    BY <1>2, <1>5, TurnsBy DEF TM!Emit
  <2>3. QED
    BY <1>2, <1>3, <1>5, <2>1, <2>2
<1>6. CASE /\ Exists(Obj(t)) /\ row' = SetActual(Obj(t), "Start") /\ TM!Emit(Ev(Obj(t), "Other"))
           /\ task[t].ev.action = "Updating"
           /\ Set(t, Goto(t, "final", {}))
           /\ doomed' = doomed \cup {i \in Conts : body[t].rows[i] # None}
  <2>1. RowsStay
    BY <1>2, <1>6, WrittenRow DEF Runs, Statuses
  <2>2. Alone(t) /\ Turns(t, "final", {})
    BY <1>2, <1>6, TurnsBy DEF TM!Emit
  <2>3. QED
    BY <1>2, <1>3, <1>6, <2>1, <2>2
<1>7. QED
  BY <1>4, <1>5, <1>6 DEF Started

-----------------------------------------------------------------------------
(* The steps of an update alone.                                           *)
LEMMA ReadUpdateMoves ==
    ASSUME CargoInv, NEW t \in TaskIds, ReadUpdate(t)
    PROVE  /\ Runs(t, {"Updating"}, "rows") /\ Alone(t) /\ Silent /\ RowsStay /\ UNCHANGED doomed
           /\ GoesOn(t, "rename", ProcsOf(Obj(t)), body[t].new,
                     [i \in Conts |-> IF i \in ProcsOf(Obj(t)) THEN proc[i] ELSE None])
<1>1. At(t, {"Updating"}, "rows")
  BY DEF ReadUpdate
<1>2. Runs(t, {"Updating"}, "rows") /\ GoodFrame(body[t], Conts)
  BY <1>1, AtRuns, Acts DEF Runs
<1>3. Silent /\ RowsStay /\ UNCHANGED doomed
  BY SameRows DEF ReadUpdate, dbVars, dockerVars, Silent
<1>4. PICK ps : ps = ProcsOf(Obj(t))
  OBVIOUS
<1>5. PICK rows : rows = [i \in Conts |-> IF i \in ps THEN proc[i] ELSE None]
  OBVIOUS
<1>6. PICK g : g = Goto(t, "rename", ps)
  OBVIOUS
<1>7. PICK b : b = [g EXCEPT !.rows = rows]
  OBVIOUS
<1>8. /\ g.pc = "rename" /\ g.todo = ps /\ g.new = body[t].new /\ g.spec = body[t].spec
      /\ g.st = "run" /\ "rows" \in DOMAIN g
  BY <1>2, <1>6, GotoIs DEF Goto, GoodFrame, Frames
<1>9. /\ b.pc = "rename" /\ b.todo = ps /\ b.new = body[t].new /\ b.spec = body[t].spec
      /\ b.st = "run" /\ b.rows = rows
  BY <1>7, <1>8
<1>10. b # None
  BY <1>9 DEF None
<1>11. Set(t, b) /\ UNCHANGED task
  BY <1>4, <1>5, <1>6, <1>7 DEF ReadUpdate, tmVars
<1>12. Alone(t) /\ body'[t] = b
  BY <1>11, SetAlone
<1>13. GoesOn(t, "rename", ps, body[t].new, rows)
  BY <1>2, <1>9, <1>10, <1>12 DEF GoesOn, Runs
<1>14. QED
  BY <1>2, <1>3, <1>4, <1>5, <1>12, <1>13

(* A call of the batch that failed: it goes on with the next one.          *)
LEMMA StruckOff ==
    ASSUME CargoInv, NEW t \in TaskIds, GoodFrame(body[t], Conts), UNCHANGED task, NEW i,
           Set(t, [Done(t, i) EXCEPT !.err = TRUE])
    PROVE  Alone(t) /\ Turns(t, body[t].pc, body[t].todo \ {i})
<1>1. PICK pc, todo : pc = body[t].pc /\ todo = body[t].todo \ {i}
  OBVIOUS
<1>2. PICK g : g = Goto(t, pc, todo)
  OBVIOUS
<1>3. g = Done(t, i)
  BY <1>1, <1>2, DoneIs
<1>4. PICK b : b = [g EXCEPT !.err = TRUE]
  OBVIOUS
<1>5. /\ g.pc = pc /\ g.todo = todo /\ g.new = body[t].new /\ g.spec = body[t].spec
      /\ g.rows = body[t].rows /\ g.st = "run" /\ "err" \in DOMAIN g /\ body[t] # None
  BY <1>2, GotoIs DEF Goto, GoodFrame, Frames
<1>6. /\ b.pc = pc /\ b.todo = todo /\ b.new = body[t].new /\ b.spec = body[t].spec
      /\ b.rows = body[t].rows /\ b.st = "run"
  BY <1>4, <1>5
<1>7. b # None
  BY <1>6 DEF None
<1>8. Alone(t) /\ body'[t] = b
  BY <1>3, <1>4, SetAlone
<1>9. QED
  BY <1>1, <1>5, <1>6, <1>7, <1>8 DEF Turns, GoesOn

LEMMA StopOldMoves ==
    ASSUME CargoInv, NEW t \in TaskIds, StopOld(t)
    PROVE  /\ Runs(t, {"Updating"}, "rename") /\ Alone(t) /\ RowsStay /\ UNCHANGED doomed
           /\ \E i \in body[t].todo :
                /\ body[t].rows[i].st = "crashed"
                /\ \/ /\ Struck(i) /\ cont'[i] # None /\ cont'[i].st \notin {"up", "crashed"}
                      /\ \E rows : /\ GoesOn(t, "rename", body[t].todo, body[t].new, rows)
                                   /\ \A j \in Conts : /\ rows[j] = None <=> body[t].rows[j] = None
                                                       /\ rows[j].st = "crashed" =>
                                                             body[t].rows[j].st = "crashed"
                   \/ Silent /\ Turns(t, "rename", body[t].todo \ {i})
<1>1. At(t, {"Updating"}, "rename")
  BY DEF StopOld
<1>2. Runs(t, {"Updating"}, "rename") /\ GoodFrame(body[t], Conts) /\ body[t].pc = "rename"
  BY <1>1, AtRuns, Acts DEF Runs
<1>3. UNCHANGED <<row, proc, doomed, dh, task>> /\ RowsStay
  BY SameRows DEF StopOld, dbVars, tmVars
<1>4. PICK i \in Conts : i = Newest(body[t].todo) /\ i \in body[t].todo
  BY <1>1, AtRuns, Acts DEF StopOld
<1>5. body[t].rows[i].st = "crashed"
  BY <1>4 DEF StopOld
<1>6. CASE /\ Present(i) /\ StopCont(i) /\ Set(t, [body[t] EXCEPT !.rows[i].st = "down"])
           /\ UNCHANGED left
  <2>1. Struck(i) /\ cont'[i] # None /\ cont'[i].st \notin {"up", "crashed"}
    BY <1>3, <1>6, StopSteers, Strikes DEF CargoInv
  <2>2. PICK b : b = [body[t] EXCEPT !.rows[i].st = "down"]
    OBVIOUS
  <2>3. Alone(t) /\ body'[t] = b
    BY <1>3, <1>6, <2>2, SetAlone
  <2>4. body[t] \in Frames(Conts) /\ body[t].rows[i] # None
    BY <1>2, <1>4 DEF GoodFrame
  <2>5. PICK p : p = [body[t].rows[i] EXCEPT !.st = "down"]
    OBVIOUS
  <2>6. body[t].rows \in [Conts -> {None} \cup Procs]
    BY <2>4 DEF Frames
  <2>7. p # None /\ p.st = "down"
    <3>1. body[t].rows[i] \in Procs
      BY <2>4, <2>6
    <3>2. p \in [st : {"down"}, cargo : Cargoes, init : BOOLEAN, tmp : Nat]
      BY <2>5, <3>1 DEF Procs
    <3>3. QED
      BY <3>2 DEF None
  <2>8. PICK rows : rows = [body[t].rows EXCEPT ![i] = p]
    OBVIOUS
  <2>9. /\ b.pc = "rename" /\ b.todo = body[t].todo /\ b.new = body[t].new
        /\ b.spec = body[t].spec /\ b.st = "run" /\ b.rows = rows
    BY <1>2, <2>2, <2>4, <2>5, <2>8 DEF Frames
  <2>10. b # None
    BY <2>9 DEF None
  <2>11. GoesOn(t, "rename", body[t].todo, body[t].new, rows)
    BY <1>2, <2>3, <2>9, <2>10 DEF GoesOn, Runs
  <2>12. \A j \in Conts : /\ rows[j] = None <=> body[t].rows[j] = None
                          /\ rows[j].st = "crashed" => body[t].rows[j].st = "crashed"
    BY <2>4, <2>6, <2>7, <2>8
  <2>13. QED
    BY <1>2, <1>3, <1>4, <1>5, <2>1, <2>3, <2>11, <2>12
<1>7. ASSUME NEW ok, CallFails(ok), Set(t, [Done(t, i) EXCEPT !.err = TRUE]), UNCHANGED dockerVars
      PROVE  Silent /\ Alone(t) /\ Turns(t, "rename", body[t].todo \ {i})
  BY <1>2, <1>3, <1>7, Unspent, StruckOff DEF Silent, dockerVars
<1>8. QED
  BY <1>2, <1>3, <1>4, <1>5, <1>6, <1>7 DEF StopOld

LEMMA RowTmp ==
    ASSUME CargoInv, NEW t \in TaskIds, GoodFrame(body[t], Conts), NEW i \in Conts,
           body[t].rows[i] # None
    PROVE  body[t].rows[i].tmp \in Nat
<1>1. body[t].rows \in [Conts -> {None} \cup Procs]
  BY DEF GoodFrame, Frames
<1>2. QED
  BY <1>1 DEF Procs

LEMMA RenameOldMoves ==
    ASSUME CargoInv, NEW t \in TaskIds, RenameOld(t)
    PROVE  /\ Runs(t, {"Updating"}, "rename") /\ Alone(t) /\ RowsStay /\ UNCHANGED doomed
           /\ \E i \in body[t].todo :
                /\ \/ Struck(i) /\ cont'[i] # None /\ cont'[i].st = cont[i].st
                   \/ Silent
                /\ Turns(t, "rename", body[t].todo \ {i})
<1>1. At(t, {"Updating"}, "rename")
  BY DEF RenameOld
<1>2. Runs(t, {"Updating"}, "rename") /\ GoodFrame(body[t], Conts) /\ body[t].pc = "rename"
  BY <1>1, AtRuns, Acts DEF Runs
<1>3. UNCHANGED <<row, proc, doomed, dh, task>> /\ RowsStay
  BY SameRows DEF RenameOld, dbVars, tmVars
<1>4. PICK i \in Conts : i = Newest(body[t].todo) /\ i \in body[t].todo
  BY <1>1, AtRuns, Acts DEF RenameOld
<1>5. PICK n : n = body[t].rows[i].tmp + 1
  OBVIOUS
<1>6. n \in Nat
  BY <1>2, <1>4, <1>5, RowTmp DEF GoodFrame
<1>7. CASE CanRename(i, n) /\ RenameCont(i, n) /\ Set(t, Done(t, i)) /\ UNCHANGED left
  <2>1. Struck(i) /\ cont'[i] # None /\ cont'[i].st = cont[i].st
    BY <1>3, <1>6, <1>7, RenameSteers, Strikes DEF CargoInv, CanRename
  <2>2. Alone(t) /\ Turns(t, "rename", body[t].todo \ {i})
    BY <1>2, <1>3, <1>7, TurnsDone
  <2>3. QED
    BY <1>2, <1>3, <1>4, <2>1, <2>2
<1>8. CASE /\ CallFails(CanRename(i, n)) /\ Set(t, [Done(t, i) EXCEPT !.err = TRUE])
           /\ UNCHANGED dockerVars
  <2>1. Silent
    BY <1>3, <1>8, Unspent DEF Silent, dockerVars
  <2>2. Alone(t) /\ Turns(t, "rename", body[t].todo \ {i})
    BY <1>2, <1>3, <1>8, StruckOff
  <2>3. QED
    BY <1>2, <1>3, <1>4, <2>1, <2>2
<1>9. QED
  BY <1>4, <1>5, <1>7, <1>8 DEF RenameOld

LEMMA RenamedAllMoves ==
    ASSUME CargoInv, NEW t \in TaskIds, RenamedAll(t)
    PROVE  /\ Runs(t, {"Updating"}, "rename") /\ Alone(t) /\ Silent /\ RowsStay /\ UNCHANGED doomed
           /\ Ended(t) \/ \E pc \in {"init", "create"} : Turns(t, pc, {}) /\ (HasInit => pc = "init")
<1>1. At(t, {"Updating"}, "rename")
  BY DEF RenamedAll
<1>2. Runs(t, {"Updating"}, "rename") /\ GoodFrame(body[t], Conts)
  BY <1>1, AtRuns, Acts DEF Runs
<1>3. Silent /\ RowsStay /\ UNCHANGED doomed
  BY SameRows DEF RenamedAll, dbVars, dockerVars, Silent
<1>4. ASSUME NEW pc \in {"init", "create"}, Set(t, Goto(t, pc, {})), UNCHANGED tmVars
      PROVE  Alone(t) /\ Turns(t, pc, {})
  BY <1>2, <1>4, TurnsBy DEF tmVars
<1>5. CASE Err(t)
  BY <1>2, <1>3, <1>5, ErrAlone
<1>6. QED
  BY <1>2, <1>3, <1>4, <1>5 DEF RenamedAll

LEMMA UndoCreateMoves ==
    ASSUME CargoInv, NEW t \in TaskIds, UndoCreate(t)
    PROVE  /\ Runs(t, {"Updating"}, "undo") /\ Alone(t) /\ RowsStay /\ UNCHANGED doomed
           /\ \/ Silent /\ Turns(t, "back", {i \in Conts : body[t].rows[i] # None})
              \/ \E i \in body[t].todo :
                   /\ \/ Struck(i) /\ cont'[i] = None
                      \/ Dropped(i) \/ Silent
                   /\ Turns(t, "undo", body[t].todo \ {i})
<1>1. At(t, {"Updating"}, "undo")
  BY DEF UndoCreate
<1>2. Runs(t, {"Updating"}, "undo") /\ GoodFrame(body[t], Conts) /\ body[t].pc = "undo"
  BY <1>1, AtRuns, Acts DEF Runs
<1>3. UNCHANGED <<row, doomed, dh, task>> /\ RowsStay
  BY SameRows DEF UndoCreate, tmVars
<1>4. CASE /\ Set(t, Goto(t, "back", {i \in Conts : body[t].rows[i] # None}))
           /\ UNCHANGED <<dockerVars, proc, left>>
  <2>1. Silent
    BY <1>3, <1>4 DEF Silent, dockerVars
  <2>2. PICK todo : todo = {i \in Conts : body[t].rows[i] # None}
    OBVIOUS
  <2>3. Alone(t) /\ Turns(t, "back", todo)
    BY <1>2, <1>3, <1>4, <2>2, TurnsBy
  <2>4. QED
    BY <1>2, <1>3, <2>1, <2>2, <2>3
<1>5. CASE /\ body[t].todo # {}
           /\ LET i == Newest(body[t].todo) IN
              /\ \/ /\ IF Present(i) THEN RemoveCont(i) ELSE UNCHANGED dockerVars
                    /\ proc' = [proc EXCEPT ![i] = None]
                    /\ UNCHANGED left
                 \/ /\ MayFail /\ SpendFail
                    /\ UNCHANGED <<dockerVars, proc>>
              /\ Set(t, Done(t, i))
  <2>1. PICK i \in Conts : i = Newest(body[t].todo) /\ i \in body[t].todo
    BY <1>1, <1>5, AtRuns, Acts
  <2>2. Alone(t) /\ Turns(t, "undo", body[t].todo \ {i})
    BY <1>2, <1>3, <1>5, <2>1, TurnsDone
  <2>3. CASE Present(i) /\ RemoveCont(i) /\ proc' = [proc EXCEPT ![i] = None] /\ UNCHANGED left
    <3>1. Struck(i) /\ cont'[i] = None
      BY <1>3, <2>3, RemoveSteers DEF CargoInv, Struck
    <3>2. QED
      BY <1>2, <1>3, <2>1, <2>2, <3>1
  <2>4. CASE ~Present(i) /\ UNCHANGED dockerVars /\ proc' = [proc EXCEPT ![i] = None] /\ UNCHANGED left
    <3>1. Dropped(i)
      BY <1>3, <2>4 DEF Dropped, dockerVars, Present
    <3>2. QED
      BY <1>2, <1>3, <2>1, <2>2, <3>1
  <2>5. CASE MayFail /\ SpendFail /\ UNCHANGED <<dockerVars, proc>>
    <3>1. Silent
      BY <1>3, <2>5, SpentFail DEF Silent, dockerVars
    <3>2. QED
      BY <1>2, <1>3, <2>1, <2>2, <3>1
  <2>6. QED
    BY <1>5, <2>1, <2>3, <2>4, <2>5
<1>6. QED
  BY <1>4, <1>5 DEF UndoCreate

LEMMA UndoRenameMoves ==
    ASSUME CargoInv, NEW t \in TaskIds, UndoRename(t)
    PROVE  /\ Runs(t, {"Updating"}, "back") /\ Alone(t) /\ RowsStay /\ UNCHANGED doomed
           /\ \/ Silent /\ Turns(t, "final", {})
              \/ \E i \in body[t].todo :
                   /\ \/ Struck(i) /\ cont'[i] # None /\ cont'[i].st = cont[i].st
                      \/ Silent
                   /\ Turns(t, "back", body[t].todo \ {i})
<1>1. At(t, {"Updating"}, "back")
  BY DEF UndoRename
<1>2. Runs(t, {"Updating"}, "back") /\ GoodFrame(body[t], Conts) /\ body[t].pc = "back"
  BY <1>1, AtRuns, Acts DEF Runs
<1>3. UNCHANGED <<row, proc, doomed, dh, task>> /\ RowsStay
  BY SameRows DEF UndoRename, tmVars, dbVars
<1>4. CASE Set(t, Goto(t, "final", {})) /\ UNCHANGED <<dockerVars, left>>
  <2>1. Silent
    BY <1>3, <1>4 DEF Silent, dockerVars
  <2>2. Alone(t) /\ Turns(t, "final", {})
    BY <1>2, <1>3, <1>4, TurnsBy
  <2>3. QED
    BY <1>2, <1>3, <2>1, <2>2
<1>5. CASE /\ body[t].todo # {}
           /\ LET i == Newest(body[t].todo)
                  n == body[t].rows[i].tmp
              IN  /\ \/ CanRename(i, n) /\ RenameCont(i, n) /\ UNCHANGED left
                     \/ CallFails(CanRename(i, n)) /\ UNCHANGED dockerVars
                  /\ Set(t, Done(t, i))
  <2>1. PICK i \in Conts : i = Newest(body[t].todo) /\ i \in body[t].todo
    BY <1>1, <1>5, AtRuns, Acts
  <2>2. Alone(t) /\ Turns(t, "back", body[t].todo \ {i})
    BY <1>2, <1>3, <1>5, <2>1, TurnsDone
  <2>3. PICK n : n = body[t].rows[i].tmp
    OBVIOUS
  <2>4. n \in Nat
    BY <1>2, <2>1, <2>3, RowTmp DEF GoodFrame
  <2>5. CASE CanRename(i, n) /\ RenameCont(i, n) /\ UNCHANGED left
    <3>1. Struck(i) /\ cont'[i] # None /\ cont'[i].st = cont[i].st
      BY <1>3, <2>4, <2>5, RenameSteers, Strikes DEF CargoInv, CanRename
    <3>2. QED
      BY <1>2, <1>3, <2>1, <2>2, <3>1
  <2>6. CASE CallFails(CanRename(i, n)) /\ UNCHANGED dockerVars
    <3>1. Silent
      BY <1>3, <2>6, Unspent DEF Silent, dockerVars
    <3>2. QED
      BY <1>2, <1>3, <2>1, <2>2, <3>1
  <2>7. QED
    BY <1>5, <2>1, <2>3, <2>5, <2>6
<1>6. QED
  BY <1>4, <1>5 DEF UndoRename

(* A last status write, of an update or a stop.                            *)
LEMMA LastMoves ==
    ASSUME CargoInv, NEW t \in TaskIds, Updated(t) \/ Stopped(t)
    PROVE  /\ Runs(t, {"Updating"}, "final") \/ Runs(t, {"Stopping"}, "run")
           /\ Alone(t) /\ Silent /\ RowsStay /\ UNCHANGED doomed
           /\ Ended(t) \/ Turns(t, "end", {})
<1>1. At(t, {"Updating"}, "final") \/ At(t, {"Stopping"}, "run")
  BY DEF Updated, Stopped
<1>2. /\ Runs(t, {"Updating"}, "final") \/ Runs(t, {"Stopping"}, "run")
      /\ GoodFrame(body[t], Conts) /\ Obj(t) \in Cargoes
  BY <1>1, AtRuns, Acts DEF Runs
<1>3. Silent /\ UNCHANGED doomed
  BY DEF Updated, Stopped, dockerVars, Silent
<1>4. CASE Err(t) /\ UNCHANGED row
  BY <1>2, <1>3, <1>4, ErrAlone, SameRows
<1>5. ASSUME NEW st \in {"Start", "Stop"}, Exists(Obj(t)), row' = SetActual(Obj(t), st),
             UNCHANGED task, Set(t, Goto(t, "end", {}))
      PROVE  RowsStay /\ Alone(t) /\ Turns(t, "end", {})
  BY <1>2, <1>5, WrittenRow, TurnsBy DEF Statuses
<1>6. QED
  BY <1>2, <1>3, <1>4, <1>5 DEF Updated, Stopped, TM!Emit

-----------------------------------------------------------------------------
(* The steps of a stop and a delete.                                       *)
LEMMA ReadProcsMoves ==
    ASSUME CargoInv, NEW t \in TaskIds, ReadStop(t) \/ ReadDelete(t)
    PROVE  /\ task[t].phase = "body" /\ Obj(t) \in Cargoes
           /\ body[t] = None /\ Alone(t) /\ Silent /\ RowsStay /\ UNCHANGED doomed
           /\ body'[t] # None /\ body'[t].todo = ProcsOf(Obj(t)) /\ body'[t].new = {}
           /\ body'[t].rows = [i \in Conts |-> None]
           /\ \/ task[t].ev.action = "Stopping" /\ body'[t].pc = "run"
              \/ task[t].ev.action = "Destroying" /\ body'[t].pc = "stop"
<1>1. PICK a \in {"Stopping", "Destroying"} : Reads(t, a)
  BY DEF ReadStop, ReadDelete
<1>2. task[t].phase = "body" /\ task[t].ev.action = a /\ Obj(t) \in Cargoes /\ body[t] = None
  BY <1>1, Starts, Acts
<1>3. Silent /\ RowsStay /\ UNCHANGED <<doomed, task>>
  BY SameRows DEF ReadStop, ReadDelete, dbVars, dockerVars, Silent, tmVars
<1>4. PICK todo : todo = ProcsOf(Obj(t))
  OBVIOUS
<1>5. \/ a = "Stopping" /\ Set(t, Frame(0, "run", todo))
      \/ a = "Destroying" /\ Set(t, Frame(0, "stop", todo))
  BY <1>1, <1>4 DEF ReadStop, ReadDelete, Reads
<1>6. ASSUME NEW pc, Set(t, Frame(0, pc, todo))
      PROVE  /\ Alone(t) /\ body'[t] # None /\ body'[t].todo = todo /\ body'[t].new = {}
             /\ body'[t].rows = [i \in Conts |-> None] /\ body'[t].pc = pc
  <2>1. PICK b : b = Frame(0, pc, todo)
    OBVIOUS
  <2>2. /\ b # None /\ b.todo = todo /\ b.new = {}
        /\ b.rows = [i \in Conts |-> None] /\ b.pc = pc
    BY <2>1, FrameIs
  <2>3. Alone(t) /\ body'[t] = b
    BY <1>3, <1>6, <2>1, SetAlone
  <2>4. QED
    BY <2>2, <2>3
<1>7. QED
  BY <1>2, <1>3, <1>4, <1>5, <1>6

LEMMA StopInstanceMoves ==
    ASSUME CargoInv, NEW t \in TaskIds, StopInstance(t)
    PROVE  /\ Runs(t, {"Stopping"}, "run") /\ Alone(t) /\ RowsStay /\ UNCHANGED doomed
           /\ \E i \in body[t].todo :
                \/ /\ Struck(i) /\ cont'[i] # None /\ cont'[i].st \notin {"up", "crashed"}
                   /\ Turns(t, "run", body[t].todo \ {i})
                \/ Silent /\ Ended(t)
<1>1. At(t, {"Stopping"}, "run")
  BY DEF StopInstance
<1>2. Runs(t, {"Stopping"}, "run") /\ GoodFrame(body[t], Conts) /\ body[t].pc = "run"
  BY <1>1, AtRuns, Acts DEF Runs
<1>3. UNCHANGED <<row, proc, doomed, dh>> /\ RowsStay
  BY SameRows DEF StopInstance, dbVars
<1>4. PICK i \in Conts : i = Newest(body[t].todo) /\ i \in body[t].todo
  BY <1>1, AtRuns, Acts DEF StopInstance
<1>5. CASE Present(i) /\ StopCont(i) /\ Set(t, Done(t, i)) /\ UNCHANGED <<tmVars, left>>
  <2>1. Struck(i) /\ cont'[i] # None /\ cont'[i].st \notin {"up", "crashed"}
    BY <1>3, <1>5, StopSteers, Strikes DEF CargoInv
  <2>2. Alone(t) /\ Turns(t, "run", body[t].todo \ {i})
    BY <1>2, <1>5, TurnsDone DEF tmVars
  <2>3. QED
    BY <1>2, <1>3, <1>4, <2>1, <2>2
<1>6. CASE CallFails(Present(i)) /\ Err(t) /\ UNCHANGED dockerVars
  <2>1. Silent
    BY <1>3, <1>6, Unspent DEF Silent, dockerVars
  <2>2. QED
    BY <1>2, <1>3, <1>4, <1>6, <2>1, ErrAlone
<1>7. QED
  BY <1>4, <1>5, <1>6 DEF StopInstance

LEMMA DeleteStopMoves ==
    ASSUME CargoInv, NEW t \in TaskIds, DeleteStop(t)
    PROVE  /\ Runs(t, {"Destroying"}, "stop") /\ Alone(t) /\ RowsStay /\ UNCHANGED doomed
           /\ Turns(t, "remove", body[t].todo)
           /\ \E i \in body[t].todo :
                /\ i = Newest(body[t].todo)
                /\ \/ Struck(i) /\ cont'[i] # None /\ cont'[i].st \notin {"up", "crashed"}
                   \/ Silent /\ (cont[i] = None \/ left'.fails < left.fails)
<1>1. At(t, {"Destroying"}, "stop")
  BY DEF DeleteStop
<1>2. Runs(t, {"Destroying"}, "stop") /\ GoodFrame(body[t], Conts)
  BY <1>1, AtRuns, Acts DEF Runs
<1>3. UNCHANGED <<row, proc, doomed, dh, task>> /\ RowsStay
  BY SameRows DEF DeleteStop, dbVars, tmVars
<1>4. PICK i \in Conts : i = Newest(body[t].todo) /\ i \in body[t].todo
  BY <1>1, AtRuns, Acts DEF DeleteStop
<1>5. PICK todo : todo = body[t].todo
  OBVIOUS
<1>6. Alone(t) /\ Turns(t, "remove", todo)
  BY <1>2, <1>3, <1>5, TurnsBy DEF DeleteStop
<1>7. CASE Present(i) /\ StopCont(i) /\ UNCHANGED left
  <2>1. Struck(i) /\ cont'[i] # None /\ cont'[i].st \notin {"up", "crashed"}
    BY <1>3, <1>7, StopSteers, Strikes DEF CargoInv
  <2>2. QED
    BY <1>2, <1>3, <1>4, <1>5, <1>6, <2>1
<1>8. CASE CallFails(Present(i)) /\ UNCHANGED dockerVars
  <2>1. Silent /\ (cont[i] = None \/ left'.fails < left.fails)
    BY <1>3, <1>8, Unspent DEF Silent, dockerVars, Present
  <2>2. QED
    BY <1>2, <1>3, <1>4, <1>5, <1>6, <2>1
<1>9. QED
  BY <1>4, <1>7, <1>8 DEF DeleteStop

LEMMA DeleteRemoveMoves ==
    ASSUME CargoInv, NEW t \in TaskIds, DeleteRemove(t)
    PROVE  /\ Runs(t, {"Destroying"}, "remove") /\ Alone(t) /\ RowsStay /\ UNCHANGED doomed
           /\ \E i \in body[t].todo :
                /\ i = Newest(body[t].todo)
                /\ Turns(t, "stop", body[t].todo \ {i})
                /\ \/ Struck(i) /\ cont'[i] = None /\ cont[i].st \notin {"up", "crashed"}
                   \/ /\ Silent
                      /\ \/ cont[i] = None \/ cont[i].st \in {"up", "crashed"}
                         \/ left'.fails < left.fails
<1>1. At(t, {"Destroying"}, "remove")
  BY DEF DeleteRemove
<1>2. Runs(t, {"Destroying"}, "remove") /\ GoodFrame(body[t], Conts) /\ body[t].pc = "remove"
  BY <1>1, AtRuns, Acts DEF Runs
<1>3. UNCHANGED <<row, proc, doomed, dh, task>> /\ RowsStay
  BY SameRows DEF DeleteRemove, dbVars, tmVars
<1>4. body[t].todo # {}
  BY <1>2 DEF GoodFrame
<1>5. PICK i \in Conts : i = Newest(body[t].todo) /\ i \in body[t].todo
  BY <1>1, <1>4, AtRuns, Acts
<1>6. PICK todo : todo = body[t].todo \ {i}
  OBVIOUS
<1>7. Alone(t) /\ Turns(t, "stop", todo)
  BY <1>2, <1>3, <1>5, <1>6, TurnsBy DEF DeleteRemove
<1>8. PICK removable : removable = (Present(i) /\ cont[i].st \notin {"up", "crashed"})
  OBVIOUS
<1>9. CASE removable /\ RemoveCont(i) /\ UNCHANGED left
  <2>1. Struck(i) /\ cont'[i] = None
    BY <1>3, <1>8, <1>9, RemoveSteers, Strikes DEF CargoInv
  <2>2. QED
    BY <1>2, <1>3, <1>5, <1>6, <1>7, <1>8, <1>9, <2>1
<1>10. CASE CallFails(removable) /\ UNCHANGED dockerVars
  <2>1. Silent /\ (~removable \/ left'.fails < left.fails)
    BY <1>3, <1>10, Unspent DEF Silent, dockerVars
  <2>2. QED
    BY <1>2, <1>3, <1>5, <1>6, <1>7, <1>8, <2>1 DEF Present
<1>11. QED
  BY <1>5, <1>8, <1>9, <1>10 DEF DeleteRemove

LEMMA ClearMoves ==
    ASSUME CargoInv, NEW t \in TaskIds, Clear(t)
    PROVE  /\ Runs(t, {"Destroying"}, "stop") /\ Alone(t) /\ Silent /\ UNCHANGED doomed
           /\ body[t].todo = {}
           /\ Ended(t) \/ Turns(t, "end", {})
           /\ \A c \in Cargoes : c # Obj(t) /\ Exists(c) => Exists(c)'
<1>1. At(t, {"Destroying"}, "stop")
  BY DEF Clear
<1>2. Runs(t, {"Destroying"}, "stop") /\ GoodFrame(body[t], Conts) /\ Obj(t) \in Cargoes
  BY <1>1, AtRuns, Acts DEF Runs
<1>3. Silent /\ UNCHANGED doomed /\ body[t].todo = {}
  BY DEF Clear, Silent, dockerVars
<1>4. CASE Err(t) /\ UNCHANGED row
  BY <1>2, <1>3, <1>4, ErrAlone DEF Exists
<1>5. CASE row' = [row EXCEPT ![Obj(t)] = None] /\ UNCHANGED task /\ Set(t, Goto(t, "end", {}))
  <2>1. \A c \in Cargoes : c # Obj(t) /\ Exists(c) => Exists(c)'
    BY <1>2, <1>5 DEF Exists, CargoInv, Tables
  <2>2. Alone(t) /\ Turns(t, "end", {})
    BY <1>2, <1>5, TurnsBy
  <2>3. QED
    BY <1>2, <1>3, <2>1, <2>2
<1>6. QED
  BY <1>4, <1>5 DEF Clear, TM!Emit

(* The end of a body, and the on_error callback.                           *)
LEMMA EndMoves ==
    ASSUME CargoInv, NEW t \in TaskIds, End(t) \/ OnError(t)
    PROVE  Alone(t) /\ Silent /\ RowsStay /\ UNCHANGED doomed /\ Ended(t)
<1>1. TM!TypeOK
  BY TmTyped DEF CargoInv
<1>2. Silent /\ UNCHANGED doomed
  BY DEF End, OnError, dbVars, dockerVars, daemonVars, Silent
<1>3. CASE End(t)
  <2>1. TM!BodyOk(t) /\ Set(t, None) /\ UNCHANGED row
    BY <1>3 DEF End, Return, dbVars
  <2>2. \A s \in TaskIds : s # t => task'[s] = task[s]
    BY <1>1, <2>1 DEF TM!BodyOk, TM!TypeOK
  <2>3. QED
    BY <1>2, <2>1, <2>2, SetIs, SameRows DEF Alone, Still, Ended
<1>4. CASE OnError(t)
  <2>1. TM!OnErrorDone(t) /\ body' = body /\ body[t] = None
    BY <1>4 DEF OnError, TM!OnErrorDone, daemonVars, CargoInv, Locals
  <2>2. \A s \in TaskIds : s # t => task'[s] = task[s]
    BY <1>1, <2>1 DEF TM!OnErrorDone, TM!TypeOK
  <2>3. RowsStay
    <3>1. CASE Obj(t) \in Cargoes /\ Exists(Obj(t))
      BY <1>4, <3>1, WrittenRow DEF OnError, Statuses
    <3>2. CASE Obj(t) \in Cargoes /\ ~Exists(Obj(t))
      BY <1>4, <3>2, SameRows DEF OnError
    <3>3. CASE Obj(t) \notin Cargoes
      <4>1. row' = row
        BY <1>4, <3>3 DEF OnError, CargoInv, Tables, SetActual
      <4>2. QED
        BY <4>1, SameRows
    <3>4. QED
      BY <3>1, <3>2, <3>3
  <2>4. QED
    BY <1>2, <2>1, <2>2, <2>3 DEF Alone, Still, Ended
<1>5. QED
  BY <1>3, <1>4

-----------------------------------------------------------------------------
(* The bounds of a world only shrink, and what was requested stays so.     *)
Wanes ==
    /\ left'.w = left.w /\ left.seen \subseteq left'.seen
    /\ left'.fails <= left.fails /\ left'.crashes <= left.crashes

Spends ==
    \/ UNCHANGED left
    \/ MayFail /\ SpendFail
    \/ \E n : left' = [left EXCEPT !.made = @ + n]
    \/ \E n : MayFail /\ left' = [left EXCEPT !.made = @ + n, !.fails = @ - 1]

LEMMA SpendsWanes ==
    ASSUME CargoInv, Spends
    PROVE  Wanes
<1>1. left \in [w : Worlds, made : Nat, reqs : Nat, fails : Nat, crashes : Nat,
                seen : SUBSET AllOps]
  BY DEF CargoInv, Bounds
<1>2. left.fails \in Nat /\ left.crashes \in Nat
  BY <1>1
<1>3. CASE UNCHANGED left
  BY <1>2, <1>3 DEF Wanes
<1>4. CASE MayFail /\ SpendFail
  <2>1. /\ left'.w = left.w /\ left'.seen = left.seen /\ left'.crashes = left.crashes
        /\ left'.fails = left.fails - 1
    BY <1>1, <1>4 DEF SpendFail
  <2>2. QED
    BY <1>2, <2>1 DEF Wanes
<1>5. ASSUME NEW n, left' = [left EXCEPT !.made = @ + n]
      PROVE  Wanes
  <2>1. /\ left'.w = left.w /\ left'.seen = left.seen /\ left'.crashes = left.crashes
        /\ left'.fails = left.fails
    BY <1>1, <1>5
  <2>2. QED
    BY <1>2, <2>1 DEF Wanes
<1>6. ASSUME NEW n, left' = [left EXCEPT !.made = @ + n, !.fails = @ - 1]
      PROVE  Wanes
  <2>1. /\ left'.w = left.w /\ left'.seen = left.seen /\ left'.crashes = left.crashes
        /\ left'.fails = left.fails - 1
    BY <1>1, <1>6
  <2>2. QED
    BY <1>2, <2>1 DEF Wanes
<1>7. QED
  BY <1>3, <1>4, <1>5, <1>6 DEF Spends

LEMMA TaskSpends ==
    ASSUME NEW t, TaskStep(t)
    PROVE  Spends
<1>1. CASE ReadCargo(t) \/ ReadStart(t) \/ WaitInit(t) \/ ListInstances(t)
  BY <1>1, Zenon DEF ReadCargo, ReadStart, WaitInit, ListInstances, Spends
<1>2. CASE StartInit(t) \/ StartInstance(t) \/ StartInstanceErr(t) \/ Started(t)
  BY <1>2 DEF StartInit, StartInstance, StartInstanceErr, Started, Spends, CallFails
<1>3. CASE CreateInit(t)
  BY <1>3 DEF CreateInit, Spends
<1>4. CASE CreateInstances(t)
  <2>1. PICK n : \/ left' = [left EXCEPT !.made = @ + n]
                 \/ MayFail /\ left' = [left EXCEPT !.made = @ + n, !.fails = @ - 1]
    BY <1>4, Zenon DEF CreateInstances
  <2>2. QED
    BY <2>1, Zenon DEF Spends
<1>5. CASE ReadUpdate(t) \/ StopOld(t) \/ RenameOld(t) \/ RenamedAll(t)
  BY <1>5, Zenon DEF ReadUpdate, StopOld, RenameOld, RenamedAll, Spends, CallFails
<1>6. CASE UndoCreate(t) \/ UndoRename(t) \/ Updated(t)
  BY <1>6 DEF UndoCreate, UndoRename, Updated, Spends, CallFails
<1>7. CASE ReadStop(t) \/ StopInstance(t) \/ Stopped(t) \/ End(t) \/ OnError(t)
  BY <1>7 DEF ReadStop, StopInstance, Stopped, End, OnError, Spends, CallFails
<1>8. CASE ReadDelete(t) \/ DeleteStop(t) \/ DeleteRemove(t) \/ Clear(t)
  BY <1>8 DEF ReadDelete, DeleteStop, DeleteRemove, Clear, Spends, CallFails
<1>9. QED
  BY <1>1, <1>2, <1>3, <1>4, <1>5, <1>6, <1>7, <1>8 DEF TaskStep

LEMMA BeginWanes ==
    ASSUME CargoInv, NEW k, NEW op, Begin(k, op)
    PROVE  Wanes /\ left'.seen = left.seen \cup {op} /\ left'.made = left.made
<1>1. left.seen \cup {op} = left'.seen /\ left'.w = left.w /\ left'.fails = left.fails
      /\ left'.crashes = left.crashes /\ left'.made = left.made
  BY DEF Begin, CargoInv, Bounds
<1>2. left.fails \in Nat /\ left.crashes \in Nat
  BY DEF CargoInv, Bounds
<1>3. QED
  BY <1>1, <1>2 DEF Wanes

(* Steps that are of no task leave the local variables of every task; the  *)
(* loop starts tasks and ends none.                                        *)
Awaited ==
    /\ UNCHANGED body
    /\ \A u \in TaskIds : task[u] # TM!Done => task'[u] = task[u]

LEMMA LoopMovesOn ==
    ASSUME CargoInv, LoopStep
    PROVE  Awaited /\ Silent /\ RowsStay /\ Wanes /\ UNCHANGED doomed
<1>1. /\ UNCHANGED <<row, body, doomed, cont, proc, dq, dh, left>>
      /\ TM!RecvWait \/ TM!RecvSerial \/ TM!RecvSource \/ TM!WaitDone
  BY DEF LoopStep, dbVars, daemonVars, dockerVars
<1>2. Awaited
  BY <1>1, LoopMoves DEF Awaited
<1>3. QED
  BY <1>1, <1>2, SameRows, SpendsWanes DEF Silent, Spends

LEMMA SecretMoves ==
    ASSUME CargoInv, SecretStep
    PROVE  Awaited /\ Silent /\ RowsStay /\ Wanes /\ UNCHANGED doomed
<1>1. UNCHANGED <<body, doomed, proc, cont, dq, dh, left, task>>
  BY DEF SecretStep, SecretRead, SecretUpdate, SecretDone, dbVars, dockerVars, tmVars,
     TM!Emit, TM!HandlerDone
<1>2. RowsStay
  <2>1. CASE UNCHANGED row
    BY <2>1, SameRows
  <2>2. CASE SecretUpdate
    <3>1. PICK c \in Cargoes : row' = IF Exists(c) THEN SetActual(c, "Updating") ELSE row
      BY <2>2 DEF SecretUpdate, CargoInv, Callers
    <3>2. QED
      BY <3>1, SameRows, WrittenRow DEF Statuses
  <2>3. QED
    BY <2>1, <2>2 DEF SecretStep, SecretRead, SecretDone, dbVars
<1>3. QED
  BY <1>1, <1>2, SpendsWanes DEF Awaited, Silent, Spends

LEMMA StatusStays ==
    ASSUME CargoInv, NEW c \in Cargoes, Exists(c), NEW wanted \in Statuses, NEW st \in Statuses,
           row' = SetStatus(c, wanted, st)
    PROVE  RowsStay
<1>1. row[c] \in Rows
  BY RowSpec
<1>2. PICK r : r = [row[c] EXCEPT !.wanted = wanted, !.actual = st]
  OBVIOUS
<1>3. r \in Rows
  BY <1>1, <1>2 DEF Rows
<1>4. r # None
  BY <1>3 DEF Rows, None
<1>5. row' = [row EXCEPT ![c] = r]
  BY <1>2 DEF SetStatus, CargoInv, Tables
<1>6. QED
  BY <1>4, <1>5 DEF RowsStay, Exists, CargoInv, Tables

(* A request that begins: only StartProcess calls docker.                  *)
LEMMA NewRequestMoves ==
    ASSUME CargoInv, NEW k \in Clients, NewRequest(k)
    PROVE  /\ Awaited /\ RowsStay /\ Wanes /\ UNCHANGED doomed
           /\ \/ Silent
              \/ \E i \in Conts : /\ Struck(i) /\ cont'[i] # None /\ cont'[i].st = "up"
                                  /\ "process" \in left'.seen
<1>1. UNCHANGED <<body, doomed, dh>>
  BY DEF NewRequest, CreateCargo, StartCargo, StopCargo, PutCargo, DeleteCargo, EachProcess,
     PutSecret, StartProcess, daemonVars
<1>2. UNCHANGED task
  BY DEF NewRequest, CreateCargo, StartCargo, StopCargo, PutCargo, DeleteCargo, EachProcess,
     PutSecret, StartProcess, tmVars, TM!Emit
<1>3. PICK op : Begin(k, op)
  BY DEF NewRequest, CreateCargo, StartCargo, StopCargo, PutCargo, DeleteCargo, EachProcess,
     PutSecret, StartProcess
<1>4. Wanes /\ left'.made = left.made
  BY <1>3, BeginWanes
<1>5. RowsStay
  <2>1. CASE UNCHANGED row
    BY <2>1, SameRows
  <2>2. ASSUME NEW c \in Cargoes, CreateCargo(k, c)
        PROVE  RowsStay
    BY <2>2 DEF CreateCargo, RowsStay, Exists, CargoInv, Tables
  <2>3. ASSUME NEW c \in Cargoes, StartCargo(k, c) \/ PutCargo(k, c)
        PROVE  RowsStay
    BY <2>3, StatusStays DEF StartCargo, PutCargo, Statuses
  <2>4. QED
    BY <2>1, <2>2, <2>3 DEF NewRequest, StopCargo, DeleteCargo, EachProcess, PutSecret,
       StartProcess, dbVars
<1>6. ASSUME NEW i \in Conts, StartProcess(k, i)
      PROVE  /\ Struck(i) /\ cont'[i] # None /\ cont'[i].st = "up"
             /\ "process" \in left'.seen
  <2>1. UNCHANGED <<dh, proc>> /\ Present(i) /\ StartCont(i) /\ Begin(k, "process")
    BY <1>6 DEF StartProcess, daemonVars, dbVars
  <2>2. "process" \in left'.seen
    BY <2>1, BeginWanes
  <2>3. QED
    BY <1>4, <2>1, <2>2, StartSteers, Strikes DEF CargoInv
<1>7. ASSUME UNCHANGED <<proc, dockerVars>>
      PROVE  Silent
  BY <1>1, <1>4, <1>7 DEF Silent, dockerVars
<1>8. Silent \/ \E i \in Conts : StartProcess(k, i)
  BY <1>7 DEF NewRequest, CreateCargo, StartCargo, StopCargo, PutCargo, DeleteCargo, EachProcess,
     PutSecret, dbVars
<1>9. QED
  BY <1>1, <1>2, <1>4, <1>5, <1>6, <1>8 DEF Awaited

(* A request in progress: a restart and a kill call docker themselves.     *)
LEMMA RequestMoves ==
    ASSUME CargoInv, NEW k \in Clients, RequestStep(k)
    PROVE  /\ Awaited /\ RowsStay /\ Wanes /\ UNCHANGED doomed
           /\ \/ Silent
              \/ \E i \in Conts :
                    /\ Struck(i) /\ cont'[i] # None /\ req[k] # None
                    /\ \/ cont'[i].st = "up" /\ req[k].op = "restart"
                       \/ cont'[i].st \notin {"up", "crashed"} /\ req[k].op = "kill" /\ cont[i].st = "up"
<1>1. UNCHANGED <<body, doomed, dh, proc>>
  BY DEF RequestStep, WriteStatus, PutSpec, EmitRequest, NextProcess, daemonVars, dbVars
<1>2. UNCHANGED task
  BY DEF RequestStep, WriteStatus, PutSpec, EmitRequest, NextProcess, tmVars, TM!Emit
<1>3. Spends
  BY DEF RequestStep, WriteStatus, PutSpec, EmitRequest, NextProcess, CallFails, Spends
<1>4. RowsStay
  <2>1. CASE UNCHANGED row
    BY <2>1, SameRows
  <2>2. CASE WriteStatus(k)
    <3>1. req[k].c \in Cargoes
      BY <2>2, InProgress DEF WriteStatus, In
    <3>2. QED
      BY <2>1, <2>2, <3>1, StatusStays DEF WriteStatus, Statuses
  <2>3. CASE PutSpec(k)
    <3>1. req[k].c \in Cargoes
      BY <2>3, InProgress DEF PutSpec, In
    <3>2. PICK c \in Cargoes : c = req[k].c
      BY <3>1
    <3>3. CASE Exists(c) /\ row' = [row EXCEPT ![c].spec = @ + 1]
      <4>1. row[c] \in Rows
        BY <3>3, RowSpec
      <4>2. PICK r : r = [row[c] EXCEPT !.spec = @ + 1]
        OBVIOUS
      <4>3. r # None
        <5>1. DOMAIN r = DOMAIN row[c] /\ "spec" \in DOMAIN row[c]
          BY <4>1, <4>2 DEF Rows
        <5>2. "spec" \notin DOMAIN None
          BY DEF None
        <5>3. QED
          BY <5>1, <5>2
      <4>4. row' = [row EXCEPT ![c] = r]
        BY <3>3, <4>2 DEF CargoInv, Tables
      <4>5. QED
        BY <4>3, <4>4 DEF RowsStay, Exists, CargoInv, Tables
    <3>4. QED
      BY <2>1, <2>3, <3>2, <3>3 DEF PutSpec
  <2>4. QED
    BY <2>1, <2>2, <2>3 DEF RequestStep, EmitRequest, NextProcess, dbVars
<1>5. left'.made = left.made \/ NextProcess(k)
  BY DEF RequestStep, WriteStatus, PutSpec, EmitRequest
<1>6. CASE ~NextProcess(k)
  <2>1. Silent
    BY <1>1, <1>5, <1>6 DEF RequestStep, WriteStatus, PutSpec, EmitRequest, dockerVars, Silent
  <2>2. QED
    BY <1>1, <1>2, <1>3, <1>4, <2>1, SpendsWanes DEF Awaited
<1>7. CASE NextProcess(k)
  <2>1. req[k] # None /\ req[k].op \in {"restart", "kill"} /\ req[k].todo \subseteq Conts
    BY <1>7, InProgress DEF NextProcess, In
  <2>2. PICK i : i = Newest(req[k].todo)
    OBVIOUS
  <2>3. ASSUME UNCHANGED <<dockerVars, left>>
        PROVE  Silent
    BY <1>1, <2>3 DEF Silent, dockerVars
  <2>4. ASSUME req[k].todo # {}, Present(i), req[k].op = "kill" => cont[i].st = "up",
               IF req[k].op = "restart" THEN RestartCont(i) ELSE StopCont(i),
               UNCHANGED left
        PROVE  /\ i \in Conts /\ Struck(i) /\ cont'[i] # None
               /\ \/ cont'[i].st = "up" /\ req[k].op = "restart"
                  \/ cont'[i].st \notin {"up", "crashed"} /\ req[k].op = "kill" /\ cont[i].st = "up"
    <3>1. i \in Conts
      BY <2>1, <2>2, <2>4, NewestCont DEF CargoInv
    <3>2. CASE req[k].op = "restart"
      <4>1. Steers(i) /\ cont'[i] # None /\ cont'[i].st = "up"
        BY <2>4, <3>1, <3>2, RestartSteers DEF CargoInv
      <4>2. QED
        BY <1>1, <2>1, <2>4, <3>1, <3>2, <4>1, Strikes
    <3>3. CASE req[k].op = "kill"
      <4>1. Steers(i) /\ cont'[i] # None /\ cont'[i].st \notin {"up", "crashed"}
        BY <2>4, <3>1, <3>3, StopSteers DEF CargoInv
      <4>2. QED
        BY <1>1, <2>1, <2>4, <3>1, <3>3, <4>1, Strikes
    <3>4. QED
      BY <2>1, <3>2, <3>3
  <2>5. ASSUME NEW ok, CallFails(ok), UNCHANGED dockerVars
        PROVE  Silent
    BY <1>1, <2>5, Unspent DEF Silent, dockerVars
  <2>6. \/ Silent
        \/ \E j \in Conts :
                    /\ Struck(j) /\ cont'[j] # None /\ req[k] # None
                    /\ \/ cont'[j].st = "up" /\ req[k].op = "restart"
                       \/ cont'[j].st \notin {"up", "crashed"} /\ req[k].op = "kill" /\ cont[j].st = "up"
    BY <1>7, <2>1, <2>2, <2>3, <2>4, <2>5 DEF NextProcess
  <2>7. QED
    BY <1>1, <1>2, <1>3, <1>4, <2>6, SpendsWanes DEF Awaited
<1>8. QED
  BY <1>6, <1>7

(* Late removals, and what containers do by themselves.                    *)
LEMMA ReapMoves ==
    ASSUME CargoInv, NEW i \in Conts, Reap(i)
    PROVE  /\ Awaited /\ RowsStay /\ Wanes /\ i \in doomed /\ doomed' \subseteq doomed
           /\ \/ Silent
              \/ Struck(i) /\ cont'[i] = None
              \/ Dropped(i)
<1>1. UNCHANGED <<body, dh, row, task>> /\ i \in doomed /\ doomed' \subseteq doomed
  BY DEF Reap, tmVars
<1>2. Awaited /\ RowsStay
  BY <1>1, SameRows DEF Awaited
<1>3. CASE Present(i) /\ RemoveCont(i) /\ UNCHANGED <<proc, left>>
  <2>1. Struck(i) /\ cont'[i] = None
    BY <1>1, <1>3, RemoveSteers, Strikes DEF CargoInv
  <2>2. QED
    BY <1>1, <1>2, <1>3, <2>1, SpendsWanes DEF Spends
<1>4. CASE ~Present(i) /\ proc' = [proc EXCEPT ![i] = None] /\ UNCHANGED <<dockerVars, left>>
  <2>1. Dropped(i)
    BY <1>1, <1>4 DEF Dropped, dockerVars, Present
  <2>2. QED
    BY <1>1, <1>2, <1>4, <2>1, SpendsWanes DEF Spends
<1>5. CASE MayFail /\ SpendFail /\ UNCHANGED <<dockerVars, proc>>
  <2>1. Silent
    BY <1>1, <1>5, SpentFail DEF Silent, dockerVars
  <2>2. QED
    BY <1>1, <1>2, <1>5, <2>1, SpendsWanes DEF Spends
<1>6. QED
  BY <1>3, <1>4, <1>5 DEF Reap

LEMMA ExitMoves ==
    ASSUME CargoInv, NEW i \in Conts, InitExit(i) \/ Crash(i) \/ Revive(i)
    PROVE  /\ Awaited /\ RowsStay /\ Wanes /\ UNCHANGED doomed
           /\ Struck(i) /\ cont'[i] # None
           /\ \/ cont[i].init /\ cont'[i].st \in {"down", "bad"} /\ cont[i].st = "up"
              \/ /\ ~cont[i].init /\ cont[i].st = "up" /\ cont'[i].st = "crashed"
                 /\ left'.crashes < left.crashes
              \/ cont[i].st = "crashed" /\ cont'[i].st = "up"
<1>1. UNCHANGED <<body, dh, row, proc, task, doomed>> /\ Present(i)
  BY DEF InitExit, Crash, Revive, Exit, tmVars, daemonVars, dbVars
<1>2. Awaited /\ RowsStay
  BY <1>1, SameRows DEF Awaited
<1>3. CASE InitExit(i)
  <2>1. PICK st \in {"down", "bad"} : Exit(i, st)
    BY <1>3 DEF InitExit
  <2>2. Spends /\ left'.made = left.made
    BY <1>3, SpentFail DEF InitExit, Spends
  <2>3. Struck(i) /\ cont'[i] # None /\ cont'[i].st = st
    BY <1>1, <2>1, <2>2, ExitSteers, Strikes DEF CargoInv, ContStates
  <2>4. QED
    BY <1>1, <1>2, <1>3, <2>2, <2>3, SpendsWanes DEF InitExit
<1>4. CASE Crash(i)
  <2>1. /\ left'.made = left.made /\ left'.crashes < left.crashes /\ left'.fails = left.fails
        /\ left'.w = left.w /\ left'.seen = left.seen /\ left'.crashes = left.crashes - 1
        /\ left.crashes \in Nat /\ left.fails \in Nat
    BY <1>4 DEF Crash, CargoInv, Bounds
  <2>2. Struck(i) /\ cont'[i] # None /\ cont'[i].st = "crashed"
    <3>1. Exit(i, "crashed") /\ "crashed" \in ContStates /\ Tables
      BY <1>4 DEF Crash, ContStates, CargoInv
    <3>2. Steers(i) /\ cont'[i] # None /\ cont'[i].st = "crashed"
      BY <1>1, <3>1, ExitSteers
    <3>3. QED
      BY <1>1, <2>1, <3>2, Strikes
  <2>3. Wanes
    BY <2>1 DEF Wanes
  <2>4. QED
    BY <1>1, <1>2, <1>4, <2>1, <2>2, <2>3 DEF Crash
<1>5. CASE Revive(i)
  <2>1. Struck(i) /\ cont'[i] # None /\ cont'[i].st = "up"
    BY <1>1, <1>5, StartSteers, Strikes DEF CargoInv, Revive
  <2>2. QED
    BY <1>1, <1>2, <1>5, <2>1, SpendsWanes DEF Revive, Spends
<1>6. QED
  BY <1>3, <1>4, <1>5

LEMMA DockerMoves ==
    ASSUME CargoInv, DockerStep
    PROVE  Awaited /\ RowsStay /\ Wanes /\ UNCHANGED <<doomed, cont, left>>
<1>1. UNCHANGED <<body, task, doomed, cont, left>>
  BY DEF DockerStep, DockerRecv, DockerWrite, DockerSync, tmVars, dockerVars
<1>2. RowsStay
  <2>1. CASE UNCHANGED row
    BY <2>1, SameRows
  <2>2. CASE DockerWrite
    <3>1. dh.ev.cargo \in Cargoes
      <4>1. dh \in [st : {"run"}, pc : {"write", "sync"}, ev : DockerEvents(Conts)]
        BY <2>2 DEF CargoInv, Tables, DockerWrite
      <4>2. QED
        BY <4>1 DEF DockerEvents
    <3>2. QED
      BY <2>1, <2>2, <3>1, WrittenRow DEF DockerWrite, Statuses
  <2>3. QED
    BY <2>1, <2>2 DEF DockerStep, DockerRecv, DockerSync
<1>3. QED
  BY <1>1, <1>2, SpendsWanes DEF Awaited, Spends

LEMMA StepWanes ==
    ASSUME CargoInv, [Next]_vars
    PROVE  Wanes
<1>1. CASE UNCHANGED vars
  BY <1>1, SpendsWanes DEF vars, Spends
<1>2. CASE Next
  BY <1>2, NewRequestMoves, RequestMoves, LoopMovesOn, SecretMoves, DockerMoves, TaskSpends,
     SpendsWanes, ReapMoves, ExitMoves DEF Next
<1>3. QED
  BY <1>1, <1>2

-----------------------------------------------------------------------------
(* The inductive invariant.  What a task is at.                            *)
Launches(t) == body[t] # None /\ task[t].ev.action \in Launching

Updates(t) == body[t] # None /\ task[t].ev.action = "Updating"

Deletes(t) == body[t] # None /\ task[t].ev.action = "Destroying" /\ body[t].pc # "end"

(* i was made, and is of the cargo c as long as docker has it.             *)
Of(i, c) == i <= left.made /\ (cont[i] # None => cont[i].cargo = c)

Initial(S) == \A i \in S : cont[i] # None => cont[i].init

Regular(S) == \A i \in S : cont[i] # None => ~cont[i].init

(* The process row of a container says what it is of; rows are of          *)
(* containers that were made, and so are the late removals.                *)
Matched ==
    \A i \in Conts : cont[i] # None => /\ proc[i].cargo = cont[i].cargo
                                       /\ proc[i].init = cont[i].init

Made ==
    /\ \A i \in Conts : proc[i] # None => i <= left.made
    /\ \A i \in doomed : i <= left.made

(* The events of docker are of containers of the cargo they name.          *)
EventsMatch ==
    /\ \A n \in DOMAIN dq : Of(dq[n].id, dq[n].cargo)
    /\ dh # None => Of(dh.ev.id, dh.ev.cargo)

Spent == left.fails <= left.w.fails /\ left.crashes <= left.w.crashes

NoCrash == left.crashes = left.w.crashes

(* The lists of a task are of its own cargo, and of the kind its next call *)
(* is about.                                                               *)
Fits(c, act, pc, todo, new, rows) ==
    /\ \A i \in todo \cup new : Of(i, c)
    /\ \A i \in Conts : rows[i] # None => Of(i, c)
    /\ Regular(new)
    /\ act \in Launching /\ pc = "run" => Regular(todo)
    /\ act \in Launching /\ pc \in {"init", "initrun", "initwait"} => Initial(todo)
    /\ act = "Updating" /\ pc = "init" => todo = {}
    /\ pc = "undo" => todo \subseteq new
    /\ act = "Destroying" => pc \in {"stop", "remove", "end"}

Sound(t) ==
    body[t] # None =>
        Fits(Obj(t), task[t].ev.action, body[t].pc, body[t].todo, body[t].new, body[t].rows)

(* A cargo that a start or an update works on is there.                    *)
Alive == \A t \in TaskIds : Launches(t) => Exists(Obj(t))

(* As long as no instance crashed, none says it did.                       *)
Uncrashed ==
    NoCrash =>
        /\ \A i \in Conts : cont[i] # None => cont[i].st # "crashed"
        /\ \A i \in Conts : proc[i] # None => proc[i].st # "crashed"
        /\ \A t \in TaskIds, i \in Conts :
              body[t] # None /\ body[t].rows[i] # None => body[t].rows[i].st # "crashed"

(* A step lets the containers that were made be of what they are, and new  *)
(* ones come with their rows.                                              *)
Kin ==
    /\ left'.made >= left.made
    /\ \A i \in Conts : i <= left.made /\ cont'[i] # None => cont[i] # None /\ Same(i)
    /\ \A i \in Conts : i <= left.made /\ proc'[i] # None =>
          proc[i] # None /\ proc'[i].cargo = proc[i].cargo /\ proc'[i].init = proc[i].init
    /\ \A i \in Conts : i > left.made /\ (cont'[i] # None \/ proc'[i] # None) =>
          /\ i <= left'.made /\ cont'[i] # None /\ proc'[i] # None
          /\ cont'[i].cargo = proc'[i].cargo /\ cont'[i].init = proc'[i].init

LEMMA Numbers ==
    ASSUME CargoInv
    PROVE  left.made \in Nat /\ Conts \subseteq Nat
BY ConstAssumption DEF CargoInv, Bounds, Conts

LEMMA SilentKin ==
    ASSUME CargoInv, Made, Silent
    PROVE  Kin
BY Numbers DEF CargoInv, Gone, Made, Silent, Kin, Same

LEMMA StruckKin ==
    ASSUME CargoInv, Made, NEW i \in Conts, Struck(i)
    PROVE  Kin
<1>1. /\ left.made \in Nat /\ Conts \subseteq Nat /\ left'.made = left.made
      /\ \A j \in Conts : j > left.made => cont[j] = None /\ proc[j] = None
      /\ \A j \in Conts : j # i => cont'[j] = cont[j]
      /\ cont[i] # None /\ (cont'[i] # None => Same(i))
  BY Numbers DEF CargoInv, Gone, Made, Struck, Steers, Drives
<1>2. \A j \in Conts : proc'[j] = proc[j] \/ proc'[j] = None
  BY DEF Struck, CargoInv, Tables
<1>3. ~(i > left.made)
  BY <1>1
<1>4. \A j \in Conts : cont'[j] # None => cont[j] # None /\ Same(j)
  BY <1>1 DEF Same
<1>5. \A j \in Conts : j > left.made => cont'[j] = None /\ proc'[j] = None
  BY <1>1, <1>2, <1>3
<1>6. \A j \in Conts : proc'[j] # None => proc'[j] = proc[j]
  BY <1>2
<1>7. left'.made >= left.made
  BY <1>1
<1>8. QED
  BY <1>4, <1>5, <1>6, <1>7 DEF Kin

LEMMA DroppedKin ==
    ASSUME CargoInv, Made, NEW i \in Conts, Dropped(i)
    PROVE  Kin
<1>1. /\ left.made \in Nat /\ Conts \subseteq Nat /\ left'.made = left.made /\ cont' = cont
      /\ \A j \in Conts : j > left.made => cont[j] = None /\ proc[j] = None
  BY Numbers DEF CargoInv, Gone, Made, Dropped
<1>2. \A j \in Conts : proc'[j] = proc[j] \/ proc'[j] = None
  BY DEF Dropped, CargoInv, Tables
<1>3. \A j \in Conts : j > left.made => cont'[j] = None /\ proc'[j] = None
  BY <1>1, <1>2
<1>4. \A j \in Conts : proc'[j] # None => proc'[j] = proc[j]
  BY <1>2
<1>5. left'.made >= left.made
  BY <1>1
<1>6. \A j \in Conts : cont'[j] = cont[j]
  BY <1>1
<1>7. QED
  BY <1>3, <1>4, <1>5, <1>6 DEF Kin, Same

LEMMA GrowsIs ==
    ASSUME CargoInv, NEW c, NEW init, NEW spec, NEW m, Grows(c, init, spec, m)
    PROVE  /\ left'.made = left.made + m /\ m \in Nat /\ left'.made \in Nat
           /\ Fresh(m) \subseteq Conts
           /\ \A i \in Conts : i \in Fresh(m) <=> i > left.made /\ i <= left'.made
           /\ \A i \in Fresh(m) : /\ cont[i] = None
                                  /\ cont'[i] = NewCont(c, init, spec)
                                  /\ proc'[i] = NewProc(c, init)
                                  /\ cont'[i] # None /\ cont'[i].cargo = c /\ cont'[i].spec = spec
                                  /\ cont'[i].init = init /\ cont'[i].st = "created"
                                  /\ cont'[i].tmp = 0 /\ proc'[i].st = "created"
                                  /\ proc'[i].tmp = 0
                                  /\ proc'[i] # None /\ proc'[i].cargo = c /\ proc'[i].init = init
           /\ \A i \in Conts \ Fresh(m) : cont'[i] = cont[i] /\ proc'[i] = proc[i]
<1>1. /\ left'.made = left.made + m /\ m \in Nat /\ left.made \in Nat /\ Conts \subseteq Nat
      /\ Fresh(m) \subseteq Conts
  BY Numbers DEF Grows, CreateConts
<1>2. \A i \in Conts : i \in Fresh(m) <=> i > left.made /\ i <= left'.made
  BY <1>1 DEF Fresh
<1>3. /\ \A i \in Fresh(m) : cont'[i] = NewCont(c, init, spec) /\ proc'[i] = NewProc(c, init)
      /\ \A i \in Conts \ Fresh(m) : cont'[i] = cont[i] /\ proc'[i] = proc[i]
  BY <1>1 DEF Grows, CreateConts
<1>4. PICK r, p : r = NewCont(c, init, spec) /\ p = NewProc(c, init)
  OBVIOUS
<1>5. /\ r.cargo = c /\ r.spec = spec /\ r.init = init /\ r.st = "created" /\ r.tmp = 0
      /\ p.cargo = c /\ p.init = init /\ p.st = "created" /\ p.tmp = 0
  BY <1>4 DEF NewCont, NewProc
<1>6. r # None /\ p # None
  BY <1>5 DEF None
<1>7. \A i \in Fresh(m) : cont[i] = None
  BY <1>1, <1>2 DEF CargoInv, Gone
<1>8. left'.made \in Nat
  BY <1>1
<1>9. QED
  BY <1>1, <1>2, <1>3, <1>4, <1>5, <1>6, <1>7, <1>8

LEMMA GrowsKin ==
    ASSUME CargoInv, Made, NEW c, NEW init, NEW spec, NEW m, Grows(c, init, spec, m)
    PROVE  Kin
<1>1. /\ left.made \in Nat /\ Conts \subseteq Nat /\ left'.made \in Nat
      /\ left'.made = left.made + m /\ m \in Nat
      /\ \A j \in Conts : j > left.made => cont[j] = None /\ proc[j] = None
      /\ \A i \in Conts : i \in Fresh(m) <=> i > left.made /\ i <= left'.made
  BY Numbers, GrowsIs DEF CargoInv, Gone, Made
<1>2. \A i \in Fresh(m) : /\ cont'[i] # None /\ cont'[i].cargo = c /\ cont'[i].init = init
                          /\ proc'[i] # None /\ proc'[i].cargo = c /\ proc'[i].init = init
  BY GrowsIs
<1>3. \A i \in Conts \ Fresh(m) : cont'[i] = cont[i] /\ proc'[i] = proc[i]
  BY GrowsIs
<1>4. left'.made >= left.made
  BY <1>1
<1>5. ASSUME NEW i \in Conts, i <= left.made
      PROVE  i \notin Fresh(m) /\ cont'[i] = cont[i] /\ proc'[i] = proc[i]
  <2>1. i \notin Fresh(m)
    BY <1>1, <1>5
  <2>2. QED
    BY <1>3, <2>1
<1>6. ASSUME NEW i \in Conts, i > left.made, cont'[i] # None \/ proc'[i] # None
      PROVE  /\ i <= left'.made /\ cont'[i] # None /\ proc'[i] # None
             /\ cont'[i].cargo = proc'[i].cargo /\ cont'[i].init = proc'[i].init
  <2>1. i \in Fresh(m)
    BY <1>1, <1>3, <1>6
  <2>2. QED
    BY <1>1, <1>2, <2>1
<1>7. QED
  BY <1>4, <1>5, <1>6 DEF Kin, Same

(* What the analyser does to a row: it takes that of a container that is   *)
(* gone, or writes the state and a name.                                   *)
LEMMA DockerRows ==
    ASSUME CargoInv, DockerStep
    PROVE  \A j \in Conts : proc'[j] # None =>
             /\ proc[j] # None /\ proc'[j].cargo = proc[j].cargo /\ proc'[j].init = proc[j].init
             /\ proc'[j].st = proc[j].st \/ (cont[j] # None /\ proc'[j].st = cont[j].st)
<1>1. CASE DockerRecv
  <2>1. proc' = proc \/ \E i : proc' = [proc EXCEPT ![i] = None]
    BY <1>1 DEF DockerRecv
  <2>2. QED
    BY <2>1 DEF CargoInv, Tables
<1>2. CASE DockerWrite
  BY <1>2 DEF DockerWrite
<1>3. CASE DockerSync
  <2>1. dh \in [st : {"run"}, pc : {"write", "sync"}, ev : DockerEvents(Conts)]
    BY <1>3 DEF CargoInv, Tables, DockerSync
  <2>2. PICK i \in Conts : i = dh.ev.id
    BY <2>1 DEF DockerEvents
  <2>3. CASE ~(Present(i) /\ proc[i] # None)
    BY <1>3, <2>2, <2>3 DEF DockerSync
  <2>4. CASE Present(i) /\ proc[i] # None
    <3>1. proc[i] \in Procs
      BY <2>4 DEF CargoInv, Tables
    <3>2. PICK p : p = [proc[i] EXCEPT !.st = cont[i].st, !.tmp = dh.ev.tmp]
      OBVIOUS
    <3>3. p.cargo = proc[i].cargo /\ p.init = proc[i].init /\ p.st = cont[i].st
      BY <3>1, <3>2 DEF Procs
    <3>4. proc' = [proc EXCEPT ![i] = p]
      BY <1>3, <2>2, <2>4, <3>2 DEF DockerSync, CargoInv, Tables
    <3>5. QED
      BY <2>4, <3>3, <3>4 DEF CargoInv, Tables, Present
  <2>5. QED
    BY <2>3, <2>4
<1>4. QED
  BY <1>1, <1>2, <1>3 DEF DockerStep

LEMMA DockerKin ==
    ASSUME CargoInv, Made, DockerStep
    PROVE  Kin
<1>1. /\ left.made \in Nat /\ Conts \subseteq Nat /\ left' = left /\ cont' = cont
      /\ \A j \in Conts : j > left.made => cont[j] = None /\ proc[j] = None
  BY Numbers, DockerMoves DEF CargoInv, Gone, Made
<1>2. QED
  BY <1>1, DockerRows DEF Kin, Same

(* The steps of a task, by what they do to docker.                         *)
Hits(t, i) ==
    /\ i \in body[t].todo /\ body[t] # None
    /\ \/ /\ cont'[i] = None
          /\ Runs(t, {"Updating"}, "undo") \/ Runs(t, {"Destroying"}, "remove")
       \/ /\ cont'[i] # None /\ cont'[i].st = "up"
          /\ \/ Runs(t, Launching, "initrun") /\ i = Newest(body[t].todo)
             \/ Runs(t, Launching, "run")
       \/ /\ cont'[i] # None /\ cont'[i].st \notin {"up", "crashed"}
          /\ \/ Runs(t, {"Stopping"}, "run") \/ Runs(t, {"Destroying"}, "stop")
             \/ Runs(t, {"Updating"}, "rename") /\ body[t].rows[i].st = "crashed"
       \/ /\ cont'[i] # None /\ cont'[i].st = cont[i].st
          /\ Runs(t, {"Updating"}, "rename") \/ Runs(t, {"Updating"}, "back")

Adds(t, m) ==
    \/ Grows(Obj(t), TRUE, body[t].spec, m) /\ Runs(t, Launching, "init")
    \/ Grows(Obj(t), FALSE, body[t].spec, m) /\ Runs(t, Launching, "create")

Docks(t) ==
    \/ Silent
    \/ \E i \in Conts : Struck(i) /\ Hits(t, i)
    \/ \E i \in Conts : Dropped(i) /\ i \in body[t].todo /\ Runs(t, {"Updating"}, "undo")
    \/ \E m \in Nat : Adds(t, m)

LEMMA TaskDocks ==
    ASSUME CargoInv, NEW t \in TaskIds, TaskStep(t)
    PROVE  Alone(t) /\ Docks(t) /\ (RowsStay \/ Clear(t)) /\ (UNCHANGED doomed \/ Started(t))
<1>1. CASE ReadCargo(t) \/ ReadStart(t) \/ WaitInit(t) \/ ListInstances(t)
  BY <1>1, ReadCargoMoves, ReadStartMoves, WaitInitMoves, ListInstancesMoves DEF Docks
<1>2. CASE CreateInit(t)
  <2>1. 1 \in Nat
    OBVIOUS
  <2>2. QED
    BY <1>2, <2>1, CreateInitMoves DEF Docks, Adds
<1>3. CASE CreateInstances(t)
  BY <1>3, CreateInstancesMoves DEF Docks, Adds
<1>4. CASE StartInit(t)
  BY <1>4, StartInitMoves DEF Docks, Hits, Struck, Runs
<1>5. CASE StartInstance(t)
  BY <1>5, StartInstanceMoves DEF Docks, Hits, Struck, Runs
<1>6. CASE StartInstanceErr(t) \/ Started(t)
  BY <1>6, StartInstanceErrMoves, StartedMoves DEF Docks
<1>7. CASE ReadUpdate(t) \/ RenamedAll(t) \/ Updated(t) \/ Stopped(t)
  BY <1>7, ReadUpdateMoves, RenamedAllMoves, LastMoves DEF Docks
<1>8. CASE StopOld(t)
  BY <1>8, StopOldMoves DEF Docks, Hits, Struck, Runs
<1>9. CASE RenameOld(t)
  BY <1>9, RenameOldMoves DEF Docks, Hits, Struck, Runs
<1>10. CASE UndoCreate(t)
  BY <1>10, UndoCreateMoves DEF Docks, Hits, Struck, Dropped, Runs
<1>11. CASE UndoRename(t)
  BY <1>11, UndoRenameMoves DEF Docks, Hits, Struck, Runs
<1>12. CASE ReadStop(t) \/ ReadDelete(t) \/ End(t) \/ OnError(t)
  BY <1>12, ReadProcsMoves, EndMoves DEF Docks
<1>13. CASE StopInstance(t)
  BY <1>13, StopInstanceMoves DEF Docks, Hits, Struck, Runs
<1>14. CASE DeleteStop(t)
  BY <1>14, DeleteStopMoves DEF Docks, Hits, Struck, Runs
<1>15. CASE DeleteRemove(t)
  BY <1>15, DeleteRemoveMoves DEF Docks, Hits, Struck, Runs
<1>16. CASE Clear(t)
  BY <1>16, ClearMoves DEF Docks
<1>17. QED
  BY <1>1, <1>2, <1>3, <1>4, <1>5, <1>6, <1>7, <1>8, <1>9, <1>10, <1>11, <1>12, <1>13, <1>14,
     <1>15, <1>16 DEF TaskStep

LEMMA DocksKin ==
    ASSUME CargoInv, Made, NEW t, Docks(t)
    PROVE  Kin
BY SilentKin, StruckKin, DroppedKin, GrowsKin DEF Docks, Adds

(* A step of no task and not of the analyser.                              *)
Outer ==
    \/ \E k \in Clients : NewRequest(k) \/ RequestStep(k)
    \/ LoopStep
    \/ SecretStep
    \/ \E i \in Conts : Reap(i) \/ InitExit(i) \/ Crash(i) \/ Revive(i)
    \/ UNCHANGED vars

(* How docker gets to act on a container outside of the tasks.             *)
Outlet(i) ==
    \/ cont'[i] = None /\ i \in doomed
    \/ /\ cont'[i] # None /\ cont'[i].st = "up"
       /\ \/ cont[i].st = "crashed" \/ "process" \in left'.seen
          \/ \E k \in Clients : req[k] # None /\ req[k].op = "restart"
    \/ /\ cont'[i] # None /\ cont[i].st = "up" /\ cont'[i].st \notin {"up", "crashed"}
       /\ cont[i].init \/ \E k \in Clients : req[k] # None /\ req[k].op = "kill"
    \/ /\ cont'[i] # None /\ cont[i].st = "up" /\ cont'[i].st = "crashed"
       /\ left'.crashes < left.crashes

LEMMA OuterMoves ==
    ASSUME CargoInv, Outer
    PROVE  /\ Awaited /\ RowsStay /\ doomed' \subseteq doomed
           /\ \/ Silent
              \/ \E i \in Conts : Struck(i) /\ Outlet(i)
              \/ \E i \in Conts : Dropped(i)
<1>1. ASSUME NEW k \in Clients, NewRequest(k)
      PROVE  /\ Awaited /\ RowsStay /\ doomed' \subseteq doomed
             /\ Silent \/ \E i \in Conts : Struck(i) /\ Outlet(i)
  BY <1>1, NewRequestMoves DEF Outlet
<1>2. ASSUME NEW k \in Clients, RequestStep(k)
      PROVE  /\ Awaited /\ RowsStay /\ doomed' \subseteq doomed
             /\ Silent \/ \E i \in Conts : Struck(i) /\ Outlet(i)
  BY <1>2, RequestMoves DEF Outlet
<1>3. CASE LoopStep
  BY <1>3, LoopMovesOn
<1>4. CASE SecretStep
  BY <1>4, SecretMoves
<1>5. ASSUME NEW i \in Conts, Reap(i)
      PROVE  /\ Awaited /\ RowsStay /\ doomed' \subseteq doomed
             /\ Silent \/ (Struck(i) /\ Outlet(i)) \/ Dropped(i)
  BY <1>5, ReapMoves DEF Outlet
<1>6. ASSUME NEW i \in Conts, InitExit(i) \/ Crash(i) \/ Revive(i)
      PROVE  Awaited /\ RowsStay /\ doomed' \subseteq doomed /\ Struck(i) /\ Outlet(i)
  BY <1>6, ExitMoves DEF Outlet
<1>7. CASE UNCHANGED vars
  <2>1. UNCHANGED <<row, proc, body, dh, doomed, cont, dq, task, left>>
    BY <1>7 DEF vars, dbVars, daemonVars, dockerVars, tmVars
  <2>2. QED
    BY <2>1, SameRows DEF Awaited, Silent
<1>8. QED
  BY <1>1, <1>2, <1>3, <1>4, <1>5, <1>6, <1>7 DEF Outer

LEMMA Steps ==
    ASSUME [Next]_vars
    PROVE  Outer \/ DockerStep \/ \E t \in TaskIds : TaskStep(t)
BY DEF Next, Outer

LEMMA StepKin ==
    ASSUME CargoInv, Made, [Next]_vars
    PROVE  Kin
<1>1. CASE Outer
  BY <1>1, OuterMoves, SilentKin, StruckKin, DroppedKin
<1>2. CASE DockerStep
  BY <1>2, DockerKin
<1>3. ASSUME NEW t \in TaskIds, TaskStep(t)
      PROVE  Kin
  BY <1>3, TaskDocks, DocksKin
<1>4. QED
  BY <1>1, <1>2, <1>3, Steps

-----------------------------------------------------------------------------
(* The local variables of the tasks.                                       *)
LEMMA SameConts ==
    ASSUME CargoInv, [Next]_vars
    PROVE  Conts' = Conts /\ CargoInv' /\ Wanes
<1>1. Wanes
  BY StepWanes
<1>2. CargoInv'
  BY StepKept DEF Kept
<1>3. Conts' = Conts
  BY <1>1 DEF Conts, Wanes
<1>4. QED
  BY <1>1, <1>2, <1>3

LEMMA OfKept ==
    ASSUME CargoInv, Kin, CargoInv', NEW i \in Conts, NEW c, Of(i, c)
    PROVE  Of(i, c)'
<1>1. left.made \in Nat /\ left'.made \in Nat /\ i \in Nat
  BY Numbers DEF CargoInv, Bounds
<1>2. i <= left'.made
  BY <1>1 DEF Of, Kin
<1>3. cont'[i] # None => cont'[i].cargo = c
  BY DEF Of, Kin, Same
<1>4. QED
  BY <1>2, <1>3 DEF Of

LEMMA KindKept ==
    ASSUME CargoInv, Kin, NEW S \in SUBSET Conts, \A i \in S : i <= left.made
    PROVE  (Initial(S) => Initial(S)') /\ (Regular(S) => Regular(S)')
BY DEF Initial, Regular, Kin, Same

LEMMA FitsKept ==
    ASSUME CargoInv, Kin, CargoInv', Conts' = Conts, NEW c, NEW act, NEW pc,
           NEW todo \in SUBSET Conts, NEW new \in SUBSET Conts, NEW rows,
           Fits(c, act, pc, todo, new, rows)
    PROVE  Fits(c, act, pc, todo, new, rows)'
<1>1. /\ \A i \in todo \cup new : Of(i, c)
      /\ \A i \in Conts : rows[i] # None => Of(i, c)
  BY DEF Fits
<1>2. \A i \in todo \cup new : Of(i, c)'
  BY <1>1, OfKept
<1>3. \A i \in Conts' : rows[i] # None => Of(i, c)'
  BY <1>1, OfKept
<1>4. (\A i \in todo : i <= left.made) /\ (\A i \in new : i <= left.made)
  BY <1>1 DEF Of
<1>5. /\ Regular(new) => Regular(new)'
      /\ Regular(todo) => Regular(todo)'
      /\ Initial(todo) => Initial(todo)'
  BY <1>4, KindKept
<1>6. QED
  BY <1>2, <1>3, <1>5 DEF Fits

LEMMA FrameOf ==
    ASSUME CargoInv, NEW t \in TaskIds, body[t] # None
    PROVE  body[t].todo \subseteq Conts /\ body[t].new \subseteq Conts
BY DEF CargoInv, Locals, GoodFrame, Frames

LEMMA StillSound ==
    ASSUME CargoInv, Kin, CargoInv', Conts' = Conts, NEW u \in TaskIds, Still(u), Sound(u)
    PROVE  Sound(u)'
<1>1. SUFFICES ASSUME body[u] # None
               PROVE  Sound(u)'
  BY DEF Still, Sound
<1>2. PICK c, act, pc, todo, new, rows :
         /\ c = Obj(u) /\ act = task[u].ev.action /\ pc = body[u].pc
         /\ todo = body[u].todo /\ new = body[u].new /\ rows = body[u].rows
  OBVIOUS
<1>3. todo \in SUBSET Conts /\ new \in SUBSET Conts
  BY <1>1, <1>2, FrameOf
<1>4. Fits(c, act, pc, todo, new, rows)
  BY <1>1, <1>2 DEF Sound
<1>5. Fits(c, act, pc, todo, new, rows)'
  BY <1>3, <1>4, FitsKept
<1>6. c = Obj(u)'
  BY <1>2 DEF Still, Obj
<1>7. QED
  BY <1>2, <1>5, <1>6 DEF Still, Sound

(* A body that goes on with lists that fit.                                *)
LEMMA TurnSound ==
    ASSUME CargoInv, Kin, CargoInv', Conts' = Conts, NEW t \in TaskIds, Alone(t),
           NEW pc, NEW todo, NEW new, NEW rows, body'[t] # None,
           body'[t].pc = pc, body'[t].todo = todo, body'[t].new = new, body'[t].rows = rows,
           \/ Fits(Obj(t), task[t].ev.action, pc, todo, new, rows)
           \/ \E c, act : /\ c = Obj(t) /\ act = task[t].ev.action
                          /\ Fits(c, act, pc, todo, new, rows)'
    PROVE  Sound(t)'
<1>1. body'[t].todo \subseteq Conts /\ body'[t].new \subseteq Conts
  BY DEF CargoInv, Locals, GoodFrame, Frames
<1>2. PICK c, act : c = Obj(t) /\ act = task[t].ev.action
  OBVIOUS
<1>3. Fits(c, act, pc, todo, new, rows)'
  BY <1>1, <1>2, FitsKept
<1>4. c = Obj(t)' /\ act = task'[t].ev.action
  BY <1>2 DEF Alone, Obj
<1>5. QED
  BY <1>3, <1>4 DEF Sound

LEMMA ReadFits ==
    ASSUME CargoInv, Matched, Made, NEW c
    PROVE  /\ \A i \in ProcsOf(c) : Of(i, c)
           /\ InstancesOf(c) \subseteq ProcsOf(c) /\ Regular(InstancesOf(c))
           /\ InitsOf(c) \subseteq ProcsOf(c) /\ Initial(InitsOf(c))
<1>1. \A i \in ProcsOf(c) : Of(i, c)
  BY DEF ProcsOf, Of, Matched, Made
<1>2. InstancesOf(c) \subseteq ProcsOf(c) /\ InitsOf(c) \subseteq ProcsOf(c)
  BY DEF InstancesOf, InitsOf
<1>3. Regular(InstancesOf(c))
  BY DEF Regular, InstancesOf, ProcsOf, Matched
<1>4. Initial(InitsOf(c))
  <2>1. \A i \in Conts : cont[i] # None => proc[i].init = cont[i].init
    BY DEF Matched
  <2>2. \A i \in InitsOf(c) : proc[i].init
    BY DEF InitsOf, InstancesOf
  <2>3. InitsOf(c) \subseteq Conts
    BY DEF InitsOf, ProcsOf
  <2>4. QED
    BY <2>1, <2>2, <2>3, Zenon DEF Initial
<1>5. QED
  BY <1>1, <1>2, <1>3, <1>4

LEMMA NothingFits ==
    ASSUME NEW c, NEW act, NEW pc, NEW rows, \A i \in Conts : rows[i] # None => Of(i, c),
           act = "Destroying" => pc \in {"stop", "remove", "end"}
    PROVE  Fits(c, act, pc, {}, {}, rows)
BY DEF Fits, Regular, Initial

(* A list that gets shorter, or becomes that of the instances made.        *)
LEMMA PartFits ==
    ASSUME NEW c, NEW act, NEW pc, NEW todo, NEW new, NEW rows,
           Fits(c, act, pc, todo, new, rows), NEW S \in SUBSET todo
    PROVE  Fits(c, act, pc, S, new, rows)
BY DEF Fits, Regular, Initial

LEMMA EmptyFits ==
    ASSUME NEW c, NEW act, NEW pc, NEW todo, NEW new, NEW rows, NEW q,
           Fits(c, act, pc, todo, new, rows), act # "Destroying" \/ q = "end"
    PROVE  Fits(c, act, q, {}, new, rows)
BY DEF Fits, Regular, Initial

-----------------------------------------------------------------------------
Basis == CargoInv /\ Kin /\ CargoInv' /\ Conts' = Conts /\ Matched /\ Made

LEMMA RunsFits ==
    ASSUME CargoInv, NEW t \in TaskIds, NEW acts, NEW pc, Runs(t, acts, pc), Sound(t)
    PROVE  Fits(Obj(t), task[t].ev.action, pc, body[t].todo, body[t].new, body[t].rows)
BY DEF Runs, Sound

(* The body turns to pc with a list that fits.                             *)
LEMMA TurnsSound ==
    ASSUME Basis, NEW t \in TaskIds, Alone(t), NEW pc, NEW todo, Turns(t, pc, todo),
           Fits(Obj(t), task[t].ev.action, pc, todo, body[t].new, body[t].rows)
    PROVE  Sound(t)'
<1>1. PICK new, rows : new = body[t].new /\ rows = body[t].rows
  OBVIOUS
<1>2. QED
  BY <1>1, TurnSound DEF Turns, GoesOn, Basis

(* ... shorter than the one it had, or empty.                              *)
LEMMA ShrinksSound ==
    ASSUME Basis, NEW t \in TaskIds, Alone(t), NEW acts, NEW pc, Runs(t, acts, pc), Sound(t),
           NEW S \in SUBSET body[t].todo, Turns(t, pc, S)
    PROVE  Sound(t)'
BY RunsFits, PartFits, TurnsSound DEF Basis

LEMMA EmptiesSound ==
    ASSUME Basis, NEW t \in TaskIds, Alone(t), NEW acts, NEW pc, Runs(t, acts, pc), Sound(t),
           NEW q, Turns(t, q, {}), "Destroying" \notin acts \/ q = "end"
    PROVE  Sound(t)'
<1>1. task[t].ev.action # "Destroying" \/ q = "end"
  BY DEF Runs
<1>2. QED
  BY <1>1, RunsFits, EmptyFits, TurnsSound DEF Basis

LEMMA EndedSound ==
    ASSUME NEW t, Ended(t)
    PROVE  Sound(t)'
BY DEF Ended, Sound

LEMMA ReadSound ==
    ASSUME Basis, NEW t \in TaskIds, ReadCargo(t) \/ ReadStop(t) \/ ReadDelete(t)
    PROVE  Sound(t)'
<1>1. CASE ReadCargo(t)
  <2>1. SUFFICES ASSUME body'[t] # None
                 PROVE  Sound(t)'
    BY DEF Sound
  <2>2. PICK rows : rows = body'[t].rows
    OBVIOUS
  <2>3. /\ body'[t].pc = "rows" /\ body'[t].todo = {} /\ body'[t].new = {}
        /\ rows = [i \in Conts |-> None] /\ Alone(t) /\ task[t].ev.action \in Launching
    BY <1>1, <2>1, <2>2, ReadCargoMoves DEF Basis, Ended
  <2>4. Fits(Obj(t), task[t].ev.action, "rows", {}, {}, rows)
    BY <2>3, NothingFits DEF Launching
  <2>5. QED
    BY <2>1, <2>2, <2>3, <2>4, TurnSound DEF Basis
<1>2. CASE ReadStop(t) \/ ReadDelete(t)
  <2>1. PICK rows, pc, todo : rows = body'[t].rows /\ pc = body'[t].pc /\ todo = body'[t].todo
    OBVIOUS
  <2>2. /\ body'[t] # None /\ body'[t].new = {} /\ todo = ProcsOf(Obj(t))
        /\ rows = [i \in Conts |-> None] /\ Alone(t)
        /\ \/ task[t].ev.action = "Stopping" /\ pc = "run"
           \/ task[t].ev.action = "Destroying" /\ pc = "stop"
    BY <1>2, <2>1, ReadProcsMoves DEF Basis
  <2>3. Fits(Obj(t), task[t].ev.action, pc, todo, {}, rows)
    BY <2>2, ReadFits DEF Fits, Regular, Launching, Basis
  <2>4. QED
    BY <2>1, <2>2, <2>3, TurnSound DEF Basis
<1>3. QED
  BY <1>1, <1>2

LEMMA ReadStartSound ==
    ASSUME Basis, NEW t \in TaskIds, Sound(t), ReadStart(t)
    PROVE  Sound(t)'
<1>1. /\ Runs(t, {"Starting"}, "rows") /\ Alone(t)
      /\ \E pc \in {"init", "create", "list"} : Turns(t, pc, InitsOf(Obj(t)))
  BY ReadStartMoves DEF Basis
<1>2. PICK pc \in {"init", "create", "list"} : Turns(t, pc, InitsOf(Obj(t)))
  BY <1>1
<1>3. Fits(Obj(t), task[t].ev.action, "rows", body[t].todo, body[t].new, body[t].rows)
  BY <1>1, RunsFits DEF Basis
<1>4. task[t].ev.action = "Starting"
  BY <1>1 DEF Runs
<1>5. Fits(Obj(t), task[t].ev.action, pc, InitsOf(Obj(t)), body[t].new, body[t].rows)
  BY <1>3, <1>4, ReadFits DEF Fits, Basis
<1>6. QED
  BY <1>1, <1>2, <1>5, TurnsSound

LEMMA ReadUpdateSound ==
    ASSUME Basis, NEW t \in TaskIds, Sound(t), ReadUpdate(t)
    PROVE  Sound(t)'
<1>1. PICK rows, new, todo : /\ rows = [i \in Conts |-> IF i \in ProcsOf(Obj(t)) THEN proc[i] ELSE None]
                             /\ new = body[t].new /\ todo = ProcsOf(Obj(t))
  OBVIOUS
<1>2. /\ Runs(t, {"Updating"}, "rows") /\ Alone(t)
      /\ GoesOn(t, "rename", todo, new, rows)
  BY <1>1, ReadUpdateMoves DEF Basis
<1>3. Fits(Obj(t), task[t].ev.action, "rows", body[t].todo, body[t].new, body[t].rows)
  BY <1>2, RunsFits DEF Basis
<1>4. task[t].ev.action = "Updating"
  BY <1>2 DEF Runs
<1>5. \A i \in Conts : rows[i] # None => Of(i, Obj(t))
  BY <1>1, ReadFits DEF Basis
<1>6. Fits(Obj(t), task[t].ev.action, "rename", todo, new, rows)
  BY <1>1, <1>3, <1>4, <1>5, ReadFits DEF Fits, Basis
<1>7. QED
  BY <1>2, <1>6, TurnSound DEF GoesOn, Basis

LEMMA CreateInitSound ==
    ASSUME Basis, NEW t \in TaskIds, Sound(t), CreateInit(t)
    PROVE  Sound(t)'
<1>1. /\ Runs(t, Launching, "init") /\ Alone(t)
      /\ \/ Grows(Obj(t), TRUE, body[t].spec, 1) /\ Turns(t, "initrun", Fresh(1))
         \/ Ended(t)
         \/ body[t].todo # {} /\ Turns(t, "initrun", {Newest(body[t].todo)})
  BY CreateInitMoves DEF Basis
<1>2. Fits(Obj(t), task[t].ev.action, "init", body[t].todo, body[t].new, body[t].rows)
  BY <1>1, RunsFits DEF Basis
<1>3. task[t].ev.action \in Launching
  BY <1>1 DEF Runs
<1>4. CASE Grows(Obj(t), TRUE, body[t].spec, 1) /\ Turns(t, "initrun", Fresh(1))
  <2>1. PICK c, act, new, rows, todo, spec, yes : 
           /\ c = Obj(t) /\ act = task[t].ev.action /\ new = body[t].new
           /\ rows = body[t].rows /\ todo = Fresh(1) /\ spec = body[t].spec /\ yes = TRUE
    OBVIOUS
  <2>2. new \in SUBSET Conts
    BY <1>1, <2>1, FrameOf DEF Runs, Basis
  <2>3. /\ \A i \in new : Of(i, c)' 
        /\ \A i \in Conts' : rows[i] # None => Of(i, c)'
    BY <1>2, <2>1, <2>2, OfKept DEF Fits, Basis
  <2>4. Regular(new)'
    BY <1>2, <2>1, <2>2, KindKept DEF Fits, Of, Basis
  <2>5. /\ \A i \in todo : i \in Conts /\ i <= left'.made /\ cont'[i] # None
        /\ \A i \in todo : cont'[i].cargo = c /\ cont'[i].init = TRUE
    <3>1. Grows(c, yes, spec, 1) /\ CargoInv
      BY <1>4, <2>1 DEF Basis
    <3>2. /\ Fresh(1) \subseteq Conts
          /\ \A i \in Conts : i \in Fresh(1) <=> i > left.made /\ i <= left'.made
          /\ \A i \in Fresh(1) : cont'[i] # None /\ cont'[i].cargo = c /\ cont'[i].init = yes
      BY <3>1, GrowsIs
    <3>3. QED
      BY <2>1, <3>2
  <2>6. (\A i \in todo : Of(i, c)') /\ Initial(todo)'
    BY <2>5 DEF Of, Initial
  <2>7. Fits(c, act, "initrun", todo, new, rows)'
    BY <1>3, <2>1, <2>3, <2>4, <2>6 DEF Fits, Launching
  <2>8. Turns(t, "initrun", todo)
    BY <1>4, <2>1
  <2>9. QED
    BY <1>1, <2>1, <2>7, <2>8, TurnSound DEF Turns, GoesOn, Basis
<1>5. CASE Ended(t)
  BY <1>5, EndedSound
<1>6. CASE body[t].todo # {} /\ Turns(t, "initrun", {Newest(body[t].todo)})
  <2>1. Newest(body[t].todo) \in body[t].todo
    BY <1>1, <1>6, AtRuns, Acts DEF Basis, Runs, At
  <2>2. PICK S : S = {Newest(body[t].todo)} /\ S \subseteq body[t].todo
    BY <2>1
  <2>3. Fits(Obj(t), task[t].ev.action, "initrun", S, body[t].new, body[t].rows)
    BY <1>2, <1>3, <2>2 DEF Fits, Launching, Initial
  <2>4. QED
    BY <1>1, <1>6, <2>2, <2>3, TurnsSound
<1>7. QED
  BY <1>1, <1>4, <1>5, <1>6

LEMMA InitSound ==
    ASSUME Basis, NEW t \in TaskIds, Sound(t), StartInit(t) \/ WaitInit(t)
    PROVE  Sound(t)'
<1>1. CASE StartInit(t)
  <2>1. /\ Runs(t, Launching, "initrun") /\ Alone(t)
        /\ Ended(t) \/ \E i \in body[t].todo : Turns(t, "initwait", {i})
    BY <1>1, StartInitMoves DEF Basis
  <2>2. Fits(Obj(t), task[t].ev.action, "initrun", body[t].todo, body[t].new, body[t].rows)
    BY <2>1, RunsFits DEF Basis
  <2>3. task[t].ev.action \in Launching
    BY <2>1 DEF Runs
  <2>4. ASSUME NEW i \in body[t].todo, Turns(t, "initwait", {i})
        PROVE  Sound(t)'
    <3>1. Fits(Obj(t), task[t].ev.action, "initwait", {i}, body[t].new, body[t].rows)
      BY <2>2, <2>3 DEF Fits, Launching, Initial
    <3>2. QED
      BY <2>1, <2>4, <3>1, TurnsSound
  <2>5. QED
    BY <2>1, <2>4, EndedSound
<1>2. CASE WaitInit(t)
  <2>1. /\ Runs(t, Launching, "initwait") /\ Alone(t)
        /\ Ended(t) \/ \E pc : Turns(t, pc, {})
    BY <1>2, WaitInitMoves DEF Basis
  <2>2. "Destroying" \notin Launching
    BY DEF Launching
  <2>3. QED
    BY <2>1, <2>2, EndedSound, EmptiesSound
<1>3. QED
  BY <1>1, <1>2

LEMMA CreateInstancesSound ==
    ASSUME Basis, NEW t \in TaskIds, Sound(t), CreateInstances(t)
    PROVE  Sound(t)'
<1>1. /\ Runs(t, Launching, "create") /\ Alone(t)
      /\ \E m \in Nat : /\ Grows(Obj(t), FALSE, body[t].spec, m)
                        /\ Ended(t) \/ GoesOn(t, "list", {}, Fresh(m), body[t].rows)
  BY CreateInstancesMoves DEF Basis
<1>2. Fits(Obj(t), task[t].ev.action, "create", body[t].todo, body[t].new, body[t].rows)
  BY <1>1, RunsFits DEF Basis
<1>3. task[t].ev.action \in Launching
  BY <1>1 DEF Runs
<1>4. PICK m \in Nat : /\ Grows(Obj(t), FALSE, body[t].spec, m)
                       /\ Ended(t) \/ GoesOn(t, "list", {}, Fresh(m), body[t].rows)
  BY <1>1
<1>5. CASE Ended(t)
  BY <1>5, EndedSound
<1>6. CASE GoesOn(t, "list", {}, Fresh(m), body[t].rows)
  <2>1. PICK c, act, rows, new, spec, no : 
           /\ c = Obj(t) /\ act = task[t].ev.action /\ new = Fresh(m)
           /\ rows = body[t].rows /\ spec = body[t].spec /\ no = FALSE
    OBVIOUS
  <2>2. \A i \in Conts' : rows[i] # None => Of(i, c)'
    BY <1>2, <2>1, OfKept DEF Fits, Basis
  <2>3. \A i \in new : i <= left'.made /\ cont'[i] # None /\ cont'[i].cargo = c /\ cont'[i].init = FALSE
    <3>1. Grows(c, no, spec, m) /\ CargoInv
      BY <1>4, <2>1 DEF Basis
    <3>2. /\ Fresh(m) \subseteq Conts
          /\ \A i \in Conts : i \in Fresh(m) <=> i > left.made /\ i <= left'.made
          /\ \A i \in Fresh(m) : cont'[i] # None /\ cont'[i].cargo = c /\ cont'[i].init = no
      BY <3>1, GrowsIs
    <3>3. QED
      BY <2>1, <3>2
  <2>4. (\A i \in new : Of(i, c)') /\ Regular(new)'
    BY <2>3 DEF Of, Regular
  <2>5. Fits(c, act, "list", {}, new, rows)'
    BY <1>3, <2>1, <2>2, <2>4 DEF Fits, Launching
  <2>6. QED
    BY <1>1, <1>6, <2>1, <2>5, TurnSound DEF GoesOn, Basis
<1>7. QED
  BY <1>4, <1>5, <1>6

LEMMA InstanceSound ==
    ASSUME Basis, NEW t \in TaskIds, Sound(t), ListInstances(t) \/ StartInstance(t)
    PROVE  Sound(t)'
<1>1. CASE ListInstances(t)
  <2>1. Runs(t, Launching, "list") /\ Alone(t) /\ Turns(t, "run", InstancesOf(Obj(t)))
    BY <1>1, ListInstancesMoves DEF Basis
  <2>2. Fits(Obj(t), task[t].ev.action, "list", body[t].todo, body[t].new, body[t].rows)
    BY <2>1, RunsFits DEF Basis
  <2>3. task[t].ev.action \in Launching
    BY <2>1 DEF Runs
  <2>4. Fits(Obj(t), task[t].ev.action, "run", InstancesOf(Obj(t)), body[t].new, body[t].rows)
    BY <2>2, <2>3, ReadFits DEF Fits, Launching, Basis
  <2>5. QED
    BY <2>1, <2>4, TurnsSound
<1>2. CASE StartInstance(t)
  <2>1. PICK i \in body[t].todo : /\ Runs(t, Launching, "run") /\ Alone(t)
                                  /\ Turns(t, "run", body[t].todo \ {i})
    BY <1>2, StartInstanceMoves DEF Basis
  <2>2. QED
    BY <2>1, ShrinksSound
<1>3. QED
  BY <1>1, <1>2

LEMMA UndoFits ==
    ASSUME Basis, NEW t \in TaskIds, NEW acts, NEW pc, Runs(t, acts, pc), Sound(t), Alone(t),
           Turns(t, "undo", body[t].new), task[t].ev.action = "Updating"
    PROVE  Sound(t)'
<1>1. Fits(Obj(t), task[t].ev.action, pc, body[t].todo, body[t].new, body[t].rows)
  BY RunsFits DEF Basis
<1>2. Fits(Obj(t), task[t].ev.action, "undo", body[t].new, body[t].new, body[t].rows)
  BY <1>1 DEF Fits
<1>3. QED
  BY <1>2, TurnsSound

LEMMA StartedSound ==
    ASSUME Basis, NEW t \in TaskIds, Sound(t), StartInstanceErr(t) \/ Started(t)
    PROVE  Sound(t)'
<1>1. /\ Runs(t, Launching, "run") /\ Alone(t)
      /\ \/ Ended(t) \/ Turns(t, "end", {}) \/ Turns(t, "final", {})
         \/ Turns(t, "undo", body[t].new) /\ task[t].ev.action = "Updating"
  BY StartInstanceErrMoves, StartedMoves DEF Basis
<1>2. "Destroying" \notin Launching
  BY DEF Launching
<1>3. QED
  BY <1>1, <1>2, EndedSound, EmptiesSound, UndoFits

LEMMA StopOldSound ==
    ASSUME Basis, NEW t \in TaskIds, Sound(t), StopOld(t)
    PROVE  Sound(t)'
<1>1. PICK i \in body[t].todo :
        /\ Runs(t, {"Updating"}, "rename") /\ Alone(t)
        /\ \/ Turns(t, "rename", body[t].todo \ {i})
           \/ \E rows : /\ GoesOn(t, "rename", body[t].todo, body[t].new, rows)
                        /\ \A j \in Conts : rows[j] = None <=> body[t].rows[j] = None
  BY StopOldMoves DEF Basis
<1>2. CASE Turns(t, "rename", body[t].todo \ {i})
  BY <1>1, <1>2, ShrinksSound
<1>3. ASSUME NEW rows, GoesOn(t, "rename", body[t].todo, body[t].new, rows),
             \A j \in Conts : rows[j] = None <=> body[t].rows[j] = None
      PROVE  Sound(t)'
  <2>1. PICK todo, new : todo = body[t].todo /\ new = body[t].new
    OBVIOUS
  <2>2. Fits(Obj(t), task[t].ev.action, "rename", body[t].todo, body[t].new, body[t].rows)
    BY <1>1, RunsFits DEF Basis
  <2>3. Fits(Obj(t), task[t].ev.action, "rename", todo, new, rows)
    BY <1>3, <2>1, <2>2 DEF Fits
  <2>4. QED
    BY <1>1, <1>3, <2>1, <2>3, TurnSound DEF GoesOn, Basis
<1>4. QED
  BY <1>1, <1>2, <1>3

LEMMA RenameSound ==
    ASSUME Basis, NEW t \in TaskIds, Sound(t), RenameOld(t) \/ RenamedAll(t)
    PROVE  Sound(t)'
<1>1. CASE RenameOld(t)
  <2>1. PICK i \in body[t].todo : /\ Runs(t, {"Updating"}, "rename") /\ Alone(t)
                                  /\ Turns(t, "rename", body[t].todo \ {i})
    BY <1>1, RenameOldMoves DEF Basis
  <2>2. QED
    BY <2>1, ShrinksSound
<1>2. CASE RenamedAll(t)
  <2>1. /\ Runs(t, {"Updating"}, "rename") /\ Alone(t)
        /\ Ended(t) \/ \E pc : Turns(t, pc, {})
    BY <1>2, RenamedAllMoves DEF Basis
  <2>2. QED
    BY <2>1, EndedSound, EmptiesSound
<1>3. QED
  BY <1>1, <1>2

LEMMA UndoSound ==
    ASSUME Basis, NEW t \in TaskIds, Sound(t), UndoCreate(t) \/ UndoRename(t)
    PROVE  Sound(t)'
<1>1. CASE UndoCreate(t)
  <2>1. /\ Runs(t, {"Updating"}, "undo") /\ Alone(t)
        /\ \/ Turns(t, "back", {i \in Conts : body[t].rows[i] # None})
           \/ \E i \in body[t].todo : Turns(t, "undo", body[t].todo \ {i})
    BY <1>1, UndoCreateMoves DEF Basis
  <2>2. CASE Turns(t, "back", {i \in Conts : body[t].rows[i] # None})
    <3>1. Fits(Obj(t), task[t].ev.action, "undo", body[t].todo, body[t].new, body[t].rows)
      BY <2>1, RunsFits DEF Basis
    <3>2. Fits(Obj(t), task[t].ev.action, "back", {i \in Conts : body[t].rows[i] # None},
               body[t].new, body[t].rows)
      BY <2>1, <3>1 DEF Fits, Runs
    <3>3. QED
      BY <2>1, <2>2, <3>2, TurnsSound
  <2>3. QED
    BY <2>1, <2>2, ShrinksSound
<1>2. CASE UndoRename(t)
  <2>1. /\ Runs(t, {"Updating"}, "back") /\ Alone(t)
        /\ \/ Turns(t, "final", {})
           \/ \E i \in body[t].todo : Turns(t, "back", body[t].todo \ {i})
    BY <1>2, UndoRenameMoves DEF Basis
  <2>2. CASE Turns(t, "final", {})
    BY <2>1, <2>2, EmptiesSound
  <2>3. CASE \E i \in body[t].todo : Turns(t, "back", body[t].todo \ {i})
    BY <2>1, <2>3, ShrinksSound
  <2>4. QED
    BY <2>1, <2>2, <2>3
<1>3. QED
  BY <1>1, <1>2

LEMMA LastSound ==
    ASSUME Basis, NEW t \in TaskIds, Sound(t),
           Updated(t) \/ Stopped(t) \/ StopInstance(t) \/ End(t) \/ OnError(t)
    PROVE  Sound(t)'
<1>1. CASE Updated(t) \/ Stopped(t)
  <2>1. /\ Runs(t, {"Updating"}, "final") \/ Runs(t, {"Stopping"}, "run")
        /\ Alone(t) /\ (Ended(t) \/ Turns(t, "end", {}))
    BY <1>1, LastMoves DEF Basis
  <2>2. QED
    BY <2>1, EndedSound, EmptiesSound
<1>2. CASE StopInstance(t)
  <2>1. PICK i \in body[t].todo : /\ Runs(t, {"Stopping"}, "run") /\ Alone(t)
                                  /\ Ended(t) \/ Turns(t, "run", body[t].todo \ {i})
    BY <1>2, StopInstanceMoves DEF Basis
  <2>2. QED
    BY <2>1, EndedSound, ShrinksSound
<1>3. CASE End(t) \/ OnError(t)
  BY <1>3, EndMoves, EndedSound DEF Basis
<1>4. QED
  BY <1>1, <1>2, <1>3

LEMMA DeleteSound ==
    ASSUME Basis, NEW t \in TaskIds, Sound(t), DeleteStop(t) \/ DeleteRemove(t) \/ Clear(t)
    PROVE  Sound(t)'
<1>1. CASE DeleteStop(t)
  <2>1. Runs(t, {"Destroying"}, "stop") /\ Alone(t) /\ Turns(t, "remove", body[t].todo)
    BY <1>1, DeleteStopMoves DEF Basis
  <2>2. Fits(Obj(t), task[t].ev.action, "stop", body[t].todo, body[t].new, body[t].rows)
    BY <2>1, RunsFits DEF Basis
  <2>3. Fits(Obj(t), task[t].ev.action, "remove", body[t].todo, body[t].new, body[t].rows)
    BY <2>2 DEF Fits
  <2>4. QED
    BY <2>1, <2>3, TurnsSound
<1>2. CASE DeleteRemove(t)
  <2>1. PICK i \in body[t].todo : /\ Runs(t, {"Destroying"}, "remove") /\ Alone(t)
                                  /\ Turns(t, "stop", body[t].todo \ {i})
    BY <1>2, DeleteRemoveMoves DEF Basis
  <2>2. Fits(Obj(t), task[t].ev.action, "remove", body[t].todo, body[t].new, body[t].rows)
    BY <2>1, RunsFits DEF Basis
  <2>3. task[t].ev.action = "Destroying"
    BY <2>1 DEF Runs
  <2>4. Fits(Obj(t), task[t].ev.action, "stop", body[t].todo \ {i}, body[t].new, body[t].rows)
    BY <2>2, <2>3 DEF Fits, Launching
  <2>5. QED
    BY <2>1, <2>4, TurnsSound
<1>3. CASE Clear(t)
  <2>1. Runs(t, {"Destroying"}, "stop") /\ Alone(t) /\ (Ended(t) \/ Turns(t, "end", {}))
    BY <1>3, ClearMoves DEF Basis
  <2>2. QED
    BY <2>1, EndedSound, EmptiesSound
<1>4. QED
  BY <1>1, <1>2, <1>3

LEMMA TaskSound ==
    ASSUME Basis, NEW t \in TaskIds, Sound(t), TaskStep(t)
    PROVE  Sound(t)'
BY ReadSound, ReadStartSound, ReadUpdateSound, CreateInitSound, InitSound, CreateInstancesSound,
   InstanceSound, StartedSound, StopOldSound, RenameSound, UndoSound, LastSound, DeleteSound
   DEF TaskStep

(* Which tasks go on, and with which event.                                *)
LEMMA AwaitedStill ==
    ASSUME CargoInv, Awaited, NEW u \in TaskIds, body'[u] # None
    PROVE  Still(u)
<1>1. body[u] # None /\ body'[u] = body[u]
  BY DEF Awaited
<1>2. task[u].phase = "body"
  BY <1>1 DEF CargoInv, Locals
<1>3. task[u] # TM!Done
  BY <1>2 DEF TM!Done
<1>4. QED
  BY <1>1, <1>3 DEF Awaited, Still

LEMMA SoundKept ==
    ASSUME Basis, [Next]_vars, \A u \in TaskIds : Sound(u)
    PROVE  \A u \in TaskIds : Sound(u)'
<1>1. CASE Outer \/ DockerStep
  <2>1. Awaited /\ CargoInv
    BY <1>1, OuterMoves, DockerMoves DEF Basis
  <2>2. ASSUME NEW u \in TaskIds, body'[u] # None
        PROVE  Sound(u)'
    BY <2>1, <2>2, AwaitedStill, StillSound DEF Basis
  <2>3. QED
    BY <2>2 DEF Sound
<1>2. ASSUME NEW t \in TaskIds, TaskStep(t)
      PROVE  \A u \in TaskIds : Sound(u)'
  <2>1. \A u \in TaskIds : u # t => Still(u)
    BY <1>2, TaskDocks DEF Alone, Basis
  <2>2. QED
    BY <1>2, <2>1, TaskSound, StillSound DEF Basis
<1>3. QED
  BY <1>1, <1>2, Steps

-----------------------------------------------------------------------------
(* The rest of the invariant that holds whatever was asked.                *)
LEMMA MatchedKept ==
    ASSUME Basis
    PROVE  Matched'
<1>1. \A i \in Conts : cont'[i] # None => proc'[i] # None
  BY DEF Basis, CargoInv, RowPerContainer
<1>2. ASSUME NEW i \in Conts, cont'[i] # None
      PROVE  proc'[i].cargo = cont'[i].cargo /\ proc'[i].init = cont'[i].init
  <2>1. left.made \in Nat /\ i \in Nat
    BY Numbers DEF Basis
  <2>2. CASE i <= left.made
    BY <1>1, <1>2, <2>2 DEF Basis, Kin, Same, Matched
  <2>3. CASE i > left.made
    BY <1>2, <2>3 DEF Basis, Kin
  <2>4. QED
    BY <2>1, <2>2, <2>3
<1>3. QED
  BY <1>2 DEF Matched, Basis

LEMMA MadeKept ==
    ASSUME Basis, [Next]_vars, \A u \in TaskIds : Sound(u)
    PROVE  Made'
<1>1. left.made \in Nat /\ left'.made \in Nat /\ Conts \subseteq Nat /\ left'.made >= left.made
      /\ doomed \subseteq Conts
  BY Numbers DEF Basis, CargoInv, Bounds, Kin, Callers
<1>2. \A i \in Conts : proc'[i] # None => i <= left'.made
  BY <1>1 DEF Basis, Kin, Made
<1>3. \A i \in doomed' : i \in doomed \/ (i \in Conts /\ i <= left.made)
  <2>1. CASE Outer \/ DockerStep
    BY <2>1, OuterMoves, DockerMoves DEF Basis
  <2>2. ASSUME NEW t \in TaskIds, TaskStep(t)
        PROVE  \A i \in doomed' : i \in doomed \/ (i \in Conts /\ i <= left.made)
    <3>1. doomed' = doomed \/ Started(t)
      BY <2>2, TaskDocks DEF Basis
    <3>2. CASE Started(t)
      <4>1. \A i \in doomed' : i \in doomed \/ (i \in Conts /\ body[t].rows[i] # None)
        BY <3>2, StartedMoves DEF Basis
      <4>2. body[t] # None
        BY <3>2 DEF Started, At
      <4>3. \A i \in Conts : body[t].rows[i] # None => i <= left.made
        BY <4>2 DEF Sound, Fits, Of
      <4>4. QED
        BY <4>1, <4>3
    <3>3. QED
      BY <3>1, <3>2
  <2>3. QED
    BY <2>1, <2>2, Steps
<1>4. \A i \in doomed' : i \in Nat /\ i <= left.made
  BY <1>1, <1>3 DEF Basis, Made
<1>5. \A i \in doomed' : i <= left'.made
  BY <1>1, <1>4
<1>6. QED
  BY <1>2, <1>5 DEF Made, Basis

(* What docker tells of later is of what it was asked about.               *)
Stays(i, c) == i <= left'.made /\ (cont'[i] # None => cont'[i].cargo = c)

LEMMA StaysOf ==
    ASSUME Basis, NEW i \in Conts, NEW c, Of(i, c)
    PROVE  Stays(i, c)
BY OfKept DEF Basis, Stays, Of

LEMMA EventsStay ==
    ASSUME Basis, EventsMatch
    PROVE  /\ \A n \in DOMAIN dq : Stays(dq[n].id, dq[n].cargo)
           /\ dh # None => Stays(dh.ev.id, dh.ev.cargo)
<1>1. dq \in Seq(DockerEvents(Conts))
  BY DEF Basis, CargoInv, Tables
<1>2. \A n \in DOMAIN dq : dq[n] \in DockerEvents(Conts)
  BY <1>1
<1>3. \A n \in DOMAIN dq : dq[n].id \in Conts
  BY <1>2 DEF DockerEvents
<1>4. dh # None => dh.ev.id \in Conts
  BY DEF Basis, CargoInv, Tables, DockerEvents
<1>5. QED
  BY <1>3, <1>4, StaysOf DEF EventsMatch

LEMMA SaysStay ==
    ASSUME /\ \A n \in DOMAIN dq' : Stays(dq'[n].id, dq'[n].cargo)
           /\ dh' # None => Stays(dh'.ev.id, dh'.ev.cargo)
    PROVE  EventsMatch'
BY DEF EventsMatch, Stays, Of

LEMMA StruckEvents ==
    ASSUME Basis, EventsMatch, NEW i \in Conts, Struck(i)
    PROVE  EventsMatch'
<1>1. /\ cont[i] # None /\ Extends(dq') /\ About(dq', i, cont[i].cargo) /\ dh' = dh
  BY DEF Struck, Steers, Drives, Tells
<1>2. PICK c : c = cont[i].cargo
  OBVIOUS
<1>3. ~(i > left.made) /\ i \in Nat /\ left.made \in Nat
  BY <1>1, Numbers DEF Basis, CargoInv, Gone
<1>4. Of(i, c)
  BY <1>2, <1>3 DEF Of
<1>5. Stays(i, c)
  BY <1>4, StaysOf
<1>6. ASSUME NEW n \in DOMAIN dq'
      PROVE  Stays(dq'[n].id, dq'[n].cargo)
  <2>1. CASE n \in DOMAIN dq
    <3>1. dq'[n] = dq[n]
      BY <1>1, <2>1 DEF Extends
    <3>2. QED
      BY <2>1, <3>1, EventsStay
  <2>2. CASE dq'[n].id = i /\ dq'[n].cargo = c
    BY <1>5, <2>2
  <2>3. QED
    BY <1>1, <1>2, <2>1, <2>2 DEF About
<1>7. dh' # None => Stays(dh'.ev.id, dh'.ev.cargo)
  BY <1>1, EventsStay
<1>8. QED
  BY <1>6, <1>7, SaysStay

LEMMA SameEvents ==
    ASSUME Basis, EventsMatch, UNCHANGED <<dq, dh>>
    PROVE  EventsMatch'
BY EventsStay, SaysStay

(* The analyser takes the first event in its hand.                         *)
LEMMA RecvIs ==
    ASSUME CargoInv, DockerRecv
    PROVE  /\ DOMAIN dq = 1..Len(dq) /\ Len(dq) \in Nat /\ 1 \in DOMAIN dq
           /\ DOMAIN dq' = 1..(Len(dq) - 1)
           /\ \A n \in DOMAIN dq' : n + 1 \in DOMAIN dq /\ dq'[n] = dq[n + 1]
           /\ dh = None
           /\ \/ /\ dq[1].type = "destroy" /\ proc' = [proc EXCEPT ![dq[1].id] = None]
                 /\ dh' = None
              \/ /\ dq[1].type # "destroy" /\ proc' = proc
                 /\ \/ dh' = None /\ ~Exists(dq[1].cargo)
                    \/ dh' # None /\ dh'.ev = dq[1]
<1>1. dq \in Seq(DockerEvents(Conts)) /\ dq # <<>> /\ dq' = Tail(dq) /\ Head(dq) = dq[1]
  BY DEF CargoInv, Tables, DockerRecv
<1>2. /\ DOMAIN dq = 1..Len(dq) /\ Len(dq) \in Nat /\ Len(dq) # 0
      /\ DOMAIN dq' = 1..(Len(dq) - 1)
      /\ \A n \in 1..(Len(dq) - 1) : dq'[n] = dq[n + 1]
  BY <1>1
<1>3. \A n \in DOMAIN dq' : n + 1 \in DOMAIN dq /\ dq'[n] = dq[n + 1]
  BY <1>2
<1>4. 1 \in DOMAIN dq
  BY <1>2
<1>5. dh = None
  BY DEF DockerRecv
<1>6. \A pc : Handle(dq[1], pc) # None /\ Handle(dq[1], pc).ev = dq[1]
  BY DEF Handle, None
<1>7. CASE dq[1].type = "destroy"
  <2>1. proc' = [proc EXCEPT ![dq[1].id] = None] /\ dh' = None
    BY <1>1, <1>5, <1>7 DEF DockerRecv
  <2>2. QED
    BY <1>2, <1>3, <1>4, <1>5, <1>7, <2>1
<1>8. CASE dq[1].type # "destroy"
  <2>1. proc' = proc
    BY <1>1, <1>8 DEF DockerRecv
  <2>2. (dh' = None /\ ~Exists(dq[1].cargo)) \/ \E pc : dh' = Handle(dq[1], pc)
    BY <1>1, <1>8 DEF DockerRecv
  <2>3. QED
    BY <1>2, <1>3, <1>4, <1>5, <1>6, <1>8, <2>1, <2>2
<1>9. QED
  BY <1>7, <1>8

LEMMA WriteIs ==
    ASSUME CargoInv, DockerWrite
    PROVE  /\ dh # None /\ UNCHANGED <<dq, proc>>
           /\ \/ dh' = None /\ ~Exists(dh.ev.cargo)
              \/ dh' # None /\ dh'.ev = dh.ev
<1>1. dh \in [st : {"run"}, pc : {"write", "sync"}, ev : DockerEvents(Conts)]
  BY DEF CargoInv, Tables, DockerWrite
<1>2. PICK h : h = [dh EXCEPT !.pc = "sync"]
  OBVIOUS
<1>3. h.ev = dh.ev /\ h \in [st : {"run"}, pc : {"write", "sync"}, ev : DockerEvents(Conts)]
  BY <1>1, <1>2
<1>4. h # None
  BY <1>3 DEF None
<1>5. QED
  BY <1>2, <1>3, <1>4 DEF DockerWrite, dockerVars

LEMMA DockerEventsMatch ==
    ASSUME Basis, EventsMatch, DockerStep
    PROVE  EventsMatch'
<1>1. CASE DockerRecv
  <2>1. /\ \A n \in DOMAIN dq' : n + 1 \in DOMAIN dq /\ dq'[n] = dq[n + 1]
        /\ 1 \in DOMAIN dq /\ (dh' # None => dh'.ev = dq[1])
    BY <1>1, RecvIs DEF Basis
  <2>2. \A n \in DOMAIN dq' : Stays(dq'[n].id, dq'[n].cargo)
    BY <2>1, EventsStay
  <2>3. dh' # None => Stays(dh'.ev.id, dh'.ev.cargo)
    BY <2>1, EventsStay
  <2>4. QED
    BY <2>2, <2>3, SaysStay
<1>2. CASE DockerWrite
  <2>1. dq' = dq /\ dh # None /\ (dh' # None => dh'.ev = dh.ev)
    BY <1>2, WriteIs DEF Basis
  <2>2. QED
    BY <2>1, EventsStay, SaysStay
<1>3. CASE DockerSync
  <2>1. dq' = dq /\ dh' = None
    BY <1>3 DEF DockerSync, dockerVars
  <2>2. QED
    BY <2>1, EventsStay, SaysStay
<1>4. QED
  BY <1>1, <1>2, <1>3 DEF DockerStep

LEMMA EventsMatchKept ==
    ASSUME Basis, [Next]_vars, EventsMatch
    PROVE  EventsMatch'
<1>1. CASE Outer
  <2>1. \/ UNCHANGED <<dq, dh>>
        \/ \E i \in Conts : Struck(i)
    BY <1>1, OuterMoves DEF Basis, Silent, Dropped
  <2>2. QED
    BY <2>1, SameEvents, StruckEvents
<1>2. ASSUME NEW t \in TaskIds, TaskStep(t)
      PROVE  EventsMatch'
  <2>1. \/ UNCHANGED <<dq, dh>>
        \/ \E i \in Conts : Struck(i)
    BY <1>2, TaskDocks DEF Basis, Docks, Silent, Dropped, Adds, Grows
  <2>2. QED
    BY <2>1, SameEvents, StruckEvents
<1>3. QED
  BY <1>1, <1>2, Steps, DockerEventsMatch

LEMMA SpentKept ==
    ASSUME Basis, Wanes, Spent
    PROVE  /\ Spent'
           /\ NoCrash' => NoCrash /\ left'.crashes = left.crashes
           /\ Tidy' => Tidy
           /\ Faultless' => Faultless /\ left'.fails = left.fails
<1>1. /\ {left.fails, left.crashes, left'.fails, left'.crashes} \subseteq Nat
      /\ left.w \in Worlds
  BY DEF Basis, CargoInv, Bounds
<1>2. {left.w.fails, left.w.crashes} \subseteq Nat
  BY <1>1, ConstAssumption
<1>3. Spent' /\ (NoCrash' => NoCrash /\ left'.crashes = left.crashes)
  BY <1>1, <1>2 DEF Wanes, Spent, NoCrash
<1>4. Faultless' => Faultless /\ left'.fails = left.fails
  BY <1>1, <1>2 DEF Wanes, Spent, Faultless
<1>5. NoDelete' => NoDelete
  BY DEF Wanes, NoDelete
<1>6. QED
  BY <1>3, <1>4, <1>5 DEF Tidy

LEMMA OneAtATime ==
    ASSUME CargoInv, NEW t \in TaskIds, NEW u \in TaskIds, body[t] # None, body[u] # None,
           Obj(t) = Obj(u), Obj(t) \in Cargoes
    PROVE  t = u
<1>1. task[t].phase = "body" /\ task[u].phase = "body"
  BY DEF CargoInv, Locals
<1>2. QED
  BY <1>1 DEF CargoInv, TMP!IInv, TMP!MapTracksBodies, TMP!Body, Obj

LEMMA HasCargo ==
    ASSUME CargoInv, NEW t \in TaskIds, body[t] # None, task[t].ev.action \in TM!TaskActions
    PROVE  Obj(t) \in Cargoes
<1>1. task[t].phase = "body" /\ TM!TypeOK
  BY TmTyped DEF CargoInv, Locals
<1>2. QED
  BY <1>1, RunsCargo DEF Obj

LEMMA AliveKept ==
    ASSUME Basis, [Next]_vars, Alive
    PROVE  Alive'
<1>1. ASSUME NEW u \in TaskIds, Still(u), Launches(u)', RowsStay
      PROVE  Exists(Obj(u))'
  <2>1. PICK c : c = Obj(u)
    OBVIOUS
  <2>2. Launches(u) /\ c = Obj(u)'
    BY <1>1, <2>1 DEF Launches, Still, Obj
  <2>3. c \in Cargoes /\ Exists(c)
    BY <2>1, <2>2, HasCargo, Acts DEF Alive, Launches, Basis
  <2>4. Exists(c)'
    BY <1>1, <2>3 DEF RowsStay
  <2>5. QED
    BY <2>2, <2>4 DEF Exists
<1>2. CASE Outer \/ DockerStep
  <2>1. Awaited /\ RowsStay /\ CargoInv
    BY <1>2, OuterMoves, DockerMoves DEF Basis
  <2>2. QED
    BY <1>1, <2>1, AwaitedStill DEF Alive, Launches
<1>3. ASSUME NEW t \in TaskIds, TaskStep(t), NEW u \in TaskIds, Launches(u)'
      PROVE  Exists(Obj(u))'
  <2>1. CASE Clear(t)
    <3>1. /\ Runs(t, {"Destroying"}, "stop") /\ Alone(t)
          /\ \A c \in Cargoes : c # Obj(t) /\ Exists(c) => Exists(c)'
      BY <2>1, ClearMoves DEF Basis
    <3>2. u # t
      BY <1>3, <3>1 DEF Runs, Alone, Launches, Launching
    <3>3. PICK c : c = Obj(u)
      OBVIOUS
    <3>4. Still(u) /\ Launches(u) /\ c = Obj(u)'
      BY <1>3, <3>1, <3>2, <3>3 DEF Alone, Launches, Still, Obj
    <3>5. c \in Cargoes /\ Exists(c)
      BY <3>3, <3>4, HasCargo, Acts DEF Alive, Launches, Basis
    <3>6. c # Obj(t)
      BY <3>1, <3>2, <3>3, <3>4, <3>5, OneAtATime DEF Launches, Runs, Basis
    <3>7. Exists(c)'
      BY <3>1, <3>5, <3>6
    <3>8. QED
      BY <3>4, <3>7 DEF Exists
  <2>2. CASE ~Clear(t)
    <3>1. Alone(t) /\ RowsStay
      BY <1>3, <2>2, TaskDocks DEF Basis
    <3>2. CASE u # t
      BY <1>1, <1>3, <3>1, <3>2 DEF Alone
    <3>3. CASE u = t
      <4>1. body'[t] # None /\ task'[t] = task[t] /\ task[t].ev.action \in Launching
        BY <1>3, <3>1, <3>3 DEF Launches, Alone
      <4>2. CASE body[t] # None
        <5>1. PICK c : c = Obj(t)
          OBVIOUS
        <5>2. c \in Cargoes /\ Exists(c) /\ c = Obj(t)'
          BY <4>1, <4>2, <5>1, HasCargo, Acts DEF Alive, Launches, Basis, Obj
        <5>3. Exists(c)'
          BY <3>1, <5>2 DEF RowsStay
        <5>4. QED
          BY <3>3, <5>2, <5>3 DEF Exists
      <4>3. CASE body[t] = None
        <5>1. ReadCargo(t) \/ ReadStop(t) \/ ReadDelete(t) \/ OnError(t)
          BY <1>3, <4>3 DEF TaskStep, At, ReadStart, CreateInit, StartInit, WaitInit,
             CreateInstances, ListInstances, StartInstance, StartInstanceErr, Started, ReadUpdate,
             StopOld, RenameOld, RenamedAll, UndoCreate, UndoRename, Updated, StopInstance,
             Stopped, DeleteStop, DeleteRemove, Clear, End
        <5>2. ReadCargo(t)
          BY <4>1, <5>1, EndMoves DEF ReadStop, ReadDelete, Reads, Launching, Ended, Basis
        <5>3. Obj(t) \in Cargoes /\ Exists(Obj(t))
          BY <4>1, <5>2, ReadCargoMoves DEF Basis, Ended
        <5>4. PICK c : c = Obj(t)
          OBVIOUS
        <5>5. Exists(c)' /\ c = Obj(t)'
          BY <3>1, <4>1, <5>3, <5>4 DEF RowsStay, Obj
        <5>6. QED
          BY <3>3, <5>5 DEF Exists
      <4>4. QED
        BY <4>2, <4>3
    <3>4. QED
      BY <3>2, <3>3
  <2>3. QED
    BY <2>1, <2>2
<1>4. QED
  BY <1>2, <1>3, Steps DEF Alive

-----------------------------------------------------------------------------
(* As long as no instance crashed.                                         *)
Crashes(i) == cont'[i] # None /\ cont'[i].st = "crashed"

LEMMA TaskCrashes ==
    ASSUME CargoInv, NEW t \in TaskIds, TaskStep(t), NEW i \in Conts, Crashes(i)
    PROVE  cont[i] # None /\ cont[i].st = "crashed"
<1>1. CASE Silent
  BY <1>1 DEF Silent, Crashes
<1>2. ASSUME NEW j \in Conts, Struck(j), Hits(t, j)
      PROVE  cont[i] # None /\ cont[i].st = "crashed"
  <2>1. cont[j] # None /\ \A k \in Conts : k # j => cont'[k] = cont[k]
    BY <1>2 DEF Struck, Steers, Drives
  <2>2. QED
    BY <1>2, <2>1 DEF Hits, Crashes
<1>3. ASSUME NEW j \in Conts, Dropped(j)
      PROVE  cont[i] # None /\ cont[i].st = "crashed"
  BY <1>3 DEF Dropped, Crashes
<1>4. ASSUME NEW c, NEW init, NEW spec, NEW m, Grows(c, init, spec, m)
      PROVE  cont[i] # None /\ cont[i].st = "crashed"
  BY <1>4, GrowsIs DEF Crashes
<1>5. QED
  BY <1>1, <1>2, <1>3, <1>4, TaskDocks DEF Docks, Adds

LEMMA OuterCrashes ==
    ASSUME CargoInv, Outer, left'.crashes = left.crashes, NEW i \in Conts, Crashes(i)
    PROVE  cont[i] # None /\ cont[i].st = "crashed"
<1>1. CASE UNCHANGED cont
  BY <1>1 DEF Crashes
<1>2. ASSUME NEW j \in Conts, Struck(j), Outlet(j)
      PROVE  cont[i] # None /\ cont[i].st = "crashed"
  <2>1. cont[j] # None /\ \A k \in Conts : k # j => cont'[k] = cont[k]
    BY <1>2 DEF Struck, Steers, Drives
  <2>2. ~(left'.crashes < left.crashes)
    BY DEF CargoInv, Bounds
  <2>3. ~Crashes(j)
    BY <1>2, <2>2 DEF Outlet, Crashes
  <2>4. QED
    BY <1>2, <2>1, <2>3 DEF Crashes
<1>3. QED
  BY <1>1, <1>2, OuterMoves DEF Silent, Dropped

LEMMA RowsUncrashed ==
    ASSUME Basis, [Next]_vars, NoCrash, NoCrash', left'.crashes = left.crashes, Uncrashed
    PROVE  /\ \A i \in Conts : cont'[i] # None => cont'[i].st # "crashed"
           /\ \A i \in Conts : proc'[i] # None => proc'[i].st # "crashed"
<1>1. \A i \in Conts : cont'[i] # None => cont'[i].st # "crashed"
  <2>1. CASE DockerStep
    BY <2>1, DockerMoves DEF Uncrashed, Basis
  <2>2. QED
    BY <2>1, TaskCrashes, OuterCrashes, Steps DEF Crashes, Uncrashed, Basis
<1>2. CASE \A i \in Conts : proc'[i] = None \/ proc'[i] = proc[i]
  BY <1>1, <1>2 DEF Uncrashed
<1>3. CASE DockerStep
  BY <1>1, <1>3, DockerRows DEF Uncrashed, Basis
<1>4. CASE Outer
  <2>1. \/ proc' = proc
        \/ \E i \in Conts : proc' = [proc EXCEPT ![i] = None]
    BY <1>4, OuterMoves DEF Basis, Silent, Struck, Dropped
  <2>2. QED
    BY <1>2, <2>1 DEF Basis, CargoInv, Tables
<1>5. ASSUME NEW t \in TaskIds, TaskStep(t)
      PROVE  \A i \in Conts : proc'[i] # None => proc'[i].st # "crashed"
  <2>1. \/ proc' = proc
        \/ \E i \in Conts : proc' = [proc EXCEPT ![i] = None]
        \/ \E c, init, spec, m : Grows(c, init, spec, m)
    BY <1>5, TaskDocks DEF Basis, Docks, Silent, Struck, Dropped, Adds
  <2>2. CASE proc' = proc \/ \E i \in Conts : proc' = [proc EXCEPT ![i] = None]
    BY <1>2, <2>2 DEF Basis, CargoInv, Tables
  <2>3. ASSUME NEW c, NEW init, NEW spec, NEW m, Grows(c, init, spec, m)
        PROVE  \A i \in Conts : proc'[i] # None => proc'[i].st # "crashed"
    BY <2>3, GrowsIs DEF Uncrashed, Basis
  <2>4. QED
    BY <2>1, <2>2, <2>3
<1>6. QED
  BY <1>1, <1>3, <1>4, <1>5, Steps

(* The rows a task read.                                                   *)
Recalls(t) ==
    \/ body[t] # None /\ \A i \in Conts : body'[t].rows[i] # None =>
          body[t].rows[i] # None /\ (body'[t].rows[i].st = "crashed" => body[t].rows[i].st = "crashed")
    \/ \A i \in Conts : body'[t].rows[i] # None => body'[t].rows[i] = proc[i]

LEMMA SameRecalls ==
    ASSUME NEW t, NEW pc, NEW todo, NEW new, GoesOn(t, pc, todo, new, body[t].rows)
    PROVE  Recalls(t)
BY DEF GoesOn, Recalls

LEMMA TurnsRecalls ==
    ASSUME NEW t, NEW pc, NEW todo, Turns(t, pc, todo)
    PROVE  Recalls(t)
BY DEF Turns, GoesOn, Recalls

LEMMA TaskRecalls ==
    ASSUME CargoInv, NEW t \in TaskIds, TaskStep(t), body'[t] # None
    PROVE  Recalls(t)
<1>1. CASE ReadCargo(t) \/ ReadStop(t) \/ ReadDelete(t)
  <2>1. body'[t].rows = [i \in Conts |-> None]
    BY <1>1, ReadCargoMoves, ReadProcsMoves DEF Ended
  <2>2. QED
    BY <2>1 DEF Recalls
<1>2. CASE ReadStart(t) \/ CreateInit(t) \/ StartInit(t) \/ WaitInit(t)
  <2>1. \E pc, todo : Turns(t, pc, todo)
    BY <1>2, ReadStartMoves, CreateInitMoves, StartInitMoves, WaitInitMoves DEF Ended
  <2>2. QED
    BY <2>1, TurnsRecalls
<1>3. CASE CreateInstances(t)
  BY <1>3, CreateInstancesMoves, SameRecalls DEF Ended
<1>4. CASE ListInstances(t) \/ StartInstance(t) \/ StartInstanceErr(t) \/ Started(t)
  <2>1. \E pc, todo : Turns(t, pc, todo)
    BY <1>4, ListInstancesMoves, StartInstanceMoves, StartInstanceErrMoves, StartedMoves DEF Ended
  <2>2. QED
    BY <2>1, TurnsRecalls
<1>5. CASE ReadUpdate(t)
  <2>1. body'[t].rows = [i \in Conts |-> IF i \in ProcsOf(Obj(t)) THEN proc[i] ELSE None]
    BY <1>5, ReadUpdateMoves DEF GoesOn
  <2>2. QED
    BY <2>1 DEF Recalls
<1>6. CASE StopOld(t)
  <2>1. \/ \E todo : Turns(t, "rename", todo)
        \/ \E rows : /\ body[t] # None /\ body'[t].rows = rows
                     /\ \A j \in Conts : /\ rows[j] = None <=> body[t].rows[j] = None
                                         /\ rows[j].st = "crashed" => body[t].rows[j].st = "crashed"
    BY <1>6, StopOldMoves DEF GoesOn
  <2>2. QED
    BY <2>1, TurnsRecalls DEF Recalls
<1>7. CASE RenameOld(t) \/ RenamedAll(t) \/ UndoCreate(t) \/ UndoRename(t)
  <2>1. \E pc, todo : Turns(t, pc, todo)
    BY <1>7, RenameOldMoves, RenamedAllMoves, UndoCreateMoves, UndoRenameMoves DEF Ended
  <2>2. QED
    BY <2>1, TurnsRecalls
<1>8. CASE Updated(t) \/ StopInstance(t) \/ Stopped(t)
  <2>1. \E pc, todo : Turns(t, pc, todo)
    BY <1>8, LastMoves, StopInstanceMoves DEF Ended
  <2>2. QED
    BY <2>1, TurnsRecalls
<1>9. CASE DeleteStop(t) \/ DeleteRemove(t) \/ Clear(t)
  <2>1. \E pc, todo : Turns(t, pc, todo)
    BY <1>9, DeleteStopMoves, DeleteRemoveMoves, ClearMoves DEF Ended
  <2>2. QED
    BY <2>1, TurnsRecalls
<1>10. CASE End(t) \/ OnError(t)
  BY <1>10, EndMoves DEF Ended
<1>11. QED
  BY <1>1, <1>2, <1>3, <1>4, <1>5, <1>6, <1>7, <1>8, <1>9, <1>10 DEF TaskStep

LEMMA UncrashedKept ==
    ASSUME Basis, [Next]_vars, Wanes, Spent, Uncrashed
    PROVE  Uncrashed'
<1>1. SUFFICES ASSUME NoCrash'
               PROVE  Uncrashed'
  BY DEF Uncrashed
<1>2. NoCrash /\ left'.crashes = left.crashes
  BY <1>1, SpentKept
<1>3. /\ \A i \in Conts : cont'[i] # None => cont'[i].st # "crashed"
      /\ \A i \in Conts : proc'[i] # None => proc'[i].st # "crashed"
  BY <1>1, <1>2, RowsUncrashed
<1>4. ASSUME NEW u \in TaskIds, body'[u] # None, NEW i \in Conts, body'[u].rows[i] # None
      PROVE  body'[u].rows[i].st # "crashed"
  <2>1. CASE body'[u] = body[u]
    BY <1>2, <1>4, <2>1 DEF Uncrashed
  <2>2. ASSUME TaskStep(u)
        PROVE  body'[u].rows[i].st # "crashed"
    <3>1. Recalls(u)
      BY <1>4, <2>2, TaskRecalls DEF Basis
    <3>2. QED
      BY <1>2, <1>4, <3>1 DEF Recalls, Uncrashed
  <2>3. body'[u] = body[u] \/ TaskStep(u)
    <3>1. CASE Outer \/ DockerStep
      BY <3>1, OuterMoves, DockerMoves DEF Awaited, Basis
    <3>2. ASSUME NEW t \in TaskIds, TaskStep(t)
          PROVE  body'[u] = body[u] \/ TaskStep(u)
      BY <3>2, TaskDocks DEF Alone, Still, Basis
    <3>3. QED
      BY <3>1, <3>2, Steps
  <2>4. QED
    BY <2>1, <2>2, <2>3
<1>5. QED
  BY <1>3, <1>4 DEF Uncrashed, Basis

-----------------------------------------------------------------------------
(* Events and requests are there because someone asked for them.           *)
Meant(a) ==
    /\ a = "Destroying" => ~NoDelete
    /\ a = "Stopping" => "stop" \in left.seen

Means(a) ==
    /\ a = "Destroying" => left'.seen \cap {"delete", "force"} # {}
    /\ a = "Stopping" => "stop" \in left'.seen

Heard ==
    /\ \A n \in DOMAIN queue : Meant(queue[n].action)
    /\ loop.pc # "recv" => Meant(loop.ev.action)
    /\ \A t \in TaskIds : task[t] # TM!Done => Meant(task[t].ev.action)

Asked == \A k \in Clients : req[k] # None => req[k].op \in left.seen

LEMMA MeantMeans ==
    ASSUME Wanes, NEW a, Meant(a)
    PROVE  Means(a)
BY DEF Wanes, Meant, Means, NoDelete

LEMMA HearsOf ==
    ASSUME \A n \in DOMAIN queue' : Means(queue'[n].action),
           loop'.pc # "recv" => Means(loop'.ev.action),
           \A t \in TaskIds : task'[t] # TM!Done => Means(task'[t].ev.action)
    PROVE  Heard'
BY DEF Heard, Means, Meant, NoDelete, TM!Done

LEMMA StillHeard ==
    ASSUME Wanes, Heard
    PROVE  /\ \A n \in DOMAIN queue : Means(queue[n].action)
           /\ loop.pc # "recv" => Means(loop.ev.action)
           /\ \A t \in TaskIds : task[t] # TM!Done => Means(task[t].ev.action)
BY MeantMeans DEF Heard

LEMMA SameHeard ==
    ASSUME Wanes, Heard, UNCHANGED tmVars
    PROVE  Heard'
BY StillHeard, HearsOf DEF tmVars

LEMMA EmitHeard ==
    ASSUME CargoInv, Wanes, Heard, NEW c, NEW a, TM!Emit(Ev(c, a)), Means(a)
    PROVE  Heard'
<1>1. queue \in Seq(TM!Events) /\ queue' = Append(queue, Ev(c, a)) /\ UNCHANGED <<loop, task>>
  BY TmTyped DEF CargoInv, TM!TypeOK, TM!Emit
<1>2. /\ DOMAIN queue' = 1..(Len(queue) + 1) /\ DOMAIN queue = 1..Len(queue) /\ Len(queue) \in Nat
      /\ queue'[Len(queue) + 1] = Ev(c, a) /\ \A n \in DOMAIN queue : queue'[n] = queue[n]
  BY <1>1
<1>3. Ev(c, a).action = a
  BY DEF Ev
<1>4. ASSUME NEW n \in DOMAIN queue'
      PROVE  Means(queue'[n].action)
  <2>1. n \in DOMAIN queue \/ n = Len(queue) + 1
    BY <1>2
  <2>2. CASE n \in DOMAIN queue
    BY <1>2, <2>2, StillHeard
  <2>3. CASE n = Len(queue) + 1
    BY <1>2, <1>3, <2>3
  <2>4. QED
    BY <2>1, <2>2, <2>3
<1>5. QED
  BY <1>1, <1>4, StillHeard, HearsOf

LEMMA EndHeard ==
    ASSUME CargoInv, Wanes, Heard, NEW t \in TaskIds,
           TM!BodyOk(t) \/ TM!BodyErr(t) \/ TM!OnErrorDone(t)
    PROVE  Heard'
<1>1. UNCHANGED <<queue, loop>>
  BY DEF TM!BodyOk, TM!BodyErr, TM!OnErrorDone
<1>2. task \in [TaskIds -> TM!TaskStates]
  BY TmTyped DEF CargoInv, TM!TypeOK
<1>3. \A s \in TaskIds : task'[s] = task[s] \/ task'[s] = TM!Done
                         \/ (task[s] # TM!Done /\ task'[s].ev = task[s].ev)
  <2>1. TM!Running(task[t].ev, "onerr").ev = task[t].ev
    BY DEF TM!Running
  <2>2. CASE TM!BodyErr(t)
    <3>1. task[t] # TM!Done
      BY <2>2 DEF TM!BodyErr, TM!Done
    <3>2. QED
      BY <1>2, <2>1, <2>2, <3>1 DEF TM!BodyErr
  <2>3. CASE TM!BodyOk(t) \/ TM!OnErrorDone(t)
    BY <1>2, <2>3 DEF TM!BodyOk, TM!OnErrorDone
  <2>4. QED
    BY <2>2, <2>3
<1>4. \A s \in TaskIds : task'[s] # TM!Done => Means(task'[s].ev.action)
  BY <1>3, StillHeard
<1>5. QED
  BY <1>1, <1>4, StillHeard, HearsOf

LEMMA TaskHears ==
    ASSUME NEW t \in TaskIds, TaskStep(t)
    PROVE  /\ req' = req
           /\ \/ UNCHANGED tmVars
              \/ TM!BodyOk(t) \/ TM!BodyErr(t) \/ TM!OnErrorDone(t)
              \/ \E c : TM!Emit(Ev(c, "Other"))
<1> USE DEF tmVars, clientVars, Err, Return
<1>1. CASE ReadCargo(t) \/ ReadStart(t) \/ CreateInit(t) \/ StartInit(t) \/ WaitInit(t)
  BY <1>1 DEF ReadCargo, ReadStart, CreateInit, StartInit, WaitInit
<1>2. CASE CreateInstances(t) \/ ListInstances(t) \/ StartInstance(t)
  BY <1>2 DEF CreateInstances, ListInstances, StartInstance
<1>3. CASE StartInstanceErr(t) \/ Started(t)
  BY <1>3 DEF StartInstanceErr, Started, StartFailed
<1>4. CASE ReadUpdate(t) \/ StopOld(t) \/ RenameOld(t) \/ RenamedAll(t)
  BY <1>4 DEF ReadUpdate, StopOld, RenameOld, RenamedAll
<1>5. CASE UndoCreate(t) \/ UndoRename(t) \/ Updated(t)
  BY <1>5 DEF UndoCreate, UndoRename, Updated
<1>6. CASE ReadStop(t) \/ StopInstance(t) \/ Stopped(t) \/ End(t) \/ OnError(t)
  BY <1>6 DEF ReadStop, StopInstance, Stopped, End, OnError
<1>7. CASE ReadDelete(t) \/ DeleteStop(t) \/ DeleteRemove(t) \/ Clear(t)
  BY <1>7 DEF ReadDelete, DeleteStop, DeleteRemove, Clear
<1>8. QED
  BY <1>1, <1>2, <1>3, <1>4, <1>5, <1>6, <1>7 DEF TaskStep

(* The loop takes events from the channel and hands them to tasks.         *)
LEMMA AddHeard ==
    ASSUME TM!TypeOK, Wanes, Heard, NEW ev, Means(ev.action), NEW m, NEW f, TM!Dispatch(ev, m, f),
           f \in [TaskIds -> TM!TaskStates],
           \A s \in TaskIds : f[s] = task[s] \/ f[s] = TM!Done
    PROVE  /\ loop'.pc = "recv"
           /\ \A s \in TaskIds : task'[s] # TM!Done => Means(task'[s].ev.action)
<1>1. loop'.pc = "recv"
  BY DEF TM!Dispatch, TM!Idle
<1>2. \A s \in TaskIds : task'[s] = f[s] \/ task'[s].ev = ev
  BY DEF TM!Dispatch, TM!AddTask, TM!Running
<1>3. QED
  BY <1>1, <1>2, StillHeard

LEMMA LoopHeard ==
    ASSUME CargoInv, Wanes, Heard, LoopStep
    PROVE  Heard'
<1>1. TM!TypeOK /\ queue \in Seq(TM!Events) /\ task \in [TaskIds -> TM!TaskStates]
  BY TmTyped DEF CargoInv, TM!TypeOK
<1>2. ASSUME TM!Receive
      PROVE  /\ \A n \in DOMAIN queue' : Means(queue'[n].action)
             /\ Means(Head(queue).action)
  <2>1. /\ queue # <<>> /\ queue' = Tail(queue) /\ Head(queue) = queue[1]
    BY <1>1, <1>2 DEF TM!Receive
  <2>2. /\ DOMAIN queue = 1..Len(queue) /\ Len(queue) \in Nat /\ Len(queue) # 0
        /\ DOMAIN queue' = 1..(Len(queue) - 1)
        /\ \A n \in 1..(Len(queue) - 1) : queue'[n] = queue[n + 1]
    BY <1>1, <2>1
  <2>3. 1 \in DOMAIN queue /\ \A n \in DOMAIN queue' : n + 1 \in DOMAIN queue
    BY <2>2
  <2>4. QED
    BY <2>1, <2>2, <2>3, StillHeard
<1>3. CASE TM!RecvWait
  <2>1. TM!Receive /\ loop'.ev = Head(queue) /\ task' = task
    BY <1>3 DEF TM!RecvWait
  <2>2. QED
    BY <1>2, <2>1, StillHeard, HearsOf
<1>4. CASE TM!RecvSource
  <2>1. TM!Receive /\ (loop'.pc # "recv" => loop'.ev = Head(queue)) /\ task' = task
    BY <1>4 DEF TM!RecvSource, TM!Idle
  <2>2. QED
    BY <1>2, <2>1, StillHeard, HearsOf
<1>5. CASE TM!RecvSerial
  <2>1. TM!Receive /\ TM!Dispatch(Head(queue), tasks, task)
    BY <1>5 DEF TM!RecvSerial
  <2>2. /\ loop'.pc = "recv"
        /\ \A s \in TaskIds : task'[s] # TM!Done => Means(task'[s].ev.action)
    BY <1>1, <1>2, <2>1, AddHeard
  <2>3. QED
    BY <1>2, <2>1, <2>2, HearsOf
<1>6. CASE TM!WaitDone
  <2>1. PICK ev, m, f : /\ ev = loop.ev /\ m = TM!Removed(loop.ev.obj) /\ f = TM!Aborted(loop.ev.obj)
    OBVIOUS
  <2>2. TM!Dispatch(ev, m, f) /\ loop.pc = "wait" /\ queue' = queue
    BY <1>6, <2>1 DEF TM!WaitDone
  <2>3. Means(ev.action)
    BY <2>1, <2>2, StillHeard
  <2>4. f \in [TaskIds -> TM!TaskStates] /\ \A s \in TaskIds : f[s] = task[s] \/ f[s] = TM!Done
    BY <1>1, <2>1 DEF TM!Aborted, TM!TaskStates
  <2>5. /\ loop'.pc = "recv"
        /\ \A s \in TaskIds : task'[s] # TM!Done => Means(task'[s].ev.action)
    BY <1>1, <2>2, <2>3, <2>4, AddHeard
  <2>6. QED
    BY <2>2, <2>5, StillHeard, HearsOf
<1>7. QED
  BY <1>3, <1>4, <1>5, <1>6 DEF LoopStep

LEMMA SecretHeard ==
    ASSUME CargoInv, Wanes, Heard, SecretStep
    PROVE  Heard'
<1>1. CASE SecretRead
  BY <1>1, SameHeard DEF SecretRead
<1>2. CASE SecretUpdate
  <2>1. PICK c : TM!Emit(Ev(c, "Updating"))
    BY <1>2 DEF SecretUpdate
  <2>2. Means("Updating")
    BY DEF Means
  <2>3. QED
    BY <2>1, <2>2, EmitHeard
<1>3. CASE SecretDone
  <2>1. queue' = queue /\ task' = task /\ loop'.pc = "recv"
    BY <1>3 DEF SecretDone, TM!HandlerDone, TM!Idle
  <2>2. QED
    BY <2>1, StillHeard, HearsOf
<1>4. QED
  BY <1>1, <1>2, <1>3 DEF SecretStep

LEMMA NewRequestHeard ==
    ASSUME CargoInv, Wanes, Heard, NEW k \in Clients, NewRequest(k)
    PROVE  Heard'
<1>1. Means("Other") /\ Means("Long")
  BY DEF Means
<1>2. \/ UNCHANGED tmVars
      \/ \E c : TM!Emit(Ev(c, "Other")) \/ TM!Emit(Ev(c, "Long"))
  BY DEF NewRequest, CreateCargo, StartCargo, StopCargo, PutCargo, DeleteCargo, EachProcess,
     PutSecret, StartProcess
<1>3. QED
  BY <1>1, <1>2, SameHeard, EmitHeard

LEMMA RequestHeard ==
    ASSUME CargoInv, Wanes, Heard, Asked, NEW k \in Clients, RequestStep(k)
    PROVE  Heard'
<1>1. CASE EmitRequest(k)
  <2>1. PICK c, op : c = req[k].c /\ op = req[k].op
    OBVIOUS
  <2>2. op \in left'.seen
    BY <1>1, <2>1 DEF Asked, Wanes, EmitRequest
  <2>3. Means(EventOf(op))
    BY <2>2 DEF Means, EventOf
  <2>4. UNCHANGED tmVars \/ TM!Emit(Ev(c, EventOf(op)))
    BY <1>1, <2>1 DEF EmitRequest
  <2>5. QED
    BY <2>3, <2>4, SameHeard, EmitHeard
<1>2. CASE WriteStatus(k) \/ PutSpec(k) \/ NextProcess(k)
  BY <1>2, SameHeard DEF WriteStatus, PutSpec, NextProcess
<1>3. QED
  BY <1>1, <1>2 DEF RequestStep

LEMMA HeardKept ==
    ASSUME CargoInv, [Next]_vars, Wanes, Heard, Asked
    PROVE  Heard'
<1>1. ASSUME NEW t \in TaskIds, TaskStep(t)
      PROVE  Heard'
  <2>1. Means("Other")
    BY DEF Means
  <2>2. QED
    BY <1>1, <2>1, TaskHears, SameHeard, EndHeard, EmitHeard
<1>2. CASE DockerStep
  BY <1>2, SameHeard DEF DockerStep, DockerRecv, DockerWrite, DockerSync
<1>3. ASSUME NEW i \in Conts, Reap(i) \/ InitExit(i) \/ Crash(i) \/ Revive(i)
      PROVE  Heard'
  BY <1>3, SameHeard DEF Reap, InitExit, Crash, Revive, Exit
<1>4. CASE UNCHANGED vars
  BY <1>4, SameHeard DEF vars
<1>5. QED
  BY <1>1, <1>2, <1>3, <1>4, NewRequestHeard, RequestHeard, LoopHeard, SecretHeard DEF Next

LEMMA RequestIs ==
    ASSUME NEW op, NEW c, NEW pc, NEW todo
    PROVE  Request(op, c, pc, todo).op = op
BY DEF Request

LEMMA AskedKept ==
    ASSUME CargoInv, [Next]_vars, Wanes, Asked
    PROVE  Asked'
<1>0. req \in [Clients -> {None} \cup Requests(Conts, left.w.ops)]
  BY DEF CargoInv, Callers
<1>1. CASE UNCHANGED req
  BY <1>1 DEF Asked, Wanes
<1>2. ASSUME NEW k \in Clients, NEW r, req' = [req EXCEPT ![k] = r],
             r = None \/ r.op \in left'.seen
      PROVE  Asked'
  BY <1>0, <1>2 DEF Asked, Wanes
<1>3. ASSUME NEW k \in Clients, NewRequest(k)
      PROVE  Asked'
  <2>1. ASSUME NEW op, NEW c, NEW pc, NEW todo, req' = [req EXCEPT ![k] = Request(op, c, pc, todo)],
               Begin(k, op)
        PROVE  Asked'
    <3>1. op \in left'.seen
      BY <2>1, BeginWanes
    <3>2. PICK r : r = Request(op, c, pc, todo)
      OBVIOUS
    <3>3. r.op \in left'.seen
      BY <3>1, <3>2, RequestIs
    <3>4. QED
      BY <1>2, <2>1, <3>2, <3>3
  <2>2. CASE \E c \in Cargoes : \/ CreateCargo(k, c) \/ StartCargo(k, c) \/ StopCargo(k, c)
                                \/ PutCargo(k, c)
    BY <1>1, <2>1, <2>2 DEF CreateCargo, StartCargo, StopCargo, PutCargo, Goes
  <2>3. CASE \E c \in Cargoes, op \in {"delete", "force"} : DeleteCargo(k, c, op)
    BY <2>1, <2>3 DEF DeleteCargo, Goes
  <2>4. CASE \E c \in Cargoes, op \in {"restart", "kill"} : EachProcess(k, c, op)
    BY <2>1, <2>4 DEF EachProcess
  <2>5. CASE (\E s \in Secrets : PutSecret(k, s)) \/ \E i \in Conts : StartProcess(k, i)
    BY <1>1, <2>5 DEF PutSecret, StartProcess, clientVars
  <2>6. QED
    BY <1>3, <2>2, <2>3, <2>4, <2>5 DEF NewRequest
<1>4. ASSUME NEW k \in Clients, RequestStep(k)
      PROVE  Asked'
  <2>1. req[k] # None => req[k].op \in left'.seen
    BY DEF Asked, Wanes
  <2>2. CASE WriteStatus(k)
    <3>1. req[k] # None /\ (Ends(k) \/ \E c : Goes(k, req[k].op, c, "emit"))
      BY <2>2 DEF WriteStatus, In
    <3>2. QED
      BY <1>2, <2>1, <3>1, RequestIs DEF Ends, Goes
  <2>3. CASE PutSpec(k)
    <3>1. req[k] # None /\ req[k].op = "put" /\ (Ends(k) \/ \E c : Goes(k, "put", c, "emit"))
      BY <2>3 DEF PutSpec, In
    <3>2. QED
      BY <1>2, <2>1, <3>1, RequestIs DEF Ends, Goes
  <2>4. CASE EmitRequest(k)
    BY <1>2, <2>4 DEF EmitRequest, Ends
  <2>5. CASE NextProcess(k)
    <3>1. PICK r : r = [req[k] EXCEPT !.todo = @ \ {Newest(req[k].todo)}]
      OBVIOUS
    <3>2. req[k] # None /\ req[k] \in Requests(Conts, left.w.ops)
      BY <1>0, <2>5 DEF NextProcess, In
    <3>3. r.op = req[k].op
      BY <3>1, <3>2 DEF Requests
    <3>4. \/ Ends(k) \/ req' = [req EXCEPT ![k] = r]
          \/ \E c : Goes(k, req[k].op, c, "emit")
      BY <2>5, <3>1 DEF NextProcess
    <3>5. QED
      BY <1>2, <2>1, <3>2, <3>3, <3>4, RequestIs DEF Ends, Goes
  <2>6. QED
    BY <1>4, <2>2, <2>3, <2>4, <2>5 DEF RequestStep
<1>5. CASE LoopStep \/ SecretStep \/ DockerStep
  BY <1>1, <1>5 DEF LoopStep, SecretStep, SecretRead, SecretUpdate, SecretDone, DockerStep,
     DockerRecv, DockerWrite, DockerSync, clientVars
<1>6. ASSUME NEW i \in Conts, Reap(i) \/ InitExit(i) \/ Crash(i) \/ Revive(i)
      PROVE  Asked'
  BY <1>1, <1>6 DEF Reap, InitExit, Crash, Revive, Exit, clientVars
<1>7. CASE UNCHANGED vars
  BY <1>1, <1>7 DEF vars, clientVars
<1>8. QED
  BY <1>1, <1>3, <1>4, <1>5, <1>6, <1>7, TaskHears DEF Next

(* All of it.                                                              *)
Steady ==
    /\ Matched /\ Made /\ EventsMatch /\ Spent /\ Alive /\ Uncrashed /\ Heard /\ Asked
    /\ \A t \in TaskIds : Sound(t)

LEMMA SteadyKept ==
    ASSUME CargoInv, Steady, [Next]_vars
    PROVE  Steady' /\ Basis /\ Wanes
<1>1. Basis /\ Wanes
  BY SameConts, StepKin DEF Basis, Steady
<1>2. /\ Matched' /\ Made' /\ EventsMatch' /\ Spent'
  BY <1>1, MatchedKept, MadeKept, EventsMatchKept, SpentKept DEF Steady
<1>3. Alive' /\ Uncrashed'
  BY <1>1, AliveKept, UncrashedKept DEF Steady
<1>4. Heard' /\ Asked'
  BY <1>1, HeardKept, AskedKept DEF Steady
<1>5. \A t \in TaskIds : Sound(t)'
  BY <1>1, SoundKept DEF Steady
<1>6. QED
  BY <1>1, <1>2, <1>3, <1>4, <1>5 DEF Steady

LEMMA SteadyInit ==
    ASSUME Init
    PROVE  Steady
<1>1. /\ \A i \in Conts : cont[i] = None /\ proc[i] = None
      /\ \A t \in TaskIds : body[t] = None
      /\ \A t \in TaskIds : task[t] = TM!Done
      /\ \A k \in Clients : req[k] = None
      /\ doomed = {} /\ dq = <<>> /\ dh = None /\ queue = <<>> /\ loop.pc = "recv"
  BY DEF Init, TM!Init, TM!Idle
<1>2. PICK w \in Worlds : left.fails = w.fails /\ left.crashes = w.crashes /\ left.w = w
  BY DEF Init
<1>3. left.fails \in Nat /\ left.crashes \in Nat
  BY <1>2, ConstAssumption
<1>4. Spent
  BY <1>2, <1>3 DEF Spent
<1>5. DOMAIN dq = {} /\ DOMAIN queue = {}
  BY <1>1
<1>6. Matched /\ Made /\ EventsMatch /\ Alive /\ Uncrashed
  BY <1>1, <1>5 DEF Matched, Made, EventsMatch, Alive, Launches, Uncrashed
<1>7. Heard /\ Asked /\ \A t \in TaskIds : Sound(t)
  BY <1>1, <1>5 DEF Heard, Asked, Sound
<1>8. QED
  BY <1>4, <1>6, <1>7 DEF Steady

-----------------------------------------------------------------------------
(* The row of a container that is gone goes with the destroy event.        *)
Tolls(n, i) == dq[n].type = "destroy" /\ dq[n].id = i

Swept ==
    \A i \in Conts : proc[i] # None /\ cont[i] = None => \E n \in DOMAIN dq : Tolls(n, i)

LEMMA SweptFrom ==
    ASSUME Basis, Swept, Extends(dq'),
           \A i \in Conts : proc'[i] # None /\ cont'[i] = None =>
               \/ proc[i] # None /\ cont[i] = None
               \/ \E n \in DOMAIN dq' : dq'[n].type = "destroy" /\ dq'[n].id = i
    PROVE  Swept'
<1>1. ASSUME NEW i \in Conts, NEW n \in DOMAIN dq, Tolls(n, i)
      PROVE  n \in DOMAIN dq' /\ Tolls(n, i)'
  BY <1>1 DEF Tolls, Extends
<1>2. QED
  BY <1>1 DEF Swept, Tolls, Basis

LEMMA SweptStruck ==
    ASSUME Basis, Swept, NEW j \in Conts, Struck(j)
    PROVE  Swept'
<1>1. /\ Extends(dq') /\ cont[j] # None
      /\ \A k \in Conts : k # j => cont'[k] = cont[k]
      /\ cont'[j] = None => \E n \in DOMAIN dq' : dq'[n].type = "destroy" /\ dq'[n].id = j
  BY DEF Struck, Steers, Drives, Tells
<1>2. \A k \in Conts : proc'[k] = None \/ proc'[k] = proc[k]
  BY DEF Struck, Basis, CargoInv, Tables
<1>3. QED
  BY <1>1, <1>2, SweptFrom

LEMMA SweptGrows ==
    ASSUME Basis, Swept, NEW c, NEW init, NEW spec, NEW m, Grows(c, init, spec, m)
    PROVE  Swept'
<1>1. dq' = dq
  BY DEF Grows
<1>2. \A i \in Conts : proc'[i] # None /\ cont'[i] = None => proc[i] # None /\ cont[i] = None
  BY GrowsIs DEF Basis
<1>3. QED
  BY <1>1, <1>2 DEF Swept, Tolls, Basis

LEMMA SweptDocker ==
    ASSUME Basis, Swept, DockerStep
    PROVE  Swept'
<1>1. cont' = cont /\ \A i \in Conts : proc'[i] # None => proc[i] # None
  BY DockerMoves, DockerRows DEF Basis
<1>2. CASE UNCHANGED dq
  BY <1>1, <1>2 DEF Swept, Tolls, Basis
<1>3. CASE DockerRecv
  <2>1. /\ DOMAIN dq = 1..Len(dq) /\ Len(dq) \in Nat
        /\ DOMAIN dq' = 1..(Len(dq) - 1)
        /\ \A n \in DOMAIN dq' : dq'[n] = dq[n + 1]
        /\ dq[1].type = "destroy" => proc' = [proc EXCEPT ![dq[1].id] = None]
    BY <1>3, RecvIs DEF Basis
  <2>2. ASSUME NEW i \in Conts, proc'[i] # None, cont'[i] = None
        PROVE  \E n \in DOMAIN dq' : Tolls(n, i)'
    <3>1. PICK n \in DOMAIN dq : Tolls(n, i)
      BY <1>1, <2>2 DEF Swept
    <3>2. n # 1
      BY <2>1, <2>2, <3>1 DEF Tolls, Basis, CargoInv, Tables
    <3>3. n - 1 \in DOMAIN dq' /\ (n - 1) + 1 = n
      BY <2>1, <3>1, <3>2
    <3>4. dq'[n - 1] = dq[n]
      BY <2>1, <3>3
    <3>5. QED
      BY <3>1, <3>3, <3>4 DEF Tolls
  <2>3. QED
    BY <2>2 DEF Swept, Basis
<1>4. QED
  BY <1>2, <1>3 DEF DockerStep, DockerWrite, DockerSync, dockerVars

LEMMA SweptKept ==
    ASSUME Basis, Swept, [Next]_vars
    PROVE  Swept'
<1>1. CASE Silent
  BY <1>1 DEF Silent, Swept, Tolls, Basis
<1>2. ASSUME NEW i \in Conts, Dropped(i)
      PROVE  Swept'
  <2>1. \A k \in Conts : proc'[k] = None \/ proc'[k] = proc[k]
    BY <1>2 DEF Dropped, Basis, CargoInv, Tables
  <2>2. cont' = cont /\ dq' = dq
    BY <1>2 DEF Dropped
  <2>3. QED
    BY <2>1, <2>2 DEF Swept, Tolls, Basis
<1>3. CASE Outer
  BY <1>1, <1>2, <1>3, OuterMoves, SweptStruck DEF Basis
<1>4. ASSUME NEW t \in TaskIds, TaskStep(t)
      PROVE  Swept'
  BY <1>1, <1>2, <1>4, TaskDocks, SweptStruck, SweptGrows DEF Basis, Docks, Adds
<1>5. QED
  BY <1>3, <1>4, Steps, SweptDocker

-----------------------------------------------------------------------------
(* As long as docker did what it was asked to, a delete has every          *)
(* container of its cargo on its list, and stopped the one it removes.     *)
Covers(t) ==
    Deletes(t) =>
        /\ \A i \in Conts : cont[i] # None /\ cont[i].cargo = Obj(t) => i \in body[t].todo
        /\ body[t].pc = "remove" =>
              (cont[Newest(body[t].todo)] # None =>
                  cont[Newest(body[t].todo)].st \notin {"up", "crashed"})

Deleting == Faultless => \A t \in TaskIds : Covers(t)

(* Where containers come from.                                             *)
LEMMA Newborn ==
    ASSUME Basis, NEW t \in TaskIds, TaskStep(t), NEW i \in Conts, cont[i] = None, cont'[i] # None
    PROVE  \E m \in Nat : Adds(t, m) /\ i \in Fresh(m)
<1>1. CASE \E j \in Conts : Struck(j)
  BY <1>1 DEF Struck, Steers, Drives
<1>2. CASE UNCHANGED cont
  BY <1>2
<1>3. ASSUME NEW m \in Nat, Adds(t, m)
      PROVE  i \in Fresh(m)
  BY <1>3, GrowsIs DEF Adds, Basis
<1>4. QED
  BY <1>1, <1>2, <1>3, TaskDocks DEF Docks, Silent, Dropped, Basis

LEMMA NoneBorn ==
    ASSUME Basis, Outer \/ DockerStep, NEW i \in Conts, cont'[i] # None
    PROVE  cont[i] # None
<1>1. CASE DockerStep
  BY <1>1, DockerMoves DEF Basis
<1>2. CASE Outer
  BY <1>2, OuterMoves DEF Silent, Dropped, Struck, Steers, Drives, Basis
<1>3. QED
  BY <1>1, <1>2

LEMMA Lasting ==
    ASSUME Basis, NEW i \in Conts, cont[i] # None, cont'[i] # None
    PROVE  Same(i)
<1>1. ~(i > left.made) /\ i \in Nat /\ left.made \in Nat
  BY Numbers DEF Basis, CargoInv, Gone
<1>2. i <= left.made
  BY <1>1
<1>3. QED
  BY <1>2 DEF Basis, Kin

(* What a task makes is of its cargo.                                      *)
LEMMA BornOf ==
    ASSUME Basis, NEW t \in TaskIds, NEW m \in Nat, Adds(t, m), NEW i \in Fresh(m)
    PROVE  /\ Launches(t) /\ i \in Conts /\ cont'[i] # None /\ cont'[i].cargo = Obj(t)
           /\ cont'[i].spec = body[t].spec /\ cont'[i].st = "created"
           /\ \/ Runs(t, Launching, "init") /\ cont'[i].init = TRUE
              \/ Runs(t, Launching, "create") /\ cont'[i].init = FALSE
<1>1. PICK init : /\ Grows(Obj(t), init, body[t].spec, m)
                  /\ \/ Runs(t, Launching, "init") /\ init = TRUE
                     \/ Runs(t, Launching, "create") /\ init = FALSE
  BY DEF Adds
<1>2. /\ i \in Conts /\ cont'[i] # None /\ cont'[i].cargo = Obj(t)
      /\ cont'[i].spec = body[t].spec /\ cont'[i].st = "created" /\ cont'[i].init = init
  <2>1. PICK c, spec : c = Obj(t) /\ spec = body[t].spec
    OBVIOUS
  <2>2. Grows(c, init, spec, m) /\ CargoInv
    BY <1>1, <2>1 DEF Basis
  <2>3. /\ Fresh(m) \subseteq Conts
        /\ \A j \in Fresh(m) : /\ cont'[j] # None /\ cont'[j].cargo = c /\ cont'[j].spec = spec
                               /\ cont'[j].init = init /\ cont'[j].st = "created"
    BY <2>2, GrowsIs
  <2>4. QED
    BY <2>1, <2>3
<1>3. Launches(t)
  BY <1>1 DEF Runs, Launches
<1>4. QED
  BY <1>1, <1>2, <1>3

LEMMA TodoOf ==
    ASSUME CargoInv, Steady, NEW t \in TaskIds, body[t] # None, NEW i \in body[t].todo,
           cont[i] # None
    PROVE  cont[i].cargo = Obj(t)
BY DEF Steady, Sound, Fits, Of

(* A container of a cargo under deletion is started by nobody.             *)
LEMMA StaysDown ==
    ASSUME CargoInv, Steady, Basis, [Next]_vars, Faultless', Faultless,
           left'.crashes = left.crashes, NEW u \in TaskIds, Deletes(u), Still(u),
           NEW j \in body[u].todo, cont'[j] # None, cont[j] # None,
           cont[j].st \notin {"up", "crashed"}
    PROVE  cont'[j].st \notin {"up", "crashed"}
<1>1. j \in Conts
  BY FrameOf DEF Deletes
<1>2. cont'[j] = cont[j] => cont'[j].st \notin {"up", "crashed"}
  OBVIOUS
<1>3. CASE DockerStep
  BY <1>2, <1>3, DockerMoves
<1>4. CASE Outer
  <2>1. CASE Silent \/ \E i \in Conts : Dropped(i)
    BY <1>2, <2>1 DEF Silent, Dropped
  <2>2. ASSUME NEW i \in Conts, Struck(i), Outlet(i)
        PROVE  cont'[j].st \notin {"up", "crashed"}
    <3>1. CASE i # j
      BY <1>1, <1>2, <2>2, <3>1 DEF Struck, Steers, Drives
    <3>2. CASE i = j
      <4>1. "process" \notin left'.seen /\ "restart" \notin left'.seen
        BY DEF Faultless
      <4>2. ~\E k \in Clients : req[k] # None /\ req[k].op = "restart"
        BY <4>1, SteadyKept DEF Steady, Asked, Wanes
      <4>3. ~(left'.crashes < left.crashes)
        BY DEF CargoInv, Bounds
      <4>4. QED
        BY <2>2, <3>2, <4>1, <4>2, <4>3 DEF Outlet
    <3>3. QED
      BY <3>1, <3>2
  <2>3. QED
    BY <1>4, <2>1, <2>2, OuterMoves
<1>5. ASSUME NEW t \in TaskIds, TaskStep(t)
      PROVE  cont'[j].st \notin {"up", "crashed"}
  <2>1. CASE Silent \/ \E i \in Conts : Dropped(i)
    BY <1>2, <2>1 DEF Silent, Dropped
  <2>2. ASSUME NEW m \in Nat, Adds(t, m)
        PROVE  cont'[j].st \notin {"up", "crashed"}
    BY <1>1, <1>2, <2>2, GrowsIs DEF Adds
  <2>3. ASSUME NEW i \in Conts, Struck(i), Hits(t, i)
        PROVE  cont'[j].st \notin {"up", "crashed"}
    <3>1. CASE i # j
      BY <1>1, <1>2, <2>3, <3>1 DEF Struck, Steers, Drives
    <3>2. CASE i = j
      <4>1. cont[j].cargo = Obj(t) /\ cont[j].cargo = Obj(u) /\ body[t] # None
        BY <2>3, <3>2, TodoOf DEF Hits, Deletes
      <4>2. Obj(u) \in Cargoes
        BY HasCargo, Acts DEF Deletes
      <4>3. t = u
        BY <4>1, <4>2, OneAtATime DEF Deletes
      <4>4. task[t].ev.action = "Destroying"
        BY <4>3 DEF Deletes
      <4>5. cont'[j].st # "up" \/ cont'[j].st = cont[j].st
        BY <2>3, <3>2, <4>4 DEF Hits, Runs, Launching
      <4>6. QED
        BY <2>3, <3>2, <4>5 DEF Hits
    <3>3. QED
      BY <3>1, <3>2
  <2>4. QED
    BY <1>5, <2>1, <2>2, <2>3, TaskDocks DEF Docks
<1>6. QED
  BY <1>3, <1>4, <1>5, Steps

LEMMA StillCovers ==
    ASSUME CargoInv, Steady, Basis, [Next]_vars, Faultless', Faultless,
           left'.crashes = left.crashes, NEW u \in TaskIds, Still(u), Covers(u)
    PROVE  Covers(u)'
<1>1. SUFFICES ASSUME Deletes(u)
               PROVE  Covers(u)'
  BY DEF Still, Deletes, Covers
<1>2. PICK c : c = Obj(u) /\ c = Obj(u)'
  BY DEF Still, Obj
<1>3. ASSUME NEW i \in Conts, cont'[i] # None, cont'[i].cargo = c
      PROVE  i \in body[u].todo
  <2>1. CASE cont[i] # None
    <3>1. cont[i].cargo = c
      BY <1>3, <2>1, Lasting DEF Same
    <3>2. QED
      BY <1>1, <1>2, <2>1, <3>1 DEF Covers
  <2>2. CASE cont[i] = None
    <3>1. PICK t \in TaskIds : TaskStep(t)
      BY <1>3, <2>2, NoneBorn, Steps
    <3>2. PICK m \in Nat : Adds(t, m) /\ i \in Fresh(m)
      BY <1>3, <2>2, <3>1, Newborn
    <3>3. Launches(t) /\ c = Obj(t)
      BY <1>3, <3>2, BornOf
    <3>4. c \in Cargoes
      BY <1>1, <1>2, HasCargo, Acts DEF Deletes
    <3>5. t = u
      BY <1>1, <1>2, <3>3, <3>4, OneAtATime DEF Launches, Deletes
    <3>6. QED
      BY <1>1, <3>3, <3>5 DEF Launches, Deletes, Launching
  <2>3. QED
    BY <2>1, <2>2
<1>4. ASSUME body[u].pc = "remove", NEW j, j = Newest(body[u].todo), cont'[j] # None
      PROVE  cont'[j].st \notin {"up", "crashed"}
  <2>1. GoodFrame(body[u], Conts) /\ At(u, {"Destroying"}, "remove")
    BY <1>1, <1>4 DEF Deletes, CargoInv, Locals, At
  <2>2. j \in body[u].todo /\ j \in Conts
    BY <1>4, <2>1, AtRuns, Acts DEF GoodFrame
  <2>3. cont[j] # None
    <3>1. j <= left.made
      BY <1>1, <2>2 DEF Deletes, Steady, Sound, Fits, Of
    <3>2. QED
      BY <1>4, <2>2, <3>1 DEF Basis, Kin
  <2>4. cont[j].st \notin {"up", "crashed"}
    BY <1>1, <1>4, <2>3 DEF Covers
  <2>5. QED
    BY <1>1, <1>4, <2>2, <2>3, <2>4, StaysDown
<1>5. QED
  BY <1>2, <1>3, <1>4 DEF Covers, Still, Basis

LEMMA DeleteCovers ==
    ASSUME CargoInv, Steady, Basis, Faultless, left'.fails = left.fails,
           NEW t \in TaskIds, TaskStep(t), Covers(t)
    PROVE  Covers(t)'
<1>1. SUFFICES ASSUME Deletes(t)'
               PROVE  Covers(t)'
  BY DEF Covers
<1>2. Alone(t) /\ task'[t] = task[t] /\ task[t].ev.action = "Destroying" /\ body'[t] # None
  BY <1>1, TaskDocks DEF Alone, Deletes
<1>3. PICK c : c = Obj(t) /\ c = Obj(t)'
  BY <1>2 DEF Obj
<1>4. ~(left'.fails < left.fails)
  BY DEF CargoInv, Bounds
<1>5. ReadDelete(t) \/ DeleteStop(t) \/ DeleteRemove(t) \/ Clear(t) \/ End(t) \/ OnError(t)
  BY <1>2 DEF TaskStep, Reads, At, Launching, ReadCargo, ReadStart, CreateInit, StartInit, WaitInit,
     CreateInstances, ListInstances, StartInstance, StartInstanceErr, Started, ReadUpdate,
     StopOld, RenameOld, RenamedAll, UndoCreate, UndoRename, Updated, ReadStop, StopInstance, Stopped
<1>6. CASE ReadDelete(t)
  <2>1. Silent /\ body'[t].todo = ProcsOf(c) /\ body'[t].pc = "stop"
    BY <1>2, <1>3, <1>6, ReadProcsMoves
  <2>2. \A i \in Conts : cont[i] # None /\ cont[i].cargo = c => i \in ProcsOf(c)
    BY DEF ProcsOf, CargoInv, RowPerContainer, Steady, Matched
  <2>3. QED
    BY <1>3, <2>1, <2>2 DEF Covers, Silent, Basis
<1>7. CASE DeleteStop(t)
  <2>1. PICK j : /\ j = Newest(body[t].todo) /\ j \in Conts
                 /\ Turns(t, "remove", body[t].todo) /\ Runs(t, {"Destroying"}, "stop")
                 /\ \/ Struck(j) /\ cont'[j] # None /\ cont'[j].st \notin {"up", "crashed"}
                    \/ Silent /\ cont[j] = None
    BY <1>4, <1>7, DeleteStopMoves DEF Struck, Runs, GoodFrame, Frames
  <2>2. Deletes(t)
    BY <2>1 DEF Runs, Deletes
  <2>3. \A i \in Conts : cont'[i] # None => cont[i] # None /\ cont[i].cargo = cont'[i].cargo
    BY <2>1, Lasting DEF Silent, Struck, Steers, Drives, Same
  <2>4. \A i \in Conts : cont'[i] # None /\ cont'[i].cargo = c => i \in body'[t].todo
    BY <1>3, <2>1, <2>2, <2>3 DEF Covers, Turns, GoesOn
  <2>5. cont'[j] # None => cont'[j].st \notin {"up", "crashed"}
    BY <2>1 DEF Silent
  <2>6. j = Newest(body'[t].todo)
    BY <2>1 DEF Turns, GoesOn
  <2>7. QED
    BY <1>3, <2>4, <2>5, <2>6 DEF Covers, Basis, Newest
<1>8. CASE DeleteRemove(t)
  <2>1. PICK j : /\ j = Newest(body[t].todo) /\ j \in Conts
                 /\ Turns(t, "stop", body[t].todo \ {j}) /\ Runs(t, {"Destroying"}, "remove")
                 /\ \/ Struck(j) /\ cont'[j] = None
                    \/ Silent /\ (cont[j] = None \/ cont[j].st \in {"up", "crashed"})
    BY <1>4, <1>8, DeleteRemoveMoves DEF Struck, Runs, GoodFrame, Frames
  <2>2. Deletes(t) /\ body[t].pc = "remove"
    BY <2>1 DEF Runs, Deletes
  <2>3. cont'[j] = None
    BY <2>1, <2>2 DEF Covers, Silent
  <2>4. \A i \in Conts : cont'[i] # None => cont[i] # None /\ cont[i].cargo = cont'[i].cargo
    BY <2>1, Lasting DEF Silent, Struck, Steers, Drives, Same
  <2>5. \A i \in Conts : cont'[i] # None /\ cont'[i].cargo = c => i \in body'[t].todo
    BY <1>3, <2>1, <2>2, <2>3, <2>4 DEF Covers, Turns, GoesOn
  <2>6. body'[t].pc = "stop"
    BY <2>1 DEF Turns, GoesOn
  <2>7. QED
    BY <1>3, <2>5, <2>6 DEF Covers, Basis
<1>9. CASE Clear(t) \/ End(t) \/ OnError(t)
  BY <1>1, <1>9, ClearMoves, EndMoves DEF Ended, Turns, GoesOn, Deletes
<1>10. QED
  BY <1>5, <1>6, <1>7, <1>8, <1>9

LEMMA DeletingKept ==
    ASSUME CargoInv, Steady, [Next]_vars, Deleting
    PROVE  Deleting'
<1>1. Basis /\ Wanes
  BY SteadyKept
<1>2. SUFFICES ASSUME Faultless', NEW u \in TaskIds
               PROVE  Covers(u)'
  BY DEF Deleting
<1>3. /\ Faultless /\ left'.fails = left.fails
  BY <1>1, <1>2, SpentKept DEF Steady
<1>4. NoCrash' => left'.crashes = left.crashes
  BY <1>1, SpentKept DEF Steady
<1>5. left'.crashes = left.crashes
  BY <1>2, <1>4 DEF Faultless, NoCrash
<1>6. Covers(u)
  BY <1>3 DEF Deleting
<1>7. CASE Still(u)
  BY <1>1, <1>2, <1>3, <1>5, <1>6, <1>7, StillCovers
<1>8. CASE ~Still(u)
  <2>1. CASE Outer \/ DockerStep
    <3>1. Awaited
      BY <2>1, OuterMoves, DockerMoves
    <3>2. body'[u] = None
      BY <1>8, <3>1, AwaitedStill
    <3>3. QED
      BY <3>2 DEF Covers, Deletes
  <2>2. ASSUME NEW t \in TaskIds, TaskStep(t)
        PROVE  Covers(u)'
    <3>1. u = t
      BY <1>8, <2>2, TaskDocks DEF Alone
    <3>2. QED
      BY <1>1, <1>3, <1>6, <2>2, <3>1, DeleteCovers
  <2>3. QED
    BY <2>1, <2>2, Steps
<1>9. QED
  BY <1>7, <1>8

-----------------------------------------------------------------------------
(* A container has the row of its cargo.                                   *)
Housed == Tidy => \A i \in Conts : cont[i] # None => Exists(cont[i].cargo)

LEMMA HousedKept ==
    ASSUME CargoInv, Steady, [Next]_vars, Deleting, Housed
    PROVE  Housed'
<1>1. Basis /\ Wanes
  BY SteadyKept
<1>2. SUFFICES ASSUME Tidy', NEW i \in Conts, cont'[i] # None
               PROVE  row'[cont'[i].cargo] # None
  BY <1>1 DEF Housed, Basis, Exists
<1>3. Tidy
  BY <1>1, <1>2, SpentKept DEF Steady
<1>4. PICK c : c = cont'[i].cargo
  OBVIOUS
<1>5. c \in Cargoes
  BY <1>1, <1>2, <1>4 DEF Basis, CargoInv, Tables, Containers
<1>6. cont[i] # None => Exists(c) /\ cont[i].cargo = c
  BY <1>1, <1>2, <1>3, <1>4, Lasting DEF Housed, Same
<1>7. Exists(c)'
  <2>1. CASE Outer \/ DockerStep
    <3>1. RowsStay
      BY <2>1, OuterMoves, DockerMoves
    <3>2. Exists(c)
      BY <1>1, <1>2, <1>6, <2>1, NoneBorn
    <3>3. QED
      BY <1>5, <3>1, <3>2 DEF RowsStay
  <2>2. ASSUME NEW t \in TaskIds, TaskStep(t)
        PROVE  Exists(c)'
    <3>1. CASE Clear(t)
      <4>1. /\ Runs(t, {"Destroying"}, "stop") /\ Silent /\ body[t].todo = {}
            /\ \A d \in Cargoes : d # Obj(t) /\ Exists(d) => Exists(d)'
        BY <3>1, ClearMoves
      <4>2. cont[i] # None /\ Exists(c) /\ cont[i].cargo = c
        BY <1>2, <1>6, <4>1 DEF Silent
      <4>3. Deletes(t) /\ task[t].ev.action = "Destroying" /\ task[t] # TM!Done
        BY <4>1 DEF Runs, Deletes, TM!Done
      <4>4. ~NoDelete
        BY <4>3 DEF Steady, Heard, Meant
      <4>5. Faultless
        BY <1>3, <4>4 DEF Tidy
      <4>6. c # Obj(t)
        BY <4>1, <4>2, <4>3, <4>5 DEF Deleting, Covers
      <4>7. QED
        BY <1>5, <4>1, <4>2, <4>6
    <3>2. CASE ~Clear(t)
      <4>1. RowsStay
        BY <2>2, <3>2, TaskDocks
      <4>2. Exists(c)
        <5>1. CASE cont[i] = None
          <6>1. PICK m \in Nat : Adds(t, m) /\ i \in Fresh(m)
            BY <1>1, <1>2, <2>2, <5>1, Newborn
          <6>2. Launches(t) /\ c = Obj(t)
            BY <1>1, <1>4, <6>1, BornOf
          <6>3. QED
            BY <6>2 DEF Steady, Alive
        <5>2. QED
          BY <1>6, <5>1
      <4>3. QED
        BY <1>5, <4>1, <4>2 DEF RowsStay
    <3>3. QED
      BY <3>1, <3>2
  <2>3. QED
    BY <2>1, <2>2, Steps
<1>8. QED
  BY <1>4, <1>7 DEF Exists

-----------------------------------------------------------------------------
(* Who still tells of i: an event in the channel, or the one in hand.      *)
Told(i) == \E n \in DOMAIN dq : dq[n].id = i

Hand(i) == dh # None /\ dh.ev.id = i

Latest(n, i) == dq[n].id = i /\ \A m \in DOMAIN dq : m > n => dq[m].id # i

(* The last event of i has its name; without one the row has name and      *)
(* state.                                                                  *)
Follows(i) ==
    /\ Told(i) \/ Hand(i) \/ proc[i].st = cont[i].st
    /\ \A n \in DOMAIN dq : Latest(n, i) => dq[n].tmp = cont[i].tmp
    /\ ~Told(i) /\ Hand(i) => dh.ev.tmp = cont[i].tmp
    /\ ~Told(i) /\ ~Hand(i) => proc[i].tmp = cont[i].tmp

Followed == Tidy => \A i \in Conts : cont[i] # None => Follows(i)

LEMMA DqIs ==
    ASSUME CargoInv
    PROVE  /\ DOMAIN dq = 1..Len(dq) /\ Len(dq) \in Nat
           /\ \A n \in DOMAIN dq : dq[n] \in DockerEvents(Conts) /\ dq[n].id \in Conts
<1>1. dq \in Seq(DockerEvents(Conts))
  BY DEF CargoInv, Tables
<1>2. \A n \in DOMAIN dq : dq[n] \in DockerEvents(Conts)
  BY <1>1
<1>3. QED
  BY <1>1, <1>2 DEF DockerEvents

(* Nothing about i changes.                                                *)
LEMMA FollowsSame ==
    ASSUME NEW i, Follows(i), dq' = dq, Hand(i)' = Hand(i), Hand(i) => dh'.ev = dh.ev,
           cont'[i] = cont[i], proc'[i] = proc[i]
    PROVE  Follows(i)'
<1>1. Told(i)' = Told(i) /\ \A n \in DOMAIN dq : Latest(n, i)' = Latest(n, i)
  BY DEF Told, Latest
<1>2. QED
  BY <1>1 DEF Follows

(* A call about another container.                                         *)
LEMMA FollowsOther ==
    ASSUME CargoInv, CargoInv', NEW i \in Conts, Follows(i), NEW j \in Conts, i # j, Struck(j)
    PROVE  Follows(i)'
<1>1. /\ Extends(dq') /\ About(dq', j, cont[j].cargo) /\ UNCHANGED dh /\ cont'[i] = cont[i]
      /\ proc'[i] = proc[i]
  BY DEF Struck, Steers, Drives, Tells, CargoInv, Tables
<1>2. /\ DOMAIN dq = 1..Len(dq) /\ Len(dq) \in Nat
      /\ DOMAIN dq' = 1..Len(dq') /\ Len(dq') \in Nat
  BY DqIs DEF CargoInv, Tables
<1>3. \A n \in DOMAIN dq' : n \in DOMAIN dq \/ dq'[n].id = j
  BY <1>1 DEF About
<1>4. \A n \in DOMAIN dq : n \in DOMAIN dq' /\ dq'[n] = dq[n]
  BY <1>1 DEF Extends
<1>5. Told(i)' <=> Told(i)
  BY <1>3, <1>4 DEF Told
<1>6. ASSUME NEW n \in DOMAIN dq', Latest(n, i)'
      PROVE  n \in DOMAIN dq /\ Latest(n, i) /\ dq'[n] = dq[n]
  <2>1. n \in DOMAIN dq
    BY <1>3, <1>6 DEF Latest
  <2>2. QED
    BY <1>4, <1>6, <2>1 DEF Latest
<1>7. (Hand(i)' <=> Hand(i)) /\ dh' = dh
  BY <1>1 DEF Hand
<1>8. QED
  BY <1>1, <1>5, <1>6, <1>7 DEF Follows

(* A call about i.                                                         *)
LEMMA FollowsStruck ==
    ASSUME CargoInv, CargoInv', NEW i \in Conts, Follows(i), Struck(i), cont'[i] # None
    PROVE  Follows(i)'
<1>1. proc' = proc /\ dh' = dh
  BY DEF Struck
<1>2. CASE dq' = dq /\ cont'[i].st = cont[i].st /\ cont'[i].tmp = cont[i].tmp
  <2>1. /\ (Told(i)' <=> Told(i)) /\ (Hand(i)' <=> Hand(i))
        /\ \A n \in DOMAIN dq : Latest(n, i)' <=> Latest(n, i)
    BY <1>1, <1>2 DEF Told, Hand, Latest
  <2>2. QED
    BY <1>1, <1>2, <2>1 DEF Follows
<1>3. ASSUME NEW n \in DOMAIN dq', \A m \in DOMAIN dq' : m <= n, dq'[n].id = i,
             dq'[n].tmp = cont'[i].tmp
      PROVE  Follows(i)'
  <2>1. DOMAIN dq' = 1..Len(dq') /\ Len(dq') \in Nat
    BY DEF CargoInv, Tables
  <2>2. Told(i)'
    BY <1>3 DEF Told
  <2>3. ASSUME NEW m \in DOMAIN dq', Latest(m, i)'
        PROVE  m = n
    <3>1. ~(n > m)
      BY <1>3, <2>3 DEF Latest
    <3>2. QED
      BY <1>3, <2>1, <3>1
  <2>4. QED
    BY <1>3, <2>2, <2>3 DEF Follows
<1>4. QED
  BY <1>2, <1>3 DEF Struck, Steers, Tells

(* A new container.                                                        *)
LEMMA FollowsBorn ==
    ASSUME CargoInv, EventsMatch, NEW c, NEW init, NEW spec, NEW m, Grows(c, init, spec, m),
           NEW i \in Fresh(m)
    PROVE  Follows(i)'
<1>1. /\ cont'[i].st = "created" /\ cont'[i].tmp = 0 /\ proc'[i].st = "created"
      /\ proc'[i].tmp = 0 /\ i > left.made /\ i \in Nat /\ left.made \in Nat
  BY GrowsIs, Numbers
<1>2. dq' = dq /\ dh' = dh
  BY DEF Grows
<1>3. ~(i <= left.made)
  BY <1>1
<1>4. \A n \in DOMAIN dq : dq[n].id # i
  BY <1>3 DEF EventsMatch, Of
<1>5. dh # None => dh.ev.id # i
  BY <1>3 DEF EventsMatch, Of
<1>6. ~Told(i)' /\ ~Hand(i)' /\ \A n \in DOMAIN dq' : ~Latest(n, i)'
  BY <1>2, <1>4, <1>5 DEF Told, Hand, Latest
<1>7. QED
  BY <1>1, <1>6 DEF Follows

(* The analyser takes the first event.                                     *)
LEMMA FollowsRecv ==
    ASSUME CargoInv, EventsMatch, NEW i \in Conts, cont[i] # None, Exists(cont[i].cargo),
           Follows(i), DockerRecv
    PROVE  Follows(i)'
<1>1. /\ DOMAIN dq = 1..Len(dq) /\ Len(dq) \in Nat /\ 1 \in DOMAIN dq
      /\ DOMAIN dq' = 1..(Len(dq) - 1)
      /\ \A n \in DOMAIN dq' : n + 1 \in DOMAIN dq /\ dq'[n] = dq[n + 1]
      /\ dh = None
  BY RecvIs
<1>2. \/ /\ dq[1].type = "destroy" /\ proc' = [proc EXCEPT ![dq[1].id] = None]
         /\ dh' = None
      \/ /\ dq[1].type # "destroy" /\ proc' = proc
         /\ \/ dh' = None /\ ~Exists(dq[1].cargo)
            \/ dh' # None /\ dh'.ev = dq[1]
  BY RecvIs
<1>3. cont' = cont
  BY DEF DockerRecv
<1>4. dq[1].type = "destroy" => dq[1].id # i
  BY <1>1 DEF CargoInv, Gone
<1>5. proc'[i] = proc[i]
  BY <1>2, <1>4 DEF CargoInv, Tables
<1>6. \A n \in DOMAIN dq : n # 1 => n - 1 \in DOMAIN dq' /\ dq'[n - 1] = dq[n]
  <2>1. \A n \in DOMAIN dq : n # 1 => n - 1 \in DOMAIN dq' /\ (n - 1) + 1 = n
    BY <1>1
  <2>2. QED
    BY <1>1, <2>1
<1>7. Told(i)' => Told(i)
  BY <1>1 DEF Told
<1>8. ASSUME NEW n \in DOMAIN dq', Latest(n, i)'
      PROVE  dq'[n].tmp = cont[i].tmp
  <2>1. dq[n + 1].id = i /\ n + 1 \in DOMAIN dq
    BY <1>1, <1>8 DEF Latest
  <2>2. \A m \in DOMAIN dq : m > n + 1 => dq[m].id # i
    <3>1. ASSUME NEW m \in DOMAIN dq, m > n + 1
          PROVE  dq[m].id # i
      <4>1. m # 1 /\ m - 1 > n
        BY <1>1, <3>1
      <4>2. m - 1 \in DOMAIN dq' /\ dq'[m - 1] = dq[m]
        BY <1>6, <4>1
      <4>3. QED
        BY <1>8, <4>1, <4>2 DEF Latest
    <3>2. QED
      BY <3>1
  <2>3. Latest(n + 1, i)
    BY <2>1, <2>2 DEF Latest
  <2>4. QED
    BY <1>1, <2>1, <2>3 DEF Follows
<1>9. CASE dq[1].id # i
  <2>1. Told(i) => Told(i)'
    BY <1>6, <1>9 DEF Told
  <2>2. ~Hand(i) /\ ~Hand(i)'
    BY <1>1, <1>2, <1>9 DEF Hand
  <2>3. QED
    BY <1>3, <1>5, <1>7, <1>8, <2>1, <2>2 DEF Follows
<1>10. CASE dq[1].id = i
  <2>1. dq[1].cargo = cont[i].cargo
    BY <1>1, <1>10 DEF EventsMatch, Of
  <2>2. dh' # None /\ dh'.ev = dq[1]
    BY <1>2, <1>4, <1>10, <2>1
  <2>3. Hand(i)'
    BY <1>10, <2>2 DEF Hand
  <2>4. ~Told(i)' => dq[1].tmp = cont[i].tmp
    <3>1. SUFFICES ASSUME ~Told(i)'
                   PROVE  Latest(1, i)
      BY <1>1 DEF Follows
    <3>2. \A m \in DOMAIN dq : m > 1 => dq[m].id # i
      BY <1>1, <1>6, <3>1 DEF Told
    <3>3. QED
      BY <1>10, <3>2 DEF Latest
  <2>5. QED
    BY <1>3, <1>8, <2>2, <2>3, <2>4 DEF Follows
<1>11. QED
  BY <1>9, <1>10

LEMMA FollowsWrite ==
    ASSUME CargoInv, EventsMatch, NEW i \in Conts, cont[i] # None, Exists(cont[i].cargo),
           Follows(i), DockerWrite
    PROVE  Follows(i)'
<1>1. /\ dh # None /\ dq' = dq /\ proc' = proc /\ cont' = cont
      /\ \/ dh' = None /\ ~Exists(dh.ev.cargo)
         \/ dh' # None /\ dh'.ev = dh.ev
  BY WriteIs DEF DockerWrite, dockerVars
<1>2. dh.ev.id = i => dh.ev.cargo = cont[i].cargo
  BY <1>1 DEF EventsMatch, Of
<1>3. (Hand(i)' <=> Hand(i)) /\ (Hand(i) => dh'.ev = dh.ev)
  BY <1>1, <1>2 DEF Hand
<1>4. (Told(i)' <=> Told(i)) /\ \A n \in DOMAIN dq : Latest(n, i)' <=> Latest(n, i)
  BY <1>1 DEF Told, Latest
<1>5. QED
  BY <1>1, <1>3, <1>4 DEF Follows

LEMMA FollowsSync ==
    ASSUME CargoInv, NEW i \in Conts, cont[i] # None, Follows(i), DockerSync
    PROVE  Follows(i)'
<1>1. /\ dh # None /\ dq' = dq /\ cont' = cont /\ dh' = None
  BY DEF DockerSync, dockerVars
<1>2. (Told(i)' <=> Told(i)) /\ \A n \in DOMAIN dq : Latest(n, i)' <=> Latest(n, i)
  BY <1>1 DEF Told, Latest
<1>3. ~Hand(i)'
  BY <1>1 DEF Hand
<1>4. CASE dh.ev.id # i
  <2>1. proc'[i] = proc[i]
    BY <1>4 DEF DockerSync, CargoInv, Tables
  <2>2. ~Hand(i)
    BY <1>4 DEF Hand
  <2>3. QED
    BY <1>1, <1>2, <1>3, <2>1, <2>2 DEF Follows
<1>5. CASE dh.ev.id = i
  <2>1. proc[i] # None /\ proc[i] \in Procs
    BY DEF CargoInv, RowPerContainer, Tables
  <2>2. PICK p : p = [proc[i] EXCEPT !.st = cont[i].st, !.tmp = dh.ev.tmp]
    OBVIOUS
  <2>3. p.st = cont[i].st /\ p.tmp = dh.ev.tmp
    BY <2>1, <2>2 DEF Procs
  <2>4. proc'[i] = p
    BY <1>5, <2>1, <2>2 DEF DockerSync, CargoInv, Tables, Present
  <2>5. Hand(i)
    BY <1>1, <1>5 DEF Hand
  <2>6. QED
    BY <1>1, <1>2, <1>3, <2>3, <2>4, <2>5 DEF Follows
<1>6. QED
  BY <1>4, <1>5

LEMMA FollowedKept ==
    ASSUME CargoInv, Steady, [Next]_vars, Housed, Followed
    PROVE  Followed'
<1>1. Basis /\ Wanes
  BY SteadyKept
<1>2. SUFFICES ASSUME Tidy', NEW i \in Conts, cont'[i] # None
               PROVE  Follows(i)'
  BY <1>1 DEF Followed, Basis
<1>3. Tidy
  BY <1>1, <1>2, SpentKept DEF Steady
<1>4. cont[i] # None => Follows(i) /\ Exists(cont[i].cargo)
  BY <1>3 DEF Followed, Housed
<1>5. CargoInv' /\ EventsMatch
  BY <1>1 DEF Basis, Steady
<1>6. CASE Silent
  <2>1. dq' = dq /\ dh' = dh /\ cont' = cont /\ proc' = proc
    BY <1>6 DEF Silent
  <2>2. QED
    BY <1>2, <1>4, <2>1, FollowsSame DEF Hand
<1>7. ASSUME NEW j \in Conts, Struck(j)
      PROVE  Follows(i)'
  <2>1. cont[i] # None
    BY <1>2, <1>7 DEF Struck, Steers, Drives
  <2>2. QED
    BY <1>2, <1>4, <1>5, <1>7, <2>1, FollowsOther, FollowsStruck
<1>8. ASSUME NEW j \in Conts, Dropped(j)
      PROVE  Follows(i)'
  <2>1. dq' = dq /\ dh' = dh /\ cont' = cont /\ cont[j] = None
        /\ proc' = [proc EXCEPT ![j] = None]
    BY <1>8 DEF Dropped
  <2>2. proc'[i] = proc[i]
    BY <1>2, <2>1 DEF CargoInv, Tables
  <2>3. QED
    BY <1>2, <1>4, <2>1, <2>2, FollowsSame DEF Hand
<1>9. ASSUME NEW c, NEW init, NEW spec, NEW m, Grows(c, init, spec, m)
      PROVE  Follows(i)'
  <2>1. CASE i \in Fresh(m)
    BY <1>5, <1>9, <2>1, FollowsBorn
  <2>2. CASE i \notin Fresh(m)
    <3>1. cont'[i] = cont[i] /\ proc'[i] = proc[i] /\ dq' = dq /\ dh' = dh
      BY <1>9, <2>2, GrowsIs DEF Grows
    <3>2. QED
      BY <1>2, <1>4, <3>1, FollowsSame DEF Hand
  <2>3. QED
    BY <2>1, <2>2
<1>10. CASE Outer
  BY <1>6, <1>7, <1>8, <1>10, OuterMoves
<1>11. CASE DockerStep
  <2>1. cont' = cont
    BY <1>11, DockerMoves
  <2>2. QED
    BY <1>2, <1>4, <1>5, <1>11, <2>1, FollowsRecv, FollowsWrite, FollowsSync DEF DockerStep
<1>12. ASSUME NEW t \in TaskIds, TaskStep(t)
       PROVE  Follows(i)'
  BY <1>6, <1>7, <1>8, <1>9, <1>12, TaskDocks DEF Docks, Adds
<1>13. QED
  BY <1>10, <1>11, <1>12, Steps

-----------------------------------------------------------------------------
(* The invariant, and what follows from it.                                *)
InstanceInv == CargoInv /\ Steady /\ Swept /\ Deleting /\ Housed /\ Followed

LEMMA InstanceInit ==
    ASSUME Init
    PROVE  InstanceInv
<1>1. CargoInv /\ Steady
  BY InitHolds, SteadyInit
<1>2. /\ \A i \in Conts : cont[i] = None /\ proc[i] = None
      /\ \A t \in TaskIds : body[t] = None
  BY DEF Init
<1>3. QED
  BY <1>1, <1>2 DEF InstanceInv, Swept, Deleting, Covers, Deletes, Housed, Followed

LEMMA InstanceStep ==
    ASSUME InstanceInv, [Next]_vars
    PROVE  InstanceInv'
<1>1. CargoInv' /\ Steady' /\ Swept'
  BY SteadyKept, SweptKept DEF InstanceInv, Basis
<1>2. Deleting' /\ Housed' /\ Followed'
  BY DeletingKept, HousedKept, FollowedKept DEF InstanceInv
<1>3. QED
  BY <1>1, <1>2 DEF InstanceInv

LEMMA InstanceInvariant == Spec => []InstanceInv
<1>1. Init => InstanceInv
  BY InstanceInit
<1>2. InstanceInv /\ [Next]_vars => InstanceInv'
  BY InstanceStep
<1>3. QED
  BY <1>1, <1>2, PTL DEF Spec

(* A cargo that is gone leaves no container behind: cargo::delete works    *)
(* from the process rows it read first, and no task, late removal or       *)
(* request makes or starts a container of the cargo behind its back.       *)
THEOREM NoOrphans == Spec => []NoOrphan
<1>1. InstanceInv => NoOrphan
  BY DEF InstanceInv, Housed, NoOrphan
<1>2. QED
  BY <1>1, InstanceInvariant, PTL

(* Once docker's events are handled the processes table says what docker   *)
(* says, whatever the order in which exec_docker, the tasks and the late   *)
(* removals wrote and deleted its rows.                                    *)
THEOREM RowsSettleDown == Spec => []RowsSettle
<1>1. InstanceInv => RowsSettle
  <2>1. SUFFICES ASSUME InstanceInv, Tidy, dq = <<>>, dh = None, NEW i \in Conts
                 PROVE  /\ proc[i] = None <=> cont[i] = None
                        /\ cont[i] # None => proc[i].st = cont[i].st /\ proc[i].tmp = cont[i].tmp
    BY DEF RowsSettle
  <2>2. DOMAIN dq = {}
    BY <2>1
  <2>3. ~Told(i) /\ ~Hand(i)
    BY <2>1, <2>2 DEF Told, Hand
  <2>4. cont[i] # None => Follows(i)
    BY <2>1 DEF InstanceInv, Followed
  <2>5. cont[i] # None => proc[i] # None
    BY <2>1 DEF InstanceInv, CargoInv, RowPerContainer
  <2>6. cont[i] = None => proc[i] = None
    BY <2>1, <2>2 DEF InstanceInv, Swept
  <2>7. QED
    BY <2>3, <2>4, <2>5, <2>6 DEF Follows
<1>2. QED
  BY <1>1, InstanceInvariant, PTL

-----------------------------------------------------------------------------
(* The init container of a cargo comes first.  As long as no client went   *)
(* straight to docker a start or an update runs the newest init container  *)
(* of its cargo, and when it comes to the instances has one that ended     *)
(* well, which an update made itself.                                      *)
Staging == HasInit /\ Tidy /\ left.seen \cap {"restart", "process"} = {}

InitOf(j, c) == cont[j] # None /\ cont[j].cargo = c /\ cont[j].init

Top(j, c) == \A k \in Conts : InitOf(k, c) => k <= j

Ready(j, c) == InitOf(j, c) /\ cont[j].st = "down" /\ Top(j, c)

Premade(act, rows, spec, j) ==
    act = "Updating" => rows[j] = None /\ (cont[j] # None => cont[j].spec = spec)

Poised(c, act, pc, todo, new, rows, spec) ==
    /\ pc = "init" /\ todo # {} => Top(Newest(todo), c)
    /\ pc \in {"initrun", "initwait"} =>
          \E j \in Conts : todo = {j} /\ Top(j, c) /\ Premade(act, rows, spec, j)
    /\ pc \in {"create", "list", "run"} =>
          \E j \in Conts : Ready(j, c) /\ Premade(act, rows, spec, j)
    /\ act = "Updating" => \A i \in new : cont[i] # None => cont[i].spec = spec

Stage(t) ==
    Launches(t) => Poised(Obj(t), task[t].ev.action, body[t].pc, body[t].todo, body[t].new,
                          body[t].rows, body[t].spec)

(* A late removal takes no init container that may be waited for: there is *)
(* a newer one, or the cargo is being deleted.                             *)
Superseded(d, c) ==
    \/ \E k \in Conts : InitOf(k, c) /\ k > d
    \/ \E t \in TaskIds : Deletes(t) /\ Obj(t) = c

Spared == \A d \in doomed : \A c \in Cargoes : InitOf(d, c) => Superseded(d, c)

Staged == Staging => Spared /\ \A t \in TaskIds : Stage(t)

(* No container of the cargo c is made in this step.                       *)
Barren(c) == \A k \in Conts : cont'[k] # None /\ cont'[k].cargo = c => cont[k] # None

LEMMA NewestTop ==
    ASSUME CargoInv, NEW S \in SUBSET Conts, S # {}
    PROVE  Newest(S) \in Conts /\ \A j \in S : j <= Newest(S)
<1>1. left.w.conts \in Nat
  BY ConstAssumption DEF CargoInv, Bounds
<1>2. QED
  BY <1>1, NewestOf DEF Conts

LEMMA NewestOne ==
    ASSUME CargoInv, NEW j \in Conts
    PROVE  Newest({j}) = j
BY NewestCont DEF CargoInv

LEMMA TopKept ==
    ASSUME Basis, NEW c, NEW j, Top(j, c), Barren(c)
    PROVE  Top(j, c)'
<1>1. ASSUME NEW k \in Conts, InitOf(k, c)'
      PROVE  k <= j
  <2>1. cont'[k] # None /\ cont'[k].cargo = c /\ cont'[k].init
    BY <1>1 DEF InitOf
  <2>2. cont[k] # None
    BY <2>1 DEF Barren
  <2>3. Same(k)
    BY <2>1, <2>2, Lasting
  <2>4. QED
    BY <2>1, <2>2, <2>3 DEF Top, InitOf, Same
<1>2. QED
  BY <1>1 DEF Top, Basis

LEMMA ReadyKept ==
    ASSUME Basis, NEW c, NEW j \in Conts, Ready(j, c), Top(j, c)', cont'[j] = cont[j]
    PROVE  Ready(j, c)'
BY DEF Ready, InitOf

LEMMA PremadeKept ==
    ASSUME Basis, NEW act, NEW rows, NEW spec, NEW j \in Conts, j <= left.made,
           Premade(act, rows, spec, j)
    PROVE  Premade(act, rows, spec, j)'
BY DEF Basis, Kin, Same, Premade

LEMMA MadeIs ==
    ASSUME CargoInv, NEW j \in Conts, cont[j] # None
    PROVE  j <= left.made
BY Numbers DEF CargoInv, Gone

LEMMA SpecsKept ==
    ASSUME Basis, NEW new \in SUBSET Conts, \A i \in new : i <= left.made, NEW spec,
           \A i \in new : cont[i] # None => cont[i].spec = spec
    PROVE  \A i \in new : cont'[i] # None => cont'[i].spec = spec
BY DEF Basis, Kin, Same

(* The step leaves a task what it is poised for.                           *)
LEMMA PoisedKept ==
    ASSUME Basis, NEW c, NEW act, NEW pc, NEW todo \in SUBSET Conts, NEW new \in SUBSET Conts,
           NEW rows, NEW spec, \A i \in todo \cup new : i <= left.made,
           Poised(c, act, pc, todo, new, rows, spec), Barren(c),
           pc \in {"create", "list", "run"} => \A j \in Conts : Ready(j, c) => cont'[j] = cont[j]
    PROVE  Poised(c, act, pc, todo, new, rows, spec)'
<1>1. pc = "init" /\ todo # {} => Top(Newest(todo), c)'
  <2>1. PICK n : n = Newest(todo)
    OBVIOUS
  <2>2. Top(n, c) => Top(n, c)'
    BY TopKept
  <2>3. QED
    BY <2>1, <2>2 DEF Poised, Newest, Top
<1>2. ASSUME pc \in {"initrun", "initwait"}
      PROVE  \E j \in Conts : todo = {j} /\ Top(j, c)' /\ Premade(act, rows, spec, j)'
  <2>1. PICK j \in Conts : todo = {j} /\ Top(j, c) /\ Premade(act, rows, spec, j)
    BY <1>2 DEF Poised
  <2>2. QED
    BY <2>1, TopKept, PremadeKept
<1>3. ASSUME pc \in {"create", "list", "run"}
      PROVE  \E j \in Conts : Ready(j, c)' /\ Premade(act, rows, spec, j)'
  <2>1. PICK j \in Conts : Ready(j, c) /\ Premade(act, rows, spec, j)
    BY <1>3 DEF Poised
  <2>2. Top(j, c)' /\ cont'[j] = cont[j] /\ j <= left.made
    BY <1>3, <2>1, TopKept, MadeIs DEF Ready, InitOf, Basis
  <2>3. QED
    BY <2>1, <2>2, ReadyKept, PremadeKept
<1>4. act = "Updating" => \A i \in new : cont'[i] # None => cont'[i].spec = spec
  BY SpecsKept DEF Poised
<1>5. QED
  BY <1>1, <1>2, <1>3, <1>4 DEF Poised, Basis

LEMMA StageNow ==
    ASSUME NEW t \in TaskIds, NEW c, NEW act, NEW pc, NEW todo, NEW new, NEW rows, NEW spec,
           task'[t].ev.obj = c, task'[t].ev.action = act, body'[t].pc = pc, body'[t].todo = todo,
           body'[t].new = new, body'[t].rows = rows, body'[t].spec = spec,
           Poised(c, act, pc, todo, new, rows, spec)'
    PROVE  Stage(t)'
BY DEF Stage, Obj

(* A step of no task, of docker's analyser or of another task.             *)
Aside(u) == Outer \/ DockerStep \/ \E t \in TaskIds \ {u} : TaskStep(t)

LEMMA AsideBarren ==
    ASSUME Basis, NEW u \in TaskIds, Launches(u), Aside(u)
    PROVE  Barren(Obj(u))
<1>1. SUFFICES ASSUME NEW k \in Conts, cont'[k] # None, cont'[k].cargo = Obj(u), cont[k] = None
               PROVE  FALSE
  BY DEF Barren
<1>2. PICK t \in TaskIds \ {u} : TaskStep(t)
  BY <1>1, NoneBorn DEF Aside
<1>3. PICK m \in Nat : Adds(t, m) /\ k \in Fresh(m)
  BY <1>1, <1>2, Newborn
<1>4. Launches(t) /\ Obj(t) = Obj(u)
  BY <1>1, <1>3, BornOf
<1>5. Obj(t) \in Cargoes
  BY <1>4, HasCargo, Acts DEF Launches, Basis
<1>6. QED
  BY <1>2, <1>4, <1>5, OneAtATime DEF Launches, Basis

(* Nobody touches the init container another task counts on.               *)
LEMMA ReadyStays ==
    ASSUME CargoInv, Steady, Basis, [Next]_vars, Staging', Spared,
           NEW u \in TaskIds, Launches(u), Aside(u), NEW j \in Conts, Ready(j, Obj(u))
    PROVE  cont'[j] = cont[j]
<1>1. PICK c : c = Obj(u) /\ c \in Cargoes
  BY HasCargo, Acts DEF Launches
<1>2. InitOf(j, c) /\ cont[j] # None /\ cont[j].st = "down" /\ Top(j, c) /\ cont[j].cargo = c
  BY <1>1 DEF Ready, InitOf
<1>3. CASE DockerStep
  BY <1>3, DockerMoves
<1>4. CASE Outer
  <2>1. CASE Silent \/ \E i \in Conts : Dropped(i)
    BY <2>1 DEF Silent, Dropped
  <2>2. ASSUME NEW i \in Conts, Struck(i), Outlet(i)
        PROVE  cont'[j] = cont[j]
    <3>1. CASE i # j
      BY <2>2, <3>1 DEF Struck, Steers, Drives
    <3>2. CASE i = j
      <4>1. "process" \notin left'.seen /\ "restart" \notin left'.seen
        BY DEF Staging
      <4>2. ~\E k \in Clients : req[k] # None /\ req[k].op = "restart"
        BY <4>1, SteadyKept DEF Steady, Asked, Wanes
      <4>3. j \in doomed
        BY <1>2, <2>2, <3>2, <4>1, <4>2 DEF Outlet
      <4>4. Superseded(j, c)
        BY <1>1, <1>2, <4>3 DEF Spared
      <4>5. ASSUME NEW k \in Conts, InitOf(k, c), k > j
            PROVE  FALSE
        <5>1. k <= j /\ k \in Nat /\ j \in Nat
          BY <1>2, <4>5, Numbers DEF Top
        <5>2. QED
          BY <4>5, <5>1
      <4>6. ASSUME NEW t \in TaskIds, Deletes(t), Obj(t) = c
            PROVE  FALSE
        <5>1. t = u
          BY <1>1, <4>6, OneAtATime DEF Deletes, Launches
        <5>2. QED
          BY <4>6, <5>1 DEF Deletes, Launches, Launching
      <4>7. QED
        BY <4>4, <4>5, <4>6 DEF Superseded
    <3>3. QED
      BY <3>1, <3>2
  <2>3. QED
    BY <1>4, <2>1, <2>2, OuterMoves
<1>5. ASSUME NEW t \in TaskIds \ {u}, TaskStep(t)
      PROVE  cont'[j] = cont[j]
  <2>1. CASE Silent \/ \E i \in Conts : Dropped(i)
    BY <2>1 DEF Silent, Dropped
  <2>2. ASSUME NEW m \in Nat, Adds(t, m)
        PROVE  cont'[j] = cont[j]
    BY <1>2, <2>2, GrowsIs DEF Adds
  <2>3. ASSUME NEW i \in Conts, Struck(i), Hits(t, i)
        PROVE  cont'[j] = cont[j]
    <3>1. CASE i # j
      BY <2>3, <3>1 DEF Struck, Steers, Drives
    <3>2. CASE i = j
      <4>1. Obj(t) = c /\ body[t] # None
        BY <1>2, <2>3, <3>2, TodoOf DEF Hits
      <4>2. QED
        BY <1>1, <1>5, <4>1, OneAtATime DEF Launches
    <3>3. QED
      BY <3>1, <3>2
  <2>4. QED
    BY <1>5, <2>1, <2>2, <2>3, TaskDocks DEF Docks
<1>6. QED
  BY <1>3, <1>4, <1>5 DEF Aside

LEMMA StillStage ==
    ASSUME CargoInv, Steady, Basis, [Next]_vars, Staging', Spared,
           NEW u \in TaskIds, Still(u), Aside(u), Stage(u)
    PROVE  Stage(u)'
<1>1. SUFFICES ASSUME Launches(u)
               PROVE  Stage(u)'
  BY DEF Stage, Still, Launches
<1>2. PICK c, act, pc, todo, new, rows, spec :
         /\ c = Obj(u) /\ act = task[u].ev.action /\ pc = body[u].pc
         /\ todo = body[u].todo /\ new = body[u].new /\ rows = body[u].rows /\ spec = body[u].spec
  OBVIOUS
<1>3. todo \in SUBSET Conts /\ new \in SUBSET Conts
  BY <1>1, <1>2, FrameOf DEF Launches
<1>4. \A i \in todo \cup new : i <= left.made
  BY <1>1, <1>2 DEF Steady, Sound, Fits, Of, Launches
<1>5. Poised(c, act, pc, todo, new, rows, spec)
  BY <1>1, <1>2 DEF Stage
<1>6. Barren(c) /\ \A j \in Conts : Ready(j, c) => cont'[j] = cont[j]
  BY <1>1, <1>2, AsideBarren, ReadyStays
<1>7. Poised(c, act, pc, todo, new, rows, spec)'
  BY <1>3, <1>4, <1>5, <1>6, PoisedKept
<1>8. QED
  BY <1>2, <1>7, StageNow DEF Still, Obj

-----------------------------------------------------------------------------
(* The steps of the task itself.                                           *)
LEMMA Unborn ==
    ASSUME NEW c, Silent \/ \E i \in Conts : Struck(i) \/ Dropped(i)
    PROVE  Barren(c)
BY DEF Silent, Struck, Dropped, Steers, Drives, Barren

LEMMA MovesStage ==
    ASSUME CargoInv, Steady, Basis, NEW t \in TaskIds, Launches(t), Alone(t), NEW pc,
           NEW todo \in SUBSET Conts, \A i \in todo : i <= left.made, Turns(t, pc, todo),
           Poised(Obj(t), task[t].ev.action, pc, todo, body[t].new, body[t].rows, body[t].spec),
           Barren(Obj(t)),
           pc \in {"create", "list", "run"} =>
               \A j \in Conts : Ready(j, Obj(t)) => cont'[j] = cont[j]
    PROVE  Stage(t)'
<1>1. PICK c, act, new, rows, spec :
         /\ c = Obj(t) /\ act = task[t].ev.action
         /\ new = body[t].new /\ rows = body[t].rows /\ spec = body[t].spec
  OBVIOUS
<1>2. new \in SUBSET Conts /\ \A i \in new : i <= left.made
  BY <1>1, FrameOf DEF Launches, Steady, Sound, Fits, Of
<1>3. Poised(c, act, pc, todo, new, rows, spec)'
  BY <1>1, <1>2, PoisedKept
<1>4. /\ task'[t] = task[t] /\ body'[t].pc = pc /\ body'[t].todo = todo
      /\ body'[t].new = new /\ body'[t].rows = rows /\ body'[t].spec = spec
  BY <1>1 DEF Turns, GoesOn, Alone
<1>5. QED
  BY <1>1, <1>3, <1>4, StageNow DEF Obj

(* Where no init container is waited for or counted on.                    *)
LEMMA IdleStage ==
    ASSUME CargoInv, Steady, Basis, NEW t \in TaskIds, Launches(t), Stage(t), Alone(t), NEW pc,
           NEW todo, NEW rows, GoesOn(t, pc, todo, body[t].new, rows),
           pc \in {"rename", "undo", "back", "final", "end"} \/ (pc = "init" /\ todo = {})
    PROVE  Stage(t)'
<1>1. PICK c, act, new, spec :
         c = Obj(t) /\ act = task[t].ev.action /\ new = body[t].new /\ spec = body[t].spec
  OBVIOUS
<1>2. new \in SUBSET Conts /\ \A i \in new : i <= left.made
  BY <1>1, FrameOf DEF Launches, Steady, Sound, Fits, Of
<1>3. act = "Updating" => \A i \in new : cont[i] # None => cont[i].spec = spec
  BY <1>1 DEF Stage, Poised
<1>4. act = "Updating" => \A i \in new : cont'[i] # None => cont'[i].spec = spec
  BY <1>2, <1>3, SpecsKept
<1>5. Poised(c, act, pc, todo, new, rows, spec)'
  BY <1>4 DEF Poised
<1>6. /\ task'[t] = task[t] /\ body'[t].pc = pc /\ body'[t].todo = todo
      /\ body'[t].new = new /\ body'[t].rows = rows /\ body'[t].spec = spec
  BY <1>1 DEF GoesOn, Alone
<1>7. QED
  BY <1>1, <1>5, <1>6, StageNow DEF Obj

LEMMA RunLaunches ==
    ASSUME NEW t, NEW acts, NEW pc, Runs(t, acts, pc), acts \subseteq Launching
    PROVE  Launches(t) /\ body[t].pc = pc
BY DEF Runs, Launches

LEMMA EndedStage ==
    ASSUME NEW t, Ended(t)
    PROVE  Stage(t)'
BY DEF Ended, Stage, Launches

LEMMA PoisedNow ==
    ASSUME NEW t, Launches(t), Stage(t), NEW pc, body[t].pc = pc
    PROVE  Poised(Obj(t), task[t].ev.action, pc, body[t].todo, body[t].new, body[t].rows,
                  body[t].spec)
BY DEF Stage

LEMMA ReadCargoStage ==
    ASSUME CargoInv, NEW t \in TaskIds, ReadCargo(t)
    PROVE  Stage(t)'
<1>1. \/ Ended(t)
      \/ body'[t].pc = "rows" /\ body'[t].new = {}
  BY ReadCargoMoves
<1>2. QED
  BY <1>1, EndedStage DEF Stage, Poised

LEMMA ReadStartStage ==
    ASSUME CargoInv, Steady, Basis, HasInit, NEW t \in TaskIds, Stage(t), ReadStart(t)
    PROVE  Stage(t)'
<1>1. PICK c : c = Obj(t)
  OBVIOUS
<1>2. /\ Launches(t) /\ Alone(t) /\ Silent /\ Turns(t, "init", InitsOf(c))
      /\ Runs(t, {"Starting"}, "rows") /\ task[t].ev.action = "Starting"
  BY <1>1, ReadStartMoves, RunLaunches DEF Launching, Runs
<1>3. PICK todo : todo = InitsOf(c)
  OBVIOUS
<1>4. todo \in SUBSET Conts /\ \A i \in todo : i <= left.made
  BY <1>3 DEF InitsOf, ProcsOf, Basis, Made
<1>5. \A k \in Conts : InitOf(k, c) => k \in todo
  BY <1>3 DEF InitsOf, ProcsOf, InstancesOf, InitOf, CargoInv, RowPerContainer, Steady, Matched
<1>6. todo # {} => Top(Newest(todo), c)
  BY <1>4, <1>5, NewestTop DEF Top
<1>7. Poised(c, task[t].ev.action, "init", todo, body[t].new, body[t].rows, body[t].spec)
  BY <1>2, <1>6 DEF Poised
<1>8. QED
  BY <1>1, <1>2, <1>3, <1>4, <1>7, Unborn, MovesStage

LEMMA CreateInitStage ==
    ASSUME CargoInv, Steady, Basis, NEW t \in TaskIds, Stage(t), CreateInit(t)
    PROVE  Stage(t)'
<1>1. PICK c, act, new, rows, spec :
         /\ c = Obj(t) /\ act = task[t].ev.action
         /\ new = body[t].new /\ rows = body[t].rows /\ spec = body[t].spec
  OBVIOUS
<1>2. Launches(t) /\ Alone(t) /\ body[t].pc = "init"
  BY CreateInitMoves, RunLaunches
<1>3. Poised(c, act, "init", body[t].todo, new, rows, spec)
  BY <1>1, <1>2, PoisedNow
<1>4. /\ body[t].todo \subseteq Conts /\ new \subseteq Conts
      /\ \A i \in body[t].todo \cup new : i <= left.made
      /\ \A i \in Conts : rows[i] # None => i <= left.made
      /\ act = "Updating" => body[t].todo = {}
  BY <1>1, <1>2, FrameOf DEF Launches, Steady, Sound, Fits, Of
<1>5. CASE Grows(Obj(t), TRUE, body[t].spec, 1) /\ Turns(t, "initrun", Fresh(1))
  <2>1. Grows(c, TRUE, spec, 1)
    BY <1>1, <1>5
  <2>2. PICK yes : yes = TRUE
    OBVIOUS
  <2>3. Grows(c, yes, spec, 1)
    BY <2>1, <2>2
  <2>4. /\ left'.made = left.made + 1 /\ Fresh(1) \subseteq Conts /\ left.made \in Nat
        /\ Conts \subseteq Nat
        /\ \A i \in Fresh(1) : cont'[i].spec = spec
    BY <2>3, GrowsIs, Numbers
  <2>5. PICK j \in Conts : j = left.made + 1 /\ Fresh(1) = {j}
    BY <2>4 DEF Fresh
  <2>6. \A k \in Conts : cont'[k] # None => k <= j
    <3>1. \A k \in Conts : k > left'.made => cont'[k] = None
      BY DEF Basis, CargoInv, Gone
    <3>2. QED
      BY <2>4, <2>5, <3>1
  <2>7. Top(j, c)'
    BY <2>6 DEF Top, InitOf, Basis
  <2>8. rows[j] = None
    BY <1>4, <2>4, <2>5
  <2>9. Premade(act, rows, spec, j)'
    BY <2>4, <2>5, <2>8 DEF Premade
  <2>10. act = "Updating" => \A i \in new : cont'[i] # None => cont'[i].spec = spec
    BY <1>3, <1>4, SpecsKept DEF Poised
  <2>11. PICK todo : todo = {j}
    OBVIOUS
  <2>12. Poised(c, act, "initrun", todo, new, rows, spec)'
    <3>1. \E k \in Conts' : todo = {k} /\ Top(k, c)' /\ Premade(act, rows, spec, k)'
      BY <2>7, <2>9, <2>11 DEF Basis
    <3>2. QED
      BY <2>10, <3>1 DEF Poised
  <2>13. /\ task'[t] = task[t] /\ body'[t].pc = "initrun" /\ body'[t].todo = todo
         /\ body'[t].new = new /\ body'[t].rows = rows /\ body'[t].spec = spec
    BY <1>1, <1>2, <1>5, <2>5, <2>11 DEF Turns, GoesOn, Alone
  <2>14. QED
    BY <1>1, <2>12, <2>13, StageNow DEF Obj
<1>6. CASE Ended(t)
  BY <1>6, EndedStage
<1>7. CASE body[t].todo # {} /\ Silent /\ Turns(t, "initrun", {Newest(body[t].todo)})
  <2>1. PICK j : j = Newest(body[t].todo)
    OBVIOUS
  <2>2. j \in Conts /\ j \in body[t].todo
    BY <1>4, <1>7, <2>1, NewestCont DEF CargoInv
  <2>3. Top(j, c) /\ act # "Updating"
    BY <1>3, <1>4, <1>7, <2>1 DEF Poised
  <2>4. Poised(c, act, "initrun", {j}, new, rows, spec)
    BY <2>2, <2>3 DEF Poised, Premade
  <2>5. \A i \in {j} : i <= left.made
    BY <1>4, <2>2
  <2>6. Turns(t, "initrun", {j}) /\ Barren(Obj(t))
    BY <1>7, <2>1, Unborn
  <2>7. QED
    BY <1>1, <1>2, <2>2, <2>4, <2>5, <2>6, MovesStage
<1>8. QED
  BY <1>5, <1>6, <1>7, CreateInitMoves

LEMMA InitStage ==
    ASSUME CargoInv, Steady, Basis, NEW t \in TaskIds, Stage(t), StartInit(t) \/ WaitInit(t)
    PROVE  Stage(t)'
<1>1. PICK c, act, new, rows, spec :
         /\ c = Obj(t) /\ act = task[t].ev.action
         /\ new = body[t].new /\ rows = body[t].rows /\ spec = body[t].spec
  OBVIOUS
<1>2. PICK pc \in {"initrun", "initwait"} : Launches(t) /\ Alone(t) /\ body[t].pc = pc
  BY StartInitMoves, WaitInitMoves, RunLaunches
<1>3. Poised(c, act, pc, body[t].todo, new, rows, spec)
  BY <1>1, <1>2, PoisedNow
<1>4. PICK j \in Conts : body[t].todo = {j} /\ Top(j, c) /\ Premade(act, rows, spec, j)
  BY <1>3 DEF Poised
<1>5. act = "Updating" => \A i \in new : cont[i] # None => cont[i].spec = spec
  BY <1>3 DEF Poised
<1>6. j <= left.made /\ (cont[j] # None => cont[j].init /\ cont[j].cargo = c)
  BY <1>1, <1>2, <1>4 DEF Launches, Steady, Sound, Fits, Of, Initial
<1>7. CASE Ended(t)
  BY <1>7, EndedStage
<1>8. CASE StartInit(t) /\ ~Ended(t)
  <2>1. Struck(j) /\ Turns(t, "initwait", {j})
    BY <1>4, <1>8, StartInitMoves
  <2>2. Poised(c, act, "initwait", {j}, new, rows, spec)
    BY <1>4, <1>5 DEF Poised
  <2>3. Barren(Obj(t)) /\ \A i \in {j} : i <= left.made
    BY <1>6, <2>1, Unborn
  <2>4. QED
    BY <1>1, <1>2, <2>1, <2>2, <2>3, MovesStage
<1>9. CASE WaitInit(t) /\ ~Ended(t)
  <2>1. Newest(body[t].todo) = j
    BY <1>4, NewestOne
  <2>2. PICK q \in {"create", "list"} : Turns(t, q, {})
    BY <1>9, WaitInitMoves
  <2>3. cont[j] # None /\ cont[j].st = "down" /\ Silent
    BY <1>9, <2>1, WaitInitMoves
  <2>4. Ready(j, c)
    BY <1>4, <1>6, <2>3 DEF Ready, InitOf
  <2>5. Poised(c, act, q, {}, new, rows, spec)
    BY <1>4, <1>5, <2>2, <2>4 DEF Poised
  <2>6. Barren(Obj(t)) /\ \A k \in Conts : cont'[k] = cont[k]
    BY <2>3, Unborn DEF Silent
  <2>7. QED
    BY <1>1, <1>2, <2>2, <2>5, <2>6, MovesStage
<1>10. QED
  BY <1>7, <1>8, <1>9

LEMMA CreateInstancesStage ==
    ASSUME CargoInv, Steady, Basis, NEW t \in TaskIds, Stage(t), CreateInstances(t)
    PROVE  Stage(t)'
<1>1. PICK c, act, rows, spec :
         c = Obj(t) /\ act = task[t].ev.action /\ rows = body[t].rows /\ spec = body[t].spec
  OBVIOUS
<1>2. Launches(t) /\ Alone(t) /\ body[t].pc = "create"
  BY CreateInstancesMoves, RunLaunches
<1>3. SUFFICES ASSUME ~Ended(t)
               PROVE  Stage(t)'
  BY EndedStage
<1>4. PICK m \in Nat : /\ Grows(Obj(t), FALSE, body[t].spec, m)
                       /\ GoesOn(t, "list", {}, Fresh(m), body[t].rows)
  BY <1>3, CreateInstancesMoves
<1>5. Poised(c, act, "create", body[t].todo, body[t].new, rows, spec)
  BY <1>1, <1>2, PoisedNow
<1>6. PICK j \in Conts : Ready(j, c) /\ Premade(act, rows, spec, j)
  BY <1>5 DEF Poised
<1>7. PICK no, new : no = FALSE /\ new = Fresh(m)
  OBVIOUS
<1>8. Grows(c, no, spec, m)
  BY <1>1, <1>4, <1>7
<1>9. /\ \A i \in Fresh(m) : cont[i] = None /\ cont'[i].spec = spec /\ cont'[i].init = no
      /\ \A i \in Conts \ Fresh(m) : cont'[i] = cont[i]
  BY <1>8, GrowsIs
<1>10. cont[j] # None /\ j <= left.made
  BY <1>6, MadeIs DEF Ready, InitOf
<1>11. cont'[j] = cont[j]
  BY <1>9, <1>10
<1>12. Top(j, c)'
  BY <1>6, <1>7, <1>9 DEF Ready, Top, InitOf, Basis
<1>13. Ready(j, c)' /\ Premade(act, rows, spec, j)'
  BY <1>6, <1>10, <1>11, <1>12, ReadyKept, PremadeKept
<1>14. \E k \in Conts' : Ready(k, c)' /\ Premade(act, rows, spec, k)'
  BY <1>13 DEF Basis
<1>15. \A i \in new : cont'[i] # None => cont'[i].spec = spec
  BY <1>7, <1>9
<1>16. PICK todo : todo = {}
  OBVIOUS
<1>17. Poised(c, act, "list", todo, new, rows, spec)'
  BY <1>14, <1>15 DEF Poised
<1>18. /\ task'[t] = task[t] /\ body'[t].pc = "list" /\ body'[t].todo = todo
       /\ body'[t].new = new /\ body'[t].rows = rows /\ body'[t].spec = spec
  BY <1>1, <1>2, <1>4, <1>7, <1>16 DEF GoesOn, Alone
<1>19. QED
  BY <1>1, <1>17, <1>18, StageNow DEF Obj

LEMMA RunStage ==
    ASSUME CargoInv, Steady, Basis, NEW t \in TaskIds, Stage(t),
           ListInstances(t) \/ StartInstance(t)
    PROVE  Stage(t)'
<1>1. PICK c, act, new, rows, spec :
         /\ c = Obj(t) /\ act = task[t].ev.action
         /\ new = body[t].new /\ rows = body[t].rows /\ spec = body[t].spec
  OBVIOUS
<1>2. PICK pc \in {"list", "run"} : Launches(t) /\ Alone(t) /\ body[t].pc = pc
  BY ListInstancesMoves, StartInstanceMoves, RunLaunches
<1>3. Poised(c, act, pc, body[t].todo, new, rows, spec)
  BY <1>1, <1>2, PoisedNow
<1>4. \A todo : Poised(c, act, "run", todo, new, rows, spec)
  BY <1>3 DEF Poised
<1>5. CASE ListInstances(t)
  <2>1. PICK todo : todo = InstancesOf(Obj(t)) /\ Turns(t, "run", todo) /\ Silent
    BY <1>5, ListInstancesMoves
  <2>2. todo \in SUBSET Conts /\ \A i \in todo : i <= left.made
    BY <2>1 DEF InstancesOf, ProcsOf, Basis, Made
  <2>3. Barren(Obj(t)) /\ \A k \in Conts : cont'[k] = cont[k]
    BY <2>1, Unborn DEF Silent
  <2>4. QED
    BY <1>1, <1>2, <1>4, <2>1, <2>2, <2>3, MovesStage
<1>6. CASE StartInstance(t)
  <2>1. PICK i \in body[t].todo : Struck(i) /\ Turns(t, "run", body[t].todo \ {i})
    BY <1>6, StartInstanceMoves
  <2>2. body[t].todo \subseteq Conts /\ body[t].pc = "run"
    BY <1>2, <1>6, StartInstanceMoves, FrameOf DEF Runs, Launches
  <2>3. Regular(body[t].todo) /\ \A k \in body[t].todo : k <= left.made
    BY <1>2, <2>2 DEF Launches, Steady, Sound, Fits, Of
  <2>4. PICK todo : todo = body[t].todo \ {i}
    OBVIOUS
  <2>5. todo \in SUBSET Conts /\ \A k \in todo : k <= left.made
    BY <2>2, <2>3, <2>4
  <2>6. Barren(Obj(t))
    BY <2>1, <2>2, Unborn
  <2>7. ASSUME NEW j \in Conts, Ready(j, Obj(t))
        PROVE  cont'[j] = cont[j]
    <3>1. j # i
      BY <2>3, <2>7 DEF Ready, InitOf, Regular
    <3>2. QED
      BY <2>1, <3>1 DEF Struck, Steers, Drives
  <2>8. QED
    BY <1>1, <1>2, <1>4, <2>1, <2>4, <2>5, <2>6, <2>7, MovesStage
<1>7. QED
  BY <1>5, <1>6

LEMMA RenameStage ==
    ASSUME CargoInv, Steady, Basis, HasInit, NEW t \in TaskIds, Stage(t),
           ReadUpdate(t) \/ StopOld(t) \/ RenameOld(t) \/ RenamedAll(t)
    PROVE  Stage(t)'
<1>1. Launches(t) /\ Alone(t)
  BY ReadUpdateMoves, StopOldMoves, RenameOldMoves, RenamedAllMoves, RunLaunches DEF Launching
<1>2. CASE ReadUpdate(t)
  <2>1. PICK rows : rows = [i \in Conts |-> IF i \in ProcsOf(Obj(t)) THEN proc[i] ELSE None]
    OBVIOUS
  <2>2. GoesOn(t, "rename", ProcsOf(Obj(t)), body[t].new, rows)
    BY <1>2, <2>1, ReadUpdateMoves
  <2>3. QED
    BY <1>1, <2>2, IdleStage
<1>3. CASE StopOld(t)
  <2>1. \E todo, rows : GoesOn(t, "rename", todo, body[t].new, rows)
    BY <1>3, StopOldMoves DEF Turns
  <2>2. QED
    BY <1>1, <2>1, IdleStage
<1>4. CASE RenameOld(t)
  <2>1. \E todo : GoesOn(t, "rename", todo, body[t].new, body[t].rows)
    BY <1>4, RenameOldMoves DEF Turns
  <2>2. QED
    BY <1>1, <2>1, IdleStage
<1>5. CASE RenamedAll(t)
  <2>1. Ended(t) \/ GoesOn(t, "init", {}, body[t].new, body[t].rows)
    BY <1>5, RenamedAllMoves DEF Turns
  <2>2. QED
    BY <1>1, <2>1, EndedStage, IdleStage
<1>6. QED
  BY <1>2, <1>3, <1>4, <1>5

LEMMA EndStage ==
    ASSUME CargoInv, Steady, Basis, NEW t \in TaskIds, Stage(t),
           StartInstanceErr(t) \/ Started(t) \/ UndoCreate(t) \/ UndoRename(t) \/ Updated(t)
    PROVE  Stage(t)'
<1>1. Launches(t) /\ Alone(t)
  <2>1. CASE StartInstanceErr(t) \/ Started(t)
    BY <2>1, StartInstanceErrMoves, StartedMoves, RunLaunches
  <2>2. CASE UndoCreate(t) \/ UndoRename(t)
    BY <2>2, UndoCreateMoves, UndoRenameMoves, RunLaunches DEF Launching
  <2>3. CASE Updated(t)
    <3>1. At(t, {"Updating"}, "final") /\ Alone(t)
      BY <2>3, LastMoves DEF Updated
    <3>2. QED
      BY <3>1 DEF At, Launches, Launching
  <2>4. QED
    BY <2>1, <2>2, <2>3
<1>2. Ended(t) \/ \E pc \in {"undo", "back", "final", "end"} : \E todo : Turns(t, pc, todo)
  <2>1. CASE StartInstanceErr(t)
    BY <2>1, StartInstanceErrMoves
  <2>2. CASE Started(t)
    BY <2>2, StartedMoves
  <2>3. CASE UndoCreate(t)
    BY <2>3, UndoCreateMoves
  <2>4. CASE UndoRename(t)
    BY <2>4, UndoRenameMoves
  <2>5. CASE Updated(t)
    BY <2>5, LastMoves
  <2>6. QED
    BY <2>1, <2>2, <2>3, <2>4, <2>5
<1>3. QED
  BY <1>1, <1>2, EndedStage, IdleStage DEF Turns

LEMMA OwnStage ==
    ASSUME CargoInv, Steady, Basis, HasInit, NEW t \in TaskIds, TaskStep(t), Stage(t)
    PROVE  Stage(t)'
<1>1. CASE \/ ReadCargo(t) \/ ReadStart(t) \/ CreateInit(t) \/ StartInit(t) \/ WaitInit(t)
           \/ CreateInstances(t) \/ ListInstances(t) \/ StartInstance(t)
  BY <1>1, ReadCargoStage, ReadStartStage, CreateInitStage, InitStage, CreateInstancesStage,
     RunStage
<1>2. CASE \/ StartInstanceErr(t) \/ Started(t) \/ ReadUpdate(t) \/ StopOld(t) \/ RenameOld(t)
           \/ RenamedAll(t) \/ UndoCreate(t) \/ UndoRename(t) \/ Updated(t)
  BY <1>2, RenameStage, EndStage
<1>3. CASE End(t) \/ OnError(t)
  BY <1>3, EndMoves, EndedStage
<1>4. CASE ReadStop(t) \/ ReadDelete(t) \/ StopInstance(t) \/ Stopped(t) \/ DeleteStop(t)
           \/ DeleteRemove(t) \/ Clear(t)
  <2>1. task[t].ev.action \in {"Stopping", "Destroying"}
    BY <1>4 DEF ReadStop, ReadDelete, StopInstance, Stopped, DeleteStop, DeleteRemove, Clear,
       Reads, At
  <2>2. Launches(t)' => task'[t] = task[t]
    BY TaskDocks DEF Alone, Launches
  <2>3. QED
    BY <2>1, <2>2 DEF Stage, Launches, Launching
<1>5. QED
  BY <1>1, <1>2, <1>3, <1>4 DEF TaskStep

-----------------------------------------------------------------------------
(* What is superseded stays so.                                            *)
LEMMA DeletesOn ==
    ASSUME CargoInv, Steady, Basis, [Next]_vars, Deleting, Tidy, NEW t \in TaskIds, Deletes(t),
           NEW d \in Conts, cont'[d] # None, cont[d] # None, cont[d].cargo = Obj(t)
    PROVE  Deletes(t)' /\ Obj(t)' = Obj(t)
<1>1. CASE Still(t)
  BY <1>1 DEF Still, Deletes, Obj
<1>2. CASE ~Still(t)
  <2>1. CASE Outer \/ DockerStep
    <3>1. Awaited
      BY <2>1, OuterMoves, DockerMoves
    <3>2. body'[t] = body[t] /\ body[t] # None
      BY <3>1 DEF Awaited, Deletes
    <3>3. QED
      BY <1>2, <3>1, <3>2, AwaitedStill
  <2>2. ASSUME NEW s \in TaskIds, TaskStep(s)
        PROVE  Deletes(t)' /\ Obj(t)' = Obj(t)
    <3>1. s = t /\ Alone(t)
      BY <1>2, <2>2, TaskDocks DEF Alone
    <3>2. task[t].ev.action = "Destroying" /\ body[t] # None /\ body[t].pc # "end"
      BY DEF Deletes
    <3>3. task[t].phase = "body"
      BY <3>2 DEF CargoInv, Locals
    <3>4. DeleteStop(t) \/ DeleteRemove(t) \/ Clear(t)
      BY <2>2, <3>1, <3>2, <3>3 DEF TaskStep, Reads, At, Launching, ReadCargo, ReadStart,
         CreateInit, StartInit, WaitInit, CreateInstances, ListInstances, StartInstance,
         StartInstanceErr, Started, ReadUpdate, StopOld, RenameOld, RenamedAll, UndoCreate,
         UndoRename, Updated, ReadStop, StopInstance, Stopped, ReadDelete, End, OnError,
         TM!OnErrorDone
    <3>5. CASE DeleteStop(t) \/ DeleteRemove(t)
      <4>1. PICK pc \in {"stop", "remove"} : \E todo : Turns(t, pc, todo)
        BY <3>5, DeleteStopMoves, DeleteRemoveMoves
      <4>2. body'[t] # None /\ body'[t].pc = pc
        BY <4>1 DEF Turns, GoesOn
      <4>3. QED
        BY <3>1, <3>2, <4>1, <4>2 DEF Alone, Deletes, Obj
    <3>6. CASE Clear(t)
      <4>1. body[t].todo = {}
        BY <3>6, ClearMoves
      <4>2. task[t] # TM!Done
        BY <3>3 DEF TM!Done
      <4>3. ~NoDelete
        BY <3>2, <4>2 DEF Steady, Heard, Meant
      <4>4. Covers(t)
        BY <4>3 DEF Tidy, Deleting
      <4>5. QED
        BY <4>1, <4>4 DEF Covers
    <3>7. QED
      BY <3>4, <3>5, <3>6
  <2>3. QED
    BY <2>1, <2>2, Steps
<1>3. QED
  BY <1>1, <1>2

(* How an init container goes.                                             *)
LEMMA InitGoes ==
    ASSUME CargoInv, Steady, Basis, [Next]_vars, NEW k \in Conts, NEW c \in Cargoes,
           InitOf(k, c), cont'[k] = None
    PROVE  k \in doomed \/ \E t \in TaskIds : Deletes(t) /\ Obj(t) = c
<1>1. cont[k] # None /\ cont[k].init /\ cont[k].cargo = c
  BY DEF InitOf
<1>2. CASE DockerStep
  BY <1>1, <1>2, DockerMoves
<1>3. CASE Outer
  BY <1>1, <1>3, OuterMoves DEF Silent, Dropped, Struck, Steers, Drives, Outlet
<1>4. ASSUME NEW t \in TaskIds, TaskStep(t)
      PROVE  Deletes(t) /\ Obj(t) = c
  <2>1. CASE Silent \/ \E i \in Conts : Dropped(i)
    BY <1>1, <2>1 DEF Silent, Dropped
  <2>2. ASSUME NEW m \in Nat, Adds(t, m)
        PROVE  FALSE
    BY <1>1, <2>2, GrowsIs DEF Adds
  <2>3. ASSUME NEW i \in Conts, Struck(i), Hits(t, i)
        PROVE  Deletes(t) /\ Obj(t) = c
    <3>1. i = k
      BY <1>1, <2>3 DEF Struck, Steers, Drives
    <3>2. /\ k \in body[t].todo /\ body[t] # None
          /\ Runs(t, {"Updating"}, "undo") \/ Runs(t, {"Destroying"}, "remove")
      BY <2>3, <3>1 DEF Hits
    <3>3. ~Runs(t, {"Updating"}, "undo")
      BY <1>1, <3>2 DEF Steady, Sound, Fits, Regular, Runs
    <3>4. QED
      BY <1>1, <3>2, <3>3, TodoOf DEF Runs, Deletes
  <2>4. QED
    BY <1>4, <2>1, <2>2, <2>3, TaskDocks DEF Docks
<1>5. QED
  BY <1>2, <1>3, <1>4, Steps

LEMMA SupersededKept ==
    ASSUME CargoInv, Steady, Basis, [Next]_vars, Deleting, Tidy, Spared,
           NEW d \in Conts, NEW c \in Cargoes, InitOf(d, c), cont'[d] # None, Superseded(d, c)
    PROVE  Superseded(d, c)'
<1>1. cont[d] # None /\ cont[d].cargo = c /\ d \in Nat /\ Conts \subseteq Nat
  BY Numbers DEF InitOf
<1>2. ASSUME NEW t \in TaskIds, Deletes(t), Obj(t) = c
      PROVE  Superseded(d, c)'
  <2>1. Deletes(t)' /\ Obj(t)' = c
    BY <1>1, <1>2, DeletesOn
  <2>2. QED
    BY <2>1 DEF Superseded
<1>3. ASSUME NEW k \in Conts, InitOf(k, c), k > d, cont'[k] # None
      PROVE  Superseded(d, c)'
  <2>1. InitOf(k, c)'
    BY <1>3, Lasting DEF InitOf, Same
  <2>2. QED
    BY <1>3, <2>1 DEF Superseded, Basis
<1>4. ASSUME NEW k \in Conts, InitOf(k, c), k > d, cont'[k] = None,
             ~\E t \in TaskIds : Deletes(t) /\ Obj(t) = c
      PROVE  Superseded(d, c)'
  <2>1. k \in doomed
    BY <1>4, InitGoes
  <2>2. Superseded(k, c)
    BY <1>4, <2>1 DEF Spared
  <2>3. PICK l \in Conts : InitOf(l, c) /\ l > k
    BY <1>4, <2>2 DEF Superseded
  <2>4. l > d /\ l # k
    BY <1>1, <1>4, <2>3
  <2>5. cont'[l] # None
    <3>1. CASE DockerStep
      BY <1>4, <3>1, DockerMoves DEF InitOf
    <3>2. CASE Outer
      BY <1>4, <2>3, <2>4, <3>2, OuterMoves DEF Silent, Dropped, Struck, Steers, Drives, InitOf
    <3>3. ASSUME NEW t \in TaskIds, TaskStep(t)
          PROVE  cont'[l] # None
      <4>1. CASE Silent \/ \E i \in Conts : Dropped(i)
        BY <2>3, <4>1 DEF Silent, Dropped, InitOf
      <4>2. ASSUME NEW m \in Nat, Adds(t, m)
            PROVE  cont'[l] # None
        BY <2>3, <4>2, GrowsIs DEF Adds, InitOf
      <4>3. ASSUME NEW i \in Conts, Struck(i), Hits(t, i)
            PROVE  cont'[l] # None
        BY <1>4, <2>3, <2>4, <4>3 DEF Struck, Steers, Drives, InitOf
      <4>4. QED
        BY <3>3, <4>1, <4>2, <4>3, TaskDocks DEF Docks
    <3>4. QED
      BY <3>1, <3>2, <3>3, Steps
  <2>6. QED
    BY <1>3, <2>3, <2>4, <2>5
<1>5. QED
  BY <1>2, <1>3, <1>4 DEF Superseded

LEMMA SparedKept ==
    ASSUME CargoInv, Steady, Basis, [Next]_vars, Deleting, Tidy, Spared,
           \A t \in TaskIds : Stage(t)
    PROVE  Spared'
<1>1. doomed \subseteq Conts /\ Conts \subseteq Nat
  BY Numbers DEF CargoInv, Callers
<1>2. ASSUME NEW d \in doomed, NEW c \in Cargoes, InitOf(d, c)'
      PROVE  Superseded(d, c)'
  <2>1. cont'[d] # None /\ cont'[d].cargo = c /\ cont'[d].init /\ d \in Conts
    BY <1>1, <1>2 DEF InitOf
  <2>2. cont[d] # None /\ Same(d)
    BY <1>2, <2>1 DEF Basis, Made, Kin
  <2>3. InitOf(d, c)
    BY <2>1, <2>2 DEF InitOf, Same
  <2>4. Superseded(d, c)
    BY <1>2, <2>3 DEF Spared
  <2>5. QED
    BY <2>1, <2>3, <2>4, SupersededKept
<1>3. CASE doomed' \subseteq doomed
  BY <1>2, <1>3 DEF Spared
<1>4. ASSUME NEW t \in TaskIds, Started(t), ~(doomed' \subseteq doomed)
      PROVE  Spared'
  <2>1. /\ Runs(t, Launching, "run") /\ Silent /\ task[t].ev.action = "Updating"
        /\ doomed' = doomed \cup {i \in Conts : body[t].rows[i] # None}
    BY <1>4, StartedMoves
  <2>2. Launches(t) /\ body[t].pc = "run"
    BY <2>1, RunLaunches
  <2>3. Poised(Obj(t), task[t].ev.action, "run", body[t].todo, body[t].new, body[t].rows,
               body[t].spec)
    BY <2>2, PoisedNow
  <2>4. PICK j \in Conts : Ready(j, Obj(t)) /\ body[t].rows[j] = None
    BY <2>1, <2>3 DEF Poised, Premade
  <2>5. ASSUME NEW d \in Conts, body[t].rows[d] # None, NEW c \in Cargoes, InitOf(d, c)'
        PROVE  Superseded(d, c)'
    <3>1. cont' = cont
      BY <2>1 DEF Silent
    <3>2. InitOf(d, c) /\ cont[d] # None /\ cont[d].cargo = c
      BY <2>5, <3>1 DEF InitOf
    <3>3. c = Obj(t)
      BY <2>2, <2>5, <3>2 DEF Launches, Steady, Sound, Fits, Of
    <3>4. InitOf(j, c) /\ Top(j, c)
      BY <2>4, <3>3 DEF Ready
    <3>5. d <= j /\ d # j
      BY <2>4, <2>5, <3>2, <3>4 DEF Top
    <3>6. j > d
      BY <1>1, <3>5
    <3>7. InitOf(j, c)'
      BY <3>1, <3>4 DEF InitOf
    <3>8. QED
      BY <3>6, <3>7 DEF Superseded, Basis
  <2>6. QED
    BY <1>2, <2>1, <2>5 DEF Spared
<1>5. QED
  <2>1. CASE Outer \/ DockerStep
    BY <1>3, <2>1, OuterMoves, DockerMoves
  <2>2. ASSUME NEW t \in TaskIds, TaskStep(t)
        PROVE  Spared'
    BY <1>3, <1>4, <2>2, TaskDocks
  <2>3. QED
    BY <2>1, <2>2, Steps

LEMMA StagedKept ==
    ASSUME InstanceInv, Staged, [Next]_vars
    PROVE  Staged'
<1>1. CargoInv /\ Steady /\ Deleting /\ Basis /\ Wanes
  BY SteadyKept DEF InstanceInv
<1>2. SUFFICES ASSUME Staging'
               PROVE  Spared' /\ \A u \in TaskIds : Stage(u)'
  BY DEF Staged
<1>3. Tidy' /\ HasInit' /\ left'.seen \cap {"restart", "process"} = {}
  BY <1>2 DEF Staging
<1>4. Tidy
  BY <1>1, <1>3, SpentKept DEF Steady
<1>5. HasInit /\ left.seen \cap {"restart", "process"} = {}
  BY <1>1, <1>3 DEF HasInit, Wanes
<1>6. Spared /\ \A u \in TaskIds : Stage(u)
  BY <1>4, <1>5 DEF Staged, Staging
<1>7. Spared'
  BY <1>1, <1>4, <1>6, SparedKept
<1>8. ASSUME NEW u \in TaskIds
      PROVE  Stage(u)'
  <2>1. CASE Outer \/ DockerStep
    <3>1. Awaited
      BY <1>1, <2>1, OuterMoves, DockerMoves
    <3>2. CASE body'[u] = None
      BY <3>2 DEF Stage, Launches
    <3>3. CASE body'[u] # None
      <4>1. Still(u) /\ Aside(u)
        BY <1>1, <2>1, <3>1, <3>3, AwaitedStill DEF Aside
      <4>2. QED
        BY <1>1, <1>2, <1>6, <4>1, StillStage
    <3>4. QED
      BY <3>2, <3>3
  <2>2. ASSUME NEW t \in TaskIds, TaskStep(t)
        PROVE  Stage(u)'
    <3>1. CASE t = u
      BY <1>1, <1>5, <1>6, <2>2, <3>1, OwnStage
    <3>2. CASE t # u
      <4>1. Still(u) /\ Aside(u)
        BY <1>1, <2>2, <3>2, TaskDocks DEF Aside, Alone
      <4>2. QED
        BY <1>1, <1>2, <1>6, <4>1, StillStage
    <3>3. QED
      BY <3>1, <3>2
  <2>3. QED
    BY <2>1, <2>2, Steps
<1>9. QED
  BY <1>7, <1>8

LEMMA StagedInit ==
    ASSUME Init
    PROVE  Staged
<1>1. doomed = {} /\ \A t \in TaskIds : body[t] = None
  BY DEF Init
<1>2. QED
  BY <1>1 DEF Staged, Spared, Stage, Launches

(* Who starts an instance for the first time: a start or an update that    *)
(* has its init container behind it.                                       *)
LEMMA FirstRun ==
    ASSUME CargoInv, Steady, Basis, [Next]_vars, Staging', NEW i \in Conts,
           cont[i] # None, cont[i].st = "created", ~cont[i].init,
           cont'[i] # None, cont'[i].st = "up"
    PROVE  \E t \in TaskIds : /\ Launches(t) /\ body[t].pc = "run" /\ i \in body[t].todo
                              /\ Obj(t) = cont[i].cargo
<1>1. CASE DockerStep
  BY <1>1, DockerMoves
<1>2. CASE Outer
  <2>1. CASE Silent \/ \E j \in Conts : Dropped(j)
    BY <2>1 DEF Silent, Dropped
  <2>2. ASSUME NEW j \in Conts, Struck(j), Outlet(j)
        PROVE  FALSE
    <3>1. i = j
      BY <2>2 DEF Struck, Steers, Drives
    <3>2. "process" \notin left'.seen /\ "restart" \notin left'.seen
      BY DEF Staging
    <3>3. ~\E k \in Clients : req[k] # None /\ req[k].op = "restart"
      BY <3>2, SteadyKept DEF Steady, Asked, Wanes
    <3>4. QED
      BY <2>2, <3>1, <3>2, <3>3 DEF Outlet
  <2>3. QED
    BY <1>2, <2>1, <2>2, OuterMoves
<1>3. ASSUME NEW t \in TaskIds, TaskStep(t)
      PROVE  /\ Launches(t) /\ body[t].pc = "run" /\ i \in body[t].todo
             /\ Obj(t) = cont[i].cargo
  <2>1. CASE Silent \/ \E j \in Conts : Dropped(j)
    BY <2>1 DEF Silent, Dropped
  <2>2. ASSUME NEW m \in Nat, Adds(t, m)
        PROVE  FALSE
    <3>1. cont'[i] = cont[i]
      BY <2>2, GrowsIs DEF Adds
    <3>2. QED
      BY <3>1
  <2>3. ASSUME NEW j \in Conts, Struck(j), Hits(t, j)
        PROVE  /\ Launches(t) /\ body[t].pc = "run" /\ i \in body[t].todo
               /\ Obj(t) = cont[i].cargo
    <3>1. i = j
      BY <2>3 DEF Struck, Steers, Drives
    <3>2. /\ i \in body[t].todo /\ body[t] # None
          /\ Runs(t, Launching, "initrun") \/ Runs(t, Launching, "run")
      BY <2>3, <3>1 DEF Hits
    <3>3. ~Runs(t, Launching, "initrun")
      BY <3>2 DEF Steady, Sound, Fits, Initial, Runs
    <3>4. QED
      BY <3>2, <3>3, TodoOf DEF Runs, Launches
  <2>4. QED
    BY <1>3, <2>1, <2>2, <2>3, TaskDocks DEF Docks
<1>4. QED
  BY <1>1, <1>2, <1>3, Steps

LEMMA StagedStep ==
    ASSUME InstanceInv, Staged, [Next]_vars, HasInit, Tidy',
           left'.seen \cap {"restart", "process"} = {}, NEW i \in Conts,
           cont[i] # None, cont[i].st = "created", ~cont[i].init,
           cont'[i] # None, cont'[i].st = "up"
    PROVE  \E j \in Inits(cont[i].cargo) :
              /\ cont[j].st = "down"
              /\ \A k \in Inits(cont[i].cargo) : k <= j
              /\ \A t \in TaskIds : At(t, {"Updating"}, "run") /\ i \in body[t].new =>
                    cont[j].spec = cont[i].spec
<1>1. CargoInv /\ Steady /\ Basis /\ Wanes
  BY SteadyKept DEF InstanceInv
<1>2. Staging' /\ Staging
  <2>1. Tidy
    BY <1>1, SpentKept DEF Steady
  <2>2. HasInit' /\ left.seen \cap {"restart", "process"} = {}
    BY <1>1 DEF HasInit, Wanes
  <2>3. QED
    BY <2>1, <2>2 DEF Staging
<1>3. PICK t \in TaskIds : /\ Launches(t) /\ body[t].pc = "run" /\ i \in body[t].todo
                           /\ Obj(t) = cont[i].cargo
  BY <1>1, <1>2, FirstRun
<1>4. PICK c : c = Obj(t)
  OBVIOUS
<1>5. Poised(c, task[t].ev.action, "run", body[t].todo, body[t].new, body[t].rows, body[t].spec)
  BY <1>2, <1>3, <1>4, PoisedNow DEF Staged
<1>6. PICK j \in Conts : /\ Ready(j, c)
                         /\ Premade(task[t].ev.action, body[t].rows, body[t].spec, j)
  BY <1>5 DEF Poised
<1>7. j \in Inits(c) /\ cont[j].st = "down" /\ \A k \in Inits(c) : k <= j
  BY <1>6 DEF Ready, Top, InitOf, Inits
<1>8. ASSUME NEW u \in TaskIds, At(u, {"Updating"}, "run"), i \in body[u].new
      PROVE  cont[j].spec = cont[i].spec
  <2>1. body[u] # None /\ task[u].ev.action = "Updating"
    BY <1>8 DEF At
  <2>2. cont[i].cargo = Obj(u)
    BY <1>1, <1>8, <2>1 DEF Steady, Sound, Fits, Of
  <2>3. Obj(u) \in Cargoes
    BY <1>1, <2>1, HasCargo, Acts
  <2>4. u = t
    BY <1>1, <1>3, <2>1, <2>2, <2>3, OneAtATime DEF Launches
  <2>5. cont[j] # None
    BY <1>6 DEF Ready, InitOf
  <2>6. cont[j].spec = body[t].spec /\ cont[i].spec = body[t].spec
    BY <1>5, <1>6, <1>8, <2>1, <2>4, <2>5 DEF Poised, Premade
  <2>7. QED
    BY <2>6
<1>9. QED
  BY <1>3, <1>4, <1>7, <1>8

(* Unless a client goes straight to docker, an instance runs for the first *)
(* time only after the newest init container of its cargo ended well, and  *)
(* one an update makes only after the init container the update made: the  *)
(* late removals of earlier updates, crashes, failed calls and other tasks *)
(* do not take it away or put another one in its place.                    *)
THEOREM InitRunsFirst == Spec => InitFirst
<1>1. Init => Staged
  BY StagedInit
<1>2. InstanceInv /\ Staged /\ [Next]_vars => Staged'
  BY StagedKept
<1>3. Spec => []Staged
  BY <1>1, <1>2, InstanceInvariant, PTL DEF Spec
<1> DEFINE Step ==
      HasInit /\ Tidy' /\ left'.seen \cap {"restart", "process"} = {} =>
        \A i \in Conts :
            /\ cont[i] # None /\ cont[i].st = "created" /\ ~cont[i].init
            /\ cont'[i] # None /\ cont'[i].st = "up"
            => \E j \in Inits(cont[i].cargo) :
                  /\ cont[j].st = "down"
                  /\ \A k \in Inits(cont[i].cargo) : k <= j
                  /\ \A t \in TaskIds : At(t, {"Updating"}, "run") /\ i \in body[t].new =>
                        cont[j].spec = cont[i].spec
<1>4. InstanceInv /\ Staged /\ [Next]_vars => [Step]_vars
  <2>1. SUFFICES ASSUME InstanceInv, Staged, [Next]_vars
                 PROVE  Step
    OBVIOUS
  <2>2. QED
    BY <2>1, StagedStep
<1>5. QED
  BY <1>3, <1>4, InstanceInvariant, PTL DEF Spec, InitFirst

-----------------------------------------------------------------------------
(* An update keeps an instance up.  While nothing is stopped, deleted,     *)
(* killed or crashed, a late removal leaves its cargo an instance that is  *)
(* up, is not to be removed itself and is not one a failed update may take *)
(* back; and the instances an update made and started are up, and nobody   *)
(* is to remove them.                                                      *)
Served == left.seen \cap {"stop", "kill", "delete", "force"} = {} /\ NoCrash

UpOf(u, c) == cont[u] # None /\ cont[u].cargo = c /\ ~cont[u].init /\ cont[u].st = "up"

Fragile(t) == Updates(t) /\ body[t].pc \in {"list", "run", "undo"}

Firm(u) == \A t \in TaskIds : Fragile(t) => u \notin body[t].new

Relief(u, c) == UpOf(u, c) /\ u \notin doomed /\ Firm(u)

Relieved ==
    \A d \in doomed : \A c \in Cargoes :
        cont[d] # None /\ cont[d].cargo = c => \E u \in Conts : Relief(u, c)

Manned(t) ==
    Updates(t) /\ body[t].pc \in {"list", "run"} =>
        /\ body[t].new # {}
        /\ \A u \in body[t].new : u \notin doomed /\ body[t].rows[u] = None /\ cont[u] # None
        /\ body[t].pc = "run" => \A u \in body[t].new \ body[t].todo : UpOf(u, Obj(t))

(* An update always makes instances.                                       *)
Making(t) ==
    Updates(t) /\ body[t].pc \in {"rows", "rename", "init", "initrun", "initwait", "create"} =>
        body[t].make = TRUE

Upheld ==
    /\ \A t \in TaskIds : Making(t)
    /\ Served => Relieved /\ \A t \in TaskIds : Manned(t)

LEMMA ServedNow ==
    ASSUME Basis, Wanes, Steady, Served'
    PROVE  Served /\ left'.crashes = left.crashes
BY SpentKept DEF Steady, Served, Wanes

(* A container that exists changes by a call about it.                     *)
LEMMA StruckBy ==
    ASSUME CargoInv, Basis, [Next]_vars, NEW k \in Conts, cont[k] # None, cont'[k] # cont[k]
    PROVE  /\ Struck(k)
           /\ Outlet(k) \/ \E t \in TaskIds : Hits(t, k)
<1>1. CASE DockerStep
  BY <1>1, DockerMoves
<1>2. CASE Outer
  BY <1>2, OuterMoves DEF Silent, Dropped, Struck, Steers, Drives
<1>3. ASSUME NEW t \in TaskIds, TaskStep(t)
      PROVE  Struck(k) /\ Hits(t, k)
  <2>1. ASSUME NEW m \in Nat, Adds(t, m)
        PROVE  FALSE
    BY <2>1, GrowsIs DEF Adds
  <2>2. ASSUME NEW i \in Conts, Struck(i), i # k
        PROVE  FALSE
    BY <2>2 DEF Struck, Steers, Drives
  <2>3. QED
    BY <1>3, <2>1, <2>2, TaskDocks DEF Docks, Silent, Dropped
<1>4. QED
  BY <1>1, <1>2, <1>3, Steps

(* Who takes an instance down.                                             *)
LEMMA Loss ==
    ASSUME CargoInv, Steady, Basis, [Next]_vars, Served', NEW k \in Conts, cont[k] # None,
           ~cont[k].init, cont'[k] = None \/ (cont[k].st = "up" /\ cont'[k].st # "up")
    PROVE  k \in doomed \/ \E t \in TaskIds : /\ At(t, {"Updating"}, "undo")
                                              /\ k \in body[t].todo /\ k \in body[t].new
<1>1. Served /\ left'.crashes = left.crashes /\ Wanes
  BY ServedNow, SteadyKept
<1>2. {"stop", "kill", "delete", "force"} \cap left.seen = {}
  BY <1>1 DEF Served
<1>3. CASE Outlet(k)
  <2>1. ~\E q \in Clients : req[q] # None /\ req[q].op = "kill"
    BY <1>2 DEF Steady, Asked
  <2>2. ~(left'.crashes < left.crashes)
    BY <1>1 DEF CargoInv, Bounds
  <2>3. QED
    BY <1>3, <2>1, <2>2 DEF Outlet
<1>4. ASSUME NEW t \in TaskIds, Hits(t, k)
      PROVE  /\ At(t, {"Updating"}, "undo") /\ k \in body[t].todo /\ k \in body[t].new
  <2>1. k \in body[t].todo /\ body[t] # None
    BY <1>4 DEF Hits
  <2>2. task[t].phase = "body" /\ GoodFrame(body[t], Conts)
    BY <2>1 DEF CargoInv, Locals
  <2>3. task[t] # TM!Done
    BY <2>2 DEF TM!Done
  <2>4. task[t].ev.action \notin {"Stopping", "Destroying"}
    BY <1>2, <2>3 DEF Steady, Heard, Meant, NoDelete
  <2>5. ~(Runs(t, {"Updating"}, "rename") /\ body[t].rows[k].st = "crashed")
    <3>1. body[t].pc = "rename" => body[t].rows[k] # None
      BY <2>1, <2>2 DEF GoodFrame
    <3>2. body[t].rows[k] # None => body[t].rows[k].st # "crashed"
      BY <1>1, <2>1 DEF Steady, Uncrashed, Served
    <3>3. QED
      BY <3>1, <3>2 DEF Runs
  <2>6. Runs(t, {"Updating"}, "undo")
    BY <1>4, <2>4, <2>5 DEF Hits, Runs
  <2>7. k \in body[t].new
    BY <2>1, <2>6 DEF Steady, Sound, Fits, Runs
  <2>8. QED
    BY <2>1, <2>6, <2>7 DEF Runs, At
<1>5. QED
  BY <1>3, <1>4, StruckBy

LEMMA StaysUp ==
    ASSUME CargoInv, Steady, Basis, [Next]_vars, Served', NEW u \in Conts, NEW c, UpOf(u, c),
           u \notin doomed, \A t \in TaskIds : At(t, {"Updating"}, "undo") => u \notin body[t].new
    PROVE  UpOf(u, c)'
<1>1. cont[u] # None /\ ~cont[u].init /\ cont[u].st = "up" /\ cont[u].cargo = c
  BY DEF UpOf
<1>2. cont'[u] # None /\ cont'[u].st = "up"
  BY <1>1, Loss
<1>3. Same(u)
  BY <1>1, <1>2, Lasting
<1>4. QED
  BY <1>1, <1>2, <1>3 DEF UpOf, Same

-----------------------------------------------------------------------------
(* The steps to what an update may take back.                              *)
LEMMA MakeKept ==
    ASSUME CargoInv, NEW t \in TaskIds,
           ReadUpdate(t) \/ StopOld(t) \/ RenameOld(t) \/ RenamedAll(t)
    PROVE  body'[t] = None \/ body'[t].make = body[t].make
<1>1. At(t, {"Updating"}, "rows") \/ At(t, {"Updating"}, "rename")
  BY DEF ReadUpdate, StopOld, RenameOld, RenamedAll
<1>2. GoodFrame(body[t], Conts)
  BY <1>1 DEF At, CargoInv, Locals
<1>3. PICK b : b = body[t]
  OBVIOUS
<1>4. {"make", "rows", "pc", "todo", "err"} \subseteq DOMAIN b
  BY <1>2, <1>3 DEF GoodFrame, Frames
<1>5. CASE ReadUpdate(t)
  <2>1. PICK ps, rows : Set(t, [[b EXCEPT !.pc = "rename", !.todo = ps] EXCEPT !.rows = rows])
    BY <1>3, <1>5 DEF ReadUpdate, Goto
  <2>2. PICK n : n = [[b EXCEPT !.pc = "rename", !.todo = ps] EXCEPT !.rows = rows]
    OBVIOUS
  <2>3. n.make = b.make
    BY <1>4, <2>2
  <2>4. QED
    BY <1>3, <2>1, <2>2, <2>3, SetIs
<1>6. CASE StopOld(t)
  <2>1. PICK i : \/ Set(t, [b EXCEPT !.rows[i].st = "down"])
                 \/ Set(t, [[b EXCEPT !.todo = @ \ {i}] EXCEPT !.err = TRUE])
    BY <1>3, <1>6, Zenon DEF StopOld, Done
  <2>2. PICK n : n = [b EXCEPT !.rows[i].st = "down"]
    OBVIOUS
  <2>3. PICK m : m = [[b EXCEPT !.todo = @ \ {i}] EXCEPT !.err = TRUE]
    OBVIOUS
  <2>4. n.make = b.make /\ m.make = b.make
    BY <1>4, <2>2, <2>3
  <2>5. QED
    BY <1>3, <2>1, <2>2, <2>3, <2>4, SetIs, Zenon
<1>7. CASE RenameOld(t)
  <2>1. PICK i : \/ Set(t, [b EXCEPT !.todo = @ \ {i}])
                 \/ Set(t, [[b EXCEPT !.todo = @ \ {i}] EXCEPT !.err = TRUE])
    BY <1>3, <1>7, Zenon DEF RenameOld, Done
  <2>2. PICK n : n = [b EXCEPT !.todo = @ \ {i}]
    OBVIOUS
  <2>3. PICK m : m = [[b EXCEPT !.todo = @ \ {i}] EXCEPT !.err = TRUE]
    OBVIOUS
  <2>4. n.make = b.make /\ m.make = b.make
    BY <1>4, <2>2, <2>3
  <2>5. QED
    BY <1>3, <2>1, <2>2, <2>3, <2>4, SetIs, Zenon
<1>8. CASE RenamedAll(t)
  <2>1. CASE Err(t)
    BY <2>1, ErrAlone DEF Ended
  <2>2. ASSUME NEW pc, Set(t, Goto(t, pc, {}))
        PROVE  body'[t].make = body[t].make
    <3>1. PICK n : n = [b EXCEPT !.pc = pc, !.todo = {}]
      OBVIOUS
    <3>2. n.make = b.make
      BY <1>4, <3>1
    <3>3. Set(t, n)
      BY <1>3, <2>2, <3>1 DEF Goto
    <3>4. QED
      BY <1>3, <3>2, <3>3, SetIs
  <2>3. QED
    BY <1>8, <2>1, <2>2 DEF RenamedAll
<1>9. QED
  BY <1>5, <1>6, <1>7, <1>8

(* Where an update can be taken back from, and how it got there.           *)
LEMMA FragileFrom ==
    ASSUME CargoInv, NEW t \in TaskIds, Making(t), TaskStep(t), Fragile(t)'
    PROVE  \/ CreateInstances(t) \/ ListInstances(t) \/ StartInstance(t)
           \/ /\ Fragile(t) /\ body'[t].pc = "undo" /\ body'[t].new = body[t].new
              /\ UNCHANGED doomed
<1>1. /\ body'[t] # None /\ task'[t] = task[t] /\ task[t].ev.action = "Updating"
      /\ body'[t].pc \in {"list", "run", "undo"}
  BY TaskDocks DEF Alone, Fragile, Updates
<1>2. ~Ended(t)
  BY <1>1 DEF Ended
<1>3. CASE ReadCargo(t) \/ ReadStart(t)
  BY <1>1, <1>2, <1>3, ReadCargoMoves, ReadStartMoves DEF Runs
<1>4. CASE CreateInit(t) \/ StartInit(t)
  BY <1>1, <1>2, <1>4, CreateInitMoves, StartInitMoves DEF Turns, GoesOn
<1>5. CASE WaitInit(t)
  <2>1. body[t] # None /\ body[t].pc = "initwait"
    BY <1>5, WaitInitMoves DEF Runs
  <2>2. body[t].make = TRUE
    BY <1>1, <2>1 DEF Making, Updates
  <2>3. QED
    BY <1>1, <1>2, <1>5, <2>2, WaitInitMoves DEF Turns, GoesOn
<1>6. CASE StartInstanceErr(t) \/ Started(t)
  <2>1. Runs(t, Launching, "run")
    BY <1>6, StartInstanceErrMoves, StartedMoves
  <2>2. Fragile(t)
    BY <1>1, <2>1 DEF Runs, Fragile, Updates
  <2>3. QED
    BY <1>1, <1>2, <1>6, <2>2, StartInstanceErrMoves, StartedMoves DEF Turns, GoesOn
<1>7. CASE ReadUpdate(t) \/ StopOld(t) \/ RenameOld(t) \/ RenamedAll(t)
  BY <1>1, <1>2, <1>7, ReadUpdateMoves, StopOldMoves, RenameOldMoves, RenamedAllMoves
     DEF Turns, GoesOn
<1>8. CASE UndoCreate(t)
  <2>1. Runs(t, {"Updating"}, "undo")
    BY <1>8, UndoCreateMoves
  <2>2. Fragile(t)
    BY <1>1, <2>1 DEF Runs, Fragile, Updates
  <2>3. QED
    BY <1>1, <1>8, <2>2, UndoCreateMoves DEF Turns, GoesOn
<1>9. CASE UndoRename(t) \/ Updated(t) \/ Stopped(t)
  BY <1>1, <1>2, <1>9, UndoRenameMoves, LastMoves DEF Turns, GoesOn
<1>10. CASE \/ ReadStop(t) \/ StopInstance(t) \/ ReadDelete(t) \/ DeleteStop(t)
            \/ DeleteRemove(t) \/ Clear(t)
  BY <1>1, <1>10 DEF ReadStop, StopInstance, ReadDelete, DeleteStop, DeleteRemove, Clear, Reads, At
<1>11. CASE End(t) \/ OnError(t)
  BY <1>2, <1>11, EndMoves
<1>12. QED
  BY <1>3, <1>4, <1>5, <1>6, <1>7, <1>8, <1>9, <1>10, <1>11 DEF TaskStep

LEMMA OwnMaking ==
    ASSUME CargoInv, NEW t \in TaskIds, TaskStep(t), Making(t)
    PROVE  Making(t)'
<1>1. SUFFICES ASSUME Updates(t)',
                      body'[t].pc \in {"rows", "rename", "init", "initrun", "initwait", "create"}
               PROVE  body'[t].make = TRUE
  BY DEF Making
<1>2. body'[t] # None /\ task[t].ev.action = "Updating" /\ ~Ended(t)
  BY <1>1, TaskDocks DEF Alone, Updates, Ended
<1>3. CASE ReadCargo(t)
  <2>1. ~Err(t)
    BY <1>2, ErrAlone
  <2>2. PICK spec : Set(t, Frame(spec, "rows", {}))
    BY <1>3, <2>1 DEF ReadCargo
  <2>3. Frame(spec, "rows", {}).make = TRUE
    BY DEF Frame
  <2>4. QED
    BY <2>2, <2>3, SetIs
<1>4. CASE ReadStart(t)
  BY <1>2, <1>4, ReadStartMoves DEF Runs
<1>5. CASE ReadUpdate(t) \/ StopOld(t) \/ RenameOld(t) \/ RenamedAll(t)
  <2>1. body[t] # None /\ body[t].pc \in {"rows", "rename"}
    BY <1>5, ReadUpdateMoves, StopOldMoves, RenameOldMoves, RenamedAllMoves DEF Runs
  <2>2. body[t].make = TRUE
    BY <1>2, <2>1 DEF Making, Updates
  <2>3. QED
    BY <1>2, <1>5, <2>2, MakeKept
<1>6. CASE CreateInit(t) \/ StartInit(t)
  <2>1. body[t] # None /\ body[t].pc \in {"init", "initrun"}
    BY <1>6, CreateInitMoves, StartInitMoves DEF Runs
  <2>2. body[t].make = TRUE
    BY <1>2, <2>1 DEF Making, Updates
  <2>3. QED
    BY <1>2, <1>6, <2>2, CreateInitMoves, StartInitMoves
<1>7. CASE WaitInit(t)
  <2>1. body[t] # None /\ body[t].pc = "initwait" /\ GoodFrame(body[t], Conts)
    BY <1>7, WaitInitMoves DEF Runs
  <2>2. body[t].make = TRUE
    BY <1>2, <2>1 DEF Making, Updates
  <2>3. ~Err(t)
    BY <1>2, ErrAlone
  <2>4. PICK pc : Set(t, Goto(t, pc, {})) /\ UNCHANGED task
    BY <1>7, <2>3 DEF WaitInit, tmVars
  <2>5. QED
    BY <2>1, <2>2, <2>4, TurnsBy
<1>8. CASE CreateInstances(t) \/ ListInstances(t) \/ StartInstance(t)
  BY <1>1, <1>2, <1>8, CreateInstancesMoves, ListInstancesMoves, StartInstanceMoves
     DEF Turns, GoesOn
<1>9. CASE StartInstanceErr(t) \/ Started(t)
  BY <1>1, <1>2, <1>9, StartInstanceErrMoves, StartedMoves DEF Turns, GoesOn
<1>10. CASE UndoCreate(t) \/ UndoRename(t) \/ Updated(t) \/ Stopped(t)
  BY <1>1, <1>2, <1>10, UndoCreateMoves, UndoRenameMoves, LastMoves DEF Turns, GoesOn
<1>11. CASE \/ ReadStop(t) \/ StopInstance(t) \/ ReadDelete(t) \/ DeleteStop(t)
            \/ DeleteRemove(t) \/ Clear(t)
  BY <1>2, <1>11 DEF ReadStop, StopInstance, ReadDelete, DeleteStop, DeleteRemove, Clear, Reads, At
<1>12. CASE End(t) \/ OnError(t)
  BY <1>2, <1>12, EndMoves
<1>13. QED
  BY <1>3, <1>4, <1>5, <1>6, <1>7, <1>8, <1>9, <1>10, <1>11, <1>12 DEF TaskStep

(* A running task moves by its own steps only.                             *)
LEMMA OthersStill ==
    ASSUME CargoInv, [Next]_vars, NEW t \in TaskIds, body'[t] # None
    PROVE  Still(t) \/ TaskStep(t)
<1>1. CASE Outer \/ DockerStep
  BY <1>1, OuterMoves, DockerMoves, AwaitedStill
<1>2. ASSUME NEW s \in TaskIds, TaskStep(s), s # t
      PROVE  Still(t)
  BY <1>2, TaskDocks DEF Alone
<1>3. QED
  BY <1>1, <1>2, Steps

LEMMA MakingKept ==
    ASSUME CargoInv, [Next]_vars, NEW t \in TaskIds, Making(t)
    PROVE  Making(t)'
<1>1. CASE body'[t] = None
  BY <1>1 DEF Making, Updates
<1>2. CASE Still(t)
  BY <1>2 DEF Making, Updates, Still
<1>3. CASE TaskStep(t)
  BY <1>3, OwnMaking
<1>4. QED
  BY <1>1, <1>2, <1>3, OthersStill

(* An instance that nobody may take back is not taken back later.          *)
LEMMA FirmKept ==
    ASSUME CargoInv, [Next]_vars, \A t \in TaskIds : Making(t), NEW u \in Conts,
           cont[u] # None, Firm(u)
    PROVE  Firm(u)'
<1>1. SUFFICES ASSUME NEW t \in TaskIds, Fragile(t)'
               PROVE  u \notin body'[t].new
  BY DEF Firm
<1>2. ASSUME Fragile(t), body'[t].new = body[t].new
      PROVE  u \notin body'[t].new
  BY <1>2 DEF Firm
<1>3. body'[t] # None /\ task'[t].ev.action = "Updating"
  BY <1>1 DEF Fragile, Updates
<1>4. CASE Still(t)
  BY <1>1, <1>2, <1>4 DEF Fragile, Updates, Still
<1>5. CASE TaskStep(t)
  <2>1. task[t].ev.action = "Updating"
    BY <1>3, <1>5, TaskDocks DEF Alone
  <2>2. CASE CreateInstances(t)
    <3>1. ~Ended(t)
      BY <1>3 DEF Ended
    <3>2. PICK m \in Nat : /\ Grows(Obj(t), FALSE, body[t].spec, m)
                           /\ GoesOn(t, "list", {}, Fresh(m), body[t].rows)
      BY <2>2, <3>1, CreateInstancesMoves
    <3>3. u \notin Fresh(m)
      BY <3>2, GrowsIs
    <3>4. QED
      BY <3>2, <3>3 DEF GoesOn
  <2>3. CASE ListInstances(t) \/ StartInstance(t)
    <3>1. Runs(t, Launching, "list") \/ Runs(t, Launching, "run")
      BY <2>3, ListInstancesMoves, StartInstanceMoves
    <3>2. Fragile(t)
      BY <2>1, <3>1 DEF Fragile, Updates, Runs
    <3>3. body'[t].new = body[t].new
      BY <2>3, ListInstancesMoves, StartInstanceMoves DEF Turns, GoesOn
    <3>4. QED
      BY <1>2, <3>2, <3>3
  <2>4. QED
    BY <1>1, <1>2, <1>5, <2>2, <2>3, FragileFrom
<1>6. QED
  BY <1>3, <1>4, <1>5, OthersStill

-----------------------------------------------------------------------------
(* Who leaves what to a late removal.                                      *)
LEMMA NewDoomed ==
    ASSUME CargoInv, [Next]_vars, NEW d \in doomed', d \notin doomed
    PROVE  \E t \in TaskIds :
              /\ Started(t) /\ Updates(t) /\ body[t].pc = "run" /\ body[t].todo = {}
              /\ Alone(t) /\ body'[t].pc = "final" /\ cont' = cont
              /\ doomed' = doomed \cup {i \in Conts : body[t].rows[i] # None}
              /\ d \in Conts /\ body[t].rows[d] # None
<1>1. CASE Outer \/ DockerStep
  BY <1>1, OuterMoves, DockerMoves
<1>2. ASSUME NEW t \in TaskIds, TaskStep(t)
      PROVE  /\ Started(t) /\ Updates(t) /\ body[t].pc = "run" /\ body[t].todo = {}
             /\ Alone(t) /\ body'[t].pc = "final" /\ cont' = cont
             /\ doomed' = doomed \cup {i \in Conts : body[t].rows[i] # None}
             /\ d \in Conts /\ body[t].rows[d] # None
  <2>1. Started(t)
    BY <1>2, TaskDocks
  <2>2. /\ Runs(t, Launching, "run") /\ Alone(t) /\ Silent /\ body[t].todo = {}
        /\ Turns(t, "final", {}) /\ task[t].ev.action = "Updating"
        /\ doomed' = doomed \cup {i \in Conts : body[t].rows[i] # None}
    BY <2>1, StartedMoves
  <2>3. d \in Conts /\ body[t].rows[d] # None
    BY <2>2
  <2>4. QED
    BY <2>1, <2>2, <2>3 DEF Runs, Updates, Silent, Turns, GoesOn
<1>3. QED
  BY <1>1, <1>2, Steps

(* An update that leaves something to a late removal has an instance up.   *)
LEMMA NewRelief ==
    ASSUME CargoInv, Steady, Basis, [Next]_vars, \A t \in TaskIds : Manned(t),
           NEW d \in doomed', d \notin doomed, NEW c \in Cargoes,
           cont[d] # None, cont[d].cargo = c
    PROVE  cont' = cont /\ \E u \in Conts : Relief(u, c)'
<1>1. PICK t \in TaskIds :
              /\ Started(t) /\ Updates(t) /\ body[t].pc = "run" /\ body[t].todo = {}
              /\ Alone(t) /\ body'[t].pc = "final" /\ cont' = cont
              /\ doomed' = doomed \cup {i \in Conts : body[t].rows[i] # None}
              /\ d \in Conts /\ body[t].rows[d] # None
  BY NewDoomed
<1>2. body[t] # None
  BY <1>1 DEF Updates
<1>3. c = Obj(t)
  BY <1>1, <1>2 DEF Steady, Sound, Fits, Of
<1>4. PICK w \in body[t].new : /\ w \notin doomed /\ body[t].rows[w] = None /\ cont[w] # None
                               /\ UpOf(w, c)
  BY <1>1, <1>3 DEF Manned
<1>5. w \in Conts
  BY <1>2, FrameOf
<1>6. UpOf(w, c)'
  BY <1>1, <1>4 DEF UpOf
<1>7. w \notin doomed'
  BY <1>1, <1>4
<1>8. ASSUME NEW s \in TaskIds, Fragile(s)', w \in body'[s].new
      PROVE  FALSE
  <2>1. s # t
    BY <1>1, <1>8 DEF Fragile
  <2>2. body[s] # None /\ w \in body[s].new
    BY <1>1, <1>8, <2>1 DEF Alone, Still, Fragile, Updates
  <2>3. Obj(s) = c
    BY <1>4, <2>2 DEF Steady, Sound, Fits, Of, UpOf
  <2>4. QED
    BY <1>2, <1>3, <2>1, <2>2, <2>3, OneAtATime
<1>9. Firm(w)'
  BY <1>8 DEF Firm
<1>10. Relief(w, c)'
  BY <1>6, <1>7, <1>9 DEF Relief
<1>11. QED
  BY <1>1, <1>5, <1>10

LEMMA Unreturned ==
    ASSUME NEW u, Firm(u)
    PROVE  \A t \in TaskIds : At(t, {"Updating"}, "undo") => u \notin body[t].new
BY DEF Firm, Fragile, Updates, At

LEMMA RelievedKept ==
    ASSUME CargoInv, Steady, Basis, [Next]_vars, Served', Relieved,
           \A t \in TaskIds : Making(t), \A t \in TaskIds : Manned(t)
    PROVE  Relieved'
<1>1. SUFFICES ASSUME NEW d \in doomed', NEW c \in Cargoes, cont'[d] # None, cont'[d].cargo = c
               PROVE  \E u \in Conts : Relief(u, c)'
  BY DEF Relieved, Basis
<1>2. CASE d \in doomed
  <2>1. d \in Conts
    BY <1>2 DEF CargoInv, Callers
  <2>2. cont[d] # None /\ cont[d].cargo = c
    BY <1>1, <1>2, <2>1 DEF Basis, Made, Kin, Same
  <2>3. PICK u \in Conts : Relief(u, c)
    BY <1>2, <2>2 DEF Relieved
  <2>4. UpOf(u, c) /\ u \notin doomed /\ Firm(u) /\ cont[u] # None /\ cont[u].cargo = c
    BY <2>3 DEF Relief, UpOf
  <2>5. UpOf(u, c)'
    BY <2>4, StaysUp, Unreturned
  <2>6. Firm(u)'
    BY <2>4, FirmKept
  <2>7. CASE u \in doomed'
    BY <2>4, <2>7, NewRelief
  <2>8. CASE u \notin doomed'
    BY <2>5, <2>6, <2>8 DEF Relief
  <2>9. QED
    BY <2>7, <2>8
<1>3. CASE d \notin doomed
  <2>1. cont' = cont
    BY <1>3, NewDoomed
  <2>2. QED
    BY <1>1, <1>3, <2>1, NewRelief
<1>4. QED
  BY <1>2, <1>3

-----------------------------------------------------------------------------
(* The instances an update made stay, and those that are up stay up.       *)
LEMMA CrewStays ==
    ASSUME CargoInv, Steady, Basis, [Next]_vars, Served', NEW t \in TaskIds, Updates(t),
           body[t].pc \in {"list", "run"}, NEW w \in body[t].new, w \notin doomed,
           body[t].rows[w] = None, cont[w] # None, NEW c, c = Obj(t)
    PROVE  w \notin doomed' /\ cont'[w] # None /\ (UpOf(w, c) => UpOf(w, c)')
<1>1. body[t] # None /\ w \in Conts /\ Obj(t) \in Cargoes
  BY FrameOf, HasCargo, Acts DEF Updates
<1>2. cont[w].cargo = Obj(t) /\ ~cont[w].init
  BY <1>1 DEF Steady, Sound, Fits, Of, Regular
<1>3. ASSUME NEW s \in TaskIds, body[s] # None, cont[w].cargo = Obj(s)
      PROVE  s = t
  BY <1>1, <1>2, <1>3, OneAtATime
<1>4. ASSUME w \in doomed'
      PROVE  FALSE
  <2>1. PICK s \in TaskIds : Updates(s) /\ body[s].rows[w] # None
    BY <1>4, NewDoomed
  <2>2. cont[w].cargo = Obj(s) /\ body[s] # None
    BY <1>1, <2>1 DEF Updates, Steady, Sound, Fits, Of
  <2>3. QED
    BY <1>3, <2>1, <2>2
<1>5. \A s \in TaskIds : At(s, {"Updating"}, "undo") => w \notin body[s].new
  <2>1. SUFFICES ASSUME NEW s \in TaskIds, At(s, {"Updating"}, "undo"), w \in body[s].new
                 PROVE  FALSE
    OBVIOUS
  <2>2. cont[w].cargo = Obj(s) /\ body[s] # None
    BY <2>1 DEF At, Steady, Sound, Fits, Of
  <2>3. s = t
    BY <1>3, <2>2
  <2>4. QED
    BY <2>1, <2>3 DEF At
<1>6. cont'[w] # None
  BY <1>1, <1>2, <1>5, Loss
<1>7. UpOf(w, c) => UpOf(w, c)'
  BY <1>1, <1>5, StaysUp
<1>8. QED
  BY <1>4, <1>6, <1>7

LEMMA StillManned ==
    ASSUME CargoInv, Steady, Basis, [Next]_vars, Served', NEW t \in TaskIds, Still(t), Manned(t)
    PROVE  Manned(t)'
<1>1. SUFFICES ASSUME Updates(t)', body'[t].pc \in {"list", "run"}
               PROVE  /\ body'[t].new # {}
                      /\ \A u \in body'[t].new : u \notin doomed' /\ body'[t].rows[u] = None
                                                 /\ cont'[u] # None
                      /\ body'[t].pc = "run" =>
                            \A u \in body'[t].new \ body'[t].todo : UpOf(u, Obj(t))'
  BY DEF Manned
<1>2. body'[t] = body[t] /\ Updates(t) /\ task'[t] = task[t]
  BY <1>1 DEF Still, Updates
<1>3. PICK c : c = Obj(t)
  OBVIOUS
<1>4. c = Obj(t)'
  BY <1>2, <1>3 DEF Obj
<1>5. /\ body[t].new # {}
      /\ \A u \in body[t].new : u \notin doomed /\ body[t].rows[u] = None /\ cont[u] # None
      /\ body[t].pc = "run" => \A u \in body[t].new \ body[t].todo : UpOf(u, c)
  BY <1>1, <1>2, <1>3 DEF Manned
<1>6. \A u \in body[t].new : u \notin doomed' /\ cont'[u] # None /\ (UpOf(u, c) => UpOf(u, c)')
  BY <1>1, <1>2, <1>3, <1>5, CrewStays
<1>7. \A u : UpOf(u, c)' => UpOf(u, Obj(t))'
  BY <1>4 DEF UpOf
<1>8. QED
  BY <1>2, <1>5, <1>6, <1>7

(* An update creates at least one instance: nobody holds it yet.           *)
LEMMA CreateManned ==
    ASSUME CargoInv, Steady, Basis, NEW t \in TaskIds, CreateInstances(t)
    PROVE  Manned(t)'
<1>1. Runs(t, Launching, "create") /\ UNCHANGED doomed
  BY CreateInstancesMoves
<1>2. CASE Ended(t)
  BY <1>2 DEF Ended, Manned, Updates
<1>3. CASE ~Ended(t)
  <2>1. PICK m \in Nat : /\ Grows(Obj(t), FALSE, body[t].spec, m) /\ m = Replicas
                         /\ GoesOn(t, "list", {}, Fresh(m), body[t].rows)
    BY <1>3, CreateInstancesMoves
  <2>2. m > 0
    <3>1. left.w \in Worlds
      BY DEF CargoInv, Bounds
    <3>2. QED
      BY <2>1, <3>1, ConstAssumption DEF Replicas
  <2>3. left.made \in Nat /\ left.made + 1 \in Fresh(m)
    BY <2>2, Numbers DEF Fresh
  <2>4. ASSUME NEW u \in Fresh(m)
        PROVE  u \notin doomed' /\ body[t].rows[u] = None /\ cont'[u] # None
    <3>1. u \in Conts /\ u > left.made /\ cont'[u] # None /\ u \in Nat
      <4>1. u \in Conts
        BY <2>1, GrowsIs
      <4>2. u > left.made
        BY <2>1, <4>1, GrowsIs
      <4>3. cont'[u] # None
        BY <2>1, GrowsIs
      <4>4. QED
        BY <4>1, <4>2, <4>3, Numbers
    <3>2. ~(u <= left.made)
      BY <2>3, <3>1
    <3>3. QED
      BY <1>1, <3>1, <3>2 DEF Runs, Basis, Made, Steady, Sound, Fits, Of
  <2>5. QED
    BY <2>1, <2>3, <2>4 DEF GoesOn, Manned
<1>4. QED
  BY <1>2, <1>3

(* The list an update reads has every instance it made.                    *)
LEMMA ListManned ==
    ASSUME CargoInv, Steady, Basis, [Next]_vars, Served', NEW t \in TaskIds, ListInstances(t),
           Manned(t)
    PROVE  Manned(t)'
<1>1. SUFFICES ASSUME Updates(t)'
               PROVE  Manned(t)'
  BY DEF Manned
<1>2. Runs(t, Launching, "list") /\ Alone(t) /\ Turns(t, "run", InstancesOf(Obj(t)))
  BY ListInstancesMoves
<1>3. body[t] # None /\ body[t].pc = "list" /\ task'[t] = task[t] /\ Updates(t)
  BY <1>1, <1>2 DEF Runs, Alone, Updates
<1>4. /\ body[t].new # {}
      /\ \A u \in body[t].new : u \notin doomed /\ body[t].rows[u] = None /\ cont[u] # None
  BY <1>3 DEF Manned
<1>5. PICK c : c = Obj(t)
  OBVIOUS
<1>6. \A u \in body[t].new : u \notin doomed' /\ cont'[u] # None
  BY <1>3, <1>4, <1>5, CrewStays
<1>7. body[t].new \subseteq InstancesOf(Obj(t))
  <2>1. SUFFICES ASSUME NEW u \in body[t].new
                 PROVE  u \in InstancesOf(Obj(t))
    OBVIOUS
  <2>2. u \in Conts /\ cont[u] # None
    BY <1>3, <1>4, FrameOf
  <2>3. cont[u].cargo = Obj(t) /\ ~cont[u].init
    BY <1>3, <2>2 DEF Steady, Sound, Fits, Of, Regular
  <2>4. proc[u] # None /\ proc[u].cargo = Obj(t) /\ ~proc[u].init
    BY <2>2, <2>3 DEF CargoInv, RowPerContainer, Steady, Matched
  <2>5. QED
    BY <2>2, <2>4 DEF InstancesOf, ProcsOf
<1>8. QED
  BY <1>2, <1>4, <1>6, <1>7 DEF Manned, Turns, GoesOn

LEMMA RunManned ==
    ASSUME CargoInv, Steady, Basis, [Next]_vars, Served', NEW t \in TaskIds, StartInstance(t),
           Manned(t)
    PROVE  Manned(t)'
<1>1. SUFFICES ASSUME Updates(t)'
               PROVE  Manned(t)'
  BY DEF Manned
<1>2. PICK i \in body[t].todo : /\ Struck(i) /\ cont'[i] # None /\ cont'[i].st = "up"
                                /\ Turns(t, "run", body[t].todo \ {i})
  BY StartInstanceMoves
<1>3. Runs(t, Launching, "run") /\ Alone(t)
  BY StartInstanceMoves
<1>4. body[t] # None /\ body[t].pc = "run" /\ task'[t] = task[t] /\ Updates(t)
  BY <1>1, <1>3 DEF Runs, Alone, Updates
<1>5. PICK c : c = Obj(t)
  OBVIOUS
<1>6. c = Obj(t)'
  BY <1>4, <1>5 DEF Obj
<1>7. /\ body[t].new # {}
      /\ \A u \in body[t].new : u \notin doomed /\ body[t].rows[u] = None /\ cont[u] # None
      /\ \A u \in body[t].new \ body[t].todo : UpOf(u, c)
  BY <1>4, <1>5 DEF Manned
<1>8. \A u \in body[t].new : u \notin doomed' /\ cont'[u] # None /\ (UpOf(u, c) => UpOf(u, c)')
  BY <1>4, <1>5, <1>7, CrewStays
<1>9. i \in body[t].new => UpOf(i, c)'
  <2>1. SUFFICES ASSUME i \in body[t].new
                 PROVE  UpOf(i, c)'
    OBVIOUS
  <2>2. cont[i] # None /\ i \in Conts
    BY <1>2, <1>7, <2>1 DEF Struck
  <2>3. cont[i].cargo = c /\ ~cont[i].init
    BY <1>4, <1>5, <2>1, <2>2 DEF Steady, Sound, Fits, Of, Regular
  <2>4. QED
    BY <1>2, <2>3 DEF Struck, Steers, Same, UpOf
<1>10. \A u : UpOf(u, c)' => UpOf(u, Obj(t))'
  BY <1>6 DEF UpOf
<1>11. \A u \in body[t].new \ (body[t].todo \ {i}) : UpOf(u, Obj(t))'
  BY <1>7, <1>8, <1>9, <1>10
<1>12. QED
  BY <1>2, <1>7, <1>8, <1>11 DEF Manned, Turns, GoesOn

LEMMA MannedKept ==
    ASSUME CargoInv, Steady, Basis, [Next]_vars, Served', NEW t \in TaskIds, Making(t), Manned(t)
    PROVE  Manned(t)'
<1>1. CASE body'[t] = None
  BY <1>1 DEF Manned, Updates
<1>2. CASE Still(t)
  BY <1>2, StillManned
<1>3. CASE TaskStep(t)
  <2>1. CASE CreateInstances(t) \/ ListInstances(t) \/ StartInstance(t)
    BY <2>1, CreateManned, ListManned, RunManned
  <2>2. CASE ~Fragile(t)' \/ body'[t].pc = "undo"
    BY <2>2 DEF Manned, Fragile
  <2>3. QED
    BY <1>3, <2>1, <2>2, FragileFrom
<1>4. QED
  BY <1>1, <1>2, <1>3, OthersStill

LEMMA UpheldKept ==
    ASSUME InstanceInv, Upheld, [Next]_vars
    PROVE  Upheld'
<1>1. CargoInv /\ Steady /\ Basis /\ Wanes
  BY SteadyKept DEF InstanceInv
<1>2. \A t \in TaskIds : Making(t)
  BY DEF Upheld
<1>3. \A t \in TaskIds : Making(t)'
  BY <1>1, <1>2, MakingKept
<1>4. ASSUME Served'
      PROVE  Relieved' /\ \A t \in TaskIds : Manned(t)'
  <2>1. Served
    BY <1>1, <1>4, ServedNow
  <2>2. Relieved /\ \A t \in TaskIds : Manned(t)
    BY <2>1 DEF Upheld
  <2>3. Relieved'
    BY <1>1, <1>2, <1>4, <2>2, RelievedKept
  <2>4. \A t \in TaskIds : Manned(t)'
    BY <1>1, <1>2, <1>4, <2>2, MannedKept
  <2>5. QED
    BY <2>3, <2>4
<1>5. QED
  BY <1>3, <1>4 DEF Upheld

LEMMA UpheldInit ==
    ASSUME Init
    PROVE  Upheld
<1>1. doomed = {} /\ \A t \in TaskIds : body[t] = None
  BY DEF Init
<1>2. QED
  BY <1>1 DEF Upheld, Relieved, Manned, Making, Updates

LEMMA UpheldStep ==
    ASSUME InstanceInv, Upheld, [Next]_vars,
           left'.seen \cap {"stop", "kill", "delete", "force"} = {},
           left'.crashes = left.w.crashes, NEW c \in Cargoes, UpInstances(c) \ Undone # {}
    PROVE  UpInstances(c)' # {}
<1>1. CargoInv /\ Steady /\ Basis /\ Wanes
  BY SteadyKept DEF InstanceInv
<1>2. Served'
  BY <1>1 DEF Served, NoCrash, Wanes
<1>3. Served
  BY <1>1, <1>2, ServedNow
<1>4. Conts' = Conts
  BY <1>1 DEF Basis
<1>5. PICK v \in Conts : /\ cont[v] # None /\ cont[v].cargo = c /\ ~cont[v].init
                         /\ cont[v].st = "up" /\ v \notin Undone
  BY DEF UpInstances
<1>6. ASSUME NEW u \in Conts, UpOf(u, c)'
      PROVE  u \in UpInstances(c)'
  BY <1>4, <1>6 DEF UpOf, UpInstances
<1>7. CASE cont'[v] # None /\ cont'[v].st = "up"
  <2>1. Same(v)
    BY <1>1, <1>5, <1>7, Lasting
  <2>2. QED
    BY <1>5, <1>6, <1>7, <2>1 DEF Same, UpOf
<1>8. CASE ~(cont'[v] # None /\ cont'[v].st = "up")
  <2>1. v \in doomed
    <3>1. ASSUME NEW t \in TaskIds, At(t, {"Updating"}, "undo"), v \in body[t].todo, v \in body[t].new
          PROVE  FALSE
      BY <1>5, <3>1 DEF Undone
    <3>2. QED
      BY <1>1, <1>2, <1>5, <1>8, <3>1, Loss
  <2>2. PICK u \in Conts : Relief(u, c)
    BY <1>3, <1>5, <2>1 DEF Upheld, Relieved
  <2>3. UpOf(u, c) /\ u \notin doomed /\ Firm(u) /\ cont[u] # None
    BY <2>2 DEF Relief, UpOf
  <2>4. UpOf(u, c)'
    BY <1>1, <1>2, <2>3, StaysUp, Unreturned
  <2>5. QED
    BY <1>6, <2>4
<1>9. QED
  BY <1>7, <1>8

(* As long as nothing is stopped, killed or deleted and no instance        *)
(* crashes, a cargo with an instance that is up keeps one through updates, *)
(* failed ones included, and their late removals, but for the instances a  *)
(* failed update started itself and takes back.                            *)
THEOREM UpdatesKeepUp == Spec => UpdateKeepsUp
<1>1. Init => Upheld
  BY UpheldInit
<1>2. InstanceInv /\ Upheld /\ [Next]_vars => Upheld'
  BY UpheldKept
<1>3. Spec => []Upheld
  BY <1>1, <1>2, InstanceInvariant, PTL DEF Spec
<1> DEFINE Step ==
      /\ left'.seen \cap {"stop", "kill", "delete", "force"} = {}
      /\ left'.crashes = left.w.crashes
      => \A c \in Cargoes : UpInstances(c) \ Undone # {} => UpInstances(c)' # {}
<1>4. InstanceInv /\ Upheld /\ [Next]_vars => [Step]_vars
  <2>1. SUFFICES ASSUME InstanceInv, Upheld, [Next]_vars
                 PROVE  Step
    OBVIOUS
  <2>2. QED
    BY <2>1, UpheldStep
<1>5. QED
  BY <1>3, <1>4, InstanceInvariant, PTL DEF Spec, UpdateKeepsUp
=============================================================================
