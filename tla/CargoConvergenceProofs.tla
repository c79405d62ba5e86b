----------------------- MODULE CargoConvergenceProofs -----------------------
(***************************************************************************)
(* Where the life of a cargo ends, for every set of cargoes and any number *)
(* of replicas, containers and requests.                                   *)
(*                                                                         *)
(* Converged is about the end of a course of many steps, and its invariant *)
(* follows the course: as long as one thing at a time is at work, each     *)
(* task meets a cargo that is whole, and leaves it as it was asked to be   *)
(* (Courses).  The containers are as CargoLifecycleProofs left them: every *)
(* layer of its invariant (InstanceInv) is used.                           *)
(***************************************************************************)
EXTENDS CargoLifecycleProofs, FiniteSetTheorems

-----------------------------------------------------------------------------
(* Convergence.  Clients create, start, stop, update and delete cargoes,   *)
(* each request when the one before has come to its end; docker did what   *)
(* it was asked to, and no instance crashed.                               *)
Orderly ==
    /\ left.w.calm
    /\ left.fails = left.w.fails /\ left.crashes = left.w.crashes
    /\ left.seen \cap {"secret", "restart", "kill", "process"} = {}

(* Under Orderly one thing at a time is at work: a request, then its       *)
(* event, then its task.  Until the task runs nothing else moves.          *)
Hush == (\A t \in TaskIds : task[t] = TM!Done) /\ dq = <<>> /\ dh = None /\ doomed = {}

NoRequest == \A k \in Clients : req[k] = None

Statused == {"start", "stop", "put", "delete", "force"}

OneRequest(k) ==
    req[k] # None =>
        /\ Hush /\ queue = <<>> /\ loop = TM!Idle /\ req[k].op \in Statused
        /\ req[k].pc \in {"write", "spec", "emit"}
        /\ \A l \in Clients : req[l] # None => l = k

Awaits(ev) == ev.action \in TM!TaskActions /\ ev.obj \in Cargoes

OneEvent ==
    \A n \in DOMAIN queue : queue[n].action # "Other" =>
        /\ Hush /\ Len(queue) = 1 /\ loop = TM!Idle /\ NoRequest
        /\ Awaits(queue[n])

OneTask(t) ==
    task[t] # TM!Done =>
        /\ task[t].phase = "body" /\ NoRequest /\ Awaits(task[t].ev)
        /\ \A u \in TaskIds : task[u] # TM!Done => u = t
        /\ \A n \in DOMAIN queue : queue[n].action = "Other"

Solo ==
    /\ secret = None
    /\ asked \in [Cargoes -> AllOps \cup {"none"}]
    /\ loop = TM!Idle \/ (loop.pc = "wait" /\ loop.ev.action = "Other")
    /\ OneEvent
    /\ \A k \in Clients : OneRequest(k)
    /\ \A t \in TaskIds : OneTask(t)

(* The containers of a cargo that are not about to be removed.             *)
Mine(i, c) == cont[i] # None /\ cont[i].cargo = c

Theirs(c) == {i \in Conts : Mine(i, c) /\ i \notin doomed}

Own(c) == {i \in Theirs(c) : ~cont[i].init}

Whole(c) ==
    /\ \A i \in Theirs(c) : cont[i].tmp = 0
    /\ Own(c) = {} \/ Cardinality(Own(c)) = Replicas

OfSpec(c, spec) == \A i \in Own(c) : cont[i].spec = spec

AllUp(c) == Own(c) # {} /\ \A i \in Own(c) : cont[i].st = "up"

NoneUp(c) == \A i \in Own(c) : cont[i].st # "up"

Says(c, wanted, actual) == Exists(c) /\ row[c].wanted = wanted /\ row[c].actual = actual

(* What was asked of the cargo is done.                                    *)
Settled(c) ==
    /\ Whole(c) /\ (Exists(c) => OfSpec(c, row[c].spec))
    /\ \/ asked[c] \in {"none", "delete", "force"} /\ ~Exists(c)
       \/ asked[c] = "create" /\ Says(c, "Create", "Create") /\ Own(c) = {}
       \/ asked[c] \in {"start", "put"} /\ Says(c, "Start", "Start") /\ AllUp(c)
       \/ asked[c] = "stop" /\ Says(c, "Stop", "Stop") /\ NoneUp(c)

Engaged(c) == Asking(c) \/ Queued(c) \/ Working(c)

(* What a task meets when it begins.                                       *)
WantedBy(a) == IF a \in Launching THEN "Start" ELSE IF a = "Stopping" THEN "Stop" ELSE "Destroy"

Wants(c, a) == Exists(c) /\ row[c].wanted = WantedBy(a)

Due(c, a) == Wants(c, a) /\ Whole(c) /\ (a # "Updating" => OfSpec(c, row[c].spec))

AskedBy(c, a) == asked[c] \in Statused /\ EventOf(asked[c]) = a

Marked(k) == \A c \in Cargoes : Asks(k, c) => Due(c, EventOf(req[k].op))

Coming ==
    \A n \in DOMAIN queue, c \in Cargoes : Calls(queue[n], c) =>
        Due(c, queue[n].action) /\ AskedBy(c, queue[n].action)

NoNews == dq = <<>> /\ dh = None

NoLoss == \A n \in DOMAIN dq : dq[n].type # "destroy"

(* A start runs the instances there are, or makes all of them.             *)
Begins(c, b) ==
    /\ Whole(c) /\ OfSpec(c, row[c].spec) /\ b.spec = row[c].spec /\ b.tmp = 0
    /\ b.pc \in {"rows", "init", "initrun", "initwait", "create", "list", "run"}
    /\ b.pc = "rows" => NoNews
    /\ b.pc \in {"init", "initrun", "initwait"} =>
          /\ b.make <=> Own(c) = {}
          /\ \A i \in b.todo : Mine(i, c) /\ cont[i].init
    /\ b.pc = "create" => Own(c) = {}
    /\ b.pc \in {"list", "run"} => Own(c) # {}
    /\ b.pc = "run" => /\ \A i \in b.todo : Mine(i, c)
                       /\ \A i \in Own(c) \ b.todo : cont[i].st = "up"

(* An update renames what there is, then makes all anew, then dooms the    *)
(* old.                                                                    *)
Old(b) == {i \in Conts : b.rows[i] # None}

Renaming(c, b) ==
    /\ b.new = {}
    /\ \A i \in Conts : Mine(i, c) <=> i \in Old(b)
    /\ \A i \in Old(b) : b.rows[i].tmp = 0 /\ (i \in b.todo <=> cont[i].tmp = 0)

Replaced(c, b) ==
    /\ \A i \in Old(b) : Mine(i, c) /\ cont[i].tmp # 0
    /\ \A i \in Conts \ Old(b) : Mine(i, c) => cont[i].tmp = 0 /\ (cont[i].init \/ i \in b.new)
    /\ \A i \in b.new : Mine(i, c) /\ ~cont[i].init /\ i \notin Old(b) /\ cont[i].spec = b.spec

Replacing(c, b) ==
    /\ Replaced(c, b)
    /\ b.pc \in {"init", "initrun", "initwait", "create"} => b.new = {}
    /\ b.pc = "init" => b.todo = {}
    /\ b.pc \in {"initrun", "initwait"} =>
          \A i \in b.todo : Mine(i, c) /\ cont[i].init /\ i \notin Old(b)
    /\ b.pc \in {"list", "run"} => Cardinality(b.new) = Replicas
    /\ b.pc = "run" => /\ \A i \in b.todo : Mine(i, c)
                       /\ \A i \in b.new \ b.todo : cont[i].st = "up"

Renews(c, b) ==
    /\ b.spec = row[c].spec /\ b.make /\ b.tmp = 0 /\ ~b.err
    /\ b.pc \in {"rows", "rename", "init", "initrun", "initwait", "create", "list", "run", "final"}
    /\ b.pc = "rows" => NoNews /\ Whole(c) /\ b.new = {}
    /\ b.pc = "rename" => Renaming(c, b)
    /\ b.pc \in {"init", "initrun", "initwait", "create", "list", "run"} => Replacing(c, b)
    /\ b.pc = "final" => Whole(c) /\ OfSpec(c, row[c].spec) /\ AllUp(c)

Halts(c, b) ==
    /\ Whole(c) /\ OfSpec(c, row[c].spec) /\ b.pc = "run"
    /\ \A i \in b.todo : Mine(i, c)
    /\ \A i \in Own(c) \ b.todo : cont[i].st # "up"

(* A task a of the cargo c with the local variables b.                     *)
Course(c, a, b) ==
    /\ b.pc # "final" => doomed = {} /\ (a # "Destroying" => NoLoss)
    /\ b.pc = "initwait" => b.todo # {}
    /\ a = "Starting" => Begins(c, b)
    /\ a = "Updating" => Renews(c, b)
    /\ a = "Stopping" => Halts(c, b)
    /\ a = "Destroying" => b.pc \in {"stop", "remove"}

UnderWay(t) ==
    \A c \in Cargoes : Works(t, c) =>
        /\ Wants(c, task[t].ev.action) /\ AskedBy(c, task[t].ev.action)
        /\ IF body[t] = None THEN Due(c, task[t].ev.action) /\ NoNews /\ doomed = {}
           ELSE Course(c, task[t].ev.action, body[t])

(* Init containers are up only while they are waited for.                  *)
InitsEnd ==
    \A i \in Conts : cont[i] # None /\ cont[i].init =>
        /\ cont[i].st # "bad"
        /\ cont[i].st = "up" =>
              \E t \in TaskIds : At(t, Launching, "initwait") /\ body[t].todo = {i}

(* What docker still has to tell fits what the cargo is to be.             *)
Apt(ev) ==
    Exists(ev.cargo) =>
        /\ ev.type = "start" => row[ev.cargo].wanted = "Start"
        /\ Fatal(ev) => row[ev.cargo].wanted \in {"Stop", "Destroy"}

Ears ==
    /\ \A n \in DOMAIN dq : Apt(dq[n])
    /\ dh # None => /\ Apt(dh.ev)
                    /\ dh.pc = "write" /\ Exists(dh.ev.cargo) =>
                          dh.ev.type = "start" \/ row[dh.ev.cargo].wanted = "Destroy"

(* What is doomed was renamed.                                             *)
Renamed == \A i \in doomed : cont[i] # None => cont[i].tmp # 0

Courses ==
    /\ Solo /\ Renamed /\ InitsEnd /\ Ears
    /\ \A c \in Cargoes : Engaged(c) \/ Settled(c)
    /\ \A k \in Clients : Marked(k)
    /\ Coming
    /\ \A t \in TaskIds : UnderWay(t)

Convergence == Orderly => Courses

-----------------------------------------------------------------------------
(* What a step of an orderly behaviour starts from.                        *)
Calm ==
    /\ InstanceInv /\ InstanceInv' /\ Basis /\ Wanes
    /\ Orderly /\ Orderly' /\ Tidy /\ Tidy' /\ NoCrash
    /\ left'.fails = left.fails /\ left'.crashes = left.crashes
    /\ Courses

LEMMA CalmIs ==
    ASSUME InstanceInv, [Next]_vars, Convergence, Orderly'
    PROVE  Calm
<1>1. Basis /\ Wanes /\ InstanceInv'
  BY InstanceStep, SteadyKept DEF InstanceInv
<1>2. /\ left.fails \in Nat /\ left.crashes \in Nat /\ left'.fails \in Nat /\ left'.crashes \in Nat
      /\ left.w.fails \in Nat /\ left.w.crashes \in Nat
  BY <1>1, ConstAssumption DEF InstanceInv, CargoInv, Bounds
<1>3. left.fails <= left.w.fails /\ left.crashes <= left.w.crashes
  BY DEF InstanceInv, Steady, Spent
<1>4. /\ left'.w = left.w /\ left.seen \subseteq left'.seen
      /\ left'.fails <= left.fails /\ left'.crashes <= left.crashes
  BY <1>1 DEF Wanes
<1>5. left'.fails = left'.w.fails /\ left'.crashes = left'.w.crashes
  BY DEF Orderly
<1>6. left'.fails = left.fails /\ left'.crashes = left.crashes
  BY <1>2, <1>3, <1>4, <1>5
<1>7. Orderly
  BY <1>4, <1>5, <1>6 DEF Orderly
<1>8. Tidy /\ Tidy' /\ NoCrash
  BY <1>7 DEF Orderly, Tidy, Faultless, NoCrash
<1>9. QED
  BY <1>1, <1>6, <1>7, <1>8 DEF Calm, Convergence

LEMMA CalmBasis ==
    ASSUME Calm
    PROVE  /\ CargoInv /\ CargoInv' /\ Steady /\ Tables /\ Tables' /\ TM!TypeOK /\ Bounds
           /\ Conts' = Conts /\ Replicas' = Replicas /\ HasInit' = HasInit
           /\ Replicas \in Nat \ {0} /\ left.made \in Nat
<1>1. CargoInv /\ CargoInv' /\ Steady /\ Conts' = Conts /\ left'.w = left.w
  BY DEF Calm, InstanceInv, Basis, Wanes
<1>2. Replicas \in Nat \ {0}
  BY <1>1, ConstAssumption DEF CargoInv, Bounds, Replicas
<1>3. QED
  BY <1>1, <1>2, TmTyped DEF CargoInv, Bounds, Replicas, HasInit

(* No docker call fails of docker's own.                                   *)
LEMMA NotSpent ==
    ASSUME Calm
    PROVE  ~SpendFail /\ \A ok : CallFails(ok) => ~ok
<1>1. left \in [w : Worlds, made : Nat, reqs : Nat, fails : Nat, crashes : Nat,
                seen : SUBSET AllOps]
  BY CalmBasis DEF Bounds
<1>2. SpendFail => left'.fails = left.fails - 1
  BY <1>1 DEF SpendFail
<1>3. ~SpendFail
  BY <1>1, <1>2 DEF Calm
<1>4. QED
  BY <1>3 DEF CallFails

-----------------------------------------------------------------------------
(* The process rows, while docker has no loss to tell.                     *)
LEMMA RowsAre ==
    ASSUME Calm, NoLoss
    PROVE  \A i \in Conts : /\ proc[i] # None <=> cont[i] # None
                            /\ cont[i] # None => /\ proc[i].cargo = cont[i].cargo
                                                 /\ proc[i].init = cont[i].init
<1>1. \A i \in Conts : cont[i] # None =>
         proc[i] # None /\ proc[i].cargo = cont[i].cargo /\ proc[i].init = cont[i].init
  BY DEF Calm, InstanceInv, CargoInv, RowPerContainer, Steady, Matched
<1>2. \A i \in Conts : proc[i] # None => cont[i] # None
  BY DEF Calm, InstanceInv, Swept, Tolls, NoLoss
<1>3. QED
  BY <1>1, <1>2

LEMMA ProcsAre ==
    ASSUME Calm, NoLoss, NEW c \in Cargoes
    PROVE  /\ ProcsOf(c) = {i \in Conts : Mine(i, c)}
           /\ InstancesOf(c) = {i \in Conts : Mine(i, c) /\ ~cont[i].init}
           /\ InitsOf(c) = {i \in Conts : Mine(i, c) /\ cont[i].init}
<1>1. \A i \in Conts : i \in ProcsOf(c) <=> Mine(i, c)
  BY RowsAre DEF ProcsOf, Mine
<1>2. \A i \in ProcsOf(c) : proc[i].init = cont[i].init
  BY <1>1, RowsAre DEF ProcsOf, Mine
<1>3. QED
  BY <1>1, <1>2 DEF InstancesOf, InitsOf, ProcsOf

LEMMA OwnIs ==
    ASSUME doomed = {}, NEW c
    PROVE  /\ Theirs(c) = {i \in Conts : Mine(i, c)}
           /\ Own(c) = {i \in Conts : Mine(i, c) /\ ~cont[i].init}
BY DEF Theirs, Own

LEMMA RowsTell ==
    ASSUME Calm, NoNews
    PROVE  NoLoss /\ \A i \in Conts : cont[i] # None => proc[i].tmp = cont[i].tmp
<1>1. DOMAIN dq = {}
  BY DEF NoNews
<1>2. \A i \in Conts : ~Told(i) /\ ~Hand(i)
  BY <1>1 DEF NoNews, Told, Hand
<1>3. QED
  BY <1>1, <1>2 DEF Calm, InstanceInv, Followed, Follows, NoLoss

-----------------------------------------------------------------------------
(* What docker does to one container i, and what it tells of it.           *)
Others(i) == \A j \in Conts \ {i} : cont'[j] = cont[j]

Flips(i, st) ==
    /\ i \in Conts /\ cont[i] # None /\ Others(i)
    /\ cont'[i] # None /\ Same(i) /\ cont'[i].tmp = cont[i].tmp /\ cont'[i].st = st

News(i, types) ==
    \A n \in DOMAIN dq' :
        \/ n \in DOMAIN dq /\ dq'[n] = dq[n]
        \/ /\ dq'[n].type \in types
           /\ dq'[n].cargo = cont[i].cargo /\ dq'[n].init = cont[i].init
           /\ dq'[n].type = "die" => dq'[n].tmp = cont[i].tmp

LEMMA NewsOf ==
    ASSUME Tables, NEW i \in Conts, cont[i] # None,
           NEW type \in {"start", "die", "stop", "destroy", "rename"},
           NEW types, type \in types, NEW e \in DockerEvents(Conts), e.type = type,
           e.cargo = cont[i].cargo, e.init = cont[i].init, type = "die" => e.tmp = cont[i].tmp,
           dq' = Append(dq, e)
    PROVE  News(i, types)
<1>1. dq \in Seq(DockerEvents(Conts))
  BY DEF Tables
<1>2. \A n \in DOMAIN dq' : (n \in DOMAIN dq /\ dq'[n] = dq[n]) \/ dq'[n] = e
  BY <1>1
<1>3. QED
  BY <1>2 DEF News

LEMMA NoNewsOf ==
    ASSUME NEW i, NEW types, dq' = dq
    PROVE  News(i, types)
BY DEF News

LEMMA EventInit ==
    ASSUME NEW type, NEW i
    PROVE  DockerEvent(type, i).init = cont[i].init
BY DEF DockerEvent

LEMMA StartFlips ==
    ASSUME Tables, NEW i \in Conts, Present(i), StartCont(i)
    PROVE  Flips(i, "up") /\ News(i, {"start"})
<1>1. Flips(i, "up")
  BY StateIs DEF StartCont, Present, Flips, Others, Tables
<1>2. News(i, {"start"})
  <2>1. CASE dq' = dq
    BY <2>1, NoNewsOf
  <2>2. CASE dq' = Append(dq, DockerEvent("start", i))
    BY <2>2, EventIs, EventInit, NewsOf DEF Present
  <2>3. QED
    BY <2>1, <2>2 DEF StartCont
<1>3. QED
  BY <1>1, <1>2

LEMMA ExitFlips ==
    ASSUME Tables, NEW i \in Conts, Present(i), NEW st, Exit(i, st)
    PROVE  Flips(i, st) /\ News(i, {"die"})
<1>1. Flips(i, st)
  BY StateIs DEF Exit, Present, Flips, Others, Tables
<1>2. News(i, {"die"})
  BY EventIs, EventInit, NewsOf DEF Present, Exit
<1>3. QED
  BY <1>1, <1>2

LEMMA StopFlips ==
    ASSUME Tables, NEW i \in Conts, Present(i), StopCont(i), cont[i].init => cont[i].st # "up"
    PROVE  /\ \E st : Flips(i, st) /\ st # "up" /\ (st = "bad" => cont[i].st = "bad")
           /\ News(i, {"die", "stop"})
<1>1. PICK st : /\ cont' = [cont EXCEPT ![i].st = st]
                /\ st = CASE cont[i].st = "up" -> IF cont[i].init THEN "bad" ELSE "down"
                          [] cont[i].st = "crashed" -> "down"
                          [] OTHER -> cont[i].st
  BY ContIs DEF StopCont
<1>5. st # "up" /\ (st = "bad" => cont[i].st = "bad")
  BY <1>1
<1>2. Flips(i, st)
  BY <1>1, StateIs DEF Present, Flips, Others, Tables
<1>3. News(i, {"die", "stop"})
  <2>1. CASE cont[i].st = "up"
    <3>1. dq' = Append(dq, DockerEvent("die", i))
      BY <2>1, AfterDie DEF StopCont
    <3>2. QED
      BY <3>1, EventIs, EventInit, NewsOf DEF Present
  <2>2. CASE cont[i].st = "crashed"
    <3>1. dq' = Append(dq, DockerEvent("stop", i))
      BY <2>2 DEF StopCont
    <3>2. QED
      BY <3>1, EventIs, EventInit, NewsOf DEF Present
  <2>3. CASE cont[i].st \notin {"up", "crashed"}
    <3>1. dq' = dq
      BY <2>3 DEF StopCont
    <3>2. QED
      BY <3>1, NoNewsOf
  <2>4. QED
    BY <2>1, <2>2, <2>3
<1>4. QED
  BY <1>2, <1>3, <1>5

LEMMA RenameIs ==
    ASSUME Tables, NEW i \in Conts, Present(i), NEW n \in Nat, RenameCont(i, n)
    PROVE  /\ Others(i) /\ cont'[i] # None /\ Same(i)
           /\ cont'[i].st = cont[i].st /\ cont'[i].tmp = n
           /\ News(i, {"rename"})
<1>1. cont[i] \in Containers /\ DOMAIN cont = Conts
  BY ContIs
<1>2. Others(i) /\ cont'[i] = [cont[i] EXCEPT !.tmp = n]
  BY <1>1 DEF RenameCont, Others
<1>3. cont'[i].st = cont[i].st /\ cont'[i].tmp = n /\ Same(i) /\ cont'[i] # None
  BY <1>1, <1>2 DEF Containers, Same, None
<1>4. PICK e : e = [DockerEvent("rename", i) EXCEPT !.tmp = n]
  OBVIOUS
<1>5. DockerEvent("rename", i) \in DockerEvents(Conts)
  BY EventIs
<1>6. e \in DockerEvents(Conts)
  BY <1>4, <1>5 DEF DockerEvents
<1>7. e.type = "rename" /\ e.cargo = cont[i].cargo /\ e.init = cont[i].init
  BY <1>4 DEF DockerEvent
<1>8. dq' = Append(dq, e)
  BY <1>4 DEF RenameCont
<1>9. News(i, {"rename"})
  BY <1>6, <1>7, <1>8, NewsOf DEF Present
<1>10. QED
  BY <1>2, <1>3, <1>9

LEMMA RemoveIs ==
    ASSUME Tables, NEW i \in Conts, Present(i), RemoveCont(i)
    PROVE  Others(i) /\ cont'[i] = None /\ News(i, {"die", "destroy"})
<1>1. Others(i) /\ cont'[i] = None
  BY ContIs DEF RemoveCont, Others
<1>2. PICK v, e : v = dq \o DieOf(i) /\ e = DockerEvent("destroy", i)
  OBVIOUS
<1>3. /\ v \in Seq(DockerEvents(Conts)) /\ dq \in Seq(DockerEvents(Conts))
      /\ v = dq \/ v = Append(dq, DockerEvent("die", i))
  BY <1>2, AfterDie DEF Tables
<1>4. dq' = Append(v, e)
  BY <1>2, <1>3, EventIs DEF RemoveCont
<1>5. \A n \in DOMAIN dq' : \/ n \in DOMAIN dq /\ dq'[n] = dq[n]
                            \/ dq'[n] = e \/ dq'[n] = DockerEvent("die", i)
  <2>1. e \in DockerEvents(Conts) /\ DockerEvent("die", i) \in DockerEvents(Conts)
    BY <1>2, EventIs
  <2>2. \A n \in DOMAIN dq' : (n \in DOMAIN v /\ dq'[n] = v[n]) \/ dq'[n] = e
    BY <1>3, <1>4, <2>1
  <2>3. \A n \in DOMAIN v : (n \in DOMAIN dq /\ v[n] = dq[n]) \/ v[n] = DockerEvent("die", i)
    BY <1>3, <2>1
  <2>4. QED
    BY <2>2, <2>3
<1>6. /\ e.type = "destroy" /\ e.cargo = cont[i].cargo /\ e.init = cont[i].init
      /\ DockerEvent("die", i).type = "die" /\ DockerEvent("die", i).cargo = cont[i].cargo
      /\ DockerEvent("die", i).init = cont[i].init /\ DockerEvent("die", i).tmp = cont[i].tmp
  BY <1>2 DEF DockerEvent
<1>7. QED
  BY <1>1, <1>5, <1>6 DEF News

-----------------------------------------------------------------------------
(* A step that leaves the containers of a cargo what they are.             *)
Untouched(c) ==
    \A i \in Conts :
        /\ (Mine(i, c) /\ i \notin doomed)' <=> (Mine(i, c) /\ i \notin doomed)
        /\ Mine(i, c) /\ i \notin doomed =>
              /\ cont'[i].init = cont[i].init /\ cont'[i].tmp = cont[i].tmp
              /\ cont'[i].spec = cont[i].spec

LEMMA UntouchedIs ==
    ASSUME Calm, NEW c, Untouched(c)
    PROVE  /\ Theirs(c)' = Theirs(c) /\ Own(c)' = Own(c) /\ Whole(c)' = Whole(c)
           /\ \A i \in Own(c) : cont'[i].spec = cont[i].spec
<1>1. \A i \in Conts : (i \in Theirs(c))' <=> i \in Theirs(c)
  BY CalmBasis DEF Untouched, Theirs
<1>2. Theirs(c)' = Theirs(c)
  BY <1>1, CalmBasis DEF Theirs
<1>3. \A i \in Theirs(c) : /\ cont'[i].init = cont[i].init /\ cont'[i].tmp = cont[i].tmp
                           /\ cont'[i].spec = cont[i].spec
  BY DEF Untouched, Theirs
<1>4. Own(c)' = Own(c)
  BY <1>2, <1>3 DEF Own
<1>5. Whole(c)' = Whole(c)
  BY <1>2, <1>3, <1>4, CalmBasis DEF Whole
<1>6. QED
  BY <1>2, <1>3, <1>4, <1>5 DEF Own

LEMMA SettledStays ==
    ASSUME Calm, NEW c \in Cargoes, Untouched(c), Settled(c),
           \A i \in Own(c) : cont'[i].st = cont[i].st,
           row'[c] = row[c], asked'[c] = asked[c]
    PROVE  Settled(c)'
<1>1. /\ Own(c)' = Own(c) /\ Whole(c)' = Whole(c)
      /\ \A i \in Own(c) : cont'[i].spec = cont[i].spec
  BY UntouchedIs
<1>2. /\ Exists(c)' = Exists(c) /\ AllUp(c)' = AllUp(c) /\ NoneUp(c)' = NoneUp(c)
      /\ (Exists(c) => OfSpec(c, row[c].spec))' = (Exists(c) => OfSpec(c, row[c].spec))
      /\ \A w, a : Says(c, w, a)' = Says(c, w, a)
  BY <1>1 DEF Exists, AllUp, NoneUp, OfSpec, Says
<1>3. QED
  BY <1>1, <1>2 DEF Settled

LEMMA FlipsMine ==
    ASSUME NEW i, NEW st, Flips(i, st)
    PROVE  \A j \in Conts :
              /\ (cont'[j] # None) = (cont[j] # None)
              /\ \A c : Mine(j, c)' = Mine(j, c)
              /\ cont[j] # None => /\ cont'[j].init = cont[j].init /\ cont'[j].tmp = cont[j].tmp
                                   /\ cont'[j].spec = cont[j].spec
              /\ j # i => cont'[j] = cont[j]
BY DEF Flips, Others, Same, Mine

LEMMA FlipsUntouched ==
    ASSUME NEW i, NEW st, Flips(i, st), UNCHANGED doomed, NEW c
    PROVE  Untouched(c)
BY FlipsMine DEF Untouched, Mine

LEMMA StaysUntouched ==
    ASSUME UNCHANGED <<cont, doomed>>, NEW c
    PROVE  Untouched(c)
BY DEF Untouched, Mine

-----------------------------------------------------------------------------
(* A task at work: what it is of, and that nothing else is.                *)
Work(t, c, a) ==
    /\ task[t].phase = "body" /\ task[t].ev.obj = c /\ task[t].ev.action = a
    /\ c \in Cargoes /\ a \in TM!TaskActions
    /\ Wants(c, a) /\ AskedBy(c, a)
    /\ NoRequest /\ secret = None
    /\ \A u \in TaskIds : task[u] # TM!Done => u = t
    /\ \A n \in DOMAIN queue : queue[n].action = "Other"
    /\ loop = TM!Idle \/ (loop.pc = "wait" /\ loop.ev.action = "Other")

LEMMA RunDone == TM!Done.phase # "body"
BY DEF TM!Done

LEMMA AtWork ==
    ASSUME Calm, NEW t \in TaskIds, task[t].phase = "body", task[t].ev.action \in TM!TaskActions,
           body[t] # None => body[t].pc # "end"
    PROVE  /\ Work(t, Obj(t), task[t].ev.action)
           /\ IF body[t] = None
                THEN Due(Obj(t), task[t].ev.action) /\ NoNews /\ doomed = {}
                ELSE Course(Obj(t), task[t].ev.action, body[t])
<1>1. task[t] # TM!Done
  BY RunDone
<1>2. OneTask(t) /\ UnderWay(t) /\ Solo
  BY DEF Calm, Courses, Solo
<1>3. Obj(t) \in Cargoes
  BY <1>1, <1>2 DEF OneTask, Awaits, Obj
<1>4. Works(t, Obj(t))
  BY <1>1 DEF Works, Calls, Obj
<1>5. QED
  BY <1>1, <1>2, <1>3, <1>4 DEF Work, OneTask, UnderWay, Solo, Obj

(* What the step of a task tells, and what it comes to.                    *)
Speaks(c, a) ==
    \A n \in DOMAIN dq' :
        \/ n \in DOMAIN dq /\ dq'[n] = dq[n]
        \/ /\ dq'[n].cargo = c
           /\ dq'[n].type = "start" => a \in Launching
           /\ Fatal(dq'[n]) => a \in {"Stopping", "Destroying"}
           /\ dq'[n].type = "destroy" => a = "Destroying"

(* Only containers of c change.                                            *)
Apart(c) ==
    \A d \in Cargoes : d # c => Untouched(d) /\ \A i \in Own(d) : cont'[i].st = cont[i].st

WantedStays ==
    \A d \in Cargoes : Exists(d)' => Exists(d) /\ row'[d].wanted = row[d].wanted

Outcome(t, c, a) ==
    /\ UNCHANGED <<req, asked, loop, task, secret, dh>>
    /\ queue' = queue \/ queue' = Append(queue, Ev(c, "Other"))
    /\ \A u \in TaskIds : u # t => body'[u] = body[u]
    /\ \A d \in Cargoes : d # c => row'[d] = row[d]
    /\ Apart(c)
    /\ WantedStays /\ Speaks(c, a)
    /\ body'[t] # None
    /\ IF body'[t].pc = "end" THEN Settled(c)' ELSE Exists(c)' /\ Course(c, a, body[t])'
    /\ InitsEnd' /\ Renamed'

LEMMA TypedEvents ==
    ASSUME Calm
    PROVE  /\ \A n \in DOMAIN dq : dq[n].cargo \in Cargoes
           /\ \A n \in DOMAIN dq' : dq'[n].cargo \in Cargoes
           /\ dh # None => dh.ev.cargo \in Cargoes
           /\ queue \in Seq(TM!Events) /\ DOMAIN queue = 1..Len(queue)
<1>1. Tables /\ Tables' /\ TM!TypeOK /\ Conts' = Conts
  BY CalmBasis
<1>2. dq \in Seq(DockerEvents(Conts)) /\ dq' \in Seq(DockerEvents(Conts))
  BY <1>1 DEF Tables, DockerEvents
<1>3. dh # None => dh.ev \in DockerEvents(Conts)
  BY <1>1 DEF Tables
<1>4. \A n \in DOMAIN dq : dq[n] \in DockerEvents(Conts)
  BY <1>2
<1>5. \A n \in DOMAIN dq' : dq'[n] \in DockerEvents(Conts)
  BY <1>2
<1>6. QED
  BY <1>1, <1>3, <1>4, <1>5 DEF DockerEvents, TM!TypeOK

LEMMA AptKept ==
    ASSUME WantedStays, NEW e, e.cargo \in Cargoes, Apt(e)
    PROVE  Apt(e)'
BY DEF Apt, WantedStays

LEMMA EarsKept ==
    ASSUME Calm, WantedStays, UNCHANGED dh, NEW c \in Cargoes, NEW a, Speaks(c, a),
           a \in TM!TaskActions, Wants(c, a)
    PROVE  Ears'
<1>1. Ears
  BY DEF Calm, Courses
<1>2. ASSUME NEW n \in DOMAIN dq, NEW e, e = dq[n]
      PROVE  Apt(e)'
  BY <1>1, <1>2, TypedEvents, AptKept DEF Ears
<1>3. ASSUME NEW e, e.cargo = c, e.type = "start" => a \in Launching,
             Fatal(e) => a \in {"Stopping", "Destroying"}
      PROVE  Apt(e)'
  BY <1>3 DEF Apt, WantedStays, Exists, Fatal, Wants, WantedBy, Launching
<1>4. \A n \in DOMAIN dq' : Apt(dq[n])'
  <2>1. SUFFICES ASSUME NEW n \in DOMAIN dq', NEW e, e = dq'[n]
                 PROVE  Apt(e)'
    BY DEF Apt, Exists, Fatal
  <2>2. CASE n \in DOMAIN dq /\ dq'[n] = dq[n]
    BY <1>2, <2>1, <2>2
  <2>3. CASE ~(n \in DOMAIN dq /\ dq'[n] = dq[n])
    BY <1>3, <2>1, <2>3 DEF Speaks, Fatal
  <2>4. QED
    BY <2>2, <2>3
<1>5. ASSUME NEW e, e = dh.ev, dh # None
      PROVE  /\ Apt(e)'
             /\ dh.pc = "write" /\ Exists(e.cargo)' =>
                    e.type = "start" \/ row'[e.cargo].wanted = "Destroy"
  <2>1. e.cargo \in Cargoes
    BY <1>5, TypedEvents
  <2>2. Exists(e.cargo)' => Exists(e.cargo) /\ row'[e.cargo].wanted = row[e.cargo].wanted
    BY <2>1 DEF WantedStays
  <2>3. /\ Apt(e)
        /\ dh.pc = "write" /\ Exists(e.cargo) =>
              e.type = "start" \/ row[e.cargo].wanted = "Destroy"
    BY <1>1, <1>5 DEF Ears
  <2>4. QED
    BY <2>2, <2>3 DEF Apt
<1>6. PICK e : e = dh.ev
  OBVIOUS
<1>7. dh # None => /\ Apt(e)'
                   /\ dh.pc = "write" /\ Exists(e.cargo)' =>
                          e.type = "start" \/ row'[e.cargo].wanted = "Destroy"
  BY <1>5, <1>6
<1>8. dh' = dh /\ dh'.ev = e
  BY <1>6
<1>9. (dh # None => /\ Apt(dh.ev)
                    /\ dh.pc = "write" /\ Exists(dh.ev.cargo) =>
                          dh.ev.type = "start" \/ row[dh.ev.cargo].wanted = "Destroy")'
  BY <1>7, <1>8 DEF Apt, Exists
<1>10. QED
  BY <1>4, <1>9 DEF Ears

(* While a task is at work or docker tells, nothing is asked.              *)
Lull == NoRequest /\ \A n \in DOMAIN queue : queue[n].action = "Other"

LEMMA OtherEvent ==
    ASSUME NEW c
    PROVE  Ev(c, "Other").action = "Other" /\ "Other" \notin TM!TaskActions
BY DEF Ev, TM!TaskActions

LEMMA MoreOther ==
    ASSUME Calm, NEW c \in Cargoes, \A n \in DOMAIN queue : queue[n].action = "Other",
           queue' = queue \/ queue' = Append(queue, Ev(c, "Other"))
    PROVE  \A n \in DOMAIN queue' : queue'[n].action = "Other"
<1>1. queue \in Seq(TM!Events) /\ Ev(c, "Other") \in TM!Events
  BY TypedEvents, Emitted
<1>2. \A n \in DOMAIN queue' : (n \in DOMAIN queue /\ queue'[n] = queue[n]) \/ queue'[n] = Ev(c, "Other")
  BY <1>1
<1>3. QED
  BY <1>2, OtherEvent

LEMMA LullEngaged ==
    ASSUME Lull, loop = TM!Idle \/ (loop.pc = "wait" /\ loop.ev.action = "Other"), NEW c
    PROVE  Engaged(c) <=> Working(c)
<1>1. ~Asking(c)
  BY DEF Lull, NoRequest, Asking, Asks
<1>2. ~Queued(c)
  BY OtherEvent DEF Lull, Queued, Calls, TM!Idle
<1>3. QED
  BY <1>1, <1>2 DEF Engaged

LEMMA OutcomeCourses ==
    ASSUME Calm, NEW t \in TaskIds, NEW c, NEW a, Work(t, c, a), Outcome(t, c, a),
           body[t] # None => body[t].pc # "end"
    PROVE  Courses'
<1>1. /\ c \in Cargoes /\ a \in TM!TaskActions /\ Solo
      /\ UNCHANGED <<req, asked, loop, task, secret, dh>>
  BY DEF Work, Outcome, Calm, Courses
<1>2. Lull'
  BY <1>1, MoreOther DEF Lull, NoRequest, Work, Outcome
<1>3. Solo'
  <2>1. OneEvent' /\ \A k \in Clients : OneRequest(k)'
    BY <1>2 DEF Lull, NoRequest, OneEvent, OneRequest
  <2>2. \A u \in TaskIds : OneTask(u)'
    BY <1>1, <1>2 DEF Solo, OneTask, Lull, NoRequest, Awaits
  <2>3. QED
    BY <1>1, <2>1, <2>2 DEF Solo
<1>4. Ears'
  BY <1>1, EarsKept DEF Outcome, Work
<1>5. (\A k \in Clients : Marked(k)') /\ Coming'
  BY <1>2, OtherEvent DEF Lull, NoRequest, Marked, Asks, Coming, Calls
<1>6. \A u \in TaskIds : UnderWay(u)'
  <2>1. ASSUME NEW u \in TaskIds, u # t
        PROVE  UnderWay(u)'
    BY <1>1, <2>1 DEF UnderWay, Works, Work
  <2>2. UnderWay(t)'
    <3>1. SUFFICES ASSUME NEW d \in Cargoes, Works(t, d)'
                   PROVE  (/\ Wants(d, task[t].ev.action) /\ AskedBy(d, task[t].ev.action)
                           /\ Course(d, task[t].ev.action, body[t]))'
      BY DEF UnderWay, Outcome
    <3>2. d = c /\ body'[t].pc # "end"
      BY <1>1, <3>1 DEF Works, Calls, Work, Outcome
    <3>3. Exists(c)' /\ Course(c, a, body[t])' /\ row'[c].wanted = row[c].wanted
      BY <1>1, <3>2 DEF Outcome, WantedStays
    <3>4. Wants(c, a)' /\ AskedBy(c, a)'
      BY <1>1, <3>3 DEF Work, Wants, AskedBy
    <3>5. task'[t].ev.action = a
      BY <1>1 DEF Work
    <3>6. QED
      BY <3>2, <3>3, <3>4, <3>5
  <2>3. QED
    BY <2>1, <2>2
<1>7. \A d \in Cargoes : (Engaged(d) \/ Settled(d))'
  <2>1. TAKE d \in Cargoes
  <2>2. CASE d = c
    <3>1. CASE body'[t].pc = "end"
      BY <2>2, <3>1 DEF Outcome
    <3>2. CASE body'[t].pc # "end"
      <4>1. Works(t, c)'
        BY <1>1, <3>2, RunDone DEF Works, Calls, Work
      <4>2. QED
        BY <2>2, <4>1 DEF Engaged, Working
    <3>3. QED
      BY <3>1, <3>2
  <2>3. CASE d # c
    <3>1. ~Working(d)
      BY <2>3 DEF Working, Works, Calls, Work
    <3>2. Settled(d)
      BY <3>1, LullEngaged DEF Calm, Courses, Work, Lull
    <3>3. Settled(d)'
      BY <1>1, <2>3, <3>2, SettledStays DEF Outcome, Apart
    <3>4. QED
      BY <3>3
  <2>4. QED
    BY <2>2, <2>3
<1>8. QED
  BY <1>3, <1>4, <1>5, <1>6, <1>7 DEF Courses, Outcome

-----------------------------------------------------------------------------
(* The parts of an outcome.                                                *)
LEMMA ApartSame ==
    ASSUME UNCHANGED <<cont, doomed>>, NEW c
    PROVE  Apart(c)
BY StaysUntouched DEF Apart

LEMMA ApartOne ==
    ASSUME NEW c, NEW i \in Conts, Mine(i, c), Others(i), UNCHANGED doomed,
           cont'[i] # None => cont'[i].cargo = cont[i].cargo
    PROVE  Apart(c)
BY DEF Apart, Untouched, Mine, Others, Own, Theirs

LEMMA ApartGrows ==
    ASSUME Calm, NEW c, NEW init, NEW spec, NEW m, Grows(c, init, spec, m), UNCHANGED doomed
    PROVE  Apart(c)
<1>1. \A i \in Conts : \/ cont'[i] = cont[i]
                       \/ cont[i] = None /\ cont'[i] # None /\ cont'[i].cargo = c
  BY CalmBasis, GrowsIs
<1>2. QED
  BY <1>1 DEF Apart, Untouched, Mine, Own, Theirs

LEMMA ApartDooms ==
    ASSUME NEW c, NEW S, \A i \in S : Mine(i, c), UNCHANGED cont, doomed' = doomed \cup S
    PROVE  Apart(c)
BY DEF Apart, Untouched, Mine

LEMMA SameCargo ==
    ASSUME Calm, UNCHANGED <<cont, doomed>>, NEW c
    PROVE  /\ Theirs(c)' = Theirs(c) /\ Own(c)' = Own(c) /\ Whole(c)' = Whole(c)
           /\ \A i : Mine(i, c)' = Mine(i, c)
BY StaysUntouched, UntouchedIs DEF Mine

LEMMA NoInitUp ==
    ASSUME Calm, NEW t \in TaskIds, NEW c, NEW a, Work(t, c, a), ~At(t, Launching, "initwait")
    PROVE  \A i \in Conts : cont[i] # None /\ cont[i].init => cont[i].st \notin {"up", "bad"}
<1>1. InitsEnd
  BY DEF Calm, Courses
<1>2. \A u \in TaskIds : At(u, Launching, "initwait") => task[u].phase = "body"
  BY CalmBasis DEF At, CargoInv, Locals
<1>3. \A u \in TaskIds : At(u, Launching, "initwait") => u = t
  BY <1>2, RunDone DEF Work
<1>4. QED
  BY <1>1, <1>3 DEF InitsEnd

LEMMA InitsDown ==
    ASSUME Calm, \A i \in Conts : cont'[i] # None /\ cont'[i].init => cont'[i].st \notin {"up", "bad"}
    PROVE  InitsEnd'
BY CalmBasis DEF InitsEnd

LEMMA InitsFlip ==
    ASSUME Calm, NEW t \in TaskIds, NEW c, NEW a, Work(t, c, a), ~At(t, Launching, "initwait"),
           NEW i, NEW st, Flips(i, st), cont[i].init => st \notin {"up", "bad"}
    PROVE  InitsEnd'
<1>1. \A j \in Conts : cont[j] # None /\ cont[j].init => cont[j].st \notin {"up", "bad"}
  BY NoInitUp
<1>2. \A j \in Conts : cont'[j] # None /\ cont'[j].init => cont'[j].st \notin {"up", "bad"}
  BY <1>1 DEF Flips, Others, Same
<1>3. QED
  BY <1>2, InitsDown

LEMMA SpeaksNothing ==
    ASSUME UNCHANGED dq, NEW c, NEW a
    PROVE  Speaks(c, a)
BY DEF Speaks

LEMMA SpeaksNews ==
    ASSUME NEW i, NEW types, News(i, types), NEW c, Mine(i, c), NEW a,
           "start" \in types => a \in Launching,
           "die" \in types => a \in {"Stopping", "Destroying"},
           "destroy" \in types => a = "Destroying"
    PROVE  Speaks(c, a)
BY DEF News, Mine, Speaks, Fatal

LEMMA NoLossKept ==
    ASSUME NoLoss, NEW c, NEW a, Speaks(c, a), a # "Destroying"
    PROVE  NoLoss'
BY DEF NoLoss, Speaks

LEMMA WantedSame ==
    ASSUME UNCHANGED row
    PROVE  WantedStays
BY DEF WantedStays, Exists

(* A step of a task that only moves its local variables on.                *)
LEMMA Turned ==
    ASSUME Calm, NEW t \in TaskIds, NEW c, NEW a, Work(t, c, a), Alone(t),
           UNCHANGED <<queue, loop, task, row, secret, dh, req, asked, cont, dq, doomed>>,
           ~At(t, Launching, "initwait"), doomed = {}, body[t] # None => body[t].pc # "end",
           body'[t] # None, body'[t].pc # "end", Course(c, a, body[t])'
    PROVE  Courses'
<1>1. InitsEnd' /\ Renamed'
  BY NoInitUp, InitsDown DEF Renamed
<1>2. Exists(c)'
  BY DEF Work, Wants, Exists
<1>3. Apart(c) /\ WantedStays /\ Speaks(c, a)
  BY ApartSame, WantedSame, SpeaksNothing
<1>4. Outcome(t, c, a)
  BY <1>1, <1>2, <1>3 DEF Outcome, Alone, Still
<1>5. QED
  BY <1>4, OutcomeCourses

(* What a step leaves of the local variables of t, or begins with.         *)
Moves(t, pc, todo) ==
    /\ body'[t] # None
    /\ body'[t].pc = pc /\ body'[t].todo = todo /\ body'[t].new = body[t].new
    /\ body'[t].rows = body[t].rows /\ body'[t].spec = body[t].spec
    /\ body'[t].make = body[t].make /\ body'[t].tmp = body[t].tmp
    /\ body'[t].err = body[t].err

Starting(t, spec, pc, todo) ==
    /\ body'[t] # None
    /\ body'[t].pc = pc /\ body'[t].todo = todo /\ body'[t].new = {} /\ body'[t].spec = spec
    /\ body'[t].make /\ body'[t].tmp = 0 /\ ~body'[t].err

LEMMA MovesTo ==
    ASSUME Calm, NEW t \in TaskIds, body[t] \in Frames(Conts), UNCHANGED task,
           NEW pc, NEW todo, Set(t, Goto(t, pc, todo))
    PROVE  Alone(t) /\ Moves(t, pc, todo)
<1>1. PICK b : b = Goto(t, pc, todo)
  OBVIOUS
<1>2. Alone(t) /\ body'[t] = b
  BY <1>1, SetAlone, CalmBasis
<1>3. /\ b.pc = pc /\ b.todo = todo /\ b.new = body[t].new /\ b.rows = body[t].rows
      /\ b.spec = body[t].spec /\ b.make = body[t].make /\ b.tmp = body[t].tmp
      /\ b.err = body[t].err /\ b.st = "run"
  BY <1>1 DEF Frames, Goto
<1>4. QED
  BY <1>2, <1>3 DEF Moves, None

LEMMA BeginsAt ==
    ASSUME Calm, NEW t \in TaskIds, UNCHANGED task,
           NEW spec, NEW pc, NEW todo, Set(t, Frame(spec, pc, todo))
    PROVE  Alone(t) /\ Starting(t, spec, pc, todo)
<1>1. PICK b : b = Frame(spec, pc, todo)
  OBVIOUS
<1>2. Alone(t) /\ body'[t] = b
  BY <1>1, SetAlone, CalmBasis
<1>3. /\ b.pc = pc /\ b.todo = todo /\ b.new = {} /\ b.spec = spec
      /\ b.make /\ b.tmp = 0 /\ ~b.err /\ b.st = "run"
  BY <1>1 DEF Frame
<1>4. QED
  BY <1>2, <1>3 DEF Starting, None

LEMMA NoDq ==
    ASSUME NoNews
    PROVE  NoLoss
BY DEF NoNews, NoLoss

LEMMA LaunchIs ==
    ASSUME NEW a \in Launching
    PROVE  /\ a \in {"Starting", "Updating"} /\ a \in TM!TaskActions
           /\ a # "Stopping" /\ a # "Destroying"
BY DEF Launching, TM!TaskActions

-----------------------------------------------------------------------------
(* One task step after the other.                                          *)
LEMMA ReadCargoGoes ==
    ASSUME Calm, NEW t \in TaskIds, ReadCargo(t)
    PROVE  Courses'
<1>1. PICK c, a : c = Obj(t) /\ a = task[t].ev.action
  OBVIOUS
<1>2. a \in Launching /\ task[t].phase = "body" /\ body[t] = None
  BY <1>1 DEF ReadCargo, Reads
<1>3. Work(t, c, a) /\ Due(c, a) /\ NoNews /\ doomed = {}
  BY <1>1, <1>2, AtWork, LaunchIs
<1>4. Exists(c)
  BY <1>3 DEF Work, Wants
<1>5. PICK spec : spec = row[c].spec
  OBVIOUS
<1>6. /\ UNCHANGED <<queue, loop, task, row, secret, dh, req, asked, cont, dq, doomed>>
      /\ Set(t, Frame(spec, "rows", {}))
  BY <1>1, <1>4, <1>5 DEF ReadCargo, tmVars, dbVars, dockerVars, clientVars
<1>7. Alone(t) /\ Starting(t, spec, "rows", {})
  BY <1>6, BeginsAt
<1>8. /\ Own(c)' = Own(c) /\ Whole(c)' = Whole(c) /\ NoNews' /\ NoLoss' /\ doomed' = {}
  BY <1>3, <1>6, SameCargo, NoDq DEF NoNews, NoLoss
<1>9. Course(c, a, body[t])'
  <2>1. CASE a = "Starting"
    <3>1. Begins(c, body[t])'
      BY <1>3, <1>5, <1>6, <1>7, <1>8, <2>1 DEF Begins, Due, OfSpec, Starting
    <3>2. QED
      BY <1>7, <1>8, <2>1, <3>1 DEF Course, Starting
  <2>2. CASE a = "Updating"
    <3>1. Renews(c, body[t])'
      BY <1>3, <1>5, <1>6, <1>7, <1>8 DEF Renews, Due, Starting
    <3>2. QED
      BY <1>7, <1>8, <2>2, <3>1 DEF Course, Starting
  <2>3. QED
    BY <1>2, <2>1, <2>2 DEF Launching
<1>10. ~At(t, Launching, "initwait")
  BY <1>2 DEF At
<1>11. QED
  BY <1>2, <1>3, <1>6, <1>7, <1>9, <1>10, Turned DEF Starting

(* The task runs at pc, and its course says so.                            *)
On(t, acts, pc) ==
    /\ Work(t, Obj(t), task[t].ev.action) /\ task[t].ev.action \in acts
    /\ Course(Obj(t), task[t].ev.action, body[t])
    /\ body[t] # None /\ body[t].pc = pc /\ body[t] \in Frames(Conts)
    /\ GoodFrame(body[t], Conts)
    /\ body[t].todo \subseteq Conts /\ body[t].new \subseteq Conts
    /\ body[t].todo # {} =>
          Newest(body[t].todo) \in body[t].todo /\ Newest(body[t].todo) \in Conts

LEMMA OnCourse ==
    ASSUME Calm, NEW t \in TaskIds, NEW acts, acts \subseteq TM!TaskActions, NEW pc, pc # "end",
           At(t, acts, pc)
    PROVE  On(t, acts, pc)
<1>1. Runs(t, acts, pc) /\ body[t] # None
  BY CalmBasis, AtRuns DEF At
<1>2. task[t].phase = "body" /\ task[t].ev.action \in acts /\ body[t].pc = pc
  BY <1>1 DEF Runs
<1>3. GoodFrame(body[t], Conts) /\ body[t] \in Frames(Conts)
  BY <1>1 DEF Runs, GoodFrame
<1>4. QED
  BY <1>1, <1>2, <1>3, AtWork, AtRuns, CalmBasis DEF On

LEMMA NotWaiting ==
    ASSUME NEW t, body[t] # None => body[t].pc # "initwait"
    PROVE  ~At(t, Launching, "initwait")
BY DEF At

LEMMA OwnNext ==
    ASSUME Calm, doomed' = {}, NEW c
    PROVE  /\ Theirs(c)' = {i \in Conts : Mine(i, c)'}
           /\ Own(c)' = {i \in Conts : Mine(i, c)' /\ ~cont'[i].init}
BY CalmBasis DEF Theirs, Own

LEMMA ReadStartGoes ==
    ASSUME Calm, NEW t \in TaskIds, ReadStart(t)
    PROVE  Courses'
<1>1. PICK c, a, pc, make, tmp :
         /\ c = Obj(t) /\ a = task[t].ev.action /\ make = (InstancesOf(c) = {})
         /\ pc = IF HasInit THEN "init" ELSE IF make THEN "create" ELSE "list"
         /\ tmp = IF InitsOf(c) = {} THEN 0 ELSE proc[Newest(InitsOf(c))].tmp
  OBVIOUS
<1>2. On(t, {"Starting"}, "rows")
  BY OnCourse, Acts DEF ReadStart
<1>3. /\ Work(t, c, a) /\ a = "Starting" /\ Course(c, a, body[t])
      /\ body[t] # None /\ body[t].pc = "rows" /\ body[t] \in Frames(Conts)
      /\ ~At(t, Launching, "initwait")
  BY <1>1, <1>2, NotWaiting DEF On
<1>4. /\ UNCHANGED <<queue, loop, task, row, secret, dh, req, asked, cont, dq, doomed>>
      /\ Set(t, [Goto(t, pc, InitsOf(c)) EXCEPT !.make = make, !.tmp = tmp])
  BY <1>1 DEF ReadStart, tmVars, dbVars, dockerVars, clientVars
<1>5. PICK todo, g : todo = InitsOf(c) /\ g = Goto(t, pc, todo)
  OBVIOUS
<1>6. PICK b : b = [g EXCEPT !.make = make, !.tmp = tmp]
  OBVIOUS
<1>7. Alone(t) /\ body'[t] = b
  BY <1>4, <1>5, <1>6, SetAlone, CalmBasis
<1>16. /\ g.pc = pc /\ g.todo = todo /\ g.spec = body[t].spec /\ g.st = "run"
       /\ {"make", "tmp"} \subseteq DOMAIN g
  BY <1>3, <1>5 DEF Frames, Goto
<1>17. /\ b.pc = pc /\ b.todo = todo /\ b.spec = body[t].spec /\ b.st = "run"
       /\ b.make = make /\ b.tmp = tmp
  BY <1>6, <1>16
<1>18. b # None
  BY <1>17 DEF None
<1>8. Begins(c, body[t]) /\ doomed = {} /\ NoNews /\ NoLoss
  BY <1>3 DEF Course, Begins
<1>9. /\ InstancesOf(c) = Own(c) /\ InitsOf(c) = {i \in Conts : Mine(i, c) /\ cont[i].init}
      /\ Theirs(c) = {i \in Conts : Mine(i, c)}
  BY <1>3, <1>8, ProcsAre, OwnIs DEF Work
<1>10. tmp = 0
  <2>1. CASE InitsOf(c) = {}
    BY <1>1, <2>1
  <2>2. CASE InitsOf(c) # {}
    <3>1. Newest(InitsOf(c)) \in InitsOf(c)
      BY <1>9, <2>2, NewestCont, CalmBasis
    <3>2. PICK i \in Conts : i = Newest(InitsOf(c)) /\ Mine(i, c)
      BY <1>9, <3>1
    <3>3. cont[i] # None /\ i \in Theirs(c)
      BY <1>9, <3>2 DEF Mine
    <3>4. cont[i].tmp = 0 /\ proc[i].tmp = cont[i].tmp
      BY <1>8, <3>3, RowsTell DEF Begins, Whole
    <3>5. QED
      BY <1>1, <2>2, <3>2, <3>4
  <2>3. QED
    BY <2>1, <2>2
<1>11. /\ Own(c)' = Own(c) /\ Whole(c)' = Whole(c) /\ NoLoss' /\ doomed' = {}
       /\ \A i : Mine(i, c)' = Mine(i, c)
  BY <1>4, <1>8, SameCargo DEF NoLoss
<1>12. /\ b.make <=> Own(c) = {}
       /\ pc \in {"init", "create", "list"}
       /\ pc = "create" => Own(c) = {}
       /\ pc = "list" => Own(c) # {}
  BY <1>1, <1>9, <1>17
<1>13. Begins(c, body[t])'
  BY <1>4, <1>5, <1>7, <1>8, <1>9, <1>10, <1>11, <1>12, <1>17 DEF Begins, OfSpec
<1>14. Course(c, a, body[t])'
  BY <1>3, <1>7, <1>11, <1>12, <1>13, <1>17 DEF Course
<1>15. QED
  BY <1>3, <1>4, <1>7, <1>8, <1>12, <1>14, <1>17, <1>18, Turned

(* New containers of a cargo that has none doomed.                         *)
Grown(c, init, spec, m) ==
    /\ Grows(c, init, spec, m)
    /\ \A i \in Conts : Mine(i, c)' <=> Mine(i, c) \/ i \in Fresh(m)
    /\ \A i \in Conts : cont[i] # None => cont'[i] = cont[i] /\ i \notin Fresh(m)
    /\ \A i \in Conts : cont'[i] # None => cont'[i] = cont[i] \/ i \in Fresh(m)
    /\ \A i \in Fresh(m) : /\ i \in Conts /\ Mine(i, c)' /\ cont[i] = None /\ cont'[i] # None
                           /\ cont'[i].init = init /\ cont'[i].spec = spec
                           /\ cont'[i].tmp = 0 /\ cont'[i].st = "created"
    /\ Own(c)' = IF init THEN Own(c) ELSE Own(c) \cup Fresh(m)
    /\ (\A i \in Theirs(c) : cont[i].tmp = 0) => (\A i \in Theirs(c) : cont[i].tmp = 0)'

LEMMA GrowsOwn ==
    ASSUME Calm, doomed = {}, UNCHANGED doomed, NEW c, NEW init \in BOOLEAN, NEW spec, NEW m,
           Grows(c, init, spec, m)
    PROVE  Grown(c, init, spec, m)
<1>1. /\ Fresh(m) \subseteq Conts
      /\ \A i \in Fresh(m) : /\ cont[i] = None
                             /\ cont'[i] # None /\ cont'[i].cargo = c /\ cont'[i].spec = spec
                             /\ cont'[i].init = init /\ cont'[i].st = "created"
                             /\ cont'[i].tmp = 0
      /\ \A i \in Conts \ Fresh(m) : cont'[i] = cont[i]
  BY CalmBasis, GrowsIs
<1>2. /\ \A i \in Conts : Mine(i, c)' <=> Mine(i, c) \/ i \in Fresh(m)
      /\ \A i \in Conts : cont[i] # None => cont'[i] = cont[i] /\ i \notin Fresh(m)
  BY <1>1 DEF Mine
<1>3. /\ Own(c) = {i \in Conts : Mine(i, c) /\ ~cont[i].init}
      /\ Own(c)' = {i \in Conts : Mine(i, c)' /\ ~cont'[i].init}
      /\ Theirs(c) = {i \in Conts : Mine(i, c)} /\ Theirs(c)' = {i \in Conts : Mine(i, c)'}
  BY OwnIs, OwnNext
<1>4. Own(c)' = IF init THEN Own(c) ELSE Own(c) \cup Fresh(m)
  BY <1>1, <1>2, <1>3 DEF Mine
<1>5. (\A i \in Theirs(c) : cont[i].tmp = 0) => (\A i \in Theirs(c) : cont[i].tmp = 0)'
  BY <1>1, <1>2, <1>3 DEF Mine
<1>6. QED
  BY <1>1, <1>2, <1>4, <1>5 DEF Mine, Grown

LEMMA CreateInitGoes ==
    ASSUME Calm, NEW t \in TaskIds, CreateInit(t)
    PROVE  Courses'
<1>1. PICK c, a : c = Obj(t) /\ a = task[t].ev.action
  OBVIOUS
<1>2. On(t, Launching, "init")
  BY OnCourse, Acts DEF CreateInit
<1>3. /\ Work(t, c, a) /\ a \in Launching /\ Course(c, a, body[t])
      /\ body[t] # None /\ body[t].pc = "init" /\ body[t] \in Frames(Conts)
      /\ ~At(t, Launching, "initwait") /\ body[t].todo \subseteq Conts
      /\ body[t].todo # {} => Newest(body[t].todo) \in body[t].todo
      /\ UNCHANGED <<row, doomed, secret, dh, dq, req, asked>>
  BY <1>1, <1>2, NotWaiting DEF On, CreateInit, clientVars
<1>4. doomed = {} /\ NoLoss /\ doomed' = {} /\ NoLoss'
  BY <1>3 DEF Course, NoLoss
<1>5. \/ a = "Starting" /\ Begins(c, body[t])
      \/ a = "Updating" /\ Renews(c, body[t]) /\ Replacing(c, body[t])
  BY <1>3 DEF Course, Launching, Renews
<1>6. CASE body[t].todo # {}
  <2>1. PICK pc, todo : pc = "initrun" /\ todo = {Newest(body[t].todo)}
    OBVIOUS
  <2>2. UNCHANGED <<queue, loop, task, cont>> /\ Set(t, Goto(t, pc, todo))
    BY <1>6, <2>1 DEF CreateInit, tmVars
  <2>3. Alone(t) /\ Moves(t, pc, todo)
    BY <1>3, <2>2, MovesTo
  <2>4. a = "Starting" /\ Begins(c, body[t])
    BY <1>3, <1>5, <1>6 DEF Replacing, Replaced
  <2>5. /\ Own(c)' = Own(c) /\ Whole(c)' = Whole(c) /\ \A i : Mine(i, c)' = Mine(i, c)
    BY <1>3, <2>2, SameCargo
  <2>6. Begins(c, body[t])'
    BY <1>3, <1>6, <2>1, <2>2, <2>3, <2>4, <2>5 DEF Begins, OfSpec, Moves
  <2>7. body'[t] # None /\ body'[t].pc = "initrun"
    BY <2>1, <2>3 DEF Moves
  <2>8. Course(c, a, body[t])'
    BY <1>4, <2>4, <2>6, <2>7 DEF Course
  <2>9. QED
    BY <1>3, <1>4, <2>2, <2>3, <2>7, <2>8, Turned
<1>7. CASE body[t].todo = {}
  <2>1. PICK spec, pc, todo : spec = body[t].spec /\ pc = "initrun" /\ todo = Fresh(1)
    OBVIOUS
  <2>2. /\ UNCHANGED <<queue, loop, task>> /\ Set(t, Goto(t, pc, todo))
        /\ Grown(c, TRUE, spec, 1)
    <3>1. /\ UNCHANGED <<queue, loop, task>> /\ Set(t, Goto(t, pc, todo))
          /\ CreateConts(Fresh(1), c, TRUE, spec)
          /\ left' = [left EXCEPT !.made = @ + 1]
      BY <1>1, <1>7, <2>1, NotSpent DEF CreateInit, tmVars
    <3>2. left'.made = left.made + 1
      BY <3>1, CalmBasis DEF Bounds
    <3>3. Grows(c, TRUE, spec, 1)
      BY <1>3, <3>1, <3>2 DEF Grows
    <3>4. QED
      BY <1>3, <1>4, <3>1, <3>3, GrowsOwn
  <2>3. Alone(t) /\ Moves(t, pc, todo)
    BY <1>3, <2>2, MovesTo
  <2>4. PICK F : F = Fresh(1)
    OBVIOUS
  <2>5. /\ \A i \in Conts : Mine(i, c)' <=> Mine(i, c) \/ i \in F
        /\ \A i \in Conts : cont[i] # None => cont'[i] = cont[i] /\ i \notin F
        /\ \A i \in Conts : cont'[i] # None => cont'[i] = cont[i] \/ i \in F
        /\ \A i \in F : /\ i \in Conts /\ Mine(i, c)' /\ cont[i] = None /\ cont'[i] # None
                         /\ cont'[i].init /\ cont'[i].spec = spec
                         /\ cont'[i].tmp = 0 /\ cont'[i].st = "created"
        /\ Own(c)' = Own(c)
        /\ (\A i \in Theirs(c) : cont[i].tmp = 0) => (\A i \in Theirs(c) : cont[i].tmp = 0)'
    BY <2>2, <2>4 DEF Grown
  <2>6. body'[t] # None /\ body'[t].pc = "initrun" /\ body'[t].todo = F
    BY <2>1, <2>3, <2>4 DEF Moves
  <2>7. Course(c, a, body[t])'
    <3>1. CASE a = "Starting"
      <4>1. Whole(c)' /\ OfSpec(c, row[c].spec)'
        <5>1. \A i \in Own(c) : i \in Conts /\ cont[i] # None
          BY DEF Own, Theirs, Mine
        <5>2. QED
          BY <1>3, <1>5, <2>5, <3>1, <5>1, CalmBasis DEF Begins, Whole, OfSpec
      <4>2. Begins(c, body[t])'
        BY <1>3, <1>5, <2>3, <2>5, <2>6, <3>1, <4>1 DEF Begins, Moves
      <4>3. QED
        BY <1>4, <2>6, <3>1, <4>2 DEF Course
    <3>2. CASE a = "Updating"
      <4>1. Old(body[t])' = Old(body[t])
        BY <2>3, CalmBasis DEF Old, Moves
      <4>2. \A i \in F : i \notin Old(body[t])
        BY <1>5, <2>5, <3>2 DEF Replacing, Replaced, Mine
      <4>3. Replacing(c, body[t])'
        <5>1. \A i \in Old(body[t]) : Mine(i, c)' /\ cont'[i].tmp # 0
          BY <1>5, <2>5, <3>2 DEF Replacing, Replaced, Mine, Old
        <5>2. \A i \in Conts \ Old(body[t]) : Mine(i, c)' => cont'[i].tmp = 0 /\ cont'[i].init
          BY <1>3, <1>5, <2>5, <3>2 DEF Replacing, Replaced, Mine
        <5>3. body'[t].new = {}
          BY <1>3, <1>5, <2>3, <3>2 DEF Replacing, Replaced, Moves
        <5>4. \A i \in F : Mine(i, c)' /\ cont'[i].init /\ i \notin Old(body[t])
          BY <2>5, <4>2
        <5>5. QED
          BY <2>6, <4>1, <5>1, <5>2, <5>3, <5>4, CalmBasis DEF Replacing, Replaced
      <4>4. Renews(c, body[t])'
        BY <1>3, <1>5, <2>3, <2>6, <3>2, <4>3 DEF Renews, Moves
      <4>5. QED
        BY <1>4, <2>6, <3>2, <4>4 DEF Course
    <3>3. QED
      BY <1>5, <3>1, <3>2
  <2>8. InitsEnd'
    BY <1>3, <2>5, NoInitUp, InitsDown
  <2>9. Apart(c) /\ WantedStays /\ Speaks(c, a) /\ Exists(c)'
    BY <1>3, <2>2, ApartGrows, WantedSame, SpeaksNothing DEF Work, Wants, Exists, Grown
  <2>10. Outcome(t, c, a)
    BY <1>3, <1>4, <2>2, <2>3, <2>6, <2>7, <2>8, <2>9 DEF Outcome, Alone, Still, Renamed
  <2>11. QED
    BY <1>3, <2>10, OutcomeCourses
<1>8. QED
  BY <1>6, <1>7

-----------------------------------------------------------------------------
(* A call of the task about one container of its cargo.                    *)
Alike(c) ==
    \A j \in Conts :
        /\ Mine(j, c)' = Mine(j, c)
        /\ Mine(j, c) => /\ cont'[j].init = cont[j].init /\ cont'[j].tmp = cont[j].tmp
                         /\ cont'[j].spec = cont[j].spec

LEMMA AlikeFlips ==
    ASSUME NEW i, NEW st, Flips(i, st), NEW c
    PROVE  Alike(c)
BY FlipsMine DEF Alike, Mine

LEMMA AlikeSame ==
    ASSUME UNCHANGED cont, NEW c
    PROVE  Alike(c)
BY DEF Alike, Mine

LEMMA AlikeIs ==
    ASSUME Calm, NEW c, Alike(c), UNCHANGED doomed
    PROVE  /\ Theirs(c)' = Theirs(c) /\ Own(c)' = Own(c) /\ Whole(c)' = Whole(c)
           /\ \A i \in Own(c) : cont'[i].spec = cont[i].spec
<1>1. Untouched(c)
  BY DEF Alike, Untouched, Mine
<1>2. QED
  BY <1>1, UntouchedIs

LEMMA OldSame ==
    ASSUME Calm, NEW t, body'[t].rows = body[t].rows
    PROVE  Old(body[t])' = Old(body[t])
BY CalmBasis DEF Old

LEMMA ReplacedSame ==
    ASSUME Calm, NEW t, NEW c, Replaced(c, body[t]), Alike(c), body[t].new \subseteq Conts,
           body'[t].rows = body[t].rows, body'[t].new = body[t].new, body'[t].spec = body[t].spec
    PROVE  Replaced(c, body[t])'
<1>1. Old(body[t])' = Old(body[t]) /\ Conts' = Conts
  BY OldSame, CalmBasis
<1>2. \A i \in Old(body[t]) : i \in Conts
  BY DEF Old
<1>3. \A i \in Old(body[t]) : Mine(i, c)' /\ cont'[i].tmp # 0
  BY <1>2 DEF Replaced, Alike
<1>4. \A i \in Conts \ Old(body[t]) : Mine(i, c)' =>
          cont'[i].tmp = 0 /\ (cont'[i].init \/ i \in body'[t].new)
  BY DEF Replaced, Alike
<1>5. \A i \in body'[t].new :
          Mine(i, c)' /\ ~cont'[i].init /\ i \notin Old(body[t]) /\ cont'[i].spec = body'[t].spec
  BY DEF Replaced, Alike
<1>6. QED
  BY <1>1, <1>3, <1>4, <1>5 DEF Replaced

LEMMA Touched ==
    ASSUME Calm, NEW t \in TaskIds, NEW c, NEW a, Work(t, c, a), Alone(t),
           UNCHANGED <<queue, loop, task, row, secret, dh, req, asked, doomed>>, doomed = {},
           body[t] # None, body[t].pc # "end",
           NEW i \in Conts, Mine(i, c), Others(i), cont'[i] # None => cont'[i].cargo = cont[i].cargo,
           Speaks(c, a), InitsEnd',
           body'[t] # None, body'[t].pc # "end", Course(c, a, body[t])'
    PROVE  Courses'
<1>1. Renamed' /\ Exists(c)'
  BY DEF Renamed, Work, Wants, Exists
<1>2. Apart(c) /\ WantedStays
  BY ApartOne, WantedSame
<1>3. Outcome(t, c, a)
  BY <1>1, <1>2 DEF Outcome, Alone, Still
<1>4. QED
  BY <1>3, OutcomeCourses

Only(i) == i \in Conts /\ Others(i) /\ (cont'[i] # None => cont'[i].cargo = cont[i].cargo)

LEMMA FlipsCargo ==
    ASSUME NEW i, NEW st, Flips(i, st)
    PROVE  Only(i)
BY DEF Flips, Same, Only

-----------------------------------------------------------------------------
LEMMA StartInitGoes ==
    ASSUME Calm, NEW t \in TaskIds, StartInit(t)
    PROVE  Courses'
<1>1. PICK c, a, i : c = Obj(t) /\ a = task[t].ev.action /\ i = Newest(body[t].todo)
  OBVIOUS
<1>2. On(t, Launching, "initrun")
  BY OnCourse, Acts DEF StartInit
<1>3. /\ Work(t, c, a) /\ a \in Launching /\ Course(c, a, body[t])
      /\ body[t] # None /\ body[t].pc = "initrun" /\ body[t] \in Frames(Conts)
      /\ ~At(t, Launching, "initwait") /\ body[t].todo # {}
      /\ i \in body[t].todo /\ i \in Conts /\ body[t].new \subseteq Conts
  BY <1>1, <1>2, NotWaiting DEF On, GoodFrame
<1>4. doomed = {} /\ NoLoss
  BY <1>3, LaunchIs DEF Course
<1>5. \/ a = "Starting" /\ Begins(c, body[t])
      \/ a = "Updating" /\ Renews(c, body[t]) /\ Replacing(c, body[t])
  BY <1>3 DEF Course, Launching, Renews
<1>6. Mine(i, c) /\ cont[i].init /\ cont[i].tmp = 0 /\ body[t].tmp = 0
  <2>1. CASE a = "Starting" /\ Begins(c, body[t])
    BY <1>3, <1>4, <2>1, OwnIs DEF Begins, Whole
  <2>2. CASE Renews(c, body[t]) /\ Replacing(c, body[t])
    BY <1>3, <2>2 DEF Renews, Replacing, Replaced
  <2>3. QED
    BY <1>5, <2>1, <2>2
<1>7. Present(i) /\ cont[i].tmp = body[t].tmp
  BY <1>6 DEF Mine, Present
<1>8. PICK pc, todo : pc = "initwait" /\ todo = {i}
  OBVIOUS
<1>9. /\ StartCont(i) /\ Set(t, Goto(t, pc, todo))
      /\ UNCHANGED <<queue, loop, task, row, secret, dh, req, asked, doomed>>
  BY <1>1, <1>7, <1>8, NotSpent DEF StartInit, tmVars, dbVars, clientVars
<1>10. Alone(t) /\ Moves(t, pc, todo)
  BY <1>3, <1>9, MovesTo
<1>11. Flips(i, "up") /\ News(i, {"start"})
  BY <1>3, <1>7, <1>9, StartFlips, CalmBasis
<1>12. Alike(c) /\ Only(i)
  BY <1>11, AlikeFlips, FlipsCargo DEF Only
<1>13. Speaks(c, a)
  BY <1>3, <1>6, <1>11, SpeaksNews
<1>14. doomed' = {} /\ NoLoss'
  BY <1>3, <1>4, <1>9, <1>13, LaunchIs, NoLossKept
<1>15. /\ body'[t] # None /\ body'[t].pc = "initwait" /\ body'[t].todo = {i}
  BY <1>8, <1>10 DEF Moves
<1>16. Course(c, a, body[t])'
  <2>1. CASE a = "Starting" /\ Begins(c, body[t])
    <3>1. Begins(c, body[t])'
      BY <1>3, <1>6, <1>9, <1>10, <1>12, <1>15, <2>1, AlikeIs DEF Begins, OfSpec, Moves, Alike
    <3>2. QED
      BY <1>14, <1>15, <2>1, <3>1 DEF Course
  <2>2. CASE a = "Updating" /\ Renews(c, body[t]) /\ Replacing(c, body[t])
    <3>1. Replaced(c, body[t])' /\ Old(body[t])' = Old(body[t])
      BY <1>3, <1>10, <1>12, <2>2, ReplacedSame, OldSame DEF Replacing, Moves
    <3>2. Replacing(c, body[t])'
      BY <1>3, <1>6, <1>10, <1>12, <1>15, <2>2, <3>1 DEF Replacing, Moves, Alike
    <3>3. Renews(c, body[t])'
      BY <1>3, <1>9, <1>10, <1>15, <2>2, <3>2 DEF Renews, Moves
    <3>4. QED
      BY <1>14, <1>15, <2>2, <3>3 DEF Course
  <2>3. QED
    BY <1>5, <2>1, <2>2
<1>17. InitsEnd'
  <2>1. \A j \in Conts : cont[j] # None /\ cont[j].init => cont[j].st \notin {"up", "bad"}
    BY <1>3, NoInitUp
  <2>2. At(t, Launching, "initwait")'
    BY <1>1, <1>3, <1>9, <1>15 DEF At
  <2>3. QED
    BY <1>11, <1>15, <2>1, <2>2, CalmBasis DEF InitsEnd, Flips, Others, Same
<1>18. QED
  BY <1>3, <1>4, <1>6, <1>9, <1>10, <1>12, <1>13, <1>15, <1>16, <1>17, Touched DEF Only

LEMMA WaitInitGoes ==
    ASSUME Calm, NEW t \in TaskIds, WaitInit(t)
    PROVE  Courses'
<1>1. PICK c, a, i : c = Obj(t) /\ a = task[t].ev.action /\ i = Newest(body[t].todo)
  OBVIOUS
<1>2. On(t, Launching, "initwait")
  BY OnCourse, Acts DEF WaitInit
<1>3. /\ Work(t, c, a) /\ a \in Launching /\ Course(c, a, body[t])
      /\ body[t] # None /\ body[t].pc = "initwait" /\ body[t] \in Frames(Conts)
      /\ body[t].todo # {} /\ i \in body[t].todo /\ i \in Conts /\ body[t].new \subseteq Conts
  BY <1>1, <1>2 DEF On, Course
<1>4. doomed = {} /\ NoLoss
  BY <1>3, LaunchIs DEF Course
<1>5. \/ a = "Starting" /\ Begins(c, body[t])
      \/ a = "Updating" /\ Renews(c, body[t]) /\ Replacing(c, body[t])
  BY <1>3 DEF Course, Launching, Renews
<1>6. Mine(i, c) /\ cont[i].init
  BY <1>3, <1>5 DEF Begins, Replacing
<1>7. InitsEnd
  BY DEF Calm, Courses
<1>8. Present(i) /\ cont[i].st # "bad"
  BY <1>3, <1>6, <1>7 DEF Mine, Present, InitsEnd
<1>9. PICK pc, todo : todo = {} /\ pc = IF body[t].make THEN "create" ELSE "list"
  OBVIOUS
<1>10. /\ Set(t, Goto(t, pc, todo)) /\ cont[i].st = "down"
       /\ UNCHANGED <<queue, loop, task, row, secret, dh, req, asked, cont, dq, doomed>>
  BY <1>1, <1>8, <1>9 DEF WaitInit, tmVars, dbVars, dockerVars, clientVars
<1>11. Alone(t) /\ Moves(t, pc, todo)
  BY <1>3, <1>10, MovesTo
<1>12. /\ pc \in {"create", "list"} /\ (pc = "create" <=> body[t].make)
       /\ body'[t] # None /\ body'[t].pc = pc /\ body'[t].todo = {}
  BY <1>9, <1>11 DEF Moves
<1>13. Alike(c) /\ doomed' = {} /\ NoLoss'
  BY <1>4, <1>10, AlikeSame DEF NoLoss
<1>14. Course(c, a, body[t])'
  <2>1. CASE a = "Starting" /\ Begins(c, body[t])
    <3>1. Begins(c, body[t])'
      BY <1>3, <1>10, <1>11, <1>12, <1>13, <2>1, AlikeIs DEF Begins, OfSpec, Moves
    <3>2. QED
      BY <1>12, <1>13, <2>1, <3>1 DEF Course
  <2>2. CASE a = "Updating" /\ Renews(c, body[t]) /\ Replacing(c, body[t])
    <3>1. Replaced(c, body[t])' /\ Old(body[t])' = Old(body[t])
      BY <1>3, <1>11, <1>13, <2>2, ReplacedSame, OldSame DEF Replacing, Moves
    <3>2. pc = "create" /\ body[t].new = {}
      BY <1>3, <1>12, <2>2 DEF Renews, Replacing
    <3>3. Replacing(c, body[t])'
      BY <1>11, <1>12, <3>1, <3>2 DEF Replacing, Moves
    <3>4. Renews(c, body[t])'
      BY <1>3, <1>10, <1>11, <1>12, <2>2, <3>2, <3>3 DEF Renews, Moves
    <3>5. QED
      BY <1>12, <1>13, <2>2, <3>4 DEF Course
  <2>3. QED
    BY <1>5, <2>1, <2>2
<1>15. InitsEnd'
  <2>1. \A u \in TaskIds : At(u, Launching, "initwait") => u = t
    <3>1. \A u \in TaskIds : At(u, Launching, "initwait") => task[u].phase = "body"
      BY CalmBasis DEF At, CargoInv, Locals
    <3>2. QED
      BY <1>3, <3>1, RunDone DEF Work
  <2>2. ASSUME NEW j \in Conts, cont[j] # None, cont[j].init
        PROVE  cont[j].st \notin {"up", "bad"}
    <3>1. cont[j].st = "up" => body[t].todo = {j}
      BY <1>7, <2>1, <2>2 DEF InitsEnd
    <3>2. cont[j].st = "up" => i = j
      BY <1>3, <3>1
    <3>3. QED
      BY <1>7, <1>10, <2>2, <3>2 DEF InitsEnd
  <2>3. QED
    BY <1>10, <2>2, InitsDown
<1>16. Apart(c) /\ WantedStays /\ Speaks(c, a) /\ Exists(c)' /\ Renamed'
  BY <1>3, <1>10, <1>13, ApartSame, WantedSame, SpeaksNothing DEF Work, Wants, Exists, Renamed
<1>17. Outcome(t, c, a)
  BY <1>10, <1>11, <1>12, <1>14, <1>15, <1>16 DEF Outcome, Alone, Still
<1>18. QED
  BY <1>3, <1>17, OutcomeCourses

(* cargo::create made all the replicas.                                    *)
LEMMA FreshCount ==
    ASSUME CargoInv, NEW m \in Nat
    PROVE  Cardinality(Fresh(m)) = m
<1>1. left.made \in Nat
  BY DEF CargoInv, Bounds
<1>2. PICK p, q : p = left.made + 1 /\ q = left.made + m
  OBVIOUS
<1>3. p \in Int /\ q \in Int /\ (p > q => m = 0) /\ (~(p > q) => q - p + 1 = m)
  BY <1>1, <1>2
<1>4. Cardinality(p .. q) = IF p > q THEN 0 ELSE q - p + 1
  BY <1>3, FS_Interval
<1>5. QED
  BY <1>2, <1>3, <1>4 DEF Fresh

LEMMA CreateInstancesGoes ==
    ASSUME Calm, NEW t \in TaskIds, CreateInstances(t)
    PROVE  Courses'
<1>1. PICK c, a, spec, m : /\ c = Obj(t) /\ a = task[t].ev.action /\ spec = body[t].spec
                           /\ m = Replicas
  OBVIOUS
<1>2. On(t, Launching, "create")
  BY OnCourse, Acts DEF CreateInstances
<1>3. /\ Work(t, c, a) /\ a \in Launching /\ Course(c, a, body[t])
      /\ body[t] # None /\ body[t].pc = "create" /\ body[t] \in Frames(Conts)
      /\ ~At(t, Launching, "initwait") /\ body[t].new \subseteq Conts
      /\ UNCHANGED <<row, doomed, secret, dh, dq, req, asked>>
  BY <1>1, <1>2, NotWaiting DEF On, CreateInstances, clientVars
<1>4. doomed = {} /\ NoLoss /\ doomed' = {} /\ NoLoss' /\ m \in Nat \ {0}
  BY <1>1, <1>3, LaunchIs, CalmBasis DEF Course, NoLoss
<1>5. \/ a = "Starting" /\ Begins(c, body[t])
      \/ a = "Updating" /\ Renews(c, body[t]) /\ Replacing(c, body[t])
  BY <1>3 DEF Course, Launching, Renews
<1>6. PICK n \in 0..Replicas :
        /\ CreateConts(Fresh(n), Obj(t), FALSE, body[t].spec)
        /\ \/ /\ n = Replicas
              /\ Set(t, [Goto(t, "list", {}) EXCEPT !.new = Fresh(n)])
              /\ left' = [left EXCEPT !.made = @ + n]
              /\ UNCHANGED tmVars
           \/ /\ n < Replicas /\ MayFail
              /\ left' = [left EXCEPT !.made = @ + n, !.fails = @ - 1]
              /\ Err(t)
  BY DEF CreateInstances
<1>7. left \in [w : Worlds, made : Nat, reqs : Nat, fails : Nat, crashes : Nat,
                seen : SUBSET AllOps]
  BY CalmBasis DEF Bounds
<1>8. /\ n = m /\ left' = [left EXCEPT !.made = @ + m] /\ UNCHANGED <<queue, loop, task>>
      /\ CreateConts(Fresh(m), c, FALSE, spec)
      /\ Set(t, [Goto(t, "list", {}) EXCEPT !.new = Fresh(m)])
  <2>1. left'.fails = left.fails /\ left.fails \in Nat
    BY <1>7 DEF Calm
  <2>2. left' = [left EXCEPT !.made = @ + n, !.fails = @ - 1] => left'.fails = left.fails - 1
    BY <1>7
  <2>3. ~(left' = [left EXCEPT !.made = @ + n, !.fails = @ - 1])
    BY <2>1, <2>2
  <2>4. n = Replicas /\ Set(t, [Goto(t, "list", {}) EXCEPT !.new = Fresh(n)])
        /\ left' = [left EXCEPT !.made = @ + n] /\ UNCHANGED tmVars
    BY <1>6, <2>3
  <2>5. n = m
    BY <1>1, <2>4
  <2>6. QED
    BY <1>1, <1>6, <2>4, <2>5 DEF tmVars
<1>9. Grown(c, FALSE, spec, m)
  <2>1. left'.made = left.made + m
    BY <1>7, <1>8
  <2>2. Grows(c, FALSE, spec, m)
    BY <1>3, <1>4, <1>8, <2>1 DEF Grows
  <2>3. QED
    BY <1>3, <1>4, <2>2, GrowsOwn
<1>10. PICK F, pc, todo : F = Fresh(m) /\ pc = "list" /\ todo = {}
  OBVIOUS
<1>11. PICK g : g = Goto(t, pc, todo)
  OBVIOUS
<1>12. PICK b : b = [g EXCEPT !.new = F]
  OBVIOUS
<1>13. Alone(t) /\ body'[t] = b
  BY <1>8, <1>10, <1>11, <1>12, SetAlone, CalmBasis
<1>14. /\ b.pc = "list" /\ b.todo = {} /\ b.rows = body[t].rows /\ b.spec = spec
       /\ b.st = "run" /\ b.new = F /\ b.tmp = body[t].tmp /\ b.make = body[t].make
       /\ b.err = body[t].err
  <2>1. /\ g.pc = "list" /\ g.todo = {} /\ g.rows = body[t].rows /\ g.spec = spec
        /\ g.st = "run" /\ g.tmp = body[t].tmp /\ g.make = body[t].make
        /\ g.err = body[t].err /\ "new" \in DOMAIN g
    BY <1>1, <1>3, <1>10, <1>11 DEF Goto, Frames
  <2>2. QED
    BY <1>12, <2>1
<1>15. body'[t] # None
  BY <1>13, <1>14 DEF None
<1>16. /\ \A i \in Conts : Mine(i, c)' <=> Mine(i, c) \/ i \in F
       /\ \A i \in Conts : cont[i] # None => cont'[i] = cont[i] /\ i \notin F
       /\ \A i \in Conts : cont'[i] # None => cont'[i] = cont[i] \/ i \in F
       /\ \A i \in F : /\ i \in Conts /\ Mine(i, c)' /\ cont[i] = None /\ cont'[i] # None
                       /\ ~cont'[i].init /\ cont'[i].spec = spec /\ cont'[i].tmp = 0
       /\ Own(c)' = Own(c) \cup F
       /\ (\A i \in Theirs(c) : cont[i].tmp = 0) => (\A i \in Theirs(c) : cont[i].tmp = 0)'
  BY <1>9, <1>10 DEF Grown
<1>17. Cardinality(F) = m /\ F # {}
  BY <1>4, <1>10, FreshCount, CalmBasis, FS_EmptySet
<1>18. Course(c, a, body[t])'
  <2>1. CASE a = "Starting" /\ Begins(c, body[t])
    <3>1. Own(c)' = F
      BY <1>3, <1>16, <2>1 DEF Begins
    <3>2. Whole(c)' /\ OfSpec(c, row[c].spec)'
      BY <1>1, <1>3, <1>16, <1>17, <2>1, <3>1, CalmBasis DEF Begins, Whole, OfSpec
    <3>3. Begins(c, body[t])'
      BY <1>1, <1>3, <1>13, <1>14, <1>17, <2>1, <3>1, <3>2 DEF Begins
    <3>4. QED
      BY <1>4, <1>13, <1>14, <2>1, <3>3 DEF Course
  <2>2. CASE a = "Updating" /\ Renews(c, body[t]) /\ Replacing(c, body[t])
    <3>1. Old(body[t])' = Old(body[t]) /\ Replaced(c, body[t])
      BY <1>13, <1>14, <2>2, <1>3, OldSame DEF Replacing
    <3>2. \A i \in F : i \notin Old(body[t])
      BY <1>16, <3>1 DEF Replaced, Mine
    <3>3. Replaced(c, body[t])'
      <4>1. \A i \in Old(body[t]) : Mine(i, c)' /\ cont'[i].tmp # 0
        BY <1>16, <3>1 DEF Replaced, Mine, Old
      <4>2. \A i \in Conts \ Old(body[t]) : Mine(i, c)' =>
                cont'[i].tmp = 0 /\ (cont'[i].init \/ i \in F)
        BY <1>3, <1>16, <2>2, <3>1 DEF Replacing, Replaced, Mine
      <4>3. \A i \in F : Mine(i, c)' /\ ~cont'[i].init /\ i \notin Old(body[t]) /\ cont'[i].spec = spec
        BY <1>16, <3>2
      <4>4. QED
        BY <1>13, <1>14, <3>1, <4>1, <4>2, <4>3, CalmBasis DEF Replaced
    <3>4. Replacing(c, body[t])'
      BY <1>1, <1>13, <1>14, <1>17, <3>3, CalmBasis DEF Replacing
    <3>5. Renews(c, body[t])'
      BY <1>1, <1>3, <1>13, <1>14, <2>2, <3>4 DEF Renews
    <3>6. QED
      BY <1>4, <1>13, <1>14, <2>2, <3>5 DEF Course
  <2>3. QED
    BY <1>5, <2>1, <2>2
<1>19. InitsEnd'
  BY <1>3, <1>16, NoInitUp, InitsDown
<1>20. Apart(c) /\ WantedStays /\ Speaks(c, a) /\ Exists(c)'
  BY <1>3, <1>9, ApartGrows, WantedSame, SpeaksNothing DEF Work, Wants, Exists, Grown
<1>21. Outcome(t, c, a)
  BY <1>3, <1>4, <1>8, <1>13, <1>14, <1>15, <1>18, <1>19, <1>20 DEF Outcome, Alone, Still, Renamed
<1>22. QED
  BY <1>3, <1>21, OutcomeCourses

LEMMA ListInstancesGoes ==
    ASSUME Calm, NEW t \in TaskIds, ListInstances(t)
    PROVE  Courses'
<1>1. PICK c, a, todo, pc :
         c = Obj(t) /\ a = task[t].ev.action /\ todo = InstancesOf(Obj(t)) /\ pc = "run"
  OBVIOUS
<1>2. On(t, Launching, "list")
  BY OnCourse, Acts DEF ListInstances
<1>3. /\ Work(t, c, a) /\ a \in Launching /\ Course(c, a, body[t])
      /\ body[t] # None /\ body[t].pc = "list" /\ body[t] \in Frames(Conts)
      /\ ~At(t, Launching, "initwait") /\ body[t].new \subseteq Conts
  BY <1>1, <1>2, NotWaiting DEF On
<1>4. /\ Set(t, Goto(t, pc, todo))
      /\ UNCHANGED <<queue, loop, task, row, secret, dh, req, asked, cont, dq, doomed>>
  BY <1>1 DEF ListInstances, tmVars, dbVars, dockerVars, clientVars
<1>5. doomed = {} /\ NoLoss /\ doomed' = {} /\ NoLoss'
  BY <1>3, <1>4, LaunchIs DEF Course, NoLoss
<1>6. \/ a = "Starting" /\ Begins(c, body[t])
      \/ a = "Updating" /\ Renews(c, body[t]) /\ Replacing(c, body[t])
  BY <1>3 DEF Course, Launching, Renews
<1>7. todo = Own(c) /\ Own(c) = {i \in Conts : Mine(i, c) /\ ~cont[i].init}
  BY <1>1, <1>3, <1>5, ProcsAre, OwnIs DEF Work
<1>8. Alone(t) /\ Moves(t, pc, todo)
  BY <1>3, <1>4, MovesTo
<1>9. body'[t] # None /\ body'[t].pc = "run" /\ body'[t].todo = Own(c) /\ Alike(c)
  BY <1>1, <1>4, <1>7, <1>8, AlikeSame DEF Moves
<1>10. Course(c, a, body[t])'
  <2>1. CASE a = "Starting" /\ Begins(c, body[t])
    <3>1. Begins(c, body[t])'
      BY <1>3, <1>4, <1>7, <1>8, <1>9, <2>1, AlikeIs DEF Begins, OfSpec, Moves, Alike
    <3>2. QED
      BY <1>5, <1>9, <2>1, <3>1 DEF Course
  <2>2. CASE a = "Updating" /\ Renews(c, body[t]) /\ Replacing(c, body[t])
    <3>1. Replaced(c, body[t])' /\ Old(body[t])' = Old(body[t])
      BY <1>3, <1>8, <1>9, <2>2, ReplacedSame, OldSame DEF Replacing, Moves
    <3>2. \A i \in body[t].new : i \in Own(c)
      BY <1>3, <1>7, <2>2 DEF Replacing, Replaced
    <3>3. Replacing(c, body[t])'
      BY <1>3, <1>7, <1>8, <1>9, <2>2, <3>1, <3>2, CalmBasis DEF Replacing, Moves, Alike
    <3>4. Renews(c, body[t])'
      BY <1>3, <1>4, <1>8, <1>9, <2>2, <3>3 DEF Renews, Moves
    <3>5. QED
      BY <1>5, <1>9, <2>2, <3>4 DEF Course
  <2>3. QED
    BY <1>6, <2>1, <2>2
<1>11. QED
  BY <1>3, <1>4, <1>5, <1>8, <1>9, <1>10, Turned

(* What the loops over containers leave of their list.                     *)
LEMMA DoneMoves ==
    ASSUME Calm, NEW t \in TaskIds, GoodFrame(body[t], Conts), UNCHANGED task,
           NEW i, NEW pc, pc = body[t].pc, NEW todo, todo = body[t].todo \ {i}, Set(t, Done(t, i))
    PROVE  Alone(t) /\ Moves(t, pc, todo)
<1>1. Set(t, Goto(t, pc, todo))
  BY DoneIs
<1>2. body[t] \in Frames(Conts)
  BY DEF GoodFrame
<1>3. QED
  BY <1>1, <1>2, MovesTo

LEMMA StartInstanceGoes ==
    ASSUME Calm, NEW t \in TaskIds, StartInstance(t)
    PROVE  Courses'
<1>1. PICK c, a, i : c = Obj(t) /\ a = task[t].ev.action /\ i = Newest(body[t].todo)
  OBVIOUS
<1>2. On(t, Launching, "run")
  BY OnCourse, Acts DEF StartInstance
<1>3. /\ Work(t, c, a) /\ a \in Launching /\ Course(c, a, body[t]) /\ body[t].todo # {}
      /\ body[t] # None /\ body[t].pc = "run" /\ GoodFrame(body[t], Conts)
      /\ ~At(t, Launching, "initwait") /\ i \in body[t].todo /\ i \in Conts
      /\ body[t].new \subseteq Conts /\ body[t].todo \subseteq Conts
  BY <1>1, <1>2, NotWaiting DEF On, StartInstance
<1>4. doomed = {} /\ NoLoss
  BY <1>3, LaunchIs DEF Course
<1>5. \/ a = "Starting" /\ Begins(c, body[t])
      \/ a = "Updating" /\ Renews(c, body[t]) /\ Replacing(c, body[t])
  BY <1>3 DEF Course, Launching, Renews
<1>6. Mine(i, c) /\ ~cont[i].init
  <2>1. Mine(i, c)
    BY <1>3, <1>5 DEF Begins, Replacing
  <2>2. Sound(t)
    BY DEF Calm, InstanceInv, Steady
  <2>3. Regular(body[t].todo)
    BY <1>1, <1>3, <2>2 DEF Sound, Fits
  <2>4. QED
    BY <1>3, <2>1, <2>3 DEF Regular, Mine
<1>7. PICK pc, todo : pc = body[t].pc /\ todo = body[t].todo \ {i}
  OBVIOUS
<1>8. /\ StartCont(i) /\ Present(i) /\ Set(t, Done(t, i))
      /\ UNCHANGED <<queue, loop, task, row, secret, dh, req, asked, doomed>>
  BY <1>1 DEF StartInstance, tmVars, dbVars, clientVars
<1>9. Alone(t) /\ Moves(t, pc, todo)
  BY <1>3, <1>7, <1>8, DoneMoves
<1>10. Flips(i, "up") /\ News(i, {"start"})
  BY <1>3, <1>8, StartFlips, CalmBasis
<1>11. Alike(c) /\ Only(i)
  BY <1>10, AlikeFlips, FlipsCargo
<1>12. Speaks(c, a)
  BY <1>3, <1>6, <1>10, SpeaksNews
<1>13. doomed' = {} /\ NoLoss'
  BY <1>3, <1>4, <1>8, <1>12, LaunchIs, NoLossKept
<1>14. /\ body'[t] # None /\ body'[t].pc = "run" /\ body'[t].todo = body[t].todo \ {i}
  BY <1>3, <1>7, <1>9 DEF Moves
<1>15. \A j \in Conts : cont[j] # None /\ cont[j].st = "up" => cont'[j].st = "up"
  BY <1>10 DEF Flips, Others
<1>16. cont'[i].st = "up"
  BY <1>10 DEF Flips
<1>17. Course(c, a, body[t])'
  <2>1. CASE a = "Starting" /\ Begins(c, body[t])
    <3>1. \A j \in Own(c) \ (body[t].todo \ {i}) : cont'[j].st = "up"
      BY <1>3, <1>15, <1>16, <2>1 DEF Begins, Own, Theirs, Mine
    <3>2. Begins(c, body[t])'
      BY <1>3, <1>8, <1>9, <1>11, <1>14, <2>1, <3>1, AlikeIs DEF Begins, OfSpec, Moves, Alike
    <3>3. QED
      BY <1>13, <1>14, <2>1, <3>2 DEF Course
  <2>2. CASE a = "Updating" /\ Renews(c, body[t]) /\ Replacing(c, body[t])
    <3>1. Replaced(c, body[t])' /\ Old(body[t])' = Old(body[t])
      BY <1>3, <1>9, <1>11, <2>2, ReplacedSame, OldSame DEF Replacing, Moves
    <3>2. \A j \in body[t].new \ (body[t].todo \ {i}) : cont'[j].st = "up"
      BY <1>3, <1>15, <1>16, <2>2 DEF Replacing, Replaced, Mine
    <3>3. Replacing(c, body[t])'
      BY <1>3, <1>9, <1>11, <1>14, <2>2, <3>1, <3>2, CalmBasis DEF Replacing, Moves, Alike
    <3>4. Renews(c, body[t])'
      BY <1>3, <1>8, <1>9, <1>14, <2>2, <3>3 DEF Renews, Moves
    <3>5. QED
      BY <1>13, <1>14, <2>2, <3>4 DEF Course
  <2>3. QED
    BY <1>5, <2>1, <2>2
<1>18. InitsEnd'
  BY <1>3, <1>6, <1>10, InitsFlip
<1>19. QED
  BY <1>3, <1>4, <1>6, <1>8, <1>9, <1>11, <1>12, <1>14, <1>17, <1>18, Touched DEF Only

LEMMA StartInstanceErrNever ==
    ASSUME Calm, NEW t \in TaskIds
    PROVE  ~StartInstanceErr(t)
<1>1. SUFFICES ASSUME StartInstanceErr(t)
               PROVE  FALSE
  OBVIOUS
<1>2. PICK c, a, i : c = Obj(t) /\ a = task[t].ev.action /\ i = Newest(body[t].todo)
  OBVIOUS
<1>3. On(t, Launching, "run")
  BY <1>1, OnCourse, Acts DEF StartInstanceErr
<1>4. /\ a \in Launching /\ Course(c, a, body[t]) /\ body[t].pc = "run" /\ i \in body[t].todo
  BY <1>1, <1>2, <1>3 DEF On, StartInstanceErr
<1>5. Mine(i, c)
  BY <1>4 DEF Course, Launching, Renews, Begins, Replacing
<1>6. ~Present(i)
  BY <1>1, <1>2, NotSpent DEF StartInstanceErr
<1>7. QED
  BY <1>5, <1>6 DEF Mine, Present

-----------------------------------------------------------------------------
(* The last steps of a task write the status.                              *)
StatusWritten(c, st) ==
    /\ Exists(c)' /\ row'[c].actual = st
    /\ row'[c].wanted = row[c].wanted /\ row'[c].spec = row[c].spec
    /\ WantedStays /\ \A d \in Cargoes : d # c => row'[d] = row[d]

LEMMA WritesStatus ==
    ASSUME Calm, NEW c \in Cargoes, Exists(c), NEW st, row' = SetActual(c, st)
    PROVE  StatusWritten(c, st)
<1>1. row \in [Cargoes -> {None} \cup Rows]
  BY CalmBasis DEF Tables
<1>2. row[c] \in Rows
  BY <1>1 DEF Exists
<1>3. PICK r : r = [row[c] EXCEPT !.actual = st]
  OBVIOUS
<1>4. r.st = "row" /\ r.actual = st /\ r.wanted = row[c].wanted /\ r.spec = row[c].spec
  BY <1>2, <1>3 DEF Rows
<1>5. row' = [row EXCEPT ![c] = r]
  BY <1>3 DEF SetActual
<1>6. row'[c] = r /\ \A d \in Cargoes : d # c => row'[d] = row[d]
  BY <1>1, <1>5
<1>7. r # None
  BY <1>4 DEF None
<1>8. Exists(c)'
  BY <1>6, <1>7 DEF Exists
<1>9. WantedStays
  BY <1>2, <1>4, <1>6 DEF WantedStays, Exists
<1>10. QED
  BY <1>4, <1>6, <1>8, <1>9 DEF StatusWritten

LEMMA AskedFor ==
    ASSUME NEW c, NEW a, AskedBy(c, a)
    PROVE  /\ a = "Starting" => asked[c] = "start"
           /\ a = "Updating" => asked[c] = "put"
           /\ a = "Stopping" => asked[c] = "stop"
           /\ a = "Destroying" => asked[c] \in {"delete", "force"}
BY DEF AskedBy, Statused, EventOf

LEMMA StartedGoes ==
    ASSUME Calm, NEW t \in TaskIds, Started(t)
    PROVE  Courses'
<1>1. PICK c, a, S : c = Obj(t) /\ a = task[t].ev.action /\ S = Old(body[t])
  OBVIOUS
<1>2. On(t, Launching, "run")
  BY OnCourse, Acts DEF Started
<1>3. /\ Work(t, c, a) /\ a \in Launching /\ Course(c, a, body[t]) /\ body[t].todo = {}
      /\ body[t] # None /\ body[t].pc = "run" /\ body[t] \in Frames(Conts)
      /\ ~At(t, Launching, "initwait") /\ body[t].new \subseteq Conts /\ c \in Cargoes
      /\ UNCHANGED <<secret, dh, req, asked, cont, dq>>
  BY <1>1, <1>2, NotWaiting DEF On, Started, Work, dockerVars, clientVars
<1>4. doomed = {} /\ Exists(c)
  BY <1>3, LaunchIs DEF Course, Work, Wants
<1>5. \/ a = "Starting" /\ Begins(c, body[t])
      \/ a = "Updating" /\ Renews(c, body[t]) /\ Replacing(c, body[t])
  BY <1>3 DEF Course, Launching, Renews
<1>6. /\ StatusWritten(c, "Start") /\ queue' = Append(queue, Ev(c, "Other"))
      /\ UNCHANGED <<loop, task>>
  <2>1. /\ row' = SetActual(c, "Start") /\ queue' = Append(queue, Ev(c, "Other"))
        /\ UNCHANGED <<loop, task>>
    BY <1>1, <1>4 DEF Started, TM!Emit
  <2>2. QED
    BY <1>3, <1>4, <2>1, WritesStatus
<1>7. WantedStays /\ Speaks(c, a) /\ Exists(c)' /\ row'[c].wanted = "Start"
  BY <1>3, <1>6, SpeaksNothing DEF StatusWritten, Work, Wants, WantedBy
<1>8. InitsEnd'
  BY <1>3, NoInitUp, InitsDown
<1>9. CASE a = "Starting"
  <2>1. PICK pc, todo : pc = "end" /\ todo = {}
    OBVIOUS
  <2>2. Set(t, Goto(t, pc, todo)) /\ UNCHANGED doomed
    BY <1>1, <1>4, <1>9, <2>1 DEF Started
  <2>3. Alone(t) /\ Moves(t, pc, todo)
    BY <1>3, <1>6, <2>2, MovesTo
  <2>4. body'[t] # None /\ body'[t].pc = "end"
    BY <2>1, <2>3 DEF Moves
  <2>5. /\ Own(c)' = Own(c) /\ Whole(c)' = Whole(c) /\ Begins(c, body[t])
    BY <1>3, <1>5, <1>9, <2>2, SameCargo
  <2>6. Settled(c)'
    <3>1. asked'[c] = "start"
      BY <1>3, <1>9, AskedFor DEF Work
    <3>2. AllUp(c)' /\ Whole(c)' /\ OfSpec(c, row[c].spec)' /\ Says(c, "Start", "Start")'
      BY <1>3, <1>6, <1>7, <2>5 DEF AllUp, Begins, OfSpec, Says, StatusWritten
    <3>3. QED
      BY <3>1, <3>2 DEF Settled
  <2>7. Apart(c) /\ Renamed'
    BY <1>3, <1>4, <2>2, ApartSame DEF Renamed
  <2>8. Outcome(t, c, a)
    BY <1>3, <1>6, <1>7, <1>8, <2>3, <2>4, <2>6, <2>7 DEF Outcome, Alone, Still, StatusWritten
  <2>9. QED
    BY <1>3, <2>8, OutcomeCourses
<1>10. CASE a = "Updating"
  <2>1. PICK pc, todo : pc = "final" /\ todo = {}
    OBVIOUS
  <2>2. Set(t, Goto(t, pc, todo)) /\ doomed' = doomed \cup S
    BY <1>1, <1>4, <1>10, <2>1 DEF Started, Old
  <2>3. Alone(t) /\ Moves(t, pc, todo)
    BY <1>3, <1>6, <2>2, MovesTo
  <2>4. body'[t] # None /\ body'[t].pc = "final"
    BY <2>1, <2>3 DEF Moves
  <2>5. Renews(c, body[t]) /\ Replacing(c, body[t]) /\ Replaced(c, body[t])
    BY <1>5, <1>10 DEF Replacing
  <2>6. doomed' = S /\ Conts' = Conts /\ \A i \in Conts : Mine(i, c)' = Mine(i, c)
    BY <1>3, <1>4, <2>2, CalmBasis DEF Mine
  <2>7. Theirs(c)' = {i \in Conts : Mine(i, c) /\ i \notin S}
    BY <2>6 DEF Theirs
  <2>8. Own(c)' = body[t].new
    BY <1>1, <1>3, <2>5, <2>7 DEF Own, Replaced
  <2>9. Cardinality(body[t].new) = Replicas /\ body[t].new # {}
    BY <1>3, <2>5, CalmBasis, FS_EmptySet DEF Replacing
  <2>10. Whole(c)' /\ OfSpec(c, row[c].spec)' /\ AllUp(c)'
    <3>1. \A i \in Theirs(c)' : cont'[i].tmp = 0
      BY <1>1, <1>3, <2>5, <2>7 DEF Replaced
    <3>2. \A i \in body[t].new : cont'[i].spec = row'[c].spec /\ cont'[i].st = "up"
      BY <1>3, <1>6, <2>5 DEF Replaced, Replacing, Renews, StatusWritten
    <3>3. QED
      BY <2>8, <2>9, <3>1, <3>2, CalmBasis DEF Whole, OfSpec, AllUp
  <2>11. Renews(c, body[t])'
    BY <1>3, <1>6, <2>3, <2>4, <2>5, <2>10 DEF Renews, Moves, StatusWritten
  <2>12. Course(c, a, body[t])'
    BY <1>10, <2>4, <2>11 DEF Course
  <2>13. Apart(c) /\ Renamed'
    <3>1. \A i \in S : Mine(i, c) /\ cont[i].tmp # 0
      BY <1>1, <2>5 DEF Replaced
    <3>2. Apart(c)
      BY <1>3, <2>2, <3>1, ApartDooms
    <3>3. QED
      BY <1>3, <2>6, <3>1, <3>2 DEF Renamed
  <2>14. Outcome(t, c, a)
    BY <1>3, <1>6, <1>7, <1>8, <2>3, <2>4, <2>12, <2>13 DEF Outcome, Alone, Still, StatusWritten
  <2>15. QED
    BY <1>3, <2>14, OutcomeCourses
<1>11. QED
  BY <1>3, <1>9, <1>10 DEF Launching

LEMMA UpdatedGoes ==
    ASSUME Calm, NEW t \in TaskIds, Updated(t)
    PROVE  Courses'
<1>1. PICK c, a, pc, todo : c = Obj(t) /\ a = task[t].ev.action /\ pc = "end" /\ todo = {}
  OBVIOUS
<1>2. On(t, {"Updating"}, "final")
  BY OnCourse, Acts DEF Updated
<1>3. /\ Work(t, c, a) /\ a = "Updating" /\ Course(c, a, body[t])
      /\ body[t] # None /\ body[t].pc = "final" /\ body[t] \in Frames(Conts)
      /\ ~At(t, Launching, "initwait") /\ c \in Cargoes /\ Exists(c)
      /\ UNCHANGED <<secret, dh, req, asked, cont, dq, doomed>>
  BY <1>1, <1>2, NotWaiting DEF On, Updated, Work, Wants, dockerVars, clientVars
<1>4. /\ StatusWritten(c, "Start") /\ queue' = Append(queue, Ev(c, "Other"))
      /\ UNCHANGED <<loop, task>> /\ Set(t, Goto(t, pc, todo))
  <2>1. /\ row' = SetActual(c, "Start") /\ queue' = Append(queue, Ev(c, "Other"))
        /\ UNCHANGED <<loop, task>> /\ Set(t, Goto(t, pc, todo))
    BY <1>1, <1>3 DEF Updated, TM!Emit
  <2>2. QED
    BY <1>3, <2>1, WritesStatus
<1>5. Alone(t) /\ Moves(t, pc, todo)
  BY <1>3, <1>4, MovesTo
<1>6. body'[t] # None /\ body'[t].pc = "end"
  BY <1>1, <1>5 DEF Moves
<1>7. WantedStays /\ Speaks(c, a) /\ Exists(c)' /\ row'[c].wanted = "Start"
  BY <1>3, <1>4, SpeaksNothing DEF StatusWritten, Work, Wants, WantedBy, Launching
<1>8. InitsEnd'
  BY <1>3, NoInitUp, InitsDown
<1>9. Settled(c)'
  <2>1. Own(c)' = Own(c) /\ Whole(c)' = Whole(c) /\ Renews(c, body[t])
    BY <1>3, SameCargo DEF Course
  <2>2. asked'[c] = "put"
    BY <1>3, AskedFor DEF Work
  <2>3. AllUp(c)' /\ Whole(c)' /\ OfSpec(c, row[c].spec)' /\ Says(c, "Start", "Start")'
    BY <1>3, <1>4, <1>7, <2>1 DEF AllUp, Renews, OfSpec, Says, StatusWritten
  <2>4. QED
    BY <2>2, <2>3 DEF Settled
<1>10. Apart(c) /\ Renamed'
  BY <1>3, ApartSame DEF Renamed, Calm, Courses
<1>11. Outcome(t, c, a)
  BY <1>3, <1>4, <1>5, <1>6, <1>7, <1>8, <1>9, <1>10 DEF Outcome, Alone, Still, StatusWritten
<1>12. QED
  BY <1>3, <1>11, OutcomeCourses

LEMMA ReadUpdateGoes ==
    ASSUME Calm, NEW t \in TaskIds, ReadUpdate(t)
    PROVE  Courses'
<1>1. PICK c, a, ps, pc : /\ c = Obj(t) /\ a = task[t].ev.action /\ ps = ProcsOf(Obj(t))
                          /\ pc = "rename"
  OBVIOUS
<1>2. On(t, {"Updating"}, "rows")
  BY OnCourse, Acts DEF ReadUpdate
<1>3. /\ Work(t, c, a) /\ a = "Updating" /\ Course(c, a, body[t]) /\ c \in Cargoes
      /\ body[t] # None /\ body[t].pc = "rows" /\ body[t] \in Frames(Conts)
      /\ ~At(t, Launching, "initwait")
      /\ UNCHANGED <<queue, loop, task, row, secret, dh, req, asked, cont, dq, doomed>>
  BY <1>1, <1>2, NotWaiting DEF On, Work, ReadUpdate, tmVars, dbVars, dockerVars, clientVars
<1>4. doomed = {} /\ NoLoss /\ doomed' = {} /\ NoLoss'
  BY <1>3 DEF Course, NoLoss
<1>5. Renews(c, body[t]) /\ NoNews /\ Whole(c) /\ body[t].new = {}
  BY <1>3 DEF Course, Renews
<1>6. PICK rows : rows = [i \in Conts |-> IF i \in ps THEN proc[i] ELSE None]
  OBVIOUS
<1>7. PICK g : g = Goto(t, pc, ps)
  OBVIOUS
<1>8. PICK b : b = [g EXCEPT !.rows = rows]
  OBVIOUS
<1>9. Alone(t) /\ body'[t] = b
  <2>1. Set(t, b)
    BY <1>1, <1>6, <1>7, <1>8 DEF ReadUpdate
  <2>2. QED
    BY <1>3, <2>1, SetAlone, CalmBasis
<1>10. /\ b.pc = "rename" /\ b.todo = ps /\ b.new = {} /\ b.spec = body[t].spec
       /\ b.st = "run" /\ b.rows = rows /\ b.tmp = body[t].tmp /\ b.make = body[t].make
       /\ b.err = body[t].err
  <2>1. /\ g.pc = "rename" /\ g.todo = ps /\ g.new = {} /\ g.spec = body[t].spec
        /\ g.st = "run" /\ g.tmp = body[t].tmp /\ g.make = body[t].make
        /\ g.err = body[t].err /\ "rows" \in DOMAIN g
    BY <1>1, <1>3, <1>5, <1>7 DEF Goto, Frames
  <2>2. QED
    BY <1>8, <2>1
<1>11. body'[t] # None
  BY <1>9, <1>10 DEF None
<1>12. ps = {i \in Conts : Mine(i, c)} /\ Theirs(c) = {i \in Conts : Mine(i, c)}
  BY <1>1, <1>3, <1>4, ProcsAre, OwnIs
<1>13. \A i \in ps : i \in Conts /\ proc[i] # None /\ proc[i].tmp = 0 /\ cont[i].tmp = 0
  <2>1. \A i \in ps : i \in Conts /\ cont[i] # None /\ cont[i].tmp = 0
    BY <1>5, <1>12 DEF Whole, Mine
  <2>2. QED
    BY <1>4, <1>5, <2>1, RowsAre, RowsTell
<1>14. Old(body[t])' = ps
  BY <1>6, <1>9, <1>10, <1>12, <1>13, CalmBasis DEF Old
<1>15. Renaming(c, body[t])'
  <2>1. \A i \in Conts : Mine(i, c)' <=> i \in ps
    BY <1>3, <1>12 DEF Mine
  <2>2. \A i \in ps : rows[i].tmp = 0 /\ cont'[i].tmp = 0
    BY <1>3, <1>6, <1>13
  <2>3. QED
    BY <1>9, <1>10, <1>14, <2>1, <2>2, CalmBasis DEF Renaming
<1>16. Renews(c, body[t])'
  BY <1>3, <1>5, <1>9, <1>10, <1>15 DEF Renews
<1>17. Course(c, a, body[t])'
  BY <1>3, <1>4, <1>9, <1>10, <1>16 DEF Course
<1>18. QED
  BY <1>3, <1>4, <1>9, <1>10, <1>11, <1>17, Turned

LEMMA StopOldNever ==
    ASSUME Calm, NEW t \in TaskIds
    PROVE  ~StopOld(t)
<1>1. SUFFICES ASSUME StopOld(t)
               PROVE  FALSE
  OBVIOUS
<1>2. PICK i : i = Newest(body[t].todo)
  OBVIOUS
<1>3. On(t, {"Updating"}, "rename")
  BY <1>1, OnCourse, Acts DEF StopOld
<1>4. body[t] # None /\ i \in body[t].todo /\ i \in Conts /\ body[t].rows[i] # None
  BY <1>1, <1>2, <1>3 DEF On, StopOld, GoodFrame
<1>5. Uncrashed /\ NoCrash
  BY DEF Calm, InstanceInv, Steady
<1>6. body[t].rows[i].st = "crashed"
  BY <1>1, <1>2 DEF StopOld
<1>7. QED
  BY <1>4, <1>5, <1>6 DEF Uncrashed

LEMMA UndoNever ==
    ASSUME Calm, NEW t \in TaskIds
    PROVE  ~UndoCreate(t) /\ ~UndoRename(t)
<1>1. ~At(t, {"Updating"}, "undo")
  <2>1. ASSUME On(t, {"Updating"}, "undo")
        PROVE  FALSE
    BY <2>1 DEF On, Course, Renews
  <2>2. QED
    BY <2>1, OnCourse, Acts
<1>2. ~At(t, {"Updating"}, "back")
  <2>1. ASSUME On(t, {"Updating"}, "back")
        PROVE  FALSE
    BY <2>1 DEF On, Course, Renews
  <2>2. QED
    BY <2>1, OnCourse, Acts
<1>3. QED
  BY <1>1, <1>2 DEF UndoCreate, UndoRename

LEMMA RenameOldGoes ==
    ASSUME Calm, NEW t \in TaskIds, RenameOld(t)
    PROVE  Courses'
<1>1. PICK c, a, i : c = Obj(t) /\ a = task[t].ev.action /\ i = Newest(body[t].todo)
  OBVIOUS
<1>2. On(t, {"Updating"}, "rename")
  BY OnCourse, Acts DEF RenameOld
<1>3. /\ Work(t, c, a) /\ a = "Updating" /\ Course(c, a, body[t]) /\ body[t].todo # {}
      /\ body[t] # None /\ body[t].pc = "rename" /\ GoodFrame(body[t], Conts)
      /\ ~At(t, Launching, "initwait") /\ i \in body[t].todo /\ i \in Conts
      /\ body[t].todo \subseteq Conts
  BY <1>1, <1>2, NotWaiting DEF On, RenameOld
<1>4. doomed = {} /\ NoLoss
  BY <1>3 DEF Course
<1>5. Renews(c, body[t]) /\ Renaming(c, body[t])
  BY <1>3 DEF Course, Renews
<1>6. i \in Old(body[t])
  BY <1>3 DEF Old, GoodFrame
<1>7. PICK n : n = body[t].rows[i].tmp + 1
  OBVIOUS
<1>8. Mine(i, c) /\ cont[i].tmp = 0 /\ n = 1
  BY <1>3, <1>5, <1>6, <1>7 DEF Renaming
<1>9. CanRename(i, n) /\ Present(i)
  BY <1>8 DEF CanRename, Present, Mine
<1>10. PICK pc, todo : pc = body[t].pc /\ todo = body[t].todo \ {i}
  OBVIOUS
<1>11. /\ RenameCont(i, n) /\ Set(t, Done(t, i))
       /\ UNCHANGED <<queue, loop, task, row, secret, dh, req, asked, doomed>>
  BY <1>1, <1>7, <1>9, NotSpent DEF RenameOld, tmVars, dbVars, clientVars
<1>12. Alone(t) /\ Moves(t, pc, todo)
  BY <1>3, <1>10, <1>11, DoneMoves
<1>13. /\ Others(i) /\ cont'[i] # None /\ Same(i)
       /\ cont'[i].st = cont[i].st /\ cont'[i].tmp = n /\ News(i, {"rename"})
  BY <1>3, <1>8, <1>9, <1>11, RenameIs, CalmBasis
<1>14. Only(i)
  BY <1>3, <1>13 DEF Only, Same
<1>15. Speaks(c, a)
  BY <1>3, <1>8, <1>13, SpeaksNews
<1>16. doomed' = {} /\ NoLoss'
  BY <1>3, <1>4, <1>11, <1>15, NoLossKept
<1>17. /\ body'[t] # None /\ body'[t].pc = "rename" /\ body'[t].todo = body[t].todo \ {i}
  BY <1>3, <1>10, <1>12 DEF Moves
<1>18. Renaming(c, body[t])'
  <2>1. Old(body[t])' = Old(body[t]) /\ Old(body[t]) \subseteq Conts
    BY <1>12, OldSame DEF Moves, Old
  <2>2. \A j \in Conts : Mine(j, c)' = Mine(j, c) /\ (j # i => cont'[j].tmp = cont[j].tmp)
    BY <1>8, <1>13 DEF Mine, Others, Same
  <2>3. cont'[i].tmp # 0
    BY <1>8, <1>13
  <2>4. QED
    BY <1>5, <1>12, <1>17, <2>1, <2>2, <2>3, CalmBasis DEF Renaming, Moves
<1>19. Renews(c, body[t])'
  BY <1>3, <1>5, <1>11, <1>12, <1>17, <1>18 DEF Renews, Moves
<1>20. Course(c, a, body[t])'
  BY <1>3, <1>16, <1>17, <1>19 DEF Course
<1>21. InitsEnd'
  <2>1. \A j \in Conts : cont[j] # None /\ cont[j].init => cont[j].st \notin {"up", "bad"}
    BY <1>3, NoInitUp
  <2>2. \A j \in Conts : cont'[j] # None /\ cont'[j].init => cont'[j].st \notin {"up", "bad"}
    BY <1>8, <1>13, <2>1 DEF Others, Same, Mine
  <2>3. QED
    BY <2>2, InitsDown
<1>22. QED
  BY <1>3, <1>4, <1>8, <1>11, <1>12, <1>14, <1>15, <1>17, <1>20, <1>21, Touched DEF Only

LEMMA RenamedAllGoes ==
    ASSUME Calm, NEW t \in TaskIds, RenamedAll(t)
    PROVE  Courses'
<1>1. PICK c, a, pc, todo :
         /\ c = Obj(t) /\ a = task[t].ev.action
         /\ todo = {}
         /\ pc = IF HasInit THEN "init" ELSE "create"
  OBVIOUS
<1>2. On(t, {"Updating"}, "rename")
  BY OnCourse, Acts DEF RenamedAll
<1>3. /\ Work(t, c, a) /\ a = "Updating" /\ Course(c, a, body[t]) /\ body[t].todo = {}
      /\ body[t] # None /\ body[t].pc = "rename" /\ body[t] \in Frames(Conts)
      /\ ~At(t, Launching, "initwait")
  BY <1>1, <1>2, NotWaiting DEF On, RenamedAll
<1>4. Renews(c, body[t]) /\ Renaming(c, body[t])
  BY <1>3 DEF Course, Renews
<1>5. /\ Set(t, Goto(t, pc, todo))
      /\ UNCHANGED <<queue, loop, task, row, secret, dh, req, asked, cont, dq, doomed>>
  BY <1>1, <1>4 DEF RenamedAll, Renews, tmVars, dbVars, dockerVars, clientVars
<1>6. doomed = {} /\ NoLoss /\ doomed' = {} /\ NoLoss'
  BY <1>3, <1>5 DEF Course, NoLoss
<1>7. Alone(t) /\ Moves(t, pc, todo)
  BY <1>3, <1>5, MovesTo
<1>8. /\ body'[t] # None /\ body'[t].pc \in {"init", "create"} /\ body'[t].todo = {}
      /\ body'[t].new = {}
  BY <1>1, <1>4, <1>7 DEF Moves, Renaming
<1>9. Replacing(c, body[t])'
  <2>1. Old(body[t])' = Old(body[t]) /\ Old(body[t]) \subseteq Conts
    BY <1>7, OldSame DEF Moves, Old
  <2>2. \A j \in Conts : Mine(j, c)' = Mine(j, c) /\ cont'[j] = cont[j]
    BY <1>5 DEF Mine
  <2>3. Replaced(c, body[t])'
    BY <1>3, <1>4, <1>8, <2>1, <2>2, CalmBasis DEF Replaced, Renaming
  <2>4. QED
    BY <1>8, <2>3 DEF Replacing
<1>10. Renews(c, body[t])'
  BY <1>3, <1>4, <1>5, <1>7, <1>8, <1>9 DEF Renews, Moves
<1>11. Course(c, a, body[t])'
  BY <1>3, <1>6, <1>8, <1>10 DEF Course
<1>12. QED
  BY <1>3, <1>5, <1>6, <1>7, <1>8, <1>11, Turned

-----------------------------------------------------------------------------
LEMMA ReadStopGoes ==
    ASSUME Calm, NEW t \in TaskIds, ReadStop(t)
    PROVE  Courses'
<1>1. PICK c, a, todo, pc, spec : /\ c = Obj(t) /\ a = task[t].ev.action /\ todo = ProcsOf(Obj(t))
                                  /\ pc = "run" /\ spec = 0
  OBVIOUS
<1>2. a = "Stopping" /\ task[t].phase = "body" /\ body[t] = None
  BY <1>1 DEF ReadStop, Reads
<1>3. Work(t, c, a) /\ Due(c, a) /\ NoNews /\ doomed = {} /\ c \in Cargoes
  BY <1>1, <1>2, AtWork, Acts DEF Work
<1>4. /\ UNCHANGED <<queue, loop, task, row, secret, dh, req, asked, cont, dq, doomed>>
      /\ Set(t, Frame(spec, pc, todo))
  BY <1>1 DEF ReadStop, tmVars, dbVars, dockerVars, clientVars
<1>5. Alone(t) /\ Starting(t, spec, pc, todo)
  BY <1>4, BeginsAt
<1>6. body'[t] # None /\ body'[t].pc = "run" /\ body'[t].todo = todo
  BY <1>1, <1>5 DEF Starting
<1>7. NoLoss /\ NoLoss' /\ doomed' = {}
  BY <1>3, <1>4, NoDq DEF NoLoss
<1>8. todo = {i \in Conts : Mine(i, c)} /\ Own(c) \subseteq todo
  BY <1>1, <1>3, <1>7, ProcsAre, OwnIs
<1>9. Own(c)' = Own(c) /\ Whole(c)' = Whole(c) /\ \A i : Mine(i, c)' = Mine(i, c)
  BY <1>3, <1>4, SameCargo
<1>10. Halts(c, body[t])'
  BY <1>2, <1>3, <1>4, <1>6, <1>8, <1>9 DEF Halts, Due, OfSpec
<1>11. Course(c, a, body[t])'
  BY <1>2, <1>6, <1>7, <1>10 DEF Course
<1>12. ~At(t, Launching, "initwait")
  BY <1>2 DEF At
<1>13. QED
  BY <1>2, <1>3, <1>4, <1>5, <1>6, <1>11, <1>12, Turned

LEMMA StopInstanceGoes ==
    ASSUME Calm, NEW t \in TaskIds, StopInstance(t)
    PROVE  Courses'
<1>1. PICK c, a, i : c = Obj(t) /\ a = task[t].ev.action /\ i = Newest(body[t].todo)
  OBVIOUS
<1>2. On(t, {"Stopping"}, "run")
  BY OnCourse, Acts DEF StopInstance
<1>3. /\ Work(t, c, a) /\ a = "Stopping" /\ Course(c, a, body[t]) /\ body[t].todo # {}
      /\ body[t] # None /\ body[t].pc = "run" /\ GoodFrame(body[t], Conts)
      /\ ~At(t, Launching, "initwait") /\ i \in body[t].todo /\ i \in Conts
      /\ body[t].todo \subseteq Conts
  BY <1>1, <1>2, NotWaiting DEF On, StopInstance
<1>4. doomed = {} /\ NoLoss /\ Halts(c, body[t])
  BY <1>3 DEF Course
<1>5. Mine(i, c) /\ Present(i)
  BY <1>3, <1>4 DEF Halts, Mine, Present
<1>6. PICK pc, todo : pc = body[t].pc /\ todo = body[t].todo \ {i}
  OBVIOUS
<1>7. /\ StopCont(i) /\ Set(t, Done(t, i))
      /\ UNCHANGED <<queue, loop, task, row, secret, dh, req, asked, doomed>>
  BY <1>1, <1>5, NotSpent DEF StopInstance, tmVars, dbVars, clientVars
<1>8. Alone(t) /\ Moves(t, pc, todo)
  BY <1>3, <1>6, <1>7, DoneMoves
<1>9. cont[i].init => cont[i].st \notin {"up", "bad"}
  BY <1>3, <1>5, NoInitUp DEF Present
<1>10. PICK st : /\ Flips(i, st) /\ st # "up" /\ (st = "bad" => cont[i].st = "bad")
                 /\ News(i, {"die", "stop"})
  BY <1>3, <1>5, <1>7, <1>9, StopFlips, CalmBasis
<1>11. Alike(c) /\ Only(i)
  BY <1>10, AlikeFlips, FlipsCargo
<1>12. Speaks(c, a)
  BY <1>3, <1>5, <1>10, SpeaksNews
<1>13. doomed' = {} /\ NoLoss'
  BY <1>3, <1>4, <1>7, <1>12, NoLossKept
<1>14. body'[t] # None /\ body'[t].pc = "run" /\ body'[t].todo = body[t].todo \ {i}
  BY <1>3, <1>6, <1>8 DEF Moves
<1>15. \A j \in Own(c) \ (body[t].todo \ {i}) : cont'[j].st # "up"
  BY <1>4, <1>10 DEF Halts, Flips, Others, Own, Theirs
<1>16. Halts(c, body[t])'
  BY <1>3, <1>4, <1>7, <1>11, <1>14, <1>15, AlikeIs DEF Halts, OfSpec, Alike
<1>17. Course(c, a, body[t])'
  BY <1>3, <1>13, <1>14, <1>16 DEF Course
<1>18. InitsEnd'
  BY <1>3, <1>9, <1>10, InitsFlip
<1>19. QED
  BY <1>3, <1>4, <1>5, <1>7, <1>8, <1>11, <1>12, <1>14, <1>17, <1>18, Touched DEF Only

LEMMA StoppedGoes ==
    ASSUME Calm, NEW t \in TaskIds, Stopped(t)
    PROVE  Courses'
<1>1. PICK c, a, pc, todo : c = Obj(t) /\ a = task[t].ev.action /\ pc = "end" /\ todo = {}
  OBVIOUS
<1>2. On(t, {"Stopping"}, "run")
  BY OnCourse, Acts DEF Stopped
<1>3. /\ Work(t, c, a) /\ a = "Stopping" /\ Course(c, a, body[t]) /\ body[t].todo = {}
      /\ body[t] # None /\ body[t].pc = "run" /\ body[t] \in Frames(Conts)
      /\ ~At(t, Launching, "initwait") /\ c \in Cargoes /\ Exists(c)
      /\ UNCHANGED <<secret, dh, req, asked, cont, dq, doomed>>
  BY <1>1, <1>2, NotWaiting DEF On, Stopped, Work, Wants, dockerVars, clientVars
<1>4. /\ StatusWritten(c, "Stop") /\ queue' = Append(queue, Ev(c, "Other"))
      /\ UNCHANGED <<loop, task>> /\ Set(t, Goto(t, pc, todo))
  <2>1. /\ row' = SetActual(c, "Stop") /\ queue' = Append(queue, Ev(c, "Other"))
        /\ UNCHANGED <<loop, task>> /\ Set(t, Goto(t, pc, todo))
    BY <1>1, <1>3 DEF Stopped, TM!Emit
  <2>2. QED
    BY <1>3, <2>1, WritesStatus
<1>5. Alone(t) /\ Moves(t, pc, todo)
  BY <1>3, <1>4, MovesTo
<1>6. body'[t] # None /\ body'[t].pc = "end"
  BY <1>1, <1>5 DEF Moves
<1>7. WantedStays /\ Speaks(c, a) /\ Exists(c)' /\ row'[c].wanted = "Stop"
  BY <1>3, <1>4, SpeaksNothing DEF StatusWritten, Work, Wants, WantedBy, Launching
<1>8. InitsEnd'
  BY <1>3, NoInitUp, InitsDown
<1>9. Settled(c)'
  <2>1. Own(c)' = Own(c) /\ Whole(c)' = Whole(c) /\ Halts(c, body[t])
    BY <1>3, SameCargo DEF Course
  <2>2. asked'[c] = "stop"
    BY <1>3, AskedFor DEF Work
  <2>3. NoneUp(c)' /\ Whole(c)' /\ OfSpec(c, row[c].spec)' /\ Says(c, "Stop", "Stop")'
    BY <1>3, <1>4, <1>7, <2>1 DEF NoneUp, Halts, OfSpec, Says, StatusWritten
  <2>4. QED
    BY <2>2, <2>3 DEF Settled
<1>10. Apart(c) /\ Renamed'
  BY <1>3, ApartSame DEF Renamed, Calm, Courses
<1>11. Outcome(t, c, a)
  BY <1>3, <1>4, <1>5, <1>6, <1>7, <1>8, <1>9, <1>10 DEF Outcome, Alone, Still, StatusWritten
<1>12. QED
  BY <1>3, <1>11, OutcomeCourses

-----------------------------------------------------------------------------
LEMMA ReadDeleteGoes ==
    ASSUME Calm, NEW t \in TaskIds, ReadDelete(t)
    PROVE  Courses'
<1>1. PICK c, a, todo, pc, spec : /\ c = Obj(t) /\ a = task[t].ev.action /\ todo = ProcsOf(Obj(t))
                                  /\ pc = "stop" /\ spec = 0
  OBVIOUS
<1>2. a = "Destroying" /\ task[t].phase = "body" /\ body[t] = None
  BY <1>1 DEF ReadDelete, Reads
<1>3. Work(t, c, a) /\ doomed = {}
  BY <1>1, <1>2, AtWork, Acts
<1>4. /\ UNCHANGED <<queue, loop, task, row, secret, dh, req, asked, cont, dq, doomed>>
      /\ Set(t, Frame(spec, pc, todo))
  BY <1>1 DEF ReadDelete, tmVars, dbVars, dockerVars, clientVars
<1>5. Alone(t) /\ Starting(t, spec, pc, todo)
  BY <1>4, BeginsAt
<1>6. body'[t] # None /\ body'[t].pc = "stop"
  BY <1>1, <1>5 DEF Starting
<1>7. Course(c, a, body[t])'
  BY <1>2, <1>3, <1>4, <1>6 DEF Course
<1>8. ~At(t, Launching, "initwait")
  BY <1>2 DEF At
<1>9. QED
  BY <1>2, <1>3, <1>4, <1>5, <1>6, <1>7, <1>8, Turned

(* Every container of the cargo is in the list, and docker has it still.   *)
LEMMA OnDelete ==
    ASSUME Calm, NEW t \in TaskIds, NEW pc, pc \in {"stop", "remove"}, At(t, {"Destroying"}, pc),
           body[t].todo # {}
    PROVE  Mine(Newest(body[t].todo), Obj(t)) \/ cont[Newest(body[t].todo)] = None
<1>1. Runs(t, {"Destroying"}, pc)
  BY AtRuns, Acts, CalmBasis
<1>2. Newest(body[t].todo) \in body[t].todo /\ Newest(body[t].todo) \in Conts
  BY AtRuns, Acts, CalmBasis
<1>3. Sound(t)
  BY DEF Calm, InstanceInv, Steady
<1>4. Of(Newest(body[t].todo), Obj(t))
  BY <1>1, <1>2, <1>3 DEF Runs, Sound, Fits
<1>5. QED
  BY <1>4 DEF Of, Mine

LEMMA DeleteStopGoes ==
    ASSUME Calm, NEW t \in TaskIds, DeleteStop(t)
    PROVE  Courses'
<1>1. PICK c, a, i, pc, todo :
         /\ c = Obj(t) /\ a = task[t].ev.action /\ i = Newest(body[t].todo)
         /\ pc = "remove" /\ todo = body[t].todo
  OBVIOUS
<1>2. At(t, {"Destroying"}, "stop")
  BY DEF DeleteStop
<1>3. On(t, {"Destroying"}, "stop")
  BY <1>2, OnCourse, Acts
<1>4. /\ Work(t, c, a) /\ a = "Destroying" /\ Course(c, a, body[t]) /\ body[t].todo # {}
      /\ body[t] # None /\ body[t].pc = "stop" /\ body[t] \in Frames(Conts)
      /\ ~At(t, Launching, "initwait") /\ i \in body[t].todo /\ i \in Conts
      /\ Set(t, Goto(t, pc, todo))
      /\ UNCHANGED <<queue, loop, task, row, secret, dh, req, asked, doomed>>
  BY <1>1, <1>3, NotWaiting DEF On, DeleteStop, tmVars, dbVars, clientVars
<1>5. Alone(t) /\ Moves(t, pc, todo)
  BY <1>4, MovesTo
<1>6. body'[t] # None /\ body'[t].pc = "remove"
  BY <1>1, <1>5 DEF Moves
<1>7. doomed = {} /\ doomed' = {}
  BY <1>4 DEF Course
<1>8. Course(c, a, body[t])'
  BY <1>4, <1>6, <1>7 DEF Course
<1>9. CASE Present(i) /\ StopCont(i)
  <2>1. Mine(i, c)
    BY <1>1, <1>2, <1>4, <1>9, OnDelete DEF Present
  <2>2. cont[i].init => cont[i].st \notin {"up", "bad"}
    BY <1>4, <1>9, NoInitUp DEF Present
  <2>3. PICK st : /\ Flips(i, st) /\ st # "up" /\ (st = "bad" => cont[i].st = "bad")
                  /\ News(i, {"die", "stop"})
    BY <1>4, <1>9, <2>2, StopFlips, CalmBasis
  <2>4. Only(i) /\ Speaks(c, a)
    BY <1>4, <2>1, <2>3, SpeaksNews, FlipsCargo
  <2>5. InitsEnd'
    BY <1>4, <2>2, <2>3, InitsFlip
  <2>6. QED
    BY <1>4, <1>5, <1>6, <1>7, <1>8, <2>1, <2>4, <2>5, Touched DEF Only
<1>10. CASE UNCHANGED dockerVars
  BY <1>4, <1>5, <1>6, <1>7, <1>8, <1>10, Turned DEF dockerVars
<1>11. QED
  BY <1>1, <1>9, <1>10 DEF DeleteStop

LEMMA DeleteRemoveGoes ==
    ASSUME Calm, NEW t \in TaskIds, DeleteRemove(t)
    PROVE  Courses'
<1>1. PICK c, a, i, pc, todo :
         /\ c = Obj(t) /\ a = task[t].ev.action /\ i = Newest(body[t].todo)
         /\ pc = "stop" /\ todo = body[t].todo \ {i}
  OBVIOUS
<1>2. At(t, {"Destroying"}, "remove")
  BY DEF DeleteRemove
<1>3. On(t, {"Destroying"}, "remove")
  BY <1>2, OnCourse, Acts
<1>4. /\ Work(t, c, a) /\ a = "Destroying" /\ Course(c, a, body[t]) /\ body[t].todo # {}
      /\ body[t] # None /\ body[t].pc = "remove" /\ body[t] \in Frames(Conts)
      /\ ~At(t, Launching, "initwait") /\ i \in body[t].todo /\ i \in Conts
      /\ Set(t, Goto(t, pc, todo))
      /\ UNCHANGED <<queue, loop, task, row, secret, dh, req, asked, doomed>>
  BY <1>1, <1>3, NotWaiting DEF On, GoodFrame, DeleteRemove, tmVars, dbVars, clientVars
<1>5. Alone(t) /\ Moves(t, pc, todo)
  BY <1>4, MovesTo
<1>6. body'[t] # None /\ body'[t].pc = "stop"
  BY <1>1, <1>5 DEF Moves
<1>7. doomed = {} /\ doomed' = {}
  BY <1>4 DEF Course
<1>8. Course(c, a, body[t])'
  BY <1>4, <1>6, <1>7 DEF Course
<1>9. CASE Present(i) /\ RemoveCont(i)
  <2>1. Mine(i, c)
    BY <1>1, <1>2, <1>4, <1>9, OnDelete DEF Present
  <2>2. Others(i) /\ cont'[i] = None /\ News(i, {"die", "destroy"})
    BY <1>4, <1>9, RemoveIs, CalmBasis
  <2>3. Speaks(c, a)
    BY <1>4, <2>1, <2>2, SpeaksNews
  <2>4. InitsEnd'
    <3>1. \A j \in Conts : cont[j] # None /\ cont[j].init => cont[j].st \notin {"up", "bad"}
      BY <1>4, NoInitUp
    <3>2. \A j \in Conts : cont'[j] # None /\ cont'[j].init => cont'[j].st \notin {"up", "bad"}
      BY <2>2, <3>1 DEF Others
    <3>3. QED
      BY <3>2, InitsDown
  <2>5. QED
    BY <1>4, <1>5, <1>6, <1>7, <1>8, <2>1, <2>2, <2>3, <2>4, Touched
<1>10. CASE UNCHANGED dockerVars
  BY <1>4, <1>5, <1>6, <1>7, <1>8, <1>10, Turned DEF dockerVars
<1>11. QED
  BY <1>1, <1>9, <1>10 DEF DeleteRemove

LEMMA ClearGoes ==
    ASSUME Calm, NEW t \in TaskIds, Clear(t)
    PROVE  Courses'
<1>1. PICK c, a, pc, todo : c = Obj(t) /\ a = task[t].ev.action /\ pc = "end" /\ todo = {}
  OBVIOUS
<1>2. On(t, {"Destroying"}, "stop")
  BY OnCourse, Acts DEF Clear
<1>3. /\ Work(t, c, a) /\ a = "Destroying" /\ Course(c, a, body[t]) /\ body[t].todo = {}
      /\ body[t] # None /\ body[t].pc = "stop" /\ body[t] \in Frames(Conts)
      /\ ~At(t, Launching, "initwait") /\ c \in Cargoes /\ Exists(c)
      /\ UNCHANGED <<secret, dh, req, asked, cont, dq, doomed>>
  BY <1>1, <1>2, NotWaiting DEF On, Clear, Work, Wants, dockerVars, clientVars
<1>4. /\ row' = [row EXCEPT ![c] = None] /\ queue' = Append(queue, Ev(c, "Other"))
      /\ UNCHANGED <<loop, task>> /\ Set(t, Goto(t, pc, todo))
  BY <1>1, <1>3 DEF Clear, TM!Emit
<1>5. Alone(t) /\ Moves(t, pc, todo)
  BY <1>3, <1>4, MovesTo
<1>6. body'[t] # None /\ body'[t].pc = "end"
  BY <1>1, <1>5 DEF Moves
<1>7. row'[c] = None /\ \A d \in Cargoes : d # c => row'[d] = row[d]
  BY <1>3, <1>4, CalmBasis DEF Tables
<1>8. WantedStays /\ Speaks(c, a) /\ ~Exists(c)'
  BY <1>3, <1>7, SpeaksNothing DEF WantedStays, Exists
<1>9. InitsEnd'
  BY <1>3, NoInitUp, InitsDown
<1>10. Settled(c)'
  <2>1. \A i \in Conts : ~Mine(i, c)'
    <3>1. \A i \in Conts : cont'[i] # None => row'[cont'[i].cargo] # None
      BY CalmBasis DEF Calm, InstanceInv, Housed, Exists
    <3>2. QED
      BY <1>8, <3>1 DEF Mine, Exists
  <2>2. Theirs(c)' = {} /\ Own(c)' = {}
    BY <2>1, CalmBasis DEF Theirs, Own
  <2>3. asked'[c] \in {"delete", "force"}
    BY <1>3, AskedFor DEF Work
  <2>4. QED
    BY <1>8, <2>2, <2>3 DEF Settled, Whole
<1>11. Apart(c) /\ Renamed'
  BY <1>3, ApartSame DEF Renamed, Calm, Courses
<1>12. Outcome(t, c, a)
  BY <1>3, <1>4, <1>5, <1>6, <1>7, <1>8, <1>9, <1>10, <1>11 DEF Outcome, Alone, Still
<1>13. QED
  BY <1>3, <1>12, OutcomeCourses

LEMMA EndGoes ==
    ASSUME Calm, NEW t \in TaskIds, End(t)
    PROVE  Courses'
<1>1. /\ UNCHANGED <<row, doomed, secret, dh, cont, dq, req, asked, queue, loop>>
      /\ body[t] # None /\ body[t].pc = "end" /\ task[t].phase = "body"
      /\ task' = [task EXCEPT ![t] = TM!Done] /\ Set(t, None)
  BY DEF End, At, Return, TM!BodyOk, dbVars, dockerVars, clientVars
<1>2. /\ body'[t] = None /\ task'[t] = TM!Done
      /\ \A u \in TaskIds : u # t => body'[u] = body[u] /\ task'[u] = task[u]
  BY <1>1, SetIs, CalmBasis DEF TM!TypeOK
<1>3. /\ Solo /\ Renamed /\ InitsEnd /\ Ears /\ Coming /\ OneTask(t) /\ OneEvent
      /\ \A k \in Clients : Marked(k)
  BY DEF Calm, Courses, Solo
<1>4. Lull
  BY <1>1, <1>3, RunDone DEF OneTask, Lull, TM!TaskActions
<1>5. Solo'
  <2>1. OneEvent' /\ \A k \in Clients : OneRequest(k)'
    BY <1>1, <1>4 DEF Lull, NoRequest, OneEvent, OneRequest
  <2>2. \A u \in TaskIds : task'[u] = TM!Done
    BY <1>1, <1>2, <1>3, RunDone DEF OneTask
  <2>3. \A u \in TaskIds : OneTask(u)'
    BY <2>2 DEF OneTask
  <2>4. QED
    BY <1>1, <1>3, <2>1, <2>3 DEF Solo
<1>6. Renamed' /\ Ears'
  BY <1>1, <1>3, CalmBasis DEF Renamed, Ears, Apt, Exists, Fatal
<1>7. InitsEnd'
  <2>1. \A u \in TaskIds : At(u, Launching, "initwait") => At(u, Launching, "initwait")' /\ body'[u] = body[u]
    BY <1>1, <1>2 DEF At
  <2>2. QED
    BY <1>1, <1>3, <2>1, CalmBasis DEF InitsEnd
<1>8. (\A k \in Clients : Marked(k)') /\ Coming'
  BY <1>1, <1>4, OtherEvent DEF Lull, NoRequest, Marked, Asks, Coming, Calls
<1>9. \A u \in TaskIds : UnderWay(u)'
  BY <1>1, <1>2, <1>3, RunDone DEF OneTask, UnderWay, Works
<1>10. \A d \in Cargoes : (Engaged(d) \/ Settled(d))'
  <2>1. TAKE d \in Cargoes
  <2>2. ~Working(d)
    BY <1>1, <1>3, RunDone DEF OneTask, Working, Works
  <2>3. Settled(d)
    BY <1>3, <1>4, <2>2, LullEngaged DEF Solo, Calm, Courses
  <2>4. Settled(d)'
    BY <1>1, <2>3, SettledStays, StaysUntouched
  <2>5. QED
    BY <2>4
<1>11. QED
  BY <1>5, <1>6, <1>7, <1>8, <1>9, <1>10 DEF Courses

LEMMA OnErrorNever ==
    ASSUME Calm, NEW t \in TaskIds
    PROVE  ~OnError(t)
<1>1. OneTask(t)
  BY DEF Calm, Courses, Solo
<1>2. task[t].phase = "onerr" => task[t] # TM!Done
  BY DEF TM!Done
<1>3. QED
  BY <1>1, <1>2 DEF OneTask, OnError, TM!OnErrorDone

LEMMA TaskGoes ==
    ASSUME Calm, NEW t \in TaskIds, TaskStep(t)
    PROVE  Courses'
BY ReadCargoGoes, ReadStartGoes, CreateInitGoes, StartInitGoes, WaitInitGoes,
   CreateInstancesGoes, ListInstancesGoes, StartInstanceGoes, StartInstanceErrNever, StartedGoes,
   ReadUpdateGoes, StopOldNever, RenameOldGoes, RenamedAllGoes, UndoNever, UpdatedGoes,
   ReadStopGoes, StopInstanceGoes, StoppedGoes, ReadDeleteGoes, DeleteStopGoes,
   DeleteRemoveGoes, ClearGoes, EndGoes, OnErrorNever DEF TaskStep

-----------------------------------------------------------------------------
(* What goes on beside a task: docker's events, late removals and the ends *)
(* of init containers.                                                     *)
LEMMA NewsLull ==
    ASSUME Calm, dq # <<>> \/ dh # None \/ doomed # {}
    PROVE  Lull
<1>1. Solo
  BY DEF Calm, Courses
<1>2. ~Hush
  BY DEF Hush
<1>3. QED
  BY <1>1, <1>2 DEF Solo, OneEvent, OneRequest, Lull, NoRequest

LEMMA Backdrop ==
    ASSUME Calm, Lull, UNCHANGED <<queue, loop, task, body, secret, req, asked>>,
           \A d \in Cargoes : Settled(d) => Settled(d)',
           \A t \in TaskIds : UnderWay(t)', Ears', InitsEnd', Renamed'
    PROVE  Courses'
<1>1. Solo /\ \A d \in Cargoes : Engaged(d) \/ Settled(d)
  BY DEF Calm, Courses
<1>2. Lull'
  BY DEF Lull, NoRequest
<1>3. Solo'
  <2>1. OneEvent' /\ \A k \in Clients : OneRequest(k)'
    BY <1>2 DEF Lull, NoRequest, OneEvent, OneRequest
  <2>2. \A t \in TaskIds : OneTask(t)'
    BY <1>1 DEF Solo, OneTask, NoRequest, Awaits
  <2>3. QED
    BY <1>1, <2>1, <2>2 DEF Solo
<1>4. (\A k \in Clients : Marked(k)') /\ Coming'
  BY <1>2, OtherEvent DEF Lull, NoRequest, Marked, Asks, Coming, Calls
<1>5. \A d \in Cargoes : (Engaged(d) \/ Settled(d))'
  BY <1>1 DEF Engaged, Asking, Asks, Queued, Calls, Working, Works
<1>6. QED
  BY <1>3, <1>4, <1>5 DEF Courses

(* The rows keep what the tasks go by.                                     *)
RowsAlike ==
    \A d \in Cargoes :
        /\ Exists(d)' <=> Exists(d)
        /\ Exists(d) => row'[d].wanted = row[d].wanted /\ row'[d].spec = row[d].spec

LEMMA SettledLike ==
    ASSUME Calm, NEW c \in Cargoes, Untouched(c), Settled(c),
           \A i \in Own(c) : cont'[i].st = cont[i].st,
           RowsAlike, Exists(c) => row'[c].actual = row[c].actual, UNCHANGED asked
    PROVE  Settled(c)'
<1>1. /\ Own(c)' = Own(c) /\ Whole(c)' = Whole(c)
      /\ \A i \in Own(c) : cont'[i].spec = cont[i].spec
  BY UntouchedIs
<1>2. /\ Exists(c)' <=> Exists(c)
      /\ AllUp(c)' <=> AllUp(c)
      /\ NoneUp(c)' <=> NoneUp(c)
      /\ (Exists(c) => OfSpec(c, row[c].spec)) => (Exists(c) => OfSpec(c, row[c].spec))'
      /\ \A w, a : Says(c, w, a) => Says(c, w, a)'
  BY <1>1 DEF RowsAlike, Exists, AllUp, NoneUp, OfSpec, Says
<1>3. QED
  BY <1>1, <1>2 DEF Settled

LEMMA CourseKept ==
    ASSUME Calm, NEW t \in TaskIds, NEW c \in Cargoes, NEW a, UNCHANGED <<body, doomed>>,
           body[t] # None, body[t].pc # "rows",
           Alike(c), \A i \in Conts : Mine(i, c) /\ ~cont[i].init => cont'[i].st = cont[i].st,
           RowsAlike, Exists(c), NoLoss => NoLoss', Course(c, a, body[t])
    PROVE  Course(c, a, body[t])'
<1>1. body[t].todo \subseteq Conts /\ body[t].new \subseteq Conts
  BY CalmBasis DEF CargoInv, Locals, GoodFrame, Frames
<1>2. /\ Theirs(c)' = Theirs(c) /\ Own(c)' = Own(c) /\ Whole(c)' = Whole(c)
      /\ \A i \in Own(c) : cont'[i].spec = cont[i].spec
  BY AlikeIs
<1>3. \A i \in Own(c) : cont'[i].st = cont[i].st
  BY DEF Own, Theirs
<1>4. row'[c].spec = row[c].spec
  BY DEF RowsAlike
<1>5. OfSpec(c, row[c].spec) => OfSpec(c, row[c].spec)'
  BY <1>2, <1>4 DEF OfSpec
<1>6. a = "Starting" => Begins(c, body[t])'
  BY <1>1, <1>2, <1>3, <1>4, <1>5 DEF Course, Begins, Alike
<1>7. a = "Stopping" => Halts(c, body[t])'
  BY <1>1, <1>2, <1>3, <1>4, <1>5 DEF Course, Halts, Alike
<1>8. a = "Updating" => Renews(c, body[t])'
  <2>1. SUFFICES ASSUME a = "Updating"
                 PROVE  Renews(c, body[t])'
    OBVIOUS
  <2>2. Renews(c, body[t])
    BY <2>1 DEF Course
  <2>3. Old(body[t])' = Old(body[t]) /\ Old(body[t]) \subseteq Conts
    BY OldSame DEF Old
  <2>4. Renaming(c, body[t]) => Renaming(c, body[t])'
    BY <1>1, <2>3, CalmBasis DEF Renaming, Alike
  <2>5. Replacing(c, body[t]) => Replacing(c, body[t])'
    <3>1. SUFFICES ASSUME Replacing(c, body[t])
                   PROVE  Replacing(c, body[t])'
      OBVIOUS
    <3>2. Replaced(c, body[t])'
      BY <1>1, <3>1, ReplacedSame DEF Replacing
    <3>3. \A i \in body[t].new : cont'[i].st = cont[i].st
      BY <1>1, <3>1 DEF Replacing, Replaced
    <3>4. QED
      BY <1>1, <2>3, <3>1, <3>2, <3>3, CalmBasis DEF Replacing, Alike
  <2>6. AllUp(c) => AllUp(c)'
    BY <1>2, <1>3 DEF AllUp
  <2>7. QED
    BY <1>2, <1>4, <1>5, <2>2, <2>4, <2>5, <2>6 DEF Renews
<1>9. QED
  BY <1>6, <1>7, <1>8 DEF Course

LEMMA NewsFound ==
    ASSUME Calm, NEW t \in TaskIds, NEW c \in Cargoes, Works(t, c), ~NoNews
    PROVE  body[t] # None /\ body[t].pc # "rows"
<1>1. PICK a : a = task[t].ev.action
  OBVIOUS
<1>2. a \in {"Starting", "Updating", "Stopping", "Destroying"} /\ UnderWay(t)
  BY <1>1 DEF Works, Calls, TM!TaskActions, Calm, Courses
<1>3. body[t] # None /\ Course(c, a, body[t])
  BY <1>1, <1>2 DEF UnderWay
<1>4. QED
  BY <1>2, <1>3 DEF Course, Begins, Renews, Halts

LEMMA UnderWayKept ==
    ASSUME Calm, NEW t \in TaskIds, UNCHANGED <<task, body, asked, doomed>>,
           \A c \in Cargoes : Works(t, c) => body[t] # None /\ body[t].pc # "rows",
           \A c \in Cargoes : Alike(c),
           \A i \in Conts : cont[i] # None /\ ~cont[i].init => cont'[i].st = cont[i].st,
           RowsAlike, NoLoss => NoLoss'
    PROVE  UnderWay(t)'
<1>1. SUFFICES ASSUME NEW c \in Cargoes, Works(t, c)'
               PROVE  (/\ Wants(c, task[t].ev.action) /\ AskedBy(c, task[t].ev.action)
                       /\ body[t] # None /\ Course(c, task[t].ev.action, body[t]))'
  BY DEF UnderWay
<1>2. PICK a : a = task[t].ev.action
  OBVIOUS
<1>3. Works(t, c)
  BY <1>1 DEF Works
<1>4. body[t] # None /\ body[t].pc # "rows" /\ Wants(c, a) /\ AskedBy(c, a) /\ Course(c, a, body[t])
  BY <1>2, <1>3 DEF UnderWay, Calm, Courses
<1>5. Wants(c, a)' /\ AskedBy(c, a)'
  BY <1>4 DEF Wants, AskedBy, RowsAlike
<1>6. Course(c, a, body[t])'
  BY <1>4, CourseKept DEF Wants, Mine
<1>7. task'[t].ev.action = a
  BY <1>2
<1>8. QED
  BY <1>4, <1>5, <1>6, <1>7

LEMMA StillInits ==
    ASSUME Calm, UNCHANGED <<task, body, cont>>
    PROVE  InitsEnd'
<1>1. InitsEnd
  BY DEF Calm, Courses
<1>2. \A t \in TaskIds : At(t, Launching, "initwait") => At(t, Launching, "initwait")'
  BY DEF At
<1>3. QED
  BY <1>1, <1>2, CalmBasis DEF InitsEnd

LEMMA DockerRecvGoes ==
    ASSUME Calm, DockerRecv
    PROVE  Courses'
<1>1. /\ UNCHANGED <<queue, loop, task, row, body, doomed, secret, cont, req, asked>>
      /\ dh = None /\ dq # <<>>
  BY DEF DockerRecv, tmVars, clientVars
<1>2. /\ 1 \in DOMAIN dq
      /\ \A n \in DOMAIN dq' : n + 1 \in DOMAIN dq /\ dq'[n] = dq[n + 1]
  BY RecvIs, CalmBasis
<1>3. Lull /\ ~NoNews /\ Ears /\ Renamed
  BY <1>1, NewsLull DEF NoNews, Calm, Courses
<1>4. NoLoss => NoLoss'
  BY <1>2 DEF NoLoss
<1>5. RowsAlike /\ \A c \in Cargoes : Alike(c)
  BY <1>1, AlikeSame DEF RowsAlike, Exists
<1>6. \A t \in TaskIds : UnderWay(t)'
  BY <1>1, <1>3, <1>4, <1>5, NewsFound, UnderWayKept
<1>7. \A d \in Cargoes : Settled(d) => Settled(d)'
  BY <1>1, SettledStays, StaysUntouched
<1>8. Ears'
  <2>1. \A n \in DOMAIN dq' : Apt(dq'[n])
    BY <1>2, <1>3 DEF Ears
  <2>2. \A n \in DOMAIN dq' : Apt(dq[n])'
    BY <1>1, <2>1 DEF Apt, Exists, Fatal
  <2>3. PICK e : e = dq[1]
    OBVIOUS
  <2>4. Apt(e) /\ Head(dq) = e
    BY <1>2, <1>3, <2>3, CalmBasis DEF Ears, Tables
  <2>5. dh' # None => \/ dh' = Handle(e, "sync")
                      \/ /\ dh' = Handle(e, "write") /\ Exists(e.cargo)
                         /\ e.type = "start" \/ (Fatal(e) /\ row[e.cargo].wanted # "Stop")
    BY <1>1, <2>4 DEF DockerRecv
  <2>6. dh' # None => /\ dh'.ev = e
                      /\ dh'.pc = "write" /\ Exists(e.cargo) =>
                            e.type = "start" \/ row[e.cargo].wanted = "Destroy"
    BY <2>4, <2>5 DEF Handle, Apt
  <2>7. dh' # None => Apt(dh'.ev)
    BY <2>4, <2>6
  <2>8. QED
    BY <1>1, <2>2, <2>6, <2>7 DEF Ears, Apt, Exists, Fatal
<1>9. QED
  BY <1>1, <1>3, <1>6, <1>7, <1>8, StillInits, Backdrop, CalmBasis DEF Renamed

LEMMA DockerWriteGoes ==
    ASSUME Calm, DockerWrite
    PROVE  Courses'
<1>1. PICK c, e, st : /\ c = dh.ev.cargo /\ e = dh.ev
                      /\ st = IF dh.ev.type = "start" THEN "Start" ELSE "Fail"
  OBVIOUS
<1>2. /\ UNCHANGED <<queue, loop, task, body, doomed, secret, cont, dq, req, asked>>
      /\ dh # None /\ dh.pc = "write"
      /\ row' = IF ~Exists(c) THEN row ELSE SetActual(c, st)
  BY <1>1 DEF DockerWrite, tmVars, clientVars, dockerVars
<1>3. Lull /\ ~NoNews /\ Ears /\ Renamed
  BY <1>2, NewsLull DEF NoNews, Calm, Courses
<1>4. c \in Cargoes /\ (NoLoss => NoLoss')
  BY <1>1, <1>2, TypedEvents DEF NoLoss
<1>5. /\ RowsAlike
      /\ \A d \in Cargoes : d # c => row'[d] = row[d]
      /\ Exists(c) => row'[c].actual = st
  BY <1>2, <1>4, WritesStatus DEF StatusWritten, RowsAlike, Exists, WantedStays
<1>6. \A t \in TaskIds : UnderWay(t)'
  BY <1>2, <1>3, <1>4, <1>5, AlikeSame, NewsFound, UnderWayKept
<1>7. Apt(e) /\ (Exists(c) => e.type = "start" \/ row[c].wanted = "Destroy")
  BY <1>1, <1>2, <1>3 DEF Ears
<1>8. ASSUME NEW d \in Cargoes, Settled(d)
      PROVE  Settled(d)'
  <2>1. Exists(d) => row'[d].actual = row[d].actual
    <3>1. CASE d # c
      BY <1>5, <3>1
    <3>2. CASE d = c /\ Exists(c)
      <4>1. Says(c, "Create", "Create") \/ Says(c, "Start", "Start") \/ Says(c, "Stop", "Stop")
        BY <1>8, <3>2 DEF Settled
      <4>2. e.type = "start" /\ row[c].wanted = "Start"
        BY <1>1, <1>7, <3>2, <4>1 DEF Says, Apt
      <4>3. QED
        BY <1>1, <1>5, <3>2, <4>1, <4>2 DEF Says
    <3>3. QED
      BY <3>1, <3>2
  <2>2. QED
    BY <1>2, <1>5, <1>8, <2>1, StaysUntouched, SettledLike
<1>9. Ears'
  <2>1. \A n \in DOMAIN dq : dq[n].cargo \in Cargoes
    BY TypedEvents
  <2>2. ASSUME NEW f, f.cargo \in Cargoes, Apt(f)
        PROVE  Apt(f)'
    BY <1>5, <2>2 DEF Apt, RowsAlike
  <2>3. \A n \in DOMAIN dq' : Apt(dq[n])'
    <3>1. SUFFICES ASSUME NEW n \in DOMAIN dq, NEW f, f = dq[n]
                   PROVE  Apt(f)'
      BY <1>2 DEF Apt, Exists, Fatal
    <3>2. QED
      BY <1>3, <2>1, <2>2, <3>1 DEF Ears
  <2>4. dh' # None => dh'.ev = e /\ dh'.pc = "sync"
    <3>1. dh \in [st : {"run"}, pc : {"write", "sync"}, ev : DockerEvents(Conts)]
      BY <1>2, CalmBasis DEF Tables
    <3>2. QED
      BY <1>1, <3>1 DEF DockerWrite
  <2>5. Apt(e)'
    BY <1>1, <1>4, <1>7, <2>2
  <2>6. dh' # None => Apt(dh.ev)'
    BY <2>4, <2>5 DEF Apt, Exists, Fatal
  <2>7. QED
    BY <2>3, <2>4, <2>6 DEF Ears
<1>10. QED
  BY <1>2, <1>3, <1>6, <1>8, <1>9, StillInits, Backdrop, CalmBasis DEF Renamed

LEMMA DockerSyncGoes ==
    ASSUME Calm, DockerSync
    PROVE  Courses'
<1>1. /\ UNCHANGED <<queue, loop, task, row, body, doomed, secret, cont, dq, req, asked>>
      /\ dh # None /\ dh' = None
  BY DEF DockerSync, tmVars, clientVars, dockerVars
<1>2. Lull /\ ~NoNews /\ Ears /\ Renamed
  BY <1>1, NewsLull DEF NoNews, Calm, Courses
<1>3. RowsAlike /\ (\A c \in Cargoes : Alike(c)) /\ (NoLoss => NoLoss')
  BY <1>1, AlikeSame DEF RowsAlike, Exists, NoLoss
<1>4. \A t \in TaskIds : UnderWay(t)'
  BY <1>1, <1>2, <1>3, NewsFound, UnderWayKept
<1>5. \A d \in Cargoes : Settled(d) => Settled(d)'
  BY <1>1, SettledStays, StaysUntouched
<1>6. Ears'
  BY <1>1, <1>2 DEF Ears, Apt, Exists, Fatal
<1>7. QED
  BY <1>1, <1>2, <1>4, <1>5, <1>6, StillInits, Backdrop, CalmBasis DEF Renamed

LEMMA EarsMore ==
    ASSUME Calm, UNCHANGED <<row, dh>>,
           \A n \in DOMAIN dq' : \/ n \in DOMAIN dq /\ dq'[n] = dq[n]
                                 \/ dq'[n].type # "start" /\ ~Fatal(dq'[n])
    PROVE  Ears'
<1>1. Ears
  BY DEF Calm, Courses
<1>2. \A n \in DOMAIN dq' : Apt(dq'[n])
  BY <1>1 DEF Ears, Apt
<1>3. \A n \in DOMAIN dq' : Apt(dq[n])'
  BY <1>2 DEF Apt, Exists, Fatal
<1>4. QED
  BY <1>1, <1>3 DEF Ears, Apt, Exists, Fatal

(* The old containers of an update that is about to end.                   *)
LEMMA ReapGoes ==
    ASSUME Calm, NEW i \in Conts, Reap(i)
    PROVE  Courses'
<1>1. /\ UNCHANGED <<queue, loop, task, row, body, secret, dh, req, asked>>
      /\ i \in doomed
  BY DEF Reap, tmVars, clientVars
<1>2. \/ Present(i) /\ RemoveCont(i) /\ UNCHANGED doomed
      \/ ~Present(i) /\ doomed' = doomed \ {i} /\ UNCHANGED <<cont, dq>>
  BY NotSpent DEF Reap, dockerVars
<1>3. Lull /\ Renamed /\ InitsEnd
  BY <1>1, NewsLull DEF Calm, Courses
<1>4. Others(i) /\ cont'[i] = None /\ (UNCHANGED dq \/ (Present(i) /\ News(i, {"die", "destroy"})))
  BY <1>2, RemoveIs, CalmBasis DEF Others, Present
<1>5. doomed' \subseteq doomed /\ doomed \ {i} \subseteq doomed'
  BY <1>2
<1>6. \A c : Untouched(c) /\ i \notin Own(c)
  BY <1>1, <1>4, <1>5 DEF Untouched, Mine, Others, Own, Theirs
<1>7. \A c : \A j \in Own(c) : cont'[j].st = cont[j].st
  BY <1>4, <1>6 DEF Others, Own, Theirs
<1>8. \A d \in Cargoes : Settled(d) => Settled(d)'
  BY <1>1, <1>6, <1>7, SettledStays
<1>9. ASSUME NEW t \in TaskIds
      PROVE  UnderWay(t)'
  <2>1. SUFFICES ASSUME NEW c \in Cargoes, Works(t, c)
                 PROVE  (/\ Wants(c, task[t].ev.action) /\ AskedBy(c, task[t].ev.action)
                         /\ body[t] # None /\ Course(c, task[t].ev.action, body[t]))'
    BY <1>1 DEF UnderWay, Works
  <2>2. PICK a : a = task[t].ev.action
    OBVIOUS
  <2>3. /\ a \in {"Starting", "Updating", "Stopping", "Destroying"}
        /\ Wants(c, a) /\ AskedBy(c, a)
        /\ body[t] # None /\ Course(c, a, body[t])
    BY <1>1, <2>1, <2>2 DEF Works, Calls, TM!TaskActions, Calm, Courses, UnderWay
  <2>4. body[t].pc = "final"
    BY <1>1, <2>3 DEF Course
  <2>5. a = "Updating" /\ Renews(c, body[t])
    BY <2>3, <2>4 DEF Course, Begins, Halts
  <2>6. /\ Own(c)' = Own(c) /\ Whole(c)' = Whole(c)
        /\ \A j \in Own(c) : cont'[j].spec = cont[j].spec
    BY <1>6, UntouchedIs
  <2>7. Renews(c, body[t])'
    BY <1>1, <1>7, <2>4, <2>5, <2>6 DEF Renews, OfSpec, AllUp
  <2>8. Course(c, a, body[t])'
    BY <1>1, <2>4, <2>5, <2>7 DEF Course
  <2>9. Wants(c, a)' /\ AskedBy(c, a)' /\ task'[t].ev.action = a
    BY <1>1, <2>2, <2>3 DEF Wants, AskedBy, Exists
  <2>10. QED
    BY <1>1, <2>3, <2>8, <2>9
<1>10. Ears'
  <2>1. Present(i) => cont[i].tmp # 0
    BY <1>1, <1>3 DEF Renamed, Present
  <2>2. QED
    BY <1>1, <1>4, <2>1, EarsMore DEF News, Fatal
<1>11. Renamed'
  BY <1>3, <1>4, <1>5, CalmBasis DEF Renamed, Others, CargoInv, Callers
<1>12. InitsEnd'
  <2>1. \A t \in TaskIds : At(t, Launching, "initwait") => At(t, Launching, "initwait")'
    BY <1>1 DEF At
  <2>2. QED
    BY <1>1, <1>3, <1>4, <2>1, CalmBasis DEF InitsEnd, Others
<1>13. QED
  BY <1>1, <1>3, <1>8, <1>9, <1>10, <1>11, <1>12, Backdrop

(* The init container the task waits for.                                  *)
LEMMA InitExitGoes ==
    ASSUME Calm, NEW i \in Conts, InitExit(i)
    PROVE  Courses'
<1>1. /\ Exit(i, "down") /\ Present(i) /\ cont[i].init /\ cont[i].st = "up"
  BY NotSpent DEF InitExit
<1>2. /\ UNCHANGED <<queue, loop, task, row, body, doomed, secret, dh, req, asked>>
      /\ Flips(i, "down") /\ News(i, {"die"})
  BY <1>1, ExitFlips, CalmBasis DEF Exit, tmVars, dbVars, daemonVars, clientVars
<1>3. InitsEnd /\ Renamed /\ Solo
  BY DEF Calm, Courses
<1>4. PICK t \in TaskIds : At(t, Launching, "initwait") /\ body[t].todo = {i}
  BY <1>1, <1>3 DEF InitsEnd, Present
<1>5. task[t] # TM!Done
  BY <1>4, RunDone, CalmBasis DEF At, CargoInv, Locals
<1>6. Lull /\ \A u \in TaskIds : task[u] # TM!Done => u = t
  BY <1>3, <1>5 DEF Solo, OneTask, Lull
<1>7. (NoLoss => NoLoss') /\ RowsAlike /\ \A c \in Cargoes : Alike(c)
  BY <1>2, AlikeFlips DEF NoLoss, News, RowsAlike, Exists
<1>8. \A j \in Conts : cont[j] # None /\ ~cont[j].init => cont'[j].st = cont[j].st
  BY <1>1, <1>2 DEF Flips, Others
<1>9. \A u \in TaskIds : UnderWay(u)'
  <2>1. ASSUME NEW u \in TaskIds, NEW c \in Cargoes, Works(u, c)
        PROVE  body[u] # None /\ body[u].pc # "rows"
    BY <1>4, <1>6, <2>1 DEF Works, At
  <2>2. QED
    BY <1>2, <1>7, <1>8, <2>1, UnderWayKept
<1>10. \A d \in Cargoes : Settled(d) => Settled(d)'
  <2>1. \A d \in Cargoes : \A j \in Own(d) : cont'[j].st = cont[j].st
    BY <1>8 DEF Own, Theirs, Mine
  <2>2. QED
    BY <1>2, <2>1, SettledStays, FlipsUntouched
<1>11. Ears'
  BY <1>1, <1>2, EarsMore DEF News, Fatal
<1>12. InitsEnd'
  <2>1. \A u \in TaskIds : At(u, Launching, "initwait") => At(u, Launching, "initwait")'
    BY <1>2 DEF At
  <2>2. cont'[i].st = "down" /\ \A j \in Conts \ {i} : cont'[j] = cont[j]
    BY <1>2 DEF Flips, Others
  <2>3. QED
    BY <1>2, <1>3, <2>1, <2>2, CalmBasis DEF InitsEnd
<1>13. Renamed'
  BY <1>2, <1>3, FlipsMine, CalmBasis DEF Renamed, CargoInv, Callers
<1>14. QED
  BY <1>2, <1>6, <1>9, <1>10, <1>11, <1>12, <1>13, Backdrop

LEMMA NoMishap ==
    ASSUME Calm, NEW i \in Conts
    PROVE  ~Crash(i) /\ ~Revive(i)
<1>1. ~Crash(i)
  <2>1. left.crashes \in Nat
    BY CalmBasis DEF Bounds
  <2>2. Crash(i) => left'.crashes = left.crashes - 1
    BY CalmBasis DEF Crash, Bounds
  <2>3. QED
    BY <2>1, <2>2 DEF Calm
<1>2. ~Revive(i)
  BY CalmBasis DEF Revive, Present, Calm, Steady, Uncrashed
<1>3. QED
  BY <1>1, <1>2

LEMMA NoSecret ==
    ASSUME Calm
    PROVE  ~SecretStep
<1>1. secret = None /\ loop.pc # "busy"
  BY DEF Calm, Courses, Solo, TM!Idle
<1>2. QED
  BY <1>1 DEF SecretStep, SecretRead, SecretUpdate, SecretDone

-----------------------------------------------------------------------------
(* The event loop.                                                         *)
LEMMA LoopBusy ==
    ASSUME Calm, LoopStep
    PROVE  /\ UNCHANGED <<row, proc, body, doomed, secret, dh, cont, dq, req, asked, left>>
           /\ NoRequest
           /\ \/ /\ loop = TM!Idle /\ queue # <<>> /\ queue' = Tail(queue)
                 /\ Head(queue) \in TM!Events /\ Head(queue) = queue[1]
                 /\ 1 \in DOMAIN queue
                 /\ \A n \in DOMAIN queue' : n + 1 \in DOMAIN queue /\ queue'[n] = queue[n + 1]
                 /\ TM!RecvWait \/ TM!RecvSerial \/ TM!RecvSource
              \/ /\ loop.pc = "wait" /\ loop.ev.action = "Other" /\ queue' = queue
                 /\ loop.ev \in TM!Events /\ TM!WaitDone /\ task[loop.on] = TM!Done
<1>1. UNCHANGED <<row, proc, body, doomed, secret, dh, cont, dq, req, asked, left>>
  BY Zenon DEF LoopStep, dbVars, daemonVars, dockerVars, clientVars
<1>2. Solo
  BY Zenon DEF Calm, Courses
<1>3. CASE TM!RecvWait \/ TM!RecvSerial \/ TM!RecvSource
  <2>1. loop = TM!Idle /\ queue # <<>> /\ queue' = Tail(queue)
    BY <1>3 DEF TM!RecvWait, TM!RecvSerial, TM!RecvSource, TM!Receive
  <2>2. queue \in Seq(TM!Events)
    BY TypedEvents
  <2>3. /\ Head(queue) \in TM!Events /\ Head(queue) = queue[1]
        /\ 1 \in DOMAIN queue
        /\ DOMAIN queue = 1..Len(queue) /\ Len(queue) \in Nat /\ Len(queue) # 0
        /\ DOMAIN queue' = 1..(Len(queue) - 1)
        /\ \A n \in 1..(Len(queue) - 1) : queue'[n] = queue[n + 1]
    BY <2>1, <2>2
  <2>4. \A n \in DOMAIN queue' : n + 1 \in DOMAIN queue /\ queue'[n] = queue[n + 1]
    BY <2>3
  <2>5. NoRequest
    BY <1>2, <2>1 DEF Solo, OneRequest, NoRequest
  <2>6. QED
    BY <1>1, <1>3, <2>1, <2>3, <2>4, <2>5, Zenon
<1>4. CASE TM!WaitDone
  <2>1. loop.pc = "wait" /\ queue' = queue /\ task[loop.on] = TM!Done
    BY <1>4 DEF TM!WaitDone
  <2>2. loop.ev.action = "Other" /\ loop # TM!Idle
    BY <1>2, <2>1 DEF Solo, TM!Idle
  <2>3. loop.ev \in TM!Events
    BY <2>1, CalmBasis DEF TM!TypeOK, TM!LoopStates, TM!Idle
  <2>4. NoRequest
    BY <1>2, <2>2 DEF Solo, OneRequest, NoRequest
  <2>5. QED
    BY <1>1, <1>4, <2>1, <2>2, <2>3, <2>4
<1>5. QED
  BY <1>3, <1>4 DEF LoopStep

LEMMA UnderWaySame ==
    ASSUME Calm, UNCHANGED <<row, task, body, doomed, dh, cont, dq, asked>>
    PROVE  \A t \in TaskIds : UnderWay(t)'
<1>1. \A c \in Cargoes : /\ Own(c)' = Own(c) /\ Whole(c)' = Whole(c) /\ Alike(c)
                         /\ (OfSpec(c, row[c].spec)' <=> OfSpec(c, row[c].spec))
  BY SameCargo, AlikeSame DEF OfSpec
<1>2. NoLoss => NoLoss'
  BY DEF NoLoss
<1>3. RowsAlike
  BY DEF RowsAlike, Exists
<1>4. SUFFICES ASSUME NEW t \in TaskIds, NEW c \in Cargoes, Works(t, c)
               PROVE  (/\ Wants(c, task[t].ev.action) /\ AskedBy(c, task[t].ev.action)
                       /\ IF body[t] = None
                            THEN Due(c, task[t].ev.action) /\ NoNews /\ doomed = {}
                            ELSE Course(c, task[t].ev.action, body[t]))'
  BY DEF UnderWay, Works
<1>5. PICK a : a = task[t].ev.action
  OBVIOUS
<1>6. /\ Wants(c, a) /\ AskedBy(c, a)
      /\ IF body[t] = None THEN Due(c, a) /\ NoNews /\ doomed = {} ELSE Course(c, a, body[t])
  BY <1>4, <1>5 DEF UnderWay, Calm, Courses
<1>7. Wants(c, a)' /\ AskedBy(c, a)' /\ task'[t].ev.action = a
  BY <1>5, <1>6 DEF Wants, AskedBy, Exists
<1>8. CASE body[t] = None
  BY <1>1, <1>6, <1>7, <1>8 DEF Due, NoNews
<1>9. CASE body[t] # None
  <2>1. Course(c, a, body[t])'
    <3>1. CASE body[t].pc # "rows"
      BY <1>1, <1>2, <1>3, <1>6, <1>9, <3>1, CourseKept DEF Wants, Mine
    <3>2. CASE body[t].pc = "rows"
      <4>1. NoNews => NoNews'
        BY DEF NoNews
      <4>2. Begins(c, body[t]) => Begins(c, body[t])'
        BY <1>1, <3>2, <4>1 DEF Begins
      <4>3. Renews(c, body[t]) => Renews(c, body[t])'
        BY <1>1, <3>2, <4>1 DEF Renews
      <4>4. ~Halts(c, body[t])
        BY <3>2 DEF Halts
      <4>5. QED
        BY <1>2, <1>6, <1>9, <3>2, <4>2, <4>3, <4>4 DEF Course
    <3>3. QED
      BY <3>1, <3>2
  <2>2. QED
    BY <1>7, <1>9, <2>1
<1>10. QED
  BY <1>8, <1>9

(* An event that starts no task only passes.                               *)
LEMMA LoopPasses ==
    ASSUME Calm, LoopStep, Lull
    PROVE  Courses'
<1>1. /\ UNCHANGED <<row, body, doomed, secret, dh, cont, dq, req, asked>>
      /\ Solo /\ Renamed /\ Ears
      /\ (\A d \in Cargoes : Engaged(d) \/ Settled(d)) /\ \A t \in TaskIds : UnderWay(t)
  BY LoopBusy DEF Calm, Courses
<1>2. ASSUME NEW ev, ev.action = "Other", NEW m, TM!Dispatch(ev, m, task)
      PROVE  loop' = TM!Idle /\ task' = task
  BY <1>2 DEF TM!Dispatch, TM!CreatesTask, TM!TaskActions
<1>3. /\ task' = task
      /\ loop' = TM!Idle \/ (loop'.pc = "wait" /\ loop'.ev.action = "Other")
      /\ \A n \in DOMAIN queue' : queue'[n].action = "Other"
  <2>1. CASE /\ queue' = Tail(queue) /\ Head(queue) = queue[1] /\ 1 \in DOMAIN queue
             /\ \A n \in DOMAIN queue' : n + 1 \in DOMAIN queue /\ queue'[n] = queue[n + 1]
             /\ TM!RecvWait \/ TM!RecvSerial \/ TM!RecvSource
    <3>1. Head(queue).action = "Other" /\ \A n \in DOMAIN queue' : queue'[n].action = "Other"
      BY <2>1 DEF Lull
    <3>2. CASE TM!RecvWait
      <4>1. task' = task /\ loop'.pc = "wait" /\ loop'.ev = Head(queue)
        BY <3>2 DEF TM!RecvWait
      <4>2. QED
        BY <3>1, <4>1
    <3>3. CASE TM!RecvSerial
      <4>1. TM!Dispatch(Head(queue), tasks, task)
        BY <3>3 DEF TM!RecvSerial
      <4>2. QED
        BY <1>2, <3>1, <4>1
    <3>4. CASE TM!RecvSource
      BY <3>1, <3>4 DEF TM!RecvSource
    <3>5. QED
      BY <2>1, <3>2, <3>3, <3>4
  <2>2. CASE /\ loop.pc = "wait" /\ loop.ev.action = "Other" /\ queue' = queue
             /\ TM!WaitDone /\ task[loop.on] = TM!Done
    <3>1. TM!Dispatch(loop.ev, TM!Removed(loop.ev.obj), task)
      BY <2>2, NothingAborted, CalmBasis DEF TM!WaitDone
    <3>2. QED
      BY <1>2, <2>2, <3>1 DEF Lull
  <2>3. QED
    BY <2>1, <2>2, LoopBusy
<1>4. Lull'
  BY <1>1, <1>3 DEF Lull, NoRequest
<1>5. Solo'
  <2>1. OneEvent' /\ \A k \in Clients : OneRequest(k)'
    BY <1>4 DEF Lull, NoRequest, OneEvent, OneRequest
  <2>2. \A t \in TaskIds : OneTask(t)'
    BY <1>1, <1>3, <1>4 DEF Solo, OneTask, Lull, NoRequest, Awaits
  <2>3. QED
    BY <1>1, <1>3, <2>1, <2>2 DEF Solo
<1>6. (\A k \in Clients : Marked(k)') /\ Coming'
  BY <1>4, OtherEvent DEF Lull, NoRequest, Marked, Asks, Coming, Calls
<1>7. Ears' /\ Renamed'
  BY <1>1, CalmBasis DEF Ears, Apt, Exists, Fatal, Renamed
<1>8. \A t \in TaskIds : UnderWay(t)'
  BY <1>1, <1>3, UnderWaySame
<1>9. \A d \in Cargoes : (Engaged(d) \/ Settled(d))'
  <2>1. TAKE d \in Cargoes
  <2>2. CASE Working(d)
    BY <1>1, <1>3, <2>2 DEF Engaged, Working, Works
  <2>3. CASE ~Working(d)
    BY <1>1, <2>3, LullEngaged, SettledStays, StaysUntouched DEF Solo
  <2>4. QED
    BY <2>2, <2>3
<1>10. InitsEnd'
  BY <1>1, <1>3, StillInits
<1>11. QED
  BY <1>5, <1>6, <1>7, <1>8, <1>9, <1>10 DEF Courses

(* The event of a request starts its task.                                 *)
LEMMA LoopStarts ==
    ASSUME Calm, LoopStep, ~Lull
    PROVE  Courses'
<1>1. /\ UNCHANGED <<row, body, doomed, secret, dh, cont, dq, req, asked>>
      /\ NoRequest /\ Solo /\ Renamed /\ Ears /\ Coming /\ InitsEnd
      /\ \A d \in Cargoes : Engaged(d) \/ Settled(d)
  BY LoopBusy DEF Calm, Courses
<1>2. /\ Hush /\ Len(queue) = 1 /\ loop = TM!Idle /\ Awaits(queue[1])
  <2>1. PICK n \in DOMAIN queue : queue[n].action # "Other"
    BY <1>1 DEF Lull
  <2>2. Hush /\ Len(queue) = 1 /\ loop = TM!Idle /\ Awaits(queue[n])
    BY <1>1, <2>1 DEF Solo, OneEvent
  <2>3. n = 1
    BY <2>1, <2>2, TypedEvents
  <2>4. QED
    BY <2>2, <2>3
<1>3. PICK ev \in TM!Events : ev = queue[1]
  BY <1>2, TypedEvents
<1>4. /\ ev.obj \in Cargoes /\ ev.action \in TM!TaskActions /\ 1 \in DOMAIN queue
      /\ queue' = <<>> /\ Head(queue) = ev
      /\ TM!RecvWait \/ TM!RecvSerial \/ TM!RecvSource
  <2>1. loop.pc # "wait"
    BY <1>2 DEF TM!Idle
  <2>2. /\ queue' = Tail(queue) /\ Head(queue) = queue[1]
        /\ TM!RecvWait \/ TM!RecvSerial \/ TM!RecvSource
    BY <2>1, LoopBusy
  <2>3. queue' = <<>> /\ 1 \in DOMAIN queue
    BY <1>2, <2>2, TypedEvents
  <2>4. QED
    BY <1>2, <1>3, <2>2, <2>3 DEF Awaits
<1>5. tasks[ev.obj] = NoTask
  <2>1. ev.obj \in TM!Objects
    BY <1>4 DEF TM!Objects
  <2>2. tasks[ev.obj] # NoTask => TM!Body(tasks[ev.obj], ev.obj)
    BY <2>1, CalmBasis DEF CargoInv, TMP!IInv, TMP!MapTracksBodies, TMP!Body, TM!Body,
       TMP!Objects, TM!Objects
  <2>3. tasks[ev.obj] # NoTask => tasks[ev.obj] \in TaskIds
    BY <2>1, CalmBasis DEF TM!TypeOK
  <2>4. QED
    BY <1>2, <2>2, <2>3, RunDone DEF TM!Body, Hush
<1>6. /\ loop' = TM!Idle
      /\ \E t \in TaskIds : task[t] = TM!Done /\ task' = [task EXCEPT ![t] = TM!Running(ev, "body")]
  <2>1. ~TM!RecvWait
    BY <1>4, <1>5 DEF TM!RecvWait
  <2>2. ~TM!RecvSource
    BY <1>4, TmAssumption DEF TM!RecvSource
  <2>3. TM!Dispatch(ev, tasks, task)
    BY <1>4, <2>1, <2>2 DEF TM!RecvSerial
  <2>4. TM!CreatesTask(ev)
    BY <1>4 DEF TM!CreatesTask, TM!Objects
  <2>5. QED
    BY <2>3, <2>4 DEF TM!Dispatch, TM!AddTask
<1>7. PICK t \in TaskIds : task[t] = TM!Done /\ task' = [task EXCEPT ![t] = TM!Running(ev, "body")]
  BY <1>6
<1>8. /\ task'[t].phase = "body" /\ task'[t].ev = ev /\ task'[t] # TM!Done
      /\ \A u \in TaskIds : u # t => task'[u] = TM!Done
      /\ \A u \in TaskIds : body[u] = None
  <2>1. task'[t] = TM!Running(ev, "body") /\ \A u \in TaskIds : u # t => task'[u] = task[u]
    BY <1>7, CalmBasis DEF TM!TypeOK
  <2>2. \A u \in TaskIds : body[u] = None
    BY <1>2, RunDone, CalmBasis DEF Hush, CargoInv, Locals
  <2>3. QED
    BY <1>2, <2>1, <2>2 DEF Hush, TM!Running, TM!Done
<1>9. Solo'
  <2>1. DOMAIN queue' = {}
    BY <1>4
  <2>2. OneEvent' /\ \A k \in Clients : OneRequest(k)'
    BY <1>1, <2>1 DEF NoRequest, OneEvent, OneRequest
  <2>3. \A u \in TaskIds : OneTask(u)'
    BY <1>1, <1>4, <1>8, <2>1 DEF OneTask, NoRequest, Awaits
  <2>4. QED
    BY <1>1, <1>6, <2>2, <2>3 DEF Solo
<1>10. (\A k \in Clients : Marked(k)') /\ Coming'
  BY <1>1, <1>4 DEF NoRequest, Marked, Asks, Coming
<1>11. Ears' /\ Renamed'
  BY <1>1, CalmBasis DEF Ears, Apt, Exists, Fatal, Renamed
<1>12. InitsEnd'
  <2>1. \A u \in TaskIds : ~At(u, Launching, "initwait")
    BY <1>8 DEF At
  <2>2. QED
    BY <1>1, <2>1, CalmBasis DEF InitsEnd
<1>13. PICK c, a : c = ev.obj /\ a = ev.action
  OBVIOUS
<1>14. Due(c, a) /\ AskedBy(c, a)
  BY <1>1, <1>3, <1>4, <1>13 DEF Coming, Calls
<1>15. \A u \in TaskIds : UnderWay(u)'
  <2>1. SUFFICES ASSUME NEW u \in TaskIds, NEW d \in Cargoes, Works(u, d)'
                 PROVE  (/\ Wants(d, task[u].ev.action) /\ AskedBy(d, task[u].ev.action)
                         /\ body[u] = None
                         /\ Due(d, task[u].ev.action) /\ NoNews /\ doomed = {})'
    BY DEF UnderWay
  <2>2. u = t /\ d = c /\ task'[u].ev.action = a
    BY <1>8, <1>13, <2>1 DEF Works, Calls
  <2>3. Due(c, a)' /\ AskedBy(c, a)'
    BY <1>1, <1>14, SameCargo DEF Due, Wants, Exists, OfSpec, AskedBy
  <2>4. NoNews' /\ doomed' = {}
    BY <1>1, <1>2 DEF Hush, NoNews
  <2>5. QED
    BY <1>1, <1>8, <2>2, <2>3, <2>4 DEF Due
<1>16. \A d \in Cargoes : (Engaged(d) \/ Settled(d))'
  <2>1. TAKE d \in Cargoes
  <2>2. CASE d = c
    <3>1. Works(t, d)'
      BY <1>1, <1>4, <1>8, <1>13, <2>2 DEF Works, Calls
    <3>2. QED
      BY <3>1 DEF Engaged, Working
  <2>3. CASE d # c
    <3>1. ~Asking(d) /\ ~Working(d)
      BY <1>1, <1>2 DEF NoRequest, Asking, Asks, Working, Works, Hush
    <3>2. ~Queued(d)
      <4>1. DOMAIN queue = {1}
        BY <1>2, TypedEvents
      <4>2. QED
        BY <1>2, <1>3, <1>13, <2>3, <4>1 DEF Queued, Calls, TM!Idle
    <3>3. Settled(d)
      BY <1>1, <3>1, <3>2 DEF Engaged
    <3>4. Settled(d)'
      BY <1>1, <3>3, SettledStays, StaysUntouched
    <3>5. QED
      BY <3>4
  <2>4. QED
    BY <2>2, <2>3
<1>17. QED
  BY <1>9, <1>10, <1>11, <1>12, <1>15, <1>16 DEF Courses

LEMMA LoopGoes ==
    ASSUME Calm, LoopStep
    PROVE  Courses'
BY LoopPasses, LoopStarts

-----------------------------------------------------------------------------
(* Requests, which meet a system at rest.                                  *)
AtRest == Hush /\ queue = <<>> /\ loop = TM!Idle

LEMMA RestIs ==
    ASSUME Calm, AtRest
    PROVE  /\ \A t \in TaskIds : body[t] = None
           /\ \A c \in Cargoes : Asking(c) \/ Settled(c)
<1>1. \A t \in TaskIds : body[t] = None
  BY RunDone, CalmBasis DEF AtRest, Hush, CargoInv, Locals
<1>2. \A c \in Cargoes : ~Queued(c) /\ ~Working(c)
  BY DEF AtRest, Hush, Queued, Working, Works, TM!Idle
<1>3. QED
  BY <1>1, <1>2 DEF Calm, Courses, Engaged

LEMMA BeginRests ==
    ASSUME Calm, NEW k \in Clients, NEW op, Begin(k, op)
    PROVE  /\ AtRest /\ NoRequest /\ op \notin {"secret", "restart", "kill", "process"}
           /\ \A c \in Cargoes : Settled(c)
<1>1. Quiet
  BY DEF Begin, Calm, Orderly
<1>2. AtRest /\ NoRequest
  BY <1>1 DEF Quiet, AtRest, Hush, NoRequest
<1>3. left'.seen = left.seen \cup {op}
  BY BeginWanes, CalmBasis
<1>4. op \notin {"secret", "restart", "kill", "process"}
  BY <1>3 DEF Calm, Orderly
<1>5. \A c \in Cargoes : ~Asking(c)
  BY <1>2 DEF NoRequest, Asking, Asks
<1>6. QED
  BY <1>2, <1>4, <1>5, RestIs

(* What a request leaves alone.                                            *)
Handles == UNCHANGED <<loop, task, body, secret, doomed, cont, dq, dh>>

LEMMA RestCourses ==
    ASSUME Calm, AtRest, Handles, asked' \in [Cargoes -> AllOps \cup {"none"}],
           OneEvent', \A k \in Clients : OneRequest(k)' /\ Marked(k)', Coming',
           \A d \in Cargoes : (Engaged(d) \/ Settled(d))'
    PROVE  Courses'
<1>1. /\ UNCHANGED <<loop, task, body, secret, doomed, cont, dq, dh>>
      /\ Hush /\ loop = TM!Idle /\ Solo
  BY DEF Handles, AtRest, Calm, Courses
<1>2. \A t \in TaskIds : task'[t] = TM!Done
  BY <1>1 DEF Hush
<1>3. Solo'
  BY <1>1, <1>2 DEF Solo, OneTask
<1>4. \A t \in TaskIds : UnderWay(t)'
  BY <1>2 DEF UnderWay, Works
<1>5. Ears' /\ Renamed'
  BY <1>1, CalmBasis DEF Hush, Ears, Renamed
<1>6. InitsEnd'
  BY <1>1, StillInits
<1>7. QED
  BY <1>3, <1>4, <1>5, <1>6 DEF Courses

LEMMA StaysSettled ==
    ASSUME Calm, Handles, NEW d \in Cargoes, Settled(d), row'[d] = row[d], asked'[d] = asked[d]
    PROVE  Settled(d)'
BY SettledStays, StaysUntouched DEF Handles

(* A request that goes on, about c.                                        *)
LEMMA Requesting ==
    ASSUME Calm, AtRest, Handles, UNCHANGED <<queue, asked>>, NEW k \in Clients, NEW c \in Cargoes,
           req'[k] # None, req'[k].c = c, NEW op \in Statused, req'[k].op = op,
           req'[k].pc \in {"write", "spec", "emit"},
           \A l \in Clients : l # k => req'[l] = None,
           \A d \in Cargoes : d # c => Settled(d) /\ row'[d] = row[d],
           IF req'[k].pc = "write" THEN Settled(c)' ELSE Due(c, EventOf(op))'
    PROVE  Courses'
<1>1. Hush' /\ queue' = <<>> /\ loop' = TM!Idle /\ DOMAIN queue' = {}
  BY DEF Handles, AtRest, Hush
<1>2. asked' \in [Cargoes -> AllOps \cup {"none"}]
  BY DEF Calm, Courses, Solo
<1>3. OneEvent' /\ Coming'
  BY <1>1 DEF OneEvent, Coming
<1>4. \A l \in Clients : OneRequest(l)'
  BY <1>1 DEF OneRequest
<1>5. \A l \in Clients : Marked(l)'
  <2>1. TAKE l \in Clients
  <2>2. CASE l # k
    BY <2>2 DEF Marked, Asks
  <2>3. CASE l = k
    <3>1. SUFFICES ASSUME NEW d \in Cargoes, Asks(k, d)'
                   PROVE  Due(d, EventOf(req[k].op))'
      BY <2>3 DEF Marked
    <3>2. d = c /\ req'[k].pc # "write"
      BY <3>1 DEF Asks
    <3>3. QED
      BY <3>2
  <2>4. QED
    BY <2>2, <2>3
<1>6. \A d \in Cargoes : (Engaged(d) \/ Settled(d))'
  <2>1. \A d \in Cargoes : d # c => Settled(d)'
    BY StaysSettled
  <2>2. (Engaged(c) \/ Settled(c))'
    BY DEF Engaged, Asking, Asks, Statused
  <2>3. QED
    BY <2>1, <2>2
<1>7. QED
  BY <1>2, <1>3, <1>4, <1>5, <1>6, RestCourses

(* A request that is over and left no event of a task.                     *)
LEMMA Answered ==
    ASSUME Calm, AtRest, Handles, asked' \in [Cargoes -> AllOps \cup {"none"}],
           \A n \in DOMAIN queue' : queue'[n].action = "Other",
           \A l \in Clients : req'[l] = None, \A d \in Cargoes : Settled(d)'
    PROVE  Courses'
<1>1. OneEvent' /\ Coming'
  BY OtherEvent DEF OneEvent, Coming, Calls
<1>2. \A l \in Clients : OneRequest(l)' /\ Marked(l)'
  BY DEF OneRequest, Marked, Asks
<1>3. QED
  BY <1>1, <1>2, RestCourses

LEMMA GoesIs ==
    ASSUME Calm, NEW k \in Clients, NEW op, NEW c, NEW pc, Goes(k, op, c, pc)
    PROVE  /\ req'[k] # None /\ req'[k].c = c /\ req'[k].op = op /\ req'[k].pc = pc
           /\ \A l \in Clients : l # k => req'[l] = req[l]
<1>1. PICK r : r = Request(op, c, pc, {})
  OBVIOUS
<1>2. r.st = "run" /\ r.op = op /\ r.c = c /\ r.pc = pc
  BY <1>1 DEF Request
<1>3. DOMAIN req = Clients /\ req' = [req EXCEPT ![k] = r]
  BY <1>1, CalmBasis DEF CargoInv, Callers, Goes
<1>4. QED
  BY <1>2, <1>3 DEF None

LEMMA StatusSet ==
    ASSUME Calm, NEW c \in Cargoes, Exists(c), NEW w, NEW a, row' = SetStatus(c, w, a)
    PROVE  /\ Exists(c)' /\ row'[c].wanted = w /\ row'[c].spec = row[c].spec
           /\ \A d \in Cargoes : d # c => row'[d] = row[d]
<1>1. row \in [Cargoes -> {None} \cup Rows] /\ row[c] \in Rows
  BY CalmBasis DEF Tables, Exists
<1>2. PICK r : r = [row[c] EXCEPT !.wanted = w, !.actual = a]
  OBVIOUS
<1>3. r.st = "row" /\ r.wanted = w /\ r.spec = row[c].spec
  BY <1>1, <1>2 DEF Rows
<1>4. row' = [row EXCEPT ![c] = r]
  BY <1>1, <1>2 DEF SetStatus
<1>5. QED
  BY <1>1, <1>3, <1>4 DEF Exists, None

LEMMA DueNow ==
    ASSUME Calm, Handles, NEW c \in Cargoes, Whole(c), NEW a, Exists(c)',
           row'[c].wanted = WantedBy(a),
           a # "Updating" => row'[c].spec = row[c].spec /\ OfSpec(c, row[c].spec)
    PROVE  Due(c, a)'
<1>1. /\ Own(c)' = Own(c) /\ Whole(c)' = Whole(c)
      /\ \A i \in Own(c) : cont'[i] = cont[i]
  BY SameCargo DEF Handles
<1>2. QED
  BY <1>1 DEF Due, Wants, OfSpec, WantedBy

-----------------------------------------------------------------------------
LEMMA CreateCargoGoes ==
    ASSUME Calm, NEW k \in Clients, NEW c \in Cargoes, CreateCargo(k, c)
    PROVE  Courses'
<1>1. AtRest /\ NoRequest /\ \A d \in Cargoes : Settled(d)
  BY BeginRests DEF CreateCargo
<1>2. /\ Handles /\ UNCHANGED req /\ ~Exists(c)
      /\ row' = [row EXCEPT ![c] = Row("Create", "Create", 1)]
      /\ queue' = Append(queue, Ev(c, "Other")) /\ asked' = [asked EXCEPT ![c] = "create"]
  BY DEF CreateCargo, Handles, TM!Emit, Accepted, daemonVars, dockerVars
<1>3. /\ asked \in [Cargoes -> AllOps \cup {"none"}] /\ Housed
      /\ row \in [Cargoes -> {None} \cup Rows]
  BY CalmBasis DEF Calm, Courses, Solo, InstanceInv, Tables
<1>4. PICK r : r = Row("Create", "Create", 1)
  OBVIOUS
<1>5. r.st = "row" /\ r.wanted = "Create" /\ r.actual = "Create"
  BY <1>4 DEF Row
<1>6. row'[c] = r /\ \A d \in Cargoes : d # c => row'[d] = row[d]
  BY <1>2, <1>3, <1>4
<1>7. Says(c, "Create", "Create")'
  BY <1>5, <1>6 DEF Says, Exists, None
<1>8. Theirs(c)' = {} /\ Own(c)' = {}
  <2>1. \A i \in Conts : ~Mine(i, c)
    BY <1>2, <1>3 DEF Housed, Mine, Calm
  <2>2. Theirs(c)' = {}
    BY <1>2, <2>1, CalmBasis DEF Theirs, Mine, Handles
  <2>3. QED
    BY <2>2 DEF Own
<1>9. /\ asked' \in [Cargoes -> AllOps \cup {"none"}] /\ asked'[c] = "create"
      /\ \A d \in Cargoes : d # c => asked'[d] = asked[d]
  BY <1>2, <1>3 DEF AllOps
<1>10. Settled(c)'
  BY <1>7, <1>8, <1>9 DEF Settled, Whole, OfSpec
<1>11. \A d \in Cargoes : Settled(d)'
  BY <1>1, <1>2, <1>6, <1>9, <1>10, StaysSettled
<1>12. \A n \in DOMAIN queue' : queue'[n].action = "Other"
  BY <1>1, <1>2, MoreOther DEF AtRest
<1>13. QED
  BY <1>1, <1>2, <1>9, <1>11, <1>12, Answered DEF NoRequest

LEMMA StartCargoGoes ==
    ASSUME Calm, NEW k \in Clients, NEW c \in Cargoes, StartCargo(k, c)
    PROVE  Courses'
<1>1. AtRest /\ NoRequest /\ \A d \in Cargoes : Settled(d)
  BY BeginRests DEF StartCargo
<1>2. /\ Handles /\ UNCHANGED <<queue, asked>> /\ Exists(c)
      /\ row' = SetStatus(c, "Start", "Starting") /\ Goes(k, "start", c, "emit")
  BY DEF StartCargo, Handles, tmVars, daemonVars, dockerVars
<1>3. /\ req'[k] # None /\ req'[k].c = c /\ req'[k].op = "start" /\ req'[k].pc = "emit"
      /\ \A l \in Clients : l # k => req'[l] = None
  BY <1>1, <1>2, GoesIs DEF NoRequest
<1>4. /\ Exists(c)' /\ row'[c].wanted = "Start" /\ row'[c].spec = row[c].spec
      /\ \A d \in Cargoes : d # c => row'[d] = row[d]
  BY <1>2, StatusSet
<1>5. Whole(c) /\ OfSpec(c, row[c].spec)
  BY <1>1, <1>2 DEF Settled
<1>6. Due(c, "Starting")'
  BY <1>2, <1>4, <1>5, DueNow DEF WantedBy, Launching
<1>7. EventOf("start") = "Starting" /\ "start" \in Statused
  BY DEF Statused, EventOf
<1>8. QED
  BY <1>1, <1>2, <1>3, <1>4, <1>6, <1>7, Requesting

LEMMA PutCargoGoes ==
    ASSUME Calm, NEW k \in Clients, NEW c \in Cargoes, PutCargo(k, c)
    PROVE  Courses'
<1>1. AtRest /\ NoRequest /\ \A d \in Cargoes : Settled(d)
  BY BeginRests DEF PutCargo
<1>2. /\ Handles /\ UNCHANGED <<queue, asked>> /\ Exists(c)
      /\ row' = SetStatus(c, "Start", "Updating") /\ Goes(k, "put", c, "spec")
  BY DEF PutCargo, Handles, tmVars, daemonVars, dockerVars
<1>3. /\ req'[k] # None /\ req'[k].c = c /\ req'[k].op = "put" /\ req'[k].pc = "spec"
      /\ \A l \in Clients : l # k => req'[l] = None
  BY <1>1, <1>2, GoesIs DEF NoRequest
<1>4. /\ Exists(c)' /\ row'[c].wanted = "Start"
      /\ \A d \in Cargoes : d # c => row'[d] = row[d]
  BY <1>2, StatusSet
<1>5. Whole(c)
  BY <1>1 DEF Settled
<1>6. Due(c, "Updating")'
  BY <1>2, <1>4, <1>5, DueNow DEF WantedBy, Launching
<1>7. EventOf("put") = "Updating" /\ "put" \in Statused
  BY DEF Statused, EventOf
<1>8. QED
  BY <1>1, <1>2, <1>3, <1>4, <1>6, <1>7, Requesting

(* The marks a stop or a deletion has still to leave.                      *)
LEMMA NoteGoes ==
    ASSUME Calm, AtRest, NoRequest, \A d \in Cargoes : Settled(d), Handles,
           UNCHANGED <<queue, asked, row>>, NEW k \in Clients, NEW c \in Cargoes,
           NEW op \in Statused, Goes(k, op, c, "write")
    PROVE  Courses'
<1>1. /\ req'[k] # None /\ req'[k].c = c /\ req'[k].op = op /\ req'[k].pc = "write"
      /\ \A l \in Clients : l # k => req'[l] = None
  BY GoesIs DEF NoRequest
<1>2. Settled(c)'
  BY StaysSettled
<1>3. QED
  BY <1>1, <1>2, Requesting

LEMMA StopCargoGoes ==
    ASSUME Calm, NEW k \in Clients, NEW c \in Cargoes, StopCargo(k, c)
    PROVE  Courses'
<1>1. AtRest /\ NoRequest /\ \A d \in Cargoes : Settled(d)
  BY BeginRests DEF StopCargo
<1>2. Handles /\ UNCHANGED <<queue, row>> /\ Exists(c)
  BY DEF StopCargo, Handles, tmVars, dbVars, daemonVars, dockerVars
<1>3. CASE row[c].actual # "Stop"
  <2>1. UNCHANGED asked /\ Goes(k, "stop", c, "write")
    BY <1>3 DEF StopCargo
  <2>2. QED
    BY <1>1, <1>2, <2>1, NoteGoes DEF Statused
<1>4. CASE row[c].actual = "Stop"
  <2>1. UNCHANGED req /\ asked' = [asked EXCEPT ![c] = "stop"]
    BY <1>4 DEF StopCargo, Accepted
  <2>2. asked \in [Cargoes -> AllOps \cup {"none"}]
    BY DEF Calm, Courses, Solo
  <2>3. /\ asked' \in [Cargoes -> AllOps \cup {"none"}] /\ asked'[c] = "stop"
        /\ \A d \in Cargoes : d # c => asked'[d] = asked[d]
    BY <2>1, <2>2 DEF AllOps
  <2>4. asked[c] = "stop"
    BY <1>1, <1>2, <1>4 DEF Settled, Says
  <2>5. \A d \in Cargoes : Settled(d)'
    BY <1>1, <1>2, <2>3, <2>4, StaysSettled
  <2>6. \A n \in DOMAIN queue' : queue'[n].action = "Other"
    BY <1>1, <1>2 DEF AtRest
  <2>7. QED
    BY <1>1, <1>2, <2>1, <2>3, <2>5, <2>6, Answered DEF NoRequest
<1>5. QED
  BY <1>3, <1>4

LEMMA DeleteCargoGoes ==
    ASSUME Calm, NEW k \in Clients, NEW c \in Cargoes, NEW op \in {"delete", "force"},
           DeleteCargo(k, c, op)
    PROVE  Courses'
<1>1. AtRest /\ NoRequest /\ \A d \in Cargoes : Settled(d)
  BY BeginRests DEF DeleteCargo
<1>2. Handles /\ UNCHANGED <<queue, row, asked>> /\ Goes(k, op, c, "write")
  BY DEF DeleteCargo, Handles, tmVars, dbVars, daemonVars, dockerVars
<1>3. QED
  BY <1>1, <1>2, NoteGoes DEF Statused

LEMMA NewRequestGoes ==
    ASSUME Calm, NEW k \in Clients, NewRequest(k)
    PROVE  Courses'
<1>1. ASSUME NEW c \in Cargoes, NEW op \in {"restart", "kill"}
      PROVE  ~EachProcess(k, c, op)
  BY BeginRests DEF EachProcess
<1>2. \A s \in Secrets : ~PutSecret(k, s)
  BY BeginRests DEF PutSecret
<1>3. \A i \in Conts : ~StartProcess(k, i)
  BY BeginRests DEF StartProcess
<1>4. QED
  BY <1>1, <1>2, <1>3, CreateCargoGoes, StartCargoGoes, StopCargoGoes, PutCargoGoes,
     DeleteCargoGoes DEF NewRequest

(* A request in progress is the only thing there is.                       *)
LEMMA InHand ==
    ASSUME Calm, NEW k \in Clients, req[k] # None
    PROVE  /\ AtRest /\ req[k].op \in Statused /\ req[k].pc \in {"write", "spec", "emit"}
           /\ req[k].c \in Cargoes
           /\ \A l \in Clients : l # k => req[l] = None
           /\ \A d \in Cargoes : ~Asks(k, d) => Settled(d)
<1>1. OneRequest(k)
  BY DEF Calm, Courses, Solo
<1>2. AtRest /\ \A l \in Clients : l # k => req[l] = None
  BY <1>1 DEF OneRequest, AtRest
<1>3. \A d \in Cargoes : Asking(d) => Asks(k, d)
  BY <1>2 DEF Asking, Asks
<1>4. req[k] \in Requests(Conts, left.w.ops)
  BY CalmBasis DEF CargoInv, Callers
<1>5. QED
  BY <1>1, <1>2, <1>3, <1>4, RestIs DEF OneRequest, Requests

LEMMA EndsIs ==
    ASSUME Calm, NEW k \in Clients, Ends(k), \A l \in Clients : l # k => req[l] = None
    PROVE  \A l \in Clients : req'[l] = None
<1>1. DOMAIN req = Clients
  BY CalmBasis DEF CargoInv, Callers
<1>2. QED
  BY <1>1 DEF Ends

LEMMA WriteStatusGoes ==
    ASSUME Calm, NEW k \in Clients, WriteStatus(k)
    PROVE  Courses'
<1>1. PICK c, op : c = req[k].c /\ op = req[k].op
  OBVIOUS
<1>2. /\ req[k] # None /\ op \in {"stop", "delete", "force"} /\ req[k].pc = "write"
      /\ Handles /\ UNCHANGED <<queue, asked>>
  BY <1>1 DEF WriteStatus, In, Handles, tmVars, daemonVars, dockerVars
<1>3. /\ AtRest /\ c \in Cargoes /\ \A l \in Clients : l # k => req[l] = None
      /\ \A d \in Cargoes : Settled(d)
  BY <1>1, <1>2, InHand DEF Asks
<1>4. CASE ~Exists(c)
  <2>1. UNCHANGED row /\ Ends(k)
    BY <1>1, <1>4 DEF WriteStatus
  <2>2. asked' \in [Cargoes -> AllOps \cup {"none"}]
    BY <1>2 DEF Calm, Courses, Solo
  <2>3. \A d \in Cargoes : Settled(d)'
    BY <1>2, <1>3, <2>1, StaysSettled
  <2>4. QED
    BY <1>2, <1>3, <2>1, <2>2, <2>3, EndsIs, Answered DEF AtRest
<1>5. CASE Exists(c)
  <2>1. PICK w, a : w = WantedBy(EventOf(op)) /\ a = EventOf(op)
    OBVIOUS
  <2>2. row' = SetStatus(c, w, a) /\ Goes(k, op, c, "emit")
    BY <1>1, <1>2, <1>5, <2>1 DEF WriteStatus, WantedBy, EventOf, Launching
  <2>3. /\ req'[k] # None /\ req'[k].c = c /\ req'[k].op = op /\ req'[k].pc = "emit"
        /\ \A l \in Clients : l # k => req'[l] = None
    BY <1>3, <2>2, GoesIs
  <2>4. /\ Exists(c)' /\ row'[c].wanted = w /\ row'[c].spec = row[c].spec
        /\ \A d \in Cargoes : d # c => row'[d] = row[d]
    BY <1>3, <1>5, <2>2, StatusSet
  <2>5. Whole(c) /\ OfSpec(c, row[c].spec)
    BY <1>3, <1>5 DEF Settled
  <2>6. Due(c, EventOf(op))'
    BY <1>2, <1>3, <2>1, <2>4, <2>5, DueNow
  <2>7. op \in Statused
    BY <1>2 DEF Statused
  <2>8. QED
    BY <1>2, <1>3, <2>3, <2>4, <2>6, <2>7, Requesting
<1>6. QED
  BY <1>4, <1>5

LEMMA PutSpecGoes ==
    ASSUME Calm, NEW k \in Clients, PutSpec(k)
    PROVE  Courses'
<1>1. PICK c : c = req[k].c
  OBVIOUS
<1>2. /\ req[k] # None /\ req[k].op = "put" /\ req[k].pc = "spec"
      /\ Handles /\ UNCHANGED <<queue, asked>>
  BY DEF PutSpec, In, Handles, tmVars, daemonVars, dockerVars
<1>3. /\ AtRest /\ c \in Cargoes /\ \A l \in Clients : l # k => req[l] = None
      /\ \A d \in Cargoes : d # c => Settled(d)
  BY <1>1, <1>2, InHand DEF Asks
<1>4. Asks(k, c) /\ EventOf("put") = "Updating" /\ "put" \in Statused
  BY <1>1, <1>2 DEF Asks, EventOf, Statused
<1>5. Due(c, "Updating")
  BY <1>2, <1>3, <1>4 DEF Calm, Courses, Marked
<1>6. Exists(c) /\ row[c].wanted = "Start" /\ Whole(c)
  BY <1>5 DEF Due, Wants, WantedBy, Launching
<1>7. row' = [row EXCEPT ![c].spec = @ + 1] /\ Goes(k, "put", c, "emit")
  BY <1>1, <1>6 DEF PutSpec
<1>8. /\ req'[k] # None /\ req'[k].c = c /\ req'[k].op = "put" /\ req'[k].pc = "emit"
      /\ \A l \in Clients : l # k => req'[l] = None
  BY <1>3, <1>7, GoesIs
<1>9. /\ Exists(c)' /\ row'[c].wanted = "Start"
      /\ \A d \in Cargoes : d # c => row'[d] = row[d]
  <2>1. row \in [Cargoes -> {None} \cup Rows] /\ row[c] \in Rows
    BY <1>3, <1>6, CalmBasis DEF Tables, Exists
  <2>2. PICK r : r = [row[c] EXCEPT !.spec = @ + 1]
    OBVIOUS
  <2>3. r.st = "row" /\ r.wanted = row[c].wanted
    BY <2>1, <2>2 DEF Rows
  <2>4. row' = [row EXCEPT ![c] = r]
    BY <1>7, <2>2
  <2>5. QED
    BY <1>3, <1>6, <2>1, <2>3, <2>4 DEF Exists, None
<1>10. Due(c, "Updating")'
  BY <1>2, <1>3, <1>6, <1>9, DueNow DEF WantedBy, Launching
<1>11. QED
  BY <1>2, <1>3, <1>4, <1>8, <1>9, <1>10, Requesting

LEMMA EmitRequestGoes ==
    ASSUME Calm, NEW k \in Clients, EmitRequest(k)
    PROVE  Courses'
<1>1. PICK c, op, a : c = req[k].c /\ op = req[k].op /\ a = EventOf(req[k].op)
  OBVIOUS
<1>2. req[k] # None /\ req[k].pc = "emit" /\ Ends(k) /\ Handles /\ UNCHANGED row
  BY DEF EmitRequest, Handles, TM!Emit, tmVars, dbVars, daemonVars, dockerVars
<1>3. /\ AtRest /\ c \in Cargoes /\ op \in Statused /\ \A l \in Clients : l # k => req[l] = None
      /\ \A d \in Cargoes : d # c => Settled(d)
  BY <1>1, <1>2, InHand DEF Asks
<1>4. Asks(k, c) /\ a \in TM!TaskActions
  BY <1>1, <1>2, <1>3 DEF Asks, Statused, EventOf, TM!TaskActions
<1>5. Due(c, a)
  BY <1>1, <1>2, <1>3, <1>4 DEF Calm, Courses, Marked
<1>6. Exists(c)
  BY <1>5 DEF Due, Wants
<1>7. PICK ev \in TM!Events : ev = Ev(c, a)
  BY <1>3, <1>4, Emitted
<1>8. /\ queue' = Append(queue, ev) /\ asked' = [asked EXCEPT ![c] = op]
  BY <1>1, <1>6, <1>7 DEF EmitRequest, TM!Emit, Accepted
<1>9. /\ Len(queue') = 1 /\ DOMAIN queue' = {1} /\ queue'[1] = ev
  BY <1>3, <1>7, <1>8 DEF AtRest
<1>10. ev.action = a /\ ev.obj = c
  BY <1>7 DEF Ev
<1>11. /\ asked' \in [Cargoes -> AllOps \cup {"none"}] /\ asked'[c] = op
       /\ \A d \in Cargoes : d # c => asked'[d] = asked[d]
  <2>1. asked \in [Cargoes -> AllOps \cup {"none"}] /\ op \in AllOps
    BY <1>3 DEF Calm, Courses, Solo, Statused, AllOps
  <2>2. QED
    BY <1>3, <1>8, <2>1
<1>12. \A l \in Clients : req'[l] = None
  BY <1>2, <1>3, EndsIs
<1>13. OneEvent'
  <2>1. Hush' /\ loop' = TM!Idle /\ NoRequest'
    BY <1>2, <1>3, <1>12 DEF Handles, AtRest, Hush, NoRequest
  <2>2. Awaits(ev)
    BY <1>3, <1>4, <1>10 DEF Awaits
  <2>3. QED
    BY <1>9, <2>1, <2>2 DEF OneEvent, Awaits
<1>14. \A l \in Clients : OneRequest(l)' /\ Marked(l)'
  BY <1>12 DEF OneRequest, Marked, Asks
<1>15. Coming'
  <2>1. SUFFICES ASSUME NEW d \in Cargoes, d = c
                 PROVE  Due(d, a)' /\ AskedBy(d, a)'
    BY <1>9, <1>10 DEF Coming, Calls, Due, AskedBy
  <2>2. Whole(c) /\ row[c].wanted = WantedBy(a) /\ (a # "Updating" => OfSpec(c, row[c].spec))
    BY <1>5 DEF Due, Wants
  <2>3. Due(c, a)'
    BY <1>2, <1>3, <1>6, <2>2, DueNow DEF Exists
  <2>4. AskedBy(c, a)'
    BY <1>1, <1>3, <1>11 DEF AskedBy
  <2>5. QED
    BY <2>1, <2>3, <2>4
<1>16. \A d \in Cargoes : (Engaged(d) \/ Settled(d))'
  <2>1. \A d \in Cargoes : d # c => Settled(d)'
    BY <1>2, <1>3, <1>11, StaysSettled
  <2>2. Queued(c)'
    BY <1>4, <1>9, <1>10 DEF Queued, Calls
  <2>3. QED
    BY <2>1, <2>2 DEF Engaged
<1>17. QED
  BY <1>2, <1>3, <1>11, <1>13, <1>14, <1>15, <1>16, RestCourses

LEMMA RequestGoes ==
    ASSUME Calm, NEW k \in Clients, RequestStep(k)
    PROVE  Courses'
<1>1. ~NextProcess(k)
  BY InHand DEF NextProcess, In, Statused
<1>2. QED
  BY <1>1, WriteStatusGoes, PutSpecGoes, EmitRequestGoes DEF RequestStep

-----------------------------------------------------------------------------
LEMMA DueSame ==
    ASSUME Calm, UNCHANGED <<row, cont, doomed>>, NEW c \in Cargoes, NEW a, Due(c, a)
    PROVE  Due(c, a)'
BY SameCargo DEF Due, Wants, OfSpec, Exists

LEMMA NothingMoves ==
    ASSUME Calm, UNCHANGED vars
    PROVE  Courses'
<1>1. /\ UNCHANGED <<queue, loop, task, row, body, doomed, secret>>
      /\ UNCHANGED <<cont, dq, dh, req, asked>>
      /\ Courses
  BY DEF vars, tmVars, dbVars, dockerVars, daemonVars, clientVars, Calm
<1>2. Solo'
  BY <1>1 DEF Courses, Solo, OneEvent, OneRequest, OneTask, Hush, NoRequest, Awaits
<1>3. Renamed' /\ Ears' /\ InitsEnd'
  BY <1>1, StillInits, CalmBasis DEF Courses, Renamed, Ears, Apt, Fatal, Exists
<1>4. ASSUME NEW c \in Cargoes
      PROVE  (Engaged(c) \/ Settled(c))'
  <2>1. Engaged(c) => Engaged(c)'
    BY <1>1 DEF Engaged, Asking, Asks, Queued, Calls, Working, Works
  <2>2. Settled(c) => Settled(c)'
    BY <1>1, SettledStays, StaysUntouched
  <2>3. QED
    BY <1>1, <2>1, <2>2 DEF Courses
<1>5. ASSUME NEW k \in Clients
      PROVE  Marked(k)'
  <2>1. SUFFICES ASSUME NEW c \in Cargoes, Asks(k, c)
                 PROVE  Due(c, EventOf(req[k].op))'
    BY <1>1 DEF Marked, Asks
  <2>2. PICK a : a = EventOf(req[k].op)
    OBVIOUS
  <2>3. Due(c, a)'
    BY <1>1, <2>1, <2>2, DueSame DEF Courses, Marked
  <2>4. QED
    BY <1>1, <2>2, <2>3
<1>6. Coming'
  <2>1. SUFFICES ASSUME NEW n \in DOMAIN queue, NEW c \in Cargoes, Calls(queue[n], c)
                 PROVE  Due(c, queue[n].action)' /\ AskedBy(c, queue[n].action)'
    BY <1>1 DEF Coming, Calls
  <2>2. PICK a : a = queue[n].action
    OBVIOUS
  <2>3. Due(c, a)' /\ AskedBy(c, a)
    BY <1>1, <2>1, <2>2, DueSame DEF Courses, Coming
  <2>4. AskedBy(c, a)'
    BY <1>1, <2>3 DEF AskedBy
  <2>5. queue'[n].action = a
    BY <1>1, <2>2
  <2>6. QED
    BY <2>3, <2>4, <2>5
<1>7. \A t \in TaskIds : UnderWay(t)'
  BY <1>1, UnderWaySame
<1>8. QED
  BY <1>2, <1>3, <1>4, <1>5, <1>6, <1>7 DEF Courses

LEMMA ConvergenceKept ==
    ASSUME InstanceInv, Convergence, [Next]_vars
    PROVE  Convergence'
<1>1. SUFFICES ASSUME Orderly'
               PROVE  Courses'
  BY DEF Convergence
<1>2. Calm /\ Courses
  BY <1>1, CalmIs DEF Calm
<1>3. CASE UNCHANGED vars
  BY <1>2, <1>3, NothingMoves
<1>4. ASSUME NEW k \in Clients, NewRequest(k) \/ RequestStep(k)
      PROVE  Courses'
  BY <1>2, <1>4, NewRequestGoes, RequestGoes
<1>5. CASE LoopStep \/ SecretStep
  BY <1>2, <1>5, LoopGoes, NoSecret
<1>6. CASE DockerStep
  BY <1>2, <1>6, DockerRecvGoes, DockerWriteGoes, DockerSyncGoes DEF DockerStep
<1>7. ASSUME NEW t \in TaskIds, TaskStep(t)
      PROVE  Courses'
  BY <1>2, <1>7, TaskGoes
<1>8. ASSUME NEW i \in Conts, Reap(i) \/ InitExit(i) \/ Crash(i) \/ Revive(i)
      PROVE  Courses'
  BY <1>2, <1>8, ReapGoes, InitExitGoes, NoMishap
<1>9. QED
  BY <1>3, <1>4, <1>5, <1>6, <1>7, <1>8 DEF Next

LEMMA ConvergenceInit ==
    ASSUME Init
    PROVE  Convergence
<1>1. /\ queue = <<>> /\ loop = TM!Idle /\ dq = <<>> /\ dh = None /\ doomed = {} /\ secret = None
      /\ asked = [c \in Cargoes |-> "none"] /\ row = [c \in Cargoes |-> None]
      /\ \A i \in Conts : cont[i] = None
      /\ \A t \in TaskIds : task[t] = TM!Done
      /\ \A k \in Clients : req[k] = None
  BY DEF Init, TM!Init
<1>2. DOMAIN queue = {} /\ DOMAIN dq = {}
  BY <1>1
<1>3. Solo
  BY <1>1, <1>2 DEF Solo, OneEvent, OneRequest, OneTask
<1>4. Renamed /\ InitsEnd /\ Ears
  BY <1>1, <1>2 DEF Renamed, InitsEnd, Ears
<1>5. ASSUME NEW c \in Cargoes
      PROVE  Settled(c)
  <2>1. Theirs(c) = {} /\ Own(c) = {}
    BY <1>1 DEF Theirs, Own, Mine
  <2>2. QED
    BY <1>1, <2>1 DEF Settled, Whole, Exists
<1>6. (\A k \in Clients : Marked(k)) /\ Coming /\ \A t \in TaskIds : UnderWay(t)
  BY <1>1, <1>2 DEF Marked, Asks, Coming, UnderWay, Works
<1>7. QED
  BY <1>3, <1>4, <1>5, <1>6 DEF Convergence, Courses

LEMMA Arrived ==
    ASSUME InstanceInv, Convergence, Orderly
    PROVE  Converged
<1>1. SUFFICES ASSUME Quiet, NEW c \in Cargoes
               PROVE  /\ asked[c] \in {"start", "put"} =>
                           /\ row[c].wanted = "Start" /\ row[c].actual = "Start"
                           /\ Cardinality(UpInstances(c)) = Replicas
                           /\ \A i \in UpInstances(c) : cont[i].spec = row[c].spec /\ cont[i].tmp = 0
                      /\ asked[c] = "stop" =>
                           /\ row[c].wanted = "Stop" /\ row[c].actual = "Stop"
                           /\ UpInstances(c) = {}
                      /\ asked[c] \in {"delete", "force"} => ~Exists(c) /\ UpInstances(c) = {}
  BY DEF Converged
<1>2. Settled(c)
  <2>1. ~Asking(c) /\ ~Queued(c) /\ ~Working(c)
    BY <1>1 DEF Quiet, Asking, Asks, Queued, Calls, Working, Works, TM!Idle
  <2>2. QED
    BY <2>1 DEF Convergence, Courses, Engaged
<1>3. Own(c) = {i \in Conts : Mine(i, c) /\ ~cont[i].init} /\ Own(c) \subseteq Theirs(c)
  BY <1>1, OwnIs DEF Quiet, Own
<1>4. UpInstances(c) = {i \in Own(c) : cont[i].st = "up"}
  BY <1>3 DEF UpInstances, Mine
<1>5. CASE asked[c] \in {"start", "put"}
  <2>1. /\ Whole(c) /\ OfSpec(c, row[c].spec) /\ AllUp(c) /\ Says(c, "Start", "Start")
    BY <1>2, <1>5 DEF Settled, Says
  <2>2. UpInstances(c) = Own(c)
    BY <1>4, <2>1 DEF AllUp
  <2>3. Cardinality(UpInstances(c)) = Replicas
    BY <2>1, <2>2 DEF Whole, AllUp
  <2>4. \A i \in UpInstances(c) : cont[i].spec = row[c].spec /\ cont[i].tmp = 0
    BY <1>3, <2>1, <2>2 DEF Whole, OfSpec
  <2>5. QED
    BY <1>5, <2>1, <2>3, <2>4 DEF Says
<1>6. CASE asked[c] = "stop"
  <2>1. NoneUp(c) /\ Says(c, "Stop", "Stop")
    BY <1>2, <1>6 DEF Settled
  <2>2. UpInstances(c) = {}
    BY <1>4, <2>1 DEF NoneUp
  <2>3. QED
    BY <1>6, <2>1, <2>2 DEF Says
<1>7. CASE asked[c] \in {"delete", "force"}
  <2>1. ~Exists(c)
    BY <1>2, <1>7 DEF Settled
  <2>2. Tidy
    BY DEF Orderly, Tidy, Faultless
  <2>3. \A i \in Conts : ~Mine(i, c)
    BY <2>1, <2>2 DEF InstanceInv, Housed, Mine
  <2>4. UpInstances(c) = {}
    BY <1>3, <1>4, <2>3
  <2>5. QED
    BY <1>7, <2>1, <2>4
<1>8. QED
  BY <1>5, <1>6, <1>7

(* As long as clients only create, start, stop, update and delete cargoes, *)
(* each request meeting a settled system, docker did what it was asked to  *)
(* and no instance crashed, the system at rest is what was last asked: as  *)
(* many running instances of the current spec as replicas, under their own *)
(* name, or none, or no cargo.  What a task lists, renames, creates and    *)
(* removes, and what the analyser is told of it later, leaves nothing else *)
(* behind (cargo::create, start, stop, update and delete).                 *)
THEOREM ConvergesInOrder == Spec => [](Orderly => Converged)
<1>1. Init => Convergence
  BY ConvergenceInit
<1>2. InstanceInv /\ Convergence /\ [Next]_vars => Convergence'
  BY ConvergenceKept
<1>3. InstanceInv /\ Convergence => (Orderly => Converged)
  BY Arrived
<1>4. QED
  BY <1>1, <1>2, <1>3, InstanceInvariant, PTL DEF Spec
=============================================================================
