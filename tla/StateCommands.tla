---------------------------- MODULE StateCommands ----------------------------
(***************************************************************************)
(* The commands of nanocl that change objects: state apply, state rm, and  *)
(* create, start, stop, rm, run and patch of one object, and creation and  *)
(* removal of a namespace.  A command is a list of requests to the daemon, *)
(* each a step; the answer to one may put others before the rest.  The     *)
(* requests of several commands, and the daemon's tasks, interleave.       *)
(*                                                                         *)
(* A Statefile is a record: the files it includes, the namespace and group *)
(* of its objects, and per section, if it has it, the sequence of objects. *)
(***************************************************************************)
EXTENDS ObjectApi, FiniteSetsExt, SequencesExt

CONSTANTS
    Files,       (* Statefiles                                               *)
    File,        (* [Files -> [subs, space, group, secs, spec]]              *)
    Bad,         (* the files that cannot be read, or miss an argument       *)
    GlobalVm,    (* the vm of the same name in the namespace "global"        *)
    Scenarios    (* bounds of a behaviour: its commands, how many of them    *)
                 (* are run, and how many tasks and requests may fail        *)

VARIABLES
    act,     (* per client, the command it runs and its remaining requests   *)
    solo,    (* history: a command nothing disturbs, the objects before it   *)
             (* and how it ended                                             *)
    left     (* the scenario, and how many commands may still be run         *)

vars == <<obj, spaces, pend, watch, faults, act, solo, left>>

ApplyOrder == <<"secret", "job", "cargo", "vm", "resource">>
RmOrder == <<"job", "cargo", "vm", "resource", "secret">>

(* A file that includes itself is refused; the files it includes are read  *)
(* before anything is applied.                                             *)
ASSUME FileAssumption ==
    \A f \in Files :
        /\ \A i \in DOMAIN File[f].subs : File[f].subs[i] \in Files \ {f}
        /\ \A k \in DOMAIN File[f].secs, i \in 1..Cardinality(Objects) :
               i \in DOMAIN File[f].secs[k] => Kind[File[f].secs[k][i]] = k

Init ==
    /\ \E sc \in Scenarios : ApiInit(sc.spaces, sc.faults) /\ left = [cmds |-> sc.cmds, n |-> sc.n]
    /\ act = [c \in Clients |-> None]
    /\ solo = None

-----------------------------------------------------------------------------
(* parse_state_file_recurr: a file, then those it includes, turned around  *)
(* at every level.                                                         *)
States[f \in Files] ==
    Reverse(<<f>> \o FlattenSeq([i \in DOMAIN File[f].subs |-> States[File[f].subs[i]]]))

Tree(f) == {States[f][i] : i \in DOMAIN States[f]}

Has(f, k) == k \in DOMAIN File[f].secs
Entries(f, k) == IF Has(f, k) THEN File[f].secs[k] ELSE <<>>
Members(f) == UNION {ToSet(Entries(f, k)) : k \in Kinds}

Rq(rq, o, f, soft) == [rq |-> rq, o |-> o, f |-> f, soft |-> soft, ev |-> "none", kind |-> "none"]
SpaceRq(rq, n, soft) == [Rq(rq, "none", "none", soft) EXCEPT !.kind = n]
Sub(o, f, soft, ev, kind) == [rq |-> "sub", o |-> o, f |-> f, soft |-> soft, ev |-> ev, kind |-> kind]

(* Mutant: the request is made before the subscription.                    *)
AwaitedLate(o, f, soft, ev, rq) ==
    <<Rq(rq, o, f, soft), Sub(o, f, soft, ev, Kind[o]), Rq("wait", o, f, soft)>>

(* A request whose event is awaited.  The update of a vm in a Statefile    *)
(* waits for the event of a cargo.                                         *)
Awaited(o, f, soft, ev, rq) ==
    LET kind == IF rq = "put" /\ Kind[o] = "vm" /\ f # "none" THEN "cargo" ELSE Kind[o]
    IN  <<Sub(o, f, soft, ev, kind), Rq(rq, o, f, soft), Rq("wait", o, f, soft)>>

Made(o, f) == <<Rq("create", o, f, FALSE)>> \o Awaited(o, f, FALSE, "start", "start")

Removed(o, f) ==
    IF o \in Processes THEN Awaited(o, f, TRUE, "destroy", "delete") ELSE <<Rq("delete", o, f, TRUE)>>

(* Mutant: a missing section counts as an empty one.                       *)
OrphansOfAll(f) ==
    {o \in Objects : There(o) /\ obj[o].group = File[f].group /\ Kind[o] # "job"
                     /\ Space[o] \in {"none", File[f].space} /\ o \notin Members(f)}

(* What the daemon lists for the group of a file and the file, in a        *)
(* section it has, does not.                                               *)
OrphansOf(f) ==
    {o \in Objects : There(o) /\ obj[o].group = File[f].group /\ Kind[o] # "job" /\ Has(f, Kind[o])
                     /\ Space[o] \in {"none", File[f].space} /\ o \notin Members(f)}

PerKind(order, Seqs(_)) == FlattenSeq([i \in DOMAIN order |-> Seqs(order[i])])

(* The requests of state apply and state rm for one file.                  *)
ApplyFile(f, cmd) ==
    (IF cmd.orphans THEN <<Rq("list", "none", f, FALSE)>> ELSE <<>>)
    \o PerKind(ApplyOrder, LAMBDA k : [i \in DOMAIN Entries(f, k) |->
                                          Rq("inspect", Entries(f, k)[i], f, FALSE)])

RemoveAll(f, names) ==
    PerKind(RmOrder, LAMBDA k : FlattenSeq([i \in DOMAIN names[k] |-> Removed(names[k][i], f)]))

EachFile(f, Of(_)) == FlattenSeq([i \in DOMAIN States[f] |-> Of(States[f][i])])

ApplyRequests(cmd) ==
    <<Rq("read", "none", cmd.f, FALSE)>> \o EachFile(cmd.f, LAMBDA f : ApplyFile(f, cmd))

StateRmRequests(cmd) ==
    <<Rq("read", "none", cmd.f, FALSE)>>
    \o EachFile(cmd.f, LAMBDA f : RemoveAll(f, [k \in Kinds |-> Entries(f, k)]))

(* run subscribes before it creates.                                       *)
RunRequests(o) ==
    <<Sub(o, "none", FALSE, "start", Kind[o]), Rq("create", o, "none", FALSE),
      Rq("start", o, "none", FALSE), Rq("wait", o, "none", FALSE)>>

PatchRequests(o) == Awaited(o, "none", FALSE, "start", "put")

NamespaceRmRequests(n) == <<SpaceRq("nsclear", n, TRUE), SpaceRq("nsdrop", n, TRUE)>>

Requests(cmd) ==
    CASE cmd.op = "apply" -> ApplyRequests(cmd)
      [] cmd.op = "staterm" -> StateRmRequests(cmd)
      [] cmd.op = "rm" -> Removed(cmd.o, "none")
      [] cmd.op \in {"start", "stop"} -> <<Rq("status", cmd.o, "none", FALSE)>>
      [] cmd.op = "create" -> <<Rq("create", cmd.o, "none", FALSE)>>
      [] cmd.op = "run" -> RunRequests(cmd.o)
      [] cmd.op = "patch" -> PatchRequests(cmd.o)
      [] cmd.op = "nscreate" -> <<SpaceRq("nscreate", cmd.o, FALSE)>>
      [] cmd.op = "nsrm" -> NamespaceRmRequests(cmd.o)

-----------------------------------------------------------------------------
Active == {c \in Clients : act[c] # None}

(* A command begins.  It is alone if no other runs and no task is pending. *)
Begin(c, cmd) ==
    LET alone == Active = {} /\ \A o \in Objects : pend[o] = <<>> IN
    /\ act[c] = None /\ left.n > 0
    /\ act' = [d \in Clients |->
          CASE d = c -> [st |-> "run", cmd |-> cmd, todo |-> Requests(cmd), alone |-> alone]
            [] act[d] # None -> [act[d] EXCEPT !.alone = FALSE]
            [] OTHER -> None]
    /\ solo' = IF alone /\ faults = 0
               THEN [st |-> "run", cmd |-> cmd, before |-> obj, res |-> "none", idle |-> {}] ELSE None
    /\ left' = [left EXCEPT !.n = @ - 1]
    /\ UNCHANGED apiVars

Now(c, rqs) == act[c] # None /\ act[c].todo # <<>> /\ Head(act[c].todo).rq \in rqs
This(c) == Head(act[c].todo)
Rest(c) == Tail(act[c].todo)

Then(c, more) == act' = [act EXCEPT ![c].todo = more \o Rest(c)]

End(c, res) ==
    /\ act' = [act EXCEPT ![c] = None]
    /\ solo' = IF solo = None THEN None ELSE [solo EXCEPT !.res = res]

(* An error ends the command, or is printed and the next object is taken.  *)
(* In a removal, one while waiting ends the removal of the objects of a    *)
(* kind, which is all of "rm"; state apply and state rm go on.             *)
Skip(c, objs) ==
    LET keep == {i \in DOMAIN act[c].todo :
                    LET q == act[c].todo[i] IN q.soft /\ q.f = This(c).f => q.o \notin objs}
    IN  /\ act' = [act EXCEPT ![c].todo = IF keep = {} THEN <<>> ELSE SubSeq(@, Min(keep), Len(@))]
        /\ UNCHANGED solo

Refused(c) ==
    LET r == This(c)
        printed == r.rq \notin {"sub", "wait"} \/ (r.rq = "wait" /\ act[c].cmd.op \in {"start", "stop"})
    IN  CASE r.soft /\ printed -> Skip(c, {r.o})
          [] r.soft /\ ~printed /\ r.f # "none" -> Skip(c, {o \in Objects : Kind[o] = Kind[r.o]})
          [] OTHER -> End(c, "err")

Finish(c) ==
    /\ act[c] # None /\ act[c].todo = <<>>
    /\ End(c, "ok")
    /\ UNCHANGED <<apiVars, left>>

(* The files are read and their templates rendered, all before any change  *)
(* but that a file's namespace is created when it is rendered, after that  *)
(* of the file that includes it.                                           *)
Read(c) ==
    LET f == This(c).f IN
    /\ Now(c, {"read"})
    /\ \E T \in SUBSET Tree(f) :
          /\ \A g \in Tree(f), h \in T : h \in ToSet(File[g].subs) => g \in T
          /\ Tree(f) \cap Bad = {} => T = Tree(f)
          /\ f \notin Bad => f \in T
          /\ spaces' = spaces \cup {File[g].space : g \in T}
    /\ IF Tree(f) \cap Bad = {} THEN Then(c, <<>>) /\ UNCHANGED solo ELSE End(c, "err")
    /\ UNCHANGED <<obj, pend, watch, faults, left>>

(* remove_orphans: what is removed are the orphans, and the jobs of the    *)
(* file, which the copy of the file still lists.  The four lists are one   *)
(* step.                                                                   *)
List(c) ==
    LET f == This(c).f
        names == [k \in Kinds |-> IF k = "job" THEN Entries(f, k)
                                  ELSE SetToSeq({o \in OrphansOf(f) : Kind[o] = k})]
    IN  /\ Now(c, {"list"})
        /\ Then(c, RemoveAll(f, names))
        /\ UNCHANGED <<apiVars, solo, left>>

SpecOf(c) == IF This(c).f = "none" THEN act[c].cmd.spec ELSE File[This(c).f].spec[This(c).o]
GroupOf(c, o) == IF This(c).f = "none" THEN (IF There(o) THEN obj[o].group ELSE "none")
                 ELSE File[This(c).f].group

(* A vm's specification names its own snapshot: it is never the file's.    *)
Differs(c, o) ==
    \/ Kind[o] = "vm"
    \/ obj[o].spec # SpecOf(c) \/ obj[o].group # GroupOf(c, o)
    \/ act[c].cmd.reload /\ Kind[o] # "secret"

(* What apply does about an object depends on what the daemon has.  A      *)
(* cargo that is as the file says is left alone, running or not.           *)
Inspect(c) ==
    LET o == This(c).o
        f == This(c).f
        more == CASE Kind[o] = "job" ->
                        (IF There(o) THEN Awaited(o, f, FALSE, "destroy", "delete") ELSE <<>>) \o Made(o, f)
                  [] ~There(o) -> IF o \in Processes THEN Made(o, f) ELSE <<Rq("create", o, f, FALSE)>>
                  [] There(o) /\ Differs(c, o) ->
                        IF o \in Processes THEN Awaited(o, f, FALSE, "start", "put") ELSE <<Rq("put", o, f, FALSE)>>
                  [] OTHER -> <<>>
    IN  /\ Now(c, {"inspect"})
        /\ Then(c, more)
        /\ solo' = IF solo # None /\ more = <<>> THEN [solo EXCEPT !.idle = @ \cup {o}] ELSE solo
        /\ UNCHANGED <<apiVars, left>>

(* start and stop look at the status first.                                *)
Status(c) ==
    LET o == This(c).o
        op == act[c].cmd.op
    IN  /\ Now(c, {"status"})
        /\ IF ~There(o) THEN End(c, "err")
           ELSE /\ Then(c, IF obj[o].status = op THEN <<>> ELSE Awaited(o, "none", TRUE, op, op))
                /\ UNCHANGED solo
        /\ UNCHANGED <<apiVars, left>>

Watch(c) ==
    /\ Now(c, {"sub"})
    /\ Subscribe(c, This(c).o, This(c).kind, This(c).ev)
    /\ Then(c, <<>>)
    /\ UNCHANGED <<obj, spaces, pend, faults, solo, left>>

(* Which object a deletion reaches: that of a vm is sent without its       *)
(* namespace, and reaches the vm of that name in "global".                 *)
Reached(o) == IF Kind[o] = "vm" THEN GlobalVm[o] ELSE o

Writes == {"create", "start", "stop", "put", "delete", "nscreate", "nsclear", "nsdrop"}

Accepted(c) ==
    LET o == This(c).o
        n == This(c).kind
    IN  CASE This(c).rq = "create" -> CanCreate(o)
          [] This(c).rq \in {"start", "stop", "put"} -> There(o)
          [] This(c).rq = "delete" ->
                IF Reached(o) \in Objects THEN CanDelete(Reached(o), act[c].cmd.force) ELSE FALSE
          [] This(c).rq = "nscreate" -> n \notin spaces
          [] This(c).rq = "nsclear" -> CanClear(n)
          [] This(c).rq = "nsdrop" -> CanDrop(n)

Write(c) ==
    LET o == This(c).o
        n == This(c).kind
    IN  /\ Now(c, Writes) /\ Accepted(c)
        /\ CASE This(c).rq = "create" -> Create(o, SpecOf(c), GroupOf(c, o))
             [] This(c).rq = "start" -> Start(o)
             [] This(c).rq = "stop" -> Stop(o)
             [] This(c).rq = "put" -> Put(o, SpecOf(c), GroupOf(c, o))
             [] This(c).rq = "delete" -> Delete(Reached(o))
             [] This(c).rq = "nsclear" -> NsClear(n)
             [] OTHER -> UNCHANGED <<obj, pend>>
        /\ spaces' = CASE This(c).rq = "nscreate" -> spaces \cup {n}
                       [] This(c).rq = "nsdrop" -> spaces \ {n}
                       [] OTHER -> spaces
        /\ Then(c, <<>>)
        /\ UNCHANGED <<watch, faults, solo, left>>

(* A namespace that is not cleared has some of its cargoes destroyed.      *)
WriteRefused(c) ==
    /\ Now(c, Writes) /\ ~Accepted(c)
    /\ IF This(c).rq = "nsclear" /\ This(c).kind \in spaces THEN NsClear(This(c).kind) ELSE UNCHANGED <<obj, pend>>
    /\ Refused(c)
    /\ UNCHANGED <<spaces, watch, faults, left>>

(* The answer: the first event that fitted.                                *)
Wait(c) ==
    /\ Now(c, {"wait"}) /\ watch[c].got # "no"
    /\ IF watch[c].got = "ok" THEN Then(c, <<>>) /\ UNCHANGED solo ELSE Refused(c)
    /\ watch' = [watch EXCEPT ![c] = Quiet]
    /\ UNCHANGED <<obj, spaces, pend, faults, left>>

(* A request that fails: apply takes an object it cannot inspect for one   *)
(* that is not there.                                                      *)
Fails(c) ==
    /\ act[c] # None /\ act[c].todo # <<>> /\ faults > 0 /\ ~Now(c, {"wait", "read"})
    /\ IF Now(c, {"inspect"})
       THEN /\ Then(c, IF This(c).o \in Processes THEN Made(This(c).o, This(c).f)
                       ELSE <<Rq("create", This(c).o, This(c).f, FALSE)>>)
            /\ UNCHANGED solo
       ELSE Refused(c)
    /\ faults' = faults - 1
    /\ UNCHANGED <<obj, spaces, pend, watch, left>>

-----------------------------------------------------------------------------
ClientStep(c) ==
    \/ Finish(c) \/ Read(c) \/ List(c) \/ Inspect(c) \/ Status(c) \/ Watch(c)
    \/ Write(c) \/ WriteRefused(c) \/ Wait(c)

(* A failed update is told to nobody who waits for it.                     *)
TaskStep(o) ==
    /\ Task(o) \/ Abort(o)
    /\ act' = IF pend[o] # <<>> /\ Head(pend[o]) = "update" /\ faults' # faults
              THEN [c \in Clients |-> IF act[c] = None THEN None ELSE [act[c] EXCEPT !.alone = FALSE]]
              ELSE act
    /\ UNCHANGED <<solo, left>>

Next ==
    \/ \E c \in Clients : \E cmd \in left.cmds : Begin(c, cmd)
    \/ \E c \in Clients : ClientStep(c) \/ Fails(c)
    \/ \E o \in Objects : TaskStep(o)

Spec == Init /\ [][Next]_vars

-----------------------------------------------------------------------------
(* What a command that ended well has done, given the objects before it:   *)
(* apply makes the objects of its files what the files say and removes the *)
(* orphans of their sections, rm removes, and no other object is touched.  *)
(* The vms of other namespaces than "global" are left out.                 *)
Owner(cmd, o) == CHOOSE f \in Tree(cmd.f) : o \in Members(f)
Named(cmd) ==
    IF cmd.op \in {"apply", "staterm"} THEN UNION {Members(f) : f \in Tree(cmd.f)} ELSE {cmd.o} \cap Objects

Orphan(cmd, before, o) ==
    /\ cmd.op = "apply" /\ cmd.orphans /\ before[o] # None /\ Kind[o] # "job"
    /\ \E f \in Tree(cmd.f) : /\ before[o].group = File[f].group /\ Has(f, Kind[o])
                              /\ Space[o] \in {"none", File[f].space}

IsAs(o, spec, group, status) ==
    There(o) /\ obj[o].spec = spec /\ obj[o].group = group /\ (o \in Processes => obj[o].status = status)

Outcome(cmd, before, idle, o) ==
    CASE cmd.op = "apply" /\ o \in Named(cmd) ->
            IsAs(o, File[Owner(cmd, o)].spec[o], File[Owner(cmd, o)].group,
                 IF o \in idle THEN before[o].status ELSE "start")
      [] cmd.op \in {"staterm", "rm"} /\ o \in Named(cmd) ->
            ~There(o) \/ (cmd.op = "rm" /\ obj[o] = before[o] /\ obj[o].status = "start")
      [] cmd.op \in {"start", "stop"} /\ o = cmd.o -> There(o) /\ obj[o].status = cmd.op
      [] cmd.op \in {"run", "patch"} /\ o = cmd.o -> There(o) /\ obj[o].spec = cmd.spec /\ obj[o].status = "start"
      [] cmd.op = "create" /\ o = cmd.o -> There(o) /\ obj[o].spec = cmd.spec
      [] cmd.op = "nsrm" /\ before[o] # None /\ Space[o] = cmd.o ->
            IF There(o) THEN obj[o].status = "destroying" \/ (cmd.o \in spaces /\ obj[o] = before[o])
            ELSE Kind[o] = "cargo" /\ before[o].status # "start"
      [] Orphan(cmd, before, o) -> ~There(o)
      [] OTHER -> obj[o] = before[o]

Scoped(cmd) == \A o \in Named(cmd) : Kind[o] = "vm" => Reached(o) = o

(* A command that nothing disturbs does what it says, or, if it ends with  *)
(* an error, nothing: the files are all read before anything is changed.   *)
DoesWhatItSays ==
    (IF solo = None THEN FALSE ELSE Scoped(solo.cmd)) =>
        /\ solo.res = "ok" => \A o \in Objects : Outcome(solo.cmd, solo.before, solo.idle, o)
        /\ solo.res = "err" => obj = solo.before

(* No command waits for ever: when no task is left to end, the event it    *)
(* waits for has come.  It need not when an other command ran beside it or *)
(* an update failed; for a vm of a Statefile that is there already, and    *)
(* one of an other namespace that is deleted, it does not.                 *)
Deaf(c) ==
    \/ ~act[c].alone
    \/ watch[c].o # "none" /\ watch[c].kind # Kind[watch[c].o]
    \/ watch[c].ev = "destroy" /\ Reached(watch[c].o) # watch[c].o

WaitsEnd ==
    (\A o \in Objects : pend[o] = <<>>) =>
        \A c \in Clients : IF Now(c, {"wait"}) THEN watch[c].got # "no" \/ Deaf(c) ELSE TRUE

=============================================================================
