------------------------------ MODULE ObjectApi ------------------------------
(***************************************************************************)
(* nanocld as its clients see it.  A request reads or writes an object's   *)
(* row and status and answers at once; what a started, stopped, updated or *)
(* deleted process really becomes is the work of a background task, done   *)
(* in the order of the requests, and told by an event.  A client that      *)
(* wants to know subscribes to the event before it makes the request.      *)
(* What a task does is modelled in CargoLifecycle, JobLifecycle and        *)
(* VmLifecycle; here it succeeds or fails.                                 *)
(***************************************************************************)
EXTENDS Naturals, Sequences, FiniteSets

CONSTANTS
    Objects,     (* the names clients use, each of one kind                  *)
    Kind,        (* [Objects -> Kinds]                                       *)
    Space,       (* the namespace of a name; "none" if its kind has none     *)
    Specs,       (* what a specification can say                             *)
    Groups,      (* values of the label io.nanocl.group                      *)
    Clients      (* runs of the command line                                 *)

Kinds == {"secret", "job", "cargo", "vm", "resource"}
Processes == {o \in Objects : Kind[o] \in {"job", "cargo", "vm"}}
None == [st |-> "none"]
Quiet == [o |-> "none", kind |-> "none", ev |-> "none", got |-> "no"]

ASSUME ApiAssumption ==
    /\ Kind \in [Objects -> Kinds]
    /\ "none" \notin Groups

VARIABLES
    obj,     (* rows with their specs and actual statuses                    *)
    spaces,  (* namespaces                                                   *)
    pend,    (* per object, the tasks asked for and not finished             *)
    watch,   (* per client, the event it waits for, and what came            *)
    faults   (* how many tasks and requests may still fail                   *)

apiVars == <<obj, spaces, pend, watch, faults>>

ApiInit(sps, n) ==
    /\ obj = [o \in Objects |-> None]
    /\ spaces = sps
    /\ pend = [o \in Objects |-> <<>>]
    /\ watch = [c \in Clients |-> Quiet]
    /\ faults = n

There(o) == obj[o] # None

(* Whom an event reaches: the key, the kind and the action are compared.   *)
(* The first event that fits ends the subscription.                        *)
Tell(o, ev, ok) ==
    watch' = [c \in Clients |->
        IF watch[c] = [o |-> o, kind |-> Kind[o], ev |-> ev, got |-> "no"]
        THEN [watch[c] EXCEPT !.got = IF ok THEN "ok" ELSE "err"] ELSE watch[c]]

Subscribe(c, o, kind, ev) ==
    watch' = [watch EXCEPT ![c] = [o |-> o, kind |-> kind, ev |-> ev, got |-> "no"]]

-----------------------------------------------------------------------------
(* Requests: what each does when it is accepted, and when it is.           *)
Ask(o, task, actual) ==
    /\ obj' = [obj EXCEPT ![o].status = actual]
    /\ pend' = [pend EXCEPT ![o] = Append(@, task)]

(* The namespace of a row is a foreign key.                                *)
CanCreate(o) == ~There(o) /\ Space[o] \in spaces \cup {"none"}

Create(o, spec, group) ==
    /\ obj' = [obj EXCEPT ![o] = [st |-> "row", spec |-> spec, group |-> group, status |-> "create"]]
    /\ UNCHANGED pend

Start(o) == Ask(o, "start", "starting")

(* A stopped process is not stopped again, and nothing is told.            *)
Stop(o) ==
    IF obj[o].status = "stop" THEN UNCHANGED <<obj, pend>> ELSE Ask(o, "stop", "stopping")

Put(o, spec, group) ==
    /\ obj' = [obj EXCEPT ![o].spec = spec, ![o].group = group,
                          ![o].status = IF o \in Processes THEN "updating" ELSE @]
    /\ pend' = IF o \in Processes THEN [pend EXCEPT ![o] = Append(@, "update")] ELSE pend

CanDelete(o, force) ==
    There(o) /\ (Kind[o] = "cargo" /\ ~force => obj[o].status # "start")

Delete(o) ==
    IF o \in Processes THEN Ask(o, "destroy", "destroying")
    ELSE obj' = [obj EXCEPT ![o] = None] /\ UNCHANGED pend

(* A namespace is deleted in two steps: the deletion of each of its cargoes *)
(* is asked for, which is refused if one is running, and then the row is   *)
(* deleted, which the database refuses as long as a row refers to it.      *)
CargoesIn(n) == {o \in Objects : Kind[o] = "cargo" /\ Space[o] = n /\ There(o)}

CanClear(n) == n \in spaces /\ \A o \in CargoesIn(n) : CanDelete(o, FALSE)

NsClear(n) ==
    LET asked == {o \in CargoesIn(n) : CanDelete(o, FALSE)} IN
    /\ obj' = [o \in Objects |-> IF o \in asked THEN [obj[o] EXCEPT !.status = "destroying"] ELSE obj[o]]
    /\ pend' = [o \in Objects |-> IF o \in asked THEN Append(pend[o], "destroy") ELSE pend[o]]

CanDrop(n) == n \in spaces /\ \A o \in Objects : There(o) => Space[o] # n

-----------------------------------------------------------------------------
(* A task ends.  One whose object is gone fails, and its failure is told   *)
(* to nobody: the status it would be written to is gone too.  A failed     *)
(* update is told as "update", which is not what a client waits for.       *)
Task(o) ==
    LET t == Head(pend[o])
        told == CASE t = "start" -> "start" [] t = "stop" -> "stop" [] t = "destroy" -> "destroy"
                  [] t = "update" -> "start"
        became == IF t = "destroy" THEN None
                  ELSE [obj[o] EXCEPT !.status = told]
    IN  /\ pend[o] # <<>>
        /\ pend' = [pend EXCEPT ![o] = Tail(@)]
        /\ UNCHANGED spaces
        /\ IF There(o)
           THEN \/ obj' = [obj EXCEPT ![o] = became] /\ Tell(o, told, TRUE) /\ UNCHANGED faults
                \/ /\ faults > 0
                   /\ faults' = faults - 1
                   /\ obj' = [obj EXCEPT ![o].status = "fail"]
                   /\ Tell(o, t, FALSE)
           ELSE UNCHANGED <<obj, watch, faults>>

(* The deletion of a job aborts the task that starts it.                   *)
Abort(o) ==
    /\ Kind[o] = "job" /\ Len(pend[o]) > 1 /\ pend[o][2] = "destroy"
    /\ pend' = [pend EXCEPT ![o] = Tail(@)]
    /\ UNCHANGED <<obj, spaces, watch, faults>>
=============================================================================
