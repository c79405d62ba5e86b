----------------------------- MODULE RawEmitter -----------------------------
(***************************************************************************)
(* RawEventEmitter: the list of HTTP clients that watch nanocld's events.  *)
(*                                                                         *)
(* Three threads share the list behind one mutex.  The event loop's        *)
(* arbiter calls emit, which copies the list in a first critical section,  *)
(* sends, and replaces the list in a second one; a pool thread pushes new  *)
(* subscribers; another arbiter pings everybody every 10s and drops those  *)
(* it cannot send to.                                                      *)
(***************************************************************************)
EXTENDS Naturals, Integers, Sequences, FiniteSets

CONSTANTS
    Subs,         (* subscriptions: each is made at most once                *)
    Kinds,        (* what a condition can tell apart in an event             *)
    Wants,        (* the condition lists clients subscribe with              *)
    Cap,          (* capacity of the channel of a client (100 in the code)   *)
    MaxEvents     (* bound: events emitted                                   *)

ASSUME EmitterAssumption ==
    /\ Wants \subseteq Seq(Kinds)
    /\ Cap \in Nat \ {0}
    /\ MaxEvents \in Nat

Out == -1        (* not in the list                                          *)
Ping == 0        (* the empty message of check_connection                    *)

VARIABLES
    log,     (* history: the kinds of the events emitted, the n-th is event n *)
    reg,     (* inner.clients: the conditions met so far of each client       *)
    em,      (* emit between its critical sections: the event and the copy    *)
    sub,     (* of each subscription: new, on, or gone (receiver dropped)     *)
    want,    (* its conditions                                                *)
    buf,     (* its channel                                                   *)
    got,     (* history: the events its receiver was given                    *)
    ended    (* history: emit dropped it because its conditions were met      *)

emitterVars == <<log, reg, em, sub, want, buf, got, ended>>

Idle == [n |-> 0]

(* Every variable keeps its type, and no channel outgrows its capacity.    *)
TypeOK ==
    /\ log \in Seq(Kinds)
    /\ reg \in [Subs -> {Out} \cup Nat]
    /\ em \in {Idle} \cup [n : Nat \ {0}, reg : [Subs -> {Out} \cup Nat]]
    /\ em # Idle => em.n = Len(log)
    /\ sub \in [Subs -> {"new", "on", "gone"}]
    /\ want \in [Subs -> Wants]
    /\ buf \in [Subs -> Seq(Nat)]
    /\ \A s \in Subs : Len(buf[s]) <= Cap
    /\ ended \in [Subs -> BOOLEAN]

EmitterInit ==
    /\ log = <<>>
    /\ reg = [s \in Subs |-> Out]
    /\ em = Idle
    /\ sub = [s \in Subs |-> "new"]
    /\ want \in [Subs -> Wants]
    /\ buf = [s \in Subs |-> <<>>]
    /\ got = [s \in Subs |-> <<>>]
    /\ ended = [s \in Subs |-> FALSE]

(* try_send succeeds: the receiver is there and its channel has room.      *)
CanSend(s) == sub[s] = "on" /\ Len(buf[s]) < Cap

(* Mutant: a full channel takes one message more.                          *)
SentUnbounded(S, m) ==
    [s \in Subs |-> IF s \in S /\ sub[s] = "on" THEN Append(buf[s], m) ELSE buf[s]]

(* The channels after m was sent to the clients S; failures are ignored.   *)
Sent(S, m) == [s \in Subs |-> IF s \in S /\ CanSend(s) THEN Append(buf[s], m) ELSE buf[s]]

-----------------------------------------------------------------------------
Subscribe(s) ==
    /\ sub[s] = "new"
    /\ sub' = [sub EXCEPT ![s] = "on"]
    /\ reg' = [reg EXCEPT ![s] = 0]
    /\ UNCHANGED <<log, em, want, buf, got, ended>>

(* The first critical section of emit.                                     *)
EmitCopy(k) ==
    /\ em = Idle
    /\ Len(log) < MaxEvents
    /\ log' = Append(log, k)
    /\ em' = [n |-> Len(log) + 1, reg |-> reg]
    /\ UNCHANGED <<reg, sub, want, buf, got, ended>>

(* EventCondition::eq and the count kept per client: any condition of the  *)
(* list that matches adds one.                                             *)
Met(s) ==
    em.reg[s] + (IF \E i \in DOMAIN want[s] : want[s][i] = log[em.n] THEN 1 ELSE 0)

(* Mutant: a client with conditions is dropped at the first event.         *)
EmitWriteDropsEarly ==
    /\ em # Idle
    /\ LET copied == {s \in Subs : em.reg[s] # Out} IN
        /\ buf' = Sent(copied, em.n)
        /\ reg' = [s \in Subs |->
                    IF s \in copied /\ want[s] = <<>> THEN em.reg[s] ELSE Out]
        /\ UNCHANGED ended
    /\ em' = Idle
    /\ UNCHANGED <<log, sub, want, got>>

(* Sending, then the second critical section: the list becomes what was    *)
(* copied, less the clients whose count reached the number of conditions.  *)
EmitWrite ==
    /\ em # Idle
    /\ LET copied == {s \in Subs : em.reg[s] # Out}
           over == {s \in copied : want[s] # <<>> /\ Met(s) = Len(want[s])}
       IN  /\ buf' = Sent(copied, em.n)
           /\ reg' = [s \in Subs |->
                        IF s \notin copied \/ s \in over THEN Out
                        ELSE IF want[s] = <<>> THEN em.reg[s] ELSE Met(s)]
           /\ ended' = [s \in Subs |-> ended[s] \/ s \in over]
    /\ em' = Idle
    /\ UNCHANGED <<log, sub, want, got>>

(* Mutant: a failed ping is ignored.                                       *)
CheckKeepsAll ==
    /\ buf' = Sent({s \in Subs : reg[s] # Out}, Ping)
    /\ buf' # buf
    /\ UNCHANGED <<log, reg, em, sub, want, got, ended>>

(* check_connection, under the lock from end to end.                       *)
CheckConnection ==
    LET listed == {s \in Subs : reg[s] # Out} IN
    /\ listed # {}
    /\ buf' = Sent(listed, Ping)
    /\ reg' = [s \in Subs |-> IF CanSend(s) THEN reg[s] ELSE Out]
    /\ UNCHANGED <<log, em, sub, want, got, ended>>

(* RawEventReceiver::poll_next, and a client that goes away.               *)
Receive(s) ==
    /\ sub[s] = "on"
    /\ buf[s] # <<>>
    /\ buf' = [buf EXCEPT ![s] = Tail(@)]
    /\ got' = [got EXCEPT ![s] = IF Head(buf[s]) = Ping THEN @ ELSE Append(@, Head(buf[s]))]
    /\ UNCHANGED <<log, reg, em, sub, want, ended>>

Disconnect(s) ==
    /\ sub[s] = "on"
    /\ sub' = [sub EXCEPT ![s] = "gone"]
    /\ buf' = [buf EXCEPT ![s] = <<>>]
    /\ UNCHANGED <<log, reg, em, want, got, ended>>

EmitterNext ==
    \/ \E s \in Subs : Subscribe(s) \/ Receive(s) \/ Disconnect(s)
    \/ \E k \in Kinds : EmitCopy(k)
    \/ EmitWrite
    \/ CheckConnection

EmitterSpec == EmitterInit /\ [][EmitterNext]_emitterVars

(* An emit that began ends; the pings go on.                               *)
FairSpec == EmitterSpec /\ WF_emitterVars(EmitWrite) /\ WF_emitterVars(CheckConnection)

-----------------------------------------------------------------------------
(* The only clients that leave the list are those that went away, have a   *)
(* full channel when pinged, saw their conditions met, or subscribed while *)
(* an emit was between its two critical sections.                          *)
KeepsClients ==
    [][\A s \in Subs : reg[s] # Out /\ reg'[s] = Out =>
        \/ sub[s] = "gone"
        \/ Len(buf[s]) = Cap
        \/ ended'[s]
        \/ em # Idle /\ em.reg[s] = Out]_emitterVars

(* A client that went away leaves the list, although an emit in progress   *)
(* puts back whoever check_connection removed.                             *)
GhostsLeave == \A s \in Subs : (sub[s] = "gone") ~> (reg[s] = Out)

=============================================================================
