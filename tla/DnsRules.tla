------------------------------ MODULE DnsRules ------------------------------
(***************************************************************************)
(* ncdns: the controller that turns dns rules into dnsmasq files, one per  *)
(* network, and restarts the ndns cargo after every change.                *)
(***************************************************************************)
EXTENDS Naturals, FiniteSets

CONSTANTS
    Conns,       (* connections of nanocld to the controller                 *)
    DnsNames,    (* names of dns resources                                   *)
    KindOf,      (* the kind of every resource                               *)
    Nets,        (* networks                                                 *)
    Listed       (* the kind update_entries asks nanocld for: "DnsRule"      *)

VARIABLES
    res, specs, call, scope,   (* see Resources                              *)
    file,       (* the entries in the file of each network, or NoConf        *)
    running,    (* the files dnsmasq was started with                        *)
    dns,        (* rule operations in progress                               *)
    dfailed,    (* history: some operation failed                            *)
    dleft       (* budget                                                    *)

dvars == <<file, running, dns, dfailed, dleft>>

None == [st |-> "none"]
NoConf == [st |-> "absent"]

DInit ==
    /\ file = [t \in Nets |-> NoConf]
    /\ running = file
    /\ dns = [k \in Conns |-> None]
    /\ dfailed = FALSE
    /\ dleft = scope.fails

-----------------------------------------------------------------------------
Reply(k, st) ==
    /\ call' = [call EXCEPT ![k] = IF @.st = "lost" THEN None ELSE [@ EXCEPT !.st = st]]
    /\ dns' = [dns EXCEPT ![k] = None]

Fail(k) == Reply(k, "err") /\ dfailed' = TRUE

(* The other rules of the network, as nanocld lists them by kind.          *)
Siblings(n, t) ==
    {m \in DnsNames \ {n} : res[m] # 0 /\ KindOf[m] = Listed /\ specs[res[m]].data.net = t}

(* update_entries: the rule's entries and its siblings'.                   *)
DnsApply(k) ==
    LET n == call[k].key
        t == call[k].data.net
        entries == call[k].data.names \cup UNION {specs[res[m]].data.names : m \in Siblings(n, t)}
    IN  /\ call[k] # None /\ call[k].st = "sent" /\ call[k].key \in DnsNames
        /\ call[k].verb = "add" /\ dns[k] = None
        /\ IF call[k].data.bad
           THEN Fail(k)
           ELSE /\ dns' = [dns EXCEPT ![k] = [st |-> "write", net |-> t, names |-> entries]]
                /\ UNCHANGED <<call, dfailed>>
        /\ UNCHANGED <<file, running, dleft>>

(* remove_entries: the rule is read from nanocld and its entries dropped   *)
(* from the file.  The file is never removed: its first line is not in     *)
(* what the emptied file is compared with.                                 *)
DnsRemove(k) ==
    LET n == call[k].key
        t == specs[res[n]].data.net
    IN  /\ call[k] # None /\ call[k].st = "sent" /\ call[k].key \in DnsNames
        /\ call[k].verb = "del" /\ dns[k] = None
        /\ IF res[n] = 0 \/ file[t] = NoConf
           THEN Fail(k)
           ELSE /\ dns' = [dns EXCEPT ![k] =
                    [st |-> "write", net |-> t, names |-> file[t].names \ specs[res[n]].data.names]]
                /\ UNCHANGED <<call, dfailed>>
        /\ UNCHANGED <<file, running, dleft>>

DnsWrite(k) ==
    /\ dns[k].st = "write"
    /\ file' = [file EXCEPT ![dns[k].net] = [st |-> "file", names |-> dns[k].names]]
    /\ dns' = [dns EXCEPT ![k].st = "restart"]
    /\ UNCHANGED <<call, running, dfailed, dleft>>

(* Mutant: the restart is skipped for a file that exists already.          *)
DnsRestartNew(k) ==
    /\ dns[k].st = "restart"
    /\ running' = IF running[dns[k].net] = NoConf THEN file ELSE running
    /\ Reply(k, "ok")
    /\ UNCHANGED <<file, dfailed, dleft>>

(* reload_service restarts the cargo: dnsmasq reads every file.            *)
DnsRestart(k) ==
    /\ dns[k].st = "restart"
    /\ running' = file
    /\ Reply(k, "ok")
    /\ UNCHANGED <<file, dfailed, dleft>>

(* A call to nanocld or a file operation fails.                            *)
DnsFails(k) ==
    /\ dns[k] # None /\ dleft > 0
    /\ Fail(k)
    /\ dleft' = dleft - 1
    /\ UNCHANGED <<file, running>>

DNext ==
    \E k \in Conns : DnsApply(k) \/ DnsRemove(k) \/ DnsWrite(k) \/ DnsRestart(k) \/ DnsFails(k)

-----------------------------------------------------------------------------
(* When ncdns is idle and nothing failed, dnsmasq runs with the files on   *)
(* disk, however operations on the same network interleaved.               *)
DnsAtRest == (\A k \in Conns : dns[k] = None) /\ ~dfailed => running = file
=============================================================================
