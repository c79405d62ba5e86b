----------------------------- MODULE ProxyRules -----------------------------
(***************************************************************************)
(* ncproxy: the controller that turns proxy rules into nginx files.        *)
(*                                                                         *)
(* Rules are applied by nanocld's calls and by the event loop, which       *)
(* rewrites the rules of a cargo or a secret when it changes.  Both run in *)
(* one process without a lock: every file operation and every call is an   *)
(* await at which another may run.  Reloads are delayed by 750ms and a new *)
(* one replaces the pending one.                                           *)
(***************************************************************************)
EXTENDS Naturals, Sequences, FiniteSets

CONSTANTS
    Conns,        (* connections of nanocld to the controller                *)
    Rules         (* names of proxy resources                                *)

VARIABLES
    res, specs, req, call, calm, scope,    (* see Resources                  *)
    site, stream,   (* the two files of a rule: available and enabled        *)
    up,             (* the upstream files, of sites and of streams           *)
    fresh,          (* nginx runs with the files as they are                 *)
    op,             (* add_rule and del_rule in progress                     *)
    reload,         (* the reload task                                       *)
    sent,           (* reload events not yet handled by SystemEvent          *)
    loop,           (* the event loop                                        *)
    evq,            (* nanocld events it has not read                        *)
    addr, secret,   (* nanocld: the cargo's addresses, 0 none; the secret    *)
    undone,         (* history: some operation failed                        *)
    pleft           (* budgets                                               *)

pvars == <<site, stream, up, fresh, op, reload, sent, loop, evq, addr, secret, undone, pleft>>

None == [st |-> "none"]
Slots == Conns \cup Rules
Files == {"site", "stream"}

(* A file: its text in *-available (whether nginx rejects it, the upstream *)
(* it names, the part it was made from) and its link in *-enabled.         *)
NoFile == [text |-> None, link |-> FALSE]

Enabled == {f \in {site[r] : r \in Rules} \cup {stream[r] : r \in Rules} : f.link}

(* nginx -t: a link to nothing is refused too.                             *)
Accepts ==
    \A f \in Enabled : f.text # None /\ ~f.text.bad /\ \A u \in f.text.up : up[u] # 0

PInit ==
    /\ site = [r \in Rules |-> NoFile]
    /\ stream = [r \in Rules |-> NoFile]
    /\ up = [u \in Files |-> 0]
    /\ fresh = TRUE
    /\ op = [x \in Slots |-> None]
    /\ reload = "none"
    /\ sent = 0
    /\ loop = [st |-> "off"]
    /\ evq = <<>>
    /\ addr = 1
    /\ secret = FALSE
    /\ undone = FALSE
    /\ pleft = [fails |-> scope.fails, cuts |-> scope.cuts, changes |-> scope.changes, cut |-> FALSE]

-----------------------------------------------------------------------------
(* A rule's data says which files it makes: "no", "ok", "bad" (nginx       *)
(* rejects the text) or "ssl" (it needs the secret).                       *)
HttpRules == {"no", "ok", "bad"}
StreamRules == {"no", "ok", "bad", "ssl"}
RuleData == [site : HttpRules, stream : StreamRules, bad : BOOLEAN]

(* The loop of add_rule over a rule's parts.  A stream whose upstream has  *)
(* no address, or whose secret is missing, is skipped; a site is written   *)
(* without that location, or without its upstreams.                        *)
UpstreamOf(part) == part # "no" /\ addr # 0

Secured(part) == part # "ssl" \/ secret

StreamText(data) ==
    IF ~UpstreamOf(data.stream) \/ ~Secured(data.stream) THEN None
    ELSE [bad |-> data.stream = "bad", up |-> {"stream"}, of |-> data.stream]

SiteText(data) ==
    IF data.site = "no" THEN None
    ELSE [bad |-> data.site = "bad", of |-> data.site,
          up |-> IF UpstreamOf(data.site) THEN {"site"} ELSE {}]

Upstreams(data) == {u \in Files : UpstreamOf(data[u])}

Working(x, pc) == op[x] # None /\ op[x].pc = pc

Step(x, pc) == op' = [op EXCEPT ![x].pc = pc]

NewOp(verb, r, data) == [st |-> "run", verb |-> verb, rule |-> r, data |-> data,
                         pc |-> IF verb = "add" THEN "gen" ELSE "rm1",
                         up |-> {}, addr |-> 0, site |-> None, stream |-> None]

(* services/rule: a call of nanocld is taken.                              *)
Take(k) ==
    /\ call[k] # None /\ call[k].st = "sent" /\ call[k].key \in Rules /\ op[k] = None
    /\ op' = [op EXCEPT ![k] = NewOp(call[k].verb, call[k].key, call[k].data)]
    /\ calm' = [calm EXCEPT ![call[k].key] = @ /\ op[call[k].key] = None]
    /\ UNCHANGED <<call, site, stream, up, fresh, reload, sent, loop, evq, addr, secret,
                   undone, pleft>>

(* A stream that is skipped leaves the one of an earlier version enabled.  *)
Outdated(x) ==
    LET part == op[x].data.stream
        text == stream[op[x].rule].text
    IN  part # "no" /\ StreamText(op[x].data) = None /\ text # None /\ text.of # part

(* get_network_addr, gen_upstream and gen_ssl_config ask nanocld.          *)
Gen(x) ==
    /\ Working(x, "gen")
    /\ op' = [op EXCEPT ![x].pc = "up", ![x].up = Upstreams(op[x].data), ![x].addr = addr,
                        ![x].site = SiteText(op[x].data), ![x].stream = StreamText(op[x].data)]
    /\ calm' = [calm EXCEPT ![op[x].rule] = @ /\ ~Outdated(x)]
    /\ UNCHANGED <<call, site, stream, up, fresh, reload, sent, loop, evq, addr, secret,
                   undone, pleft>>

GenFails(x) ==
    /\ Working(x, "gen") /\ pleft.fails > 0
    /\ Step(x, "err")
    /\ pleft' = [pleft EXCEPT !.fails = @ - 1]
    /\ UNCHANGED <<call, calm, site, stream, up, fresh, reload, sent, loop, evq, addr, secret,
                   undone>>

(* Mutant: the upstream of a stream is not written while its site has one. *)
WriteOneUpstream(x) ==
    /\ Working(x, "up")
    /\ up' = [u \in Files |-> IF u \in op[x].up /\ u = "site" THEN op[x].addr ELSE up[u]]
    /\ Step(x, "stream")
    /\ fresh' = FALSE
    /\ UNCHANGED <<call, calm, site, stream, reload, sent, loop, evq, addr, secret, undone, pleft>>

(* gen_upstream and gen_stream_upstream_key write what they were told.     *)
WriteUpstreams(x) ==
    /\ Working(x, "up")
    /\ up' = [u \in Files |-> IF u \in op[x].up THEN op[x].addr ELSE up[u]]
    /\ Step(x, "stream")
    /\ fresh' = FALSE
    /\ UNCHANGED <<call, calm, site, stream, reload, sent, loop, evq, addr, secret,
                   undone, pleft>>

(* write_conf_file, only of text that is not empty (the file an earlier    *)
(* version left is not touched): the file, then the link, which may exist. *)
WriteStream(x) ==
    LET r == op[x].rule IN
    /\ \/ Working(x, "stream") /\ op[x].stream = None
          /\ UNCHANGED stream /\ Step(x, "site")
       \/ Working(x, "stream") /\ op[x].stream # None
          /\ stream' = [stream EXCEPT ![r].text = op[x].stream] /\ Step(x, "link")
       \/ Working(x, "link")
          /\ stream' = [stream EXCEPT ![r].link = TRUE] /\ Step(x, "site")
    /\ fresh' = FALSE
    /\ UNCHANGED <<call, calm, site, up, reload, sent, loop, evq, addr, secret,
                   undone, pleft>>

WriteSite(x) ==
    LET r == op[x].rule IN
    /\ \/ Working(x, "site") /\ op[x].site = None
          /\ UNCHANGED site /\ Step(x, "test")
       \/ Working(x, "site") /\ op[x].site # None
          /\ site' = [site EXCEPT ![r].text = op[x].site] /\ Step(x, "enable")
       \/ Working(x, "enable")
          /\ site' = [site EXCEPT ![r].link = TRUE] /\ Step(x, "test")
    /\ fresh' = FALSE
    /\ UNCHANGED <<call, calm, stream, up, reload, sent, loop, evq, addr, secret,
                   undone, pleft>>

(* Mutant: a refused rule is left in place.                                *)
TestKeeps(x) ==
    /\ Working(x, "test")
    /\ Step(x, IF Accepts THEN "ok" ELSE "err")
    /\ UNCHANGED <<call, calm, site, stream, up, fresh, reload, sent, loop, evq, addr, secret,
                   undone, pleft>>

(* nginx -t, run by an exec in the nproxy cargo: it tests every file.      *)
Test(x) ==
    /\ Working(x, "test")
    /\ Step(x, IF Accepts THEN "ok" ELSE "rm1")
    /\ UNCHANGED <<call, calm, site, stream, up, fresh, reload, sent, loop, evq, addr, secret,
                   undone, pleft>>

TestFails(x) ==
    /\ Working(x, "test") /\ pleft.fails > 0
    /\ Step(x, "rm1")
    /\ pleft' = [pleft EXCEPT !.fails = @ - 1]
    /\ UNCHANGED <<call, calm, site, stream, up, fresh, reload, sent, loop, evq, addr, secret,
                   undone>>

(* del_rule: the site, then the stream; of each the file, then the link.   *)
Remove(x) ==
    LET r == op[x].rule IN
    /\ \/ Working(x, "rm1") /\ site' = [site EXCEPT ![r].text = None] /\ UNCHANGED stream
          /\ Step(x, "rm2")
       \/ Working(x, "rm2") /\ site' = [site EXCEPT ![r].link = FALSE] /\ UNCHANGED stream
          /\ Step(x, "rm3")
       \/ Working(x, "rm3") /\ stream' = [stream EXCEPT ![r].text = None] /\ UNCHANGED site
          /\ Step(x, "rm4")
       \/ Working(x, "rm4") /\ stream' = [stream EXCEPT ![r].link = FALSE] /\ UNCHANGED site
          /\ Step(x, IF op[x].verb = "add" THEN "err" ELSE "ok")
    /\ fresh' = FALSE
    /\ UNCHANGED <<call, calm, up, reload, sent, loop, evq, addr, secret, undone, pleft>>

(* Mutant: removing a rule asks for no reload.                             *)
AnswerQuietly(k) ==
    /\ Working(k, "ok") \/ Working(k, "err")
    /\ call' = [call EXCEPT ![k] = IF @.st = "lost" THEN None ELSE [@ EXCEPT !.st = op[k].pc]]
    /\ sent' = IF op[k].pc = "ok" /\ op[k].verb = "add" THEN sent + 1 ELSE sent
    /\ undone' = (undone \/ op[k].pc = "err")
    /\ op' = [op EXCEPT ![k] = None]
    /\ UNCHANGED <<calm, site, stream, up, fresh, reload, loop, evq, addr, secret, pleft>>

(* apply_rule and remove_rule return: a success emits a reload.            *)
Answer(k) ==
    /\ Working(k, "ok") \/ Working(k, "err")
    /\ call' = [call EXCEPT ![k] = IF @.st = "lost" THEN None ELSE [@ EXCEPT !.st = op[k].pc]]
    /\ sent' = IF op[k].pc = "ok" THEN sent + 1 ELSE sent
    /\ undone' = (undone \/ op[k].pc = "err")
    /\ op' = [op EXCEPT ![k] = None]
    /\ UNCHANGED <<calm, site, stream, up, fresh, reload, loop, evq, addr, secret, pleft>>

-----------------------------------------------------------------------------
(* SystemEvent::handle: abort the task that sleeps or runs, start another. *)
HandleReload ==
    /\ sent > 0
    /\ sent' = sent - 1
    /\ reload' = "sleep"
    /\ UNCHANGED <<call, calm, site, stream, up, fresh, op, loop, evq, addr, secret, undone, pleft>>

(* nginx -s reload: it refuses files it does not accept.                   *)
Reload ==
    /\ reload \in {"sleep", "exec"}
    /\ IF reload = "sleep" THEN reload' = "exec" /\ UNCHANGED <<fresh, undone>>
       ELSE /\ reload' = "none"
            /\ fresh' = (fresh \/ Accepts)
            /\ undone' = (undone \/ ~Accepts)
    /\ UNCHANGED <<call, calm, site, stream, up, op, sent, loop, evq, addr, secret, pleft>>

ReloadFails ==
    /\ reload = "exec" /\ pleft.fails > 0
    /\ reload' = "none"
    /\ undone' = TRUE
    /\ pleft' = [pleft EXCEPT !.fails = @ - 1]
    /\ UNCHANGED <<call, calm, site, stream, up, fresh, op, sent, loop, evq, addr, secret>>

-----------------------------------------------------------------------------
(* nanocld: the cargo behind the upstreams starts or stops, the secret is  *)
(* created.  The event reaches the loop only if it is subscribed.          *)
Change(ev) ==
    /\ pleft.changes > 0
    /\ pleft' = [pleft EXCEPT !.changes = @ - 1]
    /\ CASE ev = "update" -> addr' = scope.changes + 2 - pleft.changes /\ UNCHANGED secret
         [] ev = "delete" -> addr # 0 /\ addr' = 0 /\ UNCHANGED secret
         [] ev = "secret" -> ~secret /\ secret' = TRUE /\ UNCHANGED addr
    /\ evq' = IF loop.st = "off" THEN evq ELSE Append(evq, ev)
    /\ UNCHANGED <<call, calm, site, stream, up, fresh, op, reload, sent, loop, undone>>

(* loop: watch_events, ensure_self_config and ensure_conf, then the events *)
(* of this subscription.  What happened before it is never looked at.      *)
Subscribe ==
    /\ loop.st = "off"
    /\ loop' = [st |-> "on"]
    /\ UNCHANGED <<call, calm, site, stream, up, fresh, op, reload, sent, evq, addr, secret,
                   undone, pleft>>

(* The stream ends, which the loop sees once it is done with its event.    *)
StreamEnds ==
    /\ loop.st = "on" /\ pleft.cuts > 0
    /\ loop' = [st |-> "off"]
    /\ evq' = <<>>
    /\ pleft' = [pleft EXCEPT !.cuts = @ - 1]
    /\ UNCHANGED <<call, calm, site, stream, up, fresh, op, reload, sent, addr, secret, undone>>

(* list_by_cargo and list_by_secret, on the rows nanocld has now.          *)
Concerned(ev) ==
    {r \in Rules : res[r] # 0 /\ \E u \in Files :
        LET part == specs[res[r]].data[u] IN
        IF ev = "secret" THEN part = "ssl" ELSE part # "no"}

(* A request on the rule is in progress, or its call still is.             *)
Touches(k, r) ==
    \/ req[k] # None /\ req[k].key = r
    \/ call[k] # None /\ call[k].key = r

(* on_event: none found is an error and ends the event.                    *)
OnEvent ==
    /\ loop.st = "on" /\ evq # <<>>
    /\ LET rs == Concerned(Head(evq)) IN
        IF rs = {} THEN UNCHANGED <<loop, op, calm>>
        ELSE /\ loop' = [st |-> "busy", ev |-> Head(evq), rules |-> rs]
             /\ op' = [x \in Slots |-> IF x \in rs THEN NewOp("add", x, specs[res[x]].data) ELSE op[x]]
             /\ calm' = [r \in DOMAIN calm |->
                            calm[r] /\ ~(r \in rs /\ \E k \in Conns : Touches(k, r))]
    /\ evq' = Tail(evq)
    /\ UNCHANGED <<call, site, stream, up, fresh, reload, sent, addr, secret, undone, pleft>>

(* Every rule is done.  An error is logged for the start of a cargo, and   *)
(* keeps the other events from reloading.                                  *)
EventDone ==
    /\ loop.st = "busy"
    /\ \A r \in loop.rules : op[r].pc \in {"ok", "err"}
    /\ LET failed == \E r \in loop.rules : op[r].pc = "err" IN
        /\ sent' = IF failed /\ loop.ev # "update" THEN sent ELSE sent + 1
        /\ undone' = (undone \/ failed)
        /\ calm' = [r \in DOMAIN calm |-> calm[r] /\ ~(r \in loop.rules /\ op[r].pc = "err")]
    /\ op' = [x \in Slots |-> IF x \in loop.rules THEN None ELSE op[x]]
    /\ loop' = [st |-> "on"]
    /\ UNCHANGED <<call, site, stream, up, fresh, reload, evq, addr, secret, pleft>>

(* ncproxy restarts: what it was doing is lost, the files stay, and calls  *)
(* it had not answered fail.                                               *)
Crash ==
    /\ pleft.cuts > 0
    /\ pleft' = [pleft EXCEPT !.cuts = @ - 1, !.cut = TRUE]
    /\ call' = [k \in Conns |-> IF op[k] = None THEN call[k]
                                ELSE IF call[k].st = "lost" THEN None ELSE [call[k] EXCEPT !.st = "err"]]
    /\ calm' = [r \in DOMAIN calm |-> calm[r] /\ ~\E x \in Slots : op[x] # None /\ op[x].rule = r]
    /\ op' = [x \in Slots |-> None]
    /\ reload' = "none" /\ sent' = 0 /\ evq' = <<>> /\ loop' = [st |-> "off"]
    /\ undone' = TRUE
    /\ UNCHANGED <<site, stream, up, fresh, addr, secret>>

Work(x) ==
    \/ Gen(x) \/ WriteUpstreams(x) \/ WriteStream(x) \/ WriteSite(x) \/ Test(x) \/ Remove(x)
    \/ x \in Conns /\ (Take(x) \/ Answer(x))

PNext ==
    \/ \E x \in Slots : Work(x) \/ GenFails(x) \/ TestFails(x)
    \/ HandleReload \/ Reload \/ ReloadFails
    \/ \E ev \in {"update", "delete", "secret"} : Change(ev)
    \/ Subscribe \/ StreamEnds \/ OnEvent \/ EventDone \/ Crash

-----------------------------------------------------------------------------
Quiet == \A x \in Slots : op[x] = None

(* Whenever no rule is being written, nginx accepts the files on disk, so  *)
(* that the next reload, or restart of nginx, works: a rule that nginx     *)
(* refuses is gone by then, however operations on it and on other rules    *)
(* interleaved.  (A restart of ncproxy halfway breaks this.)               *)
NoBadRest == Quiet /\ ~pleft.cut => Accepts

(* An enabled file only ever names upstreams that exist.                   *)
UpstreamsExist ==
    \A f \in Enabled : f.text = None \/ \A u \in f.text.up : up[u] # 0

(* nginx will run what is on disk: while it does not, a rule is being      *)
(* written or a reload is on its way, unless some operation failed.  So a  *)
(* reload that is delayed and replaced is never lost.                      *)
ReloadFollows == fresh \/ undone \/ ~Quiet \/ sent > 0 \/ reload # "none"
=============================================================================
