-------------------------- MODULE ControllersProofs --------------------------
(***************************************************************************)
(* What the interleavings of nanocld's requests, ncproxy's operations,     *)
(* reloads and events, and ncdns's operations keep true, for every set of  *)
(* connections, rules and networks, all data and any number of faults.     *)
(***************************************************************************)
EXTENDS Controllers, TLAPS

(* ncdns: while dnsmasq runs with older files, someone is about to restart *)
(* it.                                                                     *)
DnsInv ==
    /\ DOMAIN dns = Conns
    /\ dfailed \/ running = file \/ \E k \in Conns : dns[k].st = "restart"

LEMMA ReplyEnds ==
    ASSUME DOMAIN dns = Conns, NEW k \in Conns, NEW st, D!Reply(k, st)
    PROVE  /\ DOMAIN dns' = Conns /\ dns'[k] = D!None
           /\ \A j \in Conns : j # k => dns'[j] = dns[j]
BY DEF D!Reply

LEMMA DnsStep ==
    ASSUME DnsInv, NEW k \in Conns,
           \/ D!DnsApply(k) \/ D!DnsRemove(k) \/ D!DnsWrite(k) \/ D!DnsRestart(k) \/ D!DnsFails(k)
    PROVE  DnsInv'
<1> USE DEF DnsInv
<1>1. CASE D!DnsApply(k)
  <2>1. CASE D!Fail(k)
    BY <2>1, ReplyEnds DEF D!Fail
  <2>2. CASE ~D!Fail(k)
    <3>1. UNCHANGED <<running, file, dfailed>> /\ DOMAIN dns' = Conns /\ dns[k] = D!None
          /\ \A j \in Conns : j # k => dns'[j] = dns[j]
      BY <1>1, <2>2 DEF D!DnsApply
    <3>2. D!None.st = "none"
      BY DEF D!None
    <3>3. QED
      BY <3>1, <3>2
  <2>3. QED
    BY <2>1, <2>2
<1>2. CASE D!DnsRemove(k)
  <2>1. CASE D!Fail(k)
    BY <2>1, ReplyEnds DEF D!Fail
  <2>2. CASE ~D!Fail(k)
    <3>1. UNCHANGED <<running, file, dfailed>> /\ DOMAIN dns' = Conns /\ dns[k] = D!None
          /\ \A j \in Conns : j # k => dns'[j] = dns[j]
      BY <1>2, <2>2 DEF D!DnsRemove
    <3>2. D!None.st = "none"
      BY DEF D!None
    <3>3. QED
      BY <3>1, <3>2
  <2>3. QED
    BY <2>1, <2>2
<1>3. CASE D!DnsWrite(k)
  <2>1. DOMAIN dns' = Conns /\ dns'[k].st = "restart"
    BY <1>3 DEF D!DnsWrite
  <2>2. QED
    BY <2>1
<1>4. CASE D!DnsRestart(k)
  BY <1>4, ReplyEnds DEF D!DnsRestart
<1>5. CASE D!DnsFails(k)
  BY <1>5, ReplyEnds DEF D!DnsFails, D!Fail
<1>6. QED
  BY <1>1, <1>2, <1>3, <1>4, <1>5

(* dnsmasq runs with the files on disk whenever ncdns is idle and nothing  *)
(* failed, however writes and restarts of the same network interleave.     *)
THEOREM DnsRunsItsFiles == Spec => []DnsAtRest
<1>1. Init => DnsInv
  BY DEF Init, D!DInit, DnsInv
<1>2. DnsInv /\ [Next]_vars => DnsInv'
  <2> SUFFICES ASSUME DnsInv, [Next]_vars PROVE DnsInv'
    OBVIOUS
  <2>1. CASE UNCHANGED dvars
    BY <2>1 DEF dvars, DnsInv
  <2>2. CASE D!DNext
    BY <2>2, DnsStep DEF D!DNext
  <2>3. QED
    BY <2>1, <2>2 DEF Next, vars
<1>3. DnsInv => DnsAtRest
  <2>1. D!None.st # "restart"
    BY DEF D!None
  <2>2. QED
    BY <2>1 DEF DnsInv, DnsAtRest, D!DnsAtRest
<1>4. QED
  BY <1>1, <1>2, <1>3, PTL DEF Spec
-----------------------------------------------------------------------------
(* ncproxy.  The operations in progress.                                   *)
IsOp(o) ==
    /\ DOMAIN o = {"st", "verb", "rule", "data", "pc", "up", "addr", "site", "stream"}
    /\ o.st = "run" /\ o.rule \in Rules

IsFile(f) == DOMAIN f = {"text", "link"}

PTyped ==
    /\ DOMAIN op = P!Slots /\ \A x \in P!Slots : op[x] = P!None \/ IsOp(op[x])
    /\ DOMAIN site = Rules /\ \A r \in Rules : IsFile(site[r])
    /\ DOMAIN stream = Rules /\ \A r \in Rules : IsFile(stream[r])
    /\ DOMAIN up = P!Files /\ sent \in Nat /\ DOMAIN pleft = {"fails", "cuts", "changes", "cut"}

(* The event loop has an operation for each rule of its event, and for no  *)
(* other.                                                                  *)
LoopInv ==
    \A r \in Rules : op[r] # P!None => loop.st = "busy" /\ r \in loop.rules

(* The upstreams an operation was told are written by the time it writes   *)
(* the files that name them, and none is ever unwritten.                   *)
Told(x) ==
    /\ op[x].up \subseteq P!Files /\ (op[x].up # {} => op[x].addr # 0)
    /\ op[x].site # P!None => op[x].site.up \subseteq op[x].up
    /\ op[x].stream # P!None => op[x].stream.up \subseteq op[x].up
    /\ op[x].pc \in {"stream", "link", "site", "enable"} => \A u \in op[x].up : up[u] # 0
    /\ op[x].pc = "gen" => op[x].site = P!None /\ op[x].stream = P!None /\ op[x].up = {}
UpInv ==
    /\ \A x \in P!Slots : op[x] # P!None => Told(x)
    /\ \A r \in Rules :
          /\ site[r].text # P!None => \A u \in site[r].text.up : u \in P!Files /\ up[u] # 0
          /\ stream[r].text # P!None => \A u \in stream[r].text.up : u \in P!Files /\ up[u] # 0

(* A file nginx refuses has an operation on its rule that will still test  *)
(* the files, or is about to remove this one.                              *)
Refused(f) == f.link /\ (f.text = P!None \/ f.text.bad)
Mends(x, r, pcs) == op[x] # P!None /\ op[x].rule = r /\ op[x].pc \in pcs
SitePcs == {"enable", "test", "rm1", "rm2"}
StreamPcs == SitePcs \cup {"link", "site", "rm3", "rm4"}
Mended ==
    ~pleft.cut => \A r \in Rules :
        /\ Refused(site[r]) => \E x \in P!Slots : Mends(x, r, SitePcs)
        /\ Refused(stream[r]) => \E x \in P!Slots : Mends(x, r, StreamPcs)

ProxyInv == PTyped /\ LoopInv /\ UpInv /\ ReloadFollows /\ Mended
-----------------------------------------------------------------------------
(* An operation goes on to its next place.                                 *)
Stepped(x, pc) ==
    /\ DOMAIN op' = P!Slots /\ \A y \in P!Slots : y # x => op'[y] = op[y]
    /\ op'[x] # P!None /\ IsOp(op'[x]) /\ op'[x].pc = pc
    /\ op'[x].rule = op[x].rule /\ op'[x].up = op[x].up /\ op'[x].addr = op[x].addr
    /\ op'[x].site = op[x].site /\ op'[x].stream = op[x].stream

LEMMA OpShape == \A o : IsOp(o) => o # P!None
BY DEF IsOp, P!None

LEMMA StepOf ==
    ASSUME PTyped, NEW x \in P!Slots, op[x] # P!None, NEW pc, P!Step(x, pc)
    PROVE  Stepped(x, pc) /\ IsOp(op[x]) /\ op[x].rule \in Rules
<1>1. IsOp(op[x])
  BY DEF PTyped
<1>2. IsOp(op'[x]) /\ op'[x].pc = pc
  BY <1>1 DEF PTyped, P!Step, IsOp
<1>3. QED
  BY <1>1, <1>2, OpShape DEF PTyped, P!Step, Stepped, IsOp

LEMMA StepKeeps ==
    ASSUME PTyped, LoopInv, NEW x \in P!Slots, op[x] # P!None, NEW pc, Stepped(x, pc), UNCHANGED loop
    PROVE  /\ LoopInv' /\ ReloadFollows'
           /\ DOMAIN op' = P!Slots /\ \A y \in P!Slots : op'[y] = P!None \/ IsOp(op'[y])
<1>1. DOMAIN op' = P!Slots /\ \A y \in P!Slots : op'[y] = P!None \/ IsOp(op'[y])
  BY DEF Stepped, PTyped
<1>2. LoopInv'
  BY DEF Stepped, LoopInv, P!Slots
<1>3. ReloadFollows'
  BY DEF ReloadFollows, P!ReloadFollows, P!Quiet, Stepped
<1>4. QED
  BY <1>1, <1>2, <1>3

LEMMA ToldKept ==
    ASSUME PTyped, UpInv, NEW x \in P!Slots, op[x] # P!None, NEW pc, Stepped(x, pc), pc # "gen",
           \A u \in P!Files : up[u] # 0 => up'[u] # 0,
           pc \in {"stream", "link", "site", "enable"} => \A u \in op[x].up : up'[u] # 0
    PROVE  \A y \in P!Slots : op'[y] # P!None => Told(y)'
<1> SUFFICES ASSUME NEW y \in P!Slots, op'[y] # P!None PROVE Told(y)'
  OBVIOUS
<1>1. CASE y = x
  BY <1>1 DEF Stepped, UpInv, Told
<1>2. CASE y # x
  BY <1>2 DEF Stepped, UpInv, Told
<1>3. QED
  BY <1>1, <1>2

(* What a step may do to the files: it makes one refused only if it will   *)
(* go on to mend it, and stops mending only if it is mended.               *)
LEMMA MendKept ==
    ASSUME Mended, NEW x \in P!Slots, op[x] # P!None, NEW pc, Stepped(x, pc), op[x].rule \in Rules,
           pleft'.cut = pleft.cut,
           \A r \in Rules : Refused(site'[r]) /\ ~(r = op[x].rule /\ pc \in SitePcs) => Refused(site[r]),
           \A r \in Rules : Refused(stream'[r]) /\ ~(r = op[x].rule /\ pc \in StreamPcs) => Refused(stream[r]),
           op[x].pc \in SitePcs /\ pc \notin SitePcs => ~Refused(site'[op[x].rule]),
           op[x].pc \in StreamPcs /\ pc \notin StreamPcs => ~Refused(stream'[op[x].rule])
    PROVE  Mended'
<1> SUFFICES ASSUME ~pleft.cut, NEW r \in Rules
             PROVE  /\ Refused(site'[r]) => \E y \in P!Slots : Mends(y, r, SitePcs)'
                    /\ Refused(stream'[r]) => \E y \in P!Slots : Mends(y, r, StreamPcs)'
  BY DEF Mended, Refused
<1>1. \A pcs : (r = op[x].rule /\ pc \in pcs) => Mends(x, r, pcs)'
  BY DEF Stepped, Mends
<1>2. \A y \in P!Slots : \A pcs : y # x /\ Mends(y, r, pcs) => Mends(y, r, pcs)'
  BY DEF Stepped, Mends
<1>3. ASSUME Refused(site'[r]) PROVE \E y \in P!Slots : Mends(y, r, SitePcs)'
  <2>1. CASE r = op[x].rule /\ pc \in SitePcs
    BY <1>1, <2>1
  <2>2. CASE ~(r = op[x].rule /\ pc \in SitePcs)
    <3>1. PICK y \in P!Slots : Mends(y, r, SitePcs)
      BY <1>3, <2>2 DEF Mended
    <3>2. y # x
      BY <1>3, <2>2, <3>1 DEF Mends
    <3>3. QED
      BY <1>2, <3>1, <3>2
  <2>3. QED
    BY <2>1, <2>2
<1>4. ASSUME Refused(stream'[r]) PROVE \E y \in P!Slots : Mends(y, r, StreamPcs)'
  <2>1. CASE r = op[x].rule /\ pc \in StreamPcs
    BY <1>1, <2>1
  <2>2. CASE ~(r = op[x].rule /\ pc \in StreamPcs)
    <3>1. PICK y \in P!Slots : Mends(y, r, StreamPcs)
      BY <1>4, <2>2 DEF Mended
    <3>2. y # x
      BY <1>4, <2>2, <3>1 DEF Mends
    <3>3. QED
      BY <1>2, <3>1, <3>2
  <2>3. QED
    BY <2>1, <2>2
<1>5. QED
  BY <1>3, <1>4
-----------------------------------------------------------------------------
(* The steps of an operation.                                              *)
LEMMA ProxyTake ==
    ASSUME ProxyInv, NEW k \in Conns, P!Take(k)
    PROVE  ProxyInv'
<1> USE DEF ProxyInv
<1>1. k \in P!Slots /\ k \notin Rules /\ op[k] = P!None
  BY ControllersAssumption DEF P!Slots, P!Take
<1> DEFINE o == P!NewOp(call[k].verb, call[k].key, call[k].data)
<1>2. /\ DOMAIN op' = P!Slots /\ op'[k] = o /\ \A y \in P!Slots : y # k => op'[y] = op[y]
      /\ UNCHANGED <<site, stream, up, fresh, reload, sent, loop, undone, pleft>>
  BY <1>1 DEF P!Take, PTyped
<1>3. /\ IsOp(o) /\ o.up = {} /\ o.site = P!None /\ o.stream = P!None
      /\ o.pc \notin {"stream", "link", "site", "enable"}
  BY DEF IsOp, P!NewOp, P!Take
<1> HIDE DEF o
<1>4. op'[k] # P!None
  BY <1>2, <1>3, OpShape
<1>5. PTyped'
  BY <1>1, <1>2, <1>3 DEF PTyped
<1>6. LoopInv'
  BY <1>1, <1>2 DEF LoopInv, P!Slots
<1>7. ReloadFollows'
  BY <1>1, <1>4 DEF ReloadFollows, P!ReloadFollows, P!Quiet
<1>8. UpInv'
  <2>1. Told(k)'
    BY <1>2, <1>3 DEF Told
  <2>2. \A y \in P!Slots : y # k /\ op[y] # P!None => Told(y)'
    BY <1>2 DEF UpInv, Told
  <2>3. QED
    BY <1>2, <2>1, <2>2 DEF UpInv
<1>9. Mended'
  <2>1. \A y \in P!Slots : \A r, pcs : Mends(y, r, pcs) => Mends(y, r, pcs)'
    BY <1>1, <1>2 DEF Mends
  <2>2. QED
    BY <1>2, <2>1 DEF Mended, Refused
<1>10. QED
  BY <1>5, <1>6, <1>7, <1>8, <1>9

LEMMA ProxyGen ==
    ASSUME ProxyInv, NEW x \in P!Slots, P!Gen(x)
    PROVE  ProxyInv'
<1> USE DEF ProxyInv
<1>1. op[x] # P!None /\ op[x].pc = "gen" /\ IsOp(op[x])
  BY DEF P!Gen, P!Working, PTyped
<1>2. UNCHANGED <<site, stream, up, sent, loop, pleft>>
  BY DEF P!Gen
<1> DEFINE d == op[x].data
<1>3. /\ DOMAIN op' = P!Slots /\ \A y \in P!Slots : y # x => op'[y] = op[y]
      /\ IsOp(op'[x]) /\ op'[x].pc = "up" /\ op'[x].up = P!Upstreams(d) /\ op'[x].addr = addr
      /\ op'[x].site = P!SiteText(d) /\ op'[x].stream = P!StreamText(d)
  BY <1>1 DEF P!Gen, PTyped, IsOp
<1>4. op'[x] # P!None
  BY <1>3, OpShape
<1>5. PTyped'
  BY <1>2, <1>3 DEF PTyped
<1>6. LoopInv'
  BY <1>1, <1>2, <1>3 DEF LoopInv, P!Slots
<1>7. ReloadFollows'
  BY <1>4 DEF ReloadFollows, P!ReloadFollows, P!Quiet
<1>8. UpInv'
  <2>1. P!Upstreams(d) \subseteq P!Files /\ (P!Upstreams(d) # {} => addr # 0)
    BY DEF P!Upstreams, P!UpstreamOf
  <2>2. P!SiteText(d) # P!None => P!SiteText(d).up \subseteq P!Upstreams(d)
    BY DEF P!SiteText, P!Upstreams, P!UpstreamOf, P!Files
  <2>3. P!StreamText(d) # P!None => P!StreamText(d).up \subseteq P!Upstreams(d)
    BY DEF P!StreamText, P!Upstreams, P!UpstreamOf, P!Files
  <2>4. Told(x)'
    BY <1>3, <2>1, <2>2, <2>3 DEF Told
  <2>5. \A y \in P!Slots : y # x /\ op[y] # P!None => Told(y)'
    BY <1>2, <1>3 DEF UpInv, Told
  <2>6. QED
    BY <1>2, <1>3, <2>4, <2>5 DEF UpInv
<1>9. Mended'
  <2>1. \A y \in P!Slots : \A r :
            /\ Mends(y, r, SitePcs) => Mends(y, r, SitePcs)'
            /\ Mends(y, r, StreamPcs) => Mends(y, r, StreamPcs)'
    BY <1>1, <1>3 DEF Mends, SitePcs, StreamPcs
  <2>2. QED
    BY <1>2, <2>1 DEF Mended, Refused
<1>10. QED
  BY <1>5, <1>6, <1>7, <1>8, <1>9

LEMMA ProxyWriteUpstreams ==
    ASSUME ProxyInv, NEW x \in P!Slots, P!WriteUpstreams(x)
    PROVE  ProxyInv'
<1> USE DEF ProxyInv
<1>1. op[x] # P!None /\ op[x].pc = "up"
  BY DEF P!WriteUpstreams, P!Working
<1>2. Stepped(x, "stream") /\ op[x].rule \in Rules
  BY <1>1, StepOf DEF P!WriteUpstreams
<1>3. UNCHANGED <<site, stream, sent, loop, pleft>> /\ DOMAIN up' = P!Files
  BY DEF P!WriteUpstreams
<1>4. \A u \in P!Files : u \in op[x].up \/ up[u] # 0 => up'[u] # 0
  BY <1>1 DEF P!WriteUpstreams, UpInv, Told
<1>5. PTyped' /\ LoopInv' /\ ReloadFollows'
  BY <1>1, <1>2, <1>3, StepKeeps DEF PTyped
<1>6. UpInv'
  <2>1. op[x].up \subseteq P!Files
    BY <1>1 DEF UpInv, Told
  <2>2. \A y \in P!Slots : op'[y] # P!None => Told(y)'
    BY <1>1, <1>2, <1>4, <2>1, ToldKept
  <2>3. QED
    BY <1>3, <1>4, <2>2 DEF UpInv
<1>7. Mended'
  BY <1>1, <1>2, <1>3, MendKept DEF SitePcs, StreamPcs
<1>8. QED
  BY <1>5, <1>6, <1>7
(* A step that leaves every file as it is.                                 *)
LEMMA ProxyMoveOn ==
    ASSUME ProxyInv, NEW x \in P!Slots, op[x] # P!None, NEW pc, Stepped(x, pc), op[x].rule \in Rules,
           pc \notin {"gen", "stream", "link", "site", "enable"},
           UNCHANGED <<site, stream, up, sent, loop>>, pleft'.cut = pleft.cut, DOMAIN pleft' = DOMAIN pleft,
           op[x].pc \in SitePcs /\ pc \notin SitePcs => ~Refused(site[op[x].rule]),
           op[x].pc \in StreamPcs /\ pc \notin StreamPcs => ~Refused(stream[op[x].rule])
    PROVE  ProxyInv'
<1> USE DEF ProxyInv
<1>1. PTyped' /\ LoopInv' /\ ReloadFollows'
  BY StepKeeps DEF PTyped
<1>2. UpInv'
  BY ToldKept DEF UpInv
<1>3. Mended'
  BY MendKept
<1>4. QED
  BY <1>1, <1>2, <1>3

LEMMA ProxyGenFails ==
    ASSUME ProxyInv, NEW x \in P!Slots, P!GenFails(x)
    PROVE  ProxyInv'
<1>1. op[x] # P!None /\ op[x].pc = "gen" /\ UNCHANGED <<site, stream, up, sent, loop>>
  BY DEF P!GenFails, P!Working
<1>2. Stepped(x, "err") /\ op[x].rule \in Rules
  BY <1>1, StepOf DEF P!GenFails, ProxyInv
<1>3. pleft'.cut = pleft.cut /\ DOMAIN pleft' = DOMAIN pleft
  BY DEF P!GenFails, ProxyInv, PTyped
<1>4. QED
  BY <1>1, <1>2, <1>3, ProxyMoveOn DEF SitePcs, StreamPcs

(* nginx -t finds no file it refuses, or the operation goes on to remove.  *)
LEMMA ProxyTest ==
    ASSUME ProxyInv, NEW x \in P!Slots, P!Test(x) \/ P!TestFails(x)
    PROVE  ProxyInv'
<1>1. op[x] # P!None /\ op[x].pc = "test" /\ UNCHANGED <<site, stream, up, sent, loop>>
  BY DEF P!Test, P!TestFails, P!Working
<1>2. PICK pc \in {"ok", "rm1"} : P!Step(x, pc) /\ (pc = "ok" => P!Accepts)
  BY DEF P!Test, P!TestFails
<1>3. Stepped(x, pc) /\ op[x].rule \in Rules
  BY <1>1, <1>2, StepOf DEF ProxyInv
<1>4. pleft'.cut = pleft.cut /\ DOMAIN pleft' = DOMAIN pleft
  BY DEF P!Test, P!TestFails, ProxyInv, PTyped
<1>5. pc = "ok" => ~Refused(site[op[x].rule]) /\ ~Refused(stream[op[x].rule])
  BY <1>2, <1>3 DEF P!Accepts, P!Enabled, Refused
<1>6. QED
  BY <1>1, <1>2, <1>3, <1>4, <1>5, ProxyMoveOn DEF SitePcs, StreamPcs

LEMMA ProxyWriteStream ==
    ASSUME ProxyInv, NEW x \in P!Slots, P!WriteStream(x)
    PROVE  ProxyInv'
<1> USE DEF ProxyInv
<1> DEFINE r == op[x].rule
<1>1. /\ op[x] # P!None /\ UNCHANGED <<site, up, sent, loop, pleft>>
      /\ op[x].pc \in {"stream", "link"} /\ IsOp(op[x]) /\ r \in Rules
  BY DEF P!WriteStream, P!Working, PTyped, IsOp
<1>2. PICK pc \in {"link", "site"} :
        /\ P!Step(x, pc)
        /\ \/ op[x].pc = "stream" /\ pc = "site" /\ UNCHANGED stream
           \/ /\ op[x].pc = "stream" /\ pc = "link" /\ op[x].stream # P!None
              /\ stream' = [stream EXCEPT ![r].text = op[x].stream]
           \/ /\ op[x].pc = "link" /\ pc = "site" /\ stream' = [stream EXCEPT ![r].link = TRUE]
  BY DEF P!WriteStream, P!Working
<1>3. Stepped(x, pc)
  BY <1>1, <1>2, StepOf
<1>4. /\ DOMAIN stream' = Rules /\ \A q \in Rules : IsFile(stream'[q])
      /\ \A q \in Rules : q # r => stream'[q] = stream[q]
      /\ stream'[r].text \in {stream[r].text, op[x].stream}
  <2>1. CASE UNCHANGED stream
    BY <1>1, <1>2, <2>1 DEF PTyped, IsFile
  <2>2. CASE stream' = [stream EXCEPT ![r].text = op[x].stream]
    BY <1>1, <1>2, <2>2 DEF PTyped, IsFile
  <2>3. CASE stream' = [stream EXCEPT ![r].link = TRUE]
    BY <1>1, <1>2, <2>3 DEF PTyped, IsFile
  <2>4. QED
    BY <1>2, <2>1, <2>2, <2>3
<1>5. PTyped' /\ LoopInv' /\ ReloadFollows'
  BY <1>1, <1>3, <1>4, StepKeeps DEF PTyped
<1>6. UpInv'
  <2>1. Told(x) /\ \A u \in op[x].up : up[u] # 0
    BY <1>1 DEF UpInv, Told
  <2>2. \A y \in P!Slots : op'[y] # P!None => Told(y)'
    BY <1>1, <1>2, <1>3, <2>1, ToldKept
  <2>3. stream'[r].text # P!None => \A u \in stream'[r].text.up : u \in P!Files /\ up[u] # 0
    BY <1>1, <1>4, <2>1 DEF UpInv, Told
  <2>4. QED
    BY <1>1, <1>4, <2>2, <2>3 DEF UpInv
<1>7. Mended'
  <2>1. \A q \in Rules : Refused(stream'[q]) /\ ~(q = r /\ pc \in StreamPcs) => Refused(stream[q])
    BY <1>1, <1>2, <1>4 DEF StreamPcs, SitePcs
  <2>2. QED
    BY <1>1, <1>2, <1>3, <2>1, MendKept DEF SitePcs, StreamPcs
<1>8. QED
  BY <1>5, <1>6, <1>7

LEMMA ProxyWriteSite ==
    ASSUME ProxyInv, NEW x \in P!Slots, P!WriteSite(x)
    PROVE  ProxyInv'
<1> USE DEF ProxyInv
<1> DEFINE r == op[x].rule
<1>1. /\ op[x] # P!None /\ UNCHANGED <<stream, up, sent, loop, pleft>>
      /\ op[x].pc \in {"site", "enable"} /\ IsOp(op[x]) /\ r \in Rules
  BY DEF P!WriteSite, P!Working, PTyped, IsOp
<1>2. PICK pc \in {"enable", "test"} :
        /\ P!Step(x, pc)
        /\ \/ op[x].pc = "site" /\ pc = "test" /\ UNCHANGED site
           \/ /\ op[x].pc = "site" /\ pc = "enable" /\ op[x].site # P!None
              /\ site' = [site EXCEPT ![r].text = op[x].site]
           \/ /\ op[x].pc = "enable" /\ pc = "test" /\ site' = [site EXCEPT ![r].link = TRUE]
  BY DEF P!WriteSite, P!Working
<1>3. Stepped(x, pc)
  BY <1>1, <1>2, StepOf
<1>4. /\ DOMAIN site' = Rules /\ \A q \in Rules : IsFile(site'[q])
      /\ \A q \in Rules : q # r => site'[q] = site[q]
      /\ site'[r].text \in {site[r].text, op[x].site}
  <2>1. CASE UNCHANGED site
    BY <1>1, <1>2, <2>1 DEF PTyped, IsFile
  <2>2. CASE site' = [site EXCEPT ![r].text = op[x].site]
    BY <1>1, <1>2, <2>2 DEF PTyped, IsFile
  <2>3. CASE site' = [site EXCEPT ![r].link = TRUE]
    BY <1>1, <1>2, <2>3 DEF PTyped, IsFile
  <2>4. QED
    BY <1>2, <2>1, <2>2, <2>3
<1>5. PTyped' /\ LoopInv' /\ ReloadFollows'
  BY <1>1, <1>3, <1>4, StepKeeps DEF PTyped
<1>6. UpInv'
  <2>1. Told(x) /\ \A u \in op[x].up : up[u] # 0
    BY <1>1 DEF UpInv, Told
  <2>2. \A y \in P!Slots : op'[y] # P!None => Told(y)'
    BY <1>1, <1>2, <1>3, <2>1, ToldKept
  <2>3. site'[r].text # P!None => \A u \in site'[r].text.up : u \in P!Files /\ up[u] # 0
    BY <1>1, <1>4, <2>1 DEF UpInv, Told
  <2>4. QED
    BY <1>1, <1>4, <2>2, <2>3 DEF UpInv
<1>7. Mended'
  <2>1. \A q \in Rules : Refused(site'[q]) /\ ~(q = r /\ pc \in SitePcs) => Refused(site[q])
    BY <1>1, <1>2, <1>4 DEF SitePcs
  <2>2. QED
    BY <1>1, <1>2, <1>3, <2>1, MendKept DEF SitePcs, StreamPcs
<1>8. QED
  BY <1>5, <1>6, <1>7

LEMMA ProxyRemove ==
    ASSUME ProxyInv, NEW x \in P!Slots, P!Remove(x)
    PROVE  ProxyInv'
<1> USE DEF ProxyInv
<1> DEFINE r == op[x].rule
<1>1. /\ op[x] # P!None /\ UNCHANGED <<up, sent, loop, pleft>>
      /\ op[x].pc \in {"rm1", "rm2", "rm3", "rm4"} /\ IsOp(op[x]) /\ r \in Rules
  BY DEF P!Remove, P!Working, PTyped, IsOp
<1>2. PICK pc \in {"rm2", "rm3", "rm4", "err", "ok"} :
        /\ P!Step(x, pc)
        /\ \/ /\ op[x].pc = "rm1" /\ pc = "rm2" /\ UNCHANGED stream
              /\ site' = [site EXCEPT ![r].text = P!None]
           \/ /\ op[x].pc = "rm2" /\ pc = "rm3" /\ UNCHANGED stream
              /\ site' = [site EXCEPT ![r].link = FALSE]
           \/ /\ op[x].pc = "rm3" /\ pc = "rm4" /\ UNCHANGED site
              /\ stream' = [stream EXCEPT ![r].text = P!None]
           \/ /\ op[x].pc = "rm4" /\ pc \in {"err", "ok"} /\ UNCHANGED site
              /\ stream' = [stream EXCEPT ![r].link = FALSE]
  BY DEF P!Remove, P!Working
<1>3. Stepped(x, pc)
  BY <1>1, <1>2, StepOf
<1>4. /\ DOMAIN site' = Rules /\ \A q \in Rules : IsFile(site'[q])
      /\ \A q \in Rules : q # r => site'[q] = site[q]
      /\ site'[r].text \in {site[r].text, P!None}
      /\ op[x].pc \in {"rm3", "rm4"} => site' = site
      /\ op[x].pc = "rm2" => ~site'[r].link
  <2>1. CASE op[x].pc = "rm1"
    BY <1>1, <1>2, <2>1 DEF PTyped, IsFile
  <2>2. CASE op[x].pc = "rm2"
    BY <1>1, <1>2, <2>2 DEF PTyped, IsFile
  <2>3. CASE op[x].pc \in {"rm3", "rm4"}
    BY <1>1, <1>2, <2>3 DEF PTyped, IsFile
  <2>4. QED
    BY <1>2, <2>1, <2>2, <2>3
<1>5. /\ DOMAIN stream' = Rules /\ \A q \in Rules : IsFile(stream'[q])
      /\ \A q \in Rules : q # r => stream'[q] = stream[q]
      /\ stream'[r].text \in {stream[r].text, P!None}
      /\ op[x].pc = "rm4" => ~stream'[r].link
  <2>1. CASE op[x].pc \in {"rm1", "rm2"}
    BY <1>1, <1>2, <2>1 DEF PTyped, IsFile
  <2>2. CASE op[x].pc = "rm3"
    BY <1>1, <1>2, <2>2 DEF PTyped, IsFile
  <2>3. CASE op[x].pc = "rm4"
    BY <1>1, <1>2, <2>3 DEF PTyped, IsFile
  <2>4. QED
    BY <1>2, <2>1, <2>2, <2>3
<1>6. PTyped' /\ LoopInv' /\ ReloadFollows'
  BY <1>1, <1>3, <1>4, <1>5, StepKeeps DEF PTyped
<1>7. UpInv'
  <2>1. \A y \in P!Slots : op'[y] # P!None => Told(y)'
    BY <1>1, <1>2, <1>3, ToldKept
  <2>2. QED
    BY <1>1, <1>4, <1>5, <2>1 DEF UpInv
<1>8. Mended'
  <2>1. \A q \in Rules : Refused(site'[q]) /\ ~(q = r /\ pc \in SitePcs) => Refused(site[q])
    BY <1>1, <1>2, <1>4 DEF SitePcs, Refused
  <2>2. \A q \in Rules : Refused(stream'[q]) /\ ~(q = r /\ pc \in StreamPcs) => Refused(stream[q])
    BY <1>1, <1>2, <1>5 DEF StreamPcs, SitePcs, Refused
  <2>3. /\ op[x].pc \in SitePcs /\ pc \notin SitePcs => ~Refused(site'[r])
        /\ op[x].pc \in StreamPcs /\ pc \notin StreamPcs => ~Refused(stream'[r])
    BY <1>1, <1>2, <1>4, <1>5 DEF StreamPcs, SitePcs, Refused
  <2>4. QED
    BY <1>1, <1>3, <2>1, <2>2, <2>3, MendKept
<1>9. QED
  BY <1>6, <1>7, <1>8
(* Operations end: they have nothing left to mend.                         *)
LEMMA ProxyEnds ==
    ASSUME ProxyInv, NEW X \in SUBSET P!Slots, DOMAIN op' = P!Slots,
           \A x \in X : op'[x] = P!None /\ op[x].pc \in {"ok", "err"},
           \A y \in P!Slots \ X : op'[y] = op[y],
           UNCHANGED <<site, stream, up, pleft>>, sent' \in Nat, LoopInv', ReloadFollows'
    PROVE  ProxyInv'
<1> USE DEF ProxyInv
<1>1. PTyped'
  BY DEF PTyped
<1>2. UpInv'
  BY DEF UpInv, Told
<1>3. Mended'
  <2>1. \A y \in P!Slots : \A r :
            /\ Mends(y, r, SitePcs) => Mends(y, r, SitePcs)'
            /\ Mends(y, r, StreamPcs) => Mends(y, r, StreamPcs)'
    BY DEF Mends, SitePcs, StreamPcs
  <2>2. QED
    BY <2>1 DEF Mended, Refused
<1>4. QED
  BY <1>1, <1>2, <1>3

LEMMA ProxyAnswer ==
    ASSUME ProxyInv, NEW k \in Conns, P!Answer(k)
    PROVE  ProxyInv'
<1> USE DEF ProxyInv
<1>1. k \in P!Slots /\ k \notin Rules /\ op[k] # P!None /\ op[k].pc \in {"ok", "err"}
  BY ControllersAssumption DEF P!Slots, P!Answer, P!Working
<1>2. /\ DOMAIN op' = P!Slots /\ op'[k] = P!None /\ \A y \in P!Slots : y # k => op'[y] = op[y]
      /\ UNCHANGED <<site, stream, up, loop, pleft>>
  BY <1>1 DEF P!Answer, PTyped
<1>3. sent' \in Nat
  BY DEF P!Answer, PTyped
<1>4. LoopInv'
  BY <1>1, <1>2 DEF LoopInv, P!Slots
<1>5. ReloadFollows'
  <2>1. CASE op[k].pc = "ok"
    <3>1. sent' > 0
      BY <2>1 DEF P!Answer, PTyped
    <3>2. QED
      BY <3>1 DEF ReloadFollows, P!ReloadFollows
  <2>2. CASE op[k].pc = "err"
    <3>1. undone'
      BY <2>2 DEF P!Answer
    <3>2. QED
      BY <3>1 DEF ReloadFollows, P!ReloadFollows
  <2>3. QED
    BY <1>1, <2>1, <2>2
<1> DEFINE X == {k}
<1>6. /\ X \subseteq P!Slots /\ \A x \in X : op'[x] = P!None /\ op[x].pc \in {"ok", "err"}
      /\ \A y \in P!Slots \ X : op'[y] = op[y]
  BY <1>1, <1>2
<1> HIDE DEF X
<1>7. QED
  BY <1>2, <1>3, <1>4, <1>5, <1>6, ProxyEnds

LEMMA ProxyEventDone ==
    ASSUME ProxyInv, P!EventDone
    PROVE  ProxyInv'
<1> USE DEF ProxyInv
<1> DEFINE X == P!Slots \cap loop.rules
<1>1. /\ DOMAIN op' = P!Slots /\ \A x \in X : op'[x] = P!None /\ op[x].pc \in {"ok", "err"}
      /\ \A y \in P!Slots \ X : op'[y] = op[y]
      /\ UNCHANGED <<site, stream, up, pleft, fresh, reload>>
  BY DEF P!EventDone
<1>2. sent' \in Nat
  BY DEF P!EventDone, PTyped
<1>3. LoopInv'
  BY <1>1 DEF LoopInv, P!Slots
<1>4. ReloadFollows'
  <2>1. CASE \E r \in loop.rules : op[r].pc = "err"
    <3>1. undone'
      BY <2>1 DEF P!EventDone
    <3>2. QED
      BY <3>1 DEF ReloadFollows, P!ReloadFollows
  <2>2. CASE ~\E r \in loop.rules : op[r].pc = "err"
    <3>1. sent' > 0
      BY <2>2 DEF P!EventDone, PTyped
    <3>2. QED
      BY <3>1 DEF ReloadFollows, P!ReloadFollows
  <2>3. QED
    BY <2>1, <2>2
<1> HIDE DEF X
<1>5. X \subseteq P!Slots
  BY DEF X
<1>6. QED
  BY <1>1, <1>2, <1>3, <1>4, <1>5, ProxyEnds

(* A step that leaves the operations and the files alone.                  *)
LEMMA ProxyAside ==
    ASSUME ProxyInv, UNCHANGED <<site, stream, up, op>>, sent' \in Nat,
           DOMAIN pleft' = DOMAIN pleft, pleft'.cut = pleft.cut, LoopInv', ReloadFollows'
    PROVE  ProxyInv'
BY DEF ProxyInv, PTyped, UpInv, Told, Mended, Mends

LEMMA ProxyReload ==
    ASSUME ProxyInv, P!HandleReload \/ P!Reload \/ P!ReloadFails
    PROVE  ProxyInv'
<1> USE DEF ProxyInv
<1>1. UNCHANGED <<site, stream, up, op, loop>> /\ sent' \in Nat
  BY DEF P!HandleReload, P!Reload, P!ReloadFails, PTyped
<1>2. pleft'.cut = pleft.cut /\ DOMAIN pleft' = DOMAIN pleft
  BY DEF P!HandleReload, P!Reload, P!ReloadFails, PTyped
<1>3. LoopInv'
  BY <1>1 DEF LoopInv
<1>4. ReloadFollows'
  <2>1. CASE P!HandleReload
    BY <2>1 DEF P!HandleReload, ReloadFollows, P!ReloadFollows
  <2>2. CASE P!Reload /\ reload = "sleep"
    BY <2>2 DEF P!Reload, ReloadFollows, P!ReloadFollows
  <2>3. CASE P!Reload /\ reload # "sleep"
    <3>1. fresh' \/ undone'
      BY <2>3 DEF P!Reload
    <3>2. QED
      BY <3>1 DEF ReloadFollows, P!ReloadFollows
  <2>4. CASE P!ReloadFails
    BY <2>4 DEF P!ReloadFails, ReloadFollows, P!ReloadFollows
  <2>5. QED
    BY <2>1, <2>2, <2>3, <2>4
<1>5. QED
  BY <1>1, <1>2, <1>3, <1>4, ProxyAside

LEMMA ProxyOutside ==
    ASSUME ProxyInv, \/ \E ev \in {"update", "delete", "secret"} : P!Change(ev)
                     \/ P!Subscribe \/ P!StreamEnds
    PROVE  ProxyInv'
<1> USE DEF ProxyInv
<1>1. UNCHANGED <<site, stream, up, op, fresh, reload, sent, undone>> /\ sent' \in Nat
  BY DEF P!Change, P!Subscribe, P!StreamEnds, PTyped
<1>2. pleft'.cut = pleft.cut /\ DOMAIN pleft' = DOMAIN pleft
  BY DEF P!Change, P!Subscribe, P!StreamEnds, PTyped
<1>3. LoopInv'
  BY <1>1 DEF P!Change, P!Subscribe, P!StreamEnds, LoopInv
<1>4. ReloadFollows'
  BY <1>1 DEF ReloadFollows, P!ReloadFollows, P!Quiet
<1>5. QED
  BY <1>1, <1>2, <1>3, <1>4, ProxyAside

LEMMA ProxyOnEvent ==
    ASSUME ProxyInv, P!OnEvent
    PROVE  ProxyInv'
<1> USE DEF ProxyInv
<1> DEFINE rs == P!Concerned(Head(evq))
<1>1. UNCHANGED <<site, stream, up, fresh, reload, sent, undone, pleft>> /\ loop.st = "on"
  BY DEF P!OnEvent
<1>2. CASE rs = {}
  <2>1. UNCHANGED <<op, loop>>
    BY <1>2 DEF P!OnEvent
  <2>2. LoopInv' /\ ReloadFollows' /\ sent' \in Nat
    BY <1>1, <2>1 DEF LoopInv, ReloadFollows, P!ReloadFollows, P!Quiet, PTyped
  <2>3. QED
    BY <1>1, <2>1, <2>2, ProxyAside
<1>3. CASE rs # {}
  <2>1. /\ loop' = [st |-> "busy", ev |-> Head(evq), rules |-> rs]
        /\ op' = [x \in P!Slots |-> IF x \in rs THEN P!NewOp("add", x, specs[res[x]].data) ELSE op[x]]
    BY <1>3 DEF P!OnEvent
  <2>2. rs \subseteq Rules /\ rs \subseteq P!Slots
    BY DEF P!Concerned, P!Slots
  <2>3. \A x \in Rules : op[x] = P!None
    BY <1>1 DEF LoopInv
  <2> HIDE DEF rs
  <2>4. \A x \in rs : /\ IsOp(op'[x]) /\ op'[x].up = {} /\ op'[x].site = P!None /\ op'[x].stream = P!None
                      /\ op'[x].pc \notin {"stream", "link", "site", "enable"}
    BY <2>1, <2>2 DEF IsOp, P!NewOp
  <2>5. DOMAIN op' = P!Slots /\ \A y \in P!Slots : y \notin rs => op'[y] = op[y]
    BY <2>1
  <2>6. PTyped'
    BY <1>1, <2>4, <2>5 DEF PTyped
  <2>7. LoopInv'
    <3>1. loop'.st = "busy" /\ loop'.rules = rs
      BY <2>1
    <3>2. QED
      BY <2>3, <2>5, <3>1 DEF LoopInv, P!Slots
  <2>8. ReloadFollows'
    <3>1. \E x \in P!Slots : op'[x] # P!None
      BY <1>3, <2>2, <2>4, OpShape
    <3>2. QED
      BY <3>1 DEF ReloadFollows, P!ReloadFollows, P!Quiet
  <2>9. UpInv'
    <3>1. \A x \in rs : Told(x)'
      BY <2>4 DEF Told
    <3>2. \A y \in P!Slots : y \notin rs /\ op[y] # P!None => Told(y)'
      BY <1>1, <2>5 DEF UpInv, Told
    <3>3. QED
      BY <1>1, <2>5, <3>1, <3>2 DEF UpInv
  <2>10. Mended'
    <3>1. \A y \in P!Slots : \A r, pcs : Mends(y, r, pcs) => Mends(y, r, pcs)'
      BY <2>2, <2>3, <2>5 DEF Mends
    <3>2. QED
      BY <1>1, <3>1 DEF Mended, Refused
  <2>11. QED
    BY <2>6, <2>7, <2>8, <2>9, <2>10
<1>4. QED
  BY <1>2, <1>3

LEMMA ProxyCrash ==
    ASSUME ProxyInv, P!Crash
    PROVE  ProxyInv'
<1> USE DEF ProxyInv
<1>1. /\ DOMAIN op' = P!Slots /\ \A x \in P!Slots : op'[x] = P!None
      /\ sent' = 0 /\ undone' /\ UNCHANGED <<site, stream, up>>
  BY DEF P!Crash
<1>2. pleft'.cut /\ DOMAIN pleft' = DOMAIN pleft
  BY DEF P!Crash, PTyped
<1>3. PTyped'
  BY <1>1, <1>2 DEF PTyped
<1>4. LoopInv' /\ ReloadFollows' /\ Mended'
  BY <1>1, <1>2 DEF LoopInv, P!Slots, ReloadFollows, P!ReloadFollows, Mended
<1>5. UpInv'
  BY <1>1 DEF UpInv
<1>6. QED
  BY <1>3, <1>4, <1>5
-----------------------------------------------------------------------------
LEMMA ProxyInit == Init => ProxyInv
<1> SUFFICES ASSUME Init PROVE ProxyInv
  OBVIOUS
<1>1. /\ \A r \in Rules : site[r] = P!NoFile /\ stream[r] = P!NoFile
      /\ \A x \in P!Slots : op[x] = P!None
  BY DEF Init, P!PInit
<1>2. IsFile(P!NoFile) /\ P!NoFile.text = P!None /\ P!NoFile.link = FALSE
  BY DEF IsFile, P!NoFile
<1>3. PTyped
  BY <1>1, <1>2 DEF Init, P!PInit, PTyped
<1>4. LoopInv /\ UpInv /\ Mended
  BY <1>1, <1>2 DEF LoopInv, UpInv, Mended, Refused, P!Slots
<1>5. ReloadFollows
  BY DEF Init, P!PInit, ReloadFollows, P!ReloadFollows
<1>6. QED
  BY <1>3, <1>4, <1>5 DEF ProxyInv

LEMMA ProxyStep == ProxyInv /\ [Next]_vars => ProxyInv'
<1> SUFFICES ASSUME ProxyInv, [Next]_vars PROVE ProxyInv'
  OBVIOUS
<1>1. CASE UNCHANGED pvars
  BY <1>1 DEF pvars, ProxyInv, PTyped, LoopInv, UpInv, Told, Mended, Mends, ReloadFollows,
              P!ReloadFollows, P!Quiet
<1>2. ASSUME NEW x \in P!Slots, P!Work(x) \/ P!GenFails(x) \/ P!TestFails(x) PROVE ProxyInv'
  BY <1>2, ProxyGen, ProxyWriteUpstreams, ProxyWriteStream, ProxyWriteSite, ProxyTest, ProxyRemove,
     ProxyTake, ProxyAnswer, ProxyGenFails DEF P!Work
<1>3. CASE P!HandleReload \/ P!Reload \/ P!ReloadFails
  BY <1>3, ProxyReload
<1>4. CASE P!OnEvent \/ P!EventDone \/ P!Crash
  BY <1>4, ProxyOnEvent, ProxyEventDone, ProxyCrash
<1>5. CASE (\E ev \in {"update", "delete", "secret"} : P!Change(ev)) \/ P!Subscribe \/ P!StreamEnds
  BY <1>5, ProxyOutside
<1>6. QED
  BY <1>1, <1>2, <1>3, <1>4, <1>5 DEF Next, vars, P!PNext

LEMMA ProxyAlways == Spec => []ProxyInv
BY ProxyInit, ProxyStep, PTL DEF Spec

(* A reload that is delayed, aborted and started anew is never lost: while *)
(* nginx runs older files, an operation or a reload is on its way, or one  *)
(* failed.                                                                 *)
THEOREM ReloadsAreNotLost == Spec => []ReloadFollows
<1>1. ProxyInv => ReloadFollows
  BY DEF ProxyInv
<1>2. QED
  BY <1>1, ProxyAlways, PTL

(* An enabled file only names upstreams that exist, whatever operations on *)
(* the same rule, events and restarts of ncproxy come between the writes.  *)
THEOREM NamedUpstreamsExist == Spec => []UpstreamsExist
<1>1. ProxyInv => UpstreamsExist
  BY DEF ProxyInv, UpInv, UpstreamsExist, P!UpstreamsExist, P!Enabled
<1>2. QED
  BY <1>1, ProxyAlways, PTL

(* With no rule being written and no restart of ncproxy halfway, nginx     *)
(* accepts the files on disk: every refused file had an operation that     *)
(* would test the files or remove it, and the last one did.                *)
THEOREM NoBadFilesAtRest == Spec => []NoBadRest
<1>1. ProxyInv => NoBadRest
  <2> SUFFICES ASSUME ProxyInv, P!Quiet, ~pleft.cut PROVE P!Accepts
    BY DEF NoBadRest, P!NoBadRest
  <2>1. \A r \in Rules : ~Refused(site[r]) /\ ~Refused(stream[r])
    BY DEF ProxyInv, Mended, Mends, P!Quiet
  <2>2. QED
    BY <2>1 DEF ProxyInv, UpInv, P!Accepts, P!Enabled, Refused
<1>2. QED
  BY <1>1, ProxyAlways, PTL

-----------------------------------------------------------------------------
(***************************************************************************)
(* Resources from the request to nginx: what the statements of concurrent  *)
(* requests keep true of rows, kinds and specs, and that the files of a    *)
(* proxy rule are those of its row when everything rests, for every set of *)
(* connections, names, kinds and rules, all data, any number of requests,  *)
(* timeouts and failures, and whatever happens to the other rules.         *)
(***************************************************************************)
IsReq(q) ==
    /\ DOMAIN q = {"st", "op", "pc", "key", "data", "ver", "spec"} /\ q.st = "run"
    /\ \/ q.op \in {"create", "put", "delete"} /\ q.key \in Names
       \/ q.op \in {"kind", "unkind"} /\ q.key \in Kinds

(* The spec a request inserted and will write into a row is its owner's,   *)
(* unless a deletion took it meanwhile.                                    *)
Inserted(q) ==
    \/ q.op \in {"create", "put"} /\ q.pc = "save"
    \/ q.op = "kind" /\ q.pc \in {"lookup", "insert", "update"}
Reqs ==
    /\ DOMAIN req = Conns /\ \A k \in Conns : req[k] = None \/ IsReq(req[k])
    /\ \A k \in Conns : req[k] # None /\ Inserted(req[k]) =>
          /\ req[k].spec \in 1..rleft.made
          /\ specs[req[k].spec] = None \/ specs[req[k].spec].of = req[k].key

(* Keys of specs are used once; a row points at a spec of its own.         *)
Tables ==
    /\ DOMAIN rleft = {"made", "reqs", "db", "out", "failed"} /\ rleft.made \in 0..MaxSpecs
    /\ DOMAIN specs = Keys /\ \A s \in Keys : specs[s] # None => s <= rleft.made
    /\ DOMAIN kinds = Kinds /\ DOMAIN res = Names
    /\ \A d \in Kinds : kinds[d] # 0 =>
          kinds[d] \in Keys /\ specs[kinds[d]] # None /\ specs[kinds[d]].of = d
    /\ \A n \in Names : res[n] # 0 =>
          res[n] \in Keys /\ specs[res[n]] # None /\ specs[res[n]].of = n

(* Who will see to the specs of a kind that has no row: a deletion that    *)
(* takes them, or a creation that writes the row.                          *)
Heir(k, d) ==
    /\ req[k] # None /\ req[k].key = d
    /\ \/ req[k].op = "unkind" /\ req[k].pc = "specs"
       \/ req[k].op = "kind" /\ req[k].pc \in {"lookup", "insert"} /\ specs[req[k].spec] # None
Heirs ==
    ~rleft.failed => \A d \in Kinds : kinds[d] = 0 /\ SpecsOf(d) # {} => \E k \in Conns : Heir(k, d)

KindInv == Tables /\ Reqs /\ Heirs
-----------------------------------------------------------------------------
(* One request moves, the others are as they were.                         *)
ReqMoves(k) ==
    /\ DOMAIN req' = Conns /\ \A j \in Conns : j # k => req'[j] = req[j]
    /\ req'[k] = None \/ IsReq(req'[k])

LEMMA ReqShape == \A q : IsReq(q) => q # None
BY DEF IsReq, None

LEMMA ReqEnds ==
    ASSUME Reqs, NEW k \in Conns, End(k)
    PROVE  ReqMoves(k) /\ req'[k] = None
BY DEF Reqs, End, ReqMoves

LEMMA ReqGoes ==
    ASSUME Reqs, NEW k \in Conns, req[k] # None, NEW pc, Go(k, pc)
    PROVE  /\ ReqMoves(k) /\ req'[k] # None /\ req'[k].pc = pc
           /\ req'[k].op = req[k].op /\ req'[k].key = req[k].key /\ req'[k].spec = req[k].spec
<1>1. IsReq(req[k])
  BY DEF Reqs
<1>2. IsReq(req'[k]) /\ req'[k].pc = pc
  BY <1>1 DEF Reqs, Go, IsReq
<1>3. QED
  BY <1>1, <1>2, ReqShape DEF Reqs, Go, ReqMoves, IsReq

LEMMA ReqBegins ==
    ASSUME Reqs, NEW k \in Conns, NEW q, IsReq(q), req' = [req EXCEPT ![k] = q]
    PROVE  ReqMoves(k) /\ req'[k] = q
BY DEF Reqs, ReqMoves

(* A step that leaves the tables alone, of a request that inserted nothing *)
(* new and gives up no inheritance.                                        *)
LEMMA KindAside ==
    ASSUME KindInv, NEW k \in Conns, ReqMoves(k), UNCHANGED <<kinds, res, specs>>,
           DOMAIN rleft' = DOMAIN rleft, rleft'.made = rleft.made, rleft.failed => rleft'.failed,
           req'[k] # None /\ Inserted(req'[k]) =>
              req[k] # None /\ Inserted(req[k]) /\ req'[k].spec = req[k].spec /\ req'[k].key = req[k].key,
           ~rleft'.failed => \A d \in Kinds : Heir(k, d) /\ kinds[d] = 0 => Heir(k, d)'
    PROVE  KindInv'
<1> USE DEF KindInv
<1>1. Tables'
  BY DEF Tables
<1>2. Reqs'
  <2>1. \A j \in Conns : req'[j] = None \/ IsReq(req'[j])
    BY DEF ReqMoves, Reqs
  <2>2. ASSUME NEW j \in Conns, req'[j] # None, Inserted(req'[j])
        PROVE  /\ req'[j].spec \in 1..rleft.made
               /\ specs[req'[j].spec] = None \/ specs[req'[j].spec].of = req'[j].key
    <3>1. CASE j = k
      BY <2>2, <3>1 DEF Reqs
    <3>2. CASE j # k
      BY <2>2, <3>2 DEF Reqs, ReqMoves
    <3>3. QED
      BY <3>1, <3>2
  <2>3. QED
    BY <2>1, <2>2 DEF Reqs, ReqMoves
<1>3. Heirs'
  <2> SUFFICES ASSUME ~rleft'.failed, NEW d \in Kinds, kinds[d] = 0, SpecsOf(d) # {}
               PROVE  \E j \in Conns : Heir(j, d)'
    BY DEF Heirs, SpecsOf
  <2>1. PICK j \in Conns : Heir(j, d)
    BY DEF Heirs
  <2>2. CASE j = k
    BY <2>1, <2>2
  <2>3. CASE j # k
    <3>1. Heir(j, d)'
      BY <2>1, <2>3 DEF Heir, ReqMoves
    <3>2. QED
      BY <3>1
  <2>4. QED
    BY <2>2, <2>3
<1>4. QED
  BY <1>1, <1>2, <1>3

LEMMA ReqAt ==
    ASSUME Reqs, NEW k \in Conns, NEW ops, NEW pc, At(k, ops, pc)
    PROVE  req[k] # None /\ IsReq(req[k]) /\ req[k].op \in ops /\ req[k].pc = pc
BY DEF Reqs, At

(* Requests begin.                                                         *)
LEMMA KindBegins ==
    ASSUME KindInv, NEW k \in Conns,
           \/ \E op1 \in Ops, n \in Names : \E data \in DataOf[n] : Request(k, op1, n, data)
           \/ \E op1 \in Ops, d \in Kinds, v \in Versions : KindRequest(k, op1, d, v)
    PROVE  KindInv'
<1> USE DEF KindInv
<1>1. /\ req[k] = None /\ UNCHANGED <<kinds, res, specs>>
      /\ DOMAIN rleft' = DOMAIN rleft /\ rleft'.made = rleft.made /\ rleft'.failed = rleft.failed
  BY DEF Request, KindRequest, Spend, Tables
<1>2. \E q : IsReq(q) /\ q.pc = "read" /\ req' = [req EXCEPT ![k] = q]
  <2>1. ASSUME NEW op1 \in Ops, NEW n \in Names, NEW data \in DataOf[n], Request(k, op1, n, data)
        PROVE  \E q : IsReq(q) /\ q.pc = "read" /\ req' = [req EXCEPT ![k] = q]
    <3>1. op1 \in {"create", "put", "revert", "delete"}
      BY <2>1, ResourcesAssumption DEF Request
    <3>2. CASE op1 = "revert"
      <4>1. PICK s \in SpecsOf(n) : req' = [req EXCEPT ![k] = Frame("put", n, specs[s].data, 0)]
        BY <2>1, <3>2 DEF Request
      <4>2. IsReq(Frame("put", n, specs[s].data, 0)) /\ Frame("put", n, specs[s].data, 0).pc = "read"
        BY DEF IsReq, Frame
      <4>3. QED
        BY <4>1, <4>2
    <3>3. CASE op1 # "revert"
      <4>1. req' = [req EXCEPT ![k] = Frame(op1, n, data, 0)]
        BY <2>1, <3>3 DEF Request
      <4>2. IsReq(Frame(op1, n, data, 0)) /\ Frame(op1, n, data, 0).pc = "read"
        BY <3>1, <3>3 DEF IsReq, Frame
      <4>3. QED
        BY <4>1, <4>2
    <3>4. QED
      BY <3>2, <3>3
  <2>2. ASSUME NEW op1 \in Ops, NEW d \in Kinds, NEW v \in Versions, KindRequest(k, op1, d, v)
        PROVE  \E q : IsReq(q) /\ q.pc = "read" /\ req' = [req EXCEPT ![k] = q]
    <3>1. op1 \in {"kind", "unkind"} /\ req' = [req EXCEPT ![k] = Frame(op1, d, 0, v)]
      BY <2>2 DEF KindRequest
    <3>2. IsReq(Frame(op1, d, 0, v)) /\ Frame(op1, d, 0, v).pc = "read"
      BY <3>1 DEF IsReq, Frame
    <3>3. QED
      BY <3>1, <3>2
  <2>3. QED
    BY <2>1, <2>2
<1>3. PICK q : IsReq(q) /\ q.pc = "read" /\ req' = [req EXCEPT ![k] = q]
  BY <1>2
<1>4. ReqMoves(k) /\ req'[k] = q
  BY <1>3, ReqBegins
<1>5. ~Inserted(req'[k]) /\ \A d \in Kinds : ~Heir(k, d)
  BY <1>1, <1>3, <1>4 DEF Inserted, Heir
<1>6. QED
  BY <1>1, <1>4, <1>5, KindAside

(* The steps that read, call a controller or only go on.                   *)
Reads(k) ==
    \/ ReadRow(k) \/ Hook(k) \/ HookDone(k) \/ HookTimeout(k)
    \/ KindRead(k) \/ KindLookup(k) \/ KindDelete(k)

LEMMA KindReads ==
    ASSUME KindInv, NEW k \in Conns, Reads(k)
    PROVE  KindInv'
<1> USE DEF KindInv
<1>1. /\ UNCHANGED <<kinds, res, specs>>
      /\ DOMAIN rleft' = DOMAIN rleft /\ rleft'.made = rleft.made /\ rleft'.failed = rleft.failed
  BY DEF Reads, ReadRow, Hook, HookDone, HookTimeout, KindRead, KindLookup, KindDelete, Spend, Tables
<1>2. CASE KindLookup(k)
  <2>1. req[k] # None /\ IsReq(req[k]) /\ req[k].op = "kind" /\ req[k].pc = "lookup"
    BY <1>2, ReqAt DEF KindLookup
  <2>2. PICK pc \in {"insert", "update"} :
           Go(k, pc) /\ (kinds[req[k].key] = 0 => pc = "insert")
    BY <1>2 DEF KindLookup
  <2>3. /\ ReqMoves(k) /\ req'[k] # None /\ req'[k].pc = pc
        /\ req'[k].op = req[k].op /\ req'[k].key = req[k].key /\ req'[k].spec = req[k].spec
    BY <2>1, <2>2, ReqGoes
  <2>4. \A d \in Kinds : Heir(k, d) /\ kinds[d] = 0 => Heir(k, d)'
    BY <1>1, <2>1, <2>2, <2>3 DEF Heir
  <2>5. Inserted(req[k])
    BY <2>1 DEF Inserted
  <2>6. QED
    BY <1>1, <2>1, <2>3, <2>4, <2>5, KindAside
<1>3. CASE ~KindLookup(k)
  <2>1. /\ req[k] # None /\ req[k].pc \in {"read", "hook", "wait"}
        /\ End(k) \/ \E pc \in {"hook", "wait", "kind", "row", "spec"} : Go(k, pc)
    BY <1>3 DEF Reads, ReadRow, Hook, HookDone, HookTimeout, KindRead, KindDelete, At
  <2>2. \A d \in Kinds : ~Heir(k, d)
    BY <2>1 DEF Heir
  <2>3. CASE End(k)
    BY <1>1, <2>2, <2>3, ReqEnds, KindAside
  <2>4. CASE \E pc \in {"hook", "wait", "kind", "row", "spec"} : Go(k, pc)
    <3>1. PICK pc \in {"hook", "wait", "kind", "row", "spec"} : Go(k, pc)
      BY <2>4
    <3>2. ReqMoves(k) /\ req'[k].pc = pc
      BY <2>1, <3>1, ReqGoes
    <3>3. ~Inserted(req'[k])
      BY <3>2 DEF Inserted
    <3>4. QED
      BY <1>1, <2>2, <3>2, <3>3, KindAside
  <2>5. QED
    BY <2>1, <2>3, <2>4
<1>4. QED
  BY <1>2, <1>3

LEMMA KindDbFails ==
    ASSUME KindInv, NEW k \in Conns, DbFails(k)
    PROVE  KindInv'
<1> USE DEF KindInv
<1>1. /\ UNCHANGED <<kinds, res, specs>> /\ End(k)
      /\ DOMAIN rleft' = DOMAIN rleft /\ rleft'.made = rleft.made /\ rleft'.failed
  BY DEF DbFails, Tables
<1>2. QED
  BY <1>1, ReqEnds, KindAside
-----------------------------------------------------------------------------
(* The insert of a spec, which no row refers to yet.                       *)
LEMMA SpecInserts ==
    ASSUME Tables, NEW spec, InsertSpec(spec)
    PROVE  /\ rleft.made + 1 \in Keys /\ specs[rleft.made + 1] = None
           /\ DOMAIN specs' = Keys /\ specs'[rleft.made + 1] = spec
           /\ \A s \in Keys : s # rleft.made + 1 => specs'[s] = specs[s]
           /\ DOMAIN rleft' = DOMAIN rleft /\ rleft'.made = rleft.made + 1 /\ rleft'.failed = rleft.failed
<1>1. MaxSpecs \in Nat /\ rleft.made \in Nat /\ rleft.made + 1 \in Keys
  BY ResourcesAssumption DEF Tables, InsertSpec, Keys
<1>2. specs[rleft.made + 1] = None
  BY <1>1 DEF Tables
<1>3. QED
  BY <1>1, <1>2 DEF InsertSpec, Tables

LEMMA KindInserts ==
    ASSUME KindInv, NEW k \in Conns, SaveSpec(k) \/ KindSpec(k)
    PROVE  KindInv'
<1> USE DEF KindInv
<1>0. req[k] # None /\ IsReq(req[k]) /\ ~Inserted(req[k]) /\ UNCHANGED <<kinds, res>>
  <2>1. CASE SaveSpec(k)
    BY <2>1, ReqAt DEF SaveSpec, Inserted
  <2>2. CASE KindSpec(k)
    BY <2>2, ReqAt DEF KindSpec, Inserted
  <2>3. QED
    BY <2>1, <2>2
<1>1. \A d \in Kinds : ~Heir(k, d)
  <2>1. CASE SaveSpec(k)
    BY <2>1, ReqAt DEF SaveSpec, Heir
  <2>2. CASE KindSpec(k)
    BY <2>2, ReqAt DEF KindSpec, Heir
  <2>3. QED
    BY <2>1, <2>2
<1> DEFINE n == req[k].key
           gone == SaveSpec(k) /\ (kinds[KindOf[n]] = 0 \/ (req[k].op = "put" /\ res[n] = 0))
<1>2. CASE gone
  <2>1. End(k) /\ UNCHANGED <<specs, rleft>>
    BY <1>2 DEF SaveSpec
  <2>2. ReqMoves(k) /\ req'[k] = None
    BY <2>1, ReqEnds
  <2>3. QED
    BY <1>0, <1>1, <2>1, <2>2, KindAside
<1>3. CASE ~gone
  <2> DEFINE m == rleft.made + 1
  <2>1. PICK spec : /\ InsertSpec(spec) /\ spec # None /\ spec.of = req[k].key
                    /\ \E pc \in {"save", "lookup"} :
                          /\ req' = [req EXCEPT ![k].pc = pc, ![k].spec = m]
                          /\ pc = "save" <=> req[k].op # "kind"
    <3>1. CASE SaveSpec(k)
      <4> DEFINE spec == [st |-> "spec", of |-> req[k].key, data |-> req[k].data,
                          ver |-> specs[kinds[KindOf[req[k].key]]].ver]
      <4>1. InsertSpec(spec) /\ req' = [req EXCEPT ![k].pc = "save", ![k].spec = m]
        BY <1>3, <3>1 DEF SaveSpec
      <4>2. spec # None /\ spec.of = req[k].key
        BY DEF None
      <4>3. req[k].op # "kind"
        BY <3>1, ReqAt DEF SaveSpec
      <4>4. QED
        BY <4>1, <4>2, <4>3
    <3>2. CASE KindSpec(k)
      <4> DEFINE spec == [st |-> "spec", of |-> req[k].key, ver |-> req[k].ver, data |-> 0]
      <4>1. InsertSpec(spec) /\ req' = [req EXCEPT ![k].pc = "lookup", ![k].spec = m]
        BY <3>2 DEF KindSpec
      <4>2. spec # None /\ spec.of = req[k].key
        BY DEF None
      <4>3. req[k].op = "kind"
        BY <3>2, ReqAt DEF KindSpec
      <4>4. QED
        BY <4>1, <4>2, <4>3
    <3>3. QED
      BY <3>1, <3>2
  <2>2. PICK pc \in {"save", "lookup"} : /\ req' = [req EXCEPT ![k].pc = pc, ![k].spec = m]
                                         /\ pc = "save" <=> req[k].op # "kind"
    BY <2>1
  <2>3. /\ DOMAIN req' = Conns /\ \A j \in Conns : j # k => req'[j] = req[j]
        /\ IsReq(req'[k]) /\ req'[k].pc = pc /\ req'[k].spec = m
        /\ req'[k].op = req[k].op /\ req'[k].key = req[k].key
    BY <1>0, <2>2 DEF Reqs, IsReq
  <2>4. /\ m \in Keys /\ specs[m] = None
        /\ DOMAIN specs' = Keys /\ specs'[m] = spec
        /\ \A s \in Keys : s # m => specs'[s] = specs[s]
        /\ DOMAIN rleft' = DOMAIN rleft /\ rleft'.made = m /\ rleft'.failed = rleft.failed
    BY <2>1, SpecInserts
  <2>5. m \in Nat /\ rleft.made \in Nat /\ MaxSpecs \in Nat /\ 1..rleft.made \subseteq Keys
    BY ResourcesAssumption DEF Tables, Keys
  <2>6. Tables'
    <3>1. \A s \in Keys : specs[s] # None => specs'[s] = specs[s]
      BY <2>4
    <3>2. \A s \in Keys : specs'[s] # None => s <= m
      BY <2>4, <2>5 DEF Tables, Keys
    <3>3. m \in 0..MaxSpecs
      BY <2>4, <2>5 DEF Keys
    <3>4. QED
      BY <1>0, <2>4, <3>1, <3>2, <3>3 DEF Tables
  <2>7. Reqs'
    <3> SUFFICES ASSUME NEW j \in Conns, req'[j] # None, Inserted(req'[j])
                 PROVE  /\ req'[j].spec \in 1..m
                        /\ specs'[req'[j].spec] = None \/ specs'[req'[j].spec].of = req'[j].key
      BY <2>3, <2>4 DEF Reqs
    <3>1. CASE j = k
      BY <2>1, <2>3, <2>4, <2>5, <3>1
    <3>2. CASE j # k
      <4>1. /\ req'[j] = req[j] /\ req[j].spec \in 1..rleft.made
            /\ specs[req[j].spec] = None \/ specs[req[j].spec].of = req[j].key
        BY <2>3, <3>2 DEF Reqs
      <4>2. req[j].spec # m /\ req[j].spec \in Keys /\ req[j].spec \in 1..m
        BY <2>5, <4>1
      <4>3. QED
        BY <2>4, <4>1, <4>2
    <3>3. QED
      BY <3>1, <3>2
  <2>8. Heirs'
    <3> SUFFICES ASSUME ~rleft.failed, NEW d \in Kinds, kinds[d] = 0, SpecsOf(d)' # {}
                 PROVE  \E j \in Conns : Heir(j, d)'
      BY <1>0, <2>4 DEF Heirs, SpecsOf
    <3>1. CASE req[k].key = d
      <4>1. req[k].op = "kind" /\ pc = "lookup"
        <5>1. IsReq(req[k]) /\ d \notin Names
          BY <1>0, ResourcesAssumption
        <5>2. req[k].op \in {"kind", "unkind"}
          BY <3>1, <5>1 DEF IsReq
        <5>3. SaveSpec(k) => req[k].op \in {"create", "put"}
          BY ReqAt DEF SaveSpec
        <5>4. KindSpec(k) => req[k].op = "kind"
          BY ReqAt DEF KindSpec
        <5>5. QED
          BY <2>2, <5>2, <5>3, <5>4
      <4>2. Heir(k, d)'
        BY <2>1, <2>3, <2>4, <3>1, <4>1, ReqShape DEF Heir
      <4>3. QED
        BY <4>2
    <3>2. CASE req[k].key # d
      <4>1. SpecsOf(d) # {}
        BY <2>1, <2>4, <3>2 DEF SpecsOf
      <4>2. PICK j \in Conns : Heir(j, d)
        BY <4>1 DEF Heirs
      <4>3. j # k
        BY <1>1, <4>2
      <4>4. req'[j] = req[j]
        BY <2>3, <4>3
      <4>5. Inserted(req[j]) => req[j].spec \in Keys /\ req[j].spec # m
        BY <2>5, <4>2 DEF Reqs, Heir
      <4>6. Heir(j, d)'
        BY <2>4, <4>2, <4>4, <4>5 DEF Heir, Inserted
      <4>7. QED
        BY <4>6
    <3>3. QED
      BY <3>1, <3>2
  <2>9. QED
    BY <2>6, <2>7, <2>8
<1>4. QED
  BY <1>2, <1>3

(* The write of a row.                                                     *)
LEMMA KindRows ==
    ASSUME KindInv, NEW k \in Conns, SaveRow(k) \/ KindRow(k) \/ DelRow(k) \/ KindDelRow(k)
    PROVE  KindInv'
<1> USE DEF KindInv
<1>0. Keys = 1..MaxSpecs /\ MaxSpecs \in Nat /\ rleft.made \in 0..MaxSpecs /\ 1..rleft.made \subseteq Keys
  BY ResourcesAssumption DEF Tables, Keys
<1>1. CASE SaveRow(k)
  <2>1. /\ req[k] # None /\ IsReq(req[k]) /\ req[k].op \in {"create", "put"} /\ req[k].pc = "save"
        /\ End(k) /\ UNCHANGED <<kinds, specs, rleft>>
    BY <1>1, ReqAt DEF SaveRow
  <2>2. /\ req[k].key \in Names /\ req[k].spec \in Keys
        /\ specs[req[k].spec] = None \/ specs[req[k].spec].of = req[k].key
    BY <1>0, <2>1 DEF IsReq, Reqs, Inserted
  <2>3. /\ DOMAIN res' = Names /\ \A n \in Names : n # req[k].key => res'[n] = res[n]
        /\ \/ res'[req[k].key] = res[req[k].key]
           \/ res'[req[k].key] = req[k].spec /\ specs[req[k].spec] # None
    BY <1>1, <2>2 DEF SaveRow, Tables
  <2>4. ReqMoves(k) /\ req'[k] = None
    BY <2>1, ReqEnds
  <2>5. Tables'
    BY <2>1, <2>2, <2>3 DEF Tables
  <2>6. Reqs'
    BY <2>1, <2>4 DEF Reqs, ReqMoves
  <2>7. Heirs'
    BY <2>1, <2>4 DEF Heirs, Heir, ReqMoves, SpecsOf
  <2>8. QED
    BY <2>5, <2>6, <2>7
<1>2. CASE KindRow(k)
  <2>1. /\ req[k] # None /\ IsReq(req[k]) /\ req[k].op = "kind" /\ req[k].pc \in {"insert", "update"}
        /\ End(k) /\ UNCHANGED <<res, specs, rleft>>
    BY <1>2, ReqAt DEF KindRow
  <2>2. /\ req[k].key \in Kinds /\ req[k].spec \in Keys /\ req[k].spec # 0
        /\ specs[req[k].spec] = None \/ specs[req[k].spec].of = req[k].key
    BY <1>0, <2>1 DEF IsReq, Reqs, Inserted
  <2>3. /\ DOMAIN kinds' = Kinds /\ \A d \in Kinds : d # req[k].key => kinds'[d] = kinds[d]
        /\ \/ kinds'[req[k].key] = kinds[req[k].key]
           \/ kinds'[req[k].key] = req[k].spec /\ specs[req[k].spec] # None
        /\ req[k].pc = "insert" /\ specs[req[k].spec] # None => kinds'[req[k].key] # 0
    BY <1>2, <2>2 DEF KindRow, Tables
  <2>4. ReqMoves(k) /\ req'[k] = None
    BY <2>1, ReqEnds
  <2>5. Tables'
    BY <2>1, <2>2, <2>3 DEF Tables
  <2>6. Reqs'
    BY <2>1, <2>4 DEF Reqs, ReqMoves
  <2>7. Heirs'
    <3> SUFFICES ASSUME ~rleft.failed, NEW d \in Kinds, kinds'[d] = 0, SpecsOf(d) # {}
                 PROVE  \E j \in Conns : Heir(j, d)'
      BY <2>1 DEF Heirs, SpecsOf
    <3>1. kinds[d] = 0
      BY <2>2, <2>3
    <3>2. PICK j \in Conns : Heir(j, d)
      BY <3>1 DEF Heirs
    <3>3. j # k
      BY <2>1, <2>3, <3>2 DEF Heir
    <3>4. Heir(j, d)'
      BY <2>1, <2>4, <3>2, <3>3 DEF Heir, ReqMoves
    <3>5. QED
      BY <3>4
  <2>8. QED
    BY <2>5, <2>6, <2>7
<1>3. CASE DelRow(k)
  <2>1. /\ req[k] # None /\ IsReq(req[k]) /\ req[k].op = "delete" /\ req[k].pc = "row"
        /\ Go(k, "specs") /\ UNCHANGED <<kinds, specs, rleft>>
    BY <1>3, ReqAt DEF DelRow
  <2>2. ReqMoves(k) /\ req'[k].pc = "specs" /\ \A d \in Kinds : ~Heir(k, d)
    BY <2>1, ReqGoes DEF Heir
  <2>3. DOMAIN res' = Names /\ \A n \in Names : res'[n] = res[n] \/ res'[n] = 0
    BY <1>3 DEF DelRow, Tables
  <2>4. Tables'
    BY <2>1, <2>3 DEF Tables
  <2>5. Reqs'
    BY <2>1, <2>2 DEF Reqs, ReqMoves, Inserted
  <2>6. Heirs'
    BY <2>1, <2>2 DEF Heirs, Heir, ReqMoves, SpecsOf
  <2>7. QED
    BY <2>4, <2>5, <2>6
<1>4. CASE KindDelRow(k)
  <2>1. /\ req[k] # None /\ IsReq(req[k]) /\ req[k].op = "unkind" /\ req[k].pc = "row"
        /\ Go(k, "specs") /\ UNCHANGED <<res, specs, rleft>>
    BY <1>4, ReqAt DEF KindDelRow
  <2>2. /\ ReqMoves(k) /\ req'[k] # None /\ req'[k].pc = "specs" /\ req'[k].op = "unkind"
        /\ req'[k].key = req[k].key
    BY <2>1, ReqGoes
  <2>3. DOMAIN kinds' = Kinds /\ \A d \in Kinds : kinds'[d] = kinds[d] \/ (kinds'[d] = 0 /\ d = req[k].key)
    BY <1>4 DEF KindDelRow, Tables
  <2>4. Tables'
    BY <2>1, <2>3 DEF Tables
  <2>5. Reqs'
    BY <2>1, <2>2 DEF Reqs, ReqMoves, Inserted
  <2>6. Heirs'
    <3> SUFFICES ASSUME ~rleft.failed, NEW d \in Kinds, kinds'[d] = 0, SpecsOf(d) # {}
                 PROVE  \E j \in Conns : Heir(j, d)'
      BY <2>1 DEF Heirs, SpecsOf
    <3>1. CASE d = req[k].key
      BY <2>2, <3>1 DEF Heir
    <3>2. CASE d # req[k].key
      <4>1. PICK j \in Conns : Heir(j, d)
        BY <2>3, <3>2 DEF Heirs
      <4>2. Heir(j, d)'
        BY <2>1, <2>2, <3>2, <4>1 DEF Heir, ReqMoves
      <4>3. QED
        BY <4>2
    <3>3. QED
      BY <3>1, <3>2
  <2>7. QED
    BY <2>4, <2>5, <2>6
<1>5. QED
  BY <1>1, <1>2, <1>3, <1>4
(* The deletion of the specs of a kind or resource: all, or none while a   *)
(* row refers to one.                                                      *)
LEMMA KindDelSpecs ==
    ASSUME KindInv, NEW k \in Conns, DelSpecs(k)
    PROVE  KindInv'
<1> USE DEF KindInv
<1> DEFINE o == req[k].key
<1>1. /\ req[k] # None /\ IsReq(req[k]) /\ req[k].op \in {"delete", "unkind"}
      /\ End(k) /\ UNCHANGED <<kinds, res, rleft>>
  BY ReqAt DEF DelSpecs
<1>2. ReqMoves(k) /\ req'[k] = None
  BY <1>1, ReqEnds
<1>3. CASE Unreferenced(SpecsOf(o))
  <2>1. /\ DOMAIN specs' = Keys
        /\ \A s \in Keys : specs'[s] = IF s \in SpecsOf(o) THEN None ELSE specs[s]
    BY <1>3 DEF DelSpecs, DeleteSpecs
  <2>2. /\ \A n \in Names : res[n] # 0 => specs'[res[n]] = specs[res[n]]
        /\ \A d \in Kinds : kinds[d] # 0 => specs'[kinds[d]] = specs[kinds[d]]
    BY <1>3, <2>1 DEF Unreferenced, Tables
  <2>3. Tables'
    BY <1>1, <2>1, <2>2 DEF Tables
  <2>4. Reqs'
    <3> SUFFICES ASSUME NEW j \in Conns, req'[j] # None, Inserted(req'[j])
                 PROVE  /\ req'[j].spec \in 1..rleft.made
                        /\ specs'[req'[j].spec] = None \/ specs'[req'[j].spec].of = req'[j].key
      BY <1>1, <1>2 DEF Reqs, ReqMoves
    <3>1. 1..rleft.made \subseteq Keys
      BY ResourcesAssumption DEF Tables, Keys
    <3>2. QED
      BY <1>2, <2>1, <3>1 DEF Reqs, ReqMoves
  <2>5. Heirs'
    <3> SUFFICES ASSUME ~rleft.failed, NEW d \in Kinds, kinds[d] = 0, SpecsOf(d)' # {}
                 PROVE  \E j \in Conns : Heir(j, d)'
      BY <1>1 DEF Heirs
    <3>1. SpecsOf(d) # {} /\ d # o
      BY <2>1 DEF SpecsOf
    <3>2. PICK j \in Conns : Heir(j, d)
      BY <3>1 DEF Heirs
    <3>3. j # k /\ req'[j] = req[j]
      BY <1>2, <3>1, <3>2 DEF Heir, ReqMoves
    <3>4. Inserted(req[j]) => req[j].spec \in Keys /\ (specs[req[j].spec] # None => req[j].spec \notin SpecsOf(o))
      BY <3>1, <3>2, ResourcesAssumption DEF Reqs, Heir, Tables, Keys, SpecsOf
    <3>5. Heir(j, d)'
      BY <2>1, <3>2, <3>3, <3>4 DEF Heir, Inserted
    <3>6. QED
      BY <3>5
  <2>6. QED
    BY <2>3, <2>4, <2>5
<1>4. CASE ~Unreferenced(SpecsOf(o))
  <2>1. UNCHANGED specs
    BY <1>4 DEF DelSpecs
  <2>2. Tables' /\ Reqs'
    BY <1>1, <1>2, <2>1 DEF Tables, Reqs, ReqMoves
  <2>3. \A d \in Kinds : Heir(k, d) => kinds[d] # 0
    <3> SUFFICES ASSUME NEW d \in Kinds, Heir(k, d) PROVE kinds[d] # 0
      OBVIOUS
    <3>1. d = o
      BY DEF Heir
    <3>2. \A n \in Names : res[n] \notin SpecsOf(o)
      BY <3>1, ResourcesAssumption DEF Tables, SpecsOf, Keys
    <3>3. PICK e \in Kinds : kinds[e] \in SpecsOf(o)
      BY <1>4, <3>2 DEF Unreferenced
    <3>4. kinds[e] # 0 /\ e = o
      BY <3>3 DEF Tables, SpecsOf, Keys
    <3>5. QED
      BY <3>1, <3>4
  <2>4. Heirs'
    BY <1>1, <1>2, <2>1, <2>3 DEF Heirs, Heir, ReqMoves, SpecsOf
  <2>5. QED
    BY <2>2, <2>4
<1>5. QED
  BY <1>3, <1>4
-----------------------------------------------------------------------------
LEMMA KindInit == Init => KindInv
<1> SUFFICES ASSUME Init PROVE KindInv
  OBVIOUS
<1> USE DEF Init, RInit
<1> DEFINE c == Cardinality(Registered)
<1>1. c \in 0..MaxSpecs /\ MaxSpecs \in Nat /\ Registered \subseteq Kinds
  BY ResourcesAssumption
<1>2. /\ kinds \in [Kinds -> 0..c] /\ \A d \in Kinds : (kinds[d] # 0) <=> (d \in Registered)
      /\ \A d, e \in Registered : d # e => kinds[d] # kinds[e]
  OBVIOUS
<1> HIDE DEF c
<1>3. ASSUME NEW s \in Keys, specs[s] # None
      PROVE  \E d \in Registered : kinds[d] = s /\ specs[s].of = d
  <2>1. \E d \in Registered : kinds[d] = s
    BY <1>3
  <2>2. PICK d \in Registered : d = CHOOSE e \in Registered : kinds[e] = s
    BY <2>1
  <2>3. kinds[d] = s
    BY <2>1, <2>2
  <2>4. specs[s] = [st |-> "spec", of |-> d, ver |-> 1, data |-> 0]
    BY <2>1, <2>2
  <2>5. QED
    BY <2>3, <2>4
<1>4. ASSUME NEW d \in Registered
      PROVE  kinds[d] \in Keys /\ specs[kinds[d]] # None /\ specs[kinds[d]].of = d
  <2>1. kinds[d] \in Keys
    BY <1>1, <1>2 DEF Keys
  <2>2. specs[kinds[d]] # None
    BY <2>1 DEF None
  <2>3. QED
    BY <1>2, <1>3, <2>1, <2>2
<1>5. rleft.made = c
  BY DEF c
<1>6. Tables
  <2>1. \A s \in Keys : specs[s] # None => s <= rleft.made
    BY <1>1, <1>2, <1>3, <1>5
  <2>2. \A d \in Kinds : kinds[d] # 0 => kinds[d] \in Keys /\ specs[kinds[d]] # None /\ specs[kinds[d]].of = d
    BY <1>2, <1>4
  <2>3. DOMAIN rleft = {"made", "reqs", "db", "out", "failed"} /\ DOMAIN specs = Keys
        /\ DOMAIN kinds = Kinds /\ DOMAIN res = Names /\ \A n \in Names : res[n] = 0
    BY <1>2
  <2>4. QED
    BY <1>1, <1>5, <2>1, <2>2, <2>3 DEF Tables
<1>7. Reqs
  BY DEF Reqs
<1>8. Heirs
  BY <1>2, <1>3 DEF Heirs, SpecsOf
<1>9. QED
  BY <1>6, <1>7, <1>8 DEF KindInv

LEMMA KindStep == KindInv /\ [Next]_vars => KindInv'
<1> SUFFICES ASSUME KindInv, [Next]_vars PROVE KindInv'
  OBVIOUS
<1>1. CASE UNCHANGED <<kinds, res, specs, req, rleft>>
  BY <1>1 DEF KindInv, Tables, Reqs, Heirs, Heir, SpecsOf
<1>2. CASE RNext
  <2>1. PICK k \in Conns :
           \/ \E op1 \in Ops, n \in Names : \E data \in DataOf[n] : Request(k, op1, n, data)
           \/ \E op1 \in Ops, d \in Kinds, v \in Versions : KindRequest(k, op1, d, v)
           \/ RequestStep(k)
    BY <1>2 DEF RNext
  <2>2. CASE RequestStep(k)
    BY <2>2, KindReads, KindInserts, KindRows, KindDelSpecs, KindDbFails DEF RequestStep, Reads
  <2>3. CASE ~RequestStep(k)
    BY <2>1, <2>3, KindBegins
  <2>4. QED
    BY <2>2, <2>3
<1>3. QED
  BY <1>1, <1>2 DEF Next, vars, rvars

LEMMA KindAlways == Spec => []KindInv
BY KindInit, KindStep, PTL DEF Spec

(* However creations and deletions of a kind race, statement by statement, *)
(* the kind is left with its row or without its versions: it can always be *)
(* created or deleted again, unless a statement failed.                    *)
THEOREM KindsStayUsable == Spec => []KindUsable
<1>1. KindInv => KindUsable
  BY DEF KindInv, Heirs, Heir, KindUsable, Resting
<1>2. QED
  BY <1>1, KindAlways, PTL
-----------------------------------------------------------------------------

(* A call is that of the request that waits for it, until the request      *)
(* gives up; who works on a call has its key and data.                     *)
IsCall(c) ==
    /\ DOMAIN c = {"st", "key", "verb", "data"} /\ c.st \in {"sent", "lost", "ok", "err"}
    /\ c.key \in Names /\ c.verb \in {"add", "del"}
Asked(k) ==
    /\ req[k] # None /\ req[k].pc = "wait" /\ req[k].data = call[k].data
    /\ call[k].verb = IF req[k].op = "delete" THEN "del" ELSE "add"
CallOk(k) ==
    /\ call[k] = None \/ IsCall(call[k])
    /\ call[k] # None /\ req[k] # None => req[k].key = call[k].key
    /\ call[k] # None /\ call[k].st # "lost" => Asked(k)
    /\ req[k] # None /\ req[k].pc = "wait" => call[k] # None /\ call[k].st # "lost"
    /\ req[k] # None /\ req[k].pc \in {"read", "hook"} => call[k] = None
    /\ op[k] # None =>
          /\ call[k] # None /\ call[k].st \in {"sent", "lost"} /\ call[k].key = op[k].rule
          /\ call[k].verb = op[k].verb /\ call[k].data = op[k].data
    /\ dns[k] # None =>
          call[k] # None /\ call[k].st \in {"sent", "lost"} /\ call[k].key \in DnsNames
Calls == DOMAIN call = Conns /\ DOMAIN dns = Conns /\ \A k \in Conns : CallOk(k)

(* The spec a request saves has the data it asked the controller for.      *)
Saves ==
    \A k \in Conns : req[k] # None /\ req[k].op \in {"create", "put"} /\ req[k].pc = "save" =>
        specs[req[k].spec] = None \/ specs[req[k].spec].data = req[k].data

(* What an operation has made of its data.                                 *)
Made(o) ==
    /\ o.verb = "del" => o.pc \in {"rm1", "rm2", "rm3", "rm4", "ok"}
    /\ o.verb = "add" /\ o.pc \in {"up", "stream", "link", "site", "enable"} =>
          /\ (o.site = None) <=> (o.data.site = "no")
          /\ o.site # None => o.site.of = o.data.site
          /\ o.stream # None => o.stream.of = o.data.stream
Making ==
    /\ \A x \in P!Slots : op[x] # None => op[x].verb \in {"add", "del"} /\ Made(op[x])
    /\ \A r \in Rules : op[r] # None => op[r].rule = r /\ op[r].verb = "add"
    /\ loop.st = "busy" => loop.rules \subseteq Rules

(* The files of a rule.                                                    *)
Whole(r) == stream[r].link => stream[r].text # None
StreamServed(r, d) ==
    stream[r].link /\ d.stream # "no" => stream[r].text # None /\ stream[r].text.of = d.stream
Served(r, d) ==
    /\ d.site # "no" => site[r].link /\ site[r].text # None /\ site[r].text.of = d.site
    /\ StreamServed(r, d)
Gone(r) == ~site[r].link /\ ~stream[r].link
InSync(r) == Whole(r) /\ IF res[r] = 0 THEN Gone(r) ELSE Served(r, Data(r))

(* How far an operation on r is with them; one that failed says nothing.   *)
Progress(x, r) ==
    LET d == op[x].data
        pc == op[x].pc
    IN  /\ op[x].verb = "add" =>
              /\ pc \in {"gen", "up", "stream", "site", "enable", "test", "ok"} => Whole(r)
              /\ pc \in {"up", "stream"} /\ op[x].stream = None => StreamServed(r, d)
              /\ pc = "link" => stream[r].text # None /\ stream[r].text = op[x].stream
              /\ pc \in {"site", "enable"} => StreamServed(r, d)
              /\ pc = "enable" => site[r].text # None /\ site[r].text = op[x].site
              /\ pc \in {"test", "ok"} => Served(r, d)
        /\ op[x].verb = "del" =>
              /\ pc \in {"rm3", "rm4", "ok"} => ~site[r].link
              /\ pc = "ok" => Gone(r)

(* A request that has not reached ncproxy, and one that has.               *)
About(k, r) == req[k] # None /\ req[k].key = r
Early(k) ==
    req[k].pc \in {"read", "hook"} \/ (req[k].pc = "wait" /\ call[k].st = "sent" /\ op[k] = None)
Done(k, r) == Whole(r) /\ IF req[k].op = "delete" THEN Gone(r) ELSE Served(r, req[k].data)
Late(k, r) ==
    /\ op[k] # None => Progress(k, r)
    /\ req[k].pc = "wait" /\ call[k].st = "ok" => Done(k, r)
    /\ req[k].pc \in {"kind", "save", "row", "specs"} => Done(k, r)
    /\ req[k].pc = "specs" => res[r] = 0

(* One request, or the event loop and no request that reached ncproxy, is  *)
(* at work on the files of a calm rule; without either they are in sync.   *)
Calm(r) ==
    /\ \A j, k \in Conns : P!Touches(j, r) /\ P!Touches(k, r) => j = k
    /\ \A k \in Conns : call[k] # None /\ call[k].key = r => call[k].st # "lost"
    /\ \A k \in Conns : About(k, r) /\ ~Early(k) => op[r] = None /\ Late(k, r)
    /\ op[r] # None => res[r] # 0 /\ op[r].data = Data(r) /\ Progress(r, r)
    /\ op[r] = None /\ (\A k \in Conns : About(k, r) => Early(k)) => InSync(r)

CalmInv == DOMAIN calm = Names /\ \A r \in Rules : calm[r] => Calm(r)
FilesInv == Calls /\ Saves /\ Making /\ CalmInv
RuleInv == ProxyInv /\ KindInv /\ FilesInv
-----------------------------------------------------------------------------
LEMMA Nones == P!None = None /\ D!None = None
BY DEF None, P!None, D!None

LEMMA ConnsAndRules ==
    /\ P!Slots = Conns \cup Rules /\ \A k \in Conns : k \notin Rules
    /\ \A r \in Rules : r \in Names /\ r \notin DnsNames /\ r \notin Kinds
BY ControllersAssumption, ResourcesAssumption DEF P!Slots

LEMMA Touch ==
    \A k \in Conns : \A r : P!Touches(k, r) <=> About(k, r) \/ (call[k] # None /\ call[k].key = r)
BY Nones DEF P!Touches, About

(* A step that is not about a rule leaves it calm.                         *)
Same(r) ==
    /\ res'[r] = res[r] /\ (res[r] # 0 => Data(r)' = Data(r))
    /\ site'[r] = site[r] /\ stream'[r] = stream[r] /\ op'[r] = op[r]
Idle(k) == req'[k] = req[k] /\ call'[k] = call[k] /\ op'[k] = op[k]

LEMMA Untouched ==
    ASSUME NEW r \in Rules, Calm(r), Same(r),
           \A k \in Conns : Idle(k) \/ (~P!Touches(k, r) /\ ~P!Touches(k, r)')
    PROVE  Calm(r)'
<1> USE DEF Same, Idle
<1>1. \A k \in Conns : P!Touches(k, r)' <=> P!Touches(k, r)
  BY DEF P!Touches
<1>2. \A k \in Conns : P!Touches(k, r)' => Idle(k)
  BY <1>1
<1>3. \A k \in Conns : About(k, r)' => P!Touches(k, r)' /\ About(k, r)
  BY <1>2, Nones DEF P!Touches, About
<1>4. \A k \in Conns : About(k, r) => About(k, r)'
  BY Nones DEF P!Touches, About
<1>5. /\ Whole(r)' <=> Whole(r)
      /\ Gone(r)' <=> Gone(r)
      /\ \A d : StreamServed(r, d)' <=> StreamServed(r, d)
      /\ \A d : Served(r, d)' <=> Served(r, d)
  BY DEF Whole, Gone, StreamServed, Served
<1>6. InSync(r) => InSync(r)'
  BY <1>5 DEF InSync
<1>7. \A x : op'[x] = op[x] /\ Progress(x, r) => Progress(x, r)'
  BY <1>5 DEF Progress
<1>8. \A k \in Conns : About(k, r)' => (Early(k)' <=> Early(k)) /\ (Late(k, r) => Late(k, r)')
  BY <1>2, <1>3, <1>5, <1>7 DEF Early, Late, Done
<1>9. \A k \in Conns : call'[k] # None /\ call'[k].key = r => call'[k].st # "lost"
  BY <1>2, Nones DEF Calm, P!Touches
<1>10. (\A k \in Conns : About(k, r)' => Early(k)') => (\A k \in Conns : About(k, r) => Early(k))
  BY <1>4, <1>8
<1>11. QED
  BY <1>1, <1>3, <1>6, <1>7, <1>8, <1>9, <1>10 DEF Calm
-----------------------------------------------------------------------------
(* An operation on a rule takes a step.                                    *)
Moved(x, pc) ==
    /\ DOMAIN op' = P!Slots /\ \A y \in P!Slots : y # x => op'[y] = op[y]
    /\ op'[x] # None /\ IsOp(op'[x]) /\ op'[x].pc = pc
    /\ op'[x].rule = op[x].rule /\ op'[x].verb = op[x].verb /\ op'[x].data = op[x].data
Kept(x) == op'[x].site = op[x].site /\ op'[x].stream = op[x].stream

LEMMA MoveOf ==
    ASSUME PTyped, NEW x \in P!Slots, op[x] # None, NEW pc, P!Step(x, pc)
    PROVE  Moved(x, pc) /\ Kept(x) /\ IsOp(op[x]) /\ op[x].rule \in Rules
<1>1. IsOp(op[x])
  BY Nones DEF PTyped
<1>2. IsOp(op'[x]) /\ op'[x].pc = pc
  BY <1>1 DEF PTyped, P!Step, IsOp
<1>3. QED
  BY <1>1, <1>2, OpShape, Nones DEF PTyped, P!Step, Moved, Kept, IsOp

(* Who works on a calm rule: its request, or the event loop.               *)
LEMMA Worker ==
    ASSUME RuleInv, NEW x \in P!Slots, op[x] # None
    PROVE  /\ op[x].rule \in Rules /\ IsOp(op[x])
           /\ x \in Rules => op[x].rule = x
           /\ x \in Conns => /\ call[x] # None /\ call[x].key = op[x].rule
                             /\ \A r : P!Touches(x, r) => r = op[x].rule
           /\ calm[op[x].rule] => Progress(x, op[x].rule)
           /\ calm[op[x].rule] /\ x \in Conns =>
                 /\ About(x, op[x].rule) /\ Asked(x) /\ ~Early(x) /\ call[x].st = "sent"
                 /\ op[op[x].rule] = None
                 /\ \A j \in Conns : P!Touches(j, op[x].rule) => j = x
<1> USE DEF RuleInv, FilesInv
<1> DEFINE r == op[x].rule
<1>1. IsOp(op[x]) /\ r \in Rules
  BY Nones DEF ProxyInv, PTyped, IsOp
<1>2. x \in Rules => op[x].rule = x
  BY DEF Making
<1>3. ASSUME x \in Conns
      PROVE  /\ call[x] # None /\ call[x].key = r /\ call[x].st \in {"sent", "lost"}
             /\ \A q : P!Touches(x, q) => q = r
  BY <1>3, Nones DEF Calls, CallOk, P!Touches
<1>4. ASSUME calm[r], x \in Conns
      PROVE  /\ About(x, r) /\ Asked(x) /\ ~Early(x) /\ call[x].st = "sent"
             /\ op[r] = None /\ Late(x, r) /\ \A j \in Conns : P!Touches(j, r) => j = x
  <2>1. Calm(r)
    BY <1>1, <1>4 DEF CalmInv
  <2>2. call[x].st = "sent"
    BY <1>3, <1>4, <2>1 DEF Calm
  <2>3. Asked(x) /\ About(x, r)
    BY <1>3, <1>4, <2>2 DEF Calls, CallOk, About, Asked
  <2>4. ~Early(x)
    BY <2>3 DEF Early, Asked
  <2>5. op[r] = None /\ Late(x, r)
    BY <1>4, <2>1, <2>3, <2>4 DEF Calm
  <2>6. P!Touches(x, r)
    BY <1>4, <2>3, Touch
  <2>7. \A j \in Conns : P!Touches(j, r) => j = x
    BY <1>4, <2>1, <2>6 DEF Calm
  <2>8. QED
    BY <2>2, <2>3, <2>4, <2>5, <2>7
<1>5. calm[r] => Progress(x, r)
  <2>1. CASE x \in Conns
    BY <1>4, <2>1 DEF Late
  <2>2. CASE x \in Rules
    BY <1>2, <2>2 DEF CalmInv, Calm
  <2>3. QED
    BY <2>1, <2>2, ConnsAndRules
<1>6. QED
  BY <1>1, <1>2, <1>3, <1>4, <1>5

LEMMA CalmMoves ==
    ASSUME RuleInv, NEW x \in P!Slots, op[x] # None, NEW r \in Rules, r = op[x].rule,
           NEW pc, Moved(x, pc),
           DOMAIN calm' = Names, \A n \in Names : calm'[n] => calm[n],
           UNCHANGED <<res, specs, req, call, dns, loop>>,
           \A q \in Rules : q # r => site'[q] = site[q] /\ stream'[q] = stream[q],
           calm'[r] /\ Progress(x, r) => Progress(x, r)',
           Made(op'[x])
    PROVE  FilesInv'
<1>0. r \in Names
  BY ConnsAndRules
<1>1. ASSUME NEW q \in Rules, q # r, calm'[q] PROVE Calm(q)'
  <2>1. Calm(q)
    BY <1>1, ConnsAndRules DEF RuleInv, FilesInv, CalmInv
  <2>2. x # q
    BY <1>1, Worker
  <2>3. op'[q] = op[q]
    BY <2>2, ConnsAndRules DEF Moved
  <2>4. Same(q)
    BY <1>1, <2>3 DEF Same, Data
  <2>5. \A k \in Conns : k # x => Idle(k)
    BY ConnsAndRules DEF Idle, Moved
  <2>6. x \in Conns => ~P!Touches(x, q) /\ ~P!Touches(x, q)'
    BY <1>1, Worker DEF P!Touches
  <2>7. QED
    BY <2>1, <2>4, <2>5, <2>6, Untouched
<1>2. ASSUME calm'[r] PROVE Calm(r)'
  <2>0. calm[r] /\ Calm(r) /\ Progress(x, r)'
    BY <1>0, <1>2, Worker DEF RuleInv, FilesInv, CalmInv
  <2>1. \A k \in Conns : /\ P!Touches(k, r)' <=> P!Touches(k, r)
                         /\ About(k, r)' <=> About(k, r)
    BY DEF P!Touches, About
  <2>2. CASE x \in Conns
    <3>1. /\ About(x, r) /\ Asked(x) /\ call[x].st = "sent" /\ op[r] = None
          /\ \A j \in Conns : About(j, r) => j = x
      BY <1>0, <2>0, <2>2, Worker, Touch
    <3>2. op'[r] = None
      BY <1>0, <2>2, <3>1, ConnsAndRules DEF Moved
    <3>3. About(x, r)' /\ ~Early(x)' /\ Late(x, r)'
      BY <2>0, <2>1, <2>2, <3>1 DEF Early, Late, Moved, Asked
    <3>4. \A k \in Conns : About(k, r)' => k = x
      BY <2>1, <3>1
    <3>5. QED
      BY <2>0, <2>1, <2>2, <3>2, <3>3, <3>4 DEF Calm
  <2>3. CASE x \in Rules
    <3>1. x = r /\ op[r] # None /\ op'[r] # None /\ op'[r].data = op[r].data
      BY <2>3, Worker DEF Moved
    <3>2. \A k \in Conns : op'[k] = op[k]
      BY <2>3, ConnsAndRules DEF Moved
    <3>3. \A k \in Conns : About(k, r)' => Early(k)'
      BY <2>0, <2>1, <3>1, <3>2 DEF Calm, Early
    <3>4. res'[r] # 0 /\ op'[r].data = Data(r)' /\ Progress(r, r)'
      BY <2>0, <3>1 DEF Calm, Data
    <3>5. QED
      BY <2>0, <2>1, <3>1, <3>3, <3>4 DEF Calm
  <2>4. QED
    BY <2>2, <2>3, ConnsAndRules
<1>3. CalmInv'
  BY <1>1, <1>2 DEF CalmInv
<1>4. Making'
  <2>1. ASSUME NEW y \in P!Slots, op'[y] # None PROVE op'[y].verb \in {"add", "del"} /\ Made(op'[y])
    BY <2>1 DEF RuleInv, FilesInv, Making, Moved
  <2>2. ASSUME NEW q \in Rules, op'[q] # None PROVE op'[q].rule = q /\ op'[q].verb = "add"
    BY <2>2, ConnsAndRules DEF RuleInv, FilesInv, Making, Moved
  <2>3. QED
    BY <2>1, <2>2 DEF RuleInv, FilesInv, Making, Made
<1>5. Calls'
  <2>1. ASSUME NEW k \in Conns PROVE CallOk(k)'
    <3>1. CallOk(k) /\ k \in P!Slots
      BY ConnsAndRules DEF RuleInv, FilesInv, Calls
    <3>2. CASE k = x
      BY <3>1, <3>2 DEF CallOk, Asked, Moved
    <3>3. CASE k # x
      BY <3>1, <3>3 DEF CallOk, Asked, Moved
    <3>4. QED
      BY <3>2, <3>3
  <2>2. QED
    BY <2>1 DEF RuleInv, FilesInv, Calls
<1>6. Saves'
  BY DEF RuleInv, FilesInv, Saves
<1>7. QED
  BY <1>3, <1>4, <1>5, <1>6 DEF FilesInv
-----------------------------------------------------------------------------
(* What each step does for the files.                                      *)
LEMMA FilesGen ==
    ASSUME RuleInv, NEW x \in P!Slots, P!Gen(x), UNCHANGED <<res, specs, req, dns>>
    PROVE  FilesInv'
<1>1. op[x] # None /\ op[x].pc = "gen" /\ UNCHANGED <<site, stream, call, loop>>
  BY Nones DEF P!Gen, P!Working
<1>2. PICK r \in Rules : r = op[x].rule /\ IsOp(op[x]) /\ r \in Names
  BY <1>1, Worker, ConnsAndRules
<1>3. op[x].verb = "add" /\ (calm[r] => Progress(x, r))
  BY <1>1, <1>2, Worker DEF RuleInv, FilesInv, Making, Made
<1>4. PICK d : d = op[x].data
  OBVIOUS
<1>5. Moved(x, "up") /\ op'[x].site = P!SiteText(d) /\ op'[x].stream = P!StreamText(d)
  <2>1. IsOp(op'[x])
    BY <1>1, <1>2 DEF P!Gen, IsOp, RuleInv, ProxyInv, PTyped
  <2>2. op'[x] # None
    BY <2>1, OpShape, Nones
  <2>3. QED
    BY <1>1, <1>2, <1>4, <2>1, <2>2 DEF P!Gen, IsOp, Moved, RuleInv, ProxyInv, PTyped
<1>6. Made(op'[x])
  <2>1. (P!SiteText(d) = None) <=> (d.site = "no")
    BY Nones DEF P!SiteText, P!None
  <2>2. /\ P!SiteText(d) # None => P!SiteText(d).of = d.site
        /\ P!StreamText(d) # None => P!StreamText(d).of = d.stream
    BY Nones DEF P!SiteText, P!StreamText
  <2>3. QED
    BY <1>3, <1>4, <1>5, <2>1, <2>2 DEF Made, Moved
<1>7. DOMAIN calm' = Names /\ (\A n \in Names : calm'[n] => calm[n]) /\ (calm'[r] => ~P!Outdated(x))
  BY <1>2 DEF P!Gen, RuleInv, FilesInv, CalmInv
<1>8. ASSUME calm'[r], Progress(x, r) PROVE Progress(x, r)'
  <2>1. Whole(r) /\ Whole(r)'
    BY <1>1, <1>3, <1>8 DEF Progress, Whole
  <2>2. P!StreamText(d) = None => StreamServed(r, d)'
    BY <1>1, <1>2, <1>4, <1>7, <1>8, <2>1, Nones DEF P!Outdated, StreamServed, Whole
  <2>3. QED
    BY <1>3, <1>4, <1>5, <2>1, <2>2 DEF Progress, Moved
<1>9. QED
  BY <1>1, <1>2, <1>5, <1>6, <1>7, <1>8, CalmMoves

(* Steps that leave the files: upstreams, tests, and what fails.           *)
LEMMA FilesMoveOn ==
    ASSUME RuleInv, NEW x \in P!Slots, UNCHANGED <<res, specs, req, dns>>,
           P!WriteUpstreams(x) \/ P!GenFails(x) \/ P!Test(x) \/ P!TestFails(x)
    PROVE  FilesInv'
<1>1. op[x] # None /\ UNCHANGED <<site, stream, call, calm, loop>>
  BY Nones DEF P!WriteUpstreams, P!GenFails, P!Test, P!TestFails, P!Working
<1>2. PICK r \in Rules : r = op[x].rule /\ IsOp(op[x]) /\ r \in Names
  BY <1>1, Worker, ConnsAndRules
<1>3. PICK pc \in {"stream", "err", "ok", "rm1"} :
         /\ P!Step(x, pc)
         /\ pc = "stream" => op[x].pc = "up"
         /\ pc = "err" => op[x].pc = "gen"
         /\ pc \in {"ok", "rm1"} => op[x].pc = "test"
  BY DEF P!WriteUpstreams, P!GenFails, P!Test, P!TestFails, P!Working
<1>4. Moved(x, pc) /\ Kept(x)
  BY <1>1, <1>3, MoveOf DEF RuleInv, ProxyInv
<1>5. op[x].verb = "add" /\ Made(op[x])
  BY <1>1, <1>3 DEF RuleInv, FilesInv, Making, Made
<1>6. Made(op'[x])
  BY <1>3, <1>4, <1>5 DEF Made, Moved, Kept
<1>7. Progress(x, r) => Progress(x, r)'
  <2>1. /\ Whole(r)' <=> Whole(r)
        /\ \A d : StreamServed(r, d)' <=> StreamServed(r, d)
        /\ \A d : Served(r, d)' <=> Served(r, d)
    BY <1>1 DEF Whole, StreamServed, Served
  <2>2. QED
    BY <1>3, <1>4, <1>5, <2>1 DEF Progress, Moved, Kept
<1>8. QED
  BY <1>1, <1>2, <1>4, <1>6, <1>7, CalmMoves DEF RuleInv, FilesInv, CalmInv

LEMMA FilesStream ==
    ASSUME RuleInv, NEW x \in P!Slots, P!WriteStream(x), UNCHANGED <<res, specs, req, dns>>
    PROVE  FilesInv'
<1>1. op[x] # None /\ UNCHANGED <<site, call, calm, loop>>
  BY Nones DEF P!WriteStream, P!Working
<1>2. PICK r \in Rules : r = op[x].rule /\ IsOp(op[x]) /\ r \in Names
  BY <1>1, Worker, ConnsAndRules
<1>3. PICK pc \in {"link", "site"} :
        /\ P!Step(x, pc)
        /\ \/ op[x].pc = "stream" /\ op[x].stream = None /\ pc = "site" /\ UNCHANGED stream
           \/ /\ op[x].pc = "stream" /\ pc = "link" /\ op[x].stream # None
              /\ stream' = [stream EXCEPT ![r].text = op[x].stream]
           \/ /\ op[x].pc = "link" /\ pc = "site" /\ stream' = [stream EXCEPT ![r].link = TRUE]
  BY <1>2, Nones DEF P!WriteStream, P!Working
<1>4. Moved(x, pc) /\ Kept(x)
  BY <1>1, <1>3, MoveOf DEF RuleInv, ProxyInv
<1>5. op[x].verb = "add" /\ Made(op[x])
  BY <1>1, <1>3 DEF RuleInv, FilesInv, Making, Made
<1>6. Made(op'[x])
  BY <1>3, <1>4, <1>5 DEF Made, Moved, Kept
<1>7. /\ \A q \in Rules : q # r => stream'[q] = stream[q]
      /\ pc = "link" => stream'[r].text = op[x].stream /\ op[x].stream # None
      /\ op[x].pc = "link" => stream'[r].text = stream[r].text
      /\ op[x].pc = "stream" /\ pc = "site" => op[x].stream = None /\ stream' = stream
  <2>1. DOMAIN stream = Rules /\ IsFile(stream[r])
    BY DEF RuleInv, ProxyInv, PTyped
  <2>2. CASE UNCHANGED stream /\ pc = "site" /\ op[x].pc = "stream" /\ op[x].stream = None
    BY <1>3, <2>2
  <2>3. CASE stream' = [stream EXCEPT ![r].text = op[x].stream] /\ pc = "link"
    BY <1>3, <2>1, <2>3 DEF IsFile
  <2>4. CASE stream' = [stream EXCEPT ![r].link = TRUE] /\ pc = "site" /\ op[x].pc = "link"
    BY <1>3, <2>1, <2>4 DEF IsFile
  <2>5. QED
    BY <1>3, <2>2, <2>3, <2>4
<1>8. ASSUME Progress(x, r) PROVE Progress(x, r)'
  <2>1. CASE op[x].pc = "stream" /\ pc = "site"
    <3>1. Whole(r)' /\ StreamServed(r, op[x].data)'
      BY <1>4, <1>5, <1>7, <1>8, <2>1 DEF Progress, Whole, StreamServed, Moved
    <3>2. QED
      BY <1>4, <1>5, <2>1, <3>1 DEF Progress, Moved
  <2>2. CASE pc = "link"
    BY <1>4, <1>5, <1>7, <2>2 DEF Progress, Moved, Kept
  <2>3. CASE op[x].pc = "link" /\ pc = "site"
    <3>1. stream'[r].text # None /\ stream'[r].text.of = op[x].data.stream
      BY <1>5, <1>7, <1>8, <2>3 DEF Progress, Made
    <3>2. Whole(r)' /\ StreamServed(r, op[x].data)'
      BY <1>4, <3>1 DEF Whole, StreamServed, Moved
    <3>3. QED
      BY <1>4, <1>5, <2>3, <3>2 DEF Progress, Moved
  <2>4. QED
    BY <1>3, <2>1, <2>2, <2>3
<1>9. QED
  BY <1>1, <1>2, <1>4, <1>6, <1>7, <1>8, CalmMoves DEF RuleInv, FilesInv, CalmInv

LEMMA FilesSite ==
    ASSUME RuleInv, NEW x \in P!Slots, P!WriteSite(x), UNCHANGED <<res, specs, req, dns>>
    PROVE  FilesInv'
<1>1. op[x] # None /\ UNCHANGED <<stream, call, calm, loop>>
  BY Nones DEF P!WriteSite, P!Working
<1>2. PICK r \in Rules : r = op[x].rule /\ IsOp(op[x]) /\ r \in Names
  BY <1>1, Worker, ConnsAndRules
<1>3. PICK pc \in {"enable", "test"} :
        /\ P!Step(x, pc)
        /\ \/ op[x].pc = "site" /\ op[x].site = None /\ pc = "test" /\ UNCHANGED site
           \/ /\ op[x].pc = "site" /\ pc = "enable" /\ op[x].site # None
              /\ site' = [site EXCEPT ![r].text = op[x].site]
           \/ /\ op[x].pc = "enable" /\ pc = "test" /\ site' = [site EXCEPT ![r].link = TRUE]
  BY <1>2, Nones DEF P!WriteSite, P!Working
<1>4. Moved(x, pc) /\ Kept(x)
  BY <1>1, <1>3, MoveOf DEF RuleInv, ProxyInv
<1>5. op[x].verb = "add" /\ Made(op[x])
  BY <1>1, <1>3 DEF RuleInv, FilesInv, Making, Made
<1>6. Made(op'[x])
  BY <1>3, <1>4, <1>5 DEF Made, Moved, Kept
<1>7. /\ \A q \in Rules : q # r => site'[q] = site[q]
      /\ pc = "enable" => site'[r].text = op[x].site /\ op[x].site # None
      /\ op[x].pc = "enable" => site'[r].text = site[r].text /\ site'[r].link
      /\ op[x].pc = "site" /\ pc = "test" => op[x].site = None
  <2>1. DOMAIN site = Rules /\ IsFile(site[r])
    BY DEF RuleInv, ProxyInv, PTyped
  <2>2. CASE UNCHANGED site
    BY <1>3, <2>1, <2>2 DEF IsFile
  <2>3. CASE site' = [site EXCEPT ![r].text = op[x].site] /\ pc = "enable"
    BY <1>3, <2>1, <2>3 DEF IsFile
  <2>4. CASE site' = [site EXCEPT ![r].link = TRUE] /\ pc = "test" /\ op[x].pc = "enable"
    BY <1>3, <2>1, <2>4 DEF IsFile
  <2>5. QED
    BY <1>3, <2>2, <2>3, <2>4
<1>8. ASSUME Progress(x, r) PROVE Progress(x, r)'
  <2>1. Whole(r)' /\ StreamServed(r, op[x].data)'
    BY <1>1, <1>3, <1>4, <1>5, <1>8 DEF Progress, Whole, StreamServed, Moved
  <2>2. CASE pc = "enable"
    BY <1>4, <1>5, <1>7, <2>1, <2>2 DEF Progress, Moved, Kept
  <2>3. CASE pc = "test"
    <3>1. CASE op[x].pc = "site"
      <4>1. Served(r, op[x].data)'
        BY <1>4, <1>5, <1>7, <2>1, <2>3, <3>1 DEF Served, Made, Moved
      <4>2. QED
        BY <1>4, <1>5, <2>1, <2>3, <4>1 DEF Progress, Moved
    <3>2. CASE op[x].pc = "enable"
      <4>1. site'[r].link /\ site'[r].text # None /\ site'[r].text.of = op[x].data.site
        BY <1>5, <1>7, <1>8, <3>2 DEF Progress, Made
      <4>2. Served(r, op[x].data)'
        BY <1>4, <2>1, <4>1 DEF Served, Moved
      <4>3. QED
        BY <1>4, <1>5, <2>1, <2>3, <4>2 DEF Progress, Moved
    <3>3. QED
      BY <1>3, <3>1, <3>2
  <2>4. QED
    BY <1>3, <2>2, <2>3
<1>9. QED
  BY <1>1, <1>2, <1>4, <1>6, <1>7, <1>8, CalmMoves DEF RuleInv, FilesInv, CalmInv

LEMMA FilesRemove ==
    ASSUME RuleInv, NEW x \in P!Slots, P!Remove(x), UNCHANGED <<res, specs, req, dns>>
    PROVE  FilesInv'
<1>1. op[x] # None /\ UNCHANGED <<call, calm, loop>>
  BY Nones DEF P!Remove, P!Working
<1>2. PICK r \in Rules : r = op[x].rule /\ IsOp(op[x]) /\ r \in Names
  BY <1>1, Worker, ConnsAndRules
<1>3. PICK pc \in {"rm2", "rm3", "rm4", "err", "ok"} :
        /\ P!Step(x, pc)
        /\ \/ /\ op[x].pc = "rm1" /\ pc = "rm2" /\ UNCHANGED stream
              /\ site' = [site EXCEPT ![r].text = P!None]
           \/ /\ op[x].pc = "rm2" /\ pc = "rm3" /\ UNCHANGED stream
              /\ site' = [site EXCEPT ![r].link = FALSE]
           \/ /\ op[x].pc = "rm3" /\ pc = "rm4" /\ UNCHANGED site
              /\ stream' = [stream EXCEPT ![r].text = P!None]
           \/ /\ op[x].pc = "rm4" /\ pc = (IF op[x].verb = "add" THEN "err" ELSE "ok") /\ UNCHANGED site
              /\ stream' = [stream EXCEPT ![r].link = FALSE]
  BY <1>2 DEF P!Remove, P!Working
<1>4. Moved(x, pc) /\ Kept(x)
  BY <1>1, <1>3, MoveOf DEF RuleInv, ProxyInv
<1>5. Made(op[x]) /\ op[x].verb \in {"add", "del"}
  BY <1>1 DEF RuleInv, FilesInv, Making
<1>6. Made(op'[x])
  BY <1>3, <1>4, <1>5 DEF Made, Moved, Kept
<1>7. /\ \A q \in Rules : q # r => site'[q] = site[q] /\ stream'[q] = stream[q]
      /\ op[x].pc = "rm2" => ~site'[r].link
      /\ op[x].pc \in {"rm3", "rm4"} => site' = site
      /\ op[x].pc = "rm4" => ~stream'[r].link
  <2>1. DOMAIN site = Rules /\ IsFile(site[r]) /\ DOMAIN stream = Rules /\ IsFile(stream[r])
    BY DEF RuleInv, ProxyInv, PTyped
  <2>2. CASE op[x].pc = "rm1"
    BY <1>3, <2>1, <2>2 DEF IsFile
  <2>3. CASE op[x].pc = "rm2"
    BY <1>3, <2>1, <2>3 DEF IsFile
  <2>4. CASE op[x].pc = "rm3"
    BY <1>3, <2>1, <2>4 DEF IsFile
  <2>5. CASE op[x].pc = "rm4"
    BY <1>3, <2>1, <2>5 DEF IsFile
  <2>6. QED
    BY <1>3, <2>2, <2>3, <2>4, <2>5
<1>8. ASSUME Progress(x, r) PROVE Progress(x, r)'
  <2>1. CASE op[x].verb = "add"
    <3>1. pc \in {"rm2", "rm3", "rm4", "err"}
      BY <1>3, <2>1
    <3>2. QED
      BY <1>4, <2>1, <3>1 DEF Progress, Moved
  <2>2. CASE op[x].verb = "del"
    <3>1. pc \in {"rm3", "rm4", "ok"} => ~site'[r].link
      BY <1>3, <1>7, <1>8, <2>2 DEF Progress
    <3>2. pc = "ok" => Gone(r)'
      BY <1>3, <1>7, <3>1 DEF Gone
    <3>3. QED
      BY <1>4, <2>2, <3>1, <3>2 DEF Progress, Moved
  <2>3. QED
    BY <1>5, <2>1, <2>2
<1>9. QED
  BY <1>1, <1>2, <1>4, <1>6, <1>7, <1>8, CalmMoves DEF RuleInv, FilesInv, CalmInv
-----------------------------------------------------------------------------
(* Nothing but one connection is about a rule.                             *)
LEMMA OnlyOne ==
    ASSUME NEW r \in Rules, NEW k \in Conns, \A j \in Conns : j # k => ~P!Touches(j, r)',
           call'[k] # None /\ call'[k].key = r => call'[k].st # "lost",
           About(k, r)' /\ ~Early(k)' => op'[r] = None /\ Late(k, r)',
           op'[r] # None => res'[r] # 0 /\ op'[r].data = Data(r)' /\ Progress(r, r)',
           op'[r] = None /\ (About(k, r)' => Early(k)') => InSync(r)'
    PROVE  Calm(r)'
<1>1. \A j \in Conns : About(j, r)' => j = k
  BY Nones DEF P!Touches, About
<1>2. \A j \in Conns : call'[j] # None /\ call'[j].key = r => j = k
  BY Nones DEF P!Touches
<1>3. QED
  BY <1>1, <1>2 DEF Calm

(* Calls of the others are as they were.                                   *)
LEMMA CallsOfOthers ==
    ASSUME Calls, NEW k \in Conns, DOMAIN call' = Conns, DOMAIN dns' = Conns,
           \A j \in Conns : j # k => Idle(j) /\ dns'[j] = dns[j], CallOk(k)'
    PROVE  Calls'
<1>1. \A j \in Conns : j # k => CallOk(j)'
  BY DEF Calls, CallOk, Asked, Idle
<1>2. QED
  BY <1>1 DEF Calls

(* A call is taken: its request was the only one about the rule.           *)
LEMMA FilesTake ==
    ASSUME RuleInv, NEW k \in Conns, P!Take(k), UNCHANGED <<res, specs, req, dns>>
    PROVE  FilesInv'
<1> USE DEF RuleInv, FilesInv
<1>1. /\ call[k] # None /\ call[k].st = "sent" /\ op[k] = None /\ UNCHANGED <<call, site, stream, loop>>
      /\ k \in P!Slots
  BY Nones, ConnsAndRules DEF P!Take
<1>2. PICK r \in Rules : r = call[k].key /\ r \in Names
  BY ConnsAndRules DEF P!Take
<1>3. /\ CallOk(k) /\ Asked(k) /\ IsCall(call[k]) /\ About(k, r) /\ Early(k)
      /\ \A q : P!Touches(k, q) => q = r
  BY <1>1, <1>2, Nones DEF Calls, CallOk, Asked, About, Early, P!Touches
<1>4. PICK o : o = P!NewOp(call[k].verb, call[k].key, call[k].data)
  OBVIOUS
<1>5. /\ DOMAIN op' = P!Slots /\ op'[k] = o /\ \A y \in P!Slots : y # k => op'[y] = op[y]
  BY <1>1, <1>4 DEF P!Take, ProxyInv, PTyped
<1>6. /\ o # None /\ o.verb = call[k].verb /\ o.rule = r /\ o.data = call[k].data
      /\ o.pc = IF o.verb = "add" THEN "gen" ELSE "rm1"
  BY <1>2, <1>4 DEF P!NewOp, None
<1>7. /\ DOMAIN calm' = Names /\ (\A n \in Names : calm'[n] => calm[n])
      /\ calm'[r] => op[r] = None
  BY <1>2, Nones DEF P!Take, CalmInv
<1>8. Calls'
  <2>1. \A j \in Conns : j # k => Idle(j) /\ dns'[j] = dns[j]
    BY <1>1, <1>5, ConnsAndRules DEF Idle
  <2>2. CallOk(k)'
    BY <1>1, <1>2, <1>3, <1>5, <1>6 DEF CallOk, Asked
  <2>3. QED
    BY <1>1, <2>1, <2>2, CallsOfOthers DEF Calls
<1>9. Making'
  <2>1. o.verb \in {"add", "del"} /\ Made(o)
    BY <1>3, <1>6 DEF IsCall, Made
  <2>2. \A y \in P!Slots : op'[y] # None => op'[y].verb \in {"add", "del"} /\ Made(op'[y])
    BY <1>5, <2>1 DEF Making
  <2>3. \A q \in Rules : op'[q] = op[q]
    BY <1>5, ConnsAndRules
  <2>4. QED
    BY <1>1, <2>2, <2>3 DEF Making, Made
<1>10. ASSUME NEW q \in Rules, q # r, calm'[q] PROVE Calm(q)'
  <2>1. Calm(q)
    BY <1>7, <1>10, ConnsAndRules DEF CalmInv
  <2>2. Same(q)
    BY <1>1, <1>5, ConnsAndRules DEF Same, Data
  <2>3. \A j \in Conns : j # k => Idle(j)
    BY <1>1, <1>5, ConnsAndRules DEF Idle
  <2>4. ~P!Touches(k, q) /\ ~P!Touches(k, q)'
    BY <1>1, <1>3, <1>10 DEF P!Touches
  <2>5. QED
    BY <2>1, <2>2, <2>3, <2>4, Untouched
<1>11. ASSUME calm'[r] PROVE Calm(r)'
  <2>1. Calm(r) /\ op[r] = None
    BY <1>2, <1>7, <1>11 DEF CalmInv
  <2>2. P!Touches(k, r)
    BY <1>3, Touch
  <2>3. \A j \in Conns : j # k => ~P!Touches(j, r)
    BY <2>1, <2>2 DEF Calm
  <2>4. InSync(r)
    BY <1>3, <2>1, <2>3, Touch DEF Calm
  <2>5. Progress(k, r)'
    BY <1>1, <1>3, <1>5, <1>6, <2>4 DEF Progress, InSync, Whole, IsCall
  <2>6. About(k, r)' /\ ~Early(k)' /\ Late(k, r)'
    BY <1>1, <1>3, <1>5, <1>6, <2>5 DEF About, Early, Late, Asked
  <2>7. op'[r] = None
    BY <1>5, <2>1, ConnsAndRules
  <2>8. \A j \in Conns : j # k => ~P!Touches(j, r)'
    BY <1>1, <2>3 DEF P!Touches
  <2>9. QED
    BY <1>1, <2>6, <2>7, <2>8, OnlyOne
<1>12. CalmInv'
  BY <1>7, <1>10, <1>11 DEF CalmInv
<1>13. Saves'
  BY DEF Saves
<1>14. QED
  BY <1>8, <1>9, <1>12, <1>13

(* A call is answered: what it was about is done, or it failed.            *)
LEMMA FilesAnswer ==
    ASSUME RuleInv, NEW k \in Conns, P!Answer(k), UNCHANGED <<res, specs, req, dns>>
    PROVE  FilesInv'
<1> USE DEF RuleInv, FilesInv
<1>1. /\ op[k] # None /\ op[k].pc \in {"ok", "err"} /\ UNCHANGED <<site, stream, calm, loop>>
      /\ k \in P!Slots
  BY Nones, ConnsAndRules DEF P!Answer, P!Working
<1>2. PICK r \in Rules : r = op[k].rule /\ r \in Names
  BY <1>1, Worker, ConnsAndRules
<1>3. /\ CallOk(k) /\ IsCall(call[k]) /\ call[k] # None /\ call[k].key = r
      /\ \A q : P!Touches(k, q) => q = r
  BY <1>1, <1>2, Worker DEF Calls, CallOk
<1>4. DOMAIN op' = P!Slots /\ op'[k] = None /\ \A y \in P!Slots : y # k => op'[y] = op[y]
  BY <1>1, Nones DEF P!Answer, ProxyInv, PTyped
<1>5. /\ DOMAIN call' = Conns /\ \A j \in Conns : j # k => call'[j] = call[j]
      /\ call[k].st = "lost" => call'[k] = None
      /\ call[k].st # "lost" => /\ IsCall(call'[k]) /\ call'[k] # None /\ call'[k].st = op[k].pc
                                /\ call'[k].key = r /\ call'[k].verb = call[k].verb
                                /\ call'[k].data = call[k].data
  <2>1. DOMAIN call' = Conns /\ \A j \in Conns : j # k => call'[j] = call[j]
    BY DEF P!Answer, Calls
  <2>2. CASE call[k].st = "lost"
    BY <2>1, <2>2, Nones DEF P!Answer, Calls
  <2>3. CASE call[k].st # "lost"
    <3>1. call'[k] = [call[k] EXCEPT !.st = op[k].pc]
      BY <2>3 DEF P!Answer, Calls
    <3>2. IsCall(call'[k]) /\ call'[k].st = op[k].pc
      BY <1>1, <1>3, <3>1 DEF IsCall
    <3>3. call'[k] # None
      BY <1>1, <3>2 DEF None
    <3>4. QED
      BY <1>3, <2>1, <2>3, <3>1, <3>2, <3>3 DEF IsCall
  <2>4. QED
    BY <2>2, <2>3
<1>6. \A j \in Conns : j # k => Idle(j)
  BY <1>4, <1>5, ConnsAndRules DEF Idle
<1>7. Calls'
  <2>1. dns[k] = None
    BY <1>2, <1>3, ConnsAndRules DEF CallOk
  <2>2. CASE call[k].st = "lost"
    BY <1>3, <1>4, <1>5, <2>1, <2>2, <1>6, CallsOfOthers DEF CallOk, Calls
  <2>3. CASE call[k].st # "lost"
    <3>1. Asked(k) /\ Asked(k)' /\ req[k].key = r
      BY <1>3, <1>5, <2>3 DEF CallOk, Asked
    <3>2. CallOk(k)'
      BY <1>1, <1>3, <1>4, <1>5, <2>1, <2>3, <3>1 DEF CallOk, Asked
    <3>3. QED
      BY <1>5, <1>6, <3>2, CallsOfOthers DEF Calls
  <2>4. QED
    BY <2>2, <2>3
<1>8. Making'
  <2>1. \A y \in P!Slots : op'[y] # None => op'[y].verb \in {"add", "del"} /\ Made(op'[y])
    BY <1>4 DEF Making
  <2>2. \A q \in Rules : op'[q] = op[q]
    BY <1>4, ConnsAndRules
  <2>3. QED
    BY <1>1, <2>1, <2>2 DEF Making, Made
<1>9. ASSUME NEW q \in Rules, q # r, calm[q] PROVE Calm(q)'
  <2>1. Calm(q)
    BY <1>9 DEF CalmInv
  <2>2. Same(q)
    BY <1>1, <1>4, ConnsAndRules DEF Same, Data
  <2>3. ~P!Touches(k, q)
    BY <1>3, <1>9
  <2>4. ~P!Touches(k, q)'
    BY <1>3, <1>5, <1>9, <2>3, Nones DEF P!Touches
  <2>5. QED
    BY <1>6, <2>1, <2>2, <2>3, <2>4, Untouched
<1>10. ASSUME calm[r] PROVE Calm(r)'
  <2>1. /\ About(k, r) /\ Asked(k) /\ call[k].st = "sent" /\ op[r] = None /\ Progress(k, r)
        /\ \A j \in Conns : P!Touches(j, r) => j = k
    BY <1>1, <1>2, <1>10, Worker
  <2>2. /\ call'[k].st = op[k].pc /\ About(k, r)' /\ ~Early(k)'
    BY <1>1, <1>5, <2>1 DEF About, Early, Asked
  <2>3. /\ op[k].verb \in {"add", "del"} /\ op[k].data = req[k].data
        /\ (op[k].verb = "del") <=> (req[k].op = "delete")
    BY <1>1, <1>3, <2>1 DEF Making, CallOk, Asked
  <2>4. op[k].pc = "ok" => Done(k, r)
    <3>1. CASE op[k].verb = "add"
      BY <2>1, <2>3, <3>1 DEF Progress, Done
    <3>2. CASE op[k].verb = "del"
      BY <2>1, <2>3, <3>2 DEF Progress, Done, Gone, Whole
    <3>3. QED
      BY <2>3, <3>1, <3>2
  <2>5. Done(k, r) => Done(k, r)'
    BY <1>1 DEF Done, Whole, Gone, Served, StreamServed
  <2>6. Late(k, r)'
    BY <1>4, <2>1, <2>2, <2>4, <2>5 DEF Late, Asked
  <2>7. op'[r] = None
    BY <1>4, <2>1, ConnsAndRules
  <2>8. \A j \in Conns : j # k => ~P!Touches(j, r)'
    BY <1>6, <2>1 DEF P!Touches, Idle
  <2>9. QED
    BY <1>1, <2>2, <2>6, <2>7, <2>8, OnlyOne
<1>11. CalmInv'
  BY <1>1, <1>9, <1>10 DEF CalmInv
<1>12. Saves'
  BY DEF Saves
<1>13. QED
  BY <1>7, <1>8, <1>11, <1>12
-----------------------------------------------------------------------------
(* The event loop: it takes up a rule nothing is about, and a rule it is   *)
(* done with has the files of its row.                                     *)
LEMMA FilesAside ==
    ASSUME RuleInv, UNCHANGED <<res, specs, req, call, calm, dns, site, stream, op>>,
           loop'.st = "busy" => loop'.rules \subseteq Rules
    PROVE  FilesInv'
<1> USE DEF RuleInv, FilesInv
<1>1. Calls'
  BY DEF Calls, CallOk, Asked
<1>2. Saves' /\ Making'
  BY DEF Saves, Making, Made
<1>3. CalmInv'
  BY Untouched DEF CalmInv, Same, Idle, Data
<1>4. QED
  BY <1>1, <1>2, <1>3

LEMMA FilesOnEvent ==
    ASSUME RuleInv, P!OnEvent, UNCHANGED <<res, specs, req, dns>>
    PROVE  FilesInv'
<1> USE DEF RuleInv, FilesInv
<1>1. PICK rs : rs = P!Concerned(Head(evq))
  OBVIOUS
<1>2. UNCHANGED <<site, stream, call>> /\ loop.st = "on"
  BY DEF P!OnEvent
<1>3. CASE rs = {}
  BY <1>1, <1>2, <1>3, FilesAside DEF P!OnEvent, Making
<1>4. CASE rs # {}
  <2>1. /\ loop' = [st |-> "busy", ev |-> Head(evq), rules |-> rs]
        /\ op' = [x \in P!Slots |-> IF x \in rs THEN P!NewOp("add", x, specs[res[x]].data) ELSE op[x]]
        /\ calm' = [r \in DOMAIN calm |->
                        calm[r] /\ ~(r \in rs /\ \E k \in Conns : P!Touches(k, r))]
    BY <1>1, <1>4 DEF P!OnEvent
  <2>2. rs \subseteq Rules /\ \A r \in rs : res[r] # 0
    BY <1>1 DEF P!Concerned
  <2>3. \A r \in Rules : op[r] = None
    BY <1>2, Nones DEF ProxyInv, LoopInv
  <2>4. /\ \A r \in rs : op'[r] = P!NewOp("add", r, Data(r))
        /\ \A y \in P!Slots : y \notin rs => op'[y] = op[y]
    BY <2>1, <2>2, ConnsAndRules DEF Data
  <2>5. \A r : \A d : LET o == P!NewOp("add", r, d) IN
           o # None /\ o.verb = "add" /\ o.pc = "gen" /\ o.rule = r /\ o.data = d
    BY DEF P!NewOp, None
  <2>6. /\ \A r \in rs : /\ op'[r] # None /\ op'[r].verb = "add" /\ op'[r].pc = "gen"
                         /\ op'[r].rule = r /\ op'[r].data = Data(r)
        /\ \A k \in Conns : op'[k] = op[k]
    BY <2>2, <2>4, <2>5, ConnsAndRules
  <2>7. Making'
    <3>1. \A y \in P!Slots : op'[y] # None => op'[y].verb \in {"add", "del"} /\ Made(op'[y])
      BY <2>4, <2>6 DEF Making, Made
    <3>2. \A r \in Rules : op'[r] # None => op'[r].rule = r /\ op'[r].verb = "add"
      BY <2>3, <2>4, <2>6, ConnsAndRules
    <3>3. QED
      BY <2>1, <2>2, <3>1, <3>2 DEF Making, Made
  <2>8. Calls' /\ Saves'
    BY <1>2, <2>6 DEF Calls, CallOk, Asked, Saves
  <2>9. ASSUME NEW r \in Rules, calm'[r] PROVE Calm(r)'
    <3>1. calm[r] /\ Calm(r) /\ (r \in rs => \A k \in Conns : ~P!Touches(k, r))
      BY <2>1, <2>9, ConnsAndRules DEF CalmInv
    <3>2. CASE r \in rs
      <4>1. \A k \in Conns : ~P!Touches(k, r)' /\ ~About(k, r) /\ ~About(k, r)'
        BY <1>2, <3>1, <3>2, Nones DEF P!Touches, About
      <4>2. InSync(r)
        BY <2>3, <3>1, <4>1 DEF Calm
      <4>3. Progress(r, r)'
        BY <1>2, <2>6, <3>2, <4>2 DEF Progress, InSync, Whole
      <4>4. res'[r] # 0 /\ op'[r] # None /\ op'[r].data = Data(r)'
        BY <2>2, <2>6, <3>2 DEF Data
      <4>5. \A k \in Conns : call'[k] # None => call'[k].key # r
        BY <4>1, Nones DEF P!Touches
      <4>6. QED
        BY <4>1, <4>3, <4>4, <4>5 DEF Calm
    <3>3. CASE r \notin rs
      <4>1. Same(r)
        BY <1>2, <2>4, <3>3, ConnsAndRules DEF Same, Data
      <4>2. \A k \in Conns : Idle(k)
        BY <1>2, <2>6 DEF Idle
      <4>3. QED
        BY <3>1, <4>1, <4>2, Untouched
    <3>4. QED
      BY <3>2, <3>3
  <2>10. CalmInv'
    BY <2>1, <2>9 DEF CalmInv
  <2>11. QED
    BY <2>7, <2>8, <2>10
<1>5. QED
  BY <1>3, <1>4

LEMMA FilesEventDone ==
    ASSUME RuleInv, P!EventDone, UNCHANGED <<res, specs, req, dns>>
    PROVE  FilesInv'
<1> USE DEF RuleInv, FilesInv
<1>1. PICK rs : rs = loop.rules
  OBVIOUS
<1>2. /\ UNCHANGED <<site, stream, call>> /\ loop'.st = "on" /\ rs \subseteq Rules
      /\ op' = [x \in P!Slots |-> IF x \in rs THEN None ELSE op[x]]
      /\ calm' = [r \in DOMAIN calm |-> calm[r] /\ ~(r \in rs /\ op[r].pc = "err")]
      /\ \A r \in rs : op[r].pc \in {"ok", "err"}
  BY <1>1, Nones DEF P!EventDone, Making
<1>3. /\ \A r \in rs : op'[r] = None
      /\ \A y \in P!Slots : y \notin rs => op'[y] = op[y]
      /\ \A k \in Conns : op'[k] = op[k]
  BY <1>2, ConnsAndRules
<1>4. Making'
  <2>1. \A y \in P!Slots : op'[y] # None => op'[y].verb \in {"add", "del"} /\ Made(op'[y])
    BY <1>2, <1>3 DEF Making
  <2>2. \A r \in Rules : op'[r] # None => op'[r].rule = r /\ op'[r].verb = "add"
    BY <1>2, <1>3, ConnsAndRules DEF Making
  <2>3. QED
    BY <1>2, <2>1, <2>2 DEF Making, Made
<1>5. Calls' /\ Saves'
  BY <1>2, <1>3 DEF Calls, CallOk, Asked, Saves
<1>6. ASSUME NEW r \in Rules, calm'[r] PROVE Calm(r)'
  <2>1. calm[r] /\ Calm(r) /\ (r \in rs => op[r].pc = "ok")
    BY <1>2, <1>6, ConnsAndRules DEF CalmInv
  <2>2. \A k \in Conns : Idle(k)
    BY <1>2, <1>3 DEF Idle
  <2>3. CASE r \in rs /\ op[r] # None
    <3>1. \A k \in Conns : /\ P!Touches(k, r)' <=> P!Touches(k, r)
                           /\ About(k, r)' <=> About(k, r)
                           /\ Early(k)' <=> Early(k)
      BY <2>2 DEF P!Touches, About, Early, Idle
    <3>2. \A k \in Conns : About(k, r)' => Early(k)'
      BY <2>1, <2>3, <3>1 DEF Calm
    <3>3. Whole(r) /\ Served(r, Data(r)) /\ res[r] # 0
      BY <2>1, <2>3 DEF Calm, Progress, Making
    <3>4. InSync(r)'
      BY <1>2, <3>3 DEF InSync, Whole, Served, StreamServed, Data
    <3>5. op'[r] = None
      BY <1>3, <2>3
    <3>6. QED
      BY <1>2, <2>1, <3>1, <3>2, <3>4, <3>5 DEF Calm
  <2>4. CASE ~(r \in rs /\ op[r] # None)
    <3>1. Same(r)
      BY <1>2, <1>3, <2>4, ConnsAndRules DEF Same, Data
    <3>2. QED
      BY <2>1, <2>2, <3>1, Untouched
  <2>5. QED
    BY <2>3, <2>4
<1>7. CalmInv'
  BY <1>2, <1>6 DEF CalmInv
<1>8. QED
  BY <1>4, <1>5, <1>7

(* A restart of ncproxy spares the rules it was not working on.            *)
LEMMA FilesCrash ==
    ASSUME RuleInv, P!Crash, UNCHANGED <<res, specs, req, dns>>
    PROVE  FilesInv'
<1> USE DEF RuleInv, FilesInv
<1>1. /\ UNCHANGED <<site, stream>> /\ loop'.st = "off" /\ \A x \in P!Slots : op'[x] = None
      /\ DOMAIN call' = Conns /\ \A k \in Conns : op[k] = None => call'[k] = call[k]
      /\ \A k \in Conns : op[k] # None /\ call[k].st = "lost" => call'[k] = None
      /\ \A k \in Conns : op[k] # None /\ call[k].st # "lost" => call'[k] = [call[k] EXCEPT !.st = "err"]
      /\ DOMAIN calm' = Names
      /\ \A r \in Names : calm'[r] => calm[r] /\ ~\E x \in P!Slots : op[x] # None /\ op[x].rule = r
  BY Nones DEF P!Crash, CalmInv
<1>2. ASSUME NEW k \in Conns, op[k] # None
      PROVE  /\ k \in P!Slots /\ call[k] # None /\ IsCall(call[k]) /\ call[k].key = op[k].rule
             /\ \A r : P!Touches(k, r) => r = op[k].rule
             /\ call'[k] # None => IsCall(call'[k]) /\ call'[k].st = "err" /\ call'[k].key = op[k].rule
                                   /\ call'[k].verb = call[k].verb /\ call'[k].data = call[k].data
             /\ call[k].st # "lost" => call'[k] # None
             /\ call[k].st = "lost" => call'[k] = None
             /\ dns[k] = None
  <2>1. /\ k \in P!Slots /\ CallOk(k) /\ call[k] # None /\ IsCall(call[k]) /\ call[k].key = op[k].rule
        /\ \A r : P!Touches(k, r) => r = op[k].rule
    BY <1>2, Worker, ConnsAndRules DEF Calls, CallOk
  <2>2. dns[k] = None
    BY <1>2, <2>1, Worker, ConnsAndRules DEF CallOk
  <2>3. CASE call[k].st = "lost"
    BY <1>1, <1>2, <2>1, <2>2, <2>3
  <2>4. CASE call[k].st # "lost"
    <3>1. call'[k] = [call[k] EXCEPT !.st = "err"]
      BY <1>1, <1>2, <2>4
    <3>2. IsCall(call'[k]) /\ call'[k].st = "err"
      BY <2>1, <3>1 DEF IsCall
    <3>3. call'[k] # None
      BY <3>2 DEF None
    <3>4. QED
      BY <2>1, <2>2, <2>4, <3>1, <3>2, <3>3 DEF IsCall
  <2>5. QED
    BY <2>3, <2>4
<1>3. \A k \in Conns : op'[k] = None
  BY <1>1, ConnsAndRules
<1>4. ASSUME NEW k \in Conns PROVE CallOk(k)'
  <2>1. CallOk(k)
    BY DEF Calls
  <2>2. CASE op[k] = None
    BY <1>1, <1>3, <2>1, <2>2 DEF CallOk, Asked
  <2>3. CASE op[k] # None /\ call[k].st = "lost"
    BY <1>2, <1>3, <2>1, <2>3 DEF CallOk
  <2>4. CASE op[k] # None /\ call[k].st # "lost"
    BY <1>2, <1>3, <2>1, <2>4 DEF CallOk, Asked
  <2>5. QED
    BY <2>2, <2>3, <2>4
<1>5. Calls' /\ Saves' /\ Making'
  BY <1>1, <1>4, ConnsAndRules DEF Calls, Saves, Making
<1>6. ASSUME NEW r \in Rules, calm'[r] PROVE Calm(r)'
  <2>1. Calm(r) /\ \A x \in P!Slots : op[x] # None => op[x].rule # r
    BY <1>1, <1>6, ConnsAndRules DEF CalmInv
  <2>2. op[r] = None /\ op'[r] = None
    BY <1>1, <2>1, ConnsAndRules DEF Making
  <2>3. Same(r)
    BY <1>1, <2>2 DEF Same, Data
  <2>4. \A k \in Conns : op[k] = None => Idle(k)
    BY <1>1, <1>3 DEF Idle
  <2>5. \A k \in Conns : op[k] # None => ~P!Touches(k, r) /\ ~P!Touches(k, r)'
    <3> SUFFICES ASSUME NEW k \in Conns, op[k] # None PROVE ~P!Touches(k, r) /\ ~P!Touches(k, r)'
      OBVIOUS
    <3>1. ~P!Touches(k, r) /\ op[k].rule # r
      BY <1>2, <2>1
    <3>2. QED
      BY <1>2, <3>1, Nones DEF P!Touches
  <2>6. QED
    BY <2>1, <2>3, <2>4, <2>5, Untouched
<1>7. CalmInv'
  BY <1>1, <1>6 DEF CalmInv
<1>8. QED
  BY <1>5, <1>7
-----------------------------------------------------------------------------
(* ncdns answers calls that are not about a rule of ncproxy.               *)
LEMMA FilesDns ==
    ASSUME RuleInv, NEW k \in Conns, UNCHANGED <<res, specs, req, calm, site, stream, op, loop>>,
           \/ D!DnsApply(k) \/ D!DnsRemove(k) \/ D!DnsWrite(k) \/ D!DnsRestart(k) \/ D!DnsFails(k)
    PROVE  FilesInv'
<1> USE DEF RuleInv, FilesInv
<1>1. CallOk(k)
  BY DEF Calls
<1>2. /\ call[k] # None /\ IsCall(call[k]) /\ call[k].st \in {"sent", "lost"} /\ call[k].key \in DnsNames
  <2>1. CASE D!DnsApply(k) \/ D!DnsRemove(k)
    BY <2>1, <1>1, Nones DEF D!DnsApply, D!DnsRemove, CallOk, Calls
  <2>2. CASE D!DnsWrite(k) \/ D!DnsRestart(k) \/ D!DnsFails(k)
    <3>1. dns[k] # None
      BY <2>2, Nones DEF D!DnsWrite, D!DnsRestart, D!DnsFails, None
    <3>2. QED
      BY <1>1, <3>1 DEF CallOk
  <2>3. QED
    BY <2>1, <2>2
<1>3. \/ UNCHANGED call /\ DOMAIN dns' = Conns /\ \A j \in Conns : j # k => dns'[j] = dns[j]
      \/ \E st \in {"ok", "err"} : D!Reply(k, st)
  BY DEF D!DnsApply, D!DnsRemove, D!DnsWrite, D!DnsRestart, D!DnsFails, D!Fail, Calls
<1>4. op[k] = None
  BY <1>2, ConnsAndRules, Worker DEF Calls
<1>5. /\ DOMAIN call' = Conns /\ DOMAIN dns' = Conns
      /\ \A j \in Conns : j # k => dns'[j] = dns[j] /\ call'[j] = call[j]
      /\ call'[k] # None => call'[k].key = call[k].key
      /\ CallOk(k)'
  <2>1. CASE UNCHANGED call /\ DOMAIN dns' = Conns /\ \A j \in Conns : j # k => dns'[j] = dns[j]
    BY <1>2, <1>4, <2>1 DEF Calls, CallOk, Asked
  <2>2. ASSUME NEW st \in {"ok", "err"}, D!Reply(k, st)
        PROVE  /\ DOMAIN call' = Conns /\ DOMAIN dns' = Conns
               /\ \A j \in Conns : j # k => dns'[j] = dns[j] /\ call'[j] = call[j]
               /\ call'[k] # None => call'[k].key = call[k].key
               /\ CallOk(k)'
    <3>1. /\ DOMAIN call' = Conns /\ DOMAIN dns' = Conns /\ dns'[k] = None
          /\ \A j \in Conns : j # k => dns'[j] = dns[j] /\ call'[j] = call[j]
      BY <2>2, Nones DEF D!Reply, Calls
    <3>2. CASE call[k].st = "lost"
      <4>1. call'[k] = None
        BY <2>2, <3>2, Nones DEF D!Reply, Calls
      <4>2. CallOk(k)'
        BY <1>4, <3>1, <3>2, <4>1 DEF Calls, CallOk
      <4>3. QED
        BY <3>1, <4>1, <4>2
    <3>3. CASE call[k].st # "lost"
      <4>1. call'[k] = [call[k] EXCEPT !.st = st]
        BY <2>2, <3>3 DEF D!Reply, Calls
      <4>2. /\ IsCall(call'[k]) /\ call'[k].st = st /\ call'[k].key = call[k].key
            /\ call'[k].verb = call[k].verb /\ call'[k].data = call[k].data
        BY <1>2, <4>1 DEF IsCall
      <4>3. call'[k] # None
        BY <4>2 DEF None
      <4>4. CallOk(k)'
        BY <1>2, <1>4, <3>1, <3>3, <4>2, <4>3 DEF Calls, CallOk, Asked
      <4>5. QED
        BY <3>1, <4>2, <4>4
    <3>4. QED
      BY <3>2, <3>3
  <2>3. QED
    BY <1>3, <2>1, <2>2
<1>6. \A j \in Conns : j # k => Idle(j) /\ dns'[j] = dns[j]
  BY <1>5 DEF Idle
<1>7. Calls' /\ Saves' /\ Making'
  BY <1>5, <1>6, CallsOfOthers DEF Saves, Making, Made
<1>8. ASSUME NEW r \in Rules, calm[r] PROVE Calm(r)'
  <2>1. Calm(r) /\ Same(r)
    BY <1>8 DEF CalmInv, Same, Data
  <2>2. ~P!Touches(k, r) /\ ~P!Touches(k, r)'
    BY <1>2, <1>5, ConnsAndRules, Nones DEF P!Touches, Calls, CallOk
  <2>3. QED
    BY <1>6, <2>1, <2>2, Untouched
<1>9. CalmInv'
  BY <1>8 DEF CalmInv
<1>10. QED
  BY <1>7, <1>9
-----------------------------------------------------------------------------
(* The statements of a request, which has one key.                         *)
Alone(k) ==
    /\ DOMAIN req' = Conns /\ DOMAIN call' = Conns
    /\ \A j \in Conns : j # k => req'[j] = req[j] /\ call'[j] = call[j]
    /\ UNCHANGED <<site, stream, op, loop, dns>>
    /\ DOMAIN calm' = Names /\ \A n \in Names : calm'[n] => calm[n]
    /\ \A n \in Names : res[n] # 0 => specs'[res[n]] = specs[res[n]]
Only(k, n) ==
    (req[k] # None => req[k].key = n) /\ (call[k] # None => call[k].key = n)

LEMMA FilesRequest ==
    ASSUME RuleInv, NEW k \in Conns, Alone(k), NEW n, Only(k, n), Only(k, n)',
           \A r \in Rules : r # n => res'[r] = res[r],
           CallOk(k)', Saves', n \in Rules /\ calm'[n] => Calm(n)'
    PROVE  FilesInv'
<1> USE DEF RuleInv, FilesInv
<1>1. \A j \in Conns : j # k => Idle(j) /\ dns'[j] = dns[j]
  BY DEF Alone, Idle
<1>2. Calls' /\ Making'
  BY <1>1, CallsOfOthers DEF Alone, Making, Made, Calls
<1>3. ASSUME NEW r \in Rules, calm'[r], r # n PROVE Calm(r)'
  <2>1. Calm(r) /\ Same(r)
    BY <1>3, ConnsAndRules DEF Alone, CalmInv, Same, Data
  <2>2. ~P!Touches(k, r) /\ ~P!Touches(k, r)'
    BY <1>3, Nones DEF P!Touches, Only
  <2>3. QED
    BY <1>1, <2>1, <2>2, Untouched
<1>4. CalmInv'
  BY <1>3 DEF CalmInv, Alone
<1>5. QED
  BY <1>2, <1>4

(* A request that leaves its rule alone.                                   *)
LEMMA CalmRequest ==
    ASSUME NEW r \in Rules, NEW k \in Conns, Calm(r), Alone(k), res'[r] = res[r],
           \A j \in Conns : j # k => ~P!Touches(j, r),
           call'[k] # None /\ call'[k].key = r => call'[k].st # "lost",
           About(k, r)' /\ ~Early(k)' => op[r] = None /\ Late(k, r)',
           (About(k, r)' => Early(k)') => (About(k, r) => Early(k)) \/ InSync(r)
    PROVE  Calm(r)'
<1>1. Same(r) /\ r \in Names
  BY ConnsAndRules DEF Alone, Same, Data
<1>2. \A j \in Conns : j # k => ~P!Touches(j, r)'
  BY DEF P!Touches, Alone
<1>3. InSync(r) => InSync(r)'
  BY <1>1 DEF InSync, Same, Whole, Gone, Served, StreamServed
<1>4. Progress(r, r) => Progress(r, r)'
  BY <1>1 DEF Progress, Same, Whole, Gone, Served, StreamServed
<1>5. op'[r] # None => res'[r] # 0 /\ op'[r].data = Data(r)' /\ Progress(r, r)'
  BY <1>1, <1>4 DEF Calm, Same
<1>6. \A j \in Conns : About(j, r) => j = k
  BY Touch
<1>7. op'[r] = None /\ (About(k, r)' => Early(k)') => InSync(r)'
  BY <1>1, <1>3, <1>6 DEF Calm, Same
<1>8. QED
  BY <1>1, <1>2, <1>5, <1>7, OnlyOne DEF Same

(* A request at its place, and the rule it is about.                       *)
LEMMA RequestAt ==
    ASSUME RuleInv, NEW k \in Conns, req[k] # None
    PROVE  /\ IsReq(req[k]) /\ CallOk(k) /\ Only(k, req[k].key)
           /\ req[k].key \in Rules => req[k].op \in {"create", "put", "delete"}
           /\ req[k].key \in Rules /\ calm[req[k].key] =>
                 /\ Calm(req[k].key) /\ About(k, req[k].key)
                 /\ \A j \in Conns : j # k => ~P!Touches(j, req[k].key)
<1> USE DEF RuleInv, FilesInv
<1>1. IsReq(req[k]) /\ CallOk(k) /\ Only(k, req[k].key)
  BY DEF KindInv, Reqs, Calls, CallOk, Only
<1>2. req[k].key \in Rules => req[k].op \in {"create", "put", "delete"}
  BY <1>1, ConnsAndRules DEF IsReq
<1>3. About(k, req[k].key) /\ P!Touches(k, req[k].key)
  BY Touch DEF About
<1>4. QED
  BY <1>1, <1>2, <1>3 DEF CalmInv, Calm

(* It goes on, with what it is about, or ends.                             *)
Goes(k, pc) ==
    /\ req'[k] # None /\ IsReq(req'[k]) /\ req'[k].pc = pc /\ req'[k].op = req[k].op
    /\ req'[k].key = req[k].key /\ req'[k].data = req[k].data /\ req'[k].spec = req[k].spec
LEMMA RequestGoes ==
    ASSUME Reqs, NEW k \in Conns, req[k] # None, NEW pc, Go(k, pc)
    PROVE  /\ DOMAIN req' = Conns /\ \A j \in Conns : j # k => req'[j] = req[j]
           /\ Goes(k, pc)
<1>1. IsReq(req[k])
  BY DEF Reqs
<1>2. IsReq(req'[k]) /\ req'[k].pc = pc
  BY <1>1 DEF Reqs, Go, IsReq
<1>3. QED
  BY <1>1, <1>2, ReqShape DEF Reqs, Go, Goes, IsReq
LEMMA RequestEnds ==
    ASSUME Reqs, NEW k \in Conns, End(k)
    PROVE  DOMAIN req' = Conns /\ (\A j \in Conns : j # k => req'[j] = req[j]) /\ req'[k] = None
BY DEF Reqs, End

(* A request that does not wait keeps at most a call it gave up.           *)
LEMMA CallRests ==
    ASSUME NEW k \in Conns, CallOk(k), req[k] # None, req[k].pc # "wait",
           call'[k] = call[k], op'[k] = op[k], dns'[k] = dns[k],
           req'[k] = None \/ \E pc : Goes(k, pc) /\ pc \notin {"wait", "read", "hook"}
    PROVE  CallOk(k)'
<1>1. call[k] # None => call[k].st = "lost"
  BY DEF CallOk, Asked
<1>2. CASE req'[k] = None
  BY <1>1, <1>2 DEF CallOk
<1>3. ASSUME NEW pc, Goes(k, pc), pc \notin {"wait", "read", "hook"} PROVE CallOk(k)'
  BY <1>1, <1>3 DEF CallOk, Goes
<1>4. QED
  BY <1>2, <1>3

LEMMA SavesRest ==
    ASSUME RuleInv, NEW k \in Conns, \A j \in Conns : j # k => req'[j] = req[j],
           \A s \in 1..rleft.made : specs'[s] = specs[s] \/ specs'[s] = None,
           req'[k] = None \/ req'[k].pc # "save"
    PROVE  Saves'
<1> SUFFICES ASSUME NEW j \in Conns, req'[j] # None, req'[j].op \in {"create", "put"}, req'[j].pc = "save"
             PROVE  specs'[req'[j].spec] = None \/ specs'[req'[j].spec].data = req'[j].data
  BY DEF Saves
<1>1. j # k /\ req'[j] = req[j]
  OBVIOUS
<1>2. req[j].spec \in 1..rleft.made
  BY <1>1 DEF RuleInv, KindInv, Reqs, Inserted
<1>3. QED
  BY <1>1, <1>2 DEF RuleInv, FilesInv, Saves
-----------------------------------------------------------------------------
(* A request begins: it overlaps with another, or is the only one.         *)
LEMMA FilesBegin ==
    ASSUME RuleInv, NEW k \in Conns, UNCHANGED <<site, stream, op, loop, dns>>,
           \/ \E op1 \in Ops, n \in Names : \E data \in DataOf[n] : Request(k, op1, n, data)
           \/ \E op1 \in Ops, d \in Kinds, v \in Versions : KindRequest(k, op1, d, v)
    PROVE  FilesInv'
<1> USE DEF RuleInv, FilesInv
<1>1. req[k] = None /\ call[k] = None /\ UNCHANGED <<res, specs, call>>
  BY DEF Request, KindRequest
<1>2. PICK q : /\ q # None /\ q.pc = "read" /\ req' = [req EXCEPT ![k] = q]
               /\ \/ calm' = [calm EXCEPT ![q.key] = @ /\ ~Others(k, q.key)] /\ q.key \in Names
                  \/ calm' = calm /\ q.key \in Kinds
  <2>1. ASSUME NEW op1 \in Ops, NEW n \in Names, NEW data \in DataOf[n], Request(k, op1, n, data)
        PROVE  \E q : /\ q # None /\ q.pc = "read" /\ q.key = n /\ req' = [req EXCEPT ![k] = q]
                      /\ calm' = [calm EXCEPT ![n] = @ /\ ~Others(k, n)]
    <3>1. \A o, e : /\ Frame(o, n, e, 0) # None /\ Frame(o, n, e, 0).pc = "read"
                    /\ Frame(o, n, e, 0).key = n
      BY DEF Frame, None
    <3>2. \E o, e : req' = [req EXCEPT ![k] = Frame(o, n, e, 0)]
      <4>1. CASE op1 = "revert"
        BY <2>1, <4>1 DEF Request
      <4>2. CASE op1 # "revert"
        BY <2>1, <4>2 DEF Request
      <4>3. QED
        BY <4>1, <4>2
    <3>3. calm' = [calm EXCEPT ![n] = @ /\ ~Others(k, n)]
      BY <2>1 DEF Request
    <3>4. QED
      BY <3>1, <3>2, <3>3
  <2>2. ASSUME NEW op1 \in Ops, NEW d \in Kinds, NEW v \in Versions, KindRequest(k, op1, d, v)
        PROVE  \E q : /\ q # None /\ q.pc = "read" /\ q.key = d /\ req' = [req EXCEPT ![k] = q]
                      /\ calm' = calm
    BY <2>2 DEF KindRequest, Frame, None
  <2>3. QED
    BY <2>1, <2>2
<1>3. DOMAIN req' = Conns /\ req'[k] = q /\ \A j \in Conns : j # k => req'[j] = req[j]
  BY <1>2 DEF KindInv, Reqs
<1>4. /\ DOMAIN calm' = Names /\ \A n \in Names : calm'[n] => calm[n]
      /\ q.key \in Rules /\ calm'[q.key] => ~Others(k, q.key)
  BY <1>2, ConnsAndRules DEF CalmInv
<1>5. Alone(k) /\ Only(k, q.key) /\ Only(k, q.key)'
  BY <1>1, <1>3, <1>4 DEF Alone, Only, Calls
<1>6. CallOk(k)'
  BY <1>1, <1>2, <1>3 DEF CallOk, Calls
<1>7. Saves'
  BY <1>1, <1>2, <1>3, SavesRest
<1>8. ASSUME q.key \in Rules, calm'[q.key] PROVE Calm(q.key)'
  <2>1. PICK r \in Rules : r = q.key
    BY <1>8
  <2>2. Calm(r) /\ \A j \in Conns : j # k => ~P!Touches(j, r)
    BY <1>4, <1>8, <2>1, ConnsAndRules, Nones DEF CalmInv, Others, P!Touches
  <2>3. ~About(k, r) /\ Early(k)'
    BY <1>1, <1>2, <1>3 DEF About, Early
  <2>4. Calm(r)'
    BY <1>1, <1>5, <2>2, <2>3, CalmRequest
  <2>5. QED
    BY <2>1, <2>4
<1>9. QED
  BY <1>1, <1>5, <1>6, <1>7, <1>8, FilesRequest

(* Up to the call, a request is early; it may end here.                    *)
LEMMA FilesEarly ==
    ASSUME RuleInv, NEW k \in Conns, UNCHANGED <<site, stream, op, loop, dns>>, ReadRow(k) \/ Hook(k)
    PROVE  FilesInv'
<1> USE DEF RuleInv, FilesInv
<1>1. PICK n : n = req[k].key
  OBVIOUS
<1>2. /\ req[k] # None /\ req[k].pc \in {"read", "hook"} /\ req[k].op \in {"create", "put", "delete"}
      /\ UNCHANGED <<res, specs>> /\ IsReq(req[k]) /\ n \in Names /\ n \notin Kinds
  BY <1>1, ReqAt, ResourcesAssumption DEF ReadRow, Hook, KindInv, IsReq
<1>3. CallOk(k) /\ call[k] = None /\ op[k] = None /\ dns[k] = None
  BY <1>2 DEF Calls, CallOk
<1>4. CASE calm' = calm /\ call' = call /\ (End(k) \/ Go(k, "hook"))
  <2>1. /\ DOMAIN req' = Conns /\ \A j \in Conns : j # k => req'[j] = req[j]
        /\ req'[k] = None \/ Goes(k, "hook")
    BY <1>2, <1>4, RequestEnds, RequestGoes DEF KindInv
  <2>2. Alone(k) /\ Only(k, n) /\ Only(k, n)'
    BY <1>1, <1>2, <1>3, <1>4, <2>1 DEF Alone, Only, Calls, CalmInv, Goes
  <2>3. CallOk(k)'
    BY <1>3, <1>4, <2>1 DEF CallOk, Goes
  <2>4. Saves'
    BY <1>2, <2>1, SavesRest DEF Goes
  <2>5. ASSUME n \in Rules, calm'[n] PROVE Calm(n)'
    <3>1. Calm(n) /\ \A j \in Conns : j # k => ~P!Touches(j, n)
      BY <1>1, <1>2, <1>4, <2>5, RequestAt
    <3>2. Early(k) /\ (About(k, n)' => Early(k)')
      BY <1>2, <2>1 DEF Early, About, Goes
    <3>3. QED
      BY <1>2, <1>3, <1>4, <2>2, <2>5, <3>1, <3>2, CalmRequest
  <2>6. QED
    BY <1>2, <2>2, <2>3, <2>4, <2>5, FilesRequest
<1>5. CASE calm' = [calm EXCEPT ![n] = FALSE] /\ call' = call /\ Go(k, "row")
  <2>1. DOMAIN req' = Conns /\ (\A j \in Conns : j # k => req'[j] = req[j]) /\ Goes(k, "row")
    BY <1>2, <1>5, RequestGoes DEF KindInv
  <2>2. Alone(k) /\ Only(k, n) /\ Only(k, n)' /\ ~calm'[n]
    BY <1>1, <1>2, <1>3, <1>5, <2>1 DEF Alone, Only, Calls, CalmInv, Goes
  <2>3. CallOk(k)'
    BY <1>3, <1>5, <2>1 DEF CallOk, Goes
  <2>4. Saves'
    BY <1>2, <2>1, SavesRest DEF Goes
  <2>5. QED
    BY <1>2, <2>2, <2>3, <2>4, FilesRequest
<1>6. CASE n \notin Rules /\ calm' = calm /\ call' = call /\ \E pc \in {"row", "kind"} : Go(k, pc)
  <2>0. PICK pc \in {"row", "kind"} : Go(k, pc)
    BY <1>6
  <2>1. DOMAIN req' = Conns /\ (\A j \in Conns : j # k => req'[j] = req[j]) /\ Goes(k, pc)
    BY <1>2, <2>0, RequestGoes DEF KindInv
  <2>2. Alone(k) /\ Only(k, n) /\ Only(k, n)'
    BY <1>1, <1>2, <1>3, <1>6, <2>1 DEF Alone, Only, Calls, CalmInv, Goes
  <2>3. CallOk(k)'
    BY <1>3, <1>6, <2>1 DEF CallOk, Goes
  <2>4. Saves'
    BY <1>2, <2>1, SavesRest DEF Goes
  <2>5. QED
    BY <1>2, <1>6, <2>2, <2>3, <2>4, FilesRequest
<1>7. CASE /\ calm' = calm /\ Go(k, "wait")
           /\ call' = [call EXCEPT ![k] = [st |-> "sent", key |-> n, data |-> req[k].data,
                                           verb |-> IF req[k].op = "delete" THEN "del" ELSE "add"]]
  <2>1. DOMAIN req' = Conns /\ (\A j \in Conns : j # k => req'[j] = req[j]) /\ Goes(k, "wait")
    BY <1>2, <1>7, RequestGoes DEF KindInv
  <2>2. /\ DOMAIN call' = Conns /\ \A j \in Conns : j # k => call'[j] = call[j]
        /\ IsCall(call'[k]) /\ call'[k].st = "sent" /\ call'[k].key = n /\ call'[k].data = req[k].data
        /\ call'[k].verb = IF req[k].op = "delete" THEN "del" ELSE "add"
    BY <1>2, <1>7 DEF Calls, IsCall
  <2>3. call'[k] # None
    BY <2>2 DEF None
  <2>4. Alone(k) /\ Only(k, n) /\ Only(k, n)'
    BY <1>1, <1>2, <1>3, <1>7, <2>1, <2>2 DEF Alone, Only, CalmInv, Goes
  <2>5. CallOk(k)'
    BY <1>1, <1>3, <2>1, <2>2, <2>3 DEF CallOk, Goes, Asked
  <2>6. Saves'
    BY <1>2, <2>1, SavesRest DEF Goes
  <2>7. ASSUME n \in Rules, calm'[n] PROVE Calm(n)'
    <3>1. Calm(n) /\ \A j \in Conns : j # k => ~P!Touches(j, n)
      BY <1>1, <1>2, <1>7, <2>7, RequestAt
    <3>2. Early(k) /\ Early(k)'
      BY <1>2, <1>3, <2>1, <2>2 DEF Early, Goes
    <3>3. QED
      BY <1>2, <2>2, <2>4, <2>7, <3>1, <3>2, CalmRequest
  <2>8. QED
    BY <1>2, <2>4, <2>5, <2>6, <2>7, FilesRequest
<1>8. CASE ReadRow(k)
  BY <1>4, <1>8 DEF ReadRow
<1>9. CASE Hook(k)
  <2>1. n \notin Rules \/ KindOf[n] \in Url
    BY ControllersAssumption
  <2>2. QED
    BY <1>1, <1>4, <1>5, <1>6, <1>7, <1>9, <2>1 DEF Hook, Spoil
<1>10. QED
  BY <1>8, <1>9

(* ncproxy answered, or nanocld gave up.                                   *)
LEMMA FilesAnswered ==
    ASSUME RuleInv, NEW k \in Conns, UNCHANGED <<site, stream, op, loop, dns>>,
           HookDone(k) \/ HookTimeout(k)
    PROVE  FilesInv'
<1> USE DEF RuleInv, FilesInv
<1>1. PICK n : n = req[k].key
  OBVIOUS
<1>2. /\ req[k] # None /\ req[k].pc = "wait" /\ req[k].op \in {"create", "put", "delete"}
      /\ UNCHANGED <<res, specs>> /\ IsReq(req[k]) /\ n \in Names /\ call[k] # None
  BY <1>1, ReqAt DEF HookDone, HookTimeout, KindInv, IsReq
<1>3. CallOk(k) /\ IsCall(call[k]) /\ call[k].key = n
  BY <1>1, <1>2 DEF Calls, CallOk
<1>4. PICK pc \in {"row", "kind"} : /\ Go(k, pc) \/ End(k)
                                    /\ HookDone(k) /\ call[k].st = "ok" => Go(k, pc)
  BY DEF HookDone, HookTimeout
<1>5. /\ DOMAIN req' = Conns /\ \A j \in Conns : j # k => req'[j] = req[j]
      /\ req'[k] = None \/ Goes(k, pc)
      /\ HookDone(k) /\ call[k].st = "ok" => Goes(k, pc)
  BY <1>2, <1>4, RequestEnds, RequestGoes DEF KindInv
<1>6. Saves'
  BY <1>2, <1>5, SavesRest DEF Goes
<1>7. CASE HookDone(k)
  <2>1. /\ DOMAIN call' = Conns /\ call'[k] = None /\ \A j \in Conns : j # k => call'[j] = call[j]
        /\ op[k] = None /\ dns[k] = None
    BY <1>3, <1>7 DEF HookDone, Calls, CallOk
  <2>2. /\ DOMAIN calm' = Names /\ (\A m \in Names : calm'[m] => calm[m])
        /\ calm'[n] => call[k].st = "ok"
    BY <1>1, <1>2, <1>7 DEF HookDone, Spoil, CalmInv
  <2>3. Alone(k) /\ Only(k, n) /\ Only(k, n)'
    BY <1>1, <1>2, <1>3, <1>5, <2>1, <2>2 DEF Alone, Only, Goes
  <2>4. CallOk(k)'
    BY <1>5, <2>1 DEF CallOk, Goes
  <2>5. ASSUME n \in Rules, calm'[n] PROVE Calm(n)'
    <3>1. Calm(n) /\ About(k, n) /\ \A j \in Conns : j # k => ~P!Touches(j, n)
      BY <1>1, <1>2, <2>2, <2>5, RequestAt
    <3>2. ~Early(k) /\ call[k].st = "ok"
      BY <1>2, <2>2, <2>5 DEF Early
    <3>3. op[n] = None /\ Done(k, n)
      BY <1>2, <3>1, <3>2 DEF Calm, Late
    <3>4. Goes(k, pc) /\ Done(k, n)'
      BY <1>5, <1>7, <3>2, <3>3 DEF Done, Goes, Whole, Gone, Served, StreamServed
    <3>5. ~Early(k)' /\ Late(k, n)'
      BY <2>1, <3>4 DEF Early, Late, Goes
    <3>6. About(k, n)'
      BY <1>1, <3>4 DEF About, Goes
    <3>7. QED
      BY <1>2, <2>1, <2>3, <2>5, <3>1, <3>3, <3>5, <3>6, CalmRequest
  <2>6. QED
    BY <1>2, <1>6, <2>3, <2>4, <2>5, FilesRequest
<1>8. CASE HookTimeout(k)
  <2>1. call' = [call EXCEPT ![k].st = "lost"] /\ call[k].st = "sent"
    BY <1>8 DEF HookTimeout
  <2>2. /\ DOMAIN call' = Conns /\ \A j \in Conns : j # k => call'[j] = call[j]
        /\ IsCall(call'[k]) /\ call'[k].st = "lost" /\ call'[k].key = n
        /\ call'[k].verb = call[k].verb /\ call'[k].data = call[k].data
    BY <1>3, <2>1 DEF Calls, IsCall
  <2>3. call'[k] # None
    BY <2>2 DEF None
  <2>4. DOMAIN calm' = Names /\ (\A m \in Names : calm'[m] => calm[m]) /\ ~calm'[n]
    BY <1>1, <1>2, <1>8 DEF HookTimeout, Spoil, CalmInv
  <2>5. Alone(k) /\ Only(k, n) /\ Only(k, n)'
    BY <1>1, <1>2, <1>3, <1>5, <2>2, <2>4 DEF Alone, Only, Goes
  <2>6. CallOk(k)'
    BY <1>1, <1>3, <1>5, <2>1, <2>2, <2>3 DEF CallOk, Goes
  <2>7. QED
    BY <1>2, <1>6, <2>4, <2>5, <2>6, FilesRequest
<1>9. QED
  BY <1>7, <1>8

(* The spec is inserted: the files are those of its data already.          *)
LEMMA FilesSaveSpec ==
    ASSUME RuleInv, NEW k \in Conns, UNCHANGED <<site, stream, op, loop, dns>>, SaveSpec(k)
    PROVE  FilesInv'
<1> USE DEF RuleInv, FilesInv
<1>1. PICK n : n = req[k].key
  OBVIOUS
<1>2. /\ req[k] # None /\ req[k].pc = "kind" /\ req[k].op \in {"create", "put"}
      /\ UNCHANGED <<res, call>> /\ IsReq(req[k]) /\ n \in Names /\ CallOk(k) /\ Only(k, n)
  BY <1>1, ReqAt, RequestAt DEF SaveSpec, KindInv, IsReq
<1>3. CASE End(k) /\ Spoil(k) /\ UNCHANGED specs
  <2>1. DOMAIN req' = Conns /\ (\A j \in Conns : j # k => req'[j] = req[j]) /\ req'[k] = None
    BY <1>3, RequestEnds DEF KindInv
  <2>2. DOMAIN calm' = Names /\ (\A m \in Names : calm'[m] => calm[m]) /\ ~calm'[n]
    BY <1>1, <1>2, <1>3 DEF Spoil, CalmInv
  <2>3. Alone(k) /\ Only(k, n)' /\ CallOk(k)'
    BY <1>2, <1>3, <2>1, <2>2, CallRests DEF Alone, Only, Calls
  <2>4. Saves'
    BY <1>3, <2>1, SavesRest
  <2>5. QED
    BY <1>2, <2>2, <2>3, <2>4, FilesRequest
<1>4. CASE ~(End(k) /\ Spoil(k) /\ UNCHANGED specs)
  <2>1. PICK m : m = rleft.made + 1
    OBVIOUS
  <2>2. PICK spec : /\ InsertSpec(spec) /\ spec # None /\ spec.data = req[k].data /\ UNCHANGED calm
                    /\ req' = [req EXCEPT ![k].pc = "save", ![k].spec = m]
    <3> DEFINE s == [st |-> "spec", of |-> req[k].key, data |-> req[k].data,
                     ver |-> specs[kinds[KindOf[req[k].key]]].ver]
    <3>1. InsertSpec(s) /\ UNCHANGED calm /\ req' = [req EXCEPT ![k].pc = "save", ![k].spec = m]
      BY <1>4, <2>1 DEF SaveSpec
    <3>2. s # None /\ s.data = req[k].data
      BY DEF None
    <3>3. QED
      BY <3>1, <3>2
  <2>3. /\ m \in Keys /\ specs[m] = None /\ specs'[m] = spec
        /\ \A s \in Keys : s # m => specs'[s] = specs[s]
    BY <2>1, <2>2, SpecInserts DEF KindInv
  <2>4. 1..rleft.made \subseteq Keys /\ m \notin 1..rleft.made
    BY <2>1, <2>3, ResourcesAssumption DEF KindInv, Tables, Keys
  <2>5. \A a \in Names : res[a] # 0 => specs'[res[a]] = specs[res[a]]
    BY <2>3 DEF KindInv, Tables
  <2>6. /\ DOMAIN req' = Conns /\ \A j \in Conns : j # k => req'[j] = req[j]
        /\ req'[k].st = "run" /\ req'[k].pc = "save" /\ req'[k].op = req[k].op /\ req'[k].key = n
        /\ req'[k].data = req[k].data /\ req'[k].spec = m
    BY <1>1, <1>2, <2>2 DEF KindInv, Reqs, IsReq
  <2>7. req'[k] # None
    BY <2>6 DEF None
  <2>8. Alone(k) /\ Only(k, n)'
    BY <1>2, <2>2, <2>5, <2>6 DEF Alone, Only, Calls, CalmInv
  <2>9. CallOk(k)'
    <3>1. call[k] # None => call[k].st = "lost"
      BY <1>2 DEF CallOk, Asked
    <3>2. QED
      BY <1>1, <1>2, <2>6, <2>7, <3>1 DEF CallOk
  <2>10. Saves'
    <3> SUFFICES ASSUME NEW j \in Conns, req'[j] # None, req'[j].op \in {"create", "put"}, req'[j].pc = "save"
                 PROVE  specs'[req'[j].spec] = None \/ specs'[req'[j].spec].data = req'[j].data
      BY DEF Saves
    <3>1. CASE j = k
      BY <2>2, <2>3, <2>6, <3>1
    <3>2. CASE j # k
      <4>1. req'[j] = req[j] /\ req[j].spec \in 1..rleft.made
        BY <2>6, <3>2 DEF KindInv, Reqs, Inserted
      <4>2. QED
        BY <2>3, <2>4, <4>1 DEF Saves
    <3>3. QED
      BY <3>1, <3>2
  <2>11. ASSUME n \in Rules, calm'[n] PROVE Calm(n)'
    <3>1. Calm(n) /\ About(k, n) /\ \A j \in Conns : j # k => ~P!Touches(j, n)
      BY <1>1, <1>2, <2>2, <2>11, RequestAt
    <3>2. ~Early(k) /\ ~Early(k)' /\ About(k, n)'
      BY <1>2, <2>6, <2>7 DEF Early, About
    <3>3. op[n] = None /\ Done(k, n) /\ (op[k] # None => Progress(k, n))
      BY <1>2, <3>1, <3>2 DEF Calm, Late
    <3>4. Done(k, n)' /\ (op'[k] # None => Progress(k, n)')
      BY <2>6, <3>3 DEF Done, Progress, Whole, Gone, Served, StreamServed
    <3>5. Late(k, n)'
      BY <2>6, <3>4 DEF Late
    <3>6. call'[k] # None /\ call'[k].key = n => call'[k].st # "lost"
      BY <1>2, <3>1 DEF Calm
    <3>7. QED
      BY <1>2, <2>8, <2>11, <3>1, <3>2, <3>3, <3>5, <3>6, CalmRequest
  <2>12. QED
    BY <1>2, <2>8, <2>9, <2>10, <2>11, FilesRequest
<1>5. QED
  BY <1>3, <1>4

(* The row is written: the files are those of its row.                     *)
LEMMA FilesSaveRow ==
    ASSUME RuleInv, NEW k \in Conns, UNCHANGED <<site, stream, op, loop, dns>>, SaveRow(k)
    PROVE  FilesInv'
<1> USE DEF RuleInv, FilesInv
<1>1. PICK n : n = req[k].key
  OBVIOUS
<1>2. /\ req[k] # None /\ req[k].pc = "save" /\ req[k].op \in {"create", "put"}
      /\ UNCHANGED <<specs, call>> /\ IsReq(req[k]) /\ n \in Names /\ CallOk(k) /\ Only(k, n)
  BY <1>1, ReqAt, RequestAt DEF SaveRow, KindInv, IsReq
<1>3. DOMAIN req' = Conns /\ (\A j \in Conns : j # k => req'[j] = req[j]) /\ req'[k] = None
  BY RequestEnds DEF SaveRow, KindInv
<1>4. /\ DOMAIN calm' = Names /\ (\A m \in Names : calm'[m] => calm[m])
      /\ \A m \in Names : m # n => res'[m] = res[m]
      /\ calm'[n] => res'[n] = req[k].spec /\ specs[req[k].spec] # None
  BY <1>1, <1>2 DEF SaveRow, Spoil, CalmInv, KindInv, Tables
<1>5. Alone(k) /\ Only(k, n)' /\ CallOk(k)'
  BY <1>2, <1>3, <1>4, CallRests DEF Alone, Only, Calls
<1>6. Saves'
  BY <1>2, <1>3, SavesRest
<1>7. ASSUME n \in Rules, calm'[n] PROVE Calm(n)'
  <2>1. Calm(n) /\ About(k, n) /\ \A j \in Conns : j # k => ~P!Touches(j, n)
    BY <1>1, <1>2, <1>4, <1>7, RequestAt
  <2>2. op[n] = None /\ Done(k, n)
    BY <1>2, <2>1 DEF Calm, Early, Late
  <2>3. Data(n)' = req[k].data /\ res'[n] # 0
    <3>1. specs[req[k].spec].data = req[k].data /\ req[k].spec \in 1..rleft.made
      BY <1>2, <1>4, <1>7 DEF Saves, KindInv, Reqs, Inserted
    <3>2. req[k].spec # 0
      BY <3>1 DEF KindInv, Tables
    <3>3. QED
      BY <1>2, <1>4, <1>7, <3>1, <3>2 DEF Data
  <2>4. InSync(n)'
    BY <1>2, <2>2, <2>3 DEF Done, InSync, Whole, Served, StreamServed
  <2>5. ~About(k, n)' /\ op'[n] = None
    BY <1>3, <2>2 DEF About
  <2>6. call'[k] # None /\ call'[k].key = n => call'[k].st # "lost"
    BY <1>2, <2>1 DEF Calm
  <2>7. \A j \in Conns : j # k => ~P!Touches(j, n)'
    BY <1>2, <1>3, <2>1 DEF P!Touches
  <2>8. QED
    BY <1>7, <2>4, <2>5, <2>6, <2>7, OnlyOne
<1>8. QED
  BY <1>2, <1>4, <1>5, <1>6, <1>7, FilesRequest, ConnsAndRules

(* The row is deleted, then its specs: the files are gone already.         *)
LEMMA FilesDelRow ==
    ASSUME RuleInv, NEW k \in Conns, UNCHANGED <<site, stream, op, loop, dns>>, DelRow(k)
    PROVE  FilesInv'
<1> USE DEF RuleInv, FilesInv
<1>1. PICK n : n = req[k].key
  OBVIOUS
<1>2. /\ req[k] # None /\ req[k].pc = "row" /\ req[k].op = "delete"
      /\ UNCHANGED <<specs, call, calm>> /\ IsReq(req[k]) /\ n \in Names /\ CallOk(k) /\ Only(k, n)
  BY <1>1, ReqAt, RequestAt DEF DelRow, KindInv, IsReq
<1>3. DOMAIN req' = Conns /\ (\A j \in Conns : j # k => req'[j] = req[j]) /\ Goes(k, "specs")
  BY <1>2, RequestGoes DEF DelRow, KindInv
<1>4. res'[n] = 0 /\ \A m \in Names : m # n => res'[m] = res[m]
  BY <1>1, <1>2 DEF DelRow, KindInv, Tables
<1>5. Alone(k) /\ Only(k, n)'
  BY <1>1, <1>2, <1>3 DEF Alone, Only, Calls, CalmInv, Goes
<1>6. CallOk(k)'
  BY <1>2, <1>3, CallRests
<1>7. Saves'
  BY <1>2, <1>3, SavesRest DEF Goes
<1>8. ASSUME n \in Rules, calm'[n] PROVE Calm(n)'
  <2>1. Calm(n) /\ About(k, n) /\ \A j \in Conns : j # k => ~P!Touches(j, n)
    BY <1>1, <1>2, <1>8, RequestAt
  <2>2. op[n] = None /\ Done(k, n) /\ (op[k] # None => Progress(k, n))
    BY <1>2, <2>1 DEF Calm, Early, Late
  <2>3. Done(k, n)' /\ (op'[k] # None => Progress(k, n)')
    BY <1>3, <2>2 DEF Done, Progress, Goes, Whole, Gone, Served, StreamServed
  <2>4. ~Early(k)' /\ Late(k, n)' /\ About(k, n)' /\ op'[n] = None
    BY <1>1, <1>3, <1>4, <2>2, <2>3 DEF Early, Late, Goes, About
  <2>5. call'[k] # None /\ call'[k].key = n => call'[k].st # "lost"
    BY <1>2, <2>1 DEF Calm
  <2>6. \A j \in Conns : j # k => ~P!Touches(j, n)'
    BY <1>2, <1>3, <2>1 DEF P!Touches
  <2>7. QED
    BY <1>8, <2>4, <2>5, <2>6, OnlyOne
<1>9. QED
  BY <1>2, <1>4, <1>5, <1>6, <1>7, <1>8, FilesRequest, ConnsAndRules

LEMMA FilesDelSpecs ==
    ASSUME RuleInv, NEW k \in Conns, UNCHANGED <<site, stream, op, loop, dns>>, DelSpecs(k)
    PROVE  FilesInv'
<1> USE DEF RuleInv, FilesInv
<1>1. PICK n : n = req[k].key
  OBVIOUS
<1>2. /\ req[k] # None /\ req[k].pc = "specs" /\ req[k].op \in {"delete", "unkind"}
      /\ UNCHANGED <<res, call, calm>> /\ IsReq(req[k]) /\ CallOk(k) /\ Only(k, n)
  BY <1>1, ReqAt, RequestAt DEF DelSpecs, KindInv
<1>3. DOMAIN req' = Conns /\ (\A j \in Conns : j # k => req'[j] = req[j]) /\ req'[k] = None
  BY RequestEnds DEF DelSpecs, KindInv
<1>4. /\ \A s \in Keys : specs'[s] = specs[s] \/ specs'[s] = None
      /\ \A m \in Names : res[m] # 0 => specs'[res[m]] = specs[res[m]]
  <2>1. CASE Unreferenced(SpecsOf(n))
    <3>1. \A s \in Keys : specs'[s] = IF s \in SpecsOf(n) THEN None ELSE specs[s]
      BY <1>1, <2>1 DEF DelSpecs, DeleteSpecs
    <3>2. QED
      BY <2>1, <3>1 DEF Unreferenced, KindInv, Tables
  <2>2. CASE ~Unreferenced(SpecsOf(n))
    BY <1>1, <2>2 DEF DelSpecs
  <2>3. QED
    BY <2>1, <2>2
<1>5. Alone(k) /\ Only(k, n)' /\ CallOk(k)'
  BY <1>2, <1>3, <1>4, CallRests DEF Alone, Only, Calls, CalmInv
<1>6. Saves'
  <2>1. 1..rleft.made \subseteq Keys
    BY ResourcesAssumption DEF KindInv, Tables, Keys
  <2>2. QED
    BY <1>3, <1>4, <2>1, SavesRest
<1>7. ASSUME n \in Rules, calm'[n] PROVE Calm(n)'
  <2>1. /\ Calm(n) /\ About(k, n) /\ (\A j \in Conns : j # k => ~P!Touches(j, n))
        /\ req[k].op = "delete"
    BY <1>1, <1>2, <1>7, RequestAt
  <2>2. Done(k, n) /\ res[n] = 0
    BY <1>2, <2>1 DEF Calm, Early, Late
  <2>3. InSync(n)
    BY <2>1, <2>2 DEF Done, InSync
  <2>4. ~About(k, n)'
    BY <1>3 DEF About
  <2>5. call'[k] # None /\ call'[k].key = n => call'[k].st # "lost"
    BY <1>2, <2>1 DEF Calm
  <2>6. QED
    BY <1>2, <1>5, <1>7, <2>1, <2>3, <2>4, <2>5, CalmRequest
<1>8. QED
  BY <1>2, <1>5, <1>6, <1>7, FilesRequest

(* The steps of requests on kinds, and a statement that fails.             *)
LEMMA FilesKinds ==
    ASSUME RuleInv, NEW k \in Conns, UNCHANGED <<site, stream, op, loop, dns>>,
           \/ KindRead(k) \/ KindSpec(k) \/ KindLookup(k) \/ KindRow(k) \/ KindDelete(k)
           \/ KindDelRow(k)
    PROVE  FilesInv'
<1> USE DEF RuleInv, FilesInv
<1>1. PICK n : n = req[k].key
  OBVIOUS
<1>2. /\ req[k] # None /\ req[k].op \in {"kind", "unkind"} /\ req[k].pc # "wait"
      /\ UNCHANGED <<res, call, calm>> /\ n \notin Rules /\ CallOk(k) /\ Only(k, n) /\ IsReq(req[k])
  <2>1. /\ req[k] # None /\ req[k].op \in {"kind", "unkind"} /\ req[k].pc # "wait"
        /\ UNCHANGED <<res, call, calm>>
    BY DEF KindRead, KindSpec, KindLookup, KindRow, KindDelete, KindDelRow, At
  <2>2. QED
    BY <1>1, <2>1, RequestAt
<1>3. CASE KindSpec(k)
  <2>1. PICK m, spec : /\ m = rleft.made + 1 /\ InsertSpec(spec)
                       /\ req' = [req EXCEPT ![k].pc = "lookup", ![k].spec = m]
    BY <1>3 DEF KindSpec
  <2>2. m \in Keys /\ specs[m] = None /\ \A s \in Keys : s # m => specs'[s] = specs[s]
    BY <2>1, SpecInserts DEF KindInv
  <2>3. 1..rleft.made \subseteq Keys /\ m \notin 1..rleft.made
    BY <2>1, <2>2, ResourcesAssumption DEF KindInv, Tables, Keys
  <2>4. \A a \in Names : res[a] # 0 => specs'[res[a]] = specs[res[a]]
    BY <2>2 DEF KindInv, Tables
  <2>5. /\ DOMAIN req' = Conns /\ \A j \in Conns : j # k => req'[j] = req[j]
        /\ req'[k].st = "run" /\ req'[k].pc = "lookup" /\ req'[k].key = n
    BY <1>1, <1>2, <2>1 DEF KindInv, Reqs, IsReq
  <2>6. CallOk(k)'
    <3>1. call[k] # None => call[k].st = "lost"
      BY <1>2 DEF CallOk, Asked
    <3>2. QED
      BY <1>1, <1>2, <2>5, <3>1 DEF CallOk
  <2>7. Alone(k) /\ Only(k, n)'
    BY <1>2, <2>4, <2>5 DEF Alone, Only, Calls, CalmInv
  <2>8. Saves'
    BY <2>2, <2>3, <2>5, SavesRest
  <2>9. QED
    BY <1>2, <2>6, <2>7, <2>8, FilesRequest
<1>4. CASE ~KindSpec(k)
  <2>1. /\ UNCHANGED specs
        /\ End(k) \/ \E pc \in {"spec", "insert", "update", "row", "specs"} : Go(k, pc)
    BY <1>4 DEF KindRead, KindLookup, KindRow, KindDelete, KindDelRow
  <2>2. /\ DOMAIN req' = Conns /\ \A j \in Conns : j # k => req'[j] = req[j]
        /\ \/ req'[k] = None
           \/ \E pc \in {"spec", "insert", "update", "row", "specs"} : Goes(k, pc)
    BY <1>2, <2>1, RequestEnds, RequestGoes DEF KindInv
  <2>3. Alone(k) /\ Only(k, n)'
    BY <1>1, <1>2, <2>1, <2>2 DEF Alone, Only, Calls, CalmInv, Goes
  <2>4. CallOk(k)'
    BY <1>2, <2>2, CallRests
  <2>5. Saves'
    BY <2>1, <2>2, SavesRest DEF Goes
  <2>6. QED
    BY <1>2, <2>3, <2>4, <2>5, FilesRequest
<1>5. QED
  BY <1>3, <1>4

LEMMA FilesDbFails ==
    ASSUME RuleInv, NEW k \in Conns, UNCHANGED <<site, stream, op, loop, dns>>, DbFails(k)
    PROVE  FilesInv'
<1> USE DEF RuleInv, FilesInv
<1>1. PICK n : n = req[k].key
  OBVIOUS
<1>2. /\ req[k] # None /\ req[k].pc # "wait" /\ UNCHANGED <<res, specs, call>>
      /\ CallOk(k) /\ Only(k, n)
      /\ calm' = [m \in Names |-> calm[m] /\ m # n]
  BY <1>1, RequestAt DEF DbFails
<1>3. DOMAIN req' = Conns /\ (\A j \in Conns : j # k => req'[j] = req[j]) /\ req'[k] = None
  BY RequestEnds DEF DbFails, KindInv
<1>4. Alone(k) /\ Only(k, n)' /\ CallOk(k)'
  BY <1>2, <1>3, CallRests DEF Alone, Only, Calls
<1>5. Saves'
  BY <1>2, <1>3, SavesRest
<1>6. QED
  BY <1>2, <1>4, <1>5, FilesRequest, ConnsAndRules
-----------------------------------------------------------------------------
LEMMA FilesInit == Init => FilesInv
<1> SUFFICES ASSUME Init PROVE FilesInv
  OBVIOUS
<1>1. /\ \A r \in Rules : site[r] = P!NoFile /\ stream[r] = P!NoFile
      /\ \A x \in P!Slots : op[x] = None
      /\ \A k \in Conns : req[k] = None /\ call[k] = None /\ dns[k] = None /\ op[k] = None
      /\ DOMAIN call = Conns /\ DOMAIN dns = Conns /\ DOMAIN calm = Names /\ loop.st = "off"
      /\ \A n \in Names : res[n] = 0
  BY Nones, ConnsAndRules DEF Init, RInit, P!PInit, D!DInit
<1>2. Calls /\ Saves /\ Making
  BY <1>1, ConnsAndRules DEF Calls, CallOk, Saves, Making
<1>3. P!NoFile.link = FALSE
  BY DEF P!NoFile
<1>4. \A r \in Rules : Calm(r)
  BY <1>1, <1>3, ConnsAndRules, Touch DEF Calm, About, InSync, Whole, Gone
<1>5. QED
  BY <1>1, <1>2, <1>4 DEF FilesInv, CalmInv

LEMMA FilesStep == RuleInv /\ [Next]_vars => FilesInv'
<1> SUFFICES ASSUME RuleInv, [Next]_vars PROVE FilesInv'
  OBVIOUS
<1>1. CASE UNCHANGED vars
  BY <1>1, FilesAside DEF vars, rvars, pvars, dvars, RuleInv, FilesInv, Making
<1>2. CASE RNext /\ UNCHANGED <<pvars, dvars>>
  <2>1. UNCHANGED <<site, stream, op, loop, dns>>
    BY <1>2 DEF pvars, dvars
  <2>2. PICK k \in Conns :
           \/ \E op1 \in Ops, n \in Names : \E data \in DataOf[n] : Request(k, op1, n, data)
           \/ \E op1 \in Ops, d \in Kinds, v \in Versions : KindRequest(k, op1, d, v)
           \/ RequestStep(k)
    BY <1>2 DEF RNext
  <2>3. CASE RequestStep(k)
    BY <2>1, <2>3, FilesEarly, FilesAnswered, FilesSaveSpec, FilesSaveRow, FilesDelRow, FilesDelSpecs,
       FilesKinds, FilesDbFails DEF RequestStep
  <2>4. CASE ~RequestStep(k)
    BY <2>1, <2>2, <2>4, FilesBegin
  <2>5. QED
    BY <2>3, <2>4
<1>3. CASE P!PNext /\ UNCHANGED <<kinds, res, specs, req, scope, rleft, dvars>>
  <2>1. UNCHANGED <<res, specs, req, dns>>
    BY <1>3 DEF dvars
  <2>2. ASSUME NEW x \in P!Slots, P!Work(x) \/ P!GenFails(x) \/ P!TestFails(x) PROVE FilesInv'
    BY <2>1, <2>2, FilesGen, FilesMoveOn, FilesStream, FilesSite, FilesRemove, FilesTake, FilesAnswer
       DEF P!Work
  <2>3. CASE P!HandleReload \/ P!Reload \/ P!ReloadFails
    BY <2>1, <2>3, FilesAside DEF P!HandleReload, P!Reload, P!ReloadFails, RuleInv, FilesInv, Making
  <2>4. CASE P!OnEvent \/ P!EventDone \/ P!Crash
    BY <2>1, <2>4, FilesOnEvent, FilesEventDone, FilesCrash
  <2>5. CASE (\E ev \in {"update", "delete", "secret"} : P!Change(ev)) \/ P!Subscribe \/ P!StreamEnds
    <3>1. UNCHANGED <<site, stream, op, call, calm>> /\ (loop' = loop \/ loop'.st \in {"on", "off"})
      BY <2>5 DEF P!Change, P!Subscribe, P!StreamEnds
    <3>2. QED
      BY <2>1, <3>1, FilesAside DEF RuleInv, FilesInv, Making
  <2>6. QED
    BY <1>3, <2>2, <2>3, <2>4, <2>5 DEF P!PNext
<1>4. CASE D!DNext /\ UNCHANGED <<kinds, res, specs, req, scope, rleft, calm, pvars>>
  BY <1>4, FilesDns DEF D!DNext, pvars
<1>5. QED
  BY <1>1, <1>2, <1>3, <1>4 DEF Next

(* When everything rests, a rule whose requests neither overlapped nor     *)
(* failed has the files of its row: ncproxy answered for what nanocld then *)
(* saved, and an event that rewrote the rule did so from the row.          *)
THEOREM RulesAreServed == Spec => []RuleServed
<1>1. Init => RuleInv
  BY ProxyInit, KindInit, FilesInit DEF RuleInv
<1>2. RuleInv /\ [Next]_vars => RuleInv'
  BY ProxyStep, KindStep, FilesStep DEF RuleInv
<1>3. RuleInv => RuleServed
  <2> SUFFICES ASSUME RuleInv, Resting, P!Quiet, NEW r \in Rules, calm[r]
               PROVE  /\ res[r] = 0 => ~site[r].link /\ ~stream[r].link
                      /\ res[r] # 0 /\ Data(r).site # "no" =>
                            site[r].link /\ site[r].text.of = Data(r).site
                      /\ res[r] # 0 /\ stream[r].link /\ Data(r).stream # "no" =>
                            stream[r].text.of = Data(r).stream
    BY DEF RuleServed
  <2>1. op[r] = None /\ \A k \in Conns : ~About(k, r)
    BY Nones, ConnsAndRules DEF P!Quiet, Resting, About
  <2>2. InSync(r)
    BY <2>1 DEF RuleInv, FilesInv, CalmInv, Calm
  <2>3. QED
    BY <2>2 DEF InSync, Gone, Served, StreamServed
<1>4. QED
  BY <1>1, <1>2, <1>3, PTL DEF Spec
=============================================================================
