-------------------------- MODULE SpecHistoryProofs --------------------------
(***************************************************************************)
(* What the separate statements keep true of rows, statuses and specs, for *)
(* every set of cargoes, vms and connections, every payload and any number *)
(* of requests and failing statements.                                     *)
(*                                                                         *)
(* SpecIsOwn and AckInHistory rest on what a request remembers between its *)
(* insert into specs and its write of the row (InFlight).  NamesFree rests *)
(* on who is at work on a key that has a status or specs but no row.       *)
(***************************************************************************)
EXTENDS SpecHistory, TLAPS

Writers == {"create", "put", "patch", "revert"}

IsFrame(f) ==
    /\ DOMAIN f = {"st", "op", "pc", "k", "data", "patch", "base", "i"} /\ f.st = "run"
    /\ f.k \in Keys /\ f.op \in Writers \cup {"delete", "clear"}

(* The shape of the tables, of the operations in progress and of the       *)
(* history.  Payloads may be anything.                                     *)
Rows ==
    /\ DOMAIN row = Keys
    /\ \A k \in Keys : row[k] # None => DOMAIN row[k] = {"st", "name", "spec"} /\ row[k].st = "row"
Specs ==
    /\ specs \in Seq(ToSet(specs))
    /\ \A i \in DOMAIN specs : DOMAIN specs[i] = {"st", "key", "data"} /\ specs[i].key \in Keys
Acts ==
    /\ DOMAIN act = Conns \cup Keys
    /\ \A a \in Conns \cup Keys : act[a] = None \/ IsFrame(act[a])
    /\ \A a \in Conns : act[a] # None =>
          /\ act[a].op # "clear"
          /\ act[a].op = "create" /\ act[a].pc = "begin" => act[a].k \notin Cargoes
    /\ \A k \in Keys : act[k] # None => act[k].op = "clear" /\ act[k].k = k
History ==
    DOMAIN hist = {"acked", "worn"} /\ DOMAIN hist.acked = Keys
Typed == Rows /\ Specs /\ Acts /\ History /\ status \subseteq Keys /\ queue \in Seq(Keys)

(* A request that inserted its spec and has not yet written the row.       *)
Written(a) ==
    act[a] # None /\ (\/ act[a].op \in Writers /\ act[a].pc = "row"
                      \/ act[a].op = "create" /\ act[a].pc = "status" /\ act[a].k \in Cargoes)

(* Its spec is there, or was deleted, and is of its key and payload.       *)
InFlight ==
    \A a \in Conns : Written(a) =>
        /\ act[a].i \in DOMAIN specs
        /\ specs[act[a].i].key = act[a].k /\ specs[act[a].i].data = act[a].data

PointsAt == \A k \in Keys : row[k] # None => row[k].spec \in DOMAIN specs

OwnInv == Typed /\ InFlight /\ PointsAt /\ SpecIsOwn /\ AckInHistory
-----------------------------------------------------------------------------
(* A creation that inserted its status and has not yet written the row.    *)
Claims(a) ==
    /\ act[a] # None /\ act[a].op = "create"
    /\ act[a].pc \in (IF act[a].k \in Cargoes THEN {"row"} ELSE {"spec", "row"})

(* A deletion that removed the row.                                        *)
Clearing(k) == act[k] # None /\ act[k].pc \in {"specs", "status"}

(* Who is beside a deletion's task has worn its key.                       *)
Overlaps ==
    \A a \in Conns, k \in Keys :
        act[a] # None /\ act[k] # None /\ act[a].k = k => k \in hist.worn

(* On a key that is not worn: an update that found the row still has it;   *)
(* the one creation that claimed the status finds no row, and its spec.    *)
Claimed ==
    \A a \in Conns : act[a] # None /\ act[a].k \notin hist.worn =>
        /\ (act[a].op \in Writers \ {"create"} /\ act[a].pc \in {"spec", "row"}) =>
              row[act[a].k] # None
        /\ Written(a) => Exists(act[a].i)
        /\ Claims(a) => /\ row[act[a].k] = None /\ act[a].k \in status
                        /\ \A b \in Conns : Claims(b) /\ act[b].k = act[a].k => b = a

(* The task takes away what is left, in this order.                        *)
Cleared ==
    \A k \in Keys \ hist.worn : Clearing(k) =>
        row[k] = None /\ (act[k].pc = "status" => SpecsOf(k) = {})

(* Without a row, a status is one that a creation claimed or a deletion is *)
(* about to remove, and specs are those of a creation or a deletion too.   *)
HasReason ==
    \A k \in Keys \ hist.worn : row[k] = None =>
        /\ k \in status => Clearing(k) \/ \E a \in Conns : Claims(a) /\ act[a].k = k
        /\ SpecsOf(k) # {} => \/ k \in status
                              \/ \E a \in Conns : Written(a) /\ act[a].k = k

FreeInv == OwnInv /\ Overlaps /\ Claimed /\ Cleared /\ HasReason
-----------------------------------------------------------------------------
(* One actor moves: its frame stays well formed, the others' as they were. *)
Moves(a) ==
    /\ DOMAIN act' = DOMAIN act
    /\ \A b \in Conns \cup Keys : b # a => act'[b] = act[b]
    /\ act'[a] = None \/ IsFrame(act'[a])
    /\ a \in Conns /\ act'[a] # None =>
          /\ act'[a].op # "clear"
          /\ act'[a].op = "create" /\ act'[a].pc = "begin" => act'[a].k \notin Cargoes
    /\ a \in Keys /\ act'[a] # None => act'[a].op = "clear" /\ act'[a].k = a

LEMMA ActsKept ==
    ASSUME Acts, NEW a \in Conns \cup Keys, Moves(a)
    PROVE  Acts'
BY SpecAssumption DEF Acts, Moves, IsFrame

LEMMA NoneShape == \A f : IsFrame(f) => f # None
BY DEF IsFrame, None

LEMMA GoMoves ==
    ASSUME Acts, NEW a \in Conns \cup Keys, act[a] # None, NEW pc, Go(a, pc),
           act[a].op = "create" => pc # "begin"
    PROVE  /\ Moves(a) /\ IsFrame(act'[a]) /\ act'[a].pc = pc
           /\ act'[a].k = act[a].k /\ act'[a].op = act[a].op /\ act'[a].i = act[a].i
           /\ act'[a].data = act[a].data
BY DEF Acts, Moves, Go, IsFrame

LEMMA EndMoves ==
    ASSUME Acts, NEW a \in Conns \cup Keys, End(a)
    PROVE  Moves(a) /\ act'[a] = None
BY DEF Acts, Moves, End

LEMMA BeginMoves ==
    ASSUME Acts, History, NEW a \in Conns \cup Keys, NEW f, IsFrame(f), Begin(a, f),
           a \in Conns => f.op # "clear" /\ (f.op = "create" /\ f.pc = "begin" => f.k \notin Cargoes),
           a \in Keys => f.op = "clear" /\ f.k = a
    PROVE  Moves(a) /\ act'[a] = f /\ History' /\ hist'.acked = hist.acked
BY DEF Acts, Moves, Begin, History

LEMMA SpecsGrow ==
    ASSUME Specs, NEW s, specs' = Append(specs, s), DOMAIN s = {"st", "key", "data"}, s.key \in Keys
    PROVE  /\ Specs' /\ Len(specs) + 1 \in DOMAIN specs' /\ specs'[Len(specs) + 1] = s
           /\ \A i \in DOMAIN specs : i \in DOMAIN specs' /\ specs'[i] = specs[i]
           /\ \A i \in DOMAIN specs' : i \in DOMAIN specs \/ i = Len(specs) + 1
<1>1. specs \in Seq(ToSet(specs) \cup {s})
  BY DEF Specs
<1>2. /\ Len(specs) + 1 \in DOMAIN specs' /\ specs'[Len(specs) + 1] = s
      /\ \A i \in DOMAIN specs : i \in DOMAIN specs' /\ specs'[i] = specs[i]
      /\ \A i \in DOMAIN specs' : i \in DOMAIN specs \/ i = Len(specs) + 1
  BY <1>1
<1>3. ToSet(specs') = ToSet(specs) \cup {s}
  BY <1>2 DEF ToSet
<1>4. specs' \in Seq(ToSet(specs'))
  BY <1>1, <1>3
<1>5. QED
  BY <1>2, <1>4 DEF Specs

LEMMA FrameOf ==
    ASSUME Acts, NEW a \in Conns \cup Keys, act[a] # None
    PROVE  IsFrame(act[a]) /\ act[a].k \in Keys
BY DEF Acts, IsFrame
-----------------------------------------------------------------------------
(* A step that leaves rows, specs and answers alone, and after which its   *)
(* actor has no spec in flight.                                            *)
Aside(a) ==
    /\ Moves(a) /\ (a \in Conns => ~Written(a)')
    /\ UNCHANGED <<row, specs>>
    /\ History' /\ hist'.acked = hist.acked

LEMMA OwnAside ==
    ASSUME OwnInv, NEW a \in Conns \cup Keys, Aside(a),
           status' \subseteq Keys, \A k \in Keys : row[k] # None => k \in status',
           queue' \in Seq(Keys)
    PROVE  OwnInv'
<1> USE DEF OwnInv, Aside
<1>1. Typed'
  BY ActsKept DEF Typed, Rows, Specs
<1>2. InFlight'
  <2> SUFFICES ASSUME NEW b \in Conns, Written(b)'
               PROVE  /\ act'[b].i \in DOMAIN specs
                      /\ specs[act'[b].i].key = act'[b].k /\ specs[act'[b].i].data = act'[b].data
    BY DEF InFlight
  <2>1. b # a /\ act'[b] = act[b]
    BY DEF Moves
  <2>2. Written(b)
    BY <2>1 DEF Written
  <2>3. QED
    BY <2>1, <2>2 DEF InFlight
<1>3. PointsAt' /\ SpecIsOwn'
  BY DEF PointsAt, SpecIsOwn
<1>4. AckInHistory'
  BY DEF AckInHistory, SpecsOf, Exists
<1>5. QED
  BY <1>1, <1>2, <1>3, <1>4

(* The eight requests.                                                     *)
Asks(a) ==
    \/ CreateCargo(a) \/ CreateVm(a) \/ PutCargo(a) \/ PatchCargo(a)
    \/ PatchVm(a) \/ RevertCargo(a) \/ DeleteCargo(a) \/ DeleteVm(a)

LEMMA AskFrame ==
    ASSUME NEW a \in Conns, Asks(a)
    PROVE  /\ act[a] = None
           /\ \E f : /\ Ask(a, f) /\ IsFrame(f) /\ f.op # "clear"
                     /\ f.op = "create" /\ f.pc = "begin" => f.k \notin Cargoes
                     /\ f.pc \in {"spec", "begin", "merge", "fetch"}
                     /\ f.pc = "spec" => f.op = "create" /\ f.k \in Cargoes
<1> USE SpecAssumption DEF MayAsk, Keys, Frame, IsFrame, Writers
<1>1. CASE CreateCargo(a)
  BY <1>1 DEF CreateCargo
<1>2. CASE CreateVm(a)
  BY <1>2 DEF CreateVm
<1>3. CASE PutCargo(a)
  BY <1>3 DEF PutCargo
<1>4. CASE PatchCargo(a)
  BY <1>4 DEF PatchCargo
<1>5. CASE PatchVm(a)
  BY <1>5 DEF PatchVm
<1>6. CASE RevertCargo(a)
  BY <1>6 DEF RevertCargo
<1>7. CASE DeleteCargo(a)
  BY <1>7 DEF DeleteCargo
<1>8. CASE DeleteVm(a)
  BY <1>8 DEF DeleteVm
<1>9. QED
  BY <1>1, <1>2, <1>3, <1>4, <1>5, <1>6, <1>7, <1>8 DEF Asks

LEMMA OwnAsk ==
    ASSUME OwnInv, NEW a \in Conns, Asks(a)
    PROVE  OwnInv'
<1>1. PICK f : /\ Ask(a, f) /\ IsFrame(f) /\ f.op # "clear"
               /\ f.op = "create" /\ f.pc = "begin" => f.k \notin Cargoes
               /\ f.pc \in {"spec", "begin", "merge", "fetch"}
  BY AskFrame
<1>2. Moves(a) /\ act'[a] = f /\ History' /\ hist'.acked = hist.acked
  BY <1>1, BeginMoves, SpecAssumption DEF Ask, OwnInv, Typed
<1>3. ~Written(a)'
  BY <1>1, <1>2 DEF Written
<1>4. QED
  BY <1>1, <1>2, <1>3, OwnAside DEF Aside, Ask, OwnInv, Typed, SpecIsOwn

(* Reads, the answers they end in, and the mark of a deletion.             *)
Reads(a) ==
    \/ VmCreate(a) \/ PatchMerge(a) \/ RevertRead(a) \/ PutStatus(a)
    \/ UpdateRead(a) \/ DeleteRead(a) \/ DeleteMark(a)

(* They change the place of the request only, or end it.                   *)
LEMMA ReadMoves ==
    ASSUME Typed, NEW a \in Conns, Reads(a)
    PROVE  /\ act[a] # None /\ Moves(a) /\ UNCHANGED <<row, status, specs, hist>> /\ queue' \in Seq(Keys)
           /\ act[a].pc \in {"begin", "merge", "fetch", "read", "mark"}
           /\ act'[a] # None => /\ act'[a].k = act[a].k /\ act'[a].op = act[a].op
                                /\ act'[a].pc \in {"status", "begin", "read", "spec", "mark"}
                                /\ act'[a].pc = "status" => act[a].k \notin Cargoes
                                /\ act'[a].pc = "spec" => act[a].op # "create" /\ row[act[a].k] # None
<1> USE SpecAssumption DEF Typed
<1>0. /\ act[a] # None /\ IsFrame(act[a])
      /\ act[a].pc \in {"begin", "merge", "fetch", "read", "mark"}
  BY FrameOf DEF Reads, VmCreate, PatchMerge, RevertRead, PutStatus, UpdateRead, DeleteRead,
                 DeleteMark, At
<1>1. CASE VmCreate(a)
  <2>1. CASE End(a)
    BY <1>0, <1>1, <2>1, EndMoves DEF VmCreate
  <2>2. CASE Go(a, "status")
    <3>1. Moves(a) /\ IsFrame(act'[a]) /\ act'[a].pc = "status" /\ act'[a].k = act[a].k /\ act'[a].op = act[a].op
      BY <1>0, <2>2, GoMoves
    <3>2. QED
      BY <1>0, <1>1, <2>2, <3>1, EndMoves DEF VmCreate, At, Acts
  <2>3. QED
    BY <1>1, <2>1, <2>2 DEF VmCreate
<1>2. CASE PatchMerge(a)
  <2>1. CASE End(a)
    BY <1>0, <1>2, <2>1, EndMoves DEF PatchMerge
  <2>2. CASE ~End(a)
    <3>1. act' = [act EXCEPT ![a].data = Merge(act[a].k, specs[row[act[a].k].spec].data, act[a].patch),
                             ![a].base = row[act[a].k].spec, ![a].pc = "begin"]
      BY <1>2, <2>2 DEF PatchMerge
    <3>2. act[a].op = "patch"
      BY <1>2 DEF PatchMerge, At
    <3>3. Moves(a) /\ act'[a].k = act[a].k /\ act'[a].op = act[a].op /\ act'[a].pc = "begin"
      BY <1>0, <3>1, <3>2 DEF Moves, Acts, IsFrame
    <3>4. QED
      BY <1>0, <1>2, <3>3 DEF PatchMerge
  <2>3. QED
    BY <2>1, <2>2
<1>3. CASE RevertRead(a)
  <2>1. CASE End(a)
    BY <1>0, <1>3, <2>1, EndMoves DEF RevertRead
  <2>2. CASE ~End(a)
    <3>1. act' = [act EXCEPT ![a].data = specs[act[a].base].data, ![a].pc = "begin"]
      BY <1>3, <2>2 DEF RevertRead
    <3>2. act[a].op = "revert"
      BY <1>3 DEF RevertRead, At
    <3>3. Moves(a) /\ act'[a].k = act[a].k /\ act'[a].op = act[a].op /\ act'[a].pc = "begin"
      BY <1>0, <3>1, <3>2 DEF Moves, Acts, IsFrame
    <3>4. QED
      BY <1>0, <1>3, <3>3 DEF RevertRead
  <2>3. QED
    BY <2>1, <2>2
<1>4. CASE PutStatus(a)
  <2>1. CASE End(a)
    BY <1>0, <1>4, <2>1, EndMoves DEF PutStatus
  <2>2. CASE Go(a, "read")
    <3>1. Moves(a) /\ IsFrame(act'[a]) /\ act'[a].pc = "read" /\ act'[a].k = act[a].k /\ act'[a].op = act[a].op
      BY <1>0, <2>2, GoMoves
    <3>2. QED
      BY <1>0, <1>4, <2>2, <3>1, EndMoves DEF PutStatus, At
  <2>3. QED
    BY <1>4, <2>1, <2>2 DEF PutStatus
<1>5. CASE UpdateRead(a)
  <2>1. CASE End(a)
    BY <1>0, <1>5, <2>1, EndMoves DEF UpdateRead
  <2>2. CASE Go(a, "spec")
    <3>1. Moves(a) /\ IsFrame(act'[a]) /\ act'[a].pc = "spec" /\ act'[a].k = act[a].k /\ act'[a].op = act[a].op
      BY <1>0, <2>2, GoMoves
    <3>2. QED
      BY <1>0, <1>5, <2>2, <3>1, EndMoves DEF UpdateRead, At
  <2>3. QED
    BY <1>5, <2>1, <2>2 DEF UpdateRead
<1>6. CASE DeleteRead(a)
  <2>1. CASE End(a)
    BY <1>0, <1>6, <2>1, EndMoves DEF DeleteRead
  <2>2. CASE Go(a, "mark")
    <3>1. Moves(a) /\ IsFrame(act'[a]) /\ act'[a].pc = "mark" /\ act'[a].k = act[a].k /\ act'[a].op = act[a].op
      BY <1>0, <2>2, GoMoves
    <3>2. QED
      BY <1>0, <1>6, <2>2, <3>1, EndMoves DEF DeleteRead, At
  <2>3. QED
    BY <1>6, <2>1, <2>2 DEF DeleteRead
<1>7. CASE DeleteMark(a)
  BY <1>0, <1>7, EndMoves DEF DeleteMark, IsFrame
<1>8. QED
  BY <1>1, <1>2, <1>3, <1>4, <1>5, <1>6, <1>7 DEF Reads

LEMMA OwnRead ==
    ASSUME OwnInv, NEW a \in Conns, Reads(a)
    PROVE  OwnInv'
<1>1. ~Written(a)' /\ History'
  BY ReadMoves DEF Written, OwnInv, Typed, History
<1>2. QED
  BY <1>1, ReadMoves, OwnAside DEF Aside, OwnInv, Typed, SpecIsOwn

(* What the insert of a spec does.                                         *)
SpecAdded(a) ==
    /\ act[a] # None /\ IsFrame(act[a]) /\ act[a].op \in Writers /\ act[a].pc = "spec"
    /\ Moves(a) /\ IsFrame(act'[a])
    /\ act'[a].k = act[a].k /\ act'[a].op = act[a].op /\ act'[a].data = act[a].data
    /\ act'[a].i = Len(specs) + 1
    /\ act'[a].pc = IF act[a].op = "create" /\ act[a].k \in Cargoes THEN "status" ELSE "row"
    /\ Specs' /\ Len(specs) + 1 \in DOMAIN specs'
    /\ specs'[Len(specs) + 1] = [st |-> "row", key |-> act[a].k, data |-> act[a].data]
    /\ \A i \in DOMAIN specs : i \in DOMAIN specs' /\ specs'[i] = specs[i]
    /\ \A i \in DOMAIN specs' : i \in DOMAIN specs \/ i = Len(specs) + 1
    /\ UNCHANGED <<row, status, queue, hist>>

LEMMA InsertSpecMoves ==
    ASSUME Typed, NEW a \in Conns, InsertSpec(a)
    PROVE  SpecAdded(a)
<1>1. act[a] # None /\ IsFrame(act[a]) /\ act[a].op \in Writers /\ act[a].pc = "spec"
  BY FrameOf DEF InsertSpec, At, Typed, Writers
<1>2. /\ Moves(a) /\ IsFrame(act'[a])
      /\ act'[a].k = act[a].k /\ act'[a].op = act[a].op /\ act'[a].data = act[a].data
      /\ act'[a].i = Len(specs) + 1
      /\ act'[a].pc = IF act[a].op = "create" /\ act[a].k \in Cargoes THEN "status" ELSE "row"
  BY <1>1, SpecAssumption DEF InsertSpec, Moves, IsFrame, Typed, Acts, Writers
<1>3. DOMAIN [st |-> "row", key |-> act[a].k, data |-> act[a].data] = {"st", "key", "data"}
  OBVIOUS
<1>4. act[a].k \in Keys
  BY <1>1 DEF IsFrame
<1>5. QED
  BY <1>1, <1>2, <1>3, <1>4, SpecsGrow DEF InsertSpec, Typed, SpecAdded

LEMMA OwnInsertSpec ==
    ASSUME OwnInv, NEW a \in Conns, InsertSpec(a)
    PROVE  OwnInv'
<1> USE DEF OwnInv
<1>0. SpecAdded(a)
  BY InsertSpecMoves
<1>1. Typed'
  BY <1>0, ActsKept DEF Typed, Rows, History, SpecAdded
<1>2. InFlight'
  <2> SUFFICES ASSUME NEW b \in Conns, Written(b)'
               PROVE  /\ act'[b].i \in DOMAIN specs'
                      /\ specs'[act'[b].i].key = act'[b].k /\ specs'[act'[b].i].data = act'[b].data
    BY DEF InFlight
  <2>1. CASE b = a
    BY <1>0, <2>1 DEF SpecAdded
  <2>2. CASE b # a
    <3>1. act'[b] = act[b] /\ Written(b)
      BY <1>0, <2>2 DEF Moves, Written, SpecAdded
    <3>2. QED
      BY <1>0, <3>1 DEF InFlight, SpecAdded
  <2>3. QED
    BY <2>1, <2>2
<1>3. PointsAt' /\ SpecIsOwn'
  BY <1>0 DEF PointsAt, SpecIsOwn, SpecAdded
<1>4. AckInHistory'
  BY <1>0 DEF AckInHistory, SpecsOf, Exists, SpecAdded
<1>5. QED
  BY <1>1, <1>2, <1>3, <1>4

(* What the insert of a status does: it is refused, or the key claimed.    *)
StatusAdded(a) ==
           /\ act[a] # None /\ IsFrame(act[a]) /\ act[a].op = "create" /\ act[a].pc = "status"
           /\ Moves(a)
           /\ \/ act'[a] = None /\ status' = status /\ act[a].k \in status
              \/ /\ act[a].k \notin status /\ status' = status \cup {act[a].k}
                 /\ IsFrame(act'[a]) /\ act'[a].k = act[a].k /\ act'[a].op = act[a].op
                 /\ act'[a].i = act[a].i /\ act'[a].data = act[a].data
                 /\ act'[a].pc = IF act[a].k \in Cargoes THEN "row" ELSE "spec"
           /\ UNCHANGED <<row, specs, queue, hist>>

LEMMA InsertStatusMoves ==
    ASSUME Typed, NEW a \in Conns, InsertStatus(a)
    PROVE  StatusAdded(a)
<1> USE DEF Typed
<1>1. act[a] # None /\ IsFrame(act[a]) /\ act[a].op = "create" /\ act[a].pc = "status"
  BY FrameOf DEF InsertStatus, At
<1>2. CASE act[a].k \in status
  BY <1>1, <1>2, EndMoves DEF InsertStatus, StatusAdded
<1>3. CASE act[a].k \notin status
  <2>1. Go(a, IF act[a].k \in Cargoes THEN "row" ELSE "spec")
    BY <1>3 DEF InsertStatus
  <2>2. QED
    BY <1>1, <1>3, <2>1, GoMoves DEF InsertStatus, StatusAdded
<1>4. QED
  BY <1>2, <1>3

LEMMA OwnInsertStatus ==
    ASSUME OwnInv, NEW a \in Conns, InsertStatus(a)
    PROVE  OwnInv'
<1> USE DEF OwnInv
<1>0. StatusAdded(a)
  BY InsertStatusMoves
<1>1. Typed'
  BY <1>0, ActsKept DEF StatusAdded, Typed, Rows, Specs, History, IsFrame
<1>2. InFlight'
  <2> SUFFICES ASSUME NEW b \in Conns, Written(b)'
               PROVE  /\ act'[b].i \in DOMAIN specs
                      /\ specs[act'[b].i].key = act'[b].k /\ specs[act'[b].i].data = act'[b].data
    BY <1>0 DEF InFlight, StatusAdded
  <2>1. CASE b = a
    BY <1>0, <2>1 DEF StatusAdded, InFlight, Written, Writers
  <2>2. CASE b # a
    <3>1. act'[b] = act[b] /\ Written(b)
      BY <1>0, <2>2 DEF StatusAdded, Moves, Written
    <3>2. QED
      BY <3>1 DEF InFlight
  <2>3. QED
    BY <2>1, <2>2
<1>3. PointsAt' /\ SpecIsOwn'
  BY <1>0 DEF StatusAdded, PointsAt, SpecIsOwn
<1>4. AckInHistory'
  BY <1>0 DEF StatusAdded, AckInHistory, SpecsOf, Exists
<1>5. QED
  BY <1>1, <1>2, <1>3, <1>4

(* What the write of a row does: it is refused, or the row points at the   *)
(* spec in flight, which is answered.                                      *)
RowWritten(a) ==
    /\ act[a] # None /\ IsFrame(act[a]) /\ act[a].op \in Writers /\ act[a].pc = "row"
    /\ Moves(a) /\ act'[a] = None /\ Rows' /\ History'
    /\ hist'.worn = hist.worn /\ UNCHANGED <<status, specs, queue>>
    /\ \/ /\ UNCHANGED <<row, hist>>
          /\ act[a].op = "create" => \/ row[act[a].k] # None \/ act[a].k \notin status
                                     \/ ~Exists(act[a].i)
          /\ act[a].op # "create" => row[act[a].k] = None \/ ~Exists(act[a].i)
       \/ /\ Exists(act[a].i) /\ (act[a].op = "create" => act[a].k \in status /\ row[act[a].k] = None)
          /\ act[a].op # "create" => row[act[a].k] # None
          /\ \A k \in Keys : k # act[a].k => row'[k] = row[k]
          /\ row'[act[a].k].spec = act[a].i /\ row'[act[a].k].name = act[a].data.name
          /\ row'[act[a].k] # None
          /\ \A k \in Keys : k # act[a].k => hist'.acked[k] = hist.acked[k]
          /\ hist'.acked[act[a].k] = hist.acked[act[a].k] \cup {[i |-> act[a].i, data |-> act[a].data]}

LEMMA AnswerMoves ==
    ASSUME Typed, NEW a \in Conns, act[a] # None, IsFrame(act[a]), Answer(a)
    PROVE  /\ Moves(a) /\ act'[a] = None /\ History' /\ hist'.worn = hist.worn
           /\ \A k \in Keys : k # act[a].k => hist'.acked[k] = hist.acked[k]
           /\ hist'.acked[act[a].k] = hist.acked[act[a].k] \cup {[i |-> act[a].i, data |-> act[a].data]}
<1>1. Moves(a) /\ act'[a] = None
  BY EndMoves DEF Answer, Typed
<1>2. QED
  BY <1>1 DEF Answer, Typed, History, IsFrame

LEMMA InsertRowMoves ==
    ASSUME Typed, NEW a \in Conns, InsertRow(a)
    PROVE  RowWritten(a)
<1> USE DEF Typed
<1>1. act[a] # None /\ IsFrame(act[a]) /\ act[a].op = "create" /\ act[a].pc = "row" /\ act[a].k \in Keys
  BY FrameOf DEF InsertRow, At
<1>2. CASE row[act[a].k] # None \/ act[a].k \notin status \/ ~Exists(act[a].i)
  BY <1>1, <1>2, EndMoves DEF InsertRow, RowWritten, Writers, Rows, History
<1>3. CASE ~(row[act[a].k] # None \/ act[a].k \notin status \/ ~Exists(act[a].i))
  <2>1. /\ row[act[a].k] = None /\ act[a].k \in status /\ Exists(act[a].i) /\ Answer(a)
        /\ row' = [row EXCEPT ![act[a].k] =
                     [st |-> "row", name |-> act[a].data.name, spec |-> act[a].i]]
    BY <1>3 DEF InsertRow
  <2>2. Rows' /\ row'[act[a].k] # None
    BY <1>1, <2>1 DEF Rows, None
  <2>3. QED
    BY <1>1, <2>1, <2>2, AnswerMoves DEF InsertRow, RowWritten, Writers, Rows
<1>4. QED
  BY <1>2, <1>3

LEMMA UpdateRowMoves ==
    ASSUME Typed, NEW a \in Conns, UpdateRow(a)
    PROVE  RowWritten(a)
<1> USE DEF Typed
<1>1. /\ act[a] # None /\ IsFrame(act[a]) /\ act[a].op \in Writers \ {"create"} /\ act[a].pc = "row"
      /\ act[a].k \in Keys
  BY FrameOf DEF UpdateRow, At, Writers
<1>2. CASE row[act[a].k] = None \/ ~Exists(act[a].i)
  BY <1>1, <1>2, EndMoves DEF UpdateRow, RowWritten, Rows, History
<1>3. CASE ~(row[act[a].k] = None \/ ~Exists(act[a].i))
  <2>1. /\ Answer(a)
        /\ row' = [row EXCEPT ![act[a].k].spec = act[a].i, ![act[a].k].name = act[a].data.name]
    BY <1>3 DEF UpdateRow
  <2>2. Rows' /\ row'[act[a].k] # None
    BY <1>1, <1>3, <2>1 DEF Rows, None
  <2>3. /\ \A k \in Keys : k # act[a].k => row'[k] = row[k]
        /\ row'[act[a].k].spec = act[a].i /\ row'[act[a].k].name = act[a].data.name
    BY <1>1, <1>3, <2>1 DEF Rows
  <2>4. QED
    BY <1>1, <1>3, <2>1, <2>2, <2>3, AnswerMoves DEF UpdateRow, RowWritten
<1>4. QED
  BY <1>2, <1>3

LEMMA OwnRow ==
    ASSUME OwnInv, NEW a \in Conns, RowWritten(a)
    PROVE  OwnInv'
<1> USE DEF OwnInv, RowWritten
<1>1. Typed'
  BY ActsKept DEF Typed, Specs
<1>2. InFlight'
  <2> SUFFICES ASSUME NEW b \in Conns, Written(b)'
               PROVE  /\ act'[b].i \in DOMAIN specs
                      /\ specs[act'[b].i].key = act'[b].k /\ specs[act'[b].i].data = act'[b].data
    BY DEF InFlight
  <2>1. act'[b] = act[b] /\ Written(b)
    BY DEF Moves, Written
  <2>2. QED
    BY <2>1 DEF InFlight
<1>3. /\ act[a].i \in DOMAIN specs /\ act[a].k \in Keys
      /\ specs[act[a].i].key = act[a].k /\ specs[act[a].i].data = act[a].data
  BY DEF InFlight, Written, IsFrame
<1>4. PointsAt' /\ SpecIsOwn'
  <2>1. PointsAt'
    BY <1>3 DEF PointsAt
  <2>2. SpecIsOwn'
    BY <1>3 DEF SpecIsOwn, Exists
  <2>3. QED
    BY <2>1, <2>2
<1>5. AckInHistory'
  BY <1>3 DEF AckInHistory, SpecsOf, Exists
<1>6. QED
  BY <1>1, <1>2, <1>4, <1>5
-----------------------------------------------------------------------------
LEMMA OwnTaskBegin ==
    ASSUME OwnInv, TaskBegin
    PROVE  OwnInv' /\ Head(queue) \in Keys /\ Moves(Head(queue))
<1> DEFINE k == Head(queue)
           f == Frame("clear", "begin", k, Spec0, Absent, 0)
<1>1. k \in Keys /\ queue' \in Seq(Keys)
  BY DEF OwnInv, Typed, TaskBegin
<1>2. IsFrame(f) /\ f.op = "clear" /\ f.k = k
  BY <1>1 DEF IsFrame, Frame
<1>3. Begin(k, f)
  BY DEF TaskBegin
<1> HIDE DEF f, k
<1>4. k \notin Conns
  BY <1>1, SpecAssumption
<1>5. Moves(k) /\ History' /\ hist'.acked = hist.acked
  BY <1>1, <1>2, <1>3, <1>4, BeginMoves DEF OwnInv, Typed
<1>6. QED
  BY <1>1, <1>4, <1>5, OwnAside DEF Aside, TaskBegin, OwnInv, Typed, SpecIsOwn, k

LEMMA TaskAt ==
    ASSUME Typed, NEW k \in Keys, act[k] # None
    PROVE  IsFrame(act[k]) /\ act[k].k = k /\ act[k].op = "clear" /\ k \notin Conns
BY SpecAssumption DEF Typed, Acts

LEMMA OwnTask ==
    ASSUME OwnInv, NEW k \in Keys, TaskRead(k) \/ ClearStatus(k)
    PROVE  OwnInv' /\ Moves(k)
<1>1. act[k] # None /\ k \notin Conns
  BY TaskAt DEF OwnInv, TaskRead, ClearStatus, At
<1>2. Moves(k)
  <2>1. CASE End(k)
    BY <2>1, EndMoves DEF OwnInv, Typed
  <2>2. CASE Go(k, "row")
    BY <1>1, <2>2, GoMoves DEF OwnInv, Typed
  <2>3. QED
    BY <2>1, <2>2 DEF TaskRead, ClearStatus
<1>3. UNCHANGED <<row, specs, hist, queue>> /\ History'
  BY DEF TaskRead, ClearStatus, OwnInv, Typed, History
<1>4. status' \subseteq Keys /\ \A j \in Keys : row[j] # None => j \in status'
  BY DEF TaskRead, ClearStatus, OwnInv, Typed, SpecIsOwn
<1>5. QED
  BY <1>1, <1>2, <1>3, <1>4, OwnAside DEF Aside, OwnInv, Typed

LEMMA ClearRowMoves ==
    ASSUME Typed, NEW k \in Keys, ClearRow(k)
    PROVE  /\ act[k] # None /\ k \notin Conns /\ act[k].pc = "row" /\ Moves(k)
           /\ act'[k] # None /\ act'[k].pc = "specs"
           /\ row'[k] = None /\ Rows' /\ \A j \in Keys : j # k => row'[j] = row[j]
           /\ UNCHANGED <<status, specs, queue, hist>>
<1> USE DEF Typed
<1>1. act[k] # None /\ k \notin Conns /\ act[k].op = "clear" /\ act[k].pc = "row"
  BY TaskAt DEF ClearRow, At
<1>2. Moves(k) /\ IsFrame(act'[k]) /\ act'[k].pc = "specs"
  BY <1>1, GoMoves DEF ClearRow
<1>3. QED
  <2>1. act'[k] # None
    BY <1>2, NoneShape
  <2>2. row'[k] = None /\ Rows' /\ \A j \in Keys : j # k => row'[j] = row[j]
    BY DEF ClearRow, Rows
  <2>3. QED
    BY <1>1, <1>2, <2>1, <2>2 DEF ClearRow

LEMMA OwnClearRow ==
    ASSUME OwnInv, NEW k \in Keys, ClearRow(k)
    PROVE  OwnInv'
<1> USE DEF OwnInv
<1>1. /\ k \notin Conns /\ Moves(k) /\ Rows' /\ row'[k] = None
      /\ \A j \in Keys : j # k => row'[j] = row[j]
      /\ UNCHANGED <<status, specs, queue, hist>>
  BY ClearRowMoves
<1>2. Typed'
  BY <1>1, ActsKept DEF Typed, Specs, History
<1>3. InFlight'
  BY <1>1 DEF InFlight, Written, Moves
<1>4. PointsAt' /\ SpecIsOwn'
  BY <1>1 DEF PointsAt, SpecIsOwn
<1>5. AckInHistory'
  BY <1>1 DEF AckInHistory, SpecsOf, Exists
<1>6. QED
  BY <1>2, <1>3, <1>4, <1>5

(* What the deletion of the specs of a key does: it is refused for a spec  *)
(* a row refers to, or they are all gone, and the answers with them.       *)
SpecsCleared(k) ==
    /\ act[k] # None /\ act[k].pc = "specs" /\ k \notin Conns /\ Moves(k)
    /\ UNCHANGED <<row, status, queue>> /\ History' /\ hist'.worn = hist.worn
    /\ \/ /\ act'[k] = None /\ UNCHANGED <<specs, hist>>
          /\ \E i \in SpecsOf(k) : Referenced(i)
       \/ /\ act'[k] # None /\ act'[k].pc = "status"
          /\ ~\E i \in SpecsOf(k) : Referenced(i)
          /\ Specs' /\ DOMAIN specs' = DOMAIN specs
          /\ \A i \in DOMAIN specs : specs'[i].key = specs[i].key /\ specs'[i].data = specs[i].data
          /\ \A i \in SpecsOf(k) : specs'[i].st = "gone"
          /\ \A i \in DOMAIN specs \ SpecsOf(k) : specs'[i].st = specs[i].st
          /\ hist'.acked[k] = {} /\ \A j \in Keys : j # k => hist'.acked[j] = hist.acked[j]

LEMMA ClearSpecsMoves ==
    ASSUME Typed, NEW k \in Keys, ClearSpecs(k)
    PROVE  SpecsCleared(k)
<1> USE DEF Typed
<1>1. act[k] # None /\ k \notin Conns /\ act[k].op = "clear" /\ act[k].pc = "specs"
  BY TaskAt DEF ClearSpecs, At
<1>2. CASE \E i \in SpecsOf(k) : Referenced(i)
  BY <1>1, <1>2, EndMoves DEF ClearSpecs, SpecsCleared, History
<1>3. CASE ~\E i \in SpecsOf(k) : Referenced(i)
  <2>1. /\ specs' = [i \in DOMAIN specs |->
                       IF i \in SpecsOf(k) THEN [specs[i] EXCEPT !.st = "gone"] ELSE specs[i]]
        /\ hist' = [hist EXCEPT !.acked[k] = {}] /\ Go(k, "status")
    BY <1>3 DEF ClearSpecs
  <2>2. Moves(k) /\ IsFrame(act'[k]) /\ act'[k].pc = "status"
    BY <1>1, <2>1, GoMoves
  <2>3. /\ DOMAIN specs' = DOMAIN specs /\ SpecsOf(k) \subseteq DOMAIN specs
        /\ \A i \in DOMAIN specs : /\ specs'[i].key = specs[i].key /\ specs'[i].data = specs[i].data
                                    /\ DOMAIN specs'[i] = {"st", "key", "data"}
        /\ \A i \in SpecsOf(k) : specs'[i].st = "gone"
        /\ \A i \in DOMAIN specs \ SpecsOf(k) : specs'[i].st = specs[i].st
    BY <2>1 DEF Specs, SpecsOf
  <2>4. specs' \in Seq(ToSet(specs'))
    <3>1. DOMAIN specs = 1..Len(specs) /\ Len(specs) \in Nat
      BY DEF Specs
    <3>2. specs' \in [1..Len(specs) -> ToSet(specs')]
      BY <2>1, <2>3, <3>1 DEF ToSet
    <3>3. QED
      BY <3>1, <3>2
  <2>5. Specs'
    BY <2>3, <2>4 DEF Specs
  <2>6. /\ History' /\ hist'.worn = hist.worn /\ hist'.acked[k] = {}
        /\ \A j \in Keys : j # k => hist'.acked[j] = hist.acked[j]
    BY <2>1 DEF History
  <2>7. QED
    BY <1>1, <1>3, <2>2, <2>3, <2>5, <2>6, NoneShape DEF ClearSpecs, SpecsCleared
<1>4. QED
  BY <1>2, <1>3

LEMMA OwnClearSpecs ==
    ASSUME OwnInv, NEW k \in Keys, SpecsCleared(k)
    PROVE  OwnInv'
<1> USE DEF OwnInv, SpecsCleared
<1>1. Typed'
  BY ActsKept DEF Typed, Rows, Specs
<1>2. InFlight'
  BY DEF InFlight, Written, Moves
<1>3. PointsAt' /\ SpecIsOwn'
  BY DEF PointsAt, SpecIsOwn, Referenced
<1>4. AckInHistory'
  BY DEF AckInHistory, SpecsOf, Exists
<1>5. QED
  BY <1>1, <1>2, <1>3, <1>4

LEMMA DbFailsMoves ==
    ASSUME Typed, NEW a \in Conns \cup Keys, DbFails(a)
    PROVE  /\ act[a] # None /\ Moves(a) /\ act'[a] = None /\ History'
           /\ hist'.acked = hist.acked /\ hist'.worn = hist.worn \cup {act[a].k}
           /\ UNCHANGED <<row, status, specs, queue>>
<1>1. Moves(a) /\ act'[a] = None
  BY EndMoves DEF DbFails, Typed
<1>2. QED
  BY <1>1 DEF DbFails, Typed, History

LEMMA OwnDbFails ==
    ASSUME OwnInv, NEW a \in Conns \cup Keys, DbFails(a)
    PROVE  OwnInv'
<1>1. /\ Moves(a) /\ act'[a] = None /\ History' /\ hist'.acked = hist.acked
      /\ UNCHANGED <<row, status, specs, queue>>
  BY DbFailsMoves DEF OwnInv
<1>2. ~Written(a)'
  BY <1>1 DEF Written
<1>3. QED
  BY <1>1, <1>2, OwnAside DEF Aside, OwnInv, Typed, SpecIsOwn
-----------------------------------------------------------------------------
LEMMA OwnInit == Init => OwnInv
<1> SUFFICES ASSUME Init PROVE OwnInv
  OBVIOUS
<1>1. Typed
  <2>1. Specs
    BY DEF Init, Specs
  <2>2. Rows /\ Acts /\ History
    BY DEF Init, Rows, Acts, History
  <2>3. QED
    BY <2>1, <2>2 DEF Init, Typed
<1>2. QED
  BY <1>1 DEF Init, OwnInv, InFlight, Written, PointsAt, SpecIsOwn, AckInHistory

LEMMA OwnStep == OwnInv /\ [Next]_vars => OwnInv'
<1> SUFFICES ASSUME OwnInv, [Next]_vars PROVE OwnInv'
  OBVIOUS
<1>1. CASE UNCHANGED vars
  BY <1>1 DEF vars, OwnInv, Typed, Rows, Specs, Acts, IsFrame, History, InFlight, Written, PointsAt,
              SpecIsOwn, AckInHistory, SpecsOf, Exists
<1>2. ASSUME NEW a \in Conns, Asks(a) PROVE OwnInv'
  BY <1>2, OwnAsk
<1>3. ASSUME NEW a \in Conns, Reads(a) PROVE OwnInv'
  BY <1>3, OwnRead
<1>4. ASSUME NEW a \in Conns, InsertSpec(a) \/ InsertStatus(a) PROVE OwnInv'
  BY <1>4, OwnInsertSpec, OwnInsertStatus
<1>5. ASSUME NEW a \in Conns, InsertRow(a) \/ UpdateRow(a) PROVE OwnInv'
  BY <1>5, InsertRowMoves, UpdateRowMoves, OwnRow DEF OwnInv
<1>6. CASE TaskBegin
  BY <1>6, OwnTaskBegin
<1>7. ASSUME NEW k \in Keys, TaskRead(k) \/ ClearRow(k) \/ ClearSpecs(k) \/ ClearStatus(k)
      PROVE  OwnInv'
  BY <1>7, OwnTask, OwnClearRow, ClearSpecsMoves, OwnClearSpecs DEF OwnInv
<1>8. ASSUME NEW a \in DOMAIN act, DbFails(a) PROVE OwnInv'
  BY <1>8, OwnDbFails DEF OwnInv, Typed, Acts
<1>9. QED
  BY <1>1, <1>2, <1>3, <1>4, <1>5, <1>6, <1>7, <1>8 DEF Next, Asks, Reads

LEMMA OwnAlways == Spec => []OwnInv
BY OwnInit, OwnStep, PTL DEF Spec

(* The row of a cargo or vm always points at an existing spec of its own   *)
(* key that carries its name, although row, spec and status are separate   *)
(* statements of fn_create_obj, update_from_spec and clear_by_pk.          *)
THEOREM RowsOwnTheirSpecs == Spec => []SpecIsOwn
<1>1. OwnInv => SpecIsOwn
  BY DEF OwnInv
<1>2. QED
  BY <1>1, OwnAlways, PTL

(* A spec a client was answered with stays in the history, unchanged,      *)
(* until clear_by_pk removes the history of its object.                    *)
THEOREM AnswersAreKept == Spec => []AckInHistory
<1>1. OwnInv => AckInHistory
  BY DEF OwnInv
<1>2. QED
  BY <1>1, OwnAlways, PTL
-----------------------------------------------------------------------------
(* What a step of one actor means for the others.                          *)
LEMMA Others ==
    ASSUME NEW a \in Conns \cup Keys, Moves(a)
    PROVE  /\ \A b \in Conns : b # a =>
                 act'[b] = act[b] /\ (Claims(b)' <=> Claims(b)) /\ (Written(b)' <=> Written(b))
           /\ \A k \in Keys : k # a => act'[k] = act[k] /\ (Clearing(k)' <=> Clearing(k))
BY DEF Moves, Claims, Written, Clearing

(* A request that neither claims nor has a spec in flight, before or after. *)
Quiet(a) ==
    /\ Moves(a) /\ UNCHANGED <<row, status, specs>> /\ hist.worn \subseteq hist'.worn
    /\ ~Claims(a) /\ ~Claims(a)' /\ ~Written(a) /\ ~Written(a)'
    /\ act'[a] # None =>
          /\ act'[a].op \in Writers \ {"create"} /\ act'[a].pc = "spec" => row[act'[a].k] # None
          /\ \A k \in Keys : act[k] # None /\ act'[a].k = k => k \in hist'.worn

LEMMA FreeQuiet ==
    ASSUME FreeInv, OwnInv', NEW a \in Conns, Quiet(a)
    PROVE  FreeInv'
<1> USE DEF FreeInv
<1>0. a \notin Keys
  BY SpecAssumption
<1>1. /\ Moves(a) /\ UNCHANGED <<row, status, specs>> /\ hist.worn \subseteq hist'.worn
      /\ \A k \in Keys : act'[k] = act[k] /\ (Clearing(k)' <=> Clearing(k))
      /\ \A b \in Conns : Claims(b)' => Claims(b) /\ b # a
      /\ \A b \in Conns : Claims(b) => Claims(b)'
      /\ \A b \in Conns : Written(b)' <=> Written(b)
      /\ \A b \in Conns : Written(b) => b # a
      /\ \A b \in Conns : b # a => act'[b] = act[b]
  BY <1>0, Others DEF Quiet
<1>2. Overlaps'
  BY <1>1 DEF Overlaps, Quiet
<1>3. Claimed'
  <2> SUFFICES ASSUME NEW b \in Conns, act'[b] # None, act'[b].k \notin hist'.worn
               PROVE  /\ (act'[b].op \in Writers \ {"create"} /\ act'[b].pc \in {"spec", "row"}) =>
                             row[act'[b].k] # None
                      /\ Written(b)' => Exists(act'[b].i)
                      /\ Claims(b)' => /\ row[act'[b].k] = None /\ act'[b].k \in status
                                       /\ \A c \in Conns : Claims(c)' /\ act'[c].k = act'[b].k => c = b
    BY <1>1 DEF Claimed, Exists
  <2>1. CASE b = a
    BY <1>1, <2>1 DEF Quiet, Written
  <2>2. CASE b # a
    BY <1>1, <2>2 DEF Claimed
  <2>3. QED
    BY <2>1, <2>2
<1>4. Cleared'
  BY <1>1 DEF Cleared, SpecsOf, Exists
<1>5. HasReason'
  BY <1>1 DEF HasReason, SpecsOf, Exists
<1>6. QED
  BY <1>2, <1>3, <1>4, <1>5

LEMMA FreeAsk ==
    ASSUME FreeInv, OwnInv', NEW a \in Conns, Asks(a)
    PROVE  FreeInv'
<1>1. PICK f : /\ act[a] = None /\ Ask(a, f) /\ IsFrame(f) /\ f.op # "clear"
               /\ f.op = "create" /\ f.pc = "begin" => f.k \notin Cargoes
               /\ f.pc \in {"spec", "begin", "merge", "fetch"}
               /\ f.pc = "spec" => f.op = "create" /\ f.k \in Cargoes
  BY AskFrame
<1>2. Moves(a) /\ act'[a] = f /\ a \notin Keys
  BY <1>1, BeginMoves, SpecAssumption DEF Ask, FreeInv, OwnInv, Typed
<1>3. hist.worn \subseteq hist'.worn
  BY <1>1 DEF Ask, Begin, FreeInv, OwnInv, Typed, History
<1>4. ASSUME NEW k \in Keys, act[k] # None, f.k = k
      PROVE  k \in hist'.worn
  <2>1. k \in DOMAIN act /\ act[k].op = "clear" /\ act[k].k = k
    BY <1>4 DEF FreeInv, OwnInv, Typed, Acts
  <2>2. QED
    BY <1>1, <1>4, <2>1 DEF Ask, Begin, FreeInv, OwnInv, Typed, History
<1>5. ~Claims(a) /\ ~Claims(a)' /\ ~Written(a) /\ ~Written(a)'
  BY <1>1, <1>2 DEF Claims, Written
<1>6. Quiet(a)
  BY <1>1, <1>2, <1>3, <1>4, <1>5 DEF Quiet, Ask
<1>7. QED
  BY <1>6, FreeQuiet

LEMMA FreeRead ==
    ASSUME FreeInv, OwnInv', NEW a \in Conns, Reads(a)
    PROVE  FreeInv'
<1> USE DEF FreeInv, OwnInv
<1>1. ~Claims(a) /\ ~Claims(a)' /\ ~Written(a) /\ ~Written(a)'
  BY ReadMoves DEF Claims, Written
<1>2. Quiet(a)
  BY <1>1, ReadMoves DEF Quiet, Overlaps
<1>3. QED
  BY <1>2, FreeQuiet
(* A failing statement: its key is worn, nothing else changes.             *)
LEMMA FreeDbFails ==
    ASSUME FreeInv, OwnInv', NEW a \in Conns \cup Keys, DbFails(a)
    PROVE  FreeInv'
<1> USE DEF FreeInv
<1>1. /\ act[a] # None /\ Moves(a) /\ act'[a] = None
      /\ hist'.worn = hist.worn \cup {act[a].k} /\ UNCHANGED <<row, status, specs>>
  BY DbFailsMoves DEF OwnInv
<1>2. ~Claims(a)' /\ ~Written(a)' /\ ~Clearing(a)'
  BY <1>1 DEF Claims, Written, Clearing
<1>3. /\ \A b \in Conns : b # a =>
            act'[b] = act[b] /\ (Claims(b)' <=> Claims(b)) /\ (Written(b)' <=> Written(b))
      /\ \A k \in Keys : k # a => act'[k] = act[k] /\ (Clearing(k)' <=> Clearing(k))
  BY <1>1, Others
<1>4. a \in Keys => act[a].k = a
  BY <1>1, TaskAt DEF OwnInv
<1>5. Overlaps'
  BY <1>1, <1>3 DEF Overlaps
<1>6. Claimed'
  <2> SUFFICES ASSUME NEW b \in Conns, act'[b] # None, act'[b].k \notin hist'.worn
               PROVE  /\ (act'[b].op \in Writers \ {"create"} /\ act'[b].pc \in {"spec", "row"}) =>
                             row[act'[b].k] # None
                      /\ Written(b)' => Exists(act'[b].i)
                      /\ Claims(b)' => /\ row[act'[b].k] = None /\ act'[b].k \in status
                                       /\ \A c \in Conns : Claims(c)' /\ act'[c].k = act'[b].k => c = b
    BY <1>1 DEF Claimed, Exists
  <2>1. b # a /\ act'[b] = act[b] /\ act[b].k \notin hist.worn
    BY <1>1, <1>3
  <2>2. \A c \in Conns : Claims(c)' => Claims(c) /\ act'[c] = act[c]
    BY <1>1, <1>2, <1>3
  <2>3. QED
    BY <1>3, <2>1, <2>2 DEF Claimed
<1>7. Cleared'
  BY <1>1, <1>2, <1>3 DEF Cleared, SpecsOf, Exists
<1>8. HasReason'
  <2> SUFFICES ASSUME NEW k \in Keys, k \notin hist'.worn, row[k] = None
               PROVE  /\ k \in status => Clearing(k)' \/ \E b \in Conns : Claims(b)' /\ act'[b].k = k
                      /\ SpecsOf(k) # {} => \/ k \in status
                                            \/ \E b \in Conns : Written(b)' /\ act'[b].k = k
    BY <1>1 DEF HasReason, SpecsOf, Exists
  <2>1. k \notin hist.worn /\ k # act[a].k /\ k # a
    BY <1>1, <1>4
  <2>2. QED
    BY <1>3, <2>1 DEF HasReason
<1>9. QED
  BY <1>5, <1>6, <1>7, <1>8
-----------------------------------------------------------------------------
(* The statements of a request on its key.  Who is beside it on the same   *)
(* key is another request, never the task, unless the key is worn.         *)
LEMMA NoTaskBeside ==
    ASSUME FreeInv, NEW a \in Conns, act[a] # None, act[a].k \notin hist.worn
    PROVE  act[a].k \in Keys /\ act[act[a].k] = None /\ ~Clearing(act[a].k)
<1>1. act[a].k \in Keys
  BY FrameOf DEF FreeInv, OwnInv, Typed
<1>2. QED
  BY <1>1 DEF FreeInv, Overlaps, Clearing

(* Overlaps and the claims of the others, after a step of a request that   *)
(* keeps its key.                                                          *)
LEMMA OverlapsKept ==
    ASSUME FreeInv, NEW a \in Conns, act[a] # None, Moves(a), hist'.worn = hist.worn,
           act'[a] # None => act'[a].k = act[a].k
    PROVE  Overlaps'
<1>1. a \notin Keys /\ \A k \in Keys : act'[k] = act[k]
  BY SpecAssumption, Others
<1>2. \A b \in Conns : act'[b] # None => act[b] # None /\ act'[b].k = act[b].k
  BY Others
<1>3. QED
  BY <1>1, <1>2 DEF FreeInv, Overlaps

LEMMA FreeInsertSpec ==
    ASSUME FreeInv, OwnInv', NEW a \in Conns, SpecAdded(a)
    PROVE  FreeInv'
<1> USE DEF FreeInv
<1>1. Overlaps'
  BY OverlapsKept DEF SpecAdded
<1>2. /\ \A b \in Conns : b # a =>
            act'[b] = act[b] /\ (Claims(b)' <=> Claims(b)) /\ (Written(b)' <=> Written(b))
      /\ \A k \in Keys : act'[k] = act[k] /\ (Clearing(k)' <=> Clearing(k))
  BY Others, SpecAssumption DEF SpecAdded
<1>3. /\ act'[a] # None /\ Written(a)' /\ (Claims(a)' <=> Claims(a))
      /\ act'[a].k = act[a].k /\ act'[a].op = act[a].op /\ specs'[act'[a].i].st = "row"
      /\ ~Written(a)
  <2>1. act'[a] # None
    BY NoneShape DEF SpecAdded
  <2>2. Written(a)' /\ (Claims(a)' <=> Claims(a)) /\ ~Written(a)
    BY <2>1 DEF SpecAdded, Written, Claims
  <2>3. QED
    BY <2>1, <2>2 DEF SpecAdded, Exists
<1>4. /\ \A i \in DOMAIN specs : Exists(i)' <=> Exists(i)
      /\ \A i \in DOMAIN specs : specs'[i] = specs[i]
      /\ \A k \in Keys : k # act[a].k => SpecsOf(k)' = SpecsOf(k)
      /\ SpecsOf(act[a].k) \subseteq SpecsOf(act[a].k)'
  BY DEF SpecAdded, Exists, SpecsOf
<1>5. Claimed'
  <2> SUFFICES ASSUME NEW b \in Conns, act'[b] # None, act'[b].k \notin hist.worn
               PROVE  /\ (act'[b].op \in Writers \ {"create"} /\ act'[b].pc \in {"spec", "row"}) =>
                             row[act'[b].k] # None
                      /\ Written(b)' => specs'[act'[b].i].st = "row"
                      /\ Claims(b)' => /\ row[act'[b].k] = None /\ act'[b].k \in status
                                       /\ \A c \in Conns : Claims(c)' /\ act'[c].k = act'[b].k => c = b
    BY DEF Claimed, Exists, SpecAdded
  <2>1. \A c \in Conns : Claims(c)' => Claims(c) /\ act'[c].k = act[c].k
    BY <1>2, <1>3
  <2>2. act[b] # None /\ act[b].k = act'[b].k /\ act[b].op = act'[b].op
    BY <1>2, <1>3 DEF SpecAdded
  <2>3. Written(b)' => specs'[act'[b].i].st = "row"
    BY <1>2, <1>3, <1>4, <2>2 DEF Claimed, InFlight, OwnInv, Exists
  <2>4. (act'[b].op \in Writers \ {"create"} /\ act'[b].pc \in {"spec", "row"}) =>
             row[act'[b].k] # None
    BY <1>2, <1>3, <2>2 DEF Claimed, SpecAdded
  <2>5. QED
    BY <2>1, <2>2, <2>3, <2>4 DEF Claimed
<1>6. Cleared'
  <2> SUFFICES ASSUME NEW k \in Keys, k \notin hist.worn, Clearing(k)
               PROVE  row[k] = None /\ (act[k].pc = "status" => SpecsOf(k)' = {})
    BY <1>2 DEF Cleared, SpecAdded, SpecsOf, Exists
  <2>1. k # act[a].k
    BY NoTaskBeside DEF SpecAdded
  <2>2. QED
    BY <1>4, <2>1 DEF Cleared
<1>7. HasReason'
  <2> SUFFICES ASSUME NEW k \in Keys, k \notin hist.worn, row[k] = None
               PROVE  /\ k \in status => Clearing(k)' \/ \E b \in Conns : Claims(b)' /\ act'[b].k = k
                      /\ SpecsOf(k)' # {} => \/ k \in status
                                             \/ \E b \in Conns : Written(b)' /\ act'[b].k = k
    BY DEF HasReason, SpecAdded, SpecsOf, Exists
  <2>1. CASE k = act[a].k
    BY <1>2, <1>3, <2>1 DEF HasReason
  <2>2. CASE k # act[a].k
    BY <1>2, <1>3, <1>4, <2>2 DEF HasReason
  <2>3. QED
    BY <2>1, <2>2
<1>8. QED
  BY <1>1, <1>5, <1>6, <1>7
LEMMA FreeInsertStatus ==
    ASSUME FreeInv, OwnInv', NEW a \in Conns, StatusAdded(a)
    PROVE  FreeInv'
<1> USE DEF FreeInv
<1>1. Overlaps'
  BY OverlapsKept DEF StatusAdded
<1>2. /\ \A b \in Conns : b # a =>
            act'[b] = act[b] /\ (Claims(b)' <=> Claims(b)) /\ (Written(b)' <=> Written(b))
      /\ \A k \in Keys : act'[k] = act[k] /\ (Clearing(k)' <=> Clearing(k))
  BY Others, SpecAssumption DEF StatusAdded
<1>3. ~Claims(a) /\ (act'[a] = None => act[a].k \in status)
  BY NoneShape DEF StatusAdded, Claims
<1>4. act'[a] = None => ~Claims(a)' /\ ~Written(a)'
  BY DEF Claims, Written
<1>5. act'[a] # None => /\ Claims(a)' /\ (Written(a)' => Written(a)) /\ act'[a].op = "create"
                        /\ act'[a].k = act[a].k /\ act'[a].i = act[a].i
                        /\ act[a].k \notin status /\ act[a].k \in status'
  BY DEF StatusAdded, Claims, Written, Writers
<1>6. Claimed'
  <2> SUFFICES ASSUME NEW b \in Conns, act'[b] # None, act'[b].k \notin hist.worn
               PROVE  /\ (act'[b].op \in Writers \ {"create"} /\ act'[b].pc \in {"spec", "row"}) =>
                             row[act'[b].k] # None
                      /\ Written(b)' => Exists(act'[b].i)
                      /\ Claims(b)' => /\ row[act'[b].k] = None /\ act'[b].k \in status'
                                       /\ \A c \in Conns : Claims(c)' /\ act'[c].k = act'[b].k => c = b
    BY DEF Claimed, Exists, StatusAdded
  <2>1. CASE b = a
    <3>1. row[act[a].k] = None
      BY <1>5, <2>1, FrameOf DEF StatusAdded, OwnInv, SpecIsOwn, Typed
    <3>2. ASSUME NEW c \in Conns, Claims(c)', act'[c].k = act[a].k PROVE c = a
      <4> SUFFICES ASSUME c # a PROVE FALSE
        OBVIOUS
      <4>1. Claims(c) /\ act[c].k = act[a].k /\ act[c] # None
        BY <1>2, <3>2 DEF Claims
      <4>2. QED
        BY <1>5, <2>1, <4>1 DEF Claimed
    <3>3. QED
      BY <1>5, <2>1, <3>1, <3>2 DEF Claimed, StatusAdded
  <2>2. CASE b # a
    <3>1. act'[b] = act[b] /\ (Claims(b)' => Claims(b)) /\ (Written(b)' => Written(b))
      BY <1>2, <2>2
    <3>2. ASSUME Claims(b), NEW c \in Conns, Claims(c)', act'[c].k = act[b].k PROVE c = b
      <4>1. act[b].k \in status
        BY <3>1, <3>2 DEF Claimed
      <4>2. c # a
        BY <1>4, <1>5, <3>2, <4>1
      <4>3. QED
        BY <1>2, <3>1, <3>2, <4>2 DEF Claimed
    <3>3. QED
      BY <3>1, <3>2 DEF Claimed, StatusAdded
  <2>3. QED
    BY <2>1, <2>2
<1>7. Cleared'
  BY <1>2 DEF Cleared, StatusAdded, SpecsOf, Exists
<1>8. HasReason'
  <2> SUFFICES ASSUME NEW k \in Keys, k \notin hist.worn, row[k] = None
               PROVE  /\ k \in status' => Clearing(k)' \/ \E b \in Conns : Claims(b)' /\ act'[b].k = k
                      /\ SpecsOf(k) # {} => \/ k \in status'
                                            \/ \E b \in Conns : Written(b)' /\ act'[b].k = k
    BY DEF HasReason, StatusAdded, SpecsOf, Exists
  <2>1. CASE act'[a] = None
    BY <1>2, <1>3, <2>1 DEF HasReason, StatusAdded
  <2>2. CASE act'[a] # None
    <3>1. status' = status \cup {act[a].k}
      BY <2>2 DEF StatusAdded
    <3>2. QED
      BY <1>2, <1>3, <1>5, <2>2, <3>1 DEF HasReason
  <2>3. QED
    BY <2>1, <2>2
<1>9. QED
  BY <1>1, <1>6, <1>7, <1>8

(* On a key that is not worn the write of a row is refused to no request   *)
(* that came this far.                                                     *)
LEMMA FreeRow ==
    ASSUME FreeInv, OwnInv', NEW a \in Conns, RowWritten(a)
    PROVE  FreeInv'
<1> USE DEF FreeInv
<1>1. Overlaps'
  BY OverlapsKept DEF RowWritten
<1>2. /\ \A b \in Conns : b # a =>
            act'[b] = act[b] /\ (Claims(b)' <=> Claims(b)) /\ (Written(b)' <=> Written(b))
      /\ \A k \in Keys : act'[k] = act[k] /\ (Clearing(k)' <=> Clearing(k))
  BY Others, SpecAssumption DEF RowWritten
<1>3. ~Claims(a)' /\ ~Written(a)' /\ Written(a) /\ (act[a].op = "create" => Claims(a))
  BY DEF RowWritten, Claims, Written
<1>4. /\ \A k \in Keys : k # act[a].k => row'[k] = row[k]
      /\ act[a].k \notin hist.worn => row'[act[a].k] # None
      /\ act[a].op # "create" => \A k \in Keys : row[k] # None => row'[k] # None
      /\ act[a].op # "create" /\ act[a].k \notin hist.worn => row[act[a].k] # None
  BY <1>3 DEF Claimed, RowWritten
<1>5. Claimed'
  <2> SUFFICES ASSUME NEW b \in Conns, act'[b] # None, act'[b].k \notin hist.worn
               PROVE  /\ (act'[b].op \in Writers \ {"create"} /\ act'[b].pc \in {"spec", "row"}) =>
                             row'[act'[b].k] # None
                      /\ Written(b)' => Exists(act'[b].i)
                      /\ Claims(b)' => /\ row'[act'[b].k] = None /\ act'[b].k \in status
                                       /\ \A c \in Conns : Claims(c)' /\ act'[c].k = act'[b].k => c = b
    BY DEF Claimed, Exists, RowWritten
  <2>1. /\ b # a /\ act'[b] = act[b] /\ act[b].k \in Keys
        /\ (Claims(b)' <=> Claims(b)) /\ (Written(b)' <=> Written(b))
    BY <1>2, FrameOf DEF RowWritten, OwnInv, Typed
  <2>2. CASE act[b].k = act[a].k
    <3>1. ~Claims(b)
      BY <1>3, <1>4, <2>1, <2>2 DEF Claimed, Claims
    <3>2. QED
      BY <1>4, <2>1, <2>2, <3>1 DEF Claimed
  <2>3. CASE act[b].k # act[a].k
    <3>1. row'[act[b].k] = row[act[b].k]
      BY <1>4, <2>1, <2>3
    <3>2. \A c \in Conns : Claims(c)' => Claims(c) /\ act'[c] = act[c]
      BY <1>2, <1>3
    <3>3. QED
      BY <2>1, <3>1, <3>2 DEF Claimed
  <2>4. QED
    BY <2>2, <2>3
<1>6. Cleared'
  <2> SUFFICES ASSUME NEW k \in Keys, k \notin hist.worn, Clearing(k)
               PROVE  row'[k] = None /\ (act[k].pc = "status" => SpecsOf(k) = {})
    BY <1>2 DEF Cleared, RowWritten, SpecsOf, Exists
  <2>1. k # act[a].k
    BY NoTaskBeside DEF RowWritten
  <2>2. QED
    BY <1>4, <2>1 DEF Cleared
<1>7. HasReason'
  <2> SUFFICES ASSUME NEW k \in Keys, k \notin hist.worn, row'[k] = None
               PROVE  /\ k \in status => Clearing(k)' \/ \E b \in Conns : Claims(b)' /\ act'[b].k = k
                      /\ SpecsOf(k) # {} => \/ k \in status
                                            \/ \E b \in Conns : Written(b)' /\ act'[b].k = k
    BY DEF HasReason, RowWritten, SpecsOf, Exists
  <2>1. k # act[a].k /\ row[k] = None
    BY <1>4
  <2>2. QED
    BY <1>2, <2>1 DEF HasReason
<1>8. QED
  BY <1>1, <1>5, <1>6, <1>7
-----------------------------------------------------------------------------
(* The task.  A step of it leaves the requests where they are.             *)
LEMMA RequestsStay ==
    ASSUME NEW k \in Keys, Moves(k)
    PROVE  /\ \A b \in Conns :
                 act'[b] = act[b] /\ (Claims(b)' <=> Claims(b)) /\ (Written(b)' <=> Written(b))
           /\ \A j \in Keys : j # k => act'[j] = act[j] /\ (Clearing(j)' <=> Clearing(j))
BY Others, SpecAssumption

LEMMA FreeTaskBegin ==
    ASSUME FreeInv, OwnInv', TaskBegin
    PROVE  FreeInv'
<1> USE DEF FreeInv
<1>0. PICK k \in Keys : k = Head(queue)
  BY OwnTaskBegin
<1> DEFINE f == Frame("clear", "begin", k, Spec0, Absent, 0)
<1>1. Moves(k) /\ Begin(k, f) /\ act[k] = None
  BY <1>0, OwnTaskBegin DEF TaskBegin
<1>2. f.op = "clear" /\ f.pc = "begin" /\ f.k = k
  BY DEF Frame
<1>3. act'[k] = f
  BY <1>1 DEF Begin, OwnInv, Typed, Acts
<1>4. UNCHANGED <<row, status, specs>>
  BY DEF TaskBegin
<1> HIDE DEF f
<1>5. hist.worn \subseteq hist'.worn
  BY <1>1 DEF Begin, OwnInv, Typed, History
<1>6. ~Clearing(k) /\ ~Clearing(k)'
  BY <1>1, <1>2, <1>3 DEF Clearing
<1>7. /\ \A b \in Conns :
            act'[b] = act[b] /\ (Claims(b)' <=> Claims(b)) /\ (Written(b)' <=> Written(b))
      /\ \A j \in Keys : j # k => act'[j] = act[j] /\ (Clearing(j)' <=> Clearing(j))
  BY <1>1, RequestsStay
<1>8. Overlaps'
  <2> SUFFICES ASSUME NEW b \in Conns, act[b] # None, act[b].k \in Keys, act'[act[b].k] # None
               PROVE  act[b].k \in hist'.worn
    BY <1>7 DEF Overlaps
  <2>1. CASE act[b].k = k
    <3>1. b \in DOMAIN act
      BY DEF OwnInv, Typed, Acts
    <3>2. QED
      BY <1>1, <1>2, <2>1, <3>1 DEF Begin, OwnInv, Typed, History
  <2>2. CASE act[b].k # k
    BY <1>5, <1>7, <2>2 DEF Overlaps
  <2>3. QED
    BY <2>1, <2>2
<1>9. Claimed'
  BY <1>4, <1>5, <1>7 DEF Claimed, Exists
<1>10. Cleared'
  BY <1>4, <1>5, <1>6, <1>7 DEF Cleared, SpecsOf, Exists
<1>11. HasReason'
  BY <1>4, <1>5, <1>6, <1>7 DEF HasReason, SpecsOf, Exists
<1>12. QED
  BY <1>8, <1>9, <1>10, <1>11

(* Requests beside a task have a worn key: nothing is said of them.        *)
LEMMA NoRequestBeside ==
    ASSUME FreeInv, NEW k \in Keys, act[k] # None, Moves(k), hist'.worn = hist.worn
    PROVE  /\ Overlaps'
           /\ \A b \in Conns : act[b] # None /\ act[b].k \notin hist.worn => act[b].k # k
BY RequestsStay DEF FreeInv, Overlaps

LEMMA FreeTask ==
    ASSUME FreeInv, OwnInv', NEW k \in Keys, TaskRead(k) \/ ClearStatus(k)
    PROVE  FreeInv'
<1> USE DEF FreeInv
<1>1. /\ act[k] # None /\ Moves(k) /\ UNCHANGED <<row, specs, hist>>
      /\ \A j \in Keys : j # k => (j \in status' <=> j \in status)
  BY OwnTask DEF TaskRead, ClearStatus, At
<1>2. /\ \A b \in Conns :
            act'[b] = act[b] /\ (Claims(b)' <=> Claims(b)) /\ (Written(b)' <=> Written(b))
      /\ \A j \in Keys : j # k => act'[j] = act[j] /\ (Clearing(j)' <=> Clearing(j))
  BY <1>1, RequestsStay
<1>3. /\ Overlaps'
      /\ \A b \in Conns : act[b] # None /\ act[b].k \notin hist.worn => act[b].k # k
  BY <1>1, NoRequestBeside
<1>4. ~Clearing(k)'
  <2>1. CASE End(k)
    BY <2>1, EndMoves DEF OwnInv, Typed, Clearing
  <2>2. CASE Go(k, "row")
    BY <1>1, <2>2, GoMoves, TaskAt DEF OwnInv, Typed, Clearing
  <2>3. QED
    BY <2>1, <2>2 DEF TaskRead, ClearStatus
<1>5. Claimed'
  <2>1. \A b \in Conns : act[b] # None => act[b].k \in Keys
    BY FrameOf DEF OwnInv, Typed
  <2>2. QED
    BY <1>1, <1>2, <1>3, <2>1 DEF Claimed, Exists
<1>6. Cleared'
  BY <1>1, <1>2, <1>4 DEF Cleared, SpecsOf, Exists
<1>7. k \in hist.worn \/ row[k] # None \/ (k \notin status' /\ SpecsOf(k) = {})
  <2>1. CASE TaskRead(k)
    <3>1. row[k] = None => UNCHANGED status /\ ~Clearing(k)
      BY <2>1 DEF TaskRead, At, Clearing
    <3>2. \A b \in Conns : Claims(b) \/ Written(b) => act[b] # None
      BY DEF Claims, Written
    <3>3. QED
      BY <1>3, <3>1, <3>2 DEF HasReason
  <2>2. CASE ClearStatus(k)
    BY <2>2 DEF ClearStatus, At, Clearing, Cleared
  <2>3. QED
    BY <2>1, <2>2
<1>8. HasReason'
  <2> SUFFICES ASSUME NEW j \in Keys, j \notin hist.worn, row[j] = None
               PROVE  /\ j \in status' => Clearing(j)' \/ \E b \in Conns : Claims(b)' /\ act'[b].k = j
                      /\ SpecsOf(j) # {} => \/ j \in status'
                                            \/ \E b \in Conns : Written(b)' /\ act'[b].k = j
    BY <1>1 DEF HasReason, SpecsOf, Exists
  <2>1. CASE j = k
    BY <1>7, <2>1
  <2>2. CASE j # k
    BY <1>1, <1>2, <2>2 DEF HasReason
  <2>3. QED
    BY <2>1, <2>2
<1>9. QED
  BY <1>3, <1>5, <1>6, <1>8

LEMMA FreeClearRow ==
    ASSUME FreeInv, OwnInv', NEW k \in Keys, ClearRow(k)
    PROVE  FreeInv'
<1> USE DEF FreeInv
<1>1. /\ act[k] # None /\ Moves(k) /\ act'[k] # None /\ act'[k].pc = "specs"
      /\ row'[k] = None /\ \A j \in Keys : j # k => row'[j] = row[j]
      /\ UNCHANGED <<status, specs, hist>>
  BY ClearRowMoves DEF OwnInv
<1>2. /\ \A b \in Conns :
            act'[b] = act[b] /\ (Claims(b)' <=> Claims(b)) /\ (Written(b)' <=> Written(b))
      /\ \A j \in Keys : j # k => act'[j] = act[j] /\ (Clearing(j)' <=> Clearing(j))
      /\ Clearing(k)'
  BY <1>1, RequestsStay DEF Clearing
<1>3. /\ Overlaps'
      /\ \A b \in Conns : act[b] # None /\ act[b].k \notin hist.worn => act[b].k # k
  BY <1>1, NoRequestBeside
<1>4. Claimed'
  <2>1. \A b \in Conns : act[b] # None => act[b].k \in Keys
    BY FrameOf DEF OwnInv, Typed
  <2>2. QED
    BY <1>1, <1>2, <1>3, <2>1 DEF Claimed, Exists
<1>5. Cleared'
  BY <1>1, <1>2 DEF Cleared, SpecsOf, Exists
<1>6. HasReason'
  <2> SUFFICES ASSUME NEW j \in Keys, j \notin hist.worn, row'[j] = None
               PROVE  /\ j \in status => Clearing(j)' \/ \E b \in Conns : Claims(b)' /\ act'[b].k = j
                      /\ SpecsOf(j) # {} => \/ j \in status
                                            \/ \E b \in Conns : Written(b)' /\ act'[b].k = j
    BY <1>1 DEF HasReason, SpecsOf, Exists
  <2>1. CASE j = k /\ row[k] # None
    BY <1>2, <2>1 DEF OwnInv, SpecIsOwn
  <2>2. CASE j # k \/ row[k] = None
    BY <1>1, <1>2, <2>2 DEF HasReason
  <2>3. QED
    BY <2>1, <2>2
<1>7. QED
  BY <1>3, <1>4, <1>5, <1>6

(* No row but its own refers to a spec of k, and that row is gone.         *)
LEMMA FreeClearSpecs ==
    ASSUME FreeInv, OwnInv', NEW k \in Keys, SpecsCleared(k)
    PROVE  FreeInv'
<1> USE DEF FreeInv
<1>1. /\ act[k] # None /\ Moves(k) /\ UNCHANGED <<row, status>> /\ hist'.worn = hist.worn
      /\ Clearing(k) /\ DOMAIN specs' = DOMAIN specs
  BY DEF SpecsCleared, Clearing
<1>2. /\ \A b \in Conns :
            act'[b] = act[b] /\ (Claims(b)' <=> Claims(b)) /\ (Written(b)' <=> Written(b))
      /\ \A j \in Keys : j # k => act'[j] = act[j] /\ (Clearing(j)' <=> Clearing(j))
  BY <1>1, RequestsStay
<1>3. /\ Overlaps'
      /\ \A b \in Conns : act[b] # None /\ act[b].k \notin hist.worn => act[b].k # k
  BY <1>1, NoRequestBeside
<1>4. k \notin hist.worn => ~\E i \in SpecsOf(k) : Referenced(i)
  BY <1>1 DEF Cleared, OwnInv, SpecIsOwn, Referenced, SpecsOf
<1>5. k \notin hist.worn => Clearing(k)' /\ SpecsOf(k)' = {}
  BY <1>4 DEF SpecsCleared, Clearing, SpecsOf, Exists
<1>6. \A i \in DOMAIN specs : specs[i].key # k => (specs'[i].st = "row" <=> specs[i].st = "row")
  BY DEF SpecsCleared, SpecsOf, Exists
<1>7. \A j \in Keys : j # k => SpecsOf(j)' = SpecsOf(j)
  BY <1>1, <1>6 DEF SpecsCleared, SpecsOf, Exists
<1>8. Claimed'
  <2> SUFFICES ASSUME NEW b \in Conns, act[b] # None, act[b].k \notin hist.worn
               PROVE  /\ (act[b].op \in Writers \ {"create"} /\ act[b].pc \in {"spec", "row"}) =>
                             row[act[b].k] # None
                      /\ Written(b) => specs'[act[b].i].st = "row"
                      /\ Claims(b) => /\ row[act[b].k] = None /\ act[b].k \in status
                                      /\ \A c \in Conns : Claims(c) /\ act[c].k = act[b].k => c = b
    BY <1>1, <1>2 DEF Claimed, Exists
  <2>1. act[b].k # k
    BY <1>3
  <2>2. Written(b) => specs'[act[b].i].st = "row"
    BY <1>6, <2>1 DEF Claimed, OwnInv, InFlight, Exists
  <2>3. QED
    BY <2>2 DEF Claimed
<1>9. Cleared'
  BY <1>1, <1>2, <1>5, <1>7 DEF Cleared
<1>10. HasReason'
  <2> SUFFICES ASSUME NEW j \in Keys, j \notin hist.worn, row[j] = None
               PROVE  /\ j \in status => Clearing(j)' \/ \E b \in Conns : Claims(b)' /\ act'[b].k = j
                      /\ SpecsOf(j)' # {} => \/ j \in status
                                             \/ \E b \in Conns : Written(b)' /\ act'[b].k = j
    BY <1>1 DEF HasReason
  <2>1. CASE j = k
    BY <1>5, <2>1
  <2>2. CASE j # k
    BY <1>2, <1>7, <2>2 DEF HasReason
  <2>3. QED
    BY <2>1, <2>2
<1>11. QED
  BY <1>3, <1>8, <1>9, <1>10
-----------------------------------------------------------------------------
LEMMA FreeInit == Init => FreeInv
<1> SUFFICES ASSUME Init PROVE FreeInv
  OBVIOUS
<1>1. OwnInv
  BY OwnInit
<1>2. \A a \in Conns \cup Keys : act[a] = None
  BY DEF Init
<1>3. \A a \in Conns \cup Keys : ~Claims(a) /\ ~Written(a)
  BY <1>2 DEF Claims, Written
<1>4. QED
  BY <1>1, <1>2, <1>3 DEF Init, FreeInv, Overlaps, Claimed, Cleared, HasReason, Clearing, SpecsOf

LEMMA FreeStep == FreeInv /\ [Next]_vars => FreeInv'
<1> SUFFICES ASSUME FreeInv, [Next]_vars PROVE FreeInv'
  OBVIOUS
<1>0. OwnInv /\ Typed /\ OwnInv'
  BY OwnStep DEF FreeInv, OwnInv
<1>1. CASE UNCHANGED vars
  BY <1>0, <1>1 DEF vars, FreeInv, Overlaps, Claimed, Cleared, HasReason, Clearing, Claims, Written,
                    SpecsOf, Exists
<1>2. ASSUME NEW a \in Conns, Asks(a) PROVE FreeInv'
  BY <1>0, <1>2, FreeAsk
<1>3. ASSUME NEW a \in Conns, Reads(a) PROVE FreeInv'
  BY <1>0, <1>3, FreeRead
<1>4. ASSUME NEW a \in Conns, InsertSpec(a) \/ InsertStatus(a) PROVE FreeInv'
  BY <1>0, <1>4, InsertSpecMoves, InsertStatusMoves, FreeInsertSpec, FreeInsertStatus
<1>5. ASSUME NEW a \in Conns, InsertRow(a) \/ UpdateRow(a) PROVE FreeInv'
  BY <1>0, <1>5, InsertRowMoves, UpdateRowMoves, FreeRow
<1>6. CASE TaskBegin
  BY <1>0, <1>6, FreeTaskBegin
<1>7. ASSUME NEW k \in Keys, TaskRead(k) \/ ClearRow(k) \/ ClearSpecs(k) \/ ClearStatus(k)
      PROVE  FreeInv'
  BY <1>0, <1>7, FreeTask, FreeClearRow, ClearSpecsMoves, FreeClearSpecs
<1>8. ASSUME NEW a \in DOMAIN act, DbFails(a) PROVE FreeInv'
  BY <1>0, <1>8, FreeDbFails DEF Typed, Acts
<1>9. QED
  BY <1>1, <1>2, <1>3, <1>4, <1>5, <1>6, <1>7, <1>8 DEF Next, Asks, Reads

(* With nothing on its way a key that no failed statement and no overlap   *)
(* with its deletion was about has its row, status and history or none of  *)
(* them, however many refused creations, updates and deletions came before. *)
THEOREM NamesComeFree == Spec => []NamesFree
<1>1. FreeInv => NamesFree
  <2> SUFFICES ASSUME FreeInv, queue = <<>>, \A a \in DOMAIN act : act[a] = None,
                      NEW k \in Keys \ hist.worn, row[k] = None
               PROVE  k \notin status /\ SpecsOf(k) = {}
    BY DEF NamesFree
  <2>1. \A a \in Conns \cup Keys : act[a] = None
    BY DEF FreeInv, OwnInv, Typed, Acts
  <2>2. ~Clearing(k) /\ \A a \in Conns : ~Claims(a) /\ ~Written(a)
    BY <2>1 DEF Clearing, Claims, Written
  <2>3. QED
    BY <2>2 DEF FreeInv, HasReason
<1>2. QED
  BY <1>1, FreeInit, FreeStep, PTL DEF Spec
=============================================================================
