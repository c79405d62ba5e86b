---------------------------- MODULE ReaderProofs ----------------------------
(***************************************************************************)
(* Safety of what nanocld gives to those who read from it: the pages of a  *)
(* list, and the stream of its events.                                     *)
(*                                                                         *)
(* Lists, for all tables, any queries, namespaces and limits, and any      *)
(* number of rows inserted and deleted between the pages.                  *)
(* PagesMissNothing is not inductive.  Of a row not yet seen it has to be  *)
(* known that it comes later: as many rows are ahead of it, in the order   *)
(* of the list, as the offset says (Later).  Inserted rows only add to     *)
(* them.                                                                   *)
(*                                                                         *)
(* The list of watching clients, for every set of subscribers, every       *)
(* condition list and every channel capacity.  KeepsClients needs more     *)
(* than the types: that a client in the list, or in the copy emit holds,   *)
(* has subscribed, so that the only reason a send to it fails is that it   *)
(* went away or that its channel is full.                                  *)
(***************************************************************************)
EXTENDS Listing, RawEmitter, FiniteSetTheorems, SequenceTheorems, TLAPS

-----------------------------------------------------------------------------
(* Rows: the columns that number them, and what a cell holds.              *)
KeyCols(t) == {"created_at", Table[t].pk}

Metas == {{}, {{}}} \cup {{{l}} : l \in Labels}

RowsUpTo(t, n) == {Row(t, k, space, md) : k \in 1..n, space \in Spaces, md \in Metas}

(* The columns that number the rows of a table are columns of its filters, *)
(* and hold no json.                                                       *)
Keyed(b) ==
    /\ {"created_at", b.pk} \subseteq DOMAIN b.cols
    /\ \A c \in {"created_at", b.pk} : b.cols[c] # "json"
    /\ b.pk \in {"key", "name"}

LEMMA KeyColumns ==
    ASSUME NEW t \in DOMAIN Table
    PROVE  /\ KeyCols(t) \subseteq Cols(t)
           /\ \A c \in KeyCols(t) : Type(t, c) # "json"
           /\ KeyCols(t) \cap {"namespace_name", "metadata"} = {}
<1>1. Keyed(CargoTable)
  BY DEF CargoTable, Tab, Keyed
<1>2. Keyed(VmTable)
  BY DEF VmTable, Tab, Keyed
<1>3. Keyed(JobTable)
  BY DEF JobTable, Tab, Keyed
<1>4. Keyed(ProcessTable)
  BY DEF ProcessTable, Tab, Keyed
<1>5. Keyed(SecretTable)
  BY DEF SecretTable, Tab, Keyed
<1>6. Keyed(ResourceTable)
  BY DEF ResourceTable, Tab, Keyed
<1>7. Keyed(KindTable)
  BY DEF KindTable, Tab, Keyed
<1>8. Keyed(EventTable)
  BY DEF EventTable, Tab, Keyed
<1>9. Keyed(MetricTable)
  BY DEF MetricTable, Tab, Keyed
<1>10. Keyed(NodeTable)
  BY DEF NodeTable, Tab, Keyed
<1>11. Keyed(NamespaceTable)
  BY DEF NamespaceTable, Tab, Keyed
<1>12. Keyed(VmImageTable)
  BY DEF VmImageTable, Tab, Keyed
<1>13. Keyed(Table[t])
  BY <1>1, <1>2, <1>3, <1>4, <1>5, <1>6, <1>7, <1>8, <1>9, <1>10, <1>11, <1>12 DEF Table
<1> QED BY <1>13 DEF Keyed, KeyCols, Cols, Type

LEMMA SpaceColumn ==
    ASSUME NEW t \in {"cargo", "vm"}
    PROVE  "namespace_name" \in Cols(t) /\ Type(t, "namespace_name") = "text"
<1>1. "namespace_name" \in DOMAIN CargoTable.cols /\ CargoTable.cols["namespace_name"] = "text"
  BY DEF CargoTable, Tab
<1>2. "namespace_name" \in DOMAIN VmTable.cols /\ VmTable.cols["namespace_name"] = "text"
  BY DEF VmTable, Tab
<1> QED BY <1>1, <1>2 DEF Table, Cols, Type

(* The key and the time of a row are its number.                           *)
LEMMA KeyCells ==
    ASSUME NEW t \in DOMAIN Table, NEW c \in KeyCols(t), NEW k, NEW space, NEW md
    PROVE  Row(t, k, space, md)[c] = {k}
<1>1. c \in Cols(t) /\ Type(t, c) # "json" /\ c # "namespace_name" /\ c # "metadata"
  BY KeyColumns
<1> QED BY <1>1 DEF Row

LEMMA SpaceCell ==
    ASSUME NEW t \in {"cargo", "vm"}, NEW k, NEW space, NEW md
    PROVE  Row(t, k, space, md)["namespace_name"] = {space}
BY SpaceColumn DEF Row

-----------------------------------------------------------------------------
(* What the filter of a list keeps of the one asked for.                   *)
LEMMA FilterFields ==
    ASSUME NEW q \in Queries
    PROVE  /\ FilterOf(q).order = q.filter.order
           /\ FilterOf(q).limit = q.filter.limit
           /\ FilterOf(q).alts = q.filter.alts
           /\ FilterOf(q).st = q.filter.st
           /\ q.tab \in {"cargo", "vm"} /\ q.filter.st = "ok" =>
                FilterOf(q).conds = WithSpace(q.filter.conds, q.space)
<1>1. DOMAIN q.filter = {"conds", "alts", "order", "limit", "st"}
  BY QueriesAssumption
<1> QED BY <1>1 DEF FilterOf, InSpace

LEMMA LimitIs ==
    ASSUME NEW q \in Queries
    PROVE  LimitOf(FilterOf(q)) \in Nat
<1>1. q.filter.limit \subseteq Nat /\ FilterOf(q).limit = q.filter.limit
  BY QueriesAssumption, FilterFields
<1>2. DefaultLimit \in Nat
  BY ListingAssumption
<1> QED BY <1>1, <1>2 DEF LimitOf

-----------------------------------------------------------------------------
(* The order of a list: x comes before y.                                  *)
OrderIs(q) == Last(OrderOf(q.tab, FilterOf(q)))

Ahead(q, x, y) ==
    IF OrderIs(q).dir = "asc" THEN Less(x[OrderIs(q).col], y[OrderIs(q).col])
    ELSE Less(y[OrderIs(q).col], x[OrderIs(q).col])

Apart(S) == \A x, y \in S : x["created_at"] = y["created_at"] => x = y

Strict(q, S) ==
    \A x, y \in S : /\ ~(Ahead(q, x, y) /\ Ahead(q, y, x))
                    /\ x # y => Ahead(q, x, y) \/ Ahead(q, y, x)

(* No two rows are equal in a total order.                                 *)
LEMMA TotalIsStrict ==
    ASSUME NEW q \in Queries, Total(q.tab, FilterOf(q)), NEW n \in Nat,
           NEW S \in SUBSET RowsUpTo(q.tab, n), Apart(S)
    PROVE  Strict(q, S)
<1> DEFINE c == OrderIs(q).col
<1>1. q.tab \in DOMAIN Table
  BY QueriesAssumption
<1>2. c \in KeyCols(q.tab) /\ "created_at" \in KeyCols(q.tab)
  BY DEF Total, OrderIs, KeyCols
<1>3. SUFFICES ASSUME NEW x \in S, NEW y \in S
               PROVE  /\ ~(Ahead(q, x, y) /\ Ahead(q, y, x))
                      /\ x # y => Ahead(q, x, y) \/ Ahead(q, y, x)
  BY DEF Strict
<1>4. PICK k \in 1..n : x[c] = {k} /\ x["created_at"] = {k}
  BY <1>1, <1>2, KeyCells DEF RowsUpTo
<1>5. PICK l \in 1..n : y[c] = {l} /\ y["created_at"] = {l}
  BY <1>1, <1>2, KeyCells DEF RowsUpTo
<1>6. x # y => k # l
  BY <1>4, <1>5 DEF Apart
<1>7. /\ Less(x[c], y[c]) <=> k < l
      /\ Less(y[c], x[c]) <=> l < k
  BY <1>4, <1>5 DEF Less
<1>8. \/ Ahead(q, x, y) = Less(x[c], y[c]) /\ Ahead(q, y, x) = Less(y[c], x[c])
      \/ Ahead(q, x, y) = Less(y[c], x[c]) /\ Ahead(q, y, x) = Less(x[c], y[c])
  BY DEF Ahead
<1>9. k < l \/ l < k \/ k = l
  OBVIOUS
<1>10. ~(k < l /\ l < k)
  OBVIOUS
<1> QED BY <1>6, <1>7, <1>8, <1>9, <1>10

-----------------------------------------------------------------------------
(* Pages.  A row not on the page of a sequence of all rows that is in a    *)
(* strict order, and with as many rows ahead of it as the page's offset,   *)
(* comes after the page, which is full.                                    *)
LEMMA MinIs ==
    ASSUME NEW a \in Nat, NEW b \in Nat
    PROVE  /\ Min({a, b}) \in {a, b}
           /\ Min({a, b}) <= a /\ Min({a, b}) <= b
<1>1. CASE a <= b
  <2>1. \E x \in {a, b} : \A y \in {a, b} : x <= y
    BY <1>1
  <2> QED BY <2>1 DEF Min
<1>2. CASE b <= a
  <2>1. \E x \in {a, b} : \A y \in {a, b} : x <= y
    BY <1>2
  <2> QED BY <2>1 DEF Min
<1> QED BY <1>1, <1>2

LEMMA AllIn ==
    ASSUME NEW S, IsFiniteSet(S), NEW s \in SetToSeqs(S)
    PROVE  /\ Cardinality(S) \in Nat
           /\ s \in Seq(S) /\ Len(s) = Cardinality(S) /\ DOMAIN s = 1..Cardinality(S)
           /\ s \in [1..Cardinality(S) -> S]
           /\ \A i, j \in 1..Cardinality(S) : s[i] = s[j] => i = j
           /\ \A r \in S : \E i \in 1..Cardinality(S) : s[i] = r
<1> DEFINE n == Cardinality(S)
<1>1. n \in Nat
  BY FS_CardinalityType
<1>2. s \in [1..n -> S] /\ \A i, j \in 1..n : i # j => s[i] # s[j]
  BY DEF SetToSeqs
<1>3. IsFiniteSet(1..n) /\ Cardinality(1..n) = n
  BY <1>1, FS_Interval
<1>4. s \in Injection(1..n, S)
  BY <1>2 DEF Injection, IsInjective
<1>5. s \in Surjection(1..n, S)
  BY <1>3, <1>4, FS_Injection
<1>6. \A r \in S : \E i \in 1..n : s[i] = r
  BY <1>5 DEF Surjection
<1>7. s \in Seq(S) /\ Len(s) = n
  BY <1>1, <1>2
<1> QED BY <1>1, <1>2, <1>6, <1>7

Waits(q, S, r) == Cardinality({x \in S : Ahead(q, x, r)})

LEMMA Place ==
    ASSUME NEW q, NEW S, IsFiniteSet(S), Strict(q, S), NEW s \in SetToSeqs(S),
           \A i, j \in DOMAIN s : i < j => ~Ahead(q, s[j], s[i]),
           NEW i \in 1..Cardinality(S)
    PROVE  Waits(q, S, s[i]) = i - 1
<1> DEFINE n == Cardinality(S)
           T == {x \in S : Ahead(q, x, s[i])}
           f == [j \in 1..(i - 1) |-> s[j]]
<1>1. /\ n \in Nat /\ DOMAIN s = 1..n /\ s \in [1..n -> S]
      /\ \A j, k \in 1..n : s[j] = s[k] => j = k
      /\ \A r \in S : \E j \in 1..n : s[j] = r
  BY AllIn
<1>2. \A j \in 1..n : j < i => Ahead(q, s[j], s[i])
  <2> SUFFICES ASSUME NEW j \in 1..n, j < i
               PROVE  Ahead(q, s[j], s[i])
    OBVIOUS
  <2>1. s[j] # s[i] /\ s[j] \in S /\ s[i] \in S
    BY <1>1
  <2>2. ~Ahead(q, s[i], s[j])
    BY <1>1
  <2> QED BY <2>1, <2>2 DEF Strict
<1>3. \A j \in 1..n : Ahead(q, s[j], s[i]) => j < i
  <2> SUFFICES ASSUME NEW j \in 1..n, Ahead(q, s[j], s[i])
               PROVE  j < i
    OBVIOUS
  <2>1. ~(i < j)
    BY <1>1
  <2>2. j # i
    BY <1>1 DEF Strict
  <2> QED BY <1>1, <2>1, <2>2
<1>4. f \in [1..(i - 1) -> T]
  BY <1>1, <1>2
<1>5. \A x \in T : \E j \in 1..(i - 1) : f[j] = x
  <2> SUFFICES ASSUME NEW x \in T
               PROVE  \E j \in 1..(i - 1) : f[j] = x
    OBVIOUS
  <2>1. PICK j \in 1..n : s[j] = x
    BY <1>1
  <2>2. j < i
    BY <1>3, <2>1
  <2> QED BY <1>1, <2>1, <2>2
<1>6. \A j, k \in 1..(i - 1) : f[j] = f[k] => j = k
  BY <1>1
<1>7. f \in Surjection(1..(i - 1), T) /\ f \in Injection(1..(i - 1), T)
  BY <1>4, <1>5, <1>6 DEF Surjection, Injection, IsInjective
<1>8. IsFiniteSet(1..(i - 1)) /\ Cardinality(1..(i - 1)) = i - 1
  <2>1. 1 \in Int /\ i - 1 \in Int /\ (IF 1 > i - 1 THEN 0 ELSE (i - 1) - 1 + 1) = i - 1
    BY <1>1
  <2> HIDE DEF n
  <2> QED BY <2>1, FS_Interval
<1>9. Cardinality(T) = i - 1
  <2> HIDE DEF f, T
  <2> QED BY <1>7, <1>8, FS_Surjection
<1> QED BY <1>9 DEF Waits

LEMMA PageCovers ==
    ASSUME NEW q, NEW S, IsFiniteSet(S), NEW s \in SetToSeqs(S),
           NEW off \in Nat, NEW lim \in Nat
    PROVE  /\ ToSet(Page(s, off, lim)) \subseteq S
           /\ Strict(q, S) /\ (\A i, j \in DOMAIN s : i < j => ~Ahead(q, s[j], s[i])) =>
                \A r \in S \ ToSet(Page(s, off, lim)) :
                    Waits(q, S, r) >= off =>
                        /\ ~(Len(Page(s, off, lim)) < lim)
                        /\ Waits(q, S, r) >= off + lim
<1> DEFINE n == Cardinality(S)
           m == Min({off + lim, n})
           p == SubSeq(s, off + 1, m)
<1>1. /\ n \in Nat /\ DOMAIN s = 1..n /\ s \in [1..n -> S] /\ Len(s) = n
      /\ \A r \in S : \E i \in 1..n : s[i] = r
  BY AllIn
<1>2. m \in {off + lim, n} /\ m <= off + lim /\ m <= n /\ m \in Nat
  BY <1>1, MinIs
<1> HIDE DEF m, n
<1>3. Page(s, off, lim) = p
  BY <1>1 DEF Page, m, n
<1>4. \A i \in (off + 1)..m : s[i] \in S
  BY <1>1, <1>2
<1>5. /\ p \in Seq(S)
      /\ Len(p) = IF off + 1 <= m THEN m - (off + 1) + 1 ELSE 0
      /\ \A i \in 1..(m - (off + 1) + 1) : p[i] = s[off + 1 + i - 1]
  BY <1>2, <1>4, SubSeqProperties
<1> HIDE DEF p
<1>6. DOMAIN p = 1..Len(p) /\ ToSet(p) \subseteq S
  BY <1>5, LenProperties DEF ToSet
<1>7. ASSUME Strict(q, S), \A i, j \in DOMAIN s : i < j => ~Ahead(q, s[j], s[i]),
             NEW r \in S \ ToSet(p), Waits(q, S, r) >= off
      PROVE  ~(Len(p) < lim) /\ Waits(q, S, r) >= off + lim
  <2>1. PICK i \in 1..n : s[i] = r
    BY <1>1
  <2>2. Waits(q, S, r) = i - 1
    BY <1>7, <2>1, Place DEF n
  <2>3. i \notin (off + 1)..m
    <3>1. SUFFICES ASSUME i \in (off + 1)..m
                   PROVE  FALSE
      OBVIOUS
    <3>2. i - off \in 1..Len(p) /\ p[i - off] = s[i]
      BY <1>1, <1>2, <1>5, <3>1
    <3> QED BY <1>6, <1>7, <2>1, <3>2 DEF ToSet
  <2>4. i > m
    BY <1>1, <1>2, <1>7, <2>2, <2>3
  <2>5. m = off + lim
    BY <1>1, <1>2, <2>4
  <2> QED BY <1>1, <1>5, <2>2, <2>4, <2>5
<1> QED BY <1>3, <1>6, <1>7

-----------------------------------------------------------------------------
(* The state: the table holds finitely many rows, each inserted once.      *)
Fields == {"q", "off", "seen", "page", "base", "gone", "new", "st"}

Ordered == Total(cur.q.tab, FilterOf(cur.q))

Found == Selected(cur.q.tab, FilterOf(cur.q))

LimitNow == LimitOf(FilterOf(cur.q))

Typed ==
    /\ DOMAIN cur = Fields /\ cur.q \in Queries /\ cur.off \in Nat /\ clock \in Nat
    /\ cur.st \in {"new", "ask", "rows", "end", "err"}
    /\ cur.st = "new" => cur.off = 0 /\ cur.seen = {} /\ cur.page = <<>>

Numbered == IsFiniteSet(rows) /\ rows \subseteq RowsUpTo(cur.q.tab, clock) /\ Apart(rows)

(* What is seen and what is read is of the namespace.                      *)
OfSpace ==
    cur.q.tab \in {"cargo", "vm"} /\ cur.q.filter.alts = {} =>
        /\ \A r \in cur.seen \cup ToSet(cur.page) : r["namespace_name"] = {cur.q.space}
        /\ cur.st \in {"ask", "rows"} => cur.q.filter.st = "ok"

(* Nothing is deleted since the first page was asked for.                  *)
Paging == cur.st \in {"ask", "rows", "end"} /\ cur.gone = {}

Present ==
    Paging => /\ cur.base \subseteq rows
              /\ cur.new = {} => rows = cur.base /\ cur.seen \cup ToSet(cur.page) \subseteq Found

(* What is not yet seen of the rows that were there comes later.           *)
Wanted == {r \in cur.base : Meets(cur.q.tab, FilterOf(cur.q), r)}

Later ==
    Paging /\ Ordered =>
        /\ cur.st = "ask" => \A r \in Wanted \ cur.seen : Waits(cur.q, Found, r) >= cur.off
        /\ cur.st = "rows" => \A r \in Wanted \ (cur.seen \cup ToSet(cur.page)) :
                                 /\ ~(Len(cur.page) < LimitNow)
                                 /\ Waits(cur.q, Found, r) >= cur.off + LimitNow
        /\ cur.st = "end" => Wanted \subseteq cur.seen

ListInv == Typed /\ Numbered /\ OfSpace /\ Present /\ Later

-----------------------------------------------------------------------------
LEMMA InitInv == ASSUME Init PROVE ListInv
<1>1. PICK q \in Queries : cur = Start(q)
  BY DEF Init
<1>2. Typed /\ OfSpace /\ Present /\ Later
  <2>1. ToSet(cur.page) = {}
    BY <1>1 DEF Start, ToSet
  <2> QED BY <1>1, <2>1 DEF Init, Start, Typed, Fields, OfSpace, Present, Later, Paging
<1>3. Numbered
  BY FS_EmptySet DEF Init, Numbered, Apart
<1> QED BY <1>2, <1>3 DEF ListInv

LEMMA FoundFinite == ASSUME Numbered PROVE IsFiniteSet(Found) /\ Found \subseteq rows
<1>1. Found \in SUBSET rows
  BY DEF Found, Selected
<1> QED BY <1>1, FS_Subset DEF Numbered

LEMMA FoundStrict == ASSUME ListInv, Ordered PROVE Strict(cur.q, Found)
<1>1. Strict(cur.q, rows)
  BY TotalIsStrict DEF ListInv, Typed, Numbered, Ordered
<1>2. Found \subseteq rows
  BY DEF Found, Selected
<1> QED BY <1>1, <1>2 DEF Strict

(* More rows wait when there are more.                                     *)
LEMMA WaitsGrow ==
    ASSUME NEW q, NEW T, IsFiniteSet(T), NEW S \in SUBSET T, NEW r
    PROVE  /\ Waits(q, S, r) \in Nat /\ Waits(q, T, r) \in Nat
           /\ Waits(q, S, r) <= Waits(q, T, r)
<1> DEFINE A == {x \in S : Ahead(q, x, r)}
           B == {x \in T : Ahead(q, x, r)}
<1>1. B \in SUBSET T /\ A \in SUBSET B
  OBVIOUS
<1>2. IsFiniteSet(B)
  BY <1>1, FS_Subset
<1> HIDE DEF A, B
<1>3. IsFiniteSet(A) /\ Cardinality(A) <= Cardinality(B)
  BY <1>1, <1>2, FS_Subset
<1>4. Cardinality(A) \in Nat /\ Cardinality(B) \in Nat
  BY <1>2, <1>3, FS_CardinalityType
<1> QED BY <1>3, <1>4 DEF Waits, A, B

-----------------------------------------------------------------------------
(* A row inserted is one more, and no row waits behind fewer.              *)
LEMMA InsertInv == ASSUME ListInv, Insert PROVE ListInv'
<1>1. PICK space \in Spaces, md \in Metas :
         /\ rows' = rows \cup {Row(cur.q.tab, clock + 1, space, md)}
         /\ cur' = [cur EXCEPT !.new = @ \cup {Row(cur.q.tab, clock + 1, space, md)}]
  BY Zenon DEF Insert, Tabs, Metas
<1> DEFINE r == Row(cur.q.tab, clock + 1, space, md)
<1>2. /\ cur'.q = cur.q /\ cur'.off = cur.off /\ cur'.seen = cur.seen /\ cur'.page = cur.page
      /\ cur'.base = cur.base /\ cur'.gone = cur.gone /\ cur'.st = cur.st
      /\ cur'.new = cur.new \cup {r} /\ DOMAIN cur' = DOMAIN cur
  BY <1>1 DEF ListInv, Typed, Fields
<1>3. clock' = clock + 1 /\ clock \in Nat
  BY DEF Insert, ListInv, Typed
<1>4. r["created_at"] = {clock + 1}
  BY KeyCells, QueriesAssumption DEF KeyCols, ListInv, Typed
<1>5. \A x \in rows : x["created_at"] # {clock + 1}
  <2> SUFFICES ASSUME NEW x \in rows
               PROVE  x["created_at"] # {clock + 1}
    OBVIOUS
  <2>1. PICK k \in 1..clock, s \in Spaces, m \in Metas : x = Row(cur.q.tab, k, s, m)
    BY DEF ListInv, Numbered, RowsUpTo
  <2>2. x["created_at"] = {k}
    BY <2>1, KeyCells, QueriesAssumption DEF KeyCols, ListInv, Typed
  <2> QED BY <1>3, <2>2
<1> HIDE DEF r
<1>6. Numbered'
  <2>1. IsFiniteSet(rows')
    BY <1>1, FS_AddElement DEF ListInv, Numbered, r
  <2>2. RowsUpTo(cur.q.tab, clock) \subseteq RowsUpTo(cur.q.tab, clock + 1)
    BY <1>3 DEF RowsUpTo
  <2>3. r \in RowsUpTo(cur.q.tab, clock + 1)
    BY <1>3 DEF RowsUpTo, r
  <2>4. rows' \subseteq RowsUpTo(cur'.q.tab, clock')
    BY <1>1, <1>2, <1>3, <2>2, <2>3 DEF ListInv, Numbered, r
  <2>5. Apart(rows')
    BY <1>1, <1>4, <1>5 DEF Apart, ListInv, Numbered, r
  <2> QED BY <2>1, <2>4, <2>5 DEF Numbered
<1>7. Typed'
  BY <1>2, <1>3 DEF ListInv, Typed
<1>8. OfSpace'
  BY <1>2 DEF ListInv, OfSpace
<1>9. Present'
  BY <1>1, <1>2 DEF ListInv, Present, Paging
<1>10. Later'
  <2>1. Found \subseteq Found' /\ IsFiniteSet(Found')
    <3>1. IsFiniteSet(Found')
      <4>1. Found' \in SUBSET rows'
        BY DEF Found, Selected
      <4> QED BY <1>6, <4>1, FS_Subset DEF Numbered
    <3> QED BY <1>1, <1>2, <3>1 DEF Found, Selected
  <2>2. \A x : /\ Waits(cur.q, Found, x) \in Nat /\ Waits(cur.q, Found', x) \in Nat
               /\ Waits(cur.q, Found, x) <= Waits(cur.q, Found', x)
    BY <2>1, WaitsGrow
  <2>3. Wanted' = Wanted /\ LimitNow' = LimitNow /\ Ordered' = Ordered /\ Paging' = Paging
    BY <1>2 DEF Wanted, LimitNow, Ordered, Paging
  <2>4. LimitNow \in Nat /\ cur.off \in Nat
    BY LimitIs DEF ListInv, Typed, LimitNow
  <2>5. SUFFICES ASSUME Paging, Ordered
                 PROVE  Later'
    BY <2>3 DEF Later
  <2>6. CASE cur.st = "ask"
    BY <1>2, <2>2, <2>3, <2>4, <2>5, <2>6 DEF ListInv, Later
  <2>7. CASE cur.st = "rows"
    BY <1>2, <2>2, <2>3, <2>4, <2>5, <2>7 DEF ListInv, Later
  <2>8. CASE cur.st = "end"
    BY <1>2, <2>3, <2>5, <2>8 DEF ListInv, Later
  <2> QED BY <2>5, <2>6, <2>7, <2>8 DEF Paging
<1> QED BY <1>6, <1>7, <1>8, <1>9, <1>10 DEF ListInv

(* A row deleted ends what the pages promise.                              *)
LEMMA DeleteInv == ASSUME ListInv, Delete PROVE ListInv'
<1>1. PICK r \in rows :
         rows' = rows \ {r} /\ cur' = [cur EXCEPT !.gone = @ \cup {r}] /\ clock' = clock
  BY DEF Delete
<1>2. /\ cur'.q = cur.q /\ cur'.off = cur.off /\ cur'.seen = cur.seen /\ cur'.page = cur.page
      /\ cur'.st = cur.st /\ r \in cur'.gone /\ DOMAIN cur' = DOMAIN cur
  BY <1>1 DEF ListInv, Typed, Fields
<1>3. Numbered'
  <2>1. IsFiniteSet(rows')
    BY <1>1, FS_RemoveElement DEF ListInv, Numbered
  <2> QED BY <1>1, <1>2, <2>1 DEF ListInv, Numbered, Apart
<1>4. Typed'
  BY <1>1, <1>2 DEF ListInv, Typed
<1>5. OfSpace'
  BY <1>2 DEF ListInv, OfSpace
<1>6. Present' /\ Later'
  BY <1>2 DEF Present, Later, Paging
<1> QED BY <1>3, <1>4, <1>5, <1>6 DEF ListInv

(* When the first page is asked for, nothing is seen, and no row has fewer *)
(* than no rows ahead.                                                     *)
LEMMA OpenInv == ASSUME ListInv, Open PROVE ListInv'
<1>1. /\ cur.st = "new" /\ cur.off = 0 /\ cur.seen = {} /\ cur.page = <<>> /\ UNCHANGED <<rows, clock>>
      /\ cur.q \in Queries
  BY DEF Open, ListInv, Typed
<1>2. /\ cur'.q = cur.q /\ cur'.off = cur.off /\ cur'.seen = cur.seen /\ cur'.page = cur.page
      /\ cur'.base = rows /\ cur'.gone = {} /\ cur'.new = {} /\ DOMAIN cur' = DOMAIN cur
      /\ cur'.st \in {"ask", "err"}
      /\ cur'.st = "ask" => ~Fails(cur.q.tab, FilterOf(cur.q))
  BY DEF Open, ListInv, Typed, Fields
<1>3. Typed' /\ Numbered'
  BY <1>1, <1>2 DEF ListInv, Typed, Numbered
<1>4. ToSet(cur'.page) = {}
  BY <1>1, <1>2 DEF ToSet
<1>5. OfSpace'
  <2>1. cur'.st = "ask" => cur.q.filter.st # "bad"
    BY <1>1, <1>2, FilterFields DEF Fails
  <2>2. cur.q.filter.st \in {"ok", "bad"}
    BY <1>1, QueriesAssumption
  <2> QED BY <1>1, <1>2, <1>4, <2>1, <2>2 DEF OfSpace
<1>6. Present'
  BY <1>1, <1>2, <1>4 DEF Present
<1>7. Later'
  <2>1. Found' = Found
    BY <1>1, <1>2 DEF Found, Selected
  <2>2. \A r : Waits(cur.q, Found, r) \in Nat
    BY FoundFinite, WaitsGrow DEF ListInv
  <2> QED BY <1>1, <1>2, <2>1, <2>2 DEF Later
<1> QED BY <1>3, <1>5, <1>6, <1>7 DEF ListInv

-----------------------------------------------------------------------------
(* The condition on the namespace is one the filter has, and is applied.   *)
LEMMA SpaceApplied ==
    ASSUME NEW q \in Queries, q.tab \in {"cargo", "vm"}, q.filter.alts = {}, q.filter.st = "ok",
           NEW k, NEW space, NEW md, Meets(q.tab, FilterOf(q), Row(q.tab, k, space, md))
    PROVE  space = q.space
<1> DEFINE f == FilterOf(q)
           cl == [op |-> "eq", val |-> {q.space}]
           r == Row(q.tab, k, space, md)
<1>1. f.alts = {} /\ f.conds = WithSpace(q.filter.conds, q.space)
  BY FilterFields
<1>2. "namespace_name" \in DOMAIN f.conds /\ f.conds["namespace_name"] = cl
  BY <1>1 DEF WithSpace
<1>3. "namespace_name" \in Cols(q.tab) /\ Type(q.tab, "namespace_name") = "text"
  BY SpaceColumn
<1>4. "eq" \in Known("text")
  BY DEF Known, TextClauses, Orders
<1>5. "namespace_name" \in Applied(q.tab, f)
  BY <1>2, <1>3, <1>4 DEF Applied
<1>6. Holds(q.tab, r, "namespace_name", cl)
  BY <1>1, <1>2, <1>5 DEF Meets
<1>7. TextHolds(cl, r["namespace_name"])
  BY <1>3, <1>6 DEF Holds
<1>8. r["namespace_name"] = {space}
  BY SpaceCell
<1>9. \E x \in {space} : Compare(cl, x)
  BY <1>7, <1>8 DEF TextHolds, Nulls
<1>10. Compare(cl, space)
  BY <1>9
<1>11. space \in cl.val
  BY <1>10 DEF Compare
<1> QED BY <1>11

(* The page read holds rows the filter selects; in a total order, a row    *)
(* wanted that it does not hold comes after it.                            *)
LEMMA ReadInv == ASSUME ListInv, ReadBy PROVE ListInv'
<1>1. PICK p \in Pages(cur.q.tab, FilterOf(cur.q), cur.off) : cur' = [cur EXCEPT !.page = p, !.st = "rows"]
  BY DEF ReadBy
<1>2. /\ cur'.q = cur.q /\ cur'.off = cur.off /\ cur'.seen = cur.seen /\ cur'.page = p
      /\ cur'.base = cur.base /\ cur'.gone = cur.gone /\ cur'.new = cur.new
      /\ cur'.st = "rows" /\ DOMAIN cur' = DOMAIN cur
  BY <1>1 DEF ListInv, Typed, Fields
<1>3. cur.st = "ask" /\ UNCHANGED <<rows, clock>> /\ cur.q \in Queries /\ cur.off \in Nat /\ LimitNow \in Nat
  BY LimitIs DEF ReadBy, ListInv, Typed, LimitNow
<1>4. PICK s \in SetToSeqs(Found) : InOrder(cur.q.tab, FilterOf(cur.q), s) /\ p = Page(s, cur.off, LimitNow)
  BY DEF Pages, Found, LimitNow
<1>5. IsFiniteSet(Found) /\ Found \subseteq rows
  BY FoundFinite DEF ListInv
<1>6. ToSet(p) \subseteq Found
  BY <1>3, <1>4, <1>5, PageCovers
<1>7. Typed' /\ Numbered'
  BY <1>2, <1>3 DEF ListInv, Typed, Numbered
<1>8. OfSpace'
  <2> SUFFICES ASSUME cur.q.tab \in {"cargo", "vm"}, cur.q.filter.alts = {}
               PROVE  /\ cur.q.filter.st = "ok"
                      /\ \A r \in ToSet(p) : r["namespace_name"] = {cur.q.space}
    BY <1>2 DEF ListInv, OfSpace
  <2>1. cur.q.filter.st = "ok"
    BY <1>3 DEF ListInv, OfSpace
  <2>2. ASSUME NEW r \in ToSet(p)
        PROVE  r["namespace_name"] = {cur.q.space}
    <3>1. r \in rows /\ Meets(cur.q.tab, FilterOf(cur.q), r)
      BY <1>6, <2>2 DEF Found, Selected
    <3>2. PICK k \in 1..clock, space \in Spaces, md \in Metas : r = Row(cur.q.tab, k, space, md)
      BY <3>1 DEF ListInv, Numbered, RowsUpTo
    <3>3. space = cur.q.space
      BY <1>3, <2>1, <3>1, <3>2, SpaceApplied
    <3> QED BY <3>2, <3>3, SpaceCell
  <2> QED BY <2>1, <2>2
<1>9. Found' = Found /\ Wanted' = Wanted /\ LimitNow' = LimitNow /\ Ordered' = Ordered
  BY <1>2, <1>3 DEF Found, Selected, Wanted, LimitNow, Ordered
<1>10. Present'
  BY <1>2, <1>3, <1>6, <1>9 DEF ListInv, Present, Paging
<1>11. Later'
  <2>1. SUFFICES ASSUME cur.gone = {}, Ordered, NEW r \in Wanted \ (cur.seen \cup ToSet(p))
                 PROVE  ~(Len(p) < LimitNow) /\ Waits(cur.q, Found, r) >= cur.off + LimitNow
    BY <1>2, <1>9 DEF Later, Paging
  <2>2. Paging
    BY <1>3, <2>1 DEF Paging
  <2>3. r \in Found
    BY <2>2 DEF Wanted, Found, Selected, ListInv, Present
  <2>4. Waits(cur.q, Found, r) >= cur.off
    BY <1>3, <2>1, <2>2 DEF ListInv, Later
  <2>5. Strict(cur.q, Found)
    BY <2>1, FoundStrict
  <2>6. \A i, j \in DOMAIN s : i < j => ~Ahead(cur.q, s[j], s[i])
    BY <1>4, <2>1 DEF InOrder, Ahead, OrderIs, Ordered, Total
  <2> QED BY <1>3, <1>4, <1>5, <2>1, <2>3, <2>4, <2>5, <2>6, PageCovers
<1> QED BY <1>7, <1>8, <1>10, <1>11 DEF ListInv

(* After a full page the next one is asked for; after another the list is  *)
(* at its end, with nothing wanted left.                                   *)
LEMMA ListStepInv == ASSUME ListInv, List PROVE ListInv'
<1>1. cur.st = "rows" /\ UNCHANGED <<rows, clock>> /\ cur.q \in Queries /\ cur.off \in Nat /\ LimitNow \in Nat
  BY LimitIs DEF List, ListInv, Typed, LimitNow
<1>2. CASE cur' = [cur EXCEPT !.st = "err"]
  <2>1. /\ cur'.q = cur.q /\ cur'.off = cur.off /\ cur'.seen = cur.seen /\ cur'.page = cur.page
        /\ cur'.st = "err" /\ DOMAIN cur' = DOMAIN cur
    BY <1>2 DEF ListInv, Typed, Fields
  <2> QED BY <1>1, <2>1 DEF ListInv, Typed, Numbered, OfSpace, Present, Later, Paging
<1>3. CASE cur' = [cur EXCEPT !.seen = @ \cup ToSet(cur.page), !.off = @ + LimitNow, !.page = <<>>,
                              !.st = IF Len(cur.page) < LimitNow THEN "end" ELSE "ask"]
  <2>1. /\ cur'.q = cur.q /\ cur'.off = cur.off + LimitNow /\ cur'.seen = cur.seen \cup ToSet(cur.page)
        /\ cur'.page = <<>> /\ cur'.base = cur.base /\ cur'.gone = cur.gone /\ cur'.new = cur.new
        /\ cur'.st = IF Len(cur.page) < LimitNow THEN "end" ELSE "ask"
        /\ DOMAIN cur' = DOMAIN cur
    BY <1>3 DEF ListInv, Typed, Fields
  <2>2. ToSet(cur'.page) = {}
    BY <2>1 DEF ToSet
  <2>3. Typed' /\ Numbered'
    BY <1>1, <2>1 DEF ListInv, Typed, Numbered
  <2>4. OfSpace'
    BY <1>1, <2>1, <2>2 DEF ListInv, OfSpace
  <2>5. Found' = Found /\ Wanted' = Wanted /\ LimitNow' = LimitNow /\ Ordered' = Ordered
    BY <1>1, <2>1 DEF Found, Selected, Wanted, LimitNow, Ordered
  <2>6. Present'
    BY <1>1, <2>1, <2>2, <2>5 DEF ListInv, Present, Paging
  <2>7. Later'
    <3> SUFFICES ASSUME Paging, Ordered
                 PROVE  Later'
      BY <1>1, <2>1, <2>5 DEF Later, Paging
    <3>1. \A r \in Wanted \ cur'.seen :
             ~(Len(cur.page) < LimitNow) /\ Waits(cur.q, Found, r) >= cur.off + LimitNow
      BY <1>1, <2>1 DEF ListInv, Later
    <3> QED BY <1>1, <2>1, <2>5, <3>1 DEF Later
  <2> QED BY <2>3, <2>4, <2>6, <2>7 DEF ListInv
<1> QED BY <1>2, <1>3 DEF List, LimitNow

-----------------------------------------------------------------------------
THEOREM ListingSafe == Spec => []ListInv
<1>1. Init => ListInv
  BY InitInv
<1>2. ListInv /\ [Next]_vars => ListInv'
  <2> SUFFICES ASSUME ListInv, [Next]_vars
               PROVE  ListInv'
    OBVIOUS
  <2>1. CASE Insert
    BY <2>1, InsertInv
  <2>2. CASE Delete
    BY <2>2, DeleteInv
  <2>3. CASE Open
    BY <2>3, OpenInv
  <2>4. CASE ReadBy
    BY <2>4, ReadInv
  <2>5. CASE List
    BY <2>5, ListStepInv
  <2>6. CASE UNCHANGED vars
    BY <2>6 DEF vars, ListInv, Typed, Numbered, OfSpace, Present, Later, Paging, Wanted, Found, Selected,
                LimitNow, Ordered
  <2> QED BY <2>1, <2>2, <2>3, <2>4, <2>5, <2>6 DEF Next
<1> QED BY <1>1, <1>2, PTL DEF Spec

(* A list of one namespace holds nothing of another one: its condition on  *)
(* the namespace replaces the filter's own, and nothing is or-ed to it.    *)
THEOREM ListsKeepSpace == Spec => []SpaceIsKept
<1>1. ListInv => SpaceIsKept
  BY DEF ListInv, OfSpace, SpaceIsKept
<1> QED BY <1>1, ListingSafe, PTL

(* Paging in a total order to a page that is not full misses no row, if    *)
(* none is deleted, whatever is inserted; and counts them, if none is.     *)
THEOREM PagingMissesNothing == Spec => []PagesMissNothing
<1>1. ListInv => PagesMissNothing
  <2> SUFFICES ASSUME ListInv, cur.st = "end", cur.gone = {}, Ordered
               PROVE  /\ Wanted \subseteq cur.seen
                      /\ cur.new = {} => Cardinality(cur.seen) = Count(cur.q)
    BY DEF PagesMissNothing, Ordered, Wanted
  <2>1. Paging
    BY DEF Paging
  <2>2. Wanted \subseteq cur.seen
    BY <2>1 DEF ListInv, Later
  <2>3. ASSUME cur.new = {}
        PROVE  cur.seen = Found
    BY <2>1, <2>2, <2>3 DEF ListInv, Present, Wanted, Found, Selected
  <2> QED BY <2>2, <2>3 DEF Count, Found
<1> QED BY <1>1, ListingSafe, PTL

-----------------------------------------------------------------------------
(* A client in the list has subscribed ...                                 *)
ListedSubscribed ==
    \A s \in Subs : reg[s] # Out => sub[s] # "new"

(* ... and so has a client in the copy that emit will put back.            *)
CopySubscribed ==
    em # Idle => \A s \in Subs : em.reg[s] # Out => sub[s] # "new"

(* Sending to any set of clients keeps the channels typed and bounded.     *)
LEMMA SentTyped ==
    ASSUME TypeOK, NEW S, NEW m \in Nat
    PROVE  /\ Sent(S, m) \in [Subs -> Seq(Nat)]
           /\ \A s \in Subs : Len(Sent(S, m)[s]) <= Cap
<1> USE EmitterAssumption
<1>1. ASSUME NEW s \in Subs
      PROVE  Sent(S, m)[s] \in Seq(Nat) /\ Len(Sent(S, m)[s]) <= Cap
  <2>1. buf[s] \in Seq(Nat) /\ Len(buf[s]) \in Nat /\ Len(buf[s]) <= Cap
    BY DEF TypeOK
  <2>2. CASE s \in S /\ CanSend(s)
    <3>1. Sent(S, m)[s] = Append(buf[s], m) /\ Len(buf[s]) < Cap
      BY <2>2 DEF Sent, CanSend
    <3>2. QED
      BY <2>1, <3>1
  <2>3. CASE ~(s \in S /\ CanSend(s))
    BY <2>1, <2>3 DEF Sent
  <2>4. QED
    BY <2>2, <2>3
<1>2. QED
  BY <1>1 DEF Sent

(* The count of a client in the copy goes up by one or stays.              *)
LEMMA MetTyped ==
    ASSUME TypeOK, em # Idle, NEW s \in Subs, em.reg[s] # Out
    PROVE  Met(s) \in Nat /\ em.reg[s] \in Nat
BY DEF TypeOK, Met, Idle, Out

(* Every step keeps the types, the bounds and the subscribed clients.      *)
LEMMA EmitterStep ==
    ASSUME TypeOK, ListedSubscribed, CopySubscribed, [EmitterNext]_emitterVars
    PROVE  TypeOK' /\ ListedSubscribed' /\ CopySubscribed'
<1> USE EmitterAssumption
<1>1. ASSUME NEW s \in Subs, Subscribe(s)
      PROVE  TypeOK' /\ ListedSubscribed' /\ CopySubscribed'
  BY <1>1 DEF Subscribe, TypeOK, ListedSubscribed, CopySubscribed, Out
<1>2. ASSUME NEW k \in Kinds, EmitCopy(k)
      PROVE  TypeOK' /\ ListedSubscribed' /\ CopySubscribed'
  <2>1. log' \in Seq(Kinds) /\ Len(log') = Len(log) + 1 /\ Len(log) \in Nat
    BY <1>2 DEF EmitCopy, TypeOK
  <2>2. TypeOK'
    BY <1>2, <2>1 DEF EmitCopy, TypeOK
  <2>3. QED
    BY <1>2, <2>2 DEF EmitCopy, ListedSubscribed, CopySubscribed
<1>3. CASE EmitWrite
  <2>1. em' = Idle /\ em # Idle /\ UNCHANGED <<log, sub, want, got>>
    BY <1>3 DEF EmitWrite
  <2>2. em.n \in Nat
    BY <2>1 DEF TypeOK, Idle
  <2>3. buf' \in [Subs -> Seq(Nat)] /\ \A s \in Subs : Len(buf'[s]) <= Cap
    BY <1>3, <2>2, SentTyped DEF EmitWrite
  <2>4. \A s \in Subs : reg'[s] \in {Out} \cup Nat
    BY <1>3, <2>1, MetTyped DEF EmitWrite
  <2>5. reg' \in [Subs -> {Out} \cup Nat]
    BY <1>3, <2>4 DEF EmitWrite
  <2>6. ended' \in [Subs -> BOOLEAN]
    BY <1>3 DEF EmitWrite, TypeOK
  <2>7. TypeOK'
    BY <2>1, <2>3, <2>5, <2>6 DEF TypeOK
  <2>8. ListedSubscribed'
    BY <1>3, <2>1 DEF EmitWrite, ListedSubscribed, CopySubscribed
  <2>9. QED
    BY <2>1, <2>7, <2>8 DEF CopySubscribed
<1>4. CASE CheckConnection
  <2>1. buf' \in [Subs -> Seq(Nat)] /\ \A s \in Subs : Len(buf'[s]) <= Cap
    BY <1>4, SentTyped DEF CheckConnection, Ping
  <2>2. reg' \in [Subs -> {Out} \cup Nat]
    BY <1>4 DEF CheckConnection, TypeOK
  <2>3. TypeOK'
    BY <1>4, <2>1, <2>2 DEF CheckConnection, TypeOK
  <2>4. QED
    BY <1>4, <2>3 DEF CheckConnection, ListedSubscribed, CopySubscribed
<1>5. ASSUME NEW s \in Subs, Receive(s)
      PROVE  TypeOK' /\ ListedSubscribed' /\ CopySubscribed'
  <2>1. Tail(buf[s]) \in Seq(Nat) /\ Len(Tail(buf[s])) <= Cap
    BY <1>5 DEF Receive, TypeOK
  <2>2. TypeOK'
    BY <1>5, <2>1 DEF Receive, TypeOK
  <2>3. QED
    BY <1>5, <2>2 DEF Receive, ListedSubscribed, CopySubscribed
<1>6. ASSUME NEW s \in Subs, Disconnect(s)
      PROVE  TypeOK' /\ ListedSubscribed' /\ CopySubscribed'
  BY <1>6 DEF Disconnect, TypeOK, ListedSubscribed, CopySubscribed
<1>7. CASE UNCHANGED emitterVars
  BY <1>7 DEF emitterVars, TypeOK, ListedSubscribed, CopySubscribed
<1>8. QED
  BY <1>1, <1>2, <1>3, <1>4, <1>5, <1>6, <1>7 DEF EmitterNext

(* The inductive invariant holds in every state.                           *)
LEMMA EmitterInvariant == EmitterSpec => [](TypeOK /\ ListedSubscribed /\ CopySubscribed)
<1>1. EmitterInit => TypeOK /\ ListedSubscribed /\ CopySubscribed
  BY EmitterAssumption DEF EmitterInit, TypeOK, ListedSubscribed, CopySubscribed
<1>2. TypeOK /\ ListedSubscribed /\ CopySubscribed /\ [EmitterNext]_emitterVars
        => (TypeOK /\ ListedSubscribed /\ CopySubscribed)'
  BY EmitterStep
<1>3. QED
  BY <1>1, <1>2, PTL DEF EmitterSpec

(* RawEventEmitter keeps its types: counts stay counts, and try_send never *)
(* puts more than the capacity into the channel of a client.               *)
THEOREM EmitterTypes == EmitterSpec => []TypeOK
BY EmitterInvariant, PTL

(* What one step can do to the list.                                       *)
LEMMA StepKeepsClients ==
    ASSUME TypeOK, ListedSubscribed, [EmitterNext]_emitterVars,
           NEW s \in Subs, reg[s] # Out, reg'[s] = Out
    PROVE  \/ sub[s] = "gone"
           \/ Len(buf[s]) = Cap
           \/ ended'[s]
           \/ em # Idle /\ em.reg[s] = Out
<1>1. CASE EmitWrite
  <2>1. em # Idle
    BY <1>1 DEF EmitWrite
  <2>2. em.reg[s] # Out => Met(s) # Out
    BY <2>1, MetTyped DEF Out
  <2>3. QED
    BY <1>1, <2>1, <2>2 DEF EmitWrite
<1>2. CASE CheckConnection
  <2>1. ~CanSend(s)
    BY <1>2 DEF CheckConnection
  <2>2. sub[s] \in {"on", "gone"}
    BY DEF TypeOK, ListedSubscribed
  <2>3. Len(buf[s]) \in Nat /\ Len(buf[s]) <= Cap /\ Cap \in Nat
    BY EmitterAssumption DEF TypeOK
  <2>4. QED
    BY <2>1, <2>2, <2>3 DEF CanSend
<1>3. ASSUME NEW r \in Subs, Subscribe(r)
      PROVE  FALSE
  BY <1>3 DEF Subscribe, TypeOK, Out
<1>4. CASE UNCHANGED reg
  BY <1>4
<1>5. QED
  BY <1>1, <1>2, <1>3, <1>4
  DEF EmitterNext, EmitCopy, Receive, Disconnect, emitterVars

(* The three threads that share the list never lose a client but for the   *)
(* four reasons KeepsClients names: it went away, its channel was full     *)
(* when pinged, its conditions were met, or it subscribed inside an emit.  *)
THEOREM ClientsKept == EmitterSpec => KeepsClients
<1>1. TypeOK /\ ListedSubscribed /\ [EmitterNext]_emitterVars =>
        [\A s \in Subs : reg[s] # Out /\ reg'[s] = Out =>
            \/ sub[s] = "gone"
            \/ Len(buf[s]) = Cap
            \/ ended'[s]
            \/ em # Idle /\ em.reg[s] = Out]_emitterVars
  BY StepKeepsClients
<1>2. QED
  BY <1>1, EmitterInvariant, PTL DEF EmitterSpec, KeepsClients
=============================================================================
