------------------------ MODULE SoftwareQueryProofs ------------------------
(***************************************************************************)
(* Theorems of SoftwareQuery, for any software, clients, scenarios, pages  *)
(* and sizes, and any number of failing calls and detached writes.         *)
(*                                                                         *)
(* SyncInv says in which order the synchroniser leaves its traces: what is *)
(* the latest is among the versions, or has been lost since.  Right says   *)
(* of a request at each of its calls what the calls before it have found,  *)
(* and that nothing the synchroniser wrote since makes it wrong.           *)
(***************************************************************************)
EXTENDS SoftwareQuery, FiniteSetTheorems, SequenceTheorems, TLAPS

Types ==
    /\ TypeOK
    /\ \A i \in Id : syncing[i].at # "idle" => syncing[i].tag \in AllTags

\* Versions are recorded before they become the latest, or have been lost.
SyncInv ==
    \A i \in Id :
        /\ pgRow[i] # NoRow => pgRow[i] \in pgVersion[i] \cup missing[i]
        /\ latest[i] \in meta[i] \cup missing[i] \cup {NoTag}
        /\ syncing[i].at # "idle" /\ pgEnabled => syncing[i].tag \in pgVersion[i] \cup missing[i]
        /\ syncing[i].at = "latest" => syncing[i].tag \in meta[i] \cup missing[i]
        /\ syncing[i].at = "row" => pgEnabled

\* Which calls belong to which operation.
Ordered(l, k) ==
    /\ l \in {"row", "versions", "detail", "latest", "keys"} => k.op = "detail"
    /\ l \in {"count", "find", "list", "objects"} => k.op = "list"

\* The latest version a request has read is one it is going to list.
Listing(l, k) ==
    /\ l = "versions" => k.detail.latest \in pgVersion[k.id] \cup missing[k.id]
    /\ l = "keys" /\ k.detail.whole
         => k.detail.latest \in meta[k.id] \cup missing[k.id] \cup {NoTag}
    /\ l \notin {"versions", "keys"} => Consistent(k.id, k.detail)

\* What was recorded when a detail was asked for, it has or is going to read.
Complete(l, k) ==
    k.op = "detail" /\ pgEnabled /\ k.known /\ k.clean
    => /\ l \notin {"detail", "latest", "keys"}
       /\ l = "row" => pgRow[k.id] # NoRow
       /\ k.had \subseteq pgVersion[k.id] \cup missing[k.id]
       /\ l = "done" => k.had \subseteq k.detail.versions \cup missing[k.id]

\* Rows were counted before they are read.
Whole(k) == Len(k.items) >= Least(Size(k.size), k.total - (Page(k.page) - 1) * Size(k.size))
Full(l, k) ==
    k.op = "list" => /\ l = "find" => k.total <= Cardinality(Rows)
                     /\ l = "done" /\ k.status = "ok" => Whole(k)

Right(l, k) == Ordered(l, k) /\ Listing(l, k) /\ Complete(l, k) /\ Full(l, k)

CachedRight ==
    /\ \A w \in detached : w.key # List => Consistent(w.key, w.value)
    /\ \A i \in Id : detailKey[i] # Nothing => Consistent(i, detailKey[i])

Inv == SyncInv /\ CachedRight /\ \A c \in Client : Right(pc[c], req[c])

-----------------------------------------------------------------------------
(* Requests, and the sequences they are answered with.                      *)

\* What a call of a request leaves alone.
About(j, k) == /\ j.id = k.id /\ j.op = k.op /\ j.had = k.had /\ j.known = k.known
               /\ j.page = k.page /\ j.size = k.size
               /\ j.clean => k.clean
Alike(j, k) == About(j, k) /\ j.detail = k.detail
Listed(j, k) == j.items = k.items /\ j.total = k.total /\ j.status = k.status

LEMMA AssignDetail ==
    \A k \in Request, d \in Detail :
        /\ [k EXCEPT !.detail = d] \in Request /\ About([k EXCEPT !.detail = d], k)
        /\ [k EXCEPT !.detail = d].detail = d /\ Listed([k EXCEPT !.detail = d], k)
BY DEF Request, About, Listed

LEMMA AssignStatus ==
    \A k \in Request, x \in {"none", "ok", "notfound", "error"} :
        /\ [k EXCEPT !.status = x] \in Request /\ Alike([k EXCEPT !.status = x], k)
        /\ [k EXCEPT !.status = x].status = x
        /\ [k EXCEPT !.status = x].items = k.items /\ [k EXCEPT !.status = x].total = k.total
BY DEF Request, About, Alike

LEMMA AssignTotal ==
    \A k \in Request, n \in Nat :
        /\ [k EXCEPT !.total = n] \in Request /\ Alike([k EXCEPT !.total = n], k)
        /\ [k EXCEPT !.total = n].total = n
        /\ [k EXCEPT !.total = n].items = k.items
BY DEF Request, About, Alike

LEMMA AssignItems ==
    \A k \in Request, q \in Seq(Id) :
        /\ [k EXCEPT !.items = q] \in Request /\ Alike([k EXCEPT !.items = q], k)
        /\ [k EXCEPT !.items = q].items = q
BY DEF Request, About, Alike

LEMMA AssignClean ==
    \A k \in Request, ok \in BOOLEAN :
        /\ [k EXCEPT !.clean = k.clean /\ ok] \in Request
        /\ Alike([k EXCEPT !.clean = k.clean /\ ok], k)
        /\ [k EXCEPT !.clean = k.clean /\ ok].clean => ok
        /\ Listed([k EXCEPT !.clean = k.clean /\ ok], k)
BY DEF Request, About, Alike, Listed

LEMMA NewRequest ==
    /\ NewReq \in Request /\ NewReq.detail = Blank /\ NewReq.op = "detail"
    /\ ~NewReq.known /\ NewReq.status = "none"
BY QueryAssumption DEF NewReq, Request, Ops, Blank, Detail, AllTags, NoTag

LEMMA Answering ==
    ASSUME req \in [Client -> Request], NEW c \in Client, NEW ok \in BOOLEAN,
           NEW locals \in Request, Then(c, ok, locals)
    PROVE  \E k \in Request : /\ req' = [req EXCEPT ![c] = k]
                              /\ Alike(k, locals) /\ Listed(k, locals)
                              /\ k.clean => ok
<1>1. req' = [req EXCEPT ![c] = [locals EXCEPT !.clean = locals.clean /\ ok]]
  BY Zenon DEF Then
<1> QED BY <1>1, AssignClean, Zenon

LEMMA Orderings ==
    ASSUME NEW S \in SUBSET Id, NEW q \in Orders(S)
    PROVE  /\ q \in Lists /\ q \in Seq(Id) /\ Len(q) = Cardinality(S) /\ Len(q) \in Nat
           /\ Len(q) <= IntSize
<1>1. IsFiniteSet(S)
  BY QueryAssumption, FS_Subset
<1>2. Cardinality(S) \in Nat
  BY <1>1, FS_CardinalityType
<1>3. q \in [1..Cardinality(S) -> S]
  BY DEF Orders
<1>4. q \in Seq(Id) /\ Len(q) = Cardinality(S)
  BY <1>2, <1>3
<1>5. q \in Lists
  BY Zenon DEF Lists
<1>6. Cardinality(S) <= IntSize
  <2>1. Cardinality(S) <= Cardinality(Id) /\ Cardinality(Id) \in Nat
    BY QueryAssumption, FS_Subset, FS_CardinalityType
  <2> QED BY <1>2, <2>1, QueryAssumption
<1> QED BY <1>2, <1>4, <1>5, <1>6

LEMMA ListsAreSeqs ==
    ASSUME NEW q \in Lists
    PROVE  q \in Seq(Id) /\ Len(q) \in Nat /\ Len(q) <= IntSize
<1>1. PICK S \in SUBSET Id : q \in Orders(S)
  BY DEF Lists
<1> QED BY <1>1, Orderings

\* Where a page begins, an int holds the number or the page is past every list.
LEMMA Offsets ==
    ASSUME NEW p \in Int, NEW n \in Int
    PROVE  /\ Size(n) \in Nat /\ Size(n) >= 1 /\ (Page(p) - 1) * Size(n) \in Nat
           /\ Before(p, n) \in Nat
           /\ (Page(p) - 1) * Size(n) < IntSize => Before(p, n) = (Page(p) - 1) * Size(n)
<1>1. Page(p) \in Nat /\ Page(p) >= 1 /\ Size(n) \in Nat /\ Size(n) >= 1
  BY QueryAssumption DEF Page, Size
<1> DEFINE a == (Page(p) - 1) * Size(n)
           m == 2 * IntSize
<1>2. a \in Nat
  BY <1>1
<1>3. IntSize \in Nat \ {0} /\ m \in Nat \ {0}
  BY QueryAssumption
<1>4. Offset(p, n) = IF a % m < IntSize THEN a % m ELSE (a % m) - m
  BY DEF Offset
<1> HIDE DEF a, m
<1>5. a % m \in Int
  BY <1>2, <1>3
<1>6. Before(p, n) \in Nat
  <2>1. Offset(p, n) \in Int
    BY <1>3, <1>4, <1>5
  <2> QED BY <2>1 DEF Before
<1>7. ASSUME a < IntSize PROVE Before(p, n) = a
  <2>1. a \in 0..(m - 1)
    BY <1>2, <1>3, <1>7 DEF m
  <2>2. \A k \in Nat, x \in Int : x \in 0..(k - 1) => x % k = x
    OBVIOUS
  <2>3. a % m = a
    BY <1>3, <2>1, <2>2
  <2>4. Offset(p, n) = a
    BY <1>4, <1>7, <2>3
  <2> QED BY <1>2, <2>4 DEF Before
<1> QED BY <1>1, <1>2, <1>6, <1>7 DEF a

\* A page begins at an item, and holds what there is from it on, up to its size.
LEMMA Paging ==
    ASSUME NEW q \in Seq(Id), Len(q) <= IntSize, NEW p \in Int, NEW n \in Int
    PROVE  /\ PageOf(q, p, n) \in Seq(Id)
           /\ Len(PageOf(q, p, n)) >= Least(Size(n), Len(q) - (Page(p) - 1) * Size(n))
<1> DEFINE a == (Page(p) - 1) * Size(n)
           b == Before(p, n)
           z == Least(b + Size(n), Len(q))
<1>1. Size(n) \in Nat /\ Size(n) >= 1 /\ a \in Nat /\ b \in Nat /\ (a < IntSize => b = a)
  BY Offsets
<1>2. PageOf(q, p, n) = SubSeq(q, b + 1, z)
  BY DEF PageOf
<1> HIDE DEF a, b
<1>3. z \in Int /\ z <= Len(q) /\ Len(q) \in Nat
  BY <1>1 DEF Least
<1>4. \A k \in (b + 1)..z : q[k] \in Id
  BY <1>1, <1>3
<1>5. /\ SubSeq(q, b + 1, z) \in Seq(Id)
      /\ Len(SubSeq(q, b + 1, z)) = IF b + 1 <= z THEN z - (b + 1) + 1 ELSE 0
  <2> HIDE DEF z
  <2>1. b + 1 \in Int
    BY <1>1
  <2> QED BY <1>3, <1>4, <2>1, SubSeqProperties
<1>6. Len(SubSeq(q, b + 1, z)) >= Least(Size(n), Len(q) - a)
  <2>1. CASE a < IntSize
    BY <1>1, <1>3, <1>5, <2>1 DEF Least
  <2>2. CASE ~(a < IntSize)
    <3>1. Len(q) - a <= 0
      BY <1>1, <1>3, <2>2, QueryAssumption
    <3>2. Len(SubSeq(q, b + 1, z)) >= 0
      BY <1>1, <1>3, <1>5
    <3> QED BY <1>1, <1>3, <1>5, <3>1, <3>2 DEF Least
  <2> QED BY <2>1, <2>2
<1> QED BY <1>2, <1>5, <1>6 DEF a

\* The requests clients begin with.
AskFor(i, h, b) == [NewReq EXCEPT !.id = i, !.had = h, !.known = b]
LEMMA AskedFor ==
    \A i, h, b : i \in Id /\ h \in SUBSET AllTags /\ b \in BOOLEAN =>
        /\ AskFor(i, h, b) \in Request /\ AskFor(i, h, b).id = i /\ AskFor(i, h, b).had = h
        /\ AskFor(i, h, b).known = b /\ AskFor(i, h, b).detail = Blank
        /\ AskFor(i, h, b).op = "detail"
<1> SUFFICES ASSUME NEW i \in Id, NEW h \in SUBSET AllTags, NEW b \in BOOLEAN
             PROVE  /\ AskFor(i, h, b) \in Request /\ AskFor(i, h, b).id = i
                    /\ AskFor(i, h, b).had = h /\ AskFor(i, h, b).known = b
                    /\ AskFor(i, h, b).detail = Blank /\ AskFor(i, h, b).op = "detail"
  OBVIOUS
<1> QED BY NewRequest DEF Request, AskFor

LEMMA ListAsked ==
    ASSUME NEW p \in Int, NEW n \in Int
    PROVE  \E k \in Request :
              /\ k = [NewReq EXCEPT !.op = "list", !.page = p, !.size = n]
              /\ k.detail = Blank /\ k.op = "list"
<1> DEFINE k == [NewReq EXCEPT !.op = "list", !.page = p, !.size = n]
<1>1. k \in Request /\ k.detail = Blank /\ k.op = "list"
  BY NewRequest DEF Request, Ops
<1> HIDE DEF k
<1> QED BY <1>1 DEF k

AskVersion(i, ok, d, s) ==
    [NewReq EXCEPT !.op = "version", !.id = i, !.clean = ok, !.detail = d, !.status = s]
LEMMA VersionAsked ==
    \A i, ok, d, s : /\ i \in Id /\ ok \in BOOLEAN /\ d \in Detail
                     /\ s \in {"ok", "notfound"}
        => /\ AskVersion(i, ok, d, s) \in Request /\ AskVersion(i, ok, d, s).detail = d
           /\ AskVersion(i, ok, d, s).op = "version"
<1> SUFFICES ASSUME NEW i \in Id, NEW ok \in BOOLEAN, NEW d \in Detail, NEW s \in {"ok", "notfound"}
             PROVE  /\ AskVersion(i, ok, d, s) \in Request /\ AskVersion(i, ok, d, s).detail = d
                    /\ AskVersion(i, ok, d, s).op = "version"
  OBVIOUS
<1> DEFINE j == [NewReq EXCEPT !.op = "version", !.id = i, !.clean = ok]
           k == [j EXCEPT !.detail = d]
<1>1. j \in Request /\ j.op = "version"
  BY NewRequest DEF Request, Ops
<1> HIDE DEF j
<1>2. k \in Request /\ k.detail = d /\ k.op = "version"
  BY <1>1, AssignDetail, Zenon DEF About
<1> HIDE DEF k
<1>3. /\ [k EXCEPT !.status = s] \in Request /\ [k EXCEPT !.status = s].detail = d
      /\ [k EXCEPT !.status = s].op = "version"
  <2>1. s \in {"none", "ok", "notfound", "error"}
    OBVIOUS
  <2> QED BY <1>2, <2>1, AssignStatus, Zenon DEF About, Alike
<1> QED BY <1>3, Zenon DEF AskVersion, j, k

LEMMA UrlAsked ==
    \E k \in Request : /\ k = [NewReq EXCEPT !.op = "url", !.status = "ok"]
                       /\ k.detail = Blank /\ k.op = "url"
<1> DEFINE k == [NewReq EXCEPT !.op = "url", !.status = "ok"]
<1>1. k \in Request /\ k.detail = Blank /\ k.op = "url"
  BY NewRequest DEF Request, Ops
<1> HIDE DEF k
<1> QED BY <1>1 DEF k

LEMMA StatsAsked ==
    ASSUME NEW n \in Nat
    PROVE  \E k \in Request : /\ k = [NewReq EXCEPT !.op = "stats", !.status = "ok", !.total = n]
                              /\ k.detail = Blank /\ k.op = "stats"
<1> DEFINE k == [NewReq EXCEPT !.op = "stats", !.status = "ok", !.total = n]
<1>1. k \in Request /\ k.detail = Blank /\ k.op = "stats"
  BY NewRequest DEF Request, Ops
<1> HIDE DEF k
<1> QED BY <1>1 DEF k

-----------------------------------------------------------------------------
(* What each call of a request does.                                        *)

Moves(c, l, k) == Goto(c, l) /\ req' = [req EXCEPT ![c] = k]
Begins(l, k) ==
    \/ /\ l = (IF pgEnabled THEN "row" ELSE "detail") /\ k.op = "detail" /\ k.detail = Blank
       /\ k.had = pgVersion[k.id] /\ k.known = (pgRow[k.id] # NoRow)
    \/ l \in {"count", "list"} /\ k.op = "list" /\ k.detail = Blank
    \/ /\ l = "done" /\ k.op \in {"version", "url", "stats"}
       /\ k.detail = Blank \/ \E t \in AllTags : k.detail = Only(t)

LEMMA Asks ==
    ASSUME TypeOK, NEW c \in Client, Ask(c)
    PROVE  /\ pc[c] = "idle" /\ UNCHANGED <<config, synced, caches, detached>>
           /\ UNCHANGED faults \/ \E ok \in BOOLEAN : Try(ok)
           /\ \E k \in Request, l \in Label : Moves(c, l, k) /\ Begins(l, k)
<1>t. /\ pgVersion \in [Id -> SUBSET AllTags] /\ pgEnabled \in BOOLEAN
      /\ listKey \in Lists \cup {Nothing} /\ meta \in [Id -> SUBSET AllTags]
      /\ Asked \subseteq Id /\ Pages \subseteq Int /\ Sizes \subseteq Int
  BY QueryAssumption DEF TypeOK
<1>b. Blank \in Detail /\ \A t \in AllTags : Only(t) \in Detail
  BY DEF Blank, Only, Detail, NoTag, AllTags
<1>1. ASSUME NEW i \in Asked, GetSoftware(c, i)
      PROVE  \E k \in Request, l \in Label : Moves(c, l, k) /\ Begins(l, k)
  <2> DEFINE h == pgVersion[i]
             b == pgRow[i] # NoRow
  <2>0. i \in Id /\ h \in SUBSET AllTags /\ b \in BOOLEAN
    BY <1>t
  <2> DEFINE k == AskFor(i, h, b)
  <2>2. /\ req' = [req EXCEPT ![c] = k]
        /\ Goto(c, IF pgEnabled THEN "row" ELSE "detail")
    BY <1>1, Zenon DEF GetSoftware, Start, AskFor
  <2> HIDE DEF h, b
  <2>1. /\ k \in Request /\ k.id = i /\ k.had = h /\ k.known = b
        /\ k.detail = Blank /\ k.op = "detail"
    BY <2>0, AskedFor
  <2> HIDE DEF k
  <2>3. (IF pgEnabled THEN "row" ELSE "detail") \in Label
    BY DEF Label
  <2>4. Begins(IF pgEnabled THEN "row" ELSE "detail", k)
    <3>1. k.had = pgVersion[k.id] /\ k.known = (pgRow[k.id] # NoRow)
      BY <2>1, Zenon DEF h, b
    <3> QED BY <2>1, <3>1, Zenon DEF Begins
  <2> QED BY <2>1, <2>2, <2>3, <2>4, Zenon DEF Moves
<1>2. ASSUME NEW p \in Pages, NEW n \in Sizes, ListSoftware(c, p, n)
      PROVE  \E k \in Request, l \in Label : Moves(c, l, k) /\ Begins(l, k)
  <2>1. PICK k \in Request : /\ k = [NewReq EXCEPT !.op = "list", !.page = p, !.size = n]
                             /\ k.detail = Blank /\ k.op = "list"
    BY <1>t, ListAsked
  <2>2. /\ req' = [req EXCEPT ![c] = k]
        /\ Goto(c, IF pgEnabled THEN "count" ELSE "list")
    BY <1>2, <2>1, Zenon DEF ListSoftware, Start
  <2>3. (IF pgEnabled THEN "count" ELSE "list") \in Label \cap {"count", "list"}
    BY DEF Label
  <2> QED BY <2>1, <2>2, <2>3, Zenon DEF Moves, Begins
<1>3. ASSUME NEW i \in Asked, NEW t \in Tags(i), GetVersion(c, i, t)
      PROVE  \E k \in Request, l \in Label : Moves(c, l, k) /\ Begins(l, k)
  <2>1. PICK ok \in BOOLEAN :
           req' = [req EXCEPT ![c] = [NewReq EXCEPT
                     !.op = "version", !.id = i, !.clean = ok,
                     !.detail = IF ok /\ t \in meta[i] THEN Only(t) ELSE Blank,
                     !.status = IF ok /\ t \in meta[i] THEN "ok" ELSE "notfound"]]
    BY <1>3, Zenon DEF GetVersion
  <2> DEFINE d == IF ok /\ t \in meta[i] THEN Only(t) ELSE Blank
             s == IF ok /\ t \in meta[i] THEN "ok" ELSE "notfound"
  <2>2. i \in Id /\ (t \in meta[i] => t \in AllTags)
    BY <1>t
  <2>3. d \in Detail /\ s \in {"ok", "notfound"}
    BY <2>2, <1>b
  <2>4. d = Blank \/ \E u \in AllTags : d = Only(u)
    BY <2>2
  <2>5. req' = [req EXCEPT ![c] = [NewReq EXCEPT !.op = "version", !.id = i, !.clean = ok,
                                                 !.detail = d, !.status = s]]
    BY <2>1, Zenon
  <2> HIDE DEF d, s
  <2> DEFINE k == AskVersion(i, ok, d, s)
  <2>6. k \in Request /\ k.detail = d /\ k.op = "version"
    BY <2>2, <2>3, VersionAsked
  <2>7. Moves(c, "done", k)
    BY <1>3, <2>5, Zenon DEF Moves, GetVersion, AskVersion
  <2> HIDE DEF k
  <2>8. Begins("done", k) /\ "done" \in Label
    BY <2>4, <2>6 DEF Begins, Label
  <2> QED BY <2>6, <2>7, <2>8
<1>4. ASSUME GetDownloadURL(c)
      PROVE  \E k \in Request, l \in Label : Moves(c, l, k) /\ Begins(l, k)
  <2>1. PICK k \in Request : /\ k = [NewReq EXCEPT !.op = "url", !.status = "ok"]
                             /\ k.detail = Blank /\ k.op = "url"
    BY UrlAsked
  <2>2. req' = [req EXCEPT ![c] = k] /\ Goto(c, "done")
    BY <1>4, <2>1, Zenon DEF GetDownloadURL, Start
  <2> QED BY <2>1, <2>2 DEF Moves, Begins, Label
<1>5. ASSUME GetStats(c)
      PROVE  \E k \in Request, l \in Label : Moves(c, l, k) /\ Begins(l, k)
  <2> DEFINE n == IF listKey = Nothing THEN 0 ELSE Len(listKey)
  <2>1. n \in Nat
    BY <1>t, ListsAreSeqs
  <2>2. req' = [req EXCEPT ![c] = [NewReq EXCEPT !.op = "stats", !.status = "ok", !.total = n]]
        /\ Goto(c, "done")
    BY <1>5, Zenon DEF GetStats, Start
  <2> HIDE DEF n
  <2>3. PICK k \in Request : /\ k = [NewReq EXCEPT !.op = "stats", !.status = "ok", !.total = n]
                             /\ k.detail = Blank /\ k.op = "stats"
    BY <2>1, StatsAsked
  <2> QED BY <2>2, <2>3 DEF Moves, Begins, Label
<1>6. /\ pc[c] = "idle" /\ UNCHANGED <<config, synced, caches, detached>>
      /\ UNCHANGED faults \/ \E ok \in BOOLEAN : Try(ok)
  BY Zenon DEF Ask, GetSoftware, ListSoftware, GetVersion, GetDownloadURL, GetStats, Start, ByClient
<1> QED BY <1>1, <1>2, <1>3, <1>4, <1>5, <1>6 DEF Ask

LEMMA Gets ==
    ASSUME TypeOK, NEW c \in Client, PgGetSoftware(c)
    PROVE  \E k \in Request, l \in {"versions", "detail"} :
              /\ Moves(c, l, k) /\ About(k, req[c])
              /\ l = "versions" => /\ pgRow[k.id] # NoRow
                                   /\ k.detail.latest = pgRow[k.id]
              /\ l = "detail" => /\ k.detail = req[c].detail
                                 /\ k.clean => pgRow[k.id] = NoRow
<1>t. /\ req \in [Client -> Request] /\ req[c] \in Request
      /\ pgRow \in [Id -> AllTags \cup {NoTag, NoRow}]
  BY DEF TypeOK
<1>d. req[c].id \in Id /\ req[c].detail \in Detail
  BY <1>t DEF Request
<1>1. PICK ok \in BOOLEAN :
          LET found == ok /\ pgRow[req[c].id] # NoRow
          IN  /\ Then(c, ok, IF found THEN [req[c] EXCEPT !.detail.latest = pgRow[req[c].id]]
                                      ELSE req[c])
              /\ Goto(c, IF found THEN "versions" ELSE "detail")
  BY DEF PgGetSoftware
<1>2. CASE ok /\ pgRow[req[c].id] # NoRow
  <2> DEFINE d == [req[c].detail EXCEPT !.latest = pgRow[req[c].id]]
             r == [req[c] EXCEPT !.detail = d]
  <2>0. pgRow[req[c].id] \in AllTags \cup {NoTag}
    BY <1>2, <1>t, <1>d
  <2>1. d \in Detail /\ d.latest = pgRow[req[c].id]
    BY <2>0, <1>d DEF Detail
  <2>2. r = [req[c] EXCEPT !.detail.latest = pgRow[req[c].id]]
    BY <1>t, Zenon
  <2>3. Then(c, ok, r) /\ Goto(c, "versions")
    BY <1>1, <1>2, <2>2, Zenon
  <2> HIDE DEF d
  <2>4. r \in Request /\ About(r, req[c]) /\ r.detail = d
    BY <1>t, <2>1, AssignDetail, Zenon
  <2> HIDE DEF r
  <2>5. PICK k \in Request : req' = [req EXCEPT ![c] = k] /\ Alike(k, r)
    BY <1>t, <2>3, <2>4, Answering
  <2>6. About(k, req[c]) /\ k.detail = d
    BY <2>4, <2>5 DEF About, Alike
  <2>7. k.id = req[c].id
    BY <2>6 DEF About
  <2> QED BY <1>2, <2>1, <2>3, <2>5, <2>6, <2>7 DEF Moves
<1>3. CASE ~(ok /\ pgRow[req[c].id] # NoRow)
  <2>1. Then(c, ok, req[c]) /\ Goto(c, "detail")
    BY <1>1, <1>3, Zenon
  <2>2. PICK k \in Request : req' = [req EXCEPT ![c] = k] /\ Alike(k, req[c]) /\ (k.clean => ok)
    BY <1>t, <2>1, Answering
  <2> QED BY <1>3, <2>1, <2>2 DEF Moves, About, Alike
<1> QED BY <1>2, <1>3

LEMMA AnswersDetail ==
    ASSUME TypeOK, NEW c \in Client, NEW ok \in BOOLEAN, NEW vs \in SUBSET AllTags,
           AnswerDetail(c, ok, vs)
    PROVE  \E k \in Request :
              /\ Moves(c, "done", k) /\ About(k, req[c]) /\ (k.clean => ok)
              /\ k.detail \in Detail
              /\ k.detail.latest = req[c].detail.latest /\ k.detail.versions = vs
              /\ k.detail.whole => req[c].detail.whole /\ ok
              /\ detached' = detached \cup {[key |-> req[c].id, value |-> k.detail]}
<1>t. req \in [Client -> Request] /\ req[c] \in Request
  BY DEF TypeOK
<1>d. req[c].id \in Id /\ req[c].detail \in Detail
  BY <1>t DEF Request
<1> DEFINE d == [latest |-> req[c].detail.latest, versions |-> vs, whole |-> req[c].detail.whole /\ ok]
           r == [req[c] EXCEPT !.detail = d]
           s == [r EXCEPT !.status = "ok"]
<1>1. /\ d \in Detail /\ d.latest = req[c].detail.latest /\ d.versions = vs
      /\ d.whole => req[c].detail.whole /\ ok
  BY <1>d DEF Detail
<1>2. Then(c, ok, s) /\ detached' = detached \cup {[key |-> req[c].id, value |-> d]} /\ Goto(c, "done")
  BY Zenon DEF AnswerDetail
<1> HIDE DEF d
<1>3. r \in Request /\ About(r, req[c]) /\ r.detail = d
  BY <1>t, <1>1, AssignDetail, Zenon
<1> HIDE DEF r
<1>4. s \in Request /\ Alike(s, r)
  BY <1>3, AssignStatus
<1> HIDE DEF s
<1>5. PICK k \in Request : req' = [req EXCEPT ![c] = k] /\ Alike(k, s) /\ (k.clean => ok)
  BY <1>t, <1>2, <1>4, Answering
<1>6. About(k, req[c]) /\ k.detail = d
  BY <1>3, <1>4, <1>5 DEF About, Alike
<1> QED BY <1>1, <1>2, <1>5, <1>6 DEF Moves

LEMMA Reads ==
    ASSUME TypeOK, NEW c \in Client, ReadDetail(c)
    PROVE  \E k \in Request, l \in {"done", "latest"} :
              /\ Moves(c, l, k) /\ About(k, req[c])
              /\ l = "done" => k.detail = detailKey[k.id] /\ detailKey[k.id] # Nothing
              /\ l = "latest" => k.detail = req[c].detail
<1>t. /\ req \in [Client -> Request] /\ req[c] \in Request
      /\ detailKey \in [Id -> Detail \cup {Nothing}]
  BY DEF TypeOK
<1>d. req[c].id \in Id
  BY <1>t DEF Request
<1>1. PICK ok \in BOOLEAN :
          LET hit == ok /\ detailKey[req[c].id] # Nothing
          IN  /\ Then(c, ok, IF hit THEN [req[c] EXCEPT !.detail = detailKey[req[c].id],
                                                        !.status = "ok"]
                                    ELSE req[c])
              /\ Goto(c, IF hit THEN "done" ELSE "latest")
  BY DEF ReadDetail
<1>2. CASE ok /\ detailKey[req[c].id] # Nothing
  <2> DEFINE d == detailKey[req[c].id]
             r == [req[c] EXCEPT !.detail = d]
             s == [r EXCEPT !.status = "ok"]
  <2>1. d \in Detail
    BY <1>t, <1>d, <1>2
  <2>2. Then(c, ok, s) /\ Goto(c, "done")
    BY <1>1, <1>2, Zenon
  <2> HIDE DEF d
  <2>3. r \in Request /\ About(r, req[c]) /\ r.detail = d
    BY <1>t, <2>1, AssignDetail, Zenon
  <2> HIDE DEF r
  <2>4. s \in Request /\ Alike(s, r)
    BY <2>3, AssignStatus
  <2> HIDE DEF s
  <2>5. PICK k \in Request : req' = [req EXCEPT ![c] = k] /\ Alike(k, s)
    BY <1>t, <2>2, <2>4, Answering
  <2>6. About(k, req[c]) /\ k.detail = d
    BY <2>3, <2>4, <2>5 DEF About, Alike
  <2>7. k.id = req[c].id
    BY <2>6 DEF About
  <2> QED BY <1>2, <2>2, <2>5, <2>6, <2>7 DEF Moves, d
<1>3. CASE ~(ok /\ detailKey[req[c].id] # Nothing)
  <2>1. Then(c, ok, req[c]) /\ Goto(c, "latest")
    BY <1>1, <1>3, Zenon
  <2>2. PICK k \in Request : req' = [req EXCEPT ![c] = k] /\ Alike(k, req[c])
    BY <1>t, <2>1, Answering
  <2> QED BY <2>1, <2>2 DEF Moves, About, Alike
<1> QED BY <1>2, <1>3

LEMMA Loads ==
    ASSUME TypeOK, NEW c \in Client, LoadSoftwareFromS3(c)
    PROVE  \E k \in Request :
              /\ Moves(c, "keys", k) /\ About(k, req[c])
              /\ k.detail.whole => k.detail.latest = latest[k.id]
<1>t. /\ req \in [Client -> Request] /\ req[c] \in Request
      /\ latest \in [Id -> AllTags \cup {NoTag}]
  BY DEF TypeOK
<1>d. req[c].id \in Id /\ req[c].detail \in Detail
  BY <1>t DEF Request
<1>1. PICK ok \in BOOLEAN :
          Then(c, ok, [req[c] EXCEPT !.detail.latest = IF ok THEN latest[req[c].id] ELSE NoTag,
                                     !.detail.whole = ok])
  BY DEF LoadSoftwareFromS3
<1> DEFINE t == IF ok THEN latest[req[c].id] ELSE NoTag
           d == [req[c].detail EXCEPT !.latest = t]
           e == [d EXCEPT !.whole = ok]
           r == [req[c] EXCEPT !.detail = d]
           s == [r EXCEPT !.detail = e]
<1>2. t \in AllTags \cup {NoTag} /\ (ok => t = latest[req[c].id])
  BY <1>t, <1>d
<1>3. Then(c, ok, [req[c] EXCEPT !.detail.latest = t, !.detail.whole = ok])
  BY <1>1, Zenon
<1> HIDE DEF t
<1>4. d \in Detail /\ d.latest = t
  BY <1>2, <1>d DEF Detail
<1>5. e \in Detail /\ e.latest = t /\ e.whole = ok
  <2> HIDE DEF d
  <2> QED BY <1>4 DEF Detail
<1>6. r \in Request /\ About(r, req[c]) /\ r.detail = d
  <2> HIDE DEF d
  <2> QED BY <1>t, <1>4, AssignDetail, Zenon
<1>7. s \in Request /\ About(s, r) /\ s.detail = e
  <2> HIDE DEF r, e
  <2> QED BY <1>5, <1>6, AssignDetail, Zenon
<1>8. [req[c] EXCEPT !.detail.latest = t, !.detail.whole = ok] = s
  <2>1. r = [req[c] EXCEPT !.detail.latest = t]
    BY Zenon
  <2>2. [r EXCEPT !.detail.whole = ok] = [r EXCEPT !.detail = [r.detail EXCEPT !.whole = ok]]
    BY Zenon
  <2>3. s = [r EXCEPT !.detail = [r.detail EXCEPT !.whole = ok]]
    BY <1>6, Zenon
  <2> QED BY <2>1, <2>2, <2>3, Zenon
<1>9. Then(c, ok, s)
  BY <1>3, <1>8, Zenon
<1> HIDE DEF s
<1>10. PICK k \in Request : req' = [req EXCEPT ![c] = k] /\ Alike(k, s)
  BY <1>t, <1>7, <1>9, Answering
<1>11. About(k, req[c]) /\ k.detail = e
  <2> HIDE DEF r, e
  <2> QED BY <1>6, <1>7, <1>10 DEF About, Alike
<1>12. k.id = req[c].id
  BY <1>11 DEF About
<1>13. k.detail.whole => k.detail.latest = latest[k.id]
  <2> HIDE DEF e
  <2> QED BY <1>2, <1>5, <1>11, <1>12
<1> QED BY <1>10, <1>11, <1>13 DEF LoadSoftwareFromS3, Moves

\* A page of q was answered, and reports this total.
Paged(k, q, total) == /\ k.items = PageOf(q, k.page, k.size) /\ k.total = total
                      /\ k.status = "ok"

LEMMA RowsCounted ==
    /\ Cardinality(Rows) \in Nat /\ Rows \subseteq Id /\ IsFiniteSet(Rows)
<1>1. Rows \subseteq Id
  BY DEF Rows
<1>2. IsFiniteSet(Rows)
  BY <1>1, QueryAssumption, FS_Subset
<1> QED BY <1>1, <1>2, FS_CardinalityType

LEMMA Counts ==
    ASSUME TypeOK, NEW c \in Client, PgCount(c)
    PROVE  \E k \in Request, l \in {"find", "list"} :
              /\ Moves(c, l, k) /\ Alike(k, req[c])
              /\ l = "find" => k.total = Cardinality(Rows)
<1>t. req \in [Client -> Request] /\ req[c] \in Request
  BY DEF TypeOK
<1>1. PICK ok \in BOOLEAN :
          /\ Then(c, ok, IF ok THEN [req[c] EXCEPT !.total = Cardinality(Rows)] ELSE req[c])
          /\ Goto(c, IF ok THEN "find" ELSE "list")
  BY DEF PgCount
<1>2. CASE ok
  <2> DEFINE n == Cardinality(Rows)
             r == [req[c] EXCEPT !.total = n]
  <2>1. n \in Nat
    BY RowsCounted
  <2>2. Then(c, ok, r) /\ Goto(c, "find")
    BY <1>1, <1>2, Zenon
  <2> HIDE DEF n
  <2>3. r \in Request /\ Alike(r, req[c]) /\ r.total = n
    BY <1>t, <2>1, AssignTotal, Zenon
  <2> HIDE DEF r
  <2>4. PICK k \in Request : req' = [req EXCEPT ![c] = k] /\ Alike(k, r) /\ Listed(k, r)
    BY <1>t, <2>2, <2>3, Answering
  <2>5. Alike(k, req[c]) /\ k.total = n
    BY <2>3, <2>4 DEF About, Alike, Listed
  <2> QED BY <2>2, <2>4, <2>5 DEF Moves, n
<1>3. CASE ~ok
  <2>1. Then(c, ok, req[c]) /\ Goto(c, "list")
    BY <1>1, <1>3, Zenon
  <2>2. PICK k \in Request : req' = [req EXCEPT ![c] = k] /\ Alike(k, req[c])
    BY <1>t, <2>1, Answering
  <2> QED BY <2>1, <2>2 DEF Moves
<1> QED BY <1>2, <1>3

LEMMA Finds ==
    ASSUME TypeOK, NEW c \in Client, PgFind(c)
    PROVE  \E k \in Request, l \in {"done", "list"} :
              /\ Moves(c, l, k) /\ Alike(k, req[c])
              /\ l = "done" => \E q \in Orders(Rows) : Paged(k, q, req[c].total)
<1>t. req \in [Client -> Request] /\ req[c] \in Request
  BY DEF TypeOK
<1>d. req[c].page \in Int /\ req[c].size \in Int
  BY <1>t DEF Request
<1>1. ASSUME NEW q \in Orders(Rows), Goto(c, "done"),
             Then(c, TRUE, [req[c] EXCEPT !.items = PageOf(q, req[c].page, req[c].size),
                                          !.status = "ok"])
      PROVE  \E k \in Request : /\ Moves(c, "done", k) /\ Alike(k, req[c])
                                /\ Paged(k, q, req[c].total)
  <2> DEFINE page == PageOf(q, req[c].page, req[c].size)
             r == [req[c] EXCEPT !.items = page]
             s == [r EXCEPT !.status = "ok"]
  <2>1. page \in Seq(Id)
    BY <1>d, RowsCounted, Orderings, Paging
  <2>2. Then(c, TRUE, s)
    BY <1>1, Zenon
  <2> HIDE DEF page
  <2>3. r \in Request /\ Alike(r, req[c]) /\ r.items = page /\ r.total = req[c].total
    <3>1. [req[c] EXCEPT !.items = page].total = req[c].total
      BY <1>t DEF Request
    <3> QED BY <1>t, <2>1, <3>1, AssignItems, Zenon
  <2> HIDE DEF r
  <2>4. /\ s \in Request /\ Alike(s, r) /\ s.items = page /\ s.status = "ok"
        /\ s.total = req[c].total
    BY <2>3, AssignStatus
  <2> HIDE DEF s
  <2>5. PICK k \in Request : req' = [req EXCEPT ![c] = k] /\ Alike(k, s) /\ Listed(k, s)
    BY <1>t, <2>2, <2>4, Answering
  <2>6. Alike(k, req[c])
    BY <2>3, <2>4, <2>5 DEF About, Alike
  <2>7. k.items = page /\ k.total = req[c].total /\ k.status = "ok"
    BY <2>4, <2>5 DEF Listed
  <2>8. k.page = req[c].page /\ k.size = req[c].size
    BY <2>6 DEF About, Alike
  <2> QED BY <1>1, <2>5, <2>6, <2>7, <2>8 DEF Moves, Paged, page
<1>2. ASSUME Then(c, FALSE, req[c]), Goto(c, "list")
      PROVE  \E k \in Request : Moves(c, "list", k) /\ Alike(k, req[c])
  BY <1>t, <1>2, Answering DEF Moves
<1> QED BY <1>1, <1>2 DEF PgFind

LEMMA AnswersList ==
    ASSUME TypeOK, NEW c \in Client, NEW q \in Lists, AnswerList(c, q)
    PROVE  \E k \in Request : /\ Moves(c, "done", k) /\ Alike(k, req[c])
                              /\ Paged(k, q, Len(q))
<1>t. req \in [Client -> Request] /\ req[c] \in Request
  BY DEF TypeOK
<1>d. req[c].page \in Int /\ req[c].size \in Int
  BY <1>t DEF Request
<1> DEFINE page == PageOf(q, req[c].page, req[c].size)
           n == Len(q)
           r == [req[c] EXCEPT !.items = page]
           s == [r EXCEPT !.total = n]
           u == [s EXCEPT !.status = "ok"]
<1>1. page \in Seq(Id) /\ n \in Nat
  BY <1>d, ListsAreSeqs, Paging
<1>2. Then(c, TRUE, u) /\ Goto(c, "done")
  BY Zenon DEF AnswerList
<1> HIDE DEF page, n
<1>3. r \in Request /\ Alike(r, req[c]) /\ r.items = page
  BY <1>t, <1>1, AssignItems, Zenon
<1> HIDE DEF r
<1>4. s \in Request /\ Alike(s, r) /\ s.items = page /\ s.total = n
  BY <1>1, <1>3, AssignTotal, Zenon
<1> HIDE DEF s
<1>5. u \in Request /\ Alike(u, s) /\ u.items = page /\ u.total = n /\ u.status = "ok"
  BY <1>4, AssignStatus
<1> HIDE DEF u
<1>6. PICK k \in Request : req' = [req EXCEPT ![c] = k] /\ Alike(k, u) /\ Listed(k, u)
  BY <1>t, <1>2, <1>5, Answering
<1>7. Alike(k, req[c])
  BY <1>3, <1>4, <1>5, <1>6 DEF About, Alike
<1>8. k.items = page /\ k.total = n /\ k.status = "ok"
  BY <1>5, <1>6 DEF Listed
<1>9. k.page = req[c].page /\ k.size = req[c].size
  BY <1>7 DEF About, Alike
<1> QED BY <1>2, <1>6, <1>7, <1>8, <1>9 DEF Moves, Paged, page, n

LEMMA ReadsList ==
    ASSUME TypeOK, NEW c \in Client, ReadList(c)
    PROVE  \E k \in Request, l \in {"done", "objects"} :
              /\ Moves(c, l, k) /\ Alike(k, req[c])
              /\ l = "done" => \E q \in Lists : Paged(k, q, Len(q))
<1>t. req \in [Client -> Request] /\ req[c] \in Request /\ listKey \in Lists \cup {Nothing}
  BY DEF TypeOK
<1>1. CASE listKey # Nothing /\ AnswerList(c, listKey)
  BY <1>1, <1>t, AnswersList
<1>2. CASE \E ok \in BOOLEAN : Then(c, ok, req[c]) /\ Goto(c, "objects")
  BY <1>2, <1>t, Answering DEF Moves
<1> QED BY <1>1, <1>2 DEF ReadList

LEMMA LoadsList ==
    ASSUME TypeOK, NEW c \in Client, LoadSoftwareListFromS3(c)
    PROVE  \E k \in Request :
              /\ Moves(c, "done", k) /\ Alike(k, req[c])
              /\ \/ /\ \E q \in Lists : /\ Paged(k, q, Len(q))
                                        /\ detached' = detached \cup {[key |-> List, value |-> q]}
                 \/ k.status = "error" /\ UNCHANGED detached
<1>t. req \in [Client -> Request] /\ req[c] \in Request /\ (stored \cap FirstPage) \in SUBSET Id
  BY DEF TypeOK
<1>1. ASSUME NEW q \in Orders(stored \cap FirstPage), AnswerList(c, q),
             detached' = detached \cup {[key |-> List, value |-> q]}
      PROVE  \E k \in Request :
              /\ Moves(c, "done", k) /\ Alike(k, req[c])
              /\ \E p \in Lists : /\ Paged(k, p, Len(p))
                                  /\ detached' = detached \cup {[key |-> List, value |-> p]}
  <2>1. q \in Lists
    BY <1>t, Orderings
  <2> QED BY <1>1, <2>1, AnswersList
<1>2. ASSUME Then(c, FALSE, [req[c] EXCEPT !.status = "error"]), Goto(c, "done"), UNCHANGED detached
      PROVE  \E k \in Request : Moves(c, "done", k) /\ Alike(k, req[c]) /\ k.status = "error"
  <2> DEFINE r == [req[c] EXCEPT !.status = "error"]
  <2>1. r \in Request /\ Alike(r, req[c]) /\ r.status = "error"
    BY <1>t, AssignStatus
  <2>2. Then(c, FALSE, r)
    BY <1>2
  <2> HIDE DEF r
  <2>3. PICK k \in Request : req' = [req EXCEPT ![c] = k] /\ Alike(k, r) /\ Listed(k, r)
    BY <1>t, <2>1, <2>2, Answering
  <2> QED BY <1>2, <2>1, <2>3 DEF Moves, About, Alike, Listed
<1> QED BY <1>1, <1>2 DEF LoadSoftwareListFromS3

-----------------------------------------------------------------------------
(* Types.                                                                   *)

LEMMA TryCounts ==
    ASSUME faults \in 0..MaxFaults, NEW ok \in BOOLEAN, Try(ok)
    PROVE  faults' \in 0..MaxFaults
BY QueryAssumption DEF Try

LEMMA ServeKeeps ==
    ASSUME TypeOK, NEW c \in Client, Serve(c)
    PROVE  /\ UNCHANGED <<config, synced, caches>> /\ faults' \in 0..MaxFaults
           /\ \E k \in Request, l \in Label : Moves(c, l, k)
           /\ detached' \subseteq Write
<1>t. /\ req \in [Client -> Request] /\ req[c] \in Request /\ faults \in 0..MaxFaults
      /\ detached \subseteq Write /\ pgVersion \in [Id -> SUBSET AllTags]
      /\ meta \in [Id -> SUBSET AllTags]
  BY DEF TypeOK
<1>d. req[c].id \in Id
  BY <1>t DEF Request
<1>n. TRUE \in BOOLEAN /\ FALSE \in BOOLEAN
  OBVIOUS
<1>l. {"versions", "detail", "done", "latest", "keys", "find", "list", "objects", "idle"} \subseteq Label
  BY DEF Label
<1>a. ASSUME NEW ok \in BOOLEAN, NEW vs \in SUBSET AllTags, AnswerDetail(c, ok, vs)
      PROVE  /\ \E k \in Request, l \in Label : Moves(c, l, k)
             /\ detached' \subseteq Write /\ Try(ok)
  <2>1. PICK k \in Request : /\ Moves(c, "done", k) /\ k.detail \in Detail
                             /\ detached' = detached \cup {[key |-> req[c].id, value |-> k.detail]}
    BY <1>a, AnswersDetail
  <2>2. [key |-> req[c].id, value |-> k.detail] \in Write
    BY <2>1, <1>d DEF Write
  <2>3. Try(ok)
    BY <1>a, Zenon DEF AnswerDetail, Then
  <2> QED BY <2>1, <2>2, <2>3, <1>t, <1>l
<1>1. CASE PgGetSoftware(c)
  <2>1. \E ok \in BOOLEAN : Try(ok)
    BY <1>1, Zenon DEF PgGetSoftware, Then
  <2>2. UNCHANGED <<config, synced, caches, detached>>
    BY <1>1, Zenon DEF PgGetSoftware, ByClient
  <2> QED BY <1>1, <2>1, <2>2, <1>t, <1>l, Gets, TryCounts
<1>2. CASE PgListVersions(c)
  <2>1. PICK ok \in BOOLEAN : AnswerDetail(c, ok, IF ok THEN pgVersion[req[c].id] ELSE {})
    BY <1>2, Zenon DEF PgListVersions
  <2>2. (IF ok THEN pgVersion[req[c].id] ELSE {}) \in SUBSET AllTags
    BY <1>t, <1>d
  <2>3. UNCHANGED <<config, synced, caches>>
    BY <1>2, Zenon DEF PgListVersions, ByClient
  <2> QED BY <2>1, <2>2, <2>3, <1>t, <1>a, TryCounts
<1>3. CASE ReadDetail(c)
  <2>1. \E ok \in BOOLEAN : Try(ok)
    BY <1>3, Zenon DEF ReadDetail, Then
  <2>2. UNCHANGED <<config, synced, caches, detached>>
    BY <1>3, Zenon DEF ReadDetail, ByClient
  <2> QED BY <1>3, <2>1, <2>2, <1>t, <1>l, Reads, TryCounts
<1>4. CASE LoadSoftwareFromS3(c)
  <2>1. \E ok \in BOOLEAN : Try(ok)
    BY <1>4, Zenon DEF LoadSoftwareFromS3, Then
  <2>2. UNCHANGED <<config, synced, caches, detached>>
    BY <1>4, Zenon DEF LoadSoftwareFromS3, ByClient
  <2> QED BY <1>4, <2>1, <2>2, <1>t, <1>l, Loads, TryCounts
<1>5. CASE ListVersions(c)
  <2>1. PICK vs \in SUBSET meta[req[c].id], ok \in BOOLEAN : AnswerDetail(c, ok, vs)
    BY <1>5, Zenon DEF ListVersions
  <2>2. vs \in SUBSET AllTags
    BY <1>t, <1>d
  <2>3. UNCHANGED <<config, synced, caches>>
    BY <1>5, Zenon DEF ListVersions, ByClient
  <2> QED BY <2>1, <2>2, <2>3, <1>t, <1>a, TryCounts
<1>6. CASE PgCount(c)
  <2>1. \E ok \in BOOLEAN : Try(ok)
    BY <1>6, Zenon DEF PgCount, Then
  <2>2. UNCHANGED <<config, synced, caches, detached>>
    BY <1>6, Zenon DEF PgCount, ByClient
  <2> QED BY <1>6, <2>1, <2>2, <1>t, <1>l, Counts, TryCounts
<1>7. CASE PgFind(c)
  <2>1. Try(TRUE) \/ Try(FALSE)
    BY <1>7, Zenon DEF PgFind, Then
  <2>2. UNCHANGED <<config, synced, caches, detached>>
    BY <1>7, Zenon DEF PgFind, ByClient
  <2> QED BY <1>7, <2>1, <2>2, <1>n, <1>t, <1>l, Finds, TryCounts
<1>8. CASE ReadList(c)
  <2>1. Try(TRUE) \/ Try(FALSE)
    BY <1>8, Zenon DEF ReadList, AnswerList, Then
  <2>2. UNCHANGED <<config, synced, caches, detached>>
    BY <1>8, Zenon DEF ReadList, ByClient
  <2> QED BY <1>8, <2>1, <2>2, <1>n, <1>t, <1>l, ReadsList, TryCounts
<1>9. CASE LoadSoftwareListFromS3(c)
  <2>1. Try(TRUE) \/ Try(FALSE)
    BY <1>9, Zenon DEF LoadSoftwareListFromS3, AnswerList, Then
  <2>2. UNCHANGED <<config, synced, caches>>
    BY <1>9, Zenon DEF LoadSoftwareListFromS3, ByClient
  <2>3. \A q \in Lists : [key |-> List, value |-> q] \in Write
    BY DEF Write
  <2>4. PICK k \in Request :
              /\ Moves(c, "done", k)
              /\ \/ \E q \in Lists : detached' = detached \cup {[key |-> List, value |-> q]}
                 \/ UNCHANGED detached
    BY <1>9, LoadsList
  <2>5. detached' \subseteq Write
    BY <2>3, <2>4, <1>t
  <2> QED BY <2>1, <2>2, <2>4, <2>5, <1>n, <1>t, <1>l, TryCounts
<1>10. CASE Done(c)
  <2>1. Moves(c, "idle", NewReq)
    BY <1>10 DEF Done, Moves
  <2> QED BY <1>10, <2>1, <1>t, <1>l, NewRequest DEF Done, ByClient
<1> QED BY <1>1, <1>2, <1>3, <1>4, <1>5, <1>6, <1>7, <1>8, <1>9, <1>10 DEF Serve

LEMMA TypesStep == ASSUME Types, Next PROVE Types'
<1>t. /\ pgEnabled \in BOOLEAN /\ scenario \in Scenarios
      /\ pgVersion \in [Id -> SUBSET AllTags] /\ pgRow \in [Id -> AllTags \cup {NoTag, NoRow}]
      /\ stored \subseteq Id /\ meta \in [Id -> SUBSET AllTags]
      /\ latest \in [Id -> AllTags \cup {NoTag}]
      /\ syncing \in [Id -> [at : Stage, tag : AllTags \cup {NoTag}]]
      /\ missing \in [Id -> SUBSET AllTags]
      /\ listKey \in Lists \cup {Nothing} /\ detailKey \in [Id -> Detail \cup {Nothing}]
      /\ detached \subseteq Write
      /\ pc \in [Client -> Label] /\ req \in [Client -> Request] /\ faults \in 0..MaxFaults
      /\ \A i \in Id : syncing[i].at # "idle" => syncing[i].tag \in AllTags
  BY DEF Types, TypeOK
<1> DEFINE Synced == /\ pgVersion \in [Id -> SUBSET AllTags]
                     /\ pgRow \in [Id -> AllTags \cup {NoTag, NoRow}]
                     /\ stored \subseteq Id /\ meta \in [Id -> SUBSET AllTags]
                     /\ latest \in [Id -> AllTags \cup {NoTag}]
                     /\ syncing \in [Id -> [at : Stage, tag : AllTags \cup {NoTag}]]
                     /\ missing \in [Id -> SUBSET AllTags]
                     /\ \A i \in Id : syncing[i].at # "idle" => syncing[i].tag \in AllTags
           Cached == /\ listKey \in Lists \cup {Nothing}
                     /\ detailKey \in [Id -> Detail \cup {Nothing}]
           Asking == pc \in [Client -> Label] /\ req \in [Client -> Request]
<1>q. ASSUME UNCHANGED config, Synced', Cached', detached' \subseteq Write, Asking',
             faults' \in 0..MaxFaults
      PROVE  Types'
  <2>1. pgEnabled' \in BOOLEAN /\ scenario' \in Scenarios
    BY <1>q, <1>t DEF config
  <2>2. TypeOK'
    BY <1>q, <2>1, Zenon DEF TypeOK
  <2> QED BY <1>q, <2>2, Zenon DEF Types
<1>s. ASSUME UNCHANGED synced PROVE Synced'
  BY <1>s, <1>t DEF synced
<1>1. ASSUME NEW c \in Client, Ask(c) \/ Serve(c) PROVE Types'
  <2>1. /\ UNCHANGED <<config, synced, caches>> /\ faults' \in 0..MaxFaults
        /\ detached' \subseteq Write
        /\ \E k \in Request, l \in Label : Moves(c, l, k)
    BY <1>1, <1>t, Asks, ServeKeeps, TryCounts DEF Types
  <2>2. Asking'
    BY <2>1, <1>t DEF Moves, Goto
  <2>3. Cached'
    BY <2>1, <1>t DEF caches
  <2> HIDE DEF Synced, Cached, Asking
  <2> QED BY <2>1, <2>2, <2>3, <1>s, <1>q
<1>2. ASSUME NEW i \in Id, SyncStep(i) PROVE Types'
  <2>0. syncing[i] \in [at : Stage, tag : AllTags \cup {NoTag}]
        /\ syncing[i].tag \in AllTags \cup {NoTag}
    BY <1>t
  <2>k. ASSUME NEW t \in AllTags, NEW ok \in BOOLEAN, Lost(i, t, ok)
        PROVE  missing' \in [Id -> SUBSET AllTags]
    BY <2>k, <1>t DEF Lost
  <2>m. ASSUME NEW t \in AllTags, NEW at \in Stage, Stands(i, at, t)
        PROVE  /\ syncing' \in [Id -> [at : Stage, tag : AllTags \cup {NoTag}]]
               /\ \A j \in Id : syncing'[j].at # "idle" => syncing'[j].tag \in AllTags
    <3>1. [at |-> at, tag |-> t] \in [at : Stage, tag : AllTags \cup {NoTag}]
      OBVIOUS
    <3>2. \A j \in Id : syncing'[j] = IF j = i THEN [at |-> at, tag |-> t] ELSE syncing[j]
      BY <2>m, <1>t DEF Stands
    <3>3. DOMAIN syncing' = Id /\ syncing' = [j \in Id |-> syncing'[j]]
      BY <2>m, <1>t DEF Stands
    <3> QED BY SMTT(30), <3>1, <3>2, <3>3, <1>t
  <2>n. {"upload", "meta", "latest", "row", "idle"} = Stage
    BY DEF Stage
  <2>1. CASE UpsertVersion(i)
    <3> DEFINE t == syncing[i].tag + 1
    <3>1. t \in AllTags
      BY <2>0 DEF AllTags, NoTag
    <3>2. PICK ok \in BOOLEAN :
              /\ Try(ok) /\ Lost(i, t, ok) /\ Stands(i, "upload", t)
              /\ pgVersion' = IF ok /\ pgEnabled
                              THEN [pgVersion EXCEPT ![i] = @ \cup {t}] ELSE pgVersion
      BY <2>1, Zenon DEF UpsertVersion
    <3> HIDE DEF t
    <3>3. pgVersion' \in [Id -> SUBSET AllTags]
      BY <3>1, <3>2, <1>t
    <3>4. Synced'
      BY <2>1, <3>1, <3>2, <3>3, <2>k, <2>m, <2>n, <1>t DEF UpsertVersion
    <3> HIDE DEF Synced
    <3> QED BY <2>1, <3>2, <3>4, <1>t, <1>q, TryCounts DEF UpsertVersion, BySync, caches
  <2>2. CASE Upload(i) \/ SaveVersionMeta(i)
    <3>1. syncing[i].tag \in AllTags
      BY <2>2, <1>t DEF Upload, SaveVersionMeta
    <3>2. PICK ok \in BOOLEAN, at \in Stage :
              Try(ok) /\ Lost(i, syncing[i].tag, ok) /\ Stands(i, at, syncing[i].tag)
      BY <2>2, <2>n DEF Upload, SaveVersionMeta
    <3>3. stored' \subseteq Id /\ meta' \in [Id -> SUBSET AllTags]
      BY <2>2, <3>1, <1>t DEF Upload, SaveVersionMeta
    <3>4. UNCHANGED <<pgVersion, pgRow, latest>>
      BY <2>2 DEF Upload, SaveVersionMeta
    <3>5. Synced'
      BY <3>1, <3>2, <3>3, <3>4, <2>k, <2>m, <1>t
    <3> HIDE DEF Synced
    <3> QED BY <2>2, <3>2, <3>5, <1>t, <1>q, TryCounts DEF Upload, SaveVersionMeta, BySync, caches
  <2>3. CASE SetLatest(i) \/ UpsertSoftware(i)
    <3>1. syncing[i].tag \in AllTags
      BY <2>3, <1>t DEF SetLatest, UpsertSoftware
    <3>2. PICK ok \in BOOLEAN, at \in Stage : Try(ok) /\ Stands(i, at, syncing[i].tag)
      BY <2>3, <2>n DEF SetLatest, UpsertSoftware
    <3>3. latest' \in [Id -> AllTags \cup {NoTag}] /\ pgRow' \in [Id -> AllTags \cup {NoTag, NoRow}]
      BY <2>3, <3>1, <1>t DEF SetLatest, UpsertSoftware
    <3>4. UNCHANGED <<pgVersion, stored, meta, missing>>
      BY <2>3 DEF SetLatest, UpsertSoftware
    <3>5. Synced'
      BY <3>1, <3>2, <3>3, <3>4, <2>m, <1>t
    <3> HIDE DEF Synced
    <3> QED BY <2>3, <3>2, <3>5, <1>t, <1>q, TryCounts DEF SetLatest, UpsertSoftware, BySync, caches
  <2>4. CASE Purge(i) \/ ExpireMeta(i)
    <3>1. PICK t \in pgVersion[i] \cup meta[i] : Lost(i, t, FALSE)
      BY <2>4 DEF Purge, ExpireMeta
    <3>2. t \in AllTags
      BY <1>t
    <3>3. missing' \in [Id -> SUBSET AllTags]
      BY <3>1, <3>2, <2>k
    <3>4. pgVersion' \in [Id -> SUBSET AllTags] /\ meta' \in [Id -> SUBSET AllTags]
      <4>1. \A u : pgVersion[i] \ {u} \in SUBSET AllTags /\ meta[i] \ {u} \in SUBSET AllTags
        BY <1>t
      <4>2. \E u : /\ pgVersion' = [pgVersion EXCEPT ![i] = pgVersion[i] \ {u}] \/ UNCHANGED pgVersion
                   /\ meta' = [meta EXCEPT ![i] = meta[i] \ {u}]
        BY <2>4, Zenon DEF Purge, ExpireMeta
      <4> QED BY <4>1, <4>2, <1>t
    <3>5. UNCHANGED <<pgRow, stored, latest, syncing>>
      BY <2>4 DEF Purge, ExpireMeta
    <3>6. Synced'
      BY <3>3, <3>4, <3>5, <1>t
    <3> HIDE DEF Synced
    <3> QED BY <2>4, <3>6, <1>t, <1>q DEF Purge, ExpireMeta, BySync, caches
  <2> QED BY <1>2, <2>1, <2>2, <2>3, <2>4 DEF SyncStep
<1>3. ASSUME NEW w \in detached, WriteBack(w) PROVE Types'
  <2>1. w \in [key : {List}, value : Lists] \cup [key : Id, value : Detail]
    BY <1>t DEF Write
  <2>2. List \notin Id
    BY QueryAssumption DEF List
  <2>3. Cached'
    <3>1. CASE w.key = List
      <4>1. w.value \in Lists
        BY <2>1, <2>2, <3>1
      <4> QED BY <1>3, <3>1, <4>1, <1>t DEF WriteBack
    <3>2. CASE w.key # List
      <4>1. w.key \in Id /\ w.value \in Detail
        BY <2>1, <3>2
      <4> QED BY <1>3, <3>2, <4>1, <1>t DEF WriteBack
    <3> QED BY <3>1, <3>2
  <2>4. detached' \subseteq Write
    BY <1>3, <1>t DEF WriteBack
  <2> HIDE DEF Synced, Cached
  <2> QED BY <1>3, <2>3, <2>4, <1>s, <1>t, <1>q DEF WriteBack
<1>4. CASE Expire
  <2>1. Cached'
    BY <1>4, <1>t DEF Expire, ExpireList, ExpireDetail
  <2>2. UNCHANGED <<config, synced, detached, pc, req, faults>>
    BY <1>4 DEF Expire, ExpireList, ExpireDetail
  <2> HIDE DEF Synced, Cached
  <2> QED BY <2>1, <2>2, <1>s, <1>t, <1>q
<1>5. ASSUME NEW c \in Client, SlicePanics(c) PROVE Types'
  <2>1. /\ pc' = [d \in Client |-> "idle"] /\ req' = [d \in Client |-> NewReq] /\ detached' = {}
        /\ UNCHANGED <<config, synced, caches, faults>>
    BY <1>5, Zenon DEF SlicePanics, ByClient
  <2>2. /\ pc' \in [Client -> Label] /\ req' \in [Client -> Request]
        /\ detached' \subseteq Write
    BY <2>1, NewRequest DEF Label
  <2>3. faults' \in 0..MaxFaults
    BY <2>1, <1>t
  <2>4. Cached'
    BY <2>1, <1>t DEF caches
  <2> HIDE DEF Synced, Cached
  <2> QED BY <2>1, <2>2, <2>3, <2>4, <1>s, <1>q
<1> QED BY <1>1, <1>2, <1>3, <1>4, <1>5 DEF Next

LEMMA TypesHold == Spec => []Types
<1>1. Init => Types
  <2> SUFFICES ASSUME Init PROVE Types
    OBVIOUS
  <2>1. NoTag \in AllTags \cup {NoTag, NoRow} /\ "idle" \in Label /\ faults \in 0..MaxFaults
    BY QueryAssumption DEF Init, Label
  <2>2. [at |-> "idle", tag |-> NoTag] \in [at : Stage, tag : AllTags \cup {NoTag}]
    BY DEF Stage
  <2>3. syncing \in [Id -> [at : Stage, tag : AllTags \cup {NoTag}]]
        /\ \A i \in Id : syncing[i].at # "idle" => syncing[i].tag \in AllTags
    BY <2>2 DEF Init
  <2>4. pc \in [Client -> Label] /\ req \in [Client -> Request]
    BY <2>1, NewRequest DEF Init
  <2> QED BY <2>1, <2>3, <2>4 DEF Init, Types, TypeOK
<1>2. Types /\ [Next]_vars => Types'
  <2>1. ASSUME Types, UNCHANGED vars PROVE Types'
    BY <2>1 DEF Types, TypeOK, vars, config, synced, caches
  <2> QED BY <2>1, TypesStep
<1> QED BY <1>1, <1>2, PTL DEF Spec

\* Every variable of SoftwareQuery has its shape in every state.
THEOREM TypeCorrect == Spec => []TypeOK
<1>1. Types => TypeOK
  BY DEF Types
<1> QED BY TypesHold, <1>1, PTL

-----------------------------------------------------------------------------
(* The synchroniser.                                                        *)

\* What was recorded stays so, or is missing; a row is never deleted.
Grows == /\ UNCHANGED pgEnabled
         /\ \A i \in Id : /\ pgVersion[i] \cup missing[i] \subseteq pgVersion'[i] \cup missing'[i]
                          /\ meta[i] \cup missing[i] \subseteq meta'[i] \cup missing'[i]
                          /\ missing[i] \subseteq missing'[i]
                          /\ pgRow[i] # NoRow => pgRow'[i] # NoRow

LEMMA SyncStepInv ==
    ASSUME Types, SyncInv, NEW i \in Id, SyncStep(i)
    PROVE  SyncInv' /\ Grows /\ UNCHANGED <<caches, detached, pc, req>>
<1>t. /\ pgVersion \in [Id -> SUBSET AllTags] /\ pgRow \in [Id -> AllTags \cup {NoTag, NoRow}]
      /\ meta \in [Id -> SUBSET AllTags] /\ latest \in [Id -> AllTags \cup {NoTag}]
      /\ syncing \in [Id -> [at : Stage, tag : AllTags \cup {NoTag}]]
      /\ missing \in [Id -> SUBSET AllTags]
      /\ \A j \in Id : syncing[j].at # "idle" => syncing[j].tag \in AllTags
  BY DEF Types, TypeOK
<1>g. UNCHANGED <<config, caches, detached, pc, req>>
  BY DEF SyncStep, UpsertVersion, Upload, SaveVersionMeta, SetLatest, UpsertSoftware, Purge,
         ExpireMeta, BySync
<1>n. NoRow \notin AllTags /\ "idle" # "row"
  BY DEF NoRow, AllTags
<1>k. ASSUME NEW t, NEW ok \in BOOLEAN, Lost(i, t, ok)
      PROVE  /\ \A j \in Id : missing[j] \subseteq missing'[j]
             /\ ~ok => t \in missing'[i]
  BY <1>k, <1>t DEF Lost
<1>m. ASSUME NEW at, NEW t, Stands(i, at, t)
      PROVE  /\ \A j \in Id \ {i} : syncing'[j] = syncing[j]
             /\ syncing'[i].at = at /\ syncing'[i].tag = t
  BY <1>m, <1>t DEF Stands
<1>1. CASE UpsertVersion(i)
  <2> DEFINE t == syncing[i].tag + 1
  <2>1. PICK ok \in BOOLEAN :
          /\ Lost(i, t, ok) /\ Stands(i, "upload", t)
          /\ pgVersion' = IF ok /\ pgEnabled
                          THEN [pgVersion EXCEPT ![i] = @ \cup {t}] ELSE pgVersion
    BY <1>1, Zenon DEF UpsertVersion
  <2>2. UNCHANGED <<pgRow, meta, latest, pgEnabled>>
    BY <1>1, <1>g DEF UpsertVersion, config
  <2> HIDE DEF t
  <2>3. /\ \A j \in Id : pgVersion[j] \subseteq pgVersion'[j]
        /\ pgEnabled => t \in pgVersion'[i] \cup missing'[i]
    BY <2>1, <1>k, <1>t
  <2> QED BY <2>1, <2>2, <2>3, <1>g, <1>k, <1>m DEF SyncInv, Grows
<1>2. CASE Upload(i) \/ SaveVersionMeta(i)
  <2>1. PICK ok \in BOOLEAN, at \in {"meta", "idle", "latest"} :
          /\ Lost(i, syncing[i].tag, ok) /\ Stands(i, at, syncing[i].tag)
          /\ at = "latest" => syncing[i].tag \in meta'[i] \/ ~ok
    BY <1>2, <1>t DEF Upload, SaveVersionMeta
  <2>2. UNCHANGED <<pgVersion, pgRow, latest, pgEnabled>> /\ syncing[i].at # "idle"
    BY <1>2, <1>g DEF Upload, SaveVersionMeta, config
  <2>3. \A j \in Id : meta[j] \subseteq meta'[j]
    BY <1>2, <1>t DEF Upload, SaveVersionMeta
  <2> QED BY <2>1, <2>2, <2>3, <1>g, <1>k, <1>m DEF SyncInv, Grows
<1>3. CASE SetLatest(i) \/ UpsertSoftware(i)
  <2>1. PICK at \in {"row", "idle"} : Stands(i, at, syncing[i].tag) /\ (at = "row" => pgEnabled)
    BY <1>3 DEF SetLatest, UpsertSoftware
  <2>2. UNCHANGED <<pgVersion, meta, missing, pgEnabled>>
    BY <1>3, <1>g DEF SetLatest, UpsertSoftware, config
  <2>3. syncing[i].tag \in AllTags /\ syncing[i].at # "idle"
    BY <1>3, <1>t DEF SetLatest, UpsertSoftware
  <2>4. /\ \A j \in Id : \/ latest'[j] = latest[j]
                         \/ j = i /\ syncing[i].at = "latest" /\ latest'[j] = syncing[i].tag
        /\ \A j \in Id : \/ pgRow'[j] = pgRow[j]
                         \/ j = i /\ syncing[i].at = "row" /\ pgRow'[j] = syncing[i].tag
    BY <1>3, <1>t DEF SetLatest, UpsertSoftware
  <2> QED BY <2>1, <2>2, <2>3, <2>4, <1>g, <1>m, <1>n DEF SyncInv, Grows
<1>4. CASE Purge(i) \/ ExpireMeta(i)
  <2>1. PICK t : /\ Lost(i, t, FALSE)
                 /\ pgVersion' = [pgVersion EXCEPT ![i] = pgVersion[i] \ {t}] \/ UNCHANGED pgVersion
                 /\ meta' = [meta EXCEPT ![i] = meta[i] \ {t}]
    BY <1>4, Zenon DEF Purge, ExpireMeta
  <2>2. UNCHANGED <<pgRow, latest, syncing, pgEnabled>>
    BY <1>4, <1>g DEF Purge, ExpireMeta, config
  <2>3. t \in missing'[i] /\ \A j \in Id : missing[j] \subseteq missing'[j]
    BY <2>1, <1>k
  <2>4. \A j \in Id : /\ pgVersion[j] \subseteq pgVersion'[j] \cup missing'[j]
                      /\ meta[j] \subseteq meta'[j] \cup missing'[j]
    BY <2>1, <2>3, <1>t
  <2>5. Grows
    BY <2>2, <2>3, <2>4 DEF Grows
  <2>6. SyncInv'
    BY <2>2, <2>5 DEF SyncInv, Grows
  <2> QED BY <2>5, <2>6, <1>g
<1> QED BY <1>1, <1>2, <1>3, <1>4 DEF SyncStep

LEMMA GrowsKeeps ==
    ASSUME Types, Grows, UNCHANGED <<caches, detached, pc, req>>, CachedRight,
           \A c \in Client : Right(pc[c], req[c])
    PROVE  CachedRight' /\ (\A c \in Client : Right(pc[c], req[c]))'
<1>1. \A i \in Id : \A d : Consistent(i, d) => Consistent(i, d)'
  BY DEF Grows, Consistent
<1>2. \A w \in detached : w.key # List => w.key \in Id
  BY DEF Types, TypeOK, Write
<1>3. CachedRight'
  BY <1>1, <1>2 DEF CachedRight, Consistent, caches, Grows
<1>4. Cardinality(Rows) <= Cardinality(Rows') /\ Cardinality(Rows) \in Nat /\ Cardinality(Rows') \in Nat
  <2>1. Rows \subseteq Rows' /\ Rows' \subseteq Id
    BY DEF Rows, Grows
  <2>2. IsFiniteSet(Rows')
    BY <2>1, QueryAssumption, FS_Subset
  <2> QED BY <2>1, <2>2, RowsCounted, FS_Subset, FS_CardinalityType
<1>5. ASSUME NEW c \in Client PROVE Right(pc[c], req[c])'
  <2>1. pc'[c] = pc[c] /\ req'[c] = req[c] /\ req[c] \in Request /\ req[c].id \in Id
        /\ req[c].total \in Nat
    BY DEF Types, TypeOK, Request
  <2>2. Right(pc[c], req[c])
    OBVIOUS
  <2>3. Ordered(pc[c], req[c])'
    BY <2>1, <2>2 DEF Right, Ordered
  <2>4. Listing(pc[c], req[c])'
    BY <2>1, <2>2 DEF Right, Listing, Consistent, Grows
  <2>5. Complete(pc[c], req[c])'
    BY <2>1, <2>2 DEF Right, Complete, Grows
  <2>6. Full(pc[c], req[c])'
    <3>1. Full(pc[c], req[c])
      BY <2>2 DEF Right
    <3>2. Whole(req[c])' <=> Whole(req[c])
      BY <2>1 DEF Whole
    <3> QED BY <2>1, <3>1, <3>2, <1>4 DEF Full
  <2> QED BY <2>3, <2>4, <2>5, <2>6 DEF Right
<1> QED BY <1>3, <1>5

-----------------------------------------------------------------------------
(* The requests.                                                            *)

\* A request that moves on alone leaves the others as right as they were.
LEMMA Settles ==
    ASSUME Types, \A d \in Client : Right(pc[d], req[d]), UNCHANGED <<config, synced>>,
           NEW c \in Client, NEW l, NEW k, Moves(c, l, k), Right(l, k)
    PROVE  (\A d \in Client : Right(pc[d], req[d]))'
<1>1. /\ pc'[c] = l /\ req'[c] = k
      /\ \A d \in Client \ {c} : pc'[d] = pc[d] /\ req'[d] = req[d]
  BY DEF Moves, Goto, Types, TypeOK
<1>2. \A d \in Client : Right(pc'[d], req'[d])
  BY <1>1
<1>3. UNCHANGED <<pgEnabled, pgVersion, pgRow, meta, missing>>
  BY DEF config, synced
<1>4. Rows' = Rows
  BY <1>3 DEF Rows
<1>5. ASSUME NEW d \in Client PROVE Right(pc[d], req[d])'
  <2>1. Right(pc'[d], req'[d])
    BY <1>2
  <2> QED BY <2>1, <1>3, <1>4 DEF Right, Ordered, Listing, Consistent, Complete, Full, Whole
<1> QED BY <1>5

LEMMA AsksRight ==
    ASSUME Types, NEW c \in Client, Ask(c)
    PROVE  \E k, l : Moves(c, l, k) /\ Right(l, k)
<1>1. PICK k \in Request, l \in Label : Moves(c, l, k) /\ Begins(l, k)
  BY Asks DEF Types
<1>2. ASSUME k.detail = Blank \/ \E t \in AllTags : k.detail = Only(t)
      PROVE  Consistent(k.id, k.detail)
  <2>1. Blank.latest = NoTag /\ \A t : Only(t).latest = t /\ Only(t).versions = {t}
    BY DEF Blank, Only
  <2>2. CASE k.detail = Blank
    BY <2>1, <2>2 DEF Consistent
  <2>3. CASE \E t \in AllTags : k.detail = Only(t)
    BY <2>1, <2>3 DEF Consistent
  <2> QED BY <1>2, <2>2, <2>3
<1>3. CASE /\ l = (IF pgEnabled THEN "row" ELSE "detail") /\ k.op = "detail" /\ k.detail = Blank
           /\ k.had = pgVersion[k.id] /\ k.known = (pgRow[k.id] # NoRow)
  <2>1. l = "row" \/ (l = "detail" /\ ~pgEnabled)
    BY <1>3, Zenon
  <2>2. k.known => pgRow[k.id] # NoRow
    BY <1>3, Zenon
  <2> QED BY <1>1, <1>2, <1>3, <2>1, <2>2 DEF Right, Ordered, Listing, Complete, Full
<1>4. CASE l \in {"count", "list"} /\ k.op = "list" /\ k.detail = Blank
  BY <1>1, <1>2, <1>4 DEF Right, Ordered, Listing, Complete, Full
<1>5. CASE /\ l = "done" /\ k.op \in {"version", "url", "stats"}
           /\ k.detail = Blank \/ \E t \in AllTags : k.detail = Only(t)
  BY <1>1, <1>2, <1>5 DEF Right, Ordered, Listing, Complete, Full
<1> QED BY <1>1, <1>3, <1>4, <1>5 DEF Begins

\* A detail that is answered is consistent, and so is what the goroutine will store.
LEMMA AnswersRight ==
    ASSUME Types, Inv, NEW c \in Client, PgListVersions(c) \/ ListVersions(c)
    PROVE  /\ \E k, l : Moves(c, l, k) /\ Right(l, k)
           /\ \E d : /\ Consistent(req[c].id, d) /\ req[c].id \in Id
                     /\ detached' = detached \cup {[key |-> req[c].id, value |-> d]}
<1>t. /\ req[c] \in Request /\ pgVersion \in [Id -> SUBSET AllTags]
      /\ meta \in [Id -> SUBSET AllTags]
  BY DEF Types, TypeOK
<1>d. req[c].id \in Id /\ pgVersion[req[c].id] \in SUBSET AllTags
  BY <1>t DEF Request
<1>r. Right(pc[c], req[c])
  BY DEF Inv
<1>1. PICK ok \in BOOLEAN, vs \in SUBSET AllTags :
          /\ AnswerDetail(c, ok, vs)
          /\ \/ pc[c] = "versions" /\ (ok => vs = pgVersion[req[c].id])
             \/ pc[c] = "keys" /\ (ok => vs = meta[req[c].id])
  BY <1>t, <1>d DEF PgListVersions, ListVersions
<1>2. PICK k \in Request :
          /\ Moves(c, "done", k) /\ About(k, req[c]) /\ (k.clean => ok)
          /\ k.detail.latest = req[c].detail.latest /\ k.detail.versions = vs
          /\ k.detail.whole => req[c].detail.whole /\ ok
          /\ detached' = detached \cup {[key |-> req[c].id, value |-> k.detail]}
  BY <1>1, AnswersDetail DEF Types
<1>3. Consistent(req[c].id, k.detail)
  BY <1>1, <1>2, <1>r DEF Right, Listing, Consistent
<1>4. k.op = "detail" /\ k.id = req[c].id
  BY <1>1, <1>2, <1>r DEF Right, Ordered, About
<1>5. Complete("done", k)
  <2> SUFFICES ASSUME pgEnabled, k.known, k.clean
               PROVE  /\ k.had \subseteq pgVersion[k.id] \cup missing[k.id]
                      /\ k.had \subseteq k.detail.versions \cup missing[k.id]
    BY DEF Complete
  <2>1. req[c].known /\ req[c].clean /\ k.had = req[c].had /\ req[c].op = "detail"
    BY <1>2, <1>4 DEF About
  <2>2. pc[c] = "versions" /\ req[c].had \subseteq pgVersion[k.id] \cup missing[k.id]
    BY <1>1, <1>4, <1>r, <2>1 DEF Right, Complete
  <2> QED BY <1>1, <1>2, <1>4, <2>1, <2>2
<1>6. Right("done", k)
  BY <1>3, <1>4, <1>5 DEF Right, Ordered, Listing, Full
<1> QED BY <1>2, <1>3, <1>6, <1>d

LEMMA ServesRight ==
    ASSUME Types, Inv, NEW c \in Client, Serve(c), ~PgListVersions(c), ~ListVersions(c)
    PROVE  /\ \E k, l : Moves(c, l, k) /\ Right(l, k)
           /\ \A w \in detached' \ detached : w.key = List
<1>t. /\ req \in [Client -> Request] /\ req[c] \in Request /\ TypeOK
      /\ pgEnabled \in BOOLEAN
  BY DEF Types, TypeOK
<1>d. req[c].id \in Id /\ req[c].page \in Int /\ req[c].size \in Int /\ req[c].total \in Nat
  BY <1>t DEF Request
<1>r. Right(pc[c], req[c]) /\ SyncInv /\ CachedRight
  BY DEF Inv
<1>1. ASSUME PgGetSoftware(c) PROVE \E k, l : Moves(c, l, k) /\ Right(l, k)
  <2>1. PICK k \in Request, l \in {"versions", "detail"} :
              /\ Moves(c, l, k) /\ About(k, req[c])
              /\ l = "versions" => /\ pgRow[k.id] # NoRow
                                   /\ k.detail.latest = pgRow[k.id]
              /\ l = "detail" => /\ k.detail = req[c].detail
                                 /\ k.clean => pgRow[k.id] = NoRow
    BY <1>t, <1>1, Gets
  <2>2. pc[c] = "row" /\ k.id = req[c].id /\ k.op = "detail"
    BY <1>1, <1>r, <2>1 DEF PgGetSoftware, About, Right, Ordered
  <2>3. Listing(l, k)
    BY <1>d, <1>r, <2>1, <2>2 DEF Right, Listing, SyncInv, Consistent
  <2>4. Complete(l, k)
    BY <1>r, <2>1, <2>2 DEF Right, Complete, About
  <2> QED BY <2>1, <2>2, <2>3, <2>4 DEF Right, Ordered, Full
<1>2. ASSUME ReadDetail(c) PROVE \E k, l : Moves(c, l, k) /\ Right(l, k)
  <2>1. PICK k \in Request, l \in {"done", "latest"} :
              /\ Moves(c, l, k) /\ About(k, req[c])
              /\ l = "done" => k.detail = detailKey[k.id] /\ detailKey[k.id] # Nothing
              /\ l = "latest" => k.detail = req[c].detail
    BY <1>t, <1>2, Reads
  <2>2. pc[c] = "detail" /\ k.id = req[c].id /\ k.op = "detail"
    BY <1>2, <1>r, <2>1 DEF ReadDetail, About, Right, Ordered
  <2>3. Listing(l, k)
    BY <1>d, <1>r, <2>1, <2>2 DEF Right, Listing, CachedRight
  <2>4. Complete(l, k)
    BY <1>r, <2>1, <2>2 DEF Right, Complete, About
  <2> QED BY <2>1, <2>2, <2>3, <2>4 DEF Right, Ordered, Full
<1>3. ASSUME LoadSoftwareFromS3(c) PROVE \E k, l : Moves(c, l, k) /\ Right(l, k)
  <2>1. PICK k \in Request :
              /\ Moves(c, "keys", k) /\ About(k, req[c])
              /\ k.detail.whole => k.detail.latest = latest[k.id]
    BY <1>t, <1>3, Loads
  <2>2. pc[c] = "latest" /\ k.id = req[c].id /\ k.op = "detail"
    BY <1>3, <1>r, <2>1 DEF LoadSoftwareFromS3, About, Right, Ordered
  <2>3. Listing("keys", k)
    BY <1>d, <1>r, <2>1, <2>2 DEF Listing, SyncInv
  <2>4. Complete("keys", k)
    BY <1>r, <2>1, <2>2 DEF Right, Complete, About
  <2> QED BY <2>1, <2>2, <2>3, <2>4 DEF Right, Ordered, Full
\* What the calls of ListSoftware leave as it was.
<1>4. ASSUME NEW k \in Request, Alike(k, req[c]), pc[c] \in {"count", "find", "list", "objects"},
             NEW l, l \notin {"row", "versions", "detail", "latest", "keys"}
      PROVE  k.op = "list" /\ Ordered(l, k) /\ Listing(l, k) /\ Complete(l, k)
  BY <1>4, <1>r DEF Right, Ordered, Listing, Complete, Consistent, Alike, About
<1>5. ASSUME NEW k \in Request, NEW q \in Seq(Id), NEW n \in Nat, Paged(k, q, n), n <= Len(q),
             Len(q) <= IntSize
      PROVE  Whole(k)
  <2> DEFINE before == (Page(k.page) - 1) * Size(k.size)
  <2>1. k.page \in Int /\ k.size \in Int
    BY DEF Request
  <2>2. before \in Int /\ Size(k.size) \in Int
    BY <2>1, QueryAssumption DEF Page, Size
  <2>3. /\ Len(k.items) >= Least(Size(k.size), Len(q) - before) /\ k.total = n
        /\ Len(k.items) \in Nat
    BY <1>5, <2>1, Paging DEF Paged
  <2> HIDE DEF before
  <2>4. Len(k.items) >= Least(Size(k.size), k.total - before)
    BY <1>5, <2>2, <2>3 DEF Least
  <2> QED BY <2>4 DEF Whole, before
<1>6. ASSUME PgCount(c) PROVE \E k, l : Moves(c, l, k) /\ Right(l, k)
  <2>1. PICK k \in Request, l \in {"find", "list"} :
              /\ Moves(c, l, k) /\ Alike(k, req[c])
              /\ l = "find" => k.total = Cardinality(Rows)
    BY <1>t, <1>6, Counts
  <2>2. Full(l, k)
    BY <2>1, RowsCounted DEF Full
  <2> QED BY <1>4, <1>6, <2>1, <2>2 DEF PgCount, Right
<1>7. ASSUME PgFind(c) PROVE \E k, l : Moves(c, l, k) /\ Right(l, k)
  <2>1. PICK k \in Request, l \in {"done", "list"} :
              /\ Moves(c, l, k) /\ Alike(k, req[c])
              /\ l = "done" => \E q \in Orders(Rows) : Paged(k, q, req[c].total)
    BY <1>t, <1>7, Finds
  <2>2. pc[c] = "find" /\ req[c].total <= Cardinality(Rows)
    BY <1>7, <1>r DEF PgFind, Right, Ordered, Full
  <2>3. Full(l, k)
    <3>1. ASSUME l = "done" PROVE Whole(k)
      <4>1. PICK q \in Orders(Rows) : Paged(k, q, req[c].total)
        BY <2>1, <3>1
      <4>2. q \in Seq(Id) /\ Len(q) = Cardinality(Rows) /\ Len(q) <= IntSize
        BY RowsCounted, Orderings
      <4> QED BY <1>5, <1>d, <2>2, <4>1, <4>2
    <3> QED BY <2>1, <3>1 DEF Full
  <2> QED BY <1>4, <2>1, <2>2, <2>3 DEF Right
<1>8. ASSUME NEW k \in Request, \E q \in Lists : Paged(k, q, Len(q)) PROVE Whole(k)
  <2>1. PICK q \in Lists : Paged(k, q, Len(q))
    BY <1>8
  <2>2. q \in Seq(Id) /\ Len(q) \in Nat /\ Len(q) <= Len(q) /\ Len(q) <= IntSize
    BY ListsAreSeqs
  <2> QED BY <1>5, <2>1, <2>2
<1>9. ASSUME ReadList(c) PROVE \E k, l : Moves(c, l, k) /\ Right(l, k)
  <2>1. PICK k \in Request, l \in {"done", "objects"} :
              /\ Moves(c, l, k) /\ Alike(k, req[c])
              /\ l = "done" => \E q \in Lists : Paged(k, q, Len(q))
    BY <1>t, <1>9, ReadsList
  <2>2. Full(l, k)
    BY <1>8, <2>1 DEF Full
  <2> QED BY <1>4, <1>9, <2>1, <2>2 DEF ReadList, Right
<1>10. ASSUME LoadSoftwareListFromS3(c)
       PROVE  /\ \E k, l : Moves(c, l, k) /\ Right(l, k)
              /\ \A w \in detached' \ detached : w.key = List
  <2>1. PICK k \in Request :
              /\ Moves(c, "done", k) /\ Alike(k, req[c])
              /\ \/ /\ \E q \in Lists : /\ Paged(k, q, Len(q))
                                        /\ detached' = detached \cup {[key |-> List, value |-> q]}
                 \/ k.status = "error" /\ UNCHANGED detached
    BY <1>t, <1>10, LoadsList
  <2>2. Full("done", k)
    BY <1>8, <2>1 DEF Full
  <2>3. Right("done", k)
    BY <1>4, <1>10, <2>1, <2>2 DEF LoadSoftwareListFromS3, Right
  <2> QED BY <2>1, <2>3
<1>11. ASSUME Done(c) PROVE \E k, l : Moves(c, l, k) /\ Right(l, k)
  <2>1. /\ NewReq.detail.latest = NoTag /\ NewReq.op = "detail" /\ ~NewReq.known
    BY DEF NewReq, Blank
  <2>2. Right("idle", NewReq)
    BY <2>1 DEF Right, Ordered, Listing, Consistent, Complete, Full
  <2> QED BY <1>11, <2>2 DEF Done, Moves
<1>12. LoadSoftwareListFromS3(c) \/ UNCHANGED detached
  BY DEF Serve, PgGetSoftware, ReadDetail, LoadSoftwareFromS3, PgCount, PgFind, ReadList, Done
<1> QED BY <1>1, <1>2, <1>3, <1>6, <1>7, <1>9, <1>10, <1>11, <1>12 DEF Serve

LEMMA ClientInv ==
    ASSUME Types, Inv, NEW c \in Client, Ask(c) \/ Serve(c)
    PROVE  Inv'
<1>t. /\ \A d \in Client : Right(pc[d], req[d])
      /\ SyncInv /\ CachedRight /\ TypeOK
  BY DEF Inv, Types
<1>1. UNCHANGED <<config, synced, caches>>
  BY <1>t, Asks, ServeKeeps
<1>2. /\ \E k, l : Moves(c, l, k) /\ Right(l, k)
      /\ \A w \in detached' \ detached : w.key # List => Consistent(w.key, w.value)
  <2>1. CASE Ask(c)
    <3>1. UNCHANGED detached
      BY <1>t, <2>1, Asks
    <3> QED BY <2>1, <3>1, AsksRight
  <2>2. CASE PgListVersions(c) \/ ListVersions(c)
    <3>1. PICK d : /\ Consistent(req[c].id, d)
                   /\ detached' = detached \cup {[key |-> req[c].id, value |-> d]}
      BY <2>2, AnswersRight
    <3> QED BY <2>2, <3>1, AnswersRight
  <2>3. CASE Serve(c) /\ ~PgListVersions(c) /\ ~ListVersions(c)
    BY <2>3, ServesRight
  <2> QED BY <2>1, <2>2, <2>3
<1>3. (\A d \in Client : Right(pc[d], req[d]))'
  <2>1. PICK k, l : Moves(c, l, k) /\ Right(l, k)
    BY <1>2
  <2> QED BY <1>t, <1>1, <2>1, Settles
<1>4. SyncInv'
  BY <1>1, <1>t DEF SyncInv, synced, config
<1>5. CachedRight'
  <2>1. UNCHANGED <<missing, detailKey>>
    BY <1>1 DEF synced, caches
  <2>2. \A w \in detached' : w.key # List => Consistent(w.key, w.value)
    BY <1>t, <1>2 DEF CachedRight
  <2> QED BY <1>t, <2>1, <2>2 DEF CachedRight, Consistent
<1> QED BY <1>3, <1>4, <1>5 DEF Inv

-----------------------------------------------------------------------------
(* The cache.                                                               *)

LEMMA CacheInv ==
    ASSUME Types, Inv, Expire \/ \E w \in detached : WriteBack(w)
    PROVE  Inv'
<1>t. detailKey \in [Id -> Detail \cup {Nothing}] /\ detached \subseteq Write
  BY DEF Types, TypeOK
<1>1. UNCHANGED <<config, synced, pc, req>>
  BY DEF Expire, ExpireList, ExpireDetail, WriteBack
<1>2. /\ detached' \subseteq detached
      /\ \A i \in Id : \/ detailKey'[i] \in {detailKey[i], Nothing}
                       \/ \E w \in detached : w.key = i /\ w.key # List /\ detailKey'[i] = w.value
  <2>1. CASE Expire
    BY <2>1, <1>t DEF Expire, ExpireList, ExpireDetail
  <2>2. ASSUME NEW w \in detached, WriteBack(w)
        PROVE  /\ detached' \subseteq detached
               /\ \A i \in Id : \/ detailKey'[i] = detailKey[i]
                                \/ w.key = i /\ w.key # List /\ detailKey'[i] = w.value
    BY <2>2, <1>t DEF WriteBack
  <2> QED BY <2>1, <2>2
<1>3. UNCHANGED <<pgEnabled, pgVersion, pgRow, meta, latest, syncing, missing>>
  BY <1>1 DEF config, synced
<1>4. CachedRight'
  BY <1>2, <1>3 DEF Inv, CachedRight, Consistent
<1>5. SyncInv'
  BY <1>3 DEF Inv, SyncInv
<1>6. (\A d \in Client : Right(pc[d], req[d]))'
  <2>1. Rows' = Rows
    BY <1>3 DEF Rows
  <2>2. ASSUME NEW d \in Client PROVE Right(pc[d], req[d])'
    <3>1. Right(pc[d], req[d])
      BY DEF Inv
    <3> QED BY <1>1, <1>3, <2>1, <3>1 DEF Right, Ordered, Listing, Consistent, Complete, Full, Whole
  <2> QED BY <2>2
<1> QED BY <1>4, <1>5, <1>6 DEF Inv

-----------------------------------------------------------------------------
(* The theorems.                                                            *)

LEMMA InvInit == Init => Inv
<1> SUFFICES ASSUME Init PROVE Inv
  OBVIOUS
<1>1. SyncInv
  BY DEF Init, SyncInv
<1>2. CachedRight
  BY DEF Init, CachedRight
<1>3. ASSUME NEW c \in Client PROVE Right(pc[c], req[c])
  <2>1. pc[c] = "idle" /\ req[c] = NewReq
    BY DEF Init
  <2>2. NewReq.detail.latest = NoTag /\ NewReq.op = "detail" /\ ~NewReq.known
    BY DEF NewReq, Blank
  <2> QED BY <2>1, <2>2 DEF Right, Ordered, Listing, Consistent, Complete, Full
<1> QED BY <1>1, <1>2, <1>3 DEF Inv

LEMMA InvStep == ASSUME Types, Inv, [Next]_vars PROVE Inv'
<1>1. ASSUME NEW i \in Id, SyncStep(i) PROVE Inv'
  <2>1. SyncInv' /\ Grows /\ UNCHANGED <<caches, detached, pc, req>>
    BY <1>1, SyncStepInv DEF Inv
  <2> QED BY <2>1, GrowsKeeps DEF Inv
<1>2. ASSUME UNCHANGED vars PROVE Inv'
  <2>1. UNCHANGED <<pgEnabled, pgVersion, pgRow, meta, latest, syncing, missing, caches, detached,
                    pc, req>>
    BY <1>2 DEF vars, config, synced
  <2>2. SyncInv'
    BY <2>1 DEF Inv, SyncInv
  <2>3. Grows
    BY <2>1 DEF Grows
  <2> QED BY <2>1, <2>2, <2>3, GrowsKeeps DEF Inv
<1>3. ASSUME NEW c \in Client, SlicePanics(c) PROVE Inv'
  <2>1. /\ pc' = [d \in Client |-> "idle"] /\ req' = [d \in Client |-> NewReq] /\ detached' = {}
        /\ UNCHANGED <<config, synced, caches>>
    BY <1>3, Zenon DEF SlicePanics, ByClient
  <2>2. SyncInv'
    BY <2>1 DEF Inv, SyncInv, config, synced
  <2>3. CachedRight'
    BY <2>1 DEF Inv, CachedRight, Consistent, synced, caches
  <2>4. ASSUME NEW d \in Client PROVE Right(pc[d], req[d])'
    <3>1. pc'[d] = "idle" /\ req'[d] = NewReq
      BY <2>1
    <3>2. NewReq.detail.latest = NoTag /\ NewReq.op = "detail" /\ ~NewReq.known
      BY DEF NewReq, Blank
    <3> QED BY <3>1, <3>2 DEF Right, Ordered, Listing, Consistent, Complete, Full
  <2> QED BY <2>2, <2>3, <2>4 DEF Inv
<1> QED BY <1>1, <1>2, <1>3, ClientInv, CacheInv DEF Next

LEMMA InvHolds == Spec => []Inv
<1>1. Init => Inv
  BY InvInit
<1>2. Types /\ Inv /\ [Next]_vars => Inv'
  BY InvStep
<1> QED BY TypesHold, <1>1, <1>2, PTL DEF Spec

\* A detail that no failed query went into lists the latest version it names, in
\* every answer, every cached detail and every write still on its way.
THEOREM LatestIsListedHolds == Spec => []LatestIsListed
<1>1. Inv => LatestIsListed
  BY DEF Inv, CachedRight, Right, Listing, LatestIsListed
<1> QED BY InvHolds, <1>1, PTL

\* With PostgreSQL up, the detail of a recorded software has every version recorded
\* when it was asked for, whatever the cache holds: only a failed call leads there.
THEOREM ReadsWhatWasSyncedHolds == Spec => []ReadsWhatWasSynced
<1>1. Inv => ReadsWhatWasSynced
  BY DEF Inv, Right, Complete, ReadsWhatWasSynced
<1> QED BY InvHolds, <1>1, PTL

\* A page of ListSoftware is as full as its total calls for, although the count and
\* the rows are read in two queries.
THEOREM PageIsFullHolds == Spec => []PageIsFull
<1>1. Inv => PageIsFull
  BY DEF Inv, Right, Full, Whole, PageIsFull
<1> QED BY InvHolds, <1>1, PTL
=============================================================================
