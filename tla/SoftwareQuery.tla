--------------------------- MODULE SoftwareQuery ---------------------------
(***************************************************************************)
(* The queries of internal/service/software_service.go, as the handlers of *)
(* api/handler/software_handler.go serve them.                             *)
(*                                                                         *)
(* A query asks PostgreSQL first, then a key Redis caches, then S3 and     *)
(* the keys the synchroniser left in Redis.  It is a chain of calls that   *)
(* no transaction holds together, run while the synchroniser writes; what  *)
(* it found is cached by a goroutine that outlives the request.  Tags are  *)
(* the numbers 1, 2, ... in version order.                                 *)
(***************************************************************************)
EXTENDS Integers, Sequences, FiniteSets

CONSTANTS
    Id,             \* the mirrored software
    FirstPage,      \* the software with a key among the first 1000 of mirrors/
    Client,         \* requests that run at the same time
    Scenarios,      \* which operations clients mix, and how many releases of
                    \* each software GitHub publishes meanwhile
    Asked,          \* the software whose detail and versions are asked for
    Pages, Sizes,   \* the page and page_size a client asks for
    Nothing,        \* what Redis has at a key that does not exist
    DefaultSize,    \* defaultPageSize (20)
    MaxSize,        \* the largest page_size accepted (100)
    IntSize,        \* an int is in -IntSize..(IntSize - 1) (2^63)
    \* Bounds:
    MaxFaults,      \* calls that fail
    MaxDetached     \* cache writes of earlier requests still running

ASSUME QueryAssumption ==
    /\ IsFiniteSet(Id) /\ Id # {} /\ "list" \notin Id    \* List
    /\ FirstPage \subseteq Id /\ Asked \subseteq Id
    /\ Pages \subseteq Int /\ Sizes \subseteq Int
    /\ DefaultSize \in Nat \ {0} /\ MaxSize \in Nat \ {0}
    /\ IntSize \in Nat \ {0} /\ Cardinality(Id) <= IntSize
    /\ MaxFaults \in Nat /\ MaxDetached \in Nat

Ops == {"list", "detail", "version", "url", "stats"}
ASSUME ScenarioAssumption ==
    Scenarios \subseteq [ops : SUBSET Ops, releases : [Id -> Nat]]

NoTag   == 0            \* the empty string
NoRow   == -1           \* no software row
List    == "list"       \* stands for softwareListKey

VARIABLES
    pgEnabled,      \* is PostgreSQL configured?
    scenario,       \* which member of Scenarios this behaviour plays
    pgVersion,      \* PG: tags with a version row
    pgRow,          \* PG: latest_ver of the software row
    stored,         \* S3: software with an object under mirrors/
    meta,           \* Redis: tags with version metadata
    latest,         \* Redis: latest.txt
    syncing,        \* where the synchroniser is with each software
    missing,        \* tags whose row or metadata failed, expired or was purged
    listKey,        \* Redis: the cached list, a sequence of ids
    detailKey,      \* Redis: the cached detail of each software
    detached,       \* cache writes still running
    pc, req,        \* where each request is, and its local variables
    faults

synced == <<pgVersion, pgRow, stored, meta, latest, syncing, missing>>
caches == <<listKey, detailKey>>
config == <<pgEnabled, scenario>>
vars   == <<config, synced, caches, detached, pc, req, faults>>

AllTags == Nat \ {0}
Tags(i) == 1..scenario.releases[i]
\* A sequence lists a set of ids in some order, each once.
Orders(S) == {q \in [1..Cardinality(S) -> S] : \A i \in S : \E n \in DOMAIN q : q[n] = i}
Lists     == UNION {Orders(S) : S \in SUBSET Id}

\* `whole` says that every query the detail was made from succeeded; the program
\* keeps no such note.
Detail  == [latest : AllTags \cup {NoTag}, versions : SUBSET AllTags, whole : BOOLEAN]
Blank   == [latest |-> NoTag, versions |-> {}, whole |-> TRUE]
Only(t) == [latest |-> t, versions |-> {t}, whole |-> TRUE]
Write   == [key : {List}, value : Lists] \cup [key : Id, value : Detail]
Request ==
    [op : Ops, id : Id, page : Int, size : Int,
     total : Nat, items : Seq(Id), detail : Detail,
     status : {"none", "ok", "notfound", "error"},
     had    : SUBSET AllTags,   \* version rows there were when it was asked
     known  : BOOLEAN,          \* was there a software row then?
     clean  : BOOLEAN]          \* has no call of it failed?
Label   == {"idle", "row", "versions", "detail", "latest", "keys",
            "count", "find", "list", "objects", "done"}
Stage   == {"idle", "upload", "meta", "latest", "row"}

NewReq ==
    [op |-> "detail", id |-> CHOOSE i \in Id : TRUE, page |-> 1, size |-> 1,
     total |-> 0, items |-> << >>, detail |-> Blank, status |-> "none",
     had |-> {}, known |-> FALSE, clean |-> TRUE]

Init ==
    /\ pgEnabled \in BOOLEAN /\ scenario \in Scenarios
    /\ pgVersion = [i \in Id |-> {}] /\ pgRow = [i \in Id |-> NoRow]
    /\ stored = {} /\ meta = [i \in Id |-> {}] /\ latest = [i \in Id |-> NoTag]
    /\ syncing = [i \in Id |-> [at |-> "idle", tag |-> NoTag]]
    /\ missing = [i \in Id |-> {}]
    /\ listKey = Nothing /\ detailKey = [i \in Id |-> Nothing] /\ detached = {}
    /\ pc = [c \in Client |-> "idle"] /\ req = [c \in Client |-> NewReq]
    /\ faults = 0

Try(ok) == faults' = (IF ok THEN faults ELSE faults + 1) /\ faults' <= MaxFaults

-----------------------------------------------------------------------------
(* What the synchroniser writes, in its order, for one release after the   *)
(* other: the version row, objects, metadata, latest.txt, software row.    *)
(* ReleaseSync has its whole story; here only what a query reads.          *)

Stands(i, stage, t) == syncing' = [syncing EXCEPT ![i] = [at |-> stage, tag |-> t]]
Lost(i, t, ok) == missing' = IF ok THEN missing ELSE [missing EXCEPT ![i] = @ \cup {t}]
BySync == UNCHANGED <<config, caches, detached, pc, req>>

\* Mutant: the version row is written for the tag before.
UpsertVersionBefore(i) ==
    /\ syncing[i].at = "idle" /\ syncing[i].tag < scenario.releases[i]
    /\ pgVersion' = [pgVersion EXCEPT ![i] = @ \cup {syncing[i].tag}]
    /\ Stands(i, "upload", syncing[i].tag + 1)
    /\ UNCHANGED <<pgRow, stored, meta, latest, missing, faults>> /\ BySync

UpsertVersion(i) ==
    /\ syncing[i].at = "idle" /\ syncing[i].tag < scenario.releases[i]
    /\ LET t == syncing[i].tag + 1
       IN  \E ok \in BOOLEAN :
              /\ Try(ok)
              /\ pgVersion' = IF ok /\ pgEnabled
                              THEN [pgVersion EXCEPT ![i] = @ \cup {t}] ELSE pgVersion
              /\ Lost(i, t, ok)
              /\ Stands(i, "upload", t)
    /\ UNCHANGED <<pgRow, stored, meta, latest>> /\ BySync

\* A release none of whose assets could be uploaded gets no metadata, and is no
\* latest version; its version row stays.
Upload(i) ==
    /\ syncing[i].at = "upload"
    /\ \E ok \in BOOLEAN :
          /\ Try(ok)
          /\ stored' = IF ok THEN stored \cup {i} ELSE stored
          /\ Lost(i, syncing[i].tag, ok)
          /\ Stands(i, IF ok THEN "meta" ELSE "idle", syncing[i].tag)
    /\ UNCHANGED <<pgVersion, pgRow, meta, latest>> /\ BySync

SaveVersionMeta(i) ==
    /\ syncing[i].at = "meta"
    /\ \E ok \in BOOLEAN :
          /\ Try(ok)
          /\ meta' = IF ok THEN [meta EXCEPT ![i] = @ \cup {syncing[i].tag}] ELSE meta
          /\ Lost(i, syncing[i].tag, ok)
          /\ Stands(i, "latest", syncing[i].tag)
    /\ UNCHANGED <<pgVersion, pgRow, stored, latest>> /\ BySync

SetLatest(i) ==
    /\ syncing[i].at = "latest"
    /\ \E ok \in BOOLEAN :
          /\ Try(ok)
          /\ latest' = IF ok THEN [latest EXCEPT ![i] = syncing[i].tag] ELSE latest
          /\ Stands(i, IF pgEnabled THEN "row" ELSE "idle", syncing[i].tag)
    /\ UNCHANGED <<pgVersion, pgRow, stored, meta, missing>> /\ BySync

UpsertSoftware(i) ==
    /\ syncing[i].at = "row"
    /\ \E ok \in BOOLEAN :
          /\ Try(ok)
          /\ pgRow' = IF ok THEN [pgRow EXCEPT ![i] = syncing[i].tag] ELSE pgRow
    /\ Stands(i, "idle", syncing[i].tag)
    /\ UNCHANGED <<pgVersion, stored, meta, latest, missing>> /\ BySync

\* The latest_only rule withdraws a version older than the newest.
Purge(i) ==
    /\ syncing[i].at = "idle"
    /\ \E t \in pgVersion[i] \cup meta[i] :
          /\ t < syncing[i].tag
          /\ pgVersion' = [pgVersion EXCEPT ![i] = @ \ {t}]
          /\ meta' = [meta EXCEPT ![i] = @ \ {t}]
          /\ Lost(i, t, FALSE)
    /\ UNCHANGED <<pgRow, stored, latest, syncing, faults>> /\ BySync

\* Version metadata lives for 24 hours; the next synchronisation does not renew it.
ExpireMeta(i) ==
    /\ \E t \in meta[i] : meta' = [meta EXCEPT ![i] = @ \ {t}] /\ Lost(i, t, FALSE)
    /\ UNCHANGED <<pgVersion, pgRow, stored, latest, syncing, faults>> /\ BySync

-----------------------------------------------------------------------------
(* The cache keys in Redis, and the goroutines that write them.            *)

\* The goroutine has 5 seconds of its own: it stores the value, or the call fails,
\* or the process dies.
WriteBack(w) ==
    /\ w \in detached
    /\ detached' = detached \ {w}
    /\ IF w.key = List
       THEN listKey' \in {w.value, listKey} /\ UNCHANGED detailKey
       ELSE /\ detailKey' \in {[detailKey EXCEPT ![w.key] = w.value], detailKey}
            /\ UNCHANGED listKey
    /\ UNCHANGED <<config, synced, pc, req, faults>>

\* Mutant: the detail is stored without a TTL.
ExpireDetailNever(i) == FALSE /\ UNCHANGED vars

\* softwareDetailCacheTTL, 30 minutes, and softwareListCacheTTL, 10 minutes.
ExpireDetail(i) ==
    /\ detailKey[i] # Nothing
    /\ detailKey' = [detailKey EXCEPT ![i] = Nothing]
    /\ UNCHANGED <<config, synced, listKey, detached, pc, req, faults>>

ExpireList ==
    /\ listKey # Nothing
    /\ listKey' = Nothing
    /\ UNCHANGED <<config, synced, detailKey, detached, pc, req, faults>>

-----------------------------------------------------------------------------
ByClient == UNCHANGED <<config, synced, caches>>

Goto(c, label) == pc' = [pc EXCEPT ![c] = label]
\* The call at hand succeeds or fails, and leaves these locals.
Then(c, ok, locals) ==
    /\ Try(ok)
    /\ req' = [req EXCEPT ![c] = [locals EXCEPT !.clean = locals.clean /\ ok]]

Start(c, locals) ==
    /\ pc[c] = "idle" /\ locals.op \in scenario.ops /\ Cardinality(detached) < MaxDetached
    /\ req' = [req EXCEPT ![c] = locals]
    /\ UNCHANGED <<detached, faults>> /\ ByClient

Done(c) ==
    /\ pc[c] = "done"
    /\ req' = [req EXCEPT ![c] = NewReq]
    /\ Goto(c, "idle")
    /\ UNCHANGED <<detached, faults>> /\ ByClient

(* GetSoftware: the detail of one software.                                *)

\* Mutant: the cache is asked first ("Redis -> S3", as the comment over it says).
GetSoftwareCached(c, i) ==
    /\ Start(c, [NewReq EXCEPT !.id = i, !.had = pgVersion[i], !.known = pgRow[i] # NoRow])
    /\ Goto(c, "detail")

GetSoftware(c, i) ==
    /\ Start(c, [NewReq EXCEPT !.id = i, !.had = pgVersion[i], !.known = pgRow[i] # NoRow])
    /\ Goto(c, IF pgEnabled THEN "row" ELSE "detail")

\* PostgreSQL fails, or knows no such software: both go on to the cache.
PgGetSoftware(c) ==
    /\ pc[c] = "row"
    /\ \E ok \in BOOLEAN :
          LET found == ok /\ pgRow[req[c].id] # NoRow
          IN  /\ Then(c, ok, IF found THEN [req[c] EXCEPT !.detail.latest = pgRow[req[c].id]]
                                      ELSE req[c])
              /\ Goto(c, IF found THEN "versions" ELSE "detail")
    /\ UNCHANGED detached /\ ByClient

\* The answer goes to the client, and to a goroutine that caches it.
AnswerDetail(c, ok, vs) ==
    LET d == [latest |-> req[c].detail.latest, versions |-> vs,
              whole |-> req[c].detail.whole /\ ok]
    IN  /\ Then(c, ok, [req[c] EXCEPT !.detail = d, !.status = "ok"])
        /\ detached' = detached \cup {[key |-> req[c].id, value |-> d]}
        /\ Goto(c, "done")

\* Mutant: the versions are read before the software row.
PgListVersionsFirst(c) ==
    /\ pc[c] = "versions"
    /\ \E ok \in BOOLEAN : AnswerDetail(c, ok, IF ok THEN req[c].had ELSE {})
    /\ ByClient

\* Errors of GetTags and ListVersionsBySoftware are dropped: the detail then has no
\* versions.  (Its tags, which nothing here looks at, are left out.)
PgListVersions(c) ==
    /\ pc[c] = "versions"
    /\ \E ok \in BOOLEAN : AnswerDetail(c, ok, IF ok THEN pgVersion[req[c].id] ELSE {})
    /\ ByClient

ReadDetail(c) ==
    /\ pc[c] = "detail"
    /\ \E ok \in BOOLEAN :
          LET hit == ok /\ detailKey[req[c].id] # Nothing
          IN  /\ Then(c, ok, IF hit THEN [req[c] EXCEPT !.detail = detailKey[req[c].id],
                                                        !.status = "ok"]
                                    ELSE req[c])
              /\ Goto(c, IF hit THEN "done" ELSE "latest")
    /\ UNCHANGED detached /\ ByClient

\* loadSoftwareFromS3 invents a detail for any id; it never fails.
LoadSoftwareFromS3(c) ==
    /\ pc[c] = "latest"
    /\ \E ok \in BOOLEAN :
          Then(c, ok, [req[c] EXCEPT !.detail.latest = IF ok THEN latest[req[c].id] ELSE NoTag,
                                     !.detail.whole = ok])
    /\ Goto(c, "keys")
    /\ UNCHANGED detached /\ ByClient

\* KEYS, and a GET of each key; a GET that fails leaves its version out.
ListVersions(c) ==
    /\ pc[c] = "keys"
    /\ \E vs \in SUBSET meta[req[c].id], ok \in BOOLEAN :
          /\ ok => vs = meta[req[c].id]
          /\ AnswerDetail(c, ok, vs)
    /\ ByClient

-----------------------------------------------------------------------------
(* ListSoftware: one page of the list.                                     *)

Least(a, b) == IF a < b THEN a ELSE b
Page(p)  == IF p <= 0 THEN 1 ELSE p
Size(n)  == IF n <= 0 \/ n > MaxSize THEN DefaultSize ELSE n

\* (page - 1) * size, as an int holds it.
Offset(p, n) == LET o == ((Page(p) - 1) * Size(n)) % (2 * IntSize)
                IN  IF o < IntSize THEN o ELSE o - 2 * IntSize
\* Items before page p; GORM leaves a negative OFFSET out of its query.
Before(p, n) == IF Offset(p, n) < 0 THEN 0 ELSE Offset(p, n)

\* Mutant: a page starts one item late.
PageOfLate(q, p, n) == SubSeq(q, Before(p, n) + 2, Least(Before(p, n) + 1 + Size(n), Len(q)))
\* The items of page p, of n items each.
PageOf(q, p, n) == SubSeq(q, Before(p, n) + 1, Least(Before(p, n) + Size(n), Len(q)))

ListSoftware(c, p, n) ==
    /\ Start(c, [NewReq EXCEPT !.op = "list", !.page = p, !.size = n])
    /\ Goto(c, IF pgEnabled THEN "count" ELSE "list")

Rows == {i \in Id : pgRow[i] # NoRow}

PgCount(c) ==
    /\ pc[c] = "count"
    /\ \E ok \in BOOLEAN :
          /\ Then(c, ok, IF ok THEN [req[c] EXCEPT !.total = Cardinality(Rows)] ELSE req[c])
          /\ Goto(c, IF ok THEN "find" ELSE "list")
    /\ UNCHANGED detached /\ ByClient

\* ORDER BY stars, which the program never sets: any order is an order by stars.
PgFind(c) ==
    /\ pc[c] = "find"
    /\ \/ \E q \in Orders(Rows) :
             Then(c, TRUE, [req[c] EXCEPT !.items = PageOf(q, req[c].page, req[c].size),
                                          !.status = "ok"]) /\ Goto(c, "done")
       \/ Then(c, FALSE, req[c]) /\ Goto(c, "list")
    /\ UNCHANGED detached /\ ByClient

AnswerList(c, q) ==
    /\ Offset(req[c].page, req[c].size) >= 0
    /\ Then(c, TRUE, [req[c] EXCEPT !.items = PageOf(q, req[c].page, req[c].size),
                                    !.total = Len(q), !.status = "ok"])
    /\ Goto(c, "done")

ReadList(c) ==
    /\ pc[c] = "list"
    /\ \/ listKey # Nothing /\ AnswerList(c, listKey)
       \/ listKey = Nothing /\ Then(c, TRUE, req[c]) /\ Goto(c, "objects")
       \/ Then(c, FALSE, req[c]) /\ Goto(c, "objects")
    /\ UNCHANGED detached /\ ByClient

\* One page of the bucket's listing; a map gives the ids in any order.
LoadSoftwareListFromS3(c) ==
    /\ pc[c] = "objects"
    /\ \/ \E q \in Orders(stored \cap FirstPage) :
             /\ AnswerList(c, q)
             /\ detached' = detached \cup {[key |-> List, value |-> q]}
       \/ /\ Then(c, FALSE, [req[c] EXCEPT !.status = "error"])
          /\ Goto(c, "done") /\ UNCHANGED detached
    /\ ByClient

\* A list cut at a negative index panics, and nothing recovers: the process ends with
\* all its goroutines, and is started again.  (The synchroniser is another instance's.)
SlicePanics(c) ==
    /\ \/ pc[c] = "list" /\ listKey # Nothing
       \/ pc[c] = "objects"
    /\ Offset(req[c].page, req[c].size) < 0
    /\ pc' = [d \in Client |-> "idle"] /\ req' = [d \in Client |-> NewReq]
    /\ detached' = {}
    /\ UNCHANGED faults /\ ByClient

-----------------------------------------------------------------------------
(* GetVersion, GetDownloadURL and GetStats.                                *)

\* The metadata in Redis is all there is: PostgreSQL is not asked.
GetVersion(c, i, t) ==
    /\ pc[c] = "idle" /\ "version" \in scenario.ops
    /\ \E ok \in BOOLEAN :
          LET found == ok /\ t \in meta[i]
          IN  /\ Try(ok)
              /\ req' = [req EXCEPT ![c] = [NewReq EXCEPT
                            !.op = "version", !.id = i, !.clean = ok,
                            !.detail = IF found THEN Only(t) ELSE Blank,
                            !.status = IF found THEN "ok" ELSE "notfound"]]
    /\ Goto(c, "done")
    /\ UNCHANGED detached /\ ByClient

\* A URL is presigned without a look at the object.  (The goroutine that counts it
\* in Redis is left out: no property looks at the number.)
GetDownloadURL(c) ==
    /\ Start(c, [NewReq EXCEPT !.op = "url", !.status = "ok"])
    /\ Goto(c, "done")

\* total_software is the length of the cached list, which only a fallback writes.
GetStats(c) ==
    /\ Start(c, [NewReq EXCEPT !.op = "stats", !.status = "ok",
                               !.total = IF listKey = Nothing THEN 0 ELSE Len(listKey)])
    /\ Goto(c, "done")

-----------------------------------------------------------------------------
SyncStep(i) == \/ UpsertVersion(i) \/ Upload(i) \/ SaveVersionMeta(i) \/ SetLatest(i)
               \/ UpsertSoftware(i) \/ Purge(i) \/ ExpireMeta(i)
Expire      == ExpireList \/ \E i \in Id : ExpireDetail(i)
Serve(c)    == \/ PgGetSoftware(c) \/ PgListVersions(c) \/ ReadDetail(c)
               \/ LoadSoftwareFromS3(c) \/ ListVersions(c)
               \/ PgCount(c) \/ PgFind(c) \/ ReadList(c) \/ LoadSoftwareListFromS3(c)
               \/ Done(c)
Ask(c)      == \/ \E i \in Asked : GetSoftware(c, i)
               \/ \E p \in Pages, n \in Sizes : ListSoftware(c, p, n)
               \/ \E i \in Asked : \E t \in Tags(i) : GetVersion(c, i, t)
               \/ GetDownloadURL(c) \/ GetStats(c)

Next == \/ \E i \in Id : SyncStep(i)
        \/ Expire
        \/ \E w \in detached : WriteBack(w)
        \/ \E c \in Client : Ask(c) \/ Serve(c) \/ SlicePanics(c)

\* Only Redis must act: a TTL runs out unless the key is written again.  A request, or
\* the goroutine it leaves behind, may hang.
Fairness == WF_vars(ExpireList) /\ \A i \in Id : WF_vars(ExpireDetail(i))

Spec == Init /\ [][Next]_vars /\ Fairness

-----------------------------------------------------------------------------
(* Properties.                                                              *)

\* Every variable has its shape.
TypeOK ==
    /\ pgEnabled \in BOOLEAN /\ scenario \in Scenarios
    /\ pgVersion \in [Id -> SUBSET AllTags]
    /\ pgRow \in [Id -> AllTags \cup {NoTag, NoRow}]
    /\ stored \subseteq Id
    /\ meta \in [Id -> SUBSET AllTags]
    /\ latest \in [Id -> AllTags \cup {NoTag}]
    /\ syncing \in [Id -> [at : Stage, tag : AllTags \cup {NoTag}]]
    /\ missing \in [Id -> SUBSET AllTags]
    /\ listKey \in Lists \cup {Nothing}
    /\ detailKey \in [Id -> Detail \cup {Nothing}]
    /\ detached \subseteq Write
    /\ pc \in [Client -> Label] /\ req \in [Client -> Request]
    /\ faults \in 0..MaxFaults

\* A detail that no failed query went into names a latest version which it also
\* lists, unless that version's row or metadata was lost or withdrawn: the
\* synchroniser writes versions before `latest`, and GetSoftware reads `latest`
\* before versions, in PostgreSQL (software_service.go:156-159) and in Redis
\* (:193-199) alike.  Holds of answers, cached details and writes on their way.
Consistent(i, d) ==
    d.whole => d.latest \in d.versions \cup missing[i] \cup {NoTag}
LatestIsListed ==
    /\ \A c \in Client : pc[c] = "done" => Consistent(req[c].id, req[c].detail)
    /\ \A w \in detached : w.key # List => Consistent(w.key, w.value)
    /\ \A i \in Id : detailKey[i] # Nothing => Consistent(i, detailKey[i])

\* With PostgreSQL up, a software that was recorded when its detail was asked for is
\* answered with every version recorded by then and not withdrawn since, whatever
\* Redis caches and whatever goroutines of older requests still write there.
ReadsWhatWasSynced ==
    \A c \in Client :
        /\ pc[c] = "done" /\ req[c].op = "detail"
        /\ pgEnabled /\ req[c].known /\ req[c].clean
        => req[c].had \subseteq req[c].detail.versions \cup missing[req[c].id]

\* A page answered holds as many items as the total it reports calls for: the two queries of
\* ListSoftware are no transaction (software_repo.go:79-91), but rows are counted
\* before they are read, and none is ever deleted.
PageIsFull ==
    \A c \in Client : pc[c] = "done" /\ req[c].op = "list" /\ req[c].status = "ok" =>
        LET before == (Page(req[c].page) - 1) * Size(req[c].size)
        IN  Len(req[c].items) >= Least(Size(req[c].size), req[c].total - before)

\* What a cached detail or list should say.
Current(i) == IF pgEnabled
              THEN [latest |-> pgRow[i], versions |-> pgVersion[i], whole |-> TRUE]
              ELSE [latest |-> latest[i], versions |-> meta[i], whole |-> TRUE]

\* When synchronisations and failures are over, nothing out of date stays in Redis:
\* neither a placeholder, nor a detail without versions, nor what a slow goroutine
\* wrote over something newer outlives its TTL, and nothing writes it again.
StaleFades ==
    /\ \A i \in Id : <>[](pgRow[i] # NoRow \/ ~pgEnabled =>
                             detailKey[i] \in {Nothing, Current(i)})
    /\ <>[](listKey \in Orders(stored \cap FirstPage) \cup {Nothing})
=============================================================================
