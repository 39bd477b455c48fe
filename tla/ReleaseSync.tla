---------------------------- MODULE ReleaseSync ----------------------------
(***************************************************************************)
(* SyncSoftware of internal/syncer/github.go for ONE software id.          *)
(*                                                                         *)
(* Several instances of the program mirror the releases of one GitHub      *)
(* repository into S3, and record what they did in Redis (lock,            *)
(* last_synced, latest, version metadata) and PostgreSQL (version, asset,  *)
(* software and sync_log rows).  Every call to an external service is a    *)
(* step of its own, because nothing ties the calls together: each may      *)
(* fail, the process may die between any two of them, and the Redis lock   *)
(* meant to keep a second goroutine out is a key with a TTL and no owner.  *)
(***************************************************************************)
EXTENDS Integers, Sequences, FiniteSets

CONSTANTS
    Syncer,         \* the goroutines that call SyncSoftware, one per instance
    Tag,            \* release tags of the repository
    NoTag,          \* the empty string: no tag
    Wanted,         \* tags the rule admits: no pre-release unless sync_prerelease
    Asset,          \* asset names that pass MatchAssetName
    Sem,            \* the rank compareSemVer orders a tag by (SemVer); of NoTag, 0
    Lex,            \* the rank Go's string order gives a tag; NoTag is lowest
    Rule,           \* sync_rule
    FullSyncOnce,   \* full_sync_once
    KeepVersions,   \* keep_versions
    PgEnabled,      \* is PostgreSQL configured?
    PageKeys,       \* keys one ListObjects call returns (S3's page, 1000)
    MaxListed,      \* releases one listing returns: MaxPages pages, 5000
    \* What the environment may do:
    Backports,      \* are releases published out of version order?
    LateAssets,     \* are releases published before their assets are uploaded?
    MaxFaults,      \* calls that fail
    MaxCrashes,     \* deaths of a process
    MaxOverruns     \* runs longer than the lock's TTL (30 minutes)

Rules == {"incremental", "latest_only", "full_historical"}

ASSUME TagAssumption == NoTag \notin Tag /\ Wanted \subseteq Tag
ASSUME RankAssumption ==
    /\ Sem \in [Tag \cup {NoTag} -> Nat] /\ Sem[NoTag] = 0
    /\ Lex \in [Tag \cup {NoTag} -> Nat]
    /\ \A t \in Tag : Lex[t] > Lex[NoTag]
ASSUME ConfigAssumption ==
    /\ Rule \in Rules
    /\ FullSyncOnce \in BOOLEAN /\ PgEnabled \in BOOLEAN
    /\ Backports \in BOOLEAN /\ LateAssets \in BOOLEAN
    /\ KeepVersions \in Nat
    /\ PageKeys \in Nat \ {0} /\ MaxListed \in Nat \ {0}
    /\ MaxFaults \in Nat /\ MaxCrashes \in Nat /\ MaxOverruns \in Nat

VARIABLES
    releases,       \* GitHub: the published tags, oldest publication first
    ready,          \* GitHub: the assets whose state is "uploaded"
    etag,           \* the syncers whose client caches the ETag of the listing
    lock,           \* Redis: does the lock key exist?  Its value names no owner
    lastSynced,     \* Redis: the last_synced mark
    latest,         \* Redis: the tag latest.txt serves
    meta,           \* Redis: tags with version metadata (24 h TTL)
    s3,             \* S3: the mirrored objects, as <<tag, asset>>
    pgVersion,      \* PG: tags with a version row
    pgAsset,        \* PG: the asset row of each key: none, linked or orphan
    pgLatest,       \* PG: latest_ver of the software row
    pgLog,          \* PG: status of the last sync_log row of each syncer
    pc,             \* where each syncer is
    run,            \* the local variables of its SyncSoftware call
    faults, crashes, overruns   \* how many have happened

github == <<releases, ready, etag>>
redis  == <<lastSynced, latest, meta>>
pg     == <<pgVersion, pgAsset, pgLatest, pgLog>>
rare   == <<crashes, overruns>>
vars   == <<github, lock, redis, s3, pg, pc, run, faults, rare>>

Key     == Tag \X Asset
Label   == {"idle", "down", "mark", "list", "release", "asset", "upload",
            "insert", "meta", "setmark", "setlatest", "reread", "rewrite",
            "clean", "purge", "purgemeta", "purgepg", "newest", "log",
            "software", "finishlog", "unlock"}
RowLink == {"none", "linked", "orphan"}
Status  == {"none", "running", "success", "partial", "failed"}
Release == [tag : Tag, assets : SUBSET Asset]
Local   == [seen   : Tag \cup {NoTag},  \* lastSyncedTag, as read
            newest : Tag \cup {NoTag},  \* newestTag
            rels   : Seq(Release),      \* what ListAllReleases returned, oldest first
            next   : Nat \ {0},         \* index into rels
            tag    : Tag \cup {NoTag},  \* release being mirrored or purged
            todo   : SUBSET Asset,      \* assets of it not looked at yet
            linked : BOOLEAN,           \* versionID names an existing version row
            up     : BOOLEAN,           \* assetsUploaded > 0
            fresh  : BOOLEAN,           \* result.NewAssets > 0
            failed : BOOLEAN,           \* result.Failed is not empty
            errs   : BOOLEAN,           \* result.Errors is not empty
            purge  : SUBSET Tag,        \* toDelete
            logged : BOOLEAN]           \* logID > 0

NewRun == [seen |-> NoTag, newest |-> NoTag, rels |-> << >>, next |-> 1,
           tag |-> NoTag, todo |-> {}, linked |-> FALSE, up |-> FALSE,
           fresh |-> FALSE, failed |-> FALSE, errs |-> FALSE, purge |-> {},
           logged |-> FALSE]

Init ==
    /\ releases = << >> /\ ready = {} /\ etag = {}
    /\ lock = FALSE /\ lastSynced = NoTag /\ latest = NoTag /\ meta = {}
    /\ s3 = {}
    /\ pgVersion = {} /\ pgAsset = [k \in Key |-> "none"]
    /\ pgLatest = NoTag /\ pgLog = [s \in Syncer |-> "none"]
    /\ pc = [s \in Syncer |-> "idle"] /\ run = [s \in Syncer |-> NewRun]
    /\ faults = 0 /\ crashes = 0 /\ overruns = 0

-----------------------------------------------------------------------------
\* A call that fails (ok = FALSE) is charged to the budget of faults.
Failure(ok) == IF ok THEN 0 ELSE 1
Try(ok) == faults' = faults + Failure(ok) /\ faults' <= MaxFaults

Goto(s, label) == pc' = [pc EXCEPT ![s] = label]
Set(s, locals) == run' = [run EXCEPT ![s] = locals]

\* The asset the loop of syncReleaseAssets is at, and its S3 key.
Cur(s)    == CHOOSE a \in run[s].todo : TRUE
CurKey(s) == <<run[s].tag, Cur(s)>>
AssetDone(s) == [run[s] EXCEPT !.todo = @ \ {Cur(s)}]

Published == {releases[i] : i \in 1..Len(releases)}

-----------------------------------------------------------------------------
(* Operators marked "Mutant" are faulty variants of the definition that     *)
(* follows them, for checking that the properties notice the fault.         *)
(*                                                                          *)
(* SyncSoftware: take the lock, read the mark, list the releases.  A syncer *)
(* that finds the lock taken returns at once and has changed nothing.       *)

\* Mutant: SET in place of SETNX.
AcquireAnyway(s) ==
    /\ pc[s] = "idle"
    /\ lock' = TRUE
    /\ Set(s, NewRun)
    /\ Goto(s, IF Rule = "full_historical" THEN "list" ELSE "mark")
    /\ UNCHANGED <<github, redis, s3, pg, faults, rare>>

Acquire(s) ==
    /\ pc[s] = "idle" /\ ~lock
    /\ lock' = TRUE
    /\ Set(s, NewRun)
    /\ Goto(s, IF Rule = "full_historical" THEN "list" ELSE "mark")
    /\ UNCHANGED <<github, redis, s3, pg, faults, rare>>

\* Mutant: the mark is never read.
ReadMarkNever(s) ==
    /\ pc[s] = "mark"
    /\ Try(TRUE)
    /\ Goto(s, "list")
    /\ UNCHANGED <<github, lock, redis, s3, pg, run, rare>>

\* A failed read of the mark is logged and taken for "nothing synced yet".
ReadMark(s) ==
    /\ pc[s] = "mark"
    /\ \E ok \in BOOLEAN :
          /\ Try(ok)
          /\ LET mark == IF ok THEN lastSynced ELSE NoTag
             IN  Set(s, [run[s] EXCEPT !.seen = mark, !.newest = mark])
    /\ Goto(s, "list")
    /\ UNCHANGED <<github, lock, redis, s3, pg, rare>>

\* Mutant: the reversal of the list loses the oldest release.
ListingFromSecond(lost) ==
    [i \in 1..(Len(releases) - lost - 1) |->
        [tag |-> releases[i + lost + 1],
         assets |-> {a \in Asset : <<releases[i + lost + 1], a>> \in ready}]]

\* ListAllReleases reads the pages from the newest release on: the oldest `lost`
\* releases are missing.
Listing(lost) ==
    [i \in 1..(Len(releases) - lost) |->
        [tag |-> releases[i + lost],
         assets |-> {a \in Asset : <<releases[i + lost], a>> \in ready}]]

\* The releases past the MaxPages-th page, which it does not ask for.
Cut == IF Len(releases) > MaxListed THEN Len(releases) - MaxListed ELSE 0

\* It keeps what it has when a later page fails, and says nothing of either.
List(s) ==
    /\ pc[s] = "list"
    /\ \E lost \in Cut..Len(releases) :
          /\ lost > Cut => lost < Len(releases)
          /\ Try(lost = Cut)
          /\ Set(s, [run[s] EXCEPT !.rels = Listing(lost), !.next = 1])
    /\ etag' = etag \cup {s}
    /\ Goto(s, "release")
    /\ UNCHANGED <<releases, ready, lock, redis, s3, pg, rare>>

\* No page could be read, or GitHub answers 304 because the listing is the one
\* whose ETag the client sent; both are errors, and come back with a nil result,
\* which SyncSoftware dereferences.  The deferred ReleaseLock runs and may fail,
\* then the panic, which nothing recovers, ends the process.
ListFails(s) ==
    /\ pc[s] = "list"
    /\ \E answered, deleted \in BOOLEAN :
          /\ answered => s \in etag
          /\ faults' = faults + Failure(answered) + Failure(deleted)
          /\ lock' = IF deleted THEN FALSE ELSE lock
    /\ faults' <= MaxFaults
    /\ etag' = etag \ {s}
    /\ Set(s, NewRun)
    /\ Goto(s, "down")
    /\ UNCHANGED <<releases, ready, redis, s3, pg, rare>>

-----------------------------------------------------------------------------
(* The loop over the releases, oldest first.                                *)

AtRelease(s) == pc[s] = "release" /\ run[s].next <= Len(run[s].rels)

\* Releases the loop passes over: those at or below the mark, which a full
\* synchronisation ignores, and pre-releases.
Skipped(seen, tag) ==
    \/ Rule # "full_historical" /\ seen # NoTag /\ Sem[tag] <= Sem[seen]
    \/ tag \notin Wanted

SkipRelease(s) ==
    /\ AtRelease(s)
    /\ Skipped(run[s].seen, run[s].rels[run[s].next].tag)
    /\ Set(s, [run[s] EXCEPT !.next = @ + 1])
    /\ UNCHANGED <<github, lock, redis, s3, pg, pc, faults, rare>>

\* UpsertVersion comes first; without it the asset rows get versionID 0.
BeginRelease(s) ==
    /\ AtRelease(s)
    /\ LET r == run[s].rels[run[s].next]
       IN  /\ ~Skipped(run[s].seen, r.tag)
           /\ \E ok \in IF PgEnabled THEN BOOLEAN ELSE {TRUE} :
                 /\ Try(ok)
                 /\ pgVersion' = IF PgEnabled /\ ok THEN pgVersion \cup {r.tag}
                                                    ELSE pgVersion
                 /\ Set(s, [run[s] EXCEPT !.tag = r.tag, !.todo = r.assets,
                                          !.up = FALSE, !.linked = PgEnabled /\ ok])
    /\ Goto(s, "asset")
    /\ UNCHANGED <<github, lock, redis, s3, pgAsset, pgLatest, pgLog, rare>>

\* Mutant: the asset leaves the work list before it is uploaded.
CheckExistsEarly(s) ==
    /\ pc[s] = "asset" /\ run[s].todo # {}
    /\ Try(TRUE)
    /\ Set(s, AssetDone(s))
    /\ IF CurKey(s) \in s3 THEN UNCHANGED pc ELSE Goto(s, "upload")
    /\ UNCHANGED <<github, lock, redis, s3, pg, rare>>

\* ObjectExists.  On an error `exists` is false and the asset is fetched again.
CheckExists(s) ==
    /\ pc[s] = "asset" /\ run[s].todo # {}
    /\ \E ok \in BOOLEAN :
          /\ Try(ok)
          /\ IF ok /\ CurKey(s) \in s3
             THEN Set(s, AssetDone(s)) /\ UNCHANGED pc
             ELSE Goto(s, "upload") /\ UNCHANGED run
    /\ UNCHANGED <<github, lock, redis, s3, pg, rare>>

\* Mutant: no row is inserted for the object.
UploadUnrecorded(s) ==
    /\ pc[s] = "upload"
    /\ Try(TRUE)
    /\ s3' = s3 \cup {CurKey(s)}
    /\ Goto(s, "asset")
    /\ Set(s, [AssetDone(s) EXCEPT !.up = TRUE, !.fresh = TRUE])
    /\ UNCHANGED <<github, lock, redis, pg, rare>>

\* DownloadAsset and UploadObjectWithSize.
Upload(s) ==
    /\ pc[s] = "upload"
    /\ Try(TRUE)
    /\ s3' = s3 \cup {CurKey(s)}
    /\ IF PgEnabled
       THEN /\ Goto(s, "insert")
            /\ Set(s, [run[s] EXCEPT !.up = TRUE, !.fresh = TRUE])
       ELSE /\ Goto(s, "asset")
            /\ Set(s, [AssetDone(s) EXCEPT !.up = TRUE, !.fresh = TRUE])
    /\ UNCHANGED <<github, lock, redis, pg, rare>>

\* Mutant: the error of the upload is not looked at.
UploadErrorIgnored(s) ==
    /\ pc[s] = "upload"
    /\ Try(FALSE)
    /\ Goto(s, "insert")
    /\ Set(s, [run[s] EXCEPT !.up = TRUE, !.fresh = TRUE])
    /\ UNCHANGED <<github, lock, redis, s3, pg, rare>>

\* The download or the upload fails or times out.  An upload whose answer is
\* lost may have stored the object all the same.
UploadFails(s) ==
    /\ pc[s] = "upload"
    /\ Try(FALSE)
    /\ s3' \in {s3, s3 \cup {CurKey(s)}}
    /\ Goto(s, "asset")
    /\ Set(s, [AssetDone(s) EXCEPT !.failed = TRUE])
    /\ UNCHANGED <<github, lock, redis, pg, rare>>

\* BatchInsertAssets: ON CONFLICT DO NOTHING, its error is dropped.
InsertAsset(s) ==
    /\ pc[s] = "insert"
    /\ \E ok \in BOOLEAN :
          /\ Try(ok)
          /\ pgAsset' = IF ok /\ pgAsset[CurKey(s)] = "none"
                        THEN [pgAsset EXCEPT ![CurKey(s)] =
                                  IF run[s].linked THEN "linked" ELSE "orphan"]
                        ELSE pgAsset
    /\ Goto(s, "asset")
    /\ Set(s, AssetDone(s))
    /\ UNCHANGED <<github, lock, redis, s3, pgVersion, pgLatest, pgLog, rare>>

EndAssets(s) ==
    /\ pc[s] = "asset" /\ run[s].todo = {}
    /\ IF run[s].up
       THEN Goto(s, "meta") /\ UNCHANGED run
       ELSE Goto(s, "release") /\ Set(s, [run[s] EXCEPT !.next = @ + 1])
    /\ UNCHANGED <<github, lock, redis, s3, pg, faults, rare>>

\* saveVersionMeta, then the running maximum of the tags that brought something.
SaveMeta(s) ==
    /\ pc[s] = "meta"
    /\ \E ok \in BOOLEAN :
          /\ Try(ok)
          /\ meta' = IF ok THEN meta \cup {run[s].tag} ELSE meta
    /\ LET newer == \/ Sem[run[s].tag] > Sem[run[s].newest]
                    \/ Rule = "full_historical" /\ run[s].newest = NoTag
       IN  Set(s, [run[s] EXCEPT !.next = @ + 1,
                                 !.newest = IF newer THEN run[s].tag ELSE @])
    /\ Goto(s, "release")
    /\ UNCHANGED <<github, lock, lastSynced, latest, s3, pg, rare>>

-----------------------------------------------------------------------------
(* The marks.                                                               *)

\* Mutant: a repository without a mark never gets one.
MarkMovesLater(seen, newest) == seen # NoTag /\ Lex[newest] > Lex[seen]

\* The incremental rule compares the tags as Go strings.
MarkMoves(seen, newest) ==
    IF Rule = "full_historical"
    THEN newest # NoTag
    ELSE Lex[newest] > Lex[seen] \/ (seen = NoTag /\ newest # NoTag)

\* What SyncSoftware does when its strategy returns.
AfterSync ==
    CASE Rule = "latest_only" -> "clean"
      [] Rule = "full_historical" /\ FullSyncOnce -> "reread"
      [] OTHER -> "newest"

EndReleases(s) ==
    /\ pc[s] = "release" /\ run[s].next > Len(run[s].rels)
    /\ Goto(s, IF MarkMoves(run[s].seen, run[s].newest) THEN "setmark" ELSE AfterSync)
    /\ UNCHANGED <<github, lock, redis, s3, pg, run, faults, rare>>

\* Only the incremental rule reports the failure of this write.
SetMark(s) ==
    /\ pc[s] = "setmark"
    /\ \E ok \in BOOLEAN :
          /\ Try(ok)
          /\ lastSynced' = IF ok THEN run[s].newest ELSE lastSynced
          /\ Set(s, [run[s] EXCEPT !.errs = ~ok /\ Rule # "full_historical"])
    /\ Goto(s, "setlatest")
    /\ UNCHANGED <<github, lock, latest, meta, s3, pg, rare>>

SetLatest(s) ==
    /\ pc[s] = "setlatest"
    /\ \E ok \in BOOLEAN :
          /\ Try(ok)
          /\ latest' = IF ok THEN run[s].newest ELSE latest
    /\ Goto(s, AfterSync)
    /\ UNCHANGED <<github, lock, lastSynced, meta, s3, pg, run, rare>>

\* full_sync_once reads the mark back (extractNewestTag) and writes it again.
RereadMark(s) ==
    /\ pc[s] = "reread"
    /\ \E ok \in BOOLEAN :
          /\ Try(ok)
          /\ LET mark == IF ok THEN lastSynced ELSE NoTag
             IN  /\ Set(s, [run[s] EXCEPT !.newest = mark])
                 /\ Goto(s, IF mark = NoTag THEN "newest" ELSE "rewrite")
    /\ UNCHANGED <<github, lock, redis, s3, pg, rare>>

RewriteMark(s) ==
    /\ pc[s] = "rewrite"
    /\ \E ok \in BOOLEAN :
          /\ Try(ok)
          /\ lastSynced' = IF ok THEN run[s].newest ELSE lastSynced
    /\ Goto(s, "newest")
    /\ UNCHANGED <<github, lock, latest, meta, s3, pg, run, rare>>

-----------------------------------------------------------------------------
(* cleanupOldVersions, for the rule latest_only.                            *)

\* One ListObjects call over a set of objects: all of them, or one page.
Pages(objects) ==
    IF Cardinality(objects) <= PageKeys
    THEN {objects}
    ELSE {page \in SUBSET objects : Cardinality(page) = PageKeys}

Tags(objects) == {o[1] : o \in objects}
Keep == IF KeepVersions = 0 THEN 1 ELSE KeepVersions

\* Mutant: the tags are sorted in ascending order.
SurplusAscending(tags) ==
    IF Cardinality(tags) <= Keep
    THEN {{}}
    ELSE {old \in SUBSET tags :
             /\ Cardinality(tags \ old) = Keep
             /\ \A t \in old, u \in tags \ old : Sem[t] >= Sem[u]}

\* toDelete: what is left of the listed tags, sorted, past the first Keep.
Surplus(tags) ==
    IF Cardinality(tags) <= Keep
    THEN {{}}
    ELSE {old \in SUBSET tags :
             /\ Cardinality(tags \ old) = Keep
             /\ \A t \in old, u \in tags \ old : Sem[t] <= Sem[u]}

Clean(s) ==
    /\ pc[s] = "clean"
    /\ \E page \in Pages(s3) : \E old \in Surplus(Tags(page)) :
          Set(s, [run[s] EXCEPT !.purge = old])
    /\ Goto(s, "purge")
    /\ UNCHANGED <<github, lock, redis, s3, pg, faults, rare>>

CleanFails(s) ==
    /\ pc[s] = "clean"
    /\ Try(FALSE)
    /\ Goto(s, "newest")
    /\ UNCHANGED <<github, lock, redis, s3, pg, run, rare>>

\* The tags are purged newest first.
PurgeNext(s, t) ==
    /\ pc[s] = "purge" /\ t \in run[s].purge
    /\ \A u \in run[s].purge : Sem[u] <= Sem[t]

\* Delete the objects of one tag.  A failed DeleteObjects is logged, keys it could
\* not delete are not even looked for in its answer, and the records of the tag are
\* removed all the same.
PurgeObjects(s) ==
    /\ \E t \in run[s].purge, ok \in BOOLEAN :
          /\ PurgeNext(s, t)
          /\ Try(ok)
          /\ \E page \in Pages({o \in s3 : o[1] = t}) : \E gone \in SUBSET page :
                (ok => gone = page) /\ s3' = s3 \ gone
          /\ Set(s, [run[s] EXCEPT !.tag = t])
    /\ Goto(s, "purgemeta")
    /\ UNCHANGED <<github, lock, redis, pg, rare>>

\* The objects of the tag cannot be listed: the tag is left alone.
PurgeSkips(s) ==
    /\ \E t \in run[s].purge :
          /\ PurgeNext(s, t)
          /\ Set(s, [run[s] EXCEPT !.purge = @ \ {t}])
    /\ Try(FALSE)
    /\ UNCHANGED <<github, lock, redis, s3, pg, pc, rare>>

PurgeMeta(s) ==
    /\ pc[s] = "purgemeta"
    /\ \E ok \in BOOLEAN :
          /\ Try(ok)
          /\ meta' = IF ok THEN meta \ {run[s].tag} ELSE meta
    /\ IF PgEnabled
       THEN Goto(s, "purgepg") /\ UNCHANGED run
       ELSE Goto(s, "purge") /\ Set(s, [run[s] EXCEPT !.purge = @ \ {run[s].tag}])
    /\ UNCHANGED <<github, lock, lastSynced, latest, s3, pg, rare>>

\* Mutant: the version row is deleted first, and the subquery finds no version.
RowsOfNothing(tag) == {}

\* The asset rows whose version_id names the version row of a tag.
RowsOf(tag) == {k \in Key : k[1] = tag /\ pgAsset[k] = "linked"}

\* DeleteOldVersions: the asset rows that refer to the version, then the version
\* row, in two statements without a transaction.  A versionID another syncer
\* holds for this version no longer names a row.
PurgePg(s) ==
    /\ pc[s] = "purgepg"
    /\ \E rows, version \in BOOLEAN :
          /\ version => rows
          /\ Try(version)
          /\ pgAsset' = [k \in Key |-> IF rows /\ k \in RowsOf(run[s].tag)
                                       THEN "none" ELSE pgAsset[k]]
          /\ pgVersion' = IF version THEN pgVersion \ {run[s].tag} ELSE pgVersion
          /\ run' = [q \in Syncer |->
                        IF q = s THEN [run[s] EXCEPT !.purge = @ \ {run[s].tag}]
                        ELSE [run[q] EXCEPT !.linked =
                                 @ /\ ~(version /\ run[q].tag = run[s].tag)]]
    /\ Goto(s, "purge")
    /\ UNCHANGED <<github, lock, redis, s3, pgLatest, pgLog, rare>>

EndPurge(s) ==
    /\ pc[s] = "purge" /\ run[s].purge = {}
    /\ Goto(s, "newest")
    /\ UNCHANGED <<github, lock, redis, s3, pg, run, faults, rare>>

-----------------------------------------------------------------------------
(* writeToPG and the deferred ReleaseLock.                                  *)

\* extractNewestTag reads the mark once more; an error gives the empty tag.
ReadNewest(s) ==
    /\ pc[s] = "newest"
    /\ \E ok \in BOOLEAN :
          /\ Try(ok)
          /\ Set(s, [run[s] EXCEPT !.newest = IF ok THEN lastSynced ELSE NoTag])
    /\ Goto(s, IF PgEnabled THEN "log" ELSE "unlock")
    /\ UNCHANGED <<github, lock, redis, s3, pg, rare>>

FinishOr(logged) == IF logged THEN "finishlog" ELSE "unlock"

CreateLog(s) ==
    /\ pc[s] = "log"
    /\ \E ok \in BOOLEAN :
          /\ Try(ok)
          /\ pgLog' = IF ok THEN [pgLog EXCEPT ![s] = "running"] ELSE pgLog
          /\ Set(s, [run[s] EXCEPT !.logged = ok])
          /\ Goto(s, IF run[s].fresh THEN "software" ELSE FinishOr(ok))
    /\ UNCHANGED <<github, lock, redis, s3, pgVersion, pgAsset, pgLatest, rare>>

UpsertSoftware(s) ==
    /\ pc[s] = "software"
    /\ \E ok \in BOOLEAN :
          /\ Try(ok)
          /\ pgLatest' = IF ok THEN run[s].newest ELSE pgLatest
    /\ Goto(s, FinishOr(run[s].logged))
    /\ UNCHANGED <<github, lock, redis, s3, pgVersion, pgAsset, pgLog, run, rare>>

\* Mutant: failed assets are forgotten.
VerdictOptimistic(r) == IF r.errs THEN "failed" ELSE "success"

Verdict(r) == CASE r.errs -> "failed" [] ~r.errs /\ r.failed -> "partial"
                [] OTHER -> "success"

FinishLog(s) ==
    /\ pc[s] = "finishlog"
    /\ \E ok \in BOOLEAN :
          /\ Try(ok)
          /\ pgLog' = IF ok THEN [pgLog EXCEPT ![s] = Verdict(run[s])] ELSE pgLog
    /\ Goto(s, "unlock")
    /\ UNCHANGED <<github, lock, redis, s3, pgVersion, pgAsset, pgLatest, run, rare>>

\* DEL of the key, whoever set it.  When DEL fails the key waits for its TTL.
Unlock(s) ==
    /\ pc[s] = "unlock"
    /\ \E ok \in BOOLEAN : Try(ok) /\ lock' = IF ok THEN FALSE ELSE lock
    /\ Set(s, NewRun)
    /\ Goto(s, "idle")
    /\ UNCHANGED <<github, redis, s3, pg, rare>>

-----------------------------------------------------------------------------
(* The environment.                                                         *)

Holding(s) == pc[s] \notin {"idle", "down"}
NoHolder   == \A s \in Syncer : ~Holding(s)

\* A release appears; its assets are all uploaded unless LateAssets.
Publish(t) ==
    /\ t \notin Published
    /\ Backports \/ \A u \in Published : Sem[u] < Sem[t]
    /\ releases' = Append(releases, t)
    /\ \E some \in IF LateAssets THEN SUBSET Asset ELSE {Asset} :
          ready' = ready \cup ({t} \X some)
    /\ etag' = {}
    /\ UNCHANGED <<lock, redis, s3, pg, pc, run, faults, rare>>

AssetReady(k) ==
    /\ k[1] \in Published /\ k \notin ready
    /\ ready' = ready \cup {k}
    /\ etag' = {}
    /\ UNCHANGED <<releases, lock, redis, s3, pg, pc, run, faults, rare>>

MetaExpires(t) ==
    /\ t \in meta
    /\ meta' = meta \ {t}
    /\ UNCHANGED <<github, lock, lastSynced, latest, s3, pg, pc, run, faults, rare>>

\* Mutant: the lock key is set without a TTL.
LockStays == FALSE /\ UNCHANGED vars

\* The TTL frees a lock nobody will release any more ...
LockExpires ==
    /\ lock /\ NoHolder
    /\ lock' = FALSE
    /\ UNCHANGED <<github, redis, s3, pg, pc, run, faults, rare>>

\* ... and just as well the lock of a run that takes longer than the TTL.
LockOverrun ==
    /\ lock /\ ~NoHolder
    /\ overruns < MaxOverruns
    /\ overruns' = overruns + 1
    /\ lock' = FALSE
    /\ UNCHANGED <<github, redis, s3, pg, pc, run, faults, crashes>>

\* The process dies.  Scheduler.Stop has the same effect on the shared state:
\* its cancelled context makes every later call fail, the DEL of the lock too.
Crash(s) ==
    /\ Holding(s)
    /\ crashes < MaxCrashes
    /\ crashes' = crashes + 1
    /\ Goto(s, "down")
    /\ Set(s, NewRun)
    /\ etag' = etag \ {s}
    /\ UNCHANGED <<releases, ready, lock, redis, s3, pg, faults, overruns>>

\* systemd: Restart=always.
Restart(s) ==
    /\ pc[s] = "down"
    /\ Goto(s, "idle")
    /\ UNCHANGED <<github, lock, redis, s3, pg, run, faults, rare>>

-----------------------------------------------------------------------------
Step(s) ==
    \/ Acquire(s) \/ ReadMark(s) \/ List(s) \/ ListFails(s)
    \/ SkipRelease(s) \/ BeginRelease(s) \/ CheckExists(s) \/ Upload(s)
    \/ UploadFails(s) \/ InsertAsset(s) \/ EndAssets(s) \/ SaveMeta(s)
    \/ EndReleases(s) \/ SetMark(s) \/ SetLatest(s) \/ RereadMark(s)
    \/ RewriteMark(s) \/ Clean(s) \/ CleanFails(s) \/ PurgeObjects(s)
    \/ PurgeSkips(s) \/ PurgeMeta(s) \/ PurgePg(s) \/ EndPurge(s)
    \/ ReadNewest(s) \/ CreateLog(s) \/ UpsertSoftware(s) \/ FinishLog(s)
    \/ Unlock(s)

Environment ==
    \/ \E t \in Tag : Publish(t) \/ MetaExpires(t)
    \/ \E k \in Key : AssetReady(k)
    \/ LockExpires \/ LockOverrun
    \/ \E s \in Syncer : Crash(s) \/ Restart(s)

Next == Environment \/ \E s \in Syncer : Step(s)

Spec == Init /\ [][Next]_vars

\* The ticker of Scheduler.Start calls SyncSoftware for ever, a call it made runs
\* on, the TTL of an abandoned lock runs out, systemd restarts the process.
Fairness ==
    /\ \A s \in Syncer : WF_vars(Step(s)) /\ WF_vars(Restart(s))
    /\ WF_vars(LockExpires)

FairSpec == Spec /\ Fairness

-----------------------------------------------------------------------------
(* Properties.                                                              *)

Steady == crashes = 0 /\ overruns = 0 /\ faults = 0

SharedOK ==
    /\ releases \in Seq(Tag) /\ ready \subseteq Key /\ etag \subseteq Syncer
    /\ lock \in BOOLEAN
    /\ lastSynced \in Tag \cup {NoTag} /\ latest \in Tag \cup {NoTag}
    /\ meta \subseteq Tag /\ s3 \subseteq Key
    /\ pgVersion \subseteq Tag /\ pgAsset \in [Key -> RowLink]
    /\ pgLatest \in Tag \cup {NoTag} /\ pgLog \in [Syncer -> Status]
    /\ faults \in 0..MaxFaults /\ crashes \in 0..MaxCrashes
    /\ overruns \in 0..MaxOverruns

LocalsOK == pc \in [Syncer -> Label] /\ run \in [Syncer -> Local]

\* Inside a loop a syncer has an element of the loop to work on.
AtElement(s) ==
    /\ pc[s] \in {"asset", "upload", "insert", "meta"} =>
          /\ run[s].next \in 1..Len(run[s].rels)
          /\ run[s].tag = run[s].rels[run[s].next].tag
    /\ pc[s] \in {"upload", "insert"} => run[s].todo # {}
    /\ pc[s] \in {"purgemeta", "purgepg"} => run[s].tag \in run[s].purge

\* Every variable has its type, and no loop of the code -- over `releases`,
\* `release.Assets`, `toDelete` -- works on an element it does not have.
TypeOK == SharedOK /\ LocalsOK /\ \A s \in Syncer : AtElement(s)

\* "Acquire the distributed lock, to keep several instances from synchronising
\* the same software at a time" (github.go:131).  It holds as long as no run has
\* outlived the TTL of its lock, crashes and failed calls included.
MutualExclusion ==
    overruns = 0 => \A p, q \in Syncer : Holding(p) /\ Holding(q) => p = q

\* Tags with records that nothing in S3 backs: metadata without any object, or an
\* asset row without its object.
Unbacked ==
    (meta \ Tags(s3)) \cup {k[1] : k \in {j \in Key : pgAsset[j] # "none" /\ j \notin s3}}

\* Tags whose objects a cleanup has just removed, and whose records it removes next.
BeingPurged == {run[s].tag : s \in {q \in Syncer : pc[q] \in {"purgemeta", "purgepg"}}}

\* What the read side lists can be downloaded: the metadata and the asset rows of a
\* version are backed by objects in S3.  Without a cleanup that is so whatever
\* happens.  cleanupOldVersions removes objects first, records later in calls of their
\* own whose errors are ignored, and rows with versionID 0 never: under latest_only,
\* and as long as no run outlives its lock, each version with records that lead
\* nowhere takes a failed call or a death in the middle of a purge.
RecordsBacked ==
    IF Rule = "latest_only"
    THEN overruns = 0 => Cardinality(Unbacked \ BeingPurged) <= faults + crashes
    ELSE Unbacked = {}

\* What readers of the mirror see of a synchroniser that removes nothing.
Reading == INSTANCE Mirror WITH
    Object   <- Key,
    offered  <- {k \in ready : k[1] \in Wanted},
    stored   <- s3,
    recorded <- {k \in Key : pgAsset[k] # "none"},
    titled   <- meta

\* Under the rules without a cleanup the synchroniser implements Mirror: objects are
\* wanted ones GitHub offered and stay for good, rows and metadata come after the
\* object (github.go:420-467), one at a time, and rows stay -- whatever fails, dies
\* or overlaps.  (Not under latest_only, which removes objects before their rows.)
ImplementsMirror == Reading!Spec

\* Objects without a row, but for those whose syncer is about to insert it.
Bare == {k \in s3 : /\ pgAsset[k] = "none"
                    /\ ~\E s \in Syncer : pc[s] = "insert" /\ CurKey(s) = k}

\* "S3 upload succeeded = the PG asset record exists" (github.go:771), as far as
\* the code keeps it: an object that is there is never uploaded again, so one whose
\* row was not written stays without it, but each takes a failed call or a death
\* between the upload and the insert; overlapping runs take nothing.  A cleanup
\* removes all rows of a version but only the objects one listing returns, and those
\* another run may be mirroring: under latest_only this is claimed for releases that
\* fit in a page, while nothing fails, dies or outlives its lock.
ObjectsRecorded ==
    PgEnabled =>
        IF Rule = "latest_only"
        THEN Steady /\ Cardinality(Asset) <= PageKeys => Bare = {}
        ELSE Cardinality(Bare) <= faults + crashes

InOrder == \A i, j \in 1..Len(releases) : i < j => Sem[releases[i]] < Sem[releases[j]]

\* The last_synced mark is what the incremental rule skips by, so every wanted
\* release at or below it has to be mirrored completely: nothing below the mark
\* is ever looked at again.  True while no call failed, GitHub publishes complete
\* releases in version order, and no more of them than one listing returns; neither
\* crashes nor overruns break it.
MarkCovers ==
    Rule # "latest_only" /\ faults = 0 /\ InOrder /\ ~LateAssets
        /\ Len(releases) <= MaxListed =>
    \A t \in Published \cap Wanted :
        lastSynced # NoTag /\ Sem[t] <= Sem[lastSynced] =>
            \A a \in Asset : <<t, a>> \in s3

\* A run that logs "success" has left every release it was to look at complete
\* in S3, whatever failed on the way (checks, PG writes, metadata).
SuccessIsComplete ==
    \A s \in Syncer :
        Rule # "latest_only" /\ pc[s] = "unlock" /\ run[s].logged
            /\ pgLog[s] = "success" =>
        \A i \in 1..Len(run[s].rels) :
            LET r == run[s].rels[i]
            IN  Skipped(run[s].seen, r.tag) \/ \A a \in r.assets : <<r.tag, a>> \in s3

\* Under the incremental rules the mark never goes back to an older version, so
\* that no release is mirrored a second time (and, under latest_only, purged
\* again).  Overlapping runs and a failed read of the mark can break it.
MarkMonotone ==
    [][Rule # "full_historical" /\ overruns = 0 /\ faults = 0
           => Sem[lastSynced'] >= Sem[lastSynced]]_lastSynced

\* cleanupOldVersions keeps the keep_versions newest versions: a version leaves
\* S3 only while Keep others, none of them older, stay.  A listing cut off after
\* its first page may only make it keep more.
KeepsNewest ==
    [][\A t \in Tags(s3) \ Tags(s3') :
           Cardinality({u \in Tags(s3') : Sem[u] >= Sem[t]}) >= Keep]_s3

\* Every asset GitHub offers is mirrored in the end, unless the repository outgrows
\* what one listing returns.
EventuallyMirrored ==
    \A k \in Key :
        k \in ready /\ k[1] \in Wanted ~> k \in s3 \/ Len(releases) > MaxListed

\* Go's order of the strings (github.go:295) is the order of the versions.
StringsAgree == \A t, u \in Wanted : Sem[t] < Sem[u] => Lex[t] < Lex[u]

\* What the site shows as the latest version, latest.txt and latest_ver of the
\* software row, catches up with every published release and stays there: as long
\* as no process dies, no call fails and no run outlives its lock, and only for
\* tags that compare as strings the way they do as versions.  (From 1.9.0 on to
\* 1.10.0 neither moves, ever.)
LatestCatchesUp ==
    StringsAgree =>
        \A t \in Wanted :
            t \in Published ~>
                [](Steady => Sem[latest] >= Sem[t] /\ Sem[pgLatest] >= Sem[t])

-----------------------------------------------------------------------------
(* What the code's comments and documents say, without the conditions.      *)

\* client.go:195: conditional requests with the ETag "to spend less of the API
\* quota" on a repository that has not changed: polling one is not an error, and
\* an instance whose calls are all answered does not go down.
UnchangedPollSurvives ==
    faults = 0 /\ crashes = 0 => \A s \in Syncer : pc[s] # "down"
=============================================================================
