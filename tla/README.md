# TLA+ verification of YoMirrorSite

YoMirrorSite mirrors GitHub releases of configured softwares into an S3 bucket,
keeps records of them in Redis and PostgreSQL, and serves lists and download
URLs over HTTP. This directory holds TLA+ models of the parts whose correctness
depends on interleavings, crashes and failing calls, the TLC configurations that
check them, and theorems proved with TLAPS. All paths below are relative to
`src/`.

## 1. Inventory

| Component | State it keeps | Operations | What is hard | What makes it correct |
|---|---|---|---|---|
| **Release synchroniser** `internal/syncer/github.go` | Redis lock, `last_synced` mark, latest tag, version metadata; S3 objects; PG version, asset, software, sync_log rows | `SyncSoftware` with `syncIncremental`, `cleanupOldVersions`, `syncFullHistorical`, `writeToPG` | several instances, a lock with a TTL and no owner, a crash or a failing call between any two external calls, two orders of tags | one syncer at a time; records backed by objects; the mark covers only what is mirrored and never goes back; a cleanup keeps the newest; everything is mirrored in the end |
| **Sync scheduler** `internal/syncer/scheduler.go` | rules per software, a semaphore per round, WaitGroup, status | `Start`, ticker, `syncAll`, `TriggerSync`, `Stop` | overlapping rounds, cancellation while jobs wait, process restart, the lock of a dead process | tokens balance; no software synchronised twice at a time, but for locks that run out; `Stop` waits; every software keeps being synchronised; the switch to incremental is earned |
| **Version comparison** `compareSemVer` | – | compare two tags | suffixes, missing and oversized segments | a total preorder of versions, whatever the tags |
| **GitHub client** `internal/core/github/client.go` | ETag cache, remaining quota, reset time | `ListAllReleases`, `doRequest`, `Wait`, downloads | concurrent `Wait`s, stale headers, retries, 304 and 429 answers, half-read listings | quota not exceeded; a listing is the newest pages without a hole; unchanged is not an error |
| **File list cache** `internal/service/file_*.go`, `search_service.go` | local cache, Redis shards and their count, a 10 s refresh lock | `GetFileList`, refreshers, `StartCacheRefresher`, search | several writers without a common lock, torn reads, stale local entries | a list served is one that S3 had, and a recent one |
| **Local cache** `internal/util/local_cache.go`, `lfu_cache.go` | LRU or LFU map and heap, two mutexes, statistics | `Get`, `Set`, `Delete`, `GetStats`, ... | lock order, heap indices | no deadlock; capacity; least frequent evicted |
| **Download URLs** `internal/service/download_url_service.go`, `file_service.go` | cached URLs, a 10 s lock per object, task channel, workers | `GetDownloadURL`, `SubmitTask`, workers, `asyncRefreshDownloadURL` | two lifetimes computed apart, a lock without owner, full queue, a client that has gone | the cache serves no dead URL for an `expires` that S3 grants; one maker at a time, but for locks that run out; somebody is served |
| **Parallel download** `internal/core/s3/download.go` | one file offset, error channel | `Download` | parts share the file offset, channel capacity | every part at its place |
| **Software queries** `internal/service/software_service.go` | Redis copies of what PG and S3 have | `ListSoftware`, `GetSoftware`, `GetVersion`, `GetDownloadURL`, `GetStats` | several queries without a transaction, degradation from PG to Redis to S3, detached write-backs | a detail agrees with itself, and has all that was recorded; pages are full; stale copies go |
| **S3, PG, Redis wrappers** | – | one call each | single-page listing, `ON CONFLICT`, statements without a transaction | as used by the synchroniser |
| **Process, HTTP API, configuration, web frontend, utilities** | – | start-up and shutdown order, binding, formatting | shutdown order | – |

How they interact: `main` builds the services, starts the scheduler and the
refreshers, and serves HTTP until a signal; `defer scheduler.Stop()` runs after
the server has shut down. The scheduler calls `SyncSoftware` from goroutines;
`SyncSoftware` calls GitHub, S3, Redis and PG; the read side reads what it left
in Redis, S3 and PG. Instances share nothing but those services.

## 2. Modules

| Module | What it is |
|---|---|
| `Mirror` | what downloaders may rely on: objects offered, stored, recorded, titled |
| `ReleaseSync` | `SyncSoftware` for one software, run by several instances, one step per external call; refines `Mirror` |
| `SemVer` | `compareSemVer`, and the ranks it gives the tags of a repository |
| `SyncScheduler` | the scheduler of one instance, over stops, panics and restarts |
| `GitHubClient` | one client and its rate limiter, shared by the goroutines that list releases |
| `FileListCache` | the list of one prefix: local caches, shards in Redis, the refresh lock, four kinds of writers |
| `CacheManager` | the local cache of one instance with its two mutexes, one step per lock operation |
| `SoftwareQuery` | the queries of the HTTP API over PG, Redis and S3, while the synchroniser writes |
| `DownloadUrl` | the download URL of one object: cache, lock, refreshers, task queue and workers |
| `ReleaseSyncProofs`, `SemVerProofs`, `SyncSchedulerProofs`, `GitHubClientProofs`, `FileListCacheProofs`, `CacheManagerProofs`, `SoftwareQueryProofs`, `DownloadUrlProofs` | the theorems of each |
| `MC...` | constants for TLC |

`SyncScheduler` sees `SyncSoftware` from outside (lock, work, outcome);
`ReleaseSync` has the inside and sees the scheduler as "calls it again and
again". The lock is the interface between the two, and both have it. The same
way `FileListCache` sees a local cache as "has a list or not, and may give it
up", which `CacheManager` has the inside of; `ReleaseSync` sees a listing of
GitHub as whole, cut or failed, which `GitHubClient` has the inside of; and
`SoftwareQuery` has of the synchroniser the writes a query can see, in the order
`ReleaseSync` does them.

### Mirror

Four sets: what GitHub offered and the mirror wants, what can be downloaded, what
has a row, which versions have their notes. `ReleaseSync!ImplementsMirror` is
`Mirror!Spec` with `offered` read as the wanted assets of published releases that
are ready, `stored` as `s3`, `recorded` as the asset rows and `titled` as the keys
of the version metadata. It holds under the two rules that remove nothing; under
`latest_only` the objects go before their rows, and `RecordsBacked`, in the run `sync_purge`,
bounds how many versions are left with records that lead nowhere.

### ReleaseSync

State: `releases`, `ready`, `etag` are GitHub and the client's memory of it;
`lock`, `lastSynced`, `latest`, `meta` are Redis keys; `s3` is the set of
objects; `pgVersion`, `pgAsset`, `pgLatest`, `pgLog` are the tables; `pc[s]` is
where instance `s` is in `SyncSoftware`, and `run[s]` its local variables.

Each action is one external call with everything the code does between it and
the next one. `Try(ok)` charges a failing call to `MaxFaults` and each action
does then what the code does on the error (most of them: log it and go on).

| Code | Actions |
|---|---|
| lock, strategy choice (`SyncSoftware`) | `Acquire`, `Unlock`, `RereadMark`, `RewriteMark` |
| `syncIncremental`, `syncFullHistorical` | `ReadMark`, `List`, `ListFails`, `SkipRelease`, `BeginRelease`, `EndAssets`, `SaveMeta`, `EndReleases`, `SetMark`, `SetLatest` |
| `syncReleaseAssets` | `CheckExists`, `Upload`, `UploadFails`, `InsertAsset` |
| `cleanupOldVersions` | `Clean`, `CleanFails`, `PurgeObjects`, `PurgeSkips`, `PurgeMeta`, `PurgePg`, `EndPurge` |
| `writeToPG` | `ReadNewest`, `CreateLog`, `UpsertSoftware`, `FinishLog` |
| environment | `Publish`, `AssetReady`, `MetaExpires`, `LockExpires`, `LockOverrun`, `Crash`, `Restart` |

A syncer that finds the lock taken returns without a change, which is the absence
of a step. `Sem` and `Lex` are the two orders of tags the code uses
(`compareSemVer` and Go's `>` on strings): the model takes any two rankings, and
the runs compute the first with `SemVer`.

Abstractions, each checked against the code:

- Assets that fail `MatchAssetName` or are not "uploaded" are never looked at;
  `Asset` and `ready` stand for the others.
- A listing of GitHub is read at one moment. A page that cannot be read makes
  `ListAllReleases` return what it has, i.e. without the oldest releases; this is
  charged as a fault. The same without a fault is the cut after `MaxPages` pages
  (client.go:217): `Cut` are the releases beyond the `MaxListed` newest.
- No page at all, or a 304, is `ListFails`: the nil result is dereferenced, the
  deferred `DEL` runs (and may fail), the process ends.
- `DeleteObjects` answers with errors of single keys, which the code does not look
  at: `PurgeObjects` that fails removes any part of the page.
- `DeleteOldVersions` issues two statements; they are one action whose outcomes
  are none, the first, or both.
- `Scheduler.Stop` looks like a crash from here: its cancelled context makes
  every later call fail, the `DEL` of the lock included.
- Acquiring the lock with an error, and reading the tags of the software from
  GitHub's repository information, change nothing that is modelled.
- The tables have no foreign keys, so an asset row may name no version
  (`"orphan"`).

### SemVer

No state: a version is the sequence of a tag's segments, each a number or none
(`NoNumber`), the leading "v" cut off. `Atoi` is `strconv.Atoi` with its error
ignored, `Number` pads the shorter version with 0, `Older` is the loop that
returns at the first segment that differs, and `compareSemVer` answers with its
sign. `Ranks` turns the order into the numbers that `ReleaseSync` takes for
`Sem`; `MCReleaseSync` uses it for the tags of the runs, and has TLC check
`compareSemVer` against the cases of github_test.go (:87-150).

### SyncScheduler

State: `phase` is the life of the process ("running", "shutdown" while
`app.Shutdown()` runs, "stopping" while `Stop` waits, "stopped", "down"); `round[r]`,
`next[r]`, `sem[r]` are the locals of the three possible calls of `syncAll` (the
first one, the ticker's, a requested one); `job[<<r, w>>]` is the goroutine of
source `r` for software `w`, at work while it is "listing" the releases and then
"syncing" them; `copy` and `rule` are the configuration entry a goroutine copied
and the scheduler's own; `lock` is Redis; `status` is the in-progress flag; `known`
are the softwares whose listing's ETag the process has cached; `full` is a history
variable, the softwares whose history was gone through.

| Code | Actions |
|---|---|
| `main`: start, signal, exit, `systemd` | `Start`, `Shutdown`, `ShutdownFails`, `Exit` |
| `Scheduler.Stop` | `Stop`, `StopReturns` |
| `Scheduler.Start`, `TriggerSync` | `Tick`, `TickerExits`, `TriggerAll`, `TriggerOne` |
| `syncAll` | `Submit`, `EndSubmit`, `EndRound`; its goroutines `TakeToken`, `GiveUp`, `ReturnError`, `Return` |
| `SyncSoftware` from outside | `Enter`, `SkipLocked`, `Listed`, `Finish`, `Panic`, `PanicCancelled` |
| Redis | `LockExpires` |

`Cancelled(source)` is what a job may see when it looks at its context. `Stop`
cancels those of the scheduler's rounds; the context of a request (fiber's) is
done at the earliest when the server shuts down, which comes before `Stop`, so both
answers are possible from "shutdown" on. With a cancelled context every call that
is left fails, the `DEL` of the lock too. A listing with a live context ends the
process (`Panic`) when GitHub does not answer, which is charged to `MaxFaults`, or
when it answers 304 because the software is in `known`, which is charged to nothing
but `MaxPanics`, the number of such deaths. A shutdown that fails ends the process
without the deferred `Stop` (`util.Fatal`, main.go:202). The lock's TTL does not look
at who is at work: `LockExpires` may come at any moment, and counts an overrun when
a job is at work on the software. The copy of an entry is read without the mutex under which
`SyncRule` is switched; a torn string would match no rule and be treated as
incremental, so the two values cover it. At most one requested round runs at a
time in the model.

### FileListCache

State: `version` says which listing the bucket gives now, and `Shards[v]` how many
shards of 100 entries the listing of version `v` fills; `meta` and `shard` are
the Redis keys, a shard being known by the version it is from; `lock` is the
Redis lock; `local[i]` is what instance `i` has in its local cache. Goroutines
are requests (`Get(r)`, of a handler or the dynamic loader), what they leave
behind after a hit in Redis (`Async(r)`), and the refreshers' tickers
(`Tick(i)`); `list[t]` and `n[t]` are their locals. `overlapped` is a history
variable: somebody wrote while somebody else wrote or joined.

| Code | Actions |
|---|---|
| `GetFileList` | `Begin`, `Joined`, `Put`, `Lock`, `LockFails`, `Retry`, `Unlock` |
| `readFileListFromShards` | `ReadMeta`, `ReadShard` |
| `asyncRefreshCacheIfNeeded` | `AsyncLock`, `Unlock` |
| `queryAndCacheFileList` (both), `cacheFileListInShards` | `ListObjects`, `ListObjectsFails`, `WriteShard`, `WriteMeta`, `WriteFails`, `Store` |
| `StartCacheRefresher` | `Ticked` |
| `startDynamicCacheLoader` | `Begin`, `PreloadSets` |
| environment | `Publish`, `KeyExpires`, `LockExpires`, `LockOverrun`, `Evict`, `Crash` |

Abstractions: a request is answered from the local cache without a step. Whether
a list in Redis has less than a minute left is open, since keys expire at any
moment. A goroutine left behind while the former one of the same request still
runs is not started a second time; more requests give more of them. The prefix
is any one; `refreshed` says whether the refresher was given it (`main` gives it
the root only). The local cache is switched on.

### CacheManager

State: `mutex` and `statsMu` are the two `sync.RWMutex`es, each a writer that has
announced itself, the readers inside, and the readers its announcement keeps out
-- the Go lock lets in no new reader once a writer waits, which is what makes a
nested `RLock` dangerous; `content` are the keys, `size` is
`LocalCacheStats.Size`, `length` is what `Len` gave to `GetStats`. A `Lock` is two
steps, announcing and getting it; `RLock` likewise. What a full cache gives up is
left open, so both modes are covered.

| Code | Actions |
|---|---|
| `Set` | `CallSet`, `SetAsks`, `SetStores`, `AskStats`, `UpdateStats`, `SetEnds` |
| `Get` | `CallGet`, `GetLooksUp`, `AskStats`, `GetCounts`, `AskStats`, `UpdateStats`, `GetEnds` |
| `Contains` | `CallContains`, `ContainsEnds` |
| `GetStats`, `Len` | `CallGetStats`, `StatsAsksLen`, `StatsReadsLen`, `StatsEnds` |

`GetStats` and `Contains` are called by the loader only, as in the code. `Delete`,
`Clear`, `SetMode`, `GetMode` and `Keys` have no caller and are left out.

### GitHubClient

State: `quota` and `left` are GitHub's count and clock, `remaining`, `limit` and
`resetIn` the limiter's words, `etagCache` the pages whose ETag is known, and
`pc[c]`, `call[c]` where goroutine `c` is and its locals. All times are relative
to now. Each load and store of an atomic is a step, and so is each response: GitHub
answers in the order requests arrive, while headers may be stored in any order.
Two variables are history: `uncounted`, how many requests GitHub has counted or
will count that the limiter may not know of, and `alone`, whether the request
under way has had no other beside it.

| Code | Actions |
|---|---|
| `ListAllReleases`, `ListReleases` | `Begin`, `PageRead`, `Lose`, `Return` |
| `Wait` | `Load`, `Take`, `ReadReset`, `Wake` |
| `doRequest`, `updateRateLimit` | `StoreRemaining`, `StoreReset`, `WaitRetryAfter`, `Retry`, `Cancel` |
| GitHub and the network | `Ok`, `Unchanged`, `ServerError`, `TooMany`, `Unreachable`, `Break`, `Tick` |

A listing asks for `MaxPages` pages at most and says nothing of the rest
(`LastPage`). A repository does not change while it is listed. `GetRepoInfo` and `GetReadme`
have no caller. Other users of the same token are left out, so `NeverRefused` is
about a token this client has to itself.

### SoftwareQuery

State: `pgVersion`, `pgRow` are the tables, `stored` the software with objects,
`meta`, `latest` what the synchroniser leaves in Redis, `listKey` and `detailKey`
the two caches, `detached` the writes of goroutines that outlive their request;
`syncing[i]` is where the synchroniser is with software `i`; `req[c]` are the
locals of request `c`. `missing`, `had`, `known`, `clean` and `whole` are history:
what was lost or withdrawn, what there was when a request came, and whether all
its calls succeeded.

| Code | Actions |
|---|---|
| `GetSoftware` | `GetSoftware`, `PgGetSoftware`, `PgListVersions`, `ReadDetail`, `LoadSoftwareFromS3`, `ListVersions`, `WriteBack` |
| `ListSoftware` | `ListSoftware`, `PgCount`, `PgFind`, `ReadList`, `LoadSoftwareListFromS3`, `SlicePanics`, `WriteBack` |
| `GetVersion`, `GetDownloadURL`, `GetStats` | actions of the same names |
| synchroniser | `UpsertVersion`, `Upload`, `SaveVersionMeta`, `SetLatest`, `UpsertSoftware`, `Purge` |
| TTLs | `ExpireDetail`, `ExpireList`, `ExpireMeta` |

`Offset` is `(page - 1) * pageSize` as an int of 64 bits holds it (`IntSize` = 2^63).
For a page large enough it is negative: GORM then leaves the OFFSET out of its query
(`Before`), and the slice of a list from Redis or S3 panics, which nothing recovers
in a handler (`SlicePanics`: the process ends with its requests and detached writes).

Filters pick a subset of a list and are left out; so are tags, the other columns
of a row, and the counter of downloads, which no answer here depends on.

### DownloadUrl

State: `cache` is the cached URL and the TTL of its key; `lock` the TTL of the lock;
`queue`, `task`, `result` the task channel, what each worker is at, and the result
channels; `url[p]` what a process has in its hands. `managed` says whether
`InitDownloadURLManager` was called; both answers are checked. A URL is how long it
is `valid` still (below 0: how long it has been dead) and how long it was `held`
outside Redis: at its maker until the SET, in a result channel, at a client until
the answer. `Tick` ages it wherever it is, and beyond `MaxHeld` it is not followed any
more. `overruns` counts the locks that expired while somebody relied on them.

| Code | Actions |
|---|---|
| `FileService.GetDownloadURL` | `Ask`, `Get`, `Acquire`, `Recheck`, `Presign`, `Store`, `Release`, `Done` |
| `SubmitTask` | `Submit`, `Receive`, `GiveUp` |
| workers | `Take`, `Presign`, `Store`, `Reply` |
| `asyncRefreshDownloadURL` | `ReadTtl`, `TakeLock`, `Presign`, `Store`, `Release` |
| environment | `Tick`, `Crash` |

`Duration` is `time.Duration(expires) * time.Second` with its overflow, and `Ttl` what
Redis makes of it: nothing positive is a key without a TTL (`Forever`). Presigning is
a computation that fails without credentials (`Compute`). A client whose SETNX fails
presigns a URL for itself, stores nothing and takes no part in the lock. `Makers` are
those who have the lock (`Holding`), and the tasks of clients that have left, at a
worker (`Orphans`) or in the queue (`LeftBehind`), since a URL is still made and stored
for them.

`Stop` has no caller. A crash is modelled without the manager only, where a client
that dies leaves its lock; with a manager, a process that dies takes its queue and
workers along and leaves the same. `GiveUp` leaves the lock and a task: the `DEL` has the
context that ended.

## 3. Runs

| Run | Module | Bounds | What it shows |
|---|---|---|---|
| `sync_incremental` | ReleaseSync | 2 instances, 2 releases, any publication order, 1 fault, 1 overrun | `ImplementsMirror`, `MutualExclusion`, `MarkCovers`, `MarkMonotone` |
| `sync_live` | ReleaseSync | 2 instances, the releases 1.8.0 and 1.9.0, 1 crash, no fault | `ObjectsRecorded`: only the crash leaves an object without its row; `EventuallyMirrored`, and `LatestCatchesUp` for tags whose strings are in the order of the versions |
| `sync_purge` | ReleaseSync | 1 instance, 3 releases of which two tie, pages of 2 keys, 1 fault, 1 crash, deletions that remove a part | `KeepsNewest`; `RecordsBacked` under `latest_only`: at most one version per fault or crash is left with records that lead nowhere |
| `sync_full` | ReleaseSync | 1 instance, 3 releases of which one is a pre-release, listings of 2, late assets, 2 faults | `SuccessIsComplete` under `full_historical` |
| `sched_safety` | SyncScheduler | 1 software in full synchronisation, at which the first round, the ticker's and 1 request meet, 1 stop, 1 fault, 1 panic, 2 overruns | `OneJobPerSoftware`, `StopWaits`, `SwitchIsEarned` |
| `sched_live` | SyncScheduler | 2 softwares, 1 token, 1 stop, 1 fault, 1 panic | `TokensBalance`, `StopEnds`, `EverySoftwareSynced` |
| `lists` | FileListCache | 1 instance, 1 request at a time with the goroutines it leaves, 1 ticker, 2 listings of 1 and 2 shards, 1 mishap of any kind | `OneFiller`, `WholeUnlessOverlapped`, `RequestsReturn`, `EventuallyFresh` |
| `cache_locks` | CacheManager | the loader and 2 callers, 2 keys, room for 1 | `SizeTruthful`, `OnlyGetStatsDeadlocks`, `CallsReturn`, `EmbraceLasts` |
| `github_client` | GitHubClient | 2 goroutines, repositories of 3 pages and 1 of which a listing reads 2, quota 4, first count 3, buffer 2, windows of 2 units without end, 1 retry, any number of failures | `NeverRefused`, `ListingIsWhole` |
| `software` | SoftwareQuery | 1 request with 2 writes of earlier ones detached, PG on and off, lists of 2 softwares or the detail of one with 2 releases, pages before and past the end and one whose offset overflows (ints of -4 to 3), 1 fault | `LatestIsListed`, `ReadsWhatWasSynced`, `PageIsFull`, `StaleFades` |
| `download_urls` | DownloadUrl | 2 clients, 1 refresher, 1 worker, queue of 1, an `expires` that S3 grants and one whose Duration overflows, any time anywhere and URLs followed for 1 unit of it, 1 overrun, 1 fault | `HandedOutAlive`, `OneMaker`, `SomeoneIsServed` |

Each module's `TypeOK` is checked in one of its runs.

Why the bounds are enough to be interesting: two instances are what mutual
exclusion and overlap need; with two releases one can be below, at or above the
mark, and "1.9.0", "1.10.0" are ordered differently as versions and as strings;
three releases make a page of two keys hide one, and a pre-release ties with its
release. One fault and one crash at any step cover every single failure point,
two faults every pair in `sync_full`. With one token and two softwares a job must
wait, and rounds overlap; one software is enough for the lock and the switch, on
which another one acts only by ending the process, and there three jobs, two
overruns and the `DEL`s of others' locks meet. In `lists` the three goroutines of one instance write,
read and refresh against each other, and listings of different length show a
count and shards that do not belong together. Two callers beside the loader are a
reader and a writer that waits for it, the longest chain of waits two mutexes
allow. Two goroutines are what a lost decrement of `remaining` needs, two pages
what a lost page needs, and a third what `MaxPages` cuts off. A request of
`SoftwareQuery` meets others only through the caches and the detached writes, so one at a time with two writes of former
ones shows every pair. Two clients, a refresher and a queue of one are the
smallest in which the lock is contended, the queue full and a task abandoned; a key
that never dies (a Duration that turns negative) was run once (910,152 states) and is
left to the theorems, for its time. `sync_incremental` and `sync_live` have two instances; no run has two of them in
a cleanup at once, and none lets runs overlap or calls fail where `ObjectsRecorded` is checked:
these only the theorems cover. Where a theorem of section 4
states the same property, the bound does not matter.

**The quota buffer.** `RateLimitBuffer` is 10 requests (client.go:38), and what
it buys is `NeverRefused`: GitHub refuses nobody unless more than `Buffer`
requests went uncounted since the count was last set right. A request goes
uncounted when it fails and is paid for, its retry taking nothing off the count,
and when it begins beside another one, whose load, store or old headers may undo
its decrement. Every answer to a request that ran alone sets the count right.
Without that condition no buffer is enough: while listings overlap all the time,
a stale count goes from one caller to the next and over the end of a window, and
TLC finds refusals with a quota of 12 and a buffer of 6 for two callers.

This run ends in a counterexample, because the code does otherwise than it says
(the finding in `PROJECT.json` quotes the lines):

| Run | What the code says | What happens |
|---|---|---|
| `sync_unchanged_poll` | conditional requests save quota | the 304 of the second poll is an error, and the nil result of the listing is dereferenced: the process ends |

Seen in the models and not made a run of its own. In the synchroniser: the mark
compares strings, so that from 1.9.0 on 1.10.0 never becomes the mark, and
neither `latest.txt` nor `latest_ver` ever moves on to it (github.go:295); of a
repository of more than 50 pages the oldest releases are cut off silently
(client.go:217), and the mark passes them; an asset that failed is not tried
again once the mark has passed its release (`retry_attempts` is read nowhere); a
crash between an upload and its insert leaves an object whose row is never
written, against "S3 upload succeeded = PG asset record exists" (github.go:771);
a run that outlives the 30 minutes of its lock is joined by another; a full
synchronisation that only brings a backport sets the latest tag back; a crash
between the last upload and the marks leaves the latest tag stale until a newer
release; a crash inside a purge leaves PG rows of objects that are gone. In the
scheduler: overlapping rounds exceed `max_concurrent` together, since every
`syncAll` makes its own semaphore; the first of several synchronisations to end
clears the one in-progress flag; `Stop` does not wait for requested
synchronisations; a job caught by `Stop` leaves its lock, as does one whose
process another software's 304 ends (github.go:190), and after the restart
another job that finds it switches `full_sync_once` off with nothing done
(scheduler.go:191); a lock that runs out under its job lets a second one in,
whose lock the first one's `DEL` then frees. In the caches: the loader's
`GetStats` takes the two mutexes of the local cache in the other order than
`Set` and `Get`, and both may wait for good; a local list has no TTL, so a
prefix the refresher was not given is answered from it whatever the bucket has;
a list joined while another is written may mix two listings. In the queries:
version metadata expires after 24 hours and is not renewed while its version
stays; `ORDER BY stars` over equal stars is no order, so two pages may overlap;
`total_software` of the statistics is the length of a list that only the S3
fallback caches; a page so large that its offset overflows is answered as the
first one by PostgreSQL, and ends the process when the list comes from Redis or
S3 (software_service.go:125). In the download URLs: with `expires` above seven
days the key outlives the URL (docs/api.md:80 gives `expires` as the validity),
with `expires` not positive the key has no TTL at all, and from 9223372037
seconds on the Duration overflows, so that the key dies early or never. The
conditions under which the passing properties are claimed (`overruns = 0`,
`faults = 0`, ...) name these cases.

Fairness: a syncer's steps are weakly fair, because the ticker of
`Scheduler.Start` calls it for ever and each external call returns or times out;
`Restart` is fair because of systemd's `Restart=always`, `LockExpires` because
the key has a TTL. In the scheduler the Go runtime runs every goroutine on, the
ticker ticks, `main` goes on from the server's shutdown to `Stop`, and
`TickerExits` is strongly fair because a `select` with two ready cases takes
each in the end; panics of a live context are finitely many, which is a premise
of `EverySoftwareSynced` and not something the code sees to. In `CacheManager`
asking for a mutex is strongly fair, because a `sync.Mutex` is handed to a
waiter that has waited for a millisecond; calling is not fair. In
`FileListCache` goroutines run on, their calls of S3 and Redis return, the
ticker ticks and the lock has a TTL. In `SoftwareQuery` only Redis must act, by
letting keys expire. In `DownloadUrl` time passes and goroutines that can run
do. Nothing is assumed of requests, signals, faults and GitHub; `GitHubClient`
has safety properties only.

## 4. Proofs

For every value of the constants that satisfies the modules' assumptions (any
number of instances, tags, assets, softwares, clients, workers; any bounds):

| Theorem | Statement | Argument |
|---|---|---|
| `ReleaseSyncProofs!TypeCorrect` | `Spec => []TypeOK` | `TypeOK` is inductive thanks to `AtElement`, which ties the program counter to the loop variables |
| `ReleaseSyncProofs!MutualExclusionHolds` | `Spec => []MutualExclusion` | strengthened by `LockInv`: whoever holds implies the key exists, so that `Acquire` finds it |
| `ReleaseSyncProofs!RecordsBackedHolds` | `Spec => []RecordsBacked` | strengthened by what an instance knows before it writes a record: at "insert" and "meta" the object is there. Without a cleanup no object is ever removed (`BackedInv`); with one, `SuspectInv`: the versions a purge may leave with records -- metadata or rows without their objects, rows that name no version or whose version the purge will not find -- are no more than the failed calls and deaths, as each step that adds one to them is one of these |
| `ReleaseSyncProofs!RefinesMirror` | `Rule # "latest_only"` implies `Spec => ImplementsMirror` | the same invariant; each action is one step of `Mirror` or none, most of them because they leave the four sets alone |
| `ReleaseSyncProofs!SuccessIsCompleteHolds` | `Spec => []SuccessIsComplete` | `LookedInv`: a run that failed no asset has completed, or may skip, every release before the one it is at; `FinishLog` writes "success" for such a run only |
| `ReleaseSyncProofs!ObjectsRecordedHolds` | `IsFiniteSet(Asset)` implies `Spec => []ObjectsRecorded` | without a cleanup `BareInv`: a step that stores an object leads to the insertion of its row, which succeeds, fails or is cut off by a death, so the bare objects are counted by `faults + crashes`; under `latest_only` `RecordedInv`, and `GoneInv`: at "purgepg" no object of the tag is left, because the page listed held them all |
| `ReleaseSyncProofs!KeepsNewestHolds` | `MaxOverruns = 0`, or no two tags tie, implies `Spec => KeepsNewest` | `KeptInv`: of the tags an instance is to purge, all are outranked by `Keep` tags that have objects and are not among them (`Above`, counted with `FiniteSetTheorems`); whoever else removes one of these keeps as many above it, so no state has to say which of two cleanups goes first |
| `ReleaseSyncProofs!MarkCoversHolds` | `Spec => []MarkCovers` | `CoverInv`: a run that misses nothing, by a failed page or by `MaxListed`, has a prefix of what is published, and its newest tag is a mark it read or a tag of that prefix; with `LookedInv` the prefix is mirrored when the mark is written, and later releases are newer |
| `ReleaseSyncProofs!MarkMonotoneHolds` | `Spec => MarkMonotone` | `MonotoneInv`: by mutual exclusion the mark is still the one the run read, and the newest tag only rises |
| `SemVerProofs!VersionsOrdered` | for all versions, `compareSemVer` is antisymmetric and transitive, and equal versions compare alike with every other | two versions that are not the same differ first somewhere (`LeastPosition`, by well-founded inclusion of intervals, since the library's induction takes an operator); of two first differences the earlier decides |
| `SemVerProofs!RanksStandForVersions` | for finitely many tags, `Ranks` is in `[S -> Nat]`, compares as `compareSemVer` does, and is 0 for the empty tag unless a segment is negative | what is older than an older version is a smaller set, counted with `FiniteSetTheorems` |
| `SemVerProofs!SuffixIsNoDifference` | a segment appended or replaced that is no number compares as a 0 | `Number` is the same everywhere |
| `SyncSchedulerProofs!TypeCorrect` | `Spec => []TypeOK` | not inductive alone: a token returned keeps the count a natural number only because the tokens balance |
| `SyncSchedulerProofs!TokensBalanceHolds` | `Spec => []TokensBalance` | counts the jobs of a round with `FiniteSetTheorems`; needs that a software not yet submitted has no job (`SubmitInv`) |
| `SyncSchedulerProofs!OneJobPerSoftwareHolds` | `Spec => []OneJobPerSoftware` | `LockInv`: the jobs at work on a software (`Busy`) are at most `overruns`, and one more while its lock exists; counted with `FiniteSetTheorems`. A `DEL` takes the lock away together with a job |
| `SyncSchedulerProofs!StopWaitsHolds` | `Spec => []StopWaits` | `SubmitInv`: an idle or exited round has no job |
| `SyncSchedulerProofs!SwitchIsEarnedHolds` | `Spec => []SwitchIsEarned` | `SwitchInv`: while nothing stopped, panicked or failed (`Undisturbed`), a lock has a job, also after locks ran out, and the job of a software whose history is still to be gone through works on a copy that says so |
| `CacheManagerProofs!TypeCorrect` | `Spec => []TypeOK` | cardinalities of `Stored` with `FiniteSetTheorems` |
| `CacheManagerProofs!SizeTruthfulHolds` | `Spec => []SizeTruthful` | while `GetStats` holds the mutex of the statistics nobody can note a change, and a length it has read stays the size of the cache, or a Set is about to note |
| `CacheManagerProofs!OnlyGetStatsDeadlocksHolds` | `Spec => []OnlyGetStatsDeadlocks` | who waits for `mutex` waits for somebody inside it, who waits for `statsMu`, which only `GetStats` keeps while it waits |
| `CacheManagerProofs!EmbraceLastsHolds` | `Spec => EmbraceLasts` | nobody who takes part in the embrace has a step |
| `FileListCacheProofs!TypeCorrect` | `Spec => []TypeOK` | strengthened by `Fine`: what list and count a goroutine has at each label |
| `FileListCacheProofs!OneFillerHolds` | `Spec => []OneFiller` | `LockInv`: who works under the lock has it, and nobody else does; most steps are `Quiet` |
| `FileListCacheProofs!WholeUnlessOverlappedHolds` | `Spec => []WholeUnlessOverlapped` | `WholeInv`: with one writer at most, and no joiner beside it, what is written, what is read and what is yet to be read is of one version; most steps are `Calm`, and expiring keys only take away |
| `GitHubClientProofs!TypeCorrect` | `Spec => []TypeOK` | what `Wait` stores, it has seen above the buffer, hence at least one (`Types`) |
| `GitHubClientProofs!ListingIsWholeHolds` | `Spec => []ListingIsWhole` | `PagesInv`: a listing under way has exactly the pages below the one it asks for, none beyond `MaxPages`; it ends at the last page, at `MaxPages` or at a page that broke |
| `GitHubClientProofs!NeverRefusedHolds` | `Spec => []NeverRefused` | `QuotaInv`: as long as no more than `Buffer` requests went uncounted, quota and uncounted requests together cover the requests on their way and the count (`Counted`), also the counts and headers that callers still have in their hands (`Fits`); the headers of a request that runs alone are exact (`Known`) |
| `DownloadUrlProofs!TypeCorrect` | `Spec => []TypeOK` | what the labels of clients, refreshers and workers have in their hands |
| `DownloadUrlProofs!OneMakerHolds` | `Spec => []OneMaker` | `LockInv`: makers are at most `overruns`, and one more while the lock exists, counted with `FiniteSetTheorems`; `Owned`: each task of a client that is still there is that client's one, so that its leaving turns one holder into one task; every change of hands keeps the number of makers, and a release takes away one of them and the lock |
| `DownloadUrlProofs!HandedOutAliveHolds` | `Spec => []HandedOutAlive` | `AliveInv`: a URL has died no longer ago than it was held, and the cached one is valid for its key's TTL less what it was held before its SET; both go down together |
| `SoftwareQueryProofs!TypeCorrect` | `Spec => []TypeOK` | one lemma for each call of a request (what it leaves in the locals), one for each shape of answer |
| `SoftwareQueryProofs!LatestIsListedHolds` | `Spec => []LatestIsListed` | `SyncInv`: the latest version is among the versions, or was lost; `Listing`: what a request has read as latest, it is going to list |
| `SoftwareQueryProofs!ReadsWhatWasSyncedHolds` | `Spec => []ReadsWhatWasSynced` | `Complete`: a request none of whose calls failed is on its way through PostgreSQL, and what was recorded is there or missing; `Grows`: the synchroniser only adds, or notes what goes |
| `SoftwareQueryProofs!PageIsFullHolds` | `Spec => []PageIsFull` | `Full`: the total counted is at most what there will be; `Offsets`: where a page begins, an int holds the number, or the page is past every list and nothing is called for; `Paging`: a page has what its list has left, up to its size |

The assumptions used are those in the modules, and two hypotheses. Of the
assumptions, what `RankAssumption` says of `Sem` is what `RanksStandForVersions`
proves of any tags without a negative segment ("-1"), and the others fix the
ranges of the constants. A release has finitely many assets
(`IsFiniteSet(Asset)`). `KeepsNewest` is claimed for cleanups that do not
overlap, or for tags that do not tie: where `compareSemVer` makes 1.0.0 and
1.0.0-rc1 equal, two overlapping cleanups may list them in different orders, each
keeps one, and both are gone (TLC finds it with two instances, two tags and one
overrun). Under `latest_only` `ObjectsRecorded` is claimed while a page of the
listing holds the objects of a release: a purge deletes the row of every asset,
and the objects of one page.

Every safety property of the passing runs is a theorem. Only model-checked:
liveness (`EventuallyMirrored`, `LatestCatchesUp`, `StopEnds`,
`EverySoftwareSynced`, `CallsReturn`, `RequestsReturn`, `EventuallyFresh`,
`StaleFades`, `SomeoneIsServed`), which is out of the prover's reach.

## 5. Plan

Done: `Mirror`, `ReleaseSync`, `SemVer`, `SyncScheduler`, `GitHubClient`, `FileListCache`,
`CacheManager`, `SoftwareQuery`, `DownloadUrl`, each with its proofs.

Left:

- `LfuCache`: map and heap, refining the cache of bounded size that `CacheManager`
  and `FileListCache` assume of it.

## 6. Not modelled, and why

- `Parallel S3 download` (`core/s3/download.go`): nothing calls it at this commit.
- `GetRepoInfo`, `GetReadme`, `DownloadURLManager.Stop`, `ClearShardCache`,
  `asyncRefreshCacheWithLock`, and `Delete`, `Clear`, `SetMode`, `GetMode`, `Keys`
  of the local cache: no caller.
- Cutting a tag at its dots, and Go's order of strings: `SemVer` starts from
  segments, and `ReleaseSync` takes the order of strings as a constant.
- Configuration, models, logging, progress output, proxies, CORS headers, response
  formatting, the goroutine pool and the version file: sequential, no state that
  interleaves, or not used.
- The web frontend: presentation, one request per view.
