---------------------------- MODULE FileListCache ----------------------------
(***************************************************************************)
(* The file list of one prefix: internal/service/file_service.go,          *)
(* file_cache_service.go and file_query_service.go.                        *)
(*                                                                         *)
(* GetFileList looks into the local cache of its instance, then joins the  *)
(* shards of the list in Redis, and at last lists the bucket under a Redis *)
(* lock.  A hit in Redis starts a goroutine that may refresh the list      *)
(* under the same lock; StartCacheRefresher refreshes the prefixes it was  *)
(* given at every tick, without it.  Every refresh writes the shards one   *)
(* by one, then their number, then the local cache.                        *)
(*                                                                         *)
(* The bucket is known by its version; a list is the sequence of the       *)
(* versions its shards are from.                                           *)
(***************************************************************************)
EXTENDS Integers, Sequences, FiniteSets

CONSTANTS
    Instance,       \* instances of the program
    Request,        \* requests for the list, one at a time each
    Home,           \* the instance of each request
    Shards,         \* how many shards the listing of each version fills
    MaxShards,
    \* What the environment may do:
    MaxVersion,     \* changes of the bucket
    MaxMishaps      \* how much may go wrong, of what is counted below

Version == 0..MaxVersion

ASSUME FileListAssumption ==
    /\ Home \in [Request -> Instance]
    /\ MaxVersion \in Nat /\ MaxShards \in Nat
    /\ Shards \in [Version -> 0..MaxShards]
    /\ MaxMishaps \in Nat

VARIABLES
    refreshed,      \* whether StartCacheRefresher was given this prefix
    version,        \* S3: which listing the bucket gives
    meta,           \* Redis: the number of shards
    shard,          \* Redis: the version each shard is from
    lock,           \* Redis: whether the lock key exists
    local,          \* what the local cache of each instance has
    pc,             \* where each goroutine is
    list,           \* its fileList
    n,              \* its shardCount when it reads, the shards written when it writes
    overlapped,     \* history: a list was written while another was written or read
    faults,         \* calls of S3 or Redis that failed
    crashes,        \* of an instance
    overruns,       \* refreshes that outlived the 10 seconds of their lock
    evictions       \* lists a local cache gave up

redis  == <<meta, shard, lock>>
budget == <<faults, crashes, overruns, evictions>>
vars   == <<refreshed, version, redis, local, pc, list, n, overlapped, budget>>

Absent == -1            \* no such key
NoList == <<Absent>>    \* no list

Get(r)   == <<"get", r>>        \* the handler's GetFileList, or the loader's
Async(r) == <<"async", r>>      \* the goroutine it starts after a hit in Redis
Tick(i)  == <<"tick", i>>       \* StartCacheRefresher's goroutine
Gets     == {Get(r) : r \in Request}
Asyncs   == {Async(r) : r \in Request}
Ticks    == {Tick(i) : i \in Instance}
Thread   == Gets \cup Asyncs \cup Ticks

At(t) == IF t \in Ticks THEN t[2] ELSE Home[t[2]]

\* The list of a version, in shards.
Whole(v) == [i \in 1..Shards[v] |-> v]

Init ==
    /\ refreshed \in BOOLEAN /\ version = 0
    /\ meta = Absent /\ shard = [i \in 1..MaxShards |-> Absent] /\ lock = FALSE
    /\ local = [i \in Instance |-> NoList]
    /\ pc = [t \in Thread |-> "idle"] /\ list = [t \in Thread |-> NoList]
    /\ n = [t \in Thread |-> 0]
    /\ overlapped = FALSE
    /\ faults = 0 /\ crashes = 0 /\ overruns = 0 /\ evictions = 0

Mishap == faults + crashes + overruns + evictions < MaxMishaps

\* A call of S3 or Redis that works, or fails at the expense of the budget.
Try(ok) ==
    /\ ok \/ Mishap
    /\ faults' = IF ok THEN faults ELSE faults + 1
    /\ UNCHANGED <<crashes, overruns, evictions>>

Goto(t, label) == pc' = [pc EXCEPT ![t] = label]

\* The goroutine is through, and its variables with it.
Done(t) ==
    /\ Goto(t, "idle")
    /\ list' = [list EXCEPT ![t] = NoList] /\ n' = [n EXCEPT ![t] = 0]

Writing(t) == pc[t] = "write"
Joining(t) == pc[t] = "shards"
Overlap(t) == overlapped \/ \E u \in Thread \ {t} : Writing(u)

-----------------------------------------------------------------------------
(* GetFileList up to the lock.                                              *)

\* A request of a handler or of startDynamicCacheLoader.  A list in the local cache
\* is returned as it is, which changes nothing; the loader does not even ask then.
Begin(r) ==
    LET t == Get(r) IN
    /\ pc[t] = "idle"
    /\ local[Home[r]] = NoList
    /\ Goto(t, "meta")
    /\ UNCHANGED <<refreshed, version, redis, local, list, n, overlapped, budget>>

ReadMeta(t) ==
    /\ pc[t] = "meta"
    /\ \E ok \in BOOLEAN :
         /\ Try(ok)
         /\ IF ok /\ meta # Absent
            THEN /\ Goto(t, "shards")
                 /\ list' = [list EXCEPT ![t] = <<>>] /\ n' = [n EXCEPT ![t] = meta]
                 /\ overlapped' = Overlap(t)
            ELSE /\ Goto(t, "lock")
                 /\ UNCHANGED <<list, n, overlapped>>
    /\ UNCHANGED <<refreshed, version, redis, local>>

\* Mutant: a shard that is missing is left out.
ReadShardOrSkip(t) ==
    LET i == Len(list[t]) + 1 IN
    /\ Joining(t) /\ i <= n[t]
    /\ Try(TRUE)
    /\ IF shard[i] # Absent
       THEN list' = [list EXCEPT ![t] = Append(@, shard[i])] /\ UNCHANGED n
       ELSE n' = [n EXCEPT ![t] = @ - 1] /\ UNCHANGED list
    /\ UNCHANGED <<refreshed, version, redis, local, pc, overlapped>>

\* A shard that is missing or cannot be read makes the whole list a miss.
ReadShard(t) ==
    LET i == Len(list[t]) + 1 IN
    /\ Joining(t) /\ i <= n[t]
    /\ \E ok \in BOOLEAN :
         /\ Try(ok)
         /\ IF ok /\ shard[i] # Absent
            THEN /\ list' = [list EXCEPT ![t] = Append(@, shard[i])]
                 /\ UNCHANGED <<pc, n>>
            ELSE /\ Goto(t, "lock")
                 /\ list' = [list EXCEPT ![t] = NoList] /\ n' = [n EXCEPT ![t] = 0]
    /\ UNCHANGED <<refreshed, version, redis, local, overlapped>>

\* The list is complete: the goroutine that may refresh it starts, and the list
\* is put into the local cache beside it.  (While one still runs, a further one of
\* the same request finds nothing to do here.)
Joined(r) ==
    LET t == Get(r) IN
    /\ Joining(t) /\ Len(list[t]) = n[t]
    /\ pc' = [pc EXCEPT ![t] = "put", ![Async(r)] = IF @ = "idle" THEN "ttl" ELSE @]
    /\ UNCHANGED <<refreshed, version, redis, local, list, n, overlapped, budget>>

\* GetFileList returned a list: the loader sets it once more.
Returned(t) ==
    \/ Done(t)
    \/ Goto(t, "preload") /\ UNCHANGED <<list, n>>

Put(t) ==
    /\ pc[t] = "put"
    /\ local' = [local EXCEPT ![At(t)] = list[t]]
    /\ Returned(t)
    /\ UNCHANGED <<refreshed, version, redis, overlapped, budget>>

PreloadSets(t) ==
    /\ pc[t] = "preload"
    /\ local' = [local EXCEPT ![At(t)] = list[t]]
    /\ Done(t)
    /\ UNCHANGED <<refreshed, version, redis, overlapped, budget>>

-----------------------------------------------------------------------------
(* The lock.                                                                *)

\* Without an answer of Redis the bucket is listed and nothing is cached.
LockFails(t) ==
    /\ pc[t] = "lock"
    /\ Try(FALSE)
    /\ \/ Done(t)
       \/ /\ Goto(t, "preload")
          /\ list' = [list EXCEPT ![t] = Whole(version)] /\ UNCHANGED n
    /\ UNCHANGED <<refreshed, version, redis, local, overlapped>>

Lock(t) ==
    /\ pc[t] = "lock"
    /\ Goto(t, IF lock THEN "retry" ELSE "list")
    /\ lock' = TRUE
    /\ UNCHANGED <<refreshed, version, meta, shard, local, list, n, overlapped, budget>>

\* After 100 ms GetFileList calls itself.
Retry(t) ==
    /\ pc[t] = "retry"
    /\ \/ local[At(t)] = NoList /\ Goto(t, "meta") /\ UNCHANGED list
       \/ local[At(t)] # NoList /\ Goto(t, "idle") /\ UNCHANGED list
       \/ /\ local[At(t)] # NoList /\ Goto(t, "preload")
          /\ list' = [list EXCEPT ![t] = local[At(t)]]
    /\ UNCHANGED <<refreshed, version, redis, local, n, overlapped, budget>>

\* Mutant: locked is not looked at.
AsyncGoesOn(t) ==
    /\ pc[t] = "ttl"
    /\ \/ lock' = TRUE /\ Goto(t, "list")
       \/ Goto(t, "idle") /\ UNCHANGED lock
    /\ UNCHANGED <<refreshed, version, meta, shard, local, list, n, overlapped, budget>>

\* asyncRefreshCacheIfNeeded: it refreshes a list that has less than a minute of its
\* five left, and leaves when the lock is taken or Redis does not answer.
AsyncLock(t) ==
    /\ pc[t] = "ttl"
    /\ \/ ~lock /\ lock' = TRUE /\ Goto(t, "list")
       \/ Goto(t, "idle") /\ UNCHANGED lock
    /\ UNCHANGED <<refreshed, version, meta, shard, local, list, n, overlapped, budget>>

Unlock(t) ==
    /\ pc[t] = "unlock"
    /\ \E ok \in BOOLEAN :
         /\ Try(ok)
         /\ lock' = IF ok THEN FALSE ELSE lock
    /\ IF t \in Gets /\ list[t] # NoList THEN Returned(t) ELSE Done(t)
    /\ UNCHANGED <<refreshed, version, meta, shard, local, overlapped>>

-----------------------------------------------------------------------------
(* queryAndCacheFileList, and the ticker's, which holds no lock.            *)

Ticked(t) ==
    /\ refreshed /\ t \in Ticks
    /\ pc[t] = "idle"
    /\ Goto(t, "list")
    /\ UNCHANGED <<refreshed, version, redis, local, list, n, overlapped, budget>>

After(t) == IF t \in Ticks THEN Done(t) ELSE Goto(t, "unlock") /\ UNCHANGED <<list, n>>

ListObjects(t) ==
    /\ pc[t] = "list"
    /\ Try(TRUE)
    /\ Goto(t, "write")
    /\ list' = [list EXCEPT ![t] = Whole(version)] /\ UNCHANGED n
    /\ overlapped' = (Overlap(t) \/ \E u \in Thread : Joining(u))
    /\ UNCHANGED <<refreshed, version, redis, local>>

ListObjectsFails(t) ==
    /\ pc[t] = "list"
    /\ Try(FALSE)
    /\ After(t)
    /\ UNCHANGED <<refreshed, version, redis, local, overlapped>>

WriteShard(t) ==
    /\ Writing(t) /\ n[t] < Len(list[t])
    /\ Try(TRUE)
    /\ n' = [n EXCEPT ![t] = @ + 1]
    /\ shard' = [shard EXCEPT ![n[t] + 1] = list[t][n[t] + 1]]
    /\ UNCHANGED <<refreshed, version, meta, lock, local, pc, list, overlapped>>

\* Mutant: shardCount is rounded up twice.
WriteMetaOneMore(t) ==
    /\ Writing(t) /\ n[t] = Len(list[t])
    /\ Try(TRUE)
    /\ meta' = Len(list[t]) + 1
    /\ Goto(t, "store")
    /\ UNCHANGED <<refreshed, version, shard, lock, local, list, n, overlapped>>

WriteMeta(t) ==
    /\ Writing(t) /\ n[t] = Len(list[t])
    /\ Try(TRUE)
    /\ meta' = Len(list[t])
    /\ Goto(t, "store")
    /\ UNCHANGED <<refreshed, version, shard, lock, local, list, n, overlapped>>

\* The rest is not written.
WriteFails(t) ==
    /\ Writing(t)
    /\ Try(FALSE)
    /\ Goto(t, "store")
    /\ UNCHANGED <<refreshed, version, redis, local, list, n, overlapped>>

\* Mutant: the ticker calls queryService directly.
StoreUnlessTick(t) ==
    /\ pc[t] = "store"
    /\ local' = IF t \in Ticks THEN local ELSE [local EXCEPT ![At(t)] = list[t]]
    /\ After(t)
    /\ UNCHANGED <<refreshed, version, redis, overlapped, budget>>

Store(t) ==
    /\ pc[t] = "store"
    /\ local' = [local EXCEPT ![At(t)] = list[t]]
    /\ After(t)
    /\ UNCHANGED <<refreshed, version, redis, overlapped, budget>>

-----------------------------------------------------------------------------
(* The environment.                                                         *)

Publish ==
    /\ version < MaxVersion
    /\ version' = version + 1
    /\ UNCHANGED <<refreshed, redis, local, pc, list, n, overlapped, budget>>

KeyExpires ==
    /\ \/ meta # Absent /\ meta' = Absent /\ UNCHANGED shard
       \/ \E i \in 1..MaxShards :
            shard[i] # Absent /\ shard' = [shard EXCEPT ![i] = Absent] /\ UNCHANGED meta
    /\ UNCHANGED <<refreshed, version, lock, local, pc, list, n, overlapped, budget>>

Holding(t) == t \notin Ticks /\ pc[t] \in {"list", "write", "store", "unlock"}

\* Mutant: SETNX without a TTL.
LockStays == FALSE /\ UNCHANGED vars

\* The lock of a process that died or could not delete it.
LockExpires ==
    /\ lock /\ \A t \in Thread : ~Holding(t)
    /\ lock' = FALSE
    /\ UNCHANGED <<refreshed, version, meta, shard, local, pc, list, n, overlapped,
                   budget>>

\* The lock of a refresh that still runs.
LockOverrun ==
    /\ lock /\ \E t \in Thread : Holding(t)
    /\ Mishap /\ overruns' = overruns + 1
    /\ lock' = FALSE
    /\ UNCHANGED <<refreshed, version, meta, shard, local, pc, list, n, overlapped,
                   faults, crashes, evictions>>

Evict(i) ==
    /\ local[i] # NoList
    /\ Mishap /\ evictions' = evictions + 1
    /\ local' = [local EXCEPT ![i] = NoList]
    /\ UNCHANGED <<refreshed, version, redis, pc, list, n, overlapped,
                   faults, crashes, overruns>>

Crash(i) ==
    /\ Mishap /\ crashes' = crashes + 1
    /\ local' = [local EXCEPT ![i] = NoList]
    /\ pc'   = [t \in Thread |-> IF At(t) = i THEN "idle" ELSE pc[t]]
    /\ list' = [t \in Thread |-> IF At(t) = i THEN NoList ELSE list[t]]
    /\ n'    = [t \in Thread |-> IF At(t) = i THEN 0 ELSE n[t]]
    /\ UNCHANGED <<refreshed, version, redis, overlapped, faults, overruns, evictions>>

-----------------------------------------------------------------------------
GetStep(r) ==
    LET t == Get(r) IN
    \/ ReadMeta(t) \/ ReadShard(t) \/ Joined(r)
    \/ Put(t) \/ PreloadSets(t)
    \/ LockFails(t) \/ Lock(t) \/ Retry(t)

Refresh(t) ==
    \/ ListObjects(t) \/ ListObjectsFails(t) \/ WriteShard(t) \/ WriteMeta(t)
    \/ WriteFails(t) \/ Store(t) \/ Unlock(t)

Next ==
    \/ \E r \in Request : Begin(r) \/ GetStep(r) \/ AsyncLock(Async(r))
    \/ \E t \in Thread : Refresh(t) \/ Ticked(t)
    \/ Publish \/ KeyExpires \/ LockExpires \/ LockOverrun
    \/ \E i \in Instance : Evict(i) \/ Crash(i)

Spec == Init /\ [][Next]_vars

\* Goroutines run on and their calls return; the ticker ticks; a lock has a TTL.
Fairness ==
    /\ \A r \in Request : WF_vars(GetStep(r)) /\ WF_vars(AsyncLock(Async(r)))
    /\ \A t \in Thread : WF_vars(Refresh(t)) /\ WF_vars(Ticked(t))
    /\ WF_vars(LockExpires)

FairSpec == Spec /\ Fairness

-----------------------------------------------------------------------------
(* Properties.                                                              *)

Label == {"idle", "meta", "shards", "put", "preload", "lock", "retry", "ttl",
          "list", "write", "store", "unlock"}

Joint == {s \in Seq(Version) : Len(s) <= MaxShards}
List  == {NoList} \cup Joint

\* Every variable has its shape.
TypeOK ==
    /\ refreshed \in BOOLEAN /\ version \in Version
    /\ meta \in {Absent} \cup 0..MaxShards
    /\ shard \in [1..MaxShards -> Version \cup {Absent}]
    /\ lock \in BOOLEAN /\ overlapped \in BOOLEAN
    /\ local \in [Instance -> List]
    /\ pc \in [Thread -> Label] /\ list \in [Thread -> List]
    /\ n \in [Thread -> 0..MaxShards]
    /\ faults \in Nat /\ crashes \in Nat /\ overruns \in Nat /\ evictions \in Nat
    /\ faults + crashes + overruns + evictions <= MaxMishaps

\* Of those that have to take the lock, one at a time lists the bucket and fills
\* the caches (GetFileList is "protected against a breakdown of the cache",
\* file_service.go:66), unless a refresh outlives its lock.
OneFiller ==
    overruns = 0 => \A t, u \in Thread : Holding(t) /\ Holding(u) => t = u

\* The list Redis would give.
Readable == meta # Absent /\ \A i \in 1..meta : shard[i] # Absent
Stored   == [i \in 1..meta |-> shard[i]]

Listings == {Whole(v) : v \in 0..version}

\* No list is joined from shards of two listings, neither the one in Redis nor one
\* put into a local cache -- unless a list was written while another was being
\* written or read, or a write stopped halfway.
WholeUnlessOverlapped ==
    ~overlapped /\ faults = 0 /\ crashes = 0 =>
        /\ \A i \in Instance : local[i] \in Listings \cup {NoList}
        /\ Readable /\ (\A t \in Thread : ~Writing(t)) => Stored \in Listings

\* Every request is answered: one that finds the lock taken is not left to retry
\* for ever, whether the holder succeeds, fails or dies.
RequestsReturn ==
    \A r \in Request : pc[Get(r)] # "idle" ~> pc[Get(r)] = "idle"

\* When the bucket no longer changes, what the local caches hold of a prefix that
\* is refreshed is its list in the end, whatever was torn, late or lost before.
\* Of a prefix that is not, it does not hold: whoever hits the local cache never
\* asks Redis again, however long "the TTL of five minutes" (file_service.go:18)
\* is over there.
EventuallyFresh ==
    refreshed => \A i \in Instance : <>[](local[i] \in {NoList, Whole(version)})
=============================================================================
