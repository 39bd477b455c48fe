---------------------------- MODULE DownloadUrl ----------------------------
(***************************************************************************)
(* GetDownloadURL of internal/service/file_service.go and the task queue   *)
(* of internal/service/download_url_service.go, for one object.            *)
(*                                                                         *)
(* Presigned URLs are cached in Redis under the object's key and the       *)
(* `expires` the client asked for.  A URL is valid from its presigning on, *)
(* its key lives from the moment Redis stores it, and the two lifetimes    *)
(* are computed in different places.  Times count down, from now.          *)
(***************************************************************************)
EXTENDS Integers, Sequences, FiniteSets

CONSTANTS
    Client,         \* requests
    Refresher,      \* goroutines of asyncRefreshDownloadURL
    Worker,         \* workers of the DownloadURLManager
    QueueSize,      \* capacity of its taskQueue
    Expires,        \* the `expires` clients ask for; any int64 is accepted
    DefaultValid,   \* validity of a URL for expires <= 0 (an hour)
    MaxValid,       \* longest validity (7 days)
    Second,         \* a unit of time as a time.Duration (10^9)
    MaxDuration,    \* a time.Duration is in -MaxDuration..(MaxDuration - 1) (2^63)
    Fresh,          \* a key that lives longer is not refreshed (1 minute)
    LockTtl,        \* TTL of the lock (10 seconds)
    Nothing,        \* no value at a Redis key, no result yet
    NoUrl,          \* an error in place of a URL
    \* Bounds:
    MaxHeld,        \* time a URL is followed outside Redis
    MaxOverruns,    \* locks that expire under their holder, as far as they are counted
    MaxFaults       \* calls that fail, processes that die

ASSUME UrlAssumption ==
    /\ Client \cap Refresher = {} /\ Client \cap Worker = {} /\ Refresher \cap Worker = {}
    /\ IsFiniteSet(Client) /\ IsFiniteSet(Refresher) /\ IsFiniteSet(Worker) /\ Nothing \notin Client
    /\ QueueSize \in Nat \ {0} /\ Expires \subseteq Int
    /\ DefaultValid \in Nat \ {0} /\ MaxValid \in Nat /\ DefaultValid <= MaxValid
    /\ Second \in Nat \ {0} /\ MaxDuration \in Nat /\ MaxValid * Second < MaxDuration
    /\ Fresh \in Nat /\ LockTtl \in Nat \ {0} /\ MaxHeld \in Nat
    /\ MaxOverruns \in Nat /\ MaxFaults \in Nat

VARIABLES
    expires,        \* what the clients of this behaviour ask for
    managed,        \* has InitDownloadURLManager been called?
    cache,          \* Redis: the cached URL, and the key's TTL
    lock,           \* Redis: TTL of the lock, 0 if there is none
    queue,          \* taskQueue: the clients whose tasks wait, Nothing if one left
    task,           \* the task each worker is at
    result,         \* ResultCh of each client, a channel of capacity 1
    pc, url,        \* where each process is, and the URL in its hands
    overruns,       \* history: locks that expired while somebody relied on them,
                    \* to MaxOverruns + 1
    faults

vars == <<expires, managed, cache, lock, queue, task, result, pc, url, overruns, faults>>

Process == Client \cup Refresher \cup Worker
Forever == -1           \* the TTL of a key that has none

Valid(e) == IF e <= 0 THEN DefaultValid ELSE IF e > MaxValid THEN MaxValid ELSE e

\* time.Duration(e) * time.Second, as an int64 holds it.
Duration(e) == LET d == (e * Second) % (2 * MaxDuration)
               IN  IF d < MaxDuration THEN d ELSE d - 2 * MaxDuration
\* SET with an expiration that is not positive stores a key without one.
Ttl(e)      == IF Duration(e) <= 0 THEN Forever ELSE (Duration(e) + Second - 1) \div Second

\* A URL: how long it is still valid (how long ago it died makes no difference beyond
\* MaxHeld), and how long it has been in somebody's hands outside Redis since it was
\* presigned; after MaxHeld it is not followed any more.
Dead     == -MaxHeld - 1
Urls     == [valid : Dead..MaxValid, held : 0..(MaxHeld + 1)]
NewUrl   == [valid |-> Valid(expires), held |-> 0]
OldUrl   == [valid |-> Dead, held |-> MaxHeld + 1]
Answers  == Urls \cup {Nothing, NoUrl}
ASSUME AnswerAssumption == Nothing \notin Urls /\ NoUrl \notin Urls

Labels == {"idle", "get", "acquire", "recheck", "submit", "queued", "presign", "store",
           "release", "done",                   \* a client
           "ttl", "lock", "reply"}              \* a refresher; a worker

Init ==
    /\ expires \in Expires /\ managed \in BOOLEAN
    /\ cache = Nothing /\ lock = 0 /\ queue = << >>
    /\ task = [w \in Worker |-> Nothing] /\ result = [c \in Client |-> Nothing]
    /\ pc = [p \in Process |-> "idle"] /\ url = [p \in Process |-> Nothing]
    /\ overruns = 0 /\ faults = 0

Try(ok) == faults' = (IF ok THEN faults ELSE faults + 1) /\ faults' <= MaxFaults
At(p, label)    == pc[p] = label
\* A GET that finds the URL; one that finds nothing, or fails.
Hit  == cache # Nothing /\ Try(TRUE)
Miss == (cache = Nothing /\ Try(TRUE)) \/ Try(FALSE)
Goto(p, label)  == pc' = [pc EXCEPT ![p] = label]
Hold(p, u)      == url' = [url EXCEPT ![p] = u]
\* GetObjectURL computes a URL without a call, or fails (without credentials).
Compute(p)      == \/ Try(TRUE) /\ Hold(p, NewUrl)
                   \/ Try(FALSE) /\ Hold(p, NoUrl)
AsConfigured    == UNCHANGED <<expires, managed>>
Redis == <<cache, lock, overruns>>
Tasks == <<queue, task, result>>

\* Who has taken the lock and not released it yet; with a manager, a worker works on
\* its behalf.
Holding == {p \in Client \cup Refresher :
              pc[p] \in {"recheck", "submit", "queued", "presign", "store", "release"}}
\* The tasks whose clients have left, at a worker and in the queue: a URL will be made
\* and stored for each, under the lock its client left behind.
Orphans    == {w \in Worker : pc[w] # "idle" /\ task[w] = Nothing}
LeftBehind == {k \in DOMAIN queue : queue[k] = Nothing}
Makers     == Cardinality(Holding) + Cardinality(Orphans) + Cardinality(LeftBehind)

-----------------------------------------------------------------------------
Smaller(a, b) == IF a < b THEN a ELSE b
Less(t)  == IF t > Dead THEN t - 1 ELSE t
Cools(u) == [u EXCEPT !.valid = Less(@)]                \* in Redis
Ages(u)  == IF u \in {Nothing, NoUrl} THEN u            \* in somebody's hands
            ELSE IF u.held >= MaxHeld THEN OldUrl
            ELSE [valid |-> Less(u.valid), held |-> u.held + 1]

Expire == cache' = IF cache = Nothing \/ cache.ttl = 1 THEN Nothing
                   ELSE [url |-> Cools(cache.url),
                         ttl |-> IF cache.ttl = Forever THEN Forever ELSE cache.ttl - 1]

\* Mutant: the lock has no TTL.
TickKeepsLock ==
    /\ Expire
    /\ url' = [p \in Process |-> IF At(p, "done") THEN url[p] ELSE Ages(url[p])]
    /\ result' = [c \in Client |-> Ages(result[c])]
    /\ UNCHANGED <<lock, overruns, queue, task, pc, faults>> /\ AsConfigured

\* A unit of time passes: for Redis, for a result that has not been received, and for
\* those who have a URL in their hands, wherever they are until it is answered.
Tick ==
    /\ Expire
    /\ lock' = IF lock = 0 THEN 0 ELSE lock - 1
    /\ overruns' = IF lock = 1 /\ Makers > 0 THEN Smaller(overruns + 1, MaxOverruns + 1)
                   ELSE overruns
    /\ url' = [p \in Process |-> IF At(p, "done") THEN url[p] ELSE Ages(url[p])]
    /\ result' = [c \in Client |-> Ages(result[c])]
    /\ UNCHANGED <<queue, task, pc, faults>> /\ AsConfigured

-----------------------------------------------------------------------------
(* GetDownloadURL, of the handler and of the service.                      *)

Ask(c) ==
    /\ At(c, "idle")
    /\ Goto(c, "get")
    /\ UNCHANGED <<Redis, Tasks, url, faults>> /\ AsConfigured

\* A hit is served as it is; a goroutine looks whether it should be refreshed.  (When
\* every Refresher is busy, one more is left out.)
Get(c) ==
    /\ At(c, "get")
    /\ \/ /\ Hit /\ Hold(c, cache.url)
          /\ \/ \E r \in Refresher : /\ At(r, "idle")
                                     /\ pc' = [pc EXCEPT ![c] = "done", ![r] = "ttl"]
             \/ (\A r \in Refresher : ~At(r, "idle")) /\ Goto(c, "done")
       \/ Miss /\ Goto(c, "acquire") /\ UNCHANGED url
    /\ UNCHANGED <<Redis, Tasks>> /\ AsConfigured

\* Mutant: SET instead of SETNX.
AcquireAnyway(c) ==
    /\ At(c, "acquire")
    /\ Try(TRUE) /\ lock' = LockTtl /\ Goto(c, "recheck")
    /\ UNCHANGED <<cache, overruns, url, Tasks>> /\ AsConfigured

\* Taken: wait 100 ms and begin again.  An error: presign a URL and do not cache it.
Acquire(c) ==
    /\ At(c, "acquire")
    /\ \/ lock = 0 /\ lock' = LockTtl /\ Try(TRUE) /\ Goto(c, "recheck") /\ UNCHANGED url
       \/ lock > 0 /\ Try(TRUE) /\ Goto(c, "get") /\ UNCHANGED <<lock, url>>
       \/ /\ Try(FALSE) /\ \E u \in {NewUrl, NoUrl} : Hold(c, u)
          /\ Goto(c, "done") /\ UNCHANGED lock
    /\ UNCHANGED <<cache, overruns, Tasks>> /\ AsConfigured

Recheck(c) ==
    /\ At(c, "recheck")
    /\ \/ Hit /\ Hold(c, cache.url) /\ Goto(c, "release")
       \/ /\ Miss
          /\ Goto(c, IF managed THEN "submit" ELSE "presign") /\ UNCHANGED url
    /\ UNCHANGED <<Redis, Tasks>> /\ AsConfigured

\* Mutant: the queue is looked at after the send.
SubmitPast(c) ==
    /\ At(c, "submit")
    /\ IF Len(queue) <= QueueSize
       THEN queue' = Append(queue, c) /\ Goto(c, "queued") /\ UNCHANGED <<url, faults>>
       ELSE Compute(c) /\ Goto(c, "release") /\ UNCHANGED queue
    /\ UNCHANGED <<Redis, task, result>> /\ AsConfigured

\* SubmitTask: a full queue makes the client presign a URL itself, uncached.
Submit(c) ==
    /\ At(c, "submit")
    /\ IF Len(queue) < QueueSize
       THEN queue' = Append(queue, c) /\ Goto(c, "queued") /\ UNCHANGED <<url, faults>>
       ELSE Compute(c) /\ Goto(c, "release") /\ UNCHANGED queue
    /\ UNCHANGED <<Redis, task, result>> /\ AsConfigured

Receive(c) ==
    /\ At(c, "queued") /\ result[c] # Nothing
    /\ Hold(c, result[c])
    /\ result' = [result EXCEPT ![c] = Nothing]
    /\ Goto(c, "release")
    /\ UNCHANGED <<Redis, queue, task, faults>> /\ AsConfigured

\* The request's context ends; its task, if it has one, and the channel are left
\* behind.  So is the lock: ReleaseLock has the same context.
GiveUp(c) ==
    /\ pc[c] \in {"submit", "queued"}
    /\ Try(FALSE)
    /\ queue' = [k \in DOMAIN queue |-> IF queue[k] = c THEN Nothing ELSE queue[k]]
    /\ task' = [w \in Worker |-> IF task[w] = c THEN Nothing ELSE task[w]]
    /\ result' = [result EXCEPT ![c] = Nothing]
    /\ Goto(c, "done") /\ Hold(c, NoUrl)
    /\ UNCHANGED Redis /\ AsConfigured

\* Whoever fails here, or has stored the URL, has a reply to give or a lock to release.
Leave(p) == Goto(p, IF p \in Worker THEN "reply" ELSE "release")

Presign(p) ==
    /\ At(p, "presign")
    /\ Compute(p)
    /\ IF url'[p] = NoUrl THEN Leave(p) ELSE Goto(p, "store")
    /\ UNCHANGED <<Redis, Tasks>> /\ AsConfigured

\* Mutant: a key that is there is kept, and lives on.
StoreExtends(p) ==
    /\ At(p, "store")
    /\ Try(TRUE)
    /\ cache' = [url |-> IF cache = Nothing THEN url[p] ELSE cache.url, ttl |-> Ttl(expires)]
    /\ Leave(p) /\ Hold(p, IF p \in Refresher THEN Nothing ELSE url[p])
    /\ UNCHANGED <<lock, overruns, Tasks>> /\ AsConfigured

\* SetJSON; an error is logged.
Store(p) ==
    /\ At(p, "store")
    /\ \/ Try(TRUE) /\ cache' = [url |-> url[p], ttl |-> Ttl(expires)]
       \/ Try(FALSE) /\ UNCHANGED cache
    /\ Leave(p) /\ Hold(p, IF p \in Refresher THEN Nothing ELSE url[p])
    /\ UNCHANGED <<lock, overruns, Tasks>> /\ AsConfigured

\* ReleaseLock deletes the key, whoever's it is.
Release(p) ==
    /\ At(p, "release")
    /\ \/ Try(TRUE) /\ lock' = 0
       \/ Try(FALSE) /\ UNCHANGED lock
    /\ IF p \in Client THEN Goto(p, "done") /\ UNCHANGED url
                       ELSE Goto(p, "idle") /\ Hold(p, Nothing)
    /\ UNCHANGED <<cache, overruns, Tasks>> /\ AsConfigured

Done(c) ==
    /\ At(c, "done")
    /\ Goto(c, "idle") /\ Hold(c, Nothing)
    /\ UNCHANGED <<Redis, Tasks, faults>> /\ AsConfigured

\* The process of a client dies with the lock in its hands.
Crash(c) ==
    /\ c \in Holding /\ ~managed
    /\ Try(FALSE)
    /\ Goto(c, "idle") /\ Hold(c, Nothing)
    /\ UNCHANGED <<Redis, Tasks>> /\ AsConfigured

-----------------------------------------------------------------------------
(* asyncRefreshDownloadURL: refresh a key about to expire.                 *)

ReadTtl(r) ==
    /\ At(r, "ttl")
    /\ \/ Try(TRUE) /\ Goto(r, IF cache # Nothing /\ cache.ttl > Fresh THEN "idle" ELSE "lock")
       \/ Try(FALSE) /\ Goto(r, "idle")
    /\ UNCHANGED <<Redis, Tasks, url>> /\ AsConfigured

TakeLock(r) ==
    /\ At(r, "lock")
    /\ \/ lock = 0 /\ Try(TRUE) /\ lock' = LockTtl /\ Goto(r, "presign")
       \/ ((lock > 0 /\ Try(TRUE)) \/ Try(FALSE)) /\ Goto(r, "idle") /\ UNCHANGED lock
    /\ UNCHANGED <<cache, overruns, Tasks, url>> /\ AsConfigured

-----------------------------------------------------------------------------
(* A worker of the DownloadURLManager.                                     *)

Take(w) ==
    /\ At(w, "idle") /\ queue # << >>
    /\ task' = [task EXCEPT ![w] = Head(queue)] /\ queue' = Tail(queue)
    /\ Goto(w, "presign")
    /\ UNCHANGED <<Redis, result, url, faults>> /\ AsConfigured

\* The channel takes a result without a receiver.
Reply(w) ==
    /\ At(w, "reply")
    /\ result' = IF task[w] = Nothing THEN result ELSE [result EXCEPT ![task[w]] = url[w]]
    /\ task' = [task EXCEPT ![w] = Nothing]
    /\ Goto(w, "idle") /\ Hold(w, Nothing)
    /\ UNCHANGED <<Redis, queue, faults>> /\ AsConfigured

-----------------------------------------------------------------------------
Serve(c)   == \/ Get(c) \/ Acquire(c) \/ Recheck(c) \/ Submit(c) \/ Receive(c)
              \/ Presign(c) \/ Store(c) \/ Release(c) \/ Done(c)
Refresh(r) == ReadTtl(r) \/ TakeLock(r) \/ Presign(r) \/ Store(r) \/ Release(r)
Work(w)    == Take(w) \/ Presign(w) \/ Store(w) \/ Reply(w)

Next == \/ Tick
        \/ \E c \in Client : Ask(c) \/ Serve(c) \/ GiveUp(c) \/ Crash(c)
        \/ \E r \in Refresher : Refresh(r)
        \/ \E w \in Worker : Work(w)

\* Time passes; a goroutine that can run does run.
Fairness == /\ WF_vars(Tick)
            /\ \A c \in Client : WF_vars(Serve(c))
            /\ \A r \in Refresher : WF_vars(Refresh(r))
            /\ \A w \in Worker : WF_vars(Work(w))
Spec == Init /\ [][Next]_vars /\ Fairness

-----------------------------------------------------------------------------
(* Properties.                                                              *)

\* Every variable has its shape.
TypeOK ==
    /\ expires \in Expires /\ managed \in BOOLEAN
    /\ cache = Nothing \/ (cache.url \in Urls /\ cache.ttl \in Nat \cup {Forever})
    /\ lock \in 0..LockTtl
    /\ queue \in Seq(Client \cup {Nothing}) /\ Len(queue) <= QueueSize
    /\ task \in [Worker -> Client \cup {Nothing}]
    /\ result \in [Client -> Answers]
    /\ pc \in [Process -> Labels] /\ url \in [Process -> Answers]
    /\ overruns \in 0..(MaxOverruns + 1) /\ faults \in 0..MaxFaults

\* A URL answered for an `expires` that S3 grants died no longer ago than it was in
\* somebody's hands: the key is stored after the URL is presigned and lives as long
\* (download_url_service.go:91-103, file_service.go:177-184), so the time its SET took
\* is what the cache may add, and the time of a reply or of the deferred DEL
\* (file_service.go:162) what the request adds.  However long they take, the cache
\* adds nothing else.
HandedOutAlive ==
    expires \in 1..MaxValid => \A c \in Client :
        At(c, "done") /\ url[c] \in Urls /\ url[c].held <= MaxHeld
            => url[c].valid >= -url[c].held

\* One process at most makes the URL, and each lock that expires while somebody relies
\* on it lets in one more, no matter whose lock is deleted by whom afterwards
\* (redis_util.go:210-217): clients, refreshers, and the tasks of clients that left.
\* (A client whose SETNX failed presigns a URL for itself and stores nothing.)
OneMaker ==
    overruns <= MaxOverruns => Makers <= 1 + overruns

\* Requests never block each other for good, whoever dies with the lock and whatever
\* fills the queue: while some are under way, one is answered.  (One that finds the
\* lock taken asks again every 100 ms, and may find it taken each time.)
SomeoneIsServed ==
    (\E c \in Client : ~At(c, "idle"))
        ~> ((\E c \in Client : At(c, "done")) \/ (\A c \in Client : At(c, "idle")))
=============================================================================
