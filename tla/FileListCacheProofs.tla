------------------------ MODULE FileListCacheProofs ------------------------
(***************************************************************************)
(* Theorems of FileListCache, for any number of instances, requests,       *)
(* versions and shards, and any number of mishaps.                         *)
(*                                                                         *)
(* Types adds to TypeOK what each goroutine has at each label.  LockInv    *)
(* ties the lock key to the goroutine at work under it.  WholeInv says     *)
(* what Redis has of a list while it is written and while it is read: of   *)
(* the shards a goroutine has written or has yet to read, none is of       *)
(* another version, because no second writer was there.                    *)
(***************************************************************************)
EXTENDS FileListCache, TLAPS

Busy  == {"shards", "put", "preload", "write", "store"}
Fresh == {"idle", "meta", "lock", "retry", "ttl", "list"}

\* The types, and that a goroutine that works on a list has one.
Fine(t) ==
    /\ pc[t] \in Busy => list[t] \in Joint
    /\ pc[t] = "write" => n[t] <= Len(list[t])
    /\ pc[t] \in Fresh => n[t] = 0
    /\ t \in Ticks => pc[t] \in {"idle", "list", "write", "store"}

\* Parts of TypeOK.
Counters ==
    /\ faults \in Nat /\ crashes \in Nat /\ overruns \in Nat /\ evictions \in Nat
    /\ faults + crashes + overruns + evictions <= MaxMishaps

Stores ==
    /\ refreshed \in BOOLEAN /\ version \in Version
    /\ meta \in {Absent} \cup 0..MaxShards
    /\ shard \in [1..MaxShards -> Version \cup {Absent}]
    /\ lock \in BOOLEAN /\ overlapped \in BOOLEAN
    /\ local \in [Instance -> List]

Types == TypeOK /\ \A t \in Thread : Fine(t)

\* Unless a refresh has outlived it, the lock is there while somebody works under
\* it, and nobody else does.
LockInv ==
    overruns = 0 =>
        \A t \in Thread : Holding(t) => lock /\ \A u \in Thread : Holding(u) => u = t

Clean == ~overlapped /\ faults = 0 /\ crashes = 0

\* What Redis still has of these shards is of one version.
OfVersion(v, first, last) == \A i \in first..last : shard[i] \in {v, Absent}

\* Whoever writes is the only one to write or to join.
Alone == \A t, u \in Thread : Writing(t) /\ (Writing(u) \/ Joining(u)) => t = u

\* A list that is not being joined is a listing of the bucket.
Held ==
    /\ \A i \in Instance : local[i] \in Listings \cup {NoList}
    /\ \A t \in Thread : ~Joining(t) => list[t] \in Listings \cup {NoList}

\* Redis has one listing, or what is left of it, unless it is being written.
AtRest ==
    meta # Absent /\ (\A t \in Thread : ~Writing(t)) =>
        \E v \in 0..version : meta = Shards[v] /\ OfVersion(v, 1, meta)

\* What the writer has written is its listing.
Written(t) == Writing(t) => \A i \in 1..n[t] : shard[i] \in {list[t][i], Absent}

\* What a joiner has read and has yet to read is of one listing.
ReadOf(t, v) ==
    /\ n[t] = Shards[v] /\ Len(list[t]) <= n[t]
    /\ \A i \in 1..Len(list[t]) : list[t][i] = v
    /\ OfVersion(v, Len(list[t]) + 1, n[t])

Parts(t) == Written(t) /\ (Joining(t) => \E v \in 0..version : ReadOf(t, v))

Consistent == Alone /\ Held /\ AtRest /\ \A t \in Thread : Parts(t)

WholeInv == Clean => Consistent

LEMMA Threads ==
    /\ \A t \in Gets \cup Asyncs : t \notin Ticks /\ t[2] \in Request
    /\ \A t \in Ticks : t[2] \in Instance
    /\ \A t \in Gets : t \notin Asyncs
    /\ \A t \in Thread : At(t) \in Instance
  BY FileListAssumption DEF Gets, Asyncs, Ticks, Get, Async, Tick, Thread, At

LEMMA WholeJoint ==
    ASSUME NEW v \in Version
    PROVE  Whole(v) \in Joint /\ Len(Whole(v)) = Shards[v]
  BY FileListAssumption DEF Whole, Joint, Version

LEMMA Constants == 0 \in Version /\ Absent \notin Nat /\ NoList \notin Joint
  BY FileListAssumption DEF Version, Absent, NoList, Joint

LEMMA InitTypes == Init => Types /\ LockInv
<1> SUFFICES ASSUME Init PROVE Types /\ LockInv
  OBVIOUS
<1>1. TypeOK
  <2>1. MaxShards \in Nat /\ MaxMishaps \in Nat
    BY FileListAssumption
  <2>2. /\ refreshed \in BOOLEAN /\ version \in Version
        /\ meta \in {Absent} \cup 0..MaxShards
        /\ lock \in BOOLEAN /\ overlapped \in BOOLEAN
    BY Constants DEF Init
  <2>3. shard \in [1..MaxShards -> Version \cup {Absent}]
    BY DEF Init
  <2>4. local \in [Instance -> List] /\ list \in [Thread -> List]
    BY DEF Init, List
  <2>5. pc \in [Thread -> Label] /\ n \in [Thread -> 0..MaxShards]
    BY <2>1 DEF Init, Label
  <2>6. /\ faults \in Nat /\ crashes \in Nat /\ overruns \in Nat /\ evictions \in Nat
        /\ faults + crashes + overruns + evictions <= MaxMishaps
    BY <2>1 DEF Init
  <2> QED
    BY <2>2, <2>3, <2>4, <2>5, <2>6 DEF TypeOK
<1>2. \A t \in Thread : pc[t] = "idle"
  BY DEF Init
<1> QED
  BY <1>1, <1>2 DEF Types, Fine, LockInv, Holding, Busy, Fresh, Init, Ticks

LEMMA Joins ==
    ASSUME NEW s \in Joint, NEW v \in Version, Len(s) < MaxShards
    PROVE  Append(s, v) \in Joint /\ Len(Append(s, v)) = Len(s) + 1
  BY FileListAssumption DEF Joint

LEMMA EmptyJoint == <<>> \in Joint
  BY FileListAssumption DEF Joint

LEMMA ItemOf ==
    ASSUME NEW s \in Joint
    PROVE  /\ Len(s) \in 0..MaxShards
           /\ \A i \in 1..Len(s) : s[i] \in Version
  BY FileListAssumption DEF Joint

LEMMA Budget ==
    ASSUME TypeOK, NEW ok \in BOOLEAN, Try(ok)
    PROVE  Counters'
  BY FileListAssumption DEF TypeOK, Try, Mishap, Counters

LEMMA TypesStep == Types /\ [Next]_vars => Types'
<1> SUFFICES ASSUME Types, [Next]_vars PROVE Types'
  OBVIOUS
<1> USE FileListAssumption, Threads, Constants 
    DEF Types, TypeOK, Fine, Counters, Stores, Label, List
<1>1. ASSUME NEW r \in Request, Begin(r) PROVE Types'
  BY ZenonT(40), <1>1 DEF Begin, Get, Gets, Thread, Goto, redis, budget, Busy, Fresh
<1>2. ASSUME NEW t \in Gets, ReadMeta(t) PROVE Types'
  <2> USE <1>2 DEF ReadMeta, Overlap, Thread, Goto, redis, Busy, Fresh
  <2>1. Counters'
    BY Budget
  <2>2. Stores'
    BY EmptyJoint
  <2>3. pc' \in [Thread -> Label]
    OBVIOUS
  <2>4. list' \in [Thread -> List]
    BY EmptyJoint
  <2>5. n' \in [Thread -> 0..MaxShards]
    BY ZenonT(40), EmptyJoint
  <2>6. \A u \in Thread : Fine(u)'
    BY SMTT(30), EmptyJoint
  <2> QED
    BY <2>1, <2>2, <2>3, <2>4, <2>5, <2>6
<1>3. ASSUME NEW t \in Gets, ReadShard(t) PROVE Types'
  <2> USE <1>3 DEF ReadShard, Joining, Thread, Goto, redis, Busy, Fresh
  <2>1. Counters'
    BY Budget
  <2>2. Stores'
    BY Joins
  <2>3. pc' \in [Thread -> Label]
    OBVIOUS
  <2>4. list[t] \in Joint /\ \A u \in Thread \ {t} : Fine(u)'
    OBVIOUS
  <2>5. CASE pc'[t] = "shards"
    <3>1. Len(list[t]) + 1 \in 1..n[t] /\ n[t] \in 0..MaxShards
      BY <2>4, <2>5, ItemOf
    <3>2. shard[Len(list[t]) + 1] \in Version /\ Len(list[t]) < MaxShards
      BY <2>5, <3>1
    <3> DEFINE longer == Append(list[t], shard[Len(list[t]) + 1])
    <3>3. longer \in Joint
      BY <2>4, <3>2, Joins
    <3>4. list' = [list EXCEPT ![t] = longer] /\ UNCHANGED <<pc, n>>
      BY <2>5
    <3> QED
      BY <2>1, <2>2, <2>4, <3>3, <3>4
  <2>6. CASE pc'[t] # "shards"
    <3>1. /\ pc' = [pc EXCEPT ![t] = "lock"]
          /\ list' = [list EXCEPT ![t] = NoList] /\ n' = [n EXCEPT ![t] = 0]
      BY <2>6
    <3>2. list' \in [Thread -> List] /\ n' \in [Thread -> 0..MaxShards]
      BY <3>1
    <3>3. Fine(t)'
      BY <3>1
    <3> QED
      BY <2>1, <2>2, <2>3, <2>4, <3>2, <3>3
  <2> QED
    BY <2>5, <2>6
<1>4. ASSUME NEW r \in Request, Joined(r) PROVE Types'
  <2> DEFINE t == Get(r)
             a == Async(r)
  <2>1. /\ t \in Thread /\ a \in Thread /\ a # t /\ t \notin Ticks /\ a \notin Ticks
    BY DEF Get, Async, Gets, Asyncs, Thread
  <2>2. /\ pc[t] = "shards" /\ Len(list[t]) = n[t]
        /\ pc' = [pc EXCEPT ![t] = "put", ![a] = IF @ = "idle" THEN "ttl" ELSE @]
        /\ UNCHANGED <<refreshed, version, redis, local, list, n, overlapped, budget>>
    BY <1>4 DEF Joined, Joining
  <2> HIDE DEF t, a
  <2>3. Counters' /\ Stores' /\ list' \in [Thread -> List] /\ n' \in [Thread -> 0..MaxShards]
    BY <2>2 DEF redis, budget
  <2>4. pc' \in [Thread -> Label]
    BY <2>1, <2>2
  <2>5. pc'[t] = "put" /\ (pc'[a] = pc[a] \/ pc'[a] = "ttl")
    BY <2>1, <2>2
  <2>6. \A u \in Thread \ {t, a} : pc'[u] = pc[u]
    BY <2>2
  <2>7. \A u \in Thread : Fine(u)'
    BY <2>1, <2>2, <2>5, <2>6 DEF Busy, Fresh
  <2> QED BY <2>3, <2>4, <2>7
<1>5. ASSUME NEW t \in Gets, Put(t) \/ PreloadSets(t) PROVE Types'
  <2> USE <1>5
      DEF Put, PreloadSets, Returned, Done, Goto, Thread, redis, budget, Busy, Fresh
  <2>1. Counters'
    OBVIOUS
  <2>2. Stores'
    OBVIOUS
  <2>3. pc' \in [Thread -> Label]
    OBVIOUS
  <2>4. list' \in [Thread -> List]
    OBVIOUS
  <2>5. n' \in [Thread -> 0..MaxShards]
    OBVIOUS
  <2>6. \A u \in Thread : Fine(u)'
    BY SMTT(30)
  <2> QED
    BY <2>1, <2>2, <2>3, <2>4, <2>5, <2>6
<1>6. ASSUME NEW t \in Gets, LockFails(t) PROVE Types'
  <2> USE <1>6 DEF LockFails, Done, Goto, Thread, redis, Busy, Fresh
  <2>1. Counters'
    BY Budget
  <2>2. Stores'
    BY WholeJoint
  <2>3. pc' \in [Thread -> Label]
    OBVIOUS
  <2>4. list' \in [Thread -> List]
    BY ZenonT(40), WholeJoint
  <2>5. n' \in [Thread -> 0..MaxShards]
    BY WholeJoint
  <2>6. \A u \in Thread : Fine(u)'
    <3>1. Fine(t)' /\ \A u \in Thread \ {t} : pc'[u] = pc[u] /\ list'[u] = list[u]
      BY WholeJoint
    <3>2. \A u \in Thread \ {t} : n'[u] = n[u]
      OBVIOUS
    <3> QED
      BY <3>1, <3>2
  <2> QED
    BY <2>1, <2>2, <2>3, <2>4, <2>5, <2>6
<1>7. ASSUME NEW t \in Gets, Lock(t) \/ Retry(t) PROVE Types'
  BY ZenonT(40), <1>7 DEF Lock, Retry, Goto, Thread, redis, budget, Busy, Fresh
<1>8. ASSUME NEW t \in Asyncs, AsyncLock(t) PROVE Types'
  BY <1>8 DEF AsyncLock, Goto, Thread, redis, budget, Busy, Fresh
<1>9. ASSUME NEW t \in Thread, Ticked(t) PROVE Types'
  BY <1>9 DEF Ticked, Goto, redis, budget, Busy, Fresh
<1>10. ASSUME NEW t \in Thread, ListObjects(t) PROVE Types'
  <2> USE <1>10 DEF ListObjects, Overlap, Goto, redis, Busy, Fresh
  <2>1. Counters'
    BY Budget
  <2>2. Stores'
    BY WholeJoint
  <2>3. pc' \in [Thread -> Label]
    OBVIOUS
  <2>4. list' \in [Thread -> List]
    BY WholeJoint
  <2>5. n' \in [Thread -> 0..MaxShards]
    BY WholeJoint
  <2>6. n[t] = 0 /\ Len(Whole(version)) \in Nat /\ pc'[t] = "write"
    BY WholeJoint
  <2>7. \A u \in Thread : Fine(u)'
    BY <2>6, WholeJoint
  <2> QED
    BY <2>1, <2>2, <2>3, <2>4, <2>5, <2>7
<1>11. ASSUME NEW t \in Thread, ListObjectsFails(t) PROVE Types'
  BY ZenonT(40), <1>11, Budget DEF ListObjectsFails, After, Done, Goto, redis, Busy, Fresh
<1>12. ASSUME NEW t \in Thread, WriteShard(t) PROVE Types'
  <2> USE <1>12 DEF WriteShard, Writing, redis, Busy, Fresh
  <2>1. Counters'
    BY Budget
  <2>2. Stores'
    BY ItemOf
  <2>3. pc' \in [Thread -> Label]
    OBVIOUS
  <2>4. list' \in [Thread -> List]
    BY ItemOf
  <2>5. n' \in [Thread -> 0..MaxShards]
    BY ItemOf
  <2>6. \A u \in Thread : Fine(u)'
    BY ItemOf
  <2> QED
    BY <2>1, <2>2, <2>3, <2>4, <2>5, <2>6
<1>13. ASSUME NEW t \in Thread, WriteMeta(t) \/ WriteFails(t) PROVE Types'
  <2> USE <1>13 DEF WriteMeta, WriteFails, Writing, Goto, redis, Busy, Fresh
  <2>1. Counters'
    BY Budget
  <2>2. Stores'
    <3>1. Len(list[t]) \in 0..MaxShards
      BY ItemOf
    <3> QED
      BY <3>1
  <2>3. pc' \in [Thread -> Label]
    OBVIOUS
  <2>4. list' \in [Thread -> List]
    BY ItemOf
  <2>5. n' \in [Thread -> 0..MaxShards]
    BY ItemOf
  <2>6. \A u \in Thread : Fine(u)'
    BY ItemOf
  <2> QED
    BY <2>1, <2>2, <2>3, <2>4, <2>5, <2>6
<1>14. ASSUME NEW t \in Thread, Store(t) PROVE Types'
  <2> USE <1>14 DEF Store, After, Done, Goto, redis, budget, Busy, Fresh
  <2>1. Counters'
    OBVIOUS
  <2>2. Stores'
    OBVIOUS
  <2>3. pc' \in [Thread -> Label]
    OBVIOUS
  <2>4. list' \in [Thread -> List]
    BY ZenonT(40)
  <2>5. n' \in [Thread -> 0..MaxShards]
    BY SMTT(30), 0 \in 0..MaxShards
  <2>6. \A u \in Thread : Fine(u)'
    OBVIOUS
  <2> QED
    BY <2>1, <2>2, <2>3, <2>4, <2>5, <2>6
<1>15. ASSUME NEW t \in Thread, Unlock(t) PROVE Types'
  <2> USE <1>15 DEF Unlock, Returned, Done, Goto, redis, Busy, Fresh
  <2>1. Counters'
    BY Budget
  <2>2. Stores'
    OBVIOUS
  <2>3. pc' \in [Thread -> Label]
    OBVIOUS
  <2>4. list' \in [Thread -> List]
    OBVIOUS
  <2>5. n' \in [Thread -> 0..MaxShards]
    OBVIOUS
  <2>6. \A u \in Thread : Fine(u)'
    OBVIOUS
  <2> QED
    BY <2>1, <2>2, <2>3, <2>4, <2>5, <2>6
<1>16. ASSUME Publish \/ KeyExpires \/ LockExpires PROVE Types'
  <2>1. CASE Publish
    BY <2>1 DEF Publish, redis, budget, Version
  <2>2. CASE KeyExpires
    BY <2>2 DEF KeyExpires, budget
  <2>3. CASE LockExpires
    BY <2>3 DEF LockExpires, budget
  <2> QED
    BY <1>16, <2>1, <2>2, <2>3
<1>17. ASSUME LockOverrun PROVE Types'
  <2>1. Counters'
    BY <1>17 DEF LockOverrun, Mishap
  <2> QED
    BY <1>17, <2>1 DEF LockOverrun
<1>18. ASSUME NEW i \in Instance, Evict(i) PROVE Types'
  BY <1>18 DEF Evict, Mishap, redis
<1>19. ASSUME NEW i \in Instance, Crash(i) PROVE Types'
  BY <1>19 DEF Crash, Mishap, redis, Busy, Fresh
<1>20. ASSUME UNCHANGED vars PROVE Types'
  BY <1>20 DEF vars, redis, budget
<1> QED
  BY <1>1, <1>2, <1>3, <1>4, <1>5, <1>6, <1>7, <1>8, <1>9, <1>10, <1>11, <1>12,
     <1>13, <1>14, <1>15, <1>16, <1>17, <1>18, <1>19, <1>20
     DEF Next, GetStep, Refresh, Gets, Asyncs

\* A step that takes nobody under the lock and leaves it alone.
Quiet ==
    /\ overruns' = overruns /\ lock' = lock
    /\ \A u \in Thread : Holding(u)' => Holding(u)

\* Of the steps, only those that take or give back the lock, or lose it, matter.
LEMMA LockStep == Types /\ LockInv /\ [Next]_vars => LockInv'
<1> SUFFICES ASSUME Types, LockInv, [Next]_vars PROVE LockInv'
  OBVIOUS
<1>0. Quiet => LockInv'
  BY DEF Quiet, LockInv
<1> USE Threads DEF Holding, Types, TypeOK, Fine, redis, budget, Goto, Done, Try
<1>1. ASSUME NEW r \in Request, Begin(r) PROVE Quiet
  BY <1>1 DEF Begin, Quiet, Get, Gets, Thread
<1>2. ASSUME NEW t \in Gets, ReadMeta(t) PROVE Quiet
  BY <1>2 DEF ReadMeta, Quiet, Thread
<1>3. ASSUME NEW t \in Gets, ReadShard(t) PROVE Quiet
  BY <1>3 DEF ReadShard, Joining, Quiet, Thread
<1>4. ASSUME NEW r \in Request, Joined(r) PROVE Quiet
  BY <1>4 DEF Joined, Quiet, Get, Async, Gets, Asyncs, Thread
<1>5. ASSUME NEW t \in Gets, Put(t) \/ PreloadSets(t) PROVE Quiet
  BY <1>5 DEF Put, PreloadSets, Returned, Quiet, Thread
<1>6. ASSUME NEW t \in Gets, LockFails(t) PROVE Quiet
  BY <1>6 DEF LockFails, Quiet, Thread
<1>7. ASSUME NEW t \in Gets, Retry(t) PROVE Quiet
  BY <1>7 DEF Retry, Quiet, Thread
<1>8. ASSUME NEW t \in Thread, Ticked(t) PROVE Quiet
  BY <1>8 DEF Ticked, Quiet
<1>9. ASSUME NEW t \in Thread, ListObjects(t) PROVE Quiet
  BY <1>9 DEF ListObjects, Quiet
<1>10. ASSUME NEW t \in Thread, ListObjectsFails(t) PROVE Quiet
  BY <1>10 DEF ListObjectsFails, After, Quiet
<1>11. ASSUME NEW t \in Thread, WriteShard(t) PROVE Quiet
  BY <1>11 DEF WriteShard, Quiet
<1>12. ASSUME NEW t \in Thread, WriteMeta(t) \/ WriteFails(t) PROVE Quiet
  BY <1>12 DEF WriteMeta, WriteFails, Writing, Quiet
<1>13. ASSUME NEW t \in Thread, Store(t) PROVE Quiet
  BY <1>13 DEF Store, After, Quiet
<1>14. ASSUME Publish \/ KeyExpires PROVE Quiet
  BY <1>14 DEF Publish, KeyExpires, Quiet
<1>15. ASSUME NEW i \in Instance, Evict(i) \/ Crash(i) PROVE Quiet
  BY <1>15 DEF Evict, Crash, Quiet
<1>16. ASSUME UNCHANGED vars PROVE Quiet
  BY <1>16 DEF vars, Quiet
<1>17. ASSUME NEW t \in Thread, Lock(t) \/ AsyncLock(t) PROVE LockInv'
  BY <1>17 DEF Lock, AsyncLock, LockInv
<1>18. ASSUME NEW t \in Thread, Unlock(t) PROVE LockInv'
  <2>1. Holding(t) /\ ~Holding(t)' /\ \A u \in Thread \ {t} : Holding(u)' = Holding(u)
    BY <1>18 DEF Unlock, Returned
  <2> QED
    BY <1>18, <2>1 DEF Unlock, LockInv
<1>19. ASSUME LockExpires \/ LockOverrun PROVE LockInv'
  BY <1>19 DEF LockExpires, LockOverrun, LockInv
<1> QED
  BY <1>0, <1>1, <1>2, <1>3, <1>4, <1>5, <1>6, <1>7, <1>8, <1>9, <1>10, <1>11, <1>12,
     <1>13, <1>14, <1>15, <1>16, <1>17, <1>18, <1>19
     DEF Next, GetStep, Refresh, Gets, Asyncs, Thread

\* What went wrong is not forgotten.
LEMMA CleanStep == Types /\ [Next]_vars /\ Clean' => Clean /\ faults' = faults
<1> SUFFICES ASSUME Types, [Next]_vars, Clean' PROVE Clean /\ faults' = faults
  OBVIOUS
<1> USE DEF Types, TypeOK, Clean, Try, budget
<1>1. ASSUME NEW r \in Request, Begin(r) \/ Joined(r) PROVE Clean /\ faults' = faults
  BY <1>1 DEF Begin, Joined
<1>2. ASSUME NEW t \in Thread, ReadMeta(t) PROVE Clean /\ faults' = faults
  BY <1>2 DEF ReadMeta, Overlap
<1>3. ASSUME NEW t \in Thread, ReadShard(t) \/ LockFails(t) PROVE Clean /\ faults' = faults
  BY <1>3 DEF ReadShard, LockFails
<1>4. ASSUME NEW t \in Thread,
             Put(t) \/ PreloadSets(t) \/ Lock(t) \/ Retry(t) \/ AsyncLock(t) \/ Ticked(t)
      PROVE  Clean /\ faults' = faults
  BY <1>4 DEF Put, PreloadSets, Lock, Retry, AsyncLock, Ticked
<1>5. ASSUME NEW t \in Thread, ListObjects(t) PROVE Clean /\ faults' = faults
  BY <1>5 DEF ListObjects, Overlap
<1>6. ASSUME NEW t \in Thread, ListObjectsFails(t) \/ WriteShard(t)
      PROVE  Clean /\ faults' = faults
  BY <1>6 DEF ListObjectsFails, WriteShard
<1>7. ASSUME NEW t \in Thread, WriteMeta(t) \/ WriteFails(t) PROVE Clean /\ faults' = faults
  BY <1>7 DEF WriteMeta, WriteFails
<1>8. ASSUME NEW t \in Thread, Store(t) \/ Unlock(t) PROVE Clean /\ faults' = faults
  <2>1. CASE Store(t)
    BY <2>1 DEF Store
  <2>2. CASE Unlock(t)
    BY <2>2 DEF Unlock
  <2> QED
    BY <1>8, <2>1, <2>2
<1>9. ASSUME Publish \/ KeyExpires \/ LockExpires \/ LockOverrun
      PROVE  Clean /\ faults' = faults
  BY <1>9 DEF Publish, KeyExpires, LockExpires, LockOverrun
<1>10. ASSUME NEW i \in Instance, Evict(i) \/ Crash(i) PROVE Clean /\ faults' = faults
  BY <1>10 DEF Evict, Crash
<1>11. ASSUME UNCHANGED vars PROVE Clean /\ faults' = faults
  BY <1>11 DEF vars
<1> QED
  BY <1>1, <1>2, <1>3, <1>4, <1>5, <1>6, <1>7, <1>8, <1>9, <1>10, <1>11
     DEF Next, GetStep, Refresh, Gets, Asyncs, Thread

\* A step that begins no writing and no joining and ends no writing, and takes at
\* most something away from Redis.
Calm ==
    /\ UNCHANGED <<version, overlapped>>
    /\ meta' \in {meta, Absent} /\ \A i \in 1..MaxShards : shard'[i] \in {shard[i], Absent}
    /\ \A u \in Thread :
         /\ Writing(u)' = Writing(u) /\ (Joining(u)' => Joining(u))
         /\ Writing(u)' \/ Joining(u)' => list'[u] = list[u] /\ n'[u] = n[u]

LEMMA CalmStep == Types /\ Types' /\ Consistent /\ Calm /\ Held' => Consistent'
<1> SUFFICES ASSUME Types, Types', Consistent, Calm, Held' PROVE Consistent'
  OBVIOUS
<1> USE Constants, FileListAssumption DEF Types, TypeOK, Consistent, Calm
<1>1. Alone'
  BY DEF Alone
<1>2. ASSUME NEW v \in Version, NEW i \in Nat \ {0}, NEW j \in 0..MaxShards,
             NEW k \in i..j, shard[k] \in {v, Absent}
      PROVE  shard'[k] \in {v, Absent}
  BY <1>2
<1>3. AtRest'
  <2> SUFFICES ASSUME meta' # Absent, \A t \in Thread : ~Writing(t)'
               PROVE  \E v \in 0..version : meta' = Shards[v] /\ OfVersion(v, 1, meta)'
    BY DEF AtRest
  <2>1. meta' = meta /\ meta \in 0..MaxShards /\ \A t \in Thread : ~Writing(t)
    OBVIOUS
  <2>2. PICK v \in 0..version : meta = Shards[v] /\ OfVersion(v, 1, meta)
    BY <2>1 DEF AtRest
  <2>3. v \in Version
    BY DEF Version
  <2>4. OfVersion(v, 1, meta)'
    BY <1>2, <2>1, <2>2, <2>3 DEF OfVersion
  <2> QED
    BY <2>1, <2>2, <2>4
<1>4. ASSUME NEW t \in Thread PROVE Written(t)'
  BY <1>4 DEF Written, Parts
<1>5. ASSUME NEW t \in Thread, Joining(t)' PROVE \E v \in 0..version : ReadOf(t, v)'
  <2>1. PICK v \in 0..version : ReadOf(t, v)
    BY <1>5 DEF Parts
  <2>2. list[t] \in Joint /\ v \in Version
    BY <1>5 DEF Fine, Busy, Joining, Version
  <2>3. Len(list[t]) \in Nat
    BY <2>2, ItemOf
  <2>4. OfVersion(v, Len(list[t]) + 1, n[t])'
    <3>1. Len(list[t]) + 1 \in Nat \ {0} /\ n[t] \in 0..MaxShards
      BY <2>3
    <3>2. list'[t] = list[t] /\ n'[t] = n[t]
      BY <1>5
    <3> QED
      BY <1>2, <2>1, <2>2, <3>1, <3>2 DEF ReadOf, OfVersion
  <2> QED
    BY <1>5, <2>1, <2>4 DEF ReadOf
<1> QED
  BY <1>1, <1>3, <1>4, <1>5 DEF Parts

LEMMA IsWhole ==
    ASSUME NEW v \in Version, NEW s \in Joint, Len(s) = Shards[v],
           \A i \in 1..Len(s) : s[i] = v
    PROVE  s = Whole(v)
<1>1. s \in Seq(Version) /\ Len(s) \in Nat
  BY FileListAssumption DEF Joint
<1>2. s = [i \in 1..Len(s) |-> s[i]]
  BY <1>1
<1> QED
  BY <1>2 DEF Whole

\* The steps that make no list and put nothing into Redis.
LEMMA CalmActions ==
    ASSUME Types, Consistent, Clean', faults' = faults,
           \/ \E r \in Request : Begin(r) \/ Joined(r) \/ AsyncLock(Async(r))
           \/ \E t \in Gets :
                \/ (ReadMeta(t) \/ ReadShard(t)) /\ pc'[t] = "lock"
                \/ Put(t) \/ PreloadSets(t) \/ LockFails(t) \/ Lock(t) \/ Retry(t)
           \/ \E t \in Thread :
                \/ Ticked(t) \/ ListObjectsFails(t) \/ WriteFails(t)
                \/ Store(t) \/ Unlock(t)
           \/ KeyExpires \/ LockExpires \/ LockOverrun
           \/ \E i \in Instance : Evict(i) \/ Crash(i)
           \/ UNCHANGED vars
    PROVE  Calm /\ Held'
<1> USE Threads, Constants, FileListAssumption
    DEF Types, TypeOK, Consistent, Calm, Held, Writing, Joining, redis, budget, Goto, Done,
        Try
<1>0. version' = version => Listings' = Listings
  BY DEF Listings
<1>1. ASSUME NEW r \in Request, Begin(r) PROVE Calm /\ Held'
  BY <1>0, <1>1 DEF Begin, Get, Gets, Thread
<1>2. ASSUME NEW r \in Request, Joined(r) PROVE Calm /\ Held'
  <2> DEFINE t == Get(r)
  <2>1. t \in Thread /\ Joining(t) /\ Len(list[t]) = n[t]
    BY <1>2 DEF Joined, Get, Gets, Thread
  <2>2. PICK v \in 0..version : ReadOf(t, v)
    BY <2>1 DEF Parts
  <2>3. list[t] = Whole(v)
    <3>1. v \in Version /\ list[t] \in Joint
      BY <2>1 DEF Version, Fine, Busy
    <3> QED
      BY <2>1, <2>2, <3>1, IsWhole DEF ReadOf
  <2>4. list[t] \in Listings
    BY <2>3 DEF Listings
  <2>5. Calm
    BY <1>2, <2>1 DEF Joined, Get, Async, Gets, Asyncs, Thread
  <2> QED
    BY <1>0, <1>2, <2>1, <2>4, <2>5 DEF Joined
<1>3. ASSUME NEW t \in Thread, AsyncLock(t) \/ Lock(t) \/ Ticked(t) PROVE Calm /\ Held'
  BY <1>0, <1>3 DEF AsyncLock, Lock, Ticked
<1>4. ASSUME NEW t \in Gets, ReadMeta(t), pc'[t] = "lock" PROVE Calm /\ Held'
  BY <1>0, <1>4 DEF ReadMeta, Thread
<1>5. ASSUME NEW t \in Gets, ReadShard(t), pc'[t] = "lock" PROVE Calm /\ Held'
  BY SMTT(30), <1>0, <1>5 DEF ReadShard, Thread
<1>6. ASSUME NEW t \in Gets, Put(t) \/ PreloadSets(t) PROVE Calm /\ Held'
  BY <1>0, <1>6 DEF Put, PreloadSets, Returned, Thread
<1>7. ASSUME NEW t \in Gets, Retry(t) PROVE Calm /\ Held'
  BY <1>0, <1>7 DEF Retry, Thread
<1>8. ASSUME NEW t \in Thread, LockFails(t) \/ ListObjectsFails(t) \/ WriteFails(t)
      PROVE  FALSE
  BY <1>8 DEF LockFails, ListObjectsFails, WriteFails
<1>9. ASSUME NEW t \in Thread, Store(t) PROVE Calm /\ Held'
  BY ZenonT(40), <1>0, <1>9 DEF Store, After
<1>10. ASSUME NEW t \in Thread, Unlock(t) PROVE Calm /\ Held'
  BY <1>0, <1>10 DEF Unlock, Returned
<1>11. ASSUME KeyExpires \/ LockExpires \/ LockOverrun PROVE Calm /\ Held'
  BY <1>0, <1>11 DEF KeyExpires, LockExpires, LockOverrun
<1>12. ASSUME NEW i \in Instance, Evict(i) PROVE Calm /\ Held'
  BY <1>0, <1>12 DEF Evict
<1>13. ASSUME NEW i \in Instance, Crash(i) PROVE FALSE
  BY <1>13 DEF Crash, Clean
<1>14. ASSUME UNCHANGED vars PROVE Calm /\ Held'
  BY <1>0, <1>14 DEF vars
<1> QED
  BY <1>1, <1>2, <1>3, <1>4, <1>5, <1>6, <1>7, <1>8, <1>9, <1>10, <1>11, <1>12, <1>13,
     <1>14 DEF Thread, Asyncs

\* The bucket changes: a listing it gave stays one.
LEMMA PublishStep == ASSUME Types, Consistent, Publish PROVE Consistent'
<1> USE DEF Types, TypeOK, Publish, redis, budget, Consistent
<1>1. version \in Nat /\ version' = version + 1 /\ Listings \subseteq Listings'
  BY FileListAssumption DEF Listings, Version
<1>2. 0..version \subseteq 0..version'
  BY <1>1
<1>3. Alone' /\ Held'
  BY <1>1 DEF Alone, Held, Writing, Joining
<1>4. AtRest'
  BY <1>2 DEF AtRest, OfVersion, Writing
<1>5. ASSUME NEW t \in Thread PROVE Parts(t)'
  BY <1>2 DEF Parts, Written, ReadOf, OfVersion, Writing, Joining
<1> QED
  BY <1>3, <1>4, <1>5

\* A join begins: nobody writes, so Redis is at rest.
LEMMA JoinBegins ==
    ASSUME Types, Consistent, Clean', NEW t \in Gets, ReadMeta(t), pc'[t] = "shards"
    PROVE  Consistent'
<1> USE Threads, Constants DEF Types, TypeOK, ReadMeta, redis, Goto, Consistent, Thread
<1>1. \A u \in Thread : ~Writing(u) /\ ~Writing(u)'
  BY DEF Overlap, Clean, Writing
<1>2. meta # Absent /\ list'[t] = <<>> /\ n'[t] = meta
  OBVIOUS
<1>3. Alone' /\ Held' /\ AtRest'
  BY <1>1 DEF Alone, Held, AtRest, OfVersion, Listings, Joining
<1>4. \E v \in 0..version : ReadOf(t, v)'
  <2>1. PICK v \in 0..version : meta = Shards[v] /\ OfVersion(v, 1, meta)
    BY <1>1, <1>2 DEF AtRest
  <2>2. Len(<<>>) = 0 /\ meta \in Nat
    BY <1>2, FileListAssumption
  <2>3. ReadOf(t, v)'
    BY <1>2, <2>1, <2>2 DEF ReadOf, OfVersion
  <2> QED
    BY <2>3
<1>5. ASSUME NEW u \in Thread \ {t} PROVE Parts(u)'
  <2>1. /\ pc'[u] = pc[u] /\ list'[u] = list[u] /\ n'[u] = n[u]
        /\ shard' = shard /\ version' = version
    BY <1>5
  <2>2. Parts(u)
    BY <1>5
  <2> QED
    BY <2>1, <2>2 DEF Parts, Written, ReadOf, OfVersion, Writing, Joining
<1>6. Parts(t)'
  BY <1>1, <1>4 DEF Parts, Written
<1> QED
  BY <1>3, <1>5, <1>6

LEMMA JoinGoesOn ==
    ASSUME Types, Consistent, Clean', NEW t \in Gets, ReadShard(t), pc'[t] # "lock"
    PROVE  Consistent'
<1> USE Threads, Constants
    DEF Types, TypeOK, ReadShard, redis, Goto, Consistent, Thread, Joining
<1> DEFINE i == Len(list[t]) + 1
<1>1. PICK v \in 0..version : ReadOf(t, v)
  BY DEF Parts
<1>2. v \in Version /\ list[t] \in Joint /\ Len(list[t]) \in Nat
  <2>1. v \in Version
    BY FileListAssumption DEF Version
  <2>2. list[t] \in Joint
    BY DEF Fine, Busy
  <2> QED
    BY <2>1, <2>2, ItemOf
<1>3. shard[i] = v /\ i <= n[t] /\ n[t] \in 0..MaxShards
  BY <1>1, <1>2 DEF ReadOf, OfVersion
<1>4. list' = [list EXCEPT ![t] = Append(@, v)] /\ UNCHANGED <<pc, n, version, overlapped>>
  BY <1>3
<1>5. /\ Len(list'[t]) = Len(list[t]) + 1 /\ list'[t][i] = v
      /\ \A k \in 1..Len(list[t]) : list'[t][k] = list[t][k]
  <2>1. list[t] \in Seq(Version)
    BY <1>2 DEF Joint
  <2> QED
    BY <1>2, <1>4, <2>1
<1>6. ReadOf(t, v)'
  <2>1. \A k \in 1..Len(list'[t]) : k = i \/ k \in 1..Len(list[t])
    BY <1>2, <1>5
  <2> QED
    BY <1>1, <1>2, <1>3, <1>4, <1>5, <2>1 DEF ReadOf, OfVersion
<1>7. Alone' /\ Held' /\ AtRest'
  BY <1>4 DEF Alone, Held, AtRest, OfVersion, Listings, Writing
<1>8. ASSUME NEW u \in Thread \ {t} PROVE Parts(u)'
  BY <1>4, <1>8 DEF Parts, Written, ReadOf, OfVersion, Writing
<1>9. Parts(t)'
  BY <1>4, <1>6 DEF Parts, Written, Writing
<1> QED
  BY <1>7, <1>8, <1>9

\* A writing begins: nobody writes and nobody joins.
LEMMA WriteBegins ==
    ASSUME Types, Consistent, Clean', NEW t \in Thread, ListObjects(t)
    PROVE  Consistent'
<1> USE DEF Types, TypeOK, ListObjects, redis, Goto, Consistent
<1>1. \A u \in Thread : ~Joining(u) /\ ~Writing(u)
  BY DEF Overlap, Clean, Writing
<1>2. \A u \in Thread : ~Joining(u)' /\ (Writing(u)' <=> u = t)
  BY <1>1 DEF Joining, Writing
<1>3. n'[t] = 0 /\ Listings' = Listings /\ Whole(version) \in Listings
  BY FileListAssumption DEF Fine, Fresh, Listings, Version
<1>4. Alone' /\ Held' /\ AtRest'
  BY <1>1, <1>2, <1>3 DEF Alone, Held, AtRest
<1>5. \A u \in Thread : Parts(u)'
  BY <1>2, <1>3 DEF Parts, Written
<1> QED
  BY <1>4, <1>5

LEMMA WriteGoesOn ==
    ASSUME Types, Consistent, Clean', NEW t \in Thread, WriteShard(t)
    PROVE  Consistent'
<1> USE DEF Types, TypeOK, WriteShard, redis, Consistent
<1>1. \A u \in Thread : ~Joining(u) /\ (Writing(u) <=> u = t)
  <2>1. Writing(t) /\ ~Joining(t)
    BY DEF Writing, Joining
  <2> QED
    BY <2>1 DEF Alone
<1>2. \A u \in Thread : ~Joining(u)' /\ (Writing(u)' <=> u = t)
  BY <1>1 DEF Joining, Writing
<1>3. Alone' /\ Held' /\ AtRest'
  BY <1>1, <1>2 DEF Alone, Held, AtRest, Listings, Joining
<1>4. Written(t)'
  <2>1. n[t] \in Nat /\ n'[t] = n[t] + 1 /\ n[t] + 1 \in 1..MaxShards
    BY FileListAssumption, ItemOf DEF Fine, Busy, Writing
  <2>2. \A i \in 1..n'[t] : i = n[t] + 1 \/ i \in 1..n[t]
    BY <2>1
  <2>3. ASSUME NEW i \in 1..n[t] PROVE i \in 1..MaxShards /\ i # n[t] + 1
    BY <2>1, FileListAssumption
  <2>4. shard'[n[t] + 1] = list[t][n[t] + 1]
    BY <2>1
  <2>5. \A i \in 1..n[t] : shard'[i] = shard[i]
    BY <2>1, <2>3
  <2> QED
    BY <1>1, <2>2, <2>4, <2>5 DEF Written, Parts
<1> QED
  BY <1>2, <1>3, <1>4 DEF Parts, Written

\* A writing ends: Redis is at rest again, with the listing of the writer.
LEMMA WriteEnds ==
    ASSUME Types, Consistent, Clean', NEW t \in Thread, WriteMeta(t)
    PROVE  Consistent'
<1> USE DEF Types, TypeOK, WriteMeta, redis, Goto, Consistent
<1>1. \A u \in Thread : ~Joining(u) /\ (Writing(u) <=> u = t)
  <2>1. Writing(t) /\ ~Joining(t)
    BY DEF Writing, Joining
  <2> QED
    BY <2>1 DEF Alone
<1>2. \A u \in Thread : ~Joining(u)' /\ ~Writing(u)'
  BY <1>1 DEF Joining, Writing
<1>3. Alone' /\ Held'
  BY <1>1, <1>2 DEF Alone, Held, Listings, Joining
<1>4. PICK v \in 0..version : list[t] = Whole(v)
  <2>1. list[t] \in Joint
    BY DEF Fine, Busy, Writing
  <2> QED
    BY <1>1, <2>1, Constants DEF Held, Listings
<1>5. v \in Version /\ Len(list[t]) = Shards[v]
  <2>1. v \in Version
    BY FileListAssumption DEF Version
  <2> QED
    BY <1>4, <2>1, WholeJoint
<1>6. OfVersion(v, 1, meta)'
  BY <1>4, <1>5 DEF OfVersion, Parts, Written, Whole
<1>7. AtRest'
  BY <1>5, <1>6 DEF AtRest
<1> QED
  BY <1>2, <1>3, <1>7 DEF Parts, Written

LEMMA WholeStep == Types /\ WholeInv /\ [Next]_vars => WholeInv'
<1> SUFFICES ASSUME Types, Consistent, [Next]_vars, Clean' PROVE Consistent'
  BY CleanStep DEF WholeInv
<1>1. Types' /\ faults' = faults
  BY TypesStep, CleanStep
<1>2. CASE \E t \in Gets : ReadMeta(t)
  <2>1. PICK t \in Gets : ReadMeta(t)
    BY <1>2
  <2>2. pc'[t] \in {"lock", "shards"}
    BY <2>1 DEF ReadMeta, Goto, Types, TypeOK, Thread
  <2> QED
    BY <1>1, <2>1, <2>2, JoinBegins, CalmActions, CalmStep
<1>3. CASE \E t \in Gets : ReadShard(t)
  BY <1>1, <1>3, JoinGoesOn, CalmActions, CalmStep
<1>4. CASE Publish \/ \E t \in Thread : ListObjects(t) \/ WriteShard(t) \/ WriteMeta(t)
  BY <1>4, PublishStep, WriteBegins, WriteGoesOn, WriteEnds
<1> QED
  BY <1>1, <1>2, <1>3, <1>4, CalmActions, CalmStep DEF Next, GetStep, Refresh, Gets

\* Every variable of the file list keeps its shape.
THEOREM TypeCorrect == Spec => []TypeOK
<1>1. Types => TypeOK
  BY DEF Types
<1> QED
  BY <1>1, InitTypes, TypesStep, PTL DEF Spec

\* One goroutine at a time fills the caches under the lock, as long as no refresh
\* outlives it.
THEOREM OneFillerHolds == Spec => []OneFiller
<1>1. LockInv => OneFiller
  BY DEF LockInv, OneFiller
<1> QED
  BY <1>1, InitTypes, TypesStep, LockStep, PTL DEF Spec

\* No list is joined from shards of two listings, unless a writing overlapped
\* another or a reading, a call failed or a process died.
THEOREM WholeUnlessOverlappedHolds == Spec => []WholeUnlessOverlapped
<1>1. Init => WholeInv
  BY DEF Init, WholeInv, Consistent, Alone, Held, AtRest, Parts, Written, Writing, Joining
<1>2. Types /\ WholeInv => WholeUnlessOverlapped
  <2> SUFFICES ASSUME Types, Consistent, Readable, \A t \in Thread : ~Writing(t)
               PROVE  Stored \in Listings
    BY DEF WholeInv, WholeUnlessOverlapped, Clean, Consistent, Held
  <2>1. PICK v \in 0..version : meta = Shards[v] /\ OfVersion(v, 1, meta)
    BY DEF Consistent, AtRest, Readable
  <2>2. Stored = Whole(v)
    BY <2>1 DEF Stored, Whole, Readable, OfVersion
  <2> QED
    BY <2>2 DEF Listings
<1> QED
  BY <1>1, <1>2, InitTypes, TypesStep, WholeStep, PTL DEF Spec
=============================================================================
