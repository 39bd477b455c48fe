------------------------- MODULE DownloadUrlProofs -------------------------
(***************************************************************************)
(* Theorems of DownloadUrl, for any clients, refreshers, workers and       *)
(* queues, any `expires`, and any validities and TTLs.                     *)
(*                                                                         *)
(* Types adds to TypeOK that a URL about to be stored is there.  Owned     *)
(* says that a task belongs to the client that waits for it, and Makers is *)
(* then bounded by the locks there have been (LockInv).  AliveInv follows  *)
(* a URL from its presigning through the key in Redis and the result of a  *)
(* worker to the client: a key never has more time left than its URL and   *)
(* the time its SET took.                                                  *)
(***************************************************************************)
EXTENDS DownloadUrl, FiniteSetTheorems, TLAPS

Types ==
    /\ TypeOK
    /\ \A p \in Process : pc[p] = "store" => url[p] \in Urls

-----------------------------------------------------------------------------
(* What a URL's numbers are.                                                *)

LEMMA Numbers ==
    ASSUME expires \in Expires
    PROVE  /\ expires \in Int /\ MaxHeld \in Nat /\ MaxValid \in Nat /\ Dead = -MaxHeld - 1
           /\ Dead \in Int
           /\ Valid(expires) \in 1..MaxValid /\ NewUrl \in Urls /\ OldUrl \in Urls
           /\ expires \in 1..MaxValid => Valid(expires) = expires
<1>1. expires \in Int /\ MaxHeld \in Nat /\ MaxValid \in Nat /\ DefaultValid \in 1..MaxValid
  BY UrlAssumption
<1>2. Dead = -MaxHeld - 1 /\ Dead \in Int
  BY <1>1 DEF Dead
<1>3. Valid(expires) \in 1..MaxValid /\ (expires \in 1..MaxValid => Valid(expires) = expires)
  BY <1>1 DEF Valid
<1>4. /\ Valid(expires) \in Dead..MaxValid /\ 0 \in 0..(MaxHeld + 1)
      /\ Dead \in Dead..MaxValid /\ MaxHeld + 1 \in 0..(MaxHeld + 1)
  BY <1>1, <1>2, <1>3
<1>5. NewUrl \in Urls /\ OldUrl \in Urls
  BY <1>4 DEF NewUrl, OldUrl, Urls
<1> QED BY <1>1, <1>2, <1>3, <1>5

\* A key lives as long as a URL that S3 grants.
LEMMA TtlOfGranted ==
    ASSUME NEW e \in 1..MaxValid
    PROVE  Ttl(e) = e
<1>1. Second \in Nat \ {0} /\ MaxDuration \in Nat /\ MaxValid * Second < MaxDuration /\ e \in Nat
  BY UrlAssumption
<1>2. e * Second \in Nat /\ e * Second <= MaxValid * Second /\ e * Second >= 1
  BY <1>1, UrlAssumption
<1>3. e * Second < MaxDuration
  BY <1>1, <1>2, UrlAssumption
<1>4. (e * Second) % (2 * MaxDuration) = e * Second
  <2> DEFINE d == e * Second
             M == 2 * MaxDuration
  <2>1. M \in Nat /\ d \in 0..(M - 1)
    BY <1>1, <1>2, <1>3
  <2>2. \A m \in Nat, x \in Int : x \in 0..(m - 1) => x % m = x
    OBVIOUS
  <2> QED BY <2>1, <2>2
<1>5. Duration(e) = e * Second
  BY <1>3, <1>4 DEF Duration
<1>6. (e * Second + Second - 1) \div Second = e
  <2> DEFINE q == (e * Second + Second - 1) \div Second
  <2>1. /\ q \in Int
        /\ Second * q <= e * Second + Second - 1 /\ e * Second + Second - 1 < Second * q + Second
    BY <1>1
  <2>2. q <= e /\ q >= e
    BY <1>1, <2>1
  <2> QED BY <2>1, <2>2
<1> QED BY <1>2, <1>5, <1>6 DEF Ttl

LEMMA TtlType ==
    ASSUME expires \in Expires
    PROVE  Ttl(expires) \in Nat \cup {Forever}
<1>1. /\ Second \in Nat \ {0} /\ MaxDuration \in Nat /\ expires \in Int
      /\ 2 * MaxDuration \in Nat \ {0}
  BY UrlAssumption
<1>2. Duration(expires) \in Int
  <2>1. expires * Second \in Int
    BY <1>1
  <2>2. (expires * Second) % (2 * MaxDuration) \in Int
    BY <1>1, <2>1
  <2> QED BY <1>1, <2>2 DEF Duration
<1>3. Duration(expires) > 0 => (Duration(expires) + Second - 1) \div Second \in Nat
  BY <1>1, <1>2
<1> QED BY <1>2, <1>3 DEF Ttl

LEMMA Clock ==
    ASSUME expires \in Expires, NEW t \in Dead..MaxValid
    PROVE  /\ Less(t) \in Dead..MaxValid
           /\ t > Dead => Less(t) = t - 1
BY Numbers DEF Less

LEMMA Aging ==
    ASSUME expires \in Expires
    PROVE  /\ \A u \in Urls : Cools(u) \in Urls /\ Ages(u) \in Urls
           /\ \A u \in Answers : Ages(u) \in Answers
<1>1. ASSUME NEW u \in Urls PROVE Cools(u) \in Urls /\ Ages(u) \in Urls
  <2>1. /\ u.valid \in Dead..MaxValid /\ u.held \in 0..(MaxHeld + 1)
        /\ u = [valid |-> u.valid, held |-> u.held]
    BY DEF Urls
  <2>2. Less(u.valid) \in Dead..MaxValid
    BY <2>1, Clock
  <2>3. Cools(u) = [valid |-> Less(u.valid), held |-> u.held]
    BY <2>1 DEF Cools, Urls
  <2>4. ~(u.held >= MaxHeld) => u.held + 1 \in 0..(MaxHeld + 1)
    BY <2>1, Numbers
  <2>5. Ages(u) \in Urls
    BY <2>2, <2>4, Numbers DEF Ages, Urls
  <2> QED BY <2>1, <2>2, <2>3, <2>5 DEF Urls
<1>2. ASSUME NEW u \in Answers PROVE Ages(u) \in Answers
  BY <1>1, <1>2 DEF Answers, Ages
<1> QED BY <1>1, <1>2

LEMMA TryCounts ==
    ASSUME faults \in 0..MaxFaults, NEW ok \in BOOLEAN, Try(ok)
    PROVE  faults' \in 0..MaxFaults
BY UrlAssumption DEF Try

LEMMA Disjoint ==
    \A p \in Process : /\ p \in Client => p \notin Refresher /\ p \notin Worker
                       /\ p \in Refresher => p \notin Worker
BY UrlAssumption DEF Process

-----------------------------------------------------------------------------
LEMMA TypesStep == ASSUME Types, Next PROVE Types'
<1>n. /\ LockTtl \in 0..LockTtl /\ 0 \in 0..LockTtl /\ QueueSize \in Nat /\ MaxOverruns \in Nat
  BY UrlAssumption
<1>t. /\ pc \in [Process -> Labels] /\ url \in [Process -> Answers]
      /\ result \in [Client -> Answers] /\ task \in [Worker -> Client \cup {Nothing}]
      /\ queue \in Seq(Client \cup {Nothing}) /\ Len(queue) <= QueueSize
      /\ lock \in 0..LockTtl /\ overruns \in 0..(MaxOverruns + 1) /\ faults \in 0..MaxFaults
      /\ expires \in Expires /\ managed \in BOOLEAN
      /\ cache = Nothing \/ (cache.url \in Urls /\ cache.ttl \in Nat \cup {Forever})
  BY DEF Types, TypeOK
<1>p. Client \subseteq Process /\ Refresher \subseteq Process /\ Worker \subseteq Process
  BY DEF Process
<1>v. NewUrl \in Urls /\ NewUrl \in Answers /\ NoUrl \in Answers /\ Nothing \in Answers
  BY <1>t, Numbers DEF Answers
<1>e. UNCHANGED <<expires, managed>>
  BY DEF Next, Tick, Ask, Serve, Get, Acquire, Recheck, Submit, Receive, Presign, Store,
         Release, Done, GiveUp, Crash, Refresh, ReadTtl, TakeLock, Work, Take, Reply, AsConfigured
<1> DEFINE Stored == cache = Nothing \/ (cache.url \in Urls /\ cache.ttl \in Nat \cup {Forever})
           Tasked == /\ queue \in Seq(Client \cup {Nothing}) /\ Len(queue) <= QueueSize
                     /\ task \in [Worker -> Client \cup {Nothing}]
                     /\ result \in [Client -> Answers]
           Placed == /\ pc \in [Process -> Labels] /\ url \in [Process -> Answers]
                     /\ \A p \in Process : pc[p] = "store" => url[p] \in Urls
           Locked == lock \in 0..LockTtl /\ overruns \in 0..(MaxOverruns + 1)
<1>h. Stored /\ Tasked /\ Placed /\ Locked
  BY <1>t DEF Types
<1>q. Stored' /\ Tasked' /\ Placed' /\ Locked' /\ faults' \in 0..MaxFaults => Types'
  BY <1>e, <1>t DEF Types, TypeOK
<1>s. ASSUME UNCHANGED cache PROVE Stored'
  BY <1>s, <1>h
<1>k. ASSUME UNCHANGED Tasks PROVE Tasked'
  BY <1>k, <1>h DEF Tasks
\* A process goes to a label where it needs no URL; what is in its hands may change.
<1>g. ASSUME NEW p \in Process, NEW l \in Labels \ {"store"}, NEW u \in Answers, Goto(p, l),
             UNCHANGED url \/ Hold(p, u)
      PROVE  Placed'
  BY <1>g, <1>h DEF Goto, Hold
<1>l. ASSUME UNCHANGED <<lock, overruns>> PROVE Locked'
  BY <1>l, <1>h
<1>o. ASSUME UNCHANGED overruns, lock' \in 0..LockTtl PROVE Locked'
  BY <1>o, <1>t DEF Locked
<1>f. ASSUME UNCHANGED faults \/ Try(TRUE) \/ Try(FALSE) PROVE faults' \in 0..MaxFaults
  BY <1>f, <1>t, TryCounts
<1>c. cache # Nothing => cache.url \in Answers
  BY <1>t DEF Answers
<1> HIDE DEF Stored, Tasked, Placed, Locked
<1>1. CASE Tick
  <2>1. Stored'
    <3>1. CASE cache = Nothing \/ cache.ttl = 1
      BY <1>1, <3>1 DEF Tick, Expire, Stored
    <3>2. CASE ~(cache = Nothing \/ cache.ttl = 1)
      <4>1. Cools(cache.url) \in Urls
        BY <3>2, <1>t, Aging
      <4>2. (IF cache.ttl = Forever THEN Forever ELSE cache.ttl - 1) \in Nat \cup {Forever}
        BY <3>2, <1>t DEF Forever
      <4> QED BY <1>1, <3>2, <4>1, <4>2 DEF Tick, Expire, Stored
    <3> QED BY <3>1, <3>2
  <2>2. Placed'
    <3>1. \A p \in Process : Ages(url[p]) \in Answers /\ (url[p] \in Urls => Ages(url[p]) \in Urls)
      BY <1>t, Aging
    <3>2. url' = [p \in Process |-> IF At(p, "done") THEN url[p] ELSE Ages(url[p])]
          /\ UNCHANGED pc
      BY <1>1 DEF Tick
    <3> QED BY <3>1, <3>2, <1>h, <1>t DEF Placed, At
  <2>3. Locked'
    <3>1. lock' \in 0..LockTtl
      BY <1>1, <1>t, <1>n DEF Tick
    <3>2. overruns' = overruns \/ overruns' = Smaller(overruns + 1, MaxOverruns + 1)
      BY <1>1, Zenon DEF Tick
    <3>3. Smaller(overruns + 1, MaxOverruns + 1) \in 0..(MaxOverruns + 1)
      BY <1>t, <1>n DEF Smaller
    <3> QED BY <3>1, <3>2, <3>3, <1>t DEF Locked
  <2>4. Tasked'
    <3>1. result' = [c \in Client |-> Ages(result[c])] /\ UNCHANGED <<queue, task>>
      BY <1>1 DEF Tick
    <3>2. \A c \in Client : Ages(result[c]) \in Answers
      BY <1>t, Aging
    <3> QED BY <3>1, <3>2, <1>t DEF Tasked
  <2> QED BY <1>1, <2>1, <2>2, <2>3, <2>4, <1>f, <1>q DEF Tick
<1>2. ASSUME NEW c \in Client, Ask(c) \/ Done(c) \/ GiveUp(c) \/ Crash(c) PROVE Types'
  <2>1. CASE Ask(c)
    BY <2>1, <1>p, <1>v, <1>s, <1>k, <1>g, <1>l, <1>f, <1>q DEF Ask, Redis, Labels
  <2>2. CASE Done(c)
    BY <2>2, <1>p, <1>v, <1>s, <1>k, <1>g, <1>l, <1>f, <1>q DEF Done, Redis, Labels
  <2>3. CASE Crash(c)
    BY <2>3, <1>p, <1>v, <1>s, <1>k, <1>g, <1>l, <1>f, <1>q DEF Crash, Redis, Labels
  <2>4. CASE GiveUp(c)
    <3>1. Tasked'
      <4>1. queue' \in Seq(Client \cup {Nothing}) /\ Len(queue') = Len(queue)
        <5>1. \A k \in DOMAIN queue : (IF queue[k] = c THEN Nothing ELSE queue[k])
                                          \in Client \cup {Nothing}
          BY <1>t
        <5>2. DOMAIN queue = 1..Len(queue) /\ Len(queue) \in Nat
          BY <1>t
        <5>3. queue' = [k \in 1..Len(queue) |-> IF queue[k] = c THEN Nothing ELSE queue[k]]
          BY <2>4, <5>2 DEF GiveUp
        <5> QED BY <5>1, <5>2, <5>3
      <4>2. task' \in [Worker -> Client \cup {Nothing}]
        BY <2>4, <1>t DEF GiveUp
      <4>3. result' \in [Client -> Answers]
        BY <2>4, <1>t, <1>v DEF GiveUp
      <4> QED BY <4>1, <4>2, <4>3, <1>t DEF Tasked
    <3>2. Placed'
      BY <2>4, <1>p, <1>v, <1>g DEF GiveUp, Labels
    <3> QED BY <2>4, <3>1, <3>2, <1>s, <1>l, <1>f, <1>q DEF GiveUp, Redis
  <2> QED BY <1>2, <2>1, <2>2, <2>3, <2>4
<1>3. ASSUME NEW c \in Client, Get(c) PROVE Types'
  <2>1. Placed'
    <3>1. CASE Hit /\ Hold(c, cache.url)
      <4>1. PICK q \in Process : pc' = [pc EXCEPT ![c] = "done", ![q] = "ttl"]
                                 \/ pc' = [pc EXCEPT ![c] = "done"]
                                 \/ pc' = [pc EXCEPT ![c] = "acquire"]
        BY <1>3, <1>p DEF Get, Goto
      <4>2. url' = [url EXCEPT ![c] = cache.url] /\ cache.url \in Answers
        BY <3>1, <1>c DEF Hit, Hold
      <4>3. \A p \in Process : pc'[p] = "store" => pc[p] = pc'[p] /\ p # c
        BY <4>1, <1>p, <1>t
      <4>4. pc' \in [Process -> Labels]
        BY <4>1, <1>t, <1>p DEF Labels
      <4>5. \A p \in Process : pc'[p] = "store" => url'[p] \in Urls
        BY <4>2, <4>3, <1>h DEF Placed
      <4> QED BY <4>2, <4>4, <4>5, <1>t DEF Placed
    <3>2. CASE Goto(c, "acquire") /\ UNCHANGED url
      BY <3>2, <1>p, <1>v, <1>g DEF Labels
    <3> QED BY <1>3, <3>1, <3>2 DEF Get
  <2> QED BY <1>3, <2>1, <1>s, <1>k, <1>l, <1>f, <1>q DEF Get, Redis, Hit, Miss
<1>4. ASSUME NEW c \in Client, Acquire(c) PROVE Types'
  <2>1. Placed'
    BY <1>4, <1>p, <1>v, <1>g DEF Acquire, Labels
  <2>2. lock' \in 0..LockTtl /\ UNCHANGED overruns
    BY <1>4, <1>t, <1>n DEF Acquire
  <2> QED BY <1>4, <2>1, <2>2, <1>o, <1>s, <1>k, <1>f, <1>q DEF Acquire
<1>5. ASSUME NEW c \in Client, Recheck(c) PROVE Types'
  <2>1. Placed'
    <3>1. CASE Hit /\ Hold(c, cache.url) /\ Goto(c, "release")
      BY <3>1, <1>p, <1>c, <1>g DEF Hit, Labels
    <3>2. CASE Goto(c, IF managed THEN "submit" ELSE "presign") /\ UNCHANGED url
      BY <3>2, <1>p, <1>v, <1>g DEF Labels
    <3> QED BY <1>5, <3>1, <3>2 DEF Recheck
  <2> QED BY <1>5, <2>1, <1>s, <1>k, <1>l, <1>f, <1>q DEF Recheck, Redis, Hit, Miss
<1>6. ASSUME NEW c \in Client, Submit(c) PROVE Types'
  <2>1. CASE Len(queue) < QueueSize
    <3>1. queue' = Append(queue, c) /\ UNCHANGED <<task, result>>
      BY <1>6, <2>1 DEF Submit
    <3>2. Tasked'
      BY <2>1, <3>1, <1>t, <1>n DEF Tasked
    <3> QED BY <1>6, <2>1, <3>2, <1>p, <1>v, <1>s, <1>g, <1>l, <1>f, <1>q DEF Submit, Redis, Labels
  <2>2. CASE ~(Len(queue) < QueueSize)
    <3>1. Placed' /\ (Try(TRUE) \/ Try(FALSE))
      BY <1>6, <2>2, <1>p, <1>v, <1>g DEF Submit, Compute, Labels
    <3> QED BY <1>6, <2>2, <3>1, <1>s, <1>k, <1>l, <1>f, <1>q DEF Submit, Redis, Tasks
  <2> QED BY <2>1, <2>2
<1>7. ASSUME NEW c \in Client, Receive(c) PROVE Types'
  <2>1. Tasked'
    BY <1>7, <1>t, <1>v DEF Receive, Tasked
  <2>2. result[c] \in Answers
    BY <1>t
  <2> QED BY <1>7, <2>1, <2>2, <1>p, <1>s, <1>g, <1>l, <1>f, <1>q DEF Receive, Redis, Labels
<1>8. ASSUME NEW p \in Process, Presign(p) PROVE Types'
  <2>1. PICK u \in {NewUrl, NoUrl} : Hold(p, u) /\ (Try(TRUE) \/ Try(FALSE))
    BY <1>8 DEF Presign, Compute
  <2>2. PICK l \in {"store", "reply", "release"} :
            Goto(p, l) /\ (l = "store" => url'[p] # NoUrl)
    BY <1>8 DEF Presign, Leave
  <2>3. l = "store" => u = NewUrl
    BY <2>1, <2>2, <1>t DEF Hold
  <2>4. Placed'
    BY <2>1, <2>2, <2>3, <1>v, <1>h DEF Placed, Labels, Goto, Hold
  <2> QED BY <1>8, <2>1, <2>4, <1>s, <1>k, <1>l, <1>f, <1>q DEF Presign, Redis
<1>9. ASSUME NEW p \in Process, Store(p) PROVE Types'
  <2>1. url[p] \in Urls
    BY <1>9, <1>h DEF Store, At, Placed
  <2>2. Ttl(expires) \in Nat \cup {Forever}
    BY <1>t, TtlType
  <2>3. Stored'
    <3>1. CASE UNCHANGED cache
      BY <3>1, <1>s
    <3>2. CASE cache' = [url |-> url[p], ttl |-> Ttl(expires)]
      BY <3>2, <2>1, <2>2 DEF Stored
    <3> QED BY <1>9, <3>1, <3>2 DEF Store
  <2>4. PICK u \in {Nothing, url[p]} : Hold(p, u)
    BY <1>9 DEF Store
  <2>5. Placed'
    BY <1>9, <2>4, <1>t, <1>v, <1>g DEF Store, Leave, Labels
  <2> QED BY <1>9, <2>3, <2>5, <1>k, <1>l, <1>f, <1>q DEF Store
<1>10. ASSUME NEW p \in Client \cup Refresher, Release(p) PROVE Types'
  <2>1. Placed'
    BY <1>10, <1>p, <1>v, <1>g DEF Release, Labels
  <2>2. lock' \in 0..LockTtl /\ UNCHANGED overruns
    BY <1>10, <1>t, <1>n DEF Release
  <2> QED BY <1>10, <2>1, <2>2, <1>o, <1>s, <1>k, <1>f, <1>q DEF Release
<1>11. ASSUME NEW r \in Refresher, ReadTtl(r) \/ TakeLock(r) PROVE Types'
  <2>1. CASE ReadTtl(r)
    BY <2>1, <1>p, <1>v, <1>s, <1>k, <1>g, <1>l, <1>f, <1>q DEF ReadTtl, Redis, Labels
  <2>2. CASE TakeLock(r)
    <3>1. lock' \in 0..LockTtl /\ UNCHANGED overruns
      BY <2>2, <1>t, <1>n DEF TakeLock
    <3> QED BY <2>2, <3>1, <1>o, <1>p, <1>v, <1>s, <1>k, <1>g, <1>f, <1>q DEF TakeLock, Labels
  <2> QED BY <1>11, <2>1, <2>2
<1>12. ASSUME NEW w \in Worker, Take(w) \/ Reply(w) PROVE Types'
  <2>1. CASE Take(w)
    <3>1. /\ Head(queue) \in Client \cup {Nothing}
          /\ Tail(queue) \in Seq(Client \cup {Nothing})
          /\ Len(Tail(queue)) <= QueueSize
      BY <2>1, <1>t, <1>n DEF Take
    <3>2. Tasked'
      BY <2>1, <3>1, <1>t DEF Take, Tasked
    <3> QED BY <2>1, <3>2, <1>p, <1>v, <1>s, <1>g, <1>l, <1>f, <1>q DEF Take, Redis, Labels
  <2>2. CASE Reply(w)
    <3>1. url[w] \in Answers
      BY <1>t, <1>p
    <3>2. Tasked'
      BY <2>2, <3>1, <1>t DEF Reply, Tasked
    <3> QED BY <2>2, <3>2, <1>p, <1>v, <1>s, <1>g, <1>l, <1>f, <1>q DEF Reply, Redis, Labels
  <2> QED BY <1>12, <2>1, <2>2
<1> QED
  BY <1>1, <1>2, <1>3, <1>4, <1>5, <1>6, <1>7, <1>8, <1>9, <1>10, <1>11, <1>12, <1>p
  DEF Next, Serve, Refresh, Work

LEMMA TypesInit == Init => Types
<1> SUFFICES ASSUME Init PROVE Types
  OBVIOUS
<1>1. expires \in Expires /\ managed \in BOOLEAN /\ cache = Nothing /\ lock \in 0..LockTtl
  BY UrlAssumption DEF Init
<1>2. queue \in Seq(Client \cup {Nothing}) /\ Len(queue) <= QueueSize
  BY UrlAssumption DEF Init
<1>3. /\ task \in [Worker -> Client \cup {Nothing}] /\ result \in [Client -> Answers]
      /\ pc \in [Process -> Labels] /\ url \in [Process -> Answers]
      /\ \A p \in Process : pc[p] = "idle"
  BY DEF Init, Answers, Labels
<1>4. overruns \in 0..(MaxOverruns + 1) /\ faults \in 0..MaxFaults
  BY UrlAssumption DEF Init
<1> QED BY <1>1, <1>2, <1>3, <1>4 DEF Types, TypeOK

LEMMA TypesStutter == ASSUME Types, UNCHANGED vars PROVE Types'
BY DEF Types, TypeOK, vars

LEMMA TypesHold == Spec => []Types
<1>1. Types /\ [Next]_vars => Types'
  BY TypesStep, TypesStutter
<1> QED BY TypesInit, <1>1, PTL DEF Spec

\* Every variable of DownloadUrl has its shape in every state.
THEOREM TypeCorrect == Spec => []TypeOK
<1>1. Types => TypeOK
  BY DEF Types
<1> QED BY TypesHold, <1>1, PTL

-----------------------------------------------------------------------------
(* One maker.                                                               *)

\* A task waits for a client that waits for its result, and no other task does.
Owned ==
    /\ ~managed => \A c \in Client : pc[c] \notin {"submit", "queued"}
    /\ \A c \in Client : result[c] # Nothing => pc[c] = "queued"
    /\ \A k \in DOMAIN queue, c \in Client :
          queue[k] = c => pc[c] = "queued" /\ result[c] = Nothing
    /\ \A w \in Worker, c \in Client :
          task[w] = c => pc[c] = "queued" /\ result[c] = Nothing
    /\ \A j, k \in DOMAIN queue : queue[j] \in Client /\ queue[j] = queue[k] => j = k
    /\ \A v, w \in Worker : task[v] \in Client /\ task[v] = task[w] => v = w
    /\ \A k \in DOMAIN queue, w \in Worker : queue[k] \in Client => queue[k] # task[w]

LEMMA OwnedStep == ASSUME Types, Owned, Next PROVE Owned'
<1>t. /\ pc \in [Process -> Labels] /\ result \in [Client -> Answers]
      /\ task \in [Worker -> Client \cup {Nothing}]
      /\ queue \in Seq(Client \cup {Nothing}) /\ Nothing \notin Client
      /\ Client \subseteq Process /\ Refresher \subseteq Process /\ Worker \subseteq Process
      /\ Client \cap Refresher = {} /\ Client \cap Worker = {} /\ Refresher \cap Worker = {}
  BY UrlAssumption DEF Types, TypeOK, Process
<1>e. UNCHANGED managed
  BY DEF Next, Tick, Ask, Serve, Get, Acquire, Recheck, Submit, Receive, Presign, Store,
         Release, Done, GiveUp, Crash, Refresh, ReadTtl, TakeLock, Work, Take, Reply, AsConfigured
\* Nobody who waits is moved, nobody begins to, and the tasks are left alone.
<1>k. ASSUME UNCHANGED Tasks,
             \A c \in Client : /\ pc[c] = "queued" => pc'[c] = "queued"
                               /\ pc'[c] \in {"submit", "queued"} => managed
      PROVE  Owned'
  BY <1>k, <1>e DEF Owned, Tasks
<1>g. ASSUME NEW p \in Process, NEW l, Goto(p, l)
      PROVE  pc'[p] = l /\ \A q \in Process \ {p} : pc'[q] = pc[q]
  BY <1>g, <1>t DEF Goto
<1>1. CASE Tick
  <2>1. UNCHANGED <<queue, task, pc>> /\ \A c \in Client : result'[c] = Ages(result[c])
    BY <1>1 DEF Tick
  <2>2. \A c \in Client : result[c] = Nothing => result'[c] = Nothing
    BY <2>1 DEF Ages
  <2> QED BY <2>1, <2>2, <1>e DEF Owned
<1>2. ASSUME NEW c \in Client, Ask(c) \/ Get(c) \/ Acquire(c) \/ Recheck(c) \/ Done(c) \/ Crash(c)
      PROVE  Owned'
  <2>1. UNCHANGED Tasks
    BY <1>2 DEF Ask, Get, Acquire, Recheck, Done, Crash
  <2>2. CASE Ask(c) \/ Acquire(c) \/ Done(c) \/ Crash(c)
    <3>1. pc[c] # "queued"
      BY <2>2, <1>t DEF Ask, Acquire, Done, Crash, At, Owned
    <3>2. \E l \in {"get", "recheck", "done", "idle"} : Goto(c, l)
      BY <2>2 DEF Ask, Acquire, Done, Crash
    <3> QED BY <2>1, <3>1, <3>2, <1>g, <1>t, <1>k DEF Owned
  <2>3. CASE Recheck(c)
    <3>1. /\ pc[c] # "queued"
          /\ \E l \in {"release", IF managed THEN "submit" ELSE "presign"} : Goto(c, l)
      BY <2>3 DEF Recheck, At
    <3> QED BY <2>1, <3>1, <1>g, <1>t, <1>k DEF Owned
  <2>4. CASE Get(c)
    <3>1. pc[c] # "queued"
      BY <2>4 DEF Get, At
    <3>2. \/ \E r \in Refresher : At(r, "idle") /\ pc' = [pc EXCEPT ![c] = "done", ![r] = "ttl"]
          \/ Goto(c, "done") \/ Goto(c, "acquire")
      BY <2>4 DEF Get
    <3>3. \A q \in Client : q # c => pc'[q] = pc[q]
      BY <3>2, <1>t DEF Goto
    <3>4. pc'[c] \in {"done", "acquire"}
      BY <3>2, <1>t DEF Goto
    <3> QED BY <2>1, <3>1, <3>3, <3>4, <1>k DEF Owned
  <2> QED BY <1>2, <2>2, <2>3, <2>4
<1>3. ASSUME NEW c \in Client, Submit(c) PROVE Owned'
  <2>0. pc[c] = "submit" /\ managed
    BY <1>3 DEF Submit, At, Owned
  <2>1. CASE Len(queue) < QueueSize
    <3>1. /\ queue' = Append(queue, c) /\ UNCHANGED <<task, result>> /\ Goto(c, "queued")
      BY <1>3, <2>1 DEF Submit
    <3>2. pc'[c] = "queued" /\ \A q \in Client \ {c} : pc'[q] = pc[q]
      BY <3>1, <1>g, <1>t
    <3>3. /\ \A k \in DOMAIN queue : queue[k] # c
          /\ \A w \in Worker : task[w] # c
      BY <2>0 DEF Owned
    <3>4. /\ DOMAIN queue = 1..Len(queue) /\ Len(queue) \in Nat
          /\ DOMAIN queue' = 1..(Len(queue) + 1)
          /\ \A k \in DOMAIN queue : queue'[k] = queue[k]
          /\ queue'[Len(queue) + 1] = c
      BY <3>1, <1>t
    <3>5. \A k \in DOMAIN queue' : \/ k \in DOMAIN queue /\ queue'[k] = queue[k]
                                   \/ k = Len(queue) + 1 /\ queue'[k] = c
      BY <3>4
    <3>6. result[c] = Nothing
      BY <2>0 DEF Owned
    <3>7. /\ \A k \in DOMAIN queue', d \in Client :
                queue'[k] = d => pc'[d] = "queued" /\ result'[d] = Nothing
          /\ \A w \in Worker, d \in Client :
                task'[w] = d => pc'[d] = "queued" /\ result'[d] = Nothing
      BY <3>1, <3>2, <3>3, <3>5, <3>6 DEF Owned
    <3>8. \A j, k \in DOMAIN queue' : queue'[j] \in Client /\ queue'[j] = queue'[k] => j = k
      BY <3>3, <3>5 DEF Owned
    <3>9. \A k \in DOMAIN queue', w \in Worker : queue'[k] \in Client => queue'[k] # task'[w]
      BY <3>1, <3>3, <3>5 DEF Owned
    <3>10. \A d \in Client : result'[d] # Nothing => pc'[d] = "queued"
      BY <3>1, <3>2 DEF Owned
    <3> QED BY <3>1, <3>7, <3>8, <3>9, <3>10, <2>0, <1>e DEF Owned
  <2>2. CASE ~(Len(queue) < QueueSize)
    <3>1. UNCHANGED Tasks /\ Goto(c, "release")
      BY <1>3, <2>2 DEF Submit, Tasks
    <3> QED BY <3>1, <2>0, <1>g, <1>t, <1>k DEF Owned
  <2> QED BY <2>1, <2>2
<1>4. ASSUME NEW c \in Client, Receive(c) PROVE Owned'
  <2>1. /\ result[c] # Nothing /\ result' = [result EXCEPT ![c] = Nothing]
        /\ UNCHANGED <<queue, task>> /\ Goto(c, "release")
    BY <1>4 DEF Receive
  <2>2. /\ \A k \in DOMAIN queue : queue[k] # c
        /\ \A w \in Worker : task[w] # c
    BY <2>1 DEF Owned
  <2>3. pc'[c] = "release" /\ \A q \in Client \ {c} : pc'[q] = pc[q] /\ result'[q] = result[q]
    BY <2>1, <1>g, <1>t
  <2>4. result'[c] = Nothing
    BY <2>1, <1>t
  <2> QED BY <2>1, <2>2, <2>3, <2>4, <1>e DEF Owned
<1>5. ASSUME NEW c \in Client, GiveUp(c) PROVE Owned'
  <2>1. /\ queue' = [k \in DOMAIN queue |-> IF queue[k] = c THEN Nothing ELSE queue[k]]
        /\ task' = [w \in Worker |-> IF task[w] = c THEN Nothing ELSE task[w]]
        /\ result' = [result EXCEPT ![c] = Nothing] /\ Goto(c, "done")
    BY <1>5 DEF GiveUp
  <2>2. /\ DOMAIN queue' = DOMAIN queue
        /\ \A k \in DOMAIN queue : queue'[k] \in Client => queue'[k] = queue[k] /\ queue'[k] # c
        /\ \A w \in Worker : task'[w] \in Client => task'[w] = task[w] /\ task'[w] # c
    BY <2>1, <1>t
  <2>3. pc'[c] = "done" /\ \A q \in Client \ {c} : pc'[q] = pc[q] /\ result'[q] = result[q]
    BY <2>1, <1>g, <1>t
  <2>4. /\ ~managed' => \A d \in Client : pc'[d] \notin {"submit", "queued"}
        /\ \A k \in DOMAIN queue', d \in Client :
              queue'[k] = d => pc'[d] = "queued" /\ result'[d] = Nothing
        /\ \A w \in Worker, d \in Client :
              task'[w] = d => pc'[d] = "queued" /\ result'[d] = Nothing
    BY <2>2, <2>3, <1>e DEF Owned
  <2>5. /\ \A j, k \in DOMAIN queue' : queue'[j] \in Client /\ queue'[j] = queue'[k] => j = k
        /\ \A v, w \in Worker : task'[v] \in Client /\ task'[v] = task'[w] => v = w
        /\ \A k \in DOMAIN queue', w \in Worker : queue'[k] \in Client => queue'[k] # task'[w]
    BY <2>2 DEF Owned
  <2>6. \A d \in Client : result'[d] # Nothing => pc'[d] = "queued"
    <3>1. result'[c] = Nothing
      BY <2>1, <1>t
    <3> QED BY <2>3, <3>1 DEF Owned
  <2> QED BY <2>4, <2>5, <2>6 DEF Owned
<1>6. ASSUME NEW p \in Process, Presign(p) \/ Store(p) \/ (p \in Client \cup Refresher /\ Release(p))
      PROVE  Owned'
  <2>1. UNCHANGED Tasks /\ pc[p] # "queued"
    BY <1>6 DEF Presign, Store, Release, At
  <2>2. PICK l \in {"store", "reply", "release", "done", "idle"} : Goto(p, l)
    BY <1>6 DEF Presign, Store, Release, Leave
  <2> QED BY <2>1, <2>2, <1>g, <1>t, <1>k DEF Owned
<1>7. ASSUME NEW r \in Refresher, ReadTtl(r) \/ TakeLock(r) PROVE Owned'
  <2>1. UNCHANGED Tasks /\ \E l \in {"idle", "lock", "presign"} : Goto(r, l)
    BY <1>7 DEF ReadTtl, TakeLock
  <2>2. \A c \in Client : pc'[c] = pc[c]
    BY <2>1, <1>g, <1>t
  <2> QED BY <2>1, <2>2, <1>k DEF Owned
<1>8. ASSUME NEW w \in Worker, Take(w) PROVE Owned'
  <2>1. /\ queue # << >> /\ task' = [task EXCEPT ![w] = Head(queue)] /\ queue' = Tail(queue)
        /\ UNCHANGED result /\ Goto(w, "presign")
    BY <1>8 DEF Take
  <2>2. /\ DOMAIN queue = 1..Len(queue) /\ Len(queue) \in Nat \ {0} /\ 1 \in DOMAIN queue
        /\ Head(queue) = queue[1]
        /\ DOMAIN queue' = 1..(Len(queue) - 1)
        /\ \A k \in DOMAIN queue' : queue'[k] = queue[k + 1] /\ k + 1 \in DOMAIN queue
    BY <2>1, <1>t
  <2>3. task'[w] = queue[1] /\ \A v \in Worker \ {w} : task'[v] = task[v]
    BY <2>1, <2>2, <1>t
  <2>4. \A c \in Client : pc'[c] = pc[c]
    BY <2>1, <1>g, <1>t
  <2>5. /\ \A k \in DOMAIN queue', d \in Client :
              queue'[k] = d => pc'[d] = "queued" /\ result'[d] = Nothing
        /\ \A v \in Worker, d \in Client :
              task'[v] = d => pc'[d] = "queued" /\ result'[d] = Nothing
    BY <2>1, <2>2, <2>3, <2>4 DEF Owned
  <2>6. \A j, k \in DOMAIN queue' : queue'[j] \in Client /\ queue'[j] = queue'[k] => j = k
    <3> SUFFICES ASSUME NEW j \in DOMAIN queue', NEW k \in DOMAIN queue',
                        queue'[j] \in Client, queue'[j] = queue'[k]
                 PROVE  j = k
      OBVIOUS
    <3>1. j + 1 = k + 1
      BY <2>2 DEF Owned
    <3> QED BY <3>1, <2>2
  <2>7. \A v, x \in Worker : task'[v] \in Client /\ task'[v] = task'[x] => v = x
    BY <2>2, <2>3 DEF Owned
  <2>8. \A k \in DOMAIN queue', v \in Worker : queue'[k] \in Client => queue'[k] # task'[v]
    <3> SUFFICES ASSUME NEW k \in DOMAIN queue', NEW v \in Worker, queue'[k] \in Client
                 PROVE  queue'[k] # task'[v]
      OBVIOUS
    <3>1. queue'[k] = queue[k + 1] /\ k + 1 \in DOMAIN queue /\ k + 1 # 1
      BY <2>2
    <3>2. queue[k + 1] # queue[1]
      BY <3>1, <2>2 DEF Owned
    <3> QED BY <3>1, <3>2, <2>3 DEF Owned
  <2>9. ~managed' => \A d \in Client : pc'[d] \notin {"submit", "queued"}
    BY <2>4, <1>e DEF Owned
  <2>10. \A d \in Client : result'[d] # Nothing => pc'[d] = "queued"
    BY <2>1, <2>4 DEF Owned
  <2> QED BY <2>5, <2>6, <2>7, <2>8, <2>9, <2>10 DEF Owned
<1>9. ASSUME NEW w \in Worker, Reply(w) PROVE Owned'
  <2>1. /\ UNCHANGED queue /\ task' = [task EXCEPT ![w] = Nothing] /\ Goto(w, "idle")
        /\ result' = IF task[w] = Nothing THEN result ELSE [result EXCEPT ![task[w]] = url[w]]
    BY <1>9 DEF Reply
  <2>2. \A c \in Client : pc'[c] = pc[c]
    BY <2>1, <1>g, <1>t
  <2>3. task'[w] = Nothing /\ \A v \in Worker \ {w} : task'[v] = task[v]
    BY <2>1, <1>t
  <2>4. \A c \in Client : c # task[w] => result'[c] = result[c]
    BY <2>1, <1>t
  <2>5. /\ \A k \in DOMAIN queue', d \in Client :
              queue'[k] = d => pc'[d] = "queued" /\ result'[d] = Nothing
        /\ \A v \in Worker, d \in Client :
              task'[v] = d => pc'[d] = "queued" /\ result'[d] = Nothing
    BY <2>1, <2>2, <2>3, <2>4, <1>t DEF Owned
  <2>6. /\ \A v, x \in Worker : task'[v] \in Client /\ task'[v] = task'[x] => v = x
        /\ \A k \in DOMAIN queue', v \in Worker : queue'[k] \in Client => queue'[k] # task'[v]
    BY <2>1, <2>3, <1>t DEF Owned
  <2>7. \A d \in Client : result'[d] # Nothing => pc'[d] = "queued"
    BY <2>2, <2>4 DEF Owned
  <2> QED BY <2>1, <2>2, <2>5, <2>6, <2>7, <1>e DEF Owned
<1> QED
  BY <1>1, <1>2, <1>3, <1>4, <1>5, <1>6, <1>7, <1>8, <1>9, <1>t DEF Next, Serve, Refresh, Work

LEMMA OwnedHolds == Spec => [](Types /\ Owned)
<1>1. Init => Owned
  BY UrlAssumption DEF Init, Owned, Process
<1>2. Types /\ Owned /\ [Next]_vars => Owned'
  <2>1. ASSUME Owned, UNCHANGED vars PROVE Owned'
    BY <2>1 DEF Owned, vars
  <2> QED BY <2>1, OwnedStep
<1> QED BY TypesHold, <1>1, <1>2, PTL DEF Spec

Held   == Cardinality(Holding)
Taken  == Cardinality(Orphans)
Queued == Cardinality(LeftBehind)

\* Beyond the locks that expired, a maker has the lock that is there.
LockInv ==
    overruns <= MaxOverruns => Makers <= overruns + IF lock > 0 THEN 1 ELSE 0

LEMMA Counted ==
    ASSUME NEW H \in SUBSET (Client \cup Refresher), NEW O \in SUBSET Worker,
           NEW q \in Seq(Client \cup {Nothing}), NEW L \in SUBSET DOMAIN q
    PROVE  /\ IsFiniteSet(H) /\ IsFiniteSet(O) /\ IsFiniteSet(L)
           /\ Cardinality(H) \in Nat /\ Cardinality(O) \in Nat /\ Cardinality(L) \in Nat
<1>1. IsFiniteSet(Client \cup Refresher) /\ IsFiniteSet(Worker)
  BY UrlAssumption, FS_Union
<1>2. IsFiniteSet(DOMAIN q)
  <2>1. Len(q) \in Nat /\ DOMAIN q = 1..Len(q)
    OBVIOUS
  <2> QED BY <2>1, FS_Interval
<1>3. IsFiniteSet(H) /\ IsFiniteSet(O) /\ IsFiniteSet(L)
  BY <1>1, <1>2, FS_Subset, Zenon
<1> QED BY <1>3, FS_CardinalityType

\* The numbers of a set with fewer, or one more, and of one without an element.
LEMMA Counts ==
    ASSUME NEW S, IsFiniteSet(S)
    PROVE  /\ Cardinality(S) \in Nat
           /\ \A T : T \subseteq S => Cardinality(T) <= Cardinality(S)
           /\ \A T, x : T \subseteq S \cup {x} => Cardinality(T) <= Cardinality(S) + 1
           /\ \A x \in S : Cardinality(S \ {x}) = Cardinality(S) - 1
<1>1. Cardinality(S) \in Nat
  BY FS_CardinalityType
<1>2. ASSUME NEW T, T \subseteq S PROVE Cardinality(T) <= Cardinality(S)
  BY <1>2, FS_Subset
<1>3. ASSUME NEW T, NEW x, T \subseteq S \cup {x} PROVE Cardinality(T) <= Cardinality(S) + 1
  <2>1. IsFiniteSet(S \cup {x}) /\ Cardinality(S \cup {x}) <= Cardinality(S) + 1
    BY <1>1, FS_AddElement
  <2>2. Cardinality(T) <= Cardinality(S \cup {x}) /\ Cardinality(T) \in Nat
    BY <1>3, <2>1, FS_Subset, FS_CardinalityType
  <2>3. Cardinality(S \cup {x}) \in Nat
    BY <2>1, FS_CardinalityType
  <2> QED BY <1>1, <2>1, <2>2, <2>3
<1>4. ASSUME NEW x \in S PROVE Cardinality(S \ {x}) = Cardinality(S) - 1
  BY FS_RemoveElement
<1> QED BY <1>1, <1>2, <1>3, <1>4

\* Sums of three numbers that grow or shrink by one.
LEMMA Sums ==
    \A h, o, q, i, p, r \in Nat :
       /\ h + o + q \in Nat
       /\ i <= h /\ p <= o /\ r <= q => i + p + r <= h + o + q
       /\ i <= h + 1 /\ p <= o /\ r <= q => i + p + r <= (h + o + q) + 1
       /\ i <= h - 1 /\ p <= o /\ r <= q => i + p + r <= (h + o + q) - 1
       /\ i <= h - 1 /\ p <= o + 1 /\ r <= q => i + p + r <= h + o + q
       /\ i <= h - 1 /\ p <= o /\ r <= q + 1 => i + p + r <= h + o + q
       /\ i <= h /\ p <= o + 1 /\ r <= q - 1 => i + p + r <= h + o + q
OBVIOUS

LEMMA LockStep == ASSUME Types, Types', Owned, LockInv, Next PROVE LockInv'
<1>t. /\ pc \in [Process -> Labels] /\ task \in [Worker -> Client \cup {Nothing}]
      /\ queue \in Seq(Client \cup {Nothing}) /\ Nothing \notin Client
      /\ lock \in Nat /\ overruns \in Nat /\ MaxOverruns \in Nat /\ LockTtl \in Nat \ {0}
      /\ Client \subseteq Process /\ Refresher \subseteq Process /\ Worker \subseteq Process
      /\ Client \cap Refresher = {} /\ Client \cap Worker = {} /\ Refresher \cap Worker = {}
  BY UrlAssumption DEF Types, TypeOK, Process
<1> DEFINE Maker == {"recheck", "submit", "queued", "presign", "store", "release"}
<1>c. /\ IsFiniteSet(Holding) /\ IsFiniteSet(Orphans) /\ IsFiniteSet(LeftBehind)
      /\ IsFiniteSet(LeftBehind')
      /\ Held \in Nat /\ Taken \in Nat /\ Queued \in Nat
      /\ Held' \in Nat /\ Taken' \in Nat /\ Queued' \in Nat
  <2>1. /\ Holding \in SUBSET (Client \cup Refresher) /\ Holding' \in SUBSET (Client \cup Refresher)
        /\ Orphans \in SUBSET Worker /\ Orphans' \in SUBSET Worker
        /\ LeftBehind \in SUBSET DOMAIN queue /\ LeftBehind' \in SUBSET DOMAIN queue'
    BY DEF Holding, Orphans, LeftBehind
  <2>2. queue' \in Seq(Client \cup {Nothing})
    BY DEF Types, TypeOK
  <2>3. /\ IsFiniteSet(Holding) /\ IsFiniteSet(Orphans) /\ IsFiniteSet(LeftBehind)
        /\ Held \in Nat /\ Taken \in Nat /\ Queued \in Nat
    BY <2>1, <1>t, Counted, Zenon DEF Held, Taken, Queued
  <2>4. IsFiniteSet(LeftBehind') /\ Held' \in Nat /\ Taken' \in Nat /\ Queued' \in Nat
    BY <2>1, <2>2, Counted, Zenon DEF Held, Taken, Queued
  <2> QED BY <2>3, <2>4
<1>m. Makers = Held + Taken + Queued /\ Makers' = Held' + Taken' + Queued'
  BY DEF Makers, Held, Taken, Queued
<1>h. /\ Holding' \subseteq Holding => Held' <= Held
      /\ \A x : Holding' \subseteq Holding \cup {x} => Held' <= Held + 1
      /\ \A x \in Holding : Holding' \subseteq Holding \ {x} => Held' <= Held - 1
  <2>1. ASSUME NEW x \in Holding, Holding' \subseteq Holding \ {x} PROVE Held' <= Held - 1
    <3>1. IsFiniteSet(Holding \ {x}) /\ Cardinality(Holding \ {x}) = Held - 1
      BY <1>c, Counts, FS_RemoveElement DEF Held
    <3>2. Held' <= Cardinality(Holding \ {x})
      BY <2>1, <3>1, Counts DEF Held
    <3> QED BY <3>1, <3>2
  <2> QED BY <2>1, <1>c, Counts DEF Held
<1>o. /\ Orphans' \subseteq Orphans => Taken' <= Taken
      /\ \A x : Orphans' \subseteq Orphans \cup {x} => Taken' <= Taken + 1
  BY <1>c, Counts DEF Taken
<1>l. /\ LeftBehind' \subseteq LeftBehind => Queued' <= Queued
      /\ \A x : LeftBehind' \subseteq LeftBehind \cup {x} => Queued' <= Queued + 1
  BY <1>c, Counts DEF Queued
<1>s. /\ Makers \in Nat /\ Makers' \in Nat
      /\ Held' <= Held /\ Taken' <= Taken /\ Queued' <= Queued => Makers' <= Makers
      /\ Held' <= Held + 1 /\ Taken' <= Taken /\ Queued' <= Queued => Makers' <= Makers + 1
      /\ Held' <= Held - 1 /\ Taken' <= Taken /\ Queued' <= Queued => Makers' <= Makers - 1
      /\ Held' <= Held - 1 /\ Taken' <= Taken + 1 /\ Queued' <= Queued => Makers' <= Makers
      /\ Held' <= Held - 1 /\ Taken' <= Taken /\ Queued' <= Queued + 1 => Makers' <= Makers
      /\ Held' <= Held /\ Taken' <= Taken + 1 /\ Queued' <= Queued - 1 => Makers' <= Makers
  BY <1>m, <1>c, Sums, Zenon
\* No more makers, and the lock is not touched.
<1>k. ASSUME UNCHANGED <<lock, overruns>>, Makers' <= Makers PROVE LockInv'
  BY <1>k, <1>s, <1>t DEF LockInv
\* One process goes to a label.
<1>g. ASSUME NEW p \in Process, NEW l, Goto(p, l)
      PROVE  /\ pc'[p] = l /\ \A q \in Process \ {p} : pc'[q] = pc[q]
             /\ Holding' \subseteq Holding \cup {p}
             /\ (l \notin Maker \/ pc[p] \in Maker) => Holding' \subseteq Holding
             /\ l \notin Maker => Holding' \subseteq Holding \ {p}
  <2>1. pc'[p] = l /\ \A q \in Process \ {p} : pc'[q] = pc[q]
    BY <1>g, <1>t DEF Goto
  <2>2. \A q \in Holding' : q \in Client \cup Refresher /\ q \in Process /\ pc'[q] \in Maker
    BY <1>t DEF Holding
  <2>3. \A q \in Client \cup Refresher : pc[q] \in Maker => q \in Holding
    BY DEF Holding
  <2> QED BY <2>1, <2>2, <2>3
<1>x. \A p \in Client \cup Refresher : p \in Holding <=> pc[p] \in Maker
  BY DEF Holding
\* A client or a refresher goes to a label, and the tasks are left alone.
<1>w. ASSUME NEW p \in Client \cup Refresher, NEW l, Goto(p, l), UNCHANGED task
      PROVE  Taken' <= Taken
  <2>1. \A w \in Worker : pc'[w] = pc[w]
    BY <1>w, <1>g, <1>t
  <2>2. Orphans' \subseteq Orphans
    BY <2>1, <1>w DEF Orphans
  <2> QED BY <2>2, <1>o
<1>q. ASSUME UNCHANGED queue PROVE Queued' <= Queued
  <2>1. LeftBehind' \subseteq LeftBehind
    BY <1>q DEF LeftBehind
  <2> QED BY <2>1, <1>l
<1>1. CASE Tick
  <2>1. UNCHANGED <<pc, queue, task>>
    BY <1>1 DEF Tick
  <2>2. Makers' = Makers
    BY <2>1 DEF Makers, Holding, Orphans, LeftBehind
  <2>3. Makers \in Nat
    BY <1>c, <1>m
  <2>4. /\ lock' = (IF lock = 0 THEN 0 ELSE lock - 1)
        /\ overruns' = IF lock = 1 /\ Makers > 0 THEN Smaller(overruns + 1, MaxOverruns + 1)
                       ELSE overruns
    BY <1>1, Zenon DEF Tick
  <2>5. CASE lock = 1 /\ Makers > 0
    <3>1. overruns' = Smaller(overruns + 1, MaxOverruns + 1) /\ lock' = 0
      BY <2>4, <2>5
    <3>2. overruns' <= MaxOverruns => overruns' = overruns + 1 /\ overruns <= MaxOverruns
      BY <3>1, <1>t DEF Smaller
    <3> QED BY <3>1, <3>2, <2>2, <2>3, <2>5, <1>t DEF LockInv
  <2>6. CASE ~(lock = 1 /\ Makers > 0)
    <3>1. overruns' = overruns
      BY <2>4, <2>6
    <3> QED BY <3>1, <2>2, <2>3, <2>4, <2>6, <1>t DEF LockInv
  <2> QED BY <2>5, <2>6
<1>2. ASSUME NEW c \in Client, Ask(c) \/ Done(c) \/ Crash(c) \/ Recheck(c) \/ Receive(c) PROVE LockInv'
  <2>1. UNCHANGED <<lock, overruns, queue, task>>
    BY <1>2 DEF Ask, Done, Crash, Recheck, Receive, Redis, Tasks
  <2>2. PICK l : Goto(c, l) /\ (l \notin Maker \/ pc[c] \in Maker)
    <3>1. CASE Ask(c) \/ Done(c) \/ Crash(c)
      <4>1. \E l \in {"get", "idle"} : Goto(c, l)
        BY <3>1 DEF Ask, Done, Crash
      <4> QED BY <4>1
    <3>2. CASE Recheck(c) \/ Receive(c)
      <4>1. pc[c] \in Maker
        BY <3>2 DEF Recheck, Receive, At
      <4>2. \E l : Goto(c, l)
        BY <3>2 DEF Recheck, Receive
      <4> QED BY <4>1, <4>2
    <3> QED BY <1>2, <3>1, <3>2
  <2>3. Held' <= Held
    BY <2>2, <1>g, <1>h, <1>t
  <2> QED BY <2>1, <2>2, <2>3, <1>w, <1>q, <1>s, <1>k
<1>3. ASSUME NEW c \in Client, Get(c) PROVE LockInv'
  <2>1. UNCHANGED <<lock, overruns, queue, task>>
    BY <1>3 DEF Get, Redis, Tasks
  <2>2. \/ \E r \in Refresher : pc' = [pc EXCEPT ![c] = "done", ![r] = "ttl"]
        \/ pc' = [pc EXCEPT ![c] = "done"]
        \/ pc' = [pc EXCEPT ![c] = "acquire"]
    BY <1>3 DEF Get, Goto
  <2>3. \A q \in Process : /\ pc'[q] = pc[q] \/ pc'[q] \in {"done", "ttl", "acquire"}
                           /\ q \in Worker => pc'[q] = pc[q]
    BY <2>2, <1>t
  <2>4. Holding' \subseteq Holding /\ Orphans' \subseteq Orphans
    BY <2>1, <2>3, <1>t DEF Holding, Orphans
  <2> QED BY <2>1, <2>4, <1>h, <1>o, <1>q, <1>s, <1>k
\* SETNX: the lock was free.
<1>4. ASSUME NEW p \in Client \cup Refresher, NEW l, Goto(p, l), UNCHANGED <<overruns, queue, task>>,
             lock = 0, lock' = LockTtl
      PROVE  LockInv'
  <2>1. Held' <= Held + 1
    BY <1>4, <1>g, <1>h, <1>t
  <2>2. Taken' <= Taken /\ Queued' <= Queued
    BY <1>4, <1>w, <1>q
  <2> QED BY <1>4, <2>1, <2>2, <1>s, <1>t DEF LockInv
<1>5. ASSUME NEW c \in Client, Acquire(c) PROVE LockInv'
  <2>0. UNCHANGED <<overruns, queue, task>>
    BY <1>5 DEF Acquire, Tasks
  <2>1. CASE lock = 0 /\ lock' = LockTtl /\ Goto(c, "recheck")
    BY <2>0, <2>1, <1>4
  <2>2. CASE UNCHANGED lock /\ (Goto(c, "get") \/ Goto(c, "done"))
    <3>1. Held' <= Held /\ Taken' <= Taken
      BY <2>0, <2>2, <1>g, <1>h, <1>w, <1>t
    <3> QED BY <2>0, <2>2, <3>1, <1>q, <1>s, <1>k
  <2> QED BY <1>5, <2>1, <2>2 DEF Acquire
<1>6. ASSUME NEW r \in Refresher, TakeLock(r) \/ ReadTtl(r) PROVE LockInv'
  <2>0. UNCHANGED <<overruns, queue, task>>
    BY <1>6 DEF TakeLock, ReadTtl, Redis, Tasks
  <2>1. CASE lock = 0 /\ lock' = LockTtl /\ Goto(r, "presign")
    BY <2>0, <2>1, <1>4
  <2>2. CASE UNCHANGED lock /\ (Goto(r, "idle") \/ Goto(r, "lock"))
    <3>1. Held' <= Held /\ Taken' <= Taken
      BY <2>0, <2>2, <1>g, <1>h, <1>w, <1>t
    <3> QED BY <2>0, <2>2, <3>1, <1>q, <1>s, <1>k
  <2> QED BY <1>6, <2>1, <2>2 DEF TakeLock, ReadTtl, Redis
<1>7. ASSUME NEW c \in Client, Submit(c) PROVE LockInv'
  <2>1. UNCHANGED <<lock, overruns, task>> /\ pc[c] \in Maker
    BY <1>7 DEF Submit, Redis, At
  <2>2. PICK l : Goto(c, l)
    BY <1>7 DEF Submit
  <2>3. queue' = queue \/ queue' = Append(queue, c)
    BY <1>7 DEF Submit
  <2>4. Queued' <= Queued
    <3>1. CASE queue' = Append(queue, c)
      <4>1. \A k \in DOMAIN queue' : queue'[k] = c \/ (k \in DOMAIN queue /\ queue'[k] = queue[k])
        BY <3>1, <1>t
      <4>2. LeftBehind' \subseteq LeftBehind
        BY <4>1, <1>t DEF LeftBehind
      <4> QED BY <4>2, <1>l
    <3> QED BY <2>3, <3>1, <1>q
  <2>5. Held' <= Held /\ Taken' <= Taken
    BY <2>1, <2>2, <1>g, <1>h, <1>w, <1>t
  <2> QED BY <2>1, <2>4, <2>5, <1>s, <1>k
\* The client leaves one task behind at most.
<1>8. ASSUME NEW c \in Client, GiveUp(c) PROVE LockInv'
  <2>1. /\ queue' = [k \in DOMAIN queue |-> IF queue[k] = c THEN Nothing ELSE queue[k]]
        /\ task' = [w \in Worker |-> IF task[w] = c THEN Nothing ELSE task[w]]
        /\ Goto(c, "done") /\ UNCHANGED <<lock, overruns>> /\ pc[c] \in Maker
    BY <1>8 DEF GiveUp, Redis
  <2>2. Held' <= Held - 1
    BY <2>1, <1>g, <1>h, <1>x, <1>t
  <2>3. /\ \A k \in LeftBehind' : k \in LeftBehind \/ queue[k] = c
        /\ \A w \in Orphans' : w \in Orphans \/ task[w] = c
    <3>1. \A w \in Worker : pc'[w] = pc[w]
      BY <2>1, <1>g, <1>t
    <3> QED BY <2>1, <3>1 DEF LeftBehind, Orphans
  <2>4. LeftBehind' \subseteq DOMAIN queue /\ Orphans' \subseteq Worker
    BY <2>1 DEF LeftBehind, Orphans
  <2>5. Makers' <= Makers
    <3>1. CASE \E k \in DOMAIN queue : queue[k] = c
      <4>1. PICK k \in DOMAIN queue : queue[k] = c
        BY <3>1
      <4>2. \A j \in DOMAIN queue : queue[j] = c => j = k
        BY <4>1 DEF Owned
      <4>3. \A w \in Worker : task[w] # c
        BY <4>1 DEF Owned
      <4>4. LeftBehind' \subseteq LeftBehind \cup {k} /\ Orphans' \subseteq Orphans
        BY <2>3, <2>4, <4>2, <4>3
      <4> QED BY <4>4, <2>2, <1>o, <1>l, <1>s
    <3>2. CASE ~\E k \in DOMAIN queue : queue[k] = c
      <4>1. LeftBehind' \subseteq LeftBehind
        BY <2>3, <2>4, <3>2
      <4>2. CASE \E w \in Worker : task[w] = c
        <5>1. PICK w \in Worker : task[w] = c
          BY <4>2
        <5>2. \A v \in Worker : task[v] = c => v = w
          BY <5>1 DEF Owned
        <5>3. Orphans' \subseteq Orphans \cup {w}
          BY <2>3, <2>4, <5>2
        <5> QED BY <4>1, <5>3, <2>2, <1>o, <1>l, <1>s
      <4>3. CASE ~\E w \in Worker : task[w] = c
        <5>1. Orphans' \subseteq Orphans
          BY <2>3, <2>4, <4>3
        <5> QED BY <4>1, <5>1, <2>2, <1>o, <1>l, <1>s
      <4> QED BY <4>2, <4>3
    <3> QED BY <3>1, <3>2
  <2> QED BY <2>1, <2>5, <1>k
<1>9. ASSUME NEW p \in Process, Presign(p) \/ Store(p) PROVE LockInv'
  <2>1. UNCHANGED <<lock, overruns, queue, task>> /\ pc[p] \in {"presign", "store"}
    BY <1>9 DEF Presign, Store, Redis, Tasks, At
  <2>2. PICK l : Goto(p, l)
    BY <1>9 DEF Presign, Store, Leave
  <2>3. Held' <= Held
    BY <2>1, <2>2, <1>g, <1>h
  <2>4. \A w \in Worker : pc'[w] # "idle" => pc[w] # "idle"
    BY <2>1, <2>2, <1>g, <1>t
  <2>5. Orphans' \subseteq Orphans
    BY <2>1, <2>4 DEF Orphans
  <2> QED BY <2>1, <2>3, <2>5, <1>o, <1>q, <1>s, <1>k
\* DEL, of whichever lock is there: a maker less, and a lock less at most.
<1>10. ASSUME NEW p \in Client \cup Refresher, Release(p) PROVE LockInv'
  <2>1. UNCHANGED <<overruns, queue, task>> /\ pc[p] \in Maker /\ (lock' = 0 \/ lock' = lock)
    BY <1>10 DEF Release, Tasks, At
  <2>2. PICK l \in {"done", "idle"} : Goto(p, l)
    BY <1>10 DEF Release
  <2>3. Held' <= Held - 1
    BY <2>1, <2>2, <1>g, <1>h, <1>x, <1>t
  <2>4. Taken' <= Taken /\ Queued' <= Queued
    BY <2>1, <2>2, <1>w, <1>q
  <2> QED BY <2>1, <2>3, <2>4, <1>s, <1>t DEF LockInv
<1>11. ASSUME NEW w \in Worker, Take(w) PROVE LockInv'
  <2>1. /\ queue # << >> /\ task' = [task EXCEPT ![w] = Head(queue)] /\ queue' = Tail(queue)
        /\ Goto(w, "presign") /\ UNCHANGED <<lock, overruns>> /\ pc[w] = "idle"
    BY <1>11 DEF Take, Redis, At
  <2>2. \A q \in Process \ {w} : pc'[q] = pc[q]
    BY <2>1, <1>g, <1>t
  <2>3. Held' <= Held
    <3>1. Holding' \subseteq Holding
      BY <2>2, <1>t DEF Holding
    <3> QED BY <3>1, <1>h
  <2>4. /\ Len(queue) \in Nat \ {0} /\ DOMAIN queue = 1..Len(queue) /\ Head(queue) = queue[1]
        /\ DOMAIN queue' = 1..(Len(queue) - 1)
        /\ \A k \in DOMAIN queue' : queue'[k] = queue[k + 1]
    BY <2>1, <1>t
  <2>5. task'[w] = queue[1] /\ \A v \in Worker \ {w} : task'[v] = task[v]
    BY <2>1, <2>4, <1>t
  \* What is left behind moves up by one.
  <2>6. Queued' = Cardinality(LeftBehind \ {1})
    <3> DEFINE f == [k \in LeftBehind' |-> k + 1]
               T == LeftBehind \ {1}
    <3>1. LeftBehind' = {k \in 1..(Len(queue) - 1) : queue[k + 1] = Nothing}
      BY <2>4 DEF LeftBehind
    <3>2. T = {k \in 2..Len(queue) : queue[k] = Nothing}
      BY <2>4 DEF LeftBehind
    <3>3. \A k \in LeftBehind' : f[k] \in T
      BY <3>1, <3>2, <2>4
    <3>4. \A k \in T : k - 1 \in LeftBehind' /\ f[k - 1] = k
      BY <3>1, <3>2, <2>4
    <3>5. \A j, k \in LeftBehind' : f[j] = f[k] => j = k
      BY <3>1, <2>4
    <3>6. f \in Bijection(LeftBehind', T)
      <4>1. f \in [LeftBehind' -> T]
        BY <3>3
      <4>2. \A k \in T : \E j \in LeftBehind' : f[j] = k
        BY <3>4
      <4> HIDE DEF f, T
      <4> QED BY <4>1, <4>2, <3>5 DEF Bijection, Injection, Surjection, IsInjective
    <3>7. ExistsBijection(LeftBehind', T)
      BY <3>6 DEF ExistsBijection
    <3>8. IsFiniteSet(LeftBehind')
      BY <1>c
    <3>9. Cardinality(T) = Cardinality(LeftBehind')
      BY <3>7, <3>8, FS_Bijection
    <3> QED BY <3>9 DEF Queued
  <2>7. CASE queue[1] = Nothing
    <3>1. 1 \in LeftBehind
      BY <2>4, <2>7 DEF LeftBehind
    <3>2. Queued' = Queued - 1
      BY <2>6, <3>1, <1>c, FS_RemoveElement DEF Queued
    <3>3. Orphans' \subseteq Orphans \cup {w}
      BY <2>2, <2>5, <1>t DEF Orphans
    <3>4. Queued' <= Queued - 1 /\ Taken' <= Taken + 1
      BY <3>2, <3>3, <1>o, <1>c
    <3> QED BY <2>1, <2>3, <3>4, <1>s, <1>k
  <2>8. CASE queue[1] # Nothing
    <3>1. LeftBehind \ {1} = LeftBehind
      BY <2>8 DEF LeftBehind
    <3>2. Queued' = Queued
      BY <2>6, <3>1 DEF Queued
    <3>3. Orphans' \subseteq Orphans
      BY <2>2, <2>5, <2>8, <1>t DEF Orphans
    <3>4. Queued' <= Queued /\ Taken' <= Taken
      BY <3>2, <3>3, <1>o, <1>c
    <3> QED BY <2>1, <2>3, <3>4, <1>s, <1>k
  <2> QED BY <2>7, <2>8
<1>12. ASSUME NEW w \in Worker, Reply(w) PROVE LockInv'
  <2>1. /\ task' = [task EXCEPT ![w] = Nothing] /\ Goto(w, "idle")
        /\ UNCHANGED <<lock, overruns, queue>>
    BY <1>12 DEF Reply, Redis
  <2>2. pc'[w] = "idle" /\ \A q \in Process \ {w} : pc'[q] = pc[q]
    BY <2>1, <1>g, <1>t
  <2>3. Holding' \subseteq Holding
    BY <2>2, <1>t DEF Holding
  <2>4. Orphans' \subseteq Orphans
    BY <2>1, <2>2, <1>t DEF Orphans
  <2> QED BY <2>1, <2>3, <2>4, <1>h, <1>o, <1>q, <1>s, <1>k
<1> QED
  BY <1>1, <1>2, <1>3, <1>5, <1>6, <1>7, <1>8, <1>9, <1>10, <1>11, <1>12, <1>t
  DEF Next, Serve, Refresh, Work

\* One process at most makes the URL, and each lock that expires while somebody relies on
\* it lets in one more: of clients, refreshers and the tasks of clients that left, however
\* many there are, and no matter whose lock a late DEL deletes.
THEOREM OneMakerHolds == Spec => []OneMaker
<1>1. Init => LockInv
  <2> SUFFICES ASSUME Init PROVE LockInv
    OBVIOUS
  <2>1. Holding = {} /\ Orphans = {} /\ LeftBehind = {}
    BY DEF Init, Holding, Orphans, LeftBehind, Process
  <2>2. Makers = 0
    BY <2>1, FS_EmptySet DEF Makers
  <2> QED BY <2>2 DEF LockInv, Init
<1>2. Types /\ Types' /\ Owned /\ LockInv /\ [Next]_vars => LockInv'
  <2>1. ASSUME LockInv, UNCHANGED vars PROVE LockInv'
    BY <2>1 DEF LockInv, Makers, Holding, Orphans, LeftBehind, vars
  <2> QED BY <2>1, LockStep
<1>3. Types /\ LockInv => OneMaker
  <2> SUFFICES ASSUME Types, LockInv, overruns <= MaxOverruns PROVE Makers <= 1 + overruns
    BY DEF OneMaker
  <2>1. Makers \in Int /\ overruns \in Nat /\ lock \in Nat
    <3>1. /\ Holding \in SUBSET (Client \cup Refresher) /\ Orphans \in SUBSET Worker
          /\ LeftBehind \in SUBSET DOMAIN queue /\ queue \in Seq(Client \cup {Nothing})
      BY DEF Holding, Orphans, LeftBehind, Types, TypeOK
    <3>2. Makers \in Int
      BY <3>1, Counted DEF Makers
    <3> QED BY <3>2, UrlAssumption DEF Types, TypeOK
  <2> QED BY <2>1 DEF LockInv
<1> QED BY OwnedHolds, <1>1, <1>2, <1>3, PTL DEF Spec

-----------------------------------------------------------------------------
(* What clients are given.                                                  *)

\* A URL that is followed has died no longer ago than it was in somebody's hands.
Alive(u)  == u \in Urls /\ u.held <= MaxHeld => u.valid >= -u.held
Whole(u)  == u \in Urls /\ u.held <= MaxHeld => u.valid >= expires - u.held

AliveInv ==
    expires \in 1..MaxValid =>
        /\ cache # Nothing =>
              /\ cache.ttl >= 1
              /\ cache.url.held <= MaxHeld => cache.url.valid >= cache.ttl - cache.url.held
        /\ \A p \in Process : Alive(url[p]) /\ (pc[p] = "store" => Whole(url[p]))
        /\ \A c \in Client : Alive(result[c])

\* What time does to a URL in Redis and in somebody's hands.
LEMMA AgingOfUrls ==
    ASSUME expires \in Expires
    PROVE  /\ \A u \in Answers : Alive(u) => Alive(Ages(u))
           /\ \A u \in Urls : expires >= 1 /\ Whole(u) => Whole(Ages(u))
           /\ \A u \in Urls, t \in Nat :
                 /\ Cools(u).held = u.held
                 /\ t > 1 /\ u.held <= MaxHeld /\ u.valid >= t - u.held
                       => Cools(u).valid >= (t - 1) - u.held
<1>n. expires \in Int /\ MaxHeld \in Nat /\ Dead = -MaxHeld - 1 /\ Dead \in Int
  BY Numbers
<1>u. ASSUME NEW u \in Urls
      PROVE  u.valid \in Dead..MaxValid /\ u.held \in 0..(MaxHeld + 1)
  BY DEF Urls
<1>o. OldUrl.held = MaxHeld + 1 /\ ~(OldUrl.held <= MaxHeld)
  BY <1>n DEF OldUrl
\* In somebody's hands: it loses what its holder adds.
<1>a. ASSUME NEW u \in Urls, NEW b \in Nat,
             u.held <= MaxHeld => u.valid >= b - u.held, Ages(u).held <= MaxHeld
      PROVE  Ages(u).valid >= b - Ages(u).held
  <2>1. u \notin {Nothing, NoUrl}
    BY AnswerAssumption
  <2>2. CASE u.held >= MaxHeld
    <3>1. Ages(u) = OldUrl
      BY <2>1, <2>2 DEF Ages
    <3> QED BY <3>1, <1>a, <1>o
  <2>3. CASE ~(u.held >= MaxHeld)
    <3>1. Ages(u) = [valid |-> Less(u.valid), held |-> u.held + 1]
      BY <2>1, <2>3 DEF Ages
    <3>2. u.valid >= b - u.held /\ u.held < MaxHeld
      BY <2>3, <1>a, <1>u, <1>n
    <3>3. u.valid > Dead
      BY <3>2, <1>u, <1>n
    <3>4. Less(u.valid) = u.valid - 1
      BY <3>3 DEF Less
    <3>5. u.valid - 1 >= b - (u.held + 1)
      BY <3>2, <1>u, <1>n
    <3> QED BY <3>1, <3>4, <3>5
  <2> QED BY <2>2, <2>3
<1>1. ASSUME NEW u \in Answers, Alive(u) PROVE Alive(Ages(u))
  <2>1. CASE u \in {Nothing, NoUrl}
    BY <2>1, <1>1 DEF Ages
  <2>2. CASE u \in Urls
    <3> SUFFICES ASSUME Ages(u).held <= MaxHeld
                 PROVE  Ages(u).valid >= -Ages(u).held
      BY DEF Alive
    <3>1. u.held <= MaxHeld => u.valid >= 0 - u.held
      BY <2>2, <1>1, <1>u DEF Alive
    <3>2. Ages(u).valid >= 0 - Ages(u).held
      BY <3>1, <2>2, <1>a
    <3>3. Ages(u).held \in Int
      BY <2>2, Aging DEF Urls
    <3> QED BY <3>2, <3>3
  <2> QED BY <2>1, <2>2 DEF Answers
<1>2. ASSUME NEW u \in Urls, expires >= 1, Whole(u) PROVE Whole(Ages(u))
  <2> SUFFICES ASSUME Ages(u).held <= MaxHeld
               PROVE  Ages(u).valid >= expires - Ages(u).held
    BY DEF Whole
  <2>1. expires \in Nat
    BY <1>2, <1>n
  <2> QED BY <2>1, <1>2, <1>a DEF Whole
<1>3. ASSUME NEW u \in Urls, NEW t \in Nat
      PROVE  /\ Cools(u).held = u.held
             /\ t > 1 /\ u.held <= MaxHeld /\ u.valid >= t - u.held
                   => Cools(u).valid >= (t - 1) - u.held
  <2>1. Cools(u).held = u.held /\ Cools(u).valid = Less(u.valid)
    BY DEF Cools, Urls
  <2>2. ASSUME t > 1, u.held <= MaxHeld, u.valid >= t - u.held
        PROVE  Less(u.valid) >= (t - 1) - u.held
    <3>1. u.valid > Dead
      BY <2>2, <1>u, <1>n
    <3>2. Less(u.valid) = u.valid - 1
      BY <3>1 DEF Less
    <3> QED BY <2>2, <3>2, <1>u
  <2> QED BY <2>1, <2>2
<1> QED BY <1>1, <1>2, <1>3

LEMMA AliveStep == ASSUME Types, AliveInv, Next PROVE AliveInv'
<1>t. /\ pc \in [Process -> Labels] /\ url \in [Process -> Answers]
      /\ result \in [Client -> Answers] /\ task \in [Worker -> Client \cup {Nothing}]
      /\ expires \in Expires
      /\ cache = Nothing \/ (cache.url \in Urls /\ cache.ttl \in Nat \cup {Forever})
      /\ \A p \in Process : pc[p] = "store" => url[p] \in Urls
  BY DEF Types, TypeOK
<1>p. Client \subseteq Process /\ Refresher \subseteq Process /\ Worker \subseteq Process
  BY DEF Process
<1>e. UNCHANGED expires
  BY DEF Next, Tick, Ask, Serve, Get, Acquire, Recheck, Submit, Receive, Presign, Store,
         Release, Done, GiveUp, Crash, Refresh, ReadTtl, TakeLock, Work, Take, Reply, AsConfigured
<1> DEFINE Keyed  == cache # Nothing =>
                        /\ cache.ttl >= 1
                        /\ cache.url.held <= MaxHeld => cache.url.valid >= cache.ttl - cache.url.held
           InHand == \A p \in Process : Alive(url[p]) /\ (pc[p] = "store" => Whole(url[p]))
           Sent   == \A c \in Client : Alive(result[c])
<1> SUFFICES ASSUME expires \in 1..MaxValid PROVE Keyed' /\ InHand' /\ Sent'
  BY <1>e DEF AliveInv
<1>h. Keyed /\ InHand /\ Sent
  BY DEF AliveInv
<1>n. /\ MaxHeld \in Nat /\ MaxValid \in Nat /\ Valid(expires) = expires
      /\ NewUrl \in Urls
  BY <1>t, Numbers
<1>x. /\ \A u : Alive(u)' = Alive(u)
      /\ \A u : Whole(u)' = Whole(u)
  BY <1>e DEF Alive, Whole
<1>v. Alive(NewUrl) /\ Whole(NewUrl)
  <2>1. NewUrl = [valid |-> expires, held |-> 0]
    BY <1>n DEF NewUrl
  <2> QED BY <2>1 DEF Alive, Whole
<1>c. cache # Nothing => Alive(cache.url)
  <2> SUFFICES ASSUME cache # Nothing, cache.url.held <= MaxHeld
               PROVE  cache.url.valid >= -cache.url.held
    BY DEF Alive
  <2>1. /\ cache.ttl >= 1 /\ cache.url.valid >= cache.ttl - cache.url.held
        /\ cache.ttl \in Nat /\ cache.url.valid \in Int /\ cache.url.held \in Int
    BY <1>h, <1>t, Numbers DEF Forever, Urls
  <2> QED BY <2>1
<1>z. Alive(Nothing) /\ Alive(NoUrl)
  BY AnswerAssumption DEF Alive
<1>s. ASSUME UNCHANGED cache PROVE Keyed'
  BY <1>s, <1>h
<1>r. ASSUME UNCHANGED result PROVE Sent'
  BY <1>r, <1>h, <1>x
\* A process goes to a label where it stores nothing; what it gets in hand is alive.
<1>g. ASSUME NEW p \in Process, NEW l, l # "store", NEW u, Alive(u), Goto(p, l),
             UNCHANGED url \/ Hold(p, u)
      PROVE  InHand'
  <2>1. /\ pc' = [pc EXCEPT ![p] = l]
        /\ url' = url \/ url' = [url EXCEPT ![p] = u]
    BY <1>g DEF Goto, Hold
  <2>2. \A q \in Process : /\ Alive(url'[q])
                           /\ pc'[q] = "store" => pc[q] = "store" /\ url'[q] = url[q]
    BY <1>g, <2>1, <1>h, <1>t
  <2> QED BY <2>2, <1>h, <1>x
<1>1. CASE Tick
  <2>1. Keyed'
    <3>1. CASE cache = Nothing \/ cache.ttl = 1
      BY <1>1, <3>1 DEF Tick, Expire
    <3>2. CASE ~(cache = Nothing \/ cache.ttl = 1)
      <4>1. cache.ttl \in Nat /\ cache.ttl > 1 /\ cache.url \in Urls
        BY <3>2, <1>t, <1>h DEF Forever
      <4>2. cache' = [url |-> Cools(cache.url), ttl |-> cache.ttl - 1]
        BY <1>1, <3>2, <4>1 DEF Tick, Expire, Forever
      <4>3. /\ Cools(cache.url).held = cache.url.held
            /\ cache.url.held <= MaxHeld
                  => Cools(cache.url).valid >= (cache.ttl - 1) - cache.url.held
        BY <3>2, <4>1, <1>h, <1>t, AgingOfUrls
      <4> QED BY <4>1, <4>2, <4>3
    <3> QED BY <3>1, <3>2
  <2>2. InHand'
    <3>1. \A p \in Process : /\ Alive(Ages(url[p]))
                             /\ pc[p] = "store" => Whole(Ages(url[p]))
      BY <1>h, <1>t, AgingOfUrls
    <3>2. url' = [p \in Process |-> IF At(p, "done") THEN url[p] ELSE Ages(url[p])]
          /\ UNCHANGED pc
      BY <1>1 DEF Tick
    <3> QED BY <3>1, <3>2, <1>h, <1>x DEF At
  <2>3. Sent'
    <3>1. result' = [c \in Client |-> Ages(result[c])]
      BY <1>1 DEF Tick
    <3>2. \A c \in Client : Alive(Ages(result[c]))
      BY <1>h, <1>t, AgingOfUrls
    <3> QED BY <3>1, <3>2, <1>x
  <2> QED BY <2>1, <2>2, <2>3
<1>2. ASSUME NEW c \in Client, Ask(c) \/ Done(c) \/ Crash(c) PROVE Keyed' /\ InHand' /\ Sent'
  <2>1. UNCHANGED <<cache, result>>
    BY <1>2 DEF Ask, Done, Crash, Redis, Tasks
  <2>2. \E l \in {"get", "idle"} : Goto(c, l) /\ (UNCHANGED url \/ Hold(c, Nothing))
    BY <1>2 DEF Ask, Done, Crash
  <2>3. InHand'
    BY <2>2, <1>g, <1>z, <1>p
  <2> QED BY <2>1, <2>3, <1>s, <1>r
<1>3. ASSUME NEW c \in Client, GiveUp(c) PROVE Keyed' /\ InHand' /\ Sent'
  <2>1. /\ UNCHANGED cache /\ Hold(c, NoUrl) /\ Goto(c, "done")
        /\ result' = [result EXCEPT ![c] = Nothing]
    BY <1>3 DEF GiveUp, Redis
  <2>2. InHand'
    BY <2>1, <1>g, <1>z, <1>p
  <2>3. Sent'
    BY <2>1, <1>h, <1>t, <1>x, <1>z
  <2> QED BY <2>1, <2>2, <2>3, <1>s
<1>4. ASSUME NEW c \in Client, Get(c) PROVE Keyed' /\ InHand' /\ Sent'
  <2>1. UNCHANGED <<cache, result>>
    BY <1>4 DEF Get, Redis, Tasks
  <2>2. InHand'
    <3>1. CASE /\ Hit /\ Hold(c, cache.url)
               /\ \E r \in Refresher : pc' = [pc EXCEPT ![c] = "done", ![r] = "ttl"]
      <4>1. PICK r \in Refresher : pc' = [pc EXCEPT ![c] = "done", ![r] = "ttl"]
        BY <3>1
      <4>2. url' = [url EXCEPT ![c] = cache.url] /\ Alive(cache.url)
        BY <3>1, <1>c DEF Hit, Hold
      <4>3. \A q \in Process : /\ Alive(url'[q])
                               /\ pc'[q] = "store" => pc[q] = "store" /\ url'[q] = url[q]
        BY <4>1, <4>2, <1>h, <1>t, <1>p
      <4> QED BY <4>3, <1>h, <1>x
    <3>2. CASE Hit /\ Hold(c, cache.url) /\ Goto(c, "done")
      BY <3>2, <1>g, <1>c, <1>p DEF Hit
    <3>3. CASE Goto(c, "acquire") /\ UNCHANGED url
      BY <3>3, <1>g, <1>z, <1>p
    <3> QED BY <1>4, <3>1, <3>2, <3>3 DEF Get
  <2> QED BY <2>1, <2>2, <1>s, <1>r
<1>5. ASSUME NEW c \in Client, Acquire(c) \/ Recheck(c) PROVE Keyed' /\ InHand' /\ Sent'
  <2>1. UNCHANGED <<cache, result>>
    BY <1>5 DEF Acquire, Recheck, Redis, Tasks
  <2>2. \/ Hit /\ Hold(c, cache.url) /\ Goto(c, "release")
        \/ (Hold(c, NewUrl) \/ Hold(c, NoUrl)) /\ Goto(c, "done")
        \/ /\ UNCHANGED url
           /\ \E l \in {"recheck", "get", "submit", "presign"} : Goto(c, l)
    BY <1>5 DEF Acquire, Recheck
  <2>3. InHand'
    BY <2>2, <1>g, <1>c, <1>v, <1>z, <1>p DEF Hit
  <2> QED BY <2>1, <2>3, <1>s, <1>r
<1>6. ASSUME NEW c \in Client, Submit(c) \/ Receive(c) PROVE Keyed' /\ InHand' /\ Sent'
  <2>1. UNCHANGED cache
    BY <1>6 DEF Submit, Receive, Redis
  <2>2. CASE Submit(c)
    <3>1. \/ Goto(c, "queued") /\ UNCHANGED url
          \/ Goto(c, "release") /\ (Hold(c, NewUrl) \/ Hold(c, NoUrl))
      BY <2>2 DEF Submit, Compute
    <3>2. InHand'
      BY <3>1, <1>g, <1>v, <1>z, <1>p
    <3> QED BY <2>1, <2>2, <3>2, <1>s, <1>r DEF Submit
  <2>3. CASE Receive(c)
    <3>1. /\ Hold(c, result[c]) /\ Goto(c, "release")
          /\ result' = [result EXCEPT ![c] = Nothing]
      BY <2>3 DEF Receive
    <3>2. InHand'
      BY <3>1, <1>g, <1>h, <1>p
    <3>3. Sent'
      BY <3>1, <1>h, <1>t, <1>x, <1>z
    <3> QED BY <2>1, <3>2, <3>3, <1>s
  <2> QED BY <1>6, <2>2, <2>3
<1>7. ASSUME NEW p \in Process, Presign(p) PROVE Keyed' /\ InHand' /\ Sent'
  <2>1. PICK u \in {NewUrl, NoUrl} : url' = [url EXCEPT ![p] = u]
    BY <1>7 DEF Presign, Compute, Hold
  <2>2. PICK l \in Labels : pc' = [pc EXCEPT ![p] = l] /\ (l = "store" => url'[p] # NoUrl)
    BY <1>7 DEF Presign, Leave, Goto, Labels
  <2>3. l = "store" => u = NewUrl
    BY <2>1, <2>2, <1>t
  <2>4. \A q \in Process \ {p} : pc'[q] = pc[q] /\ url'[q] = url[q]
    BY <2>1, <2>2, <1>t
  <2>5. pc'[p] = l /\ url'[p] = u /\ Alive(u)
    BY <2>1, <2>2, <1>t, <1>v, <1>z
  <2>6. InHand'
    BY <2>3, <2>4, <2>5, <1>v, <1>h, <1>x
  <2> QED BY <1>7, <2>6, <1>s, <1>r DEF Presign, Redis, Tasks
<1>8. ASSUME NEW p \in Process, Store(p) PROVE Keyed' /\ InHand' /\ Sent'
  <2>1. url[p] \in Urls /\ Whole(url[p])
    BY <1>8, <1>h, <1>t DEF Store, At
  <2>2. Keyed'
    <3>1. CASE cache' = [url |-> url[p], ttl |-> Ttl(expires)]
      <4>1. Ttl(expires) = expires /\ expires >= 1
        BY TtlOfGranted
      <4> QED BY <3>1, <4>1, <2>1 DEF Whole
    <3> QED BY <1>8, <3>1, <1>s DEF Store
  <2>3. PICK u \in {Nothing, url[p]} : Hold(p, u)
    BY <1>8 DEF Store
  <2>4. Alive(u)
    BY <1>h, <1>z
  <2>5. InHand'
    BY <1>8, <2>3, <2>4, <1>g DEF Store, Leave
  <2> QED BY <1>8, <2>2, <2>5, <1>r DEF Store, Tasks
<1>9. ASSUME NEW p \in Client \cup Refresher, Release(p) PROVE Keyed' /\ InHand' /\ Sent'
  <2>1. \E l \in {"done", "idle"} : Goto(p, l) /\ (UNCHANGED url \/ Hold(p, Nothing))
    BY <1>9 DEF Release
  <2>2. InHand'
    BY <2>1, <1>g, <1>z, <1>p
  <2> QED BY <1>9, <2>2, <1>s, <1>r DEF Release, Tasks
<1>10. ASSUME NEW r \in Refresher, ReadTtl(r) \/ TakeLock(r) PROVE Keyed' /\ InHand' /\ Sent'
  <2>1. UNCHANGED <<cache, result, url>> /\ \E l \in {"idle", "lock", "presign"} : Goto(r, l)
    BY <1>10 DEF ReadTtl, TakeLock, Redis, Tasks
  <2>2. InHand'
    BY <2>1, <1>g, <1>z, <1>p
  <2> QED BY <2>1, <2>2, <1>s, <1>r
<1>11. ASSUME NEW w \in Worker, Take(w) PROVE Keyed' /\ InHand' /\ Sent'
  <2>1. UNCHANGED <<cache, result, url>> /\ Goto(w, "presign")
    BY <1>11 DEF Take, Redis
  <2>2. InHand'
    BY <2>1, <1>g, <1>z, <1>p
  <2> QED BY <2>1, <2>2, <1>s, <1>r
<1>12. ASSUME NEW w \in Worker, Reply(w) PROVE Keyed' /\ InHand' /\ Sent'
  <2>1. Alive(url[w])
    BY <1>h, <1>p
  <2>2. \/ UNCHANGED result
        \/ task[w] \in Client /\ result' = [result EXCEPT ![task[w]] = url[w]]
    BY <1>12, <1>t DEF Reply
  <2>3. Sent'
    BY <2>1, <2>2, <1>r, <1>h, <1>t, <1>x
  <2>4. Goto(w, "idle") /\ Hold(w, Nothing) /\ UNCHANGED cache
    BY <1>12 DEF Reply, Redis
  <2>5. InHand'
    BY <2>4, <1>g, <1>z, <1>p
  <2> QED BY <2>3, <2>4, <2>5, <1>s
<1> QED
  BY <1>1, <1>2, <1>3, <1>4, <1>5, <1>6, <1>7, <1>8, <1>9, <1>10, <1>11, <1>12, <1>p
  DEF Next, Serve, Refresh, Work

\* A client that asks for a validity that S3 grants is answered with a URL that is still
\* valid, or died no longer ago than it was in somebody's hands: before its SET, and on
\* the way to the client.
THEOREM HandedOutAliveHolds == Spec => []HandedOutAlive
<1>1. Init => AliveInv
  BY AnswerAssumption DEF Init, AliveInv, Alive
<1>2. Types /\ AliveInv /\ [Next]_vars => AliveInv'
  <2>1. ASSUME AliveInv, UNCHANGED vars PROVE AliveInv'
    BY <2>1 DEF AliveInv, Alive, Whole, vars
  <2> QED BY <2>1, AliveStep
<1>3. AliveInv => HandedOutAlive
  BY DEF AliveInv, HandedOutAlive, Alive, Process, At
<1> QED BY TypesHold, <1>1, <1>2, <1>3, PTL DEF Spec

=============================================================================
