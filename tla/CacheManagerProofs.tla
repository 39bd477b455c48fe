------------------------- MODULE CacheManagerProofs -------------------------
(***************************************************************************)
(* Theorems of CacheManager, for any number of callers, keys and entries.  *)
(*                                                                         *)
(* Everything rests on who holds which mutex where (MutexInv, StatsInv):   *)
(* it orders m.mutex before m.stats.mu for every call but GetStats, so     *)
(* that a ring of waiting callers must go through it; and it keeps a Set   *)
(* from noting its size between the moment GetStats reads a length and the *)
(* moment it stores it (SizeInv).                                          *)
(***************************************************************************)
EXTENDS CacheManager, FiniteSetTheorems, TLAPS

Changing == {"setNote", "setNoteWait", "setEnd"}
Waiting  == {"get", "contains", "len"}
Reading  == {"getCount", "getCountWait", "getNote", "getNoteWait", "getEnd"}
Noting   == {"setNoteWait", "getCountWait", "getNoteWait"}
Stating  == {"stats", "len", "sized"}

Types == TypeOK /\ IsFiniteSet(content)

\* m.mutex belongs to the Set that announced itself, alone once it changes the
\* content, or to those who read; readers are kept out only by a writer.
MutexInv ==
    /\ \A c \in Caller : mutex.writer = c <=> pc[c] \in Changing \cup {"setWait"}
    /\ \A c \in Caller : pc[c] \in Changing => mutex.readers = {}
    /\ \A c \in Caller : c \in mutex.readers \cup mutex.blocked
                            <=> pc[c] \in Waiting \cup Reading
    /\ \A c \in mutex.blocked : pc[c] \in Waiting /\ c \notin mutex.readers
    /\ mutex.writer = Nobody => mutex.blocked = {}

\* m.stats.mu is written by a Set or a Get that asked for it and read by the
\* loader's GetStats only.
StatsInv ==
    /\ \A c \in Caller : statsMu.writer = c <=> pc[c] \in Noting
    /\ \A c \in Caller : c \in statsMu.readers \cup statsMu.blocked <=> pc[c] \in Stating
    /\ \A c \in statsMu.blocked : pc[c] = "stats" /\ c \notin statsMu.readers
    /\ statsMu.writer = Nobody => statsMu.blocked = {}
    /\ \A c \in Caller : pc[c] \in Stating \cup {"contains"} => c = Loader

\* When no Set has a change to note, the size noted is the size, and so is the
\* length GetStats is about to note.
SizeInv ==
    (\A c \in Caller : ~Unnoted(c)) =>
        /\ size = Cardinality(content)
        /\ pc[Loader] = "sized" => length = Cardinality(content)

Inv == Types /\ MutexInv /\ StatsInv /\ SizeInv

-----------------------------------------------------------------------------
\* A store leaves a finite set of keys within the capacity.
LEMMA StoredFits ==
    ASSUME Types, NEW k \in Key, NEW X \in Stored(k)
    PROVE  X \subseteq Key /\ IsFiniteSet(X) /\ Cardinality(X) <= Capacity
<1> USE DEF Types, TypeOK
<1>1. CASE k \in content
  BY <1>1 DEF Stored
<1>2. CASE k \notin content /\ Cardinality(content) < Capacity
  <2>1. X = content \cup {k}
    BY <1>2 DEF Stored
  <2>2. Cardinality(X) = Cardinality(content) + 1 /\ IsFiniteSet(X)
    BY <2>1, <1>2, FS_AddElement
  <2> QED BY <2>1, <2>2, <1>2, FS_CardinalityType, CacheAssumption
<1>3. CASE k \notin content /\ ~(Cardinality(content) < Capacity)
  <2>1. PICK e \in content : X = (content \ {e}) \cup {k}
    BY <1>3 DEF Stored
  <2>2. IsFiniteSet(content \ {e}) /\ Cardinality(content \ {e}) = Cardinality(content) - 1
    BY FS_RemoveElement
  <2>3. IsFiniteSet(X) /\ Cardinality(X) = Cardinality(content \ {e}) + 1
    BY <2>1, <2>2, <1>3, FS_AddElement
  <2> QED BY <2>1, <2>2, <2>3, FS_CardinalityType, CacheAssumption
<1> QED BY <1>1, <1>2, <1>3

LEMMA ContentCount == Types => Cardinality(content) \in 0..Capacity
  BY FS_CardinalityType, CacheAssumption DEF Types, TypeOK

LEMMA InitInv == Init => Inv
<1> SUFFICES ASSUME Init PROVE Inv
  OBVIOUS
<1>1. Types
  BY FS_EmptySet, CacheAssumption DEF Init, Types, TypeOK, Free, RWMutex, Label
<1>2. MutexInv /\ StatsInv
  BY CacheAssumption
  DEF Init, MutexInv, StatsInv, Free, Changing, Waiting, Reading, Noting, Stating
<1>3. SizeInv
  BY FS_EmptySet, CacheAssumption DEF Init, SizeInv
<1> QED BY <1>1, <1>2, <1>3 DEF Inv

\* Every step keeps the types.
LEMMA TypesStep == ASSUME Types, NEW c \in Caller, Call(c) \/ Ask(c) \/ Proceed(c)
                   PROVE  Types'
<1> USE ContentCount DEF Types, TypeOK, Goto, Label
<1>1. CASE Call(c)
  BY <1>1 DEF Call, CallSet, CallGet, CallContains, CallGetStats, ReadAsked, RWMutex
<1>2. CASE Ask(c)
  BY <1>2 DEF Ask, SetAsks, AskStats, Announced, RWMutex
<1>3. CASE SetStores(c)
  BY <1>3, StoredFits DEF SetStores
<1>4. CASE UpdateStats(c, "setNoteWait", "setEnd") \/ UpdateStats(c, "getNoteWait", "getEnd")
  BY <1>4 DEF UpdateStats, Unlocked, RWMutex
<1>5. CASE SetEnds(c)
  BY <1>5 DEF SetEnds, Unlocked, RWMutex
<1>6. CASE GetLooksUp(c) \/ GetCounts(c) \/ GetEnds(c) \/ ContainsEnds(c)
  BY <1>6 DEF GetLooksUp, GetCounts, GetEnds, ContainsEnds, Unlocked, ReadUnlocked, RWMutex
<1>7. CASE StatsStep(c)
  BY <1>7
  DEF StatsStep, StatsAsksLen, StatsReadsLen, StatsEnds, ReadAsked, ReadUnlocked, RWMutex
<1> QED BY <1>1, <1>2, <1>3, <1>4, <1>5, <1>6, <1>7 DEF Proceed, SetStep, GetStep

LEMMA MutexStep == ASSUME Inv, NEW c \in Caller, Call(c) \/ Ask(c) \/ Proceed(c)
                   PROVE  MutexInv'
<1> USE CacheAssumption
    DEF Inv, Types, TypeOK, MutexInv, Goto, RWMutex, Changing, Waiting, Reading
<1>1. CASE CallSet(c) \/ CallGetStats(c)
  BY <1>1 DEF CallSet, CallGetStats
<1>2. CASE CallGet(c)
  BY <1>2 DEF CallGet, ReadAsked
<1>3. CASE CallContains(c)
  BY <1>3 DEF CallContains, ReadAsked
<1>4. CASE SetAsks(c)
  BY <1>4 DEF SetAsks, Announced
<1>5. CASE AskStats(c, "setNote", "setNoteWait")
  BY <1>5 DEF AskStats
<1>6. CASE AskStats(c, "getCount", "getCountWait") \/ AskStats(c, "getNote", "getNoteWait")
  BY <1>6 DEF AskStats
<1>7. CASE SetStores(c)
  BY <1>7 DEF SetStores, Locked
<1>8. CASE UpdateStats(c, "setNoteWait", "setEnd") \/ UpdateStats(c, "getNoteWait", "getEnd")
  BY <1>8 DEF UpdateStats
<1>9. CASE SetEnds(c)
  BY <1>9 DEF SetEnds, Unlocked
<1>10. CASE GetLooksUp(c) \/ GetCounts(c)
  BY <1>10 DEF GetLooksUp, GetCounts, ReadLocked
<1>11. CASE GetEnds(c) \/ ContainsEnds(c)
  BY <1>11 DEF GetEnds, ContainsEnds, ReadLocked, ReadUnlocked
<1>12. CASE StatsAsksLen(c)
  BY <1>12 DEF StatsAsksLen, ReadAsked
<1>13. CASE StatsReadsLen(c) \/ StatsEnds(c)
  BY <1>13 DEF StatsReadsLen, StatsEnds, ReadLocked, ReadUnlocked
<1> QED
  BY <1>1, <1>2, <1>3, <1>4, <1>5, <1>6, <1>7, <1>8, <1>9, <1>10, <1>11, <1>12, <1>13
  DEF Call, Ask, Proceed, SetStep, GetStep, StatsStep

LEMMA StatsMuStep == ASSUME Inv, NEW c \in Caller, Call(c) \/ Ask(c) \/ Proceed(c)
                     PROVE  StatsInv'
<1> USE CacheAssumption
    DEF Inv, Types, TypeOK, StatsInv, Goto, RWMutex, Noting, Stating
<1>1. CASE CallSet(c) \/ CallGet(c) \/ CallContains(c)
  BY <1>1 DEF CallSet, CallGet, CallContains
<1>2. CASE CallGetStats(c)
  BY <1>2 DEF CallGetStats, ReadAsked
<1>3. CASE SetAsks(c) \/ SetStores(c) \/ SetEnds(c)
  BY <1>3 DEF SetAsks, SetStores, SetEnds
<1>4. CASE \/ AskStats(c, "setNote", "setNoteWait")
           \/ AskStats(c, "getCount", "getCountWait") \/ AskStats(c, "getNote", "getNoteWait")
  BY <1>4 DEF AskStats, Announced
<1>5. CASE UpdateStats(c, "setNoteWait", "setEnd") \/ UpdateStats(c, "getNoteWait", "getEnd")
  BY <1>5 DEF UpdateStats, Unlocked, Locked
<1>6. CASE GetCounts(c)
  BY <1>6 DEF GetCounts, Unlocked, Locked
<1>7. CASE GetLooksUp(c) \/ GetEnds(c) \/ ContainsEnds(c)
  BY <1>7 DEF GetLooksUp, GetEnds, ContainsEnds
<1>8. CASE StatsAsksLen(c) \/ StatsReadsLen(c)
  BY <1>8 DEF StatsAsksLen, StatsReadsLen, ReadLocked
<1>9. CASE StatsEnds(c)
  BY <1>9 DEF StatsEnds, ReadUnlocked
<1> QED
  BY <1>1, <1>2, <1>3, <1>4, <1>5, <1>6, <1>7, <1>8, <1>9
  DEF Call, Ask, Proceed, SetStep, GetStep, StatsStep

\* The size is noted by a Set before another may change the content, and never
\* while GetStats holds a length that it has not stored.
LEMMA SizeStep == ASSUME Inv, NEW c \in Caller, Call(c) \/ Ask(c) \/ Proceed(c)
                  PROVE  SizeInv'
<1> USE CacheAssumption DEF Inv, Types, TypeOK, SizeInv, Unnoted, Goto
<1>1. CASE Call(c)
  BY <1>1 DEF Call, CallSet, CallGet, CallContains, CallGetStats
<1>2. CASE Ask(c)
  BY <1>2 DEF Ask, SetAsks, AskStats
<1>3. CASE SetStores(c)
  BY <1>3 DEF SetStores
<1>4. CASE UpdateStats(c, "setNoteWait", "setEnd") \/ UpdateStats(c, "getNoteWait", "getEnd")
  <2>1. pc[Loader] # "sized" /\ pc'[Loader] # "sized"
    BY <1>4 DEF UpdateStats, Locked, StatsInv, Noting, Stating, RWMutex
  <2>2. size' = Cardinality(content) /\ content' = content
    BY <1>4 DEF UpdateStats
  <2> QED BY <2>1, <2>2
<1>5. CASE SetEnds(c) \/ GetLooksUp(c) \/ GetCounts(c) \/ GetEnds(c) \/ ContainsEnds(c)
  BY <1>5 DEF SetEnds, GetLooksUp, GetCounts, GetEnds, ContainsEnds
<1>6. CASE StatsStep(c)
  BY <1>6 DEF StatsStep, StatsAsksLen, StatsReadsLen, StatsEnds, StatsInv, Stating
<1> QED BY <1>1, <1>2, <1>3, <1>4, <1>5, <1>6 DEF Proceed, SetStep, GetStep

LEMMA InvStep == Inv /\ [Next]_vars => Inv'
<1> SUFFICES ASSUME Inv, [Next]_vars PROVE Inv'
  OBVIOUS
<1>1. CASE Next
  BY <1>1, TypesStep, MutexStep, StatsMuStep, SizeStep DEF Next, Inv
<1>2. CASE UNCHANGED vars
  BY <1>2
  DEF vars, Inv, Types, TypeOK, MutexInv, StatsInv, SizeInv, Unnoted
<1> QED BY <1>1, <1>2

LEMMA InvHolds == Spec => []Inv
  BY InitInv, InvStep, PTL DEF Spec

-----------------------------------------------------------------------------
\* Every reachable state of the cache has its shape, and the cache holds at most
\* Capacity entries (CacheManager in internal/util/local_cache.go).
THEOREM TypeCorrect == Spec => []TypeOK
<1>1. Inv => TypeOK
  BY DEF Inv, Types
<1> QED BY InvHolds, <1>1, PTL

\* LocalCacheStats.Size is the size of the cache whenever no Set is about to note
\* its change, whatever Gets and GetStats run beside it.
THEOREM SizeTruthfulHolds == Spec => []SizeTruthful
<1>1. Inv => SizeTruthful
  BY DEF Inv, SizeInv, SizeTruthful
<1> QED BY InvHolds, <1>1, PTL

\* Callers that all wait are caught through GetStats: the order in which Set, Get
\* and Contains take the two mutexes cannot stop them.
THEOREM OnlyGetStatsDeadlocksHolds == Spec => []OnlyGetStatsDeadlocks
<1>1. Inv => OnlyGetStatsDeadlocks
  <2> SUFFICES ASSUME Inv, Busy # {}, \A c \in Busy : Blocked(c)
               PROVE  Embraced
    BY DEF OnlyGetStatsDeadlocks
  <2> USE CacheAssumption DEF Inv, Types, TypeOK, RWMutex
  <2>1. CASE \E c \in Caller : WantsStats(c)
    <3>1. PICK c \in Caller : WantsStats(c)
      BY <2>1
    <3>2. c \in Busy /\ Blocked(c)
      BY <3>1 DEF WantsStats, Busy
    <3>3. statsMu.writer # Nobody
      BY <3>1, <3>2 DEF WantsStats, Blocked, StatsInv, Noting
    <3>4. PICK w \in Caller : w = statsMu.writer
      BY <3>3
    <3>5. pc[w] \in Noting /\ Blocked(w)
      BY <3>4 DEF StatsInv, Busy, Noting
    <3>6. statsMu.readers # {}
      BY <3>4, <3>5 DEF Blocked, Noting, Locked
    <3>7. Loader \in statsMu.readers /\ pc[Loader] \in Stating
      BY <3>6 DEF StatsInv
    <3>8. pc[Loader] = "len" /\ ~ReadLocked(mutex, Loader)
      BY <3>7 DEF Stating, Busy, Blocked, ReadLocked
    <3>9. mutex.writer # Nobody
      BY <3>8 DEF MutexInv, ReadLocked, Waiting
    <3>10. c \in mutex.readers \cup {mutex.writer}
      BY <3>1 DEF WantsStats, MutexInv, Changing, Waiting, Reading
    <3> QED BY <3>1, <3>8, <3>9, <3>10 DEF Embraced
  <2>2. CASE \A c \in Caller : ~WantsStats(c)
    <3>1. statsMu.writer = Nobody
      BY <2>2 DEF StatsInv, Noting, WantsStats
    <3>2. \A c \in Caller : pc[c] # "stats"
      BY <3>1 DEF StatsInv, Stating, Busy, Blocked, ReadLocked
    <3>3. \A c \in Busy : pc[c] \in {"set", "setWait"} \cup Waiting
      BY <2>2, <3>2 DEF Busy, Blocked, WantsStats, Waiting, Label
    <3>4. mutex.writer # Nobody
      <4>1. PICK c \in Busy : TRUE
        OBVIOUS
      <4> QED BY <4>1, <3>3 DEF Busy, Blocked, MutexInv, Changing, Waiting, ReadLocked
    <3>5. PICK w \in Caller : w = mutex.writer
      BY <3>4
    <3>6. pc[w] = "setWait" /\ Blocked(w)
      BY <3>5, <3>3 DEF MutexInv, Busy, Changing, Waiting
    <3>7. PICK r \in mutex.readers : TRUE
      BY <3>5, <3>6 DEF Blocked, Locked
    <3>8. r \in Busy /\ pc[r] \in Waiting
      BY <3>3 DEF MutexInv, Busy, Waiting, Reading
    <3> QED BY <3>8 DEF Blocked, Waiting, ReadLocked, MutexInv
  <2> QED BY <2>1, <2>2
<1> QED BY InvHolds, <1>1, PTL

\* A GetStats that has been caught is caught for good, and so is the loader of
\* cmd/api/main.go that called it.
THEOREM EmbraceLastsHolds == Spec => EmbraceLasts
<1>1. Inv /\ [Next]_vars => (Embraced => Embraced')
  <2> SUFFICES ASSUME Inv, [Next]_vars, Embraced PROVE Embraced'
    OBVIOUS
  <2> USE CacheAssumption DEF Inv, Types, TypeOK, RWMutex, Goto
  <2>1. PICK w \in mutex.readers \cup {mutex.writer} : WantsStats(w)
    BY DEF Embraced
  <2>2. w \in Caller /\ mutex.writer \in Caller
    BY <2>1 DEF Embraced
  <2>3. Loader \in statsMu.readers /\ Loader \in mutex.blocked
    BY DEF Embraced, StatsInv, Stating, MutexInv, Waiting, ReadLocked
  <2>4. \A c \in Caller : ~Locked(statsMu, c)
    BY <2>3 DEF Locked
  <2>5. pc[mutex.writer] # "setEnd"
    BY <2>1, <2>2 DEF WantsStats, MutexInv, Changing
  <2>6. pc[Loader] = "len" /\ ~ReadLocked(mutex, Loader)
    BY DEF Embraced
  <2>7. ASSUME NEW c \in Caller, Call(c) PROVE Embraced'
    BY <2>1, <2>2, <2>6, <2>7
    DEF Call, CallSet, CallGet, CallContains, CallGetStats, ReadAsked, ReadLocked,
        Embraced, WantsStats
  <2>8. ASSUME NEW c \in Caller, Ask(c) PROVE Embraced'
    BY <2>1, <2>2, <2>6, <2>8
    DEF Ask, SetAsks, AskStats, Announced, ReadLocked, Embraced, WantsStats
  <2>9. ASSUME NEW c \in Caller, SetStep(c) PROVE Embraced'
    <3>1. mutex.writer = c /\ pc[c] = "setWait" /\ SetStores(c)
      BY <2>4, <2>5, <2>9
      DEF SetStep, UpdateStats, SetStores, SetEnds, MutexInv, Changing, Locked
    <3>2. w = c
      BY <2>1, <3>1 DEF SetStores, Locked
    <3> QED BY <2>1, <3>1, <3>2 DEF WantsStats
  <2>10. ASSUME NEW c \in Caller, GetStep(c) PROVE Embraced'
    <3>1. GetLooksUp(c) \/ GetEnds(c) \/ ContainsEnds(c)
      BY <2>4, <2>10 DEF GetStep, GetCounts, UpdateStats
    <3> QED
      BY <2>1, <2>2, <2>6, <3>1
      DEF GetLooksUp, GetEnds, ContainsEnds, ReadUnlocked, ReadLocked, Embraced, WantsStats
  <2>11. ASSUME NEW c \in Caller, StatsStep(c) PROVE Embraced'
    BY <2>6, <2>11
    DEF StatsStep, StatsAsksLen, StatsReadsLen, StatsEnds, StatsInv, Stating
  <2>12. CASE UNCHANGED vars
    BY <2>12 DEF vars, Embraced, WantsStats, ReadLocked
  <2>13. CASE Next
    <3>1. PICK c \in Caller : Call(c) \/ Ask(c) \/ Proceed(c)
      BY <2>13 DEF Next
    <3> QED BY <3>1, <2>7, <2>8, <2>9, <2>10, <2>11 DEF Proceed
  <2> QED BY <2>12, <2>13
<1> QED BY InvHolds, <1>1, PTL DEF Spec, EmbraceLasts
=============================================================================
