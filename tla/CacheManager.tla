---------------------------- MODULE CacheManager ----------------------------
(***************************************************************************)
(* The local cache of one instance, internal/util/local_cache.go: the two  *)
(* read-write mutexes of CacheManager and what they protect.               *)
(*                                                                         *)
(* Set, Get and Contains take m.mutex, and Set and Get take m.stats.mu     *)
(* inside it; GetStats takes m.stats.mu and, through Len, m.mutex inside   *)
(* it.  Request handlers and refreshers call Get and Set; the dynamic      *)
(* cache loader of cmd/api/main.go calls GetStats and Contains as well.    *)
(* Which entry a full cache gives up is left open, so that both modes,     *)
(* "lru" and "lfu", are covered; hits and misses are not counted.          *)
(***************************************************************************)
EXTENDS Integers, FiniteSets

CONSTANTS
    Caller,         \* the goroutines that use the cache
    Loader,         \* the one that runs startDynamicCacheLoader
    Nobody,         \* no caller
    Key,            \* what Set is called with
    Capacity        \* cache.local_cache.size

ASSUME CacheAssumption ==
    /\ Loader \in Caller /\ Nobody \notin Caller
    /\ Capacity \in Nat \ {0}

VARIABLES
    mutex,          \* CacheManager.mutex
    statsMu,        \* LocalCacheStats.mu
    content,        \* the keys in LRUCache or LFUCache
    size,           \* LocalCacheStats.Size
    pc,             \* where each caller is
    length          \* what Len returned to GetStats

vars == <<mutex, statsMu, content, size, pc, length>>

-----------------------------------------------------------------------------
(* sync.RWMutex.  A writer announces itself before it waits for the readers *)
(* to leave; readers that come after the announcement are blocked, and      *)
(* Unlock lets them all in before the next writer.                          *)

RWMutex == [writer : Caller \cup {Nobody}, readers : SUBSET Caller, blocked : SUBSET Caller]

Free == [writer |-> Nobody, readers |-> {}, blocked |-> {}]

Announced(m, c)  == [m EXCEPT !.writer = c]
Locked(m, c)     == m.writer = c /\ m.readers = {}
Unlocked(m)      == [writer |-> Nobody, readers |-> m.blocked, blocked |-> {}]
ReadLocked(m, c) == c \in m.readers
ReadUnlocked(m, c) == [m EXCEPT !.readers = @ \ {c}]
ReadAsked(m, c) ==
    IF m.writer = Nobody THEN [m EXCEPT !.readers = @ \cup {c}]
                         ELSE [m EXCEPT !.blocked = @ \cup {c}]

-----------------------------------------------------------------------------
Init ==
    /\ mutex = Free /\ statsMu = Free
    /\ content = {} /\ size = 0
    /\ pc = [c \in Caller |-> "idle"]
    /\ length = 0

Goto(c, from, to) ==
    /\ pc[c] = from
    /\ pc' = [pc EXCEPT ![c] = to]

\* Mutant: a full cache gives up nothing.
StoredAnyway(k) == {content \cup {k}}

\* The content after Add or Set of k.
Stored(k) ==
    IF k \in content THEN {content}
    ELSE IF Cardinality(content) < Capacity THEN {content \cup {k}}
    ELSE {(content \ {e}) \cup {k} : e \in content}

\* m.stats.mu.Lock(), from the label "from".
AskStats(c, from, to) ==
    /\ Goto(c, from, to)
    /\ statsMu.writer = Nobody
    /\ statsMu' = Announced(statsMu, c)
    /\ UNCHANGED <<mutex, content, size, length>>

\* updateStats, from the moment it has m.stats.mu until it gives it back.
UpdateStats(c, from, to) ==
    /\ Goto(c, from, to)
    /\ Locked(statsMu, c)
    /\ size' = Cardinality(content)
    /\ statsMu' = Unlocked(statsMu)
    /\ UNCHANGED <<mutex, content, length>>

-----------------------------------------------------------------------------
(* Set.                                                                     *)

CallSet(c) ==
    /\ Goto(c, "idle", "set")
    /\ UNCHANGED <<mutex, statsMu, content, size, length>>

SetAsks(c) ==
    /\ Goto(c, "set", "setWait")
    /\ mutex.writer = Nobody
    /\ mutex' = Announced(mutex, c)
    /\ UNCHANGED <<statsMu, content, size, length>>

\* Mutant: an early return for a key that is there, without Unlock.
SetReturnsEarly(c) ==
    /\ pc[c] = "setWait" /\ Locked(mutex, c)
    /\ \E k \in Key :
         /\ content' \in Stored(k)
         /\ pc' = [pc EXCEPT ![c] = IF k \in content THEN "idle" ELSE "setNote"]
    /\ UNCHANGED <<mutex, statsMu, size, length>>

SetStores(c) ==
    /\ Goto(c, "setWait", "setNote")
    /\ Locked(mutex, c)
    /\ \E k \in Key : content' \in Stored(k)
    /\ UNCHANGED <<mutex, statsMu, size, length>>

SetEnds(c) ==
    /\ Goto(c, "setEnd", "idle")
    /\ mutex' = Unlocked(mutex)
    /\ UNCHANGED <<statsMu, content, size, length>>

SetStep(c) ==
    \/ SetStores(c)
    \/ UpdateStats(c, "setNoteWait", "setEnd")
    \/ SetEnds(c)

-----------------------------------------------------------------------------
(* Get and Contains.                                                        *)

CallGet(c) ==
    /\ Goto(c, "idle", "get")
    /\ mutex' = ReadAsked(mutex, c)
    /\ UNCHANGED <<statsMu, content, size, length>>

GetLooksUp(c) ==
    /\ Goto(c, "get", "getCount")
    /\ ReadLocked(mutex, c)
    /\ UNCHANGED <<mutex, statsMu, content, size, length>>

\* Hits or Misses is incremented.
GetCounts(c) ==
    /\ Goto(c, "getCountWait", "getNote")
    /\ Locked(statsMu, c)
    /\ statsMu' = Unlocked(statsMu)
    /\ UNCHANGED <<mutex, content, size, length>>

\* Mutant: no m.mutex.RUnlock().
GetKeepsMutex(c) ==
    /\ Goto(c, "getEnd", "idle")
    /\ UNCHANGED <<mutex, statsMu, content, size, length>>

GetEnds(c) ==
    /\ Goto(c, "getEnd", "idle")
    /\ mutex' = ReadUnlocked(mutex, c)
    /\ UNCHANGED <<statsMu, content, size, length>>

CallContains(c) ==
    /\ c = Loader
    /\ Goto(c, "idle", "contains")
    /\ mutex' = ReadAsked(mutex, c)
    /\ UNCHANGED <<statsMu, content, size, length>>

ContainsEnds(c) ==
    /\ Goto(c, "contains", "idle")
    /\ ReadLocked(mutex, c)
    /\ mutex' = ReadUnlocked(mutex, c)
    /\ UNCHANGED <<statsMu, content, size, length>>

GetStep(c) ==
    \/ GetLooksUp(c) \/ GetCounts(c)
    \/ UpdateStats(c, "getNoteWait", "getEnd")
    \/ GetEnds(c) \/ ContainsEnds(c)

-----------------------------------------------------------------------------
(* GetStats, which calls Len.                                               *)

CallGetStats(c) ==
    /\ c = Loader
    /\ Goto(c, "idle", "stats")
    /\ statsMu' = ReadAsked(statsMu, c)
    /\ UNCHANGED <<mutex, content, size, length>>

\* Mutant: GetStats gives m.stats.mu back before it calls Len, and does not
\* take it again to store the size.
StatsAsksLenUnlocked(c) ==
    /\ Goto(c, "stats", "len")
    /\ ReadLocked(statsMu, c)
    /\ statsMu' = ReadUnlocked(statsMu, c)
    /\ mutex' = ReadAsked(mutex, c)
    /\ UNCHANGED <<content, size, length>>

StatsAsksLen(c) ==
    /\ Goto(c, "stats", "len")
    /\ ReadLocked(statsMu, c)
    /\ mutex' = ReadAsked(mutex, c)
    /\ UNCHANGED <<statsMu, content, size, length>>

StatsReadsLen(c) ==
    /\ Goto(c, "len", "sized")
    /\ ReadLocked(mutex, c)
    /\ length' = Cardinality(content)
    /\ mutex' = ReadUnlocked(mutex, c)
    /\ UNCHANGED <<statsMu, content, size>>

StatsEnds(c) ==
    /\ Goto(c, "sized", "idle")
    /\ size' = length
    /\ statsMu' = ReadUnlocked(statsMu, c)
    /\ UNCHANGED <<mutex, content, length>>

StatsStep(c) == StatsAsksLen(c) \/ StatsReadsLen(c) \/ StatsEnds(c)

-----------------------------------------------------------------------------
Call(c) == CallSet(c) \/ CallGet(c) \/ CallContains(c) \/ CallGetStats(c)

\* The steps that compete for the inner mutex of an RWMutex.
Ask(c) ==
    \/ SetAsks(c)
    \/ AskStats(c, "setNote", "setNoteWait")
    \/ AskStats(c, "getCount", "getCountWait")
    \/ AskStats(c, "getNote", "getNoteWait")

Proceed(c) == SetStep(c) \/ GetStep(c) \/ StatsStep(c)

Next == \E c \in Caller : Call(c) \/ Ask(c) \/ Proceed(c)

Spec == Init /\ [][Next]_vars

\* Goroutines run on, and sync.Mutex hands over to a waiter that has waited for
\* a millisecond, which makes it fair.  Nobody has to call anything.
Fairness == \A c \in Caller : SF_vars(Ask(c)) /\ WF_vars(Proceed(c))

FairSpec == Spec /\ Fairness

-----------------------------------------------------------------------------
(* Properties.                                                              *)

Label ==
    {"idle", "set", "setWait", "setNote", "setNoteWait", "setEnd",
     "get", "getCount", "getCountWait", "getNote", "getNoteWait", "getEnd",
     "contains", "stats", "len", "sized"}

\* Every variable has its shape, and the cache never outgrows its capacity.
TypeOK ==
    /\ mutex \in RWMutex /\ statsMu \in RWMutex
    /\ content \subseteq Key /\ Cardinality(content) <= Capacity
    /\ size \in 0..Capacity /\ length \in 0..Capacity
    /\ pc \in [Caller -> Label]

\* A Set between its change of the content and its updateStats.
Unnoted(c) == pc[c] \in {"setNote", "setNoteWait"}

\* Except while a Set is about to note its change, the Size of the statistics
\* is the size of the cache -- although Get writes it while it only reads
\* m.mutex, and GetStats writes a length it read before it let m.mutex go.
SizeTruthful ==
    (\A c \in Caller : ~Unnoted(c)) => size = Cardinality(content)

\* A caller that waits for a mutex it does not get.
Blocked(c) ==
    CASE pc[c] = "set"                              -> mutex.writer # Nobody
      [] pc[c] = "setWait"                          -> ~Locked(mutex, c)
      [] pc[c] \in {"get", "contains", "len"}       -> ~ReadLocked(mutex, c)
      [] pc[c] \in {"setNote", "getCount", "getNote"} -> statsMu.writer # Nobody
      [] pc[c] \in {"setNoteWait", "getCountWait", "getNoteWait"} -> ~Locked(statsMu, c)
      [] pc[c] = "stats"                            -> ~ReadLocked(statsMu, c)
      [] OTHER                                      -> FALSE

Busy == {c \in Caller : pc[c] # "idle"}

WantsStats(c) ==
    pc[c] \in {"setNote", "setNoteWait", "getCount", "getCountWait", "getNote", "getNoteWait"}

\* GetStats holds m.stats.mu and is kept out of m.mutex by a Set that itself, or
\* through a Get it waits for, waits for m.stats.mu.
Embraced ==
    /\ pc[Loader] = "len" /\ mutex.writer # Nobody /\ ~ReadLocked(mutex, Loader)
    /\ \E c \in mutex.readers \cup {mutex.writer} : WantsStats(c)

\* Nobody ever gets out of it: no timeout, no later call and no other caller
\* breaks the embrace, and with m.stats.mu the whole cache stays taken.
EmbraceLasts == [][Embraced => Embraced']_vars

\* The callers never all wait for each other, unless it is GetStats that is
\* caught: no other order of Set, Get and Contains can stop the cache.
OnlyGetStatsDeadlocks ==
    (Busy # {} /\ \A c \in Busy : Blocked(c)) => Embraced

\* Every call returns, unless GetStats has been caught that way: no reader is
\* overtaken for ever by the writers, and no writer by the readers.
CallsReturn ==
    \A c \in Caller : pc[c] # "idle" ~> (pc[c] = "idle" \/ Embraced)
=============================================================================
