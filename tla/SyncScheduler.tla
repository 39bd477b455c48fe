--------------------------- MODULE SyncScheduler ---------------------------
(***************************************************************************)
(* The Scheduler of internal/syncer/scheduler.go in one instance of the    *)
(* program, from Start to Stop and over restarts.                          *)
(*                                                                         *)
(* Start runs one round of syncAll at once and one at every tick; a        *)
(* request may start a further round (TriggerSync with an empty id) or a   *)
(* single synchronisation.  A round spawns one goroutine -- here a job --  *)
(* per configured software; at most MaxConcurrent jobs OF THE ROUND hold a *)
(* token of its semaphore.  A job calls SyncSoftware, which is seen here   *)
(* from outside: it takes the Redis lock of the software or returns at     *)
(* once, lists the releases, which may end the process, goes through them, *)
(* and deletes the lock, whoever holds it by then.  ReleaseSync has the    *)
(* inside.                                                                 *)
(***************************************************************************)
EXTENDS Integers, FiniteSets

CONSTANTS
    N,              \* number of configured softwares
    MaxConcurrent,  \* sync.max_concurrent
    Full,           \* softwares configured full_historical with full_sync_once
    \* What the environment may do:
    MaxRequests,    \* POSTs to /api/sync/trigger, for all softwares or for one
    MaxStops,       \* SIGTERMs
    MaxFaults,      \* calls that fail although their context is alive
    MaxPanics,      \* processes that a listing ends while its context is alive
    MaxOverruns     \* locks that run out under a job

Software == 1..N

ASSUME SchedulerAssumption ==
    /\ N \in Nat /\ MaxConcurrent \in Nat \ {0}
    /\ Full \subseteq Software
    /\ MaxRequests \in Nat /\ MaxStops \in Nat /\ MaxFaults \in Nat
    /\ MaxPanics \in Nat /\ MaxOverruns \in Nat

VARIABLES
    phase,          \* life of the instance
    round,          \* state of each call of syncAll
    next,           \* index into softwares of each call
    sem,            \* tokens taken from the semaphore of each call
    job,            \* state of each goroutine that synchronises a software
    copy,           \* the sync_rule in its copy of the configuration
    rule,           \* s.softwares[i].SyncRule
    lock,           \* Redis: the softwares whose lock key exists
    status,         \* GitHubSyncer.inProgress and currentJob: the job, 0 if none
    known,          \* softwares whose list's ETag the GitHub client has cached
    full,           \* softwares whose history has been gone through once
    requests, stops, faults, panics, overruns   \* how many have happened

budget == <<requests, stops, faults, panics, overruns>>
work   == <<round, next, sem, job, copy>>
vars   == <<phase, work, rule, lock, status, known, full, budget>>

Round  == {"boot", "tick", "all"}           \* the callers of syncAll
Source == Round \cup {"one"}                \* "one": TriggerSync(id)
Job    == Source \X Software
Rules  == {"full_historical", "incremental"}

Configured == [w \in Software |-> IF w \in Full THEN "full_historical"
                                                ELSE "incremental"]
Idle   == [r \in Round |-> "idle"]
First  == [r \in Round |-> 1]
NoSem  == [r \in Round |-> 0]
NoJobs == [j \in Job |-> "none"]
NoCopy == [j \in Job |-> "incremental"]

Init ==
    /\ phase = "down"
    /\ round = Idle /\ next = First /\ sem = NoSem /\ job = NoJobs /\ copy = NoCopy
    /\ rule = Configured /\ lock = {} /\ status = 0 /\ known = {} /\ full = {}
    /\ requests = 0 /\ stops = 0 /\ faults = 0 /\ panics = 0 /\ overruns = 0

Stopping == phase \in {"stopping", "stopped"}

\* What a job finds when it looks at its context.  Those of the scheduler are
\* cancelled by Stop.  Those of a request end when the server shuts down, which
\* main does before it calls Stop and which no goroutine waits for.
Cancelled(source) ==
    IF source \in {"boot", "tick"} THEN {Stopping}
    ELSE IF phase \in {"down", "running"} THEN {FALSE} ELSE BOOLEAN

AtWork(j)  == job[j] \in {"listing", "syncing"}         \* between SETNX and DEL
Working(j) == AtWork(j) \/ job[j] \in {"holding", "returned"}

-----------------------------------------------------------------------------
(* Start, Stop and the end of the process.                                  *)

Start ==
    /\ phase = "down"
    /\ phase' = "running"
    /\ round' = [round EXCEPT !["boot"] = "submit"]
    /\ UNCHANGED <<next, sem, job, copy, rule, lock, status, known, full, budget>>

\* What ends with the process: its goroutines, between any two calls, and its
\* memory.  The rules it had switched are the ones of the configuration again.
ProcessEnds ==
    /\ phase' = "down"
    /\ round' = Idle /\ next' = First /\ sem' = NoSem /\ job' = NoJobs /\ copy' = NoCopy
    /\ rule' = Configured /\ status' = 0 /\ known' = {}

\* SIGTERM: app.Shutdown() ends the requests' contexts; the scheduler runs on.
Shutdown ==
    /\ phase = "running" /\ stops < MaxStops
    /\ phase' = "shutdown"
    /\ stops' = stops + 1
    /\ UNCHANGED <<work, rule, lock, status, known, full,
                   requests, faults, panics, overruns>>

\* It fails: util.Fatal ends the process there, without the deferred calls.
ShutdownFails ==
    /\ phase = "shutdown" /\ faults < MaxFaults
    /\ faults' = faults + 1
    /\ ProcessEnds
    /\ UNCHANGED <<lock, full, requests, stops, panics, overruns>>

\* The deferred scheduler.Stop() of main cancels the scheduler's context.
Stop ==
    /\ phase = "shutdown"
    /\ phase' = "stopping"
    /\ UNCHANGED <<work, rule, lock, status, known, full, budget>>

\* s.wg counts the first round and the ticker, and nothing a request started.
StopReturns ==
    /\ phase = "stopping"
    /\ round["boot"] = "idle" /\ round["tick"] = "exited"
    /\ phase' = "stopped"
    /\ UNCHANGED <<work, rule, lock, status, known, full, budget>>

\* main returns, and systemd starts it again.
Exit ==
    /\ phase = "stopped"
    /\ ProcessEnds
    /\ UNCHANGED <<lock, full, budget>>

-----------------------------------------------------------------------------
(* syncAll.                                                                 *)

Begin(r) ==
    /\ round[r] = "idle"
    /\ round' = [round EXCEPT ![r] = "submit"]
    /\ UNCHANGED <<phase, next, sem, job, copy, rule, lock, status, known, full,
                   stops, faults, panics, overruns>>

\* The select of the ticker's loop may take a tick after Stop has cancelled.
Tick == phase \in {"running", "shutdown", "stopping"} /\ Begin("tick") /\ UNCHANGED requests

\* Mutant: the loop has no case <-s.ctx.Done().
TickerStays == FALSE /\ UNCHANGED vars

TickerExits ==
    /\ Stopping /\ round["tick"] = "idle"
    /\ round' = [round EXCEPT !["tick"] = "exited"]
    /\ UNCHANGED <<phase, next, sem, job, copy, rule, lock, status, known, full, budget>>

\* One such round at a time.  app.Shutdown() lets the requests in flight end.
TriggerAll ==
    /\ phase \in {"running", "shutdown"} /\ requests < MaxRequests
    /\ Begin("all")
    /\ requests' = requests + 1

\* Mutant: the rule is switched when the job is spawned.
SubmitSwitches(r) ==
    /\ phase # "down" /\ round[r] = "submit" /\ next[r] \in Software
    /\ job' = [job EXCEPT ![<<r, next[r]>>] = "queued"]
    /\ copy' = [copy EXCEPT ![<<r, next[r]>>] = rule[next[r]]]
    /\ rule' = [rule EXCEPT ![next[r]] = "incremental"]
    /\ next' = [next EXCEPT ![r] = @ + 1]
    /\ UNCHANGED <<phase, round, sem, lock, status, known, full, budget>>

\* One turn of the loop over s.softwares: look at the context, copy the entry,
\* spawn the job.  The copy is made without the mutex under which the rule is
\* switched; a torn string is no rule, and an unknown rule is taken for
\* incremental, so that one of the two values covers it.
Submit(r) ==
    /\ phase # "down" /\ round[r] = "submit" /\ next[r] \in Software
    /\ \E cancelled \in Cancelled(r) :
          IF cancelled
          THEN /\ round' = [round EXCEPT ![r] = "wait"]
               /\ UNCHANGED <<next, job, copy>>
          ELSE LET j == <<r, next[r]>>
               IN  /\ job' = [job EXCEPT ![j] = "queued"]
                   /\ copy' = [copy EXCEPT ![j] = rule[next[r]]]
                   /\ next' = [next EXCEPT ![r] = @ + 1]
                   /\ UNCHANGED round
    /\ UNCHANGED <<phase, sem, rule, lock, status, known, full, budget>>

EndSubmit(r) ==
    /\ phase # "down" /\ round[r] = "submit" /\ next[r] \notin Software
    /\ round' = [round EXCEPT ![r] = "wait"]
    /\ UNCHANGED <<phase, next, sem, job, copy, rule, lock, status, known, full, budget>>

\* Mutant: no wg.Wait() for the jobs of the round.
EndRoundEarly(r) ==
    /\ phase # "down" /\ round[r] = "wait"
    /\ round' = [round EXCEPT ![r] = "idle"]
    /\ next' = [next EXCEPT ![r] = 1] /\ sem' = [sem EXCEPT ![r] = 0]
    /\ UNCHANGED <<phase, job, copy, rule, lock, status, known, full, budget>>

\* The index and the semaphore are locals of the call.
EndRound(r) ==
    /\ phase # "down" /\ round[r] = "wait"
    /\ \A w \in Software : job[<<r, w>>] = "none"
    /\ round' = [round EXCEPT ![r] = "idle"]
    /\ next' = [next EXCEPT ![r] = 1] /\ sem' = [sem EXCEPT ![r] = 0]
    /\ UNCHANGED <<phase, job, copy, rule, lock, status, known, full, budget>>

-----------------------------------------------------------------------------
(* The job: token, SyncSoftware, the switch of full_sync_once.              *)

Move(j, state) == job' = [job EXCEPT ![j] = state]
End(j) == Move(j, "none") /\ copy' = [copy EXCEPT ![j] = NoCopy[j]]

TriggerOne(w) ==
    /\ phase \in {"running", "shutdown"}
    /\ requests < MaxRequests /\ job[<<"one", w>>] = "none"
    /\ requests' = requests + 1
    /\ Move(<<"one", w>>, "holding")
    /\ copy' = [copy EXCEPT ![<<"one", w>>] = rule[w]]
    /\ UNCHANGED <<phase, round, next, sem, rule, lock, status, known, full,
                   stops, faults, panics, overruns>>

\* Mutant: a channel with room for one token more.
TakeTokenExtra(j) ==
    /\ phase # "down" /\ j[1] \in Round
    /\ job[j] = "queued" /\ sem[j[1]] <= MaxConcurrent
    /\ sem' = [sem EXCEPT ![j[1]] = @ + 1]
    /\ Move(j, "holding")
    /\ UNCHANGED <<phase, round, next, copy, rule, lock, status, known, full, budget>>

TakeToken(j) ==
    /\ phase # "down" /\ j[1] \in Round
    /\ job[j] = "queued" /\ sem[j[1]] < MaxConcurrent
    /\ sem' = [sem EXCEPT ![j[1]] = @ + 1]
    /\ Move(j, "holding")
    /\ UNCHANGED <<phase, round, next, copy, rule, lock, status, known, full, budget>>

GiveUp(j) ==
    /\ phase # "down" /\ job[j] = "queued" /\ TRUE \in Cancelled(j[1])
    /\ End(j)
    /\ UNCHANGED <<phase, round, next, sem, rule, lock, status, known, full, budget>>

\* Mutant: the lock is not looked at.
EnterAnyway(j) ==
    /\ phase # "down" /\ job[j] = "holding"
    /\ Move(j, "listing")
    /\ lock' = lock \cup {j[2]} /\ status' = j[2]
    /\ UNCHANGED <<phase, round, next, sem, copy, rule, known, full, budget>>

\* AcquireLock succeeds: setStatus(true, id).
Enter(j) ==
    /\ phase # "down" /\ job[j] = "holding" /\ j[2] \notin lock
    /\ FALSE \in Cancelled(j[1])
    /\ Move(j, "listing")
    /\ lock' = lock \cup {j[2]} /\ status' = j[2]
    /\ UNCHANGED <<phase, round, next, sem, copy, rule, known, full, budget>>

\* The software is locked: SyncSoftware returns an empty result and no error.
SkipLocked(j) ==
    /\ phase # "down" /\ job[j] = "holding" /\ j[2] \in lock
    /\ FALSE \in Cancelled(j[1])
    /\ Move(j, "returned")
    /\ UNCHANGED <<phase, round, next, sem, copy, rule, lock, status, known, full, budget>>

\* ListAllReleases has an answer, and with it the ETag the next one will send.
Listed(j) ==
    /\ phase # "down" /\ job[j] = "listing"
    /\ FALSE \in Cancelled(j[1])
    /\ Move(j, "syncing")
    /\ known' = known \cup {j[2]}
    /\ UNCHANGED <<phase, round, next, sem, copy, rule, lock, status, full, budget>>

\* How the lock is left by the deferred DEL, which takes no matter whose lock, and
\* how often the calls of a goroutine failed although its context is alive.
Release(w, deleted) == lock' = IF deleted THEN lock \ {w} ELSE lock
Charge(failures) == faults' = faults + failures /\ faults' <= MaxFaults
Failure(failed) == IF failed THEN 1 ELSE 0

\* The listing fails and SyncSoftware dereferences the nil result: no goroutine
\* recovers, the process ends, after the deferred DEL.  With a live context the
\* listing fails when GitHub does not answer, and also when it answers: an
\* unchanged list comes as 304, which the client makes an error.
Panic(j) ==
    /\ phase # "down" /\ job[j] = "listing" /\ FALSE \in Cancelled(j[1])
    /\ panics < MaxPanics /\ panics' = panics + 1
    /\ \E unanswered, deleted \in BOOLEAN :
          /\ ~unanswered => j[2] \in known
          /\ Charge(Failure(unanswered) + Failure(~deleted))
          /\ Release(j[2], deleted)
    /\ ProcessEnds
    /\ UNCHANGED <<full, requests, stops, overruns>>

\* With a cancelled context the listing fails, and so does the DEL.
PanicCancelled(j) ==
    /\ phase # "down" /\ job[j] = "listing" /\ TRUE \in Cancelled(j[1])
    /\ ProcessEnds
    /\ UNCHANGED <<lock, full, budget>>

\* SyncSoftware returns.  With a cancelled context every call it still had to make
\* failed, the DEL of the lock included, and it returns without an error all the
\* same; its work may have been done by then or not.
Finish(j) ==
    /\ phase # "down" /\ job[j] = "syncing"
    /\ \E cancelled \in Cancelled(j[1]), deleted, done \in BOOLEAN :
          /\ cancelled => ~deleted
          /\ ~cancelled => done
          /\ Charge(Failure(~cancelled /\ ~deleted))
          /\ Release(j[2], deleted)
          /\ full' = IF done /\ copy[j] = "full_historical" THEN full \cup {j[2]}
                                                            ELSE full
    /\ status' = 0
    /\ Move(j, "returned")
    /\ UNCHANGED <<phase, round, next, sem, copy, rule, known,
                   requests, stops, panics, overruns>>

\* Mutant: no `defer func() { <-sem }()`.
TokenKept(j) == sem

TokenBack(j) == IF j[1] \in Round THEN [sem EXCEPT ![j[1]] = @ - 1] ELSE sem

\* AcquireLock fails, because the context is cancelled or Redis does not answer;
\* what the job holds is its token.
ReturnError(j) ==
    /\ phase # "down" /\ job[j] = "holding"
    /\ \E cancelled \in Cancelled(j[1]) : Charge(Failure(~cancelled))
    /\ End(j) /\ sem' = TokenBack(j)
    /\ UNCHANGED <<phase, round, next, rule, lock, status, known, full,
                   requests, stops, panics, overruns>>

\* Without an error a job of a round switches a software that was to be
\* synchronised in full once to the incremental rule.
Return(j) ==
    /\ phase # "down" /\ job[j] = "returned"
    /\ rule' = IF j[1] \in Round /\ j[2] \in Full /\ copy[j] = "full_historical"
               THEN [rule EXCEPT ![j[2]] = "incremental"] ELSE rule
    /\ End(j) /\ sem' = TokenBack(j)
    /\ UNCHANGED <<phase, round, next, lock, status, known, full, budget>>

\* The TTL of the lock, which does not look at who is at work.
LockExpires(w) ==
    /\ w \in lock
    /\ lock' = lock \ {w}
    /\ overruns' = overruns + IF \E s \in Source : AtWork(<<s, w>>) THEN 1 ELSE 0
    /\ overruns' <= MaxOverruns
    /\ UNCHANGED <<phase, work, rule, status, known, full, requests, stops, faults, panics>>

-----------------------------------------------------------------------------
JobStep(j) ==
    \/ TakeToken(j) \/ GiveUp(j) \/ Enter(j) \/ SkipLocked(j) \/ Listed(j)
    \/ PanicCancelled(j) \/ Finish(j) \/ ReturnError(j) \/ Return(j)

RoundStep(r) == Submit(r) \/ EndSubmit(r) \/ EndRound(r)

Next ==
    \/ Start \/ Shutdown \/ ShutdownFails \/ Stop \/ StopReturns \/ Exit
    \/ Tick \/ TickerExits \/ TriggerAll
    \/ \E w \in Software : TriggerOne(w) \/ LockExpires(w)
    \/ \E r \in Round : RoundStep(r)
    \/ \E j \in Job : JobStep(j) \/ Panic(j)

Spec == Init /\ [][Next]_vars

\* Goroutines run on; the ticker ticks and sees a cancelled context; SyncSoftware
\* returns (its transfers have timeouts); main goes on to Stop; systemd starts the
\* process again; a lock runs out.  Nothing is promised of requests, signals,
\* failures and of the panics of a live context.
Fairness ==
    /\ WF_vars(Start) /\ WF_vars(Stop) /\ WF_vars(StopReturns) /\ WF_vars(Exit)
    /\ WF_vars(Tick) /\ SF_vars(TickerExits)
    /\ \A r \in Round : WF_vars(RoundStep(r))
    /\ \A j \in Job : WF_vars(JobStep(j))
    /\ \A w \in Software : WF_vars(LockExpires(w))

FairSpec == Spec /\ Fairness

-----------------------------------------------------------------------------
(* Properties.                                                              *)

Phases == {"down", "running", "shutdown", "stopping", "stopped"}

\* Every variable has its type.
TypeOK ==
    /\ phase \in Phases
    /\ round \in [Round -> {"idle", "submit", "wait", "exited"}]
    /\ next \in [Round -> 1..(N + 1)]
    /\ sem \in [Round -> 0..MaxConcurrent]
    /\ job \in [Job -> {"none", "queued", "holding", "listing", "syncing", "returned"}]
    /\ copy \in [Job -> Rules] /\ rule \in [Software -> Rules]
    /\ lock \subseteq Software /\ status \in 0..N
    /\ known \subseteq Software /\ full \subseteq Software
    /\ requests \in 0..MaxRequests /\ stops \in 0..MaxStops
    /\ faults \in 0..MaxFaults /\ panics \in 0..MaxPanics
    /\ overruns \in 0..MaxOverruns

\* The semaphore of a round counts the jobs of the round that passed it: whatever
\* way a job ends -- done, locked out, cancelled -- its token is back, once.
TokensBalance ==
    \A r \in Round : sem[r] = Cardinality({w \in Software : Working(<<r, w>>)})

\* However rounds and requests overlap, and although a job deletes the lock no
\* matter whose it is: only a lock that runs out under a job lets one more be at
\* work on the same software.
OneJobPerSoftware ==
    \A w \in Software :
        Cardinality({s \in Source : AtWork(<<s, w>>)}) <= 1 + overruns

\* Stop "waits for the synchronisations being executed to complete"
\* (scheduler.go:116): when it has returned, nothing the scheduler started by
\* itself is at work, and nothing of it starts again.
StopWaits ==
    phase = "stopped" =>
        \A r \in {"boot", "tick"}, w \in Software : job[<<r, w>>] = "none"

\* Once main has gone on to Stop it returns, unless the process ends before that:
\* no job waits for a token that never comes, no round for a job that never ends.
StopEnds == phase \in {"shutdown", "stopping"} ~> phase \in {"stopped", "down"}

\* Every software is synchronised again and again, through an orderly stop or a
\* panic, the restart, and the locks the former process left -- provided that the
\* processes which a listing ends are finitely many.
EverySoftwareSynced ==
    \A w \in Software : []<>(\E s \in Source : job[<<s, w>>] = "syncing")

\* full_sync_once is switched off for a full synchronisation that is done or under
\* way in this process.
OnlyEarnedSwitches ==
    \A w \in Full : rule[w] = "incremental" =>
        \/ w \in full
        \/ \E s \in Source : /\ AtWork(<<s, w>>)
                             /\ copy[<<s, w>>] = "full_historical"

\* "Back to the incremental rule after the full synchronisation is complete"
\* (scheduler.go:191), as far as the code keeps it: a job that found the software
\* locked switches the rule as well, and while no process was stopped or ended by
\* a panic, and no call failed, the lock's holder is at the full synchronisation or
\* has done it.
SwitchIsEarned == stops = 0 /\ panics = 0 /\ faults = 0 => OnlyEarnedSwitches
=============================================================================
