------------------------ MODULE SyncSchedulerProofs ------------------------
(***************************************************************************)
(* Theorems of SyncScheduler, for every number of softwares and every      *)
(* bound of the semaphore, with requests, stops, panics and restarts.      *)
(*                                                                         *)
(* The types alone are not inductive: that a token given back was taken    *)
(* (sem never falls below 0) is TokensBalance, which counts the jobs that  *)
(* hold one, and that a spawned job does not hold one already is           *)
(* SubmitInv, which says how far a round has come.                         *)
(***************************************************************************)
EXTENDS SyncScheduler, FiniteSetTheorems, TLAPS

RoundStates == {"idle", "submit", "wait", "exited"}
JobStates   == {"none", "queued", "holding", "listing", "syncing", "returned"}

\* The types without the numbers that counting bounds.
Types ==
    /\ phase \in Phases
    /\ round \in [Round -> RoundStates]
    /\ next \in [Round -> 1..(N + 1)]
    /\ job \in [Job -> JobStates]
    /\ copy \in [Job -> Rules] /\ rule \in [Software -> Rules]
    /\ lock \subseteq Software /\ status \in 0..N
    /\ known \subseteq Software /\ full \subseteq Software
    /\ requests \in 0..MaxRequests /\ stops \in 0..MaxStops
    /\ faults \in 0..MaxFaults /\ panics \in 0..MaxPanics
    /\ overruns \in 0..MaxOverruns

\* A round has no job of the softwares it has not come to, and a round that is
\* not under way has not begun.  The goroutine of the first round runs once, and
\* Stop has returned only after both goroutines s.wg counts.
SubmitInv ==
    /\ \A r \in Round : round[r] \in {"idle", "exited"} => next[r] = 1
    /\ \A r \in Round, w \in Software : w >= next[r] => job[<<r, w>>] = "none"
    /\ phase = "stopped" => round["boot"] = "idle" /\ round["tick"] = "exited"
    /\ \A r \in {"boot", "all"} : round[r] # "exited"

Holders(r) == {w \in Software : Working(<<r, w>>)}

\* The tokens taken are those of the jobs at work, and there are enough of them.
TokenInv ==
    /\ sem \in [Round -> 0..MaxConcurrent]
    /\ \A r \in Round : sem[r] = Cardinality(Holders(r))

Busy(w) == {s \in Source : AtWork(<<s, w>>)}

\* Who is at a software without an overrun of his own or another's has the lock:
\* one that ends takes along no more than the lock that is there.
LockInv ==
    \A w \in Software :
        Cardinality(Busy(w)) <= overruns + IF w \in lock THEN 1 ELSE 0

LEMMA StartingTypes ==
    /\ Idle \in [Round -> RoundStates] /\ First \in [Round -> 1..(N + 1)]
    /\ NoJobs \in [Job -> JobStates] /\ NoCopy \in [Job -> Rules]
    /\ Configured \in [Software -> Rules]
    /\ 0 \in 0..N /\ 0 \in 0..MaxRequests
    /\ 0 \in 0..MaxStops /\ 0 \in 0..MaxFaults
    /\ 0 \in 0..MaxPanics /\ 0 \in 0..MaxOverruns
  BY SchedulerAssumption
  DEF Idle, First, NoJobs, NoCopy, Configured, Rules, RoundStates, JobStates

LEMMA HoldersCount ==
    ASSUME NEW r \in Round
    PROVE  IsFiniteSet(Holders(r)) /\ Cardinality(Holders(r)) \in Nat
<1>1. IsFiniteSet(Software)
  BY SchedulerAssumption, FS_Interval DEF Software
<1>2. Holders(r) \subseteq Software
  BY DEF Holders
<1> QED BY <1>1, <1>2, FS_Subset, FS_CardinalityType

\* What the calls of a goroutine may add to the count of failures.
LEMMA ChargeBounds ==
    ASSUME faults \in 0..MaxFaults, NEW n \in Nat, Charge(n)
    PROVE  faults' \in 0..MaxFaults /\ faults' >= faults
  BY SchedulerAssumption DEF Charge

-----------------------------------------------------------------------------
LEMMA TypesStep == ASSUME Types, Next PROVE Types'
<1> USE DEF Types, budget, work
<1>1. CASE Start
  BY <1>1 DEF Start, Phases, RoundStates
<1>2. CASE Shutdown \/ Stop
  BY <1>2, SchedulerAssumption DEF Shutdown, Stop, Phases
<1>15. CASE ShutdownFails
  <2>1. faults' \in 0..MaxFaults
    BY <1>15, SchedulerAssumption DEF ShutdownFails
  <2> QED BY <1>15, <2>1, StartingTypes DEF ShutdownFails, ProcessEnds, Phases
<1>3. CASE StopReturns
  BY <1>3 DEF StopReturns, Phases
<1>4. CASE Exit
  BY <1>4, StartingTypes DEF Exit, ProcessEnds, Phases
<1>5. CASE Tick \/ TickerExits \/ TriggerAll
  BY <1>5, SchedulerAssumption DEF Tick, TickerExits, TriggerAll, Begin, RoundStates
<1>6. ASSUME NEW w \in Software, TriggerOne(w) \/ LockExpires(w) PROVE Types'
  <2>1. CASE TriggerOne(w)
    <3>1. job' \in [Job -> JobStates] /\ copy' \in [Job -> Rules]
      BY <2>1 DEF TriggerOne, Move, JobStates, Job, Source
    <3>2. requests' \in 0..MaxRequests
      BY <2>1, SchedulerAssumption DEF TriggerOne
    <3> QED BY <2>1, <3>1, <3>2 DEF TriggerOne
  <2>2. CASE LockExpires(w)
    <3>1. overruns' \in 0..MaxOverruns
      BY <2>2, SchedulerAssumption DEF LockExpires
    <3> QED BY <2>2, <3>1 DEF LockExpires
  <2> QED BY <1>6, <2>1, <2>2
<1>7. ASSUME NEW r \in Round, Submit(r) PROVE Types'
  <2>1. PICK cancelled \in Cancelled(r) :
           IF cancelled
           THEN /\ round' = [round EXCEPT ![r] = "wait"]
                /\ UNCHANGED <<next, job, copy>>
           ELSE /\ job' = [job EXCEPT ![<<r, next[r]>>] = "queued"]
                /\ copy' = [copy EXCEPT ![<<r, next[r]>>] = rule[next[r]]]
                /\ next' = [next EXCEPT ![r] = @ + 1]
                /\ UNCHANGED round
    BY <1>7 DEF Submit
  <2>2. next[r] \in 1..N
    BY <1>7 DEF Submit, Software
  <2>3. round' \in [Round -> RoundStates] /\ job' \in [Job -> JobStates]
    BY <2>1 DEF RoundStates, JobStates
  <2>4. next' \in [Round -> 1..(N + 1)]
    BY <2>1, <2>2, SchedulerAssumption
  <2>5. copy' \in [Job -> Rules]
    <3>1. rule[next[r]] \in Rules
      BY <2>2 DEF Software
    <3> QED BY <2>1, <3>1
  <2>6. UNCHANGED <<phase, rule, lock, status, known, full,
                    requests, stops, faults, panics, overruns>>
    BY <1>7 DEF Submit
  <2> QED BY <2>3, <2>4, <2>5, <2>6
<1>8. ASSUME NEW r \in Round, EndSubmit(r) \/ EndRound(r) PROVE Types'
  BY <1>8, SchedulerAssumption DEF EndSubmit, EndRound, RoundStates
<1>9. ASSUME NEW j \in Job, TakeToken(j) \/ GiveUp(j) \/ SkipLocked(j) PROVE Types'
  BY <1>9 DEF TakeToken, GiveUp, SkipLocked, Move, End, NoCopy, JobStates, Rules
<1>10. ASSUME NEW j \in Job, Enter(j) PROVE Types'
  <2>1. j[2] \in 1..N
    BY DEF Job, Software
  <2>2. job' \in [Job -> JobStates]
    BY <1>10 DEF Enter, Move, JobStates
  <2>3. lock' \subseteq Software
    BY <1>10, <2>1 DEF Enter, Software
  <2>4. status' \in 0..N
    BY <1>10, <2>1, SchedulerAssumption DEF Enter
  <2> QED BY <1>10, <2>2, <2>3, <2>4 DEF Enter
<1>16. ASSUME NEW j \in Job, Listed(j) PROVE Types'
  BY <1>16 DEF Listed, Move, JobStates, Job
<1>17. ASSUME NEW j \in Job, PanicCancelled(j) PROVE Types'
  BY <1>17, StartingTypes DEF PanicCancelled, ProcessEnds, Phases
<1>f. \A failed \in BOOLEAN : Failure(failed) \in Nat
  BY DEF Failure
<1>11. ASSUME NEW j \in Job, Finish(j) PROVE Types'
  <2>1. PICK cancelled \in Cancelled(j[1]), deleted \in BOOLEAN, done \in BOOLEAN :
           /\ Charge(Failure(~cancelled /\ ~deleted))
           /\ Release(j[2], deleted)
           /\ full' = IF done /\ copy[j] = "full_historical" THEN full \cup {j[2]}
                                                             ELSE full
    BY <1>11 DEF Finish
  <2>2. lock' \subseteq Software /\ full' \subseteq Software
    BY <2>1 DEF Release, Job
  <2>3. faults' \in 0..MaxFaults
    BY <2>1, <1>f, ChargeBounds
  <2> QED BY <1>11, <2>2, <2>3, StartingTypes DEF Finish, Move, JobStates
<1>12. ASSUME NEW j \in Job, Panic(j) PROVE Types'
  <2>1. PICK unanswered \in BOOLEAN, deleted \in BOOLEAN :
           /\ Charge(Failure(unanswered) + Failure(~deleted))
           /\ Release(j[2], deleted)
    BY <1>12 DEF Panic
  <2>2. lock' \subseteq Software
    BY <2>1 DEF Release
  <2>3. faults' \in 0..MaxFaults
    <3>1. Failure(unanswered) + Failure(~deleted) \in Nat
      BY DEF Failure
    <3> QED BY <2>1, <3>1, ChargeBounds
  <2>4. panics' \in 0..MaxPanics
    BY <1>12, SchedulerAssumption DEF Panic
  <2> QED BY <1>12, <2>2, <2>3, <2>4, StartingTypes DEF Panic, ProcessEnds, Phases
<1>13. ASSUME NEW j \in Job, ReturnError(j) PROVE Types'
  <2>1. faults' \in 0..MaxFaults
    BY <1>13, <1>f, ChargeBounds DEF ReturnError
  <2> QED BY <1>13, <2>1 DEF ReturnError, Move, End, NoCopy, JobStates, Rules
<1>14. ASSUME NEW j \in Job, Return(j) PROVE Types'
  <2>1. rule' \in [Software -> Rules]
    BY <1>14 DEF Return, Rules
  <2> QED BY <1>14, <2>1 DEF Return, Move, End, NoCopy, JobStates, Rules
<1> QED
  BY <1>1, <1>2, <1>3, <1>4, <1>5, <1>6, <1>7, <1>8, <1>9, <1>10, <1>11, <1>12,
     <1>13, <1>14, <1>15, <1>16, <1>17 DEF Next, RoundStep, JobStep

LEMMA SubmitStep == ASSUME Types, SubmitInv, Next PROVE SubmitInv'
<1> USE DEF SubmitInv, budget, work, Round
<1>t. /\ round \in [Round -> RoundStates] /\ next \in [Round -> 1..(N + 1)]
      /\ job \in [Job -> JobStates] /\ N \in Nat
  BY SchedulerAssumption DEF Types
<1>1. CASE Start
  BY <1>1, <1>t DEF Start
<1>2. CASE Shutdown \/ Stop \/ StopReturns
  BY <1>2 DEF Shutdown, Stop, StopReturns
<1>3. ASSUME ProcessEnds PROVE SubmitInv'
  BY <1>3 DEF ProcessEnds, Idle, First, NoJobs, Job, Source
<1>4. CASE Tick \/ TickerExits \/ TriggerAll
  BY <1>4, <1>t DEF Tick, TickerExits, TriggerAll, Begin
<1>5. ASSUME NEW w \in Software, TriggerOne(w) \/ LockExpires(w) PROVE SubmitInv'
  BY <1>5, <1>t DEF TriggerOne, LockExpires, Move, Job, Source
<1>6. ASSUME NEW r \in Round, Submit(r) PROVE SubmitInv'
  BY <1>6, <1>t DEF Submit, Cancelled, Stopping, Job, Source, Software
<1>7. ASSUME NEW r \in Round, EndSubmit(r) \/ EndRound(r) PROVE SubmitInv'
  BY <1>7, <1>t DEF EndSubmit, EndRound
<1>8. ASSUME NEW j \in Job, JobStep(j), ~PanicCancelled(j) PROVE SubmitInv'
  <2>1. UNCHANGED <<phase, round, next>>
    BY <1>8 DEF JobStep, TakeToken, GiveUp, Enter, SkipLocked, Listed, Finish,
       ReturnError, Return
  <2>2. job[j] # "none" /\ \A k \in Job \ {j} : job'[k] = job[k]
    BY <1>8, <1>t DEF JobStep, TakeToken, GiveUp, Enter, SkipLocked, Listed, Finish,
       ReturnError, Return, Move, End
  <2>3. \A r \in Round, w \in Software : <<r, w>> \in Job
    BY DEF Job, Source
  <2> QED BY <2>1, <2>2, <2>3
<1> QED
  BY <1>1, <1>2, <1>3, <1>4, <1>5, <1>6, <1>7, <1>8
  DEF Next, RoundStep, ShutdownFails, Exit, Panic, PanicCancelled

-----------------------------------------------------------------------------
(* Tokens.                                                                  *)

\* As long as the same jobs are at work, nothing has to be counted again.
LEMMA SameHolders ==
    ASSUME NEW r \in Round,
           \A w \in Software : Working(<<r, w>>)' <=> Working(<<r, w>>)
    PROVE  Holders(r)' = Holders(r)
  BY DEF Holders

LEMMA TokenStep == ASSUME Types, SubmitInv, TokenInv, Next PROVE TokenInv'
<1> USE DEF budget, work
<1>t. /\ job \in [Job -> JobStates] /\ sem \in [Round -> 0..MaxConcurrent]
      /\ MaxConcurrent \in Nat /\ next \in [Round -> 1..(N + 1)] /\ N \in Nat
  BY SchedulerAssumption DEF Types, TokenInv
<1>j. \A r \in Round, w \in Software : <<r, w>> \in Job
  BY DEF Job, Source
<1>s. \A r \in Round : sem[r] = Cardinality(Holders(r))
  BY DEF TokenInv
<1>k. ASSUME UNCHANGED sem,
             \A r \in Round, w \in Software : Working(<<r, w>>)' <=> Working(<<r, w>>)
      PROVE  TokenInv'
  BY <1>k, SameHolders DEF TokenInv
<1>e. ASSUME ProcessEnds PROVE TokenInv'
  <2>1. \A r \in Round : Holders(r)' = {}
    BY <1>e, <1>j DEF ProcessEnds, Holders, Working, AtWork, NoJobs
  <2> QED BY <1>e, <2>1, FS_EmptySet, SchedulerAssumption DEF ProcessEnds, TokenInv, NoSem
<1>1. CASE Start \/ Shutdown \/ Stop \/ StopReturns \/ Tick \/ TickerExits \/ TriggerAll
  BY <1>1, <1>k DEF Start, Shutdown, Stop, StopReturns, Tick, TickerExits, TriggerAll,
     Begin, Working, AtWork
<1>3. ASSUME NEW w \in Software, TriggerOne(w) \/ LockExpires(w) PROVE TokenInv'
  <2>1. \A r \in Round, v \in Software : job'[<<r, v>>] = job[<<r, v>>]
    BY <1>3, <1>t, <1>j DEF TriggerOne, LockExpires, Move, Round
  <2> QED BY <1>3, <2>1, <1>k DEF TriggerOne, LockExpires, Working, AtWork
<1>4. ASSUME NEW r \in Round, Submit(r) PROVE TokenInv'
  <2>1. \A q \in Round, w \in Software :
           \/ job'[<<q, w>>] = job[<<q, w>>]
           \/ job[<<q, w>>] = "none" /\ job'[<<q, w>>] = "queued"
    <3>1. next[r] \in Software /\ job[<<r, next[r]>>] = "none"
      BY <1>4, <1>t DEF Submit, SubmitInv, Software
    <3>2. job' = job \/ job' = [job EXCEPT ![<<r, next[r]>>] = "queued"]
      BY <1>4 DEF Submit
    <3> QED BY <3>1, <3>2, <1>t, <1>j
  <2> QED BY <1>4, <2>1, <1>k DEF Submit, Working, AtWork
<1>5. ASSUME NEW r \in Round, EndSubmit(r) PROVE TokenInv'
  BY <1>5, <1>k DEF EndSubmit, Working, AtWork
<1>6. ASSUME NEW r \in Round, EndRound(r) PROVE TokenInv'
  <2>1. UNCHANGED job /\ sem' = [sem EXCEPT ![r] = 0]
    BY <1>6 DEF EndRound
  <2>2. Holders(r) = {}
    BY <1>6 DEF EndRound, Holders, Working, AtWork
  <2>3. \A q \in Round : Holders(q)' = Holders(q)
    BY <2>1 DEF Holders, Working, AtWork
  <2>4. \A q \in Round : sem'[q] = Cardinality(Holders(q)')
    BY <2>1, <2>2, <2>3, <1>s, <1>t, FS_EmptySet
  <2> QED BY <2>1, <2>4, <1>t DEF TokenInv
<1>7. ASSUME NEW j \in Job, TakeToken(j) PROVE TokenInv'
  <2> DEFINE r == j[1]
  <2>1. j = <<j[1], j[2]>> /\ j[2] \in Software
    BY DEF Job
  <2>2. r \in Round
    BY <1>7 DEF TakeToken
  <2>3. /\ job[j] = "queued" /\ job' = [job EXCEPT ![j] = "holding"]
        /\ sem' = [sem EXCEPT ![r] = @ + 1] /\ sem[r] < MaxConcurrent
    BY <1>7 DEF TakeToken, Move
  <2>4. Holders(r)' = Holders(r) \cup {j[2]} /\ j[2] \notin Holders(r)
    BY <2>1, <2>2, <2>3, <1>t, <1>j DEF Holders, Working, AtWork
  <2>5. Cardinality(Holders(r)') = Cardinality(Holders(r)) + 1
    BY <2>2, <2>4, HoldersCount, FS_AddElement
  <2>6. \A q \in Round \ {r} : Holders(q)' = Holders(q)
    BY <2>1, <2>2, <2>3, <1>t, <1>j DEF Holders, Working, AtWork
  <2>7. \A q \in Round : sem'[q] = Cardinality(Holders(q)')
    BY <2>2, <2>3, <2>5, <2>6, <1>s, <1>t
  <2>8. sem' \in [Round -> 0..MaxConcurrent]
    BY <2>2, <2>3, <1>t
  <2> QED BY <2>7, <2>8 DEF TokenInv
<1>8. ASSUME NEW j \in Job,
             GiveUp(j) \/ Enter(j) \/ SkipLocked(j) \/ Listed(j) \/ Finish(j)
      PROVE  TokenInv'
  <2>1. /\ \A k \in Job \ {j} : job'[k] = job[k]
        /\ Working(j)' <=> Working(j)
    BY <1>8, <1>t DEF GiveUp, Enter, SkipLocked, Listed, Finish, Move, End, Working, AtWork
  <2>2. \A r \in Round, w \in Software : Working(<<r, w>>)' <=> Working(<<r, w>>)
    BY <2>1, <1>j DEF Working, AtWork
  <2> QED BY <1>8, <2>2, <1>k DEF GiveUp, Enter, SkipLocked, Listed, Finish
<1>9. ASSUME NEW j \in Job, ReturnError(j) \/ Return(j) PROVE TokenInv'
  <2> DEFINE r == j[1]
  <2>1. j = <<j[1], j[2]>> /\ j[2] \in Software
    BY DEF Job
  <2>2. Working(j) /\ job' = [job EXCEPT ![j] = "none"] /\ sem' = TokenBack(j)
    BY <1>9 DEF ReturnError, Return, End, Move, Working, AtWork
  <2>3. CASE r \in Round
    <3>1. Holders(r)' = Holders(r) \ {j[2]} /\ j[2] \in Holders(r)
      BY <2>1, <2>2, <2>3, <1>t, <1>j DEF Holders, Working, AtWork
    <3>2. Cardinality(Holders(r)') = Cardinality(Holders(r)) - 1
      <4>1. /\ IsFiniteSet(Holders(r)) /\ j[2] \in Holders(r)
            /\ Holders(r)' = Holders(r) \ {j[2]}
        BY <2>3, <3>1, HoldersCount
      <4> QED BY <4>1, FS_RemoveElement
    <3>3. \A q \in Round \ {r} : Holders(q)' = Holders(q)
      BY <2>1, <2>2, <2>3, <1>t, <1>j DEF Holders, Working, AtWork
    <3>4. sem' = [sem EXCEPT ![r] = @ - 1]
      BY <2>2, <2>3 DEF TokenBack
    <3>5. \A q \in Round : sem'[q] = Cardinality(Holders(q)')
      BY <2>3, <3>2, <3>3, <3>4, <1>s, <1>t
    <3>6. sem[r] # 0
      BY <2>3, <3>1, <1>s, HoldersCount, FS_EmptySet
    <3>7. sem' \in [Round -> 0..MaxConcurrent]
      BY <2>3, <3>4, <3>6, <1>t
    <3> QED BY <3>5, <3>7 DEF TokenInv
  <2>4. CASE r \notin Round
    <3>1. \A q \in Round, w \in Software : job'[<<q, w>>] = job[<<q, w>>]
      <4>1. \A q \in Round, w \in Software : <<q, w>> # j
        BY <2>1, <2>4
      <4> QED BY <4>1, <2>2, <1>t, <1>j
    <3> QED BY <2>2, <2>4, <3>1, <1>k DEF TokenBack, Working, AtWork
  <2> QED BY <2>3, <2>4
<1> QED
  BY <1>1, <1>3, <1>4, <1>5, <1>6, <1>7, <1>8, <1>9, <1>e
  DEF Next, RoundStep, JobStep, ShutdownFails, Exit, Panic, PanicCancelled

-----------------------------------------------------------------------------
(* The lock.                                                                *)

LEMMA BusyCount ==
    ASSUME NEW w \in Software
    PROVE  IsFiniteSet(Busy(w)) /\ Cardinality(Busy(w)) \in Nat
<1>1. IsFiniteSet({"boot"}) /\ IsFiniteSet({"tick"})
  BY FS_Singleton
<1>2. IsFiniteSet({"all"}) /\ IsFiniteSet({"one"})
  BY FS_Singleton
<1>3. IsFiniteSet({"boot"} \cup {"tick"})
  BY <1>1, FS_Union
<1>4. IsFiniteSet({"all"} \cup {"one"})
  BY <1>2, FS_Union
<1>5. IsFiniteSet(({"boot"} \cup {"tick"}) \cup ({"all"} \cup {"one"}))
  BY <1>3, <1>4, FS_Union
<1>6. Busy(w) \subseteq (({"boot"} \cup {"tick"}) \cup ({"all"} \cup {"one"}))
  BY DEF Busy, Source, Round
<1> QED BY <1>5, <1>6, FS_Subset, FS_CardinalityType

LEMMA LockStep == ASSUME Types, LockInv, Next PROVE LockInv'
<1> USE DEF budget, work
<1>t. job \in [Job -> JobStates] /\ overruns \in Nat
  BY SchedulerAssumption DEF Types
<1>j. \A s \in Source, w \in Software : <<s, w>> \in Job
  BY DEF Job
\* A software that nobody comes to and whose lock stays.
<1>k. ASSUME NEW w \in Software, overruns' \in Nat, overruns <= overruns',
             w \in lock => w \in lock', Busy(w)' \subseteq Busy(w)
      PROVE  Cardinality(Busy(w)') <= overruns' + IF w \in lock' THEN 1 ELSE 0
  <2>1. Cardinality(Busy(w)') <= Cardinality(Busy(w)) /\ Cardinality(Busy(w)') \in Nat
    BY <1>k, BusyCount, FS_Subset, FS_CardinalityType
  <2>2. Cardinality(Busy(w)) <= overruns + IF w \in lock THEN 1 ELSE 0
    BY DEF LockInv
  <2> QED BY <1>k, <1>t, <2>1, <2>2, BusyCount
<1>s. ASSUME UNCHANGED overruns, lock \subseteq lock',
             \A j \in Job : AtWork(j)' => AtWork(j)
      PROVE  LockInv'
  <2>1. \A w \in Software : Busy(w)' \subseteq Busy(w)
    BY <1>s, <1>j DEF Busy
  <2> QED BY <1>s, <1>t, <1>k, <2>1 DEF LockInv
<1>e. ASSUME ProcessEnds, UNCHANGED overruns PROVE LockInv'
  <2>1. \A w \in Software : Busy(w)' = {}
    BY <1>e, <1>j DEF ProcessEnds, Busy, AtWork, NoJobs
  <2> QED BY <1>e, <1>t, <2>1, FS_EmptySet DEF LockInv
<1>1. CASE Start \/ Shutdown \/ Stop \/ StopReturns \/ Tick \/ TickerExits \/ TriggerAll
  BY <1>1, <1>s DEF Start, Shutdown, Stop, StopReturns, Tick, TickerExits, TriggerAll,
     Begin, AtWork
<1>3. ASSUME NEW w \in Software, TriggerOne(w) PROVE LockInv'
  BY <1>3, <1>s, <1>t DEF TriggerOne, Move, AtWork
\* A lock that runs out under somebody is counted ...
<1>4. ASSUME NEW w \in Software, LockExpires(w) PROVE LockInv'
  <2>1. \A v \in Software : Busy(v)' = Busy(v)
    BY <1>4 DEF LockExpires, Busy, AtWork
  <2>2. /\ w \in lock /\ lock' = lock \ {w}
        /\ overruns' = overruns + IF Busy(w) # {} THEN 1 ELSE 0
    BY <1>4 DEF LockExpires, Busy
  <2>3. Cardinality(Busy(w)) <= overruns'
    <3>1. CASE Busy(w) = {}
      BY <3>1, <2>2, <1>t, FS_EmptySet
    <3>2. CASE Busy(w) # {}
      BY <3>2, <2>2, <1>t, BusyCount DEF LockInv
    <3> QED BY <3>1, <3>2
  <2>4. \A v \in Software \ {w} :
           Cardinality(Busy(v)) <= overruns' + IF v \in lock' THEN 1 ELSE 0
    BY <2>1, <2>2, <1>t, <1>k
  <2>5. Cardinality(Busy(w)) <= overruns' + IF w \in lock' THEN 1 ELSE 0
    BY <2>2, <2>3
  <2> QED BY <2>1, <2>4, <2>5 DEF LockInv
<1>5. ASSUME NEW r \in Round, RoundStep(r) PROVE LockInv'
  <2>1. \A j \in Job : AtWork(j)' => AtWork(j)
    BY <1>5, <1>t DEF RoundStep, Submit, EndSubmit, EndRound, AtWork
  <2> QED BY <1>5, <2>1, <1>s DEF RoundStep, Submit, EndSubmit, EndRound
<1>6. ASSUME NEW j \in Job, TakeToken(j) \/ GiveUp(j) \/ SkipLocked(j) \/ Listed(j)
                            \/ ReturnError(j) \/ Return(j)
      PROVE  LockInv'
  <2>1. \A k \in Job : AtWork(k)' => AtWork(k)
    BY <1>6, <1>t DEF TakeToken, GiveUp, SkipLocked, Listed, ReturnError, Return,
       Move, End, AtWork
  <2>2. UNCHANGED <<overruns, lock>>
    BY <1>6 DEF TakeToken, GiveUp, SkipLocked, Listed, ReturnError, Return
  <2> QED BY <2>1, <2>2, <1>s
\* ... one that enters finds no lock, so that who is at work is an overrun ...
<1>7. ASSUME NEW j \in Job, Enter(j) PROVE LockInv'
  <2> DEFINE w == j[2]
  <2>1. j = <<j[1], w>> /\ j[1] \in Source /\ w \in Software
    BY DEF Job
  <2>2. /\ w \notin lock /\ lock' = lock \cup {w} /\ UNCHANGED overruns
        /\ job' = [job EXCEPT ![j] = "listing"] /\ job[j] = "holding"
    BY <1>7 DEF Enter, Move
  <2>3. Busy(w)' = Busy(w) \cup {j[1]} /\ j[1] \notin Busy(w)
    BY <2>1, <2>2, <1>t, <1>j DEF Busy, AtWork
  <2>4. Cardinality(Busy(w)') = Cardinality(Busy(w)) + 1
    BY <2>1, <2>3, BusyCount, FS_AddElement
  <2>5. Cardinality(Busy(w)') <= overruns' + IF w \in lock' THEN 1 ELSE 0
    BY <2>1, <2>2, <2>4, <1>t, BusyCount DEF LockInv
  <2>6. \A v \in Software \ {w} : Busy(v)' = Busy(v)
    BY <2>1, <2>2, <1>t, <1>j DEF Busy, AtWork
  <2>7. \A v \in Software \ {w} :
           Cardinality(Busy(v)') <= overruns' + IF v \in lock' THEN 1 ELSE 0
    BY <2>2, <2>6, <1>t, <1>k
  <2> QED BY <2>5, <2>7 DEF LockInv
\* ... and one that ends takes one lock along, his own or another's.
<1>8. ASSUME NEW j \in Job, Finish(j) PROVE LockInv'
  <2> DEFINE w == j[2]
  <2>1. j = <<j[1], w>> /\ j[1] \in Source /\ w \in Software
    BY DEF Job
  <2>2. /\ lock \ {w} \subseteq lock' /\ UNCHANGED overruns
        /\ job' = [job EXCEPT ![j] = "returned"] /\ job[j] = "syncing"
    BY <1>8 DEF Finish, Release, Move
  <2>3. Busy(w)' = Busy(w) \ {j[1]} /\ j[1] \in Busy(w)
    BY <2>1, <2>2, <1>t, <1>j DEF Busy, AtWork
  <2>4. Cardinality(Busy(w)') = Cardinality(Busy(w)) - 1
    <3>1. /\ IsFiniteSet(Busy(w)) /\ j[1] \in Busy(w)
          /\ Busy(w)' = Busy(w) \ {j[1]}
      BY <2>1, <2>3, BusyCount
    <3> QED BY <3>1, FS_RemoveElement
  <2>5. Cardinality(Busy(w)') <= overruns' + IF w \in lock' THEN 1 ELSE 0
    BY <2>1, <2>2, <2>4, <1>t, BusyCount DEF LockInv
  <2>6. \A v \in Software \ {w} : Busy(v)' = Busy(v)
    BY <2>1, <2>2, <1>t, <1>j DEF Busy, AtWork
  <2>7. \A v \in Software \ {w} :
           Cardinality(Busy(v)') <= overruns' + IF v \in lock' THEN 1 ELSE 0
    BY <2>2, <2>6, <1>t, <1>k
  <2> QED BY <2>5, <2>7 DEF LockInv
<1>9. ASSUME NEW j \in Job, Panic(j) \/ PanicCancelled(j) PROVE LockInv'
  BY <1>9, <1>e DEF Panic, PanicCancelled
<1>10. CASE ShutdownFails \/ Exit
  BY <1>10, <1>e DEF ShutdownFails, Exit
<1> QED
  BY <1>1, <1>3, <1>4, <1>5, <1>6, <1>7, <1>8, <1>9, <1>10 DEF Next, JobStep

-----------------------------------------------------------------------------
Inv == Types /\ SubmitInv /\ TokenInv /\ LockInv

LEMMA Invariance == Spec => []Inv
<1>1. Init => Inv
  <2> SUFFICES ASSUME Init PROVE Inv
    OBVIOUS
  <2>1. Types
    BY StartingTypes DEF Init, Types, Phases
  <2>2. SubmitInv
    BY DEF Init, SubmitInv, Idle, First, NoJobs, Job, Source, Round
  <2>3. \A r \in Round : Holders(r) = {}
    BY DEF Init, Holders, Working, AtWork, NoJobs, Job, Source
  <2>4. TokenInv
    BY <2>3, FS_EmptySet, SchedulerAssumption DEF Init, TokenInv, NoSem
  <2>5. \A w \in Software : Busy(w) = {}
    BY DEF Init, Busy, AtWork, NoJobs, Job
  <2>6. LockInv
    BY <2>5, FS_EmptySet DEF Init, LockInv
  <2> QED BY <2>1, <2>2, <2>4, <2>6 DEF Inv
<1>2. Inv /\ [Next]_vars => Inv'
  <2> SUFFICES ASSUME Inv, [Next]_vars PROVE Inv'
    OBVIOUS
  <2>1. CASE Next
    BY <2>1, TypesStep, SubmitStep, TokenStep, LockStep DEF Inv
  <2>2. CASE UNCHANGED vars
    <3>1. Types' /\ SubmitInv'
      BY <2>2 DEF Inv, vars, work, budget, Types, SubmitInv
    <3>2. UNCHANGED sem /\ \A r \in Round : Holders(r)' = Holders(r)
      BY <2>2 DEF vars, work, Holders, Working, AtWork
    <3>3. UNCHANGED <<lock, overruns>> /\ \A w \in Software : Busy(w)' = Busy(w)
      BY <2>2 DEF vars, work, budget, Busy, AtWork
    <3>4. LockInv'
      BY <3>3 DEF Inv, LockInv
    <3> QED BY <3>1, <3>2, <3>4 DEF Inv, TokenInv
  <2> QED BY <2>1, <2>2
<1> QED BY <1>1, <1>2, PTL DEF Spec

\* Every behaviour of the scheduler is type correct; in particular no semaphore
\* is given back a token that was not taken from it.
THEOREM TypeCorrect == Spec => []TypeOK
<1>1. Inv => TypeOK
  BY DEF Inv, Types, TokenInv, TypeOK, RoundStates, JobStates
<1> QED BY <1>1, Invariance, PTL

\* However a job ends, its token is back, once: the tokens taken from the semaphore
\* of a round are those of its jobs at work.
THEOREM TokensBalanceHolds == Spec => []TokensBalance
<1>1. Inv => TokensBalance
  BY DEF Inv, TokenInv, TokensBalance, Holders
<1> QED BY <1>1, Invariance, PTL

\* Whichever rounds and requests overlap, and although a job that was overrun
\* deletes its successor's lock: there are never more jobs at a software than one
\* and one for every lock that ran out under a job.
THEOREM OneJobPerSoftwareHolds == Spec => []OneJobPerSoftware
<1>1. Inv => OneJobPerSoftware
  <2> SUFFICES ASSUME Inv, NEW w \in Software
               PROVE  Cardinality(Busy(w)) <= 1 + overruns
    BY DEF OneJobPerSoftware, Busy
  <2>1. overruns \in Nat
    BY SchedulerAssumption DEF Inv, Types
  <2> QED BY <2>1, BusyCount DEF Inv, LockInv
<1> QED BY <1>1, Invariance, PTL

\* When Stop has returned, nothing that the scheduler started by itself is left.
THEOREM StopWaitsHolds == Spec => []StopWaits
<1>1. Inv => StopWaits
  BY DEF Inv, SubmitInv, StopWaits, Round, Software, Types
<1> QED BY <1>1, Invariance, PTL

-----------------------------------------------------------------------------
(* The switch of full_sync_once.  A job that returns with the full rule in its *)
(* copy switches; that it may, the invariant carries from its skip to there.   *)

AtFull(w) == \E j \in Job : j[2] = w /\ AtWork(j) /\ copy[j] = "full_historical"
Earned(w) == w \in full \/ AtFull(w)

Undisturbed == stops = 0 /\ panics = 0 /\ faults = 0

Owned    == \A w \in lock : \E j \in Job : j[2] = w /\ AtWork(j)
CopyOK(j) == rule[j[2]] = "full_historical" /\ job[j] # "none"
                 => copy[j] = "full_historical"
BackOK(j) == job[j] = "returned" /\ copy[j] = "full_historical" => Earned(j[2])

SwitchInv ==
    Undisturbed =>
        /\ phase \in {"down", "running"}
        /\ Owned
        /\ \A j \in Job : j[2] \in Full => CopyOK(j) /\ BackOK(j)
        /\ \A w \in Full : rule[w] = "incremental" => Earned(w)

LEMMA SwitchStep ==
    ASSUME Types, SubmitInv, SwitchInv, Next PROVE SwitchInv'
<1> USE DEF budget, work
<1>t. /\ job \in [Job -> JobStates] /\ copy \in [Job -> Rules]
      /\ rule \in [Software -> Rules] /\ Full \subseteq Software
      /\ stops \in Nat /\ panics \in Nat /\ faults \in Nat
  BY SchedulerAssumption DEF Types
<1>j. \A j \in Job : j = <<j[1], j[2]>> /\ j[1] \in Source /\ j[2] \in Software
  BY DEF Job
\* Nobody arrives at, or leaves, the states the invariant speaks of.
<1>k. ASSUME Undisturbed' => Undisturbed, UNCHANGED <<rule, full>>, lock' \subseteq lock,
             Undisturbed' => phase' \in {"down", "running"},
             \A j \in Job : /\ job'[j] # "none" => job[j] # "none"
                            /\ AtWork(j)' <=> AtWork(j)
                            /\ job'[j] = "returned" => job[j] = "returned"
                            /\ job'[j] # "none" => copy'[j] = copy[j]
      PROVE  SwitchInv'
  <2> SUFFICES ASSUME Undisturbed' PROVE SwitchInv'
    BY DEF SwitchInv
  <2>1. \A w : AtFull(w) => AtFull(w)'
    BY <1>k DEF AtFull, AtWork
  <2>2. Owned'
    BY <1>k DEF SwitchInv, Owned
  <2>3. \A j \in Job : j[2] \in Full => CopyOK(j)' /\ BackOK(j)'
    BY <1>k, <2>1 DEF SwitchInv, CopyOK, BackOK, Earned
  <2> QED BY <1>k, <2>1, <2>2, <2>3 DEF SwitchInv, Earned
<1>1. CASE Start \/ Tick \/ TriggerAll
  <2>1. /\ UNCHANGED <<job, copy, rule, lock, full, stops, panics, faults>>
        /\ phase' = phase \/ phase' = "running"
    BY <1>1 DEF Start, Tick, TriggerAll, Begin
  <2> QED BY <2>1, <1>k DEF SwitchInv, Undisturbed, AtWork
<1>2. CASE Shutdown
  BY <1>2, <1>t DEF Shutdown, SwitchInv, Undisturbed
<1>3. CASE Stop \/ StopReturns \/ Exit \/ TickerExits
  <2>1. ~Undisturbed /\ UNCHANGED <<stops, panics, faults>>
    BY <1>3 DEF Stop, StopReturns, Exit, TickerExits, Stopping, SwitchInv
  <2> QED BY <2>1 DEF SwitchInv, Undisturbed
<1>13. CASE ShutdownFails
  BY <1>13, <1>t DEF ShutdownFails, SwitchInv, Undisturbed
<1>14. ASSUME NEW j \in Job, PanicCancelled(j) PROVE SwitchInv'
  <2>1. phase \notin {"down", "running"} /\ UNCHANGED <<stops, panics, faults>>
    BY <1>14 DEF PanicCancelled, Cancelled, Stopping
  <2> QED BY <2>1 DEF SwitchInv, Undisturbed
<1>4. ASSUME NEW w \in Software, LockExpires(w) PROVE SwitchInv'
  <2>1. UNCHANGED <<phase, job, copy, rule, full, stops, panics, faults>>
    BY <1>4 DEF LockExpires
  <2>2. lock' \subseteq lock
    BY <1>4 DEF LockExpires
  <2> QED BY <2>1, <2>2, <1>k DEF SwitchInv, Undisturbed, AtWork
\* A job is born with the rule of the moment.
<1>b. ASSUME NEW j \in Job, NEW state \in {"queued", "holding"}, job[j] = "none",
             job' = [job EXCEPT ![j] = state], copy' = [copy EXCEPT ![j] = rule[j[2]]],
             UNCHANGED <<phase, rule, lock, full, stops, panics, faults>>
      PROVE  SwitchInv'
  <2> SUFFICES ASSUME Undisturbed' PROVE SwitchInv'
    BY DEF SwitchInv
  <2>1. Undisturbed
    BY <1>b DEF Undisturbed
  <2>2. \A k \in Job \ {j} : job'[k] = job[k] /\ copy'[k] = copy[k]
    BY <1>b, <1>t
  <2>3. job'[j] = state /\ copy'[j] = rule[j[2]]
    BY <1>b, <1>t
  <2>4. \A w : AtFull(w) => AtFull(w)'
    BY <1>b, <2>2 DEF AtFull, AtWork
  <2>5. Owned'
    BY <1>b, <2>1, <2>2 DEF SwitchInv, Owned, AtWork
  <2>6. \A k \in Job : k[2] \in Full => CopyOK(k)' /\ BackOK(k)'
    BY <1>b, <2>1, <2>2, <2>3, <2>4 DEF SwitchInv, CopyOK, BackOK, Earned
  <2> QED BY <1>b, <2>1, <2>4, <2>5, <2>6 DEF SwitchInv, Earned
<1>5. ASSUME NEW w \in Software, TriggerOne(w) PROVE SwitchInv'
  <2>1. <<"one", w>> \in Job /\ <<"one", w>>[2] = w
    BY DEF Job, Source
  <2> QED BY <1>5, <2>1, <1>b DEF TriggerOne, Move
<1>6. ASSUME NEW r \in Round, RoundStep(r) PROVE SwitchInv'
  <2>1. CASE EndSubmit(r) \/ EndRound(r) \/ UNCHANGED <<next, job, copy>>
    <3>1. UNCHANGED <<phase, job, copy, rule, lock, full, stops, panics, faults>>
      BY <1>6, <2>1 DEF RoundStep, Submit, EndSubmit, EndRound
    <3> QED BY <3>1, <1>k DEF SwitchInv, Undisturbed, AtWork
  <2>2. CASE Submit(r) /\ ~UNCHANGED <<next, job, copy>>
    <3> DEFINE j == <<r, next[r]>>
    <3>1. /\ job' = [job EXCEPT ![j] = "queued"]
          /\ copy' = [copy EXCEPT ![j] = rule[next[r]]]
          /\ UNCHANGED <<phase, rule, lock, full, stops, panics, faults>>
      BY <2>2 DEF Submit
    <3>2. j \in Job /\ j[2] = next[r]
      BY <2>2 DEF Submit, Job, Source
    <3>3. job[j] = "none"
      BY <2>2 DEF Submit, SubmitInv, Software
    <3> QED BY <3>1, <3>2, <3>3, <1>b
  <2> QED BY <1>6, <2>1, <2>2 DEF RoundStep
<1>7. ASSUME NEW j \in Job, TakeToken(j) \/ GiveUp(j) \/ Listed(j) \/ ReturnError(j)
      PROVE  SwitchInv'
  <2>1. UNCHANGED <<phase, rule, lock, full, stops, panics>>
    BY <1>7 DEF TakeToken, GiveUp, Listed, ReturnError, budget
  <2>2. faults' = 0 => faults = 0
    <3>1. CASE ReturnError(j)
      <4>1. PICK cancelled \in Cancelled(j[1]) : Charge(Failure(~cancelled))
        BY <3>1 DEF ReturnError
      <4> QED BY <4>1, <1>t DEF Charge, Failure
    <3>2. CASE UNCHANGED faults
      BY <3>2
    <3> QED BY <1>7, <3>1, <3>2 DEF TakeToken, GiveUp, Listed, budget
  <2>3. \/ /\ job[j] = "queued" /\ job' = [job EXCEPT ![j] = "holding"] /\ UNCHANGED copy
        \/ /\ job[j] = "listing" /\ job' = [job EXCEPT ![j] = "syncing"] /\ UNCHANGED copy
        \/ /\ job[j] \in {"queued", "holding"} /\ job' = [job EXCEPT ![j] = "none"]
           /\ copy' = [copy EXCEPT ![j] = NoCopy[j]]
    BY <1>7 DEF TakeToken, GiveUp, Listed, ReturnError, Move, End
  <2>4. \A k \in Job : /\ job'[k] # "none" => job[k] # "none"
                       /\ AtWork(k)' <=> AtWork(k)
                       /\ job'[k] = "returned" => job[k] = "returned"
                       /\ job'[k] # "none" => copy'[k] = copy[k]
    BY <2>3, <1>t DEF AtWork
  <2>5. Undisturbed' => Undisturbed
    BY <2>1, <2>2 DEF Undisturbed
  <2> QED BY <2>1, <2>4, <2>5, <1>k DEF SwitchInv
\* A job found the software locked: by one that is at it.
<1>8. ASSUME NEW j \in Job, SkipLocked(j) PROVE SwitchInv'
  <2> SUFFICES ASSUME Undisturbed' PROVE SwitchInv'
    BY DEF SwitchInv
  <2>1. /\ job[j] = "holding" /\ j[2] \in lock /\ job' = [job EXCEPT ![j] = "returned"]
        /\ UNCHANGED <<phase, copy, rule, lock, full, stops, panics, faults>>
    BY <1>8 DEF SkipLocked, Move
  <2>2. Undisturbed
    BY <2>1 DEF Undisturbed
  <2>3. \A k \in Job : AtWork(k) => AtWork(k)'
    BY <2>1, <1>t DEF AtWork
  <2>4. \A w : AtFull(w) => AtFull(w)'
    BY <2>1, <2>3 DEF AtFull
  <2>5. Owned'
    BY <2>1, <2>2, <2>3 DEF SwitchInv, Owned
  <2>6. ASSUME j[2] \in Full PROVE BackOK(j)'
    <3>1. CASE rule[j[2]] = "incremental"
      BY <2>1, <2>2, <2>4, <2>6, <3>1 DEF SwitchInv, BackOK, Earned
    <3>2. CASE rule[j[2]] = "full_historical"
      <4>1. PICK k \in Job : k[2] = j[2] /\ AtWork(k)
        BY <2>1, <2>2 DEF SwitchInv, Owned
      <4>2. copy[k] = "full_historical"
        BY <2>2, <2>6, <3>2, <4>1 DEF SwitchInv, CopyOK, AtWork
      <4>3. AtFull(j[2])
        BY <4>1, <4>2 DEF AtFull
      <4> QED BY <2>1, <2>4, <4>3 DEF BackOK, Earned
    <3> QED BY <3>1, <3>2, <1>t, <1>j DEF Rules
  <2>7. \A k \in Job \ {j} : job'[k] = job[k]
    BY <2>1, <1>t
  <2>8. \A k \in Job : k[2] \in Full => CopyOK(k)' /\ BackOK(k)'
    BY <2>1, <2>2, <2>4, <2>6, <2>7 DEF SwitchInv, CopyOK, BackOK, Earned
  <2> QED BY <2>1, <2>2, <2>4, <2>5, <2>8 DEF SwitchInv, Earned
<1>9. ASSUME NEW j \in Job, Enter(j) PROVE SwitchInv'
  <2> SUFFICES ASSUME Undisturbed' PROVE SwitchInv'
    BY DEF SwitchInv
  <2>1. /\ job[j] = "holding" /\ job' = [job EXCEPT ![j] = "listing"]
        /\ lock' = lock \cup {j[2]}
        /\ UNCHANGED <<phase, copy, rule, full, stops, panics, faults>>
    BY <1>9 DEF Enter, Move
  <2>2. Undisturbed
    BY <2>1 DEF Undisturbed
  <2>3. job'[j] = "listing" /\ \A k \in Job \ {j} : job'[k] = job[k]
    BY <2>1, <1>t
  <2>4. \A w : AtFull(w) => AtFull(w)'
    BY <2>1, <2>3 DEF AtFull, AtWork
  <2>5. Owned'
    BY <2>1, <2>2, <2>3 DEF SwitchInv, Owned, AtWork
  <2>6. \A k \in Job : k[2] \in Full => CopyOK(k)' /\ BackOK(k)'
    BY <2>1, <2>2, <2>3, <2>4 DEF SwitchInv, CopyOK, BackOK, Earned
  <2> QED BY <2>1, <2>2, <2>4, <2>5, <2>6 DEF SwitchInv, Earned
\* While nobody stops the process its work is done when it returns.
<1>10. ASSUME NEW j \in Job, Finish(j) PROVE SwitchInv'
  <2> SUFFICES ASSUME Undisturbed' PROVE SwitchInv'
    BY DEF SwitchInv
  <2>1. /\ job[j] = "syncing" /\ job' = [job EXCEPT ![j] = "returned"]
        /\ UNCHANGED <<phase, copy, rule, stops, panics>>
    BY <1>10 DEF Finish, Move
  <2>c. PICK cancelled \in Cancelled(j[1]), deleted \in BOOLEAN, done \in BOOLEAN :
           /\ ~cancelled => done
           /\ Charge(Failure(~cancelled /\ ~deleted))
           /\ Release(j[2], deleted)
           /\ full' = IF done /\ copy[j] = "full_historical" THEN full \cup {j[2]}
                                                             ELSE full
    BY <1>10 DEF Finish
  <2>f. faults = 0 /\ Failure(~cancelled /\ ~deleted) = 0
    BY <2>c, <1>t DEF Charge, Failure, Undisturbed
  <2>2. Undisturbed
    BY <2>1, <2>f DEF Undisturbed
  <2>3. ~cancelled
    BY <2>2, <2>c DEF SwitchInv, Cancelled, Stopping
  <2>4. /\ lock' = lock \ {j[2]}
        /\ full' = IF copy[j] = "full_historical" THEN full \cup {j[2]} ELSE full
    BY <2>c, <2>f, <2>3 DEF Failure, Release
  <2>5. job'[j] = "returned" /\ \A k \in Job \ {j} : job'[k] = job[k]
    BY <2>1, <1>t
  <2>6. \A w : Earned(w) => Earned(w)'
    BY <2>1, <2>4, <2>5 DEF Earned, AtFull, AtWork
  <2>7. Owned'
    BY <2>2, <2>4, <2>5 DEF SwitchInv, Owned, AtWork
  <2>8. BackOK(j)'
    BY <2>1, <2>4 DEF BackOK, Earned
  <2>9. \A k \in Job : k[2] \in Full => CopyOK(k)' /\ BackOK(k)'
    BY <2>1, <2>2, <2>5, <2>6, <2>8 DEF SwitchInv, CopyOK, BackOK
  <2> QED BY <2>1, <2>2, <2>6, <2>7, <2>9 DEF SwitchInv
<1>11. ASSUME NEW j \in Job, Return(j) PROVE SwitchInv'
  <2> SUFFICES ASSUME Undisturbed' PROVE SwitchInv'
    BY DEF SwitchInv
  <2>1. /\ job[j] = "returned" /\ job' = [job EXCEPT ![j] = "none"]
        /\ copy' = [copy EXCEPT ![j] = NoCopy[j]]
        /\ \/ UNCHANGED rule
           \/ /\ j[2] \in Full /\ copy[j] = "full_historical"
              /\ rule' = [rule EXCEPT ![j[2]] = "incremental"]
        /\ UNCHANGED <<phase, lock, full, stops, panics, faults>>
    BY <1>11 DEF Return, Move, End
  <2>2. Undisturbed
    BY <2>1 DEF Undisturbed
  <2>3. job'[j] = "none" /\ \A k \in Job \ {j} : job'[k] = job[k] /\ copy'[k] = copy[k]
    BY <2>1, <1>t
  <2>4. \A w : Earned(w) => Earned(w)'
    BY <2>1, <2>3 DEF Earned, AtFull, AtWork
  <2>5. Owned'
    BY <2>1, <2>2, <2>3 DEF SwitchInv, Owned, AtWork
  <2>6. /\ \A w \in Software : rule'[w] = "full_historical" => rule[w] = "full_historical"
        /\ \A w \in Software : rule'[w] = "incremental" =>
              \/ rule[w] = "incremental"
              \/ w = j[2] /\ w \in Full /\ copy[j] = "full_historical"
    BY <2>1, <1>t, <1>j
  <2>7. \A k \in Job : k[2] \in Full => CopyOK(k)' /\ BackOK(k)'
    BY <2>2, <2>3, <2>4, <2>6, <1>j DEF SwitchInv, CopyOK, BackOK
  <2>8. \A w \in Full : rule'[w] = "incremental" => Earned(w)'
    BY <2>1, <2>2, <2>4, <2>6, <1>t DEF SwitchInv, BackOK
  <2> QED BY <2>1, <2>2, <2>5, <2>7, <2>8 DEF SwitchInv
<1>12. ASSUME NEW j \in Job, Panic(j) PROVE SwitchInv'
  BY <1>12, <1>t DEF Panic, SwitchInv, Undisturbed
<1> QED
  BY <1>1, <1>2, <1>3, <1>4, <1>5, <1>6, <1>7, <1>8, <1>9, <1>10, <1>11, <1>12,
     <1>13, <1>14 DEF Next, JobStep

\* As long as nobody stops the process, none ends in a panic and no call fails, a
\* software goes over to the incremental rule only when its history has been gone
\* through, or a job that will have gone through it is at it -- whatever rounds and
\* requests overlap, and whatever locks run out under the jobs.
THEOREM SwitchIsEarnedHolds == Spec => []SwitchIsEarned
<1>1. Init => SwitchInv
  <2> SUFFICES ASSUME Init PROVE SwitchInv
    OBVIOUS
  <2>1. /\ phase = "down" /\ lock = {} /\ \A j \in Job : job[j] = "none"
        /\ \A w \in Full : rule[w] = "full_historical"
    BY SchedulerAssumption DEF Init, NoJobs, Configured
  <2> QED BY <2>1 DEF SwitchInv, Owned, CopyOK, BackOK
<1>2. Inv /\ SwitchInv /\ [Next]_vars => SwitchInv'
  <2> SUFFICES ASSUME Inv, SwitchInv, [Next]_vars PROVE SwitchInv'
    OBVIOUS
  <2>1. CASE UNCHANGED vars
    BY <2>1 DEF vars, work, budget, SwitchInv, Undisturbed, Owned, CopyOK, BackOK,
       Earned, AtFull, AtWork
  <2> QED BY <2>1, SwitchStep DEF Inv
<1>3. Inv /\ SwitchInv => SwitchIsEarned
  <2> SUFFICES ASSUME SwitchInv, stops = 0, panics = 0, faults = 0, NEW w \in Full,
                      rule[w] = "incremental", w \notin full
               PROVE  \E s \in Source : /\ AtWork(<<s, w>>)
                                        /\ copy[<<s, w>>] = "full_historical"
    BY DEF SwitchIsEarned, OnlyEarnedSwitches
  <2>1. PICK j \in Job : j[2] = w /\ AtWork(j) /\ copy[j] = "full_historical"
    BY DEF SwitchInv, Undisturbed, Earned, AtFull
  <2>2. j = <<j[1], w>> /\ j[1] \in Source
    BY <2>1 DEF Job
  <2> QED BY <2>1, <2>2
<1> QED BY <1>1, <1>2, <1>3, Invariance, PTL DEF Spec

=============================================================================
