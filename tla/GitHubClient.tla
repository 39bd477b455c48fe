---------------------------- MODULE GitHubClient ----------------------------
(***************************************************************************)
(* internal/core/github/client.go: listing releases under GitHub's quota.  *)
(*                                                                         *)
(* The synchronisations of one instance share one client and its rate      *)
(* limiter, which guesses from the headers of past responses how many      *)
(* requests GitHub still grants.  The limiter has no lock: it is atomic    *)
(* words, read and written one at a time, and a response may be old when   *)
(* its headers are stored.  Times are kept relative to now, and the clocks *)
(* of client and GitHub agree (Margin, 5 seconds, covers their skew).      *)
(***************************************************************************)
EXTENDS Integers, FiniteSets

CONSTANTS
    Caller,         \* goroutines that list releases at the same time
    Limit,          \* requests GitHub grants per window (5000 with a token, else 60)
    StartLimit,     \* what NewRateLimiter takes it for (60)
    Period,         \* length of a window (an hour)
    Buffer,         \* RateLimitBuffer (10)
    Margin,         \* slept past the reset (5 seconds)
    RetryAfter,     \* parseRetryAfter (60 seconds when GitHub names none)
    MaxRetries,     \* retries of one request (3)
    MaxPages,       \* pages of one listing (50)
    NPages          \* pages of each caller's repository

ASSUME ClientAssumption ==
    /\ IsFiniteSet(Caller)
    /\ Limit \in Nat /\ StartLimit \in 0..Limit /\ Buffer \in 0..(Limit - 1)
    /\ Period \in Nat \ {0} /\ Margin \in Nat \ {0}
    /\ RetryAfter \in Nat /\ MaxRetries \in Nat
    /\ MaxPages \in Nat \ {0} /\ NPages \in [Caller -> Nat \ {0}]

VARIABLES
    quota, left,    \* GitHub: requests left in this window, time left of it
    remaining,      \* RateLimiter.remaining
    limit,          \* RateLimiter.limit
    resetIn,        \* RateLimiter.resetAt, from now
    etagCache,      \* the pages whose ETag is cached, per caller's repository
    pc, call,       \* where each caller is, and its local variables
    uncounted,      \* history: requests that remaining may lack, to Buffer + 1
    alone           \* history: has no request joined the one under way?

server  == <<quota, left>>
limiter == <<remaining, limit, resetIn>>
history == <<uncounted, alone>>
vars    == <<server, limiter, etagCache, pc, call, history>>

Labels == {"idle", "wait", "take", "low", "sleep", "send", "remaining", "reset",
           "after", "retry", "listed", "failed"}
Kinds  == {"200", "304", "429", "4xx", "5xx"}
Times  == (-Margin)..Period  \* what lies further back makes no difference
Call   == [page   : Nat \ {0},           \* page asked for
           seen   : 0..Limit,       \* remaining, as Wait loaded it
           tries  : 0..MaxRetries,  \* attempt
           timer  : Nat,            \* time until time.After fires
           kind   : Kinds,          \* of the response, with its headers
           rem    : 0..Limit,
           reset  : Times,
           pages  : SUBSET (Nat \ {0}),    \* pages appended to allReleases
           broken : BOOLEAN]        \* has a page been lost, or answered by 304?
NewCall == [page |-> 1, seen |-> 0, tries |-> 0, timer |-> 0, kind |-> "200",
            rem |-> 0, reset |-> 0, pages |-> {}, broken |-> FALSE]

Larger(a, b)  == IF a > b THEN a ELSE b
Smaller(a, b) == IF a < b THEN a ELSE b

\* The pages ListAllReleases asks for: of a longer repository the newest MaxPages.
LastPage(c) == Smaller(NPages[c], MaxPages)
Page(c)     == 1..LastPage(c)

\* The process starts in a window of which an earlier one may have used up a part.
Init ==
    /\ quota \in 0..Limit /\ left \in 1..Period
    /\ remaining = StartLimit /\ limit = StartLimit /\ resetIn = Period
    /\ etagCache = [c \in Caller |-> {}]
    /\ pc = [c \in Caller |-> "idle"] /\ call = [c \in Caller |-> NewCall]
    /\ uncounted = Smaller(Larger(StartLimit - quota, 0), Buffer + 1) /\ alone = TRUE

Goto(c, label) == pc' = [pc EXCEPT ![c] = label]
At(c, label)   == pc[c] = label

\* Requests under way: from Wait's load to the headers of the answer, or its loss.
UnderWay == {c \in Caller : pc[c] \in {"take", "low", "sleep", "send", "remaining", "reset",
                                      "after", "retry"}}

Count(missed) == uncounted' = IF missed THEN Smaller(uncounted + 1, Buffer + 1) ELSE uncounted

-----------------------------------------------------------------------------
\* A unit of time passes.  Timers that have run out may still fire late.
Earlier(t) == Larger(t - 1, -Margin)
Tick ==
    /\ left' = IF left = 1 THEN Period ELSE left - 1
    /\ quota' = IF left = 1 THEN Limit ELSE quota
    /\ resetIn' = Earlier(resetIn)
    /\ call' = [c \in Caller |-> [call[c] EXCEPT
                    !.timer = Larger(@ - 1, 0),
                    !.reset = IF pc[c] \in {"remaining", "reset"} THEN Earlier(@) ELSE @]]
    /\ UNCHANGED <<remaining, limit, etagCache, pc, history>>

-----------------------------------------------------------------------------
(* ListAllReleases, and doRequest for each of its pages.                   *)

Begin(c) ==
    /\ At(c, "idle")
    /\ call' = [call EXCEPT ![c] = NewCall]
    /\ Goto(c, "wait")
    /\ UNCHANGED <<server, limiter, etagCache, history>>

\* Mutant: the limiter goes down to the last request it knows of.
LoadUnbuffered(c) ==
    /\ At(c, "wait")
    /\ call' = [call EXCEPT ![c].seen = remaining]
    /\ Goto(c, IF remaining > 0 THEN "take" ELSE "low")
    /\ alone' = (UnderWay = {}) /\ Count(UnderWay # {})
    /\ UNCHANGED <<server, limiter, etagCache>>

\* Wait: load remaining ...
Load(c) ==
    /\ At(c, "wait")
    /\ call' = [call EXCEPT ![c].seen = IF remaining > Buffer THEN remaining ELSE 0]
    /\ Goto(c, IF remaining > Buffer THEN "take" ELSE "low")
    /\ alone' = (UnderWay = {}) /\ Count(UnderWay # {})
    /\ UNCHANGED <<server, limiter, etagCache>>

\* ... and store what was loaded less one, whatever has been stored since.
Take(c) ==
    /\ At(c, "take")
    /\ remaining' = call[c].seen - 1
    /\ call' = [call EXCEPT ![c] = [@ EXCEPT !.tries = 0, !.seen = 0]]
    /\ Goto(c, "send")
    /\ UNCHANGED <<server, limit, resetIn, etagCache, history>>

\* Too few left: if the window the limiter knows of is over, count from the limit
\* again, else sleep until it is.
ReadReset(c) ==
    /\ At(c, "low")
    /\ IF resetIn + Margin <= 0
       THEN /\ remaining' = limit
            /\ Goto(c, "wait") /\ UNCHANGED call
       ELSE /\ call' = [call EXCEPT ![c].timer = resetIn + Margin]
            /\ Goto(c, "sleep") /\ UNCHANGED remaining
    /\ UNCHANGED <<server, limit, resetIn, etagCache, history>>

Wake(c) ==
    /\ At(c, "sleep") /\ call[c].timer = 0
    /\ remaining' = limit
    /\ Goto(c, "wait")
    /\ UNCHANGED <<server, limit, resetIn, etagCache, call, history>>

\* GitHub gets the request and answers, in the order requests reach it.  A 304 is
\* free; an answer of any other kind, 5xx included, is paid for.
Respond(c, kind) ==
    /\ At(c, "send")
    /\ quota' = IF kind = "304" THEN quota ELSE Larger(quota - 1, 0)
    /\ call' = [call EXCEPT ![c] = [@ EXCEPT !.kind = kind, !.rem = quota', !.reset = left]]
    /\ Goto(c, "remaining")
    /\ UNCHANGED <<left, limiter, etagCache, alone>>

Ok(c)        == quota > 0 /\ Respond(c, "200") /\ Count(FALSE)
Unchanged(c) == call[c].page \in etagCache[c] /\ Respond(c, "304") /\ Count(FALSE)
\* A request sent again is paid for again, without another Wait.
ServerError(c) == quota > 0 /\ Respond(c, "5xx") /\ Count(TRUE)
\* The quota is used up, or GitHub finds the client too fast (its secondary limits).
\* It says so with a 429, which is retried, or with a 403, which is not.
TooMany(c)   == \E kind \in {"429", "4xx"} : Respond(c, kind) /\ Count(quota > 0)

\* The connection breaks: before GitHub has the request, or after.
Unreachable(c) ==
    /\ At(c, "send")
    /\ Goto(c, "retry")
    /\ UNCHANGED <<server, limiter, etagCache, call, history>>

Break(c) ==
    /\ At(c, "send")
    /\ quota' = Larger(quota - 1, 0)
    /\ Count(TRUE)
    /\ Goto(c, "retry")
    /\ UNCHANGED <<left, limiter, etagCache, call, alone>>

\* updateRateLimit stores one header after the other.
StoreRemaining(c) ==
    /\ At(c, "remaining")
    /\ remaining' = call[c].rem
    /\ call' = [call EXCEPT ![c].rem = 0]
    /\ Goto(c, "reset")
    /\ UNCHANGED <<server, limit, resetIn, etagCache, history>>

\* The listing ends with what it has; without a page it is an error.
Lose(c) ==
    /\ call' = [call EXCEPT ![c] = [@ EXCEPT !.broken = TRUE, !.reset = 0, !.tries = 0, !.timer = 0]]
    /\ Goto(c, IF call[c].pages # {} THEN "listed" ELSE "failed")

PagesWith(k) == k.pages \cup {k.page}

\* The headers of a request that ran alone are the truth: the limiter counts from there.
CountIsKnown == uncounted' = (IF alone THEN 0 ELSE uncounted) /\ UNCHANGED alone

\* Mutant: a full page is taken for the last one.
PageReadLast(c) ==
    /\ call[c].kind = "200"
    /\ etagCache' = [etagCache EXCEPT ![c] = @ \cup {call[c].page}]
    /\ call' = [call EXCEPT ![c] = [@ EXCEPT !.pages = PagesWith(call[c]), !.reset = 0]]
    /\ Goto(c, "listed")

\* The ETag is cached before the body is read; a page of DefaultPerPage releases is
\* followed by another request, unless MaxPages have been read: that ends the listing
\* without an error, whatever the repository has beyond.
PageRead(c) ==
    /\ call[c].kind = "200"
    /\ etagCache' = [etagCache EXCEPT ![c] = @ \cup {call[c].page}]
    /\ \/ LET last == call[c].page = NPages[c] \/ call[c].page + 1 > MaxPages
          IN  /\ call' = [call EXCEPT ![c] = [@ EXCEPT
                            !.pages = PagesWith(call[c]),
                            !.page = IF last THEN call[c].page ELSE call[c].page + 1,
                            !.tries = 0, !.reset = 0]]
              /\ Goto(c, IF last THEN "listed" ELSE "wait")
       \/ Lose(c)             \* the body does not decode

StoreReset(c) ==
    /\ At(c, "reset")
    /\ limit' = Limit /\ resetIn' = call[c].reset
    /\ \/ PageRead(c) /\ CountIsKnown
       \/ call[c].kind \in {"304", "4xx"} /\ Lose(c) /\ CountIsKnown /\ UNCHANGED etagCache
       \/ /\ call[c].kind = "429"
          /\ call' = [call EXCEPT ![c] = [@ EXCEPT !.timer = RetryAfter, !.kind = "200", !.reset = 0]]
          /\ Goto(c, "after") /\ UNCHANGED <<etagCache, history>>
       \/ /\ call[c].kind = "5xx"
          /\ call' = [call EXCEPT ![c] = [@ EXCEPT !.kind = "200", !.reset = 0]]
          /\ Goto(c, "retry") /\ UNCHANGED <<etagCache, history>>
    /\ UNCHANGED <<server, remaining>>

WaitRetryAfter(c) ==
    /\ At(c, "after") /\ call[c].timer = 0
    /\ Goto(c, "retry")
    /\ UNCHANGED <<server, limiter, etagCache, call, history>>

\* Mutant: one retry too many.
RetryOnceMore(c) ==
    /\ At(c, "retry")
    /\ IF call[c].tries <= MaxRetries
       THEN call' = [call EXCEPT ![c].tries = @ + 1] /\ Goto(c, "send")
       ELSE Lose(c)
    /\ UNCHANGED <<server, limiter, etagCache, history>>

\* After a backoff the request is sent again, without another Wait.
Retry(c) ==
    /\ At(c, "retry")
    /\ IF call[c].tries < MaxRetries
       THEN call' = [call EXCEPT ![c].tries = @ + 1] /\ Goto(c, "send")
       ELSE Lose(c)
    /\ UNCHANGED <<server, limiter, etagCache, history>>

\* The synchronisation's context ends while the client sleeps.
Cancel(c) ==
    /\ pc[c] \in {"sleep", "after", "retry"}
    /\ Lose(c)
    /\ UNCHANGED <<server, limiter, etagCache, history>>

Return(c) ==
    /\ pc[c] \in {"listed", "failed"}
    /\ call' = [call EXCEPT ![c] = NewCall]
    /\ Goto(c, "idle")
    /\ UNCHANGED <<server, limiter, etagCache, history>>

-----------------------------------------------------------------------------
Run(c) == \/ Load(c) \/ Take(c) \/ ReadReset(c) \/ Wake(c)
          \/ Ok(c) \/ Unchanged(c) \/ ServerError(c) \/ TooMany(c) \/ Unreachable(c) \/ Break(c)
          \/ StoreRemaining(c) \/ StoreReset(c)
          \/ WaitRetryAfter(c) \/ Retry(c) \/ Return(c)
Next   == Tick \/ \E c \in Caller : Begin(c) \/ Run(c) \/ Cancel(c)

Spec == Init /\ [][Next]_vars

-----------------------------------------------------------------------------
(* Properties.                                                              *)

\* Every variable has its shape.
TypeOK ==
    /\ quota \in 0..Limit /\ left \in 1..Period
    /\ remaining \in 0..Limit /\ limit \in 0..Limit /\ resetIn \in Times
    /\ etagCache \in [Caller -> SUBSET (Nat \ {0})]
    /\ pc \in [Caller -> Labels] /\ call \in [Caller -> Call]
    /\ uncounted \in 0..(Buffer + 1) /\ alone \in BOOLEAN

\* GitHub can grant every request on its way, as long as no more than Buffer requests
\* have gone uncounted: one that fails and is paid for, its retry being nobody's (:354),
\* and one that begins while another is under way, whose decrement may be lost
\* (client.go:463-465) or overwritten by older headers (:425), which may find a reset
\* time older than the count (:435), or be forgotten by a sleeper that starts a count
\* anew (:484).  One request that runs alone and is answered sets the count right.
NeverRefused ==
    uncounted <= Buffer => Cardinality({c \in Caller : At(c, "send")}) <= quota

\* A listing that comes back without an error is the newest pages of the repository,
\* without a hole.  It is all of them, or the MaxPages newest of a longer repository,
\* which nothing tells the synchronisation (client.go:217-220), unless a page was lost
\* or answered by 304: then it is shorter, and no error tells that either (:201-208).
ListingIsWhole ==
    \A c \in Caller : At(c, "listed") =>
        \E n \in Page(c) : /\ call[c].pages = 1..n
                           /\ n = NPages[c] \/ n = MaxPages \/ call[c].broken

=============================================================================
