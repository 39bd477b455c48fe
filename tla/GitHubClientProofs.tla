------------------------- MODULE GitHubClientProofs -------------------------
(***************************************************************************)
(* Theorems of GitHubClient, for any callers, repositories, limits, buffer *)
(* and times.                                                              *)
(*                                                                         *)
(* Types adds to TypeOK what Wait has seen when it stores.  PagesInv says  *)
(* where a listing stands: it has the pages before the one it asks for,    *)
(* and, once a page is lost, it is over.  QuotaInv says how far off the    *)
(* limiter's count may be: by what went uncounted, and no more.            *)
(***************************************************************************)
EXTENDS GitHubClient, FiniteSetTheorems, TLAPS

Types ==
    /\ TypeOK
    /\ \A c \in Caller : pc[c] = "take" => call[c].seen >= 1

Paging == {"wait", "take", "low", "sleep", "send", "remaining", "reset", "after", "retry"}

\* How a listing that has ended stands: it has its last page, or it has lost one.
Ended(k, c) ==
    IF k.broken THEN k.page - 1 \in Page(c) /\ k.pages = 1..(k.page - 1)
                ELSE k.page = LastPage(c) /\ k.pages = 1..k.page

PagesInv ==
    \A c \in Caller :
        /\ pc[c] \in Paging => /\ ~call[c].broken
                               /\ call[c].page \in Page(c)
                               /\ call[c].pages = 1..(call[c].page - 1)
        /\ pc[c] = "listed" => Ended(call[c], c)

-----------------------------------------------------------------------------
LEMMA LargerIn == \A a, b \in Int : Larger(a, b) \in {a, b} /\ Larger(a, b) >= a /\ Larger(a, b) >= b
BY DEF Larger

LEMMA Aged ==
    /\ \A t \in Times : Earlier(t) \in Times
    /\ \A t \in Nat : Larger(t - 1, 0) \in Nat
BY ClientAssumption DEF Times, Earlier, Larger

LEMMA CountStays ==
    ASSUME uncounted \in 0..(Buffer + 1), Count(TRUE) \/ Count(FALSE) \/ CountIsKnown \/ UNCHANGED uncounted
    PROVE  uncounted' \in 0..(Buffer + 1)
BY ClientAssumption DEF Count, CountIsKnown, Smaller

LEMMA NewCallIsCall == NewCall \in Call
BY ClientAssumption DEF NewCall, Call, Kinds, Times

\* Local variables stay what they are when one is assigned; of those a listing is made
\* of, page, pages and broken, only the assigned one changes.
Same(j, k) == j.page = k.page /\ j.pages = k.pages /\ j.broken = k.broken
LEMMA Assign ==
    /\ \A k \in Call, n \in 0..Limit : [k EXCEPT !.seen = n] \in Call /\ Same([k EXCEPT !.seen = n], k)
    /\ \A k \in Call, n \in 0..MaxRetries : [k EXCEPT !.tries = n] \in Call /\ Same([k EXCEPT !.tries = n], k)
    /\ \A k \in Call, n \in Nat : [k EXCEPT !.timer = n] \in Call /\ Same([k EXCEPT !.timer = n], k)
    /\ \A k \in Call, n \in Kinds : [k EXCEPT !.kind = n] \in Call /\ Same([k EXCEPT !.kind = n], k)
    /\ \A k \in Call, n \in 0..Limit : [k EXCEPT !.rem = n] \in Call /\ Same([k EXCEPT !.rem = n], k)
    /\ \A k \in Call, n \in Times : [k EXCEPT !.reset = n] \in Call /\ Same([k EXCEPT !.reset = n], k)
    /\ \A k \in Call, n \in BOOLEAN : [k EXCEPT !.broken = n] \in Call
    /\ \A k \in Call, n \in Nat \ {0} : /\ [k EXCEPT !.page = n] \in Call
                                        /\ [k EXCEPT !.page = n].page = n
                                        /\ [k EXCEPT !.page = n].pages = k.pages
                                        /\ [k EXCEPT !.page = n].broken = k.broken
    /\ \A k \in Call, n \in SUBSET (Nat \ {0}) : /\ [k EXCEPT !.pages = n] \in Call
                                                /\ [k EXCEPT !.pages = n].page = k.page
                                                /\ [k EXCEPT !.pages = n].pages = n
                                                /\ [k EXCEPT !.pages = n].broken = k.broken
<1>1. \A k \in Call, n \in 0..Limit : [k EXCEPT !.seen = n] \in Call /\ Same([k EXCEPT !.seen = n], k)
  BY DEF Call, Same
<1>2. \A k \in Call, n \in 0..MaxRetries : [k EXCEPT !.tries = n] \in Call /\ Same([k EXCEPT !.tries = n], k)
  BY DEF Call, Same
<1>3. \A k \in Call, n \in Nat : [k EXCEPT !.timer = n] \in Call /\ Same([k EXCEPT !.timer = n], k)
  BY DEF Call, Same
<1>4. \A k \in Call, n \in Kinds : [k EXCEPT !.kind = n] \in Call /\ Same([k EXCEPT !.kind = n], k)
  BY DEF Call, Same
<1>5. \A k \in Call, n \in 0..Limit : [k EXCEPT !.rem = n] \in Call /\ Same([k EXCEPT !.rem = n], k)
  BY DEF Call, Same
<1>6. \A k \in Call, n \in Times : [k EXCEPT !.reset = n] \in Call /\ Same([k EXCEPT !.reset = n], k)
  BY DEF Call, Same
<1>7. \A k \in Call, n \in BOOLEAN : [k EXCEPT !.broken = n] \in Call
  BY DEF Call
<1>8. \A k \in Call, n \in Nat \ {0} : /\ [k EXCEPT !.page = n] \in Call
                                     /\ [k EXCEPT !.page = n].page = n
                                     /\ [k EXCEPT !.page = n].pages = k.pages
                                     /\ [k EXCEPT !.page = n].broken = k.broken
  BY DEF Call
<1>9. \A k \in Call, n \in SUBSET (Nat \ {0}) : /\ [k EXCEPT !.pages = n] \in Call
                                             /\ [k EXCEPT !.pages = n].page = k.page
                                             /\ [k EXCEPT !.pages = n].pages = n
                                             /\ [k EXCEPT !.pages = n].broken = k.broken
  BY DEF Call
<1> QED BY <1>1, <1>2, <1>3, <1>4, <1>5, <1>6, <1>7, <1>8, <1>9

\* What time does to local variables, and what a page that was read does.
LEMMA Stamped ==
    ASSUME NEW k \in Call, NEW t \in Nat, NEW r \in Times
    PROVE  /\ [k EXCEPT !.timer = t, !.reset = r] \in Call
           /\ Same([k EXCEPT !.timer = t, !.reset = r], k)
           /\ [k EXCEPT !.timer = t, !.reset = r].seen = k.seen
<1>1. \A j \in Call : [j EXCEPT !.timer = t] \in Call /\ Same([j EXCEPT !.timer = t], j)
                     /\ [j EXCEPT !.timer = t].seen = j.seen
  BY DEF Call, Same
<1>2. \A j \in Call : [j EXCEPT !.reset = r] \in Call /\ Same([j EXCEPT !.reset = r], j)
                     /\ [j EXCEPT !.reset = r].seen = j.seen
  BY DEF Call, Same
<1> QED BY <1>1, <1>2, Zenon DEF Same

LEMMA Aging ==
    ASSUME call \in [Caller -> Call], Tick, NEW c \in Caller
    PROVE  \E t \in Nat, r \in Times : call'[c] = [call[c] EXCEPT !.timer = t, !.reset = r]
<1>1. call'[c] = [call[c] EXCEPT
                    !.timer = Larger(@ - 1, 0),
                    !.reset = IF pc[c] \in {"remaining", "reset"} THEN Earlier(@) ELSE @]
  BY Zenon DEF Tick
<1>2. call[c].timer \in Nat /\ call[c].reset \in Times
  BY DEF Call
<1>3. Larger(call[c].timer - 1, 0) \in Nat /\ Earlier(call[c].reset) \in Times
  BY <1>2, Aged
<1>4. CASE pc[c] \in {"remaining", "reset"}
  BY <1>1, <1>3, <1>4, Zenon
<1> QED BY <1>1, <1>2, <1>3, <1>4, Zenon

LEMMA Turned ==
    ASSUME call \in [Caller -> Call], NEW c \in Caller, PageRead(c), ~Lose(c)
    PROVE  \E k \in Call, l \in {"listed", "wait"} :
             /\ call' = [call EXCEPT ![c] = k] /\ Goto(c, l)
             /\ k.pages = call[c].pages \cup {call[c].page} /\ k.broken = call[c].broken
             /\ l = "listed" => /\ call[c].page = NPages[c] \/ call[c].page + 1 > MaxPages
                                /\ k.page = call[c].page
             /\ l = "wait" => /\ call[c].page # NPages[c] /\ call[c].page + 1 <= MaxPages
                              /\ k.page = call[c].page + 1
<1> DEFINE last == call[c].page = NPages[c] \/ call[c].page + 1 > MaxPages
           n    == IF last THEN call[c].page ELSE call[c].page + 1
           S    == call[c].pages \cup {call[c].page}
           l    == IF last THEN "listed" ELSE "wait"
           k    == [call[c] EXCEPT !.pages = S, !.page = n, !.tries = 0, !.reset = 0]
<1>1. /\ Goto(c, l)
      /\ call' = [call EXCEPT ![c] = k]
  BY Zenon DEF PageRead, PagesWith
<1>2. call[c] \in Call
  OBVIOUS
<1>3. n \in Nat \ {0} /\ S \in SUBSET (Nat \ {0})
  BY <1>2 DEF Call
<1>4. 0 \in 0..MaxRetries /\ 0 \in Times
  BY ClientAssumption DEF Times
<1> HIDE DEF n, S
<1> DEFINE k1 == [call[c] EXCEPT !.pages = S]
           k2 == [k1 EXCEPT !.page = n]
           k3 == [k2 EXCEPT !.tries = 0]
<1>5. k1 \in Call /\ k1.pages = S /\ k1.broken = call[c].broken
  BY <1>2, <1>3, Assign, ZenonT(30)
<1>6. k2 \in Call /\ k2.pages = S /\ k2.broken = call[c].broken /\ k2.page = n
  <2>1. \A j \in Call : /\ [j EXCEPT !.page = n] \in Call
                       /\ [j EXCEPT !.page = n].page = n
                       /\ [j EXCEPT !.page = n].pages = j.pages
                       /\ [j EXCEPT !.page = n].broken = j.broken
    BY <1>3, Assign, ZenonT(30)
  <2> HIDE DEF k1
  <2> QED BY <1>5, <2>1, Zenon
<1>7. k3 \in Call /\ Same(k3, k2)
  <2> HIDE DEF k2
  <2> QED BY <1>6, <1>4, Assign, Zenon
<1>8. k \in Call /\ Same(k, k3)
  <2>1. k = [k3 EXCEPT !.reset = 0]
    BY Zenon
  <2> HIDE DEF k3
  <2> QED BY <1>7, <1>4, <2>1, Assign, Zenon
<1>9. k.pages = S /\ k.page = n /\ k.broken = call[c].broken
  BY <1>6, <1>7, <1>8, Zenon DEF Same
<1> HIDE DEF k
<1>10. /\ l \in {"listed", "wait"} /\ k.broken = call[c].broken
       /\ k.pages = call[c].pages \cup {call[c].page}
  BY <1>9, Zenon DEF S
<1>11. /\ l = "listed" => last /\ k.page = call[c].page
       /\ l = "wait" => ~last /\ k.page = call[c].page + 1
  BY <1>9 DEF n
<1>12. ~last => call[c].page # NPages[c] /\ call[c].page + 1 <= MaxPages
  BY <1>2, ClientAssumption DEF Call
<1> QED BY <1>1, <1>8, <1>10, <1>11, <1>12

-----------------------------------------------------------------------------
LEMMA TypesStep == ASSUME Types, Next PROVE Types'
<1>t. /\ quota \in 0..Limit /\ left \in 1..Period
      /\ remaining \in 0..Limit /\ limit \in 0..Limit /\ resetIn \in Times
      /\ etagCache \in [Caller -> SUBSET (Nat \ {0})]
      /\ pc \in [Caller -> Labels] /\ call \in [Caller -> Call]
      /\ uncounted \in 0..(Buffer + 1) /\ alone \in BOOLEAN
  BY DEF Types, TypeOK
<1>a. /\ Limit \in Nat /\ Buffer \in 0..(Limit - 1) /\ Period \in Nat \ {0}
      /\ Margin \in Nat \ {0} /\ RetryAfter \in Nat /\ MaxRetries \in Nat
      /\ 0 \in Times /\ (0..Period) \subseteq Times
      /\ 0 \in 0..Limit /\ 0 \in 0..MaxRetries /\ 0 \in Nat /\ TRUE \in BOOLEAN
  BY ClientAssumption DEF Times
<1> DEFINE Server  == quota \in 0..Limit /\ left \in 1..Period
           Limiter == remaining \in 0..Limit /\ limit \in 0..Limit /\ resetIn \in Times
           History == uncounted \in 0..(Buffer + 1) /\ alone \in BOOLEAN
           Etags   == etagCache \in [Caller -> SUBSET (Nat \ {0})]
           Calls   == /\ pc \in [Caller -> Labels] /\ call \in [Caller -> Call]
                      /\ \A c \in Caller : pc[c] = "take" => call[c].seen >= 1
<1>h. Server /\ Limiter /\ Etags /\ Calls /\ History
  BY <1>t DEF Types
<1>q. Server' /\ Limiter' /\ Etags' /\ Calls' /\ History' => Types'
  BY DEF Types, TypeOK
<1>s. ASSUME UNCHANGED server PROVE Server'
  BY <1>s, <1>h DEF server
<1>l. ASSUME UNCHANGED limiter PROVE Limiter'
  BY <1>l, <1>h DEF limiter
<1>e. ASSUME UNCHANGED etagCache PROVE Etags'
  BY <1>e, <1>h
<1>f. ASSUME \/ UNCHANGED history
             \/ CountIsKnown
             \/ (Count(TRUE) \/ Count(FALSE)) /\ alone' \in BOOLEAN
      PROVE  History'
  <2>1. uncounted' \in 0..(Buffer + 1)
    BY <1>f, <1>t, CountStays DEF history
  <2>2. alone' \in BOOLEAN
    BY <1>f, <1>t, Zenon DEF history, CountIsKnown
  <2> QED BY <2>1, <2>2
\* One caller goes to a label with these local variables.
<1>g. ASSUME NEW c \in Caller, NEW l \in Labels, NEW k \in Call, l = "take" => k.seen >= 1,
             Goto(c, l), call' = [call EXCEPT ![c] = k]
      PROVE  Calls'
  BY <1>g, <1>t, <1>h DEF Goto
<1>o. ASSUME NEW c \in Caller, NEW l \in Labels \ {"take"}, Goto(c, l), UNCHANGED call PROVE Calls'
  BY <1>o, <1>t, <1>h DEF Goto
<1>c. \A c \in Caller : call[c] \in Call
  BY <1>t
<1> HIDE DEF Server, Limiter, Etags, Calls, History
\* A listing that ends with what it has.
<1>b. ASSUME NEW c \in Caller, Lose(c) PROVE Calls'
  <2>1. [call[c] EXCEPT !.broken = TRUE, !.reset = 0, !.tries = 0, !.timer = 0] \in Call
    BY <1>c, <1>a, Assign, Zenon
  <2>2. PICK l \in {"listed", "failed"} : Goto(c, l)
    BY <1>b DEF Lose
  <2> QED BY <1>b, <2>1, <2>2, <1>g DEF Lose, Labels
<1>1. CASE Tick
  <2>1. Server'
    <3>1. /\ left' = IF left = 1 THEN Period ELSE left - 1
          /\ quota' = IF left = 1 THEN Limit ELSE quota
      BY <1>1, Zenon DEF Tick
    <3>2. quota' \in 0..Limit /\ left' \in 1..Period
      BY <3>1, <1>t, <1>a
    <3> QED BY <3>2 DEF Server
  <2>2. Limiter'
    BY <1>1, <1>t, Aged DEF Tick, Limiter
  <2>3. Calls'
    <3>2. UNCHANGED pc
      BY <1>1 DEF Tick
    <3>3. ASSUME NEW c \in Caller PROVE call'[c] \in Call /\ call'[c].seen = call[c].seen
      <4>1. PICK t \in Nat, r \in Times : call'[c] = [call[c] EXCEPT !.timer = t, !.reset = r]
        BY <1>1, <1>t, Aging
      <4>2. /\ [call[c] EXCEPT !.timer = t, !.reset = r] \in Call
            /\ [call[c] EXCEPT !.timer = t, !.reset = r].seen = call[c].seen
        BY <1>c, Stamped, Zenon
      <4> QED BY <4>1, <4>2, Zenon
    <3>4. DOMAIN call' = Caller /\ call' = [c \in Caller |-> call'[c]]
      BY <1>1 DEF Tick
    <3> QED BY <3>2, <3>3, <3>4, <1>h DEF Calls
  <2> QED BY <1>1, <2>1, <2>2, <2>3, <1>e, <1>f, <1>q DEF Tick
<1>2. ASSUME NEW c \in Caller, Begin(c) \/ Return(c) PROVE Types'
  <2>1. Calls'
    BY <1>2, NewCallIsCall, <1>g DEF Begin, Return, Labels
  <2> QED BY <1>2, <2>1, <1>s, <1>l, <1>e, <1>f, <1>q DEF Begin, Return
<1>3. ASSUME NEW c \in Caller, Load(c) PROVE Types'
  <2> DEFINE k == [call[c] EXCEPT !.seen = IF remaining > Buffer THEN remaining ELSE 0]
             l == IF remaining > Buffer THEN "take" ELSE "low"
  <2>1. k \in Call /\ l \in Labels
    BY <1>c, <1>a, <1>t DEF Call, Labels
  <2>2. l = "take" => k.seen >= 1
    BY <1>c, <1>a, <1>t DEF Call
  <2>3. call' = [call EXCEPT ![c] = k] /\ Goto(c, l)
    BY <1>3 DEF Load
  <2>4. Calls'
    BY <2>1, <2>2, <2>3, <1>g
  <2>5. History'
    <3>1. Count(TRUE) \/ Count(FALSE)
      BY <1>3 DEF Load, Count
    <3>2. alone' \in BOOLEAN
      BY <1>3, Zenon DEF Load
    <3> QED BY <3>1, <3>2, <1>f
  <2> QED BY <1>3, <2>4, <2>5, <1>s, <1>l, <1>e, <1>q DEF Load
<1>4. ASSUME NEW c \in Caller, Take(c) PROVE Types'
  <2>1. call[c].seen \in 1..Limit
    BY <1>4, <1>h, <1>c DEF Take, At, Calls, Call
  <2>2. Limiter'
    BY <1>4, <2>1, <1>a, <1>t DEF Take, Limiter
  <2>3. [call[c] EXCEPT !.tries = 0, !.seen = 0] \in Call
    BY <1>c, <1>a, Assign, Zenon
  <2>4. Calls'
    BY <1>4, <2>3, <1>g DEF Take, Labels
  <2> QED BY <1>4, <2>2, <2>4, <1>s, <1>e, <1>f, <1>q DEF Take
<1>5. ASSUME NEW c \in Caller, ReadReset(c) PROVE Types'
  <2>1. CASE resetIn + Margin <= 0
    <3>1. remaining' = limit /\ UNCHANGED <<limit, resetIn>> /\ Goto(c, "wait") /\ UNCHANGED call
      BY <1>5, <2>1 DEF ReadReset
    <3>2. Limiter' /\ Calls'
      BY <3>1, <1>a, <1>t, <1>o DEF Limiter, Labels
    <3> QED BY <1>5, <3>2, <1>s, <1>e, <1>f, <1>q DEF ReadReset
  <2>2. CASE ~(resetIn + Margin <= 0)
    <3>1. /\ UNCHANGED limiter /\ Goto(c, "sleep")
          /\ call' = [call EXCEPT ![c] = [call[c] EXCEPT !.timer = resetIn + Margin]]
      BY <1>5, <2>2 DEF ReadReset, limiter
    <3>2. resetIn + Margin \in Nat
      BY <2>2, <1>t, <1>a DEF Times
    <3>3. [call[c] EXCEPT !.timer = resetIn + Margin] \in Call
      BY <3>2, <1>c DEF Call
    <3>4. Calls'
      BY <3>1, <3>3, <1>g DEF Labels
    <3> QED BY <1>5, <3>1, <3>4, <1>s, <1>l, <1>e, <1>f, <1>q DEF ReadReset
  <2> QED BY <2>1, <2>2
<1>6. ASSUME NEW c \in Caller, Wake(c) PROVE Types'
  <2>1. Limiter'
    BY <1>6, <1>a, <1>t DEF Wake, Limiter
  <2>2. Calls'
    BY <1>6, <1>o DEF Wake, Labels
  <2> QED BY <1>6, <2>1, <2>2, <1>s, <1>e, <1>f, <1>q DEF Wake
<1>7. ASSUME NEW c \in Caller, NEW kind \in Kinds, Respond(c, kind) PROVE Server' /\ Limiter' /\ Etags' /\ Calls'
  <2>1. quota' \in 0..Limit
    BY <1>7, <1>t, <1>a DEF Respond, Larger
  <2>2. Server'
    BY <1>7, <2>1, <1>t DEF Respond, Server
  <2>3. [call[c] EXCEPT !.kind = kind, !.rem = quota', !.reset = left] \in Call
    <3>1. left \in Times
      BY <1>t, <1>a
    <3> QED BY <2>1, <3>1, <1>c, Assign, Zenon
  <2>4. Calls'
    BY <1>7, <2>3, <1>g DEF Respond, Labels
  <2> QED BY <1>7, <2>2, <2>4, <1>l, <1>e DEF Respond
<1>8. ASSUME NEW c \in Caller, Ok(c) \/ Unchanged(c) \/ ServerError(c) \/ TooMany(c) PROVE Types'
  <2>1. \E kind \in Kinds : Respond(c, kind)
    BY <1>8 DEF Ok, Unchanged, ServerError, TooMany, Kinds
  <2>2. (Count(TRUE) \/ Count(FALSE)) /\ UNCHANGED alone
    BY <1>8 DEF Ok, Unchanged, ServerError, TooMany, Count, Respond
  <2> QED BY <2>1, <2>2, <1>7, <1>f, <1>t, <1>q
<1>9. ASSUME NEW c \in Caller, Unreachable(c) \/ Break(c) PROVE Types'
  <2>1. Server'
    <3>1. UNCHANGED left /\ quota' \in {quota, Larger(quota - 1, 0)}
      BY <1>9 DEF Unreachable, Break, server
    <3>2. quota' \in 0..Limit
      BY <3>1, <1>t, <1>a DEF Larger
    <3> QED BY <3>1, <3>2, <1>t DEF Server
  <2>2. Calls'
    BY <1>9, <1>o DEF Unreachable, Break, Labels
  <2>3. History'
    BY <1>9, <1>f, <1>t DEF Unreachable, Break
  <2> QED BY <1>9, <2>1, <2>2, <2>3, <1>l, <1>e, <1>q DEF Unreachable, Break
<1>10. ASSUME NEW c \in Caller, StoreRemaining(c) PROVE Types'
  <2>1. Limiter'
    BY <1>10, <1>c, <1>t DEF StoreRemaining, Limiter, Call
  <2>2. [call[c] EXCEPT !.rem = 0] \in Call
    BY <1>c, <1>a DEF Call
  <2>3. Calls'
    BY <1>10, <2>2, <1>g DEF StoreRemaining, Labels
  <2> QED BY <1>10, <2>1, <2>3, <1>s, <1>e, <1>f, <1>q DEF StoreRemaining
<1>11. ASSUME NEW c \in Caller, StoreReset(c) PROVE Types'
  <2>1. Limiter'
    BY <1>11, <1>c, <1>t, <1>a DEF StoreReset, Limiter, Call
  <2>2. Etags' /\ Calls' /\ History'
    <3>1. CASE PageRead(c) /\ CountIsKnown
      <4>1. Etags'
        <5>1. call[c].page \in Nat \ {0}
          BY <1>c DEF Call
        <5> QED BY <3>1, <5>1, <1>t DEF PageRead, Etags
      <4>2. CASE Lose(c)
        BY <3>1, <4>1, <4>2, <1>b, <1>f
      <4>3. CASE ~Lose(c)
        <5>1. PICK k \in Call, l \in {"listed", "wait"} :
                call' = [call EXCEPT ![c] = k] /\ Goto(c, l)
          BY ZenonT(40), <3>1, <4>3, <1>t, Turned
        <5>2. Calls'
          BY <5>1, <1>g DEF Labels
        <5> QED BY <3>1, <4>1, <5>2, <1>f
      <4> QED BY <4>2, <4>3
    <3>2. CASE Lose(c) /\ CountIsKnown /\ UNCHANGED etagCache
      BY <3>2, <1>b, <1>e, <1>f
    <3>3. CASE /\ UNCHANGED <<etagCache, history>>
               /\ \/ /\ call' = [call EXCEPT ![c] = [@ EXCEPT !.timer = RetryAfter, !.kind = "200", !.reset = 0]]
                     /\ Goto(c, "after")
                  \/ /\ call' = [call EXCEPT ![c] = [@ EXCEPT !.kind = "200", !.reset = 0]]
                     /\ Goto(c, "retry")
      <4>1. /\ [call[c] EXCEPT !.timer = RetryAfter, !.kind = "200", !.reset = 0] \in Call
            /\ [call[c] EXCEPT !.kind = "200", !.reset = 0] \in Call
        BY <1>c, <1>a DEF Call, Kinds
      <4>2. Calls'
        BY <3>3, <4>1, <1>g DEF Labels
      <4> QED BY <3>3, <4>2, <1>e, <1>f
    <3> QED BY <1>11, <3>1, <3>2, <3>3 DEF StoreReset
  <2> QED BY <1>11, <2>1, <2>2, <1>s, <1>q DEF StoreReset
<1>12. ASSUME NEW c \in Caller, WaitRetryAfter(c) PROVE Types'
  <2>1. Calls'
    BY <1>12, <1>o DEF WaitRetryAfter, Labels
  <2> QED BY <1>12, <2>1, <1>s, <1>l, <1>e, <1>f, <1>q DEF WaitRetryAfter
<1>13. ASSUME NEW c \in Caller, Retry(c) \/ Cancel(c) PROVE Types'
  <2>1. Calls'
    <3>1. CASE Lose(c)
      BY <3>1, <1>b
    <3>2. CASE /\ call[c].tries < MaxRetries
               /\ call' = [call EXCEPT ![c].tries = @ + 1] /\ Goto(c, "send")
      <4>1. [call[c] EXCEPT !.tries = @ + 1] \in Call
        BY <3>2, <1>c, <1>a DEF Call
      <4> QED BY <3>2, <4>1, <1>g DEF Labels
    <3> QED BY <1>13, <3>1, <3>2 DEF Retry, Cancel
  <2> QED BY <1>13, <2>1, <1>s, <1>l, <1>e, <1>f, <1>q DEF Retry, Cancel
<1> QED
  BY <1>1, <1>2, <1>3, <1>4, <1>5, <1>6, <1>8, <1>9, <1>10, <1>11, <1>12, <1>13 DEF Next, Run

LEMMA TypesHold == Spec => []Types
<1>1. Init => Types
  <2> SUFFICES ASSUME Init PROVE Types
    OBVIOUS
  <2>1. /\ quota \in 0..Limit /\ left \in 1..Period
        /\ remaining \in 0..Limit /\ limit \in 0..Limit /\ resetIn \in Times
    BY ClientAssumption DEF Init, Times
  <2>2. /\ etagCache \in [Caller -> SUBSET (Nat \ {0})]
        /\ pc \in [Caller -> Labels] /\ call \in [Caller -> Call]
        /\ \A c \in Caller : pc[c] = "idle"
    BY NewCallIsCall DEF Init, Labels
  <2>3. uncounted \in 0..(Buffer + 1) /\ alone \in BOOLEAN
    <3>1. uncounted \in 0..(Buffer + 1)
      BY <2>1, ClientAssumption DEF Init, Larger, Smaller
    <3> QED BY <3>1 DEF Init
  <2> QED BY <2>1, <2>2, <2>3 DEF Types, TypeOK
<1>2. Types /\ [Next]_vars => Types'
  <2>1. ASSUME Types, UNCHANGED vars PROVE Types'
    BY <2>1 DEF Types, TypeOK, vars, server, limiter, history
  <2> QED BY <2>1, TypesStep
<1> QED BY <1>1, <1>2, PTL DEF Spec

\* Every variable of GitHubClient has its shape in every state: whatever responses are
\* stored in whatever order, what the limiter counts stays between 0 and the limit.
THEOREM TypeCorrect == Spec => []TypeOK
<1>1. Types => TypeOK
  BY DEF Types
<1> QED BY TypesHold, <1>1, PTL

-----------------------------------------------------------------------------
(* The pages of a listing.                                                  *)

LEMMA PagesStep == ASSUME Types, PagesInv, Next PROVE PagesInv'
<1>t. /\ pc \in [Caller -> Labels] /\ call \in [Caller -> Call]
      /\ \A c \in Caller : LastPage(c) \in Nat \ {0}
  BY ClientAssumption DEF Types, TypeOK, LastPage, Smaller
<1>a. 0 \in 0..Limit /\ 0 \in 0..MaxRetries /\ 0 \in Times /\ Period \in Nat /\ (0..Period) \subseteq Times
      /\ RetryAfter \in Nat /\ MaxRetries \in Nat /\ Limit \in Nat
  BY ClientAssumption DEF Times
<1>c. \A c \in Caller : call[c] \in Call
  BY <1>t
<1> DEFINE Stands(l, k, c) ==
             /\ l \in Paging => /\ ~k.broken /\ k.page \in Page(c)
                               /\ k.pages = 1..(k.page - 1)
             /\ l = "listed" => Ended(k, c)
<1>h. \A c \in Caller : Stands(pc[c], call[c], c)
  BY DEF PagesInv
<1>q. ASSUME \A c \in Caller : Stands(pc'[c], call'[c], c) PROVE PagesInv'
  BY <1>q DEF PagesInv, Page
\* Nothing about pages changes, or one caller moves to where it stands rightly.
<1>g. ASSUME NEW c \in Caller, NEW l, NEW k, Stands(l, k, c), Goto(c, l),
             call' = [call EXCEPT ![c] = k]
      PROVE  PagesInv'
  <2>1. \A d \in Caller : Stands(pc'[d], call'[d], d)
    <3>1. \A d \in Caller : IF d = c THEN pc'[d] = l /\ call'[d] = k
                                     ELSE pc'[d] = pc[d] /\ call'[d] = call[d]
      BY <1>g, <1>t DEF Goto
    <3> HIDE DEF Stands
    <3> QED BY <3>1, <1>h, <1>g
  <2> QED BY <2>1, <1>q
<1>o. ASSUME NEW c \in Caller, NEW l \in Paging \cup {"idle"}, pc[c] \in Paging, Goto(c, l),
             NEW k \in Call, Same(k, call[c]), call' = [call EXCEPT ![c] = k] \/ (UNCHANGED call /\ k = call[c])
      PROVE  PagesInv'
  <2>1. call' = [call EXCEPT ![c] = k]
    BY <1>o, <1>t
  <2>2. Stands(l, k, c)
    BY <1>o, <1>h DEF Same, Paging
  <2> QED BY <2>1, <2>2, <1>o, <1>g
\* A listing that ends too early is broken.
<1>b. ASSUME NEW c \in Caller, Lose(c), pc[c] \in Paging PROVE PagesInv'
  <2> DEFINE k == [call[c] EXCEPT !.broken = TRUE, !.reset = 0, !.tries = 0, !.timer = 0]
  <2> DEFINE Broken(j) == j.broken /\ j.page = call[c].page /\ j.pages = call[c].pages
  <2>1. Broken(k)
    <3>1. [call[c] EXCEPT !.broken = TRUE] \in Call /\ Broken([call[c] EXCEPT !.broken = TRUE])
      <4>1. \A j \in Call : /\ [j EXCEPT !.broken = TRUE] \in Call
                           /\ [j EXCEPT !.broken = TRUE].broken
                           /\ [j EXCEPT !.broken = TRUE].page = j.page
                           /\ [j EXCEPT !.broken = TRUE].pages = j.pages
        BY DEF Call
      <4> QED BY <4>1, <1>c, Zenon
    <3>2. \A j \in Call : [j EXCEPT !.reset = 0] \in Call /\ Same([j EXCEPT !.reset = 0], j)
      BY <1>a, Assign, Zenon
    <3>3. \A j \in Call : [j EXCEPT !.tries = 0] \in Call /\ Same([j EXCEPT !.tries = 0], j)
      BY <1>a, Assign, Zenon
    <3>4. \A j \in Call : [j EXCEPT !.timer = 0] \in Call /\ Same([j EXCEPT !.timer = 0], j)
      BY Assign
    <3> DEFINE k1 == [call[c] EXCEPT !.broken = TRUE]
               k2 == [k1 EXCEPT !.reset = 0]
               k3 == [k2 EXCEPT !.tries = 0]
    <3>5. k2 \in Call /\ Broken(k2)
      <4> HIDE DEF k1
      <4> QED BY <3>1, <3>2, Zenon DEF Same, k1
    <3>6. k3 \in Call /\ Broken(k3)
      <4> HIDE DEF k2
      <4> QED BY <3>5, <3>3, Zenon DEF Same
    <3>7. Broken([k3 EXCEPT !.timer = 0])
      <4> HIDE DEF k3
      <4> QED BY <3>6, <3>4, Zenon DEF Same
    <3> QED BY <3>7, Zenon
  <2>2. PICK l \in {"listed", "failed"} : Goto(c, l) /\ (l = "listed" => call[c].pages # {})
    BY <1>b DEF Lose
  <2>3. call' = [call EXCEPT ![c] = k]
    BY <1>b, Zenon DEF Lose
  <2> HIDE DEF k
  <2>4. Stands(l, k, c)
    <3>1. call[c].page \in Page(c) /\ call[c].pages = 1..(call[c].page - 1) /\ LastPage(c) \in Nat
      BY <1>b, <1>h, <1>t
    <3>2. call[c].pages # {} => call[c].page - 1 \in Page(c)
      BY <3>1 DEF Page
    <3> QED BY <2>1, <2>2, <3>1, <3>2 DEF Paging, Ended
  <2> QED BY <2>2, <2>3, <2>4, <1>g
<1>1. CASE Tick
  <2>1. UNCHANGED pc
    BY <1>1, Zenon DEF Tick
  <2>2. ASSUME NEW c \in Caller PROVE Stands(pc'[c], call'[c], c)
    <3>1. PICK t \in Nat, r \in Times : call'[c] = [call[c] EXCEPT !.timer = t, !.reset = r]
      BY <1>1, <1>t, Aging
    <3>2. Same(call'[c], call[c])
      <4>1. Same([call[c] EXCEPT !.timer = t, !.reset = r], call[c])
        BY <1>c, Stamped, Zenon
      <4> QED BY <3>1, <4>1, Zenon
    <3> QED BY <2>1, <3>2, <1>h DEF Same, Ended
  <2> QED BY <2>2, <1>q
<1>2. ASSUME NEW c \in Caller, Begin(c) \/ Return(c) PROVE PagesInv'
  <2>1. PICK l \in {"idle", "wait"} : Goto(c, l) /\ call' = [call EXCEPT ![c] = NewCall]
    BY <1>2 DEF Begin, Return
  <2>2. Stands(l, NewCall, c)
    BY <1>t DEF NewCall, Page, Paging
  <2> QED BY <2>1, <2>2, <1>g
<1>3. ASSUME NEW c \in Caller, Load(c) PROVE PagesInv'
  <2>1. PICK n \in 0..Limit : call' = [call EXCEPT ![c] = [call[c] EXCEPT !.seen = n]]
    <3>1. remaining \in 0..Limit
      BY DEF Types, TypeOK
    <3> QED BY <3>1, <1>3, <1>a DEF Load
  <2>2. [call[c] EXCEPT !.seen = n] \in Call /\ Same([call[c] EXCEPT !.seen = n], call[c])
    BY <1>c, Assign, Zenon
  <2>3. PICK l \in {"take", "low"} : Goto(c, l)
    BY <1>3 DEF Load
  <2> QED BY <1>3, <2>1, <2>2, <2>3, <1>o DEF Load, At, Paging
<1>4. ASSUME NEW c \in Caller, Take(c) PROVE PagesInv'
  <2> DEFINE k == [call[c] EXCEPT !.tries = 0, !.seen = 0]
  <2>1. k \in Call /\ Same(k, call[c])
    <3>1. \A j \in Call : [j EXCEPT !.seen = 0] \in Call /\ Same([j EXCEPT !.seen = 0], j)
      BY <1>a, Assign, Zenon
    <3>2. [call[c] EXCEPT !.tries = 0] \in Call /\ Same([call[c] EXCEPT !.tries = 0], call[c])
      BY <1>a, <1>c, Assign, Zenon
    <3> QED BY <3>1, <3>2, Zenon DEF Same
  <2>2. call' = [call EXCEPT ![c] = k] /\ Goto(c, "send") /\ pc[c] = "take"
    BY <1>4, Zenon DEF Take, At
  <2> HIDE DEF k
  <2> QED BY <2>1, <2>2, <1>o DEF Paging
<1>5. ASSUME NEW c \in Caller, ReadReset(c) PROVE PagesInv'
  <2>1. CASE resetIn + Margin <= 0
    BY <1>5, <2>1, <1>c, <1>o DEF ReadReset, At, Paging, Same
  <2>2. CASE ~(resetIn + Margin <= 0)
    <3>1. /\ Goto(c, "sleep")
          /\ call' = [call EXCEPT ![c] = [call[c] EXCEPT !.timer = resetIn + Margin]]
      BY <1>5, <2>2 DEF ReadReset
    <3>2. resetIn + Margin \in Nat
      BY <2>2, ClientAssumption DEF Types, TypeOK, Times
    <3>3. LET k == [call[c] EXCEPT !.timer = resetIn + Margin] IN k \in Call /\ Same(k, call[c])
      BY <3>2, <1>c, Assign, Zenon
    <3> QED BY <1>5, <3>1, <3>3, <1>o DEF ReadReset, At, Paging
  <2> QED BY <2>1, <2>2
<1>6. ASSUME NEW c \in Caller, Wake(c) \/ Unreachable(c) \/ Break(c) \/ WaitRetryAfter(c) PROVE PagesInv'
  <2>1. PICK l \in {"wait", "retry"} : Goto(c, l) /\ UNCHANGED call
    BY <1>6 DEF Wake, Unreachable, Break, WaitRetryAfter
  <2>2. pc[c] \in Paging
    BY <1>6 DEF Wake, Unreachable, Break, WaitRetryAfter, At, Paging
  <2> QED BY <2>1, <2>2, <1>c, <1>o DEF Paging, Same
<1>7. ASSUME NEW c \in Caller, Ok(c) \/ Unchanged(c) \/ ServerError(c) \/ TooMany(c) PROVE PagesInv'
  <2>1. PICK kind \in Kinds : Respond(c, kind)
    BY <1>7 DEF Ok, Unchanged, ServerError, TooMany, Kinds
  <2>2. quota' \in 0..Limit /\ left \in Times
    BY <2>1, TypesStep, <1>a DEF Types, TypeOK
  <2> DEFINE k == [call[c] EXCEPT !.kind = kind, !.rem = quota', !.reset = left]
  <2>3. k \in Call /\ Same(k, call[c])
    <3>1. [call[c] EXCEPT !.kind = kind] \in Call /\ Same([call[c] EXCEPT !.kind = kind], call[c])
      BY <1>c, Assign, Zenon
    <3>2. \A j \in Call : [j EXCEPT !.rem = quota'] \in Call /\ Same([j EXCEPT !.rem = quota'], j)
      BY <2>2, Assign, Zenon
    <3>3. \A j \in Call : [j EXCEPT !.reset = left] \in Call /\ Same([j EXCEPT !.reset = left], j)
      BY <2>2, Assign, Zenon
    <3> QED BY <3>1, <3>2, <3>3, Zenon DEF Same
  <2>4. call' = [call EXCEPT ![c] = k] /\ Goto(c, "remaining") /\ pc[c] = "send"
    BY <2>1, Zenon DEF Respond, At
  <2> HIDE DEF k
  <2> QED BY <2>3, <2>4, <1>o DEF Paging
<1>8. ASSUME NEW c \in Caller, StoreRemaining(c) PROVE PagesInv'
  <2>1. LET k == [call[c] EXCEPT !.rem = 0] IN k \in Call /\ Same(k, call[c])
    BY <1>a, <1>c, Assign, Zenon
  <2>2. call' = [call EXCEPT ![c] = [call[c] EXCEPT !.rem = 0]] /\ Goto(c, "reset") /\ pc[c] = "remaining"
    BY <1>8 DEF StoreRemaining, At
  <2> QED BY <2>1, <2>2, <1>o DEF Paging
<1>9. ASSUME NEW c \in Caller, StoreReset(c) PROVE PagesInv'
  <2>0. pc[c] = "reset"
    BY <1>9, Zenon DEF StoreReset, At
  <2>1. CASE Lose(c)
    BY <2>0, <2>1, <1>b DEF Paging
  <2>2. CASE PageRead(c) /\ ~Lose(c)
    <3>2. /\ ~call[c].broken /\ call[c].page \in Page(c) /\ call[c].pages = 1..(call[c].page - 1)
      BY <2>0, <1>h DEF Paging
    <3>0. PICK k \in Call, l \in {"listed", "wait"} :
                 /\ call' = [call EXCEPT ![c] = k] /\ Goto(c, l)
                 /\ k.pages = call[c].pages \cup {call[c].page} /\ k.broken = call[c].broken
                 /\ l = "listed" => /\ call[c].page = NPages[c] \/ call[c].page + 1 > MaxPages
                                    /\ k.page = call[c].page
                 /\ l = "wait" => /\ call[c].page # NPages[c] /\ call[c].page + 1 <= MaxPages
                                  /\ k.page = call[c].page + 1
      BY <2>2, <1>t, Turned
    <3>1. /\ call' = [call EXCEPT ![c] = k] /\ Goto(c, l)
          /\ k.pages = call[c].pages \cup {call[c].page} /\ k.broken = call[c].broken
          /\ l = "listed" => call[c].page = LastPage(c) /\ k.page = call[c].page
          /\ l = "wait" => call[c].page < LastPage(c) /\ k.page = call[c].page + 1
      <4>1. call[c].page \in Nat /\ NPages[c] \in Nat /\ MaxPages \in Nat
        BY <3>2, <1>t, ClientAssumption DEF Page
      <4>2. /\ call[c].page = NPages[c] \/ call[c].page + 1 > MaxPages => call[c].page = LastPage(c)
            /\ call[c].page # NPages[c] /\ call[c].page + 1 <= MaxPages => call[c].page < LastPage(c)
        BY <4>1, <3>2 DEF Page, LastPage, Smaller
      <4> QED BY <3>0, <4>2
    <3>3. k.pages = 1..call[c].page
      BY <3>1, <3>2, <1>t DEF Page
    <3>4. ~k.broken
      BY <3>1, <3>2
    <3>5. CASE l = "listed"
      <4>1. Stands(l, k, c)
        BY <3>1, <3>3, <3>4, <3>5 DEF Ended, Paging
      <4> QED BY <3>1, <4>1, <1>g
    <3>6. CASE l = "wait"
      <4>1. k.page \in Page(c) /\ k.pages = 1..(k.page - 1)
        BY <3>1, <3>2, <3>3, <3>6, <1>t DEF Page
      <4>2. Stands(l, k, c)
        BY <4>1, <3>4, <3>6
      <4> QED BY <3>1, <4>2, <1>g
    <3> QED BY <3>5, <3>6
  <2>3. CASE \/ /\ call' = [call EXCEPT ![c] = [@ EXCEPT !.timer = RetryAfter, !.kind = "200", !.reset = 0]]
                /\ Goto(c, "after")
             \/ /\ call' = [call EXCEPT ![c] = [@ EXCEPT !.kind = "200", !.reset = 0]]
                /\ Goto(c, "retry")
    <3>1. \A j \in Call : [j EXCEPT !.kind = "200"] \in Call /\ Same([j EXCEPT !.kind = "200"], j)
      BY Assign DEF Kinds
    <3>2. \A j \in Call : [j EXCEPT !.reset = 0] \in Call /\ Same([j EXCEPT !.reset = 0], j)
      BY <1>a, Assign, Zenon
    <3>3. \A j \in Call : [j EXCEPT !.timer = RetryAfter] \in Call /\ Same([j EXCEPT !.timer = RetryAfter], j)
      BY <1>a, Assign, Zenon
    <3> DEFINE j == [call[c] EXCEPT !.timer = RetryAfter, !.kind = "200", !.reset = 0]
               k == [call[c] EXCEPT !.kind = "200", !.reset = 0]
    <3>4. j \in Call /\ Same(j, call[c])
      <4> DEFINE j1 == [call[c] EXCEPT !.timer = RetryAfter]
                 j2 == [j1 EXCEPT !.kind = "200"]
      <4>1. j1 \in Call /\ Same(j1, call[c])
        BY <3>3, <1>c, Zenon
      <4>2. j2 \in Call /\ Same(j2, call[c])
        <5> HIDE DEF j1
        <5> QED BY <4>1, <3>1, Zenon DEF Same
      <4> HIDE DEF j2
      <4>3. [j2 EXCEPT !.reset = 0] \in Call /\ Same([j2 EXCEPT !.reset = 0], call[c])
        BY <4>2, <3>2, Zenon DEF Same
      <4> QED BY <4>3, Zenon DEF j2
    <3>5. k \in Call /\ Same(k, call[c])
      BY <3>1, <3>2, <1>c, Zenon DEF Same
    <3>6. \/ call' = [call EXCEPT ![c] = j] /\ Goto(c, "after")
          \/ call' = [call EXCEPT ![c] = k] /\ Goto(c, "retry")
      BY <2>3, Zenon
    <3> HIDE DEF j, k
    <3> QED BY <2>0, <3>4, <3>5, <3>6, <1>o DEF Paging
  <2> QED BY <1>9, <2>1, <2>2, <2>3, Zenon DEF StoreReset
<1>10. ASSUME NEW c \in Caller, Retry(c) \/ Cancel(c) PROVE PagesInv'
  <2>1. CASE Lose(c)
    <3>1. pc[c] \in Paging
      BY <1>10 DEF Retry, Cancel, At, Paging
    <3> QED BY <2>1, <3>1, <1>b
  <2>2. CASE /\ call[c].tries < MaxRetries /\ pc[c] = "retry"
             /\ call' = [call EXCEPT ![c].tries = @ + 1] /\ Goto(c, "send")
    <3>1. call[c].tries + 1 \in 0..MaxRetries
      BY <2>2, <1>c, <1>a DEF Call
    <3>2. LET k == [call[c] EXCEPT !.tries = call[c].tries + 1] IN k \in Call /\ Same(k, call[c])
      BY <3>1, <1>c, Assign, Zenon
    <3>3. call' = [call EXCEPT ![c] = [call[c] EXCEPT !.tries = call[c].tries + 1]]
      BY <2>2
    <3> QED BY <2>2, <3>2, <3>3, <1>o DEF Paging
  <2> QED BY <1>10, <2>1, <2>2 DEF Retry, Cancel, At
<1> QED
  BY <1>1, <1>2, <1>3, <1>4, <1>5, <1>6, <1>7, <1>8, <1>9, <1>10 DEF Next, Run

\* A listing without an error is the newest pages of its repository without a hole: all
\* of them, or MaxPages, unless a page was lost or answered by 304; for any number of
\* pages, any MaxPages and any callers.
THEOREM ListingIsWholeHolds == Spec => []ListingIsWhole
<1>1. Init => PagesInv
  BY DEF Init, PagesInv, Paging
<1>2. Types /\ PagesInv /\ [Next]_vars => PagesInv'
  <2>1. ASSUME PagesInv, UNCHANGED vars PROVE PagesInv'
    BY <2>1 DEF PagesInv, Page, vars
  <2> QED BY <2>1, PagesStep
<1>3. PagesInv => ListingIsWhole
  <2>1. \A c \in Caller : LastPage(c) \in Nat \ {0} /\ LastPage(c) \in {NPages[c], MaxPages}
    BY ClientAssumption DEF LastPage, Smaller
  <2> DEFINE Newest(c) == \E n \in Page(c) :
                              /\ call[c].pages = 1..n
                              /\ n = NPages[c] \/ n = MaxPages \/ call[c].broken
  <2>2. ASSUME PagesInv, NEW c \in Caller, pc[c] = "listed" PROVE Newest(c)
    <3>1. Ended(call[c], c)
      BY <2>2 DEF PagesInv
    <3>2. CASE call[c].broken
      BY <3>1, <3>2 DEF Ended
    <3>3. CASE ~call[c].broken
      BY <3>1, <3>3, <2>1 DEF Ended, Page
    <3> QED BY <3>2, <3>3
  <2>3. ListingIsWhole <=> \A c \in Caller : pc[c] = "listed" => Newest(c)
    BY DEF ListingIsWhole, At
  <2> HIDE DEF Newest
  <2> QED BY <2>2, <2>3
<1> QED BY TypesHold, <1>1, <1>2, <1>3, PTL DEF Spec

-----------------------------------------------------------------------------
(* What the limiter may believe.  Owing are the requests GitHub will be paid *)
(* for, Held those that found too little left; what remaining exceeds the    *)
(* quota by, with every debt added, is never more than what went uncounted.  *)

Answered(c) == pc[c] \in {"remaining", "reset"}
Repeats(c)  == Answered(c) /\ call[c].kind \in {"429", "5xx"}
Owing  == {c \in Caller : pc[c] \in {"take", "send", "after", "retry"} \/ Repeats(c)}
Held   == {c \in Caller : pc[c] \in {"low", "sleep"}}
Taking == {c \in Caller : At(c, "take")}

under == Cardinality(UnderWay)
owed  == Cardinality(Owing)
held  == Cardinality(Held)
One(p) == IF p THEN 1 ELSE 0

\* A count or a time that a caller holds and will store.
Fits(c) ==
    /\ Repeats(c) => under <= uncounted
    /\ At(c, "remaining") => call[c].rem + owed <= quota + uncounted
    /\ At(c, "take") => call[c].seen + owed <= quota + uncounted + 1
    /\ Answered(c) => call[c].reset >= left \/ Limit + owed + held <= quota + uncounted
    /\ At(c, "sleep") => call[c].timer >= left \/ Limit + owed <= quota + uncounted

Counted ==
    /\ under <= uncounted + 1
    /\ remaining + owed <= quota + uncounted + One(Taking # {})
    /\ remaining + owed <= Limit + uncounted + One(Taking # {})
    /\ Owing # {} => owed + Buffer <= quota + uncounted
    /\ \/ resetIn >= left
       \/ Limit + owed + held <= quota + uncounted + One(UnderWay # {})
    /\ \A c \in Caller : Fits(c)

\* A request nobody joins brings the truth.
Known(c) ==
    /\ UnderWay \subseteq {c}
    /\ call[c].reset >= left \/ quota = Limit
    /\ IF At(c, "remaining") THEN call[c].rem <= quota ELSE remaining <= quota

QuotaInv ==
    /\ uncounted <= Buffer => Counted
    /\ alone => \A c \in UnderWay : UnderWay \subseteq {c}
    /\ \A c \in Caller : alone /\ Answered(c) => Known(c)

-----------------------------------------------------------------------------
LEMMA CardinalityMoves ==
    ASSUME NEW S, NEW T, NEW c, IsFiniteSet(S), IsFiniteSet(T), S \ {c} = T \ {c}
    PROVE  /\ Cardinality(S) \in Nat /\ Cardinality(T) \in Nat
           /\ Cardinality(T) + One(c \in S) = Cardinality(S) + One(c \in T)
<1>1. Cardinality(S) \in Nat /\ Cardinality(T) \in Nat /\ Cardinality(S \ {c}) \in Nat
  BY FS_CardinalityType, FS_RemoveElement
<1>2. Cardinality(S \ {c}) = IF c \in S THEN Cardinality(S) - 1 ELSE Cardinality(S)
  BY FS_RemoveElement
<1>3. Cardinality(T \ {c}) = IF c \in T THEN Cardinality(T) - 1 ELSE Cardinality(T)
  BY FS_RemoveElement
<1>4. Cardinality(S \ {c}) = Cardinality(T \ {c})
  OBVIOUS
<1> QED BY <1>1, <1>2, <1>3, <1>4 DEF One

LEMMA FiniteCallers == \A S \in SUBSET Caller : IsFiniteSet(S) /\ Cardinality(S) \in Nat
BY ClientAssumption, FS_Subset, FS_CardinalityType

\* How the three kinds of requests are related.
LEMMA Sizes ==
    /\ under \in Nat /\ owed \in Nat /\ held \in Nat
    /\ owed + held <= under
    /\ (under = 0 <=> UnderWay = {}) /\ (owed = 0 <=> Owing = {}) /\ (held = 0 <=> Held = {})
    /\ \A c \in Caller : Answered(c) /\ ~Repeats(c) => owed + held + 1 <= under
<1>1. UnderWay \in SUBSET Caller /\ Owing \in SUBSET Caller /\ Held \in SUBSET Caller
  BY DEF UnderWay, Owing, Held
<1>2. /\ IsFiniteSet(UnderWay) /\ IsFiniteSet(Owing) /\ IsFiniteSet(Held)
      /\ under \in Nat /\ owed \in Nat /\ held \in Nat
  BY <1>1, FiniteCallers DEF under, owed, held
<1>3. Owing \cap Held = {} /\ Owing \cup Held \subseteq UnderWay
  BY DEF UnderWay, Owing, Held, Repeats, Answered
<1>4. IsFiniteSet(Owing \cup Held) /\ Cardinality(Owing \cup Held) = owed + held
  <2>1. Cardinality(Owing \cap Held) = 0
    BY <1>3, FS_EmptySet
  <2>2. /\ IsFiniteSet(Owing \cup Held)
        /\ Cardinality(Owing \cup Held) = Cardinality(Owing) + Cardinality(Held) - Cardinality(Owing \cap Held)
    BY <1>2, FS_Union
  <2> QED BY <1>2, <2>1, <2>2 DEF owed, held
<1>5. owed + held <= under
  BY <1>2, <1>3, <1>4, FS_Subset DEF under
<1>6. (under = 0 <=> UnderWay = {}) /\ (owed = 0 <=> Owing = {}) /\ (held = 0 <=> Held = {})
  BY <1>2, FS_EmptySet DEF under, owed, held
<1>7. ASSUME NEW c \in Caller, Answered(c), ~Repeats(c) PROVE owed + held + 1 <= under
  <2>1. c \notin Owing \cup Held /\ c \in UnderWay
    BY <1>7 DEF UnderWay, Owing, Held, Repeats, Answered
  <2>2. IsFiniteSet((Owing \cup Held) \cup {c}) /\ Cardinality((Owing \cup Held) \cup {c}) = owed + held + 1
    BY <1>4, <2>1, FS_AddElement
  <2>3. (Owing \cup Held) \cup {c} \in SUBSET UnderWay
    BY <1>3, <2>1
  <2> QED BY <1>2, <2>2, <2>3, FS_Subset DEF under
<1> QED BY <1>2, <1>5, <1>6, <1>7

\* One caller moves, the others stay.
Moves(c) == \A d \in Caller \ {c} : pc'[d] = pc[d] /\ call'[d] = call[d]

LEMMA SizesMove ==
    ASSUME NEW c \in Caller, Moves(c)
    PROVE  /\ under' \in Nat /\ owed' \in Nat /\ held' \in Nat
           /\ under' + One(c \in UnderWay) = under + One(c \in UnderWay')
           /\ owed'  + One(c \in Owing)    = owed  + One(c \in Owing')
           /\ held'  + One(c \in Held)     = held  + One(c \in Held')
           /\ \A d \in Caller \ {c} : /\ (d \in UnderWay') = (d \in UnderWay)
                                      /\ (d \in Owing') = (d \in Owing)
                                      /\ (d \in Taking') = (d \in Taking)
<1>1. /\ UnderWay \in SUBSET Caller /\ Owing \in SUBSET Caller /\ Held \in SUBSET Caller
      /\ UnderWay' \in SUBSET Caller /\ Owing' \in SUBSET Caller /\ Held' \in SUBSET Caller
  BY DEF UnderWay, Owing, Held
<1>2. /\ UnderWay \ {c} = UnderWay' \ {c}
      /\ Held \ {c} = Held' \ {c}
      /\ \A d \in Caller \ {c} : (d \in Taking') = (d \in Taking)
  BY DEF Moves, UnderWay, Held, Taking, At
<1>3. Owing \ {c} = Owing' \ {c}
  BY DEF Moves, Owing, Repeats, Answered
<1>4. /\ IsFiniteSet(UnderWay) /\ IsFiniteSet(Owing) /\ IsFiniteSet(Held)
      /\ IsFiniteSet(UnderWay') /\ IsFiniteSet(Owing') /\ IsFiniteSet(Held')
  BY <1>1, FiniteCallers
<1>5. /\ under' \in Nat /\ under' + One(c \in UnderWay) = under + One(c \in UnderWay')
  BY <1>2, <1>4, CardinalityMoves DEF under
<1>6. /\ owed' \in Nat /\ owed' + One(c \in Owing) = owed + One(c \in Owing')
  BY <1>3, <1>4, CardinalityMoves DEF owed
<1>7. /\ held' \in Nat /\ held' + One(c \in Held) = held + One(c \in Held')
  BY <1>2, <1>4, CardinalityMoves DEF held
<1> QED BY <1>2, <1>3, <1>5, <1>6, <1>7

\* Whether anybody takes, or owes, depends on the one who moves, or on another.
LEMMA OthersMove ==
    ASSUME NEW c \in Caller, Moves(c)
    PROVE  /\ (c \in Taking => c \in Taking') /\ Taking # {} => Taking' # {}
           /\ Owing' # {} => Owing # {} \/ c \in Owing'
<1>1. Taking \in SUBSET Caller /\ Owing' \in SUBSET Caller
  BY DEF Taking, Owing
<1>2. \A d \in Caller \ {c} : (d \in Owing') = (d \in Owing) /\ (d \in Taking') = (d \in Taking)
  BY SizesMove
<1>3. ASSUME NEW d \in Owing' PROVE Owing # {} \/ c \in Owing'
  BY <1>1, <1>2
<1>4. ASSUME NEW d \in Taking, c \in Taking => c \in Taking' PROVE Taking' # {}
  BY <1>1, <1>2, <1>4
<1> QED BY <1>3, <1>4

LEMMA Numbers ==
    ASSUME Types
    PROVE  /\ quota \in Nat /\ quota <= Limit /\ left \in Nat /\ left >= 1 /\ left <= Period
           /\ remaining \in Nat /\ remaining <= Limit /\ limit \in Nat /\ limit <= Limit
           /\ resetIn \in Int /\ uncounted \in Nat /\ uncounted <= Buffer + 1
           /\ Limit \in Nat /\ Buffer \in Nat /\ Buffer < Limit
           /\ Period \in Nat /\ Period >= 1 /\ Margin \in Nat /\ Margin >= 1
           /\ \A c \in Caller : /\ call[c].rem \in Nat /\ call[c].rem <= Limit
                                /\ call[c].seen \in Nat /\ call[c].seen <= Limit
                                /\ call[c].reset \in Int /\ call[c].timer \in Nat
<1>1. /\ quota \in 0..Limit /\ left \in 1..Period /\ remaining \in 0..Limit /\ limit \in 0..Limit
      /\ resetIn \in Times /\ uncounted \in 0..(Buffer + 1) /\ call \in [Caller -> Call]
  BY DEF Types, TypeOK
<1>2. Limit \in Nat /\ Buffer \in 0..(Limit - 1) /\ Period \in Nat \ {0} /\ Margin \in Nat \ {0}
  BY ClientAssumption
<1>3. \A c \in Caller : /\ call[c].rem \in 0..Limit /\ call[c].seen \in 0..Limit
                        /\ call[c].reset \in Times /\ call[c].timer \in Nat
  BY <1>1 DEF Call
<1> QED BY <1>1, <1>2, <1>3 DEF Times

\* A step of one caller in which no more goes missing than is counted: what the others
\* hold still fits.
LEMMA Kept ==
    ASSUME Types, Types', Counted, NEW c \in Caller, Moves(c),
           UNCHANGED left,
           under' + uncounted <= under + uncounted',
           owed' + quota + uncounted <= owed + quota' + uncounted',
           owed' + uncounted <= owed + uncounted',
           owed' + held' + quota + uncounted <= owed + held + quota' + uncounted'
    PROVE  /\ under' <= uncounted' + 1
           /\ Owing # {} => owed' + Buffer <= quota' + uncounted'
           /\ UNCHANGED remaining /\ (Taking # {} => Taking' # {})
                => /\ remaining' + owed' <= quota' + uncounted' + One(Taking' # {})
                   /\ remaining' + owed' <= Limit + uncounted' + One(Taking' # {})
           /\ UNCHANGED resetIn /\ (UnderWay # {} => UnderWay' # {})
                => \/ resetIn' >= left'
                   \/ Limit + owed' + held' <= quota' + uncounted' + One(UnderWay' # {})
           /\ \A d \in Caller \ {c} : Fits(d)'
<1> USE DEF under, owed, held
<1>n. /\ quota \in Nat /\ remaining \in Nat /\ uncounted \in Nat /\ Limit \in Nat /\ Buffer \in Nat
      /\ left \in Nat /\ resetIn \in Int
  BY Numbers, Zenon
<1>m. quota' \in Nat /\ uncounted' \in Nat
  <2>1. quota' \in 0..Limit /\ uncounted' \in 0..(Buffer + 1)
    BY DEF Types, TypeOK
  <2> QED BY <2>1, ClientAssumption
<1>s. /\ under \in Nat /\ owed \in Nat /\ held \in Nat
      /\ under' \in Nat /\ owed' \in Nat /\ held' \in Nat
  BY Sizes, SizesMove
<1>c. /\ under <= uncounted + 1
      /\ remaining + owed <= quota + uncounted + One(Taking # {})
      /\ remaining + owed <= Limit + uncounted + One(Taking # {})
      /\ Owing # {} => owed + Buffer <= quota + uncounted
      /\ \/ resetIn >= left
         \/ Limit + owed + held <= quota + uncounted + One(UnderWay # {})
  BY DEF Counted
<1>1. under' <= uncounted' + 1
  BY <1>n, <1>m, <1>s, <1>c
<1>2. Owing # {} => owed' + Buffer <= quota' + uncounted'
  BY <1>n, <1>m, <1>s, <1>c
<1>3. ASSUME UNCHANGED remaining, Taking # {} => Taking' # {}
      PROVE  /\ remaining' + owed' <= quota' + uncounted' + One(Taking' # {})
             /\ remaining' + owed' <= Limit + uncounted' + One(Taking' # {})
  <2>1. One(Taking # {}) \in Nat /\ One(Taking' # {}) \in Nat /\ One(Taking # {}) <= One(Taking' # {})
    BY <1>3 DEF One
  <2> QED BY <1>3, <1>n, <1>m, <1>s, <1>c, <2>1
<1>4. ASSUME UNCHANGED resetIn, UnderWay # {} => UnderWay' # {}
      PROVE  \/ resetIn' >= left'
             \/ Limit + owed' + held' <= quota' + uncounted' + One(UnderWay' # {})
  <2>1. One(UnderWay # {}) \in Nat /\ One(UnderWay' # {}) \in Nat /\ One(UnderWay # {}) <= One(UnderWay' # {})
    BY <1>4 DEF One
  <2> QED BY <1>4, <1>n, <1>m, <1>s, <1>c, <2>1
<1>5. ASSUME NEW d \in Caller \ {c} PROVE Fits(d)'
  <2>1. UNCHANGED <<pc[d], call[d]>>
    BY DEF Moves
  <2>2. Fits(d)
    BY DEF Counted
  <2>3. /\ call[d].rem \in Nat /\ call[d].seen \in Nat /\ call[d].reset \in Int /\ call[d].timer \in Nat
    BY Numbers
  <2>4. /\ Answered(d)' = Answered(d) /\ Repeats(d)' = Repeats(d)
        /\ At(d, "remaining")' = At(d, "remaining") /\ At(d, "take")' = At(d, "take")
        /\ At(d, "sleep")' = At(d, "sleep")
    BY <2>1, Zenon DEF Answered, Repeats, At
  <2>5. /\ call'[d].rem = call[d].rem /\ call'[d].seen = call[d].seen
        /\ call'[d].reset = call[d].reset /\ call'[d].timer = call[d].timer
    BY <2>1
  <2> HIDE DEF Answered, Repeats, At
  <2>6. Repeats(d)' => under' <= uncounted'
    BY <2>2, <2>4, <1>n, <1>m, <1>s DEF Fits
  <2>7. At(d, "remaining")' => call'[d].rem + owed' <= quota' + uncounted'
    BY <2>2, <2>3, <2>4, <2>5, <1>n, <1>m, <1>s DEF Fits
  <2>8. At(d, "take")' => call'[d].seen + owed' <= quota' + uncounted' + 1
    BY <2>2, <2>3, <2>4, <2>5, <1>n, <1>m, <1>s DEF Fits
  <2>9. Answered(d)' => call'[d].reset >= left' \/ Limit + owed' + held' <= quota' + uncounted'
    BY <2>2, <2>3, <2>4, <2>5, <1>n, <1>m, <1>s DEF Fits
  <2>10. At(d, "sleep")' => call'[d].timer >= left' \/ Limit + owed' <= quota' + uncounted'
    BY <2>2, <2>3, <2>4, <2>5, <1>n, <1>m, <1>s DEF Fits
  <2> QED BY <2>6, <2>7, <2>8, <2>9, <2>10 DEF Fits
<1> QED BY <1>1, <1>2, <1>3, <1>4, <1>5

LEMMA CountUp ==
    ASSUME Types, NEW missed \in BOOLEAN, Count(missed), uncounted' <= Buffer
    PROVE  uncounted' = uncounted + One(missed) /\ uncounted <= Buffer
<1>1. uncounted \in Nat /\ uncounted <= Buffer + 1 /\ Buffer \in Nat
  BY Numbers, Zenon
<1> QED BY <1>1 DEF Count, Smaller, One

Out == {"idle", "wait", "listed", "failed"}

\* A caller that begins or ends, goes on to its next try, or gives up.
LEMMA QuietStep ==
    ASSUME Types, Types', Counted, NEW c \in Caller, Moves(c),
           UNCHANGED <<server, limiter, history>>,
           \/ pc[c] \in Out /\ pc'[c] \in Out
           \/ pc[c] \in {"send", "after", "retry"} /\ pc'[c] \in {"send", "retry", "listed", "failed"}
           \/ pc[c] = "sleep" /\ pc'[c] \in {"listed", "failed"}
    PROVE  Counted'
<1> USE DEF under, owed, held
<1>u. UNCHANGED <<quota, left, remaining, limit, resetIn, uncounted, alone>>
  BY DEF server, limiter, history
<1>n. /\ quota \in Nat /\ remaining \in Nat /\ uncounted \in Nat /\ Limit \in Nat /\ Buffer \in Nat
      /\ left \in Nat /\ resetIn \in Int
  BY Numbers, Zenon
<1>s. /\ under \in Nat /\ owed \in Nat /\ held \in Nat
      /\ under' \in Nat /\ owed' \in Nat /\ held' \in Nat
      /\ under' + One(c \in UnderWay) = under + One(c \in UnderWay')
      /\ owed'  + One(c \in Owing)    = owed  + One(c \in Owing')
      /\ held'  + One(c \in Held)     = held  + One(c \in Held')
  BY Sizes, SizesMove
<1>p. /\ (c \in UnderWay) = (pc[c] \notin Out) /\ (c \in UnderWay') = (pc'[c] \notin Out)
      /\ (c \in Owing) = (pc[c] \in {"send", "after", "retry"}) /\ (c \in Owing') = (pc'[c] \in {"send", "retry"})
      /\ (c \in Held) = (pc[c] = "sleep") /\ c \notin Held'
      /\ c \notin Taking /\ c \notin Taking'
      /\ ~Answered(c)' /\ ~Repeats(c)' /\ ~At(c, "take")' /\ ~At(c, "sleep")' /\ ~At(c, "remaining")'
  BY DEF UnderWay, Owing, Held, Taking, At, Out, Repeats, Answered
<1>1. /\ under' <= under /\ owed' <= owed /\ owed' + held' <= owed + held
      /\ c \in UnderWay /\ c \notin UnderWay' => owed' + held' + 1 <= owed + held
      /\ c \in Owing' => c \in Owing
  BY <1>s, <1>p DEF One, Out
<1>2. /\ Taking # {} => Taking' # {}
      /\ \A d \in Caller \ {c} : (d \in UnderWay') = (d \in UnderWay)
  BY <1>p, OthersMove, SizesMove, Zenon
<1>3. /\ under' <= uncounted' + 1
      /\ Owing # {} => owed' + Buffer <= quota' + uncounted'
      /\ remaining' + owed' <= quota' + uncounted' + One(Taking' # {})
      /\ remaining' + owed' <= Limit + uncounted' + One(Taking' # {})
      /\ (UnderWay # {} => UnderWay' # {})
           => \/ resetIn' >= left'
              \/ Limit + owed' + held' <= quota' + uncounted' + One(UnderWay' # {})
      /\ \A d \in Caller \ {c} : Fits(d)'
  BY <1>u, <1>n, <1>s, <1>1, <1>2, Kept
<1>4. Owing' # {} => owed' + Buffer <= quota' + uncounted'
  <2>1. Owing' # {} => Owing # {}
    BY <1>1, OthersMove, Zenon
  <2> QED BY <2>1, <1>3
<1>5. \/ resetIn' >= left'
      \/ Limit + owed' + held' <= quota' + uncounted' + One(UnderWay' # {})
  <2>1. CASE UnderWay # {} => UnderWay' # {}
    BY <2>1, <1>3
  <2>2. CASE UnderWay # {} /\ UnderWay' = {}
    <3>1. c \in UnderWay /\ c \notin UnderWay'
      BY <2>2, <1>2 DEF UnderWay
    <3>2. \/ resetIn >= left
          \/ Limit + owed + held <= quota + uncounted + 1
      BY <2>2 DEF Counted, One
    <3> QED BY <3>1, <3>2, <1>1, <1>u, <1>n, <1>s DEF One
  <2> QED BY <2>1, <2>2
<1>6. Fits(c)'
  BY <1>p DEF Fits
<1> QED BY <1>3, <1>4, <1>5, <1>6 DEF Counted

\* The caller's own part of a step.
LEMMA Goes ==
    ASSUME Types, NEW c \in Caller, NEW l, NEW k, Goto(c, l), call' = [call EXCEPT ![c] = k]
    PROVE  Moves(c) /\ pc'[c] = l /\ call'[c] = k
BY DEF Types, TypeOK, Goto, Moves

LEMMA LoadStep ==
    ASSUME Types, Types', QuotaInv, NEW c \in Caller, Load(c), uncounted' <= Buffer
    PROVE  Counted'
<1> USE DEF under, owed, held
<1>l. /\ pc[c] = "wait"
      /\ Moves(c) /\ pc'[c] = (IF remaining > Buffer THEN "take" ELSE "low")
      /\ call'[c] = [call[c] EXCEPT !.seen = IF remaining > Buffer THEN remaining ELSE 0]
      /\ UNCHANGED <<quota, left, remaining, limit, resetIn>> /\ Count(UnderWay # {})
  BY Goes, Zenon DEF Load, At, server, limiter
<1>n. /\ quota \in Nat /\ remaining \in Nat /\ uncounted \in Nat /\ Limit \in Nat /\ Buffer \in Nat
      /\ left \in Nat /\ resetIn \in Int
  BY Numbers, Zenon
<1>b. uncounted' = uncounted + One(UnderWay # {}) /\ uncounted <= Buffer
  BY <1>l, CountUp
<1>c. Counted
  BY <1>b DEF QuotaInv
<1>s. /\ under \in Nat /\ owed \in Nat /\ held \in Nat
      /\ under' \in Nat /\ owed' \in Nat /\ held' \in Nat
      /\ under' + One(c \in UnderWay) = under + One(c \in UnderWay')
      /\ owed'  + One(c \in Owing)    = owed  + One(c \in Owing')
      /\ held'  + One(c \in Held)     = held  + One(c \in Held')
  BY <1>l, Sizes, SizesMove
<1>p. /\ c \notin UnderWay /\ c \in UnderWay'
      /\ c \notin Owing /\ (c \in Owing') = (remaining > Buffer)
      /\ c \notin Held /\ (c \in Held') = ~(remaining > Buffer)
      /\ c \notin Taking /\ (c \in Taking') = (remaining > Buffer)
      /\ ~Answered(c)' /\ ~Repeats(c)' /\ ~At(c, "sleep")' /\ ~At(c, "remaining")'
      /\ At(c, "take")' = (remaining > Buffer)
  BY <1>l DEF UnderWay, Owing, Held, Taking, At, Repeats, Answered
<1>q. /\ under' = under + 1
      /\ owed' = owed + One(remaining > Buffer) /\ owed' + held' = owed + held + 1
      /\ Taking # {} => Taking' # {}
      /\ remaining > Buffer => Taking' # {}
      /\ UnderWay' # {}
      /\ Owing' # {} => Owing # {} \/ remaining > Buffer
      /\ remaining > Buffer => call'[c].seen = remaining
  <2>1. /\ Taking # {} => Taking' # {}
        /\ Owing' # {} => Owing # {} \/ remaining > Buffer
    BY <1>l, <1>p, OthersMove, Zenon
  <2>2. remaining > Buffer => call'[c].seen = remaining
    BY <1>l DEF Types, TypeOK, Call
  <2> QED BY <1>p, <1>s, <2>1, <2>2 DEF One
<1>o. /\ remaining + owed <= quota + uncounted + One(Taking # {})
      /\ remaining + owed <= Limit + uncounted + One(Taking # {})
      /\ \/ resetIn >= left
         \/ Limit + owed + held <= quota + uncounted + One(UnderWay # {})
  BY <1>c DEF Counted
<1>f. ASSUME remaining > Buffer => remaining + owed' <= quota + uncounted' + 1 PROVE Fits(c)'
  <2>1. remaining > Buffer => call'[c].seen + owed' <= quota' + uncounted' + 1
    BY <1>f, <1>q, <1>l
  <2> QED BY <1>p, <2>1, Zenon DEF Fits
\* The first request under way owes what its own Take will count ...
<1>1. CASE UnderWay = {}
  <2>1. uncounted' = uncounted
    BY <1>1, <1>b, <1>n DEF One
  <2>2. under = 0 /\ owed = 0 /\ held = 0 /\ Taking = {}
    <3>1. Taking \subseteq UnderWay
      BY DEF Taking, At, UnderWay
    <3> QED BY <1>1, <3>1, <1>s, Sizes
  <2>3. remaining <= quota + uncounted /\ remaining <= Limit + uncounted
        /\ (resetIn >= left \/ Limit <= quota + uncounted)
    BY <1>o, <1>1, <2>2, <1>n DEF One
  <2>4. \A d \in Caller \ {c} : Fits(d)'
    <3>1. \A d \in Caller \ {c} : d \notin UnderWay'
      BY <1>l, <1>1, SizesMove
    <3> QED BY <3>1 DEF Fits, UnderWay, Answered, Repeats, At
  <2>5. Fits(c)'
    <3>1. remaining > Buffer => remaining + owed' <= quota + uncounted' + 1
      BY <2>1, <2>2, <2>3, <1>q, <1>n DEF One
    <3> QED BY <3>1, <1>f
  <2>6. /\ under' <= uncounted' + 1
        /\ remaining' + owed' <= quota' + uncounted' + One(Taking' # {})
        /\ remaining' + owed' <= Limit + uncounted' + One(Taking' # {})
    BY <1>l, <1>n, <1>q, <1>s, <2>1, <2>2, <2>3 DEF One
  <2>7. Owing' # {} => owed' + Buffer <= quota' + uncounted'
    <3>1. Owing' # {} => remaining > Buffer
      <4>1. Owing = {}
        BY <2>2, Sizes
      <4> QED BY <4>1, <1>q
    <3> QED BY <3>1, <1>l, <1>n, <1>q, <1>s, <2>1, <2>2, <2>3 DEF One
  <2>8. \/ resetIn' >= left'
        \/ Limit + owed' + held' <= quota' + uncounted' + One(UnderWay' # {})
    BY <1>l, <1>n, <1>q, <1>s, <2>1, <2>2, <2>3 DEF One
  <2> QED BY <2>4, <2>5, <2>6, <2>7, <2>8 DEF Counted
\* ... and one that joins others may lose its decrement: it is counted here.
<1>2. CASE UnderWay # {}
  <2>1. uncounted' = uncounted + 1
    BY <1>2, <1>b, <1>n DEF One
  <2>2. One(remaining > Buffer) \in {0, 1} /\ One(Taking # {}) \in {0, 1}
        /\ (remaining > Buffer => One(remaining > Buffer) = 1)
    BY DEF One
  <2>3. /\ under' + uncounted <= under + uncounted'
        /\ owed' + quota + uncounted <= owed + quota' + uncounted'
        /\ owed' + uncounted <= owed + uncounted'
        /\ owed' + held' + quota + uncounted <= owed + held + quota' + uncounted'
    BY <1>l, <1>n, <1>q, <1>s, <2>1, <2>2
  <2>4. /\ under' <= uncounted' + 1
        /\ Owing # {} => owed' + Buffer <= quota' + uncounted'
        /\ remaining' + owed' <= quota' + uncounted' + One(Taking' # {})
        /\ remaining' + owed' <= Limit + uncounted' + One(Taking' # {})
        /\ \/ resetIn' >= left'
           \/ Limit + owed' + held' <= quota' + uncounted' + One(UnderWay' # {})
        /\ \A d \in Caller \ {c} : Fits(d)'
    BY <1>c, <1>l, <1>q, <2>3, Kept
  <2>5. Owing' # {} => owed' + Buffer <= quota' + uncounted'
    <3>1. remaining > Buffer => owed' + Buffer <= quota' + uncounted'
      BY <1>l, <1>n, <1>o, <1>q, <1>s, <2>1, <2>2
    <3> QED BY <3>1, <2>4, <1>q
  <2>6. Fits(c)'
    <3>1. remaining > Buffer => remaining + owed' <= quota + uncounted' + 1
      BY <1>n, <1>o, <1>q, <1>s, <2>1, <2>2
    <3> QED BY <3>1, <1>f
  <2> QED BY <2>4, <2>5, <2>6 DEF Counted
<1> QED BY <1>1, <1>2

LEMMA TakeStep ==
    ASSUME Types, Types', Counted, NEW c \in Caller, Take(c)
    PROVE  Counted'
<1> USE DEF under, owed, held
<1>l. /\ pc[c] = "take" /\ Moves(c) /\ pc'[c] = "send"
      /\ remaining' = call[c].seen - 1 /\ UNCHANGED <<quota, left, limit, resetIn, uncounted>>
  BY Goes, Zenon DEF Take, At, server, limiter, history
<1>n. /\ quota \in Nat /\ quota <= Limit /\ remaining \in Nat /\ uncounted \in Nat /\ Limit \in Nat /\ Buffer \in Nat
      /\ left \in Nat /\ resetIn \in Int /\ call[c].seen \in Nat
  BY Numbers, Zenon
<1>s. /\ under \in Nat /\ owed \in Nat /\ held \in Nat
      /\ under' \in Nat /\ owed' \in Nat /\ held' \in Nat
      /\ under' + One(c \in UnderWay) = under + One(c \in UnderWay')
      /\ owed'  + One(c \in Owing)    = owed  + One(c \in Owing')
      /\ held'  + One(c \in Held)     = held  + One(c \in Held')
  BY <1>l, Sizes, SizesMove
<1>p. /\ c \in UnderWay /\ c \in UnderWay' /\ c \in Owing /\ c \in Owing' /\ c \notin Held /\ c \notin Held'
      /\ ~Answered(c)' /\ ~Repeats(c)' /\ ~At(c, "take")' /\ ~At(c, "sleep")' /\ ~At(c, "remaining")'
  BY <1>l DEF UnderWay, Owing, Held, At, Repeats, Answered
<1>1. under' = under /\ owed' = owed /\ held' = held
  BY <1>s, <1>p DEF One
<1>2. /\ under' <= uncounted' + 1
      /\ owed' + Buffer <= quota' + uncounted'
      /\ \/ resetIn' >= left'
         \/ Limit + owed' + held' <= quota' + uncounted' + One(UnderWay' # {})
      /\ \A d \in Caller \ {c} : Fits(d)'
  <2>1. Owing # {} /\ UnderWay' # {}
    BY <1>p
  <2> QED BY <1>l, <1>n, <1>s, <1>1, <2>1, Kept
<1>3. /\ remaining' + owed' <= quota' + uncounted' + One(Taking' # {})
      /\ remaining' + owed' <= Limit + uncounted' + One(Taking' # {})
  <2>1. call[c].seen + owed <= quota + uncounted + 1
    BY <1>l DEF Counted, Fits, At
  <2>2. One(Taking' # {}) \in Nat
    BY DEF One
  <2> QED BY <1>l, <1>n, <1>s, <1>1, <2>1, <2>2
<1>4. Fits(c)'
  BY <1>p DEF Fits
<1> QED BY <1>2, <1>3, <1>4 DEF Counted

\* A count begun anew: the window the limiter knows of is over, and of the next no more
\* is used up than was counted.
LEMMA AnewStep ==
    ASSUME Types, Types', Counted, NEW c \in Caller, Moves(c), pc[c] \in {"low", "sleep"}, pc'[c] = "wait",
           remaining' = limit, UNCHANGED <<quota, left, limit, resetIn, uncounted>>,
           Limit + owed <= quota + uncounted
    PROVE  Counted'
<1> USE DEF under, owed, held
<1>n. /\ quota \in Nat /\ quota <= Limit /\ remaining \in Nat /\ uncounted \in Nat /\ Limit \in Nat /\ Buffer \in Nat
      /\ left \in Nat /\ resetIn \in Int /\ limit \in Nat /\ limit <= Limit
  BY Numbers, Zenon
<1>s. /\ under \in Nat /\ owed \in Nat /\ held \in Nat
      /\ under' \in Nat /\ owed' \in Nat /\ held' \in Nat
      /\ under' + One(c \in UnderWay) = under + One(c \in UnderWay')
      /\ owed'  + One(c \in Owing)    = owed  + One(c \in Owing')
      /\ held'  + One(c \in Held)     = held  + One(c \in Held')
      /\ owed + held <= under
  BY Sizes, SizesMove
<1>p. /\ c \in UnderWay /\ c \notin UnderWay' /\ c \notin Owing /\ c \notin Owing' /\ c \in Held /\ c \notin Held'
      /\ ~Answered(c)' /\ ~Repeats(c)' /\ ~At(c, "take")' /\ ~At(c, "sleep")' /\ ~At(c, "remaining")'
  BY DEF UnderWay, Owing, Held, At, Repeats, Answered
<1>1. under' = under - 1 /\ owed' = owed /\ held' = held - 1
  BY <1>s, <1>p DEF One
<1>2. Owing' # {} => Owing # {}
  BY <1>p, OthersMove, Zenon
<1>3. /\ under' <= uncounted' + 1
      /\ Owing # {} => owed' + Buffer <= quota' + uncounted'
      /\ \A d \in Caller \ {c} : Fits(d)'
  BY <1>n, <1>s, <1>1, Kept
<1>4. /\ under <= uncounted + 1
      /\ \/ resetIn >= left
         \/ Limit + owed + held <= quota + uncounted + One(UnderWay # {})
  BY DEF Counted
<1>5. /\ remaining' + owed' <= quota' + uncounted' + One(Taking' # {})
      /\ remaining' + owed' <= Limit + uncounted' + One(Taking' # {})
  <2>1. One(Taking' # {}) \in Nat
    BY DEF One
  <2>2. limit + owed <= Limit + uncounted
    BY <1>n, <1>s, <1>1, <1>4
  <2>3. limit + owed <= quota + uncounted
    BY <1>n, <1>s
  <2> QED BY <1>n, <1>s, <1>1, <2>1, <2>2, <2>3
<1>6. \/ resetIn' >= left'
      \/ Limit + owed' + held' <= quota' + uncounted' + One(UnderWay' # {})
  <2>1. One(UnderWay # {}) <= 1 /\ One(UnderWay # {}) \in Nat /\ One(UnderWay' # {}) \in Nat
    BY DEF One
  <2> QED BY <1>n, <1>s, <1>1, <1>4, <2>1
<1>7. Fits(c)'
  BY <1>p DEF Fits
<1> QED BY <1>2, <1>3, <1>5, <1>6, <1>7 DEF Counted

LEMMA ReadResetStep ==
    ASSUME Types, Types', Counted, NEW c \in Caller, ReadReset(c)
    PROVE  Counted'
<1> USE DEF under, owed, held
<1>l. pc[c] = "low" /\ UNCHANGED <<quota, left, limit, resetIn, uncounted>>
  BY DEF ReadReset, At, server, limiter, history
<1>n. /\ quota \in Nat /\ remaining \in Nat /\ uncounted \in Nat /\ Limit \in Nat /\ Buffer \in Nat
      /\ left \in Nat /\ left >= 1 /\ resetIn \in Int /\ Margin \in Nat
  BY Numbers, Zenon
<1>p. c \in UnderWay /\ c \in Held /\ c \notin Owing /\ c \notin Taking
  BY <1>l DEF UnderWay, Held, Owing, Taking, At, Repeats, Answered
<1>1. resetIn >= left \/ Limit + owed <= quota + uncounted
  <2>1. /\ \/ resetIn >= left
           \/ Limit + owed + held <= quota + uncounted + One(UnderWay # {})
        /\ under \in Nat /\ owed \in Nat /\ held \in Nat /\ held # 0
    BY <1>p, Sizes DEF Counted
  <2>2. One(UnderWay # {}) = 1
    BY <1>p DEF One
  <2> QED BY <1>n, <2>1, <2>2
<1>2. CASE resetIn + Margin <= 0
  <2>1. remaining' = limit /\ Moves(c) /\ pc'[c] = "wait"
    <3>1. remaining' = limit /\ Goto(c, "wait") /\ UNCHANGED call
      BY <1>2 DEF ReadReset
    <3> QED BY <3>1 DEF Moves, Goto, Types, TypeOK
  <2>2. Limit + owed <= quota + uncounted
    BY <1>1, <1>2, <1>n
  <2> QED BY <1>l, <2>1, <2>2, AnewStep
<1>3. CASE ~(resetIn + Margin <= 0)
  <2>1. Moves(c) /\ pc'[c] = "sleep" /\ call'[c] = [call[c] EXCEPT !.timer = resetIn + Margin] /\ UNCHANGED remaining
    <3>1. /\ call' = [call EXCEPT ![c] = [call[c] EXCEPT !.timer = resetIn + Margin]]
          /\ Goto(c, "sleep") /\ UNCHANGED remaining
      BY <1>3 DEF ReadReset
    <3> QED BY <3>1, Goes
  <2>2. /\ under \in Nat /\ owed \in Nat /\ held \in Nat
        /\ under' \in Nat /\ owed' \in Nat /\ held' \in Nat
        /\ under' + One(c \in UnderWay) = under + One(c \in UnderWay')
        /\ owed'  + One(c \in Owing)    = owed  + One(c \in Owing')
        /\ held'  + One(c \in Held)     = held  + One(c \in Held')
    BY <2>1, Sizes, SizesMove
  <2>3. /\ c \in UnderWay' /\ c \in Held' /\ c \notin Owing' /\ c \notin Taking'
        /\ ~Answered(c)' /\ ~Repeats(c)' /\ ~At(c, "take")' /\ ~At(c, "remaining")'
    BY <2>1 DEF UnderWay, Owing, Held, Taking, At, Repeats, Answered
  <2>4. under' = under /\ owed' = owed /\ held' = held
    BY <1>p, <2>2, <2>3 DEF One
  <2>5. (Taking # {} => Taking' # {}) /\ UnderWay' # {} /\ (Owing' # {} => Owing # {})
    BY <1>p, <2>1, <2>3, OthersMove, Zenon
  <2>6. /\ under' <= uncounted' + 1
        /\ Owing # {} => owed' + Buffer <= quota' + uncounted'
        /\ remaining' + owed' <= quota' + uncounted' + One(Taking' # {})
        /\ remaining' + owed' <= Limit + uncounted' + One(Taking' # {})
        /\ \/ resetIn' >= left'
           \/ Limit + owed' + held' <= quota' + uncounted' + One(UnderWay' # {})
        /\ \A d \in Caller \ {c} : Fits(d)'
    BY <1>l, <1>n, <2>1, <2>2, <2>4, <2>5, Kept
  <2>7. Fits(c)'
    <3>1. call'[c].timer = resetIn + Margin
      BY <2>1 DEF Types, TypeOK, Call
    <3>2. call'[c].timer >= left' \/ Limit + owed' <= quota' + uncounted'
      BY <1>1, <1>l, <1>n, <2>2, <2>4, <3>1
    <3> QED BY <2>3, <3>2 DEF Fits
  <2> QED BY <2>5, <2>6, <2>7 DEF Counted
<1> QED BY <1>2, <1>3

LEMMA WakeStep ==
    ASSUME Types, Types', Counted, NEW c \in Caller, Wake(c)
    PROVE  Counted'
<1> USE DEF under, owed, held
<1>1. /\ pc[c] = "sleep" /\ Moves(c) /\ pc'[c] = "wait" /\ call[c].timer = 0
      /\ remaining' = limit /\ UNCHANGED <<quota, left, limit, resetIn, uncounted>>
  BY DEF Wake, At, server, limiter, history, Goto, Moves, Types, TypeOK
<1>2. Limit + owed <= quota + uncounted
  <2>1. call[c].timer >= left \/ Limit + owed <= quota + uncounted
    BY <1>1 DEF Counted, Fits, At
  <2>2. left >= 1 /\ left \in Nat
    BY Numbers
  <2> QED BY <1>1, <2>1, <2>2
<1> QED BY <1>1, <1>2, AnewStep

\* What GitHub is paid for, it was owed, or it is counted; and what it says is so.
LEMMA AnswerStep ==
    ASSUME Types, Types', Counted, NEW c \in Caller, NEW kind \in Kinds, Respond(c, kind), quota > 0,
           UNCHANGED uncounted \/ uncounted' = uncounted + 1,
           kind \in {"429", "5xx"} => uncounted' = uncounted + 1
    PROVE  Counted'
<1> USE DEF under, owed, held
<1>l. /\ pc[c] = "send" /\ Moves(c) /\ pc'[c] = "remaining"
      /\ call'[c] = [call[c] EXCEPT !.kind = kind, !.rem = quota', !.reset = left]
      /\ UNCHANGED <<left, remaining, resetIn>>
      /\ quota' = IF kind = "304" THEN quota ELSE Larger(quota - 1, 0)
  BY Goes, Zenon DEF Respond, At, limiter
<1>n. /\ quota \in Nat /\ remaining \in Nat /\ uncounted \in Nat /\ Limit \in Nat /\ Buffer \in Nat
      /\ left \in Nat /\ resetIn \in Int
  BY Numbers, Zenon
<1>v. /\ quota' \in Nat /\ uncounted' \in Nat
      /\ quota' = quota \/ quota' = quota - 1
      /\ uncounted' = uncounted \/ uncounted' = uncounted + 1
  BY <1>l, <1>n DEF Larger
<1>k. call'[c].kind = kind /\ call'[c].rem = quota' /\ call'[c].reset = left
  BY <1>l DEF Types, TypeOK, Call
<1>s. /\ under \in Nat /\ owed \in Nat /\ held \in Nat /\ owed + held <= under
      /\ under' \in Nat /\ owed' \in Nat /\ held' \in Nat
      /\ under' + One(c \in UnderWay) = under + One(c \in UnderWay')
      /\ owed'  + One(c \in Owing)    = owed  + One(c \in Owing')
      /\ held'  + One(c \in Held)     = held  + One(c \in Held')
  BY <1>l, Sizes, SizesMove
<1>r. Repeats(c)' <=> kind \in {"429", "5xx"}
  BY <1>l, <1>k DEF Repeats, Answered
<1>p. /\ c \in UnderWay /\ c \in UnderWay' /\ c \in Owing /\ c \notin Held /\ c \notin Held'
      /\ c \notin Taking /\ c \notin Taking'
      /\ c \in Owing' <=> kind \in {"429", "5xx"}
      /\ ~At(c, "take")' /\ ~At(c, "sleep")'
  BY <1>l, <1>r DEF UnderWay, Owing, Held, Taking, At
<1>1. /\ under' = under /\ held' = held
      /\ kind \in {"429", "5xx"} => owed' = owed
      /\ kind \notin {"429", "5xx"} => owed' = owed - 1
  BY <1>s, <1>p DEF One
<1>2. (Taking # {} => Taking' # {}) /\ UnderWay' # {} /\ (Owing' # {} => Owing # {})
  BY <1>l, <1>p, OthersMove, Zenon
<1>3. /\ under' + uncounted <= under + uncounted'
      /\ owed' + quota + uncounted <= owed + quota' + uncounted'
      /\ owed' + uncounted <= owed + uncounted'
      /\ owed' + held' + quota + uncounted <= owed + held + quota' + uncounted'
  <2>1. \/ owed' = owed /\ uncounted' = uncounted + 1
        \/ owed' = owed - 1
    BY <1>1
  <2> QED BY <1>n, <1>v, <1>s, <1>1, <2>1
<1>4. /\ under' <= uncounted' + 1
      /\ Owing # {} => owed' + Buffer <= quota' + uncounted'
      /\ remaining' + owed' <= quota' + uncounted' + One(Taking' # {})
      /\ remaining' + owed' <= Limit + uncounted' + One(Taking' # {})
      /\ \/ resetIn' >= left'
         \/ Limit + owed' + held' <= quota' + uncounted' + One(UnderWay' # {})
      /\ \A d \in Caller \ {c} : Fits(d)'
  BY <1>l, <1>2, <1>3, Kept
<1>5. Fits(c)'
  <2>1. under <= uncounted + 1
    BY DEF Counted
  <2>2. Repeats(c)' => under' <= uncounted'
    BY <1>n, <1>v, <1>s, <1>r, <1>1, <2>1
  <2>3. owed' <= uncounted'
    BY <1>n, <1>v, <1>s, <1>1, <2>1
  <2>4. call'[c].rem + owed' <= quota' + uncounted'
    BY <1>v, <1>s, <1>k, <2>3
  <2>5. call'[c].reset >= left'
    BY <1>l, <1>n, <1>k
  <2> QED BY <1>p, <2>2, <2>4, <2>5 DEF Fits
<1> QED BY <1>2, <1>4, <1>5 DEF Counted

\* While the count is not further off than Buffer, there is quota for every request sent.
LEMMA Granted ==
    ASSUME Types, Counted, uncounted <= Buffer, NEW c \in Caller, pc[c] = "send"
    PROVE  quota > 0
<1> USE DEF owed
<1>1. Owing # {}
  BY DEF Owing
<1>2. owed + Buffer <= quota + uncounted /\ owed \in Nat /\ owed # 0
  BY <1>1, Sizes DEF Counted
<1> QED BY <1>2, Numbers

LEMMA RespondStep ==
    ASSUME Types, Types', QuotaInv, NEW c \in Caller, uncounted' <= Buffer,
           Ok(c) \/ Unchanged(c) \/ ServerError(c) \/ TooMany(c)
    PROVE  Counted'
<1>1. \E missed \in BOOLEAN : Count(missed)
  <2>1. Count(TRUE) \/ Count(FALSE)
    BY DEF Ok, Unchanged, ServerError, TooMany, Count
  <2> QED BY <2>1
<1>2. uncounted <= Buffer
  BY <1>1, CountUp
<1>3. Counted /\ quota > 0
  <2>1. pc[c] = "send"
    BY DEF Ok, Unchanged, ServerError, TooMany, Respond, At
  <2> QED BY <1>2, <2>1, Granted DEF QuotaInv
<1>4. PICK kind \in Kinds, missed \in BOOLEAN :
          Respond(c, kind) /\ Count(missed) /\ (kind \in {"429", "5xx"} => missed)
  BY <1>3 DEF Ok, Unchanged, ServerError, TooMany, Kinds
<1>5. uncounted' = uncounted + One(missed)
  BY <1>4, CountUp
<1>6. /\ UNCHANGED uncounted \/ uncounted' = uncounted + 1
      /\ kind \in {"429", "5xx"} => uncounted' = uncounted + 1
  BY <1>4, <1>5, Numbers DEF One
<1> QED BY <1>3, <1>4, <1>6, AnswerStep

LEMMA BreakStep ==
    ASSUME Types, Types', QuotaInv, NEW c \in Caller, uncounted' <= Buffer, Break(c)
    PROVE  Counted'
<1> USE DEF under, owed, held
<1>l. /\ pc[c] = "send" /\ Moves(c) /\ pc'[c] = "retry"
      /\ UNCHANGED <<left, remaining, resetIn, call>>
      /\ quota' = Larger(quota - 1, 0) /\ Count(TRUE)
  BY DEF Break, At, limiter, Goto, Moves, Types, TypeOK
<1>n. /\ quota \in Nat /\ remaining \in Nat /\ uncounted \in Nat /\ Limit \in Nat /\ Buffer \in Nat
      /\ left \in Nat /\ resetIn \in Int
  BY Numbers, Zenon
<1>b. uncounted' = uncounted + 1 /\ uncounted <= Buffer
  BY <1>l, CountUp DEF One
<1>c. Counted /\ quota > 0
  BY <1>l, <1>b, Granted DEF QuotaInv
<1>v. quota' = quota - 1 /\ uncounted' = uncounted + 1
  BY <1>l, <1>n, <1>b, <1>c DEF Larger
<1>s. /\ under \in Nat /\ owed \in Nat /\ held \in Nat
      /\ under' \in Nat /\ owed' \in Nat /\ held' \in Nat
      /\ under' + One(c \in UnderWay) = under + One(c \in UnderWay')
      /\ owed'  + One(c \in Owing)    = owed  + One(c \in Owing')
      /\ held'  + One(c \in Held)     = held  + One(c \in Held')
  BY <1>l, Sizes, SizesMove
<1>p. /\ c \in UnderWay /\ c \in UnderWay' /\ c \in Owing /\ c \in Owing' /\ c \notin Held /\ c \notin Held'
      /\ c \notin Taking /\ c \notin Taking'
      /\ ~Answered(c)' /\ ~Repeats(c)' /\ ~At(c, "take")' /\ ~At(c, "sleep")' /\ ~At(c, "remaining")'
  BY <1>l DEF UnderWay, Owing, Held, Taking, At, Repeats, Answered
<1>1. under' = under /\ owed' = owed /\ held' = held
  BY <1>s, <1>p DEF One
<1>2. (Taking # {} => Taking' # {}) /\ UnderWay' # {} /\ Owing # {}
  BY <1>l, <1>p, OthersMove, Zenon
<1>3. /\ under' + uncounted <= under + uncounted'
      /\ owed' + quota + uncounted <= owed + quota' + uncounted'
      /\ owed' + uncounted <= owed + uncounted'
      /\ owed' + held' + quota + uncounted <= owed + held + quota' + uncounted'
  BY <1>n, <1>v, <1>s, <1>1
<1>4. /\ under' <= uncounted' + 1
      /\ Owing # {} => owed' + Buffer <= quota' + uncounted'
      /\ remaining' + owed' <= quota' + uncounted' + One(Taking' # {})
      /\ remaining' + owed' <= Limit + uncounted' + One(Taking' # {})
      /\ \/ resetIn' >= left'
         \/ Limit + owed' + held' <= quota' + uncounted' + One(UnderWay' # {})
      /\ \A d \in Caller \ {c} : Fits(d)'
  BY <1>c, <1>l, <1>2, <1>3, Kept
<1>5. Fits(c)'
  BY <1>p DEF Fits
<1> QED BY <1>2, <1>4, <1>5 DEF Counted

LEMMA StoreRemainingStep ==
    ASSUME Types, Types', Counted, NEW c \in Caller, StoreRemaining(c)
    PROVE  Counted'
<1> USE DEF under, owed, held
<1>l. /\ pc[c] = "remaining" /\ Moves(c) /\ pc'[c] = "reset"
      /\ call'[c] = [call[c] EXCEPT !.rem = 0]
      /\ remaining' = call[c].rem /\ UNCHANGED <<quota, left, resetIn, uncounted>>
  <2>1. /\ call' = [call EXCEPT ![c] = [call[c] EXCEPT !.rem = 0]] /\ Goto(c, "reset")
    BY DEF StoreRemaining
  <2> QED BY <2>1, Goes, Zenon DEF StoreRemaining, At, server, history
<1>n. /\ quota \in Nat /\ quota <= Limit /\ remaining \in Nat /\ uncounted \in Nat /\ Limit \in Nat /\ Buffer \in Nat
      /\ left \in Nat /\ resetIn \in Int /\ call[c].rem \in Nat /\ call[c].reset \in Int
  BY Numbers, Zenon
<1>k. call'[c].kind = call[c].kind /\ call'[c].reset = call[c].reset
  BY <1>l DEF Types, TypeOK, Call
<1>r. (Repeats(c)' <=> Repeats(c)) /\ Answered(c)
  BY <1>l, <1>k DEF Repeats, Answered
<1>s. /\ under \in Nat /\ owed \in Nat /\ held \in Nat
      /\ under' \in Nat /\ owed' \in Nat /\ held' \in Nat
      /\ under' + One(c \in UnderWay) = under + One(c \in UnderWay')
      /\ owed'  + One(c \in Owing)    = owed  + One(c \in Owing')
      /\ held'  + One(c \in Held)     = held  + One(c \in Held')
  BY <1>l, Sizes, SizesMove
<1>p. /\ c \in UnderWay /\ c \in UnderWay' /\ c \notin Held /\ c \notin Held'
      /\ c \in Owing' <=> c \in Owing
      /\ ~At(c, "take")' /\ ~At(c, "sleep")' /\ ~At(c, "remaining")'
  BY <1>l, <1>r DEF UnderWay, Owing, Held, At
<1>1. under' = under /\ owed' = owed /\ held' = held
  BY <1>s, <1>p DEF One
<1>2. UnderWay' # {} /\ (Owing' # {} => Owing # {})
  BY <1>l, <1>p, OthersMove, Zenon
<1>3. /\ under' <= uncounted' + 1
      /\ Owing # {} => owed' + Buffer <= quota' + uncounted'
      /\ \/ resetIn' >= left'
         \/ Limit + owed' + held' <= quota' + uncounted' + One(UnderWay' # {})
      /\ \A d \in Caller \ {c} : Fits(d)'
  BY <1>l, <1>n, <1>s, <1>1, <1>2, Kept
<1>4. /\ Repeats(c) => under <= uncounted
      /\ call[c].rem + owed <= quota + uncounted
      /\ call[c].reset >= left \/ Limit + owed + held <= quota + uncounted
  BY <1>l, <1>r DEF Counted, Fits, At
<1>5. /\ remaining' + owed' <= quota' + uncounted' + One(Taking' # {})
      /\ remaining' + owed' <= Limit + uncounted' + One(Taking' # {})
  <2>1. One(Taking' # {}) \in Nat
    BY DEF One
  <2> QED BY <1>l, <1>n, <1>s, <1>1, <1>4, <2>1
<1>6. Fits(c)'
  <2>1. Repeats(c)' => under' <= uncounted'
    BY <1>l, <1>r, <1>1, <1>4
  <2>2. call'[c].reset >= left' \/ Limit + owed' + held' <= quota' + uncounted'
    BY <1>l, <1>k, <1>1, <1>4
  <2> QED BY <1>p, <2>1, <2>2 DEF Fits
<1> QED BY <1>2, <1>3, <1>5, <1>6 DEF Counted

\* A response that is followed by a retry is stored ...
LEMMA StoreAgainStep ==
    ASSUME Types, Types', Counted, NEW c \in Caller, Moves(c),
           pc[c] = "reset", call[c].kind \in {"429", "5xx"}, pc'[c] \in {"after", "retry"},
           resetIn' = call[c].reset, UNCHANGED <<quota, left, remaining, uncounted>>
    PROVE  Counted'
<1> USE DEF under, owed, held
<1>n. /\ quota \in Nat /\ remaining \in Nat /\ uncounted \in Nat /\ Limit \in Nat /\ Buffer \in Nat
      /\ left \in Nat /\ resetIn \in Int
  BY Numbers, Zenon
<1>s. /\ under \in Nat /\ owed \in Nat /\ held \in Nat
      /\ under' \in Nat /\ owed' \in Nat /\ held' \in Nat
      /\ under' + One(c \in UnderWay) = under + One(c \in UnderWay')
      /\ owed'  + One(c \in Owing)    = owed  + One(c \in Owing')
      /\ held'  + One(c \in Held)     = held  + One(c \in Held')
  BY Sizes, SizesMove
<1>p. /\ c \in UnderWay /\ c \in UnderWay' /\ c \in Owing /\ c \in Owing' /\ c \notin Held /\ c \notin Held'
      /\ c \notin Taking /\ c \notin Taking' /\ Answered(c)
      /\ ~Answered(c)' /\ ~Repeats(c)' /\ ~At(c, "take")' /\ ~At(c, "sleep")' /\ ~At(c, "remaining")'
  BY DEF UnderWay, Owing, Held, Taking, At, Repeats, Answered
<1>1. under' = under /\ owed' = owed /\ held' = held
  BY <1>s, <1>p DEF One
<1>2. (Taking # {} => Taking' # {}) /\ Owing # {}
  BY <1>p, OthersMove, Zenon
<1>3. /\ under' <= uncounted' + 1
      /\ owed' + Buffer <= quota' + uncounted'
      /\ remaining' + owed' <= quota' + uncounted' + One(Taking' # {})
      /\ remaining' + owed' <= Limit + uncounted' + One(Taking' # {})
      /\ \A d \in Caller \ {c} : Fits(d)'
  BY <1>n, <1>s, <1>1, <1>2, Kept
<1>4. \/ resetIn' >= left'
      \/ Limit + owed' + held' <= quota' + uncounted' + One(UnderWay' # {})
  <2>1. call[c].reset >= left \/ Limit + owed + held <= quota + uncounted
    BY <1>p DEF Counted, Fits
  <2>2. One(UnderWay' # {}) \in Nat
    BY DEF One
  <2> QED BY <1>n, <1>s, <1>1, <2>1, <2>2
<1>5. Fits(c)'
  BY <1>p DEF Fits
<1> QED BY <1>3, <1>4, <1>5 DEF Counted

\* ... and so is one that ends a request: it sets the count right if it ran alone.
LEMMA StoreLastStep ==
    ASSUME Types, Types', QuotaInv, NEW c \in Caller, Moves(c),
           pc[c] = "reset", call[c].kind \notin {"429", "5xx"}, pc'[c] \in {"wait", "listed", "failed"},
           resetIn' = call[c].reset, UNCHANGED <<quota, left, remaining>>, CountIsKnown,
           uncounted' <= Buffer
    PROVE  Counted'
<1> USE DEF under, owed, held
<1>n. /\ quota \in Nat /\ quota <= Limit /\ remaining \in Nat /\ uncounted \in Nat
      /\ Limit \in Nat /\ Buffer \in Nat /\ left \in Nat /\ resetIn \in Int
  BY Numbers, Zenon
<1>s. /\ under \in Nat /\ owed \in Nat /\ held \in Nat
      /\ under' \in Nat /\ owed' \in Nat /\ held' \in Nat
      /\ under' + One(c \in UnderWay) = under + One(c \in UnderWay')
      /\ owed'  + One(c \in Owing)    = owed  + One(c \in Owing')
      /\ held'  + One(c \in Held)     = held  + One(c \in Held')
  BY Sizes, SizesMove
<1>p. /\ c \in UnderWay /\ c \notin UnderWay' /\ c \notin Owing /\ c \notin Owing' /\ c \notin Held /\ c \notin Held'
      /\ c \notin Taking /\ c \notin Taking' /\ Answered(c) /\ ~At(c, "remaining")
      /\ ~Answered(c)' /\ ~Repeats(c)' /\ ~At(c, "take")' /\ ~At(c, "sleep")' /\ ~At(c, "remaining")'
  BY DEF UnderWay, Owing, Held, Taking, At, Repeats, Answered
<1>1. under' = under - 1 /\ owed' = owed /\ held' = held
  BY <1>s, <1>p DEF One
<1>2. CASE alone
  <2>1. uncounted' = 0
    BY <1>2 DEF CountIsKnown
  <2>2. /\ UnderWay \subseteq {c}
        /\ call[c].reset >= left \/ quota = Limit
        /\ remaining <= quota
    BY <1>2, <1>p DEF QuotaInv, Known
  <2>3. UnderWay' = {}
    <3>1. \A d \in Caller \ {c} : d \notin UnderWay'
      BY <2>2, SizesMove
    <3> QED BY <3>1, <1>p DEF UnderWay
  <2>4. Owing' = {} /\ Held' = {} /\ Taking' = {}
    BY <2>3 DEF UnderWay, Owing, Held, Taking, At, Repeats, Answered
  <2>5. under' = 0 /\ owed' = 0 /\ held' = 0
    <3>1. \A S \in SUBSET Caller : S = {} => Cardinality(S) = 0
      BY FS_EmptySet
    <3> QED BY <3>1, <2>3, <2>4
  <2>6. \A d \in Caller : Fits(d)'
    <3>1. \A d \in Caller : d \notin UnderWay'
      BY <2>3
    <3> QED BY <3>1 DEF Fits, UnderWay, Answered, Repeats, At
  <2>7. /\ under' <= uncounted' + 1
        /\ remaining' + owed' <= quota' + uncounted' + One(Taking' # {})
        /\ remaining' + owed' <= Limit + uncounted' + One(Taking' # {})
        /\ \/ resetIn' >= left'
           \/ Limit + owed' + held' <= quota' + uncounted' + One(UnderWay' # {})
    <3>1. One(Taking' # {}) = 0 /\ One(UnderWay' # {}) = 0
      BY <2>3, <2>4 DEF One
    <3> QED BY <1>n, <2>1, <2>2, <2>5, <3>1
  <2> QED BY <2>4, <2>6, <2>7 DEF Counted
<1>3. CASE ~alone
  <2>1. uncounted' = uncounted
    BY <1>3 DEF CountIsKnown
  <2>2. Counted
    BY <2>1 DEF QuotaInv
  <2>3. (Taking # {} => Taking' # {}) /\ (Owing' # {} => Owing # {})
    BY <1>p, OthersMove, Zenon
  <2>4. /\ under' <= uncounted' + 1
        /\ Owing # {} => owed' + Buffer <= quota' + uncounted'
        /\ remaining' + owed' <= quota' + uncounted' + One(Taking' # {})
        /\ remaining' + owed' <= Limit + uncounted' + One(Taking' # {})
        /\ \A d \in Caller \ {c} : Fits(d)'
    BY <1>n, <1>s, <1>1, <2>1, <2>2, <2>3, Kept
  <2>5. \/ resetIn' >= left'
        \/ Limit + owed' + held' <= quota' + uncounted' + One(UnderWay' # {})
    <3>1. call[c].reset >= left \/ Limit + owed + held <= quota + uncounted
      BY <1>p, <2>2 DEF Counted, Fits
    <3>2. One(UnderWay' # {}) \in Nat
      BY DEF One
    <3> QED BY <1>n, <1>s, <1>1, <2>1, <3>1, <3>2
  <2>6. Fits(c)'
    BY <1>p DEF Fits
  <2> QED BY <2>3, <2>4, <2>5, <2>6 DEF Counted
<1> QED BY <1>2, <1>3

LEMMA LoseMoves ==
    ASSUME Types, NEW c \in Caller, Lose(c)
    PROVE  Moves(c) /\ pc'[c] \in {"listed", "failed"}
BY DEF Lose, Goto, Moves, Types, TypeOK

LEMMA StoreResetStep ==
    ASSUME Types, Types', QuotaInv, NEW c \in Caller, StoreReset(c), uncounted' <= Buffer
    PROVE  Counted'
<1>1. pc[c] = "reset" /\ resetIn' = call[c].reset /\ UNCHANGED <<quota, left, remaining>>
  BY DEF StoreReset, At, server
<1>2. ASSUME PageRead(c), CountIsKnown PROVE Counted'
  <2>1. call[c].kind = "200"
    BY <1>2 DEF PageRead
  <2>2. Moves(c) /\ pc'[c] \in {"wait", "listed", "failed"}
    <3>1. CASE Lose(c)
      BY <3>1, LoseMoves
    <3>2. CASE ~Lose(c)
      <4>1. PICK k \in Call, l \in {"listed", "wait"} : call' = [call EXCEPT ![c] = k] /\ Goto(c, l)
        BY <1>2, <3>2, Turned DEF Types, TypeOK
      <4> QED BY <4>1, Goes
    <3> QED BY <3>1, <3>2
  <2> QED BY <1>1, <1>2, <2>1, <2>2, StoreLastStep
<1>3. ASSUME call[c].kind \in {"304", "4xx"}, Lose(c), CountIsKnown PROVE Counted'
  BY <1>1, <1>3, LoseMoves, StoreLastStep
<1>4. ASSUME NEW k, NEW l \in {"after", "retry"}, call[c].kind \in {"429", "5xx"},
             call' = [call EXCEPT ![c] = k], Goto(c, l), UNCHANGED history
      PROVE  Counted'
  <2>1. Moves(c) /\ pc'[c] = l /\ UNCHANGED uncounted
    BY <1>4, Goes DEF history
  <2>2. Counted
    BY <2>1 DEF QuotaInv
  <2> QED BY <1>1, <1>4, <2>1, <2>2, StoreAgainStep
<1>5. \/ PageRead(c) /\ CountIsKnown
      \/ call[c].kind \in {"304", "4xx"} /\ Lose(c) /\ CountIsKnown
      \/ \E k : \E l \in {"after", "retry"} :
            /\ call[c].kind \in {"429", "5xx"} /\ call' = [call EXCEPT ![c] = k] /\ Goto(c, l)
            /\ UNCHANGED history
  BY Zenon DEF StoreReset
<1> QED BY <1>2, <1>3, <1>4, <1>5, Zenon

\* What time does: it leaves everyone in place; a window that begins grants Limit.
LEMMA Ages ==
    ASSUME Types, Tick, NEW c \in Caller
    PROVE  /\ pc'[c] = pc[c] /\ call'[c].kind = call[c].kind
           /\ call'[c].rem = call[c].rem /\ call'[c].seen = call[c].seen
           /\ call'[c].timer >= call[c].timer - 1
           /\ Answered(c) => call'[c].reset >= call[c].reset - 1
<1> DEFINE t == Larger(call[c].timer - 1, 0)
           r == IF pc[c] \in {"remaining", "reset"} THEN Earlier(call[c].reset) ELSE call[c].reset
<1>1. pc' = pc /\ call'[c] = [call[c] EXCEPT !.timer = t, !.reset = r]
  BY Zenon DEF Tick
<1>2. call[c] \in Call /\ call[c].timer \in Nat /\ call[c].reset \in Int
  BY Numbers DEF Types, TypeOK
<1>3. t >= call[c].timer - 1
  BY <1>2 DEF Larger
<1>4. Answered(c) => r >= call[c].reset - 1
  BY <1>2, Numbers DEF Answered, Earlier, Larger
<1> HIDE DEF t, r
<1>5. /\ [call[c] EXCEPT !.timer = t, !.reset = r].kind = call[c].kind
      /\ [call[c] EXCEPT !.timer = t, !.reset = r].rem = call[c].rem
      /\ [call[c] EXCEPT !.timer = t, !.reset = r].seen = call[c].seen
      /\ [call[c] EXCEPT !.timer = t, !.reset = r].timer = t
      /\ [call[c] EXCEPT !.timer = t, !.reset = r].reset = r
  BY <1>2 DEF Call
<1> QED BY <1>1, <1>3, <1>4, <1>5

LEMMA TickStep ==
    ASSUME Types, Types', Counted, Tick
    PROVE  Counted'
<1> USE DEF under, owed, held
<1>n. /\ quota \in Nat /\ remaining \in Nat /\ uncounted \in Nat /\ Limit \in Nat /\ Buffer \in Nat
      /\ Buffer < Limit /\ left \in Nat /\ left >= 1 /\ resetIn \in Int
  BY Numbers, Zenon
<1>l. UNCHANGED <<remaining, uncounted>> /\ pc' = pc
  BY DEF Tick, history
<1>e. UnderWay' = UnderWay /\ Held' = Held /\ Taking' = Taking
  BY <1>l DEF UnderWay, Held, Taking, At
<1>r. \A c \in Caller : /\ Repeats(c)' <=> Repeats(c)
                        /\ Answered(c)' <=> Answered(c)
                        /\ \A l \in Labels : At(c, l)' <=> At(c, l)
  BY <1>l, Ages DEF Repeats, Answered, At
<1>o. Owing' = Owing
  BY <1>l, <1>r DEF Owing
<1>s. /\ under \in Nat /\ owed \in Nat /\ held \in Nat /\ owed + held <= under
      /\ under' = under /\ owed' = owed /\ held' = held
      /\ \A c \in Caller : Answered(c) /\ ~Repeats(c) => owed + held + 1 <= under
  BY <1>e, <1>o, Sizes
<1>c. /\ under <= uncounted + 1
      /\ remaining + owed <= quota + uncounted + One(Taking # {})
      /\ remaining + owed <= Limit + uncounted + One(Taking # {})
      /\ Owing # {} => owed + Buffer <= quota + uncounted
      /\ \/ resetIn >= left
         \/ Limit + owed + held <= quota + uncounted + One(UnderWay # {})
  BY DEF Counted
<1>i. One(UnderWay # {}) \in Nat /\ One(Taking # {}) \in Nat
  BY DEF One
<1>1. CASE left # 1
  <2>1. quota' = quota /\ left' = left - 1
    BY <1>1 DEF Tick
  <2>2. resetIn' >= resetIn - 1 /\ resetIn' \in Int
    <3>1. resetIn' = Earlier(resetIn)
      BY DEF Tick
    <3>2. -Margin \in Int
      BY ClientAssumption
    <3> QED BY <1>n, <3>1, <3>2 DEF Earlier, Larger
  <2>3. \/ resetIn' >= left'
        \/ Limit + owed' + held' <= quota' + uncounted' + One(UnderWay' # {})
    BY <1>n, <1>l, <1>s, <1>c, <1>e, <1>i, <2>1, <2>2
  <2>4. ASSUME NEW c \in Caller PROVE Fits(c)'
    <3>1. Fits(c)
      BY DEF Counted
    <3>2. /\ call'[c].rem = call[c].rem /\ call'[c].seen = call[c].seen
          /\ call'[c].timer >= call[c].timer - 1
          /\ Answered(c) => call'[c].reset >= call[c].reset - 1
          /\ call[c].rem \in Nat /\ call[c].seen \in Nat /\ call[c].timer \in Nat /\ call[c].reset \in Int
      BY Ages, Numbers
    <3>3. call'[c].timer \in Nat /\ call'[c].reset \in Int
      BY DEF Types, TypeOK, Call, Times
    <3>4. /\ Repeats(c)' <=> Repeats(c)
          /\ Answered(c)' <=> Answered(c)
          /\ At(c, "remaining")' <=> At(c, "remaining")
          /\ At(c, "take")' <=> At(c, "take")
          /\ At(c, "sleep")' <=> At(c, "sleep")
      BY <1>r DEF Labels
    <3>5. /\ Repeats(c)' => under' <= uncounted'
          /\ At(c, "remaining")' => call'[c].rem + owed' <= quota' + uncounted'
          /\ At(c, "take")' => call'[c].seen + owed' <= quota' + uncounted' + 1
      BY <1>l, <1>s, <2>1, <3>1, <3>2, <3>4 DEF Fits
    <3>6. Answered(c)' => call'[c].reset >= left' \/ Limit + owed' + held' <= quota' + uncounted'
      BY <1>n, <1>l, <1>s, <2>1, <3>1, <3>2, <3>3, <3>4 DEF Fits
    <3>7. At(c, "sleep")' => call'[c].timer >= left' \/ Limit + owed' <= quota' + uncounted'
      BY <1>n, <1>l, <1>s, <2>1, <3>1, <3>2, <3>3, <3>4 DEF Fits
    <3> QED BY <3>5, <3>6, <3>7 DEF Fits
  <2> QED BY <1>l, <1>s, <1>c, <1>e, <1>o, <2>1, <2>3, <2>4 DEF Counted
\* A new window: what is not yet paid for was counted, but for one request.
<1>2. CASE left = 1
  <2>1. quota' = Limit
    BY <1>2 DEF Tick
  <2>2. Owing' # {} => owed' + Buffer <= quota' + uncounted'
    BY <1>n, <1>l, <1>s, <1>c, <2>1
  <2>3. Limit + owed' + held' <= quota' + uncounted' + One(UnderWay' # {})
    <3>1. UnderWay = {} => under = 0
      BY Sizes
    <3>2. CASE UnderWay = {}
      BY <1>n, <1>l, <1>s, <1>e, <1>i, <2>1, <3>1, <3>2
    <3>3. CASE UnderWay # {}
      <4>1. One(UnderWay # {}) = 1
        BY <3>3 DEF One
      <4> QED BY <1>n, <1>l, <1>s, <1>c, <1>e, <2>1, <4>1
    <3> QED BY <3>2, <3>3
  <2>4. ASSUME NEW c \in Caller PROVE Fits(c)'
    <3>1. Fits(c)
      BY DEF Counted
    <3>2. /\ call'[c].rem = call[c].rem /\ call'[c].seen = call[c].seen
          /\ call[c].rem \in Nat /\ call[c].seen \in Nat /\ call[c].rem <= Limit /\ call[c].seen <= Limit
      BY Ages, Numbers
    <3>3. /\ Repeats(c)' <=> Repeats(c)
          /\ Answered(c)' <=> Answered(c)
          /\ At(c, "remaining")' => Answered(c)
          /\ At(c, "take")' <=> At(c, "take")
          /\ At(c, "sleep")' <=> At(c, "sleep")
      BY <1>r DEF Labels, Answered, At
    <3>4. Repeats(c)' => under' <= uncounted'
      BY <1>l, <1>s, <3>1, <3>3 DEF Fits
    <3>5. Answered(c) => owed + held <= uncounted
      <4>1. Repeats(c) => under <= uncounted
        BY <3>1 DEF Fits
      <4>2. CASE Repeats(c)
        BY <1>n, <1>s, <4>1, <4>2
      <4>3. CASE Answered(c) /\ ~Repeats(c)
        <5>1. owed + held + 1 <= under
          BY <1>s, <4>3
        <5> QED BY <1>n, <1>s, <1>c, <5>1
      <4> QED BY <4>2, <4>3
    <3>6. At(c, "remaining")' => call'[c].rem + owed' <= quota' + uncounted'
      BY <1>n, <1>l, <1>s, <2>1, <3>2, <3>3, <3>5
    <3>7. At(c, "take")' => call'[c].seen + owed' <= quota' + uncounted' + 1
      BY <1>n, <1>l, <1>s, <1>c, <2>1, <3>2
    <3>8. Answered(c)' => Limit + owed' + held' <= quota' + uncounted'
      BY <1>n, <1>l, <1>s, <2>1, <3>3, <3>5
    <3>9. At(c, "sleep")' => Limit + owed' <= quota' + uncounted'
      <4>1. At(c, "sleep") => held # 0
        <5>1. At(c, "sleep") => Held # {}
          BY DEF At, Held
        <5> QED BY <5>1, Sizes
      <4>2. At(c, "sleep") => owed <= uncounted
        BY <1>n, <1>s, <1>c, <4>1
      <4> QED BY <1>n, <1>l, <1>s, <2>1, <3>3, <4>2
    <3> QED BY <3>4, <3>6, <3>7, <3>8, <3>9 DEF Fits
  <2>5. /\ remaining' + owed' <= quota' + uncounted' + One(Taking' # {})
        /\ remaining' + owed' <= Limit + uncounted' + One(Taking' # {})
    BY <1>l, <1>s, <1>c, <1>e, <2>1
  <2>6. under' <= uncounted' + 1
    BY <1>l, <1>s, <1>c
  <2> QED BY <2>2, <2>3, <2>4, <2>5, <2>6 DEF Counted
<1> QED BY <1>1, <1>2

-----------------------------------------------------------------------------
\* No request is alone that another joins.
LEMMA AloneKept ==
    ASSUME Types, QuotaInv, NEW c \in Caller, Moves(c), UNCHANGED alone, c \in UnderWay' => c \in UnderWay
    PROVE  /\ UnderWay' \subseteq UnderWay
           /\ alone' => \A d \in UnderWay' : UnderWay' \subseteq {d}
<1>1. UnderWay' \subseteq UnderWay
  BY SizesMove DEF UnderWay
<1> QED BY <1>1 DEF QuotaInv

\* What is known of a request that runs alone: only its own steps and time touch it.
LEMMA KnownKept ==
    ASSUME Types, QuotaInv, NEW c \in Caller, Moves(c), UNCHANGED alone,
           c \in UnderWay' => c \in UnderWay,
           ~(alone /\ Answered(c)'),
           c \notin UnderWay => UNCHANGED <<quota, left, remaining>>
    PROVE  \A d \in Caller : alone' /\ Answered(d)' => Known(d)'
<1> SUFFICES ASSUME NEW d \in Caller, alone', Answered(d)' PROVE Known(d)'
  OBVIOUS
<1>1. alone /\ d # c
  OBVIOUS
<1>2. pc'[d] = pc[d] /\ call'[d] = call[d]
  BY <1>1 DEF Moves
<1>3. Answered(d) /\ (At(d, "remaining")' <=> At(d, "remaining"))
  BY <1>2 DEF Answered, At
<1>4. Known(d) /\ d \in UnderWay
  BY <1>1, <1>3 DEF QuotaInv, UnderWay, Answered
<1>5. c \notin UnderWay
  BY <1>1, <1>4 DEF Known
<1>6. UnderWay' \subseteq {d}
  BY <1>4, AloneKept DEF Known
<1> QED BY <1>2, <1>3, <1>4, <1>5, <1>6 DEF Known

LEMMA QuietKept ==
    ASSUME Types, Types', QuotaInv, NEW c \in Caller, Moves(c),
           UNCHANGED <<server, limiter, history>>,
           \/ pc[c] \in Out /\ pc'[c] \in Out
           \/ pc[c] \in {"send", "after", "retry"} /\ pc'[c] \in {"send", "retry", "listed", "failed"}
           \/ pc[c] = "sleep" /\ pc'[c] \in {"listed", "failed"}
    PROVE  QuotaInv'
<1>1. UNCHANGED <<quota, left, remaining, uncounted, alone>>
  BY DEF server, limiter, history
<1>2. uncounted' <= Buffer => Counted'
  BY <1>1, QuietStep DEF QuotaInv
<1>3. /\ c \in UnderWay' => c \in UnderWay
      /\ ~Answered(c)'
  BY DEF UnderWay, Out, Answered
<1> QED BY <1>1, <1>2, <1>3, AloneKept, KnownKept DEF QuotaInv

LEMMA TickKept == ASSUME Types, Types', QuotaInv, Tick PROVE QuotaInv'
<1>1. UNCHANGED <<remaining, uncounted, alone>> /\ pc' = pc
  BY DEF Tick, history
<1>2. uncounted' <= Buffer => Counted'
  BY <1>1, TickStep DEF QuotaInv
<1>3. UnderWay' = UnderWay
  BY <1>1 DEF UnderWay
<1>4. ASSUME NEW c \in Caller, alone', Answered(c)' PROVE Known(c)'
  <2>1. Answered(c) /\ (At(c, "remaining")' <=> At(c, "remaining")) /\ alone
    BY <1>1, <1>4 DEF Answered, At
  <2>2. Known(c)
    BY <2>1 DEF QuotaInv
  <2>3. /\ call'[c].rem = call[c].rem /\ call'[c].reset >= call[c].reset - 1
        /\ call[c].rem \in Nat /\ call[c].rem <= Limit /\ call[c].reset \in Int
        /\ quota \in Nat /\ quota <= Limit /\ left \in Nat /\ remaining \in Nat /\ remaining <= Limit
        /\ Limit \in Nat
    BY <2>1, Ages, Numbers
  <2>4. call'[c].reset \in Int
    BY DEF Types, TypeOK, Call, Times
  <2>5. CASE left # 1
    <3>1. quota' = quota /\ left' = left - 1
      BY <2>5 DEF Tick
    <3>2. call'[c].reset >= left' \/ quota' = Limit
      BY <2>2, <2>3, <2>4, <3>1 DEF Known
    <3> QED BY <1>1, <1>3, <2>1, <2>2, <2>3, <3>1, <3>2 DEF Known
  <2>6. CASE left = 1
    <3>1. quota' = Limit
      BY <2>6 DEF Tick
    <3> QED BY <1>1, <1>3, <2>2, <2>3, <3>1 DEF Known
  <2> QED BY <2>5, <2>6
<1> QED BY <1>1, <1>2, <1>3, <1>4 DEF QuotaInv

LEMMA LoadKept ==
    ASSUME Types, Types', QuotaInv, NEW c \in Caller, Load(c)
    PROVE  QuotaInv'
<1>1. /\ Moves(c) /\ pc[c] = "wait" /\ pc'[c] \in {"take", "low"} /\ alone' = (UnderWay = {})
  BY Goes, Zenon DEF Load, At
<1>2. uncounted' <= Buffer => Counted'
  BY LoadStep
<1>3. ASSUME alone' PROVE UnderWay' \subseteq {c}
  <2>1. UnderWay = {}
    BY <1>1, <1>3
  <2> QED BY <1>1, <2>1, SizesMove DEF UnderWay
<1>4. ASSUME NEW d \in Caller, alone' PROVE ~Answered(d)'
  <2>1. d # c => d \notin UnderWay'
    BY <1>3, <1>4
  <2> QED BY <1>1, <2>1 DEF UnderWay, Answered
<1> QED BY <1>2, <1>3, <1>4 DEF QuotaInv

LEMMA AnswerKept ==
    ASSUME Types, Types', QuotaInv, NEW c \in Caller, NEW kind \in Kinds, Respond(c, kind),
           uncounted' <= Buffer => Counted'
    PROVE  QuotaInv'
<1>1. /\ pc[c] = "send" /\ Moves(c) /\ pc'[c] = "remaining"
      /\ call'[c] = [call[c] EXCEPT !.kind = kind, !.rem = quota', !.reset = left]
      /\ UNCHANGED <<left, alone>>
  BY Goes, Zenon DEF Respond, At
<1>2. call'[c].rem = quota' /\ call'[c].reset = left
  BY <1>1 DEF Types, TypeOK, Call
<1>3. c \in UnderWay
  BY <1>1 DEF UnderWay
<1>4. alone' => \A d \in UnderWay' : UnderWay' \subseteq {d}
  BY <1>1, <1>3, AloneKept
<1>5. ASSUME NEW d \in Caller, alone', Answered(d)' PROVE Known(d)'
  <2>1. c \in UnderWay' /\ d \in UnderWay'
    BY <1>1, <1>5 DEF UnderWay, Answered
  <2>2. UnderWay' \subseteq {c} /\ d = c
    BY <1>4, <1>5, <2>1
  <2>3. call'[c].rem <= quota' /\ call'[c].reset >= left'
    <3>1. quota' \in 0..Limit /\ left \in 1..Period
      BY DEF Types, TypeOK
    <3> QED BY <1>1, <1>2, <3>1, ClientAssumption
  <2>4. At(c, "remaining")'
    BY <1>1 DEF At
  <2> QED BY <2>2, <2>3, <2>4 DEF Known
<1> QED BY <1>4, <1>5 DEF QuotaInv

LEMMA StoreRemainingKept ==
    ASSUME Types, Types', QuotaInv, NEW c \in Caller, StoreRemaining(c)
    PROVE  QuotaInv'
<1>1. /\ pc[c] = "remaining" /\ Moves(c) /\ pc'[c] = "reset"
      /\ call'[c] = [call[c] EXCEPT !.rem = 0]
      /\ remaining' = call[c].rem /\ UNCHANGED <<quota, left, uncounted, alone>>
  <2>1. /\ call' = [call EXCEPT ![c] = [call[c] EXCEPT !.rem = 0]] /\ Goto(c, "reset")
    BY DEF StoreRemaining
  <2> QED BY <2>1, Goes, Zenon DEF StoreRemaining, At, server, history
<1>2. call'[c].reset = call[c].reset
  BY <1>1 DEF Types, TypeOK, Call
<1>3. uncounted' <= Buffer => Counted'
  BY <1>1, StoreRemainingStep DEF QuotaInv
<1>4. c \in UnderWay /\ c \in UnderWay' /\ Answered(c) /\ At(c, "remaining") /\ ~At(c, "remaining")'
  BY <1>1 DEF UnderWay, Answered, At
<1>5. alone' => \A d \in UnderWay' : UnderWay' \subseteq {d}
  BY <1>1, <1>4, AloneKept
<1>6. ASSUME NEW d \in Caller, alone', Answered(d)' PROVE Known(d)'
  <2>1. d \in UnderWay'
    BY <1>6 DEF UnderWay, Answered
  <2>2. UnderWay' \subseteq {c} /\ d = c
    BY <1>4, <1>5, <1>6, <2>1
  <2>3. Known(c)
    BY <1>1, <1>4, <1>6 DEF QuotaInv
  <2> QED BY <1>1, <1>2, <1>4, <2>2, <2>3 DEF Known
<1> QED BY <1>3, <1>5, <1>6 DEF QuotaInv

LEMMA QuotaStep == ASSUME Types, Types', QuotaInv, Next PROVE QuotaInv'
<1>1. CASE Tick
  BY <1>1, TickKept
<1>2. ASSUME NEW c \in Caller, Begin(c) PROVE QuotaInv'
  <2>1. Moves(c) /\ pc[c] \in Out /\ pc'[c] \in Out /\ UNCHANGED <<server, limiter, history>>
    BY <1>2, Goes DEF Begin, At, Out
  <2> QED BY <2>1, QuietKept
<1>3. ASSUME NEW c \in Caller, Load(c) PROVE QuotaInv'
  BY <1>3, LoadKept
<1>4. ASSUME NEW c \in Caller, Take(c) PROVE QuotaInv'
  <2>1. Moves(c) /\ pc[c] = "take" /\ pc'[c] = "send" /\ UNCHANGED <<uncounted, alone>>
    BY <1>4, Goes, Zenon DEF Take, At, history
  <2>2. c \in UnderWay /\ ~Answered(c)'
    BY <2>1 DEF UnderWay, Answered
  <2>3. uncounted' <= Buffer => Counted'
    BY <1>4, <2>1, TakeStep DEF QuotaInv
  <2> QED BY <2>1, <2>2, <2>3, AloneKept, KnownKept DEF QuotaInv
<1>5. ASSUME NEW c \in Caller, ReadReset(c) PROVE QuotaInv'
  <2>1. Moves(c) /\ pc[c] = "low" /\ pc'[c] \in {"wait", "sleep"} /\ UNCHANGED <<uncounted, alone>>
    BY <1>5 DEF ReadReset, At, history, Goto, Moves, Types, TypeOK
  <2>2. c \in UnderWay /\ ~Answered(c)'
    BY <2>1 DEF UnderWay, Answered
  <2>3. uncounted' <= Buffer => Counted'
    BY <1>5, <2>1, ReadResetStep DEF QuotaInv
  <2> QED BY <2>1, <2>2, <2>3, AloneKept, KnownKept DEF QuotaInv
<1>6. ASSUME NEW c \in Caller, Wake(c) PROVE QuotaInv'
  <2>1. Moves(c) /\ pc[c] = "sleep" /\ pc'[c] = "wait" /\ UNCHANGED <<uncounted, alone>>
    BY <1>6 DEF Wake, At, history, Goto, Moves, Types, TypeOK
  <2>2. c \in UnderWay /\ ~Answered(c)'
    BY <2>1 DEF UnderWay, Answered
  <2>3. uncounted' <= Buffer => Counted'
    BY <1>6, <2>1, WakeStep DEF QuotaInv
  <2> QED BY <2>1, <2>2, <2>3, AloneKept, KnownKept DEF QuotaInv
<1>7. ASSUME NEW c \in Caller, Ok(c) \/ Unchanged(c) \/ ServerError(c) \/ TooMany(c) PROVE QuotaInv'
  <2>1. PICK kind \in Kinds : Respond(c, kind)
    BY <1>7 DEF Ok, Unchanged, ServerError, TooMany, Kinds
  <2> QED BY <1>7, <2>1, RespondStep, AnswerKept
<1>8. ASSUME NEW c \in Caller, Unreachable(c) PROVE QuotaInv'
  <2>1. Moves(c) /\ pc[c] = "send" /\ pc'[c] = "retry" /\ UNCHANGED <<server, limiter, history>>
    BY <1>8 DEF Unreachable, At, Goto, Moves, Types, TypeOK
  <2> QED BY <2>1, QuietKept
<1>9. ASSUME NEW c \in Caller, Break(c) PROVE QuotaInv'
  <2>1. Moves(c) /\ pc[c] = "send" /\ pc'[c] = "retry" /\ UNCHANGED alone
    BY <1>9 DEF Break, At, Goto, Moves, Types, TypeOK
  <2>2. c \in UnderWay /\ ~Answered(c)'
    BY <2>1 DEF UnderWay, Answered
  <2>3. uncounted' <= Buffer => Counted'
    BY <1>9, BreakStep
  <2> QED BY <2>1, <2>2, <2>3, AloneKept, KnownKept DEF QuotaInv
<1>10. ASSUME NEW c \in Caller, StoreRemaining(c) PROVE QuotaInv'
  BY <1>10, StoreRemainingKept
<1>11. ASSUME NEW c \in Caller, StoreReset(c) PROVE QuotaInv'
  <2>1. Moves(c) /\ pc[c] = "reset" /\ pc'[c] \in {"wait", "listed", "failed", "after", "retry"} /\ UNCHANGED alone
    <3>1. ASSUME Lose(c) PROVE Moves(c) /\ pc'[c] \in {"listed", "failed"}
      BY <3>1, LoseMoves
    <3>2. ASSUME PageRead(c), ~Lose(c) PROVE Moves(c) /\ pc'[c] \in {"listed", "wait"}
      <4>1. PICK k \in Call, l \in {"listed", "wait"} : call' = [call EXCEPT ![c] = k] /\ Goto(c, l)
        BY <3>2, Turned DEF Types, TypeOK
      <4> QED BY <4>1, Goes
    <3>3. ASSUME NEW k, NEW l \in {"after", "retry"}, call' = [call EXCEPT ![c] = k], Goto(c, l)
          PROVE  Moves(c) /\ pc'[c] \in {"after", "retry"}
      BY <3>3, Goes
    <3>4. pc[c] = "reset" /\ UNCHANGED alone
      BY <1>11, Zenon DEF StoreReset, At, CountIsKnown, history
    <3>5. \/ PageRead(c) \/ Lose(c)
          \/ \E k : \E l \in {"after", "retry"} : call' = [call EXCEPT ![c] = k] /\ Goto(c, l)
      BY <1>11, Zenon DEF StoreReset
    <3> QED BY <3>1, <3>2, <3>3, <3>4, <3>5
  <2>2. c \in UnderWay /\ ~Answered(c)'
    BY <2>1 DEF UnderWay, Answered
  <2>3. uncounted' <= Buffer => Counted'
    BY <1>11, StoreResetStep
  <2> QED BY <2>1, <2>2, <2>3, AloneKept, KnownKept DEF QuotaInv
<1>12. ASSUME NEW c \in Caller, WaitRetryAfter(c) PROVE QuotaInv'
  <2>1. Moves(c) /\ pc[c] = "after" /\ pc'[c] = "retry" /\ UNCHANGED <<server, limiter, history>>
    BY <1>12 DEF WaitRetryAfter, At, Goto, Moves, Types, TypeOK
  <2> QED BY <2>1, QuietKept
<1>13. ASSUME NEW c \in Caller, Retry(c) PROVE QuotaInv'
  <2>1. pc[c] = "retry" /\ UNCHANGED <<server, limiter, history>>
    BY <1>13 DEF Retry, At
  <2>2. Moves(c) /\ pc'[c] \in {"send", "listed", "failed"}
    <3>1. CASE Lose(c)
      BY <3>1, LoseMoves
    <3>2. CASE ~Lose(c)
      <4>1. call' = [call EXCEPT ![c] = [call[c] EXCEPT !.tries = @ + 1]] /\ Goto(c, "send")
        BY <1>13, <3>2 DEF Retry
      <4> QED BY <4>1, Goes
    <3> QED BY <3>1, <3>2
  <2> QED BY <2>1, <2>2, QuietKept
<1>14. ASSUME NEW c \in Caller, Return(c) PROVE QuotaInv'
  <2>1. Moves(c) /\ pc[c] \in Out /\ pc'[c] \in Out /\ UNCHANGED <<server, limiter, history>>
    BY <1>14, Goes DEF Return, Out
  <2> QED BY <2>1, QuietKept
<1>15. ASSUME NEW c \in Caller, Cancel(c) PROVE QuotaInv'
  <2>1. pc[c] \in {"sleep", "after", "retry"} /\ Lose(c) /\ UNCHANGED <<server, limiter, history>>
    BY <1>15 DEF Cancel
  <2> QED BY <2>1, LoseMoves, QuietKept
<1> QED BY <1>1, <1>2, <1>3, <1>4, <1>5, <1>6, <1>7, <1>8, <1>9, <1>10, <1>11, <1>12, <1>13, <1>14,
           <1>15 DEF Next, Run

LEMMA QuotaStutter == ASSUME Types, QuotaInv, UNCHANGED vars PROVE QuotaInv'
<1>1. UNCHANGED <<quota, left, remaining, limit, resetIn, pc, call, uncounted, alone>>
  BY DEF vars, server, limiter, history
<1>2. UnderWay' = UnderWay /\ Owing' = Owing /\ Held' = Held /\ Taking' = Taking
  BY <1>1 DEF UnderWay, Owing, Held, Taking, At, Repeats, Answered
<1>3. Counted' <=> Counted
  BY <1>1, <1>2 DEF Counted, Fits, under, owed, held, Repeats, Answered, At
<1>4. \A c \in Caller : (Known(c)' <=> Known(c)) /\ (Answered(c)' <=> Answered(c))
  BY <1>1, <1>2 DEF Known, Answered, At
<1> QED BY <1>1, <1>2, <1>3, <1>4 DEF QuotaInv

LEMMA QuotaInit == ASSUME Init PROVE QuotaInv
<1>1. pc = [c \in Caller |-> "idle"] /\ quota \in 0..Limit /\ left \in 1..Period
      /\ remaining = StartLimit /\ resetIn = Period
      /\ uncounted = Smaller(Larger(StartLimit - quota, 0), Buffer + 1)
  BY DEF Init
<1>2. UnderWay = {} /\ Owing = {} /\ Held = {} /\ Taking = {}
  BY <1>1 DEF UnderWay, Owing, Held, Taking, At, Repeats, Answered
<1>3. under = 0 /\ owed = 0 /\ held = 0
  BY <1>2, Sizes
<1>4. \A c \in Caller : ~Answered(c) /\ Fits(c)
  BY <1>1 DEF Fits, Answered, Repeats, At
<1>5. Limit \in Nat /\ StartLimit \in 0..Limit /\ Buffer \in 0..(Limit - 1) /\ Period \in Nat
  BY ClientAssumption
<1>6. uncounted <= Buffer => remaining <= quota + uncounted
  BY <1>1, <1>5 DEF Smaller, Larger
<1>7. uncounted \in Nat
  BY <1>1, <1>5 DEF Smaller, Larger
<1>8. One(Taking # {}) = 0
  BY <1>2 DEF One
<1>9. uncounted <= Buffer => Counted
  <2>1. resetIn >= left /\ remaining <= Limit /\ remaining \in Nat /\ quota \in Nat
    BY <1>1, <1>5
  <2>2. uncounted <= Buffer =>
          /\ under <= uncounted + 1
          /\ remaining + owed <= quota + uncounted + One(Taking # {})
          /\ remaining + owed <= Limit + uncounted + One(Taking # {})
    BY <1>3, <1>5, <1>6, <1>7, <1>8, <2>1
  <2> QED BY <1>2, <1>4, <2>1, <2>2 DEF Counted
<1> QED BY <1>2, <1>4, <1>9 DEF QuotaInv

\* GitHub can grant every request on its way: whatever the limiter believes, the
\* requests not yet paid for and the buffer together exceed what GitHub still grants by
\* no more than went uncounted (Wait and updateRateLimit, client.go:392-490).
THEOREM NeverRefusedHolds == Spec => []NeverRefused
<1>1. ASSUME Types, QuotaInv PROVE NeverRefused
  <2> DEFINE sending == {c \in Caller : At(c, "send")}
  <2> SUFFICES ASSUME uncounted <= Buffer PROVE Cardinality(sending) <= quota
    BY DEF NeverRefused
  <2>1. sending \subseteq Owing /\ sending \in SUBSET Caller /\ Owing \in SUBSET Caller
    BY DEF Owing, At
  <2>2. IsFiniteSet(sending) /\ IsFiniteSet(Owing) /\ Cardinality(sending) \in Nat /\ Cardinality(Owing) \in Nat
    BY <2>1, FiniteCallers
  <2>3. Cardinality(sending) <= Cardinality(Owing)
    BY <2>1, <2>2, FS_Subset
  <2>4. CASE Owing = {}
    <3>1. Cardinality(sending) = 0
      BY <2>1, <2>4, FS_EmptySet
    <3> QED BY <1>1, <3>1, Numbers
  <2>5. CASE Owing # {}
    <3>1. Cardinality(Owing) + Buffer <= quota + uncounted
      BY <1>1, <2>5 DEF QuotaInv, Counted, owed
    <3> HIDE DEF sending
    <3> QED BY <1>1, <2>2, <2>3, <3>1, Numbers
  <2> QED BY <2>4, <2>5
<1>2. ASSUME Types, Types', QuotaInv, [Next]_vars PROVE QuotaInv'
  BY <1>2, QuotaStep, QuotaStutter
<1>3. Init => QuotaInv
  BY QuotaInit
<1> QED BY TypesHold, <1>1, <1>2, <1>3, PTL DEF Spec

=============================================================================
