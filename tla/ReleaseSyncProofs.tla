------------------------- MODULE ReleaseSyncProofs -------------------------
(***************************************************************************)
(* Theorems of ReleaseSync, for every number of syncers, tags and assets   *)
(* and every budget of failures.  TypeOK is inductive as it stands, with   *)
(* AtElement; the other invariants rest on strengthenings stated where     *)
(* they are proved: LockInv, BackedInv and those that follow them.         *)
(* A step of a syncer is taken apart into what it does to the shared state *)
(* and what it does to pc and run, which it changes by Goto and Set only.  *)
(***************************************************************************)
EXTENDS ReleaseSync, FiniteSetTheorems, TLAPS

\* What Goto and Set leave behind: the moving syncer has its new label and
\* locals, and the others are where they were.
LEMMA SetLocal ==
    ASSUME LocalsOK, NEW s \in Syncer, NEW l \in Label, NEW r \in Local,
           Goto(s, l), Set(s, r)
    PROVE  /\ LocalsOK'
           /\ pc'[s] = l /\ run'[s] = r
           /\ \A q \in Syncer \ {s} : pc'[q] = pc[q] /\ run'[q] = run[q]
           /\ \A q \in Syncer \ {s} : AtElement(q) => AtElement(q)'
  BY DEF LocalsOK, Goto, Set, AtElement

LEMMA SetRun ==
    ASSUME LocalsOK, NEW s \in Syncer, NEW r \in Local, UNCHANGED pc, Set(s, r)
    PROVE  /\ LocalsOK'
           /\ pc'[s] = pc[s] /\ run'[s] = r
           /\ \A q \in Syncer \ {s} : pc'[q] = pc[q] /\ run'[q] = run[q]
           /\ \A q \in Syncer \ {s} : AtElement(q) => AtElement(q)'
  BY DEF LocalsOK, Set, AtElement

LEMMA SetLabel ==
    ASSUME LocalsOK, NEW s \in Syncer, NEW l \in Label, UNCHANGED run, Goto(s, l)
    PROVE  /\ LocalsOK'
           /\ pc'[s] = l /\ run'[s] = run[s]
           /\ \A q \in Syncer \ {s} : pc'[q] = pc[q] /\ run'[q] = run[q]
           /\ \A q \in Syncer \ {s} : AtElement(q) => AtElement(q)'
  BY DEF LocalsOK, Goto, AtElement

LEMMA NewRunTyped == NewRun \in Local
  BY DEF NewRun, Local

LEMMA CurDone ==
    ASSUME TypeOK, NEW s \in Syncer, pc[s] \in {"asset", "upload", "insert"},
           run[s].todo # {}
    PROVE  /\ Cur(s) \in run[s].todo
           /\ CurKey(s) \in Key
           /\ AssetDone(s) \in Local
           /\ AssetDone(s).next = run[s].next
           /\ AssetDone(s).rels = run[s].rels
           /\ AssetDone(s).tag = run[s].tag
<1>1. Cur(s) \in run[s].todo
  BY DEF Cur
<1>2. run[s] \in Local
  BY DEF TypeOK, LocalsOK
<1>3. run[s].tag \in Tag
  <2>1. /\ run[s].next \in 1..Len(run[s].rels)
        /\ run[s].tag = run[s].rels[run[s].next].tag
    BY DEF TypeOK, AtElement
  <2>2. run[s].rels \in Seq(Release)
    BY <1>2 DEF Local
  <2>3. run[s].rels[run[s].next] \in Release
    BY <2>1, <2>2
  <2> QED BY <2>1, <2>3 DEF Release
<1>4. CurKey(s) \in Key
  BY <1>1, <1>2, <1>3 DEF CurKey, Key, Local
<1>5. AssetDone(s) \in Local
  BY <1>2 DEF AssetDone, Local
<1> QED BY <1>1, <1>2, <1>4, <1>5 DEF AssetDone, Local

LEMMA CutRange == ASSUME SharedOK PROVE Cut \in 0..Len(releases)
  BY ConfigAssumption DEF SharedOK, Cut

\* What List reads, whatever it loses.
LEMMA ListLoses ==
    ASSUME TypeOK, NEW s \in Syncer, List(s)
    PROVE  \E lost \in 0..Len(releases) :
              /\ lost >= Cut /\ Try(lost = Cut)
              /\ Set(s, [run[s] EXCEPT !.rels = Listing(lost), !.next = 1])
              /\ Goto(s, "release")
<1>1. PICK lost \in Cut..Len(releases) :
         /\ Try(lost = Cut)
         /\ Set(s, [run[s] EXCEPT !.rels = Listing(lost), !.next = 1])
  BY DEF List
<1>2. Cut \in 0..Len(releases) /\ releases \in Seq(Tag)
  BY CutRange DEF TypeOK, SharedOK
<1>3. lost \in 0..Len(releases) /\ lost >= Cut
  BY <1>2
<1>4. Goto(s, "release")
  BY DEF List
<1> QED BY <1>1, <1>3, <1>4

LEMMA LocalsStep ==
    ASSUME TypeOK, NEW s \in Syncer, Step(s)
    PROVE  LocalsOK' /\ \A q \in Syncer : AtElement(q)'
<1> SUFFICES LocalsOK' /\ AtElement(s)' /\ \A q \in Syncer \ {s} : AtElement(q)'
  OBVIOUS
<1>t. LocalsOK /\ run[s] \in Local /\ \A q \in Syncer : AtElement(q)
  BY DEF TypeOK, LocalsOK
<1>m. lastSynced \in Tag \cup {NoTag}
  BY DEF TypeOK, SharedOK
<1>n. \A t \in Tag \cup {NoTag} : [run[s] EXCEPT !.newest = t] \in Local
  BY <1>t DEF Local
<1>1. CASE Acquire(s)
  BY <1>1, <1>t, NewRunTyped, SetLocal DEF Acquire, Label, AtElement
<1>2. CASE ReadMark(s)
  <2>1. \A t \in Tag \cup {NoTag} : [run[s] EXCEPT !.seen = t, !.newest = t] \in Local
    BY <1>t DEF Local
  <2>2. PICK t \in Tag \cup {NoTag} :
           Set(s, [run[s] EXCEPT !.seen = t, !.newest = t]) /\ Goto(s, "list")
    BY <1>2, <1>m DEF ReadMark
  <2> QED BY ZenonT(40), <2>1, <2>2, <1>t, SetLocal DEF Label, AtElement
<1>3. CASE List(s)
  <2>1. \A lost \in 0..Len(releases) : Listing(lost) \in Seq(Release)
    BY DEF TypeOK, SharedOK, Listing, Release
  <2>2. PICK lost \in 0..Len(releases) :
           Set(s, [run[s] EXCEPT !.rels = Listing(lost), !.next = 1]) /\ Goto(s, "release")
    BY <1>3, ListLoses DEF List
  <2>3. Listing(lost) \in Seq(Release)
    BY <2>1
  <2>4. [run[s] EXCEPT !.rels = Listing(lost), !.next = 1] \in Local
    <3>1. [run[s] EXCEPT !.rels = Listing(lost)] \in Local
      BY <1>t, <2>3 DEF Local
    <3>2. \A r \in Local : [r EXCEPT !.next = 1] \in Local
      BY DEF Local
    <3> QED BY <3>1, <3>2
  <2> QED BY ZenonT(40), <2>2, <2>4, <1>t, SetLocal DEF Label, AtElement
<1>4. CASE ListFails(s)
  BY <1>4, <1>t, NewRunTyped, SetLocal DEF ListFails, Label, AtElement
<1>5. CASE SkipRelease(s)
  <2>1. [run[s] EXCEPT !.next = @ + 1] \in Local
    BY <1>t DEF Local
  <2> QED BY <1>5, <1>t, <2>1, SetRun DEF SkipRelease, AtRelease, AtElement
<1>6. CASE BeginRelease(s)
  <2> DEFINE r == run[s].rels[run[s].next]
  <2> DEFINE loc(b) == [run[s] EXCEPT !.tag = r.tag, !.todo = r.assets,
                                      !.up = FALSE, !.linked = b]
  <2>1. run[s].next \in 1..Len(run[s].rels) /\ r \in Release
    BY <1>6, <1>t DEF BeginRelease, AtRelease, Local
  <2>2. \A b \in BOOLEAN : /\ loc(b) \in Local
                           /\ loc(b).next = run[s].next /\ loc(b).rels = run[s].rels
                           /\ loc(b).tag = r.tag
    <3> HIDE DEF r
    <3> QED BY <1>t, <2>1 DEF Local, Release
  <2>3. PICK b \in BOOLEAN : Set(s, loc(b)) /\ Goto(s, "asset")
    BY <1>6 DEF BeginRelease
  <2> HIDE DEF loc
  <2>4. loc(b) \in Local /\ "asset" \in Label
    BY <2>2 DEF Label
  <2>5. /\ LocalsOK' /\ pc'[s] = "asset" /\ run'[s] = loc(b)
        /\ \A q \in Syncer \ {s} : AtElement(q)'
    BY <2>3, <2>4, <1>t, SetLocal
  <2> QED BY <2>1, <2>2, <2>5 DEF AtElement
<1>7. CASE CheckExists(s)
  <2>1. /\ run[s].next \in 1..Len(run[s].rels)
        /\ run[s].tag = run[s].rels[run[s].next].tag
        /\ pc[s] = "asset" /\ run[s].todo # {}
    BY <1>7, <1>t DEF CheckExists, AtElement
  <2>2. CASE Set(s, AssetDone(s)) /\ UNCHANGED pc
    BY SMTT(30), <2>1, <2>2, <1>t, CurDone, SetRun DEF AtElement
  <2>3. CASE Goto(s, "upload") /\ UNCHANGED run
    BY <2>1, <2>3, <1>t, SetLabel DEF AtElement, Label
  <2> QED BY <1>7, <2>2, <2>3 DEF CheckExists
<1>8. CASE Upload(s)
  <2>1. /\ run[s].next \in 1..Len(run[s].rels)
        /\ run[s].tag = run[s].rels[run[s].next].tag
        /\ pc[s] = "upload" /\ run[s].todo # {}
    BY <1>8, <1>t DEF Upload, AtElement
  <2> DEFINE loc(r) == [r EXCEPT !.up = TRUE, !.fresh = TRUE]
  <2>2. \A r \in Local : /\ loc(r) \in Local /\ loc(r).todo = r.todo
                         /\ loc(r).next = r.next /\ loc(r).rels = r.rels
                         /\ loc(r).tag = r.tag
    BY DEF Local
  <2>3. \/ Set(s, loc(run[s])) /\ Goto(s, "insert")
        \/ Set(s, loc(AssetDone(s))) /\ Goto(s, "asset")
    BY <1>8 DEF Upload
  <2> HIDE DEF loc
  <2>4. CASE Set(s, loc(run[s])) /\ Goto(s, "insert")
    <3>1. /\ LocalsOK' /\ pc'[s] = "insert" /\ run'[s] = loc(run[s])
          /\ \A q \in Syncer \ {s} : AtElement(q)'
      BY <2>2, <2>4, <1>t, SetLocal DEF Label
    <3> QED BY <2>1, <2>2, <3>1, <1>t DEF AtElement
  <2>5. CASE Set(s, loc(AssetDone(s))) /\ Goto(s, "asset")
    <3>1. /\ AssetDone(s) \in Local /\ AssetDone(s).tag = run[s].tag
          /\ AssetDone(s).next = run[s].next /\ AssetDone(s).rels = run[s].rels
      BY <2>1, CurDone
    <3>2. /\ LocalsOK' /\ pc'[s] = "asset" /\ run'[s] = loc(AssetDone(s))
          /\ \A q \in Syncer \ {s} : AtElement(q)'
      BY <2>2, <2>5, <3>1, <1>t, SetLocal DEF Label
    <3> QED BY <2>1, <2>2, <3>1, <3>2 DEF AtElement
  <2> QED BY <2>3, <2>4, <2>5
<1>9. CASE UploadFails(s)
  <2>1. /\ run[s].next \in 1..Len(run[s].rels)
        /\ run[s].tag = run[s].rels[run[s].next].tag
        /\ pc[s] = "upload" /\ run[s].todo # {}
    BY <1>9, <1>t DEF UploadFails, AtElement
  <2> DEFINE loc == [AssetDone(s) EXCEPT !.failed = TRUE]
  <2>2. AssetDone(s) \in Local
    BY <2>1, CurDone
  <2>3. loc \in Local /\ loc.next = run[s].next /\ loc.rels = run[s].rels
        /\ loc.tag = run[s].tag
    BY <2>1, <2>2, CurDone DEF Local
  <2>4. Set(s, loc) /\ Goto(s, "asset")
    BY <1>9 DEF UploadFails
  <2> HIDE DEF loc
  <2>5. /\ LocalsOK' /\ pc'[s] = "asset" /\ run'[s] = loc
        /\ \A q \in Syncer \ {s} : AtElement(q)'
    BY <2>3, <2>4, <1>t, SetLocal DEF Label
  <2> QED BY <2>1, <2>3, <2>5 DEF AtElement
<1>10. CASE InsertAsset(s)
  <2>1. /\ run[s].next \in 1..Len(run[s].rels)
        /\ run[s].tag = run[s].rels[run[s].next].tag
        /\ pc[s] = "insert" /\ run[s].todo # {}
    BY <1>10, <1>t DEF InsertAsset, AtElement
  <2>2. Set(s, AssetDone(s)) /\ Goto(s, "asset")
    BY <1>10 DEF InsertAsset
  <2>3. /\ AssetDone(s) \in Local /\ AssetDone(s).tag = run[s].tag
        /\ AssetDone(s).next = run[s].next /\ AssetDone(s).rels = run[s].rels
    BY <2>1, CurDone
  <2>4. /\ LocalsOK' /\ pc'[s] = "asset" /\ run'[s] = AssetDone(s)
        /\ \A q \in Syncer \ {s} : AtElement(q)'
    BY <2>2, <2>3, <1>t, SetLocal DEF Label
  <2> QED BY <2>1, <2>3, <2>4 DEF AtElement
<1>11. CASE EndAssets(s)
  <2>1. /\ run[s].next \in 1..Len(run[s].rels)
        /\ run[s].tag = run[s].rels[run[s].next].tag
    BY <1>11, <1>t DEF EndAssets, AtElement
  <2>2. [run[s] EXCEPT !.next = @ + 1] \in Local
    BY <1>t DEF Local
  <2>3. CASE Goto(s, "meta") /\ UNCHANGED run
    BY <2>1, <2>3, <1>t, SetLabel DEF AtElement, Label
  <2>4. CASE Goto(s, "release") /\ Set(s, [run[s] EXCEPT !.next = @ + 1])
    BY ZenonT(40), <2>2, <2>4, <1>t, SetLocal DEF AtElement, Label
  <2> QED BY <1>11, <2>3, <2>4 DEF EndAssets
<1>12. CASE SaveMeta(s)
  <2>1. PICK t \in {run[s].tag, run[s].newest} :
           Set(s, [run[s] EXCEPT !.next = @ + 1, !.newest = t]) /\ Goto(s, "release")
    BY <1>12 DEF SaveMeta
  <2>2. t \in Tag \cup {NoTag}
    BY <1>t, <2>1 DEF Local
  <2>3. [run[s] EXCEPT !.next = @ + 1, !.newest = t] \in Local
    <3>1. \A r \in Local : [r EXCEPT !.newest = t] \in Local
      BY <2>2 DEF Local
    <3>2. [run[s] EXCEPT !.next = @ + 1] \in Local
      BY <1>t DEF Local
    <3> QED BY <3>1, <3>2
  <2> QED BY ZenonT(40), <2>1, <2>3, <1>t, SetLocal DEF AtElement, Label
<1>13. CASE EndReleases(s)
  BY <1>13, <1>t, SetLabel DEF EndReleases, AfterSync, Label, AtElement
<1>14. CASE SetMark(s)
  <2>1. \A b \in BOOLEAN : [run[s] EXCEPT !.errs = b] \in Local
    BY <1>t DEF Local
  <2>2. PICK b \in BOOLEAN : Set(s, [run[s] EXCEPT !.errs = b]) /\ Goto(s, "setlatest")
    BY <1>14 DEF SetMark
  <2> QED BY ZenonT(40), <2>1, <2>2, <1>t, SetLocal DEF AtElement, Label
<1>15. CASE SetLatest(s)
  BY <1>15, <1>t, SetLabel DEF SetLatest, AfterSync, Label, AtElement
<1>16. CASE RereadMark(s)
  <2>1. PICK t \in Tag \cup {NoTag}, l \in {"newest", "rewrite"} :
           Set(s, [run[s] EXCEPT !.newest = t]) /\ Goto(s, l)
    BY <1>16, <1>m DEF RereadMark
  <2>2. [run[s] EXCEPT !.newest = t] \in Local /\ l \in Label
    BY <1>n DEF Label
  <2>3. LocalsOK' /\ pc'[s] = l /\ \A q \in Syncer \ {s} : AtElement(q)'
    BY <2>1, <2>2, <1>t, SetLocal
  <2> QED BY <2>3 DEF AtElement
<1>17. CASE RewriteMark(s)
  BY <1>17, <1>t, SetLabel DEF RewriteMark, Label, AtElement
<1>18. CASE Clean(s)
  <2>1. \A page \in Pages(s3) : \A old \in Surplus(Tags(page)) : old \subseteq Tag
    <3>1. s3 \subseteq Key
      BY DEF TypeOK, SharedOK
    <3>2. \A page \in Pages(s3) : page \subseteq Key
      BY <3>1 DEF Pages
    <3>3. \A page \in SUBSET Key : Tags(page) \subseteq Tag
      BY DEF Tags, Key
    <3>4. \A tags : \A old \in Surplus(tags) : old \subseteq tags
      BY DEF Surplus
    <3> QED BY <3>2, <3>3, <3>4
  <2>2. \A old \in SUBSET Tag : [run[s] EXCEPT !.purge = old] \in Local
    BY <1>t DEF Local
  <2> QED BY ZenonT(40), <1>18, <1>t, <2>1, <2>2, SetLocal DEF Clean, Label, AtElement
<1>19. CASE CleanFails(s)
  BY <1>19, <1>t, SetLabel DEF CleanFails, Label, AtElement
<1>20. CASE PurgeObjects(s)
  <2>1. PICK t \in run[s].purge : Set(s, [run[s] EXCEPT !.tag = t]) /\ Goto(s, "purgemeta")
    BY <1>20 DEF PurgeObjects
  <2> DEFINE loc == [run[s] EXCEPT !.tag = t]
  <2>2. loc \in Local /\ loc.tag = t /\ loc.purge = run[s].purge
    BY <1>t, <2>1 DEF Local
  <2> HIDE DEF loc
  <2>3. Set(s, loc) /\ Goto(s, "purgemeta")
    BY <2>1 DEF loc
  <2>4. /\ LocalsOK' /\ pc'[s] = "purgemeta" /\ run'[s] = loc
        /\ \A q \in Syncer \ {s} : AtElement(q)'
    BY <2>2, <2>3, <1>t, SetLocal DEF Label
  <2> QED BY <2>1, <2>2, <2>4 DEF AtElement
<1>21. CASE PurgeSkips(s)
  <2>1. PICK t : Set(s, [run[s] EXCEPT !.purge = @ \ {t}]) /\ UNCHANGED pc /\ pc[s] = "purge"
    BY <1>21 DEF PurgeSkips, PurgeNext
  <2>2. [run[s] EXCEPT !.purge = @ \ {t}] \in Local
    BY <1>t DEF Local
  <2> QED BY <2>1, <2>2, <1>t, SetRun DEF AtElement
<1>22. CASE PurgeMeta(s)
  <2>1. [run[s] EXCEPT !.purge = @ \ {run[s].tag}] \in Local
    BY <1>t DEF Local
  <2>2. CASE Goto(s, "purgepg") /\ UNCHANGED run
    BY <1>22, <1>t, <2>2, SetLabel DEF PurgeMeta, Label, AtElement
  <2>3. CASE Goto(s, "purge") /\ Set(s, [run[s] EXCEPT !.purge = @ \ {run[s].tag}])
    <3>1. LocalsOK' /\ pc'[s] = "purge" /\ \A q \in Syncer \ {s} : AtElement(q)'
      BY ZenonT(40), <1>t, <2>1, <2>3, SetLocal DEF Label
    <3> QED BY <3>1 DEF AtElement
  <2> QED BY <1>22, <2>2, <2>3 DEF PurgeMeta
<1>23. CASE PurgePg(s)
  <2>1. PICK version \in BOOLEAN :
           run' = [q \in Syncer |->
                      IF q = s THEN [run[s] EXCEPT !.purge = @ \ {run[s].tag}]
                      ELSE [run[q] EXCEPT !.linked =
                               @ /\ ~(version /\ run[q].tag = run[s].tag)]]
    BY <1>23 DEF PurgePg
  <2>2. [run[s] EXCEPT !.purge = @ \ {run[s].tag}] \in Local
    BY <1>t DEF Local
  <2> DEFINE loc(q) == [run[q] EXCEPT !.linked =
                               @ /\ ~(version /\ run[q].tag = run[s].tag)]
  <2>3. \A q \in Syncer : /\ loc(q) \in Local
                          /\ loc(q).next = run[q].next /\ loc(q).rels = run[q].rels
                          /\ loc(q).tag = run[q].tag /\ loc(q).todo = run[q].todo
                          /\ loc(q).purge = run[q].purge
    <3> SUFFICES ASSUME NEW q \in Syncer
                 PROVE  /\ loc(q) \in Local
                        /\ loc(q).next = run[q].next /\ loc(q).rels = run[q].rels
                        /\ loc(q).tag = run[q].tag /\ loc(q).todo = run[q].todo
                        /\ loc(q).purge = run[q].purge
      OBVIOUS
    <3>1. run[q] \in Local
      BY <1>t DEF LocalsOK
    <3>2. \A b \in BOOLEAN : LET r == [run[q] EXCEPT !.linked = b]
                             IN  /\ r \in Local
                                 /\ r.next = run[q].next /\ r.rels = run[q].rels
                                 /\ r.tag = run[q].tag /\ r.todo = run[q].todo
                                 /\ r.purge = run[q].purge
      BY <3>1 DEF Local
    <3> QED BY <3>2
  <2>4. pc' = [pc EXCEPT ![s] = "purge"]
    BY <1>23 DEF PurgePg, Goto
  <2>5. \A q \in Syncer \ {s} : run'[q] = loc(q) /\ pc'[q] = pc[q]
    BY <2>1, <2>4, <1>t DEF LocalsOK
  <2>6. pc' \in [Syncer -> Label] /\ pc'[s] = "purge"
    BY <2>4, <1>t DEF LocalsOK, Label
  <2> HIDE DEF loc
  <2>7. run' \in [Syncer -> Local]
    BY <2>1, <2>2, <2>3 DEF loc
  <2>8. \A q \in Syncer \ {s} : AtElement(q)'
    BY <2>3, <2>5, <1>t DEF AtElement
  <2> QED BY <2>6, <2>7, <2>8 DEF LocalsOK, AtElement
<1>24. CASE EndPurge(s)
  BY <1>24, <1>t, SetLabel DEF EndPurge, Label, AtElement
<1>25. CASE ReadNewest(s)
  <2>1. PICK t \in Tag \cup {NoTag}, l \in {"log", "unlock"} :
           Set(s, [run[s] EXCEPT !.newest = t]) /\ Goto(s, l)
    BY <1>25, <1>m DEF ReadNewest
  <2>2. [run[s] EXCEPT !.newest = t] \in Local /\ l \in Label
    BY <1>n DEF Label
  <2>3. LocalsOK' /\ pc'[s] = l /\ \A q \in Syncer \ {s} : AtElement(q)'
    BY <2>1, <2>2, <1>t, SetLocal
  <2> QED BY <2>3 DEF AtElement
<1>26. CASE CreateLog(s)
  <2>1. \A b \in BOOLEAN : [run[s] EXCEPT !.logged = b] \in Local
    BY <1>t DEF Local
  <2>2. PICK b \in BOOLEAN, l \in {"software", "finishlog", "unlock"} :
           Set(s, [run[s] EXCEPT !.logged = b]) /\ Goto(s, l)
    BY <1>26 DEF CreateLog, FinishOr
  <2>3. [run[s] EXCEPT !.logged = b] \in Local /\ l \in Label
    BY <2>1 DEF Label
  <2>4. LocalsOK' /\ pc'[s] = l /\ \A q \in Syncer \ {s} : AtElement(q)'
    BY <2>2, <2>3, <1>t, SetLocal
  <2> QED BY <2>4 DEF AtElement
<1>27. CASE UpsertSoftware(s)
  BY <1>27, <1>t, SetLabel DEF UpsertSoftware, FinishOr, Label, AtElement
<1>28. CASE FinishLog(s)
  BY <1>28, <1>t, SetLabel DEF FinishLog, Label, AtElement
<1>29. CASE Unlock(s)
  BY <1>29, <1>t, NewRunTyped, SetLocal DEF Unlock, Label, AtElement
<1> QED
  BY <1>1, <1>2, <1>3, <1>4, <1>5, <1>6, <1>7, <1>8, <1>9, <1>10, <1>11, <1>12,
     <1>13, <1>14, <1>15, <1>16, <1>17, <1>18, <1>19, <1>20, <1>21, <1>22, <1>23,
     <1>24, <1>25, <1>26, <1>27, <1>28, <1>29 DEF Step

LEMMA TryBounds ==
    ASSUME SharedOK, NEW ok \in BOOLEAN, Try(ok)
    PROVE  faults' \in 0..MaxFaults
  BY ConfigAssumption DEF SharedOK, Try, Failure

LEMMA FailsBounds ==
    ASSUME TypeOK, NEW s \in Syncer, ListFails(s)
    PROVE  /\ faults' \in 0..MaxFaults /\ faults' >= faults
           /\ faults' = faults => s \in etag /\ lock' = FALSE
<1>1. PICK answered \in BOOLEAN, deleted \in BOOLEAN :
         /\ answered => s \in etag
         /\ faults' = faults + Failure(answered) + Failure(deleted)
         /\ lock' = IF deleted THEN FALSE ELSE lock
  BY DEF ListFails
<1>2. \A x, y, g \in Nat : /\ g + x + y \in Nat /\ g + x + y >= g
                           /\ g + x + y = g => x = 0 /\ y = 0
  OBVIOUS
<1>3. /\ Failure(answered) \in Nat /\ Failure(deleted) \in Nat
      /\ Failure(answered) = 0 => answered
      /\ Failure(deleted) = 0 => deleted
  BY DEF Failure
<1>4. faults \in Nat
  BY ConfigAssumption DEF TypeOK, SharedOK
<1>7. LET x == Failure(answered)
          y == Failure(deleted)
      IN  /\ faults + x + y \in Nat /\ faults + x + y >= faults
          /\ faults + x + y = faults => x = 0 /\ y = 0
  BY <1>2, <1>3, <1>4, Zenon
<1>5. /\ faults' \in Nat /\ faults' >= faults
      /\ faults' = faults => Failure(answered) = 0 /\ Failure(deleted) = 0
  BY <1>1, <1>7, Zenon
<1>6. faults' <= MaxFaults
  BY DEF ListFails
<1> QED BY <1>1, <1>3, <1>4, <1>5, <1>6, ConfigAssumption

LEMMA SharedStep == ASSUME TypeOK, NEW s \in Syncer, Step(s) PROVE SharedOK'
<1> USE DEF SharedOK, github, redis, pg, rare
<1>t. SharedOK
  BY DEF TypeOK
<1>r. run[s] \in Local
  BY DEF TypeOK, LocalsOK
<1>e. AtElement(s)
  BY DEF TypeOK
<1>n. run[s].newest \in Tag \cup {NoTag}
  BY <1>r DEF Local
<1>f. \A ok \in BOOLEAN : Try(ok) => faults' \in 0..MaxFaults
  BY <1>t, TryBounds DEF TypeOK
<1>1. CASE Acquire(s)
  BY <1>1, <1>t, <1>f DEF Acquire
<1>2. CASE ReadMark(s)
  BY <1>2, <1>t, <1>f DEF ReadMark
<1>3. CASE List(s)
  BY <1>3, <1>t, <1>f DEF List
<1>4. CASE ListFails(s)
  <2>1. faults' \in 0..MaxFaults
    BY <1>4, FailsBounds
  <2> QED BY <1>4, <1>t, <2>1 DEF ListFails
<1>5. CASE SkipRelease(s)
  BY <1>5, <1>t, <1>f DEF SkipRelease
<1>6. CASE BeginRelease(s)
  <2>1. run[s].rels[run[s].next].tag \in Tag
    <3>1. run[s].rels[run[s].next] \in Release
      BY <1>6, <1>r DEF BeginRelease, AtRelease, Local
    <3> QED BY <3>1 DEF Release
  <2>2. pgVersion' \subseteq Tag
    BY <1>6, <2>1, <1>t DEF BeginRelease
  <2>3. PICK ok \in BOOLEAN : Try(ok)
    BY <1>6 DEF BeginRelease
  <2> QED BY <1>6, <1>t, <1>f, <2>2, <2>3 DEF BeginRelease
<1>7. CASE CheckExists(s)
  BY <1>7, <1>t, <1>f DEF CheckExists
<1>8. CASE Upload(s)
  <2>1. CurKey(s) \in Key
    BY <1>8, <1>e, CurDone DEF Upload, AtElement
  <2> QED BY <1>8, <1>t, <1>f, <2>1 DEF Upload
<1>9. CASE UploadFails(s)
  <2>1. CurKey(s) \in Key
    BY <1>9, <1>e, CurDone DEF UploadFails, AtElement
  <2> QED BY <1>9, <1>t, <1>f, <2>1 DEF UploadFails
<1>10. CASE InsertAsset(s)
  <2>1. CurKey(s) \in Key
    BY <1>10, <1>e, CurDone DEF InsertAsset, AtElement
  <2>2. pgAsset' \in [Key -> RowLink]
    BY <1>10, <1>t, <2>1 DEF InsertAsset, RowLink
  <2> QED BY <1>10, <1>t, <1>f, <2>2 DEF InsertAsset
<1>11. CASE EndAssets(s)
  BY <1>11, <1>t, <1>f DEF EndAssets
<1>12. CASE SaveMeta(s)
  <2>1. run[s].tag \in Tag
    <3>1. run[s].next \in 1..Len(run[s].rels) /\ run[s].tag = run[s].rels[run[s].next].tag
      BY <1>12, <1>e DEF SaveMeta, AtElement
    <3>2. run[s].rels[run[s].next] \in Release
      BY <3>1, <1>r DEF Local
    <3> QED BY <3>1, <3>2 DEF Release
  <2>2. meta' \subseteq Tag
    BY <1>12, <1>t, <2>1 DEF SaveMeta
  <2> QED BY <1>12, <1>t, <1>f, <2>2 DEF SaveMeta
<1>13. CASE EndReleases(s)
  BY <1>13, <1>t, <1>f DEF EndReleases
<1>14. CASE SetMark(s)
  BY <1>14, <1>t, <1>f, <1>n DEF SetMark
<1>15. CASE SetLatest(s)
  BY <1>15, <1>t, <1>f, <1>n DEF SetLatest
<1>16. CASE RereadMark(s)
  BY <1>16, <1>t, <1>f DEF RereadMark
<1>17. CASE RewriteMark(s)
  BY <1>17, <1>t, <1>f, <1>n DEF RewriteMark
<1>18. CASE Clean(s)
  BY <1>18, <1>t, <1>f DEF Clean
<1>19. CASE CleanFails(s)
  BY <1>19, <1>t, <1>f DEF CleanFails
<1>20. CASE PurgeObjects(s)
  BY <1>20, <1>t, <1>f DEF PurgeObjects
<1>21. CASE PurgeSkips(s)
  BY <1>21, <1>t, <1>f DEF PurgeSkips
<1>22. CASE PurgeMeta(s)
  BY <1>22, <1>t, <1>f DEF PurgeMeta
<1>23. CASE PurgePg(s)
  <2>1. pgAsset' \in [Key -> RowLink] /\ pgVersion' \subseteq Tag
    BY <1>23, <1>t DEF PurgePg, RowLink
  <2> QED BY <1>23, <1>t, <1>f, <2>1 DEF PurgePg
<1>24. CASE EndPurge(s)
  BY <1>24, <1>t, <1>f DEF EndPurge
<1>25. CASE ReadNewest(s)
  BY <1>25, <1>t, <1>f DEF ReadNewest
<1>26. CASE CreateLog(s)
  <2>1. pgLog' \in [Syncer -> Status]
    BY <1>26, <1>t DEF CreateLog, Status
  <2> QED BY <1>26, <1>t, <1>f, <2>1 DEF CreateLog
<1>27. CASE UpsertSoftware(s)
  BY <1>27, <1>t, <1>f, <1>n DEF UpsertSoftware
<1>28. CASE FinishLog(s)
  <2>1. pgLog' \in [Syncer -> Status]
    BY <1>28, <1>t DEF FinishLog, Status, Verdict
  <2> QED BY <1>28, <1>t, <1>f, <2>1 DEF FinishLog
<1>29. CASE Unlock(s)
  BY <1>29, <1>t, <1>f DEF Unlock
<1> QED
  BY <1>1, <1>2, <1>3, <1>4, <1>5, <1>6, <1>7, <1>8, <1>9, <1>10, <1>11, <1>12,
     <1>13, <1>14, <1>15, <1>16, <1>17, <1>18, <1>19, <1>20, <1>21, <1>22, <1>23,
     <1>24, <1>25, <1>26, <1>27, <1>28, <1>29 DEF Step

LEMMA TypeEnvironment == ASSUME TypeOK, Environment PROVE TypeOK'
<1>t. SharedOK /\ LocalsOK /\ \A q \in Syncer : AtElement(q)
  BY DEF TypeOK
<1>1. ASSUME NEW t \in Tag, Publish(t) PROVE TypeOK'
  <2>1. releases' \in Seq(Tag)
    BY <1>1, <1>t DEF Publish, SharedOK
  <2>2. ready' \subseteq Key
    BY <1>1, <1>t DEF Publish, SharedOK, Key
  <2> QED BY <1>1, <1>t, <2>1, <2>2 DEF Publish, TypeOK, SharedOK, LocalsOK, AtElement, redis, pg, rare
<1>2. ASSUME NEW t \in Tag, MetaExpires(t) PROVE TypeOK'
  BY <1>2, <1>t DEF MetaExpires, TypeOK, SharedOK, LocalsOK, AtElement, github, pg, rare
<1>3. ASSUME NEW k \in Key, AssetReady(k) PROVE TypeOK'
  BY <1>3, <1>t DEF AssetReady, TypeOK, SharedOK, LocalsOK, AtElement, redis, pg, rare
<1>4. CASE LockExpires
  BY <1>4, <1>t DEF LockExpires, TypeOK, SharedOK, LocalsOK, AtElement, github, redis, pg, rare
<1>5. CASE LockOverrun
  <2>1. overruns' \in 0..MaxOverruns
    BY <1>5, <1>t, ConfigAssumption DEF LockOverrun, SharedOK
  <2>2. SharedOK'
    BY <1>5, <1>t, <2>1 DEF LockOverrun, SharedOK, github, redis, pg
  <2> QED BY <1>5, <1>t, <2>2 DEF LockOverrun, TypeOK, LocalsOK, AtElement
<1>6. ASSUME NEW s \in Syncer, Crash(s) PROVE TypeOK'
  <2>1. SharedOK'
    BY <1>6, <1>t, ConfigAssumption DEF Crash, SharedOK, github, redis, pg
  <2>2. LocalsOK' /\ \A q \in Syncer : AtElement(q)'
    BY ZenonT(40), <1>6, <1>t, NewRunTyped, SetLocal DEF Crash, Label, AtElement
  <2> QED BY <2>1, <2>2 DEF TypeOK
<1>7. ASSUME NEW s \in Syncer, Restart(s) PROVE TypeOK'
  <2>1. SharedOK'
    BY <1>7, <1>t DEF Restart, SharedOK, github, redis, pg, rare
  <2>2. LocalsOK' /\ \A q \in Syncer : AtElement(q)'
    BY <1>7, <1>t, SetLabel DEF Restart, Label, AtElement
  <2> QED BY <2>1, <2>2 DEF TypeOK
<1> QED BY <1>1, <1>2, <1>3, <1>4, <1>5, <1>6, <1>7 DEF Environment

\* Every behaviour of the synchroniser is type correct: whatever fails or dies,
\* the loops of github.go work on elements they have.
THEOREM TypeCorrect == Spec => []TypeOK
<1>1. Init => TypeOK
  <2> SUFFICES ASSUME Init PROVE TypeOK
    OBVIOUS
  <2>1. SharedOK
    <3>1. 0 \in 0..MaxFaults /\ 0 \in 0..MaxCrashes /\ 0 \in 0..MaxOverruns
      BY ConfigAssumption
    <3>2. /\ [k \in Key |-> "none"] \in [Key -> RowLink]
          /\ [s \in Syncer |-> "none"] \in [Syncer -> Status]
      BY DEF RowLink, Status
    <3>3. faults \in 0..MaxFaults /\ crashes \in 0..MaxCrashes /\ overruns \in 0..MaxOverruns
      BY <3>1 DEF Init
    <3>4. releases \in Seq(Tag)
      BY SMT DEF Init
    <3>7. lock \in BOOLEAN
      BY Zenon DEF Init
    <3>5. pgAsset \in [Key -> RowLink] /\ pgLog \in [Syncer -> Status]
      BY <3>2 DEF Init
    <3>6. /\ ready \subseteq Key /\ meta \subseteq Tag /\ s3 \subseteq Key
          /\ pgVersion \subseteq Tag /\ etag \subseteq Syncer
          /\ lastSynced = NoTag /\ latest = NoTag /\ pgLatest = NoTag
      BY DEF Init
    <3> QED BY <3>3, <3>4, <3>5, <3>6, <3>7 DEF SharedOK
  <2>2. LocalsOK
    BY NewRunTyped DEF Init, LocalsOK, Label
  <2>3. \A s \in Syncer : pc[s] = "idle"
    BY DEF Init
  <2> QED BY <2>1, <2>2, <2>3 DEF TypeOK, AtElement
<1>2. TypeOK /\ [Next]_vars => TypeOK'
  <2> SUFFICES ASSUME TypeOK, [Next]_vars PROVE TypeOK'
    OBVIOUS
  <2>1. CASE Environment
    BY <2>1, TypeEnvironment
  <2>2. ASSUME NEW s \in Syncer, Step(s) PROVE TypeOK'
    BY <2>2, SharedStep, LocalsStep DEF TypeOK
  <2>3. CASE UNCHANGED vars
    BY <2>3 DEF TypeOK, SharedOK, LocalsOK, AtElement, vars, github, redis, pg, rare
  <2> QED BY <2>1, <2>2, <2>3 DEF Next
<1> QED BY <1>1, <1>2, PTL DEF Spec

-----------------------------------------------------------------------------
(* Mutual exclusion.  The lock key has no owner, so the invariant must say    *)
(* that whoever works holds it: then SETNX can succeed only when nobody works, *)
(* and the DEL of the only worker cannot free another's lock.                 *)

LockInv ==
    overruns = 0 =>
        \A p \in Syncer : Holding(p) =>
            lock /\ \A q \in Syncer : Holding(q) => q = p

\* A step of a syncer takes the lock, gives it up, or works on under it.
LEMMA StepKinds ==
    ASSUME TypeOK, NEW s \in Syncer, Step(s)
    PROVE  /\ overruns' = overruns
           /\ \A q \in Syncer \ {s} : pc'[q] = pc[q]
           /\ \/ ~lock /\ lock'
              \/ Holding(s) /\ ~Holding(s)'
              \/ Holding(s) /\ lock' = lock
<1> USE DEF Holding, Goto, Set, rare
<1>t. pc \in [Syncer -> Label]
  BY DEF TypeOK, LocalsOK
<1>1. CASE Acquire(s)
  BY <1>1, <1>t DEF Acquire
<1>2. CASE ListFails(s) \/ Unlock(s)
  BY <1>2, <1>t DEF ListFails, Unlock
<1>3. CASE ReadMark(s) \/ List(s) \/ SkipRelease(s) \/ BeginRelease(s)
           \/ CheckExists(s) \/ Upload(s) \/ UploadFails(s) \/ InsertAsset(s)
           \/ EndAssets(s) \/ SaveMeta(s)
  BY <1>3, <1>t DEF ReadMark, List, SkipRelease, AtRelease, BeginRelease,
     CheckExists, Upload, UploadFails, InsertAsset, EndAssets, SaveMeta
<1>4. CASE EndReleases(s) \/ SetMark(s) \/ SetLatest(s) \/ RereadMark(s)
           \/ RewriteMark(s) \/ Clean(s) \/ CleanFails(s) \/ PurgeObjects(s)
           \/ PurgeSkips(s)
  BY <1>4, <1>t DEF EndReleases, SetMark, SetLatest, RereadMark, RewriteMark,
     Clean, CleanFails, PurgeObjects, PurgeSkips, PurgeNext
<1>5. CASE PurgeMeta(s) \/ PurgePg(s) \/ EndPurge(s) \/ ReadNewest(s)
           \/ CreateLog(s) \/ UpsertSoftware(s) \/ FinishLog(s)
  BY <1>5, <1>t DEF PurgeMeta, PurgePg, EndPurge, ReadNewest, CreateLog,
     UpsertSoftware, FinishLog
<1> QED BY <1>1, <1>2, <1>3, <1>4, <1>5 DEF Step

LEMMA LockStep == ASSUME TypeOK, LockInv, [Next]_vars PROVE LockInv'
<1>t. pc \in [Syncer -> Label] /\ overruns \in Nat
  BY ConfigAssumption DEF TypeOK, LocalsOK, SharedOK
<1>1. ASSUME NEW s \in Syncer, Step(s) PROVE LockInv'
  BY <1>1, StepKinds DEF LockInv, Holding
<1>2. ASSUME NEW t \in Tag, Publish(t) \/ MetaExpires(t) PROVE LockInv'
  BY <1>2 DEF Publish, MetaExpires, LockInv, Holding, rare
<1>3. ASSUME NEW k \in Key, AssetReady(k) PROVE LockInv'
  BY <1>3 DEF AssetReady, LockInv, Holding, rare
<1>4. CASE LockExpires
  BY <1>4 DEF LockExpires, NoHolder, LockInv, Holding, rare
<1>5. CASE LockOverrun
  BY <1>5, <1>t DEF LockOverrun, LockInv
<1>6. ASSUME NEW s \in Syncer, Crash(s) \/ Restart(s) PROVE LockInv'
  BY <1>6, <1>t DEF Crash, Restart, Goto, LockInv, Holding, rare
<1>7. CASE UNCHANGED vars
  BY <1>7 DEF vars, rare, LockInv, Holding
<1> QED BY <1>1, <1>2, <1>3, <1>4, <1>5, <1>6, <1>7 DEF Next, Environment

\* As long as no run outlives the TTL of its lock, two syncers never work on the
\* software at a time, whatever calls fail and whichever processes die.
THEOREM MutualExclusionHolds == Spec => []MutualExclusion
<1>1. Init => LockInv
  BY DEF Init, LockInv, Holding
<1>2. LockInv => MutualExclusion
  BY DEF LockInv, MutualExclusion
<1> QED BY <1>1, <1>2, LockStep, TypeCorrect, PTL DEF Spec

-----------------------------------------------------------------------------
(* Records are backed by objects, when nothing is purged.  A row is inserted,  *)
(* and metadata saved, long after the upload they rest on: the invariant       *)
(* carries the object through the labels in between.                           *)

PurgeLabel == {"clean", "purge", "purgemeta", "purgepg"}

UploadSeen(s) ==
    /\ Rule # "latest_only" => pc[s] \notin PurgeLabel
    /\ pc[s] = "insert" => CurKey(s) \in s3
    /\ (\/ pc[s] = "meta"
        \/ pc[s] \in {"asset", "upload", "insert"} /\ run[s].up)
          => run[s].tag \in Tags(s3)

BackedInv ==
    /\ \A k \in Key : pgAsset[k] # "none" => k \in s3
    /\ \A t \in meta : t \in Tags(s3)
    /\ \A s \in Syncer : UploadSeen(s)

\* Syncers that do not move keep what they know while objects are only added.
LEMMA UploadSeenKept ==
    ASSUME NEW q, UploadSeen(q), pc'[q] = pc[q], run'[q] = run[q], s3 \subseteq s3'
    PROVE  UploadSeen(q)'
  BY DEF UploadSeen, CurKey, Cur, Tags

\* Objects are added, and with them rows and metadata.
Additions ==
    /\ s3 \subseteq s3'
    /\ \A k \in Key : pgAsset'[k] # "none" => pgAsset[k] # "none" \/ k \in s3'
    /\ \A t \in meta' : t \in meta \/ t \in Tags(s3')

LEMMA SeenBy ==
    ASSUME \A q \in Syncer : UploadSeen(q), NEW s \in Syncer, Additions,
           \A q \in Syncer \ {s} : pc'[q] = pc[q] /\ run'[q] = run[q],
           UploadSeen(s)'
    PROVE  Additions /\ \A q \in Syncer : UploadSeen(q)'
  BY UploadSeenKept DEF Additions

\* A step that leaves the stores alone and ends outside the loops.
LEMMA SeenAside ==
    ASSUME LocalsOK, \A q \in Syncer : UploadSeen(q), NEW s \in Syncer,
           UNCHANGED <<s3, pgAsset, meta>>,
           \A q \in Syncer \ {s} : pc'[q] = pc[q] /\ run'[q] = run[q],
           pc'[s] \notin {"asset", "upload", "insert", "meta"},
           Rule # "latest_only" => pc'[s] \notin PurgeLabel
    PROVE  Additions /\ \A q \in Syncer : UploadSeen(q)'
  BY SeenBy DEF UploadSeen, Additions

LEMMA SeenStep ==
    ASSUME TypeOK, \A q \in Syncer : UploadSeen(q), NEW s \in Syncer, Step(s),
           pc[s] \notin PurgeLabel
    PROVE  Additions /\ \A q \in Syncer : UploadSeen(q)'
<1>t. LocalsOK /\ pc \in [Syncer -> Label] /\ run \in [Syncer -> Local]
      /\ run[s] \in Local /\ AtElement(s)
  BY DEF TypeOK, LocalsOK
<1>u. UploadSeen(s) /\ pc[s] \notin PurgeLabel
  OBVIOUS
<1>v. pgAsset \in [Key -> RowLink]
  BY DEF TypeOK, SharedOK
<1>1. CASE Acquire(s) \/ ReadMark(s) \/ List(s) \/ ListFails(s) \/ SkipRelease(s)
           \/ EndReleases(s) \/ SetMark(s) \/ SetLatest(s)
  <2>1. UNCHANGED <<s3, pgAsset, meta>>
    BY <1>1 DEF Acquire, ReadMark, List, ListFails, SkipRelease, EndReleases,
       SetMark, SetLatest, redis, pg
  <2>2. \A q \in Syncer \ {s} : pc'[q] = pc[q] /\ run'[q] = run[q]
    BY <1>1, <1>t DEF Acquire, ReadMark, List, ListFails, SkipRelease, EndReleases,
       SetMark, SetLatest, Goto, Set
  <2>3. /\ pc'[s] \notin {"asset", "upload", "insert", "meta"}
        /\ Rule # "latest_only" => pc'[s] \notin PurgeLabel
    BY <1>1, <1>t DEF Acquire, ReadMark, List, ListFails, SkipRelease, AtRelease,
       EndReleases, AfterSync, SetMark, SetLatest, Goto, Set, PurgeLabel
  <2> QED BY <2>1, <2>2, <2>3, <1>t, SeenAside
<1>2. CASE RereadMark(s) \/ RewriteMark(s) \/ ReadNewest(s) \/ CreateLog(s)
           \/ UpsertSoftware(s) \/ FinishLog(s) \/ Unlock(s)
  <2>1. UNCHANGED <<s3, pgAsset, meta>>
    BY <1>2 DEF RereadMark, RewriteMark, ReadNewest, CreateLog, UpsertSoftware,
       FinishLog, Unlock, redis, pg
  <2>2. \A q \in Syncer \ {s} : pc'[q] = pc[q] /\ run'[q] = run[q]
    BY <1>2, <1>t DEF RereadMark, RewriteMark, ReadNewest, CreateLog,
       UpsertSoftware, FinishLog, Unlock, Goto, Set
  <2>3. /\ pc'[s] \notin {"asset", "upload", "insert", "meta"}
        /\ Rule # "latest_only" => pc'[s] \notin PurgeLabel
    BY <1>2, <1>t DEF RereadMark, RewriteMark, ReadNewest, CreateLog, FinishOr,
       UpsertSoftware, FinishLog, Unlock, Goto, Set, PurgeLabel
  <2> QED BY <2>1, <2>2, <2>3, <1>t, SeenAside
<1>3. CASE Clean(s) \/ CleanFails(s) \/ PurgeObjects(s) \/ PurgeSkips(s)
           \/ PurgeMeta(s) \/ PurgePg(s) \/ EndPurge(s)
  BY <1>3, <1>u DEF Clean, CleanFails, PurgeObjects, PurgeSkips, PurgeNext,
     PurgeMeta, PurgePg, EndPurge, PurgeLabel
<1>4. CASE BeginRelease(s)
  <2>1. PICK b : Set(s, [run[s] EXCEPT !.tag = run[s].rels[run[s].next].tag,
                                       !.todo = run[s].rels[run[s].next].assets,
                                       !.up = FALSE, !.linked = b])
    BY <1>4 DEF BeginRelease
  <2>2. ~run'[s].up
    BY <2>1, <1>t DEF Set, Local
  <2>3. pc'[s] = "asset" /\ UNCHANGED <<s3, pgAsset, meta>>
    BY <1>4, <1>t DEF BeginRelease, Goto, redis
  <2>4. \A q \in Syncer \ {s} : pc'[q] = pc[q] /\ run'[q] = run[q]
    BY <1>4, <1>t DEF BeginRelease, Goto, Set
  <2>5. UploadSeen(s)'
    BY <2>2, <2>3 DEF UploadSeen, PurgeLabel
  <2> QED BY <2>3, <2>4, <2>5, SeenBy DEF Additions
<1>5. CASE CheckExists(s)
  <2>1. UNCHANGED <<s3, pgAsset, meta>> /\ pc[s] = "asset" /\ run[s].todo # {}
    BY <1>5 DEF CheckExists, redis, pg
  <2>2. \A q \in Syncer \ {s} : pc'[q] = pc[q] /\ run'[q] = run[q]
    BY <1>5, <1>t DEF CheckExists, Goto, Set
  <2>3. pc'[s] \in {"asset", "upload"}
    BY <1>5, <1>t DEF CheckExists, Goto
  <2>4. run'[s].up = run[s].up /\ run'[s].tag = run[s].tag
    BY <1>5, <1>t DEF CheckExists, AssetDone, Local, Set
  <2>5. UploadSeen(s)'
    BY <2>1, <2>3, <2>4, <1>u DEF UploadSeen, PurgeLabel
  <2> QED BY <2>1, <2>2, <2>5, SeenBy DEF Additions
<1>6. CASE Upload(s)
  <2> DEFINE loc(r) == [r EXCEPT !.up = TRUE, !.fresh = TRUE]
  <2>1. \A r \in Local : loc(r).tag = r.tag /\ loc(r).todo = r.todo
    BY DEF Local
  <2>2. AssetDone(s) \in Local /\ AssetDone(s).tag = run[s].tag
    BY <1>6, <1>t, CurDone DEF Upload, AtElement
  <2>3. \/ pc'[s] = "insert" /\ run'[s] = loc(run[s])
        \/ pc'[s] = "asset" /\ run'[s] = loc(AssetDone(s))
    BY <1>6, <1>t DEF Upload, Goto, Set
  <2> HIDE DEF loc
  <2>4. run'[s].tag = run[s].tag /\ (pc'[s] = "insert" => run'[s].todo = run[s].todo)
    BY <2>1, <2>2, <2>3, <1>t
  <2>5. s3' = s3 \cup {CurKey(s)} /\ UNCHANGED <<pgAsset, meta>>
    BY <1>6 DEF Upload, redis, pg
  <2>6. pc'[s] = "insert" => CurKey(s)' = CurKey(s)
    BY <2>4 DEF CurKey, Cur
  <2>7. run'[s].tag \in Tags(s3')
    <3>1. CurKey(s) \in s3' /\ CurKey(s)[1] = run'[s].tag
      BY <2>4, <2>5 DEF CurKey
    <3> QED BY <3>1 DEF Tags
  <2>8. UploadSeen(s)'
    BY <2>3, <2>5, <2>6, <2>7 DEF UploadSeen, PurgeLabel
  <2>9. \A q \in Syncer \ {s} : pc'[q] = pc[q] /\ run'[q] = run[q]
    BY <1>6, <1>t DEF Upload, Goto, Set
  <2>10. \A t \in Tags(s3) : t \in Tags(s3')
    BY <2>5 DEF Tags
  <2> QED BY <2>5, <2>8, <2>9, <2>10, SeenBy DEF Additions
<1>7. CASE UploadFails(s)
  <2>1. AssetDone(s) \in Local /\ AssetDone(s).tag = run[s].tag /\ AssetDone(s).up = run[s].up
    BY <1>7, <1>t, CurDone DEF UploadFails, AtElement, AssetDone, Local
  <2>2. run'[s] = [AssetDone(s) EXCEPT !.failed = TRUE] /\ pc'[s] = "asset" /\ pc[s] = "upload"
    BY <1>7, <1>t DEF UploadFails, Goto, Set
  <2>3. run'[s].tag = run[s].tag /\ run'[s].up = run[s].up
    BY <2>1, <2>2 DEF Local
  <2>4. s3 \subseteq s3' /\ UNCHANGED <<pgAsset, meta>>
    BY <1>7 DEF UploadFails, redis, pg
  <2>5. \A q \in Syncer \ {s} : pc'[q] = pc[q] /\ run'[q] = run[q]
    BY <1>7, <1>t DEF UploadFails, Goto, Set
  <2>6. \A t \in Tags(s3) : t \in Tags(s3')
    BY <2>4 DEF Tags
  <2>7. UploadSeen(s)'
    BY <2>2, <2>3, <2>6, <1>u DEF UploadSeen, PurgeLabel
  <2> QED BY <2>4, <2>5, <2>6, <2>7, SeenBy DEF Additions
<1>8. CASE InsertAsset(s)
  <2>1. AssetDone(s).tag = run[s].tag /\ AssetDone(s).up = run[s].up
    BY <1>8, <1>t DEF AssetDone, Local
  <2>2. run'[s] = AssetDone(s) /\ pc'[s] = "asset" /\ pc[s] = "insert"
    BY <1>8, <1>t DEF InsertAsset, Goto, Set
  <2>3. UNCHANGED <<s3, meta>>
    BY <1>8 DEF InsertAsset, redis
  <2>4. \A k \in Key : pgAsset'[k] # "none" => pgAsset[k] # "none" \/ k = CurKey(s)
    BY <1>8, <1>v DEF InsertAsset
  <2>5. CurKey(s) \in s3
    BY <2>2, <1>u DEF UploadSeen
  <2>6. \A q \in Syncer \ {s} : pc'[q] = pc[q] /\ run'[q] = run[q]
    BY <1>8, <1>t DEF InsertAsset, Goto, Set
  <2>7. UploadSeen(s)'
    BY <2>1, <2>2, <2>3, <1>u DEF UploadSeen, PurgeLabel
  <2> QED BY <2>3, <2>4, <2>5, <2>6, <2>7, SeenBy DEF Additions
<1>9. CASE EndAssets(s)
  <2>1. UNCHANGED <<s3, pgAsset, meta>>
    BY <1>9 DEF EndAssets, redis, pg
  <2>2. \A q \in Syncer \ {s} : pc'[q] = pc[q] /\ run'[q] = run[q]
    BY <1>9, <1>t DEF EndAssets, Goto, Set
  <2>3. CASE Goto(s, "meta") /\ UNCHANGED run
    <3>1. UploadSeen(s)'
      <4>1. pc'[s] = "meta" /\ pc[s] = "asset" /\ run[s].up
        BY <1>9, <2>3, <1>t DEF EndAssets, Goto
      <4> QED BY <4>1, <2>1, <2>3, <1>u DEF UploadSeen, PurgeLabel
    <3> QED BY <2>1, <2>2, <3>1, SeenBy DEF Additions
  <2>4. CASE Goto(s, "release")
    BY <2>1, <2>2, <2>4, <1>t, SeenAside DEF Goto, PurgeLabel
  <2> QED BY <1>9, <2>3, <2>4 DEF EndAssets
<1>10. CASE SaveMeta(s)
  <2>1. UNCHANGED <<s3, pgAsset>> /\ pc[s] = "meta" /\ pc'[s] = "release"
    BY <1>10, <1>t DEF SaveMeta, Goto, pg
  <2>2. \A q \in Syncer \ {s} : pc'[q] = pc[q] /\ run'[q] = run[q]
    BY <1>10, <1>t DEF SaveMeta, Goto, Set
  <2>3. meta' \subseteq meta \cup {run[s].tag}
    BY <1>10 DEF SaveMeta
  <2>4. run[s].tag \in Tags(s3)
    BY <2>1, <1>u DEF UploadSeen
  <2>5. UploadSeen(s)'
    BY <2>1 DEF UploadSeen, PurgeLabel
  <2> QED BY <2>1, <2>2, <2>3, <2>4, <2>5, SeenBy DEF Additions
<1> QED
  BY <1>1, <1>2, <1>3, <1>4, <1>5, <1>6, <1>7, <1>8, <1>9, <1>10 DEF Step

LEMMA BackedMore ==
    ASSUME BackedInv, Additions, \A q \in Syncer : UploadSeen(q)'
    PROVE  BackedInv'
<1>1. \A t \in Tags(s3) : t \in Tags(s3')
  BY DEF Additions, Tags
<1> QED BY <1>1 DEF BackedInv, Additions

LEMMA BackedStep ==
    ASSUME TypeOK, BackedInv, NEW s \in Syncer, Step(s), pc[s] \notin PurgeLabel
    PROVE  BackedInv'
<1>1. Additions /\ \A q \in Syncer : UploadSeen(q)'
  BY SeenStep DEF BackedInv
<1> QED BY <1>1, BackedMore

LEMMA NeverPurging ==
    ASSUME Rule # "latest_only", BackedInv PROVE \A s \in Syncer : pc[s] \notin PurgeLabel
BY DEF BackedInv, UploadSeen

LEMMA SeenEnvironment ==
    ASSUME TypeOK, \A q \in Syncer : UploadSeen(q), Environment
    PROVE  /\ UNCHANGED <<s3, pgAsset>> /\ meta' \subseteq meta
           /\ \A q \in Syncer : UploadSeen(q)'
<1>t. LocalsOK
  BY DEF TypeOK
<1> USE DEF UploadSeen, CurKey, Cur, redis, pg
<1>1. ASSUME NEW t \in Tag, Publish(t) \/ MetaExpires(t)
      PROVE  /\ UNCHANGED <<s3, pgAsset>> /\ meta' \subseteq meta
             /\ \A q \in Syncer : UploadSeen(q)'
  BY <1>1 DEF Publish, MetaExpires
<1>2. CASE (\E k \in Key : AssetReady(k)) \/ LockExpires \/ LockOverrun
  BY <1>2 DEF AssetReady, LockExpires, LockOverrun
<1>4. ASSUME NEW s \in Syncer, Crash(s) \/ Restart(s)
      PROVE  /\ UNCHANGED <<s3, pgAsset>> /\ meta' \subseteq meta
             /\ \A q \in Syncer : UploadSeen(q)'
  <2>1. UNCHANGED <<s3, pgAsset, meta>>
    BY <1>4 DEF Crash, Restart
  <2>2. \A q \in Syncer \ {s} : pc'[q] = pc[q] /\ run'[q] = run[q]
    BY <1>4, <1>t DEF Crash, Restart, Goto, Set, LocalsOK
  <2>3. /\ pc'[s] \notin {"asset", "upload", "insert", "meta"}
        /\ Rule # "latest_only" => pc'[s] \notin PurgeLabel
    BY <1>4, <1>t DEF Crash, Restart, Goto, LocalsOK, PurgeLabel
  <2> QED BY <2>1, <2>2, <2>3, <1>t, SeenAside
<1> QED BY <1>1, <1>2, <1>4 DEF Environment

LEMMA BackedEnvironment ==
    ASSUME TypeOK, BackedInv, Environment PROVE BackedInv'
<1>1. /\ UNCHANGED <<s3, pgAsset>> /\ meta' \subseteq meta
      /\ \A q \in Syncer : UploadSeen(q)'
  BY SeenEnvironment DEF BackedInv
<1> QED BY <1>1 DEF BackedInv

-----------------------------------------------------------------------------
(* The refinement of Mirror.  A syncer works from a copy of GitHub's listing:  *)
(* that what it uploads was offered needs the copy to stay true.              *)

CopyTrue(s) ==
    /\ \A i \in 1..Len(run[s].rels) : \A a \in run[s].rels[i].assets :
          <<run[s].rels[i].tag, a>> \in ready
    /\ pc[s] \in {"asset", "upload", "insert"} =>
          /\ run[s].tag \in Wanted
          /\ \A a \in run[s].todo : <<run[s].tag, a>> \in ready

CopiesTrue == \A s \in Syncer : CopyTrue(s)

LEMMA CopiesKept ==
    ASSUME CopiesTrue, NEW s \in Syncer, ready \subseteq ready',
           \A q \in Syncer \ {s} : pc'[q] = pc[q] /\ run'[q] = run[q],
           CopyTrue(s)'
    PROVE  CopiesTrue'
  BY DEF CopiesTrue, CopyTrue

\* A step that keeps the copy and is not at an asset afterwards.
LEMMA CopyAside ==
    ASSUME CopiesTrue, NEW s \in Syncer, UNCHANGED ready,
           \A q \in Syncer \ {s} : pc'[q] = pc[q] /\ run'[q] = run[q],
           run'[s].rels = run[s].rels \/ run'[s].rels = << >>,
           pc'[s] \notin {"asset", "upload", "insert"}
    PROVE  CopiesTrue'
<1>1. CopyTrue(s)'
  BY DEF CopiesTrue, CopyTrue
<1> QED BY <1>1, CopiesKept

\* A step at an asset, which may drop it from the work list.
LEMMA CopyAtAsset ==
    ASSUME CopiesTrue, NEW s \in Syncer, UNCHANGED ready,
           pc[s] \in {"asset", "upload", "insert"},
           \A q \in Syncer \ {s} : pc'[q] = pc[q] /\ run'[q] = run[q],
           run'[s].rels = run[s].rels, run'[s].tag = run[s].tag,
           run'[s].todo \subseteq run[s].todo
    PROVE  CopiesTrue'
<1>1. CopyTrue(s)'
  BY DEF CopiesTrue, CopyTrue
<1> QED BY <1>1, CopiesKept

LEMMA CopyStep ==
    ASSUME TypeOK, CopiesTrue, NEW s \in Syncer, Step(s), pc[s] \notin PurgeLabel,
           Rule # "latest_only"
    PROVE  CopiesTrue'
<1>t. /\ pc \in [Syncer -> Label] /\ run \in [Syncer -> Local] /\ run[s] \in Local
      /\ AtElement(s)
  BY DEF TypeOK, LocalsOK
<1>c. CopyTrue(s)
  BY DEF CopiesTrue
<1>1. CASE Acquire(s) \/ ListFails(s) \/ Unlock(s)
  <2>1. pc'[s] \notin {"asset", "upload", "insert"} /\ UNCHANGED ready
    BY <1>1, <1>t DEF Acquire, ListFails, Unlock, Goto, github
  <2>3. run'[s] = NewRun
    BY <1>1, <1>t DEF Acquire, ListFails, Unlock, Set
  <2>4. run'[s].rels = << >>
    BY <2>3 DEF NewRun
  <2>2. \A q \in Syncer \ {s} : pc'[q] = pc[q] /\ run'[q] = run[q]
    BY <1>1, <1>t DEF Acquire, ListFails, Unlock, Goto, Set
  <2> QED BY <2>1, <2>2, <2>4, CopyAside
<1>2. CASE ReadMark(s) \/ SkipRelease(s) \/ SaveMeta(s) \/ EndReleases(s)
           \/ SetMark(s) \/ SetLatest(s)
  <2>1. run'[s].rels = run[s].rels
    <3>1. CASE ReadMark(s)
      BY <3>1, <1>t DEF ReadMark, Set, Local
    <3>3. CASE SaveMeta(s)
      <4>1. PICK t : Set(s, [run[s] EXCEPT !.next = @ + 1, !.newest = t])
        BY <3>3 DEF SaveMeta
      <4> QED BY <4>1, <1>t DEF Set, Local
    <3>2. CASE SkipRelease(s) \/ EndReleases(s) \/ SetMark(s) \/ SetLatest(s)
      BY <3>2, <1>t DEF SkipRelease, EndReleases, SetMark, SetLatest, Set, Local
    <3> QED BY <1>2, <3>1, <3>2, <3>3
  <2>4. UNCHANGED ready
    BY <1>2 DEF ReadMark, SkipRelease, SaveMeta, EndReleases, SetMark, SetLatest, github
  <2>2. \A q \in Syncer \ {s} : pc'[q] = pc[q] /\ run'[q] = run[q]
    BY <1>2, <1>t DEF ReadMark, SkipRelease, SaveMeta, EndReleases, SetMark,
       SetLatest, Goto, Set
  <2>3. pc'[s] \notin {"asset", "upload", "insert"}
    BY <1>2, <1>t DEF ReadMark, SkipRelease, AtRelease, SaveMeta, EndReleases,
       AfterSync, SetMark, SetLatest, Goto
  <2> QED BY <2>1, <2>2, <2>3, <2>4, CopyAside
<1>3. CASE RereadMark(s) \/ RewriteMark(s) \/ ReadNewest(s) \/ CreateLog(s)
           \/ UpsertSoftware(s) \/ FinishLog(s)
  <2>1. run'[s].rels = run[s].rels /\ UNCHANGED ready
    BY <1>3, <1>t DEF RereadMark, RewriteMark, ReadNewest, CreateLog,
       UpsertSoftware, FinishLog, Set, Local, github
  <2>2. \A q \in Syncer \ {s} : pc'[q] = pc[q] /\ run'[q] = run[q]
    BY <1>3, <1>t DEF RereadMark, RewriteMark, ReadNewest, CreateLog,
       UpsertSoftware, FinishLog, Goto, Set
  <2>3. pc'[s] \notin {"asset", "upload", "insert"}
    BY <1>3, <1>t DEF RereadMark, RewriteMark, ReadNewest, CreateLog, FinishOr,
       UpsertSoftware, FinishLog, Goto
  <2> QED BY <2>1, <2>2, <2>3, CopyAside
<1>4. CASE List(s)
  <2>1. PICK lost \in 0..Len(releases) :
           Set(s, [run[s] EXCEPT !.rels = Listing(lost), !.next = 1])
    BY <1>4, ListLoses
  <2>2. run'[s].rels = Listing(lost)
    BY <2>1, <1>t DEF Set, Local
  <2>3. \A i \in 1..Len(Listing(lost)) : \A a \in Listing(lost)[i].assets :
           <<Listing(lost)[i].tag, a>> \in ready
    <3>1. releases \in Seq(Tag)
      BY DEF TypeOK, SharedOK
    <3>2. Len(Listing(lost)) = Len(releases) - lost
      BY <3>1 DEF Listing
    <3>3. \A i \in 1..(Len(releases) - lost) :
             /\ Listing(lost)[i].tag = releases[i + lost]
             /\ Listing(lost)[i].assets = {a \in Asset : <<releases[i + lost], a>> \in ready}
      BY DEF Listing
    <3> QED BY <3>2, <3>3
  <2>4. pc'[s] = "release" /\ UNCHANGED ready
    BY <1>4, <1>t DEF List, Goto
  <2>5. \A q \in Syncer \ {s} : pc'[q] = pc[q] /\ run'[q] = run[q]
    BY <1>4, <1>t DEF List, Goto, Set
  <2>6. CopyTrue(s)'
    BY <2>2, <2>3, <2>4 DEF CopyTrue
  <2> QED BY <2>4, <2>5, <2>6, CopiesKept
<1>5. CASE BeginRelease(s)
  <2> DEFINE r == run[s].rels[run[s].next]
  <2>1. run[s].next \in 1..Len(run[s].rels) /\ ~Skipped(run[s].seen, r.tag)
    BY <1>5, <1>t DEF BeginRelease, AtRelease, Local
  <2>2. PICK b : Set(s, [run[s] EXCEPT !.tag = r.tag, !.todo = r.assets,
                                       !.up = FALSE, !.linked = b])
    BY <1>5 DEF BeginRelease
  <2>3. r \in Release
    BY <2>1, <1>t DEF Local
  <2>4. r.tag \in Wanted /\ \A a \in r.assets : <<r.tag, a>> \in ready
    BY <2>1, <2>3, <1>c, TagAssumption DEF Skipped, CopyTrue, Release
  <2> HIDE DEF r
  <2>5. run'[s].rels = run[s].rels /\ run'[s].tag = r.tag /\ run'[s].todo = r.assets
    BY <2>2, <1>t DEF Set, Local
  <2>6. UNCHANGED ready
    BY <1>5 DEF BeginRelease, github
  <2>7. \A q \in Syncer \ {s} : pc'[q] = pc[q] /\ run'[q] = run[q]
    BY <1>5, <1>t DEF BeginRelease, Goto, Set
  <2>8. CopyTrue(s)'
    BY <2>4, <2>5, <2>6, <1>c DEF CopyTrue
  <2> QED BY <2>6, <2>7, <2>8, CopiesKept
<1>6. CASE CheckExists(s) \/ Upload(s) \/ UploadFails(s) \/ InsertAsset(s)
  <2>1. pc[s] \in {"asset", "upload", "insert"} /\ UNCHANGED ready /\ run[s].todo # {}
    BY <1>6, <1>t DEF CheckExists, Upload, UploadFails, InsertAsset, AtElement, github
  <2>2. \A q \in Syncer \ {s} : pc'[q] = pc[q] /\ run'[q] = run[q]
    BY <1>6, <1>t DEF CheckExists, Upload, UploadFails, InsertAsset, Goto, Set
  <2>3. /\ AssetDone(s) \in Local /\ AssetDone(s).rels = run[s].rels
        /\ AssetDone(s).tag = run[s].tag /\ AssetDone(s).todo \subseteq run[s].todo
    BY <2>1, <1>t, CurDone DEF AssetDone, Local
  <2>4. \E r \in {run[s], AssetDone(s)} :
           \/ run'[s] = r
           \/ run'[s] = [r EXCEPT !.up = TRUE, !.fresh = TRUE]
           \/ run'[s] = [r EXCEPT !.failed = TRUE]
    BY <1>6, <1>t DEF CheckExists, Upload, UploadFails, InsertAsset, Set
  <2>5. /\ run'[s].rels = run[s].rels /\ run'[s].tag = run[s].tag
        /\ run'[s].todo \subseteq run[s].todo
    <3>1. PICK r \in {run[s], AssetDone(s)} :
             \/ run'[s] = r
             \/ run'[s] = [r EXCEPT !.up = TRUE, !.fresh = TRUE]
             \/ run'[s] = [r EXCEPT !.failed = TRUE]
      BY <2>4
    <3>2. /\ r \in Local /\ r.rels = run[s].rels /\ r.tag = run[s].tag
          /\ r.todo \subseteq run[s].todo
      BY <2>3, <1>t
    <3>3. run'[s].rels = r.rels /\ run'[s].tag = r.tag /\ run'[s].todo = r.todo
      BY <3>1, <3>2 DEF Local
    <3> QED BY <3>2, <3>3
  <2> QED BY <2>1, <2>2, <2>5, CopyAtAsset
<1>7. CASE EndAssets(s)
  <2>1. run'[s].rels = run[s].rels /\ UNCHANGED ready
    BY <1>7, <1>t DEF EndAssets, Set, Local, github
  <2>2. \A q \in Syncer \ {s} : pc'[q] = pc[q] /\ run'[q] = run[q]
    BY <1>7, <1>t DEF EndAssets, Goto, Set
  <2>3. pc'[s] \notin {"asset", "upload", "insert"}
    BY <1>7, <1>t DEF EndAssets, Goto
  <2> QED BY <2>1, <2>2, <2>3, CopyAside
<1>8. CASE Clean(s) \/ CleanFails(s) \/ PurgeObjects(s) \/ PurgeSkips(s)
           \/ PurgeMeta(s) \/ PurgePg(s) \/ EndPurge(s)
  BY <1>8 DEF Clean, CleanFails, PurgeObjects, PurgeSkips, PurgeNext, PurgeMeta,
     PurgePg, EndPurge, PurgeLabel
<1> QED
  BY <1>1, <1>2, <1>3, <1>4, <1>5, <1>6, <1>7, <1>8 DEF Step

LEMMA CopyEnvironment ==
    ASSUME TypeOK, CopiesTrue, Environment PROVE CopiesTrue'
<1> USE DEF CopiesTrue, CopyTrue
<1>1. ASSUME NEW t \in Tag, Publish(t) \/ MetaExpires(t) PROVE CopiesTrue'
  <2>1. ready \subseteq ready' /\ UNCHANGED <<pc, run>>
    BY <1>1 DEF Publish, MetaExpires, github
  <2> QED BY <2>1
<1>2. ASSUME NEW k \in Key, AssetReady(k) PROVE CopiesTrue'
  <2>1. ready \subseteq ready' /\ UNCHANGED <<pc, run>>
    BY <1>2 DEF AssetReady
  <2> QED BY <2>1
<1>3. CASE LockExpires \/ LockOverrun
  BY <1>3 DEF LockExpires, LockOverrun, github
<1>4. ASSUME NEW s \in Syncer, Crash(s) \/ Restart(s) PROVE CopiesTrue'
  <2>t. pc \in [Syncer -> Label] /\ run \in [Syncer -> Local]
    BY DEF TypeOK, LocalsOK
  <2>1. \A q \in Syncer \ {s} : pc'[q] = pc[q] /\ run'[q] = run[q]
    BY <1>4, <2>t DEF Crash, Restart, Goto, Set
  <2>2. /\ pc'[s] \notin {"asset", "upload", "insert"} /\ UNCHANGED ready
        /\ run'[s].rels = run[s].rels \/ run'[s].rels = << >>
    BY <1>4, <2>t DEF Crash, Restart, Goto, Set, NewRun, github
  <2> QED BY <2>1, <2>2, CopyAside
<1> QED BY <1>1, <1>2, <1>3, <1>4 DEF Environment

-----------------------------------------------------------------------------
\* Every step is one of Mirror's or changes nothing a reader sees.
LEMMA MirrorStep ==
    ASSUME Rule # "latest_only", TypeOK, BackedInv, CopiesTrue, [Next]_vars
    PROVE  [Reading!Next]_(Reading!vars)
<1> USE DEF Reading!vars
<1>t. /\ ready \subseteq Key /\ s3 \subseteq Key /\ meta \subseteq Tag
      /\ pgAsset \in [Key -> RowLink]
  BY DEF TypeOK, SharedOK
<1>q. ASSUME UNCHANGED <<ready, s3, pgAsset, meta>> PROVE UNCHANGED Reading!vars
  BY <1>q
<1>1. ASSUME NEW s \in Syncer, Step(s) PROVE [Reading!Next]_(Reading!vars)
  <2>t. /\ pc \in [Syncer -> Label] /\ run \in [Syncer -> Local] /\ run[s] \in Local
        /\ AtElement(s)
    BY DEF TypeOK, LocalsOK
  <2>c. CopyTrue(s) /\ UploadSeen(s)
    BY DEF CopiesTrue, BackedInv
  <2>1. CASE Upload(s) \/ UploadFails(s)
    <3>1. pc[s] = "upload" /\ run[s].todo # {}
      BY <2>1, <2>t DEF Upload, UploadFails, AtElement
    <3>2. CurKey(s) \in Key /\ Cur(s) \in run[s].todo
      BY <3>1, CurDone
    <3>3. CurKey(s) \in {k \in ready : k[1] \in Wanted}
      BY <3>1, <3>2, <2>c DEF CopyTrue, CurKey
    <3>4. s3' = s3 \cup {CurKey(s)} \/ s3' = s3
      BY <2>1 DEF Upload, UploadFails
    <3>5. UNCHANGED <<ready, pgAsset, meta>>
      BY <2>1 DEF Upload, UploadFails, github, redis, pg
    <3>6. CASE s3' = s3 \cup {CurKey(s)}
      <4>1. Reading!Store(CurKey(s))
        BY <3>3, <3>5, <3>6 DEF Reading!Store
      <4> QED BY <4>1, <3>2 DEF Reading!Next
    <3> QED BY <3>4, <3>5, <3>6, <1>q
  <2>2. CASE InsertAsset(s)
    <3>1. pc[s] = "insert" /\ run[s].todo # {}
      BY <2>2, <2>t DEF InsertAsset, AtElement
    <3>2. CurKey(s) \in Key /\ CurKey(s) \in s3
      BY <3>1, <2>c, CurDone DEF UploadSeen
    <3>3. UNCHANGED <<ready, s3, meta>>
      BY <2>2 DEF InsertAsset, github, redis
    <3>4. \/ UNCHANGED pgAsset
          \/ \E l \in {"linked", "orphan"} : pgAsset' = [pgAsset EXCEPT ![CurKey(s)] = l]
      BY <2>2 DEF InsertAsset
    <3>5. ASSUME NEW l \in {"linked", "orphan"}, pgAsset' = [pgAsset EXCEPT ![CurKey(s)] = l]
          PROVE  [Reading!Next]_(Reading!vars)
      <4>1. \A k \in Key : pgAsset'[k] # "none" <=> pgAsset[k] # "none" \/ k = CurKey(s)
        BY <3>2, <3>5, <1>t
      <4>2. {k \in Key : pgAsset'[k] # "none"} = {k \in Key : pgAsset[k] # "none"} \cup {CurKey(s)}
        BY <4>1, <3>2
      <4>3. PICK o \in Key : o = CurKey(s)
        BY <3>2
      <4>4. Reading!Record(o)
        BY <4>2, <4>3, <3>2, <3>3 DEF Reading!Record
      <4> QED BY <4>4 DEF Reading!Next
    <3> QED BY <3>3, <3>4, <3>5, <1>q
  <2>3. CASE SaveMeta(s)
    <3>1. run[s].tag \in Tags(s3)
      BY <2>3, <2>c DEF SaveMeta, UploadSeen
    <3>2. meta' = meta \cup {run[s].tag} \/ meta' = meta
      BY <2>3 DEF SaveMeta
    <3>3. UNCHANGED <<ready, s3, pgAsset>>
      BY <2>3 DEF SaveMeta, github, pg
    <3>4. CASE meta' = meta \cup {run[s].tag}
      <4>1. Reading!Entitle(run[s].tag)
        BY <3>1, <3>3, <3>4 DEF Reading!Entitle, Reading!TagsOf, Tags
      <4>2. run[s].tag \in Reading!TagsOf(Key)
        BY <3>1, <1>t DEF Reading!TagsOf, Tags
      <4> QED BY <4>1, <4>2 DEF Reading!Next
    <3> QED BY <3>2, <3>3, <3>4, <1>q
  <2>4. CASE Acquire(s) \/ ReadMark(s) \/ List(s) \/ ListFails(s) \/ SkipRelease(s)
             \/ BeginRelease(s) \/ CheckExists(s) \/ EndAssets(s) \/ EndReleases(s)
             \/ SetMark(s) \/ SetLatest(s)
    <3>1. UNCHANGED <<ready, s3, pgAsset, meta>>
      BY <2>4 DEF Acquire, ReadMark, List, ListFails, SkipRelease, BeginRelease,
         CheckExists, EndAssets, EndReleases, SetMark, SetLatest, github, redis, pg
    <3> QED BY <3>1, <1>q
  <2>5. CASE RereadMark(s) \/ RewriteMark(s) \/ ReadNewest(s) \/ CreateLog(s)
             \/ UpsertSoftware(s) \/ FinishLog(s) \/ Unlock(s)
    <3>1. UNCHANGED <<ready, s3, pgAsset, meta>>
      BY <2>5 DEF RereadMark, RewriteMark, ReadNewest, CreateLog, UpsertSoftware,
         FinishLog, Unlock, github, redis, pg
    <3> QED BY <3>1, <1>q
  <2>6. CASE Clean(s) \/ CleanFails(s) \/ PurgeObjects(s) \/ PurgeSkips(s)
             \/ PurgeMeta(s) \/ PurgePg(s) \/ EndPurge(s)
    BY <2>6, <2>c DEF Clean, CleanFails, PurgeObjects, PurgeSkips, PurgeNext,
       PurgeMeta, PurgePg, EndPurge, PurgeLabel, UploadSeen
  <2> QED BY <1>1, <2>1, <2>2, <2>3, <2>4, <2>5, <2>6 DEF Step
<1>2. ASSUME NEW t \in Tag, Publish(t) \/ (\E k \in Key : AssetReady(k))
      PROVE  [Reading!Next]_(Reading!vars)
  <2>1. ready \subseteq ready' /\ ready' \subseteq Key
    BY <1>2, <1>t DEF Publish, AssetReady, Key
  <2>2. UNCHANGED <<s3, pgAsset, meta>>
    BY <1>2 DEF Publish, AssetReady, redis, pg
  <2>3. Reading!Offer
    BY <2>1, <2>2 DEF Reading!Offer
  <2> QED BY <2>3 DEF Reading!Next
<1>3. ASSUME NEW t \in Tag, MetaExpires(t) PROVE [Reading!Next]_(Reading!vars)
  <2>1. Reading!Forget
    BY <1>3 DEF MetaExpires, Reading!Forget, github, pg
  <2> QED BY <2>1 DEF Reading!Next
<1>4. CASE LockExpires \/ LockOverrun \/ (\E s \in Syncer : Crash(s) \/ Restart(s))
           \/ UNCHANGED vars
  <2>1. UNCHANGED <<ready, s3, pgAsset, meta>>
    BY <1>4 DEF LockExpires, LockOverrun, Crash, Restart, vars, github, redis, pg
  <2> QED BY <2>1, <1>q
<1>5. ASSUME NEW k \in Key, AssetReady(k) PROVE [Reading!Next]_(Reading!vars)
  <2>1. k[1] \in Tag
    BY DEF Key
  <2> QED BY <1>2, <1>5, <2>1
<1> QED BY <1>1, <1>2, <1>3, <1>4, <1>5 DEF Next, Environment

\* Without a cleanup, for any number of instances, releases and failures, readers
\* see a mirror that only grows and lists nothing it does not have.
THEOREM RefinesMirror ==
    ASSUME Rule # "latest_only" PROVE Spec => ImplementsMirror
<1>1. Init => BackedInv /\ CopiesTrue /\ Reading!Init
  BY DEF Init, BackedInv, UploadSeen, PurgeLabel, CopiesTrue, CopyTrue, NewRun,
     Reading!Init
<1>2. TypeOK /\ BackedInv /\ CopiesTrue /\ [Next]_vars
        => BackedInv' /\ CopiesTrue' /\ [Reading!Next]_(Reading!vars)
  <2> SUFFICES ASSUME TypeOK, BackedInv, CopiesTrue, [Next]_vars
               PROVE  BackedInv' /\ CopiesTrue' /\ [Reading!Next]_(Reading!vars)
    OBVIOUS
  <2>1. CASE UNCHANGED vars
    BY <2>1, MirrorStep DEF vars, github, redis, pg, BackedInv, UploadSeen, CurKey,
       Cur, CopiesTrue, CopyTrue
  <2>2. ASSUME NEW s \in Syncer, Step(s) PROVE BackedInv' /\ CopiesTrue'
    <3>1. pc[s] \notin PurgeLabel
      BY DEF BackedInv, UploadSeen
    <3> QED BY <2>2, <3>1, BackedStep, CopyStep
  <2>3. CASE Environment
    BY <2>3, BackedEnvironment, CopyEnvironment, MirrorStep
  <2> QED BY <2>1, <2>2, <2>3, MirrorStep DEF Next
<1> QED BY <1>1, <1>2, TypeCorrect, PTL DEF Spec, ImplementsMirror, Reading!Spec

-----------------------------------------------------------------------------
(* A synchronisation that is logged as a success.  Looked follows the loops of *)
(* a run that has not failed an asset: the releases before the one it is at    *)
(* are complete, and of that one the assets it is through with.               *)

\* Release i of a run's listing is complete, or not looked at.
Got(r, i, objects) ==
    \/ Skipped(r.seen, r.rels[i].tag)
    \/ \A a \in r.rels[i].assets : <<r.rels[i].tag, a>> \in objects

LoopLabel == {"release", "asset", "upload", "insert", "meta"}
EndLabel  == {"setmark", "setlatest", "reread", "rewrite", "newest", "log", "software",
              "finishlog", "unlock"}

Looked(l, r, objects) ==
    ~r.failed =>
        /\ l \in LoopLabel =>
              \A i \in 1..Len(r.rels) : i < r.next => Got(r, i, objects)
        /\ l \in {"asset", "upload", "insert"} =>
              \A a \in r.rels[r.next].assets \ r.todo : <<r.tag, a>> \in objects
        /\ l = "meta" => Got(r, r.next, objects)
        /\ l \in EndLabel => \A i \in 1..Len(r.rels) : Got(r, i, objects)

Logged(l, r, status) ==
    /\ PgEnabled \/ (status = "none" /\ l \notin {"log", "software", "finishlog"})
    /\ l \in {"software", "finishlog"} /\ r.logged => status = "running"
    /\ l = "unlock" /\ r.logged /\ status = "success" => ~r.failed

LookedInv == \A s \in Syncer : /\ Looked(pc[s], run[s], s3)
                               /\ Logged(pc[s], run[s], pgLog[s])

\* Without purges a step of a syncer adds objects, and leaves the others alone.
LEMMA StepAlone ==
    ASSUME TypeOK, NEW s \in Syncer, Step(s), pc[s] \notin PurgeLabel
    PROVE  /\ s3 \subseteq s3'
           /\ \A q \in Syncer \ {s} : /\ pc'[q] = pc[q] /\ run'[q] = run[q]
                                      /\ pgLog'[q] = pgLog[q]
<1>t. /\ pc \in [Syncer -> Label] /\ run \in [Syncer -> Local]
      /\ pgLog \in [Syncer -> Status]
  BY DEF TypeOK, LocalsOK, SharedOK
<1> USE DEF Goto, Set, pg
<1>1. CASE Acquire(s) \/ ReadMark(s) \/ List(s) \/ ListFails(s) \/ SkipRelease(s) \/ BeginRelease(s)
  BY <1>1, <1>t DEF Acquire, ReadMark, List, ListFails, SkipRelease, BeginRelease
<1>2. CASE CheckExists(s) \/ Upload(s) \/ UploadFails(s) \/ InsertAsset(s)
           \/ EndAssets(s) \/ SaveMeta(s)
  BY <1>2, <1>t DEF CheckExists, Upload, UploadFails, InsertAsset, EndAssets, SaveMeta
<1>3. CASE EndReleases(s) \/ SetMark(s) \/ SetLatest(s) \/ RereadMark(s) \/ RewriteMark(s)
  BY <1>3, <1>t DEF EndReleases, SetMark, SetLatest, RereadMark, RewriteMark
<1>4. CASE ReadNewest(s) \/ CreateLog(s) \/ UpsertSoftware(s) \/ FinishLog(s) \/ Unlock(s)
  BY <1>4, <1>t DEF ReadNewest, CreateLog, UpsertSoftware, FinishLog, Unlock
<1>5. CASE Clean(s) \/ CleanFails(s) \/ PurgeObjects(s) \/ PurgeSkips(s)
           \/ PurgeMeta(s) \/ PurgePg(s) \/ EndPurge(s)
  BY <1>5 DEF Clean, CleanFails, PurgeObjects, PurgeSkips, PurgeNext, PurgeMeta,
     PurgePg, EndPurge, PurgeLabel
<1> QED BY <1>1, <1>2, <1>3, <1>4, <1>5 DEF Step

LEMMA LookedMore ==
    ASSUME NEW l, NEW r, NEW o, NEW p, o \subseteq p, Looked(l, r, o)
    PROVE  Looked(l, r, p)
  BY DEF Looked, Got

\* After the loops, a step that keeps the listing keeps what was found.
Listed(j, k) == j.rels = k.rels /\ j.seen = k.seen /\ j.failed = k.failed
LEMMA LookedOn ==
    ASSUME NEW j, NEW k, NEW o, NEW l \in EndLabel, NEW m \in EndLabel,
           Looked(l, k, o), Listed(j, k)
    PROVE  Looked(m, j, o)
  BY DEF Looked, Listed, Got, EndLabel, LoopLabel

LEMMA LocalFields ==
    ASSUME NEW r \in Local, NEW t
    PROVE  Listed([r EXCEPT !.newest = t], r) /\ Listed([r EXCEPT !.errs = t], r)
  BY DEF Local, Listed

LEMMA StepLeavesLog ==
    ASSUME NEW s \in Syncer, Step(s), ~CreateLog(s), ~FinishLog(s)
    PROVE  pgLog' = pgLog
<1> USE DEF pg
<1>1. CASE Acquire(s) \/ ReadMark(s) \/ List(s) \/ ListFails(s) \/ SkipRelease(s) \/ BeginRelease(s)
  BY <1>1 DEF Acquire, ReadMark, List, ListFails, SkipRelease, BeginRelease
<1>2. CASE CheckExists(s) \/ Upload(s) \/ UploadFails(s) \/ InsertAsset(s)
           \/ EndAssets(s) \/ SaveMeta(s)
  BY <1>2 DEF CheckExists, Upload, UploadFails, InsertAsset, EndAssets, SaveMeta
<1>3. CASE EndReleases(s) \/ SetMark(s) \/ SetLatest(s) \/ RereadMark(s) \/ RewriteMark(s)
  BY <1>3 DEF EndReleases, SetMark, SetLatest, RereadMark, RewriteMark
<1>4. CASE ReadNewest(s) \/ UpsertSoftware(s) \/ Unlock(s)
  BY <1>4 DEF ReadNewest, UpsertSoftware, Unlock
<1>5. CASE Clean(s) \/ CleanFails(s) \/ PurgeObjects(s) \/ PurgeSkips(s)
           \/ PurgeMeta(s) \/ PurgePg(s) \/ EndPurge(s)
  BY <1>5 DEF Clean, CleanFails, PurgeObjects, PurgeSkips, PurgeMeta, PurgePg, EndPurge
<1> QED BY <1>1, <1>2, <1>3, <1>4, <1>5 DEF Step

LEMMA MovedSelf ==
    ASSUME TypeOK, NEW s \in Syncer
    PROVE  /\ \A l : Goto(s, l) => pc'[s] = l
           /\ \A r : Set(s, r) => run'[s] = r
  BY DEF TypeOK, LocalsOK, Goto, Set

\* The looked-at assets grow by the asset of a step that found or stored it.
LEMMA LookedAsset ==
    ASSUME TypeOK, NEW s \in Syncer, pc[s] \in {"asset", "upload", "insert"},
           run[s].todo # {}, NEW o, s3 \subseteq o, CurKey(s) \in o,
           Looked(pc[s], run[s], s3), NEW r, Listed(r, AssetDone(s)),
           r.next = run[s].next, r.tag = run[s].tag, r.todo = AssetDone(s).todo
    PROVE  Looked("asset", r, o)
<1>1. run[s] \in Local
  BY DEF TypeOK, LocalsOK
<1>2. /\ AssetDone(s).todo = run[s].todo \ {Cur(s)}
      /\ Listed(AssetDone(s), run[s])
  BY <1>1 DEF AssetDone, Local, Listed
<1>3. r.rels = run[s].rels /\ r.seen = run[s].seen /\ r.failed = run[s].failed
  BY <1>2 DEF Listed
<1>4. SUFFICES ASSUME ~r.failed PROVE
          /\ \A i \in 1..Len(r.rels) : i < r.next => Got(r, i, o)
          /\ \A a \in r.rels[r.next].assets \ r.todo : <<r.tag, a>> \in o
  BY DEF Looked, EndLabel
<1>5. /\ \A i \in 1..Len(run[s].rels) : i < run[s].next => Got(run[s], i, s3)
      /\ \A a \in run[s].rels[run[s].next].assets \ run[s].todo : <<run[s].tag, a>> \in s3
  BY <1>3, <1>4 DEF Looked, LoopLabel
<1>6. \A i \in 1..Len(r.rels) : i < r.next => Got(r, i, o)
  BY <1>3, <1>5 DEF Got
<1>7. \A a \in r.rels[r.next].assets \ r.todo : <<r.tag, a>> \in o
  BY <1>2, <1>3, <1>5 DEF CurKey
<1> QED BY <1>6, <1>7

LEMMA LookedNext ==
    ASSUME NEW r \in Local, NEW o, NEW l \in {"release", "asset", "meta"},
           Looked(l, r, o), ~r.failed => Got(r, r.next, o),
           NEW j, Listed(j, r), j.next = r.next + 1
    PROVE  Looked("release", j, o)
<1>1. r.next \in Nat /\ Len(r.rels) \in Nat
  BY DEF Local
<1>2. SUFFICES ASSUME ~j.failed, NEW i \in 1..Len(j.rels), i < j.next
               PROVE Got(j, i, o)
  BY DEF Looked, EndLabel
<1>3. ~r.failed /\ i \in 1..Len(r.rels)
  BY <1>2 DEF Listed
<1>4. i < r.next \/ i = r.next
  BY <1>1, <1>2, <1>3
<1>5. Got(r, i, o)
  BY <1>3, <1>4 DEF Looked, LoopLabel
<1> QED BY <1>5 DEF Got, Listed

LEMMA LookedSelf ==
    ASSUME Rule # "latest_only", TypeOK, BackedInv, LookedInv,
           NEW s \in Syncer, Step(s), pc[s] \notin PurgeLabel
    PROVE  Looked(pc'[s], run'[s], s3') /\ Logged(pc'[s], run'[s], pgLog'[s])
<1>t. run[s] \in Local /\ AtElement(s)
  BY DEF TypeOK, LocalsOK
<1>s. s3 \subseteq s3'
  BY StepAlone
<1>l. Looked(pc[s], run[s], s3) /\ Logged(pc[s], run[s], pgLog[s])
  BY DEF LookedInv
<1>m. Looked(pc[s], run[s], s3')
  BY <1>s, <1>l, LookedMore
<1>p. PgEnabled \/ pgLog'[s] = "none"
  <2>1. SUFFICES ASSUME ~PgEnabled PROVE pgLog' = pgLog
    BY <1>l DEF Logged
  <2>2. ~CreateLog(s) /\ ~FinishLog(s)
    BY <2>1, <1>l DEF Logged, CreateLog, FinishLog
  <2> QED BY <2>2, StepLeavesLog
<1>v. \A r, o : \A l \in {"idle", "down", "mark", "list"} :
          Looked(l, r, o) /\ Logged(l, r, pgLog'[s])
  BY <1>p DEF Looked, Logged, LoopLabel, EndLabel
<1>w. \A r : \A l \in LoopLabel \cup {"setmark", "setlatest", "reread", "rewrite", "newest"} :
          Logged(l, r, pgLog'[s])
  BY <1>p DEF Logged, LoopLabel
<1>1. CASE Acquire(s) \/ ReadMark(s) \/ ListFails(s) \/ Unlock(s)
  <2>1. pc'[s] \in {"idle", "down", "mark", "list"}
    BY <1>1, MovedSelf DEF Acquire, ReadMark, ListFails, Unlock
  <2> QED BY <2>1, <1>v
<1>2. CASE List(s)
  <2>1. PICK x : Set(s, [run[s] EXCEPT !.rels = x, !.next = 1]) /\ Goto(s, "release")
    BY <1>2 DEF List
  <2>2. [run[s] EXCEPT !.rels = x, !.next = 1].next = 1
    BY <1>t DEF Local
  <2>3. pc'[s] = "release" /\ run'[s].next = 1
    BY <2>1, <2>2, MovedSelf
  <2> QED BY <2>3, <1>w DEF Looked, LoopLabel, EndLabel
<1>3. CASE SkipRelease(s)
  <2>1. /\ pc[s] = "release" /\ UNCHANGED <<pc, s3>>
        /\ Skipped(run[s].seen, run[s].rels[run[s].next].tag)
        /\ Set(s, [run[s] EXCEPT !.next = run[s].next + 1])
    BY <1>3 DEF SkipRelease, AtRelease
  <2>2. Got(run[s], run[s].next, s3)
    BY <2>1 DEF Got
  <2> DEFINE loc == [run[s] EXCEPT !.next = run[s].next + 1]
  <2>4. Listed(loc, run[s]) /\ loc.next = run[s].next + 1
    BY <1>t DEF Local, Listed
  <2>5. run'[s] = loc
    BY <2>1, MovedSelf
  <2> HIDE DEF loc
  <2>3. Looked("release", run'[s], s3)
    BY <2>1, <2>2, <2>4, <2>5, <1>t, <1>l, LookedNext
  <2> QED BY <2>1, <2>3, <1>w DEF LoopLabel
<1>4. CASE BeginRelease(s)
  <2> DEFINE r == run[s].rels[run[s].next]
  <2> DEFINE loc(b) == [run[s] EXCEPT !.tag = r.tag, !.todo = r.assets,
                                      !.up = FALSE, !.linked = b]
  <2>1. PICK b \in BOOLEAN : Set(s, loc(b)) /\ Goto(s, "asset")
    BY <1>4 DEF BeginRelease
  <2>2. pc[s] = "release" /\ s3' = s3
    BY <1>4 DEF BeginRelease, AtRelease
  <2>3. /\ Listed(loc(b), run[s]) /\ loc(b).next = run[s].next
        /\ loc(b).todo = r.assets
    <3> HIDE DEF r
    <3> QED BY <1>t DEF Local, Listed
  <2>4. pc'[s] = "asset" /\ run'[s] = loc(b)
    BY <2>1, MovedSelf
  <2> HIDE DEF loc
  <2>5. Looked("asset", run'[s], s3)
    BY <2>2, <2>3, <2>4, <1>l DEF Looked, Listed, Got, LoopLabel, EndLabel
  <2> QED BY <2>2, <2>4, <2>5, <1>w DEF LoopLabel
<1>5. CASE CheckExists(s)
  <2>1. pc[s] = "asset" /\ run[s].todo # {} /\ s3' = s3
    BY <1>5 DEF CheckExists
  <2>2. CASE CurKey(s) \in s3 /\ Set(s, AssetDone(s)) /\ UNCHANGED pc
    <3>1. run'[s] = AssetDone(s)
      BY <2>2, MovedSelf
    <3>2. Looked("asset", run'[s], s3)
      BY <2>1, <2>2, <3>1, <1>l, CurDone, LookedAsset DEF Listed
    <3> QED BY <2>1, <2>2, <3>2, <1>w DEF LoopLabel
  <2>3. CASE Goto(s, "upload") /\ UNCHANGED run
    <3>1. pc'[s] = "upload" /\ run'[s] = run[s]
      BY <2>3, MovedSelf
    <3>2. Looked("upload", run[s], s3)
      BY <2>1, <1>l DEF Looked, LoopLabel, EndLabel
    <3> QED BY <2>1, <3>1, <3>2, <1>w DEF LoopLabel
  <2> QED BY <1>5, <2>2, <2>3 DEF CheckExists
<1>6. CASE Upload(s)
  <2> DEFINE loc(r) == [r EXCEPT !.up = TRUE, !.fresh = TRUE]
  <2>1. pc[s] = "upload" /\ s3' = s3 \cup {CurKey(s)} /\ run[s].todo # {}
    BY <1>6, <1>t DEF Upload, AtElement
  <2>2. \A r \in Local : /\ Listed(loc(r), r) /\ loc(r).next = r.next
                         /\ loc(r).tag = r.tag /\ loc(r).todo = r.todo
    BY DEF Local, Listed
  <2>3. \/ Set(s, loc(run[s])) /\ Goto(s, "insert")
        \/ Set(s, loc(AssetDone(s))) /\ Goto(s, "asset")
    BY <1>6 DEF Upload
  <2> HIDE DEF loc
  <2>4. CASE Set(s, loc(run[s])) /\ Goto(s, "insert")
    <3>1. pc'[s] = "insert" /\ run'[s] = loc(run[s])
      BY <2>4, MovedSelf
    <3>2. Looked("insert", run'[s], s3')
      BY <2>1, <2>2, <3>1, <1>m, <1>t DEF Looked, Listed, Got, LoopLabel, EndLabel
    <3> QED BY <3>1, <3>2, <1>w DEF LoopLabel
  <2>5. CASE Set(s, loc(AssetDone(s))) /\ Goto(s, "asset")
    <3>1. pc'[s] = "asset" /\ run'[s] = loc(AssetDone(s))
      BY <2>5, MovedSelf
    <3>2. /\ AssetDone(s) \in Local /\ AssetDone(s).next = run[s].next
          /\ AssetDone(s).tag = run[s].tag
      BY <2>1, CurDone
    <3>3. Looked("asset", run'[s], s3')
      BY <2>1, <2>2, <3>1, <3>2, <1>l, <1>s, LookedAsset
    <3> QED BY <3>1, <3>3, <1>w DEF LoopLabel
  <2> QED BY <2>3, <2>4, <2>5
<1>7. CASE UploadFails(s)
  <2>1. pc[s] = "upload" /\ run[s].todo # {}
    BY <1>7, <1>t DEF UploadFails, AtElement
  <2>2. AssetDone(s) \in Local
    BY <2>1, CurDone
  <2>3. Set(s, [AssetDone(s) EXCEPT !.failed = TRUE]) /\ Goto(s, "asset")
    BY <1>7 DEF UploadFails
  <2>4. [AssetDone(s) EXCEPT !.failed = TRUE].failed
    BY <2>2 DEF Local
  <2>5. pc'[s] = "asset" /\ run'[s].failed
    BY <2>3, <2>4, MovedSelf
  <2> QED BY <2>5, <1>w DEF Looked, LoopLabel
<1>8. CASE InsertAsset(s)
  <2>1. /\ pc[s] = "insert" /\ run[s].todo # {} /\ s3' = s3
        /\ Set(s, AssetDone(s)) /\ Goto(s, "asset")
    BY <1>8, <1>t DEF InsertAsset, AtElement
  <2>2. CurKey(s) \in s3
    BY <2>1 DEF BackedInv, UploadSeen
  <2>3. pc'[s] = "asset" /\ run'[s] = AssetDone(s)
    BY <2>1, MovedSelf
  <2>4. Looked("asset", run'[s], s3)
    BY <2>1, <2>2, <2>3, <1>l, CurDone, LookedAsset DEF Listed
  <2> QED BY <2>1, <2>3, <2>4, <1>w DEF LoopLabel
<1>9. CASE EndAssets(s)
  <2>1. /\ pc[s] = "asset" /\ run[s].todo = {} /\ s3' = s3
        /\ run[s].tag = run[s].rels[run[s].next].tag
    BY <1>9, <1>t DEF EndAssets, AtElement
  <2>2. ~run[s].failed => Got(run[s], run[s].next, s3)
    BY <2>1, <1>l DEF Looked, Got
  <2>3. CASE Goto(s, "meta") /\ UNCHANGED run
    <3>1. pc'[s] = "meta" /\ run'[s] = run[s]
      BY <2>3, MovedSelf
    <3>2. Looked("meta", run[s], s3)
      BY <2>1, <2>2, <1>l DEF Looked, LoopLabel, EndLabel
    <3> QED BY <2>1, <3>1, <3>2, <1>w DEF LoopLabel
  <2>4. CASE Goto(s, "release") /\ Set(s, [run[s] EXCEPT !.next = run[s].next + 1])
    <3>1. pc'[s] = "release" /\ run'[s] = [run[s] EXCEPT !.next = run[s].next + 1]
      BY <2>4, MovedSelf
    <3> DEFINE loc == [run[s] EXCEPT !.next = run[s].next + 1]
    <3>3. Listed(loc, run[s]) /\ loc.next = run[s].next + 1
      BY <1>t DEF Local, Listed
    <3>4. run'[s] = loc
      BY <3>1
    <3> HIDE DEF loc
    <3>2. Looked("release", run'[s], s3)
      BY <2>1, <2>2, <3>3, <3>4, <1>t, <1>l, LookedNext
    <3> QED BY <2>1, <3>1, <3>2, <1>w DEF LoopLabel
  <2> QED BY <1>9, <2>3, <2>4 DEF EndAssets
<1>10. CASE SaveMeta(s)
  <2>1. pc[s] = "meta" /\ s3' = s3
    BY <1>10 DEF SaveMeta
  <2>2. PICK t : /\ Set(s, [run[s] EXCEPT !.next = run[s].next + 1, !.newest = t])
                 /\ Goto(s, "release")
    BY <1>10 DEF SaveMeta
  <2>3. /\ pc'[s] = "release"
        /\ run'[s] = [run[s] EXCEPT !.next = run[s].next + 1, !.newest = t]
    BY <2>2, MovedSelf
  <2>4. ~run[s].failed => Got(run[s], run[s].next, s3)
    BY <2>1, <1>l DEF Looked
  <2> DEFINE loc == [run[s] EXCEPT !.next = run[s].next + 1, !.newest = t]
  <2>6. Listed(loc, run[s]) /\ loc.next = run[s].next + 1
    BY <1>t DEF Local, Listed
  <2>7. run'[s] = loc
    BY <2>3
  <2> HIDE DEF loc
  <2>5. Looked("release", run'[s], s3)
    BY <2>1, <2>4, <2>6, <2>7, <1>t, <1>l, LookedNext
  <2> QED BY <2>1, <2>3, <2>5, <1>w DEF LoopLabel
<1>11. CASE EndReleases(s)
  <2>1. /\ pc[s] = "release" /\ run[s].next > Len(run[s].rels)
        /\ run' = run /\ s3' = s3
    BY <1>11 DEF EndReleases
  <2>2. pc'[s] \in {"setmark", "reread", "newest"}
    BY <1>11, MovedSelf DEF EndReleases, AfterSync
  <2>3. \A i \in 1..Len(run[s].rels) : i < run[s].next
    BY <2>1, <1>t DEF Local
  <2>4. \A l \in EndLabel : Looked(l, run[s], s3)
    BY <2>1, <2>3, <1>l DEF Looked, LoopLabel, EndLabel
  <2> QED BY <2>1, <2>2, <2>4, <1>w DEF EndLabel
<1>12. CASE SetMark(s) \/ SetLatest(s) \/ RereadMark(s) \/ RewriteMark(s) \/ ReadNewest(s)
  <2>1. pc[s] \in EndLabel
    BY <1>12 DEF SetMark, SetLatest, RereadMark, RewriteMark, ReadNewest, EndLabel
  <2>2. CASE SetMark(s) \/ SetLatest(s) \/ RereadMark(s) \/ RewriteMark(s)
    <3>1. pc'[s] \in {"setlatest", "reread", "rewrite", "newest"}
      BY <2>2, MovedSelf DEF SetMark, SetLatest, RereadMark, RewriteMark, AfterSync
    <3>2. Listed(run'[s], run[s])
      <4>1. CASE SetMark(s)
        <5>1. PICK b : Set(s, [run[s] EXCEPT !.errs = b])
          BY <4>1 DEF SetMark
        <5>2. Listed([run[s] EXCEPT !.errs = b], run[s])
          BY <1>t, LocalFields
        <5> QED BY <5>1, <5>2, MovedSelf
      <4>2. CASE RereadMark(s)
        <5>1. PICK t : Set(s, [run[s] EXCEPT !.newest = t])
          BY <4>2 DEF RereadMark
        <5>2. Listed([run[s] EXCEPT !.newest = t], run[s])
          BY <1>t, LocalFields
        <5> QED BY <5>1, <5>2, MovedSelf
      <4>3. CASE SetLatest(s) \/ RewriteMark(s)
        BY <4>3 DEF SetLatest, RewriteMark, Listed
      <4> QED BY <2>2, <4>1, <4>2, <4>3
    <3> QED BY <2>1, <3>1, <3>2, <1>m, <1>w, LookedOn DEF EndLabel
  <2>3. CASE ReadNewest(s)
    <3>1. pc'[s] \in {"log", "unlock"}
      BY <2>3, MovedSelf DEF ReadNewest
    <3>2. Listed(run'[s], run[s])
      <4>1. PICK t : Set(s, [run[s] EXCEPT !.newest = t])
        BY <2>3 DEF ReadNewest
      <4>2. Listed([run[s] EXCEPT !.newest = t], run[s])
        BY <1>t, LocalFields
      <4> QED BY <4>1, <4>2, MovedSelf
    <3>3. Looked(pc'[s], run'[s], s3')
      BY <2>1, <3>1, <3>2, <1>m, LookedOn DEF EndLabel
    <3>4. pc'[s] = "log" => PgEnabled
      BY <2>3, MovedSelf DEF ReadNewest
    <3>5. pc'[s] = "unlock" => ~PgEnabled
      BY <2>3, MovedSelf DEF ReadNewest
    <3> QED BY <3>1, <3>3, <3>4, <3>5, <1>p DEF Logged
  <2> QED BY <1>12, <2>2, <2>3
<1>g. pgLog \in [Syncer -> Status]
  BY DEF TypeOK, SharedOK
<1>13. CASE CreateLog(s)
  <2>1. pc[s] = "log" /\ s3' = s3
    BY <1>13 DEF CreateLog
  <2>2. PgEnabled
    BY <2>1, <1>l DEF Logged
  <2>3. PICK ok \in BOOLEAN :
           /\ pgLog' = IF ok THEN [pgLog EXCEPT ![s] = "running"] ELSE pgLog
           /\ Set(s, [run[s] EXCEPT !.logged = ok])
           /\ Goto(s, IF run[s].fresh THEN "software" ELSE FinishOr(ok))
    BY <1>13 DEF CreateLog
  <2>4. /\ Listed(run'[s], run[s]) /\ run'[s].logged = ok
        /\ pc'[s] \in {"software", "finishlog", "unlock"}
        /\ pc'[s] = "unlock" => ~ok
    <3>1. /\ Listed([run[s] EXCEPT !.logged = ok], run[s])
          /\ [run[s] EXCEPT !.logged = ok].logged = ok
      BY <1>t DEF Local, Listed
    <3>2. run'[s] = [run[s] EXCEPT !.logged = ok]
      BY <2>3, MovedSelf
    <3>3. pc'[s] = IF run[s].fresh THEN "software" ELSE FinishOr(ok)
      BY <2>3, MovedSelf
    <3> QED BY <3>1, <3>2, <3>3 DEF FinishOr
  <2>5. ok => pgLog'[s] = "running"
    BY <2>3, <1>g
  <2>6. Looked(pc'[s], run'[s], s3')
    BY <2>1, <2>4, <1>m, LookedOn DEF EndLabel
  <2> QED BY <2>2, <2>4, <2>5, <2>6 DEF Logged
<1>14. CASE UpsertSoftware(s)
  <2>1. pc[s] = "software" /\ s3' = s3 /\ run' = run /\ pgLog' = pgLog
    BY <1>14 DEF UpsertSoftware
  <2>2. pc'[s] = FinishOr(run[s].logged)
    BY <1>14, MovedSelf DEF UpsertSoftware
  <2>3. pc'[s] \in {"finishlog", "unlock"} /\ (pc'[s] = "unlock" => ~run[s].logged)
    BY <2>2 DEF FinishOr
  <2>4. Looked(pc'[s], run'[s], s3')
    BY <2>1, <2>3, <1>m, LookedOn DEF EndLabel, Listed
  <2> QED BY <2>1, <2>3, <2>4, <1>l DEF Logged
<1>15. CASE FinishLog(s)
  <2>1. pc[s] = "finishlog" /\ s3' = s3 /\ run' = run
    BY <1>15 DEF FinishLog
  <2>2. pc'[s] = "unlock"
    BY <1>15, MovedSelf DEF FinishLog
  <2>3. PICK ok \in BOOLEAN :
           pgLog' = IF ok THEN [pgLog EXCEPT ![s] = Verdict(run[s])] ELSE pgLog
    BY <1>15 DEF FinishLog
  <2>4. PgEnabled /\ (run[s].logged => pgLog[s] = "running")
    BY <2>1, <1>l DEF Logged
  <2>5. Looked(pc'[s], run'[s], s3')
    BY <2>1, <2>2, <1>m, LookedOn DEF EndLabel, Listed
  <2>6. run[s].logged /\ pgLog'[s] = "success" => ~run[s].failed
    <3>1. CASE ok
      <4>1. pgLog'[s] = Verdict(run[s])
        BY <3>1, <2>3, <1>g
      <4>2. Verdict(run[s]) = "success" => ~run[s].failed
        BY DEF Verdict
      <4> QED BY <4>1, <4>2
    <3>2. CASE ~ok
      BY <3>2, <2>3, <2>4
    <3> QED BY <3>1, <3>2
  <2> QED BY <2>1, <2>2, <2>4, <2>5, <2>6 DEF Logged
<1>16. CASE Clean(s) \/ CleanFails(s) \/ PurgeObjects(s) \/ PurgeSkips(s)
           \/ PurgeMeta(s) \/ PurgePg(s) \/ EndPurge(s)
  BY <1>16 DEF Clean, CleanFails, PurgeObjects, PurgeSkips, PurgeNext, PurgeMeta,
     PurgePg, EndPurge, PurgeLabel
<1> QED BY <1>1, <1>2, <1>3, <1>4, <1>5, <1>6, <1>7, <1>8, <1>9, <1>10, <1>11, <1>12,
     <1>13, <1>14, <1>15, <1>16 DEF Step
LEMMA LookedStep ==
    ASSUME Rule # "latest_only", TypeOK, BackedInv, LookedInv, NEW s \in Syncer, Step(s)
    PROVE  LookedInv'
<1>1. pc[s] \notin PurgeLabel
  BY DEF BackedInv, UploadSeen
<1>2. /\ s3 \subseteq s3'
      /\ \A q \in Syncer \ {s} : /\ pc'[q] = pc[q] /\ run'[q] = run[q]
                                 /\ pgLog'[q] = pgLog[q]
  BY <1>1, StepAlone
<1>3. Looked(pc'[s], run'[s], s3') /\ Logged(pc'[s], run'[s], pgLog'[s])
  BY <1>1, LookedSelf
<1>4. \A q \in Syncer \ {s} : /\ Looked(pc'[q], run'[q], s3')
                              /\ Logged(pc'[q], run'[q], pgLog'[q])
  BY <1>2, LookedMore DEF LookedInv
<1> QED BY <1>3, <1>4 DEF LookedInv

LEMMA LookedEnvironment ==
    ASSUME TypeOK, LookedInv, Environment PROVE LookedInv'
<1> USE DEF redis, pg
<1>1. ASSUME UNCHANGED <<pc, run, s3, pgLog>> PROVE LookedInv'
  BY <1>1 DEF LookedInv, Looked, Got, Logged
<1>2. ASSUME NEW t \in Tag, Publish(t) \/ MetaExpires(t) PROVE LookedInv'
  BY <1>1, <1>2 DEF Publish, MetaExpires
<1>3. ASSUME NEW k \in Key, AssetReady(k) PROVE LookedInv'
  BY <1>1, <1>3 DEF AssetReady
<1>4. CASE LockExpires \/ LockOverrun
  BY <1>1, <1>4 DEF LockExpires, LockOverrun
<1>5. ASSUME NEW s \in Syncer, Crash(s) \/ Restart(s) PROVE LookedInv'
  <2>1. UNCHANGED <<s3, pgLog>> /\ pc'[s] \in {"down", "idle"}
    BY <1>5, MovedSelf DEF Crash, Restart
  <2>2. \A q \in Syncer \ {s} : pc'[q] = pc[q] /\ run'[q] = run[q]
    BY <1>5 DEF TypeOK, LocalsOK, Crash, Restart, Goto, Set
  <2>3. Looked(pc'[s], run'[s], s3') /\ Logged(pc'[s], run'[s], pgLog'[s])
    BY <2>1 DEF LookedInv, Looked, Logged, LoopLabel, EndLabel
  <2> QED BY <2>1, <2>2, <2>3 DEF LookedInv
<1> QED BY <1>2, <1>3, <1>4, <1>5 DEF Environment

\* A synchronisation whose sync_log row says "success" has left every release it
\* was to look at complete in S3, whatever checks, PG writes and metadata failed
\* on the way, and whichever other runs and deaths overlapped it (github.go:420-467
\* and writeToPG).  Under latest_only, which purges, nothing is claimed.
THEOREM SuccessIsCompleteHolds == Spec => []SuccessIsComplete
<1>1. Init => LookedInv
  BY DEF Init, LookedInv, Looked, Logged, LoopLabel, EndLabel
<1>2. ASSUME Rule # "latest_only" PROVE Init => BackedInv
  BY DEF Init, BackedInv, UploadSeen, PurgeLabel
<1>3. ASSUME Rule # "latest_only"
      PROVE  TypeOK /\ BackedInv /\ LookedInv /\ [Next]_vars => BackedInv' /\ LookedInv'
  <2> SUFFICES ASSUME TypeOK, BackedInv, LookedInv, [Next]_vars PROVE BackedInv' /\ LookedInv'
    OBVIOUS
  <2>1. CASE UNCHANGED vars
    BY <2>1 DEF vars, redis, pg, BackedInv, UploadSeen, CurKey, Cur,
       LookedInv, Looked, Got, Logged
  <2> QED BY <1>3, <2>1, NeverPurging, BackedStep, BackedEnvironment, LookedStep,
          LookedEnvironment DEF Next
<1>4. LookedInv => SuccessIsComplete
  BY DEF LookedInv, SuccessIsComplete, Looked, Logged, Got, EndLabel
<1>5. CASE Rule = "latest_only"
  <2>1. TypeOK => SuccessIsComplete
    BY <1>5 DEF SuccessIsComplete
  <2> QED BY <2>1, TypeCorrect, PTL
<1>6. CASE Rule # "latest_only"
  <2>1. Init => BackedInv
    BY <1>2, <1>6
  <2>2. TypeOK /\ BackedInv /\ LookedInv /\ [Next]_vars => BackedInv' /\ LookedInv'
    BY <1>3, <1>6
  <2> QED BY <1>1, <2>1, <2>2, <1>4, TypeCorrect, PTL DEF Spec
<1> QED BY <1>5, <1>6

-----------------------------------------------------------------------------
(* Objects are recorded: the row of an object the syncer has just stored is the *)
(* next thing it writes, unless a call fails or the process dies.               *)

RecordedInv ==
    PgEnabled /\ faults = 0 /\ crashes = 0 /\ (Rule = "latest_only" => overruns = 0) =>
        \A k \in s3 : \/ pgAsset[k] # "none"
                      \/ \E s \in Syncer : pc[s] = "insert" /\ CurKey(s) = k

LEMMA FaultsGrow ==
    ASSUME TypeOK, NEW s \in Syncer, Step(s)
    PROVE  /\ faults' \in Nat /\ faults' >= faults /\ (faults' = 0 => faults = 0)
           /\ crashes' = crashes
<1>t. faults \in Nat
  BY ConfigAssumption DEF TypeOK, SharedOK
<1>g. \A ok \in BOOLEAN : Try(ok) => faults' \in Nat /\ faults' >= faults
  BY <1>t DEF Try, Failure
<1>0. CASE ListFails(s)
  <2>1. faults' \in 0..MaxFaults /\ faults' >= faults
    BY <1>0, FailsBounds
  <2> QED BY <1>0, <1>t, <2>1, ConfigAssumption DEF ListFails, rare
<1> SUFFICES ASSUME ~ListFails(s)
             PROVE  crashes' = crashes /\ (faults' = faults \/ \E ok \in BOOLEAN : Try(ok))
  BY <1>t, <1>g, <1>0
<1> USE DEF rare
<1>1. CASE Acquire(s) \/ SkipRelease(s) \/ EndAssets(s)
           \/ EndReleases(s) \/ Clean(s) \/ EndPurge(s)
  BY <1>1 DEF Acquire, SkipRelease, EndAssets, EndReleases, Clean, EndPurge
<1>2. CASE ReadMark(s) \/ List(s) \/ BeginRelease(s) \/ CheckExists(s)
  BY <1>2 DEF ReadMark, List, BeginRelease, CheckExists
<1>3. CASE Upload(s) \/ UploadFails(s) \/ InsertAsset(s) \/ SaveMeta(s)
  BY <1>3 DEF Upload, UploadFails, InsertAsset, SaveMeta
<1>4. CASE SetMark(s) \/ SetLatest(s) \/ RereadMark(s) \/ RewriteMark(s)
  BY <1>4 DEF SetMark, SetLatest, RereadMark, RewriteMark
<1>5. CASE ReadNewest(s) \/ CreateLog(s) \/ UpsertSoftware(s) \/ FinishLog(s) \/ Unlock(s)
  BY <1>5 DEF ReadNewest, CreateLog, UpsertSoftware, FinishLog, Unlock
<1>6. CASE CleanFails(s) \/ PurgeObjects(s) \/ PurgeSkips(s) \/ PurgeMeta(s) \/ PurgePg(s)
  BY <1>6 DEF CleanFails, PurgeObjects, PurgeSkips, PurgeMeta, PurgePg
<1> QED BY <1>1, <1>2, <1>3, <1>4, <1>5, <1>6 DEF Step

\* The other steps touch neither the objects nor their rows.
LEMMA StepStoresAside ==
    ASSUME NEW s \in Syncer, Step(s), pc[s] \notin PurgeLabel,
           ~Upload(s), ~UploadFails(s), ~InsertAsset(s)
    PROVE  UNCHANGED <<s3, pgAsset>> /\ pc[s] # "insert"
<1> USE DEF pg
<1>1. CASE Acquire(s) \/ ReadMark(s) \/ List(s) \/ ListFails(s) \/ SkipRelease(s) \/ BeginRelease(s)
  BY <1>1 DEF Acquire, ReadMark, List, ListFails, SkipRelease, BeginRelease, AtRelease
<1>2. CASE CheckExists(s) \/ EndAssets(s) \/ SaveMeta(s)
  BY <1>2 DEF CheckExists, EndAssets, SaveMeta
<1>3. CASE EndReleases(s) \/ SetMark(s) \/ SetLatest(s) \/ RereadMark(s) \/ RewriteMark(s)
  BY <1>3 DEF EndReleases, SetMark, SetLatest, RereadMark, RewriteMark
<1>4. CASE ReadNewest(s) \/ CreateLog(s) \/ UpsertSoftware(s) \/ FinishLog(s) \/ Unlock(s)
  BY <1>4 DEF ReadNewest, CreateLog, UpsertSoftware, FinishLog, Unlock
<1>5. CASE Clean(s) \/ CleanFails(s) \/ PurgeObjects(s) \/ PurgeSkips(s)
           \/ PurgeMeta(s) \/ PurgePg(s) \/ EndPurge(s)
  BY <1>5 DEF Clean, CleanFails, PurgeObjects, PurgeSkips, PurgeNext, PurgeMeta,
     PurgePg, EndPurge, PurgeLabel
<1> QED BY <1>1, <1>2, <1>3, <1>4, <1>5 DEF Step

LEMMA RecordedStep ==
    ASSUME TypeOK, RecordedInv, NEW s \in Syncer, Step(s), pc[s] \notin PurgeLabel
    PROVE  RecordedInv'
<1> SUFFICES ASSUME PgEnabled, faults' = 0, crashes' = 0, NEW k \in s3',
                    Rule = "latest_only" => overruns' = 0
             PROVE  \/ pgAsset'[k] # "none"
                    \/ \E q \in Syncer : pc'[q] = "insert" /\ CurKey(q)' = k
  BY DEF RecordedInv
<1>f. /\ faults = 0 /\ crashes = 0 /\ faults \in Nat
      /\ Rule = "latest_only" => overruns = 0
  BY FaultsGrow, StepKinds, ConfigAssumption DEF TypeOK, SharedOK
<1>t. run[s] \in Local /\ AtElement(s) /\ pgAsset \in [Key -> RowLink] /\ s3 \subseteq Key
  BY DEF TypeOK, LocalsOK, SharedOK
<1>i. k \in s3 => \/ pgAsset[k] # "none"
                  \/ \E q \in Syncer : pc[q] = "insert" /\ CurKey(q) = k
  BY <1>f DEF RecordedInv
<1>q. \A q \in Syncer \ {s} : pc'[q] = pc[q] /\ CurKey(q)' = CurKey(q)
  BY StepAlone DEF CurKey, Cur
<1>1. CASE Upload(s)
  <2>1. /\ pc[s] = "upload" /\ run[s].todo # {} /\ pgAsset' = pgAsset
        /\ s3' = s3 \cup {CurKey(s)}
    BY <1>1, <1>t DEF Upload, AtElement, pg
  <2> DEFINE loc == [run[s] EXCEPT !.up = TRUE, !.fresh = TRUE]
  <2>2. Goto(s, "insert") /\ Set(s, loc)
    BY <1>1 DEF Upload
  <2>3. loc.tag = run[s].tag /\ loc.todo = run[s].todo
    BY <1>t DEF Local
  <2>4. pc'[s] = "insert" /\ run'[s] = loc
    BY <2>2, MovedSelf
  <2> HIDE DEF loc
  <2>5. CurKey(s)' = CurKey(s)
    BY <2>3, <2>4 DEF CurKey, Cur
  <2> QED BY <2>1, <2>4, <2>5, <1>i, <1>q
<1>2. CASE UploadFails(s)
  BY <1>2, <1>f DEF UploadFails, Try, Failure
<1>3. CASE InsertAsset(s)
  <2>1. pc[s] = "insert" /\ run[s].todo # {} /\ s3' = s3
    BY <1>3, <1>t DEF InsertAsset, AtElement
  <2>2. CurKey(s) \in Key
    BY <2>1, CurDone
  <2>3. PICK ok \in BOOLEAN :
           /\ Try(ok)
           /\ pgAsset' = IF ok /\ pgAsset[CurKey(s)] = "none"
                         THEN [pgAsset EXCEPT ![CurKey(s)] =
                                   IF run[s].linked THEN "linked" ELSE "orphan"]
                         ELSE pgAsset
    BY <1>3 DEF InsertAsset
  <2>4. ok
    BY <2>3, <1>f DEF Try, Failure
  <2>5. /\ pgAsset'[CurKey(s)] # "none"
        /\ \A j \in Key : pgAsset[j] # "none" => pgAsset'[j] # "none"
    BY <2>2, <2>3, <2>4, <1>t
  <2>6. k \in s3 /\ k \in Key
    BY <2>1, <1>t
  <2> QED BY <2>5, <2>6, <1>i, <1>q
<1>4. CASE ~Upload(s) /\ ~UploadFails(s) /\ ~InsertAsset(s)
  BY <1>4, <1>i, <1>q, StepStoresAside
<1> QED BY <1>1, <1>2, <1>3, <1>4

LEMMA RecordedEnvironment ==
    ASSUME TypeOK, RecordedInv, Environment PROVE RecordedInv'
<1> USE DEF redis, pg, rare
<1>1. ASSUME UNCHANGED <<pc, run, s3, pgAsset, faults, crashes>>, overruns' = 0 => overruns = 0
      PROVE  RecordedInv'
  BY <1>1 DEF RecordedInv, CurKey, Cur
<1>2. ASSUME NEW t \in Tag, Publish(t) \/ MetaExpires(t) PROVE RecordedInv'
  BY <1>1, <1>2 DEF Publish, MetaExpires
<1>3. ASSUME NEW k \in Key, AssetReady(k) PROVE RecordedInv'
  BY <1>1, <1>3 DEF AssetReady
<1>4. CASE LockExpires \/ LockOverrun
  <2>1. overruns \in Nat
    BY ConfigAssumption DEF TypeOK, SharedOK
  <2> QED BY <1>1, <1>4, <2>1 DEF LockExpires, LockOverrun
<1>5. ASSUME NEW s \in Syncer, Crash(s) PROVE RecordedInv'
  <2>1. crashes \in Nat /\ crashes' = crashes + 1
    BY <1>5, ConfigAssumption DEF Crash, TypeOK, SharedOK
  <2> QED BY <2>1 DEF RecordedInv
<1>6. ASSUME NEW s \in Syncer, Restart(s) PROVE RecordedInv'
  <2>1. UNCHANGED <<run, s3, pgAsset, faults, crashes, overruns>> /\ pc[s] = "down"
    BY <1>6 DEF Restart
  <2>2. \A q \in Syncer \ {s} : pc'[q] = pc[q]
    BY <1>6 DEF TypeOK, LocalsOK, Restart, Goto
  <2> QED BY <2>1, <2>2 DEF RecordedInv, CurKey, Cur
<1> QED BY <1>2, <1>3, <1>4, <1>5, <1>6 DEF Environment

\* What takes an object its row, where nothing is cleaned up: each object without
\* one is charged to a failed call or a death.
BareInv == PgEnabled => IsFiniteSet(Bare) /\ Cardinality(Bare) <= faults + crashes

LEMMA BareBound ==
    ASSUME NEW S, NEW T, NEW n \in Nat, NEW m \in Nat,
           IsFiniteSet(S), Cardinality(S) <= n,
           \/ T \subseteq S /\ m >= n
           \/ \E k : T \subseteq S \cup {k} /\ m > n
    PROVE  IsFiniteSet(T) /\ Cardinality(T) <= m
<1>1. CASE T \subseteq S /\ m >= n
  <2>1. IsFiniteSet(T) /\ Cardinality(T) <= Cardinality(S)
    BY <1>1, FS_Subset
  <2>2. Cardinality(T) \in Nat /\ Cardinality(S) \in Nat
    BY <2>1, FS_CardinalityType
  <2> QED BY <1>1, <2>1, <2>2
<1>2. ASSUME NEW k, T \subseteq S \cup {k}, m > n
      PROVE  IsFiniteSet(T) /\ Cardinality(T) <= m
  <2>1. /\ IsFiniteSet(S \cup {k})
        /\ Cardinality(S \cup {k}) = IF k \in S THEN Cardinality(S) ELSE Cardinality(S) + 1
    BY FS_AddElement
  <2>2. IsFiniteSet(T) /\ Cardinality(T) <= Cardinality(S \cup {k})
    BY <1>2, <2>1, FS_Subset
  <2>3. Cardinality(T) \in Nat /\ Cardinality(S) \in Nat
    BY <2>2, FS_CardinalityType
  <2> QED BY <1>2, <2>1, <2>2, <2>3
<1> QED BY <1>1, <1>2

\* How Bare changes, told by what the step does to the rest.
LEMMA BareChange ==
    ASSUME TypeOK, BareInv, faults' \in Nat, crashes' \in Nat,
           \/ Bare' \subseteq Bare /\ faults' + crashes' >= faults + crashes
           \/ \E k : Bare' \subseteq Bare \cup {k} /\ faults' + crashes' > faults + crashes
    PROVE  BareInv'
<1>1. faults \in Nat /\ crashes \in Nat
  BY ConfigAssumption DEF TypeOK, SharedOK
<1>2. faults + crashes \in Nat /\ faults' + crashes' \in Nat
  <2>1. \A f, c \in Nat : f + c \in Nat
    OBVIOUS
  <2> QED BY <1>1, <2>1, Zenon
<1>3. PgEnabled => IsFiniteSet(Bare') /\ Cardinality(Bare') <= faults' + crashes'
  BY <1>2, BareBound, Zenon DEF BareInv
<1> QED BY <1>3 DEF BareInv

LEMMA BareStep ==
    ASSUME TypeOK, BareInv, PgEnabled, NEW s \in Syncer, Step(s), pc[s] \notin PurgeLabel
    PROVE  BareInv'
<1>t. /\ run[s] \in Local /\ AtElement(s) /\ pgAsset \in [Key -> RowLink]
      /\ s3 \subseteq Key /\ faults \in Nat /\ crashes \in Nat
  BY ConfigAssumption DEF TypeOK, LocalsOK, SharedOK
<1>f. faults' \in Nat /\ faults' >= faults /\ crashes' = crashes
  BY FaultsGrow
<1>g. faults' + crashes' >= faults + crashes
  <2>1. \A f, g, c \in Nat : g >= f => g + c >= f + c
    OBVIOUS
  <2> QED BY <1>t, <1>f, <2>1, Zenon
<1>x. faults' = faults + 1 => faults' + crashes' > faults + crashes
  BY <1>t, <1>f
<1>q. \A q \in Syncer \ {s} : pc'[q] = pc[q] /\ CurKey(q)' = CurKey(q)
  BY StepAlone DEF CurKey, Cur
<1>c. crashes' \in Nat
  BY <1>t, <1>f
<1>1. CASE Upload(s)
  <2>1. /\ pc[s] = "upload" /\ pgAsset' = pgAsset /\ s3' = s3 \cup {CurKey(s)}
    BY <1>1 DEF Upload, pg
  <2> DEFINE loc == [run[s] EXCEPT !.up = TRUE, !.fresh = TRUE]
  <2>2. Goto(s, "insert") /\ Set(s, loc)
    BY <1>1 DEF Upload
  <2>3. loc.tag = run[s].tag /\ loc.todo = run[s].todo
    BY <1>t DEF Local
  <2>4. pc'[s] = "insert" /\ run'[s] = loc
    BY <2>2, MovedSelf
  <2> HIDE DEF loc
  <2>5. CurKey(s)' = CurKey(s)
    BY <2>3, <2>4 DEF CurKey, Cur
  <2>6. Bare' \subseteq Bare
    BY <2>1, <2>4, <2>5, <1>q DEF Bare
  <2> QED BY <2>6, <1>f, <1>c, <1>g, BareChange
<1>2. CASE UploadFails(s)
  <2>1. /\ pc[s] = "upload" /\ pgAsset' = pgAsset /\ s3' \subseteq s3 \cup {CurKey(s)}
        /\ faults' = faults + 1
    BY <1>2 DEF UploadFails, pg, Try, Failure
  <2>2. Bare' \subseteq Bare \cup {CurKey(s)}
    BY <2>1, <1>q DEF Bare
  <2> QED BY <2>1, <2>2, <1>f, <1>c, <1>x, BareChange
<1>3. CASE InsertAsset(s)
  <2>1. pc[s] = "insert" /\ run[s].todo # {} /\ s3' = s3
    BY <1>3, <1>t DEF InsertAsset, AtElement
  <2>2. CurKey(s) \in Key
    BY <2>1, CurDone
  <2>3. PICK ok \in BOOLEAN :
           /\ Try(ok)
           /\ pgAsset' = IF ok /\ pgAsset[CurKey(s)] = "none"
                         THEN [pgAsset EXCEPT ![CurKey(s)] =
                                   IF run[s].linked THEN "linked" ELSE "orphan"]
                         ELSE pgAsset
    BY <1>3 DEF InsertAsset
  <2>4. /\ ok => pgAsset'[CurKey(s)] # "none"
        /\ \A j \in Key : pgAsset'[j] = "none" => pgAsset[j] = "none"
    BY <2>2, <2>3, <1>t
  <2>5. Bare' \subseteq Bare \cup {CurKey(s)}
    BY <2>1, <2>4, <1>t, <1>q DEF Bare
  <2>6. CASE ok
    <3>1. Bare' \subseteq Bare
      BY <2>4, <2>5, <2>6 DEF Bare
    <3> QED BY <3>1, <1>f, <1>c, <1>g, BareChange
  <2>7. CASE ~ok
    <3>1. faults' = faults + 1
      BY <2>3, <2>7 DEF Try, Failure
    <3> QED BY <3>1, <2>5, <1>f, <1>c, <1>x, BareChange
  <2> QED BY <2>6, <2>7
<1>4. CASE ~Upload(s) /\ ~UploadFails(s) /\ ~InsertAsset(s)
  <2>1. UNCHANGED <<s3, pgAsset>> /\ pc[s] # "insert"
    BY <1>4, StepStoresAside
  <2>2. Bare' \subseteq Bare
    BY <2>1, <1>q DEF Bare
  <2> QED BY <2>2, <1>f, <1>c, <1>g, BareChange
<1> QED BY <1>1, <1>2, <1>3, <1>4

LEMMA BareEnvironment ==
    ASSUME TypeOK, BareInv, Environment PROVE BareInv'
<1> USE DEF redis, pg, rare
<1>t. faults \in Nat /\ crashes \in Nat /\ pc \in [Syncer -> Label]
      /\ run \in [Syncer -> Local]
  BY ConfigAssumption DEF TypeOK, SharedOK, LocalsOK
<1>1. ASSUME UNCHANGED <<pc, run, s3, pgAsset, faults, crashes>> PROVE BareInv'
  BY <1>1 DEF BareInv, Bare, CurKey, Cur
<1>2. ASSUME NEW t \in Tag, Publish(t) \/ MetaExpires(t) PROVE BareInv'
  BY <1>1, <1>2 DEF Publish, MetaExpires
<1>3. ASSUME NEW k \in Key, AssetReady(k) PROVE BareInv'
  BY <1>1, <1>3 DEF AssetReady
<1>4. CASE LockExpires \/ LockOverrun
  BY <1>1, <1>4 DEF LockExpires, LockOverrun
<1>5. ASSUME NEW s \in Syncer, Crash(s) PROVE BareInv'
  <2>1. /\ crashes' = crashes + 1 /\ UNCHANGED <<faults, s3, pgAsset>>
        /\ \A q \in Syncer \ {s} : pc'[q] = pc[q] /\ run'[q] = run[q]
    BY <1>5, <1>t DEF Crash, Goto, Set
  <2>2. Bare' \subseteq Bare \cup {CurKey(s)}
    BY <2>1 DEF Bare, CurKey, Cur
  <2>3. crashes' \in Nat /\ faults' \in Nat /\ faults' + crashes' > faults + crashes
    BY <2>1, <1>t
  <2> QED BY <2>2, <2>3, BareChange
<1>6. ASSUME NEW s \in Syncer, Restart(s) PROVE BareInv'
  <2>1. UNCHANGED <<run, s3, pgAsset, faults, crashes, overruns>> /\ pc[s] = "down"
    BY <1>6 DEF Restart
  <2>2. \A q \in Syncer \ {s} : pc'[q] = pc[q]
    BY <1>6, <1>t DEF Restart, Goto
  <2>3. Bare' \subseteq Bare
    BY <2>1, <2>2 DEF Bare, CurKey, Cur
  <2>4. faults' \in Nat /\ crashes' \in Nat /\ faults' + crashes' >= faults + crashes
    BY <2>1, <1>t
  <2> QED BY <2>3, <2>4, BareChange
<1> QED BY <1>2, <1>3, <1>4, <1>5, <1>6 DEF Environment

-----------------------------------------------------------------------------
(* Records are backed through purges, up to what failed or died.  Under          *)
(* latest_only, and while no run outlives its lock, one syncer works at a time:  *)
(* nobody purges what another has just uploaded.  A tag may lose the objects     *)
(* behind its records because metadata or rows were not removed with them; the   *)
(* rows, because they are not linked to their version, so that                   *)
(* DeleteOldVersions does not find them -- charged when the version row failed.  *)

At(labels, t) == \E s \in Syncer : pc[s] \in labels /\ run[s].tag = t

LooseMeta == {t \in meta : t \notin Tags(s3) /\ ~At({"purgemeta"}, t)}
LooseRows == {k[1] : k \in {j \in Key : /\ pgAsset[j] = "linked" /\ j \notin s3
                                        /\ ~At({"purgemeta", "purgepg"}, j[1])}}
Orphaned  == {k[1] : k \in {j \in Key : pgAsset[j] = "orphan"}}
Unlinked  == {run[s].tag : s \in {q \in Syncer : /\ PgEnabled /\ ~run[q].linked
                                                /\ pc[q] \in {"asset", "upload", "insert"}}}

Suspect == LooseMeta \cup LooseRows \cup Orphaned \cup Unlinked

\* Without PostgreSQL there are no rows.
NoPg ==
    ~PgEnabled => /\ \A k \in Key : pgAsset[k] = "none"
                  /\ \A s \in Syncer : pc[s] # "insert"

SuspectInv ==
    Rule = "latest_only" /\ overruns = 0 =>
        /\ IsFiniteSet(Suspect) /\ Cardinality(Suspect) <= faults + crashes
        /\ NoPg
        /\ \A s \in Syncer : UploadSeen(s)

\* While the lock works, whoever takes a step is the only one at work.
LEMMA OthersRest ==
    ASSUME TypeOK, LockInv, overruns = 0, NEW s \in Syncer, Step(s)
    PROVE  \A q \in Syncer \ {s} : /\ pc[q] \in {"idle", "down"}
                                   /\ pc'[q] = pc[q]
BY StepKinds DEF LockInv, Holding

LEMMA CleanupSteps ==
    ASSUME NEW s \in Syncer, Step(s), pc[s] \in PurgeLabel
    PROVE  \/ Clean(s) \/ CleanFails(s) \/ PurgeObjects(s) \/ PurgeSkips(s)
           \/ PurgeMeta(s) \/ PurgePg(s) \/ EndPurge(s)
<1>1. ~Acquire(s) /\ ~ReadMark(s) /\ ~List(s) /\ ~ListFails(s) /\ ~SkipRelease(s) /\ ~BeginRelease(s)
  BY DEF Acquire, ReadMark, List, ListFails, SkipRelease, BeginRelease, AtRelease, PurgeLabel
<1>2. ~CheckExists(s) /\ ~Upload(s) /\ ~UploadFails(s) /\ ~InsertAsset(s) /\ ~EndAssets(s) /\ ~SaveMeta(s)
  BY DEF CheckExists, Upload, UploadFails, InsertAsset, EndAssets, SaveMeta, PurgeLabel
<1>3. ~EndReleases(s) /\ ~SetMark(s) /\ ~SetLatest(s) /\ ~RereadMark(s) /\ ~RewriteMark(s)
  BY DEF EndReleases, SetMark, SetLatest, RereadMark, RewriteMark, PurgeLabel
<1>4. ~ReadNewest(s) /\ ~CreateLog(s) /\ ~UpsertSoftware(s) /\ ~FinishLog(s) /\ ~Unlock(s)
  BY DEF ReadNewest, CreateLog, UpsertSoftware, FinishLog, Unlock, PurgeLabel
<1> QED BY <1>1, <1>2, <1>3, <1>4, Zenon DEF Step

\* The way into the loop over the assets of a release, and into the one over what
\* is purged.
LEMMA OutsideLoops ==
    ASSUME TypeOK, NEW s \in Syncer, Step(s), pc[s] \notin PurgeLabel,
           ~BeginRelease(s), ~CheckExists(s), ~Upload(s), ~UploadFails(s), ~InsertAsset(s)
    PROVE  pc'[s] \notin {"asset", "upload", "insert", "purgemeta", "purgepg"}
<1>1. CASE Acquire(s) \/ ReadMark(s) \/ List(s) \/ ListFails(s) \/ SkipRelease(s)
           \/ EndAssets(s) \/ SaveMeta(s)
  BY <1>1, MovedSelf DEF Acquire, ReadMark, List, ListFails, SkipRelease, AtRelease,
     EndAssets, SaveMeta
<1>2. CASE EndReleases(s) \/ SetMark(s) \/ SetLatest(s) \/ RereadMark(s) \/ RewriteMark(s)
  BY <1>2, MovedSelf DEF EndReleases, AfterSync, SetMark, SetLatest, RereadMark, RewriteMark
<1>3. CASE ReadNewest(s) \/ CreateLog(s) \/ UpsertSoftware(s) \/ FinishLog(s) \/ Unlock(s)
  BY <1>3, MovedSelf DEF ReadNewest, CreateLog, FinishOr, UpsertSoftware, FinishLog, Unlock
<1>4. CASE Clean(s) \/ CleanFails(s) \/ PurgeObjects(s) \/ PurgeSkips(s)
           \/ PurgeMeta(s) \/ PurgePg(s) \/ EndPurge(s)
  BY <1>4 DEF Clean, CleanFails, PurgeObjects, PurgeSkips, PurgeNext, PurgeMeta,
     PurgePg, EndPurge, PurgeLabel
<1> QED BY <1>1, <1>2, <1>3, <1>4 DEF Step

LEMMA CleanupEntered ==
    ASSUME TypeOK, NEW s \in Syncer, Step(s), pc[s] \notin PurgeLabel
    PROVE  pc'[s] \notin {"purgemeta", "purgepg"}
<1>1. CASE BeginRelease(s) \/ CheckExists(s) \/ Upload(s) \/ UploadFails(s) \/ InsertAsset(s)
  BY <1>1, MovedSelf DEF BeginRelease, CheckExists, Upload, UploadFails, InsertAsset
<1> QED BY <1>1, OutsideLoops

\* How Suspect changes, told by what the step does to the rest.
LEMMA SuspectChange ==
    ASSUME TypeOK, faults' \in Nat, crashes' \in Nat,
           IsFiniteSet(Suspect), Cardinality(Suspect) <= faults + crashes,
           \/ Suspect' \subseteq Suspect /\ faults' >= faults /\ crashes' = crashes
           \/ \E t : /\ Suspect' \subseteq Suspect \cup {t}
                    /\ \/ faults' = faults + 1 /\ crashes' = crashes
                       \/ faults' = faults /\ crashes' = crashes + 1
    PROVE  IsFiniteSet(Suspect') /\ Cardinality(Suspect') <= faults' + crashes'
<1>1. faults \in Nat /\ crashes \in Nat
  BY ConfigAssumption DEF TypeOK, SharedOK
<1>2. \A f, c \in Nat : f + c \in Nat
  OBVIOUS
<1>3. \A f, c, g \in Nat : g >= f => g + c >= f + c
  OBVIOUS
<1>7. \A f, c \in Nat : (f + 1) + c > f + c /\ f + (c + 1) > f + c
  OBVIOUS
<1>4. faults + crashes \in Nat /\ faults' + crashes' \in Nat
  BY <1>1, <1>2, Zenon
<1>8. faults' >= faults /\ crashes' = crashes => faults' + crashes' >= faults + crashes
  BY <1>1, <1>3, Zenon
<1>9. /\ (faults + 1) + crashes > faults + crashes
      /\ faults + (crashes + 1) > faults + crashes
  BY <1>1, <1>7, Zenon
<1>10. faults' = faults + 1 /\ crashes' = crashes => faults' + crashes' > faults + crashes
  BY <1>9, Zenon
<1>11. faults' = faults /\ crashes' = crashes + 1 => faults' + crashes' > faults + crashes
  BY <1>9, Zenon
<1>6. \/ Suspect' \subseteq Suspect /\ faults' + crashes' >= faults + crashes
      \/ \E t : Suspect' \subseteq Suspect \cup {t} /\ faults' + crashes' > faults + crashes
  BY <1>8, <1>10, <1>11, Zenon
<1> QED BY <1>4, <1>6, BareBound, Zenon

\* Objects are only added by a step outside the cleanup, while nobody purges.
LEMMA SuspectAdded ==
    ASSUME Additions, UNCHANGED pgAsset,
           \A q \in Syncer : pc[q] \notin {"purgemeta", "purgepg"}
    PROVE  /\ LooseMeta' \subseteq LooseMeta /\ LooseRows' \subseteq LooseRows
           /\ Orphaned' = Orphaned
<1>1. \A labels \in {{"purgemeta"}, {"purgemeta", "purgepg"}} : \A t : ~At(labels, t)
  BY DEF At
<1>2. ASSUME NEW t \in LooseMeta' PROVE t \in LooseMeta
  <2>1. t \in meta' /\ t \notin Tags(s3')
    BY <1>2 DEF LooseMeta
  <2>2. t \in meta /\ t \notin Tags(s3)
    BY <2>1 DEF Additions, Tags
  <2> QED BY <2>2, <1>1 DEF LooseMeta
<1>3. ASSUME NEW j \in Key, pgAsset'[j] = "linked", j \notin s3' PROVE j[1] \in LooseRows
  BY <1>1, <1>3 DEF LooseRows, Additions
<1>4. LooseRows' \subseteq LooseRows
  BY <1>3 DEF LooseRows
<1>5. Orphaned' = Orphaned
  BY DEF Orphaned
<1> QED BY <1>2, <1>4, <1>5

\* A step outside the cleanup.
LEMMA SuspectWork ==
    ASSUME Rule = "latest_only", TypeOK, SuspectInv, overruns = 0, overruns' = 0,
           NEW s \in Syncer, Step(s), pc[s] \notin PurgeLabel,
           \A q \in Syncer \ {s} : pc[q] \in {"idle", "down"} /\ pc'[q] = pc[q]
    PROVE  SuspectInv'
<1>t. /\ run[s] \in Local /\ AtElement(s) /\ pgAsset \in [Key -> RowLink]
      /\ faults \in Nat /\ pc \in [Syncer -> Label]
  BY ConfigAssumption DEF TypeOK, LocalsOK, SharedOK
<1>i. /\ IsFiniteSet(Suspect) /\ Cardinality(Suspect) <= faults + crashes
      /\ NoPg /\ \A q \in Syncer : UploadSeen(q)
  BY DEF SuspectInv
<1>s. Additions /\ \A q \in Syncer : UploadSeen(q)'
  BY <1>i, SeenStep
<1>f. faults' \in Nat /\ faults' >= faults /\ crashes' = crashes /\ crashes' \in Nat
  BY FaultsGrow, ConfigAssumption DEF TypeOK, SharedOK
<1>n. \A q \in Syncer : pc[q] \notin {"purgemeta", "purgepg"}
  BY DEF PurgeLabel
<1>h. ASSUME NoPg',
             \/ Suspect' \subseteq Suspect
             \/ \E t : Suspect' \subseteq Suspect \cup {t} /\ faults' = faults + 1
      PROVE  SuspectInv'
  <2>1. IsFiniteSet(Suspect') /\ Cardinality(Suspect') <= faults' + crashes'
    BY <1>h, <1>f, <1>i, SuspectChange
  <2> QED BY <1>h, <1>s, <2>1 DEF SuspectInv
<1>u. ASSUME UNCHANGED pgAsset, NoPg',
             \/ Unlinked' \subseteq Unlinked
             \/ \E t : Unlinked' \subseteq Unlinked \cup {t} /\ faults' = faults + 1
      PROVE  SuspectInv'
  <2>1. /\ LooseMeta' \subseteq LooseMeta /\ LooseRows' \subseteq LooseRows
        /\ Orphaned' = Orphaned
    BY <1>u, <1>s, <1>n, SuspectAdded
  <2>2. CASE Unlinked' \subseteq Unlinked
    <3>1. Suspect' \subseteq Suspect
      BY <2>1, <2>2 DEF Suspect
    <3> QED BY <1>u, <1>h, <3>1
  <2>3. ASSUME NEW t, Unlinked' \subseteq Unlinked \cup {t}, faults' = faults + 1
        PROVE  SuspectInv'
    <3>1. Suspect' \subseteq Suspect \cup {t}
      BY <2>1, <2>3 DEF Suspect
    <3> QED BY <1>u, <1>h, <2>3, <3>1
  <2> QED BY <1>u, <2>2, <2>3
<1>a. /\ AssetDone(s) \in Local /\ AssetDone(s).linked = run[s].linked
      /\ AssetDone(s).tag = run[s].tag
  BY <1>t DEF AssetDone, Local
\* Inside the loop over the assets the link to the version row stays.
<1>b. ASSUME run'[s].linked = run[s].linked, run'[s].tag = run[s].tag,
             pc[s] \in {"asset", "upload", "insert"}
      PROVE  Unlinked' \subseteq Unlinked
  BY <1>b DEF Unlinked
<1>1. CASE BeginRelease(s)
  <2> DEFINE r == run[s].rels[run[s].next]
  <2> DEFINE loc(b) == [run[s] EXCEPT !.tag = r.tag, !.todo = r.assets, !.up = FALSE, !.linked = b]
  <2>1. PICK ok \in IF PgEnabled THEN BOOLEAN ELSE {TRUE} : Try(ok) /\ Set(s, loc(PgEnabled /\ ok))
    BY <1>1 DEF BeginRelease
  <2>2. \A b : loc(b).linked = b
    <3> HIDE DEF r
    <3> QED BY <1>t DEF Local
  <2> HIDE DEF loc
  <2>3. run'[s] = loc(PgEnabled /\ ok)
    BY <2>1, MovedSelf
  <2>4. run'[s].linked = (PgEnabled /\ ok)
    BY <2>2, <2>3
  <2>5. pc'[s] = "asset" /\ UNCHANGED pgAsset
    BY <1>1, MovedSelf DEF BeginRelease
  <2>6. Unlinked' \subseteq IF PgEnabled /\ ~run'[s].linked THEN {run'[s].tag} ELSE {}
    BY DEF Unlinked
  <2>7. NoPg'
    BY <1>i, <2>5 DEF NoPg
  <2>8. CASE ok
    <3>1. Unlinked' \subseteq Unlinked
      BY <2>4, <2>6, <2>8
    <3> QED BY <1>u, <2>5, <2>7, <3>1
  <2>9. CASE ~ok
    <3>1. faults' = faults + 1
      BY <2>1, <2>9 DEF Try, Failure
    <3>2. Unlinked' \subseteq Unlinked \cup {run'[s].tag}
      BY <2>6
    <3> QED BY <1>u, <2>5, <2>7, <3>1, <3>2
  <2> QED BY <2>1, <2>8, <2>9
<1>2. CASE CheckExists(s) \/ UploadFails(s)
  <2>1. \A l \in Local : [l EXCEPT !.failed = TRUE].linked = l.linked
                      /\ [l EXCEPT !.failed = TRUE].tag = l.tag
    BY DEF Local
  <2>2. /\ run'[s].linked = run[s].linked /\ run'[s].tag = run[s].tag
        /\ pc[s] \in {"asset", "upload"}
    BY <1>2, <2>1, <1>a, MovedSelf DEF CheckExists, UploadFails
  <2>3. pc'[s] # "insert" /\ UNCHANGED pgAsset
    BY <1>2, <1>t, MovedSelf DEF CheckExists, UploadFails, pg
  <2>4. NoPg'
    BY <1>i, <2>3 DEF NoPg
  <2>5. Unlinked' \subseteq Unlinked
    BY <2>2, <1>b
  <2> QED BY <1>u, <2>3, <2>4, <2>5
<1>3. CASE Upload(s)
  <2>1. \A l \in Local : [l EXCEPT !.up = TRUE, !.fresh = TRUE].linked = l.linked
                      /\ [l EXCEPT !.up = TRUE, !.fresh = TRUE].tag = l.tag
    BY DEF Local
  <2>2. run'[s].linked = run[s].linked /\ run'[s].tag = run[s].tag
    BY <1>3, <2>1, <1>a, <1>t, MovedSelf DEF Upload
  <2>3. /\ pc[s] = "upload" /\ pc'[s] = (IF PgEnabled THEN "insert" ELSE "asset")
        /\ UNCHANGED pgAsset
    BY <1>3, MovedSelf DEF Upload, pg
  <2>4. NoPg'
    BY <1>i, <2>3 DEF NoPg
  <2>5. Unlinked' \subseteq Unlinked
    BY <2>2, <2>3, <1>b
  <2> QED BY <1>u, <2>3, <2>4, <2>5
<1>4. CASE InsertAsset(s)
  <2>1. pc[s] = "insert" /\ pc'[s] = "asset" /\ run'[s] = AssetDone(s)
    BY <1>4, MovedSelf DEF InsertAsset
  <2>2. PgEnabled /\ CurKey(s) \in s3 /\ UNCHANGED <<s3, meta>>
    BY <1>4, <1>i, <2>1 DEF NoPg, UploadSeen, InsertAsset, redis
  <2>3. \A k \in Key : \/ pgAsset'[k] = pgAsset[k]
                       \/ k = CurKey(s) /\ pgAsset'[k] = IF run[s].linked THEN "linked" ELSE "orphan"
    BY <1>4, <1>t DEF InsertAsset
  <2>4. Unlinked' \subseteq Unlinked
    BY <2>1, <1>a, <1>b
  <2>5. LooseMeta' \subseteq LooseMeta
    BY <2>1, <2>2, <1>n DEF LooseMeta, At
  <2>6. LooseRows' \subseteq LooseRows
    <3>1. ASSUME NEW j \in Key, pgAsset'[j] = "linked", j \notin s3' PROVE j[1] \in LooseRows
      <4>1. pgAsset[j] = "linked" /\ j \notin s3
        BY <3>1, <2>2, <2>3
      <4> QED BY <4>1, <1>n DEF LooseRows, At
    <3> QED BY <3>1 DEF LooseRows
  <2>7. Orphaned' \subseteq Orphaned \cup Unlinked
    <3>1. ASSUME NEW j \in Key, pgAsset'[j] = "orphan" PROVE j[1] \in Orphaned \cup Unlinked
      <4>1. CASE pgAsset[j] = "orphan"
        BY <4>1 DEF Orphaned
      <4>2. CASE j = CurKey(s) /\ ~run[s].linked
        <5>1. j[1] = run[s].tag
          BY <4>2 DEF CurKey
        <5> QED BY <5>1, <4>2, <2>1, <2>2 DEF Unlinked
      <4> QED BY <3>1, <4>1, <4>2, <2>3
    <3> QED BY <3>1 DEF Orphaned
  <2>8. Suspect' \subseteq Suspect
    BY <2>4, <2>5, <2>6, <2>7 DEF Suspect
  <2>9. NoPg'
    BY <2>2 DEF NoPg
  <2> QED BY <1>h, <2>8, <2>9
<1>5. CASE ~BeginRelease(s) /\ ~CheckExists(s) /\ ~Upload(s) /\ ~UploadFails(s) /\ ~InsertAsset(s)
  <2>1. UNCHANGED pgAsset
    BY <1>5, StepStoresAside
  <2>2. pc'[s] \notin {"asset", "upload", "insert"}
    BY <1>5, OutsideLoops
  <2>3. NoPg'
    BY <1>i, <2>1, <2>2 DEF NoPg
  <2>4. Unlinked' \subseteq Unlinked
    BY <2>2 DEF Unlinked
  <2> QED BY <1>u, <2>1, <2>3, <2>4
<1> QED BY <1>1, <1>2, <1>3, <1>4, <1>5

\* A step of the cleanup, of the only syncer at work.
LEMMA SuspectPurge ==
    ASSUME Rule = "latest_only", TypeOK, SuspectInv, overruns = 0, overruns' = 0,
           NEW s \in Syncer, Step(s), pc[s] \in PurgeLabel,
           \A q \in Syncer \ {s} : pc[q] \in {"idle", "down"} /\ pc'[q] = pc[q]
    PROVE  SuspectInv'
<1>t. /\ run[s] \in Local /\ pgAsset \in [Key -> RowLink] /\ faults \in Nat
      /\ pc \in [Syncer -> Label] /\ run \in [Syncer -> Local]
  BY ConfigAssumption DEF TypeOK, LocalsOK, SharedOK
<1>i. /\ IsFiniteSet(Suspect) /\ Cardinality(Suspect) <= faults + crashes
      /\ NoPg
  BY DEF SuspectInv
<1>f. faults' \in Nat /\ faults' >= faults /\ crashes' = crashes /\ crashes' \in Nat
  BY FaultsGrow, ConfigAssumption DEF TypeOK, SharedOK
\* Nobody is in the loop over the releases.
<1>h. ASSUME pc'[s] \in PurgeLabel \cup {"newest"}, Orphaned' \subseteq Orphaned,
             PgEnabled \/ UNCHANGED pgAsset,
             \/ LooseMeta' \cup LooseRows' \subseteq LooseMeta \cup LooseRows
             \/ \E t : /\ LooseMeta' \cup LooseRows' \subseteq LooseMeta \cup LooseRows \cup {t}
                       /\ faults' = faults + 1
      PROVE  SuspectInv'
  <2>1. Unlinked' = {}
    BY <1>h DEF Unlinked, PurgeLabel
  <2>2. \A q \in Syncer : UploadSeen(q)'
    BY <1>h DEF UploadSeen, PurgeLabel
  <2>3. NoPg'
    BY <1>h, <1>i DEF NoPg, PurgeLabel
  <2>4. \/ Suspect' \subseteq Suspect
        \/ \E t : Suspect' \subseteq Suspect \cup {t} /\ faults' = faults + 1
    <3>1. CASE LooseMeta' \cup LooseRows' \subseteq LooseMeta \cup LooseRows
      BY <3>1, <1>h, <2>1 DEF Suspect
    <3>2. ASSUME NEW t, LooseMeta' \cup LooseRows' \subseteq LooseMeta \cup LooseRows \cup {t},
                 faults' = faults + 1
          PROVE  Suspect' \subseteq Suspect \cup {t}
      BY <3>2, <1>h, <2>1 DEF Suspect
    <3> QED BY <1>h, <3>1, <3>2
  <2>5. IsFiniteSet(Suspect') /\ Cardinality(Suspect') <= faults' + crashes'
    BY <2>4, <1>f, <1>i, SuspectChange
  <2> QED BY <2>2, <2>3, <2>5 DEF SuspectInv
<1>1. CASE Clean(s) \/ CleanFails(s) \/ PurgeSkips(s) \/ EndPurge(s)
  <2>1. /\ UNCHANGED <<s3, meta, pgAsset>> /\ pc[s] \in {"clean", "purge"}
        /\ pc'[s] \in {"purge", "newest"}
    BY <1>1, MovedSelf DEF Clean, CleanFails, PurgeSkips, PurgeNext, EndPurge, redis, pg
  <2>2. LooseMeta' \subseteq LooseMeta
    BY <2>1 DEF LooseMeta, At
  <2>3. LooseRows' \subseteq LooseRows
    BY <2>1 DEF LooseRows, At
  <2>4. Orphaned' = Orphaned
    BY <2>1 DEF Orphaned
  <2>5. LooseMeta' \cup LooseRows' \subseteq LooseMeta \cup LooseRows
    BY <2>2, <2>3
  <2> QED BY <2>1, <2>4, <2>5, <1>h DEF PurgeLabel
<1>2. CASE PurgeObjects(s)
  <2>1. PICK v \in run[s].purge, ok \in BOOLEAN :
            /\ PurgeNext(s, v)
            /\ \E page \in Pages({o \in s3 : o[1] = v}) : \E gone \in SUBSET page :
                  (ok => gone = page) /\ s3' = s3 \ gone
            /\ Set(s, [run[s] EXCEPT !.tag = v])
    BY <1>2 DEF PurgeObjects
  <2>2. /\ pc[s] = "purge" /\ pc'[s] = "purgemeta" /\ UNCHANGED <<meta, pgAsset>>
        /\ run'[s] = [run[s] EXCEPT !.tag = v]
    BY <1>2, <2>1, MovedSelf DEF PurgeObjects, PurgeNext, redis, pg
  <2>3. run'[s].tag = v
    BY <2>2, <1>t DEF Local
  <2>4. \A o \in s3 : o \in s3' \/ o[1] = v
    <3>1. PICK page \in Pages({o \in s3 : o[1] = v}) :
             \E gone \in SUBSET page : s3' = s3 \ gone
      BY <2>1
    <3>2. page \subseteq {o \in s3 : o[1] = v}
      BY DEF Pages
    <3> QED BY <3>1, <3>2
  <2>5. Tags(s3) \subseteq Tags(s3') \cup {v}
    BY <2>4 DEF Tags
  <2>6. \A labels : "purgemeta" \in labels => At(labels, v)'
    BY <2>2, <2>3 DEF At
  <2>7. \A t : ~At({"purgemeta"}, t) /\ ~At({"purgemeta", "purgepg"}, t)
    BY <2>2 DEF At
  <2>8. LooseMeta' \subseteq LooseMeta
    BY <2>2, <2>5, <2>6, <2>7 DEF LooseMeta
  <2>9. LooseRows' \subseteq LooseRows
    <3>1. ASSUME NEW j \in Key, pgAsset'[j] = "linked", j \notin s3',
                 ~At({"purgemeta", "purgepg"}, j[1])'
          PROVE  j[1] \in LooseRows
      <4>1. j[1] # v
        BY <3>1, <2>6
      <4>2. j \notin s3 /\ pgAsset[j] = "linked"
        BY <4>1, <3>1, <2>2, <2>4
      <4> QED BY <4>2, <2>7 DEF LooseRows
    <3> QED BY <3>1 DEF LooseRows
  <2>10. Orphaned' = Orphaned
    BY <2>2 DEF Orphaned
  <2>11. LooseMeta' \cup LooseRows' \subseteq LooseMeta \cup LooseRows
    BY <2>8, <2>9
  <2> QED BY <2>2, <2>10, <2>11, <1>h DEF PurgeLabel
<1>3. CASE PurgeMeta(s)
  <2>1. PICK ok \in BOOLEAN : Try(ok) /\ meta' = IF ok THEN meta \ {run[s].tag} ELSE meta
    BY <1>3 DEF PurgeMeta
  <2>2. /\ pc[s] = "purgemeta" /\ UNCHANGED <<s3, pgAsset>>
        /\ pc'[s] = (IF PgEnabled THEN "purgepg" ELSE "purge")
        /\ PgEnabled => run'[s] = run[s]
    BY <1>3, MovedSelf DEF PurgeMeta, pg
  <2>3. \A t : At({"purgemeta"}, t) => t = run[s].tag
    BY <2>2 DEF At
  <2>4. LooseRows' \subseteq LooseRows
    <3>1. CASE PgEnabled
      <4>1. \A t : At({"purgemeta", "purgepg"}, t) => t = run[s].tag
        BY <2>2 DEF At
      <4>2. \A t : t = run[s].tag => At({"purgemeta", "purgepg"}, t)'
        BY <2>2, <3>1 DEF At
      <4>3. ASSUME NEW j \in Key, pgAsset'[j] = "linked", j \notin s3',
                   ~At({"purgemeta", "purgepg"}, j[1])'
            PROVE  j[1] \in LooseRows
        <5>1. j[1] # run[s].tag
          BY <4>2, <4>3
        <5> QED BY <5>1, <4>1, <4>3, <2>2 DEF LooseRows
      <4> QED BY <4>3 DEF LooseRows
    <3>2. CASE ~PgEnabled
      BY <3>2, <1>i, <2>2 DEF LooseRows, NoPg
    <3> QED BY <3>1, <3>2
  <2>5. Orphaned' = Orphaned
    BY <2>2 DEF Orphaned
  <2>6. CASE ok
    <3>1. LooseMeta' \subseteq LooseMeta
      BY <2>1, <2>2, <2>3, <2>6 DEF LooseMeta
    <3>2. LooseMeta' \cup LooseRows' \subseteq LooseMeta \cup LooseRows
      BY <3>1, <2>4
    <3> QED BY <3>2, <2>2, <2>5, <1>h DEF PurgeLabel
  <2>7. CASE ~ok
    <3>1. LooseMeta' \subseteq LooseMeta \cup {run[s].tag}
      BY <2>1, <2>2, <2>3, <2>7 DEF LooseMeta
    <3>2. LooseMeta' \cup LooseRows' \subseteq LooseMeta \cup LooseRows \cup {run[s].tag}
      BY <3>1, <2>4
    <3>3. faults' = faults + 1
      BY <2>1, <2>7 DEF Try, Failure
    <3> QED BY <3>2, <3>3, <2>2, <2>5, <1>h DEF PurgeLabel
  <2> QED BY <2>6, <2>7
<1>4. CASE PurgePg(s)
  <2>1. PICK rows \in BOOLEAN, version \in BOOLEAN :
            /\ version => rows
            /\ Try(version)
            /\ pgAsset' = [k \in Key |-> IF rows /\ k \in RowsOf(run[s].tag)
                                         THEN "none" ELSE pgAsset[k]]
    BY <1>4 DEF PurgePg
  <2>2. pc[s] = "purgepg" /\ pc'[s] = "purge" /\ UNCHANGED <<s3, meta>>
    BY <1>4, MovedSelf DEF PurgePg, redis
  <2>p. \A q \in Syncer : pc'[q] # "purgemeta" /\ pc[q] # "purgemeta"
    BY <2>2
  <2>3. LooseMeta' \subseteq LooseMeta
    BY <2>2, <2>p DEF LooseMeta, At
  <2>4. \A j \in Key : pgAsset'[j] # "none" => pgAsset'[j] = pgAsset[j]
    BY <2>1
  <2>5. Orphaned' \subseteq Orphaned
    BY <2>4 DEF Orphaned
  <2>6. \A t : At({"purgemeta", "purgepg"}, t) => t = run[s].tag
    BY <2>2 DEF At
  <2>7. LooseRows' \subseteq LooseRows \cup {run[s].tag}
    <3>1. ASSUME NEW j \in Key, pgAsset'[j] = "linked", j \notin s3', j[1] # run[s].tag
          PROVE  j[1] \in LooseRows
      BY <3>1, <2>2, <2>4, <2>6 DEF LooseRows
    <3> QED BY <3>1 DEF LooseRows
  <2>g. PgEnabled \/ UNCHANGED pgAsset
    <3>1. ASSUME ~PgEnabled PROVE pgAsset' = pgAsset
      <4>1. \A k \in Key : pgAsset[k] = "none"
        BY <3>1, <1>i DEF NoPg
      <4> QED BY <4>1, <2>1, <1>t
    <3> QED BY <3>1
  <2>8. CASE version
    <3>1. ASSUME NEW j \in Key, pgAsset'[j] = "linked", j \notin s3' PROVE j[1] \in LooseRows
      <4>1. j[1] # run[s].tag /\ pgAsset[j] = "linked"
        BY <2>1, <2>8, <3>1 DEF RowsOf
      <4> QED BY <3>1, <4>1, <2>2, <2>6 DEF LooseRows
    <3>2. LooseRows' \subseteq LooseRows
      BY <3>1 DEF LooseRows
    <3>3. LooseMeta' \cup LooseRows' \subseteq LooseMeta \cup LooseRows
      BY <3>2, <2>3
    <3> QED BY <3>3, <2>2, <2>5, <2>g, <1>h DEF PurgeLabel
  <2>9. CASE ~version
    <3>1. LooseMeta' \cup LooseRows' \subseteq LooseMeta \cup LooseRows \cup {run[s].tag}
      BY <2>3, <2>7
    <3>2. faults' = faults + 1
      BY <2>1, <2>9 DEF Try, Failure
    <3> QED BY <3>1, <3>2, <2>2, <2>5, <2>g, <1>h DEF PurgeLabel
  <2> QED BY <2>8, <2>9
<1> QED BY <1>1, <1>2, <1>3, <1>4, CleanupSteps

LEMMA SuspectEnvironment ==
    ASSUME TypeOK, SuspectInv, Environment PROVE SuspectInv'
<1> USE DEF redis, pg, rare
<1>t. /\ crashes \in Nat /\ overruns \in Nat /\ faults \in Nat
      /\ pc \in [Syncer -> Label] /\ run \in [Syncer -> Local]
  BY ConfigAssumption DEF TypeOK, SharedOK, LocalsOK
<1>1. CASE LockOverrun
  BY <1>1, <1>t DEF LockOverrun, SuspectInv
<1>2. SUFFICES ASSUME ~LockOverrun, Rule = "latest_only", overruns = 0 PROVE SuspectInv'
  <2>1. CASE Rule # "latest_only"
    BY <2>1 DEF SuspectInv
  <2>2. CASE overruns # 0 /\ ~LockOverrun
    BY <2>2 DEF SuspectInv, Environment, Publish, MetaExpires, AssetReady, LockExpires,
       Crash, Restart
  <2> QED BY <1>1, <2>1, <2>2
<1>i. /\ IsFiniteSet(Suspect) /\ Cardinality(Suspect) <= faults + crashes
      /\ NoPg /\ \A q \in Syncer : UploadSeen(q)
  BY <1>2 DEF SuspectInv
<1>s. /\ UNCHANGED <<s3, pgAsset>> /\ meta' \subseteq meta
      /\ \A q \in Syncer : UploadSeen(q)'
  BY <1>i, SeenEnvironment
<1>h. ASSUME NoPg', faults' = faults,
             \/ Suspect' \subseteq Suspect /\ crashes' = crashes
             \/ \E t : Suspect' \subseteq Suspect \cup {t} /\ crashes' = crashes + 1
      PROVE  SuspectInv'
  <2>1. IsFiniteSet(Suspect') /\ Cardinality(Suspect') <= faults' + crashes'
    <3>1. faults' \in Nat /\ faults' >= faults /\ (crashes' = crashes \/ crashes' = crashes + 1)
      BY <1>h, <1>t
    <3>2. crashes' \in Nat
      BY <3>1, <1>t
    <3> QED BY <3>1, <3>2, <1>h, <1>i, SuspectChange, Zenon
  <2> QED BY <1>h, <1>s, <2>1 DEF SuspectInv
<1>o. Orphaned' = Orphaned
  BY <1>s DEF Orphaned
<1>3. ASSUME UNCHANGED <<pc, run, faults, crashes>> PROVE SuspectInv'
  <2>1. NoPg' /\ Unlinked' = Unlinked /\ \A labels, t : At(labels, t)' = At(labels, t)
    BY <1>3, <1>i, <1>s DEF NoPg, Unlinked, At
  <2>2. LooseMeta' \subseteq LooseMeta /\ LooseRows' \subseteq LooseRows
    BY <2>1, <1>s DEF LooseMeta, LooseRows
  <2>3. Suspect' \subseteq Suspect
    BY <2>1, <2>2, <1>o DEF Suspect
  <2> QED BY <1>3, <2>1, <2>3, <1>h
<1>4. ASSUME NEW t \in Tag, Publish(t) \/ MetaExpires(t) PROVE SuspectInv'
  BY <1>3, <1>4 DEF Publish, MetaExpires
<1>5. ASSUME NEW k \in Key, AssetReady(k) PROVE SuspectInv'
  BY <1>3, <1>5 DEF AssetReady
<1>6. CASE LockExpires
  BY <1>3, <1>6 DEF LockExpires
<1>7. ASSUME NEW s \in Syncer, Crash(s) \/ Restart(s) PROVE SuspectInv'
  <2>1. /\ \A q \in Syncer \ {s} : pc'[q] = pc[q] /\ run'[q] = run[q]
        /\ pc'[s] \in {"idle", "down"} /\ faults' = faults
    BY <1>7, <1>t DEF Crash, Restart, Goto, Set
  <2>2. NoPg' /\ Unlinked' \subseteq Unlinked
    BY <2>1, <1>i, <1>s DEF NoPg, Unlinked
  <2>3. \A labels, t : At(labels, t) => At(labels, t)' \/ (pc[s] \in labels /\ t = run[s].tag)
    BY <2>1 DEF At
  <2>4. CASE Crash(s)
    <3>1. LooseMeta' \subseteq LooseMeta \cup {run[s].tag}
      BY <2>3, <1>s DEF LooseMeta
    <3>2. LooseRows' \subseteq LooseRows \cup {run[s].tag}
      <4>1. ASSUME NEW j \in Key, pgAsset'[j] = "linked", j \notin s3',
                   ~At({"purgemeta", "purgepg"}, j[1])', j[1] # run[s].tag
            PROVE  j[1] \in LooseRows
        BY <4>1, <2>3, <1>s DEF LooseRows
      <4> QED BY <4>1 DEF LooseRows
    <3>3. Suspect' \subseteq Suspect \cup {run[s].tag}
      BY <3>1, <3>2, <2>2, <1>o DEF Suspect
    <3>4. crashes' = crashes + 1
      BY <2>4 DEF Crash
    <3> QED BY <3>3, <3>4, <2>1, <2>2, <1>h
  <2>5. CASE Restart(s)
    <3>1. pc[s] = "down" /\ crashes' = crashes
      BY <2>5 DEF Restart
    <3>2. LooseMeta' \subseteq LooseMeta
      BY <2>3, <3>1, <1>s DEF LooseMeta
    <3>3. LooseRows' \subseteq LooseRows
      <4>1. ASSUME NEW j \in Key, pgAsset'[j] = "linked", j \notin s3',
                   ~At({"purgemeta", "purgepg"}, j[1])'
            PROVE  j[1] \in LooseRows
        BY <4>1, <2>3, <3>1, <1>s DEF LooseRows
      <4> QED BY <4>1 DEF LooseRows
    <3>4. Suspect' \subseteq Suspect
      BY <3>2, <3>3, <2>2, <1>o DEF Suspect
    <3> QED BY <3>1, <3>4, <2>1, <2>2, <1>h
  <2> QED BY <1>7, <2>4, <2>5
<1> QED BY <1>2, <1>4, <1>5, <1>6, <1>7 DEF Environment

LEMMA SuspectStep ==
    ASSUME Rule = "latest_only", TypeOK, LockInv, SuspectInv, [Next]_vars
    PROVE  SuspectInv'
<1>1. ASSUME NEW s \in Syncer, Step(s) PROVE SuspectInv'
  <2>1. overruns' = overruns
    BY <1>1, StepKinds
  <2>2. CASE overruns = 0
    <3>1. \A q \in Syncer \ {s} : pc[q] \in {"idle", "down"} /\ pc'[q] = pc[q]
      BY <1>1, <2>2, OthersRest
    <3> QED BY <1>1, <2>1, <2>2, <3>1, SuspectWork, SuspectPurge
  <2>3. CASE overruns # 0
    BY <2>1, <2>3 DEF SuspectInv
  <2> QED BY <2>2, <2>3
<1>2. CASE UNCHANGED vars
  <2>1. UNCHANGED <<pc, run, s3, meta, pgAsset, faults, crashes, overruns>>
    BY <1>2 DEF vars, redis, pg, rare
  <2>2. Suspect' = Suspect
    BY <2>1 DEF Suspect, LooseMeta, LooseRows, Orphaned, Unlinked, At
  <2> QED BY <2>1, <2>2 DEF SuspectInv, NoPg, UploadSeen, CurKey, Cur
<1> QED BY <1>1, <1>2, SuspectEnvironment DEF Next

\* In Redis the metadata, and in PG the rows, of the read side stand for objects
\* that are in S3: always, under the rules that never purge, through failed calls,
\* crashes and overlapping runs; under latest_only, while no run outlives its lock,
\* for all versions but as many as calls failed and processes died
\* (github.go:420-467, 486-560).
THEOREM RecordsBackedHolds == Spec => []RecordsBacked
<1>1. CASE Rule # "latest_only"
  <2>1. TypeOK /\ BackedInv /\ [Next]_vars => BackedInv'
    <3> SUFFICES ASSUME TypeOK, BackedInv, [Next]_vars PROVE BackedInv'
      OBVIOUS
    <3>1. CASE UNCHANGED vars
      BY <3>1 DEF vars, redis, pg, BackedInv, UploadSeen, CurKey, Cur
    <3> QED BY <1>1, <3>1, NeverPurging, BackedStep, BackedEnvironment DEF Next
  <2>2. BackedInv => RecordsBacked
    BY <1>1 DEF BackedInv, RecordsBacked, Unbacked
  <2>3. Init => BackedInv
    BY DEF Init, BackedInv, UploadSeen, PurgeLabel
  <2> QED BY <2>1, <2>2, <2>3, TypeCorrect, PTL DEF Spec
<1>2. CASE Rule = "latest_only"
  <2>1. TypeOK /\ LockInv /\ SuspectInv /\ [Next]_vars => LockInv' /\ SuspectInv'
    BY <1>2, LockStep, SuspectStep
  <2>2. TypeOK /\ SuspectInv => RecordsBacked
    <3> SUFFICES ASSUME TypeOK, SuspectInv, overruns = 0
                 PROVE  Cardinality(Unbacked \ BeingPurged) <= faults + crashes
      BY <1>2 DEF RecordsBacked
    <3>1. IsFiniteSet(Suspect) /\ Cardinality(Suspect) <= faults + crashes
      BY <1>2 DEF SuspectInv
    <3>2. \A t : t \notin BeingPurged => ~At({"purgemeta"}, t) /\ ~At({"purgemeta", "purgepg"}, t)
      BY DEF At, BeingPurged
    <3>3. ASSUME NEW j \in Key, pgAsset[j] # "none", j \notin s3, j[1] \notin BeingPurged
          PROVE  j[1] \in Suspect
      <4>1. pgAsset[j] \in {"linked", "orphan"}
        BY <3>3 DEF TypeOK, SharedOK, RowLink
      <4> QED BY <3>2, <3>3, <4>1 DEF Suspect, LooseRows, Orphaned
    <3>4. \A t \in meta \ Tags(s3) : t \notin BeingPurged => t \in Suspect
      BY <3>2 DEF Suspect, LooseMeta
    <3>5. Unbacked \ BeingPurged \subseteq Suspect
      BY <3>3, <3>4 DEF Unbacked
    <3>6. faults + crashes \in Nat
      <4>1. faults \in Nat /\ crashes \in Nat
        BY ConfigAssumption DEF TypeOK, SharedOK
      <4> QED BY <4>1
    <3>7. faults + crashes >= faults + crashes
      BY <3>6
    <3> QED BY <3>1, <3>5, <3>6, <3>7, BareBound, Zenon
  <2>3. Init => LockInv /\ SuspectInv
    <3> SUFFICES ASSUME Init PROVE LockInv /\ SuspectInv
      OBVIOUS
    <3>1. LockInv /\ NoPg /\ \A s \in Syncer : UploadSeen(s)
      BY DEF Init, LockInv, Holding, NoPg, UploadSeen, PurgeLabel
    <3>2. Suspect = {}
      BY DEF Init, Suspect, LooseMeta, LooseRows, Orphaned, Unlinked
    <3>3. faults = 0 /\ crashes = 0
      BY DEF Init
    <3>4. IsFiniteSet(Suspect) /\ Cardinality(Suspect) <= faults + crashes
      BY <3>2, <3>3, FS_EmptySet
    <3> QED BY <3>1, <3>4 DEF SuspectInv
  <2> QED BY <2>1, <2>2, <2>3, TypeCorrect, PTL DEF Spec
<1> QED BY <1>1, <1>2

-----------------------------------------------------------------------------
(* Objects stay recorded through a cleanup.                                    *)

\* Under latest_only a cleanup must not leave an object whose row it deletes: it
\* has deleted all objects of the version first, if one page lists them.
GoneInv ==
    faults = 0 /\ overruns = 0 =>
        \A s \in Syncer : pc[s] \in {"purgemeta", "purgepg"} =>
            \A k \in s3 : k[1] # run[s].tag

\* One page lists the objects of a version.
LEMMA PageHoldsAll ==
    ASSUME IsFiniteSet(Asset), Cardinality(Asset) <= PageKeys, NEW v, NEW S \in SUBSET Key
    PROVE  Pages({o \in S : o[1] = v}) = {{o \in S : o[1] = v}}
<1> DEFINE all == {o \in S : o[1] = v}
<1>1. all \subseteq {v} \X Asset
  BY DEF Key
<1>2. IsFiniteSet({v} \X Asset) /\ Cardinality({v} \X Asset) = 1 * Cardinality(Asset)
  <2>1. IsFiniteSet({v}) /\ Cardinality({v}) = 1
    BY FS_Singleton, Zenon
  <2>2. /\ IsFiniteSet({v} \X Asset)
        /\ Cardinality({v} \X Asset) = Cardinality({v}) * Cardinality(Asset)
    BY <2>1, FS_Product, Zenon
  <2> QED BY <2>1, <2>2
<1>3. /\ Cardinality(Asset) \in Nat
      /\ Cardinality(all) \in Nat /\ Cardinality(all) <= Cardinality({v} \X Asset)
  BY <1>1, <1>2, FS_Subset, FS_CardinalityType
<1>4. Cardinality(all) <= PageKeys
  BY <1>2, <1>3, ConfigAssumption
<1> QED BY <1>4 DEF Pages

LEMMA CleanupRecorded ==
    ASSUME Rule = "latest_only", IsFiniteSet(Asset), Cardinality(Asset) <= PageKeys,
           TypeOK, LockInv, GoneInv, NEW s \in Syncer, Step(s)
    PROVE  GoneInv' /\ (RecordedInv => RecordedInv')
<1>t. /\ run[s] \in Local /\ pgAsset \in [Key -> RowLink] /\ s3 \subseteq Key
      /\ pc \in [Syncer -> Label] /\ faults \in Nat
  BY ConfigAssumption DEF TypeOK, LocalsOK, SharedOK
<1> SUFFICES ASSUME faults' = 0, overruns' = 0
             PROVE  GoneInv' /\ (RecordedInv => RecordedInv')
  BY DEF GoneInv, RecordedInv
<1>f. faults = 0 /\ overruns = 0 /\ crashes' = crashes
  BY FaultsGrow, StepKinds
<1>k. \A ok \in BOOLEAN : Try(ok) => ok
  BY <1>f, <1>t DEF Try, Failure
<1>o. \A q \in Syncer \ {s} : pc[q] \in {"idle", "down"} /\ pc'[q] = pc[q]
  BY <1>f, OthersRest
<1>g. pc[s] \in {"purgemeta", "purgepg"} => \A k \in s3 : k[1] # run[s].tag
  BY <1>f DEF GoneInv
<1>h. ASSUME pc'[s] \in {"purgemeta", "purgepg"} => \A k \in s3' : k[1] # run'[s].tag
      PROVE  GoneInv'
  BY <1>h, <1>o DEF GoneInv
<1>i. ASSUME pc[s] \in PurgeLabel, s3' \subseteq s3, \A k \in s3' : pgAsset'[k] = pgAsset[k]
      PROVE  RecordedInv => RecordedInv'
  <2>1. \A q \in Syncer : pc[q] # "insert"
    BY <1>i, <1>o DEF PurgeLabel
  <2> QED BY <1>i, <1>f, <2>1 DEF RecordedInv
<1>1. CASE pc[s] \notin PurgeLabel
  <2>1. pc'[s] \notin {"purgemeta", "purgepg"}
    BY <1>1, <1>t, CleanupEntered
  <2> QED BY <1>1, <1>h, <2>1, RecordedStep
<1>2. CASE PurgeObjects(s)
  <2>1. PICK v \in run[s].purge, ok \in BOOLEAN :
            /\ PurgeNext(s, v) /\ Try(ok)
            /\ \E page \in Pages({o \in s3 : o[1] = v}) : \E gone \in SUBSET page :
                  (ok => gone = page) /\ s3' = s3 \ gone
            /\ Set(s, [run[s] EXCEPT !.tag = v])
    BY <1>2 DEF PurgeObjects
  <2>2. s3' = s3 \ {o \in s3 : o[1] = v}
    <3>1. Pages({o \in s3 : o[1] = v}) = {{o \in s3 : o[1] = v}}
      BY <1>t, PageHoldsAll
    <3>2. ok
      BY <2>1, <1>k
    <3> QED BY <2>1, <3>1, <3>2
  <2>3. run'[s] = [run[s] EXCEPT !.tag = v] /\ pc[s] = "purge" /\ UNCHANGED pgAsset
    BY <1>2, <2>1, MovedSelf DEF PurgeObjects, PurgeNext, pg
  <2>4. run'[s].tag = v
    BY <2>3, <1>t DEF Local
  <2> QED BY <2>2, <2>3, <2>4, <1>h, <1>i DEF PurgeLabel
<1>3. CASE PurgeMeta(s)
  <2>1. pc[s] = "purgemeta" /\ UNCHANGED <<s3, pgAsset>>
    BY <1>3 DEF PurgeMeta, pg
  <2>2. pc'[s] \in {"purgemeta", "purgepg"} => run'[s] = run[s]
    BY <1>3, MovedSelf DEF PurgeMeta
  <2> QED BY <2>1, <2>2, <1>g, <1>h, <1>i DEF PurgeLabel
<1>4. CASE PurgePg(s)
  <2>1. pc[s] = "purgepg" /\ pc'[s] = "purge" /\ UNCHANGED s3
    BY <1>4, MovedSelf DEF PurgePg
  <2>2. \A k \in s3 : pgAsset'[k] = pgAsset[k]
    BY <1>4, <2>1, <1>g, <1>t DEF PurgePg, RowsOf
  <2> QED BY <2>1, <2>2, <1>h, <1>i DEF PurgeLabel
<1>5. CASE pc[s] \in PurgeLabel /\ ~PurgeObjects(s) /\ ~PurgeMeta(s) /\ ~PurgePg(s)
  <2>1. Clean(s) \/ EndPurge(s) \/ CleanFails(s) \/ PurgeSkips(s)
    BY <1>5, CleanupSteps
  <2>2. ~CleanFails(s) /\ ~PurgeSkips(s)
    BY <1>k DEF CleanFails, PurgeSkips
  <2>3. UNCHANGED <<s3, pgAsset>> /\ pc'[s] \in {"purge", "newest"}
    BY <2>1, <2>2, MovedSelf DEF Clean, EndPurge, pg
  <2> QED BY <1>5, <2>3, <1>h, <1>i
<1> QED BY <1>1, <1>2, <1>3, <1>4, <1>5

LEMMA GoneEnvironment == ASSUME TypeOK, GoneInv, Environment PROVE GoneInv'
<1> USE DEF redis, pg, rare
<1>t. faults \in Nat /\ overruns \in Nat /\ pc \in [Syncer -> Label]
  BY ConfigAssumption DEF TypeOK, SharedOK, LocalsOK
<1>1. ASSUME UNCHANGED <<pc, run, s3, faults>>, overruns' = 0 => overruns = 0 PROVE GoneInv'
  BY <1>1 DEF GoneInv
<1>2. ASSUME NEW t \in Tag, Publish(t) \/ MetaExpires(t) PROVE GoneInv'
  BY <1>1, <1>2 DEF Publish, MetaExpires
<1>3. ASSUME NEW k \in Key, AssetReady(k) PROVE GoneInv'
  BY <1>1, <1>3 DEF AssetReady
<1>4. CASE LockExpires \/ LockOverrun
  BY <1>1, <1>4, <1>t DEF LockExpires, LockOverrun
<1>5. ASSUME NEW s \in Syncer, Crash(s) \/ Restart(s) PROVE GoneInv'
  <2>1. UNCHANGED <<s3, faults, overruns>> /\ pc'[s] \in {"down", "idle"}
    BY <1>5, MovedSelf DEF Crash, Restart
  <2>2. \A q \in Syncer \ {s} : pc'[q] = pc[q] /\ run'[q] = run[q]
    BY <1>5 DEF TypeOK, LocalsOK, Crash, Restart, Goto, Set
  <2> QED BY <2>1, <2>2 DEF GoneInv
<1> QED BY <1>2, <1>3, <1>4, <1>5 DEF Environment

\* "S3 upload succeeded = the PG asset record exists" (github.go:771,
\* BatchInsertAssets): under the rules that never purge, however many runs overlap, the
\* objects whose row nobody is about to insert are no more than the calls that failed
\* and the processes that died; under latest_only there are none as long as nothing
\* fails, dies or overlaps and a page of the listing holds the objects of a release.
THEOREM ObjectsRecordedHolds ==
    ASSUME IsFiniteSet(Asset) PROVE Spec => []ObjectsRecorded
<1>1. Init => BackedInv /\ RecordedInv /\ LockInv /\ GoneInv
  BY DEF Init, BackedInv, UploadSeen, PurgeLabel, RecordedInv, LockInv, Holding, GoneInv
<1>3. CASE Rule # "latest_only" /\ PgEnabled
  <2>1. TypeOK /\ BackedInv /\ BareInv /\ [Next]_vars => BackedInv' /\ BareInv'
    <3> SUFFICES ASSUME TypeOK, BackedInv, BareInv, [Next]_vars
                 PROVE  BackedInv' /\ BareInv'
      OBVIOUS
    <3>1. CASE UNCHANGED vars
      BY <3>1 DEF vars, redis, pg, rare, BackedInv, UploadSeen, CurKey, Cur, BareInv, Bare
    <3> QED BY <1>3, <3>1, NeverPurging, BackedStep, BackedEnvironment, BareStep,
            BareEnvironment DEF Next
  <2>2. Init => BareInv
    <3>1. Init => Bare = {} /\ faults = 0 /\ crashes = 0
      BY DEF Init, Bare
    <3> QED BY <3>1, FS_EmptySet DEF BareInv
  <2>3. BareInv => ObjectsRecorded
    BY <1>3 DEF BareInv, ObjectsRecorded
  <2> QED BY <1>1, <2>1, <2>2, <2>3, TypeCorrect, PTL DEF Spec
<1>2. CASE ~PgEnabled
  <2>1. TypeOK => ObjectsRecorded
    BY <1>2 DEF ObjectsRecorded
  <2> QED BY <2>1, TypeCorrect, PTL
<1>4. CASE Rule = "latest_only" /\ Cardinality(Asset) <= PageKeys
  <2>1. TypeOK /\ LockInv /\ GoneInv /\ RecordedInv /\ [Next]_vars
           => LockInv' /\ GoneInv' /\ RecordedInv'
    <3> SUFFICES ASSUME TypeOK, LockInv, GoneInv, RecordedInv, [Next]_vars
                 PROVE  LockInv' /\ GoneInv' /\ RecordedInv'
      OBVIOUS
    <3>1. CASE UNCHANGED vars
      BY <3>1, LockStep DEF vars, redis, pg, rare, CurKey, Cur, RecordedInv, GoneInv
    <3> QED BY <1>4, <3>1, LockStep, CleanupRecorded, RecordedEnvironment,
            GoneEnvironment DEF Next
  <2>2. RecordedInv => ObjectsRecorded
    BY <1>4 DEF RecordedInv, ObjectsRecorded, Steady, Bare
  <2> QED BY <1>1, <2>1, <2>2, TypeCorrect, PTL DEF Spec
<1>5. CASE Rule = "latest_only" /\ ~(Cardinality(Asset) <= PageKeys)
  <2>1. TypeOK => ObjectsRecorded
    BY <1>5 DEF ObjectsRecorded
  <2> QED BY <2>1, TypeCorrect, PTL
<1> QED BY <1>2, <1>3, <1>4, <1>5

-----------------------------------------------------------------------------
(* The mark.  A run that misses nothing works through a prefix of what GitHub  *)
(* has published, and writes a mark it has come by: the one it read, or the    *)
(* tag of a release of its listing.                                            *)

\* m is no mark, or the tag of a published release up to which all is mirrored.
Covered(m, all, objects) ==
    \/ m = NoTag
    \/ \E j \in 1..Len(all) :
          /\ m = all[j]
          /\ \A i \in 1..j : all[i] \in Wanted =>
                 \A a \in Asset : <<all[i], a>> \in objects

Follows(r, all, objects) ==
    /\ ~r.failed
    /\ Covered(r.seen, all, objects)
    /\ \A i \in 1..Len(r.rels) : /\ i \in 1..Len(all) /\ r.rels[i].tag = all[i]
                                 /\ r.rels[i].assets = Asset
    /\ \/ Covered(r.newest, all, objects)
       \/ \E i \in 1..Len(r.rels) : r.newest = r.rels[i].tag

Quiet == faults = 0 /\ InOrder /\ ~LateAssets /\ Len(releases) <= MaxListed

CoverInv ==
    Quiet => /\ \A t \in Published, a \in Asset : <<t, a>> \in ready
             /\ Covered(lastSynced, releases, s3)
             /\ \A s \in Syncer : /\ Follows(run[s], releases, s3)
                                  /\ pc[s] \in {"mark", "list"} => run[s].rels = << >>

LEMMA FollowsMore ==
    ASSUME NEW p, NEW all \in Seq(Tag), NEW o, o \subseteq p
    PROVE  /\ \A m : Covered(m, all, o) => Covered(m, all, p)
           /\ \A r : Follows(r, all, o) => Follows(r, all, p)
  BY DEF Follows, Covered

LEMMA FollowsPublished ==
    ASSUME NEW all \in Seq(Tag), NEW t \in Tag, NEW o
    PROVE  /\ \A m : Covered(m, all, o) => Covered(m, Append(all, t), o)
           /\ \A r : r.rels \in Seq(Release) /\ Follows(r, all, o)
                        => Follows(r, Append(all, t), o)
<1> DEFINE more == Append(all, t)
<1>1. /\ Len(more) = Len(all) + 1 /\ Len(all) \in Nat
      /\ \A i \in 1..Len(all) : more[i] = all[i]
  OBVIOUS
<1> HIDE DEF more
<1>2. \A m : Covered(m, all, o) => Covered(m, more, o)
  <2> SUFFICES ASSUME NEW m, Covered(m, all, o), m # NoTag PROVE Covered(m, more, o)
    BY DEF Covered
  <2>1. PICK j \in 1..Len(all) :
           /\ m = all[j]
           /\ \A i \in 1..j : all[i] \in Wanted => \A a \in Asset : <<all[i], a>> \in o
    BY DEF Covered
  <2>2. j \in 1..Len(more) /\ m = more[j] /\ \A i \in 1..j : more[i] = all[i]
    BY <1>1, <2>1
  <2>3. \A i \in 1..j : more[i] \in Wanted => \A a \in Asset : <<more[i], a>> \in o
    BY <2>1, <2>2
  <2> QED BY <2>2, <2>3 DEF Covered
<1>3. ASSUME NEW r, r.rels \in Seq(Release), Follows(r, all, o) PROVE Follows(r, more, o)
  <2>1. \A i \in 1..Len(r.rels) : /\ i \in 1..Len(more) /\ r.rels[i].tag = more[i]
                                  /\ r.rels[i].assets = Asset
    BY <1>1, <1>3 DEF Follows
  <2> QED BY <1>2, <1>3, <2>1 DEF Follows
<1> QED BY <1>2, <1>3 DEF more

\* After the loop the tag to be written is a mark that covers.
LEMMA NewestCovered ==
    ASSUME NEW r \in Local, NEW all \in Seq(Tag), NEW o, NEW l \in EndLabel,
           Rule # "latest_only", \A i, j \in 1..Len(all) : i < j => Sem[all[i]] < Sem[all[j]],
           Follows(r, all, o), Looked(l, r, o)
    PROVE  Covered(r.newest, all, o)
<1>1. CASE \E i \in 1..Len(r.rels) : r.newest = r.rels[i].tag
  <2>1. PICK j \in 1..Len(r.rels) : r.newest = r.rels[j].tag
    BY <1>1
  <2>2. j \in 1..Len(all) /\ r.newest = all[j]
    BY <2>1 DEF Follows
  <2>3. Len(r.rels) \in Nat /\ Len(all) \in Nat
    BY DEF Local
  <2>4. ASSUME NEW i \in 1..j, all[i] \in Wanted, NEW a \in Asset PROVE <<all[i], a>> \in o
    <3>1. i \in 1..Len(r.rels) /\ i \in 1..Len(all)
      BY <2>2, <2>3
    <3>2. r.rels[i].tag = all[i] /\ r.rels[i].assets = Asset
      BY <3>1 DEF Follows
    <3>3. Got(r, i, o)
      BY <3>1 DEF Looked, Follows
    <3>4. CASE Skipped(r.seen, all[i])
      <4>1. r.seen # NoTag /\ Sem[all[i]] <= Sem[r.seen]
        BY <3>4, <2>4 DEF Skipped
      <4>2. PICK k \in 1..Len(all) :
               /\ r.seen = all[k]
               /\ \A h \in 1..k : all[h] \in Wanted => \A b \in Asset : <<all[h], b>> \in o
        BY <4>1 DEF Follows, Covered
      <4>3. ~(k < i)
        <5>1. Sem[all[i]] \in Nat /\ Sem[all[k]] \in Nat
          <6>1. all[i] \in Tag /\ all[k] \in Tag
            BY <3>1
          <6> QED BY <6>1, RankAssumption
        <5>2. k < i => Sem[all[k]] < Sem[all[i]]
          BY <3>1
        <5> QED BY <4>1, <4>2, <5>1, <5>2
      <4>4. i \in 1..k
        BY <4>3, <3>1, <2>3
      <4> QED BY <4>2, <4>4, <2>4
    <3> QED BY <3>2, <3>3, <3>4 DEF Got
  <2> QED BY <2>2, <2>4 DEF Covered
<1> QED BY <1>1 DEF Follows

LEMMA StepGitHub ==
    ASSUME NEW s \in Syncer, Step(s) PROVE UNCHANGED <<releases, ready>>
<1> USE DEF github
<1>1. CASE Acquire(s) \/ ReadMark(s) \/ List(s) \/ ListFails(s) \/ SkipRelease(s) \/ BeginRelease(s)
  BY <1>1 DEF Acquire, ReadMark, List, ListFails, SkipRelease, BeginRelease
<1>2. CASE CheckExists(s) \/ Upload(s) \/ UploadFails(s) \/ InsertAsset(s)
           \/ EndAssets(s) \/ SaveMeta(s)
  BY <1>2 DEF CheckExists, Upload, UploadFails, InsertAsset, EndAssets, SaveMeta
<1>3. CASE EndReleases(s) \/ SetMark(s) \/ SetLatest(s) \/ RereadMark(s) \/ RewriteMark(s)
  BY <1>3 DEF EndReleases, SetMark, SetLatest, RereadMark, RewriteMark
<1>4. CASE ReadNewest(s) \/ CreateLog(s) \/ UpsertSoftware(s) \/ FinishLog(s) \/ Unlock(s)
  BY <1>4 DEF ReadNewest, CreateLog, UpsertSoftware, FinishLog, Unlock
<1>5. CASE Clean(s) \/ CleanFails(s) \/ PurgeObjects(s) \/ PurgeSkips(s)
           \/ PurgeMeta(s) \/ PurgePg(s) \/ EndPurge(s)
  BY <1>5 DEF Clean, CleanFails, PurgeObjects, PurgeSkips, PurgeMeta, PurgePg, EndPurge
<1> QED BY <1>1, <1>2, <1>3, <1>4, <1>5 DEF Step

\* The mark is written from the newest tag of a run that is through its loop.
LEMMA StepMark ==
    ASSUME NEW s \in Syncer, Step(s)
    PROVE  \/ lastSynced' = lastSynced
           \/ pc[s] \in {"setmark", "rewrite"} /\ lastSynced' = run[s].newest
<1> USE DEF redis
<1>1. CASE Acquire(s) \/ ReadMark(s) \/ List(s) \/ ListFails(s) \/ SkipRelease(s) \/ BeginRelease(s)
  BY <1>1 DEF Acquire, ReadMark, List, ListFails, SkipRelease, BeginRelease
<1>2. CASE CheckExists(s) \/ Upload(s) \/ UploadFails(s) \/ InsertAsset(s)
           \/ EndAssets(s) \/ SaveMeta(s)
  BY <1>2 DEF CheckExists, Upload, UploadFails, InsertAsset, EndAssets, SaveMeta
<1>3. CASE EndReleases(s) \/ SetMark(s) \/ SetLatest(s) \/ RereadMark(s) \/ RewriteMark(s)
  BY <1>3 DEF EndReleases, SetMark, SetLatest, RereadMark, RewriteMark
<1>4. CASE ReadNewest(s) \/ CreateLog(s) \/ UpsertSoftware(s) \/ FinishLog(s) \/ Unlock(s)
  BY <1>4 DEF ReadNewest, CreateLog, UpsertSoftware, FinishLog, Unlock
<1>5. CASE Clean(s) \/ CleanFails(s) \/ PurgeObjects(s) \/ PurgeSkips(s)
           \/ PurgeMeta(s) \/ PurgePg(s) \/ EndPurge(s)
  BY <1>5 DEF Clean, CleanFails, PurgeObjects, PurgeSkips, PurgeMeta, PurgePg, EndPurge
<1> QED BY <1>1, <1>2, <1>3, <1>4, <1>5 DEF Step

LEMMA FollowsListed ==
    ASSUME NEW r, NEW j, NEW all, NEW o, Follows(r, all, o), Listed(j, r),
           \/ j.newest = r.newest \/ Covered(j.newest, all, o)
           \/ \E i \in 1..Len(j.rels) : j.newest = j.rels[i].tag
    PROVE  Follows(j, all, o)
  BY DEF Follows, Listed

LEMMA FollowsNewRun == \A all, o : Follows(NewRun, all, o)
  BY DEF Follows, NewRun, Covered

\* What most steps of the loops and after them keep of a run.
LEMMA StepKeeps ==
    ASSUME TypeOK, NEW s \in Syncer,
           \/ SkipRelease(s) \/ BeginRelease(s) \/ CheckExists(s) \/ Upload(s)
           \/ InsertAsset(s) \/ EndAssets(s) \/ EndReleases(s) \/ SetMark(s)
           \/ SetLatest(s) \/ RewriteMark(s) \/ CreateLog(s) \/ UpsertSoftware(s)
           \/ FinishLog(s)
    PROVE  /\ Listed(run'[s], run[s]) /\ run'[s].newest = run[s].newest
           /\ pc'[s] \notin {"mark", "list"}
<1>t. run[s] \in Local
  BY DEF TypeOK, LocalsOK
<1>1. CASE SkipRelease(s)
  <2>1. Set(s, [run[s] EXCEPT !.next = run[s].next + 1]) /\ pc[s] = "release" /\ pc' = pc
    BY <1>1 DEF SkipRelease, AtRelease
  <2>2. /\ Listed([run[s] EXCEPT !.next = run[s].next + 1], run[s])
        /\ [run[s] EXCEPT !.next = run[s].next + 1].newest = run[s].newest
    BY <1>t DEF Local, Listed
  <2> QED BY <2>1, <2>2, MovedSelf
<1>2. CASE BeginRelease(s)
  <2> DEFINE r == run[s].rels[run[s].next]
  <2> DEFINE loc(b) == [run[s] EXCEPT !.tag = r.tag, !.todo = r.assets,
                                      !.up = FALSE, !.linked = b]
  <2>1. PICK b \in BOOLEAN : Set(s, loc(b)) /\ Goto(s, "asset")
    BY <1>2 DEF BeginRelease
  <2>2. Listed(loc(b), run[s]) /\ loc(b).newest = run[s].newest
    <3> HIDE DEF r
    <3> QED BY <1>t DEF Local, Listed
  <2>3. pc'[s] = "asset" /\ run'[s] = loc(b)
    BY <2>1, MovedSelf
  <2> HIDE DEF loc
  <2> QED BY <2>2, <2>3
<1>d. /\ Listed(AssetDone(s), run[s]) /\ AssetDone(s).newest = run[s].newest
      /\ AssetDone(s) \in Local
  BY <1>t DEF AssetDone, Local, Listed
<1>3. CASE CheckExists(s)
  <2>1. pc[s] = "asset"
    BY <1>3 DEF CheckExists
  <2>2. CASE Set(s, AssetDone(s)) /\ UNCHANGED pc
    BY <2>1, <2>2, <1>d, MovedSelf
  <2>3. CASE Goto(s, "upload") /\ UNCHANGED run
    BY <2>3, MovedSelf DEF Listed
  <2> QED BY <1>3, <2>2, <2>3 DEF CheckExists
<1>4. CASE Upload(s)
  <2> DEFINE loc(r) == [r EXCEPT !.up = TRUE, !.fresh = TRUE]
  <2>1. \/ Set(s, loc(run[s])) /\ Goto(s, "insert")
        \/ Set(s, loc(AssetDone(s))) /\ Goto(s, "asset")
    BY <1>4 DEF Upload
  <2>2. \A r \in Local : Listed(loc(r), r) /\ loc(r).newest = r.newest
    BY DEF Local, Listed
  <2> HIDE DEF loc
  <2>3. pc'[s] \in {"insert", "asset"} /\ run'[s] \in {loc(run[s]), loc(AssetDone(s))}
    BY <2>1, MovedSelf
  <2> QED BY <2>2, <2>3, <1>t, <1>d DEF Listed
<1>5. CASE InsertAsset(s)
  <2>1. Set(s, AssetDone(s)) /\ Goto(s, "asset")
    BY <1>5 DEF InsertAsset
  <2> QED BY <2>1, <1>d, MovedSelf
<1>6. CASE EndAssets(s)
  <2>1. pc'[s] \in {"meta", "release"}
    BY <1>6, MovedSelf DEF EndAssets
  <2>2. run' = run \/ Set(s, [run[s] EXCEPT !.next = run[s].next + 1])
    BY <1>6 DEF EndAssets
  <2>3. /\ Listed([run[s] EXCEPT !.next = run[s].next + 1], run[s])
        /\ [run[s] EXCEPT !.next = run[s].next + 1].newest = run[s].newest
    BY <1>t DEF Local, Listed
  <2>4. Listed(run'[s], run[s]) /\ run'[s].newest = run[s].newest
    BY <2>2, <2>3, MovedSelf DEF Listed
  <2> QED BY <2>1, <2>4
<1>7. CASE SetMark(s)
  <2>1. PICK b : Set(s, [run[s] EXCEPT !.errs = b])
    BY <1>7 DEF SetMark
  <2>2. pc'[s] = "setlatest"
    BY <1>7, MovedSelf DEF SetMark
  <2>3. /\ Listed([run[s] EXCEPT !.errs = b], run[s])
        /\ [run[s] EXCEPT !.errs = b].newest = run[s].newest
    BY <1>t DEF Local, Listed
  <2> QED BY <2>1, <2>2, <2>3, MovedSelf
<1>8. CASE CreateLog(s)
  <2>1. PICK b \in BOOLEAN : Set(s, [run[s] EXCEPT !.logged = b])
    BY <1>8 DEF CreateLog
  <2>2. pc'[s] \notin {"mark", "list"}
    BY <1>8, MovedSelf DEF CreateLog, FinishOr
  <2>3. /\ Listed([run[s] EXCEPT !.logged = b], run[s])
        /\ [run[s] EXCEPT !.logged = b].newest = run[s].newest
    BY <1>t DEF Local, Listed
  <2> QED BY <2>1, <2>2, <2>3, MovedSelf
<1>9. CASE EndReleases(s) \/ SetLatest(s) \/ RewriteMark(s) \/ UpsertSoftware(s) \/ FinishLog(s)
  <2>1. run' = run
    BY <1>9 DEF EndReleases, SetLatest, RewriteMark, UpsertSoftware, FinishLog
  <2>2. pc'[s] \notin {"mark", "list"}
    BY <1>9, MovedSelf DEF EndReleases, SetLatest, RewriteMark, UpsertSoftware,
       FinishLog, FinishOr, AfterSync
  <2> QED BY <2>1, <2>2 DEF Listed
<1> QED BY <1>1, <1>2, <1>3, <1>4, <1>5, <1>6, <1>7, <1>8, <1>9

LEMMA FollowsSelf ==
    ASSUME Rule # "latest_only", TypeOK, NEW s \in Syncer, Step(s), pc[s] \notin PurgeLabel,
           faults = 0, faults' = 0, Len(releases) <= MaxListed,
           NEW o, Covered(lastSynced, releases, o),
           \A t \in Published, a \in Asset : <<t, a>> \in ready,
           Follows(run[s], releases, o),
           pc[s] \in {"mark", "list"} => run[s].rels = << >>
    PROVE  /\ Follows(run'[s], releases, o)
           /\ pc'[s] \in {"mark", "list"} => run'[s].rels = << >>
<1>t. run[s] \in Local /\ AtElement(s) /\ releases \in Seq(Tag)
  BY DEF TypeOK, LocalsOK, SharedOK
<1>n. Covered(NoTag, releases, o)
  BY DEF Covered
<1>1. CASE Acquire(s) \/ ListFails(s) \/ Unlock(s)
  <2>1. run'[s] = NewRun
    BY <1>1, MovedSelf DEF Acquire, ListFails, Unlock
  <2>2. NewRun.rels = << >>
    BY DEF NewRun
  <2> QED BY <2>1, <2>2, FollowsNewRun
<1>2. CASE ReadMark(s)
  <2>1. pc[s] = "mark"
    BY <1>2 DEF ReadMark
  <2>2. PICK t \in {lastSynced, NoTag} : Set(s, [run[s] EXCEPT !.seen = t, !.newest = t])
    BY <1>2 DEF ReadMark
  <2> DEFINE loc == [run[s] EXCEPT !.seen = t, !.newest = t]
  <2>3. loc.rels = run[s].rels /\ loc.failed = run[s].failed /\ loc.seen = t /\ loc.newest = t
    BY <1>t DEF Local
  <2>4. run'[s] = loc
    BY <2>2, MovedSelf
  <2> HIDE DEF loc
  <2>5. Covered(t, releases, o)
    BY <1>n
  <2> QED BY <2>1, <2>3, <2>4, <2>5 DEF Follows
<1>3. CASE List(s)
  <2>1. pc[s] = "list" /\ Goto(s, "release")
    BY <1>3 DEF List
  <2>2. PICK lost \in 0..Len(releases) :
           Try(lost = Cut) /\ Set(s, [run[s] EXCEPT !.rels = Listing(lost), !.next = 1])
    BY <1>3, ListLoses
  <2>3. lost = 0
    BY <2>2, <1>t, ConfigAssumption DEF Try, Failure, Cut
  <2> DEFINE loc == [run[s] EXCEPT !.rels = Listing(0), !.next = 1]
  <2>4. /\ loc.rels = Listing(0) /\ loc.failed = run[s].failed /\ loc.seen = run[s].seen
        /\ loc.newest = run[s].newest
    BY <1>t DEF Local
  <2>5. run'[s] = loc /\ pc'[s] = "release"
    BY <2>1, <2>2, <2>3, MovedSelf
  <2> HIDE DEF loc
  <2>6. Len(releases) \in Nat
    BY <1>t
  <2>7. \A i \in 1..Len(Listing(0)) : /\ i \in 1..Len(releases)
                                      /\ Listing(0)[i].tag = releases[i]
                                      /\ Listing(0)[i].assets = Asset
    <3>1. Len(Listing(0)) = Len(releases)
      BY <2>6 DEF Listing
    <3>2. ASSUME NEW i \in 1..Len(releases)
          PROVE  Listing(0)[i].tag = releases[i] /\ Listing(0)[i].assets = Asset
      <4>1. \A a \in Asset : <<releases[i], a>> \in ready
        BY DEF Published
      <4>2. Listing(0)[i] = [tag |-> releases[i],
                             assets |-> {a \in Asset : <<releases[i], a>> \in ready}]
        BY <2>6 DEF Listing
      <4>3. {a \in Asset : <<releases[i], a>> \in ready} = Asset
        BY <4>1
      <4> DEFINE rel == Listing(0)[i]
      <4>4. rel = [tag |-> releases[i], assets |-> Asset]
        BY <4>2, <4>3
      <4> HIDE DEF rel
      <4>5. rel.tag = releases[i] /\ rel.assets = Asset
        BY <4>4
      <4> QED BY <4>5 DEF rel
    <3> QED BY <3>1, <3>2
  <2>8. Covered(run[s].newest, releases, o)
    BY <2>1 DEF Follows
  <2> QED BY <2>4, <2>5, <2>7, <2>8 DEF Follows
<1>4. CASE SaveMeta(s)
  <2>1. /\ pc[s] = "meta" /\ run[s].next \in 1..Len(run[s].rels)
        /\ run[s].tag = run[s].rels[run[s].next].tag
    BY <1>4, <1>t DEF SaveMeta, AtElement
  <2>2. PICK t \in {run[s].tag, run[s].newest} :
           /\ Set(s, [run[s] EXCEPT !.next = run[s].next + 1, !.newest = t])
           /\ Goto(s, "release")
    BY <1>4 DEF SaveMeta
  <2> DEFINE loc == [run[s] EXCEPT !.next = run[s].next + 1, !.newest = t]
  <2>3. Listed(loc, run[s]) /\ loc.newest = t
    BY <1>t DEF Local, Listed
  <2>4. run'[s] = loc /\ pc'[s] = "release"
    BY <2>2, MovedSelf
  <2> HIDE DEF loc
  <2>5. t = run[s].newest \/ \E i \in 1..Len(loc.rels) : t = loc.rels[i].tag
    BY <2>1, <2>2, <2>3 DEF Listed
  <2> QED BY <2>3, <2>4, <2>5, FollowsListed
<1>5. CASE RereadMark(s) \/ ReadNewest(s)
  <2>1. PICK t \in {lastSynced, NoTag} : Set(s, [run[s] EXCEPT !.newest = t])
    BY <1>5 DEF RereadMark, ReadNewest
  <2>2. pc'[s] \notin {"mark", "list"}
    BY <1>5, MovedSelf DEF RereadMark, ReadNewest
  <2> DEFINE loc == [run[s] EXCEPT !.newest = t]
  <2>3. Listed(loc, run[s]) /\ loc.newest = t
    BY <1>t DEF Local, Listed
  <2>4. run'[s] = loc
    BY <2>1, MovedSelf
  <2> HIDE DEF loc
  <2> QED BY <2>2, <2>3, <2>4, <1>n, FollowsListed
<1>6. CASE UploadFails(s)
  BY <1>6 DEF UploadFails, Try, Failure
<1>7. CASE \/ SkipRelease(s) \/ BeginRelease(s) \/ CheckExists(s) \/ Upload(s)
           \/ InsertAsset(s) \/ EndAssets(s) \/ EndReleases(s) \/ SetMark(s)
           \/ SetLatest(s) \/ RewriteMark(s) \/ CreateLog(s) \/ UpsertSoftware(s)
           \/ FinishLog(s)
  BY <1>7, StepKeeps, FollowsListed
<1>8. CASE Clean(s) \/ CleanFails(s) \/ PurgeObjects(s) \/ PurgeSkips(s)
           \/ PurgeMeta(s) \/ PurgePg(s) \/ EndPurge(s)
  BY <1>8 DEF Clean, CleanFails, PurgeObjects, PurgeSkips, PurgeNext, PurgeMeta,
     PurgePg, EndPurge, PurgeLabel
<1> QED BY <1>1, <1>2, <1>3, <1>4, <1>5, <1>6, <1>7, <1>8 DEF Step

LEMMA CoverStep ==
    ASSUME Rule # "latest_only", TypeOK, BackedInv, LookedInv, CoverInv,
           NEW s \in Syncer, Step(s)
    PROVE  CoverInv'
<1>p. \A q \in Syncer : pc[q] \notin PurgeLabel
  BY DEF BackedInv, UploadSeen
<1>g. UNCHANGED <<releases, ready>>
  BY StepGitHub
<1>1. Published' = Published /\ InOrder' = InOrder
  BY <1>g DEF Published, InOrder
<1> SUFFICES ASSUME faults' = 0, InOrder, ~LateAssets, Len(releases) <= MaxListed
             PROVE  CoverInv'
  BY <1>1, <1>g DEF CoverInv, Quiet
<1>f. faults = 0
  BY FaultsGrow
<1>t. releases \in Seq(Tag) /\ run[s] \in Local
  BY DEF TypeOK, SharedOK, LocalsOK
<1>c. /\ \A t \in Published, a \in Asset : <<t, a>> \in ready
      /\ Covered(lastSynced, releases, s3)
      /\ \A q \in Syncer : /\ Follows(run[q], releases, s3)
                           /\ pc[q] \in {"mark", "list"} => run[q].rels = << >>
  BY <1>f DEF CoverInv, Quiet
<1>s. /\ s3 \subseteq s3'
      /\ \A q \in Syncer \ {s} : pc'[q] = pc[q] /\ run'[q] = run[q]
  BY <1>p, StepAlone
<1>2. /\ Follows(run'[s], releases, s3)
      /\ pc'[s] \in {"mark", "list"} => run'[s].rels = << >>
  BY <1>p, <1>f, <1>c, FollowsSelf
<1>3. Covered(lastSynced', releases, s3)
  <2>1. CASE lastSynced' = lastSynced
    BY <2>1, <1>c
  <2>2. CASE pc[s] \in {"setmark", "rewrite"} /\ lastSynced' = run[s].newest
    <3>1. Looked(pc[s], run[s], s3) /\ pc[s] \in EndLabel
      BY <2>2 DEF LookedInv, EndLabel
    <3>2. \A i, j \in 1..Len(releases) : i < j => Sem[releases[i]] < Sem[releases[j]]
      BY DEF InOrder
    <3>3. Covered(run[s].newest, releases, s3)
      BY <3>1, <3>2, <1>c, <1>t, NewestCovered
    <3> QED BY <2>2, <3>3
  <2> QED BY <2>1, <2>2, StepMark
<1>4. \A q \in Syncer : /\ Follows(run'[q], releases, s3)
                        /\ pc'[q] \in {"mark", "list"} => run'[q].rels = << >>
  BY <1>2, <1>c, <1>s
<1>5. /\ Covered(lastSynced', releases, s3')
      /\ \A q \in Syncer : Follows(run'[q], releases, s3')
  <2>1. /\ \A m : Covered(m, releases, s3) => Covered(m, releases, s3')
        /\ \A r : Follows(r, releases, s3) => Follows(r, releases, s3')
    BY <1>s, <1>t, FollowsMore
  <2>2. Covered(lastSynced', releases, s3')
    BY <2>1, <1>3
  <2>3. ASSUME NEW q \in Syncer PROVE Follows(run'[q], releases, s3')
    BY <2>1, <1>4
  <2> QED BY <2>2, <2>3
<1>6. \A t \in Published', a \in Asset : <<t, a>> \in ready'
  BY <1>1, <1>c, <1>g
<1>7. /\ Covered(lastSynced', releases', s3')
      /\ \A q \in Syncer : Follows(run'[q], releases', s3')
  BY <1>5, <1>g
<1>8. \A q \in Syncer : pc'[q] \in {"mark", "list"} => run'[q].rels = << >>
  BY <1>4
<1> QED BY <1>6, <1>7, <1>8 DEF CoverInv

LEMMA CoverEnvironment ==
    ASSUME TypeOK, CoverInv, Environment PROVE CoverInv'
<1>t. /\ releases \in Seq(Tag) /\ run \in [Syncer -> Local] /\ pc \in [Syncer -> Label]
      /\ Len(releases) \in Nat
  BY DEF TypeOK, SharedOK, LocalsOK
<1>0. ASSUME UNCHANGED <<releases, lastSynced, s3, faults, pc, run>>, ready \subseteq ready'
      PROVE  CoverInv'
  BY <1>0 DEF CoverInv, Quiet, InOrder, Published
<1>1. ASSUME NEW t \in Tag, Publish(t) PROVE CoverInv'
  <2>1. /\ releases' = Append(releases, t)
        /\ UNCHANGED <<lastSynced, s3, faults, pc, run>>
    BY <1>1 DEF Publish, redis
  <2>2. InOrder' => InOrder
    BY <2>1, <1>t DEF InOrder
  <2>l. Len(releases') <= MaxListed => Len(releases) <= MaxListed
    BY <2>1, <1>t, ConfigAssumption
  <2>3. SUFFICES ASSUME Quiet, ~LateAssets PROVE CoverInv'
    BY <2>1, <2>2, <2>l DEF CoverInv, Quiet
  <2>4. ready' = ready \cup ({t} \X Asset)
    BY <1>1, <2>3 DEF Publish
  <2>5. \A u \in Published' : u = t \/ u \in Published
    BY <2>1, <1>t DEF Published
  <2>6. \A u \in Published', a \in Asset : <<u, a>> \in ready'
    BY <2>3, <2>4, <2>5 DEF CoverInv
  <2>7. /\ Covered(lastSynced, releases, s3)
        /\ \A s \in Syncer : /\ Follows(run[s], releases, s3)
                             /\ pc[s] \in {"mark", "list"} => run[s].rels = << >>
    BY <2>3 DEF CoverInv
  <2>8. \A s \in Syncer : run[s].rels \in Seq(Release)
    BY <1>t DEF Local
  <2>9. /\ Covered(lastSynced, Append(releases, t), s3)
        /\ \A s \in Syncer : Follows(run[s], Append(releases, t), s3)
    BY <2>7, <2>8, <1>t, FollowsPublished
  <2> QED BY <2>1, <2>6, <2>7, <2>9 DEF CoverInv
<1>2. ASSUME NEW t \in Tag, MetaExpires(t) PROVE CoverInv'
  BY <1>0, <1>2 DEF MetaExpires, github
<1>3. ASSUME NEW k \in Key, AssetReady(k) PROVE CoverInv'
  BY <1>0, <1>3 DEF AssetReady, redis
<1>4. CASE LockExpires \/ LockOverrun
  BY <1>0, <1>4 DEF LockExpires, LockOverrun, github, redis
<1>5. ASSUME NEW s \in Syncer, Crash(s) PROVE CoverInv'
  <2>1. /\ UNCHANGED <<releases, ready, lastSynced, s3, faults>>
        /\ Goto(s, "down") /\ Set(s, NewRun)
    BY <1>5 DEF Crash, redis
  <2>2. pc'[s] = "down" /\ run'[s] = NewRun
    BY <2>1, MovedSelf
  <2>3. \A q \in Syncer \ {s} : pc'[q] = pc[q] /\ run'[q] = run[q]
    BY <2>1, <1>t DEF Goto, Set
  <2> QED BY <2>1, <2>2, <2>3, FollowsNewRun DEF CoverInv, Quiet, InOrder, Published
<1>6. ASSUME NEW s \in Syncer, Restart(s) PROVE CoverInv'
  <2>1. UNCHANGED <<releases, ready, lastSynced, s3, faults, run>> /\ Goto(s, "idle")
    BY <1>6 DEF Restart, github, redis
  <2>2. \A q \in Syncer : pc'[q] \in {"mark", "list"} => pc'[q] = pc[q]
    BY <2>1, <1>t DEF Goto
  <2> QED BY <2>1, <2>2 DEF CoverInv, Quiet, InOrder, Published
<1> QED BY <1>1, <1>2, <1>3, <1>4, <1>5, <1>6 DEF Environment

\* Nothing below the mark is lost: while no call failed and GitHub publishes complete
\* releases in version order, and no more of them than one listing returns
\* (client.go:217), every wanted release at or below last_synced, which the
\* incremental rule never looks at again, is mirrored completely, through deaths and
\* overlapping runs (github.go:239-323).
THEOREM MarkCoversHolds == Spec => []MarkCovers
<1>1. Init => BackedInv /\ LookedInv /\ CoverInv
  <2>1. Init => BackedInv
    BY DEF Init, BackedInv, UploadSeen, PurgeLabel
  <2>2. Init => LookedInv
    BY DEF Init, LookedInv, Looked, Logged, LoopLabel, EndLabel
  <2>3. Init => CoverInv
    BY FollowsNewRun DEF Init, CoverInv, Covered, Published
  <2> QED BY <2>1, <2>2, <2>3
<1>2. ASSUME Rule # "latest_only"
      PROVE  TypeOK /\ BackedInv /\ LookedInv /\ CoverInv /\ [Next]_vars
                => BackedInv' /\ LookedInv' /\ CoverInv'
  <2> SUFFICES ASSUME TypeOK, BackedInv, LookedInv, CoverInv, [Next]_vars
               PROVE  BackedInv' /\ LookedInv' /\ CoverInv'
    OBVIOUS
  <2>1. CASE UNCHANGED vars
    <3>1. /\ UNCHANGED <<releases, ready, faults, lastSynced, meta, s3>>
          /\ UNCHANGED <<pgVersion, pgAsset, pgLog, pc, run>>
      BY <2>1 DEF vars, github, redis, pg
    <3>2. BackedInv' /\ LookedInv'
      BY <3>1 DEF BackedInv, UploadSeen, CurKey, Cur, LookedInv, Looked, Got, Logged
    <3>3. Quiet' = Quiet /\ Published' = Published
      BY <3>1 DEF Quiet, InOrder, Published
    <3>4. CoverInv'
      BY <3>1, <3>3 DEF CoverInv
    <3> QED BY <3>2, <3>4
  <2> QED BY <1>2, <2>1, NeverPurging, BackedStep, BackedEnvironment, LookedStep, LookedEnvironment,
          CoverStep, CoverEnvironment DEF Next
<1>3. TypeOK /\ CoverInv => MarkCovers
  <2> SUFFICES ASSUME TypeOK, CoverInv, faults = 0, InOrder, ~LateAssets,
                      Len(releases) <= MaxListed,
                      NEW t \in Published \cap Wanted, lastSynced # NoTag,
                      Sem[t] <= Sem[lastSynced], NEW a \in Asset
               PROVE  <<t, a>> \in s3
    BY DEF MarkCovers
  <2>1. releases \in Seq(Tag) /\ Len(releases) \in Nat
    BY DEF TypeOK, SharedOK
  <2>2. PICK i \in 1..Len(releases) : t = releases[i]
    BY DEF Published
  <2>3. PICK j \in 1..Len(releases) :
           /\ lastSynced = releases[j]
           /\ \A h \in 1..j : releases[h] \in Wanted => \A b \in Asset : <<releases[h], b>> \in s3
    BY DEF CoverInv, Quiet, Covered
  <2>4. Sem[releases[i]] \in Nat /\ Sem[releases[j]] \in Nat
    BY SMTT(30), <2>1, RankAssumption
  <2>5. j < i => Sem[releases[j]] < Sem[releases[i]]
    BY DEF InOrder
  <2>6. i \in 1..j
    BY <2>1, <2>2, <2>3, <2>4, <2>5
  <2> QED BY <2>2, <2>3, <2>6
<1>4. CASE Rule = "latest_only"
  <2>1. TypeOK => MarkCovers
    BY <1>4 DEF MarkCovers
  <2> QED BY <2>1, TypeCorrect, PTL
<1>5. CASE Rule # "latest_only"
  <2>1. TypeOK /\ BackedInv /\ LookedInv /\ CoverInv /\ [Next]_vars
           => BackedInv' /\ LookedInv' /\ CoverInv'
    BY <1>2, <1>5
  <2> QED BY <1>1, <2>1, <1>3, TypeCorrect, PTL DEF Spec
<1> QED BY <1>4, <1>5

-----------------------------------------------------------------------------
(* The mark of the incremental rules does not go back: whoever writes it holds *)
(* the lock, so that the mark is still the one the run has read.               *)

Mover == LoopLabel \cup {"list", "setmark"}

AtMark(l, r, mark) ==
    l \in Mover => r.seen = mark /\ Sem[r.newest] >= Sem[mark]

MonotoneInv ==
    Rule # "full_historical" =>
        /\ \A s \in Syncer : pc[s] \notin {"reread", "rewrite"}
        /\ overruns = 0 /\ faults = 0 =>
               \A s \in Syncer : AtMark(pc[s], run[s], lastSynced)

LEMMA NoReread ==
    ASSUME Rule # "full_historical", TypeOK, NEW s \in Syncer, Step(s),
           pc[s] \notin {"reread", "rewrite"}
    PROVE  pc'[s] \notin {"reread", "rewrite"}
<1>1. CASE Acquire(s) \/ ReadMark(s) \/ List(s) \/ ListFails(s) \/ SkipRelease(s) \/ BeginRelease(s)
  BY <1>1, MovedSelf DEF Acquire, ReadMark, List, ListFails, SkipRelease, AtRelease, BeginRelease
<1>2. CASE CheckExists(s) \/ Upload(s) \/ UploadFails(s) \/ InsertAsset(s)
           \/ EndAssets(s) \/ SaveMeta(s)
  BY <1>2, MovedSelf DEF CheckExists, Upload, UploadFails, InsertAsset, EndAssets, SaveMeta
<1>3. CASE EndReleases(s) \/ SetMark(s) \/ SetLatest(s) \/ RereadMark(s) \/ RewriteMark(s)
  BY <1>3, MovedSelf DEF EndReleases, SetMark, SetLatest, RereadMark, RewriteMark, AfterSync
<1>4. CASE ReadNewest(s) \/ CreateLog(s) \/ UpsertSoftware(s) \/ FinishLog(s) \/ Unlock(s)
  BY <1>4, MovedSelf DEF ReadNewest, CreateLog, UpsertSoftware, FinishLog, FinishOr, Unlock
<1>5. CASE Clean(s) \/ CleanFails(s) \/ PurgeObjects(s) \/ PurgeSkips(s)
           \/ PurgeMeta(s) \/ PurgePg(s) \/ EndPurge(s)
  BY <1>5, MovedSelf DEF Clean, CleanFails, PurgeObjects, PurgeSkips, PurgeNext,
     PurgeMeta, PurgePg, EndPurge
<1> QED BY <1>1, <1>2, <1>3, <1>4, <1>5 DEF Step

\* A step that leads to a label at which the mark matters keeps the mark, and
\* raises the newest tag if it changes it.
LEMMA AtMarkSelf ==
    ASSUME Rule # "full_historical", TypeOK, NEW s \in Syncer, Step(s), faults' = 0, faults = 0,
           AtMark(pc[s], run[s], lastSynced)
    PROVE  AtMark(pc'[s], run'[s], lastSynced')
<1>t. /\ run[s] \in Local /\ lastSynced \in Tag \cup {NoTag}
      /\ \A t \in Tag \cup {NoTag} : Sem[t] \in Nat
  BY RankAssumption DEF TypeOK, LocalsOK, SharedOK
<1> SUFFICES ASSUME pc'[s] \in Mover PROVE AtMark(pc'[s], run'[s], lastSynced')
  BY DEF AtMark
<1>m. Mover = {"release", "asset", "upload", "insert", "meta", "list", "setmark"}
  BY DEF Mover, LoopLabel
<1>1. CASE ReadMark(s)
  <2>1. PICK ok \in BOOLEAN :
           /\ Try(ok)
           /\ LET mark == IF ok THEN lastSynced ELSE NoTag
              IN  Set(s, [run[s] EXCEPT !.seen = mark, !.newest = mark])
    BY <1>1 DEF ReadMark
  <2>2. ok
    BY <2>1 DEF Try, Failure
  <2> DEFINE loc == [run[s] EXCEPT !.seen = lastSynced, !.newest = lastSynced]
  <2>3. loc.seen = lastSynced /\ loc.newest = lastSynced
    BY <1>t DEF Local
  <2>4. run'[s] = loc
    BY <2>1, <2>2, MovedSelf
  <2> HIDE DEF loc
  <2>5. lastSynced' = lastSynced
    BY <1>1 DEF ReadMark, redis
  <2> QED BY <2>3, <2>4, <2>5, <1>t DEF AtMark
<1>2. CASE List(s)
  <2>1. PICK x : Set(s, [run[s] EXCEPT !.rels = x, !.next = 1])
    BY <1>2 DEF List
  <2> DEFINE loc == [run[s] EXCEPT !.rels = x, !.next = 1]
  <2>2. loc.seen = run[s].seen /\ loc.newest = run[s].newest
    BY <1>t DEF Local
  <2>3. run'[s] = loc
    BY <2>1, MovedSelf
  <2> HIDE DEF loc
  <2>4. pc[s] \in Mover /\ lastSynced' = lastSynced
    BY <1>2 DEF List, redis, Mover
  <2> QED BY <2>2, <2>3, <2>4 DEF AtMark
<1>3. CASE SaveMeta(s)
  <2> DEFINE newer == \/ Sem[run[s].tag] > Sem[run[s].newest]
                      \/ Rule = "full_historical" /\ run[s].newest = NoTag
  <2>1. PICK t : /\ t = IF newer THEN run[s].tag ELSE run[s].newest
                 /\ Set(s, [run[s] EXCEPT !.next = run[s].next + 1, !.newest = t])
    BY <1>3 DEF SaveMeta
  <2>2. Sem[t] >= Sem[run[s].newest]
    <3>1. run[s].tag \in Tag \cup {NoTag} /\ run[s].newest \in Tag \cup {NoTag}
      BY <1>t DEF Local
    <3>2. Sem[run[s].tag] \in Nat /\ Sem[run[s].newest] \in Nat
      BY <3>1, <1>t
    <3> QED BY <2>1, <3>2
  <2> DEFINE loc == [run[s] EXCEPT !.next = run[s].next + 1, !.newest = t]
  <2>3. loc.seen = run[s].seen /\ loc.newest = t
    BY <1>t DEF Local
  <2>4. run'[s] = loc
    BY <2>1, MovedSelf
  <2> HIDE DEF loc
  <2>5. pc[s] \in Mover /\ lastSynced' = lastSynced
    BY <1>3 DEF SaveMeta, redis, Mover, LoopLabel
  <2>6. Sem[run[s].newest] >= Sem[lastSynced] /\ run[s].seen = lastSynced
    BY <2>5 DEF AtMark
  <2>7. Sem[t] \in Nat /\ Sem[run[s].newest] \in Nat /\ Sem[lastSynced] \in Nat
    BY <2>1, <1>t DEF Local
  <2>8. Sem[t] >= Sem[lastSynced]
    BY <2>2, <2>6, <2>7
  <2> QED BY <2>3, <2>4, <2>5, <2>6, <2>8 DEF AtMark
<1>4. CASE UploadFails(s)
  BY <1>4 DEF UploadFails, Try, Failure
<1>5. CASE \/ SkipRelease(s) \/ BeginRelease(s) \/ CheckExists(s) \/ Upload(s)
           \/ InsertAsset(s) \/ EndAssets(s) \/ EndReleases(s)
  <2>1. pc[s] \in Mover
    BY <1>5, <1>m DEF SkipRelease, BeginRelease, AtRelease, CheckExists, Upload, InsertAsset,
       EndAssets, EndReleases
  <2>2. lastSynced' = lastSynced
    BY <1>5 DEF SkipRelease, BeginRelease, CheckExists, Upload, InsertAsset, EndAssets,
       EndReleases, redis
  <2>3. Listed(run'[s], run[s]) /\ run'[s].newest = run[s].newest
    BY <1>5, StepKeeps
  <2> QED BY <2>1, <2>2, <2>3 DEF AtMark, Listed
<1>6. CASE Acquire(s) \/ ListFails(s) \/ Unlock(s) \/ ReadNewest(s)
  BY <1>6, <1>m, MovedSelf DEF Acquire, ListFails, Unlock, ReadNewest
<1>7. CASE SetMark(s) \/ SetLatest(s) \/ RereadMark(s) \/ RewriteMark(s)
           \/ CreateLog(s) \/ UpsertSoftware(s) \/ FinishLog(s)
  BY <1>7, <1>m, MovedSelf DEF SetMark, SetLatest, RereadMark, RewriteMark, CreateLog,
     UpsertSoftware, FinishLog, FinishOr, AfterSync
<1>8. CASE Clean(s) \/ CleanFails(s) \/ PurgeObjects(s) \/ PurgeSkips(s)
           \/ PurgeMeta(s) \/ PurgePg(s) \/ EndPurge(s)
  BY <1>8, <1>m, MovedSelf DEF Clean, CleanFails, PurgeObjects, PurgeSkips, PurgeNext,
     PurgeMeta, PurgePg, EndPurge
<1> QED BY <1>1, <1>2, <1>3, <1>4, <1>5, <1>6, <1>7, <1>8 DEF Step

LEMMA MonotoneStep ==
    ASSUME TypeOK, LockInv, MonotoneInv, NEW s \in Syncer, Step(s)
    PROVE  MonotoneInv'
<1> SUFFICES ASSUME Rule # "full_historical" PROVE MonotoneInv'
  BY DEF MonotoneInv
<1>k. /\ overruns' = overruns
      /\ \A q \in Syncer \ {s} : pc'[q] = pc[q]
      /\ \/ ~lock /\ lock'
         \/ Holding(s) /\ ~Holding(s)'
         \/ Holding(s) /\ lock' = lock
  BY StepKinds
<1>1. \A q \in Syncer : pc'[q] \notin {"reread", "rewrite"}
  BY <1>k, NoReread DEF MonotoneInv
<1>2. ASSUME overruns' = 0, faults' = 0, NEW q \in Syncer
      PROVE  AtMark(pc'[q], run'[q], lastSynced')
  <2>1. overruns = 0 /\ faults = 0
    BY <1>2, <1>k, FaultsGrow
  <2>2. CASE q = s
    BY <2>1, <2>2, <1>2, AtMarkSelf DEF MonotoneInv
  <2>3. CASE q # s
    <3>1. ~Holding(q)
      BY <2>1, <2>3, <1>k DEF LockInv
    <3> QED BY <2>3, <3>1, <1>k DEF Holding, AtMark, Mover, LoopLabel
  <2> QED BY <2>2, <2>3
<1> QED BY <1>1, <1>2 DEF MonotoneInv

LEMMA MonotoneEnvironment ==
    ASSUME TypeOK, MonotoneInv, Environment PROVE MonotoneInv'
<1>o. overruns \in Nat
  BY ConfigAssumption DEF TypeOK, SharedOK
<1>0. ASSUME UNCHANGED <<pc, run, lastSynced, overruns, faults>> PROVE MonotoneInv'
  BY <1>0 DEF MonotoneInv, AtMark
<1>1. ASSUME NEW t \in Tag, Publish(t) \/ MetaExpires(t) PROVE MonotoneInv'
  BY <1>0, <1>1 DEF Publish, MetaExpires, redis, rare
<1>2. ASSUME NEW k \in Key, AssetReady(k) PROVE MonotoneInv'
  BY <1>0, <1>2 DEF AssetReady, redis, rare
<1>3. CASE LockExpires
  BY <1>0, <1>3 DEF LockExpires, redis, rare
<1>4. CASE LockOverrun
  <2>1. UNCHANGED pc /\ overruns' = overruns + 1
    BY <1>4 DEF LockOverrun
  <2> QED BY <2>1, <1>o DEF MonotoneInv
<1>5. ASSUME NEW s \in Syncer, Crash(s) \/ Restart(s) PROVE MonotoneInv'
  <2>1. UNCHANGED <<lastSynced, overruns, faults>> /\ pc'[s] \in {"down", "idle"}
    BY <1>5, MovedSelf DEF Crash, Restart, redis, rare
  <2>2. \A q \in Syncer \ {s} : pc'[q] = pc[q] /\ run'[q] = run[q]
    BY <1>5 DEF TypeOK, LocalsOK, Crash, Restart, Goto, Set
  <2> QED BY <2>1, <2>2 DEF MonotoneInv, AtMark, Mover, LoopLabel
<1> QED BY <1>1, <1>2, <1>3, <1>4, <1>5 DEF Environment

\* Under the incremental rules the mark never goes back to an older version, so that
\* no release is mirrored a second time, as long as no run has outlived its lock and
\* no call has failed: crashes and any order of publication included.
THEOREM MarkMonotoneHolds == Spec => MarkMonotone
<1>1. Init => LockInv /\ MonotoneInv
  BY DEF Init, LockInv, Holding, MonotoneInv, AtMark, Mover, LoopLabel
<1>2. TypeOK /\ LockInv /\ MonotoneInv /\ [Next]_vars => LockInv' /\ MonotoneInv'
  <2> SUFFICES ASSUME TypeOK, LockInv, MonotoneInv, [Next]_vars
               PROVE  LockInv' /\ MonotoneInv'
    OBVIOUS
  <2>1. CASE UNCHANGED vars
    BY <2>1, LockStep DEF vars, redis, rare, MonotoneInv, AtMark
  <2> QED BY <2>1, LockStep, MonotoneStep, MonotoneEnvironment DEF Next
<1> DEFINE Kept == Rule # "full_historical" /\ overruns = 0 /\ faults = 0
                       => Sem[lastSynced'] >= Sem[lastSynced]
<1>3. TypeOK /\ MonotoneInv /\ [Next]_vars => [Kept]_lastSynced
  <2> SUFFICES ASSUME TypeOK, MonotoneInv, [Next]_vars, lastSynced' # lastSynced,
                      Rule # "full_historical", overruns = 0, faults = 0
               PROVE  Sem[lastSynced'] >= Sem[lastSynced]
    OBVIOUS
  <2>1. CASE UNCHANGED vars
    BY <2>1 DEF vars, redis
  <2>2. CASE Environment
    BY <2>2 DEF Environment, Publish, MetaExpires, AssetReady, LockExpires, LockOverrun,
       Crash, Restart, redis
  <2>3. ASSUME NEW s \in Syncer, Step(s) PROVE Sem[lastSynced'] >= Sem[lastSynced]
    BY <2>3, StepMark DEF MonotoneInv, AtMark, Mover
  <2> QED BY <2>1, <2>2, <2>3 DEF Next
<1> QED BY <1>1, <1>2, <1>3, TypeCorrect, PTL DEF Spec, MarkMonotone

-----------------------------------------------------------------------------
(* What a cleanup keeps.  Tags above everything an instance is going to purge *)
(* are in S3, Keep of them at least; whoever else removes one of these keeps   *)
(* as many above it.                                                           *)

Above(old, tags) == {u \in tags \ old : \A t \in old : Sem[u] >= Sem[t]}

KeptInv ==
    /\ IsFiniteSet(s3)
    /\ \A s \in Syncer : run[s].purge # {} =>
          /\ pc[s] \in {"purge", "purgemeta", "purgepg"}
          /\ Cardinality(Above(run[s].purge, Tags(s3))) >= Keep

\* No two tags rank the same.
Ranked == \A t, u \in Tag : Sem[t] = Sem[u] => t = u

LEMMA RankNumbers == (\A t \in Tag : Sem[t] \in Nat) /\ Keep \in Nat \ {0}
BY RankAssumption, ConfigAssumption DEF Keep

LEMMA FiniteTags == \A S : IsFiniteSet(S) => IsFiniteSet(Tags(S))
<1> SUFFICES ASSUME NEW S, IsFiniteSet(S) PROVE IsFiniteSet(Tags(S))
  OBVIOUS
<1> DEFINE f == [o \in S |-> o[1]]
<1>1. f \in Surjection(S, Tags(S))
  BY DEF Surjection, Tags
<1> QED BY <1>1, FS_Surjection

\* What a step of one instance does to what is purged, and to S3.
PurgeMoves(s) ==
    \/ s3 \subseteq s3' /\ IsFiniteSet(s3') /\ run'[s].purge \subseteq run[s].purge
       /\ (run'[s].purge # {} => pc'[s] \in {"purge", "purgemeta", "purgepg"})
    \/ Clean(s)
    \/ PurgeObjects(s)

\* Outside the loop over what it purges, an instance has nothing to purge.
LEMMA PurgeAside ==
    ASSUME TypeOK, NEW s \in Syncer, Step(s), run[s].purge = {},
           ~Clean(s), ~PurgeObjects(s), ~PurgeSkips(s), ~PurgeMeta(s), ~PurgePg(s)
    PROVE  /\ \A q \in Syncer \ {s} : pc'[q] = pc[q] /\ run'[q] = run[q]
           /\ run'[s].purge = {}
           /\ s3' = s3 \/ \E k : s3' = s3 \cup {k}
<1>t. /\ pc \in [Syncer -> Label] /\ run \in [Syncer -> Local] /\ run[s] \in Local
  BY DEF TypeOK, LocalsOK
\* The moving instance gets other locals, which have nothing to purge either.
<1>g. ASSUME NEW r, r.purge = {}, Set(s, r) \/ (UNCHANGED run /\ r = run[s]), UNCHANGED pc \/ \E l : Goto(s, l)
      PROVE  /\ \A q \in Syncer \ {s} : pc'[q] = pc[q] /\ run'[q] = run[q]
             /\ run'[s].purge = {}
  BY <1>g, <1>t DEF Set, Goto
<1>a. AssetDone(s) \in Local /\ AssetDone(s).purge = {}
  BY <1>t DEF AssetDone, Local
<1>1. CASE Acquire(s) \/ ListFails(s) \/ Unlock(s)
  <2>1. Set(s, NewRun) /\ (\E l : Goto(s, l)) /\ NewRun.purge = {} /\ s3' = s3
    BY <1>1 DEF Acquire, ListFails, Unlock, NewRun
  <2> QED BY <2>1, <1>g
<1>2. CASE ReadMark(s) \/ RereadMark(s) \/ ReadNewest(s)
  <2>1. \A n : [run[s] EXCEPT !.seen = n, !.newest = n].purge = {} /\ [run[s] EXCEPT !.newest = n].purge = {}
    BY <1>t DEF Local
  <2>2. /\ \E n : Set(s, [run[s] EXCEPT !.seen = n, !.newest = n]) \/ Set(s, [run[s] EXCEPT !.newest = n])
        /\ \E l : Goto(s, l)
        /\ s3' = s3
    BY <1>2 DEF ReadMark, RereadMark, ReadNewest
  <2> QED BY <2>1, <2>2, <1>g
<1>3. CASE List(s)
  <2>1. \A n, m : [run[s] EXCEPT !.rels = n, !.next = m].purge = {}
    BY <1>t DEF Local
  <2>2. (\E n, m : Set(s, [run[s] EXCEPT !.rels = n, !.next = m])) /\ (\E l : Goto(s, l)) /\ s3' = s3
    BY <1>3 DEF List
  <2> QED BY <2>1, <2>2, <1>g
<1>4. CASE SkipRelease(s)
  <2>1. \A n : [run[s] EXCEPT !.next = n].purge = {}
    BY <1>t DEF Local
  <2>2. (\E n : Set(s, [run[s] EXCEPT !.next = n])) /\ UNCHANGED pc /\ s3' = s3
    BY <1>4 DEF SkipRelease
  <2> QED BY <2>1, <2>2, <1>g
<1>5. CASE BeginRelease(s)
  <2>1. \A n, m, b : [run[s] EXCEPT !.tag = n, !.todo = m, !.up = FALSE, !.linked = b].purge = {}
    BY <1>t DEF Local
  <2>2. /\ \E n, m, b : Set(s, [run[s] EXCEPT !.tag = n, !.todo = m, !.up = FALSE, !.linked = b])
        /\ (\E l : Goto(s, l)) /\ s3' = s3
    BY <1>5 DEF BeginRelease
  <2> QED BY <2>1, <2>2, <1>g
<1>6. CASE CheckExists(s)
  <2>1. CASE Set(s, AssetDone(s)) /\ UNCHANGED pc
    BY <2>1, <1>6, <1>a, <1>g DEF CheckExists
  <2>2. CASE Goto(s, "upload") /\ UNCHANGED run
    BY <2>2, <1>6, <1>g DEF CheckExists
  <2> QED BY <2>1, <2>2, <1>6 DEF CheckExists
<1>7. CASE Upload(s)
  <2>1. \A r \in Local : r.purge = {} => [r EXCEPT !.up = TRUE, !.fresh = TRUE].purge = {}
    BY DEF Local
  <2>2. /\ \E r \in {run[s], AssetDone(s)} : Set(s, [r EXCEPT !.up = TRUE, !.fresh = TRUE])
        /\ (\E l : Goto(s, l)) /\ (\E k : s3' = s3 \cup {k})
    BY <1>7 DEF Upload
  <2> QED BY <2>1, <2>2, <1>a, <1>t, <1>g
<1>8. CASE UploadFails(s)
  <2>1. [AssetDone(s) EXCEPT !.failed = TRUE].purge = {}
    BY <1>a DEF Local
  <2>2. /\ Set(s, [AssetDone(s) EXCEPT !.failed = TRUE])
        /\ (\E l : Goto(s, l)) /\ (s3' = s3 \/ \E k : s3' = s3 \cup {k})
    BY <1>8 DEF UploadFails
  <2> QED BY <2>1, <2>2, <1>g
<1>9. CASE InsertAsset(s)
  <2>1. Set(s, AssetDone(s)) /\ (\E l : Goto(s, l)) /\ s3' = s3
    BY <1>9 DEF InsertAsset
  <2> QED BY <2>1, <1>a, <1>g
<1>10. CASE EndAssets(s) \/ SaveMeta(s)
  <2>1. \A n, m : [run[s] EXCEPT !.next = n].purge = {} /\ [run[s] EXCEPT !.next = n, !.newest = m].purge = {}
    BY <1>t DEF Local
  <2>2. /\ \/ UNCHANGED run
           \/ \E n, m : Set(s, [run[s] EXCEPT !.next = n]) \/ Set(s, [run[s] EXCEPT !.next = n, !.newest = m])
        /\ (\E l : Goto(s, l)) /\ s3' = s3
    BY <1>10 DEF EndAssets, SaveMeta
  <2> QED BY <2>1, <2>2, <1>g
<1>11. CASE EndReleases(s) \/ SetLatest(s) \/ RewriteMark(s) \/ CleanFails(s) \/ EndPurge(s)
           \/ UpsertSoftware(s) \/ FinishLog(s)
  <2>1. UNCHANGED run /\ (\E l : Goto(s, l)) /\ s3' = s3
    BY <1>11 DEF EndReleases, SetLatest, RewriteMark, CleanFails, EndPurge, UpsertSoftware, FinishLog
  <2> QED BY <2>1, <1>g
<1>12. CASE SetMark(s) \/ CreateLog(s)
  <2>1. \A b : [run[s] EXCEPT !.errs = b].purge = {} /\ [run[s] EXCEPT !.logged = b].purge = {}
    BY <1>t DEF Local
  <2>2. /\ \E b : Set(s, [run[s] EXCEPT !.errs = b]) \/ Set(s, [run[s] EXCEPT !.logged = b])
        /\ (\E l : Goto(s, l)) /\ s3' = s3
    BY <1>12 DEF SetMark, CreateLog
  <2> QED BY <2>1, <2>2, <1>g
<1> QED BY <1>1, <1>2, <1>3, <1>4, <1>5, <1>6, <1>7, <1>8, <1>9, <1>10, <1>11, <1>12 DEF Step

\* In that loop it purges, or ends it.
LEMMA PurgeLoop ==
    ASSUME NEW s \in Syncer, Step(s), pc[s] \in {"purge", "purgemeta", "purgepg"}
    PROVE  PurgeObjects(s) \/ PurgeSkips(s) \/ PurgeMeta(s) \/ PurgePg(s) \/ EndPurge(s)
BY CleanupSteps DEF PurgeLabel, Clean, CleanFails

LEMMA PurgeKinds ==
    ASSUME TypeOK, KeptInv, NEW s \in Syncer, Step(s)
    PROVE  /\ \A q \in Syncer \ {s} : pc'[q] = pc[q] /\ run'[q].purge = run[q].purge
           /\ PurgeMoves(s)
<1>t. /\ pc \in [Syncer -> Label] /\ run \in [Syncer -> Local] /\ IsFiniteSet(s3)
      /\ \A q \in Syncer : run[q] \in Local
  BY DEF TypeOK, LocalsOK, KeptInv
<1>1. CASE Clean(s) \/ PurgeObjects(s)
  <2>1. \A q \in Syncer \ {s} : pc'[q] = pc[q] /\ run'[q].purge = run[q].purge
    BY <1>1, <1>t DEF Clean, PurgeObjects, Goto, Set
  <2> QED BY <1>1, <2>1 DEF PurgeMoves
<1>2. CASE PurgeSkips(s)
  <2>1. PICK t : Set(s, [run[s] EXCEPT !.purge = run[s].purge \ {t}])
    BY <1>2 DEF PurgeSkips
  <2>2. pc[s] = "purge" /\ UNCHANGED <<pc, s3>>
    BY <1>2 DEF PurgeSkips, PurgeNext
  <2>3. run'[s].purge \subseteq run[s].purge /\ \A q \in Syncer \ {s} : run'[q] = run[q]
    BY <2>1, <1>t DEF Set, Local
  <2> QED BY <2>2, <2>3, <1>t DEF PurgeMoves
<1>3. CASE PurgeMeta(s)
  <2>1. UNCHANGED run \/ \E t : Set(s, [run[s] EXCEPT !.purge = run[s].purge \ {t}])
    BY <1>3 DEF PurgeMeta
  <2>2. (\E l \in {"purge", "purgepg"} : Goto(s, l)) /\ UNCHANGED s3
    BY <1>3 DEF PurgeMeta
  <2>3. run'[s].purge \subseteq run[s].purge /\ \A q \in Syncer \ {s} : run'[q] = run[q]
    BY <2>1, <1>t DEF Set, Local
  <2>4. pc'[s] \in {"purge", "purgepg"} /\ \A q \in Syncer \ {s} : pc'[q] = pc[q]
    BY <2>2, <1>t DEF Goto
  <2> QED BY <2>2, <2>3, <2>4, <1>t DEF PurgeMoves
<1>4. CASE PurgePg(s)
  <2>1. PICK version \in BOOLEAN :
           run' = [q \in Syncer |->
                      IF q = s THEN [run[s] EXCEPT !.purge = run[s].purge \ {run[s].tag}]
                      ELSE [run[q] EXCEPT !.linked =
                               run[q].linked /\ ~(version /\ run[q].tag = run[s].tag)]]
    BY <1>4 DEF PurgePg
  <2>2. Goto(s, "purge") /\ UNCHANGED s3
    BY <1>4 DEF PurgePg
  <2>3. /\ \A r \in Local : \A t : [r EXCEPT !.purge = r.purge \ {t}].purge \subseteq r.purge
        /\ \A r \in Local : \A b : [r EXCEPT !.linked = b].purge = r.purge
    BY DEF Local
  <2>4. run'[s].purge \subseteq run[s].purge
    <3>1. run'[s] = [run[s] EXCEPT !.purge = run[s].purge \ {run[s].tag}]
      BY <2>1
    <3> QED BY <3>1, <2>3, <1>t
  <2>5. \A q \in Syncer \ {s} : run'[q].purge = run[q].purge
    <3> SUFFICES ASSUME NEW q \in Syncer \ {s} PROVE run'[q].purge = run[q].purge
      OBVIOUS
    <3>1. run'[q] = [run[q] EXCEPT !.linked =
                        run[q].linked /\ ~(version /\ run[q].tag = run[s].tag)]
      BY <2>1
    <3> QED BY <3>1, <2>3, <1>t
  <2>6. pc'[s] = "purge" /\ \A q \in Syncer \ {s} : pc'[q] = pc[q]
    BY <2>2, <1>t DEF Goto
  <2> QED BY <2>2, <2>4, <2>5, <2>6, <1>t DEF PurgeMoves
<1>5. CASE ~Clean(s) /\ ~PurgeObjects(s) /\ ~PurgeSkips(s) /\ ~PurgeMeta(s) /\ ~PurgePg(s)
  <2>1. run[s].purge = {}
    <3>1. CASE EndPurge(s)
      BY <3>1 DEF EndPurge
    <3>2. CASE ~EndPurge(s)
      BY <3>2, <1>5, PurgeLoop DEF KeptInv
    <3> QED BY <3>1, <3>2
  <2>2. /\ \A q \in Syncer \ {s} : pc'[q] = pc[q] /\ run'[q] = run[q]
        /\ run'[s].purge = {}
        /\ s3' = s3 \/ \E k : s3' = s3 \cup {k}
    BY <2>1, <1>5, PurgeAside
  <2>3. s3 \subseteq s3' /\ IsFiniteSet(s3')
    BY <2>2, <1>t, FS_AddElement
  <2> QED BY <2>1, <2>2, <2>3 DEF PurgeMoves
<1> QED BY <1>1, <1>2, <1>3, <1>4, <1>5

LEMMA AboveMore ==
    \A old1, old2, tags1, tags2 :
        old2 \subseteq old1 /\ tags1 \subseteq tags2 => Above(old1, tags1) \subseteq Above(old2, tags2)
BY DEF Above

LEMMA AboveEnough ==
    ASSUME NEW S, NEW T, IsFiniteSet(T), S \subseteq T, Cardinality(S) >= Keep
    PROVE  Cardinality(T) >= Keep
<1>1. Cardinality(S) \in Nat /\ Cardinality(T) \in Nat /\ Cardinality(S) <= Cardinality(T)
  BY FS_Subset, FS_CardinalityType
<1> QED BY <1>1, RankNumbers

LEMMA FiniteAbove == \A S, old : IsFiniteSet(S) => IsFiniteSet(Above(old, Tags(S)))
<1>1. \A old, tags : Above(old, tags) \subseteq tags
  BY DEF Above
<1> QED BY <1>1, FiniteTags, FS_Subset

\* Of a version that leaves S3: Keep others, none of them older, stay.
Keeps ==
    \A t \in Tags(s3) \ Tags(s3') : Cardinality({u \in Tags(s3') : Sem[u] >= Sem[t]}) >= Keep

LEMMA KeptStep ==
    ASSUME TypeOK, LockInv, KeptInv, MaxOverruns = 0 \/ Ranked, NEW s \in Syncer, Step(s)
    PROVE  KeptInv' /\ Keeps
<1>t. /\ pc \in [Syncer -> Label] /\ run \in [Syncer -> Local] /\ IsFiniteSet(s3) /\ s3 \subseteq Key
      /\ \A q \in Syncer : run[q] \in Local /\ run[q].purge \subseteq Tag
  <2>1. \A q \in Syncer : run[q] \in Local
    BY DEF TypeOK, LocalsOK
  <2> QED BY <2>1 DEF TypeOK, LocalsOK, SharedOK, KeptInv, Local
<1>o. \A q \in Syncer \ {s} : pc'[q] = pc[q] /\ run'[q].purge = run[q].purge
  BY PurgeKinds
<1>h. \A q \in Syncer : run[q].purge # {} =>
          /\ pc[q] \in {"purge", "purgemeta", "purgepg"}
          /\ Cardinality(Above(run[q].purge, Tags(s3))) >= Keep
  BY DEF KeptInv
<1>1. CASE /\ s3 \subseteq s3' /\ IsFiniteSet(s3') /\ run'[s].purge \subseteq run[s].purge
           /\ run'[s].purge # {} => pc'[s] \in {"purge", "purgemeta", "purgepg"}
  <2>1. Tags(s3) \subseteq Tags(s3')
    BY <1>1 DEF Tags
  <2>2. ASSUME NEW q \in Syncer, run'[q].purge # {}
        PROVE  /\ pc'[q] \in {"purge", "purgemeta", "purgepg"}
               /\ Cardinality(Above(run'[q].purge, Tags(s3'))) >= Keep
    <3>1. run'[q].purge \subseteq run[q].purge /\ pc'[q] \in {"purge", "purgemeta", "purgepg"}
      BY <1>1, <1>o, <1>h, <2>2
    <3>2. Above(run[q].purge, Tags(s3)) \subseteq Above(run'[q].purge, Tags(s3'))
      BY <2>1, <3>1, AboveMore
    <3>3. Cardinality(Above(run[q].purge, Tags(s3))) >= Keep
      BY <1>h, <2>2, <3>1
    <3>4. IsFiniteSet(Above(run'[q].purge, Tags(s3')))
      BY <1>1, FiniteAbove
    <3> QED BY <3>1, <3>2, <3>3, <3>4, AboveEnough
  <2> QED BY <1>1, <2>1, <2>2 DEF KeptInv, Keeps
<1>2. CASE Clean(s)
  <2>1. PICK page \in Pages(s3) : \E old \in Surplus(Tags(page)) :
            Set(s, [run[s] EXCEPT !.purge = old])
    BY <1>2 DEF Clean
  <2>o. PICK old \in Surplus(Tags(page)) : Set(s, [run[s] EXCEPT !.purge = old])
    BY <2>1
  <2>2. s3' = s3 /\ pc'[s] = "purge"
    BY <1>2, <1>t DEF Clean, Goto
  <2>3. run'[s].purge = old
    BY <2>o, <1>t DEF Set, Local
  <2>4. Tags(page) \subseteq Tags(s3)
    <3>1. page \subseteq s3
      BY DEF Pages
    <3> QED BY <3>1 DEF Tags
  <2>5. ASSUME old # {} PROVE Cardinality(Above(old, Tags(s3))) >= Keep
    <3>1. /\ Cardinality(Tags(page) \ old) = Keep
          /\ \A t \in old, u \in Tags(page) \ old : Sem[t] <= Sem[u]
      BY <2>5 DEF Surplus
    <3>2. Tags(page) \ old \subseteq Above(old, Tags(s3))
      BY <2>4, <3>1 DEF Above
    <3>3. IsFiniteSet(Above(old, Tags(s3)))
      BY <1>t, FiniteAbove
    <3> QED BY <3>1, <3>2, <3>3, AboveEnough, RankNumbers
  <2>6. ASSUME NEW q \in Syncer, run'[q].purge # {}
        PROVE  /\ pc'[q] \in {"purge", "purgemeta", "purgepg"}
               /\ Cardinality(Above(run'[q].purge, Tags(s3'))) >= Keep
    <3>1. CASE q = s
      BY <2>2, <2>3, <2>5, <2>6, <3>1
    <3>2. CASE q # s
      BY <1>o, <1>h, <2>2, <2>6, <3>2
    <3> QED BY <3>1, <3>2
  <2> QED BY <1>t, <2>2, <2>6 DEF KeptInv, Keeps
<1>3. CASE PurgeObjects(s)
  <2>p. PICK v \in run[s].purge, ok \in BOOLEAN :
            /\ PurgeNext(s, v)
            /\ \E page \in Pages({o \in s3 : o[1] = v}) : \E gone \in SUBSET page :
                  (ok => gone = page) /\ s3' = s3 \ gone
            /\ Set(s, [run[s] EXCEPT !.tag = v])
    BY <1>3 DEF PurgeObjects
  <2>q. PICK page \in Pages({o \in s3 : o[1] = v}) : \E gone \in SUBSET page : s3' = s3 \ gone
    BY <2>p
  <2>1. /\ v \in run[s].purge /\ PurgeNext(s, v)
        /\ \E gone \in SUBSET page : s3' = s3 \ gone
        /\ Set(s, [run[s] EXCEPT !.tag = v])
    BY <2>p, <2>q
  <2>2. run'[s].purge = run[s].purge /\ pc'[s] = "purgemeta" /\ pc[s] = "purge"
    <3>1. \A r \in Local : [r EXCEPT !.tag = v].purge = r.purge
      BY DEF Local
    <3>2. run'[s] = [run[s] EXCEPT !.tag = v] /\ pc'[s] = "purgemeta"
      BY <2>1, <1>3, <1>t DEF Set, PurgeObjects, Goto
    <3> QED BY <3>1, <3>2, <2>1, <1>t DEF PurgeNext
  <2>3. s3' \subseteq s3 /\ IsFiniteSet(s3') /\ \A o \in s3 \ s3' : o[1] = v
    <3>1. page \subseteq {o \in s3 : o[1] = v}
      BY DEF Pages
    <3> QED BY <2>1, <3>1, <1>t, FS_Subset
  <2>4. Tags(s3') \subseteq Tags(s3) /\ Tags(s3) \ {v} \subseteq Tags(s3') /\ Tags(s3) \subseteq Tag
    BY <2>3, <1>t DEF Tags, Key
  <2>5. \A u \in run[s].purge : Sem[u] <= Sem[v]
    BY <2>1 DEF PurgeNext
  <2>6. /\ Cardinality(Above(run[s].purge, Tags(s3'))) >= Keep
        /\ v \notin Above(run[s].purge, Tags(s3'))
        /\ \A u \in Above(run[s].purge, Tags(s3')) : Sem[u] >= Sem[v]
    <3>1. Above(run[s].purge, Tags(s3)) \subseteq Above(run[s].purge, Tags(s3'))
      BY <2>1, <2>4 DEF Above
    <3>2. IsFiniteSet(Above(run[s].purge, Tags(s3')))
      BY <2>3, FiniteAbove
    <3>3. v \notin Above(run[s].purge, Tags(s3'))
          /\ \A u \in Above(run[s].purge, Tags(s3')) : Sem[u] >= Sem[v]
      BY <2>1 DEF Above
    <3> QED BY <3>1, <3>2, <3>3, <1>h, <2>1, AboveEnough
  <2>7. ASSUME NEW q \in Syncer, run'[q].purge # {}
        PROVE  /\ pc'[q] \in {"purge", "purgemeta", "purgepg"}
               /\ Cardinality(Above(run'[q].purge, Tags(s3'))) >= Keep
    <3>1. CASE q = s
      BY <2>2, <2>6, <3>1
    <3>2. CASE q # s
      <4>1. /\ run'[q].purge = run[q].purge /\ pc'[q] = pc[q] /\ run[q].purge # {}
            /\ pc[q] \in {"purge", "purgemeta", "purgepg"}
            /\ Cardinality(Above(run[q].purge, Tags(s3))) >= Keep
        BY <1>o, <1>h, <2>7, <3>2
      <4>2. IsFiniteSet(Above(run[q].purge, Tags(s3')))
        BY <2>3, FiniteAbove
      <4>3. Ranked
        <5>1. MaxOverruns # 0
          BY <2>2, <3>2, <4>1 DEF LockInv, Holding, TypeOK, SharedOK
        <5> QED BY <5>1
      <4>4. CASE v \notin Above(run[q].purge, Tags(s3))
        <5>1. Above(run[q].purge, Tags(s3)) \subseteq Above(run[q].purge, Tags(s3'))
          BY <2>4, <4>4 DEF Above
        <5> QED BY <4>1, <4>2, <5>1, AboveEnough
      <4>5. CASE v \in Above(run[q].purge, Tags(s3))
        <5>1. \A t \in run[q].purge : Sem[v] >= Sem[t]
          BY <4>5 DEF Above
        <5>2. ASSUME NEW u \in Above(run[s].purge, Tags(s3'))
              PROVE  u \in Above(run[q].purge, Tags(s3'))
          <6>1. u \in Tag /\ u \in Tags(s3') /\ v \in Tag /\ Sem[u] >= Sem[v] /\ u # v
            BY <2>1, <2>4, <2>6, <5>2, <1>t DEF Above
          <6>2. \A t \in run[q].purge : t \in Tag /\ Sem[u] >= Sem[t]
            BY <5>1, <6>1, <1>t, RankNumbers
          <6>3. u \notin run[q].purge
            BY <4>3, <5>1, <6>1, RankNumbers DEF Ranked
          <6> QED BY <6>1, <6>2, <6>3 DEF Above
        <5> QED BY <2>6, <4>1, <4>2, <5>2, AboveEnough
      <4> QED BY <4>4, <4>5
    <3> QED BY <3>1, <3>2
  <2>8. Keeps
    <3> SUFFICES ASSUME NEW t \in Tags(s3) \ Tags(s3')
                 PROVE  Cardinality({u \in Tags(s3') : Sem[u] >= Sem[t]}) >= Keep
      BY DEF Keeps
    <3>1. t = v
      BY <2>4
    <3>2. Above(run[s].purge, Tags(s3')) \subseteq {u \in Tags(s3') : Sem[u] >= Sem[t]}
      BY <2>6, <3>1 DEF Above
    <3>3. IsFiniteSet({u \in Tags(s3') : Sem[u] >= Sem[t]})
      <4>1. IsFiniteSet(Tags(s3'))
        BY <2>3, FiniteTags
      <4> QED BY <4>1, FS_Subset
    <3> QED BY <2>6, <3>2, <3>3, AboveEnough
  <2> QED BY <2>3, <2>7, <2>8 DEF KeptInv
<1> QED BY <1>1, <1>2, <1>3, PurgeKinds DEF PurgeMoves

LEMMA KeptEnvironment ==
    ASSUME TypeOK, KeptInv, Environment PROVE KeptInv' /\ UNCHANGED s3
<1> USE DEF redis, pg
<1>1. ASSUME UNCHANGED <<pc, run, s3>> PROVE KeptInv'
  BY <1>1 DEF KeptInv
<1>2. ASSUME NEW t \in Tag, Publish(t) \/ MetaExpires(t) PROVE KeptInv' /\ UNCHANGED s3
  BY <1>1, <1>2 DEF Publish, MetaExpires
<1>3. ASSUME NEW k \in Key, AssetReady(k) PROVE KeptInv' /\ UNCHANGED s3
  BY <1>1, <1>3 DEF AssetReady
<1>4. CASE LockExpires \/ LockOverrun
  BY <1>1, <1>4 DEF LockExpires, LockOverrun
<1>5. ASSUME NEW s \in Syncer, Crash(s) \/ Restart(s) PROVE KeptInv' /\ UNCHANGED s3
  <2>1. UNCHANGED s3
    BY <1>5 DEF Crash, Restart
  <2>2. \A q \in Syncer \ {s} : pc'[q] = pc[q] /\ run'[q] = run[q]
    BY <1>5 DEF Crash, Restart, Goto, Set, TypeOK, LocalsOK
  <2>3. run'[s].purge = {}
    <3>1. CASE Crash(s)
      BY <3>1, MovedSelf DEF Crash, NewRun
    <3>2. CASE Restart(s)
      BY <3>2 DEF Restart, KeptInv
    <3> QED BY <1>5, <3>1, <3>2
  <2>4. \A q \in Syncer : run'[q].purge # {} => pc'[q] = pc[q] /\ run'[q] = run[q]
    BY <2>2, <2>3
  <2> QED BY <2>1, <2>4 DEF KeptInv
<1> QED BY <1>2, <1>3, <1>4, <1>5 DEF Environment

\* A cleanup keeps the keep_versions newest versions (github.go:486-513), whatever
\* calls fail and whatever a page of the listing leaves out -- as long as no run
\* outlives its lock, or, if cleanups do overlap, no two tags rank the same.
THEOREM KeepsNewestHolds ==
    ASSUME MaxOverruns = 0 \/ (\A t, u \in Tag : Sem[t] = Sem[u] => t = u)
    PROVE  Spec => KeepsNewest
<1>1. Init => LockInv /\ KeptInv
  BY FS_EmptySet DEF Init, LockInv, Holding, KeptInv, NewRun
<1>2. TypeOK /\ LockInv /\ KeptInv /\ [Next]_vars => LockInv' /\ KeptInv' /\ (Keeps \/ UNCHANGED s3)
  <2> SUFFICES ASSUME TypeOK, LockInv, KeptInv, [Next]_vars PROVE KeptInv' /\ (Keeps \/ UNCHANGED s3)
    BY LockStep
  <2>1. CASE UNCHANGED vars
    BY <2>1 DEF vars, KeptInv
  <2> QED BY <2>1, KeptStep, KeptEnvironment DEF Next, Ranked
<1>3. Keeps \/ UNCHANGED s3 => [\A t \in Tags(s3) \ Tags(s3') :
           Cardinality({u \in Tags(s3') : Sem[u] >= Sem[t]}) >= Keep]_s3
  BY DEF Keeps
<1> QED BY <1>1, <1>2, <1>3, TypeCorrect, PTL DEF Spec, KeepsNewest
=============================================================================
