----------------------------- MODULE SemVerProofs -----------------------------
(***************************************************************************)
(* Proofs about SemVer: compareSemVer orders the versions of any tags, and  *)
(* ranks stand for that order, as ReleaseSync's RankAssumption takes them. *)
(***************************************************************************)
EXTENDS SemVer, FiniteSetTheorems, WellFoundedInduction, TLAPS

-----------------------------------------------------------------------------
(* Numbers of versions.                                                     *)

LEMMA NumberInt == ASSUME NEW v \in Version, NEW i PROVE Number(v, i) \in Int
<1>1. CASE i \in 1..Len(v)
  <2>1. v[i] \in Int \cup {NoNumber} /\ v[i] = NoNumber => Atoi(v[i]) = 0
    BY <1>1 DEF Version, Atoi
  <2>2. v[i] # NoNumber => v[i] \in Int
    BY <1>1 DEF Version
  <2>3. v[i] = NoNumber => Atoi(v[i]) \in Int
    BY DEF Atoi
  <2>4. v[i] # NoNumber => Atoi(v[i]) \in Int
    BY <2>2, NumberAssumption DEF Atoi
  <2> QED BY <1>1, <2>3, <2>4 DEF Number
<1>2. CASE i \notin 1..Len(v)
  BY <1>2 DEF Number
<1> QED BY <1>1, <1>2

\* No induction over a predicate: the least of some positions is the one whose
\* interval 1..i has no smaller among them.
LEMMA LeastPosition ==
    ASSUME NEW T \in SUBSET (Nat \ {0}), T # {}
    PROVE  \E i \in T : \A j \in 1..(i - 1) : j \notin T
<1> DEFINE below == {1..i : i \in T}
<1>1. below \subseteq FiniteSubsetsOf(Nat)
  <2> SUFFICES ASSUME NEW i \in T PROVE 1..i \in FiniteSubsetsOf(Nat)
    OBVIOUS
  <2>1. i \in Nat /\ 1..i \in SUBSET Nat
    OBVIOUS
  <2>2. IsFiniteSet(1..i)
    BY <2>1, FS_Interval, SMT
  <2> QED BY <2>1, <2>2 DEF FiniteSubsetsOf
<1>2. below # {}
  OBVIOUS
<1>3. IsWellFoundedOn(StrictSubsetOrdering(Nat), FiniteSubsetsOf(Nat))
  BY FS_StrictSubsetOrderingWellFounded
<1>4. PICK s \in below : \A r \in below : <<r, s>> \notin StrictSubsetOrdering(Nat)
  <2> HIDE DEF below
  <2> QED BY <1>1, <1>2, <1>3, WFMin
<1>5. PICK i \in T : s = 1..i
  BY <1>4
<1>6. ASSUME NEW j \in 1..(i - 1), j \in T PROVE FALSE
  <2>1. 1..j \in below
    BY <1>6
  <2>2. <<1..j, s>> \notin StrictSubsetOrdering(Nat)
    BY <1>4, <2>1
  <2>3. i \in Nat /\ j \in Nat /\ j < i /\ 0 < j
    BY <1>6
  <2>4. /\ 1..j \subseteq 1..i /\ i \in 1..i /\ i \notin 1..j
        /\ 1..j \in SUBSET Nat /\ 1..i \in SUBSET Nat
    BY <2>3
  <2>5. <<1..j, 1..i>> \in StrictSubsetOrdering(Nat)
    BY <2>4 DEF StrictSubsetOrdering
  <2> QED BY <1>5, <2>2, <2>5
<1> QED BY <1>6

-----------------------------------------------------------------------------
(* Versions in order.                                                       *)

Same(v, w) == \A i \in Nat \ {0} : Number(v, i) = Number(w, i)

\* Where versions are compared does not matter: past the longer one both have 0.
LEMMA OlderAnywhere ==
    ASSUME NEW v \in Version, NEW w \in Version
    PROVE  Older(v, w) <=> \E i \in Nat \ {0} :
               /\ Number(v, i) < Number(w, i)
               /\ \A j \in 1..(i - 1) : Number(v, j) = Number(w, j)
<1> DEFINE n == IF Len(v) > Len(w) THEN Len(v) ELSE Len(w)
<1>1. Len(v) \in Nat /\ Len(w) \in Nat
  BY DEF Version
<1>2. 1..n \subseteq Nat \ {0}
  BY <1>1
<1>3. ASSUME NEW i \in Nat \ {0}, i \notin 1..n PROVE Number(v, i) = 0 /\ Number(w, i) = 0
  <2>1. i \notin 1..Len(v) /\ i \notin 1..Len(w)
    BY <1>1, <1>3
  <2> QED BY <2>1 DEF Number
<1>4. ASSUME NEW i \in Nat \ {0}, Number(v, i) < Number(w, i) PROVE i \in 1..n
  BY <1>3, <1>4
<1> QED BY <1>2, <1>4 DEF Older

LEMMA SameOrOlder ==
    ASSUME NEW v \in Version, NEW w \in Version PROVE Same(v, w) \/ Older(v, w) \/ Older(w, v)
<1> DEFINE differ == {i \in Nat \ {0} : Number(v, i) # Number(w, i)}
<1>1. CASE differ = {}
  BY <1>1 DEF Same
<1>2. CASE differ # {}
  <2>1. PICK i \in differ : \A j \in 1..(i - 1) : j \notin differ
    <3>1. differ \in SUBSET (Nat \ {0})
      OBVIOUS
    <3> HIDE DEF differ
    <3> QED BY <1>2, <3>1, LeastPosition
  <2>2. i \in Nat \ {0} /\ \A j \in 1..(i - 1) : Number(v, j) = Number(w, j)
    BY <2>1
  <2>3. Number(v, i) < Number(w, i) \/ Number(w, i) < Number(v, i)
    BY <2>1, NumberInt
  <2> QED BY <2>2, <2>3, OlderAnywhere
<1> QED BY <1>1, <1>2

LEMMA OlderTransitive ==
    ASSUME NEW u \in Version, NEW v \in Version, NEW w \in Version,
           Older(u, v) \/ Same(u, v), Older(v, w) \/ Same(v, w), Older(u, v) \/ Older(v, w)
    PROVE  Older(u, w)
<1>n. \A i : Number(u, i) \in Int /\ Number(v, i) \in Int /\ Number(w, i) \in Int
  BY NumberInt
<1>1. CASE Same(v, w)
  <2>1. PICK i \in Nat \ {0} : Number(u, i) < Number(v, i)
                               /\ \A j \in 1..(i - 1) : Number(u, j) = Number(v, j)
    BY <1>1, <1>n, OlderAnywhere DEF Same
  <2>2. Number(u, i) < Number(w, i) /\ \A j \in 1..(i - 1) : Number(u, j) = Number(w, j)
    BY <1>1, <2>1 DEF Same
  <2> QED BY <2>2, OlderAnywhere
<1>2. CASE Same(u, v)
  <2>1. PICK i \in Nat \ {0} : Number(v, i) < Number(w, i)
                               /\ \A j \in 1..(i - 1) : Number(v, j) = Number(w, j)
    BY <1>2, <1>n, OlderAnywhere DEF Same
  <2>2. Number(u, i) < Number(w, i) /\ \A j \in 1..(i - 1) : Number(u, j) = Number(w, j)
    BY <1>2, <2>1 DEF Same
  <2> QED BY <2>2, OlderAnywhere
<1>3. CASE Older(u, v) /\ Older(v, w)
  <2>1. PICK i \in Nat \ {0} : Number(u, i) < Number(v, i)
                               /\ \A j \in 1..(i - 1) : Number(u, j) = Number(v, j)
    BY <1>3, OlderAnywhere
  <2>2. PICK k \in Nat \ {0} : Number(v, k) < Number(w, k)
                               /\ \A j \in 1..(k - 1) : Number(v, j) = Number(w, j)
    BY <1>3, OlderAnywhere
  <2> DEFINE m == IF i < k THEN i ELSE k
  <2>3. m \in Nat \ {0} /\ \A j \in 1..(m - 1) : j \in 1..(i - 1) /\ j \in 1..(k - 1)
    OBVIOUS
  <2>4. \A j \in 1..(m - 1) : Number(u, j) = Number(w, j)
    BY <2>1, <2>2, <2>3
  <2>5. Number(u, m) < Number(w, m)
    <3>1. CASE i < k
      <4>1. i \in 1..(k - 1)
        BY <3>1
      <4> QED BY <3>1, <4>1, <2>1, <2>2
    <3>2. CASE k < i
      <4>1. k \in 1..(i - 1)
        BY <3>2
      <4> QED BY <3>2, <4>1, <2>1, <2>2
    <3>3. CASE i = k
      BY <3>3, <2>1, <2>2, <1>n
    <3> QED BY <3>1, <3>2, <3>3
  <2> QED BY <2>3, <2>4, <2>5, OlderAnywhere
<1> QED BY <1>1, <1>2, <1>3

LEMMA OlderIrreflexive ==
    ASSUME NEW v \in Version, NEW w \in Version, Older(v, w) PROVE ~Same(v, w) /\ ~Older(w, v)
<1>1. \A x \in Version : ~Older(x, x)
  BY NumberInt, OlderAnywhere
<1>2. ~Same(v, w)
  <2>1. PICK i \in Nat \ {0} : Number(v, i) < Number(w, i)
    BY OlderAnywhere
  <2> QED BY <2>1, NumberInt DEF Same
<1>3. ~Older(w, v)
  BY <1>1, OlderTransitive
<1> QED BY <1>2, <1>3

LEMMA Compared ==
    ASSUME NEW v \in Version, NEW w \in Version
    PROVE  /\ compareSemVer(v, w) = -1 <=> Older(v, w)
           /\ compareSemVer(v, w) = 1 <=> Older(w, v)
           /\ compareSemVer(v, w) = 0 <=> Same(v, w)
           /\ compareSemVer(v, w) < 0 <=> Older(v, w)
<1>1. Same(v, w) <=> Same(w, v)
  BY DEF Same
<1> QED BY <1>1, SameOrOlder, OlderIrreflexive DEF compareSemVer

\* compareSemVer orders the versions of any tags (github.go:713-747): it answers -1, 0
\* or 1, the opposite when its arguments change places, equal versions compare alike with
\* every other, and it is transitive, ties included.  The sort of a cleanup (:508) and the
\* comparisons with the mark (:250) and with the newest tag (:288) rest on that.
THEOREM VersionsOrdered ==
    ASSUME NEW u \in Version, NEW v \in Version, NEW w \in Version
    PROVE  /\ compareSemVer(u, v) \in {-1, 0, 1}
           /\ compareSemVer(u, v) = -compareSemVer(v, u)
           /\ compareSemVer(u, v) = 0 => compareSemVer(u, w) = compareSemVer(v, w)
           /\ compareSemVer(u, v) <= 0 /\ compareSemVer(v, w) <= 0 => compareSemVer(u, w) <= 0
<1>1. \A x, y \in Version : compareSemVer(x, y) \in {-1, 0, 1}
  BY DEF compareSemVer
<1>2. \A x, y \in Version : compareSemVer(x, y) = -compareSemVer(y, x)
  <2> TAKE x, y \in Version
  <2> QED BY OlderIrreflexive DEF compareSemVer
<1>3. ASSUME NEW x \in Version, NEW y \in Version
      PROVE  compareSemVer(x, y) <= 0 <=> Older(x, y) \/ Same(x, y)
  BY <1>1, Compared
<1>4. ASSUME NEW x \in Version, NEW y \in Version, NEW z \in Version,
             compareSemVer(x, y) <= 0, compareSemVer(y, z) <= 0
      PROVE  compareSemVer(x, z) <= 0
  <2>1. (Older(x, y) \/ Same(x, y)) /\ (Older(y, z) \/ Same(y, z))
    BY <1>3, <1>4
  <2>2. CASE Same(x, y) /\ Same(y, z)
    <3>1. Same(x, z)
      BY <2>2 DEF Same
    <3> QED BY <3>1, <1>3
  <2>3. CASE Older(x, y) \/ Older(y, z)
    BY <2>1, <2>3, OlderTransitive, <1>3
  <2> QED BY <2>1, <2>2, <2>3
<1>5. ASSUME compareSemVer(u, v) = 0 PROVE compareSemVer(u, w) = compareSemVer(v, w)
  <2>1. Same(u, v)
    BY <1>5, Compared
  <2>2. Older(u, w) <=> Older(v, w)
    BY <2>1, OlderAnywhere DEF Same
  <2>3. Older(w, u) <=> Older(w, v)
    BY <2>1, OlderAnywhere DEF Same
  <2> QED BY <2>2, <2>3 DEF compareSemVer
<1> QED BY <1>1, <1>2, <1>4, <1>5

\* A segment that is missing, or is no number, is a 0 (github.go:720, :729-735), so that
\* 1.0 and 1.0.0-rc1 compare equal to 1.0.0: the release that follows a mirrored
\* pre-release is skipped as not newer.
THEOREM SuffixIsNoDifference ==
    ASSUME NEW v \in Version
    PROVE  /\ \A segment \in {0, NoNumber} : compareSemVer(Append(v, segment), v) = 0
           /\ \A i \in 1..Len(v) :
                 compareSemVer([v EXCEPT ![i] = NoNumber], [v EXCEPT ![i] = 0]) = 0
<1>v. v \in Seq(Int \cup {NoNumber}) /\ v # <<>>
  BY DEF Version
<1>z. Atoi(0) = 0 /\ Atoi(NoNumber) = 0
  BY NumberAssumption DEF Atoi
<1>1. ASSUME NEW segment \in {0, NoNumber} PROVE compareSemVer(Append(v, segment), v) = 0
  <2> DEFINE w == Append(v, segment)
  <2>1. /\ w \in Version /\ Len(w) = Len(v) + 1 /\ w[Len(v) + 1] = segment
        /\ \A i \in 1..Len(v) : w[i] = v[i]
    BY <1>v DEF Version
  <2>2. ASSUME NEW i \in Nat \ {0} PROVE Number(w, i) = Number(v, i)
    <3>1. CASE i \in 1..Len(v)
      <4>1. i \in 1..Len(w)
        BY <1>v, <2>1, <3>1
      <4> QED BY <2>1, <3>1, <4>1 DEF Number
    <3>2. CASE i = Len(v) + 1
      <4>1. Number(w, i) = Atoi(segment)
        BY <1>v, <2>1, <3>2 DEF Number
      <4>2. Number(v, i) = 0
        BY <1>v, <3>2 DEF Number
      <4> QED BY <1>z, <4>1, <4>2
    <3>3. CASE i \notin 1..(Len(v) + 1)
      BY <1>v, <2>1, <3>3 DEF Number
    <3> QED BY <1>v, <3>1, <3>2, <3>3
  <2> QED BY <2>1, <2>2, Compared DEF Same
<1>2. ASSUME NEW i \in 1..Len(v)
      PROVE  compareSemVer([v EXCEPT ![i] = NoNumber], [v EXCEPT ![i] = 0]) = 0
  <2> DEFINE x == [v EXCEPT ![i] = NoNumber]
             y == [v EXCEPT ![i] = 0]
  <2>1. x \in Version /\ y \in Version /\ Len(x) = Len(v) /\ Len(y) = Len(v)
    BY <1>v DEF Version
  <2>2. \A j \in 1..Len(v) : Atoi(x[j]) = Atoi(y[j])
    BY <1>v, <1>z
  <2>3. Same(x, y)
    BY <2>1, <2>2 DEF Same, Number
  <2> QED BY <2>1, <2>3, Compared
<1> QED BY <1>1, <1>2

-----------------------------------------------------------------------------
(* Ranks.                                                                   *)

LEMMA RankOlder ==
    ASSUME NEW S, IsFiniteSet(S), NEW version \in [S -> Version], NEW t \in S
    PROVE  /\ Ranks(version)[t] = Cardinality({x \in S : Older(version[x], version[t])})
           /\ IsFiniteSet({x \in S : Older(version[x], version[t])})
<1>1. {x \in S : Older(version[x], version[t])}
          = {x \in S : compareSemVer(version[x], version[t]) < 0}
  BY Compared
<1>2. IsFiniteSet({x \in S : Older(version[x], version[t])})
  BY FS_Subset
<1> QED BY <1>1, <1>2 DEF Ranks

\* The ranks of finitely many tags stand for compareSemVer in whatever compares two of them,
\* and the empty tag is of rank 0 as long as no version has a negative segment: what
\* ReleaseSync assumes of Sem (RankAssumption) holds of every repository's tags.
THEOREM RanksStandForVersions ==
    ASSUME NEW S, IsFiniteSet(S), NEW version \in [S -> Version]
    PROVE  /\ Ranks(version) \in [S -> Nat]
           /\ \A t, u \in S :
                 /\ Ranks(version)[t] < Ranks(version)[u]
                        <=> compareSemVer(version[t], version[u]) < 0
                 /\ Ranks(version)[t] = Ranks(version)[u]
                        <=> compareSemVer(version[t], version[u]) = 0
           /\ \A t \in S :
                 /\ version[t] = <<NoNumber>>
                 /\ \A u \in S : \A i \in 1..Len(version[u]) : Atoi(version[u][i]) >= 0
                 => Ranks(version)[t] = 0
<1> DEFINE older(t) == {x \in S : Older(version[x], version[t])}
<1>1. \A t \in S : /\ Ranks(version)[t] = Cardinality(older(t))
                   /\ IsFiniteSet(older(t)) /\ Cardinality(older(t)) \in Nat
  BY RankOlder, FS_CardinalityType
<1>2. Ranks(version) \in [S -> Nat]
  <2>1. Ranks(version) = [t \in S |-> Ranks(version)[t]]
    BY DEF Ranks
  <2>2. \A t \in S : Ranks(version)[t] \in Nat
    BY <1>1
  <2> QED BY <2>1, <2>2
<1>3. ASSUME NEW t \in S, NEW u \in S, Older(version[t], version[u])
      PROVE  Ranks(version)[t] < Ranks(version)[u]
  <2>1. older(t) \subseteq older(u)
    BY <1>3, OlderTransitive
  <2>2. t \in older(u) /\ t \notin older(t)
    BY <1>3, OlderIrreflexive
  <2>3. older(t) \in SUBSET older(u) /\ older(t) # older(u)
    BY <2>1, <2>2
  <2>4. /\ Cardinality(older(t)) <= Cardinality(older(u))
        /\ Cardinality(older(t)) # Cardinality(older(u))
    <3> HIDE DEF older
    <3> QED BY <1>1, <2>3, FS_Subset
  <2> QED BY <1>1, <2>4
<1>4. ASSUME NEW t \in S, NEW u \in S, Same(version[t], version[u])
      PROVE  Ranks(version)[t] = Ranks(version)[u]
  <2>1. \A x \in S : Older(version[x], version[t]) <=> Older(version[x], version[u])
    BY <1>4, OlderAnywhere DEF Same
  <2> QED BY <1>1, <2>1
<1>5. ASSUME NEW t \in S, NEW u \in S
      PROVE  /\ Ranks(version)[t] < Ranks(version)[u]
                    <=> compareSemVer(version[t], version[u]) < 0
             /\ Ranks(version)[t] = Ranks(version)[u]
                    <=> compareSemVer(version[t], version[u]) = 0
  <2>1. Ranks(version)[t] \in Nat /\ Ranks(version)[u] \in Nat
    BY <1>2
  <2>2. \/ Same(version[t], version[u])
        \/ Older(version[t], version[u]) \/ Older(version[u], version[t])
    BY SameOrOlder
  <2>3. Older(version[t], version[u]) => Ranks(version)[t] < Ranks(version)[u]
    BY <1>3
  <2>4. Older(version[u], version[t]) => Ranks(version)[u] < Ranks(version)[t]
    BY <1>3
  <2>5. Same(version[t], version[u]) => Ranks(version)[t] = Ranks(version)[u]
    BY <1>4
  <2>6. /\ compareSemVer(version[t], version[u]) < 0 <=> Older(version[t], version[u])
        /\ compareSemVer(version[t], version[u]) = 0 <=> Same(version[t], version[u])
    BY Compared
  <2> QED BY <2>1, <2>2, <2>3, <2>4, <2>5, <2>6
<1>6. ASSUME NEW t \in S, version[t] = <<NoNumber>>,
             \A u \in S : \A i \in 1..Len(version[u]) : Atoi(version[u][i]) >= 0
      PROVE  Ranks(version)[t] = 0
  <2>1. ASSUME NEW x \in S, Older(version[x], version[t]) PROVE FALSE
    <3>1. PICK i \in Nat \ {0} : Number(version[x], i) < Number(version[t], i)
      BY <2>1, OlderAnywhere
    <3>2. Number(version[t], i) = 0
      BY <1>6 DEF Number, Atoi
    <3>3. Number(version[x], i) >= 0
      BY <1>6 DEF Number
    <3> QED BY <3>1, <3>2, <3>3, NumberInt
  <2>2. older(t) = {}
    BY <2>1
  <2> QED BY <1>1, <2>2, FS_EmptySet
<1> QED BY <1>2, <1>5, <1>6
=============================================================================
