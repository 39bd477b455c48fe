-------------------------------- MODULE SemVer --------------------------------
(***************************************************************************)
(* compareSemVer of internal/syncer/github.go: the order of versions that  *)
(* the synchroniser skips, marks and purges by.                            *)
(*                                                                         *)
(* A tag is the sequence of its segments between the dots, without the     *)
(* leading "v": each is a number, or no number, as in "0-rc1".             *)
(***************************************************************************)
EXTENDS Integers, Sequences, FiniteSets

CONSTANTS
    NoNumber,       \* a segment strconv.Atoi does not read: empty, or with a suffix
    MaxInt          \* the largest int of Go (2^63 - 1)

ASSUME NumberAssumption == NoNumber \notin Int /\ MaxInt \in Nat

Version == Seq(Int \cup {NoNumber}) \ {<<>>}   \* strings.Split returns one part at least

\* The error is ignored: what is no number is 0, what does not fit is the int nearest.
Atoi(segment) ==
    IF segment = NoNumber THEN 0
    ELSE IF segment > MaxInt THEN MaxInt
    ELSE IF segment < -MaxInt - 1 THEN -MaxInt - 1
    ELSE segment

\* Missing segments count as 0.
Number(v, i) == IF i \in 1..Len(v) THEN Atoi(v[i]) ELSE 0

\* The loop returns at the first segment that differs.
Older(v, w) ==
    \E i \in 1..(IF Len(v) > Len(w) THEN Len(v) ELSE Len(w)) :
        /\ Number(v, i) < Number(w, i)
        /\ \A j \in 1..(i - 1) : Number(v, j) = Number(w, j)

compareSemVer(v, w) == IF Older(v, w) THEN -1 ELSE IF Older(w, v) THEN 1 ELSE 0

\* The ranks that compareSemVer gives a set of tags with these versions: how many are
\* older.  ReleaseSync takes them for Sem.
Ranks(version) ==
    [t \in DOMAIN version |->
        Cardinality({u \in DOMAIN version : compareSemVer(version[u], version[t]) < 0})]
=============================================================================
