--------------------------- MODULE MCReleaseSync ---------------------------
(* Constants for model-checking ReleaseSync.                               *)
EXTENDS ReleaseSync, SemVer, TLC

\* Releases in version order, the last a pre-release that ties with the release it is of.
\* As strings "1.9.0" is above the two others; "1.8.0" is not.
TwoTags   == {"1.9.0", "1.10.0"}
ThreeTags == TwoTags \cup {"1.10.0-rc1"}
EvenTags  == {"1.8.0", "1.9.0"}

VersionOf  == "" :> <<NoNumber>> @@ "1.8.0" :> <<1, 8, 0>> @@ "1.9.0" :> <<1, 9, 0>>
              @@ "1.10.0" :> <<1, 10, 0>> @@ "1.10.0-rc1" :> <<1, 10, NoNumber>>
StringRank == "" :> 0 @@ "1.10.0" :> 1 @@ "1.10.0-rc1" :> 2 @@ "1.8.0" :> 3 @@ "1.9.0" :> 4

SemTwo   == Ranks([t \in TwoTags \cup {""} |-> VersionOf[t]])
LexTwo   == [t \in TwoTags \cup {""} |-> StringRank[t]]
SemThree == Ranks([t \in ThreeTags \cup {""} |-> VersionOf[t]])
LexThree == [t \in ThreeTags \cup {""} |-> StringRank[t]]
SemEven  == Ranks([t \in EvenTags \cup {""} |-> VersionOf[t]])
LexEven  == [t \in EvenTags \cup {""} |-> StringRank[t]]

\* What github_test.go expects of compareSemVer (:87-150), and what follows from segments
\* that are missing, no numbers or too large.
ASSUME Comparisons ==
    /\ \A v \in {<<1, 0, 0>>, <<2, 1, 3>>, <<24, 0, 7, 0>>} : compareSemVer(v, v) = 0
    /\ \A p \in { << <<2, 0, 0>>, <<1, 0, 0>> >>, << <<1, 10, 0>>, <<1, 9, 0>> >>,
                  << <<1, 9, 10>>, <<1, 9, 9>> >>, << <<1, 0, 0, 1>>, <<1, 0, 0>> >>,
                  << <<100, 0, 0>>, <<99, 999, 999>> >>, << <<2024, 1, 0>>, <<2023, 12, 0>> >> } :
          compareSemVer(p[1], p[2]) = 1 /\ compareSemVer(p[2], p[1]) = -1
    /\ compareSemVer(<<1, 0>>, <<1, 0, 0>>) = 0
    /\ compareSemVer(<<1, 0, NoNumber>>, <<1, 0, 0>>) = 0
    /\ compareSemVer(<<MaxInt + 1>>, <<MaxInt + 2>>) = 0

Syncers == Permutations(Syncer)
=============================================================================
