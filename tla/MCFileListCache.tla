--------------------------- MODULE MCFileListCache ---------------------------
\* One more object makes the listing one shard longer.
EXTENDS FileListCache, TLC

CONSTANTS a, i1

SoleHome == a :> i1
Growing  == [v \in Version |-> v + 1]
=============================================================================
