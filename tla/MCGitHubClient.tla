--------------------------- MODULE MCGitHubClient ---------------------------
(* Constants for model-checking GitHubClient.                              *)
EXTENDS GitHubClient, TLC

CONSTANTS a, b
\* One repository is longer than MaxPages, the other ends by itself.
ThreeAndOne == a :> 3 @@ b :> 1
=============================================================================
