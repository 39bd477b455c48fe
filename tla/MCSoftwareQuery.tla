-------------------------- MODULE MCSoftwareQuery --------------------------
(* Constants for model-checking SoftwareQuery.                             *)
EXTENDS SoftwareQuery, TLC

\* Lists of two software with a release each; details of one with two releases.
ListsAndDetails ==
    {[ops |-> {"list", "stats"}, releases |-> "editor" :> 1 @@ "shell" :> 1],
     [ops |-> {"detail", "version", "url"}, releases |-> "editor" :> 2 @@ "shell" :> 0]}
=============================================================================
