---------------------------- MODULE MCDownloadUrl ----------------------------
(* Constants for model-checking DownloadUrl.                               *)
EXTENDS DownloadUrl

\* What S3 grants, and so much that a Duration overflows and the key dies early.
Inputs == {2, 9}
=============================================================================
