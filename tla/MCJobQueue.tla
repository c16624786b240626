----------------------------- MODULE MCJobQueue -----------------------------
(***************************************************************************)
(* Instances of JobQueue for TLC.  Campaigns, keys and workers are model   *)
(* values that no definition tells apart, so they are symmetric; every run *)
(* of this module checks safety only.                                      *)
(***************************************************************************)
EXTENDS JobQueue, TLC

CONSTANT Requests   \* API requests, the callers that are not workers

Symmetry == Permutations(Experiments) \cup Permutations(JobIds)
              \cup Permutations(Workers)
=============================================================================
