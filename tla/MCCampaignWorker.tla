-------------------------- MODULE MCCampaignWorker --------------------------
(***************************************************************************)
(* Instances of CampaignWorker for TLC.  Campaigns, keys and workers are   *)
(* symmetric in the runs that check safety; the runs that check a leads-to *)
(* property use no symmetry.                                               *)
(***************************************************************************)
EXTENDS CampaignWorker, TLC

Symmetry == Permutations(Experiments) \cup Permutations(JobIds)
              \cup Permutations(Workers)
=============================================================================
