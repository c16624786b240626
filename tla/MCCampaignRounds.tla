-------------------------- MODULE MCCampaignRounds --------------------------
(* Values for TLC: two strategies, of which the second evolves. *)
EXTENDS CampaignReports

MCStrategyOrder == <<"roleplay", "multi_turn">>
MCMutable == {"multi_turn"}
MCDice == {TRUE, FALSE}
MCSeverities == {"HIGH", "NONE"}
MCVerifiedStatus == {"CONFIRMED_VULNERABILITY", "FALSE_POSITIVE"}
=============================================================================
