-------------------------- MODULE MCUpdateCampaign --------------------------
(* An instance of UpdateCampaign: a canary and two more probes.             *)
EXTENDS UpdateCampaign

MCProbes == {"p", "q", "r"}
=============================================================================
