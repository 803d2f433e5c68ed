-------------------------- MODULE MCMissionPhases --------------------------
(***************************************************************************)
(* MissionPhases for TLC: the rules may say two things.                    *)
(***************************************************************************)
EXTENDS MissionPhases

MCRules == {"rules_a", "rules_b"}
============================================================================
