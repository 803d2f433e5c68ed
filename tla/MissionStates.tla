---------------------------- MODULE MissionStates ---------------------------
(***************************************************************************)
(* The mission's states and the transitions that transition_mission allows *)
(* (state_machine.py), for the modules that work on the mission row.       *)
(***************************************************************************)
EXTENDS Naturals, Sequences

Canonical == <<"CREATED", "INTAKE", "DISCOVERY", "RULES_LOCK",
               "LANDSCAPE_ANALYSIS", "IDEATION", "STRATEGY_SELECTION",
               "PLANNING", "BUILDING", "VALIDATING", "OPTIMIZING",
               "SUBMISSION_PREP", "READY_FOR_SUBMISSION", "SUBMITTED",
               "POSTMORTEM">>

CanonicalStates == {Canonical[i] : i \in DOMAIN Canonical}
SideStates == {"PAUSED", "BLOCKED", "FAILED", "CANCELLED"}
MissionState == CanonicalStates \cup SideStates

CanTransition(current, next) ==
    \/ current = next
    \/ next \in SideStates /\ current \notin {"CANCELLED", "POSTMORTEM"}
    \/ current \in {"PAUSED", "BLOCKED", "FAILED"} /\ next \in CanonicalStates
    \/ \E i \in 1..(Len(Canonical) - 1) :
           Canonical[i] = current /\ Canonical[i + 1] = next
=============================================================================
