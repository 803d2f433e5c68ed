---------------------------- MODULE ProjectWork -----------------------------
(***************************************************************************)
(* The commands that choose a strategy and the commands that build and     *)
(* submit a project, on one mission: MissionStrategy and ProjectBuild over *)
(* the same mission row and the same project_targets.                      *)
(***************************************************************************)
EXTENDS MissionStrategy, ProjectBuild

CONSTANT MaxCrashes    \* bound: workers that die between two calls

ASSUME WorkAssumption == MaxCrashes \in Nat

vars == <<mission, targets, spec, pc, row, commands, crashes,
          strategyVars, buildVars>>

TypeOK ==
    /\ TablesTypeOK /\ StrategyTypeOK /\ BuildTypeOK
    /\ pc \in [Workers -> {"idle"} \cup StrategyLabels \cup BuildLabels]

\* run_vertical_slice leaves a mission in PLANNING that has a specification,
\* ideas and a decision, and no target yet.
SliceMission == [NoMission EXCEPT !.state = "PLANNING", !.ideas = TRUE]

Init ==
    /\ \/ mission = NoMission /\ spec = FALSE
       \/ mission = SliceMission /\ spec = TRUE
    /\ targets = <<>> /\ commands = 0 /\ crashes = 0
    /\ pc = [w \in Workers |-> "idle"]
    /\ row = [w \in Workers |-> NoMission]
    /\ StrategyInit /\ BuildInit

\* The process dies between two calls; what it held is forgotten.
Crash(w) ==
    /\ pc[w] # "idle" /\ crashes < MaxCrashes
    /\ crashes' = crashes + 1
    /\ Forget(w)
    /\ work' = [work EXCEPT ![w] = NoWork]
    /\ build' = [build EXCEPT ![w] = NoBuild]
    /\ UNCHANGED <<mission, targets, spec, commands, strategyTables,
                   checkout, buildTables>>

Next ==
    \/ StrategyNext /\ UNCHANGED buildVars
    \/ BuildNext /\ UNCHANGED strategyVars
    \/ \E w \in Workers : Crash(w)

Spec == Init /\ [][Next]_vars

(***************************************************************************)
(* Properties                                                              *)
(***************************************************************************)

\* A change of direction attaches the new target before it retires the old
\* one (redirect), so the newest target is never retired: whoever asks for
\* the mission's target gets the one planned last, even if the redirect died
\* in between or another target was attached meanwhile.
NewestTargetActive ==
    targets # <<>> => ~targets[Len(targets)].superseded

\* A target's final_commit_sha names a commit at which every declared phase
\* has passed in the checkout and again in a clean clone (RealBuildLoop.run),
\* whatever failed, was repaired or died on the way.
FinalCommitReproduced ==
    \A t \in DOMAIN targets :
        targets[t].final # 0 =>
            \A p \in DeclaredPhases :
                Reproduced([target |-> t, commit |-> targets[t].final], p)

\* A mission is VALIDATING or beyond only with a change set that the reviews
\* of the build loop and of build_project_for_mission have left validated and
\* that its target names as final.
ValidatingMeansValidated ==
    mission.state \in {"VALIDATING", "OPTIMIZING", "SUBMISSION_PREP",
                       "READY_FOR_SUBMISSION"} =>
        \E c \in Validated :
            targets[changes[c].target].final = changes[c].commit

\* prepare_project_submission declares a mission ready only for the target
\* that is active then, with a validated commit of that very target at which
\* every declared phase is reproduced.
SubmissionReproduced ==
    [][mission.state # "READY_FOR_SUBMISSION"
       /\ mission'.state = "READY_FOR_SUBMISSION" =>
          \E c \in Validated :
              /\ changes[c].target = ActiveTarget
              /\ \A p \in DeclaredPhases : Reproduced(changes[c], p)]_vars

\* "Review evidence for the final change set must be scoped to its commit,
\* otherwise an earlier failing attempt would keep a later validated commit
\* blocked" (review_project_change): a change set that has just passed every
\* declared command in the checkout and in a clean clone is not blocked by
\* its test evidence.
PassedRoundIsAccepted ==
    \A w \in Workers :
        pc[w] = "review" => ~ReviewBlocks(build[w].id, changes[build[w].cs])

\* "Plan a project for one strategy and make it the mission's active target"
\* (_plan_and_attach_project_target): a mission that names a project target
\* does not go back to naming none.
TargetStaysNamed ==
    [][mission.target # 0 => mission'.target # 0]_vars

\* "Nothing reads or writes to it once superseded, and it is never returned
\* by get_project_target_for_mission" (ProjectTarget): a superseded target
\* stays superseded.
SupersededStays ==
    [][\A t \in DOMAIN targets :
           targets[t].superseded => targets'[t].superseded]_vars

\* "the strategy and the repository never drifted apart" (README): when no
\* command runs and the mission is not blocked, the active target is the one
\* planned for the strategy chosen last.
ProjectFollowsStrategy ==
    (\A w \in Workers : pc[w] = "idle") /\ mission.state = "BUILDING"
        /\ chosen # <<>> /\ ActiveTarget # 0 =>
            targets[ActiveTarget].strategy \in {0, Current}
=============================================================================
