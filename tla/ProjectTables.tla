---------------------------- MODULE ProjectTables ---------------------------
(***************************************************************************)
(* What the handlers that choose a strategy and the handlers that build a  *)
(* project share: the mission row and the project_targets table.           *)
(*                                                                         *)
(* A handler works on a copy of the mission row.  save_mission writes the  *)
(* whole copy back, so what another handler wrote in between is lost.      *)
(***************************************************************************)
EXTENDS MissionStates

CONSTANTS
    Workers,        \* processes that run a command of the CLI
    Overlap,        \* TRUE: commands run at the same time
    Candidates,     \* bound: the strategies a model proposes, 1..Candidates
    MaxTargets,     \* bound: project targets of the mission
    MaxCommands     \* bound: targets attached, changes of direction and
                    \* builds that are started

ASSUME TablesAssumption ==
    /\ Overlap \in BOOLEAN
    /\ Candidates \in Nat \ {0}
    /\ MaxTargets \in Nat /\ MaxCommands \in Nat

VARIABLES
    mission,        \* the row of missions
    targets,        \* project_targets, in the order of their rowid
    spec,           \* whether the mission has a competition specification
    pc,             \* where each worker stands
    row,            \* its copy of the mission row
    commands,       \* commands started so far
    crashes         \* workers that died so far

tables == <<mission, targets, spec>>
bounds == <<commands, crashes>>

\* NONE: the mission is not created yet.  active: the strategy of the
\* decision that active_strategy_id names; target: project_target_id; both 0
\* for None.  ideas: the mission came from the fixture pipeline, which is the
\* only one that stores ideas.
MissionRow == [state : MissionState \cup {"NONE"}, active : 0..Candidates,
               target : Nat, ideas : BOOLEAN]
NoMission == [state |-> "NONE", active |-> 0, target |-> 0, ideas |-> FALSE]

\* strategy: the candidate it was planned for, 0 when a user attached it;
\* final: final_commit_sha, 0 for None.
TargetRow == [strategy : 0..Candidates, superseded : BOOLEAN, final : Nat]
NewTarget(s) == [strategy |-> s, superseded |-> FALSE, final |-> 0]

\* get_project_target_for_mission: the last one that is not superseded, 0 for
\* a KeyError.
ActiveTarget ==
    LET open == {t \in DOMAIN targets : ~targets[t].superseded}
    IN IF open = {} THEN 0 ELSE CHOOSE t \in open : \A u \in open : u <= t

Goto(w, label) == pc' = [pc EXCEPT ![w] = label]

MayStart(w) ==
    pc[w] = "idle" /\ (Overlap \/ \A v \in Workers : pc[v] = "idle")

Command(w) ==
    MayStart(w) /\ commands < MaxCommands /\ commands' = commands + 1

\* transition_mission on the worker's copy: the row it saves.
Moved(w, state) == [row[w] EXCEPT !.state = state]

\* The worker returns or raises: its copy of the mission is gone.
Forget(w) == Goto(w, "idle") /\ row' = [row EXCEPT ![w] = NoMission]

TablesTypeOK ==
    /\ mission \in MissionRow
    /\ targets \in Seq(TargetRow)
    /\ spec \in BOOLEAN
    /\ row \in [Workers -> MissionRow]
    /\ commands \in Nat /\ crashes \in Nat
=============================================================================
