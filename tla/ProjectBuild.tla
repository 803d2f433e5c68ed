---------------------------- MODULE ProjectBuild ----------------------------
(***************************************************************************)
(* Building a project target and preparing its submission: RealBuildLoop   *)
(* of build_loop.py with the git workspace and the review it uses, and     *)
(* build_project_for_mission and prepare_project_submission of pipeline.py.*)
(*                                                                         *)
(* Every target has its own checkout, whose commits are numbered: HEAD is  *)
(* the newest, 0 before the first.  Whether a command passes, what an      *)
(* implementer leaves behind and whether a review finds a secret are free. *)
(***************************************************************************)
EXTENDS ProjectTables

CONSTANTS
    Declared,     \* the phases the target declares commands for, in order
    MaxRepairs,   \* max_repairs
    MaxCommits    \* bound: commits of a checkout

ASSUME BuildAssumption ==
    /\ Declared \in Seq({"install", "lint", "build", "test", "run"})
    /\ MaxRepairs \in Nat /\ MaxCommits \in Nat

VARIABLES
    head,         \* the checkouts: the commit each one stands at
    dirty,        \* checkouts with uncommitted files
    changes,      \* change_sets, in the order of their rowid
    runs,         \* build_runs: what was run at which commit, and whether
                  \* it passed
    build         \* what each worker holds while it builds or submits

checkout == <<head, dirty>>
buildTables == <<changes, runs>>
buildVars == <<checkout, buildTables, build>>

Statuses == {"committed", "validated", "repaired", "failed_validation",
             "review_failed"}
ChangeSet == [target : Nat, commit : Nat, files : BOOLEAN, status : Statuses]

DeclaredPhases == {Declared[i] : i \in DOMAIN Declared}

\* clean: the run was a reproduction in a fresh clone (phase reproduce_...).
Run == [target : Nat, commit : Nat, phase : DeclaredPhases,
        clean : BOOLEAN, passed : BOOLEAN]

\* id, target: the target it works on and its copy; cs: its change set;
\* commit, files: commit_sha and whether it has changed files; attempt; next:
\* the command to run; clean: it runs in the clone; failed: commands failed;
\* blocked: the review blocked.
Build == [id : Nat, target : TargetRow, cs : Nat, commit : Nat,
          files : BOOLEAN, attempt : Nat, next : Nat, clean : BOOLEAN,
          failed : BOOLEAN, blocked : BOOLEAN]
NoBuild == [id |-> 0, target |-> NewTarget(0), cs |-> 0, commit |-> 0,
            files |-> FALSE, attempt |-> 0, next |-> 1, clean |-> FALSE,
            failed |-> FALSE, blocked |-> FALSE]

BuildLabels == {"open", "workspace", "adopt", "implement", "commit", "record",
                "command", "validate", "review", "finalize", "recheck",
                "reject", "refresh", "finish", "failure", "repair",
                "recommit", "rerecord", "refuse", "optimize", "prepare",
                "pack", "gate"}

BuildTypeOK ==
    /\ head \in [1..MaxTargets -> Nat]
    /\ dirty \subseteq 1..MaxTargets
    /\ changes \in Seq(ChangeSet)
    /\ runs \subseteq Run
    /\ build \in [Workers -> Build]

BuildInit ==
    /\ head = [t \in 1..MaxTargets |-> 0] /\ dirty = {}
    /\ changes = <<>> /\ runs = {}
    /\ build = [w \in Workers |-> NoBuild]

(***************************************************************************)
(* Helpers                                                                 *)
(***************************************************************************)
Quit(w) == Forget(w) /\ build' = [build EXCEPT ![w] = NoBuild]

\* save_project_target: the whole row, from the copy.
SaveTarget(w) == targets' = [targets EXCEPT ![build[w].id] = build[w].target]

SaveStatus(w, status) ==
    changes' = [changes EXCEPT ![build[w].cs].status = status]

\* GitWorkspace.checkpoint commits whatever lies in the checkout.
Checkpoint(t) ==
    IF t \in dirty
      THEN head' = [head EXCEPT ![t] = @ + 1] /\ dirty' = dirty \ {t}
      ELSE UNCHANGED checkout

\* A process that ran in the checkout of t may leave files behind.
MayLeaveFiles(t) ==
    \/ dirty' = dirty
    \/ head[t] < MaxCommits /\ dirty' = dirty \cup {t}

\* phase_reproduced: it passed in the checkout and in a clean clone.
Reproduced(cs, phase) ==
    \A clean \in BOOLEAN :
        [target |-> cs.target, commit |-> cs.commit, phase |-> phase,
         clean |-> clean, passed |-> TRUE] \in runs

\* review_project_change: the runs at the commit, or all when there are none.
TestRuns(cs) ==
    LET mine == {r \in runs : r.target = cs.target /\ r.commit = cs.commit}
        evidence == IF mine = {} THEN runs ELSE mine
    IN {r \in evidence : r.phase = "test"}

\* Its blockers, save a secret in a changed file.
ReviewBlocks(t, cs) ==
    \/ cs.target # t
    \/ TestRuns(cs) = {} \/ \E r \in TestRuns(cs) : ~r.passed
    \/ cs.status # "validated"

\* It reads the changed files as they lie in the checkout at the time.
SecretFound(cs) == IF cs.files THEN BOOLEAN ELSE {FALSE}

(***************************************************************************)
(* build_project_for_mission and RealBuildLoop.run                         *)
(***************************************************************************)

\* The mission and its active target are read; other states raise.
BuildProject(w) ==
    /\ Command(w)
    /\ mission.state \in {"PLANNING", "BUILDING"} /\ ActiveTarget # 0
    /\ row' = [row EXCEPT ![w] = mission]
    /\ build' = [build EXCEPT ![w].id = ActiveTarget,
                             ![w].target = targets[ActiveTarget]]
    /\ Goto(w, IF mission.state = "PLANNING" THEN "open" ELSE "workspace")
    /\ UNCHANGED <<tables, crashes, checkout, changes, runs>>

OpenBuilding(w) ==
    /\ pc[w] = "open"
    /\ mission' = Moved(w, "BUILDING")
    /\ row' = [row EXCEPT ![w] = mission']
    /\ Goto(w, "workspace")
    /\ UNCHANGED <<targets, spec, bounds, buildVars>>

\* A dirty checkout is refused; an empty one gets its first commit.
Workspace(w) ==
    /\ pc[w] = "workspace"
    /\ LET t == build[w].id
       IN IF t \in dirty
            THEN Quit(w) /\ UNCHANGED checkout
            ELSE /\ head' = [head EXCEPT ![t] = IF @ = 0 THEN 1 ELSE @]
                 /\ Goto(w, "adopt")
                 /\ UNCHANGED <<dirty, row, build>>
    /\ UNCHANGED <<tables, bounds, buildTables>>

\* base_commit_sha and the branch are saved with the whole target.
AdoptTarget(w) ==
    /\ pc[w] = "adopt"
    /\ SaveTarget(w)
    /\ Goto(w, "implement")
    /\ UNCHANGED <<mission, spec, row, bounds, buildVars>>

\* The implementer changes files, or none, or raises halfway.
RunImplementer(w, label, next) ==
    /\ pc[w] = label
    /\ MayLeaveFiles(build[w].id)
    /\ \/ Goto(w, next) /\ UNCHANGED <<row, build>>
       \/ Quit(w)
    /\ UNCHANGED <<tables, bounds, head, buildTables>>

Implement(w) == RunImplementer(w, "implement", "commit")
Repair(w) == RunImplementer(w, "repair", "recommit")

\* checkpoint, for the change and for each repair.  A repair adds the files
\* of the commit at HEAD, made or found; the first commit of all lists none.
CommitChange(w, label, next) ==
    /\ pc[w] = label
    /\ Checkpoint(build[w].id)
    /\ build' = [build EXCEPT
                    ![w].commit = head'[build[w].id],
                    ![w].files = IF label = "commit" THEN build[w].id \in dirty
                                 ELSE @ \/ head'[build[w].id] > 1]
    /\ Goto(w, next)
    /\ UNCHANGED <<tables, row, bounds, buildTables>>

Commit(w) == CommitChange(w, "commit", "record")
Recommit(w) == CommitChange(w, "recommit", "rerecord")

StartCommands(w, cs) ==
    /\ build' = [build EXCEPT ![w].cs = cs, ![w].next = 1, ![w].clean = FALSE,
                             ![w].failed = FALSE, ![w].blocked = FALSE]
    /\ Goto(w, "command")

\* The change set is saved as committed.
Record(w) ==
    /\ pc[w] = "record"
    /\ changes' = Append(changes,
                         [target |-> build[w].id, commit |-> build[w].commit,
                          files |-> build[w].files, status |-> "committed"])
    /\ StartCommands(w, Len(changes'))
    /\ UNCHANGED <<tables, row, bounds, checkout, runs>>

\* The change set of a repair names the commit that HEAD now is.
Rerecord(w) ==
    /\ pc[w] = "rerecord"
    /\ changes' = [changes EXCEPT ![build[w].cs].commit = build[w].commit,
                                  ![build[w].cs].files = build[w].files,
                                  ![build[w].cs].status = "repaired"]
    /\ StartCommands(w, build[w].cs)
    /\ UNCHANGED <<tables, row, bounds, checkout, runs>>

\* One command of _run_commands or, clean, of _reproduce: the run is saved at
\* HEAD, or at the change set's commit.  A failed install ends the round,
\* and so does any failure in the clone.  Nothing reads a failed run other
\* than a test's.  The tests may write files nobody ignores.
RunCommand(w) ==
    /\ pc[w] = "command" /\ build[w].next <= Len(Declared)
    /\ \E passed \in BOOLEAN :
           LET b == build[w]
               phase == Declared[b.next]
               at == IF b.clean THEN b.commit ELSE head[b.id]
               stops == ~passed /\ (b.clean \/ phase = "install")
           IN /\ runs' = IF passed \/ phase = "test"
                           THEN runs \cup {[target |-> b.id, commit |-> at,
                                            phase |-> phase,
                                            clean |-> b.clean,
                                            passed |-> passed]}
                           ELSE runs
              /\ build' = [build EXCEPT ![w].next = @ + 1,
                                        ![w].failed = @ \/ ~passed]
              /\ Goto(w, IF stops THEN "failure" ELSE "command")
              /\ IF phase = "test" /\ ~b.clean
                   THEN MayLeaveFiles(b.id) ELSE UNCHANGED dirty
    /\ UNCHANGED <<tables, row, bounds, head, changes>>

\* Mutant: what passed in the checkout is not tried in a clean clone.
EndOfCommandsUncloned(w) ==
    /\ pc[w] = "command" /\ build[w].next > Len(Declared)
    /\ Goto(w, IF build[w].failed THEN "failure" ELSE "validate")
    /\ UNCHANGED <<tables, row, bounds, buildVars>>

\* The round in the checkout is over: reproduce it, or count the failures.
\* git clone itself may fail, which nothing catches.
EndOfCommands(w) ==
    /\ pc[w] = "command" /\ build[w].next > Len(Declared)
    /\ IF build[w].failed
         THEN Goto(w, "failure") /\ UNCHANGED <<row, build>>
         ELSE IF build[w].clean
         THEN Goto(w, "validate") /\ UNCHANGED <<row, build>>
         ELSE \/ /\ build' = [build EXCEPT ![w].next = 1, ![w].clean = TRUE]
                 /\ Goto(w, "command") /\ UNCHANGED row
              \/ Quit(w)
    /\ UNCHANGED <<tables, bounds, checkout, buildTables>>

\* Saved as validated so that the review can look at it.
Validate(w) ==
    /\ pc[w] = "validate"
    /\ SaveStatus(w, "validated")
    /\ Goto(w, "review")
    /\ UNCHANGED <<tables, row, bounds, checkout, runs, build>>

Review(w) ==
    /\ pc[w] = "review"
    /\ \E secret \in SecretFound(changes[build[w].cs]) :
           LET blocked == secret
                          \/ ReviewBlocks(build[w].id, changes[build[w].cs])
           IN /\ build' = [build EXCEPT ![w].blocked = blocked]
              /\ Goto(w, IF blocked THEN "failure" ELSE "finalize")
    /\ UNCHANGED <<tables, row, bounds, checkout, buildTables>>

\* final_commit_sha is saved with the whole target.
Finalize(w) ==
    /\ pc[w] = "finalize"
    /\ build' = [build EXCEPT ![w].target.final = build[w].commit]
    /\ targets' = [targets EXCEPT ![build[w].id] = build'[w].target]
    /\ Goto(w, "recheck")
    /\ UNCHANGED <<mission, spec, row, bounds, checkout, buildTables>>

\* Out of repairs: the change set is saved as failed and the build raises.
Failure(w) ==
    /\ pc[w] = "failure"
    /\ IF build[w].attempt < MaxRepairs
         THEN /\ build' = [build EXCEPT ![w].attempt = @ + 1]
              /\ Goto(w, "repair")
              /\ UNCHANGED <<row, changes>>
         ELSE /\ SaveStatus(w, IF build[w].blocked THEN "review_failed"
                                                 ELSE "failed_validation")
              /\ Quit(w)
    /\ UNCHANGED <<tables, bounds, checkout, runs>>

\* build_project_for_mission reviews once more.
Recheck(w) ==
    /\ pc[w] = "recheck"
    /\ \E secret \in SecretFound(changes[build[w].cs]) :
           Goto(w, IF secret
                      \/ ReviewBlocks(build[w].id, changes[build[w].cs])
                   THEN "reject" ELSE "refresh")
    /\ UNCHANGED <<tables, row, bounds, buildVars>>

\* Mutant: the rejected build goes on.
RejectGoesOn(w) ==
    /\ pc[w] = "reject"
    /\ SaveStatus(w, "review_failed")
    /\ Goto(w, "refresh")
    /\ UNCHANGED <<tables, row, bounds, checkout, runs, build>>

Reject(w) ==
    /\ pc[w] = "reject"
    /\ SaveStatus(w, "review_failed")
    /\ Quit(w)
    /\ UNCHANGED <<tables, bounds, checkout, runs>>

\* The mission is read again, and moves on if it still is BUILDING.
Refresh(w) ==
    /\ pc[w] = "refresh"
    /\ IF mission.state = "BUILDING"
         THEN /\ row' = [row EXCEPT ![w] = mission]
              /\ Goto(w, "finish") /\ UNCHANGED build
         ELSE Quit(w)
    /\ UNCHANGED <<tables, bounds, checkout, buildTables>>

Finish(w) ==
    /\ pc[w] = "finish"
    /\ mission' = Moved(w, "VALIDATING")
    /\ Quit(w)
    /\ UNCHANGED <<targets, spec, bounds, checkout, buildTables>>

(***************************************************************************)
(* prepare_project_submission                                              *)
(***************************************************************************)
Validated == {c \in DOMAIN changes : changes[c].status = "validated"}
LastValidated == CHOOSE c \in Validated : \A d \in Validated : d <= c

\* Mutant: the change set is taken as the build left it, unreviewed.
PrepareUnreviewed(w) ==
    /\ MayStart(w) /\ mission.state = "VALIDATING" /\ ActiveTarget # 0
    /\ Validated # {} /\ spec /\ mission.ideas
    /\ row' = [row EXCEPT ![w] = mission]
    /\ build' = [build EXCEPT ![w].id = ActiveTarget, ![w].cs = LastValidated]
    /\ Goto(w, "optimize")
    /\ UNCHANGED <<tables, bounds, checkout, buildTables>>

\* Everything it decides from is read first.  No validated change set, a
\* review that blocks or a failed compliance blocks the mission; a missing
\* specification or idea raises.
PrepareSubmission(w) ==
    /\ MayStart(w) /\ mission.state = "VALIDATING" /\ ActiveTarget # 0
    /\ LET blocked == Validated = {}
                      \/ ReviewBlocks(ActiveTarget, changes[LastValidated])
           complete == spec /\ mission.ideas
       IN \/ /\ blocked \/ complete \/ changes[LastValidated].files
             /\ build' = build
             /\ Goto(w, "refuse")
          \/ /\ ~blocked /\ complete
             /\ build' = [build EXCEPT
                   ![w].id = ActiveTarget, ![w].cs = LastValidated,
                   ![w].failed = \E p \in DeclaredPhases :
                         ~Reproduced(changes[LastValidated], p)]
             /\ Goto(w, "optimize")
    /\ row' = [row EXCEPT ![w] = mission]
    /\ UNCHANGED <<tables, bounds, checkout, buildTables>>

\* transition_state of the copy read at the start.
Step(w, label, state, next) ==
    /\ pc[w] = label
    /\ mission' = Moved(w, state)
    /\ IF next = "quit"
         THEN Quit(w)
         ELSE /\ row' = [row EXCEPT ![w] = mission']
              /\ Goto(w, next) /\ UNCHANGED build
    /\ UNCHANGED <<targets, spec, bounds, checkout, buildTables>>

Refuse(w) == Step(w, "refuse", "BLOCKED", "quit")
Optimize(w) == Step(w, "optimize", "OPTIMIZING", "prepare")
Prepare(w) == Step(w, "prepare", "SUBMISSION_PREP", "pack")

\* The documents are written, or that raises and the mission stays.
Pack(w) ==
    /\ pc[w] = "pack"
    /\ \/ Goto(w, "gate") /\ UNCHANGED <<row, build>>
       \/ Quit(w)
    /\ UNCHANGED <<tables, bounds, checkout, buildTables>>

\* submission_gate: every declared phase and the demo reproduced, and what
\* compliance and the licence say.
Gate(w) ==
    /\ pc[w] = "gate"
    /\ \/ ~build[w].failed /\ "run" \in DeclaredPhases
          /\ mission' = Moved(w, "READY_FOR_SUBMISSION")
       \/ mission' = Moved(w, "BLOCKED")
    /\ Quit(w)
    /\ UNCHANGED <<targets, spec, bounds, checkout, buildTables>>

BuildNext ==
    \E w \in Workers :
        \/ BuildProject(w) \/ OpenBuilding(w) \/ Workspace(w)
        \/ AdoptTarget(w) \/ Implement(w) \/ Repair(w) \/ Commit(w)
        \/ Recommit(w) \/ Record(w) \/ Rerecord(w) \/ RunCommand(w)
        \/ EndOfCommands(w) \/ Validate(w) \/ Review(w) \/ Finalize(w)
        \/ Failure(w) \/ Recheck(w) \/ Reject(w) \/ Refresh(w)
        \/ Finish(w) \/ PrepareSubmission(w) \/ Refuse(w) \/ Optimize(w)
        \/ Prepare(w) \/ Pack(w) \/ Gate(w)
=============================================================================
