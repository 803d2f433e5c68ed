# Joust in TLA+

A verification project for Joust (`hackathon_competitor`), an agent that takes part in
competitions on its own: it reads a competition's rules, chooses a strategy, builds a
project, observes both, asks a model what to do next, acts, measures, and asks its user
before anything leaves the machine. All of its state is in one SQLite database and in git
checkouts; its processes are short-lived commands started by cron, by the user, or by the
model, and any of them may die or meet another one. What makes the program hard is
therefore not in a single function but between two database calls, and that is what these
modules are about.

`PROJECT.json` lists components, runs, mutants, the map from definitions to source lines,
findings, hazards and theorems. This file explains them.

## 1. Inventory

| Component | State it keeps | Operations | What is hard |
|---|---|---|---|
| COMPETE loop (`compete_loop`, `competition_runner`) | `missions`, `competition_cycles` | create, observe, assess, strategize, execute, verify, measure, adapt, terminate | every stage is resumed after a crash from rows alone; whole rows are saved from copies |
| Action dispatcher (`competition_actions`) | `action_executions` | claim, invoke, finish, interrupt, reconcile | an action must not run twice; a dead owner must be told from a live one |
| Observer (`observation`) | `competition_observations`, `evidence` | collect, record, reconcile | four writes that are repeated until they agree |
| Monitor (`monitoring`) | `monitor_leases`, `monitor_backoff`, `observation_fingerprints` | run, heartbeat, record success or failure | a lease with a heartbeat thread, expiry, retry backoff |
| Lifecycle (`lifecycle`) | `missions`, `tasks` | pause, resume, cancel | runs beside a worker and writes the same rows |
| Task engine (`task_engine`, `orchestrator`, `pipeline._run_task`) | `tasks`, `task_dependencies` | add, refresh, claim, succeed, fail, recover, cancel | lists read once and saved row by row; recovery of dead workers |
| External actions (`approvals`, `agent_index`, `github_publish`, `verification_monitor`) | `approvals`, `proposed_external_actions`, `external_action_observations` | propose, decide, execute, poll, announce | effects cannot be taken back; a third party answers days later; a remote that cannot be read |
| AI mission (`ai_mission`, `ai`, `ai_strategy`) | `missions`, `strategy_candidates`, `ai_decisions`, `project_targets` | joust it, redirect, attach a project | a model that fails anywhere; a copy of the mission that others have written since |
| Build loop (`build_loop`, `workspace`, `project_review`, two handlers of `pipeline`) | `change_sets`, `build_runs`, `project_targets`, a checkout | build, repair, reproduce, review, prepare the submission | evidence must belong to the commit and the target it is used for, whatever failed, was repaired or died |
| Fixture pipeline and rule updates (`pipeline`, `rule_updates`, `artifact_graph`, `state_machine`) | `missions`, `specs`, `artifacts`, `artifact_dependencies`, `tasks` | run the slice, complete it, refresh the rules | the state must not run ahead of the saved work; staleness must reach everything |
| Competition intelligence (`competition_intelligence`, `competition_rules`) | `structured_signals`, `competition_rules`, `current_competition_states` | observe, extract, reconcile | late and contradicting signals; a rule and its successor in two transactions |
| Command approval (`command_approval`) | `proposed_commands` | propose, grant, deny, expire, execute | "no" must stick; expiry is resolved by whoever looks |
| Capabilities, planner, metrics, CLI, presentation | documents | compute, print | nothing concurrent |

How they interact: cron starts `mission compete-run`, which takes the monitor's lease, passes
the fingerprint gate and walks a cycle; the dispatcher of the cycle calls the build loop or
research; lifecycle commands write the mission row beside all of that; external actions are
proposed by one command, decided by a second, executed by a third and polled by a cron job.
`mission joust-it`, `redirect`, `attach-project`, `build-project` and
`prepare-project-submission` are commands of the user on one mission row
and its project targets. `refresh-rules` is a command, too; the two fixture pipelines it
meets are entered by tests and library callers, and the command approval service by the
safety skill. The database is the only thing they share: there is no message queue and no
in-memory state that outlives a command.

## 2. Modules

Conventions. A process is a worker with a `pc`; consecutive reads are one step, **every
write is a step of its own** (each `Database` call is one SQLite transaction), and `Crash`
may end a process between any two. A save writes the whole row from the copy the process
made earlier, as `save_mission`, `save_task` and the others do, so lost updates are possible
in the model wherever they are in the code. Texts, scores, prompts and URLs are left out; so
are events, except the two that code later reads or the user sees
(`COMPETITION_MEASUREMENT_RECORDED`, the monitor's announcement). A definition named in a
comment as *Mutant* is a deliberately wrong variant that shows a property can fail.

**CompeteCycle** - one mission's COMPETE loop. `mission`, `cycles`, `observations`,
`evidence`, `execs`, `measured` and `fingerprints` are tables; `world` and `expired` are what
an observation would show; `user` is a lifecycle command in progress. Actions follow the
code: `Start`..`Reserve` are `MonitoredCompetitionRunner._run_acquired`, `Capture`..`SaveObserved`
the observer, `RunStart`..`AdaptCycle` the runner with the stage handlers, `ReconcileExecution`..
`RecordExecution` the dispatcher, `UserRead`..`UserStop` the lifecycle service. `Overlap` lets a
worker start while another still runs (a lost lease); `ProcIdentity` says whether procfs can
tell a dead owner. A mission is LIVE, PAUSED or CANCELLED; the phases behind LIVE are not
told apart (POSTMORTEM, which cancel leaves alone, is not reached). `Terminals` are the
terminal verdicts the planner protocol allows; the shipped planner returns none.

**MonitorLease** - the gate itself: `Begin` (backoff), `Acquire`, `Observe`/`Iterate` (what
is behind the gate, as an outcome), `RecordSuccess`, `RecordFailure`, `SaveBackoff`, `Return`,
`Release`, and `Renew` for the heartbeat thread. Clocks are relative, so that the state space
is finite without a last tick: `left` is `expires_at - now`, `gap` the time since the
worker's last renewal, `age` the time since `captured_at`, `backoff.wait` the time to
`next_attempt_at`. `OnTime` bounds the heartbeat's lateness by `Patience < Duration`.

**TaskEngine** - the task table. `writes[p]` are the rows a loop (`refresh_ready`,
`recover_running`, `cancel_mission`) has computed from the list it read and still has to save.
`Dispatch`..`SaveClose` are `dispatch_task` and `pipeline._run_task`, `Command`..`CommandDone` the
operator's commands. `due` stands for `retry_after`.

**ExternalActions** - approvals and the actions behind them. `copy[w]` is the row `execute`
reads at its start and saves up to five times. A *handoff* can be completed only by a third
party; any other action is a *change*, whose effect is there or not when it is observed.
`effects` counts how often the executor reached the outside, `remote` is what an observer
would see, `matched` are the stored observations that match.

**MissionStates** - `state_machine.py`: the canonical order, the side states and
`CanTransition`. No state of its own; the next modules extend it.

**ProjectTables**, **MissionStrategy**, **ProjectBuild**, **ProjectWork** - one mission from its
address to its submission. ProjectTables holds what the two halves share: the mission row,
`project_targets` and each worker's copy of the mission (`row`). MissionStrategy is `joust_it`
and `redirect`: `Phase` names the transitions that are nothing but a transition, `ModelCalls`
the four questions to a model, each of which may be retried (`RetryModel`), refused
(`Refused`), raise (`ModelRaises`) or be answered. ProjectBuild is
`build_project_for_mission` with `RealBuildLoop.run`, then `prepare_project_submission`. A
checkout is the number of its newest commit and whether it has uncommitted files; `runs` says
which phase passed at which commit, in the checkout or in a clean clone. ProjectWork composes
the two over the same rows, with the command that attaches a project of the user's and with
crashes. It starts with no mission, or with the mission that `run_vertical_slice` leaves.

**MissionPhases** - the fixture pipelines and the refresh of the rules. The pipelines are
straight-line code, so each is a *script*: a sequence of transitions, tasks, saved artifacts
and links that one action per kind of write carries out (`MoveState`, `DoTask`,
`SaveArtifact`, `LinkArtifacts`, `WriteSpec`, `WriteDecision`, `PassGate`). The refresh is
written out (`FetchRules`..`BlockMission`). An artifact is its kind and the version of the
rules it was made from. Left out of the scripts: the premortem and the win review, and of
the submission pack all documents but one, as they are saved and linked alike.

**RuleBook** - `CompetitionIntelligence`. A signal is a rule or a metric with its value, its
authority and its time of observation; `queue` are the signals that `extract` still saves or
`reconcile` still turns into rules. Rules of different categories have nothing to do with
each other, so there is one category, and one metric, as which deadlines and leaderboard
rows are chosen too. `conflicts` is the list that a reconciliation builds up; an entry is the
rule it speaks of and whether its category is written before its statement.

**CommandApproval** - `CommandApprovalService`. Every operation begins with `Get`, which finds
a request PENDING and overdue (`Expire` then saves that) or goes on as `Proceeds` says.
**ApprovalGate** is the abstract specification: a request is asked once, settled at most
once, and its command runs only while it stands granted.

The `MC*` modules hold constants for TLC, the `*Proofs` modules the theorems.

How the modules relate: MonitorLease shows when workers exclude each other; CompeteCycle
takes exclusion (`Overlap = FALSE`) or its loss (`Overlap = TRUE`) as a parameter and shows what
holds in each case. TaskEngine and CompeteCycle share the lifecycle commands, each with the
rows it owns. MissionPhases ends where ProjectWork may start. CommandApproval implements
ApprovalGate with `standing <- status, ran <- runs`. ExternalActions and RuleBook are entered
by commands of their own and share nothing with the others that they read.

## 3. Runs

| Run | Instance | Shows |
|---|---|---|
| CycleExclusive | 2 workers in turn, 2 worlds, 3 cycles, crashes, all user commands | rows a later run can resume from; one evidence per observation; stages only advance |
| CycleOverlap | 2 overlapping workers, 2 cycles | at most one execution; verified means executed; completed means measured |
| CycleLive | 1 worker, 2 worlds, 2 cycles, fairness | an observed cycle is completed |
| LeaseOnTime | 2 workers, lease of 4 ticks, 2 crashes, fairness | mutual exclusion; the last observation is kept; the monitor never stops |
| LeaseLate | 2 workers, any lateness, a crash | only its holder touches an unexpired lease |
| TaskTurns | 3 tasks (one dependency), 1 retry, all commands, 2 crashes, fairness | retries, dependencies, finality, recovery |
| ActionTurns | a handoff and a change, 2 approvals, a crash, fairness | approved effects; observed verification; a result on record is not produced again; what is awaited is observed |
| ProjectTurns | 2 candidates, 2 targets, 3 commands, 1 repair, 2 commits, install/test/run, a crash | the newest target is active; final and submitted commits are reproduced; a mission past validation has a validated change set |
| ProjectTargetForgotten (violation) | the same | `joust_it` forgets the target it attached |
| RulesTurns | 3 versions of the rules, 2 crashes | the state is backed by artifacts; staleness reaches the linked ones; ready means made from current rules |
| CommandTurns | 2 workers in turn, 2 categories, 3 requests, 2 executions, a crash | the service implements ApprovalGate; a denial holds its category |
| BookTurns | 2 values, 2 times, 2 authorities, 2 sources, 3 signals, 3 states, a crash | a state has its rules; a rule goes out of force only for one at least as strong; the metric follows the most authoritative source; reconciling again names the same rules in force and in conflict |

Bounds. Two workers suffice for every race of the code, which is always between a reader
and one other writer; where a property is proved, the theorem has any number of them. Three
cycles are one in the past, one current and one to be opened. CycleOverlap has two cycles, so
that a worker may find the cycle it came for completed and go on with the next; crashes on top
of overlap are left to the theorem AtMostOneInvocation, since both together exceed what TLC
enumerates in minutes. Two worlds make a changed and
an unchanged observation. A lease of 4 with heartbeats every tick and patience 3 contains
the boundary case of a renewal in the last admissible tick; the delays 1 and 3 with jitter 1
include a delay that is floored. Three tasks contain a dependency and an unrelated task;
one retry makes both outcomes of a failure happen. Two approvals per key are what two
proposals produce; ActionTurns has one worker, and workers that overlap on one key are
covered by the theorems VerifiedIsObserved and EffectsAreApproved, which make no assumption
about them.
Two targets are the old and the new one of a change of direction; three commands are a build,
a redirect and a second build, or a second redirect; two commits and one repair are the
change and its repair, or two changes; the declared phases have one that ends a round when it
fails (install), one that gates the review (test) and one that the submission asks for (run).
Three versions of the rules let one refresh follow another, so that a snapshot is both a
child and a parent. Three requests are one denied, one that hides it and one that follows.
Three signals are two rules and a metric, or three rules that displace each other in every
order of authority and time; three states include two in a row without a new signal.
Symmetry of workers is used only in runs without liveness.

Deadlock is not checked where the system may rest: a terminal mission, a bounded number
of cycles, no task left, no action proposed, all commands and requests used up. The lease
runs and RulesTurns do check it.

Fairness. *CycleLive*: cron keeps starting runs and processes are scheduled (weak fairness of
a worker's steps); a source, planner or executor that is asked again and again answers at
last (strong fairness of those outcomes), which the code relies on since it retries for
ever. *LeaseOnTime*: scheduling of runs and heartbeat threads and the passing of time;
nothing about outcomes. *TaskTurns*: processes go on, and recovery, with which every pipeline
command opens, comes around again. *ActionTurns*: processes go on, the scheduled monitor
polls, the remote is readable now and then, the third party acts; nobody has to propose,
approve or execute. The other runs are about safety and assume no fairness: nothing in the
code makes a user go on with a project.

## 4. Where code and documents disagree

Checked by a run:

1. **A mission forgets its target** (`ai_mission.py:247`, run ProjectTargetForgotten).
   `attach_project_target` saves `project_target_id` on a copy of its own; `joust_it` then saves
   its older copy in state BUILDING, so the field is None again. Builds go by the target rows
   and are not affected; the status, the resume message and the command line read the field.

Stated in the modules and refuted by TLC in instances of the same size, each by adding its
name to the cfg of the run given in parentheses:

2. **A measurement can be lost** (`ResumableMeasurement`, CycleExclusive;
   `competition_runner.py:129-143`). The cycle is saved at ADAPT before the event that holds the
   measurement; after a crash in between every later run raises "cycle advanced without a
   durable measurement", though the runner "can be called again after a process restart".
3. **A cancel can be undone** (`CancelIsFinal`, CycleExclusive; `compete_loop.py:97-99`, `116-118`,
   `173-182`, `212-221`). The loop saves a mission row it read earlier; a cancel in between is
   overwritten, though it answers "I won't do any more work on this competition."
4. **A READY task cannot be dispatched** (`ReadyTaskRuns`, TaskTurns; `orchestrator.py:108-110`,
   `pipeline.py:69-71`). Only a task the same call promoted is accepted; `docs/SDD.md:1012-1014`
   has the worker run what is ready.
5. **A delivered handoff may never be polled** (`HandoffIsPolled`, ActionTurns;
   `approvals.py:177-187`, `agent_index.py:376`, `verification_monitor.py:67-70`). After an unreadable
   first observation the row says EXECUTED, and polls want AWAITING_EXTERNAL, though "the next
   poll resumes".
6. **A passed round can stay blocked** (`PassedRoundIsAccepted`, ProjectTurns;
   `project_review.py:61-68`). Evidence is scoped to the commit so that "an earlier failing
   attempt" does not block "a later validated commit"; when the repair changes nothing the
   commit is the same, and its failed test blocks every later round.
7. **Strategy and project can drift apart** (`ProjectFollowsStrategy`, ProjectTurns;
   `ai_mission.py:571`). The new strategy is saved before its project is planned; a crash, or an
   exception that is neither ModelUnavailable nor ValueError, leaves the mission BUILDING the
   old project. A second redirect to that strategy finds it current and moves nothing.
8. **A superseded target can come back** (`SupersededStays`, ProjectTurns with two overlapping
   workers; `build_loop.py:683`). A build saves the whole target row it read before the redirect,
   though "nothing reads or writes to it once superseded" (`models.py:311-314`).
9. **Some documents never become stale** (`AllDependentsStale`, RulesTurns;
   `pipeline.py:376-384`). The risk register, the premortem, the win review and the compliance
   report get no row in `artifact_dependencies`.
10. **Rules in force can contradict each other** (`ActiveRulesAgree`, BookTurns;
    `competition_intelligence.py:267-289`). Of several active rules that agree, a stronger new one
    supersedes the latest alone.
11. **Reconciling again writes other conflicts** (`ConflictsRepeated`, BookTurns;
    `competition_intelligence.py:264`, `299`). The class promises "deterministic reconciliation"
    (line 57). The reconciliation that records a conflicting rule lists it as "category:
    statement", the next one, which finds it CONFLICTED, as its bare statement. What does stay
    the same is which rules are listed (ReconcileIdempotent).
12. **An official rule may not come into force** (`AuthorityInForce`, BookTurns;
    `competition_intelligence.py:285-288`). "Official sources outrank community claims"
    (`docs/THREAT_MODEL.md:5`); an official rule that is extracted after a community rule with a
    later date is not more recent and becomes CONFLICTED, and the community rule stays.
13. **A denied category opens again** (`DenialHoldsMission`, CommandTurns;
    `command_approval.py:219-233`). `propose_unless_blocked` refuses "if this category was already
    denied (or is still pending) this mission" (line 242); it looks at the latest request of the
    category only, and a plain `propose` hides the denied one (DenialHoldsCategory).

Further limits of the code that the models contain and no property claims away: a backoff
read before the lease and counted from the start of the run; two processes claiming one task;
a cancel that dies before the task rows; a second delivery after a crash between the effect
and the saved result; a row left AWAITING_EXTERNAL after a crash behind its matching
observation; two decisions on one approval, or on one command request; "ALLOW ONCE"
(`command_approval.py:271`) grants any number of executions; a submission that dies in
OPTIMIZING or SUBMISSION_PREP is taken up by nothing, nor is a `complete_v0` that dies behind
PLANNING; a refresh that dies behind `save_spec` is not repeated, since the next one finds no
change; a change of direction in VALIDATING plans a target that no command builds; a mission
of `joust_it` has no ideas and therefore never passes `prepare_project_submission`.

## 5. Proofs

Every safety property of a passing run but one (see the end of this section) is a theorem: for
every value of the constants under the modules' `ASSUME`s, so for any number of workers, cycles,
tasks, targets, signals or versions of the rules. Where a theorem needs more than that, the
hypothesis is written in its statement, and it is one of these:

- `~Overlap`: operations come one at a time, as the lease, or a user at one terminal, has it.
  They may die anywhere and be started again.
- `OnTime`: heartbeats are late by less than the lease allows.
- `ProcIdentity`: procfs tells a live owner from a dead one.
- one deciding process (ExternalActions).

Most properties are not inductive, since a process carries a copy of a row across several writes
and nothing in the property speaks of the copy. The invariants therefore have the same form in
all modules: what holds of the tables, and what holds of a worker's copy at each of its labels.
Where `~Overlap` is needed, the invariant says besides that at most one worker is not idle and
that its copy is the row, or the row as the next write will have it. Each module first shows
types and references for all interleavings, then the rest on top.

- `CompeteCycleProofs`. *Whatever overlaps*: **TypeCorrect**; **AtMostOneInvocation**
  (ExecutedAtMostOnce), whose invariant says that a worker between its claim and its invocation
  is the only one for its cycle, that this cycle has not run yet, and that rows never go back to
  NONE; **CompletionIsMeasured** (CompletedMeansMeasured): `Entitled` says that no copy which a
  worker may still save claims more than the tables hold, so that a lost update can only take
  things back. **VerificationIsEarned** (VerifiedMeansExecuted) needs `ProcIdentity` alone; without
  it TLC shows an execution closed by the two-hour rule behind a verified cycle. *In turn*
  (`Turns`): **RestartFindsEvidence** (ResumableEvidence), **EvidenceClaimedOnce**
  (OneEvidencePerObservation), **CyclesInOrder** (OnlyLastCycleOpen) and the action property
  **StagesAdvance** (StagesOnlyAdvance). The core of `Turns` is that a worker's copy is the row or
  differs from it as `NextRow` allows, so that whoever restarts after it reads one of the two.
- `MonitorLeaseProofs`. **LeaseTyped**; **TokenProtects** (TokenProtectsLease), however late
  heartbeats are: a holder's time since its renewal and the row's time left make up the
  duration, so that a row is given away, renewed or deleted only by its holder or once it has
  expired. With `OnTime`, **MonitorRunsAlone** (RunsAlone) and **ObservationsKept**
  (LastObservationKept): as that time stays below `Patience`, the row has not expired for any
  clock that is at most `MaxAge` behind, and the observation a worker carries is at least the
  one on record.
- `TaskEngineProofs`. *Whatever overlaps*: **TaskTypesCorrect** and **NoDanglingDependency**
  (DependenciesPersisted). *In turn*: **RetryLimitHolds** (RunsWithinRetries), **DependenciesFirst**
  (RunsAfterDependencies) and **EndsStay** (EndedIsFinal). `Ledger` ties the number of starts of a
  task to its status and its retries; `Change` lists the rewritings of a row that a list read
  earlier may still bring.
- `ExternalActionsProofs`. **ActionsTyped**; **VerifiedIsObserved** (VerifiedMeansObserved), with
  overlap, whose invariant follows VERIFIED through every copy; with one deciding process,
  **EffectsAreApproved** (EffectsApproved): an approval that is decided stays so, an action keeps
  the approval it was saved with. With executions in turn besides, **ResultIsNotRepeated**
  (ResultNotRepeated): no row with a result leads to the executor. Here the deciding process
  matters because an approval that could go from granted to denied and back would make a row with
  a result DENIED and then produce it again.
- `ProjectWorkProofs`. *Whatever overlaps*: **ProjectTypesCorrect** and **NewestStaysActive**
  (NewestTargetActive): what a redirect retires is older than what it attached, wherever it stands
  and whoever attaches meanwhile. *In turn*: **FinalCommitIsReproduced** (FinalCommitReproduced),
  **ValidatingIsBacked** (ValidatingMeansValidated) and the action property **ReadyIsReproduced**
  (SubmissionReproduced). `Fits` says for every label which phases passed at which commit, in the
  checkout and in the clone, over any number of repairs.
- `MissionPhasesProofs`. **PhasesTypesCorrect**; **StateIsBacked** (StateBacked), with any number of
  crashes; and, as their statements ask, as long as no command died, **ReadyMadeFromStoredRules**
  (ReadyIsCurrent) and **StalenessRunsDown** (LinkedDependentsStale). `Base` holds whatever dies:
  what the steps of a script before the present one have saved, which version of the rules a
  command works with, how far a refresh has come. `Clean` holds until something dies: a mission
  that is not blocked has nothing stale outside a refresh, and staleness has run down every link
  or `hold.found` has what it still must reach. The scripts are read off step by step.
  The recursive query of `artifact_descendants` is a recursive function here; `DescendantsFacts`
  shows for any finite graph, by a least counterexample in the number of rounds, that it finds
  the least set closed under the links.
- `RuleBookProofs`. **RulesStayInForce** (StateHasRules), **StrongerDisplaces** (DisplacedByStronger)
  and **ReconcilingAgainAgrees** (ReconcileIdempotent), for any number of signals and crashes. The
  invariant follows the queue of a reconciliation: every rule signal has its rule or still waits,
  and the state saved last, if no signal came after it, says what the tables say. For the rules
  in conflict it needs besides that no signal is recorded twice (`Recorded`), so that the rule
  looked up for a known signal is the one there is, and that each rule in conflict is on the
  list or its signal still waits (`Collected`). The order in
  which signals are read is a CHOOSE; that such an order exists is proved by a least
  counterexample in the number of signals.
- `CommandApprovalProofs`. **ApprovalTypeCorrect**; and, for operations in turn,
  **ServiceImplementsGate**, the refinement `Spec => GateSpec`, and **DenialHolds**
  (DenialHoldsCategory). A worker about to decide or to expire holds a PENDING request, one about to
  execute a GRANTED one, so that each write maps to a `Settle`, a `Run` or an `Ask` and every other
  step to a stutter. DenialHolds adds that behind a proposal that passed the check no request of
  its category blocks unless a plain `propose` came after it. That the last request of the category
  is enough to look at follows by the property itself, applied to that last request. With overlap
  neither holds: two operations can settle one request twice.

Only model-checked, because out of the prover's reach:

- CycleCompletes, MonitorNeverStops, RunningIsRecovered, AwaitedIsObserved: liveness under
  fairness, which needs ENABLED.
- MetricFromBest of RuleBook: what a fold computes, for every input, is an induction over data.
  For the same reason `TypeOK` of RuleBook, whose metric must be a number, is not proved; it
  documents the variables, and the theorems use the weaker `Types`, in which a metric is whatever
  the fold makes of signals.

## 6. Not modelled

Prompts, parsing and the content of model answers; fetching and text extraction; generated
documents; command-line parsing and presentation; migrations; the GitHub client; metrics
arithmetic; the matching of command lines and paths in the security policy; `ask`, which
records an invocation nobody reads; `attach_entrant_profile`; `cancel_from` and the cycle check
of `add_tasks`. They keep no state that two processes share, or their behaviour is text.
`PROJECT.json` has a reason for each component.

Details that are coarser than the code: a measurer of CompeteCycle does not raise (the run
would end and be tried again); `LinkArtifacts` of MissionPhases saves the links of one artifact
in one step; every target of ProjectBuild has a checkout of its own, so two targets that the user
points at one directory are not explored.

Not composed: overlapping commands on one project (ProjectWork has the parameter, but two
workers exceed what TLC enumerates in minutes; finding 8 comes from that instance), and the
COMPETE loop with the build that its dispatcher may call, which CompeteCycle takes as a change
of the observed world.

## 7. Plan

1. *Done*: CompeteCycle, MonitorLease, TaskEngine, ExternalActions; MissionStates,
   MissionStrategy and ProjectBuild composed in ProjectWork; MissionPhases; RuleBook;
   CommandApproval with its abstract specification.
2. *Done*: proofs for all eight components; what section 5 lists as only model-checked remains.
3. Abstract specifications of a once-only action that CompeteCycle implements and of a mutual
   exclusion that MonitorLease implements, each with its refinement proved in the component's
   existing proof module.
4. **TaskGraph** (pure): `_require_acyclic`, the waves of `add_tasks` and `cancel_from` against
   reference definitions.
