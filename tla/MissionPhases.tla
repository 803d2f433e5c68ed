---------------------------- MODULE MissionPhases ---------------------------
(***************************************************************************)
(* The fixture pipeline: run_vertical_slice takes a mission from CREATED   *)
(* to PLANNING, complete_v0 from PLANNING to READY_FOR_SUBMISSION, and     *)
(* refresh_official_rules replaces the rules under either, marking what    *)
(* was made from the old ones as stale along the artifact graph.           *)
(*                                                                         *)
(* The two pipelines are straight-line code, so each is a script: a        *)
(* sequence of writes that one action per kind of write carries out.  What *)
(* a capability computes is left out; any task may raise.  Commands come   *)
(* one after the other and may die between two writes; commands that       *)
(* overlap on the mission row are in ProjectWork.                          *)
(***************************************************************************)
EXTENDS MissionStates, FiniteSets, FiniteSetsExt

CONSTANTS
    Rules,         \* what the official rules may say
    MaxVersion,    \* bound: versions of the stored specification
    MaxCrashes     \* bound: commands that die between two writes

ASSUME PhasesAssumption ==
    /\ MaxVersion \in Nat \ {0} /\ MaxCrashes \in Nat

VARIABLES
    state,         \* the mission's state; NONE before create_mission
    specs,         \* what each stored version of the rules says
    artifacts,     \* saved artifacts: <<kind, version of the rules used>>
    stale,         \* those of them that are marked stale
    links,         \* artifact_dependencies, parent before child
    decided,       \* whether the strategy decision is saved
    reviews,       \* artifacts that a review_stale_ task is queued for
    published,     \* what the official rules say now
    pc,            \* the command that runs and the step it has reached
    hold,          \* what it has read: see Hold
    crashes        \* commands that died so far

tables == <<state, specs, artifacts, stale, links, decided, reviews>>
vars == <<tables, published, pc, hold, crashes>>

PlanKinds == {"prd", "architecture", "implementation_plan",
              "acceptance_plan", "risk_register", "strategy_review"}
Kinds == PlanKinds \cup {"rules_snapshot", "opportunity_map",
             "candidate_ideas", "deep_candidate_analysis", "demo_project",
             "demo_validation", "red_team", "improvement_plan",
             "final_checklist", "compliance_report"}
RequiredPlanning == PlanKinds \ {"strategy_review"}
Reviewed == {"prd", "architecture", "final_checklist"}

Artifact == Kinds \X (1..MaxVersion)

\* version: of the specification it works from; rules: what it has fetched;
\* old: the version of the last rules snapshot; marks: what is still to be
\* marked stale; found: all that depends on the old snapshot.
Hold == [version : 0..MaxVersion, rules : Rules \cup {"none"},
         old : 0..MaxVersion, marks : SUBSET Artifact,
         found : SUBSET Artifact]
NoHold == [version |-> 0, rules |-> "none", old |-> 0, marks |-> {},
           found |-> {}]

(***************************************************************************)
(* The scripts                                                             *)
(***************************************************************************)
Move(s) == [do |-> "move", kind |-> s, parents |-> {}]
RunTask == [do |-> "task", kind |-> "", parents |-> {}]
Write(what) == [do |-> what, kind |-> "", parents |-> {}]
Save(kind) == [do |-> "save", kind |-> kind, parents |-> {}]
LinkTo(kind, parents) == [do |-> "link", kind |-> kind, parents |-> parents]

\* run_vertical_slice up to the locked rules.
LockRules ==
    <<Move("INTAKE"), Move("DISCOVERY"), RunTask, RunTask, Write("spec"),
      Save("rules_snapshot"), Move("RULES_LOCK"), Write("gate"),
      Move("LANDSCAPE_ANALYSIS"), Move("IDEATION")>>

\* Its ideas, their evaluation and the decision.
SelectStrategy ==
    <<RunTask, Save("opportunity_map"), Save("candidate_ideas"),
      Move("STRATEGY_SELECTION"), RunTask, Save("deep_candidate_analysis"),
      RunTask, Write("decision")>>

\* Its planning documents and, at the end, all the links.  The risk register
\* gets none; premortem and win review, which get none either, are left out.
WritePlan ==
    <<Move("PLANNING"), RunTask, Save("prd"), Save("architecture"),
      Save("implementation_plan"), Save("acceptance_plan"),
      Save("risk_register"), Save("strategy_review"),
      LinkTo("opportunity_map", {"rules_snapshot"}),
      LinkTo("candidate_ideas", {"opportunity_map"}),
      LinkTo("deep_candidate_analysis", {"candidate_ideas"}),
      LinkTo("strategy_review", {"deep_candidate_analysis"}),
      LinkTo("prd", {"deep_candidate_analysis", "strategy_review"}),
      LinkTo("architecture", {"prd"}),
      LinkTo("implementation_plan", {"architecture"}),
      LinkTo("acceptance_plan", {"implementation_plan"})>>

\* complete_v0: the demo and its checkpoint, its validation, its red team.
BuildDemo ==
    <<Move("BUILDING"), RunTask, Save("demo_project"),
      LinkTo("demo_project", {"implementation_plan"}), RunTask,
      Move("VALIDATING"), RunTask, Save("demo_validation"),
      LinkTo("demo_validation", {"demo_project"}), RunTask, Save("red_team"),
      LinkTo("red_team", {"demo_validation"}), Move("OPTIMIZING"), RunTask,
      Save("improvement_plan"), LinkTo("improvement_plan", {"red_team"})>>

\* Its submission pack, of which final_checklist stands for all documents;
\* the compliance report gets no link.  Then the readiness gate.
PackSubmission ==
    <<Move("SUBMISSION_PREP"), RunTask, Save("final_checklist"),
      LinkTo("final_checklist", {"demo_validation", "red_team"}),
      Save("compliance_report"), RunTask, Write("gate"),
      Move("READY_FOR_SUBMISSION")>>

Script == [slice |-> LockRules \o SelectStrategy \o WritePlan,
           complete |-> BuildDemo \o PackSubmission]

\* A command and the step it has reached.
Idle == <<"idle", 0>>
RefreshLabels == {"fetch", "save_spec", "snapshot", "mark", "save_rules",
                  "link_rules", "review", "block"}
Labels == {Idle} \cup {<<"slice", i>> : i \in DOMAIN Script.slice}
              \cup {<<"complete", i>> : i \in DOMAIN Script.complete}
              \cup {<<label, 0>> : label \in RefreshLabels}

(***************************************************************************)
(* Initial state and helpers                                               *)
(***************************************************************************)
TypeOK ==
    /\ state \in MissionState \cup {"NONE"}
    /\ specs \in Seq(Rules) /\ Len(specs) <= MaxVersion
    /\ artifacts \subseteq Artifact /\ stale \subseteq artifacts
    /\ links \subseteq artifacts \X artifacts
    /\ decided \in BOOLEAN
    /\ reviews \subseteq artifacts
    /\ published \in Rules
    /\ pc \in Labels
    /\ hold \in Hold
    /\ crashes \in 0..MaxCrashes

Init ==
    /\ state = "NONE" /\ specs = <<>> /\ artifacts = {} /\ stale = {}
    /\ links = {} /\ decided = FALSE /\ reviews = {}
    /\ published \in Rules
    /\ pc = Idle /\ hold = NoHold /\ crashes = 0

Finish == pc' = Idle /\ hold' = NoHold
Saved(kind) == {a \in artifacts : a[1] = kind}
Newest(kind) == <<kind, Max({a[2] : a \in Saved(kind)})>>

Children(nodes) == {l[2] : l \in {k \in links : k[1] \in nodes}}

\* Mutant: only the direct children are found.
DescendantsDirect(a) == Children({a})

\* artifact_descendants: the recursive query over the dependency rows.
Descendants(a) ==
    LET within[n \in 0..Cardinality(links)] ==
            IF n = 0 THEN Children({a})
            ELSE LET nearer == within[n - 1]
                 IN  nearer \cup Children(nearer)
    IN  within[Cardinality(links)]

(***************************************************************************)
(* Carrying out a script                                                   *)
(***************************************************************************)
Running == pc[1] \in {"slice", "complete"}
Here == Script[pc[1]][pc[2]]
At(what) == Running /\ Here.do = what

\* The next step of the script, or the end of the command.
Onward ==
    IF pc[2] < Len(Script[pc[1]])
    THEN pc' = <<pc[1], pc[2] + 1>> /\ UNCHANGED hold
    ELSE Finish

\* create_mission; the script's specification will be version 1.
StartSlice ==
    /\ pc = Idle /\ state = "NONE"
    /\ state' = "CREATED"
    /\ pc' = <<"slice", 1>> /\ hold' = [NoHold EXCEPT !.version = 1]
    /\ UNCHANGED <<specs, artifacts, stale, links, decided, reviews,
                   published, crashes>>

\* Mutant: complete_v0 goes by the decision alone.
MayCompleteDecided == decided

\* The strategy gate of complete_v0, then its script.
MayComplete == decided /\ \A kind \in RequiredPlanning : Saved(kind) # {}
StartComplete ==
    /\ pc = Idle /\ state = "PLANNING"
    /\ MayComplete
    /\ \/ pc' = <<"complete", 1>> /\ UNCHANGED state
          /\ hold' = [NoHold EXCEPT !.version = Len(specs)]
       \/ state' = "BLOCKED" /\ UNCHANGED <<pc, hold>>
    /\ UNCHANGED <<specs, artifacts, stale, links, decided, reviews,
                   published, crashes>>

\* transition_state; a transition that is not allowed raises.
MoveState ==
    /\ At("move")
    /\ IF CanTransition(state, Here.kind)
       THEN state' = Here.kind /\ Onward
       ELSE Finish /\ UNCHANGED state
    /\ UNCHANGED <<specs, artifacts, stale, links, decided, reviews,
                   published, crashes>>

\* _run_task, or a tool that is called outside a task: it returns, or raises
\* out of the command.
DoTask ==
    /\ At("task")
    /\ Onward \/ Finish
    /\ UNCHANGED <<tables, published, crashes>>

\* The specification extracted from the page as it is now.
WriteSpec ==
    /\ At("spec")
    /\ specs' = Append(specs, published)
    /\ Onward
    /\ UNCHANGED <<state, artifacts, stale, links, decided, reviews,
                   published, crashes>>

WriteDecision ==
    /\ At("decision")
    /\ decided' = TRUE
    /\ Onward
    /\ UNCHANGED <<state, specs, artifacts, stale, links, reviews,
                   published, crashes>>

\* rules_gate and submission_gate: passed, or the mission is blocked.
PassGate ==
    /\ At("gate")
    /\ \/ Onward /\ UNCHANGED state
       \/ state' = "BLOCKED" /\ Finish
    /\ UNCHANGED <<specs, artifacts, stale, links, decided, reviews,
                   published, crashes>>

SaveArtifact ==
    /\ At("save")
    /\ artifacts' = artifacts \cup {<<Here.kind, hold.version>>}
    /\ Onward
    /\ UNCHANGED <<state, specs, stale, links, decided, reviews, published,
                   crashes>>

LinkArtifacts ==
    /\ At("link")
    /\ links' = links \cup {<<Newest(kind), Newest(Here.kind)>> :
                                kind \in Here.parents}
    /\ Onward
    /\ UNCHANGED <<state, specs, artifacts, stale, decided, reviews,
                   published, crashes>>

(***************************************************************************)
(* refresh_official_rules                                                  *)
(***************************************************************************)
Refresh ==
    /\ pc = Idle /\ specs # <<>>
    /\ state \notin {"PAUSED", "CANCELLED"}
    /\ pc' = <<"fetch", 0>>
    /\ hold' = [NoHold EXCEPT !.version = Len(specs)]
    /\ UNCHANGED <<tables, published, crashes>>

\* The fetch may raise; rules with the old signature end the command.
FetchRules ==
    /\ pc = <<"fetch", 0>>
    /\ \/ Finish
       \/ /\ published # specs[hold.version]
          /\ hold.version < MaxVersion
          /\ hold' = [hold EXCEPT !.rules = published]
          /\ pc' = <<"save_spec", 0>>
    /\ UNCHANGED <<tables, published, crashes>>

SaveNewSpec ==
    /\ pc = <<"save_spec", 0>>
    /\ specs' = Append(specs, hold.rules)
    /\ hold' = [hold EXCEPT !.version = @ + 1]
    /\ pc' = <<"snapshot", 0>>
    /\ UNCHANGED <<state, artifacts, stale, links, decided, reviews,
                   published, crashes>>

\* The last snapshot not stale and all that depends on it; raises if the
\* mission has none.
FindDependents ==
    /\ pc = <<"snapshot", 0>>
    /\ LET current == Saved("rules_snapshot") \ stale
           old == Max({a[2] : a \in current})
           found == Descendants(<<"rules_snapshot", old>>)
       IN  IF current = {} THEN Finish
           ELSE /\ hold' = [hold EXCEPT !.old = old, !.found = found,
                                        !.marks = found \ stale]
                /\ pc' = <<IF found \subseteq stale THEN "save_rules"
                           ELSE "mark", 0>>
    /\ UNCHANGED <<tables, published, crashes>>

\* mark_artifact_descendants_stale saves one artifact after the other in the
\* order of the query, for which CHOOSE fixes one: what a crash leaves
\* unmarked is another set in another order, and no guard reads it.
NextMark == CHOOSE a \in hold.marks : TRUE
MarkStale ==
    /\ pc = <<"mark", 0>>
    /\ stale' = stale \cup {NextMark}
    /\ hold' = [hold EXCEPT !.marks = @ \ {NextMark}]
    /\ pc' = <<IF hold.marks = {NextMark} THEN "save_rules" ELSE "mark", 0>>
    /\ UNCHANGED <<state, specs, artifacts, links, decided, reviews,
                   published, crashes>>

SaveSnapshot ==
    /\ pc = <<"save_rules", 0>>
    /\ artifacts' = artifacts \cup {<<"rules_snapshot", hold.version>>}
    /\ pc' = <<"link_rules", 0>>
    /\ UNCHANGED <<state, specs, stale, links, decided, reviews, published,
                   hold, crashes>>

LinkSnapshot ==
    /\ pc = <<"link_rules", 0>>
    /\ links' = links \cup {<<<<"rules_snapshot", hold.old>>,
                              <<"rules_snapshot", hold.version>>>>}
    /\ LET critical == {a \in hold.found : a[1] \in Reviewed}
       IN  /\ hold' = [hold EXCEPT !.marks = critical]
           /\ pc' = <<IF critical = {} THEN "block" ELSE "review", 0>>
    /\ UNCHANGED <<state, specs, artifacts, stale, decided, reviews,
                   published, crashes>>

\* add_tasks saves one review task after the other.
QueueReview ==
    /\ pc = <<"review", 0>>
    /\ reviews' = reviews \cup {NextMark}
    /\ hold' = [hold EXCEPT !.marks = @ \ {NextMark}]
    /\ pc' = <<IF hold.marks = {NextMark} THEN "block" ELSE "review", 0>>
    /\ UNCHANGED <<state, specs, artifacts, stale, links, decided,
                   published, crashes>>

\* Mutant: a mission that is ready stays so.
BlockUnlessReady ==
    /\ pc = <<"block", 0>>
    /\ state' = IF state \in {"POSTMORTEM", "READY_FOR_SUBMISSION"}
                THEN state ELSE "BLOCKED"
    /\ Finish
    /\ UNCHANGED <<specs, artifacts, stale, links, decided, reviews,
                   published, crashes>>

BlockMission ==
    /\ pc = <<"block", 0>>
    /\ state' = IF state = "POSTMORTEM" THEN state ELSE "BLOCKED"
    /\ Finish
    /\ UNCHANGED <<specs, artifacts, stale, links, decided, reviews,
                   published, crashes>>

(***************************************************************************)
(* The world and the specification                                         *)
(***************************************************************************)
PublishRules ==
    /\ \E r \in Rules \ {published} : published' = r
    /\ UNCHANGED <<tables, pc, hold, crashes>>

Crash ==
    /\ pc # Idle /\ crashes < MaxCrashes
    /\ crashes' = crashes + 1
    /\ Finish
    /\ UNCHANGED <<tables, published>>

ScriptStep == \/ MoveState \/ DoTask \/ WriteSpec \/ WriteDecision
              \/ PassGate \/ SaveArtifact \/ LinkArtifacts

RefreshStep == \/ FetchRules \/ SaveNewSpec \/ FindDependents \/ MarkStale
               \/ SaveSnapshot \/ LinkSnapshot \/ QueueReview
               \/ BlockMission

Next == \/ StartSlice \/ StartComplete \/ Refresh
        \/ ScriptStep \/ RefreshStep \/ PublishRules \/ Crash

Spec == Init /\ [][Next]_vars

(***************************************************************************)
(* Properties                                                              *)
(***************************************************************************)
\* What must be saved before the mission may stand in a state.
Needs == [RULES_LOCK |-> {"rules_snapshot"},
          STRATEGY_SELECTION |-> {"opportunity_map", "candidate_ideas"},
          PLANNING |-> {"deep_candidate_analysis"},
          BUILDING |-> RequiredPlanning, VALIDATING |-> {"demo_project"},
          OPTIMIZING |-> {"demo_validation", "red_team"},
          SUBMISSION_PREP |-> {"improvement_plan"},
          READY_FOR_SUBMISSION |-> {"final_checklist", "compliance_report"}]

\* The state never runs ahead of the saved work: whichever command died or
\* raised wherever, and whichever was run after it, a mission in a state has
\* the artifacts of every state up to it (save_artifact before
\* transition_state, and the planning check of complete_v0).
StateBacked ==
    \A i \in DOMAIN Canonical : state = Canonical[i] =>
        /\ \A j \in 1..i : Canonical[j] \in DOMAIN Needs =>
              \A kind \in Needs[Canonical[j]] : Saved(kind) # {}
        /\ i >= 4 => specs # <<>>
        /\ i >= 8 => decided

\* If no command died: once refresh_official_rules is done, staleness has run
\* down the artifact graph.  The children of a superseded snapshot are stale,
\* the children of a stale artifact are stale, and what a person must look at
\* has its review task.
LinkedDependentsStale ==
    crashes = 0 /\ pc = Idle =>
        \A l \in links : l[2][1] # "rules_snapshot" =>
            /\ l[1] \in stale => l[2] \in stale
            /\ l[1][1] = "rules_snapshot" /\ l[1][2] < Len(specs)
                  => l[2] \in stale
            /\ l[2] \in stale /\ l[2][1] \in Reviewed => l[2] \in reviews

\* If no command died: a mission that is READY_FOR_SUBMISSION between two
\* commands was made, from its snapshot to its pack, from the rules stored
\* last (refresh_official_rules blocks it otherwise).
ReadyIsCurrent ==
    crashes = 0 /\ pc = Idle /\ state = "READY_FOR_SUBMISSION" =>
        /\ stale = {}
        /\ \A a \in artifacts : a[2] = Len(specs)

\* Every artifact made from older rules than the stored ones is stale once
\* the refresh is done.  The code does not keep this: the risk register and
\* the compliance report, whose rows name what they depend on, never get a
\* row in artifact_dependencies.
AllDependentsStale ==
    crashes = 0 /\ pc = Idle =>
        \A a \in artifacts \ Saved("rules_snapshot") :
            a[2] < Len(specs) => a \in stale
=============================================================================
