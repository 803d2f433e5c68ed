--------------------------- MODULE MissionStrategy --------------------------
(***************************************************************************)
(* From a competition's address to a strategy and a project, and the later *)
(* change of direction: joust_it and redirect of ai_mission.py, with the   *)
(* model calls and the decisions that ai.py and ai_strategy.py record.     *)
(*                                                                         *)
(* What a model answers is free: a usable answer, an unusable one, none at *)
(* all after the retries, or an exception nobody expects.  Every database  *)
(* write is a step of its own.                                             *)
(***************************************************************************)
EXTENDS ProjectTables

CONSTANT MaxAttempts    \* _REASONING_MAX_ATTEMPTS

ASSUME StrategyAssumption == MaxAttempts \in Nat \ {0}

VARIABLES
    stored,         \* how many strategy candidates are stored
    chosen,         \* selected_option of the strategy decisions, in order
    work            \* what each worker holds while it plans

strategyTables == <<stored, chosen>>
strategyVars == <<strategyTables, work>>

\* op: which handler runs; tries: attempts of the model call under way; sel:
\* the candidate it pursues; seen: candidates it read; before: the strategy
\* that was current, 0 for None; previous: the target that was active, 0 for
\* None, and old its copy; fresh: the mission copy of attach_project_target.
Work == [op : {"none", "joust", "redirect", "attach"}, tries : 1..MaxAttempts,
         sel : 0..Candidates, seen : 0..Candidates, before : 0..Candidates,
         previous : Nat, old : TargetRow, fresh : MissionRow]
NoWork == [op |-> "none", tries |-> 1, sel |-> 0, seen |-> 0, before |-> 0,
           previous |-> 0, old |-> NewTarget(0), fresh |-> NoMission]

\* The labels of joust_it that only save the copy in its next state.
Phase == [intake |-> <<"INTAKE", "discovery">>,
          discovery |-> <<"DISCOVERY", "discover">>,
          rules_lock |-> <<"RULES_LOCK", "landscape">>,
          landscape |-> <<"LANDSCAPE_ANALYSIS", "ideation">>,
          ideation |-> <<"IDEATION", "generate">>,
          selection |-> <<"STRATEGY_SELECTION", "decide">>,
          planning |-> <<"PLANNING", "plan">>,
          building |-> <<"BUILDING", "leave">>,
          blocked |-> <<"BLOCKED", "leave">>]

ModelCalls == {"generate", "select", "plan", "reassess"}

StrategyLabels ==
    DOMAIN Phase \cup ModelCalls
        \cup {"discover", "save_spec", "save_rules", "deadline", "store",
              "decide", "attach", "link", "block", "activate", "compare",
              "supersede"}

StrategyTypeOK ==
    /\ stored \in 0..Candidates
    /\ chosen \in Seq(1..Candidates)
    /\ work \in [Workers -> Work]

StrategyInit ==
    /\ stored = 0 /\ chosen = <<>>
    /\ work = [w \in Workers |-> NoWork]

\* The handler returns or raises.
Leave(w) == Forget(w) /\ work' = [work EXCEPT ![w] = NoWork]

\* current_strategy of _mission_facts.
Current == IF chosen = <<>> THEN 0 ELSE chosen[Len(chosen)]

(***************************************************************************)
(* The model call                                                          *)
(***************************************************************************)

\* ClaudeCliReasoner.complete: a retryable envelope and attempts left.
RetryModel(w) ==
    /\ pc[w] \in ModelCalls /\ work[w].tries < MaxAttempts
    /\ work' = [work EXCEPT ![w].tries = @ + 1]
    /\ UNCHANGED <<tables, pc, row, bounds, strategyTables>>

Answered(w) == work' = [work EXCEPT ![w].tries = 1]

\* ModelUnavailable, or an answer that json_object or a check refuses.  A
\* reassessment only raises; elsewhere the mission is blocked.
Refused(w) ==
    /\ pc[w] \in ModelCalls
    /\ IF pc[w] = "reassess"
         THEN Leave(w)
         ELSE Answered(w) /\ Goto(w, "block") /\ UNCHANGED row
    /\ UNCHANGED <<tables, bounds, strategyTables>>

\* Any other exception is recorded on the invocation and escapes.
ModelRaises(w) ==
    /\ pc[w] \in ModelCalls
    /\ Leave(w)
    /\ UNCHANGED <<tables, bounds, strategyTables>>

\* _block: the blockers are saved with the copy, then the transition.
Block(w) ==
    /\ pc[w] = "block"
    /\ mission' = row[w]
    /\ Goto(w, "blocked")
    /\ UNCHANGED <<targets, spec, row, bounds, strategyVars>>

(***************************************************************************)
(* joust_it                                                                *)
(***************************************************************************)
Joust(w) ==
    /\ MayStart(w) /\ mission.state = "NONE"
    /\ mission' = [NoMission EXCEPT !.state = "CREATED"]
    /\ row' = [row EXCEPT ![w] = mission']
    /\ work' = [work EXCEPT ![w].op = "joust"]
    /\ Goto(w, "intake")
    /\ UNCHANGED <<targets, spec, bounds, strategyTables>>

\* transition_state; an illegal one raises.
Advance(w) ==
    /\ pc[w] \in DOMAIN Phase
    /\ LET state == Phase[pc[w]][1]
           next == Phase[pc[w]][2]
       IN IF CanTransition(row[w].state, state)
            THEN /\ mission' = Moved(w, state)
                 /\ IF next = "leave"
                      THEN Leave(w)
                      ELSE /\ row' = [row EXCEPT ![w] = mission']
                           /\ Goto(w, next)
                           /\ UNCHANGED work
            ELSE Leave(w) /\ UNCHANGED mission
    /\ UNCHANGED <<targets, spec, bounds, strategyTables>>

\* discover_sources and extract_spec, which raise or yield a specification.
Discover(w) ==
    /\ pc[w] = "discover"
    /\ \E label \in {"block", "save_spec"} : Goto(w, label)
    /\ UNCHANGED <<tables, row, bounds, strategyVars>>

SaveSpec(w) ==
    /\ pc[w] = "save_spec"
    /\ spec' = TRUE
    /\ Goto(w, "save_rules")
    /\ UNCHANGED <<mission, targets, row, bounds, strategyVars>>

\* The title, the deadline and the specification's id go to the mission.
SaveRules(w) ==
    /\ pc[w] = "save_rules"
    /\ mission' = row[w]
    /\ Goto(w, "deadline")
    /\ UNCHANGED <<targets, spec, row, bounds, strategyVars>>

\* A deadline in the past blocks before any model is asked.
Deadline(w) ==
    /\ pc[w] = "deadline"
    /\ \E label \in {"block", "rules_lock"} : Goto(w, label)
    /\ UNCHANGED <<tables, row, bounds, strategyVars>>

\* generate_candidates, with enough candidates that differ.
Generate(w) ==
    /\ pc[w] = "generate"
    /\ Answered(w) /\ Goto(w, "store")
    /\ UNCHANGED <<tables, row, bounds, strategyTables>>

\* Mutant: one more than were generated.
StoreOneMore(w) ==
    /\ pc[w] = "store"
    /\ stored' = stored + 1
    /\ Goto(w, IF stored = Candidates THEN "select" ELSE "store")
    /\ UNCHANGED <<tables, row, bounds, chosen, work>>

\* strategize stores them one by one before it asks which to select.
Store(w) ==
    /\ pc[w] = "store"
    /\ stored' = stored + 1
    /\ Goto(w, IF stored' = Candidates THEN "select" ELSE "store")
    /\ UNCHANGED <<tables, row, bounds, chosen, work>>

\* The answer names one of the candidates; record_decision saves it.
Choose(w, count, label) ==
    /\ \E s \in 1..count :
           /\ work' = [work EXCEPT ![w].sel = s, ![w].tries = 1]
           /\ chosen' = Append(chosen, s)
    /\ Goto(w, label)
    /\ UNCHANGED <<tables, row, bounds, stored>>

\* select_candidate
Select(w) == pc[w] = "select" /\ Choose(w, Candidates, "selection")

\* The Decision, then the mission that names it as its active strategy.
Activate(w, label, next) ==
    /\ pc[w] = label
    /\ row' = [row EXCEPT ![w].active = work[w].sel]
    /\ mission' = row'[w]
    /\ Goto(w, next)
    /\ UNCHANGED <<targets, spec, bounds, strategyVars>>

Decide(w) == Activate(w, "decide", "planning")

(***************************************************************************)
(* _plan_and_attach_project_target                                         *)
(***************************************************************************)
Plan(w) ==
    /\ pc[w] = "plan" /\ Len(targets) < MaxTargets
    /\ Answered(w) /\ Goto(w, "attach")
    /\ UNCHANGED <<tables, row, bounds, strategyTables>>

\* attach_project_target reads the mission again and saves the target.
Attach(w) ==
    /\ pc[w] = "attach" /\ Len(targets) < MaxTargets
    /\ targets' = Append(targets, NewTarget(work[w].sel))
    /\ work' = [work EXCEPT ![w].fresh =
                    [mission EXCEPT !.target = Len(targets')]]
    /\ Goto(w, "link")
    /\ UNCHANGED <<mission, spec, row, bounds, strategyTables>>

\* The command line attaches a target of the user's.
AttachProject(w) ==
    /\ Command(w) /\ mission.state # "NONE" /\ Len(targets) < MaxTargets
    /\ work' = [work EXCEPT ![w].op = "attach"]
    /\ Goto(w, "attach")
    /\ UNCHANGED <<tables, row, crashes, strategyTables>>

\* It saves the mission it read; the caller's own copy stays as it was.
Link(w) ==
    /\ pc[w] = "link"
    /\ mission' = work[w].fresh
    /\ IF work[w].op = "joust"
         THEN Goto(w, "building") /\ UNCHANGED <<row, work>>
         ELSE IF work[w].previous # 0
         THEN Goto(w, "supersede") /\ UNCHANGED <<row, work>>
         ELSE Leave(w)
    /\ UNCHANGED <<targets, spec, bounds, strategyTables>>

(***************************************************************************)
(* redirect                                                                *)
(***************************************************************************)

\* Without stored candidates it raises NO_STRATEGY_TO_REDIRECT.
Redirect(w) ==
    /\ Command(w) /\ stored > 0
    /\ row' = [row EXCEPT ![w] = mission]
    /\ work' = [work EXCEPT ![w] = [NoWork EXCEPT !.op = "redirect",
                                    !.seen = stored, !.before = Current]]
    /\ Goto(w, "reassess")
    /\ UNCHANGED <<tables, crashes, stored, chosen>>

Reassess(w) == pc[w] = "reassess" /\ Choose(w, work[w].seen, "activate")

Reactivate(w) == Activate(w, "activate", "compare")

\* The strategy that is already current moves no project; without a
\* specification there is none to move.
Compare(w) ==
    /\ pc[w] = "compare"
    /\ IF work[w].before = work[w].sel \/ ~spec
         THEN Leave(w)
         ELSE /\ work' = [work EXCEPT
                            ![w].previous = ActiveTarget,
                            ![w].old = IF ActiveTarget = 0 THEN @
                                       ELSE targets[ActiveTarget]]
              /\ Goto(w, "plan") /\ UNCHANGED row
    /\ UNCHANGED <<tables, bounds, strategyTables>>

\* Mutant: the target that is active by then is superseded.
SupersedeActive(w) ==
    /\ pc[w] = "supersede"
    /\ targets' = [targets EXCEPT ![ActiveTarget].superseded = TRUE]
    /\ Leave(w)
    /\ UNCHANGED <<mission, spec, bounds, strategyTables>>

\* save_project_target writes the whole row, as it was read, superseded.
Supersede(w) ==
    /\ pc[w] = "supersede"
    /\ targets' = [targets EXCEPT ![work[w].previous] =
                       [work[w].old EXCEPT !.superseded = TRUE]]
    /\ Leave(w)
    /\ UNCHANGED <<mission, spec, bounds, strategyTables>>

StrategyNext ==
    \E w \in Workers :
        \/ RetryModel(w) \/ Refused(w) \/ ModelRaises(w) \/ Block(w)
        \/ Joust(w) \/ Advance(w) \/ Discover(w) \/ SaveSpec(w)
        \/ SaveRules(w) \/ Deadline(w) \/ Generate(w) \/ Store(w)
        \/ Select(w) \/ Decide(w) \/ Plan(w) \/ AttachProject(w)
        \/ Attach(w) \/ Link(w)
        \/ Redirect(w) \/ Reassess(w) \/ Reactivate(w) \/ Compare(w)
        \/ Supersede(w)
=============================================================================
