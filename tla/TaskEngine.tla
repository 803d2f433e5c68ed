----------------------------- MODULE TaskEngine -----------------------------
(***************************************************************************)
(* The task table of one mission and everything that writes it: TaskEngine,*)
(* MissionOrchestrator.dispatch_task, pipeline._run_task, the lifecycle    *)
(* commands and `mission status`.                                          *)
(*                                                                         *)
(* A method reads rows, computes, and saves whole rows one transaction at  *)
(* a time.  The loops of refresh_ready, recover_running and cancel_mission *)
(* list the tasks once and save from that list: writes[p] are the rows a   *)
(* process still has to save.                                              *)
(***************************************************************************)
EXTENDS Naturals, FiniteSets

CONSTANTS
    Workers,     \* processes that run tasks
    Operator,    \* the process that issues lifecycle and status commands
    NTasks,      \* tasks are numbered in the order list_tasks returns them
    Deps,        \* the dependencies of each task
    MaxRetries,  \* max_retries of a task
    Overlap,     \* TRUE: processes run at the same time
    Commands,    \* the commands the operator issues
    MaxCrashes   \* bound: processes that die between two database calls

Tasks == 1..NTasks
Processes == Workers \cup {Operator}

ASSUME TaskAssumption ==
    /\ Operator \notin Workers
    /\ NTasks \in Nat /\ MaxRetries \in Nat /\ MaxCrashes \in Nat
    /\ Deps \in [Tasks -> SUBSET Tasks]
    /\ Overlap \in BOOLEAN
    /\ Commands \subseteq {"pause", "resume", "cancel", "recover", "status"}

VARIABLES
    mission,     \* mission.state: LIVE for every phase but PAUSED, CANCELLED
    task,        \* the tasks table; status NONE: not persisted yet
    pc,          \* where each process stands
    writes,      \* rows a process still has to save
    job,         \* the task a worker runs
    how,         \* by dispatch_task or by pipeline._run_task
    copy,        \* the row a worker is about to save
    runs,        \* how often the work of each task was started
    crashes      \* processes that died so far

locals == <<writes, job, how, copy>>
vars == <<mission, task, pc, locals, runs, crashes>>

TaskStatus == {"NONE", "PENDING", "READY", "RUNNING", "FAILED_RETRYABLE",
               "FAILED_PERMANENT", "SUCCEEDED", "CANCELLED"}

\* due: retry_after is None or past.
TaskRow == [status : TaskStatus, retries : Nat, due : BOOLEAN]
NewTask == [status |-> "PENDING", retries |-> 0, due |-> TRUE]

Labels == {"idle", "refresh", "claim", "claim_save", "run", "output",
           "output_save", "succeed", "fail", "close", "pause_set",
           "resume_set", "cancel_set", "list", "loop"}

TypeOK ==
    /\ mission \in {"LIVE", "PAUSED", "CANCELLED"}
    /\ task \in [Tasks -> TaskRow]
    /\ pc \in [Processes -> Labels]
    /\ \A p \in Processes :
          DOMAIN writes[p] \subseteq Tasks
          /\ \A t \in DOMAIN writes[p] : writes[p][t] \in TaskRow
    /\ job \in [Workers -> Tasks \cup {0}]
    /\ how \in [Workers -> {"dispatch", "pipeline"}]
    /\ copy \in [Workers -> TaskRow]
    /\ runs \in [Tasks -> Nat]
    /\ crashes \in Nat

(***************************************************************************)
(* Helpers                                                                 *)
(***************************************************************************)
Goto(p, label) == pc' = [pc EXCEPT ![p] = label]

NoWrites == [t \in {} |-> NewTask]
Stored == {t \in Tasks : task[t].status # "NONE"}
First(S) == CHOOSE t \in S : \A u \in S : t <= u

\* Processes take turns unless Overlap.
MayStart(p) ==
    pc[p] = "idle" /\ (Overlap \/ \A q \in Processes : pc[q] = "idle")

Exit(w) ==
    /\ Goto(w, "idle")
    /\ writes' = [writes EXCEPT ![w] = NoWrites]
    /\ job' = [job EXCEPT ![w] = 0]
    /\ how' = [how EXCEPT ![w] = "dispatch"]
    /\ copy' = [copy EXCEPT ![w] = NewTask]

\* Mutant: a task is ready once its dependencies have ended, well or badly.
DependenciesEnded(t) ==
    \A d \in Deps[t] : task[d].status \in {"SUCCEEDED", "FAILED_PERMANENT"}

DependenciesDone(t) == \A d \in Deps[t] : task[d].status = "SUCCEEDED"

\* refresh_ready: the tasks that become READY, and their rows.
Candidates ==
    {t \in Stored : /\ task[t].status \in {"PENDING", "FAILED_RETRYABLE"}
                    /\ DependenciesDone(t)
                    /\ task[t].due
                    /\ task[t].retries <= MaxRetries}

ReadyRows == [t \in Candidates |->
                 [task[t] EXCEPT !.status = "READY", !.due = TRUE]]

\* Mutant: retry_count counts down.
FailedCountsDown(r, retryable) ==
    [status |-> IF retryable THEN "FAILED_RETRYABLE" ELSE "FAILED_PERMANENT",
     retries |-> r.retries - 1, due |-> ~retryable]

\* fail and recover_running: one more retry used, and whether one is left.
Failed(r, retryable) ==
    LET again == retryable /\ r.retries + 1 <= MaxRetries IN
    [status |-> IF again THEN "FAILED_RETRYABLE" ELSE "FAILED_PERMANENT",
     retries |-> r.retries + 1, due |-> ~again]

\* Mutant: recovery does not use up a retry.
RecoverRowsFree == [t \in {t \in Tasks : task[t].status = "RUNNING"} |->
                       [task[t] EXCEPT !.status = "FAILED_RETRYABLE"]]

\* Mutant: recovery leaves tasks without a retry alone.
RecoverRowsSome == [t \in {t \in Tasks : /\ task[t].status = "RUNNING"
                                         /\ task[t].retries < MaxRetries} |->
                       Failed(task[t], TRUE)]

RecoverRows == [t \in {t \in Tasks : task[t].status = "RUNNING"} |->
                   Failed(task[t], TRUE)]

\* Mutant: cancelling rewrites the succeeded tasks too.
CancelRowsAll == [t \in {t \in Stored : task[t].status # "CANCELLED"} |->
                     [task[t] EXCEPT !.status = "CANCELLED"]]

CancelRows ==
    [t \in {t \in Stored : task[t].status \notin {"SUCCEEDED", "CANCELLED"}} |->
        [task[t] EXCEPT !.status = "CANCELLED"]]

Init ==
    /\ mission = "LIVE"
    /\ task = [t \in Tasks |-> [NewTask EXCEPT !.status = "NONE"]]
    /\ pc = [p \in Processes |-> "idle"]
    /\ writes = [p \in Processes |-> NoWrites]
    /\ job = [w \in Workers |-> 0]
    /\ how = [w \in Workers |-> "dispatch"]
    /\ copy = [w \in Workers |-> NewTask]
    /\ runs = [t \in Tasks |-> 0]
    /\ crashes = 0

(***************************************************************************)
(* Workers                                                                 *)
(***************************************************************************)

\* Mutant: the batch is saved in the order it came in.
AddTaskUnordered(t) ==
    /\ task[t].status = "NONE"
    /\ task' = [task EXCEPT ![t] = NewTask]
    /\ UNCHANGED <<mission, pc, locals, runs, crashes>>

\* add_tasks saves a batch in waves, a task after its dependencies; a process
\* that dies leaves the waves saved so far.
AddTask(t) ==
    /\ task[t].status = "NONE"
    /\ Deps[t] \subseteq Stored
    /\ task' = [task EXCEPT ![t] = NewTask]
    /\ UNCHANGED <<mission, pc, locals, runs, crashes>>

\* dispatch_task looks at the mission first, _run_task does not; both list the
\* tasks for refresh_ready.
Dispatch(w, t, by) ==
    /\ MayStart(w)
    /\ t \in Stored
    /\ by = "dispatch" => mission = "LIVE"
    /\ job' = [job EXCEPT ![w] = t]
    /\ how' = [how EXCEPT ![w] = by]
    /\ writes' = [writes EXCEPT ![w] = ReadyRows]
    /\ Goto(w, IF t \in Candidates THEN "refresh" ELSE "loop")
    /\ UNCHANGED <<mission, task, copy, runs, crashes>>

\* One save_task of refresh_ready, recover_running or cancel_mission, from the
\* list read before.
SaveNext(p) ==
    /\ pc[p] \in {"refresh", "loop"} /\ DOMAIN writes[p] # {}
    /\ LET t == First(DOMAIN writes[p]) IN
       /\ task' = [task EXCEPT ![t] = writes[p][t]]
       /\ writes' = [writes EXCEPT
              ![p] = [u \in DOMAIN writes[p] \ {t} |-> writes[p][u]]]
    /\ UNCHANGED <<mission, pc, job, how, copy, runs, crashes>>

\* The loop is done: a worker goes on to claim the task if this very refresh
\* made it READY, and raises "task did not become ready" otherwise.
LoopDone(w) ==
    /\ DOMAIN writes[w] = {}
    /\ \/ pc[w] = "refresh" /\ Goto(w, "claim") /\ UNCHANGED locals
       \/ pc[w] = "loop" /\ Exit(w)
    /\ UNCHANGED <<mission, task, runs, crashes>>

Claim(w) ==
    /\ pc[w] = "claim"
    /\ IF task[job[w]].status # "READY"
       THEN Exit(w)
       ELSE /\ copy' = [copy EXCEPT ![w] = [task[job[w]] EXCEPT !.status = "RUNNING"]]
            /\ Goto(w, "claim_save")
            /\ UNCHANGED <<writes, job, how>>
    /\ UNCHANGED <<mission, task, runs, crashes>>

SaveClaim(w) ==
    /\ pc[w] = "claim_save"
    /\ task' = [task EXCEPT ![job[w]] = copy[w]]
    /\ runs' = [runs EXCEPT ![job[w]] = @ + 1]
    /\ Goto(w, "run")
    /\ UNCHANGED <<mission, locals, crashes>>

\* The capability, or the pipeline's operation, returns or raises.
Work(w) ==
    /\ pc[w] = "run"
    /\ \/ Goto(w, IF how[w] = "dispatch" THEN "output" ELSE "succeed")
       \/ Goto(w, "fail")
    /\ UNCHANGED <<mission, task, locals, runs, crashes>>

\* dispatch_task reads the row and saves it with the output artifacts.
ReadForOutput(w) ==
    /\ pc[w] = "output"
    /\ copy' = [copy EXCEPT ![w] = task[job[w]]]
    /\ Goto(w, "output_save")
    /\ UNCHANGED <<mission, task, writes, job, how, runs, crashes>>

SaveOutput(w) ==
    /\ pc[w] = "output_save"
    /\ task' = [task EXCEPT ![job[w]] = copy[w]]
    /\ Goto(w, "succeed")
    /\ UNCHANGED <<mission, locals, runs, crashes>>

\* The row a worker closes its task with, if the task still runs.
Close(w, row) ==
    /\ IF task[job[w]].status # "RUNNING"
       THEN Exit(w)
       ELSE /\ copy' = [copy EXCEPT ![w] = row]
            /\ Goto(w, "close")
            /\ UNCHANGED <<writes, job, how>>
    /\ UNCHANGED <<mission, task, runs, crashes>>

Succeed(w) ==
    /\ pc[w] = "succeed"
    /\ Close(w, [task[job[w]] EXCEPT !.status = "SUCCEEDED", !.due = TRUE])

\* dispatch_task takes retryable from the task's inputs, the pipeline says no.
Fail(w) ==
    /\ pc[w] = "fail"
    /\ \E retryable \in BOOLEAN :
          /\ how[w] = "pipeline" => ~retryable
          /\ Close(w, Failed(task[job[w]], retryable))

SaveClose(w) ==
    /\ pc[w] = "close"
    /\ task' = [task EXCEPT ![job[w]] = copy[w]]
    /\ Exit(w)
    /\ UNCHANGED <<mission, runs, crashes>>

(***************************************************************************)
(* The operator                                                            *)
(***************************************************************************)

\* A command reads the mission and either leaves it or starts to change it;
\* resume on a mission that is not paused is recover_mission.
Command(op) ==
    /\ MayStart(Operator)
    /\ \/ op = "pause" /\ mission = "LIVE" /\ Goto(Operator, "pause_set")
       \/ op = "resume" /\ mission = "PAUSED" /\ Goto(Operator, "resume_set")
       \/ op = "cancel" /\ mission # "CANCELLED" /\ Goto(Operator, "cancel_set")
    /\ UNCHANGED <<mission, task, locals, runs, crashes>>

\* The lists recover_mission and mission_status read, after the mission.
ListTasks(op) ==
    /\ MayStart(Operator) /\ mission = "LIVE"
    /\ \/ op = "recover" /\ writes' = [writes EXCEPT ![Operator] = RecoverRows]
       \/ op = "status" /\ writes' = [writes EXCEPT ![Operator] = ReadyRows]
    /\ Goto(Operator, "loop")
    /\ UNCHANGED <<mission, task, job, how, copy, runs, crashes>>

\* _set; resume goes on to recover_running, cancel to cancel_mission.
SetMission ==
    /\ \/ /\ pc[Operator] = "pause_set"
          /\ mission' = "PAUSED" /\ Goto(Operator, "idle")
       \/ /\ pc[Operator] = "resume_set"
          /\ mission' = "LIVE" /\ Goto(Operator, "list")
       \/ /\ pc[Operator] = "cancel_set"
          /\ mission' = "CANCELLED" /\ Goto(Operator, "list")
    /\ UNCHANGED <<task, locals, runs, crashes>>

ListAfterSet ==
    /\ pc[Operator] = "list"
    /\ writes' = [writes EXCEPT ![Operator] =
                     IF mission = "CANCELLED" THEN CancelRows ELSE RecoverRows]
    /\ Goto(Operator, "loop")
    /\ UNCHANGED <<mission, task, job, how, copy, runs, crashes>>

CommandDone ==
    /\ pc[Operator] = "loop" /\ DOMAIN writes[Operator] = {}
    /\ Goto(Operator, "idle")
    /\ UNCHANGED <<mission, task, locals, runs, crashes>>

(***************************************************************************)
(* The environment                                                         *)
(***************************************************************************)
RetryDue(t) ==
    /\ ~task[t].due
    /\ task' = [task EXCEPT ![t].due = TRUE]
    /\ UNCHANGED <<mission, pc, locals, runs, crashes>>

Crash(p) ==
    /\ pc[p] # "idle" /\ crashes < MaxCrashes
    /\ crashes' = crashes + 1
    /\ IF p \in Workers
       THEN Exit(p)
       ELSE /\ Goto(p, "idle")
            /\ writes' = [writes EXCEPT ![p] = NoWrites]
            /\ UNCHANGED <<job, how, copy>>
    /\ UNCHANGED <<mission, task, runs>>

(***************************************************************************)
(* Specification                                                           *)
(***************************************************************************)
Running(w) ==
    \/ SaveNext(w) \/ LoopDone(w) \/ Claim(w) \/ SaveClaim(w) \/ Work(w)
    \/ ReadForOutput(w) \/ SaveOutput(w) \/ Succeed(w) \/ Fail(w)
    \/ SaveClose(w)

OperatorStep ==
    SetMission \/ ListAfterSet \/ SaveNext(Operator) \/ CommandDone

Next ==
    \/ \E t \in Tasks : AddTask(t) \/ RetryDue(t)
    \/ \E w \in Workers : Running(w)
    \/ \E w \in Workers, t \in Tasks, by \in {"dispatch", "pipeline"} :
          Dispatch(w, t, by)
    \/ \E op \in Commands : Command(op) \/ ListTasks(op)
    \/ OperatorStep
    \/ \E p \in Processes : Crash(p)

Spec == Init /\ [][Next]_vars

\* A process that runs goes on; the operator's restart recovery (recover_mission
\* opens every pipeline command) comes around again.  Nobody has to start a task.
FairSpec ==
    /\ Spec
    /\ \A w \in Workers : WF_vars(Running(w))
    /\ WF_vars(OperatorStep)
    /\ SF_vars(ListTasks("recover"))

(***************************************************************************)
(* Properties                                                              *)
(***************************************************************************)
\* One process at a time, any of them dying anywhere: a task is worked on at most
\* 1 + max_retries times, failures and recoveries counted alike ("can be resumed
\* within their retry limit", docs/RUNBOOK.md:43).
RunsWithinRetries == \A t \in Tasks : runs[t] <= MaxRetries + 1

\* One process at a time: while a task is worked on, everything it depends on has
\* succeeded and stays so.
RunsAfterDependencies ==
    \A w \in Workers :
        pc[w] \in {"run", "output", "output_save", "succeed", "fail", "close"} =>
            \A d \in Deps[job[w]] : task[d].status = "SUCCEEDED"

\* One process at a time: no save takes back an ended task.
EndedIsFinal ==
    [][\A t \in Tasks :
          task[t].status \in {"SUCCEEDED", "FAILED_PERMANENT", "CANCELLED"} =>
              \/ task'[t].status = task[t].status
              \/ task[t].status = "FAILED_PERMANENT"
                 /\ task'[t].status = "CANCELLED"]_vars

\* A batch interrupted between two saves leaves no task with a dependency that
\* does not exist.
DependenciesPersisted == \A t \in Stored : Deps[t] \subseteq Stored

\* A task whose worker died does not stay RUNNING ("stale running tasks are
\* changed to retryable failure", docs/RUNBOOK.md:42-43), unless the mission is
\* paused or cancelled.
RunningIsRecovered ==
    \A t \in Tasks : task[t].status = "RUNNING" ~>
                        (task[t].status # "RUNNING" \/ mission # "LIVE")

\* A worker runs what is ready ("tasks = store.get_ready_tasks() ...
\* dispatcher.execute(task)", docs/SDD.md:1012-1014): no dispatch of a READY task
\* is refused as not ready.
ReadyTaskRuns ==
    [][\A w \in Workers :
          (pc[w] = "loop" /\ pc'[w] = "idle" /\ crashes' = crashes)
              => task[job[w]].status # "READY"]_vars
=============================================================================
