-------------------------- MODULE TaskEngineProofs --------------------------
(***************************************************************************)
(* The task table for any number of tasks, any dependencies and any number *)
(* of workers: first what holds however processes overlap, then what holds *)
(* when they take turns and die anywhere.                                  *)
(***************************************************************************)
EXTENDS TaskEngine, WellFoundedInduction, TLAPS

(***************************************************************************)
(* Whatever overlaps                                                       *)
(***************************************************************************)
Types == TypeOK /\ DOMAIN writes = Processes

\* A row that is about to be saved belongs to a task that is persisted, and is
\* not the row of a task that is not.
Listed ==
    \A p \in Processes : \A t \in DOMAIN writes[p] :
        t \in Stored /\ writes[p][t].status # "NONE"

\* A worker under way has a task, and so has the row it is about to save.
Employed ==
    \A w \in Workers :
        /\ pc[w] # "idle" => job[w] \in Stored
        /\ pc[w] \in {"claim_save", "output_save", "close"} =>
              copy[w].status # "NONE"

Shape == Types /\ Listed /\ Employed /\ DependenciesPersisted

\* What the proofs below use of the constants.
LEMMA Constants ==
  /\ Operator \notin Workers /\ Operator \in Processes
  /\ Workers \subseteq Processes
  /\ MaxRetries \in Nat /\ Deps \in [Tasks -> SUBSET Tasks]
  BY TaskAssumption DEF Processes

\* A new row is a row.
LEMMA NewTaskIsRow == NewTask \in TaskRow /\ NewTask.status = "PENDING"
  BY DEF NewTask, TaskRow, TaskStatus

\* A row with another status is a row.
LEMMA RestatedIsRow ==
  ASSUME NEW r \in TaskRow, NEW s \in TaskStatus
  PROVE  /\ [r EXCEPT !.status = s] \in TaskRow
         /\ [r EXCEPT !.status = s].status = s
         /\ [r EXCEPT !.status = s].retries = r.retries
         /\ [r EXCEPT !.status = s, !.due = TRUE] \in TaskRow
         /\ [r EXCEPT !.status = s, !.due = TRUE].status = s
         /\ [r EXCEPT !.status = s, !.due = TRUE].retries = r.retries
  BY DEF TaskRow

\* fail and recover_running: one retry more, and retryable only within the limit.
LEMMA FailedIsRow ==
  ASSUME NEW r \in TaskRow, NEW retryable \in BOOLEAN
  PROVE  /\ Failed(r, retryable) \in TaskRow
         /\ Failed(r, retryable).status
               \in {"FAILED_RETRYABLE", "FAILED_PERMANENT"}
         /\ Failed(r, retryable).retries = r.retries + 1
         /\ Failed(r, retryable).status = "FAILED_RETRYABLE" =>
               Failed(r, retryable).retries <= MaxRetries
  <1> DEFINE again == retryable /\ r.retries + 1 <= MaxRetries
             f == [status |-> IF again THEN "FAILED_RETRYABLE"
                                       ELSE "FAILED_PERMANENT",
                   retries |-> r.retries + 1, due |-> ~again]
  <1>1. Failed(r, retryable) = f
    BY DEF Failed
  <1>2. r.retries \in Nat /\ r.retries + 1 \in Nat
    BY DEF TaskRow
  <1>3. again \in BOOLEAN
    OBVIOUS
  <1>4. again => r.retries + 1 <= MaxRetries
    OBVIOUS
  <1> HIDE DEF again
  <1>5. f \in TaskRow
    <2>1. f.due \in BOOLEAN
      BY <1>3
    <2>2. f.status \in TaskStatus
      BY DEF TaskStatus
    <2>3. QED BY <1>2, <2>1, <2>2 DEF TaskRow
  <1>6. QED BY <1>1, <1>4, <1>5

\* The rows refresh_ready computes.
LEMMA ReadyRowsTyped ==
  ASSUME TypeOK
  PROVE  /\ DOMAIN ReadyRows = Candidates /\ Candidates \subseteq Stored
         /\ Stored \subseteq Tasks
         /\ \A t \in Candidates :
               /\ ReadyRows[t] \in TaskRow
               /\ ReadyRows[t].status = "READY"
               /\ ReadyRows[t].retries = task[t].retries
  <1>1. DOMAIN ReadyRows = Candidates /\ Candidates \subseteq Stored
    BY DEF ReadyRows, Candidates
  <1>2. Stored \subseteq Tasks
    BY DEF Stored
  <1>3. ASSUME NEW t \in Candidates
        PROVE  /\ ReadyRows[t] \in TaskRow
               /\ ReadyRows[t].status = "READY"
               /\ ReadyRows[t].retries = task[t].retries
    <2>1. task[t] \in TaskRow
      BY <1>1, <1>2 DEF TypeOK
    <2>2. "READY" \in TaskStatus
      BY DEF TaskStatus
    <2>3. ReadyRows[t] = [task[t] EXCEPT !.status = "READY", !.due = TRUE]
      BY DEF ReadyRows
    <2>4. QED BY <2>1, <2>2, <2>3 DEF TaskRow
  <1>4. QED BY <1>1, <1>2, <1>3

\* The rows recover_running computes.
LEMMA RecoverRowsTyped ==
  ASSUME TypeOK
  PROVE  /\ DOMAIN RecoverRows = {t \in Tasks : task[t].status = "RUNNING"}
         /\ DOMAIN RecoverRows \subseteq Stored
         /\ \A t \in DOMAIN RecoverRows :
               RecoverRows[t] = Failed(task[t], TRUE)
         /\ \A t \in DOMAIN RecoverRows : RecoverRows[t] \in TaskRow
  <1>1. /\ DOMAIN RecoverRows = {t \in Tasks : task[t].status = "RUNNING"}
        /\ \A t \in DOMAIN RecoverRows :
              RecoverRows[t] = Failed(task[t], TRUE)
    BY DEF RecoverRows
  <1>2. DOMAIN RecoverRows \subseteq Stored
    BY <1>1 DEF Stored
  <1>3. ASSUME NEW t \in DOMAIN RecoverRows PROVE RecoverRows[t] \in TaskRow
    <2>1. task[t] \in TaskRow
      BY <1>1 DEF TypeOK
    <2>2. QED BY <1>1, <2>1, FailedIsRow
  <1>4. QED BY <1>1, <1>2, <1>3

\* The rows cancel_mission computes.
LEMMA CancelRowsTyped ==
  ASSUME TypeOK
  PROVE  /\ DOMAIN CancelRows =
              {t \in Stored : task[t].status \notin {"SUCCEEDED", "CANCELLED"}}
         /\ Stored \subseteq Tasks
         /\ \A t \in DOMAIN CancelRows :
               /\ CancelRows[t] \in TaskRow
               /\ CancelRows[t].status = "CANCELLED"
               /\ CancelRows[t].retries = task[t].retries
  <1>1. /\ DOMAIN CancelRows =
              {t \in Stored : task[t].status \notin {"SUCCEEDED", "CANCELLED"}}
        /\ \A t \in DOMAIN CancelRows :
              CancelRows[t] = [task[t] EXCEPT !.status = "CANCELLED"]
    BY DEF CancelRows
  <1>2. Stored \subseteq Tasks
    BY DEF Stored
  <1>3. "CANCELLED" \in TaskStatus
    BY DEF TaskStatus
  <1>4. ASSUME NEW t \in DOMAIN CancelRows PROVE task[t] \in TaskRow
    BY <1>1, <1>2 DEF TypeOK
  <1>5. ASSUME NEW t \in DOMAIN CancelRows
        PROVE  /\ CancelRows[t] \in TaskRow
               /\ CancelRows[t].status = "CANCELLED"
               /\ CancelRows[t].retries = task[t].retries
    <2> DEFINE r == task[t]
    <2>1. CancelRows[t] = [r EXCEPT !.status = "CANCELLED"] /\ r \in TaskRow
      BY <1>1, <1>4
    <2> HIDE DEF r
    <2>2. /\ [r EXCEPT !.status = "CANCELLED"] \in TaskRow
          /\ [r EXCEPT !.status = "CANCELLED"].status = "CANCELLED"
          /\ [r EXCEPT !.status = "CANCELLED"].retries = r.retries
      BY <1>3, <2>1, RestatedIsRow
    <2>3. QED BY <2>1, <2>2 DEF r
  <1>6. QED BY <1>1, <1>2, <1>5

\* The process that is done or dead has nothing left.
LEMMA ExitShape ==
  ASSUME Types, NEW w \in Workers, Exit(w)
  PROVE  /\ pc' \in [Processes -> Labels] /\ pc'[w] = "idle"
         /\ \A p \in Processes : p # w => pc'[p] = pc[p]
         /\ DOMAIN writes' = Processes /\ DOMAIN writes'[w] = {}
         /\ \A p \in Processes : p # w => writes'[p] = writes[p]
         /\ job' \in [Workers -> Tasks \cup {0}]
         /\ how' \in [Workers -> {"dispatch", "pipeline"}]
         /\ copy' \in [Workers -> TaskRow]
         /\ \A v \in Workers : v # w => job'[v] = job[v] /\ copy'[v] = copy[v]
  <1> USE Constants, NewTaskIsRow
  <1>1. /\ pc' \in [Processes -> Labels] /\ pc'[w] = "idle"
        /\ \A p \in Processes : p # w => pc'[p] = pc[p]
    BY DEF Types, TypeOK, Exit, Goto, Labels
  <1>2. /\ DOMAIN writes' = Processes /\ DOMAIN writes'[w] = {}
        /\ \A p \in Processes : p # w => writes'[p] = writes[p]
    BY DEF Types, Exit, NoWrites
  <1>3. /\ job' \in [Workers -> Tasks \cup {0}]
        /\ how' \in [Workers -> {"dispatch", "pipeline"}]
        /\ copy' \in [Workers -> TaskRow]
        /\ \A v \in Workers : v # w => job'[v] = job[v] /\ copy'[v] = copy[v]
    BY DEF Types, TypeOK, Exit
  <1>4. QED BY <1>1, <1>2, <1>3

\* A process that goes to a label.
LEMMA GotoTyped ==
  ASSUME Types, NEW p \in Processes, NEW l \in Labels, Goto(p, l)
  PROVE  /\ pc' \in [Processes -> Labels] /\ pc'[p] = l
         /\ \A q \in Processes : q # p => pc'[q] = pc[q]
  BY DEF Types, TypeOK, Goto

\* A row saved for one task.
LEMMA SavedTyped ==
  ASSUME Types, NEW t \in Tasks, NEW r \in TaskRow,
         task' = [task EXCEPT ![t] = r]
  PROVE  /\ task' \in [Tasks -> TaskRow] /\ task'[t] = r
         /\ \A u \in Tasks : u # t => task'[u] = task[u]
  BY DEF Types, TypeOK

\* A set of naturals that is not empty has a least element.
LEMMA LeastNatural ==
  ASSUME NEW S \in SUBSET Nat, S # {}
  PROVE  \E m \in S : \A k \in S : m <= k
  <1> DEFINE Less == OpToRel(<, Nat)
  <1>0. Less = {ss \in Nat \X Nat : ss[1] < ss[2]}
    BY DEF OpToRel
  <1>1. IsWellFoundedOn(Less, Nat)
    BY NatLessThanWellFounded
  <1>2. \A x, y \in Nat : <<y, x>> \in Less <=> y < x
    BY <1>0
  <1> HIDE DEF Less
  <1>3. PICK x \in S : \A y \in S : ~ (<<y, x>> \in Less)
    BY <1>1, WFMin
  <1>4. ASSUME NEW k \in S PROVE x <= k
    <2>1. x \in Nat /\ k \in Nat /\ ~ (<<k, x>> \in Less)
      BY <1>3
    <2>2. ~ (k < x)
      BY <1>2, <2>1
    <2>3. QED BY <2>1, <2>2
  <1>5. QED BY <1>4

\* The first of the rows still to be saved is one of them.
LEMMA FirstInSet ==
  ASSUME NEW S \in SUBSET Tasks, S # {}
  PROVE  First(S) \in S
  <1>1. S \subseteq Nat
    BY TaskAssumption DEF Tasks
  <1>2. \E t \in S : \A u \in S : t <= u
    BY <1>1, LeastNatural
  <1>3. QED BY <1>2 DEF First

\* The initial state.
LEMMA InitShape == Init => Shape
  <1> SUFFICES ASSUME Init PROVE Shape
    OBVIOUS
  <1> USE Constants, NewTaskIsRow
  <1>1. task \in [Tasks -> TaskRow] /\ \A t \in Tasks : task[t].status = "NONE"
    <2>1. "NONE" \in TaskStatus
      BY DEF TaskStatus
    <2>2. /\ [NewTask EXCEPT !.status = "NONE"] \in TaskRow
          /\ [NewTask EXCEPT !.status = "NONE"].status = "NONE"
      BY <2>1 DEF NewTask, TaskRow
    <2>3. QED BY <2>2 DEF Init
  <1>2. /\ DOMAIN writes = Processes
        /\ \A p \in Processes : DOMAIN writes[p] = {}
    BY DEF Init, NoWrites
  <1>3. TypeOK
    BY <1>1, <1>2 DEF Init, TypeOK, Labels
  <1>4. Listed
    BY <1>2 DEF Listed
  <1>5. Employed
    BY DEF Init, Employed
  <1>6. DependenciesPersisted
    BY <1>1 DEF DependenciesPersisted, Stored
  <1>7. QED BY <1>2, <1>3, <1>4, <1>5, <1>6 DEF Shape, Types

\* A row other than NONE saved for a persisted task leaves the set of persisted
\* tasks alone.
LEMMA SavedStored ==
  ASSUME Types, NEW t \in Stored, NEW r \in TaskRow, r.status # "NONE",
         task' = [task EXCEPT ![t] = r]
  PROVE  /\ task' \in [Tasks -> TaskRow] /\ Stored' = Stored
         /\ t \in Tasks /\ task'[t] = r
         /\ \A u \in Tasks : u # t => task'[u] = task[u]
  <1>1. t \in Tasks
    BY DEF Stored
  <1>2. /\ task' \in [Tasks -> TaskRow] /\ task'[t] = r
        /\ \A u \in Tasks : u # t => task'[u] = task[u]
    BY <1>1, SavedTyped
  <1>3. Stored' = Stored
    BY <1>1, <1>2 DEF Stored
  <1>4. QED BY <1>1, <1>2, <1>3


\* What a step of process p has to show: it leaves the others alone, and what it
\* lists, takes up and is about to save is of persisted tasks.
StepOf(p) ==
    /\ \A q \in Processes : q # p => pc'[q] = pc[q] /\ writes'[q] = writes[q]
    /\ \A v \in Workers : v # p => job'[v] = job[v] /\ copy'[v] = copy[v]
    /\ DOMAIN writes' = Processes
    /\ \A t \in DOMAIN writes'[p] :
          /\ t \in Stored /\ writes'[p][t] \in TaskRow
          /\ writes'[p][t].status # "NONE"
    /\ p \in Workers =>
          /\ pc'[p] # "idle" => job'[p] \in Stored
          /\ pc'[p] \in {"claim_save", "output_save", "close"} =>
                copy'[p].status # "NONE"

\* The variables of TypeOK that are not per process.
TypedStep ==
    /\ mission' \in {"LIVE", "PAUSED", "CANCELLED"}
    /\ task' \in [Tasks -> TaskRow]
    /\ pc' \in [Processes -> Labels]
    /\ job' \in [Workers -> Tasks \cup {0}]
    /\ how' \in [Workers -> {"dispatch", "pipeline"}]
    /\ copy' \in [Workers -> TaskRow]
    /\ runs' \in [Tasks -> Nat]
    /\ crashes' \in Nat

\* Such a step keeps the shape when it neither adds nor loses a task.
LEMMA StepKeepsShape ==
  ASSUME Shape, NEW p \in Processes, StepOf(p), TypedStep, Stored' = Stored
  PROVE  Shape'
  <1>1. \A q \in Processes : \A t \in DOMAIN writes'[q] :
           /\ t \in Stored /\ writes'[q][t] \in TaskRow
           /\ writes'[q][t].status # "NONE"
    <2> SUFFICES ASSUME NEW q \in Processes
                 PROVE  \A t \in DOMAIN writes'[q] :
                           /\ t \in Stored /\ writes'[q][t] \in TaskRow
                           /\ writes'[q][t].status # "NONE"
      OBVIOUS
    <2>1. CASE q = p
      BY <2>1 DEF StepOf
    <2>2. CASE q # p
      <3>1. writes'[q] = writes[q]
        BY <2>2 DEF StepOf
      <3>2. QED BY <3>1 DEF Shape, Listed, Types, TypeOK
    <2>3. QED BY <2>1, <2>2
  <1>2. Types'
    <2>1. \A q \in Processes :
             DOMAIN writes'[q] \subseteq Tasks
             /\ \A t \in DOMAIN writes'[q] : writes'[q][t] \in TaskRow
      BY <1>1 DEF Stored
    <2>2. DOMAIN writes' = Processes
      BY DEF StepOf
    <2>3. QED BY <2>1, <2>2 DEF Types, TypeOK, TypedStep
  <1>3. Listed'
    BY <1>1 DEF Listed
  <1>4. Employed'
    <2> SUFFICES ASSUME NEW v \in Workers
                 PROVE  /\ pc'[v] # "idle" => job'[v] \in Stored'
                        /\ pc'[v] \in {"claim_save", "output_save", "close"} =>
                              copy'[v].status # "NONE"
      BY DEF Employed
    <2>1. CASE v = p
      BY <2>1 DEF StepOf
    <2>2. CASE v # p
      <3>1. pc'[v] = pc[v] /\ job'[v] = job[v] /\ copy'[v] = copy[v]
        BY <2>2, Constants DEF StepOf
      <3>2. QED BY <3>1 DEF Shape, Employed
    <2>3. QED BY <2>1, <2>2
  <1>5. DependenciesPersisted'
    BY DEF Shape, DependenciesPersisted
  <1>6. QED BY <1>2, <1>3, <1>4, <1>5 DEF Shape

\* A task in the table without a process taking a step.
LEMMA TableKeepsShape ==
  ASSUME Shape, task' \in [Tasks -> TaskRow], Stored \subseteq Stored',
         UNCHANGED <<mission, pc, locals, runs, crashes>>,
         DependenciesPersisted'
  PROVE  Shape'
  <1>1. Types'
    BY DEF Shape, Types, TypeOK, locals
  <1>2. Listed'
    BY DEF Shape, Listed, locals
  <1>3. Employed'
    BY DEF Shape, Employed, locals
  <1>4. QED BY <1>1, <1>2, <1>3 DEF Shape

\* A worker that exits, and a task table without new tasks.
LEMMA ExitKeepsShape ==
  ASSUME Shape, NEW w \in Workers, Exit(w), Stored' = Stored,
         task' \in [Tasks -> TaskRow],
         UNCHANGED <<mission, runs>>, crashes' \in Nat
  PROVE  Shape' /\ StepOf(w)
  <1> USE Constants
  <1>1. Types
    BY DEF Shape
  <1>2. StepOf(w)
    BY <1>1, ExitShape DEF StepOf
  <1>3. TypedStep
    BY <1>1, ExitShape DEF TypedStep, Types, TypeOK
  <1>4. QED BY <1>2, <1>3, StepKeepsShape

\* add_tasks.
LEMMA AddTaskShape ==
  ASSUME Shape, NEW t \in Tasks, AddTask(t)
  PROVE  Shape'
  <1>1. Types
    BY DEF Shape
  <1>2. /\ task' \in [Tasks -> TaskRow] /\ task'[t] = NewTask
        /\ \A u \in Tasks : u # t => task'[u] = task[u]
    BY <1>1, SavedTyped, NewTaskIsRow DEF AddTask
  <1>3. Stored' = Stored \cup {t}
    BY <1>2, NewTaskIsRow DEF Stored
  <1>4. DependenciesPersisted'
    <2>1. Deps[t] \subseteq Stored
      BY DEF AddTask
    <2>2. QED BY <1>3, <2>1 DEF Shape, DependenciesPersisted
  <1>5. QED BY <1>2, <1>3, <1>4, TableKeepsShape DEF AddTask

\* Time passing.
LEMMA RetryDueShape ==
  ASSUME Shape, NEW t \in Tasks, RetryDue(t)
  PROVE  Shape' /\ \A u \in Tasks : /\ task'[u].status = task[u].status
                                   /\ task'[u].retries = task[u].retries
  <1> DEFINE r == [task[t] EXCEPT !.due = TRUE]
  <1>1. task[t] \in TaskRow /\ task' = [task EXCEPT ![t] = r]
    BY DEF Shape, Types, TypeOK, RetryDue
  <1>2. /\ r \in TaskRow /\ r.status = task[t].status
        /\ r.retries = task[t].retries
    BY <1>1 DEF TaskRow
  <1> HIDE DEF r
  <1>3. /\ task' \in [Tasks -> TaskRow] /\ task'[t] = r
        /\ \A u \in Tasks : u # t => task'[u] = task[u]
    BY <1>1, <1>2, SavedTyped DEF Shape
  <1>4. \A u \in Tasks : /\ task'[u].status = task[u].status
                         /\ task'[u].retries = task[u].retries
    BY <1>2, <1>3
  <1>5. Stored' = Stored
    BY <1>4 DEF Stored
  <1>6. DependenciesPersisted'
    BY <1>5 DEF Shape, DependenciesPersisted
  <1>7. QED BY <1>3, <1>4, <1>5, <1>6, TableKeepsShape DEF RetryDue

\* The start of dispatch_task and of _run_task.
LEMMA DispatchShape ==
  ASSUME Shape, NEW w \in Workers, NEW t \in Tasks,
         NEW by \in {"dispatch", "pipeline"}, Dispatch(w, t, by)
  PROVE  Shape' /\ StepOf(w)
  <1> USE Constants
  <1>1. Types /\ TypeOK
    BY DEF Shape, Types
  <1>2. PICK l \in {"refresh", "loop"} : Goto(w, l)
    BY DEF Dispatch
  <1>3. /\ pc' \in [Processes -> Labels] /\ pc'[w] = l
        /\ \A q \in Processes : q # w => pc'[q] = pc[q]
    BY <1>1, <1>2, GotoTyped DEF Labels
  <1>4. DOMAIN writes' = Processes /\ writes'[w] = ReadyRows
        /\ \A q \in Processes : q # w => writes'[q] = writes[q]
    BY <1>1 DEF Dispatch, Types
  <1>5. \A u \in DOMAIN writes'[w] :
           /\ u \in Stored /\ writes'[w][u] \in TaskRow
           /\ writes'[w][u].status # "NONE"
    BY <1>1, <1>4, ReadyRowsTyped
  <1>6. /\ job' \in [Workers -> Tasks \cup {0}] /\ job'[w] = t /\ t \in Stored
        /\ \A v \in Workers : v # w => job'[v] = job[v]
        /\ how' \in [Workers -> {"dispatch", "pipeline"}]
    BY <1>1 DEF Dispatch, TypeOK
  <1>7. StepOf(w)
    BY <1>2, <1>3, <1>4, <1>5, <1>6 DEF StepOf, Dispatch
  <1>8. TypedStep
    BY <1>1, <1>3, <1>6 DEF TypedStep, Dispatch, TypeOK
  <1>9. Stored' = Stored
    BY DEF Stored, Dispatch
  <1>10. QED BY <1>7, <1>8, <1>9, StepKeepsShape

\* One save of a loop: the row it saves, and the rows that are left.
LEMMA SaveNextFacts ==
  ASSUME Shape, NEW p \in Processes, SaveNext(p)
  PROVE  \E t \in DOMAIN writes[p] :
            /\ t \in Stored /\ writes[p][t] \in TaskRow
            /\ writes[p][t].status # "NONE"
            /\ task' = [task EXCEPT ![t] = writes[p][t]]
            /\ DOMAIN writes' = Processes
            /\ DOMAIN writes'[p] = DOMAIN writes[p] \ {t}
            /\ \A u \in DOMAIN writes'[p] : writes'[p][u] = writes[p][u]
            /\ \A q \in Processes : q # p => writes'[q] = writes[q]
  <1> DEFINE t == First(DOMAIN writes[p])
             left == [u \in DOMAIN writes[p] \ {t} |-> writes[p][u]]
  <1>1. t \in DOMAIN writes[p]
    <2>1. DOMAIN writes[p] \in SUBSET Tasks
      BY DEF Shape, Types, TypeOK
    <2>2. QED BY <2>1, FirstInSet DEF SaveNext
  <1>2. t \in Stored /\ writes[p][t] \in TaskRow /\ writes[p][t].status # "NONE"
    BY <1>1 DEF Shape, Listed, Types, TypeOK
  <1>3. /\ task' = [task EXCEPT ![t] = writes[p][t]]
        /\ writes' = [writes EXCEPT ![p] = left]
    BY DEF SaveNext
  <1>4. /\ DOMAIN left = DOMAIN writes[p] \ {t}
        /\ \A u \in DOMAIN left : left[u] = writes[p][u]
    OBVIOUS
  <1> HIDE DEF t, left
  <1>5. /\ DOMAIN writes' = Processes /\ writes'[p] = left
        /\ \A q \in Processes : q # p => writes'[q] = writes[q]
    BY <1>3 DEF Shape, Types
  <1>6. QED BY <1>1, <1>2, <1>3, <1>4, <1>5

\* One save of refresh_ready, recover_running or cancel_mission.
LEMMA SaveNextShape ==
  ASSUME Shape, NEW p \in Processes, SaveNext(p)
  PROVE  Shape' /\ StepOf(p)
  <1> USE Constants
  <1>1. Types /\ TypeOK
    BY DEF Shape, Types
  <1>2. PICK t \in DOMAIN writes[p] :
            /\ t \in Stored /\ writes[p][t] \in TaskRow
            /\ writes[p][t].status # "NONE"
            /\ task' = [task EXCEPT ![t] = writes[p][t]]
            /\ DOMAIN writes' = Processes
            /\ DOMAIN writes'[p] = DOMAIN writes[p] \ {t}
            /\ \A u \in DOMAIN writes'[p] : writes'[p][u] = writes[p][u]
            /\ \A q \in Processes : q # p => writes'[q] = writes[q]
    BY SaveNextFacts
  <1>3. task' \in [Tasks -> TaskRow] /\ Stored' = Stored
    BY <1>1, <1>2, SavedStored
  <1>4. UNCHANGED <<mission, pc, job, how, copy, runs, crashes>>
    BY DEF SaveNext
  <1>5. \A u \in DOMAIN writes'[p] :
           /\ u \in Stored /\ writes'[p][u] \in TaskRow
           /\ writes'[p][u].status # "NONE"
    <2>1. \A u \in DOMAIN writes[p] :
             /\ u \in Stored /\ writes[p][u] \in TaskRow
             /\ writes[p][u].status # "NONE"
      BY DEF Shape, Listed, Types, TypeOK
    <2>2. QED BY <1>2, <2>1
  <1>6. StepOf(p)
    BY <1>2, <1>4, <1>5 DEF StepOf, Shape, Employed
  <1>7. TypedStep
    BY <1>1, <1>3, <1>4 DEF TypedStep, TypeOK
  <1>8. QED BY <1>3, <1>6, <1>7, StepKeepsShape

\* A process moves on and keeps its locals and its task, or saves its task's row.
LEMMA MoveKeepsShape ==
  ASSUME Shape, NEW p \in Processes, NEW l \in Labels, Goto(p, l),
         l \notin {"claim_save", "output_save", "close"},
         p \in Workers => l = "idle" \/ job[p] \in Stored,
         task' \in [Tasks -> TaskRow], Stored' = Stored,
         UNCHANGED <<locals, crashes>>, runs' \in [Tasks -> Nat],
         mission' \in {"LIVE", "PAUSED", "CANCELLED"}
  PROVE  Shape' /\ StepOf(p)
  <1> USE Constants
  <1>1. Types /\ TypeOK
    BY DEF Shape, Types
  <1>2. /\ pc' \in [Processes -> Labels] /\ pc'[p] = l
        /\ \A q \in Processes : q # p => pc'[q] = pc[q]
    BY <1>1, GotoTyped
  <1>3. \A u \in DOMAIN writes'[p] :
           /\ u \in Stored /\ writes'[p][u] \in TaskRow
           /\ writes'[p][u].status # "NONE"
    BY DEF Shape, Listed, Types, TypeOK, locals
  <1>4. StepOf(p)
    BY <1>1, <1>2, <1>3 DEF StepOf, Types, locals
  <1>5. TypedStep
    BY <1>1, <1>2 DEF TypedStep, TypeOK, locals
  <1>6. QED BY <1>4, <1>5, StepKeepsShape

\* A worker takes a copy of a row to save it next.
LEMMA CopyKeepsShape ==
  ASSUME Shape, NEW w \in Workers, job[w] \in Stored,
         NEW l \in Labels, Goto(w, l),
         NEW r \in TaskRow, r.status # "NONE",
         copy' = [copy EXCEPT ![w] = r],
         UNCHANGED <<mission, task, writes, job, how, runs, crashes>>
  PROVE  Shape' /\ StepOf(w)
  <1> USE Constants
  <1>1. Types /\ TypeOK
    BY DEF Shape, Types
  <1>2. /\ pc' \in [Processes -> Labels] /\ pc'[w] = l
        /\ \A q \in Processes : q # w => pc'[q] = pc[q]
    BY <1>1, GotoTyped
  <1>3. /\ copy' \in [Workers -> TaskRow] /\ copy'[w] = r
        /\ \A v \in Workers : v # w => copy'[v] = copy[v]
    BY <1>1 DEF TypeOK
  <1>4. \A u \in DOMAIN writes'[w] :
           /\ u \in Stored /\ writes'[w][u] \in TaskRow
           /\ writes'[w][u].status # "NONE"
    BY DEF Shape, Listed, Types, TypeOK
  <1>5. StepOf(w)
    BY <1>1, <1>2, <1>3, <1>4 DEF StepOf, Types
  <1>6. TypedStep
    BY <1>1, <1>2, <1>3 DEF TypedStep, TypeOK
  <1>7. Stored' = Stored
    BY DEF Stored
  <1>8. QED BY <1>5, <1>6, <1>7, StepKeepsShape

\* Claim, the end of the loop, and how a task is closed.
LEMMA WorkerShape ==
  ASSUME Shape, NEW w \in Workers, Running(w)
  PROVE  Shape' /\ StepOf(w)
  <1> USE Constants
  <1>1. Types /\ TypeOK
    BY DEF Shape, Types
  <1>2. w \in Processes
    OBVIOUS
  <1>3. pc[w] # "idle" => job[w] \in Stored /\ job[w] \in Tasks
    BY DEF Shape, Employed, Stored
  <1>4. ASSUME UNCHANGED task
        PROVE  task' \in [Tasks -> TaskRow] /\ Stored' = Stored
    BY <1>1, <1>4 DEF TypeOK, Stored
  <1>5. ASSUME Exit(w), UNCHANGED <<mission, task, runs, crashes>>
        PROVE  Shape' /\ StepOf(w)
    <2>1. crashes' \in Nat
      BY <1>1, <1>5 DEF TypeOK
    <2>2. QED BY <1>4, <1>5, <2>1, ExitKeepsShape
  <1>6. CASE SaveNext(w)
    BY <1>6, SaveNextShape
  <1>7. CASE LoopDone(w)
    <2>1. CASE pc[w] = "refresh" /\ Goto(w, "claim") /\ UNCHANGED locals
      <3>1. UNCHANGED <<mission, task, runs, crashes>>
        BY <1>7 DEF LoopDone
      <3>2. "claim" \in Labels
        BY DEF Labels
      <3>3. QED BY <1>1, <1>3, <1>4, <2>1, <3>1, <3>2, MoveKeepsShape
                DEF TypeOK
    <2>2. CASE pc[w] = "loop" /\ Exit(w)
      BY <1>5, <1>7, <2>2 DEF LoopDone
    <2>3. QED BY <1>7, <2>1, <2>2 DEF LoopDone
  <1>8. CASE Claim(w)
    <2>1. CASE task[job[w]].status # "READY"
      BY <1>5, <1>8, <2>1 DEF Claim
    <2>2. CASE task[job[w]].status = "READY"
      <3> DEFINE r == [task[job[w]] EXCEPT !.status = "RUNNING"]
      <3>1. job[w] \in Stored /\ task[job[w]] \in TaskRow
        BY <1>1, <1>3, <1>8 DEF Claim, TypeOK
      <3>2. r \in TaskRow /\ r.status # "NONE"
        BY <3>1 DEF TaskRow, TaskStatus
      <3>3. /\ copy' = [copy EXCEPT ![w] = r] /\ Goto(w, "claim_save")
            /\ UNCHANGED <<mission, task, writes, job, how, runs, crashes>>
        BY <1>8, <2>2 DEF Claim
      <3> HIDE DEF r
      <3>4. "claim_save" \in Labels
        BY DEF Labels
      <3>5. QED BY <3>1, <3>2, <3>3, <3>4, CopyKeepsShape
    <2>3. QED BY <2>1, <2>2
  <1>9. ASSUME pc[w] \in {"claim_save", "output_save", "close"},
               task' = [task EXCEPT ![job[w]] = copy[w]]
        PROVE  task' \in [Tasks -> TaskRow] /\ Stored' = Stored
    <2>1. job[w] \in Stored /\ copy[w] \in TaskRow /\ copy[w].status # "NONE"
      BY <1>1, <1>9 DEF Shape, Employed, TypeOK
    <2>2. QED BY <1>1, <1>9, <2>1, SavedStored
  <1>10. CASE SaveClaim(w)
    <2>1. task' \in [Tasks -> TaskRow] /\ Stored' = Stored
      BY <1>9, <1>10 DEF SaveClaim
    <2>2. runs' \in [Tasks -> Nat]
      BY <1>1, <1>3, <1>10 DEF SaveClaim, TypeOK
    <2>3. "run" \in Labels
      BY DEF Labels
    <2>4. QED BY <1>1, <1>3, <1>10, <2>1, <2>2, <2>3, MoveKeepsShape
              DEF SaveClaim, TypeOK
  <1>11. CASE Work(w)
    <2>1. PICK l \in {"output", "succeed", "fail"} : Goto(w, l)
      BY <1>11 DEF Work
    <2>2. l \in Labels
      BY DEF Labels
    <2>3. QED BY <1>1, <1>3, <1>4, <1>11, <2>1, <2>2, MoveKeepsShape
              DEF Work, TypeOK
  <1>12. CASE ReadForOutput(w)
    <2>1. job[w] \in Stored /\ task[job[w]] \in TaskRow
      BY <1>1, <1>3, <1>12 DEF ReadForOutput, TypeOK
    <2>2. task[job[w]].status # "NONE"
      BY <2>1 DEF Stored
    <2>3. "output_save" \in Labels
      BY DEF Labels
    <2>4. QED BY <1>12, <2>1, <2>2, <2>3, CopyKeepsShape DEF ReadForOutput
  <1>13. CASE SaveOutput(w)
    <2>1. task' \in [Tasks -> TaskRow] /\ Stored' = Stored
      BY <1>9, <1>13 DEF SaveOutput
    <2>2. "succeed" \in Labels
      BY DEF Labels
    <2>3. QED BY <1>1, <1>3, <1>13, <2>1, <2>2, MoveKeepsShape
              DEF SaveOutput, TypeOK
  <1>14. ASSUME NEW r \in TaskRow, r.status # "NONE", pc[w] # "idle", Close(w, r)
         PROVE  Shape' /\ StepOf(w)
    <2>1. CASE task[job[w]].status # "RUNNING"
      BY <1>5, <1>14, <2>1 DEF Close
    <2>2. CASE task[job[w]].status = "RUNNING"
      <3>1. /\ copy' = [copy EXCEPT ![w] = r] /\ Goto(w, "close")
            /\ UNCHANGED <<mission, task, writes, job, how, runs, crashes>>
        BY <1>14, <2>2 DEF Close
      <3>2. "close" \in Labels
        BY DEF Labels
      <3>3. QED BY <1>3, <1>14, <3>1, <3>2, CopyKeepsShape
    <2>3. QED BY <2>1, <2>2
  <1>15. pc[w] # "idle" => task[job[w]] \in TaskRow
    BY <1>1, <1>3 DEF TypeOK
  <1>16. CASE Succeed(w)
    <2> DEFINE r == [task[job[w]] EXCEPT !.status = "SUCCEEDED", !.due = TRUE]
    <2>1. Close(w, r) /\ pc[w] # "idle"
      BY <1>16 DEF Succeed
    <2>2. r \in TaskRow /\ r.status # "NONE"
      BY <1>15, <2>1 DEF TaskRow, TaskStatus
    <2> HIDE DEF r
    <2>3. QED BY <1>14, <2>1, <2>2
  <1>17. CASE Fail(w)
    <2>1. PICK retryable \in BOOLEAN : Close(w, Failed(task[job[w]], retryable))
      BY <1>17 DEF Fail
    <2>2. pc[w] # "idle"
      BY <1>17 DEF Fail
    <2>3. /\ Failed(task[job[w]], retryable) \in TaskRow
          /\ Failed(task[job[w]], retryable).status # "NONE"
      BY <1>15, <2>2, FailedIsRow
    <2>4. QED BY <1>14, <2>1, <2>2, <2>3
  <1>18. CASE SaveClose(w)
    <2>1. task' \in [Tasks -> TaskRow] /\ Stored' = Stored
      BY <1>9, <1>18 DEF SaveClose
    <2>2. crashes' \in Nat
      BY <1>1, <1>18 DEF TypeOK, SaveClose
    <2>3. QED BY <1>18, <2>1, <2>2, ExitKeepsShape DEF SaveClose
  <1>19. QED BY <1>6, <1>7, <1>8, <1>10, <1>11, <1>12, <1>13, <1>16, <1>17,
                <1>18 DEF Running

\* The operator lists tasks for a loop.
LEMMA ListKeepsShape ==
  ASSUME Shape, NEW rows, DOMAIN rows \subseteq Stored,
         \A t \in DOMAIN rows : rows[t] \in TaskRow /\ rows[t].status # "NONE",
         writes' = [writes EXCEPT ![Operator] = rows],
         Goto(Operator, "loop"),
         UNCHANGED <<mission, task, job, how, copy, runs, crashes>>
  PROVE  Shape' /\ StepOf(Operator)
  <1> USE Constants
  <1>1. Types /\ TypeOK
    BY DEF Shape, Types
  <1>2. /\ pc' \in [Processes -> Labels] /\ pc'[Operator] = "loop"
        /\ \A q \in Processes : q # Operator => pc'[q] = pc[q]
    BY <1>1, GotoTyped DEF Labels
  <1>3. /\ DOMAIN writes' = Processes /\ writes'[Operator] = rows
        /\ \A q \in Processes : q # Operator => writes'[q] = writes[q]
    BY <1>1 DEF Types
  <1>4. StepOf(Operator)
    BY <1>2, <1>3 DEF StepOf
  <1>5. TypedStep
    BY <1>1, <1>2 DEF TypedStep, TypeOK
  <1>6. Stored' = Stored
    BY DEF Stored
  <1>7. QED BY <1>4, <1>5, <1>6, StepKeepsShape

\* Every command of the operator and every step of one.
LEMMA OperatorShape ==
  ASSUME Shape,
         (\E op \in Commands : Command(op) \/ ListTasks(op)) \/ OperatorStep
  PROVE  Shape' /\ StepOf(Operator)
  <1> USE Constants
  <1>1. Types /\ TypeOK
    BY DEF Shape, Types
  <1>2. ASSUME UNCHANGED task
        PROVE  task' \in [Tasks -> TaskRow] /\ Stored' = Stored
    BY <1>1, <1>2 DEF TypeOK, Stored
  <1>3. ASSUME NEW l \in {"idle", "pause_set", "resume_set", "cancel_set", "list"},
               Goto(Operator, l), UNCHANGED <<task, locals, runs, crashes>>,
               mission' \in {"LIVE", "PAUSED", "CANCELLED"}
        PROVE  Shape' /\ StepOf(Operator)
    <2>1. l \in Labels
      BY DEF Labels
    <2>2. QED BY <1>1, <1>2, <1>3, <2>1, MoveKeepsShape DEF TypeOK
  <1>4. ASSUME NEW op \in Commands, Command(op) PROVE Shape' /\ StepOf(Operator)
    BY <1>1, <1>3, <1>4 DEF Command, TypeOK
  <1>5. /\ DOMAIN ReadyRows \subseteq Stored
        /\ \A t \in DOMAIN ReadyRows :
              ReadyRows[t] \in TaskRow /\ ReadyRows[t].status # "NONE"
    BY <1>1, ReadyRowsTyped
  <1>6. /\ DOMAIN RecoverRows \subseteq Stored
        /\ \A t \in DOMAIN RecoverRows :
              RecoverRows[t] \in TaskRow /\ RecoverRows[t].status # "NONE"
    <2>1. \A t \in DOMAIN RecoverRows : task[t] \in TaskRow
      BY <1>1, RecoverRowsTyped DEF TypeOK
    <2>2. \A t \in DOMAIN RecoverRows : RecoverRows[t].status # "NONE"
      BY <1>1, <2>1, RecoverRowsTyped, FailedIsRow
    <2>3. QED BY <1>1, <2>2, RecoverRowsTyped
  <1>7. /\ DOMAIN CancelRows \subseteq Stored
        /\ \A t \in DOMAIN CancelRows :
              CancelRows[t] \in TaskRow /\ CancelRows[t].status # "NONE"
    BY <1>1, CancelRowsTyped
  <1>8. ASSUME NEW op \in Commands, ListTasks(op) PROVE Shape' /\ StepOf(Operator)
    BY <1>5, <1>6, <1>8, ListKeepsShape DEF ListTasks
  <1>9. CASE SetMission
    BY <1>3, <1>9 DEF SetMission
  <1>10. CASE ListAfterSet
    <2>1. CASE mission = "CANCELLED"
      BY <1>7, <1>10, <2>1, ListKeepsShape DEF ListAfterSet
    <2>2. CASE mission # "CANCELLED"
      BY <1>6, <1>10, <2>2, ListKeepsShape DEF ListAfterSet
    <2>3. QED BY <2>1, <2>2
  <1>11. CASE SaveNext(Operator)
    BY <1>11, SaveNextShape
  <1>12. CASE CommandDone
    BY <1>1, <1>3, <1>12 DEF CommandDone, TypeOK
  <1>13. QED BY <1>4, <1>8, <1>9, <1>10, <1>11, <1>12 DEF OperatorStep

\* A process that dies.
LEMMA CrashShape ==
  ASSUME Shape, NEW p \in Processes, Crash(p)
  PROVE  Shape' /\ StepOf(p)
  <1> USE Constants
  <1>1. Types /\ TypeOK
    BY DEF Shape, Types
  <1>2. task' \in [Tasks -> TaskRow] /\ Stored' = Stored /\ crashes' \in Nat
    BY <1>1 DEF TypeOK, Stored, Crash
  <1>3. CASE p \in Workers
    BY <1>2, <1>3, ExitKeepsShape DEF Crash
  <1>4. CASE p \notin Workers
    <2>1. /\ Goto(p, "idle") /\ writes' = [writes EXCEPT ![p] = NoWrites]
          /\ UNCHANGED <<mission, runs, job, how, copy>>
      BY <1>4 DEF Crash
    <2>2. /\ pc' \in [Processes -> Labels]
          /\ \A q \in Processes : q # p => pc'[q] = pc[q]
      BY <1>1, <2>1, GotoTyped DEF Labels
    <2>3. /\ DOMAIN writes' = Processes /\ DOMAIN writes'[p] = {}
          /\ \A q \in Processes : q # p => writes'[q] = writes[q]
      BY <1>1, <2>1 DEF Types, NoWrites
    <2>4. StepOf(p)
      BY <1>4, <2>1, <2>2, <2>3 DEF StepOf
    <2>5. TypedStep
      BY <1>1, <1>2, <2>1, <2>2 DEF TypedStep, TypeOK
    <2>6. QED BY <1>2, <2>4, <2>5, StepKeepsShape
  <1>5. QED BY <1>3, <1>4

\* Every step keeps the shape.
LEMMA NextKeepsShape == Shape /\ [Next]_vars => Shape'
  <1> SUFFICES ASSUME Shape, [Next]_vars PROVE Shape'
    OBVIOUS
  <1>1. CASE UNCHANGED vars
    <2>1. Types'
      BY <1>1 DEF vars, locals, Shape, Types, TypeOK
    <2>2. Listed' /\ Employed' /\ DependenciesPersisted'
      BY <1>1 DEF vars, locals, Shape, Listed, Employed,
                  DependenciesPersisted, Stored
    <2>3. QED BY <2>1, <2>2 DEF Shape
  <1>2. ASSUME NEW t \in Tasks, AddTask(t) \/ RetryDue(t) PROVE Shape'
    BY <1>2, AddTaskShape, RetryDueShape
  <1>3. ASSUME NEW w \in Workers, Running(w) PROVE Shape'
    BY <1>3, WorkerShape
  <1>4. ASSUME NEW w \in Workers, NEW t \in Tasks,
               NEW by \in {"dispatch", "pipeline"}, Dispatch(w, t, by)
        PROVE  Shape'
    BY <1>4, DispatchShape
  <1>5. CASE (\E op \in Commands : Command(op) \/ ListTasks(op)) \/ OperatorStep
    BY <1>5, OperatorShape
  <1>6. ASSUME NEW p \in Processes, Crash(p) PROVE Shape'
    BY <1>6, CrashShape
  <1>7. QED BY <1>1, <1>2, <1>3, <1>4, <1>5, <1>6 DEF Next

\* The shape is an invariant.
LEMMA ShapeAlways == Spec => []Shape
  BY InitShape, NextKeepsShape, PTL DEF Spec

\* The task table, the lists read from it and the rows under way are typed,
\* however processes overlap and wherever they die.
THEOREM TaskTypesCorrect == Spec => []TypeOK
  <1>1. Shape => TypeOK
    BY DEF Shape, Types
  <1>2. QED BY <1>1, ShapeAlways, PTL

\* A batch that add_tasks could not finish, any dispatch, recovery or
\* cancellation leaves no persisted task with a dependency that is not persisted.
THEOREM NoDanglingDependency == Spec => []DependenciesPersisted
  <1>1. Shape => DependenciesPersisted
    BY DEF Shape
  <1>2. QED BY <1>1, ShapeAlways, PTL

(***************************************************************************)
(* One process at a time                                                   *)
(***************************************************************************)
Alone ==
    \A p, q \in Processes : pc[p] # "idle" /\ pc[q] # "idle" => p = q

\* The ways a row of a persisted task may be rewritten: refresh_ready, claim,
\* succeed, fail and recover_running, cancel_mission, or a save that changes
\* neither its status nor its retries.
Change(a, b) ==
    \/ b.status = a.status /\ b.retries = a.retries
    \/ /\ a.status \in {"PENDING", "FAILED_RETRYABLE"} /\ b.status = "READY"
       /\ b.retries = a.retries
    \/ a.status = "READY" /\ b.status = "RUNNING" /\ b.retries = a.retries
    \/ a.status = "RUNNING" /\ b.status = "SUCCEEDED" /\ b.retries = a.retries
    \/ /\ a.status = "RUNNING"
       /\ b.status \in {"FAILED_RETRYABLE", "FAILED_PERMANENT"}
       /\ b.retries = a.retries + 1
       /\ b.status = "FAILED_RETRYABLE" => b.retries <= MaxRetries
    \/ /\ a.status \notin {"NONE", "SUCCEEDED", "CANCELLED"}
       /\ b.status = "CANCELLED" /\ b.retries = a.retries

\* A row that was computed before and is saved now still fits the table.
Fits(t, b) ==
    Change(task[t], b) /\ (b.status = "READY" => DependenciesDone(t))

\* Only a loop has a list, and the rows on it fit.
ListFits(p) ==
    /\ pc[p] \notin {"refresh", "loop"} => DOMAIN writes[p] = {}
    /\ \A t \in DOMAIN writes[p] :
          Fits(t, writes[p][t]) /\ writes[p][t].status # "RUNNING"

AtWork == {"run", "output", "output_save", "succeed", "fail", "close"}

\* From its claim to its end a worker's task is in the state the worker left it.
ClaimFits(w) ==
    /\ pc[w] = "claim_save" =>
          /\ task[job[w]].status = "READY" /\ copy[w].status = "RUNNING"
          /\ copy[w].retries = task[job[w]].retries
    /\ pc[w] \in AtWork => task[job[w]].status = "RUNNING"
    /\ pc[w] = "output_save" =>
          /\ copy[w].status = "RUNNING"
          /\ copy[w].retries = task[job[w]].retries
    /\ pc[w] = "close" =>
          /\ Change(task[job[w]], copy[w])
          /\ copy[w].status \notin {"RUNNING", "READY"}

\* The ledger of a task: it is READY or RUNNING on account of its dependencies,
\* and every run before the present one has used up a retry.
Ledger(t) ==
    /\ task[t].status \in {"READY", "RUNNING"} => DependenciesDone(t)
    /\ task[t].status = "NONE" => runs[t] = 0
    /\ task[t].status \in {"PENDING", "READY", "FAILED_RETRYABLE"} =>
          runs[t] <= task[t].retries /\ task[t].retries <= MaxRetries
    /\ task[t].status = "RUNNING" =>
          runs[t] <= task[t].retries + 1 /\ task[t].retries <= MaxRetries
    /\ runs[t] <= MaxRetries + 1

Turns ==
    /\ Shape /\ Alone
    /\ \A p \in Processes : ListFits(p)
    /\ \A w \in Workers : ClaimFits(w)
    /\ \A t \in Tasks : Ledger(t)

\* What a step may do to the table: add a task, or rewrite rows as Change allows,
\* the start of the work counted when the task begins to run.
TableStep ==
    \A t \in Tasks :
        /\ \/ task[t].status = "NONE" /\ task'[t] = NewTask
           \/ Change(task[t], task'[t])
        /\ task'[t].status = "READY" => DependenciesDone(t)
        /\ runs'[t] = IF task[t].status = "READY" /\ task'[t].status = "RUNNING"
                      THEN runs[t] + 1 ELSE runs[t]

\* Turns are how the initial state begins.
LEMMA InitTurns == Init => Turns
  <1> SUFFICES ASSUME Init PROVE Turns
    OBVIOUS
  <1>1. Shape
    BY InitShape
  <1>2. Alone
    BY DEF Init, Alone
  <1>3. ASSUME NEW p \in Processes PROVE ListFits(p)
    <2>1. DOMAIN writes[p] = {}
      BY DEF Init, NoWrites
    <2>2. QED BY <2>1 DEF ListFits
  <1>4. ASSUME NEW w \in Workers PROVE ClaimFits(w)
    <2>1. pc[w] = "idle"
      BY Constants DEF Init
    <2>2. QED BY <2>1 DEF ClaimFits, AtWork
  <1>5. ASSUME NEW t \in Tasks PROVE Ledger(t)
    <2>1. task[t].status = "NONE" /\ runs[t] = 0
      BY DEF Init, NewTask
    <2>2. QED BY <2>1, Constants DEF Ledger
  <1>6. QED BY <1>1, <1>2, <1>3, <1>4, <1>5 DEF Turns

\* What is done stays done.
LEMMA DoneStays ==
  ASSUME TableStep, NEW t \in Tasks, DependenciesDone(t)
  PROVE  DependenciesDone(t)'
  <1>1. ASSUME NEW d \in Tasks, task[d].status = "SUCCEEDED"
        PROVE  task'[d].status = "SUCCEEDED"
    BY <1>1 DEF TableStep, Change
  <1>2. Deps[t] \subseteq Tasks
    BY Constants
  <1>3. QED BY <1>1, <1>2 DEF DependenciesDone

\* A step on the table that Change allows keeps every ledger.
LEMMA LedgerKept ==
  ASSUME Turns, Shape', TableStep, NEW t \in Tasks
  PROVE  Ledger(t)'
  <1> USE Constants
  <1>1. Ledger(t)
    BY DEF Turns
  <1>2. /\ runs[t] \in Nat /\ task[t].retries \in Nat
        /\ runs'[t] \in Nat /\ task'[t].retries \in Nat
        /\ task'[t].status \in TaskStatus /\ task[t].status \in TaskStatus
    BY DEF Turns, Shape, Types, TypeOK, TaskRow
  <1>3. task'[t].status \in {"READY", "RUNNING"} => DependenciesDone(t)'
    <2>1. CASE task'[t].status = "READY"
      BY <2>1, DoneStays DEF TableStep
    <2>2. CASE task'[t].status = "RUNNING"
      <3>1. task[t].status \in {"READY", "RUNNING"}
        BY <2>2, NewTaskIsRow DEF TableStep, Change
      <3>2. QED BY <1>1, <3>1, DoneStays DEF Ledger
    <2>3. QED BY <2>1, <2>2
  <1>4. CASE task[t].status = "NONE" /\ task'[t] = NewTask
    <2>1. runs'[t] = 0 /\ task'[t].status = "PENDING" /\ task'[t].retries = 0
      BY <1>1, <1>4 DEF TableStep, Ledger, NewTask
    <2>2. QED BY <1>3, <2>1 DEF Ledger
  <1>5. CASE Change(task[t], task'[t])
    <2> DEFINE n == IF task[t].status = "READY" /\ task'[t].status = "RUNNING"
                    THEN runs[t] + 1 ELSE runs[t]
    <2>1. runs'[t] = n
      BY DEF TableStep
    <2>2. /\ task'[t].status = "NONE" => n = 0
          /\ task'[t].status \in {"PENDING", "READY", "FAILED_RETRYABLE"} =>
                n <= task'[t].retries /\ task'[t].retries <= MaxRetries
          /\ task'[t].status = "RUNNING" =>
                n <= task'[t].retries + 1 /\ task'[t].retries <= MaxRetries
          /\ n <= MaxRetries + 1
      BY <1>1, <1>2, <1>5 DEF Ledger, Change
    <2> HIDE DEF n
    <2>3. QED BY <1>3, <2>1, <2>2 DEF Ledger
  <1>6. QED BY <1>4, <1>5 DEF TableStep

\* A process takes a step in its turn: it answers for its own list and claim.
LEMMA TurnKept ==
  ASSUME Turns, Shape', NEW p \in Processes, StepOf(p), TableStep,
         \A q \in Processes : q # p => pc[q] = "idle",
         ListFits(p)', p \in Workers => ClaimFits(p)'
  PROVE  Turns'
  <1>1. \A q \in Processes : q # p => pc'[q] = "idle" /\ writes'[q] = writes[q]
    BY DEF StepOf
  <1>2. Alone'
    BY <1>1 DEF Alone
  <1>3. ASSUME NEW q \in Processes PROVE ListFits(q)'
    <2>1. CASE q = p
      BY <2>1
    <2>2. CASE q # p
      <3>1. DOMAIN writes[q] = {}
        BY <2>2 DEF Turns, ListFits
      <3>2. DOMAIN writes'[q] = {}
        BY <1>1, <2>2, <3>1
      <3>3. QED BY <3>2 DEF ListFits
    <2>3. QED BY <2>1, <2>2
  <1>4. ASSUME NEW w \in Workers PROVE ClaimFits(w)'
    <2>1. CASE w = p
      BY <2>1
    <2>2. CASE w # p
      <3>1. pc'[w] = "idle"
        BY <1>1, <2>2, Constants
      <3>2. QED BY <3>1 DEF ClaimFits, AtWork
    <2>3. QED BY <2>1, <2>2
  <1>5. ASSUME NEW t \in Tasks PROVE Ledger(t)'
    BY LedgerKept
  <1>6. QED BY <1>2, <1>3, <1>4, <1>5 DEF Turns

\* A step that leaves the table alone.
LEMMA TableSame ==
  ASSUME Turns, UNCHANGED <<task, runs>>
  PROVE  TableStep
  BY DEF Turns, Ledger, TableStep, Change

\* A step that saves one row that fits, and starts no work.
LEMMA TableSaved ==
  ASSUME Turns, NEW t \in Tasks, NEW r \in TaskRow, Fits(t, r),
         task[t].status = "READY" => r.status # "RUNNING",
         task' = [task EXCEPT ![t] = r], UNCHANGED runs
  PROVE  TableStep
  <1>1. task'[t] = r /\ \A u \in Tasks : u # t => task'[u] = task[u]
    BY SavedTyped DEF Turns, Shape
  <1>2. ASSUME NEW u \in Tasks
        PROVE  /\ Change(task[u], task'[u])
               /\ task'[u].status = "READY" => DependenciesDone(u)
               /\ ~(task[u].status = "READY" /\ task'[u].status = "RUNNING")
    <2>1. CASE u = t
      BY <1>1, <2>1 DEF Fits
    <2>2. CASE u # t
      BY <1>1, <2>2 DEF Turns, Ledger, Change
    <2>3. QED BY <2>1, <2>2
  <1>3. QED BY <1>2 DEF TableStep

\* A row that fits still fits when nothing but other tasks has changed.
LEMMA FitsStays ==
  ASSUME TableStep, NEW t \in Tasks, NEW r, Fits(t, r),
         task'[t].status = task[t].status, task'[t].retries = task[t].retries
  PROVE  Change(task'[t], r) /\ (r.status = "READY" => DependenciesDone(t)')
  <1>1. Change(task'[t], r)
    BY DEF Fits, Change
  <1>2. r.status = "READY" => DependenciesDone(t)'
    BY DoneStays DEF Fits
  <1>3. QED BY <1>1, <1>2

\* A new task, or time passing, in the middle of whatever process has its turn.
LEMMA TableTurns ==
  ASSUME Turns, NEW t \in Tasks, AddTask(t) \/ RetryDue(t)
  PROVE  Turns' /\ TableStep
  <1> USE Constants
  <1>1. Shape
    BY DEF Turns
  <1>2. Shape'
    BY <1>1, AddTaskShape, RetryDueShape
  <1>3. UNCHANGED <<mission, pc, locals, runs, crashes>>
    BY DEF AddTask, RetryDue
  <1>4. \A u \in Tasks : \/ task[u].status = "NONE" /\ task'[u] = NewTask
                         \/ /\ task'[u].status = task[u].status
                            /\ task'[u].retries = task[u].retries
    <2>1. CASE AddTask(t)
      BY <2>1 DEF AddTask, Turns, Shape, Types, TypeOK
    <2>2. CASE RetryDue(t)
      BY <1>1, <2>2, RetryDueShape
    <2>3. QED BY <2>1, <2>2
  <1>5. TableStep
    <2> SUFFICES ASSUME NEW u \in Tasks
                 PROVE  /\ \/ task[u].status = "NONE" /\ task'[u] = NewTask
                           \/ Change(task[u], task'[u])
                        /\ task'[u].status = "READY" => DependenciesDone(u)
                        /\ runs'[u] = IF task[u].status = "READY"
                                         /\ task'[u].status = "RUNNING"
                                      THEN runs[u] + 1 ELSE runs[u]
      BY DEF TableStep
    <2>1. CASE task[u].status = "NONE" /\ task'[u] = NewTask
      BY <1>3, <2>1, NewTaskIsRow
    <2>2. CASE /\ task'[u].status = task[u].status
               /\ task'[u].retries = task[u].retries
      BY <1>3, <2>2 DEF Turns, Ledger, Change
    <2>3. QED BY <1>4, <2>1, <2>2
  <1>6. \A u \in Stored : /\ u \in Tasks
                          /\ task'[u].status = task[u].status
                          /\ task'[u].retries = task[u].retries
    BY <1>4 DEF Stored
  <1>7. ASSUME NEW p \in Processes PROVE ListFits(p)'
    <2>1. \A u \in DOMAIN writes[p] : u \in Stored /\ Fits(u, writes[p][u])
      BY <1>1 DEF Turns, Shape, Listed, ListFits
    <2>2. \A u \in DOMAIN writes[p] : Fits(u, writes[p][u])'
      BY <1>3, <1>5, <1>6, <2>1, FitsStays DEF Fits, locals
    <2>3. QED BY <1>3, <2>2 DEF Turns, ListFits, locals
  <1>8. ASSUME NEW w \in Workers PROVE ClaimFits(w)'
    <2>1. CASE pc[w] = "idle"
      BY <1>3, <2>1 DEF ClaimFits, AtWork
    <2>2. CASE pc[w] # "idle"
      <3>1. job[w] \in Stored
        BY <1>1, <2>2 DEF Shape, Employed
      <3>2. /\ task'[job'[w]].status = task[job[w]].status
            /\ task'[job'[w]].retries = task[job[w]].retries
            /\ pc'[w] = pc[w] /\ copy'[w] = copy[w]
        BY <1>3, <1>6, <3>1 DEF locals
      <3>3. Change(task[job[w]], copy[w]) => Change(task'[job'[w]], copy'[w])
        BY <3>2 DEF Change
      <3>4. QED BY <3>2, <3>3 DEF Turns, ClaimFits
    <2>3. QED BY <2>1, <2>2
  <1>9. ASSUME NEW u \in Tasks PROVE Ledger(u)'
    BY <1>2, <1>5, LedgerKept
  <1>10. Alone'
    BY <1>3 DEF Turns, Alone
  <1>11. QED BY <1>2, <1>5, <1>7, <1>8, <1>9, <1>10 DEF Turns

\* A process in its turn is alone.
LEMMA OthersIdle ==
  ASSUME Turns, ~Overlap, NEW p \in Processes, pc[p] # "idle" \/ MayStart(p)
  PROVE  \A q \in Processes : q # p => pc[q] = "idle"
  BY DEF Turns, Alone, MayStart

\* A process without a list, between a claim and a claim's end or idle.
LEMMA NothingToFit ==
  ASSUME NEW p \in Processes, DOMAIN writes'[p] = {}
  PROVE  ListFits(p)'
  BY DEF ListFits

\* The rows of refresh_ready, recover_running and cancel_mission fit the table
\* they are computed from.
LEMMA RowsFit ==
  ASSUME Turns
  PROVE  /\ \A t \in DOMAIN ReadyRows :
               Fits(t, ReadyRows[t]) /\ ReadyRows[t].status # "RUNNING"
         /\ \A t \in DOMAIN RecoverRows :
               Fits(t, RecoverRows[t]) /\ RecoverRows[t].status # "RUNNING"
         /\ \A t \in DOMAIN CancelRows :
               Fits(t, CancelRows[t]) /\ CancelRows[t].status # "RUNNING"
  <1>1. TypeOK
    BY DEF Turns, Shape, Types
  <1>2. ASSUME NEW t \in DOMAIN ReadyRows
        PROVE  Fits(t, ReadyRows[t]) /\ ReadyRows[t].status # "RUNNING"
    <2>1. /\ t \in Candidates /\ ReadyRows[t].status = "READY"
          /\ ReadyRows[t].retries = task[t].retries
      BY <1>1, ReadyRowsTyped
    <2>2. /\ task[t].status \in {"PENDING", "FAILED_RETRYABLE"}
          /\ DependenciesDone(t)
      BY <2>1 DEF Candidates
    <2>3. QED BY <2>1, <2>2 DEF Fits, Change
  <1>3. ASSUME NEW t \in DOMAIN RecoverRows
        PROVE  Fits(t, RecoverRows[t]) /\ RecoverRows[t].status # "RUNNING"
    <2>1. /\ task[t].status = "RUNNING" /\ task[t] \in TaskRow
          /\ RecoverRows[t] = Failed(task[t], TRUE)
      BY <1>1, RecoverRowsTyped DEF TypeOK
    <2>2. QED BY <2>1, FailedIsRow DEF Fits, Change
  <1>4. ASSUME NEW t \in DOMAIN CancelRows
        PROVE  Fits(t, CancelRows[t]) /\ CancelRows[t].status # "RUNNING"
    <2>1. /\ task[t].status \notin {"SUCCEEDED", "CANCELLED"} /\ t \in Stored
          /\ CancelRows[t].status = "CANCELLED"
          /\ CancelRows[t].retries = task[t].retries
      BY <1>1, CancelRowsTyped
    <2>2. QED BY <2>1 DEF Fits, Change, Stored
  <1>5. QED BY <1>2, <1>3, <1>4

\* One save of a loop.
LEMMA SaveNextTurns ==
  ASSUME Turns, ~Overlap, NEW p \in Processes, SaveNext(p)
  PROVE  Turns' /\ TableStep
  <1> USE Constants
  <1>1. Shape /\ pc[p] # "idle"
    BY DEF Turns, SaveNext
  <1>2. Shape' /\ StepOf(p)
    BY <1>1, SaveNextShape
  <1>3. PICK t \in DOMAIN writes[p] :
            /\ t \in Stored /\ writes[p][t] \in TaskRow
            /\ writes[p][t].status # "NONE"
            /\ task' = [task EXCEPT ![t] = writes[p][t]]
            /\ DOMAIN writes' = Processes
            /\ DOMAIN writes'[p] = DOMAIN writes[p] \ {t}
            /\ \A u \in DOMAIN writes'[p] : writes'[p][u] = writes[p][u]
            /\ \A q \in Processes : q # p => writes'[q] = writes[q]
    BY <1>1, SaveNextFacts
  <1>4. t \in Tasks
    BY <1>3 DEF Stored
  <1>5. \A u \in DOMAIN writes[p] :
           Fits(u, writes[p][u]) /\ writes[p][u].status # "RUNNING"
    BY DEF Turns, ListFits
  <1>6. UNCHANGED <<pc, runs>>
    BY DEF SaveNext
  <1>7. TableStep
    BY <1>3, <1>4, <1>5, <1>6, TableSaved
  <1>8. \A u \in Tasks : u # t => task'[u] = task[u]
    BY <1>1, <1>3, <1>4, SavedTyped DEF Shape
  <1>9. ListFits(p)'
    <2>1. ASSUME NEW u \in DOMAIN writes'[p]
          PROVE  Fits(u, writes[p][u])' /\ writes'[p][u].status # "RUNNING"
      <3>1. /\ u \in Tasks /\ u # t /\ writes'[p][u] = writes[p][u]
            /\ Fits(u, writes[p][u]) /\ writes[p][u].status # "RUNNING"
        BY <1>1, <1>3, <1>5 DEF Shape, Listed, Stored
      <3>2. task'[u] = task[u]
        BY <1>8, <3>1
      <3>3. /\ Change(task'[u], writes[p][u])
            /\ writes[p][u].status = "READY" => DependenciesDone(u)'
        BY <1>7, <3>1, <3>2, FitsStays
      <3>4. QED BY <3>1, <3>3 DEF Fits
    <2>2. pc'[p] \in {"refresh", "loop"}
      BY <1>6 DEF SaveNext
    <2>3. QED BY <2>1, <2>2 DEF ListFits
  <1>10. p \in Workers => ClaimFits(p)'
    BY <1>6 DEF SaveNext, ClaimFits, AtWork
  <1>11. QED BY <1>1, <1>2, <1>7, <1>9, <1>10, OthersIdle, TurnKept

\* A worker that exits at a table that took an allowed step.
LEMMA ExitTurns ==
  ASSUME Turns, ~Overlap, NEW w \in Workers, pc[w] # "idle", Exit(w),
         Shape', StepOf(w), TableStep
  PROVE  Turns'
  <1> USE Constants
  <1>1. pc'[w] = "idle" /\ DOMAIN writes'[w] = {}
    BY ExitShape DEF Turns, Shape
  <1>2. ListFits(w)'
    BY <1>1, NothingToFit
  <1>3. ClaimFits(w)'
    BY <1>1 DEF ClaimFits, AtWork
  <1>4. QED BY <1>2, <1>3, OthersIdle, TurnKept

\* Every step of a worker under way.
LEMMA WorkerTurns ==
  ASSUME Turns, ~Overlap, NEW w \in Workers, Running(w)
  PROVE  Turns' /\ TableStep
  <1> USE Constants
  <1>1. Shape /\ Types /\ TypeOK
    BY DEF Turns, Shape, Types
  <1>2. Shape' /\ StepOf(w)
    BY <1>1, WorkerShape
  <1>3. CASE SaveNext(w)
    BY <1>3, SaveNextTurns
  <1>4. pc[w] # "idle"
    BY DEF Running, SaveNext, LoopDone, Claim, SaveClaim, Work, ReadForOutput,
           SaveOutput, Succeed, Fail, SaveClose
  <1>5. \A q \in Processes : q # w => pc[q] = "idle"
    BY <1>4, OthersIdle
  <1>6. job[w] \in Tasks /\ task[job[w]] \in TaskRow /\ copy[w] \in TaskRow
    BY <1>1, <1>4 DEF Shape, Employed, Stored, TypeOK
  <1>7. ASSUME Exit(w), UNCHANGED <<task, runs>>
        PROVE  Turns' /\ TableStep
    BY <1>2, <1>4, <1>7, ExitTurns, TableSame
  <1>8. ASSUME NEW l \in Labels, Goto(w, l), UNCHANGED writes,
               DOMAIN writes[w] = {}, TableStep, ClaimFits(w)'
        PROVE  Turns' /\ TableStep
    <2>1. ListFits(w)'
      BY <1>8, NothingToFit
    <2>2. QED BY <1>2, <1>5, <1>8, <2>1, TurnKept
  <1>9. ASSUME NEW l \in Labels, Goto(w, l) PROVE pc'[w] = l
    BY <1>1, <1>9, GotoTyped
  <1>10. {"claim", "claim_save", "run", "output", "output_save", "succeed",
          "fail", "close"} \subseteq Labels
    BY DEF Labels
  <1>11. pc[w] \notin {"refresh", "loop"} => DOMAIN writes[w] = {}
    BY DEF Turns, ListFits
  <1>12. CASE LoopDone(w)
    <2>1. CASE pc[w] = "refresh" /\ Goto(w, "claim") /\ UNCHANGED locals
      <3>1. pc'[w] = "claim"
        BY <1>9, <1>10, <2>1
      <3>2. ClaimFits(w)'
        BY <3>1 DEF ClaimFits, AtWork
      <3>3. TableStep
        BY <1>12, TableSame DEF LoopDone
      <3>4. QED BY <1>8, <1>10, <1>12, <2>1, <3>2, <3>3 DEF LoopDone, locals
    <2>2. CASE pc[w] = "loop" /\ Exit(w)
      BY <1>7, <1>12, <2>2 DEF LoopDone
    <2>3. QED BY <1>12, <2>1, <2>2 DEF LoopDone
  <1>13. CASE Claim(w)
    <2>1. CASE task[job[w]].status # "READY"
      BY <1>7, <1>13, <2>1 DEF Claim
    <2>2. CASE task[job[w]].status = "READY"
      <3>1. /\ copy' = [copy EXCEPT
                   ![w] = [task[job[w]] EXCEPT !.status = "RUNNING"]]
            /\ Goto(w, "claim_save")
            /\ UNCHANGED <<task, writes, job, how, runs>>
            /\ pc[w] = "claim"
        BY <1>13, <2>2 DEF Claim
      <3>2. /\ copy'[w].status = "RUNNING"
            /\ copy'[w].retries = task[job[w]].retries
        BY <1>1, <1>6, <3>1 DEF TypeOK, TaskRow
      <3>3. pc'[w] = "claim_save"
        BY <1>9, <1>10, <3>1
      <3>4. ClaimFits(w)'
        BY <2>2, <3>1, <3>2, <3>3 DEF ClaimFits, AtWork
      <3>5. TableStep
        BY <3>1, TableSame
      <3>6. QED BY <1>8, <1>10, <1>11, <3>1, <3>4, <3>5
    <2>3. QED BY <2>1, <2>2
  <1>14. CASE SaveClaim(w)
    <2>1. /\ pc[w] = "claim_save" /\ Goto(w, "run") /\ UNCHANGED locals
          /\ task' = [task EXCEPT ![job[w]] = copy[w]]
          /\ runs' = [runs EXCEPT ![job[w]] = @ + 1]
      BY <1>14 DEF SaveClaim
    <2>2. /\ task[job[w]].status = "READY" /\ copy[w].status = "RUNNING"
          /\ copy[w].retries = task[job[w]].retries
      BY <2>1 DEF Turns, ClaimFits
    <2>3. /\ task'[job[w]] = copy[w]
          /\ \A u \in Tasks : u # job[w] => task'[u] = task[u]
      BY <1>1, <1>6, <2>1, SavedTyped
    <2>4. /\ runs'[job[w]] = runs[job[w]] + 1
          /\ \A u \in Tasks : u # job[w] => runs'[u] = runs[u]
      BY <1>1, <1>6, <2>1 DEF TypeOK
    <2>5. TableStep
      <3>1. ASSUME NEW u \in Tasks
            PROVE  /\ Change(task[u], task'[u])
                   /\ task'[u].status = "READY" => DependenciesDone(u)
                   /\ runs'[u] = IF task[u].status = "READY"
                                    /\ task'[u].status = "RUNNING"
                                 THEN runs[u] + 1 ELSE runs[u]
        <4>1. CASE u = job[w]
          BY <2>2, <2>3, <2>4, <4>1 DEF Change
        <4>2. CASE u # job[w]
          BY <2>3, <2>4, <4>2 DEF Change, Turns, Ledger
        <4>3. QED BY <4>1, <4>2
      <3>2. QED BY <3>1 DEF TableStep
    <2>6. ClaimFits(w)'
      <3>1. pc'[w] = "run" /\ task'[job'[w]].status = "RUNNING"
        BY <1>9, <1>10, <2>1, <2>2, <2>3 DEF locals
      <3>2. QED BY <3>1 DEF ClaimFits
    <2>7. QED BY <1>8, <1>10, <1>11, <2>1, <2>5, <2>6 DEF locals
  <1>15. pc[w] \in AtWork => task[job[w]].status = "RUNNING"
    BY DEF Turns, ClaimFits
  <1>16. CASE Work(w)
    <2>1. PICK l \in {"output", "succeed", "fail"} : Goto(w, l)
      BY <1>16 DEF Work
    <2>2. pc[w] = "run" /\ UNCHANGED <<task, locals, runs>>
      BY <1>16 DEF Work
    <2>3. pc'[w] = l /\ l \in Labels
      BY <1>9, <1>10, <2>1
    <2>4. ClaimFits(w)'
      BY <1>15, <2>2, <2>3 DEF ClaimFits, AtWork, locals
    <2>5. TableStep
      BY <2>2, TableSame
    <2>6. QED BY <1>8, <1>11, <2>1, <2>2, <2>3, <2>4, <2>5 DEF locals
  <1>17. CASE ReadForOutput(w)
    <2>1. /\ pc[w] = "output" /\ Goto(w, "output_save")
          /\ copy' = [copy EXCEPT ![w] = task[job[w]]]
          /\ UNCHANGED <<task, writes, job, runs>>
      BY <1>17 DEF ReadForOutput
    <2>2. pc'[w] = "output_save" /\ copy'[w] = task[job[w]]
      BY <1>1, <1>9, <1>10, <2>1 DEF TypeOK
    <2>3. ClaimFits(w)'
      BY <1>15, <2>1, <2>2 DEF ClaimFits, AtWork
    <2>4. TableStep
      BY <2>1, TableSame
    <2>5. QED BY <1>8, <1>10, <1>11, <2>1, <2>3, <2>4
  <1>18. CASE SaveOutput(w)
    <2>1. /\ pc[w] = "output_save" /\ Goto(w, "succeed") /\ UNCHANGED locals
          /\ task' = [task EXCEPT ![job[w]] = copy[w]] /\ UNCHANGED runs
      BY <1>18 DEF SaveOutput
    <2>2. /\ copy[w].status = "RUNNING" /\ task[job[w]].status = "RUNNING"
          /\ copy[w].retries = task[job[w]].retries
      BY <1>15, <2>1 DEF Turns, ClaimFits, AtWork
    <2>3. Fits(job[w], copy[w])
      BY <2>2 DEF Fits, Change
    <2>4. TableStep
      BY <1>6, <2>1, <2>2, <2>3, TableSaved
    <2>5. task'[job'[w]] = copy[w]
      BY <1>1, <1>6, <2>1, SavedTyped DEF locals
    <2>6. pc'[w] = "succeed"
      BY <1>9, <1>10, <2>1
    <2>7. ClaimFits(w)'
      BY <2>2, <2>5, <2>6 DEF ClaimFits
    <2>8. QED BY <1>8, <1>10, <1>11, <2>1, <2>4, <2>7 DEF locals
  <1>19. ASSUME NEW r \in TaskRow, Close(w, r), pc[w] \in {"succeed", "fail"},
                task[job[w]].status = "RUNNING" => Change(task[job[w]], r),
                r.status \notin {"RUNNING", "READY"}
         PROVE  Turns' /\ TableStep
    <2>1. task[job[w]].status = "RUNNING"
      BY <1>15, <1>19 DEF AtWork
    <2>2. /\ copy' = [copy EXCEPT ![w] = r] /\ Goto(w, "close")
          /\ UNCHANGED <<task, writes, job, runs>>
      BY <1>19, <2>1 DEF Close
    <2>3. pc'[w] = "close" /\ copy'[w] = r
      BY <1>1, <1>9, <1>10, <2>2 DEF TypeOK
    <2>4. ClaimFits(w)'
      BY <1>19, <2>1, <2>2, <2>3 DEF ClaimFits
    <2>5. TableStep
      BY <2>2, TableSame
    <2>6. QED BY <1>8, <1>10, <1>11, <1>19, <2>2, <2>4, <2>5
  <1>20. CASE Succeed(w)
    <2> DEFINE r == [task[job[w]] EXCEPT !.status = "SUCCEEDED", !.due = TRUE]
    <2>1. Close(w, r) /\ pc[w] = "succeed"
      BY <1>20 DEF Succeed
    <2>2. /\ r \in TaskRow /\ r.status = "SUCCEEDED"
          /\ r.retries = task[job[w]].retries
      BY <1>6 DEF TaskRow, TaskStatus
    <2> HIDE DEF r
    <2>3. task[job[w]].status = "RUNNING" => Change(task[job[w]], r)
      BY <2>2 DEF Change
    <2>4. QED BY <1>19, <2>1, <2>2, <2>3
  <1>21. CASE Fail(w)
    <2>1. PICK retryable \in BOOLEAN : Close(w, Failed(task[job[w]], retryable))
      BY <1>21 DEF Fail
    <2> DEFINE r == Failed(task[job[w]], retryable)
    <2>2. /\ r \in TaskRow
          /\ r.status \in {"FAILED_RETRYABLE", "FAILED_PERMANENT"}
          /\ r.retries = task[job[w]].retries + 1
          /\ r.status = "FAILED_RETRYABLE" => r.retries <= MaxRetries
      BY <1>6, FailedIsRow
    <2>3. Close(w, r) /\ pc[w] = "fail"
      BY <1>21, <2>1 DEF Fail
    <2> HIDE DEF r
    <2>4. task[job[w]].status = "RUNNING" => Change(task[job[w]], r)
      BY <2>2 DEF Change
    <2>5. QED BY <1>19, <2>2, <2>3, <2>4
  <1>22. CASE SaveClose(w)
    <2>1. /\ pc[w] = "close" /\ task' = [task EXCEPT ![job[w]] = copy[w]]
          /\ Exit(w) /\ UNCHANGED runs
      BY <1>22 DEF SaveClose
    <2>2. /\ Change(task[job[w]], copy[w])
          /\ copy[w].status \notin {"RUNNING", "READY"}
      BY <2>1 DEF Turns, ClaimFits
    <2>3. TableStep
      BY <1>6, <2>1, <2>2, TableSaved DEF Fits
    <2>4. QED BY <1>2, <1>4, <2>1, <2>3, ExitTurns
  <1>23. QED BY <1>3, <1>12, <1>13, <1>14, <1>16, <1>17, <1>18, <1>20, <1>21,
                <1>22 DEF Running

\* The start of dispatch_task and of _run_task.
LEMMA DispatchTurns ==
  ASSUME Turns, ~Overlap, NEW w \in Workers, NEW t \in Tasks,
         NEW by \in {"dispatch", "pipeline"}, Dispatch(w, t, by)
  PROVE  Turns' /\ TableStep
  <1> USE Constants
  <1>1. Shape /\ Types
    BY DEF Turns, Shape
  <1>2. Shape' /\ StepOf(w)
    BY <1>1, DispatchShape
  <1>3. TableStep
    BY TableSame DEF Dispatch
  <1>4. PICK l \in {"refresh", "loop"} : Goto(w, l)
    BY DEF Dispatch
  <1>5. pc'[w] \in {"refresh", "loop"}
    BY <1>1, <1>4, GotoTyped DEF Labels
  <1>6. writes'[w] = ReadyRows /\ UNCHANGED task
    BY <1>1 DEF Dispatch, Types
  <1>7. ListFits(w)'
    <2>1. \A u \in DOMAIN writes'[w] :
             Fits(u, writes[w][u])' /\ writes'[w][u].status # "RUNNING"
      BY <1>6, RowsFit DEF Fits, DependenciesDone
    <2>2. QED BY <1>5, <2>1 DEF ListFits
  <1>8. ClaimFits(w)'
    BY <1>5 DEF ClaimFits, AtWork
  <1>9. \A q \in Processes : q # w => pc[q] = "idle"
    BY OthersIdle DEF Dispatch
  <1>10. QED BY <1>2, <1>3, <1>7, <1>8, <1>9, TurnKept

\* Every command of the operator and every step of one.
LEMMA OperatorTurns ==
  ASSUME Turns, ~Overlap,
         (\E op \in Commands : Command(op) \/ ListTasks(op)) \/ OperatorStep
  PROVE  Turns' /\ TableStep
  <1> USE Constants
  <1>1. Shape /\ Types
    BY DEF Turns, Shape
  <1>2. Shape' /\ StepOf(Operator)
    BY <1>1, OperatorShape
  <1>3. CASE SaveNext(Operator)
    BY <1>3, SaveNextTurns
  <1>4. \A q \in Processes : q # Operator => pc[q] = "idle"
    <2>1. pc[Operator] # "idle" \/ MayStart(Operator)
      BY DEF Command, ListTasks, OperatorStep, SetMission, ListAfterSet,
             SaveNext, CommandDone
    <2>2. QED BY <2>1, OthersIdle
  <1>5. ASSUME UNCHANGED <<task, runs>>, ListFits(Operator)'
        PROVE  Turns' /\ TableStep
    BY <1>2, <1>4, <1>5, TurnKept, TableSame
  <1>6. ASSUME UNCHANGED <<task, locals, runs>>, DOMAIN writes[Operator] = {}
        PROVE  Turns' /\ TableStep
    <2>1. ListFits(Operator)'
      BY <1>6, NothingToFit DEF locals
    <2>2. QED BY <1>5, <1>6, <2>1
  <1>7. ASSUME NEW rows, writes' = [writes EXCEPT ![Operator] = rows],
               \A t \in DOMAIN rows :
                  Fits(t, rows[t]) /\ rows[t].status # "RUNNING",
               Goto(Operator, "loop"), UNCHANGED <<task, runs>>
        PROVE  Turns' /\ TableStep
    <2>1. pc'[Operator] = "loop"
      BY <1>1, <1>7, GotoTyped DEF Labels
    <2>2. writes'[Operator] = rows
      BY <1>1, <1>7 DEF Types
    <2>3. \A t \in DOMAIN writes'[Operator] :
             /\ Fits(t, writes[Operator][t])'
             /\ writes'[Operator][t].status # "RUNNING"
      BY <1>7, <2>2 DEF Fits, DependenciesDone
    <2>4. ListFits(Operator)'
      BY <2>1, <2>3 DEF ListFits
    <2>5. QED BY <1>5, <1>7, <2>4
  <1>8. pc[Operator] \notin {"refresh", "loop"} => DOMAIN writes[Operator] = {}
    BY DEF Turns, ListFits
  <1>9. ASSUME NEW op \in Commands, Command(op) PROVE Turns' /\ TableStep
    BY <1>6, <1>8, <1>9 DEF Command, MayStart
  <1>10. ASSUME NEW op \in Commands, ListTasks(op) PROVE Turns' /\ TableStep
    BY <1>7, <1>10, RowsFit DEF ListTasks
  <1>11. CASE SetMission
    BY <1>6, <1>8, <1>11 DEF SetMission
  <1>12. CASE ListAfterSet
    <2>1. CASE mission = "CANCELLED"
      BY <1>7, <1>12, <2>1, RowsFit DEF ListAfterSet
    <2>2. CASE mission # "CANCELLED"
      BY <1>7, <1>12, <2>2, RowsFit DEF ListAfterSet
    <2>3. QED BY <2>1, <2>2
  <1>13. CASE CommandDone
    BY <1>6, <1>13 DEF CommandDone
  <1>14. QED BY <1>3, <1>9, <1>10, <1>11, <1>12, <1>13 DEF OperatorStep

\* A process that dies in its turn leaves the table as it is.
LEMMA CrashTurns ==
  ASSUME Turns, ~Overlap, NEW p \in Processes, Crash(p)
  PROVE  Turns' /\ TableStep
  <1> USE Constants
  <1>1. Shape /\ Types
    BY DEF Turns, Shape
  <1>2. Shape' /\ StepOf(p)
    BY <1>1, CrashShape
  <1>3. TableStep
    BY TableSame DEF Crash
  <1>4. pc[p] # "idle"
    BY DEF Crash
  <1>5. CASE p \in Workers
    BY <1>2, <1>3, <1>4, <1>5, ExitTurns DEF Crash
  <1>6. CASE p \notin Workers
    <2>1. DOMAIN writes'[p] = {}
      BY <1>1, <1>6 DEF Crash, Types, NoWrites
    <2>2. ListFits(p)'
      BY <2>1, NothingToFit
    <2>3. QED BY <1>2, <1>3, <1>4, <1>6, <2>2, OthersIdle, TurnKept
  <1>7. QED BY <1>3, <1>5, <1>6

\* Every step of a system whose processes take turns.
LEMMA NextKeepsTurns ==
  ASSUME ~Overlap
  PROVE  Turns /\ [Next]_vars => Turns' /\ TableStep
  <1> SUFFICES ASSUME Turns, [Next]_vars PROVE Turns' /\ TableStep
    OBVIOUS
  <1>1. CASE UNCHANGED vars
    <2>1. Shape'
      BY <1>1, NextKeepsShape DEF Turns
    <2>2. Alone' /\ \A p \in Processes : ListFits(p)'
      BY <1>1 DEF vars, locals, Turns, Alone, ListFits, Fits, DependenciesDone
    <2>3. /\ \A w \in Workers : ClaimFits(w)'
          /\ \A t \in Tasks : Ledger(t)'
      BY <1>1 DEF vars, locals, Turns, ClaimFits, Ledger, DependenciesDone
    <2>4. TableStep
      BY <1>1, TableSame DEF vars
    <2>5. QED BY <2>1, <2>2, <2>3, <2>4 DEF Turns
  <1>2. ASSUME NEW t \in Tasks, AddTask(t) \/ RetryDue(t)
        PROVE  Turns' /\ TableStep
    BY <1>2, TableTurns
  <1>3. ASSUME NEW w \in Workers, Running(w) PROVE Turns' /\ TableStep
    BY <1>3, WorkerTurns
  <1>4. ASSUME NEW w \in Workers, NEW t \in Tasks,
               NEW by \in {"dispatch", "pipeline"}, Dispatch(w, t, by)
        PROVE  Turns' /\ TableStep
    BY <1>4, DispatchTurns
  <1>5. CASE (\E op \in Commands : Command(op) \/ ListTasks(op)) \/ OperatorStep
    BY <1>5, OperatorTurns
  <1>6. ASSUME NEW p \in Processes, Crash(p) PROVE Turns' /\ TableStep
    BY <1>6, CrashTurns
  <1>7. QED BY <1>1, <1>2, <1>3, <1>4, <1>5, <1>6 DEF Next

\* The invariant of a system whose processes take turns.
LEMMA TurnsAlways ==
  ASSUME ~Overlap
  PROVE  Spec => []Turns
  <1>1. Turns /\ [Next]_vars => Turns'
    BY NextKeepsTurns
  <1>2. QED BY <1>1, InitTurns, PTL DEF Spec

\* One process at a time, each of them dying anywhere and any command given in
\* between: the work of a task is started at most 1 + max_retries times, because
\* every start but the present one has used up a retry.
THEOREM RetryLimitHolds ==
  ASSUME ~Overlap
  PROVE  Spec => []RunsWithinRetries
  <1>1. Turns => RunsWithinRetries
    BY DEF Turns, Ledger, RunsWithinRetries
  <1>2. QED BY <1>1, TurnsAlways, PTL

\* One process at a time: what a task depends on has succeeded before the task
\* is worked on and is not taken back while it is.
THEOREM DependenciesFirst ==
  ASSUME ~Overlap
  PROVE  Spec => []RunsAfterDependencies
  <1>1. Turns => RunsAfterDependencies
    <2> SUFFICES ASSUME Turns, NEW w \in Workers, pc[w] \in AtWork
                 PROVE  \A d \in Deps[job[w]] : task[d].status = "SUCCEEDED"
      BY DEF RunsAfterDependencies, AtWork
    <2>1. task[job[w]].status = "RUNNING"
      BY DEF Turns, ClaimFits
    <2>2. job[w] \in Tasks
      BY DEF Turns, Shape, Employed, Stored, AtWork
    <2>3. DependenciesDone(job[w])
      BY <2>1, <2>2 DEF Turns, Ledger
    <2>4. QED BY <2>3 DEF DependenciesDone
  <1>2. QED BY <1>1, TurnsAlways, PTL

\* One process at a time: no save of refresh_ready, claim, succeed, fail,
\* recover_running or cancel_mission takes back a task that has ended, except
\* that a cancellation marks permanent failures CANCELLED.
THEOREM EndsStay ==
  ASSUME ~Overlap
  PROVE  Spec => EndedIsFinal
  <1> DEFINE Stays ==
        \A t \in Tasks :
          task[t].status \in {"SUCCEEDED", "FAILED_PERMANENT", "CANCELLED"} =>
              \/ task'[t].status = task[t].status
              \/ task[t].status = "FAILED_PERMANENT"
                 /\ task'[t].status = "CANCELLED"
  <1>1. Turns /\ [Next]_vars => Stays
    <2>1. TableStep => Stays
      BY DEF TableStep, Change
    <2>2. QED BY <2>1, NextKeepsTurns
  <1>2. Turns /\ [Next]_vars => [Stays]_vars
    BY <1>1
  <1>3. QED BY <1>2, TurnsAlways, PTL DEF Spec, EndedIsFinal
=============================================================================
