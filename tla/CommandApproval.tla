--------------------------- MODULE CommandApproval --------------------------
(***************************************************************************)
(* CommandApprovalService: commands that need a person's yes before they   *)
(* run.  A request is a row; every operation reads it into a copy (get,    *)
(* which resolves a stale PENDING to EXPIRED first) and saves the whole    *)
(* copy in a later transaction.                                            *)
(*                                                                         *)
(* A request is its number in the table; a command is no more than its     *)
(* category.  propose runs classify_command first: a forbidden command     *)
(* leaves no row, and so no step here.                                     *)
(***************************************************************************)
EXTENDS Naturals, FiniteSets

CONSTANTS
    Workers,       \* processes that use the service
    Overlap,       \* TRUE: they run at the same time
    Categories,    \* categories of commands
    MaxRequests,   \* bound: requests that are made
    MaxRuns,       \* bound: executions of one command
    MaxCrashes     \* bound: workers that die between two transactions

ASSUME ApprovalAssumption ==
    /\ Overlap \in BOOLEAN
    /\ MaxRequests \in Nat /\ MaxRuns \in Nat /\ MaxCrashes \in Nat

VARIABLES
    count,         \* rows of proposed_commands: requests 1..count
    category,      \* the category of each
    checked,       \* whether it came through propose_unless_blocked
    status,        \* its status; NONE for a row that does not exist yet
    overdue,       \* the requests whose expires_at has passed
    runs,          \* how often its command was executed
    pc,            \* idle, or what the worker saves or calls next
    op,            \* the operation it carries out
    req,           \* the request in its hands; 0 for none
    cat,           \* the category it proposes a command in
    crashes        \* workers that died so far

table == <<count, category, checked, status>>
work == <<pc, op, req, cat>>
vars == <<table, overdue, runs, work, crashes>>

Requests == 1..MaxRequests
Status == {"PENDING", "GRANTED", "DENIED", "EXPIRED"}
Operations == {"none", "get", "grant", "deny", "execute", "propose",
               "propose_unless_blocked"}

TypeOK ==
    /\ count \in 0..MaxRequests
    /\ category \in [Requests -> Categories \cup {"none"}]
    /\ checked \in [Requests -> BOOLEAN]
    /\ status \in [Requests -> Status \cup {"NONE"}]
    /\ \A i \in Requests : status[i] = "NONE" <=> i > count
    /\ overdue \subseteq 1..count
    /\ runs \in [Requests -> 0..MaxRuns]
    /\ pc \in [Workers -> {"idle", "expire", "act"}]
    /\ op \in [Workers -> Operations]
    /\ req \in [Workers -> 0..MaxRequests]
    /\ cat \in [Workers -> Categories \cup {"none"}]
    /\ crashes \in 0..MaxCrashes

Init ==
    /\ count = 0
    /\ category = [i \in Requests |-> "none"]
    /\ checked = [i \in Requests |-> FALSE]
    /\ status = [i \in Requests |-> "NONE"]
    /\ overdue = {} /\ runs = [i \in Requests |-> 0]
    /\ pc = [w \in Workers |-> "idle"]
    /\ op = [w \in Workers |-> "none"]
    /\ req = [w \in Workers |-> 0]
    /\ cat = [w \in Workers |-> "none"]
    /\ crashes = 0

(***************************************************************************)
(* Reading                                                                 *)
(***************************************************************************)
MayStart(w) ==
    pc[w] = "idle" /\ (Overlap \/ \A v \in Workers : pc[v] = "idle")

\* Mutant: execute_if_granted refuses only what was denied or expired.
ProceedsUnlessRefused(o, s) ==
    CASE o \in {"grant", "deny"} -> s = "PENDING"
      [] o = "execute" -> s \notin {"DENIED", "EXPIRED"}
      [] o = "propose_unless_blocked" -> s \notin {"PENDING", "DENIED"}
      [] OTHER -> FALSE

\* Mutant: only a pending request blocks its category.
ProceedsAfterDenial(o, s) ==
    CASE o \in {"grant", "deny"} -> s = "PENDING"
      [] o = "execute" -> s = "GRANTED"
      [] o = "propose_unless_blocked" -> s # "PENDING"
      [] OTHER -> FALSE

\* Whether an operation goes on after a get that returned status s: grant and
\* deny raise CommandNotPending (or, for deny, have nothing to do), execute
\* raises CommandNotGranted, propose_unless_blocked raises CategoryBlocked.
Proceeds(o, s) ==
    CASE o \in {"grant", "deny"} -> s = "PENDING"
      [] o = "execute" -> s = "GRANTED"
      [] o = "propose_unless_blocked" -> s \notin {"PENDING", "DENIED"}
      [] OTHER -> FALSE

Begin(w, label, o, i, c) ==
    /\ pc' = [pc EXCEPT ![w] = label]
    /\ op' = [op EXCEPT ![w] = o]
    /\ req' = [req EXCEPT ![w] = i]
    /\ cat' = [cat EXCEPT ![w] = c]

Leave(w) == Begin(w, "idle", "none", 0, "none")

\* get: an operation has read request i and will save its expiry or go on.
\* One that raises or returns at once changes nothing and is no step.
Get(w, o, i, c) ==
    \/ /\ status[i] = "PENDING" /\ i \in overdue
       /\ Begin(w, "expire", o, i, c)
    \/ /\ ~(status[i] = "PENDING" /\ i \in overdue)
       /\ Proceeds(o, status[i])
       /\ Begin(w, "act", o, i, c)

\* grant, deny, execute_if_granted; is_granted, was_denied_or_expired and
\* whoever displays a request do no more than get.
Start(w) ==
    /\ MayStart(w)
    /\ \E o \in {"get", "grant", "deny", "execute"} :
           \E i \in 1..count : Get(w, o, i, "none")
    /\ UNCHANGED <<table, overdue, runs, crashes>>

\* propose asks nobody.
Propose(w) ==
    /\ MayStart(w)
    /\ \E c \in Categories : Begin(w, "act", "propose", 0, c)
    /\ UNCHANGED <<table, overdue, runs, crashes>>

\* has_active_or_denied_request: the last request of the category counts.
InCategory(c) == {i \in 1..count : category[i] = c}
IsLatest(i, c) ==
    i \in InCategory(c) /\ \A j \in InCategory(c) : j <= i

ProposeUnlessBlocked(w) ==
    /\ MayStart(w)
    /\ \E c \in Categories :
          \/ /\ InCategory(c) = {}
             /\ Begin(w, "act", "propose_unless_blocked", 0, c)
          \/ \E i \in 1..count :
                /\ IsLatest(i, c)
                /\ Get(w, "propose_unless_blocked", i, c)
    /\ UNCHANGED <<table, overdue, runs, crashes>>

(***************************************************************************)
(* Writing, from the copy                                                  *)
(***************************************************************************)
\* The expiry that get found.  Of the operations only a proposal goes on.
Expire(w) ==
    /\ pc[w] = "expire"
    /\ status' = [status EXCEPT ![req[w]] = "EXPIRED"]
    /\ \/ /\ Proceeds(op[w], "EXPIRED")
          /\ pc' = [pc EXCEPT ![w] = "act"] /\ UNCHANGED <<op, req, cat>>
       \/ ~Proceeds(op[w], "EXPIRED") /\ Leave(w)
    /\ UNCHANGED <<count, category, checked, overdue, runs, crashes>>

Decide(w) ==
    /\ pc[w] = "act" /\ op[w] \in {"grant", "deny"}
    /\ status' = [status EXCEPT ![req[w]] =
                      IF op[w] = "grant" THEN "GRANTED" ELSE "DENIED"]
    /\ Leave(w)
    /\ UNCHANGED <<count, category, checked, overdue, runs, crashes>>

\* executor(): the command runs.
Execute(w) ==
    /\ pc[w] = "act" /\ op[w] = "execute"
    /\ runs[req[w]] < MaxRuns
    /\ runs' = [runs EXCEPT ![req[w]] = @ + 1]
    /\ Leave(w)
    /\ UNCHANGED <<table, overdue, crashes>>

\* Mutant: the new row is saved without a status.
InsertStatusless(w) ==
    /\ pc[w] = "act" /\ op[w] \in {"propose", "propose_unless_blocked"}
    /\ count < MaxRequests
    /\ count' = count + 1
    /\ category' = [category EXCEPT ![count'] = cat[w]]
    /\ checked' = [checked EXCEPT
                       ![count'] = (op[w] = "propose_unless_blocked")]
    /\ UNCHANGED status
    /\ Leave(w)
    /\ UNCHANGED <<overdue, runs, crashes>>

\* propose: the row of a new request.
Insert(w) ==
    /\ pc[w] = "act" /\ op[w] \in {"propose", "propose_unless_blocked"}
    /\ count < MaxRequests
    /\ count' = count + 1
    /\ category' = [category EXCEPT ![count'] = cat[w]]
    /\ checked' = [checked EXCEPT
                       ![count'] = (op[w] = "propose_unless_blocked")]
    /\ status' = [status EXCEPT ![count'] = "PENDING"]
    /\ Leave(w)
    /\ UNCHANGED <<overdue, runs, crashes>>

(***************************************************************************)
(* Time, crashes and the specification                                     *)
(***************************************************************************)
TimePasses ==
    /\ \E i \in (1..count) \ overdue : overdue' = overdue \cup {i}
    /\ UNCHANGED <<table, runs, work, crashes>>

Crash(w) ==
    /\ pc[w] # "idle" /\ crashes < MaxCrashes
    /\ crashes' = crashes + 1
    /\ Leave(w)
    /\ UNCHANGED <<table, overdue, runs>>

Operation(w) == Start(w) \/ Propose(w) \/ ProposeUnlessBlocked(w)
Effect(w) == Expire(w) \/ Decide(w) \/ Execute(w) \/ Insert(w)

Next ==
    \/ \E w \in Workers : Operation(w) \/ Effect(w) \/ Crash(w)
    \/ TimePasses

Spec == Init /\ [][Next]_vars

(***************************************************************************)
(* Properties                                                              *)
(***************************************************************************)
\* What the module's docstring promises: a request is settled at most once,
\* and a command runs only while its request stands granted.  It holds when
\* one operation ends before the next begins.
Gate == INSTANCE ApprovalGate WITH standing <- status, ran <- runs
GateSpec == Gate!Spec

\* A denial holds its category: a proposal that went through
\* propose_unless_blocked never follows a denied or a still pending request of
\* its category, unless a plain propose came between the two and hid it (only
\* the last request of the category is looked at).
DenialHoldsCategory ==
    \A i \in 1..count : checked[i] =>
        \A j \in 1..(i - 1) :
            category[j] = category[i] /\ status[j] \in {"PENDING", "DENIED"}
                => \E k \in (j + 1)..(i - 1) :
                       category[k] = category[i] /\ ~checked[k]

\* The docstring says "refusing outright if this category was already denied
\* (or is still pending) this mission" (command_approval.py:242).  The code does
\* not keep this: a later request of the category, by a plain propose, that was
\* granted or has expired takes the block away.
DenialHoldsMission ==
    \A i \in 1..count : checked[i] =>
        \A j \in 1..(i - 1) :
            category[j] = category[i] => status[j] \notin {"PENDING", "DENIED"}
=============================================================================
