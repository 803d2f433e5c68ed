--------------------------- MODULE ExternalActions --------------------------
(***************************************************************************)
(* Every mutation outside the machine: ExternalActionService with its      *)
(* ApprovalService, the executors and observers of AgentIndexService and   *)
(* the GitHub services, and VerificationMonitor, which polls.              *)
(*                                                                         *)
(* execute works on one copy of the action row, read at its start, and     *)
(* saves that copy five times on its way; consecutive reads are one step,  *)
(* every write and every call to the outside is one of its own.  Evidence  *)
(* records and events are left out, save the monitor's announcement.       *)
(***************************************************************************)
EXTENDS Naturals, Sequences

CONSTANTS
    Workers,     \* processes that propose, execute and poll
    Deciders,    \* processes that take the user's decisions
    Actions,     \* the external actions, by idempotency key
    Handoffs,    \* those that only a third party can complete
    Overlap,     \* TRUE: workers run at the same time
    MaxAsked,    \* bound: approvals asked for one key
    MaxEffects,  \* bound: executor calls of an action that had their effect
    MaxCrashes   \* bound: workers that die between two calls

ASSUME ActionAssumption ==
    /\ Handoffs \subseteq Actions
    /\ Overlap \in BOOLEAN
    /\ MaxAsked \in Nat /\ MaxEffects \in Nat /\ MaxCrashes \in Nat

VARIABLES
    approvals,   \* the approvals asked for each key, in order
    action,      \* proposed_external_actions, by key
    matched,     \* keys with a stored observation that matches_expected
    announced,   \* keys whose verification the monitor has announced
    remote,      \* keys for which the outside is as expected_state says
    effects,     \* how often the executor had its effect outside
    deciding,    \* a decision read and not yet saved: 0 for none
    pc,          \* where each worker stands
    job,         \* the key a worker works on
    mode,        \* whether it executes the action or polls it
    copy,        \* its copy of the action row
    crashes      \* workers that died so far

tables == <<approvals, action, matched, announced>>
outside == <<remote, effects, deciding>>
locals == <<job, mode, copy>>
vars == <<tables, outside, pc, locals, crashes>>

ApprovalStatus == {"PENDING", "GRANTED", "DENIED"}

\* NONE: no row has this key yet.
ActionStatus == {"NONE", "PROPOSED", "APPROVED", "EXECUTING", "EXECUTED",
                 "AWAITING_EXTERNAL", "VERIFIED", "FAILED", "DENIED"}

\* result: execution_result is not None; approval: which one approval_id names.
ActionRow == [status : ActionStatus, result : BOOLEAN, approval : Nat]
NoAction == [status |-> "NONE", result |-> FALSE, approval |-> 0]

Labels == {"idle", "ask", "save_proposal", "authorize", "save_denied",
           "require", "save_approved", "save_executing", "invoke",
           "save_executed", "observe", "save_observation", "save_final",
           "save_raise", "announce"}

Decision == [key : Actions, index : Nat, verdict : {"GRANTED", "DENIED"}]

TypeOK ==
    /\ approvals \in [Actions -> Seq(ApprovalStatus)]
    /\ action \in [Actions -> ActionRow]
    /\ \A a \in Actions : action[a].approval <= Len(approvals[a])
    /\ matched \subseteq Actions /\ announced \subseteq Actions
    /\ remote \subseteq Actions
    /\ effects \in [Actions -> Nat]
    /\ deciding \in [Deciders -> SUBSET Decision]
    /\ pc \in [Workers -> Labels]
    /\ job \in [Workers -> Actions]
    /\ mode \in [Workers -> {"execute", "poll"}]
    /\ copy \in [Workers -> ActionRow]
    /\ crashes \in Nat

(***************************************************************************)
(* Helpers                                                                 *)
(***************************************************************************)
Goto(w, label) == pc' = [pc EXCEPT ![w] = label]

MayStart(w) ==
    pc[w] = "idle" /\ (Overlap \/ \A v \in Workers : pc[v] = "idle")

\* The worker returns or raises; what it held is forgotten.
Exit(w) ==
    /\ Goto(w, "idle")
    /\ mode' = [mode EXCEPT ![w] = "execute"]
    /\ copy' = [copy EXCEPT ![w] = NoAction]
    /\ UNCHANGED job

Set(w, status) == copy' = [copy EXCEPT ![w].status = status]

\* save_external_action: the whole row, from the copy.
Save(w) == action' = [action EXCEPT ![job[w]] = copy[w]]

\* Mutant: any approval of the key counts, not only the one the row names.
ApprovalOfKey(w) ==
    IF \E i \in DOMAIN approvals[job[w]] : approvals[job[w]][i] = "GRANTED"
      THEN "GRANTED"
      ELSE approvals[job[w]][copy[w].approval]

\* require_granted: the approval that the row names.
Approval(w) == approvals[job[w]][copy[w].approval]

\* Mutant: only what is being executed is resumed; a mismatch runs again.
ResumesUnlessFailed(row) ==
    row.result /\ row.status \in {"EXECUTED", "AWAITING_EXTERNAL"}

\* resume_observation
Resumes(row) ==
    row.result /\ row.status \in {"EXECUTED", "AWAITING_EXTERNAL", "FAILED"}

Init ==
    /\ approvals = [a \in Actions |-> <<>>]
    /\ action = [a \in Actions |-> NoAction]
    /\ matched = {} /\ announced = {} /\ remote = {}
    /\ effects = [a \in Actions |-> 0]
    /\ deciding = [d \in Deciders |-> {}]
    /\ pc = [w \in Workers |-> "idle"]
    /\ job \in [Workers -> Actions]
    /\ mode = [w \in Workers |-> "execute"]
    /\ copy = [w \in Workers |-> NoAction]
    /\ crashes = 0

(***************************************************************************)
(* propose                                                                 *)
(***************************************************************************)

\* No row has the key; with one, propose returns it or refuses the key.
Propose(w, a) ==
    /\ MayStart(w)
    /\ action[a].status = "NONE" /\ Len(approvals[a]) < MaxAsked
    /\ job' = [job EXCEPT ![w] = a]
    /\ Goto(w, "ask")
    /\ UNCHANGED <<tables, outside, mode, copy, crashes>>

\* Mutant: the approval is not saved.
AskUnsaved(w) ==
    /\ pc[w] = "ask"
    /\ copy' = [copy EXCEPT ![w] = [status |-> "PROPOSED", result |-> FALSE,
                                    approval |-> Len(approvals[job[w]]) + 1]]
    /\ Goto(w, "save_proposal")
    /\ UNCHANGED <<tables, outside, job, mode, crashes>>

\* ApprovalService.request; AUTO is refused for external actions.
Ask(w) ==
    /\ pc[w] = "ask"
    /\ approvals' = [approvals EXCEPT ![job[w]] = Append(@, "PENDING")]
    /\ copy' = [copy EXCEPT ![w] = [status |-> "PROPOSED", result |-> FALSE,
                                    approval |-> Len(approvals[job[w]]) + 1]]
    /\ Goto(w, "save_proposal")
    /\ UNCHANGED <<action, matched, announced, outside, job, mode, crashes>>

\* The insert; UNIQUE refuses a key taken since, and leaves an approval that no
\* action names.
SaveProposal(w) ==
    /\ pc[w] = "save_proposal"
    /\ IF action[job[w]].status = "NONE" THEN Save(w) ELSE UNCHANGED action
    /\ Exit(w)
    /\ UNCHANGED <<approvals, matched, announced, outside, crashes>>

(***************************************************************************)
(* decide                                                                  *)
(***************************************************************************)

\* The row is read and is PENDING; an unconfirmed decision is refused.
DecideRead(d, a, i, verdict) ==
    /\ deciding[d] = {}
    /\ i \in DOMAIN approvals[a] /\ approvals[a][i] = "PENDING"
    /\ deciding' = [deciding EXCEPT
                       ![d] = {[key |-> a, index |-> i, verdict |-> verdict]}]
    /\ UNCHANGED <<tables, remote, effects, pc, locals, crashes>>

DecideSave(d) ==
    /\ \E c \in deciding[d] :
          approvals' = [approvals EXCEPT ![c.key][c.index] = c.verdict]
    /\ deciding' = [deciding EXCEPT ![d] = {}]
    /\ UNCHANGED <<action, matched, announced, remote, effects, pc, locals,
                   crashes>>

(***************************************************************************)
(* execute                                                                 *)
(***************************************************************************)

\* deliver_*, update_metadata, submit, create, push, create_pull_request: the
\* proposal is read for what the executor needs.
Execute(w, a) ==
    /\ MayStart(w)
    /\ action[a].status # "NONE"
    /\ job' = [job EXCEPT ![w] = a]
    /\ Goto(w, "authorize")
    /\ UNCHANGED <<tables, outside, mode, copy, crashes>>

\* VerificationMonitor.run with a pending action, then poll_handoff.
Poll(w, a) ==
    /\ MayStart(w)
    /\ a \in Handoffs /\ action[a].status = "AWAITING_EXTERNAL"
    /\ job' = [job EXCEPT ![w] = a]
    /\ mode' = [mode EXCEPT ![w] = "poll"]
    /\ Goto(w, "authorize")
    /\ UNCHANGED <<tables, outside, copy, crashes>>

\* execute returned an observation that matches: the monitor goes on, others end.
Verified(w) ==
    IF mode[w] = "poll" THEN Goto(w, "announce") /\ UNCHANGED locals ELSE Exit(w)

\* A stored match is returned at once, whatever the row says.
Authorize(w) ==
    /\ pc[w] = "authorize"
    /\ IF job[w] \in matched
       THEN Verified(w)
       ELSE LET row == action[job[w]]
                denied == approvals[job[w]][row.approval] = "DENIED" IN
            /\ copy' = [copy EXCEPT ![w] =
                           IF denied THEN [row EXCEPT !.status = "DENIED"] ELSE row]
            /\ Goto(w, IF denied THEN "save_denied" ELSE "require")
            /\ UNCHANGED <<job, mode>>
    /\ UNCHANGED <<tables, outside, crashes>>

SaveDenied(w) ==
    /\ pc[w] = "save_denied"
    /\ Save(w)
    /\ Goto(w, "require")
    /\ UNCHANGED <<approvals, matched, announced, outside, locals, crashes>>

\* require_granted, then the choice between observing again and executing.
Require(w) ==
    /\ pc[w] = "require"
    /\ \/ Approval(w) # "GRANTED" /\ Exit(w)
       \/ /\ Approval(w) = "GRANTED" /\ Resumes(copy[w])
          /\ Goto(w, "observe")
          /\ UNCHANGED locals
       \/ /\ Approval(w) = "GRANTED" /\ ~Resumes(copy[w])
          /\ Set(w, "APPROVED")
          /\ Goto(w, "save_approved")
          /\ UNCHANGED <<job, mode>>
    /\ UNCHANGED <<tables, outside, crashes>>

SaveApproved(w) ==
    /\ pc[w] = "save_approved"
    /\ Save(w)
    /\ Set(w, "EXECUTING")
    /\ Goto(w, "save_executing")
    /\ UNCHANGED <<approvals, matched, announced, outside, job, mode, crashes>>

SaveExecuting(w) ==
    /\ pc[w] = "save_executing"
    /\ Save(w)
    /\ Goto(w, "invoke")
    /\ UNCHANGED <<approvals, matched, announced, outside, locals, crashes>>

\* The executor raised, or the observer did: FAILED, and the result as it was.
Raise(w) ==
    /\ Set(w, "FAILED")
    /\ Goto(w, "save_raise")
    /\ UNCHANGED <<job, mode>>

\* The executor raises before it has reached the outside; poll_handoff's, which
\* is called if the row is no longer awaiting by then, always does.
InvokeFails(w) ==
    /\ pc[w] = "invoke"
    /\ Raise(w)
    /\ UNCHANGED <<tables, outside, crashes>>

\* The executor reaches the outside.  It returns a result, or raises after all:
\* a delivery without a reference, a create whose push fails, a late timeout.
\* It does not pass the idempotency key on.  The outside may keep a change or not.
InvokeActs(w) ==
    /\ pc[w] = "invoke" /\ mode[w] = "execute"
    /\ effects[job[w]] < MaxEffects
    /\ effects' = [effects EXCEPT ![job[w]] = @ + 1]
    /\ \/ UNCHANGED remote
       \/ job[w] \notin Handoffs /\ remote' = remote \cup {job[w]}
    /\ \/ /\ copy' = [copy EXCEPT ![w].result = TRUE, ![w].status = "EXECUTED"]
          /\ Goto(w, "save_executed")
          /\ UNCHANGED <<job, mode>>
       \/ Raise(w)
    /\ UNCHANGED <<tables, deciding, crashes>>

SaveExecuted(w) ==
    /\ pc[w] = "save_executed"
    /\ Save(w)
    /\ Goto(w, "observe")
    /\ UNCHANGED <<approvals, matched, announced, outside, locals, crashes>>

\* Mutant: a remote that cannot be read counts as a failed action.
ObserveUnreadableFails(w) ==
    /\ pc[w] = "observe"
    /\ Raise(w)
    /\ UNCHANGED <<tables, outside, crashes>>

\* The remote cannot be read: a handoff keeps its status, a change is FAILED.
ObserveUnreadable(w) ==
    /\ pc[w] = "observe"
    /\ IF job[w] \in Handoffs
       THEN Goto(w, "save_raise") /\ UNCHANGED locals
       ELSE Raise(w)
    /\ UNCHANGED <<tables, outside, crashes>>

\* Mutant: what was delivered counts as verified.
ObserveTrusting(w) ==
    /\ pc[w] = "observe"
    /\ Set(w, "VERIFIED")
    /\ Goto(w, "save_observation")
    /\ UNCHANGED <<tables, outside, job, mode, crashes>>

\* The observer: as expected, not yet done by the third party, or not kept.
Observe(w) ==
    /\ pc[w] = "observe"
    /\ \/ job[w] \in remote /\ Set(w, "VERIFIED")
       \/ job[w] \notin remote /\ job[w] \in Handoffs
          /\ Set(w, "AWAITING_EXTERNAL")
       \/ job[w] \notin remote /\ job[w] \notin Handoffs /\ Set(w, "FAILED")
    /\ Goto(w, "save_observation")
    /\ UNCHANGED <<tables, outside, job, mode, crashes>>

SaveObservation(w) ==
    /\ pc[w] = "save_observation"
    /\ matched' = IF copy[w].status = "VERIFIED" THEN matched \cup {job[w]}
                                                 ELSE matched
    /\ Goto(w, "save_final")
    /\ UNCHANGED <<approvals, action, announced, outside, locals, crashes>>

SaveFinal(w) ==
    /\ pc[w] = "save_final"
    /\ Save(w)
    /\ IF copy[w].status = "VERIFIED" THEN Verified(w) ELSE Exit(w)
    /\ UNCHANGED <<approvals, matched, announced, outside, crashes>>

SaveRaise(w) ==
    /\ pc[w] = "save_raise"
    /\ Save(w)
    /\ Exit(w)
    /\ UNCHANGED <<approvals, matched, announced, outside, crashes>>

\* _run_acquired after a verified poll: eligibility is computed, which may fail,
\* and ELIGIBILITY_ACHIEVED or VERIFICATION_OBSERVED is appended.
Announce(w) ==
    /\ pc[w] = "announce"
    /\ \/ UNCHANGED announced
       \/ announced' = announced \cup {job[w]}
    /\ Exit(w)
    /\ UNCHANGED <<approvals, action, matched, outside, crashes>>

(***************************************************************************)
(* The environment                                                         *)
(***************************************************************************)

\* Plow blesses the agent, or marks it deployable, once it has a handoff.
ThirdPartyActs(a) ==
    /\ a \in Handoffs /\ effects[a] > 0 /\ a \notin remote
    /\ remote' = remote \cup {a}
    /\ UNCHANGED <<tables, effects, deciding, pc, locals, crashes>>

Crash(w) ==
    /\ pc[w] # "idle" /\ crashes < MaxCrashes
    /\ crashes' = crashes + 1
    /\ Exit(w)
    /\ UNCHANGED <<tables, outside>>

(***************************************************************************)
(* Specification                                                           *)
(***************************************************************************)
Running(w) ==
    \/ Ask(w) \/ SaveProposal(w) \/ Authorize(w) \/ SaveDenied(w) \/ Require(w)
    \/ SaveApproved(w) \/ SaveExecuting(w) \/ InvokeFails(w)
    \/ InvokeActs(w) \/ SaveExecuted(w) \/ ObserveUnreadable(w) \/ Observe(w)
    \/ SaveObservation(w) \/ SaveFinal(w) \/ SaveRaise(w) \/ Announce(w)

Deciding(d) ==
    \/ \E a \in Actions : \E i \in 1..MaxAsked, verdict \in {"GRANTED", "DENIED"} :
          DecideRead(d, a, i, verdict)
    \/ DecideSave(d)

Next ==
    \/ \E w \in Workers : Running(w) \/ Crash(w)
    \/ \E w \in Workers, a \in Actions : Propose(w, a) \/ Execute(w, a) \/ Poll(w, a)
    \/ \E d \in Deciders : Deciding(d)
    \/ \E a \in Actions : ThirdPartyActs(a)

Spec == Init /\ [][Next]_vars

\* A worker that runs goes on, the scheduled monitor comes around again, the
\* remote can be read again and again, and the third party acts at last.  Nobody
\* has to propose, approve or execute anything.
FairSpec ==
    /\ Spec
    /\ \A w \in Workers : WF_vars(Running(w))
    /\ \A a \in Actions :
          /\ SF_vars(\E w \in Workers : Poll(w, a))
          /\ SF_vars(\E w \in Workers : job[w] = a /\ Observe(w))
          /\ WF_vars(ThirdPartyActs(a))

(***************************************************************************)
(* Properties                                                              *)
(***************************************************************************)

\* "No executor runs without the required approval"
\* (docs/COMPETITION_CLOSED_LOOP.md:77): whatever overlaps or dies, an action has
\* its effect only if the very approval its row names was granted, though a key
\* may have several approvals and execute reads its row long before it acts.
EffectsApproved ==
    \A a \in Actions :
        effects[a] > 0 => /\ action[a].approval \in DOMAIN approvals[a]
                          /\ approvals[a][action[a].approval] = "GRANTED"

\* "A successful executor response alone never marks an action verified"
\* (docs/BUILD_NOTES.md:1150-1151): VERIFIED, and the monitor's announcement, mean
\* an effect outside and a stored observation of it, also when stale copies of the
\* row overwrite each other.
VerifiedMeansObserved ==
    \A a \in Actions :
        (action[a].status = "VERIFIED" \/ a \in announced)
            => a \in matched /\ a \in remote /\ effects[a] > 0

\* One worker at a time, any crash: "an interruption after the result was persisted
\* resumes observation without repeating the mutation" (docs/BUILD_NOTES.md:1156).
ResultNotRepeated ==
    [][\A a \in Actions : action[a].result => effects'[a] = effects[a]]_vars

\* One worker at a time, any crash: what the third party does for a handoff that
\* awaits it is on record in the end, however often the remote could not be read
\* in between (approvals.py:177-187) and wherever the monitor died.
AwaitedIsObserved ==
    \A a \in Actions : action[a].status = "AWAITING_EXTERNAL" ~> a \in matched

\* "The status is left exactly as it was, so the next poll resumes."
\* (approvals.py:178): a handoff whose delivery is on record is polled until the
\* third party has acted.
HandoffIsPolled ==
    \A a \in Handoffs : action[a].result ~> action[a].status = "VERIFIED"
=============================================================================
