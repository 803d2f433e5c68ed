------------------------ MODULE ExternalActionsProofs -----------------------
(***************************************************************************)
(* No effect without its approval, nothing verified without an observation:*)
(* proofs for any number of workers, actions, proposals, retries and       *)
(* crashes.                                                                *)
(***************************************************************************)
EXTENDS ExternalActions, TLAPS

\* A worker's copy of a row names an approval that was asked for, or none.
Named ==
    \A w \in Workers :
        /\ copy[w].approval <= Len(approvals[job[w]])
        /\ pc[w] \in {"idle", "ask", "authorize"} => copy[w] = NoAction

TypeInv == TypeOK /\ Named

\* The reason why VERIFIED is never premature: a match is stored only for what is
\* so outside, and no copy says VERIFIED before that is known.
Seen ==
    /\ matched \subseteq remote /\ announced \subseteq matched
    /\ \A a \in Actions :
          /\ a \in remote => effects[a] > 0
          /\ action[a].status = "VERIFIED" => a \in matched
    /\ \A w \in Workers :
          /\ pc[w] = "announce" => job[w] \in matched
          /\ copy[w].status = "VERIFIED" =>
                \/ pc[w] = "save_observation" /\ job[w] \in remote
                \/ pc[w] \in {"save_final", "announce"} /\ job[w] \in matched

\* The initial state is typed, and nothing has been seen.
LEMMA InitTypes == Init => TypeInv /\ Seen
  <1> SUFFICES ASSUME Init PROVE TypeInv /\ Seen
    OBVIOUS
  <1>1. TypeOK
    BY DEF Init, TypeOK, ActionRow, NoAction, Labels, ActionStatus
  <1>2. Named /\ Seen
    BY <1>1 DEF Init, TypeOK, Named, Seen, NoAction
  <1>3. QED BY <1>1, <1>2 DEF TypeInv

\* Writing one approval keeps the others, and their number.
LEMMA ApprovalWritten ==
  ASSUME NEW s \in Seq(ApprovalStatus), NEW i, NEW v \in ApprovalStatus
  PROVE  /\ [s EXCEPT ![i] = v] \in Seq(ApprovalStatus)
         /\ Len([s EXCEPT ![i] = v]) = Len(s)
  <1>1. CASE i \in 1..Len(s)
    BY <1>1
  <1>2. CASE i \notin 1..Len(s)
    <2>1. [s EXCEPT ![i] = v] = s
      BY <1>2
    <2>2. QED BY <2>1
  <1>3. QED BY <1>1, <1>2

\* What a worker is left with when it ends.
LEMMA ExitTyped ==
  ASSUME TypeInv, NEW w \in Workers, Exit(w)
  PROVE  /\ pc' = [pc EXCEPT ![w] = "idle"] /\ pc' \in [Workers -> Labels]
         /\ job' = job
         /\ mode' \in [Workers -> {"execute", "poll"}]
         /\ copy' = [copy EXCEPT ![w] = NoAction]
         /\ copy' \in [Workers -> ActionRow]
  BY DEF TypeInv, TypeOK, Exit, Goto, Labels, NoAction, ActionRow, ActionStatus

\* One worker's step keeps the types.
LEMMA RunningKeepsTypes ==
  ASSUME TypeInv, NEW w \in Workers, Running(w) \/ Crash(w) PROVE TypeInv'
  <1>0. TypeOK /\ Named /\ job[w] \in Actions /\ copy[w] \in ActionRow
        /\ approvals[job[w]] \in Seq(ApprovalStatus)
        /\ Len(approvals[job[w]]) \in Nat
        /\ copy[w].approval \in Nat /\ copy[w].approval <= Len(approvals[job[w]])
    BY DEF TypeInv, TypeOK, Named, ActionRow
  <1>a. ASSUME Save(w), approvals' = approvals
        PROVE  /\ action' \in [Actions -> ActionRow]
               /\ \A a \in Actions : action'[a].approval <= Len(approvals'[a])
    BY <1>0, <1>a DEF Save, TypeOK
  <1>b. ASSUME Exit(w), approvals' = approvals PROVE Named'
    <2>1. /\ pc' = [pc EXCEPT ![w] = "idle"] /\ job' = job
          /\ copy' = [copy EXCEPT ![w] = NoAction]
      BY <1>b, ExitTyped
    <2>2. \A v \in Workers : v # w => pc'[v] = pc[v] /\ copy'[v] = copy[v]
      BY <1>0, <2>1 DEF TypeOK
    <2>3. copy'[w] = NoAction /\ NoAction.approval <= Len(approvals[job[w]])
      BY <1>0, <2>1 DEF TypeOK, NoAction
    <2>4. QED BY <1>0, <1>b, <2>1, <2>2, <2>3 DEF Named
  <1>c. ASSUME NEW s \in ActionStatus, Set(w, s), approvals' = approvals,
               job' = job, NEW l, Goto(w, l), l \notin {"idle", "ask", "authorize"}
        PROVE  copy' \in [Workers -> ActionRow] /\ Named'
    BY <1>0, <1>c DEF TypeOK, Named, Set, Goto, ActionRow
  <1>d. ASSUME locals' = locals, approvals' = approvals,
               NEW l, Goto(w, l), l \notin {"idle", "ask", "authorize"}
        PROVE  Named'
    BY <1>0, <1>d DEF TypeOK, Named, Goto, locals
  <1>1. CASE Ask(w)
    <2> DEFINE n == Len(approvals[job[w]]) + 1
    <2>1. /\ approvals' = [approvals EXCEPT ![job[w]] = Append(@, "PENDING")]
          /\ copy' = [copy EXCEPT ![w] = [status |-> "PROPOSED",
                                          result |-> FALSE, approval |-> n]]
          /\ pc' = [pc EXCEPT ![w] = "save_proposal"]
          /\ UNCHANGED <<action, matched, announced, outside, job, mode, crashes>>
      BY <1>1 DEF Ask, Goto
    <2>2. /\ Append(approvals[job[w]], "PENDING") \in Seq(ApprovalStatus)
          /\ Len(Append(approvals[job[w]], "PENDING")) = n
      BY <1>0 DEF ApprovalStatus
    <2>3. \A a \in Actions : Len(approvals[a]) \in Nat
                             /\ Len(approvals[a]) <= Len(approvals'[a])
      BY <1>0, <2>1, <2>2 DEF TypeOK
    <2>4. approvals' \in [Actions -> Seq(ApprovalStatus)]
      BY <1>0, <2>1, <2>2 DEF TypeOK
    <2>5. copy' \in [Workers -> ActionRow]
      BY <1>0, <2>1 DEF TypeOK, ActionRow, ActionStatus
    <2>6. \A a \in Actions : action'[a].approval <= Len(approvals'[a])
      <3> SUFFICES ASSUME NEW a \in Actions
                   PROVE  action[a].approval <= Len(approvals'[a])
        BY <2>1
      <3>1. action[a].approval \in Nat /\ action[a].approval <= Len(approvals[a])
        BY <1>0 DEF TypeOK, ActionRow
      <3>2. Len(approvals'[a]) \in Nat
        BY <2>4
      <3>3. QED BY <2>3, <3>1, <3>2
    <2>7. TypeOK'
      BY <1>0, <2>1, <2>4, <2>5, <2>6 DEF TypeOK, outside, Labels
    <2>8. Named'
      <3> SUFFICES ASSUME NEW v \in Workers
                   PROVE  /\ copy'[v].approval <= Len(approvals'[job[v]])
                          /\ pc'[v] \in {"idle", "ask", "authorize"}
                                => copy'[v] = NoAction
        BY <2>1 DEF Named
      <3>1. CASE v = w
        <4>1. copy'[v].approval = n /\ pc'[v] = "save_proposal"
              /\ Len(approvals'[job[v]]) = n
          BY <1>0, <2>1, <2>2, <3>1 DEF TypeOK
        <4>2. QED BY <1>0, <4>1
      <3>2. CASE v # w
        <4>1. copy'[v] = copy[v] /\ pc'[v] = pc[v] /\ job[v] \in Actions
              /\ copy[v].approval \in Nat
              /\ copy[v].approval <= Len(approvals[job[v]])
          BY <1>0, <2>1, <3>2 DEF TypeOK, Named, ActionRow
        <4>2. Len(approvals'[job[v]]) \in Nat
          BY <2>4, <4>1
        <4>3. QED BY <1>0, <2>3, <4>1, <4>2 DEF Named
      <3>3. QED BY <3>1, <3>2
    <2>9. QED BY <2>7, <2>8 DEF TypeInv
  <1>2. CASE SaveProposal(w)
    BY <1>0, <1>2, <1>a, <1>b, ExitTyped DEF TypeInv, TypeOK, SaveProposal, outside
  <1>3. CASE Authorize(w)
    <2>1. CASE job[w] \in matched
      <3>1. CASE mode[w] = "poll"
        BY <1>0, <1>3, <1>d, <2>1, <3>1
           DEF TypeInv, TypeOK, Authorize, Verified, Goto, tables, outside, locals, Labels
      <3>2. CASE mode[w] # "poll"
        BY <1>0, <1>3, <1>b, <2>1, <3>2, ExitTyped
           DEF TypeInv, TypeOK, Authorize, Verified, tables, outside
      <3>3. QED BY <3>1, <3>2
    <2>2. CASE job[w] \notin matched
      <3> DEFINE row == action[job[w]]
      <3>1. row \in ActionRow /\ [row EXCEPT !.status = "DENIED"] \in ActionRow
            /\ row.approval <= Len(approvals[job[w]])
            /\ [row EXCEPT !.status = "DENIED"].approval = row.approval
        BY <1>0 DEF TypeOK, ActionRow, ActionStatus
      <3>2. PICK r \in {row, [row EXCEPT !.status = "DENIED"]},
                 l \in {"save_denied", "require"} :
              copy' = [copy EXCEPT ![w] = r] /\ pc' = [pc EXCEPT ![w] = l]
        BY <1>3, <2>2 DEF Authorize, Goto
      <3>3. r \in ActionRow /\ r.approval <= Len(approvals[job[w]])
        BY <3>1, <3>2
      <3>4. UNCHANGED <<tables, outside, crashes, job, mode>>
        BY <1>3, <2>2 DEF Authorize
      <3> HIDE DEF row
      <3>5. TypeOK'
        BY <1>0, <3>2, <3>3, <3>4 DEF TypeOK, tables, outside, Labels
      <3>6. Named'
        BY <1>0, <3>2, <3>3, <3>4 DEF TypeOK, Named, tables
      <3>7. QED BY <3>5, <3>6 DEF TypeInv
    <2>3. QED BY <2>1, <2>2
  <1>4. CASE SaveDenied(w)
    BY <1>0, <1>4, <1>a, <1>d
       DEF TypeInv, TypeOK, SaveDenied, Goto, outside, locals, Labels
  <1>5. CASE Require(w)
    <2>1. CASE Exit(w)
      BY <1>0, <1>5, <1>b, <2>1, ExitTyped DEF TypeInv, TypeOK, Require, tables, outside
    <2>2. CASE Goto(w, "observe") /\ UNCHANGED locals
      BY <1>0, <1>5, <1>d, <2>2
         DEF TypeInv, TypeOK, Require, Goto, tables, outside, locals, Labels
    <2>3. CASE Set(w, "APPROVED") /\ Goto(w, "save_approved") /\ UNCHANGED <<job, mode>>
      <3>1. copy' \in [Workers -> ActionRow] /\ Named'
        BY <1>5, <1>c, <2>3 DEF Require, tables, ActionStatus
      <3>2. QED BY <1>0, <1>5, <2>3, <3>1
                   DEF TypeInv, TypeOK, Require, Goto, tables, outside, Labels
    <2>4. QED BY <1>5, <2>1, <2>2, <2>3 DEF Require
  <1>6. CASE SaveApproved(w)
    <2>1. copy' \in [Workers -> ActionRow] /\ Named'
      BY <1>6, <1>c DEF SaveApproved, ActionStatus
    <2>2. QED BY <1>0, <1>6, <1>a, <2>1
                 DEF TypeInv, TypeOK, SaveApproved, Goto, outside, Labels
  <1>7. CASE SaveExecuting(w)
    BY <1>0, <1>7, <1>a, <1>d
       DEF TypeInv, TypeOK, SaveExecuting, Goto, outside, locals, Labels
  <1>e. ASSUME Raise(w), approvals' = approvals
        PROVE  /\ copy' \in [Workers -> ActionRow] /\ Named'
               /\ pc' \in [Workers -> Labels] /\ UNCHANGED <<job, mode>>
    <2>1. copy' \in [Workers -> ActionRow] /\ Named'
      BY <1>c, <1>e DEF Raise, ActionStatus
    <2>2. QED BY <1>0, <1>e, <2>1 DEF TypeOK, Raise, Goto, Labels
  <1>8. CASE InvokeFails(w)
    BY <1>0, <1>8, <1>e DEF TypeInv, TypeOK, InvokeFails, tables, outside
  <1>9. CASE InvokeActs(w)
    <2>1. /\ effects' \in [Actions -> Nat] /\ remote' \subseteq Actions
          /\ UNCHANGED <<tables, deciding, crashes>>
      BY <1>0, <1>9 DEF InvokeActs, TypeOK
    <2>2. CASE Raise(w)
      BY <1>0, <1>e, <2>1, <2>2 DEF TypeInv, TypeOK, tables
    <2>3. CASE /\ copy' = [copy EXCEPT ![w].result = TRUE, ![w].status = "EXECUTED"]
               /\ Goto(w, "save_executed") /\ UNCHANGED <<job, mode>>
      <3>1. /\ copy' \in [Workers -> ActionRow]
            /\ \A v \in Workers : copy'[v].approval = copy[v].approval
            /\ \A v \in Workers : v # w => copy'[v] = copy[v]
        BY <1>0, <2>3 DEF TypeOK, ActionRow, ActionStatus
      <3>2. TypeOK'
        BY <1>0, <2>1, <2>3, <3>1 DEF TypeOK, tables, Goto, Labels
      <3>3. Named'
        BY <1>0, <2>1, <2>3, <3>1 DEF TypeOK, Named, tables, Goto
      <3>4. QED BY <3>2, <3>3 DEF TypeInv
    <2>4. QED BY <1>9, <2>2, <2>3 DEF InvokeActs
  <1>10. CASE SaveExecuted(w)
    BY <1>0, <1>10, <1>a, <1>d
       DEF TypeInv, TypeOK, SaveExecuted, Goto, outside, locals, Labels
  <1>11. CASE ObserveUnreadable(w)
    <2>1. CASE Raise(w)
      BY <1>0, <1>11, <1>e, <2>1
         DEF TypeInv, TypeOK, ObserveUnreadable, tables, outside
    <2>2. CASE Goto(w, "save_raise") /\ UNCHANGED locals
      BY <1>0, <1>11, <1>d, <2>2
         DEF TypeInv, TypeOK, ObserveUnreadable, Goto, tables, outside, locals, Labels
    <2>3. QED BY <1>11, <2>1, <2>2 DEF ObserveUnreadable
  <1>12. CASE Observe(w)
    <2>1. PICK s \in {"VERIFIED", "AWAITING_EXTERNAL", "FAILED"} : Set(w, s)
      BY <1>12 DEF Observe
    <2>2. copy' \in [Workers -> ActionRow] /\ Named'
      BY <1>12, <1>c, <2>1 DEF Observe, tables, ActionStatus
    <2>3. QED BY <1>0, <1>12, <2>2
                 DEF TypeInv, TypeOK, Observe, Goto, tables, outside, Labels
  <1>13. CASE SaveObservation(w)
    BY <1>0, <1>13, <1>d
       DEF TypeInv, TypeOK, SaveObservation, Goto, outside, locals, Labels
  <1>14. CASE SaveFinal(w)
    <2>1. CASE Exit(w)
      BY <1>0, <1>14, <1>a, <1>b, <2>1, ExitTyped
         DEF TypeInv, TypeOK, SaveFinal, outside
    <2>2. CASE Goto(w, "announce") /\ UNCHANGED locals
      BY <1>0, <1>14, <1>a, <1>d, <2>2
         DEF TypeInv, TypeOK, SaveFinal, Goto, outside, locals, Labels
    <2>3. QED BY <1>14, <2>1, <2>2 DEF SaveFinal, Verified
  <1>15. CASE SaveRaise(w)
    BY <1>0, <1>15, <1>a, <1>b, ExitTyped DEF TypeInv, TypeOK, SaveRaise, outside
  <1>16. CASE Announce(w)
    BY <1>0, <1>16, <1>b, ExitTyped DEF TypeInv, TypeOK, Announce, outside
  <1>17. CASE Crash(w)
    BY <1>0, <1>17, <1>b, ExitTyped DEF TypeInv, TypeOK, Crash, tables, outside
  <1>18. QED BY <1>1, <1>2, <1>3, <1>4, <1>5, <1>6, <1>7, <1>8, <1>9, <1>10,
                <1>11, <1>12, <1>13, <1>14, <1>15, <1>16, <1>17 DEF Running

\* Every other step keeps the types too.
LEMMA NextKeepsTypes == TypeInv /\ [Next]_vars => TypeInv'
  <1> SUFFICES ASSUME TypeInv, [Next]_vars PROVE TypeInv'
    OBVIOUS
  <1>0. TypeOK /\ Named
    BY DEF TypeInv
  <1>1. CASE \E w \in Workers : Running(w) \/ Crash(w)
    BY <1>1, RunningKeepsTypes
  <1>2. ASSUME NEW w \in Workers, NEW a \in Actions,
               Propose(w, a) \/ Execute(w, a) \/ Poll(w, a)
        PROVE  TypeInv'
    <2>1. /\ UNCHANGED <<tables, outside, copy, crashes>>
          /\ job' = [job EXCEPT ![w] = a]
          /\ mode' \in [Workers -> {"execute", "poll"}]
          /\ \E l \in {"ask", "authorize"} : pc' = [pc EXCEPT ![w] = l]
      BY <1>0, <1>2 DEF TypeOK, Propose, Execute, Poll, Goto
    <2>2. TypeOK'
      BY <1>0, <2>1 DEF TypeOK, tables, outside, Labels
    <2>3. copy[w] = NoAction
      BY <1>0, <1>2 DEF Named, Propose, Execute, Poll, MayStart
    <2>4. NoAction.approval <= Len(approvals[a])
      BY <1>0 DEF TypeOK, NoAction
    <2>5. Named'
      <3> SUFFICES ASSUME NEW v \in Workers
                   PROVE  /\ copy[v].approval <= Len(approvals[job'[v]])
                          /\ pc'[v] \in {"idle", "ask", "authorize"}
                                => copy[v] = NoAction
        BY <2>1 DEF Named, tables
      <3>1. CASE v = w
        BY <1>0, <2>1, <2>3, <2>4, <3>1 DEF TypeOK
      <3>2. CASE v # w
        BY <1>0, <2>1, <3>2 DEF TypeOK, Named
      <3>3. QED BY <3>1, <3>2
    <2>6. QED BY <2>2, <2>5 DEF TypeInv
  <1>3. ASSUME NEW d \in Deciders, NEW a \in Actions, NEW i \in 1..MaxAsked,
               NEW verdict \in {"GRANTED", "DENIED"}, DecideRead(d, a, i, verdict)
        PROVE  TypeInv'
    <2>1. [key |-> a, index |-> i, verdict |-> verdict] \in Decision
      BY DEF Decision
    <2>2. deciding' \in [Deciders -> SUBSET Decision]
      BY <1>0, <1>3, <2>1 DEF DecideRead, TypeOK
    <2>3. QED BY <1>0, <1>3, <2>2 DEF TypeInv, TypeOK, Named, DecideRead, tables, locals
  <1>4. ASSUME NEW d \in Deciders, DecideSave(d) PROVE TypeInv'
    <2>1. PICK c \in deciding[d] :
             approvals' = [approvals EXCEPT ![c.key][c.index] = c.verdict]
      BY <1>4 DEF DecideSave
    <2>2. c.key \in Actions /\ c.verdict \in ApprovalStatus
      BY <1>0, <2>1 DEF TypeOK, Decision, ApprovalStatus
    <2>3. approvals[c.key] \in Seq(ApprovalStatus)
      BY <1>0, <2>2 DEF TypeOK
    <2>4. /\ [approvals[c.key] EXCEPT ![c.index] = c.verdict] \in Seq(ApprovalStatus)
          /\ Len([approvals[c.key] EXCEPT ![c.index] = c.verdict])
                = Len(approvals[c.key])
      BY <2>2, <2>3, ApprovalWritten
    <2>5. /\ approvals' \in [Actions -> Seq(ApprovalStatus)]
          /\ \A a \in Actions : Len(approvals'[a]) = Len(approvals[a])
      BY <1>0, <2>1, <2>2, <2>4 DEF TypeOK
    <2>6. deciding' \in [Deciders -> SUBSET Decision]
      BY <1>0, <1>4 DEF TypeOK, DecideSave
    <2>7. UNCHANGED <<action, matched, announced, remote, effects, pc, locals, crashes>>
      BY <1>4 DEF DecideSave
    <2>8. TypeOK'
      BY <1>0, <2>5, <2>6, <2>7 DEF TypeOK, locals
    <2>9. Named'
      BY <1>0, <2>5, <2>7 DEF Named, TypeOK, locals
    <2>10. QED BY <2>8, <2>9 DEF TypeInv
  <1>5. ASSUME NEW a \in Actions, ThirdPartyActs(a) PROVE TypeInv'
    BY <1>0, <1>5 DEF TypeInv, TypeOK, Named, ThirdPartyActs, tables, locals
  <1>6. CASE UNCHANGED vars
    BY <1>0, <1>6 DEF TypeInv, TypeOK, Named, vars, tables, outside, locals
  <1>7. QED BY <1>1, <1>2, <1>3, <1>4, <1>5, <1>6 DEF Next, Deciding

\* Types hold in every behaviour; an action row never names an approval that does
\* not exist, however its copies are saved.
THEOREM ActionsTyped == Spec => []TypeOK
  <1>1. TypeInv => TypeOK
    BY DEF TypeInv
  <1>2. QED BY <1>1, InitTypes, NextKeepsTypes, PTL DEF Spec

\* What is seen outside is remembered, and nothing else is called VERIFIED.
LEMMA NextKeepsSeen == TypeInv /\ Seen /\ [Next]_vars => Seen'
  <1> SUFFICES ASSUME TypeInv, Seen, [Next]_vars PROVE Seen'
    OBVIOUS
  <1>0. TypeOK /\ Named
    BY DEF TypeInv
  <1>e. ASSUME NEW w \in Workers, Exit(w), matched' = matched,
               announced' \subseteq matched, remote' = remote, effects' = effects,
               \A a \in Actions : action'[a].status = "VERIFIED" => a \in matched
        PROVE  Seen'
    <2>1. /\ pc' = [pc EXCEPT ![w] = "idle"] /\ job' = job
          /\ copy' = [copy EXCEPT ![w] = NoAction]
      BY <1>e, ExitTyped
    <2>2. \A v \in Workers : v # w => pc'[v] = pc[v] /\ copy'[v] = copy[v]
      BY <1>0, <2>1 DEF TypeOK
    <2>3. pc'[w] = "idle" /\ copy'[w].status # "VERIFIED"
      BY <1>0, <2>1 DEF TypeOK, NoAction
    <2>4. QED BY <1>e, <2>1, <2>2, <2>3 DEF Seen
  <1>a. ASSUME NEW w \in Workers, Exit(w), action' = action, matched' = matched,
               announced' = announced, remote' = remote, effects' = effects
        PROVE  Seen'
    <2>1. announced \subseteq matched
          /\ \A a \in Actions : action[a].status = "VERIFIED" => a \in matched
      BY DEF Seen
    <2>2. QED BY <1>a, <1>e, <2>1
  <1>b. ASSUME NEW w \in Workers, Exit(w), Save(w), copy[w].status # "VERIFIED",
               matched' = matched, announced' = announced, remote' = remote,
               effects' = effects
        PROVE  Seen'
    <2>1. announced \subseteq matched
          /\ \A a \in Actions : action'[a].status = "VERIFIED" => a \in matched
      BY <1>0, <1>b DEF Seen, Save, TypeOK
    <2>2. QED BY <1>b, <1>e, <2>1
  <1>c. ASSUME NEW w \in Workers, NEW s, Set(w, s), s # "VERIFIED",
               NEW l, Goto(w, l), l # "announce", job' = job,
               matched' = matched, announced' = announced,
               remote' = remote, effects' = effects,
               action' = action \/ (Save(w) /\ copy[w].status # "VERIFIED")
        PROVE  Seen'
    <2>1. \A v \in Workers : copy'[v].status = "VERIFIED" =>
              v # w /\ copy[v].status = "VERIFIED" /\ pc'[v] = pc[v]
      BY <1>0, <1>c DEF TypeOK, Set, Goto, ActionRow
    <2>2. \A v \in Workers : pc'[v] = "announce" => pc[v] = "announce"
      BY <1>0, <1>c DEF TypeOK, Goto
    <2>3. \A a \in Actions : action'[a].status = "VERIFIED" => a \in matched
      BY <1>0, <1>c DEF TypeOK, Seen, Save
    <2>4. QED BY <1>c, <2>1, <2>2, <2>3 DEF Seen
  <1>d. ASSUME NEW w \in Workers, locals' = locals, copy[w].status # "VERIFIED",
               NEW l, Goto(w, l), l # "announce",
               matched' = matched, announced' = announced,
               remote' = remote, effects' = effects,
               action' = action \/ Save(w)
        PROVE  Seen'
    <2>1. \A v \in Workers : copy[v].status = "VERIFIED" => pc'[v] = pc[v]
      BY <1>0, <1>d DEF TypeOK, Goto
    <2>2. \A v \in Workers : pc'[v] = "announce" => pc[v] = "announce"
      BY <1>0, <1>d DEF TypeOK, Goto
    <2>3. \A a \in Actions : action'[a].status = "VERIFIED" => a \in matched
      BY <1>0, <1>d DEF TypeOK, Seen, Save
    <2>4. QED BY <1>d, <2>1, <2>2, <2>3 DEF Seen, locals
  <1>1. ASSUME NEW w \in Workers, Running(w) \/ Crash(w) PROVE Seen'
    <2>0. job[w] \in Actions /\ copy[w] \in ActionRow /\ pc[w] \in Labels
      BY <1>0 DEF TypeOK
    <2>u. pc[w] \notin {"save_observation", "save_final", "announce"}
             => copy[w].status # "VERIFIED"
      BY DEF Seen
    <2>1. CASE Ask(w)
      <3>1. /\ copy' = [copy EXCEPT ![w] = [status |-> "PROPOSED", result |-> FALSE,
                                    approval |-> Len(approvals[job[w]]) + 1]]
            /\ pc' = [pc EXCEPT ![w] = "save_proposal"]
            /\ UNCHANGED <<action, matched, announced, outside, job>>
        BY <2>1 DEF Ask, Goto
      <3>2. \A v \in Workers : copy'[v].status = "VERIFIED" =>
              v # w /\ copy[v].status = "VERIFIED" /\ pc'[v] = pc[v]
        BY <1>0, <3>1 DEF TypeOK
      <3>3. \A v \in Workers : pc'[v] = "announce" => pc[v] = "announce"
        BY <1>0, <3>1 DEF TypeOK
      <3>4. QED BY <3>1, <3>2, <3>3 DEF Seen, outside
    <2>2. CASE SaveProposal(w)
      BY <1>a, <1>b, <2>2, <2>u DEF SaveProposal, outside
    <2>3. CASE Authorize(w)
      <3>1. CASE job[w] \in matched /\ mode[w] = "poll"
        <4>1. /\ pc' = [pc EXCEPT ![w] = "announce"]
              /\ UNCHANGED <<locals, tables, outside>> /\ pc[w] = "authorize"
          BY <2>3, <3>1 DEF Authorize, Verified, Goto
        <4>2. copy[w].status # "VERIFIED"
          BY <2>u, <4>1
        <4>3. QED BY <1>0, <3>1, <4>1, <4>2 DEF TypeOK, Seen, locals, tables, outside
      <3>2. CASE job[w] \in matched /\ mode[w] # "poll"
        BY <1>a, <2>3, <3>2 DEF Authorize, Verified, tables, outside
      <3>3. CASE job[w] \notin matched
        <4> DEFINE row == action[job[w]]
        <4>1. row.status # "VERIFIED" /\ row \in ActionRow
          BY <1>0, <2>0, <3>3 DEF Seen, TypeOK
        <4>2. [row EXCEPT !.status = "DENIED"].status # "VERIFIED"
          BY <4>1 DEF ActionRow
        <4>3. PICK r \in {row, [row EXCEPT !.status = "DENIED"]},
                   l \in {"save_denied", "require"} :
                copy' = [copy EXCEPT ![w] = r] /\ pc' = [pc EXCEPT ![w] = l]
          BY <2>3, <3>3 DEF Authorize, Goto
        <4>4. UNCHANGED <<tables, outside, job>>
          BY <2>3, <3>3 DEF Authorize
        <4>5. r.status # "VERIFIED"
          BY <4>1, <4>2, <4>3
        <4> HIDE DEF row
        <4>6. \A v \in Workers : copy'[v].status = "VERIFIED" =>
                v # w /\ copy[v].status = "VERIFIED" /\ pc'[v] = pc[v]
          BY <1>0, <4>3, <4>5 DEF TypeOK
        <4>7. \A v \in Workers : pc'[v] = "announce" => pc[v] = "announce"
          BY <1>0, <4>3 DEF TypeOK
        <4>8. QED BY <4>4, <4>6, <4>7 DEF Seen, tables, outside
      <3>4. QED BY <3>1, <3>2, <3>3
    <2>4. CASE SaveDenied(w)
      BY <1>d, <2>4, <2>u DEF SaveDenied, outside
    <2>5. CASE Require(w)
      <3>1. CASE Exit(w)
        BY <1>a, <2>5, <3>1 DEF Require, tables, outside
      <3>2. CASE Goto(w, "observe") /\ UNCHANGED locals
        BY <1>d, <2>5, <2>u, <3>2 DEF Require, tables, outside
      <3>3. CASE Set(w, "APPROVED") /\ Goto(w, "save_approved") /\ UNCHANGED <<job, mode>>
        BY <1>c, <2>5, <3>3 DEF Require, tables, outside
      <3>4. QED BY <2>5, <3>1, <3>2, <3>3 DEF Require
    <2>6. CASE SaveApproved(w)
      BY <1>c, <2>6, <2>u DEF SaveApproved, outside
    <2>7. CASE SaveExecuting(w)
      BY <1>d, <2>7, <2>u DEF SaveExecuting, outside
    <2>8. CASE InvokeFails(w)
      BY <1>c, <2>8 DEF InvokeFails, Raise, tables, outside
    <2>9. CASE InvokeActs(w)
      <3>1. /\ effects' = [effects EXCEPT ![job[w]] = @ + 1]
            /\ remote' = remote \/ remote' = remote \cup {job[w]}
            /\ UNCHANGED <<tables, job>>
        BY <2>9 DEF InvokeActs, Raise
      <3>2. \A a \in Actions : a \in remote' => effects'[a] > 0
        BY <1>0, <2>0, <3>1 DEF TypeOK, Seen
      <3>3. \A v \in Workers : v # w => copy'[v] = copy[v] /\ pc'[v] = pc[v]
        BY <1>0, <2>9 DEF InvokeActs, Raise, Set, Goto, TypeOK
      <3>4. copy'[w].status \in {"EXECUTED", "FAILED"}
            /\ pc'[w] \in {"save_executed", "save_raise"}
        <4>1. CASE Raise(w)
          BY <1>0, <2>0, <4>1 DEF Raise, Set, Goto, TypeOK, ActionRow
        <4>2. CASE /\ copy' = [copy EXCEPT ![w].result = TRUE, ![w].status = "EXECUTED"]
                   /\ Goto(w, "save_executed")
          BY <1>0, <2>0, <4>2 DEF Goto, TypeOK, ActionRow
        <4>3. QED BY <2>9, <4>1, <4>2 DEF InvokeActs
      <3>5. QED BY <3>1, <3>2, <3>3, <3>4 DEF Seen, tables
    <2>10. CASE SaveExecuted(w)
      BY <1>d, <2>10, <2>u DEF SaveExecuted, outside
    <2>11. CASE ObserveUnreadable(w)
      BY <1>c, <1>d, <2>11, <2>u DEF ObserveUnreadable, Raise, tables, outside
    <2>12. CASE Observe(w)
      <3>1. CASE job[w] \in remote
        <4>1. /\ copy' = [copy EXCEPT ![w].status = "VERIFIED"]
              /\ pc' = [pc EXCEPT ![w] = "save_observation"]
              /\ UNCHANGED <<tables, outside, job>>
          BY <2>12, <3>1 DEF Observe, Set, Goto
        <4>2. \A v \in Workers : v # w => copy'[v] = copy[v] /\ pc'[v] = pc[v]
          BY <1>0, <4>1 DEF TypeOK
        <4>3. pc'[w] = "save_observation"
          BY <1>0, <4>1 DEF TypeOK
        <4>4. QED BY <3>1, <4>1, <4>2, <4>3 DEF Seen, tables, outside
      <3>2. CASE job[w] \notin remote
        BY <1>c, <2>12, <3>2 DEF Observe, tables, outside
      <3>3. QED BY <3>1, <3>2
    <2>13. CASE SaveObservation(w)
      <3>1. /\ matched' = IF copy[w].status = "VERIFIED" THEN matched \cup {job[w]}
                                                         ELSE matched
            /\ pc' = [pc EXCEPT ![w] = "save_final"] /\ pc[w] = "save_observation"
            /\ UNCHANGED <<action, announced, outside, locals>>
        BY <2>13 DEF SaveObservation, Goto
      <3>2. /\ \A v \in Workers : v # w => pc'[v] = pc[v]
            /\ pc'[w] = "save_final"
        BY <1>0, <3>1 DEF TypeOK
      <3>3. copy[w].status = "VERIFIED" => job[w] \in remote
        BY <3>1 DEF Seen
      <3>4. matched \subseteq matched' /\ matched' \subseteq remote
        BY <3>1, <3>3 DEF Seen
      <3>5. copy[w].status = "VERIFIED" => job[w] \in matched'
        BY <3>1
      <3>6. QED BY <3>1, <3>2, <3>4, <3>5 DEF Seen, outside, locals
    <2>14. CASE SaveFinal(w)
      <3>1. pc[w] = "save_final" /\ Save(w)
            /\ UNCHANGED <<matched, announced, outside>>
        BY <2>14 DEF SaveFinal
      <3>2. CASE copy[w].status = "VERIFIED"
        <4>1. job[w] \in matched
          BY <3>1, <3>2 DEF Seen
        <4>2. \A a \in Actions : action'[a].status = "VERIFIED" => a \in matched
          BY <1>0, <3>1, <4>1 DEF Seen, TypeOK, Save
        <4>3. CASE mode[w] = "poll"
          <5>1. pc' = [pc EXCEPT ![w] = "announce"] /\ UNCHANGED locals
            BY <2>14, <3>2, <4>3 DEF SaveFinal, Verified, Goto
          <5>2. QED BY <1>0, <3>1, <4>1, <4>2, <5>1 DEF Seen, TypeOK, outside, locals
        <4>4. CASE mode[w] # "poll"
          <5>1. Exit(w)
            BY <2>14, <3>2, <4>4 DEF SaveFinal, Verified
          <5>2. announced' \subseteq matched
            BY <3>1 DEF Seen
          <5>3. QED BY <1>e, <3>1, <4>2, <5>1, <5>2 DEF outside
        <4>5. QED BY <4>3, <4>4
      <3>3. CASE copy[w].status # "VERIFIED"
        BY <1>b, <2>14, <3>1, <3>3 DEF SaveFinal, outside
      <3>4. QED BY <3>2, <3>3
    <2>15. CASE SaveRaise(w)
      BY <1>b, <2>15, <2>u DEF SaveRaise, outside
    <2>16. CASE Announce(w)
      <3>1. pc[w] = "announce" /\ Exit(w)
            /\ announced' \in {announced, announced \cup {job[w]}}
            /\ UNCHANGED <<action, matched, outside>>
        BY <2>16 DEF Announce
      <3>2. announced' \subseteq matched
        BY <3>1 DEF Seen
      <3>3. \A a \in Actions : action'[a].status = "VERIFIED" => a \in matched
        BY <3>1 DEF Seen
      <3>4. QED BY <1>e, <3>1, <3>2, <3>3 DEF outside
    <2>17. CASE Crash(w)
      BY <1>a, <2>17 DEF Crash, tables, outside
    <2>18. QED BY <1>1, <2>1, <2>2, <2>3, <2>4, <2>5, <2>6, <2>7, <2>8, <2>9,
                  <2>10, <2>11, <2>12, <2>13, <2>14, <2>15, <2>16, <2>17 DEF Running
  <1>2. ASSUME NEW w \in Workers, NEW a \in Actions,
               Propose(w, a) \/ Execute(w, a) \/ Poll(w, a)
        PROVE  Seen'
    <2>1. /\ UNCHANGED <<tables, outside, copy>> /\ copy[w] = NoAction
          /\ job' = [job EXCEPT ![w] = a]
          /\ \E l \in {"ask", "authorize"} : pc' = [pc EXCEPT ![w] = l]
      BY <1>0, <1>2 DEF Named, MayStart, Propose, Execute, Poll, Goto
    <2>2. QED BY <1>0, <2>1 DEF TypeOK, Seen, NoAction, tables, outside
  <1>3. ASSUME NEW d \in Deciders, Deciding(d) PROVE Seen'
    BY <1>3 DEF Deciding, DecideRead, DecideSave, Seen, tables, locals
  <1>4. ASSUME NEW a \in Actions, ThirdPartyActs(a) PROVE Seen'
    BY <1>4 DEF ThirdPartyActs, Seen, tables, locals
  <1>5. CASE UNCHANGED vars
    BY <1>5 DEF Seen, vars, tables, outside, locals
  <1>6. QED BY <1>1, <1>2, <1>3, <1>4, <1>5 DEF Next

\* VERIFIED, and the monitor's announcement, always rest on an effect outside and a
\* stored observation of it.
THEOREM VerifiedIsObserved == Spec => []VerifiedMeansObserved
  <1>1. TypeInv /\ Seen => VerifiedMeansObserved
    BY DEF TypeInv, Seen, VerifiedMeansObserved
  <1>2. QED BY <1>1, InitTypes, NextKeepsTypes, NextKeepsSeen, PTL DEF Spec

(***************************************************************************)
(* Approvals.  execute acts on a copy of the row that it read before it    *)
(* asked for the approval; the invariant says that the copy still names    *)
(* the same approval as the row, and that this approval, once granted,     *)
(* stays granted when decisions are taken one at a time.                   *)
(***************************************************************************)
Permitted == {"save_approved", "save_executing", "invoke", "save_executed",
              "observe", "save_observation", "save_final", "save_raise"}
Executing == Permitted \cup {"save_denied", "require"}

Rows ==
    \A a \in Actions :
        /\ action[a].status # "NONE" => action[a].approval \in 1..Len(approvals[a])
        /\ effects[a] > 0 => /\ action[a].status # "NONE"
                             /\ approvals[a][action[a].approval] = "GRANTED"

Mine(w) ==
    /\ pc[w] = "authorize" => action[job[w]].status # "NONE"
    /\ pc[w] = "save_proposal" =>
          /\ copy[w].status = "PROPOSED"
          /\ copy[w].approval \in 1..Len(approvals[job[w]])
    /\ pc[w] \in Executing =>
          /\ copy[w].status # "NONE" /\ action[job[w]].status # "NONE"
          /\ copy[w].approval = action[job[w]].approval
    /\ pc[w] \in Permitted => approvals[job[w]][copy[w].approval] = "GRANTED"

Undecided ==
    \A d \in Deciders : \A c \in deciding[d] :
        /\ c.index \in 1..Len(approvals[c.key])
        /\ approvals[c.key][c.index] = "PENDING"

ApprovalInv == TypeInv /\ Rows /\ (\A w \in Workers : Mine(w)) /\ Undecided

\* A step that takes no action row away and no granted approval back.
Steady ==
    /\ \A a \in Actions :
          /\ action'[a].status = "NONE" <=> action[a].status = "NONE"
          /\ action'[a].approval = action[a].approval
    /\ \A a \in Actions :
          /\ Len(approvals[a]) <= Len(approvals'[a])
          /\ \A i \in 1..Len(approvals[a]) :
                approvals[a][i] = "GRANTED" => approvals'[a][i] = "GRANTED"

\* Lengths and approval numbers are numbers.
LEMMA Numbers ==
  ASSUME TypeInv, NEW a \in Actions
  PROVE  Len(approvals[a]) \in Nat /\ action[a].approval \in Nat
  BY DEF TypeInv, TypeOK, ActionRow

\* What a steady step leaves of the rows.
LEMMA SteadyKeepsRows ==
  ASSUME TypeInv, TypeInv', Rows, Steady, effects' = effects PROVE Rows'
  <1> SUFFICES ASSUME NEW a \in Actions
               PROVE  /\ action'[a].status # "NONE"
                            => action'[a].approval \in 1..Len(approvals'[a])
                      /\ effects'[a] > 0 =>
                            /\ action'[a].status # "NONE"
                            /\ approvals'[a][action'[a].approval] = "GRANTED"
    BY DEF Rows
  <1>1. Len(approvals[a]) \in Nat /\ Len(approvals'[a]) \in Nat
        /\ action[a].approval \in Nat
    <2>1. Len(approvals'[a]) \in Nat
      BY DEF TypeInv, TypeOK
    <2>2. QED BY <2>1, Numbers
  <1>2. /\ action'[a].status = "NONE" <=> action[a].status = "NONE"
        /\ action'[a].approval = action[a].approval
        /\ Len(approvals[a]) <= Len(approvals'[a])
        /\ \A i \in 1..Len(approvals[a]) :
              approvals[a][i] = "GRANTED" => approvals'[a][i] = "GRANTED"
    BY DEF Steady
  <1>3. QED BY <1>1, <1>2 DEF Rows

\* A steady step of another process leaves a worker what it knows.
LEMMA SteadyKeepsMine ==
  ASSUME TypeInv, TypeInv', Rows, Steady, NEW v \in Workers, Mine(v),
         pc'[v] = pc[v], job'[v] = job[v], copy'[v] = copy[v]
  PROVE  Mine(v)'
  <1>1. job[v] \in Actions
    BY DEF TypeInv, TypeOK
  <1>2. Len(approvals[job[v]]) \in Nat /\ Len(approvals'[job[v]]) \in Nat
    <2>1. Len(approvals'[job[v]]) \in Nat
      BY <1>1 DEF TypeInv, TypeOK
    <2>2. QED BY <1>1, <2>1, Numbers
  <1>3. /\ action'[job[v]].status = "NONE" <=> action[job[v]].status = "NONE"
        /\ action'[job[v]].approval = action[job[v]].approval
        /\ Len(approvals[job[v]]) <= Len(approvals'[job[v]])
        /\ \A i \in 1..Len(approvals[job[v]]) :
              approvals[job[v]][i] = "GRANTED" => approvals'[job[v]][i] = "GRANTED"
    BY <1>1 DEF Steady
  <1>4. action[job[v]].status # "NONE"
           => action[job[v]].approval \in 1..Len(approvals[job[v]])
    BY <1>1 DEF Rows
  <1>5. pc[v] \in Permitted => pc[v] \in Executing
    BY DEF Executing
  <1>6. pc[v] \in Permitted => approvals'[job[v]][copy[v].approval] = "GRANTED"
    BY <1>3, <1>4, <1>5 DEF Mine
  <1>7. pc[v] = "save_proposal" => copy[v].approval \in 1..Len(approvals'[job[v]])
    BY <1>2, <1>3 DEF Mine
  <1>8. QED BY <1>3, <1>6, <1>7 DEF Mine

\* A worker that is permitted stays so on its way through execute.
LEMMA PermittedGoesOn ==
  ASSUME TypeInv, Rows, Steady, approvals' = approvals, NEW w \in Workers, Mine(w),
         pc[w] \in Executing, approvals[job[w]][copy[w].approval] = "GRANTED",
         job'[w] = job[w], copy'[w].approval = copy[w].approval,
         copy'[w].status # "NONE", pc'[w] \in Permitted
  PROVE  Mine(w)'
  <1>1. job[w] \in Actions
    BY DEF TypeInv, TypeOK
  <1>2. pc'[w] # "authorize" /\ pc'[w] # "save_proposal"
    BY DEF Permitted
  <1>3. action'[job[w]].status # "NONE"
        /\ copy[w].approval = action'[job[w]].approval
    BY <1>1 DEF Steady, Mine
  <1>4. QED BY <1>2, <1>3 DEF Mine

\* Saving the copy while executing is steady: the row keeps its approval.
LEMMA SaveIsSteady ==
  ASSUME TypeInv, NEW w \in Workers, Mine(w), approvals' = approvals,
         action' = action \/ (pc[w] \in Executing /\ Save(w))
  PROVE  Steady
  <1>0. TypeOK
    BY DEF TypeInv
  <1>1. /\ \A a \in Actions : Len(approvals[a]) <= Len(approvals'[a])
        /\ \A a \in Actions : \A i \in 1..Len(approvals[a]) :
              approvals[a][i] = "GRANTED" => approvals'[a][i] = "GRANTED"
    BY Numbers
  <1>2. CASE action' = action
    BY <1>1, <1>2 DEF Steady
  <1>3. CASE pc[w] \in Executing /\ Save(w)
    <2>1. /\ copy[w].status # "NONE" /\ action[job[w]].status # "NONE"
          /\ copy[w].approval = action[job[w]].approval
      BY <1>3 DEF Mine
    <2>2. \A a \in Actions : action'[a] = IF a = job[w] THEN copy[w] ELSE action[a]
      BY <1>0, <1>3 DEF TypeOK, Save
    <2>3. QED BY <1>1, <2>1, <2>2 DEF Steady
  <1>4. QED BY <1>2, <1>3

\* The label sets, once for all.
LEMMA LabelFacts ==
  /\ Permitted \subseteq Executing
  /\ {"idle", "ask", "save_proposal", "authorize", "announce"} \cap Executing = {}
  /\ {"save_approved", "save_executing", "invoke", "save_executed", "observe",
      "save_observation", "save_final", "save_raise"} \subseteq Permitted
  /\ {"save_denied", "require"} \subseteq Executing
  /\ {"save_denied", "require"} \cap Permitted = {}
  BY DEF Permitted, Executing

\* A step of one worker that is steady keeps the invariant, if the worker itself
\* knows what it has to.
LEMMA WorkerStepKeeps ==
  ASSUME ApprovalInv, TypeInv', Steady, NEW w \in Workers, Mine(w)',
         \A v \in Workers : v # w => /\ pc'[v] = pc[v] /\ job'[v] = job[v]
                                     /\ copy'[v] = copy[v],
         approvals' = approvals, deciding' = deciding, effects' = effects
  PROVE  ApprovalInv'
  <1>1. Rows'
    BY SteadyKeepsRows DEF ApprovalInv
  <1>2. \A v \in Workers : Mine(v)'
    <2> SUFFICES ASSUME NEW v \in Workers PROVE Mine(v)'
      OBVIOUS
    <2>1. CASE v # w
      BY <2>1, SteadyKeepsMine DEF ApprovalInv
    <2>2. QED BY <2>1
  <1>3. Undecided'
    BY DEF ApprovalInv, Undecided
  <1>4. QED BY <1>1, <1>2, <1>3 DEF ApprovalInv

\* A worker's step keeps the invariant, the approvals being what they were unless
\* it asks for one.
LEMMA RunningKeepsApprovals ==
  ASSUME ApprovalInv, NEW w \in Workers, Running(w) \/ Crash(w) PROVE ApprovalInv'
  <1>0. TypeInv /\ TypeOK /\ Named /\ Rows /\ Mine(w) /\ Undecided /\ TypeInv'
        /\ job[w] \in Actions /\ copy[w] \in ActionRow
    BY RunningKeepsTypes DEF ApprovalInv, TypeInv, TypeOK
  <1>a. ASSUME Exit(w), approvals' = approvals, deciding' = deciding,
               effects' = effects,
               action' = action \/ (pc[w] \in Executing /\ Save(w))
        PROVE  ApprovalInv'
    <2>1. Steady
      BY <1>0, <1>a, SaveIsSteady
    <2>2. /\ pc' = [pc EXCEPT ![w] = "idle"] /\ job' = job
          /\ copy' = [copy EXCEPT ![w] = NoAction]
      BY <1>0, <1>a, ExitTyped
    <2>3. Mine(w)'
      <3>1. pc'[w] = "idle"
        BY <1>0, <2>2 DEF TypeOK
      <3>2. QED BY <3>1, LabelFacts DEF Mine
    <2>4. \A v \in Workers : v # w => /\ pc'[v] = pc[v] /\ job'[v] = job[v]
                                      /\ copy'[v] = copy[v]
      BY <1>0, <2>2 DEF TypeOK
    <2>5. QED BY <1>0, <1>a, <2>1, <2>3, <2>4, WorkerStepKeeps
  <1>b. ASSUME NEW l \in Permitted, Goto(w, l), NEW r,
               copy' = [copy EXCEPT ![w] = r],
               r.approval = copy[w].approval, r.status # "NONE",
               UNCHANGED <<job, mode>>, approvals' = approvals,
               deciding' = deciding, effects' = effects,
               pc[w] \in Executing, approvals[job[w]][copy[w].approval] = "GRANTED",
               action' = action \/ Save(w)
        PROVE  ApprovalInv'
    <2>1. Steady
      BY <1>0, <1>b, SaveIsSteady
    <2>2. pc'[w] = l /\ copy'[w] = r /\ job'[w] = job[w]
      BY <1>0, <1>b DEF TypeOK, Goto
    <2>3. Mine(w)'
      BY <1>0, <1>b, <2>1, <2>2, PermittedGoesOn
    <2>4. \A v \in Workers : v # w => /\ pc'[v] = pc[v] /\ job'[v] = job[v]
                                      /\ copy'[v] = copy[v]
      BY <1>0, <1>b DEF TypeOK, Goto
    <2>5. QED BY <1>0, <1>b, <2>1, <2>3, <2>4, WorkerStepKeeps
  <1>c. ASSUME NEW s, NEW l \in Permitted, Goto(w, l), Set(w, s), s # "NONE",
               UNCHANGED <<job, mode>>, approvals' = approvals,
               deciding' = deciding, effects' = effects,
               pc[w] \in Executing, approvals[job[w]][copy[w].approval] = "GRANTED",
               action' = action \/ Save(w)
        PROVE  ApprovalInv'
    <2> DEFINE r == [copy[w] EXCEPT !.status = s]
    <2>1. r.approval = copy[w].approval /\ r.status = s
      BY <1>0 DEF ActionRow
    <2>2. copy' = [copy EXCEPT ![w] = r]
      BY <1>c DEF Set
    <2> HIDE DEF r
    <2>3. QED BY <1>b, <1>c, <2>1, <2>2
  <1>d. ASSUME NEW l \in Permitted, Goto(w, l), UNCHANGED locals,
               approvals' = approvals, deciding' = deciding, effects' = effects,
               pc[w] \in Executing, approvals[job[w]][copy[w].approval] = "GRANTED",
               action' = action \/ Save(w)
        PROVE  ApprovalInv'
    <2>1. copy' = [copy EXCEPT ![w] = copy[w]]
      BY <1>0, <1>d DEF TypeOK, locals
    <2>2. copy[w].status # "NONE"
      BY <1>0, <1>d DEF Mine
    <2>3. QED BY <1>b, <1>d, <2>1, <2>2 DEF locals
  <1>e. ASSUME pc[w] \in Permitted
        PROVE  pc[w] \in Executing /\ approvals[job[w]][copy[w].approval] = "GRANTED"
    BY <1>0, <1>e, LabelFacts DEF Mine
  <1>f. ASSUME Raise(w), pc[w] \in Permitted, tables' = tables,
               deciding' = deciding, effects' = effects
        PROVE  ApprovalInv'
    BY <1>c, <1>e, <1>f, LabelFacts DEF Raise, tables
  <1>g. ASSUME Goto(w, "announce"), UNCHANGED locals, approvals' = approvals,
               deciding' = deciding, effects' = effects,
               action' = action \/ (pc[w] \in Executing /\ Save(w))
        PROVE  ApprovalInv'
    <2>1. Steady
      BY <1>0, <1>g, SaveIsSteady
    <2>2. pc'[w] = "announce"
      BY <1>0, <1>g DEF TypeOK, Goto
    <2>3. Mine(w)'
      BY <2>2, LabelFacts DEF Mine
    <2>4. \A v \in Workers : v # w => /\ pc'[v] = pc[v] /\ job'[v] = job[v]
                                      /\ copy'[v] = copy[v]
      BY <1>0, <1>g DEF TypeOK, Goto, locals
    <2>5. QED BY <1>0, <1>g, <2>1, <2>3, <2>4, WorkerStepKeeps
  <1>1. CASE Ask(w)
    <2> DEFINE n == Len(approvals[job[w]]) + 1
    <2>1. /\ approvals' = [approvals EXCEPT ![job[w]] = Append(@, "PENDING")]
          /\ copy' = [copy EXCEPT ![w] = [status |-> "PROPOSED",
                                          result |-> FALSE, approval |-> n]]
          /\ pc' = [pc EXCEPT ![w] = "save_proposal"]
          /\ UNCHANGED <<action, outside, job>>
      BY <1>1 DEF Ask, Goto
    <2>2. /\ approvals[job[w]] \in Seq(ApprovalStatus)
          /\ Len(approvals[job[w]]) \in Nat
          /\ Len(Append(approvals[job[w]], "PENDING")) = n
          /\ \A i \in 1..Len(approvals[job[w]]) :
                Append(approvals[job[w]], "PENDING")[i] = approvals[job[w]][i]
      BY <1>0 DEF TypeOK
    <2>3. \A a \in Actions :
             /\ Len(approvals[a]) \in Nat /\ Len(approvals'[a]) \in Nat
             /\ Len(approvals[a]) <= Len(approvals'[a])
             /\ \A i \in 1..Len(approvals[a]) : approvals'[a][i] = approvals[a][i]
      BY <1>0, <2>1, <2>2 DEF TypeOK
    <2>4. Steady
      BY <2>1, <2>3 DEF Steady
    <2>5. Rows'
      BY <1>0, <2>1, <2>4, SteadyKeepsRows DEF outside
    <2>6. \A v \in Workers : Mine(v)'
      <3> SUFFICES ASSUME NEW v \in Workers PROVE Mine(v)'
        OBVIOUS
      <3>1. CASE v # w
        <4>1. pc'[v] = pc[v] /\ job'[v] = job[v] /\ copy'[v] = copy[v]
          BY <1>0, <2>1, <3>1 DEF TypeOK
        <4>2. QED BY <1>0, <2>4, <4>1, SteadyKeepsMine DEF ApprovalInv
      <3>2. CASE v = w
        <4>1. /\ pc'[w] = "save_proposal" /\ copy'[w].status = "PROPOSED"
              /\ copy'[w].approval = n /\ Len(approvals'[job[w]]) = n
              /\ job'[w] = job[w]
          BY <1>0, <2>1, <2>2 DEF TypeOK
        <4>2. n \in 1..n
          BY <2>2
        <4>3. QED BY <3>2, <4>1, <4>2, LabelFacts DEF Mine
      <3>3. QED BY <3>1, <3>2
    <2>7. Undecided'
      <3> SUFFICES ASSUME NEW d \in Deciders, NEW c \in deciding[d]
                   PROVE  /\ c.index \in 1..Len(approvals'[c.key])
                          /\ approvals'[c.key][c.index] = "PENDING"
        BY <2>1 DEF Undecided, outside
      <3>1. c.key \in Actions
        BY <1>0 DEF TypeOK, Decision
      <3>2. /\ c.index \in 1..Len(approvals[c.key])
            /\ approvals[c.key][c.index] = "PENDING"
        BY <1>0 DEF Undecided
      <3>3. QED BY <2>3, <3>1, <3>2
    <2>8. QED BY <1>0, <2>5, <2>6, <2>7 DEF ApprovalInv
  <1>2. CASE SaveProposal(w)
    <2>1. CASE action[job[w]].status # "NONE"
      BY <1>2, <1>a, <2>1 DEF SaveProposal, outside
    <2>2. CASE action[job[w]].status = "NONE"
      <3>1. /\ copy[w].status = "PROPOSED"
            /\ copy[w].approval \in 1..Len(approvals[job[w]])
        BY <1>0, <1>2 DEF SaveProposal, Mine
      <3>2. /\ \A a \in Actions : a # job[w] => action'[a] = action[a]
            /\ action'[job[w]] = copy[w]
            /\ UNCHANGED <<approvals, outside>> /\ Exit(w)
        BY <1>0, <1>2, <2>2 DEF SaveProposal, Save, TypeOK
      <3>3. effects[job[w]] = 0
        BY <1>0, <2>2 DEF Rows, TypeOK
      <3>4. Rows'
        BY <1>0, <3>1, <3>2, <3>3 DEF Rows, outside
      <3>5. /\ pc' = [pc EXCEPT ![w] = "idle"] /\ job' = job
            /\ copy' = [copy EXCEPT ![w] = NoAction]
        BY <1>0, <3>2, ExitTyped
      <3>6. \A v \in Workers : Mine(v)'
        <4> SUFFICES ASSUME NEW v \in Workers PROVE Mine(v)'
          OBVIOUS
        <4>1. CASE v = w
          <5>1. pc'[v] = "idle"
            BY <1>0, <3>5, <4>1 DEF TypeOK
          <5>2. QED BY <5>1, LabelFacts DEF Mine
        <4>2. CASE v # w
          <5>1. pc'[v] = pc[v] /\ job'[v] = job[v] /\ copy'[v] = copy[v]
            BY <1>0, <3>5, <4>2 DEF TypeOK
          <5>2. Mine(v) /\ job[v] \in Actions
            BY <1>0 DEF ApprovalInv, TypeOK
          <5>3. action[job[v]].status # "NONE" => action'[job[v]] = action[job[v]]
            BY <2>2, <3>2, <5>2
          <5>4. copy[w].status # "NONE"
            BY <3>1
          <5>5. QED BY <3>2, <5>1, <5>2, <5>3, LabelFacts DEF Mine
        <4>3. QED BY <4>1, <4>2
      <3>7. Undecided'
        BY <1>0, <3>2 DEF Undecided, outside
      <3>8. QED BY <1>0, <3>4, <3>6, <3>7 DEF ApprovalInv
    <2>3. QED BY <2>1, <2>2
  <1>3. CASE Authorize(w)
    <2>1. CASE job[w] \in matched /\ mode[w] = "poll"
      BY <1>3, <1>g, <2>1 DEF Authorize, Verified, tables, outside
    <2>2. CASE job[w] \in matched /\ mode[w] # "poll"
      BY <1>3, <1>a, <2>2 DEF Authorize, Verified, tables, outside
    <2>3. CASE job[w] \notin matched
      <3> DEFINE row == action[job[w]]
      <3>1. row \in ActionRow /\ row.status # "NONE"
            /\ [row EXCEPT !.status = "DENIED"].approval = row.approval
            /\ [row EXCEPT !.status = "DENIED"].status # "NONE"
        <4>1. row \in ActionRow /\ row.status # "NONE"
          BY <1>0, <1>3 DEF TypeOK, Authorize, Mine
        <4>2. QED BY <4>1 DEF ActionRow
      <3>2. PICK r \in {row, [row EXCEPT !.status = "DENIED"]},
                 l \in {"save_denied", "require"} :
              copy' = [copy EXCEPT ![w] = r] /\ pc' = [pc EXCEPT ![w] = l]
        BY <1>3, <2>3 DEF Authorize, Goto
      <3>3. r.approval = row.approval /\ r.status # "NONE"
        BY <3>1, <3>2
      <3>4. UNCHANGED <<tables, outside, job>>
        BY <1>3, <2>3 DEF Authorize
      <3>5. Steady
        BY <1>0, <3>4, SaveIsSteady DEF tables
      <3>6. copy'[w] = r /\ pc'[w] = l
        BY <1>0, <3>2 DEF TypeOK
      <3>7. Mine(w)'
        <4>1. l \notin Permitted /\ l # "authorize" /\ l # "save_proposal"
          BY <3>2, LabelFacts
        <4>2. QED BY <3>1, <3>3, <3>4, <3>6, <4>1 DEF Mine, tables
      <3>8. \A v \in Workers : v # w => /\ pc'[v] = pc[v] /\ job'[v] = job[v]
                                        /\ copy'[v] = copy[v]
        BY <1>0, <3>2, <3>4 DEF TypeOK
      <3>9. QED BY <1>0, <3>4, <3>5, <3>7, <3>8, WorkerStepKeeps DEF tables, outside
    <2>4. QED BY <2>1, <2>2, <2>3
  <1>4. CASE SaveDenied(w)
    <2>1. /\ pc[w] = "save_denied" /\ Save(w) /\ pc' = [pc EXCEPT ![w] = "require"]
          /\ UNCHANGED <<approvals, outside, locals>>
      BY <1>4 DEF SaveDenied, Goto
    <2>2. Steady
      BY <1>0, <2>1, LabelFacts, SaveIsSteady
    <2>3. pc'[w] = "require"
      BY <1>0, <2>1 DEF TypeOK
    <2>4. Mine(w)'
      <3>1. "require" \notin Permitted /\ pc[w] \in Executing
        BY <2>1, LabelFacts
      <3>2. action'[job[w]] = copy[w] /\ copy[w].status # "NONE"
        BY <1>0, <2>1, <3>1 DEF TypeOK, Save, Mine
      <3>3. QED BY <2>1, <2>3, <3>1, <3>2 DEF Mine, locals
    <2>5. \A v \in Workers : v # w => /\ pc'[v] = pc[v] /\ job'[v] = job[v]
                                      /\ copy'[v] = copy[v]
      BY <1>0, <2>1 DEF TypeOK, locals
    <2>6. QED BY <1>0, <2>1, <2>2, <2>4, <2>5, WorkerStepKeeps DEF outside
  <1>5. CASE Require(w)
    <2>1. CASE Exit(w)
      BY <1>5, <1>a, <2>1 DEF Require, tables, outside
    <2>2. CASE Approval(w) = "GRANTED" /\ Goto(w, "observe") /\ UNCHANGED locals
      BY <1>5, <1>d, <2>2, LabelFacts DEF Require, Approval, tables, outside
    <2>3. CASE /\ Approval(w) = "GRANTED" /\ Set(w, "APPROVED")
               /\ Goto(w, "save_approved") /\ UNCHANGED <<job, mode>>
      BY <1>5, <1>c, <2>3, LabelFacts DEF Require, Approval, tables, outside
    <2>4. QED BY <1>5, <2>1, <2>2, <2>3 DEF Require
  <1>6. CASE SaveApproved(w)
    BY <1>6, <1>c, <1>e, LabelFacts DEF SaveApproved, outside
  <1>7. CASE SaveExecuting(w)
    BY <1>7, <1>d, <1>e, LabelFacts DEF SaveExecuting, outside
  <1>8. CASE InvokeFails(w)
    BY <1>8, <1>f, LabelFacts DEF InvokeFails, outside
  <1>9. CASE InvokeActs(w)
    <2>1. /\ effects' = [effects EXCEPT ![job[w]] = @ + 1]
          /\ UNCHANGED <<tables, deciding, job>> /\ pc[w] = "invoke"
      BY <1>9 DEF InvokeActs, Raise
    <2>2. pc[w] \in Executing /\ approvals[job[w]][copy[w].approval] = "GRANTED"
      BY <1>e, <2>1, LabelFacts
    <2>3. /\ action[job[w]].status # "NONE"
          /\ copy[w].approval = action[job[w]].approval /\ copy[w].status # "NONE"
      BY <1>0, <2>2 DEF Mine
    <2>4. Rows'
      BY <1>0, <2>1, <2>2, <2>3 DEF Rows, TypeOK, tables
    <2>5. Steady
      BY <1>0, <2>1, SaveIsSteady DEF tables
    <2>6. \A v \in Workers : v # w => /\ pc'[v] = pc[v] /\ job'[v] = job[v]
                                      /\ copy'[v] = copy[v]
      BY <1>0, <1>9, <2>1 DEF InvokeActs, Raise, Set, Goto, TypeOK
    <2>7. /\ pc'[w] \in Permitted /\ copy'[w].status # "NONE"
          /\ copy'[w].approval = copy[w].approval
      <3>1. CASE Raise(w)
        <4>1. pc'[w] = "save_raise"
          BY <1>0, <3>1 DEF Raise, Goto, TypeOK
        <4>2. copy'[w].status = "FAILED" /\ copy'[w].approval = copy[w].approval
          BY <1>0, <3>1 DEF Raise, Set, TypeOK, ActionRow
        <4>3. QED BY <4>1, <4>2, LabelFacts
      <3>2. CASE /\ copy' = [copy EXCEPT ![w].result = TRUE, ![w].status = "EXECUTED"]
                 /\ Goto(w, "save_executed")
        <4>1. pc'[w] = "save_executed"
          BY <1>0, <3>2 DEF Goto, TypeOK
        <4>2. copy'[w].status = "EXECUTED" /\ copy'[w].approval = copy[w].approval
          BY <1>0, <3>2 DEF TypeOK, ActionRow
        <4>3. QED BY <4>1, <4>2, LabelFacts
      <3>3. QED BY <1>9, <3>1, <3>2 DEF InvokeActs
    <2>8. Mine(w)'
      BY <1>0, <2>1, <2>2, <2>5, <2>7, PermittedGoesOn DEF tables
    <2>9. \A v \in Workers : Mine(v)'
      <3> SUFFICES ASSUME NEW v \in Workers, v # w PROVE Mine(v)'
        BY <2>8
      <3>1. QED BY <1>0, <2>5, <2>6, SteadyKeepsMine DEF ApprovalInv
    <2>10. Undecided'
      BY <1>0, <2>1 DEF Undecided, tables
    <2>11. QED BY <1>0, <2>4, <2>9, <2>10 DEF ApprovalInv
  <1>10. CASE SaveExecuted(w)
    BY <1>10, <1>d, <1>e, LabelFacts DEF SaveExecuted, outside
  <1>11. CASE ObserveUnreadable(w)
    <2>1. CASE Raise(w)
      BY <1>11, <1>f, <2>1, LabelFacts DEF ObserveUnreadable, outside
    <2>2. CASE Goto(w, "save_raise") /\ UNCHANGED locals
      BY <1>11, <1>d, <1>e, <2>2, LabelFacts DEF ObserveUnreadable, tables, outside
    <2>3. QED BY <1>11, <2>1, <2>2 DEF ObserveUnreadable
  <1>12. CASE Observe(w)
    <2>1. PICK s \in {"VERIFIED", "AWAITING_EXTERNAL", "FAILED"} : Set(w, s)
      BY <1>12 DEF Observe
    <2>2. QED BY <1>12, <1>c, <1>e, <2>1, LabelFacts DEF Observe, tables, outside
  <1>13. CASE SaveObservation(w)
    BY <1>13, <1>d, <1>e, LabelFacts DEF SaveObservation, outside
  <1>14. CASE SaveFinal(w)
    <2>1. CASE Exit(w)
      BY <1>14, <1>a, <1>e, <2>1, LabelFacts DEF SaveFinal, outside
    <2>2. CASE Goto(w, "announce") /\ UNCHANGED locals
      BY <1>14, <1>g, <1>e, <2>2, LabelFacts DEF SaveFinal, outside
    <2>3. QED BY <1>14, <2>1, <2>2 DEF SaveFinal, Verified
  <1>15. CASE SaveRaise(w)
    BY <1>15, <1>a, <1>e, LabelFacts DEF SaveRaise, outside
  <1>16. CASE Announce(w)
    BY <1>16, <1>a DEF Announce, outside
  <1>17. CASE Crash(w)
    BY <1>17, <1>a DEF Crash, tables, outside
  <1>18. QED BY <1>1, <1>2, <1>3, <1>4, <1>5, <1>6, <1>7, <1>8, <1>9, <1>10,
                <1>11, <1>12, <1>13, <1>14, <1>15, <1>16, <1>17 DEF Running

\* The other steps keep the invariant, if decisions are taken one at a time.
LEMMA NextKeepsApprovals ==
  ASSUME \A d, e \in Deciders : d = e
  PROVE  ApprovalInv /\ [Next]_vars => ApprovalInv'
  <1> SUFFICES ASSUME ApprovalInv, [Next]_vars PROVE ApprovalInv'
    OBVIOUS
  <1>0. TypeInv /\ TypeOK /\ Named /\ Rows /\ Undecided /\ TypeInv'
    BY NextKeepsTypes DEF ApprovalInv, TypeInv
  <1>1. CASE \E w \in Workers : Running(w) \/ Crash(w)
    BY <1>1, RunningKeepsApprovals
  <1>2. ASSUME NEW w \in Workers, NEW a \in Actions,
               Propose(w, a) \/ Execute(w, a) \/ Poll(w, a)
        PROVE  ApprovalInv'
    <2>1. PICK l \in {"ask", "authorize"} :
             /\ pc' = [pc EXCEPT ![w] = l]
             /\ l = "authorize" => action[a].status # "NONE"
             /\ job' = [job EXCEPT ![w] = a]
             /\ UNCHANGED <<tables, outside, copy>>
      BY <1>2 DEF Propose, Execute, Poll, Goto
    <2>2. Steady
      BY <1>0, <2>1, Numbers DEF Steady, tables
    <2>3. pc'[w] = l /\ job'[w] = a
      BY <1>0, <2>1 DEF TypeOK
    <2>4. Mine(w)'
      <3>1. l \notin Executing /\ l \notin Permitted /\ l # "save_proposal"
        BY LabelFacts
      <3>2. QED BY <2>1, <2>3, <3>1 DEF Mine, tables
    <2>5. \A v \in Workers : v # w => /\ pc'[v] = pc[v] /\ job'[v] = job[v]
                                      /\ copy'[v] = copy[v]
      BY <1>0, <2>1 DEF TypeOK
    <2>6. QED BY <1>0, <2>1, <2>2, <2>4, <2>5, WorkerStepKeeps DEF tables, outside
  <1>3. ASSUME NEW d \in Deciders, NEW a \in Actions, NEW i \in 1..MaxAsked,
               NEW verdict \in {"GRANTED", "DENIED"}, DecideRead(d, a, i, verdict)
        PROVE  ApprovalInv'
    <2> DEFINE c == [key |-> a, index |-> i, verdict |-> verdict]
    <2>1. /\ i \in DOMAIN approvals[a] /\ approvals[a][i] = "PENDING"
          /\ deciding' = [deciding EXCEPT ![d] = {c}]
          /\ UNCHANGED <<tables, effects, pc, locals>>
      BY <1>3 DEF DecideRead
    <2>2. i \in 1..Len(approvals[a])
      BY <1>0, <2>1 DEF TypeOK
    <2>3. c.key = a /\ c.index = i
      OBVIOUS
    <2> HIDE DEF c
    <2>4. Undecided'
      <3> SUFFICES ASSUME NEW e \in Deciders, NEW x \in deciding'[e]
                   PROVE  /\ x.index \in 1..Len(approvals[x.key])
                          /\ approvals[x.key][x.index] = "PENDING"
        BY <2>1 DEF Undecided, tables
      <3>1. x = c \/ x \in deciding[e]
        BY <1>0, <2>1 DEF TypeOK
      <3>2. QED BY <1>0, <2>1, <2>2, <2>3, <3>1 DEF Undecided
    <2>5. Rows'
      BY <1>0, <2>1 DEF Rows, tables
    <2>6. \A w \in Workers : Mine(w)'
      BY <2>1 DEF ApprovalInv, Mine, tables, locals
    <2>7. QED BY <1>0, <2>4, <2>5, <2>6 DEF ApprovalInv
  <1>4. ASSUME NEW d \in Deciders, DecideSave(d) PROVE ApprovalInv'
    <2>1. PICK c \in deciding[d] :
             approvals' = [approvals EXCEPT ![c.key][c.index] = c.verdict]
      BY <1>4 DEF DecideSave
    <2>2. /\ deciding' = [deciding EXCEPT ![d] = {}]
          /\ UNCHANGED <<action, effects, pc, locals>>
      BY <1>4 DEF DecideSave
    <2>3. c.key \in Actions /\ c.verdict \in ApprovalStatus
          /\ c.index \in 1..Len(approvals[c.key])
          /\ approvals[c.key][c.index] = "PENDING"
      BY <1>0, <2>1 DEF TypeOK, Decision, ApprovalStatus, Undecided
    <2>4. /\ Len([approvals[c.key] EXCEPT ![c.index] = c.verdict])
                = Len(approvals[c.key])
          /\ \A i \in 1..Len(approvals[c.key]) : i # c.index =>
                [approvals[c.key] EXCEPT ![c.index] = c.verdict][i]
                   = approvals[c.key][i]
      <3>1. approvals[c.key] \in Seq(ApprovalStatus)
        BY <1>0, <2>3 DEF TypeOK
      <3>2. QED BY <2>3, <3>1, ApprovalWritten
    <2>5. \A a \in Actions :
             /\ Len(approvals'[a]) = Len(approvals[a])
             /\ \A i \in 1..Len(approvals[a]) :
                   approvals[a][i] = "GRANTED" => approvals'[a][i] = "GRANTED"
      <3> SUFFICES ASSUME NEW a \in Actions
                   PROVE  /\ Len(approvals'[a]) = Len(approvals[a])
                          /\ \A i \in 1..Len(approvals[a]) :
                               approvals[a][i] = "GRANTED"
                                  => approvals'[a][i] = "GRANTED"
        OBVIOUS
      <3>1. CASE a # c.key
        <4>1. approvals'[a] = approvals[a]
          BY <1>0, <2>1, <2>3, <3>1 DEF TypeOK
        <4>2. QED BY <4>1
      <3>2. CASE a = c.key
        <4>1. approvals'[a] = [approvals[a] EXCEPT ![c.index] = c.verdict]
          BY <1>0, <2>1, <2>3, <3>2 DEF TypeOK
        <4>2. QED BY <2>3, <2>4, <3>2, <4>1
      <3>3. QED BY <3>1, <3>2
    <2>6. Steady
      BY <1>0, <2>2, <2>5, Numbers DEF Steady
    <2>7. Rows'
      BY <1>0, <2>2, <2>6, SteadyKeepsRows
    <2>8. \A v \in Workers : Mine(v)'
      BY <1>0, <2>2, <2>6, SteadyKeepsMine DEF ApprovalInv, locals
    <2>9. Undecided'
      <3>1. \A e \in Deciders : deciding'[e] = {}
        BY <1>0, <2>2 DEF TypeOK
      <3>2. QED BY <3>1 DEF Undecided
    <2>10. QED BY <1>0, <2>7, <2>8, <2>9 DEF ApprovalInv
  <1>5. ASSUME NEW a \in Actions, ThirdPartyActs(a) PROVE ApprovalInv'
    <2>1. UNCHANGED <<tables, effects, deciding, pc, locals>>
      BY <1>5 DEF ThirdPartyActs
    <2>2. QED BY <1>0, <2>1 DEF ApprovalInv, Rows, Mine, Undecided, tables, locals
  <1>6. CASE UNCHANGED vars
    BY <1>0, <1>6 DEF ApprovalInv, Rows, Mine, Undecided, vars, tables, outside, locals
  <1>7. QED BY <1>1, <1>2, <1>3, <1>4, <1>5, <1>6 DEF Next, Deciding

\* Nothing is asked, decided or done at the start.
LEMMA InitApprovals == Init => ApprovalInv
  <1> SUFFICES ASSUME Init PROVE ApprovalInv
    OBVIOUS
  <1>1. TypeInv
    BY InitTypes
  <1>2. Rows /\ Undecided
    BY DEF Init, Rows, Undecided, NoAction
  <1>3. \A w \in Workers : Mine(w)
    BY LabelFacts DEF Init, Mine
  <1>4. QED BY <1>1, <1>2, <1>3 DEF ApprovalInv

\* No effect without its approval: whatever overlaps, is proposed twice, or dies,
\* what acted outside was granted by the very approval its row names, as long as
\* decisions are taken one at a time.
THEOREM EffectsAreApproved ==
  ASSUME \A d, e \in Deciders : d = e
  PROVE  Spec => []EffectsApproved
  <1>1. Init => ApprovalInv
    BY InitApprovals
  <1>2. ApprovalInv /\ [Next]_vars => ApprovalInv'
    BY NextKeepsApprovals
  <1>3. ApprovalInv => EffectsApproved
    BY DEF ApprovalInv, TypeInv, TypeOK, Rows, EffectsApproved
  <1>4. QED BY <1>1, <1>2, <1>3, PTL DEF Spec

(***************************************************************************)
(* A recorded result.  When workers take turns, the row a worker read is   *)
(* the row it acts on; the invariant says that no row with a result leads  *)
(* to the executor: it can only be observed again, or is verified.         *)
(***************************************************************************)
Recorded == {"EXECUTED", "AWAITING_EXTERNAL", "FAILED"}

Alone == \A v, w \in Workers : pc[v] # "idle" /\ pc[w] # "idle" => v = w

\* A row with a result is one that execute resumes, or a verified one.
Kept ==
    \A a \in Actions :
        action[a].result =>
            effects[a] > 0 /\ action[a].status \in Recorded \cup {"VERIFIED"}

\* The same of the copy a worker carries, and what it knows of the row.
Carries(w) ==
    /\ pc[w] \in {"save_proposal", "save_denied", "save_approved",
                  "save_executing", "invoke"} => ~copy[w].result
    /\ pc[w] \in {"save_approved", "save_executing", "invoke"}
          => ~action[job[w]].result
    /\ pc[w] = "require" =>
          /\ action[job[w]].result => copy[w].result
          /\ copy[w].result => /\ copy[w].status \in Recorded
                               /\ effects[job[w]] > 0
    /\ pc[w] \in {"save_executed", "observe", "save_observation", "save_final",
                  "save_raise"} /\ copy[w].result
          => /\ copy[w].status \in Recorded \cup {"VERIFIED"}
             /\ effects[job[w]] > 0

OnceInv == ApprovalInv /\ Seen /\ Alone /\ Kept /\ \A w \in Workers : Carries(w)

\* What saving the copy makes of the rows.
LEMMA SavedRow ==
  ASSUME TypeOK, NEW w \in Workers, Save(w)
  PROVE  \A a \in Actions : action'[a] = IF a = job[w] THEN copy[w] ELSE action[a]
  BY DEF TypeOK, Save

\* What setting the status makes of the copy.
LEMMA StatusSet ==
  ASSUME TypeOK, NEW w \in Workers, NEW s, Set(w, s)
  PROVE  copy'[w].status = s /\ copy'[w].result = copy[w].result
  BY DEF TypeOK, Set, ActionRow

\* A worker that has ended carries nothing.
LEMMA ExitCarries ==
  ASSUME TypeOK, NEW w \in Workers, Exit(w)
  PROVE  Carries(w)' /\ \A v \in Workers : v # w => pc'[v] = pc[v]
  <1>1. pc'[w] = "idle" /\ \A v \in Workers : v # w => pc'[v] = pc[v]
    BY DEF TypeOK, Exit, Goto
  <1>2. QED BY <1>1 DEF Carries

\* A saved copy keeps the rows, if it has no result or is one to be kept.
LEMMA SaveKeeps ==
  ASSUME TypeOK, Kept, NEW w \in Workers, Save(w), effects' = effects,
         copy[w].result =>
            /\ copy[w].status \in Recorded \cup {"VERIFIED"}
            /\ effects[job[w]] > 0
  PROVE  Kept'
  BY SavedRow DEF Kept

\* A worker's own step: what it carries, what it leaves in the rows, and that it
\* does not act on a row with a result.
LEMMA RunningKeepsOnce ==
  ASSUME ApprovalInv, Seen, Kept, NEW w \in Workers, Carries(w),
         Running(w) \/ Crash(w)
  PROVE  /\ Kept' /\ Carries(w)' /\ pc[w] # "idle"
         /\ \A v \in Workers : v # w => pc'[v] = pc[v]
         /\ \A a \in Actions : action[a].result => effects'[a] = effects[a]
  <1> DEFINE Goal == /\ Kept' /\ Carries(w)' /\ pc[w] # "idle"
                     /\ \A v \in Workers : v # w => pc'[v] = pc[v]
                     /\ \A a \in Actions :
                           action[a].result => effects'[a] = effects[a]
  <1>0. TypeOK /\ Named /\ Rows /\ job[w] \in Actions /\ copy[w] \in ActionRow
        /\ Mine(w) /\ action[job[w]] \in ActionRow /\ effects[job[w]] \in Nat
    BY DEF ApprovalInv, TypeInv, TypeOK
  <1>a. ASSUME NEW l, Goto(w, l)
        PROVE  pc'[w] = l /\ \A v \in Workers : v # w => pc'[v] = pc[v]
    BY <1>0, <1>a DEF TypeOK, Goto
  <1>b. ASSUME UNCHANGED <<action, effects>> PROVE Kept'
    BY <1>b DEF Kept
  <1>1. CASE Ask(w)
    <2>1. copy'[w].result = FALSE /\ pc'[w] = "save_proposal"
      BY <1>0, <1>1 DEF Ask, Goto, TypeOK
    <2>2. QED BY <1>1, <1>a, <1>b, <2>1 DEF Ask, Carries, outside
  <1>2. CASE SaveProposal(w)
    <2>1. Kept'
      BY <1>0, <1>2, <1>b, SaveKeeps DEF SaveProposal, Carries, outside
    <2>2. QED BY <1>0, <1>2, <2>1, ExitCarries DEF SaveProposal, outside
  <1>3. CASE Authorize(w)
    <2>1. UNCHANGED <<action, effects>> /\ pc[w] = "authorize"
      BY <1>3 DEF Authorize, tables, outside
    <2>2. CASE job[w] \in matched
      <3>1. Exit(w) \/ Goto(w, "announce")
        BY <1>3, <2>2 DEF Authorize, Verified
      <3>2. CASE Exit(w)
        BY <1>0, <1>b, <2>1, <3>2, ExitCarries
      <3>3. CASE Goto(w, "announce")
        BY <1>a, <1>b, <2>1, <3>3 DEF Carries
      <3>4. QED BY <3>1, <3>2, <3>3
    <2>3. CASE job[w] \notin matched
      <3> DEFINE k == action[job[w]]
                 denied == approvals[job[w]][k.approval] = "DENIED"
      <3>1. /\ copy' = [copy EXCEPT ![w] =
                           IF denied THEN [k EXCEPT !.status = "DENIED"] ELSE k]
            /\ Goto(w, IF denied THEN "save_denied" ELSE "require")
            /\ job' = job
        BY <1>3, <2>3 DEF Authorize
      <3>2. k.result => /\ ~denied /\ effects[job[w]] > 0
                        /\ k.status \in Recorded
        <4>1. k.status # "VERIFIED"
          BY <1>0, <2>3 DEF Seen
        <4>2. k.result => effects[job[w]] > 0 /\ k.status \in Recorded
          BY <1>0, <4>1 DEF Kept
        <4>3. effects[job[w]] > 0 => approvals[job[w]][k.approval] = "GRANTED"
          BY <1>0 DEF Rows
        <4>4. QED BY <4>2, <4>3
      <3>3. copy'[w] = IF denied THEN [k EXCEPT !.status = "DENIED"] ELSE k
        BY <1>0, <3>1 DEF TypeOK
      <3>4. CASE denied
        <4>1. copy'[w].result = k.result /\ pc'[w] = "save_denied"
          BY <1>0, <1>a, <3>1, <3>3, <3>4 DEF ActionRow
        <4>2. ~copy'[w].result
          BY <3>2, <3>4, <4>1
        <4>3. QED BY <1>a, <1>b, <2>1, <3>1, <3>4, <4>1, <4>2 DEF Carries
      <3>5. CASE ~denied
        <4>1. copy'[w] = k /\ pc'[w] = "require"
          BY <1>a, <3>1, <3>3, <3>5
        <4>2. Carries(w)'
          BY <2>1, <3>1, <3>2, <4>1 DEF Carries
        <4>3. QED BY <1>a, <1>b, <2>1, <3>1, <4>2
      <3>6. QED BY <3>4, <3>5
    <2>4. QED BY <2>2, <2>3
  <1>4. CASE SaveDenied(w)
    <2>1. /\ pc[w] = "save_denied" /\ pc'[w] = "require" /\ Save(w)
          /\ UNCHANGED <<effects, job, copy>>
      BY <1>4, <1>a DEF SaveDenied, outside, locals
    <2>2. ~copy[w].result
      BY <2>1 DEF Carries
    <2>3. Kept' /\ action'[job[w]] = copy[w]
      BY <1>0, <2>1, <2>2, SaveKeeps, SavedRow
    <2>4. Carries(w)'
      BY <2>1, <2>2, <2>3 DEF Carries
    <2>5. QED BY <1>4, <1>a, <2>1, <2>3, <2>4 DEF SaveDenied
  <1>5. CASE Require(w)
    <2>1. pc[w] = "require" /\ UNCHANGED <<action, effects>>
      BY <1>5 DEF Require, tables, outside
    <2>2. CASE Exit(w)
      BY <1>0, <1>b, <2>1, <2>2, ExitCarries
    <2>3. CASE Goto(w, "observe") /\ UNCHANGED locals
      <3>1. Carries(w)'
        BY <1>a, <2>1, <2>3 DEF Carries, locals
      <3>2. QED BY <1>a, <1>b, <2>1, <2>3, <3>1
    <2>4. CASE /\ ~Resumes(copy[w]) /\ Set(w, "APPROVED") /\ job' = job
               /\ Goto(w, "save_approved")
      <3>1. ~copy[w].result /\ ~action[job[w]].result
        BY <2>1, <2>4 DEF Resumes, Carries, Recorded
      <3>2. copy'[w].result = copy[w].result /\ pc'[w] = "save_approved"
        BY <1>0, <1>a, <2>4, StatusSet
      <3>3. Carries(w)'
        BY <2>1, <2>4, <3>1, <3>2 DEF Carries
      <3>4. QED BY <1>a, <1>b, <2>1, <2>4, <3>3
    <2>5. QED BY <1>5, <2>2, <2>3, <2>4 DEF Require
  <1>6. CASE SaveApproved(w)
    <2>1. /\ pc[w] = "save_approved" /\ pc'[w] = "save_executing" /\ Save(w)
          /\ Set(w, "EXECUTING") /\ UNCHANGED <<effects, job>>
      BY <1>6, <1>a DEF SaveApproved, outside
    <2>2. ~copy[w].result
      BY <2>1 DEF Carries
    <2>3. Kept' /\ action'[job[w]] = copy[w]
      BY <1>0, <2>1, <2>2, SaveKeeps, SavedRow
    <2>4. copy'[w].result = copy[w].result
      BY <1>0, <2>1, StatusSet
    <2>5. Carries(w)'
      BY <2>1, <2>2, <2>3, <2>4 DEF Carries
    <2>6. QED BY <1>6, <1>a, <2>1, <2>3, <2>5 DEF SaveApproved
  <1>7. CASE SaveExecuting(w)
    <2>1. /\ pc[w] = "save_executing" /\ pc'[w] = "invoke" /\ Save(w)
          /\ UNCHANGED <<effects, job, copy>>
      BY <1>7, <1>a DEF SaveExecuting, outside, locals
    <2>2. ~copy[w].result
      BY <2>1 DEF Carries
    <2>3. Kept' /\ action'[job[w]] = copy[w]
      BY <1>0, <2>1, <2>2, SaveKeeps, SavedRow
    <2>4. Carries(w)'
      BY <2>1, <2>2, <2>3 DEF Carries
    <2>5. QED BY <1>7, <1>a, <2>1, <2>3, <2>4 DEF SaveExecuting
  <1>c. ASSUME Raise(w), job' = job,
               copy[w].result => effects'[job[w]] > 0
        PROVE  Carries(w)' /\ \A v \in Workers : v # w => pc'[v] = pc[v]
    <2>1. /\ pc'[w] = "save_raise" /\ copy'[w].status = "FAILED"
          /\ copy'[w].result = copy[w].result
      BY <1>0, <1>a, <1>c, StatusSet DEF Raise
    <2>2. Carries(w)'
      BY <1>c, <2>1 DEF Carries, Recorded
    <2>3. QED BY <1>a, <1>c, <2>2 DEF Raise
  <1>8. CASE InvokeFails(w)
    <2>1. /\ pc[w] = "invoke" /\ Raise(w) /\ job' = job
          /\ UNCHANGED <<action, effects>>
      BY <1>8 DEF InvokeFails, Raise, tables, outside
    <2>2. ~copy[w].result
      BY <2>1 DEF Carries
    <2>3. QED BY <1>b, <1>c, <2>1, <2>2
  <1>9. CASE InvokeActs(w)
    <2>1. /\ pc[w] = "invoke" /\ action' = action
          /\ effects' = [effects EXCEPT ![job[w]] = @ + 1]
      BY <1>9 DEF InvokeActs, tables
    <2>2. ~copy[w].result /\ ~action[job[w]].result
      BY <2>1 DEF Carries
    <2>3. /\ effects'[job[w]] > 0
          /\ \A a \in Actions : a # job[w] => effects'[a] = effects[a]
      BY <1>0, <2>1 DEF TypeOK
    <2>4. Kept' /\ \A a \in Actions : action[a].result => effects'[a] = effects[a]
      BY <2>1, <2>2, <2>3 DEF Kept
    <2>5. CASE /\ copy' = [copy EXCEPT ![w].result = TRUE,
                                       ![w].status = "EXECUTED"]
               /\ Goto(w, "save_executed") /\ job' = job
      <3>1. copy'[w].status = "EXECUTED" /\ pc'[w] = "save_executed"
        BY <1>0, <1>a, <2>5 DEF TypeOK, ActionRow
      <3>2. Carries(w)'
        BY <2>3, <2>5, <3>1 DEF Carries, Recorded
      <3>3. QED BY <1>a, <2>1, <2>4, <2>5, <3>2
    <2>6. CASE Raise(w)
      <3>1. job' = job
        BY <2>6 DEF Raise
      <3>2. QED BY <1>c, <2>1, <2>2, <2>4, <2>6, <3>1
    <2>7. QED BY <1>9, <2>5, <2>6 DEF InvokeActs
  <1>10. CASE SaveExecuted(w)
    <2>1. /\ pc[w] = "save_executed" /\ pc'[w] = "observe" /\ Save(w)
          /\ UNCHANGED <<effects, job, copy>>
      BY <1>10, <1>a DEF SaveExecuted, outside, locals
    <2>2. Kept'
      BY <1>0, <2>1, SaveKeeps DEF Carries
    <2>3. Carries(w)'
      BY <2>1 DEF Carries
    <2>4. QED BY <1>10, <1>a, <2>1, <2>2, <2>3 DEF SaveExecuted
  <1>11. CASE ObserveUnreadable(w)
    <2>1. /\ pc[w] = "observe" /\ UNCHANGED <<action, effects>>
          /\ (Goto(w, "save_raise") /\ UNCHANGED <<job, copy>>) \/ Raise(w)
      BY <1>11 DEF ObserveUnreadable, tables, outside, locals
    <2>2. CASE Raise(w)
      <3>1. job' = job
        BY <2>2 DEF Raise
      <3>2. copy[w].result => effects'[job[w]] > 0
        BY <2>1 DEF Carries
      <3>3. QED BY <1>b, <1>c, <2>1, <2>2, <3>1, <3>2
    <2>3. CASE Goto(w, "save_raise") /\ UNCHANGED <<job, copy>>
      <3>1. Carries(w)'
        BY <1>a, <2>1, <2>3 DEF Carries
      <3>2. QED BY <1>a, <1>b, <2>1, <2>3, <3>1
    <2>4. QED BY <2>1, <2>2, <2>3
  <1>12. CASE Observe(w)
    <2>1. /\ pc[w] = "observe" /\ UNCHANGED <<action, effects, job>>
          /\ Goto(w, "save_observation")
      BY <1>12 DEF Observe, tables, outside
    <2>2. PICK s \in {"VERIFIED", "AWAITING_EXTERNAL", "FAILED"} : Set(w, s)
      BY <1>12 DEF Observe
    <2>3. /\ copy'[w].status = s /\ copy'[w].result = copy[w].result
          /\ pc'[w] = "save_observation"
      BY <1>0, <1>a, <2>1, <2>2, StatusSet
    <2>4. Carries(w)'
      BY <2>1, <2>2, <2>3 DEF Carries, Recorded
    <2>5. QED BY <1>a, <1>b, <2>1, <2>4
  <1>13. CASE SaveObservation(w)
    <2>1. /\ pc[w] = "save_observation" /\ UNCHANGED <<action, effects, job, copy>>
          /\ Goto(w, "save_final")
      BY <1>13 DEF SaveObservation, outside, locals
    <2>2. Carries(w)'
      BY <1>a, <2>1 DEF Carries
    <2>3. QED BY <1>a, <1>b, <2>1, <2>2
  <1>14. CASE SaveFinal(w)
    <2>1. /\ pc[w] = "save_final" /\ Save(w) /\ effects' = effects
          /\ Exit(w) \/ Goto(w, "announce")
      BY <1>14 DEF SaveFinal, Verified, outside
    <2>2. Kept'
      BY <1>0, <2>1, SaveKeeps DEF Carries
    <2>3. CASE Exit(w)
      BY <1>0, <2>1, <2>2, <2>3, ExitCarries
    <2>4. CASE Goto(w, "announce")
      BY <1>a, <2>1, <2>2, <2>4 DEF Carries
    <2>5. QED BY <2>1, <2>3, <2>4
  <1>15. CASE SaveRaise(w)
    <2>1. pc[w] = "save_raise" /\ Save(w) /\ effects' = effects /\ Exit(w)
      BY <1>15 DEF SaveRaise, outside
    <2>2. Kept'
      BY <1>0, <2>1, SaveKeeps DEF Carries
    <2>3. QED BY <1>0, <2>1, <2>2, ExitCarries
  <1>16. CASE Announce(w) \/ Crash(w)
    <2>1. pc[w] # "idle" /\ Exit(w) /\ UNCHANGED <<action, effects>>
      BY <1>16 DEF Announce, Crash, tables, outside
    <2>2. QED BY <1>0, <1>b, <2>1, ExitCarries
  <1>17. QED BY <1>1, <1>2, <1>3, <1>4, <1>5, <1>6, <1>7, <1>8, <1>9, <1>10,
                <1>11, <1>12, <1>13, <1>14, <1>15, <1>16 DEF Running

\* Every step keeps it, when workers take turns and decisions are taken one at a
\* time; and none acts on a row with a result.
LEMMA NextKeepsOnce ==
  ASSUME ~Overlap, \A d, e \in Deciders : d = e, OnceInv, [Next]_vars
  PROVE  /\ OnceInv'
         /\ \A a \in Actions : action[a].result => effects'[a] = effects[a]
  <1>0. /\ ApprovalInv /\ Seen /\ TypeOK /\ ApprovalInv' /\ Seen'
        /\ Alone /\ Kept /\ \A w \in Workers : Carries(w)
    <2>1. ApprovalInv /\ Seen /\ TypeInv /\ Alone /\ Kept
          /\ \A w \in Workers : Carries(w)
      BY DEF OnceInv, ApprovalInv
    <2>2. ApprovalInv'
      BY <2>1, NextKeepsApprovals
    <2>3. Seen'
      BY <2>1, NextKeepsSeen
    <2>4. QED BY <2>1, <2>2, <2>3 DEF TypeInv
  <1>1. ASSUME NEW w \in Workers, Running(w) \/ Crash(w)
        PROVE  /\ Alone' /\ Kept' /\ \A v \in Workers : Carries(v)'
               /\ \A a \in Actions : action[a].result => effects'[a] = effects[a]
    <2>1. /\ Kept' /\ Carries(w)' /\ pc[w] # "idle"
          /\ \A v \in Workers : v # w => pc'[v] = pc[v]
          /\ \A a \in Actions : action[a].result => effects'[a] = effects[a]
      BY <1>0, <1>1, RunningKeepsOnce
    <2>2. \A v \in Workers : v # w => pc'[v] = "idle"
      BY <1>0, <2>1 DEF Alone
    <2>3. Alone'
      BY <2>2 DEF Alone
    <2>4. \A v \in Workers : Carries(v)'
      <3>1. \A v \in Workers : pc'[v] = "idle" => Carries(v)'
        BY DEF Carries
      <3>2. QED BY <2>1, <2>2, <3>1
    <2>5. QED BY <2>1, <2>3, <2>4
  <1>2. ASSUME NEW w \in Workers, NEW a \in Actions,
               Propose(w, a) \/ Execute(w, a) \/ Poll(w, a)
        PROVE  /\ Alone' /\ Kept' /\ \A v \in Workers : Carries(v)'
               /\ \A b \in Actions : action[b].result => effects'[b] = effects[b]
    <2>1. /\ \A v \in Workers : pc[v] = "idle"
          /\ Goto(w, "ask") \/ Goto(w, "authorize")
          /\ UNCHANGED <<action, effects>>
      BY <1>2 DEF Propose, Execute, Poll, MayStart, tables, outside
    <2>2. /\ pc'[w] \in {"ask", "authorize"}
          /\ \A v \in Workers : v # w => pc'[v] = "idle"
      BY <1>0, <2>1 DEF Goto, TypeOK
    <2>3. Alone'
      BY <2>2 DEF Alone
    <2>4. \A v \in Workers : Carries(v)'
      <3>1. \A v \in Workers : pc'[v] \in {"idle", "ask", "authorize"}
                                  => Carries(v)'
        BY DEF Carries
      <3>2. QED BY <2>2, <3>1
    <2>5. Kept'
      BY <1>0, <2>1 DEF Kept
    <2>6. QED BY <2>1, <2>3, <2>4, <2>5
  <1>3. ASSUME UNCHANGED <<action, effects, pc, job, copy>>
        PROVE  /\ Alone' /\ Kept' /\ \A v \in Workers : Carries(v)'
               /\ \A a \in Actions : action[a].result => effects'[a] = effects[a]
    BY <1>0, <1>3 DEF Alone, Kept, Carries
  <1>4. ASSUME NEW d \in Deciders, Deciding(d)
        PROVE  UNCHANGED <<action, effects, pc, job, copy>>
    BY <1>4 DEF Deciding, DecideRead, DecideSave, tables, locals
  <1>5. ASSUME NEW a \in Actions, ThirdPartyActs(a)
        PROVE  UNCHANGED <<action, effects, pc, job, copy>>
    BY <1>5 DEF ThirdPartyActs, tables, locals
  <1>6. ASSUME UNCHANGED vars
        PROVE  UNCHANGED <<action, effects, pc, job, copy>>
    BY <1>6 DEF vars, tables, outside, locals
  <1>7. /\ Alone' /\ Kept' /\ \A v \in Workers : Carries(v)'
        /\ \A a \in Actions : action[a].result => effects'[a] = effects[a]
    <2>1. CASE \E w \in Workers : Running(w) \/ Crash(w)
      BY <1>1, <2>1
    <2>2. CASE \E w \in Workers, a \in Actions :
                  Propose(w, a) \/ Execute(w, a) \/ Poll(w, a)
      BY <1>2, <2>2
    <2>3. CASE \/ \E d \in Deciders : Deciding(d)
               \/ \E a \in Actions : ThirdPartyActs(a)
               \/ UNCHANGED vars
      <3>1. UNCHANGED <<action, effects, pc, job, copy>>
        BY <1>4, <1>5, <1>6, <2>3
      <3>2. QED BY <1>3, <3>1
    <2>4. QED BY <2>1, <2>2, <2>3 DEF Next
  <1>8. QED BY <1>0, <1>7 DEF OnceInv

\* One worker at a time, decisions one at a time, any crash: once the result of a
\* mutation is on the row, no step repeats the mutation.
THEOREM ResultIsNotRepeated ==
  ASSUME ~Overlap, \A d, e \in Deciders : d = e
  PROVE  Spec => ResultNotRepeated
  <1>1. Init => OnceInv
    <2> SUFFICES ASSUME Init PROVE OnceInv
      OBVIOUS
    <2>1. ApprovalInv /\ Seen
      BY InitApprovals, InitTypes
    <2>2. Alone /\ Kept /\ \A w \in Workers : Carries(w)
      BY DEF Init, Alone, Kept, Carries, NoAction
    <2>3. QED BY <2>1, <2>2 DEF OnceInv
  <1>2. OnceInv /\ [Next]_vars => OnceInv'
    BY NextKeepsOnce
  <1>3. OnceInv /\ [Next]_vars =>
           [\A a \in Actions : action[a].result => effects'[a] = effects[a]]_vars
    BY NextKeepsOnce
  <1>4. QED BY <1>1, <1>2, <1>3, PTL DEF Spec, ResultNotRepeated
=============================================================================
