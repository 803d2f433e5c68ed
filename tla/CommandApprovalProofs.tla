------------------------ MODULE CommandApprovalProofs -----------------------
(***************************************************************************)
(* The approval service is typed whatever overlaps; and when operations    *)
(* come one after the other it implements ApprovalGate and a denial holds  *)
(* its category, for any number of requests, categories and processes.     *)
(***************************************************************************)
EXTENDS CommandApproval, TLAPS

\* A worker that is about to save or to execute has a stored request.
Held ==
    \A w \in Workers :
        pc[w] = "expire" \/ (pc[w] = "act" /\ op[w] \in
                                {"grant", "deny", "execute"})
            => req[w] \in 1..count

ShapeInv == TypeOK /\ Held

\* One operation at a time.
Alone == \A v, w \in Workers : pc[v] # "idle" /\ pc[w] # "idle" => v = w

\* So what a worker has read still stands when it acts on it.
Fresh ==
    \A w \in Workers :
        /\ pc[w] = "expire" => status[req[w]] = "PENDING"
        /\ pc[w] = "act" /\ op[w] \in {"grant", "deny"}
              => status[req[w]] = "PENDING"
        /\ pc[w] = "act" /\ op[w] = "execute" => status[req[w]] = "GRANTED"

TurnInv == ShapeInv /\ Alone /\ Fresh

(***************************************************************************)
(* What the provers need of the constants and of the helpers               *)
(***************************************************************************)
LEMMA Bounds == MaxRequests \in Nat /\ MaxRuns \in Nat /\ MaxCrashes \in Nat
  BY ApprovalAssumption

\* An operation that a get lets go on, by name.
LEMMA ProceedsFacts ==
  ASSUME NEW o, NEW s, Proceeds(o, s)
  PROVE  /\ o \in {"grant", "deny"} => s = "PENDING"
         /\ o = "execute" => s = "GRANTED"
         /\ o = "propose_unless_blocked" => s \notin {"PENDING", "DENIED"}
         /\ o # "get" /\ o # "none"
  BY DEF Proceeds

\* Begin sets four locals of one worker.
LEMMA BeginTyped ==
  ASSUME TypeOK, NEW w \in Workers,
         NEW label \in {"idle", "expire", "act"}, NEW o \in Operations,
         NEW i \in 0..MaxRequests, NEW c \in Categories \cup {"none"},
         Begin(w, label, o, i, c)
  PROVE  /\ pc' \in [Workers -> {"idle", "expire", "act"}]
         /\ op' \in [Workers -> Operations]
         /\ req' \in [Workers -> 0..MaxRequests]
         /\ cat' \in [Workers -> Categories \cup {"none"}]
         /\ pc'[w] = label /\ op'[w] = o /\ req'[w] = i /\ cat'[w] = c
         /\ \A v \in Workers \ {w} :
               /\ pc'[v] = pc[v] /\ op'[v] = op[v] /\ req'[v] = req[v]
               /\ cat'[v] = cat[v]
  BY DEF Begin, TypeOK

LEMMA LeaveTyped ==
  ASSUME TypeOK, NEW w \in Workers, Leave(w)
  PROVE  /\ pc' \in [Workers -> {"idle", "expire", "act"}]
         /\ op' \in [Workers -> Operations]
         /\ req' \in [Workers -> 0..MaxRequests]
         /\ cat' \in [Workers -> Categories \cup {"none"}]
         /\ pc'[w] = "idle"
         /\ \A v \in Workers \ {w} :
               /\ pc'[v] = pc[v] /\ op'[v] = op[v] /\ req'[v] = req[v]
               /\ cat'[v] = cat[v]
  <1>1. "none" \in Operations /\ 0 \in 0..MaxRequests
    BY Bounds DEF Operations
  <1>2. Begin(w, "idle", "none", 0, "none")
    BY DEF Leave
  <1>3. QED BY <1>1, <1>2, BeginTyped

\* The operations only read: they begin with a request that is stored.
LEMMA OperationBegins ==
  ASSUME ShapeInv, NEW w \in Workers, Operation(w)
  PROVE  /\ MayStart(w)
         /\ UNCHANGED <<table, overdue, runs, crashes>>
         /\ \E label \in {"expire", "act"}, o \in Operations,
               i \in 0..MaxRequests, c \in Categories \cup {"none"} :
               /\ Begin(w, label, o, i, c)
               /\ label = "expire" => i \in 1..count /\ status[i] = "PENDING"
               /\ label = "act" /\ o \in {"grant", "deny", "execute"} =>
                     i \in 1..count /\ Proceeds(o, status[i])
               /\ label = "act" => o # "get" /\ o # "none"
               /\ o = "propose_unless_blocked" =>
                     /\ c \in Categories
                     /\ \/ label = "act" /\ InCategory(c) = {}
                        \/ /\ IsLatest(i, c) /\ i \in 1..count
                           /\ label = "act" =>
                                 status[i] \notin {"PENDING", "DENIED"}
  <1>0. count \in 0..MaxRequests /\ MaxRequests \in Nat
    BY Bounds DEF ShapeInv, TypeOK
  <1>1. CASE Start(w)
    <2>1. PICK o \in {"get", "grant", "deny", "execute"}, i \in 1..count :
            Get(w, o, i, "none")
      BY <1>1 DEF Start
    <2>2. o \in Operations /\ i \in 0..MaxRequests
             /\ o # "propose_unless_blocked"
      BY <1>0 DEF Operations
    <2>3. CASE status[i] = "PENDING" /\ i \in overdue
      BY <2>1, <2>2, <2>3, <1>1 DEF Get, Start
    <2>4. CASE ~(status[i] = "PENDING" /\ i \in overdue)
      <3>1. Proceeds(o, status[i]) /\ Begin(w, "act", o, i, "none")
        BY <2>1, <2>4 DEF Get
      <3>2. o # "get" /\ o # "none"
        BY <3>1, ProceedsFacts
      <3>3. QED BY <3>1, <3>2, <2>2, <1>1 DEF Start
    <2>5. QED BY <2>3, <2>4
  <1>2. CASE Propose(w)
    <2>1. PICK c \in Categories : Begin(w, "act", "propose", 0, c)
      BY <1>2 DEF Propose
    <2>2. "propose" \in Operations /\ 0 \in 0..MaxRequests
      BY <1>0 DEF Operations
    <2>3. QED BY <2>1, <2>2, <1>2 DEF Propose
  <1>3. CASE ProposeUnlessBlocked(w)
    <2>0. "propose_unless_blocked" \in Operations /\ 0 \in 0..MaxRequests
      BY <1>0 DEF Operations
    <2>1. PICK c \in Categories :
            \/ /\ InCategory(c) = {}
               /\ Begin(w, "act", "propose_unless_blocked", 0, c)
            \/ \E i \in 1..count :
                  IsLatest(i, c) /\ Get(w, "propose_unless_blocked", i, c)
      BY <1>3 DEF ProposeUnlessBlocked
    <2>2. CASE InCategory(c) = {}
                 /\ Begin(w, "act", "propose_unless_blocked", 0, c)
      BY <2>0, <2>2, <1>3 DEF ProposeUnlessBlocked
    <2>3. CASE \E i \in 1..count :
                  IsLatest(i, c) /\ Get(w, "propose_unless_blocked", i, c)
      <3>1. PICK i \in 1..count :
              IsLatest(i, c) /\ Get(w, "propose_unless_blocked", i, c)
        BY <2>3
      <3>2. i \in 0..MaxRequests
        BY <1>0
      <3>3. CASE status[i] = "PENDING" /\ i \in overdue
        BY <3>1, <3>2, <3>3, <2>0, <1>3 DEF Get, ProposeUnlessBlocked
      <3>4. CASE ~(status[i] = "PENDING" /\ i \in overdue)
        <4>1. /\ Proceeds("propose_unless_blocked", status[i])
              /\ Begin(w, "act", "propose_unless_blocked", i, c)
          BY <3>1, <3>4 DEF Get
        <4>2. status[i] \notin {"PENDING", "DENIED"}
          BY <4>1, ProceedsFacts
        <4>3. QED
          BY <4>1, <4>2, <3>1, <3>2, <2>0, <1>3 DEF ProposeUnlessBlocked
      <3>5. QED BY <3>3, <3>4
    <2>4. QED BY <2>1, <2>2, <2>3
  <1>4. QED BY <1>1, <1>2, <1>3 DEF Operation

(***************************************************************************)
(* Type correctness                                                        *)
(***************************************************************************)
LEMMA InitShape == Init => ShapeInv
  <1> USE Bounds
  <1>1. Init => TypeOK
    BY DEF Init, TypeOK, Requests, Status, Operations
  <1>2. Init => Held
    BY DEF Init, Held
  <1>3. QED BY <1>1, <1>2 DEF ShapeInv

\* The steps that only read.
LEMMA OperationShape ==
  ASSUME ShapeInv, NEW w \in Workers, Operation(w)
  PROVE  ShapeInv'
  <1>1. PICK label \in {"expire", "act"}, o \in Operations,
             i \in 0..MaxRequests, c \in Categories \cup {"none"} :
          /\ Begin(w, label, o, i, c)
          /\ label = "expire" => i \in 1..count
          /\ label = "act" /\ o \in {"grant", "deny", "execute"}
                => i \in 1..count
    BY OperationBegins
  <1>2. UNCHANGED <<table, overdue, runs, crashes>>
    BY OperationBegins
  <1>3. TypeOK
    BY DEF ShapeInv
  <1>4. /\ pc' \in [Workers -> {"idle", "expire", "act"}]
        /\ op' \in [Workers -> Operations]
        /\ req' \in [Workers -> 0..MaxRequests]
        /\ cat' \in [Workers -> Categories \cup {"none"}]
        /\ pc'[w] = label /\ op'[w] = o /\ req'[w] = i
        /\ \A v \in Workers \ {w} :
              pc'[v] = pc[v] /\ op'[v] = op[v] /\ req'[v] = req[v]
    BY <1>1, <1>3, BeginTyped
  <1>5. TypeOK'
    BY <1>2, <1>3, <1>4 DEF TypeOK, table
  <1>6. Held'
    BY <1>1, <1>2, <1>4 DEF ShapeInv, Held, table
  <1>7. QED BY <1>5, <1>6 DEF ShapeInv

\* A worker that leaves holds nothing, and requests are never deleted.
LEMMA HeldByOthers ==
  ASSUME ShapeInv, NEW w \in Workers, pc'[w] = "idle",
         count' \in Nat, count' >= count,
         \A v \in Workers \ {w} :
            pc'[v] = pc[v] /\ op'[v] = op[v] /\ req'[v] = req[v]
  PROVE  Held'
  <1>1. count \in Nat /\ req \in [Workers -> 0..MaxRequests]
    BY Bounds DEF ShapeInv, TypeOK
  <1>2. \A v \in Workers \ {w} : req[v] \in 1..count => req'[v] \in 1..count'
    BY <1>1
  <1>3. QED BY <1>2 DEF Held, ShapeInv

\* A decision on a stored request leaves the table well formed.
LEMMA SettleTyped ==
  ASSUME TypeOK, NEW i \in 1..count, NEW verdict \in Status,
         status' = [status EXCEPT ![i] = verdict]
  PROVE  /\ status' \in [Requests -> Status \cup {"NONE"}]
         /\ \A j \in Requests : status'[j] = "NONE" <=> j > count
  <1>1. /\ status \in [Requests -> Status \cup {"NONE"}]
        /\ count \in 0..MaxRequests /\ MaxRequests \in Nat
        /\ \A j \in Requests : status[j] = "NONE" <=> j > count
    BY Bounds DEF TypeOK
  <1>2. i \in Requests /\ ~(i > count)
    BY <1>1 DEF Requests
  <1>3. verdict # "NONE"
    BY DEF Status
  <1>4. status' \in [Requests -> Status \cup {"NONE"}]
    BY <1>1
  <1>5. ASSUME NEW j \in Requests
        PROVE  status'[j] = "NONE" <=> j > count
    <2>1. CASE j = i
      BY <2>1, <1>1, <1>2, <1>3
    <2>2. CASE j # i
      BY <2>2, <1>1
    <2>3. QED BY <2>1, <2>2
  <1>6. QED BY <1>4, <1>5

LEMMA ExpireShape ==
  ASSUME ShapeInv, NEW w \in Workers, Expire(w)
  PROVE  ShapeInv'
  <1>0. TypeOK /\ Held /\ MaxRequests \in Nat
    BY Bounds DEF ShapeInv
  <1>1. req[w] \in 1..count
    BY <1>0 DEF Expire, Held
  <1>2. /\ status' \in [Requests -> Status \cup {"NONE"}]
        /\ \A i \in Requests : status'[i] = "NONE" <=> i > count
    <2>1. "EXPIRED" \in Status
      BY DEF Status
    <2>2. QED BY <2>1, <1>0, <1>1, SettleTyped DEF Expire
  <1>3. CASE Leave(w)
    <2>1. TypeOK'
      BY <1>0, <1>2, <1>3, LeaveTyped DEF Expire, TypeOK
    <2>2. Held'
      <3>1. count' = count /\ count \in Nat
        BY <1>0 DEF Expire, TypeOK
      <3>2. QED BY <3>1, <1>0, <1>3, LeaveTyped, HeldByOthers
    <2>3. QED BY <2>1, <2>2 DEF ShapeInv
  <1>4. CASE pc' = [pc EXCEPT ![w] = "act"] /\ UNCHANGED <<op, req, cat>>
    <2>1. TypeOK'
      BY <1>0, <1>2, <1>4 DEF Expire, TypeOK
    <2>2. Held'
      BY <1>0, <1>1, <1>4 DEF Expire, TypeOK, Held
    <2>3. QED BY <2>1, <2>2 DEF ShapeInv
  <1>5. QED BY <1>3, <1>4 DEF Expire

LEMMA DecideShape ==
  ASSUME ShapeInv, NEW w \in Workers, Decide(w)
  PROVE  ShapeInv'
  <1>0. TypeOK /\ Held /\ MaxRequests \in Nat
    BY Bounds DEF ShapeInv
  <1>1. req[w] \in 1..count
    BY <1>0 DEF Decide, Held
  <1>2. /\ status' \in [Requests -> Status \cup {"NONE"}]
        /\ \A i \in Requests : status'[i] = "NONE" <=> i > count
    <2>1. PICK verdict \in {"GRANTED", "DENIED"} :
            status' = [status EXCEPT ![req[w]] = verdict]
      BY DEF Decide
    <2>2. verdict \in Status
      BY DEF Status
    <2>3. QED BY <2>1, <2>2, <1>0, <1>1, SettleTyped
  <1>3. TypeOK'
    BY <1>0, <1>2, LeaveTyped DEF Decide, TypeOK
  <1>4. Held'
    <2>1. count' = count /\ count \in Nat /\ Leave(w)
      BY <1>0 DEF Decide, TypeOK
    <2>2. QED BY <2>1, <1>0, LeaveTyped, HeldByOthers
  <1>5. QED BY <1>3, <1>4 DEF ShapeInv

LEMMA ExecuteShape ==
  ASSUME ShapeInv, NEW w \in Workers, Execute(w)
  PROVE  ShapeInv'
  <1>0. TypeOK /\ Held /\ MaxRequests \in Nat /\ MaxRuns \in Nat
    BY Bounds DEF ShapeInv
  <1>1. runs' \in [Requests -> 0..MaxRuns]
    <2>1. req[w] \in Requests
      BY <1>0 DEF Execute, Held, TypeOK, Requests
    <2>2. runs \in [Requests -> 0..MaxRuns] /\ runs[req[w]] < MaxRuns
             /\ runs' = [runs EXCEPT ![req[w]] = runs[req[w]] + 1]
      BY <1>0 DEF Execute, TypeOK
    <2>3. runs[req[w]] + 1 \in 0..MaxRuns
      BY <2>1, <2>2, <1>0
    <2>4. QED BY <2>2, <2>3
  <1>2. Leave(w) /\ UNCHANGED <<table, overdue, crashes>>
    BY DEF Execute
  <1>3. TypeOK'
    BY <1>0, <1>1, <1>2, LeaveTyped DEF TypeOK, table
  <1>4. Held'
    <2>1. count' = count /\ count \in Nat
      BY <1>0, <1>2 DEF table, TypeOK
    <2>2. QED BY <2>1, <1>0, <1>2, LeaveTyped, HeldByOthers
  <1>5. QED BY <1>3, <1>4 DEF ShapeInv

LEMMA InsertShape ==
  ASSUME ShapeInv, NEW w \in Workers, Insert(w)
  PROVE  ShapeInv'
  <1>0. TypeOK /\ Held /\ MaxRequests \in Nat /\ Leave(w)
    BY Bounds DEF ShapeInv, Insert
  <1>1. count' = count + 1 /\ count \in Nat /\ count' \in 1..MaxRequests
    BY <1>0 DEF Insert, TypeOK
  <1>2. /\ status' \in [Requests -> Status \cup {"NONE"}]
        /\ \A i \in Requests : status'[i] = "NONE" <=> i > count'
    BY <1>0, <1>1 DEF Insert, TypeOK, Status, Requests
  <1>3. /\ category' \in [Requests -> Categories \cup {"none"}]
        /\ checked' \in [Requests -> BOOLEAN]
    BY <1>0 DEF Insert, TypeOK
  <1>4. overdue' \subseteq 1..count'
    BY <1>0, <1>1 DEF Insert, TypeOK
  <1>5. TypeOK'
    BY <1>0, <1>1, <1>2, <1>3, <1>4, LeaveTyped DEF Insert, TypeOK
  <1>6. Held'
    BY <1>0, <1>1, LeaveTyped, HeldByOthers
  <1>7. QED BY <1>5, <1>6 DEF ShapeInv

LEMMA CrashShape ==
  ASSUME ShapeInv, NEW w \in Workers, Crash(w)
  PROVE  ShapeInv'
  <1>0. TypeOK /\ Held /\ MaxCrashes \in Nat
    BY Bounds DEF ShapeInv
  <1>1. Leave(w) /\ UNCHANGED <<table, overdue, runs>>
           /\ crashes' \in 0..MaxCrashes
    BY <1>0 DEF Crash, TypeOK
  <1>2. TypeOK'
    BY <1>0, <1>1, LeaveTyped DEF TypeOK, table
  <1>3. Held'
    <2>1. count' = count /\ count \in Nat
      BY <1>0, <1>1, Bounds DEF table, TypeOK
    <2>2. QED BY <2>1, <1>0, <1>1, LeaveTyped, HeldByOthers
  <1>4. QED BY <1>2, <1>3 DEF ShapeInv

LEMMA StepShape == ShapeInv /\ [Next]_vars => ShapeInv'
  <1> SUFFICES ASSUME ShapeInv, [Next]_vars PROVE ShapeInv'
    OBVIOUS
  <1>1. CASE UNCHANGED vars
    BY <1>1 DEF vars, table, work, ShapeInv, TypeOK, Held
  <1>2. CASE TimePasses
    BY <1>2 DEF TimePasses, table, work, ShapeInv, TypeOK, Held
  <1>3. CASE \E w \in Workers : Operation(w) \/ Effect(w) \/ Crash(w)
    BY <1>3, OperationShape, ExpireShape, DecideShape, ExecuteShape,
       InsertShape, CrashShape DEF Effect
  <1>4. QED BY <1>1, <1>2, <1>3 DEF Next

\* The rows of proposed_commands and the copies in the workers' hands keep
\* their types and bounds, whatever overlaps and whoever dies.
THEOREM ApprovalTypeCorrect == Spec => []TypeOK
  <1>1. ShapeInv => TypeOK
    BY DEF ShapeInv
  <1>2. QED BY <1>1, InitShape, StepShape, PTL DEF Spec

(***************************************************************************)
(* One operation at a time: what was read still stands                     *)
(***************************************************************************)
LEMMA InitTurn == Init => TurnInv
  <1>1. Init => ShapeInv
    BY InitShape
  <1>2. Init => Alone /\ Fresh
    BY DEF Init, Alone, Fresh
  <1>3. QED BY <1>1, <1>2 DEF TurnInv

\* Nobody else is at work when a worker acts.
LEMMA OthersIdle ==
  ASSUME TurnInv, NEW w \in Workers, pc[w] # "idle"
  PROVE  \A v \in Workers \ {w} : pc[v] = "idle"
  BY DEF TurnInv, Alone

\* When the only worker that is not idle leaves, nobody is at work.
LEMMA AllIdle ==
  ASSUME TurnInv, NEW w \in Workers, pc[w] # "idle", Leave(w)
  PROVE  (\A v \in Workers : pc'[v] = "idle") /\ Alone' /\ Fresh'
  <1>1. TypeOK
    BY DEF TurnInv, ShapeInv
  <1>2. \A v \in Workers : pc'[v] = "idle"
    BY <1>1, LeaveTyped, OthersIdle
  <1>3. QED BY <1>2 DEF Alone, Fresh

LEMMA OperationTurn ==
  ASSUME ~Overlap, TurnInv, NEW w \in Workers, Operation(w)
  PROVE  Alone' /\ Fresh'
  <1>0. ShapeInv /\ TypeOK
    BY DEF TurnInv, ShapeInv
  <1>1. PICK label \in {"expire", "act"}, o \in Operations,
             i \in 0..MaxRequests, c \in Categories \cup {"none"} :
          /\ Begin(w, label, o, i, c)
          /\ label = "expire" => status[i] = "PENDING"
          /\ label = "act" /\ o \in {"grant", "deny", "execute"} =>
                Proceeds(o, status[i])
    BY <1>0, OperationBegins
  <1>2. (\A v \in Workers : pc[v] = "idle") /\ status' = status
    BY <1>0, OperationBegins DEF MayStart, table
  <1>3. /\ pc'[w] = label /\ op'[w] = o /\ req'[w] = i
        /\ \A v \in Workers \ {w} : pc'[v] = pc[v]
    BY <1>0, <1>1, BeginTyped
  <1>4. Alone'
    BY <1>2, <1>3 DEF Alone
  <1>5. /\ label = "act" /\ o \in {"grant", "deny"} => status[i] = "PENDING"
        /\ label = "act" /\ o = "execute" => status[i] = "GRANTED"
    BY <1>1, ProceedsFacts
  <1>6. Fresh'
    BY <1>1, <1>2, <1>3, <1>5 DEF Fresh
  <1>7. QED BY <1>4, <1>6

\* After the expiry only a proposal goes on, which needs no status.
LEMMA ExpireTurn ==
  ASSUME TurnInv, NEW w \in Workers, Expire(w)
  PROVE  Alone' /\ Fresh'
  <1>0. TypeOK /\ pc[w] = "expire"
    BY DEF TurnInv, ShapeInv, Expire
  <1>1. CASE Leave(w)
    BY <1>0, <1>1, AllIdle
  <1>2. CASE /\ Proceeds(op[w], "EXPIRED")
             /\ pc' = [pc EXCEPT ![w] = "act"] /\ UNCHANGED <<op, req, cat>>
    <2>1. op[w] \notin {"grant", "deny", "execute"}
      BY <1>2, ProceedsFacts
    <2>2. /\ \A v \in Workers \ {w} : pc'[v] = "idle"
          /\ pc'[w] = "act" /\ op'[w] = op[w]
      BY <1>0, <1>2, OthersIdle DEF TypeOK
    <2>3. QED BY <2>1, <2>2 DEF Alone, Fresh
  <1>3. QED BY <1>1, <1>2 DEF Expire

LEMMA StepTurn ==
  ASSUME ~Overlap
  PROVE  TurnInv /\ [Next]_vars => TurnInv'
  <1> SUFFICES ASSUME TurnInv, [Next]_vars PROVE Alone' /\ Fresh'
    BY StepShape DEF TurnInv
  <1>1. CASE UNCHANGED vars
    BY <1>1 DEF vars, table, work, TurnInv, Alone, Fresh
  <1>2. CASE TimePasses
    BY <1>2 DEF TimePasses, table, work, TurnInv, Alone, Fresh
  <1>3. ASSUME NEW w \in Workers, Decide(w) \/ Execute(w) \/ Insert(w)
                                     \/ Crash(w)
        PROVE  Alone' /\ Fresh'
    <2>1. pc[w] # "idle" /\ Leave(w)
      BY <1>3 DEF Decide, Execute, Insert, Crash
    <2>2. QED BY <2>1, AllIdle
  <1>4. CASE \E w \in Workers : Operation(w) \/ Effect(w) \/ Crash(w)
    BY <1>3, <1>4, OperationTurn, ExpireTurn DEF Effect
  <1>5. QED BY <1>1, <1>2, <1>4 DEF Next

(***************************************************************************)
(* The service implements the gate                                         *)
(***************************************************************************)
LEMMA InitGate == Init => Gate!Init
  BY DEF Init, Gate!Init

\* A decision or an expiry, from a copy that still stands, settles a request.
LEMMA SettleGate ==
  ASSUME TurnInv, NEW w \in Workers, Expire(w) \/ Decide(w)
  PROVE  Gate!Next
  <1>0. TypeOK /\ Held /\ Fresh /\ MaxRequests \in Nat
    BY Bounds DEF TurnInv, ShapeInv
  <1>1. req[w] \in 1..count /\ status[req[w]] = "PENDING"
    BY <1>0 DEF Held, Fresh, Expire, Decide
  <1>2. req[w] \in Requests
    BY <1>0, <1>1 DEF TypeOK, Requests
  <1>3. PICK verdict \in Gate!Settled :
          status' = [status EXCEPT ![req[w]] = verdict] /\ runs' = runs
    BY DEF Expire, Decide, Gate!Settled
  <1>4. Gate!Settle(req[w])
    BY <1>1, <1>3 DEF Gate!Settle
  <1>5. QED BY <1>2, <1>4 DEF Gate!Next

LEMMA RunGate ==
  ASSUME TurnInv, NEW w \in Workers, Execute(w)
  PROVE  Gate!Next
  <1>0. TypeOK /\ Held /\ Fresh /\ MaxRequests \in Nat
    BY Bounds DEF TurnInv, ShapeInv
  <1>1. req[w] \in 1..count /\ status[req[w]] = "GRANTED"
    BY <1>0 DEF Held, Fresh, Execute
  <1>2. req[w] \in Requests
    BY <1>0, <1>1 DEF TypeOK, Requests
  <1>3. Gate!Run(req[w])
    BY <1>1 DEF Execute, table, Gate!Run
  <1>4. QED BY <1>2, <1>3 DEF Gate!Next

LEMMA AskGate ==
  ASSUME TurnInv, NEW w \in Workers, Insert(w)
  PROVE  Gate!Next
  <1>0. TypeOK /\ MaxRequests \in Nat
    BY Bounds DEF TurnInv, ShapeInv
  <1>1. count + 1 \in Requests /\ count + 1 > count
    BY <1>0 DEF Insert, TypeOK, Requests
  <1>2. status[count + 1] = "NONE"
    BY <1>0, <1>1 DEF TypeOK
  <1>3. Gate!Ask(count + 1)
    BY <1>2 DEF Insert, Gate!Ask
  <1>4. QED BY <1>1, <1>3 DEF Gate!Next

LEMMA StepGate == TurnInv /\ [Next]_vars => [Gate!Next]_<<status, runs>>
  <1> SUFFICES ASSUME TurnInv, [Next]_vars
               PROVE  Gate!Next \/ UNCHANGED <<status, runs>>
    OBVIOUS
  <1>1. CASE UNCHANGED vars
    BY <1>1 DEF vars, table
  <1>2. CASE TimePasses
    BY <1>2 DEF TimePasses, table
  <1>3. ASSUME NEW w \in Workers, Operation(w) \/ Crash(w)
        PROVE  UNCHANGED <<status, runs>>
    BY <1>3, OperationBegins DEF Crash, table, TurnInv
  <1>4. CASE \E w \in Workers : Operation(w) \/ Effect(w) \/ Crash(w)
    BY <1>3, <1>4, SettleGate, RunGate, AskGate DEF Effect
  <1>5. QED BY <1>1, <1>2, <1>4 DEF Next

\* CommandApprovalService keeps the promise of its docstring, when operations
\* come one after the other: every behaviour of the service, crashes between
\* transactions included, is one of the gate.
THEOREM ServiceImplementsGate ==
  ASSUME ~Overlap
  PROVE  Spec => GateSpec
  <1>1. Init => TurnInv /\ Gate!Init
    BY InitTurn, InitGate
  <1>2. TurnInv /\ [Next]_vars => TurnInv'
    BY StepTurn
  <1>3. TurnInv /\ [Next]_vars => [Gate!Next]_<<status, runs>>
    BY StepGate
  <1>4. QED BY <1>1, <1>2, <1>3, PTL DEF Spec, GateSpec, Gate!Spec

(***************************************************************************)
(* A denial holds its category                                             *)
(***************************************************************************)
Blocking == {"PENDING", "DENIED"}

\* A proposal that was let through still has a clear category: none of its
\* requests, or a last one that does not block.
Clear ==
    \A w \in Workers : op[w] = "propose_unless_blocked" =>
        /\ pc[w] = "expire" => IsLatest(req[w], cat[w])
        /\ pc[w] = "act" =>
              \/ InCategory(cat[w]) = {}
              \/ IsLatest(req[w], cat[w]) /\ status[req[w]] \notin Blocking

DenialInv == TurnInv /\ DenialHoldsCategory /\ Clear

\* DenialHoldsCategory is about rows that exist, and does not mind a request
\* that stops blocking.
LEMMA DenialKept ==
  ASSUME TypeOK, DenialHoldsCategory, UNCHANGED <<count, category, checked>>,
         \A j \in 1..count : status'[j] \in Blocking => status[j] \in Blocking
  PROVE  DenialHoldsCategory'
  <1> SUFFICES ASSUME NEW i \in 1..count, checked[i], NEW j \in 1..(i - 1),
                      category[j] = category[i], status'[j] \in Blocking
               PROVE  \E k \in (j + 1)..(i - 1) :
                         category[k] = category[i] /\ ~checked[k]
    BY DEF DenialHoldsCategory, Blocking
  <1>1. j \in 1..count /\ count \in Nat
    BY Bounds DEF TypeOK
  <1>2. status[j] \in {"PENDING", "DENIED"}
    BY <1>1 DEF Blocking
  <1>3. QED BY <1>2 DEF DenialHoldsCategory

\* With everybody idle nobody has a proposal to make.
LEMMA IdleClear ==
  ASSUME \A v \in Workers : pc'[v] = "idle"
  PROVE  Clear'
  BY DEF Clear

LEMMA OperationDenial ==
  ASSUME ~Overlap, DenialInv, NEW w \in Workers, Operation(w)
  PROVE  DenialHoldsCategory' /\ Clear'
  <1>0. TurnInv /\ ShapeInv /\ TypeOK
    BY DEF DenialInv, TurnInv, ShapeInv
  <1>1. PICK label \in {"expire", "act"}, o \in Operations,
             i \in 0..MaxRequests, c \in Categories \cup {"none"} :
          /\ Begin(w, label, o, i, c)
          /\ o = "propose_unless_blocked" =>
                \/ label = "act" /\ InCategory(c) = {}
                \/ /\ IsLatest(i, c)
                   /\ label = "act" => status[i] \notin Blocking
    BY <1>0, OperationBegins DEF Blocking
  <1>2. (\A v \in Workers : pc[v] = "idle") /\ UNCHANGED table
    BY <1>0, OperationBegins DEF MayStart
  <1>3. /\ pc'[w] = label /\ op'[w] = o /\ req'[w] = i /\ cat'[w] = c
        /\ \A v \in Workers \ {w} : pc'[v] = "idle"
    BY <1>0, <1>1, <1>2, BeginTyped
  <1>4. DenialHoldsCategory'
    BY <1>0, <1>2, DenialKept DEF DenialInv, table
  <1>5. \A d : InCategory(d)' = InCategory(d)
    BY <1>2 DEF InCategory, table
  <1>6. Clear'
    BY <1>1, <1>2, <1>3, <1>5 DEF Clear, IsLatest, table
  <1>7. QED BY <1>4, <1>6

LEMMA ExpireDenial ==
  ASSUME DenialInv, NEW w \in Workers, Expire(w)
  PROVE  DenialHoldsCategory' /\ Clear'
  <1>0. /\ TurnInv /\ TypeOK /\ Held /\ MaxRequests \in Nat
        /\ pc[w] = "expire" /\ UNCHANGED <<count, category, checked>>
    BY Bounds DEF DenialInv, TurnInv, ShapeInv, Expire
  <1>1. req[w] \in 1..count /\ req[w] \in Requests
    BY <1>0 DEF Held, TypeOK, Requests
  <1>2. /\ status'[req[w]] = "EXPIRED"
        /\ \A j \in Requests \ {req[w]} : status'[j] = status[j]
    BY <1>0, <1>1 DEF Expire, TypeOK
  <1>3. \A j \in 1..count : j \in Requests
    BY <1>0 DEF TypeOK, Requests
  <1>4. DenialHoldsCategory'
    BY <1>0, <1>2, <1>3, DenialKept DEF DenialInv, Blocking
  <1>5. CASE Leave(w)
    BY <1>0, <1>4, <1>5, AllIdle, IdleClear
  <1>6. CASE pc' = [pc EXCEPT ![w] = "act"] /\ UNCHANGED <<op, req, cat>>
    <2>1. pc'[w] = "act" /\ \A v \in Workers \ {w} : pc'[v] = "idle"
      BY <1>0, <1>6, OthersIdle DEF TypeOK
    <2>2. \A d : InCategory(d)' = InCategory(d)
      BY <1>0 DEF InCategory
    <2>3. op[w] = "propose_unless_blocked" => IsLatest(req[w], cat[w])
      BY <1>0 DEF DenialInv, Clear
    <2>4. status'[req[w]] \notin Blocking
      BY <1>2 DEF Blocking
    <2>5. Clear'
      BY <1>6, <2>1, <2>2, <2>3, <2>4 DEF Clear, IsLatest
    <2>6. QED BY <1>4, <2>5
  <1>7. QED BY <1>5, <1>6 DEF Expire

LEMMA DecideDenial ==
  ASSUME DenialInv, NEW w \in Workers, Decide(w)
  PROVE  DenialHoldsCategory' /\ Clear'
  <1>0. /\ TurnInv /\ TypeOK /\ Held /\ Fresh /\ MaxRequests \in Nat
        /\ pc[w] # "idle" /\ Leave(w) /\ UNCHANGED <<count, category, checked>>
    BY Bounds DEF DenialInv, TurnInv, ShapeInv, Decide
  <1>1. /\ req[w] \in 1..count /\ status[req[w]] = "PENDING"
        /\ req[w] \in Requests
    BY <1>0 DEF Decide, Held, Fresh, TypeOK, Requests
  <1>2. \A j \in Requests \ {req[w]} : status'[j] = status[j]
    BY <1>0, <1>1 DEF Decide, TypeOK
  <1>3. \A j \in 1..count : j \in Requests
    BY <1>0 DEF TypeOK, Requests
  <1>4. DenialHoldsCategory'
    BY <1>0, <1>1, <1>2, <1>3, DenialKept DEF DenialInv, Blocking
  <1>5. QED BY <1>0, <1>4, AllIdle, IdleClear

\* The argument: what blocks behind a clear last request is itself hidden by
\* an unchecked one, either the last request or one before it.
LEMMA InsertDenial ==
  ASSUME DenialInv, NEW w \in Workers, Insert(w)
  PROVE  DenialHoldsCategory' /\ Clear'
  <1>0. /\ TurnInv /\ TypeOK /\ MaxRequests \in Nat /\ count \in Nat
        /\ pc[w] = "act" /\ Leave(w) /\ count' = count + 1
        /\ count + 1 \in Requests /\ \A j \in 1..count : j \in Requests
    BY Bounds DEF DenialInv, TurnInv, ShapeInv, Insert, TypeOK, Requests
  <1>1. /\ category'[count + 1] = cat[w]
        /\ checked'[count + 1] = (op[w] = "propose_unless_blocked")
        /\ \A j \in 1..count : /\ category'[j] = category[j]
                               /\ checked'[j] = checked[j]
                               /\ status'[j] = status[j]
    BY <1>0 DEF Insert, TypeOK
  <1>2. ASSUME NEW i \in 1..(count + 1), checked'[i], NEW j \in 1..(i - 1),
               category'[j] = category'[i],
               status'[j] \in {"PENDING", "DENIED"}
        PROVE  \E k \in (j + 1)..(i - 1) :
                  category'[k] = category'[i] /\ ~checked'[k]
    <2>0. j \in 1..count /\ status[j] \in Blocking
      BY <1>0, <1>1, <1>2 DEF Blocking
    <2>1. CASE i \in 1..count
      <3>1. checked[i] /\ category[j] = category[i]
               /\ status[j] \in {"PENDING", "DENIED"}
        BY <1>1, <1>2, <2>0, <2>1 DEF Blocking
      <3>2. PICK k \in (j + 1)..(i - 1) :
              category[k] = category[i] /\ ~checked[k]
        BY <2>1, <3>1 DEF DenialInv, DenialHoldsCategory
      <3>3. k \in 1..count
        BY <1>0, <2>0, <2>1
      <3>4. QED BY <1>1, <2>1, <3>2, <3>3
    <2>2. CASE i = count + 1
      <3>1. op[w] = "propose_unless_blocked" /\ category[j] = cat[w]
        BY <1>1, <1>2, <2>0, <2>2
      <3>2. j \in InCategory(cat[w])
        BY <2>0, <3>1 DEF InCategory
      <3>3. IsLatest(req[w], cat[w]) /\ status[req[w]] \notin Blocking
        BY <1>0, <3>1, <3>2 DEF DenialInv, Clear
      <3>4. /\ req[w] \in 1..count /\ category[req[w]] = cat[w]
            /\ j <= req[w] /\ j # req[w]
        BY <2>0, <3>2, <3>3 DEF IsLatest, InCategory
      <3>5. CASE ~checked[req[w]]
        <4>1. req[w] \in (j + 1)..(i - 1)
          BY <1>0, <2>0, <2>2, <3>4
        <4>2. QED BY <1>1, <2>2, <3>4, <3>5, <4>1
      <3>6. CASE checked[req[w]]
        <4>1. j \in 1..(req[w] - 1)
          BY <1>0, <2>0, <3>4
        <4>2. PICK k \in (j + 1)..(req[w] - 1) :
                category[k] = category[req[w]] /\ ~checked[k]
          BY <2>0, <3>1, <3>4, <3>6, <4>1
             DEF DenialInv, DenialHoldsCategory, Blocking
        <4>3. k \in 1..count /\ k \in (j + 1)..(i - 1)
          BY <1>0, <2>0, <2>2, <3>4, <4>1
        <4>4. QED BY <1>1, <2>2, <3>4, <4>2, <4>3
      <3>7. QED BY <3>5, <3>6
    <2>3. QED BY <1>0, <2>1, <2>2
  <1>3. DenialHoldsCategory'
    BY <1>0, <1>2 DEF DenialHoldsCategory
  <1>4. QED BY <1>0, <1>3, AllIdle, IdleClear

LEMMA StepDenial ==
  ASSUME ~Overlap
  PROVE  DenialInv /\ [Next]_vars => DenialInv'
  <1> SUFFICES ASSUME DenialInv, [Next]_vars
               PROVE  DenialHoldsCategory' /\ Clear'
    BY StepTurn DEF DenialInv
  <1>0. TurnInv /\ TypeOK
    BY DEF DenialInv, TurnInv, ShapeInv
  <1>1. CASE UNCHANGED vars
    BY <1>1 DEF vars, table, work, DenialInv, DenialHoldsCategory, Clear,
       IsLatest, InCategory
  <1>2. CASE TimePasses
    BY <1>2 DEF TimePasses, table, work, DenialInv, DenialHoldsCategory,
       Clear, IsLatest, InCategory
  <1>3. ASSUME NEW w \in Workers, Execute(w) \/ Crash(w)
        PROVE  DenialHoldsCategory' /\ Clear'
    <2>1. pc[w] # "idle" /\ Leave(w) /\ UNCHANGED table
      BY <1>3 DEF Execute, Crash
    <2>2. DenialHoldsCategory'
      BY <1>0, <2>1, DenialKept DEF DenialInv, table
    <2>3. QED BY <1>0, <2>1, <2>2, AllIdle, IdleClear
  <1>4. CASE \E w \in Workers : Operation(w) \/ Effect(w) \/ Crash(w)
    BY <1>3, <1>4, OperationDenial, ExpireDenial, DecideDenial, InsertDenial
       DEF Effect
  <1>5. QED BY <1>1, <1>2, <1>4 DEF Next

\* propose_unless_blocked respects every denial that no plain propose has
\* hidden, when operations come one after the other.
THEOREM DenialHolds ==
  ASSUME ~Overlap
  PROVE  Spec => []DenialHoldsCategory
  <1>1. Init => DenialInv
    <2>1. Init => DenialHoldsCategory /\ Clear
      BY DEF Init, DenialHoldsCategory, Clear
    <2>2. QED BY <2>1, InitTurn DEF DenialInv
  <1>2. DenialInv => DenialHoldsCategory
    BY DEF DenialInv
  <1>3. DenialInv /\ [Next]_vars => DenialInv'
    BY StepDenial
  <1>4. QED BY <1>1, <1>2, <1>3, PTL DEF Spec
=============================================================================
