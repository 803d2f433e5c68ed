------------------------- MODULE MonitorLeaseProofs -------------------------
(***************************************************************************)
(* When heartbeats get through in time, the lease excludes: proofs for any *)
(* number of workers, any durations and any backoff schedule.              *)
(***************************************************************************)
EXTENDS MonitorLease, TLAPS

\* A run asks for the lease within MaxAge of captured_at.
Prompt ==
    \A w \in Workers :
        /\ pc[w] = "idle" => age[w] = 0
        /\ pc[w] = "acquire" => age[w] <= MaxAge

\* The reason for the exclusion: whoever runs is the holder of the row, and the
\* row expires exactly Duration after its last renewal.
Held ==
    \A w \in Workers :
        pc[w] \in Holding =>
            holder = w /\ left = Duration - gap[w] /\ gap[w] <= Patience

LeaseInv == TypeOK /\ Prompt /\ Held

\* What the runs and the row know of the observations: nobody is ahead of what
\* was recorded, a run carries the latest or none, and no copy of the backoff row
\* about to be saved is behind the row.
Latest ==
    /\ backoff.last <= made
    /\ \A w \in Workers :
          /\ obs[w] = 0 \/ (obs[w] = made /\ pc[w] \in Holding)
          /\ pc[w] = "save" => row[w].last >= backoff.last /\ row[w].last <= made

\* The label sets, once for all.
LEMMA LabelFacts ==
  /\ Holding \subseteq Labels /\ Working \subseteq Holding
  /\ "idle" \notin Holding /\ "acquire" \notin Holding
  /\ {"observe", "iterate", "succeed", "return", "fail", "save", "release"}
        \subseteq Holding
  BY DEF Holding, Working, Labels

\* What the proofs below use of the constants.
LEMMA Durations ==
  /\ Nobody \notin Workers /\ Ghost \notin Workers /\ Nobody # Ghost
  /\ Duration \in Nat /\ Patience \in Nat /\ MaxAge \in Nat /\ AgeCap \in Nat
  /\ MaxAge <= Patience /\ Patience < Duration
  BY LeaseAssumption

\* BackoffPolicy.delay is a delay: at least one second.
LEMMA DelayTyped ==
  ASSUME NEW fails \in Nat, fails >= 1, NEW j \in Int
  PROVE  Delay(fails, j) \in Nat
  <1>1. Capped(fails, Len(Delays)) \in 1..Len(Delays)
    BY LeaseAssumption DEF Capped
  <1>2. Delays[Capped(fails, Len(Delays))] \in Nat
    BY <1>1, LeaseAssumption
  <1>3. QED BY <1>2 DEF Delay, AtLeast

\* The initial state satisfies the invariant.
LEMMA InitLease == Init => LeaseInv /\ Latest
  BY LeaseAssumption
     DEF Init, LeaseInv, TypeOK, Prompt, Held, Latest, Labels, Holding,
         BackoffRow, BackoffCopy, NoCopy

\* A run that is gone is typed.
LEMMA GoneTyped ==
  ASSUME TypeOK, NEW w \in Workers, Gone(w)
  PROVE  /\ pc' \in [Workers -> Labels]
         /\ age' \in [Workers -> Nat] /\ gap' \in [Workers -> Nat]
         /\ lost' \in [Workers -> BOOLEAN] /\ obs' \in [Workers -> Nat]
         /\ row' \in [Workers -> BackoffCopy]
         /\ next' \in [Workers -> {"iterate", "return", "release"}]
  BY DEF TypeOK, Gone, Goto, Labels, NoCopy, BackoffCopy

\* Every step keeps the types, whether heartbeats are on time or not.
LEMMA NextKeepsTypes == TypeOK /\ [Next]_vars => TypeOK'
  <1> SUFFICES ASSUME TypeOK, [Next]_vars PROVE TypeOK'
    OBVIOUS
  <1> USE Durations
  <1>1. ASSUME NEW w \in Workers, Begin(w) PROVE TypeOK'
    BY <1>1 DEF TypeOK, Begin, Goto, Labels, lease, locals
  <1>2. ASSUME NEW w \in Workers, Acquire(w) PROVE TypeOK'
    <2>1. CASE Available(w)
      <3>1. age[w] \in Nat
        BY DEF TypeOK
      <3>2. /\ holder' = w /\ left' = Duration - age[w]
            /\ gap' = [gap EXCEPT ![w] = age[w]]
            /\ pc' = [pc EXCEPT ![w] = "observe"]
            /\ UNCHANGED <<age, lost, obs, row, next, backoff, made, crashes>>
        BY <1>2, <2>1 DEF Acquire, Goto
      <3>3. left' \in Int /\ left' <= Duration
        BY <3>1, <3>2
      <3>4. QED BY <3>1, <3>2, <3>3 DEF TypeOK, Labels
    <2>2. CASE ~Available(w)
      BY <1>2, <2>2, GoneTyped DEF TypeOK, Acquire, lease
    <2>3. QED BY <2>1, <2>2
  <1>3. ASSUME NEW w \in Workers, Observe(w) PROVE TypeOK'
    <2>1. /\ pc' \in [Workers -> Labels]
          /\ next' \in [Workers -> {"iterate", "return", "release"}]
      BY <1>3 DEF TypeOK, Observe, Goto, Labels
    <2>2. made' \in Nat /\ obs' \in [Workers -> Nat]
      BY <1>3 DEF TypeOK, Observe
    <2>3. QED BY <1>3, <2>1, <2>2 DEF TypeOK, Observe, lease
  <1>4. ASSUME NEW w \in Workers, Iterate(w) PROVE TypeOK'
    BY <1>4 DEF TypeOK, Iterate, Goto, Labels, lease
  <1>5. ASSUME NEW w \in Workers, RecordSuccess(w) PROVE TypeOK'
    BY <1>5 DEF TypeOK, RecordSuccess, Goto, Labels, lease, BackoffRow, BackoffCopy
  <1>6. ASSUME NEW w \in Workers, RecordFailure(w) PROVE TypeOK'
    <2> DEFINE fails == Capped(backoff.fails + 1, Len(Delays))
    <2>1. fails \in Nat /\ fails >= 1 /\ backoff.last \in Nat
      <3>1. backoff.fails \in Nat /\ backoff.last \in Nat
        BY DEF TypeOK, BackoffRow
      <3>2. Len(Delays) \in Nat /\ Len(Delays) > 0
        BY LeaseAssumption
      <3>3. QED BY <3>1, <3>2 DEF Capped
    <2>2. PICK j \in -Jitter..Jitter :
             row' = [row EXCEPT ![w] = [fails |-> fails,
                                        delay |-> Delay(fails, j),
                                        last |-> backoff.last]]
      BY <1>6 DEF RecordFailure
    <2>3. Delay(fails, j) \in Nat
      <3>1. j \in Int
        BY LeaseAssumption
      <3>2. QED BY <2>1, <3>1, DelayTyped
    <2> HIDE DEF fails
    <2>4. row' \in [Workers -> BackoffCopy]
      BY <2>1, <2>2, <2>3 DEF TypeOK, BackoffCopy
    <2>5. QED BY <1>6, <2>4 DEF TypeOK, RecordFailure, Goto, Labels, lease
  <1>7. ASSUME NEW w \in Workers, SaveBackoff(w) PROVE TypeOK'
    <2>1. row[w].fails \in Nat /\ row[w].delay \in Nat /\ row[w].last \in Nat
      BY DEF TypeOK, BackoffCopy
    <2>2. AtLeast(row[w].delay - age[w], 0) \in Nat
      BY <2>1 DEF TypeOK, AtLeast
    <2>3. backoff' \in BackoffRow
      BY <1>7, <2>1, <2>2 DEF SaveBackoff, BackoffRow
    <2>4. QED BY <1>7, <2>3 DEF TypeOK, SaveBackoff, Goto, Labels, lease, locals
  <1>8. ASSUME NEW w \in Workers, Return(w) PROVE TypeOK'
    BY <1>8 DEF TypeOK, Return, Goto, Labels, lease, locals
  <1>9. ASSUME NEW w \in Workers, Release(w) PROVE TypeOK'
    BY <1>9, GoneTyped DEF TypeOK, Release, lease
  <1>10. ASSUME NEW w \in Workers, Renew(w) PROVE TypeOK'
    <2>1. left' \in Int /\ left' <= Duration /\ gap' \in [Workers -> Nat]
      BY <1>10 DEF TypeOK, Renew, lease
    <2>2. lost' \in [Workers -> BOOLEAN]
      BY <1>10 DEF TypeOK, Renew
    <2>3. QED BY <1>10, <2>1, <2>2 DEF TypeOK, Renew, lease
  <1>11. ASSUME NEW w \in Workers, Crash(w) PROVE TypeOK'
    BY <1>11, GoneTyped DEF TypeOK, Crash
  <1>12. CASE Tick
    <2>1. left' \in Int /\ left' <= Duration
      <3>1. left' = AtLeast(left - 1, -MaxAge)
        BY <1>12 DEF Tick
      <3>2. QED BY <3>1 DEF TypeOK, AtLeast
    <2>2. backoff' \in BackoffRow
      <3>1. AtLeast(backoff.wait - 1, 0) \in Nat
        BY DEF TypeOK, BackoffRow, AtLeast
      <3>2. QED BY <1>12, <3>1 DEF TypeOK, Tick, BackoffRow
    <2>3. age' \in [Workers -> Nat]
      <3>1. \A w \in Workers : Capped(age[w] + 1, AgeCap) \in Nat
        BY DEF TypeOK, Capped
      <3>2. QED BY <1>12, <3>1 DEF TypeOK, Tick
    <2>4. gap' \in [Workers -> Nat]
      <3>1. \A w \in Workers : Capped(gap[w] + 1, Duration) \in Nat
        BY DEF TypeOK, Capped
      <3>2. QED BY <1>12, <3>1 DEF TypeOK, Tick
    <2>5. QED BY <1>12, <2>1, <2>2, <2>3, <2>4 DEF TypeOK, Tick
  <1>13. CASE UNCHANGED vars
    BY <1>13 DEF TypeOK, vars, lease, locals
  <1>14. QED
    BY <1>1, <1>2, <1>3, <1>4, <1>5, <1>6, <1>7, <1>8, <1>9, <1>10, <1>11,
       <1>12, <1>13 DEF Next, WorkerStep

\* With heartbeats on time, every step keeps the holder of the row the one who
\* runs: a row that is still renewed never looks expired to an acquire.
LEMMA NextKeepsLease ==
  ASSUME OnTime, LeaseInv, [Next]_vars
  PROVE  LeaseInv'
  <1> USE Durations, LabelFacts
  <1>0. TypeOK'
    BY NextKeepsTypes DEF LeaseInv
  <1> SUFFICES Prompt' /\ Held'
    BY <1>0 DEF LeaseInv
  <1>1. ASSUME NEW w \in Workers, Begin(w) PROVE Prompt' /\ Held'
    BY <1>1 DEF LeaseInv, TypeOK, Prompt, Held, Begin, Goto, lease, locals
  <1>2. ASSUME NEW w \in Workers, Acquire(w) PROVE Prompt' /\ Held'
    <2>1. CASE Available(w)
      <3>1. age[w] <= MaxAge /\ age[w] \in Nat
        BY <1>2 DEF LeaseInv, Prompt, Acquire, TypeOK
      <3>2. \A v \in Workers : pc[v] \notin Holding
        BY <2>1, <3>1 DEF LeaseInv, Held, Available, TypeOK
      <3>3. QED BY <1>2, <2>1, <3>1, <3>2
                DEF LeaseInv, Prompt, Held, Acquire, Goto, TypeOK
    <2>2. CASE ~Available(w)
      BY <1>2, <2>2 DEF LeaseInv, Prompt, Held, Acquire, Gone, Goto, TypeOK, lease
    <2>3. QED BY <2>1, <2>2
  <1>3. ASSUME NEW w \in Workers, Observe(w) PROVE Prompt' /\ Held'
    BY <1>3 DEF LeaseInv, TypeOK, Prompt, Held, Observe, Goto, lease
  <1>4. ASSUME NEW w \in Workers, Iterate(w) PROVE Prompt' /\ Held'
    BY <1>4 DEF LeaseInv, TypeOK, Prompt, Held, Iterate, Goto, lease
  <1>5. ASSUME NEW w \in Workers, RecordSuccess(w) PROVE Prompt' /\ Held'
    BY <1>5 DEF LeaseInv, TypeOK, Prompt, Held, RecordSuccess, Goto, lease
  <1>6. ASSUME NEW w \in Workers, RecordFailure(w) PROVE Prompt' /\ Held'
    BY <1>6 DEF LeaseInv, TypeOK, Prompt, Held, RecordFailure, Goto, lease
  <1>7. ASSUME NEW w \in Workers, SaveBackoff(w) PROVE Prompt' /\ Held'
    BY <1>7 DEF LeaseInv, TypeOK, Prompt, Held, SaveBackoff, Goto, lease, locals
  <1>8. ASSUME NEW w \in Workers, Return(w) PROVE Prompt' /\ Held'
    BY <1>8 DEF LeaseInv, TypeOK, Prompt, Held, Return, Goto, lease, locals
  <1>9. ASSUME NEW w \in Workers, Release(w) PROVE Prompt' /\ Held'
    BY <1>9 DEF LeaseInv, TypeOK, Prompt, Held, Release, Gone, Goto, lease
  <1>10. ASSUME NEW w \in Workers, Renew(w) PROVE Prompt' /\ Held'
    BY <1>10 DEF LeaseInv, TypeOK, Prompt, Held, Renew, lease
  <1>11. ASSUME NEW w \in Workers, Crash(w) PROVE Prompt' /\ Held'
    BY <1>11 DEF LeaseInv, TypeOK, Prompt, Held, Crash, Gone, Goto
  <1>12. CASE Tick
    <2>1. Prompt'
      BY <1>12 DEF LeaseInv, TypeOK, Prompt, Tick, Capped, Clock
    <2>2. ASSUME NEW w \in Workers, pc'[w] \in Holding
          PROVE  holder' = w /\ left' = Duration - gap'[w] /\ gap'[w] <= Patience
      <3>1. pc[w] \in Holding
        BY <1>12, <2>2 DEF Tick
      <3>2. holder = w /\ left = Duration - gap[w] /\ gap[w] \in Nat
        BY <3>1 DEF LeaseInv, Held, TypeOK
      <3>3. gap[w] < Patience
        BY <1>12, <3>1 DEF Tick
      <3>4. gap'[w] = gap[w] + 1
        BY <1>12, <3>1, <3>2, <3>3 DEF Tick, Capped
      <3>5. left' = left - 1
        BY <1>12, <3>2, <3>3 DEF Tick, AtLeast
      <3>6. QED BY <1>12, <3>2, <3>3, <3>4, <3>5 DEF Tick
    <2>3. QED BY <2>1, <2>2 DEF Held
  <1>13. CASE UNCHANGED vars
    BY <1>13 DEF LeaseInv, TypeOK, Prompt, Held, vars, lease, locals
  <1>14. QED
    BY <1>1, <1>2, <1>3, <1>4, <1>5, <1>6, <1>7, <1>8, <1>9, <1>10, <1>11,
       <1>12, <1>13 DEF Next, WorkerStep

\* The invariant excludes two runs.
LEMMA LeaseExcludes ==
  LeaseInv => \A v, w \in Workers :
                 pc[v] \in Holding /\ pc[w] \in Holding => v = w
  BY DEF LeaseInv, Held

\* Type correctness of the gate, late heartbeats included.
THEOREM LeaseTyped == Spec => []TypeOK
  <1>1. Init => TypeOK
    BY InitLease DEF LeaseInv
  <1>2. QED BY <1>1, NextKeepsTypes, PTL DEF Spec

\* As long as a renewal gets through within Patience < Duration, at most one
\* process runs a cycle of the mission, for any number of workers, any durations,
\* and whichever of them die.
THEOREM MonitorRunsAlone ==
  ASSUME OnTime
  PROVE  Spec => []RunsAlone
  <1>1. Init => LeaseInv
    BY InitLease
  <1>2. LeaseInv /\ [Next]_vars => LeaseInv'
    BY NextKeepsLease
  <1>3. LeaseInv => RunsAlone
    BY LeaseExcludes, LabelFacts DEF RunsAlone
  <1>4. QED BY <1>1, <1>2, <1>3, PTL DEF Spec

\* With heartbeats on time, no copy of the backoff row that is saved forgets an
\* observation: whoever saves is alone since it read the row.
LEMMA NextKeepsLatest ==
  ASSUME OnTime, LeaseInv, Latest, [Next]_vars
  PROVE  Latest' /\ backoff'.last >= backoff.last
  <1> USE LabelFacts
  <1>0. /\ made \in Nat /\ backoff.last \in Nat
        /\ \A w \in Workers : obs[w] \in Nat /\ row[w].last \in Nat
        /\ pc \in [Workers -> Labels] /\ obs \in [Workers -> Nat]
        /\ row \in [Workers -> BackoffCopy]
    BY DEF LeaseInv, TypeOK, BackoffRow, BackoffCopy
  <1> USE <1>0
  <1>a. \A v, w \in Workers : pc[v] \in Holding /\ pc[w] \in Holding => v = w
    BY LeaseExcludes
  <1>1. ASSUME NEW w \in Workers, Begin(w)
        PROVE  Latest' /\ backoff'.last >= backoff.last
    BY <1>1 DEF Latest, Begin, Goto, locals
  <1>2. ASSUME NEW w \in Workers, Acquire(w)
        PROVE  Latest' /\ backoff'.last >= backoff.last
    BY <1>2 DEF Latest, Acquire, Gone, Goto
  <1>3. ASSUME NEW w \in Workers, Observe(w)
        PROVE  Latest' /\ backoff'.last >= backoff.last
    <2>1. pc[w] \in Holding /\ pc'[w] \in Holding /\ pc'[w] # "save"
      BY <1>3 DEF Observe, Goto
    <2>2. \A v \in Workers : v # w => obs[v] = 0 /\ pc[v] # "save"
      BY <1>a, <2>1 DEF Latest
    <2>3. \A v \in Workers : v # w => obs'[v] = obs[v] /\ pc'[v] = pc[v]
      BY <1>3 DEF Observe, Goto
    <2>4. backoff' = backoff /\ row' = row /\ made' >= made /\ made' \in Nat
      BY <1>3 DEF Observe
    <2>5. obs'[w] = 0 \/ obs'[w] = made'
      BY <1>3, <2>1 DEF Observe, Latest
    <2>6. QED BY <2>1, <2>2, <2>3, <2>4, <2>5 DEF Latest
  <1>4. ASSUME NEW w \in Workers, Iterate(w)
        PROVE  Latest' /\ backoff'.last >= backoff.last
    BY <1>4 DEF Latest, Iterate, Goto
  <1>5. ASSUME NEW w \in Workers, RecordSuccess(w)
        PROVE  Latest' /\ backoff'.last >= backoff.last
    BY <1>5 DEF Latest, RecordSuccess, Goto
  <1>6. ASSUME NEW w \in Workers, RecordFailure(w)
        PROVE  Latest' /\ backoff'.last >= backoff.last
    <2>1. row'[w].last = backoff.last
      BY <1>6 DEF RecordFailure
    <2>2. \A v \in Workers : v # w => row'[v] = row[v] /\ pc'[v] = pc[v]
      BY <1>6 DEF RecordFailure, Goto
    <2>3. QED BY <1>6, <2>1, <2>2 DEF RecordFailure, Latest, Goto
  <1>7. ASSUME NEW w \in Workers, SaveBackoff(w)
        PROVE  Latest' /\ backoff'.last >= backoff.last
    <2>1. pc[w] = "save" /\ backoff'.last = row[w].last
      BY <1>7 DEF SaveBackoff
    <2>2. \A v \in Workers : v # w => pc[v] # "save"
      BY <1>a, <2>1
    <2>3. pc'[w] \in Holding /\ pc'[w] # "save"
      BY <1>7 DEF SaveBackoff, Goto, LeaseInv, TypeOK
    <2>4. QED BY <1>7, <2>1, <2>2, <2>3 DEF SaveBackoff, Latest, Goto, locals
  <1>8. ASSUME NEW w \in Workers, Return(w)
        PROVE  Latest' /\ backoff'.last >= backoff.last
    BY <1>8 DEF Latest, Return, Goto, locals
  <1>9. ASSUME NEW w \in Workers, Release(w)
        PROVE  Latest' /\ backoff'.last >= backoff.last
    BY <1>9 DEF Latest, Release, Gone, Goto
  <1>10. ASSUME NEW w \in Workers, Renew(w)
        PROVE  Latest' /\ backoff'.last >= backoff.last
    BY <1>10 DEF Latest, Renew
  <1>11. ASSUME NEW w \in Workers, Crash(w)
        PROVE  Latest' /\ backoff'.last >= backoff.last
    BY <1>11 DEF Latest, Crash, Gone, Goto
  <1>12. CASE Tick
    <2>1. backoff'.last = backoff.last
      BY <1>12 DEF Tick, LeaseInv, TypeOK, BackoffRow
    <2>2. QED BY <1>12, <2>1 DEF Tick, Latest
  <1>13. CASE UNCHANGED vars
    BY <1>13 DEF Latest, vars, lease, locals
  <1>14. QED
    BY <1>1, <1>2, <1>3, <1>4, <1>5, <1>6, <1>7, <1>8, <1>9, <1>10, <1>11,
       <1>12, <1>13 DEF Next, WorkerStep

\* With heartbeats on time, last_successful_observation_id never goes back, for
\* any number of workers, failures and deaths.
THEOREM ObservationsKept ==
  ASSUME OnTime
  PROVE  Spec => LastObservationKept
  <1>1. Init => LeaseInv /\ Latest
    BY InitLease
  <1>2. LeaseInv /\ Latest /\ [Next]_vars => (LeaseInv /\ Latest)'
    BY NextKeepsLease, NextKeepsLatest
  <1>3. LeaseInv /\ Latest /\ [Next]_vars => [backoff'.last >= backoff.last]_vars
    BY NextKeepsLatest
  <1>4. QED BY <1>1, <1>2, <1>3, PTL DEF Spec, LastObservationKept

\* What the row says while its holder is on it, late heartbeats included: the
\* holder has not released it, and the row expires Duration after its last
\* renewal, or has expired.
Dated ==
    \A w \in Workers :
        holder = w =>
            /\ pc[w] \in Holding /\ gap[w] <= Duration
            /\ gap[w] < Duration => left = Duration - gap[w]
            /\ gap[w] = Duration => left <= 0

TokenInv == TypeOK /\ Prompt /\ Dated

\* The row's dates are kept by every step, however late the heartbeats are.
LEMMA NextKeepsToken ==
  ASSUME TokenInv, [Next]_vars
  PROVE  TokenInv'
  <1> USE Durations, LabelFacts
  <1>0. TypeOK'
    BY NextKeepsTypes DEF TokenInv
  <1> SUFFICES Prompt' /\ Dated'
    BY <1>0 DEF TokenInv
  <1>1. ASSUME NEW w \in Workers, Begin(w) PROVE Prompt' /\ Dated'
    BY <1>1 DEF TokenInv, TypeOK, Prompt, Dated, Begin, Goto, lease, locals
  <1>2. ASSUME NEW w \in Workers, Acquire(w) PROVE Prompt' /\ Dated'
    <2>1. CASE Available(w)
      <3>1. age[w] <= MaxAge /\ age[w] \in Nat
        BY <1>2 DEF TokenInv, Prompt, Acquire, TypeOK
      <3>2. QED BY <1>2, <2>1, <3>1
                DEF TokenInv, Prompt, Dated, Acquire, Goto, TypeOK
    <2>2. CASE ~Available(w)
      BY <1>2, <2>2
         DEF TokenInv, Prompt, Dated, Acquire, Gone, Goto, TypeOK, lease
    <2>3. QED BY <2>1, <2>2
  <1>3. ASSUME NEW w \in Workers, Observe(w) PROVE Prompt' /\ Dated'
    BY <1>3 DEF TokenInv, TypeOK, Prompt, Dated, Observe, Goto, lease
  <1>4. ASSUME NEW w \in Workers, Iterate(w) PROVE Prompt' /\ Dated'
    BY <1>4 DEF TokenInv, TypeOK, Prompt, Dated, Iterate, Goto, lease
  <1>5. ASSUME NEW w \in Workers, RecordSuccess(w) PROVE Prompt' /\ Dated'
    BY <1>5 DEF TokenInv, TypeOK, Prompt, Dated, RecordSuccess, Goto, lease
  <1>6. ASSUME NEW w \in Workers, RecordFailure(w) PROVE Prompt' /\ Dated'
    BY <1>6 DEF TokenInv, TypeOK, Prompt, Dated, RecordFailure, Goto, lease
  <1>7. ASSUME NEW w \in Workers, SaveBackoff(w) PROVE Prompt' /\ Dated'
    BY <1>7
       DEF TokenInv, TypeOK, Prompt, Dated, SaveBackoff, Goto, lease, locals
  <1>8. ASSUME NEW w \in Workers, Return(w) PROVE Prompt' /\ Dated'
    BY <1>8 DEF TokenInv, TypeOK, Prompt, Dated, Return, Goto, lease, locals
  <1>9. ASSUME NEW w \in Workers, Release(w) PROVE Prompt' /\ Dated'
    BY <1>9 DEF TokenInv, TypeOK, Prompt, Dated, Release, Gone, Goto, lease
  <1>10. ASSUME NEW w \in Workers, Renew(w) PROVE Prompt' /\ Dated'
    BY <1>10 DEF TokenInv, TypeOK, Prompt, Dated, Renew, lease
  <1>11. ASSUME NEW w \in Workers, Crash(w) PROVE Prompt' /\ Dated'
    BY <1>11 DEF TokenInv, TypeOK, Prompt, Dated, Crash, Gone, Goto
  <1>12. CASE Tick
    <2>1. Prompt'
      BY <1>12 DEF TokenInv, TypeOK, Prompt, Tick, Capped, Clock
    <2>2. ASSUME NEW w \in Workers, holder' = w
          PROVE  /\ pc'[w] \in Holding /\ gap'[w] <= Duration
                 /\ gap'[w] < Duration => left' = Duration - gap'[w]
                 /\ gap'[w] = Duration => left' <= 0
      <3>1. holder = w /\ gap[w] \in Nat /\ left \in Int
        BY <1>12, <2>2 DEF Tick, TokenInv, TypeOK
      <3>2. /\ pc[w] \in Holding /\ gap[w] <= Duration
            /\ gap[w] < Duration => left = Duration - gap[w]
            /\ gap[w] = Duration => left <= 0
        BY <3>1 DEF TokenInv, Dated
      <3>3. /\ gap'[w] = Capped(gap[w] + 1, Duration)
            /\ left' = AtLeast(left - 1, -MaxAge) /\ pc' = pc
        BY <1>12, <3>2 DEF Tick
      <3>4. QED BY <3>1, <3>2, <3>3 DEF Capped, AtLeast
    <2>3. QED BY <2>1, <2>2 DEF Dated
  <1>13. CASE UNCHANGED vars
    BY <1>13 DEF TokenInv, TypeOK, Prompt, Dated, vars, lease, locals
  <1>14. QED
    BY <1>1, <1>2, <1>3, <1>4, <1>5, <1>6, <1>7, <1>8, <1>9, <1>10, <1>11,
       <1>12, <1>13 DEF Next, WorkerStep

\* A step that changes a lease still valid is its holder's, or time's.
LEMMA TokenStep ==
  ASSUME TokenInv, [Next]_vars, NEW v \in Workers, holder = v, left > 0,
         pc'[v] = pc[v], gap'[v] = gap[v]
  PROVE  UNCHANGED lease
  <1> USE Durations, LabelFacts
  <1>0. /\ pc \in [Workers -> Labels] /\ gap[v] \in Nat /\ left \in Int
        /\ pc[v] \in Holding /\ gap[v] <= Duration
        /\ gap[v] < Duration => left = Duration - gap[v]
        /\ gap[v] = Duration => left <= 0
    BY DEF TokenInv, TypeOK, Dated
  <1>1. ASSUME NEW w \in Workers, Acquire(w) PROVE UNCHANGED lease
    <2>1. ~Available(w)
      BY DEF Available, TokenInv, TypeOK
    <2>2. QED BY <1>1, <2>1 DEF Acquire
  <1>2. ASSUME NEW w \in Workers, Release(w) PROVE UNCHANGED lease
    BY <1>0, <1>2 DEF Release, Gone, Goto, lease
  <1>3. ASSUME NEW w \in Workers, Renew(w) PROVE UNCHANGED lease
    <2>1. CASE holder = w
      <3>1. w = v /\ left' = Duration /\ gap' = [gap EXCEPT ![w] = 0]
            /\ holder' = holder
        BY <1>3, <2>1 DEF Renew
      <3>2. gap[v] = 0
        BY <3>1 DEF TokenInv, TypeOK
      <3>3. QED BY <1>0, <3>1, <3>2 DEF lease
    <2>2. CASE holder # w
      BY <1>3, <2>2 DEF Renew
    <2>3. QED BY <2>1, <2>2
  <1>4. ASSUME NEW w \in Workers, Crash(w) PROVE UNCHANGED lease
    BY <1>0, <1>4 DEF Crash, Gone, Goto, lease
  <1>5. CASE Tick
    <2>1. gap'[v] = Capped(gap[v] + 1, Duration)
      BY <1>0, <1>5 DEF Tick
    <2>2. gap[v] = Duration
      BY <1>0, <2>1 DEF Capped
    <2>3. QED BY <1>0, <2>2
  <1>6. ASSUME NEW w \in Workers, \/ Begin(w) \/ Observe(w) \/ Iterate(w)
                                  \/ RecordSuccess(w) \/ RecordFailure(w)
                                  \/ SaveBackoff(w) \/ Return(w)
        PROVE  UNCHANGED lease
    BY <1>6 DEF Begin, Observe, Iterate, RecordSuccess, RecordFailure,
                SaveBackoff, Return, lease
  <1>7. CASE UNCHANGED vars
    BY <1>7 DEF vars, lease
  <1>8. QED BY <1>1, <1>2, <1>3, <1>4, <1>5, <1>6, <1>7 DEF Next, WorkerStep

\* However late heartbeats and releases are, and whoever dies: a lease that has
\* not expired is changed by its own holder and by time only, so that a late
\* renewal or release leaves a successor's lease alone.
THEOREM TokenProtects == Spec => TokenProtectsLease
  <1>1. Init => TokenInv
    <2>1. Init => TypeOK /\ Prompt
      BY InitLease DEF LeaseInv
    <2>2. Init => Dated
      BY Durations DEF Init, Dated
    <2>3. QED BY <2>1, <2>2 DEF TokenInv
  <1>2. TokenInv /\ [Next]_vars => TokenInv'
    BY NextKeepsToken
  <1>3. TokenInv /\ [Next]_vars =>
           [\A v \in Workers :
               (holder = v /\ left > 0 /\ pc'[v] = pc[v] /\ gap'[v] = gap[v])
                   => UNCHANGED lease]_vars
    BY TokenStep
  <1>4. QED BY <1>1, <1>2, <1>3, PTL DEF Spec, TokenProtectsLease
=============================================================================
