---------------------------- MODULE MonitorLease ----------------------------
(***************************************************************************)
(* The cron gate of one mission: MonitoredCompetitionRunner.run with its   *)
(* expiring lease, its heartbeat thread and its retry backoff.  What an    *)
(* iteration does behind the gate is CompeteCycle; here it only ends well, *)
(* ends badly, or is cut short by a pause.                                 *)
(*                                                                         *)
(* Time is relative: every clock says how long ago something was, or how   *)
(* far away it is, so that the state space is finite without a last tick.  *)
(* Each run has its own holder token (uuid4); Ghost is the token of a run  *)
(* that died.                                                              *)
(***************************************************************************)
EXTENDS Integers, Sequences

CONSTANTS
    Workers,     \* compete-run processes, one run at a time each
    Nobody,      \* there is no lease row
    Ghost,       \* the lease row names a run that died
    Duration,    \* lease_duration
    Interval,    \* pause between two heartbeats
    MaxAge,      \* bound: time between captured_at and the acquire
    Patience,    \* OnTime: time within which a renewal gets through
    OnTime,      \* TRUE: heartbeats get through within Patience
    Delays,      \* the backoff schedule
    Jitter,      \* how far random_unit moves a delay
    AgeCap,      \* bound: the age from which no delay is left
    MaxObs,      \* bound: observations recorded
    MaxCrashes   \* bound: processes that die

ASSUME LeaseAssumption ==
    /\ Nobody \notin Workers /\ Ghost \notin Workers /\ Nobody # Ghost
    /\ Duration \in Nat /\ Interval \in Nat /\ Patience \in Nat
    /\ MaxAge \in Nat
    /\ Interval <= Patience /\ MaxAge <= Patience /\ Patience < Duration
    /\ OnTime \in BOOLEAN
    /\ Delays \in Seq(Nat) /\ Len(Delays) > 0
    /\ Jitter \in Nat /\ MaxObs \in Nat /\ MaxCrashes \in Nat
    /\ AgeCap \in Nat
    /\ \A i \in DOMAIN Delays : Delays[i] + Jitter < AgeCap

VARIABLES
    holder,      \* monitor_leases: the holder token
    left,        \* monitor_leases: expires_at - now
    backoff,     \* monitor_backoff: failures, time to next_attempt_at, last
                 \* successful observation
    made,        \* observations recorded so far; their ids, in order
    pc,          \* where each run stands
    age,         \* now - captured_at
    gap,         \* now - (expires_at of the worker's lease - Duration)
    lost,        \* heartbeat_lost
    obs,         \* the observation the run carries, 0 for none
    row,         \* the copy of the backoff row about to be saved
    next,        \* where the run continues after that save
    crashes      \* processes that died so far

lease == <<holder, left>>
locals == <<age, gap, lost, obs, row, next>>
vars == <<lease, backoff, made, pc, locals, crashes>>

Capped(n, cap) == IF n < cap THEN n ELSE cap
AtLeast(n, floor) == IF n > floor THEN n ELSE floor

Labels == {"idle", "acquire", "observe", "iterate", "succeed", "return",
           "fail", "save", "release"}

\* Between a granted acquire and the release.
Holding == {"observe", "iterate", "succeed", "return", "fail", "save",
            "release"}
\* Part of it in which the run reads and writes the mission.
Working == Holding \ {"release"}

BackoffRow == [fails : Nat, wait : Nat, last : Nat]
BackoffCopy == [fails : Nat, delay : Nat, last : Nat]

TypeOK ==
    /\ holder \in Workers \cup {Nobody, Ghost}
    /\ left \in Int /\ left <= Duration
    /\ backoff \in BackoffRow
    /\ made \in Nat /\ crashes \in Nat
    /\ pc \in [Workers -> Labels]
    /\ age \in [Workers -> Nat] /\ gap \in [Workers -> Nat]
    /\ lost \in [Workers -> BOOLEAN]
    /\ obs \in [Workers -> Nat]
    /\ row \in [Workers -> BackoffCopy]
    /\ next \in [Workers -> {"iterate", "return", "release"}]

Goto(w, label) == pc' = [pc EXCEPT ![w] = label]

NoCopy == [fails |-> 0, delay |-> 0, last |-> 0]

\* The run is over, whatever it held in memory.
Gone(w) ==
    /\ Goto(w, "idle")
    /\ age' = [age EXCEPT ![w] = 0]
    /\ gap' = [gap EXCEPT ![w] = 0]
    /\ lost' = [lost EXCEPT ![w] = FALSE]
    /\ obs' = [obs EXCEPT ![w] = 0]
    /\ row' = [row EXCEPT ![w] = NoCopy]
    /\ next' = [next EXCEPT ![w] = "return"]

Init ==
    /\ holder = Nobody /\ left = 0
    /\ backoff = [fails |-> 0, wait |-> 0, last |-> 0]
    /\ made = 0 /\ crashes = 0
    /\ pc = [w \in Workers |-> "idle"]
    /\ age = [w \in Workers |-> 0] /\ gap = [w \in Workers |-> 0]
    /\ lost = [w \in Workers |-> FALSE]
    /\ obs = [w \in Workers |-> 0]
    /\ row = [w \in Workers |-> NoCopy]
    /\ next = [w \in Workers |-> "return"]

(***************************************************************************)
(* run: the backoff, the lease, the iteration, the release                 *)
(***************************************************************************)

\* captured_at is taken, the mission is active and the backoff row lets the run
\* pass; otherwise the run returns without a trace.
Begin(w) ==
    /\ pc[w] = "idle" /\ backoff.wait = 0
    /\ Goto(w, "acquire")
    /\ UNCHANGED <<lease, backoff, made, locals, crashes>>

\* Mutant: only a released lease can be taken.
AvailableWhenFree(w) == holder = Nobody

\* Mutant: a lease about to expire can be taken.
AvailableEarly(w) == holder = Nobody \/ left + age[w] <= Duration - Interval

\* The row is missing, or expired at acquired_at = captured_at.
Available(w) == holder = Nobody \/ left + age[w] <= 0

\* acquire_monitor_lease, one BEGIN IMMEDIATE transaction; refused is LEASED_OUT.
Acquire(w) ==
    /\ pc[w] = "acquire"
    /\ \/ /\ Available(w)
          /\ holder' = w /\ left' = Duration - age[w]
          /\ gap' = [gap EXCEPT ![w] = age[w]]
          /\ Goto(w, "observe")
          /\ UNCHANGED <<age, lost, obs, row, next>>
       \/ ~Available(w) /\ Gone(w) /\ UNCHANGED lease
    /\ UNCHANGED <<backoff, made, crashes>>

\* _run_acquired as far as the observation: it fails, the mission was paused,
\* the fingerprint is known, a new observation is recorded, or the one recorded
\* before is taken up again (with no success recorded yet).
Observe(w) ==
    /\ pc[w] = "observe"
    /\ \/ Goto(w, "fail") /\ UNCHANGED <<made, obs, next>>
       \/ Goto(w, "return") /\ UNCHANGED <<made, obs, next>>
       \/ /\ Goto(w, "succeed")
          /\ next' = [next EXCEPT ![w] = "return"]
          /\ UNCHANGED <<made, obs>>
       \/ /\ made < MaxObs /\ made' = made + 1
          /\ obs' = [obs EXCEPT ![w] = made + 1]
          /\ next' = [next EXCEPT ![w] = "iterate"]
          /\ Goto(w, "succeed")
       \/ /\ made > 0
          /\ obs' = [obs EXCEPT ![w] = made]
          /\ Goto(w, "iterate")
          /\ UNCHANGED <<made, next>>
    /\ UNCHANGED <<lease, backoff, age, gap, lost, row, crashes>>

\* The mission was paused meanwhile, the iteration raises, or it ends well.
Iterate(w) ==
    /\ pc[w] = "iterate"
    /\ \/ Goto(w, "return") /\ UNCHANGED next
       \/ Goto(w, "fail") /\ UNCHANGED next
       \/ Goto(w, "succeed") /\ next' = [next EXCEPT ![w] = "return"]
    /\ UNCHANGED <<lease, backoff, made, age, gap, lost, obs, row, crashes>>

\* Mutant: the observation is stored also when there is none.
RecordSuccessForgets(w) ==
    /\ pc[w] = "succeed"
    /\ row' = [row EXCEPT ![w] = [fails |-> 0, delay |-> 0, last |-> obs[w]]]
    /\ Goto(w, "save")
    /\ UNCHANGED <<lease, backoff, made, age, gap, lost, obs, next, crashes>>

\* _record_success, up to its save.
RecordSuccess(w) ==
    /\ pc[w] = "succeed"
    /\ row' = [row EXCEPT ![w] =
                  [fails |-> 0, delay |-> 0,
                   last |-> IF obs[w] = 0 THEN backoff.last ELSE obs[w]]]
    /\ Goto(w, "save")
    /\ UNCHANGED <<lease, backoff, made, age, gap, lost, obs, next, crashes>>

\* BackoffPolicy.delay
Delay(fails, j) == AtLeast(Delays[Capped(fails, Len(Delays))] + j, 1)

\* _record_failure, up to its save.  Failures beyond the schedule's end are not
\* told apart.
RecordFailure(w) ==
    /\ pc[w] = "fail"
    /\ LET fails == Capped(backoff.fails + 1, Len(Delays)) IN
       \E j \in -Jitter..Jitter :
          row' = [row EXCEPT ![w] = [fails |-> fails, delay |-> Delay(fails, j),
                                     last |-> backoff.last]]
    /\ next' = [next EXCEPT ![w] = "release"]
    /\ Goto(w, "save")
    /\ UNCHANGED <<lease, backoff, made, age, gap, lost, obs, crashes>>

\* Mutant: a next attempt in the past counts as a negative wait.
SaveBackoffRaw(w) ==
    /\ pc[w] = "save"
    /\ backoff' = [fails |-> row[w].fails, last |-> row[w].last,
                   wait |-> row[w].delay - age[w]]
    /\ Goto(w, next[w])
    /\ UNCHANGED <<lease, made, locals, crashes>>

\* save_monitor_backoff: next_attempt_at is captured_at + delay, so the time a
\* run took is already gone from the wait.
SaveBackoff(w) ==
    /\ pc[w] = "save"
    /\ backoff' = [fails |-> row[w].fails, last |-> row[w].last,
                   wait |-> AtLeast(row[w].delay - age[w], 0)]
    /\ Goto(w, next[w])
    /\ UNCHANGED <<lease, made, locals, crashes>>

\* heartbeat_lost is looked at when _run_acquired has returned, not before.
Return(w) ==
    /\ pc[w] = "return"
    /\ Goto(w, IF lost[w] THEN "fail" ELSE "release")
    /\ UNCHANGED <<lease, backoff, made, locals, crashes>>

\* Mutant: the row is deleted whoever holds it.
ReleaseAny(w) ==
    /\ pc[w] = "release"
    /\ holder' = Nobody /\ left' = 0
    /\ Gone(w)
    /\ UNCHANGED <<backoff, made, crashes>>

\* finally: the heartbeat is stopped and joined, then release_monitor_lease.
Release(w) ==
    /\ pc[w] = "release"
    /\ IF holder = w THEN holder' = Nobody /\ left' = 0 ELSE UNCHANGED lease
    /\ Gone(w)
    /\ UNCHANGED <<backoff, made, crashes>>

(***************************************************************************)
(* The heartbeat thread, the clock, and deaths                             *)
(***************************************************************************)

\* renew_monitor_lease of _renew_lease_until_stopped.  A late heartbeat reclaims
\* its own expired row; a row gone or taken ends the thread.  One that raises is
\* retried, hence only late.
Renew(w) ==
    /\ pc[w] \in Working /\ ~lost[w] /\ gap[w] >= Interval
    /\ IF holder = w
       THEN /\ left' = Duration
            /\ gap' = [gap EXCEPT ![w] = 0]
            /\ UNCHANGED <<holder, lost>>
       ELSE lost' = [lost EXCEPT ![w] = TRUE] /\ UNCHANGED <<lease, gap>>
    /\ UNCHANGED <<backoff, made, pc, age, obs, row, next, crashes>>

Clock(w) == pc[w] # "idle"

Tick ==
    /\ \A w \in Workers :
          /\ pc[w] = "acquire" => age[w] < MaxAge
          /\ OnTime /\ pc[w] \in Holding => gap[w] < Patience
    /\ left' = AtLeast(left - 1, -MaxAge)
    /\ backoff' = [backoff EXCEPT !.wait = AtLeast(@ - 1, 0)]
    /\ age' = [w \in Workers |->
                  IF Clock(w) THEN Capped(age[w] + 1, AgeCap) ELSE age[w]]
    /\ gap' = [w \in Workers |->
                  IF pc[w] \in Holding THEN Capped(gap[w] + 1, Duration)
                                       ELSE gap[w]]
    /\ UNCHANGED <<holder, made, pc, lost, obs, row, next, crashes>>

\* A process dies; its lease row stays until it expires.
Crash(w) ==
    /\ pc[w] # "idle" /\ crashes < MaxCrashes
    /\ crashes' = crashes + 1
    /\ holder' = IF holder = w THEN Ghost ELSE holder
    /\ Gone(w)
    /\ UNCHANGED <<left, backoff, made>>

(***************************************************************************)
(* Specification                                                           *)
(***************************************************************************)
WorkerStep(w) ==
    \/ Begin(w) \/ Acquire(w) \/ Observe(w) \/ Iterate(w) \/ RecordSuccess(w)
    \/ RecordFailure(w) \/ SaveBackoff(w) \/ Return(w) \/ Release(w)

Next ==
    \/ \E w \in Workers : WorkerStep(w) \/ Renew(w) \/ Crash(w)
    \/ Tick

Spec == Init /\ [][Next]_vars

\* Cron keeps starting runs, a run and its heartbeat thread are scheduled, and
\* time passes.  Nothing is assumed of what an observation or iteration yields.
FairSpec ==
    /\ Spec
    /\ \A w \in Workers : WF_vars(WorkerStep(w)) /\ WF_vars(Renew(w))
    /\ WF_vars(Tick)

(***************************************************************************)
(* Properties                                                              *)
(***************************************************************************)

\* "Concurrent workers cannot run one mission cycle"
\* (docs/COMPETITION_CLOSED_LOOP.md:48): at most one process is between a granted
\* lease and its release.
RunsAlone ==
    \A v, w \in Workers : pc[v] \in Working /\ pc[w] \in Working => v = w

\* "a successful retry resets backoff without losing the last successful
\* observation" (docs/COMPETITION_CLOSED_LOOP.md:49-50): whatever fails in
\* between, last_successful_observation_id never goes back to an earlier
\* observation, though success and failure both save the whole row.
LastObservationKept == [][backoff'.last >= backoff.last]_vars

\* "the unique holder token prevents a late renewal from overwriting a
\* successor's lease" (monitoring.py:174-176): as long as a lease has not expired,
\* only time and its own holder change it, however late the others are.
TokenProtectsLease ==
    [][\A v \in Workers :
          (holder = v /\ left > 0 /\ pc'[v] = pc[v] /\ gap'[v] = gap[v])
              => UNCHANGED lease]_vars

\* A run that dies with the lease, and failures in any number, only delay the
\* monitor: the mission is observed again and again.
MonitorNeverStops == []<>(\E w \in Workers : pc[w] = "observe")
=============================================================================
