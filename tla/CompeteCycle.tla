--------------------------- MODULE CompeteCycle ---------------------------
(***************************************************************************)
(* The durable COMPETE loop of one mission.                                *)
(*                                                                         *)
(* A worker is one `mission compete-run` process: it enters                *)
(* MonitoredCompetitionRunner._run_acquired, passes the fingerprint gate   *)
(* and hands over to CompetitionIterationRunner.run, which walks the last  *)
(* incomplete cycle through OBSERVE .. ADAPT and opens the next one.       *)
(*                                                                         *)
(* Every Database call is its own SQLite transaction and every save writes *)
(* the whole row from the caller's copy, so a handler is a series of       *)
(* steps: consecutive reads are one step, every write is a step of its     *)
(* own, and a process may die between any two of them.                     *)
(***************************************************************************)
EXTENDS Naturals, Sequences, FiniteSets

CONSTANTS
    Workers,       \* compete-run processes
    Nobody,        \* the owner of an execution whose process is gone
    Worlds,        \* values of the observed project and competition state
    MaxCycles,     \* bound: cycles opened for the mission
    Overlap,       \* TRUE: a lease may be lost while its holder still runs
    Crashes,       \* TRUE: a process may die between two database calls
    ProcIdentity,  \* TRUE: procfs tells whether an execution's owner lives
    UserOps,       \* the lifecycle commands the user issues
    Terminals      \* terminal statuses the planner may return from adapt

ASSUME CycleAssumption ==
    /\ Nobody \notin Workers
    /\ MaxCycles \in Nat
    /\ Overlap \in BOOLEAN /\ Crashes \in BOOLEAN /\ ProcIdentity \in BOOLEAN
    /\ UserOps \subseteq {"pause", "resume", "cancel"}
    /\ Terminals \subseteq {"COMPLETED", "EXPIRED", "STOPPED_BY_USER",
                            "IRRECOVERABLY_BLOCKED"}

VARIABLES
    \* durable tables
    mission,       \* the mission row: state and status
    cycles,        \* competition_cycles, in sequence order
    observations,  \* competition_observations of each cycle, in rowid order
    evidence,      \* evidence records claimed for each observation
    execs,         \* action_executions: the execution of each cycle
    measured,      \* cycles with a COMPETITION_MEASUREMENT_RECORDED event
    fingerprints,  \* observation_fingerprints
    \* the outside
    world,         \* what an observation of the project would show
    expired,       \* whether the deadline has elapsed
    user,          \* a lifecycle command in progress, with its mission copy
    \* worker processes
    pc,            \* where each worker stands
    ret,           \* where a worker continues after a shared subroutine
    at,            \* the cycle a worker works on
    crow,          \* its copy of the cycle row
    mrow,          \* its copy of the mission row
    ob,            \* the observation it carries: index, fingerprint (at most one
                   \* in fps), evidence
    xr,            \* the status of the execution it carries
    \* history
    ran            \* how often an executor was invoked for each cycle

tables == <<mission, cycles, observations, evidence, execs, measured,
            fingerprints>>
outside == <<world, expired, user>>
locals == <<ret, at, crow, mrow, ob, xr>>
vars == <<tables, outside, pc, locals, ran>>

(***************************************************************************)
(* Rows and their types                                                    *)
(***************************************************************************)
Stages == {"OBSERVE", "ASSESS", "STRATEGIZE", "EXECUTE", "VERIFY", "MEASURE",
           "ADAPT"}

MissionStatus == {"ACTIVE", "COMPLETED", "EXPIRED", "STOPPED_BY_USER",
                  "IRRECOVERABLY_BLOCKED"}

\* MissionState as the loop tells its values apart: LIVE is every phase other
\* than PAUSED and CANCELLED.
MissionRow == [state : {"LIVE", "PAUSED", "CANCELLED"}, status : MissionStatus]

\* obs and ev: the observation and the evidence the row names (0: none yet);
\* ok and verified: execution_succeeded and verified; done: completed_at.
CycleRow == [stage : Stages, obs : Nat, ev : Nat,
             ok : {"none", "yes", "no"}, verified : {"none", "yes", "no"},
             done : BOOLEAN]

NewCycle == [stage |-> "OBSERVE", obs |-> 0, ev |-> 0, ok |-> "none",
             verified |-> "none", done |-> FALSE]

ExecStatus == {"NONE", "RUNNING", "SUCCEEDED", "FAILED"}

\* The owner is read only while the row says RUNNING.
ExecRow == [status : ExecStatus, owner : Workers \cup {Nobody}]
Exec(status) == [status |-> status, owner |-> Nobody]

\* What an observation hashes: the observed state and the deadline state.
Fingerprint == [world : Worlds, expired : BOOLEAN]
ObsRow == [fp : Fingerprint, ev : Nat]
Carrying == [i : Nat, fps : SUBSET Fingerprint, ev : Nat]
NoObs == [i |-> 0, fps |-> {}, ev |-> 0]

Labels == {"idle", "gate", "create", "insert", "look", "collect", "capture",
           "record", "save_obs", "reconcile", "save_evidence", "save_ev",
           "advance", "save_observed", "reserve", "runstart", "observe",
           "deadline", "terminate", "term_mission", "term_cycle", "step",
           "save_mission", "save_stage", "interrupt", "claim", "invoke",
           "finish", "record_exec", "reread", "event", "adapt",
           "adapt_mission", "adapt_cycle"}

\* Where the shared subroutines (create_cycle, record, reconcile) return to.
Returns == {"idle", "look", "reserve", "observe", "deadline", "create"}

TablesOK ==
    /\ mission \in MissionRow
    /\ cycles \in Seq(CycleRow) /\ Len(cycles) <= MaxCycles
    /\ observations \in [1..MaxCycles -> Seq(ObsRow)]
    /\ evidence \in [1..MaxCycles -> Seq(Nat)]
    /\ execs \in [1..MaxCycles -> ExecRow]
    /\ measured \subseteq 1..MaxCycles
    /\ fingerprints \subseteq Fingerprint

OutsideOK ==
    /\ world \in Worlds /\ expired \in BOOLEAN
    /\ user \in [op : {"none", "pause", "resume", "cancel", "cancelled",
                       "stop"}, row : MissionRow]

WorkersOK ==
    /\ pc \in [Workers -> Labels]
    /\ ret \in [Workers -> Returns]
    /\ at \in [Workers -> 0..MaxCycles]
    /\ crow \in [Workers -> CycleRow]
    /\ mrow \in [Workers -> MissionRow]
    /\ ob \in [Workers -> Carrying]
    /\ xr \in [Workers -> ExecStatus]

TypeOK ==
    /\ TablesOK /\ OutsideOK /\ WorkersOK
    /\ ran \in [1..MaxCycles -> Nat]

(***************************************************************************)
(* Helpers                                                                 *)
(***************************************************************************)
Runnable(row) == row.status = "ACTIVE" /\ row.state = "LIVE"

\* Mutant: the first cycle is looked at instead of the last.
IncompleteFirst == cycles # <<>> /\ ~cycles[1].done

Incomplete == cycles # <<>> /\ ~cycles[Len(cycles)].done

Here == [world |-> world, expired |-> expired]

\* Mutant: the owner is not asked for.
MayBeInterruptedAlways(e) == TRUE

\* _execution_owner_is_alive, with the two-hour horizon when it cannot tell: in
\* that case a recovery may come at any time, the owner being alive or not.
MayBeInterrupted(e) == ~ProcIdentity \/ e.owner = Nobody
MayBeRunning(e) == ~ProcIdentity \/ e.owner # Nobody

Goto(w, label) == pc' = [pc EXCEPT ![w] = label]

\* What a process holds before it has read anything.
Forget(w) ==
    /\ ret' = [ret EXCEPT ![w] = "idle"]
    /\ at' = [at EXCEPT ![w] = 0]
    /\ crow' = [crow EXCEPT ![w] = NewCycle]
    /\ mrow' = [mrow EXCEPT ![w] = [state |-> "LIVE", status |-> "ACTIVE"]]
    /\ ob' = [ob EXCEPT ![w] = NoObs]
    /\ xr' = [xr EXCEPT ![w] = "NONE"]

\* The process ends: a return, or an exception that reaches the cron boundary.
Exit(w) == Goto(w, "idle") /\ Forget(w)

Abort(w) == Exit(w) /\ UNCHANGED <<tables, outside, ran>>

Init ==
    /\ mission = [state |-> "LIVE", status |-> "ACTIVE"]
    /\ cycles = <<>>
    /\ observations = [c \in 1..MaxCycles |-> <<>>]
    /\ evidence = [c \in 1..MaxCycles |-> <<>>]
    /\ execs = [c \in 1..MaxCycles |-> Exec("NONE")]
    /\ measured = {}
    /\ fingerprints = {}
    /\ world \in Worlds
    /\ expired = FALSE
    /\ user = [op |-> "none", row |-> mission]
    /\ pc = [w \in Workers |-> "idle"]
    /\ ret = [w \in Workers |-> "idle"]
    /\ at = [w \in Workers |-> 0]
    /\ crow = [w \in Workers |-> NewCycle]
    /\ mrow = [w \in Workers |-> mission]
    /\ ob = [w \in Workers |-> NoObs]
    /\ xr = [w \in Workers |-> "NONE"]
    /\ ran = [c \in 1..MaxCycles |-> 0]

(***************************************************************************)
(* MonitoredCompetitionRunner: the gate in front of an iteration           *)
(***************************************************************************)

\* run: the mission is checked, then the lease taken.  With Overlap the lease
\* of a worker that still runs may already have passed to this one.
Start(w) ==
    /\ pc[w] = "idle"
    /\ Runnable(mission)
    /\ Overlap \/ \A v \in Workers : pc[v] = "idle"
    /\ Goto(w, "gate")
    /\ UNCHANGED <<tables, outside, locals, ran>>

\* _run_acquired up to the choice of the cycle: PAUSED and CANCELLED are read
\* again, the status is not.
Gate(w) ==
    /\ pc[w] = "gate"
    /\ IF mission.state # "LIVE"
       THEN Exit(w)
       ELSE /\ IF Incomplete
               THEN /\ at' = [at EXCEPT ![w] = Len(cycles)]
                    /\ crow' = [crow EXCEPT ![w] = cycles[Len(cycles)]]
                    /\ Goto(w, "look")
                    /\ UNCHANGED ret
               ELSE /\ Goto(w, "create")
                    /\ ret' = [ret EXCEPT ![w] = "look"]
                    /\ UNCHANGED <<at, crow>>
            /\ UNCHANGED <<mrow, ob, xr>>
    /\ UNCHANGED <<tables, outside, ran>>

\* CompeteLoop.create_cycle: the checks and the number of the next cycle.
CreateCheck(w) ==
    /\ pc[w] = "create"
    /\ Len(cycles) < MaxCycles
    /\ IF Runnable(mission) /\ ~Incomplete
       THEN /\ at' = [at EXCEPT ![w] = Len(cycles) + 1]
            /\ Goto(w, "insert")
            /\ UNCHANGED <<ret, crow, mrow, ob, xr>>
       ELSE Exit(w)
    /\ UNCHANGED <<tables, outside, ran>>

\* create_cycle's insert: UNIQUE(mission_id, sequence) refuses a number taken
\* since.
InsertCycle(w) ==
    /\ pc[w] = "insert"
    /\ IF Len(cycles) >= at[w]
       THEN Exit(w) /\ UNCHANGED cycles
       ELSE /\ cycles' = Append(cycles, NewCycle)
            /\ IF ret[w] = "idle"
               THEN Exit(w)
               ELSE /\ Goto(w, ret[w])
                    /\ crow' = [crow EXCEPT ![w] = NewCycle]
                    /\ UNCHANGED <<ret, at, mrow, ob, xr>>
    /\ UNCHANGED <<mission, observations, evidence, execs, measured,
                   fingerprints, outside, ran>>

\* _run_acquired: observe anew, resume a recorded observation, or refuse.
Look(w) ==
    /\ pc[w] = "look"
    /\ LET seen == observations[at[w]] IN
       \/ /\ crow[w].stage = "OBSERVE" /\ seen = <<>>
          /\ Goto(w, "collect")
          /\ UNCHANGED locals
       \/ /\ seen # <<>>
          /\ ob' = [ob EXCEPT ![w] = [i |-> Len(seen),
                                      fps |-> {seen[Len(seen)].fp},
                                      ev |-> seen[Len(seen)].ev]]
          /\ Goto(w, "reserve")
          /\ UNCHANGED <<ret, at, crow, mrow, xr>>
       \/ crow[w].stage # "OBSERVE" /\ seen = <<>> /\ Exit(w)
    /\ UNCHANGED <<tables, outside, ran>>

\* CompetitionObserver.collect behind the gate.  A source that cannot be read,
\* or a cycle that has advanced, ends the run as a failure; a fingerprint that
\* was ever seen ends it as UNCHANGED.
Collect(w) ==
    /\ pc[w] = "collect"
    /\ \/ Exit(w)
       \/ /\ cycles[at[w]].stage = "OBSERVE"
          /\ IF Here \in fingerprints
             THEN Exit(w)
             ELSE /\ ob' = [ob EXCEPT ![w] = [i |-> 0, fps |-> {Here}, ev |-> 0]]
                  /\ ret' = [ret EXCEPT ![w] = "reserve"]
                  /\ Goto(w, "record")
                  /\ UNCHANGED <<at, crow, mrow, xr>>
    /\ UNCHANGED <<tables, outside, ran>>

\* reserve_observation_fingerprint: INSERT OR IGNORE.
Reserve(w) ==
    /\ pc[w] = "reserve"
    /\ fingerprints' = fingerprints \cup ob[w].fps
    /\ Goto(w, "runstart")
    /\ UNCHANGED <<mission, cycles, observations, evidence, execs, measured,
                   outside, locals, ran>>

(***************************************************************************)
(* CompetitionObserver: record and reconcile                               *)
(***************************************************************************)

\* capture's collect, inside an iteration: no fingerprint gate.
Capture(w) ==
    /\ pc[w] = "capture"
    /\ \/ Exit(w)
       \/ /\ cycles[at[w]].stage = "OBSERVE"
          /\ ob' = [ob EXCEPT ![w] = [i |-> 0, fps |-> {Here}, ev |-> 0]]
          /\ ret' = [ret EXCEPT ![w] = "deadline"]
          /\ Goto(w, "record")
          /\ UNCHANGED <<at, crow, mrow, xr>>
    /\ UNCHANGED <<tables, outside, ran>>

RecordCheck(w) ==
    /\ pc[w] = "record"
    /\ IF cycles[at[w]].stage = "OBSERVE"
       THEN Goto(w, "save_obs") /\ UNCHANGED locals
       ELSE Exit(w)
    /\ UNCHANGED <<tables, outside, ran>>

SaveObservation(w) ==
    /\ pc[w] = "save_obs"
    /\ \E fp \in ob[w].fps :
          observations' = [observations EXCEPT
              ![at[w]] = Append(@, [fp |-> fp, ev |-> 0])]
    /\ evidence' = [evidence EXCEPT ![at[w]] = Append(@, 0)]
    /\ ob' = [ob EXCEPT ![w].i = Len(observations[at[w]]) + 1]
    /\ Goto(w, "reconcile")
    /\ UNCHANGED <<mission, cycles, execs, measured, fingerprints, outside,
                   ret, at, crow, mrow, xr, ran>>

\* Mutant: evidence already claimed is not looked for.
ReconcileBlind(w) ==
    /\ pc[w] = "reconcile"
    /\ LET row == observations[at[w]][ob[w].i] IN
       /\ ob' = [ob EXCEPT ![w].ev = row.ev]
       /\ Goto(w, IF row.ev # 0 THEN "advance" ELSE "save_evidence")
    /\ UNCHANGED <<tables, outside, ret, at, crow, mrow, xr, ran>>

\* Mutant: evidence found on a retry is not saved on the observation.
ReconcileUnsaved(w) ==
    /\ pc[w] = "reconcile"
    /\ LET row == observations[at[w]][ob[w].i]
           found == evidence[at[w]][ob[w].i] IN
       /\ ob' = [ob EXCEPT ![w].ev = IF row.ev # 0 THEN row.ev ELSE found]
       /\ Goto(w, IF row.ev # 0 \/ found # 0 THEN "advance" ELSE "save_evidence")
    /\ UNCHANGED <<tables, outside, ret, at, crow, mrow, xr, ran>>

\* reconcile: the persisted observation and the evidence already claimed for it.
Reconcile(w) ==
    /\ pc[w] = "reconcile"
    /\ LET row == observations[at[w]][ob[w].i]
           found == evidence[at[w]][ob[w].i] IN
       /\ ob' = [ob EXCEPT ![w].ev = IF row.ev # 0 THEN row.ev ELSE found]
       /\ Goto(w, IF row.ev # 0 THEN "advance"
                  ELSE IF found # 0 THEN "save_ev" ELSE "save_evidence")
    /\ UNCHANGED <<tables, outside, ret, at, crow, mrow, xr, ran>>

SaveEvidence(w) ==
    /\ pc[w] = "save_evidence"
    /\ evidence' = [evidence EXCEPT ![at[w]][ob[w].i] = @ + 1]
    /\ ob' = [ob EXCEPT ![w].ev = evidence[at[w]][ob[w].i] + 1]
    /\ Goto(w, "save_ev")
    /\ UNCHANGED <<mission, cycles, observations, execs, measured,
                   fingerprints, outside, ret, at, crow, mrow, xr, ran>>

SaveObservationEvidence(w) ==
    /\ pc[w] = "save_ev"
    /\ observations' = [observations EXCEPT ![at[w]][ob[w].i].ev = ob[w].ev]
    /\ Goto(w, "advance")
    /\ UNCHANGED <<mission, cycles, evidence, execs, measured, fingerprints,
                   outside, locals, ran>>

\* Mutant: observe without _require_stage.
AdvanceAnyStage(w) ==
    /\ pc[w] = "advance"
    /\ crow' = [crow EXCEPT ![w] = [cycles[at[w]] EXCEPT !.stage = "ASSESS",
                                        !.obs = ob[w].i, !.ev = ob[w].ev]]
    /\ Goto(w, "save_observed")
    /\ UNCHANGED <<tables, outside, ret, at, mrow, ob, xr, ran>>

\* reconcile's second half: advance an OBSERVE cycle, or check that the cycle
\* advanced with this very observation.
Advance(w) ==
    /\ pc[w] = "advance"
    /\ LET row == cycles[at[w]] IN
       \/ /\ row.stage = "OBSERVE"
          /\ crow' = [crow EXCEPT ![w] = [row EXCEPT !.stage = "ASSESS",
                                              !.obs = ob[w].i, !.ev = ob[w].ev]]
          /\ Goto(w, "save_observed")
          /\ UNCHANGED <<ret, at, mrow, ob, xr>>
       \/ /\ row.stage # "OBSERVE" /\ row.obs = ob[w].i /\ row.ev = ob[w].ev
          /\ Goto(w, ret[w])
          /\ UNCHANGED locals
       \/ /\ row.stage # "OBSERVE" /\ ~(row.obs = ob[w].i /\ row.ev = ob[w].ev)
          /\ Exit(w)
    /\ UNCHANGED <<tables, outside, ran>>

\* CompeteLoop.observe: the save of _advance.
SaveObserved(w) ==
    /\ pc[w] = "save_observed"
    /\ cycles' = [cycles EXCEPT ![at[w]] = crow[w]]
    /\ Goto(w, ret[w])
    /\ UNCHANGED <<mission, observations, evidence, execs, measured,
                   fingerprints, outside, locals, ran>>

(***************************************************************************)
(* CompetitionIterationRunner.run: the stages                              *)
(***************************************************************************)

\* The mission is read again by the gate and by run; both must let it pass.
RunStart(w) ==
    /\ pc[w] = "runstart"
    /\ IF ~Runnable(mission)
       THEN Exit(w)
       ELSE /\ IF Incomplete
               THEN /\ at' = [at EXCEPT ![w] = Len(cycles)]
                    /\ crow' = [crow EXCEPT ![w] = cycles[Len(cycles)]]
                    /\ Goto(w, "observe")
                    /\ UNCHANGED ret
               ELSE /\ Goto(w, "create")
                    /\ ret' = [ret EXCEPT ![w] = "observe"]
                    /\ UNCHANGED <<at, crow>>
            /\ UNCHANGED <<mrow, ob, xr>>
    /\ UNCHANGED <<tables, outside, ran>>

\* _observation: reconcile the last recorded observation, or capture one.
ObserveRun(w) ==
    /\ pc[w] = "observe"
    /\ LET seen == observations[at[w]] IN
       \/ /\ seen # <<>>
          /\ ob' = [ob EXCEPT ![w] = [i |-> Len(seen),
                                      fps |-> {seen[Len(seen)].fp}, ev |-> 0]]
          /\ ret' = [ret EXCEPT ![w] = "deadline"]
          /\ Goto(w, "reconcile")
          /\ UNCHANGED <<at, crow, mrow, xr>>
       \/ /\ seen = <<>> /\ crow[w].stage = "OBSERVE"
          /\ Goto(w, "capture")
          /\ UNCHANGED locals
       \/ seen = <<>> /\ crow[w].stage # "OBSERVE" /\ Exit(w)
    /\ UNCHANGED <<tables, outside, ran>>

\* The recorded observation, not the clock, decides whether the deadline has
\* elapsed.
Deadline(w) ==
    /\ pc[w] = "deadline"
    /\ crow' = [crow EXCEPT ![w] = cycles[at[w]]]
    /\ Goto(w, IF \E fp \in ob[w].fps : fp.expired THEN "terminate" ELSE "step")
    /\ UNCHANGED <<tables, outside, ret, at, mrow, ob, xr, ran>>

\* CompeteLoop.terminate: checks, then the mission row, then the cycle row.
TerminateCheck(w) ==
    /\ pc[w] = "terminate"
    /\ IF mission.status # "ACTIVE"
       THEN Exit(w)
       ELSE /\ mrow' = [mrow EXCEPT ![w] = [mission EXCEPT !.status = "EXPIRED"]]
            /\ crow' = [crow EXCEPT ![w] = [cycles[at[w]] EXCEPT !.done = TRUE]]
            /\ Goto(w, "term_mission")
            /\ UNCHANGED <<ret, at, ob, xr>>
    /\ UNCHANGED <<tables, outside, ran>>

TerminateMission(w) ==
    /\ pc[w] = "term_mission"
    /\ mission' = mrow[w]
    /\ Goto(w, "term_cycle")
    /\ UNCHANGED <<cycles, observations, evidence, execs, measured,
                   fingerprints, outside, locals, ran>>

TerminateCycle(w) ==
    /\ pc[w] = "term_cycle"
    /\ cycles' = [cycles EXCEPT ![at[w]] = crow[w]]
    /\ Exit(w)
    /\ UNCHANGED <<mission, observations, evidence, execs, measured,
                   fingerprints, outside, ran>>

\* The model behind planner.assess or planner.adapt does not answer.
PlannerFails(w) ==
    /\ \/ pc[w] = "step" /\ crow[w].stage = "ASSESS"
       \/ pc[w] = "adapt"
    /\ Abort(w)

\* _require_stage, then both rows as the handler will write them.
Plan(w, from, to) ==
    /\ pc[w] = "step" /\ crow[w].stage = from
    /\ IF cycles[at[w]].stage # from
       THEN Exit(w)
       ELSE /\ crow' = [crow EXCEPT ![w] = [cycles[at[w]] EXCEPT !.stage = to]]
            /\ mrow' = [mrow EXCEPT ![w] = mission]
            /\ Goto(w, "save_mission")
            /\ UNCHANGED <<ret, at, ob, xr>>
    /\ UNCHANGED <<tables, outside, ran>>

Assess(w) == Plan(w, "ASSESS", "STRATEGIZE")

Strategize(w) == Plan(w, "STRATEGIZE", "EXECUTE")

\* save_mission of assess and strategize: the whole row, from the copy.
SaveMission(w) ==
    /\ pc[w] = "save_mission"
    /\ mission' = mrow[w]
    /\ Goto(w, "save_stage")
    /\ UNCHANGED <<cycles, observations, evidence, execs, measured,
                   fingerprints, outside, locals, ran>>

\* _advance: the whole cycle row, from the copy.  The runner reads the cycle
\* back after an execution and appends the measurement event after a measure.
SaveStage(w) ==
    /\ pc[w] = "save_stage"
    /\ cycles' = [cycles EXCEPT ![at[w]] = crow[w]]
    /\ Goto(w, CASE crow[w].stage = "VERIFY" -> "reread"
                 [] crow[w].stage = "ADAPT" -> "event"
                 [] OTHER -> "step")
    /\ UNCHANGED <<mission, observations, evidence, execs, measured,
                   fingerprints, outside, locals, ran>>

ReRead(w) ==
    /\ pc[w] = "reread"
    /\ IF cycles[at[w]].stage \in {"VERIFY", "MEASURE", "ADAPT"}
       THEN /\ crow' = [crow EXCEPT ![w] = cycles[at[w]]]
            /\ Goto(w, "step")
            /\ UNCHANGED <<ret, at, mrow, ob, xr>>
       ELSE Exit(w)
    /\ UNCHANGED <<tables, outside, ran>>

\* _execution: a cycle resumed beyond EXECUTE needs a durable execution.
LoadExecution(w) ==
    /\ pc[w] = "step" /\ xr[w] = "NONE"
    /\ crow[w].stage \notin {"ASSESS", "STRATEGIZE", "EXECUTE"}
    /\ IF execs[at[w]].status = "NONE"
       THEN Exit(w)
       ELSE /\ xr' = [xr EXCEPT ![w] = execs[at[w]].status]
            /\ UNCHANGED <<pc, ret, at, crow, mrow, ob>>
    /\ UNCHANGED <<tables, outside, ran>>

Verify(w) ==
    /\ pc[w] = "step" /\ xr[w] # "NONE" /\ crow[w].stage = "VERIFY"
    /\ IF cycles[at[w]].stage # "VERIFY"
       THEN Exit(w)
       ELSE /\ crow' = [crow EXCEPT ![w] = [cycles[at[w]] EXCEPT
                  !.stage = "MEASURE",
                  !.verified = IF xr[w] = "SUCCEEDED" THEN "yes" ELSE "no"]]
            /\ Goto(w, "save_stage")
            /\ UNCHANGED <<ret, at, mrow, ob, xr>>
    /\ UNCHANGED <<tables, outside, ran>>

Measure(w) ==
    /\ pc[w] = "step" /\ xr[w] # "NONE" /\ crow[w].stage = "MEASURE"
    /\ IF cycles[at[w]].stage # "MEASURE"
       THEN Exit(w)
       ELSE /\ crow' = [crow EXCEPT ![w] = [cycles[at[w]] EXCEPT !.stage = "ADAPT"]]
            /\ Goto(w, "save_stage")
            /\ UNCHANGED <<ret, at, mrow, ob, xr>>
    /\ UNCHANGED <<tables, outside, ran>>

\* Mutant: the event is not appended.
MeasurementEventSkipped(w) ==
    /\ pc[w] = "event"
    /\ Goto(w, "adapt")
    /\ UNCHANGED <<tables, outside, locals, ran>>

\* The COMPETITION_MEASUREMENT_RECORDED event, after measure has returned.
MeasurementEvent(w) ==
    /\ pc[w] = "event"
    /\ measured' = measured \cup {at[w]}
    /\ Goto(w, "adapt")
    /\ UNCHANGED <<mission, cycles, observations, evidence, execs,
                   fingerprints, outside, locals, ran>>

\* _measurement: a cycle resumed at ADAPT needs that event.
LoadMeasurement(w) ==
    /\ pc[w] = "step" /\ xr[w] # "NONE" /\ crow[w].stage = "ADAPT"
    /\ IF at[w] \in measured THEN Goto(w, "adapt") /\ UNCHANGED locals
                             ELSE Exit(w)
    /\ UNCHANGED <<tables, outside, ran>>

\* CompeteLoop.adapt: neither the cycle's completion nor the mission's status
\* is checked before both rows are copied.
Adapt(w) ==
    /\ pc[w] = "adapt"
    /\ IF cycles[at[w]].stage # "ADAPT"
       THEN Exit(w)
       ELSE /\ \E verdict \in Terminals \cup {"none"} :
                  /\ mrow' = [mrow EXCEPT ![w] = [mission EXCEPT
                         !.status = IF verdict = "none" THEN @ ELSE verdict]]
                  /\ ret' = [ret EXCEPT ![w] =
                                IF verdict = "none" THEN "create" ELSE "idle"]
            /\ crow' = [crow EXCEPT ![w] = [cycles[at[w]] EXCEPT !.done = TRUE]]
            /\ Goto(w, "adapt_mission")
            /\ UNCHANGED <<at, ob, xr>>
    /\ UNCHANGED <<tables, outside, ran>>

AdaptMission(w) ==
    /\ pc[w] = "adapt_mission"
    /\ mission' = mrow[w]
    /\ Goto(w, "adapt_cycle")
    /\ UNCHANGED <<cycles, observations, evidence, execs, measured,
                   fingerprints, outside, locals, ran>>

\* The cycle is complete; unless the verdict was terminal, open the next.
AdaptCycle(w) ==
    /\ pc[w] = "adapt_cycle"
    /\ cycles' = [cycles EXCEPT ![at[w]] = crow[w]]
    /\ IF ret[w] = "create"
       THEN /\ Goto(w, "create")
            /\ ret' = [ret EXCEPT ![w] = "idle"]
            /\ UNCHANGED <<at, crow, mrow, ob, xr>>
       ELSE Exit(w)
    /\ UNCHANGED <<mission, observations, evidence, execs, measured,
                   fingerprints, outside, ran>>

(***************************************************************************)
(* CompetitionActionDispatcher.execute_selected                            *)
(***************************************************************************)

\* record_execution: EXECUTE is required, the row leaves for VERIFY.
RecordRow(c, status) ==
    [cycles[c] EXCEPT !.stage = "VERIFY",
                      !.ok = IF status = "SUCCEEDED" THEN "yes" ELSE "no"]

\* A terminal execution found: reconcile a cycle that still says EXECUTE.
ReconcileExecution(w) ==
    /\ pc[w] = "step" /\ crow[w].stage = "EXECUTE"
    /\ execs[at[w]].status \in {"SUCCEEDED", "FAILED"}
    /\ xr' = [xr EXCEPT ![w] = execs[at[w]].status]
    /\ IF cycles[at[w]].stage = "EXECUTE"
       THEN /\ crow' = [crow EXCEPT ![w] = RecordRow(at[w], execs[at[w]].status)]
            /\ Goto(w, "save_stage")
       ELSE Goto(w, "reread") /\ UNCHANGED crow
    /\ UNCHANGED <<tables, outside, ret, at, mrow, ob, ran>>

\* A running execution found: refuse while its owner may live, else close it.
FindRunning(w) ==
    /\ pc[w] = "step" /\ crow[w].stage = "EXECUTE"
    /\ execs[at[w]].status = "RUNNING"
    /\ \/ MayBeRunning(execs[at[w]]) /\ Exit(w)
       \/ /\ MayBeInterrupted(execs[at[w]])
          /\ Goto(w, "interrupt")
          /\ UNCHANGED locals
    /\ UNCHANGED <<tables, outside, ran>>

Interrupt(w) ==
    /\ pc[w] = "interrupt"
    /\ execs' = [execs EXCEPT ![at[w]] = Exec("FAILED")]
    /\ xr' = [xr EXCEPT ![w] = "FAILED"]
    /\ Goto(w, "record_exec")
    /\ UNCHANGED <<mission, cycles, observations, evidence, measured,
                   fingerprints, outside, ret, at, crow, mrow, ob, ran>>

\* No execution found: EXECUTE is required, and an executor for the action.
SelectExecutor(w) ==
    /\ pc[w] = "step" /\ crow[w].stage = "EXECUTE"
    /\ execs[at[w]].status = "NONE"
    /\ \/ Exit(w)
       \/ /\ cycles[at[w]].stage = "EXECUTE"
          /\ Goto(w, "claim")
          /\ UNCHANGED locals
    /\ UNCHANGED <<tables, outside, ran>>

\* Mutant: the slot is taken without looking whether it is free.
ClaimUnchecked(w) ==
    /\ pc[w] = "claim"
    /\ execs' = [execs EXCEPT ![at[w]] = [status |-> "RUNNING", owner |-> w]]
    /\ Goto(w, "invoke")
    /\ UNCHANGED <<mission, cycles, observations, evidence, measured,
                   fingerprints, outside, locals, ran>>

\* start_action_execution: BEGIN IMMEDIATE, look for the cycle's slot, insert.
Claim(w) ==
    /\ pc[w] = "claim"
    /\ IF execs[at[w]].status # "NONE"
       THEN Exit(w) /\ UNCHANGED execs
       ELSE /\ execs' = [execs EXCEPT
                            ![at[w]] = [status |-> "RUNNING", owner |-> w]]
            /\ Goto(w, "invoke")
            /\ UNCHANGED locals
    /\ UNCHANGED <<mission, cycles, observations, evidence, measured,
                   fingerprints, outside, ran>>

\* executor.execute, with its outcome; what it does to the project is world.
Invoke(w) ==
    /\ pc[w] = "invoke"
    /\ ran' = [ran EXCEPT ![at[w]] = @ + 1]
    /\ \E outcome \in {"SUCCEEDED", "FAILED"} : xr' = [xr EXCEPT ![w] = outcome]
    /\ Goto(w, "finish")
    /\ UNCHANGED <<tables, outside, ret, at, crow, mrow, ob>>

FinishExecution(w) ==
    /\ pc[w] = "finish"
    /\ execs' = [execs EXCEPT ![at[w]] = Exec(xr[w])]
    /\ Goto(w, "record_exec")
    /\ UNCHANGED <<mission, cycles, observations, evidence, measured,
                   fingerprints, outside, locals, ran>>

RecordExecution(w) ==
    /\ pc[w] = "record_exec"
    /\ IF cycles[at[w]].stage # "EXECUTE"
       THEN Exit(w)
       ELSE /\ crow' = [crow EXCEPT ![w] = RecordRow(at[w], xr[w])]
            /\ Goto(w, "save_stage")
            /\ UNCHANGED <<ret, at, mrow, ob, xr>>
    /\ UNCHANGED <<tables, outside, ran>>

(***************************************************************************)
(* MissionLifecycleService, as far as the mission row goes                 *)
(***************************************************************************)

\* pause, resume and cancel read the row and decide.
UserRead(op) ==
    /\ user.op = "none" /\ op \in UserOps
    /\ \/ op = "pause" /\ mission.state = "LIVE"
       \/ op = "resume" /\ mission.state = "PAUSED"
       \/ op = "cancel" /\ mission.state # "CANCELLED"
    /\ user' = [op |-> op, row |-> mission]
    /\ UNCHANGED <<tables, world, expired, pc, locals, ran>>

\* _set saves the whole row; cancel goes on to stamp the status.
UserSave ==
    /\ user.op \in {"pause", "resume", "cancel"}
    /\ mission' = [user.row EXCEPT !.state =
            CASE user.op = "pause" -> "PAUSED"
              [] user.op = "resume" -> "LIVE"
              [] user.op = "cancel" -> "CANCELLED"]
    /\ user' = [user EXCEPT !.op = IF @ = "cancel" THEN "cancelled" ELSE "none"]
    /\ UNCHANGED <<cycles, observations, evidence, execs, measured,
                   fingerprints, world, expired, pc, locals, ran>>

\* cancel: the row read back by _set, then saved with STOPPED_BY_USER.
UserReadBack ==
    /\ user.op = "cancelled"
    /\ user' = [op |-> "stop", row |-> mission]
    /\ UNCHANGED <<tables, world, expired, pc, locals, ran>>

\* Mutant: the status is stamped on the state.
UserStopState ==
    /\ user.op = "stop"
    /\ mission' = [user.row EXCEPT !.state = "STOPPED_BY_USER"]
    /\ user' = [user EXCEPT !.op = "none"]
    /\ UNCHANGED <<cycles, observations, evidence, execs, measured,
                   fingerprints, world, expired, pc, locals, ran>>

UserStop ==
    /\ user.op = "stop"
    /\ mission' = [user.row EXCEPT !.status = "STOPPED_BY_USER"]
    /\ user' = [user EXCEPT !.op = "none"]
    /\ UNCHANGED <<cycles, observations, evidence, execs, measured,
                   fingerprints, world, expired, pc, locals, ran>>

(***************************************************************************)
(* The environment                                                         *)
(***************************************************************************)
WorldChanges ==
    /\ world' \in Worlds \ {world}
    /\ UNCHANGED <<tables, expired, user, pc, locals, ran>>

DeadlinePasses ==
    /\ ~expired /\ expired' = TRUE
    /\ UNCHANGED <<tables, world, user, pc, locals, ran>>

\* A process dies; procfs no longer shows it as the owner of an execution.
Crash(w) ==
    /\ Crashes /\ pc[w] # "idle"
    /\ execs' = [c \in 1..MaxCycles |->
                    IF execs[c].owner = w THEN [execs[c] EXCEPT !.owner = Nobody]
                                          ELSE execs[c]]
    /\ Exit(w)
    /\ UNCHANGED <<mission, cycles, observations, evidence, measured,
                   fingerprints, outside, ran>>

(***************************************************************************)
(* Specification                                                           *)
(***************************************************************************)
GateStep(w) ==
    \/ Start(w) \/ Gate(w) \/ CreateCheck(w) \/ InsertCycle(w) \/ Look(w)
    \/ Collect(w) \/ Reserve(w)

ObserverStep(w) ==
    \/ Capture(w) \/ RecordCheck(w) \/ SaveObservation(w) \/ Reconcile(w)
    \/ SaveEvidence(w) \/ SaveObservationEvidence(w) \/ Advance(w)
    \/ SaveObserved(w)

RunnerStep(w) ==
    \/ RunStart(w) \/ ObserveRun(w) \/ Deadline(w) \/ TerminateCheck(w)
    \/ TerminateMission(w) \/ TerminateCycle(w) \/ Assess(w) \/ Strategize(w)
    \/ SaveMission(w) \/ SaveStage(w) \/ ReRead(w) \/ LoadExecution(w)
    \/ Verify(w) \/ Measure(w) \/ MeasurementEvent(w) \/ LoadMeasurement(w)
    \/ Adapt(w) \/ AdaptMission(w) \/ AdaptCycle(w)

DispatcherStep(w) ==
    \/ ReconcileExecution(w) \/ FindRunning(w) \/ Interrupt(w)
    \/ SelectExecutor(w) \/ Claim(w) \/ Invoke(w) \/ FinishExecution(w)
    \/ RecordExecution(w)

WorkerStep(w) ==
    GateStep(w) \/ ObserverStep(w) \/ RunnerStep(w) \/ DispatcherStep(w)

UserStep == (\E op \in UserOps : UserRead(op)) \/ UserSave \/ UserReadBack
            \/ UserStop

Next ==
    \/ \E w \in Workers : WorkerStep(w) \/ PlannerFails(w) \/ Crash(w)
    \/ UserStep
    \/ WorldChanges
    \/ DeadlinePasses

Spec == Init /\ [][Next]_vars

\* Fairness: the scheduler keeps invoking compete-run, and a process that runs
\* is not suspended forever.  A source that is read again and again, and an
\* executor that is asked for again and again, answers at last; so does the
\* planner.  Crashes, user commands and the environment owe nothing.
Fairness ==
    \A w \in Workers :
        /\ WF_vars(WorkerStep(w))
        /\ SF_vars(Collect(w) /\ pc'[w] = "record")
        /\ SF_vars(SelectExecutor(w) /\ pc'[w] = "claim")
        /\ SF_vars(Assess(w) /\ pc'[w] = "save_mission")
        /\ SF_vars(Adapt(w))

FairSpec == Spec /\ Fairness

(***************************************************************************)
(* Properties                                                              *)
(***************************************************************************)
StageRank(stage) ==
    CHOOSE n \in 1..7 : <<"OBSERVE", "ASSESS", "STRATEGIZE", "EXECUTE",
                          "VERIFY", "MEASURE", "ADAPT">>[n] = stage

Reached(c, stage) == StageRank(cycles[c].stage) >= StageRank(stage)

\* However many workers overlap after lost leases, and whatever crashes, an
\* executor runs at most once for a cycle: start_action_execution hands out one
\* slot, and an interrupted execution is closed as FAILED, never run again.
ExecutedAtMostOnce == \A c \in 1..MaxCycles : ran[c] <= 1

\* A cycle is marked verified only on an execution that ran and whose durable
\* row says SUCCEEDED (verify takes the status the dispatcher returned, or the
\* one read back after a restart).
VerifiedMeansExecuted ==
    \A c \in 1..Len(cycles) :
        cycles[c].verified = "yes" => execs[c].status = "SUCCEEDED" /\ ran[c] = 1

\* A cycle is completed only after its measurement was recorded, or because its
\* observation showed the deadline elapsed: also when two workers hand the same
\* cycle to each other and a whole-row save of one overtakes the other's.
CompletedMeansMeasured ==
    \A c \in 1..Len(cycles) :
        cycles[c].done =>
            \/ c \in measured
            \/ \E i \in DOMAIN observations[c] : observations[c][i].fp.expired

\* One worker at a time, any crash: what a restarted runner reads back is there.
\* A cycle beyond OBSERVE names its last observation with the evidence saved on
\* it (reconcile would refuse anything else), and a cycle beyond EXECUTE has a
\* terminal execution whose outcome it repeats (_execution, verify).
ResumableEvidence ==
    \A c \in 1..Len(cycles) :
        /\ Reached(c, "ASSESS") =>
              /\ cycles[c].obs = Len(observations[c])
              /\ cycles[c].obs # 0
              /\ observations[c][cycles[c].obs].ev = cycles[c].ev
              /\ cycles[c].ev # 0
        /\ Reached(c, "VERIFY") =>
              /\ execs[c].status \in {"SUCCEEDED", "FAILED"}
              /\ (cycles[c].ok = "yes") <=> (execs[c].status = "SUCCEEDED")

\* One worker at a time: an observation is claimed by one evidence record
\* however often reconcile is interrupted and run again.
OneEvidencePerObservation ==
    \A c \in 1..MaxCycles : \A i \in DOMAIN evidence[c] : evidence[c][i] <= 1

\* One worker at a time: only the last cycle is open, so that the next number
\* create_cycle hands out is the one behind it.
OnlyLastCycleOpen ==
    \A c \in 1..Len(cycles) : c < Len(cycles) => cycles[c].done

\* One worker at a time: a cycle's stages and its completion are never taken
\* back, whatever rows are saved whole.
StagesOnlyAdvance ==
    [][\A c \in 1..Len(cycles) :
          /\ StageRank(cycles'[c].stage) >= StageRank(cycles[c].stage)
          /\ cycles[c].done => cycles'[c].done]_vars

\* A cycle at ADAPT that nobody works on has its measurement event: the runner
\* "can be called again after a process restart" (competition_runner.py:54).
ResumableMeasurement ==
    \A c \in 1..Len(cycles) :
        (Reached(c, "ADAPT") /\ \A w \in Workers : pc[w] = "idle")
            => c \in measured

\* Nothing brings a cancelled mission back: the state machine has no transition
\* out of CANCELLED, and the loop's save_mission must not undo the user's.
CancelIsFinal ==
    [][mission.state = "CANCELLED" => mission'.state = "CANCELLED"]_vars

\* Without crashes, a cycle that has observed something is brought to its end
\* while the mission stays runnable.
CycleCompletes ==
    \A c \in 1..MaxCycles :
        (c <= Len(cycles) /\ cycles[c].stage # "OBSERVE")
            ~> ((c <= Len(cycles) /\ cycles[c].done) \/ ~Runnable(mission))
=============================================================================
