------------------------- MODULE CompeteCycleProofs -------------------------
(***************************************************************************)
(* Proofs about the COMPETE loop, for any number of workers, worlds and    *)
(* cycles, with or without exclusion, crashes and owner identity.          *)
(*                                                                         *)
(* Four invariants, each on top of the one before: Shape, what every read  *)
(* and every save relies on; IInv, who may still invoke an executor; Sound,*)
(* what rows and copies may claim however workers overlap; Turns, what one *)
(* worker at a time holds and what a restarted one finds.                  *)
(***************************************************************************)
EXTENDS CompeteCycle, TLAPS

\* The cycle a worker carries exists once it has been chosen or inserted.
Bound ==
    \A w \in Workers :
        /\ pc[w] \notin {"idle", "gate", "create", "insert"}
              => at[w] \in 1..Len(cycles)
        /\ pc[w] = "insert" => at[w] \in 1..(Len(cycles) + 1)

\* The observation a worker reconciles exists.
Carried ==
    \A w \in Workers :
        pc[w] \in {"reconcile", "save_evidence", "save_ev", "advance"}
            => ob[w].i \in 1..Len(observations[at[w]])

\* Every observation has its count of evidence records.
Paired == \A c \in 1..MaxCycles : Len(evidence[c]) = Len(observations[c])

\* A worker about to invoke an executor holds the only claim on its cycle.
Claimed ==
    /\ \A c \in 1..MaxCycles : execs[c].status = "NONE" => ran[c] = 0
    /\ \A w \in Workers :
          /\ pc[w] = "invoke" => /\ ran[at[w]] = 0
                                 /\ execs[at[w]].status # "NONE"
          /\ pc[w] = "finish" => xr[w] \in {"SUCCEEDED", "FAILED"}
    /\ \A v, w \in Workers :
          pc[v] = "invoke" /\ pc[w] = "invoke" /\ at[v] = at[w] => v = w

\* The shape of the state: what every read and every save of a row relies on.
Shape == TypeOK /\ Bound /\ Carried /\ Paired

IInv == Shape /\ Claimed /\ ExecutedAtMostOnce

\* The row of a cycle that exists is a cycle row.
LEMMA CycleTyped ==
  ASSUME TablesOK, NEW i \in 1..Len(cycles) PROVE cycles[i] \in CycleRow
  BY DEF TablesOK

\* Saving a cycle row whole keeps the table typed and its length.
LEMMA CycleUpdated ==
  ASSUME TablesOK, NEW i \in 1..Len(cycles), NEW row \in CycleRow
  PROVE  /\ [cycles EXCEPT ![i] = row] \in Seq(CycleRow)
         /\ Len([cycles EXCEPT ![i] = row]) = Len(cycles)
  BY DEF TablesOK

\* The execution row of a cycle number is an execution row.
LEMMA ExecTyped ==
  ASSUME TablesOK, NEW i \in 1..Len(cycles)
  PROVE  i \in 1..MaxCycles /\ execs[i].status \in ExecStatus
  <1>1. i \in 1..MaxCycles BY CycleAssumption DEF TablesOK
  <1>2. QED BY <1>1 DEF TablesOK, ExecRow

\* Observations and evidence of a cycle number are sequences.
LEMMA ObservationsTyped ==
  ASSUME TablesOK, NEW c \in 1..Len(cycles)
  PROVE  /\ c \in 1..MaxCycles
         /\ observations[c] \in Seq(ObsRow) /\ evidence[c] \in Seq(Nat)
         /\ Len(observations[c]) \in Nat
  <1>1. c \in 1..MaxCycles BY CycleAssumption DEF TablesOK
  <1>2. observations[c] \in Seq(ObsRow) /\ evidence[c] \in Seq(Nat)
    BY <1>1 DEF TablesOK
  <1>3. QED BY <1>1, <1>2

\* An observation that exists carries a fingerprint and an evidence number.
LEMMA ObservationTyped ==
  ASSUME TablesOK, Paired, NEW c \in 1..MaxCycles,
         NEW i \in 1..Len(observations[c])
  PROVE  /\ observations[c][i] \in ObsRow /\ observations[c][i].ev \in Nat
         /\ evidence[c][i] \in Nat
  <1>1. observations[c] \in Seq(ObsRow) /\ evidence[c] \in Seq(Nat)
    BY DEF TablesOK
  <1>2. observations[c][i] \in ObsRow BY <1>1
  <1>3. i \in 1..Len(evidence[c]) BY DEF Paired
  <1>4. evidence[c][i] \in Nat BY <1>1, <1>3
  <1>5. QED BY <1>2, <1>4 DEF ObsRow

\* The last observation, as a worker carries it away, is typed.
LEMMA LastObservationCarried ==
  ASSUME TablesOK, NEW c \in 1..Len(cycles), observations[c] # <<>>
  PROVE  LET last == observations[c][Len(observations[c])] IN
         /\ [i |-> Len(observations[c]), fps |-> {last.fp}, ev |-> last.ev]
               \in Carrying
         /\ [i |-> Len(observations[c]), fps |-> {last.fp}, ev |-> 0]
               \in Carrying
         /\ Len(observations[c]) \in 1..Len(observations[c])
  <1>1. observations[c] \in Seq(ObsRow) /\ Len(observations[c]) \in Nat
    BY ObservationsTyped
  <1>2. /\ Len(observations[c]) \in 1..Len(observations[c])
        /\ observations[c][Len(observations[c])] \in ObsRow
    BY <1>1
  <1>3. QED BY <1>1, <1>2 DEF Carrying, ObsRow

\* A worker may replace the evidence number it carries.
LEMMA CarryingUpdated ==
  ASSUME WorkersOK, NEW w \in Workers, NEW n \in Nat
  PROVE  /\ [ob[w] EXCEPT !.i = n] \in Carrying
         /\ [ob[w] EXCEPT !.ev = n] \in Carrying
  BY DEF WorkersOK, Carrying

\* A worker that jumps to a label is at a label.
LEMMA GotoTyped ==
  ASSUME WorkersOK, NEW w \in Workers, NEW l \in Labels, Goto(w, l)
  PROVE  pc' \in [Workers -> Labels]
  BY DEF WorkersOK, Goto

\* A worker that copies a row it has read holds a row of that kind.
LEMMA CopyTyped ==
  ASSUME WorkersOK, NEW w \in Workers
  PROVE  /\ \A row \in CycleRow :
               crow' = [crow EXCEPT ![w] = row] => crow' \in [Workers -> CycleRow]
         /\ \A m \in MissionRow :
               mrow' = [mrow EXCEPT ![w] = m] => mrow' \in [Workers -> MissionRow]
         /\ \A o \in Carrying :
               ob' = [ob EXCEPT ![w] = o] => ob' \in [Workers -> Carrying]
  BY DEF WorkersOK

\* A worker that ends, or dies, leaves everything in shape.
LEMMA ExitKeepsShape ==
  ASSUME Shape, NEW w \in Workers, Exit(w),
         TablesOK', OutsideOK', Paired', ran' \in [1..MaxCycles -> Nat],
         observations' = observations, Len(cycles') >= Len(cycles)
  PROVE  Shape'
  <1>1. WorkersOK'
    BY CycleAssumption
       DEF Shape, TypeOK, WorkersOK, Exit, Forget, Goto, Labels, Returns,
           CycleRow, MissionRow, NewCycle, NoObs, Carrying, ExecStatus, Stages,
           MissionStatus
  <1>2. Bound'
    BY DEF Shape, TypeOK, WorkersOK, TablesOK, Exit, Forget, Goto, Bound
  <1>3. Carried'
    BY DEF Shape, TypeOK, WorkersOK, TablesOK, Exit, Forget, Goto, Carried
  <1>4. QED BY <1>1, <1>2, <1>3 DEF Shape, TypeOK

\* One case per step of a worker; each shows the part of the shape the step disturbs.
LEMMA WorkerKeepsShape ==
  ASSUME Shape, NEW w \in Workers, WorkerStep(w) \/ PlannerFails(w) \/ Crash(w)
  PROVE  Shape'
  <1> USE CycleAssumption
  <1>0. TablesOK /\ OutsideOK /\ WorkersOK /\ Bound /\ Carried /\ Paired /\ ran \in [1..MaxCycles -> Nat]
    BY DEF Shape, TypeOK
  <1> USE <1>0

  <1>1. CASE Start(w)
    <2>1. TablesOK' /\ OutsideOK' /\ Paired' /\ ran' \in [1..MaxCycles -> Nat]
      BY <1>1 DEF Start, tables, outside, TablesOK, OutsideOK, Paired
    <2>2. pc' \in [Workers -> Labels]
      BY <1>1 DEF Start, Goto, WorkersOK, Labels
    <2>3. WorkersOK'
      BY <1>1, <2>2 DEF Start, Goto, locals, WorkersOK
    <2>4. Bound'
      BY <1>1 DEF Start, Goto, tables, locals, Bound, TablesOK, WorkersOK
    <2>5. Carried'
      BY <1>1 DEF Start, Goto, tables, locals, Carried, Bound, TablesOK,
         WorkersOK, Carrying
    <2>6. QED BY <2>1, <2>3, <2>4, <2>5 DEF Shape, TypeOK
  <1>2. CASE Gate(w)
    <2>1. cycles' = cycles /\ (Incomplete => Len(cycles) \in 1..Len(cycles))
      BY <1>2 DEF Gate, tables, Incomplete, TablesOK
    <2>2. Incomplete => cycles[Len(cycles)] \in CycleRow /\ Len(cycles) \in 0..MaxCycles
      <3>1. CASE Incomplete
        <4>1. Len(cycles) \in 1..Len(cycles) BY <2>1, <3>1
        <4>2. cycles[Len(cycles)] \in CycleRow BY <4>1, CycleTyped
        <4>3. QED BY <4>1, <4>2 DEF TablesOK
      <3>2. QED BY <3>1
    <2>3. TablesOK' /\ OutsideOK' /\ Paired' /\ ran' \in [1..MaxCycles -> Nat]
      BY <1>2 DEF Gate, tables, outside, TablesOK, OutsideOK, Paired
    <2>4. CASE Exit(w)
      <3>1. observations' = observations /\ Len(cycles') >= Len(cycles)
        BY <1>2 DEF Gate, tables, TablesOK
      <3>2. QED BY <2>3, <2>4, <3>1, ExitKeepsShape
    <2>5. CASE ~Exit(w)
      <3>1. \E l \in Labels : pc' = [pc EXCEPT ![w] = l]
        BY <1>2, <2>5 DEF Gate, Goto, Labels
      <3>2. ret' \in [Workers -> Returns]
        BY <1>2, <2>5 DEF Gate, WorkersOK, Returns
      <3>3. at' \in [Workers -> 0..MaxCycles]
        BY <1>2, <2>2, <2>5 DEF Gate, WorkersOK
      <3>4. crow' \in [Workers -> CycleRow]
        BY <1>2, <2>2, <2>5 DEF Gate, WorkersOK
      <3>5. WorkersOK'
        BY <1>2, <2>5, <3>1, <3>2, <3>3, <3>4 DEF Gate, WorkersOK
      <3>6. Bound'
        <4>1. CASE Incomplete
          BY <1>2, <2>1, <2>5, <4>1 DEF Gate, Goto, Bound, WorkersOK
        <4>2. CASE ~Incomplete
          BY <1>2, <2>1, <2>5, <4>2 DEF Gate, Goto, Bound, WorkersOK
        <4>3. QED BY <4>1, <4>2
      <3>7. Carried'
        BY <1>2, <2>5 DEF Gate, Goto, tables, Carried, WorkersOK
      <3>8. QED BY <2>3, <3>5, <3>6, <3>7 DEF Shape, TypeOK
    <2>6. QED BY <2>4, <2>5
  <1>3. CASE CreateCheck(w)
    <2>1. cycles' = cycles /\ Len(cycles) \in Nat /\ Len(cycles) < MaxCycles
      BY <1>3 DEF CreateCheck, tables, TablesOK
    <2>2. TablesOK' /\ OutsideOK' /\ Paired' /\ ran' \in [1..MaxCycles -> Nat]
      BY <1>3 DEF CreateCheck, tables, outside, TablesOK, OutsideOK, Paired
    <2>3. CASE Exit(w)
      <3>1. observations' = observations /\ Len(cycles') >= Len(cycles)
        BY <1>3, <2>1 DEF CreateCheck, tables
      <3>2. QED BY <2>2, <2>3, <3>1, ExitKeepsShape
    <2>4. CASE ~Exit(w)
      <3>1. /\ pc' = [pc EXCEPT ![w] = "insert"]
            /\ at' = [at EXCEPT ![w] = Len(cycles) + 1]
            /\ UNCHANGED <<observations, ret, crow, mrow, ob, xr>>
        BY <1>3, <2>4 DEF CreateCheck, Goto, tables
      <3>2. Len(cycles) + 1 \in 1..(Len(cycles) + 1) /\ Len(cycles) + 1 \in 0..MaxCycles
        BY <2>1
      <3>3. "insert" \in Labels
        BY DEF Labels
      <3>4. WorkersOK'
        BY <3>1, <3>2, <3>3 DEF WorkersOK
      <3>5. Bound'
        BY <2>1, <3>1, <3>2 DEF Bound, WorkersOK
      <3>6. Carried'
        BY <3>1 DEF Carried, WorkersOK
      <3>7. QED BY <2>2, <3>4, <3>5, <3>6 DEF Shape, TypeOK
    <2>5. QED BY <2>3, <2>4
  <1>4. CASE InsertCycle(w)
    <2>1. /\ at[w] \in 1..(Len(cycles) + 1) /\ at[w] <= MaxCycles
          /\ Len(cycles) \in Nat /\ cycles \in Seq(CycleRow)
      BY <1>4 DEF InsertCycle, Bound, TablesOK, WorkersOK
    <2>2. CASE Len(cycles) >= at[w]
      <3>1. Exit(w) /\ cycles' = cycles /\ observations' = observations
        BY <1>4, <2>2 DEF InsertCycle
      <3>2. TablesOK' /\ OutsideOK' /\ Paired' /\ ran' \in [1..MaxCycles -> Nat]
        BY <1>4, <3>1 DEF InsertCycle, outside, TablesOK, OutsideOK, Paired
      <3>3. QED BY <2>1, <3>1, <3>2, ExitKeepsShape
    <2>3. CASE Len(cycles) < at[w]
      <3>1. cycles' = Append(cycles, NewCycle) /\ observations' = observations
        BY <1>4, <2>1, <2>3 DEF InsertCycle
      <3>2. NewCycle \in CycleRow
        BY DEF NewCycle, CycleRow, Stages
      <3>3. cycles' \in Seq(CycleRow) /\ Len(cycles') = at[w]
        BY <2>1, <2>3, <3>1, <3>2
      <3>4. TablesOK' /\ OutsideOK' /\ Paired' /\ ran' \in [1..MaxCycles -> Nat]
        BY <1>4, <2>1, <3>3 DEF InsertCycle, outside, TablesOK, OutsideOK, Paired
      <3>5. CASE Exit(w)
        BY <2>1, <2>3, <3>1, <3>3, <3>4, <3>5, ExitKeepsShape
      <3>6. CASE ~Exit(w)
        <4>1. /\ pc' = [pc EXCEPT ![w] = ret[w]]
              /\ crow' = [crow EXCEPT ![w] = NewCycle]
              /\ UNCHANGED <<ret, at, mrow, ob, xr>>
          BY <1>4, <2>1, <2>3, <3>6 DEF InsertCycle, Goto
        <4>2. ret[w] \in Labels
          BY DEF WorkersOK, Returns, Labels
        <4>3. WorkersOK'
          BY <3>2, <4>1, <4>2 DEF WorkersOK
        <4>4. Bound'
          BY <2>1, <2>3, <3>3, <4>1 DEF Bound, WorkersOK, Returns
        <4>5. Carried'
          BY <3>1, <4>1 DEF Carried, WorkersOK, Returns
        <4>6. QED BY <3>4, <4>3, <4>4, <4>5 DEF Shape, TypeOK
      <3>7. QED BY <3>5, <3>6
    <2>4. QED BY <2>1, <2>2, <2>3
  <1>5. CASE Look(w)
    <2>1. observations[at[w]] # <<>> =>
           [i |-> Len(observations[at[w]]),
            fps |-> {observations[at[w]][Len(observations[at[w]])].fp},
            ev |-> observations[at[w]][Len(observations[at[w]])].ev] \in Carrying
      BY <1>5, LastObservationCarried DEF Look, Bound
    <2>2. TablesOK' /\ OutsideOK' /\ Paired' /\ ran' \in [1..MaxCycles -> Nat]
      BY <1>5 DEF Look, tables, outside, TablesOK, OutsideOK, Paired
    <2>3. observations' = observations /\ Len(cycles') >= Len(cycles)
      BY <1>5 DEF Look, tables, TablesOK
    <2>4. CASE Exit(w)
      BY <2>2, <2>3, <2>4, ExitKeepsShape
    <2>5. CASE ~Exit(w)
      <3>1. pc' \in [Workers -> Labels]
        <4>1. Goto(w, "collect") \/ Goto(w, "reserve")
          BY <1>5, <2>5 DEF Look
        <4>2. {"collect", "reserve"} \subseteq Labels
          BY DEF Labels
        <4>3. QED BY <4>1, <4>2, GotoTyped
      <3>2. ob' \in [Workers -> Carrying]
        <4>1. \/ ob' = ob
              \/ observations[at[w]] # <<>> /\ ob' = [ob EXCEPT ![w] =
                    [i |-> Len(observations[at[w]]),
                     fps |-> {observations[at[w]][Len(observations[at[w]])].fp},
                     ev |-> observations[at[w]][Len(observations[at[w]])].ev]]
          BY <1>5, <2>5 DEF Look, locals
        <4>2. CASE ob' = ob BY <4>2 DEF WorkersOK
        <4>3. QED BY <2>1, <4>1, <4>2, CopyTyped
      <3>3. WorkersOK'
        BY <1>5, <2>5, <3>1, <3>2 DEF Look, Goto, locals, WorkersOK
      <3>4. Bound'
        BY <1>5, <2>5 DEF Look, Goto, locals, tables, Bound, TablesOK,
           WorkersOK
      <3>5. Carried'
        BY <1>5, <2>5 DEF Look, Goto, locals, tables, Carried, Bound,
           TablesOK, WorkersOK, Carrying
      <3>6. QED BY <2>2, <3>3, <3>4, <3>5 DEF Shape, TypeOK
    <2>6. QED BY <2>4, <2>5
  <1>6. CASE Collect(w)
    <2>1. [i |-> 0, fps |-> {Here}, ev |-> 0] \in Carrying
      BY <1>6 DEF Collect, OutsideOK, Carrying, Fingerprint, Here
    <2>2. TablesOK' /\ OutsideOK' /\ Paired' /\ ran' \in [1..MaxCycles -> Nat]
      BY <1>6 DEF Collect, tables, outside, TablesOK, OutsideOK, Paired
    <2>3. observations' = observations /\ Len(cycles') >= Len(cycles)
      BY <1>6 DEF Collect, tables, TablesOK
    <2>4. CASE Exit(w)
      BY <2>2, <2>3, <2>4, ExitKeepsShape
    <2>5. CASE ~Exit(w)
      <3>1. pc' \in [Workers -> Labels]
        <4>1. Goto(w, "record")
          BY <1>6, <2>5 DEF Collect
        <4>2. {"record"} \subseteq Labels
          BY DEF Labels
        <4>3. QED BY <4>1, <4>2, GotoTyped
      <3>2. ret' \in [Workers -> Returns]
        BY <1>6, <2>1, <2>5 DEF Collect, Goto, WorkersOK, Returns
      <3>3. ob' \in [Workers -> Carrying]
        <4>1. ob' = [ob EXCEPT ![w] = [i |-> 0, fps |-> {Here}, ev |-> 0]]
          BY <1>6, <2>5 DEF Collect
        <4>2. QED BY <2>1, <4>1, CopyTyped
      <3>4. WorkersOK'
        BY <1>6, <2>5, <3>1, <3>2, <3>3 DEF Collect, Goto, WorkersOK
      <3>5. Bound'
        BY <1>6, <2>5 DEF Collect, Goto, tables, Bound, TablesOK, WorkersOK
      <3>6. Carried'
        BY <1>6, <2>5 DEF Collect, Goto, tables, Carried, Bound, TablesOK,
           WorkersOK, Carrying
      <3>7. QED BY <2>2, <3>4, <3>5, <3>6 DEF Shape, TypeOK
    <2>6. QED BY <2>4, <2>5
  <1>7. CASE Reserve(w)
    <2>1. TablesOK' /\ OutsideOK' /\ Paired' /\ ran' \in [1..MaxCycles -> Nat]
      BY <1>7 DEF Reserve, outside, TablesOK, OutsideOK, Paired, WorkersOK,
         Carrying
    <2>2. pc' \in [Workers -> Labels]
      BY <1>7 DEF Reserve, Goto, WorkersOK, Labels
    <2>3. WorkersOK'
      BY <1>7, <2>2 DEF Reserve, Goto, locals, WorkersOK
    <2>4. Bound'
      BY <1>7 DEF Reserve, Goto, locals, Bound, TablesOK, WorkersOK
    <2>5. Carried'
      BY <1>7 DEF Reserve, Goto, locals, Carried, Bound, TablesOK, WorkersOK,
         Carrying
    <2>6. QED BY <2>1, <2>3, <2>4, <2>5 DEF Shape, TypeOK
  <1>8. CASE Capture(w)
    <2>1. [i |-> 0, fps |-> {Here}, ev |-> 0] \in Carrying
      BY <1>8 DEF Capture, OutsideOK, Carrying, Fingerprint, Here
    <2>2. TablesOK' /\ OutsideOK' /\ Paired' /\ ran' \in [1..MaxCycles -> Nat]
      BY <1>8 DEF Capture, tables, outside, TablesOK, OutsideOK, Paired
    <2>3. observations' = observations /\ Len(cycles') >= Len(cycles)
      BY <1>8 DEF Capture, tables, TablesOK
    <2>4. CASE Exit(w)
      BY <2>2, <2>3, <2>4, ExitKeepsShape
    <2>5. CASE ~Exit(w)
      <3>1. pc' \in [Workers -> Labels]
        <4>1. Goto(w, "record")
          BY <1>8, <2>5 DEF Capture
        <4>2. {"record"} \subseteq Labels
          BY DEF Labels
        <4>3. QED BY <4>1, <4>2, GotoTyped
      <3>2. ret' \in [Workers -> Returns]
        BY <1>8, <2>1, <2>5 DEF Capture, Goto, WorkersOK, Returns
      <3>3. ob' \in [Workers -> Carrying]
        <4>1. ob' = [ob EXCEPT ![w] = [i |-> 0, fps |-> {Here}, ev |-> 0]]
          BY <1>8, <2>5 DEF Capture
        <4>2. QED BY <2>1, <4>1, CopyTyped
      <3>4. WorkersOK'
        BY <1>8, <2>5, <3>1, <3>2, <3>3 DEF Capture, Goto, WorkersOK
      <3>5. Bound'
        BY <1>8, <2>5 DEF Capture, Goto, tables, Bound, TablesOK, WorkersOK
      <3>6. Carried'
        BY <1>8, <2>5 DEF Capture, Goto, tables, Carried, Bound, TablesOK,
           WorkersOK, Carrying
      <3>7. QED BY <2>2, <3>4, <3>5, <3>6 DEF Shape, TypeOK
    <2>6. QED BY <2>4, <2>5
  <1>9. CASE RecordCheck(w)
    <2>1. TablesOK' /\ OutsideOK' /\ Paired' /\ ran' \in [1..MaxCycles -> Nat]
      BY <1>9 DEF RecordCheck, tables, outside, TablesOK, OutsideOK, Paired
    <2>2. observations' = observations /\ Len(cycles') >= Len(cycles)
      BY <1>9 DEF RecordCheck, tables, TablesOK
    <2>3. CASE Exit(w)
      BY <2>1, <2>2, <2>3, ExitKeepsShape
    <2>4. CASE ~Exit(w)
      <3>1. pc' \in [Workers -> Labels]
        <4>1. Goto(w, "save_obs")
          BY <1>9, <2>4 DEF RecordCheck
        <4>2. {"save_obs"} \subseteq Labels
          BY DEF Labels
        <4>3. QED BY <4>1, <4>2, GotoTyped
      <3>2. WorkersOK'
        BY <1>9, <2>4, <3>1 DEF RecordCheck, Goto, locals, WorkersOK
      <3>3. Bound'
        BY <1>9, <2>4 DEF RecordCheck, Goto, locals, tables, Bound, TablesOK,
           WorkersOK
      <3>4. Carried'
        BY <1>9, <2>4 DEF RecordCheck, Goto, locals, tables, Carried, Bound,
           TablesOK, WorkersOK, Carrying
      <3>5. QED BY <2>1, <3>2, <3>3, <3>4 DEF Shape, TypeOK
    <2>5. QED BY <2>3, <2>4
  <1>10. CASE SaveObservation(w)
    <2>1. /\ at[w] \in 1..MaxCycles
          /\ observations[at[w]] \in Seq(ObsRow) /\ evidence[at[w]] \in Seq(Nat)
          /\ Len(observations[at[w]]) \in Nat
          /\ Len(evidence[at[w]]) = Len(observations[at[w]])
      BY <1>10, ObservationsTyped, ExecTyped DEF SaveObservation, Bound, Paired
    <2>2. PICK fp \in ob[w].fps :
             observations' = [observations EXCEPT
                 ![at[w]] = Append(observations[at[w]], [fp |-> fp, ev |-> 0])]
      BY <1>10 DEF SaveObservation
    <2>3. [fp |-> fp, ev |-> 0] \in ObsRow
      BY DEF WorkersOK, Carrying, ObsRow
    <2>4. /\ Append(observations[at[w]], [fp |-> fp, ev |-> 0]) \in Seq(ObsRow)
          /\ Append(evidence[at[w]], 0) \in Seq(Nat)
          /\ Len(Append(observations[at[w]], [fp |-> fp, ev |-> 0]))
                = Len(observations[at[w]]) + 1
          /\ Len(Append(evidence[at[w]], 0)) = Len(observations[at[w]]) + 1
      BY <2>1, <2>3
    <2>5. evidence' = [evidence EXCEPT ![at[w]] = Append(evidence[at[w]], 0)]
      BY <1>10 DEF SaveObservation
    <2>6. TablesOK'
      BY <1>10, <2>1, <2>2, <2>4, <2>5 DEF SaveObservation, TablesOK
    <2>7. OutsideOK' /\ ran' \in [1..MaxCycles -> Nat]
      BY <1>10 DEF SaveObservation, outside, OutsideOK
    <2>8. Paired'
      BY <2>1, <2>2, <2>4, <2>5 DEF Paired, TablesOK
    <2>9. /\ pc' = [pc EXCEPT ![w] = "reconcile"]
          /\ ob' = [ob EXCEPT ![w] = [ob[w] EXCEPT !.i = Len(observations[at[w]]) + 1]]
          /\ UNCHANGED <<cycles, ret, at, crow, mrow, xr>>
      BY <1>10 DEF SaveObservation, Goto
    <2>10. [ob[w] EXCEPT !.i = Len(observations[at[w]]) + 1] \in Carrying
      <3>1. Len(observations[at[w]]) + 1 \in Nat
        BY <2>1
      <3>2. QED BY <3>1, CarryingUpdated
    <2>11. "reconcile" \in Labels
      BY DEF Labels
    <2>12. WorkersOK'
      BY <2>9, <2>10, <2>11 DEF WorkersOK
    <2>13. Bound'
      BY <1>10, <2>9 DEF SaveObservation, Bound, WorkersOK
    <2>14. Carried'
      <3>1. ob'[w].i = Len(observations[at[w]]) + 1 /\ at' = at
        BY <2>9 DEF WorkersOK, Carrying
      <3>2. \A c \in 1..MaxCycles : Len(observations'[c]) >= Len(observations[c])
        BY <2>1, <2>2, <2>4 DEF TablesOK
      <3>3. ob'[w].i \in 1..Len(observations'[at[w]])
        BY <2>1, <2>2, <2>4, <3>1 DEF TablesOK
      <3>4. SUFFICES ASSUME NEW v \in Workers, v # w,
                pc[v] \in {"reconcile", "save_evidence", "save_ev", "advance"}
            PROVE  ob[v].i \in 1..Len(observations'[at[v]])
        BY <2>9, <3>1, <3>3 DEF Carried, WorkersOK
      <3>5. ob[v].i \in 1..Len(observations[at[v]]) /\ at[v] \in 1..MaxCycles
        BY <3>4, ExecTyped DEF Carried, Bound
      <3>6. /\ observations[at[v]] \in Seq(ObsRow)
            /\ observations'[at[v]] \in Seq(ObsRow)
        BY <2>6, <3>5 DEF TablesOK
      <3>7. QED BY <3>2, <3>5, <3>6
    <2>15. QED BY <2>6, <2>7, <2>8, <2>12, <2>13, <2>14 DEF Shape, TypeOK
  <1>11. CASE Reconcile(w)
    <2>1. at[w] \in 1..MaxCycles /\ ob[w].i \in 1..Len(observations[at[w]])
      BY <1>11, ExecTyped DEF Reconcile, Bound, Carried
    <2>2. observations[at[w]][ob[w].i].ev \in Nat /\ evidence[at[w]][ob[w].i] \in Nat
      BY <2>1, ObservationTyped
    <2>3. \A n \in Nat : [ob[w] EXCEPT !.ev = n] \in Carrying
      BY CarryingUpdated
    <2>4. TablesOK' /\ OutsideOK' /\ Paired' /\ ran' \in [1..MaxCycles -> Nat]
      BY <1>11 DEF Reconcile, tables, outside, TablesOK, OutsideOK, Paired
    <2>5. pc' \in [Workers -> Labels]
      BY <1>11 DEF Reconcile, Goto, WorkersOK, Labels
    <2>6. ob' \in [Workers -> Carrying]
      BY <1>11, <2>1, <2>2, <2>3 DEF Reconcile, Goto, WorkersOK
    <2>7. WorkersOK'
      BY <1>11, <2>5, <2>6 DEF Reconcile, Goto, WorkersOK
    <2>8. Bound'
      BY <1>11 DEF Reconcile, Goto, tables, Bound, TablesOK, WorkersOK
    <2>9. Carried'
      BY <1>11 DEF Reconcile, Goto, tables, Carried, Bound, TablesOK,
         WorkersOK, Carrying
    <2>10. QED BY <2>4, <2>7, <2>8, <2>9 DEF Shape, TypeOK
  <1>12. CASE SaveEvidence(w)
    <2>1. at[w] \in 1..MaxCycles /\ ob[w].i \in 1..Len(observations[at[w]])
      BY <1>12, ExecTyped DEF SaveEvidence, Bound, Carried
    <2>2. /\ evidence[at[w]] \in Seq(Nat)
          /\ Len(evidence[at[w]]) = Len(observations[at[w]])
          /\ evidence[at[w]][ob[w].i] \in Nat
      BY <2>1, ObservationTyped DEF TablesOK, Paired
    <2>3. evidence[at[w]][ob[w].i] + 1 \in Nat
      BY <2>2
    <2>4. [ob[w] EXCEPT !.ev = evidence[at[w]][ob[w].i] + 1] \in Carrying
      BY <2>3, CarryingUpdated
    <2>5. \A n \in Nat :
             /\ [evidence[at[w]] EXCEPT ![ob[w].i] = n] \in Seq(Nat)
             /\ Len([evidence[at[w]] EXCEPT ![ob[w].i] = n])
                   = Len(observations[at[w]])
      BY <2>1, <2>2
    <2>6. evidence' = [evidence EXCEPT ![at[w]] =
             [evidence[at[w]] EXCEPT ![ob[w].i] = evidence[at[w]][ob[w].i] + 1]]
      BY <1>12 DEF SaveEvidence
    <2>7. TablesOK' /\ OutsideOK' /\ Paired' /\ ran' \in [1..MaxCycles -> Nat]
      <3> DEFINE row == [evidence[at[w]] EXCEPT
                           ![ob[w].i] = evidence[at[w]][ob[w].i] + 1]
      <3>1. row \in Seq(Nat) /\ Len(row) = Len(observations[at[w]])
        BY <2>3, <2>5
      <3>2. evidence' = [evidence EXCEPT ![at[w]] = row]
        BY <2>6
      <3> HIDE DEF row
      <3>3. UNCHANGED <<mission, cycles, observations, execs, measured,
                        fingerprints, outside, ran>>
        BY <1>12 DEF SaveEvidence
      <3>4. evidence' \in [1..MaxCycles -> Seq(Nat)]
        BY <2>1, <3>1, <3>2 DEF TablesOK
      <3>5. TablesOK'
        BY <3>3, <3>4 DEF TablesOK
      <3>6. Paired'
        BY <2>1, <3>1, <3>2, <3>3 DEF TablesOK, Paired
      <3>7. QED BY <3>3, <3>5, <3>6 DEF outside, OutsideOK
    <2>8. pc' \in [Workers -> Labels]
      BY <1>12 DEF SaveEvidence, Goto, WorkersOK, Labels
    <2>9. ob' \in [Workers -> Carrying]
      BY <1>12, <2>4 DEF SaveEvidence, WorkersOK
    <2>10. WorkersOK'
      BY <1>12, <2>8, <2>9 DEF SaveEvidence, WorkersOK
    <2>11. Bound'
      BY <1>12 DEF SaveEvidence, Goto, Bound, WorkersOK
    <2>12. Carried'
      BY <1>12 DEF SaveEvidence, Goto, Carried, WorkersOK, Carrying
    <2>13. QED BY <2>7, <2>10, <2>11, <2>12 DEF Shape, TypeOK
  <1>13. CASE SaveObservationEvidence(w)
    <2>1. at[w] \in 1..MaxCycles /\ ob[w].i \in 1..Len(observations[at[w]])
      BY <1>13, ExecTyped DEF SaveObservationEvidence, Bound, Carried
    <2>2. observations[at[w]] \in Seq(ObsRow) /\ observations[at[w]][ob[w].i] \in ObsRow /\ ob[w].ev \in Nat
      BY <1>13, <2>1 DEF SaveObservationEvidence, TablesOK, WorkersOK,
         Carrying
    <2>3. [observations[at[w]][ob[w].i] EXCEPT !.ev = ob[w].ev] \in ObsRow
      BY <1>13, <2>2 DEF SaveObservationEvidence, ObsRow
    <2>4. /\ [observations[at[w]] EXCEPT ![ob[w].i].ev = ob[w].ev] \in Seq(ObsRow)
         /\ Len([observations[at[w]] EXCEPT ![ob[w].i].ev = ob[w].ev]) = Len(observations[at[w]])
      BY <2>1, <2>2, <2>3
    <2>5. TablesOK' /\ OutsideOK' /\ Paired' /\ ran' \in [1..MaxCycles -> Nat]
      BY <1>13, <2>1, <2>2, <2>3, <2>4 DEF SaveObservationEvidence, outside,
         TablesOK, OutsideOK, Paired
    <2>6. pc' \in [Workers -> Labels]
      BY <1>13 DEF SaveObservationEvidence, Goto, WorkersOK, Labels
    <2>7. WorkersOK'
      BY <1>13, <2>6 DEF SaveObservationEvidence, Goto, locals, WorkersOK
    <2>8. Bound'
      BY <1>13, <2>1, <2>2, <2>3, <2>4 DEF SaveObservationEvidence, Goto,
         locals, Bound, TablesOK, WorkersOK
    <2>9. Carried'
      BY <1>13, <2>1, <2>2, <2>3, <2>4 DEF SaveObservationEvidence, Goto,
         locals, Carried, Bound, TablesOK, WorkersOK, Carrying
    <2>10. QED BY <2>5, <2>7, <2>8, <2>9 DEF Shape, TypeOK
  <1>14. CASE Advance(w)
    <2>1. cycles[at[w]] \in CycleRow
      BY <1>14, CycleTyped DEF Advance, Bound
    <2>2. [cycles[at[w]] EXCEPT !.stage = "ASSESS", !.obs = ob[w].i, !.ev = ob[w].ev] \in CycleRow
      BY <1>14, <2>1 DEF Advance, CycleRow, Stages, WorkersOK, Carrying
    <2>3. TablesOK' /\ OutsideOK' /\ Paired' /\ ran' \in [1..MaxCycles -> Nat]
      BY <1>14 DEF Advance, tables, outside, TablesOK, OutsideOK, Paired
    <2>4. observations' = observations /\ Len(cycles') >= Len(cycles)
      BY <1>14 DEF Advance, tables, TablesOK
    <2>5. CASE Exit(w)
      BY <2>3, <2>4, <2>5, ExitKeepsShape
    <2>6. CASE ~Exit(w)
      <3>1. pc' \in [Workers -> Labels]
        BY <1>14, <2>6 DEF Advance, Goto, WorkersOK, Labels, Returns
      <3>2. crow' \in [Workers -> CycleRow]
        BY <1>14, <2>1, <2>2, <2>6 DEF Advance, Goto, locals, WorkersOK
      <3>3. WorkersOK'
        BY <1>14, <2>6, <3>1, <3>2 DEF Advance, Goto, locals, WorkersOK
      <3>4. Bound'
        BY <1>14, <2>6 DEF Advance, Goto, locals, tables, Bound, TablesOK,
           WorkersOK, Returns
      <3>5. Carried'
        BY <1>14, <2>6 DEF Advance, Goto, locals, tables, Carried, Bound,
           TablesOK, WorkersOK, Carrying, Returns
      <3>6. QED BY <2>3, <3>3, <3>4, <3>5 DEF Shape, TypeOK
    <2>7. QED BY <2>5, <2>6
  <1>15. CASE SaveObserved(w)
    <2>1. [cycles EXCEPT ![at[w]] = crow[w]] \in Seq(CycleRow) /\ Len([cycles EXCEPT ![at[w]] = crow[w]]) = Len(cycles)
      BY <1>15, CycleUpdated DEF SaveObserved, Bound, WorkersOK
    <2>2. TablesOK' /\ OutsideOK' /\ Paired' /\ ran' \in [1..MaxCycles -> Nat]
      BY <1>15, <2>1 DEF SaveObserved, outside, TablesOK, OutsideOK, Paired
    <2>3. pc' \in [Workers -> Labels]
      BY <1>15 DEF SaveObserved, Goto, WorkersOK, Labels, Returns
    <2>4. WorkersOK'
      BY <1>15, <2>3 DEF SaveObserved, Goto, locals, WorkersOK
    <2>5. Bound'
      BY <1>15, <2>1 DEF SaveObserved, Goto, locals, Bound, TablesOK,
         WorkersOK, Returns
    <2>6. Carried'
      BY <1>15, <2>1 DEF SaveObserved, Goto, locals, Carried, Bound, TablesOK,
         WorkersOK, Carrying, Returns
    <2>7. QED BY <2>2, <2>4, <2>5, <2>6 DEF Shape, TypeOK
  <1>16. CASE RunStart(w)
    <2>1. cycles' = cycles /\ (Incomplete => Len(cycles) \in 1..Len(cycles))
      BY <1>16 DEF RunStart, tables, Incomplete, TablesOK
    <2>2. Incomplete => cycles[Len(cycles)] \in CycleRow /\ Len(cycles) \in 0..MaxCycles
      <3>1. CASE Incomplete
        <4>1. Len(cycles) \in 1..Len(cycles) BY <2>1, <3>1
        <4>2. cycles[Len(cycles)] \in CycleRow BY <4>1, CycleTyped
        <4>3. QED BY <4>1, <4>2 DEF TablesOK
      <3>2. QED BY <3>1
    <2>3. TablesOK' /\ OutsideOK' /\ Paired' /\ ran' \in [1..MaxCycles -> Nat]
      BY <1>16 DEF RunStart, tables, outside, TablesOK, OutsideOK, Paired
    <2>4. CASE Exit(w)
      <3>1. observations' = observations /\ Len(cycles') >= Len(cycles)
        BY <1>16 DEF RunStart, tables, TablesOK
      <3>2. QED BY <2>3, <2>4, <3>1, ExitKeepsShape
    <2>5. CASE ~Exit(w)
      <3>1. \E l \in Labels : pc' = [pc EXCEPT ![w] = l]
        BY <1>16, <2>5 DEF RunStart, Goto, Labels
      <3>2. ret' \in [Workers -> Returns]
        BY <1>16, <2>5 DEF RunStart, WorkersOK, Returns
      <3>3. at' \in [Workers -> 0..MaxCycles]
        BY <1>16, <2>2, <2>5 DEF RunStart, WorkersOK
      <3>4. crow' \in [Workers -> CycleRow]
        BY <1>16, <2>2, <2>5 DEF RunStart, WorkersOK
      <3>5. WorkersOK'
        BY <1>16, <2>5, <3>1, <3>2, <3>3, <3>4 DEF RunStart, WorkersOK
      <3>6. Bound'
        <4>1. CASE Incomplete
          BY <1>16, <2>1, <2>5, <4>1 DEF RunStart, Goto, Bound, WorkersOK
        <4>2. CASE ~Incomplete
          BY <1>16, <2>1, <2>5, <4>2 DEF RunStart, Goto, Bound, WorkersOK
        <4>3. QED BY <4>1, <4>2
      <3>7. Carried'
        BY <1>16, <2>5 DEF RunStart, Goto, tables, Carried, WorkersOK
      <3>8. QED BY <2>3, <3>5, <3>6, <3>7 DEF Shape, TypeOK
    <2>6. QED BY <2>4, <2>5
  <1>17. CASE ObserveRun(w)
    <2>1. TablesOK' /\ OutsideOK' /\ Paired' /\ ran' \in [1..MaxCycles -> Nat]
      BY <1>17 DEF ObserveRun, tables, outside, TablesOK, OutsideOK, Paired
    <2>2. observations' = observations /\ Len(cycles') >= Len(cycles)
      BY <1>17 DEF ObserveRun, tables, TablesOK
    <2>3. CASE Exit(w)
      BY <2>1, <2>2, <2>3, ExitKeepsShape
    <2>4. CASE ~Exit(w) /\ observations[at[w]] = <<>>
      <3>1. pc' = [pc EXCEPT ![w] = "capture"] /\ UNCHANGED <<cycles, locals>>
        BY <1>17, <2>4 DEF ObserveRun, Goto, tables
      <3>2. WorkersOK'
        BY <3>1 DEF WorkersOK, locals, Labels
      <3>3. Bound'
        BY <1>17, <3>1 DEF ObserveRun, Bound, WorkersOK, locals
      <3>4. Carried'
        BY <2>2, <3>1 DEF Carried, WorkersOK, locals
      <3>5. QED BY <2>1, <3>2, <3>3, <3>4 DEF Shape, TypeOK
    <2>5. CASE ~Exit(w) /\ observations[at[w]] # <<>>
      <3> DEFINE seen == observations[at[w]]
                 row == [i |-> Len(seen), fps |-> {seen[Len(seen)].fp}, ev |-> 0]
      <3>1. row \in Carrying /\ row.i \in 1..Len(observations[at[w]])
        BY <1>17, <2>5, LastObservationCarried DEF ObserveRun, Bound
      <3>2. /\ pc' = [pc EXCEPT ![w] = "reconcile"]
            /\ ret' = [ret EXCEPT ![w] = "deadline"]
            /\ ob' = [ob EXCEPT ![w] = row]
            /\ UNCHANGED <<cycles, at, crow, mrow, xr>>
        BY <1>17, <2>5 DEF ObserveRun, Goto, tables
      <3> HIDE DEF row
      <3>3. "reconcile" \in Labels /\ "deadline" \in Returns
        BY DEF Labels, Returns
      <3>4. WorkersOK'
        BY <3>1, <3>2, <3>3 DEF WorkersOK
      <3>5. Bound'
        BY <1>17, <3>2 DEF ObserveRun, Bound, WorkersOK
      <3>6. Carried'
        BY <2>2, <3>1, <3>2 DEF Carried, WorkersOK
      <3>7. QED BY <2>1, <3>4, <3>5, <3>6 DEF Shape, TypeOK
    <2>6. QED BY <2>3, <2>4, <2>5
  <1>18. CASE Deadline(w)
    <2>1. cycles[at[w]] \in CycleRow
      BY <1>18, CycleTyped DEF Deadline, Bound
    <2>2. TablesOK' /\ OutsideOK' /\ Paired' /\ ran' \in [1..MaxCycles -> Nat]
      BY <1>18 DEF Deadline, tables, outside, TablesOK, OutsideOK, Paired
    <2>3. pc' \in [Workers -> Labels]
      BY <1>18 DEF Deadline, Goto, WorkersOK, Labels
    <2>4. crow' \in [Workers -> CycleRow]
      BY <1>18, <2>1 DEF Deadline, Goto, WorkersOK
    <2>5. WorkersOK'
      BY <1>18, <2>3, <2>4 DEF Deadline, Goto, WorkersOK
    <2>6. Bound'
      BY <1>18 DEF Deadline, Goto, tables, Bound, TablesOK, WorkersOK
    <2>7. Carried'
      BY <1>18 DEF Deadline, Goto, tables, Carried, Bound, TablesOK,
         WorkersOK, Carrying
    <2>8. QED BY <2>2, <2>5, <2>6, <2>7 DEF Shape, TypeOK
  <1>19. CASE TerminateCheck(w)
    <2>1. cycles[at[w]] \in CycleRow
      BY <1>19, CycleTyped DEF TerminateCheck, Bound
    <2>2. [cycles[at[w]] EXCEPT !.done = TRUE] \in CycleRow
      BY <1>19, <2>1 DEF TerminateCheck, CycleRow
    <2>3. [mission EXCEPT !.status = "EXPIRED"] \in MissionRow
      BY <1>19 DEF TerminateCheck, TablesOK, MissionRow, MissionStatus
    <2>4. TablesOK' /\ OutsideOK' /\ Paired' /\ ran' \in [1..MaxCycles -> Nat]
      BY <1>19 DEF TerminateCheck, tables, outside, TablesOK, OutsideOK,
         Paired
    <2>5. observations' = observations /\ Len(cycles') >= Len(cycles)
      BY <1>19 DEF TerminateCheck, tables, TablesOK
    <2>6. CASE Exit(w)
      BY <2>4, <2>5, <2>6, ExitKeepsShape
    <2>7. CASE ~Exit(w)
      <3>1. pc' \in [Workers -> Labels]
        <4>1. Goto(w, "term_mission")
          BY <1>19, <2>7 DEF TerminateCheck
        <4>2. {"term_mission"} \subseteq Labels
          BY DEF Labels
        <4>3. QED BY <4>1, <4>2, GotoTyped
      <3>2. crow' \in [Workers -> CycleRow]
        <4>1. crow' = [crow EXCEPT ![w] = [cycles[at[w]] EXCEPT !.done = TRUE]]
          BY <1>19, <2>7 DEF TerminateCheck
        <4>2. QED BY <2>2, <4>1, CopyTyped
      <3>3. mrow' \in [Workers -> MissionRow]
        <4>1. mrow' = [mrow EXCEPT ![w] = [mission EXCEPT !.status = "EXPIRED"]]
          BY <1>19, <2>7 DEF TerminateCheck
        <4>2. QED BY <2>3, <4>1, CopyTyped
      <3>4. WorkersOK'
        BY <1>19, <2>7, <3>1, <3>2, <3>3 DEF TerminateCheck, Goto, WorkersOK
      <3>5. Bound'
        BY <1>19, <2>7 DEF TerminateCheck, Goto, tables, Bound, TablesOK,
           WorkersOK
      <3>6. Carried'
        BY <1>19, <2>7 DEF TerminateCheck, Goto, tables, Carried, Bound,
           TablesOK, WorkersOK, Carrying
      <3>7. QED BY <2>4, <3>4, <3>5, <3>6 DEF Shape, TypeOK
    <2>8. QED BY <2>6, <2>7
  <1>20. CASE TerminateMission(w)
    <2>1. TablesOK' /\ OutsideOK' /\ Paired' /\ ran' \in [1..MaxCycles -> Nat]
      BY <1>20 DEF TerminateMission, outside, TablesOK, OutsideOK, Paired,
         WorkersOK
    <2>2. pc' \in [Workers -> Labels]
      BY <1>20 DEF TerminateMission, Goto, WorkersOK, Labels
    <2>3. WorkersOK'
      BY <1>20, <2>2 DEF TerminateMission, Goto, locals, WorkersOK
    <2>4. Bound'
      BY <1>20 DEF TerminateMission, Goto, locals, Bound, TablesOK, WorkersOK
    <2>5. Carried'
      BY <1>20 DEF TerminateMission, Goto, locals, Carried, Bound, TablesOK,
         WorkersOK, Carrying
    <2>6. QED BY <2>1, <2>3, <2>4, <2>5 DEF Shape, TypeOK
  <1>21. CASE TerminateCycle(w)
    <2>1. [cycles EXCEPT ![at[w]] = crow[w]] \in Seq(CycleRow) /\ Len([cycles EXCEPT ![at[w]] = crow[w]]) = Len(cycles)
      BY <1>21, CycleUpdated DEF TerminateCycle, Bound, WorkersOK
    <2>2. TablesOK' /\ OutsideOK' /\ Paired' /\ ran' \in [1..MaxCycles -> Nat]
      BY <1>21, <2>1 DEF TerminateCycle, outside, TablesOK, OutsideOK, Paired
    <2>3. observations' = observations /\ Len(cycles') >= Len(cycles)
      BY <1>21, <2>1 DEF TerminateCycle, TablesOK
    <2>4. CASE Exit(w)
      BY <2>2, <2>3, <2>4, ExitKeepsShape
    <2>5. QED BY <1>21, <2>4 DEF TerminateCycle
  <1>22. CASE PlannerFails(w)
    <2>1. TablesOK' /\ OutsideOK' /\ Paired' /\ ran' \in [1..MaxCycles -> Nat]
      BY <1>22 DEF PlannerFails, Abort, tables, outside, TablesOK, OutsideOK,
         Paired
    <2>2. observations' = observations /\ Len(cycles') >= Len(cycles)
      BY <1>22 DEF PlannerFails, Abort, tables, TablesOK
    <2>3. CASE Exit(w)
      BY <2>1, <2>2, <2>3, ExitKeepsShape
    <2>4. QED BY <1>22, <2>3 DEF PlannerFails, Abort
  <1>23. CASE Assess(w)
    <2>1. cycles[at[w]] \in CycleRow
      BY <1>23, CycleTyped DEF Assess, Plan, Bound
    <2>2. [cycles[at[w]] EXCEPT !.stage = "STRATEGIZE"] \in CycleRow
      BY <1>23, <2>1 DEF Assess, Plan, CycleRow, Stages
    <2>3. TablesOK' /\ OutsideOK' /\ Paired' /\ ran' \in [1..MaxCycles -> Nat]
      BY <1>23 DEF Assess, Plan, tables, outside, TablesOK, OutsideOK, Paired
    <2>4. observations' = observations /\ Len(cycles') >= Len(cycles)
      BY <1>23 DEF Assess, Plan, tables, TablesOK
    <2>5. CASE Exit(w)
      BY <2>3, <2>4, <2>5, ExitKeepsShape
    <2>6. CASE ~Exit(w)
      <3>1. pc' \in [Workers -> Labels]
        <4>1. Goto(w, "save_mission")
          BY <1>23, <2>6 DEF Assess, Plan
        <4>2. {"save_mission"} \subseteq Labels
          BY DEF Labels
        <4>3. QED BY <4>1, <4>2, GotoTyped
      <3>2. crow' \in [Workers -> CycleRow]
        <4>1. crow' = [crow EXCEPT ![w] = [cycles[at[w]] EXCEPT !.stage = "STRATEGIZE"]]
          BY <1>23, <2>6 DEF Assess, Plan
        <4>2. QED BY <2>2, <4>1, CopyTyped
      <3>3. mrow' \in [Workers -> MissionRow]
        <4>1. mrow' = [mrow EXCEPT ![w] = mission]
          BY <1>23, <2>6 DEF Assess, Plan
        <4>2. QED BY <4>1, CopyTyped DEF TablesOK
      <3>4. WorkersOK'
        BY <1>23, <2>6, <3>1, <3>2, <3>3 DEF Assess, Plan, Goto, WorkersOK
      <3>5. Bound'
        BY <1>23, <2>6 DEF Assess, Plan, Goto, tables, Bound, TablesOK,
           WorkersOK
      <3>6. Carried'
        BY <1>23, <2>6 DEF Assess, Plan, Goto, tables, Carried, Bound,
           TablesOK, WorkersOK, Carrying
      <3>7. QED BY <2>3, <3>4, <3>5, <3>6 DEF Shape, TypeOK
    <2>7. QED BY <2>5, <2>6
  <1>24. CASE Strategize(w)
    <2>1. cycles[at[w]] \in CycleRow
      BY <1>24, CycleTyped DEF Strategize, Plan, Bound
    <2>2. [cycles[at[w]] EXCEPT !.stage = "EXECUTE"] \in CycleRow
      BY <1>24, <2>1 DEF Strategize, Plan, CycleRow, Stages
    <2>3. TablesOK' /\ OutsideOK' /\ Paired' /\ ran' \in [1..MaxCycles -> Nat]
      BY <1>24 DEF Strategize, Plan, tables, outside, TablesOK, OutsideOK,
         Paired
    <2>4. observations' = observations /\ Len(cycles') >= Len(cycles)
      BY <1>24 DEF Strategize, Plan, tables, TablesOK
    <2>5. CASE Exit(w)
      BY <2>3, <2>4, <2>5, ExitKeepsShape
    <2>6. CASE ~Exit(w)
      <3>1. pc' \in [Workers -> Labels]
        <4>1. Goto(w, "save_mission")
          BY <1>24, <2>6 DEF Strategize, Plan
        <4>2. {"save_mission"} \subseteq Labels
          BY DEF Labels
        <4>3. QED BY <4>1, <4>2, GotoTyped
      <3>2. crow' \in [Workers -> CycleRow]
        <4>1. crow' = [crow EXCEPT ![w] = [cycles[at[w]] EXCEPT !.stage = "EXECUTE"]]
          BY <1>24, <2>6 DEF Strategize, Plan
        <4>2. QED BY <2>2, <4>1, CopyTyped
      <3>3. mrow' \in [Workers -> MissionRow]
        <4>1. mrow' = [mrow EXCEPT ![w] = mission]
          BY <1>24, <2>6 DEF Strategize, Plan
        <4>2. QED BY <4>1, CopyTyped DEF TablesOK
      <3>4. WorkersOK'
        BY <1>24, <2>6, <3>1, <3>2, <3>3 DEF Strategize, Plan, Goto, WorkersOK
      <3>5. Bound'
        BY <1>24, <2>6 DEF Strategize, Plan, Goto, tables, Bound, TablesOK,
           WorkersOK
      <3>6. Carried'
        BY <1>24, <2>6 DEF Strategize, Plan, Goto, tables, Carried, Bound,
           TablesOK, WorkersOK, Carrying
      <3>7. QED BY <2>3, <3>4, <3>5, <3>6 DEF Shape, TypeOK
    <2>7. QED BY <2>5, <2>6
  <1>25. CASE SaveMission(w)
    <2>1. TablesOK' /\ OutsideOK' /\ Paired' /\ ran' \in [1..MaxCycles -> Nat]
      BY <1>25 DEF SaveMission, outside, TablesOK, OutsideOK, Paired,
         WorkersOK
    <2>2. pc' \in [Workers -> Labels]
      BY <1>25 DEF SaveMission, Goto, WorkersOK, Labels
    <2>3. WorkersOK'
      BY <1>25, <2>2 DEF SaveMission, Goto, locals, WorkersOK
    <2>4. Bound'
      BY <1>25 DEF SaveMission, Goto, locals, Bound, TablesOK, WorkersOK
    <2>5. Carried'
      BY <1>25 DEF SaveMission, Goto, locals, Carried, Bound, TablesOK,
         WorkersOK, Carrying
    <2>6. QED BY <2>1, <2>3, <2>4, <2>5 DEF Shape, TypeOK
  <1>26. CASE SaveStage(w)
    <2>1. [cycles EXCEPT ![at[w]] = crow[w]] \in Seq(CycleRow) /\ Len([cycles EXCEPT ![at[w]] = crow[w]]) = Len(cycles)
      BY <1>26, CycleUpdated DEF SaveStage, Bound, WorkersOK
    <2>2. TablesOK' /\ OutsideOK' /\ Paired' /\ ran' \in [1..MaxCycles -> Nat]
      BY <1>26, <2>1 DEF SaveStage, outside, TablesOK, OutsideOK, Paired
    <2>3. pc' \in [Workers -> Labels]
      BY <1>26 DEF SaveStage, Goto, WorkersOK, Labels
    <2>4. WorkersOK'
      BY <1>26, <2>3 DEF SaveStage, Goto, locals, WorkersOK
    <2>5. Bound'
      BY <1>26, <2>1 DEF SaveStage, Goto, locals, Bound, TablesOK, WorkersOK
    <2>6. Carried'
      BY <1>26, <2>1 DEF SaveStage, Goto, locals, Carried, Bound, TablesOK,
         WorkersOK, Carrying
    <2>7. QED BY <2>2, <2>4, <2>5, <2>6 DEF Shape, TypeOK
  <1>27. CASE ReRead(w)
    <2>1. cycles[at[w]] \in CycleRow
      BY <1>27, CycleTyped DEF ReRead, Bound
    <2>2. TablesOK' /\ OutsideOK' /\ Paired' /\ ran' \in [1..MaxCycles -> Nat]
      BY <1>27 DEF ReRead, tables, outside, TablesOK, OutsideOK, Paired
    <2>3. observations' = observations /\ Len(cycles') >= Len(cycles)
      BY <1>27 DEF ReRead, tables, TablesOK
    <2>4. CASE Exit(w)
      BY <2>2, <2>3, <2>4, ExitKeepsShape
    <2>5. CASE ~Exit(w)
      <3>1. pc' \in [Workers -> Labels]
        <4>1. Goto(w, "step")
          BY <1>27, <2>5 DEF ReRead
        <4>2. {"step"} \subseteq Labels
          BY DEF Labels
        <4>3. QED BY <4>1, <4>2, GotoTyped
      <3>2. crow' \in [Workers -> CycleRow]
        BY <1>27, <2>1, <2>5 DEF ReRead, Goto, WorkersOK
      <3>3. WorkersOK'
        BY <1>27, <2>5, <3>1, <3>2 DEF ReRead, Goto, WorkersOK
      <3>4. Bound'
        BY <1>27, <2>5 DEF ReRead, Goto, tables, Bound, TablesOK, WorkersOK
      <3>5. Carried'
        BY <1>27, <2>5 DEF ReRead, Goto, tables, Carried, Bound, TablesOK,
           WorkersOK, Carrying
      <3>6. QED BY <2>2, <3>3, <3>4, <3>5 DEF Shape, TypeOK
    <2>6. QED BY <2>4, <2>5
  <1>28. CASE LoadExecution(w)
    <2>1. at[w] \in 1..MaxCycles /\ execs[at[w]].status \in ExecStatus
      BY <1>28, ExecTyped DEF LoadExecution, Bound
    <2>2. TablesOK' /\ OutsideOK' /\ Paired' /\ ran' \in [1..MaxCycles -> Nat]
      BY <1>28 DEF LoadExecution, tables, outside, TablesOK, OutsideOK, Paired
    <2>3. observations' = observations /\ Len(cycles') >= Len(cycles)
      BY <1>28 DEF LoadExecution, tables, TablesOK
    <2>4. CASE Exit(w)
      BY <2>2, <2>3, <2>4, ExitKeepsShape
    <2>5. CASE ~Exit(w)
      <3>1. xr' \in [Workers -> ExecStatus]
        BY <1>28, <2>1, <2>5 DEF LoadExecution, WorkersOK
      <3>2. WorkersOK'
        BY <1>28, <2>5, <3>1 DEF LoadExecution, WorkersOK
      <3>3. Bound'
        BY <1>28, <2>5 DEF LoadExecution, tables, Bound, TablesOK, WorkersOK
      <3>4. Carried'
        BY <1>28, <2>5 DEF LoadExecution, tables, Carried, Bound, TablesOK,
           WorkersOK, Carrying
      <3>5. QED BY <2>2, <3>2, <3>3, <3>4 DEF Shape, TypeOK
    <2>6. QED BY <2>4, <2>5
  <1>29. CASE Verify(w)
    <2>1. cycles[at[w]] \in CycleRow
      BY <1>29, CycleTyped DEF Verify, Bound
    <2>2. \A v \in {"yes", "no"} : [cycles[at[w]] EXCEPT !.stage = "MEASURE", !.verified = v] \in CycleRow
      BY <1>29, <2>1 DEF Verify, CycleRow, Stages
    <2>3. TablesOK' /\ OutsideOK' /\ Paired' /\ ran' \in [1..MaxCycles -> Nat]
      BY <1>29 DEF Verify, tables, outside, TablesOK, OutsideOK, Paired
    <2>4. observations' = observations /\ Len(cycles') >= Len(cycles)
      BY <1>29 DEF Verify, tables, TablesOK
    <2>5. CASE Exit(w)
      BY <2>3, <2>4, <2>5, ExitKeepsShape
    <2>6. CASE ~Exit(w)
      <3>1. pc' \in [Workers -> Labels]
        <4>1. Goto(w, "save_stage")
          BY <1>29, <2>6 DEF Verify
        <4>2. {"save_stage"} \subseteq Labels
          BY DEF Labels
        <4>3. QED BY <4>1, <4>2, GotoTyped
      <3>2. crow' \in [Workers -> CycleRow]
        <4>1. PICK v \in {"yes", "no"} : crow' = [crow EXCEPT ![w] =
                 [cycles[at[w]] EXCEPT !.stage = "MEASURE", !.verified = v]]
          BY <1>29, <2>6 DEF Verify
        <4>2. QED BY <2>2, <4>1, CopyTyped
      <3>3. WorkersOK'
        BY <1>29, <2>6, <3>1, <3>2 DEF Verify, Goto, WorkersOK
      <3>4. Bound'
        BY <1>29, <2>6 DEF Verify, Goto, tables, Bound, TablesOK, WorkersOK
      <3>5. Carried'
        BY <1>29, <2>6 DEF Verify, Goto, tables, Carried, Bound, TablesOK,
           WorkersOK, Carrying
      <3>6. QED BY <2>3, <3>3, <3>4, <3>5 DEF Shape, TypeOK
    <2>7. QED BY <2>5, <2>6
  <1>30. CASE Measure(w)
    <2>1. cycles[at[w]] \in CycleRow
      BY <1>30, CycleTyped DEF Measure, Bound
    <2>2. [cycles[at[w]] EXCEPT !.stage = "ADAPT"] \in CycleRow
      BY <1>30, <2>1 DEF Measure, CycleRow, Stages
    <2>3. TablesOK' /\ OutsideOK' /\ Paired' /\ ran' \in [1..MaxCycles -> Nat]
      BY <1>30 DEF Measure, tables, outside, TablesOK, OutsideOK, Paired
    <2>4. observations' = observations /\ Len(cycles') >= Len(cycles)
      BY <1>30 DEF Measure, tables, TablesOK
    <2>5. CASE Exit(w)
      BY <2>3, <2>4, <2>5, ExitKeepsShape
    <2>6. CASE ~Exit(w)
      <3>1. pc' \in [Workers -> Labels]
        <4>1. Goto(w, "save_stage")
          BY <1>30, <2>6 DEF Measure
        <4>2. {"save_stage"} \subseteq Labels
          BY DEF Labels
        <4>3. QED BY <4>1, <4>2, GotoTyped
      <3>2. crow' \in [Workers -> CycleRow]
        BY <1>30, <2>1, <2>2, <2>6 DEF Measure, Goto, WorkersOK
      <3>3. WorkersOK'
        BY <1>30, <2>6, <3>1, <3>2 DEF Measure, Goto, WorkersOK
      <3>4. Bound'
        BY <1>30, <2>6 DEF Measure, Goto, tables, Bound, TablesOK, WorkersOK
      <3>5. Carried'
        BY <1>30, <2>6 DEF Measure, Goto, tables, Carried, Bound, TablesOK,
           WorkersOK, Carrying
      <3>6. QED BY <2>3, <3>3, <3>4, <3>5 DEF Shape, TypeOK
    <2>7. QED BY <2>5, <2>6
  <1>31. CASE MeasurementEvent(w)
    <2>1. at[w] \in 1..MaxCycles
      BY <1>31, ExecTyped DEF MeasurementEvent, Bound
    <2>2. TablesOK' /\ OutsideOK' /\ Paired' /\ ran' \in [1..MaxCycles -> Nat]
      BY <1>31, <2>1 DEF MeasurementEvent, outside, TablesOK, OutsideOK,
         Paired
    <2>3. pc' \in [Workers -> Labels]
      BY <1>31 DEF MeasurementEvent, Goto, WorkersOK, Labels
    <2>4. WorkersOK'
      BY <1>31, <2>3 DEF MeasurementEvent, Goto, locals, WorkersOK
    <2>5. Bound'
      BY <1>31, <2>1 DEF MeasurementEvent, Goto, locals, Bound, TablesOK,
         WorkersOK
    <2>6. Carried'
      BY <1>31, <2>1 DEF MeasurementEvent, Goto, locals, Carried, Bound,
         TablesOK, WorkersOK, Carrying
    <2>7. QED BY <2>2, <2>4, <2>5, <2>6 DEF Shape, TypeOK
  <1>32. CASE LoadMeasurement(w)
    <2>1. TablesOK' /\ OutsideOK' /\ Paired' /\ ran' \in [1..MaxCycles -> Nat]
      BY <1>32 DEF LoadMeasurement, tables, outside, TablesOK, OutsideOK,
         Paired
    <2>2. observations' = observations /\ Len(cycles') >= Len(cycles)
      BY <1>32 DEF LoadMeasurement, tables, TablesOK
    <2>3. CASE Exit(w)
      BY <2>1, <2>2, <2>3, ExitKeepsShape
    <2>4. CASE ~Exit(w)
      <3>1. pc' \in [Workers -> Labels]
        BY <1>32, <2>4 DEF LoadMeasurement, Goto, WorkersOK, Labels
      <3>2. WorkersOK'
        BY <1>32, <2>4, <3>1 DEF LoadMeasurement, Goto, locals, WorkersOK
      <3>3. Bound'
        BY <1>32, <2>4 DEF LoadMeasurement, Goto, locals, tables, Bound,
           TablesOK, WorkersOK
      <3>4. Carried'
        BY <1>32, <2>4 DEF LoadMeasurement, Goto, locals, tables, Carried,
           Bound, TablesOK, WorkersOK, Carrying
      <3>5. QED BY <2>1, <3>2, <3>3, <3>4 DEF Shape, TypeOK
    <2>5. QED BY <2>3, <2>4
  <1>33. CASE Adapt(w)
    <2>1. cycles[at[w]] \in CycleRow
      BY <1>33, CycleTyped DEF Adapt, Bound
    <2>2. TablesOK' /\ OutsideOK' /\ Paired' /\ ran' \in [1..MaxCycles -> Nat]
      BY <1>33 DEF Adapt, tables, outside, TablesOK, OutsideOK, Paired
    <2>3. observations' = observations /\ Len(cycles') >= Len(cycles)
      BY <1>33 DEF Adapt, tables, TablesOK
    <2>4. CASE Exit(w)
      BY <2>2, <2>3, <2>4, ExitKeepsShape
    <2>5. CASE ~Exit(w)
      <3>1. pc' \in [Workers -> Labels]
        BY <1>33, <2>5 DEF Adapt, Goto, WorkersOK, Labels
      <3>2. ret' \in [Workers -> Returns]
        BY <1>33, <2>5 DEF Adapt, WorkersOK, Returns
      <3>3. crow' \in [Workers -> CycleRow]
        <4>1. [cycles[at[w]] EXCEPT !.done = TRUE] \in CycleRow
          BY <2>1 DEF CycleRow
        <4>2. crow' = [crow EXCEPT ![w] = [cycles[at[w]] EXCEPT !.done = TRUE]]
          BY <1>33, <2>5 DEF Adapt
        <4>3. QED BY <4>1, <4>2 DEF WorkersOK
      <3>4. mrow' \in [Workers -> MissionRow]
        <4>1. PICK verdict \in Terminals \cup {"none"} :
                 mrow' = [mrow EXCEPT ![w] = [mission EXCEPT
                             !.status = IF verdict = "none" THEN @ ELSE verdict]]
          BY <1>33, <2>5 DEF Adapt
        <4>2. [mission EXCEPT !.status = IF verdict = "none" THEN @ ELSE verdict]
                 \in MissionRow
          BY CycleAssumption DEF TablesOK, MissionRow, MissionStatus
        <4>3. QED BY <4>1, <4>2 DEF WorkersOK
      <3>5. WorkersOK'
        BY <1>33, <2>5, <3>1, <3>2, <3>3, <3>4 DEF Adapt, WorkersOK
      <3>6. Bound'
        BY <1>33, <2>5 DEF Adapt, Goto, tables, Bound, WorkersOK
      <3>7. Carried'
        BY <1>33, <2>5 DEF Adapt, Goto, tables, Carried, WorkersOK
      <3>8. QED BY <2>2, <3>5, <3>6, <3>7 DEF Shape, TypeOK
    <2>6. QED BY <2>4, <2>5
  <1>34. CASE AdaptMission(w)
    <2>1. TablesOK' /\ OutsideOK' /\ Paired' /\ ran' \in [1..MaxCycles -> Nat]
      BY <1>34 DEF AdaptMission, outside, TablesOK, OutsideOK, Paired,
         WorkersOK
    <2>2. pc' \in [Workers -> Labels]
      BY <1>34 DEF AdaptMission, Goto, WorkersOK, Labels
    <2>3. WorkersOK'
      BY <1>34, <2>2 DEF AdaptMission, Goto, locals, WorkersOK
    <2>4. Bound'
      BY <1>34 DEF AdaptMission, Goto, locals, Bound, TablesOK, WorkersOK
    <2>5. Carried'
      BY <1>34 DEF AdaptMission, Goto, locals, Carried, Bound, TablesOK,
         WorkersOK, Carrying
    <2>6. QED BY <2>1, <2>3, <2>4, <2>5 DEF Shape, TypeOK
  <1>35. CASE AdaptCycle(w)
    <2>1. [cycles EXCEPT ![at[w]] = crow[w]] \in Seq(CycleRow) /\ Len([cycles EXCEPT ![at[w]] = crow[w]]) = Len(cycles)
      BY <1>35, CycleUpdated DEF AdaptCycle, Bound, WorkersOK
    <2>2. TablesOK' /\ OutsideOK' /\ Paired' /\ ran' \in [1..MaxCycles -> Nat]
      BY <1>35, <2>1 DEF AdaptCycle, outside, TablesOK, OutsideOK, Paired
    <2>3. observations' = observations /\ Len(cycles') >= Len(cycles)
      BY <1>35, <2>1 DEF AdaptCycle, TablesOK
    <2>4. CASE Exit(w)
      BY <2>2, <2>3, <2>4, ExitKeepsShape
    <2>5. CASE ~Exit(w)
      <3>1. pc' \in [Workers -> Labels]
        <4>1. Goto(w, "create")
          BY <1>35, <2>5 DEF AdaptCycle
        <4>2. {"create"} \subseteq Labels
          BY DEF Labels
        <4>3. QED BY <4>1, <4>2, GotoTyped
      <3>2. ret' \in [Workers -> Returns]
        <4>1. ret' = [ret EXCEPT ![w] = "idle"]
          BY <1>35, <2>5 DEF AdaptCycle
        <4>2. "idle" \in Returns BY DEF Returns
        <4>3. QED BY <4>1, <4>2 DEF WorkersOK
      <3>3. WorkersOK'
        BY <1>35, <2>5, <3>1, <3>2 DEF AdaptCycle, Goto, WorkersOK
      <3>4. Bound'
        BY <1>35, <2>1, <2>5 DEF AdaptCycle, Goto, Bound, TablesOK, WorkersOK,
           Returns
      <3>5. Carried'
        BY <1>35, <2>1, <2>5 DEF AdaptCycle, Goto, Carried, Bound, TablesOK,
           WorkersOK, Carrying, Returns
      <3>6. QED BY <2>2, <3>3, <3>4, <3>5 DEF Shape, TypeOK
    <2>6. QED BY <2>4, <2>5
  <1>36. CASE ReconcileExecution(w)
    <2>1. cycles[at[w]] \in CycleRow
      BY <1>36, CycleTyped DEF ReconcileExecution, Bound
    <2>2. at[w] \in 1..MaxCycles /\ execs[at[w]].status \in ExecStatus
      BY <1>36, ExecTyped DEF ReconcileExecution, Bound
    <2>3. RecordRow(at[w], execs[at[w]].status) \in CycleRow
      BY <1>36, <2>1 DEF ReconcileExecution, RecordRow, CycleRow, Stages
    <2>4. TablesOK' /\ OutsideOK' /\ Paired' /\ ran' \in [1..MaxCycles -> Nat]
      BY <1>36 DEF ReconcileExecution, tables, outside, TablesOK, OutsideOK,
         Paired
    <2>5. pc' \in [Workers -> Labels]
      <3>1. Goto(w, "save_stage") \/ Goto(w, "reread")
        BY <1>36 DEF ReconcileExecution
      <3>2. {"save_stage", "reread"} \subseteq Labels
        BY DEF Labels
      <3>3. QED BY <3>1, <3>2, GotoTyped
    <2>6. crow' \in [Workers -> CycleRow]
      <3>1. \/ crow' = crow
            \/ crow' = [crow EXCEPT ![w] = RecordRow(at[w], execs[at[w]].status)]
        BY <1>36 DEF ReconcileExecution
      <3>2. CASE crow' = crow BY <3>2 DEF WorkersOK
      <3>3. QED BY <2>3, <3>1, <3>2, CopyTyped
    <2>7. xr' \in [Workers -> ExecStatus]
      BY <1>36, <2>1, <2>2, <2>3 DEF ReconcileExecution, Goto, WorkersOK
    <2>8. WorkersOK'
      BY <1>36, <2>5, <2>6, <2>7 DEF ReconcileExecution, Goto, WorkersOK
    <2>9. Bound'
      BY <1>36 DEF ReconcileExecution, Goto, tables, Bound, TablesOK,
         WorkersOK
    <2>10. Carried'
      BY <1>36 DEF ReconcileExecution, Goto, tables, Carried, Bound, TablesOK,
         WorkersOK, Carrying
    <2>11. QED BY <2>4, <2>8, <2>9, <2>10 DEF Shape, TypeOK
  <1>37. CASE FindRunning(w)
    <2>1. TablesOK' /\ OutsideOK' /\ Paired' /\ ran' \in [1..MaxCycles -> Nat]
      BY <1>37 DEF FindRunning, tables, outside, TablesOK, OutsideOK, Paired
    <2>2. observations' = observations /\ Len(cycles') >= Len(cycles)
      BY <1>37 DEF FindRunning, tables, TablesOK
    <2>3. CASE Exit(w)
      BY <2>1, <2>2, <2>3, ExitKeepsShape
    <2>4. CASE ~Exit(w)
      <3>1. pc' \in [Workers -> Labels]
        <4>1. Goto(w, "interrupt")
          BY <1>37, <2>4 DEF FindRunning
        <4>2. {"interrupt"} \subseteq Labels
          BY DEF Labels
        <4>3. QED BY <4>1, <4>2, GotoTyped
      <3>2. WorkersOK'
        BY <1>37, <2>4, <3>1 DEF FindRunning, Goto, locals, WorkersOK
      <3>3. Bound'
        BY <1>37, <2>4 DEF FindRunning, Goto, locals, tables, Bound, TablesOK,
           WorkersOK
      <3>4. Carried'
        BY <1>37, <2>4 DEF FindRunning, Goto, locals, tables, Carried, Bound,
           TablesOK, WorkersOK, Carrying
      <3>5. QED BY <2>1, <3>2, <3>3, <3>4 DEF Shape, TypeOK
    <2>5. QED BY <2>3, <2>4
  <1>38. CASE Interrupt(w)
    <2>1. Exec("FAILED") \in ExecRow
      BY <1>38 DEF Interrupt, Exec, ExecRow, ExecStatus
    <2>2. TablesOK' /\ OutsideOK' /\ Paired' /\ ran' \in [1..MaxCycles -> Nat]
      BY <1>38, <2>1 DEF Interrupt, outside, TablesOK, OutsideOK, Paired
    <2>3. pc' \in [Workers -> Labels]
      BY <1>38 DEF Interrupt, Goto, WorkersOK, Labels
    <2>4. xr' \in [Workers -> ExecStatus]
      BY <1>38, <2>1 DEF Interrupt, Goto, WorkersOK, ExecStatus
    <2>5. WorkersOK'
      BY <1>38, <2>3, <2>4 DEF Interrupt, Goto, WorkersOK
    <2>6. Bound'
      BY <1>38, <2>1 DEF Interrupt, Goto, Bound, TablesOK, WorkersOK
    <2>7. Carried'
      BY <1>38, <2>1 DEF Interrupt, Goto, Carried, Bound, TablesOK, WorkersOK,
         Carrying
    <2>8. QED BY <2>2, <2>5, <2>6, <2>7 DEF Shape, TypeOK
  <1>39. CASE SelectExecutor(w)
    <2>1. TablesOK' /\ OutsideOK' /\ Paired' /\ ran' \in [1..MaxCycles -> Nat]
      BY <1>39 DEF SelectExecutor, tables, outside, TablesOK, OutsideOK,
         Paired
    <2>2. observations' = observations /\ Len(cycles') >= Len(cycles)
      BY <1>39 DEF SelectExecutor, tables, TablesOK
    <2>3. CASE Exit(w)
      BY <2>1, <2>2, <2>3, ExitKeepsShape
    <2>4. CASE ~Exit(w)
      <3>1. pc' \in [Workers -> Labels]
        <4>1. Goto(w, "claim")
          BY <1>39, <2>4 DEF SelectExecutor
        <4>2. {"claim"} \subseteq Labels
          BY DEF Labels
        <4>3. QED BY <4>1, <4>2, GotoTyped
      <3>2. WorkersOK'
        BY <1>39, <2>4, <3>1 DEF SelectExecutor, Goto, locals, WorkersOK
      <3>3. Bound'
        BY <1>39, <2>4 DEF SelectExecutor, Goto, locals, tables, Bound,
           TablesOK, WorkersOK
      <3>4. Carried'
        BY <1>39, <2>4 DEF SelectExecutor, Goto, locals, tables, Carried,
           Bound, TablesOK, WorkersOK, Carrying
      <3>5. QED BY <2>1, <3>2, <3>3, <3>4 DEF Shape, TypeOK
    <2>5. QED BY <2>3, <2>4
  <1>40. CASE Claim(w)
    <2>1. [status |-> "RUNNING", owner |-> w] \in ExecRow
      BY <1>40 DEF Claim, ExecRow, ExecStatus
    <2>2. TablesOK' /\ OutsideOK' /\ Paired' /\ ran' \in [1..MaxCycles -> Nat]
      <3>1. execs' \in [1..MaxCycles -> ExecRow]
        <4>1. \/ execs' = execs
              \/ execs' = [execs EXCEPT ![at[w]] = [status |-> "RUNNING", owner |-> w]]
          BY <1>40 DEF Claim
        <4>2. QED BY <2>1, <4>1 DEF TablesOK
      <3>2. /\ OutsideOK' /\ ran' \in [1..MaxCycles -> Nat]
            /\ UNCHANGED <<mission, cycles, observations, evidence, measured, fingerprints>>
        BY <1>40 DEF Claim, outside, OutsideOK
      <3>3. QED BY <3>1, <3>2 DEF TablesOK, Paired
    <2>3. observations' = observations /\ Len(cycles') >= Len(cycles)
      BY <1>40, <2>1 DEF Claim, TablesOK
    <2>4. CASE Exit(w)
      BY <2>2, <2>3, <2>4, ExitKeepsShape
    <2>5. CASE ~Exit(w)
      <3>1. pc' \in [Workers -> Labels]
        <4>1. Goto(w, "invoke")
          BY <1>40, <2>5 DEF Claim
        <4>2. {"invoke"} \subseteq Labels
          BY DEF Labels
        <4>3. QED BY <4>1, <4>2, GotoTyped
      <3>2. WorkersOK'
        BY <1>40, <2>5, <3>1 DEF Claim, Goto, locals, WorkersOK
      <3>3. Bound'
        BY <1>40, <2>1, <2>5 DEF Claim, Goto, locals, Bound, TablesOK,
           WorkersOK
      <3>4. Carried'
        BY <1>40, <2>1, <2>5 DEF Claim, Goto, locals, Carried, Bound,
           TablesOK, WorkersOK, Carrying
      <3>5. QED BY <2>2, <3>2, <3>3, <3>4 DEF Shape, TypeOK
    <2>6. QED BY <2>4, <2>5
  <1>41. CASE Invoke(w)
    <2>1. at[w] \in 1..MaxCycles /\ ran' = [ran EXCEPT ![at[w]] = ran[at[w]] + 1]
      <3>1. at[w] \in 1..MaxCycles
        BY <1>41, ExecTyped DEF Invoke, Bound
      <3>2. QED BY <1>41, <3>1 DEF Invoke
    <2>2. TablesOK' /\ OutsideOK' /\ Paired' /\ ran' \in [1..MaxCycles -> Nat]
      <3>1. ran[at[w]] + 1 \in Nat
        BY <2>1
      <3>2. ran' \in [1..MaxCycles -> Nat]
        BY <2>1, <3>1
      <3>3. QED
        BY <1>41, <3>2 DEF Invoke, tables, outside, TablesOK, OutsideOK, Paired
    <2>3. pc' \in [Workers -> Labels]
      BY <1>41 DEF Invoke, Goto, WorkersOK, Labels
    <2>4. xr' \in [Workers -> ExecStatus]
      BY <1>41 DEF Invoke, WorkersOK, ExecStatus
    <2>5. WorkersOK'
      BY <1>41, <2>3, <2>4 DEF Invoke, WorkersOK
    <2>6. Bound'
      BY <1>41 DEF Invoke, Goto, tables, Bound, WorkersOK
    <2>7. Carried'
      BY <1>41 DEF Invoke, Goto, tables, Carried, WorkersOK
    <2>8. QED BY <2>2, <2>5, <2>6, <2>7 DEF Shape, TypeOK
  <1>42. CASE FinishExecution(w)
    <2>1. Exec(xr[w]) \in ExecRow
      BY <1>42 DEF FinishExecution, Exec, ExecRow, ExecStatus, WorkersOK
    <2>2. TablesOK' /\ OutsideOK' /\ Paired' /\ ran' \in [1..MaxCycles -> Nat]
      BY <1>42, <2>1 DEF FinishExecution, outside, TablesOK, OutsideOK, Paired
    <2>3. pc' \in [Workers -> Labels]
      BY <1>42 DEF FinishExecution, Goto, WorkersOK, Labels
    <2>4. WorkersOK'
      BY <1>42, <2>3 DEF FinishExecution, Goto, locals, WorkersOK
    <2>5. Bound'
      BY <1>42, <2>1 DEF FinishExecution, Goto, locals, Bound, TablesOK,
         WorkersOK
    <2>6. Carried'
      BY <1>42, <2>1 DEF FinishExecution, Goto, locals, Carried, Bound,
         TablesOK, WorkersOK, Carrying
    <2>7. QED BY <2>2, <2>4, <2>5, <2>6 DEF Shape, TypeOK
  <1>43. CASE RecordExecution(w)
    <2>1. cycles[at[w]] \in CycleRow
      BY <1>43, CycleTyped DEF RecordExecution, Bound
    <2>2. RecordRow(at[w], xr[w]) \in CycleRow
      BY <1>43, <2>1 DEF RecordExecution, RecordRow, CycleRow, Stages
    <2>3. TablesOK' /\ OutsideOK' /\ Paired' /\ ran' \in [1..MaxCycles -> Nat]
      BY <1>43 DEF RecordExecution, tables, outside, TablesOK, OutsideOK,
         Paired
    <2>4. observations' = observations /\ Len(cycles') >= Len(cycles)
      BY <1>43 DEF RecordExecution, tables, TablesOK
    <2>5. CASE Exit(w)
      BY <2>3, <2>4, <2>5, ExitKeepsShape
    <2>6. CASE ~Exit(w)
      <3>1. pc' \in [Workers -> Labels]
        <4>1. Goto(w, "save_stage")
          BY <1>43, <2>6 DEF RecordExecution
        <4>2. {"save_stage"} \subseteq Labels
          BY DEF Labels
        <4>3. QED BY <4>1, <4>2, GotoTyped
      <3>2. crow' \in [Workers -> CycleRow]
        <4>1. crow' = [crow EXCEPT ![w] = RecordRow(at[w], xr[w])]
          BY <1>43, <2>6 DEF RecordExecution
        <4>2. QED BY <2>2, <4>1, CopyTyped
      <3>3. WorkersOK'
        BY <1>43, <2>6, <3>1, <3>2 DEF RecordExecution, Goto, WorkersOK
      <3>4. Bound'
        BY <1>43, <2>6 DEF RecordExecution, Goto, tables, Bound, TablesOK,
           WorkersOK
      <3>5. Carried'
        BY <1>43, <2>6 DEF RecordExecution, Goto, tables, Carried, Bound,
           TablesOK, WorkersOK, Carrying
      <3>6. QED BY <2>3, <3>3, <3>4, <3>5 DEF Shape, TypeOK
    <2>7. QED BY <2>5, <2>6
  <1>44. CASE Crash(w)
    <2>1. \A c \in 1..MaxCycles : [execs[c] EXCEPT !.owner = Nobody] \in ExecRow
      <3>1. \A c \in 1..MaxCycles : execs[c] \in ExecRow BY DEF TablesOK
      <3>2. QED BY <3>1 DEF ExecRow
    <2>2. TablesOK' /\ OutsideOK' /\ Paired' /\ ran' \in [1..MaxCycles -> Nat]
      BY <1>44, <2>1 DEF Crash, outside, TablesOK, OutsideOK, Paired
    <2>3. observations' = observations /\ Len(cycles') >= Len(cycles)
      BY <1>44, <2>1 DEF Crash, TablesOK
    <2>4. CASE Exit(w)
      BY <2>2, <2>3, <2>4, ExitKeepsShape
    <2>5. QED BY <1>44, <2>4 DEF Crash
  <1>q. QED BY <1>1, <1>2, <1>3, <1>4, <1>5, <1>6, <1>7, <1>8, <1>9, <1>10,
     <1>11, <1>12, <1>13, <1>14, <1>15, <1>16, <1>17, <1>18, <1>19, <1>20,
     <1>21, <1>22, <1>23, <1>24, <1>25, <1>26, <1>27, <1>28, <1>29, <1>30,
     <1>31, <1>32, <1>33, <1>34, <1>35, <1>36, <1>37, <1>38, <1>39, <1>40,
     <1>41, <1>42, <1>43, <1>44 DEF WorkerStep, GateStep, ObserverStep, RunnerStep, DispatcherStep

\* The initial state is in shape.
LEMMA InitShape == Init => Shape
  <1> SUFFICES ASSUME Init PROVE Shape
    OBVIOUS
  <1> USE CycleAssumption
  <1>1. TablesOK
    BY DEF Init, TablesOK, MissionRow, MissionStatus, Exec, ExecRow, ExecStatus
  <1>2. OutsideOK
    BY DEF Init, OutsideOK, MissionRow, MissionStatus
  <1>3. WorkersOK
    BY DEF Init, WorkersOK, Labels, Returns, NewCycle, CycleRow, Stages,
       MissionRow, MissionStatus, NoObs, Carrying, ExecStatus
  <1>4. Bound /\ Carried /\ Paired /\ ran \in [1..MaxCycles -> Nat]
    BY DEF Init, Bound, Carried, Paired
  <1>5. QED BY <1>1, <1>2, <1>3, <1>4 DEF Shape, TypeOK

\* Lifecycle commands and the environment leave the workers and every table but
\* the mission row alone.
LEMMA OthersKeepShape ==
  ASSUME Shape, UserStep \/ WorldChanges \/ DeadlinePasses
  PROVE  Shape'
  <1>0. mission \in MissionRow /\ user.row \in MissionRow
    BY DEF Shape, TypeOK, TablesOK, OutsideOK
  <1>1. UNCHANGED <<cycles, observations, evidence, execs, measured,
                    fingerprints, pc, locals, ran>>
    BY DEF UserStep, UserRead, UserSave, UserReadBack, UserStop, WorldChanges,
       DeadlinePasses, tables
  <1>2. mission' \in MissionRow
    <2>1. CASE UserSave
      <3>1. \A s \in {"PAUSED", "LIVE", "CANCELLED"} :
               [user.row EXCEPT !.state = s] \in MissionRow
        BY <1>0 DEF MissionRow
      <3>2. QED BY <2>1, <3>1 DEF UserSave
    <2>2. CASE UserStop
      BY <1>0, <2>2 DEF UserStop, MissionRow, MissionStatus
    <2>3. QED
      BY <1>0, <2>1, <2>2 DEF UserStep, UserRead, UserReadBack, WorldChanges,
         DeadlinePasses, tables
  <1>3. OutsideOK'
    <2>1. CASE \E op \in UserOps : UserRead(op)
      BY <1>0, <2>1, CycleAssumption DEF UserRead, Shape, TypeOK, OutsideOK
    <2>2. CASE UserSave
      BY <1>0, <2>2 DEF UserSave, Shape, TypeOK, OutsideOK
    <2>3. CASE UserReadBack
      BY <1>0, <2>3 DEF UserReadBack, Shape, TypeOK, OutsideOK
    <2>4. CASE UserStop
      BY <1>0, <2>4 DEF UserStop, Shape, TypeOK, OutsideOK
    <2>5. CASE WorldChanges \/ DeadlinePasses
      BY <2>5 DEF WorldChanges, DeadlinePasses, Shape, TypeOK, OutsideOK
    <2>6. QED BY <2>1, <2>2, <2>3, <2>4, <2>5 DEF UserStep
  <1>4. TablesOK' /\ WorkersOK' /\ ran' \in [1..MaxCycles -> Nat]
    BY <1>1, <1>2 DEF Shape, TypeOK, TablesOK, WorkersOK, locals
  <1>5. Bound' /\ Carried' /\ Paired'
    BY <1>1 DEF Shape, Bound, Carried, Paired, locals
  <1>6. QED BY <1>3, <1>4, <1>5 DEF Shape, TypeOK

\* Every step keeps the shape.
LEMMA NextKeepsShape == Shape /\ [Next]_vars => Shape'
  <1> SUFFICES ASSUME Shape, [Next]_vars PROVE Shape'
    OBVIOUS
  <1>1. CASE \E w \in Workers : WorkerStep(w) \/ PlannerFails(w) \/ Crash(w)
    BY <1>1, WorkerKeepsShape
  <1>2. CASE UserStep \/ WorldChanges \/ DeadlinePasses
    BY <1>2, OthersKeepShape
  <1>3. CASE UNCHANGED vars
    BY <1>3 DEF vars, tables, outside, locals, Shape, TypeOK, TablesOK,
       OutsideOK, WorkersOK, Bound, Carried, Paired
  <1>4. QED BY <1>1, <1>2, <1>3 DEF Next

\* Type correctness of the loop: every row saved whole from a worker's copy is a
\* row, every number a worker carries names a cycle and an observation that
\* exist, at any number of workers, crashes and lost leases.
THEOREM TypeCorrect == Spec => []TypeOK
  <1>1. Shape => TypeOK
    BY DEF Shape
  <1>2. QED BY <1>1, InitShape, NextKeepsShape, PTL DEF Spec


(***************************************************************************)
(* One invocation per cycle                                                *)
(***************************************************************************)

\* A step that neither claims nor runs keeps the claims, as long as it frees no
\* execution slot and brings nobody to the point of invoking an executor.
LEMMA QuietStepKeepsClaims ==
  ASSUME IInv, NEW w \in Workers, ran' = ran,
         \A c \in 1..MaxCycles :
             execs'[c].status = "NONE" => execs[c].status = "NONE",
         NEW l, l \notin {"invoke", "finish"}, pc' = [pc EXCEPT ![w] = l],
         \A v \in Workers \ {w} : at'[v] = at[v] /\ xr'[v] = xr[v]
  PROVE  Claimed' /\ ExecutedAtMostOnce'
  <1>1. \A v \in Workers :
           pc'[v] \in {"invoke", "finish"} => v # w /\ pc'[v] = pc[v]
    BY DEF IInv, Shape, TypeOK, WorkersOK
  <1>2. \A v \in Workers : pc[v] = "invoke" => at[v] \in 1..MaxCycles
    BY ExecTyped DEF IInv, Shape, TypeOK, Bound
  <1>3. QED BY <1>1, <1>2 DEF IInv, Claimed, ExecutedAtMostOnce

\* Every step of a worker but the four that write its execution row.
LEMMA WorkerStepIsQuiet ==
  ASSUME Shape, NEW w \in Workers, WorkerStep(w) \/ PlannerFails(w),
         ~Claim(w), ~Invoke(w), ~FinishExecution(w), ~Interrupt(w)
  PROVE  /\ execs' = execs /\ ran' = ran
         /\ \E l : l \notin {"invoke", "finish"} /\ pc' = [pc EXCEPT ![w] = l]
         /\ \A v \in Workers \ {w} : at'[v] = at[v] /\ xr'[v] = xr[v]
  <1> DEFINE Quiet ==
         /\ execs' = execs /\ ran' = ran
         /\ \E l : l \notin {"invoke", "finish"} /\ pc' = [pc EXCEPT ![w] = l]
         /\ \A v \in Workers \ {w} : at'[v] = at[v] /\ xr'[v] = xr[v]
  <1> USE DEF Shape, TypeOK, WorkersOK
  <1>1. CASE Start(w)
    BY <1>1 DEF Start, Goto, tables, locals
  <1>2. CASE Gate(w)
    BY <1>2 DEF Gate, Exit, Goto, tables, Forget
  <1>3. CASE CreateCheck(w)
    BY <1>3 DEF CreateCheck, Goto, Exit, tables, Forget
  <1>4. CASE InsertCycle(w)
    <2>1. ret[w] \notin {"invoke", "finish"}
      BY DEF Returns
    <2>2. \/ Exit(w)
          \/ Goto(w, ret[w]) /\ UNCHANGED <<at, xr>>
      BY <1>4 DEF InsertCycle
    <2>3. execs' = execs /\ ran' = ran
      BY <1>4 DEF InsertCycle
    <2>4. QED BY <2>1, <2>2, <2>3 DEF Exit, Goto, Forget
  <1>5. CASE Look(w)
    BY <1>5 DEF Look, Goto, locals, Exit, tables, Forget
  <1>6. CASE Collect(w)
    BY <1>6 DEF Collect, Exit, Goto, tables, Forget
  <1>7. CASE Reserve(w)
    BY <1>7 DEF Reserve, Goto, locals
  <1>8. CASE Capture(w)
    BY <1>8 DEF Capture, Exit, Goto, tables, Forget
  <1>9. CASE RecordCheck(w)
    BY <1>9 DEF RecordCheck, Goto, locals, Exit, tables, Forget
  <1>10. CASE SaveObservation(w)
    BY <1>10 DEF SaveObservation, Goto
  <1>11. CASE Reconcile(w)
    BY <1>11 DEF Reconcile, Goto, tables
  <1>12. CASE SaveEvidence(w)
    BY <1>12 DEF SaveEvidence, Goto
  <1>13. CASE SaveObservationEvidence(w)
    BY <1>13 DEF SaveObservationEvidence, Goto, locals
  <1>14. CASE Advance(w)
    BY <1>14 DEF Advance, Goto, locals, Exit, tables, Forget, Returns
  <1>15. CASE SaveObserved(w)
    BY <1>15 DEF SaveObserved, Goto, locals, Returns
  <1>16. CASE RunStart(w)
    BY <1>16 DEF RunStart, Exit, Goto, tables, Forget
  <1>17. CASE ObserveRun(w)
    BY <1>17 DEF ObserveRun, Goto, locals, Exit, tables, Forget
  <1>18. CASE Deadline(w)
    BY <1>18 DEF Deadline, Goto, tables
  <1>19. CASE TerminateCheck(w)
    BY <1>19 DEF TerminateCheck, Exit, Goto, tables, Forget
  <1>20. CASE TerminateMission(w)
    BY <1>20 DEF TerminateMission, Goto, locals
  <1>21. CASE TerminateCycle(w)
    BY <1>21 DEF TerminateCycle, Exit, Goto, Forget
  <1>22. CASE PlannerFails(w)
    BY <1>22 DEF PlannerFails, Abort, Exit, tables, Goto, Forget
  <1>23. CASE Assess(w)
    BY <1>23 DEF Assess, Plan, Exit, Goto, tables, Forget
  <1>24. CASE Strategize(w)
    BY <1>24 DEF Strategize, Plan, Exit, Goto, tables, Forget
  <1>25. CASE SaveMission(w)
    BY <1>25 DEF SaveMission, Goto, locals
  <1>26. CASE SaveStage(w)
    BY <1>26 DEF SaveStage, Goto, locals
  <1>27. CASE ReRead(w)
    BY <1>27 DEF ReRead, Goto, Exit, tables, Forget
  <1>28. CASE LoadExecution(w)
    BY <1>28 DEF LoadExecution, Exit, tables, Goto, Forget
  <1>29. CASE Verify(w)
    BY <1>29 DEF Verify, Exit, Goto, tables, Forget
  <1>30. CASE Measure(w)
    BY <1>30 DEF Measure, Exit, Goto, tables, Forget
  <1>31. CASE MeasurementEvent(w)
    BY <1>31 DEF MeasurementEvent, Goto, locals
  <1>32. CASE LoadMeasurement(w)
    BY <1>32 DEF LoadMeasurement, Goto, locals, Exit, tables, Forget
  <1>33. CASE Adapt(w)
    BY <1>33 DEF Adapt, Exit, Goto, tables, Forget
  <1>34. CASE AdaptMission(w)
    BY <1>34 DEF AdaptMission, Goto, locals
  <1>35. CASE AdaptCycle(w)
    BY <1>35 DEF AdaptCycle, Goto, Exit, Forget, Returns
  <1>36. CASE ReconcileExecution(w)
    BY <1>36 DEF ReconcileExecution, Goto, tables
  <1>37. CASE FindRunning(w)
    BY <1>37 DEF FindRunning, Exit, Goto, locals, tables, Forget
  <1>38. CASE SelectExecutor(w)
    BY <1>38 DEF SelectExecutor, Exit, Goto, locals, tables, Forget
  <1>39. CASE RecordExecution(w)
    BY <1>39 DEF RecordExecution, Exit, Goto, tables, Forget
  <1>40. QED BY <1>1, <1>2, <1>3, <1>4, <1>5, <1>6, <1>7, <1>8, <1>9, <1>10,
     <1>11, <1>12, <1>13, <1>14, <1>15, <1>16, <1>17, <1>18, <1>19, <1>20,
     <1>21, <1>22, <1>23, <1>24, <1>25, <1>26, <1>27, <1>28, <1>29, <1>30,
     <1>31, <1>32, <1>33, <1>34, <1>35, <1>36, <1>37, <1>38, <1>39
     DEF WorkerStep, GateStep, ObserverStep, RunnerStep, DispatcherStep

\* Every step keeps the claims and runs an executor at most once per cycle.
LEMMA NextKeepsClaims == IInv /\ [Next]_vars => Claimed' /\ ExecutedAtMostOnce'
  <1> SUFFICES ASSUME IInv, [Next]_vars PROVE Claimed' /\ ExecutedAtMostOnce'
    OBVIOUS
  <1>0. Shape /\ TablesOK /\ WorkersOK /\ ran \in [1..MaxCycles -> Nat]
    BY DEF IInv, Shape, TypeOK
  <1>1. ASSUME NEW w \in Workers, Claim(w) PROVE Claimed' /\ ExecutedAtMostOnce'
    <2>1. at[w] \in 1..MaxCycles
      BY <1>0, <1>1, ExecTyped DEF Claim, Shape, Bound
    <2>2. CASE execs[at[w]].status # "NONE"
      <3>1. Exit(w) /\ execs' = execs /\ ran' = ran
        BY <1>1, <2>2 DEF Claim
      <3>2. /\ pc' = [pc EXCEPT ![w] = "idle"]
            /\ \A v \in Workers \ {w} : at'[v] = at[v] /\ xr'[v] = xr[v]
        BY <1>0, <3>1 DEF Exit, Goto, Forget, WorkersOK
      <3>3. QED BY <3>1, <3>2, QuietStepKeepsClaims
    <2>3. CASE execs[at[w]].status = "NONE"
      <3>1. /\ execs' = [execs EXCEPT ![at[w]] = [status |-> "RUNNING", owner |-> w]]
            /\ pc' = [pc EXCEPT ![w] = "invoke"]
            /\ UNCHANGED <<at, xr, ran>>
        BY <1>1, <2>3 DEF Claim, Goto, locals
      <3>2. /\ \A c \in 1..MaxCycles :
                  execs'[c].status = "NONE" => execs[c].status = "NONE"
            /\ execs'[at[w]].status # "NONE" /\ ran[at[w]] = 0
        BY <1>0, <2>1, <2>3, <3>1 DEF IInv, Claimed, TablesOK
      <3>3. \A v \in Workers : pc[v] = "invoke" =>
               at[v] # at[w] /\ at[v] \in 1..MaxCycles
        BY <1>0, <2>3, ExecTyped DEF IInv, Claimed, Shape, Bound
      <3>4. QED
        BY <1>0, <3>1, <3>2, <3>3 DEF IInv, Claimed, ExecutedAtMostOnce, WorkersOK
    <2>4. QED BY <2>2, <2>3
  <1>2. ASSUME NEW w \in Workers, Invoke(w) PROVE Claimed' /\ ExecutedAtMostOnce'
    <2>1. at[w] \in 1..MaxCycles /\ pc[w] = "invoke"
      BY <1>0, <1>2, ExecTyped DEF Invoke, Shape, Bound
    <2>2. ran[at[w]] = 0 /\ execs[at[w]].status # "NONE"
      BY <2>1 DEF IInv, Claimed
    <2>3. /\ ran' = [ran EXCEPT ![at[w]] = ran[at[w]] + 1]
          /\ pc' = [pc EXCEPT ![w] = "finish"]
          /\ \E s \in {"SUCCEEDED", "FAILED"} : xr' = [xr EXCEPT ![w] = s]
          /\ UNCHANGED <<execs, at>>
      BY <1>2 DEF Invoke, Goto, tables
    <2>4. \A v \in Workers \ {w} : pc[v] = "invoke" => at[v] # at[w]
      BY <2>1 DEF IInv, Claimed
    <2>5. ExecutedAtMostOnce'
      BY <1>0, <2>1, <2>2, <2>3 DEF IInv, ExecutedAtMostOnce
    <2>6. Claimed'
      BY <1>0, <2>1, <2>2, <2>3, <2>4 DEF IInv, Claimed, WorkersOK
    <2>7. QED BY <2>5, <2>6
  <1>3. ASSUME NEW w \in Workers, FinishExecution(w) \/ Interrupt(w)
        PROVE  Claimed' /\ ExecutedAtMostOnce'
    <2>1. \A c \in 1..MaxCycles :
             execs'[c].status = "NONE" => execs[c].status = "NONE"
      <3>1. CASE FinishExecution(w)
        <4>1. xr[w] \in {"SUCCEEDED", "FAILED"}
          BY <3>1 DEF FinishExecution, IInv, Claimed
        <4>2. QED BY <1>0, <3>1, <4>1 DEF FinishExecution, Exec, TablesOK
      <3>2. CASE Interrupt(w)
        BY <1>0, <3>2 DEF Interrupt, Exec, TablesOK
      <3>3. QED BY <1>3, <3>1, <3>2
    <2>2. /\ ran' = ran /\ pc' = [pc EXCEPT ![w] = "record_exec"]
          /\ \A v \in Workers \ {w} : at'[v] = at[v] /\ xr'[v] = xr[v]
      BY <1>0, <1>3 DEF FinishExecution, Interrupt, Goto, locals, WorkersOK
    <2>3. QED BY <2>1, <2>2, QuietStepKeepsClaims
  <1>4. ASSUME NEW w \in Workers, Crash(w) PROVE Claimed' /\ ExecutedAtMostOnce'
    <2>1. \A c \in 1..MaxCycles :
             execs'[c].status = "NONE" => execs[c].status = "NONE"
      BY <1>0, <1>4 DEF Crash, TablesOK, ExecRow
    <2>2. /\ ran' = ran /\ pc' = [pc EXCEPT ![w] = "idle"]
          /\ \A v \in Workers \ {w} : at'[v] = at[v] /\ xr'[v] = xr[v]
      BY <1>0, <1>4 DEF Crash, Exit, Goto, Forget, WorkersOK
    <2>3. QED BY <2>1, <2>2, QuietStepKeepsClaims
  <1>5. ASSUME NEW w \in Workers, WorkerStep(w) \/ PlannerFails(w),
               ~Claim(w), ~Invoke(w), ~FinishExecution(w), ~Interrupt(w)
        PROVE  Claimed' /\ ExecutedAtMostOnce'
    <2>1. PICK l : l \notin {"invoke", "finish"} /\ pc' = [pc EXCEPT ![w] = l]
      BY <1>0, <1>5, WorkerStepIsQuiet
    <2>2. /\ execs' = execs /\ ran' = ran
          /\ \A v \in Workers \ {w} : at'[v] = at[v] /\ xr'[v] = xr[v]
      BY <1>0, <1>5, WorkerStepIsQuiet
    <2>3. QED BY <2>1, <2>2, QuietStepKeepsClaims
  <1>6. CASE UserStep \/ WorldChanges \/ DeadlinePasses \/ UNCHANGED vars
    <2>1. UNCHANGED <<execs, ran, pc, at, xr>>
      BY <1>6 DEF UserStep, UserRead, UserSave, UserReadBack, UserStop,
         WorldChanges, DeadlinePasses, tables, locals, vars
    <2>2. QED BY <2>1 DEF IInv, Claimed, ExecutedAtMostOnce
  <1>7. QED BY <1>1, <1>2, <1>3, <1>4, <1>5, <1>6 DEF Next

\* However many workers overlap after lost leases, however often they crash and
\* however the ownership of a running execution is judged, the executor selected
\* for a cycle runs at most once: start_action_execution hands out one slot per
\* cycle and no step of the loop frees a slot.
THEOREM AtMostOneInvocation == Spec => []ExecutedAtMostOnce
  <1>1. Init => IInv
    <2>1. Init => Claimed /\ ExecutedAtMostOnce
      BY DEF Init, Claimed, ExecutedAtMostOnce, Exec
    <2>2. QED BY <2>1, InitShape DEF IInv
  <1>2. IInv /\ [Next]_vars => IInv'
    BY NextKeepsShape, NextKeepsClaims DEF IInv
  <1>3. IInv => ExecutedAtMostOnce
    BY DEF IInv
  <1>4. QED BY <1>1, <1>2, <1>3, PTL DEF Spec


(***************************************************************************)
(* Completion and verification, whatever overlaps                          *)
(***************************************************************************)

\* Labels at which a worker has no cycle yet.
Unbound == {"idle", "gate", "create", "insert"}

\* Labels of reconcile, and those of an observation being recorded.
Reconciling == {"reconcile", "save_evidence", "save_ev", "advance",
                "save_observed"}
Recording == {"record", "save_obs"}

\* Labels before the stages: no execution has been looked at.
Opening == {"idle", "gate", "look", "collect", "capture", "reserve",
            "runstart", "observe", "deadline"} \cup Reconciling \cup Recording

\* The fingerprints observed in each cycle, the cycles in which the deadline was
\* seen to have elapsed, and the cycles that may be completed.
Prints == [c \in 1..MaxCycles |->
              {observations[c][i].fp : i \in DOMAIN observations[c]}]
Late == {c \in 1..MaxCycles : \E fp \in Prints[c] : fp.expired}
Ended == measured \cup Late

\* Where a worker goes next, and what entitles it to complete its cycle.
Entitled(w) ==
    /\ pc[w] \in {"create", "insert"} => ret[w] \in {"look", "observe", "idle"}
    /\ pc[w] \in Recording \cup Reconciling => ret[w] \in {"reserve", "deadline"}
    /\ pc[w] \in Recording => \A f, g \in ob[w].fps : f = g
    /\ pc[w] \in Reconciling \cup {"deadline"} => ob[w].fps \subseteq Prints[at[w]]
    /\ pc[w] \in {"terminate", "term_mission", "term_cycle"} => at[w] \in Late
    /\ pc[w] \in {"adapt", "adapt_mission", "adapt_cycle"} =>
          at[w] \in measured
    /\ pc[w] \notin Unbound /\ crow[w].done => at[w] \in Ended

Succeeded == {c \in 1..MaxCycles : execs[c].status = "SUCCEEDED"}

\* With procfs telling who lives, a worker that runs an executor owns the
\* execution row, and one that closes an interrupted execution finds nobody's.
Outcome(w) ==
    /\ pc[w] \in Opening => xr[w] = "NONE"
    /\ pc[w] \in {"create", "insert"} /\ ret[w] # "idle" => xr[w] = "NONE"
    /\ pc[w] \in {"invoke", "finish"} =>
          execs[at[w]].status = "RUNNING" /\ execs[at[w]].owner = w
    /\ pc[w] = "finish" => ran[at[w]] = 1
    /\ pc[w] = "interrupt" => /\ execs[at[w]].status \in {"RUNNING", "FAILED"}
                              /\ execs[at[w]].owner = Nobody
    /\ pc[w] \notin Unbound \cup {"finish"} /\ xr[w] = "SUCCEEDED"
          => at[w] \in Succeeded
    /\ pc[w] \notin Unbound /\ crow[w].verified = "yes" => at[w] \in Succeeded

\* The tables' half of it.
Verified ==
    /\ \A c \in Succeeded : ran[c] = 1
    /\ \A c \in 1..Len(cycles) : cycles[c].verified = "yes" => c \in Succeeded

\* The inductive invariant of every overlap.
Sound ==
    /\ IInv /\ CompletedMeansMeasured
    /\ \A w \in Workers : Entitled(w)
    /\ ProcIdentity => Verified /\ \A w \in Workers : Outcome(w)

(***************************************************************************)
(* One worker at a time                                                    *)
(***************************************************************************)

\* A cycle row and the row that the next stage's handler writes over it.
NextRow(c, row) ==
    \/ cycles[c].stage = "ASSESS" /\ row = [cycles[c] EXCEPT !.stage = "STRATEGIZE"]
    \/ cycles[c].stage = "STRATEGIZE" /\ row = [cycles[c] EXCEPT !.stage = "EXECUTE"]
    \/ /\ cycles[c].stage = "EXECUTE"
       /\ execs[c].status \in {"SUCCEEDED", "FAILED"}
       /\ row = RecordRow(c, execs[c].status)
    \/ /\ cycles[c].stage = "VERIFY"
       /\ \E v \in {"yes", "no"} :
             row = [cycles[c] EXCEPT !.stage = "MEASURE", !.verified = v]
    \/ cycles[c].stage = "MEASURE" /\ row = [cycles[c] EXCEPT !.stage = "ADAPT"]

Executing == {"claim", "invoke", "finish", "interrupt", "record_exec"}

\* A worker's copies are what the tables say, or one handler ahead of it.
Serial(w) ==
    /\ pc[w] = "insert" => at[w] = Len(cycles) + 1 /\ ~Incomplete
    /\ pc[w] \notin Unbound => at[w] = Len(cycles) /\ ~cycles[at[w]].done
    /\ pc[w] \in {"save_obs", "save_evidence", "save_ev", "save_observed"} =>
          cycles[at[w]].stage = "OBSERVE"
    /\ pc[w] \in Reconciling =>
          ob[w].i = Len(observations[at[w]]) /\ ob[w].i # 0
    /\ pc[w] = "save_evidence" => evidence[at[w]][ob[w].i] = 0
    /\ pc[w] \in {"save_ev", "advance", "save_observed"} => ob[w].ev # 0
    /\ pc[w] \in {"advance", "save_observed"} =>
          observations[at[w]][ob[w].i].ev = ob[w].ev
    /\ pc[w] = "save_observed" =>
          crow[w] = [cycles[at[w]] EXCEPT !.stage = "ASSESS", !.obs = ob[w].i,
                                          !.ev = ob[w].ev]
    /\ pc[w] \in Executing \cup {"step", "reread", "event", "adapt"} =>
          crow[w] = cycles[at[w]]
    /\ pc[w] \in Executing => cycles[at[w]].stage = "EXECUTE"
    /\ pc[w] = "record_exec" => /\ xr[w] \in {"SUCCEEDED", "FAILED"}
                                /\ execs[at[w]].status = xr[w]
    /\ pc[w] \in {"save_mission", "save_stage"} => NextRow(at[w], crow[w])
    /\ pc[w] \in {"term_mission", "term_cycle", "adapt_mission",
                  "adapt_cycle"} =>
          crow[w] = [cycles[at[w]] EXCEPT !.done = TRUE]

\* No two workers run.
Alone == \A v, w \in Workers : pc[v] # "idle" /\ pc[w] # "idle" => v = w

\* The inductive invariant of one worker at a time.
Turns ==
    /\ Sound /\ Alone
    /\ ResumableEvidence /\ OneEvidencePerObservation /\ OnlyLastCycleOpen
    /\ \A w \in Workers : Serial(w)


\* A step of a worker moves that worker only.
Frame(w) ==
    \A v \in Workers \ {w} :
        /\ pc'[v] = pc[v] /\ ret'[v] = ret[v] /\ at'[v] = at[v]
        /\ crow'[v] = crow[v] /\ ob'[v] = ob[v] /\ xr'[v] = xr[v]

\* A step of a worker appends a cycle, saves its copy of the one it works on,
\* or leaves the cycles alone.
Saves(w) ==
    \/ cycles' = cycles
    \/ pc[w] = "insert" /\ cycles' = Append(cycles, NewCycle)
    \/ pc[w] \notin Unbound /\ cycles' = [cycles EXCEPT ![at[w]] = crow[w]]

\* The steps of a worker are of this kind.
LEMMA WorkerFrame ==
  ASSUME Shape, NEW w \in Workers, WorkerStep(w) \/ PlannerFails(w) \/ Crash(w)
  PROVE  Frame(w) /\ Saves(w)
  <1>0. WorkersOK
    BY DEF Shape, TypeOK
  <1> USE <1>0 DEF WorkersOK, Frame, Saves, Unbound
  <1>1. CASE Start(w)
    BY <1>1
       DEF Start, Goto, locals, tables
  <1>2. CASE Gate(w)
    BY <1>2
       DEF Gate, Goto, locals, tables, Exit, Forget
  <1>3. CASE CreateCheck(w)
    BY <1>3
       DEF CreateCheck, Goto, locals, tables, Exit, Forget
  <1>4. CASE InsertCycle(w)
    BY <1>4
       DEF InsertCycle, Goto, locals, tables, Exit, Forget
  <1>5. CASE Look(w)
    BY <1>5
       DEF Look, Goto, locals, tables, Exit, Forget
  <1>6. CASE Collect(w)
    BY <1>6
       DEF Collect, Goto, locals, tables, Exit, Forget
  <1>7. CASE Reserve(w)
    BY <1>7
       DEF Reserve, Goto, locals, tables
  <1>8. CASE Capture(w)
    BY <1>8
       DEF Capture, Goto, locals, tables, Exit, Forget
  <1>9. CASE RecordCheck(w)
    BY <1>9
       DEF RecordCheck, Goto, locals, tables, Exit, Forget
  <1>10. CASE SaveObservation(w)
    BY <1>10
       DEF SaveObservation, Goto, locals, tables
  <1>11. CASE Reconcile(w)
    BY <1>11
       DEF Reconcile, Goto, locals, tables
  <1>12. CASE SaveEvidence(w)
    BY <1>12
       DEF SaveEvidence, Goto, locals, tables
  <1>13. CASE SaveObservationEvidence(w)
    BY <1>13
       DEF SaveObservationEvidence, Goto, locals, tables
  <1>14. CASE Advance(w)
    BY <1>14
       DEF Advance, Goto, locals, tables, Exit, Forget
  <1>15. CASE SaveObserved(w)
    BY <1>15
       DEF SaveObserved, Goto, locals, tables
  <1>16. CASE RunStart(w)
    BY <1>16
       DEF RunStart, Goto, locals, tables, Exit, Forget
  <1>17. CASE ObserveRun(w)
    BY <1>17
       DEF ObserveRun, Goto, locals, tables, Exit, Forget
  <1>18. CASE Deadline(w)
    BY <1>18
       DEF Deadline, Goto, locals, tables
  <1>19. CASE TerminateCheck(w)
    BY <1>19
       DEF TerminateCheck, Goto, locals, tables, Exit, Forget
  <1>20. CASE TerminateMission(w)
    BY <1>20
       DEF TerminateMission, Goto, locals, tables
  <1>21. CASE TerminateCycle(w)
    BY <1>21
       DEF TerminateCycle, Goto, locals, tables, Exit, Forget
  <1>22. CASE PlannerFails(w)
    BY <1>22
       DEF PlannerFails, Abort, Goto, locals, tables, Exit, Forget
  <1>23. CASE Assess(w)
    BY <1>23
       DEF Assess, Plan, Goto, locals, tables, Exit, Forget
  <1>24. CASE Strategize(w)
    BY <1>24
       DEF Strategize, Plan, Goto, locals, tables, Exit, Forget
  <1>25. CASE SaveMission(w)
    BY <1>25
       DEF SaveMission, Goto, locals, tables
  <1>26. CASE SaveStage(w)
    BY <1>26
       DEF SaveStage, Goto, locals, tables
  <1>27. CASE ReRead(w)
    BY <1>27
       DEF ReRead, Goto, locals, tables, Exit, Forget
  <1>28. CASE LoadExecution(w)
    BY <1>28
       DEF LoadExecution, Goto, locals, tables, Exit, Forget
  <1>29. CASE Verify(w)
    BY <1>29
       DEF Verify, Goto, locals, tables, Exit, Forget
  <1>30. CASE Measure(w)
    BY <1>30
       DEF Measure, Goto, locals, tables, Exit, Forget
  <1>31. CASE MeasurementEvent(w)
    BY <1>31
       DEF MeasurementEvent, Goto, locals, tables
  <1>32. CASE LoadMeasurement(w)
    BY <1>32
       DEF LoadMeasurement, Goto, locals, tables, Exit, Forget
  <1>33. CASE Adapt(w)
    BY <1>33
       DEF Adapt, Goto, locals, tables, Exit, Forget
  <1>34. CASE AdaptMission(w)
    BY <1>34
       DEF AdaptMission, Goto, locals, tables
  <1>35. CASE AdaptCycle(w)
    BY <1>35
       DEF AdaptCycle, Goto, locals, tables, Exit, Forget
  <1>36. CASE ReconcileExecution(w)
    BY <1>36
       DEF ReconcileExecution, Goto, locals, tables
  <1>37. CASE FindRunning(w)
    BY <1>37
       DEF FindRunning, Goto, locals, tables, Exit, Forget
  <1>38. CASE Interrupt(w)
    BY <1>38
       DEF Interrupt, Goto, locals, tables
  <1>39. CASE SelectExecutor(w)
    BY <1>39
       DEF SelectExecutor, Goto, locals, tables, Exit, Forget
  <1>40. CASE Claim(w)
    BY <1>40
       DEF Claim, Goto, locals, tables, Exit, Forget
  <1>41. CASE Invoke(w)
    BY <1>41
       DEF Invoke, Goto, locals, tables
  <1>42. CASE FinishExecution(w)
    BY <1>42
       DEF FinishExecution, Goto, locals, tables
  <1>43. CASE RecordExecution(w)
    BY <1>43
       DEF RecordExecution, Goto, locals, tables, Exit, Forget
  <1>44. CASE Crash(w)
    BY <1>44
       DEF Crash, Goto, locals, tables, Exit, Forget
  <1>45. QED BY <1>1, <1>2, <1>3, <1>4, <1>5, <1>6, <1>7, <1>8, <1>9, <1>10,
                  <1>11, <1>12, <1>13, <1>14, <1>15, <1>16, <1>17, <1>18,
                  <1>19, <1>20, <1>21, <1>22, <1>23, <1>24, <1>25, <1>26,
                  <1>27, <1>28, <1>29, <1>30, <1>31, <1>32, <1>33, <1>34,
                  <1>35, <1>36, <1>37, <1>38, <1>39, <1>40, <1>41, <1>42,
                  <1>43, <1>44
     DEF WorkerStep, GateStep, ObserverStep, RunnerStep, DispatcherStep

\* Where a step leaves its worker: its label and what it holds.
At(w, l, r, a, k, o, x) ==
    /\ pc'[w] = l /\ ret'[w] = r /\ at'[w] = a /\ crow'[w] = k /\ ob'[w] = o
    /\ xr'[w] = x

\* The tables that most steps leave alone.
Still == UNCHANGED <<observations, evidence, execs, measured, ran>>


\* Start: the lease is taken.
LEMMA StartEffect ==
  ASSUME WorkersOK, NEW w \in Workers, Start(w)
  PROVE  /\ pc[w] = "idle"
         /\ Still
         /\ UNCHANGED cycles
         /\ At(w, "gate", ret[w], at[w], crow[w], ob[w], xr[w])
  BY DEF Start, Goto, At, WorkersOK, Still, locals, tables

\* Reserve: the fingerprint is reserved.
LEMMA ReserveEffect ==
  ASSUME WorkersOK, NEW w \in Workers, Reserve(w)
  PROVE  /\ pc[w] = "reserve"
         /\ Still
         /\ UNCHANGED cycles
         /\ At(w, "runstart", ret[w], at[w], crow[w], ob[w], xr[w])
  BY DEF Reserve, Goto, At, WorkersOK, Still, locals, tables

\* TerminateMission: the mission row is saved, the cycle row is next.
LEMMA TerminateMissionEffect ==
  ASSUME WorkersOK, NEW w \in Workers, TerminateMission(w)
  PROVE  /\ pc[w] = "term_mission"
         /\ Still
         /\ UNCHANGED cycles
         /\ At(w, "term_cycle", ret[w], at[w], crow[w], ob[w], xr[w])
  BY DEF TerminateMission, Goto, At, WorkersOK, Still, locals, tables

\* SaveMission: the mission row is saved, the cycle row is next.
LEMMA SaveMissionEffect ==
  ASSUME WorkersOK, NEW w \in Workers, SaveMission(w)
  PROVE  /\ pc[w] = "save_mission"
         /\ Still
         /\ UNCHANGED cycles
         /\ At(w, "save_stage", ret[w], at[w], crow[w], ob[w], xr[w])
  BY DEF SaveMission, Goto, At, WorkersOK, Still, locals, tables

\* AdaptMission: the mission row is saved, the cycle row is next.
LEMMA AdaptMissionEffect ==
  ASSUME WorkersOK, NEW w \in Workers, AdaptMission(w)
  PROVE  /\ pc[w] = "adapt_mission"
         /\ Still
         /\ UNCHANGED cycles
         /\ At(w, "adapt_cycle", ret[w], at[w], crow[w], ob[w], xr[w])
  BY DEF AdaptMission, Goto, At, WorkersOK, Still, locals, tables

\* MeasurementEvent: the event is appended.
LEMMA MeasurementEventEffect ==
  ASSUME WorkersOK, NEW w \in Workers, MeasurementEvent(w)
  PROVE  /\ pc[w] = "event"
         /\ UNCHANGED <<cycles, observations, evidence, execs, ran>>
         /\ measured' = measured \cup {at[w]}
         /\ At(w, "adapt", ret[w], at[w], crow[w], ob[w], xr[w])
  BY DEF MeasurementEvent, Goto, At, WorkersOK, Still, locals, tables

\* Gate: the gate takes up the last open cycle, or opens one.
LEMMA GateEffect ==
  ASSUME WorkersOK, NEW w \in Workers, Gate(w)
  PROVE  /\ pc[w] = "gate"
         /\ Still
         /\ UNCHANGED cycles
         /\ \/ Exit(w)
            \/ /\ Incomplete
               /\ At(w, "look", ret[w], Len(cycles), cycles[Len(cycles)],
                    ob[w], xr[w])
            \/ At(w, "create", "look", at[w], crow[w], ob[w], xr[w])
  BY DEF Gate, Goto, At, WorkersOK, Still, tables

\* CreateCheck: the next number is taken when the last cycle is complete.
LEMMA CreateCheckEffect ==
  ASSUME WorkersOK, NEW w \in Workers, CreateCheck(w)
  PROVE  /\ pc[w] = "create"
         /\ Still
         /\ UNCHANGED cycles
         /\ \/ Exit(w)
            \/ /\ ~Incomplete
               /\ At(w, "insert", ret[w], Len(cycles) + 1, crow[w], ob[w],
                    xr[w])
  BY DEF CreateCheck, Goto, At, WorkersOK, Still, tables

\* InsertCycle: a cycle is inserted and the worker goes on with it, or it is
\* gone.
LEMMA InsertCycleEffect ==
  ASSUME WorkersOK, NEW w \in Workers, InsertCycle(w)
  PROVE  /\ pc[w] = "insert"
         /\ Still
         /\ cycles' \in {cycles, Append(cycles, NewCycle)}
         /\ \/ Exit(w)
            \/ /\ ret[w] # "idle"
               /\ Len(cycles) < at[w]
               /\ cycles' = Append(cycles, NewCycle)
               /\ At(w, ret[w], ret[w], at[w], NewCycle, ob[w], xr[w])
  BY DEF InsertCycle, Goto, At, WorkersOK, Still, tables

\* Look: an observation is collected, or the last one recorded taken up.
LEMMA LookEffect ==
  ASSUME WorkersOK, NEW w \in Workers, Look(w)
  PROVE  /\ pc[w] = "look"
         /\ Still
         /\ UNCHANGED cycles
         /\ \/ Exit(w)
            \/ At(w, "collect", ret[w], at[w], crow[w], ob[w], xr[w])
            \/ /\ observations[at[w]] # <<>>
               /\ At(w, "reserve", ret[w], at[w], crow[w],
                    [i |-> Len(observations[at[w]]),
                    fps |-> {observations[at[w]][Len(observations[at[w]])].fp},
                    ev |-> observations[at[w]][Len(observations[at[w]])].ev],
                    xr[w])
  BY DEF Look, Goto, At, WorkersOK, Still, locals, tables

\* Collect: what the observation would show is carried to record.
LEMMA CollectEffect ==
  ASSUME WorkersOK, NEW w \in Workers, Collect(w)
  PROVE  /\ pc[w] = "collect"
         /\ Still
         /\ UNCHANGED cycles
         /\ \/ Exit(w)
            \/ At(w, "record", "reserve", at[w], crow[w], [i |-> 0,
                 fps |-> {Here}, ev |-> 0], xr[w])
  BY DEF Collect, Goto, At, WorkersOK, Still, tables

\* Capture: the same inside an iteration.
LEMMA CaptureEffect ==
  ASSUME WorkersOK, NEW w \in Workers, Capture(w)
  PROVE  /\ pc[w] = "capture"
         /\ Still
         /\ UNCHANGED cycles
         /\ \/ Exit(w)
            \/ At(w, "record", "deadline", at[w], crow[w], [i |-> 0,
                 fps |-> {Here}, ev |-> 0], xr[w])
  BY DEF Capture, Goto, At, WorkersOK, Still, tables

\* RecordCheck: an observation is recorded on an OBSERVE cycle only.
LEMMA RecordCheckEffect ==
  ASSUME WorkersOK, NEW w \in Workers, RecordCheck(w)
  PROVE  /\ pc[w] = "record"
         /\ Still
         /\ UNCHANGED cycles
         /\ \/ Exit(w)
            \/ /\ cycles[at[w]].stage = "OBSERVE"
               /\ At(w, "save_obs", ret[w], at[w], crow[w], ob[w], xr[w])
  BY DEF RecordCheck, Goto, At, WorkersOK, Still, locals, tables

\* SaveObservation: the observation is appended, with no evidence yet.
LEMMA SaveObservationEffect ==
  ASSUME WorkersOK, NEW w \in Workers, SaveObservation(w)
  PROVE  /\ pc[w] = "save_obs"
         /\ UNCHANGED <<cycles, execs, measured, ran>>
         /\ \E fp \in ob[w].fps : observations' =
              [observations EXCEPT ![at[w]] = Append(@, [fp |-> fp,
              ev |-> 0])]
         /\ evidence' = [evidence EXCEPT ![at[w]] = Append(@, 0)]
         /\ At(w, "reconcile", ret[w], at[w], crow[w], [ob[w] EXCEPT !.i =
              Len(observations[at[w]]) + 1], xr[w])
  BY DEF SaveObservation, Goto, At, WorkersOK, Still, tables

\* Reconcile: the evidence is on the row, claimed, or still to be saved.
LEMMA ReconcileEffect ==
  ASSUME WorkersOK, NEW w \in Workers, Reconcile(w)
  PROVE  /\ pc[w] = "reconcile"
         /\ Still
         /\ UNCHANGED cycles
         /\ \/ /\ observations[at[w]][ob[w].i].ev # 0
               /\ At(w, "advance", ret[w], at[w], crow[w],
                    [ob[w] EXCEPT !.ev = observations[at[w]][ob[w].i].ev],
                    xr[w])
            \/ /\ observations[at[w]][ob[w].i].ev = 0
               /\ evidence[at[w]][ob[w].i] # 0
               /\ At(w, "save_ev", ret[w], at[w], crow[w],
                    [ob[w] EXCEPT !.ev = evidence[at[w]][ob[w].i]], xr[w])
            \/ /\ observations[at[w]][ob[w].i].ev = 0
               /\ evidence[at[w]][ob[w].i] = 0
               /\ At(w, "save_evidence", ret[w], at[w], crow[w],
                    [ob[w] EXCEPT !.ev = evidence[at[w]][ob[w].i]], xr[w])
  BY DEF Reconcile, Goto, At, WorkersOK, Still, tables

\* SaveEvidence: one more evidence record is claimed.
LEMMA SaveEvidenceEffect ==
  ASSUME WorkersOK, NEW w \in Workers, SaveEvidence(w)
  PROVE  /\ pc[w] = "save_evidence"
         /\ UNCHANGED <<cycles, observations, execs, measured, ran>>
         /\ evidence' = [evidence EXCEPT ![at[w]][ob[w].i] = @ + 1]
         /\ At(w, "save_ev", ret[w], at[w], crow[w], [ob[w] EXCEPT !.ev =
              evidence[at[w]][ob[w].i] + 1], xr[w])
  BY DEF SaveEvidence, Goto, At, WorkersOK, Still, tables

\* SaveObservationEvidence: the evidence is saved on the observation.
LEMMA SaveObservationEvidenceEffect ==
  ASSUME WorkersOK, NEW w \in Workers, SaveObservationEvidence(w)
  PROVE  /\ pc[w] = "save_ev"
         /\ UNCHANGED <<cycles, evidence, execs, measured, ran>>
         /\ observations' = [observations EXCEPT ![at[w]][ob[w].i].ev =
              ob[w].ev]
         /\ At(w, "advance", ret[w], at[w], crow[w], ob[w], xr[w])
  BY DEF SaveObservationEvidence, Goto, At, WorkersOK, Still, locals, tables

\* Advance: an OBSERVE cycle is about to leave for ASSESS.
LEMMA AdvanceEffect ==
  ASSUME WorkersOK, NEW w \in Workers, Advance(w)
  PROVE  /\ pc[w] = "advance"
         /\ Still
         /\ UNCHANGED cycles
         /\ \/ Exit(w)
            \/ /\ cycles[at[w]].stage = "OBSERVE"
               /\ At(w, "save_observed", ret[w], at[w],
                    [cycles[at[w]] EXCEPT !.stage = "ASSESS", !.obs = ob[w].i,
                    !.ev = ob[w].ev], ob[w], xr[w])
            \/ At(w, ret[w], ret[w], at[w], crow[w], ob[w], xr[w])
  BY DEF Advance, Goto, At, WorkersOK, Still, locals, tables

\* SaveObserved: the row is saved, the caller goes on.
LEMMA SaveObservedEffect ==
  ASSUME WorkersOK, NEW w \in Workers, SaveObserved(w)
  PROVE  /\ pc[w] = "save_observed"
         /\ Still
         /\ cycles' = [cycles EXCEPT ![at[w]] = crow[w]]
         /\ At(w, ret[w], ret[w], at[w], crow[w], ob[w], xr[w])
  BY DEF SaveObserved, Goto, At, WorkersOK, Still, locals, tables

\* RunStart: the last open cycle is taken up, or one opened.
LEMMA RunStartEffect ==
  ASSUME WorkersOK, NEW w \in Workers, RunStart(w)
  PROVE  /\ pc[w] = "runstart"
         /\ Still
         /\ UNCHANGED cycles
         /\ \/ Exit(w)
            \/ /\ Incomplete
               /\ At(w, "observe", ret[w], Len(cycles), cycles[Len(cycles)],
                    ob[w], xr[w])
            \/ At(w, "create", "observe", at[w], crow[w], ob[w], xr[w])
  BY DEF RunStart, Goto, At, WorkersOK, Still, tables

\* ObserveRun: the last observation is reconciled, or one captured.
LEMMA ObserveRunEffect ==
  ASSUME WorkersOK, NEW w \in Workers, ObserveRun(w)
  PROVE  /\ pc[w] = "observe"
         /\ Still
         /\ UNCHANGED cycles
         /\ \/ Exit(w)
            \/ /\ observations[at[w]] # <<>>
               /\ At(w, "reconcile", "deadline", at[w], crow[w],
                    [i |-> Len(observations[at[w]]),
                    fps |-> {observations[at[w]][Len(observations[at[w]])].fp},
                    ev |-> 0], xr[w])
            \/ At(w, "capture", ret[w], at[w], crow[w], ob[w], xr[w])
  BY DEF ObserveRun, Goto, At, WorkersOK, Still, locals, tables

\* Deadline: the row is read; an expired observation ends the cycle.
LEMMA DeadlineEffect ==
  ASSUME WorkersOK, NEW w \in Workers, Deadline(w)
  PROVE  /\ pc[w] = "deadline"
         /\ Still
         /\ UNCHANGED cycles
         /\ \/ /\ \E fp \in ob[w].fps : fp.expired
               /\ At(w, "terminate", ret[w], at[w], cycles[at[w]], ob[w],
                    xr[w])
            \/ At(w, "step", ret[w], at[w], cycles[at[w]], ob[w], xr[w])
  BY DEF Deadline, Goto, At, WorkersOK, Still, tables

\* TerminateCheck: the row is about to be completed.
LEMMA TerminateCheckEffect ==
  ASSUME WorkersOK, NEW w \in Workers, TerminateCheck(w)
  PROVE  /\ pc[w] = "terminate"
         /\ Still
         /\ UNCHANGED cycles
         /\ \/ Exit(w)
            \/ At(w, "term_mission", ret[w], at[w],
                 [cycles[at[w]] EXCEPT !.done = TRUE], ob[w], xr[w])
  BY DEF TerminateCheck, Goto, At, WorkersOK, Still, tables

\* Assess: the row is about to leave ASSESS.
LEMMA AssessEffect ==
  ASSUME WorkersOK, NEW w \in Workers, Assess(w)
  PROVE  /\ pc[w] = "step"
         /\ Still
         /\ UNCHANGED cycles
         /\ \/ Exit(w)
            \/ /\ cycles[at[w]].stage = "ASSESS"
               /\ At(w, "save_mission", ret[w], at[w],
                    [cycles[at[w]] EXCEPT !.stage = "STRATEGIZE"], ob[w],
                    xr[w])
  BY DEF Assess, Goto, At, WorkersOK, Still, Plan, tables

\* Strategize: the row is about to leave STRATEGIZE.
LEMMA StrategizeEffect ==
  ASSUME WorkersOK, NEW w \in Workers, Strategize(w)
  PROVE  /\ pc[w] = "step"
         /\ Still
         /\ UNCHANGED cycles
         /\ \/ Exit(w)
            \/ /\ cycles[at[w]].stage = "STRATEGIZE"
               /\ At(w, "save_mission", ret[w], at[w],
                    [cycles[at[w]] EXCEPT !.stage = "EXECUTE"], ob[w], xr[w])
  BY DEF Strategize, Goto, At, WorkersOK, Still, Plan, tables

\* SaveStage: the row is saved.
LEMMA SaveStageEffect ==
  ASSUME WorkersOK, NEW w \in Workers, SaveStage(w)
  PROVE  /\ pc[w] = "save_stage"
         /\ Still
         /\ cycles' = [cycles EXCEPT ![at[w]] = crow[w]]
         /\ \E l \in {"reread", "event", "step"} : At(w, l, ret[w], at[w],
              crow[w], ob[w], xr[w])
  BY DEF SaveStage, Goto, At, WorkersOK, Still, locals, tables

\* ReRead: the row is read back.
LEMMA ReReadEffect ==
  ASSUME WorkersOK, NEW w \in Workers, ReRead(w)
  PROVE  /\ pc[w] = "reread"
         /\ Still
         /\ UNCHANGED cycles
         /\ \/ Exit(w)
            \/ At(w, "step", ret[w], at[w], cycles[at[w]], ob[w], xr[w])
  BY DEF ReRead, Goto, At, WorkersOK, Still, tables

\* LoadExecution: the durable execution is read.
LEMMA LoadExecutionEffect ==
  ASSUME WorkersOK, NEW w \in Workers, LoadExecution(w)
  PROVE  /\ pc[w] = "step"
         /\ Still
         /\ UNCHANGED cycles
         /\ \/ Exit(w)
            \/ At(w, "step", ret[w], at[w], crow[w], ob[w],
                 execs[at[w]].status)
  BY DEF LoadExecution, Goto, At, WorkersOK, Still, tables

\* Verify: the row is about to leave VERIFY.
LEMMA VerifyEffect ==
  ASSUME WorkersOK, NEW w \in Workers, Verify(w)
  PROVE  /\ pc[w] = "step"
         /\ Still
         /\ UNCHANGED cycles
         /\ \/ Exit(w)
            \/ /\ cycles[at[w]].stage = "VERIFY"
               /\ At(w, "save_stage", ret[w], at[w],
                    [cycles[at[w]] EXCEPT !.stage = "MEASURE", !.verified =
                    IF xr[w] = "SUCCEEDED" THEN "yes" ELSE "no"], ob[w],
                    xr[w])
  BY DEF Verify, Goto, At, WorkersOK, Still, tables

\* Measure: the row is about to leave MEASURE.
LEMMA MeasureEffect ==
  ASSUME WorkersOK, NEW w \in Workers, Measure(w)
  PROVE  /\ pc[w] = "step"
         /\ Still
         /\ UNCHANGED cycles
         /\ \/ Exit(w)
            \/ /\ cycles[at[w]].stage = "MEASURE"
               /\ At(w, "save_stage", ret[w], at[w],
                    [cycles[at[w]] EXCEPT !.stage = "ADAPT"], ob[w], xr[w])
  BY DEF Measure, Goto, At, WorkersOK, Still, tables

\* LoadMeasurement: only a measured cycle goes on to adapt.
LEMMA LoadMeasurementEffect ==
  ASSUME WorkersOK, NEW w \in Workers, LoadMeasurement(w)
  PROVE  /\ pc[w] = "step"
         /\ Still
         /\ UNCHANGED cycles
         /\ \/ Exit(w)
            \/ /\ at[w] \in measured
               /\ At(w, "adapt", ret[w], at[w], crow[w], ob[w], xr[w])
  BY DEF LoadMeasurement, Goto, At, WorkersOK, Still, locals, tables

\* Adapt: the row is about to be completed.
LEMMA AdaptEffect ==
  ASSUME WorkersOK, NEW w \in Workers, Adapt(w)
  PROVE  /\ pc[w] = "adapt"
         /\ Still
         /\ UNCHANGED cycles
         /\ \/ Exit(w)
            \/ \E r \in Returns : At(w, "adapt_mission", r, at[w],
                 [cycles[at[w]] EXCEPT !.done = TRUE], ob[w], xr[w])
  BY DEF Adapt, Goto, At, WorkersOK, Still, Returns, tables

\* AdaptCycle: the row is saved; the next cycle is opened, or none.
LEMMA AdaptCycleEffect ==
  ASSUME WorkersOK, NEW w \in Workers, AdaptCycle(w)
  PROVE  /\ pc[w] = "adapt_cycle"
         /\ Still
         /\ cycles' = [cycles EXCEPT ![at[w]] = crow[w]]
         /\ \/ Exit(w)
            \/ At(w, "create", "idle", at[w], crow[w], ob[w], xr[w])
  BY DEF AdaptCycle, Goto, At, WorkersOK, Still, tables

\* ReconcileExecution: a finished execution is repeated on an EXECUTE row.
LEMMA ReconcileExecutionEffect ==
  ASSUME WorkersOK, NEW w \in Workers, ReconcileExecution(w)
  PROVE  /\ pc[w] = "step"
         /\ Still
         /\ UNCHANGED cycles
         /\ \/ /\ execs[at[w]].status \in {"SUCCEEDED", "FAILED"}
               /\ cycles[at[w]].stage = "EXECUTE"
               /\ At(w, "save_stage", ret[w], at[w], RecordRow(at[w],
                    execs[at[w]].status), ob[w], execs[at[w]].status)
            \/ At(w, "reread", ret[w], at[w], crow[w], ob[w],
                 execs[at[w]].status)
  BY DEF ReconcileExecution, Goto, At, WorkersOK, Still, tables

\* FindRunning: a running execution is refused, or taken for interrupted.
LEMMA FindRunningEffect ==
  ASSUME WorkersOK, NEW w \in Workers, FindRunning(w)
  PROVE  /\ pc[w] = "step"
         /\ Still
         /\ UNCHANGED cycles
         /\ \/ Exit(w)
            \/ /\ execs[at[w]].status = "RUNNING"
               /\ MayBeInterrupted(execs[at[w]])
               /\ crow[w].stage = "EXECUTE"
               /\ At(w, "interrupt", ret[w], at[w], crow[w], ob[w], xr[w])
  BY DEF FindRunning, Goto, At, WorkersOK, Still, locals, tables

\* SelectExecutor: an executor is chosen for an EXECUTE row.
LEMMA SelectExecutorEffect ==
  ASSUME WorkersOK, NEW w \in Workers, SelectExecutor(w)
  PROVE  /\ pc[w] = "step"
         /\ Still
         /\ UNCHANGED cycles
         /\ \/ Exit(w)
            \/ /\ cycles[at[w]].stage = "EXECUTE"
               /\ At(w, "claim", ret[w], at[w], crow[w], ob[w], xr[w])
  BY DEF SelectExecutor, Goto, At, WorkersOK, Still, locals, tables

\* Interrupt: the execution is closed as FAILED.
LEMMA InterruptEffect ==
  ASSUME WorkersOK, NEW w \in Workers, Interrupt(w)
  PROVE  /\ pc[w] = "interrupt"
         /\ UNCHANGED <<cycles, observations, evidence, measured, ran>>
         /\ execs' = [execs EXCEPT ![at[w]] = Exec("FAILED")]
         /\ At(w, "record_exec", ret[w], at[w], crow[w], ob[w], "FAILED")
  BY DEF Interrupt, Goto, At, WorkersOK, Still, tables

\* Claim: the free slot of the cycle is taken.
LEMMA ClaimEffect ==
  ASSUME WorkersOK, NEW w \in Workers, Claim(w)
  PROVE  /\ pc[w] = "claim"
         /\ UNCHANGED <<cycles, observations, evidence, measured, ran>>
         /\ \/ Exit(w)
            \/ /\ execs[at[w]].status = "NONE"
               /\ At(w, "invoke", ret[w], at[w], crow[w], ob[w], xr[w])
  BY DEF Claim, Goto, At, WorkersOK, Still, locals, tables

\* Invoke: the executor runs.
LEMMA InvokeEffect ==
  ASSUME WorkersOK, NEW w \in Workers, Invoke(w)
  PROVE  /\ pc[w] = "invoke"
         /\ UNCHANGED <<cycles, observations, evidence, measured, execs>>
         /\ ran' = [ran EXCEPT ![at[w]] = @ + 1]
         /\ \E x \in {"SUCCEEDED", "FAILED"} : At(w, "finish", ret[w], at[w],
              crow[w], ob[w], x)
  BY DEF Invoke, Goto, At, WorkersOK, Still, tables

\* FinishExecution: its outcome is saved.
LEMMA FinishExecutionEffect ==
  ASSUME WorkersOK, NEW w \in Workers, FinishExecution(w)
  PROVE  /\ pc[w] = "finish"
         /\ UNCHANGED <<cycles, observations, evidence, measured, ran>>
         /\ execs' = [execs EXCEPT ![at[w]] = Exec(xr[w])]
         /\ At(w, "record_exec", ret[w], at[w], crow[w], ob[w], xr[w])
  BY DEF FinishExecution, Goto, At, WorkersOK, Still, locals, tables

\* RecordExecution: the row is about to leave EXECUTE.
LEMMA RecordExecutionEffect ==
  ASSUME WorkersOK, NEW w \in Workers, RecordExecution(w)
  PROVE  /\ pc[w] = "record_exec"
         /\ Still
         /\ UNCHANGED cycles
         /\ \/ Exit(w)
            \/ /\ cycles[at[w]].stage = "EXECUTE"
               /\ At(w, "save_stage", ret[w], at[w], RecordRow(at[w], xr[w]),
                    ob[w], xr[w])
  BY DEF RecordExecution, Goto, At, WorkersOK, Still, tables


\* A worker that has gone holds nothing, and is entitled to nothing.
LEMMA ExitEntitled ==
  ASSUME WorkersOK, NEW w \in Workers, Exit(w) PROVE Entitled(w)'
  BY DEF WorkersOK, Exit, Forget, Goto, Entitled, Unbound, Reconciling,
     Recording

\* What a complete cycle and a cycle at hand have.
LEMMA AtHand ==
  ASSUME Shape, NEW w \in Workers
  PROVE  /\ WorkersOK /\ TablesOK /\ OutsideOK
         /\ ret[w] \in Returns /\ crow[w] \in CycleRow /\ ob[w] \in Carrying
         /\ xr[w] \in ExecStatus
         /\ pc[w] \notin Unbound => /\ at[w] \in 1..Len(cycles)
                                    /\ at[w] \in 1..MaxCycles
                                    /\ cycles[at[w]] \in CycleRow
  <1>1. /\ WorkersOK /\ TablesOK /\ OutsideOK
        /\ ret[w] \in Returns /\ crow[w] \in CycleRow /\ ob[w] \in Carrying
        /\ xr[w] \in ExecStatus
    BY DEF Shape, TypeOK, WorkersOK
  <1>2. pc[w] \notin Unbound => at[w] \in 1..Len(cycles)
    BY DEF Shape, Bound, Unbound
  <1>3. QED BY <1>1, <1>2, CycleTyped, ExecTyped

\* The completed cycles, as a set.
LEMMA CompletedAreEnded ==
  ASSUME TablesOK
  PROVE  CompletedMeansMeasured <=>
           \A c \in 1..Len(cycles) : cycles[c].done => c \in Ended
  <1>1. \A c \in 1..Len(cycles) : c \in 1..MaxCycles
    BY CycleAssumption DEF TablesOK
  <1>2. \A c \in 1..MaxCycles :
           c \in Late <=>
             \E i \in DOMAIN observations[c] : observations[c][i].fp.expired
    BY DEF Late, Prints
  <1>3. QED BY <1>1, <1>2 DEF CompletedMeansMeasured, Ended

\* Observations and measurements only grow.
Grows ==
    /\ measured \subseteq measured' /\ Late \subseteq Late'
    /\ \A c \in 1..MaxCycles : Prints[c] \subseteq Prints'[c]

\* A worker's own step keeps what it is entitled to.
LEMMA WorkerEntitled ==
  ASSUME Shape, CompletedMeansMeasured, NEW w \in Workers, Entitled(w), Grows,
         WorkerStep(w) \/ PlannerFails(w) \/ Crash(w)
  PROVE  Entitled(w)'
  <1> USE CycleAssumption
  <1>0. /\ WorkersOK /\ TablesOK /\ ob[w] \in Carrying
        /\ pc[w] \notin Unbound => /\ at[w] \in 1..Len(cycles)
                                   /\ at[w] \in 1..MaxCycles
                                   /\ cycles[at[w]] \in CycleRow
                                   /\ cycles[at[w]].done => at[w] \in Ended
    BY AtHand, CompletedAreEnded
  <1>00. /\ measured \subseteq measured' /\ Late \subseteq Late'
         /\ Ended \subseteq Ended' /\ Ended = measured \cup Late
         /\ pc[w] \notin Unbound => Prints[at[w]] \subseteq Prints'[at[w]]
    BY <1>0 DEF Grows, Ended
  <1> USE <1>0, <1>00 DEF Entitled, Unbound, Reconciling, Recording
  <1>1. CASE Start(w)
    BY <1>1, StartEffect
       DEF At, Still
  <1>2. CASE Gate(w)
    <2>1. CASE Exit(w)
      BY <2>1, ExitEntitled
    <2>2. CASE ~Exit(w)
      BY <1>2, <2>2, GateEffect
         DEF At, Still, Incomplete
    <2>3. QED BY <2>1, <2>2
  <1>3. CASE CreateCheck(w)
    <2>1. CASE Exit(w)
      BY <2>1, ExitEntitled
    <2>2. CASE ~Exit(w)
      BY <1>3, <2>2, CreateCheckEffect
         DEF At, Still
    <2>3. QED BY <2>1, <2>2
  <1>4. CASE InsertCycle(w)
    <2>1. CASE Exit(w)
      BY <2>1, ExitEntitled
    <2>2. CASE ~Exit(w)
      BY <1>4, <2>2, InsertCycleEffect
         DEF At, Still, NewCycle
    <2>3. QED BY <2>1, <2>2
  <1>5. CASE Look(w)
    <2>1. CASE Exit(w)
      BY <2>1, ExitEntitled
    <2>2. CASE ~Exit(w)
      BY <1>5, <2>2, LookEffect
         DEF At, Still
    <2>3. QED BY <2>1, <2>2
  <1>6. CASE Collect(w)
    <2>1. CASE Exit(w)
      BY <2>1, ExitEntitled
    <2>2. CASE ~Exit(w)
      BY <1>6, <2>2, CollectEffect
         DEF At, Still
    <2>3. QED BY <2>1, <2>2
  <1>7. CASE Reserve(w)
    BY <1>7, ReserveEffect
       DEF At, Still
  <1>8. CASE Capture(w)
    <2>1. CASE Exit(w)
      BY <2>1, ExitEntitled
    <2>2. CASE ~Exit(w)
      BY <1>8, <2>2, CaptureEffect
         DEF At, Still
    <2>3. QED BY <2>1, <2>2
  <1>9. CASE RecordCheck(w)
    <2>1. CASE Exit(w)
      BY <2>1, ExitEntitled
    <2>2. CASE ~Exit(w)
      BY <1>9, <2>2, RecordCheckEffect
         DEF At, Still
    <2>3. QED BY <2>1, <2>2
  <1>10. CASE SaveObservation(w)
    <2>1. PICK fp \in ob[w].fps :
             observations' = [observations EXCEPT
                                 ![at[w]] = Append(@, [fp |-> fp, ev |-> 0])]
      BY <1>10, SaveObservationEffect
    <2>2. at[w] \in 1..MaxCycles /\ observations[at[w]] \in Seq(ObsRow)
      BY <1>10, <1>0, ObservationsTyped DEF SaveObservation
    <2>3. fp \in Prints'[at[w]]
      <3>1. observations'[at[w]] = Append(observations[at[w]],
                                          [fp |-> fp, ev |-> 0])
        BY <2>1, <2>2, <1>0 DEF TablesOK
      <3>2. /\ Len(observations[at[w]]) + 1 \in DOMAIN observations'[at[w]]
            /\ observations'[at[w]][Len(observations[at[w]]) + 1].fp = fp
        BY <2>2, <3>1
      <3>3. QED BY <2>2, <3>2 DEF Prints
    <2>4. ob[w].fps = {fp}
      BY <1>10 DEF SaveObservation
    <2>5. ob'[w].fps = ob[w].fps
      <3>1. ob[w] \in Carrying
        BY DEF WorkersOK
      <3>2. ob'[w] = [ob[w] EXCEPT !.i = Len(observations[at[w]]) + 1]
        BY <1>10, SaveObservationEffect DEF At
      <3>3. QED BY <3>1, <3>2 DEF Carrying
    <2>6. QED BY <1>10, <2>3, <2>4, <2>5, SaveObservationEffect DEF At
  <1>11. CASE Reconcile(w)
    <2>1. ob'[w].fps = ob[w].fps
      <3>1. PICK e : ob'[w] = [ob[w] EXCEPT !.ev = e]
        BY <1>11, ReconcileEffect DEF At
      <3>2. QED BY <3>1 DEF Carrying
    <2>2. QED BY <1>11, <2>1, ReconcileEffect DEF At
  <1>12. CASE SaveEvidence(w)
    <2>1. ob'[w].fps = ob[w].fps
      <3>1. PICK e : ob'[w] = [ob[w] EXCEPT !.ev = e]
        BY <1>12, SaveEvidenceEffect DEF At
      <3>2. QED BY <3>1 DEF Carrying
    <2>2. QED BY <1>12, <2>1, SaveEvidenceEffect DEF At
  <1>13. CASE SaveObservationEvidence(w)
    BY <1>13, SaveObservationEvidenceEffect
       DEF At, Still
  <1>14. CASE Advance(w)
    <2>1. CASE Exit(w)
      BY <2>1, ExitEntitled
    <2>2. CASE ~Exit(w)
      <3>1. crow'[w].done \in {crow[w].done, cycles[at[w]].done}
        <4>1. \/ crow'[w] = crow[w]
              \/ crow'[w] = [cycles[at[w]] EXCEPT !.stage = "ASSESS",
                                    !.obs = ob[w].i, !.ev = ob[w].ev]
          BY <1>14, <2>2, AdvanceEffect DEF At
        <4>2. cycles[at[w]] \in CycleRow
          BY <1>14 DEF Advance
        <4>3. QED BY <4>1, <4>2 DEF CycleRow
      <3>2. QED BY <1>14, <2>2, <3>1, AdvanceEffect DEF At, Still
    <2>3. QED BY <2>1, <2>2
  <1>15. CASE SaveObserved(w)
    BY <1>15, SaveObservedEffect
       DEF At, Still
  <1>16. CASE RunStart(w)
    <2>1. CASE Exit(w)
      BY <2>1, ExitEntitled
    <2>2. CASE ~Exit(w)
      BY <1>16, <2>2, RunStartEffect
         DEF At, Still, Incomplete
    <2>3. QED BY <2>1, <2>2
  <1>17. CASE ObserveRun(w)
    <2>1. CASE Exit(w)
      BY <2>1, ExitEntitled
    <2>2. CASE ~Exit(w) /\ observations[at[w]] # <<>>
      <3>1. /\ at[w] \in 1..MaxCycles /\ observations[at[w]] \in Seq(ObsRow)
            /\ Len(observations[at[w]]) \in DOMAIN observations[at[w]]
        BY <1>17, <1>0, <2>2, LastObservationCarried, ObservationsTyped
           DEF ObserveRun
      <3>2. observations[at[w]][Len(observations[at[w]])].fp \in Prints[at[w]]
        BY <3>1 DEF Prints
      <3>3. pc'[w] = "reconcile" => ob'[w].fps \subseteq Prints[at[w]]
        <4> DEFINE fp == observations[at[w]][Len(observations[at[w]])].fp
                   n == Len(observations[at[w]])
        <4>1. pc'[w] = "reconcile" => ob'[w] = [i |-> n, fps |-> {fp}, ev |-> 0]
          BY <1>17, <2>2, ObserveRunEffect DEF At
        <4> HIDE DEF fp, n
        <4>2. fp \in Prints[at[w]]
          BY <3>2 DEF fp
        <4>3. QED BY <4>1, <4>2
      <3>4. QED BY <1>17, <2>2, <3>1, <3>3, ObserveRunEffect DEF At
    <2>3. CASE ~Exit(w) /\ observations[at[w]] = <<>>
      BY <1>17, <2>3, ObserveRunEffect DEF At
    <2>4. QED BY <2>1, <2>2, <2>3
  <1>18. CASE Deadline(w)
    BY <1>18, DeadlineEffect
       DEF At, Still, Late
  <1>19. CASE TerminateCheck(w)
    <2>1. CASE Exit(w)
      BY <2>1, ExitEntitled
    <2>2. CASE ~Exit(w)
      BY <1>19, <2>2, TerminateCheckEffect
         DEF At, Still, CycleRow
    <2>3. QED BY <2>1, <2>2
  <1>20. CASE TerminateMission(w)
    BY <1>20, TerminateMissionEffect
       DEF At, Still
  <1>21. CASE TerminateCycle(w)
    BY <1>21, ExitEntitled
       DEF TerminateCycle, Goto, locals, tables
  <1>22. CASE PlannerFails(w)
    BY <1>22, ExitEntitled
       DEF PlannerFails, Abort, Goto, locals, tables
  <1>23. CASE Assess(w)
    <2>1. CASE Exit(w)
      BY <2>1, ExitEntitled
    <2>2. CASE ~Exit(w)
      <3>1. crow'[w].done = cycles[at[w]].done
        <4>1. crow'[w] = [cycles[at[w]] EXCEPT !.stage = "STRATEGIZE"]
          BY <1>23, <2>2, AssessEffect DEF At
        <4>2. cycles[at[w]] \in CycleRow
          BY <1>23 DEF Assess, Plan
        <4>3. QED BY <4>1, <4>2 DEF CycleRow
      <3>2. QED BY <1>23, <2>2, <3>1, AssessEffect DEF At
    <2>3. QED BY <2>1, <2>2
  <1>24. CASE Strategize(w)
    <2>1. CASE Exit(w)
      BY <2>1, ExitEntitled
    <2>2. CASE ~Exit(w)
      <3>1. crow'[w].done = cycles[at[w]].done
        <4>1. crow'[w] = [cycles[at[w]] EXCEPT !.stage = "EXECUTE"]
          BY <1>24, <2>2, StrategizeEffect DEF At
        <4>2. cycles[at[w]] \in CycleRow
          BY <1>24 DEF Strategize, Plan
        <4>3. QED BY <4>1, <4>2 DEF CycleRow
      <3>2. QED BY <1>24, <2>2, <3>1, StrategizeEffect DEF At
    <2>3. QED BY <2>1, <2>2
  <1>25. CASE SaveMission(w)
    BY <1>25, SaveMissionEffect
       DEF At, Still
  <1>26. CASE SaveStage(w)
    BY <1>26, SaveStageEffect
       DEF At, Still
  <1>27. CASE ReRead(w)
    <2>1. CASE Exit(w)
      BY <2>1, ExitEntitled
    <2>2. CASE ~Exit(w)
      BY <1>27, <2>2, ReReadEffect
         DEF At, Still
    <2>3. QED BY <2>1, <2>2
  <1>28. CASE LoadExecution(w)
    <2>1. CASE Exit(w)
      BY <2>1, ExitEntitled
    <2>2. CASE ~Exit(w)
      BY <1>28, <2>2, LoadExecutionEffect
         DEF At, Still
    <2>3. QED BY <2>1, <2>2
  <1>29. CASE Verify(w)
    <2>1. CASE Exit(w)
      BY <2>1, ExitEntitled
    <2>2. CASE ~Exit(w)
      <3>1. crow'[w].done = cycles[at[w]].done
        <4>1. PICK v : crow'[w] = [cycles[at[w]] EXCEPT !.stage = "MEASURE",
                                                        !.verified = v]
          BY <1>29, <2>2, VerifyEffect DEF At
        <4>2. cycles[at[w]] \in CycleRow
          BY <1>29 DEF Verify
        <4>3. QED BY <4>1, <4>2 DEF CycleRow
      <3>2. QED BY <1>29, <2>2, <3>1, VerifyEffect DEF At
    <2>3. QED BY <2>1, <2>2
  <1>30. CASE Measure(w)
    <2>1. CASE Exit(w)
      BY <2>1, ExitEntitled
    <2>2. CASE ~Exit(w)
      <3>1. crow'[w].done = cycles[at[w]].done
        <4>1. crow'[w] = [cycles[at[w]] EXCEPT !.stage = "ADAPT"]
          BY <1>30, <2>2, MeasureEffect DEF At
        <4>2. cycles[at[w]] \in CycleRow
          BY <1>30 DEF Measure
        <4>3. QED BY <4>1, <4>2 DEF CycleRow
      <3>2. QED BY <1>30, <2>2, <3>1, MeasureEffect DEF At
    <2>3. QED BY <2>1, <2>2
  <1>31. CASE MeasurementEvent(w)
    BY <1>31, MeasurementEventEffect
       DEF At, Still
  <1>32. CASE LoadMeasurement(w)
    <2>1. CASE Exit(w)
      BY <2>1, ExitEntitled
    <2>2. CASE ~Exit(w)
      BY <1>32, <2>2, LoadMeasurementEffect
         DEF At, Still
    <2>3. QED BY <2>1, <2>2
  <1>33. CASE Adapt(w)
    <2>1. CASE Exit(w)
      BY <2>1, ExitEntitled
    <2>2. CASE ~Exit(w)
      BY <1>33, <2>2, AdaptEffect
         DEF At, Still, CycleRow
    <2>3. QED BY <2>1, <2>2
  <1>34. CASE AdaptMission(w)
    BY <1>34, AdaptMissionEffect
       DEF At, Still
  <1>35. CASE AdaptCycle(w)
    <2>1. CASE Exit(w)
      BY <2>1, ExitEntitled
    <2>2. CASE ~Exit(w)
      BY <1>35, <2>2, AdaptCycleEffect
         DEF At, Still
    <2>3. QED BY <2>1, <2>2
  <1>36. CASE ReconcileExecution(w)
    <2>1. crow'[w].done \in {crow[w].done, cycles[at[w]].done}
      <3>1. \/ crow'[w] = crow[w]
            \/ crow'[w] = RecordRow(at[w], execs[at[w]].status)
        BY <1>36, ReconcileExecutionEffect DEF At
      <3>2. cycles[at[w]] \in CycleRow
        BY <1>36 DEF ReconcileExecution
      <3>3. RecordRow(at[w], execs[at[w]].status).done = cycles[at[w]].done
        BY <3>2 DEF CycleRow, RecordRow
      <3>4. QED BY <3>1, <3>3
    <2>2. QED BY <1>36, <2>1, ReconcileExecutionEffect DEF At
  <1>37. CASE FindRunning(w)
    <2>1. CASE Exit(w)
      BY <2>1, ExitEntitled
    <2>2. CASE ~Exit(w)
      BY <1>37, <2>2, FindRunningEffect
         DEF At, Still
    <2>3. QED BY <2>1, <2>2
  <1>38. CASE Interrupt(w)
    BY <1>38, InterruptEffect
       DEF At, Still, Exec
  <1>39. CASE SelectExecutor(w)
    <2>1. CASE Exit(w)
      BY <2>1, ExitEntitled
    <2>2. CASE ~Exit(w)
      BY <1>39, <2>2, SelectExecutorEffect
         DEF At, Still
    <2>3. QED BY <2>1, <2>2
  <1>40. CASE Claim(w)
    <2>1. CASE Exit(w)
      BY <2>1, ExitEntitled
    <2>2. CASE ~Exit(w)
      BY <1>40, <2>2, ClaimEffect
         DEF At, Still
    <2>3. QED BY <2>1, <2>2
  <1>41. CASE Invoke(w)
    BY <1>41, InvokeEffect
       DEF At, Still
  <1>42. CASE FinishExecution(w)
    BY <1>42, FinishExecutionEffect
       DEF At, Still, Exec
  <1>43. CASE RecordExecution(w)
    <2>1. CASE Exit(w)
      BY <2>1, ExitEntitled
    <2>2. CASE ~Exit(w)
      <3>1. crow'[w].done = cycles[at[w]].done
        <4>1. crow'[w] = RecordRow(at[w], xr[w])
          BY <1>43, <2>2, RecordExecutionEffect DEF At
        <4>2. cycles[at[w]] \in CycleRow
          BY <1>43 DEF RecordExecution
        <4>3. QED BY <4>1, <4>2 DEF CycleRow, RecordRow
      <3>2. QED BY <1>43, <2>2, <3>1, RecordExecutionEffect DEF At
    <2>3. QED BY <2>1, <2>2
  <1>44. CASE Crash(w)
    BY <1>44, ExitEntitled
       DEF Crash, Goto, locals, tables
  <1>45. QED BY <1>1, <1>2, <1>3, <1>4, <1>5, <1>6, <1>7, <1>8, <1>9, <1>10,
                  <1>11, <1>12, <1>13, <1>14, <1>15, <1>16, <1>17, <1>18,
                  <1>19, <1>20, <1>21, <1>22, <1>23, <1>24, <1>25, <1>26,
                  <1>27, <1>28, <1>29, <1>30, <1>31, <1>32, <1>33, <1>34,
                  <1>35, <1>36, <1>37, <1>38, <1>39, <1>40, <1>41, <1>42,
                  <1>43, <1>44
     DEF WorkerStep, GateStep, ObserverStep, RunnerStep, DispatcherStep

\* No step of a worker takes an observation or a measurement back.
LEMMA WorkerGrows ==
  ASSUME Shape, NEW w \in Workers, WorkerStep(w) \/ PlannerFails(w) \/ Crash(w)
  PROVE  Grows
  <1>0. WorkersOK /\ TablesOK /\ Paired
    BY DEF Shape, TypeOK
  <1>1. ASSUME \A c \in 1..MaxCycles : Prints[c] \subseteq Prints'[c],
               measured \subseteq measured'
        PROVE  Grows
    BY <1>1 DEF Grows, Late
  <1>2. CASE SaveObservation(w)
    <2>1. at[w] \in 1..MaxCycles
      BY <1>2, AtHand DEF SaveObservation, Unbound
    <2>2. PICK fp : observations' = [observations EXCEPT
                                 ![at[w]] = Append(@, [fp |-> fp, ev |-> 0])]
      BY <1>0, <1>2, SaveObservationEffect
    <2>3. ASSUME NEW c \in 1..MaxCycles, NEW i \in DOMAIN observations[c]
          PROVE  /\ i \in DOMAIN observations'[c]
                 /\ observations'[c][i] = observations[c][i]
      <3>1. observations[c] \in Seq(ObsRow) /\ observations[at[w]] \in Seq(ObsRow)
        BY <1>0, <2>1 DEF TablesOK
      <3>2. observations'[c] = IF c = at[w]
                               THEN Append(observations[c], [fp |-> fp, ev |-> 0])
                               ELSE observations[c]
        BY <1>0, <2>1, <2>2 DEF TablesOK
      <3>3. QED BY <2>3, <3>1, <3>2
    <2>4. measured' = measured
      BY <1>0, <1>2, SaveObservationEffect
    <2>5. QED BY <1>1, <2>3, <2>4 DEF Prints
  <1>3. CASE SaveObservationEvidence(w)
    <2> DEFINE c0 == at[w]
               i0 == ob[w].i
               e0 == ob[w].ev
    <2>1. c0 \in 1..MaxCycles /\ i0 \in 1..Len(observations[c0])
      BY <1>3, AtHand DEF SaveObservationEvidence, Unbound, Shape, Carried
    <2>2. observations' = [observations EXCEPT ![c0][i0].ev = e0]
      BY <1>0, <1>3, SaveObservationEvidenceEffect
    <2> HIDE DEF c0, i0, e0
    <2>3. ASSUME NEW c \in 1..MaxCycles, NEW i \in DOMAIN observations[c]
          PROVE  /\ i \in DOMAIN observations'[c]
                 /\ observations'[c][i].fp = observations[c][i].fp
      <3>1. /\ observations[c] \in Seq(ObsRow)
            /\ observations[c][i] \in ObsRow
        BY <1>0, <2>3 DEF TablesOK
      <3>2. observations'[c] =
               IF c = c0
               THEN [observations[c] EXCEPT ![i0] = [@ EXCEPT !.ev = e0]]
               ELSE observations[c]
        BY <1>0, <2>1, <2>2 DEF TablesOK
      <3>3. observations'[c][i] = IF c = c0 /\ i = i0
                                  THEN [observations[c][i] EXCEPT !.ev = e0]
                                  ELSE observations[c][i]
        BY <2>1, <2>3, <3>1, <3>2
      <3>4. DOMAIN observations'[c] = DOMAIN observations[c]
        BY <3>1, <3>2
      <3>5. QED BY <2>3, <3>1, <3>3, <3>4 DEF ObsRow
    <2>4. measured' = measured
      BY <1>0, <1>3, SaveObservationEvidenceEffect
    <2>5. QED BY <1>1, <2>3, <2>4 DEF Prints
  <1>4. CASE ~SaveObservation(w) /\ ~SaveObservationEvidence(w)
    <2>1. observations' = observations /\ measured \subseteq measured'
      <3> USE DEF tables
      <3>1. CASE Start(w) \/ Gate(w) \/ CreateCheck(w) \/ InsertCycle(w) \/ Look(w) \/
                   Collect(w) \/ Reserve(w) \/ Capture(w)
        BY <3>1 DEF Start, Gate, CreateCheck, InsertCycle, Look, Collect,
                      Reserve, Capture
      <3>2. CASE RecordCheck(w) \/ Reconcile(w) \/ SaveEvidence(w) \/ Advance(w) \/
                   SaveObserved(w) \/ RunStart(w) \/ ObserveRun(w) \/ Deadline(w)
        BY <3>2 DEF RecordCheck, Reconcile, SaveEvidence, Advance,
                      SaveObserved, RunStart, ObserveRun, Deadline
      <3>3. CASE TerminateCheck(w) \/ TerminateMission(w) \/ TerminateCycle(w) \/
                   PlannerFails(w) \/ Assess(w) \/ Strategize(w) \/ SaveMission(w) \/
                   SaveStage(w)
        BY <3>3 DEF TerminateCheck, TerminateMission, TerminateCycle,
                      PlannerFails, Abort, Assess, Plan, Strategize,
                      SaveMission, SaveStage
      <3>4. CASE ReRead(w) \/ LoadExecution(w) \/ Verify(w) \/ Measure(w) \/
                   MeasurementEvent(w) \/ LoadMeasurement(w) \/ Adapt(w) \/
                   AdaptMission(w)
        BY <3>4 DEF ReRead, LoadExecution, Verify, Measure, MeasurementEvent,
                      LoadMeasurement, Adapt, AdaptMission
      <3>5. CASE AdaptCycle(w) \/ ReconcileExecution(w) \/ FindRunning(w) \/
                   Interrupt(w) \/ SelectExecutor(w) \/ Claim(w) \/ Invoke(w) \/
                   FinishExecution(w)
        BY <3>5 DEF AdaptCycle, ReconcileExecution, FindRunning, Interrupt,
                      SelectExecutor, Claim, Invoke, FinishExecution
      <3>6. CASE RecordExecution(w) \/ Crash(w)
        BY <3>6 DEF RecordExecution, Crash
      <3>7. QED BY <1>4, <3>1, <3>2, <3>3, <3>4, <3>5, <3>6
         DEF WorkerStep, GateStep, ObserverStep, RunnerStep, DispatcherStep
    <2>2. QED BY <1>1, <2>1 DEF Prints
  <1>5. QED BY <1>2, <1>3, <1>4

\* A worker that does not move keeps what it is entitled to.
LEMMA EntitledElsewhere ==
  ASSUME Shape, Grows, NEW v \in Workers, Entitled(v),
         pc'[v] = pc[v], ret'[v] = ret[v], at'[v] = at[v], crow'[v] = crow[v],
         ob'[v] = ob[v]
  PROVE  Entitled(v)'
  <1>1. pc[v] \notin Unbound => Prints[at[v]] \subseteq Prints'[at[v]]
    BY AtHand DEF Grows
  <1>2. measured \subseteq measured' /\ Late \subseteq Late' /\ Ended \subseteq Ended'
    BY DEF Grows, Ended
  <1>3. QED BY <1>1, <1>2 DEF Entitled, Unbound, Reconciling, Recording

\* A row saved whole completes its cycle only where that is due.
LEMMA CompletionKept ==
  ASSUME Shape, Shape', CompletedMeansMeasured, Grows, NEW w \in Workers,
         Entitled(w), Saves(w)
  PROVE  CompletedMeansMeasured'
  <1>1. TablesOK /\ TablesOK' /\ Ended \subseteq Ended'
    BY DEF Shape, TypeOK, Grows, Ended
  <1>2. \A c \in 1..Len(cycles) : cycles[c].done => c \in Ended'
    BY <1>1, CompletedAreEnded
  <1>3. pc[w] \notin Unbound => /\ at[w] \in 1..Len(cycles)
                                /\ crow[w].done => at[w] \in Ended'
    BY <1>1, AtHand DEF Entitled
  <1>4. cycles \in Seq(CycleRow) /\ Len(cycles) \in Nat
    BY <1>1 DEF TablesOK
  <1>5. ASSUME NEW c \in 1..Len(cycles'), cycles'[c].done PROVE c \in Ended'
    <2>1. CASE cycles' = cycles
      BY <1>2, <1>5, <2>1
    <2>2. CASE cycles' = Append(cycles, NewCycle)
      <3>1. cycles'[c] = IF c = Len(cycles) + 1 THEN NewCycle ELSE cycles[c]
        BY <1>4, <1>5, <2>2
      <3>2. c \in 1..Len(cycles)
        BY <1>4, <1>5, <2>2, <3>1 DEF NewCycle
      <3>3. cycles'[c] = cycles[c]
        BY <1>4, <3>1, <3>2
      <3>4. QED BY <1>2, <1>5, <3>2, <3>3
    <2>3. CASE pc[w] \notin Unbound /\ cycles' = [cycles EXCEPT ![at[w]] = crow[w]]
      <3>1. c \in 1..Len(cycles)
        BY <1>3, <1>4, <1>5, <2>3
      <3>2. cycles'[c] = IF c = at[w] THEN crow[w] ELSE cycles[c]
        BY <1>3, <1>4, <2>3, <3>1
      <3>3. QED BY <1>2, <1>3, <1>5, <2>3, <3>1, <3>2
    <2>4. QED BY <2>1, <2>2, <2>3 DEF Saves
  <1>6. \A c \in 1..Len(cycles') : c \in 1..MaxCycles
    BY <1>1, CycleAssumption DEF TablesOK
  <1>7. \A c \in 1..MaxCycles :
           c \in Late' <=>
             \E i \in DOMAIN observations'[c] : observations'[c][i].fp.expired
    BY DEF Late, Prints
  <1>8. QED BY <1>5, <1>6, <1>7 DEF CompletedMeansMeasured, Ended


\* A worker that has gone carries no outcome.
LEMMA ExitOutcome ==
  ASSUME WorkersOK, NEW w \in Workers, Exit(w) PROVE Outcome(w)'
  BY DEF WorkersOK, Exit, Forget, Goto, Outcome, Unbound, Opening, Reconciling,
     Recording

\* A worker's own step keeps its outcome in line with the execution row.
LEMMA WorkerOutcome ==
  ASSUME IInv, Verified, NEW w \in Workers, Outcome(w), ProcIdentity,
         Entitled(w), WorkerStep(w) \/ PlannerFails(w) \/ Crash(w)
  PROVE  Outcome(w)'
  <1> USE CycleAssumption
  <1>0. /\ WorkersOK /\ TablesOK
        /\ pc[w] \notin Unbound =>
              /\ at[w] \in 1..Len(cycles) /\ at[w] \in 1..MaxCycles
              /\ cycles[at[w]] \in CycleRow
              /\ cycles[at[w]].verified = "yes" => at[w] \in Succeeded
              /\ at[w] \in Succeeded <=> execs[at[w]].status = "SUCCEEDED"
        /\ pc[w] \in {"create", "insert"} => ret[w] \in {"look", "observe", "idle"}
        /\ pc[w] \in Recording \cup Reconciling => ret[w] \in {"reserve", "deadline"}
    BY AtHand DEF IInv, Verified, Succeeded, Entitled
  <1>00. /\ Still => execs' = execs /\ ran' = ran
         /\ execs' = execs => Succeeded' = Succeeded
    BY DEF Still, Succeeded
  <1>000. Incomplete => /\ Len(cycles) \in 1..MaxCycles
                        /\ cycles[Len(cycles)].verified = "yes" =>
                              Len(cycles) \in Succeeded
    <2>1. cycles \in Seq(CycleRow) /\ Len(cycles) <= MaxCycles
      BY <1>0 DEF TablesOK
    <2>2. Incomplete => Len(cycles) \in 1..Len(cycles)
      BY <2>1 DEF Incomplete
    <2>3. QED BY <2>1, <2>2 DEF Verified
  <1> USE <1>0, <1>00 DEF Outcome, Unbound, Opening, Reconciling, Recording
  <1>1. CASE Start(w)
    BY <1>1, StartEffect
       DEF At
  <1>2. CASE Gate(w)
    <2>1. CASE Exit(w)
      BY <2>1, ExitOutcome
    <2>2. CASE ~Exit(w)
      BY <1>2, <1>000, <2>2, GateEffect DEF At
    <2>3. QED BY <2>1, <2>2
  <1>3. CASE CreateCheck(w)
    <2>1. CASE Exit(w)
      BY <2>1, ExitOutcome
    <2>2. CASE ~Exit(w)
      BY <1>3, <2>2, CreateCheckEffect
         DEF At
    <2>3. QED BY <2>1, <2>2
  <1>4. CASE InsertCycle(w)
    <2>1. CASE Exit(w)
      BY <2>1, ExitOutcome
    <2>2. CASE ~Exit(w)
      BY <1>4, <2>2, InsertCycleEffect
         DEF At, NewCycle
    <2>3. QED BY <2>1, <2>2
  <1>5. CASE Look(w)
    <2>1. CASE Exit(w)
      BY <2>1, ExitOutcome
    <2>2. CASE ~Exit(w)
      BY <1>5, <2>2, LookEffect
         DEF At
    <2>3. QED BY <2>1, <2>2
  <1>6. CASE Collect(w)
    <2>1. CASE Exit(w)
      BY <2>1, ExitOutcome
    <2>2. CASE ~Exit(w)
      BY <1>6, <2>2, CollectEffect
         DEF At
    <2>3. QED BY <2>1, <2>2
  <1>7. CASE Reserve(w)
    BY <1>7, ReserveEffect
       DEF At
  <1>8. CASE Capture(w)
    <2>1. CASE Exit(w)
      BY <2>1, ExitOutcome
    <2>2. CASE ~Exit(w)
      BY <1>8, <2>2, CaptureEffect
         DEF At
    <2>3. QED BY <2>1, <2>2
  <1>9. CASE RecordCheck(w)
    <2>1. CASE Exit(w)
      BY <2>1, ExitOutcome
    <2>2. CASE ~Exit(w)
      BY <1>9, <2>2, RecordCheckEffect
         DEF At
    <2>3. QED BY <2>1, <2>2
  <1>10. CASE SaveObservation(w)
    BY <1>10, SaveObservationEffect
       DEF At
  <1>11. CASE Reconcile(w)
    BY <1>11, ReconcileEffect
       DEF At
  <1>12. CASE SaveEvidence(w)
    BY <1>12, SaveEvidenceEffect
       DEF At
  <1>13. CASE SaveObservationEvidence(w)
    BY <1>13, SaveObservationEvidenceEffect
       DEF At
  <1>14. CASE Advance(w)
    <2>1. CASE Exit(w)
      BY <2>1, ExitOutcome
    <2>2. CASE ~Exit(w)
      <3>1. crow'[w].verified \in {crow[w].verified, cycles[at[w]].verified}
        <4>1. \/ crow'[w] = crow[w]
              \/ crow'[w] = [cycles[at[w]] EXCEPT !.stage = "ASSESS",
                                    !.obs = ob[w].i, !.ev = ob[w].ev]
          BY <1>14, <2>2, AdvanceEffect DEF At
        <4>2. cycles[at[w]] \in CycleRow
          BY <1>14 DEF Advance
        <4>3. QED BY <4>1, <4>2 DEF CycleRow
      <3>2. QED BY <1>14, <2>2, <3>1, AdvanceEffect DEF At
    <2>3. QED BY <2>1, <2>2
  <1>15. CASE SaveObserved(w)
    BY <1>15, SaveObservedEffect
       DEF At
  <1>16. CASE RunStart(w)
    <2>1. CASE Exit(w)
      BY <2>1, ExitOutcome
    <2>2. CASE ~Exit(w)
      BY <1>16, <1>000, <2>2, RunStartEffect DEF At
    <2>3. QED BY <2>1, <2>2
  <1>17. CASE ObserveRun(w)
    <2>1. CASE Exit(w)
      BY <2>1, ExitOutcome
    <2>2. CASE ~Exit(w)
      BY <1>17, <2>2, ObserveRunEffect
         DEF At
    <2>3. QED BY <2>1, <2>2
  <1>18. CASE Deadline(w)
    BY <1>18, DeadlineEffect
       DEF At
  <1>19. CASE TerminateCheck(w)
    <2>1. CASE Exit(w)
      BY <2>1, ExitOutcome
    <2>2. CASE ~Exit(w)
      <3>1. crow'[w].verified = cycles[at[w]].verified
        BY <1>19, <2>2, TerminateCheckEffect DEF At, CycleRow
      <3>2. QED BY <1>19, <2>2, <3>1, TerminateCheckEffect DEF At
    <2>3. QED BY <2>1, <2>2
  <1>20. CASE TerminateMission(w)
    BY <1>20, TerminateMissionEffect
       DEF At
  <1>21. CASE TerminateCycle(w)
    BY <1>21, ExitOutcome
       DEF TerminateCycle, Goto, locals, tables
  <1>22. CASE PlannerFails(w)
    BY <1>22, ExitOutcome
       DEF PlannerFails, Abort, Goto, locals, tables
  <1>23. CASE Assess(w)
    <2>1. CASE Exit(w)
      BY <2>1, ExitOutcome
    <2>2. CASE ~Exit(w)
      <3>1. crow'[w].verified = cycles[at[w]].verified
        <4>1. crow'[w] = [cycles[at[w]] EXCEPT !.stage = "STRATEGIZE"]
          BY <1>23, <2>2, AssessEffect DEF At
        <4>2. cycles[at[w]] \in CycleRow
          BY <1>23 DEF Assess, Plan
        <4>3. QED BY <4>1, <4>2 DEF CycleRow
      <3>2. QED BY <1>23, <2>2, <3>1, AssessEffect DEF At
    <2>3. QED BY <2>1, <2>2
  <1>24. CASE Strategize(w)
    <2>1. CASE Exit(w)
      BY <2>1, ExitOutcome
    <2>2. CASE ~Exit(w)
      <3>1. crow'[w].verified = cycles[at[w]].verified
        <4>1. crow'[w] = [cycles[at[w]] EXCEPT !.stage = "EXECUTE"]
          BY <1>24, <2>2, StrategizeEffect DEF At
        <4>2. cycles[at[w]] \in CycleRow
          BY <1>24 DEF Strategize, Plan
        <4>3. QED BY <4>1, <4>2 DEF CycleRow
      <3>2. QED BY <1>24, <2>2, <3>1, StrategizeEffect DEF At
    <2>3. QED BY <2>1, <2>2
  <1>25. CASE SaveMission(w)
    BY <1>25, SaveMissionEffect
       DEF At
  <1>26. CASE SaveStage(w)
    BY <1>26, SaveStageEffect
       DEF At
  <1>27. CASE ReRead(w)
    <2>1. CASE Exit(w)
      BY <2>1, ExitOutcome
    <2>2. CASE ~Exit(w)
      BY <1>27, <2>2, ReReadEffect
         DEF At
    <2>3. QED BY <2>1, <2>2
  <1>28. CASE LoadExecution(w)
    <2>1. CASE Exit(w)
      BY <2>1, ExitOutcome
    <2>2. CASE ~Exit(w)
      BY <1>28, <2>2, LoadExecutionEffect
         DEF At
    <2>3. QED BY <2>1, <2>2
  <1>29. CASE Verify(w)
    <2>1. CASE Exit(w)
      BY <2>1, ExitOutcome
    <2>2. CASE ~Exit(w)
      <3>1. crow'[w].verified = IF xr[w] = "SUCCEEDED" THEN "yes" ELSE "no"
        BY <1>29, <2>2, VerifyEffect DEF At, CycleRow
      <3>2. QED BY <1>29, <2>2, <3>1, VerifyEffect DEF At
    <2>3. QED BY <2>1, <2>2
  <1>30. CASE Measure(w)
    <2>1. CASE Exit(w)
      BY <2>1, ExitOutcome
    <2>2. CASE ~Exit(w)
      <3>1. crow'[w].verified = cycles[at[w]].verified
        <4>1. crow'[w] = [cycles[at[w]] EXCEPT !.stage = "ADAPT"]
          BY <1>30, <2>2, MeasureEffect DEF At
        <4>2. cycles[at[w]] \in CycleRow
          BY <1>30 DEF Measure
        <4>3. QED BY <4>1, <4>2 DEF CycleRow
      <3>2. QED BY <1>30, <2>2, <3>1, MeasureEffect DEF At
    <2>3. QED BY <2>1, <2>2
  <1>31. CASE MeasurementEvent(w)
    BY <1>31, MeasurementEventEffect
       DEF At
  <1>32. CASE LoadMeasurement(w)
    <2>1. CASE Exit(w)
      BY <2>1, ExitOutcome
    <2>2. CASE ~Exit(w)
      BY <1>32, <2>2, LoadMeasurementEffect
         DEF At
    <2>3. QED BY <2>1, <2>2
  <1>33. CASE Adapt(w)
    <2>1. CASE Exit(w)
      BY <2>1, ExitOutcome
    <2>2. CASE ~Exit(w)
      <3>1. crow'[w].verified = cycles[at[w]].verified
        <4>1. crow'[w] = [cycles[at[w]] EXCEPT !.done = TRUE]
          BY <1>33, <2>2, AdaptEffect DEF At
        <4>2. cycles[at[w]] \in CycleRow
          BY <1>33 DEF Adapt
        <4>3. QED BY <4>1, <4>2 DEF CycleRow
      <3>2. QED BY <1>33, <2>2, <3>1, AdaptEffect DEF At
    <2>3. QED BY <2>1, <2>2
  <1>34. CASE AdaptMission(w)
    BY <1>34, AdaptMissionEffect
       DEF At
  <1>35. CASE AdaptCycle(w)
    <2>1. CASE Exit(w)
      BY <2>1, ExitOutcome
    <2>2. CASE ~Exit(w)
      BY <1>35, <2>2, AdaptCycleEffect
         DEF At
    <2>3. QED BY <2>1, <2>2
  <1>36. CASE ReconcileExecution(w)
    <2>1. crow'[w].verified \in {crow[w].verified, cycles[at[w]].verified}
      <3>1. \/ crow'[w] = crow[w]
            \/ crow'[w] = RecordRow(at[w], execs[at[w]].status)
        BY <1>36, ReconcileExecutionEffect DEF At
      <3>2. cycles[at[w]] \in CycleRow
        BY <1>36 DEF ReconcileExecution
      <3>3. RecordRow(at[w], execs[at[w]].status).verified =
               cycles[at[w]].verified
        BY <3>2 DEF CycleRow, RecordRow
      <3>4. QED BY <3>1, <3>3
    <2>2. QED BY <1>36, <2>1, ReconcileExecutionEffect DEF At
  <1>37. CASE FindRunning(w)
    <2>1. CASE Exit(w)
      BY <2>1, ExitOutcome
    <2>2. CASE ~Exit(w)
      BY <1>37, <2>2, FindRunningEffect
         DEF At, MayBeInterrupted
    <2>3. QED BY <2>1, <2>2
  <1>38. CASE Interrupt(w)
    BY <1>38, InterruptEffect
       DEF At, Exec
  <1>39. CASE SelectExecutor(w)
    <2>1. CASE Exit(w)
      BY <2>1, ExitOutcome
    <2>2. CASE ~Exit(w)
      BY <1>39, <2>2, SelectExecutorEffect
         DEF At
    <2>3. QED BY <2>1, <2>2
  <1>40. CASE Claim(w)
    <2>1. CASE Exit(w)
      BY <2>1, ExitOutcome
    <2>2. CASE ~Exit(w)
      <3>1. /\ execs[at[w]].status = "NONE" /\ at[w] \in 1..MaxCycles
            /\ execs' = [execs EXCEPT
                            ![at[w]] = [status |-> "RUNNING", owner |-> w]]
        BY <1>40, <2>2 DEF Claim
      <3>2. at[w] \notin Succeeded
        BY <3>1 DEF Succeeded
      <3>3. execs \in [1..MaxCycles -> ExecRow]
        BY DEF TablesOK
      <3>4. execs'[at[w]] = [status |-> "RUNNING", owner |-> w]
        BY ONLY <3>1, <3>3
      <3>5. execs'[at[w]].status = "RUNNING" /\ execs'[at[w]].owner = w
        BY ONLY <3>4
      <3>6. QED BY <1>40, <2>2, <3>2, <3>5, ClaimEffect DEF At
    <2>3. QED BY <2>1, <2>2
  <1>41. CASE Invoke(w)
    <2>1. ran[at[w]] = 0 /\ at[w] \in 1..MaxCycles /\ at[w] \notin Succeeded
      BY <1>41 DEF Invoke, IInv, Claimed
    <2>2. ran'[at[w]] = 1
      BY <1>41, <2>1, InvokeEffect DEF IInv, Shape, TypeOK
    <2>3. QED BY <1>41, <2>1, <2>2, InvokeEffect DEF At
  <1>42. CASE FinishExecution(w)
    <2>1. at[w] \in 1..MaxCycles /\ at[w] \notin Succeeded
      BY <1>42 DEF FinishExecution
    <2>2. execs'[at[w]].status = xr[w]
      <3>1. execs' = [execs EXCEPT ![at[w]] = Exec(xr[w])]
        BY <1>42, FinishExecutionEffect
      <3>2. execs'[at[w]] = Exec(xr[w])
        BY <2>1, <3>1 DEF TablesOK
      <3>3. QED BY <3>2 DEF Exec
    <2>3. xr[w] = "SUCCEEDED" => at[w] \in Succeeded'
      BY <2>1, <2>2 DEF Succeeded
    <2>4. QED BY <1>42, <2>1, <2>3, FinishExecutionEffect DEF At
  <1>43. CASE RecordExecution(w)
    <2>1. CASE Exit(w)
      BY <2>1, ExitOutcome
    <2>2. CASE ~Exit(w)
      <3>1. crow'[w].verified = cycles[at[w]].verified
        <4>1. crow'[w] = RecordRow(at[w], xr[w])
          BY <1>43, <2>2, RecordExecutionEffect DEF At
        <4>2. cycles[at[w]] \in CycleRow
          BY <1>43 DEF RecordExecution
        <4>3. QED BY <4>1, <4>2 DEF CycleRow, RecordRow
      <3>2. QED BY <1>43, <2>2, <3>1, RecordExecutionEffect DEF At
    <2>3. QED BY <2>1, <2>2
  <1>44. CASE Crash(w)
    BY <1>44, ExitOutcome
       DEF Crash, Goto, locals, tables
  <1>45. QED BY <1>1, <1>2, <1>3, <1>4, <1>5, <1>6, <1>7, <1>8, <1>9, <1>10,
                  <1>11, <1>12, <1>13, <1>14, <1>15, <1>16, <1>17, <1>18,
                  <1>19, <1>20, <1>21, <1>22, <1>23, <1>24, <1>25, <1>26,
                  <1>27, <1>28, <1>29, <1>30, <1>31, <1>32, <1>33, <1>34,
                  <1>35, <1>36, <1>37, <1>38, <1>39, <1>40, <1>41, <1>42,
                  <1>43, <1>44
     DEF WorkerStep, GateStep, ObserverStep, RunnerStep, DispatcherStep

\* A worker that does not move keeps its outcome when its execution row is not
\* touched, or only where another interrupted it.
LEMMA OutcomeElsewhere ==
  ASSUME Shape, NEW v \in Workers, Outcome(v), Succeeded \subseteq Succeeded',
         pc'[v] = pc[v], ret'[v] = ret[v], at'[v] = at[v], crow'[v] = crow[v],
         xr'[v] = xr[v],
         pc[v] \in {"invoke", "finish"} => execs'[at[v]] = execs[at[v]],
         pc[v] = "finish" => ran'[at[v]] = ran[at[v]],
         pc[v] = "interrupt" => execs'[at[v]] \in {execs[at[v]], Exec("FAILED")}
  PROVE  Outcome(v)'
  BY DEF Outcome, Exec

\* The five writers of an execution row leave the other workers' rows alone.
LEMMA OthersOutcome ==
  ASSUME Shape, Claimed, ProcIdentity, NEW w \in Workers,
         \A v \in Workers : Outcome(v),
         WorkerStep(w) \/ PlannerFails(w) \/ Crash(w)
  PROVE  /\ Succeeded \subseteq Succeeded'
         /\ \A v \in Workers \ {w} : Outcome(v)'
  <1> USE CycleAssumption
  <1>0. WorkersOK /\ TablesOK /\ Outcome(w) /\ Frame(w)
    BY WorkerFrame DEF Shape, TypeOK
  <1>1. \A v \in Workers : pc[v] \notin Unbound => at[v] \in 1..MaxCycles
    BY AtHand
  <1> DEFINE Apart(v) ==
         /\ pc[v] \in {"invoke", "finish"} => execs'[at[v]] = execs[at[v]]
         /\ pc[v] = "finish" => ran'[at[v]] = ran[at[v]]
         /\ pc[v] = "interrupt" =>
               execs'[at[v]] \in {execs[at[v]], Exec("FAILED")}
  <1>2. ASSUME Succeeded \subseteq Succeeded', \A v \in Workers \ {w} : Apart(v)
        PROVE  \A v \in Workers \ {w} : Outcome(v)'
    BY <1>0, <1>2, OutcomeElsewhere DEF Frame
  <1>3. \A v \in Workers \ {w} :
           /\ pc[v] \in {"invoke", "finish"} =>
                 /\ at[v] \in 1..MaxCycles
                 /\ execs[at[v]].status = "RUNNING" /\ execs[at[v]].owner = v
           /\ pc[v] = "interrupt" =>
                 /\ at[v] \in 1..MaxCycles
                 /\ execs[at[v]].status \in {"RUNNING", "FAILED"}
                 /\ execs[at[v]].owner = Nobody
    BY <1>1 DEF Outcome, Unbound
  <1>4. CASE Claim(w) /\ execs' # execs
    <2>1. /\ execs[at[w]].status = "NONE" /\ at[w] \in 1..MaxCycles
          /\ execs' = [execs EXCEPT
                          ![at[w]] = [status |-> "RUNNING", owner |-> w]]
          /\ ran' = ran
      BY <1>1, <1>4 DEF Claim, Unbound
    <2>2. \A c \in 1..MaxCycles : c # at[w] => execs'[c] = execs[c]
      BY <1>0, <2>1 DEF TablesOK
    <2>3. Succeeded \subseteq Succeeded'
      BY <2>1, <2>2 DEF Succeeded
    <2>4. ASSUME NEW v \in Workers \ {w} PROVE Apart(v)
      BY <1>3, <2>1, <2>2
    <2>5. QED BY <1>2, <2>3, <2>4
  <1>5. CASE Invoke(w)
    <2>1. /\ execs' = execs /\ at[w] \in 1..MaxCycles
          /\ ran' = [ran EXCEPT ![at[w]] = @ + 1]
          /\ execs[at[w]].owner = w
      BY <1>0, <1>1, <1>5, InvokeEffect DEF Unbound, Outcome
    <2>2. \A c \in 1..MaxCycles : c # at[w] => ran'[c] = ran[c]
      BY <2>1 DEF Shape, TypeOK
    <2>3. Succeeded \subseteq Succeeded'
      BY <2>1 DEF Succeeded
    <2>4. ASSUME NEW v \in Workers \ {w} PROVE Apart(v)
      BY <1>3, <2>1, <2>2
    <2>5. QED BY <1>2, <2>3, <2>4
  <1>6. CASE FinishExecution(w)
    <2>1. /\ at[w] \in 1..MaxCycles /\ ran' = ran
          /\ execs' = [execs EXCEPT ![at[w]] = Exec(xr[w])]
          /\ execs[at[w]].owner = w /\ execs[at[w]].status = "RUNNING"
      BY <1>0, <1>1, <1>6, FinishExecutionEffect DEF Unbound, Outcome
    <2>2. \A c \in 1..MaxCycles : c # at[w] => execs'[c] = execs[c]
      BY <1>0, <2>1 DEF TablesOK
    <2>3. Succeeded \subseteq Succeeded'
      BY <2>1, <2>2 DEF Succeeded
    <2>4. ASSUME NEW v \in Workers \ {w} PROVE Apart(v)
      BY <1>3, <2>1, <2>2
    <2>5. QED BY <1>2, <2>3, <2>4
  <1>7. CASE Interrupt(w)
    <2>1. /\ at[w] \in 1..MaxCycles /\ ran' = ran
          /\ execs' = [execs EXCEPT ![at[w]] = Exec("FAILED")]
          /\ execs[at[w]].owner = Nobody /\ execs[at[w]].status # "SUCCEEDED"
      BY <1>0, <1>1, <1>7, InterruptEffect DEF Unbound, Outcome
    <2>2. /\ \A c \in 1..MaxCycles : c # at[w] => execs'[c] = execs[c]
          /\ execs'[at[w]] = Exec("FAILED")
      BY <1>0, <2>1 DEF TablesOK
    <2>3. Succeeded \subseteq Succeeded'
      BY <2>1, <2>2 DEF Succeeded
    <2>4. ASSUME NEW v \in Workers \ {w} PROVE Apart(v)
      BY <1>3, <2>1, <2>2
    <2>5. QED BY <1>2, <2>3, <2>4
  <1>8. CASE Crash(w)
    <2>1. /\ ran' = ran
          /\ \A c \in 1..MaxCycles :
                execs'[c] = IF execs[c].owner = w
                            THEN [execs[c] EXCEPT !.owner = Nobody] ELSE execs[c]
      BY <1>8 DEF Crash
    <2>2. \A c \in 1..MaxCycles : execs'[c].status = execs[c].status
      BY <1>0, <2>1 DEF TablesOK, ExecRow
    <2>3. Succeeded \subseteq Succeeded'
      BY <2>2 DEF Succeeded
    <2>4. \A c \in 1..MaxCycles : execs[c].owner # w => execs'[c] = execs[c]
      BY <2>1
    <2>5. ASSUME NEW v \in Workers \ {w} PROVE Apart(v)
      BY <1>3, <2>1, <2>4
    <2>6. QED BY <1>2, <2>3, <2>5
  <1>9. CASE execs' = execs /\ ran' = ran
    <2>1. Succeeded \subseteq Succeeded'
      BY <1>9 DEF Succeeded
    <2>2. ASSUME NEW v \in Workers \ {w} PROVE Apart(v)
      BY <1>9
    <2>3. QED BY <1>2, <2>1, <2>2
  <1>10. Claim(w) => ran' = ran
    BY DEF Claim
  <1>11. QED BY <1>4, <1>5, <1>6, <1>7, <1>8, <1>9, <1>10, WorkerStepIsQuiet

\* A row saved whole says verified only where an execution succeeded, and an
\* execution that succeeded has run.
LEMMA VerificationKept ==
  ASSUME IInv, Verified, ProcIdentity, NEW w \in Workers, Outcome(w), Saves(w),
         Succeeded \subseteq Succeeded',
         WorkerStep(w) \/ PlannerFails(w) \/ Crash(w)
  PROVE  Verified'
  <1>0. Shape /\ TablesOK /\ WorkersOK /\ ran \in [1..MaxCycles -> Nat]
    BY DEF IInv, Shape, TypeOK
  <1>1. cycles \in Seq(CycleRow) /\ Len(cycles) \in Nat
    BY <1>0 DEF TablesOK
  <1>2. pc[w] \notin Unbound =>
           /\ at[w] \in 1..Len(cycles) /\ at[w] \in 1..MaxCycles
           /\ crow[w].verified = "yes" => at[w] \in Succeeded
    BY <1>0, AtHand DEF Outcome
  <1>3. ASSUME NEW c \in 1..Len(cycles'), cycles'[c].verified = "yes"
        PROVE  c \in Succeeded'
    <2>1. CASE cycles' = cycles
      BY <1>3, <2>1 DEF Verified
    <2>2. CASE cycles' = Append(cycles, NewCycle)
      <3>1. cycles'[c] = IF c = Len(cycles) + 1 THEN NewCycle ELSE cycles[c]
        BY <1>1, <1>3, <2>2
      <3>2. c \in 1..Len(cycles)
        BY <1>1, <1>3, <2>2, <3>1 DEF NewCycle
      <3>3. cycles'[c] = cycles[c]
        BY <1>1, <3>1, <3>2
      <3>4. QED BY <1>3, <3>2, <3>3 DEF Verified
    <2>3. CASE pc[w] \notin Unbound /\ cycles' = [cycles EXCEPT ![at[w]] = crow[w]]
      <3>1. c \in 1..Len(cycles)
        BY <1>1, <1>2, <1>3, <2>3
      <3>2. cycles'[c] = IF c = at[w] THEN crow[w] ELSE cycles[c]
        BY <1>1, <1>2, <2>3, <3>1
      <3>3. QED BY <1>2, <1>3, <2>3, <3>1, <3>2 DEF Verified
    <2>4. QED BY <2>1, <2>2, <2>3 DEF Saves
  <1>4. ASSUME NEW c \in Succeeded' PROVE ran'[c] = 1
    <2>1. c \in 1..MaxCycles /\ execs'[c].status = "SUCCEEDED"
      BY <1>4 DEF Succeeded
    <2>2. CASE Invoke(w)
      <3>1. /\ execs' = execs /\ at[w] \in 1..MaxCycles
            /\ ran' = [ran EXCEPT ![at[w]] = @ + 1] /\ ran[at[w]] = 0
        BY <1>0, <1>2, <2>2, InvokeEffect DEF Unbound, IInv, Claimed
      <3>2. ran[c] = 1
        BY <2>1, <3>1 DEF Succeeded, Verified
      <3>3. QED BY <1>0, <2>1, <3>1, <3>2
    <2>3. CASE ~Invoke(w)
      <3>1. ran' = ran
        BY <1>0, <2>3, WorkerStepIsQuiet
           DEF Claim, FinishExecution, Interrupt, Crash
      <3>2. CASE FinishExecution(w)
        <4>1. /\ at[w] \in 1..MaxCycles /\ ran[at[w]] = 1
              /\ execs' = [execs EXCEPT ![at[w]] = Exec(xr[w])]
          BY <1>0, <1>2, <3>2, FinishExecutionEffect DEF Unbound, Outcome
        <4>2. c # at[w] => execs'[c] = execs[c]
          BY <1>0, <2>1, <4>1 DEF TablesOK
        <4>3. QED BY <2>1, <3>1, <4>1, <4>2 DEF Succeeded, Verified
      <3>3. CASE ~FinishExecution(w)
        <4>1. execs[c].status = "SUCCEEDED"
          <5>1. CASE Claim(w)
            <6>1. CASE execs' = execs
              BY <2>1, <6>1
            <6>2. CASE execs' = [execs EXCEPT
                              ![at[w]] = [status |-> "RUNNING", owner |-> w]]
              <7>1. at[w] \in 1..MaxCycles
                BY <1>2, <5>1 DEF Claim, Unbound
              <7>2. execs'[at[w]].status = "RUNNING"
                BY <1>0, <6>2, <7>1 DEF TablesOK
              <7>3. QED BY <1>0, <2>1, <6>2, <7>1, <7>2 DEF TablesOK
            <6>3. QED BY <5>1, <6>1, <6>2 DEF Claim
          <5>2. CASE Interrupt(w)
            BY <1>0, <1>2, <2>1, <5>2 DEF Interrupt, TablesOK, Unbound, Exec
          <5>3. CASE Crash(w)
            BY <1>0, <2>1, <5>3 DEF Crash, TablesOK, ExecRow
          <5>4. QED BY <1>0, <2>1, <2>3, <3>3, <5>1, <5>2, <5>3,
                       WorkerStepIsQuiet
        <4>2. QED BY <2>1, <3>1, <4>1 DEF Succeeded, Verified
      <3>4. QED BY <3>2, <3>3
    <2>4. QED BY <2>2, <2>3
  <1>5. QED BY <1>3, <1>4 DEF Verified


\* The initial states.
LEMMA InitSound == Init => Sound
  <1> SUFFICES ASSUME Init PROVE Sound
    OBVIOUS
  <1>1. IInv
    BY InitShape DEF Init, IInv, Claimed, ExecutedAtMostOnce, Exec
  <1>2. cycles = <<>> /\ Succeeded = {}
    BY DEF Init, Succeeded, Exec
  <1>3. CompletedMeansMeasured /\ Verified
    BY <1>2 DEF CompletedMeansMeasured, Verified
  <1>4. ASSUME NEW w \in Workers PROVE Entitled(w) /\ Outcome(w)
    BY DEF Init, Entitled, Outcome, Unbound, Reconciling, Recording, Opening
  <1>5. QED BY <1>1, <1>3, <1>4 DEF Sound

\* Every step keeps the invariant of every overlap.
LEMMA NextSound == Sound /\ [Next]_vars => Sound'
  <1> SUFFICES ASSUME Sound, [Next]_vars PROVE Sound'
    OBVIOUS
  <1>0. /\ IInv /\ Shape /\ CompletedMeansMeasured
        /\ \A w \in Workers : Entitled(w)
        /\ ProcIdentity => Verified /\ \A w \in Workers : Outcome(w)
    BY DEF Sound, IInv
  <1>1. IInv' /\ Shape'
    BY <1>0, NextKeepsShape, NextKeepsClaims DEF IInv
  <1>2. ASSUME NEW w \in Workers, WorkerStep(w) \/ PlannerFails(w) \/ Crash(w)
        PROVE  Sound'
    <2>1. Frame(w) /\ Saves(w) /\ Grows
      BY <1>0, <1>2, WorkerFrame, WorkerGrows
    <2>2. CompletedMeansMeasured'
      BY <1>0, <1>1, <2>1, CompletionKept
    <2>3. Entitled(w)'
      BY <1>0, <1>2, <2>1, WorkerEntitled
    <2>4. ASSUME NEW v \in Workers \ {w} PROVE Entitled(v)'
      BY <1>0, <2>1, <2>4, EntitledElsewhere DEF Frame
    <2>5. ASSUME ProcIdentity PROVE Verified' /\ \A v \in Workers : Outcome(v)'
      <3>1. Succeeded \subseteq Succeeded' /\ \A v \in Workers \ {w} : Outcome(v)'
        BY <1>0, <1>2, <2>5, OthersOutcome DEF IInv
      <3>2. Outcome(w)'
        BY <1>0, <1>2, <2>5, WorkerOutcome
      <3>3. Verified'
        BY <1>0, <1>2, <2>1, <2>5, <3>1, VerificationKept
      <3>4. QED BY <3>1, <3>2, <3>3
    <2>6. QED BY <1>1, <2>2, <2>3, <2>4, <2>5 DEF Sound
  <1>3. CASE UserStep \/ WorldChanges \/ DeadlinePasses \/ UNCHANGED vars
    <2>1. UNCHANGED <<cycles, observations, evidence, execs, measured, pc, ret,
                      at, crow, ob, xr, ran>>
      BY <1>3 DEF UserStep, UserRead, UserSave, UserReadBack, UserStop,
         WorldChanges, DeadlinePasses, tables, locals, vars
    <2>2. /\ Prints' = Prints /\ Late' = Late /\ Ended' = Ended
          /\ Succeeded' = Succeeded
      BY <2>1 DEF Prints, Late, Ended, Succeeded
    <2>3. CompletedMeansMeasured'
      BY <1>0, <2>1 DEF CompletedMeansMeasured
    <2>4. \A w \in Workers : Entitled(w)'
      BY <1>0, <2>1, <2>2 DEF Entitled
    <2>5. ProcIdentity => Verified'
      BY <1>0, <2>1, <2>2 DEF Verified
    <2>6. ProcIdentity => \A w \in Workers : Outcome(w)'
      BY <1>0, <2>1, <2>2 DEF Outcome
    <2>7. QED BY <1>1, <2>3, <2>4, <2>5, <2>6 DEF Sound
  <1>4. QED BY <1>2, <1>3 DEF Next

\* Under every overlap and every crash, a cycle is completed only once its
\* measurement event is stored or an observation of it shows the deadline
\* elapsed: no copy that any worker may still save says more than that.
THEOREM CompletionIsMeasured == Spec => []CompletedMeansMeasured
  <1>1. Sound => CompletedMeansMeasured
    BY DEF Sound
  <1>2. QED BY <1>1, InitSound, NextSound, PTL DEF Spec

\* Where procfs tells whether an execution's owner lives, a verified cycle has
\* an execution that ran once and ended SUCCEEDED, under every overlap and every
\* crash.  (By the two-hour horizon alone an execution may be closed as FAILED
\* after its cycle was verified.)
THEOREM VerificationIsEarned ==
  ASSUME ProcIdentity PROVE Spec => []VerifiedMeansExecuted
  <1>1. Sound => VerifiedMeansExecuted
    BY DEF Sound, Verified, VerifiedMeansExecuted, Succeeded
  <1>2. QED BY <1>1, InitSound, NextSound, PTL DEF Spec



\* The order of the stages.
LEMMA Ranks ==
  /\ StageRank("OBSERVE") = 1 /\ StageRank("ASSESS") = 2
  /\ StageRank("STRATEGIZE") = 3 /\ StageRank("EXECUTE") = 4
  /\ StageRank("VERIFY") = 5 /\ StageRank("MEASURE") = 6
  /\ StageRank("ADAPT") = 7
  <1> DEFINE order == <<"OBSERVE", "ASSESS", "STRATEGIZE", "EXECUTE", "VERIFY",
                        "MEASURE", "ADAPT">>
  <1>1. ASSUME NEW n \in 1..7 PROVE StageRank(order[n]) = n
    <2>1. \A m \in 1..7 : order[m] = order[n] => m = n
      OBVIOUS
    <2>2. QED BY <2>1 DEF StageRank
  <1>2. /\ order[1] = "OBSERVE" /\ order[2] = "ASSESS"
        /\ order[3] = "STRATEGIZE" /\ order[4] = "EXECUTE"
        /\ order[5] = "VERIFY" /\ order[6] = "MEASURE" /\ order[7] = "ADAPT"
    OBVIOUS
  <1> HIDE DEF order
  <1>3. /\ 1 \in 1..7 /\ 2 \in 1..7 /\ 3 \in 1..7 /\ 4 \in 1..7 /\ 5 \in 1..7
        /\ 6 \in 1..7 /\ 7 \in 1..7
    OBVIOUS
  <1>4. QED BY <1>1, <1>2, <1>3

\* What a restarted runner reads back of a cycle.
Resumable(c) ==
    /\ cycles[c].stage # "OBSERVE" =>
          /\ cycles[c].obs = Len(observations[c]) /\ cycles[c].obs # 0
          /\ observations[c][cycles[c].obs].ev = cycles[c].ev
          /\ cycles[c].ev # 0
    /\ cycles[c].stage \in {"VERIFY", "MEASURE", "ADAPT"} =>
          /\ execs[c].status \in {"SUCCEEDED", "FAILED"}
          /\ (cycles[c].ok = "yes") <=> (execs[c].status = "SUCCEEDED")

\* The stages reached, by name.
LEMMA ReachedMeans ==
  ASSUME NEW s \in Stages
  PROVE  /\ StageRank(s) >= StageRank("ASSESS") <=> s # "OBSERVE"
         /\ StageRank(s) >= StageRank("VERIFY") <=>
              s \in {"VERIFY", "MEASURE", "ADAPT"}
  BY Ranks DEF Stages

\* The evidence of every cycle, without ranks.
LEMMA ResumableMeans ==
  ASSUME TablesOK
  PROVE  ResumableEvidence <=> \A c \in 1..Len(cycles) : Resumable(c)
  <1>1. \A c \in 1..Len(cycles) : cycles[c].stage \in Stages
    BY CycleTyped DEF CycleRow
  <1>2. \A c \in 1..Len(cycles) :
           /\ Reached(c, "ASSESS") <=> cycles[c].stage # "OBSERVE"
           /\ Reached(c, "VERIFY") <=>
                cycles[c].stage \in {"VERIFY", "MEASURE", "ADAPT"}
    BY <1>1, ReachedMeans DEF Reached
  <1>3. QED BY <1>2 DEF ResumableEvidence, Resumable

\* A worker that has gone leaves nothing half done in its copies.
LEMMA ExitSerial ==
  ASSUME WorkersOK, NEW w \in Workers, Exit(w) PROVE Serial(w)'
  BY DEF WorkersOK, Exit, Forget, Goto, Serial, Unbound, Reconciling, Executing

\* A worker's own step keeps its copies in line with the tables.
LEMMA WorkerSerial ==
  ASSUME Turns, NEW w \in Workers, WorkerStep(w) \/ PlannerFails(w) \/ Crash(w)
  PROVE  Serial(w)'
  <1> USE CycleAssumption
  <1>0. /\ WorkersOK /\ TablesOK /\ ob[w] \in Carrying /\ crow[w] \in CycleRow
        /\ pc[w] \notin Unbound =>
              /\ at[w] \in 1..Len(cycles) /\ at[w] \in 1..MaxCycles
              /\ cycles[at[w]] \in CycleRow
        /\ pc[w] \in {"create", "insert"} => ret[w] \in {"look", "observe", "idle"}
        /\ pc[w] \in Recording \cup Reconciling => ret[w] \in {"reserve", "deadline"}
        /\ Serial(w)
    BY AtHand DEF Turns, Sound, IInv, Entitled
  <1>00. cycles \in Seq(CycleRow) /\ Len(cycles) \in Nat
    BY <1>0 DEF TablesOK
  <1> USE <1>0 DEF Serial, Unbound, Reconciling, Recording, Executing
  <1>1. CASE Start(w)
    BY <1>1, StartEffect
       DEF At, Still
  <1>2. CASE Gate(w)
    <2>1. CASE Exit(w)
      BY <2>1, ExitSerial
    <2>2. CASE ~Exit(w)
      BY <1>2, <2>2, GateEffect DEF At, Incomplete
    <2>3. QED BY <2>1, <2>2
  <1>3. CASE CreateCheck(w)
    <2>1. CASE Exit(w)
      BY <2>1, ExitSerial
    <2>2. CASE ~Exit(w)
      BY <1>3, <2>2, CreateCheckEffect DEF At, Incomplete
    <2>3. QED BY <2>1, <2>2
  <1>4. CASE InsertCycle(w)
    <2>1. CASE Exit(w)
      BY <2>1, ExitSerial
    <2>2. CASE ~Exit(w)
      <3>1. /\ cycles' = Append(cycles, NewCycle) /\ at[w] = Len(cycles) + 1
            /\ pc'[w] \in {"look", "observe"} /\ at'[w] = at[w]
        BY <1>4, <2>2, InsertCycleEffect DEF At
      <3>2. at[w] = Len(cycles') /\ cycles'[at[w]] = NewCycle
        BY <1>00, <3>1
      <3>3. QED BY <3>1, <3>2 DEF NewCycle
    <2>3. QED BY <2>1, <2>2
  <1>5. CASE Look(w)
    <2>1. CASE Exit(w)
      BY <2>1, ExitSerial
    <2>2. CASE ~Exit(w)
      BY <1>5, <2>2, LookEffect
         DEF At, Still
    <2>3. QED BY <2>1, <2>2
  <1>6. CASE Collect(w)
    <2>1. CASE Exit(w)
      BY <2>1, ExitSerial
    <2>2. CASE ~Exit(w)
      BY <1>6, <2>2, CollectEffect
         DEF At, Still
    <2>3. QED BY <2>1, <2>2
  <1>7. CASE Reserve(w)
    BY <1>7, ReserveEffect
       DEF At, Still
  <1>8. CASE Capture(w)
    <2>1. CASE Exit(w)
      BY <2>1, ExitSerial
    <2>2. CASE ~Exit(w)
      BY <1>8, <2>2, CaptureEffect
         DEF At, Still
    <2>3. QED BY <2>1, <2>2
  <1>9. CASE RecordCheck(w)
    <2>1. CASE Exit(w)
      BY <2>1, ExitSerial
    <2>2. CASE ~Exit(w)
      BY <1>9, <2>2, RecordCheckEffect
         DEF At, Still
    <2>3. QED BY <2>1, <2>2
  <1>10. CASE SaveObservation(w)
    <2>1. PICK fp : observations' = [observations EXCEPT
                                 ![at[w]] = Append(@, [fp |-> fp, ev |-> 0])]
      BY <1>10, SaveObservationEffect
    <2>2. at[w] \in 1..MaxCycles /\ observations[at[w]] \in Seq(ObsRow)
      BY <1>10, ObservationsTyped DEF SaveObservation
    <2>3. Len(observations'[at[w]]) = Len(observations[at[w]]) + 1
      <3>1. observations'[at[w]] = Append(observations[at[w]],
                                          [fp |-> fp, ev |-> 0])
        BY <2>1, <2>2 DEF TablesOK
      <3>2. QED BY <2>2, <3>1
    <2>4. /\ ob'[w].i = Len(observations[at[w]]) + 1
          /\ Len(observations[at[w]]) + 1 # 0
      <3>1. ob[w] \in Carrying
        BY DEF WorkersOK
      <3>2. ob'[w] = [ob[w] EXCEPT !.i = Len(observations[at[w]]) + 1]
        BY <1>10, SaveObservationEffect DEF At
      <3>3. Len(observations[at[w]]) \in Nat
        BY <2>2
      <3>4. ob'[w].i = Len(observations[at[w]]) + 1
        BY <3>1, <3>2 DEF Carrying
      <3>5. QED BY <3>3, <3>4
    <2>5. QED BY <1>10, <2>3, <2>4, SaveObservationEffect DEF At
  <1>11. CASE Reconcile(w)
    <2>1. ob'[w].i = ob[w].i
      <3>1. PICK e : ob'[w] = [ob[w] EXCEPT !.ev = e]
        BY <1>11, ReconcileEffect DEF At
      <3>2. QED BY <3>1 DEF Carrying
    <2>2. CASE pc'[w] = "advance"
      <3>1. /\ observations[at[w]][ob[w].i].ev # 0
            /\ ob'[w].ev = observations[at[w]][ob[w].i].ev
        BY <1>11, <2>2, ReconcileEffect DEF At, Carrying
      <3>2. QED BY <1>11, <2>1, <2>2, <3>1, ReconcileEffect DEF At, Still
    <2>3. CASE pc'[w] \in {"save_ev", "save_evidence"}
      <3>1. /\ observations[at[w]][ob[w].i].ev = 0
            /\ ob'[w].ev = evidence[at[w]][ob[w].i]
            /\ pc'[w] = "save_ev" => ob'[w].ev # 0
            /\ pc'[w] = "save_evidence" => evidence[at[w]][ob[w].i] = 0
        BY <1>11, <2>3, ReconcileEffect DEF At, Carrying
      <3>2. cycles[at[w]].stage = "OBSERVE"
        <4>1. /\ at[w] \in 1..Len(cycles) /\ Resumable(at[w])
              /\ ob[w].i = Len(observations[at[w]])
          BY <1>11, ReconcileEffect, ResumableMeans DEF Turns
        <4>2. QED BY <3>1, <4>1 DEF Resumable
      <3>3. QED BY <1>11, <2>1, <2>3, <3>1, <3>2, ReconcileEffect DEF At, Still
    <2>4. QED BY <1>11, <2>2, <2>3, ReconcileEffect DEF At
  <1>12. CASE SaveEvidence(w)
    <2> DEFINE n == evidence[at[w]][ob[w].i]
    <2>1. n = 0
      BY <1>12 DEF SaveEvidence
    <2>2. /\ pc'[w] = "save_ev" /\ at'[w] = at[w]
          /\ ob'[w] = [ob[w] EXCEPT !.ev = n + 1]
          /\ UNCHANGED <<cycles, observations>>
      BY <1>12, SaveEvidenceEffect DEF At
    <2>3. /\ at[w] = Len(cycles) /\ ~cycles[at[w]].done
          /\ cycles[at[w]].stage = "OBSERVE"
          /\ ob[w].i = Len(observations[at[w]]) /\ ob[w].i # 0
      BY <1>12 DEF SaveEvidence
    <2> HIDE DEF n
    <2>4. ob'[w].ev = 1 /\ ob'[w].i = ob[w].i
      BY <2>1, <2>2 DEF Carrying
    <2>5. QED BY <2>2, <2>3, <2>4
  <1>13. CASE SaveObservationEvidence(w)
    <2> DEFINE c == at[w]
               i == ob[w].i
               e == ob[w].ev
    <2>1. c \in 1..MaxCycles /\ i \in 1..Len(observations[c])
      BY <1>13 DEF SaveObservationEvidence, Turns, Sound, IInv, Shape, Carried
    <2>2. observations' = [observations EXCEPT ![c][i].ev = e]
      BY <1>13, SaveObservationEvidenceEffect
    <2>3. observations[c] \in Seq(ObsRow) /\ observations[c][i] \in ObsRow
      BY <2>1 DEF TablesOK
    <2> HIDE DEF c, i, e
    <2>4. observations'[c] = [observations[c] EXCEPT
                                 ![i] = [observations[c][i] EXCEPT !.ev = e]]
      BY <2>1, <2>2 DEF TablesOK
    <2>5. /\ Len(observations'[c]) = Len(observations[c])
          /\ observations'[c][i] = [observations[c][i] EXCEPT !.ev = e]
      BY <2>1, <2>3, <2>4
    <2>6. observations'[c][i].ev = e
      BY <2>3, <2>5 DEF ObsRow
    <2>7. /\ pc'[w] = "advance" /\ at'[w] = c /\ ob'[w].i = i /\ ob'[w].ev = e
          /\ UNCHANGED cycles
      BY <1>13, SaveObservationEvidenceEffect DEF At, c, i, e
    <2>8. /\ c = Len(cycles) /\ ~cycles[c].done /\ e # 0
          /\ i = Len(observations[c]) /\ i # 0
      BY <1>13 DEF SaveObservationEvidence, c, i, e
    <2>9. QED BY <2>5, <2>6, <2>7, <2>8
  <1>14. CASE Advance(w)
    <2>1. CASE Exit(w)
      BY <2>1, ExitSerial
    <2>2. CASE ~Exit(w)
      BY <1>14, <2>2, AdvanceEffect
         DEF At, Still
    <2>3. QED BY <2>1, <2>2
  <1>15. CASE SaveObserved(w)
    <2>1. /\ pc'[w] \in {"reserve", "deadline"} /\ at'[w] = at[w]
          /\ cycles' = [cycles EXCEPT ![at[w]] = crow[w]]
      BY <1>15, SaveObservedEffect DEF At
    <2>2. at[w] = Len(cycles) /\ at[w] \in 1..Len(cycles) /\ ~crow[w].done
      BY <1>15, SaveObservedEffect DEF CycleRow
    <2>3. Len(cycles') = Len(cycles) /\ cycles'[at[w]] = crow[w]
      BY <1>00, <2>1, <2>2
    <2>4. QED BY <2>1, <2>2, <2>3
  <1>16. CASE RunStart(w)
    <2>1. CASE Exit(w)
      BY <2>1, ExitSerial
    <2>2. CASE ~Exit(w)
      BY <1>16, <2>2, RunStartEffect
         DEF At, Still
    <2>3. QED BY <2>1, <2>2
  <1>17. CASE ObserveRun(w)
    <2>1. CASE Exit(w)
      BY <2>1, ExitSerial
    <2>2. CASE ~Exit(w)
      <3>1. pc'[w] = "reconcile" =>
               ob'[w].i = Len(observations[at[w]]) /\ ob'[w].i # 0
        <4> DEFINE fp == observations[at[w]][Len(observations[at[w]])].fp
                   n == Len(observations[at[w]])
        <4>1. pc'[w] = "reconcile" => ob'[w] = [i |-> n, fps |-> {fp}, ev |-> 0]
          BY <1>17, <2>2, ObserveRunEffect DEF At
        <4>2. observations[at[w]] # <<>> => n # 0
          BY <1>17, ObserveRunEffect, ObservationsTyped
        <4>3. pc'[w] = "reconcile" => observations[at[w]] # <<>>
          BY <1>17, <2>2, ObserveRunEffect DEF At
        <4> HIDE DEF fp, n
        <4>4. QED BY <4>1, <4>2, <4>3 DEF n
      <3>2. QED BY <1>17, <2>2, <3>1, ObserveRunEffect DEF At, Still
    <2>3. QED BY <2>1, <2>2
  <1>18. CASE Deadline(w)
    BY <1>18, DeadlineEffect
       DEF At, Still
  <1>19. CASE TerminateCheck(w)
    <2>1. CASE Exit(w)
      BY <2>1, ExitSerial
    <2>2. CASE ~Exit(w)
      BY <1>19, <2>2, TerminateCheckEffect
         DEF At, Still
    <2>3. QED BY <2>1, <2>2
  <1>20. CASE TerminateMission(w)
    BY <1>20, TerminateMissionEffect
       DEF At, Still
  <1>21. CASE TerminateCycle(w)
    BY <1>21, ExitSerial
       DEF TerminateCycle, Goto, locals, tables
  <1>22. CASE PlannerFails(w)
    BY <1>22, ExitSerial
       DEF PlannerFails, Abort, Goto, locals, tables
  <1>23. CASE Assess(w)
    <2>1. CASE Exit(w)
      BY <2>1, ExitSerial
    <2>2. CASE ~Exit(w)
      <3>1. NextRow(at[w], crow[w])'
        BY <1>23, <2>2, AssessEffect DEF At, NextRow
      <3>2. QED BY <1>23, <2>2, <3>1, AssessEffect DEF At
    <2>3. QED BY <2>1, <2>2
  <1>24. CASE Strategize(w)
    <2>1. CASE Exit(w)
      BY <2>1, ExitSerial
    <2>2. CASE ~Exit(w)
      <3>1. NextRow(at[w], crow[w])'
        BY <1>24, <2>2, StrategizeEffect DEF At, NextRow
      <3>2. QED BY <1>24, <2>2, <3>1, StrategizeEffect DEF At
    <2>3. QED BY <2>1, <2>2
  <1>25. CASE SaveMission(w)
    <2>1. NextRow(at[w], crow[w])'
      <3>1. NextRow(at[w], crow[w])
        BY <1>25 DEF SaveMission
      <3>2. /\ at'[w] = at[w] /\ crow'[w] = crow[w]
            /\ cycles' = cycles /\ execs' = execs
        BY <1>25, SaveMissionEffect DEF At, Still
      <3>3. QED BY <3>1, <3>2 DEF NextRow, RecordRow
    <2>2. QED BY <1>25, <2>1, SaveMissionEffect DEF At
  <1>26. CASE SaveStage(w)
    <2>1. /\ pc'[w] \in {"reread", "event", "step"} /\ at'[w] = at[w]
          /\ cycles' = [cycles EXCEPT ![at[w]] = crow[w]] /\ crow'[w] = crow[w]
      BY <1>26, SaveStageEffect DEF At
    <2>2. /\ at[w] = Len(cycles) /\ at[w] \in 1..Len(cycles)
          /\ ~cycles[at[w]].done /\ NextRow(at[w], crow[w])
      BY <1>26 DEF SaveStage
    <2>3. ~crow[w].done
      BY <2>2 DEF NextRow, RecordRow, CycleRow
    <2>4. Len(cycles') = Len(cycles) /\ cycles'[at[w]] = crow[w]
      BY <1>00, <2>1, <2>2
    <2>5. QED BY <2>1, <2>2, <2>3, <2>4
  <1>27. CASE ReRead(w)
    <2>1. CASE Exit(w)
      BY <2>1, ExitSerial
    <2>2. CASE ~Exit(w)
      BY <1>27, <2>2, ReReadEffect
         DEF At, Still
    <2>3. QED BY <2>1, <2>2
  <1>28. CASE LoadExecution(w)
    <2>1. CASE Exit(w)
      BY <2>1, ExitSerial
    <2>2. CASE ~Exit(w)
      BY <1>28, <2>2, LoadExecutionEffect
         DEF At, Still
    <2>3. QED BY <2>1, <2>2
  <1>29. CASE Verify(w)
    <2>1. CASE Exit(w)
      BY <2>1, ExitSerial
    <2>2. CASE ~Exit(w)
      <3>1. \E v \in {"yes", "no"} :
               crow'[w] = [cycles[at[w]] EXCEPT !.stage = "MEASURE",
                                                !.verified = v]
        BY <1>29, <2>2, VerifyEffect DEF At
      <3>2. /\ cycles[at[w]].stage = "VERIFY" /\ at'[w] = at[w]
            /\ cycles' = cycles
        BY <1>29, <2>2, VerifyEffect DEF At
      <3>3. NextRow(at[w], crow[w])'
        BY <3>1, <3>2 DEF NextRow
      <3>4. QED BY <1>29, <2>2, <3>3, VerifyEffect DEF At
    <2>3. QED BY <2>1, <2>2
  <1>30. CASE Measure(w)
    <2>1. CASE Exit(w)
      BY <2>1, ExitSerial
    <2>2. CASE ~Exit(w)
      <3>1. NextRow(at[w], crow[w])'
        BY <1>30, <2>2, MeasureEffect DEF At, NextRow
      <3>2. QED BY <1>30, <2>2, <3>1, MeasureEffect DEF At
    <2>3. QED BY <2>1, <2>2
  <1>31. CASE MeasurementEvent(w)
    BY <1>31, MeasurementEventEffect
       DEF At, Still
  <1>32. CASE LoadMeasurement(w)
    <2>1. CASE Exit(w)
      BY <2>1, ExitSerial
    <2>2. CASE ~Exit(w)
      BY <1>32, <2>2, LoadMeasurementEffect
         DEF At, Still
    <2>3. QED BY <2>1, <2>2
  <1>33. CASE Adapt(w)
    <2>1. CASE Exit(w)
      BY <2>1, ExitSerial
    <2>2. CASE ~Exit(w)
      BY <1>33, <2>2, AdaptEffect
         DEF At, Still
    <2>3. QED BY <2>1, <2>2
  <1>34. CASE AdaptMission(w)
    BY <1>34, AdaptMissionEffect
       DEF At, Still
  <1>35. CASE AdaptCycle(w)
    <2>1. CASE Exit(w)
      BY <2>1, ExitSerial
    <2>2. CASE ~Exit(w)
      BY <1>35, <2>2, AdaptCycleEffect
         DEF At, Still
    <2>3. QED BY <2>1, <2>2
  <1>36. CASE ReconcileExecution(w)
    <2>1. CASE pc'[w] = "save_stage"
      <3>1. NextRow(at[w], crow[w])'
        <4>1. /\ crow'[w] = RecordRow(at[w], execs[at[w]].status)
              /\ execs[at[w]].status \in {"SUCCEEDED", "FAILED"}
              /\ cycles[at[w]].stage = "EXECUTE" /\ at'[w] = at[w]
              /\ UNCHANGED <<cycles, execs>>
          BY <1>36, <2>1, ReconcileExecutionEffect DEF At, Still
        <4>2. QED BY <4>1 DEF NextRow, RecordRow
      <3>2. QED BY <1>36, <2>1, <3>1, ReconcileExecutionEffect DEF At
    <2>2. CASE pc'[w] = "reread"
      BY <1>36, <2>2, ReconcileExecutionEffect DEF At
    <2>3. QED BY <1>36, <2>1, <2>2, ReconcileExecutionEffect DEF At
  <1>37. CASE FindRunning(w)
    <2>1. CASE Exit(w)
      BY <2>1, ExitSerial
    <2>2. CASE ~Exit(w)
      BY <1>37, <2>2, FindRunningEffect
         DEF At, Still
    <2>3. QED BY <2>1, <2>2
  <1>38. CASE Interrupt(w)
    <2>1. execs'[at[w]] = Exec("FAILED")
      BY <1>38, InterruptEffect DEF TablesOK
    <2>2. QED BY <1>38, <2>1, InterruptEffect DEF At, Exec
  <1>39. CASE SelectExecutor(w)
    <2>1. CASE Exit(w)
      BY <2>1, ExitSerial
    <2>2. CASE ~Exit(w)
      BY <1>39, <2>2, SelectExecutorEffect
         DEF At, Still
    <2>3. QED BY <2>1, <2>2
  <1>40. CASE Claim(w)
    <2>1. CASE Exit(w)
      BY <2>1, ExitSerial
    <2>2. CASE ~Exit(w)
      BY <1>40, <2>2, ClaimEffect
         DEF At, Still
    <2>3. QED BY <2>1, <2>2
  <1>41. CASE Invoke(w)
    BY <1>41, InvokeEffect
       DEF At, Still
  <1>42. CASE FinishExecution(w)
    <2>1. execs'[at[w]] = Exec(xr[w])
      BY <1>42, FinishExecutionEffect DEF TablesOK
    <2>2. xr[w] \in {"SUCCEEDED", "FAILED"}
      BY <1>42, FinishExecutionEffect DEF Turns, Sound, IInv, Claimed
    <2>3. QED BY <1>42, <2>1, <2>2, FinishExecutionEffect DEF At, Exec
  <1>43. CASE RecordExecution(w)
    <2>1. CASE Exit(w)
      BY <2>1, ExitSerial
    <2>2. CASE ~Exit(w)
      <3>1. NextRow(at[w], crow[w])'
        <4>1. /\ crow'[w] = RecordRow(at[w], execs[at[w]].status)
              /\ execs[at[w]].status \in {"SUCCEEDED", "FAILED"}
              /\ cycles[at[w]].stage = "EXECUTE" /\ at'[w] = at[w]
              /\ UNCHANGED <<cycles, execs>>
          BY <1>43, <2>2, RecordExecutionEffect DEF At, Still
        <4>2. QED BY <4>1 DEF NextRow, RecordRow
      <3>2. QED BY <1>43, <2>2, <3>1, RecordExecutionEffect DEF At
    <2>3. QED BY <2>1, <2>2
  <1>44. CASE Crash(w)
    BY <1>44, ExitSerial
       DEF Crash, Goto, locals, tables
  <1>45. QED BY <1>1, <1>2, <1>3, <1>4, <1>5, <1>6, <1>7, <1>8, <1>9, <1>10,
                  <1>11, <1>12, <1>13, <1>14, <1>15, <1>16, <1>17, <1>18,
                  <1>19, <1>20, <1>21, <1>22, <1>23, <1>24, <1>25, <1>26,
                  <1>27, <1>28, <1>29, <1>30, <1>31, <1>32, <1>33, <1>34,
                  <1>35, <1>36, <1>37, <1>38, <1>39, <1>40, <1>41, <1>42,
                  <1>43, <1>44
     DEF WorkerStep, GateStep, ObserverStep, RunnerStep, DispatcherStep

\* Only one worker moves, and the others are idle.
LEMMA OthersIdle ==
  ASSUME Turns, ~Overlap, NEW w \in Workers, Frame(w),
         WorkerStep(w) \/ PlannerFails(w) \/ Crash(w)
  PROVE  \A v \in Workers \ {w} : pc[v] = "idle" /\ pc'[v] = "idle"
  <1>1. CASE pc[w] # "idle"
    BY <1>1 DEF Turns, Alone, Frame
  <1>2. CASE pc[w] = "idle"
    <2>1. Start(w)
      BY <1>2 DEF WorkerStep, GateStep, ObserverStep, RunnerStep,
         DispatcherStep, PlannerFails, Crash, Gate, CreateCheck, InsertCycle,
         Look, Collect, Reserve, Capture, RecordCheck, SaveObservation,
         Reconcile, SaveEvidence, SaveObservationEvidence, Advance,
         SaveObserved, RunStart, ObserveRun, Deadline, TerminateCheck,
         TerminateMission, TerminateCycle, Assess, Strategize, Plan,
         SaveMission, SaveStage, ReRead, LoadExecution, Verify, Measure,
         MeasurementEvent, LoadMeasurement, Adapt, AdaptMission, AdaptCycle,
         ReconcileExecution, FindRunning, Interrupt, SelectExecutor, Claim,
         Invoke, FinishExecution, RecordExecution
    <2>2. QED BY <2>1 DEF Start, Frame
  <1>3. QED BY <1>1, <1>2

\* A row that is saved takes neither a stage nor a completion back, and it is
\* the last cycle's.
LEMMA SavedRow ==
  ASSUME Turns, NEW w \in Workers, WorkerStep(w) \/ PlannerFails(w) \/ Crash(w),
         cycles' # cycles, cycles' # Append(cycles, NewCycle)
  PROVE  /\ at[w] = Len(cycles) /\ at[w] \in 1..Len(cycles)
         /\ ~cycles[at[w]].done /\ execs' = execs
         /\ observations' = observations
         /\ cycles' = [cycles EXCEPT ![at[w]] = crow[w]]
         /\ \/ /\ cycles[at[w]].stage = "OBSERVE" /\ pc[w] = "save_observed"
               /\ crow[w] = [cycles[at[w]] EXCEPT !.stage = "ASSESS",
                                        !.obs = ob[w].i, !.ev = ob[w].ev]
            \/ NextRow(at[w], crow[w])
            \/ crow[w] = [cycles[at[w]] EXCEPT !.done = TRUE]
  <1>0. Shape /\ WorkersOK /\ Serial(w)
    BY AtHand DEF Turns, Sound, IInv
  <1>1. SaveObserved(w) \/ SaveStage(w) \/ TerminateCycle(w) \/ AdaptCycle(w)
    BY DEF WorkerStep, GateStep, ObserverStep, RunnerStep,
         DispatcherStep, PlannerFails, Abort, Crash, Start, Gate, CreateCheck,
         InsertCycle, Look, Collect, Reserve, Capture, RecordCheck,
         SaveObservation, Reconcile, SaveEvidence, SaveObservationEvidence,
         Advance, RunStart, ObserveRun, Deadline, TerminateCheck,
         TerminateMission, Assess, Strategize, Plan,
         SaveMission, ReRead, LoadExecution, Verify, Measure,
         MeasurementEvent, LoadMeasurement, Adapt, AdaptMission,
         ReconcileExecution, FindRunning, Interrupt, SelectExecutor, Claim,
         Invoke, FinishExecution, RecordExecution, tables
  <1>2. /\ pc[w] \in {"save_observed", "save_stage", "term_cycle", "adapt_cycle"}
        /\ cycles' = [cycles EXCEPT ![at[w]] = crow[w]]
        /\ UNCHANGED <<execs, observations>>
    BY <1>1 DEF SaveObserved, SaveStage, TerminateCycle, AdaptCycle
  <1>3. at[w] = Len(cycles) /\ at[w] \in 1..Len(cycles) /\ ~cycles[at[w]].done
    BY <1>0, <1>2, AtHand DEF Serial, Unbound
  <1>4. QED BY <1>0, <1>2, <1>3 DEF Serial

\* No step takes a stage or a completion back, and only complete cycles have a
\* successor.
LEMMA StepAdvances ==
  ASSUME Turns, NEW w \in Workers, WorkerStep(w) \/ PlannerFails(w) \/ Crash(w)
  PROVE  /\ \A c \in 1..Len(cycles) :
               /\ StageRank(cycles'[c].stage) >= StageRank(cycles[c].stage)
               /\ cycles[c].done => cycles'[c].done
         /\ OnlyLastCycleOpen'
  <1>0. /\ Shape /\ TablesOK /\ Serial(w) /\ Saves(w) /\ OnlyLastCycleOpen
        /\ cycles \in Seq(CycleRow) /\ Len(cycles) \in Nat
    BY WorkerFrame DEF Turns, Sound, IInv, Shape, TypeOK, TablesOK
  <1>1. \A s \in Stages : StageRank(s) \in Nat
    BY Ranks DEF Stages
  <1>2. \A c \in 1..Len(cycles) :
           cycles[c] \in CycleRow /\ StageRank(cycles[c].stage) \in Nat
    BY <1>0, <1>1, CycleTyped DEF CycleRow
  <1>3. CASE cycles' = cycles
    BY <1>0, <1>2, <1>3 DEF OnlyLastCycleOpen
  <1>4. CASE cycles' # cycles /\ cycles' = Append(cycles, NewCycle)
    <2>1. pc[w] = "insert"
      <3>1. Len(cycles') # Len(cycles)
        BY <1>0, <1>4
      <3>2. pc[w] \notin Unbound => at[w] \in 1..Len(cycles)
        BY <1>0, AtHand
      <3>3. QED BY <1>0, <1>4, <3>1, <3>2 DEF Saves
    <2>2. ~Incomplete
      BY <1>0, <2>1 DEF Serial
    <2>3. \A c \in 1..Len(cycles) : cycles'[c] = cycles[c]
      BY <1>0, <1>4
    <2>4. Len(cycles') = Len(cycles) + 1
      BY <1>0, <1>4
    <2>5. \A c \in 1..Len(cycles) : cycles[c].done
      BY <1>0, <2>2 DEF Incomplete, OnlyLastCycleOpen
    <2>6. OnlyLastCycleOpen'
      BY <1>0, <2>3, <2>4, <2>5 DEF OnlyLastCycleOpen
    <2>7. QED BY <1>2, <2>3, <2>6
  <1>5. CASE cycles' # cycles /\ cycles' # Append(cycles, NewCycle)
    <2> DEFINE c0 == at[w]
    <2>1. /\ c0 = Len(cycles) /\ c0 \in 1..Len(cycles) /\ ~cycles[c0].done
          /\ cycles' = [cycles EXCEPT ![c0] = crow[w]]
          /\ \/ /\ cycles[c0].stage = "OBSERVE"
                /\ crow[w] = [cycles[c0] EXCEPT !.stage = "ASSESS",
                                        !.obs = ob[w].i, !.ev = ob[w].ev]
             \/ NextRow(c0, crow[w])
             \/ crow[w] = [cycles[c0] EXCEPT !.done = TRUE]
      BY <1>5, SavedRow
    <2> HIDE DEF c0
    <2>2. \/ crow[w].stage = cycles[c0].stage
          \/ <<cycles[c0].stage, crow[w].stage>> \in
                {<<"OBSERVE", "ASSESS">>, <<"ASSESS", "STRATEGIZE">>,
                 <<"STRATEGIZE", "EXECUTE">>, <<"EXECUTE", "VERIFY">>,
                 <<"VERIFY", "MEASURE">>, <<"MEASURE", "ADAPT">>}
      BY <1>2, <2>1 DEF NextRow, RecordRow, CycleRow
    <2>3. StageRank(crow[w].stage) >= StageRank(cycles[c0].stage)
      BY <1>2, <2>1, <2>2, Ranks
    <2>4. /\ cycles'[c0] = crow[w] /\ Len(cycles') = Len(cycles)
          /\ \A c \in 1..Len(cycles) : c # c0 => cycles'[c] = cycles[c]
      BY <1>0, <2>1
    <2>5. \A c \in 1..Len(cycles) :
             StageRank(cycles'[c].stage) >= StageRank(cycles[c].stage)
      BY <1>2, <2>3, <2>4
    <2>6. \A c \in 1..Len(cycles) : cycles[c].done => cycles'[c].done
      BY <2>1, <2>4
    <2>7. OnlyLastCycleOpen'
      BY <1>0, <2>1, <2>4 DEF OnlyLastCycleOpen
    <2>8. QED BY <2>5, <2>6, <2>7
  <1>6. QED BY <1>3, <1>4, <1>5


\* What is read back of a cycle survives every step.
LEMMA StepResumable ==
  ASSUME Turns, NEW w \in Workers, WorkerStep(w) \/ PlannerFails(w) \/ Crash(w)
  PROVE  ResumableEvidence'
  <1> USE CycleAssumption
  <1>0. /\ Shape /\ TablesOK /\ WorkersOK /\ Serial(w) /\ Saves(w)
        /\ cycles \in Seq(CycleRow) /\ Len(cycles) \in Nat
        /\ \A c \in 1..Len(cycles) : Resumable(c) /\ c \in 1..MaxCycles
    <2>1. Shape /\ TablesOK /\ WorkersOK /\ Serial(w) /\ ResumableEvidence
      BY DEF Turns, Sound, IInv, Shape, TypeOK
    <2>2. Saves(w)
      BY <2>1, WorkerFrame
    <2>3. cycles \in Seq(CycleRow) /\ Len(cycles) \in Nat
      BY <2>1 DEF TablesOK
    <2>4. \A c \in 1..Len(cycles) : Resumable(c)
      BY <2>1, ResumableMeans
    <2>5. \A c \in 1..Len(cycles) : c \in 1..MaxCycles
      BY <2>1, ExecTyped
    <2>6. QED BY <2>1, <2>2, <2>3, <2>4, <2>5
  <1>1. TablesOK'
    BY NextKeepsShape DEF Turns, Sound, IInv, Next, Shape, TypeOK
  <1>2. ASSUME \A c \in 1..Len(cycles') : Resumable(c)' PROVE ResumableEvidence'
    <2>1. ASSUME NEW c \in 1..Len(cycles') PROVE cycles'[c].stage \in Stages
      <3>1. cycles' \in Seq(CycleRow)
        BY <1>1 DEF TablesOK
      <3>2. cycles'[c] \in CycleRow
        BY <3>1
      <3>3. QED BY <3>2 DEF CycleRow
    <2>2. \A c \in 1..Len(cycles') :
             /\ Reached(c, "ASSESS")' <=> cycles'[c].stage # "OBSERVE"
             /\ Reached(c, "VERIFY")' <=>
                  cycles'[c].stage \in {"VERIFY", "MEASURE", "ADAPT"}
      BY <2>1, ReachedMeans DEF Reached
    <2>3. QED BY <1>2, <2>2 DEF ResumableEvidence, Resumable
  <1>3. CASE UNCHANGED <<cycles, observations>> /\
             \A c \in 1..MaxCycles : execs'[c].status = execs[c].status
    BY <1>0, <1>2, <1>3 DEF Resumable
  <1>4. CASE cycles' # cycles
    <2>1. CASE cycles' = Append(cycles, NewCycle)
      <3>1. InsertCycle(w)
        <4>1. Len(cycles') # Len(cycles)
          BY <1>0, <2>1
        <4>2. pc[w] = "insert"
          BY <1>0, <1>4, <2>1, <4>1, AtHand DEF Saves
        <4>3. InsertCycle(w) \/ cycles' = cycles
          BY <1>0, <4>2 DEF WorkerStep, GateStep, ObserverStep, RunnerStep,
             DispatcherStep, PlannerFails, Abort, Crash, Start, Gate,
             CreateCheck, Look, Collect, Reserve, Capture, RecordCheck,
             SaveObservation, Reconcile, SaveEvidence,
             SaveObservationEvidence, Advance, SaveObserved, RunStart,
             ObserveRun, Deadline, TerminateCheck, TerminateMission,
             TerminateCycle, Assess, Strategize, Plan, SaveMission, SaveStage,
             ReRead, LoadExecution, Verify, Measure, MeasurementEvent,
             LoadMeasurement, Adapt, AdaptMission, AdaptCycle,
             ReconcileExecution, FindRunning, Interrupt, SelectExecutor,
             Claim, Invoke, FinishExecution, RecordExecution, tables
        <4>4. QED BY <1>4, <4>3
      <3>2. UNCHANGED <<observations, execs>>
        BY <3>1 DEF InsertCycle
      <3>3. ASSUME NEW c \in 1..Len(cycles') PROVE Resumable(c)'
        <4>1. CASE c = Len(cycles) + 1
          <5>1. cycles'[c].stage = "OBSERVE"
            BY <1>0, <2>1, <4>1 DEF NewCycle
          <5>2. QED BY <5>1 DEF Resumable
        <4>2. CASE c # Len(cycles) + 1
          <5>1. c \in 1..Len(cycles) /\ cycles'[c] = cycles[c]
            BY <1>0, <2>1, <4>2
          <5>2. QED BY <1>0, <3>2, <5>1 DEF Resumable
        <4>3. QED BY <4>1, <4>2
      <3>4. QED BY <1>2, <3>3
    <2>2. CASE cycles' # Append(cycles, NewCycle)
      <3>0. PICK c0, i0, e0, k : /\ c0 = at[w] /\ i0 = ob[w].i
                                 /\ e0 = ob[w].ev /\ k = crow[w]
        OBVIOUS
      <3>1. /\ c0 = Len(cycles) /\ c0 \in 1..Len(cycles)
            /\ UNCHANGED <<execs, observations>>
            /\ cycles' = [cycles EXCEPT ![c0] = k]
            /\ \/ /\ cycles[c0].stage = "OBSERVE" /\ pc[w] = "save_observed"
                  /\ k = [cycles[c0] EXCEPT !.stage = "ASSESS",
                                            !.obs = i0, !.ev = e0]
               \/ NextRow(c0, k)
               \/ k = [cycles[c0] EXCEPT !.done = TRUE]
        BY <1>4, <2>2, <3>0, SavedRow
      <3>2. pc[w] = "save_observed" =>
               /\ i0 = Len(observations[c0]) /\ e0 # 0
               /\ observations[c0][i0].ev = e0 /\ i0 # 0
        BY <1>0, <3>0 DEF Serial, Reconciling
      <3>3. /\ cycles'[c0] = k /\ Len(cycles') = Len(cycles)
            /\ \A c \in 1..Len(cycles) : c # c0 => cycles'[c] = cycles[c]
        BY <1>0, <3>1
      <3>4. Resumable(c0)'
        <4>0. /\ cycles'[c0] = k /\ observations' = observations
              /\ execs' = execs
          BY <3>1, <3>3
        <4>1. cycles[c0] \in CycleRow /\ Resumable(c0)
          BY <1>0, <3>1, CycleTyped
        <4>2. CASE /\ cycles[c0].stage = "OBSERVE" /\ pc[w] = "save_observed"
                   /\ k = [cycles[c0] EXCEPT !.stage = "ASSESS",
                                             !.obs = i0, !.ev = e0]
          <5>1. k.stage = "ASSESS" /\ k.obs = i0 /\ k.ev = e0
            BY <4>1, <4>2 DEF CycleRow
          <5>2. QED BY <3>2, <4>0, <4>2, <5>1 DEF Resumable
        <4>3. CASE NextRow(c0, k)
          <5>1. /\ cycles[c0].stage # "OBSERVE"
                /\ k.obs = cycles[c0].obs /\ k.ev = cycles[c0].ev
            BY <4>1, <4>3 DEF NextRow, RecordRow, CycleRow
          <5>2. k.stage \in {"VERIFY", "MEASURE", "ADAPT"} =>
                   /\ execs[c0].status \in {"SUCCEEDED", "FAILED"}
                   /\ (k.ok = "yes") <=> (execs[c0].status = "SUCCEEDED")
            BY <4>1, <4>3 DEF NextRow, RecordRow, CycleRow, Resumable
          <5>3. QED BY <4>0, <4>1, <5>1, <5>2 DEF Resumable
        <4>4. CASE k = [cycles[c0] EXCEPT !.done = TRUE]
          <5>1. /\ k.stage = cycles[c0].stage
                /\ k.obs = cycles[c0].obs /\ k.ev = cycles[c0].ev
                /\ k.ok = cycles[c0].ok
            BY <4>1, <4>4 DEF CycleRow
          <5>2. QED BY <4>0, <4>1, <5>1 DEF Resumable
        <4>5. QED BY <3>1, <4>2, <4>3, <4>4
      <3>5. ASSUME NEW c \in 1..Len(cycles'), c # c0 PROVE Resumable(c)'
        <4>1. c \in 1..Len(cycles) /\ cycles'[c] = cycles[c]
          BY <3>3, <3>5
        <4>2. Resumable(c)
          BY <1>0, <4>1
        <4>3. QED BY <3>1, <4>1, <4>2 DEF Resumable
      <3>6. \A c \in 1..Len(cycles') : Resumable(c)'
        BY <3>4, <3>5
      <3>7. QED BY <1>2, <3>6
    <2>3. QED BY <2>1, <2>2
  <1>5. ASSUME cycles' = cycles,
               \A c \in 1..Len(cycles) :
                  \/ /\ observations'[c] = observations[c]
                     /\ execs'[c].status = execs[c].status
                  \/ cycles[c].stage = "OBSERVE"
                  \/ /\ observations'[c] = observations[c]
                     /\ cycles[c].stage = "EXECUTE"
        PROVE  ResumableEvidence'
    <2>1. ASSUME NEW c \in 1..Len(cycles) PROVE Resumable(c)'
      BY <1>0, <1>5, <2>1 DEF Resumable
    <2>2. QED BY <1>2, <1>5, <2>1
  <1>6. CASE SaveObservation(w)
    <2>1. /\ cycles[at[w]].stage = "OBSERVE" /\ at[w] \in 1..MaxCycles
          /\ UNCHANGED <<cycles, execs>>
      BY <1>0, <1>6, AtHand, SaveObservationEffect DEF Serial, Unbound
    <2>2. \A c \in 1..MaxCycles : c # at[w] => observations'[c] = observations[c]
      <3>1. PICK fp : observations' = [observations EXCEPT
                                 ![at[w]] = Append(@, [fp |-> fp, ev |-> 0])]
        BY <1>0, <1>6, SaveObservationEffect
      <3>2. PICK row : observations' = [observations EXCEPT ![at[w]] = row]
        BY <3>1
      <3>3. QED BY <1>0, <3>2 DEF TablesOK
    <2>3. QED BY <1>0, <1>5, <2>1, <2>2
  <1>7. CASE SaveObservationEvidence(w)
    <2>1. /\ cycles[at[w]].stage = "OBSERVE" /\ at[w] \in 1..MaxCycles
          /\ UNCHANGED <<cycles, execs>>
      BY <1>0, <1>7, AtHand, SaveObservationEvidenceEffect DEF Serial, Unbound
    <2>2. \A c \in 1..MaxCycles : c # at[w] => observations'[c] = observations[c]
      <3>1. observations' = [observations EXCEPT ![at[w]][ob[w].i].ev =
                                                    ob[w].ev]
        BY <1>0, <1>7, SaveObservationEvidenceEffect
      <3>2. PICK row : observations' = [observations EXCEPT ![at[w]] = row]
        BY <3>1
      <3>3. QED BY <1>0, <3>2 DEF TablesOK
    <2>3. QED BY <1>0, <1>5, <2>1, <2>2
  <1>8. CASE Claim(w) \/ FinishExecution(w) \/ Interrupt(w)
    <2>1. pc[w] \in Executing /\ UNCHANGED <<cycles, observations>>
      BY <1>8 DEF Claim, FinishExecution, Interrupt, Executing
    <2>2. cycles[at[w]].stage = "EXECUTE" /\ at[w] \in 1..MaxCycles
      BY <1>0, <2>1, AtHand DEF Serial, Unbound, Executing
    <2>3. \A c \in 1..MaxCycles : c # at[w] => execs'[c] = execs[c]
      BY <1>0, <1>8, <2>2 DEF Claim, FinishExecution, Interrupt, TablesOK
    <2>4. QED BY <1>0, <1>5, <2>1, <2>2, <2>3
  <1>9. CASE Crash(w)
    <2>1. UNCHANGED <<cycles, observations>>
      BY <1>9 DEF Crash
    <2>2. \A c \in 1..MaxCycles : execs'[c].status = execs[c].status
      BY <1>0, <1>9 DEF Crash, TablesOK, ExecRow
    <2>3. QED BY <1>3, <2>1, <2>2
  <1>10. CASE /\ cycles' = cycles /\ ~SaveObservation(w) /\ ~Crash(w)
              /\ ~SaveObservationEvidence(w) /\ ~Claim(w) /\ ~Interrupt(w)
              /\ ~FinishExecution(w)
    <2>1. observations' = observations
      BY <1>10 DEF WorkerStep, GateStep, ObserverStep, RunnerStep,
         DispatcherStep, PlannerFails, Abort, Start, Gate, CreateCheck,
         InsertCycle, Look, Collect, Reserve, Capture, RecordCheck,
         Reconcile, SaveEvidence, Advance, SaveObserved, RunStart, ObserveRun,
         Deadline, TerminateCheck, TerminateMission, TerminateCycle, Assess,
         Strategize, Plan, SaveMission, SaveStage, ReRead, LoadExecution,
         Verify, Measure, MeasurementEvent, LoadMeasurement, Adapt,
         AdaptMission, AdaptCycle, ReconcileExecution, FindRunning,
         SelectExecutor, Invoke, RecordExecution, tables
    <2>2. execs' = execs
      BY <1>0, <1>10, WorkerStepIsQuiet DEF Invoke, tables
    <2>3. QED BY <1>3, <1>10, <2>1, <2>2
  <1>11. QED BY <1>4, <1>6, <1>7, <1>8, <1>9, <1>10

\* An observation is claimed by one evidence record at most.
LEMMA StepOneEvidence ==
  ASSUME Turns, NEW w \in Workers, WorkerStep(w) \/ PlannerFails(w) \/ Crash(w)
  PROVE  OneEvidencePerObservation'
  <1>0. /\ Shape /\ TablesOK /\ WorkersOK /\ Serial(w)
        /\ OneEvidencePerObservation
    BY DEF Turns, Sound, IInv, Shape, TypeOK
  <1>1. CASE SaveObservation(w)
    <2>1. /\ at[w] \in 1..MaxCycles
          /\ evidence' = [evidence EXCEPT ![at[w]] = Append(@, 0)]
      BY <1>0, <1>1, AtHand, SaveObservationEffect DEF Unbound
    <2>2. ASSUME NEW c \in 1..MaxCycles, NEW i \in DOMAIN evidence'[c]
          PROVE  evidence'[c][i] <= 1
      <3>1. evidence[c] \in Seq(Nat)
        BY <1>0 DEF TablesOK
      <3>2. evidence'[c] = IF c = at[w] THEN Append(evidence[c], 0)
                           ELSE evidence[c]
        BY <1>0, <2>1 DEF TablesOK
      <3>3. \A j \in DOMAIN evidence[c] : evidence[c][j] <= 1
        BY <1>0 DEF OneEvidencePerObservation
      <3>4. CASE c = at[w]
        <4>1. i \in 1..(Len(evidence[c]) + 1)
          BY <2>2, <3>1, <3>2, <3>4
        <4>2. evidence'[c][i] = IF i = Len(evidence[c]) + 1 THEN 0
                                ELSE evidence[c][i]
          BY <3>1, <3>2, <3>4, <4>1
        <4>3. i # Len(evidence[c]) + 1 => i \in DOMAIN evidence[c]
          BY <3>1, <4>1
        <4>4. QED BY <3>3, <4>2, <4>3
      <3>5. QED BY <2>2, <3>2, <3>3, <3>4
    <2>3. QED BY <2>2 DEF OneEvidencePerObservation
  <1>2. CASE SaveEvidence(w)
    <2> DEFINE c0 == at[w]
               i0 == ob[w].i
    <2>1. /\ c0 \in 1..MaxCycles /\ evidence[c0][i0] = 0
          /\ evidence' = [evidence EXCEPT ![c0][i0] = @ + 1]
      BY <1>0, <1>2, AtHand, SaveEvidenceEffect DEF Unbound, Serial
    <2> HIDE DEF c0, i0
    <2>2. ASSUME NEW c \in 1..MaxCycles, NEW i \in DOMAIN evidence'[c]
          PROVE  evidence'[c][i] <= 1
      <3>1. evidence[c] \in Seq(Nat) /\ evidence[c0] \in Seq(Nat)
        BY <1>0, <2>1 DEF TablesOK
      <3>2. evidence'[c] = IF c = c0
                           THEN [evidence[c] EXCEPT ![i0] = evidence[c][i0] + 1]
                           ELSE evidence[c]
        BY <1>0, <2>1 DEF TablesOK
      <3>3. i \in DOMAIN evidence[c]
        BY <2>2, <3>1, <3>2
      <3>4. evidence[c][i] <= 1
        BY <1>0, <3>3 DEF OneEvidencePerObservation
      <3>5. evidence'[c][i] \in {evidence[c][i], 0 + 1}
        BY <2>1, <3>1, <3>2, <3>3
      <3>6. QED BY <3>4, <3>5
    <2>3. QED BY <2>2 DEF OneEvidencePerObservation
  <1>3. CASE ~SaveObservation(w) /\ ~SaveEvidence(w)
    <2>1. evidence' = evidence
      BY <1>3 DEF WorkerStep, GateStep, ObserverStep, RunnerStep,
         DispatcherStep, PlannerFails, Abort, Crash, Start, Gate, CreateCheck,
         InsertCycle, Look, Collect, Reserve, Capture, RecordCheck, Reconcile,
         SaveObservationEvidence, Advance, SaveObserved, RunStart, ObserveRun,
         Deadline, TerminateCheck, TerminateMission, TerminateCycle, Assess,
         Strategize, Plan, SaveMission, SaveStage, ReRead, LoadExecution,
         Verify, Measure, MeasurementEvent, LoadMeasurement, Adapt,
         AdaptMission, AdaptCycle, ReconcileExecution, FindRunning, Interrupt,
         SelectExecutor, Claim, Invoke, FinishExecution, RecordExecution,
         tables
    <2>2. QED BY <1>0, <2>1 DEF OneEvidencePerObservation
  <1>4. QED BY <1>1, <1>2, <1>3

\* The initial states.
LEMMA InitTurns == Init => Turns
  <1> SUFFICES ASSUME Init PROVE Turns
    OBVIOUS
  <1>1. cycles = <<>>
    BY DEF Init
  <1>2. ResumableEvidence /\ OnlyLastCycleOpen
    BY <1>1 DEF ResumableEvidence, OnlyLastCycleOpen
  <1>3. OneEvidencePerObservation
    BY DEF Init, OneEvidencePerObservation
  <1>4. Alone /\ \A w \in Workers : Serial(w)
    BY DEF Init, Alone, Serial, Unbound, Reconciling, Executing
  <1>5. QED BY <1>2, <1>3, <1>4, InitSound DEF Turns

\* Every step of one worker at a time keeps the invariant.
LEMMA NextTurns ==
  ASSUME ~Overlap PROVE Turns /\ [Next]_vars => Turns'
  <1> SUFFICES ASSUME Turns, [Next]_vars PROVE Turns'
    OBVIOUS
  <1>1. Sound' /\ Shape
    BY NextSound DEF Turns, Sound, IInv
  <1>2. ASSUME NEW w \in Workers, WorkerStep(w) \/ PlannerFails(w) \/ Crash(w)
        PROVE  Turns'
    <2>1. Frame(w)
      BY <1>1, <1>2, WorkerFrame
    <2>2. \A v \in Workers \ {w} : pc'[v] = "idle"
      BY <1>2, <2>1, OthersIdle
    <2>3. Alone'
      BY <2>2 DEF Alone
    <2>4. \A v \in Workers \ {w} : Serial(v)'
      BY <2>2 DEF Serial, Unbound, Reconciling, Executing
    <2>5. QED BY <1>1, <1>2, <2>3, <2>4, WorkerSerial, StepAdvances,
                 StepResumable, StepOneEvidence DEF Turns
  <1>3. CASE UserStep \/ WorldChanges \/ DeadlinePasses \/ UNCHANGED vars
    <2>1. UNCHANGED <<cycles, observations, evidence, execs, measured, pc, ret,
                      at, crow, ob, xr, ran>>
      BY <1>3 DEF UserStep, UserRead, UserSave, UserReadBack, UserStop,
         WorldChanges, DeadlinePasses, tables, locals, vars
    <2>2. ResumableEvidence'
      BY <2>1 DEF Turns, ResumableEvidence, Reached
    <2>3. OneEvidencePerObservation' /\ OnlyLastCycleOpen' /\ Alone'
      BY <2>1 DEF Turns, OneEvidencePerObservation, OnlyLastCycleOpen, Alone
    <2>4. ASSUME NEW w \in Workers PROVE Serial(w)'
      <3>1. Serial(w) /\ Incomplete' = Incomplete
        BY <2>1 DEF Turns, Incomplete
      <3>2. NextRow(at[w], crow[w]) => NextRow(at[w], crow[w])'
        BY <2>1 DEF NextRow, RecordRow
      <3>3. QED BY <2>1, <3>1, <3>2 DEF Serial
    <2>5. QED BY <1>1, <2>2, <2>3, <2>4 DEF Turns
  <1>4. QED BY <1>2, <1>3 DEF Next

\* One compete-run process at a time, dying and restarting anywhere: a cycle
\* beyond OBSERVE names its last observation with the evidence saved on it, and a
\* cycle beyond EXECUTE repeats the outcome of a finished execution, so that a
\* restarted runner finds what reconcile, _execution and verify read back.
THEOREM RestartFindsEvidence ==
  ASSUME ~Overlap PROVE Spec => []ResumableEvidence
  <1>1. Turns => ResumableEvidence
    BY DEF Turns
  <1>2. QED BY <1>1, InitTurns, NextTurns, PTL DEF Spec

\* One process at a time: however often reconcile is cut short and run again, an
\* observation gets one evidence record.
THEOREM EvidenceClaimedOnce ==
  ASSUME ~Overlap PROVE Spec => []OneEvidencePerObservation
  <1>1. Turns => OneEvidencePerObservation
    BY DEF Turns
  <1>2. QED BY <1>1, InitTurns, NextTurns, PTL DEF Spec

\* One process at a time: create_cycle opens a cycle only behind completed ones.
THEOREM CyclesInOrder ==
  ASSUME ~Overlap PROVE Spec => []OnlyLastCycleOpen
  <1>1. Turns => OnlyLastCycleOpen
    BY DEF Turns
  <1>2. QED BY <1>1, InitTurns, NextTurns, PTL DEF Spec

\* One process at a time: no save of a whole cycle row, from whatever copy, takes
\* a stage or a completion back.
THEOREM StagesAdvance ==
  ASSUME ~Overlap PROVE Spec => StagesOnlyAdvance
  <1>1. Turns /\ [Next]_vars =>
           [\A c \in 1..Len(cycles) :
               /\ StageRank(cycles'[c].stage) >= StageRank(cycles[c].stage)
               /\ cycles[c].done => cycles'[c].done]_vars
    <2> SUFFICES ASSUME Turns, Next
                 PROVE  \A c \in 1..Len(cycles) :
                   /\ StageRank(cycles'[c].stage) >= StageRank(cycles[c].stage)
                   /\ cycles[c].done => cycles'[c].done
      OBVIOUS
    <2>1. CASE \E w \in Workers : WorkerStep(w) \/ PlannerFails(w) \/ Crash(w)
      BY <2>1, StepAdvances
    <2>2. CASE UserStep \/ WorldChanges \/ DeadlinePasses
      <3>1. cycles' = cycles
        BY <2>2 DEF UserStep, UserRead, UserSave, UserReadBack, UserStop,
           WorldChanges, DeadlinePasses, tables
      <3>2. \A c \in 1..Len(cycles) : cycles[c].stage \in Stages
        BY CycleTyped DEF Turns, Sound, IInv, Shape, TypeOK, CycleRow
      <3>3. \A s \in Stages : StageRank(s) \in Nat
        BY Ranks DEF Stages
      <3>4. QED BY <3>1, <3>2, <3>3
    <2>3. QED BY <2>1, <2>2 DEF Next
  <1>2. QED BY <1>1, InitTurns, NextTurns, PTL DEF Spec, StagesOnlyAdvance

=============================================================================
