-------------------------- MODULE ProjectWorkProofs -------------------------
(***************************************************************************)
(* Strategy, build and submission on one mission: what holds however the   *)
(* commands overlap, and what holds when they come one at a time, for any  *)
(* number of targets, phases, repairs and commands.                        *)
(***************************************************************************)
EXTENDS ProjectWork, SequenceTheorems, WellFoundedInduction, TLAPS

(***************************************************************************)
(* Whatever overlaps                                                       *)
(***************************************************************************)
Labels == {"idle"} \cup StrategyLabels \cup BuildLabels

\* Where a worker holds a target, and where it holds a change set.
Aiming == BuildLabels \ {"refuse"}
Changing == {"command", "validate", "review", "finalize", "recheck", "reject",
             "refresh", "finish", "failure", "repair", "recommit", "rerecord"}

\* Where joust_it stands before it stores its candidates.
Early == {"intake", "discovery", "discover", "save_spec", "save_rules",
          "deadline", "rules_lock", "landscape", "ideation", "generate"}

\* What a worker at label l holds, r its copy of the mission, k and b its work:
\* a copy of a mission that exists, a target and a change set that exist, and a
\* target that was not superseded when it was read; the target a redirect will
\* supersede is older than the one it attached.
HoldsAs(l, r, k, b) ==
    /\ b.next # 0 /\ ~b.target.superseded
    /\ l \in Aiming => b.id \in DOMAIN targets
    /\ l \in Changing => b.cs \in DOMAIN changes
    /\ k.previous <= Len(targets)
    /\ l \in {"link", "supersede"} => k.previous < Len(targets)
    /\ l = "supersede" => k.previous # 0
    /\ l = "idle" \/ l \in BuildLabels => k = NoWork
    /\ l = "idle" \/ l \in StrategyLabels => b = NoBuild
    /\ k.op = "attach" => l \in {"attach", "link"} /\ k.previous = 0
    /\ l # "idle" /\ k.op # "attach" => r.state # "NONE"
    /\ l = "link" => k.fresh.state # "NONE"
    /\ l \in Early \cup {"store"} => k.op = "joust"
    /\ l \in Early => stored = 0
    /\ l = "store" => stored < Candidates

Holds(w) == HoldsAs(pc[w], row[w], work[w], build[w])

\* What the tables hold: change sets of targets that exist, no strategy and
\* nobody at work before there is a mission.
Tables ==
    /\ Len(targets) <= MaxTargets
    /\ \A c \in DOMAIN changes : changes[c].target \in DOMAIN targets
    /\ NewestTargetActive

\* joust_it runs once.
JoustOnce ==
    /\ mission.state = "NONE" =>
          stored = 0 /\ \A w \in Workers : pc[w] = "idle"
    /\ \A v, w \in Workers :
          work[v].op = "joust" /\ work[w].op = "joust" => v = w

Shape == TypeOK /\ Tables /\ JoustOnce /\ \A w \in Workers : Holds(w)

\* What the proofs below use of the constants.
LEMMA Constants ==
  /\ Overlap \in BOOLEAN /\ Candidates \in Nat /\ Candidates >= 1
  /\ MaxTargets \in Nat /\ MaxCommands \in Nat
  /\ MaxAttempts \in Nat /\ MaxAttempts >= 1
  /\ MaxRepairs \in Nat /\ MaxCommits \in Nat /\ MaxCrashes \in Nat
  /\ Declared \in Seq({"install", "lint", "build", "test", "run"})
  /\ Len(Declared) \in Nat
  BY TablesAssumption, StrategyAssumption, BuildAssumption, WorkAssumption

\* The labels, spelled out.
LEMMA StrategyLabelList ==
  StrategyLabels =
    {"intake", "discovery", "rules_lock", "landscape", "ideation",
     "selection", "planning", "building", "blocked",
     "generate", "select", "plan", "reassess",
     "discover", "save_spec", "save_rules", "deadline", "store",
     "decide", "attach", "link", "block", "activate", "compare", "supersede"}
  BY DEF StrategyLabels, ModelCalls, Phase

\* No label belongs to both halves, and all of them are labels.
LEMMA LabelFacts ==
  /\ "idle" \in Labels /\ "idle" \notin StrategyLabels
  /\ "idle" \notin BuildLabels
  /\ StrategyLabels \subseteq Labels /\ BuildLabels \subseteq Labels
  /\ \A l \in StrategyLabels : l \notin BuildLabels
  /\ Early \subseteq StrategyLabels /\ Changing \subseteq Aiming
  /\ Aiming \subseteq BuildLabels
  BY StrategyLabelList
     DEF Labels, BuildLabels, Early, Changing, Aiming

\* joust_it's transitions and where they lead.
LEMMA PhaseFacts ==
  ASSUME NEW l \in DOMAIN Phase
  PROVE  /\ Phase[l][1] \in {"INTAKE", "DISCOVERY", "RULES_LOCK",
                "LANDSCAPE_ANALYSIS", "IDEATION", "STRATEGY_SELECTION",
                "PLANNING", "BUILDING", "BLOCKED"}
         /\ Phase[l][2] \in {"discovery", "discover", "landscape", "ideation",
                "generate", "decide", "plan", "leave"}
         /\ Phase[l][2] \in Early => l \in Early
         /\ l \in StrategyLabels
  BY DEF Phase, Early, StrategyLabels

\* The mission states of the model.
LEMMA StateFacts ==
  /\ {"CREATED", "INTAKE", "DISCOVERY", "RULES_LOCK", "LANDSCAPE_ANALYSIS",
      "IDEATION", "STRATEGY_SELECTION", "PLANNING", "BUILDING", "VALIDATING",
      "OPTIMIZING", "SUBMISSION_PREP", "READY_FOR_SUBMISSION"}
        \subseteq MissionState
  /\ "BLOCKED" \in MissionState /\ "NONE" \notin MissionState
  BY DEF MissionState, CanonicalStates, SideStates, Canonical

\* A set of naturals that is not empty has a least element.
LEMMA LeastNatural ==
  ASSUME NEW S \in SUBSET Nat, S # {}
  PROVE  \E m \in S : \A k \in S : m <= k
  <1> DEFINE Less == OpToRel(<, Nat)
  <1>0. Less = {ss \in Nat \X Nat : ss[1] < ss[2]}
    BY DEF OpToRel
  <1>1. IsWellFoundedOn(Less, Nat)
    BY NatLessThanWellFounded
  <1>2. \A x, y \in Nat : <<y, x>> \in Less <=> y < x
    BY <1>0
  <1> HIDE DEF Less
  <1>3. PICK x \in S : \A y \in S : ~ (<<y, x>> \in Less)
    BY <1>1, WFMin
  <1>4. ASSUME NEW k \in S PROVE x <= k
    <2>1. x \in Nat /\ k \in Nat /\ ~ (<<k, x>> \in Less)
      BY <1>3
    <2>2. ~ (k < x)
      BY <1>2, <2>1
    <2>3. QED BY <2>1, <2>2
  <1>5. QED BY <1>4

\* A set of naturals that is not empty and is bounded has a greatest element.
LEMMA GreatestNatural ==
  ASSUME NEW n \in Nat, NEW S \in SUBSET (0..n), S # {}
  PROVE  \E m \in S : \A k \in S : k <= m
  <1> DEFINE T == {n - k : k \in S}
  <1>1. T \in SUBSET Nat /\ T # {}
    <2>1. \A k \in S : n - k \in Nat
      OBVIOUS
    <2>2. PICK k \in S : TRUE
      OBVIOUS
    <2>3. n - k \in T
      OBVIOUS
    <2>4. QED BY <2>1, <2>3
  <1>2. PICK x \in T : \A y \in T : x <= y
    BY <1>1, LeastNatural
  <1>3. PICK m \in S : x = n - m
    BY <1>2
  <1>4. ASSUME NEW k \in S PROVE k <= m
    <2>1. n - k \in T
      OBVIOUS
    <2>2. n - m <= n - k
      BY <1>2, <1>3, <2>1
    <2>3. m \in Int /\ k \in Int
      OBVIOUS
    <2>4. QED BY <2>2, <2>3
  <1>5. QED BY <1>4

\* get_project_target_for_mission returns the newest target that is not
\* superseded.
LEMMA ActiveTargetFacts ==
  ASSUME targets \in Seq(TargetRow)
  PROVE  /\ ActiveTarget \in Nat
         /\ ActiveTarget # 0 =>
               /\ ActiveTarget \in DOMAIN targets
               /\ ~targets[ActiveTarget].superseded
  <1> DEFINE open == {t \in DOMAIN targets : ~targets[t].superseded}
  <1>1. CASE open = {}
    BY <1>1 DEF ActiveTarget
  <1>2. CASE open # {}
    <2>1. Len(targets) \in Nat /\ open \in SUBSET (0..Len(targets))
      OBVIOUS
    <2>2. \E t \in open : \A u \in open : u <= t
      BY <1>2, <2>1, GreatestNatural
    <2>3. ActiveTarget = CHOOSE t \in open : \A u \in open : u <= t
      BY <1>2 DEF ActiveTarget
    <2>4. ActiveTarget \in open
      BY <2>2, <2>3
    <2>5. QED BY <2>1, <2>4
  <1>3. QED BY <1>1, <1>2

\* The last validated change set is one.
LEMMA LastValidatedFacts ==
  ASSUME changes \in Seq(ChangeSet), Validated # {}
  PROVE  LastValidated \in Validated
  <1>1. Len(changes) \in Nat /\ Validated \in SUBSET (0..Len(changes))
    BY DEF Validated
  <1>2. \E c \in Validated : \A d \in Validated : d <= c
    BY <1>1, GreatestNatural
  <1>3. QED BY <1>2 DEF LastValidated

\* A row of a table replaced.
LEMMA ReplacedIsTable ==
  ASSUME NEW S, NEW s \in Seq(S), NEW i \in DOMAIN s, NEW x \in S
  PROVE  /\ [s EXCEPT ![i] = x] \in Seq(S)
         /\ Len([s EXCEPT ![i] = x]) = Len(s)
         /\ DOMAIN [s EXCEPT ![i] = x] = DOMAIN s
         /\ [s EXCEPT ![i] = x][i] = x
         /\ \A j \in DOMAIN s : j # i => [s EXCEPT ![i] = x][j] = s[j]
  <1>1. i \in 1..Len(s)
    OBVIOUS
  <1>2. QED BY <1>1, ExceptSeq

\* What a worker holds when it holds nothing.
LEMMA NothingTyped ==
  /\ NoMission \in MissionRow /\ NoWork \in Work /\ NoBuild \in Build
  /\ NewTarget(0) \in TargetRow /\ ~NewTarget(0).superseded
  /\ NoWork.op = "none" /\ NoWork.previous = 0
  /\ NoBuild.next = 1 /\ NoBuild.target = NewTarget(0)
  <1> USE Constants
  <1>1. NoMission \in MissionRow
    BY DEF NoMission, MissionRow
  <1>2. NewTarget(0) \in TargetRow /\ ~NewTarget(0).superseded
    BY DEF NewTarget, TargetRow
  <1>3. NoWork \in Work /\ NoWork.op = "none" /\ NoWork.previous = 0
    BY <1>1, <1>2 DEF NoWork, Work
  <1>4. NoBuild \in Build /\ NoBuild.next = 1 /\ NoBuild.target = NewTarget(0)
    BY <1>2 DEF NoBuild, Build
  <1>5. QED BY <1>1, <1>2, <1>3, <1>4

\* A step of worker w leaves what the others hold alone.
Frame(w) ==
    /\ pc' \in [Workers -> Labels] /\ row' \in [Workers -> MissionRow]
    /\ work' \in [Workers -> Work] /\ build' \in [Workers -> Build]
    /\ \A v \in Workers :
          v # w => /\ pc'[v] = pc[v] /\ row'[v] = row[v]
                   /\ work'[v] = work[v] /\ build'[v] = build[v]

\* A worker goes to label l with copy r, work k and build b.
LEMMA Framed ==
  ASSUME TypeOK, NEW w \in Workers, NEW l \in Labels, NEW r \in MissionRow,
         NEW k \in Work, NEW b \in Build,
         Goto(w, l) \/ (l = pc[w] /\ UNCHANGED pc),
         row' = [row EXCEPT ![w] = r] \/ (r = row[w] /\ UNCHANGED row),
         work' = [work EXCEPT ![w] = k] \/ (k = work[w] /\ UNCHANGED work),
         build' = [build EXCEPT ![w] = b] \/ (b = build[w] /\ UNCHANGED build)
  PROVE  /\ Frame(w) /\ pc'[w] = l /\ row'[w] = r
         /\ work'[w] = k /\ build'[w] = b
  <1>1. /\ pc \in [Workers -> Labels] /\ row \in [Workers -> MissionRow]
        /\ work \in [Workers -> Work] /\ build \in [Workers -> Build]
    BY DEF TypeOK, TablesTypeOK, StrategyTypeOK, BuildTypeOK, Labels
  <1>2. /\ pc' \in [Workers -> Labels] /\ pc'[w] = l
        /\ \A v \in Workers : v # w => pc'[v] = pc[v]
    BY <1>1 DEF Goto
  <1>3. /\ row' \in [Workers -> MissionRow] /\ row'[w] = r
        /\ \A v \in Workers : v # w => row'[v] = row[v]
    BY <1>1
  <1>4. /\ work' \in [Workers -> Work] /\ work'[w] = k
        /\ \A v \in Workers : v # w => work'[v] = work[v]
    BY <1>1
  <1>5. /\ build' \in [Workers -> Build] /\ build'[w] = b
        /\ \A v \in Workers : v # w => build'[v] = build[v]
    BY <1>1
  <1>6. QED BY <1>2, <1>3, <1>4, <1>5 DEF Frame

\* The types of what the workers share.
Shared ==
    /\ mission \in MissionRow /\ targets \in Seq(TargetRow) /\ spec \in BOOLEAN
    /\ commands \in Nat /\ crashes \in Nat
    /\ stored \in 0..Candidates /\ chosen \in Seq(1..Candidates)
    /\ head \in [1..MaxTargets -> Nat] /\ dirty \subseteq 1..MaxTargets
    /\ changes \in Seq(ChangeSet) /\ runs \subseteq Run

\* The type invariant in its two halves.
LEMMA TypeParts ==
  ASSUME TypeOK
  PROVE  /\ Shared /\ pc \in [Workers -> Labels]
         /\ row \in [Workers -> MissionRow] /\ work \in [Workers -> Work]
         /\ build \in [Workers -> Build]
  BY DEF TypeOK, TablesTypeOK, StrategyTypeOK, BuildTypeOK, Shared, Labels

\* The initial states.
LEMMA InitShape == Init => Shape
  <1> SUFFICES ASSUME Init PROVE Shape
    OBVIOUS
  <1> USE Constants, NothingTyped, LabelFacts
  <1>1. mission \in MissionRow /\ spec \in BOOLEAN
    BY StateFacts DEF Init, SliceMission, MissionRow, NoMission
  <1>2. TypeOK
    <2>1. /\ row \in [Workers -> MissionRow] /\ work \in [Workers -> Work]
          /\ build \in [Workers -> Build] /\ pc \in [Workers -> Labels]
      BY DEF Init, StrategyInit, BuildInit
    <2>2. /\ targets \in Seq(TargetRow) /\ commands \in Nat /\ crashes \in Nat
          /\ stored \in 0..Candidates /\ chosen \in Seq(1..Candidates)
      BY DEF Init, StrategyInit
    <2>3. /\ head \in [1..MaxTargets -> Nat] /\ dirty \subseteq 1..MaxTargets
          /\ changes \in Seq(ChangeSet) /\ runs \subseteq Run
      BY DEF Init, BuildInit
    <2>4. QED BY <1>1, <2>1, <2>2, <2>3
              DEF TypeOK, TablesTypeOK, StrategyTypeOK, BuildTypeOK, Labels
  <1>3. Tables
    BY DEF Init, BuildInit, Tables, NewestTargetActive
  <1>4. ASSUME NEW w \in Workers
        PROVE  /\ pc[w] = "idle" /\ work[w] = NoWork /\ build[w] = NoBuild
    BY DEF Init, StrategyInit, BuildInit
  <1>5. stored = 0 /\ Len(targets) = 0
    BY DEF Init, StrategyInit
  <1>6. JoustOnce
    BY <1>4, <1>5 DEF JoustOnce
  <1>7. ASSUME NEW w \in Workers PROVE Holds(w)
    BY <1>4, <1>5 DEF Holds, HoldsAs, Early, Changing, Aiming
  <1>8. QED BY <1>2, <1>3, <1>6, <1>7 DEF Shape

\* A step of one worker keeps the shape when what it does to the tables and what
\* it holds afterwards fits.
LEMMA StepKeepsShape ==
  ASSUME Shape, NEW w \in Workers, Frame(w), Shared', Tables', Holds(w)',
         Len(targets) <= Len(targets'), Len(changes) <= Len(changes'),
         mission'.state # "NONE",
         stored' = stored \/ work[w].op = "joust",
         work'[w].op = "joust" =>
             work[w].op = "joust" \/ mission.state = "NONE"
  PROVE  Shape'
  <1> USE NothingTyped
  <1>1. TypeOK'
    BY DEF Frame, Shared, TypeOK, TablesTypeOK, StrategyTypeOK, BuildTypeOK,
           Labels
  <1>2. Shared
    BY TypeParts DEF Shape
  <1>3. JoustOnce'
    <2> SUFFICES ASSUME NEW v \in Workers, NEW u \in Workers, v # u,
                        work'[v].op = "joust", work'[u].op = "joust"
                 PROVE  FALSE
      BY DEF JoustOnce
    <2>1. CASE mission.state = "NONE"
      <3>1. \A x \in Workers : pc[x] = "idle"
        BY <2>1 DEF Shape, JoustOnce
      <3>2. \A x \in Workers : work[x] = NoWork
        BY <3>1 DEF Shape, Holds, HoldsAs
      <3>3. \A x \in Workers : x # w => work'[x].op = "none"
        BY <3>2 DEF Frame
      <3>4. QED BY <3>3
    <2>2. CASE mission.state # "NONE"
      <3>1. work[v].op = "joust" /\ work[u].op = "joust"
        BY <2>2 DEF Frame
      <3>2. QED BY <3>1 DEF Shape, JoustOnce
    <2>3. QED BY <2>1, <2>2
  <1>4. ASSUME NEW v \in Workers PROVE Holds(v)'
    <2>1. CASE v = w
      BY <2>1
    <2>2. CASE v # w
      <3>1. Holds(v)
        BY DEF Shape
      <3>2. /\ pc'[v] = pc[v] /\ row'[v] = row[v] /\ work'[v] = work[v]
            /\ build'[v] = build[v]
        BY <2>2 DEF Frame
      <3>3. /\ Len(targets) \in Nat /\ Len(targets') \in Nat
            /\ DOMAIN targets = 1..Len(targets)
            /\ DOMAIN targets' = 1..Len(targets')
            /\ Len(changes) \in Nat /\ Len(changes') \in Nat
            /\ DOMAIN changes = 1..Len(changes)
            /\ DOMAIN changes' = 1..Len(changes')
        BY <1>2 DEF Shared
      <3>4. work[v].previous \in Nat
        BY TypeParts DEF Shape, Work
      <3>5. /\ \A i \in DOMAIN targets : i \in DOMAIN targets'
            /\ \A i \in DOMAIN changes : i \in DOMAIN changes'
            /\ work[v].previous <= Len(targets) =>
                  work[v].previous <= Len(targets')
            /\ work[v].previous < Len(targets) =>
                  work[v].previous < Len(targets')
        BY <3>3, <3>4
      <3>6. work[v].op = "joust" => stored' = stored
        BY <2>2 DEF Shape, JoustOnce
      <3>7. QED BY <3>1, <3>2, <3>5, <3>6 DEF Holds, HoldsAs
    <2>3. QED BY <2>1, <2>2
  <1>5. QED BY <1>1, <1>3, <1>4 DEF Shape

\* What a worker holds while it chooses a strategy, and while it builds.
Plans(l, r, k) ==
    /\ k.previous <= Len(targets)
    /\ l \in {"link", "supersede"} => k.previous < Len(targets)
    /\ l = "supersede" => k.previous # 0
    /\ k.op = "attach" => l \in {"attach", "link"} /\ k.previous = 0
    /\ k.op # "attach" => r.state # "NONE"
    /\ l = "link" => k.fresh.state # "NONE"
    /\ l \in Early \cup {"store"} => k.op = "joust"
    /\ l \in Early => stored = 0
    /\ l = "store" => stored < Candidates

Builds(l, r, b) ==
    /\ r.state # "NONE"
    /\ b.next # 0 /\ ~b.target.superseded
    /\ l \in Aiming => b.id \in DOMAIN targets
    /\ l \in Changing => b.cs \in DOMAIN changes

\* What the shape says of one worker.
LEMMA WorkerParts ==
  ASSUME Shape, NEW w \in Workers
  PROVE  /\ TypeOK /\ Shared /\ Holds(w)
         /\ pc[w] \in Labels /\ row[w] \in MissionRow /\ work[w] \in Work
         /\ build[w] \in Build
         /\ Len(targets) \in Nat /\ Len(changes) \in Nat
         /\ pc[w] # "idle" => mission.state # "NONE"
         /\ pc[w] \in StrategyLabels =>
               build[w] = NoBuild /\ Plans(pc[w], row[w], work[w])
         /\ pc[w] \in BuildLabels =>
               work[w] = NoWork /\ Builds(pc[w], row[w], build[w])
         /\ pc[w] = "idle" => work[w] = NoWork /\ build[w] = NoBuild
  <1>1. /\ TypeOK /\ Shared /\ Holds(w)
        /\ pc[w] \in Labels /\ row[w] \in MissionRow /\ work[w] \in Work
        /\ build[w] \in Build
    BY TypeParts DEF Shape
  <1>2. Len(targets) \in Nat /\ Len(changes) \in Nat
    BY <1>1 DEF Shared
  <1>3. pc[w] # "idle" => mission.state # "NONE"
    BY DEF Shape, JoustOnce
  <1>4. pc[w] \in StrategyLabels =>
               build[w] = NoBuild /\ Plans(pc[w], row[w], work[w])
    BY <1>1, LabelFacts DEF Holds, HoldsAs, Plans
  <1>5. pc[w] \in BuildLabels =>
               work[w] = NoWork /\ Builds(pc[w], row[w], build[w])
    BY <1>1, LabelFacts, NothingTyped DEF Holds, HoldsAs, Builds
  <1>6. pc[w] = "idle" => work[w] = NoWork /\ build[w] = NoBuild
    BY <1>1 DEF Holds, HoldsAs
  <1>7. QED BY <1>1, <1>2, <1>3, <1>4, <1>5, <1>6

\* A step that leaves targets, strategies and change sets alone.
LEMMA TablesKept ==
  ASSUME Shape, NEW w \in Workers, Frame(w), Holds(w)', Shared',
         UNCHANGED <<targets, stored>>,
         changes' = changes,
         mission'.state # "NONE",
         work'[w].op = "joust" =>
             work[w].op = "joust" \/ mission.state = "NONE"
  PROVE  Shape'
  <1>1. Tables'
    BY DEF Shape, Tables, NewestTargetActive
  <1>2. Len(targets) <= Len(targets') /\ Len(changes) <= Len(changes')
    BY WorkerParts
  <1>3. QED BY <1>1, <1>2, StepKeepsShape

\* A worker that plans goes to another label of its own half.
LEMMA PlanStep ==
  ASSUME Shape, NEW w \in Workers, pc[w] \in StrategyLabels \cup {"idle"},
         NEW l \in StrategyLabels, NEW r \in MissionRow, NEW k \in Work,
         Goto(w, l) \/ (l = pc[w] /\ UNCHANGED pc),
         row' = [row EXCEPT ![w] = r] \/ (r = row[w] /\ UNCHANGED row),
         work' = [work EXCEPT ![w] = k] \/ (k = work[w] /\ UNCHANGED work),
         UNCHANGED build, Shared', UNCHANGED <<targets, stored, changes>>,
         mission'.state # "NONE", Plans(l, r, k),
         k.op = "joust" => work[w].op = "joust" \/ mission.state = "NONE"
  PROVE  /\ Shape' /\ Frame(w) /\ pc'[w] = l /\ row'[w] = r /\ work'[w] = k
         /\ build'[w] = NoBuild
  <1>1. TypeOK /\ build[w] = NoBuild /\ l \in Labels /\ build[w] \in Build
    BY WorkerParts, LabelFacts
  <1>2. /\ Frame(w) /\ pc'[w] = l /\ row'[w] = r /\ work'[w] = k
        /\ build'[w] = NoBuild
    BY <1>1, Framed
  <1>3. Plans(l, r, k)'
    BY DEF Plans
  <1>4. Holds(w)'
    BY <1>2, <1>3, LabelFacts, NothingTyped DEF Holds, HoldsAs, Plans
  <1>5. QED BY <1>2, <1>4, TablesKept

\* A worker that builds goes to another label of its own half.
LEMMA BuildStep ==
  ASSUME Shape, NEW w \in Workers, pc[w] \in BuildLabels \cup {"idle"},
         NEW l \in BuildLabels, NEW r \in MissionRow, NEW b \in Build,
         Goto(w, l) \/ (l = pc[w] /\ UNCHANGED pc),
         row' = [row EXCEPT ![w] = r] \/ (r = row[w] /\ UNCHANGED row),
         build' = [build EXCEPT ![w] = b] \/ (b = build[w] /\ UNCHANGED build),
         UNCHANGED work
  PROVE  /\ Frame(w) /\ pc'[w] = l /\ row'[w] = r /\ work'[w] = NoWork
         /\ build'[w] = b
         /\ Builds(l, r, b)' /\ Shared' => Holds(w)'
  <1>1. TypeOK /\ work[w] = NoWork /\ l \in Labels /\ work[w] \in Work
    BY WorkerParts, LabelFacts
  <1>2. /\ Frame(w) /\ pc'[w] = l /\ row'[w] = r /\ work'[w] = NoWork
        /\ build'[w] = b
    BY <1>1, Framed
  <1>3. ASSUME Builds(l, r, b)', Shared' PROVE Holds(w)'
    <2>1. Len(targets') \in Nat
      BY <1>3 DEF Shared
    <2>2. HoldsAs(l, r, NoWork, b)'
      BY <1>3, <2>1, LabelFacts, NothingTyped, StrategyLabelList
         DEF Builds, HoldsAs, BuildLabels
    <2>3. QED BY <1>2, <2>2 DEF Holds, HoldsAs
  <1>4. QED BY <1>2, <1>3

\* A worker that returns, raises or dies holds nothing.
LEMMA StopStep ==
  ASSUME Shape, NEW w \in Workers, Forget(w),
         \/ work' = [work EXCEPT ![w] = NoWork]
         \/ work[w] = NoWork /\ UNCHANGED work,
         \/ build' = [build EXCEPT ![w] = NoBuild]
         \/ build[w] = NoBuild /\ UNCHANGED build
  PROVE  /\ Frame(w) /\ pc'[w] = "idle" /\ row'[w] = NoMission
         /\ work'[w] = NoWork /\ build'[w] = NoBuild
         /\ Shared' => Holds(w)'
  <1>1. TypeOK
    BY WorkerParts
  <1>2. /\ Frame(w) /\ pc'[w] = "idle" /\ row'[w] = NoMission
        /\ work'[w] = NoWork /\ build'[w] = NoBuild
    <2>1. /\ "idle" \in Labels /\ NoMission \in MissionRow
          /\ NoWork \in Work /\ NoBuild \in Build
      BY LabelFacts, NothingTyped
    <2>2. Goto(w, "idle") /\ row' = [row EXCEPT ![w] = NoMission]
      BY DEF Forget
    <2>3. /\ work' = [work EXCEPT ![w] = NoWork]
             \/ (NoWork = work[w] /\ UNCHANGED work)
          /\ build' = [build EXCEPT ![w] = NoBuild]
             \/ (NoBuild = build[w] /\ UNCHANGED build)
      OBVIOUS
    <2>4. QED BY <1>1, <2>1, <2>2, <2>3, Framed
  <1>3. ASSUME Shared' PROVE Holds(w)'
    <2>1. Len(targets') \in Nat
      BY <1>3 DEF Shared
    <2>2. QED BY <1>2, <2>1, LabelFacts, NothingTyped
              DEF Holds, HoldsAs, Early, Aiming, Changing
  <1>4. QED BY <1>2, <1>3

\* A copy of the mission in another state.
LEMMA MovedTyped ==
  ASSUME NEW w \in Workers, row[w] \in MissionRow, NEW s \in MissionState
  PROVE  /\ Moved(w, s) \in MissionRow /\ Moved(w, s).state = s
         /\ Moved(w, s).state # "NONE"
  BY StateFacts DEF Moved, MissionRow

\* The handler of a strategy command returns or raises, with the mission row
\* saved or not.
LEMMA LeaveShape ==
  ASSUME Shape, NEW w \in Workers, pc[w] \in StrategyLabels, Leave(w),
         UNCHANGED build, UNCHANGED <<targets, stored, changes>>, Shared',
         mission'.state # "NONE"
  PROVE  Shape' /\ Frame(w) /\ pc'[w] = "idle"
  <1>1. build[w] = NoBuild
    BY WorkerParts
  <1>2. /\ Frame(w) /\ pc'[w] = "idle" /\ work'[w] = NoWork /\ Holds(w)'
    BY <1>1, StopStep DEF Leave
  <1>3. QED BY <1>2, NothingTyped, TablesKept

\* A model call that is tried again, refused or raises.
LEMMA ModelShape ==
  ASSUME Shape, NEW w \in Workers,
         RetryModel(w) \/ Refused(w) \/ ModelRaises(w), UNCHANGED buildVars
  PROVE  Shape' /\ Frame(w)
  <1> USE Constants
  <1>1. /\ pc[w] \in ModelCalls /\ pc[w] \in StrategyLabels /\ pc[w] # "idle"
        /\ pc[w] \in {"generate", "select", "plan", "reassess"}
    BY StrategyLabelList
       DEF RetryModel, Refused, ModelRaises, ModelCalls
  <1>2. /\ Shared /\ row[w] \in MissionRow /\ work[w] \in Work
        /\ mission.state # "NONE" /\ Plans(pc[w], row[w], work[w])
    BY <1>1, WorkerParts
  <1>3. UNCHANGED <<targets, stored, changes, build, mission>>
    BY DEF RetryModel, Refused, ModelRaises, tables, strategyTables, buildVars,
           buildTables
  <1>4. Shared'
    BY <1>2 DEF RetryModel, Refused, ModelRaises, tables, strategyTables,
           bounds, buildVars, buildTables, checkout, Shared
  <1>5. ASSUME NEW n \in 1..MaxAttempts
        PROVE  /\ [work[w] EXCEPT !.tries = n] \in Work
               /\ [work[w] EXCEPT !.tries = n].op = work[w].op
               /\ [work[w] EXCEPT !.tries = n].previous = work[w].previous
               /\ [work[w] EXCEPT !.tries = n].fresh = work[w].fresh
    <2>1. PICK k \in Work : k = work[w]
      BY <1>2
    <2>2. [k EXCEPT !.tries = n] \in Work
      BY <1>5 DEF Work
    <2>3. /\ [k EXCEPT !.tries = n].op = k.op
          /\ [k EXCEPT !.tries = n].previous = k.previous
          /\ [k EXCEPT !.tries = n].fresh = k.fresh
      BY DEF Work
    <2>4. QED BY <2>1, <2>2, <2>3
  <1>6. CASE RetryModel(w)
    <2> DEFINE k == [work[w] EXCEPT !.tries = work[w].tries + 1]
    <2>1. work[w].tries + 1 \in 1..MaxAttempts
      <3>1. work[w].tries \in 1..MaxAttempts
        BY <1>2 DEF Work
      <3>2. work[w].tries < MaxAttempts
        BY <1>6 DEF RetryModel
      <3>3. QED BY <3>1, <3>2
    <2>2. /\ k \in Work /\ k.op = work[w].op
          /\ k.previous = work[w].previous /\ k.fresh = work[w].fresh
      BY <1>5, <2>1
    <2>3. work' = [work EXCEPT ![w] = k] /\ UNCHANGED <<pc, row>>
      BY <1>6 DEF RetryModel
    <2> HIDE DEF k
    <2>4. Plans(pc[w], row[w], k)
      BY <1>2, <2>2 DEF Plans
    <2>5. QED BY <1>1, <1>2, <1>3, <1>4, <2>2, <2>3, <2>4, PlanStep
  <1>7. CASE Refused(w) /\ pc[w] # "reassess"
    <2> DEFINE k == [work[w] EXCEPT !.tries = 1]
    <2>1. /\ k \in Work /\ k.op = work[w].op
          /\ k.previous = work[w].previous /\ k.fresh = work[w].fresh
      BY <1>5
    <2>2. /\ work' = [work EXCEPT ![w] = k] /\ Goto(w, "block")
          /\ UNCHANGED row
      BY <1>7 DEF Refused, Answered
    <2> HIDE DEF k
    <2>3. Plans("block", row[w], k)
      BY <1>1, <1>2, <2>1 DEF Plans, Early
    <2>4. "block" \in StrategyLabels
      BY StrategyLabelList
    <2>5. QED BY <1>1, <1>2, <1>3, <1>4, <2>1, <2>2, <2>3, <2>4, PlanStep
  <1>8. CASE Leave(w)
    BY <1>1, <1>2, <1>3, <1>4, <1>8, LeaveShape
  <1>9. QED BY <1>6, <1>7, <1>8 DEF RetryModel, Refused, ModelRaises

\* A worker moves on with its copy and its work as they are, the mission row
\* saved from a copy or left alone.
LEMMA PlanMove ==
  ASSUME Shape, NEW w \in Workers, pc[w] \in StrategyLabels,
         NEW l \in StrategyLabels, Goto(w, l), UNCHANGED <<row, work, build>>,
         Shared', UNCHANGED <<targets, stored, changes>>,
         mission'.state # "NONE", Plans(l, row[w], work[w])
  PROVE  Shape' /\ Frame(w) /\ pc'[w] = l
  <1>1. row[w] \in MissionRow /\ work[w] \in Work
    BY WorkerParts
  <1>2. QED BY <1>1, PlanStep

\* The steps of joust_it and of a strategy handler that change at most the
\* mission row and the specification.
LEMMA JoustSteps ==
  ASSUME Shape, NEW w \in Workers,
         \/ Block(w) \/ Discover(w) \/ SaveSpec(w) \/ SaveRules(w)
         \/ Deadline(w),
         UNCHANGED buildVars
  PROVE  Shape' /\ Frame(w)
  <1>1. pc[w] \in StrategyLabels /\ pc[w] \notin {"idle", "attach", "link"}
    BY StrategyLabelList DEF Block, Discover, SaveSpec, SaveRules, Deadline
  <1>2. /\ Shared /\ row[w] \in MissionRow /\ work[w] \in Work
        /\ mission.state # "NONE" /\ Plans(pc[w], row[w], work[w])
    BY <1>1, WorkerParts
  <1>3. row[w].state # "NONE"
    BY <1>1, <1>2 DEF Plans
  <1>4. UNCHANGED <<targets, stored, changes, build, row, work>>
    BY DEF Block, Discover, SaveSpec, SaveRules, Deadline, tables,
           strategyVars, strategyTables, buildVars, buildTables
  <1>5. mission' \in MissionRow /\ mission'.state # "NONE"
    <2>1. mission' = mission \/ mission' = row[w]
      BY DEF Block, Discover, SaveSpec, SaveRules, Deadline, tables
    <2>2. mission \in MissionRow
      BY <1>2 DEF Shared
    <2>3. QED BY <1>2, <1>3, <2>1, <2>2
  <1>6. spec' \in BOOLEAN
    BY <1>2 DEF Block, Discover, SaveSpec, SaveRules, Deadline, tables, Shared
  <1>7. Shared'
    <2>1. UNCHANGED <<bounds, strategyVars, buildVars, targets>>
      BY DEF Block, Discover, SaveSpec, SaveRules, Deadline, tables
    <2>2. QED BY <1>2, <1>5, <1>6, <2>1
              DEF Shared, bounds, strategyVars, strategyTables, buildVars,
                  buildTables, checkout
  <1>8. PICK l \in {"blocked", "block", "save_spec", "save_rules", "deadline",
                    "rules_lock"} :
            /\ Goto(w, l)
            /\ l \in Early => pc[w] \in Early
    BY DEF Block, Discover, SaveSpec, SaveRules, Deadline, Early
  <1>9. /\ l \in StrategyLabels
        /\ l \notin {"link", "supersede", "store", "attach"}
    BY StrategyLabelList
  <1>10. Plans(l, row[w], work[w])
    BY <1>1, <1>2, <1>8, <1>9 DEF Plans
  <1>11. QED BY <1>1, <1>4, <1>5, <1>7, <1>8, <1>9, <1>10, PlanMove

\* joust_it creates the mission.
LEMMA JoustShape ==
  ASSUME Shape, NEW w \in Workers, Joust(w), UNCHANGED buildVars
  PROVE  Shape' /\ Frame(w)
  <1> DEFINE r == [NoMission EXCEPT !.state = "CREATED"]
             k == [work[w] EXCEPT !.op = "joust"]
  <1>1. pc[w] = "idle" /\ mission.state = "NONE"
    BY DEF Joust, MayStart
  <1>2. Shared /\ work[w] = NoWork /\ stored = 0 /\ Len(targets) \in Nat
    BY <1>1, WorkerParts DEF Shape, JoustOnce
  <1>3. r \in MissionRow /\ r.state = "CREATED"
    BY StateFacts, NothingTyped DEF NoMission, MissionRow
  <1>4. k \in Work /\ k.op = "joust" /\ k.previous = 0
    BY <1>2, NothingTyped DEF NoWork, Work
  <1>5. /\ Goto(w, "intake") /\ mission' = r /\ row' = [row EXCEPT ![w] = r]
        /\ work' = [work EXCEPT ![w] = k]
        /\ UNCHANGED <<targets, stored, changes, build>>
    BY DEF Joust, strategyTables, buildVars, buildTables
  <1> HIDE DEF r, k
  <1>6. Shared'
    BY <1>2, <1>3, <1>5
       DEF Joust, Shared, bounds, strategyTables, buildVars, buildTables,
           checkout
  <1>7. Plans("intake", r, k)
    BY <1>2, <1>3, <1>4 DEF Plans, Early
  <1>8. "intake" \in StrategyLabels
    BY StrategyLabelList
  <1>9. mission'.state # "NONE"
    BY <1>3, <1>5
  <1>10. QED BY <1>1, <1>3, <1>4, <1>5, <1>6, <1>7, <1>8, <1>9, PlanStep

\* transition_state of joust_it.
LEMMA AdvanceShape ==
  ASSUME Shape, NEW w \in Workers, Advance(w), UNCHANGED buildVars
  PROVE  Shape' /\ Frame(w)
  <1> DEFINE s == Phase[pc[w]][1]
             l == Phase[pc[w]][2]
             r == Moved(w, s)
  <1>1. /\ pc[w] \in StrategyLabels /\ s \in MissionState
        /\ l \in {"discovery", "discover", "landscape", "ideation",
                  "generate", "decide", "plan", "leave"}
        /\ l \in Early => pc[w] \in Early
    <2>1. pc[w] \in DOMAIN Phase
      BY DEF Advance
    <2>2. QED BY <2>1, PhaseFacts, StateFacts
  <1>2. pc[w] \in DOMAIN Phase /\ pc[w] \notin {"attach", "link", "idle"}
    BY DEF Advance, Phase
  <1>3. /\ Shared /\ row[w] \in MissionRow /\ work[w] \in Work
        /\ mission.state # "NONE" /\ Plans(pc[w], row[w], work[w])
    BY <1>1, <1>2, WorkerParts
  <1>4. UNCHANGED <<targets, stored, changes, build>>
    BY DEF Advance, strategyTables, buildVars, buildTables
  <1>5. r \in MissionRow /\ r.state # "NONE"
    BY <1>1, <1>3, MovedTyped
  <1>6. /\ mission' \in {mission, r}
        /\ \/ Leave(w)
           \/ /\ l # "leave" /\ mission' = r /\ row' = [row EXCEPT ![w] = r]
              /\ Goto(w, l) /\ UNCHANGED work
    BY DEF Advance
  <1>7. mission' \in MissionRow /\ mission'.state # "NONE"
    BY <1>3, <1>5, <1>6 DEF Shared
  <1>8. Shared'
    BY <1>3, <1>7
       DEF Advance, Shared, bounds, strategyTables, buildVars, buildTables,
           checkout
  <1> HIDE DEF s, l, r
  <1>9. CASE Leave(w)
    BY <1>1, <1>4, <1>7, <1>8, <1>9, LeaveShape
  <1>10. CASE /\ l # "leave" /\ mission' = r /\ row' = [row EXCEPT ![w] = r]
              /\ Goto(w, l) /\ UNCHANGED work
    <2>1. l \in StrategyLabels
      BY <1>1, <1>10, StrategyLabelList
    <2>2. Plans(l, r, work[w])
      BY <1>1, <1>2, <1>3, <1>5, <1>10 DEF Plans
    <2>3. QED BY <1>1, <1>3, <1>4, <1>5, <1>7, <1>8, <1>10, <2>1, <2>2,
                 PlanStep
  <1>11. QED BY <1>6, <1>9, <1>10

\* A worker's work after a model call.
LEMMA AnsweredTyped ==
  ASSUME NEW k \in Work, NEW n \in 1..MaxAttempts, NEW s \in 0..Candidates
  PROVE  /\ [k EXCEPT !.tries = n] \in Work
         /\ [k EXCEPT !.tries = n].op = k.op
         /\ [k EXCEPT !.tries = n].previous = k.previous
         /\ [k EXCEPT !.tries = n].old = k.old
         /\ [k EXCEPT !.sel = s, !.tries = n] \in Work
         /\ [k EXCEPT !.sel = s, !.tries = n].op = k.op
         /\ [k EXCEPT !.sel = s, !.tries = n].previous = k.previous
         /\ [k EXCEPT !.sel = s, !.tries = n].old = k.old
  <1>1. /\ [k EXCEPT !.tries = n] \in Work
        /\ [k EXCEPT !.tries = n].op = k.op
        /\ [k EXCEPT !.tries = n].previous = k.previous
        /\ [k EXCEPT !.tries = n].old = k.old
    BY DEF Work
  <1>2. /\ [k EXCEPT !.sel = s, !.tries = n] \in Work
        /\ [k EXCEPT !.sel = s, !.tries = n].op = k.op
        /\ [k EXCEPT !.sel = s, !.tries = n].previous = k.previous
        /\ [k EXCEPT !.sel = s, !.tries = n].old = k.old
    BY DEF Work
  <1>3. QED BY <1>1, <1>2

\* A model's answer: the candidates, the plan, or the choice among candidates.
LEMMA AnswerShape ==
  ASSUME Shape, NEW w \in Workers,
         Generate(w) \/ Plan(w) \/ Select(w) \/ Reassess(w),
         UNCHANGED buildVars
  PROVE  Shape' /\ Frame(w)
  <1> USE Constants
  <1>1. /\ pc[w] \in StrategyLabels
        /\ pc[w] \in {"generate", "plan", "select", "reassess"}
    BY StrategyLabelList DEF Generate, Plan, Select, Reassess
  <1>2. /\ Shared /\ row[w] \in MissionRow /\ work[w] \in Work
        /\ mission.state # "NONE" /\ Plans(pc[w], row[w], work[w])
    BY <1>1, WorkerParts
  <1>3. UNCHANGED <<mission, targets, stored, changes, build, row>>
    BY DEF Generate, Plan, Select, Reassess, Choose, tables, strategyTables,
           buildVars, buildTables
  <1>4. PICK l \in {"store", "attach", "selection", "activate"} :
           /\ Goto(w, l)
           /\ l = "store" => pc[w] = "generate"
    BY DEF Generate, Plan, Select, Reassess, Choose
  <1>5. l \in StrategyLabels
    BY StrategyLabelList
  <1>6. /\ UNCHANGED <<spec, bounds, checkout, runs>>
        /\ \E s \in 0..Candidates :
              work' = [work EXCEPT ![w].sel = s, ![w].tries = 1]
              \/ work' = [work EXCEPT ![w].tries = 1]
        /\ \/ chosen' = chosen
           \/ \E s \in 1..Candidates : chosen' = Append(chosen, s)
    <2>1. CASE Generate(w) \/ Plan(w)
      BY <2>1 DEF Generate, Plan, Answered, tables, strategyTables,
                  buildVars, buildTables
    <2>2. CASE Select(w)
      <3>1. PICK s \in 1..Candidates :
               /\ work' = [work EXCEPT ![w].sel = s, ![w].tries = 1]
               /\ chosen' = Append(chosen, s)
        BY <2>2 DEF Select, Choose
      <3>2. s \in 0..Candidates
        OBVIOUS
      <3>3. QED BY <2>2, <3>1, <3>2
                DEF Select, Choose, tables, buildVars, buildTables
    <2>3. CASE Reassess(w)
      <3>1. work[w].seen \in 0..Candidates
        BY <1>2 DEF Work
      <3>2. PICK s \in 1..work[w].seen :
               /\ work' = [work EXCEPT ![w].sel = s, ![w].tries = 1]
               /\ chosen' = Append(chosen, s)
        BY <2>3 DEF Reassess, Choose
      <3>3. s \in 0..Candidates /\ s \in 1..Candidates
        BY <3>1
      <3>4. QED BY <2>3, <3>2, <3>3
                DEF Reassess, Choose, tables, buildVars, buildTables
    <2>4. QED BY <2>1, <2>2, <2>3
  <1>7. chosen' \in Seq(1..Candidates)
    <2>1. chosen \in Seq(1..Candidates)
      BY <1>2 DEF Shared
    <2>2. CASE chosen' = chosen
      BY <2>1, <2>2
    <2>3. ASSUME NEW s \in 1..Candidates, chosen' = Append(chosen, s)
          PROVE  chosen' \in Seq(1..Candidates)
      BY <2>1, <2>3, AppendProperties
    <2>4. QED BY <1>6, <2>2, <2>3
  <1>8. Shared'
    BY <1>2, <1>3, <1>6, <1>7 DEF Shared, bounds, checkout
  <1>9. PICK k \in Work :
           /\ work' = [work EXCEPT ![w] = k] /\ k.op = work[w].op
           /\ k.previous = work[w].previous
    <2>1. PICK s \in 0..Candidates :
              work' = [work EXCEPT ![w].sel = s, ![w].tries = 1]
              \/ work' = [work EXCEPT ![w].tries = 1]
      BY <1>6
    <2>2. 1 \in 1..MaxAttempts
      OBVIOUS
    <2> DEFINE k1 == [work[w] EXCEPT !.tries = 1]
               k2 == [work[w] EXCEPT !.sel = s, !.tries = 1]
    <2>3. /\ k1 \in Work /\ k1.op = work[w].op
          /\ k1.previous = work[w].previous
          /\ k2 \in Work /\ k2.op = work[w].op
          /\ k2.previous = work[w].previous
      BY <1>2, <2>2, AnsweredTyped
    <2>4. work' = [work EXCEPT ![w] = k1] \/ work' = [work EXCEPT ![w] = k2]
      BY <2>1
    <2> HIDE DEF k1, k2
    <2>5. QED BY <2>3, <2>4
  <1>10. Plans(l, row[w], k)
    <2>1. pc[w] = "generate" => stored = 0
      BY <1>2 DEF Plans, Early
    <2>2. QED BY <1>1, <1>2, <1>4, <1>9, <2>1 DEF Plans, Early
  <1>11. QED BY <1>1, <1>2, <1>3, <1>4, <1>5, <1>8, <1>9, <1>10, PlanStep

\* strategize stores one more candidate.
LEMMA StoreShape ==
  ASSUME Shape, NEW w \in Workers, Store(w), UNCHANGED buildVars
  PROVE  Shape' /\ Frame(w)
  <1> USE Constants
  <1>1. /\ pc[w] = "store" /\ "store" \in StrategyLabels
        /\ "select" \in StrategyLabels
    BY StrategyLabelList DEF Store
  <1>2. /\ TypeOK /\ Shared /\ row[w] \in MissionRow /\ work[w] \in Work
        /\ mission.state # "NONE" /\ Plans("store", row[w], work[w])
        /\ build[w] = NoBuild /\ build[w] \in Build
    BY <1>1, WorkerParts
  <1>3. stored < Candidates /\ stored \in Nat /\ work[w].op = "joust"
    BY <1>2 DEF Plans, Shared
  <1>4. /\ stored' = stored + 1
        /\ UNCHANGED <<tables, row, bounds, chosen, work>>
        /\ UNCHANGED <<targets, mission, changes, build>>
    BY DEF Store, tables, buildVars, buildTables
  <1>5. PICK l \in {"select", "store"} :
           Goto(w, l) /\ (l = "store" => stored' # Candidates)
    BY DEF Store
  <1>6. l \in Labels
    BY <1>1, LabelFacts
  <1>7. /\ Frame(w) /\ pc'[w] = l /\ row'[w] = row[w] /\ work'[w] = work[w]
        /\ build'[w] = NoBuild
    BY <1>2, <1>4, <1>5, <1>6, Framed
  <1>8. Shared'
    BY <1>2, <1>3, <1>4
       DEF Shared, tables, bounds, buildVars, buildTables, checkout
  <1>9. Tables'
    BY <1>4 DEF Shape, Tables, NewestTargetActive
  <1>10. Plans(l, row[w], work[w])'
    BY <1>2, <1>3, <1>4, <1>5 DEF Plans, Early
  <1>11. Holds(w)'
    BY <1>1, <1>7, <1>10, LabelFacts, NothingTyped DEF Holds, HoldsAs, Plans
  <1>12. Len(targets) <= Len(targets') /\ Len(changes) <= Len(changes')
    BY <1>4, WorkerParts
  <1>13. QED BY <1>2, <1>3, <1>4, <1>7, <1>8, <1>9, <1>11, <1>12,
                StepKeepsShape

\* The mission names the strategy that was chosen.
LEMMA ActivateShape ==
  ASSUME Shape, NEW w \in Workers, Decide(w) \/ Reactivate(w),
         UNCHANGED buildVars
  PROVE  Shape' /\ Frame(w)
  <1>1. /\ pc[w] \in StrategyLabels
        /\ pc[w] \in {"decide", "activate"}
    BY StrategyLabelList DEF Decide, Reactivate, Activate
  <1>2. /\ Shared /\ row[w] \in MissionRow /\ work[w] \in Work
        /\ mission.state # "NONE" /\ Plans(pc[w], row[w], work[w])
        /\ row \in [Workers -> MissionRow]
    BY <1>1, WorkerParts, TypeParts
  <1> DEFINE r == [row[w] EXCEPT !.active = work[w].sel]
  <1>3. r \in MissionRow /\ r.state = row[w].state
    BY <1>2 DEF Work, MissionRow
  <1>4. row' = [row EXCEPT ![w] = r] /\ mission' = r
    BY <1>2 DEF Decide, Reactivate, Activate
  <1>5. UNCHANGED <<targets, spec, bounds, strategyVars, buildVars>>
    BY DEF Decide, Reactivate, Activate
  <1> HIDE DEF r
  <1>6. Shared'
    BY <1>2, <1>3, <1>4, <1>5
       DEF Shared, bounds, strategyVars, strategyTables, buildVars,
           buildTables, checkout
  <1>7. PICK l \in {"planning", "compare"} : Goto(w, l)
    BY DEF Decide, Reactivate, Activate
  <1>8. l \in StrategyLabels
    BY StrategyLabelList
  <1>9. Plans(l, r, work[w]) /\ r.state # "NONE"
    BY <1>1, <1>2, <1>3 DEF Plans, Early
  <1>10. QED BY <1>1, <1>2, <1>3, <1>4, <1>5, <1>6, <1>7, <1>8, <1>9, PlanStep
             DEF strategyVars, strategyTables, buildVars, buildTables

\* The command line attaches a project.
LEMMA AttachProjectShape ==
  ASSUME Shape, NEW w \in Workers, AttachProject(w), UNCHANGED buildVars
  PROVE  Shape' /\ Frame(w)
  <1> DEFINE k == [work[w] EXCEPT !.op = "attach"]
  <1>1. pc[w] = "idle" /\ mission.state # "NONE" /\ commands' = commands + 1
    BY DEF AttachProject, Command, MayStart
  <1>2. /\ Shared /\ work[w] = NoWork /\ row[w] \in MissionRow
        /\ Len(targets) \in Nat
    BY <1>1, WorkerParts
  <1>3. k \in Work /\ k.op = "attach" /\ k.previous = 0
    BY <1>2, NothingTyped DEF NoWork, Work
  <1>4. /\ Goto(w, "attach") /\ work' = [work EXCEPT ![w] = k]
        /\ UNCHANGED <<mission, targets, spec, row, crashes, stored, chosen,
                       checkout, changes, runs, build>>
    BY DEF AttachProject, tables, strategyTables, buildVars, buildTables
  <1> HIDE DEF k
  <1>5. Shared'
    BY <1>1, <1>2, <1>4 DEF Shared, checkout
  <1>6. Plans("attach", row[w], k)
    BY <1>2, <1>3 DEF Plans, Early
  <1>7. "attach" \in StrategyLabels
    BY StrategyLabelList
  <1>8. QED BY <1>1, <1>2, <1>3, <1>4, <1>5, <1>6, <1>7, PlanStep

\* attach_project_target saves a new target.
LEMMA AttachFacts ==
  ASSUME Shape, NEW w \in Workers, Attach(w)
  PROVE  /\ targets' \in Seq(TargetRow) /\ Len(targets') = Len(targets) + 1
         /\ DOMAIN targets \subseteq DOMAIN targets'
         /\ \A t \in DOMAIN targets : targets'[t] = targets[t]
         /\ targets'[Len(targets')].superseded = FALSE
         /\ targets'[Len(targets')].final = 0
  <1>1. Shared /\ work[w] \in Work /\ targets \in Seq(TargetRow)
    BY WorkerParts DEF Shared
  <1> DEFINE n == NewTarget(work[w].sel)
  <1>2. n \in TargetRow /\ n.superseded = FALSE /\ n.final = 0
    BY <1>1 DEF Work, NewTarget, TargetRow
  <1>3. targets' = Append(targets, n)
    BY DEF Attach
  <1> HIDE DEF n
  <1>4. /\ targets' \in Seq(TargetRow) /\ Len(targets') = Len(targets) + 1
        /\ \A t \in 1..Len(targets) : targets'[t] = targets[t]
        /\ targets'[Len(targets) + 1] = n
    BY <1>1, <1>2, <1>3, AppendProperties
  <1>5. /\ Len(targets) \in Nat /\ DOMAIN targets = 1..Len(targets)
        /\ DOMAIN targets' = 1..Len(targets')
    BY <1>1, <1>4
  <1>6. QED BY <1>2, <1>4, <1>5

\* So the new target is the newest, and it is not superseded.
LEMMA AttachShape ==
  ASSUME Shape, NEW w \in Workers, Attach(w), UNCHANGED buildVars
  PROVE  Shape' /\ Frame(w)
  <1> USE Constants
  <1>1. /\ pc[w] = "attach" /\ "attach" \in StrategyLabels
        /\ "link" \in StrategyLabels /\ "link" \in Labels
    BY StrategyLabelList, LabelFacts DEF Attach
  <1>2. /\ TypeOK /\ Shared /\ row[w] \in MissionRow /\ work[w] \in Work
        /\ mission.state # "NONE" /\ Plans("attach", row[w], work[w])
        /\ build[w] = NoBuild /\ build[w] \in Build
        /\ Len(targets) \in Nat /\ Len(changes) \in Nat
    BY <1>1, WorkerParts
  <1>3. /\ targets' \in Seq(TargetRow) /\ Len(targets') = Len(targets) + 1
        /\ DOMAIN targets \subseteq DOMAIN targets'
        /\ targets'[Len(targets')].superseded = FALSE
    BY AttachFacts
  <1> DEFINE n == Len(targets')
             f == [mission EXCEPT !.target = n]
             k0 == [work[w] EXCEPT !.fresh = f]
  <1>4. n \in Nat /\ mission \in MissionRow
    BY <1>2, <1>3 DEF Shared
  <1>5. work' = [work EXCEPT ![w] = k0]
    BY DEF Attach
  <1> HIDE DEF n
  <1>6. f \in MissionRow /\ f.state # "NONE"
    BY <1>2, <1>4 DEF MissionRow
  <1> HIDE DEF f
  <1>7. /\ k0 \in Work /\ k0.op = work[w].op /\ k0.previous = work[w].previous
        /\ k0.fresh.state # "NONE"
    BY <1>2, <1>6 DEF Work
  <1> HIDE DEF k0
  <1>8. PICK k \in Work :
           /\ work' = [work EXCEPT ![w] = k] /\ k.op = work[w].op
           /\ k.previous = work[w].previous /\ k.fresh.state # "NONE"
    BY <1>5, <1>7
  <1>9. /\ Goto(w, "link")
        /\ UNCHANGED <<mission, spec, row, bounds, stored, chosen, build,
                       checkout, changes, runs>>
    BY DEF Attach, strategyTables, buildVars, buildTables
  <1>10. /\ Frame(w) /\ pc'[w] = "link" /\ row'[w] = row[w] /\ work'[w] = k
        /\ build'[w] = NoBuild
    BY <1>1, <1>2, <1>8, <1>9, Framed
  <1>11. Shared'
    BY <1>2, <1>3, <1>9 DEF Shared, bounds, checkout
  <1>12. Tables'
    <2>1. Len(targets') <= MaxTargets
      BY <1>2, <1>3 DEF Attach
    <2>2. \A c \in DOMAIN changes' : changes'[c].target \in DOMAIN targets'
      BY <1>3, <1>9 DEF Shape, Tables
    <2>3. QED BY <1>3, <2>1, <2>2 DEF Tables, NewestTargetActive
  <1>13. /\ k.previous < Len(targets') /\ k.previous <= Len(targets')
         /\ k.op = "attach" => k.previous = 0
         /\ k.op # "attach" => row[w].state # "NONE"
    <2>1. k.previous \in Nat /\ k.previous <= Len(targets)
      BY <1>2, <1>8 DEF Plans, Work
    <2>2. QED BY <1>2, <1>3, <1>8, <2>1 DEF Plans
  <1>14. Holds(w)'
    BY <1>1, <1>8, <1>10, <1>13, LabelFacts, NothingTyped
       DEF Holds, HoldsAs, Early
  <1>15. Len(targets) <= Len(targets') /\ Len(changes) <= Len(changes')
    BY <1>2, <1>3, <1>9
  <1>16. QED BY <1>2, <1>8, <1>9, <1>10, <1>11, <1>12, <1>14, <1>15,
                StepKeepsShape

\* The mission is saved with its new target.
LEMMA LinkShape ==
  ASSUME Shape, NEW w \in Workers, Link(w), UNCHANGED buildVars
  PROVE  Shape' /\ Frame(w)
  <1>1. /\ pc[w] = "link" /\ "link" \in StrategyLabels
        /\ "building" \in StrategyLabels /\ "supersede" \in StrategyLabels
    BY StrategyLabelList DEF Link
  <1>2. /\ Shared /\ row[w] \in MissionRow /\ work[w] \in Work
        /\ mission.state # "NONE" /\ Plans("link", row[w], work[w])
    BY <1>1, WorkerParts
  <1>3. /\ mission' = work[w].fresh
        /\ UNCHANGED <<targets, spec, bounds, stored, chosen, checkout,
                       changes, runs, build>>
    BY DEF Link, strategyTables, buildVars, buildTables
  <1>4. mission' \in MissionRow /\ mission'.state # "NONE"
    BY <1>2, <1>3 DEF Plans, Work
  <1>5. Shared'
    BY <1>2, <1>3, <1>4 DEF Shared, bounds, checkout
  <1>6. CASE work[w].op = "joust"
    <2>1. Plans("building", row[w], work[w])
      BY <1>2, <1>6 DEF Plans, Early
    <2>2. Goto(w, "building") /\ UNCHANGED <<row, work>>
      BY <1>6 DEF Link
    <2>3. QED BY <1>1, <1>3, <1>4, <1>5, <2>1, <2>2, PlanMove
  <1>7. CASE work[w].op # "joust" /\ work[w].previous # 0
    <2>1. Goto(w, "supersede") /\ UNCHANGED <<row, work>>
      BY <1>7 DEF Link
    <2>2. work[w].op # "attach"
      BY <1>2, <1>7 DEF Plans
    <2>3. Plans("supersede", row[w], work[w])
      BY <1>2, <1>7, <2>2 DEF Plans, Early
    <2>4. QED BY <1>1, <1>3, <1>4, <1>5, <2>1, <2>3, PlanMove
  <1>8. CASE work[w].op # "joust" /\ work[w].previous = 0
    <2>1. Leave(w)
      BY <1>8 DEF Link
    <2>2. QED BY <1>1, <1>3, <1>4, <1>5, <2>1, LeaveShape
  <1>9. QED BY <1>6, <1>7, <1>8

\* The strategy that was current is one of the candidates, or none.
LEMMA CurrentTyped ==
  ASSUME chosen \in Seq(1..Candidates)
  PROVE  Current \in 0..Candidates
  <1> USE Constants
  <1>1. CASE chosen = <<>>
    BY <1>1 DEF Current
  <1>2. CASE chosen # <<>>
    <2>1. Len(chosen) \in DOMAIN chosen
      BY <1>2
    <2>2. chosen[Len(chosen)] \in 1..Candidates
      BY <2>1
    <2>3. QED BY <1>2, <2>2 DEF Current
  <1>3. QED BY <1>1, <1>2

\* redirect reads the mission and what is stored of its strategies.
LEMMA RedirectShape ==
  ASSUME Shape, NEW w \in Workers, Redirect(w), UNCHANGED buildVars
  PROVE  Shape' /\ Frame(w)
  <1> USE Constants
  <1> DEFINE k == [NoWork EXCEPT !.op = "redirect", !.seen = stored,
                                 !.before = Current]
  <1>1. pc[w] = "idle" /\ stored > 0 /\ commands' = commands + 1
    BY DEF Redirect, Command, MayStart
  <1>2. Shared /\ work[w] = NoWork /\ Len(targets) \in Nat
    BY <1>1, WorkerParts
  <1>3. mission.state # "NONE" /\ mission \in MissionRow
    BY <1>1, <1>2 DEF Shape, JoustOnce, Shared
  <1>4. k \in Work /\ k.op = "redirect" /\ k.previous = 0
    <2>1. stored \in 0..Candidates /\ Current \in 0..Candidates
      BY <1>2, CurrentTyped DEF Shared
    <2>2. QED BY <2>1, NothingTyped DEF NoWork, Work
  <1>5. /\ Goto(w, "reassess") /\ work' = [work EXCEPT ![w] = k]
        /\ row' = [row EXCEPT ![w] = mission]
        /\ UNCHANGED <<mission, targets, spec, crashes, stored, chosen,
                       checkout, changes, runs, build>>
    BY DEF Redirect, tables, strategyTables, buildVars, buildTables
  <1> HIDE DEF k
  <1>6. Shared'
    BY <1>1, <1>2, <1>5 DEF Shared, checkout
  <1>7. Plans("reassess", mission, k)
    BY <1>2, <1>3, <1>4 DEF Plans, Early
  <1>8. "reassess" \in StrategyLabels
    BY StrategyLabelList
  <1>9. QED BY <1>1, <1>3, <1>4, <1>5, <1>6, <1>7, <1>8, PlanStep

\* redirect looks up the target that is active before it plans another.
LEMMA CompareShape ==
  ASSUME Shape, NEW w \in Workers, Compare(w), UNCHANGED buildVars
  PROVE  Shape' /\ Frame(w)
  <1>1. /\ pc[w] = "compare" /\ "compare" \in StrategyLabels
        /\ "plan" \in StrategyLabels
    BY StrategyLabelList DEF Compare
  <1>2. /\ Shared /\ row[w] \in MissionRow /\ work[w] \in Work
        /\ mission.state # "NONE" /\ Plans("compare", row[w], work[w])
        /\ Len(targets) \in Nat /\ targets \in Seq(TargetRow)
    BY <1>1, WorkerParts DEF Shared
  <1>3. UNCHANGED <<mission, targets, spec, bounds, stored, chosen,
                    checkout, changes, runs, build>>
    BY DEF Compare, tables, strategyTables, buildVars, buildTables
  <1>4. Shared'
    BY <1>2, <1>3 DEF Shared, bounds, checkout
  <1>5. CASE Leave(w)
    BY <1>1, <1>2, <1>3, <1>4, <1>5, LeaveShape
  <1>6. CASE ~Leave(w)
    <2> DEFINE p == ActiveTarget
               o == IF p = 0 THEN work[w].old ELSE targets[p]
               k == [work[w] EXCEPT !.previous = p, !.old = o]
    <2>1. work' = [work EXCEPT ![w] = k] /\ Goto(w, "plan") /\ UNCHANGED row
      BY <1>6 DEF Compare
    <2>2. p \in Nat /\ (p # 0 => p \in DOMAIN targets)
      BY <1>2, ActiveTargetFacts
    <2> HIDE DEF p
    <2>3. p <= Len(targets)
      BY <1>2, <2>2
    <2>4. o \in TargetRow
      <3>1. work[w].old \in TargetRow
        BY <1>2 DEF Work
      <3>2. p # 0 => targets[p] \in TargetRow
        BY <1>2, <2>2
      <3>3. QED BY <3>1, <3>2
    <2> HIDE DEF o
    <2>5. k \in Work /\ k.op = work[w].op /\ k.previous = p
      BY <1>2, <2>2, <2>4 DEF Work
    <2> HIDE DEF k
    <2>6. Plans("plan", row[w], k)
      BY <1>2, <2>3, <2>5 DEF Plans, Early
    <2>7. QED BY <1>1, <1>2, <1>3, <1>4, <2>1, <2>5, <2>6, PlanStep
  <1>7. QED BY <1>5, <1>6

\* A save of one target row that leaves the newest target active, with the rest
\* of the tables alone.
LEMMA SavedTarget ==
  ASSUME Shape, NEW w \in Workers, NEW i \in DOMAIN targets,
         NEW x \in TargetRow, i = Len(targets) => ~x.superseded,
         targets' = [targets EXCEPT ![i] = x],
         UNCHANGED <<mission, spec, bounds, stored, chosen, checkout,
                     changes, runs>>
  PROVE  /\ Shared' /\ Tables'
         /\ DOMAIN targets' = DOMAIN targets /\ Len(targets') = Len(targets)
         /\ targets'[i] = x
         /\ \A j \in DOMAIN targets : j # i => targets'[j] = targets[j]
  <1>1. Shared /\ targets \in Seq(TargetRow)
    BY WorkerParts DEF Shared
  <1>2. /\ targets' \in Seq(TargetRow) /\ Len(targets') = Len(targets)
        /\ DOMAIN targets' = DOMAIN targets
        /\ targets'[i] = x
        /\ \A j \in DOMAIN targets : j # i => targets'[j] = targets[j]
    BY <1>1, ReplacedIsTable
  <1>3. Shared'
    BY <1>1, <1>2 DEF Shared, bounds, checkout
  <1>4. NewestTargetActive'
    <2>1. Len(targets) \in DOMAIN targets
      <3>1. Len(targets) \in Nat /\ i \in 1..Len(targets)
            /\ DOMAIN targets = 1..Len(targets)
        BY <1>1
      <3>2. QED BY <3>1
    <2>2. targets # <<>>
      BY <1>1
    <2>3. ~targets[Len(targets)].superseded
      BY <2>2 DEF Shape, Tables, NewestTargetActive
    <2>4. QED BY <1>2, <2>1, <2>3 DEF NewestTargetActive
  <1>5. Tables'
    BY <1>2, <1>4 DEF Shape, Tables
  <1>6. QED BY <1>2, <1>3, <1>5

\* redirect supersedes the target it had found active, as it was read.
LEMMA SupersedeShape ==
  ASSUME Shape, NEW w \in Workers, Supersede(w), UNCHANGED buildVars
  PROVE  Shape' /\ Frame(w) /\ pc'[w] = "idle"
  <1>1. pc[w] = "supersede" /\ "supersede" \in StrategyLabels
    BY StrategyLabelList DEF Supersede
  <1>2. /\ Shared /\ work[w] \in Work /\ mission.state # "NONE"
        /\ Plans("supersede", row[w], work[w]) /\ build[w] = NoBuild
        /\ Len(targets) \in Nat /\ Len(changes) \in Nat
    BY <1>1, WorkerParts
  <1> DEFINE p == work[w].previous
             x == [work[w].old EXCEPT !.superseded = TRUE]
  <1>3. p \in DOMAIN targets /\ p # Len(targets)
    <2>1. p \in Nat /\ p # 0 /\ p < Len(targets)
      BY <1>2 DEF Plans, Work
    <2>2. DOMAIN targets = 1..Len(targets)
      BY <1>2 DEF Shared
    <2>3. QED BY <1>2, <2>1, <2>2
  <1>4. x \in TargetRow
    <2>1. work[w].old \in TargetRow
      BY <1>2 DEF Work
    <2>2. QED BY <2>1 DEF TargetRow
  <1>5. /\ targets' = [targets EXCEPT ![p] = x] /\ Leave(w)
        /\ UNCHANGED <<mission, spec, bounds, stored, chosen, checkout,
                       changes, runs, build>>
    BY DEF Supersede, strategyTables, buildVars, buildTables
  <1> HIDE DEF p, x
  <1>6. Shared' /\ Tables' /\ Len(targets') = Len(targets)
    BY <1>3, <1>4, <1>5, SavedTarget
  <1>7. /\ Frame(w) /\ pc'[w] = "idle" /\ work'[w] = NoWork /\ Holds(w)'
    BY <1>2, <1>5, <1>6, StopStep DEF Leave
  <1>8. QED BY <1>2, <1>5, <1>6, <1>7, NothingTyped, StepKeepsShape

\* A step of a build that leaves targets, strategies and change sets alone.
LEMMA BuildMove ==
  ASSUME Shape, NEW w \in Workers, pc[w] \in BuildLabels \cup {"idle"},
         NEW l \in BuildLabels, NEW r \in MissionRow, NEW b \in Build,
         Goto(w, l) \/ (l = pc[w] /\ UNCHANGED pc),
         row' = [row EXCEPT ![w] = r] \/ (r = row[w] /\ UNCHANGED row),
         build' = [build EXCEPT ![w] = b] \/ (b = build[w] /\ UNCHANGED build),
         UNCHANGED strategyVars, Shared', UNCHANGED <<targets, changes>>,
         mission'.state # "NONE", Builds(l, r, b)
  PROVE  /\ Shape' /\ Frame(w) /\ pc'[w] = l /\ row'[w] = r
         /\ build'[w] = b
  <1>1. UNCHANGED <<stored, work>>
    BY DEF strategyVars, strategyTables
  <1>2. Builds(l, r, b)'
    BY DEF Builds
  <1>3. /\ Frame(w) /\ pc'[w] = l /\ row'[w] = r /\ work'[w] = NoWork
        /\ build'[w] = b /\ Holds(w)'
    BY <1>1, <1>2, BuildStep
  <1>4. QED BY <1>1, <1>3, NothingTyped, TablesKept

\* A build returns or raises.
LEMMA QuitMove ==
  ASSUME Shape, NEW w \in Workers, pc[w] \in BuildLabels, Quit(w),
         UNCHANGED strategyVars, Shared', Tables',
         Len(targets) <= Len(targets'), Len(changes) <= Len(changes'),
         mission'.state # "NONE"
  PROVE  Shape' /\ Frame(w) /\ pc'[w] = "idle"
  <1>1. UNCHANGED <<stored, work>>
    BY DEF strategyVars, strategyTables
  <1>2. work[w] = NoWork
    BY WorkerParts
  <1>3. Frame(w) /\ pc'[w] = "idle" /\ work'[w] = NoWork /\ Holds(w)'
    BY <1>1, <1>2, StopStep DEF Quit
  <1>4. QED BY <1>1, <1>3, NothingTyped, StepKeepsShape

\* The same, when targets and change sets are left alone.
LEMMA QuitShape ==
  ASSUME Shape, NEW w \in Workers, pc[w] \in BuildLabels, Quit(w),
         UNCHANGED strategyVars, Shared', UNCHANGED <<targets, changes>>,
         mission'.state # "NONE"
  PROVE  Shape' /\ Frame(w) /\ pc'[w] = "idle"
  <1>1. Tables'
    BY DEF Shape, Tables, NewestTargetActive
  <1>2. Len(targets) <= Len(targets') /\ Len(changes) <= Len(changes')
    BY WorkerParts
  <1>3. QED BY <1>1, <1>2, QuitMove

\* What a build holds, with another copy of its target.
LEMMA CopyTyped ==
  ASSUME NEW b \in Build, NEW i \in Nat, NEW t \in TargetRow
  PROVE  /\ [b EXCEPT !.id = i, !.target = t] \in Build
         /\ [b EXCEPT !.target = t] \in Build
  BY DEF Build

\* What a worker that builds has at hand.
LEMMA BuilderParts ==
  ASSUME Shape, NEW w \in Workers, pc[w] \in BuildLabels
  PROVE  /\ Shared /\ mission \in MissionRow /\ mission.state # "NONE"
         /\ row[w] \in MissionRow /\ row[w].state # "NONE"
         /\ build[w] \in Build /\ build[w].next # 0 /\ build[w].next \in Nat
         /\ ~build[w].target.superseded
         /\ pc[w] \in Aiming => build[w].id \in DOMAIN targets
         /\ pc[w] \in Changing => build[w].cs \in DOMAIN changes
         /\ DOMAIN targets \subseteq 1..MaxTargets
         /\ \A v \in DOMAIN targets : v \in Nat
         /\ \A c \in DOMAIN changes : c \in Nat
         /\ build \in [Workers -> Build] /\ row \in [Workers -> MissionRow]
  <1> USE Constants
  <1>1. pc[w] # "idle"
    BY LabelFacts
  <1>2. /\ Shared /\ mission.state # "NONE" /\ row[w] \in MissionRow
        /\ build[w] \in Build /\ Builds(pc[w], row[w], build[w])
    BY <1>1, WorkerParts
  <1>3. mission \in MissionRow /\ targets \in Seq(TargetRow)
        /\ changes \in Seq(ChangeSet)
    BY <1>2 DEF Shared
  <1>4. /\ Len(targets) \in Nat /\ Len(targets) <= MaxTargets
        /\ DOMAIN targets = 1..Len(targets)
        /\ Len(changes) \in Nat /\ DOMAIN changes = 1..Len(changes)
    BY <1>3 DEF Shape, Tables
  <1>5. /\ DOMAIN targets \subseteq 1..MaxTargets
        /\ \A v \in DOMAIN targets : v \in Nat
        /\ \A c \in DOMAIN changes : c \in Nat
    BY <1>4
  <1>6. build[w].next \in Nat
    BY <1>2 DEF Build
  <1>7. build \in [Workers -> Build] /\ row \in [Workers -> MissionRow]
    BY TypeParts DEF Shape
  <1>8. QED BY <1>2, <1>3, <1>5, <1>6, <1>7 DEF Builds

\* The build of the active target begins.
LEMMA BuildProjectShape ==
  ASSUME Shape, NEW w \in Workers, BuildProject(w), UNCHANGED strategyVars
  PROVE  Shape' /\ Frame(w)
  <1>1. pc[w] = "idle" /\ commands' = commands + 1
    BY DEF BuildProject, Command, MayStart
  <1>2. /\ Shared /\ build[w] = NoBuild /\ build[w] \in Build
        /\ mission \in MissionRow /\ targets \in Seq(TargetRow)
    BY <1>1, WorkerParts DEF Shared
  <1>3. mission.state # "NONE"
    BY DEF BuildProject
  <1> DEFINE a == ActiveTarget
             t == targets[a]
             b == [build[w] EXCEPT !.id = a, !.target = t]
             l == IF mission.state = "PLANNING" THEN "open" ELSE "workspace"
  <1>4. /\ a \in Nat /\ a \in DOMAIN targets /\ ~t.superseded
    BY <1>2, ActiveTargetFacts DEF BuildProject
  <1>5. /\ row' = [row EXCEPT ![w] = mission] /\ Goto(w, l)
        /\ build' = [build EXCEPT ![w] = b]
        /\ UNCHANGED <<mission, targets, spec, crashes, stored, chosen,
                       checkout, changes, runs>>
    BY DEF BuildProject, tables, strategyVars, strategyTables
  <1>6. l \in {"open", "workspace"}
    OBVIOUS
  <1> HIDE DEF a, l
  <1>7. t \in TargetRow
    BY <1>2, <1>4
  <1> HIDE DEF t
  <1>8. b \in Build /\ b.next = 1 /\ b.id = a /\ b.target = t
    BY <1>2, <1>4, <1>7, NothingTyped DEF Build
  <1> HIDE DEF b
  <1>9. Builds(l, mission, b)
    BY <1>3, <1>4, <1>6, <1>8 DEF Builds, Changing
  <1>10. l \in BuildLabels
    BY <1>6 DEF BuildLabels
  <1>11. Shared'
    BY <1>1, <1>2, <1>5 DEF Shared, checkout
  <1>12. UNCHANGED <<targets, changes>> /\ mission'.state # "NONE"
    BY <1>3, <1>5
  <1>13. QED BY <1>1, <1>2, <1>5, <1>8, <1>9, <1>10, <1>11, <1>12, BuildMove

\* A step of a build that changes the mission row at most, on its way to
\* label l with copy r.
LEMMA BuildPass ==
  ASSUME Shape, NEW w \in Workers, pc[w] \in BuildLabels,
         NEW l \in BuildLabels, NEW r \in MissionRow, r.state # "NONE",
         l \in Aiming => pc[w] \in Aiming,
         l \in Changing => pc[w] \in Changing,
         Goto(w, l),
         row' = [row EXCEPT ![w] = r] \/ (r = row[w] /\ UNCHANGED row),
         UNCHANGED <<build, targets, changes>>, UNCHANGED strategyVars,
         Shared', mission'.state # "NONE"
  PROVE  /\ Shape' /\ Frame(w) /\ pc'[w] = l /\ row'[w] = r
         /\ build'[w] = build[w]
  <1>1. build[w] \in Build /\ Builds(pc[w], row[w], build[w])
    BY WorkerParts
  <1>2. Builds(l, r, build[w])
    BY <1>1 DEF Builds
  <1>3. QED BY <1>1, <1>2, BuildMove

\* The mission moves with the worker's copy of it.
LEMMA MissionMove ==
  ASSUME Shape, NEW w \in Workers, pc[w] \in BuildLabels,
         NEW s \in MissionState, mission' = Moved(w, s),
         UNCHANGED <<targets, spec, bounds, checkout, buildTables>>,
         UNCHANGED strategyVars
  PROVE  /\ Shared' /\ mission' \in MissionRow /\ mission'.state = s
         /\ mission'.state # "NONE"
  <1>1. Shared /\ row[w] \in MissionRow
    BY BuilderParts
  <1>2. mission' \in MissionRow /\ mission'.state = s /\ mission'.state # "NONE"
    BY <1>1, MovedTyped
  <1>3. Shared'
    BY <1>1, <1>2 DEF Shared, bounds, checkout, buildTables, strategyVars,
                      strategyTables
  <1>4. QED BY <1>2, <1>3

\* The transitions of a build and of a submission.
LEMMA TransitionShape ==
  ASSUME Shape, NEW w \in Workers,
         \/ OpenBuilding(w) \/ Refuse(w) \/ Optimize(w) \/ Prepare(w)
         \/ Finish(w) \/ Gate(w),
         UNCHANGED strategyVars
  PROVE  Shape' /\ Frame(w)
  <1>1. /\ pc[w] \in BuildLabels
        /\ pc[w] \in {"open", "refuse", "optimize", "prepare", "finish", "gate"}
    BY DEF OpenBuilding, Refuse, Optimize, Prepare, Finish, Gate, Step,
           BuildLabels
  <1>2. PICK s \in {"BUILDING", "BLOCKED", "OPTIMIZING", "SUBMISSION_PREP",
                    "VALIDATING", "READY_FOR_SUBMISSION"} :
           mission' = Moved(w, s)
    BY DEF OpenBuilding, Refuse, Optimize, Prepare, Finish, Gate, Step
  <1>3. s \in MissionState
    BY <1>2, StateFacts
  <1>4. UNCHANGED <<targets, spec, bounds, checkout, buildTables>>
    BY DEF OpenBuilding, Refuse, Optimize, Prepare, Finish, Gate, Step,
           buildVars
  <1>5. Shared' /\ mission' \in MissionRow /\ mission'.state # "NONE"
    BY <1>1, <1>2, <1>3, <1>4, MissionMove
  <1>6. CASE Quit(w)
    BY <1>1, <1>4, <1>5, <1>6, QuitShape DEF buildTables
  <1>7. CASE ~Quit(w)
    <2>1. PICK l \in {"workspace", "prepare", "pack"} :
             /\ Goto(w, l) /\ row' = [row EXCEPT ![w] = mission']
             /\ UNCHANGED build /\ pc[w] \in {"open", "optimize", "prepare"}
      BY <1>7 DEF OpenBuilding, Refuse, Optimize, Prepare, Finish, Gate, Step,
                  buildVars
    <2>2. /\ l \in BuildLabels /\ pc[w] \in Aiming /\ l \notin Changing
      BY <2>1 DEF Aiming, Changing, BuildLabels
    <2>3. PICK r \in MissionRow : r = mission' /\ r.state # "NONE"
      BY <1>5
    <2>4. row' = [row EXCEPT ![w] = r] /\ UNCHANGED changes
      BY <1>4, <2>1, <2>3 DEF buildTables
    <2>5. QED BY <1>1, <1>4, <1>5, <2>1, <2>2, <2>3, <2>4, BuildPass
  <1>8. QED BY <1>6, <1>7

\* The steps of a build that leave every table alone: the review, the mission
\* read again, the documents.
LEMMA QuietShape ==
  ASSUME Shape, NEW w \in Workers,
         Recheck(w) \/ Refresh(w) \/ Pack(w), UNCHANGED strategyVars
  PROVE  Shape' /\ Frame(w)
  <1>1. pc[w] \in BuildLabels /\ pc[w] \in {"recheck", "refresh", "pack"}
    BY DEF Recheck, Refresh, Pack, BuildLabels
  <1>2. /\ Shared /\ mission \in MissionRow /\ mission.state # "NONE"
        /\ row[w] \in MissionRow /\ row[w].state # "NONE"
    BY <1>1, BuilderParts
  <1>3. UNCHANGED <<tables, bounds, checkout, buildTables>>
    BY DEF Recheck, Refresh, Pack, buildVars
  <1>4. Shared' /\ UNCHANGED <<mission, targets, changes>>
    BY <1>2, <1>3
       DEF Shared, tables, bounds, checkout, buildTables, strategyVars,
           strategyTables
  <1>5. CASE Quit(w)
    BY <1>1, <1>2, <1>4, <1>5, QuitShape
  <1>6. CASE ~Quit(w)
    <2>1. PICK l \in {"reject", "refresh", "finish", "gate"} :
             /\ Goto(w, l) /\ UNCHANGED build
             /\ \/ UNCHANGED row
                \/ row' = [row EXCEPT ![w] = mission]
             /\ l \in Changing => pc[w] \in Changing
      BY <1>6 DEF Recheck, Refresh, Pack, buildVars, Changing
    <2>2. l \in BuildLabels /\ pc[w] \in Aiming
      BY <1>1 DEF BuildLabels, Aiming
    <2>3. QED BY <1>1, <1>2, <1>4, <2>1, <2>2, BuildPass
  <1>7. QED BY <1>5, <1>6

\* What lies in a checkout, after a commit or after a process that may have
\* left files.
LEMMA CheckoutTyped ==
  ASSUME Shared, NEW t \in 1..MaxTargets
  PROVE  /\ MayLeaveFiles(t) => dirty' \subseteq 1..MaxTargets
         /\ Checkpoint(t) => /\ head' \in [1..MaxTargets -> Nat]
                             /\ dirty' \subseteq 1..MaxTargets
                             /\ head'[t] \in Nat
         /\ \A n \in Nat : [head EXCEPT ![t] = n] \in [1..MaxTargets -> Nat]
  <1>1. /\ head \in [1..MaxTargets -> Nat] /\ dirty \subseteq 1..MaxTargets
        /\ head[t] \in Nat
    BY DEF Shared
  <1>2. MayLeaveFiles(t) => dirty' \subseteq 1..MaxTargets
    BY <1>1 DEF MayLeaveFiles
  <1>3. \A n \in Nat : [head EXCEPT ![t] = n] \in [1..MaxTargets -> Nat]
    BY <1>1
  <1>4. ASSUME Checkpoint(t)
        PROVE  /\ head' \in [1..MaxTargets -> Nat]
               /\ dirty' \subseteq 1..MaxTargets
    <2>1. CASE t \in dirty
      <3>1. head' = [head EXCEPT ![t] = head[t] + 1] /\ dirty' = dirty \ {t}
        BY <1>4, <2>1 DEF Checkpoint
      <3>2. head[t] + 1 \in Nat
        BY <1>1
      <3>3. QED BY <1>1, <1>3, <3>1, <3>2
    <2>2. CASE t \notin dirty
      BY <1>1, <1>4, <2>2 DEF Checkpoint, checkout
    <2>3. QED BY <2>1, <2>2
  <1>5. QED BY <1>2, <1>3, <1>4

\* The workspace is prepared, and the implementer works in it.
LEMMA WorkspaceShape ==
  ASSUME Shape, NEW w \in Workers,
         Workspace(w) \/ Implement(w) \/ Repair(w), UNCHANGED strategyVars
  PROVE  Shape' /\ Frame(w)
  <1> USE Constants
  <1>1. /\ pc[w] \in BuildLabels /\ pc[w] \in Aiming
        /\ pc[w] \in {"workspace", "implement", "repair"}
    BY DEF Workspace, Implement, Repair, RunImplementer, BuildLabels, Aiming
  <1>2. /\ Shared /\ mission.state # "NONE"
        /\ row[w] \in MissionRow /\ row[w].state # "NONE"
        /\ build[w].id \in 1..MaxTargets
    BY <1>1, BuilderParts
  <1>3. UNCHANGED <<tables, bounds, buildTables>>
    BY DEF Workspace, Implement, Repair, RunImplementer
  <1>4. /\ head' \in [1..MaxTargets -> Nat] /\ dirty' \subseteq 1..MaxTargets
    <2> DEFINE t == build[w].id
               n == IF head[t] = 0 THEN 1 ELSE head[t]
    <2>1. n \in Nat /\ head \in [1..MaxTargets -> Nat]
          /\ dirty \subseteq 1..MaxTargets
      BY <1>2 DEF Shared
    <2>2. \/ UNCHANGED head /\ (MayLeaveFiles(t) \/ UNCHANGED dirty)
          \/ UNCHANGED dirty /\ head' = [head EXCEPT ![t] = n]
      BY DEF Workspace, Implement, Repair, RunImplementer, checkout
    <2> HIDE DEF n, t
    <2>3. t \in 1..MaxTargets
      BY <1>2 DEF t
    <2>4. QED BY <1>2, <2>1, <2>2, <2>3, CheckoutTyped
  <1>5. Shared' /\ UNCHANGED <<mission, targets, changes>>
    BY <1>2, <1>3, <1>4
       DEF Shared, tables, bounds, buildTables, strategyVars, strategyTables
  <1>6. CASE Quit(w)
    BY <1>1, <1>2, <1>5, <1>6, QuitShape
  <1>7. CASE ~Quit(w)
    <2>1. PICK l \in {"adopt", "commit", "recommit"} :
             /\ Goto(w, l) /\ UNCHANGED <<row, build>>
             /\ l \in Changing => pc[w] \in Changing
      BY <1>7 DEF Workspace, Implement, Repair, RunImplementer, Changing
    <2>2. l \in BuildLabels
      BY DEF BuildLabels
    <2>3. QED BY <1>1, <1>2, <1>5, <2>1, <2>2, BuildPass
  <1>8. QED BY <1>6, <1>7

\* A commit, of the change or of a repair.
LEMMA CommitShape ==
  ASSUME Shape, NEW w \in Workers, Commit(w) \/ Recommit(w),
         UNCHANGED strategyVars
  PROVE  Shape' /\ Frame(w)
  <1>1. /\ pc[w] \in BuildLabels /\ pc[w] \in Aiming
        /\ pc[w] \in {"commit", "recommit"}
    BY DEF Commit, Recommit, CommitChange, BuildLabels, Aiming
  <1>2. /\ Shared /\ mission.state # "NONE" /\ row[w] \in MissionRow
        /\ build[w] \in Build /\ build[w].id \in 1..MaxTargets
        /\ Builds(pc[w], row[w], build[w])
    BY <1>1, BuilderParts, WorkerParts
  <1>3. /\ UNCHANGED <<tables, row, bounds, buildTables>>
        /\ Checkpoint(build[w].id)
    BY DEF Commit, Recommit, CommitChange
  <1>4. /\ head' \in [1..MaxTargets -> Nat] /\ dirty' \subseteq 1..MaxTargets
        /\ head'[build[w].id] \in Nat
    BY <1>2, <1>3, CheckoutTyped
  <1>5. Shared' /\ UNCHANGED <<mission, targets, changes>>
    BY <1>2, <1>3, <1>4
       DEF Shared, tables, bounds, buildTables, strategyVars, strategyTables
  <1>6. PICK f \in BOOLEAN :
           build' = [build EXCEPT ![w].commit = head'[build[w].id],
                                  ![w].files = f]
    <2>1. build[w].files \in BOOLEAN
      BY <1>2 DEF Build
    <2>2. CASE Commit(w)
      <3> DEFINE f == build[w].id \in dirty
      <3>1. build' = [build EXCEPT ![w].commit = head'[build[w].id],
                                   ![w].files = f]
        BY <2>2 DEF Commit, CommitChange
      <3>2. f \in BOOLEAN
        OBVIOUS
      <3>3. QED BY <3>1, <3>2
    <2>3. CASE Recommit(w)
      <3> DEFINE f == build[w].files \/ head'[build[w].id] > 1
      <3>1. build' = [build EXCEPT ![w].commit = head'[build[w].id],
                                   ![w].files = f]
        BY <2>3 DEF Recommit, CommitChange
      <3>2. f \in BOOLEAN
        OBVIOUS
      <3>3. QED BY <3>1, <3>2
    <2>4. QED BY <2>2, <2>3
  <1>7. PICK n \in Nat : n = head'[build[w].id]
    BY <1>4
  <1>8. PICK b \in Build :
           /\ build' = [build EXCEPT ![w] = b] /\ b.next = build[w].next
           /\ b.target = build[w].target /\ b.id = build[w].id
           /\ b.cs = build[w].cs
    <2> DEFINE c == [build[w] EXCEPT !.commit = n, !.files = f]
    <2>1. build' = [build EXCEPT ![w] = c]
      BY <1>6, <1>7
    <2>2. /\ c \in Build /\ c.next = build[w].next
          /\ c.target = build[w].target
          /\ c.id = build[w].id /\ c.cs = build[w].cs
      BY <1>2, f \in BOOLEAN, n \in Nat DEF Build
    <2>3. QED BY <2>1, <2>2
  <1>9. PICK l \in {"record", "rerecord"} :
           Goto(w, l) /\ (l = "rerecord" => pc[w] = "recommit")
    BY DEF Commit, Recommit, CommitChange
  <1>10. l \in BuildLabels /\ (l \in Changing => pc[w] \in Changing)
    BY <1>9 DEF BuildLabels, Changing
  <1>11. Builds(l, row[w], b)
    BY <1>1, <1>2, <1>8, <1>10 DEF Builds
  <1>12. UNCHANGED row /\ mission'.state # "NONE"
    BY <1>2, <1>3, <1>5
  <1>13. QED BY <1>1, <1>2, <1>5, <1>8, <1>9, <1>10, <1>11, <1>12, BuildMove

\* The target is saved with the base commit, and with the final commit.
LEMMA TargetSavedShape ==
  ASSUME Shape, NEW w \in Workers, AdoptTarget(w) \/ Finalize(w),
         UNCHANGED strategyVars
  PROVE  Shape' /\ Frame(w)
  <1>1. /\ pc[w] \in BuildLabels /\ pc[w] \in Aiming
        /\ pc[w] \in {"adopt", "finalize"}
    BY DEF AdoptTarget, Finalize, BuildLabels, Aiming
  <1>2. /\ Shared /\ mission.state # "NONE" /\ row[w] \in MissionRow
        /\ build[w] \in Build /\ build[w].id \in DOMAIN targets
        /\ ~build[w].target.superseded /\ build[w].target \in TargetRow
        /\ Builds(pc[w], row[w], build[w]) /\ build \in [Workers -> Build]
    BY <1>1, BuilderParts, WorkerParts DEF Build
  <1>3. UNCHANGED <<mission, spec, row, bounds, stored, chosen, checkout,
                    changes, runs, work>>
    BY DEF AdoptTarget, Finalize, buildVars, buildTables, strategyVars,
           strategyTables
  <1>4. PICK b \in Build :
           /\ build' = [build EXCEPT ![w] = b]
              \/ (b = build[w] /\ UNCHANGED build)
           /\ targets' = [targets EXCEPT ![build[w].id] = b.target]
           /\ b.next = build[w].next /\ b.id = build[w].id
           /\ b.cs = build[w].cs /\ ~b.target.superseded
           /\ b.target \in TargetRow
    <2>1. CASE AdoptTarget(w)
      BY <1>2, <2>1 DEF AdoptTarget, SaveTarget, buildVars
    <2>2. CASE Finalize(w)
      <3> DEFINE t == [build[w].target EXCEPT !.final = build[w].commit]
                 c == [build[w] EXCEPT !.target = t]
      <3>1. build' = [build EXCEPT ![w] = c]
        BY <2>2 DEF Finalize
      <3>2. t \in TargetRow /\ ~t.superseded
        <4>1. build[w].commit \in Nat
          BY <1>2 DEF Build
        <4>2. QED BY <1>2, <4>1 DEF TargetRow
      <3> HIDE DEF t
      <3>3. c \in Build
        BY <1>2, <3>2, CopyTyped
      <3>4. /\ c.next = build[w].next /\ c.target = t
            /\ c.id = build[w].id /\ c.cs = build[w].cs
        BY <1>2 DEF Build
      <3> HIDE DEF c
      <3>5. build'[w] = c
        BY <1>2, <3>1
      <3>6. targets' = [targets EXCEPT ![build[w].id] = c.target]
        BY <2>2, <3>5 DEF Finalize
      <3>7. QED BY <3>1, <3>2, <3>3, <3>4, <3>6
    <2>3. QED BY <2>1, <2>2
  <1>5. /\ Shared' /\ Tables' /\ DOMAIN targets' = DOMAIN targets
        /\ Len(targets') = Len(targets)
    BY <1>2, <1>3, <1>4, SavedTarget
  <1>6. PICK l \in {"implement", "recheck"} :
           Goto(w, l) /\ (l = "recheck" => pc[w] = "finalize")
    BY DEF AdoptTarget, Finalize
  <1>7. l \in BuildLabels /\ (l \in Changing => pc[w] \in Changing)
    BY <1>6 DEF BuildLabels, Changing
  <1>8. PICK r \in MissionRow : r = row[w]
    BY <1>2
  <1>9. Builds(l, r, b)'
    BY <1>1, <1>2, <1>3, <1>4, <1>5, <1>7, <1>8 DEF Builds
  <1>10. UNCHANGED <<row, work>>
    BY <1>3
  <1>11. /\ Frame(w) /\ work'[w] = NoWork /\ Holds(w)'
    BY <1>1, <1>4, <1>5, <1>6, <1>7, <1>8, <1>9, <1>10, BuildStep
  <1>12. /\ Len(targets) <= Len(targets') /\ Len(changes) <= Len(changes')
         /\ mission'.state # "NONE" /\ stored' = stored
    BY <1>2, <1>3, <1>5, WorkerParts
  <1>13. QED BY <1>5, <1>11, <1>12, NothingTyped, StepKeepsShape

\* A save of one change set of the same target, with the rest of the tables
\* alone.
LEMMA SavedChange ==
  ASSUME Shape, NEW w \in Workers, NEW c \in DOMAIN changes,
         NEW x \in ChangeSet, x.target = changes[c].target,
         changes' = [changes EXCEPT ![c] = x],
         UNCHANGED <<mission, targets, spec, bounds, stored, chosen, checkout,
                     runs>>
  PROVE  /\ Shared' /\ Tables'
         /\ DOMAIN changes' = DOMAIN changes /\ Len(changes') = Len(changes)
         /\ changes'[c] = x
         /\ \A d \in DOMAIN changes : d # c => changes'[d] = changes[d]
  <1>1. Shared /\ changes \in Seq(ChangeSet)
    BY WorkerParts DEF Shared
  <1>2. /\ changes' \in Seq(ChangeSet) /\ Len(changes') = Len(changes)
        /\ DOMAIN changes' = DOMAIN changes
        /\ changes'[c] = x
        /\ \A d \in DOMAIN changes : d # c => changes'[d] = changes[d]
    BY <1>1, ReplacedIsTable
  <1>3. Shared'
    BY <1>1, <1>2 DEF Shared, bounds, checkout
  <1>4. \A d \in DOMAIN changes' : changes'[d].target \in DOMAIN targets'
    BY <1>2 DEF Shape, Tables
  <1>5. Tables'
    BY <1>4 DEF Shape, Tables, NewestTargetActive
  <1>6. QED BY <1>2, <1>3, <1>5

\* A change set with another status.
LEMMA StatusTyped ==
  ASSUME NEW x \in ChangeSet, NEW s \in Statuses
  PROVE  /\ [x EXCEPT !.status = s] \in ChangeSet
         /\ [x EXCEPT !.status = s].target = x.target
         /\ [x EXCEPT !.status = s].commit = x.commit
         /\ [x EXCEPT !.status = s].files = x.files
         /\ [x EXCEPT !.status = s].status = s
  BY DEF ChangeSet

\* The status of the worker's change set is saved.
LEMMA StatusSaved ==
  ASSUME Shape, NEW w \in Workers, pc[w] \in Changing, NEW s \in Statuses,
         SaveStatus(w, s),
         UNCHANGED <<mission, targets, spec, bounds, stored, chosen, checkout,
                     runs>>
  PROVE  /\ Shared' /\ Tables' /\ Len(changes') = Len(changes)
         /\ DOMAIN changes' = DOMAIN changes
         /\ changes'[build[w].cs].target = changes[build[w].cs].target
         /\ changes'[build[w].cs].commit = changes[build[w].cs].commit
         /\ changes'[build[w].cs].status = s
         /\ \A d \in DOMAIN changes :
               d # build[w].cs => changes'[d] = changes[d]
  <1>1. pc[w] \in BuildLabels
    BY LabelFacts
  <1>2. Shared /\ build[w].cs \in DOMAIN changes /\ changes \in Seq(ChangeSet)
    BY <1>1, BuilderParts DEF Shared
  <1> DEFINE c == build[w].cs
             x == [changes[c] EXCEPT !.status = s]
  <1>3. changes[c] \in ChangeSet
    BY <1>2
  <1>4. /\ x \in ChangeSet /\ x.target = changes[c].target
        /\ x.commit = changes[c].commit /\ x.status = s
    BY <1>3, StatusTyped
  <1>5. changes' = [changes EXCEPT ![c] = x] /\ c \in DOMAIN changes
    BY <1>2 DEF SaveStatus
  <1> HIDE DEF c, x
  <1>6. /\ Shared' /\ Tables' /\ Len(changes') = Len(changes)
        /\ DOMAIN changes' = DOMAIN changes
        /\ changes'[c] = x
        /\ \A d \in DOMAIN changes : d # c => changes'[d] = changes[d]
    BY <1>4, <1>5, SavedChange
  <1>7. QED BY <1>4, <1>6 DEF c

\* The change set is saved as validated, as rejected, or as failed.
LEMMA VerdictShape ==
  ASSUME Shape, NEW w \in Workers, Validate(w) \/ Reject(w) \/ Failure(w),
         UNCHANGED strategyVars
  PROVE  Shape' /\ Frame(w)
  <1>1. /\ pc[w] \in BuildLabels /\ pc[w] \in Changing /\ pc[w] \in Aiming
        /\ pc[w] \in {"validate", "reject", "failure"}
    BY DEF Validate, Reject, Failure, BuildLabels, Changing, Aiming
  <1>2. /\ Shared /\ mission.state # "NONE" /\ row[w] \in MissionRow
        /\ build[w] \in Build /\ Builds(pc[w], row[w], build[w])
        /\ Len(targets) \in Nat /\ Len(changes) \in Nat
    BY <1>1, BuilderParts, WorkerParts
  <1>3. UNCHANGED <<mission, targets, spec, bounds, stored, chosen, checkout,
                    runs, work>>
    BY DEF Validate, Reject, Failure, tables, strategyVars, strategyTables
  <1>4. CASE Failure(w) /\ ~Quit(w)
    <2> DEFINE b == [build[w] EXCEPT !.attempt = build[w].attempt + 1]
    <2>1. /\ build' = [build EXCEPT ![w] = b] /\ Goto(w, "repair")
          /\ UNCHANGED <<row, changes>>
      BY <1>4 DEF Failure
    <2>2. /\ b \in Build /\ b.next = build[w].next /\ b.cs = build[w].cs
          /\ b.target = build[w].target /\ b.id = build[w].id
      BY <1>2 DEF Build
    <2> HIDE DEF b
    <2>3. /\ "repair" \in BuildLabels
      BY DEF BuildLabels
    <2>4. Builds("repair", row[w], b)
      BY <1>1, <1>2, <2>2 DEF Builds
    <2>5. Shared' /\ UNCHANGED targets /\ mission'.state # "NONE"
      BY <1>2, <1>3, <2>1 DEF Shared, bounds, checkout
    <2>6. QED BY <1>1, <1>2, <2>1, <2>2, <2>3, <2>4, <2>5, BuildMove
  <1>5. CASE Quit(w)
    <2>1. \/ UNCHANGED changes
          \/ \E s \in Statuses : SaveStatus(w, s)
      BY <1>5 DEF Validate, Reject, Failure, Statuses
    <2>2. CASE UNCHANGED changes
      <3>1. Shared' /\ UNCHANGED targets /\ mission'.state # "NONE"
        BY <1>2, <1>3, <2>2 DEF Shared, bounds, checkout
      <3>2. QED BY <1>1, <1>5, <2>2, <3>1, QuitShape
    <2>3. ASSUME NEW s \in Statuses, SaveStatus(w, s) PROVE Shape' /\ Frame(w)
      <3>1. Shared' /\ Tables' /\ Len(changes') = Len(changes)
        BY <1>1, <1>3, <2>3, StatusSaved
      <3>2. /\ Len(targets) <= Len(targets') /\ Len(changes) <= Len(changes')
            /\ mission'.state # "NONE"
        BY <1>2, <1>3, <3>1
      <3>3. QED BY <1>1, <1>5, <3>1, <3>2, QuitMove
    <2>4. QED BY <2>1, <2>2, <2>3
  <1>6. CASE Validate(w)
    <2>1. /\ SaveStatus(w, "validated") /\ Goto(w, "review")
          /\ UNCHANGED <<row, build>>
      BY <1>6 DEF Validate
    <2>2. "validated" \in Statuses /\ "review" \in BuildLabels
      BY DEF Statuses, BuildLabels
    <2>3. /\ Shared' /\ Tables' /\ Len(changes') = Len(changes)
          /\ DOMAIN changes' = DOMAIN changes
      BY <1>1, <1>3, <2>1, <2>2, StatusSaved
    <2>4. PICK r \in MissionRow, b \in Build : r = row[w] /\ b = build[w]
      BY <1>2
    <2>5. Builds("review", r, b)'
      BY <1>1, <1>2, <1>3, <2>3, <2>4 DEF Builds
    <2>6. Frame(w) /\ work'[w] = NoWork /\ Holds(w)'
      BY <1>1, <1>3, <2>1, <2>2, <2>3, <2>4, <2>5, BuildStep
    <2>7. /\ Len(targets) <= Len(targets') /\ Len(changes) <= Len(changes')
          /\ mission'.state # "NONE" /\ stored' = stored
      BY <1>2, <1>3, <2>3
    <2>8. QED BY <2>3, <2>6, <2>7, NothingTyped, StepKeepsShape
  <1>7. QED BY <1>4, <1>5, <1>6 DEF Reject

\* The review of a change set.
LEMMA ReviewShape ==
  ASSUME Shape, NEW w \in Workers, Review(w), UNCHANGED strategyVars
  PROVE  Shape' /\ Frame(w)
  <1>1. /\ pc[w] = "review" /\ pc[w] \in BuildLabels /\ pc[w] \in Changing
        /\ pc[w] \in Aiming
    BY DEF Review, BuildLabels, Changing, Aiming
  <1>2. /\ Shared /\ mission.state # "NONE" /\ row[w] \in MissionRow
        /\ build[w] \in Build /\ Builds(pc[w], row[w], build[w])
    BY <1>1, BuilderParts, WorkerParts
  <1>3. UNCHANGED <<mission, targets, spec, row, bounds, stored, chosen,
                    checkout, changes, runs, work>>
    BY DEF Review, tables, buildTables, strategyVars, strategyTables
  <1>4. PICK secret \in BOOLEAN :
           LET blocked == secret
                          \/ ReviewBlocks(build[w].id, changes[build[w].cs])
           IN /\ build' = [build EXCEPT ![w].blocked = blocked]
              /\ Goto(w, IF blocked THEN "failure" ELSE "finalize")
    BY DEF Review, SecretFound
  <1>5. PICK f \in BOOLEAN :
           /\ build' = [build EXCEPT ![w].blocked = f]
           /\ Goto(w, IF f THEN "failure" ELSE "finalize")
    <2> DEFINE f == secret \/ ReviewBlocks(build[w].id, changes[build[w].cs])
    <2>1. f \in BOOLEAN
      OBVIOUS
    <2>2. /\ build' = [build EXCEPT ![w].blocked = f]
          /\ Goto(w, IF f THEN "failure" ELSE "finalize")
      BY <1>4
    <2>3. QED BY <2>1, <2>2
  <1>6. PICK l \in {"failure", "finalize"} : Goto(w, l)
    BY <1>5
  <1>7. l \in BuildLabels
    BY DEF BuildLabels
  <1> DEFINE b == [build[w] EXCEPT !.blocked = f]
  <1>8. build' = [build EXCEPT ![w] = b]
    BY <1>5
  <1>9. /\ b \in Build /\ b.next = build[w].next /\ b.cs = build[w].cs
        /\ b.target = build[w].target /\ b.id = build[w].id
    BY <1>2, f \in BOOLEAN DEF Build
  <1> HIDE DEF b
  <1>10. Builds(l, row[w], b)
    BY <1>1, <1>2, <1>9 DEF Builds
  <1>11. Shared' /\ mission'.state # "NONE"
    BY <1>2, <1>3 DEF Shared, bounds, checkout
  <1>12. UNCHANGED <<row, targets, changes>>
    BY <1>3
  <1>13. QED BY <1>1, <1>2, <1>6, <1>7, <1>8, <1>9, <1>10, <1>11, <1>12,
                BuildMove

\* The change set is saved, and the first command is next.
LEMMA RecordShape ==
  ASSUME Shape, NEW w \in Workers, Record(w) \/ Rerecord(w),
         UNCHANGED strategyVars
  PROVE  Shape' /\ Frame(w)
  <1>1. /\ pc[w] \in BuildLabels /\ pc[w] \in Aiming
        /\ pc[w] \in {"record", "rerecord"}
        /\ pc[w] = "rerecord" => pc[w] \in Changing
        /\ "command" \in BuildLabels
    BY DEF Record, Rerecord, BuildLabels, Aiming, Changing
  <1>2. /\ Shared /\ mission.state # "NONE" /\ row[w] \in MissionRow
        /\ build[w] \in Build /\ build[w].id \in DOMAIN targets
        /\ Builds(pc[w], row[w], build[w]) /\ changes \in Seq(ChangeSet)
        /\ Len(targets) \in Nat /\ Len(changes) \in Nat
    BY <1>1, BuilderParts, WorkerParts DEF Shared
  <1>3. /\ UNCHANGED <<mission, targets, spec, row, bounds, stored, chosen,
                       checkout, runs, work>>
        /\ Goto(w, "command")
    BY DEF Record, Rerecord, StartCommands, tables, strategyVars,
           strategyTables
  <1>4. /\ build[w].id \in Nat /\ build[w].commit \in Nat
        /\ build[w].files \in BOOLEAN
    BY <1>2 DEF Build
  <1>5. PICK c \in Nat :
           /\ build' = [build EXCEPT ![w].cs = c, ![w].next = 1,
                           ![w].clean = FALSE, ![w].failed = FALSE,
                           ![w].blocked = FALSE]
           /\ c \in DOMAIN changes'
           /\ Shared' /\ Tables' /\ Len(changes) <= Len(changes')
    <2>1. CASE Record(w)
      <3> DEFINE x == [target |-> build[w].id, commit |-> build[w].commit,
                       files |-> build[w].files, status |-> "committed"]
      <3>1. x \in ChangeSet /\ x.target = build[w].id
        BY <1>4 DEF ChangeSet, Statuses
      <3>2. changes' = Append(changes, x)
        BY <2>1 DEF Record
      <3> HIDE DEF x
      <3>3. /\ changes' \in Seq(ChangeSet) /\ Len(changes') = Len(changes) + 1
            /\ \A d \in 1..Len(changes) : changes'[d] = changes[d]
            /\ changes'[Len(changes) + 1] = x
        BY <1>2, <3>1, <3>2, AppendProperties
      <3>4. Len(changes') \in Nat /\ DOMAIN changes' = 1..Len(changes')
            /\ DOMAIN changes = 1..Len(changes)
        BY <1>2, <3>3
      <3>5. Len(changes') \in DOMAIN changes' /\ Len(changes) <= Len(changes')
        BY <1>2, <3>3, <3>4
      <3>6. Shared'
        BY <1>2, <1>3, <3>3 DEF Shared, bounds, checkout
      <3>7. ASSUME NEW d \in DOMAIN changes'
            PROVE  changes'[d].target \in DOMAIN targets'
        <4>1. d \in 1..Len(changes) \/ d = Len(changes) + 1
          BY <1>2, <3>3, <3>4
        <4>2. QED BY <1>2, <1>3, <3>1, <3>3, <3>4, <4>1 DEF Shape, Tables
      <3>8. Tables'
        BY <1>3, <3>7 DEF Shape, Tables, NewestTargetActive
      <3>9. QED BY <2>1, <3>4, <3>5, <3>6, <3>8 DEF Record, StartCommands
    <2>2. CASE Rerecord(w)
      <3> DEFINE c == build[w].cs
                 x == [changes[c] EXCEPT !.commit = build[w].commit,
                                         !.files = build[w].files,
                                         !.status = "repaired"]
      <3>1. pc[w] = "rerecord"
        BY <2>2 DEF Rerecord
      <3>2. c \in DOMAIN changes /\ c \in Nat
        BY <1>1, <1>2, <3>1 DEF Builds, Build
      <3>3. changes[c] \in ChangeSet
        BY <1>2, <3>2
      <3>4. x \in ChangeSet /\ x.target = changes[c].target
        BY <1>4, <3>3 DEF ChangeSet, Statuses
      <3>5. changes' = [changes EXCEPT ![c] = x] /\ StartCommands(w, c)
        BY <2>2, <3>2 DEF Rerecord
      <3> HIDE DEF c, x
      <3>6. /\ Shared' /\ Tables' /\ DOMAIN changes' = DOMAIN changes
            /\ Len(changes') = Len(changes)
        BY <1>3, <3>2, <3>4, <3>5, SavedChange
      <3>7. build' = [build EXCEPT ![w].cs = c, ![w].next = 1,
                         ![w].clean = FALSE, ![w].failed = FALSE,
                         ![w].blocked = FALSE]
        BY <3>5 DEF StartCommands
      <3>8. Len(changes) <= Len(changes')
        BY <1>2, <3>6
      <3>9. QED BY <3>2, <3>6, <3>7, <3>8
    <2>3. QED BY <2>1, <2>2
  <1>6. PICK b \in Build :
           /\ build' = [build EXCEPT ![w] = b] /\ b.cs = c /\ b.next = 1
           /\ b.target = build[w].target /\ b.id = build[w].id
    <2> DEFINE b == [build[w] EXCEPT !.cs = c, !.next = 1, !.clean = FALSE,
                                     !.failed = FALSE, !.blocked = FALSE]
    <2>1. build' = [build EXCEPT ![w] = b]
      BY <1>5
    <2>2. /\ b \in Build /\ b.cs = c /\ b.next = 1
          /\ b.target = build[w].target /\ b.id = build[w].id
      BY <1>2, c \in Nat DEF Build
    <2>3. QED BY <2>1, <2>2
  <1>7. PICK r \in MissionRow : r = row[w]
    BY <1>2
  <1>8. Builds("command", r, b)'
    <2>1. r.state # "NONE" /\ ~b.target.superseded /\ b.id \in DOMAIN targets
      BY <1>1, <1>2, <1>6, <1>7 DEF Builds
    <2>2. b.next # 0 /\ b.cs \in DOMAIN changes' /\ targets' = targets
      BY <1>3, <1>5, <1>6
    <2>3. QED BY <2>1, <2>2 DEF Builds
  <1>9. Frame(w) /\ work'[w] = NoWork /\ Holds(w)'
    <2>1. "command" \in BuildLabels
      BY DEF BuildLabels
    <2>2. /\ Goto(w, "command") /\ build' = [build EXCEPT ![w] = b]
          /\ r = row[w] /\ UNCHANGED <<row, work>> /\ Shared'
          /\ pc[w] \in BuildLabels
      BY <1>1, <1>3, <1>5, <1>6, <1>7
    <2>3. QED BY <1>8, <2>1, <2>2, BuildStep
  <1>10. /\ Len(targets) <= Len(targets') /\ mission'.state # "NONE"
         /\ stored' = stored
    BY <1>2, <1>3
  <1>11. QED BY <1>5, <1>9, <1>10, NothingTyped, StepKeepsShape

\* The run that a command leaves behind.
RunOf(b, at, passed) ==
    [target |-> b.id, commit |-> at, phase |-> Declared[b.next],
     clean |-> b.clean, passed |-> passed]

\* What a command does: the worker goes on, the run may be saved, files may be
\* left in the checkout.
LEMMA RunEffect ==
  ASSUME Shape, NEW w \in Workers, RunCommand(w)
  PROVE  /\ build[w].next \in DOMAIN Declared
         /\ \E passed \in BOOLEAN, l \in {"failure", "command"} :
               /\ build' = [build EXCEPT ![w].next = @ + 1,
                                         ![w].failed = @ \/ ~passed]
               /\ Goto(w, l)
               /\ LET at == IF build[w].clean THEN build[w].commit
                            ELSE head[build[w].id]
                  IN /\ passed => runs' = runs \cup {RunOf(build[w], at, TRUE)}
                     /\ runs' \in {runs, runs \cup {RunOf(build[w], at, FALSE)},
                                   runs \cup {RunOf(build[w], at, TRUE)}}
               /\ MayLeaveFiles(build[w].id) \/ UNCHANGED dirty
         /\ UNCHANGED <<tables, row, bounds, head, changes>>
  <1> USE Constants
  <1>1. pc[w] = "command" /\ pc[w] \in BuildLabels
    BY DEF RunCommand, BuildLabels
  <1>2. build[w].next \in Nat /\ build[w].next # 0
    BY <1>1, BuilderParts
  <1>3. build[w].next \in DOMAIN Declared
    BY <1>2 DEF RunCommand
  <1>4. ASSUME NEW passed \in BOOLEAN,
               LET b == build[w]
                   phase == Declared[b.next]
                   at == IF b.clean THEN b.commit ELSE head[b.id]
                   stops == ~passed /\ (b.clean \/ phase = "install")
               IN /\ runs' = IF passed \/ phase = "test"
                               THEN runs \cup {[target |-> b.id, commit |-> at,
                                                phase |-> phase,
                                                clean |-> b.clean,
                                                passed |-> passed]}
                               ELSE runs
                  /\ build' = [build EXCEPT ![w].next = @ + 1,
                                            ![w].failed = @ \/ ~passed]
                  /\ Goto(w, IF stops THEN "failure" ELSE "command")
                  /\ IF phase = "test" /\ ~b.clean
                       THEN MayLeaveFiles(b.id) ELSE UNCHANGED dirty
        PROVE  \E l \in {"failure", "command"} :
               /\ build' = [build EXCEPT ![w].next = @ + 1,
                                         ![w].failed = @ \/ ~passed]
               /\ Goto(w, l)
               /\ LET at == IF build[w].clean THEN build[w].commit
                            ELSE head[build[w].id]
                  IN /\ passed => runs' = runs \cup {RunOf(build[w], at, TRUE)}
                     /\ runs' \in {runs, runs \cup {RunOf(build[w], at, FALSE)},
                                   runs \cup {RunOf(build[w], at, TRUE)}}
               /\ MayLeaveFiles(build[w].id) \/ UNCHANGED dirty
    <2> DEFINE at == IF build[w].clean THEN build[w].commit
                     ELSE head[build[w].id]
    <2>1. \/ passed /\ runs' = runs \cup {RunOf(build[w], at, TRUE)}
          \/ ~passed /\ runs' \in {runs,
                                   runs \cup {RunOf(build[w], at, FALSE)}}
      <3>1. CASE passed = TRUE
        BY <1>4, <3>1 DEF RunOf
      <3>2. CASE passed = FALSE
        BY <1>4, <3>2 DEF RunOf
      <3>3. QED BY <3>1, <3>2
    <2>2. \E l \in {"failure", "command"} : Goto(w, l)
      BY <1>4
    <2>3. MayLeaveFiles(build[w].id) \/ UNCHANGED dirty
      BY <1>4
    <2>4. build' = [build EXCEPT ![w].next = @ + 1,
                                 ![w].failed = @ \/ ~passed]
      BY <1>4
    <2> HIDE DEF at
    <2>5. /\ passed => runs' = runs \cup {RunOf(build[w], at, TRUE)}
          /\ runs' \in {runs, runs \cup {RunOf(build[w], at, FALSE)},
                        runs \cup {RunOf(build[w], at, TRUE)}}
      BY <2>1
    <2>6. QED BY <2>2, <2>3, <2>4, <2>5 DEF at
  <1>5. UNCHANGED <<tables, row, bounds, head, changes>>
    BY DEF RunCommand
  <1>6. QED BY <1>3, <1>4, <1>5 DEF RunCommand

\* A command is run.
LEMMA RunShape ==
  ASSUME Shape, NEW w \in Workers, RunCommand(w), UNCHANGED strategyVars
  PROVE  Shape' /\ Frame(w)
  <1> USE Constants
  <1>1. /\ pc[w] = "command" /\ pc[w] \in BuildLabels /\ pc[w] \in Aiming
        /\ pc[w] \in Changing
    BY DEF RunCommand, BuildLabels, Aiming, Changing
  <1>2. /\ Shared /\ mission.state # "NONE" /\ row[w] \in MissionRow
        /\ build[w] \in Build /\ build[w].id \in 1..MaxTargets
        /\ Builds(pc[w], row[w], build[w])
    BY <1>1, BuilderParts, WorkerParts
  <1>3. UNCHANGED <<mission, targets, spec, row, bounds, stored, chosen, head,
                    changes, work>>
    BY DEF RunCommand, tables, strategyVars, strategyTables
  <1>4. /\ build[w].next \in Nat /\ build[w].next + 1 \in Nat
        /\ build[w].next + 1 # 0 /\ build[w].clean \in BOOLEAN
        /\ build[w].failed \in BOOLEAN
        /\ build[w].commit \in Nat /\ build[w].id \in Nat
        /\ head[build[w].id] \in Nat
    <2>1. /\ build[w].next \in Nat /\ build[w].clean \in BOOLEAN
          /\ build[w].failed \in BOOLEAN
          /\ build[w].commit \in Nat /\ build[w].id \in Nat
      BY <1>2 DEF Build
    <2>2. head[build[w].id] \in Nat
      BY <1>2 DEF Shared
    <2>3. QED BY <2>1, <2>2
  <1> DEFINE at == IF build[w].clean THEN build[w].commit
                   ELSE head[build[w].id]
  <1>5. at \in Nat
    BY <1>4
  <1>6. /\ RunOf(build[w], at, TRUE) \in Run
        /\ RunOf(build[w], at, FALSE) \in Run
    <2>1. Declared[build[w].next] \in DeclaredPhases
      BY RunEffect DEF DeclaredPhases
    <2> HIDE DEF at
    <2>2. QED BY <1>4, <1>5, <2>1 DEF RunOf, Run
  <1>7. PICK passed \in BOOLEAN, l \in {"failure", "command"} :
           /\ build' = [build EXCEPT ![w].next = @ + 1,
                                     ![w].failed = @ \/ ~passed]
           /\ Goto(w, l)
           /\ runs' \in {runs, runs \cup {RunOf(build[w], at, FALSE)},
                         runs \cup {RunOf(build[w], at, TRUE)}}
           /\ MayLeaveFiles(build[w].id) \/ UNCHANGED dirty
    BY RunEffect
  <1> HIDE DEF at
  <1>8. runs' \subseteq Run /\ dirty' \subseteq 1..MaxTargets
    <2>1. runs \subseteq Run /\ dirty \subseteq 1..MaxTargets
      BY <1>2 DEF Shared
    <2>2. QED BY <1>2, <1>6, <1>7, <2>1, CheckoutTyped
  <1>9. Shared' /\ mission'.state # "NONE"
    BY <1>2, <1>3, <1>8 DEF Shared, bounds
  <1>10. PICK b \in Build :
            /\ build' = [build EXCEPT ![w] = b] /\ b.next # 0
            /\ b.cs = build[w].cs /\ b.target = build[w].target
            /\ b.id = build[w].id
    <2> DEFINE f == build[w].failed \/ ~passed
               b == [build[w] EXCEPT !.next = build[w].next + 1, !.failed = f]
    <2>1. build' = [build EXCEPT ![w] = b]
      BY <1>7
    <2>2. f \in BOOLEAN
      BY <1>4
    <2> HIDE DEF f
    <2>3. /\ b \in Build /\ b.next = build[w].next + 1
          /\ b.cs = build[w].cs /\ b.target = build[w].target
          /\ b.id = build[w].id
      BY <1>2, <1>4, <2>2 DEF Build
    <2> HIDE DEF b
    <2>4. QED BY <1>4, <2>1, <2>3
  <1>11. l \in BuildLabels
    BY DEF BuildLabels
  <1>12. Builds(l, row[w], b)
    BY <1>1, <1>2, <1>10 DEF Builds
  <1>13. UNCHANGED <<row, targets, changes>>
    BY <1>3
  <1>14. QED BY <1>1, <1>2, <1>7, <1>9, <1>10, <1>11, <1>12, <1>13, BuildMove

\* The round of commands is over.
LEMMA RoundOverShape ==
  ASSUME Shape, NEW w \in Workers, EndOfCommands(w), UNCHANGED strategyVars
  PROVE  Shape' /\ Frame(w)
  <1>1. /\ pc[w] = "command" /\ pc[w] \in BuildLabels /\ pc[w] \in Aiming
        /\ pc[w] \in Changing
    BY DEF EndOfCommands, BuildLabels, Aiming, Changing
  <1>2. /\ Shared /\ mission.state # "NONE" /\ row[w] \in MissionRow
        /\ row[w].state # "NONE" /\ build[w] \in Build
        /\ Builds(pc[w], row[w], build[w])
    BY <1>1, BuilderParts, WorkerParts
  <1>3. UNCHANGED <<mission, targets, spec, bounds, stored, chosen, checkout,
                    changes, runs, work>>
    BY DEF EndOfCommands, tables, buildTables, strategyVars, strategyTables
  <1>4. Shared' /\ mission'.state # "NONE" /\ UNCHANGED <<targets, changes>>
    BY <1>2, <1>3 DEF Shared, bounds, checkout
  <1>5. CASE Quit(w)
    BY <1>1, <1>4, <1>5, QuitShape
  <1>6. CASE \E l \in {"failure", "validate"} :
                Goto(w, l) /\ UNCHANGED <<row, build>>
    <2>1. PICK l \in {"failure", "validate"} :
             Goto(w, l) /\ UNCHANGED <<row, build>>
      BY <1>6
    <2>2. l \in BuildLabels
      BY DEF BuildLabels
    <2>3. QED BY <1>1, <1>2, <1>4, <2>1, <2>2, BuildPass
  <1>7. CASE /\ build' = [build EXCEPT ![w].next = 1, ![w].clean = TRUE]
             /\ Goto(w, "command") /\ UNCHANGED row
    <2> DEFINE b == [build[w] EXCEPT !.next = 1, !.clean = TRUE]
    <2>1. build' = [build EXCEPT ![w] = b]
      BY <1>7
    <2>2. /\ b \in Build /\ b.next = 1 /\ b.cs = build[w].cs
          /\ b.target = build[w].target /\ b.id = build[w].id
      BY <1>2 DEF Build
    <2> HIDE DEF b
    <2>3. Builds("command", row[w], b)
      BY <1>1, <1>2, <2>2 DEF Builds
    <2>4. "command" \in BuildLabels
      BY <1>1
    <2>5. QED BY <1>1, <1>2, <1>4, <1>7, <2>1, <2>2, <2>3, <2>4, BuildMove
  <1>8. QED BY <1>5, <1>6, <1>7 DEF EndOfCommands

\* prepare_project_submission begins.
LEMMA PrepareSubmissionShape ==
  ASSUME Shape, NEW w \in Workers, PrepareSubmission(w), UNCHANGED strategyVars
  PROVE  Shape' /\ Frame(w)
  <1>1. pc[w] = "idle" /\ mission.state # "NONE" /\ ActiveTarget # 0
    BY DEF PrepareSubmission, MayStart
  <1>2. /\ Shared /\ build[w] = NoBuild /\ build[w] \in Build
        /\ mission \in MissionRow /\ targets \in Seq(TargetRow)
        /\ changes \in Seq(ChangeSet)
    BY <1>1, WorkerParts DEF Shared
  <1>3. /\ row' = [row EXCEPT ![w] = mission]
        /\ UNCHANGED <<mission, targets, spec, bounds, stored, chosen,
                       checkout, changes, runs>>
    BY DEF PrepareSubmission, tables, buildTables, strategyVars,
           strategyTables
  <1>4. /\ Shared' /\ mission'.state # "NONE" /\ UNCHANGED <<targets, changes>>
    BY <1>1, <1>2, <1>3 DEF Shared, bounds, checkout
  <1>5. CASE build' = build /\ Goto(w, "refuse")
    <2>1. Builds("refuse", mission, build[w]) /\ "refuse" \in BuildLabels
      BY <1>1, <1>2, NothingTyped DEF Builds, Aiming, Changing, BuildLabels
    <2>2. QED BY <1>1, <1>2, <1>3, <1>4, <1>5, <2>1, BuildMove
  <1>6. CASE ~(build' = build /\ Goto(w, "refuse"))
    <2>1. /\ Validated # {} /\ Goto(w, "optimize")
      BY <1>6 DEF PrepareSubmission
    <2> DEFINE a == ActiveTarget
               c == LastValidated
               f == \E p \in DeclaredPhases :
                       ~Reproduced(changes[LastValidated], p)
               b == [build[w] EXCEPT !.id = a, !.cs = c, !.failed = f]
    <2>2. build' = [build EXCEPT ![w] = b]
      BY <1>6 DEF PrepareSubmission
    <2>3. a \in Nat /\ a \in DOMAIN targets
      BY <1>1, <1>2, ActiveTargetFacts
    <2>4. c \in Nat
      <3>1. c \in Validated
        BY <1>2, <2>1, LastValidatedFacts
      <3>2. QED BY <1>2, <3>1 DEF Validated
    <2>5. f \in BOOLEAN
      OBVIOUS
    <2> HIDE DEF a, c, f
    <2>6. b \in Build /\ b.id = a /\ b.next = 1 /\ b.target = NewTarget(0)
      <3>1. /\ b \in Build /\ b.id = a /\ b.next = build[w].next
            /\ b.target = build[w].target
        BY <1>2, <2>3, <2>4, <2>5 DEF Build
      <3>2. QED BY <1>2, <3>1, NothingTyped
    <2> HIDE DEF b
    <2>7. Builds("optimize", mission, b) /\ "optimize" \in BuildLabels
      BY <1>1, <2>3, <2>6, NothingTyped
         DEF Builds, Aiming, Changing, BuildLabels
    <2>8. QED BY <1>1, <1>2, <1>3, <1>4, <2>1, <2>2, <2>6, <2>7, BuildMove
  <1>7. QED BY <1>5, <1>6

\* A worker dies.
LEMMA CrashShape ==
  ASSUME Shape, NEW w \in Workers, Crash(w)
  PROVE  Shape' /\ Frame(w) /\ pc'[w] = "idle"
  <1>1. pc[w] # "idle"
    BY DEF Crash
  <1>2. Shared /\ mission.state # "NONE"
    BY <1>1, WorkerParts
  <1>3. /\ crashes' = crashes + 1
        /\ UNCHANGED <<mission, targets, spec, commands, stored, chosen,
                       checkout, changes, runs>>
    BY DEF Crash, strategyTables, buildTables
  <1>4. Shared'
    BY <1>2, <1>3 DEF Shared, checkout
  <1>5. Frame(w) /\ pc'[w] = "idle" /\ work'[w] = NoWork /\ Holds(w)'
    BY <1>4, StopStep DEF Crash
  <1>6. QED BY <1>2, <1>3, <1>4, <1>5, NothingTyped, TablesKept

\* Every step keeps the shape, and is the step of one worker.
LEMMA NextKeepsShape ==
  ASSUME Shape, Next
  PROVE  Shape'
  <1>1. CASE StrategyNext /\ UNCHANGED buildVars
    BY <1>1, ModelShape, JoustSteps, JoustShape, AdvanceShape, AnswerShape,
       StoreShape, ActivateShape, AttachProjectShape, AttachShape, LinkShape,
       RedirectShape, CompareShape, SupersedeShape
       DEF StrategyNext
  <1>2. CASE BuildNext /\ UNCHANGED strategyVars
    BY <1>2, BuildProjectShape, TransitionShape, QuietShape, WorkspaceShape,
       CommitShape, TargetSavedShape, VerdictShape, ReviewShape, RecordShape,
       RunShape, RoundOverShape, PrepareSubmissionShape
       DEF BuildNext
  <1>3. CASE \E w \in Workers : Crash(w)
    BY <1>3, CrashShape
  <1>4. QED BY <1>1, <1>2, <1>3 DEF Next

\* A step that changes nothing.
LEMMA StutterKeepsShape ==
  ASSUME Shape, UNCHANGED vars
  PROVE  Shape'
  BY DEF vars, Shape, TypeOK, TablesTypeOK, StrategyTypeOK, BuildTypeOK,
         Tables, NewestTargetActive, JoustOnce, Holds, HoldsAs, strategyVars,
         strategyTables, buildVars, checkout, buildTables

\* Every state has the shape, whatever overlaps.
LEMMA ShapeHolds == Spec => []Shape
  <1>1. Init => Shape
    BY InitShape
  <1>2. Shape /\ [Next]_vars => Shape'
    BY NextKeepsShape, StutterKeepsShape
  <1>3. QED BY <1>1, <1>2, PTL DEF Spec

\* The rows of the mission, its targets, decisions, change sets and runs, and
\* what each handler holds of them, have the types of the code's models,
\* however the commands overlap and wherever they die.
THEOREM ProjectTypesCorrect == Spec => []TypeOK
  <1>1. Shape => TypeOK
    BY DEF Shape
  <1>2. QED BY <1>1, ShapeHolds, PTL

\* The newest target is never superseded (redirect attaches the new one before
\* it retires the one it had read), however many commands overlap: whoever asks
\* for the mission's target gets the one planned last.
THEOREM NewestStaysActive == Spec => []NewestTargetActive
  <1>1. Shape => NewestTargetActive
    BY DEF Shape, Tables
  <1>2. QED BY <1>1, ShapeHolds, PTL

(***************************************************************************)
(* One command at a time                                                   *)
(***************************************************************************)
Late == {"VALIDATING", "OPTIMIZING", "SUBMISSION_PREP",
         "READY_FOR_SUBMISSION"}
Submitting == {"optimize", "prepare", "pack", "gate"}
Building == BuildLabels \ (Submitting \cup {"refuse"})

\* Only w may be at work.
Solo(w) == \A v \in Workers : v # w => pc[v] = "idle"

Alone == \A v, w \in Workers : pc[v] # "idle" /\ pc[w] # "idle" => v = w

Passed(t, c, p, clean) ==
    [target |-> t, commit |-> c, phase |-> p, clean |-> clean, passed |-> TRUE]
        \in runs

\* Every declared phase passed at the commit, in the checkout and in a clone.
Proven(t, c) ==
    \A p \in DeclaredPhases : \A clean \in BOOLEAN : Passed(t, c, p, clean)

\* The copies of a worker at label l are what the tables hold.
Copies(l, r, k, b) ==
    /\ l # "idle" /\ k.op # "attach" => r.state = mission.state
    /\ l = "link" => k.fresh.state = mission.state
    /\ k.previous # 0 => k.old = targets[k.previous]
    /\ l \in Building =>
          /\ b.target = targets[b.id]
          /\ mission.state = IF l = "open" THEN "PLANNING" ELSE "BUILDING"
    /\ l \in Submitting => mission.state \in Late

\* The round of commands: what came before the next one has passed at the
\* commit of the change set, in the clone after all of it passed in the
\* checkout; a verdict comes after a whole round; a submission is of the active
\* target.
Round(l, b) ==
    /\ l \in {"record", "rerecord", "command"} => head[b.id] = b.commit
    /\ l = "command" /\ ~b.failed =>
          /\ \A i \in DOMAIN Declared :
                i < b.next => Passed(b.id, b.commit, Declared[i], b.clean)
          /\ b.clean => \A i \in DOMAIN Declared :
                           Passed(b.id, b.commit, Declared[i], FALSE)
    /\ l \in {"validate", "review", "finalize"} => Proven(b.id, b.commit)
    /\ l \in Changing => changes[b.cs].target = b.id
    /\ l \in {"command", "validate", "review", "finalize", "recheck",
              "refresh", "finish"} => changes[b.cs].commit = b.commit
    /\ l \in {"finalize", "recheck", "refresh", "finish"} =>
          b.cs \in Validated
    /\ l \in {"recheck", "refresh", "finish"} =>
          targets[b.id].final = b.commit
    /\ l \in Submitting =>
          /\ b.cs \in Validated /\ b.id = ActiveTarget
          /\ changes[b.cs].target = b.id
          /\ ~b.failed => Proven(changes[b.cs].target, changes[b.cs].commit)

Fits(w) == Copies(pc[w], row[w], work[w], build[w]) /\ Round(pc[w], build[w])

Turns ==
    /\ Shape /\ Alone /\ \A w \in Workers : Fits(w)
    /\ FinalCommitReproduced /\ ValidatingMeansValidated

\* A worker that acts is alone when commands do not overlap.
LEMMA Acting ==
  ASSUME ~Overlap, Turns, NEW w \in Workers, pc[w] # "idle" \/ MayStart(w)
  PROVE  Solo(w) /\ Shape /\ Fits(w)
  BY DEF Turns, Alone, Solo, MayStart

\* The step of a worker that is alone keeps the turns when what it holds
\* afterwards fits.
LEMMA StepKeepsTurns ==
  ASSUME Turns, Shape', NEW w \in Workers, Frame(w), Solo(w), Fits(w)',
         FinalCommitReproduced', ValidatingMeansValidated'
  PROVE  Turns'
  <1>1. \A v \in Workers : v # w => pc'[v] = "idle"
    BY DEF Solo, Frame
  <1>2. Alone'
    BY <1>1 DEF Alone
  <1>3. ASSUME NEW v \in Workers PROVE Fits(v)'
    <2>1. CASE v = w
      BY <2>1
    <2>2. CASE v # w
      <3>1. pc'[v] = "idle"
        BY <1>1, <2>2
      <3>2. work'[v] = NoWork
        BY <3>1 DEF Shape, Holds, HoldsAs
      <3>3. work'[v].previous = 0
        BY <3>2, NothingTyped
      <3>4. /\ "idle" \notin Building /\ "idle" \notin Submitting
            /\ "idle" \notin Changing
        BY LabelFacts DEF Building, Submitting, Changing
      <3>5. QED BY <3>1, <3>3, <3>4 DEF Fits, Copies, Round
    <2>3. QED BY <2>1, <2>2
  <1>4. QED BY <1>2, <1>3 DEF Turns

\* A worker that is done holds nothing that has to fit.
LEMMA DoneKeepsTurns ==
  ASSUME Turns, Shape', NEW w \in Workers, Frame(w), Solo(w),
         pc'[w] = "idle", FinalCommitReproduced', ValidatingMeansValidated'
  PROVE  Turns'
  <1>1. work'[w] = NoWork
    BY DEF Shape, Holds, HoldsAs
  <1>2. work'[w].previous = 0
    BY <1>1, NothingTyped
  <1>3. /\ "idle" \notin Building /\ "idle" \notin Submitting
        /\ "idle" \notin Changing
    BY LabelFacts DEF Building, Submitting, Changing
  <1>4. Fits(w)'
    BY <1>2, <1>3 DEF Fits, Copies, Round
  <1>5. QED BY <1>4, StepKeepsTurns

\* A target's final commit, spelled out.
LEMMA FinalMeansProven ==
  /\ FinalCommitReproduced <=>
        \A t \in DOMAIN targets :
            targets[t].final # 0 => Proven(t, targets[t].final)
  /\ \A x : (\A p \in DeclaredPhases : Reproduced(x, p))
               <=> Proven(x.target, x.commit)
  <1>1. ASSUME NEW t \in DOMAIN targets
        PROVE  (\A p \in DeclaredPhases :
                   Reproduced([target |-> t, commit |-> targets[t].final], p))
                <=> Proven(t, targets[t].final)
    BY DEF Reproduced, Proven, Passed
  <1>2. ASSUME NEW x
        PROVE  (\A p \in DeclaredPhases : Reproduced(x, p))
                <=> Proven(x.target, x.commit)
    BY DEF Reproduced, Proven, Passed
  <1>3. QED BY <1>1, <1>2 DEF FinalCommitReproduced

\* Runs are only added, so what is proven stays proven.
LEMMA FinalKept ==
  ASSUME FinalCommitReproduced, runs \subseteq runs',
         \A t \in DOMAIN targets' :
             \/ targets'[t].final = 0
             \/ t \in DOMAIN targets /\ targets'[t].final = targets[t].final
             \/ \E f \in Nat : targets'[t].final = f /\ Proven(t, f)'
  PROVE  FinalCommitReproduced'
  <1> SUFFICES ASSUME NEW t \in DOMAIN targets', targets'[t].final # 0,
                      NEW p \in DeclaredPhases, NEW clean \in BOOLEAN
               PROVE  [target |-> t, commit |-> targets'[t].final,
                       phase |-> p, clean |-> clean, passed |-> TRUE] \in runs'
    BY DEF FinalCommitReproduced, Reproduced
  <1>1. CASE t \in DOMAIN targets /\ targets'[t].final = targets[t].final
    <2>1. Reproduced([target |-> t, commit |-> targets[t].final], p)
      BY <1>1 DEF FinalCommitReproduced
    <2>2. [target |-> t, commit |-> targets[t].final,
           phase |-> p, clean |-> clean, passed |-> TRUE] \in runs
      BY <2>1 DEF Reproduced
    <2>3. QED BY <1>1, <2>2
  <1>2. ASSUME NEW f \in Nat, targets'[t].final = f, Proven(t, f)'
        PROVE  [target |-> t, commit |-> targets'[t].final,
                phase |-> p, clean |-> clean, passed |-> TRUE] \in runs'
    <2>1. [target |-> t, commit |-> f,
           phase |-> p, clean |-> clean, passed |-> TRUE] \in runs'
      BY <1>2 DEF Proven, Passed
    <2>2. QED BY <1>2, <2>1
  <1>3. QED BY <1>1, <1>2

\* A mission that is not past the build asks for no validated change set.
LEMMA ValidVacuous ==
  ASSUME mission'.state \notin Late
  PROVE  ValidatingMeansValidated'
  BY DEF ValidatingMeansValidated, Late

\* Otherwise the change set that validates it stays.
LEMMA ValidKept ==
  ASSUME Shape, ValidatingMeansValidated,
         mission'.state = mission.state \/ mission.state \in Late
             \/ mission'.state \notin Late,
         UNCHANGED changes,
         \A t \in DOMAIN targets : targets'[t].final = targets[t].final
  PROVE  ValidatingMeansValidated'
  <1>1. CASE mission'.state \notin Late
    BY <1>1, ValidVacuous
  <1>2. CASE mission.state \in Late
    <2>1. PICK c \in Validated :
             targets[changes[c].target].final = changes[c].commit
      BY <1>2 DEF ValidatingMeansValidated, Late
    <2>2. c \in DOMAIN changes /\ c \in Validated'
      BY <2>1 DEF Validated
    <2>3. changes[c].target \in DOMAIN targets
      BY <2>2 DEF Shape, Tables
    <2>4. targets'[changes'[c].target].final = changes'[c].commit
      BY <2>1, <2>3
    <2>5. QED BY <2>2, <2>4 DEF ValidatingMeansValidated
  <1>3. QED BY <1>1, <1>2

\* A step of a strategy handler keeps the turns when its copies fit, the
\* mission goes nowhere past the build, and no target's final commit changes.
LEMMA PlanTurn ==
  ASSUME Turns, Shape', NEW w \in Workers, Frame(w), Solo(w),
         pc'[w] \in StrategyLabels \cup {"idle"},
         pc'[w] # "idle" /\ work'[w].op # "attach" =>
             row'[w].state = mission'.state,
         pc'[w] = "link" => work'[w].fresh.state = mission'.state,
         work'[w].previous # 0 => work'[w].old = targets'[work'[w].previous],
         UNCHANGED <<changes, runs>>,
         mission'.state = mission.state \/ mission'.state \notin Late,
         \A t \in DOMAIN targets : targets'[t].final = targets[t].final,
         \A t \in DOMAIN targets' :
             t \in DOMAIN targets \/ targets'[t].final = 0
  PROVE  Turns'
  <1>1. FinalCommitReproduced'
    BY FinalKept DEF Turns
  <1>2. ValidatingMeansValidated'
    BY ValidKept DEF Turns
  <1>3. /\ pc'[w] \notin Building /\ pc'[w] \notin Submitting
        /\ pc'[w] \notin Changing
        /\ pc'[w] \notin {"record", "rerecord", "command", "validate",
                          "review", "finalize", "recheck", "refresh", "finish"}
    BY LabelFacts, StrategyLabelList
       DEF Building, Submitting, Changing, BuildLabels
  <1>4. Copies(pc[w], row[w], work[w], build[w])'
    BY <1>3 DEF Copies
  <1>5. Round(pc[w], build[w])'
    BY <1>3 DEF Round
  <1>6. QED BY <1>1, <1>2, <1>4, <1>5, StepKeepsTurns DEF Fits

\* A strategy handler returns or raises.
LEMMA LeaveTurn ==
  ASSUME Turns, Shape', NEW w \in Workers, Frame(w), Solo(w), Leave(w),
         UNCHANGED <<targets, changes, runs>>,
         mission'.state = mission.state \/ mission'.state \notin Late
  PROVE  Turns'
  <1>1. pc'[w] = "idle"
    <2>1. pc \in [Workers -> Labels]
      BY TypeParts DEF Turns, Shape
    <2>2. QED BY <2>1 DEF Leave, Forget, Goto
  <1>2. FinalCommitReproduced'
    BY FinalKept DEF Turns
  <1>3. ValidatingMeansValidated'
    BY ValidKept DEF Turns
  <1>4. QED BY <1>1, <1>2, <1>3, DoneKeepsTurns

\* What a strategy handler holds fits.
LEMMA PlannerFits ==
  ASSUME Turns, NEW w \in Workers, pc[w] # "idle"
  PROVE  /\ Shape /\ pc \in [Workers -> Labels]
         /\ row \in [Workers -> MissionRow] /\ work \in [Workers -> Work]
         /\ mission \in MissionRow /\ targets \in Seq(TargetRow)
         /\ row[w] \in MissionRow /\ work[w] \in Work
         /\ work[w].op # "attach" => row[w].state = mission.state
         /\ pc[w] = "link" => work[w].fresh.state = mission.state
         /\ work[w].previous # 0 => work[w].old = targets[work[w].previous]
  <1>1. Shape /\ Fits(w)
    BY DEF Turns
  <1>2. /\ Shared /\ pc \in [Workers -> Labels]
        /\ row \in [Workers -> MissionRow] /\ work \in [Workers -> Work]
    BY <1>1, TypeParts DEF Shape
  <1>3. QED BY <1>1, <1>2 DEF Fits, Copies, Shared

\* A step of a strategy handler that leaves the tables alone, keeps the copy,
\* and keeps what it knows of the target to supersede.
LEMMA PlanQuietTurn ==
  ASSUME Turns, Shape', NEW w \in Workers, Frame(w), Solo(w), pc[w] # "idle",
         pc'[w] \in StrategyLabels, pc'[w] # "link", UNCHANGED row,
         work'[w].op = work[w].op, work'[w].previous = work[w].previous,
         work'[w].old = work[w].old,
         mission'.state = mission.state,
         UNCHANGED <<targets, changes, runs>>
  PROVE  Turns'
  <1>1. /\ work[w].op # "attach" => row[w].state = mission.state
        /\ work[w].previous # 0 => work[w].old = targets[work[w].previous]
    BY PlannerFits
  <1>2. /\ work'[w].op # "attach" => row'[w].state = mission'.state
        /\ work'[w].previous # 0 =>
              work'[w].old = targets'[work'[w].previous]
    BY <1>1
  <1>3. QED BY <1>2, PlanTurn

\* The model calls.
LEMMA ModelTurn ==
  ASSUME ~Overlap, Turns, NEW w \in Workers,
         RetryModel(w) \/ Refused(w) \/ ModelRaises(w), UNCHANGED buildVars
  PROVE  Turns'
  <1>1. pc[w] # "idle" /\ pc[w] \in {"generate", "select", "plan", "reassess"}
    BY DEF RetryModel, Refused, ModelRaises, ModelCalls
  <1>2. Solo(w) /\ Shape
    BY <1>1, Acting
  <1>3. Shape' /\ Frame(w)
    BY <1>2, ModelShape
  <1>4. UNCHANGED <<mission, targets, changes, runs>>
    BY DEF RetryModel, Refused, ModelRaises, tables, buildVars, buildTables
  <1>5. CASE Leave(w)
    BY <1>2, <1>3, <1>4, <1>5, LeaveTurn
  <1>6. CASE ~Leave(w)
    <2>1. /\ pc \in [Workers -> Labels] /\ work \in [Workers -> Work]
          /\ work[w] \in Work
      BY <1>1, PlannerFits
    <2>2. PICK n \in {1, work[w].tries + 1} :
             work' = [work EXCEPT ![w].tries = n]
      BY <1>6 DEF RetryModel, Refused, ModelRaises, Answered
    <2>3. /\ work'[w].op = work[w].op /\ work'[w].old = work[w].old
          /\ work'[w].previous = work[w].previous
      <3>1. work'[w] = [work[w] EXCEPT !.tries = n]
        BY <2>1, <2>2
      <3>2. QED BY <2>1, <3>1 DEF Work
    <2>4. pc'[w] \in {"generate", "select", "plan", "reassess", "block"}
          /\ UNCHANGED row
      BY <1>1, <1>6, <2>1 DEF RetryModel, Refused, ModelRaises, Goto
    <2>5. pc'[w] \in StrategyLabels /\ pc'[w] # "link"
      BY <2>4, StrategyLabelList
    <2>6. QED BY <1>1, <1>2, <1>3, <1>4, <2>3, <2>4, <2>5, PlanQuietTurn
  <1>7. QED BY <1>5, <1>6

\* The steps of joust_it that save the mission's copy or nothing, and the
\* candidates it stores.
LEMMA JoustTurn ==
  ASSUME ~Overlap, Turns, NEW w \in Workers,
         \/ Block(w) \/ Discover(w) \/ SaveSpec(w) \/ SaveRules(w)
         \/ Deadline(w) \/ Store(w),
         UNCHANGED buildVars
  PROVE  Turns'
  <1>1. /\ pc[w] # "idle" /\ pc[w] \notin {"attach", "link"}
        /\ pc[w] \in StrategyLabels
    BY StrategyLabelList
       DEF Block, Discover, SaveSpec, SaveRules, Deadline, Store
  <1>2. Solo(w) /\ Shape
    BY <1>1, Acting
  <1>3. Shape' /\ Frame(w)
    BY <1>2, JoustSteps, StoreShape
  <1>4. UNCHANGED <<targets, changes, runs, row, work>>
    BY DEF Block, Discover, SaveSpec, SaveRules, Deadline, Store, tables,
           strategyVars, strategyTables, buildVars, buildTables
  <1>5. pc \in [Workers -> Labels] /\ row[w].state = mission.state
    <2>1. Plans(pc[w], row[w], work[w])
      BY <1>1, <1>2, WorkerParts
    <2>2. work[w].op # "attach"
      BY <1>1, <2>1 DEF Plans
    <2>3. QED BY <1>1, <2>2, PlannerFits
  <1>6. mission'.state = mission.state
    BY <1>5 DEF Block, Discover, SaveSpec, SaveRules, Deadline, Store, tables
  <1>7. pc'[w] \in {"blocked", "block", "save_spec", "save_rules", "deadline",
                    "rules_lock", "select", "store"}
    BY <1>5
       DEF Block, Discover, SaveSpec, SaveRules, Deadline, Store, Goto
  <1>8. pc'[w] \in StrategyLabels /\ pc'[w] # "link"
    BY <1>7, StrategyLabelList
  <1>9. QED BY <1>1, <1>2, <1>3, <1>4, <1>6, <1>8, PlanQuietTurn

\* joust_it creates the mission.
LEMMA JoustBegins ==
  ASSUME ~Overlap, Turns, NEW w \in Workers, Joust(w), UNCHANGED buildVars
  PROVE  Turns'
  <1>1. pc[w] = "idle" /\ MayStart(w)
    BY DEF Joust, MayStart
  <1>2. Solo(w) /\ Shape
    BY <1>1, Acting
  <1>3. Shape' /\ Frame(w)
    BY <1>2, JoustShape
  <1>4. /\ pc \in [Workers -> Labels] /\ row \in [Workers -> MissionRow]
        /\ work \in [Workers -> Work] /\ work[w] = NoWork
    BY <1>1, <1>2, WorkerParts, TypeParts
  <1>5. UNCHANGED <<targets, changes, runs>>
    BY DEF Joust, buildVars, buildTables
  <1>6. pc'[w] = "intake" /\ row'[w] = mission'
    BY <1>4 DEF Joust, Goto
  <1>7. mission'.state = "CREATED"
    BY DEF Joust, NoMission
  <1>8. work'[w].previous = 0
    <2>1. work'[w] = [NoWork EXCEPT !.op = "joust"]
      BY <1>4 DEF Joust
    <2>2. QED BY <2>1 DEF NoWork
  <1>9. "intake" \in StrategyLabels /\ mission'.state \notin Late
    BY <1>7, StrategyLabelList DEF Late
  <1>10. pc'[w] \in StrategyLabels /\ pc'[w] # "link"
    BY <1>6, <1>9
  <1>11. QED BY <1>2, <1>3, <1>5, <1>6, <1>8, <1>9, <1>10, PlanTurn

\* transition_state of joust_it goes nowhere past the build.
LEMMA AdvanceTurn ==
  ASSUME ~Overlap, Turns, NEW w \in Workers, Advance(w), UNCHANGED buildVars
  PROVE  Turns'
  <1> DEFINE s == Phase[pc[w]][1]
             l == Phase[pc[w]][2]
  <1>1. pc[w] \in DOMAIN Phase
    BY DEF Advance
  <1>2. /\ s \in {"INTAKE", "DISCOVERY", "RULES_LOCK", "LANDSCAPE_ANALYSIS",
                  "IDEATION", "STRATEGY_SELECTION", "PLANNING", "BUILDING",
                  "BLOCKED"}
        /\ l \in {"discovery", "discover", "landscape", "ideation",
                  "generate", "decide", "plan", "leave"}
        /\ pc[w] \in StrategyLabels
    BY <1>1, PhaseFacts
  <1>3. pc[w] # "idle"
    BY <1>2, LabelFacts
  <1>4. Solo(w) /\ Shape
    BY <1>3, Acting
  <1>5. Shape' /\ Frame(w)
    BY <1>4, AdvanceShape
  <1>6. UNCHANGED <<targets, changes, runs>>
    BY DEF Advance, buildVars, buildTables
  <1>7. s \in MissionState /\ s \notin Late
    BY <1>2, StateFacts DEF Late
  <1>8. \/ mission' = mission /\ Leave(w)
        \/ mission' = Moved(w, s) /\ Leave(w)
        \/ /\ l # "leave" /\ mission' = Moved(w, s) /\ UNCHANGED work
           /\ row' = [row EXCEPT ![w] = mission'] /\ Goto(w, l)
    BY DEF Advance
  <1> HIDE DEF s, l
  <1>9. /\ pc \in [Workers -> Labels] /\ row \in [Workers -> MissionRow]
        /\ row[w] \in MissionRow
        /\ work[w].previous # 0 => work[w].old = targets[work[w].previous]
    BY <1>3, PlannerFits
  <1>10. Moved(w, s).state = s
    BY <1>7, <1>9, MovedTyped
  <1>11. mission' = mission \/ mission'.state \notin Late
    BY <1>7, <1>8, <1>10
  <1>12. CASE Leave(w)
    BY <1>4, <1>5, <1>6, <1>11, <1>12, LeaveTurn
  <1>13. CASE /\ l # "leave" /\ UNCHANGED work
              /\ row' = [row EXCEPT ![w] = mission'] /\ Goto(w, l)
    <2>1. l \in StrategyLabels /\ l # "link"
      BY <1>2, <1>13, StrategyLabelList
    <2>2. pc'[w] = l /\ row'[w] = mission'
      BY <1>9, <1>13 DEF Goto
    <2>3. work'[w].previous # 0 => work'[w].old = targets'[work'[w].previous]
      BY <1>6, <1>9, <1>13
    <2>4. pc'[w] \in StrategyLabels /\ pc'[w] # "link"
      BY <2>1, <2>2
    <2>5. QED BY <1>4, <1>5, <1>6, <1>11, <2>2, <2>3, <2>4, PlanTurn
  <1>14. QED BY <1>8, <1>12, <1>13

\* A model's answer.
LEMMA AnswerTurn ==
  ASSUME ~Overlap, Turns, NEW w \in Workers,
         Generate(w) \/ Plan(w) \/ Select(w) \/ Reassess(w),
         UNCHANGED buildVars
  PROVE  Turns'
  <1>1. pc[w] # "idle"
    BY DEF Generate, Plan, Select, Reassess
  <1>2. Solo(w) /\ Shape
    BY <1>1, Acting
  <1>3. Shape' /\ Frame(w)
    BY <1>2, AnswerShape
  <1>4. UNCHANGED <<mission, targets, changes, runs, row>>
    BY DEF Generate, Plan, Select, Reassess, Choose, tables, buildVars,
           buildTables
  <1>5. /\ pc \in [Workers -> Labels] /\ work \in [Workers -> Work]
        /\ work[w] \in Work
    BY <1>1, PlannerFits
  <1>6. pc'[w] \in {"store", "attach", "selection", "activate"}
    BY <1>5 DEF Generate, Plan, Select, Reassess, Choose, Goto
  <1>7. pc'[w] \in StrategyLabels /\ pc'[w] # "link"
    BY <1>6, StrategyLabelList
  <1>8. \/ work' = [work EXCEPT ![w].tries = 1]
        \/ \E s : work' = [work EXCEPT ![w].sel = s, ![w].tries = 1]
    BY DEF Generate, Plan, Select, Reassess, Choose, Answered
  <1>9. /\ work'[w].op = work[w].op /\ work'[w].old = work[w].old
        /\ work'[w].previous = work[w].previous
    <2>1. CASE work' = [work EXCEPT ![w].tries = 1]
      <3>1. work'[w] = [work[w] EXCEPT !.tries = 1]
        BY <1>5, <2>1
      <3>2. QED BY <1>5, <3>1 DEF Work
    <2>2. ASSUME NEW s,
                 work' = [work EXCEPT ![w].sel = s, ![w].tries = 1]
          PROVE  /\ work'[w].op = work[w].op /\ work'[w].old = work[w].old
                 /\ work'[w].previous = work[w].previous
      <3>1. work'[w] = [work[w] EXCEPT !.sel = s, !.tries = 1]
        BY <1>5, <2>2
      <3>2. QED BY <1>5, <3>1 DEF Work
    <2>3. QED BY <1>8, <2>1, <2>2
  <1>10. QED BY <1>1, <1>2, <1>3, <1>4, <1>7, <1>9, PlanQuietTurn

\* The mission names its strategy, in the state it is in.
LEMMA ActivateTurn ==
  ASSUME ~Overlap, Turns, NEW w \in Workers, Decide(w) \/ Reactivate(w),
         UNCHANGED buildVars
  PROVE  Turns'
  <1>1. /\ pc[w] # "idle" /\ pc[w] \in {"decide", "activate"}
        /\ pc[w] \in StrategyLabels
    BY StrategyLabelList DEF Decide, Reactivate, Activate
  <1>2. Solo(w) /\ Shape
    BY <1>1, Acting
  <1>3. Shape' /\ Frame(w)
    BY <1>2, ActivateShape
  <1>4. UNCHANGED <<targets, changes, runs, work>>
    BY DEF Decide, Reactivate, Activate, strategyVars, buildVars, buildTables
  <1>5. /\ pc \in [Workers -> Labels] /\ row \in [Workers -> MissionRow]
        /\ row[w] \in MissionRow /\ work[w] \in Work
        /\ work[w].op # "attach" => row[w].state = mission.state
        /\ work[w].previous # 0 => work[w].old = targets[work[w].previous]
    BY <1>1, PlannerFits
  <1>6. work[w].op # "attach"
    <2>1. Plans(pc[w], row[w], work[w])
      BY <1>1, <1>2, WorkerParts
    <2>2. QED BY <1>1, <2>1 DEF Plans
  <1>7. row'[w] = [row[w] EXCEPT !.active = work[w].sel] /\ mission' = row'[w]
    BY <1>5 DEF Decide, Reactivate, Activate
  <1>8. mission'.state = row[w].state /\ row'[w].state = mission'.state
    BY <1>5, <1>7 DEF MissionRow
  <1>9. pc'[w] \in {"planning", "compare"}
    BY <1>5 DEF Decide, Reactivate, Activate, Goto
  <1>10. pc'[w] \in StrategyLabels /\ pc'[w] # "link"
    BY <1>9, StrategyLabelList
  <1>11. mission'.state = mission.state
    BY <1>5, <1>6, <1>8
  <1>12. work'[w].previous # 0 => work'[w].old = targets'[work'[w].previous]
    BY <1>4, <1>5
  <1>13. QED BY <1>2, <1>3, <1>4, <1>8, <1>10, <1>11, <1>12, PlanTurn

\* attach and redirect begin.
LEMMA CommandTurn ==
  ASSUME ~Overlap, Turns, NEW w \in Workers, AttachProject(w) \/ Redirect(w),
         UNCHANGED buildVars
  PROVE  Turns'
  <1>1. pc[w] = "idle" /\ MayStart(w)
    BY DEF AttachProject, Redirect, Command, MayStart
  <1>2. Solo(w) /\ Shape
    BY <1>1, Acting
  <1>3. Shape' /\ Frame(w)
    BY <1>2, AttachProjectShape, RedirectShape
  <1>4. /\ pc \in [Workers -> Labels] /\ row \in [Workers -> MissionRow]
        /\ work \in [Workers -> Work] /\ work[w] = NoWork
    BY <1>1, <1>2, WorkerParts, TypeParts
  <1>5. UNCHANGED <<mission, targets, changes, runs>>
    BY DEF AttachProject, Redirect, tables, buildVars, buildTables
  <1>6. pc'[w] \in {"attach", "reassess"}
    BY <1>4 DEF AttachProject, Redirect, Goto
  <1>7. pc'[w] \in StrategyLabels /\ pc'[w] # "link"
    BY <1>6, StrategyLabelList
  <1>8. /\ work'[w].previous = 0
        /\ work'[w].op # "attach" => row'[w].state = mission'.state
    <2>1. CASE AttachProject(w)
      <3>1. work'[w] = [NoWork EXCEPT !.op = "attach"]
        BY <1>4, <2>1 DEF AttachProject
      <3>2. QED BY <3>1 DEF NoWork
    <2>2. CASE Redirect(w)
      <3>1. /\ work'[w] = [NoWork EXCEPT !.op = "redirect", !.seen = stored,
                                         !.before = Current]
            /\ row'[w] = mission
        BY <1>4, <2>2 DEF Redirect
      <3>2. QED BY <1>5, <3>1 DEF NoWork
    <2>3. QED BY <2>1, <2>2
  <1>9. QED BY <1>2, <1>3, <1>5, <1>7, <1>8, PlanTurn

\* A new target has no final commit.
LEMMA AttachTurn ==
  ASSUME ~Overlap, Turns, NEW w \in Workers, Attach(w), UNCHANGED buildVars
  PROVE  Turns'
  <1>1. pc[w] = "attach" /\ pc[w] # "idle"
    BY DEF Attach
  <1>2. Solo(w) /\ Shape
    BY <1>1, Acting
  <1>3. Shape' /\ Frame(w)
    BY <1>2, AttachShape
  <1>4. UNCHANGED <<mission, row, changes, runs>>
    BY DEF Attach, buildVars, buildTables
  <1>5. /\ pc \in [Workers -> Labels] /\ work \in [Workers -> Work]
        /\ mission \in MissionRow /\ targets \in Seq(TargetRow)
        /\ work[w] \in Work
        /\ work[w].op # "attach" => row[w].state = mission.state
        /\ work[w].previous # 0 => work[w].old = targets[work[w].previous]
    BY <1>1, PlannerFits
  <1>6. /\ targets' \in Seq(TargetRow) /\ Len(targets') = Len(targets) + 1
        /\ \A t \in DOMAIN targets : targets'[t] = targets[t]
        /\ targets'[Len(targets')].final = 0
    BY <1>2, AttachFacts
  <1>7. \A t \in DOMAIN targets' : t \in DOMAIN targets \/ t = Len(targets')
    <2>1. /\ Len(targets) \in Nat /\ DOMAIN targets = 1..Len(targets)
          /\ DOMAIN targets' = 1..Len(targets')
      BY <1>5, <1>6
    <2>2. QED BY <1>6, <2>1
  <1>8. pc'[w] = "link" /\ "link" \in StrategyLabels
    BY <1>5, StrategyLabelList DEF Attach, Goto
  <1>9. /\ work'[w].op = work[w].op /\ work'[w].old = work[w].old
        /\ work'[w].previous = work[w].previous
        /\ work'[w].fresh.state = mission.state
    <2> DEFINE n == Len(targets')
               f == [mission EXCEPT !.target = n]
    <2>1. work'[w] = [work[w] EXCEPT !.fresh = f]
      BY <1>5 DEF Attach
    <2> HIDE DEF n
    <2>2. f.state = mission.state
      BY <1>5 DEF MissionRow
    <2> HIDE DEF f
    <2>3. QED BY <1>5, <2>1, <2>2 DEF Work
  <1>10. work[w].previous # 0 => work[w].previous \in DOMAIN targets
    <2>1. work[w].previous \in Nat /\ work[w].previous <= Len(targets)
      BY <1>1, <1>2, <1>5, WorkerParts DEF Holds, HoldsAs, Work
    <2>2. Len(targets) \in Nat /\ DOMAIN targets = 1..Len(targets)
      BY <1>5
    <2>3. QED BY <2>1, <2>2
  <1>11. work'[w].previous # 0 => work'[w].old = targets'[work'[w].previous]
    BY <1>5, <1>6, <1>9, <1>10
  <1>12. /\ \A t \in DOMAIN targets : targets'[t].final = targets[t].final
         /\ \A t \in DOMAIN targets' :
               t \in DOMAIN targets \/ targets'[t].final = 0
    BY <1>6, <1>7
  <1>13. /\ work'[w].op # "attach" => row'[w].state = mission'.state
         /\ work'[w].fresh.state = mission'.state
    BY <1>4, <1>5, <1>9
  <1>14. QED BY <1>2, <1>3, <1>4, <1>8, <1>11, <1>12, <1>13, PlanTurn

\* The mission is saved with its new target, in the state it is in.
LEMMA LinkTurn ==
  ASSUME ~Overlap, Turns, NEW w \in Workers, Link(w), UNCHANGED buildVars
  PROVE  Turns'
  <1>1. pc[w] = "link" /\ pc[w] # "idle"
    BY DEF Link
  <1>2. Solo(w) /\ Shape
    BY <1>1, Acting
  <1>3. Shape' /\ Frame(w)
    BY <1>2, LinkShape
  <1>4. UNCHANGED <<targets, changes, runs>> /\ mission' = work[w].fresh
    BY DEF Link, buildVars, buildTables
  <1>5. pc \in [Workers -> Labels] /\ work[w].fresh.state = mission.state
    BY <1>1, PlannerFits
  <1>6. mission'.state = mission.state
    BY <1>4, <1>5
  <1>7. CASE Leave(w)
    BY <1>2, <1>3, <1>4, <1>6, <1>7, LeaveTurn
  <1>8. CASE ~Leave(w)
    <2>1. UNCHANGED <<row, work>> /\ pc'[w] \in {"building", "supersede"}
      BY <1>5, <1>8 DEF Link, Goto
    <2>2. pc'[w] \in StrategyLabels /\ pc'[w] # "link"
      BY <2>1, StrategyLabelList
    <2>3. QED BY <1>1, <1>2, <1>3, <1>4, <1>6, <2>1, <2>2, PlanQuietTurn
  <1>9. QED BY <1>7, <1>8

\* redirect reads the target it will supersede.
LEMMA CompareTurn ==
  ASSUME ~Overlap, Turns, NEW w \in Workers, Compare(w), UNCHANGED buildVars
  PROVE  Turns'
  <1>1. pc[w] = "compare" /\ pc[w] # "idle"
    BY DEF Compare
  <1>2. Solo(w) /\ Shape
    BY <1>1, Acting
  <1>3. Shape' /\ Frame(w)
    BY <1>2, CompareShape
  <1>4. UNCHANGED <<mission, targets, changes, runs>>
    BY DEF Compare, tables, buildVars, buildTables
  <1>5. CASE Leave(w)
    BY <1>2, <1>3, <1>4, <1>5, LeaveTurn
  <1>6. CASE ~Leave(w)
    <2>1. /\ pc \in [Workers -> Labels] /\ work \in [Workers -> Work]
          /\ work[w] \in Work
          /\ work[w].op # "attach" => row[w].state = mission.state
      BY <1>1, PlannerFits
    <2> DEFINE p == ActiveTarget
               o == IF p = 0 THEN work[w].old ELSE targets[p]
    <2>2. /\ work' = [work EXCEPT ![w] = [work[w] EXCEPT !.previous = p,
                                                         !.old = o]]
          /\ Goto(w, "plan") /\ UNCHANGED row
      BY <1>6 DEF Compare
    <2>3. p # 0 => o = targets[p]
      OBVIOUS
    <2> HIDE DEF p, o
    <2>4. work'[w] = [work[w] EXCEPT !.previous = p, !.old = o]
      BY <2>1, <2>2
    <2>5. /\ work'[w].previous = p /\ work'[w].old = o
          /\ work'[w].op = work[w].op
      BY <2>1, <2>4 DEF Work
    <2>6. pc'[w] = "plan" /\ "plan" \in StrategyLabels
      BY <2>1, <2>2, StrategyLabelList DEF Goto
    <2>7. /\ work'[w].op # "attach" => row'[w].state = mission'.state
          /\ work'[w].previous # 0 =>
                work'[w].old = targets'[work'[w].previous]
      BY <1>4, <2>1, <2>2, <2>3, <2>5
    <2>8. QED BY <1>2, <1>3, <1>4, <2>6, <2>7, PlanTurn
  <1>7. QED BY <1>5, <1>6

\* The superseded target keeps its final commit, since nobody built it after
\* it was read.
LEMMA SupersedeTurn ==
  ASSUME ~Overlap, Turns, NEW w \in Workers, Supersede(w), UNCHANGED buildVars
  PROVE  Turns'
  <1>1. pc[w] = "supersede" /\ pc[w] # "idle" /\ "supersede" \in StrategyLabels
    BY StrategyLabelList DEF Supersede
  <1>2. Solo(w) /\ Shape
    BY <1>1, Acting
  <1>3. Shape' /\ Frame(w) /\ pc'[w] = "idle"
    BY <1>2, SupersedeShape
  <1>4. UNCHANGED <<mission, changes, runs>>
    BY DEF Supersede, buildVars, buildTables
  <1> DEFINE p == work[w].previous
             x == [work[w].old EXCEPT !.superseded = TRUE]
  <1>5. /\ targets \in Seq(TargetRow) /\ work[w] \in Work
        /\ p # 0 => work[w].old = targets[p]
    BY <1>1, PlannerFits
  <1>6. p \in DOMAIN targets /\ p # 0
    <2>1. p \in Nat /\ p # 0 /\ p < Len(targets) /\ Len(targets) \in Nat
      BY <1>1, <1>2, WorkerParts DEF Plans, Work
    <2>2. DOMAIN targets = 1..Len(targets)
      BY <1>5
    <2>3. QED BY <2>1, <2>2
  <1>7. x \in TargetRow /\ x.final = targets[p].final
    <2>1. work[w].old \in TargetRow
      BY <1>5 DEF Work
    <2>2. x \in TargetRow /\ x.final = work[w].old.final
      BY <2>1 DEF TargetRow
    <2>3. QED BY <1>5, <1>6, <2>2
  <1>8. targets' = [targets EXCEPT ![p] = x]
    BY DEF Supersede
  <1> HIDE DEF p, x
  <1>9. /\ DOMAIN targets' = DOMAIN targets /\ targets'[p] = x
        /\ \A t \in DOMAIN targets : t # p => targets'[t] = targets[t]
    BY <1>5, <1>6, <1>7, <1>8, ReplacedIsTable
  <1>10. \A t \in DOMAIN targets : targets'[t].final = targets[t].final
    BY <1>7, <1>9
  <1>11. FinalCommitReproduced'
    BY <1>4, <1>9, <1>10, FinalKept DEF Turns
  <1>12. ValidatingMeansValidated'
    BY <1>2, <1>4, <1>10, ValidKept DEF Turns
  <1>13. QED BY <1>2, <1>3, <1>11, <1>12, DoneKeepsTurns

\* A step of a build keeps the turns when what the worker holds fits.
LEMMA BuildTurn ==
  ASSUME Turns, Shape', NEW w \in Workers, Frame(w), Solo(w),
         pc'[w] \in BuildLabels,
         row'[w].state = mission'.state,
         pc'[w] \in Building =>
             /\ build'[w].target = targets'[build'[w].id]
             /\ mission'.state = IF pc'[w] = "open" THEN "PLANNING"
                                 ELSE "BUILDING",
         pc'[w] \in Submitting => mission'.state \in Late,
         Round(pc[w], build[w])', FinalCommitReproduced',
         ValidatingMeansValidated'
  PROVE  Turns'
  <1>1. work'[w] = NoWork
    BY LabelFacts DEF Shape, Holds, HoldsAs
  <1>2. work'[w].previous = 0
    BY <1>1, NothingTyped
  <1>3. pc'[w] # "link"
    BY DEF BuildLabels
  <1>4. Copies(pc[w], row[w], work[w], build[w])'
    BY <1>2, <1>3 DEF Copies
  <1>5. QED BY <1>4, StepKeepsTurns DEF Fits

\* What a worker that builds holds fits.
LEMMA BuilderFits ==
  ASSUME ~Overlap, Turns, NEW w \in Workers, pc[w] \in BuildLabels
  PROVE  /\ Shape /\ Solo(w) /\ pc[w] # "idle"
         /\ pc \in [Workers -> Labels] /\ row \in [Workers -> MissionRow]
         /\ build \in [Workers -> Build] /\ build[w] \in Build
         /\ targets \in Seq(TargetRow) /\ changes \in Seq(ChangeSet)
         /\ row[w] \in MissionRow /\ mission \in MissionRow
         /\ row[w].state = mission.state
         /\ pc[w] \in Building =>
               /\ build[w].target = targets[build[w].id]
               /\ mission.state = IF pc[w] = "open" THEN "PLANNING"
                                  ELSE "BUILDING"
               /\ mission.state \notin Late
         /\ pc[w] \in Submitting => mission.state \in Late
         /\ Round(pc[w], build[w])
         /\ FinalCommitReproduced /\ ValidatingMeansValidated
  <1>1. pc[w] # "idle"
    BY LabelFacts
  <1>2. Shape /\ Solo(w) /\ Fits(w)
    BY <1>1, Acting
  <1>3. /\ Shared /\ pc \in [Workers -> Labels]
        /\ row \in [Workers -> MissionRow] /\ build \in [Workers -> Build]
    BY <1>2, TypeParts DEF Shape
  <1>4. work[w] = NoWork
    BY <1>2, WorkerParts
  <1>5. work[w].op # "attach"
    BY <1>4, NothingTyped
  <1>6. /\ row[w].state = mission.state
        /\ pc[w] \in Building =>
               /\ build[w].target = targets[build[w].id]
               /\ mission.state = IF pc[w] = "open" THEN "PLANNING"
                                  ELSE "BUILDING"
        /\ pc[w] \in Submitting => mission.state \in Late
        /\ Round(pc[w], build[w])
    BY <1>1, <1>2, <1>5 DEF Fits, Copies
  <1>7. pc[w] \in Building => mission.state \notin Late
    BY <1>6 DEF Late
  <1>8. QED BY <1>1, <1>2, <1>3, <1>6, <1>7 DEF Shared, Turns

\* A build or a submission returns or raises, the targets as they were.
LEMMA QuitTurn ==
  ASSUME ~Overlap, Turns, Shape', NEW w \in Workers, Frame(w),
         pc[w] \in BuildLabels, Quit(w), UNCHANGED <<targets, runs>>,
         ValidatingMeansValidated'
  PROVE  Turns'
  <1>1. Solo(w) /\ FinalCommitReproduced /\ pc \in [Workers -> Labels]
    BY BuilderFits
  <1>2. pc'[w] = "idle"
    BY <1>1 DEF Quit, Forget, Goto
  <1>3. FinalCommitReproduced'
    BY <1>1, FinalKept
  <1>4. QED BY <1>1, <1>2, <1>3, DoneKeepsTurns

\* A step from one label of the build loop to another.
LEMMA LoopTurn ==
  ASSUME ~Overlap, Turns, Shape', NEW w \in Workers, Frame(w),
         pc[w] \in Building, pc[w] # "open",
         pc'[w] \in Building, pc'[w] # "open", UNCHANGED <<mission, row>>,
         build'[w].target = targets'[build'[w].id],
         Round(pc[w], build[w])', FinalCommitReproduced'
  PROVE  Turns'
  <1>1. pc[w] \in BuildLabels /\ pc'[w] \in BuildLabels
        /\ pc'[w] \notin Submitting
    BY DEF Building
  <1>2. /\ Solo(w) /\ row[w].state = mission.state
        /\ mission.state = "BUILDING" /\ mission.state \notin Late
    BY <1>1, BuilderFits
  <1>3. ValidatingMeansValidated'
    BY <1>2, ValidVacuous
  <1>4. row'[w].state = mission'.state /\ mission'.state = "BUILDING"
    BY <1>2
  <1>5. QED BY <1>1, <1>2, <1>3, <1>4, BuildTurn

\* A step of the build loop that ends it.
LEMMA LoopQuits ==
  ASSUME ~Overlap, Turns, Shape', NEW w \in Workers, Frame(w),
         pc[w] \in Building, Quit(w), UNCHANGED <<mission, targets, runs>>
  PROVE  Turns'
  <1>1. pc[w] \in BuildLabels
    BY DEF Building
  <1>2. mission.state \notin Late
    BY <1>1, BuilderFits
  <1>3. ValidatingMeansValidated'
    BY <1>2, ValidVacuous
  <1>4. QED BY <1>1, <1>3, QuitTurn

\* The build begins with the active target.
LEMMA BuildProjectTurn ==
  ASSUME ~Overlap, Turns, NEW w \in Workers, BuildProject(w),
         UNCHANGED strategyVars
  PROVE  Turns'
  <1>1. pc[w] = "idle" /\ MayStart(w)
    BY DEF BuildProject, Command, MayStart
  <1>2. Solo(w) /\ Shape
    BY <1>1, Acting
  <1>3. Shape' /\ Frame(w)
    BY <1>2, BuildProjectShape
  <1>4. /\ pc \in [Workers -> Labels] /\ row \in [Workers -> MissionRow]
        /\ build \in [Workers -> Build] /\ build[w] \in Build
    BY <1>2, TypeParts DEF Shape
  <1>5. UNCHANGED <<mission, targets, changes, runs>>
    BY DEF BuildProject, tables
  <1>6. row'[w] = mission
    BY <1>4 DEF BuildProject
  <1>7. pc'[w] = IF mission.state = "PLANNING" THEN "open" ELSE "workspace"
    BY <1>4 DEF BuildProject, Goto
  <1>8. mission.state \in {"PLANNING", "BUILDING"}
    BY DEF BuildProject
  <1>9. build'[w].target = targets'[build'[w].id]
    <2> DEFINE a == ActiveTarget
               t == targets[a]
    <2>1. build'[w] = [build[w] EXCEPT !.id = a, !.target = t]
      BY <1>4 DEF BuildProject
    <2>2. targets'[a] = t
      BY <1>5
    <2> HIDE DEF a, t
    <2>3. build'[w].id = a /\ build'[w].target = t
      BY <1>4, <2>1 DEF Build
    <2>4. QED BY <2>2, <2>3
  <1>10. /\ pc'[w] \in {"open", "workspace"} /\ pc'[w] \in BuildLabels
         /\ pc'[w] \notin Submitting
         /\ mission'.state = IF pc'[w] = "open" THEN "PLANNING" ELSE "BUILDING"
    BY <1>5, <1>7, <1>8 DEF BuildLabels, Submitting
  <1>11. Round(pc[w], build[w])'
    BY <1>10 DEF Round, Changing, Submitting
  <1>12. FinalCommitReproduced' /\ ValidatingMeansValidated'
    BY <1>2, <1>5, FinalKept, ValidKept DEF Turns
  <1>13. QED BY <1>2, <1>3, <1>5, <1>6, <1>9, <1>10, <1>11, <1>12, BuildTurn

\* The mission enters BUILDING.
LEMMA OpenTurn ==
  ASSUME ~Overlap, Turns, NEW w \in Workers, OpenBuilding(w),
         UNCHANGED strategyVars
  PROVE  Turns'
  <1>1. pc[w] = "open" /\ pc[w] \in BuildLabels /\ pc[w] \in Building
    BY DEF OpenBuilding, BuildLabels, Building, Submitting
  <1>2. /\ Solo(w) /\ Shape /\ pc \in [Workers -> Labels]
        /\ row \in [Workers -> MissionRow] /\ row[w] \in MissionRow
        /\ build[w].target = targets[build[w].id]
        /\ FinalCommitReproduced
    BY <1>1, BuilderFits
  <1>3. Shape' /\ Frame(w)
    BY <1>2, TransitionShape
  <1>4. UNCHANGED <<targets, changes, runs, build>>
    BY DEF OpenBuilding, buildVars, buildTables
  <1>5. mission'.state = "BUILDING"
    BY <1>2, MovedTyped, StateFacts DEF OpenBuilding
  <1>6. row'[w] = mission' /\ pc'[w] = "workspace"
    BY <1>2 DEF OpenBuilding, Goto
  <1>7. "workspace" \in BuildLabels /\ "workspace" \notin Submitting
        /\ mission'.state \notin Late
    BY <1>5 DEF BuildLabels, Submitting, Late
  <1>8. Round(pc[w], build[w])'
    BY <1>6 DEF Round, Changing, Submitting
  <1>9. FinalCommitReproduced' /\ ValidatingMeansValidated'
    BY <1>2, <1>4, <1>7, FinalKept, ValidVacuous
  <1>10. build'[w].target = targets'[build'[w].id]
    BY <1>2, <1>4
  <1>11. pc'[w] \in BuildLabels /\ pc'[w] \notin Submitting /\ pc'[w] # "open"
    BY <1>6, <1>7
  <1>12. QED BY <1>2, <1>3, <1>5, <1>6, <1>8, <1>9, <1>10, <1>11, BuildTurn

\* The workspace, the base commit and the implementer.
LEMMA WorkspaceTurn ==
  ASSUME ~Overlap, Turns, NEW w \in Workers,
         Workspace(w) \/ Implement(w) \/ Repair(w), UNCHANGED strategyVars
  PROVE  Turns'
  <1>1. /\ pc[w] \in {"workspace", "implement", "repair"}
        /\ pc[w] \in BuildLabels /\ pc[w] \in Building /\ pc[w] # "open"
    BY DEF Workspace, Implement, Repair, RunImplementer, BuildLabels,
           Building, Submitting
  <1>2. /\ Solo(w) /\ Shape /\ pc \in [Workers -> Labels]
        /\ build[w].target = targets[build[w].id]
        /\ Round(pc[w], build[w]) /\ FinalCommitReproduced
    BY <1>1, BuilderFits
  <1>3. Shape' /\ Frame(w)
    BY <1>2, WorkspaceShape
  <1>4. UNCHANGED <<mission, targets, changes, runs>>
    BY DEF Workspace, Implement, Repair, RunImplementer, tables, buildTables
  <1>5. CASE Quit(w)
    BY <1>1, <1>3, <1>4, <1>5, LoopQuits
  <1>6. CASE ~Quit(w)
    <2>1. /\ UNCHANGED <<row, build>>
          /\ \/ pc'[w] \in {"adopt", "commit"}
             \/ pc[w] = "repair" /\ pc'[w] = "recommit"
      BY <1>2, <1>6 DEF Workspace, Implement, Repair, RunImplementer, Goto
    <2>2. pc'[w] \in Building /\ pc'[w] # "open"
      BY <2>1 DEF Building, BuildLabels, Submitting
    <2>3. Round(pc[w], build[w])'
      <3>1. CASE pc'[w] \in {"adopt", "commit"}
        BY <3>1 DEF Round, Changing, Submitting
      <3>2. CASE pc[w] = "repair" /\ pc'[w] = "recommit"
        <4>1. changes[build[w].cs].target = build[w].id
          BY <1>2, <3>2 DEF Round, Changing
        <4>2. changes'[build'[w].cs].target = build'[w].id
          BY <1>4, <2>1, <4>1
        <4>3. QED BY <3>2, <4>2 DEF Round, Submitting
      <3>3. QED BY <2>1, <3>1, <3>2
    <2>4. FinalCommitReproduced'
      BY <1>2, <1>4, FinalKept
    <2>5. build'[w].target = targets'[build'[w].id]
      BY <1>2, <1>4, <2>1
    <2>6. QED BY <1>1, <1>3, <1>4, <2>1, <2>2, <2>3, <2>4, <2>5, LoopTurn
  <1>7. QED BY <1>5, <1>6

\* The target is saved as the table has it.
LEMMA AdoptTurn ==
  ASSUME ~Overlap, Turns, NEW w \in Workers, AdoptTarget(w),
         UNCHANGED strategyVars
  PROVE  Turns'
  <1>1. /\ pc[w] = "adopt" /\ pc[w] \in BuildLabels /\ pc[w] \in Building
        /\ pc[w] # "open" /\ pc[w] \in Aiming
    BY DEF AdoptTarget, BuildLabels, Building, Submitting, Aiming
  <1>2. /\ Solo(w) /\ Shape /\ pc \in [Workers -> Labels]
        /\ build[w].target = targets[build[w].id]
        /\ FinalCommitReproduced /\ targets \in Seq(TargetRow)
    BY <1>1, BuilderFits
  <1>3. Shape' /\ Frame(w)
    BY <1>2, TargetSavedShape
  <1>4. UNCHANGED <<mission, row, changes, runs, build>>
    BY DEF AdoptTarget, buildVars, buildTables
  <1>5. build[w].id \in DOMAIN targets
    BY <1>1, <1>2, BuilderParts
  <1>6. targets' = targets
    BY <1>2, <1>5 DEF AdoptTarget, SaveTarget
  <1>7. pc'[w] = "implement"
    BY <1>2 DEF AdoptTarget, Goto
  <1>8. pc'[w] \in Building /\ pc'[w] # "open"
    BY <1>7 DEF Building, BuildLabels, Submitting
  <1>9. Round(pc[w], build[w])'
    BY <1>7 DEF Round, Changing, Submitting
  <1>10. FinalCommitReproduced'
    BY <1>2, <1>4, <1>6, FinalKept
  <1>11. build'[w].target = targets'[build'[w].id]
    BY <1>2, <1>4, <1>6
  <1>12. QED BY <1>1, <1>3, <1>4, <1>8, <1>9, <1>10, <1>11, LoopTurn

\* A commit: HEAD is what the worker holds.
LEMMA CommitTurn ==
  ASSUME ~Overlap, Turns, NEW w \in Workers, Commit(w) \/ Recommit(w),
         UNCHANGED strategyVars
  PROVE  Turns'
  <1>1. /\ pc[w] \in {"commit", "recommit"}
        /\ pc[w] \in BuildLabels /\ pc[w] \in Building /\ pc[w] # "open"
    BY DEF Commit, Recommit, CommitChange, BuildLabels, Building, Submitting
  <1>2. /\ Solo(w) /\ Shape /\ pc \in [Workers -> Labels]
        /\ build \in [Workers -> Build] /\ build[w] \in Build
        /\ build[w].target = targets[build[w].id]
        /\ Round(pc[w], build[w]) /\ FinalCommitReproduced
    BY <1>1, BuilderFits
  <1>3. Shape' /\ Frame(w)
    BY <1>2, CommitShape
  <1>4. UNCHANGED <<mission, targets, row, changes, runs>>
    BY DEF Commit, Recommit, CommitChange, tables, buildTables
  <1>5. /\ build'[w].commit = head'[build[w].id]
        /\ build'[w].id = build[w].id /\ build'[w].cs = build[w].cs
        /\ build'[w].target = build[w].target
    <2>1. PICK f : build' = [build EXCEPT ![w].commit = head'[build[w].id],
                                          ![w].files = f]
      BY DEF Commit, Recommit, CommitChange
    <2> DEFINE h == head'[build[w].id]
    <2>2. build'[w] = [build[w] EXCEPT !.commit = h, !.files = f]
      BY <1>2, <2>1
    <2> HIDE DEF h
    <2>3. /\ build'[w].commit = h
          /\ build'[w].id = build[w].id /\ build'[w].cs = build[w].cs
          /\ build'[w].target = build[w].target
      BY <1>2, <2>2 DEF Build
    <2>4. QED BY <2>3 DEF h
  <1>6. \/ pc'[w] = "record"
        \/ pc'[w] = "rerecord" /\ pc[w] = "recommit"
    BY <1>2 DEF Commit, Recommit, CommitChange, Goto
  <1>7. pc'[w] \in Building /\ pc'[w] # "open"
    BY <1>6 DEF Building, BuildLabels, Submitting
  <1>8. head'[build'[w].id] = build'[w].commit
    BY <1>5
  <1>9. pc[w] = "recommit" => changes'[build'[w].cs].target = build'[w].id
    BY <1>2, <1>4, <1>5 DEF Round, Changing
  <1>10. Round(pc[w], build[w])'
    BY <1>6, <1>8, <1>9 DEF Round, Changing, Submitting
  <1>11. FinalCommitReproduced'
    BY <1>2, <1>4, FinalKept
  <1>12. build'[w].target = targets'[build'[w].id]
    BY <1>2, <1>4, <1>5
  <1>13. QED BY <1>1, <1>3, <1>4, <1>7, <1>10, <1>11, <1>12, LoopTurn

\* The change set names the commit at HEAD, and its round begins.
LEMMA RecordTurn ==
  ASSUME ~Overlap, Turns, NEW w \in Workers, Record(w) \/ Rerecord(w),
         UNCHANGED strategyVars
  PROVE  Turns'
  <1>1. /\ pc[w] \in {"record", "rerecord"}
        /\ pc[w] \in BuildLabels /\ pc[w] \in Building /\ pc[w] # "open"
    BY DEF Record, Rerecord, BuildLabels, Building, Submitting
  <1>2. /\ Solo(w) /\ Shape /\ pc \in [Workers -> Labels]
        /\ build \in [Workers -> Build] /\ build[w] \in Build
        /\ build[w].target = targets[build[w].id]
        /\ changes \in Seq(ChangeSet)
        /\ Round(pc[w], build[w]) /\ FinalCommitReproduced
    BY <1>1, BuilderFits
  <1>3. Shape' /\ Frame(w)
    BY <1>2, RecordShape
  <1>4. UNCHANGED <<mission, targets, row, head, runs>>
    BY DEF Record, Rerecord, tables, checkout
  <1>5. head[build[w].id] = build[w].commit
    BY <1>1, <1>2 DEF Round
  <1>6. PICK c :
           /\ build' = [build EXCEPT ![w].cs = c, ![w].next = 1,
                           ![w].clean = FALSE, ![w].failed = FALSE,
                           ![w].blocked = FALSE]
           /\ Goto(w, "command")
           /\ changes'[c].target = build[w].id
           /\ changes'[c].commit = build[w].commit
    <2>1. CASE Record(w)
      <3> DEFINE x == [target |-> build[w].id, commit |-> build[w].commit,
                       files |-> build[w].files, status |-> "committed"]
      <3>1. x \in ChangeSet
        BY <1>2 DEF ChangeSet, Statuses, Build
      <3>2. changes' = Append(changes, x)
        BY <2>1 DEF Record
      <3>3. x.target = build[w].id /\ x.commit = build[w].commit
        OBVIOUS
      <3> HIDE DEF x
      <3>4. changes'[Len(changes')] = x
        BY <1>2, <3>1, <3>2, AppendProperties
      <3>5. QED BY <2>1, <3>3, <3>4 DEF Record, StartCommands
    <2>2. CASE Rerecord(w)
      <3>1. pc[w] = "rerecord" /\ pc[w] \in Changing
        BY <2>2 DEF Rerecord, Changing
      <3> DEFINE c == build[w].cs
                 x == [changes[c] EXCEPT !.commit = build[w].commit,
                                         !.files = build[w].files,
                                         !.status = "repaired"]
      <3>2. c \in DOMAIN changes /\ changes[c].target = build[w].id
        BY <1>1, <1>2, <3>1, BuilderParts DEF Round
      <3>3. changes[c] \in ChangeSet
        BY <1>2, <3>2
      <3>4. /\ x \in ChangeSet /\ x.target = changes[c].target
            /\ x.commit = build[w].commit
        <4>1. build[w].commit \in Nat /\ build[w].files \in BOOLEAN
          BY <1>2 DEF Build
        <4>2. QED BY <3>3, <4>1 DEF ChangeSet, Statuses
      <3>5. changes' = [changes EXCEPT ![c] = x] /\ StartCommands(w, c)
        BY <2>2, <3>2 DEF Rerecord
      <3> HIDE DEF c, x
      <3>6. changes'[c] = x
        BY <1>2, <3>2, <3>5
      <3>7. QED BY <3>2, <3>4, <3>5, <3>6 DEF StartCommands
    <2>3. QED BY <2>1, <2>2
  <1>7. /\ build'[w].cs = c /\ build'[w].next = 1
        /\ build'[w].clean = FALSE /\ build'[w].id = build[w].id
        /\ build'[w].commit = build[w].commit
        /\ build'[w].target = build[w].target
    <2>1. build'[w] = [build[w] EXCEPT !.cs = c, !.next = 1, !.clean = FALSE,
                                       !.failed = FALSE, !.blocked = FALSE]
      BY <1>2, <1>6
    <2>2. QED BY <1>2, <2>1 DEF Build
  <1>8. pc'[w] = "command"
    BY <1>2, <1>6 DEF Goto
  <1>9. pc'[w] \in Building /\ pc'[w] # "open"
    BY <1>8 DEF Building, BuildLabels, Submitting
  <1>10. \A i \in DOMAIN Declared : ~ (i < 1)
    BY Constants
  <1>11. Round(pc[w], build[w])'
    BY <1>4, <1>5, <1>6, <1>7, <1>8, <1>10 DEF Round, Submitting
  <1>12. FinalCommitReproduced'
    BY <1>2, <1>4, FinalKept
  <1>13. build'[w].target = targets'[build'[w].id]
    BY <1>2, <1>4, <1>7
  <1>14. QED BY <1>1, <1>3, <1>4, <1>9, <1>11, <1>12, <1>13, LoopTurn

\* A command that passes is one more phase passed at the change set's commit.
LEMMA RunTurn ==
  ASSUME ~Overlap, Turns, NEW w \in Workers, RunCommand(w),
         UNCHANGED strategyVars
  PROVE  Turns'
  <1>1. /\ pc[w] = "command" /\ pc[w] \in BuildLabels /\ pc[w] \in Building
        /\ pc[w] # "open" /\ pc[w] \in Changing
    BY DEF RunCommand, BuildLabels, Building, Submitting, Changing
  <1>2. /\ Solo(w) /\ Shape /\ pc \in [Workers -> Labels]
        /\ build \in [Workers -> Build] /\ build[w] \in Build
        /\ build[w].target = targets[build[w].id]
        /\ Round("command", build[w]) /\ FinalCommitReproduced
    BY <1>1, BuilderFits
  <1>3. Shape' /\ Frame(w)
    BY <1>2, RunShape
  <1>4. UNCHANGED <<mission, targets, row, head, changes>>
    BY DEF RunCommand, tables
  <1> DEFINE at == IF build[w].clean THEN build[w].commit
                   ELSE head[build[w].id]
  <1>5. at = build[w].commit
    BY <1>2 DEF Round
  <1>6. PICK passed \in BOOLEAN, l \in {"failure", "command"} :
           /\ build' = [build EXCEPT ![w].next = @ + 1,
                                     ![w].failed = @ \/ ~passed]
           /\ Goto(w, l)
           /\ passed => runs' = runs \cup {RunOf(build[w], at, TRUE)}
           /\ runs' \in {runs, runs \cup {RunOf(build[w], at, FALSE)},
                         runs \cup {RunOf(build[w], at, TRUE)}}
    BY <1>2, RunEffect
  <1> HIDE DEF at
  <1>7. runs \subseteq runs'
    BY <1>6
  <1>8. PICK f \in BOOLEAN : /\ f = (build[w].failed \/ ~passed)
                             /\ build'[w] = [build[w] EXCEPT
                                    !.next = build[w].next + 1, !.failed = f]
    BY <1>2, <1>6
  <1>9. /\ build'[w].next = build[w].next + 1 /\ build'[w].failed = f
        /\ build'[w].cs = build[w].cs /\ build'[w].id = build[w].id
        /\ build'[w].commit = build[w].commit
        /\ build'[w].clean = build[w].clean
        /\ build'[w].target = build[w].target
    BY <1>2, <1>8 DEF Build
  <1>10. pc'[w] = l
    BY <1>2, <1>6 DEF Goto
  <1>11. l \in Building /\ l # "open"
    BY DEF Building, BuildLabels, Submitting
  <1>12. ~build'[w].failed => passed /\ ~build[w].failed
    BY <1>8, <1>9
  <1>13. ASSUME ~build'[w].failed, NEW i \in DOMAIN Declared,
                i < build'[w].next
         PROVE  Passed(build[w].id, build[w].commit, Declared[i],
                       build[w].clean)'
    <2>1. CASE i < build[w].next
      <3>1. Passed(build[w].id, build[w].commit, Declared[i], build[w].clean)
        BY <1>2, <1>12, <1>13, <2>1 DEF Round
      <3>2. QED BY <1>7, <1>9, <3>1 DEF Passed
    <2>2. CASE i = build[w].next
      <3>1. RunOf(build[w], at, TRUE) \in runs'
        BY <1>6, <1>12, <1>13
      <3>2. QED BY <1>5, <1>9, <2>2, <3>1 DEF RunOf, Passed
    <2>3. build[w].next \in Nat /\ i \in Nat
      BY <1>2, Constants DEF Build
    <2>4. QED BY <1>9, <1>13, <2>1, <2>2, <2>3
  <1>14. ASSUME ~build'[w].failed, build'[w].clean, NEW i \in DOMAIN Declared
         PROVE  Passed(build[w].id, build[w].commit, Declared[i], FALSE)'
    <2>1. Passed(build[w].id, build[w].commit, Declared[i], FALSE)
      BY <1>2, <1>9, <1>12, <1>14 DEF Round
    <2>2. QED BY <1>7, <1>9, <2>1 DEF Passed
  <1>15. /\ changes'[build'[w].cs].target = build'[w].id
         /\ changes'[build'[w].cs].commit = build'[w].commit
         /\ head'[build'[w].id] = build'[w].commit
    BY <1>2, <1>4, <1>9 DEF Round, Changing
  <1>16. Round(pc[w], build[w])'
    BY <1>10, <1>13, <1>14, <1>15 DEF Round, Submitting
  <1>17. FinalCommitReproduced'
    BY <1>2, <1>4, <1>7, FinalKept
  <1>18. build'[w].target = targets'[build'[w].id]
    BY <1>2, <1>4, <1>9
  <1>19. QED BY <1>1, <1>3, <1>4, <1>10, <1>11, <1>16, <1>17, <1>18, LoopTurn

\* A round without failures in the checkout is tried in a clone; one without
\* failures in the clone is proven.
LEMMA RoundOverTurn ==
  ASSUME ~Overlap, Turns, NEW w \in Workers, EndOfCommands(w),
         UNCHANGED strategyVars
  PROVE  Turns'
  <1> USE Constants
  <1>1. /\ pc[w] = "command" /\ pc[w] \in BuildLabels /\ pc[w] \in Building
        /\ pc[w] # "open"
    BY DEF EndOfCommands, BuildLabels, Building, Submitting
  <1>2. /\ Solo(w) /\ Shape /\ pc \in [Workers -> Labels]
        /\ build \in [Workers -> Build] /\ build[w] \in Build
        /\ build[w].target = targets[build[w].id]
        /\ Round("command", build[w]) /\ FinalCommitReproduced
    BY <1>1, BuilderFits
  <1>3. Shape' /\ Frame(w)
    BY <1>2, RoundOverShape
  <1>4. UNCHANGED <<mission, targets, head, changes, runs>>
    BY DEF EndOfCommands, tables, checkout, buildTables
  <1>5. FinalCommitReproduced'
    BY <1>2, <1>4, FinalKept
  <1>6. /\ changes[build[w].cs].target = build[w].id
        /\ changes[build[w].cs].commit = build[w].commit
        /\ head[build[w].id] = build[w].commit
    BY <1>2 DEF Round, Changing
  <1>7. \A i \in DOMAIN Declared : i < build[w].next
    <2>1. build[w].next \in Nat /\ build[w].next > Len(Declared)
      BY <1>2 DEF EndOfCommands, Build
    <2>2. QED BY <2>1
  <1>8. ~build[w].failed =>
           /\ \A i \in DOMAIN Declared :
                 Passed(build[w].id, build[w].commit, Declared[i],
                        build[w].clean)
           /\ build[w].clean => \A i \in DOMAIN Declared :
                 Passed(build[w].id, build[w].commit, Declared[i], FALSE)
    BY <1>2, <1>7 DEF Round
  <1>9. CASE Quit(w)
    BY <1>1, <1>3, <1>4, <1>9, LoopQuits
  <1>10. CASE build[w].failed /\ Goto(w, "failure") /\ UNCHANGED <<row, build>>
    <2>1. pc'[w] = "failure"
      BY <1>2, <1>10 DEF Goto
    <2>2. pc'[w] \in Building /\ pc'[w] # "open"
      BY <2>1 DEF Building, BuildLabels, Submitting
    <2>3. Round(pc[w], build[w])'
      BY <1>4, <1>6, <1>10, <2>1 DEF Round, Submitting
    <2>4. build'[w].target = targets'[build'[w].id]
      BY <1>2, <1>4, <1>10
    <2>5. QED BY <1>1, <1>3, <1>4, <1>5, <1>10, <2>2, <2>3, <2>4, LoopTurn
  <1>11. CASE /\ ~build[w].failed /\ build[w].clean /\ Goto(w, "validate")
              /\ UNCHANGED <<row, build>>
    <2>1. pc'[w] = "validate"
      BY <1>2, <1>11 DEF Goto
    <2>2. pc'[w] \in Building /\ pc'[w] # "open"
      BY <2>1 DEF Building, BuildLabels, Submitting
    <2>3. Proven(build[w].id, build[w].commit)
      <3> SUFFICES ASSUME NEW p \in DeclaredPhases, NEW clean \in BOOLEAN
                   PROVE  Passed(build[w].id, build[w].commit, p, clean)
        BY DEF Proven
      <3>1. PICK i \in DOMAIN Declared : p = Declared[i]
        BY DEF DeclaredPhases
      <3>2. build[w].clean = TRUE
        BY <1>2, <1>11 DEF Build
      <3>3. CASE clean = TRUE
        BY <1>8, <1>11, <3>1, <3>2, <3>3
      <3>4. CASE clean = FALSE
        BY <1>8, <1>11, <3>1, <3>4
      <3>5. QED BY <3>3, <3>4
    <2>4. Proven(build[w].id, build[w].commit)'
      BY <1>4, <1>11, <2>3 DEF Proven, Passed
    <2>5. Round(pc[w], build[w])'
      BY <1>4, <1>6, <1>11, <2>1, <2>4 DEF Round, Submitting
    <2>6. build'[w].target = targets'[build'[w].id]
      BY <1>2, <1>4, <1>11
    <2>7. QED BY <1>1, <1>3, <1>4, <1>5, <1>11, <2>2, <2>5, <2>6, LoopTurn
  <1>12. CASE /\ ~build[w].failed /\ ~build[w].clean /\ Goto(w, "command")
              /\ UNCHANGED row
              /\ build' = [build EXCEPT ![w].next = 1, ![w].clean = TRUE]
    <2>1. pc'[w] = "command"
      BY <1>2, <1>12 DEF Goto
    <2>2. pc'[w] \in Building /\ pc'[w] # "open"
      BY <2>1 DEF Building, BuildLabels, Submitting
    <2>3. /\ build'[w].next = 1 /\ build'[w].clean = TRUE
          /\ build'[w].id = build[w].id /\ build'[w].cs = build[w].cs
          /\ build'[w].commit = build[w].commit
          /\ build'[w].target = build[w].target
      <3>1. build'[w] = [build[w] EXCEPT !.next = 1, !.clean = TRUE]
        BY <1>2, <1>12
      <3>2. QED BY <1>2, <3>1 DEF Build
    <2>4. build[w].clean = FALSE
      BY <1>2, <1>12 DEF Build
    <2>5. \A i \in DOMAIN Declared :
             /\ ~(i < 1)
             /\ Passed(build[w].id, build[w].commit, Declared[i], FALSE)'
      <3>1. \A i \in DOMAIN Declared :
               Passed(build[w].id, build[w].commit, Declared[i], FALSE)
        BY <1>8, <1>12, <2>4
      <3>2. QED BY <1>4, <2>3, <3>1 DEF Passed
    <2>6. Round(pc[w], build[w])'
      BY <1>4, <1>6, <2>1, <2>3, <2>5 DEF Round, Submitting
    <2>7. build'[w].target = targets'[build'[w].id]
      BY <1>2, <1>4, <2>3
    <2>8. QED BY <1>1, <1>3, <1>4, <1>5, <1>12, <2>2, <2>6, <2>7, LoopTurn
  <1>13. QED BY <1>9, <1>10, <1>11, <1>12 DEF EndOfCommands

\* The verdicts on a change set: validated, failed or rejected.
LEMMA VerdictTurn ==
  ASSUME ~Overlap, Turns, NEW w \in Workers,
         Validate(w) \/ Failure(w) \/ Reject(w), UNCHANGED strategyVars
  PROVE  Turns'
  <1>1. /\ pc[w] \in {"validate", "failure", "reject"}
        /\ pc[w] \in BuildLabels /\ pc[w] \in Building /\ pc[w] # "open"
        /\ pc[w] \in Changing
    BY DEF Validate, Failure, Reject, BuildLabels, Building, Submitting,
           Changing
  <1>2. /\ Solo(w) /\ Shape /\ pc \in [Workers -> Labels]
        /\ build \in [Workers -> Build] /\ build[w] \in Build
        /\ build[w].target = targets[build[w].id]
        /\ Round(pc[w], build[w]) /\ FinalCommitReproduced
    BY <1>1, BuilderFits
  <1>3. Shape' /\ Frame(w)
    BY <1>2, VerdictShape
  <1>4. UNCHANGED <<mission, targets, spec, bounds, stored, chosen, checkout,
                    runs>>
    BY DEF Validate, Failure, Reject, tables, strategyVars, strategyTables
  <1>5. FinalCommitReproduced'
    BY <1>2, <1>4, FinalKept
  <1>6. changes[build[w].cs].target = build[w].id
    BY <1>1, <1>2 DEF Round
  <1>7. CASE Quit(w)
    BY <1>1, <1>3, <1>4, <1>7, LoopQuits
  <1>8. CASE Validate(w)
    <2>1. /\ pc[w] = "validate" /\ pc'[w] = "review" /\ UNCHANGED <<row, build>>
          /\ SaveStatus(w, "validated")
      BY <1>2, <1>8 DEF Validate, Goto
    <2>2. pc'[w] \in Building /\ pc'[w] # "open"
      BY <2>1 DEF Building, BuildLabels, Submitting
    <2>3. "validated" \in Statuses
      BY DEF Statuses
    <2>4. /\ changes'[build[w].cs].target = changes[build[w].cs].target
          /\ changes'[build[w].cs].commit = changes[build[w].cs].commit
      BY <1>1, <1>2, <1>4, <2>1, <2>3, StatusSaved
    <2>5. /\ Proven(build[w].id, build[w].commit)
          /\ changes[build[w].cs].commit = build[w].commit
      BY <1>2, <2>1 DEF Round
    <2>6. Proven(build[w].id, build[w].commit)'
      BY <1>4, <2>1, <2>5 DEF Proven, Passed
    <2>7. Round(pc[w], build[w])'
      BY <1>6, <2>1, <2>4, <2>5, <2>6 DEF Round, Submitting
    <2>8. build'[w].target = targets'[build'[w].id]
      BY <1>2, <1>4, <2>1
    <2>9. QED BY <1>1, <1>3, <1>4, <1>5, <2>1, <2>2, <2>7, <2>8, LoopTurn
  <1>9. CASE Failure(w) /\ ~Quit(w)
    <2>1. /\ build' = [build EXCEPT ![w].attempt = @ + 1]
          /\ pc'[w] = "repair" /\ UNCHANGED <<row, changes>>
      BY <1>2, <1>9 DEF Failure, Goto
    <2>2. pc'[w] \in Building /\ pc'[w] # "open"
      BY <2>1 DEF Building, BuildLabels, Submitting
    <2>3. /\ build'[w].id = build[w].id /\ build'[w].cs = build[w].cs
          /\ build'[w].target = build[w].target
      <3>1. build'[w] = [build[w] EXCEPT !.attempt = build[w].attempt + 1]
        BY <1>2, <2>1
      <3>2. QED BY <1>2, <3>1 DEF Build
    <2>4. Round(pc[w], build[w])'
      BY <1>6, <2>1, <2>3 DEF Round, Submitting
    <2>5. build'[w].target = targets'[build'[w].id]
      BY <1>2, <1>4, <2>3
    <2>6. QED BY <1>1, <1>3, <1>4, <1>5, <2>1, <2>2, <2>4, <2>5, LoopTurn
  <1>10. QED BY <1>7, <1>8, <1>9 DEF Reject

\* A review that does not block saw the change set validated.
LEMMA ReviewTurn ==
  ASSUME ~Overlap, Turns, NEW w \in Workers, Review(w),
         UNCHANGED strategyVars
  PROVE  Turns'
  <1>1. /\ pc[w] = "review" /\ pc[w] \in BuildLabels /\ pc[w] \in Building
        /\ pc[w] # "open" /\ pc[w] \in Changing
    BY DEF Review, BuildLabels, Building, Submitting, Changing
  <1>2. /\ Solo(w) /\ Shape /\ pc \in [Workers -> Labels]
        /\ build \in [Workers -> Build] /\ build[w] \in Build
        /\ build[w].target = targets[build[w].id]
        /\ Round("review", build[w]) /\ FinalCommitReproduced
    BY <1>1, BuilderFits
  <1>3. Shape' /\ Frame(w)
    BY <1>2, ReviewShape
  <1>4. UNCHANGED <<mission, targets, row, changes, runs>>
    BY DEF Review, tables, buildTables
  <1>5. FinalCommitReproduced'
    BY <1>2, <1>4, FinalKept
  <1>6. PICK f :
           /\ build' = [build EXCEPT ![w].blocked = f]
           /\ \/ pc'[w] = "failure"
              \/ pc'[w] = "finalize"
                 /\ ~ReviewBlocks(build[w].id, changes[build[w].cs])
    BY <1>2 DEF Review, Goto
  <1>7. /\ build'[w].id = build[w].id /\ build'[w].cs = build[w].cs
        /\ build'[w].commit = build[w].commit
        /\ build'[w].target = build[w].target
    <2>1. build'[w] = [build[w] EXCEPT !.blocked = f]
      BY <1>2, <1>6
    <2>2. QED BY <1>2, <2>1 DEF Build
  <1>8. /\ changes[build[w].cs].target = build[w].id
        /\ changes[build[w].cs].commit = build[w].commit
        /\ Proven(build[w].id, build[w].commit)
    BY <1>2 DEF Round, Changing
  <1>9. Proven(build[w].id, build[w].commit)'
    BY <1>4, <1>7, <1>8 DEF Proven, Passed
  <1>10. pc'[w] = "finalize" => build'[w].cs \in Validated'
    <2>1. build[w].cs \in DOMAIN changes
      BY <1>1, <1>2, BuilderParts
    <2>2. QED BY <1>4, <1>6, <1>7, <2>1 DEF ReviewBlocks, Validated
  <1>11. Round(pc[w], build[w])'
    BY <1>4, <1>6, <1>7, <1>8, <1>9, <1>10 DEF Round, Submitting
  <1>12. pc'[w] \in Building /\ pc'[w] # "open"
    BY <1>6 DEF Building, BuildLabels, Submitting
  <1>13. build'[w].target = targets'[build'[w].id]
    BY <1>2, <1>4, <1>7
  <1>14. QED BY <1>1, <1>3, <1>4, <1>5, <1>11, <1>12, <1>13, LoopTurn

\* The final commit is one that is proven.
LEMMA FinalizeTurn ==
  ASSUME ~Overlap, Turns, NEW w \in Workers, Finalize(w),
         UNCHANGED strategyVars
  PROVE  Turns'
  <1>1. /\ pc[w] = "finalize" /\ pc[w] \in BuildLabels /\ pc[w] \in Building
        /\ pc[w] # "open" /\ pc[w] \in Aiming
    BY DEF Finalize, BuildLabels, Building, Submitting, Aiming
  <1>2. /\ Solo(w) /\ Shape /\ pc \in [Workers -> Labels]
        /\ build \in [Workers -> Build] /\ build[w] \in Build
        /\ targets \in Seq(TargetRow)
        /\ Round("finalize", build[w]) /\ FinalCommitReproduced
    BY <1>1, BuilderFits
  <1>3. Shape' /\ Frame(w)
    BY <1>2, TargetSavedShape
  <1>4. UNCHANGED <<mission, row, changes, runs>>
    BY DEF Finalize, buildTables
  <1>5. build[w].id \in DOMAIN targets
    BY <1>1, <1>2, BuilderParts
  <1> DEFINE n == build[w].commit
             t == [build[w].target EXCEPT !.final = n]
  <1>6. n \in Nat /\ build[w].target \in TargetRow
    BY <1>2 DEF Build
  <1>7. build' = [build EXCEPT ![w].target.final = n]
    BY DEF Finalize
  <1>8. build'[w] = [build[w] EXCEPT !.target = t]
    BY <1>2, <1>7
  <1>9. targets' = [targets EXCEPT ![build[w].id] = build'[w].target]
    BY DEF Finalize
  <1>10. /\ t \in TargetRow /\ t.final = build[w].commit
    <2> HIDE DEF n
    <2>1. t \in TargetRow /\ t.final = n
      BY <1>6 DEF TargetRow
    <2>2. QED BY <2>1 DEF n
  <1> HIDE DEF n, t
  <1>11. /\ build'[w].target = t /\ build'[w].id = build[w].id
         /\ build'[w].cs = build[w].cs /\ build'[w].commit = build[w].commit
    BY <1>2, <1>8 DEF Build
  <1>12. /\ DOMAIN targets' = DOMAIN targets /\ targets'[build[w].id] = t
         /\ \A i \in DOMAIN targets :
               i # build[w].id => targets'[i] = targets[i]
    BY <1>2, <1>5, <1>9, <1>10, <1>11, ReplacedIsTable
  <1>13. /\ changes[build[w].cs].target = build[w].id
         /\ changes[build[w].cs].commit = build[w].commit
         /\ build[w].cs \in Validated
         /\ Proven(build[w].id, build[w].commit)
    BY <1>2 DEF Round, Changing
  <1>14. FinalCommitReproduced'
    <2>1. PICK i, c \in Nat : i = build[w].id /\ c = build[w].commit
      BY <1>2 DEF Build
    <2>2. Proven(i, c)'
      BY <1>4, <1>13, <2>1 DEF Proven, Passed
    <2>3. targets'[i].final = c
      BY <1>10, <1>12, <2>1
    <2>4. \A j \in DOMAIN targets' :
             \/ j \in DOMAIN targets /\ targets'[j].final = targets[j].final
             \/ \E f \in Nat : targets'[j].final = f /\ Proven(j, f)'
      BY <1>12, <2>1, <2>2, <2>3
    <2>5. QED BY <1>2, <1>4, <2>4, FinalKept
  <1>15. pc'[w] = "recheck"
    BY <1>2 DEF Finalize, Goto
  <1>16. pc'[w] \in Building /\ pc'[w] # "open"
    BY <1>15 DEF Building, BuildLabels, Submitting
  <1>17. /\ build'[w].cs \in Validated'
         /\ changes'[build'[w].cs].target = build'[w].id
         /\ changes'[build'[w].cs].commit = build'[w].commit
         /\ targets'[build'[w].id].final = build'[w].commit
    BY <1>4, <1>10, <1>11, <1>12, <1>13 DEF Validated
  <1>18. Round(pc[w], build[w])'
    BY <1>15, <1>17 DEF Round, Submitting
  <1>19. build'[w].target = targets'[build'[w].id]
    BY <1>11, <1>12
  <1>20. QED BY <1>1, <1>3, <1>4, <1>14, <1>16, <1>18, <1>19, LoopTurn

\* build_project_for_mission reviews again and reads the mission again.
LEMMA RecheckTurn ==
  ASSUME ~Overlap, Turns, NEW w \in Workers, Recheck(w) \/ Refresh(w),
         UNCHANGED strategyVars
  PROVE  Turns'
  <1>1. /\ pc[w] \in {"recheck", "refresh"}
        /\ pc[w] \in BuildLabels /\ pc[w] \in Building /\ pc[w] # "open"
    BY DEF Recheck, Refresh, BuildLabels, Building, Submitting
  <1>2. /\ Solo(w) /\ Shape /\ pc \in [Workers -> Labels]
        /\ row \in [Workers -> MissionRow]
        /\ row[w].state = mission.state
        /\ build[w].target = targets[build[w].id]
        /\ mission.state = "BUILDING" /\ mission.state \notin Late
        /\ Round(pc[w], build[w]) /\ FinalCommitReproduced
    BY <1>1, BuilderFits
  <1>3. Shape' /\ Frame(w)
    BY <1>2, QuietShape
  <1>4. UNCHANGED <<mission, targets, changes, runs>>
    BY DEF Recheck, Refresh, tables, buildVars, buildTables
  <1>5. CASE Quit(w)
    BY <1>1, <1>3, <1>4, <1>5, LoopQuits
  <1>6. CASE ~Quit(w)
    <2>1. /\ UNCHANGED build /\ pc'[w] \in {"reject", "refresh", "finish"}
          /\ row' = row \/ row' = [row EXCEPT ![w] = mission]
      BY <1>2, <1>6 DEF Recheck, Refresh, buildVars, Goto
    <2>2. /\ pc'[w] \in BuildLabels /\ pc'[w] # "open"
          /\ pc'[w] \notin Submitting
      BY <2>1 DEF BuildLabels, Submitting
    <2>3. row'[w].state = mission'.state /\ mission'.state = "BUILDING"
      BY <1>2, <1>4, <2>1
    <2>4. FinalCommitReproduced' /\ ValidatingMeansValidated'
      BY <1>2, <1>4, FinalKept, ValidVacuous
    <2>5. /\ changes[build[w].cs].target = build[w].id
          /\ changes[build[w].cs].commit = build[w].commit
          /\ build[w].cs \in Validated
          /\ targets[build[w].id].final = build[w].commit
      BY <1>1, <1>2 DEF Round, Changing
    <2>6. build[w].cs \in Validated'
      BY <1>4, <2>5 DEF Validated
    <2>7. Round(pc[w], build[w])'
      BY <1>4, <2>1, <2>5, <2>6 DEF Round, Submitting
    <2>8. build'[w].target = targets'[build'[w].id]
      BY <1>2, <1>4, <2>1
    <2>9. QED BY <1>2, <1>3, <2>2, <2>3, <2>4, <2>7, <2>8, BuildTurn
  <1>7. QED BY <1>5, <1>6

\* The mission is VALIDATING with the change set of this build.
LEMMA FinishTurn ==
  ASSUME ~Overlap, Turns, NEW w \in Workers, Finish(w), UNCHANGED strategyVars
  PROVE  Turns'
  <1>1. pc[w] = "finish" /\ pc[w] \in BuildLabels
    BY DEF Finish, BuildLabels
  <1>2. Shape /\ Round("finish", build[w])
    BY <1>1, BuilderFits
  <1>3. Shape' /\ Frame(w)
    BY <1>2, TransitionShape
  <1>4. UNCHANGED <<targets, changes, runs>> /\ Quit(w)
    BY DEF Finish, buildTables
  <1>5. /\ changes[build[w].cs].target = build[w].id
        /\ changes[build[w].cs].commit = build[w].commit
        /\ build[w].cs \in Validated
        /\ targets[build[w].id].final = build[w].commit
    BY <1>2 DEF Round, Changing
  <1>6. PICK c \in Validated :
           targets[changes[c].target].final = changes[c].commit
    BY <1>5
  <1>7. c \in Validated'
    BY <1>4, <1>6 DEF Validated
  <1>8. ValidatingMeansValidated'
    BY <1>4, <1>6, <1>7 DEF ValidatingMeansValidated
  <1>9. QED BY <1>1, <1>3, <1>4, <1>8, QuitTurn

\* The submission begins with the active target and a change set of it that the
\* review leaves validated; what is not reproduced is remembered.
LEMMA PrepareSubmissionTurn ==
  ASSUME ~Overlap, Turns, NEW w \in Workers, PrepareSubmission(w),
         UNCHANGED strategyVars
  PROVE  Turns'
  <1>1. pc[w] = "idle" /\ MayStart(w) /\ mission.state = "VALIDATING"
    BY DEF PrepareSubmission, MayStart
  <1>2. Solo(w) /\ Shape
    BY <1>1, Acting
  <1>3. Shape' /\ Frame(w)
    BY <1>2, PrepareSubmissionShape
  <1>4. /\ pc \in [Workers -> Labels] /\ row \in [Workers -> MissionRow]
        /\ build \in [Workers -> Build] /\ build[w] \in Build
        /\ changes \in Seq(ChangeSet)
    BY <1>2, TypeParts DEF Shape, Shared
  <1>5. /\ row'[w] = mission /\ UNCHANGED <<mission, targets, changes, runs>>
    BY <1>4 DEF PrepareSubmission, tables, buildTables
  <1>6. FinalCommitReproduced' /\ ValidatingMeansValidated'
    BY <1>2, <1>5, FinalKept, ValidKept DEF Turns
  <1>7. row'[w].state = mission'.state /\ mission'.state \in Late
    BY <1>1, <1>5 DEF Late
  <1>8. CASE Goto(w, "refuse")
    <2>1. pc'[w] = "refuse"
      BY <1>4, <1>8 DEF Goto
    <2>2. /\ pc'[w] \in BuildLabels /\ pc'[w] \notin Building
      BY <2>1 DEF BuildLabels, Building, Submitting
    <2>3. Round(pc[w], build[w])'
      BY <2>1 DEF Round, Changing, Submitting
    <2>4. QED BY <1>2, <1>3, <1>6, <1>7, <2>2, <2>3, BuildTurn
  <1>9. CASE ~Goto(w, "refuse")
    <2>1. PICK a, c, f :
             /\ a = ActiveTarget /\ c = LastValidated
             /\ f = \E p \in DeclaredPhases :
                       ~Reproduced(changes[LastValidated], p)
      OBVIOUS
    <2>2. /\ Validated # {} /\ Goto(w, "optimize")
          /\ ~ReviewBlocks(a, changes[c])
          /\ build' = [build EXCEPT ![w].id = a, ![w].cs = c, ![w].failed = f]
      BY <1>9, <2>1 DEF PrepareSubmission
    <2>3. c \in Validated /\ changes[c].target = a
      BY <1>4, <2>1, <2>2, LastValidatedFacts DEF ReviewBlocks
    <2>4. ~f => Proven(changes[c].target, changes[c].commit)
      BY <2>1, FinalMeansProven
    <2>5. f \in BOOLEAN /\ a = ActiveTarget'
      BY <1>5, <2>1 DEF ActiveTarget
    <2>6. build'[w] = [build[w] EXCEPT !.id = a, !.cs = c, !.failed = f]
      BY <1>4, <2>2
    <2>7. build'[w].id = a /\ build'[w].cs = c /\ build'[w].failed = f
      BY <1>4, <2>5, <2>6 DEF Build
    <2>8. c \in Validated'
      BY <1>5, <2>3 DEF Validated
    <2>9. ~f => Proven(changes[c].target, changes[c].commit)'
      BY <1>5, <2>4 DEF Proven, Passed
    <2>10. pc'[w] = "optimize"
      BY <1>4, <2>2 DEF Goto
    <2>11. pc'[w] \in BuildLabels /\ pc'[w] \notin Building
      BY <2>10 DEF BuildLabels, Building, Submitting
    <2>12. Round(pc[w], build[w])'
      BY <1>5, <2>3, <2>5, <2>7, <2>8, <2>9, <2>10 DEF Round, Changing
    <2>13. QED BY <1>2, <1>3, <1>6, <1>7, <2>11, <2>12, BuildTurn
  <1>10. QED BY <1>8, <1>9

\* The transitions of a submission.
LEMMA SubmitTurn ==
  ASSUME ~Overlap, Turns, NEW w \in Workers,
         Refuse(w) \/ Optimize(w) \/ Prepare(w) \/ Pack(w) \/ Gate(w),
         UNCHANGED strategyVars
  PROVE  Turns'
  <1>1. /\ pc[w] \in {"refuse", "optimize", "prepare", "pack", "gate"}
        /\ pc[w] \in BuildLabels
        /\ pc[w] # "refuse" => pc[w] \in Submitting
    BY DEF Refuse, Optimize, Prepare, Step, Pack, Gate, BuildLabels,
           Submitting
  <1>2. /\ Solo(w) /\ Shape /\ pc \in [Workers -> Labels]
        /\ row \in [Workers -> MissionRow] /\ row[w] \in MissionRow
        /\ row[w].state = mission.state
        /\ pc[w] \in Submitting => mission.state \in Late
        /\ Round(pc[w], build[w])
        /\ FinalCommitReproduced /\ ValidatingMeansValidated
    BY <1>1, BuilderFits
  <1>3. Shape' /\ Frame(w)
    BY <1>2, TransitionShape, QuietShape
  <1>4. UNCHANGED <<targets, changes, runs>>
    BY DEF Refuse, Optimize, Prepare, Step, Pack, Gate, tables, buildTables
  <1>5. FinalCommitReproduced'
    BY <1>2, <1>4, FinalKept
  <1>6. mission'.state = mission.state \/ mission.state \in Late
            \/ mission'.state \notin Late
    <2>1. CASE pc[w] = "refuse"
      <3>1. mission' = Moved(w, "BLOCKED")
        BY <2>1 DEF Refuse, Optimize, Prepare, Step, Pack, Gate
      <3>2. mission'.state = "BLOCKED"
        BY <1>2, <3>1, MovedTyped, StateFacts
      <3>3. QED BY <3>2 DEF Late
    <2>2. QED BY <1>1, <1>2, <2>1
  <1>7. ValidatingMeansValidated'
    BY <1>2, <1>4, <1>6, ValidKept
  <1>8. CASE Quit(w)
    BY <1>1, <1>3, <1>4, <1>7, <1>8, QuitTurn
  <1>9. CASE ~Quit(w)
    <2>1. /\ UNCHANGED build /\ pc'[w] \in {"prepare", "pack", "gate"}
          /\ pc[w] \in Submitting
          /\ \/ UNCHANGED <<mission, row>>
             \/ /\ row' = [row EXCEPT ![w] = mission']
                /\ \E s \in {"OPTIMIZING", "SUBMISSION_PREP"} :
                      mission' = Moved(w, s)
      BY <1>2, <1>9
         DEF Refuse, Optimize, Prepare, Step, Pack, Gate, Goto, Submitting,
             tables
    <2>2. /\ pc'[w] \in BuildLabels /\ pc'[w] \in Submitting
          /\ pc'[w] \notin Building
      BY <2>1 DEF BuildLabels, Submitting, Building
    <2>3. row'[w].state = mission'.state /\ mission'.state \in Late
      <3>1. \A s \in {"OPTIMIZING", "SUBMISSION_PREP"} :
               Moved(w, s).state = s
        BY <1>2, MovedTyped, StateFacts
      <3>2. QED BY <1>2, <2>1, <3>1 DEF Late
    <2>4. /\ build[w].cs \in Validated /\ build[w].id = ActiveTarget
          /\ changes[build[w].cs].target = build[w].id
          /\ ~build[w].failed =>
                Proven(changes[build[w].cs].target, changes[build[w].cs].commit)
      BY <1>2, <2>1 DEF Round
    <2>5. /\ build'[w].cs \in Validated' /\ build'[w].id = ActiveTarget'
          /\ changes'[build'[w].cs].target = build'[w].id
      BY <1>4, <2>1, <2>4 DEF Validated, ActiveTarget
    <2>6. ~build'[w].failed =>
             Proven(changes[build[w].cs].target, changes[build[w].cs].commit)'
      BY <1>4, <2>1, <2>4 DEF Proven, Passed
    <2>7. Round(pc[w], build[w])'
      BY <2>1, <2>5, <2>6 DEF Round, Changing
    <2>8. QED BY <1>2, <1>3, <1>5, <1>7, <2>2, <2>3, <2>7, BuildTurn
  <1>10. QED BY <1>8, <1>9

\* A worker dies; the tables stay.
LEMMA CrashTurn ==
  ASSUME ~Overlap, Turns, NEW w \in Workers, Crash(w)
  PROVE  Turns'
  <1>1. pc[w] # "idle"
    BY DEF Crash
  <1>2. Solo(w) /\ Shape
    BY <1>1, Acting
  <1>3. Shape' /\ Frame(w) /\ pc'[w] = "idle"
    BY <1>2, CrashShape
  <1>4. UNCHANGED <<mission, targets, changes, runs>>
    BY DEF Crash, buildTables
  <1>5. FinalCommitReproduced' /\ ValidatingMeansValidated'
    BY <1>2, <1>4, FinalKept, ValidKept DEF Turns
  <1>6. QED BY <1>2, <1>3, <1>5, DoneKeepsTurns

\* Every step keeps the turns.
LEMMA NextKeepsTurns ==
  ASSUME ~Overlap, Turns, Next
  PROVE  Turns'
  <1>1. CASE StrategyNext /\ UNCHANGED buildVars
    BY <1>1, ModelTurn, JoustTurn, JoustBegins, AdvanceTurn, AnswerTurn,
       ActivateTurn, CommandTurn, AttachTurn, LinkTurn, CompareTurn,
       SupersedeTurn
       DEF StrategyNext
  <1>2. CASE BuildNext /\ UNCHANGED strategyVars
    BY <1>2, BuildProjectTurn, OpenTurn, WorkspaceTurn, AdoptTurn, CommitTurn,
       RecordTurn, RunTurn, RoundOverTurn, VerdictTurn, ReviewTurn,
       FinalizeTurn, RecheckTurn, FinishTurn, PrepareSubmissionTurn,
       SubmitTurn
       DEF BuildNext
  <1>3. CASE \E w \in Workers : Crash(w)
    BY <1>3, CrashTurn
  <1>4. QED BY <1>1, <1>2, <1>3 DEF Next

\* A step that changes nothing.
LEMMA StutterKeepsTurns ==
  ASSUME Turns, UNCHANGED vars
  PROVE  Turns'
  <1>1. Shape'
    BY StutterKeepsShape DEF Turns
  <1>2. Alone'
    BY DEF Turns, Alone, vars
  <1>3. ASSUME NEW w \in Workers PROVE Fits(w)'
    <2>1. Fits(w)
      BY DEF Turns
    <2>2. UNCHANGED <<mission, targets, pc, row, work, head, changes, runs,
                      build>>
      BY DEF vars, strategyVars, strategyTables, buildVars, checkout,
             buildTables
    <2>3. QED BY <2>1, <2>2
              DEF Fits, Copies, Round, Proven, Passed, Validated, ActiveTarget
  <1>4. FinalCommitReproduced' /\ ValidatingMeansValidated'
    BY FinalKept, ValidKept
       DEF Turns, vars, buildVars, buildTables
  <1>5. QED BY <1>1, <1>2, <1>3, <1>4 DEF Turns

\* The initial states.
LEMMA InitTurns == Init => Turns
  <1> SUFFICES ASSUME Init PROVE Turns
    OBVIOUS
  <1>1. Shape
    BY InitShape
  <1>2. \A w \in Workers : pc[w] = "idle" /\ work[w] = NoWork
    BY DEF Init, StrategyInit
  <1>3. Alone
    BY <1>2 DEF Alone
  <1>4. ASSUME NEW w \in Workers PROVE Fits(w)
    <2>1. pc[w] = "idle" /\ work[w].previous = 0
      BY <1>2, NothingTyped
    <2>2. /\ "idle" \notin Building /\ "idle" \notin Submitting
          /\ "idle" \notin Changing
      BY LabelFacts DEF Building, Submitting, Changing
    <2>3. QED BY <2>1, <2>2 DEF Fits, Copies, Round
  <1>5. FinalCommitReproduced
    BY DEF Init, FinalCommitReproduced
  <1>6. ValidatingMeansValidated
    <2>1. NoMission.state = "NONE"
      BY DEF NoMission
    <2>2. SliceMission.state = "PLANNING"
      BY DEF SliceMission, NoMission
    <2>3. mission = NoMission \/ mission = SliceMission
      BY DEF Init
    <2>4. mission.state \in {"NONE", "PLANNING"}
      BY <2>1, <2>2, <2>3
    <2>5. QED BY <2>4 DEF ValidatingMeansValidated
  <1>7. QED BY <1>1, <1>3, <1>4, <1>5, <1>6 DEF Turns

\* One command at a time, every state keeps its turns.
LEMMA TurnsHold ==
  ASSUME ~Overlap
  PROVE  Spec => []Turns
  <1>1. Init => Turns
    BY InitTurns
  <1>2. Turns /\ [Next]_vars => Turns'
    BY NextKeepsTurns, StutterKeepsTurns
  <1>3. QED BY <1>1, <1>2, PTL DEF Spec

\* One command at a time, a target's final_commit_sha names a commit at which
\* every declared phase has passed in the checkout and again in a clean clone
\* (RealBuildLoop.run), whatever failed, was repaired or died on the way.
THEOREM FinalCommitIsReproduced ==
  ASSUME ~Overlap
  PROVE  Spec => []FinalCommitReproduced
  <1>1. Turns => FinalCommitReproduced
    BY DEF Turns
  <1>2. QED BY <1>1, TurnsHold, PTL

\* One command at a time, a mission that is VALIDATING or beyond has a change
\* set that both reviews left validated and that its target names as final
\* (build_project_for_mission).
THEOREM ValidatingIsBacked ==
  ASSUME ~Overlap
  PROVE  Spec => []ValidatingMeansValidated
  <1>1. Turns => ValidatingMeansValidated
    BY DEF Turns
  <1>2. QED BY <1>1, TurnsHold, PTL

\* A strategy handler saves the mission in the state it is in, or in one up to
\* the build, and no step of the build loop declares the mission ready.
LEMMA OnlyGateDeclares ==
  ASSUME ~Overlap, Turns, Next, mission.state # "READY_FOR_SUBMISSION",
         mission'.state = "READY_FOR_SUBMISSION"
  PROVE  \E w \in Workers : Gate(w) /\ UNCHANGED strategyVars
  <1>1. CASE StrategyNext /\ UNCHANGED buildVars
    <2>1. PICK w \in Workers :
             \/ Block(w) \/ SaveRules(w) \/ Joust(w) \/ Advance(w)
             \/ Decide(w) \/ Reactivate(w) \/ Link(w)
      <3>1. mission' # mission
        OBVIOUS
      <3>2. QED BY <1>1, <3>1
                DEF StrategyNext, RetryModel, Refused, ModelRaises, Discover,
                    SaveSpec, Deadline, Generate, Store, Select, Choose, Plan,
                    AttachProject, Attach, Redirect, Reassess, Compare,
                    Supersede, tables
    <2>2. ~Joust(w)
      <3>1. Joust(w) => mission' = [NoMission EXCEPT !.state = "CREATED"]
        BY DEF Joust
      <3>2. [NoMission EXCEPT !.state = "CREATED"].state = "CREATED"
        BY DEF NoMission
      <3>3. QED BY <3>1, <3>2
    <2>3. pc[w] # "idle" /\ pc[w] \in StrategyLabels
      BY <2>1, <2>2, PhaseFacts, LabelFacts, StrategyLabelList
         DEF Block, SaveRules, Advance, Decide, Reactivate, Activate, Link
    <2>4. /\ Shape /\ row \in [Workers -> MissionRow] /\ row[w] \in MissionRow
          /\ work[w] \in Work
          /\ work[w].op # "attach" => row[w].state = mission.state
          /\ pc[w] = "link" => work[w].fresh.state = mission.state
      BY <2>3, PlannerFits
    <2>5. pc[w] \notin {"attach", "link"} => work[w].op # "attach"
      BY <2>3, <2>4, WorkerParts DEF Plans
    <2>6. CASE Block(w) \/ SaveRules(w)
      <3>1. mission' = row[w] /\ pc[w] \notin {"attach", "link"}
        BY <2>6 DEF Block, SaveRules
      <3>2. QED BY <2>4, <2>5, <3>1
    <2>7. CASE Advance(w)
      <3>1. /\ pc[w] \in DOMAIN Phase
            /\ mission' \in {mission, Moved(w, Phase[pc[w]][1])}
        BY <2>7 DEF Advance
      <3>2. PICK s \in {"INTAKE", "DISCOVERY", "RULES_LOCK",
                "LANDSCAPE_ANALYSIS", "IDEATION", "STRATEGY_SELECTION",
                "PLANNING", "BUILDING", "BLOCKED"} : s = Phase[pc[w]][1]
        BY <3>1, PhaseFacts
      <3>3. Moved(w, s).state = s
        BY <2>4, <3>2, StateFacts, MovedTyped
      <3>4. QED BY <3>1, <3>2, <3>3
    <2>8. CASE Decide(w) \/ Reactivate(w)
      <3>1. /\ mission' = [row[w] EXCEPT !.active = work[w].sel]
            /\ pc[w] \notin {"attach", "link"}
        BY <2>4, <2>8 DEF Decide, Reactivate, Activate
      <3>2. mission'.state = row[w].state
        BY <2>4, <3>1 DEF MissionRow
      <3>3. QED BY <2>4, <2>5, <3>1, <3>2
    <2>9. CASE Link(w)
      BY <2>4, <2>9 DEF Link
    <2>10. QED BY <2>1, <2>2, <2>6, <2>7, <2>8, <2>9
  <1>2. CASE BuildNext /\ UNCHANGED strategyVars
    <2>1. PICK w \in Workers :
             \/ OpenBuilding(w) \/ Finish(w) \/ Refuse(w) \/ Optimize(w)
             \/ Prepare(w) \/ Gate(w)
      <3>1. mission' # mission
        OBVIOUS
      <3>2. ASSUME NEW w \in Workers,
                   BuildProject(w) \/ Workspace(w) \/ AdoptTarget(w)
                     \/ Implement(w) \/ Repair(w) \/ Commit(w) \/ Recommit(w)
            PROVE  FALSE
        BY <3>1, <3>2 DEF BuildProject, Workspace, AdoptTarget, Implement,
           Repair, RunImplementer, Commit, Recommit, CommitChange, tables
      <3>3. ASSUME NEW w \in Workers,
                   Record(w) \/ Rerecord(w) \/ RunCommand(w)
                     \/ EndOfCommands(w) \/ Validate(w) \/ Review(w)
            PROVE  FALSE
        BY <3>1, <3>3 DEF Record, Rerecord, RunCommand, EndOfCommands,
           Validate, Review, tables
      <3>4. ASSUME NEW w \in Workers,
                   Finalize(w) \/ Failure(w) \/ Recheck(w) \/ Reject(w)
                     \/ Refresh(w) \/ PrepareSubmission(w) \/ Pack(w)
            PROVE  FALSE
        BY <3>1, <3>4 DEF Finalize, Failure, Recheck, Reject, Refresh,
           PrepareSubmission, Pack, tables
      <3>5. QED BY <1>2, <3>2, <3>3, <3>4 DEF BuildNext
    <2>2. CASE ~Gate(w)
      <3>1. PICK s \in {"BUILDING", "VALIDATING", "BLOCKED", "OPTIMIZING",
                        "SUBMISSION_PREP"} : mission' = Moved(w, s)
        BY <2>1, <2>2 DEF OpenBuilding, Finish, Refuse, Optimize, Prepare, Step
      <3>2. row[w] \in MissionRow
        BY TypeParts DEF Turns, Shape
      <3>3. mission'.state = s
        BY <3>1, <3>2, StateFacts, MovedTyped
      <3>4. QED BY <3>3
    <2>3. QED BY <1>2, <2>2
  <1>3. CASE \E w \in Workers : Crash(w)
    BY <1>3 DEF Crash
  <1>4. QED BY <1>1, <1>2, <1>3 DEF Next

\* One command at a time, prepare_project_submission declares a mission ready
\* only for the target that is active then, with a validated commit of it at
\* which every declared phase is reproduced.
THEOREM ReadyIsReproduced ==
  ASSUME ~Overlap
  PROVE  Spec => SubmissionReproduced
  <1>1. ASSUME Turns, Next, mission.state # "READY_FOR_SUBMISSION",
               mission'.state = "READY_FOR_SUBMISSION"
        PROVE  \E c \in Validated :
                  /\ changes[c].target = ActiveTarget
                  /\ \A p \in DeclaredPhases : Reproduced(changes[c], p)
    <2>1. PICK w \in Workers : Gate(w) /\ UNCHANGED strategyVars
      BY <1>1, OnlyGateDeclares
    <2>2. /\ pc[w] = "gate" /\ pc[w] \in BuildLabels /\ pc[w] \in Submitting
      BY <2>1 DEF Gate, BuildLabels, Submitting
    <2>3. Round("gate", build[w]) /\ row[w] \in MissionRow
      BY <1>1, <2>2, BuilderFits
    <2>4. ~build[w].failed
      <3>1. Moved(w, "BLOCKED").state = "BLOCKED"
        BY <2>3, MovedTyped, StateFacts
      <3>2. QED BY <1>1, <2>1, <3>1 DEF Gate
    <2>5. /\ build[w].cs \in Validated
          /\ changes[build[w].cs].target = ActiveTarget
          /\ Proven(changes[build[w].cs].target, changes[build[w].cs].commit)
      BY <2>2, <2>3, <2>4 DEF Round
    <2>6. QED BY <2>5, FinalMeansProven
  <1>2. Turns /\ [Next]_vars =>
          [mission.state # "READY_FOR_SUBMISSION"
           /\ mission'.state = "READY_FOR_SUBMISSION" =>
              \E c \in Validated :
                  /\ changes[c].target = ActiveTarget
                  /\ \A p \in DeclaredPhases : Reproduced(changes[c], p)]_vars
    BY <1>1
  <1>3. QED BY <1>2, TurnsHold, PTL DEF Spec, SubmissionReproduced
=============================================================================
