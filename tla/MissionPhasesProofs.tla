------------------------- MODULE MissionPhasesProofs ------------------------
(***************************************************************************)
(* What MissionPhases promises, for any rules, any number of versions and  *)
(* any number of commands that die.                                        *)
(*                                                                         *)
(* The invariant has two halves.  Base holds whatever dies: what the       *)
(* script before the present step has saved (Progress), which version of   *)
(* the rules each command works with (Versions), and how far a refresh has *)
(* come with what it found (Marks).  Clean holds as long as no command has *)
(* died: outside a refresh a mission that is not blocked has nothing stale *)
(* and only work from the stored rules (Fresh), the last snapshot is the   *)
(* one of the stored rules (Snapshots), and staleness has run down the     *)
(* links or hold.found has what it still has to reach (Marked).            *)
(*                                                                         *)
(* Two facts carry it: the steps of the two scripts, read off one by one,  *)
(* and DescendantsFacts, which shows that the recursive query finds the    *)
(* least set below a snapshot that is closed under the links.              *)
(***************************************************************************)
EXTENDS MissionPhases, FiniteSetTheorems, SequenceTheorems, NaturalsInduction,
        WellFoundedInduction, TLAPS

(***************************************************************************)
(* Inductive invariant                                                     *)
(***************************************************************************)
\* Where the tables stand between two writes of a refresh.
Marking == pc[1] \in {"mark", "save_rules", "link_rules", "review", "block"}
Quiet == pc[1] \notin {"snapshot", "mark", "save_rules", "link_rules",
                       "review", "block"}

\* What the steps of a script before the i-th have left behind.
Behind(p, i) ==
    \A j \in 1..(i - 1) :
        /\ Script[p][j].do = "save" => Saved(Script[p][j].kind) # {}
        /\ Script[p][j].do = "spec" => specs # <<>>
        /\ Script[p][j].do = "decision" => decided

\* What complete_v0 found when it started.
Planned ==
    /\ specs # <<>> /\ decided
    /\ \A kind \in RequiredPlanning \cup
              {"rules_snapshot", "opportunity_map", "candidate_ideas",
               "deep_candidate_analysis"} : Saved(kind) # {}

Progress ==
    /\ state \notin {"POSTMORTEM"}
    /\ Running => state # "BLOCKED" /\ Behind(pc[1], pc[2])
    /\ pc[1] = "complete" => Planned

\* The version of the rules that the command works with.
Versions ==
    /\ state = "NONE" => specs = <<>> /\ artifacts = {} /\ pc = Idle
    /\ pc[1] = "slice" => /\ hold.version = 1
                          /\ Len(specs) = IF pc[2] <= 5 THEN 0 ELSE 1
    /\ pc[1] \notin {"idle", "slice"} =>
          hold.version = Len(specs) /\ specs # <<>>
    /\ pc[1] = "save_spec" => hold.version < MaxVersion
                              /\ hold.rules \in Rules
    /\ \A a \in artifacts : a[2] <= Len(specs)
    /\ \A l \in links :
          l[2][1] = "rules_snapshot" => l[1][1] = "rules_snapshot"

\* The refresh on its way through what it has found.
Marks ==
    /\ hold.found \subseteq artifacts /\ hold.marks \subseteq hold.found
    /\ ~Marking => hold.found = {}
    /\ Marking => <<"rules_snapshot", hold.old>> \in artifacts
    /\ pc[1] \in {"link_rules", "review", "block"} =>
          <<"rules_snapshot", Len(specs)>> \in artifacts
    /\ pc[1] \in {"mark", "review"} => hold.marks # {}
    /\ pc[1] = "mark" => hold.found \subseteq stale \cup hold.marks
    /\ pc[1] \in {"save_rules", "link_rules", "review", "block"} =>
          hold.found \subseteq stale
    /\ pc[1] = "review" =>
          {a \in hold.found : a[1] \in Reviewed}
              \subseteq reviews \cup hold.marks
    /\ pc[1] = "block" =>
          {a \in hold.found : a[1] \in Reviewed} \subseteq reviews

\* If no command died: what is not blocked was made from the stored rules.
Fresh ==
    crashes = 0 /\ state # "BLOCKED" =>
        /\ ~Marking => stale = {}
        /\ Quiet => \A a \in artifacts : a[2] = Len(specs)

\* If no command died: the snapshots.
Snapshots ==
    crashes = 0 =>
        /\ \A a \in stale \cup hold.found : a[1] # "rules_snapshot"
        /\ Quiet /\ specs # <<>> /\ pc # <<"slice", 6>> =>
              <<"rules_snapshot", Len(specs)>> \in artifacts
        /\ pc[1] = "snapshot" =>
              /\ <<"rules_snapshot", Len(specs) - 1>> \in artifacts
              /\ \A a \in artifacts : a[2] <= Len(specs) - 1
        /\ Marking => hold.old = Len(specs) - 1
        /\ \A l \in links : l[2][1] = "rules_snapshot" => l[1][2] < l[2][2]

\* If no command died: staleness has run down the graph, or is about to.
Marked ==
    crashes = 0 =>
        \A l \in links : l[2][1] # "rules_snapshot" =>
            /\ l[1] \in stale \cup hold.found =>
                  l[2] \in stale \cup hold.found
            /\ l[1][1] = "rules_snapshot"
               /\ l[1][2] < (IF pc[1] = "snapshot" THEN Len(specs) - 1
                             ELSE Len(specs))
                  => l[2] \in stale \cup hold.found
            /\ l[2] \in stale \cup hold.found /\ l[2][1] \in Reviewed
                  => l[2] \in reviews \cup hold.found

Base == TypeOK /\ Progress /\ Versions /\ Marks /\ StateBacked
IInv == Base /\ Fresh /\ Snapshots /\ Marked

(***************************************************************************)
(* The recursive query                                                     *)
(***************************************************************************)
\* A set of naturals that is not empty has a least element.
LEMMA LeastNumber ==
  ASSUME NEW S \in SUBSET Nat, S # {}
  PROVE  \E m \in S : \A k \in S : m <= k
  <1> DEFINE Less == OpToRel(<, Nat)
  <1>0. Less = {ss \in Nat \X Nat : ss[1] < ss[2]}
    BY DEF OpToRel
  <1>1. IsWellFoundedOn(Less, Nat)
    BY NatLessThanWellFounded
  <1>2. \A x, y \in Nat : <<y, x>> \in Less <=> y < x
    BY <1>0
  <1> HIDE DEF Less
  <1>3. PICK x \in S : \A y \in S : ~ (<<y, x>> \in Less)
    BY <1>1, WFMin
  <1>4. ASSUME NEW k \in S PROVE x <= k
    <2>1. x \in Nat /\ k \in Nat /\ ~ (<<k, x>> \in Less)
      BY <1>3
    <2>2. ~ (k < x)
      BY <1>2, <2>1
    <2>3. QED BY <2>1, <2>2
  <1>5. QED BY <1>4

\* The largest of some versions is one of them.
LEMMA LargestVersion ==
  ASSUME NEW S \in SUBSET (1..MaxVersion), S # {}
  PROVE  Max(S) \in S /\ \A v \in S : v <= Max(S)
  <1> DEFINE rest == {MaxVersion - v : v \in S}
  <1>1. MaxVersion \in Nat
    BY PhasesAssumption
  <1>2. rest \in SUBSET Nat /\ rest # {}
    <2>1. \A v \in 1..MaxVersion : MaxVersion - v \in Nat
      BY <1>1
    <2>2. QED BY <2>1
  <1>3. PICK r \in rest : \A q \in rest : r <= q
    BY <1>2, LeastNumber
  <1>4. PICK m \in S : r = MaxVersion - m
    BY <1>3
  <1>5. ASSUME NEW v \in S PROVE m >= v
    <2>1. MaxVersion - m <= MaxVersion - v
      BY <1>3, <1>4
    <2>2. m \in 1..MaxVersion /\ v \in 1..MaxVersion
      OBVIOUS
    <2>3. QED BY <1>1, <2>1, <2>2
  <1>6. Max(S) \in S /\ \A v \in S : Max(S) >= v
    BY <1>5 DEF Max
  <1>7. \A v \in S : v \in Nat
    <2>1. \A v \in 1..MaxVersion : v \in Nat
      OBVIOUS
    <2>2. QED BY <2>1
  <1>8. QED BY <1>6, <1>7

\* One round of the query.
Round(n, g, a) == IF n = 0 THEN Children({a})
                  ELSE g[n - 1] \cup Children(g[n - 1])

\* The rounds are defined up to any number: by minimal counterexample.
LEMMA RoundsExist ==
  ASSUME NEW a, NEW C \in Nat
  PROVE  \E g : g = [n \in 0..C |-> Round(n, g, a)]
  <1> DEFINE bad == {m \in Nat : ~ \E g : g = [n \in 0..m |-> Round(n, g, a)]}
  <1>1. SUFFICES ASSUME bad # {} PROVE FALSE
    OBVIOUS
  <1>2. PICK m \in bad : \A k \in bad : m <= k
    <2>1. bad \in SUBSET Nat
      OBVIOUS
    <2>2. QED BY <1>1, <2>1, LeastNumber
  <1>3. m # 0
    <2>1. SUFFICES ASSUME m = 0 PROVE FALSE
      OBVIOUS
    <2> DEFINE g == [n \in 0..0 |-> Children({a})]
    <2>2. g = [n \in 0..m |-> Round(n, g, a)]
      BY <2>1 DEF Round
    <2>3. QED BY <2>2
  <1>4. m - 1 \in Nat /\ m - 1 \notin bad
    BY <1>2, <1>3
  <1>5. PICK h : h = [n \in 0..(m - 1) |-> Round(n, h, a)]
    BY <1>4
  <1> DEFINE g == [n \in 0..m |->
                      IF n < m THEN h[n]
                      ELSE h[m - 1] \cup Children(h[m - 1])]
  <1>6. ASSUME NEW n \in 0..m PROVE g[n] = Round(n, g, a)
    <2>1. CASE n = 0
      <3>1. g[n] = h[n] /\ n \in 0..(m - 1)
        BY <1>3, <1>4, <2>1
      <3>2. h[n] = Round(n, h, a)
        BY <3>1, <1>5
      <3>3. QED BY <3>1, <3>2, <2>1 DEF Round
    <2>2. CASE n # 0 /\ n < m
      <3>1. n - 1 \in 0..m /\ n - 1 < m /\ n \in 0..(m - 1)
        BY <2>2
      <3>2. g[n] = h[n] /\ g[n - 1] = h[n - 1]
        BY <3>1, <2>2
      <3>3. h[n] = Round(n, h, a)
        BY <3>1, <1>5
      <3>4. QED BY <3>2, <3>3, <2>2 DEF Round
    <2>3. CASE n = m
      <3>1. m - 1 \in 0..m /\ m - 1 < m
        BY <1>4
      <3>2. g[m - 1] = h[m - 1] /\ g[n] = h[m - 1] \cup Children(h[m - 1])
        BY <3>1, <2>3
      <3>3. QED BY <3>2, <1>3, <2>3 DEF Round
    <2>4. QED BY <2>1, <2>2, <2>3
  <1>7. g = [n \in 0..m |-> Round(n, g, a)]
    BY <1>6
  <1>8. QED BY <1>7

\* artifact_descendants finds the children of an artifact and theirs, and
\* nothing that a set closed under children would not have.
LEMMA DescendantsFacts ==
  ASSUME IsFiniteSet(links), NEW a, NEW found, found = Descendants(a)
  PROVE  /\ Children({a}) \subseteq found
         /\ Children(found) \subseteq found
         /\ \A X : Children({a}) \subseteq X /\ Children(X) \subseteq X
                       => found \subseteq X
  <1> DEFINE C == Cardinality(links)
  <1> DEFINE w == CHOOSE g : g = [n \in 0..C |-> Round(n, g, a)]
  <1> DEFINE U == {l[2] : l \in links}
  <1>1. C \in Nat
    BY FS_CardinalityType
  <1>2. w = [n \in 0..C |-> Round(n, w, a)]
    BY <1>1, RoundsExist
  <1>3. found = w[C]
    BY DEF Descendants, Round
  <1>4. PICK g : g = [n \in 0..C |-> Round(n, g, a)] /\ found = g[C]
    BY <1>2, <1>3
  <1> HIDE DEF w
  <1>5. /\ g[0] = Children({a})
        /\ \A n \in 0..C : n # 0 =>
              n - 1 \in 0..C /\ g[n] = g[n - 1] \cup Children(g[n - 1])
    <2>1. \A n \in 0..C : g[n] = Round(n, g, a)
      BY <1>4
    <2>2. 0 \in 0..C /\ \A n \in 0..C : n # 0 => n - 1 \in 0..C
      BY <1>1
    <2>3. QED BY <2>1, <2>2 DEF Round
  <1>6. IsFiniteSet(U) /\ Cardinality(U) <= C
    <2> DEFINE f == [l \in links |-> l[2]]
    <2>1. f \in Surjection(links, U)
      BY DEF Surjection
    <2>2. QED BY <2>1, FS_Surjection
  <1>7. \A S : Children(S) \subseteq U
    BY DEF Children
  <1> DEFINE Good(n) ==
        /\ Children({a}) \subseteq g[n] /\ g[n] \subseteq U
        /\ Children(g[n]) \subseteq g[n] \/ Cardinality(g[n]) >= n + 1
  <1> DEFINE bad == {n \in 0..C : ~Good(n)}
  <1>8. bad = {}
    <2>1. SUFFICES ASSUME bad # {} PROVE FALSE
      OBVIOUS
    <2>2. PICK n \in bad : \A k \in bad : n <= k
      <3>1. bad \in SUBSET Nat
        OBVIOUS
      <3>2. QED BY <2>1, <3>1, LeastNumber
    <2>3. n \in 0..C /\ ~Good(n)
      BY <2>2
    <2>4. CASE n = 0
      <3>1. g[n] \subseteq U /\ Children({a}) \subseteq g[n]
        BY <2>4, <1>5, <1>7
      <3>2. IsFiniteSet(g[n]) /\ Cardinality(g[n]) \in Nat
        BY <3>1, <1>6, FS_Subset, FS_CardinalityType
      <3>3. CASE g[n] = {}
        <4>1. Children(g[n]) \subseteq g[n]
          BY <3>3 DEF Children
        <4>2. QED BY <4>1, <3>1, <2>3
      <3>4. CASE g[n] # {}
        <4>1. Cardinality(g[n]) # 0
          BY <3>2, <3>4, FS_EmptySet
        <4>2. Cardinality(g[n]) >= n + 1
          BY <4>1, <3>2, <2>4
        <4>3. QED BY <4>2, <3>1, <2>3
      <3>5. QED BY <3>3, <3>4
    <2>5. CASE n # 0
      <3>1. n - 1 \in 0..C /\ g[n] = g[n - 1] \cup Children(g[n - 1])
        BY <2>3, <2>5, <1>5
      <3>2. n - 1 \notin bad
        BY <2>2, <2>3
      <3>3. Good(n - 1)
        BY <3>1, <3>2
      <3>4. Children({a}) \subseteq g[n] /\ g[n] \subseteq U
        BY <3>1, <3>3, <1>7
      <3>5. CASE Children(g[n - 1]) \subseteq g[n - 1]
        <4>1. g[n] = g[n - 1]
          BY <3>1, <3>5
        <4>2. Children(g[n]) \subseteq g[n]
          BY <4>1, <3>5
        <4>3. QED BY <4>2, <3>4, <2>3
      <3>6. CASE ~ (Children(g[n - 1]) \subseteq g[n - 1])
        <4>1. Cardinality(g[n - 1]) >= n
          BY <3>3, <3>6, <2>3
        <4>2. IsFiniteSet(g[n]) /\ Cardinality(g[n]) \in Nat
          BY <3>4, <1>6, FS_Subset, FS_CardinalityType
        <4>3. g[n - 1] \in SUBSET g[n] /\ g[n - 1] # g[n]
          BY <3>1, <3>6
        <4>4. /\ Cardinality(g[n - 1]) <= Cardinality(g[n])
              /\ Cardinality(g[n - 1]) # Cardinality(g[n])
              /\ Cardinality(g[n - 1]) \in Nat
          BY <4>2, <4>3, FS_Subset, FS_CardinalityType
        <4>5. Cardinality(g[n]) >= n + 1
          BY <4>1, <4>2, <4>4, <2>3
        <4>6. QED BY <4>5, <3>4, <2>3
      <3>7. QED BY <3>5, <3>6
    <2>6. QED BY <2>4, <2>5
  <1>9. Good(C)
    <2> HIDE DEF Good
    <2>1. \A n \in 0..C : Good(n)
      BY <1>8
    <2> HIDE DEF C
    <2>2. C \in 0..C
      BY <1>1
    <2>3. QED BY <2>1, <2>2
  <1>10. Children(found) \subseteq found
    <2>1. IsFiniteSet(g[C]) /\ Cardinality(g[C]) <= Cardinality(U)
      BY <1>9, <1>6, FS_Subset
    <2>2. Cardinality(g[C]) \in Nat /\ Cardinality(U) \in Nat
      BY <2>1, <1>6, FS_CardinalityType
    <2>3. ~ (Cardinality(g[C]) >= C + 1)
      BY <2>1, <2>2, <1>1, <1>6
    <2>4. QED BY <2>3, <1>4, <1>9
  <1>11. ASSUME NEW X, Children({a}) \subseteq X, Children(X) \subseteq X
         PROVE  found \subseteq X
    <2> DEFINE out == {n \in 0..C : ~ (g[n] \subseteq X)}
    <2>1. SUFFICES ASSUME out # {} PROVE FALSE
      BY <1>1, <1>4
    <2>2. PICK n \in out : \A k \in out : n <= k
      <3>1. out \in SUBSET Nat
        OBVIOUS
      <3>2. QED BY <2>1, <3>1, LeastNumber
    <2>3. n # 0
      BY <2>2, <1>5, <1>11
    <2>4. n - 1 \in 0..C /\ g[n] = g[n - 1] \cup Children(g[n - 1])
      BY <2>3, <1>5
    <2>5. n - 1 \notin out
      BY <2>2
    <2>6. g[n - 1] \subseteq X
      BY <2>4, <2>5
    <2>7. Children(g[n - 1]) \subseteq Children(X)
      BY <2>6 DEF Children
    <2>8. QED BY <2>2, <2>4, <2>6, <2>7, <1>11
  <1>12. QED BY <1>4, <1>9, <1>10, <1>11

(***************************************************************************)
(* The scripts, step by step                                               *)
(***************************************************************************)
\* What a step does, and to which kind of artifact or state.
LEMMA StepFields ==
  /\ \A s : Move(s).do = "move" /\ Move(s).kind = s
  /\ RunTask.do = "task"
  /\ \A s : Write(s).do = s
  /\ \A s : Save(s).do = "save" /\ Save(s).kind = s
  /\ \A s, P : LinkTo(s, P).do = "link" /\ LinkTo(s, P).kind = s
               /\ LinkTo(s, P).parents = P
  BY DEF Move, RunTask, Write, Save, LinkTo

\* run_vertical_slice, numbered.
LEMMA SliceSteps ==
  /\ Script["slice"][1] = Move("INTAKE")
  /\ Script["slice"][2] = Move("DISCOVERY")
  /\ Script["slice"][3] = RunTask
  /\ Script["slice"][4] = RunTask
  /\ Script["slice"][5] = Write("spec")
  /\ Script["slice"][6] = Save("rules_snapshot")
  /\ Script["slice"][7] = Move("RULES_LOCK")
  /\ Script["slice"][8] = Write("gate")
  /\ Script["slice"][9] = Move("LANDSCAPE_ANALYSIS")
  /\ Script["slice"][10] = Move("IDEATION")
  /\ Script["slice"][11] = RunTask
  /\ Script["slice"][12] = Save("opportunity_map")
  /\ Script["slice"][13] = Save("candidate_ideas")
  /\ Script["slice"][14] = Move("STRATEGY_SELECTION")
  /\ Script["slice"][15] = RunTask
  /\ Script["slice"][16] = Save("deep_candidate_analysis")
  /\ Script["slice"][17] = RunTask
  /\ Script["slice"][18] = Write("decision")
  /\ Script["slice"][19] = Move("PLANNING")
  /\ Script["slice"][20] = RunTask
  /\ Script["slice"][21] = Save("prd")
  /\ Script["slice"][22] = Save("architecture")
  /\ Script["slice"][23] = Save("implementation_plan")
  /\ Script["slice"][24] = Save("acceptance_plan")
  /\ Script["slice"][25] = Save("risk_register")
  /\ Script["slice"][26] = Save("strategy_review")
  /\ Script["slice"][27] = LinkTo("opportunity_map", {"rules_snapshot"})
  /\ Script["slice"][28] = LinkTo("candidate_ideas", {"opportunity_map"})
  /\ Script["slice"][29] =
        LinkTo("deep_candidate_analysis", {"candidate_ideas"})
  /\ Script["slice"][30] =
        LinkTo("strategy_review", {"deep_candidate_analysis"})
  /\ Script["slice"][31] =
        LinkTo("prd", {"strategy_review", "deep_candidate_analysis"})
  /\ Script["slice"][32] = LinkTo("architecture", {"prd"})
  /\ Script["slice"][33] = LinkTo("implementation_plan", {"architecture"})
  /\ Script["slice"][34] = LinkTo("acceptance_plan", {"implementation_plan"})
  BY DEF Script, LockRules, SelectStrategy, WritePlan

\* complete_v0, numbered.
LEMMA CompleteSteps ==
  /\ Script["complete"][1] = Move("BUILDING")
  /\ Script["complete"][2] = RunTask
  /\ Script["complete"][3] = Save("demo_project")
  /\ Script["complete"][4] = LinkTo("demo_project", {"implementation_plan"})
  /\ Script["complete"][5] = RunTask
  /\ Script["complete"][6] = Move("VALIDATING")
  /\ Script["complete"][7] = RunTask
  /\ Script["complete"][8] = Save("demo_validation")
  /\ Script["complete"][9] = LinkTo("demo_validation", {"demo_project"})
  /\ Script["complete"][10] = RunTask
  /\ Script["complete"][11] = Save("red_team")
  /\ Script["complete"][12] = LinkTo("red_team", {"demo_validation"})
  /\ Script["complete"][13] = Move("OPTIMIZING")
  /\ Script["complete"][14] = RunTask
  /\ Script["complete"][15] = Save("improvement_plan")
  /\ Script["complete"][16] = LinkTo("improvement_plan", {"red_team"})
  /\ Script["complete"][17] = Move("SUBMISSION_PREP")
  /\ Script["complete"][18] = RunTask
  /\ Script["complete"][19] = Save("final_checklist")
  /\ Script["complete"][20] =
        LinkTo("final_checklist", {"demo_validation", "red_team"})
  /\ Script["complete"][21] = Save("compliance_report")
  /\ Script["complete"][22] = RunTask
  /\ Script["complete"][23] = Write("gate")
  /\ Script["complete"][24] = Move("READY_FOR_SUBMISSION")
  BY DEF Script, BuildDemo, PackSubmission

\* How long the scripts are.
LEMMA ScriptLengths ==
  /\ Len(Script["slice"]) = 34 /\ DOMAIN Script["slice"] = 1..34
  /\ Len(Script["complete"]) = 24 /\ DOMAIN Script["complete"] = 1..24
  BY DEF Script, LockRules, SelectStrategy, WritePlan, BuildDemo,
         PackSubmission

\* Where run_vertical_slice moves the state, saves, links and so on.
LEMMA SliceKinds ==
  ASSUME NEW i \in 1..34
  PROVE  LET do == Script["slice"][i].do
         IN  /\ do = "move" => i \in {1, 2, 7, 9, 10, 14, 19}
             /\ do = "save" => i \in {6, 12, 13, 16, 21, 22, 23, 24, 25, 26}
             /\ do = "link" => i \in {27, 28, 29, 30, 31, 32, 33, 34}
             /\ do = "spec" <=> i = 5
             /\ do = "decision" <=> i = 18
             /\ do = "gate" <=> i = 8
  <1>1. \/ i \in {1, 2, 3, 4, 5, 6, 7, 8, 9, 10}
        \/ i \in {11, 12, 13, 14, 15, 16, 17, 18}
        \/ i \in {19, 20, 21, 22, 23, 24, 25, 26}
        \/ i \in {27, 28, 29, 30, 31, 32, 33, 34}
    OBVIOUS
  <1>2. CASE i \in {1, 2, 3, 4, 5, 6, 7, 8, 9, 10}
    BY <1>2, SliceSteps, StepFields
  <1>3. CASE i \in {11, 12, 13, 14, 15, 16, 17, 18}
    BY <1>3, SliceSteps, StepFields
  <1>4. CASE i \in {19, 20, 21, 22, 23, 24, 25, 26}
    BY <1>4, SliceSteps, StepFields
  <1>5. CASE i \in {27, 28, 29, 30, 31, 32, 33, 34}
    BY <1>5, SliceSteps, StepFields
  <1>6. QED BY <1>1, <1>2, <1>3, <1>4, <1>5

\* The same for complete_v0.
LEMMA CompleteKinds ==
  ASSUME NEW i \in 1..24
  PROVE  LET do == Script["complete"][i].do
         IN  /\ do = "move" => i \in {1, 6, 13, 17, 24}
             /\ do = "save" => i \in {3, 8, 11, 15, 19, 21}
             /\ do = "link" => i \in {4, 9, 12, 16, 20}
             /\ do # "spec" /\ do # "decision"
             /\ do = "gate" <=> i = 23
  <1>1. \/ i \in {1, 2, 3, 4, 5, 6, 7, 8}
        \/ i \in {9, 10, 11, 12, 13, 14, 15, 16}
        \/ i \in {17, 18, 19, 20, 21, 22, 23, 24}
    OBVIOUS
  <1>2. CASE i \in {1, 2, 3, 4, 5, 6, 7, 8}
    BY <1>2, CompleteSteps, StepFields
  <1>3. CASE i \in {9, 10, 11, 12, 13, 14, 15, 16}
    BY <1>3, CompleteSteps, StepFields
  <1>4. CASE i \in {17, 18, 19, 20, 21, 22, 23, 24}
    BY <1>4, CompleteSteps, StepFields
  <1>5. QED BY <1>1, <1>2, <1>3, <1>4

\* The states that run_vertical_slice moves the mission to.
LEMMA SliceMoves ==
  /\ Script["slice"][1].kind = "INTAKE"
  /\ Script["slice"][2].kind = "DISCOVERY"
  /\ Script["slice"][7].kind = "RULES_LOCK"
  /\ Script["slice"][9].kind = "LANDSCAPE_ANALYSIS"
  /\ Script["slice"][10].kind = "IDEATION"
  /\ Script["slice"][14].kind = "STRATEGY_SELECTION"
  /\ Script["slice"][19].kind = "PLANNING"
  BY SliceSteps, StepFields

\* The kinds of artifact it saves.
LEMMA SliceSaves ==
  /\ Script["slice"][6].kind = "rules_snapshot"
  /\ Script["slice"][12].kind = "opportunity_map"
  /\ Script["slice"][13].kind = "candidate_ideas"
  /\ Script["slice"][16].kind = "deep_candidate_analysis"
  /\ Script["slice"][21].kind = "prd"
  /\ Script["slice"][22].kind = "architecture"
  /\ Script["slice"][23].kind = "implementation_plan"
  /\ Script["slice"][24].kind = "acceptance_plan"
  /\ Script["slice"][25].kind = "risk_register"
  /\ Script["slice"][26].kind = "strategy_review"
  BY SliceSteps, StepFields

\* The kinds of artifact it links to their parents.
LEMMA SliceLinks ==
  /\ Script["slice"][27].kind = "opportunity_map"
  /\ Script["slice"][28].kind = "candidate_ideas"
  /\ Script["slice"][29].kind = "deep_candidate_analysis"
  /\ Script["slice"][30].kind = "strategy_review"
  /\ Script["slice"][31].kind = "prd"
  /\ Script["slice"][32].kind = "architecture"
  /\ Script["slice"][33].kind = "implementation_plan"
  /\ Script["slice"][34].kind = "acceptance_plan"
  BY SliceSteps, StepFields

\* Which states and kinds complete_v0 names.
LEMMA CompleteNames ==
  /\ Script["complete"][1].kind = "BUILDING"
  /\ Script["complete"][6].kind = "VALIDATING"
  /\ Script["complete"][13].kind = "OPTIMIZING"
  /\ Script["complete"][17].kind = "SUBMISSION_PREP"
  /\ Script["complete"][24].kind = "READY_FOR_SUBMISSION"
  /\ Script["complete"][3].kind = "demo_project"
  /\ Script["complete"][8].kind = "demo_validation"
  /\ Script["complete"][11].kind = "red_team"
  /\ Script["complete"][15].kind = "improvement_plan"
  /\ Script["complete"][19].kind = "final_checklist"
  /\ Script["complete"][21].kind = "compliance_report"
  /\ Script["complete"][4].kind = "demo_project"
  /\ Script["complete"][9].kind = "demo_validation"
  /\ Script["complete"][12].kind = "red_team"
  /\ Script["complete"][16].kind = "improvement_plan"
  /\ Script["complete"][20].kind = "final_checklist"
  <1>1. /\ Script["complete"][1].kind = "BUILDING"
        /\ Script["complete"][6].kind = "VALIDATING"
        /\ Script["complete"][13].kind = "OPTIMIZING"
        /\ Script["complete"][17].kind = "SUBMISSION_PREP"
        /\ Script["complete"][24].kind = "READY_FOR_SUBMISSION"
    BY CompleteSteps, StepFields
  <1>2. /\ Script["complete"][3].kind = "demo_project"
        /\ Script["complete"][8].kind = "demo_validation"
        /\ Script["complete"][11].kind = "red_team"
        /\ Script["complete"][15].kind = "improvement_plan"
        /\ Script["complete"][19].kind = "final_checklist"
        /\ Script["complete"][21].kind = "compliance_report"
    BY CompleteSteps, StepFields
  <1>3. /\ Script["complete"][4].kind = "demo_project"
        /\ Script["complete"][9].kind = "demo_validation"
        /\ Script["complete"][12].kind = "red_team"
        /\ Script["complete"][16].kind = "improvement_plan"
        /\ Script["complete"][20].kind = "final_checklist"
    BY CompleteSteps, StepFields
  <1>4. QED BY <1>1, <1>2, <1>3

\* The states and kinds that the scripts name.
LEMMA ScriptNames ==
  ASSUME NEW p \in {"slice", "complete"}, NEW i \in 1..Len(Script[p]),
         NEW step, step = Script[p][i]
  PROVE  /\ step.do = "move" =>
               step.kind \in CanonicalStates \ {"SUBMITTED", "POSTMORTEM"}
         /\ step.do = "save" => step.kind \in Kinds
         /\ step.do = "save" /\ step.kind = "rules_snapshot" =>
               p = "slice" /\ i = 6
         /\ step.do = "link" => step.kind \in Kinds \ {"rules_snapshot"}
         /\ step.do = "spec" => p = "slice" /\ i = 5
  <1> DEFINE kinds == {"opportunity_map", "candidate_ideas",
                       "deep_candidate_analysis", "prd", "architecture",
                       "implementation_plan", "acceptance_plan",
                       "risk_register", "strategy_review", "demo_project",
                       "demo_validation", "red_team", "improvement_plan",
                       "final_checklist", "compliance_report"}
             moves == {"INTAKE", "DISCOVERY", "RULES_LOCK",
                       "LANDSCAPE_ANALYSIS", "IDEATION",
                       "STRATEGY_SELECTION", "PLANNING", "BUILDING",
                       "VALIDATING", "OPTIMIZING", "SUBMISSION_PREP",
                       "READY_FOR_SUBMISSION"}
  <1>0. /\ "rules_snapshot" \in Kinds
        /\ kinds \subseteq Kinds \ {"rules_snapshot"}
    BY DEF Kinds, PlanKinds
  <1>1. moves \subseteq CanonicalStates \ {"SUBMITTED", "POSTMORTEM"}
    <2>1. /\ Canonical[2] = "INTAKE" /\ Canonical[3] = "DISCOVERY"
          /\ Canonical[4] = "RULES_LOCK"
          /\ Canonical[5] = "LANDSCAPE_ANALYSIS" /\ Canonical[6] = "IDEATION"
          /\ Canonical[7] = "STRATEGY_SELECTION" /\ Canonical[8] = "PLANNING"
          /\ Canonical[9] = "BUILDING" /\ Canonical[10] = "VALIDATING"
          /\ Canonical[11] = "OPTIMIZING" /\ Canonical[12] = "SUBMISSION_PREP"
          /\ Canonical[13] = "READY_FOR_SUBMISSION"
          /\ DOMAIN Canonical = 1..15
      BY DEF Canonical
    <2>2. \A k \in 2..13 : Canonical[k] \in CanonicalStates
      BY <2>1 DEF CanonicalStates
    <2>3. QED BY <2>1, <2>2
  <1>2. CASE p = "slice"
    <2>1. i \in 1..34
      BY <1>2, ScriptLengths
    <2>2. step.do = "move" =>
             step.kind \in CanonicalStates \ {"SUBMITTED", "POSTMORTEM"}
      <3>1. step.do = "move" => i \in {1, 2, 7, 9, 10, 14, 19}
        BY <1>2, <2>1, SliceKinds
      <3>2. step.do = "move" => step.kind \in moves
        BY <1>2, <3>1, SliceMoves
      <3> HIDE DEF kinds, moves
      <3>3. QED BY <3>2, <1>1
    <2>3. step.do = "save" =>
             step.kind \in Kinds /\ (step.kind = "rules_snapshot" => i = 6)
      <3>1. step.do = "save" => i \in {6, 12, 13, 16, 21, 22, 23, 24, 25, 26}
        BY <1>2, <2>1, SliceKinds
      <3>2. step.do = "save" => \/ i = 6 /\ step.kind = "rules_snapshot"
                                \/ step.kind \in kinds
        <4>1. \A j \in {12, 13, 16, 21, 22} : Script["slice"][j].kind \in kinds
          BY SliceSaves
        <4>2. \A j \in {23, 24, 25, 26} : Script["slice"][j].kind \in kinds
          BY SliceSaves
        <4>3. Script["slice"][6].kind = "rules_snapshot"
          BY SliceSaves
        <4> HIDE DEF kinds
        <4>4. QED BY <1>2, <3>1, <4>1, <4>2, <4>3
      <3> HIDE DEF kinds, moves
      <3>3. QED BY <3>2, <1>0
    <2>4. step.do = "link" =>
             step.kind \in Kinds \ {"rules_snapshot"}
      <3>1. step.do = "link" => i \in {27, 28, 29, 30, 31, 32, 33, 34}
        BY <1>2, <2>1, SliceKinds
      <3>2. step.do = "link" => step.kind \in kinds
        <4>1. \A j \in {27, 28, 29, 30, 31, 32, 33, 34} :
                 Script["slice"][j].kind \in kinds
          BY SliceLinks
        <4> HIDE DEF kinds
        <4>2. QED BY <1>2, <3>1, <4>1
      <3> HIDE DEF kinds, moves
      <3>3. QED BY <3>2, <1>0
    <2>5. step.do = "spec" => i = 5
      BY <1>2, <2>1, SliceKinds
    <2>6. QED BY <1>2, <2>2, <2>3, <2>4, <2>5
  <1>3. CASE p = "complete"
    <2>1. i \in 1..24
      BY <1>3, ScriptLengths
    <2>2. step.do = "move" =>
             step.kind \in CanonicalStates \ {"SUBMITTED", "POSTMORTEM"}
      <3>1. step.do = "move" => i \in {1, 6, 13, 17, 24}
        BY <1>3, <2>1, CompleteKinds
      <3>2. step.do = "move" => step.kind \in moves
        <4>1. \A j \in {1, 6, 13} : Script["complete"][j].kind \in moves
          BY CompleteNames
        <4>2. \A j \in {17, 24} : Script["complete"][j].kind \in moves
          BY CompleteNames
        <4> HIDE DEF moves
        <4>3. QED BY <1>3, <3>1, <4>1, <4>2
      <3> HIDE DEF kinds, moves
      <3>3. QED BY <3>2, <1>1
    <2>3. step.do = "save" =>
             step.kind \in Kinds \ {"rules_snapshot"}
      <3>1. step.do = "save" => i \in {3, 8, 11, 15, 19, 21}
        BY <1>3, <2>1, CompleteKinds
      <3>2. step.do = "save" => step.kind \in kinds
        <4>1. \A j \in {3, 8, 11} : Script["complete"][j].kind \in kinds
          BY CompleteNames
        <4>2. \A j \in {15, 19, 21} : Script["complete"][j].kind \in kinds
          BY CompleteNames
        <4> HIDE DEF kinds
        <4>3. QED BY <1>3, <3>1, <4>1, <4>2
      <3> HIDE DEF kinds, moves
      <3>3. QED BY <3>2, <1>0
    <2>4. step.do = "link" =>
             step.kind \in Kinds \ {"rules_snapshot"}
      <3>1. step.do = "link" => i \in {4, 9, 12, 16, 20}
        BY <1>3, <2>1, CompleteKinds
      <3>2. step.do = "link" => step.kind \in kinds
        <4>1. \A j \in {4, 9, 12} : Script["complete"][j].kind \in kinds
          BY CompleteNames
        <4>2. \A j \in {16, 20} : Script["complete"][j].kind \in kinds
          BY CompleteNames
        <4> HIDE DEF kinds
        <4>3. QED BY <1>3, <3>1, <4>1, <4>2
      <3> HIDE DEF kinds, moves
      <3>3. QED BY <3>2, <1>0
    <2>5. step.do # "spec"
      BY <1>3, <2>1, CompleteKinds
    <2>6. QED BY <2>2, <2>3, <2>4, <2>5
  <1>4. QED BY <1>2, <1>3

(***************************************************************************)
(* Where a command stands                                                  *)
(***************************************************************************)
\* The step that a running script has reached.
LEMMA ScriptPlace ==
  ASSUME pc \in Labels, Running
  PROVE  \E p \in {"slice", "complete"} : \E i \in 1..Len(Script[p]) :
            /\ pc = <<p, i>> /\ pc[1] = p /\ pc[2] = i
            /\ Here = Script[p][i] /\ Len(Script[p]) \in Nat
            /\ (p = "slice" => Len(Script[p]) = 34)
            /\ (p = "complete" => Len(Script[p]) = 24)
  <1>1. PICK p \in {"slice", "complete"} :
            \E i \in 1..Len(Script[p]) : pc = <<p, i>>
    <2>1. CASE pc = Idle
      BY <2>1 DEF Running, Idle
    <2>2. CASE \E i \in DOMAIN Script.slice : pc = <<"slice", i>>
      BY <2>2, ScriptLengths
    <2>3. CASE \E i \in DOMAIN Script.complete : pc = <<"complete", i>>
      BY <2>3, ScriptLengths
    <2>4. CASE \E label \in RefreshLabels : pc = <<label, 0>>
      BY <2>4 DEF Running, RefreshLabels
    <2>5. QED BY <2>1, <2>2, <2>3, <2>4 DEF Labels
  <1>2. PICK i \in 1..Len(Script[p]) : pc = <<p, i>>
    BY <1>1
  <1>3. pc[1] = p /\ pc[2] = i
    BY <1>2
  <1>4. QED BY <1>2, <1>3, ScriptLengths DEF Here

\* A script has a next step, or the command ends.
LEMMA OnwardPlace ==
  ASSUME NEW p \in {"slice", "complete"}, NEW i \in 1..Len(Script[p]),
         pc = <<p, i>>, Onward \/ Finish
  PROVE  \/ /\ pc' = <<p, i + 1>> /\ hold' = hold /\ Onward
            /\ i + 1 \in 1..Len(Script[p]) /\ pc' \in Labels
            /\ pc'[1] = p /\ pc'[2] = i + 1
         \/ pc' = Idle /\ hold' = NoHold /\ pc' \in Labels /\ pc'[1] = "idle"
  <1>1. pc[1] = p /\ pc[2] = i /\ Len(Script[p]) \in Nat
    BY ScriptLengths
  <1>2. CASE Finish
    BY <1>2 DEF Finish, Labels, Idle
  <1>3. CASE Onward /\ i < Len(Script[p])
    <2>1. pc' = <<p, i + 1>> /\ hold' = hold
      BY <1>1, <1>3 DEF Onward
    <2>2. i + 1 \in 1..Len(Script[p])
      BY <1>1, <1>3
    <2>3. pc' \in Labels
      BY <2>1, <2>2, ScriptLengths DEF Labels
    <2>4. QED BY <2>1, <2>2, <2>3, <1>3
  <1>4. CASE Onward /\ ~ (i < Len(Script[p]))
    BY <1>1, <1>4 DEF Onward, Finish, Labels, Idle
  <1>5. QED BY <1>2, <1>3, <1>4

\* What a script has left behind stays, and its present step adds to it.
LEMMA BehindGrows ==
  ASSUME NEW p, NEW i \in Nat, Behind(p, i),
         artifacts \subseteq artifacts',
         specs # <<>> => specs' # <<>>, decided => decided',
         NEW step, step = Script[p][i],
         step.do = "save" =>
            \E a \in artifacts' : a[1] = step.kind,
         step.do = "spec" => specs' # <<>>,
         step.do = "decision" => decided'
  PROVE  Behind(p, i + 1)'
  <1>1. ASSUME NEW kind, Saved(kind) # {} PROVE Saved(kind)' # {}
    BY <1>1 DEF Saved
  <1>2. step.do = "save" => Saved(step.kind)' # {}
    BY DEF Saved
  <1>3. SUFFICES ASSUME NEW j \in 1..i
        PROVE  /\ Script[p][j].do = "save" => Saved(Script[p][j].kind)' # {}
               /\ Script[p][j].do = "spec" => specs' # <<>>
               /\ Script[p][j].do = "decision" => decided'
    BY DEF Behind
  <1>4. CASE j = i
    BY <1>2, <1>4
  <1>5. CASE j # i
    <2>1. j \in 1..(i - 1)
      BY <1>5
    <2>2. QED BY <2>1, <1>1 DEF Behind
  <1>6. QED BY <1>4, <1>5

\* A state that is backed stays so while the tables grow.
LEMMA BackedGrows ==
  ASSUME StateBacked, state' = state \/ state' = "BLOCKED",
         artifacts \subseteq artifacts',
         specs # <<>> => specs' # <<>>, decided => decided'
  PROVE  StateBacked'
  <1>1. \A kind : Saved(kind) # {} => Saved(kind)' # {}
    BY DEF Saved
  <1>2. CASE state' = state
    BY <1>1, <1>2 DEF StateBacked
  <1>3. CASE state' = "BLOCKED"
    <2>1. \A i \in DOMAIN Canonical : Canonical[i] # "BLOCKED"
      <3>1. SUFFICES ASSUME NEW i \in 1..15 PROVE Canonical[i] # "BLOCKED"
        BY DEF Canonical
      <3>2. i \in {1, 2, 3, 4, 5, 6, 7, 8, 9, 10, 11, 12, 13, 14, 15}
        OBVIOUS
      <3>3. QED BY <3>2 DEF Canonical
    <2>2. QED BY <2>1, <1>3 DEF StateBacked
  <1>4. QED BY <1>2, <1>3

\* The artifacts that each state needs, by the state's number.
LEMMA NeedsTable ==
  ASSUME NEW j \in 1..15, Canonical[j] \in DOMAIN Needs
  PROVE  \/ j = 4 /\ Needs[Canonical[j]] = {"rules_snapshot"}
         \/ j = 7 /\ Needs[Canonical[j]] =
                        {"opportunity_map", "candidate_ideas"}
         \/ j = 8 /\ Needs[Canonical[j]] = {"deep_candidate_analysis"}
         \/ j = 9 /\ Needs[Canonical[j]] = RequiredPlanning
         \/ j = 10 /\ Needs[Canonical[j]] = {"demo_project"}
         \/ j = 11 /\ Needs[Canonical[j]] = {"demo_validation", "red_team"}
         \/ j = 12 /\ Needs[Canonical[j]] = {"improvement_plan"}
         \/ j = 13 /\ Needs[Canonical[j]] =
                        {"final_checklist", "compliance_report"}
  <1>1. j \in {1, 2, 3, 4, 5, 6, 7, 8, 9, 10, 11, 12, 13, 14, 15}
    OBVIOUS
  <1>2. CASE j \in {1, 2, 3, 5, 6, 14, 15}
    BY <1>2 DEF Canonical, Needs
  <1>3. CASE j \in {4, 7, 8, 9}
    BY <1>3 DEF Canonical, Needs
  <1>4. CASE j \in {10, 11, 12, 13}
    BY <1>4 DEF Canonical, Needs
  <1>5. QED BY <1>1, <1>2, <1>3, <1>4

\* The states are told apart by their numbers.
LEMMA CanonicalNumbers ==
  /\ DOMAIN Canonical = 1..15
  /\ \A i, j \in 1..15 : Canonical[i] = Canonical[j] => i = j
  <1>1. DOMAIN Canonical = 1..15
    BY DEF Canonical
  <1>2. ASSUME NEW i \in 1..15, NEW j \in 1..15, Canonical[i] = Canonical[j]
        PROVE  i = j
    <2>1. /\ i \in {1, 2, 3, 4, 5, 6, 7, 8, 9, 10, 11, 12, 13, 14, 15}
          /\ j \in {1, 2, 3, 4, 5, 6, 7, 8, 9, 10, 11, 12, 13, 14, 15}
      OBVIOUS
    <2>2. QED BY <2>1, <1>2 DEF Canonical
  <1>3. QED BY <1>1, <1>2

\* A state that the mission has moved to is backed when the artifacts up to
\* it are saved.
LEMMA MoveBacked ==
  ASSUME NEW n \in 1..15, state' = Canonical[n],
         artifacts' = artifacts, specs' = specs, decided' = decided,
         n >= 4 => Saved("rules_snapshot") # {} /\ specs # <<>>,
         n >= 7 => Saved("opportunity_map") # {}
                   /\ Saved("candidate_ideas") # {},
         n >= 8 => Saved("deep_candidate_analysis") # {} /\ decided,
         n >= 9 => \A kind \in RequiredPlanning : Saved(kind) # {},
         n >= 10 => Saved("demo_project") # {},
         n >= 11 => Saved("demo_validation") # {} /\ Saved("red_team") # {},
         n >= 12 => Saved("improvement_plan") # {},
         n >= 13 => Saved("final_checklist") # {}
                    /\ Saved("compliance_report") # {}
  PROVE  StateBacked'
  <1>1. \A kind : Saved(kind)' = Saved(kind)
    BY DEF Saved
  <1>2. SUFFICES ASSUME NEW i \in 1..15, state' = Canonical[i]
        PROVE  /\ \A j \in 1..i : Canonical[j] \in DOMAIN Needs =>
                     \A kind \in Needs[Canonical[j]] : Saved(kind) # {}
               /\ i >= 4 => specs # <<>>
               /\ i >= 8 => decided
    BY <1>1, CanonicalNumbers DEF StateBacked
  <1>3. i = n
    BY <1>2, CanonicalNumbers
  <1>4. ASSUME NEW j \in 1..i, Canonical[j] \in DOMAIN Needs,
               NEW kind \in Needs[Canonical[j]]
        PROVE  Saved(kind) # {}
    <2>1. j \in 1..15 /\ j <= n
      BY <1>3
    <2>2. \/ j = 4 /\ kind = "rules_snapshot"
          \/ j = 7 /\ kind \in {"opportunity_map", "candidate_ideas"}
          \/ j = 8 /\ kind = "deep_candidate_analysis"
          \/ j = 9 /\ kind \in RequiredPlanning
          \/ j = 10 /\ kind = "demo_project"
          \/ j = 11 /\ kind \in {"demo_validation", "red_team"}
          \/ j = 12 /\ kind = "improvement_plan"
          \/ j = 13 /\ kind \in {"final_checklist", "compliance_report"}
      <3> DEFINE needs == Needs[Canonical[j]]
      <3>1. \/ j = 4 /\ needs = {"rules_snapshot"}
            \/ j = 7 /\ needs = {"opportunity_map", "candidate_ideas"}
            \/ j = 8 /\ needs = {"deep_candidate_analysis"}
            \/ j = 9 /\ needs = RequiredPlanning
            \/ j = 10 /\ needs = {"demo_project"}
            \/ j = 11 /\ needs = {"demo_validation", "red_team"}
            \/ j = 12 /\ needs = {"improvement_plan"}
            \/ j = 13 /\ needs = {"final_checklist", "compliance_report"}
        BY <1>4, <2>1, NeedsTable
      <3>2. kind \in needs
        OBVIOUS
      <3> HIDE DEF needs
      <3>3. QED BY <3>1, <3>2
    <2>3. QED BY <2>1, <2>2
  <1>5. QED BY <1>3, <1>4

\* What run_vertical_slice has left behind.
LEMMA SliceBehind ==
  ASSUME NEW i \in 1..34, Behind("slice", i)
  PROVE  /\ i > 5 => specs # <<>>
         /\ i > 6 => Saved("rules_snapshot") # {}
         /\ i > 12 => Saved("opportunity_map") # {}
         /\ i > 13 => Saved("candidate_ideas") # {}
         /\ i > 16 => Saved("deep_candidate_analysis") # {}
         /\ i > 18 => decided
         /\ i > 26 => /\ Saved("prd") # {} /\ Saved("architecture") # {}
                      /\ Saved("implementation_plan") # {}
                      /\ Saved("acceptance_plan") # {}
                      /\ Saved("risk_register") # {}
                      /\ Saved("strategy_review") # {}
  <1>1. ASSUME NEW j \in 1..34, j < i
        PROVE  /\ Script["slice"][j].do = "save" =>
                     Saved(Script["slice"][j].kind) # {}
               /\ Script["slice"][j].do = "spec" => specs # <<>>
               /\ Script["slice"][j].do = "decision" => decided
    <2>1. j \in 1..(i - 1)
      BY <1>1
    <2>2. QED BY <2>1 DEF Behind
  <1>2. \A j \in {6, 12, 13, 16, 21, 22, 23, 24, 25, 26} :
            Script["slice"][j].do = "save"
    BY SliceSteps, StepFields
  <1>3. Script["slice"][5].do = "spec" /\ Script["slice"][18].do = "decision"
    BY SliceSteps, StepFields
  <1>4. i > 5 => specs # <<>>
    BY <1>1, <1>3
  <1>5. i > 18 => decided
    BY <1>1, <1>3
  <1>6. ASSUME NEW j \in {6, 12, 13, 16, 21, 22, 23, 24, 25, 26}, j < i
        PROVE  Saved(Script["slice"][j].kind) # {}
    <2>1. j \in 1..34 /\ Script["slice"][j].do = "save"
      BY <1>2
    <2>2. QED BY <1>1, <1>6, <2>1
  <1>7. /\ i > 6 => Saved(Script["slice"][6].kind) # {}
        /\ i > 12 => Saved(Script["slice"][12].kind) # {}
        /\ i > 13 => Saved(Script["slice"][13].kind) # {}
        /\ i > 16 => Saved(Script["slice"][16].kind) # {}
        /\ i > 21 => Saved(Script["slice"][21].kind) # {}
        /\ i > 22 => Saved(Script["slice"][22].kind) # {}
        /\ i > 23 => Saved(Script["slice"][23].kind) # {}
        /\ i > 24 => Saved(Script["slice"][24].kind) # {}
        /\ i > 25 => Saved(Script["slice"][25].kind) # {}
        /\ i > 26 => Saved(Script["slice"][26].kind) # {}
    BY <1>6
  <1>8. QED BY <1>4, <1>5, <1>7, SliceSaves

\* What complete_v0 has left behind.
LEMMA CompleteBehind ==
  ASSUME NEW i \in 1..24, Behind("complete", i)
  PROVE  /\ i > 3 => Saved("demo_project") # {}
         /\ i > 8 => Saved("demo_validation") # {}
         /\ i > 11 => Saved("red_team") # {}
         /\ i > 15 => Saved("improvement_plan") # {}
         /\ i > 19 => Saved("final_checklist") # {}
         /\ i > 21 => Saved("compliance_report") # {}
  <1>1. \A j \in {3, 8, 11, 15, 19, 21} : Script["complete"][j].do = "save"
    BY CompleteSteps, StepFields
  <1>2. ASSUME NEW j \in {3, 8, 11, 15, 19, 21}, j < i
        PROVE  Saved(Script["complete"][j].kind) # {}
    <2>1. j \in 1..(i - 1)
      BY <1>2
    <2>2. QED BY <1>1, <2>1 DEF Behind
  <1>3. QED BY <1>2, CompleteNames

\* transition_state out of a script: the work of the new state is saved.
LEMMA ScriptMoveBacked ==
  ASSUME NEW p \in {"slice", "complete"}, NEW i \in 1..Len(Script[p]),
         Behind(p, i), p = "complete" => Planned,
         NEW step, step = Script[p][i], step.do = "move",
         state' = step.kind,
         artifacts' = artifacts, specs' = specs, decided' = decided
  PROVE  StateBacked'
  <1>0. /\ Canonical[2] = "INTAKE" /\ Canonical[3] = "DISCOVERY"
        /\ Canonical[4] = "RULES_LOCK"
        /\ Canonical[5] = "LANDSCAPE_ANALYSIS" /\ Canonical[6] = "IDEATION"
        /\ Canonical[7] = "STRATEGY_SELECTION" /\ Canonical[8] = "PLANNING"
        /\ Canonical[9] = "BUILDING" /\ Canonical[10] = "VALIDATING"
        /\ Canonical[11] = "OPTIMIZING" /\ Canonical[12] = "SUBMISSION_PREP"
        /\ Canonical[13] = "READY_FOR_SUBMISSION"
    BY DEF Canonical
  <1>1. CASE p = "slice"
    <2>1. i \in 1..34
      BY <1>1, ScriptLengths
    <2>2. i \in {1, 2, 7, 9, 10, 14, 19}
      BY <1>1, <2>1, SliceKinds
    <2>3. \E n \in 1..8 : /\ state' = Canonical[n]
                          /\ n >= 4 => i > 6
                          /\ n >= 7 => i > 13
                          /\ n >= 8 => i > 18
      <3>1. CASE i \in {1, 2, 7, 9}
        <4>1. \/ i = 1 /\ state' = Canonical[2]
              \/ i = 2 /\ state' = Canonical[3]
              \/ i = 7 /\ state' = Canonical[4]
              \/ i = 9 /\ state' = Canonical[5]
          BY <1>0, <1>1, <3>1, SliceMoves
        <4>2. QED BY <4>1
      <3>2. CASE i \in {10, 14, 19}
        <4>1. \/ i = 10 /\ state' = Canonical[6]
              \/ i = 14 /\ state' = Canonical[7]
              \/ i = 19 /\ state' = Canonical[8]
          BY <1>0, <1>1, <3>2, SliceMoves
        <4>2. QED BY <4>1
      <3>3. QED BY <2>2, <3>1, <3>2
    <2>4. PICK n \in 1..8 : /\ state' = Canonical[n]
                            /\ n >= 4 => i > 6
                            /\ n >= 7 => i > 13
                            /\ n >= 8 => i > 18
      BY <2>3
    <2>5. Behind("slice", i)
      BY <1>1
    <2>6. /\ n >= 4 => Saved("rules_snapshot") # {} /\ specs # <<>>
          /\ n >= 7 => Saved("opportunity_map") # {}
                       /\ Saved("candidate_ideas") # {}
          /\ n >= 8 => Saved("deep_candidate_analysis") # {} /\ decided
      <3>1. /\ i > 5 => specs # <<>>
            /\ i > 6 => Saved("rules_snapshot") # {}
            /\ i > 12 => Saved("opportunity_map") # {}
            /\ i > 13 => Saved("candidate_ideas") # {}
            /\ i > 16 => Saved("deep_candidate_analysis") # {}
            /\ i > 18 => decided
        BY <2>1, <2>5, SliceBehind
      <3>2. QED BY <2>1, <2>4, <3>1
    <2>7. n \in 1..15 /\ n <= 8
      OBVIOUS
    <2>8. QED BY <2>4, <2>6, <2>7, MoveBacked
  <1>2. CASE p = "complete"
    <2>1. i \in 1..24
      BY <1>2, ScriptLengths
    <2>2. i \in {1, 6, 13, 17, 24}
      BY <1>2, <2>1, CompleteKinds
    <2>3. \/ i = 1 /\ state' = Canonical[9]
          \/ i = 6 /\ state' = Canonical[10]
          \/ i = 13 /\ state' = Canonical[11]
          \/ i = 17 /\ state' = Canonical[12]
          \/ i = 24 /\ state' = Canonical[13]
      BY <1>0, <1>2, <2>2, CompleteNames
    <2>4. PICK n \in 9..13 : /\ state' = Canonical[n]
                             /\ n >= 10 => i > 3
                             /\ n >= 11 => i > 11
                             /\ n >= 12 => i > 15
                             /\ n >= 13 => i > 21
      BY <2>3
    <2>5. Behind("complete", i) /\ Planned
      BY <1>2
    <2>6. /\ n >= 10 => Saved("demo_project") # {}
          /\ n >= 11 => Saved("demo_validation") # {}
                        /\ Saved("red_team") # {}
          /\ n >= 12 => Saved("improvement_plan") # {}
          /\ n >= 13 => Saved("final_checklist") # {}
                        /\ Saved("compliance_report") # {}
      <3>1. /\ i > 3 => Saved("demo_project") # {}
            /\ i > 8 => Saved("demo_validation") # {}
            /\ i > 11 => Saved("red_team") # {}
            /\ i > 15 => Saved("improvement_plan") # {}
            /\ i > 19 => Saved("final_checklist") # {}
            /\ i > 21 => Saved("compliance_report") # {}
        BY <2>1, <2>5, CompleteBehind
      <3>2. QED BY <2>1, <2>4, <3>1
    <2>7. n \in 1..15
      OBVIOUS
    <2>8. /\ specs # <<>> /\ decided
          /\ Saved("rules_snapshot") # {} /\ Saved("opportunity_map") # {}
          /\ Saved("candidate_ideas") # {}
          /\ Saved("deep_candidate_analysis") # {}
          /\ \A kind \in RequiredPlanning : Saved(kind) # {}
      BY <2>5 DEF Planned
    <2>9. QED BY <2>4, <2>6, <2>7, <2>8, MoveBacked
  <1>3. QED BY <1>1, <1>2

\* The artifacts that run_vertical_slice links to.
LEMMA SliceParents ==
  /\ Script["slice"][27].parents = {"rules_snapshot"}
  /\ Script["slice"][28].parents = {"opportunity_map"}
  /\ Script["slice"][29].parents = {"candidate_ideas"}
  /\ Script["slice"][30].parents = {"deep_candidate_analysis"}
  /\ Script["slice"][31].parents =
        {"strategy_review", "deep_candidate_analysis"}
  /\ Script["slice"][32].parents = {"prd"}
  /\ Script["slice"][33].parents = {"architecture"}
  /\ Script["slice"][34].parents = {"implementation_plan"}
  <1>1. \A s, P : LinkTo(s, P).parents = P
    BY StepFields
  <1>2. QED BY <1>1, SliceSteps

\* The artifacts that complete_v0 links to.
LEMMA CompleteParents ==
  /\ Script["complete"][4].parents = {"implementation_plan"}
  /\ Script["complete"][9].parents = {"demo_project"}
  /\ Script["complete"][12].parents = {"demo_validation"}
  /\ Script["complete"][16].parents = {"red_team"}
  /\ Script["complete"][20].parents = {"demo_validation", "red_team"}
  <1>1. \A s, P : LinkTo(s, P).parents = P
    BY StepFields
  <1>2. QED BY <1>1, CompleteSteps

\* What a script links is saved.
LEMMA LinkedSaved ==
  ASSUME NEW p \in {"slice", "complete"}, NEW i \in 1..Len(Script[p]),
         Behind(p, i), p = "complete" => Planned,
         NEW step, step = Script[p][i], step.do = "link"
  PROVE  /\ Saved(step.kind) # {}
         /\ \A kind \in step.parents : Saved(kind) # {}
  <1>1. CASE p = "slice"
    <2>1. i \in 1..34
      BY <1>1, ScriptLengths
    <2>2. i \in {27, 28, 29, 30, 31, 32, 33, 34}
      BY <1>1, <2>1, SliceKinds
    <2>3. Behind("slice", i) /\ i > 26
      BY <1>1, <2>2
    <2> DEFINE kinds == {"rules_snapshot", "opportunity_map",
                         "candidate_ideas", "deep_candidate_analysis", "prd",
                         "architecture", "implementation_plan",
                         "acceptance_plan", "strategy_review"}
    <2>4. \A kind \in kinds : Saved(kind) # {}
      <3>1. /\ Saved("rules_snapshot") # {} /\ Saved("opportunity_map") # {}
            /\ Saved("candidate_ideas") # {}
            /\ Saved("deep_candidate_analysis") # {}
            /\ Saved("prd") # {} /\ Saved("architecture") # {}
            /\ Saved("implementation_plan") # {}
            /\ Saved("acceptance_plan") # {}
            /\ Saved("strategy_review") # {}
        <4>1. i > 6 /\ i > 12 /\ i > 13 /\ i > 16
          BY <2>2
        <4>2. QED BY <2>1, <2>3, <4>1, SliceBehind
      <3>2. QED BY <3>1
    <2>5. step.kind \in kinds
      BY <1>1, <2>2, SliceLinks
    <2>6. step.parents \subseteq kinds
      <3>1. \A j \in {27, 28, 29, 30, 31, 32, 33, 34} :
                Script["slice"][j].parents \subseteq kinds
        BY SliceParents
      <3>2. QED BY <1>1, <2>2, <3>1
    <2>7. QED BY <2>4, <2>5, <2>6
  <1>2. CASE p = "complete"
    <2>1. i \in 1..24
      BY <1>2, ScriptLengths
    <2>2. i \in {4, 9, 12, 16, 20}
      BY <1>2, <2>1, CompleteKinds
    <2>3. Behind("complete", i) /\ Saved("implementation_plan") # {}
      BY <1>2 DEF Planned, RequiredPlanning, PlanKinds
    <2>4. /\ i > 3 => Saved("demo_project") # {}
          /\ i > 8 => Saved("demo_validation") # {}
          /\ i > 11 => Saved("red_team") # {}
          /\ i > 15 => Saved("improvement_plan") # {}
          /\ i > 19 => Saved("final_checklist") # {}
      BY <2>1, <2>3, CompleteBehind
    <2>5. Saved(step.kind) # {}
      <3>1. \/ i = 4 /\ step.kind = "demo_project"
            \/ i = 9 /\ step.kind = "demo_validation"
            \/ i = 12 /\ step.kind = "red_team"
            \/ i = 16 /\ step.kind = "improvement_plan"
            \/ i = 20 /\ step.kind = "final_checklist"
        BY <1>2, <2>2, CompleteNames
      <3>2. QED BY <2>4, <3>1
    <2>6. /\ Script["complete"][4].parents = {"implementation_plan"}
          /\ Script["complete"][9].parents = {"demo_project"}
          /\ Script["complete"][12].parents = {"demo_validation"}
          /\ Script["complete"][16].parents = {"red_team"}
          /\ Script["complete"][20].parents = {"demo_validation", "red_team"}
      BY CompleteParents
    <2>7. ASSUME NEW kind \in step.parents PROVE Saved(kind) # {}
      BY <1>2, <2>2, <2>3, <2>4, <2>6
    <2>8. QED BY <2>5, <2>7
  <1>3. QED BY <1>1, <1>2

\* get_artifacts_by_kind: the newest of a kind is an artifact of that kind.
LEMMA NewestSaved ==
  ASSUME TypeOK, NEW kind, Saved(kind) # {}
  PROVE  /\ Newest(kind) \in artifacts /\ Newest(kind)[1] = kind
         /\ \A a \in Saved(kind) : a[2] <= Newest(kind)[2]
  <1> DEFINE S == {a[2] : a \in Saved(kind)}
  <1>1. \A a \in Saved(kind) : /\ a \in artifacts /\ a[1] = kind
                               /\ a = <<a[1], a[2]>>
                               /\ a[2] \in 1..MaxVersion
    BY DEF TypeOK, Saved, Artifact
  <1>2. S \in SUBSET (1..MaxVersion) /\ S # {}
    BY <1>1
  <1>3. Max(S) \in S /\ \A v \in S : v <= Max(S)
    BY <1>2, LargestVersion
  <1>4. PICK a \in Saved(kind) : Max(S) = a[2]
    BY <1>3
  <1>5. Newest(kind) = <<kind, Max(S)>>
    BY DEF Newest
  <1>6. Newest(kind) = a
    BY <1>1, <1>4, <1>5
  <1>7. QED BY <1>1, <1>3, <1>5, <1>6

(***************************************************************************)
(* The first half of the invariant: Base                                   *)
(***************************************************************************)
\* Outside a refresh nothing is marked, so nothing can be wrong with it.
LEMMA MarksQuiet ==
  ASSUME hold'.found = {}, hold'.marks = {},
         pc'[1] \in {"idle", "slice", "complete", "fetch", "save_spec",
                     "snapshot"}
  PROVE  Marks'
  BY DEF Marks, Marking

\* What a running script has read.
LEMMA ScriptHold ==
  ASSUME TypeOK, Marks, Versions, Running
  PROVE  /\ hold \in Hold /\ NoHold \in Hold
         /\ hold.found = {} /\ hold.marks = {}
         /\ NoHold.found = {} /\ NoHold.marks = {}
         /\ state # "NONE"
  <1>1. hold \in Hold /\ NoHold \in Hold
    BY PhasesAssumption DEF TypeOK, Hold, NoHold
  <1>2. ~Marking
    BY DEF Running, Marking
  <1>3. hold.found = {} /\ hold.marks = {}
    BY <1>2 DEF Marks
  <1>4. state # "NONE"
    BY DEF Versions, Running, Idle
  <1>5. QED BY <1>1, <1>3, <1>4 DEF NoHold

\* The script goes on, or the command ends: what it has left behind.
LEMMA ScriptProgress ==
  ASSUME Base, NEW p \in {"slice", "complete"}, NEW i \in 1..Len(Script[p]),
         pc = <<p, i>>, Onward \/ Finish,
         state' # "POSTMORTEM", pc' # Idle => state' # "BLOCKED",
         artifacts \subseteq artifacts',
         specs # <<>> => specs' # <<>>, decided => decided',
         NEW step, step = Script[p][i],
         step.do = "save" =>
            \E a \in artifacts' : a[1] = step.kind,
         step.do = "spec" => specs' # <<>>,
         step.do = "decision" => decided'
  PROVE  Progress'
  <1>1. Behind(p, i) /\ (p = "complete" => Planned)
    BY DEF Base, Progress, Running
  <1>2. CASE pc' = <<p, i + 1>> /\ pc'[1] = p /\ pc'[2] = i + 1
    <2>1. Behind(p, i + 1)'
      <3>1. i \in Nat
        BY ScriptLengths
      <3>2. QED BY <1>1, <3>1, BehindGrows
    <2>2. pc' # Idle
      BY <1>2 DEF Idle
    <2>3. p = "complete" => Planned'
      <3>1. \A kind : Saved(kind) # {} => Saved(kind)' # {}
        BY DEF Saved
      <3>2. QED BY <1>1, <3>1 DEF Planned
    <2>4. QED BY <1>2, <2>1, <2>2, <2>3 DEF Progress, Running
  <1>3. CASE pc' = Idle
    BY <1>3 DEF Progress, Running, Idle
  <1>4. QED BY <1>2, <1>3, OnwardPlace

\* The script goes on, or the command ends: the version it works with.
LEMMA ScriptVersions ==
  ASSUME Base, NEW p \in {"slice", "complete"}, NEW i \in 1..Len(Script[p]),
         pc = <<p, i>>, Onward \/ Finish,
         state' # "NONE",
         NEW step, step = Script[p][i],
         IF step.do = "spec" THEN Len(specs') = Len(specs) + 1
                             ELSE specs' = specs,
         \A a \in artifacts' : a[2] <= Len(specs'),
         \A l \in links' :
            l[2][1] = "rules_snapshot" => l[1][1] = "rules_snapshot"
  PROVE  Versions'
  <1>1. CASE pc' = <<p, i + 1>> /\ pc'[1] = p /\ pc'[2] = i + 1
             /\ hold' = hold /\ i + 1 \in 1..Len(Script[p])
    <2>1. CASE p = "slice"
      <3>1. i \in 1..34
        BY <2>1, ScriptLengths
      <3>2. step.do = "spec" <=> i = 5
        BY <2>1, <3>1, SliceKinds
      <3>3. hold.version = 1 /\ Len(specs) = IF i <= 5 THEN 0 ELSE 1
        BY <2>1 DEF Base, Versions
      <3>4. Len(specs') = IF i + 1 <= 5 THEN 0 ELSE 1
        BY <3>1, <3>2, <3>3
      <3>5. QED BY <1>1, <2>1, <3>3, <3>4 DEF Versions
    <2>2. CASE p = "complete"
      <3>1. i \in 1..24
        BY <2>2, ScriptLengths
      <3>2. specs' = specs
        BY <2>2, <3>1, CompleteKinds
      <3>3. hold.version = Len(specs) /\ specs # <<>>
        BY <2>2 DEF Base, Versions
      <3>4. QED BY <1>1, <2>2, <3>2, <3>3 DEF Versions
    <2>3. QED BY <2>1, <2>2
  <1>2. CASE pc' = Idle
    BY <1>2 DEF Versions, Idle
  <1>3. QED BY <1>1, <1>2, OnwardPlace

\* The parts of the type invariant that the command itself changes.
LEMMA ScriptTypes ==
  ASSUME Base, NEW p \in {"slice", "complete"}, NEW i \in 1..Len(Script[p]),
         pc = <<p, i>>, Onward \/ Finish
  PROVE  pc' \in Labels /\ hold' \in Hold /\ Marks'
  <1>1. Running
    BY DEF Running
  <1>2. /\ hold \in Hold /\ NoHold \in Hold
        /\ hold.found = {} /\ hold.marks = {}
        /\ NoHold.found = {} /\ NoHold.marks = {}
    BY <1>1, ScriptHold DEF Base
  <1>3. /\ pc' \in Labels /\ (hold' = hold \/ hold' = NoHold)
        /\ pc'[1] \in {"idle", "slice", "complete"}
    BY OnwardPlace
  <1>4. Marks'
    BY <1>2, <1>3, MarksQuiet
  <1>5. QED BY <1>2, <1>3, <1>4

\* The side states and NONE are none of the canonical ones.
LEMMA CanonicalFresh ==
  "NONE" \notin CanonicalStates /\ "BLOCKED" \notin CanonicalStates
  <1>1. SUFFICES ASSUME NEW i \in 1..15
        PROVE  Canonical[i] # "NONE" /\ Canonical[i] # "BLOCKED"
    BY CanonicalNumbers DEF CanonicalStates
  <1>2. i \in {1, 2, 3, 4, 5, 6, 7, 8, 9, 10, 11, 12, 13, 14, 15}
    OBVIOUS
  <1>3. QED BY <1>2 DEF Canonical

\* A script saves with the version of the stored rules.
LEMMA SaveVersion ==
  ASSUME Base, NEW p \in {"slice", "complete"}, NEW i \in 1..Len(Script[p]),
         pc = <<p, i>>, Script[p][i].do = "save"
  PROVE  /\ hold.version = Len(specs) /\ hold.version \in 1..MaxVersion
         /\ specs # <<>>
  <1>1. pc[1] = p /\ pc[2] = i
    OBVIOUS
  <1>2. specs \in Seq(Rules) /\ Len(specs) <= MaxVersion
    BY DEF Base, TypeOK
  <1>3. MaxVersion \in Nat /\ Len(specs) \in Nat
    BY <1>2, PhasesAssumption
  <1>4. CASE p = "slice"
    <2>1. i \in 1..34
      BY <1>4, ScriptLengths
    <2>2. i \in {6, 12, 13, 16, 21, 22, 23, 24, 25, 26}
      BY <1>4, <2>1, SliceKinds
    <2>3. ~ (i <= 5)
      BY <2>2
    <2>4. hold.version = 1 /\ Len(specs) = 1
      BY <1>1, <1>4, <2>3 DEF Base, Versions
    <2>5. specs # <<>>
      <3>1. Len(specs) # 0
        BY <2>4
      <3>2. Len(<<>>) = 0
        OBVIOUS
      <3>3. QED BY <3>1, <3>2
    <2>6. QED BY <2>4, <2>5, <1>2, <1>3
  <1>5. CASE p = "complete"
    <2>1. hold.version = Len(specs) /\ specs # <<>>
      BY <1>1, <1>5 DEF Base, Versions
    <2>2. Len(specs) # 0
      BY <2>1, <1>2
    <2>3. QED BY <2>1, <2>2, <1>2, <1>3
  <1>6. QED BY <1>4, <1>5

\* transition_state.
LEMMA MoveStateBase ==
  ASSUME Base, MoveState
  PROVE  Base'
  <1>1. PICK p \in {"slice", "complete"} : \E i \in 1..Len(Script[p]) :
            pc = <<p, i>> /\ pc[1] = p /\ pc[2] = i /\ Here = Script[p][i]
    BY ScriptPlace DEF MoveState, At, Base, TypeOK
  <1>2. PICK i \in 1..Len(Script[p]) :
            pc = <<p, i>> /\ pc[1] = p /\ pc[2] = i /\ Here = Script[p][i]
    BY <1>1
  <1> DEFINE step == Script[p][i]
  <1>3. /\ step.do = "move" /\ Running /\ (Onward \/ Finish)
        /\ state' = step.kind \/ state' = state
        /\ specs' = specs /\ artifacts' = artifacts /\ stale' = stale
        /\ links' = links /\ decided' = decided /\ reviews' = reviews
        /\ published' = published /\ crashes' = crashes
    BY <1>2 DEF MoveState, At
  <1>4. step.kind \in CanonicalStates \ {"SUBMITTED", "POSTMORTEM"}
    BY <1>3, ScriptNames
  <1>5. /\ state # "NONE" /\ state # "BLOCKED" /\ state # "POSTMORTEM"
        /\ Behind(p, i) /\ (p = "complete" => Planned)
    BY <1>2, <1>3, ScriptHold DEF Base, Progress
  <1>6. "NONE" \notin CanonicalStates /\ "BLOCKED" \notin CanonicalStates
    BY CanonicalFresh
  <1>7. /\ state' \in MissionState \cup {"NONE"}
        /\ state' # "NONE" /\ state' # "BLOCKED" /\ state' # "POSTMORTEM"
    BY <1>3, <1>4, <1>5, <1>6 DEF Base, TypeOK, MissionState
  <1>8. Progress'
    BY <1>2, <1>3, <1>7, ScriptProgress
  <1>9. Versions'
    BY <1>2, <1>3, <1>7, ScriptVersions DEF Base, Versions
  <1>10. TypeOK' /\ Marks'
    BY <1>2, <1>3, <1>7, ScriptTypes DEF Base, TypeOK
  <1>11. StateBacked'
    <2>1. CASE state' = step.kind
      BY <1>3, <1>5, <2>1, ScriptMoveBacked
    <2>2. CASE state' = state
      BY <1>3, <2>2, BackedGrows DEF Base
    <2>3. QED BY <1>3, <2>1, <2>2
  <1>12. QED BY <1>8, <1>9, <1>10, <1>11 DEF Base

\* A task, which returns or raises.
LEMMA DoTaskBase ==
  ASSUME Base, DoTask
  PROVE  Base'
  <1>1. PICK p \in {"slice", "complete"} : \E i \in 1..Len(Script[p]) :
            pc = <<p, i>> /\ pc[1] = p /\ pc[2] = i /\ Here = Script[p][i]
    BY ScriptPlace DEF DoTask, At, Base, TypeOK
  <1>2. PICK i \in 1..Len(Script[p]) :
            pc = <<p, i>> /\ pc[1] = p /\ pc[2] = i /\ Here = Script[p][i]
    BY <1>1
  <1> DEFINE step == Script[p][i]
  <1>3. /\ step.do = "task" /\ Running /\ (Onward \/ Finish)
        /\ state' = state
        /\ specs' = specs /\ artifacts' = artifacts /\ stale' = stale
        /\ links' = links /\ decided' = decided /\ reviews' = reviews
        /\ published' = published /\ crashes' = crashes
    BY <1>2 DEF DoTask, At, tables
  <1>4. state # "NONE" /\ state # "BLOCKED" /\ state # "POSTMORTEM"
    BY <1>2, <1>3, ScriptHold DEF Base, Progress
  <1>5. Progress'
    BY <1>2, <1>3, <1>4, ScriptProgress
  <1>6. Versions'
    BY <1>2, <1>3, <1>4, ScriptVersions DEF Base, Versions
  <1>7. TypeOK' /\ Marks'
    BY <1>2, <1>3, ScriptTypes DEF Base, TypeOK
  <1>8. StateBacked'
    BY <1>3, BackedGrows DEF Base
  <1>9. QED BY <1>5, <1>6, <1>7, <1>8 DEF Base

\* The specification of run_vertical_slice.
LEMMA WriteSpecBase ==
  ASSUME Base, WriteSpec
  PROVE  Base'
  <1>1. PICK p \in {"slice", "complete"} : \E i \in 1..Len(Script[p]) :
            pc = <<p, i>> /\ pc[1] = p /\ pc[2] = i /\ Here = Script[p][i]
    BY ScriptPlace DEF WriteSpec, At, Base, TypeOK
  <1>2. PICK i \in 1..Len(Script[p]) :
            pc = <<p, i>> /\ pc[1] = p /\ pc[2] = i /\ Here = Script[p][i]
    BY <1>1
  <1> DEFINE step == Script[p][i]
  <1>3. /\ step.do = "spec" /\ Running /\ (Onward \/ Finish)
        /\ state' = state
        /\ specs' = Append(specs, published)
        /\ artifacts' = artifacts /\ stale' = stale
        /\ links' = links /\ decided' = decided /\ reviews' = reviews
        /\ published' = published /\ crashes' = crashes
    BY <1>2 DEF WriteSpec, At
  <1>4. state # "NONE" /\ state # "BLOCKED" /\ state # "POSTMORTEM"
    BY <1>2, <1>3, ScriptHold DEF Base, Progress
  <1>5. p = "slice" /\ i = 5
    BY <1>3, ScriptNames
  <1>6. Len(specs) = 0
    BY <1>2, <1>5 DEF Base, Versions
  <1>7. /\ specs' \in Seq(Rules) /\ Len(specs') = Len(specs) + 1
        /\ Len(specs') <= MaxVersion /\ specs' # <<>>
    <2>1. specs \in Seq(Rules) /\ published \in Rules
      BY DEF Base, TypeOK
    <2>2. QED BY <1>3, <1>6, <2>1, PhasesAssumption
  <1>8. Progress'
    BY <1>2, <1>3, <1>4, <1>7, ScriptProgress
  <1>9. Versions'
    <2>1. \A a \in artifacts' : a[2] <= Len(specs')
      <3>1. \A a \in artifacts : a[2] \in Nat /\ a[2] <= Len(specs)
        BY DEF Base, TypeOK, Versions, Artifact
      <3>2. QED BY <1>3, <1>6, <1>7, <3>1
    <2>2. QED BY <1>2, <1>3, <1>4, <1>7, <2>1, ScriptVersions
             DEF Base, Versions
  <1>10. TypeOK' /\ Marks'
    BY <1>2, <1>3, <1>7, ScriptTypes DEF Base, TypeOK
  <1>11. StateBacked'
    BY <1>3, <1>7, BackedGrows DEF Base
  <1>12. QED BY <1>8, <1>9, <1>10, <1>11 DEF Base

\* The decision of run_vertical_slice.
LEMMA WriteDecisionBase ==
  ASSUME Base, WriteDecision
  PROVE  Base'
  <1>1. PICK p \in {"slice", "complete"} : \E i \in 1..Len(Script[p]) :
            pc = <<p, i>> /\ pc[1] = p /\ pc[2] = i /\ Here = Script[p][i]
    BY ScriptPlace DEF WriteDecision, At, Base, TypeOK
  <1>2. PICK i \in 1..Len(Script[p]) :
            pc = <<p, i>> /\ pc[1] = p /\ pc[2] = i /\ Here = Script[p][i]
    BY <1>1
  <1> DEFINE step == Script[p][i]
  <1>3. /\ step.do = "decision" /\ Running /\ (Onward \/ Finish)
        /\ state' = state /\ decided' = TRUE
        /\ specs' = specs /\ artifacts' = artifacts /\ stale' = stale
        /\ links' = links /\ reviews' = reviews
        /\ published' = published /\ crashes' = crashes
    BY <1>2 DEF WriteDecision, At
  <1>4. state # "NONE" /\ state # "BLOCKED" /\ state # "POSTMORTEM"
    BY <1>2, <1>3, ScriptHold DEF Base, Progress
  <1>5. Progress'
    BY <1>2, <1>3, <1>4, ScriptProgress
  <1>6. Versions'
    BY <1>2, <1>3, <1>4, ScriptVersions DEF Base, Versions
  <1>7. TypeOK' /\ Marks'
    BY <1>2, <1>3, ScriptTypes DEF Base, TypeOK
  <1>8. StateBacked'
    BY <1>3, BackedGrows DEF Base
  <1>9. QED BY <1>5, <1>6, <1>7, <1>8 DEF Base

\* The gates, which let the script pass or block the mission.
LEMMA PassGateBase ==
  ASSUME Base, PassGate
  PROVE  Base'
  <1>1. PICK p \in {"slice", "complete"} : \E i \in 1..Len(Script[p]) :
            pc = <<p, i>> /\ pc[1] = p /\ pc[2] = i /\ Here = Script[p][i]
    BY ScriptPlace DEF PassGate, At, Base, TypeOK
  <1>2. PICK i \in 1..Len(Script[p]) :
            pc = <<p, i>> /\ pc[1] = p /\ pc[2] = i /\ Here = Script[p][i]
    BY <1>1
  <1> DEFINE step == Script[p][i]
  <1>3. /\ step.do = "gate" /\ Running /\ (Onward \/ Finish)
        /\ state' = state \/ (state' = "BLOCKED" /\ Finish)
        /\ specs' = specs /\ artifacts' = artifacts /\ stale' = stale
        /\ links' = links /\ decided' = decided /\ reviews' = reviews
        /\ published' = published /\ crashes' = crashes
    BY <1>2 DEF PassGate, At
  <1>4. state # "NONE" /\ state # "BLOCKED" /\ state # "POSTMORTEM"
    BY <1>2, <1>3, ScriptHold DEF Base, Progress
  <1>5. Progress'
    <2>1. state' # "POSTMORTEM" /\ (pc' # Idle => state' # "BLOCKED")
      BY <1>3, <1>4 DEF Finish
    <2>2. QED BY <1>2, <1>3, <2>1, ScriptProgress
  <1>6. Versions'
    BY <1>2, <1>3, <1>4, ScriptVersions DEF Base, Versions
  <1>7. TypeOK' /\ Marks'
    BY <1>2, <1>3, ScriptTypes DEF Base, TypeOK, MissionState, SideStates
  <1>8. StateBacked'
    BY <1>3, BackedGrows DEF Base
  <1>9. QED BY <1>5, <1>6, <1>7, <1>8 DEF Base

\* save_artifact: the artifact carries the version of the rules in hand.
LEMMA SaveArtifactBase ==
  ASSUME Base, SaveArtifact
  PROVE  Base'
  <1>1. PICK p \in {"slice", "complete"} : \E i \in 1..Len(Script[p]) :
            pc = <<p, i>> /\ pc[1] = p /\ pc[2] = i /\ Here = Script[p][i]
    BY ScriptPlace DEF SaveArtifact, At, Base, TypeOK
  <1>2. PICK i \in 1..Len(Script[p]) :
            pc = <<p, i>> /\ pc[1] = p /\ pc[2] = i /\ Here = Script[p][i]
    BY <1>1
  <1> DEFINE step == Script[p][i]
  <1>3. /\ step.do = "save" /\ Running /\ (Onward \/ Finish)
        /\ artifacts' = artifacts \cup {<<step.kind, hold.version>>}
        /\ state' = state /\ specs' = specs /\ stale' = stale
        /\ links' = links /\ decided' = decided /\ reviews' = reviews
        /\ published' = published /\ crashes' = crashes
    BY <1>2 DEF SaveArtifact, At
  <1>4. state # "NONE" /\ state # "BLOCKED" /\ state # "POSTMORTEM"
    BY <1>2, <1>3, ScriptHold DEF Base, Progress
  <1>5. hold.version = Len(specs) /\ hold.version \in 1..MaxVersion
    BY <1>2, <1>3, SaveVersion
  <1>6. <<step.kind, hold.version>> \in Artifact
    BY <1>3, <1>5, ScriptNames DEF Artifact
  <1>7. Progress'
    <2>1. \E a \in artifacts' : a[1] = step.kind
      <3>1. <<step.kind, hold.version>> \in artifacts'
        BY <1>3
      <3> HIDE DEF step
      <3>2. QED BY <3>1
    <2>2. QED BY <1>2, <1>3, <1>4, <2>1, ScriptProgress
  <1>8. Versions'
    <2>1. \A a \in artifacts' : a[2] <= Len(specs')
      BY <1>3, <1>5 DEF Base, Versions
    <2>2. QED BY <1>2, <1>3, <1>4, <2>1, ScriptVersions DEF Base, Versions
  <1>9. TypeOK' /\ Marks'
    BY <1>2, <1>3, <1>6, ScriptTypes DEF Base, TypeOK
  <1>10. StateBacked'
    BY <1>3, BackedGrows DEF Base
  <1>11. QED BY <1>7, <1>8, <1>9, <1>10 DEF Base

\* add_artifact_dependency: the newest of each kind, both saved.
LEMMA LinkArtifactsBase ==
  ASSUME Base, LinkArtifacts
  PROVE  Base'
  <1>1. PICK p \in {"slice", "complete"} : \E i \in 1..Len(Script[p]) :
            pc = <<p, i>> /\ pc[1] = p /\ pc[2] = i /\ Here = Script[p][i]
    BY ScriptPlace DEF LinkArtifacts, At, Base, TypeOK
  <1>2. PICK i \in 1..Len(Script[p]) :
            pc = <<p, i>> /\ pc[1] = p /\ pc[2] = i /\ Here = Script[p][i]
    BY <1>1
  <1> DEFINE step == Script[p][i]
  <1>3. /\ step.do = "link" /\ Running /\ (Onward \/ Finish)
        /\ links' = links \cup {<<Newest(kind), Newest(step.kind)>> :
                                   kind \in step.parents}
        /\ state' = state /\ specs' = specs /\ stale' = stale
        /\ artifacts' = artifacts /\ decided' = decided
        /\ reviews' = reviews
        /\ published' = published /\ crashes' = crashes
    BY <1>2 DEF LinkArtifacts, At
  <1>4. /\ state # "NONE" /\ state # "BLOCKED" /\ state # "POSTMORTEM"
        /\ Behind(p, i) /\ (p = "complete" => Planned)
    BY <1>2, <1>3, ScriptHold DEF Base, Progress
  <1>5. /\ Newest(step.kind) \in artifacts
        /\ Newest(step.kind)[1] # "rules_snapshot"
        /\ \A kind \in step.parents : Newest(kind) \in artifacts
    <2>1. /\ Saved(step.kind) # {}
          /\ \A kind \in step.parents : Saved(kind) # {}
      BY <1>3, <1>4, LinkedSaved
    <2>2. step.kind # "rules_snapshot"
      BY <1>3, ScriptNames
    <2>3. QED BY <2>1, <2>2, NewestSaved DEF Base
  <1> HIDE DEF step
  <1>6. Progress'
    BY <1>2, <1>3, <1>4, ScriptProgress DEF step
  <1>7. Versions'
    <2>1. \A l \in links' :
             l[2][1] = "rules_snapshot" => l[1][1] = "rules_snapshot"
      BY <1>3, <1>5 DEF Base, Versions
    <2>2. QED BY <1>2, <1>3, <1>4, <2>1, ScriptVersions
             DEF Base, Versions, step
  <1>8. TypeOK' /\ Marks'
    <2>1. links' \subseteq artifacts' \X artifacts'
      BY <1>3, <1>5 DEF Base, TypeOK
    <2>2. QED BY <1>2, <1>3, <2>1, ScriptTypes DEF Base, TypeOK
  <1>9. StateBacked'
    BY <1>3, BackedGrows DEF Base
  <1>10. QED BY <1>6, <1>7, <1>8, <1>9 DEF Base

\* Outside a script there is nothing to be behind with.
LEMMA ProgressQuiet ==
  ASSUME state' # "POSTMORTEM", pc'[1] \notin {"slice", "complete"}
  PROVE  Progress'
  BY DEF Progress, Running

\* The steps of a refresh are labels, and what the command holds is typed.
LEMMA CommandTypes ==
  ASSUME TypeOK
  PROVE  /\ \A label \in RefreshLabels : <<label, 0>> \in Labels
         /\ Idle \in Labels
         /\ <<"slice", 1>> \in Labels /\ <<"complete", 1>> \in Labels
         /\ NoHold \in Hold
         /\ Len(specs) \in Nat /\ Len(specs) \in 0..MaxVersion
         /\ \A v \in 0..MaxVersion :
               LET h == [NoHold EXCEPT !.version = v]
               IN  h \in Hold /\ h.found = {} /\ h.marks = {}
                   /\ h.version = v
  <1>1. /\ \A label \in RefreshLabels : <<label, 0>> \in Labels
        /\ Idle \in Labels
    BY DEF Labels
  <1>2. <<"slice", 1>> \in Labels /\ <<"complete", 1>> \in Labels
    BY ScriptLengths DEF Labels
  <1>3. NoHold \in Hold
    BY PhasesAssumption DEF NoHold, Hold
  <1>4. Len(specs) \in Nat /\ Len(specs) \in 0..MaxVersion
    BY PhasesAssumption DEF TypeOK
  <1>5. ASSUME NEW v \in 0..MaxVersion
        PROVE  LET h == [NoHold EXCEPT !.version = v]
               IN  h \in Hold /\ h.found = {} /\ h.marks = {}
                   /\ h.version = v
    BY <1>3 DEF Hold, NoHold
  <1>6. QED BY <1>1, <1>2, <1>3, <1>4, <1>5

\* What a mission in PLANNING has.
LEMMA PlanningBacked ==
  ASSUME StateBacked, state = "PLANNING"
  PROVE  /\ specs # <<>> /\ decided
         /\ Saved("rules_snapshot") # {} /\ Saved("opportunity_map") # {}
         /\ Saved("candidate_ideas") # {}
         /\ Saved("deep_candidate_analysis") # {}
  <1>1. /\ Canonical[8] = "PLANNING" /\ Canonical[4] = "RULES_LOCK"
        /\ Canonical[7] = "STRATEGY_SELECTION"
    BY DEF Canonical
  <1>2. /\ \A j \in 1..8 : Canonical[j] \in DOMAIN Needs =>
              \A kind \in Needs[Canonical[j]] : Saved(kind) # {}
        /\ 8 >= 4 => specs # <<>>
        /\ 8 >= 8 => decided
    BY <1>1, CanonicalNumbers DEF StateBacked
  <1>3. /\ {"RULES_LOCK", "STRATEGY_SELECTION", "PLANNING"}
              \subseteq DOMAIN Needs
        /\ Needs["RULES_LOCK"] = {"rules_snapshot"}
        /\ Needs["STRATEGY_SELECTION"] =
              {"opportunity_map", "candidate_ideas"}
        /\ Needs["PLANNING"] = {"deep_candidate_analysis"}
    BY DEF Needs
  <1>4. ASSUME NEW j \in {4, 7, 8}
        PROVE  /\ Canonical[j] \in DOMAIN Needs
               /\ \A kind \in Needs[Canonical[j]] : Saved(kind) # {}
    <2>1. Canonical[j] \in DOMAIN Needs
      BY <1>1, <1>3
    <2>2. j \in 1..8
      OBVIOUS
    <2>3. QED BY <1>2, <2>1, <2>2
  <1>5. /\ \A kind \in Needs["RULES_LOCK"] : Saved(kind) # {}
        /\ \A kind \in Needs["STRATEGY_SELECTION"] : Saved(kind) # {}
        /\ \A kind \in Needs["PLANNING"] : Saved(kind) # {}
    BY <1>1, <1>4
  <1>6. /\ Saved("rules_snapshot") # {} /\ Saved("opportunity_map") # {}
        /\ Saved("candidate_ideas") # {}
        /\ Saved("deep_candidate_analysis") # {}
    BY <1>3, <1>5
  <1>7. QED BY <1>2, <1>6

\* The dependency rows are finitely many.
LEMMA LinksFinite ==
  ASSUME TypeOK
  PROVE  IsFiniteSet(links)
  <1>0. IsFiniteSet(1..16)
    <2>1. 1 \in Int /\ 16 \in Int
      OBVIOUS
    <2>2. QED BY <2>1, FS_Interval
  <1> DEFINE list == <<"prd", "architecture", "implementation_plan",
                       "acceptance_plan", "risk_register",
                       "strategy_review", "rules_snapshot",
                       "opportunity_map", "candidate_ideas",
                       "deep_candidate_analysis", "demo_project",
                       "demo_validation", "red_team", "improvement_plan",
                       "final_checklist", "compliance_report">>
  <1> DEFINE f == [i \in 1..16 |-> list[i]]
  <1> DEFINE names == {f[i] : i \in 1..16}
  <1>1. IsFiniteSet(names)
    <2>1. f \in Surjection(1..16, names)
      BY DEF Surjection
    <2>2. QED BY <1>0, <2>1, FS_Surjection
  <1>2. Kinds \subseteq names
    <2>1. \A i \in 1..16 : list[i] \in names
      OBVIOUS
    <2>2. /\ list[1] = "prd" /\ list[2] = "architecture"
          /\ list[3] = "implementation_plan" /\ list[4] = "acceptance_plan"
          /\ list[5] = "risk_register" /\ list[6] = "strategy_review"
          /\ list[7] = "rules_snapshot" /\ list[8] = "opportunity_map"
          /\ list[9] = "candidate_ideas"
          /\ list[10] = "deep_candidate_analysis"
          /\ list[11] = "demo_project" /\ list[12] = "demo_validation"
          /\ list[13] = "red_team" /\ list[14] = "improvement_plan"
          /\ list[15] = "final_checklist"
          /\ list[16] = "compliance_report"
      OBVIOUS
    <2> HIDE DEF f, list, names
    <2>3. PlanKinds \subseteq names
      BY <2>1, <2>2 DEF PlanKinds
    <2>4. {"rules_snapshot", "opportunity_map", "candidate_ideas",
           "deep_candidate_analysis", "demo_project", "demo_validation",
           "red_team", "improvement_plan", "final_checklist",
           "compliance_report"} \subseteq names
      BY <2>1, <2>2
    <2>5. QED BY <2>3, <2>4 DEF Kinds
  <1>3. IsFiniteSet(Kinds)
    BY <1>1, <1>2, FS_Subset
  <1>4. IsFiniteSet(1..MaxVersion)
    BY PhasesAssumption, FS_Interval
  <1>5. IsFiniteSet(Artifact)
    BY <1>3, <1>4, FS_Product DEF Artifact
  <1>6. IsFiniteSet(Artifact \X Artifact)
    BY <1>5, FS_Product
  <1>7. links \subseteq Artifact \X Artifact
    BY DEF TypeOK
  <1>8. QED BY <1>6, <1>7, FS_Subset

\* create_mission.
LEMMA StartSliceBase ==
  ASSUME Base, StartSlice
  PROVE  Base'
  <1>1. /\ pc = Idle /\ state = "NONE" /\ state' = "CREATED"
        /\ pc' = <<"slice", 1>> /\ hold' = [NoHold EXCEPT !.version = 1]
        /\ pc'[1] = "slice" /\ pc'[2] = 1
        /\ specs' = specs /\ artifacts' = artifacts /\ stale' = stale
        /\ links' = links /\ decided' = decided /\ reviews' = reviews
        /\ published' = published /\ crashes' = crashes
    BY DEF StartSlice
  <1>2. specs = <<>> /\ artifacts = {}
    BY <1>1 DEF Base, Versions
  <1>3. Canonical[1] = "CREATED" /\ 1 \in DOMAIN Canonical
    BY DEF Canonical
  <1>4. /\ hold' \in Hold /\ hold'.found = {} /\ hold'.marks = {}
        /\ hold'.version = 1
    <2>1. 1 \in 0..MaxVersion
      BY PhasesAssumption
    <2>2. QED BY <1>1, <2>1, CommandTypes DEF Base
  <1>5. TypeOK'
    <2>1. pc' \in Labels
      BY <1>1, CommandTypes DEF Base
    <2>2. state' \in MissionState
      BY <1>1, <1>3 DEF MissionState, CanonicalStates
    <2>3. QED BY <1>1, <1>4, <2>1, <2>2 DEF Base, TypeOK
  <1>6. Progress'
    <2>1. Behind("slice", 1)'
      BY DEF Behind
    <2>2. QED BY <1>1, <2>1 DEF Progress, Running
  <1>7. Versions'
    <2>1. Len(specs') = 0
      BY <1>1, <1>2
    <2>2. links' = {}
      BY <1>1, <1>2 DEF Base, TypeOK
    <2>3. QED BY <1>1, <1>2, <1>4, <2>1, <2>2 DEF Versions
  <1>8. Marks'
    BY <1>1, <1>4, MarksQuiet
  <1>9. StateBacked'
    BY <1>1, <1>3, MoveBacked
  <1>10. QED BY <1>5, <1>6, <1>7, <1>8, <1>9 DEF Base

\* complete_v0 starts, or its strategy gate blocks the mission.
LEMMA StartCompleteBase ==
  ASSUME Base, StartComplete
  PROVE  Base'
  <1>1. /\ pc = Idle /\ state = "PLANNING" /\ MayComplete /\ pc[1] = "idle"
        /\ specs' = specs /\ artifacts' = artifacts /\ stale' = stale
        /\ links' = links /\ decided' = decided /\ reviews' = reviews
        /\ published' = published /\ crashes' = crashes
    BY DEF StartComplete, Idle
  <1>2. StateBacked'
    BY <1>1, BackedGrows DEF Base, StartComplete
  <1>3. CASE pc' = <<"complete", 1>> /\ state' = state
             /\ hold' = [NoHold EXCEPT !.version = Len(specs)]
    <2>1. /\ hold' \in Hold /\ hold'.found = {} /\ hold'.marks = {}
          /\ hold'.version = Len(specs) /\ pc' \in Labels
          /\ pc'[1] = "complete" /\ pc'[2] = 1
      BY <1>3, CommandTypes DEF Base
    <2>2. TypeOK'
      BY <1>1, <1>3, <2>1 DEF Base, TypeOK
    <2>3. Planned
      BY <1>1, PlanningBacked DEF Base, Planned, MayComplete
    <2>4. Progress'
      <3>1. Behind("complete", 1)'
        BY DEF Behind
      <3>2. Planned'
        BY <1>1, <2>3 DEF Planned, Saved
      <3>3. QED BY <1>1, <1>3, <2>1, <3>1, <3>2 DEF Progress, Running
    <2>5. Versions'
      BY <1>1, <1>3, <2>1, <2>3 DEF Base, Versions, Planned
    <2>6. Marks'
      BY <2>1, MarksQuiet
    <2>7. QED BY <1>2, <2>2, <2>4, <2>5, <2>6 DEF Base
  <1>4. CASE state' = "BLOCKED" /\ pc' = pc /\ hold' = hold
    <2>1. TypeOK'
      BY <1>1, <1>4 DEF Base, TypeOK, MissionState, SideStates
    <2>2. Progress'
      BY <1>1, <1>4, ProgressQuiet
    <2>3. Versions'
      BY <1>1, <1>4 DEF Base, Versions
    <2>4. Marks'
      BY <1>1, <1>4 DEF Base, Marks, Marking
    <2>5. QED BY <1>2, <2>1, <2>2, <2>3, <2>4 DEF Base
  <1>5. QED BY <1>3, <1>4 DEF StartComplete

\* A refresh step that leaves the mission row alone.
LEMMA RefreshCommon ==
  ASSUME Base, state' = state, artifacts \subseteq artifacts',
         decided' = decided, specs # <<>> => specs' # <<>>,
         pc'[1] \notin {"slice", "complete"}
  PROVE  Progress' /\ StateBacked'
  <1>1. Progress'
    BY ProgressQuiet DEF Base, Progress
  <1>2. StateBacked'
    BY BackedGrows DEF Base
  <1>3. QED BY <1>1, <1>2

\* A command that ends, whatever it has written.
LEMMA FinishBase ==
  ASSUME Base, Finish, UNCHANGED <<tables, published>>,
         crashes' \in 0..MaxCrashes
  PROVE  Base'
  <1>1. /\ pc' = Idle /\ hold' = NoHold /\ pc'[1] = "idle"
        /\ hold'.found = {} /\ hold'.marks = {}
        /\ state' = state
        /\ specs' = specs /\ artifacts' = artifacts /\ stale' = stale
        /\ links' = links /\ decided' = decided /\ reviews' = reviews
        /\ published' = published
    BY DEF Finish, tables, Idle, NoHold
  <1>2. TypeOK'
    <2>1. pc' \in Labels /\ hold' \in Hold
      BY <1>1, CommandTypes DEF Base
    <2>2. QED BY <1>1, <2>1 DEF Base, TypeOK
  <1>3. Progress' /\ StateBacked'
    BY <1>1, RefreshCommon
  <1>4. Versions'
    BY <1>1 DEF Base, Versions
  <1>5. Marks'
    BY <1>1, MarksQuiet
  <1>6. QED BY <1>2, <1>3, <1>4, <1>5 DEF Base

\* refresh_official_rules begins.
LEMMA RefreshBase ==
  ASSUME Base, Refresh
  PROVE  Base'
  <1>1. /\ pc = Idle /\ specs # <<>> /\ pc' = <<"fetch", 0>>
        /\ hold' = [NoHold EXCEPT !.version = Len(specs)]
        /\ pc'[1] = "fetch" /\ state' = state
        /\ specs' = specs /\ artifacts' = artifacts /\ stale' = stale
        /\ links' = links /\ decided' = decided /\ reviews' = reviews
        /\ published' = published /\ crashes' = crashes
    BY DEF Refresh, tables
  <1>2. /\ hold' \in Hold /\ hold'.found = {} /\ hold'.marks = {}
        /\ hold'.version = Len(specs)
    BY <1>1, CommandTypes DEF Base
  <1>3. TypeOK'
    <2>1. pc' \in Labels
      BY <1>1, CommandTypes DEF Base, RefreshLabels
    <2>2. QED BY <1>1, <1>2, <2>1 DEF Base, TypeOK
  <1>4. Progress' /\ StateBacked'
    BY <1>1, RefreshCommon
  <1>5. Versions'
    BY <1>1, <1>2 DEF Base, Versions
  <1>6. Marks'
    BY <1>1, <1>2, MarksQuiet
  <1>7. QED BY <1>3, <1>4, <1>5, <1>6 DEF Base

\* The fetch: it raises, finds nothing new, or has new rules in hand.
LEMMA FetchRulesBase ==
  ASSUME Base, FetchRules
  PROVE  Base'
  <1>1. /\ pc = <<"fetch", 0>> /\ pc[1] = "fetch" /\ state' = state
        /\ specs' = specs /\ artifacts' = artifacts /\ stale' = stale
        /\ links' = links /\ decided' = decided /\ reviews' = reviews
        /\ published' = published /\ crashes' = crashes
    BY DEF FetchRules, tables
  <1>2. CASE Finish
    <2>1. crashes' \in 0..MaxCrashes
      BY <1>1 DEF Base, TypeOK
    <2>2. QED BY <1>2, <2>1, FinishBase DEF FetchRules
  <1>3. CASE /\ hold.version < MaxVersion
             /\ hold' = [hold EXCEPT !.rules = published]
             /\ pc' = <<"save_spec", 0>>
    <2>1. hold \in Hold /\ published \in Rules
      BY DEF Base, TypeOK
    <2>2. /\ hold' \in Hold /\ hold'.found = hold.found
          /\ hold'.marks = hold.marks /\ hold'.version = hold.version
          /\ hold'.rules = published
      BY <1>3, <2>1 DEF Hold
    <2>3. hold.found = {} /\ hold.marks = {}
      BY <1>1 DEF Base, Marks, Marking
    <2>4. TypeOK'
      <3>1. pc' \in Labels
        BY <1>3, CommandTypes DEF Base, RefreshLabels
      <3>2. QED BY <1>1, <2>2, <3>1 DEF Base, TypeOK
    <2>5. Progress' /\ StateBacked'
      BY <1>1, <1>3, RefreshCommon
    <2>6. Versions'
      <3>1. state # "NONE" /\ hold.version = Len(specs) /\ specs # <<>>
        BY <1>1 DEF Base, Versions, Idle
      <3>2. QED BY <1>1, <1>3, <2>1, <2>2, <3>1 DEF Base, Versions
    <2>7. Marks'
      BY <1>3, <2>2, <2>3, MarksQuiet
    <2>8. QED BY <2>4, <2>5, <2>6, <2>7 DEF Base
  <1>4. QED BY <1>2, <1>3 DEF FetchRules

\* The next version of the specification.
LEMMA SaveNewSpecBase ==
  ASSUME Base, SaveNewSpec
  PROVE  Base'
  <1>1. /\ pc = <<"save_spec", 0>> /\ pc[1] = "save_spec" /\ state' = state
        /\ specs' = Append(specs, hold.rules)
        /\ hold' = [hold EXCEPT !.version = @ + 1]
        /\ pc' = <<"snapshot", 0>> /\ pc'[1] = "snapshot"
        /\ artifacts' = artifacts /\ stale' = stale
        /\ links' = links /\ decided' = decided /\ reviews' = reviews
        /\ published' = published /\ crashes' = crashes
    BY DEF SaveNewSpec
  <1>2. /\ state # "NONE" /\ hold.version = Len(specs) /\ specs # <<>>
        /\ hold.version < MaxVersion /\ hold.rules \in Rules
    BY <1>1 DEF Base, Versions, Idle
  <1>3. /\ specs' \in Seq(Rules) /\ Len(specs') = Len(specs) + 1
        /\ specs' # <<>> /\ Len(specs) \in Nat
    <2>1. specs \in Seq(Rules)
      BY DEF Base, TypeOK
    <2>2. QED BY <1>1, <1>2, <2>1
  <1>4. Len(specs') <= MaxVersion /\ MaxVersion \in Nat
    BY <1>2, <1>3, PhasesAssumption
  <1>5. hold.found = {} /\ hold.marks = {} /\ hold \in Hold
    BY <1>1 DEF Base, Marks, Marking, TypeOK
  <1>6. /\ hold' \in Hold /\ hold'.found = {} /\ hold'.marks = {}
        /\ hold'.version = Len(specs')
    <2>1. hold.version + 1 \in 0..MaxVersion
      BY <1>2, <1>3, <1>4
    <2>2. QED BY <1>1, <1>2, <1>3, <1>5, <2>1 DEF Hold
  <1>7. TypeOK'
    <2>1. pc' \in Labels
      BY <1>1, CommandTypes DEF Base, RefreshLabels
    <2>2. QED BY <1>1, <1>3, <1>4, <1>6, <2>1 DEF Base, TypeOK
  <1>8. Progress' /\ StateBacked'
    BY <1>1, <1>3, RefreshCommon
  <1>9. Versions'
    <2>1. \A a \in artifacts' : a[2] <= Len(specs')
      <3>1. \A a \in artifacts : a[2] \in Nat /\ a[2] <= Len(specs)
        BY DEF Base, TypeOK, Versions, Artifact
      <3>2. QED BY <1>1, <1>3, <3>1
    <2>2. QED BY <1>1, <1>2, <1>3, <1>6, <2>1 DEF Base, Versions
  <1>10. Marks'
    BY <1>1, <1>6, MarksQuiet
  <1>11. QED BY <1>7, <1>8, <1>9, <1>10 DEF Base

\* What the refresh finds: the newest snapshot that is not stale, and below
\* it everything that the links lead to.
Current == Saved("rules_snapshot") \ stale
LastVersion == Max({a[2] : a \in Current})
Below == Descendants(<<"rules_snapshot", LastVersion>>)
LEMMA Dependents ==
  ASSUME TypeOK, Current # {}, NEW old, old = LastVersion,
         NEW found, found = Below
  PROVE  /\ old \in 1..MaxVersion
         /\ <<"rules_snapshot", old>> \in artifacts \ stale
         /\ \A a \in Current : a[2] <= old
         /\ found \subseteq artifacts
         /\ \A l \in links :
               l[1] = <<"rules_snapshot", old>> \/ l[1] \in found
                  => l[2] \in found
         /\ \A X : /\ \A l \in links : l[1] = <<"rules_snapshot", old>>
                                          => l[2] \in X
                   /\ \A l \in links : l[1] \in X => l[2] \in X
                   => found \subseteq X
  <1>1. \A a \in Current : /\ a \in artifacts \ stale
                           /\ a = <<"rules_snapshot", a[2]>>
                           /\ a[2] \in 1..MaxVersion
    BY DEF TypeOK, Saved, Artifact, Current
  <1>2. /\ {a[2] : a \in Current} \in SUBSET (1..MaxVersion)
        /\ {a[2] : a \in Current} # {}
    BY <1>1
  <1>3. /\ old \in {a[2] : a \in Current}
        /\ \A v \in {a[2] : a \in Current} : v <= old
    BY <1>2, LargestVersion DEF LastVersion
  <1>4. PICK b \in Current : b[2] = old
    BY <1>3
  <1> DEFINE top == <<"rules_snapshot", old>>
  <1>5. IsFiniteSet(links)
    BY LinksFinite
  <1>6. /\ Children({top}) \subseteq found
        /\ Children(found) \subseteq found
        /\ \A X : Children({top}) \subseteq X /\ Children(X) \subseteq X
                      => found \subseteq X
    BY <1>5, DescendantsFacts DEF Below
  <1> HIDE DEF top
  <1>7. \A l \in links : l[1] = top \/ l[1] \in found => l[2] \in found
    BY <1>6 DEF Children
  <1>8. ASSUME NEW X, \A l \in links : l[1] = top => l[2] \in X,
               \A l \in links : l[1] \in X => l[2] \in X
        PROVE  found \subseteq X
    <2>1. Children({top}) \subseteq X /\ Children(X) \subseteq X
      BY <1>8 DEF Children
    <2>2. QED BY <1>6, <2>1
  <1>9. found \subseteq artifacts
    <2>1. \A l \in links : l[2] \in artifacts
      BY DEF TypeOK
    <2>2. QED BY <1>8, <2>1
  <1>10. top \in artifacts \ stale /\ old \in 1..MaxVersion
    BY <1>1, <1>4 DEF top
  <1>11. \A a \in Current : a[2] <= old
    BY <1>3
  <1>12. QED BY <1>7, <1>8, <1>9, <1>10, <1>11 DEF top

\* artifact_descendants of the last snapshot, or the refresh raises.
LEMMA FindDependentsBase ==
  ASSUME Base, FindDependents
  PROVE  Base'
  <1> DEFINE old == LastVersion
             found == Below
  <1>1. /\ pc = <<"snapshot", 0>> /\ pc[1] = "snapshot" /\ state' = state
        /\ specs' = specs /\ artifacts' = artifacts /\ stale' = stale
        /\ links' = links /\ decided' = decided /\ reviews' = reviews
        /\ published' = published /\ crashes' = crashes
    BY DEF FindDependents, tables
  <1>2. CASE Current = {}
    <2>1. crashes' \in 0..MaxCrashes
      BY <1>1 DEF Base, TypeOK
    <2>2. QED BY <1>2, <2>1, FinishBase DEF FindDependents, Current
  <1>3. CASE Current # {}
    <2>1. /\ hold' = [hold EXCEPT !.old = old, !.found = found,
                                  !.marks = found \ stale]
          /\ pc' = <<IF found \subseteq stale THEN "save_rules"
                     ELSE "mark", 0>>
      BY <1>3 DEF FindDependents, Current, LastVersion, Below
    <2>2. /\ old \in 1..MaxVersion
          /\ <<"rules_snapshot", old>> \in artifacts \ stale
          /\ found \subseteq artifacts
      BY <1>3, Dependents DEF Base
    <2> HIDE DEF old, found
    <2>3. hold \in Hold /\ found \in SUBSET Artifact
      BY <2>2 DEF Base, TypeOK
    <2>4. /\ hold' \in Hold /\ hold'.old = old /\ hold'.found = found
          /\ hold'.marks = found \ stale /\ hold'.version = hold.version
      <3>1. old \in 0..MaxVersion /\ found \ stale \in SUBSET Artifact
        BY <2>2, <2>3
      <3>2. QED BY <2>1, <2>3, <3>1 DEF Hold
    <2>5. \/ pc' = <<"save_rules", 0>> /\ found \subseteq stale
          \/ pc' = <<"mark", 0>> /\ found \ stale # {}
      BY <2>1
    <2>6. /\ pc' \in Labels
          /\ pc'[1] \in {"save_rules", "mark"}
          /\ pc'[1] = "mark" => found \ stale # {}
          /\ pc'[1] = "save_rules" => found \subseteq stale
      BY <2>5, CommandTypes DEF Base, RefreshLabels
    <2>7. TypeOK'
      BY <1>1, <2>4, <2>6 DEF Base, TypeOK
    <2>8. Progress' /\ StateBacked'
      BY <1>1, <2>6, RefreshCommon
    <2>9. Versions'
      <3>1. state # "NONE" /\ hold.version = Len(specs) /\ specs # <<>>
        BY <1>1 DEF Base, Versions, Idle
      <3>2. QED BY <1>1, <2>4, <2>6, <3>1 DEF Base, Versions
    <2>10. Marks'
      BY <1>1, <2>2, <2>4, <2>6 DEF Marks, Marking
    <2>11. QED BY <2>7, <2>8, <2>9, <2>10 DEF Base
  <1>4. QED BY <1>2, <1>3

\* The artifact that is marked or queued next is one of those in hand.
LEMMA NextMarkIn ==
  ASSUME hold.marks # {}
  PROVE  NextMark \in hold.marks
  BY DEF NextMark

\* One artifact is marked stale.
LEMMA MarkStaleBase ==
  ASSUME Base, MarkStale
  PROVE  Base'
  <1>1. /\ pc = <<"mark", 0>> /\ pc[1] = "mark" /\ state' = state
        /\ stale' = stale \cup {NextMark}
        /\ hold' = [hold EXCEPT !.marks = @ \ {NextMark}]
        /\ pc' = <<IF hold.marks = {NextMark} THEN "save_rules"
                   ELSE "mark", 0>>
        /\ specs' = specs /\ artifacts' = artifacts
        /\ links' = links /\ decided' = decided /\ reviews' = reviews
        /\ published' = published /\ crashes' = crashes
    BY DEF MarkStale
  <1>2. /\ hold.marks # {} /\ hold.marks \subseteq hold.found
        /\ hold.found \subseteq artifacts
        /\ hold.found \subseteq stale \cup hold.marks
        /\ <<"rules_snapshot", hold.old>> \in artifacts
    BY <1>1 DEF Base, Marks, Marking
  <1>3. NextMark \in hold.marks
    BY <1>2, NextMarkIn
  <1>4. /\ hold' \in Hold /\ hold'.found = hold.found
        /\ hold'.marks = hold.marks \ {NextMark}
        /\ hold'.version = hold.version /\ hold'.old = hold.old
    BY <1>1 DEF Base, TypeOK, Hold
  <1>5. /\ pc' \in Labels /\ pc'[1] \in {"save_rules", "mark"}
        /\ pc'[1] = "mark" => hold.marks \ {NextMark} # {}
        /\ pc'[1] = "save_rules" => hold.marks = {NextMark}
    <2>1. \/ pc' = <<"save_rules", 0>> /\ hold.marks = {NextMark}
          \/ pc' = <<"mark", 0>> /\ hold.marks # {NextMark}
      BY <1>1
    <2>2. hold.marks # {NextMark} => hold.marks \ {NextMark} # {}
      BY <1>3
    <2>3. QED BY <2>1, <2>2, CommandTypes DEF Base, RefreshLabels
  <1>6. TypeOK'
    <2>1. stale' \subseteq artifacts'
      BY <1>1, <1>2, <1>3 DEF Base, TypeOK
    <2>2. QED BY <1>1, <1>4, <1>5, <2>1 DEF Base, TypeOK
  <1>7. Progress' /\ StateBacked'
    BY <1>1, <1>5, RefreshCommon
  <1>8. Versions'
    <2>1. state # "NONE" /\ hold.version = Len(specs) /\ specs # <<>>
      BY <1>1 DEF Base, Versions, Idle
    <2>2. QED BY <1>1, <1>4, <1>5, <2>1 DEF Base, Versions
  <1>9. Marks'
    <2>1. pc'[1] = "mark" => hold'.found \subseteq stale' \cup hold'.marks
      BY <1>1, <1>2, <1>4
    <2>2. pc'[1] = "save_rules" => hold'.found \subseteq stale'
      BY <1>1, <1>2, <1>4, <1>5
    <2>3. /\ hold'.found \subseteq artifacts'
          /\ hold'.marks \subseteq hold'.found
          /\ <<"rules_snapshot", hold'.old>> \in artifacts'
      BY <1>1, <1>2, <1>4
    <2>4. QED BY <1>4, <1>5, <2>1, <2>2, <2>3 DEF Marks, Marking
  <1>10. QED BY <1>6, <1>7, <1>8, <1>9 DEF Base

\* The new snapshot.
LEMMA SaveSnapshotBase ==
  ASSUME Base, SaveSnapshot
  PROVE  Base'
  <1>1. /\ pc = <<"save_rules", 0>> /\ pc[1] = "save_rules"
        /\ artifacts' = artifacts \cup {<<"rules_snapshot", hold.version>>}
        /\ pc' = <<"link_rules", 0>> /\ pc'[1] = "link_rules"
        /\ hold' = hold /\ state' = state
        /\ specs' = specs /\ stale' = stale
        /\ links' = links /\ decided' = decided /\ reviews' = reviews
        /\ published' = published /\ crashes' = crashes
    BY DEF SaveSnapshot
  <1>2. state # "NONE" /\ hold.version = Len(specs) /\ specs # <<>>
    BY <1>1 DEF Base, Versions, Idle
  <1>3. Len(specs) \in 1..MaxVersion /\ Len(specs) \in Nat
    <2>1. specs \in Seq(Rules) /\ Len(specs) <= MaxVersion
      BY DEF Base, TypeOK
    <2>2. QED BY <1>2, <2>1, PhasesAssumption
  <1>4. <<"rules_snapshot", Len(specs)>> \in Artifact
    BY <1>3 DEF Artifact, Kinds
  <1>5. TypeOK'
    <2>1. pc' \in Labels
      BY <1>1, CommandTypes DEF Base, RefreshLabels
    <2>2. QED BY <1>1, <1>2, <1>4, <2>1 DEF Base, TypeOK
  <1>6. Progress' /\ StateBacked'
    BY <1>1, RefreshCommon
  <1>7. Versions'
    <2>1. \A a \in artifacts' : a[2] <= Len(specs')
      BY <1>1, <1>2, <1>3 DEF Base, Versions
    <2>2. QED BY <1>1, <1>2, <2>1 DEF Base, Versions
  <1>8. Marks'
    BY <1>1, <1>2 DEF Base, Marks, Marking
  <1>9. QED BY <1>5, <1>6, <1>7, <1>8 DEF Base

\* The old snapshot is linked to the new one.
LEMMA LinkSnapshotBase ==
  ASSUME Base, LinkSnapshot
  PROVE  Base'
  <1> DEFINE critical == {a \in hold.found : a[1] \in Reviewed}
             row == <<<<"rules_snapshot", hold.old>>,
                      <<"rules_snapshot", hold.version>>>>
  <1>1. /\ pc = <<"link_rules", 0>> /\ pc[1] = "link_rules"
        /\ links' = links \cup {row}
        /\ hold' = [hold EXCEPT !.marks = critical]
        /\ pc' = <<IF critical = {} THEN "block" ELSE "review", 0>>
        /\ state' = state /\ artifacts' = artifacts
        /\ specs' = specs /\ stale' = stale
        /\ decided' = decided /\ reviews' = reviews
        /\ published' = published /\ crashes' = crashes
    BY DEF LinkSnapshot
  <1>2. state # "NONE" /\ hold.version = Len(specs) /\ specs # <<>>
    BY <1>1 DEF Base, Versions, Idle
  <1>3. /\ hold.found \subseteq artifacts /\ hold.found \subseteq stale
        /\ <<"rules_snapshot", hold.old>> \in artifacts
        /\ <<"rules_snapshot", Len(specs)>> \in artifacts
    BY <1>1 DEF Base, Marks, Marking
  <1>4. /\ row \in artifacts \X artifacts
        /\ row[1][1] = "rules_snapshot"
    BY <1>2, <1>3
  <1>5. critical \subseteq hold.found
    OBVIOUS
  <1> HIDE DEF critical, row
  <1>6. /\ hold' \in Hold /\ hold'.found = hold.found
        /\ hold'.marks = critical
        /\ hold'.version = hold.version /\ hold'.old = hold.old
    BY <1>1, <1>5 DEF Base, TypeOK, Hold
  <1>7. /\ pc' \in Labels /\ pc'[1] \in {"block", "review"}
        /\ pc'[1] = "block" => critical = {}
        /\ pc'[1] = "review" => critical # {}
    <2>1. \/ pc' = <<"block", 0>> /\ critical = {}
          \/ pc' = <<"review", 0>> /\ critical # {}
      BY <1>1
    <2>2. QED BY <2>1, CommandTypes DEF Base, RefreshLabels
  <1>8. TypeOK'
    <2>1. links' \subseteq artifacts' \X artifacts'
      BY <1>1, <1>4 DEF Base, TypeOK
    <2>2. QED BY <1>1, <1>6, <1>7, <2>1 DEF Base, TypeOK
  <1>9. Progress' /\ StateBacked'
    BY <1>1, <1>7, RefreshCommon
  <1>10. Versions'
    <2>1. \A l \in links' :
             l[2][1] = "rules_snapshot" => l[1][1] = "rules_snapshot"
      BY <1>1, <1>4 DEF Base, Versions
    <2>2. QED BY <1>1, <1>2, <1>6, <1>7, <2>1 DEF Base, Versions
  <1>11. Marks'
    <2>1. {a \in hold'.found : a[1] \in Reviewed} = critical
      BY <1>6 DEF critical
    <2>2. /\ hold'.found \subseteq artifacts' /\ hold'.found \subseteq stale'
          /\ <<"rules_snapshot", hold'.old>> \in artifacts'
          /\ <<"rules_snapshot", Len(specs')>> \in artifacts'
      BY <1>1, <1>3, <1>6
    <2>3. QED BY <1>5, <1>6, <1>7, <2>1, <2>2 DEF Marks, Marking
  <1>12. QED BY <1>8, <1>9, <1>10, <1>11 DEF Base

\* One review task is queued.
LEMMA QueueReviewBase ==
  ASSUME Base, QueueReview
  PROVE  Base'
  <1>1. /\ pc = <<"review", 0>> /\ pc[1] = "review" /\ state' = state
        /\ reviews' = reviews \cup {NextMark}
        /\ hold' = [hold EXCEPT !.marks = @ \ {NextMark}]
        /\ pc' = <<IF hold.marks = {NextMark} THEN "block"
                   ELSE "review", 0>>
        /\ specs' = specs /\ artifacts' = artifacts /\ stale' = stale
        /\ links' = links /\ decided' = decided
        /\ published' = published /\ crashes' = crashes
    BY DEF QueueReview
  <1>2. /\ hold.marks # {} /\ hold.marks \subseteq hold.found
        /\ hold.found \subseteq artifacts
        /\ hold.found \subseteq stale
        /\ <<"rules_snapshot", hold.old>> \in artifacts
        /\ <<"rules_snapshot", Len(specs)>> \in artifacts
        /\ {a \in hold.found : a[1] \in Reviewed}
              \subseteq reviews \cup hold.marks
    BY <1>1 DEF Base, Marks, Marking
  <1>3. NextMark \in hold.marks
    BY <1>2, NextMarkIn
  <1>4. /\ hold' \in Hold /\ hold'.found = hold.found
        /\ hold'.marks = hold.marks \ {NextMark}
        /\ hold'.version = hold.version /\ hold'.old = hold.old
    BY <1>1 DEF Base, TypeOK, Hold
  <1>5. /\ pc' \in Labels /\ pc'[1] \in {"block", "review"}
        /\ pc'[1] = "review" => hold.marks \ {NextMark} # {}
        /\ pc'[1] = "block" => hold.marks = {NextMark}
    <2>1. \/ pc' = <<"block", 0>> /\ hold.marks = {NextMark}
          \/ pc' = <<"review", 0>> /\ hold.marks # {NextMark}
      BY <1>1
    <2>2. hold.marks # {NextMark} => hold.marks \ {NextMark} # {}
      BY <1>3
    <2>3. QED BY <2>1, <2>2, CommandTypes DEF Base, RefreshLabels
  <1>6. TypeOK'
    <2>1. reviews' \subseteq artifacts'
      BY <1>1, <1>2, <1>3 DEF Base, TypeOK
    <2>2. QED BY <1>1, <1>4, <1>5, <2>1 DEF Base, TypeOK
  <1>7. Progress' /\ StateBacked'
    BY <1>1, <1>5, RefreshCommon
  <1>8. Versions'
    <2>1. state # "NONE" /\ hold.version = Len(specs) /\ specs # <<>>
      BY <1>1 DEF Base, Versions, Idle
    <2>2. QED BY <1>1, <1>4, <1>5, <2>1 DEF Base, Versions
  <1>9. Marks'
    <2>1. pc'[1] = "review" => {a \in hold'.found : a[1] \in Reviewed}
                                  \subseteq reviews' \cup hold'.marks
      BY <1>1, <1>2, <1>4
    <2>2. pc'[1] = "block" => {a \in hold'.found : a[1] \in Reviewed}
                                  \subseteq reviews'
      BY <1>1, <1>2, <1>4, <1>5
    <2>3. /\ hold'.found \subseteq artifacts' /\ hold'.found \subseteq stale'
          /\ hold'.marks \subseteq hold'.found
          /\ <<"rules_snapshot", hold'.old>> \in artifacts'
          /\ <<"rules_snapshot", Len(specs')>> \in artifacts'
      BY <1>1, <1>2, <1>4
    <2>4. QED BY <1>4, <1>5, <2>1, <2>2, <2>3 DEF Marks, Marking
  <1>10. QED BY <1>6, <1>7, <1>8, <1>9 DEF Base

\* The refresh blocks the mission and ends.
LEMMA BlockMissionBase ==
  ASSUME Base, BlockMission
  PROVE  Base'
  <1>1. /\ pc = <<"block", 0>> /\ pc[1] = "block" /\ state' = "BLOCKED"
        /\ pc' = Idle /\ hold' = NoHold /\ pc'[1] = "idle"
        /\ hold'.found = {} /\ hold'.marks = {}
        /\ specs' = specs /\ artifacts' = artifacts /\ stale' = stale
        /\ links' = links /\ decided' = decided /\ reviews' = reviews
        /\ published' = published /\ crashes' = crashes
    <2>1. state # "POSTMORTEM"
      BY DEF Base, Progress
    <2>2. QED BY <2>1 DEF BlockMission, Finish, Idle, NoHold
  <1>2. TypeOK'
    <2>1. pc' \in Labels /\ hold' \in Hold
      BY <1>1, CommandTypes DEF Base
    <2>2. QED BY <1>1, <2>1 DEF Base, TypeOK, MissionState, SideStates
  <1>3. Progress'
    BY <1>1, ProgressQuiet
  <1>4. StateBacked'
    BY <1>1, BackedGrows DEF Base
  <1>5. Versions'
    BY <1>1 DEF Base, Versions
  <1>6. Marks'
    BY <1>1, MarksQuiet
  <1>7. QED BY <1>2, <1>3, <1>4, <1>5, <1>6 DEF Base

\* A command dies.
LEMMA CrashBase ==
  ASSUME Base, Crash
  PROVE  Base'
  <1>1. crashes' \in 0..MaxCrashes
    BY PhasesAssumption DEF Base, TypeOK, Crash
  <1>2. QED BY <1>1, FinishBase DEF Crash

\* Nothing but the page changes.
LEMMA PublishRulesBase ==
  ASSUME Base, UNCHANGED <<tables, pc, hold, crashes>>, published' \in Rules
  PROVE  Base'
  <1>1. /\ state' = state /\ specs' = specs /\ artifacts' = artifacts
        /\ stale' = stale /\ links' = links /\ decided' = decided
        /\ reviews' = reviews /\ pc' = pc /\ hold' = hold
        /\ crashes' = crashes
    BY DEF tables
  <1>2. TypeOK'
    BY <1>1 DEF Base, TypeOK
  <1>3. Progress'
    <2>1. \A kind : Saved(kind)' = Saved(kind)
      BY <1>1 DEF Saved
    <2>2. Planned' <=> Planned
      BY <1>1, <2>1 DEF Planned
    <2>3. Behind(pc[1], pc[2])' <=> Behind(pc[1], pc[2])
      BY <1>1, <2>1 DEF Behind
    <2>4. QED BY <1>1, <2>2, <2>3 DEF Base, Progress, Running
  <1>4. Versions'
    BY <1>1 DEF Base, Versions
  <1>5. Marks'
    BY <1>1 DEF Base, Marks, Marking
  <1>6. StateBacked'
    BY <1>1, BackedGrows DEF Base
  <1>7. QED BY <1>2, <1>3, <1>4, <1>5, <1>6 DEF Base

\* Every step keeps the first half of the invariant.
LEMMA BaseStep ==
  ASSUME Base, [Next]_vars
  PROVE  Base'
  <1>1. CASE StartSlice
    BY <1>1, StartSliceBase
  <1>2. CASE StartComplete
    BY <1>2, StartCompleteBase
  <1>3. CASE Refresh
    BY <1>3, RefreshBase
  <1>4. CASE ScriptStep
    BY <1>4, MoveStateBase, DoTaskBase, WriteSpecBase, WriteDecisionBase,
       PassGateBase, SaveArtifactBase, LinkArtifactsBase DEF ScriptStep
  <1>5. CASE RefreshStep
    BY <1>5, FetchRulesBase, SaveNewSpecBase, FindDependentsBase,
       MarkStaleBase, SaveSnapshotBase, LinkSnapshotBase, QueueReviewBase,
       BlockMissionBase DEF RefreshStep
  <1>6. CASE PublishRules
    BY <1>6, PublishRulesBase DEF PublishRules
  <1>7. CASE Crash
    BY <1>7, CrashBase
  <1>8. CASE UNCHANGED vars
    <2>1. published' \in Rules
      BY <1>8 DEF vars, Base, TypeOK
    <2>2. QED BY <1>8, <2>1, PublishRulesBase DEF vars
  <1>9. QED BY <1>1, <1>2, <1>3, <1>4, <1>5, <1>6, <1>7, <1>8 DEF Next

(***************************************************************************)
(* The second half: what holds as long as no command has died              *)
(***************************************************************************)
Clean == Fresh /\ Snapshots /\ Marked

\* A step of a script works on a mission with nothing stale, and on the
\* rules that are stored.
LEMMA ScriptClean ==
  ASSUME Base, Clean, Running, Base',
         crashes' = crashes, stale' = stale, hold'.found = {},
         pc'[1] \in {"idle", "slice", "complete"},
         \A l \in links' : l[2][1] = "rules_snapshot" => l \in links,
         crashes = 0 /\ (\A a \in artifacts : a[2] = Len(specs))
            => \A a \in artifacts' : a[2] = Len(specs'),
         crashes = 0 /\ (specs # <<>> /\ pc # <<"slice", 6>> =>
                            <<"rules_snapshot", Len(specs)>> \in artifacts)
            => (specs' # <<>> /\ pc' # <<"slice", 6>> =>
                   <<"rules_snapshot", Len(specs')>> \in artifacts')
  PROVE  Clean'
  <1>1. ~Marking /\ Quiet /\ ~Marking' /\ pc'[1] # "snapshot"
    BY DEF Running, Marking, Quiet
  <1>2. SUFFICES ASSUME crashes = 0 PROVE Clean'
    BY DEF Clean, Fresh, Snapshots, Marked
  <1>3. state # "BLOCKED"
    BY DEF Base, Progress
  <1>4. stale = {} /\ \A a \in artifacts : a[2] = Len(specs)
    BY <1>1, <1>2, <1>3 DEF Clean, Fresh
  <1>5. stale' = {} /\ \A a \in artifacts' : a[2] = Len(specs')
    BY <1>2, <1>4
  <1>6. Fresh'
    BY <1>5 DEF Fresh
  <1>7. Snapshots'
    <2>1. specs # <<>> /\ pc # <<"slice", 6>> =>
             <<"rules_snapshot", Len(specs)>> \in artifacts
      BY <1>1, <1>2 DEF Clean, Snapshots
    <2>2. specs' # <<>> /\ pc' # <<"slice", 6>> =>
             <<"rules_snapshot", Len(specs')>> \in artifacts'
      BY <1>2, <2>1
    <2>3. \A l \in links' :
             l[2][1] = "rules_snapshot" => l[1][2] < l[2][2]
      BY <1>2 DEF Clean, Snapshots
    <2>4. QED BY <1>1, <1>5, <2>2, <2>3 DEF Snapshots
  <1>8. Marked'
    <2>1. ASSUME NEW l \in links'
          PROVE  l[1][2] = Len(specs') /\ Len(specs') \in Nat
      BY <1>5 DEF Base, TypeOK
    <2>2. QED BY <1>1, <1>5, <2>1 DEF Marked
  <1>9. QED BY <1>6, <1>7, <1>8 DEF Clean

\* A step outside a refresh's marking that writes none of the tables it is
\* about, but may block the mission.
LEMMA QuietClean ==
  ASSUME Clean, Quiet, Quiet', hold.found = {}, hold'.found = {},
         pc # <<"slice", 6>>,
         state' = state \/ state' = "BLOCKED",
         specs' = specs, artifacts' = artifacts, stale' = stale,
         links' = links, reviews' = reviews, crashes' = crashes
  PROVE  Clean'
  <1>1. ~Marking /\ ~Marking' /\ pc[1] # "snapshot" /\ pc'[1] # "snapshot"
    BY DEF Quiet, Marking
  <1>2. Fresh'
    BY <1>1 DEF Clean, Fresh
  <1>3. Snapshots'
    BY <1>1 DEF Clean, Snapshots
  <1>4. Marked'
    BY <1>1 DEF Clean, Marked
  <1>5. QED BY <1>2, <1>3, <1>4 DEF Clean

\* A step of the marking that adds to what is stale or queued only what the
\* refresh has found.
LEMMA MarkingClean ==
  ASSUME Base, Clean, Marking, Marking',
         hold'.found = hold.found, hold'.old = hold.old,
         stale \subseteq stale', stale' \subseteq stale \cup hold.found,
         links \subseteq links',
         crashes = 0 =>
            \A l \in links' \ links : l[2][1] = "rules_snapshot"
                                      /\ l[1][2] < l[2][2],
         reviews \subseteq reviews',
         specs' = specs, crashes' = crashes
  PROVE  Clean'
  <1>1. ~Quiet /\ ~Quiet' /\ pc[1] # "snapshot" /\ pc'[1] # "snapshot"
    BY DEF Quiet, Marking
  <1>2. stale' \cup hold'.found = stale \cup hold.found
    OBVIOUS
  <1>3. Fresh'
    BY <1>1 DEF Fresh
  <1>4. Snapshots'
    <2>1. crashes = 0 =>
             \A l \in links' :
                l[2][1] = "rules_snapshot" => l[1][2] < l[2][2]
      BY DEF Clean, Snapshots
    <2>2. QED BY <1>1, <1>2, <2>1 DEF Clean, Snapshots
  <1>5. Marked'
    <2>1. SUFFICES ASSUME crashes = 0, NEW l \in links',
                          l[2][1] # "rules_snapshot"
          PROVE  /\ l[1] \in stale \cup hold.found =>
                       l[2] \in stale \cup hold.found
                 /\ l[1][1] = "rules_snapshot" /\ l[1][2] < Len(specs)
                       => l[2] \in stale \cup hold.found
                 /\ l[2] \in stale \cup hold.found /\ l[2][1] \in Reviewed
                       => l[2] \in reviews' \cup hold'.found
      BY <1>1, <1>2 DEF Marked
    <2>2. l \in links
      BY <2>1
    <2>3. QED BY <1>1, <2>1, <2>2 DEF Clean, Marked
  <1>6. QED BY <1>3, <1>4, <1>5 DEF Clean

\* The commands that start: create_mission, complete_v0, the refresh.
LEMMA StartClean ==
  ASSUME Base, Clean, StartSlice \/ StartComplete \/ Refresh
  PROVE  Clean'
  <1>1. pc = Idle /\ pc[1] = "idle"
    BY DEF StartSlice, StartComplete, Refresh, Idle
  <1>2. Quiet /\ ~Marking /\ hold.found = {} /\ pc # <<"slice", 6>>
    BY <1>1 DEF Quiet, Marking, Base, Marks, Idle
  <1>3. CASE StartSlice
    <2>1. /\ state = "NONE" /\ pc' = <<"slice", 1>> /\ pc'[1] = "slice"
          /\ hold' = [NoHold EXCEPT !.version = 1] /\ hold'.found = {}
          /\ specs' = specs /\ artifacts' = artifacts /\ stale' = stale
          /\ links' = links
      BY <1>3 DEF StartSlice, NoHold
    <2>2. /\ specs' = <<>> /\ artifacts' = {} /\ stale' = {} /\ links' = {}
      BY <2>1 DEF Base, Versions, TypeOK
    <2>3. ~Marking'
      BY <2>1 DEF Marking
    <2>4. QED BY <2>1, <2>2, <2>3 DEF Clean, Fresh, Snapshots, Marked
  <1>4. CASE StartComplete
    <2>1. /\ pc'[1] \in {"idle", "complete"} /\ hold'.found = {}
          /\ state' = state \/ state' = "BLOCKED"
      BY <1>1, <1>2, <1>4 DEF StartComplete, NoHold
    <2>2. Quiet'
      BY <2>1 DEF Quiet
    <2>3. QED BY <1>2, <1>4, <2>1, <2>2, QuietClean DEF StartComplete
  <1>5. CASE Refresh
    <2>1. pc'[1] = "fetch" /\ hold'.found = {} /\ state' = state
      BY <1>5 DEF Refresh, NoHold, tables
    <2>2. Quiet'
      BY <2>1 DEF Quiet
    <2>3. QED BY <1>2, <1>5, <2>1, <2>2, QuietClean DEF Refresh, tables
  <1>6. QED BY <1>3, <1>4, <1>5

\* The sixth step of run_vertical_slice saves the snapshot.
LEMMA SnapshotStep ==
  /\ Script["slice"][6].do = "save"
  /\ Script["slice"][6].kind = "rules_snapshot"
  <1>1. Script["slice"][6] = Save("rules_snapshot")
    BY SliceSteps
  <1>2. QED BY <1>1, StepFields

\* The steps of a script.
LEMMA ScriptStepClean ==
  ASSUME Base, Clean, ScriptStep, Base'
  PROVE  Clean'
  <1>0. Running
    BY DEF ScriptStep, MoveState, DoTask, WriteSpec, WriteDecision, PassGate,
           SaveArtifact, LinkArtifacts, At
  <1>1. PICK p \in {"slice", "complete"} : \E i \in 1..Len(Script[p]) :
            pc = <<p, i>> /\ pc[1] = p /\ pc[2] = i /\ Here = Script[p][i]
    BY <1>0, ScriptPlace DEF Base, TypeOK
  <1>2. PICK i \in 1..Len(Script[p]) :
            pc = <<p, i>> /\ pc[1] = p /\ pc[2] = i /\ Here = Script[p][i]
    BY <1>1
  <1> DEFINE step == Script[p][i]
  <1>3. /\ Onward \/ Finish
        /\ crashes' = crashes /\ stale' = stale
        /\ step.do = "spec" \/ specs' = specs
        /\ step.do = "save" \/ artifacts' = artifacts
        /\ step.do = "link" \/ links' = links
    BY <1>2 DEF ScriptStep, MoveState, DoTask, WriteSpec, WriteDecision,
           PassGate, SaveArtifact, LinkArtifacts, At, tables
  <1>4. hold'.found = {} /\ pc'[1] \in {"idle", "slice", "complete"}
    <2>1. hold.found = {} /\ NoHold.found = {}
      BY <1>0, ScriptHold DEF Base
    <2>2. QED BY <1>2, <1>3, <2>1, OnwardPlace
  <1>5. p = "slice" /\ i = 6 => step.do = "save"
                               /\ step.kind = "rules_snapshot"
    BY SnapshotStep
  <1>6. p = "slice" /\ i = 5 <=> step.do = "spec"
    <2>1. CASE p = "slice"
      <3>1. i \in 1..34
        BY <2>1, ScriptLengths
      <3>2. QED BY <2>1, <3>1, SliceKinds
    <2>2. CASE p = "complete"
      <3>1. i \in 1..24
        BY <2>2, ScriptLengths
      <3>2. QED BY <2>2, <3>1, CompleteKinds
    <2>3. QED BY <2>1, <2>2
  <1>7. \A l \in links' : l[2][1] = "rules_snapshot" => l \in links
    <2>1. CASE step.do = "link"
      <3>1. Behind(p, i) /\ (p = "complete" => Planned)
        BY <1>0, <1>2 DEF Base, Progress
      <3>2. Saved(step.kind) # {} /\ step.kind # "rules_snapshot"
        BY <2>1, <3>1, LinkedSaved, ScriptNames
      <3>3. Newest(step.kind)[1] # "rules_snapshot"
        BY <3>2, NewestSaved DEF Base
      <3>4. links' = links \cup {<<Newest(kind), Newest(step.kind)>> :
                                    kind \in step.parents}
        BY <1>2, <2>1 DEF ScriptStep, MoveState, DoTask, WriteSpec,
               WriteDecision, PassGate, SaveArtifact, LinkArtifacts, At
      <3> HIDE DEF step
      <3>5. QED BY <3>3, <3>4
    <2>2. QED BY <1>3, <2>1
  <1>8. ASSUME \A a \in artifacts : a[2] = Len(specs)
        PROVE  \A a \in artifacts' : a[2] = Len(specs')
    <2>1. CASE step.do = "save"
      <3>1. artifacts' = artifacts \cup {<<step.kind, hold.version>>}
        BY <1>2, <2>1 DEF ScriptStep, MoveState, DoTask, WriteSpec,
               WriteDecision, PassGate, SaveArtifact, LinkArtifacts, At
      <3>2. hold.version = Len(specs) /\ specs' = specs
        BY <1>2, <1>3, <2>1, SaveVersion
      <3> HIDE DEF step
      <3>3. QED BY <1>8, <3>1, <3>2
    <2>2. CASE step.do = "spec"
      <3>1. Len(specs) = 0
        BY <1>2, <1>6, <2>2 DEF Base, Versions
      <3>2. \A a \in artifacts : a[2] \in 1..MaxVersion
        BY DEF Base, TypeOK, Artifact
      <3>3. artifacts = {}
        BY <1>8, <3>1, <3>2
      <3>4. QED BY <1>3, <2>2, <3>3
    <2>3. QED BY <1>3, <1>8, <2>1, <2>2
  <1>9. ASSUME specs # <<>> /\ pc # <<"slice", 6>> =>
                  <<"rules_snapshot", Len(specs)>> \in artifacts,
               specs' # <<>>, pc' # <<"slice", 6>>
        PROVE  <<"rules_snapshot", Len(specs')>> \in artifacts'
    <2>1. CASE step.do = "spec"
      <3>1. Onward /\ p = "slice" /\ i = 5
        BY <1>2, <1>6, <2>1 DEF ScriptStep, MoveState, DoTask, WriteSpec,
               WriteDecision, PassGate, SaveArtifact, LinkArtifacts, At
      <3>2. pc' = <<"slice", 6>>
        <4>1. pc[1] = "slice" /\ pc[2] = 5 /\ Len(Script["slice"]) = 34
          BY <1>2, <3>1, ScriptLengths
        <4>2. pc' = <<pc[1], pc[2] + 1>>
          BY <3>1, <4>1 DEF Onward
        <4>3. QED BY <4>1, <4>2
      <3>3. QED BY <1>9, <3>2
    <2>2. CASE step.do # "spec" /\ pc # <<"slice", 6>>
      <3>1. specs' = specs
        BY <1>3, <2>2
      <3>2. artifacts \subseteq artifacts'
        BY <1>2 DEF ScriptStep, MoveState, DoTask, WriteSpec,
               WriteDecision, PassGate, SaveArtifact, LinkArtifacts, tables
      <3>3. QED BY <1>9, <2>2, <3>1, <3>2
    <2>3. CASE pc = <<"slice", 6>>
      <3>1. step.do = "save" /\ step.kind = "rules_snapshot"
        BY <1>2, <1>5, <2>3
      <3>2. artifacts' = artifacts \cup {<<step.kind, hold.version>>}
        BY <1>2, <3>1 DEF ScriptStep, MoveState, DoTask, WriteSpec,
               WriteDecision, PassGate, SaveArtifact, LinkArtifacts, At
      <3>3. hold.version = Len(specs) /\ specs' = specs
        BY <1>2, <1>3, <3>1, SaveVersion
      <3>4. QED BY <3>1, <3>2, <3>3
    <2>4. QED BY <2>1, <2>2, <2>3
  <1>10. QED BY <1>0, <1>3, <1>4, <1>7, <1>8, <1>9, ScriptClean

\* New rules are fetched and saved.
LEMMA FetchClean ==
  ASSUME Base, Clean, FetchRules \/ SaveNewSpec
  PROVE  Clean'
  <1>1. pc[1] \in {"fetch", "save_spec"} /\ pc # <<"slice", 6>>
    BY DEF FetchRules, SaveNewSpec
  <1>2. Quiet /\ ~Marking /\ hold.found = {}
    BY <1>1 DEF Quiet, Marking, Base, Marks
  <1>3. CASE FetchRules
    <2>1. /\ pc'[1] \in {"idle", "save_spec"} /\ hold'.found = {}
          /\ state' = state
      BY <1>2, <1>3 DEF FetchRules, Finish, Idle, NoHold, tables,
                        Base, TypeOK, Hold
    <2>2. Quiet'
      BY <2>1 DEF Quiet
    <2>3. QED BY <1>1, <1>2, <1>3, <2>1, <2>2, QuietClean
             DEF FetchRules, tables
  <1>4. CASE SaveNewSpec
    <2>1. /\ pc = <<"save_spec", 0>> /\ pc[1] = "save_spec"
          /\ pc' = <<"snapshot", 0>> /\ pc'[1] = "snapshot"
          /\ specs' = Append(specs, hold.rules)
          /\ hold'.found = hold.found
          /\ state' = state /\ artifacts' = artifacts /\ stale' = stale
          /\ links' = links /\ reviews' = reviews /\ crashes' = crashes
      BY <1>4 DEF SaveNewSpec, Base, TypeOK, Hold
    <2>2. specs # <<>> /\ hold.rules \in Rules /\ specs \in Seq(Rules)
      BY <2>1 DEF Base, Versions, TypeOK
    <2>3. Len(specs') = Len(specs) + 1 /\ Len(specs) \in Nat
      BY <2>1, <2>2
    <2>4. Len(specs') - 1 = Len(specs)
      BY <2>3
    <2>5. ~Marking' /\ ~Quiet'
      BY <2>1 DEF Marking, Quiet
    <2>6. Fresh'
      BY <1>2, <2>1, <2>5 DEF Clean, Fresh
    <2>7. Snapshots'
      <3>1. crashes = 0 => <<"rules_snapshot", Len(specs)>> \in artifacts
        BY <1>1, <1>2, <2>2 DEF Clean, Snapshots
      <3>2. \A a \in artifacts : a[2] <= Len(specs)
        BY DEF Base, Versions
      <3>3. QED BY <1>2, <2>1, <2>4, <2>5, <3>1, <3>2 DEF Clean, Snapshots
    <2>8. Marked'
      BY <2>1, <2>4 DEF Clean, Marked
    <2>9. QED BY <2>6, <2>7, <2>8 DEF Clean
  <1>5. QED BY <1>3, <1>4

\* The refresh finds all that hangs below the last snapshot.
LEMMA FindClean ==
  ASSUME Base, Clean, FindDependents
  PROVE  Clean'
  <1> DEFINE top == <<"rules_snapshot", Len(specs) - 1>>
  <1>1. /\ pc = <<"snapshot", 0>> /\ pc[1] = "snapshot" /\ state' = state
        /\ specs' = specs /\ artifacts' = artifacts /\ stale' = stale
        /\ links' = links /\ reviews' = reviews /\ crashes' = crashes
    BY DEF FindDependents, tables
  <1>2. SUFFICES ASSUME crashes = 0 PROVE Clean'
    BY <1>1 DEF Clean, Fresh, Snapshots, Marked
  <1>3. hold.found = {}
    BY <1>1 DEF Base, Marks, Marking
  <1>4. /\ top \in artifacts
        /\ \A a \in artifacts : a[2] <= Len(specs) - 1
        /\ \A a \in stale : a[1] # "rules_snapshot"
        /\ \A l \in links : l[2][1] = "rules_snapshot" => l[1][2] < l[2][2]
    BY <1>1, <1>2, <1>3 DEF Clean, Snapshots
  <1>5. /\ Len(specs) \in Nat
        /\ \A a \in artifacts : a = <<a[1], a[2]>> /\ a[2] \in 1..MaxVersion
        /\ \A l \in links : l[1] \in artifacts /\ l[2] \in artifacts
    BY DEF Base, TypeOK, Artifact
  <1>6. top \in Current
    BY <1>4 DEF Current, Saved
  <1>7. PICK old, found : old = LastVersion /\ found = Below
    OBVIOUS
  <1>8. /\ old \in 1..MaxVersion
        /\ <<"rules_snapshot", old>> \in artifacts \ stale
        /\ \A a \in Current : a[2] <= old
        /\ \A l \in links :
              l[1] = <<"rules_snapshot", old>> \/ l[1] \in found
                 => l[2] \in found
        /\ \A X : /\ \A l \in links : l[1] = <<"rules_snapshot", old>>
                                         => l[2] \in X
                  /\ \A l \in links : l[1] \in X => l[2] \in X
                  => found \subseteq X
    <2>1. TypeOK /\ Current # {}
      BY <1>6 DEF Base
    <2>2. QED BY <1>7, <2>1, Dependents, Zenon
  <1>9. old = Len(specs) - 1
    <2>1. Len(specs) - 1 <= old
      BY <1>6, <1>8
    <2>2. old <= Len(specs) - 1
      BY <1>4, <1>8
    <2>3. QED BY <1>5, <1>8, <2>1, <2>2
  <1>10. /\ hold'.old = old /\ hold'.found = found
         /\ pc'[1] \in {"save_rules", "mark"}
    <2>1. Current # {}
      BY <1>6
    <2>2. /\ hold' = [hold EXCEPT !.old = old, !.found = found,
                                  !.marks = found \ stale]
          /\ pc' = <<IF found \subseteq stale THEN "save_rules"
                     ELSE "mark", 0>>
      BY <1>7, <2>1 DEF FindDependents, Current, LastVersion, Below
    <2>3. hold \in Hold
      BY DEF Base, TypeOK
    <2>4. QED BY <2>2, <2>3 DEF Hold
  <1>11. \A a \in found : a[1] # "rules_snapshot"
    <2> DEFINE X == {a \in artifacts : a[1] # "rules_snapshot"}
    <2>1. ASSUME NEW l \in links, l[1] = <<"rules_snapshot", old>>
          PROVE  l[2] \in X
      <3>1. l[2][1] = "rules_snapshot" => l[1][2] < l[2][2]
        BY <1>4
      <3>2. l[1][2] = old /\ l[2][2] <= old /\ l[2][2] \in Nat
        BY <1>4, <1>5, <1>9, <2>1
      <3>3. l[2][1] # "rules_snapshot"
        BY <1>8, <3>1, <3>2
      <3>4. QED BY <1>5, <3>3
    <2>2. ASSUME NEW l \in links, l[1] \in X PROVE l[2] \in X
      <3>1. l[2][1] = "rules_snapshot" => l[1][1] = "rules_snapshot"
        BY DEF Base, Versions
      <3>2. QED BY <1>5, <2>2, <3>1
    <2>3. found \subseteq X
      BY <1>8, <2>1, <2>2
    <2>4. QED BY <2>3
  <1>12. ~Quiet' /\ Marking' /\ pc'[1] # "snapshot"
    BY <1>10 DEF Quiet, Marking
  <1>13. Fresh'
    BY <1>12 DEF Fresh
  <1>14. Snapshots'
    BY <1>1, <1>4, <1>9, <1>10, <1>11, <1>12 DEF Snapshots
  <1>15. Marked'
    <2>1. SUFFICES ASSUME NEW l \in links, l[2][1] # "rules_snapshot"
          PROVE  /\ l[1] \in stale \cup found => l[2] \in stale \cup found
                 /\ l[1][1] = "rules_snapshot" /\ l[1][2] < Len(specs)
                       => l[2] \in stale \cup found
                 /\ l[2] \in stale \cup found /\ l[2][1] \in Reviewed
                       => l[2] \in reviews \cup found
      BY <1>1, <1>10, <1>12 DEF Marked
    <2>2. /\ l[1] \in stale => l[2] \in stale
          /\ l[1][1] = "rules_snapshot" /\ l[1][2] < Len(specs) - 1
                => l[2] \in stale
          /\ l[2] \in stale /\ l[2][1] \in Reviewed => l[2] \in reviews
      BY <1>1, <1>2, <1>3, <2>1 DEF Clean, Marked
    <2>3. l[1] \in found => l[2] \in found
      BY <1>8
    <2>4. l[1][1] = "rules_snapshot" /\ ~ (l[1][2] < Len(specs) - 1)
             => l[2] \in found
      <3>1. l[1] = <<l[1][1], l[1][2]>> /\ l[1][2] <= Len(specs) - 1
            /\ l[1][2] \in Nat
        BY <1>4, <1>5
      <3>2. ~ (l[1][2] < Len(specs) - 1) => l[1][2] = old
        BY <1>5, <1>9, <3>1
      <3>3. QED BY <1>8, <3>1, <3>2
    <2>5. QED BY <2>2, <2>3, <2>4
  <1>16. QED BY <1>13, <1>14, <1>15 DEF Clean

\* The writes of the marking, up to the block.
LEMMA MarkSteps ==
  ASSUME Base, Clean,
         MarkStale \/ SaveSnapshot \/ LinkSnapshot \/ QueueReview
  PROVE  Clean'
  <1>0. hold \in Hold
    BY DEF Base, TypeOK
  <1>1. /\ pc[1] \in {"mark", "save_rules", "link_rules", "review"}
        /\ specs' = specs /\ crashes' = crashes
        /\ links \subseteq links' /\ reviews \subseteq reviews'
    BY DEF MarkStale, SaveSnapshot, LinkSnapshot, QueueReview
  <1>2. Marking
    BY <1>1 DEF Marking
  <1>3. hold'.found = hold.found /\ hold'.old = hold.old
    BY <1>0 DEF MarkStale, SaveSnapshot, LinkSnapshot, QueueReview, Hold
  <1>4. Marking'
    BY DEF MarkStale, SaveSnapshot, LinkSnapshot, QueueReview, Marking
  <1>5. stale \subseteq stale' /\ stale' \subseteq stale \cup hold.found
    <2>1. CASE MarkStale
      <3>1. NextMark \in hold.found
        BY <2>1, NextMarkIn DEF MarkStale, Base, Marks
      <3>2. QED BY <2>1, <3>1 DEF MarkStale
    <2>2. CASE ~MarkStale
      BY <2>2 DEF SaveSnapshot, LinkSnapshot, QueueReview
    <2>3. QED BY <2>1, <2>2
  <1>6. ASSUME crashes = 0, NEW l \in links' \ links
        PROVE  l[2][1] = "rules_snapshot" /\ l[1][2] < l[2][2]
    <2>1. LinkSnapshot
      BY <1>6 DEF MarkStale, SaveSnapshot, QueueReview
    <2>2. l = <<<<"rules_snapshot", hold.old>>,
                <<"rules_snapshot", hold.version>>>>
      BY <1>6, <2>1 DEF LinkSnapshot
    <2>3. hold.old = Len(specs) - 1
      BY <1>2, <1>6 DEF Clean, Snapshots
    <2>4. hold.version = Len(specs)
      BY <1>1 DEF Base, Versions
    <2>5. Len(specs) \in Nat
      BY DEF Base, TypeOK
    <2>6. QED BY <2>2, <2>3, <2>4, <2>5
  <1>7. QED BY <1>1, <1>2, <1>3, <1>4, <1>5, <1>6, MarkingClean

\* The end of the refresh: all that it found is stale and under review.
LEMMA BlockClean ==
  ASSUME Base, Clean, BlockMission
  PROVE  Clean'
  <1>1. /\ pc = <<"block", 0>> /\ pc[1] = "block" /\ state' = "BLOCKED"
        /\ pc' = Idle /\ hold' = NoHold /\ pc'[1] = "idle"
        /\ hold'.found = {}
        /\ specs' = specs /\ artifacts' = artifacts /\ stale' = stale
        /\ links' = links /\ reviews' = reviews /\ crashes' = crashes
    <2>1. state # "POSTMORTEM"
      BY DEF Base, Progress
    <2>2. QED BY <2>1 DEF BlockMission, Finish, Idle, NoHold
  <1>2. /\ hold.found \subseteq stale
        /\ {a \in hold.found : a[1] \in Reviewed} \subseteq reviews
        /\ <<"rules_snapshot", Len(specs)>> \in artifacts
    BY <1>1 DEF Base, Marks
  <1>3. stale' \cup hold'.found = stale \cup hold.found
    BY <1>1, <1>2
  <1>4. Fresh'
    BY <1>1 DEF Fresh
  <1>5. ~Marking' /\ pc'[1] # "snapshot"
    BY <1>1 DEF Marking
  <1>6. Snapshots'
    BY <1>1, <1>2, <1>3, <1>5 DEF Clean, Snapshots
  <1>7. Marked'
    <2>1. SUFFICES ASSUME crashes = 0, NEW l \in links,
                          l[2][1] # "rules_snapshot"
          PROVE  /\ l[1] \in stale \cup hold.found =>
                       l[2] \in stale \cup hold.found
                 /\ l[1][1] = "rules_snapshot" /\ l[1][2] < Len(specs)
                       => l[2] \in stale \cup hold.found
                 /\ l[2] \in stale \cup hold.found /\ l[2][1] \in Reviewed
                       => l[2] \in reviews
      BY <1>1, <1>3, <1>5 DEF Marked
    <2>2. QED BY <1>1, <1>2, <2>1 DEF Clean, Marked
  <1>8. QED BY <1>4, <1>6, <1>7 DEF Clean

\* Every step keeps the whole invariant.
LEMMA CleanStep ==
  ASSUME Base, Clean, [Next]_vars, Base'
  PROVE  Clean'
  <1>1. CASE StartSlice \/ StartComplete \/ Refresh
    BY <1>1, StartClean
  <1>2. CASE ScriptStep
    BY <1>2, ScriptStepClean
  <1>3. CASE RefreshStep
    BY <1>3, FetchClean, FindClean, MarkSteps, BlockClean DEF RefreshStep
  <1>4. CASE PublishRules \/ UNCHANGED vars
    <2>1. UNCHANGED <<tables, pc, hold, crashes>>
      BY <1>4 DEF PublishRules, vars
    <2>2. /\ state' = state /\ specs' = specs /\ artifacts' = artifacts
          /\ stale' = stale /\ links' = links /\ reviews' = reviews
          /\ pc' = pc /\ hold' = hold /\ crashes' = crashes
      BY <2>1 DEF tables
    <2>3. (Marking' <=> Marking) /\ (Quiet' <=> Quiet)
      BY <2>2 DEF Marking, Quiet
    <2>4. Fresh'
      BY <2>2, <2>3 DEF Clean, Fresh
    <2>5. Snapshots'
      BY <2>2, <2>3 DEF Clean, Snapshots
    <2>6. Marked'
      BY <2>2 DEF Clean, Marked
    <2>7. QED BY <2>4, <2>5, <2>6 DEF Clean
  <1>5. CASE Crash
    <2>1. crashes' # 0
      BY <1>5 DEF Crash, Base, TypeOK
    <2>2. QED BY <2>1 DEF Clean, Fresh, Snapshots, Marked
  <1>6. QED BY <1>1, <1>2, <1>3, <1>4, <1>5 DEF Next

\* The invariant holds before the first command.
LEMMA PhasesInit ==
  ASSUME Init
  PROVE  IInv
  <1>1. /\ state = "NONE" /\ specs = <<>> /\ artifacts = {} /\ stale = {}
        /\ links = {} /\ decided = FALSE /\ reviews = {}
        /\ published \in Rules /\ pc = Idle /\ hold = NoHold /\ crashes = 0
        /\ pc[1] = "idle" /\ hold.found = {} /\ hold.marks = {}
    BY DEF Init, Idle, NoHold
  <1>2. TypeOK
    <2>1. Idle \in Labels
      BY DEF Labels
    <2>2. NoHold \in Hold
      BY PhasesAssumption DEF NoHold, Hold
    <2>3. specs \in Seq(Rules) /\ Len(specs) = 0
      BY <1>1
    <2>4. Len(specs) <= MaxVersion /\ crashes \in 0..MaxCrashes
      BY <1>1, <2>3, PhasesAssumption
    <2>5. QED BY <1>1, <2>1, <2>2, <2>3, <2>4 DEF TypeOK
  <1>3. Progress /\ Versions /\ Marks
    BY <1>1 DEF Progress, Running, Versions, Marks, Marking
  <1>4. StateBacked
    BY <1>1, CanonicalFresh DEF StateBacked, CanonicalStates
  <1>5. Fresh /\ Snapshots /\ Marked
    BY <1>1 DEF Fresh, Snapshots, Marked, Marking
  <1>6. QED BY <1>2, <1>3, <1>4, <1>5 DEF IInv, Base

\* The invariant holds of every reachable state.
THEOREM PhasesInvariant == Spec => []IInv
  <1>1. Init => IInv
    BY PhasesInit
  <1>2. IInv /\ [Next]_vars => IInv'
    <2>1. SUFFICES ASSUME IInv, [Next]_vars PROVE IInv'
      OBVIOUS
    <2>2. Base /\ Clean
      BY <2>1 DEF IInv, Clean
    <2>3. Base'
      BY <2>1, <2>2, BaseStep
    <2>4. Clean'
      BY <2>1, <2>2, <2>3, CleanStep
    <2>5. QED BY <2>3, <2>4 DEF IInv, Clean
  <1>3. QED BY <1>1, <1>2, PTL DEF Spec

\* The mission row, the artifacts, their links and what a command holds stay
\* of their types; in particular every link joins two saved artifacts.
THEOREM PhasesTypesCorrect == Spec => []TypeOK
  <1>1. IInv => TypeOK
    BY DEF IInv, Base
  <1>2. QED BY <1>1, PhasesInvariant, PTL

\* The state never runs ahead of the saved work, wherever a command of
\* run_vertical_slice, complete_v0 or refresh_official_rules died or raised.
THEOREM StateIsBacked == Spec => []StateBacked
  <1>1. IInv => StateBacked
    BY DEF IInv, Base
  <1>2. QED BY <1>1, PhasesInvariant, PTL

\* If no command died, a mission that is ready between two commands was made
\* from the rules stored last.
THEOREM ReadyMadeFromStoredRules == Spec => []ReadyIsCurrent
  <1>1. IInv => ReadyIsCurrent
    <2>1. SUFFICES ASSUME IInv, crashes = 0, pc = Idle,
                          state = "READY_FOR_SUBMISSION"
          PROVE  stale = {} /\ \A a \in artifacts : a[2] = Len(specs)
      BY DEF ReadyIsCurrent
    <2>2. ~Marking /\ Quiet
      BY <2>1 DEF Marking, Quiet, Idle
    <2>3. QED BY <2>1, <2>2 DEF IInv, Fresh
  <1>2. QED BY <1>1, PhasesInvariant, PTL

\* If no command died, staleness has run down the whole artifact graph when
\* refresh_official_rules is done: the recursive query of
\* artifact_descendants finds everything that the links lead to.
THEOREM StalenessRunsDown == Spec => []LinkedDependentsStale
  <1>1. IInv => LinkedDependentsStale
    <2>1. SUFFICES ASSUME IInv, crashes = 0, pc = Idle,
                          NEW l \in links, l[2][1] # "rules_snapshot"
          PROVE  /\ l[1] \in stale => l[2] \in stale
                 /\ l[1][1] = "rules_snapshot" /\ l[1][2] < Len(specs)
                       => l[2] \in stale
                 /\ l[2] \in stale /\ l[2][1] \in Reviewed
                       => l[2] \in reviews
      BY DEF LinkedDependentsStale
    <2>2. pc[1] # "snapshot" /\ ~Marking
      BY <2>1 DEF Marking, Idle
    <2>3. hold.found = {}
      BY <2>1, <2>2 DEF IInv, Base, Marks
    <2>4. QED BY <2>1, <2>2, <2>3 DEF IInv, Marked
  <1>2. QED BY <1>1, PhasesInvariant, PTL
=============================================================================
