--------------------------- MODULE RuleBookProofs ----------------------------
(***************************************************************************)
(* Theorems about CompetitionIntelligence, for any number of signals,      *)
(* reconciliations and crashes: a state knows a rule in force, a rule is   *)
(* displaced only by one as strong, and reconciling again changes nothing. *)
(*                                                                         *)
(* The inductive invariant follows a reconciliation through its queue:     *)
(* every rule signal has its rule or still waits in the queue, and the     *)
(* state saved last, if no signal came after it, says what the tables say. *)
(* It lists the rules in conflict: each of them is on the list already, or *)
(* its signal still waits in the queue.                                    *)
(* What the winning metric is (a fold) plays no part: two reconciliations  *)
(* of the same signals read the same sequence and choose alike.            *)
(***************************************************************************)
EXTENDS RuleBook, FiniteSetTheorems, SequenceTheorems, NaturalsInduction,
        WellFoundedInduction, TLAPS

(***************************************************************************)
(* Inductive invariant                                                     *)
(***************************************************************************)
\* The states as they are stored; a metric is whatever Metric makes of the
\* signals that were read.
Stored == [version : Nat, read : Nat, active : SUBSET Nat,
           metric : {Metric(q) : q \in Seq(Signal)},
           conflicts : Seq(Conflict)]

Types ==
    /\ sources \in Seq(1..MaxTime) /\ Len(sources) <= MaxSources
    /\ signals \in Seq(Signal)
    /\ rules \in Seq(Rule)
    /\ states \in Seq(Stored)
    /\ pc \in {"idle", "signals", "rules", "record", "state"}
    /\ queue \in Seq(Signal) /\ seen \in Seq(Signal)
    /\ conflicts \in Seq(Conflict)
    /\ crashes \in Nat

Reconciling == pc \in {"rules", "record", "state"}

\* The call under way.  A reconciliation has read all signals in their order;
\* its queue holds rule signals, and every rule signal that has no rule yet.
Busy ==
    /\ pc \in {"signals", "rules", "record"} => queue # <<>>
    /\ pc = "state" => queue = <<>>
    /\ Reconciling => seen = InOrder(signals, DOMAIN signals)
    /\ pc \in {"rules", "record"} =>
          \A k \in DOMAIN queue : \E i \in RuleSignals : queue[k] = signals[i]
    /\ pc = "record" => ~Known(Head(queue))

Awaited ==
    Reconciling =>
        \A i \in RuleSignals :
            \/ Known(signals[i])
            \/ \E k \in DOMAIN queue : queue[k] = signals[i]

\* A rule is in force once there are rules, unless one is being replaced, or
\* its replacement died and the signal for it is still without a rule.
InForce ==
    \/ Active # {} \/ rules = <<>> \/ pc = "record"
    \/ \E i \in RuleSignals : ~Known(signals[i])

\* No signal is recorded twice, and what is recorded comes from a signal.
Recorded ==
    /\ \A i, j \in DOMAIN rules :
          rules[i].source = rules[j].source /\ rules[i].value = rules[j].value
              => i = j
    /\ \A i \in DOMAIN rules :
          \E j \in RuleSignals : Matches(rules[i], signals[j])

InConflict == {i \in DOMAIN rules : rules[i].status = "CONFLICTED"}

\* A reconciliation lists rules in conflict only, and has listed those whose
\* signals have left the queue.
Collected ==
    /\ ~Reconciling => conflicts = <<>>
    /\ Reconciling =>
          /\ Contested(conflicts) \subseteq InConflict
          /\ \A i \in InConflict :
                \/ i \in Contested(conflicts)
                \/ \E k \in DOMAIN queue : Matches(rules[i], queue[k])

\* As long as no signal came after the state saved last, it says what the
\* tables say, and reconciling again has nothing to record.
Latest == states[Len(states)]
Settled ==
    states # <<>> /\ Latest.read = Len(signals) =>
        /\ \A i \in RuleSignals : Known(signals[i])
        /\ Latest.active = Active
        /\ Latest.metric = Metric(InOrder(signals, DOMAIN signals))
        /\ Contested(Latest.conflicts) = InConflict

ReadBounded == \A v \in DOMAIN states : states[v].read <= Len(signals)

IInv == /\ Types /\ Busy /\ Awaited /\ InForce /\ Recorded /\ Collected
        /\ Settled /\ ReadBounded
        /\ StateHasRules /\ DisplacedByStronger /\ ReconcileIdempotent

(***************************************************************************)
(* Signals in their order                                                  *)
(***************************************************************************)
\* A set of naturals that is not empty has a least element.
LEMMA LeastNumber ==
  ASSUME NEW S \in SUBSET Nat, S # {}
  PROVE  \E m \in S : \A k \in S : m <= k
  <1> DEFINE Less == OpToRel(<, Nat)
  <1>0. Less = {ss \in Nat \X Nat : ss[1] < ss[2]}
    BY DEF OpToRel
  <1>1. IsWellFoundedOn(Less, Nat)
    BY NatLessThanWellFounded
  <1>2. \A x, y \in Nat : <<y, x>> \in Less <=> y < x
    BY <1>0
  <1> HIDE DEF Less
  <1>3. PICK x \in S : \A y \in S : ~ (<<y, x>> \in Less)
    BY <1>1, WFMin
  <1>4. ASSUME NEW k \in S PROVE x <= k
    <2>1. x \in Nat /\ k \in Nat /\ ~ (<<k, x>> \in Less)
      BY <1>3
    <2>2. ~ (k < x)
      BY <1>2, <2>1
    <2>3. QED BY <2>1, <2>2
  <1>5. QED BY <1>4

\* Some signal of a set comes before all the others (ORDER BY observed_at,
\* then rowid).
LEMMA FirstSignal ==
  ASSUME signals \in Seq(Signal), NEW S \in SUBSET DOMAIN signals, S # {}
  PROVE  \E m \in S : \A i \in S : Before(signals, m, i)
  <1> DEFINE times == {signals[i].at : i \in S}
  <1>1. \A i \in DOMAIN signals : signals[i].at \in Nat /\ i \in Nat
    <2>1. \A t \in 1..MaxTime : t \in Nat
      OBVIOUS
    <2>2. \A i \in DOMAIN signals : signals[i] \in Signal /\ i \in Nat
      BY LenProperties, ElementOfSeq
    <2>3. QED BY <2>1, <2>2 DEF Signal
  <1>2. times \in SUBSET Nat /\ times # {}
    BY <1>1
  <1>3. PICK t \in times : \A u \in times : t <= u
    BY <1>2, LeastNumber
  <1> DEFINE early == {i \in S : signals[i].at = t}
  <1>4. early \in SUBSET Nat /\ early # {}
    BY <1>1
  <1>5. PICK m \in early : \A i \in early : m <= i
    BY <1>4, LeastNumber
  <1>6. ASSUME NEW i \in S PROVE Before(signals, m, i)
    <2>1. t <= signals[i].at /\ signals[m].at = t
      BY <1>3
    <2>2. signals[i].at = t => m <= i
      BY <1>5
    <2>3. QED BY <2>1, <2>2, <1>1, <1>2 DEF Before
  <1>7. QED BY <1>6

\* Of any set of signals there is an order: by minimal counterexample, taking
\* the first signal off.
LEMMA OrderExists ==
  ASSUME signals \in Seq(Signal), NEW S \in SUBSET DOMAIN signals
  PROVE  \E f \in Bijection(1..Cardinality(S), S) :
            \A i, j \in 1..Cardinality(S) :
                i < j => Before(signals, f[i], f[j])
  <1> DEFINE Ordered(Q) ==
        \E f \in Bijection(1..Cardinality(Q), Q) :
            \A i, j \in 1..Cardinality(Q) :
                i < j => Before(signals, f[i], f[j])
  <1> DEFINE bad == {n \in Nat : \E Q \in SUBSET DOMAIN signals :
                                    Cardinality(Q) = n /\ ~Ordered(Q)}
  <1>1. \A Q \in SUBSET DOMAIN signals :
            IsFiniteSet(Q) /\ Cardinality(Q) \in Nat
    <2>1. IsFiniteSet(1..Len(signals)) /\ DOMAIN signals = 1..Len(signals)
      BY FS_Interval, LenProperties
    <2>2. QED BY <2>1, FS_Subset, FS_CardinalityType
  <1>2. SUFFICES bad = {}
    <2>1. Cardinality(S) \notin bad
      BY <1>2
    <2>2. Ordered(S)
      BY <2>1, <1>1
    <2>3. QED BY <2>2
  <1>3. SUFFICES ASSUME bad # {} PROVE FALSE
    OBVIOUS
  <1>4. PICK n \in bad : \A k \in bad : n <= k
    <2>1. bad \in SUBSET Nat
      OBVIOUS
    <2>2. QED BY <2>1, <1>3, LeastNumber
  <1>5. PICK Q \in SUBSET DOMAIN signals : Cardinality(Q) = n /\ ~Ordered(Q)
    OBVIOUS
  <1>6. Q # {}
    <2>1. SUFFICES ASSUME Q = {} PROVE Ordered(Q)
      BY <1>5
    <2>2. Cardinality(Q) = 0
      BY <2>1, FS_EmptySet
    <2> DEFINE e == [i \in 1..0 |-> i]
    <2>3. e \in Bijection(1..Cardinality(Q), Q)
      BY <2>1, <2>2 DEF Bijection, Injection, Surjection, IsInjective
    <2>4. QED BY <2>2, <2>3
  <1>7. PICK m \in Q : \A i \in Q : Before(signals, m, i)
    BY <1>6, FirstSignal
  <1> DEFINE R == Q \ {m}
  <1>8. Cardinality(R) = n - 1 /\ n \in Nat /\ n - 1 \in Nat
    <2>1. IsFiniteSet(Q) /\ Cardinality(Q) = n
      BY <1>1, <1>5
    <2>2. Cardinality(R) = n - 1
      BY <2>1, FS_RemoveElement
    <2>3. R \in SUBSET DOMAIN signals
      OBVIOUS
    <2>4. Cardinality(R) \in Nat
      BY <2>3, <1>1
    <2>5. QED BY <2>2, <2>4
  <1>9. Ordered(R)
    <2>1. n - 1 \notin bad
      BY <1>4, <1>8
    <2>2. R \in SUBSET DOMAIN signals
      OBVIOUS
    <2>3. QED BY <2>1, <2>2, <1>8
  <1>10. PICK f \in Bijection(1..(n - 1), R) :
            \A i, j \in 1..(n - 1) : i < j => Before(signals, f[i], f[j])
    BY <1>8, <1>9
  <1> DEFINE g == [i \in 1..n |-> IF i = 1 THEN m ELSE f[i - 1]]
  <1>11. /\ f \in [1..(n - 1) -> R]
         /\ \A i, j \in 1..(n - 1) : f[i] = f[j] => i = j
         /\ \A r \in R : \E i \in 1..(n - 1) : f[i] = r
    BY <1>10 DEF Bijection, Injection, Surjection, IsInjective
  <1>12. g \in [1..n -> Q]
    <2>1. ASSUME NEW i \in 1..n PROVE g[i] \in Q
      BY <1>8, <1>11
    <2>2. QED BY <2>1
  <1>13. \A i, j \in 1..n : g[i] = g[j] => i = j
    <2>1. \A i \in 1..n : i # 1 => i - 1 \in 1..(n - 1) /\ g[i] = f[i - 1]
      BY <1>8
    <2>2. ASSUME NEW i \in 1..n, NEW j \in 1..n, g[i] = g[j], i # 1, j # 1
          PROVE  i = j
      <3>1. i - 1 = j - 1
        BY <2>1, <2>2, <1>11
      <3>2. QED BY <3>1
    <2>3. \A i \in 1..n : i # 1 => g[i] # m
      BY <2>1, <1>11
    <2>4. 1 \in 1..n => g[1] = m
      OBVIOUS
    <2>5. QED BY <2>2, <2>3, <2>4
  <1>14. \A q \in Q : \E i \in 1..n : g[i] = q
    <2>1. n >= 1
      BY <1>8
    <2>2. SUFFICES ASSUME NEW q \in Q PROVE \E i \in 1..n : g[i] = q
      OBVIOUS
    <2>3. CASE q = m
      <3>1. 1 \in 1..n /\ g[1] = m
        BY <2>1, <1>8
      <3>2. QED BY <3>1, <2>3
    <2>4. CASE q # m
      <3>1. PICK i \in 1..(n - 1) : f[i] = q
        BY <1>11, <2>4
      <3>2. i + 1 \in 1..n /\ g[i + 1] = f[i]
        BY <1>8
      <3>3. QED BY <3>1, <3>2
    <2>5. QED BY <2>3, <2>4
  <1>15. ASSUME NEW i \in 1..n, NEW j \in 1..n, i < j
         PROVE  Before(signals, g[i], g[j])
    <2>1. j - 1 \in 1..(n - 1) /\ g[j] = f[j - 1] /\ j # 1
      BY <1>8, <1>15
    <2>2. CASE i = 1
      <3>1. g[i] = m
        BY <2>2
      <3>2. g[j] \in Q
        BY <1>12
      <3>3. QED BY <3>1, <3>2, <1>7
    <2>3. CASE i # 1
      <3>1. i - 1 \in 1..(n - 1) /\ g[i] = f[i - 1] /\ i - 1 < j - 1
        BY <1>8, <1>15, <2>3
      <3>2. QED BY <3>1, <2>1, <1>10
    <2>4. QED BY <2>2, <2>3
  <1>16. g \in Bijection(1..n, Q)
    BY <1>12, <1>13, <1>14 DEF Bijection, Injection, Surjection, IsInjective
  <1>17. Ordered(Q)
    <2> HIDE DEF g
    <2>1. \E h \in Bijection(1..n, Q) :
              \A i, j \in 1..n : i < j => Before(signals, h[i], h[j])
      BY <1>15, <1>16
    <2>2. QED BY <2>1, <1>5
  <1>18. QED BY <1>17, <1>5

\* list_structured_signals returns every signal asked for, and nothing else.
LEMMA InOrderFacts ==
  ASSUME signals \in Seq(Signal), NEW S \in SUBSET DOMAIN signals,
         NEW listed, listed = InOrder(signals, S)
  PROVE  /\ listed \in Seq(Signal) /\ Len(listed) = Cardinality(S)
         /\ \A k \in DOMAIN listed : \E i \in S : listed[k] = signals[i]
         /\ \A i \in S : \E k \in DOMAIN listed : listed[k] = signals[i]
  <1> DEFINE f == Order(signals, S)
  <1>1. f \in Bijection(1..Cardinality(S), S)
    BY OrderExists DEF Order
  <1>2. /\ f \in [1..Cardinality(S) -> S]
        /\ \A i \in S : \E k \in 1..Cardinality(S) : f[k] = i
    BY <1>1 DEF Bijection, Injection, Surjection
  <1>3. Cardinality(S) \in Nat
    <2>1. IsFiniteSet(1..Len(signals)) /\ DOMAIN signals = 1..Len(signals)
      BY FS_Interval, LenProperties
    <2>2. QED BY <2>1, FS_Subset, FS_CardinalityType
  <1>4. \A i \in S : signals[i] \in Signal
    BY ElementOfSeq
  <1>5. listed = [k \in 1..Cardinality(S) |-> signals[f[k]]]
    BY DEF InOrder
  <1> HIDE DEF f
  <1>6. listed \in [1..Cardinality(S) -> Signal]
    BY <1>2, <1>4, <1>5
  <1>7. listed \in Seq(Signal) /\ Len(listed) = Cardinality(S)
    BY <1>3, <1>6, IsASeq, LenProperties
  <1>8. \A k \in DOMAIN listed : \E i \in S : listed[k] = signals[i]
    BY <1>2, <1>5
  <1>9. \A i \in S : \E k \in DOMAIN listed : listed[k] = signals[i]
    BY <1>2, <1>5
  <1>10. QED BY <1>7, <1>8, <1>9

(***************************************************************************)
(* Rules                                                                   *)
(***************************************************************************)
\* The numbers a rule and a signal are compared by.
LEMMA Comparable ==
  ASSUME rules \in Seq(Rule)
  PROVE  /\ \A i \in DOMAIN rules :
               /\ i \in Nat /\ rules[i] \in Rule
               /\ rules[i].authority \in Nat /\ rules[i].at \in 1..MaxTime
         /\ \A s \in Signal : s.authority \in Nat /\ s.at \in Nat
  <1>1. \A t \in 1..MaxTime : t \in Nat
    OBVIOUS
  <1>2. \A t \in 1..MaxAuthority : t \in Nat
    OBVIOUS
  <1>3. \A i \in DOMAIN rules : rules[i] \in Rule /\ i \in Nat
    BY LenProperties, ElementOfSeq
  <1>4. QED BY <1>1, <1>2, <1>3 DEF Rule, Signal

\* If a rule is in force, the prior rule is one of them.
LEMMA PriorInForce ==
  ASSUME rules \in Seq(Rule), Active # {}
  PROVE  Prior \in Active
  <1> DEFINE ages == {MaxTime - rules[i].at : i \in Active}
  <1>1. \A i \in Active : i \in Nat /\ rules[i].at \in 1..MaxTime
    BY Comparable DEF Active
  <1>2. MaxTime \in Nat
    BY BookAssumption
  <1>3. ages \in SUBSET Nat /\ ages # {}
    BY <1>1, <1>2
  <1>4. PICK a \in ages : \A b \in ages : a <= b
    BY <1>3, LeastNumber
  <1> DEFINE last == {i \in Active : MaxTime - rules[i].at = a}
  <1>5. last \in SUBSET Nat /\ last # {}
    BY <1>1
  <1>6. PICK p \in last : \A i \in last : p <= i
    BY <1>5, LeastNumber
  <1>7. ASSUME NEW j \in Active
        PROVE  \/ rules[j].at < rules[p].at
               \/ rules[j].at = rules[p].at /\ p <= j
    <2>1. MaxTime - rules[p].at <= MaxTime - rules[j].at
      BY <1>4, <1>6
    <2>2. MaxTime - rules[p].at = a
      BY <1>6
    <2>3. rules[j].at = rules[p].at => p <= j
      BY <2>2, <1>6
    <2>4. rules[p].at \in Nat /\ rules[j].at \in Nat
      BY <1>1
    <2>5. QED BY <2>1, <2>3, <2>4, <1>2
  <1>8. p \in Active
    BY <1>6
  <1>9. QED BY <1>7, <1>8 DEF Prior

\* A signal and its rule match, and the rule is as strong as the signal.
LEMMA NewRuleFacts ==
  ASSUME NEW s \in Signal, NEW status \in {"ACTIVE", "SUPERSEDED", "CONFLICTED"}
  PROVE  /\ NewRule(s, status) \in Rule
         /\ Matches(NewRule(s, status), s)
         /\ NewRule(s, status).status = status
         /\ NewRule(s, status).authority = s.authority
         /\ NewRule(s, status).at = s.at
  BY DEF NewRule, Rule, Signal, Matches

\* What was reconciled stays so: rules are added and change their status.
LEMMA KnownStays ==
  ASSUME rules \in Seq(Rule), rules' \in Seq(Rule),
         \A i \in DOMAIN rules :
            /\ i \in DOMAIN rules'
            /\ rules'[i].source = rules[i].source
            /\ rules'[i].value = rules[i].value,
         NEW s, Known(s)
  PROVE  Known(s)'
  BY DEF Known, Matches

\* Appending a rule.
LEMMA Appended ==
  ASSUME rules \in Seq(Rule), NEW r \in Rule, rules' = Append(rules, r)
  PROVE  /\ rules' \in Seq(Rule) /\ rules' # <<>>
         /\ Len(rules) + 1 \in DOMAIN rules' /\ rules'[Len(rules) + 1] = r
         /\ \A i \in DOMAIN rules : i \in DOMAIN rules' /\ rules'[i] = rules[i]
         /\ \A i \in DOMAIN rules' : i \in DOMAIN rules \/ i = Len(rules) + 1
  <1>1. Len(rules) \in Nat /\ DOMAIN rules = 1..Len(rules)
    BY LenProperties
  <1>2. /\ rules' \in Seq(Rule) /\ Len(rules') = Len(rules) + 1
        /\ rules'[Len(rules) + 1] = r
        /\ \A i \in 1..Len(rules) : rules'[i] = rules[i]
    BY AppendProperties
  <1>3. DOMAIN rules' = 1..(Len(rules) + 1)
    BY <1>2, LenProperties
  <1>4. rules' # <<>>
    BY <1>1, <1>2, EmptySeq
  <1>5. QED BY <1>1, <1>2, <1>3, <1>4

\* A conflict is put on the list.
LEMMA ListedConflict ==
  ASSUME NEW list \in Seq(Conflict), NEW c \in Conflict
  PROVE  /\ Append(list, c) \in Seq(Conflict)
         /\ Contested(Append(list, c)) = Contested(list) \cup {c.rule}
  <1>1. /\ Append(list, c) \in Seq(Conflict)
        /\ Len(Append(list, c)) = Len(list) + 1
        /\ Append(list, c)[Len(list) + 1] = c
        /\ \A k \in 1..Len(list) : Append(list, c)[k] = list[k]
    BY AppendProperties
  <1>2. /\ Len(list) \in Nat /\ DOMAIN list = 1..Len(list)
        /\ DOMAIN Append(list, c) = 1..(Len(list) + 1)
    BY <1>1, LenProperties
  <1>3. PICK longer : longer = Append(list, c)
    OBVIOUS
  <1>4. Range(longer) = Range(list) \cup {c}
    <2>1. DOMAIN longer = DOMAIN list \cup {Len(list) + 1}
      BY <1>2, <1>3
    <2>2. \A k \in DOMAIN list : longer[k] = list[k]
      BY <1>1, <1>2, <1>3
    <2>3. longer[Len(list) + 1] = c
      BY <1>1, <1>3
    <2>4. QED BY <2>1, <2>2, <2>3 DEF Range
  <1>5. QED BY <1>1, <1>3, <1>4 DEF Contested

\* Nothing is on an empty list.
LEMMA NoConflict ==
  /\ <<>> \in Seq(Conflict) /\ Contested(<<>>) = {}
  <1>1. DOMAIN <<>> = {}
    OBVIOUS
  <1>2. QED BY <1>1 DEF Contested, Range

\* The rule that is looked up for a known signal is the one there is.
LEMMA ExistingMatches ==
  ASSUME IInv, NEW s, Known(s), NEW e, e = Existing(s)
  PROVE  e \in DOMAIN rules /\ Matches(rules[e], s)
  <1>1. PICK i \in DOMAIN rules : Matches(rules[i], s)
    BY DEF Known
  <1>2. DOMAIN rules = 1..Len(rules) /\ Len(rules) \in Nat
    BY LenProperties DEF IInv, Types
  <1>3. ASSUME NEW j \in 1..(i - 1) PROVE ~Matches(rules[j], s)
    <2>1. j \in DOMAIN rules /\ j # i
      BY <1>1, <1>2
    <2>2. QED BY <1>1, <2>1 DEF IInv, Recorded, Matches
  <1>4. QED BY <1>1, <1>3 DEF Existing

(***************************************************************************)
(* Steps                                                                   *)
(***************************************************************************)
\* In the initial state there is nothing.
LEMMA InitBook == Init => IInv
  <1> SUFFICES ASSUME Init PROVE IInv
    OBVIOUS
  <1>1. \A S : <<>> \in Seq(S) /\ DOMAIN <<>> = {} /\ Len(<<>>) = 0
    OBVIOUS
  <1>2. Types
    BY <1>1, BookAssumption DEF Init, Types
  <1>3. Busy /\ Awaited /\ InForce /\ Recorded /\ Collected /\ Settled
        /\ ReadBounded
    BY <1>1 DEF Init, Busy, Awaited, InForce, Recorded, Collected, Settled,
                ReadBounded, Reconciling
  <1>4. StateHasRules /\ DisplacedByStronger /\ ReconcileIdempotent
    BY <1>1 DEF Init, StateHasRules, DisplacedByStronger,
                ReconcileIdempotent
  <1>5. QED BY <1>2, <1>3, <1>4 DEF IInv

\* A step that leaves signals, rules and states alone, and does not go past
\* a rule that is being replaced.
LEMMA QuietStep ==
  ASSUME IInv, UNCHANGED <<signals, rules, states>>,
         pc = "record" => crashes' # 0,
         pc = "record" => \E i \in RuleSignals : ~Known(signals[i]),
         crashes' = 0 => crashes = 0
  PROVE  /\ InForce' /\ Recorded' /\ Settled' /\ ReadBounded'
         /\ StateHasRules' /\ DisplacedByStronger' /\ ReconcileIdempotent'
  <1>1. RuleSignals' = RuleSignals /\ Active' = Active
    BY DEF RuleSignals, Active, IsRule
  <1>2. \A s : Known(s)' <=> Known(s)
    BY DEF Known, Matches
  <1>3. InForce'
    BY <1>1, <1>2 DEF IInv, InForce
  <1>4. InConflict' = InConflict /\ Recorded'
    BY <1>1 DEF InConflict, IInv, Recorded, Matches
  <1>5. Settled'
    <2>1. ASSUME states' # <<>>, Latest'.read = Len(signals)'
          PROVE  /\ \A i \in RuleSignals' : Known(signals[i])'
                 /\ Latest'.active = Active'
                 /\ Latest'.metric = Metric(InOrder(signals, DOMAIN signals))'
                 /\ Contested(Latest'.conflicts) = InConflict'
      <3>1. Latest' = Latest
        BY DEF Latest
      <3>2. /\ \A i \in RuleSignals : Known(signals[i])
            /\ Latest.active = Active
            /\ Latest.metric = Metric(InOrder(signals, DOMAIN signals))
            /\ Contested(Latest.conflicts) = InConflict
        BY <2>1, <3>1 DEF IInv, Settled
      <3>3. \A i \in RuleSignals' : Known(signals[i])'
        BY <3>2, <1>1, <1>2
      <3>4. Latest'.active = Active'
        BY <3>1, <3>2, <1>1
      <3>5. Latest'.metric = Metric(InOrder(signals, DOMAIN signals))'
        BY <3>1, <3>2
      <3>6. Contested(Latest'.conflicts) = InConflict'
        BY <3>1, <3>2, <1>4
      <3>7. QED BY <3>3, <3>4, <3>5, <3>6
    <2>2. QED BY <2>1 DEF Settled
  <1>6. ReadBounded' /\ ReconcileIdempotent'
    BY DEF IInv, ReadBounded, ReconcileIdempotent
  <1>7. StateHasRules'
    BY <1>1 DEF IInv, StateHasRules
  <1>8. DisplacedByStronger'
    BY <1>1 DEF IInv, DisplacedByStronger
  <1>9. QED BY <1>3, <1>4, <1>5, <1>6, <1>7, <1>8

\* While a rule is replaced, the first signal of the queue is one of the
\* stored rule signals, and has no rule yet.
LEMMA ReplacedFor ==
  ASSUME IInv, pc \in {"rules", "record"}
  PROVE  /\ queue # <<>> /\ Head(queue) \in Signal
         /\ \E i \in RuleSignals : Head(queue) = signals[i]
  <1>1. queue # <<>> /\ queue \in Seq(Signal)
    BY DEF IInv, Busy, Types
  <1>2. Len(queue) \in Nat \ {0} /\ DOMAIN queue = 1..Len(queue)
    BY <1>1, EmptySeq, LenProperties
  <1>3. 1 \in DOMAIN queue /\ Head(queue) = queue[1]
    BY <1>1, <1>2
  <1>4. queue[1] \in Signal
    BY <1>1, <1>2, <1>3, ElementOfSeq
  <1>5. \E i \in RuleSignals : queue[1] = signals[i]
    BY <1>3 DEF IInv, Busy
  <1>6. QED BY <1>1, <1>3, <1>4, <1>5

\* observe_source adds a source.
LEMMA ObserveStep ==
  ASSUME IInv, ObserveSource
  PROVE  IInv'
  <1>1. PICK at \in 1..MaxTime : sources' = Append(sources, at)
    BY DEF ObserveSource
  <1>2. sources' \in Seq(1..MaxTime) /\ Len(sources') = Len(sources) + 1
    BY <1>1, AppendProperties DEF IInv, Types
  <1>3. Types'
    <2>1. Len(sources) \in Nat /\ MaxSources \in Nat
      BY LenProperties, BookAssumption DEF IInv, Types
    <2>2. Len(sources') <= MaxSources
      BY <1>2, <2>1 DEF ObserveSource
    <2>3. QED BY <1>2, <2>2 DEF IInv, Types, ObserveSource, work
  <1>4. Busy' /\ Awaited' /\ Collected'
    BY DEF IInv, ObserveSource, work, Busy, Awaited, Collected, Reconciling
  <1>5. QED BY <1>3, <1>4, QuietStep DEF IInv, ObserveSource, work

\* extract reads one or two signals out of a source.
LEMMA ExtractStep ==
  ASSUME IInv, Extract
  PROVE  IInv'
  <1>1. PICK s \in DOMAIN sources, n \in 1..2 :
          \E kinds \in [1..n -> {"rule", "metric"}],
             values \in [1..n -> Values],
             ranks \in [1..n -> 1..MaxAuthority] :
             queue' = [i \in 1..n |->
                          [kind |-> kinds[i], source |-> s,
                           value |-> values[i], authority |-> ranks[i],
                           at |-> sources[s]]]
    BY DEF Extract
  <1>2. PICK kinds \in [1..n -> {"rule", "metric"}],
             values \in [1..n -> Values],
             ranks \in [1..n -> 1..MaxAuthority] :
             queue' = [i \in 1..n |->
                          [kind |-> kinds[i], source |-> s,
                           value |-> values[i], authority |-> ranks[i],
                           at |-> sources[s]]]
    BY <1>1
  <1>3. sources[s] \in 1..MaxTime /\ s \in 1..MaxSources
    <2>1. Len(sources) \in Nat /\ s \in 1..Len(sources)
      BY LenProperties DEF IInv, Types
    <2>2. sources[s] \in 1..MaxTime
      BY <2>1, ElementOfSeq DEF IInv, Types
    <2>3. Len(sources) <= MaxSources /\ MaxSources \in Nat
      BY BookAssumption DEF IInv, Types
    <2>4. QED BY <2>1, <2>2, <2>3
  <1>4. \A i \in 1..n : queue'[i] \in Signal
    BY <1>2, <1>3 DEF Signal
  <1>5. queue' \in [1..n -> Signal] /\ n \in Nat /\ n # 0
    BY <1>2, <1>4
  <1>6. queue' \in Seq(Signal) /\ Len(queue') = n
    BY <1>5, LenProperties
  <1>7. queue' # <<>>
    BY <1>5, <1>6, EmptySeq
  <1>8. Types'
    BY <1>6 DEF IInv, Types, Extract, tables
  <1>9. Busy' /\ Awaited' /\ Collected'
    BY <1>7 DEF IInv, Extract, Busy, Awaited, Collected, Reconciling
  <1>10. QED BY <1>8, <1>9, QuietStep DEF IInv, Extract, tables

\* A call dies.
LEMMA CrashStep ==
  ASSUME IInv, Crash
  PROVE  IInv'
  <1>1. Types'
    BY EmptySeq DEF IInv, Types, Crash, Leave, tables
  <1>2. Busy' /\ Awaited' /\ Collected'
    BY DEF Crash, Leave, Busy, Awaited, Collected, Reconciling
  <1>3. pc = "record" => \E i \in RuleSignals : ~Known(signals[i])
    <2>1. SUFFICES ASSUME pc = "record"
                   PROVE  \E i \in RuleSignals : ~Known(signals[i])
      OBVIOUS
    <2>2. PICK i \in RuleSignals : Head(queue) = signals[i]
      BY <2>1, ReplacedFor
    <2>3. ~Known(Head(queue))
      BY <2>1 DEF IInv, Busy
    <2>4. QED BY <2>2, <2>3
  <1>4. crashes' \in Nat \ {0}
    BY DEF Crash, IInv, Types
  <1>5. QED BY <1>1, <1>2, <1>3, <1>4, QuietStep DEF IInv, Crash, tables

\* reconcile reads all signals and queues the rules among them.
LEMMA ReconcileStep ==
  ASSUME IInv, Reconcile
  PROVE  IInv'
  <1>0. signals \in Seq(Signal) /\ RuleSignals \in SUBSET DOMAIN signals
    BY DEF IInv, Types, RuleSignals
  <1>1. seen' \in Seq(Signal)
    <2>1. seen' = InOrder(signals, DOMAIN signals)
      BY DEF Reconcile
    <2>2. DOMAIN signals \in SUBSET DOMAIN signals
      OBVIOUS
    <2>3. QED BY <1>0, <2>1, <2>2, InOrderFacts
  <1>2. /\ queue' \in Seq(Signal)
        /\ \A k \in DOMAIN queue' : \E i \in RuleSignals : queue'[k] = signals[i]
        /\ \A i \in RuleSignals : \E k \in DOMAIN queue' : queue'[k] = signals[i]
    <2>1. queue' = InOrder(signals, RuleSignals)
      BY DEF Reconcile
    <2>2. QED BY <1>0, <2>1, InOrderFacts
  <1>3. Types'
    BY <1>1, <1>2 DEF IInv, Types, Reconcile, tables
  <1>4. RuleSignals' = RuleSignals /\ signals' = signals
    BY DEF Reconcile, tables, RuleSignals, IsRule
  <1>5. /\ pc' \in {"signals", "rules", "record"} => queue' # <<>>
        /\ pc' = "state" => queue' = <<>>
        /\ pc' # "record"
    BY DEF Reconcile
  <1>6. seen' = InOrder(signals', DOMAIN signals')
    BY <1>4 DEF Reconcile
  <1>7. Busy'
    BY <1>2, <1>4, <1>5, <1>6 DEF Busy
  <1>8. Awaited'
    BY <1>2, <1>4 DEF Awaited
  <1>9. Collected'
    <2>1. conflicts' = <<>>
      BY DEF IInv, Collected, Reconciling, Reconcile
    <2>2. Contested(conflicts') = {}
      BY <2>1, NoConflict
    <2>3. ASSUME NEW i \in InConflict'
          PROVE  \E k \in DOMAIN queue' : Matches(rules'[i], queue'[k])
      <3>1. i \in DOMAIN rules /\ rules' = rules
        BY DEF InConflict, Reconcile, tables
      <3>2. PICK j \in RuleSignals : Matches(rules[i], signals[j])
        BY <3>1 DEF IInv, Recorded
      <3>3. PICK k \in DOMAIN queue' : queue'[k] = signals[j]
        BY <1>2
      <3>4. QED BY <3>1, <3>2, <3>3
    <2>4. QED BY <2>1, <2>2, <2>3 DEF Collected, Matches
  <1>10. QED BY <1>3, <1>7, <1>8, <1>9, QuietStep DEF IInv, Reconcile, tables

\* extract saves a signal: what was read before it stays as it was, and the
\* state saved last has not read it.
LEMMA SaveSignalStep ==
  ASSUME IInv, SaveSignal
  PROVE  IInv'
  <1>1. signals \in Seq(Signal) /\ queue \in Seq(Signal) /\ queue # <<>>
    BY DEF IInv, Types, Busy, SaveSignal
  <1>2. Len(queue) \in Nat \ {0} /\ Head(queue) \in Signal
        /\ Tail(queue) \in Seq(Signal) /\ Len(Tail(queue)) = Len(queue) - 1
    BY <1>1, EmptySeq, HeadTailProperties
  <1>3. /\ signals' \in Seq(Signal) /\ Len(signals') = Len(signals) + 1
        /\ Len(signals) \in Nat /\ DOMAIN signals = 1..Len(signals)
        /\ DOMAIN signals' = 1..(Len(signals) + 1)
        /\ \A i \in DOMAIN signals : signals'[i] = signals[i]
    <2>1. signals' = Append(signals, Head(queue))
      BY DEF SaveSignal
    <2>2. QED BY <1>1, <1>2, <2>1, AppendProperties, LenProperties
  <1>4. /\ queue' \in Seq(Signal) /\ seen' \in Seq(Signal)
        /\ pc' \in {"idle", "signals"}
        /\ pc' = "signals" => queue' # <<>>
    <2>1. CASE Len(queue) = 1
      BY <2>1, EmptySeq DEF SaveSignal, Leave
    <2>2. CASE Len(queue) # 1
      <3>1. Len(Tail(queue)) # 0
        BY <1>2, <2>2
      <3>2. Tail(queue) # <<>>
        BY <3>1, EmptySeq
      <3>3. QED BY <1>2, <2>2, <3>2 DEF SaveSignal, IInv, Types
    <2>3. QED BY <2>1, <2>2
  <1>5. Types'
    BY <1>3, <1>4 DEF IInv, Types, SaveSignal, Leave
  <1>6. Busy' /\ Awaited' /\ Collected'
    <2>1. conflicts = <<>>
      BY DEF IInv, Collected, Reconciling, SaveSignal
    <2>2. conflicts' = <<>>
      BY <2>1 DEF SaveSignal, Leave
    <2>3. QED BY <2>2, <1>4 DEF Busy, Awaited, Collected, Reconciling
  <1>7. /\ \A i \in RuleSignals : i \in RuleSignals' /\ signals'[i] = signals[i]
        /\ \A i \in RuleSignals' : i <= Len(signals) => i \in RuleSignals
    BY <1>3 DEF RuleSignals, IsRule
  <1>8. InForce'
    <2>1. Active' = Active /\ rules' = rules
      BY DEF Active, SaveSignal
    <2>2. \A s : Known(s)' <=> Known(s)
      BY DEF Known, Matches, SaveSignal
    <2>3. ASSUME NEW i \in RuleSignals, ~Known(signals[i])
          PROVE  \E j \in RuleSignals' : ~Known(signals[j])'
      BY <2>2, <2>3, <1>7
    <2>4. pc # "record"
      BY DEF SaveSignal
    <2>5. QED BY <2>1, <2>3, <2>4 DEF IInv, InForce
  <1>9. \A v \in DOMAIN states : states[v].read \in Nat
                                 /\ states[v].read <= Len(signals)
    <2>1. \A v \in DOMAIN states : states[v] \in Stored
      BY LenProperties, ElementOfSeq DEF IInv, Types
    <2>2. QED BY <2>1 DEF Stored, IInv, ReadBounded
  <1>10. states' = states
    BY DEF SaveSignal
  <1>11. Settled'
    <2>1. SUFFICES ASSUME states # <<>>
                   PROVE  states[Len(states)].read # Len(signals')
      BY <1>10 DEF Settled, Latest
    <2>2. Len(states) \in DOMAIN states
      <3>1. states \in Seq(Stored)
        BY DEF IInv, Types
      <3>2. Len(states) \in Nat \ {0} /\ DOMAIN states = 1..Len(states)
        BY <2>1, <3>1, EmptySeq, LenProperties
      <3>3. QED BY <3>2
    <2>3. QED BY <2>2, <1>3, <1>9
  <1>12. ReadBounded'
    BY <1>3, <1>9, <1>10 DEF ReadBounded
  <1>13. StateHasRules'
    <2>1. ASSUME NEW v \in DOMAIN states, NEW i \in RuleSignals',
                 i <= states[v].read
          PROVE  states[v].active # {}
      <3>1. i \in 1..(Len(signals) + 1)
        BY <1>3 DEF RuleSignals
      <3>2. i <= Len(signals)
        BY <2>1, <3>1, <1>3, <1>9
      <3>3. QED BY <2>1, <3>2, <1>7 DEF IInv, StateHasRules
    <2>2. QED BY <2>1, <1>10 DEF StateHasRules
  <1>14. DisplacedByStronger'
    <2>1. Active' = Active /\ rules' = rules /\ crashes' = crashes
          /\ pc # "record"
      BY DEF Active, SaveSignal
    <2>2. QED BY <2>1 DEF IInv, DisplacedByStronger
  <1>15. ReconcileIdempotent'
    BY <1>10 DEF IInv, ReconcileIdempotent
  <1>16. Recorded'
    <2>1. rules' = rules
      BY DEF SaveSignal
    <2>2. ASSUME NEW i \in DOMAIN rules
          PROVE  \E j \in RuleSignals' : Matches(rules[i], signals'[j])
      <3>1. PICK j \in RuleSignals : Matches(rules[i], signals[j])
        BY DEF IInv, Recorded
      <3>2. QED BY <3>1, <1>7
    <2>3. QED BY <2>1, <2>2 DEF IInv, Recorded, Matches
  <1>17. QED
    BY <1>5, <1>6, <1>8, <1>11, <1>12, <1>13, <1>14, <1>15, <1>16 DEF IInv

\* A signal is dealt with: it has its rule now, and the queue moves on.
LEMMA ProceedStep ==
  ASSUME IInv, pc \in {"rules", "record"}, Proceed,
         UNCHANGED <<sources, signals, states>>, rules' \in Seq(Rule),
         \A i \in DOMAIN rules :
            /\ i \in DOMAIN rules'
            /\ rules'[i].source = rules[i].source
            /\ rules'[i].value = rules[i].value,
         NEW CONSTANT s, s = Head(queue), Known(s)',
         conflicts' \in Seq(Conflict),
         Contested(conflicts) \subseteq Contested(conflicts'),
         Contested(conflicts') \subseteq InConflict',
         \A i \in InConflict' : \/ i \in InConflict /\ ~Matches(rules[i], s)
                                \/ i \in Contested(conflicts')
  PROVE  /\ Types' /\ Busy' /\ Awaited' /\ Collected' /\ ReadBounded'
         /\ StateHasRules' /\ ReconcileIdempotent'
         /\ pc' \in {"rules", "state"}
  <1>1. queue \in Seq(Signal) /\ queue # <<>>
    BY ReplacedFor DEF IInv, Types
  <1>2. /\ Len(queue) \in Nat \ {0} /\ DOMAIN queue = 1..Len(queue)
        /\ Tail(queue) \in Seq(Signal) /\ Len(Tail(queue)) = Len(queue) - 1
        /\ \A k \in 1..(Len(queue) - 1) : Tail(queue)[k] = queue[k + 1]
        /\ Head(queue) = queue[1]
    BY <1>1, EmptySeq, LenProperties, HeadTailProperties
  <1>3. queue' = Tail(queue) /\ DOMAIN queue' = 1..(Len(queue) - 1)
    BY <1>2, LenProperties DEF Proceed
  <1>4. /\ pc' \in {"rules", "state"}
        /\ pc' = "rules" => queue' # <<>>
        /\ pc' = "state" => queue' = <<>>
    <2>1. CASE Len(queue) = 1
      <3>1. Len(Tail(queue)) = 0
        BY <1>2, <2>1
      <3>2. Tail(queue) = <<>>
        BY <3>1, <1>2, EmptySeq
      <3>3. QED BY <2>1, <3>2 DEF Proceed
    <2>2. CASE Len(queue) # 1
      <3>1. Len(Tail(queue)) # 0
        BY <1>2, <2>2
      <3>2. Tail(queue) # <<>>
        BY <3>1, EmptySeq
      <3>3. QED BY <2>2, <3>2 DEF Proceed
    <2>3. QED BY <2>1, <2>2
  <1>5. Types'
    BY <1>2, <1>3, <1>4 DEF IInv, Types, Proceed
  <1>6. RuleSignals' = RuleSignals
    BY DEF RuleSignals, IsRule
  <1>7. Busy'
    <2>1. seen' = InOrder(signals', DOMAIN signals')
      BY DEF IInv, Busy, Reconciling, Proceed
    <2>2. ASSUME NEW k \in DOMAIN queue'
          PROVE  \E i \in RuleSignals' : queue'[k] = signals'[i]
      <3>1. k + 1 \in DOMAIN queue /\ queue'[k] = queue[k + 1]
        BY <1>2, <1>3
      <3>2. PICK i \in RuleSignals : queue[k + 1] = signals[i]
        BY <3>1 DEF IInv, Busy
      <3>3. QED BY <3>1, <3>2, <1>6
    <2>3. QED BY <2>1, <2>2, <1>4 DEF Busy
  <1>8. Awaited'
    <2>1. SUFFICES ASSUME NEW i \in RuleSignals
                   PROVE  \/ Known(signals[i])'
                          \/ \E k \in DOMAIN queue' : queue'[k] = signals'[i]
      BY <1>6 DEF Awaited
    <2>2. CASE Known(signals[i])
      <3>1. rules \in Seq(Rule) /\ signals'[i] = signals[i]
        BY DEF IInv, Types
      <3>2. QED BY <2>2, <3>1, KnownStays
    <2>3. CASE ~Known(signals[i])
      <3>1. PICK k \in DOMAIN queue : queue[k] = signals[i]
        BY <2>3 DEF IInv, Awaited, Reconciling
      <3>2. CASE k = 1
        <4>1. signals'[i] = s
          BY <3>1, <3>2, <1>2
        <4>2. QED BY <4>1
      <3>3. CASE k # 1
        <4>1. k - 1 \in DOMAIN queue' /\ queue'[k - 1] = queue[k]
          BY <3>3, <1>2, <1>3
        <4>2. QED BY <4>1, <3>1
      <3>4. QED BY <3>2, <3>3
    <2>4. QED BY <2>2, <2>3
  <1>9. ReadBounded' /\ ReconcileIdempotent'
    BY DEF IInv, ReadBounded, ReconcileIdempotent
  <1>10. StateHasRules'
    BY <1>6 DEF IInv, StateHasRules
  <1>11. Collected'
    <2>1. SUFFICES ASSUME NEW i \in InConflict, ~Matches(rules[i], s),
                          i \notin Contested(conflicts')
                   PROVE  \E k \in DOMAIN queue' :
                              Matches(rules'[i], queue'[k])
      BY <1>4 DEF Collected, Reconciling, Matches
    <2>2. PICK k \in DOMAIN queue : Matches(rules[i], queue[k])
      BY <2>1 DEF IInv, Collected, Reconciling
    <2>3. k # 1
      BY <2>1, <2>2, <1>2
    <2>4. k - 1 \in DOMAIN queue' /\ queue'[k - 1] = queue[k]
      BY <2>3, <1>2, <1>3
    <2>5. /\ rules'[i].source = rules[i].source
          /\ rules'[i].value = rules[i].value
      BY DEF InConflict
    <2>6. QED BY <2>2, <2>4, <2>5 DEF Matches
  <1>12. QED BY <1>4, <1>5, <1>7, <1>8, <1>9, <1>10, <1>11

\* The signal was reconciled before.
LEMMA SkipStep ==
  ASSUME IInv, SkipKnown
  PROVE  IInv'
  <1>1. /\ pc = "rules" /\ Proceed /\ Known(Head(queue))
        /\ UNCHANGED <<sources, signals, states, rules, crashes>>
    BY DEF SkipKnown, Proceed, tables
  <1>2. PICK s : s = Head(queue)
    OBVIOUS
  <1>3. Known(s)'
    BY <1>1, <1>2 DEF Known, Matches
  <1>4. rules' \in Seq(Rule)
    BY <1>1 DEF IInv, Types
  <1>5. PICK e : e = Existing(s)
    OBVIOUS
  <1>6. e \in DOMAIN rules /\ Matches(rules[e], s) /\ e \in Nat
    BY <1>1, <1>2, <1>5, ExistingMatches, LenProperties DEF IInv, Types
  <1>7. /\ conflicts \in Seq(Conflict)
        /\ Contested(conflicts) \subseteq InConflict
        /\ InConflict' = InConflict
    BY <1>1 DEF IInv, Types, Collected, Reconciling, InConflict
  <1>8. /\ conflicts' \in Seq(Conflict)
        /\ Contested(conflicts) \subseteq Contested(conflicts')
        /\ Contested(conflicts') \subseteq InConflict
        /\ e \in InConflict => e \in Contested(conflicts')
    <2>1. CASE rules[e].status = "CONFLICTED"
      <3>1. PICK c \in Conflict : c = [rule |-> e, category |-> FALSE]
        BY <1>6 DEF Conflict
      <3>2. conflicts' = Append(conflicts, c)
        BY <2>1, <3>1, <1>2, <1>5 DEF SkipKnown
      <3>3. Contested(conflicts') = Contested(conflicts) \cup {c.rule}
            /\ conflicts' \in Seq(Conflict)
        BY <3>2, <1>7, ListedConflict
      <3>4. c.rule = e /\ e \in InConflict
        BY <2>1, <3>1, <1>6 DEF InConflict
      <3>5. QED BY <3>3, <3>4, <1>7
    <2>2. CASE rules[e].status # "CONFLICTED"
      <3>1. conflicts' = conflicts
        BY <2>2, <1>2, <1>5 DEF SkipKnown
      <3>2. QED BY <2>2, <3>1, <1>7 DEF InConflict
    <2>3. QED BY <2>1, <2>2
  <1>9. ASSUME NEW i \in InConflict', Matches(rules[i], s)
        PROVE  i \in Contested(conflicts')
    <2>1. i \in DOMAIN rules /\ i \in InConflict
      BY <1>7 DEF InConflict
    <2>2. i = e
      BY <2>1, <1>6, <1>9 DEF IInv, Recorded, Matches
    <2>3. QED BY <2>1, <2>2, <1>8
  <1>10. /\ Types' /\ Busy' /\ Awaited' /\ Collected' /\ ReadBounded'
         /\ StateHasRules' /\ ReconcileIdempotent'
    BY <1>1, <1>2, <1>3, <1>4, <1>7, <1>8, <1>9, ProceedStep
  <1>11. InForce' /\ Recorded' /\ Settled' /\ DisplacedByStronger'
    BY <1>1, QuietStep
  <1>12. QED BY <1>10, <1>11 DEF IInv

\* A signal without a rule, in the queue: the state saved last has not seen
\* all signals, so nothing is claimed of it.
LEMMA Unsettled ==
  ASSUME IInv, pc \in {"rules", "record"}, ~Known(Head(queue)),
         UNCHANGED <<signals, states>>
  PROVE  Settled'
  <1>1. PICK i \in RuleSignals : Head(queue) = signals[i]
    BY ReplacedFor
  <1>2. ~ (states # <<>> /\ Latest.read = Len(signals))
    BY <1>1 DEF IInv, Settled
  <1>3. QED BY <1>2 DEF Settled, Latest

\* A rule is added for the first signal of the queue.  If no rule is being
\* replaced for it, those in force stay; if one is, the new one is in force.
LEMMA AddStep ==
  ASSUME IInv, pc \in {"rules", "record"}, ~Known(Head(queue)), Proceed,
         UNCHANGED <<sources, signals, states>>,
         NEW CONSTANT status \in {"ACTIVE", "CONFLICTED"},
         rules' = Append(rules, NewRule(Head(queue), status)),
         pc = "record" => status = "ACTIVE",
         status = "ACTIVE" \/ Active # {},
         conflicts' = IF status = "ACTIVE" THEN conflicts
                      ELSE Append(conflicts,
                                  [rule |-> Len(rules'), category |-> TRUE])
  PROVE  IInv'
  <1>1. Head(queue) \in Signal /\ rules \in Seq(Rule)
    BY ReplacedFor DEF IInv, Types
  <1>2. PICK s \in Signal : s = Head(queue)
    BY <1>1
  <1>3. PICK r \in Rule : /\ rules' = Append(rules, r) /\ Matches(r, s)
                          /\ r.status = status /\ r.authority = s.authority
                          /\ r.at = s.at
    BY <1>2, NewRuleFacts
  <1>4. /\ rules' \in Seq(Rule) /\ rules' # <<>>
        /\ Len(rules) + 1 \in DOMAIN rules' /\ rules'[Len(rules) + 1] = r
        /\ \A i \in DOMAIN rules : i \in DOMAIN rules' /\ rules'[i] = rules[i]
        /\ \A i \in DOMAIN rules' : i \in DOMAIN rules \/ i = Len(rules) + 1
    BY <1>1, <1>3, Appended
  <1>5. Known(s)'
    BY <1>3, <1>4 DEF Known
  <1>6. /\ Types' /\ Busy' /\ Awaited' /\ Collected' /\ ReadBounded'
        /\ StateHasRules' /\ ReconcileIdempotent' /\ pc' # "record"
    <2>1. /\ conflicts \in Seq(Conflict)
          /\ Contested(conflicts) \subseteq InConflict
      BY DEF IInv, Types, Collected, Reconciling
    <2>2. InConflict' = InConflict \cup
              (IF status = "ACTIVE" THEN {} ELSE {Len(rules) + 1})
      BY <1>3, <1>4 DEF InConflict
    <2>3. /\ conflicts' \in Seq(Conflict)
          /\ Contested(conflicts') = Contested(conflicts) \cup
                (IF status = "ACTIVE" THEN {} ELSE {Len(rules) + 1})
      <3>1. CASE status = "ACTIVE"
        BY <2>1, <3>1
      <3>2. CASE status # "ACTIVE"
        <4>1. Len(rules') = Len(rules) + 1 /\ Len(rules) + 1 \in Nat
          BY <1>1, <1>3, AppendProperties, LenProperties
        <4>2. PICK c \in Conflict : c = [rule |-> Len(rules) + 1,
                                         category |-> TRUE]
          BY <4>1 DEF Conflict
        <4>3. conflicts' = Append(conflicts, c)
          BY <3>2, <4>1, <4>2
        <4>4. c.rule = Len(rules) + 1
          BY <4>2
        <4>5. QED BY <2>1, <3>2, <4>3, <4>4, ListedConflict
      <3>3. QED BY <3>1, <3>2
    <2>4. \A i \in InConflict : ~Matches(rules[i], s)
      BY <1>2 DEF InConflict, Known
    <2>5. QED BY <1>2, <1>4, <1>5, <2>1, <2>2, <2>3, <2>4, ProceedStep
  <1>7. /\ Active \subseteq Active'
        /\ status = "ACTIVE" => Len(rules) + 1 \in Active'
    BY <1>3, <1>4 DEF Active
  <1>8. InForce'
    BY <1>7 DEF InForce
  <1>9. Settled'
    BY Unsettled
  <1>10. DisplacedByStronger'
    <2>1. SUFFICES ASSUME crashes = 0, NEW i \in DOMAIN rules',
                          rules'[i].status = "SUPERSEDED"
                   PROVE  \E j \in Active' : AsStrong(rules'[j], rules'[i])
      BY DEF DisplacedByStronger, Proceed
    <2>2. i \in DOMAIN rules /\ rules'[i] = rules[i]
      BY <2>1, <1>3, <1>4
    <2>3. \/ \E j \in Active : AsStrong(rules[j], rules[i])
          \/ pc = "record" /\ AsStrong(s, rules[i])
      BY <2>1, <2>2, <1>2 DEF IInv, DisplacedByStronger
    <2>4. CASE \E j \in Active : AsStrong(rules[j], rules[i])
      <3>1. PICK j \in Active : AsStrong(rules[j], rules[i])
        BY <2>4
      <3>2. j \in Active' /\ rules'[j] = rules[j]
        BY <1>4, <1>7 DEF Active
      <3>3. QED BY <3>1, <3>2, <2>2
    <2>5. CASE pc = "record" /\ AsStrong(s, rules[i])
      <3>1. Len(rules) + 1 \in Active' /\ rules'[Len(rules) + 1] = r
        BY <2>5, <1>4, <1>7
      <3>2. AsStrong(r, rules[i])
        BY <2>5, <1>3 DEF AsStrong
      <3>3. QED BY <3>1, <3>2, <2>2
    <2>6. QED BY <2>3, <2>4, <2>5
  <1>11. Recorded'
    <2>1. ASSUME NEW i \in DOMAIN rules PROVE ~Matches(rules[i], s)
      BY <1>2 DEF Known
    <2>2. ASSUME NEW i \in DOMAIN rules', NEW j \in DOMAIN rules',
                 rules'[i].source = rules'[j].source,
                 rules'[i].value = rules'[j].value
          PROVE  i = j
      <3>1. CASE i \in DOMAIN rules /\ j \in DOMAIN rules
        BY <2>2, <3>1, <1>4 DEF IInv, Recorded
      <3>2. CASE i = Len(rules) + 1 /\ j \in DOMAIN rules
        BY <2>1, <2>2, <3>2, <1>3, <1>4 DEF Matches
      <3>3. CASE j = Len(rules) + 1 /\ i \in DOMAIN rules
        BY <2>1, <2>2, <3>3, <1>3, <1>4 DEF Matches
      <3>4. QED BY <3>1, <3>2, <3>3, <1>4
    <2>3. RuleSignals' = RuleSignals /\ signals' = signals
      BY DEF RuleSignals, IsRule
    <2>4. ASSUME NEW i \in DOMAIN rules'
          PROVE  \E j \in RuleSignals : Matches(rules'[i], signals[j])
      <3>1. CASE i \in DOMAIN rules
        BY <3>1, <1>4 DEF IInv, Recorded
      <3>2. CASE i = Len(rules) + 1
        <4>1. PICK j \in RuleSignals : s = signals[j]
          BY <1>2, ReplacedFor
        <4>2. QED BY <3>2, <4>1, <1>3, <1>4
      <3>3. QED BY <3>1, <3>2, <1>4
    <2>5. QED BY <2>2, <2>3, <2>4 DEF Recorded, Matches
  <1>12. QED BY <1>6, <1>8, <1>9, <1>10, <1>11 DEF IInv

\* The prior rule is saved as SUPERSEDED: the signal is as strong as it was,
\* and so as strong as all that it had displaced.
LEMMA SupersedeStep ==
  ASSUME IInv, SupersedeRule
  PROVE  IInv'
  <1>1. /\ pc = "rules" /\ ~Known(Head(queue)) /\ Active # {}
        /\ Outranks(Head(queue), rules[Prior])
        /\ rules' = [rules EXCEPT ![Prior].status = "SUPERSEDED"]
        /\ pc' = "record"
        /\ UNCHANGED <<sources, signals, states, queue, seen, conflicts,
                       crashes>>
    BY DEF SupersedeRule, Disagrees
  <1>2. rules \in Seq(Rule) /\ Head(queue) \in Signal
    BY <1>1, ReplacedFor DEF IInv, Types
  <1>3. PICK p \in Active : p = Prior
    BY <1>1, <1>2, PriorInForce
  <1>4. p \in DOMAIN rules /\ p \in 1..Len(rules) /\ rules[p] \in Rule
    BY <1>2, LenProperties, ElementOfSeq DEF Active
  <1>5. PICK r \in Rule : r = [rules[p] EXCEPT !.status = "SUPERSEDED"]
    BY <1>4 DEF Rule
  <1>6. rules' = [rules EXCEPT ![p] = r]
    BY <1>1, <1>3, <1>5
  <1>7. /\ rules' \in Seq(Rule) /\ DOMAIN rules' = DOMAIN rules
        /\ rules'[p] = r
        /\ \A i \in DOMAIN rules : i # p => rules'[i] = rules[i]
    BY <1>2, <1>4, <1>6, ExceptSeq, LenProperties
  <1>8. /\ r.source = rules[p].source /\ r.value = rules[p].value
        /\ r.authority = rules[p].authority /\ r.at = rules[p].at
        /\ r.status = "SUPERSEDED"
    BY <1>4, <1>5 DEF Rule
  <1>9. \A s : Known(s)' <=> Known(s)
    BY <1>7, <1>8 DEF Known, Matches
  <1>10. RuleSignals' = RuleSignals
    BY <1>1 DEF RuleSignals, IsRule
  <1>11. Types'
    BY <1>1, <1>7 DEF IInv, Types
  <1>12. Busy'
    <2>1. queue # <<>> /\ seen = InOrder(signals, DOMAIN signals)
          /\ \A k \in DOMAIN queue : \E i \in RuleSignals : queue[k] = signals[i]
      BY <1>1 DEF IInv, Busy, Reconciling
    <2>2. ~Known(Head(queue))'
      BY <1>1, <1>9
    <2>3. QED BY <2>1, <2>2, <1>1, <1>10 DEF Busy
  <1>13. Awaited'
    BY <1>1, <1>9, <1>10 DEF IInv, Awaited, Reconciling
  <1>14. InForce'
    BY <1>1 DEF InForce
  <1>15. Settled'
    BY <1>1, Unsettled
  <1>16. ReadBounded' /\ ReconcileIdempotent' /\ StateHasRules'
    BY <1>1, <1>10
       DEF IInv, ReadBounded, ReconcileIdempotent, StateHasRules
  <1>17. DisplacedByStronger'
    <2>1. PICK s \in Signal : s = Head(queue)
      BY <1>2
    <2>2. AsStrong(s, rules[p])
      BY <1>1, <1>3, <2>1 DEF Outranks, AsStrong
    <2>3. SUFFICES ASSUME crashes = 0, NEW i \in DOMAIN rules,
                          rules'[i].status = "SUPERSEDED"
                   PROVE  \/ \E j \in Active' : AsStrong(rules'[j], rules'[i])
                          \/ AsStrong(s, rules'[i])
      BY <1>1, <1>7, <2>1 DEF DisplacedByStronger
    <2>4. CASE i = p
      BY <2>2, <2>4, <1>7, <1>8 DEF AsStrong
    <2>5. CASE i # p
      <3>1. rules'[i] = rules[i]
        BY <2>5, <1>7
      <3>2. PICK j \in Active : AsStrong(rules[j], rules[i])
        BY <2>3, <3>1, <1>1 DEF IInv, DisplacedByStronger
      <3>3. CASE j = p
        <4>1. /\ s.authority \in Nat /\ s.at \in Nat
              /\ rules[p].authority \in Nat /\ rules[p].at \in Nat
              /\ rules[i].authority \in Nat /\ rules[i].at \in Nat
          BY <1>2, <1>4, Comparable
        <4>2. AsStrong(s, rules[i])
          BY <4>1, <3>2, <3>3, <2>2 DEF AsStrong
        <4>3. QED BY <4>2, <3>1
      <3>4. CASE j # p
        <4>1. j \in Active' /\ rules'[j] = rules[j]
          BY <3>4, <1>7 DEF Active
        <4>2. QED BY <4>1, <3>1, <3>2
      <3>5. QED BY <3>3, <3>4
    <2>6. QED BY <2>4, <2>5
  <1>18. Recorded'
    BY <1>1, <1>7, <1>8, <1>10 DEF IInv, Recorded, Matches
  <1>19. Collected'
    <2>1. InConflict' = InConflict
      <3>1. rules[p].status = "ACTIVE"
        BY <1>3 DEF Active
      <3>2. QED BY <3>1, <1>7, <1>8 DEF InConflict
    <2>2. \A i \in InConflict : rules'[i] = rules[i]
      <3>1. p \notin InConflict
        BY <1>3 DEF Active, InConflict
      <3>2. QED BY <3>1, <1>7 DEF InConflict
    <2>3. QED BY <1>1, <2>1, <2>2 DEF IInv, Collected, Reconciling, Matches
  <1>20. QED
    BY <1>11, <1>12, <1>13, <1>14, <1>15, <1>16, <1>17, <1>18, <1>19 DEF IInv

\* The state at the end of a reconciliation: every rule signal has its rule by
\* now, so one is in force, and if no signal came after the state before, that
\* one said the same.
LEMMA SaveStateStep ==
  ASSUME IInv, SaveState
  PROVE  IInv'
  <1>1. /\ pc = "state" /\ queue = <<>>
        /\ seen = InOrder(signals, DOMAIN signals) /\ seen \in Seq(Signal)
        /\ signals \in Seq(Signal) /\ states \in Seq(Stored)
    BY DEF SaveState, IInv, Types, Busy, Reconciling
  <1>2. Len(seen) = Len(signals) /\ Len(signals) \in Nat
    <2>1. DOMAIN signals \in SUBSET DOMAIN signals
      OBVIOUS
    <2>2. Len(seen) = Cardinality(DOMAIN signals)
      BY <1>1, <2>1, InOrderFacts
    <2>3. Len(signals) \in Nat /\ DOMAIN signals = 1..Len(signals)
      BY <1>1, LenProperties
    <2>4. PICK n \in Nat : n = Len(signals)
      BY <2>3
    <2>5. Cardinality(1..n) = IF 1 > n THEN 0 ELSE n - 1 + 1
      BY FS_Interval
    <2>6. Cardinality(1..n) = n
      BY <2>5
    <2>7. QED BY <2>2, <2>3, <2>4, <2>6
  <1>3. PICK st : /\ st = NewState(Len(states) + 1, Active)
                  /\ states' = Append(states, st)
    BY DEF SaveState
  <1>4. /\ st.read = Len(signals) /\ st.active = Active
        /\ st.metric = Metric(seen) /\ st.conflicts = conflicts
        /\ Contested(conflicts) = InConflict
    <2>1. DOMAIN queue = {}
      BY <1>1
    <2>2. Contested(conflicts) = InConflict
      BY <1>1, <2>1 DEF IInv, Collected, Reconciling
    <2>3. QED BY <1>2, <1>3, <2>2 DEF NewState
  <1>5. st \in Stored
    <2>1. Len(states) + 1 \in Nat
      BY <1>1, LenProperties
    <2>2. Active \in SUBSET Nat
      BY Comparable DEF Active, IInv, Types
    <2>3. Metric(seen) \in {Metric(q) : q \in Seq(Signal)}
      BY <1>1
    <2>4. conflicts \in Seq(Conflict)
      BY DEF IInv, Types
    <2>5. QED BY <1>2, <1>3, <2>1, <2>2, <2>3, <2>4 DEF NewState, Stored
  <1>6. /\ states' \in Seq(Stored) /\ Len(states') = Len(states) + 1
        /\ Len(states) \in Nat /\ DOMAIN states = 1..Len(states)
        /\ DOMAIN states' = 1..(Len(states) + 1)
        /\ states'[Len(states) + 1] = st
        /\ \A v \in 1..Len(states) : states'[v] = states[v]
    BY <1>1, <1>3, <1>5, AppendProperties, LenProperties
  <1>7. UNCHANGED <<sources, signals, rules, crashes>> /\ pc' = "idle"
        /\ queue' = <<>> /\ seen' = <<>> /\ conflicts' = <<>>
    BY DEF SaveState, Leave
  <1>8. Types'
    BY <1>6, <1>7, EmptySeq DEF IInv, Types
  <1>9. Busy' /\ Awaited' /\ Collected'
    BY <1>7 DEF Busy, Awaited, Collected, Reconciling
  <1>10. \A i \in RuleSignals : Known(signals[i])
    BY <1>1 DEF IInv, Awaited, Reconciling
  <1>11. RuleSignals' = RuleSignals /\ Active' = Active
         /\ InConflict' = InConflict /\ (\A s : Known(s)' <=> Known(s))
         /\ Recorded'
    BY <1>7 DEF RuleSignals, IsRule, Active, InConflict, Known, Matches,
                IInv, Recorded
  <1>12. Active # {} \/ rules = <<>>
    BY <1>1, <1>10 DEF IInv, InForce
  <1>13. InForce'
    BY <1>7, <1>11, <1>12 DEF InForce
  <1>14. Settled'
    <2>1. Latest' = st
      BY <1>6 DEF Latest
    <2>2. \A i \in RuleSignals' : Known(signals[i])'
      BY <1>7, <1>10, <1>11
    <2>3. Latest'.active = Active'
      BY <2>1, <1>4, <1>11
    <2>4. Contested(Latest'.conflicts) = InConflict'
      BY <2>1, <1>4, <1>11
    <2>5. Latest'.metric = Metric(InOrder(signals, DOMAIN signals))'
      BY <2>1, <1>1, <1>4, <1>7
    <2>6. QED BY <2>2, <2>3, <2>4, <2>5 DEF Settled
  <1>15. ReadBounded'
    <2>1. ASSUME NEW v \in DOMAIN states' PROVE states'[v].read <= Len(signals)
      <3>1. CASE v = Len(states) + 1
        BY <3>1, <1>2, <1>4, <1>6
      <3>2. CASE v # Len(states) + 1
        <4>1. v \in DOMAIN states /\ states'[v] = states[v]
          BY <3>2, <1>6
        <4>2. QED BY <4>1 DEF IInv, ReadBounded
      <3>3. QED BY <3>1, <3>2
    <2>2. QED BY <2>1, <1>7 DEF ReadBounded
  <1>16. StateHasRules'
    <2>1. SUFFICES ASSUME NEW v \in DOMAIN states', NEW i \in RuleSignals,
                          i <= states'[v].read
                   PROVE  states'[v].active # {}
      BY <1>11 DEF StateHasRules
    <2>2. CASE v = Len(states) + 1
      <3>1. rules # <<>>
        <4>1. PICK k \in DOMAIN rules : Matches(rules[k], signals[i])
          BY <1>10 DEF Known
        <4>2. QED BY <4>1
      <3>2. QED BY <3>1, <2>2, <1>4, <1>6, <1>12
    <2>3. CASE v # Len(states) + 1
      <3>1. v \in DOMAIN states /\ states'[v] = states[v]
        BY <2>3, <1>6
      <3>2. QED BY <2>1, <3>1 DEF IInv, StateHasRules
    <2>4. QED BY <2>2, <2>3
  <1>17. DisplacedByStronger'
    BY <1>1, <1>7, <1>11 DEF IInv, DisplacedByStronger
  <1>18. ReconcileIdempotent'
    <2>1. SUFFICES ASSUME NEW v \in 2..Len(states'),
                          states'[v].read = states'[v - 1].read
                   PROVE  /\ states'[v].active = states'[v - 1].active
                          /\ states'[v].metric = states'[v - 1].metric
                          /\ Contested(states'[v].conflicts)
                                = Contested(states'[v - 1].conflicts)
      BY DEF ReconcileIdempotent
    <2>2. CASE v = Len(states) + 1
      <3>1. v - 1 = Len(states) /\ Len(states) \in 1..Len(states)
        BY <2>1, <2>2, <1>6
      <3>2. states'[v - 1] = Latest /\ states'[v] = st
        BY <3>1, <2>2, <1>6 DEF Latest
      <3>3. Latest.read = Len(signals)
        BY <2>1, <3>2, <1>4
      <3>4. states # <<>>
        BY <3>1, <1>6
      <3>5. /\ Latest.active = Active
            /\ Contested(Latest.conflicts) = InConflict
            /\ Latest.metric = Metric(InOrder(signals, DOMAIN signals))
        BY <3>3, <3>4 DEF IInv, Settled
      <3>6. QED BY <3>2, <3>5, <1>1, <1>4
    <2>3. CASE v # Len(states) + 1
      <3>1. v \in 2..Len(states) /\ v \in 1..Len(states)
            /\ v - 1 \in 1..Len(states)
        BY <2>3, <1>6
      <3>2. states'[v] = states[v] /\ states'[v - 1] = states[v - 1]
        BY <3>1, <1>6
      <3>3. QED BY <2>1, <3>1, <3>2 DEF IInv, ReconcileIdempotent
    <2>4. QED BY <2>2, <2>3
  <1>19. QED
    BY <1>8, <1>9, <1>11, <1>13, <1>14, <1>15, <1>16, <1>17, <1>18 DEF IInv

\* Every step keeps the invariant.
LEMMA NextBook == IInv /\ [Next]_vars => IInv'
  <1> SUFFICES ASSUME IInv, [Next]_vars PROVE IInv'
    OBVIOUS
  <1>1. CASE ObserveSource
    BY <1>1, ObserveStep
  <1>2. CASE Extract
    BY <1>2, ExtractStep
  <1>3. CASE SaveSignal
    BY <1>3, SaveSignalStep
  <1>4. CASE Reconcile
    BY <1>4, ReconcileStep
  <1>5. CASE SkipKnown
    BY <1>5, SkipStep
  <1>6. CASE RecordRule
    BY <1>6, AddStep DEF RecordRule
  <1>7. CASE SupersedeRule
    BY <1>7, SupersedeStep
  <1>8. CASE RecordSuccessor
    <2>1. ~Known(Head(queue))
      BY <1>8 DEF RecordSuccessor, IInv, Busy
    <2>2. QED BY <2>1, <1>8, AddStep DEF RecordSuccessor
  <1>9. CASE ConflictRule
    BY <1>9, AddStep DEF ConflictRule, Disagrees
  <1>10. CASE SaveState
    BY <1>10, SaveStateStep
  <1>11. CASE Crash
    BY <1>11, CrashStep
  <1>12. CASE UNCHANGED vars
    <2>1. UNCHANGED <<sources, signals, rules, states, pc, queue, seen,
                      conflicts, crashes>>
      BY <1>12 DEF vars, tables, work
    <2>2. Types'
      BY <2>1 DEF IInv, Types
    <2>3. \A s : Known(s)' <=> Known(s)
      BY <2>1 DEF Known, Matches
    <2>4. RuleSignals' = RuleSignals /\ Active' = Active
      BY <2>1 DEF RuleSignals, IsRule, Active
    <2>5. Busy' /\ Awaited' /\ Recorded' /\ Collected'
      BY <2>1, <2>3, <2>4 DEF IInv, Busy, Awaited, Recorded, Collected,
                              InConflict, Matches, Reconciling
    <2>6. CASE pc = "record"
      <3>1. PICK i \in RuleSignals : Head(queue) = signals[i]
        BY <2>6, ReplacedFor
      <3>2. Settled'
        BY <2>1, <2>6, Unsettled DEF IInv, Busy
      <3>3. InForce' /\ ReadBounded' /\ StateHasRules' /\ ReconcileIdempotent'
        BY <2>1, <2>4, <2>6 DEF IInv, InForce, ReadBounded, StateHasRules,
                                ReconcileIdempotent
      <3>4. DisplacedByStronger'
        BY <2>1, <2>4 DEF IInv, DisplacedByStronger
      <3>5. QED BY <2>2, <2>5, <3>2, <3>3, <3>4 DEF IInv
    <2>7. CASE pc # "record"
      BY <2>1, <2>2, <2>5, <2>7, QuietStep DEF IInv
    <2>8. QED BY <2>6, <2>7
  <1>13. QED
    BY <1>1, <1>2, <1>3, <1>4, <1>5, <1>6, <1>7, <1>8, <1>9, <1>10, <1>11,
       <1>12 DEF Next

\* The invariant holds always.
THEOREM BookInvariant == Spec => []IInv
  <1>1. QED BY InitBook, NextBook, PTL DEF Spec

\* A reconciliation that ran to its end knows a rule in force once any rule
\* was extracted, wherever an earlier one died between the SUPERSEDED row and
\* its successor (CompetitionRuleService.record).
THEOREM RulesStayInForce == Spec => []StateHasRules
  <1>1. IInv => StateHasRules
    BY DEF IInv
  <1>2. QED BY <1>1, BookInvariant, PTL

\* As long as no call died, a rule goes out of force only for one that is at
\* least as authoritative and as recent, through any chain of replacements
\* (_reconcile_rule).
THEOREM StrongerDisplaces == Spec => []DisplacedByStronger
  <1>1. IInv => DisplacedByStronger
    BY DEF IInv
  <1>2. QED BY <1>1, BookInvariant, PTL

\* Reconciling again without a new signal yields the same rules in force and
\* the same metric, and lists the same rules as standing in conflict, whatever
\* died in between (reconcile).  The list itself may differ: a rule that is new
\* is written with its category, a known one without.
THEOREM ReconcilingAgainAgrees == Spec => []ReconcileIdempotent
  <1>1. IInv => ReconcileIdempotent
    BY DEF IInv
  <1>2. QED BY <1>1, BookInvariant, PTL
=============================================================================
