------------------------------- MODULE RuleBook ------------------------------
(***************************************************************************)
(* CompetitionIntelligence: sources are observed, signals extracted from   *)
(* them, and reconcile turns the signals into competition rules and a      *)
(* versioned current state.                                                *)
(*                                                                         *)
(* Rules of different categories, and metrics of different names, have     *)
(* nothing to do with each other, so there is one of each; a deadline and  *)
(* a leaderboard row are chosen as a metric is.  Calls come one after the  *)
(* other and may die between two transactions.                             *)
(***************************************************************************)
EXTENDS Naturals, Sequences, SequencesExt, FiniteSets

CONSTANTS
    Values,        \* what a rule may demand, or a metric measure
    MaxTime,       \* bound: observation times, 1..MaxTime
    MaxAuthority,  \* bound: authority_priority as a rank, 1..MaxAuthority
    MaxSources,    \* bound: sources that are observed
    MaxSignals,    \* bound: signals that are extracted
    MaxStates,     \* bound: reconciliations
    MaxCrashes     \* bound: calls that die between two transactions

ASSUME BookAssumption ==
    /\ MaxTime \in Nat /\ MaxAuthority \in Nat /\ MaxSources \in Nat
    /\ MaxSignals \in Nat /\ MaxStates \in Nat /\ MaxCrashes \in Nat

VARIABLES
    sources,       \* source_observations: the time of each
    signals,       \* structured_signals, in the order of their rowid
    rules,         \* competition_rules, in the order of their rowid
    states,        \* current_competition_states
    pc,            \* idle, or the next transaction
    queue,         \* the signals still to be saved or reconciled
    prior,         \* the rule that was superseded for the first of them
    seen,          \* the signals that reconcile has read
    conflicts,     \* the conflicts that it has come upon
    crashes        \* calls that died so far

tables == <<sources, signals, rules, states>>
work == <<pc, queue, prior, seen, conflicts>>
vars == <<tables, work, crashes>>

Signal == [kind : {"rule", "metric"}, source : 1..MaxSources,
           value : Values, authority : 1..MaxAuthority, at : 1..MaxTime]
Rule == [source : 1..MaxSources, value : Values,
         authority : 1..MaxAuthority, at : 1..MaxTime,
         status : {"ACTIVE", "SUPERSEDED", "CONFLICTED"}]

\* A conflict as reconcile lists it: the rule, and whether its category is
\* written before its statement.
Conflict == [rule : Nat, category : BOOLEAN]

\* read: the signals it was made from; metric: the chosen value.
State == [version : Nat, read : 0..MaxSignals, active : SUBSET Nat,
          metric : Values \cup {"none"}, conflicts : Seq(Conflict)]

TypeOK ==
    /\ sources \in Seq(1..MaxTime) /\ Len(sources) <= MaxSources
    /\ signals \in Seq(Signal) /\ Len(signals) <= MaxSignals
    /\ rules \in Seq(Rule)
    /\ states \in Seq(State)
    /\ \A v \in DOMAIN states : states[v].version = v
    /\ pc \in {"idle", "signals", "rules", "record", "state"}
    /\ queue \in Seq(Signal) /\ seen \in Seq(Signal)
    /\ conflicts \in Seq(Conflict)
    /\ prior \in 0..Len(rules)
    /\ crashes \in 0..MaxCrashes

Init ==
    /\ sources = <<>> /\ signals = <<>> /\ rules = <<>> /\ states = <<>>
    /\ pc = "idle" /\ queue = <<>> /\ prior = 0 /\ seen = <<>>
    /\ conflicts = <<>> /\ crashes = 0

Leave ==
    /\ pc' = "idle" /\ queue' = <<>> /\ prior' = 0
    /\ seen' = <<>> /\ conflicts' = <<>>

(***************************************************************************)
(* observe_source and extract                                              *)
(***************************************************************************)
\* The caller may date an observation back.
ObserveSource ==
    /\ pc = "idle" /\ Len(sources) < MaxSources
    /\ \E at \in 1..MaxTime : sources' = Append(sources, at)
    /\ UNCHANGED <<signals, rules, states, work, crashes>>

\* One or two signals of one source.  A payload may name its own authority.
Extract ==
    /\ pc = "idle"
    /\ \E s \in DOMAIN sources, n \in 1..2 :
          \E kinds \in [1..n -> {"rule", "metric"}],
             values \in [1..n -> Values],
             ranks \in [1..n -> 1..MaxAuthority] :
             queue' = [i \in 1..n |->
                          [kind |-> kinds[i], source |-> s,
                           value |-> values[i], authority |-> ranks[i],
                           at |-> sources[s]]]
    /\ Len(signals) + Len(queue') <= MaxSignals
    /\ pc' = "signals"
    /\ UNCHANGED <<tables, prior, seen, conflicts, crashes>>

\* The extraction is saved; its signals follow one by one.
SaveSignal ==
    /\ pc = "signals"
    /\ signals' = Append(signals, Head(queue))
    /\ IF Len(queue) = 1 THEN Leave
       ELSE queue' = Tail(queue) /\ UNCHANGED <<pc, prior, seen, conflicts>>
    /\ UNCHANGED <<sources, rules, states, crashes>>

(***************************************************************************)
(* reconcile                                                               *)
(***************************************************************************)
\* list_structured_signals: by the time of the observation, then by rowid.
Before(list, i, j) == \/ list[i].at < list[j].at
                      \/ list[i].at = list[j].at /\ i <= j
Order(list, S) ==
    CHOOSE f \in Bijection(1..Cardinality(S), S) :
        \A i, j \in 1..Cardinality(S) : i < j => Before(list, f[i], f[j])
InOrder(list, S) ==
    [k \in 1..Cardinality(S) |-> list[Order(list, S)[k]]]

IsRule(s) == s.kind = "rule"
IsMetric(s) == s.kind = "metric"
RuleSignals == {i \in DOMAIN signals : IsRule(signals[i])}

Reconcile ==
    /\ pc = "idle" /\ signals # <<>> /\ Len(states) < MaxStates
    /\ seen' = InOrder(signals, DOMAIN signals)
    /\ queue' = InOrder(signals, RuleSignals)
    /\ pc' = IF queue' = <<>> THEN "state" ELSE "rules"
    /\ UNCHANGED <<tables, prior, conflicts, crashes>>

Matches(r, s) == r.source = s.source /\ r.value = s.value
NewRule(s, status) ==
    [source |-> s.source, value |-> s.value, authority |-> s.authority,
     at |-> s.at, status |-> status]

Active == {i \in DOMAIN rules : rules[i].status = "ACTIVE"}

\* max over the active rules by observed_at, the first of equals.
Prior == CHOOSE i \in Active :
             \A j \in Active : \/ rules[j].at < rules[i].at
                               \/ rules[j].at = rules[i].at /\ i <= j

\* Mutant: the newer rule wins whoever says it.
OutranksNewer(s, r) == s.at >= r.at

Outranks(s, r) == s.authority >= r.authority /\ s.at >= r.at

Proceed ==
    /\ queue' = Tail(queue) /\ prior' = 0
    /\ pc' = IF Len(queue) = 1 THEN "state" ELSE "rules"
    /\ UNCHANGED <<seen, crashes>>

\* The signal was reconciled before.
Known(s) == \E i \in DOMAIN rules : Matches(rules[i], s)

\* existing: the first rule for the signal.
Existing(s) == CHOOSE i \in DOMAIN rules :
                   /\ Matches(rules[i], s)
                   /\ \A j \in 1..(i - 1) : ~Matches(rules[j], s)

\* Mutant: the conflict of a rule that is known is not listed again.
SkipKnownSilently ==
    /\ pc = "rules" /\ Known(Head(queue))
    /\ Proceed
    /\ UNCHANGED <<tables, conflicts>>

\* A rule that stands in conflict is listed again, now as its bare statement.
SkipKnown ==
    /\ pc = "rules" /\ Known(Head(queue))
    /\ conflicts' =
          LET i == Existing(Head(queue))
          IN  IF rules[i].status = "CONFLICTED"
              THEN Append(conflicts, [rule |-> i, category |-> FALSE])
              ELSE conflicts
    /\ Proceed
    /\ UNCHANGED tables

\* The first active rule, or one that agrees with the prior one.
RecordRule ==
    /\ pc = "rules" /\ ~Known(Head(queue))
    /\ Active # {} => rules[Prior].value = Head(queue).value
    /\ rules' = Append(rules, NewRule(Head(queue), "ACTIVE"))
    /\ Proceed
    /\ UNCHANGED <<sources, signals, states, conflicts>>

Disagrees ==
    /\ pc = "rules" /\ ~Known(Head(queue))
    /\ Active # {} /\ rules[Prior].value # Head(queue).value

\* record: the prior rule is saved as SUPERSEDED, and then the new one.
SupersedeRule ==
    /\ Disagrees /\ Outranks(Head(queue), rules[Prior])
    /\ rules' = [rules EXCEPT ![Prior].status = "SUPERSEDED"]
    /\ prior' = Prior /\ pc' = "record"
    /\ UNCHANGED <<sources, signals, states, queue, seen, conflicts, crashes>>

RecordSuccessor ==
    /\ pc = "record"
    /\ rules' = Append(rules, NewRule(Head(queue), "ACTIVE"))
    /\ Proceed
    /\ UNCHANGED <<sources, signals, states, conflicts>>

\* The new rule is listed with its category before its statement.
ConflictRule ==
    /\ Disagrees /\ ~Outranks(Head(queue), rules[Prior])
    /\ rules' = Append(rules, NewRule(Head(queue), "CONFLICTED"))
    /\ conflicts' = Append(conflicts,
                           [rule |-> Len(rules'), category |-> TRUE])
    /\ Proceed
    /\ UNCHANGED <<sources, signals, states>>

\* Mutant: authority decides, and among equals the first one seen stays.
WinsStrictly(s, best) ==
    \/ s.authority > best.authority
    \/ s.authority = best.authority /\ s.at > best.at

\* _wins: by authority, then by time; the later one of equals.
Wins(s, best) ==
    \/ s.authority > best.authority
    \/ s.authority = best.authority /\ s.at >= best.at

\* winners, over the signals in their order.
Winner(metrics) ==
    FoldLeft(LAMBDA best, s : IF Wins(s, best) THEN s ELSE best,
             Head(metrics), metrics)

\* What the winning metric signal says.
Metric(read) ==
    LET metrics == SelectSeq(read, IsMetric)
    IN  IF metrics = <<>> THEN "none" ELSE Winner(metrics).value

\* The active rules, the winning signals and the conflicts.
NewState(version, active) ==
    [version |-> version, read |-> Len(seen), active |-> active,
     metric |-> Metric(seen),
     conflicts |-> conflicts]

\* Mutant: the rules are listed before the last signal is reconciled.
SaveStateEarly ==
    /\ pc = "state"
    /\ states' = Append(states,
                        NewState(Len(states) + 1, Active \ {Len(rules)}))
    /\ Leave
    /\ UNCHANGED <<sources, signals, rules, crashes>>

\* The next version of the current state, with the rules as they are now.
SaveState ==
    /\ pc = "state"
    /\ states' = Append(states, NewState(Len(states) + 1, Active))
    /\ Leave
    /\ UNCHANGED <<sources, signals, rules, crashes>>

Crash ==
    /\ pc # "idle" /\ crashes < MaxCrashes
    /\ crashes' = crashes + 1
    /\ Leave
    /\ UNCHANGED tables

Next ==
    \/ ObserveSource \/ Extract \/ SaveSignal \/ Reconcile
    \/ SkipKnown \/ RecordRule \/ SupersedeRule \/ RecordSuccessor
    \/ ConflictRule \/ SaveState \/ Crash

Spec == Init /\ [][Next]_vars

(***************************************************************************)
(* Properties                                                              *)
(***************************************************************************)
\* A reconciliation that ran to its end knows a rule in force, if any rule
\* was ever extracted: also when an earlier one died between saving the old
\* rule as SUPERSEDED and saving its successor.
StateHasRules ==
    \A v \in DOMAIN states :
        (\E i \in RuleSignals : i <= states[v].read) => states[v].active # {}

AsStrong(r, s) == r.authority >= s.authority /\ r.at >= s.at

\* If no call died: a rule goes out of force only for a stronger one.  For
\* every SUPERSEDED rule a rule is in force, or about to be saved, that has at
\* least its authority and was observed no earlier.
DisplacedByStronger ==
    crashes = 0 =>
        \A i \in DOMAIN rules : rules[i].status = "SUPERSEDED" =>
            \/ \E j \in Active : AsStrong(rules[j], rules[i])
            \/ pc = "record" /\ AsStrong(Head(queue), rules[i])

\* The rules of which a list of conflicts speaks.
Contested(list) == {c.rule : c \in Range(list)}

\* Reconciling again without new signals: the next version of the state has
\* the same rules in force, the same metric, and lists the same rules as
\* standing in conflict, whatever died in between.  (What it writes for a
\* conflict is not the same, see ConflictsRepeated.)
ReconcileIdempotent ==
    \A v \in 2..Len(states) :
        states[v].read = states[v - 1].read =>
            /\ states[v].active = states[v - 1].active
            /\ states[v].metric = states[v - 1].metric
            /\ Contested(states[v].conflicts)
                   = Contested(states[v - 1].conflicts)

\* "deterministic reconciliation" (competition_intelligence.py:57): the same
\* signals give the same conflicts.  The code does not keep this: a rule is
\* listed as "category: statement" by the reconciliation that records it, and
\* as its statement by the next one.
ConflictsRepeated ==
    \A v \in 2..Len(states) :
        states[v].read = states[v - 1].read =>
            states[v].conflicts = states[v - 1].conflicts

\* "Official sources outrank community claims" (docs/THREAT_MODEL.md:5): no
\* recorded rule has more authority than all that are in force.  The code does
\* not keep this: a rule of more authority but with an older date than the one
\* in force only becomes CONFLICTED.
AuthorityInForce ==
    pc = "idle" /\ crashes = 0 =>
        \A i \in DOMAIN rules :
            \E j \in Active : rules[j].authority >= rules[i].authority

\* The metric of a state is what the most authoritative source said, as of
\* its latest observation (_wins).
MetricFromBest ==
    [][\A v \in DOMAIN states' \ DOMAIN states :
          LET metrics == SelectSeq(seen, IsMetric)
              best == {i \in DOMAIN metrics : \A j \in DOMAIN metrics :
                          \/ metrics[j].authority < metrics[i].authority
                          \/ /\ metrics[j].authority = metrics[i].authority
                             /\ metrics[j].at <= metrics[i].at}
          IN  metrics # <<>> =>
                  states'[v].metric = metrics[Max(best)].value]_vars

\* The rules in force agree with each other.  The code does not keep this: of
\* several active rules that agree, a new one supersedes the latest alone.
ActiveRulesAgree ==
    \A i, j \in Active :
        pc = "idle" => rules[i].value = rules[j].value
=============================================================================
