------------------------------- MODULE Budgets -------------------------------
(***************************************************************************)
(* check-perf-budget: effects tear down what they register, dense features *)
(* ship a subject that is measured, and the measurement (perf-subject-cli) *)
(* is a median with one second chance.                                     *)
(*                                                                         *)
(* A feature directory is what the scans see of it and what its subject    *)
(* really costs; an effect is the sets of pairs it registers and tears     *)
(* down.  The machine may disturb samples, and only ever slows them.       *)
(***************************************************************************)
EXTENDS Integers, FiniteSets, TreeEdits, Listing

CONSTANTS
  Dirs,      \* feature directories
  Effects,   \* files with one effect
  LeakPairs,     \* LEAK_PAIRS
  Cells,     \* the cells budgets declare
  MaxCost,   \* bound: costs and budgets
  MaxTweaks   \* bound: changes by people

ASSUME BudgetsAssumption == Cells \in Nat \ {0} /\ MaxCost \in Nat \ {0}

Runs == 3

\* A directory, an effect, and a row of tools/perf-budget.json.
Feature ==
  [dense : SUBSET {"hook", "shape"}, subject : BOOLEAN, rendered : 0..Cells,
   mount : 1..MaxCost, update : 1..MaxCost]
Effect ==
  [registers : SUBSET LeakPairs, body : SUBSET LeakPairs, cleanup : SUBSET LeakPairs,
   returns : {"never", "last", "early"}]
Cap == [mount : 1..MaxCost, update : 0..MaxCost, scales : BOOLEAN]

VARIABLES
  features,   \* Dirs that exist -> [dense, subject, rendered, mount, update]
  effects,    \* Effects -> [registers, body, cleanup, returns]
  budget,     \* perf-budget.json: [subjects, exempt, leakAllow]
  perf,       \* the gate's run: [pc, left, retried, disturbed]
  tweaks      \* changes so far
bvars == <<features, effects, budget, perf, tweaks>>

NoPerf == [pc |-> "none", left |-> {}, retried |-> FALSE, disturbed |-> 0]

-----------------------------------------------------------------------------
(***************************************************************************)
(* The leak scan: what is torn down is looked for from the first `return'  *)
(* of the effect on, so after an early one the body counts as cleanup.     *)
(***************************************************************************)
CleanupSlice(e) ==
  CASE e.returns = "never" -> {}
    [] e.returns = "last"  -> e.cleanup
    [] e.returns = "early" -> e.body \cup e.cleanup
Unpaired(e) == e.registers \ CleanupSlice(e)
NoLeaks == \A f \in Effects \ budget.leakAllow : Unpaired(effects[f]) = {}

-----------------------------------------------------------------------------
(***************************************************************************)
(* The closure: the directories, the subjects declared and the exempt.     *)
(***************************************************************************)
Subjects == DOMAIN budget.subjects
HasSubject(d) == d \in DOMAIN features /\ features[d].subject

\* Dense by the hook it imports, or by its shape.
Dense(d) == features[d].dense # {}

Closed ==
  /\ Subjects # {}
  /\ \A d \in Subjects : HasSubject(d)
  /\ \A d \in DOMAIN features \ budget.exempt :
       /\ Dense(d) => HasSubject(d)
       /\ HasSubject(d) => d \in Subjects
  /\ budget.exempt \subseteq DOMAIN features

-----------------------------------------------------------------------------
(***************************************************************************)
(* The measurement.                                                        *)
(***************************************************************************)
Timed(cost, slowed) == [k \in 1..Runs |-> IF k \in slowed THEN MaxCost + 1 ELSE cost]

\* Wrong: an update that is over its budget is printed, not asserted.
WrongOver(row, mount, update) == mount > row.mount
\* The update is asserted when it has a budget, 0 is none.
Over(row, mount, update) ==
  \/ mount > row.mount
  \/ row.update > 0 /\ update > row.update

\* A render without markers, or with too few of a marker that scales, exits 1.
Vacuous(row, f) == f.rendered = 0 \/ (row.scales /\ f.rendered < (Cells * 9) \div 10)

StartPerf ==
  /\ perf = NoPerf
  /\ perf' = IF NoLeaks /\ Closed THEN [NoPerf EXCEPT !.pc = "measure", !.left = Subjects]
             ELSE [NoPerf EXCEPT !.pc = "red"]
  /\ UNCHANGED <<features, effects, budget, tweaks>>

\* One spawn for one subject. Over budget, it is measured once more.
Measure ==
  /\ perf.pc = "measure" /\ perf.left # {}
  /\ \E slowMount, slowUpdate \in SUBSET (1..Runs) :
       LET d      == CHOOSE x \in perf.left : TRUE
           row    == budget.subjects[d]
           f      == features[d]
           over   == Over(row, Median(Timed(f.mount, slowMount)), Median(Timed(f.update, slowUpdate)))
           bad    == Cardinality(slowMount) > 1 \/ Cardinality(slowUpdate) > 1
           spoilt == IF bad THEN perf.disturbed + 1 ELSE perf.disturbed
       IN /\ spoilt <= 1
          /\ perf' =
               IF Vacuous(row, f) THEN [perf EXCEPT !.pc = "broken"]
               ELSE IF ~over
                    THEN [perf EXCEPT !.left = @ \ {d}, !.retried = FALSE, !.disturbed = 0]
               ELSE IF ~perf.retried
                    THEN [perf EXCEPT !.retried = TRUE, !.disturbed = spoilt]
               ELSE [perf EXCEPT !.pc = "slow", !.left = {d}]
  /\ UNCHANGED <<features, effects, budget, tweaks>>

PerfEnds ==
  /\ perf.pc = "measure" /\ perf.left = {}
  /\ perf' = [perf EXCEPT !.pc = "green"]
  /\ UNCHANGED <<features, effects, budget, tweaks>>

-----------------------------------------------------------------------------
(***************************************************************************)
(* People.                                                                 *)
(***************************************************************************)
Tweaked == perf.pc # "measure" /\ tweaks < MaxTweaks /\ tweaks' = tweaks + 1 /\ perf' = NoPerf

EditFeature ==
  /\ Tweaked /\ UNCHANGED <<effects, budget>>
  /\ \/ \E d \in DOMAIN features :
          \/ \E how \in {"hook", "shape"} : features' = [features EXCEPT ![d].dense = Toggled(@, how)]
          \/ features' = [features EXCEPT ![d].subject = ~@]
          \/ \E n \in 0..Cells : features' = [features EXCEPT ![d].rendered = n]
          \/ \E c \in 1..MaxCost : features' = [features EXCEPT ![d].mount = c]
          \/ \E c \in 1..MaxCost : features' = [features EXCEPT ![d].update = c]
          \/ features' = Less(features, d)
     \/ \E d \in Dirs \ DOMAIN features :
          features' = With(features, d, [dense |-> {}, subject |-> FALSE, rendered |-> Cells,
                                         mount |-> 1, update |-> 1])

EditEffect ==
  /\ Tweaked /\ UNCHANGED <<features, budget>>
  /\ \E f \in Effects :
       \/ \E p \in LeakPairs, part \in {"registers", "body", "cleanup"} :
            effects' = [effects EXCEPT ![f][part] = Toggled(@, p)]
       \/ \E r \in {"never", "last", "early"} : effects' = [effects EXCEPT ![f].returns = r]

EditBudget ==
  /\ Tweaked /\ UNCHANGED <<features, effects>>
  /\ \/ \E d \in Dirs :
          \/ \E m \in 1..MaxCost, u \in 0..MaxCost, s \in BOOLEAN :
               budget' = [budget EXCEPT !.subjects = With(@, d, [mount |-> m, update |-> u, scales |-> s])]
          \/ budget' = [budget EXCEPT !.subjects = Less(@, d)]
          \/ budget' = [budget EXCEPT !.exempt = Toggled(@, d)]
     \/ \E f \in Effects : budget' = [budget EXCEPT !.leakAllow = Toggled(@, f)]

\* Any directories, effects and budget, of which nothing has been measured.
BudgetsInit ==
  /\ features \in UNION {[D -> Feature] : D \in SUBSET Dirs}
  /\ effects \in [Effects -> Effect]
  /\ budget.subjects \in UNION {[D -> Cap] : D \in SUBSET Dirs}
  /\ {"subjects", "exempt", "leakAllow"} \subseteq DOMAIN budget
  /\ perf = NoPerf /\ tweaks = 0

BudgetsNext == StartPerf \/ Measure \/ PerfEnds \/ EditFeature \/ EditEffect \/ EditBudget

BudgetsSpec == BudgetsInit /\ [][BudgetsNext]_bvars

-----------------------------------------------------------------------------
(***************************************************************************)
(* Properties.                                                             *)
(***************************************************************************)
\* check-perf-budget.mjs:4-11, 40-50 and the CLI: when at most one of the two
\* measurements of a subject is disturbed beyond its median, the verdict is the
\* truth: green says every dense feature that is not exempt renders what it
\* declares within its budgets, red for cost says the subject really is slower.
RenderBudgetHolds ==
  /\ perf.pc = "green" =>
       /\ \A d \in DOMAIN features \ budget.exempt : features[d].dense # {} => d \in Subjects
       /\ \A d \in Subjects :
            /\ features[d].mount <= budget.subjects[d].mount
            /\ budget.subjects[d].update > 0 => features[d].update <= budget.subjects[d].update
            /\ budget.subjects[d].scales => 10 * features[d].rendered >= 9 * Cells - 9
       /\ \A f \in Effects \ budget.leakAllow :
            effects[f].returns # "early" => effects[f].registers \subseteq effects[f].cleanup
  /\ perf.pc = "slow" =>
       \A d \in perf.left :
         \/ features[d].mount > budget.subjects[d].mount
         \/ budget.subjects[d].update > 0 /\ features[d].update > budget.subjects[d].update

=============================================================================
