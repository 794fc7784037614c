------------------------------ MODULE HarnessProofs ------------------------------
(***************************************************************************)
(* Safety of a harness run for every setting and any number of sprints:    *)
(* what the coordinator's locals, the audit records and the gateway know   *)
(* of each other at each await.                                            *)
(***************************************************************************)
EXTENDS HarnessCoordinator, TLAPS

Empty == [decisions |-> 0, reflections |-> 0, failed |-> 0, passed |-> 0,
          summaries |-> {}, proposed |-> FALSE]

\* The reflections due in the first n iterations of a failing sprint.
Due(c, n) == IF c.evaluator /\ c.reflectAfter \in 1..n THEN n - c.reflectAfter ELSE 0

BeforeStrategy == {"strategy", "reflect"}
BeforeScore    == BeforeStrategy \cup {"audit_patch", "generate", "evaluate"}
Escalating     == {"audit_escalation", "submit_escalation"}
InSprint       == BeforeScore \cup {"audit_score", "summary"} \cup Escalating

\* The score the locals hold: none in the first iteration, later a failure.
ScoreInv ==
  /\ pc \in BeforeScore => score = IF iteration = 1 THEN "none" ELSE "failed"
  /\ pc \in {"evaluate", "audit_score"} \cup Escalating => config.evaluator
  /\ iteration > 1 => config.evaluator
  /\ pc = "audit_score" => score \in {"passed", "failed"}
  /\ pc = "summary" => (score = "none" <=> ~config.evaluator)
  /\ pc \in Escalating => score = "failed"
  /\ (pc = "summary" /\ score = "failed") => iteration = config.iterations
  /\ pc \in Escalating => iteration = config.iterations

\* How many decisions, failures and reflections have been made, and written.
CountInv ==
  LET t == trail[sprint]
      decided == IF pc \in BeforeStrategy \cup {"audit_patch"} THEN iteration - 1 ELSE iteration
      failed == IF score = "failed" /\ pc \in {"summary"} \cup Escalating THEN iteration
                ELSE iteration - 1
  IN  /\ decisions = decided /\ t.decisions = decided
      /\ failures = failed /\ t.failed = failed
      /\ patches = Due(config, IF pc \in BeforeStrategy THEN iteration - 1 ELSE iteration)
      /\ t.reflections = Due(config, decided)
      /\ pc \in {"reflect", "audit_patch"} => config.reflectAfter \in 1..(iteration - 1)
      /\ t.passed = IF pc = "summary" /\ score = "passed" THEN 1 ELSE 0

\* The records that close a sprint appear in their order.
RecordInv ==
  LET t == trail[sprint]
  IN  /\ pc \notin Escalating => t.summaries = {}
      /\ pc \in Escalating => t.summaries # {}
      /\ pc = "submit_escalation" => t.proposed

SprintInv ==
  pc \in InSprint =>
    /\ sprint \in Sprints
    /\ iteration \in 1..config.iterations
    /\ ScoreInv /\ CountInv /\ RecordInv

\* Nothing is written about a sprint before it begins, and only a run that has
\* ended has escalated anything.
FutureInv ==
  /\ \A s \in Sprints : s > sprint => trail[s] = Empty
  /\ pc \notin {"returned", "raised"} => escalated = {}

IInv == TypeOK /\ SprintInv /\ FutureInv /\ SummaryMatchesTrail /\ EscalationJustified
--------------------------------------------------------------------------------
(* Type correctness *)

\* A sprint is under way at the awaits of _run_sprint.
Begun == pc \in InSprint => sprint \in Sprints

\* Init gives every variable a value of its type.
LEMMA TypeInit == Init => TypeOK /\ Begun
<1> SUFFICES ASSUME Init PROVE TypeOK /\ Begun
  OBVIOUS
<1>1. trail \in [Sprints -> Trail]
  BY DEF Init, Trail
<1>2. iteration \in 0..config.iterations
  BY DEF Init, Configs
<1>3. 0 \in 0..MaxSprints
  BY HarnessAssumption
<1>4. result \in [iterations : Nat, artifacts : Nat, score : Scores, escalated : BOOLEAN]
  BY DEF Init, Scores
<1> QED
  BY <1>1, <1>2, <1>3, <1>4
  DEF Init, TypeOK, Begun, Points, Scores, InSprint, BeforeScore, BeforeStrategy, Escalating

\* The iteration is a number.
LEMMA IterationType == TypeOK => iteration \in Nat
  BY DEF TypeOK, Configs

\* A summary fits the trail.
LEMMA SummaryType == TypeOK /\ LogSummary => trail' \in [Sprints -> Trail]
<1> SUFFICES ASSUME TypeOK, LogSummary PROVE trail' \in [Sprints -> Trail]
  OBVIOUS
<1> DEFINE new == [iterations |-> iteration, failures |-> failures, patches |-> patches,
                   decisions |-> decisions, score |-> score]
<1>1. new \in Summary
  BY IterationType DEF TypeOK, Summary
<1> HIDE DEF new
<1>2. ASSUME NEW t \in Trail PROVE [t EXCEPT !.summaries = @ \cup {new}] \in Trail
  BY <1>1, <1>2 DEF Trail
<1>3. trail' = [trail EXCEPT ![sprint].summaries = @ \cup {new}]
  BY DEF LogSummary, new
<1> QED
  BY <1>2, <1>3 DEF TypeOK

\* Every step keeps the types, and a run in a sprint has begun one.
LEMMA TypeStep == TypeOK /\ Begun /\ [Next]_vars => TypeOK' /\ Begun'
<1> SUFFICES ASSUME TypeOK, Begun, [Next]_vars PROVE TypeOK' /\ Begun'
  OBVIOUS
<1> USE DEF TypeOK, Begun, Step, InSprint, BeforeScore, BeforeStrategy, Escalating, locals, hitl
<1>1. CASE RunSolo
  BY <1>1 DEF RunSolo, Points
<1>2. CASE RunSimplified
  BY <1>2, HarnessAssumption DEF RunSimplified, Points
<1>3. CASE RunFull
  BY <1>3 DEF RunFull, Points
<1>4. CASE Plan
  BY <1>4 DEF Plan, Points
<1>5. CASE AuditPlan
  BY <1>5 DEF AuditPlan, Points
<1>6. CASE AuditReview
  BY <1>6 DEF AuditReview, Points
<1>7. CASE SubmitReview
  BY <1>7 DEF SubmitReview, Points
<1>8. CASE BeginSprint
  <2>1. sprint' \in Sprints /\ sprint' \in 0..MaxSprints
    BY <1>8, HarnessAssumption DEF BeginSprint, Sprints
  <2>2. iteration' \in 0..config'.iterations
    BY <1>8 DEF BeginSprint, Configs
  <2> QED
    BY <1>8, <2>1, <2>2 DEF BeginSprint, Points, Scores
<1>9. CASE SkipSprint
  <2>1. sprint' \in 0..MaxSprints
    BY <1>9, HarnessAssumption DEF SkipSprint
  <2>2. result' \in [iterations : Nat, artifacts : Nat, score : Scores, escalated : BOOLEAN]
    <3>1. result.artifacts + 1 \in Nat /\ "none" \in Scores
      BY DEF Scores
    <3>2. result' = [iterations |-> result.iterations, artifacts |-> result.artifacts + 1,
                     score |-> "none", escalated |-> result.escalated]
      BY <1>9 DEF SkipSprint
    <3> QED
      BY <3>1, <3>2
  <2> QED
    BY <1>9, <2>1, <2>2 DEF SkipSprint, Points
<1>10. CASE Return
  BY <1>10 DEF Return, Points
<1>11. CASE ChooseStrategy
  BY <1>11 DEF ChooseStrategy, LogDecision, Points, Trail
<1>12. CASE StartReflection
  BY <1>12 DEF StartReflection, Points
<1>13. CASE Reflect
  BY <1>13 DEF Reflect, Points
<1>14. CASE AuditPatch
  BY <1>14 DEF AuditPatch, Points, Trail
<1>15. CASE Generate
  BY <1>15 DEF Generate, Points
<1>16. CASE Evaluate
  BY <1>16 DEF Evaluate, Points, Scores
<1>17. CASE AuditPass
  BY <1>17 DEF AuditPass, Points, Trail
<1>18. CASE AuditFailure
  <2>1. iteration' \in 0..config'.iterations
    BY <1>18 DEF AuditFailure, Configs
  <2>2. trail' \in [Sprints -> Trail]
    BY <1>18 DEF AuditFailure, Trail
  <2> QED
    BY <1>18, <2>1, <2>2 DEF AuditFailure, Points
<1>19. CASE FinishSprint
  <2>1. trail' \in [Sprints -> Trail]
    BY <1>19, SummaryType DEF FinishSprint
  <2>2. result' \in [iterations : Nat, artifacts : Nat, score : Scores, escalated : BOOLEAN]
    BY <1>19, IterationType DEF FinishSprint, Collect
  <2> QED
    BY <1>19, <2>1, <2>2 DEF FinishSprint, Points
<1>20. CASE ExhaustSprint
  <2>1. trail' \in [Sprints -> Trail]
    BY <1>20, SummaryType DEF ExhaustSprint
  <2> QED
    BY <1>20, <2>1 DEF ExhaustSprint, Points
<1>21. CASE AuditEscalation
  BY <1>21 DEF AuditEscalation, Points, Trail
<1>22. CASE SubmitEscalation
  BY <1>22 DEF SubmitEscalation, Collect, Points
<1>23. CASE Raise
  BY <1>23 DEF Raise, Points
<1>24. CASE UNCHANGED vars
  BY <1>24 DEF vars
<1> QED
  BY <1>1, <1>2, <1>3, <1>4, <1>5, <1>6, <1>7, <1>8, <1>9, <1>10, <1>11, <1>12, <1>13, <1>14,
     <1>15, <1>16, <1>17, <1>18, <1>19, <1>20, <1>21, <1>22, <1>23, <1>24
  DEF Next, Proceed

\* The run's variables keep their types: in particular no iteration beyond
\* harness_max_iterations, whatever its value (coordinator.py:203).
THEOREM TypeCorrect == Spec => []TypeOK
  BY TypeInit, TypeStep, PTL DEF Spec
--------------------------------------------------------------------------------
(* The invariant.  First what a step does to the two properties and to the    *)
(* future when it writes nothing, or something on the sprint under way.       *)

\* A step that changes neither the trail nor the escalations keeps what is said of them.
LEMMA QuietStep ==
  (IInv /\ config' = config /\ trail' = trail /\ escalated' = escalated)
    => SummaryMatchesTrail' /\ EscalationJustified'
  BY DEF IInv, SummaryMatchesTrail, EscalationJustified

\* So does a step within a sprint that writes about it, but no summary.
LEMMA WriteStep ==
  ASSUME NEW u \in Trail
  PROVE  (/\ IInv /\ pc \in InSprint /\ pc' \in InSprint
          /\ UNCHANGED <<config, escalated, sprint>>
          /\ trail' = [trail EXCEPT ![sprint] = u]
          /\ u.summaries = {})
         => SummaryMatchesTrail' /\ EscalationJustified' /\ FutureInv'
<1> SUFFICES ASSUME IInv, pc \in InSprint, pc' \in InSprint, UNCHANGED <<config, escalated, sprint>>,
                    trail' = [trail EXCEPT ![sprint] = u], u.summaries = {}
             PROVE  SummaryMatchesTrail' /\ EscalationJustified' /\ FutureInv'
  OBVIOUS
<1>1. trail \in [Sprints -> Trail] /\ sprint \in Sprints
  BY DEF IInv, TypeOK, SprintInv
<1>2. escalated = {} /\ pc' \notin {"returned", "raised"}
  BY DEF IInv, FutureInv, InSprint, BeforeScore, BeforeStrategy, Escalating
<1>3. SummaryMatchesTrail'
  <2>1. \A s \in Sprints : trail'[s] = IF s = sprint THEN u ELSE trail[s]
    BY <1>1
  <2>2. \A s \in Sprints : s # sprint => trail'[s] = trail[s]
    BY <2>1
  <2>3. trail'[sprint].summaries = {}
    BY <1>1, <2>1
  <2> QED
    BY <2>2, <2>3 DEF IInv, SummaryMatchesTrail
<1>4. EscalationJustified'
  BY <1>2 DEF EscalationJustified
<1>5. FutureInv'
  BY <1>1, <1>2 DEF IInv, FutureInv, Sprints, TypeOK
<1> QED
  BY <1>3, <1>4, <1>5
\* The steps outside the sprint loop keep the invariant.
LEMMA OutsideStep ==
  IInv /\ (\/ RunSolo \/ RunSimplified \/ RunFull \/ Plan \/ AuditPlan \/ AuditReview
           \/ SubmitReview \/ SkipSprint \/ Return)
    => SprintInv' /\ FutureInv' /\ SummaryMatchesTrail' /\ EscalationJustified'
<1> SUFFICES ASSUME IInv,
                    \/ RunSolo \/ RunSimplified \/ RunFull \/ Plan \/ AuditPlan \/ AuditReview
                    \/ SubmitReview \/ SkipSprint \/ Return
             PROVE  SprintInv' /\ FutureInv' /\ SummaryMatchesTrail' /\ EscalationJustified'
  OBVIOUS
<1> USE DEF RunSolo, RunSimplified, RunFull, Plan, AuditPlan, AuditReview, SubmitReview, SkipSprint,
        Return, Step, locals, hitl
<1>1. UNCHANGED <<config, trail, escalated>>
  OBVIOUS
<1>2. SprintInv'
  BY DEF SprintInv, InSprint, BeforeScore, BeforeStrategy, Escalating
<1>3. sprint' = sprint \/ (sprint' = sprint + 1 /\ sprint \in Int)
  BY DEF IInv, TypeOK
<1>4. pc \notin {"returned", "raised"}
  OBVIOUS
<1>5. FutureInv'
  BY <1>1, <1>3, <1>4 DEF IInv, FutureInv, Sprints
<1> QED
  BY <1>1, <1>2, <1>5, QuietStep

\* Beginning a sprint keeps the invariant: all counts are zero.
LEMMA BeginSprintStep ==
  IInv /\ TypeOK' /\ BeginSprint
    => SprintInv' /\ FutureInv' /\ SummaryMatchesTrail' /\ EscalationJustified'
<1> SUFFICES ASSUME IInv, TypeOK', BeginSprint
             PROVE  SprintInv' /\ FutureInv' /\ SummaryMatchesTrail' /\ EscalationJustified'
  OBVIOUS
<1> USE DEF BeginSprint, Step, hitl
<1>1. config \in Configs /\ sprint \in 0..MaxSprints /\ planned \in 0..MaxSprints
  BY DEF IInv, TypeOK
<1>2. sprint' \in Sprints /\ sprint' > sprint
  BY <1>1, HarnessAssumption DEF Sprints
<1>3. trail'[sprint'] = Empty
  BY <1>2 DEF IInv, FutureInv
<1>4. FutureInv'
  BY <1>1 DEF IInv, FutureInv, Sprints
<1>5. Due(config', 0) = 0
  BY DEF Due
<1>6. SprintInv'
  BY <1>1, <1>2, <1>3, <1>5
  DEF SprintInv, ScoreInv, CountInv, RecordInv, InSprint, BeforeScore, BeforeStrategy, Escalating,
      Empty, Configs
<1> QED
  BY <1>4, <1>6, QuietStep

\* The facts about the sprint under way that every step below starts from.
LEMMA SprintFacts ==
  IInv /\ pc \in InSprint =>
    /\ config \in Configs /\ config.iterations \in Nat /\ config.reflectAfter \in Nat
    /\ sprint \in Sprints /\ iteration \in Nat /\ iteration \in 1..config.iterations
    /\ trail \in [Sprints -> Trail] /\ trail[sprint] \in Trail
    /\ escalated = {}
    /\ ScoreInv /\ CountInv /\ RecordInv
  BY DEF IInv, TypeOK, SprintInv, FutureInv, Configs, InSprint, BeforeScore, BeforeStrategy, Escalating

\* Up to the threshold, or without an evaluator, no reflection is due.
LEMMA DueSame ==
  ASSUME NEW c \in Configs, NEW n \in Nat, ~(c.evaluator /\ c.reflectAfter \in 1..n)
  PROVE  Due(c, n) = 0 /\ Due(c, n + 1) = 0
  BY DEF Due, Configs

\* Past the threshold every iteration adds one.
LEMMA DueMore ==
  ASSUME NEW c \in Configs, NEW n \in Nat, c.evaluator, c.reflectAfter \in 1..n
  PROVE  Due(c, n + 1) = Due(c, n) + 1
  BY DEF Due, Configs

\* The steps of an iteration that write no record keep the invariant.
LEMMA GenerationStep ==
  IInv /\ (StartReflection \/ Reflect \/ Generate \/ Evaluate)
    => SprintInv' /\ FutureInv' /\ SummaryMatchesTrail' /\ EscalationJustified'
<1> SUFFICES ASSUME IInv, StartReflection \/ Reflect \/ Generate \/ Evaluate
             PROVE  SprintInv' /\ FutureInv' /\ SummaryMatchesTrail' /\ EscalationJustified'
  OBVIOUS
<1> USE DEF InSprint, BeforeScore, BeforeStrategy, Escalating, Step, locals, hitl
<1>1. pc \in InSprint /\ UNCHANGED <<config, trail, escalated, sprint, iteration>>
  BY DEF StartReflection, Reflect, Generate, Evaluate
<1>2. FutureInv'
  BY <1>1 DEF StartReflection, Reflect, Generate, Evaluate, IInv, FutureInv
<1>3. ScoreInv' /\ CountInv' /\ RecordInv' => SprintInv'
  BY <1>1, SprintFacts DEF SprintInv
<1>4. CASE StartReflection
  <2>1. ScoreInv'
    BY <1>1, <1>4, SprintFacts DEF StartReflection, ScoreInv
  <2>2. CountInv'
    BY <1>1, <1>4, SprintFacts DEF StartReflection, Reflecting, CountInv
  <2>3. RecordInv'
    BY <1>1, <1>4, SprintFacts DEF StartReflection, RecordInv
  <2> QED
    BY <1>1, <1>2, <1>3, <2>1, <2>2, <2>3, QuietStep
<1>5. CASE Reflect
  <2>1. config.evaluator /\ config.reflectAfter \in 1..(iteration - 1) /\ iteration - 1 \in Nat
    BY <1>1, <1>5, SprintFacts DEF Reflect, ScoreInv, CountInv
  <2>2. Due(config, (iteration - 1) + 1) = Due(config, iteration - 1) + 1
    BY <1>1, <2>1, SprintFacts, DueMore
  <2>3. Due(config, iteration) = Due(config, iteration - 1) + 1
    BY <1>1, <2>2, SprintFacts
  <2>4. ScoreInv'
    BY <1>1, <1>5, SprintFacts DEF Reflect, ScoreInv
  <2>5. CountInv'
    BY <1>1, <1>5, <2>3, SprintFacts DEF Reflect, CountInv
  <2>6. RecordInv'
    BY <1>1, <1>5, SprintFacts DEF Reflect, RecordInv
  <2> QED
    BY <1>1, <1>2, <1>3, <2>4, <2>5, <2>6, QuietStep
<1>6. CASE Generate
  <2>1. ScoreInv'
    BY <1>1, <1>6, SprintFacts DEF Generate, ScoreInv
  <2>2. CountInv'
    BY <1>1, <1>6, SprintFacts DEF Generate, ScoreInv, CountInv
  <2>3. RecordInv'
    BY <1>1, <1>6, SprintFacts DEF Generate, RecordInv
  <2> QED
    BY <1>1, <1>2, <1>3, <2>1, <2>2, <2>3, QuietStep
<1>7. CASE Evaluate
  <2>1. ScoreInv'
    BY <1>1, <1>7, SprintFacts DEF Evaluate, ScoreInv
  <2>2. CountInv'
    BY <1>1, <1>7, SprintFacts DEF Evaluate, CountInv
  <2>3. RecordInv'
    BY <1>1, <1>7, SprintFacts DEF Evaluate, RecordInv
  <2> QED
    BY <1>1, <1>2, <1>3, <2>1, <2>2, <2>3, QuietStep
<1> QED
  BY <1>4, <1>5, <1>6, <1>7

\* Choosing the strategy keeps the invariant.
LEMMA ChooseStrategyStep ==
  IInv /\ ChooseStrategy
    => SprintInv' /\ FutureInv' /\ SummaryMatchesTrail' /\ EscalationJustified'
<1> SUFFICES ASSUME IInv, ChooseStrategy
             PROVE  SprintInv' /\ FutureInv' /\ SummaryMatchesTrail' /\ EscalationJustified'
  OBVIOUS
<1> USE DEF InSprint, BeforeScore, BeforeStrategy, Escalating, Step, hitl
<1> DEFINE u == [trail[sprint] EXCEPT !.decisions = @ + 1]
<1>1. /\ pc = "strategy" /\ pc' = "generate"
      /\ UNCHANGED <<config, escalated, sprint, iteration, score, failures, patches>>
      /\ decisions' = decisions + 1
      /\ trail' = [trail EXCEPT ![sprint] = u]
  BY DEF ChooseStrategy, LogDecision
<1>2. u \in Trail /\ u.summaries = {}
  BY <1>1, SprintFacts DEF Trail, RecordInv
<1>3. trail'[sprint'] = u
  BY <1>1, SprintFacts
<1>4. Due(config, iteration - 1) = 0 /\ Due(config, iteration) = 0
  <2>1. iteration - 1 \in Nat /\ config \in Configs
    BY <1>1, SprintFacts
  <2>2. ~(config.evaluator /\ config.reflectAfter \in 1..(iteration - 1))
    BY <1>1, SprintFacts DEF ChooseStrategy, Reflecting, ScoreInv
  <2>3. Due(config, iteration - 1) = 0 /\ Due(config, (iteration - 1) + 1) = 0
    BY <2>1, <2>2, DueSame
  <2> QED
    BY <1>1, <2>3, SprintFacts
<1>5. ScoreInv'
  BY <1>1, SprintFacts DEF ScoreInv
<1>6. CountInv'
  BY <1>1, <1>3, <1>4, SprintFacts DEF CountInv, Trail
<1>7. RecordInv'
  BY <1>1, <1>2, <1>3 DEF RecordInv
<1>8. SprintInv'
  BY <1>1, <1>5, <1>6, <1>7, SprintFacts DEF SprintInv
<1> HIDE DEF u
<1> QED
  BY <1>1, <1>2, <1>8, WriteStep

\* The record of a reflection keeps the invariant.
LEMMA AuditPatchStep ==
  IInv /\ AuditPatch
    => SprintInv' /\ FutureInv' /\ SummaryMatchesTrail' /\ EscalationJustified'
<1> SUFFICES ASSUME IInv, AuditPatch
             PROVE  SprintInv' /\ FutureInv' /\ SummaryMatchesTrail' /\ EscalationJustified'
  OBVIOUS
<1> USE DEF InSprint, BeforeScore, BeforeStrategy, Escalating, Step, hitl
<1> DEFINE u == [trail[sprint] EXCEPT !.decisions = @ + 1, !.reflections = @ + 1]
<1>1. /\ pc = "audit_patch" /\ pc' = "generate"
      /\ UNCHANGED <<config, escalated, sprint, iteration, score, failures, patches>>
      /\ decisions' = decisions + 1
      /\ trail' = [trail EXCEPT ![sprint] = u]
  BY DEF AuditPatch
<1>2. u \in Trail /\ u.summaries = {}
  <2> DEFINE t == [trail[sprint] EXCEPT !.decisions = @ + 1]
  <2>1. t \in Trail /\ t.summaries = {} /\ u = [t EXCEPT !.reflections = @ + 1]
    BY <1>1, SprintFacts DEF Trail, RecordInv
  <2> HIDE DEF t, u
  <2> QED
    BY <2>1 DEF Trail
<1>3. trail'[sprint'] = u
  BY <1>1, SprintFacts
<1>4. Due(config, iteration) = Due(config, iteration - 1) + 1
  <2>1. config.evaluator /\ config.reflectAfter \in 1..(iteration - 1) /\ iteration - 1 \in Nat
    BY <1>1, SprintFacts DEF ScoreInv, CountInv
  <2>2. Due(config, (iteration - 1) + 1) = Due(config, iteration - 1) + 1
    BY <1>1, <2>1, SprintFacts, DueMore
  <2> QED
    BY <1>1, <2>2, SprintFacts
<1>5. ScoreInv'
  BY <1>1, SprintFacts DEF ScoreInv
<1>6. CountInv'
  BY <1>1, <1>3, <1>4, SprintFacts DEF CountInv, Trail
<1>7. RecordInv'
  BY <1>1, <1>2, <1>3 DEF RecordInv
<1>8. SprintInv'
  BY <1>1, <1>5, <1>6, <1>7, SprintFacts DEF SprintInv
<1> HIDE DEF u
<1> QED
  BY <1>1, <1>2, <1>8, WriteStep

\* The record of a passed evaluation keeps the invariant.
LEMMA AuditPassStep ==
  IInv /\ AuditPass
    => SprintInv' /\ FutureInv' /\ SummaryMatchesTrail' /\ EscalationJustified'
<1> SUFFICES ASSUME IInv, AuditPass
             PROVE  SprintInv' /\ FutureInv' /\ SummaryMatchesTrail' /\ EscalationJustified'
  OBVIOUS
<1> USE DEF InSprint, BeforeScore, BeforeStrategy, Escalating, Step, hitl, locals
<1> DEFINE u == [trail[sprint] EXCEPT !.passed = @ + 1]
<1>1. /\ pc = "audit_score" /\ pc' = "summary" /\ score = "passed"
      /\ UNCHANGED <<config, escalated, sprint, locals>>
      /\ trail' = [trail EXCEPT ![sprint] = u]
  BY DEF AuditPass
<1>2. u \in Trail /\ u.summaries = {}
  BY <1>1, SprintFacts DEF Trail, RecordInv
<1>3. trail'[sprint'] = u
  BY <1>1, SprintFacts
<1>4. ScoreInv'
  BY <1>1, SprintFacts DEF ScoreInv
<1>5. CountInv'
  BY <1>1, <1>3, SprintFacts DEF CountInv, Trail
<1>6. RecordInv'
  BY <1>1, <1>2, <1>3 DEF RecordInv
<1>7. SprintInv'
  BY <1>1, <1>4, <1>5, <1>6, SprintFacts DEF SprintInv
<1> HIDE DEF u
<1> QED
  BY <1>1, <1>2, <1>7, WriteStep

\* The record of a failed evaluation keeps the invariant.
LEMMA AuditFailureStep ==
  IInv /\ AuditFailure
    => SprintInv' /\ FutureInv' /\ SummaryMatchesTrail' /\ EscalationJustified'
<1> SUFFICES ASSUME IInv, AuditFailure
             PROVE  SprintInv' /\ FutureInv' /\ SummaryMatchesTrail' /\ EscalationJustified'
  OBVIOUS
<1> USE DEF InSprint, BeforeScore, BeforeStrategy, Escalating, Step, hitl
<1> DEFINE u == [trail[sprint] EXCEPT !.failed = @ + 1]
<1>1. /\ pc = "audit_score" /\ score = "failed" /\ pc' \in {"summary", "strategy"}
      /\ UNCHANGED <<config, escalated, sprint, score, patches, decisions>>
      /\ failures' = failures + 1
      /\ trail' = [trail EXCEPT ![sprint] = u]
  BY DEF AuditFailure
<1>2. IF pc' = "summary" THEN iteration = config.iterations /\ iteration' = iteration
                         ELSE iteration < config.iterations /\ iteration' = iteration + 1
  BY <1>1, SprintFacts DEF AuditFailure
<1>3. u \in Trail /\ u.summaries = {}
  BY <1>1, SprintFacts DEF Trail, RecordInv
<1>4. trail'[sprint'] = u
  BY <1>1, SprintFacts
<1>5. ScoreInv'
  BY <1>1, <1>2, SprintFacts DEF ScoreInv
<1>6. CountInv'
  <2>1. (iteration + 1) - 1 = iteration
    BY <1>1, SprintFacts
  <2> QED
    BY <1>1, <1>2, <1>4, <2>1, SprintFacts DEF CountInv, Trail
<1>7. RecordInv'
  BY <1>1, <1>3, <1>4 DEF RecordInv
<1>8. SprintInv'
  BY <1>1, <1>2, <1>5, <1>6, <1>7, SprintFacts DEF SprintInv
<1> HIDE DEF u
<1> QED
  BY <1>1, <1>3, <1>8, WriteStep

\* The record of an escalation keeps the invariant.
LEMMA AuditEscalationStep ==
  IInv /\ AuditEscalation
    => SprintInv' /\ FutureInv' /\ SummaryMatchesTrail' /\ EscalationJustified'
<1> SUFFICES ASSUME IInv, AuditEscalation
             PROVE  SprintInv' /\ FutureInv' /\ SummaryMatchesTrail' /\ EscalationJustified'
  OBVIOUS
<1> USE DEF InSprint, BeforeScore, BeforeStrategy, Escalating, Step, hitl, locals
<1> DEFINE u == [trail[sprint] EXCEPT !.proposed = TRUE]
<1>1. /\ pc = "audit_escalation" /\ pc' = "submit_escalation"
      /\ UNCHANGED <<config, escalated, sprint, locals>>
      /\ trail' = [trail EXCEPT ![sprint] = u]
  BY DEF AuditEscalation
<1>2. trail'[sprint'] = u /\ trail[sprint] \in Trail
  BY <1>1, SprintFacts
<1>3. \A s \in Sprints : s # sprint => trail'[s] = trail[s]
  BY <1>1, SprintFacts
<1>4. ScoreInv'
  BY <1>1, SprintFacts DEF ScoreInv
<1>5. CountInv'
  BY <1>1, <1>2, SprintFacts DEF CountInv, Trail
<1>6. RecordInv'
  BY <1>1, <1>2, SprintFacts DEF RecordInv, Trail
<1>7. SprintInv'
  BY <1>1, <1>4, <1>5, <1>6, SprintFacts DEF SprintInv
<1>8. FutureInv' /\ EscalationJustified'
  BY <1>1, <1>3, SprintFacts DEF IInv, FutureInv, EscalationJustified, Sprints
<1>9. SummaryMatchesTrail'
  BY <1>1, <1>2, <1>3, SprintFacts DEF IInv, SummaryMatchesTrail, Trail
<1> QED
  BY <1>7, <1>8, <1>9

\* The summary of a sprint agrees with its records, which nothing changes but the escalation.
LEMMA LogSummaryStep ==
  IInv /\ pc = "summary" /\ LogSummary /\ UNCHANGED <<config, sprint>>
    => /\ SummaryMatchesTrail'
       /\ \A s \in Sprints : s # sprint => trail'[s] = trail[s]
       /\ trail'[sprint].summaries # {}
       /\ LET t == trail[sprint]
              w == trail'[sprint]
          IN  /\ w.decisions = t.decisions /\ w.reflections = t.reflections
              /\ w.failed = t.failed /\ w.passed = t.passed
<1> SUFFICES ASSUME IInv, pc = "summary", LogSummary, UNCHANGED <<config, sprint>>
             PROVE  /\ SummaryMatchesTrail'
                    /\ \A s \in Sprints : s # sprint => trail'[s] = trail[s]
                    /\ trail'[sprint].summaries # {}
                    /\ LET t == trail[sprint]
                           w == trail'[sprint]
                       IN  /\ w.decisions = t.decisions /\ w.reflections = t.reflections
                           /\ w.failed = t.failed /\ w.passed = t.passed
  OBVIOUS
<1> USE DEF InSprint, BeforeScore, BeforeStrategy, Escalating
<1> DEFINE m == [iterations |-> iteration, failures |-> failures, patches |-> patches,
                 decisions |-> decisions, score |-> score]
           u == [trail[sprint] EXCEPT !.summaries = @ \cup {m}]
<1>1. trail' = [trail EXCEPT ![sprint] = u]
  BY DEF LogSummary
<1>2. trail'[sprint] = u /\ \A s \in Sprints : s # sprint => trail'[s] = trail[s]
  BY <1>1, SprintFacts
<1>3. /\ u.summaries = {m}
      /\ u.decisions = trail[sprint].decisions /\ u.reflections = trail[sprint].reflections
      /\ u.failed = trail[sprint].failed /\ u.passed = trail[sprint].passed
  BY SprintFacts DEF Trail, RecordInv
<1>4. /\ m.iterations = iteration /\ m.failures = failures /\ m.patches = patches
      /\ m.decisions = decisions /\ m.score = score
  OBVIOUS
<1> HIDE DEF u, m
<1>5. /\ u.decisions = m.iterations /\ m.decisions = m.iterations
      /\ m.failures = u.failed
      /\ m.failures = IF m.score = "failed" THEN m.iterations ELSE m.iterations - 1
      /\ m.patches = Due(config, m.iterations) /\ u.reflections = Due(config, m.iterations)
      /\ u.passed = IF m.score = "passed" THEN 1 ELSE 0
  BY <1>3, <1>4, SprintFacts DEF CountInv
<1>6. SummaryMatchesTrail'
  BY <1>2, <1>3, <1>5 DEF IInv, SummaryMatchesTrail, Due
<1> QED
  BY <1>2, <1>3, <1>6

\* The end of a passed sprint keeps the invariant.
LEMMA FinishSprintStep ==
  IInv /\ FinishSprint
    => SprintInv' /\ FutureInv' /\ SummaryMatchesTrail' /\ EscalationJustified'
<1> SUFFICES ASSUME IInv, FinishSprint
             PROVE  SprintInv' /\ FutureInv' /\ SummaryMatchesTrail' /\ EscalationJustified'
  OBVIOUS
<1>1. /\ pc = "summary" /\ pc' = "sprint" /\ LogSummary
      /\ UNCHANGED <<config, sprint, escalated>>
  BY DEF FinishSprint, Step, hitl
<1>2. SprintInv'
  BY <1>1 DEF SprintInv, InSprint, BeforeScore, BeforeStrategy, Escalating
<1>3. sprint \in Sprints /\ escalated = {}
  BY <1>1, SprintFacts DEF InSprint
<1>4. FutureInv'
  BY <1>1, <1>3, LogSummaryStep DEF IInv, FutureInv, Sprints
<1>5. EscalationJustified'
  BY <1>1, <1>3 DEF EscalationJustified
<1> QED
  BY <1>1, <1>2, <1>4, <1>5, LogSummaryStep

\* The end of an exhausted sprint keeps the invariant.
LEMMA ExhaustSprintStep ==
  IInv /\ ExhaustSprint
    => SprintInv' /\ FutureInv' /\ SummaryMatchesTrail' /\ EscalationJustified'
<1> SUFFICES ASSUME IInv, ExhaustSprint
             PROVE  SprintInv' /\ FutureInv' /\ SummaryMatchesTrail' /\ EscalationJustified'
  OBVIOUS
<1>1. /\ pc = "summary" /\ pc' = "audit_escalation" /\ score = "failed" /\ LogSummary
      /\ UNCHANGED <<config, sprint, escalated, locals>>
  BY DEF ExhaustSprint, Step, hitl
<1> USE DEF InSprint, BeforeScore, BeforeStrategy, Escalating, locals
<1>2. sprint \in Sprints /\ escalated = {}
  BY <1>1, SprintFacts
<1>3. FutureInv'
  BY <1>1, <1>2, LogSummaryStep DEF IInv, FutureInv, Sprints
<1>4. EscalationJustified'
  BY <1>1, <1>2 DEF EscalationJustified
<1>5. ScoreInv'
  BY <1>1, SprintFacts DEF ScoreInv
<1>6. CountInv'
  BY <1>1, LogSummaryStep, SprintFacts DEF CountInv
<1>7. RecordInv'
  BY <1>1, LogSummaryStep DEF RecordInv
<1>8. SprintInv'
  BY <1>1, <1>5, <1>6, <1>7, SprintFacts DEF SprintInv
<1> QED
  BY <1>1, <1>3, <1>4, <1>8, LogSummaryStep

\* Handing over the escalation, also when submit_for_approval raises after it.
LEMMA EscalateStep ==
  IInv /\ pc = "submit_escalation" /\ pc' \in {"returned", "raised"}
    /\ escalated' = escalated \cup {sprint} /\ UNCHANGED <<config, sprint, trail>>
    => SprintInv' /\ FutureInv' /\ SummaryMatchesTrail' /\ EscalationJustified'
<1> SUFFICES ASSUME IInv, pc = "submit_escalation", pc' \in {"returned", "raised"},
                    escalated' = escalated \cup {sprint}, UNCHANGED <<config, sprint, trail>>
             PROVE  SprintInv' /\ FutureInv' /\ SummaryMatchesTrail' /\ EscalationJustified'
  OBVIOUS
<1> USE DEF InSprint, BeforeScore, BeforeStrategy, Escalating
<1>1. SprintInv'
  BY DEF SprintInv
<1>2. FutureInv'
  BY DEF IInv, FutureInv
<1>3. SummaryMatchesTrail'
  BY DEF IInv, SummaryMatchesTrail
<1>4. escalated' = {sprint}
  BY SprintFacts
<1>5. /\ trail[sprint].failed = config.iterations /\ trail[sprint].passed = 0
      /\ trail[sprint].summaries # {} /\ trail[sprint].proposed
  BY SprintFacts DEF ScoreInv, CountInv, RecordInv
<1>6. \A s \in Sprints : s > sprint => trail[s].decisions = 0
  BY DEF IInv, FutureInv, Empty
<1>7. EscalationJustified'
  BY <1>4, <1>5, <1>6 DEF EscalationJustified
<1> QED
  BY <1>1, <1>2, <1>3, <1>7

\* A call that raises keeps the invariant.
LEMMA RaiseStep ==
  IInv /\ Raise => SprintInv' /\ FutureInv' /\ SummaryMatchesTrail' /\ EscalationJustified'
<1> SUFFICES ASSUME IInv, Raise
             PROVE  SprintInv' /\ FutureInv' /\ SummaryMatchesTrail' /\ EscalationJustified'
  OBVIOUS
<1>1. pc' = "raised" /\ UNCHANGED <<config, sprint, trail>>
  BY DEF Raise
<1>2. CASE UNCHANGED escalated
  <2>1. SprintInv' /\ FutureInv'
    BY <1>1, <1>2 DEF IInv, SprintInv, FutureInv, InSprint, BeforeScore, BeforeStrategy, Escalating
  <2> QED
    BY <1>1, <1>2, <2>1, QuietStep
<1>3. CASE pc = "submit_escalation" /\ escalated' = escalated \cup {sprint}
  BY <1>1, <1>3, EscalateStep
<1> QED
  BY <1>2, <1>3 DEF Raise, hitl

\* The invariant holds at the start.
LEMMA InvInit == Init => IInv
<1> SUFFICES ASSUME Init PROVE IInv
  OBVIOUS
<1>1. \A s \in Sprints : trail[s] = Empty
  BY DEF Init, Empty
<1> QED
  BY <1>1, TypeInit
  DEF Init, IInv, SprintInv, FutureInv, SummaryMatchesTrail, EscalationJustified, Empty,
      InSprint, BeforeScore, BeforeStrategy, Escalating

\* Every step keeps the invariant.
LEMMA InvStep == IInv /\ [Next]_vars => IInv'
<1> SUFFICES ASSUME IInv, [Next]_vars PROVE IInv'
  OBVIOUS
<1>1. TypeOK'
  BY TypeStep DEF IInv, SprintInv, Begun
<1>2. SprintInv' /\ FutureInv' /\ SummaryMatchesTrail' /\ EscalationJustified'
  <2>1. CASE SubmitEscalation
    BY <2>1, EscalateStep DEF SubmitEscalation, Step
  <2>2. CASE UNCHANGED vars
    BY <2>2 DEF vars, locals, hitl, IInv, SprintInv, ScoreInv, CountInv, RecordInv, FutureInv,
       SummaryMatchesTrail, EscalationJustified
  <2> QED
    BY <1>1, <2>1, <2>2, OutsideStep, BeginSprintStep, GenerationStep, ChooseStrategyStep,
       AuditPatchStep, AuditPassStep, AuditFailureStep, FinishSprintStep, ExhaustSprintStep,
       AuditEscalationStep, RaiseStep DEF Next, Proceed
<1> QED
  BY <1>1, <1>2 DEF IInv

\* What each await of the sprint loop implies about the counters, the audit records
\* and the gateway, in every run (coordinator.py:180-284).
THEOREM InvCorrect == Spec => []IInv
  BY InvInit, InvStep, PTL DEF Spec

\* Whatever the settings and however long the run, the summary the reviewer of an
\* escalation reads agrees with the audit trail (coordinator.py:203-284, 390-436).
THEOREM SummariesMatch == Spec => []SummaryMatchesTrail
<1>1. IInv => SummaryMatchesTrail
  BY DEF IInv
<1> QED
  BY <1>1, InvCorrect, PTL

\* Whatever the settings, only a sprint that failed all its iterations reaches the
\* gateway, after its audit records (coordinator.py:274-284, 447-516).
THEOREM EscalationsJustified == Spec => []EscalationJustified
<1>1. IInv => EscalationJustified
  BY DEF IInv
<1> QED
  BY <1>1, InvCorrect, PTL
--------------------------------------------------------------------------------
(* The result *)

\* The runs that evaluate their sprints.
Evaluating == config.mode # "solo" /\ config.iterations > 0 /\ config.evaluator

\* Until the run ends, its result counts the finished sprints, and all have passed.
ResultInv ==
  Evaluating =>
    /\ pc \notin {"returned", "raised"} =>
         LET done == IF pc \in InSprint THEN sprint - 1 ELSE sprint
         IN  /\ result.artifacts = done /\ ~result.escalated
             /\ \A s \in Sprints : s <= done => trail[s].passed = 1
    /\ ResultMatchesSprints

\* A step within a sprint writes on the sprint under way only.
LEMMA OwnTrail ==
  IInv /\ pc \in InSprint /\ Proceed
    => /\ sprint' = sprint /\ config' = config
       /\ \A s \in Sprints : s # sprint => trail'[s] = trail[s]
<1> SUFFICES ASSUME IInv, pc \in InSprint, Proceed
             PROVE  /\ sprint' = sprint /\ config' = config
                    /\ \A s \in Sprints : s # sprint => trail'[s] = trail[s]
  OBVIOUS
<1> USE DEF Step, InSprint, BeforeScore, BeforeStrategy, Escalating
<1>1. trail \in [Sprints -> Trail]
  BY SprintFacts
<1>2. sprint' = sprint /\ config' = config
  BY DEF Proceed, RunSolo, RunSimplified, RunFull, Plan, AuditPlan, AuditReview, SubmitReview,
         BeginSprint, SkipSprint, Return, ChooseStrategy, StartReflection, Reflect, AuditPatch,
         Generate, Evaluate, AuditPass, AuditFailure, FinishSprint, ExhaustSprint,
         AuditEscalation, SubmitEscalation
<1>3. CASE StartReflection \/ Reflect \/ Generate \/ Evaluate \/ SubmitEscalation
  BY <1>2, <1>3 DEF StartReflection, Reflect, Generate, Evaluate, SubmitEscalation, locals
<1>4. CASE ChooseStrategy \/ AuditPatch \/ AuditPass \/ AuditFailure \/ AuditEscalation
  <2>1. \E u : trail' = [trail EXCEPT ![sprint] = u]
    BY <1>1, <1>4 DEF ChooseStrategy, LogDecision, AuditPatch, AuditPass, AuditFailure,
                      AuditEscalation
  <2> QED BY <1>1, <1>2, <2>1
<1>5. CASE FinishSprint \/ ExhaustSprint
  <2>1. \E u : trail' = [trail EXCEPT ![sprint] = u]
    BY <1>5 DEF FinishSprint, ExhaustSprint, LogSummary
  <2> QED BY <1>1, <1>2, <2>1
<1> QED
  BY <1>3, <1>4, <1>5
  DEF Proceed, RunSolo, RunSimplified, RunFull, Plan, AuditPlan, AuditReview, SubmitReview,
      BeginSprint, SkipSprint, Return

\* Every step keeps the result right.
LEMMA ResultStep == IInv /\ IInv' /\ ResultInv /\ [Next]_vars => ResultInv'
<1> SUFFICES ASSUME IInv, IInv', ResultInv, [Next]_vars, Evaluating' PROVE ResultInv'
  BY DEF ResultInv
<1>0. /\ config' = config /\ Evaluating
      /\ sprint \in Int /\ planned \in 0..MaxSprints /\ MaxSprints \in Nat
      /\ result \in [iterations : Nat, artifacts : Nat, score : Scores, escalated : BOOLEAN]
  <2>1. config' = config
    BY DEF Next, Proceed, vars, Raise, RunSolo, RunSimplified, RunFull, Plan, AuditPlan,
           AuditReview, SubmitReview, BeginSprint, SkipSprint, Return, ChooseStrategy,
           StartReflection, Reflect, AuditPatch, Generate, Evaluate, AuditPass, AuditFailure,
           FinishSprint, ExhaustSprint, AuditEscalation, SubmitEscalation
  <2> QED BY <2>1, HarnessAssumption DEF Evaluating, IInv, TypeOK
<1> USE DEF Step, InSprint, BeforeScore, BeforeStrategy, Escalating
<1>1. CASE UNCHANGED vars
  BY <1>1 DEF vars, locals, hitl, ResultInv, ResultMatchesSprints, Evaluating
<1>2. CASE Raise
  BY <1>2 DEF Raise, ResultInv, ResultMatchesSprints
<1>3. CASE \/ RunSimplified \/ RunFull \/ Plan \/ AuditPlan \/ AuditReview \/ SubmitReview
  <2>1. /\ pc \notin InSprint /\ pc' \notin InSprint /\ pc \notin {"returned", "raised"}
        /\ pc' \notin {"returned", "raised"} /\ UNCHANGED <<sprint, trail, result>>
    BY <1>3 DEF RunSimplified, RunFull, Plan, AuditPlan, AuditReview, SubmitReview, locals
  <2> QED BY <1>0, <2>1 DEF ResultInv, ResultMatchesSprints
<1>4. CASE RunSolo \/ SkipSprint
  BY <1>0, <1>4 DEF RunSolo, SkipSprint, Evaluating
<1>5. CASE BeginSprint
  BY <1>0, <1>5 DEF BeginSprint, ResultInv, ResultMatchesSprints
<1>6. CASE Return
  <2>1. /\ pc = "sprint" /\ pc' = "returned" /\ sprint = planned
        /\ UNCHANGED <<sprint, planned, trail, result, escalated>>
    BY <1>6 DEF Return, hitl
  <2>2. escalated = {}
    BY <2>1 DEF IInv, FutureInv
  <2>3. /\ result.artifacts = sprint /\ result.escalated = FALSE
        /\ \A s \in Sprints : s <= sprint => trail[s].passed = 1
    BY <1>0, <2>1 DEF ResultInv
  <2>4. 1..sprint \subseteq Sprints
    BY <1>0, <2>1 DEF Sprints
  <2>5. ResultMatchesSprints'
    BY <2>1, <2>2, <2>3, <2>4 DEF ResultMatchesSprints
  <2> QED BY <2>1, <2>5 DEF ResultInv
<1>7. CASE \/ ChooseStrategy \/ StartReflection \/ Reflect \/ AuditPatch \/ Generate \/ Evaluate
           \/ AuditPass \/ AuditFailure \/ ExhaustSprint \/ AuditEscalation
  <2>1. /\ pc \in InSprint /\ pc' \in InSprint /\ result' = result
    BY <1>7 DEF ChooseStrategy, StartReflection, Reflect, AuditPatch, Generate, Evaluate,
                AuditPass, AuditFailure, ExhaustSprint, AuditEscalation
  <2>2. sprint' = sprint /\ \A s \in Sprints : s # sprint => trail'[s] = trail[s]
    BY <1>7, <2>1, OwnTrail DEF Proceed
  <2> QED BY <1>0, <2>1, <2>2 DEF ResultInv, ResultMatchesSprints
<1>8. CASE FinishSprint
  <2>1. /\ pc = "summary" /\ pc' = "sprint" /\ score # "failed" /\ LogSummary
        /\ sprint' = sprint
        /\ result'.artifacts = result.artifacts + 1 /\ result'.escalated = FALSE
    BY <1>8 DEF FinishSprint, Collect
  <2>2. /\ sprint \in Sprints /\ score = "passed" /\ trail[sprint].passed = 1
    BY <1>0, <2>1, SprintFacts DEF ScoreInv, CountInv, Evaluating, IInv, TypeOK, Scores
  <2>3. /\ trail'[sprint].passed = 1
        /\ \A s \in Sprints : s # sprint => trail'[s] = trail[s]
    BY <1>0, <2>1, <2>2, LogSummaryStep
  <2>4. /\ result.artifacts = sprint - 1
        /\ \A s \in Sprints : s <= sprint - 1 => trail[s].passed = 1
    BY <1>0, <2>1 DEF ResultInv
  <2>5. \A s \in Sprints : s <= sprint => trail'[s].passed = 1
    BY <1>0, <2>3, <2>4 DEF Sprints
  <2> QED BY <1>0, <2>1, <2>4, <2>5 DEF ResultInv, ResultMatchesSprints
<1>9. CASE SubmitEscalation
  <2>1. /\ pc = "submit_escalation" /\ pc' = "returned"
        /\ sprint' = sprint /\ trail' = trail /\ escalated' = escalated \cup {sprint}
        /\ result'.artifacts = result.artifacts + 1 /\ result'.escalated = TRUE
        /\ result'.score = score
    BY <1>9 DEF SubmitEscalation, Collect
  <2>2. escalated' = {sprint} /\ score = "failed" /\ trail[sprint].passed = 0 /\ sprint \in Sprints
    BY <2>1, SprintFacts DEF ScoreInv, CountInv
  <2>3. /\ result.artifacts = sprint - 1
        /\ \A s \in Sprints : s <= sprint - 1 => trail[s].passed = 1
    BY <1>0, <2>1 DEF ResultInv
  <2>4. \A s \in 1..sprint : s # sprint => s \in Sprints /\ s <= sprint - 1
    BY <1>0, <2>2 DEF Sprints
  <2>5. ResultMatchesSprints'
    BY <1>0, <2>1, <2>2, <2>3, <2>4 DEF ResultMatchesSprints
  <2> QED BY <2>1, <2>5 DEF ResultInv
<1> QED
  BY <1>1, <1>2, <1>3, <1>4, <1>5, <1>6, <1>7, <1>8, <1>9 DEF Next, Proceed

\* In every run whose sprints are evaluated, the result accounts for each planned
\* sprint: all have passed, or all before the one that is with the gateway
\* (coordinator.py:161-178).
THEOREM ResultsAccountForSprints == Spec => []ResultMatchesSprints
<1>1. Init => ResultInv
  BY DEF Init, ResultInv, ResultMatchesSprints, InSprint, BeforeScore, BeforeStrategy, Escalating,
         Sprints
<1>2. ResultInv /\ TypeOK => ResultMatchesSprints
  BY DEF ResultInv, ResultMatchesSprints, Evaluating
<1>3. IInv => TypeOK
  BY DEF IInv
<1> QED
  BY <1>1, <1>2, <1>3, InvInit, InvStep, ResultStep, PTL DEF Spec
--------------------------------------------------------------------------------
(* Termination of a run.                                                      *)

\* An iteration has fewer awaits than the 20 set aside for it.
LEMMA AwaitsBounded == \A p : Awaits(p) \in 0..16
  BY DEF Awaits

\* One sprint less is one room less.
LEMMA OneLess == ASSUME NEW a \in Int, NEW w \in Int PROVE (a - 1) * w = a * w - w
  BY SMT

\* What is ahead of the run is a natural number.
LEMMA LeftType == TypeOK => Left \in Nat
<1> SUFFICES ASSUME TypeOK PROVE Left \in Nat
  OBVIOUS
<1>1. config.iterations \in Nat /\ Room \in Nat
  BY DEF TypeOK, Configs, Room
<1>2. MaxSprints - sprint \in Nat
  BY HarnessAssumption DEF TypeOK
<1>3. config.iterations - iteration \in Nat
  BY <1>1 DEF TypeOK
<1>4. ASSUME NEW a \in Nat, NEW w \in Nat PROVE a * w \in Nat
  BY SMT
<1> QED
  BY <1>1, <1>2, <1>3, <1>4, AwaitsBounded DEF Left

\* An await passed is one less ahead.
LEMMA AwaitPassed ==
  TypeOK /\ UNCHANGED <<config, sprint, iteration>> /\ Awaits(pc') < Awaits(pc) => Left' < Left
<1> SUFFICES ASSUME TypeOK, UNCHANGED <<config, sprint, iteration>>, Awaits(pc') < Awaits(pc)
             PROVE  Left' < Left
  OBVIOUS
<1> DEFINE ahead == (MaxSprints - sprint) * Room + 20 * (config.iterations - iteration)
<1>1. Room \in Int /\ MaxSprints - sprint \in Int /\ config.iterations - iteration \in Int
  BY HarnessAssumption DEF TypeOK, Configs, Room
<1>2. ahead \in Int
  <2>1. ASSUME NEW a \in Int, NEW w \in Int PROVE a * w \in Int
    BY SMT
  <2> QED BY <1>1, <2>1
<1>3. Room' = Room
  BY DEF Room
<1>4. Left = ahead + Awaits(pc) /\ Left' = ahead + Awaits(pc')
  BY <1>3 DEF Left
<1> HIDE DEF ahead
<1> QED
  BY <1>2, <1>4, AwaitsBounded

\* A sprint entered is one less to come: its iterations fit in its room.
LEMMA SprintPassed ==
  TypeOK /\ TypeOK' /\ config' = config /\ sprint' = sprint + 1 /\ Awaits(pc') < Awaits(pc) + 20
    => Left' < Left
<1> SUFFICES ASSUME TypeOK, TypeOK', config' = config, sprint' = sprint + 1,
                    Awaits(pc') < Awaits(pc) + 20
             PROVE  Left' < Left
  OBVIOUS
<1> DEFINE a == MaxSprints - sprint
           i == config.iterations
<1>1. i \in Nat /\ iteration \in 0..i /\ iteration' \in 0..i
  BY DEF TypeOK, Configs
<1>2. Room = 20 * (i + 1) /\ Room' = Room /\ Room \in Int
  BY <1>1 DEF Room
<1>3. a \in Int /\ MaxSprints - sprint' = a - 1
  BY HarnessAssumption DEF TypeOK
<1>4. /\ Left = a * Room + 20 * (i - iteration) + Awaits(pc)
      /\ Left' = (a - 1) * Room + 20 * (i - iteration') + Awaits(pc')
  BY <1>2, <1>3 DEF Left
<1>5. (a - 1) * Room = a * Room - Room /\ a * Room \in Int
  <2>1. ASSUME NEW b \in Int, NEW w \in Int PROVE b * w \in Int
    BY SMT
  <2> QED BY <1>2, <1>3, <2>1, OneLess
<1> HIDE DEF a, i
<1> QED
  BY <1>1, <1>2, <1>4, <1>5, AwaitsBounded

\* Every step of the run, an await that raises included, leaves less ahead.
LEMMA LeftStep == TypeOK /\ TypeOK' /\ Next => Left' < Left
<1> SUFFICES ASSUME TypeOK, TypeOK', Next PROVE Left' < Left
  OBVIOUS
<1> USE DEF Step, locals, hitl
<1>1. CASE \/ RunSolo \/ RunSimplified \/ RunFull \/ Plan \/ AuditPlan \/ AuditReview
           \/ SubmitReview \/ Return
  <2>1. UNCHANGED <<config, sprint, iteration>>
    BY <1>1 DEF RunSolo, RunSimplified, RunFull, Plan, AuditPlan, AuditReview, SubmitReview, Return
  <2>2. Awaits(pc') < Awaits(pc)
    BY <1>1 DEF RunSolo, RunSimplified, RunFull, Plan, AuditPlan, AuditReview, SubmitReview, Return,
                Awaits
  <2> QED BY <2>1, <2>2, AwaitPassed
<1>2. CASE \/ ChooseStrategy \/ StartReflection \/ Reflect \/ AuditPatch \/ Generate \/ Evaluate
           \/ AuditPass
  <2>1. UNCHANGED <<config, sprint, iteration>>
    BY <1>2 DEF ChooseStrategy, StartReflection, Reflect, AuditPatch, Generate, Evaluate, AuditPass
  <2>2. Awaits(pc') < Awaits(pc)
    BY <1>2 DEF ChooseStrategy, StartReflection, Reflect, AuditPatch, Generate, Evaluate, AuditPass,
                Awaits
  <2> QED BY <2>1, <2>2, AwaitPassed
<1>3. CASE FinishSprint \/ ExhaustSprint \/ AuditEscalation \/ SubmitEscalation
  <2>1. UNCHANGED <<config, sprint, iteration>>
    BY <1>3 DEF FinishSprint, ExhaustSprint, AuditEscalation, SubmitEscalation
  <2>2. Awaits(pc') < Awaits(pc)
    <3>1. \/ pc = "summary" /\ pc' \in {"sprint", "audit_escalation"}
          \/ pc = "audit_escalation" /\ pc' = "submit_escalation"
          \/ pc = "submit_escalation" /\ pc' = "returned"
      BY <1>3 DEF FinishSprint, ExhaustSprint, AuditEscalation, SubmitEscalation
    <3> QED BY <3>1 DEF Awaits
  <2> QED BY <2>1, <2>2, AwaitPassed
<1>4. CASE Raise
  <2>1. UNCHANGED <<config, sprint, iteration>> /\ Awaits(pc') = 0
    BY <1>4 DEF Raise, Awaits
  <2>2. Awaits(pc) > 0
    BY <1>4 DEF Raise, Awaits, TypeOK, Points
  <2> QED BY <2>1, <2>2, AwaitPassed, AwaitsBounded
<1>5. CASE BeginSprint \/ SkipSprint
  <2>1. config' = config /\ sprint' = sprint + 1
    BY <1>5 DEF BeginSprint, SkipSprint
  <2>2. Awaits(pc) = 2 /\ Awaits(pc') < 22
    BY <1>5, AwaitsBounded DEF BeginSprint, SkipSprint, Awaits
  <2> QED BY <2>1, <2>2, SprintPassed
<1>6. CASE AuditFailure
  <2>1. UNCHANGED <<config, sprint>>
    BY <1>6 DEF AuditFailure
  <2>2. CASE iteration' = iteration
    <3>1. Awaits(pc') < Awaits(pc)
      BY <1>6, <2>2, IterationType DEF AuditFailure, Awaits
    <3> QED BY <2>1, <2>2, <3>1, AwaitPassed
  <2>3. CASE iteration' = iteration + 1
    <3> DEFINE rest == (MaxSprints - sprint) * Room
               i == config.iterations
    <3>1. i \in Nat /\ Room \in Int /\ MaxSprints - sprint \in Int /\ iteration \in Int
      BY HarnessAssumption, IterationType DEF TypeOK, Configs, Room
    <3>2. rest \in Int
      <4>1. ASSUME NEW a \in Int, NEW w \in Int PROVE a * w \in Int
        BY SMT
      <4> QED BY <3>1, <4>1
    <3>3. /\ Left = rest + 20 * (i - iteration) + Awaits(pc)
          /\ Left' = rest + 20 * (i - (iteration + 1)) + Awaits(pc')
      BY <2>1, <2>3 DEF Left, Room
    <3> HIDE DEF rest, i
    <3> QED BY <3>1, <3>2, <3>3, AwaitsBounded
  <2> QED BY <1>6, <2>2, <2>3 DEF AuditFailure
<1> QED
  BY <1>1, <1>2, <1>3, <1>4, <1>5, <1>6 DEF Next, Proceed

\* No run goes round for ever: whatever the evaluator answers and whatever raises,
\* each step uses up one of the awaits that harness_max_iterations and the planned
\* sprints allow, which are finitely many (coordinator.py:203, 516).
THEOREM RunsProgress == Spec => RunProgresses
<1>1. TypeOK /\ TypeOK' /\ [Next]_vars => [Left' < Left]_vars
  BY LeftStep
<1>2. Spec => [](Left \in Nat)
  BY LeftType, TypeCorrect, PTL
<1>3. (Left \in Nat)' /\ [Left' < Left]_vars => [Left' \in Nat /\ Left' < Left]_vars
  OBVIOUS
<1> QED
  BY <1>1, <1>2, <1>3, TypeCorrect, PTL DEF Spec, RunProgresses
================================================================================
