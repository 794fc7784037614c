--------------------------- MODULE HarnessCoordinator ---------------------------
(***************************************************************************)
(* One run of the multi-agent harness (agents/harness/): the coordinator   *)
(* plans sprints, lets the generator and the evaluator work on each until  *)
(* it passes or its iterations are used up, and escalates to the HITL      *)
(* gateway.  Every action runs from one await to the next; the calls it    *)
(* awaits (model, audit log, gateway) return or raise.                     *)
(*                                                                         *)
(* A run has one coroutine.  What can go wrong is in the bookkeeping: the  *)
(* same facts are kept in locals, in audit records, in the summary for the *)
(* human and in the result, and any call may end the run between them.     *)
(***************************************************************************)
EXTENDS Integers, FiniteSets

CONSTANTS
  MaxSprints,     \* bound: sprint contracts the planner's model proposes
  MaxIterations   \* bound: values of the two integer settings

ASSUME HarnessAssumption == MaxSprints \in Nat \ {0} /\ MaxIterations \in Nat

Sprints == 1..MaxSprints

\* The harness_* settings: nothing restricts the integers.
Configs ==
  [mode : {"solo", "simplified", "full"},
   planner : BOOLEAN,               \* harness_planner_enabled
   review : BOOLEAN,                \* harness_planner_hitl_review
   evaluator : BOOLEAN,             \* harness_evaluator_enabled
   iterations : 0..MaxIterations,   \* harness_max_iterations
   reflectAfter : 0..MaxIterations] \* harness_patch_proposal_threshold

VARIABLES
  config,
  pc,          \* the await the coroutine is suspended at
  planned,     \* len(spec.sprint_contracts)
  sprint,      \* the sprint under way, 0 before the first
  iteration,
  score,       \* last_score of the sprint
  failures, patches, decisions,   \* len of the lists behind the summary
  trail,       \* trail[s], the audit records about sprint s
  reviewed,    \* whether the plan review is with the gateway
  escalated,   \* the sprints whose escalation is with the gateway
  result       \* the locals of _execute_sprints that make up HarnessResult

locals == <<iteration, score, failures, patches, decisions>>
hitl   == <<reviewed, escalated>>
vars   == <<config, pc, planned, sprint, locals, trail, hitl, result>>

Dimensions == {"quality", "originality", "craft", "functionality"}

Scores == {"none", "passed", "failed"}
Points ==
  {"start", "plan", "audit_plan", "audit_review", "submit_review", "sprint", "strategy",
   "reflect", "audit_patch", "generate", "evaluate", "audit_score", "summary",
   "audit_escalation", "submit_escalation", "returned", "raised"}

\* An ExecutionSummary, and the records of a sprint with the same counts.
Summary == [iterations : Nat, failures : Nat, patches : Nat, decisions : Nat, score : Scores]
Trail ==
  [decisions : Nat, reflections : Nat, failed : Nat, passed : Nat,
   summaries : SUBSET Summary, proposed : BOOLEAN]

TypeOK ==
  /\ config \in Configs
  /\ pc \in Points
  /\ planned \in 0..MaxSprints
  /\ sprint \in 0..MaxSprints
  /\ iteration \in 0..config.iterations
  /\ score \in Scores
  /\ failures \in Nat /\ patches \in Nat /\ decisions \in Nat
  /\ trail \in [Sprints -> Trail]
  /\ reviewed \in BOOLEAN
  /\ escalated \in SUBSET Sprints
  /\ result \in [iterations : Nat, artifacts : Nat, score : Scores, escalated : BOOLEAN]

Init ==
  /\ config \in Configs
  /\ pc = "start"
  /\ planned = 0 /\ sprint = 0
  /\ iteration = 0 /\ score = "none"
  /\ failures = 0 /\ patches = 0 /\ decisions = 0
  /\ trail = [s \in Sprints |->
                [decisions |-> 0, reflections |-> 0, failed |-> 0, passed |-> 0,
                 summaries |-> {}, proposed |-> FALSE]]
  /\ reviewed = FALSE
  /\ escalated = {}
  /\ result = [iterations |-> 0, artifacts |-> 0, score |-> "none", escalated |-> FALSE]

Step(from, to) == pc = from /\ pc' = to

--------------------------------------------------------------------------------
(* Choosing the mode and planning.  A "Variant of X" is X with a slip, part   *)
(* of no specification.                                                       *)

RunSolo ==
  /\ config.mode = "solo"
  /\ Step("start", "returned")
  /\ result' = [result EXCEPT !.iterations = 1, !.artifacts = 1]
  /\ UNCHANGED <<config, planned, sprint, locals, trail, hitl>>

\* One sprint made of the whole brief, also in full mode without its planner.
RunSimplified ==
  /\ config.mode = "simplified" \/ (config.mode = "full" /\ ~config.planner)
  /\ Step("start", "sprint")
  /\ planned' = 1
  /\ UNCHANGED <<config, sprint, locals, trail, hitl, result>>

RunFull ==
  /\ config.mode = "full" /\ config.planner
  /\ Step("start", "plan")
  /\ UNCHANGED <<config, planned, sprint, locals, trail, hitl, result>>

\* The model's answer may list no sprint at all.
Plan ==
  /\ Step("plan", "audit_plan")
  /\ \E n \in 0..MaxSprints : planned' = n
  /\ UNCHANGED <<config, sprint, locals, trail, hitl, result>>

AuditPlan ==
  /\ Step("audit_plan", IF config.review THEN "audit_review" ELSE "sprint")
  /\ UNCHANGED <<config, planned, sprint, locals, trail, hitl, result>>

AuditReview ==
  /\ Step("audit_review", "submit_review")
  /\ UNCHANGED <<config, planned, sprint, locals, trail, hitl, result>>

\* submit_for_approval does not wait for the reviewer, and neither does the plan.
SubmitReview ==
  /\ Step("submit_review", "sprint")
  /\ reviewed' = TRUE
  /\ UNCHANGED <<config, planned, sprint, locals, trail, escalated, result>>

--------------------------------------------------------------------------------
(* _execute_sprints and _run_sprint *)

\* Variant of BeginSprint: the lists behind the summary outlive their sprint.
BeginSprintKeepingLists ==
  /\ sprint < planned
  /\ config.iterations > 0
  /\ Step("sprint", "strategy")
  /\ sprint' = sprint + 1
  /\ iteration' = 1 /\ score' = "none"
  /\ UNCHANGED <<config, planned, failures, patches, decisions, trail, hitl, result>>

BeginSprint ==
  /\ sprint < planned
  /\ config.iterations > 0
  /\ Step("sprint", "strategy")
  /\ sprint' = sprint + 1
  /\ iteration' = 1 /\ score' = "none"
  /\ failures' = 0 /\ patches' = 0 /\ decisions' = 0
  /\ UNCHANGED <<config, planned, trail, hitl, result>>

\* With no iteration allowed the loop is skipped: an empty artifact, no score.
SkipSprint ==
  /\ sprint < planned
  /\ config.iterations = 0
  /\ Step("sprint", "sprint")
  /\ sprint' = sprint + 1
  /\ result' = [result EXCEPT !.artifacts = @ + 1, !.score = "none"]
  /\ UNCHANGED <<config, planned, locals, trail, hitl>>

Return ==
  /\ sprint = planned
  /\ Step("sprint", "returned")
  /\ UNCHANGED <<config, planned, sprint, locals, trail, hitl, result>>

Reflecting == config.reflectAfter > 0 /\ score # "none" /\ iteration - 1 >= config.reflectAfter

\* DecisionTreeLogger.log: the list and the audit record.
LogDecision ==
  /\ decisions' = decisions + 1
  /\ trail' = [trail EXCEPT ![sprint].decisions = @ + 1]

ChooseStrategy ==
  /\ ~Reflecting
  /\ Step("strategy", "generate")
  /\ LogDecision
  /\ UNCHANGED <<config, planned, sprint, iteration, score, failures, patches, hitl, result>>

StartReflection ==
  /\ Reflecting
  /\ Step("strategy", "reflect")
  /\ UNCHANGED <<config, planned, sprint, locals, trail, hitl, result>>

Reflect ==
  /\ Step("reflect", "audit_patch")
  /\ patches' = patches + 1
  /\ UNCHANGED <<config, planned, sprint, iteration, score, failures, decisions, trail,
                 hitl, result>>

AuditPatch ==
  /\ Step("audit_patch", "generate")
  /\ decisions' = decisions + 1
  /\ trail' = [trail EXCEPT ![sprint].decisions = @ + 1, ![sprint].reflections = @ + 1]
  /\ UNCHANGED <<config, planned, sprint, iteration, score, failures, patches, hitl, result>>

\* Without an evaluator the sprint counts as finished, with no score.
Generate ==
  /\ Step("generate", IF config.evaluator THEN "evaluate" ELSE "summary")
  /\ UNCHANGED <<config, planned, sprint, locals, trail, hitl, result>>

\* A sprint passes when no dimension is below the threshold.
Evaluate ==
  /\ Step("evaluate", "audit_score")
  /\ \E weak \in SUBSET Dimensions : score' = IF weak = {} THEN "passed" ELSE "failed"
  /\ UNCHANGED <<config, planned, sprint, iteration, failures, patches, decisions, trail,
                 hitl, result>>

AuditPass ==
  /\ score = "passed"
  /\ Step("audit_score", "summary")
  /\ trail' = [trail EXCEPT ![sprint].passed = @ + 1]
  /\ UNCHANGED <<config, planned, sprint, locals, hitl, result>>

\* Variants of AuditFailure: the loop bound is off by one, up or down; the iteration
\* is not counted.
AuditFailureOnceMore ==
  /\ score = "failed"
  /\ IF iteration > config.iterations
       THEN Step("audit_score", "summary") /\ UNCHANGED iteration
       ELSE Step("audit_score", "strategy") /\ iteration' = iteration + 1
  /\ failures' = failures + 1
  /\ trail' = [trail EXCEPT ![sprint].failed = @ + 1]
  /\ UNCHANGED <<config, planned, sprint, score, patches, decisions, hitl, result>>
AuditFailureOnceLess ==
  /\ score = "failed"
  /\ IF iteration + 1 >= config.iterations
       THEN Step("audit_score", "summary") /\ UNCHANGED iteration
       ELSE Step("audit_score", "strategy") /\ iteration' = iteration + 1
  /\ failures' = failures + 1
  /\ trail' = [trail EXCEPT ![sprint].failed = @ + 1]
  /\ UNCHANGED <<config, planned, sprint, score, patches, decisions, hitl, result>>
AuditFailureUncounted ==
  /\ score = "failed"
  /\ IF iteration = config.iterations
       THEN Step("audit_score", "summary")
       ELSE Step("audit_score", "strategy")
  /\ failures' = failures + 1
  /\ trail' = [trail EXCEPT ![sprint].failed = @ + 1]
  /\ UNCHANGED <<config, planned, sprint, iteration, score, patches, decisions, hitl, result>>

AuditFailure ==
  /\ score = "failed"
  /\ IF iteration = config.iterations
       THEN Step("audit_score", "summary") /\ UNCHANGED iteration
       ELSE Step("audit_score", "strategy") /\ iteration' = iteration + 1
  /\ failures' = failures + 1
  /\ trail' = [trail EXCEPT ![sprint].failed = @ + 1]
  /\ UNCHANGED <<config, planned, sprint, score, patches, decisions, hitl, result>>

\* What the sprint loop adds up when _run_sprint returns.
Collect(esc) ==
  result' = [iterations |-> result.iterations + iteration,
             artifacts |-> result.artifacts + 1,
             score |-> score,
             escalated |-> esc]

LogSummary ==
  trail' = [trail EXCEPT ![sprint].summaries = @ \cup
              {[iterations |-> iteration, failures |-> failures, patches |-> patches,
                decisions |-> decisions, score |-> score]}]

FinishSprint ==
  /\ score # "failed"
  /\ Step("summary", "sprint")
  /\ LogSummary
  /\ Collect(FALSE)
  /\ UNCHANGED <<config, planned, sprint, locals, hitl>>

ExhaustSprint ==
  /\ score = "failed"
  /\ Step("summary", "audit_escalation")
  /\ LogSummary
  /\ UNCHANGED <<config, planned, sprint, locals, hitl, result>>

AuditEscalation ==
  /\ Step("audit_escalation", "submit_escalation")
  /\ trail' = [trail EXCEPT ![sprint].proposed = TRUE]
  /\ UNCHANGED <<config, planned, sprint, locals, hitl, result>>

\* Variant of SubmitEscalation: the loop over the sprints goes on.
SubmitEscalationAndGoOn ==
  /\ Step("submit_escalation", "sprint")
  /\ escalated' = escalated \cup {sprint}
  /\ Collect(FALSE)
  /\ UNCHANGED <<config, planned, sprint, locals, trail, reviewed>>

\* submit_for_approval does not wait for a decision here either: the run returns.
SubmitEscalation ==
  /\ Step("submit_escalation", "returned")
  /\ escalated' = escalated \cup {sprint}
  /\ Collect(TRUE)
  /\ UNCHANGED <<config, planned, sprint, locals, trail, reviewed>>

\* The awaited call raises (or the guard refuses the brief, or an answer does
\* not parse) and nothing here catches it; a request may have been saved all
\* the same before submit_for_approval raised.
Raise ==
  /\ pc \notin {"sprint", "returned", "raised"}
  /\ pc' = "raised"
  /\ \/ UNCHANGED hitl
     \/ /\ pc = "submit_review"
        /\ reviewed' = TRUE /\ UNCHANGED escalated
     \/ /\ pc = "submit_escalation"
        /\ escalated' = escalated \cup {sprint} /\ UNCHANGED reviewed
  /\ UNCHANGED <<config, planned, sprint, locals, trail, result>>

--------------------------------------------------------------------------------

Proceed ==
  \/ RunSolo \/ RunSimplified \/ RunFull
  \/ Plan \/ AuditPlan \/ AuditReview \/ SubmitReview
  \/ BeginSprint \/ SkipSprint \/ Return
  \/ ChooseStrategy \/ StartReflection \/ Reflect \/ AuditPatch
  \/ Generate \/ Evaluate \/ AuditPass \/ AuditFailure
  \/ FinishSprint \/ ExhaustSprint \/ AuditEscalation \/ SubmitEscalation

Next == Proceed \/ Raise

Spec == Init /\ [][Next]_vars

--------------------------------------------------------------------------------
(* Properties *)

\* The summary logged for the reviewer agrees with the audit records of its sprint:
\* one decision per iteration, each failed evaluation, and one reflection for each
\* iteration past the threshold (coordinator.py:203-284, 390-436).
SummaryMatchesTrail ==
  \A s \in Sprints : \A m \in trail[s].summaries :
    LET t == trail[s]
        reflected == IF config.evaluator /\ config.reflectAfter \in 1..m.iterations
                       THEN m.iterations - config.reflectAfter ELSE 0
    IN  /\ t.decisions = m.iterations /\ m.decisions = m.iterations
        /\ m.failures = t.failed
        /\ m.failures = IF m.score = "failed" THEN m.iterations ELSE m.iterations - 1
        /\ m.patches = reflected /\ t.reflections = reflected
        /\ t.passed = IF m.score = "passed" THEN 1 ELSE 0
        /\ t.summaries = {m}

\* A result tells what happened to every planned sprint: without an escalation
\* each has passed its last evaluation; with one, the sprints before it have
\* passed, and it is with the gateway (coordinator.py:161-178).
ResultMatchesSprints ==
  (pc = "returned" /\ config.mode # "solo" /\ config.iterations > 0 /\ config.evaluator) =>
    /\ result.artifacts = sprint
    /\ escalated = IF result.escalated THEN {sprint} ELSE {}
    /\ IF result.escalated THEN result.score = "failed" ELSE sprint = planned
    /\ \A s \in 1..sprint : trail[s].passed = IF s \in escalated THEN 0 ELSE 1

\* Only a sprint that failed every one of its iterations is escalated, after its
\* summary and its escalation record were written, and no sprint follows it
\* (harness-design.md §6.2; coordinator.py:274-284, 447-516).
EscalationJustified ==
  \A s \in escalated :
    /\ trail[s].failed = config.iterations /\ trail[s].passed = 0
    /\ trail[s].summaries # {} /\ trail[s].proposed
    /\ \A u \in Sprints : u > s => trail[u].decisions = 0

\* The awaits ahead in an iteration, or before the first sprint.
Awaits(p) ==
  CASE p = "start" -> 16
    [] p = "plan" -> 15
    [] p = "audit_plan" -> 14
    [] p = "audit_review" -> 13
    [] p = "submit_review" -> 12
    [] p = "strategy" -> 11
    [] p = "reflect" -> 10
    [] p = "audit_patch" -> 9
    [] p = "generate" -> 8
    [] p = "evaluate" -> 7
    [] p = "audit_score" -> 6
    [] p = "summary" -> 5
    [] p = "audit_escalation" -> 4
    [] p = "submit_escalation" -> 3
    [] p = "sprint" -> 2
    [] OTHER -> 0

\* More than the awaits of a sprint that runs all its iterations.
Room == 20 * (config.iterations + 1)

\* The awaits ahead of the run: of the sprints to come, of the iterations the
\* sprint under way may still run, and of the iteration itself.
Left == (MaxSprints - sprint) * Room + 20 * (config.iterations - iteration) + Awaits(pc)

\* Every run ends after a number of awaits that the settings and the planned sprints
\* fix: each step, an exception too, uses up one, whatever the evaluator answers.
\* An escalation is one await like the others; nothing here waits for a human
\* (coordinator.py:203, 516; its comment in line 502 says otherwise).
RunProgresses == [][Left' \in Nat /\ Left' < Left]_vars
================================================================================
