# Specifications of the agent platform

TLA+ models, model-checking configurations and machine-checked proofs for the
Python platform under `src/` (paths below are relative to the repository root):
requests come in over HTTP, travel through Kafka to a consumer that runs an AI
agent for each, and actions above a risk threshold wait for a human.

The first part is the inventory of the whole system; then come the modules,
what their runs and proofs show, where code and documents disagree, what was
left out, and what could follow.

## 1. The system

| Part | State it keeps | Operations | Talks to |
|---|---|---|---|
| HITL gateway `src/agents/hitl_gateway.py` | one `asyncio.Lock` per process; the gauge of waiting requests | `submit_for_approval`, `record_decision`, `get_request`, `expire_stale_requests` | store, audit log, broker |
| HITL stores `src/agents/hitl_store.py` | Redis: `req:{id}` (with TTL), sorted set `pending`, `expired:{id}`; in memory: `_active`, `_archived` | `save`, `get`, `get_active`, `pending_count`, `get_pending_expired`, `archive`, `evict` | Redis |
| Request API `src/api/rest/routers/requests.py`, `src/agents/request_store.py` | status of each request, with TTL | `submit_request`, `get_request_status` | store, broker |
| Request consumer `src/workers/request_consumer.py` | position in the topic, retry counter | `run`, `_handle` | Kafka, store, orchestrator, broker (DLQ) |
| Orchestrator `src/agents/orchestrator/orchestrator.py` | nothing between runs | `run` = perceive, reason, act | guardrails, LLM, scorer, limits, audit log, HITL gateway |
| Lifespan `src/api/rest/main.py` | one instance of each of the above per pod | start, shutdown | all |
| Resilience `src/shared/retry.py`, `db_client.py`, `llm_client.py` | breaker: failure count, opening time, half-open flag | guarded calls with timeout and retries | LLM, database |
| Harness `src/agents/harness/` | locals of one run: sprint, iteration, last score, failures, decision log | plan, generate, evaluate, reflect, escalate | LLM, audit log, HITL gateway |
| Risk and feedback `src/agents/risk_scorer.py`, `feedback_loop.py`, `src/guardrails/action_limits.py` | biases per action type, window counters in Redis | score, periodic adjustment, rate and scope checks | Prometheus, Redis |
| Feature flags `src/shared/feature_flags.py` | none of its own | `is_autonomous_mode_enabled`, `get_autonomy_level` | flag service |
| Session memory `src/memory/session_memory.py` | values and an index set per session, with TTLs | set, get, get_all, delete_session | Redis |
| Vector memory `src/memory/vector_store.py`, `document_indexer.py`, `bug_history_store.py` | documents with their creation time | upsert, search, delete; index all files; record a rejection | PostgreSQL, embedder |
| Retention `src/jobs/retention_job.py` | the tables of documents and audit events | delete, archive, hard-delete, verify | PostgreSQL |
| Audit log, broker | append-only records, events | append, publish | PostgreSQL, Kafka |
| `services/event-worker` (Go), `services/domain-service` (Java) | consumer offset; entity table | handle and publish; create, activate | Kafka, PostgreSQL |

Not state machines of interest: PII filter and injection guard (pure functions of
text), settings (constant during a run), HTTP edge, encryption, telemetry,
sandbox executor, frontend, infrastructure, scaffolding. Section 6 says of each
part that is not modelled why.

**What is hard here.** Coroutines interleave at every `await`; the gateway's lock
covers parts of its operations and one process only, while several pods share
Redis; any call to Redis, PostgreSQL or Kafka can fail, or succeed without its
reply arriving; pods are killed; Kafka redelivers; deadlines race with answers.
What makes the parts correct, in one line each:

* *gateway*: a request gets at most one outcome, an answer counts only before the
  deadline, what is announced was audited, the queue respects its capacity and
  loses nobody, and undecided requests expire;
* *pipeline*: statuses follow the documented diagram, an action is repeated only
  when a raising call hid that it ran, the committed offset never passes unclaimed
  work, failures can be found and replayed, and accepted requests finish as long as
  a consumer task is left;
* *harness*: a sprint ends passed or escalated within its iterations, and the
  summaries for the reviewer agree with the audit trail;
* *orchestrator, risk and feedback*: nothing acts under a threshold it is over by
  itself, a window's limit bounds the actions, the bias follows the reviewers;
* *resilience*: the breaker's fields and its gauge tell one story, an open
  breaker sheds load, and it closes again when the upstream recovers;
* *session memory*: what can be read can be erased, but for the known gaps;
* *retention*: a run that reports success leaves nothing overdue, and every
  document is deleted in the end.

`PROJECT.json` lists the hazards one by one, at their lines.

## 2. The modules

```
HITLOversight    <-- implements --   HITLGateway      <- MCHITLGateway   (runs HITL*)
                                          ^ HITLGatewayProofs <- HITLOutcomeProofs <- HITLCapacityProofs
RequestLifecycle <-- implements --   RequestPipeline  <- MCRequestPipeline (runs Pipeline*)
                                          ^ PipelineProofs
HarnessCoordinator   <- MCHarnessCoordinator (run HarnessRun)
    ^ HarnessProofs
RiskScoring <- AgentRun <- MCAgentRun (run AgentRun)
                  ^ AgentRunProofs
ResilientCalls, SessionMemory, DataRetention <- SharedServices <- MCSharedServices (run SharedServices)
    ^ ResilientProofs    <-----------      StoreProofs ---------^
```

### HITLGateway

Coroutine slots (`Tasks`) on `Pods` run the operations of the gateway; `pc[t]`
names the `await` at which a coroutine is suspended, and every action is the code
from one `await` to the next. The locals that survive an `await` are variables:
`pod`, `req` (the request), `verdict` (the status on the request *object*, which
with Redis is a private copy) and `batch` (the candidates of a sweep).

| Model | Code |
|---|---|
| `active`, `pending`, `archive` | `req:{id}`, the sorted set, `expired:{id}`; in memory `_active` stands for the first two |
| `lock[p]` | the `asyncio.Lock` of the process |
| `SubmitStart, SubmitCount / SubmitRefuse, SubmitSave, SubmitAudit, SubmitPublish` | `submit_for_approval` |
| `DecideAccept, DecideSave, DecideArchive, DecideAudit, DecidePublish` | `record_decision`, answered in time |
| `DecideLate, LateArchive, LateAudit, LatePublish` | `record_decision` past the deadline |
| `SweepStart, SweepSelect, SweepMark, SweepAudit, SweepPublish, SweepArchive, SweepReturn` | `expire_stale_requests` |
| `Fail`, `LostReply` | the awaited call raises, before or after Redis applied the write |
| `Crash`, `KeyExpires`, `Tick` | a pod restarts, a key's TTL ends, time passes |

A section under the lock with one store access is one action that needs the lock
free; the sections with two accesses hold it over two actions. The constant
`Durable` chooses the store. The difference is not only durability: the in-memory
store hands out its own objects, so `request.status = EXPIRED` on a local variable
is visible to everybody at once (`MarkExpired`), and the agent that submitted a
request can see a decision in the object it gets back (`returned`).

`HITLOversight` is the promise without tasks, locks or storage: proposed with a
deadline, admitted, then at most one of APPROVED, REJECTED (accepted strictly
before the deadline), EXPIRED (only past it, and never over an accepted verdict),
or FORGOTTEN once the TTL is over. The refinement maps the outcome to what
`get_request` answers, and an accepted verdict to a task at `decide_save`.

### RequestPipeline

`submit_request` (`Save`, `Publish`, `PublishRaises`), one Kafka partition (`log`,
`committed`, `owner`, `position`), and the consumer of every pod: `Fetch`; `SkipJunk`,
`SkipDuplicate` or `Check`; `Claim`; one of `RunExecutes`, `RunGated`,
`RunApproved`, `RunRaises`, `RunUnheard` for a call of the orchestrator; `Retry` or
`Exhausted`; `Complete` or `CompleteRaises`; `DeadLetter` or `DeadLetterRaises`;
`SaveFailed`; `Commit`, `CommitRefused`, `CommitRaises`. `HandleRaises` is a store call
outside the `try`: the exception ends `run()`, and nothing starts the task again.

A call that raises may have taken effect, and the code cannot tell. So a raising save or
commit is applied or not, and `RunUnheard` is a run whose record "executed" is stored
by an audit write that raises. `unheard[r]` counts the runs of `r` the consumer took for
failures although the action was on record.

Kafka is modelled from its use: the free partition is assigned, a reassignment takes it
away from a consumer that goes on handling its event, a commit by a consumer that does
not own it is refused. `Receive` gives it to any consumer whose task is alive, one
that still handles an older event included: the client rejoins in the background, the next event
is read from the committed offset, and the commit of the event in hand may take that
offset back. `Replay` is the documented procedure of `docs/sre/runbooks/dlq-accumulating.md`.

Requests share nothing but the order of the log, so one partition is enough:
events with the same key are in one partition.

`RequestLifecycle` is the promise to the client: the state diagram of the status
endpoint, and how often the action runs. The code cannot promise "once": when the
record of the execution or the save of "completed" is applied and raises, the run is
repeated, or the request dead-lettered. The promise is that nothing else is
repeated: a failed request has only unheard runs, a completed one at most one more,
and what nobody handles is not run.

### HarnessCoordinator

One run of `HarnessCoordinator.run`: a single coroutine, so `pc` is the `await` it is
suspended at, and every action the code up to the next one. The settings
(`config`) are chosen in `Init`; the planner's model proposes any number of sprints
up to `MaxSprints`, and none at all; the evaluator's verdict is open at every
iteration.

| Model | Code |
|---|---|
| `sprint, iteration, score, failures, patches, decisions` | the locals of `_execute_sprints` and `_run_sprint`, lists as their lengths |
| `trail[s]` | what the audit log holds about sprint `s` |
| `reviewed`, `escalated` | what was handed to the HITL gateway |
| `RunSolo, RunSimplified, RunFull, Plan, AuditPlan, AuditReview, SubmitReview` | `run` and the planner |
| `BeginSprint, SkipSprint, Return` | the loop over the sprint contracts |
| `ChooseStrategy / StartReflection, Reflect, AuditPatch, Generate, Evaluate, AuditPass / AuditFailure` | one iteration |
| `FinishSprint, ExhaustSprint, AuditEscalation, SubmitEscalation` | the exits of `_run_sprint` |
| `Raise` | any awaited call raises, and nothing in the harness catches it |

The gateway is seen from outside only: `submit_for_approval` returns at once, as
`HITLGateway` shows, and the coordinator looks at nothing it returns.

### AgentRun and RiskScoring

The workers of one pod run `AgentOrchestrator.run` again and again for one action
type; the other pods appear through the counts Prometheus sums. `RiskScoring` holds the pure part: the four factors and the bias weighted
as in `RiskFactors.compute`, in exact integers (ten-thousandths), over the class
that keywords and masked tokens put a proposal in; and `get_autonomy_level`.

| Model | Code |
|---|---|
| `pc, proposal, risk, stamp` | the orchestrator's context, and the time from which the limiter computed its keys |
| `used`, `admitted` | the Redis counters of each window; how many checks were let through in it |
| `approvals, rejections` | the two counters as `sum by (action_type)` answers: over the series of all pods that Prometheus has at present, none counting zero |
| `bias`, `polled` | `_biases`, and the first of the cycle's two query results |
| `shrunk`, `losses` | history: counts have gone missing since that first query; restarts and failed scrapes so far |
| `Perceive; ProposeLimited, Admit / Deny / LimiterFails; ProposeUnlimited; AuditProposed; Approved; AuditExecuted; Raise` | `run` from await to await |
| `QueryApprovals, Adjust / QueryFails` | one cycle of the feedback loop |
| `Decide, LoseCounts` | reviewers of any pod; another pod that restarts, or a scrape that fails, takes any share of the counts away |
| `SwitchAutonomy, Tick, Restart` | the flag, time, the pod: it forgets its bias and its share of the counts |

`cleared` records what let a run act (a low score, the flag, a human), and is only
there to state the property. The scorer is called when the limiter has answered, with the bias
of that moment; the flag is read when the proposal has been audited.

### ResilientCalls

Callers around one `CircuitBreaker`. `wrapper` says which of the two classes it is: the
model wrapper consults the breaker once per call and reports the last attempt;
the database wrapper consults it before every attempt and reports each, but not errors it
does not recognise as transient. `Call, Succeed, BackOff, GiveUp, Fatal, Retry,
RetryRefused` are the ends of the awaits of a call; `Cancel` is a cancelled
task, of which the breaker hears nothing, since `CancelledError` is no
`Exception`. `LetThrough` is `is_open` with its side effect (half-open, gauge).

### SessionMemory

One session. `set` is three calls (`Setex`, `Sadd`, `Expire` or `ExpireMissing`),
`delete_session` two (`EraseList`, `EraseDelete`), and each may fail in between
(`SetFails`, `EraseFails`). `ttl[k]` is what a value has left, `indexTtl` what the
index has left, or `Never` between SADD and EXPIRE. `excused` is a history
variable: the keys whose listing was lost in one of the ways the code leaves open.

### DataRetention

`docs[d]` is the age of a document: `Upsert` keeps the age of one that is there, as the
`ON CONFLICT` clause of `PostgresVectorStore` does (the in-memory store of the
tests replaces the whole document). `trail[r]` is an audit event. A run of the
job goes through `StartJob, DeleteExpiredDocs, ArchiveOldEvents,
HardDeleteAgedEvents, Verify`; `StepFails` is a statement that raises, before or
after it took effect; `JobDies` a killed pod. `verified[j]` counts the days
since a run exited with success.

`SharedServices` puts the three side by side. They share neither variables nor
calls: job and stores take connections with `acquire()`, past the breaker. A behaviour is
therefore about one of them, chosen at the start; interleaving them would
multiply the states and show nothing more, since no property relates two of them.

### Definitions named "Variant of X"

Next to some actions stands a copy with a slip a maintainer could make (a guard
dropped, a write left out). They belong to no specification; putting one in
place of its original makes the property listed in `PROJECT.json` fail.

## 3. The runs

| Run | Instance | Shows |
|---|---|---|
| `HITLRedis` | 1 pod, Redis, 1 request, 3 tasks, 1 fault, 1 crash | types, one outcome, consistent queue, audit before event, outcomes logged, implements `HITLOversight` |
| `HITLMemory` | 1 pod, in memory, 2 requests, 2 tasks, capacity 1, 1 fault, 1 crash | consistent store, capacity, gauge, final outcomes |
| `HITLStaleArchived` | 1 pod, Redis, 2 requests, 2 tasks, 1 fault, fair | undecided requests past the deadline get archived |
| `HITLTwoPods` | 2 pods, Redis, 2 tasks | *violation*: two outcomes for a request |
| `HITLRedisLeak` | 1 pod, Redis, 1 fault, fair | *violation*: a request stays in the queue for ever |
| `PipelineLifecycle` | 2 requests, 2 consumers, 2 events, 1 retry; 1 each of store fault, broker fault, crash, and 2 audit faults | types, failures dead-lettered, approvals bounded, implements `RequestLifecycle` |
| `PipelineSettles` | 2 requests, 2 consumers, 3 events, 1 retry, 2 broker faults, fair | accepted requests finish unless failing commits ended every consumer task; committed ones have finished |
| `PipelineFaults` | 2 requests, 2 consumers, 2 events; 1 each of store fault, broker fault, crash, rebalance | the offset never passes an unclaimed request; each request stranded in "processing" costs a crash or a store fault |
| `PipelineCrashLoss` | 1 request, 1 consumer, 1 crash, fair | *violation*: a request stays in "processing" |
| `HarnessRun` | all settings, 2 sprints, 3 iterations | types, summaries agree with the audit trail, results with the sprints, justified escalations, every step uses up an await |
| `AgentRun` | 2 workers, with and without limiter, 2 kinds of windows, 3 proposals, 3 decisions, 1 restart or failed scrape, fair | types, what acts was cleared, windows hold, the bias is lowered only with enough approvals, and wears off |
| `SharedServices` | 3 callers, threshold 3, 3 attempts, both wrappers; 2 keys, 2 setters, 1 eraser; 2 files and a sprint, 1 audit row, 2 overlapping job runs; fair | types, breaker and gauge agree, an open breaker sheds, it recovers; unlisted values are explained; success means clean, documents are forgotten |

**Bounds.** The gateway never compares two requests except by counting them, so one
request with three tasks (two deciders and a sweep; a submitter and two others)
covers the conflicts about a request, and two requests with capacity one cover
those about the queue. The clock needs two units past a deadline of one to reach
"in time", "late" and "TTL over"; `Grace = 5` in three runs keeps the TTL out of
reach where it would only end the story. One fault and one crash each put a
failure at every point; the proofs below do not depend on these numbers. In the
pipeline, two log entries hold two requests, a request and its replay, or one and a junk
event, and the third of `PipelineSettles` two requests and junk; two
consumers are what a reassignment or a takeover needs; `MaxRetries = 1` gives a first
and a last attempt, and two audit faults let both go unheard. In `PipelineSettles` there are as many broker
faults as consumers, on purpose: each failing commit ends a consumer task for good, and
with fewer faults than consumers one would always be left to read on. `MaxTime`, `MaxFaults`,
`MaxCrashes`, `MaxLog`, the other `Max...Faults`, `MaxRebalances` and `MaxLosses` bound the state
space. The proofs hold for every value of them, except that `Steady` and `Calm` (section 4) set some to
zero, as the runs `PipelineLifecycle` and `PipelineSettles` do, because with such a fault the code
breaks the property. What is only model-checked (end of section 4) is shown for these numbers. In the harness a second sprint shows what
the first leaves behind, and three iterations have a first one, one below and one past a
reflection threshold of one or two, and a last one; sprints and iterations are
unbounded in the proofs. In `AgentRun` the three proposals score over the threshold, under
it by less than the largest bias, and out of scope; `minute` is one unit and `hour` two, so
a check may be decided in a later minute of the same hour; limits of one are passed by
two workers, and the hour denies where the next minute would allow; three decisions make
every order of a rejection among approvals, and one loss falls between any two queries.
In `SharedServices` three callers and a threshold of three make late results while the
breaker is open and half-open; two lifetimes, one shorter; two files with one stem share a
document id; one day of retention and one more day told apart show "overdue", and ages
are unbounded in the proofs.

**Symmetry** is used over tasks (gateway) and over requests and consumers (pipeline),
in runs without liveness properties.

**Deadlock** checking is off except in `SharedServices`: the other environments are
bounded, so every instance ends (all requests handled, budgets spent), which is no
deadlock of the code.

**Fairness.** `HITLGateway!FairSpec`: each continuation of a task is strongly fair.
The event loop runs every ready coroutine, and an `asyncio.Lock` wakes its waiters
in order, so a waiting task gets the lock although others keep taking it. The sweep
is started again and again *by assumption*: nothing in this repository schedules
`expire_stale_requests` (see section 5), so `StaleArchived` says what holds once
somebody does. Submissions, decisions, faults and crashes carry no fairness.
`RequestPipeline!FairSpec`: weak fairness of each consumer's own steps, of
restarting a killed pod and of assigning a free partition. Which way a run of the
agent ends is left open, so nothing depends on the agent succeeding.
`HarnessCoordinator` has no fairness: a model call may never return, since no production code gives
the client a timeout. `RunProgresses` is about the steps that are taken.
`AgentRun!FairSpec`: the feedback loop sleeps and runs again (weak fairness of its
first query), and Prometheus does not fail for ever (strong fairness of `Adjust`). Workers,
reviewers and the flag carry none. `BiasWearsOff` assumes in its premise that the
*cumulative* approval rate stays high, as the code looks at nothing else, and that counts
stop going missing (`MaxLosses`).
`ResilientCalls!FairSpec`: time passes, a backoff ends, a caller that may call does so again and again
(the breaker has no timer of its own and closes only when somebody calls), and an
upstream that answers is not always beaten by a cancellation.
`SharedServices!ServicesFairSpec` adds that days pass, that the CronJob starts every day, that a
run goes on (a step completes or fails), and that its deletion of documents, tried day after day,
does not fail for ever.

## 4. The proofs

| Theorem | Says |
|---|---|
| `HITLGatewayProofs!TypeCorrect` | `Spec => []TypeOK` |
| `HITLGatewayProofs!AuditedFirst` | `Spec => []AuditedBeforeAnnounced` |
| `HITLGatewayProofs!LocksNeverLeak` | `Spec => [](LockInv /\ LocksHeld)` |
| `HITLGatewayProofs!NeverExpiredEarly` | `Spec => []NoEarlyExpiry` |
| `HITLGatewayProofs!EveryOperationEnds` | `Spec => OperationsEnd` |
| `HITLOutcomeProofs!InvCorrect` | `SinglePod => (Spec => []IInv)` |
| `HITLOutcomeProofs!OneOutcomePerRequest` | `SinglePod => (Spec => []OneOutcome)` |
| `HITLOutcomeProofs!QueueStaysConsistent` | `SinglePod => (Spec => []QueueConsistent)` |
| `HITLOutcomeProofs!OutcomesAreFinal` | `SinglePod => (Spec => OutcomeFinal)` |
| `HITLOutcomeProofs!OutcomesAreLogged` | `SinglePod => (Spec => []EveryOutcomeLogged)` |
| `HITLOutcomeProofs!OversightKept` | `SinglePod /\ Durable => (Spec => ImplementsOversight)` |
| `HITLCapacityProofs!CapacityHolds` | `SinglePod => (Spec => []CapacityRespected)` |
| `HITLCapacityProofs!GaugeNeverAbove` | `~Durable => (Spec => []GaugeNeverOverstates)` |
| `HITLCapacityProofs!PodsCapacityHolds` | `ASSUME IsFiniteSet(Pods) PROVE Spec => []PodsCapacity` |
| `HarnessProofs!TypeCorrect` | `Spec => []TypeOK` |
| `HarnessProofs!InvCorrect` | `Spec => []IInv` |
| `HarnessProofs!SummariesMatch` | `Spec => []SummaryMatchesTrail` |
| `HarnessProofs!EscalationsJustified` | `Spec => []EscalationJustified` |
| `HarnessProofs!ResultsAccountForSprints` | `Spec => []ResultMatchesSprints` |
| `HarnessProofs!RunsProgress` | `Spec => RunProgresses /\ [](Left \in Nat)` |
| `PipelineProofs!TypeCorrect` | `Spec => []TypeOK` |
| `PipelineProofs!ClaimedBeforeCommit` | `Spec => []CommittedWasClaimed` |
| `PipelineProofs!DamageBounded` | `Spec => []StrandedBounded` |
| `PipelineProofs!HandlersEnd` | `Spec => HandlerEnds`, and what is ahead of a handler is at most `3 * MaxRetries + 8` |
| `PipelineProofs!ContractKept` | `Steady => (Spec => ImplementsLifecycle)` |
| `PipelineProofs!ActionRunsOnce` | `Steady => (Spec => []RunsOnce)`, and the runs of a request are at most `auditFaults + storeFaults + 1` |
| `PipelineProofs!FailedAreDeadLettered` | `Steady => (Spec => []FailedIsOnDLQ)` |
| `PipelineProofs!ApprovalsAreBounded` | `Steady => (Spec => []ApprovalsBounded)` |
| `PipelineProofs!SettledBeforeCommit` | `Calm => (Spec => []CommittedIsSettled)` |
| `AgentRunProofs!ScoreInRange`, `BiasBounded`, `AutonomyJustified` | facts about `Score` and `AutonomyLevel` |
| `AgentRunProofs!TypeCorrect` | `Spec => []TypeOK` |
| `AgentRunProofs!ActingIsCleared` | `Spec => []ActingWasCleared` |
| `AgentRunProofs!WindowsRespected` | `Spec => []WindowRespected` |
| `AgentRunProofs!LoweredOnlyIfApprovedHolds` | `Spec => LoweredOnlyIfApproved` |
| `AgentRunProofs!FreshCyclesLower` | `Spec => FreshCycleLowers` |
| `ResilientProofs!TypeCorrect` | `Spec => []TypeOK` |
| `ResilientProofs!BreakerIsCoherent`, `GaugeIsRight` | `Spec => []BreakerCoherent`, `[]GaugeTells` |
| `ResilientProofs!OpenBreakerSheds` | `Spec => OpenSheds` |
| `ResilientProofs!CallsEnd` | `Spec => CallsProgress`, and what is ahead of a call is at most `2 * MaxAttempts + 2` |
| `StoreProofs!SessionTypeCorrect`, `UnlistedExplained` | `SessionSpec => []SessionTypeOK`, `[]UnlistedIsExplained` |
| `StoreProofs!RetentionTypeCorrect`, `SuccessIsClean` | `RetentionSpec => []RetentionTypeOK`, `[]SuccessMeansClean` |
| `StoreProofs!PartsBehaveAlone` | `ServicesSpec => Spec /\ SessionSpec /\ RetentionSpec` |
| `StoreProofs!ServicesTypeCorrect` | `ServicesSpec => []ServicesTypeOK` |
| `StoreProofs!ServicesGuarantees` | `ServicesSpec` implies `BreakerCoherent`, `GaugeTells`, `OpenSheds`, `UnlistedIsExplained`, `SuccessMeansClean` |

Those of the gateway hold for every set of requests and tasks, either store, every capacity,
timeout and bound, including failing calls, lost replies, crashes and key expiry.
`GatewayAssumption` (in `HITLGateway`) is assumed throughout: in particular that
the in-memory store has one process, so that `~Durable` implies a single pod. Those of
`HITLGatewayProofs` need nothing more and hold for any number of pods; `PodsCapacityHolds` needs
that they are finitely many. The others assume `SinglePod` (or `~Durable`), and must: with two pods `HITLTwoPods` violates `OneOutcome`.

`AuditedBeforeAnnounced` is not inductive: it needs to know that a task standing at
a publish has written the audit record of what it will publish (`AuditInv`
in `HITLGatewayProofs`).

Three more results of that module say what survives on any number of pods. `LocksNeverLeak`: a lock that is
taken belongs to a task of its pod inside a critical section, so no failing or refused
operation leaves the others waiting. `NeverExpiredEarly`: nobody is told of an expiry before the
deadline; the induction needs that a task about to report one, and each candidate of a sweep, is past it,
and that nothing is known of a request before it is submitted (`EarlyInv`). `EveryOperationEnds`: each step of an operation
lowers `Left`, four for each candidate of a sweep and one for each await ahead; the candidates are
chosen once, so what is submitted during a sweep adds nothing.

`PodsCapacityHolds` is what remains of the capacity with more than one pod. At most one submission per
pod stands between its count and its save, and each has counted less than `Capacity`, so that at most
`Capacity + Cardinality(Pods) - 1` requests wait; TLC reaches this number with two pods.

`OneOutcome` needs much more, since what a coroutine is *going* to say is not yet in
any store. `IInv` therefore counts what a suspended task is about to report as
said: `Ruled(r, v)` (a verdict was or will be reported) and `Late(r)` (an expiry
was or will be). Its parts: who is inside a critical section holds the lock
(`LockInv`); a ruled request is no longer PENDING and nobody expires it
(`RuledInv`); only requests past the deadline expire (`LateInv`); while a verdict is
being saved its request is PENDING and not expiring (`SaveInv`), which holds as
acceptance requires `now < deadline`, the save happens under the lock, and a sweep that
selects candidates needs the lock; a request is untouched until its one submission
saves it (`SubmitInv`); at most one task reports a verdict on a request, and it
counts once (`CountInv`). There is a lemma per action (`<Action>Step`).
`CapacityHolds` adds that a task between its count and its save owns the place it
has counted, because the lock keeps every other submission out.

The remaining ones stand on `IInv`. `OutcomeFinal` follows from it step by step: whatever is saved or archived over a
status is what was ruled, or a pending request. For `EveryOutcomeLogged` an archived outcome
is in the audit log or a task that archived it stands at the audit (`LogInv`; a sweep writes
the record first). For the gauge, decisions and sweeps
take a request off it before they archive it, so the gauge is bounded by the queued requests no running task has
already taken off (`Waiting`), and each archive removes one that no longer counts.
`OversightKept` is the refinement: `KeyInv` says that the key of a request somebody is about to
archive is still there and shows what the task will archive (or that it is pending and late), from which each
archive is an expiry or a stutter; a save admits or decides; a task that fails or dies while
it saves a verdict withdraws it, and there is only one (`OneAccepted`).
It needs `Durable`: in memory a restart forgets every request, which the contract does not allow.

The harness theorems hold for every `MaxSprints`, `MaxIterations` and setting, under
`HarnessAssumption` (at least one sprint may be proposed). No property is inductive: the summary is
assembled from locals at the end of a sprint, so `SprintInv` says for each await how far
the locals and the records have come (`CountInv`, with the reflections due after `n`
iterations as `Due`), which score the locals can hold (`ScoreInv`), and which closing
records exist (`RecordInv`); `FutureInv` that later sprints are untouched and that
only an ended run has escalated. The result needs a second induction on top (`ResultInv`): what
it has added up so far counts the finished sprints, and each of those has passed.
`RunsProgress`: `Left` counts the awaits ahead, with room for the sprints to come and the iterations left
in this one, and every step lowers it, an exception included. So the settings bound a run; that
each call returns is not claimed.

Those of the pipeline hold for every set of requests and consumers and every number of
retries, crashes and broker faults.
*With everything that can go wrong*: `TypeCorrect`, `ClaimedBeforeCommit`, `HandlersEnd`
and `DamageBounded`. A consumer past the check has to be known to hold an event (`Holding`), and a
request that is not submitted yet to be in no log (`Fresh`), as otherwise a submission could make a
committed event unclaimed again. The offset goes back and forth when a partition returns to a
busy consumer, so nothing can rest on its order. `ClaimInv` says instead of every mark the offset can
still move to (the offset itself, the event in a consumer's hands and, past the claim, the
next one, and where the owner reads on) that it is clear: no unclaimed request lies behind it
without an event further up (`Clear`, `Passed`, `AllClear`). A mark that is clear stays so, since the log only grows and a
request returns to "queued" together with a new event. `Evolves` says how log, clients and
statuses can change in a step at all, and carries most of the argument. `HandlersEnd` counts the
retries and awaits a handler has ahead of it (`Work`).
`DamageBounded` bounds the loss that `PipelineCrashLoss` shows: every step strands nobody, or is a
crash or a raising store call and strands the one request its consumer held (`Stranding`).
*`Steady`*, without reassignments under a running handler, but with every fault and
crash: `ContractKept` is the refinement. Every step of the pipeline is a step of `RequestLifecycle`
or a stutter, because a consumer that holds an event owns the partition (`Exclusive`), so the
consumer's position says what the status of its request can be, and whether all its runs went
unheard or all but the last (`Held`); every run of a request that waits or has failed went unheard
(`Unrun`). `PipelineFaults` has
executions that break the contract (section 5), so the condition is needed. `ActionRunsOnce` is what a
client can count on: `RequestLifecycle` allows `unheard[r]` runs and one more, and each
unheard run is an audit or store fault (`UnheardBounded`). `ApprovalsAreBounded` rests on
the same facts: a waiting request has room for all attempts its next event allows, and a run
that has made some of its attempts for those that are left (`RoomInv`).
*`Calm`*, without crashes and store faults as well: `SettledBeforeCommit`. Somebody works on every
request in "processing" (`Worked`), so what a consumer skips as a duplicate is final, and the marks are
clear of every request that waits (`SettledInv`); with a crash or a
store fault it need not be, which is what `PipelineCrashLoss` shows.

Those of `AgentRun` assume that no setting is negative and that the two thresholds of the
feedback loop add up to at least one (`AgentAssumption`; the defaults are 0.30 and 0.80, no
validator checks it). `ClearedInv` says
that every score in flight was computed with some bias, which only raises it
(`BiasBounded`, by 0.05 at most); `WindowInv` that every check that was let through
has raised the counter it was judged by; `PolledInv` that,
unless counts have gone missing since (`shrunk`), what a cycle has read of the approvals is at most what the
sum is now, from which `RateMonotone` derives that decisions between the two reads make the rate too low, never too high. `FreshCyclesLower` is the step
`BiasWearsOff` rests on: as the thresholds add up to one, approvals over theirs leave the rejections under
theirs (`ThresholdsExclude`), so that a cycle whose read is not torn takes `StepDown` off.
Those of `ResilientCalls` follow from a single invariant in which results of calls of any age are
allowed to arrive at any moment. `CallsEnd` counts the attempts and backoffs a call has left,
which only the call's own steps change. `SuccessMeansClean` and
`UnlistedIsExplained` are inductive together with the types. `PartsBehaveAlone` shows that a step
of `SharedServices` is a step of one part and a stutter of the others (`PartsApart`), so that all of these
carry over to the composition.

Only model-checked: everything temporal beyond invariants and action properties (`StaleArchived`,
`SettledUnlessUnread`, `BiasWearsOff`, `Recovers`, `DocsForgotten`). The prover has no rule
for fairness over `ENABLED`. What is proved of them are the measures above: operations,
handlers, runs and calls cannot go round for ever; that they are not stuck is left to TLC. Each invariant
and action property of a passing run is stated by a theorem.

## 5. Where code and documents disagree

Three runs show a disagreement, see "findings" in `PROJECT.json`:

1. `HITLTwoPods`: an already decided request should be refused
   (`src/api/rest/routers/hitl.py:104-105`); two pods accept two decisions.
2. `HITLRedisLeak`: the store should drain its queue after an outage
   (`tests/chaos/experiments/hitl-store-degradation.yaml:13-15`); a member whose archive
   failed stays for ever.
3. `PipelineCrashLoss`: no silent message loss (`request_consumer.py:44-46`); a pod
   killed during a run leaves the request in "processing" for ever.

Others met while modelling, without a run of their own: nobody schedules
`expire_stale_requests`, although `docs/runbooks/RB-003-hitl-recovery.md` speaks of its
"next scheduled tick"; two overlapping sweeps, or a sweep and a late decision,
decrement the gauge twice; the audit record of a decision is lost when the audit write fails after
the archive (ADR-0011: every decision is logged immutably); on Redis an approval
never reaches the agent, which has raised long before (the endpoint's docstring: "the
agent action proceeds"); a request nobody sweeps before deadline and grace are over loses its key and keeps
its place in the queue; an audit failure during an in-memory sweep leaves an EXPIRED entry that
occupies its place; several pods can exceed the capacity, by one request for each pod after the
first (`PodsCapacityHolds`).

In the pipeline, a reassignment during a run lets the action run twice. So do lost replies:
when the save of "completed" (`request_consumer.py:157`), or the audit write of
`agent.action.executed` (`orchestrator.py:251`), takes effect and raises, the handler runs the
agent again, or after the last attempt dead-letters a request whose action ran, and a replay runs
it once more. `RequestLifecycle` counts these runs as `unheard` and forbids any other. A consumer
task ends with the first failing commit (`request_consumer.py:85`), and nothing starts it again
(`src/api/rest/main.py:156` creates it once, and no probe of `health.py` looks at it). With one pod
one failing commit is enough, with two pods two, and from then on accepted requests
stay "queued" without any crash or store fault, against "prevents both silent message
loss and infinite reprocessing" (`request_consumer.py:44-46`). `SettledUnlessUnread` claims no more than
what is left: requests finish unless every task has ended that way. A consumer that gets the partition
back while it handles an older event commits that event's offset and so takes the committed offset
back; the events above it come again and are skipped as duplicates.

In the harness: an escalation should block "until human decision or timeout"
(`coordinator.py:502`) and a plan be reviewed "before sprint execution begins"
(`coordinator.py:519`), but `submit_for_approval` does not wait, so the run goes on and no
answer reaches it (`specs/ai/harness-design.md` §6.1 and §6.2 describe what the answers
should do). The model does what the code does, and `RunProgresses` holds because of it: with the
wait that the comment promises, a run would have a step that no setting bounds. Further, the return that "should not be reachable" (`coordinator.py:286`) is reached with
`harness_max_iterations = 0`, and a planner's answer without sprints is a success
without artifacts. `llm_client.py:75` wants every client wrapped, and no production
code wraps one.

In the parts of `AgentRun`: the limiter's counters belong to fixed windows, not to a "sliding window"
(`action_limits.py:44`), so around a boundary twice the limit passes. The feedback
specification computes the rates of the last hours and lowers the bias after seven days of approvals
(`specs/ai/feedback-loop.md:34`, `:68`); the counters are cumulative since the
process started, and one cycle over the threshold lowers it. The sums are over all pods
(`feedback_loop.py:164`), and a series that is missing counts zero (`:141-153`): when a pod restarts or a
scrape fails between the two queries, the rejections it held are gone from the second, and the bias comes
down although the rate is under the threshold. `LoweredOnlyIfApproved` excuses this case
(`shrunk`); losses in an earlier cycle change the sums themselves, which are then all the code can go by. The effective risk should be
`min(1, raw + bias)` (`feedback_loop.py:72`); the scorer weights the bias with 0.05, so a learned
bias adds at most 0.05 (`BiasBounded`). `specs/ai/hitl-hotl.md:45` lists rotating
a secret among what needs a human; it scores 0.315, under the threshold of 0.4.

In the shared services: "One probe call allowed" (`retry.py:92`); every caller that
comes after the reset time passes until the first result is in. A session's erasure misses what the
property `UnlistedIsExplained` names, while `delete_session` promises "all keys for a session" (`session_memory.py:107`). The job assumes that a migration
adds the column `archived` and that queries leave archived events out (`retention_job.py:125-128`); none of
`alembic/versions` adds it, so archiving is always skipped, and no query looks at it. Documents live 90 days, or one year
(`specs/privacy/data-retention.md:18`). The in-memory audit storage returns
the oldest events first, PostgreSQL the newest.

## 6. What is abstracted

* Payloads, PII masking, encryption, JSON and logging; wall clocks of the pods agree.
* The request store's TTL and the 90 days of archived approvals: longer than
  anything the properties look at.
* The GETs of a Redis sweep happen in one step. They only read, the lock is held,
  and a status that changes between two of them (by a task of another pod) is one of
  the two-pod interleavings of `HITLTwoPods`.
* No operation is suspended for longer than the TTL grace (24 hours), see `KeyExpires`.
* A shutdown that cancels the consumer is a `Crash`: it stops at the same awaits.
* In the pipeline the orchestrator is its five possible ends.
* `evict` (no caller) and `stop` (called by tests only).
* Metrics except the gauge of pending approvals.
* In the harness: texts, prompts and scores beyond passed or failed; the context
  manager, which is built and never called; an audit write that raised although it was stored.
* In `AgentRun`: one agent id and one action type (limits and bias are kept per id and per
  type); a counter stops at one above its limit, as nothing tells the values above apart;
  scores are exact integers where `risk_scorer.py` adds floats, so that a comparison exactly at a
  threshold may differ by the last bit; the event about an adjustment, whose failure is swallowed;
  `record_action`, which has no caller; prompts and the injection guard.
* In `ResilientCalls`: elapsed time stops at the reset time and the count at the threshold, the
  values the code compares with; how long a backoff lasts; pool gauges.
* In `SessionMemory` and `DataRetention`: contents, embeddings and encryption; one session;
  searches, which only read; batches of a statement.

**Not modelled**, and why:

* *Event worker (Go)* and *domain service (Java)*: separate programs with one message, or one
  transaction, at a time and no state of their own; their hazards (a message committed after its handler failed, an
  event published before the commit) are decided by the Kafka library and by Spring.
* *Sandbox executor*: one container per call, nothing shared between calls, no caller.
* *Text guardrails* (PII filter, injection guard): regular expressions over text.
* *HTTP edge, encryption, telemetry, settings*: stateless, or constant during a run. The one gauge
  that is computed from events, pending approvals, is in `HITLGateway`; the breaker's is in `ResilientCalls`.
* *Vector search*: cosine similarity over reals, without effect on the state.
* `FeedbackLoop`, `ActionLimiter`, the resilient wrappers, the session memory, `BugHistoryStore` and
  `get_autonomy_level` have no production caller in this repository; they are modelled as their
  constructors and tests combine them.

## 7. What could follow

* The harness and `AgentRun` composed with `HITLOversight` in place of the open answer of a
  reviewer. Today `submit_for_approval` does not wait, so the composition would say no more than the
  parts; it becomes worthwhile when an approval resumes a run.
* When the lock of the gateway moves to Redis, `HITLTwoPods` should pass and `SinglePod` disappear
  from the proofs; when the check of a redelivered event looks at who holds it, `PipelineCrashLoss`
  should pass and `Calm` give way to `Steady`.
