---------------------------- MODULE RequestPipeline ----------------------------
(***************************************************************************)
(* POST /v1/requests, one partition of domain.request.created, and the     *)
(* RequestConsumer of every pod (routers/requests.py, request_store.py,    *)
(* request_consumer.py, and AgentOrchestrator.run as the consumer sees     *)
(* it).  Every action runs from one await to the next.                     *)
(*                                                                         *)
(* Kafka is modelled from its use: a retained log, one committed offset    *)
(* per group, the partition assigned to one consumer at a time, and a      *)
(* consumer that learns it has lost the partition when its commit fails.   *)
(***************************************************************************)
EXTENDS Naturals, Sequences, FiniteSets

CONSTANTS
  Requests,      \* request_ids (uuid4)
  Consumers,     \* the consumer task of each pod
  Junk,          \* an event that does not parse or names no request
  Nobody,        \* the partition is not assigned
  MaxRetries,    \* kafka_consumer_max_retries
  MaxLog,        \* bound: length of the log
  MaxStoreFaults,   \* bound: request-store calls of the consumer that raise
  MaxAuditFaults,   \* bound: audit writes stored by a call that raises
  MaxBrokerFaults,  \* bound: publishes and commits that raise
  MaxCrashes,       \* bound: pods killed
  MaxRebalances     \* bound: reassignments away from a running consumer

ASSUME PipelineAssumption ==
  /\ Junk \notin Requests
  /\ Nobody \notin Consumers
  /\ MaxRetries \in Nat /\ MaxLog \in Nat
  /\ MaxStoreFaults \in Nat /\ MaxAuditFaults \in Nat /\ MaxBrokerFaults \in Nat
  /\ MaxCrashes \in Nat /\ MaxRebalances \in Nat

VARIABLES
  status,     \* status[r] in the request store, "unknown" when absent
  client,     \* client[r], how far submit_request got
  log,        \* the partition
  committed,  \* the group's committed offset: the events below it are done
  owner,      \* the consumer the partition is assigned to
  position,   \* what the owner fetches next
  pc,         \* where each consumer is suspended
  offset,     \* the offset of the event each consumer fetched last
  attempt,    \* the retry loop's counter
  executed,   \* executed[r], agent.action.executed audit records
  unheard,    \* unheard[r], those of them whose run the consumer saw fail
  proposals,  \* proposals[r], HITL requests opened for r
  deadLetters,   \* requests with an envelope on domain.request.dlq
  dlqLost,       \* requests whose DLQ publish failed
  storeFaults, auditFaults, brokerFaults, crashes, rebalances

kafka   == <<log, committed, owner, position>>
effects == <<executed, unheard, proposals>>
dlq     == <<deadLetters, dlqLost>>
faults  == <<storeFaults, auditFaults, brokerFaults>>
budget  == <<faults, crashes, rebalances>>
vars    == <<status, client, kafka, pc, offset, attempt, effects, dlq, budget>>

Statuses == {"unknown", "queued", "processing", "completed", "failed"}
Stages   == {"new", "saved", "accepted", "refused"}
\* "dead": run() ended with an exception and nothing starts it again;
\* "down": the pod was killed and will be restarted.
Points   == {"poll", "check", "claim", "attempt", "complete", "retry", "dlq",
             "fail", "commit", "dead", "down"}
Events   == Requests \cup {Junk}

TypeOK ==
  /\ status \in [Requests -> Statuses]
  /\ client \in [Requests -> Stages]
  /\ log \in Seq(Events)
  /\ committed \in Nat
  /\ owner \in Consumers \cup {Nobody}
  /\ position \in Nat
  /\ pc \in [Consumers -> Points]
  /\ offset \in [Consumers -> Nat]
  /\ attempt \in [Consumers -> Nat]
  /\ executed \in [Requests -> Nat]
  /\ unheard \in [Requests -> Nat]
  /\ proposals \in [Requests -> Nat]
  /\ deadLetters \in SUBSET Requests
  /\ dlqLost \in SUBSET Requests
  /\ storeFaults \in Nat /\ auditFaults \in Nat /\ brokerFaults \in Nat
  /\ crashes \in Nat /\ rebalances \in Nat

Init ==
  /\ status = [r \in Requests |-> "unknown"]
  /\ client = [r \in Requests |-> "new"]
  /\ log = <<>>
  /\ committed = 0
  /\ owner = Nobody
  /\ position = 0
  /\ pc = [c \in Consumers |-> "poll"]
  /\ offset = [c \in Consumers |-> 0]
  /\ attempt = [c \in Consumers |-> 0]
  /\ executed = [r \in Requests |-> 0]
  /\ unheard = [r \in Requests |-> 0]
  /\ proposals = [r \in Requests |-> 0]
  /\ deadLetters = {}
  /\ dlqLost = {}
  /\ storeFaults = 0 /\ auditFaults = 0 /\ brokerFaults = 0
  /\ crashes = 0 /\ rebalances = 0

Event(c)   == log[offset[c] + 1]
Goto(c, l) == pc' = [pc EXCEPT ![c] = l]
Step(c, from, to) == pc[c] = from /\ Goto(c, to)
SetStatus(r, s) == status' = [status EXCEPT ![r] = s]
AddFor(c, count) == count' = [count EXCEPT ![Event(c)] = @ + 1]
StoreRaises ==
  /\ storeFaults < MaxStoreFaults
  /\ storeFaults' = storeFaults + 1
  /\ UNCHANGED <<auditFaults, brokerFaults, crashes, rebalances>>
AuditRaises ==
  /\ auditFaults < MaxAuditFaults
  /\ auditFaults' = auditFaults + 1
  /\ UNCHANGED <<storeFaults, brokerFaults, crashes, rebalances>>
BrokerRaises ==
  /\ brokerFaults < MaxBrokerFaults
  /\ brokerFaults' = brokerFaults + 1
  /\ UNCHANGED <<storeFaults, auditFaults, crashes, rebalances>>
\* consumer.stop() in run()'s finally gives the partition up.
GiveUp(c) == owner' = IF owner = c THEN Nobody ELSE owner

--------------------------------------------------------------------------------
(* submit_request.  A failing store.save changes nothing: no action.  The     *)
(* semaphore it looks at is never acquired, so the 503 branch is never taken. *)

Save(r) ==
  /\ client[r] = "new"
  /\ client' = [client EXCEPT ![r] = "saved"]
  /\ SetStatus(r, "queued")
  /\ UNCHANGED <<kafka, pc, offset, attempt, effects, dlq, budget>>

Publish(r) ==
  /\ client[r] = "saved"
  /\ Len(log) < MaxLog
  /\ log' = Append(log, r)
  /\ client' = [client EXCEPT ![r] = "accepted"]
  /\ UNCHANGED <<status, committed, owner, position, pc, offset, attempt, effects, dlq, budget>>

\* The publish raises (500 to the client), possibly after Kafka took the event.
PublishRaises(r) ==
  /\ client[r] = "saved"
  /\ BrokerRaises
  /\ client' = [client EXCEPT ![r] = "refused"]
  /\ \/ UNCHANGED log
     \/ Len(log) < MaxLog /\ log' = Append(log, r)
  /\ UNCHANGED <<status, committed, owner, position, pc, offset, attempt, effects, dlq>>

--------------------------------------------------------------------------------
(* RequestConsumer._handle and the loop around it.  A "Variant of X" is X     *)
(* with a slip a maintainer could make, part of no specification.             *)

Fetches(c) ==
  /\ owner = c
  /\ position < Len(log)
  /\ Step(c, "poll", "check")
  /\ offset' = [offset EXCEPT ![c] = position]
  /\ position' = position + 1
  /\ UNCHANGED <<status, client, log, owner, attempt, effects, dlq, budget>>

\* Variant of Fetch: enable_auto_commit, the offset moves on delivery.
FetchAutoCommit(c) == Fetches(c) /\ committed' = position + 1

Fetch(c) == Fetches(c) /\ UNCHANGED committed

\* Variant of SkipJunk: the event is dead-lettered like a failed one.
SkipJunkToDLQ(c) ==
  /\ Step(c, "check", "dlq")
  /\ Event(c) = Junk
  /\ UNCHANGED <<status, client, kafka, offset, attempt, effects, dlq, budget>>

\* Not parsed or without request_id: _handle returns.
SkipJunk(c) ==
  /\ Step(c, "check", "commit")
  /\ Event(c) = Junk
  /\ UNCHANGED <<status, client, kafka, offset, attempt, effects, dlq, budget>>

\* store.get says the event is past "queued": _handle returns.
SkipDuplicate(c) ==
  /\ Step(c, "check", "commit")
  /\ Event(c) \in Requests
  /\ status[Event(c)] \notin {"unknown", "queued"}
  /\ UNCHANGED <<status, client, kafka, offset, attempt, effects, dlq, budget>>

\* Variant of Check: no idempotency check.
CheckNothing(c) ==
  /\ Step(c, "check", "claim")
  /\ Event(c) \in Requests
  /\ UNCHANGED <<status, client, kafka, offset, attempt, effects, dlq, budget>>

Check(c) ==
  /\ Step(c, "check", "claim")
  /\ Event(c) \in Requests
  /\ status[Event(c)] \in {"unknown", "queued"}
  /\ UNCHANGED <<status, client, kafka, offset, attempt, effects, dlq, budget>>

Claim(c) ==
  /\ Step(c, "claim", "attempt")
  /\ SetStatus(Event(c), "processing")
  /\ attempt' = [attempt EXCEPT ![c] = 0]
  /\ UNCHANGED <<client, kafka, offset, effects, dlq, budget>>

\* orchestrator.run reaches agent.action.executed: below the HITL threshold.
RunExecutes(c) ==
  /\ Step(c, "attempt", "complete")
  /\ AddFor(c, executed)
  /\ UNCHANGED <<status, client, kafka, offset, attempt, unheard, proposals, dlq, budget>>

\* At or above the threshold a new HITL request is opened and, as it comes back
\* PENDING, run raises.
RunGated(c) ==
  /\ Step(c, "attempt", "retry")
  /\ AddFor(c, proposals)
  /\ UNCHANGED <<status, client, kafka, offset, attempt, executed, unheard, dlq, budget>>

\* The in-memory gateway hands back the stored object: a reviewer who answers
\* before submit_for_approval returns has it APPROVED, and the action runs.
RunApproved(c) ==
  /\ Step(c, "attempt", "complete")
  /\ AddFor(c, proposals)
  /\ AddFor(c, executed)
  /\ UNCHANGED <<status, client, kafka, offset, attempt, unheard, dlq, budget>>

\* A guardrail, the model, the risk scorer or the audit log raises before that.
RunRaises(c) ==
  /\ Step(c, "attempt", "retry")
  /\ UNCHANGED <<status, client, kafka, offset, attempt, effects, dlq, budget>>

\* The write of agent.action.executed is stored and raises (its reply is lost):
\* the action is on record, and run raises as though it were not.
RunUnheard(c) ==
  /\ Step(c, "attempt", "retry")
  /\ AuditRaises
  /\ AddFor(c, executed)
  /\ AddFor(c, unheard)
  /\ UNCHANGED proposals \/ AddFor(c, proposals)
  /\ UNCHANGED <<status, client, kafka, offset, attempt, dlq>>

\* Variant of Retry: one attempt too many.
RetryOnceMore(c) ==
  /\ attempt[c] <= MaxRetries
  /\ Step(c, "retry", "attempt")
  /\ attempt' = [attempt EXCEPT ![c] = @ + 1]
  /\ UNCHANGED <<status, client, kafka, offset, effects, dlq, budget>>

Retry(c) ==
  /\ attempt[c] < MaxRetries
  /\ Step(c, "retry", "attempt")
  /\ attempt' = [attempt EXCEPT ![c] = @ + 1]
  /\ UNCHANGED <<status, client, kafka, offset, effects, dlq, budget>>

\* Variant of Exhausted: the failed request is not dead-lettered.
ExhaustedWithoutDLQ(c) ==
  /\ attempt[c] = MaxRetries
  /\ Step(c, "retry", "fail")
  /\ UNCHANGED <<status, client, kafka, offset, attempt, effects, dlq, budget>>

Exhausted(c) ==
  /\ attempt[c] = MaxRetries
  /\ Step(c, "retry", "dlq")
  /\ UNCHANGED <<status, client, kafka, offset, attempt, effects, dlq, budget>>

Complete(c) ==
  /\ Step(c, "complete", "commit")
  /\ SetStatus(Event(c), "completed")
  /\ UNCHANGED <<client, kafka, offset, attempt, effects, dlq, budget>>

\* The save of "completed" sits inside the try: its exception is retried, and a
\* save that was applied all the same is not looked at.
CompleteRaises(c) ==
  /\ Step(c, "complete", "retry")
  /\ StoreRaises
  /\ UNCHANGED status \/ SetStatus(Event(c), "completed")
  /\ AddFor(c, unheard)
  /\ UNCHANGED <<client, kafka, offset, attempt, executed, proposals, dlq>>

DeadLetter(c) ==
  /\ Step(c, "dlq", "fail")
  /\ deadLetters' = deadLetters \cup {Event(c)}
  /\ UNCHANGED <<status, client, kafka, offset, attempt, effects, dlqLost, budget>>

\* Variant of DeadLetterRaises: the exception ends the consumer.
DeadLetterEscapes(c) ==
  /\ Step(c, "dlq", "dead")
  /\ BrokerRaises
  /\ GiveUp(c)
  /\ UNCHANGED <<status, client, log, committed, position, offset, attempt, effects, dlq>>

\* The exception of the DLQ publish is logged and dropped.
DeadLetterRaises(c) ==
  /\ Step(c, "dlq", "fail")
  /\ BrokerRaises
  /\ dlqLost' = dlqLost \cup {Event(c)}
  /\ UNCHANGED <<status, client, kafka, offset, attempt, effects, deadLetters>>

SaveFailed(c) ==
  /\ Step(c, "fail", "commit")
  /\ SetStatus(Event(c), "failed")
  /\ UNCHANGED <<client, kafka, offset, attempt, effects, dlq, budget>>

\* A store call outside the try raises, and a save may have been applied: run()
\* ends, nobody restarts the task.
HandleRaises(c) ==
  /\ pc[c] \in {"check", "claim", "fail"}
  /\ Event(c) \in Requests
  /\ StoreRaises
  /\ \/ UNCHANGED status
     \/ pc[c] = "claim" /\ SetStatus(Event(c), "processing")
     \/ pc[c] = "fail" /\ SetStatus(Event(c), "failed")
  /\ Goto(c, "dead")
  /\ GiveUp(c)
  /\ UNCHANGED <<client, log, committed, position, offset, attempt, effects, dlq>>

\* The explicit offset is that of the event in hand, whatever was committed since.
Commit(c) ==
  /\ owner = c
  /\ Step(c, "commit", "poll")
  /\ committed' = offset[c] + 1
  /\ UNCHANGED <<status, client, log, owner, position, offset, attempt, effects, dlq, budget>>

\* The partition is another consumer's by now: commit raises and run() ends.
CommitRefused(c) ==
  /\ owner # c
  /\ Step(c, "commit", "dead")
  /\ UNCHANGED <<status, client, kafka, offset, attempt, effects, dlq, budget>>

\* The commit of the owner raises, applied or not; so does run().
CommitRaises(c) ==
  /\ owner = c
  /\ Step(c, "commit", "dead")
  /\ BrokerRaises
  /\ committed' \in {committed, offset[c] + 1}
  /\ owner' = Nobody
  /\ UNCHANGED <<status, client, log, position, offset, attempt, effects, dlq>>

--------------------------------------------------------------------------------
(* The environment: the group coordinator, other producers, operators, crashes *)

\* The partition goes to a running consumer, at the committed offset.  It may be
\* one that still handles an event of an earlier assignment: the client rejoins
\* the group in the background.
Receive(c) ==
  /\ pc[c] \notin {"dead", "down"}
  /\ owner' = c
  /\ position' = committed
  /\ UNCHANGED <<status, client, log, committed, pc, offset, attempt, effects, dlq, faults, crashes>>

\* A free partition is assigned.
Assign(c) ==
  /\ owner = Nobody
  /\ Receive(c)
  /\ UNCHANGED rebalances

\* A scale-out, or a handler slower than max.poll.interval, moves the partition
\* while its consumer goes on handling the event it holds; the next one moves it
\* on, back to that consumer for instance.
Rebalance(c) ==
  /\ rebalances < MaxRebalances
  /\ rebalances' = rebalances + 1
  /\ owner # Nobody
  /\ Receive(c)

Crash(c) ==
  /\ crashes < MaxCrashes
  /\ crashes' = crashes + 1
  /\ pc[c] # "down"
  /\ Goto(c, "down")
  /\ GiveUp(c)
  /\ UNCHANGED <<status, client, log, committed, position, offset, attempt, effects, dlq,
                 faults, rebalances>>

Restart(c) ==
  /\ Step(c, "down", "poll")
  /\ UNCHANGED <<status, client, kafka, offset, attempt, effects, dlq, budget>>

PublishJunk ==
  /\ Len(log) < MaxLog
  /\ \A i \in 1..Len(log) : log[i] # Junk
  /\ log' = Append(log, Junk)
  /\ UNCHANGED <<status, client, committed, owner, position, pc, offset, attempt, effects, dlq, budget>>

\* The replay procedure of the dlq-accumulating runbook: reset, then re-publish.
Replay(r) ==
  /\ r \in deadLetters
  /\ status[r] = "failed"
  /\ Len(log) < MaxLog
  /\ SetStatus(r, "queued")
  /\ log' = Append(log, r)
  /\ deadLetters' = deadLetters \ {r}
  /\ UNCHANGED <<client, committed, owner, position, pc, offset, attempt, effects, dlqLost, budget>>

--------------------------------------------------------------------------------

\* What the consumer task does on its own.
Consume(c) ==
  \/ Fetch(c) \/ SkipJunk(c) \/ SkipDuplicate(c) \/ Check(c) \/ Claim(c)
  \/ RunExecutes(c) \/ RunGated(c) \/ RunApproved(c) \/ RunRaises(c) \/ RunUnheard(c)
  \/ Retry(c) \/ Exhausted(c)
  \/ Complete(c) \/ CompleteRaises(c) \/ DeadLetter(c) \/ DeadLetterRaises(c)
  \/ SaveFailed(c) \/ HandleRaises(c)
  \/ Commit(c) \/ CommitRefused(c) \/ CommitRaises(c)

Next ==
  \/ \E r \in Requests : Save(r) \/ Publish(r) \/ PublishRaises(r) \/ Replay(r)
  \/ \E c \in Consumers : Consume(c) \/ Assign(c) \/ Rebalance(c) \/ Crash(c) \/ Restart(c)
  \/ PublishJunk

Spec == Init /\ [][Next]_vars

(***************************************************************************)
(* asyncio resumes every ready consumer, Kafka assigns a free partition    *)
(* and Kubernetes restarts a killed pod: each stays enabled until taken    *)
(* (another consumer may take the partition first, which is as good).      *)
(***************************************************************************)
FairSpec ==
  /\ Spec
  /\ \A c \in Consumers : WF_vars(Consume(c)) /\ WF_vars(Restart(c))
  /\ WF_vars(\E c \in Consumers : Assign(c))

--------------------------------------------------------------------------------
(* Properties *)

\* A consumer is past the idempotency check of these requests.
Handled ==
  {r \in Requests : \E c \in Consumers :
     pc[c] \in {"attempt", "complete", "retry", "dlq", "fail"} /\ Event(c) = r}

\* The pipeline keeps the client's contract: statuses follow the diagram, and the
\* action is repeated, or recorded for a failed request, only for runs whose
\* "executed" record or whose "completed" was stored by a call that raised
\* (module RequestLifecycle; request-pipeline.md §Request State Diagram).
Lifecycle == INSTANCE RequestLifecycle
               WITH state <- status, handled <- Handled, effects <- executed
ImplementsLifecycle == Lifecycle!Spec

\* No event below the committed offset is still waiting: its request reached a
\* final status, or waits again for a replay further up the log
\* (request_consumer.py:81-85).
CommittedIsSettled ==
  \A i \in 1..committed :
    log[i] \in Requests =>
      \/ status[log[i]] \in {"completed", "failed"}
      \/ \E j \in committed + 1 .. Len(log) : log[j] = log[i]

\* Whatever crashes, store faults and reassignments do, the committed offset never
\* passes a request nobody claimed: one still unknown or queued has its event, or
\* a replayed one, ahead of the offset (commit after _handle in run,
\* request_consumer.py:62-92).
CommittedWasClaimed ==
  \A i \in 1..committed :
    log[i] \in Requests =>
      \/ status[log[i]] \notin {"unknown", "queued"}
      \/ \E j \in committed + 1 .. Len(log) : log[j] = log[i]

\* A request that reads "processing" and that no consumer is handling: redelivery
\* skips it, so that it stays as it is.
Stranded == {r \in Requests \ Handled : status[r] = "processing"}

\* A request is stranded only by a pod killed, or a store call that raised,
\* while it was handled, and each of them costs one request at most: failing
\* runs, failing publishes, redelivery and reassignments cost none
\* (request_consumer.py:109-181).
StrandedBounded == Cardinality(Stranded) <= crashes + storeFaults

\* A request in status "failed" can be found for manual recovery: it is on the
\* DLQ or its failed DLQ publish was logged (request_consumer.py:183-211).
FailedIsOnDLQ ==
  \A r \in Requests : status[r] = "failed" => r \in deadLetters \cup dlqLost

\* A request answered 202 reaches a final status ("prevents both silent message
\* loss and infinite reprocessing", request_consumer.py:44-46).
AcceptedIsSettled ==
  \A r \in Requests :
    client[r] = "accepted" ~> status[r] \in {"completed", "failed"}

\* Every consumer task has ended, and nothing starts one again.
NobodyReads == \A c \in Consumers : pc[c] = "dead"

\* A request answered 202 reaches a final status, also behind junk events, in
\* spite of failing runs, failing DLQ publishes and failing commits, unless these
\* commits end the consumer tasks of all pods (run, request_consumer.py:79-92;
\* nothing starts the task again, main.py:156).
SettledUnlessUnread ==
  \A r \in Requests :
    client[r] = "accepted" ~> NobodyReads \/ status[r] \in {"completed", "failed"}

\* However its runs fail, a request opens at most MaxRetries + 1 approval
\* requests per delivered event: redelivery after a crash opens no more
\* (the retry loop and the idempotency check, request_consumer.py:118-181).
ApprovalsBounded ==
  \A r \in Requests :
    proposals[r] <= (MaxRetries + 1) * Cardinality({i \in 1..Len(log) : log[i] = r})
================================================================================
