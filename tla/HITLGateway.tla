------------------------------ MODULE HITLGateway ------------------------------
(***************************************************************************)
(* The approval gateway (agents/hitl_gateway.py) over its two stores       *)
(* (agents/hitl_store.py), as coroutines on the event loops of one or more *)
(* pods.  Every action runs from one await to the next.                    *)
(*                                                                         *)
(* Each pod has its own asyncio.Lock; the Redis store is shared by all     *)
(* pods, the in-memory store lives and dies with its one process.  A call  *)
(* under the lock that touches the store once is one action guarded by a   *)
(* free lock; the two critical sections that touch it twice (count then    *)
(* save, read then save) hold the lock across two actions.                 *)
(***************************************************************************)
EXTENDS Integers, FiniteSets

CONSTANTS
  Requests,   \* request_ids: a fresh uuid4 each, so each is submitted once
  Tasks,      \* coroutine slots: an idle one may start any operation
  Pods,       \* gateway processes
  SweepPods,  \* pods where somebody calls expire_stale_requests
  Durable,    \* TRUE: HITLRedisStore, FALSE: InMemoryHITLStore
  Capacity,   \* hitl_max_pending_requests
  Timeout,    \* hitl_approval_timeout_seconds, in clock units
  Grace,      \* hitl_redis_ttl_grace_hours, in clock units
  MaxTime,    \* bound: the clock stops here
  MaxFaults,  \* bound: store, audit and broker calls that raise
  MaxCrashes, \* bound: pod restarts
  NoTask      \* the free lock

ASSUME GatewayAssumption ==
  /\ Requests # {} /\ Pods # {}
  /\ SweepPods \subseteq Pods
  /\ Durable \in BOOLEAN
  /\ ~Durable => \A p, q \in Pods : p = q
  /\ Capacity \in Nat
  /\ Timeout \in Nat \ {0}
  /\ Grace \in Nat
  /\ MaxTime \in Nat /\ MaxFaults \in Nat /\ MaxCrashes \in Nat
  /\ NoTask \notin Tasks

VARIABLES
  now,        \* datetime.now(UTC); the pods' clocks are taken to agree
  deadline,   \* request.expires_at, 0 before submit_for_approval
  active,     \* status under hitl:req:{id} (or in _active), "ABSENT" without a key
  pending,    \* members of the hitl:pending sorted set (or the keys of _active)
  archive,    \* status under hitl:expired:{id} (or in _archived)
  lock,       \* lock[p] = the task inside the asyncio.Lock of pod p
  pc,         \* where each task is suspended
  pod,        \* the pod each task runs on
  req,        \* the request each task is working on
  verdict,    \* the status each task has put on its request object
  batch,      \* the candidates a sweep still has to expire
  gauge,      \* ACTIVE_HITL_REQUESTS of each pod
  audit,      \* audit[r] = the audit records written about r
  published,  \* published[r] = the broker events published about r
  decisions,  \* decisions[r] = what the approvals and rejections counters saw
  returned,   \* the status submit_for_approval handed back to the agent
  faults, crashes

store    == <<active, pending, archive>>
outputs  == <<audit, published, decisions, returned>>
budget   == <<faults, crashes>>
frame    == <<pod, req, verdict, batch>>
vars     == <<now, deadline, store, lock, pc, frame, gauge, outputs, budget>>

Verdicts == {"APPROVED", "REJECTED"}
Statuses == Verdicts \cup {"PENDING", "EXPIRED"}
Stored   == Statuses \cup {"ABSENT"}

\* Where a task can be suspended; "idle" is a slot with no operation.
Points ==
  {"idle",
   "submit_count", "submit_save", "submit_audit", "submit_publish",
   "decide_save", "decide_archive", "decide_audit", "decide_publish",
   "late_archive", "late_audit", "late_publish",
   "sweep_select", "sweep_next", "sweep_audit", "sweep_publish", "sweep_archive"}

\* The points inside a critical section.
Locked == {"submit_save", "decide_save", "sweep_select"}

\* The points whose next call takes the lock first.
Locking == {"submit_count", "decide_archive", "late_archive", "sweep_archive"}

TypeOK ==
  /\ now \in Nat
  /\ deadline \in [Requests -> Nat]
  /\ active \in [Requests -> Stored]
  /\ pending \in SUBSET Requests
  /\ archive \in [Requests -> Stored]
  /\ lock \in [Pods -> Tasks \cup {NoTask}]
  /\ pc \in [Tasks -> Points]
  /\ pod \in [Tasks -> Pods]
  /\ req \in [Tasks -> Requests]
  /\ verdict \in [Tasks -> Statuses]
  /\ batch \in [Tasks -> SUBSET Requests]
  /\ gauge \in [Pods -> Int]
  /\ audit \in [Requests -> SUBSET Statuses]
  /\ published \in [Requests -> SUBSET Statuses]
  /\ decisions \in [Requests -> Nat]
  /\ returned \in [Requests -> Stored]
  /\ faults \in Nat
  /\ crashes \in Nat

\* What HITLStore.get (hence get_request) answers about r.
Visible(r) == IF active[r] # "ABSENT" THEN active[r] ELSE archive[r]

--------------------------------------------------------------------------------
(* Building blocks.  A definition named "Variant of X" below is X with a slip *)
(* a maintainer could make; it is part of no specification and shows which    *)
(* property would notice.                                                     *)

Free(t)      == lock[pod[t]] = NoTask
Goto(t, l)   == pc' = [pc EXCEPT ![t] = l]
Take(t, p)   == lock' = [lock EXCEPT ![p] = t]
Release(t)   == lock' = [lock EXCEPT ![pod[t]] = NoTask]
Gauge(t, d)  == gauge' = [gauge EXCEPT ![pod[t]] = @ + d]
Audit(t, k)  == audit' = [audit EXCEPT ![req[t]] = @ \cup {k}]
Publish(t, k) == published' = [published EXCEPT ![req[t]] = @ \cup {k}]

\* A finished coroutine's locals are gone; its slot goes back to its first values.
SomePod     == CHOOSE p \in Pods : TRUE
SomeRequest == CHOOSE r \in Requests : TRUE
Finish(t) ==
  /\ Goto(t, "idle")
  /\ pod' = [pod EXCEPT ![t] = SomePod]
  /\ req' = [req EXCEPT ![t] = SomeRequest]
  /\ verdict' = [verdict EXCEPT ![t] = "PENDING"]
  /\ batch' = [batch EXCEPT ![t] = {}]

\* HITLStore.save: key and sorted-set member in one pipeline.
Save(r, s) ==
  /\ active' = [active EXCEPT ![r] = s]
  /\ pending' = pending \cup {r}

\* Variants of Archive: the queue entry is left behind; the live entry is left behind.
ArchiveWithoutZrem(t) ==
  /\ active' = [active EXCEPT ![req[t]] = "ABSENT"]
  /\ archive' = [archive EXCEPT ![req[t]] = verdict[t]]
  /\ UNCHANGED pending
ArchiveWithoutPop(t) ==
  /\ archive' = [archive EXCEPT ![req[t]] = verdict[t]]
  /\ UNCHANGED <<active, pending>>

\* HITLStore.archive: ZREM, DEL and SET in one pipeline.
Archive(t) ==
  /\ active' = [active EXCEPT ![req[t]] = "ABSENT"]
  /\ pending' = pending \ {req[t]}
  /\ archive' = [archive EXCEPT ![req[t]] = verdict[t]]

\* "request.status = EXPIRED": the in-memory store hands out the stored object,
\* so the assignment is seen through the store; Redis hands out a copy.
MarkExpired(r) ==
  IF Durable
    THEN UNCHANGED store
    ELSE /\ active' = IF active[r] # "ABSENT"
                        THEN [active EXCEPT ![r] = "EXPIRED"] ELSE active
         /\ archive' = IF archive[r] # "ABSENT"
                         THEN [archive EXCEPT ![r] = "EXPIRED"] ELSE archive
         /\ UNCHANGED pending

Init ==
  /\ now = 0
  /\ deadline = [r \in Requests |-> 0]
  /\ active = [r \in Requests |-> "ABSENT"]
  /\ pending = {}
  /\ archive = [r \in Requests |-> "ABSENT"]
  /\ lock = [p \in Pods |-> NoTask]
  /\ pc = [t \in Tasks |-> "idle"]
  /\ pod = [t \in Tasks |-> SomePod]
  /\ req = [t \in Tasks |-> SomeRequest]
  /\ verdict = [t \in Tasks |-> "PENDING"]
  /\ batch = [t \in Tasks |-> {}]
  /\ gauge = [p \in Pods |-> 0]
  /\ audit = [r \in Requests |-> {}]
  /\ published = [r \in Requests |-> {}]
  /\ decisions = [r \in Requests |-> 0]
  /\ returned = [r \in Requests |-> "ABSENT"]
  /\ faults = 0
  /\ crashes = 0

--------------------------------------------------------------------------------
(* submit_for_approval *)

\* The deadline is computed before the lock is asked for.
SubmitStart(t, p, r) ==
  /\ pc[t] = "idle"
  /\ deadline[r] = 0
  /\ deadline' = [deadline EXCEPT ![r] = now + Timeout]
  /\ Goto(t, "submit_count")
  /\ pod' = [pod EXCEPT ![t] = p]
  /\ req' = [req EXCEPT ![t] = r]
  /\ UNCHANGED <<now, store, lock, verdict, batch, gauge, outputs, budget>>

SubmitRefuse(t) ==
  /\ pc[t] = "submit_count"
  /\ Free(t)
  /\ Cardinality(pending) >= Capacity
  /\ Finish(t)
  /\ UNCHANGED <<now, deadline, store, lock, gauge, outputs, budget>>

\* Variant of SubmitCount: the count outside the lock.
SubmitCountUnlocked(t) ==
  /\ pc[t] = "submit_count"
  /\ Cardinality(pending) < Capacity
  /\ Goto(t, "submit_save")
  /\ UNCHANGED <<now, deadline, store, lock, frame, gauge, outputs, budget>>

SubmitCount(t) ==
  /\ pc[t] = "submit_count"
  /\ Free(t)
  /\ Cardinality(pending) < Capacity
  /\ Take(t, pod[t])
  /\ Goto(t, "submit_save")
  /\ UNCHANGED <<now, deadline, store, frame, gauge, outputs, budget>>

SubmitSave(t) ==
  /\ pc[t] = "submit_save"
  /\ Save(req[t], "PENDING")
  /\ Release(t)
  /\ Gauge(t, 1)
  /\ Goto(t, "submit_audit")
  /\ UNCHANGED <<now, deadline, archive, frame, outputs, budget>>

SubmitAudit(t) ==
  /\ pc[t] = "submit_audit"
  /\ Audit(t, "PENDING")
  /\ Goto(t, "submit_publish")
  /\ UNCHANGED <<now, deadline, store, lock, frame, gauge, published, decisions,
                 returned, budget>>

\* The caller reads the status of its own object: the stored one in memory.
SubmitPublish(t) ==
  /\ pc[t] = "submit_publish"
  /\ Publish(t, "PENDING")
  /\ returned' = [returned EXCEPT ![req[t]] =
                    IF Durable THEN "PENDING" ELSE Visible(req[t])]
  /\ Finish(t)
  /\ UNCHANGED <<now, deadline, store, lock, gauge, audit, decisions, budget>>

--------------------------------------------------------------------------------
(* record_decision.  A request that is missing or not PENDING is refused and  *)
(* nothing changes, so the refusals are not actions.                          *)

\* Phase 1 finds the request expired: only the local copy is marked.
DecideLate(t, p, r) ==
  /\ pc[t] = "idle"
  /\ lock[p] = NoTask
  /\ active[r] = "PENDING"
  /\ now >= deadline[r]
  /\ MarkExpired(r)
  /\ Goto(t, "late_archive")
  /\ pod' = [pod EXCEPT ![t] = p]
  /\ req' = [req EXCEPT ![t] = r]
  /\ verdict' = [verdict EXCEPT ![t] = "EXPIRED"]
  /\ UNCHANGED <<now, deadline, lock, batch, gauge, outputs, budget>>

\* Variants of DecideAccept: the deadline, or the status, is not looked at.
DecideAcceptAnyTime(t, p, r, v) ==
  /\ pc[t] = "idle"
  /\ lock[p] = NoTask
  /\ active[r] = "PENDING"
  /\ Take(t, p)
  /\ Goto(t, "decide_save")
  /\ pod' = [pod EXCEPT ![t] = p]
  /\ req' = [req EXCEPT ![t] = r]
  /\ verdict' = [verdict EXCEPT ![t] = v]
  /\ UNCHANGED <<now, deadline, store, batch, gauge, outputs, budget>>
DecideAcceptAnyStatus(t, p, r, v) ==
  /\ pc[t] = "idle"
  /\ lock[p] = NoTask
  /\ active[r] # "ABSENT"
  /\ now < deadline[r]
  /\ Take(t, p)
  /\ Goto(t, "decide_save")
  /\ pod' = [pod EXCEPT ![t] = p]
  /\ req' = [req EXCEPT ![t] = r]
  /\ verdict' = [verdict EXCEPT ![t] = v]
  /\ UNCHANGED <<now, deadline, store, batch, gauge, outputs, budget>>

DecideAccept(t, p, r, v) ==
  /\ pc[t] = "idle"
  /\ lock[p] = NoTask
  /\ active[r] = "PENDING"
  /\ now < deadline[r]
  /\ Take(t, p)
  /\ Goto(t, "decide_save")
  /\ pod' = [pod EXCEPT ![t] = p]
  /\ req' = [req EXCEPT ![t] = r]
  /\ verdict' = [verdict EXCEPT ![t] = v]
  /\ UNCHANGED <<now, deadline, store, batch, gauge, outputs, budget>>

\* Variant of DecideSave: the gauge is not decremented.
DecideSaveUngauged(t) ==
  /\ pc[t] = "decide_save"
  /\ Save(req[t], verdict[t])
  /\ Release(t)
  /\ Goto(t, "decide_archive")
  /\ UNCHANGED <<now, deadline, archive, frame, gauge, outputs, budget>>

DecideSave(t) ==
  /\ pc[t] = "decide_save"
  /\ Save(req[t], verdict[t])
  /\ Release(t)
  /\ Gauge(t, -1)
  /\ Goto(t, "decide_archive")
  /\ UNCHANGED <<now, deadline, archive, frame, outputs, budget>>

DecideArchive(t) ==
  /\ pc[t] = "decide_archive"
  /\ Free(t)
  /\ Archive(t)
  /\ Goto(t, "decide_audit")
  /\ UNCHANGED <<now, deadline, lock, frame, gauge, outputs, budget>>

\* Variant of DecideAudit: the status is read back from the live key.
DecideAuditReread(t) ==
  /\ pc[t] = "decide_audit"
  /\ Audit(t, active[req[t]])
  /\ decisions' = [decisions EXCEPT ![req[t]] = @ + 1]
  /\ Goto(t, "decide_publish")
  /\ UNCHANGED <<now, deadline, store, lock, frame, gauge, published, returned, budget>>

\* The audit record, then record_hitl_decision with no await in between.
DecideAudit(t) ==
  /\ pc[t] = "decide_audit"
  /\ Audit(t, verdict[t])
  /\ decisions' = [decisions EXCEPT ![req[t]] = @ + 1]
  /\ Goto(t, "decide_publish")
  /\ UNCHANGED <<now, deadline, store, lock, frame, gauge, published, returned, budget>>

DecidePublish(t) ==
  /\ pc[t] = "decide_publish"
  /\ Publish(t, verdict[t])
  /\ Finish(t)
  /\ UNCHANGED <<now, deadline, store, lock, gauge, audit, decisions, returned, budget>>

\* Variant of LateArchive: the late decision raises at once.
LateArchiveUnlogged(t) ==
  /\ pc[t] = "late_archive"
  /\ Free(t)
  /\ Archive(t)
  /\ Gauge(t, -1)
  /\ Finish(t)
  /\ UNCHANGED <<now, deadline, lock, outputs, budget>>

\* The expired branch of phase 2: archive, then _expire_audit, then raise.
LateArchive(t) ==
  /\ pc[t] = "late_archive"
  /\ Free(t)
  /\ Archive(t)
  /\ Gauge(t, -1)
  /\ Goto(t, "late_audit")
  /\ UNCHANGED <<now, deadline, lock, frame, outputs, budget>>

LateAudit(t) ==
  /\ pc[t] = "late_audit"
  /\ Audit(t, "EXPIRED")
  /\ Goto(t, "late_publish")
  /\ UNCHANGED <<now, deadline, store, lock, frame, gauge, published, decisions,
                 returned, budget>>

LatePublish(t) ==
  /\ pc[t] = "late_publish"
  /\ Publish(t, "EXPIRED")
  /\ Finish(t)
  /\ UNCHANGED <<now, deadline, store, lock, gauge, audit, decisions, returned, budget>>

--------------------------------------------------------------------------------
(* expire_stale_requests *)

\* get_pending_expired, first round trip: ZRANGEBYSCORE up to now.
SweepStart(t, p) ==
  /\ pc[t] = "idle"
  /\ lock[p] = NoTask
  /\ Take(t, p)
  /\ Goto(t, "sweep_select")
  /\ pod' = [pod EXCEPT ![t] = p]
  /\ batch' = [batch EXCEPT ![t] = {r \in pending : deadline[r] <= now}]
  /\ UNCHANGED <<now, deadline, store, req, verdict, gauge, outputs, budget>>

\* Variants of SweepSelect: the members' status is not looked at; the test is inverted.
SweepSelectAll(t) ==
  /\ pc[t] = "sweep_select"
  /\ Release(t)
  /\ Goto(t, "sweep_next")
  /\ UNCHANGED <<now, deadline, store, frame, gauge, outputs, budget>>
SweepSelectDecided(t) ==
  /\ pc[t] = "sweep_select"
  /\ batch' = [batch EXCEPT ![t] = {r \in @ : active[r] \notin {"ABSENT", "PENDING"}}]
  /\ Release(t)
  /\ Goto(t, "sweep_next")
  /\ UNCHANGED <<now, deadline, store, pod, req, verdict, gauge, outputs, budget>>

\* get_pending_expired, the GETs: members without data or not PENDING are dropped.
SweepSelect(t) ==
  /\ pc[t] = "sweep_select"
  /\ batch' = [batch EXCEPT ![t] = {r \in @ : active[r] = "PENDING"}]
  /\ Release(t)
  /\ Goto(t, "sweep_next")
  /\ UNCHANGED <<now, deadline, store, pod, req, verdict, gauge, outputs, budget>>

\* _expire_single up to the await of the audit log.
SweepMark(t, r) ==
  /\ pc[t] = "sweep_next"
  /\ r \in batch[t]
  /\ batch' = [batch EXCEPT ![t] = @ \ {r}]
  /\ req' = [req EXCEPT ![t] = r]
  /\ verdict' = [verdict EXCEPT ![t] = "EXPIRED"]
  /\ MarkExpired(r)
  /\ Gauge(t, -1)
  /\ Goto(t, "sweep_audit")
  /\ UNCHANGED <<now, deadline, lock, pod, outputs, budget>>

\* Variant of SweepAudit: the event goes out first.
SweepAuditAfterPublish(t) ==
  /\ pc[t] = "sweep_audit"
  /\ Publish(t, "EXPIRED")
  /\ Goto(t, "sweep_publish")
  /\ UNCHANGED <<now, deadline, store, lock, frame, gauge, audit, decisions,
                 returned, budget>>

SweepAudit(t) ==
  /\ pc[t] = "sweep_audit"
  /\ Audit(t, "EXPIRED")
  /\ Goto(t, "sweep_publish")
  /\ UNCHANGED <<now, deadline, store, lock, frame, gauge, published, decisions,
                 returned, budget>>

SweepPublish(t) ==
  /\ pc[t] = "sweep_publish"
  /\ Publish(t, "EXPIRED")
  /\ Goto(t, "sweep_archive")
  /\ UNCHANGED <<now, deadline, store, lock, frame, gauge, audit, decisions,
                 returned, budget>>

SweepArchive(t) ==
  /\ pc[t] = "sweep_archive"
  /\ Free(t)
  /\ Archive(t)
  /\ Goto(t, "sweep_next")
  /\ UNCHANGED <<now, deadline, lock, frame, gauge, outputs, budget>>

SweepReturn(t) ==
  /\ pc[t] = "sweep_next"
  /\ batch[t] = {}
  /\ Finish(t)
  /\ UNCHANGED <<now, deadline, store, lock, gauge, outputs, budget>>

--------------------------------------------------------------------------------
(* The environment: time, failing calls, restarts, Redis key expiry. *)

Tick ==
  /\ now < MaxTime
  /\ now' = now + 1
  /\ UNCHANGED <<deadline, store, lock, pc, frame, gauge, outputs, budget>>

\* The calls that can raise: no operation catches an exception of the audit
\* log, of the broker or of Redis; the in-memory store has nothing to raise.
Fallible ==
  LET reports == {"submit_audit", "submit_publish", "decide_audit", "decide_publish",
                  "late_audit", "late_publish", "sweep_audit", "sweep_publish"}
  IN  IF Durable THEN Points \ {"idle", "sweep_next"} ELSE reports

\* The awaited call raises: "async with" leaves the lock, the operation ends.
Fail(t) ==
  /\ faults < MaxFaults
  /\ pc[t] \in Fallible
  /\ pc[t] \in Locking => Free(t)
  /\ faults' = faults + 1
  /\ lock' = IF pc[t] \in Locked THEN [lock EXCEPT ![pod[t]] = NoTask] ELSE lock
  /\ Finish(t)
  /\ UNCHANGED <<now, deadline, store, gauge, outputs, crashes>>

\* The same for a write that Redis applied although its reply was lost.
LostReply(t) ==
  /\ Durable
  /\ faults < MaxFaults
  /\ pc[t] \in Locking => Free(t)
  /\ \/ pc[t] = "submit_save" /\ Save(req[t], "PENDING") /\ UNCHANGED archive
     \/ pc[t] = "decide_save" /\ Save(req[t], verdict[t]) /\ UNCHANGED archive
     \/ pc[t] \in Locking \ {"submit_count"} /\ Archive(t)
  /\ faults' = faults + 1
  /\ lock' = IF pc[t] \in Locked THEN [lock EXCEPT ![pod[t]] = NoTask] ELSE lock
  /\ Finish(t)
  /\ UNCHANGED <<now, deadline, gauge, outputs, crashes>>

\* A pod is killed and comes back: its coroutines, its lock, its process metric
\* and, without Redis, its store start afresh.
Crash(p) ==
  LET lost == {t \in Tasks : pod[t] = p} IN
  /\ crashes < MaxCrashes
  /\ crashes' = crashes + 1
  /\ lock' = [lock EXCEPT ![p] = NoTask]
  /\ gauge' = [gauge EXCEPT ![p] = 0]
  /\ pc' = [t \in Tasks |-> IF t \in lost THEN "idle" ELSE pc[t]]
  /\ pod' = [t \in Tasks |-> IF t \in lost THEN SomePod ELSE pod[t]]
  /\ req' = [t \in Tasks |-> IF t \in lost THEN SomeRequest ELSE req[t]]
  /\ verdict' = [t \in Tasks |-> IF t \in lost THEN "PENDING" ELSE verdict[t]]
  /\ batch' = [t \in Tasks |-> IF t \in lost THEN {} ELSE batch[t]]
  /\ IF Durable
       THEN UNCHANGED store
       ELSE /\ active' = [r \in Requests |-> "ABSENT"]
            /\ pending' = {}
            /\ archive' = [r \in Requests |-> "ABSENT"]
  /\ UNCHANGED <<now, deadline, outputs, faults>>

\* Redis drops hitl:req:{id} Grace after expires_at; the sorted-set member has
\* no TTL and stays.  No operation is taken to last that long.
KeyExpires(r) ==
  /\ Durable
  /\ active[r] # "ABSENT"
  /\ now >= deadline[r] + Grace
  /\ \A t \in Tasks : pc[t] # "idle" => req[t] # r /\ r \notin batch[t]
  /\ active' = [active EXCEPT ![r] = "ABSENT"]
  /\ UNCHANGED <<now, deadline, pending, archive, lock, pc, frame, gauge, outputs, budget>>

--------------------------------------------------------------------------------

\* A new operation, started by an agent, a reviewer or whoever sweeps.
Start(t) ==
  \/ \E p \in Pods, r \in Requests :
       \/ SubmitStart(t, p, r)
       \/ DecideLate(t, p, r)
       \/ \E v \in Verdicts : DecideAccept(t, p, r, v)
  \/ \E p \in SweepPods : SweepStart(t, p)

\* The continuation of a running one.
Resume(t) ==
  \/ SubmitRefuse(t) \/ SubmitCount(t) \/ SubmitSave(t)
  \/ SubmitAudit(t) \/ SubmitPublish(t)
  \/ DecideSave(t) \/ DecideArchive(t) \/ DecideAudit(t) \/ DecidePublish(t)
  \/ LateArchive(t) \/ LateAudit(t) \/ LatePublish(t)
  \/ SweepSelect(t) \/ SweepAudit(t) \/ SweepPublish(t) \/ SweepArchive(t)
  \/ SweepReturn(t) \/ \E r \in Requests : SweepMark(t, r)

Next ==
  \/ Tick
  \/ \E t \in Tasks : Start(t) \/ Resume(t) \/ Fail(t) \/ LostReply(t)
  \/ \E p \in Pods : Crash(p)
  \/ \E r \in Requests : KeyExpires(r)

Spec == Init /\ [][Next]_vars

(***************************************************************************)
(* asyncio runs every ready coroutine and its lock is first come, first    *)
(* served, so a waiting task gets the lock although others take it again   *)
(* and again: strong fairness of each continuation.  The sweep is called   *)
(* again and again on some pod that calls it at all.                       *)
(***************************************************************************)
FairSpec ==
  /\ Spec
  /\ \A t \in Tasks : SF_vars(Resume(t))
  /\ SF_vars(\E t \in Tasks, p \in SweepPods : SweepStart(t, p))

--------------------------------------------------------------------------------
(* Properties *)

\* Every outcome anybody was told of: by the store, by the call that submitted
\* the request, by the audit log or by the broker.
Seen(r) == ({active[r], archive[r], returned[r]} \cup audit[r] \cup published[r])
             \cap (Verdicts \cup {"EXPIRED"})

\* A request never has two different outcomes, wherever one looks, and the
\* approval and rejection counters see it at most once: a reviewer who answers
\* while another reviewer or a sweep is halfway through is refused
\* (record_decision and expire_stale_requests, hitl_gateway.py:166-273).
OneOutcome ==
  \A r \in Requests :
    /\ \A x, y \in Seen(r) : x = y
    /\ decisions[r] <= 1

\* The archive, the live keys and the queue agree: an archived request has left
\* both, so a late save never resurrects it, and every live key is in the
\* queue, so a sweep can find it (hitl_store.py:135-185).
QueueConsistent ==
  \A r \in Requests :
    /\ archive[r] # "ABSENT" => active[r] = "ABSENT" /\ r \notin pending
    /\ active[r] # "ABSENT" => r \in pending

\* The queue never outgrows hitl_max_pending_requests, although the count and
\* the save are separate round trips (hitl_gateway.py:120-127).
CapacityRespected == Cardinality(pending) <= Capacity

\* An event is published only after its audit record was written, whichever of
\* the two calls fails or crashes ("write audit record before notifying
\* broker", hitl_gateway.py:130-154, 209-244, 284-298).
AuditedBeforeAnnounced == \A r \in Requests : published[r] \subseteq audit[r]

\* What get_request shows of a decided or expired request never turns into
\* another status; it can only go away (hitl_gateway.py:254-256).
OutcomeFinal ==
  [][\A r \in Requests :
       Visible(r) \in Verdicts \cup {"EXPIRED"} => Visible(r)' \in {Visible(r), "ABSENT"}]_vars

\* An undecided request past its deadline is archived (unless a verdict accepted
\* in time was still being saved), although single sweeps may fail
\* (expire_stale_requests, hitl_gateway.py:258-273).
StaleArchived ==
  \A r \in Requests :
    (active[r] = "PENDING" /\ now >= deadline[r]) ~>
      (archive[r] # "ABSENT" \/ active[r] \in Verdicts)

\* A request past its deadline leaves the queue, whatever happened to it
\* (the capacity claim of hitl_gateway.py:261-262).
StaleLeaves ==
  \A r \in Requests :
    (r \in pending /\ now >= deadline[r]) ~> r \notin pending

\* With the in-memory store the pod's gauge (hitl_active_requests, metrics.py:86-88)
\* never shows more waiting requests than there are, although late decisions and
\* sweeps may count the same expiry twice and a restart zeroes it (the inc and
\* dec calls of hitl_gateway.py:128, 202, 282).
GaugeNeverOverstates == \A p \in Pods : gauge[p] <= Cardinality(pending)

\* While no call fails and no pod restarts, every archived outcome has its audit
\* record once the operations under way have ended ("every decision is logged",
\* ADR-0011; hitl_gateway.py:204-222, 280-294).
EveryOutcomeLogged ==
  (faults = 0 /\ crashes = 0 /\ \A t \in Tasks : pc[t] = "idle") =>
    \A r \in Requests : archive[r] # "ABSENT" => archive[r] \in audit[r]

\* The abstract gateway: the outcome is what get_request shows, a verdict is
\* accepted while its task is inside the critical section, and a queue member
\* without a key is a forgotten request.
Outcome(r) ==
  IF Visible(r) # "ABSENT" THEN Visible(r)
  ELSE IF r \in pending THEN "FORGOTTEN" ELSE "none"

Oversight == INSTANCE HITLOversight WITH
  clock    <- now,
  due      <- deadline,
  outcome  <- [r \in Requests |-> Outcome(r)],
  accepted <- {req[t] : t \in {u \in Tasks : pc[u] = "decide_save"}}

\* The gateway of one pod on Redis does what HITLOversight promises.
ImplementsOversight == Oversight!Spec
================================================================================
