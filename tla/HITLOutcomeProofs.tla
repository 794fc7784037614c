--------------------------- MODULE HITLOutcomeProofs ---------------------------
(***************************************************************************)
(* On one pod, with either store and under any failures and restarts, a    *)
(* request has at most one outcome, which stays, the store's three keys    *)
(* agree, and as long as nothing fails every outcome is logged; with Redis *)
(* the gateway implements HITLOversight.  Two pods share the store and not *)
(* the lock: there the first of these fails (see HITLTwoPods.cfg), which   *)
(* is why the theorems assume SinglePod.                                   *)
(***************************************************************************)
EXTENDS HITLGatewayProofs

SinglePod == \A p, q \in Pods : p = q

--------------------------------------------------------------------------------
(* The inductive invariant *)

\* A task past DecideSave, one that is expiring a request, one inside a sweep
\* that has selected its candidates, one inside submit_for_approval.
Ruling     == {"decide_archive", "decide_audit", "decide_publish"}
Expiring   == {"late_archive", "late_audit", "late_publish",
               "sweep_audit", "sweep_publish", "sweep_archive"}
Sweeping   == {"sweep_next", "sweep_audit", "sweep_publish", "sweep_archive"}
Submitting == {"submit_count", "submit_save", "submit_audit", "submit_publish"}

\* Somebody was, or is about to be, told the verdict v on r.
Ruled(r, v) ==
  \/ v \in Seen(r)
  \/ \E t \in Tasks : pc[t] \in Ruling /\ req[t] = r /\ verdict[t] = v

\* Somebody was, or is about to be, told that r expired.
Late(r) ==
  \/ "EXPIRED" \in Seen(r)
  \/ \E t \in Tasks : pc[t] \in Expiring /\ req[t] = r
  \/ \E t \in Tasks : pc[t] \in Sweeping /\ r \in batch[t]

\* Nothing has happened to r yet.
Untouched(r) ==
  /\ active[r] = "ABSENT" /\ archive[r] = "ABSENT"
  /\ r \notin pending /\ decisions[r] = 0
  /\ ~Late(r)
  /\ \A v \in Verdicts : ~Ruled(r, v)

\* The status on a task's request object fits what the task is doing.
VerdictInv ==
  \A t \in Tasks :
    /\ pc[t] \in Expiring => verdict[t] = "EXPIRED"
    /\ pc[t] \in Ruling \cup {"decide_save"} => verdict[t] \in Verdicts

\* Only sweeps have candidates, and their deadlines are past.
BatchInv ==
  \A t \in Tasks :
    /\ pc[t] \notin Sweeping \cup {"sweep_select"} => batch[t] = {}
    /\ \A r \in batch[t] : deadline[r] # 0 /\ now >= deadline[r]

\* A request that has no deadline, or is not saved yet, is untouched, and
\* only one task submits it.
SubmitInv ==
  /\ \A r \in Requests : deadline[r] = 0 =>
       Untouched(r) /\ \A t \in Tasks : pc[t] \in Submitting => req[t] # r
  /\ \A t \in Tasks : pc[t] \in {"submit_count", "submit_save"} => Untouched(req[t])
  /\ \A t, u \in Tasks :
       pc[t] \in Submitting /\ pc[u] \in Submitting /\ req[t] = req[u] => t = u

\* Verdicts agree; a ruled request is no longer pending and does not expire.
RuledInv ==
  \A r \in Requests :
    /\ \A v, w \in Verdicts : Ruled(r, v) /\ Ruled(r, w) => v = w
    /\ decisions[r] > 0 \/ (\E v \in Verdicts : Ruled(r, v)) =>
         active[r] # "PENDING" /\ ~Late(r)

\* Only requests past their deadline expire.
LateInv == \A r \in Requests : Late(r) => now >= deadline[r]

\* While a verdict is being saved the request is pending and does not expire.
SaveInv ==
  \A t \in Tasks :
    pc[t] = "decide_save" => active[req[t]] = "PENDING" /\ ~Late(req[t])

\* One task at a time reports a verdict on r, and it is counted once.
CountInv ==
  /\ \A r \in Requests : decisions[r] <= 1
  /\ \A t \in Tasks : pc[t] \in {"decide_archive", "decide_audit"} => decisions[req[t]] = 0
  /\ \A t, u \in Tasks :
       pc[t] \in Ruling /\ pc[u] \in Ruling /\ req[t] = req[u] => t = u

IInv ==
  /\ TypeOK
  /\ LockInv
  /\ VerdictInv
  /\ BatchInv
  /\ QueueConsistent
  /\ SubmitInv
  /\ RuledInv
  /\ LateInv
  /\ SaveInv
  /\ CountInv

--------------------------------------------------------------------------------
(* Each step preserves it.  The helper predicates that only test pc are       *)
(* expanded throughout, as are the building blocks of the actions.            *)

\* Taking a deadline leaves every other request as it was.
LEMMA SubmitStartStep ==
  ASSUME SinglePod, IInv, TypeOK', NEW t \in Tasks, NEW p \in Pods, NEW r \in Requests,
         SubmitStart(t, p, r)
  PROVE  IInv'
<1> USE DefaultsType, GatewayAssumption
    DEF IInv, TypeOK, Stored, Statuses, Verdicts, Points, store, outputs, budget, frame,
        Free, Goto, Take, Release, Gauge, Audit, Publish, Locked, Ruling, Expiring,
        Sweeping, Submitting, SinglePod, SubmitStart
<1>1. LockInv' BY DEF LockInv
<1>2. VerdictInv' BY DEF VerdictInv
<1>3. BatchInv' BY DEF BatchInv
<1>4. QueueConsistent' BY DEF QueueConsistent
<1>5. SubmitInv' BY DEF SubmitInv, Untouched, Ruled, Late, Seen
<1>6. RuledInv' BY DEF RuledInv, Ruled, Late, Seen
<1>7. LateInv' BY DEF LateInv, Ruled, Late, Seen, SubmitInv, Untouched
<1>8. SaveInv' BY DEF SaveInv, Ruled, Late, Seen
<1>9. CountInv' BY DEF CountInv
<1>10. QED BY <1>1, <1>2, <1>3, <1>4, <1>5, <1>6, <1>7, <1>8, <1>9

\* A refused submission touches no request.
LEMMA SubmitRefuseStep ==
  ASSUME SinglePod, IInv, TypeOK', NEW t \in Tasks, SubmitRefuse(t)
  PROVE  IInv'
<1> USE DefaultsType, GatewayAssumption
    DEF IInv, TypeOK, Stored, Statuses, Verdicts, Points, store, outputs, budget, frame,
        Free, Goto, Take, Release, Gauge, Audit, Publish, Locked, Ruling, Expiring,
        Sweeping, Submitting, SinglePod, SubmitRefuse, Finish
<1>1. LockInv' BY DEF LockInv
<1>2. VerdictInv' BY DEF VerdictInv
<1>3. BatchInv' BY DEF BatchInv
<1>4. QueueConsistent' BY DEF QueueConsistent
<1>5. SubmitInv' BY DEF SubmitInv, Untouched, Ruled, Late, Seen
<1>6. RuledInv' BY DEF RuledInv, Ruled, Late, Seen
<1>7. LateInv' BY DEF LateInv, Ruled, Late, Seen
<1>8. SaveInv' BY DEF SaveInv, Ruled, Late, Seen
<1>9. CountInv' BY DEF CountInv
<1>10. QED BY <1>1, <1>2, <1>3, <1>4, <1>5, <1>6, <1>7, <1>8, <1>9

\* Counting takes the lock and changes no request.
LEMMA SubmitCountStep ==
  ASSUME SinglePod, IInv, TypeOK', NEW t \in Tasks, SubmitCount(t)
  PROVE  IInv'
<1> USE DefaultsType, GatewayAssumption
    DEF IInv, TypeOK, Stored, Statuses, Verdicts, Points, store, outputs, budget, frame,
        Free, Goto, Take, Release, Gauge, Audit, Publish, Locked, Ruling, Expiring,
        Sweeping, Submitting, SinglePod, SubmitCount
<1>1. LockInv' BY DEF LockInv
<1>2. VerdictInv' BY DEF VerdictInv
<1>3. BatchInv' BY DEF BatchInv
<1>4. QueueConsistent' BY DEF QueueConsistent
<1>5. SubmitInv' BY DEF SubmitInv, Untouched, Ruled, Late, Seen
<1>6. RuledInv' BY DEF RuledInv, Ruled, Late, Seen
<1>7. LateInv' BY DEF LateInv, Ruled, Late, Seen
<1>8. SaveInv' BY DEF SaveInv, Ruled, Late, Seen
<1>9. CountInv' BY DEF CountInv
<1>10. QED BY <1>1, <1>2, <1>3, <1>4, <1>5, <1>6, <1>7, <1>8, <1>9

\* Only an untouched request becomes pending.
LEMMA SubmitSaveStep ==
  ASSUME SinglePod, IInv, TypeOK', NEW t \in Tasks, SubmitSave(t)
  PROVE  IInv'
<1> USE DefaultsType, GatewayAssumption
    DEF IInv, TypeOK, Stored, Statuses, Verdicts, Points, store, outputs, budget, frame,
        Free, Goto, Take, Release, Gauge, Audit, Publish, Locked, Ruling, Expiring,
        Sweeping, Submitting, SinglePod, SubmitSave, Save
<1>1. LockInv' BY DEF LockInv
<1>2. VerdictInv' BY DEF VerdictInv
<1>3. BatchInv' BY DEF BatchInv
<1>4. QueueConsistent' BY DEF QueueConsistent, SubmitInv, Untouched
<1>5. SubmitInv' BY DEF SubmitInv, Untouched, Ruled, Late, Seen
<1>6. RuledInv' BY DEF RuledInv, Ruled, Late, Seen, SubmitInv, Untouched
<1>7. LateInv' BY DEF LateInv, Ruled, Late, Seen
<1>8. SaveInv' BY DEF SaveInv, Ruled, Late, Seen
<1>9. CountInv' BY DEF CountInv
<1>10. QED BY <1>1, <1>2, <1>3, <1>4, <1>5, <1>6, <1>7, <1>8, <1>9

\* The record of a submission is no outcome.
LEMMA SubmitAuditStep ==
  ASSUME SinglePod, IInv, TypeOK', NEW t \in Tasks, SubmitAudit(t)
  PROVE  IInv'
<1> USE DefaultsType, GatewayAssumption
    DEF IInv, TypeOK, Stored, Statuses, Verdicts, Points, store, outputs, budget, frame,
        Free, Goto, Take, Release, Gauge, Audit, Publish, Locked, Ruling, Expiring,
        Sweeping, Submitting, SinglePod, SubmitAudit
<1>1. LockInv' BY DEF LockInv
<1>2. VerdictInv' BY DEF VerdictInv
<1>3. BatchInv' BY DEF BatchInv
<1>4. QueueConsistent' BY DEF QueueConsistent
<1>5. SubmitInv' BY DEF SubmitInv, Untouched, Ruled, Late, Seen
<1>6. RuledInv' BY DEF RuledInv, Ruled, Late, Seen
<1>7. LateInv' BY DEF LateInv, Ruled, Late, Seen
<1>8. SaveInv' BY DEF SaveInv, Ruled, Late, Seen
<1>9. CountInv' BY DEF CountInv
<1>10. QED BY <1>1, <1>2, <1>3, <1>4, <1>5, <1>6, <1>7, <1>8, <1>9

\* The submitter is handed a status the store shows.
LEMMA SubmitPublishStep ==
  ASSUME SinglePod, IInv, TypeOK', NEW t \in Tasks, SubmitPublish(t)
  PROVE  IInv'
<1> USE DefaultsType, GatewayAssumption
    DEF IInv, TypeOK, Stored, Statuses, Verdicts, Points, store, outputs, budget, frame,
        Free, Goto, Take, Release, Gauge, Audit, Publish, Locked, Ruling, Expiring,
        Sweeping, Submitting, SinglePod, SubmitPublish, Finish, Visible
<1>1. LockInv' BY DEF LockInv
<1>2. VerdictInv' BY DEF VerdictInv
<1>3. BatchInv' BY DEF BatchInv
<1>4. QueueConsistent' BY DEF QueueConsistent
<1>5. SubmitInv' BY DEF SubmitInv, Untouched, Ruled, Late, Seen
<1>6. RuledInv' BY DEF RuledInv, Ruled, Late, Seen
<1>7. LateInv' BY DEF LateInv, Ruled, Late, Seen
<1>8. SaveInv' BY DEF SaveInv, Ruled, Late, Seen
<1>9. CountInv' BY DEF CountInv
<1>10. QED BY <1>1, <1>2, <1>3, <1>4, <1>5, <1>6, <1>7, <1>8, <1>9

\* Only a pending request past its deadline is marked expired.
LEMMA DecideLateStep ==
  ASSUME SinglePod, IInv, TypeOK', NEW t \in Tasks, NEW p \in Pods, NEW r \in Requests,
         DecideLate(t, p, r)
  PROVE  IInv'
<1> USE DefaultsType, GatewayAssumption
    DEF IInv, TypeOK, Stored, Statuses, Verdicts, Points, store, outputs, budget, frame,
        Free, Goto, Take, Release, Gauge, Audit, Publish, Locked, Ruling, Expiring,
        Sweeping, Submitting, SinglePod, DecideLate, MarkExpired
<1>1. LockInv' BY DEF LockInv
<1>2. VerdictInv' BY DEF VerdictInv
<1>3. BatchInv' BY DEF BatchInv
<1>4. QueueConsistent' BY DEF QueueConsistent
<1>5. SubmitInv' BY DEF SubmitInv, Untouched, Ruled, Late, Seen
<1>6. RuledInv' BY DEF RuledInv, Ruled, Late, Seen
<1>7. LateInv' BY DEF LateInv, Ruled, Late, Seen
<1>8. SaveInv' BY DEF SaveInv, Ruled, Late, Seen, LockInv
<1>9. CountInv' BY DEF CountInv
<1>10. QED BY <1>1, <1>2, <1>3, <1>4, <1>5, <1>6, <1>7, <1>8, <1>9

\* A verdict is accepted while the request is pending and in time.
LEMMA DecideAcceptStep ==
  ASSUME SinglePod, IInv, TypeOK', NEW t \in Tasks, NEW p \in Pods, NEW r \in Requests,
         NEW v \in Verdicts, DecideAccept(t, p, r, v)
  PROVE  IInv'
<1> USE DefaultsType, GatewayAssumption
    DEF IInv, TypeOK, Stored, Statuses, Verdicts, Points, store, outputs, budget, frame,
        Free, Goto, Take, Release, Gauge, Audit, Publish, Locked, Ruling, Expiring,
        Sweeping, Submitting, SinglePod, DecideAccept
<1>1. LockInv' BY DEF LockInv
<1>2. VerdictInv' BY DEF VerdictInv
<1>3. BatchInv' BY DEF BatchInv
<1>4. QueueConsistent' BY DEF QueueConsistent
<1>5. SubmitInv' BY DEF SubmitInv, Untouched, Ruled, Late, Seen
<1>6. RuledInv' BY DEF RuledInv, Ruled, Late, Seen
<1>7. LateInv' BY DEF LateInv, Ruled, Late, Seen
<1>8. SaveInv' BY DEF SaveInv, Ruled, Late, Seen, LateInv
<1>9. CountInv' BY DEF CountInv
<1>10. QED BY <1>1, <1>2, <1>3, <1>4, <1>5, <1>6, <1>7, <1>8, <1>9

\* The verdict is saved over a pending request, under the lock.
LEMMA DecideSaveStep ==
  ASSUME SinglePod, IInv, TypeOK', NEW t \in Tasks, DecideSave(t)
  PROVE  IInv'
<1> USE DefaultsType, GatewayAssumption
    DEF IInv, TypeOK, Stored, Statuses, Verdicts, Points, store, outputs, budget, frame,
        Free, Goto, Take, Release, Gauge, Audit, Publish, Locked, Ruling, Expiring,
        Sweeping, Submitting, SinglePod, DecideSave, Save
<1>1. LockInv' BY DEF LockInv
<1>2. VerdictInv' BY DEF VerdictInv
<1>3. BatchInv' BY DEF BatchInv
<1>4. QueueConsistent' BY DEF QueueConsistent, SaveInv
<1>5. SubmitInv' BY DEF SubmitInv, Untouched, Ruled, Late, Seen, SaveInv
<1>6. RuledInv' BY DEF RuledInv, Ruled, Late, Seen, SaveInv
<1>7. LateInv'
  <2>1. verdict[t] \in {"APPROVED", "REJECTED"}
    BY DEF VerdictInv
  <2>2. \A r \in Requests : Late(r)' => Late(r)
    BY <2>1 DEF Late, Seen
  <2>3. QED
    BY <2>2 DEF LateInv
<1>8. SaveInv' BY DEF SaveInv, Ruled, Late, Seen, LockInv
<1>9. CountInv' BY DEF CountInv, SaveInv, RuledInv, VerdictInv, Ruled, Late, Seen
<1>10. QED BY <1>1, <1>2, <1>3, <1>4, <1>5, <1>6, <1>7, <1>8, <1>9

\* Archiving moves the verdict that was saved.
LEMMA DecideArchiveStep ==
  ASSUME SinglePod, IInv, TypeOK', NEW t \in Tasks, DecideArchive(t)
  PROVE  IInv'
<1> USE DefaultsType, GatewayAssumption
    DEF IInv, TypeOK, Stored, Statuses, Verdicts, Points, store, outputs, budget, frame,
        Free, Goto, Take, Release, Gauge, Audit, Publish, Locked, Ruling, Expiring,
        Sweeping, Submitting, SinglePod, DecideArchive, Archive
<1>1. LockInv' BY DEF LockInv
<1>2. VerdictInv' BY DEF VerdictInv
<1>3. BatchInv' BY DEF BatchInv
<1>4. QueueConsistent' BY DEF QueueConsistent
<1>5. SubmitInv' BY DEF SubmitInv, Untouched, Ruled, Late, Seen, VerdictInv
<1>6. RuledInv' BY DEF RuledInv, Ruled, Late, Seen, VerdictInv
<1>7. LateInv' BY DEF LateInv, Ruled, Late, Seen, VerdictInv
<1>8. SaveInv' BY DEF SaveInv, Ruled, Late, Seen, LockInv
<1>9. CountInv' BY DEF CountInv
<1>10. QED BY <1>1, <1>2, <1>3, <1>4, <1>5, <1>6, <1>7, <1>8, <1>9

\* The one reporting task counts the decision.
LEMMA DecideAuditStep ==
  ASSUME SinglePod, IInv, TypeOK', NEW t \in Tasks, DecideAudit(t)
  PROVE  IInv'
<1> USE DefaultsType, GatewayAssumption
    DEF IInv, TypeOK, Stored, Statuses, Verdicts, Points, store, outputs, budget, frame,
        Free, Goto, Take, Release, Gauge, Audit, Publish, Locked, Ruling, Expiring,
        Sweeping, Submitting, SinglePod, DecideAudit
<1>1. LockInv' BY DEF LockInv
<1>2. VerdictInv' BY DEF VerdictInv
<1>3. BatchInv' BY DEF BatchInv
<1>4. QueueConsistent' BY DEF QueueConsistent
<1>5. SubmitInv' BY DEF SubmitInv, Untouched, Ruled, Late, Seen, VerdictInv
<1>6. RuledInv' BY DEF RuledInv, Ruled, Late, Seen, VerdictInv
<1>7. LateInv' BY DEF LateInv, Ruled, Late, Seen, VerdictInv
<1>8. SaveInv' BY DEF SaveInv, Ruled, Late, Seen, VerdictInv
<1>9. CountInv' BY DEF CountInv
<1>10. QED BY <1>1, <1>2, <1>3, <1>4, <1>5, <1>6, <1>7, <1>8, <1>9

\* The event carries the verdict already recorded.
LEMMA DecidePublishStep ==
  ASSUME SinglePod, IInv, TypeOK', NEW t \in Tasks, DecidePublish(t)
  PROVE  IInv'
<1> USE DefaultsType, GatewayAssumption
    DEF IInv, TypeOK, Stored, Statuses, Verdicts, Points, store, outputs, budget, frame,
        Free, Goto, Take, Release, Gauge, Audit, Publish, Locked, Ruling, Expiring,
        Sweeping, Submitting, SinglePod, DecidePublish, Finish
<1>1. LockInv' BY DEF LockInv
<1>2. VerdictInv' BY DEF VerdictInv
<1>3. BatchInv' BY DEF BatchInv
<1>4. QueueConsistent' BY DEF QueueConsistent
<1>5. SubmitInv' BY DEF SubmitInv, Untouched, Ruled, Late, Seen, VerdictInv
<1>6. RuledInv' BY DEF RuledInv, Ruled, Late, Seen, VerdictInv
<1>7. LateInv' BY DEF LateInv, Ruled, Late, Seen, VerdictInv
<1>8. SaveInv' BY DEF SaveInv, Ruled, Late, Seen, VerdictInv
<1>9. CountInv' BY DEF CountInv
<1>10. QED BY <1>1, <1>2, <1>3, <1>4, <1>5, <1>6, <1>7, <1>8, <1>9

\* An expired request is archived as such.
LEMMA LateArchiveStep ==
  ASSUME SinglePod, IInv, TypeOK', NEW t \in Tasks, LateArchive(t)
  PROVE  IInv'
<1> USE DefaultsType, GatewayAssumption
    DEF IInv, TypeOK, Stored, Statuses, Verdicts, Points, store, outputs, budget, frame,
        Free, Goto, Take, Release, Gauge, Audit, Publish, Locked, Ruling, Expiring,
        Sweeping, Submitting, SinglePod, LateArchive, Archive
<1>1. LockInv' BY DEF LockInv
<1>2. VerdictInv' BY DEF VerdictInv
<1>3. BatchInv' BY DEF BatchInv
<1>4. QueueConsistent' BY DEF QueueConsistent
<1>5. SubmitInv' BY DEF SubmitInv, Untouched, Ruled, Late, Seen
<1>6. RuledInv' BY DEF RuledInv, Ruled, Late, Seen, VerdictInv
<1>7. LateInv' BY DEF LateInv, Ruled, Late, Seen
<1>8. SaveInv' BY DEF SaveInv, Ruled, Late, Seen
<1>9. CountInv' BY DEF CountInv
<1>10. QED BY <1>1, <1>2, <1>3, <1>4, <1>5, <1>6, <1>7, <1>8, <1>9

\* The record of a late decision is EXPIRED.
LEMMA LateAuditStep ==
  ASSUME SinglePod, IInv, TypeOK', NEW t \in Tasks, LateAudit(t)
  PROVE  IInv'
<1> USE DefaultsType, GatewayAssumption
    DEF IInv, TypeOK, Stored, Statuses, Verdicts, Points, store, outputs, budget, frame,
        Free, Goto, Take, Release, Gauge, Audit, Publish, Locked, Ruling, Expiring,
        Sweeping, Submitting, SinglePod, LateAudit
<1>1. LockInv' BY DEF LockInv
<1>2. VerdictInv' BY DEF VerdictInv
<1>3. BatchInv' BY DEF BatchInv
<1>4. QueueConsistent' BY DEF QueueConsistent
<1>5. SubmitInv' BY DEF SubmitInv, Untouched, Ruled, Late, Seen
<1>6. RuledInv' BY DEF RuledInv, Ruled, Late, Seen
<1>7. LateInv' BY DEF LateInv, Ruled, Late, Seen
<1>8. SaveInv' BY DEF SaveInv, Ruled, Late, Seen
<1>9. CountInv' BY DEF CountInv
<1>10. QED BY <1>1, <1>2, <1>3, <1>4, <1>5, <1>6, <1>7, <1>8, <1>9

\* The event of a late decision is EXPIRED.
LEMMA LatePublishStep ==
  ASSUME SinglePod, IInv, TypeOK', NEW t \in Tasks, LatePublish(t)
  PROVE  IInv'
<1> USE DefaultsType, GatewayAssumption
    DEF IInv, TypeOK, Stored, Statuses, Verdicts, Points, store, outputs, budget, frame,
        Free, Goto, Take, Release, Gauge, Audit, Publish, Locked, Ruling, Expiring,
        Sweeping, Submitting, SinglePod, LatePublish, Finish
<1>1. LockInv' BY DEF LockInv
<1>2. VerdictInv' BY DEF VerdictInv
<1>3. BatchInv' BY DEF BatchInv
<1>4. QueueConsistent' BY DEF QueueConsistent
<1>5. SubmitInv' BY DEF SubmitInv, Untouched, Ruled, Late, Seen
<1>6. RuledInv' BY DEF RuledInv, Ruled, Late, Seen
<1>7. LateInv' BY DEF LateInv, Ruled, Late, Seen
<1>8. SaveInv' BY DEF SaveInv, Ruled, Late, Seen
<1>9. CountInv' BY DEF CountInv
<1>10. QED BY <1>1, <1>2, <1>3, <1>4, <1>5, <1>6, <1>7, <1>8, <1>9

\* A sweep takes the members whose deadline is past.
LEMMA SweepStartStep ==
  ASSUME SinglePod, IInv, TypeOK', NEW t \in Tasks, NEW p \in Pods, SweepStart(t, p)
  PROVE  IInv'
<1> USE DefaultsType, GatewayAssumption
    DEF IInv, TypeOK, Stored, Statuses, Verdicts, Points, store, outputs, budget, frame,
        Free, Goto, Take, Release, Gauge, Audit, Publish, Locked, Ruling, Expiring,
        Sweeping, Submitting, SinglePod, SweepStart
<1>1. LockInv' BY DEF LockInv
<1>2. VerdictInv' BY DEF VerdictInv
<1>3. BatchInv'
  BY DEF BatchInv, LockInv, VerdictInv, QueueConsistent, SubmitInv, RuledInv, LateInv,
         SaveInv, CountInv, Untouched, Ruled, Late, Seen
<1>4. QueueConsistent' BY DEF QueueConsistent
<1>5. SubmitInv' BY DEF SubmitInv, Untouched, Ruled, Late, Seen
<1>6. RuledInv' BY DEF RuledInv, Ruled, Late, Seen
<1>7. LateInv' BY DEF LateInv, Ruled, Late, Seen
<1>8. SaveInv' BY DEF SaveInv, Ruled, Late, Seen
<1>9. CountInv' BY DEF CountInv
<1>10. QED BY <1>1, <1>2, <1>3, <1>4, <1>5, <1>6, <1>7, <1>8, <1>9

\* Of these it keeps the pending ones, under the lock.
LEMMA SweepSelectStep ==
  ASSUME SinglePod, IInv, TypeOK', NEW t \in Tasks, SweepSelect(t)
  PROVE  IInv'
<1> USE DefaultsType, GatewayAssumption
    DEF IInv, TypeOK, Stored, Statuses, Verdicts, Points, store, outputs, budget, frame,
        Free, Goto, Take, Release, Gauge, Audit, Publish, Locked, Ruling, Expiring,
        Sweeping, Submitting, SinglePod, SweepSelect
<1>1. LockInv' BY DEF LockInv
<1>2. VerdictInv' BY DEF VerdictInv
<1>3. BatchInv' BY DEF BatchInv
<1>4. QueueConsistent' BY DEF QueueConsistent
<1>5. SubmitInv' BY DEF SubmitInv, Untouched, Ruled, Late, Seen
<1>6. RuledInv' BY DEF RuledInv, Ruled, Late, Seen
<1>7. LateInv' BY DEF LateInv, Ruled, Late, Seen, BatchInv
<1>8. SaveInv' BY DEF SaveInv, Ruled, Late, Seen, LockInv
<1>9. CountInv' BY DEF CountInv
<1>10. QED BY <1>1, <1>2, <1>3, <1>4, <1>5, <1>6, <1>7, <1>8, <1>9

\* A selected request expires.
LEMMA SweepMarkStep ==
  ASSUME SinglePod, IInv, TypeOK', NEW t \in Tasks, NEW r \in Requests, SweepMark(t, r)
  PROVE  IInv'
<1> USE DefaultsType, GatewayAssumption
    DEF IInv, TypeOK, Stored, Statuses, Verdicts, Points, store, outputs, budget, frame,
        Free, Goto, Take, Release, Gauge, Audit, Publish, Locked, Ruling, Expiring,
        Sweeping, Submitting, SinglePod, SweepMark, MarkExpired
<1>1. LockInv' BY DEF LockInv
<1>2. VerdictInv' BY DEF VerdictInv
<1>3. BatchInv' BY DEF BatchInv
<1>4. QueueConsistent' BY DEF QueueConsistent
<1>5. SubmitInv' BY DEF SubmitInv, Untouched, Ruled, Late, Seen
<1>6. RuledInv' BY DEF RuledInv, Ruled, Late, Seen
<1>7. LateInv' BY DEF LateInv, Ruled, Late, Seen
<1>8. SaveInv' BY DEF SaveInv, Ruled, Late, Seen
<1>9. CountInv' BY DEF CountInv
<1>10. QED BY <1>1, <1>2, <1>3, <1>4, <1>5, <1>6, <1>7, <1>8, <1>9

\* The record of a swept request is EXPIRED.
LEMMA SweepAuditStep ==
  ASSUME SinglePod, IInv, TypeOK', NEW t \in Tasks, SweepAudit(t)
  PROVE  IInv'
<1> USE DefaultsType, GatewayAssumption
    DEF IInv, TypeOK, Stored, Statuses, Verdicts, Points, store, outputs, budget, frame,
        Free, Goto, Take, Release, Gauge, Audit, Publish, Locked, Ruling, Expiring,
        Sweeping, Submitting, SinglePod, SweepAudit
<1>1. LockInv' BY DEF LockInv
<1>2. VerdictInv' BY DEF VerdictInv
<1>3. BatchInv' BY DEF BatchInv
<1>4. QueueConsistent' BY DEF QueueConsistent
<1>5. SubmitInv' BY DEF SubmitInv, Untouched, Ruled, Late, Seen
<1>6. RuledInv' BY DEF RuledInv, Ruled, Late, Seen
<1>7. LateInv' BY DEF LateInv, Ruled, Late, Seen
<1>8. SaveInv' BY DEF SaveInv, Ruled, Late, Seen
<1>9. CountInv' BY DEF CountInv
<1>10. QED BY <1>1, <1>2, <1>3, <1>4, <1>5, <1>6, <1>7, <1>8, <1>9

\* The event of a swept request is EXPIRED.
LEMMA SweepPublishStep ==
  ASSUME SinglePod, IInv, TypeOK', NEW t \in Tasks, SweepPublish(t)
  PROVE  IInv'
<1> USE DefaultsType, GatewayAssumption
    DEF IInv, TypeOK, Stored, Statuses, Verdicts, Points, store, outputs, budget, frame,
        Free, Goto, Take, Release, Gauge, Audit, Publish, Locked, Ruling, Expiring,
        Sweeping, Submitting, SinglePod, SweepPublish
<1>1. LockInv' BY DEF LockInv
<1>2. VerdictInv' BY DEF VerdictInv
<1>3. BatchInv' BY DEF BatchInv
<1>4. QueueConsistent' BY DEF QueueConsistent
<1>5. SubmitInv' BY DEF SubmitInv, Untouched, Ruled, Late, Seen
<1>6. RuledInv' BY DEF RuledInv, Ruled, Late, Seen
<1>7. LateInv' BY DEF LateInv, Ruled, Late, Seen
<1>8. SaveInv' BY DEF SaveInv, Ruled, Late, Seen
<1>9. CountInv' BY DEF CountInv
<1>10. QED BY <1>1, <1>2, <1>3, <1>4, <1>5, <1>6, <1>7, <1>8, <1>9

\* A swept request is archived as EXPIRED.
LEMMA SweepArchiveStep ==
  ASSUME SinglePod, IInv, TypeOK', NEW t \in Tasks, SweepArchive(t)
  PROVE  IInv'
<1> USE DefaultsType, GatewayAssumption
    DEF IInv, TypeOK, Stored, Statuses, Verdicts, Points, store, outputs, budget, frame,
        Free, Goto, Take, Release, Gauge, Audit, Publish, Locked, Ruling, Expiring,
        Sweeping, Submitting, SinglePod, SweepArchive, Archive
<1>1. LockInv' BY DEF LockInv
<1>2. VerdictInv' BY DEF VerdictInv
<1>3. BatchInv' BY DEF BatchInv
<1>4. QueueConsistent' BY DEF QueueConsistent
<1>5. SubmitInv' BY DEF SubmitInv, Untouched, Ruled, Late, Seen
<1>6. RuledInv' BY DEF RuledInv, Ruled, Late, Seen, VerdictInv
<1>7. LateInv' BY DEF LateInv, Ruled, Late, Seen
<1>8. SaveInv' BY DEF SaveInv, Ruled, Late, Seen
<1>9. CountInv' BY DEF CountInv
<1>10. QED BY <1>1, <1>2, <1>3, <1>4, <1>5, <1>6, <1>7, <1>8, <1>9

\* A sweep ends with no candidates left.
LEMMA SweepReturnStep ==
  ASSUME SinglePod, IInv, TypeOK', NEW t \in Tasks, SweepReturn(t)
  PROVE  IInv'
<1> USE DefaultsType, GatewayAssumption
    DEF IInv, TypeOK, Stored, Statuses, Verdicts, Points, store, outputs, budget, frame,
        Free, Goto, Take, Release, Gauge, Audit, Publish, Locked, Ruling, Expiring,
        Sweeping, Submitting, SinglePod, SweepReturn, Finish
<1>1. LockInv' BY DEF LockInv
<1>2. VerdictInv' BY DEF VerdictInv
<1>3. BatchInv' BY DEF BatchInv
<1>4. QueueConsistent' BY DEF QueueConsistent
<1>5. SubmitInv' BY DEF SubmitInv, Untouched, Ruled, Late, Seen
<1>6. RuledInv' BY DEF RuledInv, Ruled, Late, Seen
<1>7. LateInv' BY DEF LateInv, Ruled, Late, Seen
<1>8. SaveInv' BY DEF SaveInv, Ruled, Late, Seen
<1>9. CountInv' BY DEF CountInv
<1>10. QED BY <1>1, <1>2, <1>3, <1>4, <1>5, <1>6, <1>7, <1>8, <1>9

\* Time only makes more deadlines pass.
LEMMA TickStep ==
  ASSUME SinglePod, IInv, TypeOK', Tick
  PROVE  IInv'
<1> USE DefaultsType, GatewayAssumption
    DEF IInv, TypeOK, Stored, Statuses, Verdicts, Points, store, outputs, budget, frame,
        Free, Goto, Take, Release, Gauge, Audit, Publish, Locked, Ruling, Expiring,
        Sweeping, Submitting, SinglePod, Tick
<1>1. LockInv' BY DEF LockInv
<1>2. VerdictInv' BY DEF VerdictInv
<1>3. BatchInv' BY DEF BatchInv
<1>4. QueueConsistent' BY DEF QueueConsistent
<1>5. SubmitInv' BY DEF SubmitInv, Untouched, Ruled, Late, Seen
<1>6. RuledInv' BY DEF RuledInv, Ruled, Late, Seen
<1>7. LateInv' BY DEF LateInv, Ruled, Late, Seen
<1>8. SaveInv' BY DEF SaveInv, Ruled, Late, Seen
<1>9. CountInv' BY DEF CountInv
<1>10. QED BY <1>1, <1>2, <1>3, <1>4, <1>5, <1>6, <1>7, <1>8, <1>9

\* A failing call leaves the store and drops the lock it held.
LEMMA FailStep ==
  ASSUME SinglePod, IInv, TypeOK', NEW t \in Tasks, Fail(t)
  PROVE  IInv'
<1> USE DefaultsType, GatewayAssumption
    DEF IInv, TypeOK, Stored, Statuses, Verdicts, Points, store, outputs, budget, frame,
        Free, Goto, Take, Release, Gauge, Audit, Publish, Locked, Ruling, Expiring,
        Sweeping, Submitting, SinglePod, Fail, Finish, Fallible
<1>1. LockInv' BY DEF LockInv
<1>2. VerdictInv' BY DEF VerdictInv
<1>3. BatchInv' BY DEF BatchInv
<1>4. QueueConsistent' BY DEF QueueConsistent
<1>5. SubmitInv' BY DEF SubmitInv, Untouched, Ruled, Late, Seen
<1>6. RuledInv' BY DEF RuledInv, Ruled, Late, Seen
<1>7. LateInv' BY DEF LateInv, Ruled, Late, Seen
<1>8. SaveInv' BY DEF SaveInv, Ruled, Late, Seen
<1>9. CountInv' BY DEF CountInv
<1>10. QED BY <1>1, <1>2, <1>3, <1>4, <1>5, <1>6, <1>7, <1>8, <1>9

\* A write whose reply is lost is the same write.
LEMMA LostReplyStep ==
  ASSUME SinglePod, IInv, TypeOK', NEW t \in Tasks, LostReply(t)
  PROVE  IInv'
<1> USE DefaultsType, GatewayAssumption
    DEF IInv, TypeOK, Stored, Statuses, Verdicts, Points, store, outputs, budget, frame,
        Free, Goto, Take, Release, Gauge, Audit, Publish, Locked, Ruling, Expiring,
        Sweeping, Submitting, SinglePod, LostReply, Finish, Save, Archive, Locking
<1>1. LockInv' BY DEF LockInv
<1>2. VerdictInv' BY DEF VerdictInv
<1>3. BatchInv' BY DEF BatchInv
<1>4. QueueConsistent'
  BY DEF QueueConsistent, LockInv, VerdictInv, BatchInv, SubmitInv, RuledInv, LateInv,
         SaveInv, CountInv, Untouched, Ruled, Late, Seen
<1>5. SubmitInv' BY DEF SubmitInv, Untouched, Ruled, Late, Seen, VerdictInv, SaveInv
<1>6. RuledInv'
  BY DEF RuledInv, Ruled, Late, Seen, LockInv, VerdictInv, BatchInv, QueueConsistent,
         SubmitInv, LateInv, SaveInv, CountInv, Untouched
<1>7. LateInv' BY DEF LateInv, Ruled, Late, Seen, VerdictInv
<1>8. SaveInv' BY DEF SaveInv, Ruled, Late, Seen, LockInv
<1>9. CountInv' BY DEF CountInv
<1>10. QED BY <1>1, <1>2, <1>3, <1>4, <1>5, <1>6, <1>7, <1>8, <1>9

\* A restart of the only pod leaves no task, no lock and, in memory, no store.
LEMMA CrashStep ==
  ASSUME SinglePod, IInv, TypeOK', NEW p \in Pods, Crash(p)
  PROVE  IInv'
<1> USE DefaultsType, GatewayAssumption
    DEF IInv, TypeOK, Stored, Statuses, Verdicts, Points, store, outputs, budget, frame,
        Free, Goto, Take, Release, Gauge, Audit, Publish, Locked, Ruling, Expiring,
        Sweeping, Submitting, SinglePod, Crash
<1>1. LockInv' BY DEF LockInv
<1>2. VerdictInv' BY DEF VerdictInv
<1>3. BatchInv' BY DEF BatchInv
<1>4. QueueConsistent' BY DEF QueueConsistent
<1>5. SubmitInv' BY DEF SubmitInv, Untouched, Ruled, Late, Seen
<1>6. RuledInv' BY DEF RuledInv, Ruled, Late, Seen
<1>7. LateInv' BY DEF LateInv, Ruled, Late, Seen
<1>8. SaveInv' BY DEF SaveInv
<1>9. CountInv' BY DEF CountInv
<1>10. QED BY <1>1, <1>2, <1>3, <1>4, <1>5, <1>6, <1>7, <1>8, <1>9

\* A key that Redis drops belongs to a request no task works on.
LEMMA KeyExpiresStep ==
  ASSUME SinglePod, IInv, TypeOK', NEW r \in Requests, KeyExpires(r)
  PROVE  IInv'
<1> USE DefaultsType, GatewayAssumption
    DEF IInv, TypeOK, Stored, Statuses, Verdicts, Points, store, outputs, budget, frame,
        Free, Goto, Take, Release, Gauge, Audit, Publish, Locked, Ruling, Expiring,
        Sweeping, Submitting, SinglePod, KeyExpires
<1>1. LockInv' BY DEF LockInv
<1>2. VerdictInv' BY DEF VerdictInv
<1>3. BatchInv' BY DEF BatchInv
<1>4. QueueConsistent' BY DEF QueueConsistent
<1>5. SubmitInv' BY DEF SubmitInv, Untouched, Ruled, Late, Seen
<1>6. RuledInv' BY DEF RuledInv, Ruled, Late, Seen
<1>7. LateInv' BY DEF LateInv, Ruled, Late, Seen
<1>8. SaveInv' BY DEF SaveInv, Ruled, Late, Seen
<1>9. CountInv' BY DEF CountInv
<1>10. QED BY <1>1, <1>2, <1>3, <1>4, <1>5, <1>6, <1>7, <1>8, <1>9

--------------------------------------------------------------------------------
(* The theorems *)

\* Initially no request is known to anybody.
LEMMA InitInv == Init => IInv
<1> SUFFICES ASSUME Init PROVE IInv
  OBVIOUS
<1> USE DEF Init, Ruling, Expiring, Sweeping, Submitting
<1>1. TypeOK
  BY InitType
<1>2. \A r \in Requests : Untouched(r)
  BY DEF Untouched, Late, Ruled, Seen, Verdicts
<1>3. LockInv /\ VerdictInv /\ BatchInv /\ QueueConsistent /\ SaveInv
  BY DEF LockInv, Locked, VerdictInv, BatchInv, QueueConsistent, SaveInv
<1>4. SubmitInv
  BY <1>2 DEF SubmitInv
<1>5. RuledInv /\ LateInv
  BY <1>2 DEF RuledInv, LateInv, Untouched
<1>6. CountInv
  BY DEF CountInv
<1>7. QED
  BY <1>1, <1>3, <1>4, <1>5, <1>6 DEF IInv

\* No step of a pod that runs alone breaks the invariant.
LEMMA NextInv == SinglePod /\ IInv /\ [Next]_vars => IInv'
<1> SUFFICES ASSUME SinglePod, IInv, [Next]_vars PROVE IInv'
  OBVIOUS
<1>1. TypeOK'
  BY NextType DEF IInv
<1>2. CASE UNCHANGED vars
  <2> USE <1>2 DEF vars, store, outputs, budget, frame, IInv
  <2>1. LockInv' /\ VerdictInv' /\ BatchInv' /\ QueueConsistent'
    BY DEF LockInv, VerdictInv, BatchInv, QueueConsistent
  <2>2. \A r \in Requests : Late(r)' <=> Late(r)
    BY DEF Late, Seen
  <2>3. \A r \in Requests, v \in Verdicts : Ruled(r, v)' <=> Ruled(r, v)
    BY DEF Ruled, Seen
  <2>4. \A r \in Requests : Untouched(r)' <=> Untouched(r)
    BY <2>2, <2>3 DEF Untouched
  <2>5. SubmitInv'
    BY <2>4 DEF SubmitInv, TypeOK
  <2>6. RuledInv' /\ LateInv'
    BY <2>2, <2>3 DEF RuledInv, LateInv
  <2>7. SaveInv' /\ CountInv'
    BY <2>2 DEF SaveInv, CountInv, TypeOK
  <2>8. QED
    BY <1>1, <2>1, <2>5, <2>6, <2>7
<1>3. ASSUME NEW t \in Tasks, Start(t) PROVE IInv'
  BY <1>1, <1>3, SubmitStartStep, DecideLateStep, DecideAcceptStep, SweepStartStep,
     GatewayAssumption
  DEF Start
<1>4. ASSUME NEW t \in Tasks, Resume(t) PROVE IInv'
  BY <1>1, <1>4, SubmitRefuseStep, SubmitCountStep, SubmitSaveStep, SubmitAuditStep,
                 SubmitPublishStep, DecideSaveStep, DecideArchiveStep, DecideAuditStep,
                 DecidePublishStep, LateArchiveStep, LateAuditStep, LatePublishStep,
                 SweepSelectStep, SweepMarkStep, SweepAuditStep, SweepPublishStep,
                 SweepArchiveStep, SweepReturnStep
  DEF Resume
<1>5. QED
  BY <1>1, <1>2, <1>3, <1>4, TickStep, FailStep, LostReplyStep, CrashStep,
     KeyExpiresStep
  DEF Next

\* What the invariant says of the outcomes anybody was told.
LEMMA InvOneOutcome == IInv => OneOutcome
<1> SUFFICES ASSUME IInv, NEW r \in Requests
             PROVE  (\A x, y \in Seen(r) : x = y) /\ decisions[r] <= 1
  BY DEF OneOutcome
<1>1. ASSUME NEW x \in Seen(r), NEW y \in Seen(r) PROVE x = y
  <2>1. x \in Verdicts => Ruled(r, x)
    BY DEF Ruled
  <2>2. y \in Verdicts => Ruled(r, y)
    BY DEF Ruled
  <2>3. "EXPIRED" \in Seen(r) => Late(r)
    BY DEF Late
  <2>4. x \in Verdicts \cup {"EXPIRED"} /\ y \in Verdicts \cup {"EXPIRED"}
    BY DEF Seen
  <2>5. QED
    BY <2>1, <2>2, <2>3, <2>4 DEF IInv, RuledInv
<1>2. decisions[r] <= 1
  BY DEF IInv, CountInv
<1>3. QED
  BY <1>1, <1>2

\* The gateway of a single pod keeps the invariant for any number of requests and
\* concurrent operations, whatever the capacity, the timeouts and the faults are.
THEOREM InvCorrect == ASSUME SinglePod PROVE Spec => []IInv
  BY SinglePod, InitInv, NextInv, PTL DEF Spec

\* On one pod no request is told two outcomes by the store, the submitter, the
\* audit log or the broker, and none is counted twice as decided.
THEOREM OneOutcomePerRequest == ASSUME SinglePod PROVE Spec => []OneOutcome
  BY SinglePod, InvCorrect, InvOneOutcome, PTL

\* On one pod an archived request has left the queue and the live keys for good,
\* and every live request is in the queue.
THEOREM QueueStaysConsistent == ASSUME SinglePod PROVE Spec => []QueueConsistent
<1>1. IInv => QueueConsistent
  BY DEF IInv
<1>2. QED
  BY SinglePod, InvCorrect, <1>1, PTL

--------------------------------------------------------------------------------
(* While nothing fails, every archived outcome is logged *)

\* A task on its way to the audit log with the outcome it has archived.
Logging(t, r) ==
  pc[t] \in {"decide_audit", "late_audit"} /\ req[t] = r /\ verdict[t] = archive[r]

\* The sweep writes its record first, the others archive first.
LogInv ==
  faults = 0 /\ crashes = 0 =>
    /\ \A r \in Requests :
         archive[r] # "ABSENT" => archive[r] \in audit[r] \/ \E t \in Tasks : Logging(t, r)
    /\ \A r \in Requests : archive[r] # "PENDING"
    /\ \A t \in Tasks : pc[t] \in {"sweep_publish", "sweep_archive"} => "EXPIRED" \in audit[req[t]]

\* A step that archives nothing, and takes nobody away from the audit log or to the
\* archive of a sweep.
LEMMA LogKept ==
  ASSUME TypeOK, LogInv, archive' = archive,
         faults' \in Nat, crashes' \in Nat,
         faults' = 0 /\ crashes' = 0 => faults = 0 /\ crashes = 0,
         \A r \in Requests : audit[r] \subseteq audit'[r],
         \A t \in Tasks :
           pc[t] \in {"decide_audit", "late_audit"} =>
             pc'[t] = pc[t] /\ req'[t] = req[t] /\ verdict'[t] = verdict[t],
         \A t \in Tasks :
           pc'[t] \in {"sweep_publish", "sweep_archive"} =>
             pc[t] \in {"sweep_publish", "sweep_archive"} /\ req'[t] = req[t]
  PROVE  LogInv'
<1> SUFFICES ASSUME faults' = 0, crashes' = 0
             PROVE  /\ \A r \in Requests :
                         archive'[r] # "ABSENT" =>
                           archive'[r] \in audit'[r] \/ \E t \in Tasks : Logging(t, r)'
                    /\ \A r \in Requests : archive'[r] # "PENDING"
                    /\ \A t \in Tasks : pc'[t] \in {"sweep_publish", "sweep_archive"}
                                          => "EXPIRED" \in audit'[req'[t]]
  BY DEF LogInv
<1>1. faults = 0 /\ crashes = 0
  OBVIOUS
<1>2. ASSUME NEW r \in Requests, archive'[r] # "ABSENT"
      PROVE  archive'[r] \in audit'[r] \/ \E t \in Tasks : Logging(t, r)'
  <2>1. CASE archive[r] \in audit[r]
    BY <2>1
  <2>2. ASSUME NEW t \in Tasks, Logging(t, r) PROVE Logging(t, r)'
    BY <2>2 DEF Logging
  <2> QED BY <1>1, <1>2, <2>1, <2>2 DEF LogInv
<1>3. ASSUME NEW t \in Tasks, pc'[t] \in {"sweep_publish", "sweep_archive"}
      PROVE  "EXPIRED" \in audit'[req'[t]]
  BY <1>1, <1>3 DEF LogInv, TypeOK
<1> QED BY <1>1, <1>2, <1>3 DEF LogInv

\* A step that archives the outcome of a task which has logged it, or logs it next.
LEMMA LogArchive ==
  ASSUME TypeOK, LogInv, NEW t \in Tasks, Archive(t), verdict' = verdict, req' = req,
         audit' = audit, faults' = faults, crashes' = crashes,
         pc[t] \notin {"decide_audit", "late_audit"},
         NEW l \in {"decide_audit", "late_audit", "sweep_next"}, pc' = [pc EXCEPT ![t] = l],
         l = "sweep_next" => pc[t] = "sweep_archive" /\ verdict[t] = "EXPIRED",
         verdict[t] # "PENDING"
  PROVE  LogInv'
<1> SUFFICES ASSUME faults = 0, crashes = 0
             PROVE  /\ \A r \in Requests :
                         archive'[r] # "ABSENT" =>
                           archive'[r] \in audit'[r] \/ \E u \in Tasks : Logging(u, r)'
                    /\ \A r \in Requests : archive'[r] # "PENDING"
                    /\ \A u \in Tasks : pc'[u] \in {"sweep_publish", "sweep_archive"}
                                          => "EXPIRED" \in audit'[req'[u]]
  BY DEF LogInv
<1>1. /\ req[t] \in Requests /\ archive' = [archive EXCEPT ![req[t]] = verdict[t]]
      /\ archive'[req[t]] = verdict[t]
      /\ \A r \in Requests : r # req[t] => archive'[r] = archive[r]
      /\ \A u \in Tasks : pc'[u] = IF u = t THEN l ELSE pc[u]
  BY DEF Archive, TypeOK
<1>2. CASE l = "sweep_next"
  <2>1. archive'[req[t]] \in audit'[req[t]]
    BY <1>1, <1>2 DEF LogInv
  <2>2. ASSUME NEW r \in Requests, r # req[t], NEW u \in Tasks, Logging(u, r)
        PROVE  Logging(u, r)'
    BY <1>1, <2>2 DEF Logging
  <2> QED BY <1>1, <1>2, <2>1, <2>2 DEF LogInv
<1>3. CASE l # "sweep_next"
  <2>1. Logging(t, req[t])'
    BY <1>1, <1>3 DEF Logging
  <2>2. \E u \in Tasks : Logging(u, req[t])'
    BY <2>1
  <2>3. ASSUME NEW r \in Requests, r # req[t], NEW u \in Tasks, Logging(u, r)
        PROVE  Logging(u, r)'
    BY <1>1, <2>3 DEF Logging
  <2>4. \A u \in Tasks : pc'[u] \in {"sweep_publish", "sweep_archive"} => u # t
    BY <1>1, <1>3
  <2>5. \A r \in Requests : r = req[t] => \E u \in Tasks : Logging(u, r)'
    BY <2>2 DEF Logging
  <2> QED BY <1>1, <2>3, <2>4, <2>5 DEF LogInv
<1> QED BY <1>2, <1>3

\* A step that writes the audit record of the outcome its task has come to.
LEMMA LogAudited ==
  ASSUME TypeOK, LogInv, NEW t \in Tasks, Audit(t, verdict[t]), archive' = archive,
         verdict' = verdict, req' = req, faults' = faults, crashes' = crashes,
         NEW l \in {"decide_publish", "late_publish", "sweep_publish"}, pc' = [pc EXCEPT ![t] = l],
         l = "sweep_publish" => verdict[t] = "EXPIRED"
  PROVE  LogInv'
<1> SUFFICES ASSUME faults = 0, crashes = 0
             PROVE  /\ \A r \in Requests :
                         archive'[r] # "ABSENT" =>
                           archive'[r] \in audit'[r] \/ \E u \in Tasks : Logging(u, r)'
                    /\ \A r \in Requests : archive'[r] # "PENDING"
                    /\ \A u \in Tasks : pc'[u] \in {"sweep_publish", "sweep_archive"}
                                          => "EXPIRED" \in audit'[req'[u]]
  BY DEF LogInv
<1>1. /\ req[t] \in Requests /\ audit' = [audit EXCEPT ![req[t]] = @ \cup {verdict[t]}]
      /\ verdict[t] \in audit'[req[t]] /\ \A r \in Requests : audit[r] \subseteq audit'[r]
      /\ \A u \in Tasks : pc'[u] = IF u = t THEN l ELSE pc[u]
  BY DEF Audit, TypeOK
<1>2. ASSUME NEW r \in Requests, archive'[r] # "ABSENT"
      PROVE  archive'[r] \in audit'[r] \/ \E u \in Tasks : Logging(u, r)'
  <2>1. CASE archive[r] \in audit[r]
    BY <1>1, <2>1
  <2>2. ASSUME NEW u \in Tasks, Logging(u, r)
        PROVE  archive'[r] \in audit'[r] \/ Logging(u, r)'
    BY <1>1, <2>2 DEF Logging
  <2> QED BY <1>2, <2>1, <2>2 DEF LogInv
<1>3. ASSUME NEW u \in Tasks, pc'[u] \in {"sweep_publish", "sweep_archive"}
      PROVE  "EXPIRED" \in audit'[req'[u]]
  <2>1. req[u] \in Requests
    BY DEF TypeOK
  <2>2. CASE u = t
    BY <1>1, <1>3, <2>2
  <2>3. CASE u # t
    BY <1>1, <1>3, <2>1, <2>3 DEF LogInv
  <2> QED BY <2>2, <2>3
<1> QED BY <1>2, <1>3 DEF LogInv

\* A request that expires was not archived with a verdict, so marking the object the
\* in-memory store hands out changes nothing in its archive.
LEMMA MarkKeepsArchive ==
  ASSUME IInv, LogInv, NEW r \in Requests, MarkExpired(r), faults = 0, crashes = 0,
         active[r] = "PENDING" \/ Late(r)
  PROVE  archive' = archive
<1>1. archive \in [Requests -> Stored] /\ archive[r] # "PENDING"
  BY DEF IInv, TypeOK, LogInv
<1>2. CASE active[r] = "PENDING"
  <2>1. archive[r] = "ABSENT"
    BY <1>2 DEF IInv, QueueConsistent
  <2> QED BY <2>1 DEF MarkExpired, store
<1>3. CASE Late(r)
  <2>1. archive[r] \notin Verdicts
    <3> SUFFICES ASSUME archive[r] \in Verdicts PROVE FALSE
      OBVIOUS
    <3>1. Ruled(r, archive[r])
      BY DEF Ruled, Seen
    <3> QED BY <1>3, <3>1 DEF IInv, RuledInv
  <2>2. archive[r] \in {"ABSENT", "EXPIRED"}
    BY <1>1, <2>1 DEF Stored, Statuses, Verdicts
  <2>3. archive' = archive \/ (archive[r] # "ABSENT" /\ archive' = [archive EXCEPT ![r] = "EXPIRED"])
    BY DEF MarkExpired, store
  <2> QED BY <1>1, <2>2, <2>3
<1> QED BY <1>2, <1>3

\* On one pod every step keeps what is archived logged, or about to be.
LEMMA NextLog == IInv /\ LogInv /\ [Next]_vars => LogInv'
<1> SUFFICES ASSUME IInv, LogInv, [Next]_vars PROVE LogInv'
  OBVIOUS
<1>t. TypeOK /\ TypeOK' /\ faults \in Nat /\ crashes \in Nat /\ faults' \in Nat /\ crashes' \in Nat
  BY NextType DEF IInv, TypeOK
<1> USE DEF Goto, Finish, store, outputs, budget, frame
<1>0. CASE faults' # 0 \/ crashes' # 0
  BY <1>0 DEF LogInv
<1>1. ASSUME NEW t \in Tasks, NEW p \in Pods, NEW r \in Requests,
             \/ SubmitStart(t, p, r) \/ DecideLate(t, p, r) \/ SweepStart(t, p)
             \/ \E v \in Verdicts : DecideAccept(t, p, r, v)
      PROVE  LogInv'
  <2>1. /\ pc[t] = "idle" /\ UNCHANGED <<audit, faults, crashes>>
        /\ \E l \in {"submit_count", "late_archive", "sweep_select", "decide_save"} :
             pc' = [pc EXCEPT ![t] = l]
        /\ \A u \in Tasks : u # t => req'[u] = req[u] /\ verdict'[u] = verdict[u]
    BY <1>1, <1>t DEF SubmitStart, DecideLate, SweepStart, DecideAccept, TypeOK
  <2>2. CASE faults = 0 /\ crashes = 0
    <3>1. archive' = archive
      <4>1. CASE DecideLate(t, p, r)
        BY <2>2, <4>1, MarkKeepsArchive DEF DecideLate
      <4>2. CASE ~DecideLate(t, p, r)
        BY <1>1, <4>2 DEF SubmitStart, SweepStart, DecideAccept
      <4> QED BY <4>1, <4>2
    <3>2. \A u \in Tasks :
            /\ pc[u] \in {"decide_audit", "late_audit"} =>
                 pc'[u] = pc[u] /\ req'[u] = req[u] /\ verdict'[u] = verdict[u]
            /\ pc'[u] \in {"sweep_publish", "sweep_archive"} =>
                 pc[u] \in {"sweep_publish", "sweep_archive"} /\ req'[u] = req[u]
      BY <1>t, <2>1 DEF TypeOK
    <3> QED BY <1>t, <2>1, <3>1, <3>2, LogKept
  <2> QED BY <1>0, <2>1, <2>2
<1>2. ASSUME NEW t \in Tasks,
             \/ SubmitRefuse(t) \/ SubmitCount(t) \/ SubmitSave(t) \/ SubmitAudit(t)
             \/ SubmitPublish(t) \/ DecideSave(t) \/ DecidePublish(t) \/ LatePublish(t)
             \/ SweepSelect(t) \/ SweepPublish(t) \/ SweepReturn(t)
      PROVE  LogInv'
  <2>1. /\ pc[t] \notin {"decide_audit", "late_audit"}
        /\ UNCHANGED <<archive, faults, crashes>>
    BY <1>2 DEF SubmitRefuse, SubmitCount, SubmitSave, SubmitAudit, SubmitPublish, DecideSave,
                DecidePublish, LatePublish, SweepSelect, SweepPublish, SweepReturn, Save
  <2>2. \A r \in Requests : audit[r] \subseteq audit'[r]
    BY <1>2, <1>t DEF SubmitRefuse, SubmitCount, SubmitSave, SubmitAudit, SubmitPublish,
                DecideSave, DecidePublish, LatePublish, SweepSelect, SweepPublish, SweepReturn,
                Audit, TypeOK
  <2>3. \A u \in Tasks : u # t => pc'[u] = pc[u] /\ req'[u] = req[u] /\ verdict'[u] = verdict[u]
    BY <1>2, <1>t DEF SubmitRefuse, SubmitCount, SubmitSave, SubmitAudit, SubmitPublish,
                DecideSave, DecidePublish, LatePublish, SweepSelect, SweepPublish, SweepReturn,
                TypeOK
  <2>4. pc'[t] \in {"sweep_publish", "sweep_archive"} =>
          pc[t] = "sweep_publish" /\ req'[t] = req[t]
    BY <1>2, <1>t DEF SubmitRefuse, SubmitCount, SubmitSave, SubmitAudit, SubmitPublish,
                DecideSave, DecidePublish, LatePublish, SweepSelect, SweepPublish, SweepReturn,
                TypeOK
  <2> QED BY <1>t, <2>1, <2>2, <2>3, <2>4, LogKept
<1>3. ASSUME NEW t \in Tasks, NEW r \in Requests, SweepMark(t, r) PROVE LogInv'
  <2>1. /\ pc[t] = "sweep_next" /\ UNCHANGED <<audit, faults, crashes>> /\ MarkExpired(r)
        /\ pc' = [pc EXCEPT ![t] = "sweep_audit"] /\ r \in batch[t]
        /\ \A u \in Tasks : u # t => req'[u] = req[u] /\ verdict'[u] = verdict[u]
    BY <1>3, <1>t DEF SweepMark, TypeOK
  <2>2. CASE faults = 0 /\ crashes = 0
    <3>1. archive' = archive
      BY <2>1, <2>2, MarkKeepsArchive DEF Late, Sweeping
    <3>2. \A u \in Tasks :
            /\ pc[u] \in {"decide_audit", "late_audit"} =>
                 pc'[u] = pc[u] /\ req'[u] = req[u] /\ verdict'[u] = verdict[u]
            /\ pc'[u] \in {"sweep_publish", "sweep_archive"} =>
                 pc[u] \in {"sweep_publish", "sweep_archive"} /\ req'[u] = req[u]
      BY <1>t, <2>1 DEF TypeOK
    <3> QED BY <1>t, <2>1, <3>1, <3>2, LogKept
  <2> QED BY <1>0, <2>1, <2>2
<1>4. ASSUME NEW t \in Tasks, DecideArchive(t) \/ LateArchive(t) \/ SweepArchive(t) PROVE LogInv'
  <2>1. PICK l \in {"decide_audit", "late_audit", "sweep_next"} :
          /\ pc' = [pc EXCEPT ![t] = l]
          /\ l = "sweep_next" => pc[t] = "sweep_archive"
    BY <1>4 DEF DecideArchive, LateArchive, SweepArchive
  <2>2. /\ pc[t] \in {"decide_archive", "late_archive", "sweep_archive"} /\ Archive(t)
        /\ UNCHANGED <<verdict, req, audit, faults, crashes>>
    BY <1>4 DEF DecideArchive, LateArchive, SweepArchive
  <2>3. verdict[t] # "PENDING" /\ (pc[t] = "sweep_archive" => verdict[t] = "EXPIRED")
    BY <2>2 DEF IInv, VerdictInv, Expiring, Ruling, Verdicts
  <2> QED BY <1>t, <2>1, <2>2, <2>3, LogArchive
<1>5. ASSUME NEW t \in Tasks, DecideAudit(t) \/ LateAudit(t) \/ SweepAudit(t) PROVE LogInv'
  <2>1. PICK l \in {"decide_publish", "late_publish", "sweep_publish"} :
          /\ pc' = [pc EXCEPT ![t] = l]
          /\ l = "sweep_publish" => pc[t] = "sweep_audit"
    BY <1>5 DEF DecideAudit, LateAudit, SweepAudit
  <2>2. pc[t] \in {"late_audit", "sweep_audit"} => verdict[t] = "EXPIRED"
    BY DEF IInv, VerdictInv, Expiring
  <2>3. Audit(t, verdict[t]) /\ UNCHANGED <<archive, verdict, req, faults, crashes>>
    BY <1>5, <2>2 DEF DecideAudit, LateAudit, SweepAudit
  <2> QED BY <1>t, <2>1, <2>2, <2>3, LogAudited
<1>6. CASE Tick \/ UNCHANGED vars \/ \E r \in Requests : KeyExpires(r)
  <2>1. UNCHANGED <<archive, audit, pc, req, verdict, faults, crashes>>
    BY <1>6 DEF Tick, vars, KeyExpires
  <2> QED BY <1>t, <2>1, LogKept
<1>7. ASSUME NEW t \in Tasks, Fail(t) \/ LostReply(t) PROVE LogInv'
  BY <1>0, <1>7, <1>t DEF Fail, LostReply
<1>8. ASSUME NEW p \in Pods, Crash(p) PROVE LogInv'
  BY <1>0, <1>8, <1>t DEF Crash
<1>9. ASSUME NEW t \in Tasks, Start(t) PROVE LogInv'
  <2>1. SweepPods \subseteq Pods /\ \E r : r \in Requests
    BY GatewayAssumption
  <2> QED BY <1>1, <1>9, <2>1 DEF Start
<1>10. ASSUME NEW t \in Tasks, Resume(t) PROVE LogInv'
  BY <1>2, <1>3, <1>4, <1>5, <1>10 DEF Resume
<1> QED BY <1>6, <1>7, <1>8, <1>9, <1>10 DEF Next

\* On one pod, with either store, no outcome reaches the archive without its audit
\* record as long as no call fails and no pod restarts (hitl_gateway.py:204-222,
\* 280-294).
THEOREM OutcomesAreLogged == ASSUME SinglePod PROVE Spec => []EveryOutcomeLogged
<1>1. Init => LogInv
  BY DEF Init, LogInv
<1>2. IInv /\ LogInv => EveryOutcomeLogged
  BY DEF LogInv, Logging, EveryOutcomeLogged
<1> QED BY SinglePod, <1>1, <1>2, InvCorrect, NextLog, PTL DEF Spec

--------------------------------------------------------------------------------
(* What a reader of the store has seen decided stays so *)

Final == Verdicts \cup {"EXPIRED"}

\* What get_request shows of r keeps its final status, or goes away.
KeepsFinal(r) == Visible(r) \in Final => Visible(r)' \in {Visible(r), "ABSENT"}

\* What it shows was said: a verdict rules, an expiry is late.
LEMMA ShownIsSaid ==
  ASSUME NEW r \in Requests
  PROVE  /\ Visible(r) \in Verdicts => Ruled(r, Visible(r))
         /\ Visible(r) = "EXPIRED" => Late(r)
  BY DEF Visible, Seen, Ruled, Late

\* An archive of the outcome that a task has come to changes no other.
LEMMA ArchiveKeeps ==
  ASSUME IInv, NEW t \in Tasks, Archive(t),
         pc[t] \in {"decide_archive", "late_archive", "sweep_archive"},
         NEW r \in Requests
  PROVE  KeepsFinal(r)
<1>1. /\ active \in [Requests -> Stored] /\ archive \in [Requests -> Stored]
      /\ req[t] \in Requests
  BY DEF IInv, TypeOK
<1>2. CASE r # req[t]
  BY <1>1, <1>2 DEF Archive, KeepsFinal, Visible
<1>3. CASE r = req[t]
  <2> SUFFICES ASSUME Visible(r) \in Final PROVE Visible(r)' = Visible(r)
    BY DEF KeepsFinal
  <2>1. Visible(r)' = verdict[t]
    BY <1>1, <1>3 DEF Archive, Visible
  <2>2. CASE pc[t] = "decide_archive"
    <3>1. Ruled(r, verdict[t]) /\ verdict[t] \in Verdicts
      BY <1>3, <2>2 DEF Ruled, Ruling, IInv, VerdictInv
    <3>2. ~Late(r)
      BY <3>1 DEF IInv, RuledInv
    <3>3. Visible(r) \in Verdicts /\ Ruled(r, Visible(r))
      BY <3>2, ShownIsSaid DEF Final
    <3> QED BY <2>1, <3>1, <3>3 DEF IInv, RuledInv
  <2>3. CASE pc[t] # "decide_archive"
    <3>1. Late(r) /\ verdict[t] = "EXPIRED"
      BY <1>3, <2>3 DEF Late, Expiring, IInv, VerdictInv
    <3>2. Visible(r) \notin Verdicts
      BY <3>1, ShownIsSaid DEF IInv, RuledInv
    <3> QED BY <2>1, <3>1, <3>2 DEF Final
  <2> QED BY <2>2, <2>3
<1> QED BY <1>2, <1>3

\* Marking a stored object as expired shows no other status of a decided request.
LEMMA MarkKeeps ==
  ASSUME IInv, NEW q \in Requests, MarkExpired(q), active[q] = "PENDING" \/ Late(q),
         NEW r \in Requests
  PROVE  KeepsFinal(r)
<1>1. active \in [Requests -> Stored] /\ archive \in [Requests -> Stored]
  BY DEF IInv, TypeOK
<1>2. CASE r # q \/ (active' = active /\ archive' = archive)
  BY <1>1, <1>2 DEF MarkExpired, KeepsFinal, Visible, store
<1>3. CASE r = q
  <2>1. Visible(r)' \in {Visible(r), "EXPIRED", "ABSENT"}
    BY <1>1, <1>3 DEF MarkExpired, Visible, store
  <2>2. Visible(r) \notin Verdicts
    <3>1. CASE active[q] = "PENDING"
      BY <1>3, <3>1 DEF Visible, Verdicts
    <3>2. CASE Late(q)
      BY <1>3, <3>2, ShownIsSaid DEF IInv, RuledInv
    <3> QED BY <3>1, <3>2
  <2> QED BY <2>1, <2>2 DEF KeepsFinal, Final
<1> QED BY <1>2, <1>3

\* The save of a submission or of a verdict finds a request without a final status.
LEMMA SaveKeeps ==
  ASSUME IInv, NEW t \in Tasks, archive' = archive,
         \/ pc[t] = "submit_save" /\ Save(req[t], "PENDING")
         \/ pc[t] = "decide_save" /\ Save(req[t], verdict[t]),
         NEW r \in Requests
  PROVE  KeepsFinal(r)
<1>1. active \in [Requests -> Stored] /\ req[t] \in Requests
  BY DEF IInv, TypeOK
<1>2. CASE r # req[t]
  BY <1>1, <1>2 DEF Save, KeepsFinal, Visible
<1>3. CASE r = req[t]
  <2>1. Visible(r) \in {"ABSENT", "PENDING"}
    BY <1>3 DEF IInv, SubmitInv, SaveInv, Untouched, Visible
  <2> QED BY <2>1 DEF KeepsFinal, Final, Verdicts
<1> QED BY <1>2, <1>3

\* Every step of a pod that runs alone keeps what was decided.
LEMMA NextFinal ==
  ASSUME SinglePod, IInv, [Next]_vars, NEW r \in Requests
  PROVE  KeepsFinal(r)
<1>t. TypeOK /\ IInv
  BY DEF IInv
<1>0. CASE UNCHANGED store
  BY <1>0 DEF KeepsFinal, Visible, store
<1>1. ASSUME NEW t \in Tasks, Start(t) PROVE KeepsFinal(r)
  <2>1. CASE \E p \in Pods, q \in Requests : DecideLate(t, p, q)
    BY <2>1, MarkKeeps DEF DecideLate
  <2>2. CASE ~\E p \in Pods, q \in Requests : DecideLate(t, p, q)
    BY <1>0, <1>1, <2>2 DEF Start, SubmitStart, DecideAccept, SweepStart
  <2> QED BY <2>1, <2>2
<1>2. ASSUME NEW t \in Tasks, Resume(t) PROVE KeepsFinal(r)
  <2>1. CASE SubmitSave(t) \/ DecideSave(t)
    BY <2>1, SaveKeeps DEF SubmitSave, DecideSave
  <2>2. CASE DecideArchive(t) \/ LateArchive(t) \/ SweepArchive(t)
    BY <2>2, ArchiveKeeps DEF DecideArchive, LateArchive, SweepArchive
  <2>3. CASE \E q \in Requests : SweepMark(t, q)
    <3>1. PICK q \in Requests : SweepMark(t, q)
      BY <2>3
    <3>2. Late(q) /\ MarkExpired(q)
      BY <3>1 DEF SweepMark, Late, Sweeping
    <3> QED BY <3>2, MarkKeeps
  <2>4. CASE \/ SubmitRefuse(t) \/ SubmitCount(t) \/ SubmitAudit(t) \/ SubmitPublish(t)
             \/ DecideAudit(t) \/ DecidePublish(t) \/ LateAudit(t) \/ LatePublish(t)
             \/ SweepSelect(t) \/ SweepAudit(t) \/ SweepPublish(t) \/ SweepReturn(t)
    BY <1>0, <2>4 DEF SubmitRefuse, SubmitCount, SubmitAudit, SubmitPublish, DecideAudit,
       DecidePublish, LateAudit, LatePublish, SweepSelect, SweepAudit, SweepPublish, SweepReturn
  <2> QED BY <1>2, <2>1, <2>2, <2>3, <2>4 DEF Resume
<1>3. ASSUME NEW t \in Tasks, Fail(t) PROVE KeepsFinal(r)
  BY <1>0, <1>3 DEF Fail
<1>4. ASSUME NEW t \in Tasks, LostReply(t) PROVE KeepsFinal(r)
  <2>1. CASE pc[t] \in {"submit_save", "decide_save"}
    BY <1>4, <2>1, SaveKeeps DEF LostReply, Locking
  <2>2. CASE pc[t] \in Locking \ {"submit_count"} /\ Archive(t)
    BY <2>2, ArchiveKeeps DEF Locking
  <2> QED BY <1>4, <2>1, <2>2 DEF LostReply
<1>5. ASSUME NEW p \in Pods, Crash(p) PROVE KeepsFinal(r)
  <2>1. CASE Durable
    BY <1>0, <1>5, <2>1 DEF Crash
  <2>2. CASE ~Durable
    BY <1>5, <2>2 DEF Crash, KeepsFinal, Visible
  <2> QED BY <2>1, <2>2
<1>6. ASSUME NEW q \in Requests, KeyExpires(q) PROVE KeepsFinal(r)
  BY <1>6, <1>t DEF KeyExpires, KeepsFinal, Visible, IInv, QueueConsistent, TypeOK
<1> QED
  BY <1>0, <1>1, <1>2, <1>3, <1>4, <1>5, <1>6 DEF Next, Tick, vars, store

\* On one pod, with either store and whatever fails, what get_request shows of a
\* decided or expired request never turns into another status
\* (hitl_gateway.py:254-256).
THEOREM OutcomesAreFinal == ASSUME SinglePod PROVE Spec => OutcomeFinal
<1>1. IInv /\ [Next]_vars =>
        [\A r \in Requests :
           Visible(r) \in Verdicts \cup {"EXPIRED"} => Visible(r)' \in {Visible(r), "ABSENT"}]_vars
  <2> SUFFICES ASSUME IInv, [Next]_vars, NEW r \in Requests,
                      Visible(r) \in Verdicts \cup {"EXPIRED"}
               PROVE  Visible(r)' \in {Visible(r), "ABSENT"}
    OBVIOUS
  <2>1. KeepsFinal(r)
    BY SinglePod, NextFinal
  <2> QED BY <2>1 DEF KeepsFinal, Final
<1> QED BY SinglePod, <1>1, InvCorrect, PTL DEF Spec, OutcomeFinal

--------------------------------------------------------------------------------
(* With Redis the gateway implements HITLOversight *)

Outcomes == [r \in Requests |-> Outcome(r)]
Accepted == {req[t] : t \in {u \in Tasks : pc[u] = "decide_save"}}

\* A step of the abstract gateway, or none.
Promised == [Oversight!Next]_Oversight!vars

\* The keys of a request somebody is about to archive are still there, and Redis
\* never holds a live request marked as expired.
KeyInv ==
  /\ \A r \in Requests : active[r] # "EXPIRED"
  /\ \A t \in Tasks : pc[t] = "decide_archive" => active[req[t]] = verdict[t]
  /\ \A t \in Tasks : pc[t] \in Expiring => Visible(req[t]) # "ABSENT"
  /\ \A t \in Tasks : pc[t] \in Sweeping => \A r \in batch[t] : Visible(r) # "ABSENT"

\* The steps of HITLOversight, in terms of what the gateway keeps.
LEMMA PromisedSteps ==
  /\ UNCHANGED <<now, deadline, Outcomes, Accepted>> => Promised
  /\ now' = now + 1 /\ UNCHANGED <<deadline, Outcomes, Accepted>> => Promised
  /\ \A r \in Requests :
       /\ /\ deadline[r] = 0 /\ deadline' = [deadline EXCEPT ![r] = now + Timeout]
          /\ UNCHANGED <<now, Outcomes, Accepted>>
          => Promised
       /\ /\ deadline[r] # 0 /\ Outcomes[r] = "none"
          /\ Outcomes' = [Outcomes EXCEPT ![r] = "PENDING"] /\ UNCHANGED <<now, deadline, Accepted>>
          => Promised
       /\ /\ Outcomes[r] = "PENDING" /\ now < deadline[r]
          /\ Accepted' = Accepted \cup {r} /\ UNCHANGED <<now, deadline, Outcomes>>
          => Promised
       /\ \A v \in Verdicts :
            /\ r \in Accepted /\ Outcomes[r] = "PENDING"
            /\ Outcomes' = [Outcomes EXCEPT ![r] = v] /\ Accepted' = Accepted \ {r}
            /\ UNCHANGED <<now, deadline>>
            => Promised
       /\ /\ r \in Accepted /\ Accepted' = Accepted \ {r} /\ UNCHANGED <<now, deadline, Outcomes>>
          => Promised
       /\ /\ Outcomes[r] = "PENDING" /\ r \notin Accepted /\ now >= deadline[r]
          /\ Outcomes' = [Outcomes EXCEPT ![r] = "EXPIRED"] /\ UNCHANGED <<now, deadline, Accepted>>
          => Promised
       /\ /\ Outcomes[r] \in Verdicts \cup {"PENDING"} /\ r \notin Accepted
          /\ now >= deadline[r] + Grace
          /\ Outcomes' = [Outcomes EXCEPT ![r] = "FORGOTTEN"]
          /\ UNCHANGED <<now, deadline, Accepted>>
          => Promised
<1> USE DEF Outcomes, Accepted, Verdicts, Oversight!Verdicts
<1>1. UNCHANGED <<now, deadline, Outcomes, Accepted>> => Promised
  BY DEF Promised, Oversight!vars
<1>2. Oversight!Tick => Promised
  BY DEF Promised, Oversight!Next
<1>3. ASSUME NEW r \in Requests,
             \/ Oversight!Propose(r) \/ Oversight!Admit(r) \/ Oversight!Accept(r)
             \/ Oversight!Decide(r) \/ Oversight!Withdraw(r) \/ Oversight!Expire(r)
             \/ Oversight!Forget(r)
      PROVE  Promised
  BY <1>3 DEF Promised, Oversight!Next
<1>4. now' = now + 1 /\ UNCHANGED <<deadline, Outcomes, Accepted>> => Oversight!Tick
  BY DEF Oversight!Tick
<1>5. ASSUME NEW r \in Requests
      PROVE  /\ /\ deadline[r] = 0 /\ deadline' = [deadline EXCEPT ![r] = now + Timeout]
                /\ UNCHANGED <<now, Outcomes, Accepted>>
                => Oversight!Propose(r)
             /\ /\ deadline[r] # 0 /\ Outcomes[r] = "none"
                /\ Outcomes' = [Outcomes EXCEPT ![r] = "PENDING"]
                /\ UNCHANGED <<now, deadline, Accepted>>
                => Oversight!Admit(r)
             /\ /\ Outcomes[r] = "PENDING" /\ now < deadline[r]
                /\ Accepted' = Accepted \cup {r} /\ UNCHANGED <<now, deadline, Outcomes>>
                => Oversight!Accept(r)
  BY DEF Oversight!Propose, Oversight!Admit, Oversight!Accept
<1>6. ASSUME NEW r \in Requests
      PROVE  /\ \A v \in Verdicts :
                  /\ r \in Accepted /\ Outcomes[r] = "PENDING"
                  /\ Outcomes' = [Outcomes EXCEPT ![r] = v] /\ Accepted' = Accepted \ {r}
                  /\ UNCHANGED <<now, deadline>>
                  => Oversight!Decide(r)
             /\ /\ r \in Accepted /\ Accepted' = Accepted \ {r}
                /\ UNCHANGED <<now, deadline, Outcomes>>
                => Oversight!Withdraw(r)
  BY DEF Oversight!Decide, Oversight!Withdraw
<1>7. ASSUME NEW r \in Requests
      PROVE  /\ /\ Outcomes[r] = "PENDING" /\ r \notin Accepted /\ now >= deadline[r]
                /\ Outcomes' = [Outcomes EXCEPT ![r] = "EXPIRED"]
                /\ UNCHANGED <<now, deadline, Accepted>>
                => Oversight!Expire(r)
             /\ /\ Outcomes[r] \in Verdicts \cup {"PENDING"} /\ r \notin Accepted
                /\ now >= deadline[r] + Grace
                /\ Outcomes' = [Outcomes EXCEPT ![r] = "FORGOTTEN"]
                /\ UNCHANGED <<now, deadline, Accepted>>
                => Oversight!Forget(r)
  BY DEF Oversight!Expire, Oversight!Forget
<1> HIDE DEF Outcomes, Accepted, Verdicts, Oversight!Verdicts
<1> QED BY <1>1, <1>2, <1>3, <1>4, <1>5, <1>6, <1>7

\* A write to the store that concerns one request.
OnlyFor(r) ==
  \A q \in Requests : q # r =>
    active'[q] = active[q] /\ archive'[q] = archive[q] /\ (q \in pending' <=> q \in pending)

\* It changes the outcome of that request only.
LEMMA OutcomeMoves ==
  ASSUME NEW r \in Requests, OnlyFor(r)
  PROVE  Outcomes' = [Outcomes EXCEPT ![r] = Outcome(r)']
  BY DEF OnlyFor, Outcomes, Outcome, Visible

\* Without a write no outcome changes.
LEMMA OutcomeStays ==
  ASSUME UNCHANGED store
  PROVE  Outcomes' = Outcomes
  BY DEF store, Outcomes, Outcome, Visible

\* On one pod at most one verdict is being written.
LEMMA OneAccepted ==
  ASSUME SinglePod, IInv, NEW t \in Tasks, NEW u \in Tasks, pc[t] = "decide_save",
         pc[u] \in Locked
  PROVE  t = u
  BY DEF IInv, TypeOK, LockInv, Locked, SinglePod

\* A step that lets nobody begin or end the writing of a verdict.
LEMMA AcceptedStays ==
  ASSUME \A t \in Tasks : pc'[t] = "decide_save" <=> pc[t] = "decide_save",
         \A t \in Tasks : pc[t] = "decide_save" => req'[t] = req[t]
  PROVE  Accepted' = Accepted
<1>1. {u \in Tasks : pc'[u] = "decide_save"} = {u \in Tasks : pc[u] = "decide_save"}
  OBVIOUS
<1> QED BY <1>1 DEF Accepted

\* One that ends the writing of the only one.
LEMMA AcceptedEnds ==
  ASSUME SinglePod, IInv, NEW t \in Tasks, pc[t] = "decide_save",
         \A u \in Tasks : pc'[u] = "decide_save" => u # t /\ pc[u] = "decide_save"
  PROVE  Accepted = {req[t]} /\ Accepted' = {}
<1>1. \A u \in Tasks : pc[u] = "decide_save" => u = t
  BY OneAccepted DEF Locked
<1> QED BY <1>1 DEF Accepted

\* What the invariants say of a request somebody is about to archive.
LEMMA ArchiveFacts ==
  ASSUME IInv, KeyInv, NEW t \in Tasks, Archive(t), NEW r, r = req[t],
         pc[t] \in {"decide_archive", "late_archive", "sweep_archive"}
  PROVE  /\ r \in Requests /\ OnlyFor(r)
         /\ Outcome(r)' = verdict[t]
         /\ pc[t] = "decide_archive" => Outcome(r) = verdict[t]
         /\ pc[t] # "decide_archive" =>
              verdict[t] = "EXPIRED" /\ Late(r) /\ Outcome(r) \in {"PENDING", "EXPIRED"}
<1>1. /\ active \in [Requests -> Stored] /\ archive \in [Requests -> Stored]
      /\ r \in Requests /\ Visible(r) \in Stored
  BY DEF IInv, TypeOK, Visible
<1>2. verdict[t] # "ABSENT"
  BY DEF IInv, VerdictInv, Ruling, Expiring, Verdicts
<1>3. Visible(r)' = verdict[t]
  BY <1>1, <1>2 DEF Archive, Visible
<1>4. Outcome(r)' = verdict[t]
  BY <1>2, <1>3 DEF Outcome
<1>5. ASSUME pc[t] = "decide_archive" PROVE Outcome(r) = verdict[t]
  BY <1>2, <1>5 DEF KeyInv, Visible, Outcome
<1>6. ASSUME pc[t] # "decide_archive"
      PROVE  verdict[t] = "EXPIRED" /\ Late(r) /\ Outcome(r) \in {"PENDING", "EXPIRED"}
  <2>1. pc[t] \in Expiring
    BY <1>6 DEF Expiring
  <2>2. verdict[t] = "EXPIRED" /\ Late(r) /\ Visible(r) # "ABSENT"
    BY <2>1 DEF IInv, VerdictInv, Late, KeyInv
  <2>3. Visible(r) \notin Verdicts
    <3> SUFFICES ASSUME Visible(r) \in Verdicts PROVE FALSE
      OBVIOUS
    <3>1. Ruled(r, Visible(r))
      BY <1>1, ShownIsSaid
    <3> QED BY <1>1, <2>2, <3>1 DEF IInv, RuledInv
  <2> QED BY <1>1, <2>2, <2>3 DEF Stored, Statuses, Verdicts, Outcome
<1>7. OnlyFor(r)
  BY <1>1 DEF Archive, OnlyFor
<1> QED BY <1>1, <1>4, <1>5, <1>6, <1>7

\* What they say of a request that is about to be saved.
LEMMA SaveFacts ==
  ASSUME IInv, NEW t \in Tasks, archive' = archive, NEW r, r = req[t],
         \/ pc[t] = "submit_save" /\ Save(r, "PENDING")
         \/ pc[t] = "decide_save" /\ Save(r, verdict[t])
  PROVE  /\ r \in Requests /\ OnlyFor(r)
         /\ pc[t] = "submit_save" =>
              deadline[r] # 0 /\ Outcome(r) = "none" /\ Outcome(r)' = "PENDING"
         /\ pc[t] = "decide_save" =>
              verdict[t] \in Verdicts /\ Outcome(r) = "PENDING" /\ Outcome(r)' = verdict[t]
<1>1. /\ active \in [Requests -> Stored] /\ archive \in [Requests -> Stored]
      /\ r \in Requests
  BY DEF IInv, TypeOK
<1>2. ASSUME pc[t] = "submit_save"
      PROVE  deadline[r] # 0 /\ Outcome(r) = "none" /\ Outcome(r)' = "PENDING"
  <2>1. Untouched(r) /\ deadline[r] # 0
    BY <1>1, <1>2 DEF IInv, SubmitInv, Submitting
  <2>2. Outcome(r) = "none"
    BY <2>1 DEF Untouched, Outcome, Visible
  <2>3. active'[r] = "PENDING"
    BY <1>1, <1>2 DEF Save
  <2> QED BY <2>1, <2>2, <2>3 DEF Outcome, Visible
<1>3. ASSUME pc[t] = "decide_save"
      PROVE  verdict[t] \in Verdicts /\ Outcome(r) = "PENDING" /\ Outcome(r)' = verdict[t]
  <2>1. active[r] = "PENDING" /\ verdict[t] \in Verdicts
    BY <1>3 DEF IInv, SaveInv, VerdictInv
  <2>2. active'[r] = verdict[t]
    BY <1>1, <1>3 DEF Save
  <2> QED BY <2>1, <2>2 DEF Outcome, Visible, Verdicts
<1>4. OnlyFor(r)
  BY <1>1 DEF Save, OnlyFor
<1> QED BY <1>1, <1>2, <1>3, <1>4

\* An archive is the end of a request that was decided or expired before, or its expiry.
LEMMA ArchivePromised ==
  ASSUME IInv, KeyInv, NEW t \in Tasks, Archive(t),
         pc[t] \in {"decide_archive", "late_archive", "sweep_archive"},
         UNCHANGED <<now, deadline, Accepted>>
  PROVE  Promised
<1>0. PICK r : r = req[t]
  OBVIOUS
<1>1. r \in Requests /\ OnlyFor(r) /\ Outcome(r)' = verdict[t]
  BY <1>0, ArchiveFacts
<1>2. Outcomes' = [Outcomes EXCEPT ![r] = verdict[t]] /\ Outcomes[r] = Outcome(r)
  BY <1>1, OutcomeMoves DEF Outcomes
<1>3. CASE Outcome(r) = verdict[t]
  <2>1. Outcomes' = Outcomes
    BY <1>1, <1>2, <1>3 DEF Outcomes
  <2> QED BY <2>1, PromisedSteps
<1>4. CASE Outcome(r) # verdict[t]
  <2>1. verdict[t] = "EXPIRED" /\ Late(r) /\ Outcome(r) = "PENDING"
    BY <1>0, <1>4, ArchiveFacts
  <2>2. r \notin Accepted /\ now >= deadline[r]
    BY <1>1, <2>1 DEF Accepted, IInv, SaveInv, LateInv
  <2> QED BY <1>1, <1>2, <2>1, <2>2, PromisedSteps
<1> QED BY <1>3, <1>4

\* A save admits a request, or decides it.
LEMMA SavePromised ==
  ASSUME SinglePod, IInv, NEW t \in Tasks, UNCHANGED <<now, deadline, archive>>,
         \/ pc[t] = "submit_save" /\ Save(req[t], "PENDING")
         \/ pc[t] = "decide_save" /\ Save(req[t], verdict[t]),
         \A u \in Tasks : u # t => pc'[u] = pc[u] /\ req'[u] = req[u],
         pc'[t] # "decide_save"
  PROVE  Promised
<1>0. PICK r : r = req[t]
  OBVIOUS
<1>1. r \in Requests /\ OnlyFor(r)
  BY <1>0, SaveFacts
<1>2. Outcomes' = [Outcomes EXCEPT ![r] = Outcome(r)'] /\ Outcomes[r] = Outcome(r)
  BY <1>1, OutcomeMoves DEF Outcomes
<1>3. CASE pc[t] = "submit_save"
  <2>1. Accepted' = Accepted
    BY <1>3, AcceptedStays
  <2>2. deadline[r] # 0 /\ Outcomes[r] = "none" /\ Outcomes' = [Outcomes EXCEPT ![r] = "PENDING"]
    BY <1>0, <1>2, <1>3, SaveFacts
  <2> QED BY <1>1, <2>1, <2>2, PromisedSteps
<1>4. CASE pc[t] = "decide_save"
  <2>1. Accepted = {r} /\ Accepted' = {}
    BY <1>0, <1>4, AcceptedEnds
  <2>2. r \in Accepted /\ Accepted' = Accepted \ {r}
    BY <2>1
  <2>3. /\ verdict[t] \in Verdicts /\ Outcomes[r] = "PENDING"
        /\ Outcomes' = [Outcomes EXCEPT ![r] = verdict[t]]
    BY <1>0, <1>2, <1>4, SaveFacts
  <2> QED BY <1>1, <2>2, <2>3, PromisedSteps
<1> QED BY <1>3, <1>4

\* What a step can do to the store: archive or save for one task, or drop a key.  With
\* Redis, marking an object expired is no write.
Elsewhere(t) ==
  \A u \in Tasks : u # t =>
    pc'[u] = pc[u] /\ req'[u] = req[u] /\ verdict'[u] = verdict[u] /\ batch'[u] = batch[u]

Archiving(t) ==
  /\ pc[t] \in {"decide_archive", "late_archive", "sweep_archive"} /\ Archive(t)
  /\ pc'[t] \in {"decide_audit", "late_audit", "sweep_next", "idle"}
  /\ pc'[t] # "idle" => UNCHANGED <<req, verdict, batch>>
  /\ pc'[t] = "sweep_next" => pc[t] = "sweep_archive"
  /\ pc'[t] = "late_audit" => pc[t] = "late_archive"
  /\ Elsewhere(t) /\ UNCHANGED <<now, deadline>>

Saving(t) ==
  /\ \/ pc[t] = "submit_save" /\ Save(req[t], "PENDING") /\ pc'[t] \in {"submit_audit", "idle"}
     \/ pc[t] = "decide_save" /\ Save(req[t], verdict[t]) /\ pc'[t] \in {"decide_archive", "idle"}
  /\ pc'[t] # "idle" => UNCHANGED <<req, verdict, batch>>
  /\ Elsewhere(t) /\ UNCHANGED <<now, deadline, archive>>

\* There is no other way the store changes.
LEMMA StoreMoves ==
  ASSUME Durable, TypeOK, [Next]_vars
  PROVE  \/ UNCHANGED store
         \/ \E t \in Tasks : Archiving(t) \/ Saving(t)
         \/ \E r \in Requests : KeyExpires(r)
<1>1. ASSUME NEW t \in Tasks, Start(t) PROVE UNCHANGED store
  BY <1>1 DEF Start, SubmitStart, DecideAccept, DecideLate, SweepStart, MarkExpired, store
<1>2. ASSUME NEW t \in Tasks, Resume(t) PROVE UNCHANGED store \/ Archiving(t) \/ Saving(t)
  <2>1. CASE SubmitSave(t) \/ DecideSave(t)
    BY <2>1 DEF SubmitSave, DecideSave, Saving, Elsewhere, Goto, TypeOK, frame
  <2>2. CASE DecideArchive(t) \/ LateArchive(t) \/ SweepArchive(t)
    BY <2>2 DEF DecideArchive, LateArchive, SweepArchive, Archiving, Elsewhere, Goto, TypeOK, frame
  <2>3. CASE \E q \in Requests : SweepMark(t, q)
    BY <2>3 DEF SweepMark, MarkExpired
  <2>4. CASE \/ SubmitRefuse(t) \/ SubmitCount(t) \/ SubmitAudit(t) \/ SubmitPublish(t)
             \/ DecideAudit(t) \/ DecidePublish(t) \/ LateAudit(t) \/ LatePublish(t)
             \/ SweepSelect(t) \/ SweepAudit(t) \/ SweepPublish(t) \/ SweepReturn(t)
    BY <2>4 DEF SubmitRefuse, SubmitCount, SubmitAudit, SubmitPublish, DecideAudit,
       DecidePublish, LateAudit, LatePublish, SweepSelect, SweepAudit, SweepPublish, SweepReturn
  <2> QED BY <1>2, <2>1, <2>2, <2>3, <2>4 DEF Resume
<1>3. ASSUME NEW t \in Tasks, Fail(t) PROVE UNCHANGED store
  BY <1>3 DEF Fail
<1>4. ASSUME NEW t \in Tasks, LostReply(t) PROVE Archiving(t) \/ Saving(t)
  <2>1. pc'[t] = "idle" /\ Elsewhere(t) /\ UNCHANGED <<now, deadline>>
    BY <1>4 DEF LostReply, Finish, Goto, Elsewhere, TypeOK
  <2> QED BY <1>4, <2>1 DEF LostReply, Archiving, Saving, Locking
<1>5. ASSUME NEW p \in Pods, Crash(p) PROVE UNCHANGED store
  BY <1>5 DEF Crash
<1> QED BY <1>1, <1>2, <1>3, <1>4, <1>5 DEF Next, Tick, vars

\* Only a key that expires makes a request invisible.
LEMMA StaysVisible ==
  ASSUME Durable, IInv, [Next]_vars, NEW r \in Requests, Visible(r) # "ABSENT",
         ~KeyExpires(r)
  PROVE  Visible(r)' # "ABSENT"
<1>1. /\ active \in [Requests -> Stored] /\ archive \in [Requests -> Stored] /\ TypeOK
      /\ \A t \in Tasks : req[t] \in Requests
  BY DEF IInv, TypeOK
<1>2. CASE UNCHANGED store
  BY <1>2 DEF Visible, store
<1>3. ASSUME NEW t \in Tasks, Archiving(t) PROVE Visible(r)' # "ABSENT"
  <2>1. verdict[t] # "ABSENT" /\ Archive(t)
    BY <1>3 DEF Archiving, IInv, VerdictInv, Ruling, Expiring, Verdicts
  <2> QED BY <1>1, <2>1 DEF Archive, Visible
<1>4. ASSUME NEW t \in Tasks, Saving(t) PROVE Visible(r)' # "ABSENT"
  <2>1. pc[t] = "decide_save" => verdict[t] # "ABSENT"
    BY DEF IInv, VerdictInv, Verdicts
  <2> QED BY <1>1, <1>4, <2>1 DEF Saving, Save, Visible
<1>5. ASSUME NEW q \in Requests, KeyExpires(q) PROVE Visible(r)' # "ABSENT"
  BY <1>1, <1>5 DEF KeyExpires, Visible
<1> QED BY <1>1, <1>2, <1>3, <1>4, <1>5, StoreMoves

\* A verdict that was saved stays under its key until its task archives it.
LEMMA SavedStays ==
  ASSUME Durable, IInv, [Next]_vars, NEW t \in Tasks, pc[t] = "decide_archive",
         active[req[t]] = verdict[t], pc'[t] = "decide_archive",
         NEW r, r = req[t]
  PROVE  active'[r] = active[r]
<1>1. /\ active \in [Requests -> Stored] /\ archive \in [Requests -> Stored] /\ TypeOK
      /\ \A u \in Tasks : req[u] \in Requests
  BY DEF IInv, TypeOK
<1>2. verdict[t] \in Verdicts /\ Ruled(r, verdict[t])
  BY DEF IInv, VerdictInv, Ruled, Ruling
<1>3. ~Late(r)
  BY <1>1, <1>2 DEF IInv, RuledInv
<1>4. CASE UNCHANGED store
  BY <1>4 DEF store
<1>5. ASSUME NEW u \in Tasks, Archiving(u) PROVE req[u] # r
  <2>1. (pc[u] \in Ruling /\ u # t) \/ pc[u] \in Expiring
    BY <1>5 DEF Archiving, Ruling, Expiring
  <2>2. CASE pc[u] \in Ruling /\ u # t
    BY <2>2 DEF IInv, CountInv, Ruling
  <2>3. CASE pc[u] \in Expiring
    BY <1>3, <2>3 DEF Late
  <2> QED BY <2>1, <2>2, <2>3
<1>6. ASSUME NEW u \in Tasks, Saving(u) PROVE req[u] # r
  <2>1. CASE pc[u] = "submit_save"
    BY <1>2, <2>1 DEF IInv, SubmitInv, Untouched
  <2>2. CASE pc[u] = "decide_save"
    BY <1>2, <2>2 DEF IInv, SaveInv, Verdicts
  <2> QED BY <1>6, <2>1, <2>2 DEF Saving
<1>7. ASSUME NEW q \in Requests, KeyExpires(q) PROVE active'[r] = active[r]
  BY <1>1, <1>7 DEF KeyExpires
<1>8. ASSUME NEW u \in Tasks, Archiving(u) \/ Saving(u) PROVE active'[r] = active[r]
  BY <1>1, <1>5, <1>6, <1>8 DEF Archiving, Archive, Saving, Save
<1> QED BY <1>1, <1>4, <1>7, <1>8, StoreMoves

\* A task is as it was unless it acts itself, fails or is lost.
LEMMA OwnMoves ==
  ASSUME TypeOK, [Next]_vars, NEW t \in Tasks
  PROVE  \/ Start(t) \/ Resume(t) \/ pc'[t] = "idle"
         \/ UNCHANGED <<pc[t], req[t], verdict[t], batch[t]>>
<1>1. ASSUME NEW u \in Tasks, Start(u), u # t
      PROVE  UNCHANGED <<pc[t], req[t], verdict[t], batch[t]>>
  BY <1>1 DEF Start, SubmitStart, DecideAccept, DecideLate, SweepStart, Goto, TypeOK
<1>2. ASSUME NEW u \in Tasks, Resume(u), u # t
      PROVE  UNCHANGED <<pc[t], req[t], verdict[t], batch[t]>>
  <2>1. CASE \/ SubmitRefuse(u) \/ SubmitCount(u) \/ SubmitSave(u) \/ SubmitAudit(u)
             \/ SubmitPublish(u) \/ DecideSave(u) \/ DecideArchive(u) \/ DecideAudit(u)
             \/ DecidePublish(u)
    BY <1>2, <2>1 DEF SubmitRefuse, SubmitCount, SubmitSave, SubmitAudit, SubmitPublish, DecideSave,
       DecideArchive, DecideAudit, DecidePublish, Goto, Finish, TypeOK, frame
  <2>2. CASE \/ LateArchive(u) \/ LateAudit(u) \/ LatePublish(u)
             \/ SweepSelect(u) \/ SweepAudit(u) \/ SweepPublish(u) \/ SweepArchive(u)
             \/ SweepReturn(u) \/ \E r \in Requests : SweepMark(u, r)
    BY <1>2, <2>2 DEF LateArchive, LateAudit, LatePublish, SweepSelect, SweepAudit, SweepPublish,
       SweepArchive, SweepReturn, SweepMark, Goto, Finish, TypeOK, frame
  <2> QED BY <1>2, <2>1, <2>2 DEF Resume
<1>3. ASSUME NEW u \in Tasks, Fail(u) \/ LostReply(u)
      PROVE  pc'[t] = "idle" \/ UNCHANGED <<pc[t], req[t], verdict[t], batch[t]>>
  BY <1>3 DEF Fail, LostReply, Goto, Finish, TypeOK
<1>4. ASSUME NEW p \in Pods, Crash(p)
      PROVE  pc'[t] = "idle" \/ UNCHANGED <<pc[t], req[t], verdict[t], batch[t]>>
  BY <1>4 DEF Crash
<1>5. CASE Tick \/ UNCHANGED vars \/ \E r \in Requests : KeyExpires(r)
  BY <1>5 DEF Tick, vars, KeyExpires, frame
<1> QED BY <1>1, <1>2, <1>3, <1>4, <1>5 DEF Next

\* Where the tasks that KeyInv is about can have come from.
LEMMA KeyUsers ==
  ASSUME Durable, TypeOK, [Next]_vars, NEW t \in Tasks
  PROVE  /\ pc'[t] = "decide_archive" =>
              \/ /\ pc[t] = "decide_archive" /\ req'[t] = req[t] /\ verdict'[t] = verdict[t]
              \/ DecideSave(t)
         /\ pc'[t] \in Expiring =>
              \/ pc[t] \in Expiring /\ req'[t] = req[t]
              \/ Visible(req'[t]) # "ABSENT" /\ UNCHANGED store
              \/ pc[t] = "sweep_next" /\ req'[t] \in batch[t] /\ UNCHANGED store
         /\ pc'[t] \in Sweeping => \A r \in batch'[t] :
              \/ r \in batch[t] /\ pc[t] \in Sweeping
              \/ Visible(r) # "ABSENT" /\ UNCHANGED store
<1>1. CASE Start(t)
  <2>1. /\ UNCHANGED store
        /\ \/ pc'[t] \in {"submit_count", "decide_save", "sweep_select"}
           \/ pc'[t] = "late_archive" /\ Visible(req'[t]) # "ABSENT"
    BY <1>1 DEF Start, SubmitStart, DecideAccept, DecideLate, SweepStart, MarkExpired, store,
                Visible, Goto, TypeOK
  <2> QED BY <2>1 DEF Expiring, Sweeping
<1>2. CASE Resume(t)
  <2>1. CASE \/ SubmitRefuse(t) \/ SubmitCount(t) \/ SubmitSave(t) \/ SubmitAudit(t)
             \/ SubmitPublish(t) \/ DecideArchive(t) \/ DecideAudit(t) \/ DecidePublish(t)
             \/ LatePublish(t) \/ SweepReturn(t)
    <3>1. pc'[t] \in {"idle", "submit_save", "submit_audit", "submit_publish", "decide_audit",
                      "decide_publish"}
      BY <2>1 DEF SubmitRefuse, SubmitCount, SubmitSave, SubmitAudit, SubmitPublish,
         DecideArchive, DecideAudit, DecidePublish, LatePublish, SweepReturn, Goto, Finish, TypeOK
    <3> QED BY <3>1 DEF Expiring, Sweeping
  <2>2. CASE DecideSave(t)
    BY <2>2 DEF DecideSave, Goto, TypeOK, Expiring, Sweeping
  <2>3. CASE LateArchive(t) \/ LateAudit(t) \/ SweepAudit(t) \/ SweepPublish(t) \/ SweepArchive(t)
    <3>1. /\ pc[t] \in Expiring /\ (pc'[t] \in Sweeping => pc[t] \in Sweeping)
          /\ req'[t] = req[t] /\ batch'[t] = batch[t] /\ pc'[t] # "decide_archive"
      BY <2>3 DEF LateArchive, LateAudit, SweepAudit, SweepPublish, SweepArchive, Goto, TypeOK,
                  frame, Expiring, Sweeping
    <3> QED BY <3>1 DEF Expiring, Sweeping
  <2>4. CASE SweepSelect(t)
    <3>1. /\ pc'[t] = "sweep_next" /\ UNCHANGED store
          /\ \A r \in batch'[t] : active[r] = "PENDING"
      BY <2>4 DEF SweepSelect, Goto, TypeOK
    <3> QED BY <3>1 DEF Expiring, Visible
  <2>5. ASSUME NEW q \in Requests, SweepMark(t, q)
        PROVE  /\ pc'[t] = "sweep_audit" /\ pc[t] = "sweep_next" /\ UNCHANGED store
               /\ req'[t] \in batch[t] /\ batch'[t] \subseteq batch[t]
    BY <2>5 DEF SweepMark, MarkExpired, Goto, TypeOK
  <2>6. CASE \E q \in Requests : SweepMark(t, q)
    BY <2>5, <2>6 DEF Sweeping, Expiring
  <2> QED BY <1>2, <2>1, <2>2, <2>3, <2>4, <2>6 DEF Resume
<1>3. CASE pc'[t] = "idle"
  BY <1>3 DEF Expiring, Sweeping
<1>4. CASE UNCHANGED <<pc[t], req[t], verdict[t], batch[t]>>
  BY <1>4 DEF Expiring, Sweeping
<1> QED BY <1>1, <1>2, <1>3, <1>4, OwnMoves

\* Every step keeps the keys that a task works on.
LEMMA NextKeys ==
  ASSUME SinglePod, Durable, IInv, KeyInv, [Next]_vars
  PROVE  KeyInv'
<1>1. /\ active \in [Requests -> Stored] /\ archive \in [Requests -> Stored] /\ TypeOK
      /\ \A t \in Tasks : req[t] \in Requests /\ batch[t] \subseteq Requests
  BY DEF IInv, TypeOK
<1>2. TypeOK'
  BY <1>1, NextType
<1>3. ASSUME NEW r \in Requests PROVE active'[r] # "EXPIRED"
  <2>1. CASE UNCHANGED store
    BY <2>1 DEF KeyInv, store
  <2>2. ASSUME NEW t \in Tasks, Archiving(t) PROVE active'[r] # "EXPIRED"
    BY <1>1, <2>2 DEF Archiving, Archive, KeyInv
  <2>3. ASSUME NEW t \in Tasks, Saving(t) PROVE active'[r] # "EXPIRED"
    <3>1. pc[t] = "decide_save" => verdict[t] # "EXPIRED"
      BY DEF IInv, VerdictInv, Verdicts
    <3> QED BY <1>1, <2>3, <3>1 DEF Saving, Save, KeyInv
  <2>4. ASSUME NEW q \in Requests, KeyExpires(q) PROVE active'[r] # "EXPIRED"
    BY <1>1, <2>4 DEF KeyExpires, KeyInv
  <2> QED BY <1>1, <2>1, <2>2, <2>3, <2>4, StoreMoves
<1>4. ASSUME NEW t \in Tasks, pc'[t] = "decide_archive" PROVE active'[req'[t]] = verdict'[t]
  <2>1. CASE DecideSave(t)
    BY <1>1, <2>1 DEF DecideSave, Save, frame
  <2>2. CASE pc[t] = "decide_archive" /\ req'[t] = req[t] /\ verdict'[t] = verdict[t]
    <3>1. PICK r : r = req[t]
      OBVIOUS
    <3>2. active'[r] = active[r] /\ active[r] = verdict[t]
      BY <1>4, <2>2, <3>1, SavedStays DEF KeyInv
    <3> QED BY <2>2, <3>1, <3>2
  <2> QED BY <1>1, <1>4, <2>1, <2>2, KeyUsers
<1>5. ASSUME NEW t \in Tasks, NEW r \in Requests,
             \/ pc[t] # "idle" /\ (r = req[t] \/ r \in batch[t]) /\ Visible(r) # "ABSENT"
             \/ Visible(r) # "ABSENT" /\ UNCHANGED store
      PROVE  Visible(r)' # "ABSENT"
  <2>1. CASE UNCHANGED store
    BY <1>5, <2>1 DEF Visible, store
  <2>2. CASE ~UNCHANGED store
    BY <1>5, <2>2, StaysVisible DEF KeyExpires
  <2> QED BY <2>1, <2>2
<1>6. ASSUME NEW t \in Tasks, pc'[t] \in Expiring PROVE Visible(req[t])' # "ABSENT"
  <2>1. PICK r : r = req'[t]
    OBVIOUS
  <2>2. r \in Requests
    BY <1>2, <2>1 DEF TypeOK
  <2>3. \/ pc[t] # "idle" /\ (r = req[t] \/ r \in batch[t]) /\ Visible(r) # "ABSENT"
        \/ Visible(r) # "ABSENT" /\ UNCHANGED store
    BY <1>1, <1>6, <2>1, KeyUsers DEF KeyInv, Expiring, Sweeping
  <2>4. Visible(r)' # "ABSENT"
    BY <1>5, <2>2, <2>3
  <2> QED BY <2>1, <2>4 DEF Visible
<1>7. ASSUME NEW t \in Tasks, pc'[t] \in Sweeping, NEW r \in batch'[t]
      PROVE  Visible(r)' # "ABSENT"
  <2>1. r \in Requests
    BY <1>2 DEF TypeOK
  <2>2. \/ pc[t] # "idle" /\ (r = req[t] \/ r \in batch[t]) /\ Visible(r) # "ABSENT"
        \/ Visible(r) # "ABSENT" /\ UNCHANGED store
    BY <1>1, <1>7, KeyUsers DEF KeyInv, Sweeping
  <2> QED BY <1>5, <2>1, <2>2
<1> QED BY <1>3, <1>4, <1>6, <1>7 DEF KeyInv

\* A step that writes nothing and begins or ends no verdict is no step of the contract.
LEMMA QuietPromised ==
  ASSUME UNCHANGED <<now, deadline>>, UNCHANGED store,
         \A t \in Tasks : pc'[t] = "decide_save" <=> pc[t] = "decide_save",
         \A t \in Tasks : pc[t] = "decide_save" => req'[t] = req[t]
  PROVE  Promised
  BY AcceptedStays, OutcomeStays, PromisedSteps

\* The contract takes back a verdict whose task was stopped.
LEMMA WithdrawPromised ==
  ASSUME SinglePod, IInv, UNCHANGED <<now, deadline>>, UNCHANGED store,
         NEW t \in Tasks, pc[t] = "decide_save",
         \A u \in Tasks : pc'[u] = "decide_save" => u # t /\ pc[u] = "decide_save"
  PROVE  Promised
<1>1. PICK r : r = req[t]
  OBVIOUS
<1>2. r \in Requests
  BY <1>1 DEF IInv, TypeOK
<1>3. Accepted = {r} /\ Accepted' = {}
  BY <1>1, AcceptedEnds
<1>4. r \in Accepted /\ Accepted' = Accepted \ {r}
  BY <1>3
<1> QED BY <1>2, <1>4, OutcomeStays, PromisedSteps

\* Every step of one pod on Redis is a step of the contract, or none.
LEMMA NextPromised ==
  ASSUME SinglePod, Durable, IInv, KeyInv, [Next]_vars
  PROVE  Promised
<1>t. /\ active \in [Requests -> Stored] /\ archive \in [Requests -> Stored] /\ TypeOK
      /\ \A t \in Tasks : req[t] \in Requests
  BY DEF IInv, TypeOK
<1>1. ASSUME NEW t \in Tasks, NEW p \in Pods, NEW r \in Requests, SubmitStart(t, p, r)
      PROVE  Promised
  <2>1. /\ \A u \in Tasks : pc'[u] = "decide_save" <=> pc[u] = "decide_save"
        /\ \A u \in Tasks : pc[u] = "decide_save" => req'[u] = req[u]
    BY <1>1, <1>t DEF SubmitStart, Goto, TypeOK
  <2>2. UNCHANGED store /\ now' = now /\ deadline[r] = 0
        /\ deadline' = [deadline EXCEPT ![r] = now + Timeout]
    BY <1>1 DEF SubmitStart
  <2> QED BY <2>1, <2>2, AcceptedStays, OutcomeStays, PromisedSteps
<1>2. ASSUME NEW t \in Tasks, NEW p \in Pods, NEW r \in Requests, NEW v \in Verdicts,
             DecideAccept(t, p, r, v)
      PROVE  Promised
  <2>1. /\ pc[t] = "idle" /\ active[r] = "PENDING" /\ now < deadline[r]
        /\ UNCHANGED <<now, deadline>> /\ UNCHANGED store
        /\ \A u \in Tasks : pc'[u] = IF u = t THEN "decide_save" ELSE pc[u]
        /\ \A u \in Tasks : req'[u] = IF u = t THEN r ELSE req[u]
    BY <1>2, <1>t DEF DecideAccept, Goto, TypeOK
  <2>2. Accepted' = Accepted \cup {r}
    BY <2>1 DEF Accepted
  <2>3. Outcomes[r] = "PENDING"
    BY <2>1 DEF Outcomes, Outcome, Visible
  <2> QED BY <2>1, <2>2, <2>3, OutcomeStays, PromisedSteps
<1>3. ASSUME NEW t \in Tasks, NEW p \in Pods, NEW r \in Requests,
             DecideLate(t, p, r) \/ SweepStart(t, p)
      PROVE  Promised
  <2>1. /\ UNCHANGED <<now, deadline>> /\ UNCHANGED store
        /\ \A u \in Tasks : pc'[u] = "decide_save" <=> pc[u] = "decide_save"
        /\ \A u \in Tasks : pc[u] = "decide_save" => req'[u] = req[u]
    BY <1>3, <1>t DEF DecideLate, SweepStart, MarkExpired, Goto, TypeOK
  <2> QED BY <2>1, QuietPromised
<1>4. ASSUME NEW t \in Tasks, Archiving(t) PROVE Promised
  <2>1. Accepted' = Accepted
    BY <1>4, AcceptedStays DEF Archiving, Elsewhere
  <2> QED BY <1>4, <2>1, ArchivePromised DEF Archiving
<1>5. ASSUME NEW t \in Tasks, Saving(t) PROVE Promised
  BY <1>5, SavePromised DEF Saving, Elsewhere
<1>6. ASSUME NEW t \in Tasks, Resume(t), UNCHANGED store PROVE Promised
  <2>1. CASE \/ SubmitRefuse(t) \/ SubmitCount(t) \/ SubmitAudit(t) \/ SubmitPublish(t)
             \/ DecideAudit(t) \/ DecidePublish(t) \/ LateAudit(t) \/ LatePublish(t)
             \/ SweepSelect(t) \/ SweepAudit(t) \/ SweepPublish(t) \/ SweepReturn(t)
             \/ \E r \in Requests : SweepMark(t, r)
    <3>1. /\ UNCHANGED <<now, deadline>>
          /\ \A u \in Tasks : pc'[u] = "decide_save" <=> pc[u] = "decide_save"
          /\ \A u \in Tasks : pc[u] = "decide_save" => req'[u] = req[u]
      BY <2>1, <1>t DEF SubmitRefuse, SubmitCount, SubmitAudit, SubmitPublish, DecideAudit,
         DecidePublish, LateAudit, LatePublish, SweepSelect, SweepAudit, SweepPublish,
         SweepReturn, SweepMark, Goto, Finish, frame, TypeOK
    <3> QED BY <1>6, <3>1, QuietPromised
  <2>2. CASE SubmitSave(t) \/ DecideSave(t)
    BY <2>2, <1>5, <1>t DEF SubmitSave, DecideSave, Saving, Elsewhere, Goto, frame, TypeOK
  <2>3. CASE DecideArchive(t) \/ LateArchive(t) \/ SweepArchive(t)
    BY <2>3, <1>4, <1>t DEF DecideArchive, LateArchive, SweepArchive, Archiving, Elsewhere, Goto,
       frame, TypeOK
  <2> QED BY <1>6, <2>1, <2>2, <2>3 DEF Resume
<1>7. ASSUME NEW t \in Tasks, Fail(t) PROVE Promised
  <2>1. /\ UNCHANGED <<now, deadline>> /\ UNCHANGED store /\ pc'[t] = "idle"
        /\ \A u \in Tasks : u # t => pc'[u] = pc[u] /\ req'[u] = req[u]
    BY <1>7, <1>t DEF Fail, Finish, Goto, TypeOK
  <2>2. CASE pc[t] = "decide_save"
    BY <2>1, <2>2, WithdrawPromised
  <2>3. CASE pc[t] # "decide_save"
    BY <2>1, <2>3, QuietPromised
  <2> QED BY <2>2, <2>3
<1>8. ASSUME NEW p \in Pods, Crash(p) PROVE Promised
  <2>1. /\ UNCHANGED <<now, deadline>> /\ UNCHANGED store
        /\ \A u \in Tasks : pc'[u] = "idle"
    BY <1>8, <1>t DEF Crash, SinglePod, TypeOK
  <2>2. CASE \E t \in Tasks : pc[t] = "decide_save"
    BY <2>1, <2>2, WithdrawPromised
  <2>3. CASE ~\E t \in Tasks : pc[t] = "decide_save"
    BY <2>1, <2>3, QuietPromised
  <2> QED BY <2>2, <2>3
<1>9. ASSUME NEW r \in Requests, KeyExpires(r) PROVE Promised
  <2>1. /\ active[r] # "ABSENT" /\ now >= deadline[r] + Grace
        /\ active' = [active EXCEPT ![r] = "ABSENT"] /\ UNCHANGED <<pending, archive>>
        /\ UNCHANGED <<now, deadline, pc, req>>
        /\ \A t \in Tasks : pc[t] # "idle" => req[t] # r
    BY <1>9 DEF KeyExpires, frame
  <2>2. Outcome(r) \in Verdicts \cup {"PENDING"}
    BY <1>t, <2>1 DEF Outcome, Visible, KeyInv, Stored, Statuses
  <2>3. Outcome(r)' = "FORGOTTEN"
    BY <1>t, <2>1 DEF Outcome, Visible, IInv, QueueConsistent
  <2>4. OnlyFor(r)
    BY <1>t, <2>1 DEF OnlyFor
  <2>5. Outcomes' = [Outcomes EXCEPT ![r] = "FORGOTTEN"] /\ Outcomes[r] = Outcome(r)
    BY <2>3, <2>4, OutcomeMoves DEF Outcomes
  <2>6. r \notin Accepted /\ Accepted' = Accepted
    BY <2>1 DEF Accepted
  <2> QED BY <2>1, <2>2, <2>5, <2>6, PromisedSteps
<1>10. CASE Tick \/ UNCHANGED vars
  <2>1. /\ UNCHANGED deadline /\ UNCHANGED store /\ UNCHANGED <<pc, req>>
        /\ now' = now + 1 \/ now' = now
    BY <1>10 DEF Tick, vars, frame
  <2>2. Outcomes' = Outcomes /\ Accepted' = Accepted
    BY <2>1, OutcomeStays DEF Accepted
  <2> QED BY <2>1, <2>2, PromisedSteps
<1>11. ASSUME NEW t \in Tasks, Start(t) PROVE Promised
  <2>1. SweepPods \subseteq Pods /\ \E r : r \in Requests
    BY GatewayAssumption
  <2> QED BY <1>1, <1>2, <1>3, <1>11, <2>1 DEF Start
<1>12. ASSUME NEW t \in Tasks, LostReply(t) PROVE Promised
  <2>1. pc'[t] = "idle" /\ Elsewhere(t) /\ UNCHANGED <<now, deadline>>
    BY <1>12, <1>t DEF LostReply, Finish, Goto, Elsewhere, TypeOK
  <2>2. Archiving(t) \/ Saving(t)
    BY <1>12, <2>1 DEF LostReply, Archiving, Saving, Locking
  <2> QED BY <1>4, <1>5, <2>2
<1>13. ASSUME NEW t \in Tasks, Resume(t) PROVE Promised
  <2>1. CASE UNCHANGED store
    BY <1>6, <1>13, <2>1
  <2>2. CASE ~UNCHANGED store
    <3>1. CASE \E u \in Tasks : Archiving(u) \/ Saving(u)
      BY <1>4, <1>5, <3>1
    <3>2. CASE \E r \in Requests : KeyExpires(r)
      BY <1>9, <3>2
    <3> QED BY <1>t, <2>2, <3>1, <3>2, StoreMoves
  <2> QED BY <2>1, <2>2
<1> QED BY <1>7, <1>8, <1>9, <1>10, <1>11, <1>12, <1>13 DEF Next

\* One gateway process on Redis keeps the contract of HITLOversight, with any number of
\* requests and coroutines and whatever calls fail or pods restart: a verdict counts only
\* if it was accepted before the deadline, and what was left undecided can only expire
\* (hitl_gateway.py:166-273).
THEOREM OversightKept == ASSUME SinglePod, Durable PROVE Spec => ImplementsOversight
<1>1. Init => KeyInv
  BY DEF Init, KeyInv, Expiring, Sweeping
<1>2. Init => Oversight!Init
  BY DEF Init, Oversight!Init, Outcome, Visible
<1>3. KeyInv /\ IInv /\ [Next]_vars => KeyInv'
  BY SinglePod, Durable, NextKeys
<1>4. KeyInv /\ IInv /\ [Next]_vars => [Oversight!Next]_Oversight!vars
  BY SinglePod, Durable, NextPromised DEF Promised
<1> QED BY SinglePod, <1>1, <1>2, <1>3, <1>4, InvCorrect, PTL
       DEF Spec, ImplementsOversight, Oversight!Spec
================================================================================
