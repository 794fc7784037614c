--------------------------- MODULE HITLGatewayProofs ---------------------------
(* Theorems about HITLGateway, for every value of its constants. *)
EXTENDS HITLGateway, FiniteSetTheorems, TLAPS

--------------------------------------------------------------------------------
(* Type correctness *)

\* The defaults a finished task's locals return to are of their type.
LEMMA DefaultsType == SomePod \in Pods /\ SomeRequest \in Requests
  BY GatewayAssumption DEF SomePod, SomeRequest

\* Init gives every variable a value of its type.
LEMMA InitType == Init => TypeOK
  BY DefaultsType, GatewayAssumption
  DEF Init, TypeOK, Stored, Statuses, Verdicts, Points

\* No operation, failure or restart takes a variable out of its type.
LEMMA NextType == TypeOK /\ [Next]_vars => TypeOK'
<1> SUFFICES ASSUME TypeOK, [Next]_vars PROVE TypeOK'
  OBVIOUS
<1> USE DefaultsType, GatewayAssumption
    DEF TypeOK, Stored, Statuses, Verdicts, Points, store, outputs, budget, frame,
        Free, Goto, Take, Release, Gauge, Audit, Publish
<1>1. ASSUME NEW t \in Tasks, NEW p \in Pods, NEW r \in Requests, SubmitStart(t, p, r)
      PROVE  TypeOK'
  BY <1>1 DEF SubmitStart
<1>2. ASSUME NEW t \in Tasks, SubmitRefuse(t)
      PROVE  TypeOK'
  BY <1>2 DEF SubmitRefuse, Finish
<1>3. ASSUME NEW t \in Tasks, SubmitCount(t)
      PROVE  TypeOK'
  BY <1>3 DEF SubmitCount
<1>4. ASSUME NEW t \in Tasks, SubmitSave(t)
      PROVE  TypeOK'
  BY <1>4 DEF SubmitSave, Save
<1>5. ASSUME NEW t \in Tasks, SubmitAudit(t)
      PROVE  TypeOK'
  BY <1>5 DEF SubmitAudit
<1>6. ASSUME NEW t \in Tasks, SubmitPublish(t)
      PROVE  TypeOK'
  BY <1>6 DEF SubmitPublish, Finish, Visible
<1>7. ASSUME NEW t \in Tasks, NEW p \in Pods, NEW r \in Requests, DecideLate(t, p, r)
      PROVE  TypeOK'
  BY <1>7 DEF DecideLate, MarkExpired
<1>8. ASSUME NEW t \in Tasks, NEW p \in Pods, NEW r \in Requests, NEW v \in Verdicts,
             DecideAccept(t, p, r, v)
      PROVE  TypeOK'
  BY <1>8 DEF DecideAccept
<1>9. ASSUME NEW t \in Tasks, DecideSave(t)
      PROVE  TypeOK'
  BY <1>9 DEF DecideSave, Save
<1>10. ASSUME NEW t \in Tasks, DecideArchive(t)
      PROVE  TypeOK'
  BY <1>10 DEF DecideArchive, Archive
<1>11. ASSUME NEW t \in Tasks, DecideAudit(t)
      PROVE  TypeOK'
  BY <1>11 DEF DecideAudit
<1>12. ASSUME NEW t \in Tasks, DecidePublish(t)
      PROVE  TypeOK'
  BY <1>12 DEF DecidePublish, Finish
<1>13. ASSUME NEW t \in Tasks, LateArchive(t)
      PROVE  TypeOK'
  BY <1>13 DEF LateArchive, Archive
<1>14. ASSUME NEW t \in Tasks, LateAudit(t)
      PROVE  TypeOK'
  BY <1>14 DEF LateAudit
<1>15. ASSUME NEW t \in Tasks, LatePublish(t)
      PROVE  TypeOK'
  BY <1>15 DEF LatePublish, Finish
<1>16. ASSUME NEW t \in Tasks, NEW p \in Pods, SweepStart(t, p)
      PROVE  TypeOK'
  BY <1>16 DEF SweepStart
<1>17. ASSUME NEW t \in Tasks, SweepSelect(t)
      PROVE  TypeOK'
  BY <1>17 DEF SweepSelect
<1>18. ASSUME NEW t \in Tasks, NEW r \in Requests, SweepMark(t, r)
      PROVE  TypeOK'
  <2>1. /\ active' \in [Requests -> Stored] /\ archive' \in [Requests -> Stored]
        /\ pending' = pending
    BY <1>18 DEF SweepMark, MarkExpired
  <2>2. /\ pc' \in [Tasks -> Points] /\ req' \in [Tasks -> Requests]
        /\ verdict' \in [Tasks -> Statuses] /\ batch' \in [Tasks -> SUBSET Requests]
        /\ gauge' \in [Pods -> Int]
    BY <1>18 DEF SweepMark
  <2>3. UNCHANGED <<now, deadline, lock, pod, audit, published, decisions, returned, faults, crashes>>
    BY <1>18 DEF SweepMark
  <2> QED BY <2>1, <2>2, <2>3
<1>19. ASSUME NEW t \in Tasks, SweepAudit(t)
      PROVE  TypeOK'
  BY <1>19 DEF SweepAudit
<1>20. ASSUME NEW t \in Tasks, SweepPublish(t)
      PROVE  TypeOK'
  BY <1>20 DEF SweepPublish
<1>21. ASSUME NEW t \in Tasks, SweepArchive(t)
      PROVE  TypeOK'
  BY <1>21 DEF SweepArchive, Archive
<1>22. ASSUME NEW t \in Tasks, SweepReturn(t)
      PROVE  TypeOK'
  BY <1>22 DEF SweepReturn, Finish
<1>23. CASE Tick
  BY <1>23 DEF Tick
<1>24. ASSUME NEW t \in Tasks, Fail(t)
      PROVE  TypeOK'
  BY <1>24 DEF Fail, Finish
<1>25. ASSUME NEW t \in Tasks, LostReply(t)
      PROVE  TypeOK'
  <2>1. /\ active' \in [Requests -> Stored] /\ pending' \in SUBSET Requests
        /\ archive' \in [Requests -> Stored]
    <3>1. CASE pc[t] = "submit_save" /\ Save(req[t], "PENDING") /\ UNCHANGED archive
      BY <3>1 DEF Save
    <3>2. CASE pc[t] = "decide_save" /\ Save(req[t], verdict[t]) /\ UNCHANGED archive
      BY <3>2 DEF Save
    <3>3. CASE Archive(t)
      BY <3>3 DEF Archive
    <3> QED BY <1>25, <3>1, <3>2, <3>3 DEF LostReply
  <2>2. /\ pc' \in [Tasks -> Points] /\ pod' \in [Tasks -> Pods] /\ req' \in [Tasks -> Requests]
        /\ verdict' \in [Tasks -> Statuses] /\ batch' \in [Tasks -> SUBSET Requests]
    BY <1>25 DEF LostReply, Finish
  <2>3. /\ lock' \in [Pods -> Tasks \cup {NoTask}] /\ faults' \in Nat
        /\ UNCHANGED <<now, deadline, gauge, audit, published, decisions, returned, crashes>>
    BY <1>25 DEF LostReply
  <2> QED BY <2>1, <2>2, <2>3
<1>26. ASSUME NEW p \in Pods, Crash(p)
      PROVE  TypeOK'
  BY <1>26 DEF Crash
<1>27. ASSUME NEW r \in Requests, KeyExpires(r)
      PROVE  TypeOK'
  BY <1>27 DEF KeyExpires
<1>28. CASE UNCHANGED vars
  BY <1>28 DEF vars
<1> HIDE DEF TypeOK, Stored, Statuses, Verdicts, Points, store, outputs, budget, frame,
             Free, Goto, Take, Release, Gauge, Audit, Publish
<1>29. QED
  BY <1>1, <1>2, <1>3, <1>4, <1>5, <1>6, <1>7, <1>8, <1>9, <1>10, <1>11, <1>12, <1>13,
     <1>14, <1>15, <1>16, <1>17, <1>18, <1>19, <1>20, <1>21, <1>22, <1>23, <1>24, <1>25,
     <1>26, <1>27, <1>28
  DEF Next, Start, Resume

\* The variables of the gateway keep their types on any number of pods, with
\* either store and under any failures.
THEOREM TypeCorrect == Spec => []TypeOK
  BY InitType, NextType, PTL DEF Spec

--------------------------------------------------------------------------------
(* The audit record comes before the event *)

\* A task about to publish has written the audit record of the same outcome.
AuditInv ==
  \A t \in Tasks :
    /\ pc[t] = "submit_publish" => "PENDING" \in audit[req[t]]
    /\ pc[t] = "decide_publish" => verdict[t] \in audit[req[t]]
    /\ pc[t] \in {"late_publish", "sweep_publish"} => "EXPIRED" \in audit[req[t]]

\* Each handler writes its record before it publishes, and records are never removed.
LEMMA NextAudited ==
  TypeOK /\ AuditInv /\ AuditedBeforeAnnounced /\ [Next]_vars =>
    AuditInv' /\ AuditedBeforeAnnounced'
<1> SUFFICES ASSUME TypeOK, AuditInv, AuditedBeforeAnnounced, [Next]_vars
             PROVE  AuditInv' /\ AuditedBeforeAnnounced'
  OBVIOUS
<1> USE DefaultsType, GatewayAssumption
    DEF TypeOK, AuditInv, AuditedBeforeAnnounced, outputs, budget, frame,
        Free, Goto, Take, Release, Gauge, Audit, Publish
<1>1. ASSUME NEW t \in Tasks, NEW p \in Pods, NEW r \in Requests, SubmitStart(t, p, r)
      PROVE  AuditInv' /\ AuditedBeforeAnnounced'
  BY <1>1 DEF SubmitStart
<1>2. ASSUME NEW t \in Tasks, SubmitRefuse(t)
      PROVE  AuditInv' /\ AuditedBeforeAnnounced'
  BY <1>2 DEF SubmitRefuse, Finish
<1>3. ASSUME NEW t \in Tasks, SubmitCount(t)
      PROVE  AuditInv' /\ AuditedBeforeAnnounced'
  BY <1>3 DEF SubmitCount
<1>4. ASSUME NEW t \in Tasks, SubmitSave(t)
      PROVE  AuditInv' /\ AuditedBeforeAnnounced'
  BY <1>4 DEF SubmitSave
<1>5. ASSUME NEW t \in Tasks, SubmitAudit(t)
      PROVE  AuditInv' /\ AuditedBeforeAnnounced'
  BY <1>5 DEF SubmitAudit
<1>6. ASSUME NEW t \in Tasks, SubmitPublish(t)
      PROVE  AuditInv' /\ AuditedBeforeAnnounced'
  BY <1>6 DEF SubmitPublish, Finish
<1>7. ASSUME NEW t \in Tasks, NEW p \in Pods, NEW r \in Requests, DecideLate(t, p, r)
      PROVE  AuditInv' /\ AuditedBeforeAnnounced'
  BY <1>7 DEF DecideLate
<1>8. ASSUME NEW t \in Tasks, NEW p \in Pods, NEW r \in Requests, NEW v \in Verdicts,
             DecideAccept(t, p, r, v)
      PROVE  AuditInv' /\ AuditedBeforeAnnounced'
  BY <1>8 DEF DecideAccept
<1>9. ASSUME NEW t \in Tasks, DecideSave(t)
      PROVE  AuditInv' /\ AuditedBeforeAnnounced'
  BY <1>9 DEF DecideSave
<1>10. ASSUME NEW t \in Tasks, DecideArchive(t)
      PROVE  AuditInv' /\ AuditedBeforeAnnounced'
  BY <1>10 DEF DecideArchive
<1>11. ASSUME NEW t \in Tasks, DecideAudit(t)
      PROVE  AuditInv' /\ AuditedBeforeAnnounced'
  BY <1>11 DEF DecideAudit
<1>12. ASSUME NEW t \in Tasks, DecidePublish(t)
      PROVE  AuditInv' /\ AuditedBeforeAnnounced'
  BY <1>12 DEF DecidePublish, Finish
<1>13. ASSUME NEW t \in Tasks, LateArchive(t)
      PROVE  AuditInv' /\ AuditedBeforeAnnounced'
  BY <1>13 DEF LateArchive
<1>14. ASSUME NEW t \in Tasks, LateAudit(t)
      PROVE  AuditInv' /\ AuditedBeforeAnnounced'
  BY <1>14 DEF LateAudit
<1>15. ASSUME NEW t \in Tasks, LatePublish(t)
      PROVE  AuditInv' /\ AuditedBeforeAnnounced'
  BY <1>15 DEF LatePublish, Finish
<1>16. ASSUME NEW t \in Tasks, NEW p \in Pods, SweepStart(t, p)
      PROVE  AuditInv' /\ AuditedBeforeAnnounced'
  BY <1>16 DEF SweepStart
<1>17. ASSUME NEW t \in Tasks, SweepSelect(t)
      PROVE  AuditInv' /\ AuditedBeforeAnnounced'
  BY <1>17 DEF SweepSelect
<1>18. ASSUME NEW t \in Tasks, NEW r \in Requests, SweepMark(t, r)
      PROVE  AuditInv' /\ AuditedBeforeAnnounced'
  BY <1>18 DEF SweepMark
<1>19. ASSUME NEW t \in Tasks, SweepAudit(t)
      PROVE  AuditInv' /\ AuditedBeforeAnnounced'
  BY <1>19 DEF SweepAudit
<1>20. ASSUME NEW t \in Tasks, SweepPublish(t)
      PROVE  AuditInv' /\ AuditedBeforeAnnounced'
  BY <1>20 DEF SweepPublish
<1>21. ASSUME NEW t \in Tasks, SweepArchive(t)
      PROVE  AuditInv' /\ AuditedBeforeAnnounced'
  BY <1>21 DEF SweepArchive
<1>22. ASSUME NEW t \in Tasks, SweepReturn(t)
      PROVE  AuditInv' /\ AuditedBeforeAnnounced'
  BY <1>22 DEF SweepReturn, Finish
<1>23. CASE Tick
  BY <1>23 DEF Tick
<1>24. ASSUME NEW t \in Tasks, Fail(t)
      PROVE  AuditInv' /\ AuditedBeforeAnnounced'
  BY <1>24 DEF Fail, Finish
<1>25. ASSUME NEW t \in Tasks, LostReply(t)
      PROVE  AuditInv' /\ AuditedBeforeAnnounced'
  BY <1>25 DEF LostReply, Finish
<1>26. ASSUME NEW p \in Pods, Crash(p)
      PROVE  AuditInv' /\ AuditedBeforeAnnounced'
  BY <1>26 DEF Crash
<1>27. ASSUME NEW r \in Requests, KeyExpires(r)
      PROVE  AuditInv' /\ AuditedBeforeAnnounced'
  BY <1>27 DEF KeyExpires
<1>28. CASE UNCHANGED vars
  BY <1>28 DEF vars
<1> HIDE DEF TypeOK, AuditInv, AuditedBeforeAnnounced, outputs, budget, frame,
             Free, Goto, Take, Release, Gauge, Audit, Publish
<1>29. QED
  BY <1>1, <1>2, <1>3, <1>4, <1>5, <1>6, <1>7, <1>8, <1>9, <1>10, <1>11, <1>12, <1>13,
     <1>14, <1>15, <1>16, <1>17, <1>18, <1>19, <1>20, <1>21, <1>22, <1>23, <1>24,
     <1>25, <1>26, <1>27, <1>28
  DEF Next, Start, Resume

\* Whatever fails or crashes, on any number of pods, an event about a request is
\* on the broker only if the audit log has a record of the same outcome.
THEOREM AuditedFirst == Spec => []AuditedBeforeAnnounced
<1>1. Init => AuditInv /\ AuditedBeforeAnnounced
  BY DEF Init, AuditInv, AuditedBeforeAnnounced
<1>2. QED
  BY TypeCorrect, NextAudited, <1>1, PTL DEF Spec

--------------------------------------------------------------------------------
(* The lock of each pod *)

\* A task inside a critical section holds the lock of its pod.
LockInv == \A t \in Tasks : pc[t] \in Locked => lock[pod[t]] = t

\* A lock that is taken belongs to a task of that pod inside a critical section: no
\* operation that fails, returns or is refused leaves it behind, so nobody waits for
\* a lock that is never released (the "async with self._lock" blocks,
\* hitl_gateway.py:120, 171, 195, 204, 265, 270).
LocksHeld ==
  \A p \in Pods : lock[p] # NoTask => pc[lock[p]] \in Locked /\ pod[lock[p]] = p

\* Every operation, failure and restart gives back what it took.
LEMMA NextLocks ==
  TypeOK /\ LockInv /\ LocksHeld /\ [Next]_vars => LockInv' /\ LocksHeld'
<1> SUFFICES ASSUME TypeOK, LockInv, LocksHeld, [Next]_vars
             PROVE  LockInv' /\ LocksHeld'
  OBVIOUS
<1> USE DefaultsType, GatewayAssumption
    DEF TypeOK, Points, store, outputs, budget, frame, LockInv, LocksHeld, Locked,
        Free, Goto, Take, Release
<1>1. ASSUME NEW t \in Tasks, NEW p \in Pods, NEW r \in Requests, SubmitStart(t, p, r)
      PROVE  LockInv' /\ LocksHeld'
  BY <1>1 DEF SubmitStart
<1>2. ASSUME NEW t \in Tasks, SubmitRefuse(t)
      PROVE  LockInv' /\ LocksHeld'
  BY <1>2 DEF SubmitRefuse, Finish
<1>3. ASSUME NEW t \in Tasks, SubmitCount(t)
      PROVE  LockInv' /\ LocksHeld'
  BY <1>3 DEF SubmitCount
<1>4. ASSUME NEW t \in Tasks, SubmitSave(t)
      PROVE  LockInv' /\ LocksHeld'
  BY <1>4 DEF SubmitSave
<1>5. ASSUME NEW t \in Tasks, SubmitAudit(t)
      PROVE  LockInv' /\ LocksHeld'
  BY <1>5 DEF SubmitAudit
<1>6. ASSUME NEW t \in Tasks, SubmitPublish(t)
      PROVE  LockInv' /\ LocksHeld'
  BY <1>6 DEF SubmitPublish, Finish
<1>7. ASSUME NEW t \in Tasks, NEW p \in Pods, NEW r \in Requests, DecideLate(t, p, r)
      PROVE  LockInv' /\ LocksHeld'
  BY <1>7 DEF DecideLate
<1>8. ASSUME NEW t \in Tasks, NEW p \in Pods, NEW r \in Requests, NEW v \in Verdicts,
             DecideAccept(t, p, r, v)
      PROVE  LockInv' /\ LocksHeld'
  BY <1>8 DEF DecideAccept
<1>9. ASSUME NEW t \in Tasks, DecideSave(t)
      PROVE  LockInv' /\ LocksHeld'
  BY <1>9 DEF DecideSave
<1>10. ASSUME NEW t \in Tasks, DecideArchive(t)
      PROVE  LockInv' /\ LocksHeld'
  BY <1>10 DEF DecideArchive
<1>11. ASSUME NEW t \in Tasks, DecideAudit(t)
      PROVE  LockInv' /\ LocksHeld'
  BY <1>11 DEF DecideAudit
<1>12. ASSUME NEW t \in Tasks, DecidePublish(t)
      PROVE  LockInv' /\ LocksHeld'
  BY <1>12 DEF DecidePublish, Finish
<1>13. ASSUME NEW t \in Tasks, LateArchive(t)
      PROVE  LockInv' /\ LocksHeld'
  BY <1>13 DEF LateArchive
<1>14. ASSUME NEW t \in Tasks, LateAudit(t)
      PROVE  LockInv' /\ LocksHeld'
  BY <1>14 DEF LateAudit
<1>15. ASSUME NEW t \in Tasks, LatePublish(t)
      PROVE  LockInv' /\ LocksHeld'
  BY <1>15 DEF LatePublish, Finish
<1>16. ASSUME NEW t \in Tasks, NEW p \in Pods, SweepStart(t, p)
      PROVE  LockInv' /\ LocksHeld'
  BY <1>16 DEF SweepStart
<1>17. ASSUME NEW t \in Tasks, SweepSelect(t)
      PROVE  LockInv' /\ LocksHeld'
  BY <1>17 DEF SweepSelect
<1>18. ASSUME NEW t \in Tasks, NEW r \in Requests, SweepMark(t, r)
      PROVE  LockInv' /\ LocksHeld'
  BY <1>18 DEF SweepMark
<1>19. ASSUME NEW t \in Tasks, SweepAudit(t)
      PROVE  LockInv' /\ LocksHeld'
  BY <1>19 DEF SweepAudit
<1>20. ASSUME NEW t \in Tasks, SweepPublish(t)
      PROVE  LockInv' /\ LocksHeld'
  BY <1>20 DEF SweepPublish
<1>21. ASSUME NEW t \in Tasks, SweepArchive(t)
      PROVE  LockInv' /\ LocksHeld'
  BY <1>21 DEF SweepArchive
<1>22. ASSUME NEW t \in Tasks, SweepReturn(t)
      PROVE  LockInv' /\ LocksHeld'
  BY <1>22 DEF SweepReturn, Finish
<1>23. CASE Tick
  BY <1>23 DEF Tick
<1>24. ASSUME NEW t \in Tasks, Fail(t)
      PROVE  LockInv' /\ LocksHeld'
  BY <1>24 DEF Fail, Finish
<1>25. ASSUME NEW t \in Tasks, LostReply(t)
      PROVE  LockInv' /\ LocksHeld'
  BY <1>25 DEF LostReply, Finish
<1>26. ASSUME NEW p \in Pods, Crash(p)
      PROVE  LockInv' /\ LocksHeld'
  BY <1>26 DEF Crash
<1>27. ASSUME NEW r \in Requests, KeyExpires(r)
      PROVE  LockInv' /\ LocksHeld'
  BY <1>27 DEF KeyExpires
<1>28. CASE UNCHANGED vars
  BY <1>28 DEF vars
<1> HIDE DEF TypeOK, Points, store, outputs, budget, frame, LockInv, LocksHeld, Locked,
             Free, Goto, Take, Release
<1> QED
  BY <1>1, <1>2, <1>3, <1>4, <1>5, <1>6, <1>7, <1>8, <1>9, <1>10, <1>11, <1>12, <1>13, 
     <1>14, <1>15, <1>16, <1>17, <1>18, <1>19, <1>20, <1>21, <1>22, <1>23, <1>24, <1>25, 
     <1>26, <1>27, <1>28
  DEF Next, Start, Resume

\* Every lock is free at the start.
LEMMA InitLocks == Init => LockInv /\ LocksHeld
  BY DEF Init, LockInv, LocksHeld, Locked

\* On any number of pods a lock is held exactly while its owner is inside a critical
\* section of that pod, whatever fails or restarts.
THEOREM LocksNeverLeak == Spec => [](LockInv /\ LocksHeld)
  BY InitLocks, TypeCorrect, NextLocks, PTL DEF Spec

--------------------------------------------------------------------------------
(* Nobody is expired early *)

\* Whoever is told that a request expired, by the store, by the agent's call, by the
\* audit log or by the broker, is told so after its deadline: neither a late answer nor
\* a sweep, on whichever pod, takes time away from the reviewers (expires_at,
\* hitl_gateway.py:110-118, 184-191, 258-282).
NoEarlyExpiry == \A r \in Requests : "EXPIRED" \in Seen(r) => now >= deadline[r]

\* The points at which a task works on its request, those at which it expires it, and
\* those at which it has a reviewer's verdict.
Handling == Points \ {"idle", "sweep_select", "sweep_next"}
Expiry   == {"late_archive", "late_audit", "late_publish",
             "sweep_audit", "sweep_publish", "sweep_archive"}
Deciding == {"decide_save", "decide_archive", "decide_audit", "decide_publish"}

\* Nobody has seen anything of r.
Blank(r) ==
  /\ active[r] = "ABSENT" /\ archive[r] = "ABSENT" /\ returned[r] = "ABSENT"
  /\ audit[r] = {} /\ published[r] = {} /\ r \notin pending

\* A request is blank until it has a deadline; tasks and sweeps hold requests that have
\* one, and those that expire a request do so after it.
EarlyInv ==
  /\ \A r \in Requests : deadline[r] = 0 => Blank(r)
  /\ \A t \in Tasks :
       /\ pc[t] \in Handling => deadline[req[t]] # 0
       /\ pc[t] \in Expiry => now >= deadline[req[t]]
       /\ pc[t] \in Deciding => verdict[t] \in Verdicts
       /\ \A r \in batch[t] : deadline[r] # 0 /\ now >= deadline[r]
  /\ \A r \in Requests :
       /\ active[r] = "EXPIRED" \/ archive[r] = "EXPIRED" \/ returned[r] = "EXPIRED" => now >= deadline[r]
       /\ "EXPIRED" \in audit[r] \cup published[r] => now >= deadline[r]

\* Every step leaves the deadlines of the requests it expires behind it.
LEMMA NextEarly == TypeOK /\ EarlyInv /\ [Next]_vars => EarlyInv'
<1> SUFFICES ASSUME TypeOK, EarlyInv, [Next]_vars PROVE EarlyInv'
  OBVIOUS
<1> USE DefaultsType, GatewayAssumption
    DEF TypeOK, Stored, Statuses, Verdicts, Points, store, outputs, budget, frame,
        Free, Goto, Take, Release, Audit, Publish, EarlyInv, Blank, Handling, Expiry, Deciding
<1>1. ASSUME NEW t \in Tasks, NEW p \in Pods, NEW r \in Requests, SubmitStart(t, p, r)
      PROVE  EarlyInv'
  BY <1>1 DEF SubmitStart
<1>2. ASSUME NEW t \in Tasks, SubmitRefuse(t)
      PROVE  EarlyInv'
  BY <1>2 DEF SubmitRefuse, Finish
<1>3. ASSUME NEW t \in Tasks, SubmitCount(t)
      PROVE  EarlyInv'
  BY <1>3 DEF SubmitCount
<1>4. ASSUME NEW t \in Tasks, SubmitSave(t)
      PROVE  EarlyInv'
  BY <1>4 DEF SubmitSave, Save
<1>5. ASSUME NEW t \in Tasks, SubmitAudit(t)
      PROVE  EarlyInv'
  BY <1>5 DEF SubmitAudit
<1>6. ASSUME NEW t \in Tasks, SubmitPublish(t)
      PROVE  EarlyInv'
  BY <1>6, SMTT(20) DEF SubmitPublish, Finish, Visible
<1>7. ASSUME NEW t \in Tasks, NEW p \in Pods, NEW r \in Requests, DecideLate(t, p, r)
      PROVE  EarlyInv'
  BY <1>7 DEF DecideLate, MarkExpired
<1>8. ASSUME NEW t \in Tasks, NEW p \in Pods, NEW r \in Requests, NEW v \in Verdicts,
             DecideAccept(t, p, r, v)
      PROVE  EarlyInv'
  BY <1>8 DEF DecideAccept
<1>9. ASSUME NEW t \in Tasks, DecideSave(t)
      PROVE  EarlyInv'
  BY <1>9 DEF DecideSave, Save
<1>10. ASSUME NEW t \in Tasks, DecideArchive(t)
      PROVE  EarlyInv'
  BY <1>10, SMTT(20) DEF DecideArchive, Archive
<1>11. ASSUME NEW t \in Tasks, DecideAudit(t)
      PROVE  EarlyInv'
  BY <1>11, SMTT(20) DEF DecideAudit
<1>12. ASSUME NEW t \in Tasks, DecidePublish(t)
      PROVE  EarlyInv'
  BY <1>12 DEF DecidePublish, Finish
<1>13. ASSUME NEW t \in Tasks, LateArchive(t)
      PROVE  EarlyInv'
  BY <1>13 DEF LateArchive, Archive
<1>14. ASSUME NEW t \in Tasks, LateAudit(t)
      PROVE  EarlyInv'
  BY <1>14 DEF LateAudit
<1>15. ASSUME NEW t \in Tasks, LatePublish(t)
      PROVE  EarlyInv'
  BY <1>15 DEF LatePublish, Finish
<1>16. ASSUME NEW t \in Tasks, NEW p \in Pods, SweepStart(t, p)
      PROVE  EarlyInv'
  BY <1>16 DEF SweepStart
<1>17. ASSUME NEW t \in Tasks, SweepSelect(t)
      PROVE  EarlyInv'
  BY <1>17 DEF SweepSelect
<1>18. ASSUME NEW t \in Tasks, NEW r \in Requests, SweepMark(t, r)
      PROVE  EarlyInv'
  BY <1>18 DEF SweepMark, MarkExpired
<1>19. ASSUME NEW t \in Tasks, SweepAudit(t)
      PROVE  EarlyInv'
  BY <1>19 DEF SweepAudit
<1>20. ASSUME NEW t \in Tasks, SweepPublish(t)
      PROVE  EarlyInv'
  BY <1>20 DEF SweepPublish
<1>21. ASSUME NEW t \in Tasks, SweepArchive(t)
      PROVE  EarlyInv'
  BY <1>21, SMTT(20) DEF SweepArchive, Archive
<1>22. ASSUME NEW t \in Tasks, SweepReturn(t)
      PROVE  EarlyInv'
  BY <1>22 DEF SweepReturn, Finish
<1>23. CASE Tick
  BY <1>23 DEF Tick
<1>24. ASSUME NEW t \in Tasks, Fail(t)
      PROVE  EarlyInv'
  BY <1>24 DEF Fail, Finish
<1>25. ASSUME NEW t \in Tasks, LostReply(t)
      PROVE  EarlyInv'
  <2>1. CASE pc[t] = "submit_save" /\ Save(req[t], "PENDING") /\ UNCHANGED archive
    BY <1>25, <2>1, SMTT(20) DEF LostReply, Finish, Save
  <2>2. CASE pc[t] = "decide_save" /\ Save(req[t], verdict[t]) /\ UNCHANGED archive
    BY <1>25, <2>2 DEF LostReply, Finish, Save
  <2>3. CASE pc[t] \in Locking \ {"submit_count"} /\ Archive(t)
    BY <1>25, <2>3 DEF LostReply, Finish, Archive, Locking
  <2> QED BY <1>25, <2>1, <2>2, <2>3 DEF LostReply
<1>26. ASSUME NEW p \in Pods, Crash(p)
      PROVE  EarlyInv'
  BY <1>26 DEF Crash
<1>27. ASSUME NEW r \in Requests, KeyExpires(r)
      PROVE  EarlyInv'
  BY <1>27 DEF KeyExpires
<1>28. CASE UNCHANGED vars
  BY <1>28 DEF vars
<1> HIDE DEF TypeOK, Stored, Statuses, Verdicts, Points, store, outputs, budget, frame,
        Free, Goto, Take, Release, Audit, Publish, EarlyInv, Blank, Handling, Expiry, Deciding
<1> QED
  BY <1>1, <1>2, <1>3, <1>4, <1>5, <1>6, <1>7, <1>8, <1>9, <1>10, <1>11, <1>12, <1>13, 
     <1>14, <1>15, <1>16, <1>17, <1>18, <1>19, <1>20, <1>21, <1>22, <1>23, <1>24, <1>25, 
     <1>26, <1>27, <1>28
  DEF Next, Start, Resume

\* On any number of pods, with either store and under any failures and restarts, no
\* request is expired before its deadline.
THEOREM NeverExpiredEarly == Spec => []NoEarlyExpiry
<1>1. Init => EarlyInv
  BY DefaultsType DEF Init, EarlyInv, Blank, Handling, Expiry, Deciding
<1>2. EarlyInv => NoEarlyExpiry
  BY DEF EarlyInv, NoEarlyExpiry, Seen
<1> QED
  BY <1>1, <1>2, TypeCorrect, NextEarly, PTL DEF Spec

--------------------------------------------------------------------------------
(* Every operation comes to an end *)

\* The awaits an operation has before it from each point; a sweep has four for every
\* candidate besides.
Awaits(l) ==
  CASE l = "idle" -> 0
    [] l \in {"submit_publish", "decide_publish", "late_publish", "sweep_next"} -> 1
    [] l \in {"submit_audit", "decide_audit", "late_audit", "sweep_archive", "sweep_select"} -> 2
    [] l \in {"submit_save", "decide_archive", "late_archive", "sweep_publish"} -> 3
    [] l \in {"submit_count", "decide_save", "sweep_audit"} -> 4

Left(t) == 4 * Cardinality(batch[t]) + Awaits(pc[t])

\* An operation under way only comes nearer to its end: no operation retries or loops,
\* and what others do, the submissions during a sweep included, adds nothing to it
\* (the for loop over the candidates of expire_stale_requests, hitl_gateway.py:265-273).
OperationsEnd ==
  [][\A t \in Tasks :
       pc[t] # "idle" => Left(t)' < Left(t) \/ UNCHANGED <<pc[t], batch[t]>>]_vars

\* The queue and the sweeps' candidates are finite.
FiniteInv == IsFiniteSet(pending) /\ \A t \in Tasks : IsFiniteSet(batch[t])

\* How the queue, the points and the candidates change.
LEMMA QueueGrows ==
  ASSUME TypeOK, [Next]_vars
  PROVE  pending' \subseteq pending \/ \E r \in Requests : pending' = pending \cup {r}
<1> USE DefaultsType, GatewayAssumption DEF TypeOK, store, Save, Archive, MarkExpired
<1>1. ASSUME NEW t \in Tasks, SubmitSave(t) \/ DecideSave(t) \/ LostReply(t)
      PROVE  pending' \subseteq pending \/ \E r \in Requests : pending' = pending \cup {r}
  <2>1. req[t] \in Requests
    OBVIOUS
  <2> QED BY <1>1, <2>1 DEF SubmitSave, DecideSave, LostReply
<1>2. ASSUME NEW t \in Tasks, DecideArchive(t) \/ LateArchive(t) \/ SweepArchive(t)
      PROVE  pending' \subseteq pending
  BY <1>2 DEF DecideArchive, LateArchive, SweepArchive
<1>3. ASSUME NEW t \in Tasks, NEW p \in Pods, NEW r \in Requests,
             \/ SubmitStart(t, p, r) \/ DecideLate(t, p, r) \/ SweepStart(t, p)
             \/ \E v \in Verdicts : DecideAccept(t, p, r, v)
      PROVE  pending' = pending
  BY <1>3 DEF SubmitStart, DecideLate, SweepStart, DecideAccept
<1>4. ASSUME NEW t \in Tasks,
             \/ SubmitRefuse(t) \/ SubmitCount(t) \/ SubmitAudit(t) \/ SubmitPublish(t)
             \/ DecideAudit(t) \/ DecidePublish(t) \/ LateAudit(t) \/ LatePublish(t)
             \/ SweepSelect(t) \/ SweepAudit(t) \/ SweepPublish(t) \/ SweepReturn(t)
             \/ Fail(t) \/ \E r \in Requests : SweepMark(t, r)
      PROVE  pending' = pending
  BY <1>4
  DEF SubmitRefuse, SubmitCount, SubmitAudit, SubmitPublish, DecideAudit, DecidePublish,
      LateAudit, LatePublish, SweepSelect, SweepAudit, SweepPublish, SweepReturn, Fail,
      SweepMark
<1>5. CASE Tick \/ UNCHANGED vars \/ (\E p \in Pods : Crash(p)) \/ (\E r \in Requests : KeyExpires(r))
  BY <1>5 DEF Tick, vars, Crash, KeyExpires
<1>6. SweepPods \subseteq Pods /\ \E r : r \in Requests
  OBVIOUS
<1> QED BY <1>1, <1>2, <1>3, <1>4, <1>5, <1>6 DEF Next, Start, Resume

\* An operation that has ended has no candidates left.
LEMMA LeftWhenDone ==
  ASSUME NEW t \in Tasks, pc[t] = "idle", batch[t] = {}
  PROVE  Left(t) = 0
  BY FS_EmptySet DEF Left, Awaits

\* What a task has left is a number, and not zero while it runs.
LEMMA LeftType ==
  ASSUME TypeOK, FiniteInv, NEW t \in Tasks
  PROVE  /\ Cardinality(batch[t]) \in Nat /\ Left(t) \in Nat
         /\ pc[t] # "idle" => Left(t) > 0
<1>1. Cardinality(batch[t]) \in Nat
  BY FS_CardinalityType DEF FiniteInv
<1>2. Awaits(pc[t]) \in Nat /\ (pc[t] # "idle" => Awaits(pc[t]) > 0)
  BY DEF Awaits, TypeOK, Points
<1> QED BY <1>1, <1>2 DEF Left

\* A task's own step brings it nearer to its end.
LEMMA ResumeStep ==
  ASSUME TypeOK, FiniteInv, NEW t \in Tasks, Resume(t) \/ Fail(t) \/ LostReply(t)
  PROVE  IsFiniteSet(batch[t]') /\ Left(t)' < Left(t)
<1>1. /\ pc \in [Tasks -> Points] /\ batch \in [Tasks -> SUBSET Requests]
      /\ IsFiniteSet(batch[t]) /\ Cardinality(batch[t]) \in Nat /\ Left(t) \in Nat
  BY LeftType DEF FiniteInv, TypeOK
<1>2. CASE \/ SubmitRefuse(t) \/ SubmitPublish(t) \/ DecidePublish(t) \/ LatePublish(t)
           \/ SweepReturn(t) \/ Fail(t) \/ LostReply(t)
  <2>1. Finish(t) /\ pc[t] # "idle"
    BY <1>2
    DEF SubmitRefuse, SubmitPublish, DecidePublish, LatePublish, SweepReturn, Fail, LostReply,
        Fallible, Locking, Points
  <2>2. pc'[t] = "idle" /\ batch'[t] = {}
    BY <1>1, <2>1 DEF Finish, Goto
  <2>3. Cardinality(batch'[t]) = 0 /\ IsFiniteSet(batch'[t]) /\ Left(t)' = 0
    BY <2>2, FS_EmptySet DEF Left, Awaits
  <2> QED BY <2>1, <2>3, LeftType
<1>3. CASE \/ SubmitCount(t) \/ SubmitSave(t) \/ SubmitAudit(t)
           \/ DecideSave(t) \/ DecideArchive(t) \/ DecideAudit(t)
           \/ LateArchive(t) \/ LateAudit(t) \/ SweepAudit(t) \/ SweepPublish(t) \/ SweepArchive(t)
  <2>1. batch' = batch
    BY <1>3
    DEF SubmitCount, SubmitSave, SubmitAudit, DecideSave, DecideArchive, DecideAudit,
        LateArchive, LateAudit, SweepAudit, SweepPublish, SweepArchive, frame
  <2>2. /\ Awaits(pc[t]) \in Nat /\ Awaits(pc'[t]) \in Nat /\ Awaits(pc'[t]) < Awaits(pc[t])
    BY <1>1, <1>3
    DEF SubmitCount, SubmitSave, SubmitAudit, DecideSave, DecideArchive, DecideAudit,
        LateArchive, LateAudit, SweepAudit, SweepPublish, SweepArchive, Goto, Awaits
  <2> QED BY <1>1, <2>1, <2>2 DEF Left
<1>4. CASE SweepSelect(t)
  <2>1. /\ pc[t] = "sweep_select" /\ pc'[t] = "sweep_next"
        /\ batch'[t] = {r \in batch[t] : active[r] = "PENDING"}
    BY <1>1, <1>4 DEF SweepSelect, Goto
  <2>2. batch'[t] \subseteq batch[t]
    BY <2>1
  <2>3. /\ IsFiniteSet(batch'[t]) /\ Cardinality(batch'[t]) <= Cardinality(batch[t])
        /\ Cardinality(batch'[t]) \in Nat
    BY <1>1, <2>2, FS_Subset, FS_CardinalityType
  <2> QED BY <1>1, <2>1, <2>3 DEF Left, Awaits
<1>5. ASSUME NEW r \in Requests, SweepMark(t, r)
      PROVE  IsFiniteSet(batch[t]') /\ Left(t)' < Left(t)
  <2>1. /\ pc[t] = "sweep_next" /\ pc'[t] = "sweep_audit" /\ r \in batch[t]
        /\ batch'[t] = batch[t] \ {r}
    BY <1>1, <1>5 DEF SweepMark, Goto
  <2>2. IsFiniteSet(batch'[t]) /\ Cardinality(batch'[t]) = Cardinality(batch[t]) - 1
    BY <1>1, <2>1, FS_RemoveElement
  <2> QED BY <1>1, <2>1, <2>2 DEF Left, Awaits
<1> QED BY <1>2, <1>3, <1>4, <1>5 DEF Resume

\* Whoever moves, each task is where it was, idle, or nearer to its end.
LEMMA EachTask ==
  ASSUME TypeOK, FiniteInv, [Next]_vars, NEW u \in Tasks
  PROVE  /\ IsFiniteSet(batch'[u])
         /\ pc[u] # "idle" => Left(u)' < Left(u) \/ UNCHANGED <<pc[u], batch[u]>>
<1>1. /\ pc \in [Tasks -> Points] /\ batch \in [Tasks -> SUBSET Requests]
      /\ IsFiniteSet(batch[u]) /\ IsFiniteSet(pending)
  BY DEF FiniteInv, TypeOK
<1>2. CASE pc'[u] = pc[u] /\ batch'[u] = batch[u]
  BY <1>1, <1>2
<1>3. ASSUME NEW t \in Tasks, t # u, Start(t) \/ Resume(t) \/ Fail(t) \/ LostReply(t)
      PROVE  pc'[u] = pc[u] /\ batch'[u] = batch[u]
  <2>1. /\ \E l : pc' = [pc EXCEPT ![t] = l]
        /\ batch' = batch \/ \E b : batch' = [batch EXCEPT ![t] = b]
    <3>1. CASE Start(t)
      BY <3>1 DEF Start, SubmitStart, DecideLate, DecideAccept, SweepStart, Goto
    <3>2. CASE Resume(t)
      BY <3>2
      DEF Resume, SubmitRefuse, SubmitCount, SubmitSave, SubmitAudit, SubmitPublish,
          DecideSave, DecideArchive, DecideAudit, DecidePublish,
          LateArchive, LateAudit, LatePublish, SweepSelect, SweepMark, SweepAudit,
          SweepPublish, SweepArchive, SweepReturn, Finish, Goto, frame
    <3>3. CASE Fail(t) \/ LostReply(t)
      BY <3>3 DEF Fail, LostReply, Finish, Goto
    <3> QED BY <1>3, <3>1, <3>2, <3>3
  <2> QED BY <1>1, <1>3, <2>1
<1>4. CASE Start(u)
  <2>1. pc[u] = "idle"
    BY <1>4 DEF Start, SubmitStart, DecideLate, DecideAccept, SweepStart
  <2>2. batch' = batch \/ \E n : batch' = [batch EXCEPT ![u] = {r \in pending : deadline[r] <= n}]
    BY <1>4 DEF Start, SubmitStart, DecideLate, DecideAccept, SweepStart
  <2>3. batch'[u] = batch[u] \/ batch'[u] \subseteq pending
    BY <1>1, <2>2
  <2> QED BY <1>1, <2>1, <2>3, FS_Subset
<1>5. ASSUME NEW p \in Pods, Crash(p)
      PROVE  \/ pc'[u] = pc[u] /\ batch'[u] = batch[u]
             \/ pc'[u] = "idle" /\ batch'[u] = {}
  BY <1>5 DEF Crash
<1>6. CASE pc'[u] = "idle" /\ batch'[u] = {}
  <2>1. IsFiniteSet(batch'[u]) /\ Left(u)' = 0
    BY <1>6, FS_EmptySet DEF Left, Awaits
  <2> QED BY <2>1, LeftType
<1>7. CASE Tick \/ UNCHANGED vars \/ \E r \in Requests : KeyExpires(r)
  BY <1>2, <1>7 DEF Tick, vars, KeyExpires, frame
<1> QED
  BY <1>2, <1>3, <1>4, <1>5, <1>6, <1>7, ResumeStep DEF Next

\* Every operation of the gateway, sweeps over a queue of any size included, takes a
\* bounded number of steps, whatever fails and whatever the others do meanwhile.
THEOREM EveryOperationEnds == Spec => OperationsEnd
<1>1. Init => FiniteInv
  BY FS_EmptySet DEF Init, FiniteInv
<1>2. TypeOK /\ FiniteInv /\ [Next]_vars => FiniteInv'
  <2> SUFFICES ASSUME TypeOK, FiniteInv, [Next]_vars PROVE FiniteInv'
    OBVIOUS
  <2>1. \A t \in Tasks : IsFiniteSet(batch'[t])
    BY EachTask
  <2>2. IsFiniteSet(pending')
    BY QueueGrows, FS_Subset, FS_AddElement DEF FiniteInv
  <2> QED BY <2>1, <2>2 DEF FiniteInv
<1>3. TypeOK /\ FiniteInv /\ [Next]_vars =>
        [\A t \in Tasks :
           pc[t] # "idle" => Left(t)' < Left(t) \/ UNCHANGED <<pc[t], batch[t]>>]_vars
  BY EachTask
<1> QED
  BY <1>1, <1>2, <1>3, TypeCorrect, PTL DEF Spec, OperationsEnd
================================================================================
