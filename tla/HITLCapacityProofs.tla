-------------------------- MODULE HITLCapacityProofs --------------------------
(* On one pod the approval queue never outgrows its capacity; on several it *)
(* does by less than one request a pod.  With the in-memory store the gauge *)
(* never shows more than the queue holds.                                   *)
EXTENDS HITLOutcomeProofs, FiniteSetTheorems

\* Between its count and its save a submission owns the place it found: the lock
\* keeps every other task from adding to the queue.
CapacityInv ==
  /\ IsFiniteSet(pending)
  /\ Cardinality(pending) <= Capacity
  /\ \A t \in Tasks : pc[t] = "submit_save" => Cardinality(pending) < Capacity

\* A step that adds nothing to the queue and sends nobody to submit_save keeps it.
LEMMA QueueShrinks ==
  ASSUME CapacityInv, TypeOK, pending' \subseteq pending,
         \A t \in Tasks : pc'[t] = "submit_save" => pc[t] = "submit_save"
  PROVE  CapacityInv'
<1> USE GatewayAssumption DEF CapacityInv
<1>1. IsFiniteSet(pending') /\ Cardinality(pending') <= Cardinality(pending)
  BY FS_Subset
<1>2. Cardinality(pending) \in Nat /\ Cardinality(pending') \in Nat
  BY <1>1, FS_CardinalityType
<1>3. QED
  BY <1>1, <1>2

\* Only the save of a submission and of a verdict write to the queue, and only the
\* first adds a request to it.
LEMMA NextCapacity == SinglePod /\ IInv /\ CapacityInv /\ [Next]_vars => CapacityInv'
<1> SUFFICES ASSUME SinglePod, IInv, CapacityInv, [Next]_vars PROVE CapacityInv'
  OBVIOUS
<1> USE GatewayAssumption DEF Free, Goto, Take, Release
<1>t. TypeOK
  BY DEF IInv
<1>1. ASSUME NEW t \in Tasks, NEW p \in Pods, NEW r \in Requests, SubmitStart(t, p, r)
      PROVE  CapacityInv'
  BY <1>1, <1>t, QueueShrinks DEF SubmitStart, TypeOK, store
<1>2. ASSUME NEW t \in Tasks, SubmitRefuse(t)
      PROVE  CapacityInv'
  BY <1>2, <1>t, QueueShrinks DEF SubmitRefuse, Finish, TypeOK, store
<1>3. ASSUME NEW t \in Tasks, SubmitCount(t) PROVE CapacityInv'
  BY <1>3, <1>t DEF SubmitCount, CapacityInv, store, TypeOK
<1>4. ASSUME NEW t \in Tasks, SubmitSave(t) PROVE CapacityInv'
  <2> USE <1>4, <1>t DEF SubmitSave, Save
  <2>1. Cardinality(pending) < Capacity /\ IsFiniteSet(pending)
        /\ pending' = pending \cup {req[t]}
    BY DEF CapacityInv
  <2>2. IsFiniteSet(pending')
        /\ Cardinality(pending') \in {Cardinality(pending), Cardinality(pending) + 1}
    BY <2>1, FS_AddElement
  <2>3. \A u \in Tasks : pc'[u] # "submit_save"
    BY DEF TypeOK, IInv, LockInv, Locked, SinglePod
  <2>4. Cardinality(pending) \in Nat
    BY <2>1, FS_CardinalityType
  <2>5. Cardinality(pending') <= Capacity
    BY <2>1, <2>2, <2>4
  <2>6. QED
    BY <2>2, <2>3, <2>5 DEF CapacityInv
<1>5. ASSUME NEW t \in Tasks, SubmitAudit(t)
      PROVE  CapacityInv'
  BY <1>5, <1>t, QueueShrinks DEF SubmitAudit, TypeOK, store
<1>6. ASSUME NEW t \in Tasks, SubmitPublish(t)
      PROVE  CapacityInv'
  BY <1>6, <1>t, QueueShrinks DEF SubmitPublish, Finish, TypeOK, store
<1>7. ASSUME NEW t \in Tasks, NEW p \in Pods, NEW r \in Requests, DecideLate(t, p, r)
      PROVE  CapacityInv'
  BY <1>7, <1>t, QueueShrinks DEF DecideLate, MarkExpired, TypeOK, store
<1>8. ASSUME NEW t \in Tasks, NEW p \in Pods, NEW r \in Requests, NEW v \in Verdicts,
             DecideAccept(t, p, r, v)
      PROVE  CapacityInv'
  BY <1>8, <1>t, QueueShrinks DEF DecideAccept, TypeOK, store
<1>9. ASSUME NEW t \in Tasks, DecideSave(t) PROVE CapacityInv'
  <2> USE <1>9, <1>t DEF DecideSave, Save
  <2>1. pending' = pending
    BY DEF TypeOK, IInv, SaveInv, QueueConsistent
  <2>2. QED
    BY <2>1, QueueShrinks DEF TypeOK
<1>10. ASSUME NEW t \in Tasks, DecideArchive(t)
      PROVE  CapacityInv'
  BY <1>10, <1>t, QueueShrinks DEF DecideArchive, Archive, TypeOK, store
<1>11. ASSUME NEW t \in Tasks, DecideAudit(t)
      PROVE  CapacityInv'
  BY <1>11, <1>t, QueueShrinks DEF DecideAudit, TypeOK, store
<1>12. ASSUME NEW t \in Tasks, DecidePublish(t)
      PROVE  CapacityInv'
  BY <1>12, <1>t, QueueShrinks DEF DecidePublish, Finish, TypeOK, store
<1>13. ASSUME NEW t \in Tasks, LateArchive(t)
      PROVE  CapacityInv'
  BY <1>13, <1>t, QueueShrinks DEF LateArchive, Archive, TypeOK, store
<1>14. ASSUME NEW t \in Tasks, LateAudit(t)
      PROVE  CapacityInv'
  BY <1>14, <1>t, QueueShrinks DEF LateAudit, TypeOK, store
<1>15. ASSUME NEW t \in Tasks, LatePublish(t)
      PROVE  CapacityInv'
  BY <1>15, <1>t, QueueShrinks DEF LatePublish, Finish, TypeOK, store
<1>16. ASSUME NEW t \in Tasks, NEW p \in Pods, SweepStart(t, p)
      PROVE  CapacityInv'
  BY <1>16, <1>t, QueueShrinks DEF SweepStart, TypeOK, store
<1>17. ASSUME NEW t \in Tasks, SweepSelect(t)
      PROVE  CapacityInv'
  BY <1>17, <1>t, QueueShrinks DEF SweepSelect, TypeOK, store
<1>18. ASSUME NEW t \in Tasks, NEW r \in Requests, SweepMark(t, r)
      PROVE  CapacityInv'
  BY <1>18, <1>t, QueueShrinks DEF SweepMark, MarkExpired, TypeOK, store
<1>19. ASSUME NEW t \in Tasks, SweepAudit(t)
      PROVE  CapacityInv'
  BY <1>19, <1>t, QueueShrinks DEF SweepAudit, TypeOK, store
<1>20. ASSUME NEW t \in Tasks, SweepPublish(t)
      PROVE  CapacityInv'
  BY <1>20, <1>t, QueueShrinks DEF SweepPublish, TypeOK, store
<1>21. ASSUME NEW t \in Tasks, SweepArchive(t)
      PROVE  CapacityInv'
  BY <1>21, <1>t, QueueShrinks DEF SweepArchive, Archive, TypeOK, store
<1>22. ASSUME NEW t \in Tasks, SweepReturn(t)
      PROVE  CapacityInv'
  BY <1>22, <1>t, QueueShrinks DEF SweepReturn, Finish, TypeOK, store
<1>23. CASE Tick
  BY <1>23, <1>t, QueueShrinks DEF Tick, TypeOK, store
<1>24. ASSUME NEW t \in Tasks, Fail(t)
      PROVE  CapacityInv'
  BY <1>24, <1>t, QueueShrinks DEF Fail, Finish, TypeOK, store
<1>25. ASSUME NEW t \in Tasks, LostReply(t) PROVE CapacityInv'
  <2>1. \A u \in Tasks : pc'[u] = "submit_save" => pc[u] = "submit_save" /\ u # t
    BY <1>25, <1>t DEF LostReply, Finish, TypeOK
  <2>2. CASE pc[t] = "submit_save" /\ Save(req[t], "PENDING")
    <3>1. Cardinality(pending) < Capacity /\ IsFiniteSet(pending)
          /\ pending' = pending \cup {req[t]}
      BY <2>2 DEF CapacityInv, Save
    <3>2. IsFiniteSet(pending')
          /\ Cardinality(pending') \in {Cardinality(pending), Cardinality(pending) + 1}
      BY <3>1, FS_AddElement
    <3>3. \A u \in Tasks : pc'[u] # "submit_save"
      BY <2>1, <2>2, <1>t DEF TypeOK, IInv, LockInv, Locked, SinglePod
    <3>4. Cardinality(pending) \in Nat
      BY <3>1, FS_CardinalityType
    <3>5. Cardinality(pending') <= Capacity
      BY <3>1, <3>2, <3>4
    <3>6. QED
      BY <3>2, <3>3, <3>5 DEF CapacityInv
  <2>3. CASE pc[t] = "decide_save" /\ Save(req[t], verdict[t])
    <3>1. pending' = pending
      BY <2>3, <1>t DEF TypeOK, IInv, SaveInv, QueueConsistent, Save
    <3>2. QED
      BY <2>1, <3>1, <1>t, QueueShrinks
  <2>4. CASE Archive(t)
    BY <2>1, <2>4, <1>t, QueueShrinks DEF Archive
  <2>5. QED
    BY <1>25, <2>2, <2>3, <2>4 DEF LostReply
<1>26. ASSUME NEW p \in Pods, Crash(p)
      PROVE  CapacityInv'
  BY <1>26, <1>t, QueueShrinks DEF Crash, TypeOK, store
<1>27. ASSUME NEW r \in Requests, KeyExpires(r)
      PROVE  CapacityInv'
  BY <1>27, <1>t, QueueShrinks DEF KeyExpires, TypeOK, store
<1>28. CASE UNCHANGED vars
  BY <1>28, <1>t, QueueShrinks DEF vars, store
<1> HIDE DEF Free, Goto, Take, Release
<1>29. ASSUME NEW t \in Tasks, Start(t) PROVE CapacityInv'
  BY <1>29, <1>1, <1>7, <1>8, <1>16 DEF Start
<1>30. ASSUME NEW t \in Tasks, Resume(t) PROVE CapacityInv'
  BY <1>30, <1>2, <1>3, <1>4, <1>5, <1>6, <1>9, <1>10, <1>11, <1>12, <1>13, <1>14,
            <1>15, <1>17, <1>18, <1>19, <1>20, <1>21, <1>22
  DEF Resume
<1>31. QED
  BY <1>23, <1>24, <1>25, <1>26, <1>27, <1>28, <1>29, <1>30 DEF Next

\* On one pod the queue respects hitl_max_pending_requests, whatever fails: the
\* count and the save of a submission are two round trips under one lock.
THEOREM CapacityHolds == ASSUME SinglePod PROVE Spec => []CapacityRespected
<1>1. Init => CapacityInv
  BY GatewayAssumption, FS_EmptySet DEF Init, CapacityInv
<1>2. CapacityInv => CapacityRespected
  BY DEF CapacityInv, CapacityRespected
<1>3. QED
  BY SinglePod, <1>1, <1>2, InvCorrect, NextCapacity, PTL DEF Spec

--------------------------------------------------------------------------------
(* The gauge of an in-memory pod *)

\* From the gauge's decrement on, a task is on its way to take its request from the queue.
Leaving == {"decide_archive", "sweep_audit", "sweep_publish", "sweep_archive"}

\* The queued requests nobody has taken off the gauge yet, as far as running tasks tell.
Waiting == {r \in pending : \A t \in Tasks : pc[t] \in Leaving => req[t] # r}

GaugeInv ==
  /\ IsFiniteSet(pending)
  /\ \A p \in Pods : gauge[p] <= Cardinality(Waiting)

\* A step that takes nothing from the waiting requests nor adds to a gauge.
LEMMA GaugeKept ==
  ASSUME GaugeInv, TypeOK, TypeOK', pending' \subseteq pending, Waiting \subseteq Waiting',
         \A p \in Pods : gauge'[p] <= gauge[p]
  PROVE  GaugeInv'
<1>1. IsFiniteSet(pending')
  BY FS_Subset DEF GaugeInv
<1>2. Waiting' \subseteq pending'
  BY DEF Waiting
<1>3. IsFiniteSet(Waiting')
  BY <1>1, <1>2, FS_Subset
<1>4. /\ IsFiniteSet(Waiting) /\ Cardinality(Waiting) <= Cardinality(Waiting')
      /\ Cardinality(Waiting') \in Nat /\ Cardinality(Waiting) \in Nat
  BY <1>3, FS_Subset, FS_CardinalityType
<1>5. \A p \in Pods : gauge[p] \in Int /\ gauge'[p] \in Int
  BY DEF TypeOK
<1> QED BY <1>1, <1>4, <1>5 DEF GaugeInv

\* A step that takes one request from them and one from the gauge.
LEMMA GaugeCounts ==
  ASSUME GaugeInv, TypeOK, TypeOK', pending' \subseteq pending, NEW r,
         Waiting \ {r} \subseteq Waiting',
         \A p \in Pods : gauge'[p] = gauge[p] - 1
  PROVE  GaugeInv'
<1>1. IsFiniteSet(pending) /\ IsFiniteSet(pending')
  BY FS_Subset DEF GaugeInv
<1>2. Waiting' \subseteq pending' /\ Waiting \subseteq pending
  BY DEF Waiting
<1>3. IsFiniteSet(Waiting') /\ IsFiniteSet(Waiting)
  BY <1>1, <1>2, FS_Subset
<1>4. /\ Cardinality(Waiting \ {r}) \in {Cardinality(Waiting), Cardinality(Waiting) - 1}
      /\ Cardinality(Waiting \ {r}) <= Cardinality(Waiting')
      /\ Cardinality(Waiting) \in Nat /\ Cardinality(Waiting') \in Nat
  BY <1>3, FS_RemoveElement, FS_Subset, FS_CardinalityType
<1>5. \A p \in Pods : gauge[p] \in Int /\ gauge'[p] \in Int
  BY DEF TypeOK
<1>6. ASSUME NEW p \in Pods PROVE gauge'[p] <= Cardinality(Waiting')
  <2>1. gauge[p] <= Cardinality(Waiting) /\ gauge'[p] = gauge[p] - 1 /\ gauge[p] \in Int
    BY <1>5 DEF GaugeInv
  <2>2. Cardinality(Waiting) - 1 <= Cardinality(Waiting')
    BY <1>4
  <2> QED BY <1>4, <2>1, <2>2
<1> QED BY <1>1, <1>6 DEF GaugeInv

\* A step that leaves queue and gauge alone and takes no task to its archive.
LEMMA GaugeQuiet ==
  ASSUME GaugeInv, TypeOK, TypeOK', pending' = pending, gauge' = gauge,
         \A u \in Tasks : pc'[u] \in Leaving => pc[u] \in Leaving /\ req'[u] = req[u]
  PROVE  GaugeInv'
<1>1. Waiting \subseteq Waiting'
  BY DEF Waiting
<1>2. \A p \in Pods : gauge'[p] <= gauge[p]
  BY DEF TypeOK
<1> QED BY <1>1, <1>2, GaugeKept

\* Every step of an in-memory pod keeps the gauge below the queue.
LEMMA NextGauge == ~Durable /\ IInv /\ GaugeInv /\ [Next]_vars => GaugeInv'
<1> SUFFICES ASSUME ~Durable, IInv, GaugeInv, [Next]_vars PROVE GaugeInv'
  OBVIOUS
<1>t. TypeOK /\ TypeOK'
  BY NextType DEF IInv
<1>p. \A p, q \in Pods : p = q
  BY GatewayAssumption
<1> USE DEF Goto, Finish, store, outputs, Leaving
<1>1. ASSUME NEW t \in Tasks, NEW p \in Pods, NEW r \in Requests,
             \/ SubmitStart(t, p, r) \/ DecideLate(t, p, r) \/ SweepStart(t, p)
             \/ \E v \in Verdicts : DecideAccept(t, p, r, v)
      PROVE  GaugeInv'
  <2>1. pending' = pending /\ gauge' = gauge
    BY <1>1 DEF SubmitStart, DecideLate, SweepStart, DecideAccept, MarkExpired
  <2>2. \A u \in Tasks : pc'[u] \in Leaving => pc[u] \in Leaving /\ req'[u] = req[u]
    BY <1>1, <1>t DEF SubmitStart, DecideLate, SweepStart, DecideAccept, TypeOK
  <2> QED BY <1>t, <2>1, <2>2, GaugeQuiet
<1>2. ASSUME NEW t \in Tasks,
             \/ SubmitRefuse(t) \/ SubmitCount(t) \/ SubmitAudit(t) \/ SubmitPublish(t)
             \/ DecideAudit(t) \/ DecidePublish(t) \/ LateAudit(t) \/ LatePublish(t)
             \/ SweepSelect(t) \/ SweepAudit(t) \/ SweepPublish(t) \/ SweepReturn(t)
      PROVE  GaugeInv'
  <2>1. pending' = pending /\ gauge' = gauge
    BY <1>2 DEF SubmitRefuse, SubmitCount, SubmitAudit, SubmitPublish, DecideAudit,
                DecidePublish, LateAudit, LatePublish, SweepSelect, SweepAudit, SweepPublish,
                SweepReturn
  <2>2. CASE \/ SubmitRefuse(t) \/ SubmitPublish(t) \/ DecidePublish(t) \/ LatePublish(t)
             \/ SweepReturn(t)
    <3>1. \A u \in Tasks : pc'[u] \in Leaving => pc[u] \in Leaving /\ req'[u] = req[u]
      BY <1>t, <2>2 DEF SubmitRefuse, SubmitPublish, DecidePublish, LatePublish, SweepReturn,
                        TypeOK
    <3> QED BY <1>t, <2>1, <3>1, GaugeQuiet
  <2>3. CASE \/ SubmitCount(t) \/ SubmitAudit(t) \/ DecideAudit(t) \/ LateAudit(t)
             \/ SweepSelect(t) \/ SweepAudit(t) \/ SweepPublish(t)
    <3>1. \A u \in Tasks : pc'[u] \in Leaving => pc[u] \in Leaving /\ req'[u] = req[u]
      BY <1>t, <2>3 DEF SubmitCount, SubmitAudit, DecideAudit, LateAudit, SweepSelect,
                        SweepAudit, SweepPublish, TypeOK, frame
    <3> QED BY <1>t, <2>1, <3>1, GaugeQuiet
  <2> QED BY <1>2, <2>2, <2>3
<1>3. ASSUME NEW t \in Tasks, SubmitSave(t) PROVE GaugeInv'
  <2>1. /\ pc[t] = "submit_save" /\ pending' = pending \cup {req[t]} /\ req' = req
        /\ pc' = [pc EXCEPT ![t] = "submit_audit"]
        /\ gauge' = [gauge EXCEPT ![pod[t]] = @ + 1] /\ req[t] \in Requests /\ pod[t] \in Pods
    BY <1>3, <1>t DEF SubmitSave, Save, Gauge, frame, TypeOK
  <2>2. Untouched(req[t])
    BY <2>1 DEF IInv, SubmitInv
  <2>3. req[t] \notin pending
    BY <2>2 DEF Untouched
  <2>4. \A u \in Tasks : pc[u] \in Leaving => req[u] # req[t]
    <3>1. ASSUME NEW u \in Tasks, pc[u] \in Leaving, req[u] = req[t] PROVE FALSE
      <4>1. CASE pc[u] = "decide_archive"
        <5>1. Ruled(req[t], verdict[u]) /\ verdict[u] \in Verdicts
          BY <3>1, <4>1 DEF Ruled, Ruling, IInv, VerdictInv
        <5> QED BY <2>2, <5>1 DEF Untouched
      <4>2. CASE pc[u] # "decide_archive"
        <5>1. Late(req[t])
          BY <3>1, <4>2 DEF Late, Expiring
        <5> QED BY <2>2, <5>1 DEF Untouched
      <4> QED BY <4>1, <4>2
    <3> QED BY <3>1
  <2>5. \A u \in Tasks : pc'[u] \in Leaving => pc[u] \in Leaving
    BY <1>t, <2>1 DEF TypeOK
  <2>6. Waiting \cup {req[t]} \subseteq Waiting' /\ req[t] \notin Waiting
    BY <2>1, <2>3, <2>4, <2>5 DEF Waiting
  <2>7. IsFiniteSet(pending') /\ Waiting' \subseteq pending' /\ Waiting \subseteq pending
        /\ IsFiniteSet(pending)
    BY <2>1, FS_AddElement DEF GaugeInv, Waiting
  <2>8. IsFiniteSet(Waiting') /\ IsFiniteSet(Waiting)
    BY <2>7, FS_Subset
  <2>9. /\ Cardinality(Waiting \cup {req[t]}) = Cardinality(Waiting) + 1
        /\ Cardinality(Waiting \cup {req[t]}) <= Cardinality(Waiting')
        /\ Cardinality(Waiting) \in Nat /\ Cardinality(Waiting') \in Nat
    BY <2>6, <2>8, FS_AddElement, FS_Subset, FS_CardinalityType
  <2>10. ASSUME NEW p \in Pods PROVE gauge'[p] <= Cardinality(Waiting')
    <3>1. gauge[p] <= Cardinality(Waiting) /\ gauge[p] \in Int
      BY <1>t DEF GaugeInv, TypeOK
    <3>2. gauge'[p] = gauge[p] + 1
      BY <1>p, <1>t, <2>1 DEF TypeOK
    <3> QED BY <2>9, <3>1, <3>2
  <2> QED BY <2>7, <2>10 DEF GaugeInv
<1>4. ASSUME NEW t \in Tasks, DecideSave(t) PROVE GaugeInv'
  <2>1. /\ pc[t] = "decide_save" /\ pending' = pending \cup {req[t]} /\ req' = req
        /\ pc' = [pc EXCEPT ![t] = "decide_archive"]
        /\ gauge' = [gauge EXCEPT ![pod[t]] = @ - 1] /\ req[t] \in Requests /\ pod[t] \in Pods
    BY <1>4, <1>t DEF DecideSave, Save, Gauge, frame, TypeOK
  <2>2. pending' = pending
    BY <2>1 DEF IInv, SaveInv, QueueConsistent
  <2>3. \A p \in Pods : gauge'[p] = gauge[p] - 1
    BY <1>p, <1>t, <2>1 DEF TypeOK
  <2>4. Waiting \ {req[t]} \subseteq Waiting'
    BY <1>t, <2>1, <2>2 DEF Waiting, TypeOK
  <2> QED BY <1>t, <2>2, <2>3, <2>4, GaugeCounts
<1>5. ASSUME NEW t \in Tasks, DecideArchive(t) \/ SweepArchive(t) PROVE GaugeInv'
  <2>1. /\ pc[t] \in Leaving /\ pending' = pending \ {req[t]} /\ req' = req
        /\ (pc' = [pc EXCEPT ![t] = "decide_audit"] \/ pc' = [pc EXCEPT ![t] = "sweep_next"])
        /\ gauge' = gauge
    BY <1>5 DEF DecideArchive, SweepArchive, Archive, frame
  <2>2. Waiting \subseteq Waiting'
    BY <1>t, <2>1 DEF Waiting, TypeOK
  <2>3. \A p \in Pods : gauge'[p] <= gauge[p]
    BY <1>t, <2>1 DEF TypeOK
  <2> QED BY <1>t, <2>1, <2>2, <2>3, GaugeKept
<1>6. ASSUME NEW t \in Tasks, LateArchive(t) PROVE GaugeInv'
  <2>1. /\ pc[t] = "late_archive" /\ pending' = pending \ {req[t]} /\ req' = req
        /\ pc' = [pc EXCEPT ![t] = "late_audit"]
        /\ gauge' = [gauge EXCEPT ![pod[t]] = @ - 1] /\ pod[t] \in Pods
    BY <1>6, <1>t DEF LateArchive, Archive, Gauge, frame, TypeOK
  <2>2. Waiting \ {req[t]} \subseteq Waiting'
    BY <1>t, <2>1 DEF Waiting, TypeOK
  <2>3. \A p \in Pods : gauge'[p] = gauge[p] - 1
    BY <1>p, <1>t, <2>1 DEF TypeOK
  <2> QED BY <1>t, <2>1, <2>2, <2>3, GaugeCounts
<1>7. ASSUME NEW t \in Tasks, NEW r \in Requests, SweepMark(t, r) PROVE GaugeInv'
  <2>1. /\ pc[t] = "sweep_next" /\ pending' = pending /\ req' = [req EXCEPT ![t] = r]
        /\ pc' = [pc EXCEPT ![t] = "sweep_audit"]
        /\ gauge' = [gauge EXCEPT ![pod[t]] = @ - 1] /\ pod[t] \in Pods
    BY <1>7, <1>t DEF SweepMark, MarkExpired, Gauge, TypeOK
  <2>2. Waiting \ {r} \subseteq Waiting'
    BY <1>t, <2>1 DEF Waiting, TypeOK
  <2>3. \A p \in Pods : gauge'[p] = gauge[p] - 1
    BY <1>p, <1>t, <2>1 DEF TypeOK
  <2> QED BY <1>t, <2>1, <2>2, <2>3, GaugeCounts
<1>8. ASSUME NEW t \in Tasks, Fail(t) PROVE GaugeInv'
  <2>1. \A u \in Tasks : pc'[u] \in Leaving => pc[u] \in Leaving /\ req'[u] = req[u]
    BY <1>t, <1>8 DEF Fail, TypeOK
  <2> QED BY <1>t, <1>8, <2>1, GaugeQuiet DEF Fail
<1>9. ASSUME NEW p \in Pods, Crash(p) PROVE GaugeInv'
  <2>1. pending' = {} /\ gauge' = [gauge EXCEPT ![p] = 0]
    BY <1>9 DEF Crash
  <2>2. \A q \in Pods : gauge'[q] = 0
    BY <1>p, <1>t, <2>1 DEF TypeOK
  <2>3. Waiting' = {}
    BY <2>1 DEF Waiting
  <2>4. IsFiniteSet(pending') /\ Cardinality(Waiting') = 0
    BY <2>1, <2>3, FS_EmptySet
  <2> QED BY <2>2, <2>4 DEF GaugeInv
<1>10. CASE Tick \/ UNCHANGED vars
  <2>1. UNCHANGED <<pending, gauge, pc, req>>
    BY <1>10 DEF Tick, vars, frame
  <2> QED BY <1>t, <2>1, GaugeQuiet
<1>11. ASSUME NEW t \in Tasks, Start(t) PROVE GaugeInv'
  <2>1. SweepPods \subseteq Pods /\ \E r : r \in Requests
    BY GatewayAssumption
  <2> QED BY <1>1, <1>11, <2>1 DEF Start
<1>12. ASSUME NEW t \in Tasks, Resume(t) PROVE GaugeInv'
  BY <1>2, <1>3, <1>4, <1>5, <1>6, <1>7, <1>12 DEF Resume
<1>13. ASSUME NEW t \in Tasks, LostReply(t) PROVE FALSE
  BY <1>13 DEF LostReply
<1>14. ASSUME NEW r \in Requests, KeyExpires(r) PROVE FALSE
  BY <1>14 DEF KeyExpires
<1> QED BY <1>8, <1>9, <1>10, <1>11, <1>12, <1>13, <1>14 DEF Next

\* With the in-memory store the gauge never shows more waiting requests than there
\* are, for any number of them, however many tasks count the same expiry, and
\* whatever fails or restarts (hitl_gateway.py:128, 202, 282).
THEOREM GaugeNeverAbove == ASSUME ~Durable PROVE Spec => []GaugeNeverOverstates
<1>1. Init => GaugeInv
  <2> SUFFICES ASSUME Init PROVE GaugeInv
    OBVIOUS
  <2>1. pending = {} /\ \A p \in Pods : gauge[p] = 0
    BY DEF Init
  <2>2. Waiting = {}
    BY <2>1 DEF Waiting
  <2> QED BY <2>1, <2>2, FS_EmptySet DEF GaugeInv
<1>2. SinglePod
  BY ~Durable, GatewayAssumption DEF SinglePod
<1>3. IInv /\ GaugeInv => GaugeNeverOverstates
  <2> SUFFICES ASSUME TypeOK, GaugeInv, NEW p \in Pods PROVE gauge[p] <= Cardinality(pending)
    BY DEF GaugeNeverOverstates, IInv
  <2>1. IsFiniteSet(pending) /\ Waiting \subseteq pending
    BY DEF GaugeInv, Waiting
  <2>2. /\ Cardinality(Waiting) <= Cardinality(pending) /\ IsFiniteSet(Waiting)
        /\ Cardinality(Waiting) \in Nat /\ Cardinality(pending) \in Nat
    BY <2>1, FS_Subset, FS_CardinalityType
  <2>3. gauge[p] <= Cardinality(Waiting) /\ gauge[p] \in Int
    BY DEF GaugeInv, TypeOK
  <2> QED BY <2>2, <2>3
<1> QED BY ~Durable, <1>1, <1>2, <1>3, InvCorrect, NextGauge, PTL DEF Spec

--------------------------------------------------------------------------------
(* The queue of several pods *)

\* The tasks between a look at the queue and the save that follows it.
Writers == {t \in Tasks : pc[t] \in {"submit_save", "decide_save"}}

\* The requests that are in the queue or about to be put there.
Reserved == pending \cup {req[t] : t \in Writers}

\* A live key is in the queue, so that accepting a verdict reserves no new place.
LiveQueued == \A r \in Requests : active[r] # "ABSENT" => r \in pending

\* The queue never outgrows hitl_max_pending_requests by more than the other pods can
\* have counted in the meantime, one each, as every pod has its own asyncio.Lock
\* (hitl_gateway.py:120-127).
PodsCapacity == Cardinality(pending) <= Capacity + Cardinality(Pods) - 1

PodsInv ==
  /\ TypeOK /\ LockInv /\ LiveQueued
  /\ IsFiniteSet(Reserved)
  /\ Cardinality(Reserved) <= Capacity + Cardinality(Pods) - 1

\* Every key that is written goes into the queue with it, every one that leaves the
\* queue is deleted.
LEMMA NextLive == TypeOK /\ LiveQueued /\ [Next]_vars => LiveQueued'
<1> SUFFICES ASSUME TypeOK, LiveQueued, [Next]_vars PROVE LiveQueued'
  OBVIOUS
<1> USE DefaultsType, GatewayAssumption DEF TypeOK, LiveQueued, store
<1>1. ASSUME NEW t \in Tasks, SubmitSave(t) \/ DecideSave(t) PROVE LiveQueued'
  BY <1>1 DEF SubmitSave, DecideSave, Save
<1>2. ASSUME NEW t \in Tasks, DecideArchive(t) \/ LateArchive(t) \/ SweepArchive(t)
      PROVE  LiveQueued'
  BY <1>2 DEF DecideArchive, LateArchive, SweepArchive, Archive
<1>3. ASSUME NEW t \in Tasks, LostReply(t) PROVE LiveQueued'
  BY <1>3 DEF LostReply, Save, Archive
<1>4. ASSUME NEW t \in Tasks, NEW p \in Pods, NEW r \in Requests, DecideLate(t, p, r)
      PROVE  LiveQueued'
  BY <1>4 DEF DecideLate, MarkExpired
<1>5. ASSUME NEW t \in Tasks, NEW r \in Requests, SweepMark(t, r) PROVE LiveQueued'
  BY <1>5 DEF SweepMark, MarkExpired
<1>6. ASSUME NEW t \in Tasks, NEW p \in Pods, NEW r \in Requests,
             \/ SubmitStart(t, p, r) \/ SweepStart(t, p)
             \/ \E v \in Verdicts : DecideAccept(t, p, r, v)
      PROVE  LiveQueued'
  BY <1>6 DEF SubmitStart, SweepStart, DecideAccept
<1>7. ASSUME NEW t \in Tasks,
             \/ SubmitRefuse(t) \/ SubmitCount(t) \/ SubmitAudit(t) \/ SubmitPublish(t)
             \/ DecideAudit(t) \/ DecidePublish(t) \/ LateAudit(t) \/ LatePublish(t)
             \/ SweepSelect(t) \/ SweepAudit(t) \/ SweepPublish(t) \/ SweepReturn(t)
             \/ Fail(t)
      PROVE  LiveQueued'
  BY <1>7
  DEF SubmitRefuse, SubmitCount, SubmitAudit, SubmitPublish, DecideAudit, DecidePublish,
      LateAudit, LatePublish, SweepSelect, SweepAudit, SweepPublish, SweepReturn, Fail
<1>8. CASE Tick \/ UNCHANGED vars \/ (\E p \in Pods : Crash(p)) \/ (\E r \in Requests : KeyExpires(r))
  BY <1>8 DEF Tick, vars, Crash, KeyExpires
<1>9. SweepPods \subseteq Pods /\ \E r : r \in Requests
  OBVIOUS
<1> QED
  BY <1>1, <1>2, <1>3, <1>4, <1>5, <1>6, <1>7, <1>8, <1>9 DEF Next, Start, Resume

\* A step after which no task saves that did not before reserves nothing.
LEMMA NothingReserved ==
  ASSUME pending' \subseteq Reserved,
         \A t \in Tasks : pc'[t] \in {"submit_save", "decide_save"} =>
           pc[t] \in {"submit_save", "decide_save"} /\ req'[t] = req[t]
  PROVE  Reserved' \subseteq Reserved
  BY DEF Reserved, Writers

\* Every step but a count only gives places back.
LEMMA ReservedShrinks ==
  ASSUME TypeOK, LiveQueued, [Next]_vars, ~\E t \in Tasks : SubmitCount(t)
  PROVE  Reserved' \subseteq Reserved
<1> USE DefaultsType, GatewayAssumption DEF TypeOK, store, Goto, frame
<1>0. pending \subseteq Reserved
  BY DEF Reserved
<1>1. ASSUME NEW t \in Tasks, SubmitSave(t) \/ DecideSave(t) PROVE Reserved' \subseteq Reserved
  <2>1. /\ req' = req /\ pending' = pending \cup {req[t]} /\ t \in Writers
        /\ \A u \in Tasks : pc'[u] \in {"submit_save", "decide_save"} =>
             pc[u] \in {"submit_save", "decide_save"}
    BY <1>1 DEF SubmitSave, DecideSave, Save, Writers
  <2>2. pending' \subseteq Reserved
    BY <2>1 DEF Reserved
  <2> QED BY <2>1, <2>2, NothingReserved
<1>2. ASSUME NEW t \in Tasks, DecideArchive(t) \/ LateArchive(t) \/ SweepArchive(t)
      PROVE  Reserved' \subseteq Reserved
  <2>1. /\ pending' \subseteq pending /\ req' = req
        /\ \A u \in Tasks : pc'[u] \in {"submit_save", "decide_save"} =>
             pc[u] \in {"submit_save", "decide_save"}
    BY <1>2 DEF DecideArchive, LateArchive, SweepArchive, Archive
  <2> QED BY <1>0, <2>1, NothingReserved
<1>3. ASSUME NEW t \in Tasks, Fail(t) \/ LostReply(t) PROVE Reserved' \subseteq Reserved
  <2>1. Finish(t)
    BY <1>3 DEF Fail, LostReply
  <2>2. \A u \in Tasks : pc'[u] \in {"submit_save", "decide_save"} =>
          pc[u] \in {"submit_save", "decide_save"} /\ req'[u] = req[u]
    BY <2>1 DEF Finish
  <2>3. \/ pending' \subseteq pending
        \/ pending' = pending \cup {req[t]} /\ pc[t] \in {"submit_save", "decide_save"}
    BY <1>3 DEF Fail, LostReply, Save, Archive
  <2>4. pending' \subseteq Reserved
    BY <1>0, <2>3 DEF Reserved, Writers
  <2> QED BY <2>2, <2>4, NothingReserved
<1>4. ASSUME NEW t \in Tasks, NEW p \in Pods, NEW r \in Requests, NEW v \in Verdicts,
             DecideAccept(t, p, r, v)
      PROVE  Reserved' \subseteq Reserved
  <2>1. r \in pending
    BY <1>4 DEF DecideAccept, LiveQueued
  <2>2. /\ pending' = pending
        /\ \A u \in Tasks :
             pc'[u] \in {"submit_save", "decide_save"} =>
               \/ u = t /\ req'[u] = r
               \/ pc[u] \in {"submit_save", "decide_save"} /\ req'[u] = req[u]
    BY <1>4 DEF DecideAccept
  <2> QED BY <2>1, <2>2 DEF Reserved, Writers
<1>5. ASSUME NEW t \in Tasks, NEW p \in Pods, NEW r \in Requests,
             SubmitStart(t, p, r) \/ DecideLate(t, p, r) \/ SweepStart(t, p) \/ SweepMark(t, r)
      PROVE  Reserved' \subseteq Reserved
  <2>1. /\ pending' = pending
        /\ \A u \in Tasks : pc'[u] \in {"submit_save", "decide_save"} =>
             pc[u] \in {"submit_save", "decide_save"} /\ req'[u] = req[u]
    BY <1>5 DEF SubmitStart, DecideLate, SweepStart, SweepMark, MarkExpired
  <2> QED BY <1>0, <2>1, NothingReserved
<1>6. ASSUME NEW t \in Tasks,
             \/ SubmitRefuse(t) \/ SubmitAudit(t) \/ SubmitPublish(t)
             \/ DecideAudit(t) \/ DecidePublish(t) \/ LateAudit(t) \/ LatePublish(t)
             \/ SweepSelect(t) \/ SweepAudit(t) \/ SweepPublish(t) \/ SweepReturn(t)
      PROVE  Reserved' \subseteq Reserved
  <2>1. /\ pending' = pending
        /\ \A u \in Tasks : pc'[u] \in {"submit_save", "decide_save"} =>
             pc[u] \in {"submit_save", "decide_save"} /\ req'[u] = req[u]
    BY <1>6
    DEF SubmitRefuse, SubmitAudit, SubmitPublish, DecideAudit, DecidePublish, LateAudit,
        LatePublish, SweepSelect, SweepAudit, SweepPublish, SweepReturn, Finish
  <2> QED BY <1>0, <2>1, NothingReserved
<1>7. CASE Tick \/ UNCHANGED vars \/ (\E p \in Pods : Crash(p)) \/ (\E r \in Requests : KeyExpires(r))
  <2>1. /\ pending' \subseteq pending
        /\ \A u \in Tasks : pc'[u] \in {"submit_save", "decide_save"} =>
             pc[u] \in {"submit_save", "decide_save"} /\ req'[u] = req[u]
    BY <1>7 DEF Tick, vars, Crash, KeyExpires
  <2> QED BY <1>0, <2>1, NothingReserved
<1>8. SweepPods \subseteq Pods /\ (\E r : r \in Requests) /\ (\E p : p \in Pods)
  OBVIOUS
<1> QED
  BY <1>1, <1>2, <1>3, <1>4, <1>5, <1>6, <1>7, <1>8 DEF Next, Start, Resume

\* A count that lets a submission in found a place, and each pod has one more request
\* on its way at most.
LEMMA CountReserves ==
  ASSUME IsFiniteSet(Pods), TypeOK, LockInv', TypeOK', IsFiniteSet(Reserved),
         NEW t \in Tasks, SubmitCount(t)
  PROVE  IsFiniteSet(Reserved') /\ Cardinality(Reserved') <= Capacity + Cardinality(Pods) - 1
<1> DEFINE InLock == {req'[lock'[p]] : p \in Pods}
<1>1. pending' = pending /\ Cardinality(pending) < Capacity
  BY DEF SubmitCount, store
<1>2. IsFiniteSet(pending)
  BY FS_Subset DEF Reserved
<1>3. {req'[u] : u \in Writers'} \subseteq InLock
  <2> SUFFICES ASSUME NEW u \in Writers' PROVE req'[u] \in InLock
    OBVIOUS
  <2>1. u \in Tasks /\ pc'[u] \in Locked
    BY DEF Writers, Locked
  <2>2. pod'[u] \in Pods /\ lock'[pod'[u]] = u
    BY <2>1 DEF LockInv, TypeOK
  <2> QED BY <2>2
<1>4. IsFiniteSet(InLock) /\ Cardinality(InLock) <= Cardinality(Pods)
  <2> DEFINE at == [p \in Pods |-> req'[lock'[p]]]
  <2>1. at \in Surjection(Pods, InLock)
    BY DEF Surjection
  <2> QED BY <2>1, FS_Surjection
<1>5. /\ IsFiniteSet(pending \cup InLock)
      /\ Cardinality(pending \cup InLock) <= Cardinality(pending) + Cardinality(InLock)
  <2>1. /\ IsFiniteSet(pending \cup InLock) /\ IsFiniteSet(pending \cap InLock)
        /\ Cardinality(pending \cup InLock)
             = Cardinality(pending) + Cardinality(InLock) - Cardinality(pending \cap InLock)
    BY <1>2, <1>4, FS_Union, FS_Intersection
  <2>2. /\ Cardinality(pending) \in Nat /\ Cardinality(InLock) \in Nat
        /\ Cardinality(pending \cap InLock) \in Nat
    BY <1>2, <1>4, <2>1, FS_CardinalityType
  <2> QED BY <2>1, <2>2
<1>6. Reserved' \subseteq pending \cup InLock
  BY <1>1, <1>3 DEF Reserved
<1> HIDE DEF InLock
<1>7. /\ IsFiniteSet(Reserved')
      /\ Cardinality(Reserved') <= Cardinality(pending \cup InLock)
  BY <1>5, <1>6, FS_Subset
<1>8. /\ Cardinality(pending) \in Nat /\ Cardinality(InLock) \in Nat /\ Cardinality(Pods) \in Nat
      /\ Cardinality(Reserved') \in Nat /\ Cardinality(pending \cup InLock) \in Nat
      /\ Capacity \in Nat
  BY <1>2, <1>4, <1>5, <1>7, FS_CardinalityType, GatewayAssumption
<1> QED BY <1>1, <1>4, <1>5, <1>7, <1>8

\* With any finite number of gateway pods on one Redis store, and under any failures
\* and restarts, the queue exceeds its capacity by less than one request for each pod.
THEOREM PodsCapacityHolds == ASSUME IsFiniteSet(Pods) PROVE Spec => []PodsCapacity
<1>1. Cardinality(Pods) \in Nat /\ Cardinality(Pods) > 0 /\ Capacity \in Nat
  <2>1. Cardinality(Pods) \in Nat /\ Pods # {} /\ Capacity \in Nat
    BY FS_CardinalityType, GatewayAssumption
  <2> QED BY <2>1, FS_EmptySet
<1>2. Init => LiveQueued /\ IsFiniteSet(Reserved) /\ Cardinality(Reserved) <= Capacity + Cardinality(Pods) - 1
  <2> SUFFICES ASSUME Init
               PROVE  LiveQueued /\ IsFiniteSet(Reserved)
                        /\ Cardinality(Reserved) <= Capacity + Cardinality(Pods) - 1
    OBVIOUS
  <2>1. Reserved = {} /\ LiveQueued
    BY DEF Init, Reserved, Writers, LiveQueued
  <2>2. IsFiniteSet(Reserved) /\ Cardinality(Reserved) = 0
    BY <2>1, FS_EmptySet
  <2> QED BY <1>1, <2>1, <2>2
<1>3. TypeOK' /\ LockInv' /\ PodsInv /\ [Next]_vars => PodsInv'
  <2> SUFFICES ASSUME TypeOK', LockInv', PodsInv, [Next]_vars PROVE PodsInv'
    OBVIOUS
  <2>1. TypeOK /\ LiveQueued' /\ IsFiniteSet(Reserved)
    BY NextLive DEF PodsInv
  <2>2. ASSUME NEW t \in Tasks, SubmitCount(t) PROVE PodsInv'
    <3>1. IsFiniteSet(Reserved') /\ Cardinality(Reserved') <= Capacity + Cardinality(Pods) - 1
      BY IsFiniteSet(Pods), <2>1, <2>2, CountReserves
    <3> QED BY <2>1, <3>1 DEF PodsInv
  <2>3. CASE ~\E t \in Tasks : SubmitCount(t)
    <3>1. Reserved' \subseteq Reserved
      BY <2>3, ReservedShrinks DEF PodsInv
    <3>2. /\ IsFiniteSet(Reserved') /\ Cardinality(Reserved') <= Cardinality(Reserved)
          /\ Cardinality(Reserved') \in Nat /\ Cardinality(Reserved) \in Nat
      BY <2>1, <3>1, FS_Subset, FS_CardinalityType
    <3>3. Cardinality(Reserved') <= Capacity + Cardinality(Pods) - 1
      BY <1>1, <3>2 DEF PodsInv
    <3> QED BY <2>1, <3>2, <3>3 DEF PodsInv
  <2> QED BY <2>2, <2>3
<1>4. PodsInv => PodsCapacity
  <2> SUFFICES ASSUME PodsInv PROVE PodsCapacity
    OBVIOUS
  <2>1. pending \subseteq Reserved /\ IsFiniteSet(Reserved)
    BY DEF PodsInv, Reserved
  <2>2. /\ Cardinality(pending) <= Cardinality(Reserved)
        /\ Cardinality(pending) \in Nat /\ Cardinality(Reserved) \in Nat
    BY <2>1, FS_Subset, FS_CardinalityType
  <2> QED BY <1>1, <2>2 DEF PodsInv, PodsCapacity
<1>5. ASSUME TypeOK, LockInv, LiveQueued, IsFiniteSet(Reserved),
             Cardinality(Reserved) <= Capacity + Cardinality(Pods) - 1
      PROVE  PodsInv
  BY <1>5 DEF PodsInv
<1>6. Init => PodsInv
  BY <1>2, <1>5, InitType, InitLocks
<1> QED
  BY <1>3, <1>4, <1>6, TypeCorrect, LocksNeverLeak, PTL DEF Spec
================================================================================
