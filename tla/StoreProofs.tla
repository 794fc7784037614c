------------------------------- MODULE StoreProofs -------------------------------
(***************************************************************************)
(* Proofs about the two stores with a lifetime: what a successful run of   *)
(* the retention job guarantees (DataRetention), and what the index of a   *)
(* session can miss (SessionMemory).  At the end, the three shared         *)
(* services side by side (SharedServices).                                 *)
(***************************************************************************)
EXTENDS SharedServices, ResilientProofs, TLAPS

--------------------------------------------------------------------------------
(* DataRetention *)

\* Days only ever bring an age closer to its bound.
LEMMA OlderType ==
  ASSUME NEW top \in Nat, NEW days \in None..top
  PROVE  /\ Older(days, top) \in None..top
         /\ days # None => Older(days, top) # None
  BY DEF Older, None

\* What the proofs use of the constants.
LEMMA RetentionConstants ==
  /\ DocOf \in [Files \cup Sprints -> Docs]
  /\ DocDays \in Nat /\ MaxOverdue \in Nat
  /\ MaxDocAge \in Nat /\ MaxRowAge \in Nat
  BY RetentionAssumption DEF MaxDocAge, MaxRowAge

\* What every writer of documents may do to one of them.
LEMMA UpsertKeeps ==
  ASSUME RetentionTypeOK, NEW d \in Docs, Upsert(d)
  PROVE  /\ docs' \in [Docs -> None..MaxDocAge]
         /\ \A e \in Docs : docs'[e] = docs[e] \/ docs'[e] = 0
  BY RetentionConstants DEF RetentionTypeOK, Upsert, None

\* A deletion removes documents and changes no age.
LEMMA DeleteOldKeeps ==
  ASSUME RetentionTypeOK, DeleteOldDocs
  PROVE  /\ docs' \in [Docs -> None..MaxDocAge]
         /\ \A e \in Docs : docs'[e] = docs[e] \/ docs'[e] = None
  BY RetentionConstants DEF RetentionTypeOK, DeleteOldDocs, None

RowSet == [age : None..MaxRowAge, archived : BOOLEAN]

\* An absent event is a value of the table.
LEMMA AbsentIsRow == Absent \in RowSet
  BY RetentionConstants DEF Absent, RowSet, None

\* Archiving keeps the table's type.
LEMMA ArchiveType ==
  ASSUME RetentionTypeOK, ArchiveRows
  PROVE  trail' \in [Rows -> RowSet]
<1> DEFINE new(r) == IF hasColumn /\ trail[r].age > ArchiveDays
                     THEN [trail[r] EXCEPT !.archived = TRUE] ELSE trail[r]
<1>1. ASSUME NEW r \in Rows PROVE new(r) \in RowSet
  <2>1. trail[r] \in RowSet
    BY DEF RetentionTypeOK, RowSet
  <2>2. [trail[r] EXCEPT !.archived = TRUE] \in RowSet
    BY <2>1 DEF RowSet
  <2> QED BY <2>1, <2>2
<1>2. trail' = [r \in Rows |-> new(r)]
  BY DEF ArchiveRows
<1> HIDE DEF new
<1> QED BY <1>1, <1>2

\* So does deleting.
LEMMA HardDeleteType ==
  ASSUME RetentionTypeOK, HardDeleteRows
  PROVE  trail' \in [Rows -> RowSet]
  BY AbsentIsRow DEF RetentionTypeOK, HardDeleteRows, RowSet

\* RetentionInit gives every variable a value of its type.
LEMMA StoreTypeInit == RetentionInit => RetentionTypeOK
  BY RetentionConstants, AbsentIsRow
  DEF RetentionInit, RetentionTypeOK, RowSet, None

\* Every step keeps the types.
LEMMA StoreTypeStep == RetentionTypeOK /\ [RetentionNext]_retentionVars => RetentionTypeOK'
<1> SUFFICES ASSUME RetentionTypeOK, [RetentionNext]_retentionVars
             PROVE  RetentionTypeOK'
  OBVIOUS
<1> USE RetentionConstants, AbsentIsRow
<1>1. CASE IndexAll
  BY <1>1 DEF RetentionTypeOK, IndexAll, tables, jobVars
<1>2. ASSUME NEW f \in Files, IndexFile(f) PROVE RetentionTypeOK'
  <2>1. DocOf[f] \in Docs
    OBVIOUS
  <2> QED BY <1>2, <2>1, UpsertKeeps DEF RetentionTypeOK, IndexFile, jobVars
<1>3. ASSUME NEW s \in Sprints, RecordRejection(s) PROVE RetentionTypeOK'
  <2>1. DocOf[s] \in Docs
    OBVIOUS
  <2> QED BY <1>3, <2>1, UpsertKeeps DEF RetentionTypeOK, RecordRejection, jobVars
<1>4. ASSUME NEW d \in Docs, DeleteDoc(d) PROVE RetentionTypeOK'
  BY <1>4 DEF RetentionTypeOK, DeleteDoc, jobVars, None
<1>5. ASSUME NEW r \in Rows, LogEvent(r) PROVE RetentionTypeOK'
  <2>1. [age |-> 0, archived |-> FALSE] \in RowSet
    BY DEF RowSet, None
  <2> QED BY <1>5, <2>1 DEF RetentionTypeOK, LogEvent, jobVars, RowSet
<1>6. ASSUME NEW j \in Jobs, StartJob(j) PROVE RetentionTypeOK'
  BY <1>6 DEF RetentionTypeOK, StartJob, tables, None
<1>7. ASSUME NEW j \in Jobs, DeleteExpiredDocs(j) PROVE RetentionTypeOK'
  BY <1>7, DeleteOldKeeps DEF RetentionTypeOK, DeleteExpiredDocs, StepDone
<1>8. ASSUME NEW j \in Jobs, ArchiveOldEvents(j) PROVE RetentionTypeOK'
  BY <1>8, ArchiveType DEF RetentionTypeOK, ArchiveOldEvents, StepDone, RowSet
<1>9. ASSUME NEW j \in Jobs, HardDeleteAgedEvents(j) PROVE RetentionTypeOK'
  BY <1>9, HardDeleteType DEF RetentionTypeOK, HardDeleteAgedEvents, StepDone, RowSet
<1>10. ASSUME NEW j \in Jobs, StepFails(j) PROVE RetentionTypeOK'
  <2>1. docs' \in [Docs -> None..MaxDocAge]
    BY <1>10, DeleteOldKeeps DEF RetentionTypeOK, StepFails
  <2>2. trail' \in [Rows -> RowSet]
    BY <1>10, ArchiveType, HardDeleteType DEF RetentionTypeOK, StepFails, RowSet
  <2> QED BY <1>10, <2>1, <2>2 DEF RetentionTypeOK, StepFails, RowSet
<1>11. ASSUME NEW j \in Jobs, Verify(j) PROVE RetentionTypeOK'
  BY <1>11 DEF RetentionTypeOK, Verify, tables, None
<1>12. ASSUME NEW j \in Jobs, JobDies(j) PROVE RetentionTypeOK'
  BY <1>12 DEF RetentionTypeOK, JobDies, tables
<1>13. CASE Day
  <2>1. docs' \in [Docs -> None..MaxDocAge]
    BY <1>13, OlderType DEF RetentionTypeOK, Day
  <2>2. trail' \in [Rows -> RowSet]
    <3>1. ASSUME NEW r \in Rows
          PROVE  [trail[r] EXCEPT !.age = Older(@, MaxRowAge)] \in RowSet
      BY OlderType DEF RetentionTypeOK, RowSet
    <3> QED BY <1>13, <3>1 DEF Day
  <2>3. verified' \in [Jobs -> None..MaxOverdue]
    BY <1>13, OlderType DEF RetentionTypeOK, Day
  <2> QED BY <1>13, <2>1, <2>2, <2>3 DEF RetentionTypeOK, Day, RowSet
<1>14. CASE UNCHANGED retentionVars
  BY <1>14 DEF RetentionTypeOK, retentionVars, tables, jobVars
<1> QED
  BY <1>1, <1>2, <1>3, <1>4, <1>5, <1>6, <1>7, <1>8, <1>9, <1>10, <1>11, <1>12,
     <1>13, <1>14
  DEF RetentionNext

\* Ages, flags and the runs' points stay in their ranges.
THEOREM RetentionTypeCorrect == RetentionSpec => []RetentionTypeOK
  BY StoreTypeInit, StoreTypeStep, PTL DEF RetentionSpec

\* Between days, a step either leaves the moment of verification alone and no
\* document older, or it forgets it, or it is the check itself.
LEMMA CleanStep ==
  ASSUME RetentionTypeOK, SuccessMeansClean, [RetentionNext]_retentionVars
  PROVE  SuccessMeansClean'
<1> USE RetentionConstants
<1> DEFINE NoOlder == \A d \in Docs : docs'[d] \in {docs[d], 0, None}
           KeepsVerified == \A j \in Jobs : verified'[j] \in {verified[j], None}
<1>1. ASSUME NoOlder, KeepsVerified PROVE SuccessMeansClean'
  <2> SUFFICES ASSUME NEW j \in Jobs, NEW d \in Docs, verified'[j] # None
               PROVE  docs'[d] <= DocDays + verified'[j]
    BY DEF SuccessMeansClean
  <2>1. verified'[j] = verified[j] /\ verified[j] \in Nat
    BY <1>1 DEF RetentionTypeOK, None
  <2>2. docs[d] <= DocDays + verified[j] /\ docs[d] \in Int
    BY <2>1 DEF SuccessMeansClean, RetentionTypeOK, None
  <2>3. docs'[d] \in {docs[d], 0, None}
    BY <1>1
  <2> QED BY <2>1, <2>2, <2>3 DEF None
<1>2. CASE IndexAll
  BY <1>1, <1>2 DEF IndexAll, tables, jobVars
<1>3. ASSUME NEW f \in Files, IndexFile(f) PROVE SuccessMeansClean'
  BY <1>1, <1>3, UpsertKeeps DEF IndexFile, jobVars
<1>4. ASSUME NEW s \in Sprints, RecordRejection(s) PROVE SuccessMeansClean'
  BY <1>1, <1>4, UpsertKeeps DEF RecordRejection, jobVars
<1>5. ASSUME NEW d \in Docs, DeleteDoc(d) PROVE SuccessMeansClean'
  BY <1>1, <1>5 DEF DeleteDoc, jobVars, RetentionTypeOK
<1>6. ASSUME NEW r \in Rows, LogEvent(r) PROVE SuccessMeansClean'
  BY <1>1, <1>6 DEF LogEvent, jobVars
<1>7. ASSUME NEW j \in Jobs, StartJob(j) PROVE SuccessMeansClean'
  BY <1>1, <1>7 DEF StartJob, tables, RetentionTypeOK
<1>8. ASSUME NEW j \in Jobs, DeleteExpiredDocs(j) PROVE SuccessMeansClean'
  BY <1>1, <1>8, DeleteOldKeeps DEF DeleteExpiredDocs, StepDone
<1>9. ASSUME NEW j \in Jobs, ArchiveOldEvents(j) \/ HardDeleteAgedEvents(j)
      PROVE  SuccessMeansClean'
  BY <1>1, <1>9 DEF ArchiveOldEvents, HardDeleteAgedEvents, StepDone
<1>10. ASSUME NEW j \in Jobs, StepFails(j) PROVE SuccessMeansClean'
  BY <1>1, <1>10, DeleteOldKeeps DEF StepFails
<1>11. ASSUME NEW j \in Jobs, Verify(j) PROVE SuccessMeansClean'
  <2>1. docs' = docs
    BY <1>11 DEF Verify, tables
  <2>2. CASE ~errors[j] /\ \A d \in Docs : ~Overdue(d)
    <3>1. verified' = [verified EXCEPT ![j] = 0]
      BY <1>11, <2>2 DEF Verify
    <3> QED BY <2>1, <2>2, <3>1 DEF SuccessMeansClean, RetentionTypeOK, Overdue, None
  <2>3. CASE ~(~errors[j] /\ \A d \in Docs : ~Overdue(d))
    <3>1. verified' = [verified EXCEPT ![j] = None]
      BY <1>11, <2>3 DEF Verify
    <3> QED BY <1>1, <2>1, <3>1 DEF RetentionTypeOK
  <2> QED BY <2>2, <2>3
<1>12. ASSUME NEW j \in Jobs, JobDies(j) PROVE SuccessMeansClean'
  BY <1>1, <1>12 DEF JobDies, tables
<1>13. CASE Day
  BY <1>13 DEF Day, SuccessMeansClean, RetentionTypeOK, Older, MaxDocAge, None
<1>14. CASE UNCHANGED retentionVars
  BY <1>1, <1>14 DEF retentionVars, tables, jobVars
<1> QED
  BY <1>2, <1>3, <1>4, <1>5, <1>6, <1>7, <1>8, <1>9, <1>10, <1>11, <1>12, <1>13, <1>14
  DEF RetentionNext

\* After a run that reports success no document is over the retention period by
\* more than the days that have passed, whatever fails, overlaps or is written.
THEOREM SuccessIsClean == RetentionSpec => []SuccessMeansClean
<1>1. RetentionInit => SuccessMeansClean
  BY DEF RetentionInit, SuccessMeansClean
<1>2. RetentionTypeOK /\ SuccessMeansClean /\ [RetentionNext]_retentionVars
        => SuccessMeansClean'
  BY CleanStep
<1> QED BY <1>1, <1>2, RetentionTypeCorrect, PTL DEF RetentionSpec

--------------------------------------------------------------------------------
(* SessionMemory *)

\* What the proofs use of the constants.
LEMMA SessionConstants ==
  /\ MaxTtl \in Nat /\ Ttls \subseteq 1..MaxTtl
  /\ SomeKey \in Keys
  BY SessionAssumption DEF SomeKey

\* SessionInit gives every variable a value of its type.
LEMMA SessionTypeInit == SessionInit => SessionTypeOK
  BY SessionConstants DEF SessionInit, SessionTypeOK, NotRead, Never

\* Every step keeps the types.
LEMMA SessionTypeStep == SessionTypeOK /\ [SessionNext]_sessionVars => SessionTypeOK'
<1> SUFFICES ASSUME SessionTypeOK, [SessionNext]_sessionVars
             PROVE  SessionTypeOK'
  OBVIOUS
<1> USE SessionConstants
<1>1. ASSUME NEW c \in Setters, Setex(c) PROVE SessionTypeOK'
  <2>1. PICK k \in Keys, t \in Ttls :
          /\ ttl' = [ttl EXCEPT ![k] = t]
          /\ setKey' = [setKey EXCEPT ![c] = k]
          /\ setTtl' = [setTtl EXCEPT ![c] = t]
    BY <1>1 DEF Setex
  <2>2. t \in 0..MaxTtl
    OBVIOUS
  <2> QED BY <1>1, <2>1, <2>2 DEF Setex, SessionTypeOK
<1>2. ASSUME NEW c \in Setters, Sadd(c) PROVE SessionTypeOK'
  BY <1>2 DEF Sadd, SessionTypeOK, Never
<1>3. ASSUME NEW c \in Setters, SetDone(c)
      PROVE  /\ setPc' \in [Setters -> {"idle", "sadd", "expire"}]
             /\ setKey' \in [Setters -> Keys]
             /\ setTtl' \in [Setters -> 0..MaxTtl]
  BY <1>3 DEF SetDone, SessionTypeOK
<1>4. ASSUME NEW c \in Setters, Expire(c) PROVE SessionTypeOK'
  BY <1>3, <1>4 DEF Expire, SessionTypeOK, Never, Live
<1>5. ASSUME NEW c \in Setters, ExpireMissing(c) PROVE SessionTypeOK'
  BY <1>3, <1>5 DEF ExpireMissing, SessionTypeOK, Live
<1>6. ASSUME NEW c \in Setters, SetFails(c) PROVE SessionTypeOK'
  BY <1>3, <1>6 DEF SetFails, SessionTypeOK, Live
<1>7. ASSUME NEW e \in Erasers, EraseList(e) PROVE SessionTypeOK'
  <2>1. Listing(index) \in [members : SUBSET Keys, read : BOOLEAN]
    BY DEF Listing, SessionTypeOK
  <2> QED BY <1>7, <2>1 DEF EraseList, SessionTypeOK, setVars
<1>8. ASSUME NEW e \in Erasers, EraseDelete(e) PROVE SessionTypeOK'
  <2>1. NotRead \in [members : SUBSET Keys, read : BOOLEAN]
    BY DEF NotRead
  <2> QED BY <1>8, <2>1 DEF EraseDelete, SessionTypeOK, setVars, Live, Never
<1>9. ASSUME NEW e \in Erasers, EraseFails(e) PROVE SessionTypeOK'
  <2>1. NotRead \in [members : SUBSET Keys, read : BOOLEAN]
    BY DEF NotRead
  <2> QED BY <1>9, <2>1 DEF EraseFails, SessionTypeOK, setVars
<1>10. CASE SessionTick
  BY <1>10 DEF SessionTick, SessionTypeOK, setVars, Never
<1>11. CASE UNCHANGED sessionVars
  BY <1>11 DEF SessionTypeOK, sessionVars, setVars
<1> QED
  BY <1>1, <1>2, <1>4, <1>5, <1>6, <1>7, <1>8, <1>9, <1>10, <1>11 DEF SessionNext

\* Lifetimes, the index and the runs' arguments stay in their ranges.
THEOREM SessionTypeCorrect == SessionSpec => []SessionTypeOK
  BY SessionTypeInit, SessionTypeStep, PTL DEF SessionSpec

Listed(k) == k \in index /\ indexTtl >= ttl[k]

\* Every step keeps unlisted values explained.
LEMMA ExplainedStep ==
  ASSUME SessionTypeOK, UnlistedIsExplained, [SessionNext]_sessionVars
  PROVE  UnlistedIsExplained'
<1> USE SessionConstants
<1> SUFFICES ASSUME NEW k \in Keys, ttl'[k] > 0
             PROVE  Listed(k)' \/ BeingSet(k)' \/ k \in excused'
  BY DEF UnlistedIsExplained, Live, Listed
<1>1. ttl[k] > 0 => Listed(k) \/ BeingSet(k) \/ k \in excused
  BY DEF UnlistedIsExplained, Live, Listed
<1>2. ASSUME NEW c \in Setters, Setex(c)
      PROVE  Listed(k)' \/ BeingSet(k)' \/ k \in excused'
  <2>1. PICK key \in Keys, t \in Ttls :
          /\ ttl' = [ttl EXCEPT ![key] = t]
          /\ setKey' = [setKey EXCEPT ![c] = key]
    BY <1>2 DEF Setex
  <2>2. setPc' = [setPc EXCEPT ![c] = "sadd"] /\ setPc[c] = "idle"
    BY <1>2 DEF Setex
  <2>3. CASE k = key
    <3>1. setPc'[c] # "idle" /\ setKey'[c] = k
      BY <2>1, <2>2, <2>3 DEF SessionTypeOK
    <3> QED BY <3>1 DEF BeingSet
  <2>4. CASE k # key
    <3>1. ttl'[k] = ttl[k]
      BY <2>1, <2>4 DEF SessionTypeOK
    <3>2. Listed(k) => Listed(k)'
      BY <1>2, <3>1 DEF Setex, Listed
    <3>3. BeingSet(k) => BeingSet(k)'
      BY <2>1, <2>2 DEF BeingSet, SessionTypeOK
    <3>4. k \in excused => k \in excused'
      BY <1>2 DEF Setex
    <3> QED BY <1>1, <3>1, <3>2, <3>3, <3>4
  <2> QED BY <2>3, <2>4
<1>3. ASSUME NEW c \in Setters, Sadd(c)
      PROVE  Listed(k)' \/ BeingSet(k)' \/ k \in excused'
  <2>1. Listed(k) => Listed(k)'
    BY <1>3 DEF Sadd, Listed, SessionTypeOK
  <2>2. BeingSet(k) => BeingSet(k)'
    BY <1>3 DEF Sadd, BeingSet, SessionTypeOK
  <2> QED BY <1>1, <1>3, <2>1, <2>2 DEF Sadd
<1>4. ASSUME NEW c \in Setters, SetDone(c), BeingSet(k), k # setKey[c]
      PROVE  BeingSet(k)'
  BY <1>4 DEF SetDone, BeingSet, SessionTypeOK
<1>5. ASSUME NEW c \in Setters, Expire(c)
      PROVE  Listed(k)' \/ BeingSet(k)' \/ k \in excused'
  <2>1. ttl[k] > 0 /\ ttl'[k] = ttl[k]
    BY <1>5 DEF Expire
  <2>2. ttl[k] > setTtl[c] => k \in excused'
    BY <1>5, <2>1 DEF Expire, Live
  <2>3. ttl[k] <= setTtl[c] /\ k \in index => Listed(k)'
    BY <1>5, <2>1 DEF Expire, Listed, SessionTypeOK
  <2>4. k \notin index /\ (k \in excused \/ k = setKey[c]) => k \in excused'
    BY <1>5, <2>1 DEF Expire, Live
  <2>5. BeingSet(k) /\ k # setKey[c] => BeingSet(k)'
    BY <1>4, <1>5 DEF Expire
  <2>6. ttl[k] \in Int /\ setTtl[c] \in Int
    BY DEF SessionTypeOK
  <2> QED BY <1>1, <2>1, <2>2, <2>3, <2>4, <2>5, <2>6 DEF Listed
<1>6. ASSUME NEW c \in Setters, ExpireMissing(c) \/ SetFails(c)
      PROVE  Listed(k)' \/ BeingSet(k)' \/ k \in excused'
  <2>1. /\ SetDone(c) /\ ttl' = ttl /\ index' = index /\ indexTtl' = indexTtl
        /\ excused' = excused \cup ({setKey[c]} \cap Live)
    BY <1>6 DEF ExpireMissing, SetFails
  <2>2. Listed(k) => Listed(k)'
    BY <2>1 DEF Listed
  <2>3. k = setKey[c] => k \in excused'
    BY <2>1 DEF Live
  <2>4. BeingSet(k) /\ k # setKey[c] => BeingSet(k)'
    BY <1>4, <2>1
  <2> QED BY <1>1, <2>1, <2>2, <2>3, <2>4
<1>7. ASSUME NEW e \in Erasers, EraseList(e) \/ EraseFails(e)
      PROVE  Listed(k)' \/ BeingSet(k)' \/ k \in excused'
  BY <1>1, <1>7 DEF EraseList, EraseFails, Listed, BeingSet, setVars
<1>8. ASSUME NEW e \in Erasers, EraseDelete(e)
      PROVE  Listed(k)' \/ BeingSet(k)' \/ k \in excused'
  <2>1. k \notin listed[e].members /\ ttl'[k] = ttl[k]
    BY <1>8 DEF EraseDelete, SessionTypeOK
  <2>2. BeingSet(k) => BeingSet(k)'
    BY <1>8 DEF EraseDelete, BeingSet, setVars
  <2>3. k \in index \/ k \in excused => k \in excused'
    BY <1>8, <2>1 DEF EraseDelete, Live
  <2> QED BY <1>1, <2>1, <2>2, <2>3 DEF Listed
<1>9. CASE SessionTick
  <2>1. ttl[k] > 0 /\ ttl'[k] = ttl[k] - 1
    BY <1>9 DEF SessionTick, SessionTypeOK
  <2>2. BeingSet(k) => BeingSet(k)'
    BY <1>9 DEF SessionTick, BeingSet, setVars
  <2>3. k \in excused => k \in excused'
    BY <1>9 DEF SessionTick
  <2>4. Listed(k) => Listed(k)'
    BY <1>9, <2>1 DEF SessionTick, Listed, SessionTypeOK, Never
  <2> QED BY <1>1, <2>1, <2>2, <2>3, <2>4
<1>10. CASE UNCHANGED sessionVars
  BY <1>1, <1>10 DEF sessionVars, setVars, Listed, BeingSet
<1> QED
  BY <1>2, <1>3, <1>5, <1>6, <1>7, <1>8, <1>9, <1>10 DEF SessionNext

\* With any number of coroutines in set and delete_session, failures in between
\* and time passing, a value that is readable is in the index as long as it lives,
\* unless it was lost in one of the ways UnlistedIsExplained names.
THEOREM UnlistedExplained == SessionSpec => []UnlistedIsExplained
<1>1. SessionInit => UnlistedIsExplained
  <2>1. SessionInit => \A k \in Keys : ttl[k] = 0
    BY DEF SessionInit
  <2>2. SessionInit => Live = {}
    BY <2>1 DEF Live
  <2> QED BY <2>2 DEF UnlistedIsExplained
<1>2. SessionTypeOK /\ UnlistedIsExplained /\ [SessionNext]_sessionVars
        => UnlistedIsExplained'
  BY ExplainedStep
<1> QED BY <1>1, <1>2, SessionTypeCorrect, PTL DEF SessionSpec

--------------------------------------------------------------------------------
(* SharedServices: the parts do not touch one another *)

\* A step of one part is a step of that part's own specification and a stutter
\* of the two others.
LEMMA PartsApart ==
  ASSUME [ServicesNext]_servicesVars
  PROVE  [Next]_vars /\ [SessionNext]_sessionVars /\ [RetentionNext]_retentionVars
  BY DEF ServicesNext, Calls, Session, Retention, servicesVars

\* Put side by side, the breakers, the session memory and the retention job each
\* behave as they do alone: what is proved of one of them in isolation holds of
\* the services together.
THEOREM PartsBehaveAlone == ServicesSpec => Spec /\ SessionSpec /\ RetentionSpec
<1>1. ServicesInit => Init /\ SessionInit /\ RetentionInit
  BY DEF ServicesInit
<1>2. [ServicesNext]_servicesVars
        => [Next]_vars /\ [SessionNext]_sessionVars /\ [RetentionNext]_retentionVars
  BY PartsApart
<1> QED BY <1>1, <1>2, PTL DEF ServicesSpec, Spec, SessionSpec, RetentionSpec

\* Every variable of the three services keeps its type.
THEOREM ServicesTypeCorrect == ServicesSpec => []ServicesTypeOK
<1>1. ServicesInit => part \in {"calls", "session", "retention"}
  BY DEF ServicesInit
<1>2. part \in {"calls", "session", "retention"} /\ [ServicesNext]_servicesVars
        => (part \in {"calls", "session", "retention"})'
  BY DEF ServicesNext, Calls, Session, Retention, servicesVars
<1>3. (part \in {"calls", "session", "retention"}) /\ TypeOK /\ SessionTypeOK /\ RetentionTypeOK
        => ServicesTypeOK
  BY DEF ServicesTypeOK
<1> QED
  BY <1>1, <1>2, <1>3, PartsBehaveAlone, TypeCorrect, SessionTypeCorrect,
     RetentionTypeCorrect, PTL
  DEF ServicesSpec

\* So do the guarantees of each part: the breaker's fields and its gauge agree and
\* an open breaker sheds calls, a readable value is listed or accounted for, and
\* a successful retention run leaves nothing over the bound.
THEOREM ServicesGuarantees ==
  ServicesSpec => /\ [](BreakerCoherent /\ GaugeTells) /\ OpenSheds
                  /\ []UnlistedIsExplained
                  /\ []SuccessMeansClean
  BY PartsBehaveAlone, BreakerIsCoherent, GaugeIsRight, OpenBreakerSheds,
     UnlistedExplained, SuccessIsClean, PTL
================================================================================
