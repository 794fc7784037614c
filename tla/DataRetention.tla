------------------------------ MODULE DataRetention ------------------------------
(***************************************************************************)
(* What PostgreSQL keeps and for how long: the documents of the vector     *)
(* store, written again and again by DocumentIndexer and BugHistoryStore,  *)
(* the append-only audit trail, and RetentionJob, whose runs delete the    *)
(* documents that are too old, archive and later delete audit events, and  *)
(* check their own work.  Ages are counted in days.                        *)
(***************************************************************************)
EXTENDS Integers

CONSTANTS
  Files,        \* Markdown files under specs/ and docs/adr/
  Sprints,      \* sprints whose rejection is recorded
  Docs,         \* document ids
  DocOf,        \* DocOf[x]: the id made of a file's directory and stem, or of a sprint
  Rows,         \* audit events the table can hold (a deleted one may come again)
  Jobs,         \* the CronJob's run and one started by hand
  DocDays,      \* memory_docs_retention_days
  ArchiveDays,  \* 365
  HardDays,     \* 5 * 365
  MaxOverdue    \* bound: days over a limit that are told apart

ASSUME RetentionAssumption ==
  /\ DocOf \in [Files \cup Sprints -> Docs]
  /\ DocDays \in Nat /\ ArchiveDays \in Nat /\ HardDays \in Nat
  /\ MaxOverdue \in Nat

VARIABLES
  docs,       \* docs[d]: days since created_at of the stored document, or None
  trail,      \* trail[r]: age and archived flag of an audit event, or Absent
  hasColumn,  \* audit_events has the column "archived"; no migration adds it
  toIndex,    \* files the indexing under way has not come to
  jobPc,      \* jobPc[j]: the next step of the run
  errors,     \* errors[j]: result.errors is not empty
  verified    \* verified[j]: days since the run verified, if it succeeded, or None

tables == <<docs, trail, hasColumn>>
jobVars == <<jobPc, errors, verified>>
retentionVars == <<tables, toIndex, jobVars>>

None == -1
Absent == [age |-> None, archived |-> FALSE]
MaxDocAge == DocDays + MaxOverdue
MaxRowAge == HardDays + MaxOverdue
Overdue(d) == docs[d] > DocDays
Older(age, top) == IF age = None THEN None ELSE IF age < top THEN age + 1 ELSE top

RetentionTypeOK ==
  /\ docs \in [Docs -> None..MaxDocAge]
  /\ trail \in [Rows -> [age : None..MaxRowAge, archived : BOOLEAN]]
  /\ hasColumn \in BOOLEAN
  /\ toIndex \in SUBSET Files
  /\ jobPc \in [Jobs -> {"idle", "docs", "archive", "hard", "verify"}]
  /\ errors \in [Jobs -> BOOLEAN]
  /\ verified \in [Jobs -> None..MaxOverdue]

RetentionInit ==
  /\ docs = [d \in Docs |-> None]
  /\ trail = [r \in Rows |-> Absent]
  /\ hasColumn \in BOOLEAN
  /\ toIndex = {}
  /\ jobPc = [j \in Jobs |-> "idle"]
  /\ errors = [j \in Jobs |-> FALSE]
  /\ verified = [j \in Jobs |-> None]

--------------------------------------------------------------------------------
(* Writers of the vector store and of the trail *)

\* Variant of Upsert: the conflict clause takes the new created_at as well.
UpsertAfresh(d) == docs' = [docs EXCEPT ![d] = 0]

\* A new document was created just now; one already there gets the new content
\* and keeps its created_at.
Upsert(d) == docs' = [docs EXCEPT ![d] = IF @ = None THEN 0 ELSE @]

IndexAll ==
  /\ toIndex = {}
  /\ toIndex' = Files
  /\ UNCHANGED <<tables, jobVars>>

\* The file is masked, embedded and stored; one that fails is skipped.
IndexFile(f) ==
  /\ f \in toIndex
  /\ toIndex' = toIndex \ {f}
  /\ Upsert(DocOf[f]) \/ UNCHANGED docs
  /\ UNCHANGED <<trail, hasColumn, jobVars>>

RecordRejection(s) ==
  /\ Upsert(DocOf[s])
  /\ UNCHANGED <<trail, hasColumn, toIndex, jobVars>>

DeleteDoc(d) ==
  /\ docs[d] # None
  /\ docs' = [docs EXCEPT ![d] = None]
  /\ UNCHANGED <<trail, hasColumn, toIndex, jobVars>>

LogEvent(r) ==
  /\ trail[r] = Absent
  /\ trail' = [trail EXCEPT ![r] = [age |-> 0, archived |-> FALSE]]
  /\ UNCHANGED <<docs, hasColumn, toIndex, jobVars>>

--------------------------------------------------------------------------------
(* A run of the job: each step is one statement, and its failure is noted and *)
(* does not stop the next.                                                    *)

StartJob(j) ==
  /\ jobPc[j] = "idle"
  /\ jobPc' = [jobPc EXCEPT ![j] = "docs"]
  /\ errors' = [errors EXCEPT ![j] = FALSE]
  /\ verified' = [verified EXCEPT ![j] = None]
  /\ UNCHANGED <<tables, toIndex>>

StepDone(j, from, to) ==
  /\ jobPc[j] = from
  /\ jobPc' = [jobPc EXCEPT ![j] = to]
  /\ UNCHANGED <<errors, verified>>

DeleteOldDocs == docs' = [d \in Docs |-> IF Overdue(d) THEN None ELSE docs[d]]

DeleteExpiredDocs(j) ==
  /\ StepDone(j, "docs", "archive")
  /\ DeleteOldDocs
  /\ UNCHANGED <<trail, hasColumn, toIndex>>

\* Without the column the step is skipped.
ArchiveRows ==
  trail' = [r \in Rows |-> IF hasColumn /\ trail[r].age > ArchiveDays
                           THEN [trail[r] EXCEPT !.archived = TRUE] ELSE trail[r]]

ArchiveOldEvents(j) ==
  /\ StepDone(j, "archive", "hard")
  /\ ArchiveRows
  /\ UNCHANGED <<docs, hasColumn, toIndex>>

HardDeleteRows ==
  trail' = [r \in Rows |-> IF trail[r].age > HardDays THEN Absent ELSE trail[r]]

HardDeleteAgedEvents(j) ==
  /\ StepDone(j, "hard", "verify")
  /\ HardDeleteRows
  /\ UNCHANGED <<docs, hasColumn, toIndex>>

\* A statement raises, before or after it took effect, or the role lacks the
\* privilege to delete audit events.
StepFails(j) ==
  /\ \/ /\ jobPc[j] = "docs"
        /\ jobPc' = [jobPc EXCEPT ![j] = "archive"]
        /\ (DeleteOldDocs /\ UNCHANGED trail) \/ UNCHANGED <<docs, trail>>
     \/ /\ jobPc[j] = "archive"
        /\ jobPc' = [jobPc EXCEPT ![j] = "hard"]
        /\ (ArchiveRows /\ UNCHANGED docs) \/ UNCHANGED <<docs, trail>>
     \/ /\ jobPc[j] = "hard"
        /\ jobPc' = [jobPc EXCEPT ![j] = "verify"]
        /\ (HardDeleteRows /\ UNCHANGED docs) \/ UNCHANGED <<docs, trail>>
  /\ errors' = [errors EXCEPT ![j] = TRUE]
  /\ UNCHANGED <<hasColumn, toIndex, verified>>

\* Variant of Verify: a count above zero is logged and not noted as an error.
VerifyLogging(j) ==
  /\ jobPc[j] = "verify"
  /\ jobPc' = [jobPc EXCEPT ![j] = "idle"]
  /\ errors' = [errors EXCEPT ![j] = FALSE]
  /\ verified' = [verified EXCEPT ![j] = IF ~errors[j] THEN 0 ELSE None]
  /\ UNCHANGED <<tables, toIndex>>

\* The overdue documents are counted against the day it is now; the process
\* exits with an error if any step noted one.
Verify(j) ==
  /\ jobPc[j] = "verify"
  /\ jobPc' = [jobPc EXCEPT ![j] = "idle"]
  /\ errors' = [errors EXCEPT ![j] = FALSE]
  /\ verified' = [verified EXCEPT ![j] =
                    IF ~errors[j] /\ \A d \in Docs : ~Overdue(d) THEN 0 ELSE None]
  /\ UNCHANGED <<tables, toIndex>>

\* The check raises, or the pod is killed (activeDeadlineSeconds, eviction).
JobDies(j) ==
  /\ jobPc[j] # "idle"
  /\ jobPc' = [jobPc EXCEPT ![j] = "idle"]
  /\ errors' = [errors EXCEPT ![j] = FALSE]
  /\ UNCHANGED <<tables, toIndex, verified>>

Day ==
  /\ docs' = [d \in Docs |-> Older(docs[d], MaxDocAge)]
  /\ trail' = [r \in Rows |-> [trail[r] EXCEPT !.age = Older(@, MaxRowAge)]]
  /\ verified' = [j \in Jobs |-> Older(verified[j], MaxOverdue)]
  /\ UNCHANGED <<hasColumn, toIndex, jobPc, errors>>

RetentionNext ==
  \/ IndexAll
  \/ \E f \in Files : IndexFile(f)
  \/ \E s \in Sprints : RecordRejection(s)
  \/ \E d \in Docs : DeleteDoc(d)
  \/ \E r \in Rows : LogEvent(r)
  \/ \E j \in Jobs :
       \/ StartJob(j) \/ DeleteExpiredDocs(j) \/ ArchiveOldEvents(j)
       \/ HardDeleteAgedEvents(j) \/ StepFails(j) \/ Verify(j) \/ JobDies(j)
  \/ Day

RetentionSpec == RetentionInit /\ [][RetentionNext]_retentionVars

--------------------------------------------------------------------------------
(* Properties *)

\* A run that reports success leaves no document over the retention period: at
\* any later time a document is over it by no more than the days since, although
\* statements fail, days pass between them, runs overlap, and documents are
\* written all the time.
SuccessMeansClean ==
  \A j \in Jobs : \A d \in Docs :
    verified[j] # None => docs[d] <= DocDays + verified[j]

\* Every stored document is deleted in the end, however often it is written again.
DocsForgotten == \A d \in Docs : docs[d] # None ~> docs[d] = None
================================================================================
