----------------------------- MODULE SharedServices -----------------------------
(***************************************************************************)
(* What agents and gateway stand on: the breakers in front of the model    *)
(* API and the database (ResilientCalls), the session memory in Redis      *)
(* (SessionMemory), and the documents and audit events in PostgreSQL       *)
(* (DataRetention).  The three share neither variables nor calls: the job  *)
(* and the stores take connections with acquire(), past the breaker.  So a *)
(* behaviour here is about one of them, chosen at the start, and what      *)
(* holds of each alone holds of all three side by side.                    *)
(***************************************************************************)
EXTENDS ResilientCalls, SessionMemory, DataRetention

CONSTANT Scheduled   \* the jobs the CronJob starts, day after day

ASSUME ScheduledAssumption == Scheduled \subseteq Jobs /\ Scheduled # {}

VARIABLE part

servicesVars == <<part, vars, sessionVars, retentionVars>>

ServicesTypeOK ==
  /\ part \in {"calls", "session", "retention"}
  /\ TypeOK /\ SessionTypeOK /\ RetentionTypeOK

ServicesInit ==
  /\ part \in {"calls", "session", "retention"}
  /\ Init /\ SessionInit /\ RetentionInit
  /\ part # "calls" => wrapper = "db"
  /\ part # "retention" => ~hasColumn

Calls(A) == part = "calls" /\ A /\ UNCHANGED <<part, sessionVars, retentionVars>>
Session(A) == part = "session" /\ A /\ UNCHANGED <<part, vars, retentionVars>>
Retention(A) == part = "retention" /\ A /\ UNCHANGED <<part, vars, sessionVars>>

ServicesNext == Calls(Next) \/ Session(SessionNext) \/ Retention(RetentionNext)

ServicesSpec == ServicesInit /\ [][ServicesNext]_servicesVars

\* Calls: as in ResilientCalls.  Retention: days pass, the CronJob starts again
\* and again and runs its steps, and its deletion of documents does not fail for
\* ever.
ServicesFairSpec ==
  /\ ServicesSpec
  /\ WF_servicesVars(Calls(Elapse))
  /\ \A c \in Callers :
       /\ WF_servicesVars(Calls(Call(c))) /\ WF_servicesVars(Calls(Retry(c)))
       /\ SF_servicesVars(Calls(Succeed(c)))
  /\ WF_servicesVars(Retention(Day))
  /\ \A j \in Scheduled :
       /\ WF_servicesVars(Retention(StartJob(j)))
       /\ SF_servicesVars(Retention(DeleteExpiredDocs(j)))
       /\ WF_servicesVars(Retention(ArchiveOldEvents(j) \/ HardDeleteAgedEvents(j)
                                      \/ StepFails(j) \/ Verify(j)))
================================================================================
