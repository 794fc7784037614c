----------------------------- MODULE HITLOversight -----------------------------
(***************************************************************************)
(* What the human-in-the-loop gateway promises the rest of the system,     *)
(* without tasks, locks or storage: a request is proposed with a deadline, *)
(* admitted, and then gets at most one outcome.  A human verdict counts    *)
(* only if it was accepted before the deadline; once the deadline has      *)
(* passed and no accepted verdict is being written, the outcome can only   *)
(* be EXPIRED, which the system treats as a rejection.                     *)
(*                                                                         *)
(* HITLGateway (one process, Redis store) implements this module.          *)
(***************************************************************************)
EXTENDS Naturals

CONSTANTS
  Requests,    \* identifiers of approval requests
  Timeout,     \* hitl_approval_timeout_seconds, in clock units
  Grace        \* hitl_redis_ttl_grace_hours, in clock units

VARIABLES
  clock,       \* the shared wall clock
  due,         \* due[r] = expires_at of r, 0 before r is proposed
  outcome,     \* outcome[r], see Outcomes
  accepted     \* requests whose verdict was taken in time and is being written

vars == <<clock, due, outcome, accepted>>

Verdicts == {"APPROVED", "REJECTED"}

\* "FORGOTTEN": the record outlived its deadline by Grace and was dropped.
Outcomes == Verdicts \cup {"none", "PENDING", "EXPIRED", "FORGOTTEN"}

Init ==
  /\ clock = 0
  /\ due = [r \in Requests |-> 0]
  /\ outcome = [r \in Requests |-> "none"]
  /\ accepted = {}

Tick ==
  /\ clock' = clock + 1
  /\ UNCHANGED <<due, outcome, accepted>>

Propose(r) ==
  /\ due[r] = 0
  /\ due' = [due EXCEPT ![r] = clock + Timeout]
  /\ UNCHANGED <<clock, outcome, accepted>>

Admit(r) ==
  /\ due[r] # 0
  /\ outcome[r] = "none"
  /\ outcome' = [outcome EXCEPT ![r] = "PENDING"]
  /\ UNCHANGED <<clock, due, accepted>>

Accept(r) ==
  /\ outcome[r] = "PENDING"
  /\ clock < due[r]
  /\ accepted' = accepted \cup {r}
  /\ UNCHANGED <<clock, due, outcome>>

Decide(r) ==
  /\ r \in accepted
  /\ outcome[r] = "PENDING"
  /\ \E v \in Verdicts : outcome' = [outcome EXCEPT ![r] = v]
  /\ accepted' = accepted \ {r}
  /\ UNCHANGED <<clock, due>>

\* The process writing the verdict failed: the request is as it was.
Withdraw(r) ==
  /\ r \in accepted
  /\ accepted' = accepted \ {r}
  /\ UNCHANGED <<clock, due, outcome>>

Expire(r) ==
  /\ outcome[r] = "PENDING"
  /\ r \notin accepted
  /\ clock >= due[r]
  /\ outcome' = [outcome EXCEPT ![r] = "EXPIRED"]
  /\ UNCHANGED <<clock, due, accepted>>

Forget(r) ==
  /\ outcome[r] \in Verdicts \cup {"PENDING"}
  /\ r \notin accepted
  /\ clock >= due[r] + Grace
  /\ outcome' = [outcome EXCEPT ![r] = "FORGOTTEN"]
  /\ UNCHANGED <<clock, due, accepted>>

Next ==
  \/ Tick
  \/ \E r \in Requests :
       \/ Propose(r) \/ Admit(r) \/ Accept(r) \/ Decide(r)
       \/ Withdraw(r) \/ Expire(r) \/ Forget(r)

Spec == Init /\ [][Next]_vars
================================================================================
