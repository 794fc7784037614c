----------------------------- MODULE ResilientCalls -----------------------------
(***************************************************************************)
(* Concurrent calls to an upstream (the model API or the database) through *)
(* one shared CircuitBreaker, with retries and timeouts.  The two wrappers *)
(* nest them differently:                                                  *)
(*   "llm"  ResilientLLMClientWrapper consults the breaker once per call   *)
(*          and tells it only the outcome of the last attempt;             *)
(*   "db"   ResilientDBPool._call consults it before every attempt and     *)
(*          tells it the outcome of each, but not of an error it does not  *)
(*          recognise as transient.                                        *)
(* Everything between two awaits is one action.  Elapsed time is kept as   *)
(* `age`, which stops at Reset, and the failure count stops at Threshold:  *)
(* the code only compares each with that bound.                            *)
(***************************************************************************)
EXTENDS Naturals

CONSTANTS
  Callers,       \* coroutines that share one wrapper
  Threshold,     \* llm_circuit_breaker_threshold
  Reset,         \* llm_circuit_breaker_reset_seconds, in clock units
  MaxAttempts    \* llm_retry_max_attempts

ASSUME ResilientAssumption ==
  /\ Threshold \in Nat \ {0}
  /\ Reset \in Nat \ {0}
  /\ MaxAttempts \in Nat \ {0}

VARIABLES
  wrapper,       \* which of the two wrappers this is
  failures,      \* _failure_count, up to Threshold
  opened,        \* _opened_at is not None
  age,           \* time since _opened_at, up to Reset; 0 when not opened
  halfOpen,      \* _half_open
  gauge,         \* circuit_breaker_state in Prometheus
  pc,            \* pc[c]: idle, an attempt in flight, or waiting to retry
  attempt,       \* attempt[c]: number of the current attempt of c's call, 0 if idle
  sick           \* the environment lets attempts fail

breaker == <<failures, opened, age, halfOpen, gauge>>
vars == <<wrapper, breaker, pc, attempt, sick>>

TypeOK ==
  /\ wrapper \in {"llm", "db"}
  /\ failures \in 0..Threshold
  /\ opened \in BOOLEAN
  /\ age \in 0..Reset
  /\ halfOpen \in BOOLEAN
  /\ gauge \in {"closed", "half_open", "open"}
  /\ pc \in [Callers -> {"idle", "calling", "backoff"}]
  /\ attempt \in [Callers -> 0..MaxAttempts]
  /\ sick \in BOOLEAN

Init ==
  /\ wrapper \in {"llm", "db"}
  /\ failures = 0
  /\ opened = FALSE
  /\ age = 0
  /\ halfOpen = FALSE
  /\ gauge = "closed"
  /\ pc = [c \in Callers |-> "idle"]
  /\ attempt = [c \in Callers |-> 0]
  /\ sick = FALSE

--------------------------------------------------------------------------------
(* CircuitBreaker *)

\* is_open answers TRUE.
IsOpen == opened /\ age < Reset

\* Variant of LetThrough: one probe at a time.
LetOneThrough ==
  /\ ~IsOpen /\ ~halfOpen
  /\ halfOpen' = (halfOpen \/ opened)
  /\ gauge' = IF opened THEN "half_open" ELSE gauge
  /\ UNCHANGED <<failures, opened, age>>

\* is_open answers FALSE; past the reset time it enters the half-open phase.
LetThrough ==
  /\ ~IsOpen
  /\ halfOpen' = (halfOpen \/ opened)
  /\ gauge' = IF opened THEN "half_open" ELSE gauge
  /\ UNCHANGED <<failures, opened, age>>

\* Variant of RecordSuccess: the gauge is left as it was.
RecordSuccessQuietly ==
  /\ failures' = 0
  /\ opened' = FALSE
  /\ age' = 0
  /\ halfOpen' = FALSE
  /\ UNCHANGED gauge

RecordSuccess ==
  /\ failures' = 0
  /\ opened' = FALSE
  /\ age' = 0
  /\ halfOpen' = FALSE
  /\ gauge' = "closed"

CountFailure == failures' = IF failures < Threshold THEN failures + 1 ELSE Threshold

\* Variant of RecordFailure: opening starts a new count.
RecordFailureAfresh ==
  \/ /\ failures + 1 >= Threshold \/ halfOpen
     /\ failures' = 0
     /\ opened' = TRUE
     /\ age' = 0
     /\ halfOpen' = FALSE
     /\ gauge' = "open"
  \/ /\ ~(failures + 1 >= Threshold \/ halfOpen)
     /\ failures' = failures + 1
     /\ UNCHANGED <<opened, age, halfOpen, gauge>>

RecordFailure ==
  /\ CountFailure
  /\ \/ /\ failures' >= Threshold \/ halfOpen
        /\ opened' = TRUE
        /\ age' = 0
        /\ halfOpen' = FALSE
        /\ gauge' = "open"
     \/ /\ ~(failures' >= Threshold \/ halfOpen)
        /\ UNCHANGED <<opened, age, halfOpen, gauge>>

--------------------------------------------------------------------------------
(* Calls *)

Attempt(c, n) ==
  /\ pc' = [pc EXCEPT ![c] = "calling"]
  /\ attempt' = [attempt EXCEPT ![c] = n]

Return(c) ==
  /\ pc' = [pc EXCEPT ![c] = "idle"]
  /\ attempt' = [attempt EXCEPT ![c] = 0]

\* A call begins.  When the breaker is open it fails at once instead, which
\* changes nothing.
Call(c) ==
  /\ pc[c] = "idle"
  /\ LetThrough
  /\ Attempt(c, 1)
  /\ UNCHANGED <<wrapper, sick>>

Succeed(c) ==
  /\ pc[c] = "calling"
  /\ RecordSuccess
  /\ Return(c)
  /\ UNCHANGED <<wrapper, sick>>

\* Variant of BackOff: the number of attempts is not looked at.
BackOffAlways(c) ==
  /\ pc[c] = "calling" /\ sick
  /\ wrapper = "db" => RecordFailure
  /\ wrapper = "llm" => UNCHANGED breaker
  /\ pc' = [pc EXCEPT ![c] = "backoff"]
  /\ UNCHANGED <<wrapper, attempt, sick>>

\* An attempt timed out or failed with an error the wrapper retries.
BackOff(c) ==
  /\ pc[c] = "calling" /\ sick
  /\ attempt[c] < MaxAttempts
  /\ wrapper = "db" => RecordFailure
  /\ wrapper = "llm" => UNCHANGED breaker
  /\ pc' = [pc EXCEPT ![c] = "backoff"]
  /\ UNCHANGED <<wrapper, attempt, sick>>

\* The same on the last attempt: the TransientError reaches the caller.
GiveUp(c) ==
  /\ pc[c] = "calling" /\ sick
  /\ attempt[c] = MaxAttempts
  /\ RecordFailure
  /\ Return(c)
  /\ UNCHANGED <<wrapper, sick>>

\* An error that is not transient is not retried; only the llm wrapper counts it.
Fatal(c) ==
  /\ pc[c] = "calling" /\ sick
  /\ wrapper = "llm" => RecordFailure
  /\ wrapper = "db" => UNCHANGED breaker
  /\ Return(c)
  /\ UNCHANGED <<wrapper, sick>>

\* Variant of Retry: the breaker is outside the retries, as in the llm wrapper.
RetryUnasked(c) ==
  /\ pc[c] = "backoff"
  /\ UNCHANGED breaker
  /\ Attempt(c, attempt[c] + 1)
  /\ UNCHANGED <<wrapper, sick>>

\* The backoff is over.  Only the db wrapper asks the breaker again.
Retry(c) ==
  /\ pc[c] = "backoff"
  /\ wrapper = "db" => LetThrough
  /\ wrapper = "llm" => UNCHANGED breaker
  /\ Attempt(c, attempt[c] + 1)
  /\ UNCHANGED <<wrapper, sick>>

\* The breaker opened during the backoff: CircuitBreakerError is not retried.
RetryRefused(c) ==
  /\ pc[c] = "backoff" /\ wrapper = "db"
  /\ IsOpen
  /\ Return(c)
  /\ UNCHANGED <<wrapper, breaker, sick>>

\* The caller's task is cancelled: CancelledError is no Exception, so the
\* breaker hears nothing.
Cancel(c) ==
  /\ pc[c] # "idle"
  /\ Return(c)
  /\ UNCHANGED <<wrapper, breaker, sick>>

Elapse ==
  /\ IsOpen
  /\ age' = age + 1
  /\ UNCHANGED <<wrapper, failures, opened, halfOpen, gauge, pc, attempt, sick>>

Weather ==
  /\ sick' = ~sick
  /\ UNCHANGED <<wrapper, breaker, pc, attempt>>

Next ==
  \/ \E c \in Callers :
       \/ Call(c) \/ Succeed(c) \/ BackOff(c) \/ GiveUp(c) \/ Fatal(c)
       \/ Retry(c) \/ RetryRefused(c) \/ Cancel(c)
  \/ Elapse
  \/ Weather

Spec == Init /\ [][Next]_vars

\* Time passes, backoffs end, callers keep calling (the breaker has no timer of its own: it
\* closes only when somebody calls), and an upstream that answers is not
\* always beaten by a cancellation.
FairSpec ==
  /\ Spec
  /\ WF_vars(Elapse)
  /\ \A c \in Callers : WF_vars(Call(c)) /\ WF_vars(Retry(c)) /\ SF_vars(Succeed(c))

--------------------------------------------------------------------------------
(* Properties *)

Calling == {c \in Callers : pc[c] = "calling"}
InFlight == {c \in Callers : pc[c] # "idle"}

\* The breaker's three fields tell one story, whatever order results arrive in:
\* it is opened exactly when the count has reached the threshold, so a single
\* failure after the half-open phase began reopens it, and half-open means that
\* the reset time is over.  (retry.py: the count is not cleared on opening.)
BreakerCoherent ==
  /\ opened <=> failures = Threshold
  /\ halfOpen => opened /\ age = Reset

\* The exported gauge agrees with the breaker, after late answers too.
GaugeTells ==
  gauge = IF ~opened THEN "closed" ELSE IF halfOpen THEN "half_open" ELSE "open"

\* While the breaker is open nothing new reaches the upstream: no call is
\* admitted, and in the db wrapper, which asks before each attempt, no attempt
\* starts.  (The llm wrapper's calls admitted before may still retry.)
OpenSheds ==
  [][IsOpen => /\ InFlight' \subseteq InFlight
               /\ wrapper = "db" => Calling' \subseteq Calling]_vars

\* Once attempts stop failing the breaker closes and stays closed, however many
\* callers the half-open phase let through and whatever the count was.
Recovers == <>[](~sick) => <>[](~opened)
================================================================================
