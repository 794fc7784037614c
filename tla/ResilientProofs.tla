----------------------------- MODULE ResilientProofs -----------------------------
(* Theorems about ResilientCalls, for any number of callers and any limits. *)
EXTENDS ResilientCalls, TLAPS

--------------------------------------------------------------------------------
(* Type correctness *)

\* The limits are positive, so the counters have their first values.
LEMMA Limits ==
  /\ Threshold \in Nat /\ Threshold > 0
  /\ Reset \in Nat /\ Reset > 0
  /\ MaxAttempts \in Nat /\ MaxAttempts > 0
  BY ResilientAssumption

\* The numbers of a state, apart from its flags.
NumbersOK ==
  /\ failures \in 0..Threshold
  /\ age \in 0..Reset
  /\ attempt \in [Callers -> 0..MaxAttempts]

\* The flags and labels of a state.
FlagsOK ==
  /\ wrapper \in {"llm", "db"}
  /\ opened \in BOOLEAN
  /\ halfOpen \in BOOLEAN
  /\ gauge \in {"closed", "half_open", "open"}
  /\ pc \in [Callers -> {"idle", "calling", "backoff"}]
  /\ sick \in BOOLEAN

\* Init gives every variable a value of its type.
LEMMA InitType == Init => TypeOK
<1>1. Init => NumbersOK
  BY Limits DEF Init, NumbersOK
<1>2. Init => FlagsOK
  BY DEF Init, FlagsOK
<1>. QED
  BY <1>1, <1>2 DEF NumbersOK, FlagsOK, TypeOK

\* What the breaker does on a failure, whichever branch record_failure takes.
LEMMA FailureType ==
  ASSUME TypeOK, RecordFailure
  PROVE  /\ failures' \in 0..Threshold
         /\ age' \in 0..Reset
         /\ opened' \in BOOLEAN
         /\ halfOpen' \in BOOLEAN
         /\ gauge' \in {"closed", "half_open", "open"}
<1>1. failures' \in 0..Threshold
  BY Limits DEF TypeOK, RecordFailure, CountFailure
<1>2. age' \in 0..Reset
  BY Limits DEF TypeOK, RecordFailure
<1>3. /\ opened' \in BOOLEAN
      /\ halfOpen' \in BOOLEAN
      /\ gauge' \in {"closed", "half_open", "open"}
  BY DEF TypeOK, RecordFailure
<1>. QED
  BY <1>1, <1>2, <1>3

\* A call that is backing off has an attempt left.
AttemptLeft == \A c \in Callers : pc[c] = "backoff" => attempt[c] < MaxAttempts

TypeInv == TypeOK /\ AttemptLeft

\* No result, retry, cancellation or passing of time leaves the types.
LEMMA NextType == TypeInv /\ [Next]_vars => TypeInv'
<1> SUFFICES ASSUME TypeInv, [Next]_vars PROVE TypeInv'
  OBVIOUS
<1>0. /\ Threshold \in Nat \ {0}
      /\ Reset \in Nat \ {0}
      /\ MaxAttempts \in Nat \ {0}
      /\ 0 \in 0..Threshold /\ 0 \in 0..Reset /\ 0 \in 0..MaxAttempts
      /\ 1 \in 0..MaxAttempts
  BY ResilientAssumption
<1> USE <1>0 DEF TypeInv, TypeOK, AttemptLeft
<1>1. ASSUME NEW c \in Callers, Call(c) PROVE TypeInv'
  BY <1>1 DEF Call, LetThrough, Attempt
<1>2. ASSUME NEW c \in Callers, Succeed(c) PROVE TypeInv'
  BY <1>2 DEF Succeed, RecordSuccess, Return
<1>3. ASSUME NEW c \in Callers, BackOff(c) PROVE TypeInv'
  <2>1. TypeOK'
    BY <1>3, FailureType DEF BackOff, breaker
  <2>2. AttemptLeft'
    BY <1>3 DEF BackOff
  <2>. QED  BY <2>1, <2>2
<1>4. ASSUME NEW c \in Callers, GiveUp(c) PROVE TypeInv'
  BY <1>4, FailureType DEF GiveUp, Return
<1>5. ASSUME NEW c \in Callers, Fatal(c) PROVE TypeInv'
  BY <1>5, FailureType DEF Fatal, Return, breaker
<1>6. ASSUME NEW c \in Callers, Retry(c) PROVE TypeInv'
  BY <1>6 DEF Retry, LetThrough, Attempt, breaker
<1>7. ASSUME NEW c \in Callers, RetryRefused(c) PROVE TypeInv'
  BY <1>7 DEF RetryRefused, Return, breaker
<1>8. ASSUME NEW c \in Callers, Cancel(c) PROVE TypeInv'
  BY <1>8 DEF Cancel, Return, breaker
<1>9. CASE Elapse
  BY <1>9 DEF Elapse, IsOpen
<1>10. CASE Weather
  BY <1>10 DEF Weather, breaker
<1>11. CASE UNCHANGED vars
  BY <1>11 DEF vars, breaker
<1>. QED
  BY <1>1, <1>2, <1>3, <1>4, <1>5, <1>6, <1>7, <1>8, <1>9, <1>10, <1>11 DEF Next

\* The types hold for any number of callers: in particular a call never starts
\* more attempts than llm_retry_max_attempts.
THEOREM TypeCorrect == Spec => []TypeOK
<1>1. Init => TypeInv
  BY InitType DEF TypeInv, AttemptLeft, Init
<1>2. TypeInv /\ [Next]_vars => TypeInv'
  BY NextType
<1>3. TypeInv => TypeOK
  BY DEF TypeInv
<1>. QED
  BY <1>1, <1>2, <1>3, PTL DEF Spec

--------------------------------------------------------------------------------
(* The breaker *)

BreakerInv == TypeInv /\ BreakerCoherent /\ GaugeTells

\* Every effect a call has on the breaker keeps the three fields and the gauge
\* in step.
LEMMA EffectCoherent ==
  ASSUME BreakerInv, LetThrough \/ RecordSuccess \/ RecordFailure \/ UNCHANGED breaker
  PROVE  BreakerCoherent' /\ GaugeTells'
<1> USE ResilientAssumption DEF BreakerInv, TypeInv, TypeOK, BreakerCoherent, GaugeTells
<1>1. CASE LetThrough
  BY <1>1 DEF LetThrough, IsOpen
<1>2. CASE RecordSuccess
  BY <1>2 DEF RecordSuccess
<1>3. CASE RecordFailure
  BY <1>3 DEF RecordFailure, CountFailure
<1>4. CASE UNCHANGED breaker
  BY <1>4 DEF breaker
<1>. QED  BY <1>1, <1>2, <1>3, <1>4

\* Every step keeps the breaker coherent.
LEMMA NextBreaker == BreakerInv /\ [Next]_vars => BreakerInv'
<1> SUFFICES ASSUME BreakerInv, [Next]_vars PROVE BreakerInv'
  OBVIOUS
<1>1. TypeInv'
  BY NextType DEF BreakerInv
<1>2. ASSUME NEW c \in Callers,
             \/ Call(c) \/ Succeed(c) \/ BackOff(c) \/ GiveUp(c) \/ Fatal(c)
             \/ Retry(c) \/ RetryRefused(c) \/ Cancel(c)
      PROVE  LetThrough \/ RecordSuccess \/ RecordFailure \/ UNCHANGED breaker
  <2>1. wrapper \in {"llm", "db"}
    BY DEF BreakerInv, TypeInv, TypeOK
  <2>. QED
    BY <1>2, <2>1 DEF Call, Succeed, BackOff, GiveUp, Fatal, Retry, RetryRefused, Cancel
<1>3. CASE Elapse
  BY <1>1, <1>3, ResilientAssumption
  DEF Elapse, IsOpen, BreakerInv, TypeInv, TypeOK, BreakerCoherent, GaugeTells
<1>4. CASE Weather \/ UNCHANGED vars
  <2>1. UNCHANGED breaker
    BY <1>4 DEF Weather, vars
  <2>. QED  BY <1>1, <2>1, EffectCoherent DEF BreakerInv
<1>. QED
  BY <1>1, <1>2, <1>3, <1>4, EffectCoherent DEF Next, BreakerInv

\* The breaker starts closed and coherent.
LEMMA InitBreaker == Init => BreakerInv
  BY InitType, ResilientAssumption
  DEF Init, BreakerInv, TypeInv, AttemptLeft, BreakerCoherent, GaugeTells

\* In every interleaving of calls, the breaker is opened exactly when its count
\* has reached the threshold, and half-open only after the reset time.
THEOREM BreakerIsCoherent == Spec => []BreakerCoherent
<1>1. BreakerInv => BreakerCoherent
  BY DEF BreakerInv
<1>. QED
  BY <1>1, InitBreaker, NextBreaker, PTL DEF Spec

\* In every interleaving of calls the exported gauge shows the breaker's state.
THEOREM GaugeIsRight == Spec => []GaugeTells
<1>1. BreakerInv => GaugeTells
  BY DEF BreakerInv
<1>. QED
  BY <1>1, InitBreaker, NextBreaker, PTL DEF Spec

\* While the breaker is open no call is admitted, and in the db wrapper no
\* attempt starts.
THEOREM OpenBreakerSheds == Spec => OpenSheds
<1>1. ASSUME TypeInv, [Next]_vars, IsOpen
      PROVE  /\ InFlight' \subseteq InFlight
             /\ wrapper = "db" => Calling' \subseteq Calling
  <2> USE DEF TypeInv, TypeOK, InFlight, Calling
  <2>1. ASSUME NEW c \in Callers, Call(c) \/ (Retry(c) /\ wrapper = "db")
        PROVE  FALSE
    BY <1>1, <2>1 DEF Call, Retry, LetThrough
  <2>2. ASSUME NEW c \in Callers,
               \/ Succeed(c) \/ BackOff(c) \/ GiveUp(c) \/ Fatal(c)
               \/ RetryRefused(c) \/ Cancel(c)
        PROVE  InFlight' \subseteq InFlight /\ Calling' \subseteq Calling
    BY <1>1, <2>2
    DEF Succeed, BackOff, GiveUp, Fatal, RetryRefused, Cancel, Return
  <2>3. ASSUME NEW c \in Callers, Retry(c), wrapper # "db"
        PROVE  InFlight' \subseteq InFlight
    BY <1>1, <2>3 DEF Retry, Attempt
  <2>4. CASE Elapse \/ Weather \/ UNCHANGED vars
    BY <1>1, <2>4 DEF Elapse, Weather, vars
  <2>. QED
    BY <1>1, <2>1, <2>2, <2>3, <2>4 DEF Next
<1>2. Init => TypeInv
  BY InitType DEF TypeInv, AttemptLeft, Init
<1>3. TypeInv /\ [Next]_vars
      => [IsOpen => /\ InFlight' \subseteq InFlight
                    /\ wrapper = "db" => Calling' \subseteq Calling]_vars
  BY <1>1
<1>. QED
  BY <1>2, <1>3, NextType, PTL DEF Spec, OpenSheds

--------------------------------------------------------------------------------
(* A call comes to an end *)

\* What is ahead of c's call: an attempt and a backoff for each one it has left.
Ahead(c) ==
  2 * (MaxAttempts - attempt[c])
    + (IF pc[c] = "calling" THEN 2 ELSE IF pc[c] = "backoff" THEN 1 ELSE 0)

\* A call under way is left alone by the steps of others, and each step of its
\* own ends it or takes it nearer to its end.
CallsProgress ==
  [][\A c \in Callers :
       pc[c] # "idle" => \/ pc'[c] = pc[c] /\ attempt'[c] = attempt[c]
                         \/ pc'[c] = "idle"
                         \/ Ahead(c)' < Ahead(c)]_vars

\* What is ahead of a call is bounded.
LEMMA AheadBounded == TypeOK => \A c \in Callers : Ahead(c) \in 0..(2 * MaxAttempts + 2)
<1> SUFFICES ASSUME TypeOK, NEW c \in Callers PROVE Ahead(c) \in 0..(2 * MaxAttempts + 2)
  OBVIOUS
<1>1. attempt[c] \in 0..MaxAttempts
  BY DEF TypeOK
<1>. QED
  BY <1>1, Limits DEF Ahead

\* A call in flight has a bounded number of steps left, whatever the upstream and
\* the other callers do: llm_retry_max_attempts bounds its attempts in both
\* wrappers, the one that asks the breaker before each attempt and the one that
\* does not (retry.py:71-79, db_client.py ResilientDBPool._call).
THEOREM CallsEnd ==
  Spec => CallsProgress /\ [](\A c \in Callers : Ahead(c) \in 0..(2 * MaxAttempts + 2))
<1>1. ASSUME TypeInv, [Next]_vars, NEW c \in Callers, pc[c] # "idle"
      PROVE  \/ pc'[c] = pc[c] /\ attempt'[c] = attempt[c]
             \/ pc'[c] = "idle"
             \/ Ahead(c)' < Ahead(c)
  <2>0. /\ attempt[c] \in 0..MaxAttempts /\ pc[c] \in {"idle", "calling", "backoff"}
        /\ pc \in [Callers -> {"idle", "calling", "backoff"}]
        /\ attempt \in [Callers -> 0..MaxAttempts]
    BY <1>1 DEF TypeInv, TypeOK
  <2>1. ASSUME NEW d \in Callers, d # c,
               \/ Call(d) \/ Succeed(d) \/ BackOff(d) \/ GiveUp(d) \/ Fatal(d)
               \/ Retry(d) \/ RetryRefused(d) \/ Cancel(d)
        PROVE  pc'[c] = pc[c] /\ attempt'[c] = attempt[c]
    BY <2>0, <2>1
    DEF Call, Succeed, BackOff, GiveUp, Fatal, Retry, RetryRefused, Cancel, Attempt, Return
  <2>2. CASE Succeed(c) \/ GiveUp(c) \/ Fatal(c) \/ RetryRefused(c) \/ Cancel(c)
    BY <2>0, <2>2 DEF Succeed, GiveUp, Fatal, RetryRefused, Cancel, Return
  <2>3. CASE Call(c)
    BY <1>1, <2>3 DEF Call
  <2>4. CASE BackOff(c)
    BY <2>0, <2>4, Limits DEF BackOff, Ahead
  <2>5. CASE Retry(c)
    BY <2>0, <2>5, Limits DEF Retry, Attempt, Ahead
  <2>6. CASE Elapse \/ Weather \/ UNCHANGED vars
    BY <2>6 DEF Elapse, Weather, vars
  <2>. QED
    BY <1>1, <2>1, <2>2, <2>3, <2>4, <2>5, <2>6 DEF Next
<1>2. Init => TypeInv
  BY InitType DEF TypeInv, AttemptLeft, Init
<1>3. TypeInv /\ [Next]_vars =>
        [\A c \in Callers :
           pc[c] # "idle" => \/ pc'[c] = pc[c] /\ attempt'[c] = attempt[c]
                             \/ pc'[c] = "idle"
                             \/ Ahead(c)' < Ahead(c)]_vars
  BY <1>1
<1>4. TypeInv => \A c \in Callers : Ahead(c) \in 0..(2 * MaxAttempts + 2)
  BY AheadBounded DEF TypeInv
<1>. QED
  BY <1>2, <1>3, <1>4, NextType, PTL DEF Spec, CallsProgress
================================================================================
