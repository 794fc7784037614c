----------------------------- MODULE PipelineProofs -----------------------------
(***************************************************************************)
(* Proofs about RequestPipeline.  With every fault the model has: types,   *)
(* that the committed offset passes no unclaimed request, that handlers    *)
(* end, and how many requests the faults can strand.  When no partition is *)
(* taken from a running consumer: the client's contract (RequestLifecycle),*)
(* how often an action is on record, the dead letters and the number of    *)
(* approval requests.  When the store works and no pod is killed, as well: *)
(* that what is committed is settled.                                      *)
(***************************************************************************)
EXTENDS RequestPipeline, FiniteSetTheorems, TLAPS

\* A consumer holds an event at these points; at the later ones it is a request.
Busy == Points \ {"poll", "dead", "down"}
Working == {"attempt", "complete", "retry", "dlq", "fail"}
Claiming == Working \cup {"claim"}

Holding ==
  \A c \in Consumers :
    /\ pc[c] \in Busy => offset[c] < Len(log)
    /\ pc[c] \in Claiming => Event(c) \in Requests

Typed == TypeOK /\ Holding

\* What the proofs use of the constants.
LEMMA Budgets ==
  /\ Nobody \notin Consumers /\ Junk \notin Requests
  /\ MaxRetries \in Nat
  BY PipelineAssumption

\* Append adds one element and leaves the others where they are.
LEMMA Appending ==
  ASSUME log \in Seq(Events), NEW e \in Events, log' = Append(log, e)
  PROVE  /\ log' \in Seq(Events)
         /\ Len(log) \in Nat /\ Len(log') = Len(log) + 1
         /\ \A i \in 1..Len(log) : log'[i] = log[i]
         /\ log'[Len(log) + 1] = e
  OBVIOUS

\* The actions that append to the log, and what they have in common.
Appended == \E e \in Events : log' = Append(log, e)

\* A growing log takes nobody's event away.
LEMMA HoldingGrows ==
  ASSUME Typed, Appended, UNCHANGED <<pc, offset>>
  PROVE  Holding'
<1>1. PICK e \in Events : log' = Append(log, e)
  BY DEF Appended
<1>2. log \in Seq(Events)
  BY DEF Typed, TypeOK
<1>3. ASSUME NEW c \in Consumers, pc[c] \in Busy
      PROVE  offset[c] < Len(log') /\ Event(c)' = Event(c)
  <2>1. offset[c] \in Nat /\ offset[c] < Len(log) /\ offset'[c] = offset[c]
    BY <1>3 DEF Typed, TypeOK, Holding
  <2>2. offset[c] + 1 \in 1..Len(log)
    BY <1>2, <2>1
  <2> QED BY <1>1, <1>2, <2>1, <2>2, Appending DEF Event
<1>4. Claiming \subseteq Busy
  BY DEF Claiming, Working, Busy, Points
<1> QED BY <1>3, <1>4 DEF Typed, Holding

\* A consumer that goes on to another point still holds what that point needs.
LEMMA HoldingMoves ==
  ASSUME Typed, NEW c \in Consumers, NEW l \in Points, Goto(c, l),
         UNCHANGED <<log, offset>>,
         l \in Busy => offset[c] < Len(log),
         l \in Claiming => Event(c) \in Requests
  PROVE  Holding'
<1>1. pc' = [pc EXCEPT ![c] = l] /\ pc \in [Consumers -> Points]
  BY DEF Goto, Typed, TypeOK
<1>2. ASSUME NEW d \in Consumers
      PROVE  /\ pc'[d] \in Busy => offset'[d] < Len(log')
             /\ pc'[d] \in Claiming => Event(d)' \in Requests
  <2>1. CASE d = c
    BY <1>1, <2>1 DEF Event
  <2>2. CASE d # c
    BY <1>1, <2>2 DEF Typed, Holding, Event
  <2> QED BY <2>1, <2>2
<1> QED BY <1>2 DEF Holding

\* Init gives every variable a value of its type.
LEMMA TypedInit == Init => Typed
  BY DEF Init, Typed, TypeOK, Holding, Statuses, Stages, Points, Busy, Claiming, Working

\* Every step keeps the types, and what the consumers hold.
LEMMA TypedStep == Typed /\ [Next]_vars => Typed'
<1> SUFFICES ASSUME Typed, [Next]_vars PROVE Typed'
  OBVIOUS
<1> USE Budgets
<1>1. TypeOK /\ Holding /\ log \in Seq(Events) /\ pc \in [Consumers -> Points]
  BY DEF Typed, TypeOK
<1>a. ASSUME NEW c \in Consumers, NEW from, NEW to \in Points, Step(c, from, to),
             from \in Busy, to \in Claiming => from \in Claiming, UNCHANGED <<log, offset>>
      PROVE  Holding' /\ pc' \in [Consumers -> Points]
  <2>1. pc[c] = from /\ Goto(c, to)
    BY <1>a DEF Step
  <2>2. offset[c] < Len(log)
    BY <1>1, <1>a, <2>1 DEF Holding
  <2>3. to \in Claiming => Event(c) \in Requests
    BY <1>1, <1>a, <2>1 DEF Holding
  <2> QED BY <1>1, <1>a, <2>1, <2>2, <2>3, HoldingMoves DEF Goto
<1>b. ASSUME NEW c \in Consumers, Goto(c, "dead") \/ Goto(c, "down") \/ Goto(c, "poll"),
             UNCHANGED <<log, offset>>
      PROVE  Holding' /\ pc' \in [Consumers -> Points]
  <2>1. PICK to \in {"dead", "down", "poll"} : Goto(c, to)
    BY <1>b
  <2>2. to \in Points /\ to \notin Busy /\ to \notin Claiming
    BY DEF Points, Busy, Claiming, Working
  <2> QED BY <1>1, <1>b, <2>1, <2>2, HoldingMoves DEF Goto
<1>2. ASSUME NEW r \in Requests, Save(r) PROVE Typed'
  <2>1. Holding'
    BY <1>1, <1>2 DEF Save, Holding, kafka, Event
  <2> QED BY <1>1, <1>2, <2>1
          DEF Typed, TypeOK, Save, SetStatus, Statuses, Stages, kafka, effects, dlq, budget, faults
<1>3. ASSUME NEW r \in Requests, Publish(r) PROVE Typed'
  <2>1. r \in Events
    BY DEF Events
  <2>2. Holding'
    BY <1>3, <2>1, HoldingGrows DEF Publish, Appended
  <2>3. log' \in Seq(Events)
    BY <1>1, <1>3, <2>1 DEF Publish
  <2> QED BY <1>1, <1>3, <2>2, <2>3
          DEF Typed, TypeOK, Publish, Stages, effects, dlq, budget, faults
<1>4. ASSUME NEW r \in Requests, PublishRaises(r) PROVE Typed'
  <2>1. r \in Events
    BY DEF Events
  <2>2. CASE log' = log
    <3>1. Holding'
      BY <1>1, <1>4, <2>2 DEF PublishRaises, Holding, Event
    <3> QED BY <1>1, <1>4, <2>2, <3>1
            DEF Typed, TypeOK, PublishRaises, BrokerRaises, Stages, effects, dlq
  <2>3. CASE log' = Append(log, r)
    <3>1. Holding'
      BY <1>4, <2>1, <2>3, HoldingGrows DEF PublishRaises, Appended
    <3>2. log' \in Seq(Events)
      BY <1>1, <2>1, <2>3
    <3> QED BY <1>1, <1>4, <3>1, <3>2
            DEF Typed, TypeOK, PublishRaises, BrokerRaises, Stages, effects, dlq
  <2> QED BY <1>4, <2>2, <2>3 DEF PublishRaises
<1>5. ASSUME NEW r \in Requests, Replay(r) PROVE Typed'
  <2>1. r \in Events
    BY DEF Events
  <2>2. Holding'
    BY <1>5, <2>1, HoldingGrows DEF Replay, Appended
  <2>3. log' \in Seq(Events)
    BY <1>1, <1>5, <2>1 DEF Replay
  <2> QED BY <1>1, <1>5, <2>2, <2>3
          DEF Typed, TypeOK, Replay, SetStatus, Statuses, effects, budget, faults
<1>6. CASE PublishJunk
  <2>1. Junk \in Events
    BY DEF Events
  <2>2. Holding'
    BY <1>6, <2>1, HoldingGrows DEF PublishJunk, Appended
  <2>3. log' \in Seq(Events)
    BY <1>1, <1>6, <2>1 DEF PublishJunk
  <2> QED BY <1>1, <1>6, <2>2, <2>3 DEF Typed, TypeOK, PublishJunk, effects, dlq, budget, faults
<1>7. ASSUME NEW c \in Consumers, Consume(c) PROVE Typed'
  <2> DEFINE Same == UNCHANGED <<status, client, kafka, offset, attempt, effects, dlq, budget>>
  <2>0. /\ {"check", "commit", "fail", "poll", "dead", "down"} \cup Claiming \subseteq Points
        /\ {"check", "commit"} \cup Claiming = Busy
        /\ "check" \notin Claiming /\ "commit" \notin Claiming
        /\ Claiming = {"attempt", "complete", "retry", "dlq", "fail", "claim"}
    BY DEF Points, Busy, Claiming, Working
  <2>1. CASE Fetch(c)
    <3>1. /\ pc' = [pc EXCEPT ![c] = "check"] /\ offset' = [offset EXCEPT ![c] = position]
          /\ log' = log /\ position < Len(log) /\ position \in Nat /\ position' = position + 1
      BY <1>1, <2>1 DEF Fetch, Fetches, Step, Goto, TypeOK
    <3>2. Holding'
      BY <1>1, <2>0, <3>1 DEF Holding, Event, TypeOK
    <3> QED BY <1>1, <2>0, <2>1, <3>1, <3>2
            DEF Typed, TypeOK, Fetch, Fetches, effects, dlq, budget, faults
  <2>2. CASE SkipJunk(c) \/ SkipDuplicate(c)
    <3>1. Holding' /\ pc' \in [Consumers -> Points]
      BY <1>a, <2>0, <2>2 DEF SkipJunk, SkipDuplicate, kafka
    <3> QED BY <1>1, <2>2, <3>1
            DEF Typed, TypeOK, SkipJunk, SkipDuplicate, kafka, effects, dlq, budget, faults
  <2>3. CASE Check(c)
    <3>1. Holding'
      <4>1. pc[c] = "check" /\ Goto(c, "claim") /\ UNCHANGED <<log, offset>> /\ Event(c) \in Requests
        BY <2>3 DEF Check, Step, kafka
      <4>2. offset[c] < Len(log)
        BY <1>1, <2>0, <4>1 DEF Holding
      <4> QED BY <2>0, <4>1, <4>2, HoldingMoves
    <3> QED BY <1>1, <2>0, <2>3, <3>1
            DEF Typed, TypeOK, Check, Step, Goto, kafka, effects, dlq, budget, faults
  <2>4. CASE Claim(c)
    <3>1. Holding' /\ pc' \in [Consumers -> Points]
      BY <1>a, <2>0, <2>4 DEF Claim, kafka
    <3> QED BY <1>1, <2>4, <3>1
            DEF Typed, TypeOK, Claim, SetStatus, Statuses, kafka, effects, dlq, budget, faults
  <2>5. CASE RunExecutes(c) \/ RunGated(c) \/ RunApproved(c) \/ RunRaises(c) \/ RunUnheard(c)
    <3> USE DEF RunExecutes, RunGated, RunApproved, RunRaises, RunUnheard
    <3>1. Holding' /\ pc' \in [Consumers -> Points]
      BY <1>a, <2>0, <2>5 DEF kafka
    <3>2. /\ executed' \in [Requests -> Nat] /\ unheard' \in [Requests -> Nat]
          /\ proposals' \in [Requests -> Nat]
      <4>1. ASSUME NEW n \in [Requests -> Nat], NEW e \in Requests
            PROVE  [n EXCEPT ![e] = @ + 1] \in [Requests -> Nat]
        OBVIOUS
      <4>2. /\ executed \in [Requests -> Nat] /\ unheard \in [Requests -> Nat]
            /\ proposals \in [Requests -> Nat]
        BY <1>1 DEF TypeOK
      <4>3. pc[c] = "attempt"
        BY <2>5 DEF Step
      <4>4. Event(c) \in Requests
        BY <1>1, <2>0, <4>3 DEF Holding
      <4>5. /\ executed' = executed \/ AddFor(c, executed)
            /\ unheard' = unheard \/ AddFor(c, unheard)
            /\ proposals' = proposals \/ AddFor(c, proposals)
        BY <2>5 DEF effects
      <4> QED BY <4>1, <4>2, <4>4, <4>5 DEF AddFor
    <3>3. /\ UNCHANGED <<status, client, log, committed, owner, position, offset, attempt,
                         deadLetters, dlqLost, storeFaults, brokerFaults, crashes, rebalances>>
          /\ auditFaults' = auditFaults \/ auditFaults' = auditFaults + 1
      BY <2>5 DEF AuditRaises, kafka, dlq, budget, faults
    <3> QED BY <1>1, <3>1, <3>2, <3>3 DEF Typed, TypeOK
  <2>6. CASE Retry(c) \/ Exhausted(c)
    <3>1. Holding' /\ pc' \in [Consumers -> Points]
      BY <1>a, <2>0, <2>6 DEF Retry, Exhausted, kafka
    <3>2. attempt' \in [Consumers -> Nat]
      <4>1. attempt \in [Consumers -> Nat]
        BY <1>1 DEF TypeOK
      <4>2. CASE Retry(c)
        BY <4>1, <4>2 DEF Retry
      <4>3. CASE Exhausted(c)
        BY <4>1, <4>3 DEF Exhausted
      <4> QED BY <2>6, <4>2, <4>3
    <3>3. UNCHANGED <<status, client, log, committed, owner, position, offset, effects, dlq, budget>>
      BY <2>6 DEF Retry, Exhausted, kafka
    <3> QED BY <1>1, <3>1, <3>2, <3>3 DEF Typed, TypeOK, effects, dlq, budget, faults
  <2>7. CASE Complete(c) \/ SaveFailed(c)
    <3>1. Holding' /\ pc' \in [Consumers -> Points]
      BY <1>a, <2>0, <2>7 DEF Complete, SaveFailed, kafka
    <3>2. status' \in [Requests -> Statuses]
      BY <1>1, <2>7 DEF Complete, SaveFailed, SetStatus, TypeOK, Statuses
    <3>3. UNCHANGED <<client, kafka, offset, attempt, effects, dlq, budget>>
      BY <2>7 DEF Complete, SaveFailed
    <3> QED BY <1>1, <3>1, <3>2, <3>3 DEF Typed, TypeOK, kafka, effects, dlq, budget, faults
  <2>8. CASE CompleteRaises(c)
    <3>1. Holding' /\ pc' \in [Consumers -> Points]
      BY <1>a, <2>0, <2>8 DEF CompleteRaises, kafka
    <3>2. Event(c) \in Requests
      BY <1>1, <2>0, <2>8 DEF CompleteRaises, Step, Holding
    <3>3. status' \in [Requests -> Statuses]
      BY <1>1, <2>8 DEF CompleteRaises, SetStatus, TypeOK, Statuses
    <3>4. unheard' \in [Requests -> Nat]
      <4>1. unheard \in [Requests -> Nat] /\ unheard' = [unheard EXCEPT ![Event(c)] = @ + 1]
        BY <1>1, <2>8 DEF CompleteRaises, AddFor, TypeOK
      <4> QED BY <3>2, <4>1
    <3> QED BY <1>1, <2>8, <3>1, <3>3, <3>4 DEF Typed, TypeOK, CompleteRaises, StoreRaises, kafka, dlq
  <2>9. CASE DeadLetter(c) \/ DeadLetterRaises(c)
    <3>1. Holding' /\ pc' \in [Consumers -> Points]
      BY <1>a, <2>0, <2>9 DEF DeadLetter, DeadLetterRaises, kafka
    <3>2. pc[c] = "dlq"
      BY <2>9 DEF DeadLetter, DeadLetterRaises, Step
    <3>3. Event(c) \in Requests
      BY <1>1, <2>0, <3>2 DEF Holding
    <3>4. deadLetters' \in SUBSET Requests /\ dlqLost' \in SUBSET Requests
      BY <1>1, <2>9, <3>3 DEF TypeOK, DeadLetter, DeadLetterRaises
    <3>5. /\ UNCHANGED <<storeFaults, auditFaults, crashes, rebalances>>
          /\ brokerFaults' \in Nat
      BY <1>1, <2>9 DEF TypeOK, DeadLetter, DeadLetterRaises, BrokerRaises, budget, faults
    <3> QED BY <1>1, <2>9, <3>1, <3>4, <3>5
            DEF Typed, TypeOK, DeadLetter, DeadLetterRaises, kafka, effects
  <2>10. CASE HandleRaises(c)
    <3>1. Holding' /\ pc' \in [Consumers -> Points]
      BY <1>b, <2>10 DEF HandleRaises
    <3>2. status' \in [Requests -> Statuses]
      BY <1>1, <2>10 DEF HandleRaises, SetStatus, TypeOK, Statuses
    <3>3. owner' \in Consumers \cup {Nobody}
      BY <1>1, <2>10 DEF HandleRaises, GiveUp, TypeOK
    <3>4. /\ UNCHANGED <<auditFaults, brokerFaults, crashes, rebalances>>
          /\ storeFaults' \in Nat
      BY <1>1, <2>10 DEF HandleRaises, StoreRaises, TypeOK
    <3>5. UNCHANGED <<client, log, committed, position, offset, attempt, effects, dlq>>
      BY <2>10 DEF HandleRaises
    <3> QED BY <1>1, <3>1, <3>2, <3>3, <3>4, <3>5 DEF Typed, TypeOK, effects, dlq
  <2>11. CASE Commit(c)
    <3>1. Holding' /\ pc' \in [Consumers -> Points]
      BY <1>b, <2>11 DEF Commit, Step
    <3> QED BY <1>1, <2>11, <3>1 DEF Typed, TypeOK, Commit, effects, dlq, budget, faults
  <2>12. CASE CommitRefused(c)
    <3>1. Holding' /\ pc' \in [Consumers -> Points]
      BY <1>b, <2>12 DEF CommitRefused, Step, kafka
    <3> QED BY <1>1, <2>12, <3>1
            DEF Typed, TypeOK, CommitRefused, kafka, effects, dlq, budget, faults
  <2>13. CASE CommitRaises(c)
    <3>1. Holding' /\ pc' \in [Consumers -> Points]
      BY <1>b, <2>13 DEF CommitRaises, Step
    <3> QED BY <1>1, <2>13, <3>1 DEF Typed, TypeOK, CommitRaises, BrokerRaises, effects, dlq
  <2> QED
    BY <1>7, <2>1, <2>2, <2>3, <2>4, <2>5, <2>6, <2>7, <2>8, <2>9, <2>10, <2>11, <2>12, <2>13
    DEF Consume
<1>8. ASSUME NEW c \in Consumers, Assign(c) \/ Rebalance(c) PROVE Typed'
  <2>1. Receive(c) /\ rebalances' \in {rebalances, rebalances + 1}
    BY <1>8 DEF Assign, Rebalance
  <2>2. Holding'
    BY <1>1, <2>1 DEF Receive, Holding, Event
  <2> QED BY <1>1, <2>1, <2>2 DEF Receive, Typed, TypeOK, effects, dlq, faults
<1>9. ASSUME NEW c \in Consumers, Crash(c) PROVE Typed'
  <2>1. Holding' /\ pc' \in [Consumers -> Points]
    BY <1>b, <1>9 DEF Crash
  <2> QED BY <1>1, <1>9, <2>1 DEF Typed, TypeOK, Crash, GiveUp, effects, dlq, faults
<1>10. ASSUME NEW c \in Consumers, Restart(c) PROVE Typed'
  <2>1. Holding' /\ pc' \in [Consumers -> Points]
    BY <1>b, <1>10 DEF Restart, Step, kafka
  <2> QED BY <1>1, <1>10, <2>1 DEF Typed, TypeOK, Restart, kafka, effects, dlq, budget, faults
<1>11. CASE UNCHANGED vars
  BY <1>1, <1>11 DEF Typed, TypeOK, Holding, Event, vars, kafka, effects, dlq, budget, faults
<1> QED
  BY <1>2, <1>3, <1>4, <1>5, <1>6, <1>7, <1>8, <1>9, <1>10, <1>11 DEF Next

\* Statuses, the log, offsets and records stay in their ranges, with all faults.
THEOREM TypeCorrect == Spec => []TypeOK
<1>1. Typed => TypeOK
  BY DEF Typed
<1> QED BY <1>1, TypedInit, TypedStep, PTL DEF Spec

\* The same as an invariant.
LEMMA AlwaysTyped == Spec => []Typed
  BY TypedInit, TypedStep, PTL DEF Spec

--------------------------------------------------------------------------------
(* What is committed was claimed *)

Unclaimed == {"unknown", "queued"}

\* A request nobody has submitted yet is unknown and not in the log.
Fresh ==
  \A r \in Requests :
    client[r] = "new" => status[r] = "unknown" /\ \A i \in 1..Len(log) : log[i] # r

\* No request with a status of W waits for a reader of its last event below m.
Clear(W, m) ==
  \A i \in 1..m :
    log[i] \in Requests =>
      \/ status[log[i]] \notin W
      \/ \E j \in m + 1 .. Len(log) : log[j] = log[i]

\* The places of the log somebody is past: the committed offset, the events in
\* hand, those beyond a consumer at one of the points S, and the place the owner
\* reads on from unless it is the one after the event it still holds.
Passed(S, m) ==
  \/ m = committed
  \/ \E c \in Consumers : pc[c] \in Busy /\ m = offset[c]
  \/ \E c \in Consumers : pc[c] \in S /\ m = offset[c] + 1
  \/ /\ owner \in Consumers /\ m = position
     /\ pc[owner] \in Busy => position # offset[owner] + 1

AllClear(S, W) == \A m \in Nat : Passed(S, m) => m <= Len(log) /\ Clear(W, m)

Carried == Working \cup {"commit"}

ClaimInv == Typed /\ Fresh /\ AllClear(Carried, Unclaimed)

\* How log, clients and statuses may change: a request becomes unclaimed only
\* when it is submitted for the first time, or together with a new event.
Evolves ==
  /\ \/ log' = log
     \/ \E e \in Events : log' = Append(log, e) /\ (e \in Requests => client[e] # "new")
  /\ \A r \in Requests : client'[r] = "new" => client[r] = "new" /\ status'[r] = status[r]
  /\ \A r \in Requests :
       status'[r] \in Unclaimed =>
         status[r] \in Unclaimed \/ client[r] = "new" \/ log' = Append(log, r)

\* The points of a consumer, from those with the most to those without an event.
LEMMA PointSets ==
  /\ Claiming = {"claim", "attempt", "complete", "retry", "dlq", "fail"}
  /\ Working = {"attempt", "complete", "retry", "dlq", "fail"}
  /\ Carried = {"attempt", "complete", "retry", "dlq", "fail", "commit"}
  /\ Busy = Claiming \cup {"check", "commit"}
  /\ Points = Busy \cup {"poll", "dead", "down"}
  /\ Working \subseteq Claiming /\ Claiming \subseteq Busy /\ "claim" \notin Working
  /\ Working \subseteq Carried /\ Carried \subseteq Busy
  /\ "poll" \notin Busy /\ "dead" \notin Busy /\ "down" \notin Busy
  BY DEF Claiming, Working, Carried, Busy, Points

\* The log only grows.
LEMMA LogGrows ==
  ASSUME Typed, Evolves
  PROVE  /\ log \in Seq(Events) /\ Len(log) \in Nat /\ Len(log') \in Nat
         /\ Len(log) <= Len(log')
         /\ \A i \in 1..Len(log) : log'[i] = log[i]
<1>1. log \in Seq(Events)
  BY DEF Typed, TypeOK
<1>2. CASE log' = log
  BY <1>1, <1>2
<1>3. ASSUME NEW e \in Events, log' = Append(log, e)
      PROVE  /\ Len(log) \in Nat /\ Len(log') \in Nat /\ Len(log) <= Len(log')
             /\ \A i \in 1..Len(log) : log'[i] = log[i]
  BY <1>1, <1>3, Appending
<1> QED BY <1>1, <1>2, <1>3 DEF Evolves

\* The place of an event in hand.
LEMMA InHand ==
  ASSUME Typed, NEW c \in Consumers, pc[c] \in Busy
  PROVE  /\ offset[c] \in Nat /\ Len(log) \in Nat /\ offset[c] < Len(log)
         /\ offset[c] + 1 \in 1..Len(log)
         /\ pc[c] \in Claiming => Event(c) \in Requests
<1>1. offset[c] \in Nat /\ Len(log) \in Nat /\ offset[c] < Len(log)
  BY DEF Typed, TypeOK, Holding
<1> QED BY <1>1 DEF Typed, Holding

\* A request that nobody has submitted stays unknown and out of the log.
LEMMA FreshLasts ==
  ASSUME Typed, Fresh, Evolves
  PROVE  Fresh'
<1> SUFFICES ASSUME NEW r \in Requests, client'[r] = "new"
             PROVE  status'[r] = "unknown" /\ \A i \in 1..Len(log') : log'[i] # r
  BY DEF Fresh
<1>1. client[r] = "new" /\ status'[r] = status[r]
  BY DEF Evolves
<1>2. status[r] = "unknown" /\ \A i \in 1..Len(log) : log[i] # r
  BY <1>1 DEF Fresh
<1>3. CASE log' = log
  BY <1>1, <1>2, <1>3
<1>4. ASSUME NEW e \in Events, log' = Append(log, e), e \in Requests => client[e] # "new"
      PROVE  \A i \in 1..Len(log') : log'[i] # r
  <2>1. log \in Seq(Events)
    BY DEF Typed, TypeOK
  <2>2. e # r
    BY <1>1, <1>4
  <2> QED BY <1>2, <1>4, <2>1, <2>2, Appending
<1> QED BY <1>1, <1>2, <1>3, <1>4 DEF Evolves

\* What is clear stays clear when a status of W comes with a new event only.
LEMMA ClearLasts ==
  ASSUME Typed, Evolves, NEW W, NEW m \in 0..Len(log), Clear(W, m),
         \A i \in 1..Len(log) :
           log[i] \in Requests /\ status'[log[i]] \in W =>
             status[log[i]] \in W \/ log' = Append(log, log[i])
  PROVE  Clear(W, m)'
<1>1. /\ Len(log) \in Nat /\ Len(log') \in Nat /\ Len(log) <= Len(log')
      /\ \A i \in 1..Len(log) : log'[i] = log[i]
  BY LogGrows
<1> SUFFICES ASSUME NEW k \in 1..m, log'[k] \in Requests, status'[log'[k]] \in W
             PROVE  \E j \in m + 1 .. Len(log') : log'[j] = log'[k]
  BY DEF Clear
<1>2. k \in 1..Len(log) /\ log'[k] = log[k]
  BY <1>1
<1>3. CASE log' = Append(log, log[k])
  <2>1. log'[Len(log) + 1] = log'[k] /\ Len(log') = Len(log) + 1
    BY <1>1, <1>2, <1>3, Appending DEF Typed, TypeOK, Events
  <2> QED BY <1>1, <2>1
<1>4. CASE log' # Append(log, log[k])
  <2>1. log[k] \in Requests /\ status[log[k]] \in W
    BY <1>2, <1>4
  <2>2. PICK j \in m + 1 .. Len(log) : log[j] = log[k]
    BY <2>1 DEF Clear
  <2>3. j \in 1..Len(log) /\ j \in m + 1 .. Len(log')
    BY <1>1, <2>2
  <2> QED BY <1>1, <1>2, <2>2, <2>3
<1> QED BY <1>3, <1>4

\* One more event is clear when its request has no status of W.
LEMMA ClearExtends ==
  ASSUME NEW W, NEW n \in Nat, Len(log') \in Nat, Clear(W, n)',
         log'[n + 1] \in Requests => status'[log'[n + 1]] \notin W
  PROVE  Clear(W, n + 1)'
<1> SUFFICES ASSUME NEW k \in 1..n + 1, log'[k] \in Requests, status'[log'[k]] \in W
             PROVE  \E j \in (n + 1) + 1 .. Len(log') : log'[j] = log'[k]
  BY DEF Clear
<1>1. k # n + 1
  OBVIOUS
<1>2. k \in 1..n
  BY <1>1
<1>3. PICK j \in n + 1 .. Len(log') : log'[j] = log'[k]
  BY <1>2 DEF Clear
<1>4. j # n + 1
  BY <1>3
<1>5. j \in (n + 1) + 1 .. Len(log')
  BY <1>3, <1>4
<1> QED BY <1>3, <1>5

\* The statuses the consumers write.
LEMMA StatusWritten ==
  ASSUME Typed, Fresh, NEW c \in Consumers, pc[c] \in Claiming,
         NEW s \in Statuses \ Unclaimed, SetStatus(Event(c), s), UNCHANGED <<client, log>>
  PROVE  Evolves
<1>1. Event(c) \in Requests /\ offset[c] + 1 \in 1..Len(log)
  BY InHand, PointSets
<1>2. client[Event(c)] # "new"
  BY <1>1 DEF Fresh, Event
<1>3. \A r \in Requests : r # Event(c) => status'[r] = status[r]
  BY DEF SetStatus, Typed, TypeOK
<1>4. status'[Event(c)] = s
  BY <1>1 DEF SetStatus, Typed, TypeOK
<1> QED BY <1>2, <1>3, <1>4 DEF Evolves

\* Every step changes log, clients and statuses in one of the ways of Evolves.
LEMMA Evolution == Typed /\ Fresh /\ [Next]_vars => Evolves
<1> SUFFICES ASSUME Typed, Fresh, [Next]_vars PROVE Evolves
  OBVIOUS
<1>1. CASE UNCHANGED <<log, client, status>>
  BY <1>1 DEF Evolves
<1>2. ASSUME NEW r \in Requests, Save(r) PROVE Evolves
  BY <1>2 DEF Save, SetStatus, Evolves, Typed, TypeOK, kafka
<1>3. ASSUME NEW r \in Requests, Publish(r) \/ PublishRaises(r) PROVE Evolves
  <2>1. r \in Events /\ client[r] = "saved" /\ status' = status
    BY <1>3 DEF Publish, PublishRaises, Events
  <2>2. client' \in {[client EXCEPT ![r] = "accepted"], [client EXCEPT ![r] = "refused"]}
    BY <1>3 DEF Publish, PublishRaises
  <2>3. log' = log \/ log' = Append(log, r)
    BY <1>3 DEF Publish, PublishRaises
  <2>4. \A q \in Requests : client'[q] = "new" => client[q] = "new"
    BY <2>2 DEF Typed, TypeOK
  <2> QED BY <2>1, <2>3, <2>4 DEF Evolves
<1>4. ASSUME NEW r \in Requests, Replay(r) PROVE Evolves
  <2>1. /\ r \in Events /\ log' = Append(log, r) /\ client' = client /\ status[r] = "failed"
        /\ status' = [status EXCEPT ![r] = "queued"]
    BY <1>4 DEF Replay, SetStatus, Events
  <2>2. client[r] # "new"
    BY <2>1 DEF Fresh
  <2> QED BY <2>1, <2>2 DEF Evolves, Typed, TypeOK
<1>5. CASE PublishJunk
  <2>1. /\ Junk \in Events /\ Junk \notin Requests
        /\ log' = Append(log, Junk) /\ client' = client /\ status' = status
    BY <1>5, Budgets DEF PublishJunk, Events
  <2> QED BY <2>1 DEF Evolves
<1>6. ASSUME NEW c \in Consumers, Consume(c) PROVE Evolves
  <2>0. {"claim", "complete", "fail"} \subseteq Claiming
        /\ {"processing", "completed", "failed"} \subseteq Statuses \ Unclaimed
    BY DEF Claiming, Working, Statuses, Unclaimed
  <2>1. CASE Claim(c)
    BY <2>0, <2>1, StatusWritten DEF Claim, Step, kafka
  <2>2. CASE Complete(c) \/ CompleteRaises(c)
    <3>1. /\ pc[c] = "complete" /\ UNCHANGED <<client, log>>
          /\ status' = status \/ SetStatus(Event(c), "completed")
      BY <2>2 DEF Complete, CompleteRaises, Step, kafka
    <3> QED BY <1>1, <2>0, <3>1, StatusWritten
  <2>3. CASE SaveFailed(c)
    BY <2>0, <2>3, StatusWritten DEF SaveFailed, Step, kafka
  <2>4. CASE HandleRaises(c)
    <3>1. /\ UNCHANGED <<client, log>>
          /\ \/ status' = status
             \/ /\ pc[c] \in {"claim", "fail"}
                /\ SetStatus(Event(c), "processing") \/ SetStatus(Event(c), "failed")
      BY <2>4 DEF HandleRaises
    <3> QED BY <1>1, <2>0, <3>1, StatusWritten
  <2>5. CASE ~(Claim(c) \/ Complete(c) \/ CompleteRaises(c) \/ SaveFailed(c) \/ HandleRaises(c))
    <3>1. UNCHANGED <<log, client, status>>
      BY <1>6, <2>5
      DEF Consume, Fetch, Fetches, SkipJunk, SkipDuplicate, Check, RunExecutes, RunGated,
          RunApproved, RunRaises, RunUnheard, Retry, Exhausted, DeadLetter, DeadLetterRaises,
          Commit, CommitRefused, CommitRaises, kafka
    <3> QED BY <1>1, <3>1
  <2> QED BY <2>1, <2>2, <2>3, <2>4, <2>5
<1>7. ASSUME NEW c \in Consumers, Assign(c) \/ Rebalance(c) \/ Crash(c) \/ Restart(c)
      PROVE  Evolves
  BY <1>1, <1>7 DEF Assign, Rebalance, Receive, Crash, Restart, kafka
<1>8. CASE UNCHANGED vars
  BY <1>1, <1>8 DEF vars, kafka
<1> QED BY <1>2, <1>3, <1>4, <1>5, <1>6, <1>7, <1>8 DEF Next

\* The steps of a consumer that keep the event it holds.
Within(c) ==
  /\ pc[c] \in Busy
  /\ \E l \in Busy : Goto(c, l)
  /\ UNCHANGED <<log, committed, owner, position, offset>>

\* The steps that end a consumer, or start one: it is no longer the owner.
Ends(c) ==
  /\ \/ Goto(c, "dead") \/ Goto(c, "down")
     \/ Goto(c, "poll") /\ pc[c] \notin Busy
  /\ owner' \in {owner, Nobody} /\ (pc[c] \in Busy => owner' # c)
  /\ UNCHANGED <<committed, position, offset>>

\* Every step is one of these.
LEMMA StepKinds ==
  ASSUME [Next]_vars
  PROVE  \/ UNCHANGED <<pc, committed, owner, position, offset>>
         \/ \E c \in Consumers :
              Within(c) \/ Ends(c) \/ Fetch(c) \/ Receive(c) \/ Commit(c) \/ CommitRaises(c)
<1>0. Nobody \notin Consumers
  BY Budgets
<1>1. CASE UNCHANGED vars
  BY <1>1 DEF vars, kafka
<1>2. ASSUME NEW r \in Requests, Save(r) \/ Publish(r) \/ PublishRaises(r) \/ Replay(r)
      PROVE  UNCHANGED <<pc, committed, owner, position, offset>>
  BY <1>2 DEF Save, Publish, PublishRaises, Replay, kafka
<1>3. CASE PublishJunk
  BY <1>3 DEF PublishJunk
<1>4. ASSUME NEW c \in Consumers,
             \/ SkipJunk(c) \/ SkipDuplicate(c) \/ Check(c) \/ Claim(c)
             \/ RunExecutes(c) \/ RunGated(c) \/ RunApproved(c) \/ RunRaises(c) \/ RunUnheard(c)
             \/ Retry(c) \/ Exhausted(c) \/ Complete(c) \/ CompleteRaises(c)
             \/ DeadLetter(c) \/ DeadLetterRaises(c) \/ SaveFailed(c)
      PROVE  Within(c)
  BY <1>4, PointSets
  DEF SkipJunk, SkipDuplicate, Check, Claim, RunExecutes, RunGated, RunApproved, RunRaises,
      RunUnheard, Retry, Exhausted, Complete, CompleteRaises, DeadLetter, DeadLetterRaises,
      SaveFailed, Step, kafka, Within
<1>5. ASSUME NEW c \in Consumers,
             HandleRaises(c) \/ CommitRefused(c) \/ Crash(c) \/ Restart(c)
      PROVE  Ends(c)
  <2>1. CASE HandleRaises(c) \/ Crash(c)
    BY <1>0, <2>1 DEF HandleRaises, Crash, GiveUp, Ends
  <2>2. CASE CommitRefused(c)
    BY <2>2 DEF CommitRefused, Step, kafka, Ends
  <2>3. CASE Restart(c)
    BY <2>3, PointSets DEF Restart, Step, kafka, Ends
  <2> QED BY <1>5, <2>1, <2>2, <2>3
<1>6. ASSUME NEW c \in Consumers, Assign(c) \/ Rebalance(c) PROVE Receive(c)
  BY <1>6 DEF Assign, Rebalance
<1> QED BY <1>1, <1>2, <1>3, <1>4, <1>5, <1>6 DEF Next, Consume

\* Nobody gets past a place without being past the one before it.
LEMMA Passing ==
  ASSUME Typed, [Next]_vars, NEW S \in SUBSET Carried, "commit" \in S, NEW m, Passed(S, m)'
  PROVE  \/ Passed(S, m)
         \/ \E d \in Consumers :
              pc[d] \in Busy \ S /\ pc'[d] \in S /\ offset'[d] = offset[d] /\ m = offset[d] + 1
<1>0. /\ pc \in [Consumers -> Points] /\ offset \in [Consumers -> Nat] /\ position \in Nat
      /\ owner \in Consumers \cup {Nobody} /\ Nobody \notin Consumers
      /\ "poll" \notin Busy /\ "dead" \notin Busy /\ "down" \notin Busy
      /\ "check" \in Busy /\ "commit" \in Busy /\ "check" \notin S /\ S \subseteq Busy
  BY Budgets, PointSets DEF Typed, TypeOK
<1>1. CASE UNCHANGED <<pc, committed, owner, position, offset>>
  BY <1>1 DEF Passed
<1>2. ASSUME NEW c \in Consumers, Within(c)
      PROVE  \/ Passed(S, m)
             \/ \E d \in Consumers :
                  pc[d] \in Busy \ S /\ pc'[d] \in S /\ offset'[d] = offset[d] /\ m = offset[d] + 1
  <2>1. /\ pc[c] \in Busy /\ pc'[c] \in Busy /\ \A d \in Consumers \ {c} : pc'[d] = pc[d]
        /\ UNCHANGED <<committed, owner, position, offset>>
    BY <1>0, <1>2 DEF Within, Goto
  <2> QED BY <1>0, <2>1 DEF Passed
<1>3. ASSUME NEW c \in Consumers, Ends(c) PROVE Passed(S, m)
  <2>1. /\ pc'[c] \notin Busy /\ \A d \in Consumers \ {c} : pc'[d] = pc[d]
        /\ owner' \in {owner, Nobody} /\ (pc[c] \in Busy => owner' # c)
        /\ UNCHANGED <<committed, position, offset>>
    BY <1>0, <1>3 DEF Ends, Goto
  <2> QED BY <1>0, <2>1 DEF Passed
<1>4. ASSUME NEW c \in Consumers, Fetch(c) PROVE Passed(S, m)
  <2>1. /\ pc[c] = "poll" /\ pc'[c] = "check" /\ owner = c /\ owner' = c /\ committed' = committed
        /\ offset'[c] = position /\ position' = position + 1
        /\ \A d \in Consumers \ {c} : pc'[d] = pc[d] /\ offset'[d] = offset[d]
    BY <1>0, <1>4 DEF Fetch, Fetches, Step, Goto
  <2> QED BY <1>0, <2>1 DEF Passed
<1>5. ASSUME NEW c \in Consumers, Receive(c) PROVE Passed(S, m)
  <2>1. owner' = c /\ position' = committed /\ UNCHANGED <<committed, pc, offset>>
    BY <1>5 DEF Receive
  <2> QED BY <2>1 DEF Passed
<1>6. ASSUME NEW c \in Consumers, Commit(c) \/ CommitRaises(c) PROVE Passed(S, m)
  <2>1. /\ pc[c] = "commit" /\ pc'[c] \notin Busy /\ \A d \in Consumers \ {c} : pc'[d] = pc[d]
        /\ committed' \in {committed, offset[c] + 1}
        /\ owner = c /\ owner' \in {c, Nobody}
        /\ UNCHANGED <<position, offset>>
    BY <1>0, <1>6 DEF Commit, CommitRaises, Step, Goto
  <2> QED BY <1>0, <2>1 DEF Passed
<1> QED BY <1>1, <1>2, <1>3, <1>4, <1>5, <1>6, StepKinds

\* Only its own steps and a crash or restart of its pod move a consumer.
LEMMA Mover ==
  ASSUME Typed, [Next]_vars, NEW d \in Consumers, pc'[d] # pc[d]
  PROVE  Consume(d) \/ Crash(d) \/ Restart(d)
<1>0. pc \in [Consumers -> Points]
  BY DEF Typed, TypeOK
<1>1. ASSUME NEW c \in Consumers, Consume(c) \/ Crash(c) \/ Restart(c) PROVE c = d
  <2>1. \E l : pc' = [pc EXCEPT ![c] = l]
    BY <1>1
    DEF Consume, Crash, Restart, Fetch, Fetches, SkipJunk, SkipDuplicate, Check, Claim,
        RunExecutes, RunGated, RunApproved, RunRaises, RunUnheard, Retry, Exhausted, Complete,
        CompleteRaises, DeadLetter, DeadLetterRaises, SaveFailed, HandleRaises, Commit,
        CommitRefused, CommitRaises, Step, Goto
  <2> QED BY <1>0, <2>1
<1>2. ASSUME NEW r \in Requests, Save(r) \/ Publish(r) \/ PublishRaises(r) \/ Replay(r)
      PROVE  FALSE
  BY <1>2 DEF Save, Publish, PublishRaises, Replay
<1>3. ASSUME NEW c \in Consumers, Assign(c) \/ Rebalance(c) PROVE FALSE
  BY <1>3 DEF Assign, Rebalance, Receive
<1>4. CASE PublishJunk \/ UNCHANGED vars
  BY <1>4 DEF PublishJunk, vars
<1> QED BY <1>1, <1>2, <1>3, <1>4 DEF Next

\* Whoever holds an event keeps it: appends, assignments and the fetches of others
\* are about other places of the log.
LEMMA HeldEvents ==
  ASSUME Typed, Fresh, [Next]_vars, NEW d \in Consumers, pc[d] \in Busy
  PROVE  Event(d)' = Event(d)
<1>1. offset[d] + 1 \in 1..Len(log) /\ offset \in [Consumers -> Nat] /\ pc[d] # "poll"
  BY InHand, PointSets DEF Typed, TypeOK
<1>2. \A i \in 1..Len(log) : log'[i] = log[i]
  BY Evolution, LogGrows
<1>3. offset'[d] = offset[d]
  <2>1. ASSUME NEW c \in Consumers,
               Within(c) \/ Ends(c) \/ Receive(c) \/ Commit(c) \/ CommitRaises(c)
        PROVE  offset' = offset
    BY <2>1 DEF Within, Ends, Receive, Commit, CommitRaises
  <2>2. ASSUME NEW c \in Consumers, Fetch(c) PROVE offset'[d] = offset[d]
    BY <1>1, <2>2 DEF Fetch, Fetches, Step
  <2> QED BY <2>1, <2>2, StepKinds
<1> QED BY <1>1, <1>2, <1>3 DEF Event

\* The steps that take a consumer past the check.
LEMMA EnteringCarried ==
  ASSUME Typed, [Next]_vars, NEW d \in Consumers, pc[d] \in Busy \ Carried, pc'[d] \in Carried
  PROVE  Claim(d) \/ SkipJunk(d) \/ SkipDuplicate(d)
<1>0. pc \in [Consumers -> Points] /\ pc[d] \in {"check", "claim"} /\ pc'[d] # pc[d]
  BY PointSets DEF Typed, TypeOK
<1>1. Consume(d) \/ Crash(d) \/ Restart(d)
  BY <1>0, Mover
<1>2. ~(Check(d) \/ HandleRaises(d) \/ Crash(d) \/ Restart(d))
  <2>1. pc' # [pc EXCEPT ![d] = "claim"] /\ pc' # [pc EXCEPT ![d] = "dead"]
        /\ pc' # [pc EXCEPT ![d] = "down"] /\ pc' # [pc EXCEPT ![d] = "poll"]
    BY <1>0, PointSets
  <2> QED BY <2>1 DEF Check, HandleRaises, Crash, Restart, Step, Goto
<1> QED BY <1>0, <1>1, <1>2
  DEF Consume, Fetch, Fetches, RunExecutes, RunGated, RunApproved, RunRaises, RunUnheard,
      Retry, Exhausted, Complete, CompleteRaises, DeadLetter, DeadLetterRaises, SaveFailed,
      Commit, CommitRefused, CommitRaises, Step

\* Every place stays clear when a status of W comes with a new event only, and
\* whoever enters S leaves no status of W behind.
LEMMA AllClearLasts ==
  ASSUME Typed, Evolves, [Next]_vars, NEW S \in SUBSET Carried, "commit" \in S,
         NEW W, AllClear(S, W),
         \A i \in 1..Len(log) :
           log[i] \in Requests /\ status'[log[i]] \in W =>
             status[log[i]] \in W \/ log' = Append(log, log[i]),
         \A d \in Consumers : pc[d] \in Busy \ S /\ pc'[d] \in S =>
           log' = log /\ (Event(d) \in Requests => status'[Event(d)] \notin W)
  PROVE  AllClear(S, W)'
<1>0. Len(log) \in Nat /\ Len(log') \in Nat /\ Len(log) <= Len(log')
  BY LogGrows
<1> SUFFICES ASSUME NEW m \in Nat, Passed(S, m)' PROVE m <= Len(log') /\ Clear(W, m)'
  BY DEF AllClear
<1>1. ASSUME NEW n \in Nat, Passed(S, n) PROVE n <= Len(log) /\ Clear(W, n)'
  <2>1. n <= Len(log) /\ Clear(W, n)
    BY <1>1 DEF AllClear
  <2>2. n \in 0..Len(log)
    BY <1>0, <2>1
  <2> QED BY <2>1, <2>2, ClearLasts
<1>2. CASE Passed(S, m)
  BY <1>0, <1>1, <1>2
<1>3. ASSUME NEW d \in Consumers, pc[d] \in Busy \ S, pc'[d] \in S, m = offset[d] + 1
      PROVE  m <= Len(log') /\ Clear(W, m)'
  <2>1. PICK n \in Nat : n = offset[d] /\ n < Len(log) /\ m = n + 1
    BY <1>3, InHand
  <2>2. Passed(S, n)
    BY <1>3, <2>1 DEF Passed
  <2>3. Clear(W, n)'
    BY <1>1, <2>2
  <2>4. log' = log /\ (log[n + 1] \in Requests => status'[log[n + 1]] \notin W)
    BY <1>3, <2>1 DEF Event
  <2>5. Clear(W, n + 1)'
    BY <1>0, <2>3, <2>4, ClearExtends
  <2> QED BY <1>0, <2>1, <2>5
<1> QED BY <1>2, <1>3, Passing

\* The invariant holds at the start.
LEMMA AllClearInit == Init => \A S, W : S \subseteq Carried => AllClear(S, W)
  BY Budgets, PointSets DEF Init, AllClear, Passed, Clear

\* The invariant holds at the start.
LEMMA ClaimInvInit == Init => ClaimInv
<1> SUFFICES ASSUME Init PROVE ClaimInv
  OBVIOUS
<1>1. Fresh
  BY DEF Init, Fresh
<1> QED BY <1>1, TypedInit, AllClearInit DEF ClaimInv

\* Every step keeps the invariant.
LEMMA ClaimInvStep == ClaimInv /\ [Next]_vars => ClaimInv'
<1> SUFFICES ASSUME ClaimInv, [Next]_vars PROVE ClaimInv'
  OBVIOUS
<1>1. Typed /\ Fresh /\ AllClear(Carried, Unclaimed) /\ Typed' /\ Evolves
  BY TypedStep, Evolution DEF ClaimInv
<1>2. Fresh'
  BY <1>1, FreshLasts
<1>3. ASSUME NEW i \in 1..Len(log), log[i] \in Requests, status'[log[i]] \in Unclaimed
      PROVE  status[log[i]] \in Unclaimed \/ log' = Append(log, log[i])
  BY <1>1, <1>3 DEF Fresh, Evolves
<1>4. ASSUME NEW d \in Consumers, pc[d] \in Busy \ Carried, pc'[d] \in Carried
      PROVE  log' = log /\ (Event(d) \in Requests => status'[Event(d)] \notin Unclaimed)
  <2>1. Claim(d) \/ SkipJunk(d) \/ SkipDuplicate(d)
    BY <1>1, <1>4, EnteringCarried
  <2>2. CASE Claim(d)
    <3>1. log' = log /\ status' = [status EXCEPT ![Event(d)] = "processing"]
      BY <2>2 DEF Claim, SetStatus, kafka
    <3> QED BY <1>1, <3>1 DEF Typed, TypeOK, Unclaimed
  <2>3. CASE SkipJunk(d) \/ SkipDuplicate(d)
    BY <2>3, Budgets DEF SkipJunk, SkipDuplicate, Unclaimed, kafka
  <2> QED BY <2>1, <2>2, <2>3
<1>5. Carried \in SUBSET Carried /\ "commit" \in Carried
  BY PointSets
<1>6. AllClear(Carried, Unclaimed)'
  BY <1>1, <1>3, <1>4, <1>5, AllClearLasts
<1> QED BY <1>1, <1>2, <1>6 DEF ClaimInv

\* Crashes, store, audit and broker faults and reassignments included, also one
\* that gives the partition back to a consumer that still handles an earlier
\* event, the committed offset never passes the last event of a request that
\* nobody has claimed.
THEOREM ClaimedBeforeCommit == Spec => []CommittedWasClaimed
<1>1. ClaimInv => CommittedWasClaimed
  BY DEF ClaimInv, AllClear, Passed, Clear, CommittedWasClaimed, Unclaimed, Typed, TypeOK
<1> QED BY <1>1, ClaimInvInit, ClaimInvStep, PTL DEF Spec

--------------------------------------------------------------------------------
(* The client's contract, when no partition is taken away *)

Steady == MaxRebalances = 0

\* Only the owner of the partition holds an event.
Exclusive == \A c \in Consumers : pc[c] \in Busy => owner = c

Known == \A r \in Requests : status[r] = "unknown" => client[r] = "new"

\* What a consumer knows of the request it handles: its runs were taken for
\* failures, except the one it is about to save as completed.
HeldBy(c) ==
  /\ pc[c] = "claim" => status[Event(c)] = "queued"
  /\ pc[c] \in Working =>
       /\ status[Event(c)] \in {"processing", "completed"}
       /\ executed[Event(c)] =
            IF pc[c] = "complete" THEN unheard[Event(c)] + 1 ELSE unheard[Event(c)]
  /\ pc[c] = "fail" => Event(c) \in deadLetters \cup dlqLost

Held == \A c \in Consumers : HeldBy(c)

\* Every run of a request that waits or has failed was taken for a failure.
Unrun ==
  \A r \in Requests : status[r] \in {"unknown", "queued", "failed"} => executed[r] = unheard[r]

ContractInv == ClaimInv /\ Exclusive /\ Known /\ Held /\ Unrun /\ FailedIsOnDLQ

\* A step of the contract, or none.
Promised == [Lifecycle!Next]_<<status, Handled, executed, unheard>>

\* The variables of the invariant, except where the events are.
Contracted == <<status, client, executed, unheard, deadLetters, dlqLost>>

\* What the contract takes for handled: the requests of working consumers.
LEMMA HandledAre ==
  Handled = {r \in Requests : \E c \in Consumers : pc[c] \in Working /\ Event(c) = r}
  BY DEF Handled, Working

\* When its owner moves, what it holds is all that is handled.
LEMMA HandledMoves ==
  ASSUME ContractInv, NEW c \in Consumers, owner = c, NEW l \in Points, Goto(c, l),
         log' = log, l \in Working => offset' = offset /\ pc[c] \in Claiming
  PROVE  /\ Handled = IF pc[c] \in Working THEN {Event(c)} ELSE {}
         /\ Handled' = IF l \in Working THEN {Event(c)} ELSE {}
<1>1. /\ pc' = [pc EXCEPT ![c] = l] /\ pc \in [Consumers -> Points]
      /\ pc[c] \in Claiming => Event(c) \in Requests
  BY DEF Goto, ContractInv, ClaimInv, Typed, TypeOK, Holding
<1>2. \A d \in Consumers \ {c} : pc[d] \notin Working /\ pc'[d] \notin Working
  BY <1>1, PointSets DEF ContractInv, Exclusive
<1>3. pc'[c] = l /\ (pc[c] \in Working => Event(c) \in Requests)
  BY <1>1, PointSets
<1>4. l \in Working => Event(c)' = Event(c) /\ Event(c) \in Requests
  BY <1>1 DEF Event
<1>5. Handled' = {r \in Requests : \E d \in Consumers : pc'[d] \in Working /\ Event(d)' = r}
  BY DEF Handled, Working
<1>6. Handled = IF pc[c] \in Working THEN {Event(c)} ELSE {}
  BY <1>2, <1>3, HandledAre
<1>7. Handled' = IF l \in Working THEN {Event(c)} ELSE {}
  BY <1>2, <1>3, <1>4, <1>5
<1> QED BY <1>6, <1>7

\* Nobody moves: the same requests are handled.
LEMMA HandledStays ==
  ASSUME Typed, Evolves, UNCHANGED <<pc, offset>>
  PROVE  Handled' = Handled
<1>1. ASSUME NEW c \in Consumers, pc[c] \in Working PROVE Event(c)' = Event(c)
  BY <1>1, InHand, LogGrows, PointSets DEF Event
<1>2. Handled' = {r \in Requests : \E c \in Consumers : pc'[c] \in Working /\ Event(c)' = r}
  BY DEF Handled, Working
<1> QED BY <1>1, <1>2, HandledAre

\* A consumer that holds an event goes on to point l; the others hold none.
LEMMA HeldMoves ==
  ASSUME ContractInv, NEW c \in Consumers, owner = c, NEW l \in Points, Goto(c, l),
         l \in Busy => owner' = c, HeldBy(c)'
  PROVE  Exclusive' /\ Held'
<1>1. pc' = [pc EXCEPT ![c] = l] /\ pc \in [Consumers -> Points]
  BY DEF Goto, ContractInv, ClaimInv, Typed, TypeOK
<1>2. ASSUME NEW d \in Consumers, d # c PROVE pc'[d] \notin Busy
  BY <1>1, <1>2 DEF ContractInv, Exclusive
<1>3. Exclusive'
  BY <1>1, <1>2 DEF Exclusive
<1>4. ASSUME NEW d \in Consumers, d # c PROVE HeldBy(d)'
  BY <1>2, <1>4, PointSets DEF HeldBy
<1> QED BY <1>3, <1>4 DEF Held

\* Others may write, as long as they leave the requests that are held alone.
LEMMA HeldStays ==
  ASSUME ContractInv, Evolves, UNCHANGED <<pc, offset, executed, unheard>>,
         \A c \in Consumers : pc[c] \in Claiming =>
           /\ status'[Event(c)] = status[Event(c)]
           /\ Event(c) \in deadLetters \cup dlqLost => Event(c) \in deadLetters' \cup dlqLost'
  PROVE  Held'
<1> SUFFICES ASSUME NEW c \in Consumers, pc[c] \in Claiming
             PROVE  HeldBy(c)'
  BY PointSets DEF Held, HeldBy
<1>1. HeldBy(c) /\ Typed
  BY DEF ContractInv, Held, ClaimInv
<1>2. offset[c] + 1 \in 1..Len(log)
  BY <1>1, InHand, PointSets
<1>3. Event(c)' = Event(c)
  BY <1>1, <1>2, LogGrows DEF Event
<1> QED BY <1>1, <1>3 DEF HeldBy

\* The invariant holds at the start, which is a start of the contract.
LEMMA ContractInit == Init => ContractInv /\ Lifecycle!Init
<1> SUFFICES ASSUME Init PROVE ContractInv /\ Lifecycle!Init
  OBVIOUS
<1>1. ClaimInv
  BY ClaimInvInit
<1>2. /\ status = [r \in Requests |-> "unknown"] /\ executed = [r \in Requests |-> 0]
      /\ unheard = [r \in Requests |-> 0]
      /\ client = [r \in Requests |-> "new"] /\ pc = [c \in Consumers |-> "poll"]
  BY DEF Init
<1>3. Exclusive /\ Known /\ Held /\ Unrun /\ FailedIsOnDLQ
  BY <1>2, PointSets DEF Exclusive, Known, Held, HeldBy, Unrun, FailedIsOnDLQ
<1>4. Handled = {}
  BY <1>2 DEF Handled
<1>5. Lifecycle!Init
  BY <1>2, <1>4 DEF Lifecycle!Init
<1> QED BY <1>1, <1>3, <1>5 DEF ContractInv

\* Clients, operators and other producers.
LEMMA ClientStep ==
  ASSUME ContractInv, Evolves,
         \/ \E r \in Requests : Save(r) \/ Publish(r) \/ PublishRaises(r) \/ Replay(r)
         \/ PublishJunk
  PROVE  Exclusive' /\ Known' /\ Held' /\ Unrun' /\ FailedIsOnDLQ' /\ Promised
<1>0. /\ Typed /\ TypeOK /\ Holding /\ Fresh
      /\ Exclusive /\ Known /\ Held /\ Unrun /\ FailedIsOnDLQ
  BY DEF ContractInv, ClaimInv, Typed
<1>1. ASSUME NEW r \in Requests, Save(r)
      PROVE  Exclusive' /\ Known' /\ Held' /\ Unrun' /\ FailedIsOnDLQ' /\ Promised
  <2>1. /\ client[r] = "new" /\ status' = [status EXCEPT ![r] = "queued"]
        /\ client' = [client EXCEPT ![r] = "saved"]
        /\ UNCHANGED <<log, owner, pc, offset, executed, unheard, deadLetters, dlqLost>>
    BY <1>1 DEF Save, SetStatus, kafka, effects, dlq
  <2>2. status[r] = "unknown" /\ (\A i \in 1..Len(log) : log[i] # r) /\ executed[r] = unheard[r]
    BY <1>0, <2>1 DEF Fresh, Unrun
  <2>3. ASSUME NEW c \in Consumers, pc[c] \in Claiming PROVE Event(c) # r
    BY <1>0, <2>2, <2>3, InHand, PointSets DEF Event
  <2>4. Held'
    <3>1. ASSUME NEW c \in Consumers, pc[c] \in Claiming
          PROVE  status'[Event(c)] = status[Event(c)]
      BY <1>0, <2>1, <2>3, <3>1 DEF TypeOK, Holding
    <3> QED BY <2>1, <3>1, HeldStays
  <2>5. Exclusive'
    BY <1>0, <2>1 DEF Exclusive
  <2>6. Known' /\ Unrun' /\ FailedIsOnDLQ'
    BY <1>0, <2>1, <2>2 DEF Known, Unrun, FailedIsOnDLQ, TypeOK
  <2>7. Handled' = Handled
    BY <1>0, <2>1, HandledStays
  <2>8. Lifecycle!Queue(r)
    BY <2>1, <2>2, <2>7 DEF Lifecycle!Queue, Lifecycle!Move
  <2> QED BY <2>4, <2>5, <2>6, <2>8 DEF Promised, Lifecycle!Next
<1>2. ASSUME NEW r \in Requests, Publish(r) \/ PublishRaises(r)
      PROVE  Exclusive' /\ Known' /\ Held' /\ Unrun' /\ FailedIsOnDLQ' /\ Promised
  <2>1. /\ client[r] = "saved"
        /\ UNCHANGED <<status, owner, pc, offset, executed, unheard, deadLetters, dlqLost>>
        /\ client' \in {[client EXCEPT ![r] = "accepted"], [client EXCEPT ![r] = "refused"]}
    BY <1>2 DEF Publish, PublishRaises, effects, dlq
  <2>2. Held' /\ Handled' = Handled
    BY <1>0, <2>1, HeldStays, HandledStays
  <2>3. \A q \in Requests : status[q] = "unknown" => q # r
    BY <1>0, <2>1 DEF Known
  <2>4. \A q \in Requests : q # r => client'[q] = client[q]
    BY <1>0, <2>1 DEF TypeOK
  <2>5. Known'
    BY <1>0, <2>1, <2>3, <2>4 DEF Known
  <2> QED BY <1>0, <2>1, <2>2, <2>5 DEF Exclusive, Unrun, FailedIsOnDLQ, Promised
<1>3. ASSUME NEW r \in Requests, Replay(r)
      PROVE  Exclusive' /\ Known' /\ Held' /\ Unrun' /\ FailedIsOnDLQ' /\ Promised
  <2>1. /\ status[r] = "failed" /\ status' = [status EXCEPT ![r] = "queued"]
        /\ deadLetters' = deadLetters \ {r}
        /\ UNCHANGED <<client, owner, pc, offset, executed, unheard, dlqLost>>
    BY <1>3 DEF Replay, SetStatus, effects
  <2>2. ASSUME NEW c \in Consumers, pc[c] \in Claiming PROVE Event(c) # r
    <3>1. status[Event(c)] \in {"queued", "processing", "completed"}
      BY <1>0, <2>2, PointSets DEF Held, HeldBy
    <3> QED BY <2>1, <3>1
  <2>3. Held'
    <3>1. ASSUME NEW c \in Consumers, pc[c] \in Claiming
          PROVE  /\ status'[Event(c)] = status[Event(c)]
                 /\ Event(c) \in deadLetters \cup dlqLost =>
                      Event(c) \in deadLetters' \cup dlqLost'
      BY <1>0, <2>1, <2>2, <3>1 DEF TypeOK, Holding
    <3> QED BY <2>1, <3>1, HeldStays
  <2>4. Exclusive' /\ Known' /\ Unrun' /\ FailedIsOnDLQ'
    BY <1>0, <2>1 DEF Exclusive, Known, Unrun, FailedIsOnDLQ, TypeOK
  <2>5. Handled' = Handled /\ r \notin Handled
    BY <1>0, <2>1, <2>2, HandledStays, HandledAre, PointSets
  <2>6. Lifecycle!Replay(r)
    BY <2>1, <2>5 DEF Lifecycle!Replay, Lifecycle!Move
  <2> QED BY <2>3, <2>4, <2>6 DEF Promised, Lifecycle!Next
<1>4. CASE PublishJunk
  <2>1. /\ UNCHANGED <<status, client, owner, pc, offset, executed, unheard>>
        /\ UNCHANGED <<deadLetters, dlqLost>>
    BY <1>4 DEF PublishJunk, effects, dlq
  <2>2. Held' /\ Handled' = Handled
    BY <1>0, <2>1, HeldStays, HandledStays
  <2> QED BY <1>0, <2>1, <2>2 DEF Exclusive, Known, Unrun, FailedIsOnDLQ, Promised
<1> QED BY <1>1, <1>2, <1>3, <1>4

\* Handled requests are abandoned, or none is touched.
LEMMA AbandonStep ==
  ASSUME Typed, NEW r \in Requests, r \in Handled, Handled' = Handled \ {r},
         UNCHANGED <<status, executed, unheard>>
  PROVE  Promised
<1>1. status' = [status EXCEPT ![r] = status[r]]
  BY DEF Typed, TypeOK
<1>2. Lifecycle!Abandon(r)
  BY <1>1 DEF Lifecycle!Abandon, Lifecycle!Leave
<1> QED BY <1>2 DEF Promised, Lifecycle!Next

\* The group coordinator and the pods.
LEMMA PlatformStep ==
  ASSUME Steady, ContractInv,
         \E c \in Consumers : Assign(c) \/ Rebalance(c) \/ Crash(c) \/ Restart(c)
  PROVE  Exclusive' /\ Known' /\ Held' /\ Unrun' /\ FailedIsOnDLQ' /\ Promised
<1>0. /\ Typed /\ TypeOK /\ Holding /\ Exclusive /\ Known /\ Held /\ Unrun /\ FailedIsOnDLQ
      /\ Nobody \notin Consumers /\ rebalances \in Nat /\ pc \in [Consumers -> Points]
  BY Budgets DEF ContractInv, ClaimInv, Typed, TypeOK
<1>1. ASSUME NEW c \in Consumers, Assign(c)
      PROVE  Exclusive' /\ Known' /\ Held' /\ Unrun' /\ FailedIsOnDLQ' /\ Promised
  <2>1. /\ owner = Nobody /\ UNCHANGED <<Contracted, pc, log, offset>>
    BY <1>1 DEF Assign, Receive, Contracted, effects, dlq
  <2>2. \A d \in Consumers : pc[d] \notin Busy
    BY <1>0, <2>1 DEF Exclusive
  <2>3. Exclusive' /\ Held'
    BY <2>1, <2>2, PointSets DEF Exclusive, Held, HeldBy
  <2>4. Handled' = Handled
    BY <2>1 DEF Handled, Event
  <2> QED BY <1>0, <2>1, <2>3, <2>4 DEF Known, Unrun, FailedIsOnDLQ, Promised, Contracted
<1>2. ASSUME NEW c \in Consumers, Rebalance(c) PROVE FALSE
  BY <1>0, <1>2 DEF Rebalance, Steady
<1>3. ASSUME NEW c \in Consumers, Crash(c) \/ Restart(c)
      PROVE  Exclusive' /\ Known' /\ Held' /\ Unrun' /\ FailedIsOnDLQ' /\ Promised
  <2>1. PICK l \in {"down", "poll"} : Goto(c, l)
    BY <1>3 DEF Crash, Restart, Step
  <2>2. /\ UNCHANGED <<Contracted, log, offset>> /\ l \in Points
        /\ owner' = owner \/ owner = c
    BY <1>3, <2>1, PointSets DEF Crash, GiveUp, Restart, Contracted, kafka, effects, dlq
  <2>3. ASSUME NEW d \in Consumers, pc'[d] \in Busy PROVE d # c /\ pc'[d] = pc[d]
    BY <1>0, <2>1, <2>3, PointSets DEF Goto
  <2>4. Exclusive'
    BY <1>0, <2>2, <2>3 DEF Exclusive
  <2>5. Held'
    <3>1. ASSUME NEW d \in Consumers PROVE HeldBy(d)'
      <4>1. CASE pc'[d] \in Busy
        BY <1>0, <2>2, <2>3, <4>1 DEF Held, HeldBy, Event, Contracted
      <4>2. CASE pc'[d] \notin Busy
        BY <4>2, PointSets DEF HeldBy
      <4> QED BY <4>1, <4>2
    <3> QED BY <3>1 DEF Held
  <2>6. Promised
    <3>1. CASE pc[c] \in Working
      <4>1. owner = c /\ l \notin Working /\ Event(c) \in Requests
        BY <1>0, <3>1, PointSets DEF Exclusive, Holding
      <4>2. Handled = {Event(c)} /\ Handled' = {}
        BY <2>1, <2>2, <3>1, <4>1, HandledMoves
      <4> QED BY <1>0, <2>2, <4>1, <4>2, AbandonStep DEF Contracted
    <3>2. CASE pc[c] \notin Working
      <4>1. \A d \in Consumers : pc'[d] \in Working <=> pc[d] \in Working
        BY <1>0, <2>1, <3>2, PointSets DEF Goto
      <4>2. \A d \in Consumers : Event(d)' = Event(d)
        BY <2>2 DEF Event
      <4>3. Handled' = Handled
        BY <4>1, <4>2 DEF Handled, Working
      <4> QED BY <2>2, <4>3 DEF Promised, Contracted
    <3> QED BY <3>1, <3>2
  <2> QED BY <1>0, <2>2, <2>4, <2>5, <2>6 DEF Known, Unrun, FailedIsOnDLQ, Contracted
<1> QED BY <1>1, <1>2, <1>3


\* The consumer that owns the partition.
LEMMA ConsumerStep ==
  ASSUME ContractInv, NEW c \in Consumers, Consume(c)
  PROVE  Exclusive' /\ Known' /\ Held' /\ Unrun' /\ FailedIsOnDLQ' /\ Promised
<1> DEFINE Goal == Exclusive' /\ Known' /\ Held' /\ Unrun' /\ FailedIsOnDLQ' /\ Promised
           e == Event(c)
<1>0. /\ Typed /\ TypeOK /\ Fresh /\ Exclusive /\ Known /\ Held /\ Unrun /\ FailedIsOnDLQ
      /\ Nobody \notin Consumers /\ HeldBy(c) /\ pc \in [Consumers -> Points]
      /\ {"poll", "check", "claim", "commit", "dead"} \cup Working \subseteq Points
      /\ status \in [Requests -> Statuses]
      /\ executed \in [Requests -> Nat] /\ unheard \in [Requests -> Nat]
  BY Budgets, PointSets DEF ContractInv, ClaimInv, Typed, Held, TypeOK
<1>a. pc[c] \in Busy => owner = c
  BY <1>0 DEF Exclusive
<1>b. pc[c] \in Claiming => e \in Requests
  BY <1>0 DEF Typed, Holding
\* Only c moves, to l, within its work or outside of it; nothing is recorded.
<1>c. ASSUME owner = c, NEW l \in Points, Goto(c, l), l \in Busy => owner' = c,
             UNCHANGED <<status, client, log, executed, unheard>>, (l \in Working) <=> (pc[c] \in Working),
             l \in Working \cup {"claim"} => offset' = offset,
             deadLetters \subseteq deadLetters', dlqLost \subseteq dlqLost',
             l = "claim" => status[e] = "queued",
             l = "complete" => pc[c] = "complete", pc[c] = "complete" => l \notin Working \ {"complete"},
             l = "fail" => e \in deadLetters' \cup dlqLost'
      PROVE  Goal
  <2>1. pc'[c] = l /\ (l \in Working \cup {"claim"} => Event(c)' = e)
    BY <1>0, <1>c DEF Goto, Event
  <2>2. HeldBy(c)'
    BY <1>0, <1>c, <2>1, PointSets DEF HeldBy
  <2>3. Exclusive' /\ Held'
    BY <1>c, <2>2, HeldMoves
  <2>4. Known' /\ Unrun' /\ FailedIsOnDLQ'
    BY <1>0, <1>c DEF Known, Unrun, FailedIsOnDLQ
  <2>5. Handled' = Handled
    BY <1>c, HandledMoves, PointSets
  <2> QED BY <1>c, <2>3, <2>4, <2>5 DEF Promised
\* c, with an event in hand, writes status s for it and moves to l.
<1>d. ASSUME pc[c] \in Claiming, NEW l \in Points, Goto(c, l), l \in Busy => owner' = c,
             UNCHANGED <<client, log, offset, deadLetters, dlqLost>>,
             NEW s \in Statuses, status' = [status EXCEPT ![e] = s], s # "unknown",
             \A r \in Requests : r # e => executed'[r] = executed[r] /\ unheard'[r] = unheard[r],
             s \in {"queued", "failed"} => executed'[e] = unheard'[e],
             s = "failed" => e \in deadLetters \cup dlqLost, l \notin {"claim", "fail"},
             l \in Working =>
               /\ s \in {"processing", "completed"}
               /\ executed'[e] = IF l = "complete" THEN unheard'[e] + 1 ELSE unheard'[e],
             Promised
      PROVE  Goal
  <2>1. e \in Requests /\ owner = c /\ Event(c)' = e /\ pc'[c] = l
    BY <1>0, <1>a, <1>b, <1>d, PointSets DEF Goto, Event
  <2>2. status'[e] = s /\ \A r \in Requests : r # e => status'[r] = status[r]
    BY <1>0, <1>d, <2>1
  <2>3. HeldBy(c)'
    BY <1>d, <2>1, <2>2 DEF HeldBy
  <2>4. Exclusive' /\ Held'
    BY <1>d, <2>1, <2>3, HeldMoves
  <2>5. Known' /\ Unrun' /\ FailedIsOnDLQ'
    BY <1>0, <1>d, <2>1, <2>2 DEF Known, Unrun, FailedIsOnDLQ
  <2> QED BY <1>d, <2>4, <2>5
\* What is handled when c moves from its work to l.
<1>e. ASSUME pc[c] \in Claiming, NEW l \in Points, Goto(c, l), UNCHANGED <<log, offset>>
      PROVE  /\ e \in Requests
             /\ Handled = IF pc[c] \in Working THEN {e} ELSE {}
             /\ Handled' = IF l \in Working THEN {e} ELSE {}
  BY <1>a, <1>b, <1>e, HandledMoves, PointSets
<1>1. CASE Fetch(c)
  <2>1. /\ pc[c] = "poll" /\ Goto(c, "check") /\ owner = c /\ owner' = c
        /\ UNCHANGED <<status, client, log, executed, unheard, deadLetters, dlqLost>>
    BY <1>1 DEF Fetch, Fetches, Step, effects, dlq
  <2> QED BY <1>0, <1>c, <2>1, PointSets
<1>2. CASE SkipJunk(c) \/ SkipDuplicate(c)
  <2>1. /\ pc[c] = "check" /\ Goto(c, "commit") /\ owner' = owner /\ offset' = offset
        /\ UNCHANGED <<status, client, log, executed, unheard, deadLetters, dlqLost>>
    BY <1>2 DEF SkipJunk, SkipDuplicate, Step, kafka, effects, dlq
  <2> QED BY <1>0, <1>a, <1>c, <2>1, PointSets
<1>3. CASE Check(c)
  <2>1. /\ pc[c] = "check" /\ Goto(c, "claim") /\ Event(c) \in Requests
        /\ status[Event(c)] \in {"unknown", "queued"} /\ offset' = offset
        /\ UNCHANGED <<status, client, log, owner, executed, unheard, deadLetters, dlqLost>>
    BY <1>3 DEF Check, Step, kafka, effects, dlq
  <2>2. client[Event(c)] # "new"
    BY <1>0, <2>1, InHand, PointSets DEF Fresh, Event
  <2>3. status[Event(c)] = "queued"
    BY <1>0, <2>1, <2>2 DEF Known
  <2>4. owner = c
    BY <1>a, <2>1, PointSets
  <2> QED BY <1>0, <1>c, <2>1, <2>3, <2>4, PointSets
<1>4. CASE Claim(c)
  <2>1. /\ pc[c] = "claim" /\ Goto(c, "attempt")
        /\ status' = [status EXCEPT ![e] = "processing"]
        /\ UNCHANGED <<client, log, owner, offset, executed, unheard, deadLetters, dlqLost>>
    BY <1>4 DEF Claim, SetStatus, Step, kafka, effects, dlq
  <2>2. status[e] = "queued" /\ e \in Requests /\ executed[e] = unheard[e] /\ owner = c
    BY <1>0, <1>a, <1>b, <2>1, PointSets DEF HeldBy, Unrun
  <2>3. Handled = {} /\ Handled' = {e}
    BY <1>0, <1>e, <2>1, PointSets
  <2>4. Lifecycle!Claim(e)
    BY <2>1, <2>2, <2>3 DEF Lifecycle!Claim, Lifecycle!Move
  <2>5. Promised
    BY <2>2, <2>4 DEF Promised, Lifecycle!Next
  <2> QED BY <1>0, <1>d, <2>1, <2>2, <2>5, PointSets DEF Statuses
<1>5. CASE RunExecutes(c) \/ RunApproved(c)
  <2>1. /\ pc[c] = "attempt" /\ Goto(c, "complete")
        /\ executed' = [executed EXCEPT ![e] = @ + 1]
        /\ UNCHANGED <<status, client, log, owner, offset, unheard, deadLetters, dlqLost>>
    BY <1>5 DEF RunExecutes, RunApproved, Step, AddFor, kafka, dlq
  <2>2. /\ owner = c /\ e \in Requests /\ status[e] \in {"processing", "completed"}
        /\ executed[e] = unheard[e] /\ pc[c] \in Working
    BY <1>0, <1>a, <1>b, <2>1, PointSets DEF HeldBy
  <2>3. Handled = {e} /\ Handled' = {e}
    BY <1>0, <1>e, <2>1, PointSets
  <2>4. Lifecycle!Act(e)
    BY <2>1, <2>2, <2>3 DEF Lifecycle!Act, Lifecycle!Due
  <2>5. Promised
    BY <2>2, <2>4 DEF Promised, Lifecycle!Next
  <2>6. /\ executed'[e] = unheard'[e] + 1
        /\ \A r \in Requests : r # e => executed'[r] = executed[r] /\ unheard'[r] = unheard[r]
    BY <1>0, <2>1, <2>2
  <2>7. "complete" \in Working /\ "complete" \in Points /\ pc[c] \in Claiming
    BY <1>0, <2>2, PointSets
  <2>8. PICK s \in {"processing", "completed"} : status' = [status EXCEPT ![e] = s]
    BY <1>0, <2>1, <2>2
  <2> QED BY <1>d, <2>1, <2>2, <2>5, <2>6, <2>7, <2>8 DEF Statuses
<1>6. CASE RunUnheard(c)
  <2>1. /\ pc[c] = "attempt" /\ Goto(c, "retry")
        /\ executed' = [executed EXCEPT ![e] = @ + 1]
        /\ unheard' = [unheard EXCEPT ![e] = @ + 1]
        /\ UNCHANGED <<status, client, log, owner, offset, deadLetters, dlqLost>>
    BY <1>6 DEF RunUnheard, Step, AddFor, kafka, dlq
  <2>2. /\ owner = c /\ e \in Requests /\ status[e] \in {"processing", "completed"}
        /\ executed[e] = unheard[e] /\ pc[c] \in Working
    BY <1>0, <1>a, <1>b, <2>1, PointSets DEF HeldBy
  <2>3. Handled = {e} /\ Handled' = {e}
    BY <1>0, <1>e, <2>1, PointSets
  <2>4. Lifecycle!ActUnheard(e)
    BY <2>1, <2>2, <2>3 DEF Lifecycle!ActUnheard, Lifecycle!Due
  <2>5. Promised
    BY <2>2, <2>4 DEF Promised, Lifecycle!Next
  <2>6. /\ executed'[e] = unheard'[e]
        /\ \A r \in Requests : r # e => executed'[r] = executed[r] /\ unheard'[r] = unheard[r]
    BY <1>0, <2>1, <2>2
  <2>7. "retry" \in Working /\ "retry" \in Points /\ pc[c] \in Claiming
    BY <1>0, <2>2, PointSets
  <2>8. PICK s \in {"processing", "completed"} : status' = [status EXCEPT ![e] = s]
    BY <1>0, <2>1, <2>2
  <2>9. /\ s \in Statuses /\ s \notin {"unknown", "queued", "failed"} /\ owner' = c
        /\ Goto(c, "retry") /\ UNCHANGED <<client, log, offset, deadLetters, dlqLost>>
    BY <2>1, <2>2 DEF Statuses
  <2> QED BY <1>d, <2>5, <2>6, <2>7, <2>8, <2>9
<1>7. CASE RunGated(c) \/ RunRaises(c) \/ Retry(c) \/ Exhausted(c)
  <2>1. PICK l \in {"attempt", "retry", "dlq"} :
          /\ pc[c] \in {"attempt", "retry"} /\ Goto(c, l) /\ owner' = owner /\ offset' = offset
          /\ UNCHANGED <<status, client, log, executed, unheard, deadLetters, dlqLost>>
    BY <1>7 DEF RunGated, RunRaises, Retry, Exhausted, Step, kafka, effects, dlq
  <2> QED BY <1>0, <1>a, <1>c, <2>1, PointSets
<1>8. CASE Complete(c)
  <2>1. /\ pc[c] = "complete" /\ Goto(c, "commit")
        /\ status' = [status EXCEPT ![e] = "completed"]
        /\ UNCHANGED <<client, log, owner, offset, executed, unheard, deadLetters, dlqLost>>
    BY <1>8 DEF Complete, SetStatus, Step, kafka, effects, dlq
  <2>2. owner = c /\ e \in Requests /\ executed[e] = unheard[e] + 1
    BY <1>0, <1>a, <1>b, <2>1, PointSets DEF HeldBy
  <2>3. Handled = {e} /\ Handled' = {}
    BY <1>0, <1>e, <2>1, PointSets
  <2>4. Lifecycle!Complete(e)
    BY <2>1, <2>2, <2>3 DEF Lifecycle!Complete, Lifecycle!Done, Lifecycle!Leave
  <2>5. Promised
    BY <2>2, <2>4 DEF Promised, Lifecycle!Next
  <2> QED BY <1>0, <1>d, <2>1, <2>2, <2>5, PointSets DEF Statuses
<1>9. CASE CompleteRaises(c)
  <2>1. /\ pc[c] = "complete" /\ Goto(c, "retry")
        /\ status' = status \/ status' = [status EXCEPT ![e] = "completed"]
        /\ unheard' = [unheard EXCEPT ![e] = @ + 1]
        /\ UNCHANGED <<client, log, owner, offset, executed, deadLetters, dlqLost>>
    BY <1>9 DEF CompleteRaises, SetStatus, Step, AddFor, kafka, dlq
  <2>2. /\ owner = c /\ e \in Requests /\ status[e] \in {"processing", "completed"}
        /\ executed[e] = unheard[e] + 1
    BY <1>0, <1>a, <1>b, <2>1, PointSets DEF HeldBy
  <2>3. Handled = {e} /\ Handled' = {e}
    BY <1>0, <1>e, <2>1, PointSets
  <2>4. Lifecycle!CompleteUnheard(e)
    BY <2>1, <2>2, <2>3 DEF Lifecycle!CompleteUnheard, Lifecycle!Done
  <2>5. Promised
    BY <2>2, <2>4 DEF Promised, Lifecycle!Next
  <2>6. PICK s \in {"processing", "completed"} : status' = [status EXCEPT ![e] = s]
    BY <1>0, <2>1, <2>2
  <2>7. /\ executed'[e] = unheard'[e]
        /\ \A r \in Requests : r # e => executed'[r] = executed[r] /\ unheard'[r] = unheard[r]
    BY <1>0, <2>1, <2>2
  <2>8. "retry" \in Working /\ "retry" \in Points /\ pc[c] \in Claiming /\ s \in Statuses
    BY <1>0, <2>1, PointSets DEF Statuses
  <2> QED BY <1>d, <2>1, <2>2, <2>5, <2>6, <2>7, <2>8
<1>10. CASE DeadLetter(c) \/ DeadLetterRaises(c)
  <2>1. /\ pc[c] = "dlq" /\ Goto(c, "fail") /\ owner' = owner /\ offset' = offset
        /\ UNCHANGED <<status, client, log, executed, unheard>>
        /\ deadLetters \subseteq deadLetters' /\ dlqLost \subseteq dlqLost'
        /\ e \in deadLetters' \cup dlqLost'
    BY <1>10 DEF DeadLetter, DeadLetterRaises, Step, kafka, effects
  <2> QED BY <1>0, <1>a, <1>c, <2>1, PointSets
<1>11. CASE SaveFailed(c)
  <2>1. /\ pc[c] = "fail" /\ Goto(c, "commit")
        /\ status' = [status EXCEPT ![e] = "failed"]
        /\ UNCHANGED <<client, log, owner, offset, executed, unheard, deadLetters, dlqLost>>
    BY <1>11 DEF SaveFailed, SetStatus, Step, kafka, effects, dlq
  <2>2. /\ owner = c /\ e \in Requests /\ executed[e] = unheard[e]
        /\ e \in deadLetters \cup dlqLost
    BY <1>0, <1>a, <1>b, <2>1, PointSets DEF HeldBy
  <2>3. Handled = {e} /\ Handled' = {}
    BY <1>0, <1>e, <2>1, PointSets
  <2>4. Lifecycle!Fail(e)
    BY <2>1, <2>2, <2>3 DEF Lifecycle!Fail, Lifecycle!Due, Lifecycle!Leave
  <2>5. Promised
    BY <2>2, <2>4 DEF Promised, Lifecycle!Next
  <2> QED BY <1>0, <1>d, <2>1, <2>2, <2>5, PointSets DEF Statuses
<1>12. CASE HandleRaises(c)
  <2>0. /\ pc[c] \in {"check", "claim", "fail"} /\ Goto(c, "dead") /\ e \in Requests
        /\ UNCHANGED <<client, log, offset, executed, unheard, deadLetters, dlqLost>>
        /\ \/ status' = status
           \/ pc[c] = "claim" /\ status' = [status EXCEPT ![e] = "processing"]
           \/ pc[c] = "fail" /\ status' = [status EXCEPT ![e] = "failed"]
    BY <1>12 DEF HandleRaises, SetStatus, effects, dlq
  <2>1. owner = c /\ "dead" \notin Busy /\ "dead" \notin Working /\ "dead" \in Points
    BY <1>0, <1>a, <2>0, PointSets
  <2>2. CASE pc[c] # "fail" /\ status' = status
    BY <1>c, <2>0, <2>1, <2>2, PointSets
  <2>3. CASE pc[c] = "claim" /\ status' = [status EXCEPT ![e] = "processing"]
    <3>1. status[e] = "queued" /\ executed[e] = unheard[e]
      BY <1>0, <2>0, <2>3 DEF HeldBy, Unrun
    <3>2. Handled = {} /\ Handled' = {}
      BY <1>e, <2>0, <2>1, <2>3, PointSets
    <3>3. Lifecycle!Claim(e)
      BY <2>0, <2>3, <3>1, <3>2 DEF Lifecycle!Claim, Lifecycle!Move
    <3>4. Promised
      BY <2>0, <3>3 DEF Promised, Lifecycle!Next
    <3> QED BY <1>d, <2>0, <2>1, <2>3, <3>4, PointSets DEF Statuses
  <2>4. CASE pc[c] = "fail"
    <3>1. /\ status[e] \in {"processing", "completed"} /\ executed[e] = unheard[e]
          /\ e \in deadLetters \cup dlqLost
      BY <1>0, <2>4, PointSets DEF HeldBy
    <3>2. Handled = {e} /\ Handled' = {}
      BY <1>e, <2>0, <2>1, <2>4, PointSets
    <3>3. PICK s \in {"processing", "completed", "failed"} :
            /\ status' = [status EXCEPT ![e] = s]
            /\ s = "failed" \/ status' = status
      BY <1>0, <2>0, <2>4, <3>1
    <3>4. Lifecycle!Fail(e) \/ Lifecycle!Abandon(e)
      <4>1. CASE s = "failed"
        BY <2>0, <3>1, <3>2, <3>3, <4>1 DEF Lifecycle!Fail, Lifecycle!Due, Lifecycle!Leave
      <4>2. CASE status' = status
        <5>1. status' = [status EXCEPT ![e] = status[e]]
          BY <1>0, <4>2
        <5> QED BY <2>0, <3>2, <5>1 DEF Lifecycle!Abandon, Lifecycle!Leave
      <4> QED BY <3>3, <4>1, <4>2
    <3>5. Promised
      BY <2>0, <3>4 DEF Promised, Lifecycle!Next
    <3>6. s \in Statuses /\ s \notin {"unknown", "queued"} /\ pc[c] \in Claiming
      BY <2>4, PointSets DEF Statuses
    <3> QED BY <1>d, <2>0, <2>1, <3>1, <3>3, <3>5, <3>6
  <2> QED BY <2>0, <2>2, <2>3, <2>4
<1>13. CASE Commit(c) \/ CommitRaises(c)
  <2>1. PICK l \in {"poll", "dead"} : Goto(c, l)
    BY <1>13 DEF Commit, CommitRaises, Step
  <2>2. /\ pc[c] = "commit" /\ owner = c
        /\ UNCHANGED <<status, client, log, executed, unheard, deadLetters, dlqLost>>
    BY <1>13 DEF Commit, CommitRaises, Step, effects, dlq
  <2> QED BY <1>0, <1>c, <2>1, <2>2, PointSets
<1>14. CASE CommitRefused(c)
  BY <1>14, <1>a, PointSets DEF CommitRefused, Step
<1> QED
  BY <1>1, <1>2, <1>3, <1>4, <1>5, <1>6, <1>7, <1>8, <1>9, <1>10, <1>11, <1>12, <1>13, <1>14
  DEF Consume

\* Every step keeps the invariant and is a step of the contract or a stutter.
LEMMA ContractStep ==
  ASSUME Steady
  PROVE  ContractInv /\ [Next]_vars => ContractInv' /\ [Lifecycle!Next]_Lifecycle!vars
<1> SUFFICES ASSUME ContractInv, [Next]_vars
             PROVE  ContractInv' /\ [Lifecycle!Next]_Lifecycle!vars
  OBVIOUS
<1>1. ClaimInv' /\ Evolves
  BY ClaimInvStep, Evolution DEF ContractInv, ClaimInv
<1>2. CASE Next
  <2>1. Exclusive' /\ Known' /\ Held' /\ Unrun' /\ FailedIsOnDLQ' /\ Promised
    BY <1>1, <1>2, ClientStep, PlatformStep, ConsumerStep DEF Next
  <2> QED BY <1>1, <2>1 DEF ContractInv, Promised, Lifecycle!vars
<1>3. CASE UNCHANGED vars
  <2>1. UNCHANGED <<status, client, log, owner, pc, offset, executed, unheard, deadLetters, dlqLost>>
    BY <1>3 DEF vars, kafka, effects, dlq
  <2>2. Exclusive' /\ Known' /\ Held' /\ Unrun' /\ FailedIsOnDLQ'
    BY <2>1 DEF ContractInv, Exclusive, Known, Held, HeldBy, Event, Unrun, FailedIsOnDLQ
  <2>3. Handled' = Handled
    BY <2>1 DEF Handled, Event
  <2> QED BY <1>1, <2>1, <2>2, <2>3 DEF ContractInv, Lifecycle!vars
<1> QED BY <1>2, <1>3

\* Whatever crashes, junk events, failing runs, failing publishes, store calls and
\* audit writes do, applied or not, as long as no partition is taken from a running
\* consumer: statuses follow the client's diagram, nobody runs the action of a
\* request he has not claimed, and it is repeated, or recorded for a request that
\* ends failed, only for runs whose record or whose outcome was stored by a call
\* that raised.
THEOREM ContractKept == Steady => (Spec => ImplementsLifecycle)
<1> SUFFICES ASSUME Steady PROVE Spec => ImplementsLifecycle
  OBVIOUS
<1>1. Init => ContractInv /\ Lifecycle!Init
  BY ContractInit
<1>2. ContractInv /\ [Next]_vars => ContractInv' /\ [Lifecycle!Next]_Lifecycle!vars
  BY ContractStep
<1> QED BY <1>1, <1>2, PTL DEF Spec, ImplementsLifecycle, Lifecycle!Spec

\* Under the same conditions a failed request is on the dead-letter topic, or the
\* publish that should have put it there was logged as failed.
THEOREM FailedAreDeadLettered == Steady => (Spec => []FailedIsOnDLQ)
<1> SUFFICES ASSUME Steady PROVE Spec => []FailedIsOnDLQ
  OBVIOUS
<1>1. Init => ContractInv
  BY ContractInit
<1>2. ContractInv /\ [Next]_vars => ContractInv'
  BY ContractStep
<1>3. ContractInv => FailedIsOnDLQ
  BY DEF ContractInv
<1> QED BY <1>1, <1>2, <1>3, PTL DEF Spec

\* What the contract means for the records of an action: at most one of a request's
\* runs was not taken for a failure, none in a request that waits or has failed,
\* and a completed request has run.
RunsOnce ==
  \A r \in Requests :
    /\ executed[r] \in {unheard[r], unheard[r] + 1}
    /\ status[r] \in {"unknown", "queued", "failed"} => executed[r] = unheard[r]
    /\ status[r] = "completed" => executed[r] > 0

\* Every behaviour of the contract does this.
LEMMA ContractRunsOnce == Lifecycle!Spec => []RunsOnce
<1> DEFINE Inv ==
      /\ RunsOnce
      /\ \A r \in Requests : r \in Handled => status[r] \in {"processing", "completed"}
      /\ status \in [Requests -> Statuses]
      /\ executed \in [Requests -> Nat] /\ unheard \in [Requests -> Nat]
<1>1. Lifecycle!Init => Inv
  BY DEF Lifecycle!Init, RunsOnce, Statuses
<1>2. Inv /\ [Lifecycle!Next]_Lifecycle!vars => Inv'
  <2> SUFFICES ASSUME Inv, [Lifecycle!Next]_Lifecycle!vars PROVE Inv'
    OBVIOUS
  <2>1. CASE UNCHANGED Lifecycle!vars
    BY <2>1 DEF Lifecycle!vars, RunsOnce
  <2>2. ASSUME NEW r \in Requests, Lifecycle!Queue(r) \/ Lifecycle!Claim(r) \/ Lifecycle!Replay(r)
        PROVE  Inv'
    BY <2>2 DEF Lifecycle!Queue, Lifecycle!Claim, Lifecycle!Replay, Lifecycle!Move, RunsOnce, Statuses
  <2>3. ASSUME NEW r \in Requests,
               Lifecycle!Act(r) \/ Lifecycle!ActUnheard(r) \/ Lifecycle!CompleteUnheard(r)
        PROVE  Inv'
    BY <2>3 DEF Lifecycle!Act, Lifecycle!ActUnheard, Lifecycle!CompleteUnheard, Lifecycle!Due,
                Lifecycle!Done, RunsOnce, Statuses
  <2>4. ASSUME NEW r \in Requests,
               Lifecycle!Complete(r) \/ Lifecycle!Fail(r) \/ Lifecycle!Abandon(r)
        PROVE  Inv'
    BY <2>4 DEF Lifecycle!Complete, Lifecycle!Fail, Lifecycle!Abandon, Lifecycle!Due,
                Lifecycle!Done, Lifecycle!Leave, RunsOnce, Statuses
  <2> QED BY <2>1, <2>2, <2>3, <2>4 DEF Lifecycle!Next
<1>3. Inv => RunsOnce
  OBVIOUS
<1> HIDE DEF Inv
<1> QED BY <1>1, <1>2, <1>3, PTL DEF Lifecycle!Spec

\* A run is taken for a failure although it is on record only when an audit write
\* or a store call raised.
UnheardBounded == \A r \in Requests : unheard[r] <= auditFaults + storeFaults

\* Each of them costs one run.
LEMMA UnheardStep == Typed /\ UnheardBounded /\ [Next]_vars => UnheardBounded'
<1> SUFFICES ASSUME Typed, UnheardBounded, [Next]_vars PROVE UnheardBounded'
  OBVIOUS
<1>0. unheard \in [Requests -> Nat] /\ auditFaults \in Nat /\ storeFaults \in Nat
  BY DEF Typed, TypeOK
<1>1. CASE /\ unheard' = unheard
           /\ auditFaults' \in {auditFaults, auditFaults + 1}
           /\ storeFaults' \in {storeFaults, storeFaults + 1}
  BY <1>0, <1>1 DEF UnheardBounded
<1>2. ASSUME NEW c \in Consumers, RunUnheard(c) \/ CompleteRaises(c) PROVE UnheardBounded'
  <2>1. /\ unheard' = [unheard EXCEPT ![Event(c)] = @ + 1]
        /\ auditFaults' + storeFaults' = auditFaults + storeFaults + 1
    BY <1>0, <1>2 DEF RunUnheard, CompleteRaises, AddFor, AuditRaises, StoreRaises
  <2>2. \A r \in Requests : unheard'[r] \in {unheard[r], unheard[r] + 1}
    BY <1>0, <2>1
  <2> QED BY <1>0, <2>1, <2>2 DEF UnheardBounded
<1>3. ASSUME NEW c \in Consumers, Consume(c), ~(RunUnheard(c) \/ CompleteRaises(c))
      PROVE  /\ unheard' = unheard /\ auditFaults' = auditFaults
             /\ storeFaults' \in {storeFaults, storeFaults + 1}
  BY <1>3
  DEF Consume, Fetch, Fetches, SkipJunk, SkipDuplicate, Check, Claim, RunExecutes, RunGated,
      RunApproved, RunRaises, Retry, Exhausted, Complete, DeadLetter, DeadLetterRaises,
      SaveFailed, HandleRaises, Commit, CommitRefused, CommitRaises, StoreRaises, BrokerRaises,
      effects, budget, faults
<1>4. ASSUME NEW r \in Requests, Save(r) \/ Publish(r) \/ PublishRaises(r) \/ Replay(r)
      PROVE  UNCHANGED <<unheard, auditFaults, storeFaults>>
  BY <1>4 DEF Save, Publish, PublishRaises, Replay, BrokerRaises, effects, budget, faults
<1>5. ASSUME NEW c \in Consumers, Assign(c) \/ Rebalance(c) \/ Crash(c) \/ Restart(c)
      PROVE  UNCHANGED <<unheard, auditFaults, storeFaults>>
  BY <1>5 DEF Assign, Rebalance, Receive, Crash, Restart, effects, budget, faults
<1>6. CASE PublishJunk \/ UNCHANGED vars
  BY <1>1, <1>6 DEF PublishJunk, vars, effects, budget, faults
<1> QED BY <1>1, <1>2, <1>3, <1>4, <1>5, <1>6 DEF Next

\* So the action of a request is on record at most once more than audit writes and
\* store calls raised, under any number of crashes, failing runs and failing
\* publishes, and a dead letter can be replayed without running an action a second
\* time unless such a call hid the first run.
THEOREM ActionRunsOnce ==
  Steady => (Spec => [](RunsOnce /\ \A r \in Requests : executed[r] <= auditFaults + storeFaults + 1))
<1> SUFFICES ASSUME Steady
             PROVE  Spec => [](RunsOnce /\ \A r \in Requests : executed[r] <= auditFaults + storeFaults + 1)
  OBVIOUS
<1>1. Init => UnheardBounded
  BY DEF Init, UnheardBounded
<1>2. Typed /\ RunsOnce /\ UnheardBounded =>
        \A r \in Requests : executed[r] <= auditFaults + storeFaults + 1
  <2> SUFFICES ASSUME Typed, RunsOnce, UnheardBounded, NEW r \in Requests
               PROVE  executed[r] <= auditFaults + storeFaults + 1
    OBVIOUS
  <2>1. executed[r] \in Nat /\ unheard[r] \in Nat /\ auditFaults \in Nat /\ storeFaults \in Nat
    BY DEF Typed, TypeOK
  <2>2. /\ executed[r] = unheard[r] \/ executed[r] = unheard[r] + 1
        /\ unheard[r] <= auditFaults + storeFaults
    BY DEF RunsOnce, UnheardBounded
  <2> QED BY <2>1, <2>2
<1>3. Spec => []RunsOnce
  BY ContractKept, ContractRunsOnce, PTL DEF ImplementsLifecycle
<1> QED BY <1>1, <1>2, <1>3, UnheardStep, AlwaysTyped, PTL DEF Spec

--------------------------------------------------------------------------------
(* What is committed is settled, when no pod is killed and the store works too *)

Calm == Steady /\ MaxStoreFaults = 0 /\ MaxCrashes = 0

Finals == {"completed", "failed"}
Waiting == {"unknown", "queued", "processing"}

\* Somebody is working on every request that says so.
Worked ==
  \A r \in Requests :
    status[r] = "processing" => \E c \in Consumers : pc[c] \in Working /\ Event(c) = r

SettledInv == ContractInv /\ Worked /\ AllClear({"commit"}, Waiting)

\* In a calm instance no store call raises and no pod is killed.
LEMMA CalmBudget ==
  ASSUME Calm, Typed, NEW c \in Consumers
  PROVE  ~CompleteRaises(c) /\ ~HandleRaises(c) /\ ~Crash(c)
  BY DEF Calm, Typed, TypeOK, CompleteRaises, HandleRaises, Crash, StoreRaises

\* Whose status a consumer writes, and what.
LEMMA ConsumerWrites ==
  ASSUME ContractInv, NEW c \in Consumers, Consume(c), status' # status
  PROVE  /\ pc[c] \in Claiming /\ Event(c) \in Requests
         /\ \/ /\ Claim(c) \/ HandleRaises(c)
               /\ status[Event(c)] = "queued"
               /\ status' = [status EXCEPT ![Event(c)] = "processing"]
            \/ /\ Complete(c) \/ SaveFailed(c) \/ CompleteRaises(c) \/ HandleRaises(c)
               /\ \E s \in Finals : status' = [status EXCEPT ![Event(c)] = s]
<1>1. Claim(c) \/ HandleRaises(c) \/ Complete(c) \/ SaveFailed(c) \/ CompleteRaises(c)
  BY DEF Consume, Fetch, Fetches, SkipJunk, SkipDuplicate, Check, RunExecutes, RunGated,
         RunApproved, RunRaises, RunUnheard, Retry, Exhausted, DeadLetter, DeadLetterRaises,
         Commit, CommitRefused, CommitRaises
<1>2. pc[c] \in {"claim", "complete", "fail"}
  BY <1>1 DEF Claim, HandleRaises, Complete, SaveFailed, CompleteRaises, Step
<1>3. pc[c] \in Claiming /\ Event(c) \in Requests /\ HeldBy(c)
  BY <1>2, PointSets DEF ContractInv, ClaimInv, Typed, Holding, Held
<1>4. CASE pc[c] = "claim"
  <2>1. Claim(c) \/ HandleRaises(c)
    BY <1>1, <1>4 DEF Complete, SaveFailed, CompleteRaises, Step
  <2>2. status' = [status EXCEPT ![Event(c)] = "processing"]
    BY <1>4, <2>1 DEF Claim, HandleRaises, SetStatus
  <2> QED BY <1>3, <1>4, <2>1, <2>2 DEF HeldBy
<1>5. CASE pc[c] # "claim"
  <2>1. Complete(c) \/ SaveFailed(c) \/ CompleteRaises(c) \/ HandleRaises(c)
    BY <1>1, <1>5 DEF Claim, Step
  <2>2. \E s \in Finals : status' = [status EXCEPT ![Event(c)] = s]
    BY <1>5, <2>1 DEF Complete, SaveFailed, CompleteRaises, HandleRaises, SetStatus, Finals
  <2> QED BY <1>3, <2>1, <2>2
<1> QED BY <1>4, <1>5

\* A status becomes a waiting one with a new event only.
LEMMA FinalStays ==
  ASSUME ContractInv, [Next]_vars, NEW r \in Requests, status'[r] \in Waiting
  PROVE  status[r] \in Waiting \/ log' = Append(log, r)
<1>0. status \in [Requests -> Statuses] /\ Fresh
  BY DEF ContractInv, ClaimInv, Typed, TypeOK
<1>1. CASE status' = status
  BY <1>1
<1>2. ASSUME NEW q \in Requests, Save(q) PROVE status[r] \in Waiting
  BY <1>0, <1>2 DEF Save, SetStatus, Fresh, Waiting
<1>3. ASSUME NEW q \in Requests, Replay(q) PROVE status[r] \in Waiting \/ log' = Append(log, r)
  BY <1>0, <1>3 DEF Replay, SetStatus
<1>4. ASSUME NEW c \in Consumers, Consume(c), status' # status PROVE status[r] \in Waiting
  <2>1. CASE status[Event(c)] = "queued" /\ status' = [status EXCEPT ![Event(c)] = "processing"]
    BY <1>0, <2>1 DEF Waiting
  <2>2. ASSUME NEW s \in Finals, status' = [status EXCEPT ![Event(c)] = s]
        PROVE  status[r] \in Waiting
    BY <1>0, <2>2 DEF Finals, Waiting
  <2> QED BY <1>4, <2>1, <2>2, ConsumerWrites
<1>5. ASSUME NEW q \in Requests, Publish(q) \/ PublishRaises(q) PROVE status' = status
  BY <1>5 DEF Publish, PublishRaises
<1>6. ASSUME NEW c \in Consumers, Assign(c) \/ Rebalance(c) \/ Crash(c) \/ Restart(c)
      PROVE  status' = status
  BY <1>6 DEF Assign, Rebalance, Receive, Crash, Restart
<1>7. CASE PublishJunk \/ UNCHANGED vars
  BY <1>1, <1>7 DEF PublishJunk, vars
<1> QED BY <1>1, <1>2, <1>3, <1>4, <1>5, <1>6, <1>7 DEF Next

\* Who works on a request goes on with it until its status is final.
LEMMA WorkedLasts ==
  ASSUME Calm, ContractInv, Worked, [Next]_vars
  PROVE  Worked'
<1>0. /\ Typed /\ Fresh /\ status \in [Requests -> Statuses] /\ pc \in [Consumers -> Points]
  BY DEF ContractInv, ClaimInv, Typed, TypeOK
<1> SUFFICES ASSUME NEW r \in Requests, status'[r] = "processing"
             PROVE  \E c \in Consumers : pc'[c] \in Working /\ Event(c)' = r
  BY DEF Worked
<1>1. CASE status[r] = "processing"
  <2>1. PICK c \in Consumers : pc[c] \in Working /\ Event(c) = r
    BY <1>1 DEF Worked
  <2>2. Event(c)' = r
    BY <1>0, <2>1, HeldEvents, PointSets
  <2>3. pc'[c] \in Working
    <3> SUFFICES ASSUME pc'[c] # pc[c] PROVE pc'[c] \in Working
      BY <2>1
    <3>1. Consume(c)
      BY <1>0, <2>1, Mover, CalmBudget, PointSets DEF Restart, Step
    <3>2. ~(Complete(c) \/ SaveFailed(c))
      BY <1>0, <2>1 DEF Complete, SaveFailed, SetStatus
    <3>3. PICK l \in Working : Goto(c, l)
      BY <1>0, <2>1, <3>1, <3>2, CalmBudget, PointSets
      DEF Consume, Fetch, Fetches, SkipJunk, SkipDuplicate, Check, Claim, RunExecutes, RunGated,
          RunApproved, RunRaises, RunUnheard, Retry, Exhausted, DeadLetter, DeadLetterRaises,
          Commit, CommitRefused, CommitRaises, Step
    <3> QED BY <1>0, <3>3 DEF Goto
  <2> QED BY <2>2, <2>3
<1>2. CASE status[r] # "processing"
  <2>1. ASSUME NEW c \in Consumers, Consume(c)
        PROVE  pc'[c] \in Working /\ Event(c)' = r
    <3>1. /\ Event(c) = r /\ pc[c] \in Claiming /\ Claim(c)
      BY <1>0, <1>2, <2>1, ConsumerWrites, CalmBudget DEF Finals
    <3>2. pc'[c] = "attempt"
      BY <1>0, <3>1 DEF Claim, Step, Goto
    <3> QED BY <1>0, <3>1, <3>2, HeldEvents, PointSets
  <2>2. ASSUME NEW q \in Requests, Save(q) \/ Publish(q) \/ PublishRaises(q) \/ Replay(q)
        PROVE  FALSE
    BY <1>0, <1>2, <2>2 DEF Save, Publish, PublishRaises, Replay, SetStatus
  <2>3. ASSUME NEW c \in Consumers, Assign(c) \/ Rebalance(c) \/ Crash(c) \/ Restart(c)
        PROVE  FALSE
    BY <1>2, <2>3 DEF Assign, Rebalance, Receive, Crash, Restart
  <2>4. CASE PublishJunk \/ UNCHANGED vars
    BY <1>2, <2>4 DEF PublishJunk, vars
  <2> QED BY <2>1, <2>2, <2>3, <2>4 DEF Next
<1> QED BY <1>1, <1>2

\* Who comes to the commit leaves its request with a final status.
LEMMA EnteringCommit ==
  ASSUME Calm, ContractInv, Worked, [Next]_vars,
         NEW d \in Consumers, pc[d] \in Busy \ {"commit"}, pc'[d] \in {"commit"}
  PROVE  log' = log /\ (Event(d) \in Requests => status'[Event(d)] \notin Waiting)
<1>0. /\ Typed /\ Exclusive /\ pc \in [Consumers -> Points] /\ status \in [Requests -> Statuses]
      /\ pc[d] # pc'[d] /\ pc'[d] = "commit"
  BY DEF ContractInv, ClaimInv, Typed, TypeOK
<1>1. Consume(d)
  BY <1>0, CalmBudget, Mover, PointSets DEF Restart, Step
<1>2. \A l : Goto(d, l) => l = "commit"
  BY <1>0 DEF Goto
<1>3. Complete(d) \/ SaveFailed(d) \/ SkipJunk(d) \/ SkipDuplicate(d)
  BY <1>0, <1>1, <1>2, CalmBudget
  DEF Consume, Fetch, Fetches, Check, Claim, RunExecutes, RunGated, RunApproved, RunRaises,
      RunUnheard, Retry, Exhausted, DeadLetter, DeadLetterRaises, Commit, CommitRefused,
      CommitRaises, Step
<1>4. CASE Complete(d) \/ SaveFailed(d)
  BY <1>0, <1>4 DEF Complete, SaveFailed, SetStatus, Waiting, kafka
<1>5. CASE SkipJunk(d)
  BY <1>5, Budgets DEF SkipJunk, kafka
<1>6. CASE SkipDuplicate(d)
  <2>1. /\ log' = log /\ status' = status /\ pc[d] = "check"
        /\ Event(d) \in Requests /\ status[Event(d)] \notin {"unknown", "queued"}
    BY <1>6 DEF SkipDuplicate, Step, kafka
  <2>2. status[Event(d)] # "processing"
    <3> SUFFICES ASSUME status[Event(d)] = "processing" PROVE FALSE
      OBVIOUS
    <3>1. PICK c \in Consumers : pc[c] \in Working
      BY <2>1 DEF Worked
    <3>2. pc[c] \in Busy /\ pc[d] \in Busy /\ c # d
      BY <2>1, <3>1, PointSets
    <3> QED BY <1>0, <3>2 DEF Exclusive
  <2> QED BY <2>1, <2>2 DEF Waiting
<1> QED BY <1>3, <1>4, <1>5, <1>6

\* Every step keeps the invariant.
LEMMA SettledStep ==
  ASSUME Calm
  PROVE  SettledInv /\ [Next]_vars => SettledInv'
<1> SUFFICES ASSUME SettledInv, [Next]_vars PROVE SettledInv'
  OBVIOUS
<1>1. /\ ContractInv /\ Worked /\ AllClear({"commit"}, Waiting)
      /\ Typed /\ Fresh /\ Evolves /\ ContractInv' /\ Worked'
  BY Evolution, ContractStep, WorkedLasts DEF SettledInv, ContractInv, ClaimInv, Calm
<1>2. \A i \in 1..Len(log) :
        log[i] \in Requests /\ status'[log[i]] \in Waiting =>
          status[log[i]] \in Waiting \/ log' = Append(log, log[i])
  BY <1>1, FinalStays
<1>3. \A d \in Consumers : pc[d] \in Busy \ {"commit"} /\ pc'[d] \in {"commit"} =>
        log' = log /\ (Event(d) \in Requests => status'[Event(d)] \notin Waiting)
  BY <1>1, EnteringCommit
<1>4. {"commit"} \in SUBSET Carried /\ "commit" \in {"commit"}
  BY PointSets
<1>5. AllClear({"commit"}, Waiting)'
  BY <1>1, <1>2, <1>3, <1>4, AllClearLasts
<1> QED BY <1>1, <1>5 DEF SettledInv

\* Without crashes, store faults and reassignments (junk events, failing runs, lost
\* replies of audit writes and failing publishes and commits remain) every event
\* below the committed offset belongs to a request with a final status, or to one
\* that was replayed further up the log.
THEOREM SettledBeforeCommit == Calm => (Spec => []CommittedIsSettled)
<1> SUFFICES ASSUME Calm PROVE Spec => []CommittedIsSettled
  OBVIOUS
<1>1. Init => SettledInv
  <2> SUFFICES ASSUME Init PROVE SettledInv
    OBVIOUS
  <2>1. ContractInv /\ AllClear({"commit"}, Waiting)
    BY ContractInit, AllClearInit, PointSets
  <2>2. Worked
    BY DEF Init, Worked
  <2> QED BY <2>1, <2>2 DEF SettledInv
<1>2. SettledInv /\ [Next]_vars => SettledInv'
  BY SettledStep
<1>3. SettledInv => CommittedIsSettled
  <2> SUFFICES ASSUME SettledInv, NEW i \in 1..committed, log[i] \in Requests
               PROVE  \/ status[log[i]] \in Finals
                      \/ \E j \in committed + 1 .. Len(log) : log[j] = log[i]
    BY DEF CommittedIsSettled, Finals
  <2>1. TypeOK /\ AllClear({"commit"}, Waiting)
    BY DEF SettledInv, ContractInv, ClaimInv, Typed
  <2>2. Clear(Waiting, committed)
    BY <2>1 DEF AllClear, Passed, TypeOK
  <2>3. status[log[i]] \in Waiting \/ status[log[i]] \in Finals
    BY <2>1 DEF TypeOK, Statuses, Waiting, Finals
  <2> QED BY <2>2, <2>3 DEF Clear
<1> QED BY <1>1, <1>2, <1>3, PTL DEF Spec

--------------------------------------------------------------------------------
(* No request opens more approval requests than its events allow *)

Places(r) == {i \in 1..Len(log) : log[i] = r}
Quota(r) == (MaxRetries + 1) * Cardinality(Places(r))

\* Request r may open n more.
Room(r, n) == proposals[r] + n <= Quota(r)

\* The points of the retry loop.
Trying == {"attempt", "complete", "retry"}

\* A consumer in its retry loop has room for the attempts that are left, a waiting
\* request for those of its next event.
RoomInv ==
  /\ \A r \in Requests : status[r] = "unknown" => proposals[r] = 0
  /\ \A r \in Requests : status[r] = "queued" => proposals[r] = 0 \/ Room(r, MaxRetries + 1)
  /\ \A c \in Consumers :
       /\ pc[c] = "attempt" =>
            attempt[c] <= MaxRetries /\ Room(Event(c), MaxRetries + 1 - attempt[c])
       /\ pc[c] \in {"complete", "retry"} =>
            attempt[c] <= MaxRetries /\ Room(Event(c), MaxRetries - attempt[c])
  /\ \A r \in Requests : Room(r, 0)

\* Multiplication by one more.
LEMMA OneMore ==
  ASSUME NEW k \in Nat, NEW n \in Nat
  PROVE  k * n \in Nat /\ k * (n + 1) = k * n + k /\ (n > 0 => k * n >= k)
<1>1. k * n \in Nat /\ k * (n + 1) = k * n + k
  OBVIOUS
<1>2. ASSUME n > 0 PROVE k * n >= k
  <2>1. n - 1 \in Nat /\ n = (n - 1) + 1
    BY <1>2
  <2>2. k * n = k * (n - 1) + k /\ k * (n - 1) \in Nat
    BY <2>1
  <2> QED BY <2>2
<1> QED BY <1>1, <1>2

\* The quota is a number, and an event in the log is worth MaxRetries + 1.
LEMMA QuotaType ==
  ASSUME log \in Seq(Events), NEW r
  PROVE  /\ IsFiniteSet(Places(r)) /\ Cardinality(Places(r)) \in Nat /\ Quota(r) \in Nat
         /\ \A i \in 1..Len(log) : log[i] = r => Quota(r) >= MaxRetries + 1
<1>1. Len(log) \in Nat /\ MaxRetries + 1 \in Nat
  BY Budgets
<1>2. IsFiniteSet(1..Len(log))
  BY <1>1, FS_Interval
<1>3. IsFiniteSet(Places(r)) /\ Cardinality(Places(r)) \in Nat
  BY <1>2, FS_Subset, FS_CardinalityType DEF Places
<1>4. ASSUME NEW i \in 1..Len(log), log[i] = r PROVE Cardinality(Places(r)) > 0
  <2>1. Places(r) # {}
    BY <1>4 DEF Places
  <2> QED BY <1>3, <2>1, FS_EmptySet
<1> QED BY <1>1, <1>3, <1>4, OneMore DEF Quota

\* An appended event adds to the quota of its request and takes from nobody.
LEMMA QuotaGrows ==
  ASSUME log \in Seq(Events), NEW e \in Events, log' = Append(log, e), NEW r
  PROVE  Quota(r)' = IF r = e THEN Quota(r) + (MaxRetries + 1) ELSE Quota(r)
<1>1. /\ Len(log) \in Nat /\ Len(log') = Len(log) + 1 /\ log'[Len(log) + 1] = e
      /\ \A i \in 1..Len(log) : log'[i] = log[i]
  BY Appending
<1>2. /\ IsFiniteSet(Places(r)) /\ Cardinality(Places(r)) \in Nat /\ MaxRetries + 1 \in Nat
  BY QuotaType, Budgets
<1>3. 1..Len(log') = (1..Len(log)) \cup {Len(log) + 1} /\ Len(log) + 1 \notin 1..Len(log)
  BY <1>1
<1>4. CASE r = e
  <2>1. Places(r)' = Places(r) \cup {Len(log) + 1} /\ Len(log) + 1 \notin Places(r)
    BY <1>1, <1>3, <1>4 DEF Places
  <2>2. Cardinality(Places(r)') = Cardinality(Places(r)) + 1
    BY <1>2, <2>1, FS_AddElement
  <2> QED BY <1>2, <1>4, <2>2, OneMore DEF Quota
<1>5. CASE r # e
  <2>1. Places(r)' = Places(r)
    BY <1>1, <1>3, <1>5 DEF Places
  <2> QED BY <1>5, <2>1 DEF Quota
<1> QED BY <1>4, <1>5

\* How the quota changes in any step.
LEMMA QuotaStep ==
  ASSUME Typed, Evolves, NEW r
  PROVE  /\ Quota(r) \in Nat /\ Quota(r)' \in Nat /\ Quota(r) <= Quota(r)'
         /\ log' = log => Quota(r)' = Quota(r)
         /\ \A e \in Requests : log' = Append(log, e) /\ r = e =>
              Quota(r)' = Quota(r) + (MaxRetries + 1)
<1>1. log \in Seq(Events) /\ Quota(r) \in Nat /\ MaxRetries + 1 \in Nat
  BY QuotaType, Budgets DEF Typed, TypeOK
<1>2. CASE log' = log
  <2>1. Quota(r)' = Quota(r)
    BY <1>2 DEF Quota, Places
  <2>2. \A e \in Requests : log' # Append(log, e)
    <3> SUFFICES ASSUME NEW e \in Requests, log' = Append(log, e) PROVE FALSE
      OBVIOUS
    <3>1. e \in Events
      BY DEF Events
    <3>2. Len(log') = Len(log) + 1 /\ Len(log) \in Nat
      BY <1>1, <3>1, Appending
    <3> QED BY <1>2, <3>2
  <2> QED BY <1>1, <2>1, <2>2
<1>3. ASSUME NEW e \in Events, log' = Append(log, e)
      PROVE  /\ Quota(r)' \in Nat /\ Quota(r) <= Quota(r)' /\ log' # log
             /\ \A q \in Requests : log' = Append(log, q) /\ r = q =>
                  Quota(r)' = Quota(r) + (MaxRetries + 1)
  <2>1. Quota(r)' = IF r = e THEN Quota(r) + (MaxRetries + 1) ELSE Quota(r)
    BY <1>1, <1>3, QuotaGrows
  <2>2. Len(log') = Len(log) + 1 /\ Len(log) \in Nat
    BY <1>1, <1>3, Appending
  <2>3. ASSUME NEW q \in Requests, log' = Append(log, q), r = q
        PROVE  Quota(r)' = Quota(r) + (MaxRetries + 1)
    <3>1. q \in Events
      BY DEF Events
    <3> QED BY <1>1, <2>3, <3>1, QuotaGrows
  <2> QED BY <1>1, <2>1, <2>2, <2>3
<1> QED BY <1>1, <1>2, <1>3 DEF Evolves

\* A step that opens no approval request and moves nobody into a run or out of it.
LEMMA RoomKept ==
  ASSUME Typed, Evolves, RoomInv, proposals' = proposals,
         \A c \in Consumers :
           pc'[c] \in Trying =>
             pc'[c] = pc[c] /\ attempt'[c] = attempt[c] /\ offset'[c] = offset[c],
         \A r \in Requests : status'[r] = "unknown" => status[r] = "unknown",
         \A r \in Requests :
           status'[r] = "queued" =>
             status[r] = "queued" \/ proposals[r] = 0 \/ log' = Append(log, r)
  PROVE  RoomInv'
<1>0. /\ TypeOK /\ Holding /\ proposals \in [Requests -> Nat] /\ attempt \in [Consumers -> Nat]
      /\ MaxRetries \in Nat
  BY Budgets DEF Typed, TypeOK
<1>1. \A r \in Requests : status'[r] = "unknown" => proposals'[r] = 0
  BY DEF RoomInv
<1>2. ASSUME NEW r \in Requests, status'[r] = "queued"
      PROVE  proposals'[r] = 0 \/ Room(r, MaxRetries + 1)'
  <2>1. /\ Quota(r) \in Nat /\ Quota(r)' \in Nat /\ Quota(r) <= Quota(r)'
        /\ log' = Append(log, r) => Quota(r)' = Quota(r) + (MaxRetries + 1)
    BY QuotaStep
  <2>2. CASE status[r] = "queued"
    BY <1>0, <2>1, <2>2 DEF RoomInv, Room
  <2>3. CASE log' = Append(log, r)
    BY <1>0, <2>1, <2>3 DEF RoomInv, Room
  <2> QED BY <1>2, <2>2, <2>3
<1>3. ASSUME NEW c \in Consumers, pc'[c] \in Trying
      PROVE  /\ attempt'[c] <= MaxRetries
             /\ pc'[c] = "attempt" => Room(Event(c), MaxRetries + 1 - attempt[c])'
             /\ pc'[c] \in {"complete", "retry"} => Room(Event(c), MaxRetries - attempt[c])'
  <2>1. pc[c] = pc'[c] /\ offset'[c] = offset[c] /\ attempt'[c] = attempt[c] /\ attempt[c] \in Nat
    BY <1>0, <1>3
  <2>2. offset[c] < Len(log) /\ Event(c) \in Requests /\ offset[c] \in Nat /\ Len(log) \in Nat
    BY <1>0, <1>3, <2>1, PointSets DEF Holding, TypeOK, Trying
  <2>3. Event(c)' = Event(c)
    <3>1. offset[c] + 1 \in 1..Len(log)
      BY <2>2
    <3> QED BY <2>1, <3>1, LogGrows DEF Event
  <2>4. PICK r \in Requests : r = Event(c)
    BY <2>2
  <2>5. Quota(r) \in Nat /\ Quota(r)' \in Nat /\ Quota(r) <= Quota(r)'
    BY QuotaStep
  <2>6. /\ attempt[c] <= MaxRetries
        /\ pc[c] = "attempt" => Room(r, MaxRetries + 1 - attempt[c])
        /\ pc[c] \in {"complete", "retry"} => Room(r, MaxRetries - attempt[c])
    BY <1>3, <2>1, <2>4 DEF RoomInv, Trying
  <2>7. /\ attempt'[c] <= MaxRetries
        /\ pc'[c] = "attempt" => Room(r, MaxRetries + 1 - attempt[c])'
        /\ pc'[c] \in {"complete", "retry"} => Room(r, MaxRetries - attempt[c])'
    BY <1>0, <2>1, <2>5, <2>6 DEF Room
  <2>8. r = Event(c)'
    BY <2>3, <2>4
  <2> QED BY <2>7, <2>8
<1>4. ASSUME NEW r \in Requests PROVE Room(r, 0)'
  <2>1. Quota(r) \in Nat /\ Quota(r)' \in Nat /\ Quota(r) <= Quota(r)'
    BY QuotaStep
  <2> QED BY <1>0, <2>1 DEF RoomInv, Room
<1> QED BY <1>1, <1>2, <1>3, <1>4 DEF RoomInv, Trying

\* A step of the retry loop: nobody else is in it, and the room it leaves.
LEMMA RoomUsed ==
  ASSUME ContractInv, RoomInv, NEW c \in Consumers, pc[c] \in {"claim"} \cup Trying,
         NEW l \in Points, Goto(c, l), log' = log, offset' = offset,
         \A r \in Requests : r # Event(c) => status'[r] = status[r] /\ proposals'[r] = proposals[r],
         status'[Event(c)] \in {"processing", "completed"},
         l = "attempt" => attempt'[c] <= MaxRetries /\ Room(Event(c), MaxRetries + 1 - attempt[c])',
         l \in {"complete", "retry"} =>
           attempt'[c] <= MaxRetries /\ Room(Event(c), MaxRetries - attempt[c])',
         Room(Event(c), 0)'
  PROVE  RoomInv'
<1>0. /\ TypeOK /\ Exclusive /\ pc' = [pc EXCEPT ![c] = l] /\ pc \in [Consumers -> Points]
      /\ Event(c)' = Event(c)
  BY DEF ContractInv, ClaimInv, Typed, TypeOK, Goto, Event
<1>1. ASSUME NEW d \in Consumers, d # c PROVE pc'[d] = pc[d] /\ pc'[d] \notin Trying
  <2>1. pc[c] \in Busy
    BY PointSets DEF Trying
  <2>2. pc[d] \notin Busy
    BY <1>0, <1>1, <2>1 DEF Exclusive
  <2> QED BY <1>0, <1>1, <2>2, PointSets DEF Trying
<1>2. \A r : Room(r, 0)' <=> proposals'[r] + 0 <= Quota(r)
  BY DEF Room, Quota, Places
<1>3. ASSUME NEW r \in Requests, r # Event(c)
      PROVE  /\ status'[r] = "unknown" => proposals'[r] = 0
             /\ status'[r] = "queued" => proposals'[r] = 0 \/ Room(r, MaxRetries + 1)'
             /\ Room(r, 0)'
  BY <1>3 DEF RoomInv, Room, Quota, Places
<1>4. \A r \in Requests : r = Event(c) => Room(r, 0)'
  BY <1>0
<1>5. pc'[c] = l
  BY <1>0
<1>6. ASSUME NEW r \in Requests
      PROVE  /\ status'[r] = "unknown" => proposals'[r] = 0
             /\ status'[r] = "queued" => proposals'[r] = 0 \/ Room(r, MaxRetries + 1)'
             /\ Room(r, 0)'
  BY <1>3, <1>4
<1> QED BY <1>1, <1>5, <1>6 DEF RoomInv, Trying

\* The retry loop stays within its room.
LEMMA RoomRun ==
  ASSUME ContractInv, RoomInv, NEW c \in Consumers,
         \/ Claim(c) \/ Retry(c)
         \/ RunExecutes(c) \/ RunGated(c) \/ RunApproved(c) \/ RunRaises(c) \/ RunUnheard(c)
         \/ CompleteRaises(c)
  PROVE  RoomInv'
<1>0. /\ TypeOK /\ Holding /\ Held /\ log \in Seq(Events)
      /\ proposals \in [Requests -> Nat] /\ attempt \in [Consumers -> Nat]
      /\ status \in [Requests -> Statuses] /\ MaxRetries \in Nat
  BY Budgets DEF ContractInv, ClaimInv, Typed, TypeOK
<1>1. pc[c] \in {"claim"} \cup Trying /\ log' = log /\ offset' = offset
  BY DEF Claim, Retry, RunExecutes, RunGated, RunApproved, RunRaises, RunUnheard, CompleteRaises,
         Step, kafka, Trying
<1>2. PICK r \in Requests : r = Event(c)
  BY <1>0, <1>1, PointSets DEF Holding, Trying
<1>3. offset[c] + 1 \in 1..Len(log) /\ log[offset[c] + 1] = r
  <2>1. offset[c] < Len(log) /\ offset[c] \in Nat /\ Len(log) \in Nat
    BY <1>0, <1>1, PointSets DEF Holding, TypeOK, Trying
  <2> QED BY <1>2, <2>1 DEF Event
<1>4. /\ Quota(r) \in Nat /\ Quota(r) >= MaxRetries + 1 /\ Quota(r)' = Quota(r)
      /\ Event(c)' = r
  BY <1>0, <1>1, <1>2, <1>3, QuotaType DEF Quota, Places, Event
<1>5. /\ "attempt" \in Points /\ "retry" \in Points /\ "complete" \in Points
  BY DEF Points
<1>6. CASE Claim(c)
  <2>1. /\ pc[c] = "claim" /\ Goto(c, "attempt") /\ proposals' = proposals
        /\ status' = [status EXCEPT ![r] = "processing"] /\ attempt' = [attempt EXCEPT ![c] = 0]
    BY <1>2, <1>6 DEF Claim, Step, SetStatus, effects
  <2>2. status[r] = "queued"
    BY <1>0, <1>2, <2>1 DEF Held, HeldBy
  <2>3. proposals[r] \in Nat /\ (proposals[r] = 0 \/ Room(r, MaxRetries + 1)) /\ attempt'[c] = 0
    BY <1>0, <2>1, <2>2 DEF RoomInv
  <2>4. Room(r, MaxRetries + 1 - attempt[c])' /\ Room(r, 0)' /\ attempt'[c] <= MaxRetries
    BY <1>0, <1>4, <2>1, <2>3 DEF Room
  <2>5. /\ status'[r] = "processing"
        /\ \A q \in Requests : q # r => status'[q] = status[q] /\ proposals'[q] = proposals[q]
    BY <1>0, <2>1
  <2> QED BY <1>1, <1>2, <1>4, <1>5, <2>1, <2>4, <2>5, RoomUsed
<1>7. CASE Retry(c)
  <2>1. /\ pc[c] = "retry" /\ Goto(c, "attempt") /\ proposals' = proposals /\ status' = status
        /\ attempt' = [attempt EXCEPT ![c] = @ + 1] /\ attempt[c] < MaxRetries
    BY <1>7 DEF Retry, Step, effects
  <2>2. proposals[r] \in Nat /\ Room(r, MaxRetries - attempt[c]) /\ attempt[c] \in Nat
        /\ attempt'[c] = attempt[c] + 1 /\ Room(r, 0)
    BY <1>0, <1>2, <2>1 DEF RoomInv
  <2>3. Room(r, MaxRetries + 1 - attempt[c])' /\ Room(r, 0)' /\ attempt'[c] <= MaxRetries
    BY <1>0, <1>4, <2>1, <2>2 DEF Room
  <2>4. status'[r] \in {"processing", "completed"}
    BY <1>0, <1>2, <2>1, PointSets DEF Held, HeldBy
  <2> QED BY <1>1, <1>2, <1>4, <1>5, <2>1, <2>3, <2>4, RoomUsed
<1>8. CASE \/ RunExecutes(c) \/ RunGated(c) \/ RunApproved(c) \/ RunRaises(c) \/ RunUnheard(c)
  <2>1. /\ pc[c] = "attempt" /\ (Goto(c, "retry") \/ Goto(c, "complete"))
        /\ status' = status /\ attempt' = attempt
        /\ proposals' \in {proposals, [proposals EXCEPT ![r] = @ + 1]}
    BY <1>2, <1>8
    DEF RunExecutes, RunGated, RunApproved, RunRaises, RunUnheard, Step, AddFor, effects
  <2>2. proposals[r] \in Nat /\ Room(r, MaxRetries + 1 - attempt[c])
        /\ attempt[c] \in Nat /\ attempt[c] <= MaxRetries
    BY <1>0, <1>2, <2>1 DEF RoomInv
  <2>3. proposals'[r] \in {proposals[r], proposals[r] + 1}
        /\ \A q \in Requests : q # r => status'[q] = status[q] /\ proposals'[q] = proposals[q]
    BY <1>0, <2>1
  <2>4. Room(r, MaxRetries - attempt[c])' /\ Room(r, 0)' /\ attempt'[c] <= MaxRetries
    BY <1>0, <1>4, <2>1, <2>2, <2>3 DEF Room
  <2>5. status'[r] \in {"processing", "completed"}
    BY <1>0, <1>2, <2>1, PointSets DEF Held, HeldBy
  <2>6. PICK l \in {"retry", "complete"} : Goto(c, l)
    BY <2>1
  <2> QED BY <1>1, <1>2, <1>4, <1>5, <2>3, <2>4, <2>5, <2>6, RoomUsed
<1>9. CASE CompleteRaises(c)
  <2>1. /\ pc[c] = "complete" /\ Goto(c, "retry") /\ attempt' = attempt /\ proposals' = proposals
        /\ status' = status \/ status' = [status EXCEPT ![r] = "completed"]
    BY <1>2, <1>9 DEF CompleteRaises, Step, SetStatus
  <2>2. /\ proposals[r] \in Nat /\ Room(r, MaxRetries - attempt[c]) /\ Room(r, 0)
        /\ attempt[c] \in Nat /\ attempt[c] <= MaxRetries
    BY <1>0, <1>2, <2>1 DEF RoomInv
  <2>3. Room(r, MaxRetries - attempt[c])' /\ Room(r, 0)' /\ attempt'[c] <= MaxRetries
    BY <1>0, <1>4, <2>1, <2>2 DEF Room
  <2>4. status[r] \in {"processing", "completed"}
    BY <1>0, <1>2, <2>1, PointSets DEF Held, HeldBy
  <2>5. /\ status'[r] \in {"processing", "completed"}
        /\ \A q \in Requests : q # r => status'[q] = status[q] /\ proposals'[q] = proposals[q]
    BY <1>0, <2>1, <2>4
  <2> QED BY <1>1, <1>2, <1>4, <1>5, <2>1, <2>3, <2>5, RoomUsed
<1> QED BY <1>6, <1>7, <1>8, <1>9

\* Every step keeps within the room.
LEMMA RoomStep == ContractInv /\ RoomInv /\ [Next]_vars => RoomInv'
<1> SUFFICES ASSUME ContractInv, RoomInv, [Next]_vars PROVE RoomInv'
  OBVIOUS
<1>0. /\ Typed /\ TypeOK /\ Fresh /\ Known /\ Evolves
      /\ pc \in [Consumers -> Points] /\ status \in [Requests -> Statuses]
  BY Evolution DEF ContractInv, ClaimInv, Typed, TypeOK
\* A consumer moves to a point outside of the retry loop.
<1>a. ASSUME NEW c \in Consumers, NEW l, l \notin Trying, Goto(c, l),
             attempt' = attempt, proposals' = proposals,
             \A d \in Consumers \ {c} : offset'[d] = offset[d],
             \A r \in Requests : status'[r] \in Unclaimed => status'[r] = status[r]
      PROVE  RoomInv'
  <2>1. \A d \in Consumers :
          pc'[d] \in Trying =>
            pc'[d] = pc[d] /\ attempt'[d] = attempt[d] /\ offset'[d] = offset[d]
    BY <1>0, <1>a DEF Goto, TypeOK
  <2> QED BY <1>0, <1>a, <2>1, RoomKept DEF Unclaimed
<1>b. ASSUME UNCHANGED <<pc, attempt, offset, proposals>>,
             \A r \in Requests : status'[r] = "unknown" => status[r] = "unknown",
             \A r \in Requests :
               status'[r] = "queued" =>
                 status[r] = "queued" \/ proposals[r] = 0 \/ log' = Append(log, r)
      PROVE  RoomInv'
  BY <1>0, <1>b, RoomKept
<1>1. CASE UNCHANGED vars
  BY <1>1, <1>b DEF vars, effects
<1>2. ASSUME NEW r \in Requests, Save(r) PROVE RoomInv'
  <2>1. status' = [status EXCEPT ![r] = "queued"] /\ client[r] = "new"
    BY <1>2 DEF Save, SetStatus
  <2>2. proposals[r] = 0
    BY <1>0, <2>1 DEF Fresh, RoomInv
  <2>3. UNCHANGED <<pc, attempt, offset, proposals>>
    BY <1>2 DEF Save, effects
  <2> QED BY <1>0, <1>b, <2>1, <2>2, <2>3
<1>3. ASSUME NEW r \in Requests, Replay(r) PROVE RoomInv'
  <2>1. status' = [status EXCEPT ![r] = "queued"] /\ log' = Append(log, r)
        /\ UNCHANGED <<pc, attempt, offset, proposals>>
    BY <1>3 DEF Replay, SetStatus, effects
  <2> QED BY <1>0, <1>b, <2>1
<1>4. ASSUME NEW r \in Requests, Publish(r) \/ PublishRaises(r) PROVE RoomInv'
  <2>1. UNCHANGED <<status, pc, attempt, offset, proposals>>
    BY <1>4 DEF Publish, PublishRaises, effects
  <2> QED BY <1>b, <2>1
<1>5. CASE PublishJunk
  <2>1. UNCHANGED <<status, pc, attempt, offset, proposals>>
    BY <1>5 DEF PublishJunk, effects
  <2> QED BY <1>b, <2>1
<1>6. ASSUME NEW c \in Consumers, Assign(c) \/ Rebalance(c) PROVE RoomInv'
  <2>1. UNCHANGED <<status, pc, attempt, offset, proposals>>
    BY <1>6 DEF Assign, Rebalance, Receive, effects
  <2> QED BY <1>b, <2>1
<1>7. ASSUME NEW c \in Consumers, Crash(c) \/ Restart(c) PROVE RoomInv'
  <2>1. PICK l \in {"down", "poll"} : Goto(c, l)
    BY <1>7 DEF Crash, Restart, Step
  <2>2. UNCHANGED <<status, attempt, offset, proposals>>
    BY <1>7 DEF Crash, Restart, effects, kafka
  <2> QED BY <1>a, <2>1, <2>2 DEF Trying
<1>8. ASSUME NEW c \in Consumers, Consume(c) PROVE RoomInv'
  <2>0. \A r \in Requests : status'[r] \in Unclaimed => status'[r] = status[r]
    <3>1. CASE status' # status
      BY <1>0, <1>8, <3>1, ConsumerWrites DEF Unclaimed, Finals
    <3> QED BY <3>1
  <2>1. CASE \/ Claim(c) \/ Retry(c)
             \/ RunExecutes(c) \/ RunGated(c) \/ RunApproved(c) \/ RunRaises(c) \/ RunUnheard(c)
             \/ CompleteRaises(c)
    BY <2>1, RoomRun
  <2>2. CASE Fetch(c)
    <3>1. /\ Goto(c, "check") /\ attempt' = attempt /\ proposals' = proposals
          /\ offset' = [offset EXCEPT ![c] = position]
      BY <2>2 DEF Fetch, Fetches, Step, effects
    <3>2. \A d \in Consumers \ {c} : offset'[d] = offset[d]
      BY <1>0, <3>1 DEF TypeOK
    <3> QED BY <1>a, <2>0, <3>1, <3>2 DEF Trying
  <2>3. CASE \/ SkipJunk(c) \/ SkipDuplicate(c) \/ Check(c) \/ Exhausted(c) \/ Complete(c)
             \/ DeadLetter(c) \/ DeadLetterRaises(c) \/ SaveFailed(c) \/ HandleRaises(c)
             \/ Commit(c) \/ CommitRefused(c) \/ CommitRaises(c)
    <3>1. PICK l \in {"commit", "claim", "dlq", "fail", "dead", "poll"} : Goto(c, l)
      BY <2>3 DEF SkipJunk, SkipDuplicate, Check, Exhausted, Complete, DeadLetter, SaveFailed,
                  DeadLetterRaises, HandleRaises, Commit, CommitRefused, CommitRaises, Step
    <3>2. UNCHANGED <<attempt, offset, proposals>>
      BY <2>3 DEF SkipJunk, SkipDuplicate, Check, Exhausted, Complete, DeadLetter, SaveFailed,
                  DeadLetterRaises, HandleRaises, Commit, CommitRefused, CommitRaises, effects
    <3> QED BY <1>a, <2>0, <3>1, <3>2 DEF Trying
  <2> QED BY <1>8, <2>1, <2>2, <2>3 DEF Consume
<1> QED BY <1>1, <1>2, <1>3, <1>4, <1>5, <1>6, <1>7, <1>8 DEF Next

\* As long as no partition is taken from a running consumer, a request opens at most
\* MaxRetries + 1 approval requests per delivered event, however its runs, its store
\* calls and its audit writes fail, its pods are killed and its events are redelivered.
THEOREM ApprovalsAreBounded == Steady => (Spec => []ApprovalsBounded)
<1> SUFFICES ASSUME Steady PROVE Spec => []ApprovalsBounded
  OBVIOUS
<1>1. Init => ContractInv /\ RoomInv
  <2> SUFFICES ASSUME Init PROVE RoomInv
    BY ContractInit
  <2>1. log \in Seq(Events) /\ \A r : Quota(r) \in Nat
    BY QuotaType DEF Init
  <2> QED BY <2>1 DEF Init, RoomInv, Room
<1>2. ContractInv /\ RoomInv /\ [Next]_vars => ContractInv' /\ RoomInv'
  BY ContractStep, RoomStep
<1>3. ContractInv /\ RoomInv => ApprovalsBounded
  <2> SUFFICES ASSUME ContractInv, RoomInv, NEW r \in Requests PROVE proposals[r] <= Quota(r)
    BY DEF ApprovalsBounded, Quota, Places
  <2>1. proposals[r] \in Nat /\ proposals[r] + 0 <= Quota(r)
    BY DEF RoomInv, Room, ContractInv, ClaimInv, Typed, TypeOK
  <2>2. Quota(r) \in Nat
    BY QuotaType DEF ContractInv, ClaimInv, Typed, TypeOK
  <2> QED BY <2>1, <2>2
<1> QED BY <1>1, <1>2, <1>3, PTL DEF Spec

--------------------------------------------------------------------------------
(* How much the faults can cost *)

\* As long as nobody who handles a request stops, it is not stranded.
LEMMA NotStranded ==
  ASSUME Typed, Fresh, [Next]_vars, NEW r \in Stranded', status[r] = "processing",
         \A d \in Consumers : pc[d] \in Working /\ Event(d) = r => pc'[d] \in Working
  PROVE  r \in Stranded
<1>1. r \in Requests /\ \A d \in Consumers : pc'[d] \in Working => Event(d)' # r
  BY DEF Stranded, Handled, Working
<1>2. \A d \in Consumers : pc[d] \in Working => Event(d)' = Event(d)
  BY HeldEvents, PointSets
<1>3. \A d \in Consumers : pc[d] \in Working => Event(d) # r
  BY <1>1, <1>2
<1> QED BY <1>1, <1>3 DEF Stranded, Handled, Working

\* The faults that count.
Faults == crashes + storeFaults

\* A step strands nobody and counts no fault less, or it is a fault and strands
\* the request its consumer held.
LEMMA Stranding ==
  ASSUME Typed, Fresh, [Next]_vars
  PROVE  \/ Stranded' \subseteq Stranded /\ Faults' \in {Faults, Faults + 1}
         \/ /\ Faults' = Faults + 1
            /\ \E r \in Events : Stranded' \subseteq Stranded \cup {r}
<1>0. /\ pc \in [Consumers -> Points] /\ status \in [Requests -> Statuses]
      /\ crashes \in Nat /\ storeFaults \in Nat
  BY DEF Typed, TypeOK
<1> DEFINE NoneNew == \A r \in Requests : status'[r] = "processing" => status[r] = "processing"
<1>a. ASSUME pc' = pc, NoneNew PROVE Stranded' \subseteq Stranded
  <2> SUFFICES ASSUME NEW r \in Stranded' PROVE r \in Stranded
    OBVIOUS
  <2>1. status[r] = "processing"
    BY <1>a DEF Stranded
  <2> QED BY <1>a, <2>1, NotStranded
<1>b. ASSUME NEW c \in Consumers, NEW to, Goto(c, to), pc[c] \notin Working \/ to \in Working,
             NoneNew
      PROVE  Stranded' \subseteq Stranded
  <2> SUFFICES ASSUME NEW r \in Stranded' PROVE r \in Stranded
    OBVIOUS
  <2>1. status[r] = "processing"
    BY <1>b DEF Stranded
  <2>2. \A d \in Consumers : pc[d] \in Working => pc'[d] \in Working
    BY <1>0, <1>b DEF Goto
  <2> QED BY <2>1, <2>2, NotStranded
<1>c. ASSUME NEW c \in Consumers, NEW to, Goto(c, to), pc[c] \in Claiming,
             \A r \in Requests : r # Event(c) => status'[r] = status[r]
      PROVE  Event(c) \in Events /\ Stranded' \subseteq Stranded \cup {Event(c)}
  <2>1. Event(c) \in Events
    BY <1>c DEF Typed, Holding, Events
  <2>2. ASSUME NEW r \in Stranded', r # Event(c) PROVE r \in Stranded
    <3>1. status[r] = "processing"
      BY <1>c, <2>2 DEF Stranded
    <3>2. \A d \in Consumers : d # c => pc'[d] = pc[d]
      BY <1>0, <1>c DEF Goto
    <3> QED BY <2>2, <3>1, <3>2, NotStranded
  <2> QED BY <2>1, <2>2
<1>1. CASE UNCHANGED vars
  BY <1>0, <1>1, <1>a DEF vars, budget, faults, Faults
<1>2. ASSUME NEW r \in Requests, Save(r) \/ Publish(r) \/ PublishRaises(r) \/ Replay(r)
      PROVE  Stranded' \subseteq Stranded /\ Faults' = Faults
  <2>1. status' \in {status, [status EXCEPT ![r] = "queued"]} /\ pc' = pc
    BY <1>2 DEF Save, Publish, PublishRaises, Replay, SetStatus
  <2>2. NoneNew
    BY <1>0, <2>1
  <2>3. Faults' = Faults
    BY <1>2 DEF Save, Publish, PublishRaises, BrokerRaises, Replay, budget, faults, Faults
  <2> QED BY <1>a, <2>1, <2>2, <2>3
<1>3. CASE PublishJunk
  BY <1>0, <1>3, <1>a DEF PublishJunk, budget, faults, Faults
<1>4. ASSUME NEW c \in Consumers, Assign(c) \/ Rebalance(c)
      PROVE  Stranded' \subseteq Stranded /\ Faults' = Faults
  BY <1>0, <1>4, <1>a DEF Assign, Rebalance, Receive, faults, Faults
<1>5. ASSUME NEW c \in Consumers, Restart(c)
      PROVE  Stranded' \subseteq Stranded /\ Faults' = Faults
  <2>1. Goto(c, "poll") /\ pc[c] = "down" /\ status' = status /\ Faults' = Faults
    BY <1>5 DEF Restart, Step, budget, faults, Faults
  <2> QED BY <1>b, <2>1, PointSets
<1>6. ASSUME NEW c \in Consumers, Crash(c)
      PROVE  /\ Faults' = Faults + 1
             /\ \/ Stranded' \subseteq Stranded
                \/ \E r \in Events : Stranded' \subseteq Stranded \cup {r}
  <2>1. Goto(c, "down") /\ status' = status /\ Faults' = Faults + 1
    BY <1>0, <1>6 DEF Crash, faults, Faults
  <2> QED BY <1>b, <1>c, <2>1, PointSets
<1>7. ASSUME NEW c \in Consumers, HandleRaises(c)
      PROVE  /\ Faults' = Faults + 1
             /\ \/ Stranded' \subseteq Stranded
                \/ \E r \in Events : Stranded' \subseteq Stranded \cup {r}
  <2>1. /\ Goto(c, "dead") /\ Faults' = Faults + 1 /\ pc[c] \in {"check", "claim", "fail"}
        /\ \/ status' = status
           \/ /\ pc[c] \in {"claim", "fail"}
              /\ \E s : status' = [status EXCEPT ![Event(c)] = s]
    BY <1>0, <1>7 DEF HandleRaises, StoreRaises, SetStatus, Faults
  <2>2. CASE pc[c] = "check"
    BY <1>b, <2>1, <2>2, PointSets
  <2>3. CASE pc[c] \in {"claim", "fail"}
    <3>1. \A r \in Requests : r # Event(c) => status'[r] = status[r]
      BY <1>0, <2>1
    <3> QED BY <1>c, <2>1, <2>3, <3>1, PointSets
  <2> QED BY <2>1, <2>2, <2>3
<1>8. ASSUME NEW c \in Consumers,
             \/ Fetch(c) \/ SkipJunk(c) \/ SkipDuplicate(c) \/ Check(c)
             \/ Commit(c) \/ CommitRefused(c) \/ CommitRaises(c)
      PROVE  Stranded' \subseteq Stranded /\ Faults' = Faults
  <2>1. /\ pc[c] \in {"poll", "check", "commit"}
        /\ status' = status /\ Faults' = Faults
        /\ \E to \in Points : Goto(c, to)
    BY <1>8
    DEF Fetch, Fetches, SkipJunk, SkipDuplicate, Check, Commit, CommitRefused, CommitRaises,
        BrokerRaises, Step, budget, faults, Faults, Points
  <2> QED BY <1>b, <2>1, PointSets
<1>9. ASSUME NEW c \in Consumers,
             \/ RunExecutes(c) \/ RunGated(c) \/ RunApproved(c) \/ RunRaises(c) \/ RunUnheard(c)
             \/ Retry(c) \/ Exhausted(c) \/ DeadLetter(c) \/ DeadLetterRaises(c)
      PROVE  Stranded' \subseteq Stranded /\ Faults' = Faults
  <2>1. status' = status /\ (\E to \in Working : Goto(c, to))
    BY <1>9, PointSets
    DEF RunExecutes, RunGated, RunApproved, RunRaises, RunUnheard, Retry, Exhausted,
        DeadLetter, DeadLetterRaises, Step
  <2>2. crashes' = crashes /\ storeFaults' = storeFaults
    BY <1>9
    DEF RunExecutes, RunGated, RunApproved, RunRaises, RunUnheard, Retry, Exhausted,
        DeadLetter, DeadLetterRaises, AuditRaises, BrokerRaises, budget, faults
  <2> QED BY <1>b, <2>1, <2>2 DEF Faults
<1>10. ASSUME NEW c \in Consumers, CompleteRaises(c)
       PROVE  Stranded' \subseteq Stranded /\ Faults' = Faults + 1
  <2>1. /\ Goto(c, "retry") /\ Faults' = Faults + 1
        /\ status' = status \/ status' = [status EXCEPT ![Event(c)] = "completed"]
    BY <1>0, <1>10 DEF CompleteRaises, StoreRaises, SetStatus, Step, Faults
  <2>2. NoneNew
    BY <1>0, <2>1
  <2> QED BY <1>b, <2>1, <2>2, PointSets
<1>11. ASSUME NEW c \in Consumers, Complete(c) \/ SaveFailed(c)
       PROVE  Stranded' \subseteq Stranded /\ Faults' = Faults
  <2>1. /\ Goto(c, "commit") /\ Faults' = Faults /\ pc[c] \in Claiming
        /\ \E s \in {"completed", "failed"} : status' = [status EXCEPT ![Event(c)] = s]
    BY <1>11, PointSets DEF Complete, SaveFailed, Step, SetStatus, budget, faults, Faults
  <2>2. Stranded' \subseteq Stranded \cup {Event(c)}
    <3>1. \A r \in Requests : r # Event(c) => status'[r] = status[r]
      BY <1>0, <2>1
    <3> QED BY <1>c, <2>1, <3>1
  <2>3. Event(c) \notin Stranded'
    BY <1>0, <2>1 DEF Stranded
  <2> QED BY <2>1, <2>2, <2>3
<1>12. ASSUME NEW c \in Consumers, Claim(c)
       PROVE  Stranded' \subseteq Stranded /\ Faults' = Faults
  <2>1. /\ Goto(c, "attempt") /\ pc[c] = "claim" /\ Faults' = Faults
        /\ status' = [status EXCEPT ![Event(c)] = "processing"]
    BY <1>12 DEF Claim, Step, SetStatus, budget, faults, Faults
  <2>2. Stranded' \subseteq Stranded \cup {Event(c)}
    <3>1. \A r \in Requests : r # Event(c) => status'[r] = status[r]
      BY <1>0, <2>1
    <3> QED BY <1>c, <2>1, <3>1, PointSets
  <2>3. Event(c) \notin Stranded'
    <3>1. pc'[c] = "attempt" /\ Event(c)' = Event(c)
      BY <1>0, <2>1, HeldEvents, PointSets DEF Goto
    <3> QED BY <3>1 DEF Stranded, Handled
  <2> QED BY <2>1, <2>2, <2>3
<1>13. ASSUME NEW c \in Consumers, Consume(c)
       PROVE  \/ Stranded' \subseteq Stranded /\ Faults' \in {Faults, Faults + 1}
              \/ /\ Faults' = Faults + 1
                 /\ \E r \in Events : Stranded' \subseteq Stranded \cup {r}
  BY <1>7, <1>8, <1>9, <1>10, <1>11, <1>12, <1>13 DEF Consume
<1> QED
  BY <1>1, <1>2, <1>3, <1>4, <1>5, <1>6, <1>13 DEF Next

StrandedInv == ClaimInv /\ IsFiniteSet(Stranded) /\ StrandedBounded

\* However crashes, store, audit and broker faults, reassignments and retries
\* interleave, no more requests are stranded in "processing" than pods were killed and store
\* calls raised, on any number of pods and requests.
THEOREM DamageBounded == Spec => []StrandedBounded
<1>1. Init => StrandedInv
  <2> SUFFICES ASSUME Init PROVE StrandedInv
    OBVIOUS
  <2>1. Stranded = {}
    BY DEF Init, Stranded
  <2>2. crashes + storeFaults = 0
    BY DEF Init
  <2>3. IsFiniteSet(Stranded) /\ Cardinality(Stranded) = 0
    BY <2>1, FS_EmptySet
  <2> QED BY <2>2, <2>3, ClaimInvInit DEF StrandedInv, StrandedBounded
<1>2. StrandedInv /\ [Next]_vars => StrandedInv'
  <2> SUFFICES ASSUME StrandedInv, [Next]_vars PROVE StrandedInv'
    OBVIOUS
  <2>1. /\ ClaimInv /\ Typed /\ Fresh /\ ClaimInv'
        /\ IsFiniteSet(Stranded) /\ Cardinality(Stranded) <= Faults
    BY ClaimInvStep DEF StrandedInv, ClaimInv, StrandedBounded, Faults
  <2>2. Cardinality(Stranded) \in Nat /\ Faults \in Nat
    BY <2>1, FS_CardinalityType DEF Typed, TypeOK, Faults
  <2>3. CASE Stranded' \subseteq Stranded /\ Faults' \in {Faults, Faults + 1}
    <3>1. IsFiniteSet(Stranded') /\ Cardinality(Stranded') <= Cardinality(Stranded)
      BY <2>1, <2>3, FS_Subset
    <3>2. Cardinality(Stranded') \in Nat
      BY <3>1, FS_CardinalityType
    <3>3. Cardinality(Stranded') <= Faults'
      BY <2>1, <2>2, <2>3, <3>1, <3>2
    <3> QED BY <2>1, <3>1, <3>3 DEF StrandedInv, StrandedBounded, Faults
  <2>4. ASSUME NEW r \in Events, Faults' = Faults + 1, Stranded' \subseteq Stranded \cup {r}
        PROVE  StrandedInv'
    <3>1. /\ IsFiniteSet(Stranded \cup {r})
          /\ Cardinality(Stranded \cup {r}) <= Cardinality(Stranded) + 1
      <4>1. /\ IsFiniteSet(Stranded \cup {r})
            /\ \/ Cardinality(Stranded \cup {r}) = Cardinality(Stranded)
               \/ Cardinality(Stranded \cup {r}) = Cardinality(Stranded) + 1
        BY <2>1, FS_AddElement
      <4> QED BY <2>2, <4>1
    <3>2. /\ IsFiniteSet(Stranded')
          /\ Cardinality(Stranded') <= Cardinality(Stranded \cup {r})
      BY <2>4, <3>1, FS_Subset
    <3>3. Cardinality(Stranded') \in Nat /\ Cardinality(Stranded \cup {r}) \in Nat
      BY <3>1, <3>2, FS_CardinalityType
    <3>4. Cardinality(Stranded') <= Faults'
      BY <2>1, <2>2, <2>4, <3>1, <3>2, <3>3
    <3> QED BY <2>1, <3>2, <3>4 DEF StrandedInv, StrandedBounded, Faults
  <2> QED BY <2>1, <2>3, <2>4, Stranding
<1>3. StrandedInv => StrandedBounded
  BY DEF StrandedInv
<1> QED BY <1>1, <1>2, <1>3, PTL DEF Spec

--------------------------------------------------------------------------------
(* The handler *)

\* How far a consumer is from the end of the event it holds.
Work(c) ==
  LET left == MaxRetries - attempt[c] IN
  CASE pc[c] = "check"    -> 3 * MaxRetries + 8
    [] pc[c] = "claim"    -> 3 * MaxRetries + 7
    [] pc[c] = "attempt"  -> 3 * left + 6
    [] pc[c] = "complete" -> 3 * left + 5
    [] pc[c] = "retry"    -> 3 * left + 4
    [] pc[c] = "dlq"      -> 3
    [] pc[c] = "fail"     -> 2
    [] pc[c] = "commit"   -> 1
    [] OTHER              -> 0

\* A consumer that holds an event only ever comes nearer to its end, whatever
\* runs, stores, brokers and other pods do: it takes at most 3 * MaxRetries + 8
\* steps to a commit or to its own end ("prevents ... infinite reprocessing",
\* request_consumer.py:44-46).
HandlerEnds ==
  [][\A c \in Consumers :
       Work(c) > 0 => Work(c)' < Work(c) \/ UNCHANGED <<pc[c], attempt[c]>>]_vars

RetriesBounded == \A c \in Consumers : attempt[c] <= MaxRetries

\* The work left is a number, between 0 and that of a delivered event.
LEMMA WorkType ==
  ASSUME TypeOK, RetriesBounded, NEW c \in Consumers
  PROVE  Work(c) \in 0..3 * MaxRetries + 8
<1>1. /\ MaxRetries \in Nat /\ attempt[c] \in Nat /\ attempt[c] <= MaxRetries
      /\ pc[c] \in Points
  BY Budgets DEF TypeOK, RetriesBounded
<1>2. MaxRetries - attempt[c] \in 0..MaxRetries
  BY <1>1
<1> QED BY <1>1, <1>2 DEF Work, Points

\* What a step of its own does to a consumer's place: it comes nearer to the end.
LEMMA OwnStep ==
  ASSUME TypeOK, RetriesBounded, NEW c \in Consumers, Consume(c) \/ Crash(c), pc[c] # "poll"
  PROVE  /\ attempt'[c] \in Nat /\ attempt'[c] <= MaxRetries
         /\ Work(c) > 0 => Work(c)' < Work(c)
<1>1. /\ pc \in [Consumers -> Points] /\ attempt \in [Consumers -> Nat]
      /\ MaxRetries \in Nat /\ attempt[c] \in Nat /\ attempt[c] <= MaxRetries
  BY Budgets DEF TypeOK, RetriesBounded
<1>2. Work(c) \in 0..3 * MaxRetries + 8
  BY WorkType
<1>3. CASE Claim(c)
  <2>1. pc[c] = "claim" /\ pc'[c] = "attempt" /\ attempt'[c] = 0
    BY <1>1, <1>3 DEF Claim, Step, Goto
  <2> QED BY <1>1, <2>1 DEF Work
<1>4. CASE Retry(c)
  <2>1. /\ pc[c] = "retry" /\ pc'[c] = "attempt"
        /\ attempt'[c] = attempt[c] + 1 /\ attempt[c] < MaxRetries
    BY <1>1, <1>4 DEF Retry, Step, Goto
  <2> QED BY <1>1, <2>1 DEF Work
<1>5. CASE \/ Crash(c) \/ HandleRaises(c)
           \/ Commit(c) \/ CommitRefused(c) \/ CommitRaises(c)
  <2>1. attempt' = attempt /\ pc'[c] \in {"down", "dead", "poll"}
    BY <1>1, <1>5 DEF Crash, HandleRaises, Commit, CommitRefused, CommitRaises, Step, Goto
  <2>2. Work(c)' = 0
    BY <2>1 DEF Work
  <2> QED BY <1>1, <1>2, <2>1, <2>2
<1>6. CASE \/ SkipJunk(c) \/ SkipDuplicate(c) \/ Check(c)
           \/ RunExecutes(c) \/ RunGated(c) \/ RunApproved(c) \/ RunRaises(c) \/ RunUnheard(c)
           \/ Exhausted(c)
           \/ Complete(c) \/ CompleteRaises(c) \/ DeadLetter(c) \/ DeadLetterRaises(c)
           \/ SaveFailed(c)
  <2>1. /\ attempt' = attempt
        /\ \/ pc[c] = "check" /\ pc'[c] \in {"claim", "commit"}
           \/ pc[c] = "attempt" /\ pc'[c] \in {"complete", "retry"}
           \/ pc[c] = "retry" /\ pc'[c] = "dlq"
           \/ pc[c] = "complete" /\ pc'[c] \in {"commit", "retry"}
           \/ pc[c] = "dlq" /\ pc'[c] = "fail"
           \/ pc[c] = "fail" /\ pc'[c] = "commit"
    BY <1>1, <1>6
    DEF SkipJunk, SkipDuplicate, Check, RunExecutes, RunGated, RunApproved, RunRaises,
        RunUnheard, Exhausted, Complete, CompleteRaises, DeadLetter, DeadLetterRaises, SaveFailed,
        Step, Goto
  <2>2. attempt'[c] = attempt[c] /\ MaxRetries - attempt[c] \in Nat
    BY <1>1, <2>1
  <2>3. CASE pc[c] \in {"check", "attempt"}
    BY <1>1, <2>1, <2>2, <2>3 DEF Work
  <2>4. CASE pc[c] \in {"retry", "complete", "dlq", "fail"}
    BY <1>1, <2>1, <2>2, <2>4 DEF Work
  <2> QED BY <1>1, <2>1, <2>2, <2>3, <2>4
<1>7. ~Fetch(c)
  BY DEF Fetch, Fetches, Step
<1> QED BY <1>3, <1>4, <1>5, <1>6, <1>7 DEF Consume

\* Whoever moves, each consumer is where it was, between events, or nearer to the
\* end of its own.
LEMMA EachStep ==
  ASSUME TypeOK, RetriesBounded, [Next]_vars, NEW d \in Consumers
  PROVE  /\ attempt'[d] \in Nat /\ attempt'[d] <= MaxRetries
         /\ Work(d) > 0 => Work(d)' < Work(d) \/ UNCHANGED <<pc[d], attempt[d]>>
<1>1. /\ pc \in [Consumers -> Points] /\ attempt \in [Consumers -> Nat]
      /\ attempt[d] \in Nat /\ attempt[d] <= MaxRetries
  BY DEF TypeOK, RetriesBounded
<1>2. CASE pc'[d] = pc[d] /\ attempt'[d] = attempt[d]
  BY <1>1, <1>2
<1>3. ASSUME NEW r \in Requests, Save(r) \/ Publish(r) \/ PublishRaises(r) \/ Replay(r)
      PROVE  pc' = pc /\ attempt' = attempt
  BY <1>3 DEF Save, Publish, PublishRaises, Replay
<1>4. CASE PublishJunk \/ UNCHANGED vars
  BY <1>2, <1>4 DEF PublishJunk, vars
<1>5. ASSUME NEW c \in Consumers, Assign(c) \/ Rebalance(c)
      PROVE  pc' = pc /\ attempt' = attempt
  BY <1>5 DEF Assign, Rebalance, Receive
<1>6. ASSUME NEW c \in Consumers, Restart(c) \/ Fetch(c)
      PROVE  /\ attempt'[d] \in Nat /\ attempt'[d] <= MaxRetries
             /\ Work(d) > 0 => Work(d)' < Work(d) \/ UNCHANGED <<pc[d], attempt[d]>>
  <2>1. attempt' = attempt /\ pc[c] \in {"down", "poll"} /\ (\E l : pc' = [pc EXCEPT ![c] = l])
    BY <1>6 DEF Restart, Fetch, Fetches, Step, Goto
  <2>2. CASE c = d
    <3>1. Work(d) = 0
      BY <2>1, <2>2 DEF Work
    <3> QED BY <1>1, <2>1, <3>1
  <2>3. CASE c # d
    BY <1>1, <1>2, <2>1, <2>3
  <2> QED BY <2>2, <2>3
<1>7. ASSUME NEW c \in Consumers, c # d, Consume(c) \/ Crash(c)
      PROVE  pc'[d] = pc[d] /\ attempt'[d] = attempt[d]
  <2>1. /\ \E l : pc' = [pc EXCEPT ![c] = l]
        /\ attempt' = attempt \/ \E n : attempt' = [attempt EXCEPT ![c] = n]
    BY <1>7
    DEF Consume, Crash, Fetch, Fetches, SkipJunk, SkipDuplicate, Check, Claim, RunExecutes, RunGated,
        RunApproved, RunRaises, RunUnheard, Retry, Exhausted, Complete, CompleteRaises, DeadLetter,
        DeadLetterRaises, SaveFailed, HandleRaises, Commit, CommitRefused, CommitRaises,
        Step, Goto
  <2> QED BY <1>1, <1>7, <2>1
<1>8. ASSUME NEW c \in Consumers, c = d, Consume(c) \/ Crash(c), ~Fetch(c)
      PROVE  /\ attempt'[d] \in Nat /\ attempt'[d] <= MaxRetries
             /\ Work(d) > 0 => Work(d)' < Work(d)
  <2>1. CASE pc[c] # "poll"
    BY <1>8, <2>1, OwnStep
  <2>2. CASE pc[c] = "poll"
    <3>1. Work(d) = 0
      BY <1>8, <2>2 DEF Work
    <3>2. Crash(c)
      BY <1>8, <2>2
      DEF Consume, SkipJunk, SkipDuplicate, Check, Claim, RunExecutes, RunGated,
          RunApproved, RunRaises, RunUnheard, Retry, Exhausted, Complete, CompleteRaises, DeadLetter,
          DeadLetterRaises, SaveFailed, HandleRaises, Commit, CommitRefused, CommitRaises,
          Step
    <3>3. attempt' = attempt
      BY <3>2 DEF Crash
    <3> QED BY <1>1, <3>1, <3>3
  <2> QED BY <2>1, <2>2
<1> QED
  BY <1>2, <1>3, <1>4, <1>5, <1>6, <1>7, <1>8 DEF Next

\* Every handler comes to an end, with any number of faults: what it has left to
\* do shrinks with every step.
THEOREM HandlersEnd == Spec => HandlerEnds /\ [](\A c \in Consumers : Work(c) \in 0..3 * MaxRetries + 8)
<1>1. Init => RetriesBounded
  BY Budgets DEF Init, RetriesBounded
<1>2. TypeOK /\ RetriesBounded /\ [Next]_vars => RetriesBounded'
  BY EachStep DEF RetriesBounded
<1>3. TypeOK /\ RetriesBounded => \A c \in Consumers : Work(c) \in 0..3 * MaxRetries + 8
  BY WorkType
<1>4. TypeOK /\ RetriesBounded /\ [Next]_vars =>
        [\A c \in Consumers :
           Work(c) > 0 => Work(c)' < Work(c) \/ UNCHANGED <<pc[c], attempt[c]>>]_vars
  BY EachStep
<1> QED BY <1>1, <1>2, <1>3, <1>4, TypeCorrect, PTL DEF Spec, HandlerEnds
================================================================================
