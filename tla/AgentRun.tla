-------------------------------- MODULE AgentRun --------------------------------
(***************************************************************************)
(* Agent workers of one pod, each running Perceive - Reason - Act again    *)
(* and again for the same action type, with what they share: the rate      *)
(* counters in Redis (ActionLimiter), the bias the FeedbackLoop learns     *)
(* from reviewers' decisions, and the autonomy flag.  A worker that raises *)
(* starts over.  What the reviewers do to one request is HITLGateway's     *)
(* subject; here a gated run only learns whether it came back approved.    *)
(***************************************************************************)
EXTENDS RiskScoring

CONSTANTS
  Workers,        \* coroutines running the orchestrator under one agent_id
  Proposals,      \* what the model may propose
  OwnRisks,       \* the risk scores it may give them, in ten-thousandths
  MaxRecords,     \* ActionLimitConfig.max_records_affected
  Kinds,          \* the rate limiter's windows: minute, hour, day
  Span,           \* Span[k]: length of a window of kind k, in clock units
  Limit,          \* Limit[k]: actions allowed per window of kind k
  GateAt,         \* hitl_risk_threshold, in ten-thousandths
  MinSamples,     \* feedback_min_samples
  RejectAbove,    \* feedback_rejection_threshold, in percent
  ApproveAbove,   \* feedback_approval_threshold, in percent
  StepUp,         \* feedback_bias_step_up, in hundredths
  StepDown,       \* feedback_bias_step_down, in hundredths
  BiasMax,        \* feedback_bias_max, in hundredths
  MaxTime,        \* bound: last instant
  MaxDecisions,   \* bound: decisions Prometheus has counts of at a time
  MaxLosses       \* bound: restarts, of this pod or another, and scrapes that fail

ASSUME AgentAssumption ==
  /\ Proposals \subseteq ProposalSet /\ Proposals # {}
  /\ OwnRisks \subseteq 0..One
  /\ MaxRecords \in Nat
  /\ Span \in [Kinds -> Nat \ {0}]
  /\ Limit \in [Kinds -> Nat]
  /\ GateAt \in Nat /\ MinSamples \in Nat
  /\ RejectAbove \in Nat /\ ApproveAbove \in Nat
  /\ RejectAbove + ApproveAbove >= 100
  /\ StepUp \in Nat /\ StepDown \in Nat \ {0} /\ BiasMax \in Nat
  /\ MaxTime \in Nat /\ MaxDecisions \in Nat /\ MaxLosses \in Nat

VARIABLES
  limiter,        \* an ActionLimiter was injected
  autonomous,     \* is_autonomous_mode_enabled()
  clock,
  used,           \* used[k][w]: Redis counter of window w, up to Limit[k] + 1
  admitted,       \* admitted[k][w]: checks that were let through in window w
  pc,
  proposal,       \* proposal[a]: proposed action and parameters; risk[a]: ctx.risk_score
  risk,
  stamp,          \* stamp[a]: the time the counter keys were computed from
  cleared,        \* cleared[a]: what let the run act
  approvals,      \* hitl_approvals_total of the action type, summed over the series of
                  \* all pods that Prometheus has at present
  rejections,     \* hitl_rejections_total, likewise
  bias,           \* FeedbackLoop._biases, in hundredths
  polled,         \* the feedback cycle's first query result, None between cycles
  shrunk,         \* ghost: counts have gone missing since that first query
  losses          \* restarts and failed scrapes so far

runVars == <<pc, proposal, risk, stamp, cleared>>
counters == <<used, admitted>>
feedback == <<approvals, rejections, bias, polled, shrunk>>
vars == <<limiter, autonomous, clock, counters, runVars, feedback, losses>>

None == -1
Windows == 0..MaxTime
SomeProposal == CHOOSE p \in Proposals : TRUE
Window(k, t) == t \div Span[k]

TypeOK ==
  /\ limiter \in BOOLEAN /\ autonomous \in BOOLEAN
  /\ clock \in 0..MaxTime
  /\ \A k \in Kinds : used[k] \in [Windows -> 0..(Limit[k] + 1)]
  /\ \A k \in Kinds : admitted[k] \in [Windows -> Nat]
  /\ pc \in [Workers -> {"idle", "reasoning", "limiting", "proposing", "gated", "acting"}]
  /\ proposal \in [Workers -> Proposals]
  /\ risk \in [Workers -> 0..One]
  /\ stamp \in [Workers -> 0..MaxTime]
  /\ cleared \in [Workers -> {"none", "low", "autonomous", "human"}]
  /\ approvals \in 0..MaxDecisions /\ rejections \in 0..MaxDecisions
  /\ bias \in 0..BiasMax
  /\ polled \in {None} \cup 0..MaxDecisions
  /\ shrunk \in BOOLEAN
  /\ losses \in 0..MaxLosses

Init ==
  /\ limiter \in BOOLEAN /\ autonomous = FALSE
  /\ clock = 0
  /\ used = [k \in Kinds |-> [w \in Windows |-> 0]]
  /\ admitted = [k \in Kinds |-> [w \in Windows |-> 0]]
  /\ pc = [a \in Workers |-> "idle"]
  /\ proposal = [a \in Workers |-> SomeProposal]
  /\ risk = [a \in Workers |-> 0]
  /\ stamp = [a \in Workers |-> 0]
  /\ cleared = [a \in Workers |-> "none"]
  /\ approvals = 0 /\ rejections = 0 /\ bias = 0 /\ polled = None
  /\ shrunk = FALSE
  /\ losses = 0

--------------------------------------------------------------------------------
(* One run of the orchestrator *)

\* The run returns or raises, and the worker takes the next request.
Finish(a) ==
  /\ pc' = [pc EXCEPT ![a] = "idle"]
  /\ proposal' = [proposal EXCEPT ![a] = SomeProposal]
  /\ risk' = [risk EXCEPT ![a] = 0]
  /\ stamp' = [stamp EXCEPT ![a] = 0]
  /\ cleared' = [cleared EXCEPT ![a] = "none"]

\* The injection guard passes the input; a rejected one changes nothing.
Perceive(a) ==
  /\ pc[a] = "idle"
  /\ pc' = [pc EXCEPT ![a] = "reasoning"]
  /\ UNCHANGED <<limiter, autonomous, clock, counters, proposal, risk, stamp, cleared,
                 feedback, losses>>

\* check_scope_limit
InScope(p) == p.listed /\ p.records <= MaxRecords

\* The model answered with an action and a risk of its own.  In scope, the
\* limiter computes its keys and calls Redis.
ProposeLimited(a) ==
  /\ pc[a] = "reasoning" /\ limiter
  /\ \E p \in Proposals, own \in OwnRisks :
       /\ InScope(p)
       /\ proposal' = [proposal EXCEPT ![a] = p]
       /\ risk' = [risk EXCEPT ![a] = own]
  /\ stamp' = [stamp EXCEPT ![a] = clock]
  /\ pc' = [pc EXCEPT ![a] = "limiting"]
  /\ UNCHANGED <<limiter, autonomous, clock, counters, cleared, feedback, losses>>

\* Without a limiter the action is scored at once, which replaces the model's risk.
ProposeUnlimited(a) ==
  /\ pc[a] = "reasoning" /\ ~limiter
  /\ \E p \in Proposals :
       /\ proposal' = [proposal EXCEPT ![a] = p]
       /\ risk' = [risk EXCEPT ![a] = Score(p, bias)]
  /\ pc' = [pc EXCEPT ![a] = "proposing"]
  /\ UNCHANGED <<limiter, autonomous, clock, counters, stamp, cleared, feedback, losses>>

\* The Redis pipeline of check_rate_limit: every counter goes up, also those of
\* a check that is then denied.
Count(a) ==
  used' = [k \in Kinds |->
             [used[k] EXCEPT ![Window(k, stamp[a])] = Clamp(@ + 1, Limit[k] + 1)]]

\* Variant of WithinLimits: reading the counters before raising them.
WithinLimitsBefore(a) == \A k \in Kinds : used[k][Window(k, stamp[a])] <= Limit[k]

WithinLimits(a) == \A k \in Kinds : used'[k][Window(k, stamp[a])] <= Limit[k]

\* Variant of Admit: the model's own risk stands when it gave one.
AdmitOwnRisk(a) ==
  /\ pc[a] = "limiting"
  /\ Count(a) /\ WithinLimits(a)
  /\ admitted' = [k \in Kinds |-> [admitted[k] EXCEPT ![Window(k, stamp[a])] = @ + 1]]
  /\ pc' = [pc EXCEPT ![a] = "proposing"]
  /\ UNCHANGED <<limiter, autonomous, clock, proposal, risk, stamp, cleared, feedback,
                 losses>>

Admit(a) ==
  /\ pc[a] = "limiting"
  /\ Count(a) /\ WithinLimits(a)
  /\ admitted' = [k \in Kinds |-> [admitted[k] EXCEPT ![Window(k, stamp[a])] = @ + 1]]
  /\ risk' = [risk EXCEPT ![a] = Score(proposal[a], bias)]
  /\ pc' = [pc EXCEPT ![a] = "proposing"]
  /\ UNCHANGED <<limiter, autonomous, clock, proposal, stamp, cleared, feedback, losses>>

Deny(a) ==
  /\ pc[a] = "limiting"
  /\ Count(a) /\ ~WithinLimits(a)
  /\ Finish(a)
  /\ UNCHANGED <<limiter, autonomous, clock, admitted, feedback, losses>>

\* Redis failed or timed out, before or after the pipeline ran: the check denies.
LimiterFails(a) ==
  /\ pc[a] = "limiting"
  /\ Count(a) \/ UNCHANGED used
  /\ Finish(a)
  /\ UNCHANGED <<limiter, autonomous, clock, admitted, feedback, losses>>

\* "agent.action.proposed" is written; then the risk and the flag decide.
AuditProposed(a) ==
  /\ pc[a] = "proposing"
  /\ \/ /\ risk[a] >= GateAt /\ ~autonomous
        /\ pc' = [pc EXCEPT ![a] = "gated"]
        /\ UNCHANGED cleared
     \/ /\ risk[a] >= GateAt /\ autonomous
        /\ pc' = [pc EXCEPT ![a] = "acting"]
        /\ cleared' = [cleared EXCEPT ![a] = "autonomous"]
     \/ /\ risk[a] < GateAt
        /\ pc' = [pc EXCEPT ![a] = "acting"]
        /\ cleared' = [cleared EXCEPT ![a] = "low"]
  /\ UNCHANGED <<limiter, autonomous, clock, counters, proposal, risk, stamp, feedback,
                 losses>>

\* submit_for_approval came back with the request approved meanwhile.
Approved(a) ==
  /\ pc[a] = "gated"
  /\ pc' = [pc EXCEPT ![a] = "acting"]
  /\ cleared' = [cleared EXCEPT ![a] = "human"]
  /\ UNCHANGED <<limiter, autonomous, clock, counters, proposal, risk, stamp, feedback,
                 losses>>

\* "agent.action.executed" is written and the result returned.
AuditExecuted(a) ==
  /\ pc[a] = "acting"
  /\ Finish(a)
  /\ UNCHANGED <<limiter, autonomous, clock, counters, feedback, losses>>

\* The model or an audit write fails, the scope check denies, or the request
\* comes back from the gateway without approval.
Raise(a) ==
  /\ pc[a] \in {"reasoning", "proposing", "gated", "acting"}
  /\ Finish(a)
  /\ UNCHANGED <<limiter, autonomous, clock, counters, feedback, losses>>

--------------------------------------------------------------------------------
(* The feedback loop and the environment *)

\* A reviewer's decision on a request of this action type, in any pod, as a scrape
\* brings it.  Counts that were missing come back the same way.
Decide ==
  /\ approvals + rejections < MaxDecisions
  /\ \/ approvals' = approvals + 1 /\ UNCHANGED rejections
     \/ rejections' = rejections + 1 /\ UNCHANGED approvals
  /\ UNCHANGED <<limiter, autonomous, clock, counters, runVars, bias, polled, shrunk, losses>>

\* Some of the counts are gone, from this pod's share or another's.
CountsShrink ==
  \E a \in 0..approvals, r \in 0..rejections : approvals' = a /\ rejections' = r

\* A scrape fails, or another pod restarts or is scaled in: the sums are taken over
\* fewer series, or over counters that begin again.  No query fails.
LoseCounts ==
  /\ losses < MaxLosses
  /\ losses' = losses + 1
  /\ CountsShrink
  /\ shrunk' = (polled # None)
  /\ UNCHANGED <<limiter, autonomous, clock, counters, runVars, bias, polled>>

\* _collect_rejection_rates asks Prometheus twice; decisions and losses may fall between.
QueryApprovals ==
  /\ polled = None
  /\ polled' = approvals
  /\ UNCHANGED <<limiter, autonomous, clock, counters, runVars, approvals, rejections, bias,
                 shrunk, losses>>

QueryFails ==
  /\ polled # None
  /\ polled' = None /\ shrunk' = FALSE
  /\ UNCHANGED <<limiter, autonomous, clock, counters, runVars, approvals, rejections, bias,
                 losses>>

\* The second query, and _maybe_adjust, which awaits nothing that is contended.
RejectionRateHigh(total) == 100 * rejections > RejectAbove * total
ApprovalRateHigh(total) == 100 * polled > ApproveAbove * total

\* Variant of AdjustedBias: no rejections to speak of is as good as approvals.
AdjustedBiasDecaying(total) ==
  CASE total < MinSamples -> bias
    [] total >= MinSamples /\ RejectionRateHigh(total) -> Clamp(bias + StepUp, BiasMax)
    [] OTHER -> Clamp(bias - StepDown, BiasMax)

\* Variant of AdjustedBias: min(feedback_bias_max, ...) forgotten.
AdjustedBiasUncapped(total) ==
  CASE total < MinSamples -> bias
    [] total >= MinSamples /\ RejectionRateHigh(total) -> bias + StepUp
    [] total >= MinSamples /\ ~RejectionRateHigh(total) /\ ApprovalRateHigh(total) ->
         Clamp(bias - StepDown, BiasMax)
    [] OTHER -> bias

\* Variant of AdjustedBias: stepping down only while nothing was ever rejected.
AdjustedBiasSticky(total) ==
  CASE total < MinSamples -> bias
    [] total >= MinSamples /\ RejectionRateHigh(total) -> Clamp(bias + StepUp, BiasMax)
    [] total >= MinSamples /\ polled = total -> Clamp(bias - StepDown, BiasMax)
    [] OTHER -> bias

AdjustedBias(total) ==
  CASE total < MinSamples -> bias
    [] total >= MinSamples /\ RejectionRateHigh(total) -> Clamp(bias + StepUp, BiasMax)
    [] total >= MinSamples /\ ~RejectionRateHigh(total) /\ ApprovalRateHigh(total) ->
         Clamp(bias - StepDown, BiasMax)
    [] OTHER -> bias

Adjust ==
  /\ polled # None
  /\ bias' = AdjustedBias(polled + rejections)
  /\ polled' = None /\ shrunk' = FALSE
  /\ UNCHANGED <<limiter, autonomous, clock, counters, runVars, approvals, rejections,
                 losses>>

SwitchAutonomy ==
  /\ autonomous' = ~autonomous
  /\ UNCHANGED <<limiter, clock, counters, runVars, feedback, losses>>

Tick ==
  /\ clock < MaxTime
  /\ clock' = clock + 1
  /\ UNCHANGED <<limiter, autonomous, counters, runVars, feedback, losses>>

\* The pod restarts: its runs, its bias and its share of the Prometheus counters are
\* gone; the shares of other pods and the counters in Redis are not.
Restart ==
  /\ losses < MaxLosses
  /\ losses' = losses + 1
  /\ pc' = [a \in Workers |-> "idle"]
  /\ proposal' = [a \in Workers |-> SomeProposal]
  /\ risk' = [a \in Workers |-> 0]
  /\ stamp' = [a \in Workers |-> 0]
  /\ cleared' = [a \in Workers |-> "none"]
  /\ CountsShrink
  /\ bias' = 0 /\ polled' = None /\ shrunk' = FALSE
  /\ UNCHANGED <<limiter, autonomous, clock, counters>>

Next ==
  \/ \E a \in Workers :
       \/ Perceive(a) \/ ProposeLimited(a) \/ ProposeUnlimited(a) \/ Admit(a) \/ Deny(a)
       \/ LimiterFails(a) \/ AuditProposed(a) \/ Approved(a) \/ AuditExecuted(a) \/ Raise(a)
  \/ Decide \/ LoseCounts \/ QueryApprovals \/ QueryFails \/ Adjust
  \/ SwitchAutonomy \/ Tick \/ Restart

Spec == Init /\ [][Next]_vars

\* The feedback loop sleeps and runs again, and Prometheus does not fail for ever.
FairSpec == Spec /\ WF_vars(QueryApprovals) /\ SF_vars(Adjust)

--------------------------------------------------------------------------------
(* Properties *)

\* An action runs without a human only if the flag says so or it scores below
\* the threshold on its own merits: neither the model's own risk nor anything
\* the feedback loop learns, in whatever order decisions, queries, restarts and
\* other runs come, lets an action under a threshold it is over by itself.
ActingWasCleared ==
  \A a \in Workers :
    pc[a] = "acting" =>
      /\ cleared[a] # "none"
      /\ cleared[a] = "low" => Score(proposal[a], 0) < GateAt

\* In no window of any kind are more checks let through than its limit, with
\* concurrent workers, late and lost replies, and restarts.
WindowRespected ==
  \A k \in Kinds : \A w \in Windows : admitted[k][w] <= Limit[k]

\* A cycle reads the approvals first and the rejections later, so with decisions in
\* between what it computes is no rate that ever held.  That alone never lowers the
\* bias wrongly: unless counts went missing between the two queries, it comes down
\* only when the approval rate over all counts is over the threshold at that moment.
\* (Counts that go missing in between may well lower it: README, section 5.)
LoweredOnlyIfApproved ==
  [][bias' < bias /\ losses' = losses /\ ~shrunk =>
       100 * approvals > ApproveAbove * (approvals + rejections)]_vars

\* If reviewers approve often enough from some point on, the bias wears off.
\* (The totals are cumulative, so old rejections keep weighing until then; and counts
\* stop going missing at some time, MaxLosses.)
Approving ==
  /\ approvals + rejections >= MinSamples
  /\ 100 * approvals > ApproveAbove * (approvals + rejections)

BiasWearsOff == <>[]Approving => <>[](bias = 0)
================================================================================
