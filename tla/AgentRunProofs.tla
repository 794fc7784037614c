----------------------------- MODULE AgentRunProofs -----------------------------
(***************************************************************************)
(* Theorems about RiskScoring and AgentRun, for any number of workers, any *)
(* proposals, any limits and windows, and any settings of the thresholds.  *)
(***************************************************************************)
EXTENDS AgentRun, TLAPS

--------------------------------------------------------------------------------
(* What the scorer and the flags compute *)

\* A percentage, kept symbolic.
Percent(x) == x \in Int /\ 0 <= x /\ x <= 100

\* Every factor is a percentage.
LEMMA FactorsInRange ==
  ASSUME NEW p \in ProposalSet
  PROVE  /\ Percent(Irreversibility(p)) /\ Percent(ExternalEffect(p))
         /\ Percent(Scale(p)) /\ Percent(Sensitivity(p))
<1>1. Percent(Irreversibility(p))
  BY DEF ProposalSet, Irreversibility, Percent
<1>2. Percent(ExternalEffect(p))
  BY DEF ProposalSet, ExternalEffect, Percent
<1>3. Percent(Sensitivity(p))
  BY DEF ProposalSet, Sensitivity, Percent
<1>4. Percent(Scale(p))
  <2>1. CASE p.count > 0
    <3>1. /\ (IF p.count >= 10 THEN 30 ELSE 0) \in {0, 30}
          /\ (IF p.count >= 100 THEN 30 ELSE 0) \in {0, 30}
          /\ (IF p.count >= 1000 THEN 30 ELSE 0) \in {0, 30}
      OBVIOUS
    <3>. QED  BY <2>1, <3>1 DEF Scale, Percent
  <2>2. CASE ~(p.count > 0)
    BY <2>2 DEF Scale, Percent
  <2>. QED  BY <2>1, <2>2
<1>. QED
  BY <1>1, <1>2, <1>3, <1>4

\* A clamped value lies in its range, and clamping keeps the order.
LEMMA ClampInRange ==
  ASSUME NEW n \in Int, NEW top \in Nat
  PROVE  Clamp(n, top) \in 0..top
  BY DEF Clamp

\* A larger number stays the larger one when both are clamped.
LEMMA ClampMonotone ==
  ASSUME NEW m \in Int, NEW n \in Int, NEW top \in Nat, m <= n
  PROVE  Clamp(m, top) <= Clamp(n, top)
  BY DEF Clamp

\* The weights are those of percentages.
LEMMA Weighted ==
  ASSUME NEW i, NEW e, NEW s, NEW d, NEW r,
         Percent(i), Percent(e), Percent(s), Percent(d), Percent(r)
  PROVE  /\ 35 * i + 25 * e + 20 * s + 15 * d + 5 * r \in Int
         /\ 0 <= 35 * i + 25 * e + 20 * s + 15 * d + 5 * r
         /\ 35 * i + 25 * e + 20 * s + 15 * d + 5 * r <= 10000
  BY DEF Percent

\* The weights add up to 100, so a weighted sum of factors is at most 1.0.
LEMMA RawScoreInRange ==
  ASSUME NEW p \in ProposalSet, NEW b \in Nat
  PROVE  RawScore(p, b) \in Int /\ 0 <= RawScore(p, b) /\ RawScore(p, b) <= One
<1>1. /\ Percent(Irreversibility(p)) /\ Percent(ExternalEffect(p))
      /\ Percent(Scale(p)) /\ Percent(Sensitivity(p))
  BY FactorsInRange, Zenon
<1>2. Percent(Clamp(b, 100))
  BY DEF Clamp, Percent
<1>. QED
  BY <1>1, <1>2, Weighted DEF RawScore, One

\* The weights add up to one: whatever is proposed and learned, the sum that
\* RiskScorer.score clamps is already between 0 and 1.
THEOREM ScoreInRange ==
  ASSUME NEW p \in ProposalSet, NEW b \in Nat
  PROVE  Score(p, b) \in 0..One /\ Score(p, b) = RawScore(p, b)
<1> DEFINE n == RawScore(p, b)
<1>1. n \in Int /\ 0 <= n /\ n <= One
  BY RawScoreInRange
<1>2. One \in Nat
  BY DEF One
<1> HIDE DEF n
<1>3. Clamp(n, One) = n /\ n \in 0..One
  BY <1>1, <1>2 DEF Clamp
<1>. QED
  BY <1>3 DEF Score, n

\* What the feedback loop learns never makes an action look less risky, and can
\* add five points of a hundred at most: the bias enters RiskScorer.score as a
\* rejection rate, clamped and weighted.
THEOREM BiasBounded ==
  ASSUME NEW p \in ProposalSet, NEW b \in Nat, NEW c \in Nat, b <= c
  PROVE  /\ Score(p, b) <= Score(p, c)
         /\ Score(p, c) <= Score(p, 0) + 500
<1>1. /\ Score(p, b) = RawScore(p, b)
      /\ Score(p, c) = RawScore(p, c)
      /\ Score(p, 0) = RawScore(p, 0)
  BY ScoreInRange
<1>2. /\ Percent(Clamp(b, 100)) /\ Percent(Clamp(c, 100))
      /\ Clamp(b, 100) <= Clamp(c, 100)
      /\ Clamp(0, 100) = 0
  BY DEF Clamp, Percent
<1>3. /\ RawScore(p, b) <= RawScore(p, c)
      /\ RawScore(p, c) <= RawScore(p, 0) + 500
  <2> DEFINE base == 35 * Irreversibility(p) + 25 * ExternalEffect(p) + 20 * Scale(p)
                       + 15 * Sensitivity(p)
  <2>1. base \in Int
    <3>1. /\ Percent(Irreversibility(p)) /\ Percent(ExternalEffect(p))
          /\ Percent(Scale(p)) /\ Percent(Sensitivity(p))
      BY FactorsInRange, Zenon
    <3>. QED  BY <3>1 DEF Percent
  <2>2. \A n \in Nat : RawScore(p, n) = base + 5 * Clamp(n, 100)
    BY DEF RawScore
  <2> HIDE DEF base
  <2>. QED
    BY <1>2, <2>1, <2>2 DEF Percent
<1>. QED
  BY <1>1, <1>3

\* get_autonomy_level never grants a level whose flag is off or whose condition
\* on the action does not hold, and grants none that is less permissive than
\* another one it could grant.
THEOREM AutonomyJustified ==
  ASSUME NEW flags, NEW sdkLoads \in BOOLEAN, NEW risk0 \in Nat,
         NEW isTest \in BOOLEAN, NEW isRead \in BOOLEAN,
         AutonomyLevel(flags, sdkLoads, risk0, isTest, isRead) # "NONE"
  PROVE  \E i \in 1..5 :
           /\ AutonomyLevel(flags, sdkLoads, risk0, isTest, isRead) = Levels[i]
           /\ sdkLoads
           /\ Levels[i] \in flags
           /\ Eligible(Levels[i], risk0, isTest, isRead)
           /\ \A j \in 1..(i - 1) : ~(/\ Levels[j] \in flags
                                      /\ Eligible(Levels[j], risk0, isTest, isRead))
<1> DEFINE granted == Granted(flags, risk0, isTest, isRead)
<1>1. sdkLoads /\ granted # {}
  BY DEF AutonomyLevel
<1>2. granted \subseteq 1..5
  BY DEF Granted
<1>3. \E i \in granted : \A j \in granted : i <= j
  <2>1. PICK n \in granted : TRUE
    BY <1>1
  <2> HIDE DEF granted
  <2>2. n \in 1..5
    BY <1>2, <2>1
  <2>3. CASE 1 \in granted  BY <2>3, <1>2
  <2>4. CASE 1 \notin granted /\ 2 \in granted  BY <2>4, <1>2
  <2>5. CASE 1 \notin granted /\ 2 \notin granted /\ 3 \in granted  BY <2>5, <1>2
  <2>6. CASE 1 \notin granted /\ 2 \notin granted /\ 3 \notin granted /\ 4 \in granted
    BY <2>6, <1>2
  <2>7. CASE granted = {5}
    BY <2>7
  <2>. QED
    BY <1>2, <2>1, <2>2, <2>3, <2>4, <2>5, <2>6, <2>7
<1> DEFINE i == CHOOSE n \in granted : \A j \in granted : n <= j
<1>4. i \in granted /\ \A j \in granted : i <= j
  BY <1>3, Zenon
<1>5. AutonomyLevel(flags, sdkLoads, risk0, isTest, isRead) = Levels[i]
  BY <1>1, Zenon DEF AutonomyLevel
<1>6. i \in 1..5 /\ Levels[i] \in flags /\ Eligible(Levels[i], risk0, isTest, isRead)
  BY <1>4, Zenon DEF Granted
<1>7. ASSUME NEW j \in 1..(i - 1)
      PROVE  ~(Levels[j] \in flags /\ Eligible(Levels[j], risk0, isTest, isRead))
  <2> HIDE DEF granted, i
  <2>1. j \in 1..5 /\ ~(i <= j)
    BY <1>6
  <2>2. j \notin granted
    BY <1>4, <2>1
  <2>. QED
    BY <2>1, <2>2 DEF granted, Granted
<1> HIDE DEF granted, i
<1>. QED
  BY <1>1, <1>5, <1>6, <1>7
--------------------------------------------------------------------------------
(* Type correctness of AgentRun *)

\* What the proofs use of the settings.
LEMMA Settings ==
  /\ \A k \in Kinds : Limit[k] \in Nat
  /\ GateAt \in Nat /\ MinSamples \in Nat /\ RejectAbove \in Nat /\ ApproveAbove \in Nat
  /\ StepUp \in Nat /\ StepDown \in Nat /\ BiasMax \in Nat
  /\ MaxTime \in Nat /\ MaxDecisions \in Nat /\ MaxLosses \in Nat
  BY AgentAssumption

\* A score, the model's own or the computed one, and a proposal fit their variables.
LEMMA ProposalTypes ==
  /\ SomeProposal \in Proposals
  /\ \A p \in Proposals, b \in 0..BiasMax : Score(p, b) \in 0..One
  /\ \A o \in OwnRisks : o \in 0..One
  /\ 0 \in 0..One
<1>1. SomeProposal \in Proposals
  BY AgentAssumption, Zenon DEF SomeProposal
<1>2. \A p \in Proposals : p \in ProposalSet
  BY AgentAssumption
<1>3. \A b \in 0..BiasMax : b \in Nat
  BY Settings
<1>4. \A p \in Proposals, b \in 0..BiasMax : Score(p, b) \in 0..One
  BY <1>2, <1>3, ScoreInRange, Zenon
<1>5. \A o \in OwnRisks : o \in 0..One
  BY AgentAssumption
<1>6. 0 \in 0..One
  BY DEF One
<1>. QED
  BY <1>1, <1>4, <1>5, <1>6

\* The variables of the runs, of the limiter, and of the feedback loop.
RunsOK ==
  /\ pc \in [Workers -> {"idle", "reasoning", "limiting", "proposing", "gated", "acting"}]
  /\ proposal \in [Workers -> Proposals]
  /\ risk \in [Workers -> 0..One]
  /\ stamp \in [Workers -> 0..MaxTime]
  /\ cleared \in [Workers -> {"none", "low", "autonomous", "human"}]

LimiterOK ==
  /\ clock \in 0..MaxTime
  /\ \A k \in Kinds : used[k] \in [Windows -> 0..(Limit[k] + 1)]
  /\ \A k \in Kinds : admitted[k] \in [Windows -> Nat]

FeedbackOK ==
  /\ approvals \in 0..MaxDecisions /\ rejections \in 0..MaxDecisions
  /\ bias \in 0..BiasMax
  /\ polled \in {None} \cup 0..MaxDecisions
  /\ shrunk \in BOOLEAN
  /\ losses \in 0..MaxLosses

FlagsOK == limiter \in BOOLEAN /\ autonomous \in BOOLEAN

\* The type invariant in four parts, each with its own variables.
LEMMA TypeParts == TypeOK <=> RunsOK /\ LimiterOK /\ FeedbackOK /\ FlagsOK
  BY Zenon DEF TypeOK, RunsOK, LimiterOK, FeedbackOK, FlagsOK

\* Init gives every variable a value of its type.
LEMMA InitType == Init => TypeOK
<1> SUFFICES ASSUME Init PROVE TypeOK
  OBVIOUS
<1>1. RunsOK
  BY Settings, ProposalTypes DEF Init, RunsOK
<1>2. LimiterOK
  BY Settings DEF Init, LimiterOK
<1>3. FeedbackOK
  <2>1. shrunk \in BOOLEAN
    BY DEF Init
  <2>2. /\ approvals \in 0..MaxDecisions /\ rejections \in 0..MaxDecisions
        /\ bias \in 0..BiasMax /\ losses \in 0..MaxLosses
        /\ polled \in {None} \cup 0..MaxDecisions
    BY Settings DEF Init, None
  <2>. QED  BY <2>1, <2>2 DEF FeedbackOK
<1>4. FlagsOK
  BY DEF Init, FlagsOK
<1>. QED
  BY <1>1, <1>2, <1>3, <1>4, TypeParts

\* A run that ends leaves its worker in the initial state.
LEMMA FinishType == ASSUME NEW a \in Workers, RunsOK, Finish(a) PROVE RunsOK'
  BY Settings, ProposalTypes DEF RunsOK, Finish

\* Raising the counters keeps them between zero and the first count that is over.
LEMMA CountType ==
  ASSUME NEW a \in Workers, LimiterOK, Count(a) \/ UNCHANGED used
  PROVE  \A k \in Kinds : used'[k] \in [Windows -> 0..(Limit[k] + 1)]
<1>1. CASE Count(a)
  <2>1. ASSUME NEW k \in Kinds
        PROVE  used'[k] \in [Windows -> 0..(Limit[k] + 1)]
    <3>1. Limit[k] + 1 \in Nat
      BY Settings
    <3>2. \A n \in 0..(Limit[k] + 1) : Clamp(n + 1, Limit[k] + 1) \in 0..(Limit[k] + 1)
      BY <3>1 DEF Clamp
    <3>3. used[k] \in [Windows -> 0..(Limit[k] + 1)]
      BY DEF LimiterOK
    <3>4. used'[k] = [used[k] EXCEPT ![Window(k, stamp[a])] =
                        Clamp(used[k][Window(k, stamp[a])] + 1, Limit[k] + 1)]
      BY <1>1 DEF Count
    <3>. QED
      BY <3>2, <3>3, <3>4
  <2>. QED  BY <2>1
<1>2. CASE UNCHANGED used
  BY <1>2 DEF LimiterOK
<1>. QED
  BY <1>1, <1>2

\* No step takes the workers' runs out of their types.
LEMMA NextRuns == TypeOK /\ [Next]_vars => RunsOK'
<1> SUFFICES ASSUME RunsOK, LimiterOK, FeedbackOK, [Next]_vars PROVE RunsOK'
  BY TypeParts
<1>1. ASSUME NEW a \in Workers, Perceive(a) PROVE RunsOK'
  BY <1>1 DEF Perceive, RunsOK
<1>2. ASSUME NEW a \in Workers, ProposeLimited(a) PROVE RunsOK'
  <2>1. PICK p \in Proposals, o \in OwnRisks :
          /\ proposal' = [proposal EXCEPT ![a] = p]
          /\ risk' = [risk EXCEPT ![a] = o]
    BY <1>2 DEF ProposeLimited
  <2>2. o \in 0..One
    BY ProposalTypes
  <2>. QED
    BY <1>2, <2>1, <2>2 DEF ProposeLimited, RunsOK, LimiterOK
<1>3. ASSUME NEW a \in Workers, ProposeUnlimited(a) PROVE RunsOK'
  <2>1. PICK p \in Proposals :
          /\ proposal' = [proposal EXCEPT ![a] = p]
          /\ risk' = [risk EXCEPT ![a] = Score(p, bias)]
    BY <1>3 DEF ProposeUnlimited
  <2>2. Score(p, bias) \in 0..One
    BY ProposalTypes DEF FeedbackOK
  <2>. QED
    BY <1>3, <2>1, <2>2 DEF ProposeUnlimited, RunsOK
<1>4. ASSUME NEW a \in Workers, Admit(a) PROVE RunsOK'
  <2>1. Score(proposal[a], bias) \in 0..One
    BY ProposalTypes DEF FeedbackOK, RunsOK
  <2>. QED
    BY <1>4, <2>1 DEF Admit, RunsOK
<1>5. ASSUME NEW a \in Workers, Deny(a) PROVE RunsOK'
  BY <1>5, FinishType DEF Deny
<1>6. ASSUME NEW a \in Workers, LimiterFails(a) PROVE RunsOK'
  BY <1>6, FinishType DEF LimiterFails
<1>7. ASSUME NEW a \in Workers, AuditProposed(a) PROVE RunsOK'
  BY <1>7 DEF AuditProposed, RunsOK
<1>8. ASSUME NEW a \in Workers, Approved(a) PROVE RunsOK'
  BY <1>8 DEF Approved, RunsOK
<1>9. ASSUME NEW a \in Workers, AuditExecuted(a) \/ Raise(a) PROVE RunsOK'
  BY <1>9, FinishType DEF AuditExecuted, Raise
<1>10. CASE Restart
  BY <1>10, Settings, ProposalTypes DEF Restart, RunsOK
<1>11. CASE UNCHANGED runVars
  BY <1>11 DEF runVars, RunsOK
<1>12. CASE Decide \/ LoseCounts \/ QueryApprovals \/ QueryFails \/ Adjust \/ SwitchAutonomy \/ Tick
            \/ UNCHANGED vars
  BY <1>11, <1>12 DEF Decide, LoseCounts, QueryApprovals, QueryFails, Adjust, SwitchAutonomy, Tick, vars
<1>. QED
  BY <1>1, <1>2, <1>3, <1>4, <1>5, <1>6, <1>7, <1>8, <1>9, <1>10, <1>12 DEF Next

\* No step takes the counters out of their types.
LEMMA NextLimiter == TypeOK /\ [Next]_vars => LimiterOK'
<1> SUFFICES ASSUME RunsOK, LimiterOK, FeedbackOK, [Next]_vars PROVE LimiterOK'
  BY TypeParts
<1>1. ASSUME NEW a \in Workers, Admit(a) PROVE LimiterOK'
  <2>1. \A k \in Kinds : used'[k] \in [Windows -> 0..(Limit[k] + 1)]
    BY <1>1, CountType DEF Admit
  <2>2. ASSUME NEW k \in Kinds PROVE admitted'[k] \in [Windows -> Nat]
    <3>1. admitted'[k] = [admitted[k] EXCEPT ![Window(k, stamp[a])] =
                            admitted[k][Window(k, stamp[a])] + 1]
      BY <1>1 DEF Admit
    <3>2. admitted[k] \in [Windows -> Nat]
      BY DEF LimiterOK
    <3>3. \A n \in Nat : n + 1 \in Nat
      OBVIOUS
    <3> DEFINE win == Window(k, stamp[a])
    <3> HIDE DEF win
    <3>4. admitted'[k] = [admitted[k] EXCEPT ![win] = admitted[k][win] + 1]
      BY <3>1 DEF win
    <3>. QED  BY <3>2, <3>3, <3>4
  <2>. QED
    BY <1>1, <2>1, <2>2 DEF Admit, LimiterOK
<1>2. ASSUME NEW a \in Workers, Deny(a) \/ LimiterFails(a) PROVE LimiterOK'
  <2>1. \A k \in Kinds : used'[k] \in [Windows -> 0..(Limit[k] + 1)]
    BY <1>2, CountType DEF Deny, LimiterFails
  <2>. QED
    BY <1>2, <2>1 DEF Deny, LimiterFails, LimiterOK
<1>3. CASE Tick
  BY <1>3, Settings DEF Tick, LimiterOK, counters
<1>4. CASE UNCHANGED <<clock, counters>>
  BY <1>4 DEF LimiterOK, counters
<1>5. ASSUME NEW a \in Workers,
             \/ Perceive(a) \/ ProposeLimited(a) \/ ProposeUnlimited(a)
             \/ AuditProposed(a) \/ Approved(a) \/ AuditExecuted(a) \/ Raise(a)
      PROVE  LimiterOK'
  BY <1>4, <1>5 DEF Perceive, ProposeLimited, ProposeUnlimited, AuditProposed, Approved,
                    AuditExecuted, Raise
<1>6. CASE Decide \/ LoseCounts \/ QueryApprovals \/ QueryFails \/ Adjust \/ SwitchAutonomy \/ Restart
           \/ UNCHANGED vars
  BY <1>4, <1>6 DEF Decide, LoseCounts, QueryApprovals, QueryFails, Adjust, SwitchAutonomy, Restart, vars
<1>. QED
  BY <1>1, <1>2, <1>3, <1>5, <1>6 DEF Next

\* Whatever the rates are, the bias stays within its bounds.
LEMMA AdjustedType ==
  ASSUME FeedbackOK, NEW total \in Nat
  PROVE  AdjustedBias(total) \in 0..BiasMax
<1>1. bias \in 0..BiasMax /\ bias \in Int
  BY Settings DEF FeedbackOK
<1>2. /\ Clamp(bias + StepUp, BiasMax) \in 0..BiasMax
      /\ Clamp(bias - StepDown, BiasMax) \in 0..BiasMax
  BY <1>1, Settings, ClampInRange
<1>. QED
  BY <1>1, <1>2, Zenon DEF AdjustedBias

\* No step takes the feedback loop out of its types; the bias stays up to BiasMax.
LEMMA NextFeedback == TypeOK /\ [Next]_vars => FeedbackOK'
<1> SUFFICES ASSUME RunsOK, LimiterOK, FeedbackOK, [Next]_vars PROVE FeedbackOK'
  BY TypeParts
<1>1. CASE Decide
  BY <1>1, Settings DEF Decide, FeedbackOK
<1>2. CASE QueryApprovals \/ QueryFails
  BY <1>2 DEF QueryApprovals, QueryFails, FeedbackOK
<1>3. CASE Adjust
  <2>1. polled + rejections \in Nat
    BY <1>3, Settings DEF Adjust, FeedbackOK
  <2>2. bias' \in 0..BiasMax
    BY <1>3, <2>1, AdjustedType DEF Adjust
  <2>. QED
    BY <1>3, <2>2 DEF Adjust, FeedbackOK
<1>4. CASE LoseCounts \/ Restart
  <2>1. approvals' \in 0..MaxDecisions /\ rejections' \in 0..MaxDecisions
    BY <1>4, Settings DEF LoseCounts, Restart, CountsShrink, FeedbackOK
  <2>2. losses' \in 0..MaxLosses
    BY <1>4, Settings DEF LoseCounts, Restart, FeedbackOK
  <2>3. shrunk' \in BOOLEAN
    BY <1>4, Zenon DEF LoseCounts, Restart
  <2>4. bias' \in 0..BiasMax /\ polled' \in {None} \cup 0..MaxDecisions
    BY <1>4, Settings DEF LoseCounts, Restart, FeedbackOK
  <2>. QED
    BY <2>1, <2>2, <2>3, <2>4 DEF FeedbackOK
<1>5. CASE UNCHANGED <<feedback, losses>>
  BY <1>5 DEF FeedbackOK, feedback
<1>6. ASSUME NEW a \in Workers,
             \/ Perceive(a) \/ ProposeLimited(a) \/ ProposeUnlimited(a) \/ Admit(a)
             \/ Deny(a) \/ LimiterFails(a) \/ AuditProposed(a) \/ Approved(a)
             \/ AuditExecuted(a) \/ Raise(a)
      PROVE  FeedbackOK'
  BY <1>5, <1>6 DEF Perceive, ProposeLimited, ProposeUnlimited, Admit, Deny, LimiterFails,
                    AuditProposed, Approved, AuditExecuted, Raise
<1>7. CASE SwitchAutonomy \/ Tick \/ UNCHANGED vars
  BY <1>5, <1>7 DEF SwitchAutonomy, Tick, vars
<1>. QED
  BY <1>1, <1>2, <1>3, <1>4, <1>6, <1>7 DEF Next

\* No step takes the flags out of their types.
LEMMA NextFlags == TypeOK /\ [Next]_vars => FlagsOK'
<1> SUFFICES ASSUME FlagsOK, [Next]_vars PROVE FlagsOK'
  BY TypeParts
<1>1. CASE UNCHANGED <<limiter, autonomous>>
  BY <1>1 DEF FlagsOK
<1>2. ASSUME NEW a \in Workers,
             \/ Perceive(a) \/ ProposeLimited(a) \/ ProposeUnlimited(a) \/ Admit(a)
             \/ Deny(a) \/ LimiterFails(a) \/ AuditProposed(a) \/ Approved(a)
             \/ AuditExecuted(a) \/ Raise(a)
      PROVE  FlagsOK'
  BY <1>1, <1>2 DEF Perceive, ProposeLimited, ProposeUnlimited, Admit, Deny, LimiterFails,
                    AuditProposed, Approved, AuditExecuted, Raise
<1>3. CASE SwitchAutonomy
  BY <1>3 DEF SwitchAutonomy, FlagsOK
<1>4. CASE Decide \/ LoseCounts \/ QueryApprovals \/ QueryFails \/ Adjust \/ Tick \/ Restart
           \/ UNCHANGED vars
  BY <1>1, <1>4 DEF Decide, LoseCounts, QueryApprovals, QueryFails, Adjust, Tick, Restart, vars
<1>. QED
  BY <1>2, <1>3, <1>4 DEF Next

\* The four parts together.
LEMMA NextType == TypeOK /\ [Next]_vars => TypeOK'
<1> SUFFICES ASSUME TypeOK, [Next]_vars PROVE TypeOK'
  OBVIOUS
<1>1. RunsOK' /\ LimiterOK' /\ FeedbackOK' /\ FlagsOK'
  BY NextRuns, NextLimiter, NextFeedback, NextFlags
<1>2. TypeOK' <=> RunsOK' /\ LimiterOK' /\ FeedbackOK' /\ FlagsOK'
  BY Zenon DEF TypeOK, RunsOK, LimiterOK, FeedbackOK, FlagsOK
<1>. QED
  BY <1>1, <1>2

\* The types hold for any number of workers and any settings: in particular no
\* score leaves 0..1 and no bias leaves 0..feedback_bias_max.
THEOREM TypeCorrect == Spec => []TypeOK
<1>1. Init => TypeOK
  BY InitType
<1>2. TypeOK /\ [Next]_vars => TypeOK'
  BY NextType
<1>. QED
  BY <1>1, <1>2, PTL DEF Spec

--------------------------------------------------------------------------------
(* No action runs under a threshold it is over by itself *)

\* Once scored, a run carries at least the score its action has without any
\* bias, and the reason it may act agrees with the score it carries.
ClearedInv ==
  \A a \in Workers :
    /\ pc[a] \in {"proposing", "gated", "acting"} => Score(proposal[a], 0) <= risk[a]
    /\ pc[a] = "acting" <=> cleared[a] # "none"
    /\ cleared[a] = "low" => risk[a] < GateAt

\* The bias never lowers a score.
LEMMA ScoreAtLeastOwn ==
  ASSUME NEW p \in Proposals, NEW b \in 0..BiasMax
  PROVE  Score(p, 0) <= Score(p, b)
<1>1. p \in ProposalSet /\ b \in Nat /\ 0 \in Nat /\ 0 <= b
  BY AgentAssumption, Settings
<1>. QED
  BY <1>1, BiasBounded

\* Every step keeps the scores and clearances of all workers justified.
LEMMA NextCleared == TypeOK /\ ClearedInv /\ [Next]_vars => ClearedInv'
<1> SUFFICES ASSUME RunsOK, FeedbackOK, ClearedInv, [Next]_vars PROVE ClearedInv'
  BY TypeParts
<1>1. ASSUME NEW a \in Workers, Perceive(a) \/ ProposeLimited(a) PROVE ClearedInv'
  BY <1>1 DEF Perceive, ProposeLimited, ClearedInv, RunsOK
<1>2. ASSUME NEW a \in Workers, Finish(a) PROVE ClearedInv'
  BY <1>2 DEF Finish, ClearedInv, RunsOK
<1>3. ASSUME NEW a \in Workers, ProposeUnlimited(a) PROVE ClearedInv'
  <2>1. PICK p \in Proposals :
          /\ proposal' = [proposal EXCEPT ![a] = p]
          /\ risk' = [risk EXCEPT ![a] = Score(p, bias)]
    BY <1>3 DEF ProposeUnlimited
  <2>2. Score(p, 0) <= Score(p, bias)
    BY ScoreAtLeastOwn DEF FeedbackOK
  <2>. QED
    BY <1>3, <2>1, <2>2 DEF ProposeUnlimited, ClearedInv, RunsOK
<1>4. ASSUME NEW a \in Workers, Admit(a) PROVE ClearedInv'
  <2>1. Score(proposal[a], 0) <= Score(proposal[a], bias)
    BY ScoreAtLeastOwn DEF FeedbackOK, RunsOK
  <2>. QED
    BY <1>4, <2>1 DEF Admit, ClearedInv, RunsOK
<1>5. ASSUME NEW a \in Workers, AuditProposed(a) PROVE ClearedInv'
  BY <1>5 DEF AuditProposed, ClearedInv, RunsOK
<1>6. ASSUME NEW a \in Workers, Approved(a) PROVE ClearedInv'
  BY <1>6 DEF Approved, ClearedInv, RunsOK
<1>7. CASE Restart
  BY <1>7 DEF Restart, ClearedInv
<1>8. CASE UNCHANGED runVars
  BY <1>8 DEF runVars, ClearedInv
<1>9. CASE Decide \/ LoseCounts \/ QueryApprovals \/ QueryFails \/ Adjust \/ SwitchAutonomy \/ Tick
            \/ UNCHANGED vars
  BY <1>8, <1>9 DEF Decide, LoseCounts, QueryApprovals, QueryFails, Adjust, SwitchAutonomy, Tick, vars
<1>. QED
  BY <1>1, <1>2, <1>3, <1>4, <1>5, <1>6, <1>7, <1>9
  DEF Next, Deny, LimiterFails, AuditExecuted, Raise

\* A clearance that was justified with some bias is justified without.
LEMMA ClearedSuffices == TypeOK /\ ClearedInv => ActingWasCleared
<1> SUFFICES ASSUME TypeOK, ClearedInv, NEW a \in Workers, pc[a] = "acting"
             PROVE  /\ cleared[a] # "none"
                    /\ cleared[a] = "low" => Score(proposal[a], 0) < GateAt
  BY DEF ActingWasCleared
<1>1. cleared[a] # "none"
  BY DEF ClearedInv
<1>2. ASSUME cleared[a] = "low" PROVE Score(proposal[a], 0) < GateAt
  <2>1. Score(proposal[a], 0) <= risk[a] /\ risk[a] < GateAt
    BY <1>2 DEF ClearedInv
  <2>2. proposal[a] \in Proposals /\ 0 \in 0..BiasMax /\ risk[a] \in 0..One
    BY Settings DEF TypeOK
  <2>3. Score(proposal[a], 0) \in 0..One
    BY <2>2, ProposalTypes
  <2>4. One \in Nat
    BY DEF One
  <2>. QED
    BY <2>1, <2>2, <2>3, <2>4, Settings
<1>. QED
  BY <1>1, <1>2

\* For any proposals, limits and thresholds, and whatever the model says of its
\* own risk: an action runs without a human or the flag only if it scores below
\* the threshold without any bias.
THEOREM ActingIsCleared == Spec => []ActingWasCleared
<1>1. Init => TypeOK /\ ClearedInv
  <2>1. Init => ClearedInv
    BY DEF Init, ClearedInv
  <2>. QED  BY <2>1, InitType
<1>2. TypeOK /\ ClearedInv /\ [Next]_vars => (TypeOK /\ ClearedInv)'
  BY NextType, NextCleared
<1>3. TypeOK /\ ClearedInv => ActingWasCleared
  BY ClearedSuffices
<1>. QED
  BY <1>1, <1>2, <1>3, PTL DEF Spec

--------------------------------------------------------------------------------
(* The windows of the limiter *)

\* Every check that was let through has raised the counter it was judged by.
WindowInv ==
  \A k \in Kinds : \A w \in Windows :
    admitted[k][w] <= used[k][w] /\ admitted[k][w] <= Limit[k]

\* Raising a counter by one, in the only window it is raised in.
LEMMA CountStep ==
  ASSUME TypeOK, NEW a \in Workers, Count(a), NEW k \in Kinds, NEW w \in Windows
  PROVE  /\ used'[k][w] \in Nat
         /\ used[k][w] <= used'[k][w]
         /\ w = Window(k, stamp[a]) /\ used'[k][w] <= Limit[k] =>
              used'[k][w] = used[k][w] + 1
<1> DEFINE win == Window(k, stamp[a])
<1>1. used[k] \in [Windows -> 0..(Limit[k] + 1)] /\ Limit[k] \in Nat
  BY Settings DEF TypeOK
<1>2. used'[k] = [used[k] EXCEPT ![win] = Clamp(used[k][win] + 1, Limit[k] + 1)]
  BY DEF Count
<1> HIDE DEF win
<1>3. CASE w = win
  BY <1>1, <1>2, <1>3 DEF Clamp
<1>4. CASE w # win
  <2>1. used'[k][w] = used[k][w] /\ used[k][w] \in 0..(Limit[k] + 1)
    BY <1>1, <1>2, <1>4, Zenon
  <2>2. used'[k][w] \in Nat /\ used[k][w] <= used'[k][w]
    BY <1>1, <2>1
  <2>. QED
    BY <1>4, <2>2 DEF win
<1>. QED
  BY <1>3, <1>4 DEF win

\* Every step keeps the admitted checks of a window within its counter and its limit.
LEMMA NextWindow == TypeOK /\ WindowInv /\ [Next]_vars => WindowInv'
<1> SUFFICES ASSUME TypeOK, WindowInv, [Next]_vars PROVE WindowInv'
  OBVIOUS
<1>0. \A k \in Kinds : \A w \in Windows :
        admitted[k][w] \in Nat /\ used[k][w] \in Nat /\ Limit[k] \in Nat
  BY Settings DEF TypeOK
<1>1. ASSUME NEW a \in Workers, Admit(a) PROVE WindowInv'
  <2>1. ASSUME NEW k \in Kinds, NEW w \in Windows
        PROVE  admitted'[k][w] <= used'[k][w] /\ admitted'[k][w] <= Limit[k]
    <3> DEFINE win == Window(k, stamp[a])
    <3>1. /\ used'[k][w] \in Nat /\ used[k][w] <= used'[k][w]
          /\ w = win /\ used'[k][w] <= Limit[k] => used'[k][w] = used[k][w] + 1
      BY <1>1, CountStep DEF Admit
    <3>2. used'[k][win] <= Limit[k]
      BY <1>1 DEF Admit, WithinLimits
    <3>3. /\ admitted'[k] = [admitted[k] EXCEPT ![win] = admitted[k][win] + 1]
          /\ admitted[k] \in [Windows -> Nat]
      BY <1>1 DEF Admit, TypeOK
    <3>4. /\ admitted[k][w] <= used[k][w] /\ admitted[k][w] <= Limit[k]
          /\ admitted[k][w] \in Nat /\ used[k][w] \in Nat /\ Limit[k] \in Nat
      BY <1>0 DEF WindowInv
    <3> HIDE DEF win
    <3>5. CASE w = win
      BY <3>1, <3>2, <3>3, <3>4, <3>5
    <3>6. CASE w # win
      BY <3>1, <3>3, <3>4, <3>6
    <3>. QED  BY <3>5, <3>6
  <2>. QED  BY <2>1 DEF WindowInv
<1>2. ASSUME NEW a \in Workers, Count(a), UNCHANGED admitted PROVE WindowInv'
  <2>1. ASSUME NEW k \in Kinds, NEW w \in Windows
        PROVE  admitted'[k][w] <= used'[k][w] /\ admitted'[k][w] <= Limit[k]
    <3>1. used'[k][w] \in Nat /\ used[k][w] <= used'[k][w]
      BY <1>2, CountStep
    <3>2. /\ admitted[k][w] <= used[k][w] /\ admitted[k][w] <= Limit[k]
          /\ admitted[k][w] \in Nat /\ used[k][w] \in Nat /\ Limit[k] \in Nat
      BY <1>0 DEF WindowInv
    <3>. QED  BY <1>2, <3>1, <3>2
  <2>. QED  BY <2>1 DEF WindowInv
<1>3. CASE UNCHANGED counters
  BY <1>3 DEF WindowInv, counters
<1>4. ASSUME NEW a \in Workers, Deny(a) \/ LimiterFails(a) PROVE WindowInv'
  BY <1>2, <1>3, <1>4 DEF Deny, LimiterFails, counters
<1>5. ASSUME NEW a \in Workers,
             \/ Perceive(a) \/ ProposeLimited(a) \/ ProposeUnlimited(a)
             \/ AuditProposed(a) \/ Approved(a) \/ AuditExecuted(a) \/ Raise(a)
      PROVE  WindowInv'
  BY <1>3, <1>5 DEF Perceive, ProposeLimited, ProposeUnlimited, AuditProposed, Approved,
                    AuditExecuted, Raise
<1>6. CASE Decide \/ LoseCounts \/ QueryApprovals \/ QueryFails \/ Adjust \/ SwitchAutonomy \/ Tick
           \/ Restart \/ UNCHANGED vars
  BY <1>3, <1>6 DEF Decide, LoseCounts, QueryApprovals, QueryFails, Adjust, SwitchAutonomy, Tick,
                    Restart, vars
<1>. QED
  BY <1>1, <1>4, <1>5, <1>6 DEF Next

\* For any number of workers, windows and limits, and wherever Redis fails or
\* pods restart: no window lets more checks through than its limit.
THEOREM WindowsRespected == Spec => []WindowRespected
<1>1. Init => TypeOK /\ WindowInv
  <2>1. Init => WindowInv
    BY Settings DEF Init, WindowInv
  <2>. QED  BY <2>1, InitType
<1>2. TypeOK /\ WindowInv /\ [Next]_vars => (TypeOK /\ WindowInv)'
  BY NextType, NextWindow
<1>3. WindowInv => WindowRespected
  BY DEF WindowInv, WindowRespected
<1>. QED
  BY <1>1, <1>2, <1>3, PTL DEF Spec

--------------------------------------------------------------------------------
(* Decisions between the two queries lower no bias wrongly *)

\* Unless counts went missing since, what a cycle has read of the approvals is not
\* ahead of them.
PolledInv == ~shrunk => polled \in {None} \cup 0..approvals

\* Approvals are only added to, or the flag is raised, or the cycle is over.
LEMMA NextPolled == TypeOK /\ PolledInv /\ [Next]_vars => PolledInv'
<1> SUFFICES ASSUME FeedbackOK, PolledInv, [Next]_vars PROVE PolledInv'
  BY TypeParts
<1>0. approvals \in Nat
  BY Settings DEF FeedbackOK
<1>1. CASE Decide
  BY <1>0, <1>1 DEF Decide, PolledInv, None
<1>2. CASE QueryApprovals
  BY <1>0, <1>2 DEF QueryApprovals, PolledInv
<1>a. CASE LoseCounts
  BY <1>a DEF LoseCounts, PolledInv
<1>3. CASE QueryFails \/ Adjust \/ Restart
  BY <1>3 DEF QueryFails, Adjust, Restart, PolledInv
<1>4. CASE UNCHANGED feedback
  BY <1>4 DEF PolledInv, feedback
<1>5. ASSUME NEW a \in Workers,
             \/ Perceive(a) \/ ProposeLimited(a) \/ ProposeUnlimited(a) \/ Admit(a)
             \/ Deny(a) \/ LimiterFails(a) \/ AuditProposed(a) \/ Approved(a)
             \/ AuditExecuted(a) \/ Raise(a)
      PROVE  PolledInv'
  BY <1>4, <1>5 DEF Perceive, ProposeLimited, ProposeUnlimited, Admit, Deny, LimiterFails,
                    AuditProposed, Approved, AuditExecuted, Raise
<1>6. CASE SwitchAutonomy \/ Tick \/ UNCHANGED vars
  BY <1>4, <1>6 DEF SwitchAutonomy, Tick, vars
<1>. QED
  BY <1>1, <1>2, <1>a, <1>3, <1>5, <1>6 DEF Next

\* More approvals at the same number of rejections only raise the approval rate.
LEMMA RateMonotone ==
  ASSUME NEW m \in Nat, NEW n \in Nat, NEW r \in Nat, NEW t \in Nat,
         m <= n, 100 * m > t * (m + r)
  PROVE  100 * n > t * (n + r)
<1>1. PICK d \in Nat : n = m + d
  <2>1. n - m \in Nat /\ n = m + (n - m)
    OBVIOUS
  <2>. QED  BY <2>1
<1>2. t * (m + r) = t * m + t * r /\ t * (n + r) = t * m + t * d + t * r
  BY <1>1
<1>3. t * m \in Nat /\ t * r \in Nat /\ t * d \in Nat
  BY <1>1
<1>4. t <= 100
  <2>1. SUFFICES ASSUME t >= 101 PROVE FALSE
    OBVIOUS
  <2>2. t * m >= 101 * m
    <3>1. PICK u \in Nat : t = 101 + u
      <4>1. t - 101 \in Nat /\ t = 101 + (t - 101)
        BY <2>1
      <4>. QED  BY <4>1
    <3>2. t * m = 101 * m + u * m /\ u * m \in Nat
      BY <3>1
    <3>. QED  BY <3>2
  <2>. QED
    BY <1>2, <1>3, <2>2
<1>5. t * d <= 100 * d
  <2>1. PICK u \in Nat : 100 = t + u
    <3>1. 100 - t \in Nat /\ 100 = t + (100 - t)
      BY <1>4
    <3>. QED  BY <3>1
  <2>2. 100 * d = t * d + u * d /\ u * d \in Nat
    BY <1>1, <2>1
  <2>. QED  BY <1>3, <2>2
<1>. QED
  BY <1>1, <1>2, <1>3, <1>5

\* A step that lowers the bias is an Adjust after enough approvals.
LEMMA StepLowers ==
  ASSUME TypeOK, PolledInv, [Next]_vars, bias' < bias, losses' = losses, ~shrunk
  PROVE  100 * approvals > ApproveAbove * (approvals + rejections)
<1>0. /\ approvals \in Nat /\ rejections \in Nat /\ bias \in 0..BiasMax
      /\ losses \in Nat /\ BiasMax \in Nat /\ StepUp \in Nat
  BY Settings DEF TypeOK
<1>1. bias' # bias
  BY <1>0
<1>2. Adjust
  <2>1. UNCHANGED bias \/ Adjust \/ Restart
    BY DEF Next, Perceive, ProposeLimited, ProposeUnlimited, Admit, Deny, LimiterFails,
           AuditProposed, Approved, AuditExecuted, Raise, Decide, LoseCounts, QueryApprovals,
           QueryFails, SwitchAutonomy, Tick, vars, feedback
  <2>2. ~Restart
    BY <1>0 DEF Restart
  <2>. QED
    BY <1>1, <2>1, <2>2
<1>3. polled \in 0..approvals
  BY <1>2 DEF Adjust, PolledInv
<1>4. ApprovalRateHigh(polled + rejections)
  <2>1. bias' = AdjustedBias(polled + rejections)
    BY <1>2 DEF Adjust
  <2>2. Clamp(bias + StepUp, BiasMax) >= bias
    BY <1>0 DEF Clamp
  <2>3. ~(Clamp(bias + StepUp, BiasMax) < bias)
    <3>1. Clamp(bias + StepUp, BiasMax) \in 0..BiasMax
      <4>1. bias + StepUp \in Int
        BY <1>0
      <4>. QED  BY <1>0, <4>1, ClampInRange
    <3>2. \A m \in Int, n \in Int : m >= n => ~(m < n)
      OBVIOUS
    <3>. QED  BY <1>0, <2>2, <3>1, <3>2
  <2>4. polled + rejections >= MinSamples <=> ~(polled + rejections < MinSamples)
    BY <1>0, <1>3, Settings
  <2>5. CASE polled + rejections < MinSamples
    BY <1>1, <2>1, <2>4, <2>5, Zenon DEF AdjustedBias
  <2>6. CASE polled + rejections >= MinSamples /\ RejectionRateHigh(polled + rejections)
    <3>1. AdjustedBias(polled + rejections) = Clamp(bias + StepUp, BiasMax)
      BY <2>4, <2>6, Zenon DEF AdjustedBias
    <3>. QED
      BY <2>1, <2>3, <3>1
  <2>7. CASE polled + rejections >= MinSamples /\ ~RejectionRateHigh(polled + rejections)
    BY <1>1, <2>1, <2>4, <2>7, Zenon DEF AdjustedBias
  <2>. QED
    BY <2>4, <2>5, <2>6, <2>7
<1>5. 100 * polled > ApproveAbove * (polled + rejections)
  BY <1>4 DEF ApprovalRateHigh
<1>6. polled \in Nat /\ polled <= approvals
  BY <1>0, <1>3
<1>. QED
  BY <1>0, <1>5, <1>6, RateMonotone, Settings

\* For any thresholds and steps, and wherever decisions fall between the two queries
\* of a cycle, in any pod: unless counts went missing between them, the bias goes
\* down only when the approvals are over their threshold.
THEOREM LoweredOnlyIfApprovedHolds == Spec => LoweredOnlyIfApproved
<1>1. Init => TypeOK /\ PolledInv
  <2>1. Init => PolledInv
    BY DEF Init, PolledInv
  <2>. QED  BY <2>1, InitType
<1>2. TypeOK /\ PolledInv /\ [Next]_vars => (TypeOK /\ PolledInv)'
  BY NextType, NextPolled
<1>3. TypeOK /\ PolledInv /\ [Next]_vars =>
        [bias' < bias /\ losses' = losses /\ ~shrunk =>
           100 * approvals > ApproveAbove * (approvals + rejections)]_vars
  BY StepLowers
<1>. QED
  BY <1>1, <1>2, <1>3, PTL DEF Spec, LoweredOnlyIfApproved

\* A cycle between whose queries no decision fell, while the approvals are over
\* their threshold, takes a step of the bias away: BiasWearsOff needs no more
\* than that such cycles keep coming (feedback_loop.py:172-190).
FreshCycleLowers ==
  [][Approving /\ polled = approvals /\ Adjust =>
       /\ bias' = IF bias > StepDown THEN bias - StepDown ELSE 0
       /\ bias > 0 => bias' < bias]_vars

\* The thresholds exclude each other: approvals over theirs leave the rejections
\* under theirs.
LEMMA ThresholdsExclude ==
  ASSUME NEW a \in Nat, NEW r \in Nat, 100 * a > ApproveAbove * (a + r)
  PROVE  ~(100 * r > RejectAbove * (a + r))
<1> DEFINE t == a + r
<1>1. t \in Nat /\ ApproveAbove \in Nat /\ RejectAbove \in Nat /\ RejectAbove + ApproveAbove >= 100
  BY AgentAssumption
<1>2. PICK d \in Nat : RejectAbove + ApproveAbove = 100 + d
  <2>1. RejectAbove + ApproveAbove - 100 \in Nat
    BY <1>1
  <2>. QED  BY <1>1, <2>1
<1>3. RejectAbove * t + ApproveAbove * t = 100 * t + d * t
  <2>1. ASSUME NEW x \in Nat, NEW y \in Nat, NEW z \in Nat, x + y = 100 + d
        PROVE  x * z + y * z = 100 * z + d * z
    <3>1. (x + y) * z = x * z + y * z /\ (100 + d) * z = 100 * z + d * z
      BY SMT
    <3>. QED  BY <2>1, <3>1
  <2>. QED  BY <1>1, <1>2, <2>1
<1>4. d * t \in Nat /\ RejectAbove * t \in Nat /\ ApproveAbove * t \in Nat
  <2>1. ASSUME NEW x \in Nat, NEW z \in Nat PROVE x * z \in Nat
    BY SMT
  <2>. QED  BY <1>1, <2>1
<1>5. 100 * a > ApproveAbove * t /\ 100 * t = 100 * a + 100 * r
  OBVIOUS
<1>6. RejectAbove * t >= 100 * r
  <2> HIDE DEF t
  <2>. QED  BY <1>1, <1>3, <1>4, <1>5
<1>. QED
  BY <1>4, <1>6

\* Whatever the thresholds and the steps, and whatever else runs meanwhile, a
\* fresh cycle with enough approvals lowers a bias that is not yet zero.
THEOREM FreshCyclesLower == Spec => FreshCycleLowers
<1>1. ASSUME TypeOK, Approving, polled = approvals, Adjust
      PROVE  /\ bias' = IF bias > StepDown THEN bias - StepDown ELSE 0
             /\ bias > 0 => bias' < bias
  <2> DEFINE total == approvals + rejections
  <2>1. /\ approvals \in Nat /\ rejections \in Nat /\ bias \in 0..BiasMax
        /\ BiasMax \in Nat /\ StepDown \in Nat \ {0} /\ MinSamples \in Nat
    BY <1>1, Settings, AgentAssumption DEF TypeOK
  <2>2. total >= MinSamples /\ ~(total < MinSamples)
    BY <1>1, <2>1 DEF Approving
  <2>3. ApprovalRateHigh(total)
    BY <1>1 DEF Approving, ApprovalRateHigh
  <2>4. ~RejectionRateHigh(total)
    BY <1>1, <2>1, ThresholdsExclude DEF Approving, RejectionRateHigh
  <2>5. bias' = AdjustedBias(total)
    BY <1>1 DEF Adjust
  <2> HIDE DEF total
  <2>6. bias' = Clamp(bias - StepDown, BiasMax)
    BY <2>2, <2>3, <2>4, <2>5, Zenon DEF AdjustedBias
  <2>. QED
    BY <2>1, <2>6 DEF Clamp
<1>. QED
  BY <1>1, InitType, NextType, PTL DEF Spec, FreshCycleLowers
================================================================================
