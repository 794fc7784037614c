------------------------------ MODULE RiskScoring ------------------------------
(***************************************************************************)
(* The deterministic part of an agent's oversight: how risky an action is  *)
(* (RiskScorer) and which autonomy level the flags grant it                *)
(* (get_autonomy_level).  Factors, weights and the bias are in hundredths, *)
(* so scores are in ten-thousandths and exact.  Names and parameters are   *)
(* reduced to the class their keywords or tokens put them in.              *)
(***************************************************************************)
EXTENDS Integers, Sequences

CONSTANTS
  LowRiskBelow,      \* autonomy_low_risk_threshold
  MediumRiskUpTo     \* autonomy_medium_risk_threshold

ASSUME ScoringAssumption == LowRiskBelow \in Nat /\ MediumRiskUpTo \in Nat

\* kind:  the first class one of whose keywords the action's name contains;
\* reach: "external" by keyword or parameter, "production" by target_env;
\* count: the first positive number under count, entity_count, ... (0: none);
\* bulk:  a bulk, all or batch parameter is set;
\* data:  the strongest class of masked token among the parameters;
\* records: record_count or affected_count, which only the limiter reads;
\* listed: whether the limiter's configuration allows the action type.
ProposalSet == [kind : {"irreversible", "write", "read", "unknown"},
                reach : {"external", "production", "internal"},
                count : Nat, bulk : BOOLEAN,
                data : {"L1", "L2", "L3", "none"},
                records : Nat, listed : BOOLEAN]

Irreversibility(p) == [irreversible |-> 100, write |-> 70, read |-> 10, unknown |-> 50][p.kind]

ExternalEffect(p) == [external |-> 100, production |-> 80, internal |-> 20][p.reach]

\* The bulk flags are looked at only without a positive count.
Scale(p) ==
  IF p.count > 0
  THEN 10 + (IF p.count >= 10 THEN 30 ELSE 0)
          + (IF p.count >= 100 THEN 30 ELSE 0)
          + (IF p.count >= 1000 THEN 30 ELSE 0)
  ELSE IF p.bulk THEN 80 ELSE 10

Sensitivity(p) == [L1 |-> 100, L2 |-> 60, L3 |-> 30, none |-> 0][p.data]

Clamp(n, top) == IF n < 0 THEN 0 ELSE IF n > top THEN top ELSE n

RawScore(p, bias) ==
  35 * Irreversibility(p) + 25 * ExternalEffect(p) + 20 * Scale(p)
    + 15 * Sensitivity(p) + 5 * Clamp(bias, 100)

One == 10000   \* a score of 1.0

Score(p, bias) == Clamp(RawScore(p, bias), One)

--------------------------------------------------------------------------------
(* Autonomy levels.  A flag that cannot be read counts as off; an SDK that *)
(* cannot be loaded grants nothing.                                        *)

\* From the most to the least permissive, the order they are tried in.
Levels == <<"FULL", "MEDIUM_RISK", "LOW_RISK", "TESTS_ONLY", "READ_ONLY">>

\* What a level demands of the action, apart from its flag.
Eligible(level, risk, isTest, isRead) ==
  /\ level = "MEDIUM_RISK" => risk <= MediumRiskUpTo
  /\ level = "LOW_RISK" => risk < LowRiskBelow
  /\ level = "TESTS_ONLY" => isTest
  /\ level = "READ_ONLY" => isRead

Granted(flags, risk, isTest, isRead) ==
  {i \in 1..5 : Levels[i] \in flags /\ Eligible(Levels[i], risk, isTest, isRead)}

\* get_autonomy_level: the first level that is enabled and applies.
AutonomyLevel(flags, sdkLoads, risk, isTest, isRead) ==
  LET granted == Granted(flags, risk, isTest, isRead)
  IN IF sdkLoads /\ granted # {}
     THEN Levels[CHOOSE i \in granted : \A j \in granted : i <= j]
     ELSE "NONE"
================================================================================
