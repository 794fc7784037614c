------------------------------- MODULE MCAgentRun -------------------------------
(* An instance of AgentRun for TLC. *)
EXTENDS AgentRun

Action(kind, reach, listed) ==
  [kind |-> kind, reach |-> reach, count |-> 0, bulk |-> FALSE, data |-> "none",
   records |-> 1, listed |-> listed]

\* Scores 4200, over the threshold; 3950, which a bias of 10 lifts to 4000; and
\* an action out of scope.
MCProposals ==
  {Action("irreversible", "internal", TRUE),
   Action("unknown", "production", TRUE),
   Action("read", "internal", FALSE)}

MCSpan == [minute |-> 1, hour |-> 2]
MCLimit == [minute |-> 1, hour |-> 1]
================================================================================
