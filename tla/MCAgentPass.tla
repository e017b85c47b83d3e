----------------------------- MODULE MCAgentPass -----------------------------
(* Instances of AgentPass for TLC. *)
EXTENDS AgentPass

CONSTANTS m1, m2, m3, f1, f2   \* mandates and follow-ups

TwoPasses == [m \in Mandates |-> 2]

AllFaults == {"stop", "crash", "pass_fails", "lost_session"}

\* Two follow-ups under one mandate, and one under two mandates, where
\* everything can go wrong.
TwoNotes == [mandates |-> {m1}, notes |-> {f1, f2}, faults |-> AllFaults]
Retargeted == [mandates |-> {m1, m3}, notes |-> {f1}, faults |-> AllFaults]
\* One mandate for each of two runners, likewise.
BothRunners == [mandates |-> {m1, m2}, notes |-> {}, faults |-> AllFaults]
\* Three mandates, two of one runner, where only a session may be lost.
Steady == [mandates |-> {m1, m2, m3}, notes |-> {}, faults |-> {"lost_session"}]
\* One Claude Code agent.
ClaudeNote == [mandates |-> {m2}, notes |-> {f1}, faults |-> {"lost_session"}]
\* Two mandates of one runner, and passes that fail.
TwoMandates == [mandates |-> {m1, m3}, notes |-> {}, faults |-> {"pass_fails"}]

AllPasses == {TwoNotes, Retargeted, BothRunners, Steady}
OnlyClaude == {ClaudeNote}
OnlyTwoMandates == {TwoMandates}
=============================================================================
