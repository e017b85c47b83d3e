--------------------------- MODULE MCAgentWorker ---------------------------
(* Instances of AgentWorker for TLC. *)
EXTENDS AgentWorker

CONSTANTS a, b   \* callers

\* One operator who waits between commands, with every way a worker can fail.
Patient == [callers |-> {a}, workers |-> {1, 2, 3}, settled |-> TRUE,
            faults |-> {"crash", "hang", "command_killed"}]
\* Two operators at once.
Racing == [callers |-> {a, b}, workers |-> {1, 2}, settled |-> FALSE,
           faults |-> {"slow_start", "command_killed"}]
\* One operator in a hurry, nothing else going wrong.
Hasty == [callers |-> {a}, workers |-> {1, 2}, settled |-> FALSE, faults |-> {}]

PatientAndRacing == {Patient, Racing}
OnlyHasty == {Hasty}
=============================================================================
