--------------------------- MODULE MCAgentRoster ---------------------------
(* Instances of AgentRoster for TLC. *)
EXTENDS AgentRoster, TLC

CONSTANTS w1, w2

Prompt(folder, role, mode) == [workspace |-> folder, role |-> role, mode |-> mode]

TwoFolders == {Prompt(w1, "researcher", "continuous"), Prompt(w2, "researcher", "oneshot")}
OneShots == {Prompt(w1, "researcher", "oneshot"), Prompt(w2, "researcher", "oneshot")}
Assessors == OneShots \cup {Prompt(w1, "impact-assessor", "oneshot"),
                              Prompt(w2, "impact-assessor", "oneshot")}
AllPrompts == TwoFolders \cup Assessors

\* Two commands at once on two names, dying anywhere.
Dying == [commands |-> {"new", "retarget", "retire"}, prompts |-> OneShots, callers |-> 2,
          names |-> 2, crashes |-> TRUE, fragile |-> {w2}]
\* Two commands at once on three names with both roles, and a cap of two.
Racing == [commands |-> {"new", "retarget"}, prompts |-> Assessors, callers |-> 2, names |-> 3,
           crashes |-> FALSE, fragile |-> {w1}]
\* One command at a time beside workers, without and with retarget.
Sequential == [commands |-> {"new", "retire", "start", "stop"}, prompts |-> TwoFolders,
               callers |-> 1, names |-> 2, crashes |-> FALSE, fragile |-> {w1, w2}]
Retargeting == [Sequential EXCEPT !.commands = {"new", "retarget", "start"}]

DyingRacingSequential == {Dying, Racing, Sequential}
OnlyRetargeting == {Retargeting}

\* Callers and names are interchangeable.
Symmetry == Permutations(Callers) \cup Permutations(Names)
=============================================================================
