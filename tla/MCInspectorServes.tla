------------------------- MODULE MCInspectorServes -------------------------
(***************************************************************************)
(* Three small instances of Inspector in one run, chosen by the initial    *)
(* state.                                                                  *)
(***************************************************************************)
EXTENDS MCInspector

\* What happens in a behaviour: the operations clients ask for, the committed
\* transactions, and the bounds on a block, restores and replacements.
VARIABLE scenario

Views == [asked |-> {"graph", "contribution"}, refs |-> {a, b, s}, transactions |-> {Root, Reply},
          blockTxs |-> 1, restores |-> 1, replacements |-> 0]
Paging == [asked |-> {"feed"}, refs |-> {}, transactions |-> {Root, Reply, Aside},
           blockTxs |-> 2, restores |-> 0, replacements |-> 0]
Networks == [asked |-> {"node", "snapshot"}, refs |-> {}, transactions |-> {Root, Foreign},
             blockTxs |-> 1, restores |-> 0, replacements |-> 1]

WithinScenario ==
  /\ restores <= scenario.restores /\ replacements <= scenario.replacements
  /\ \A i \in DOMAIN history.ledger :
        /\ history.ledger[i].tx \in scenario.transactions
        /\ history.ledger[i].index < scenario.blockTxs
  /\ \A t \in Thread : request[t].phase # "idle" =>
        /\ request[t].op \in scenario.asked
        /\ request[t].op = "contribution" => request[t].ref \in scenario.refs

MCInit == Init /\ scenario \in {Views, Paging, Networks}
MCNext == Next /\ UNCHANGED scenario /\ WithinScenario'
MCSpec == MCInit /\ [][MCNext]_<<vars, scenario>>
=============================================================================
