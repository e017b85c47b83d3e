------------------------------- MODULE MCTeam -------------------------------
(***************************************************************************)
(* The files of a research team for TLC: a behaviour is about the passes   *)
(* of one agent or about the roster, and only that part moves.             *)
(***************************************************************************)
EXTENDS MCAgentPass, MCAgentRoster

VARIABLE part

TeamInit ==
  /\ part \in {"pass", "roster"}
  /\ Init /\ RosterInit
  \* The part that rests is in one fixed state.
  /\ part = "roster" => setting = Steady /\ mandate = m1
  /\ part = "pass" => team = Sequential

TeamNext ==
  /\ UNCHANGED part
  /\ \/ part = "pass" /\ Next /\ UNCHANGED rosterVars
     \/ part = "roster" /\ RosterNext /\ UNCHANGED vars

TeamSpec == TeamInit /\ [][TeamNext]_<<part, vars, rosterVars>>
=============================================================================
