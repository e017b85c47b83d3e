SPECIFICATION RosterSpec
CONSTANTS
  w1 = w1
  w2 = w2
  Nothing = Nothing
  Callers = {a, b}
  Names = {ada, bob, cyd}
  Prompts <- AllPrompts
  Commands = {"new", "retarget", "retire", "start", "stop"}
  Cap = 2
  Teams <- OnlyRetargeting
SYMMETRY Symmetry
INVARIANTS
  PassesExclusive
CHECK_DEADLOCK FALSE
