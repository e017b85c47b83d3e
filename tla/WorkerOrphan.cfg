SPECIFICATION Spec
CONSTANTS
  a = a
  b = b
  Callers = {a}
  Workers = {1, 2}
  Commands = {"start", "stop", "status"}
  OneShot = {1, 2}
  Settings <- OnlyHasty
  None = None
INVARIANTS
  StopMeansStopped
