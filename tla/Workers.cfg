SPECIFICATION Spec
CONSTANTS
  a = a
  b = b
  Callers = {a, b}
  Workers = {1, 2, 3}
  Commands = {"start", "stop", "status", "wait"}
  OneShot = {}
  Settings <- PatientAndRacing
  None = None
INVARIANTS
  MutualExclusion
  OneTurn
  SettledOperatorIsTold
