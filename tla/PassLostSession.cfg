SPECIFICATION Spec
CONSTANTS
  m1 = m1
  m2 = m2
  m3 = m3
  f1 = f1
  f2 = f2
  None = None
  Mandates = {m1, m2, m3}
  Claude = {m2}
  OneShot = {m3}
  Limit <- TwoPasses
  FollowUps = {f1, f2}
  Settings <- OnlyClaude
  MaxConversations = 2
  MaxReports = 2
INVARIANTS
  HandledWasHeard
CHECK_DEADLOCK FALSE
