SPECIFICATION TeamSpec
CONSTANTS
  m1 = m1
  m2 = m2
  m3 = m3
  f1 = f1
  f2 = f2
  None = None
  Mandates = {m1, m2, m3}
  Claude = {m2}
  OneShot = {m3}
  Limit <- TwoPasses
  FollowUps = {f1, f2}
  Settings <- AllPasses
  MaxConversations = 2
  MaxReports = 3
  w1 = w1
  w2 = w2
  Nothing = Nothing
  Callers = {a, b}
  Names = {ada, bob, cyd}
  Prompts <- AllPrompts
  Commands = {"new", "retarget", "retire", "start", "stop"}
  Cap = 2
  Teams <- DyingRacingSequential
SYMMETRY Symmetry
INVARIANTS
  MandateHeard
  FollowUpsKept
  FollowUpsReachTheAgent
  LimitRespected
  RecordsAgree
  PromptsPreserved
  RosterIsSound
  
CHECK_DEADLOCK FALSE
