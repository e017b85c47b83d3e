SPECIFICATION Spec
CONSTANTS
  Thread = {t1, t2}
  NoThread = NoThread
  a = a
  b = b
  f = f
  None = None
INVARIANTS
  TypeOK
PROPERTIES
  DecidedBlocksBecomeDurable
  InspectorRecovers
  WorkersEnd
  FollowUpsHandled
  RunsGetAssessed
  MempoolDrains
CHECK_DEADLOCK FALSE
