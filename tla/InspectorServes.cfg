SPECIFICATION MCSpec
CONSTANTS
  a = a
  b = b
  c = c
  s = s
  d = d
  Thread = {t1, t2}
  NoThread = NoThread
  NoChain = "no chain"
  Ref <- MCRef
  Chain <- MCChain
  ExpectedChain = "net"
  Transaction <- AllTransactions
  MaxTransactionBytes = 1
  MaxArtifacts = 2
  Kind <- MCKind
  KindOf <- MCKindOf
  FromOf <- MCFromOf
  ToOf <- MCToOf
  FeedLimit = 1
  Asked = {"node", "snapshot", "graph", "feed", "contribution"}
  MaxHeight = 2
  MaxBlockTxs = 2
  MaxRestores = 1
  MaxReplacements = 1
INVARIANTS
  ViewsMatchHistory
  ViewsAreFresh
  IndexIsSound
  PagesCoverHistory
  OneChainPerView
PROPERTIES
  PresentedHeightNeverFalls
SYMMETRY Symmetry
CHECK_DEADLOCK FALSE
