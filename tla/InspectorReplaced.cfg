SPECIFICATION Spec
CONSTANTS
  a = a
  b = b
  c = c
  s = s
  d = d
  Thread = {t1, t2}
  NoThread = NoThread
  NoChain = "no chain"
  Ref <- OwnRef
  Chain <- MCChain
  ExpectedChain = "net"
  Transaction <- OwnTransactions
  MaxTransactionBytes = 1
  MaxArtifacts = 2
  Kind <- MCKind
  KindOf <- MCKindOf
  FromOf <- MCFromOf
  ToOf <- MCToOf
  FeedLimit = 1
  Asked = {"snapshot"}
  MaxHeight = 2
  MaxBlockTxs = 1
  MaxRestores = 0
  MaxReplacements = 1
INVARIANTS
  ReplacedLedgerIsNoticed
CHECK_DEADLOCK FALSE
