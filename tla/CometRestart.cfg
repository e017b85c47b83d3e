SPECIFICATION CometRestartSpec
CONSTANTS
  a = a
  b = b
  c = c
  r = r
  q = q
  Node = {n1}
  Ref <- MCRef
  Chain <- MCChain
  ExpectedChain = "net"
  Transaction <- LivenessTransactions
  MaxTransactionBytes = 1
  MaxArtifacts = 2
  MaxHeight = 2
  MaxBlockTxs = 1
  MaxFaults = 1
PROPERTIES
  CometRestartReconnects
CHECK_DEADLOCK FALSE
