SPECIFICATION MCSpec
CONSTANTS
  a = a
  b = b
  c = c
  r = r
  q = q
  Node = {n1, n2}
  Ref <- MCRef
  Chain <- MCChain
  ExpectedChain = "net"
  Transaction <- CrashTransactions
  MaxTransactionBytes = 1
  MaxArtifacts = 2
  MaxHeight = 2
  MaxBlockTxs = 2
  MaxFaults = 2
INVARIANTS
  StoredLedgerReloads
  MemoryTracksDisk
  BlocksGoThrough
  ReportedHeightIsDurable
  ReportedHashWasAnswered
  GraphIsSound
  NoFork
PROPERTIES
  ImplementsReplicatedLedger
SYMMETRY Symmetry
CHECK_DEADLOCK FALSE
