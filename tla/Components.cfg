SPECIFICATION Spec
CONSTANTS
  A = A
  B = B
  C = C
  R = R
  Q = Q
  n1 = n1
  n2 = n2
  s1 = s1
  s2 = s2
  Ref <- MCRef
  Chain = {"net", "other"}
  ExpectedChain = "net"
  Transaction <- MCTransaction
  MaxTransactionBytes = 2
  MaxArtifacts = 2
  Node <- MCNode
  MaxHeight = 2
  MaxBlockTxs = 2
  Submitters <- MCSubmitters
  CommandLine <- MCCommandLine
  Drafts <- MCDrafts
  ProposalBytes = 3
  MaxTries = 2
  MaxBlocks = 3
  MaxRestarts = 1
  Agents = {r1, r2, v}
  Researchers = {r1, r2}
  MaxPending = 2
  Lookback = 2
  MaxClock = 4
  MaxKills = 1
  Teammates <- MCTeammates
  MaxPasses = 2
  BlockSize <- MCBlockSize
  PageSize = 2
  MaxCalls = 5
  Command = {c1, c2}
  Key = {k1, k2, k3}
  PeerKeys = {k3}
  Path = {one, two}
  Settings = {"launch"}
  MaxCommands = 7
  MaxKilled = 1
  MaxLosses = 1
  NodeProcess = "node"
  Queries = {"query"}
  Watchers = {"inspector"}
  BlockIndexes <- MCBlockIndexes
  Base = 2
  MaxStoreKills = 2
  MaxStoreLosses = 2
INVARIANTS
  ExactlyTheValidTransactions
  BlocksFailOnlyDuplicates
  SubmissionsCountOnce
  AssessmentsAreComplete
  DisplaysAreCoherent
  
  OneNetworkPerKey
PROPERTIES
  StoreIsAtomic
CHECK_DEADLOCK FALSE
