SPECIFICATION Spec
CONSTANTS
  a = a
  b = b
  c = c
  None = None
  Failed = Failed
  L1Head = 1
  L2Head = 4
  Txs <- MCTxs
  Receipts <- MCReceipts
  Account = {a, b}
  Writes <- MCWrites
  Destroys <- MCDestroys
  Reads <- MCReads
  Commitment = {c}
  BlobHash = {0}
  NoBankHash = {3}
  Calls <- MCCalls
  MaxCalls = 5
  CacheSize = 2
  MaxTries = 2
  MaxFailures = 1
  Missing <- MCMissing
  ProactiveHints = {"l2-block-time"}
INVARIANTS
  PipesInSync
  HintsSuffice
PROPERTIES
  AccountsCurrent
  OracleServed
