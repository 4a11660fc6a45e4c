SPECIFICATION Spec
CONSTANTS
  None = None
  MaxU64 = 120
  ByteBase = 11
  AddressBytes = 2
  PubkeyBytes = 3
  U64Bytes = 2
  U128Bytes = 3
  StandardBridgeCallGasLimit = 7
  Info <- MCInfo
  MinimalGasLimit = 5
  ShareDecimal = 2
  Base = 10
  MaxProcessingAge = 2
  LamportsPerSignature = 1
  SlotsPerEpoch = 4
  Nibbles = {0, 1, 2, 3}
  HashLength = 32
  ValueLength <- MCValueLength
  EmptyStringCode = 2
  Addresses <- MCAddresses
  Path <- MCPath
  GenesisHash <- MCGenesisHash
  Leaders <- MCLeaders
  Genesis <- MCGenesis
  Payloads <- MCPayloads
  MaxAttempts = 3
  Losses <- MCLosses
INVARIANTS
  TriesMatchState
  RecentHashesAreLast
PROPERTIES
  StoredAsRequested
  WithdrawalsBacked
  SharesCovered
  LamportsConserved
  NonceUsedOnce
