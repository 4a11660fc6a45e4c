SPECIFICATION Spec
CONSTANTS
    AddressSpace = 16
    AliasOffset = 7
    Portal = 1
    Messenger = 12
    StandardBridge = 3
    SystemConfigAddress = 4
    U128Max = 3
    U64Max = 3
    Nibbles <- MCNibbles
    HashLength = 4
    ValueLength <- MCValueLength
    EmptyStringCode = 2
    Provider = "online"
    MaxL1 = 2
    L1Receipts <- MCL1Receipts
    Batchers <- MCBatchers
    AddressLength = 2
    WordLength = 3
    BlockTime = 1
    MaxBlocks = 4
    MaxFailures = 2
INVARIANTS DepositsOnce SourcesDistinct ConfigReadBack
PROPERTIES ChainGrows
