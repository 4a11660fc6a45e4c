SPECIFICATION Spec
CONSTANTS
    AddressLength = 2
    WordLength = 3
    L1Head = 2
    Batchers <- MCBatchers
    NoUpdate = NoUpdate
    L1Blocks <- MCL1Blocks
    MaxFailures = 1
    MaxResets = 1
INVARIANT BatcherCaughtUp
PROPERTIES BlockReadWhole ReadsToTheEnd
