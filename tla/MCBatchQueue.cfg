SPECIFICATION Spec
CONSTANTS
    MaxL1 = 4
    BlockTime = 1
    SeqWindow = 2
    MaxDrift = 1
    U64Max = 31
    StartEpochs = {1, 2}
    MaxBatches = 3
    MaxResets = 1
    L1Timestamp <- MCL1Timestamp
    Batches <- MCBatches
INVARIANTS WindowAligned BatchFitsAttributes ForcedAfterWindow
PROPERTY EpochsAdvance
