SPECIFICATION Spec
CONSTANTS
  MaxL1 = 4
  L1Timestamp <- MCL1Timestamp
  BlockTime = 1
  SeqWindow = 2
  MaxDrift = 2
  U64Max = 31
  ChannelIds = {"a", "b"}
  U16Max = 3
  FrameSizes = {1, 2}
  ChannelTimeout = 1
  ChannelSize = 2
  Safe <- MCSafe
  FrameLists <- MCFrameLists
  Singles <- MCSingles
  Spans <- MCSpans
  MaxBatches = 3
  MaxChain = 4
  MaxSignals = 1
INVARIANTS
  NothingAfterDrop
  AssembledInTime
  ValidatorOnTrack
CHECK_DEADLOCK FALSE
