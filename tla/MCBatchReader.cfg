SPECIFICATION Spec
CONSTANTS
  ByteBits = 2
  MaxCode = 4
  FastBits = 2
  LENGTH_BASE <- MC_LENGTH_BASE
  LENGTH_EXTRA <- MC_LENGTH_EXTRA
  DIST_BASE <- MC_DIST_BASE
  DIST_EXTRA <- MC_DIST_EXTRA
  STATIC_LITLEN <- MC_STATIC_LITLEN
  STATIC_DIST <- MC_STATIC_DIST
  LitlenMax = 7
  DistMax = 5
  SizeBits <- MC_SizeBits
  MIN_TABLE_SIZES <- MC_MIN_TABLE_SIZES
  HufflenBits = 2
  HUFFMAN_LENGTH_ORDER <- MC_HUFFMAN_LENGTH_ORDER
  RepeatExtra <- MC_RepeatExtra
  RepeatBase <- MC_RepeatBase
  FastOut = 12
  FastIn = 14
  HeaderMod = 3
  Method = 1
  MethodMod = 2
  DictBit = 1
  MaxWindow = 16
  WindowOf <- MC_WindowOf
  AdlerMod = 13
  AdlerBase = 16
  X86 = TRUE
  DictSize = 16
  Streams <- StreamsMC
  After <- After_MC
  Chunks = {1, 6, 40}
  Rooms = {5, 60}
  Channels <- ChannelsMC
  MaxRlpBytesPerChannel = 200
  ReservedMethod = 3
  U8Bits = 2
  MAX_SPAN_BATCH_ELEMENTS = 7
  BlockTime = 2
  GenesisTime = 3
  ChainId = 5
  StartTimes <- MCStartTimes
  FirstEpochs <- MCFirstEpochs
  TxLists <- MCTxLists
  MaxBlocks = 4
INVARIANTS
  BatchesRead
CHECK_DEADLOCK FALSE
