SPECIFICATION Spec
CONSTANTS
    ChannelIds = {c1, c2}
    U16Max = 3
    FrameSizes = {1}
    ChannelTimeout = 1
    MaxChannelBankSize = 4
    MaxOrigin = 3
INVARIANTS QueueMatchesMap TimedOutOnlyInFront EmitsWholeChannel
PROPERTY ReadyChannelLeaves
