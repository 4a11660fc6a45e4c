SPECIFICATION Spec
CONSTANTS
    ChannelTimeout = 1
    L1Start = 1
    L1Head = 8
    L2Start = 5
    MaxPerBlock = 2
    MaxResets = 1
    Targets <- MCTargets
INVARIANTS TipIsLastBuilt PayloadOnTip ReorgAnchored
PROPERTY Returns
