\* Functions in both tiers.
SPECIFICATION FairSpec
CONSTANTS
    StackLimit = 40960
    MaxArguments = 3
    Blocks <- MCBlocks
INVARIANTS
    TiersAskTheSame
    TiersHoldTheSame
    CallerIsRestored
PROPERTY EveryCallEnds
