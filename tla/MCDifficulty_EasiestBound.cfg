\* The eras network with a genesis target as small as the ASERT anchor, and
\* timestamps that never go backwards.
CONSTANTS
    PowLimit <- MCErasPowLimit
    PowLimitBits <- MCErasPowLimitBits
    PoWNoRetargeting = FALSE
    TargetTimespan <- MCTargetTimespan
    TargetTimePerBlock <- MCTargetTimePerBlock
    RetargetAdjustmentFactor = 4
    ReduceMinDifficulty = FALSE
    MinDiffReductionTime = 4
    LWMAHeight = 1
    LWMAFixHeight = 5
    LWMAWindow = 3
    ASERTHeight = 7
    ASERTHalfLife = 3
    ASERTAnchorBits <- MCErasAnchorBits
    GenesisTimestamp = 0
    GenesisBits <- MCErasAnchorBits
    SolveTimes <- MCForwardSolveTimes
    MaxHeight = 10
SPECIFICATION Spec
\* The miner stops at MaxHeight; NeverAssertError covers the code's only
\* way of refusing a block.
CHECK_DEADLOCK FALSE
INVARIANT EasiestBoundsChain
