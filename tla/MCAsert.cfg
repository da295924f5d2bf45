\* ASERT with the era network's anchor, half life and limit.
CONSTANTS
    PowLimit <- MCErasPowLimit
    PowLimitBits <- MCErasPowLimitBits
    PoWNoRetargeting = FALSE
    TargetTimespan <- MCTargetTimespan
    TargetTimePerBlock <- MCTargetTimePerBlock
    RetargetAdjustmentFactor = 4
    ReduceMinDifficulty = FALSE
    MinDiffReductionTime = 4
    LWMAHeight = 1
    LWMAFixHeight = 5
    LWMAWindow = 3
    ASERTHeight = 7
    ASERTHalfLife = 3
    ASERTAnchorBits <- MCErasAnchorBits
    GenesisTimestamp = 0
    GenesisBits <- MCErasGenesisBits
    SolveTimes <- MCSolveTimes
    MaxHeight = 10
SPECIFICATION AsertSpec
INVARIANTS
    AsertFactorShape
    AsertMonotone
