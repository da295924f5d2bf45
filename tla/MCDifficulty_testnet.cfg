\* The original retarget with the testnet minimum-difficulty rule, periods of four blocks.
CONSTANTS
    PowLimit <- MCLegacyPowLimit
    PowLimitBits <- MCLegacyPowLimitBits
    PoWNoRetargeting = FALSE
    TargetTimespan = 8
    TargetTimePerBlock <- MCTargetTimePerBlock
    RetargetAdjustmentFactor = 4
    ReduceMinDifficulty = TRUE
    MinDiffReductionTime = 4
    LWMAHeight = 0
    LWMAFixHeight = 0
    LWMAWindow = 0
    ASERTHeight = 0
    ASERTHalfLife = 1
    ASERTAnchorBits = 0
    GenesisTimestamp = 0
    GenesisBits <- MCLegacyGenesisBits
    SolveTimes <- MCSolveTimes
    MaxHeight = 10
SPECIFICATION Spec
\* The miner stops at MaxHeight; NeverAssertError covers the code's only
\* way of refusing a block.
CHECK_DEADLOCK FALSE
INVARIANTS
    NeverAssertError
    TargetBounded
    LegacySteadyState
    PeriodDifficultyRestored
