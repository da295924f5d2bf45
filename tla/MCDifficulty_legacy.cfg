\* The original retarget alone, with mainnet's rules (no minimum-difficulty blocks).
CONSTANTS
    PowLimit <- MCLegacyPowLimit
    PowLimitBits <- MCLegacyPowLimitBits
    PoWNoRetargeting = FALSE
    TargetTimespan = 4
    TargetTimePerBlock <- MCTargetTimePerBlock
    RetargetAdjustmentFactor = 4
    ReduceMinDifficulty = FALSE
    MinDiffReductionTime = 4
    LWMAHeight = 0
    LWMAFixHeight = 0
    LWMAWindow = 0
    ASERTHeight = 0
    ASERTHalfLife = 1
    ASERTAnchorBits = 0
    GenesisTimestamp = 0
    GenesisBits <- MCLegacyGenesisBits
    SolveTimes <- MCLegacySolveTimes
    MaxHeight = 8
SPECIFICATION Spec
\* The miner stops at MaxHeight; NeverAssertError covers the code's only
\* way of refusing a block.
CHECK_DEADLOCK FALSE
INVARIANTS
    NeverAssertError
    TargetBounded
    LegacySteadyState
PROPERTIES
    LegacyFollowsSchedule
