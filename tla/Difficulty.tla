----------------------------- MODULE Difficulty -----------------------------
(***************************************************************************)
(* The difficulty retarget core of blockchain/difficulty.go: the           *)
(* dispatcher calcNextRequiredDifficulty and the four algorithms it        *)
(* selects by height (the original Bitcoin-style retarget with Litecoin's  *)
(* window fix and the testnet minimum-difficulty rule, LWMA, LWMAv2 and    *)
(* ASERT), driven by a miner that extends the best chain through the       *)
(* exported CalcNextRequiredDifficulty.                                    *)
(*                                                                         *)
(* The chain is a sequence of headers; chain[i] is the header at height    *)
(* i - 1, so a HeaderCtx is a height and its Parent is the height below.   *)
(* The algorithms take the chain c and the height h of lastNode as         *)
(* arguments, so that a property can evaluate them on any prefix.          *)
(***************************************************************************)
EXTENDS Integers, Sequences, Compact

CONSTANTS
    PowLimit,                 \* chaincfg.Params.PowLimit, the easiest target
    PowLimitBits,             \* its compact form as the params state it
    PoWNoRetargeting,         \* regtest: never retarget
    TargetTimespan,           \* seconds between legacy retargets
    TargetTimePerBlock,       \* T, seconds per block
    RetargetAdjustmentFactor, \* legacy clamp factor
    ReduceMinDifficulty,      \* testnet minimum-difficulty rule enabled
    MinDiffReductionTime,     \* seconds without a block before it applies
    LWMAHeight,               \* first height using LWMA (0: never)
    LWMAFixHeight,            \* first height using LWMAv2 (0: never)
    LWMAWindow,               \* N, the LWMA window
    ASERTHeight,              \* anchor height; ASERT above it (0: never)
    ASERTHalfLife,            \* seconds for the target to double
    ASERTAnchorBits,          \* compact target of the anchor
    GenesisTimestamp,         \* the genesis header
    GenesisBits,
    SolveTimes,               \* the time offsets a new block may claim
    MaxHeight                 \* the miner stops at this height

\* ChainCtx's derived quantities (BlockChain's fields, outside this file).
BlocksPerRetarget == TargetTimespan \div TargetTimePerBlock
MinRetargetTimespan == TargetTimespan \div RetargetAdjustmentFactor
MaxRetargetTimespan == TargetTimespan * RetargetAdjustmentFactor

ASSUME ParamsAssumption ==
    /\ PowLimit \in Nat \ {0}
    /\ {PowLimitBits, ASERTAnchorBits, GenesisBits} \subseteq Nat
    /\ PoWNoRetargeting \in BOOLEAN /\ ReduceMinDifficulty \in BOOLEAN
    /\ TargetTimePerBlock \in Nat \ {0}
    /\ TargetTimespan \in Nat /\ BlocksPerRetarget >= 1
    /\ RetargetAdjustmentFactor \in Nat \ {0}
    /\ MinDiffReductionTime \in Nat
    /\ {LWMAHeight, LWMAFixHeight, LWMAWindow, ASERTHeight} \subseteq Nat
    /\ ASERTHalfLife \in Nat \ {0}
    /\ GenesisTimestamp \in Int /\ SolveTimes \subseteq Int
    /\ MaxHeight \in Nat

VARIABLE chain
vars == <<chain>>

\* A result of calcNextRequiredDifficulty: bits, or the AssertError (with 0).
Ok(bits) == [bits |-> bits, err |-> FALSE]
AssertError == [bits |-> 0, err |-> TRUE]

MinOf(a, b) == IF a < b THEN a ELSE b
\* Mutant: only the upper clamp (a short timespan is not raised to the minimum).
ClampNoLower(v, lo, hi) == IF v > hi THEN hi ELSE v
Clamp(v, lo, hi) == IF v < lo THEN lo ELSE IF v > hi THEN hi ELSE v
\* Mutant: the new target is not limited to PowLimit.
CapAtPowLimitDropped(t) == t
CapAtPowLimit(t) == IF t > PowLimit THEN PowLimit ELSE t

Timestamp(c, h) == c[h + 1].timestamp
Bits(c, h) == c[h + 1].bits

(***************************************************************************)
(* findPrevTestNetDifficulty: walk down from height h past the blocks that *)
(* carry PowLimitBits off a retarget boundary; the first other block gives *)
(* the bits, and PowLimitBits if the walk passes genesis.                  *)
(***************************************************************************)
\* Mutant: the walk does not stop at a retarget boundary.
WalkStopsAtNoBoundary(c, j) == Bits(c, j) # PowLimitBits
WalkStopsAt(c, j) == j % BlocksPerRetarget # 0 => Bits(c, j) # PowLimitBits
FindPrevTestNetDifficulty(c, h) ==
    IF \E j \in 0..h : WalkStopsAt(c, j)
    THEN Bits(c, CHOOSE j \in 0..h : WalkStopsAt(c, j)
                            /\ \A k \in (j + 1)..h : ~WalkStopsAt(c, k))
    ELSE PowLimitBits

(***************************************************************************)
(* The original retarget: off a boundary keep the bits (or apply the       *)
(* testnet rule); on a boundary measure the time since the first block of  *)
(* the window, clamp it, and scale the target.  The window is one block    *)
(* shorter on the first retarget after genesis (Litecoin's fix).           *)
(***************************************************************************)
\* Mutant: no first-retarget exception (the window may start below genesis).
RetargetWalkNoException(h) == BlocksPerRetarget
\* Mutant: Bitcoin's window of BlocksPerRetarget - 1 solve times.
RetargetWalkBitcoin(h) == BlocksPerRetarget - 1
RetargetWalk(h) ==
    IF h + 1 # BlocksPerRetarget THEN BlocksPerRetarget ELSE BlocksPerRetarget - 1

CalcLegacy(c, h, newBlockTime) ==
    IF (h + 1) % BlocksPerRetarget # 0
    THEN IF ReduceMinDifficulty
         THEN IF newBlockTime > Timestamp(c, h) + MinDiffReductionTime
              THEN Ok(PowLimitBits)
              ELSE Ok(FindPrevTestNetDifficulty(c, h))
         ELSE Ok(Bits(c, h))
    ELSE LET first == h - RetargetWalk(h)
             actualTimespan == Timestamp(c, h) - Timestamp(c, first)
             adjustedTimespan ==
                 Clamp(actualTimespan, MinRetargetTimespan, MaxRetargetTimespan)
             newTarget == (CompactToBig(Bits(c, h)) * adjustedTimespan)
                              \div TargetTimespan
         IN  IF first < 0 THEN AssertError
             ELSE Ok(BigToCompact(CapAtPowLimit(newTarget)))

(***************************************************************************)
(* calcEasiestDifficulty: on testnets PowLimitBits once the duration       *)
(* exceeds MinDiffReductionTime; otherwise multiply the target by the      *)
(* adjustment factor once per MaxRetargetTimespan of duration (rounded     *)
(* up) until it reaches PowLimit, then cap and encode.  Grow[i] is the     *)
(* loop's state after i iterations; it stops after at most               *)
(* duration \div MaxRetargetTimespan + 1 of them.                          *)
(***************************************************************************)
CalcEasiestDifficulty(bits, duration) ==
    LET Grow[i \in Nat] ==
            IF i = 0 THEN [target |-> CompactToBig(bits), left |-> duration]
            ELSE LET s == Grow[i - 1]
                 IN  IF s.left > 0 /\ s.target < PowLimit
                     THEN [target |-> s.target * RetargetAdjustmentFactor,
                           left |-> s.left - MaxRetargetTimespan]
                     ELSE s
        final == Grow[IF duration > 0 THEN duration \div MaxRetargetTimespan + 1
                      ELSE 0].target
    IN  IF ReduceMinDifficulty /\ duration > MinDiffReductionTime
        THEN PowLimitBits
        ELSE BigToCompact(CapAtPowLimit(final))

(***************************************************************************)
(* LWMA and LWMAv2.  The loop visits the blocks at heights h, h-1, ... with *)
(* weights blocks, blocks-1, ..., and stops early at genesis, so it runs   *)
(* MinOf(blocks, h) times.  v1 scales lastNode's target with 10x caps; v2  *)
(* scales the target of the block `blocks' below lastNode with 3x caps.   *)
(***************************************************************************)
LwmaBlocks(h) == MinOf(h + 1 - LWMAHeight, LWMAWindow)

SolveTime(c, j) ==
    Clamp(Timestamp(c, j) - Timestamp(c, j - 1), 1, 6 * TargetTimePerBlock)

\* sumWeightedSolvetimes and sumWeights after the loop.
LwmaSums(c, h, blocks) ==
    LET sums[i \in 0..MinOf(blocks, h)] ==
            IF i = 0 THEN [weighted |-> 0, weights |-> 0]
            ELSE [weighted |-> sums[i - 1].weighted
                                 + SolveTime(c, h - (i - 1)) * (blocks - (i - 1)),
                  weights |-> sums[i - 1].weights + (blocks - (i - 1))]
    IN  sums[MinOf(blocks, h)]

\* The retarget both versions share, from a reference target and a cap.
LwmaNext(c, h, blocks, referenceTarget, cap) ==
    LET s == LwmaSums(c, h, blocks)
        expected == s.weights * TargetTimePerBlock
        clamped == Clamp(s.weighted, expected \div cap, expected * cap)
    IN  Ok(BigToCompact(CapAtPowLimit((referenceTarget * clamped) \div expected)))

CalcLWMA(c, h) ==
    IF LwmaBlocks(h) < 3 THEN Ok(Bits(c, h))
    ELSE LwmaNext(c, h, LwmaBlocks(h), CompactToBig(Bits(c, h)), 10)

\* v2's window start: `blocks' parents below lastNode, or genesis.
\* Mutant: the window-start walk stops one block early.
WindowStartShort(h, blocks) == h - MinOf(blocks, h) + 1
WindowStart(h, blocks) == h - MinOf(blocks, h)

CalcLWMAv2(c, h) ==
    IF LwmaBlocks(h) < 3 THEN Ok(Bits(c, h))
    ELSE LwmaNext(c, h, LwmaBlocks(h),
                  CompactToBig(Bits(c, WindowStart(h, LwmaBlocks(h)))), 3)

(***************************************************************************)
(* ASERT's fixed-point factor 65536 + (A f + B f^2 + C f^3 + 2^47) >> 48,  *)
(* computed in uint64, i.e. modulo 2^64.  TLC's integers are 32-bit, so    *)
(* the value is held in six base-4096 limbs (72 bits, least significant    *)
(* first) and evaluated by Horner's rule ((C f + B) f + A) f + 2^47, which *)
(* is the same element of Z/2^64.  Bits 48..63 are limb 5 and the low     *)
(* four bits of limb 6.                                                    *)
(***************************************************************************)
LimbsC == <<1031, 1, 0, 0, 0, 0>>            \* 5127
LimbsB == <<320, 3789, 57, 0, 0, 0>>         \* 971821376
LimbsA == <<249, 477, 3180, 2848, 0, 0>>     \* 195766423245049
LimbsRound == <<0, 0, 0, 2048, 0, 0>>        \* 1 << 47

\* acc * f + add, carried back into limbs (f < 2^16 keeps every step < 2^29).
LimbsMulAdd(acc, f, add) ==
    LET raw(i) == acc[i] * f + add[i]
        carry[i \in 1..6] == IF i = 1 THEN 0
                             ELSE (raw(i - 1) + carry[i - 1]) \div 4096
    IN  [i \in 1..6 |-> (raw(i) + carry[i]) % 4096]

\* Mutant: the +2^47 rounding term is left out.
AsertFactorNoRounding(frac) ==
    IF frac > 0
    THEN LET p == LimbsMulAdd(LimbsMulAdd(LimbsMulAdd(LimbsC, frac, LimbsB),
                                          frac, LimbsA), frac, <<0, 0, 0, 0, 0, 0>>)
         IN  65536 + p[5] + 4096 * (p[6] % 16)
    ELSE 65536
AsertFactor(frac) ==
    IF frac > 0
    THEN LET p == LimbsMulAdd(LimbsMulAdd(LimbsMulAdd(LimbsC, frac, LimbsB),
                                          frac, LimbsA), frac, LimbsRound)
         IN  65536 + p[5] + 4096 * (p[6] % 16)
    ELSE 65536

\* Go's int64 division truncates towards zero.
TruncDiv(a, b) == IF a >= 0 THEN a \div b ELSE -((-a) \div b)

\* The exponent split into shifts and frac in 0..65535, as the code does it.
\* Mutant: a negative exponent with a remainder does not borrow a shift.
AsertSplitNoBorrow(exponent) ==
    IF exponent >= 0
    THEN [shifts |-> exponent \div 65536, frac |-> exponent % 65536]
    ELSE LET absExponent == -exponent
             remainder == absExponent % 65536
         IN  [shifts |-> -(absExponent \div 65536),
              frac |-> IF remainder # 0 THEN 65536 - remainder ELSE 0]
AsertSplit(exponent) ==
    IF exponent >= 0
    THEN [shifts |-> exponent \div 65536, frac |-> exponent % 65536]
    ELSE LET absExponent == -exponent
             remainder == absExponent % 65536
         IN  IF remainder # 0
             THEN [shifts |-> -(absExponent \div 65536) - 1, frac |-> 65536 - remainder]
             ELSE [shifts |-> -(absExponent \div 65536), frac |-> 0]

\* The anchor walk stops at ASERTHeight; its parent is the block below.
AsertAnchor(h) == IF h > ASERTHeight THEN ASERTHeight ELSE h

\* The schedule deviation (timeDelta - T * heightDelta) in seconds.
\* Mutant: the time is measured from the anchor instead of its parent.
AsertDeviationFromAnchor(c, h) ==
    (Timestamp(c, h) - Timestamp(c, AsertAnchor(h)))
        - TargetTimePerBlock * (h + 1 - ASERTHeight)
AsertDeviation(c, h) ==
    (Timestamp(c, h) - Timestamp(c, AsertAnchor(h) - 1))
        - TargetTimePerBlock * (h + 1 - ASERTHeight)

\* The target ASERT computes for a deviation, before the compact encoding.
AsertTarget(deviation) ==
    LET split == AsertSplit(TruncDiv(deviation * 65536, ASERTHalfLife))
        next0 == (CompactToBig(ASERTAnchorBits) * AsertFactor(split.frac)) \div 65536
        next1 == IF split.shifts >= 0 THEN next0 * 2^split.shifts
                 ELSE next0 \div 2^(-split.shifts)
    IN  IF split.shifts >= 256 THEN PowLimit
        ELSE IF split.shifts <= -256 THEN 1
        ELSE CapAtPowLimit(IF next1 = 0 THEN 1 ELSE next1)

CalcASERT(c, h) ==
    IF AsertAnchor(h) - 1 < 0 THEN AssertError
    ELSE Ok(BigToCompact(AsertTarget(AsertDeviation(c, h))))

(***************************************************************************)
(* calcNextRequiredDifficulty: the regtest and genesis early returns, then *)
(* the dispatch by the height nHeight of the new block.                    *)
(***************************************************************************)
CalcNextRequiredDifficulty(c, h, newBlockTime) ==
    IF PoWNoRetargeting \/ h < 0 THEN Ok(PowLimitBits)
    ELSE IF ASERTHeight > 0 /\ h + 1 > ASERTHeight THEN CalcASERT(c, h)
    ELSE IF LWMAFixHeight > 0 /\ h + 1 >= LWMAFixHeight THEN CalcLWMAv2(c, h)
    ELSE IF LWMAHeight > 0 /\ h + 1 >= LWMAHeight THEN CalcLWMA(c, h)
    ELSE CalcLegacy(c, h, newBlockTime)

TipHeight == Len(chain) - 1

Init == chain = << [timestamp |-> GenesisTimestamp, bits |-> GenesisBits] >>

(***************************************************************************)
(* A miner asks CalcNextRequiredDifficulty (under the chain lock) for the  *)
(* bits of a block on the tip with a timestamp of its choosing, and the    *)
(* block with those bits becomes the new tip.  An error leaves the chain   *)
(* as it is.                                                               *)
(***************************************************************************)
MineBlock ==
    /\ TipHeight < MaxHeight
    /\ \E st \in SolveTimes :
         LET t == Timestamp(chain, TipHeight) + st
             r == CalcNextRequiredDifficulty(chain, TipHeight, t)
         IN  /\ ~r.err
             /\ chain' = Append(chain, [timestamp |-> t, bits |-> r.bits])

Next == MineBlock
Spec == Init /\ [][Next]_vars

-----------------------------------------------------------------------------
(* Heights and eras of the blocks on the chain. *)
Heights == 0..TipHeight
\* The limit the properties expect, stated apart from the code's CapAtPowLimit.
Limited(t) == IF t > PowLimit THEN PowLimit ELSE t
IsUint32(v) == v \in Nat /\ v \div 65536 < 65536
\* The algorithm that chose the bits of the block at height H >= 1.
IsAsertBlock(H) == ASERTHeight > 0 /\ H > ASERTHeight
IsLwmaV2Block(H) == ~IsAsertBlock(H) /\ LWMAFixHeight > 0 /\ H >= LWMAFixHeight
IsLwmaV1Block(H) ==
    ~IsAsertBlock(H) /\ ~IsLwmaV2Block(H) /\ LWMAHeight > 0 /\ H >= LWMAHeight
IsLegacyBlock(H) == H >= 1 /\ ~IsAsertBlock(H) /\ ~IsLwmaV2Block(H) /\ ~IsLwmaV1Block(H)
\* The block at height j took exactly the target time.
OnSchedule(j) == Timestamp(chain, j) - Timestamp(chain, j - 1) = TargetTimePerBlock

\* The shape of the chain: a sequence of one to MaxHeight + 1 headers with
\* integer timestamps.  TypeOK adds that every bits field is a uint32.
ChainWellFormed ==
    /\ \E n \in 1..(MaxHeight + 1) : DOMAIN chain = 1..n
    /\ \A i \in DOMAIN chain : chain[i] = [timestamp |-> chain[i].timestamp,
                                          bits |-> chain[i].bits]
                              /\ chain[i].timestamp \in Int
TypeOK ==
    /\ ChainWellFormed
    /\ \A H \in Heights : IsUint32(Bits(chain, H))

(***************************************************************************)
(* calcEasiestDifficulty is, by its comment, "the easiest possible         *)
(* difficulty that a block can have given starting difficulty bits and a   *)
(* duration": no block's target exceeds the easiest target computed from   *)
(* the genesis bits and the time elapsed since genesis.                    *)
(***************************************************************************)
EasiestBoundsChain ==
    \A H \in Heights :
        CompactToBig(Bits(chain, H))
          <= CompactToBig(CalcEasiestDifficulty(GenesisBits,
                                                Timestamp(chain, H) - GenesisTimestamp))

(***************************************************************************)
(* The miner is never refused with an AssertError: whatever timestamp it   *)
(* picks, the legacy retarget finds the first block of its window (Litecoin*)
(* shortens only the first window, which would otherwise start below       *)
(* genesis) and ASERT finds the anchor's parent.                           *)
(***************************************************************************)
NeverAssertError ==
    \A st \in SolveTimes :
        ~CalcNextRequiredDifficulty(chain, TipHeight, Timestamp(chain, TipHeight) + st).err

(***************************************************************************)
(* Every block's target is a non-negative number no larger than PowLimit:  *)
(* every algorithm caps what it computes, and the branches that copy bits  *)
(* copy them from a block that was capped or from PowLimitBits.            *)
(***************************************************************************)
TargetBounded == \A H \in Heights : CompactToBig(Bits(chain, H)) \in 0..PowLimit

(***************************************************************************)
(* The legacy retarget leaves the target unchanged (up to the compact      *)
(* rounding) when every block of the period since the last retarget took  *)
(* exactly TargetTimePerBlock.  This holds only because the window after   *)
(* the first retarget spans BlocksPerRetarget solve times, not one fewer   *)
(* as Bitcoin's does.                                                      *)
(***************************************************************************)
LegacySteadyState ==
    \A H \in Heights :
        ( /\ IsLegacyBlock(H) /\ H % BlocksPerRetarget = 0 /\ H > BlocksPerRetarget
          /\ \A j \in (H - BlocksPerRetarget)..(H - 1) : OnSchedule(j) )
        => Bits(chain, H) = BigToCompact(CompactToBig(Bits(chain, H - 1)))

(***************************************************************************)
(* LWMA leaves the target of its reference block unchanged (up to the      *)
(* compact rounding) when its whole window of blocks took exactly          *)
(* TargetTimePerBlock: lastNode's target for v1, the target of the block   *)
(* at the start of the window for v2.                                      *)
(***************************************************************************)
LwmaSteadyState ==
    \A H \in Heights :
        LET blocks == LwmaBlocks(H - 1)
            ref == IF IsLwmaV2Block(H) THEN H - 1 - blocks ELSE H - 1
        IN  ( /\ IsLwmaV1Block(H) \/ IsLwmaV2Block(H)
              /\ blocks >= 3 /\ H - 1 >= blocks
              /\ \A j \in (H - blocks)..(H - 1) : OnSchedule(j) )
            => Bits(chain, H) = BigToCompact(Limited(CompactToBig(Bits(chain, ref))))

(***************************************************************************)
(* ASERT follows the absolute schedule: a block whose parent is a whole    *)
(* number k of half lives behind (k > 0) or ahead of (k < 0) the ideal     *)
(* schedule since the anchor's parent gets the anchor target times 2^k,    *)
(* capped at PowLimit (spec S7 and S8).                                    *)
(***************************************************************************)
AsertOnSchedule ==
    \A H \in Heights :
        LET ideal == (Timestamp(chain, H - 1) - Timestamp(chain, ASERTHeight - 1))
                        - TargetTimePerBlock * (H - ASERTHeight)
            k == ideal \div ASERTHalfLife
            anchorTarget == CompactToBig(ASERTAnchorBits)
            scaled == IF k >= 0 THEN anchorTarget * 2^k ELSE anchorTarget \div 2^(-k)
        IN  (IsAsertBlock(H) /\ ideal % ASERTHalfLife = 0)
            => Bits(chain, H) = BigToCompact(Limited(IF scaled = 0 THEN 1 ELSE scaled))

(***************************************************************************)
(* The testnet rule never lowers the real difficulty for good: a legacy    *)
(* block off a retarget boundary that was mined within                     *)
(* MinDiffReductionTime of its parent has the bits of the boundary block   *)
(* that opened its period, however many minimum-difficulty blocks came in  *)
(* between (findPrevTestNetDifficulty walks back over them, and stops at   *)
(* the boundary).                                                          *)
(***************************************************************************)
PeriodDifficultyRestored ==
    \A H \in Heights :
        ( /\ ReduceMinDifficulty /\ IsLegacyBlock(H) /\ H % BlocksPerRetarget # 0
          /\ Timestamp(chain, H) <= Timestamp(chain, H - 1) + MinDiffReductionTime )
        => Bits(chain, H) = Bits(chain, H - (H % BlocksPerRetarget))

(***************************************************************************)
(* The spec's legacy window (4.D step 4): a retarget other than the first  *)
(* measures the time from the block BlocksPerRetarget - 1 generations      *)
(* below lastNode, i.e. over BlocksPerRetarget - 1 solve times.            *)
(***************************************************************************)
SpecLegacyWindow ==
    \A H \in Heights :
        (IsLegacyBlock(H) /\ H % BlocksPerRetarget = 0 /\ H > BlocksPerRetarget)
        => LET span == Timestamp(chain, H - 1) - Timestamp(chain, H - BlocksPerRetarget)
               target == (CompactToBig(Bits(chain, H - 1))
                            * Clamp(span, MinRetargetTimespan, MaxRetargetTimespan))
                           \div TargetTimespan
           IN  Bits(chain, H) = BigToCompact(Limited(target))
-----------------------------------------------------------------------------

\* What storing a target in a header keeps of it.
RoundCompact(t) == CompactToBig(BigToCompact(t))

Schedule == INSTANCE RetargetSchedule
    WITH Interval <- BlocksPerRetarget, Timespan <- TargetTimespan,
         MinTimespan <- MinRetargetTimespan, MaxTimespan <- MaxRetargetTimespan,
         Limit <- PowLimit, Round <- RoundCompact,
         targets <- [i \in DOMAIN chain |-> CompactToBig(chain[i].bits)]

(***************************************************************************)
(* With the original retarget alone and no minimum-difficulty rule, the    *)
(* chain's targets follow RetargetSchedule: calcNextRequiredDifficulty     *)
(* copies lastNode's bits off a retarget interval, and at one moves the    *)
(* target by at most RetargetAdjustmentFactor either way (after clamping   *)
(* the window's timespan, dividing and rounding to compact) and caps it at *)
(* PowLimit.                                                               *)
(***************************************************************************)
LegacyFollowsSchedule == Schedule!SchedSpec
=============================================================================
