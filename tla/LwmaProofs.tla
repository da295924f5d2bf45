----------------------------- MODULE LwmaProofs -----------------------------
(***************************************************************************)
(* LWMA and LWMAv2 reach a steady state: a window of blocks that all took *)
(* TargetTimePerBlock leaves the reference block's target unchanged, for  *)
(* every network that retargets and every window size.  On the way, every *)
(* block below the ASERT era has a target within the limit, with any mix  *)
(* of the legacy retarget, the testnet rule, LWMA and LWMAv2.             *)
(*                                                                         *)
(* LwmaSums is a recursive function defined in a LET, i.e. a CHOOSE of a  *)
(* function satisfying the loop's recursion.  The proofs show such a      *)
(* function exists (extending the states of the first k iterations by     *)
(* one, up to the largest k), and then what every iteration's state       *)
(* satisfies (again by the largest index for which it holds).  The codec *)
(* facts are the hypotheses of ScheduleProofs, plus PowLimitBitsWithinLimit.*)
(***************************************************************************)
EXTENDS ScheduleProofs

\* The testnet rule's minimum is within the limit where it is used: regtest
\* gives every block PowLimitBits, testnet gives some.
PowLimitBitsWithinLimit ==
    (PoWNoRetargeting \/ ReduceMinDifficulty) => CompactToBig(PowLimitBits) \in 0..PowLimit

\* Every block below ASERT, whose target is copied or scaled from blocks
\* below it, has a target within the limit (TargetBounded restricted to the
\* eras the prover can follow; the runs check TargetBounded itself).
PreAsertBounded ==
    \A H \in Heights : ~IsAsertBlock(H) => CompactToBig(Bits(chain, H)) \in 0..PowLimit

\* The state of the LWMA loop of LwmaSums after iteration i, from f[i - 1].
SumsBody(c, h, blocks, f, i) ==
    IF i = 0 THEN [weighted |-> 0, weights |-> 0]
    ELSE [weighted |-> f[i - 1].weighted
                         + SolveTime(c, h - (i - 1)) * (blocks - (i - 1)),
          weights |-> f[i - 1].weights + (blocks - (i - 1))]

\* g holds the loop's state after each of its first k iterations.
SumsUpTo(c, h, blocks, k, g) == g = [i \in 0..k |-> SumsBody(c, h, blocks, g, i)]
IsSums(c, h, blocks, f) == SumsUpTo(c, h, blocks, MinOf(blocks, h), f)
\* g extended by one more iteration of the loop.
SumsExtend(c, h, blocks, k, g) ==
    [i \in 0..(k + 1) |-> IF i <= k THEN g[i] ELSE SumsBody(c, h, blocks, g, k + 1)]
\* Every solve time the loop reads, at heights h - m + 1 .. h, is T.
SteadyWindow(c, h, m) ==
    \A j \in (h - m + 1)..h : Timestamp(c, j) - Timestamp(c, j - 1) = TargetTimePerBlock
\* What the loop's state after i iterations satisfies.
SumsGood(c, h, blocks, f, i) ==
    /\ f[i].weights \in Nat /\ f[i].weights >= i /\ f[i].weighted \in Int
    /\ SteadyWindow(c, h, MinOf(blocks, h)) => f[i].weighted = TargetTimePerBlock * f[i].weights
\* The prefixes of the loop on which every state is good.
SumsGoodUpTo(c, h, blocks, f, m) ==
    {k \in 0..m : \A i \in 0..k : SumsGood(c, h, blocks, f, i)}
\* The iteration counts up to m for which the loop's states exist.
SumsReach(c, h, blocks, m) ==
    {k \in 0..m : \E g : SumsUpTo(c, h, blocks, k, g)}

(* LwmaSums is the last state of a function that satisfies the loop's
   recursion, whichever one CHOOSE picks. *)
LEMMA LwmaSumsIsChoose ==
  ASSUME NEW c, NEW h, NEW blocks
  PROVE  LwmaSums(c, h, blocks)
           = (CHOOSE f : IsSums(c, h, blocks, f))[MinOf(blocks, h)]
  BY DEF LwmaSums, IsSums, SumsUpTo, SumsBody

(* One more iteration extends the states of the first k iterations. *)
LEMMA SumsExtendOne ==
  ASSUME NEW c, NEW h, NEW blocks, NEW k \in Nat, NEW g, SumsUpTo(c, h, blocks, k, g)
  PROVE  SumsUpTo(c, h, blocks, k + 1, SumsExtend(c, h, blocks, k, g))
  <1> DEFINE g2 == SumsExtend(c, h, blocks, k, g)
  <1>1. \A i \in 0..(k + 1) : g2[i] = SumsBody(c, h, blocks, g2, i)
    <2> SUFFICES ASSUME NEW i \in 0..(k + 1)
                 PROVE  g2[i] = SumsBody(c, h, blocks, g2, i)
      OBVIOUS
    <2>1. CASE i = 0
      BY <2>1 DEF SumsExtend, SumsUpTo, SumsBody
    <2>2. CASE i # 0 /\ i <= k
      <3>1. g2[i - 1] = g[i - 1] /\ g2[i] = g[i]
        BY <2>2 DEF SumsExtend
      <3>2. g[i] = SumsBody(c, h, blocks, g, i)
        BY <2>2 DEF SumsUpTo
      <3> QED BY <2>2, <3>1, <3>2 DEF SumsBody
    <2>3. CASE i = k + 1
      <3>1. g2[k] = g[k] /\ g2[k + 1] = SumsBody(c, h, blocks, g, k + 1)
        BY DEF SumsExtend
      <3> QED BY <2>3, <3>1 DEF SumsBody
    <2> QED BY <2>1, <2>2, <2>3
  <1>2. g2 = [i \in 0..(k + 1) |-> g2[i]]
    BY DEF SumsExtend
  <1> QED BY <1>1, <1>2 DEF SumsUpTo

(***************************************************************************)
(* The sums of the LWMA loop are well defined: for every chain, height and *)
(* window there is a function on 0..MinOf(blocks, h) that satisfies the    *)
(* loop's recursion, so LwmaSums is its value after the last iteration.    *)
(***************************************************************************)
LEMMA LwmaSumsWellDefined ==
  ASSUME NEW c, NEW h \in Nat, NEW blocks \in Nat
  PROVE  \E f : IsSums(c, h, blocks, f)
  <1>1. PICK m \in Nat : m = MinOf(blocks, h)
    BY DEF MinOf
  <1>2. 0 \in SumsReach(c, h, blocks, m)
    <2>1. SumsUpTo(c, h, blocks, 0, [i \in 0..0 |-> [weighted |-> 0, weights |-> 0]])
      BY DEF SumsUpTo, SumsBody
    <2> QED BY <2>1 DEF SumsReach
  <1>3. /\ SumsReach(c, h, blocks, m) \in SUBSET Int
        /\ \A x \in SumsReach(c, h, blocks, m) : x <= m /\ m \in Int
    BY DEF SumsReach
  <1>4. PICK j \in SumsReach(c, h, blocks, m) : \A k \in SumsReach(c, h, blocks, m) : k <= j
    BY <1>2, <1>3, LargestElement, Zenon
  <1>5. j \in 0..m /\ \E g : SumsUpTo(c, h, blocks, j, g)
    BY <1>4 DEF SumsReach
  <1>6. j = m
    <2> SUFFICES ASSUME j < m PROVE FALSE
      BY <1>5
    <2>1. PICK g : SumsUpTo(c, h, blocks, j, g)
      BY <1>5
    <2>2. SumsUpTo(c, h, blocks, j + 1, SumsExtend(c, h, blocks, j, g))
      BY <1>5, <2>1, SumsExtendOne
    <2>3. j + 1 \in SumsReach(c, h, blocks, m)
      BY <1>5, <2>2 DEF SumsReach
    <2> QED BY <1>4, <1>5, <2>3
  <1> QED BY <1>1, <1>5, <1>6 DEF IsSums
(***************************************************************************)
(* The state of the LWMA loop after i iterations: the weights add up to at *)
(* least i (each is at least 1, as i <= blocks), the weighted sum is an   *)
(* integer, and when every solve time read is T the weighted sum is T     *)
(* times the weights.                                                      *)
(***************************************************************************)
LEMMA LwmaSumsFacts ==
  ASSUME NEW c, NEW h \in Nat, NEW blocks \in Nat, NEW f, IsSums(c, h, blocks, f),
         \A j \in 0..h : Timestamp(c, j) \in Int
  PROVE  \A i \in 0..MinOf(blocks, h) : SumsGood(c, h, blocks, f, i)
  <1>1. PICK m \in Nat : m = MinOf(blocks, h) /\ m <= blocks /\ m <= h
    BY DEF MinOf
  <1>2. TargetTimePerBlock \in Nat \ {0}
    BY ParamsAssumption
  <1>3. 0 \in SumsGoodUpTo(c, h, blocks, f, m)
    <2>1. f[0] = [weighted |-> 0, weights |-> 0]
      BY <1>1 DEF IsSums, SumsUpTo, SumsBody
    <2> QED BY <1>1, <1>2, <2>1 DEF SumsGoodUpTo, SumsGood
  <1>4. /\ SumsGoodUpTo(c, h, blocks, f, m) \in SUBSET Int
        /\ \A x \in SumsGoodUpTo(c, h, blocks, f, m) : x <= m /\ m \in Int
    BY DEF SumsGoodUpTo
  <1>5. PICK k \in SumsGoodUpTo(c, h, blocks, f, m) :
           \A x \in SumsGoodUpTo(c, h, blocks, f, m) : x <= k
    BY <1>3, <1>4, LargestElement, Zenon
  <1>6. k \in 0..m /\ \A i \in 0..k : SumsGood(c, h, blocks, f, i)
    BY <1>5 DEF SumsGoodUpTo
  <1>7. k = m
    <2> SUFFICES ASSUME k < m PROVE FALSE
      BY <1>6
    <2>1. f[k + 1] = [weighted |-> f[k].weighted + SolveTime(c, h - k) * (blocks - k),
                      weights |-> f[k].weights + (blocks - k)]
      BY <1>1, <1>6 DEF IsSums, SumsUpTo, SumsBody
    <2>2. Timestamp(c, h - k) \in Int /\ Timestamp(c, h - k - 1) \in Int
      BY <1>1, <1>6
    <2>3. SolveTime(c, h - k) \in Int
      BY <1>2, <2>2 DEF SolveTime, Clamp
    <2>4. SteadyWindow(c, h, m) => SolveTime(c, h - k) = TargetTimePerBlock
      <3> SUFFICES ASSUME SteadyWindow(c, h, m)
                   PROVE  SolveTime(c, h - k) = TargetTimePerBlock
        OBVIOUS
      <3>1. Timestamp(c, h - k) - Timestamp(c, h - k - 1) = TargetTimePerBlock
        BY <1>1, <1>6 DEF SteadyWindow
      <3> QED BY <1>2, <3>1 DEF SolveTime, Clamp
    <2>5. SumsGood(c, h, blocks, f, k)
      BY <1>6
    <2>6. SumsGood(c, h, blocks, f, k + 1)
      BY <1>1, <1>2, <1>6, <2>1, <2>3, <2>4, <2>5 DEF SumsGood
    <2>7. k + 1 \in SumsGoodUpTo(c, h, blocks, f, m)
      BY <1>6, <2>6 DEF SumsGoodUpTo
    <2> QED BY <1>5, <1>6, <2>7
  <1> QED BY <1>1, <1>6, <1>7

(* The sums LwmaNext works with after the whole loop, when it runs at least once. *)
LEMMA LwmaFinalSums ==
  ASSUME NEW c, NEW h \in Nat, NEW blocks \in Nat, MinOf(blocks, h) >= 1,
         \A j \in 0..h : Timestamp(c, j) \in Int
  PROVE  /\ LwmaSums(c, h, blocks).weights \in Nat \ {0}
         /\ LwmaSums(c, h, blocks).weighted \in Int
         /\ SteadyWindow(c, h, MinOf(blocks, h)) =>
               LwmaSums(c, h, blocks).weighted
                 = TargetTimePerBlock * LwmaSums(c, h, blocks).weights
  <1>1. PICK f : IsSums(c, h, blocks, f) /\ LwmaSums(c, h, blocks) = f[MinOf(blocks, h)]
    <2>1. \E g : IsSums(c, h, blocks, g)
      BY LwmaSumsWellDefined
    <2>2. LwmaSums(c, h, blocks) = (CHOOSE g : IsSums(c, h, blocks, g))[MinOf(blocks, h)]
      BY LwmaSumsIsChoose
    <2> QED BY <2>1, <2>2
  <1>2. MinOf(blocks, h) \in 0..MinOf(blocks, h)
    BY DEF MinOf
  <1>3. SumsGood(c, h, blocks, f, MinOf(blocks, h))
    BY <1>1, <1>2, LwmaSumsFacts
  <1>4. PICK m \in Nat \ {0} : m = MinOf(blocks, h)
    BY DEF MinOf
  <1>5. /\ f[m].weights \in Nat /\ f[m].weights >= m /\ f[m].weighted \in Int
        /\ SteadyWindow(c, h, m) => f[m].weighted = TargetTimePerBlock * f[m].weights
    BY <1>3, <1>4 DEF SumsGood
  <1> QED BY <1>1, <1>4, <1>5

(***************************************************************************)
(* LwmaNext stores a target within the limit when its reference target is *)
(* within it: the weighted solve time is clamped to a non-negative number, *)
(* the scaled target is capped, and the codec does not round up.          *)
(***************************************************************************)
LEMMA LwmaNextWithinLimit ==
  ASSUME RoundsDown, NEW c, NEW h \in Nat, NEW blocks \in Nat, MinOf(blocks, h) >= 1,
         \A j \in 0..h : Timestamp(c, j) \in Int,
         NEW ref \in 0..PowLimit, NEW cap \in Nat \ {0}
  PROVE  CompactToBig(LwmaNext(c, h, blocks, ref, cap).bits) \in 0..PowLimit
  <1>1. PICK w \in Nat \ {0} : w = LwmaSums(c, h, blocks).weights
    BY LwmaFinalSums
  <1>2. PICK v \in Int : v = LwmaSums(c, h, blocks).weighted
    BY LwmaFinalSums
  <1>3. PICK e \in Nat \ {0} : e = w * TargetTimePerBlock
    BY <1>1, ParamsAssumption
  <1>4. PICK k \in Nat : k = Clamp(v, e \div cap, e * cap)
    BY <1>2, <1>3 DEF Clamp
  <1>5. PICK x \in Nat : x = (ref * k) \div e
    BY <1>3, <1>4
  <1>6. CapAtPowLimit(x) \in 0..PowLimit
    BY ParamsAssumption DEF CapAtPowLimit
  <1>7. LwmaNext(c, h, blocks, ref, cap).bits = BigToCompact(CapAtPowLimit(x))
    BY <1>1, <1>2, <1>3, <1>4, <1>5 DEF LwmaNext, Ok
  <1>8. PICK y \in 0..PowLimit : y = CapAtPowLimit(x)
    BY <1>6
  <1>9. CompactToBig(BigToCompact(y)) \in 0..y
    BY DEF RoundsDown, RoundCompact
  <1>10. CompactToBig(LwmaNext(c, h, blocks, ref, cap).bits) = CompactToBig(BigToCompact(y))
    BY <1>7, <1>8
  <1>11. CompactToBig(BigToCompact(y)) \in 0..PowLimit
    BY <1>8, <1>9, ParamsAssumption
  <1> QED BY <1>10, <1>11, Zenon

(***************************************************************************)
(* LwmaNext keeps its reference target (capped, and up to the compact    *)
(* rounding) when every solve time in its window is T: the weighted solve *)
(* time is then T times the weights, which the clamp leaves alone.        *)
(***************************************************************************)
LEMMA LwmaNextSteady ==
  ASSUME NEW c, NEW h \in Nat, NEW blocks \in Nat, MinOf(blocks, h) >= 1,
         \A j \in 0..h : Timestamp(c, j) \in Int,
         SteadyWindow(c, h, MinOf(blocks, h)),
         NEW ref \in Int, NEW cap \in Nat \ {0}
  PROVE  LwmaNext(c, h, blocks, ref, cap).bits = BigToCompact(Limited(ref))
  <1>1. PICK w \in Nat \ {0} : w = LwmaSums(c, h, blocks).weights
    BY LwmaFinalSums
  <1>2. LwmaSums(c, h, blocks).weighted = TargetTimePerBlock * w
    BY <1>1, LwmaFinalSums
  <1>3. PICK e \in Nat \ {0} : e = w * TargetTimePerBlock
    BY <1>1, ParamsAssumption
  <1>4. Clamp(e, e \div cap, e * cap) = e
    <2>1. e \div cap <= e /\ e <= e * cap
      BY <1>3
    <2> QED BY <2>1 DEF Clamp
  <1>5. (ref * e) \div e = ref
    BY <1>3
  <1>6. PICK v \in Int : v = LwmaSums(c, h, blocks).weighted
    BY LwmaFinalSums
  <1>7. v = e
    BY <1>2, <1>3, <1>6, ParamsAssumption
  <1>8. LwmaNext(c, h, blocks, ref, cap).bits
          = BigToCompact(CapAtPowLimit((ref * Clamp(v, e \div cap, e * cap)) \div e))
    BY <1>1, <1>3, <1>6 DEF LwmaNext, Ok
  <1> QED BY <1>4, <1>5, <1>7, <1>8 DEF CapAtPowLimit, Limited

(* findPrevTestNetDifficulty returns PowLimitBits or the bits of a block at
   or below lastNode. *)
LEMMA FindPrevInChain ==
  ASSUME NEW c, NEW h \in Nat
  PROVE  \/ FindPrevTestNetDifficulty(c, h) = PowLimitBits
         \/ \E j \in 0..h : FindPrevTestNetDifficulty(c, h) = Bits(c, j)
  <1>1. CASE \E j \in 0..h : WalkStopsAt(c, j)
    <2>1. PICK m \in StopSet(c, h) : \A k \in StopSet(c, h) : k <= m
      <3>1. StopSet(c, h) # {}
        BY <1>1 DEF StopSet
      <3>2. /\ StopSet(c, h) \in SUBSET Int
            /\ \A x \in StopSet(c, h) : x <= h /\ h \in Int
        BY DEF StopSet
      <3> QED BY <3>1, <3>2, LargestElement, Zenon
    <2>2. \E j \in 0..h : WalkStopsAt(c, j) /\ \A k \in (j + 1)..h : ~WalkStopsAt(c, k)
      BY <2>1 DEF StopSet
    <2>3. WalkEnd(c, h) \in 0..h
      BY <2>2 DEF WalkEnd
    <2>4. FindPrevTestNetDifficulty(c, h) = Bits(c, WalkEnd(c, h))
      BY <1>1 DEF FindPrevTestNetDifficulty, WalkEnd
    <2> QED BY <2>3, <2>4
  <1>2. CASE ~\E j \in 0..h : WalkStopsAt(c, j)
    BY <1>2 DEF FindPrevTestNetDifficulty
  <1> QED BY <1>1, <1>2

(***************************************************************************)
(* The original retarget, with or without the testnet rule, stores a      *)
(* target within the limit when every block up to lastNode has one: off a *)
(* boundary it copies a block's bits or PowLimitBits, at one it caps and  *)
(* rounds down.                                                           *)
(***************************************************************************)
LEMMA LegacyWithinLimit ==
  ASSUME RoundsDown, PowLimitBitsWithinLimit,
         NEW c, NEW n \in Nat \ {0}, NEW t,
         \A i \in 1..n : c[i].timestamp \in Int,
         \A j \in 0..(n - 1) : CompactToBig(Bits(c, j)) \in 0..PowLimit
  PROVE  CompactToBig(CalcLegacy(c, n - 1, t).bits) \in 0..PowLimit
  <1>1. (n - 1) + 1 = n /\ n - 1 \in Nat
    OBVIOUS
  <1>2. CASE n % BlocksPerRetarget # 0 /\ ReduceMinDifficulty
    <2>1. CompactToBig(PowLimitBits) \in 0..PowLimit
      BY <1>2 DEF PowLimitBitsWithinLimit
    <2>2. CompactToBig(FindPrevTestNetDifficulty(c, n - 1)) \in 0..PowLimit
      BY <1>1, <2>1, FindPrevInChain
    <2>3. CalcLegacy(c, n - 1, t).bits
            \in {PowLimitBits, FindPrevTestNetDifficulty(c, n - 1)}
      BY <1>1, <1>2 DEF CalcLegacy, Ok
    <2> QED BY <2>1, <2>2, <2>3
  <1>3. CASE n % BlocksPerRetarget # 0 /\ ~ReduceMinDifficulty
    BY <1>1, <1>3 DEF CalcLegacy, Ok
  <1>4. CASE n % BlocksPerRetarget = 0
    <2>1. PICK v \in Int :
            CalcLegacy(c, n - 1, t).bits
              = BigToCompact(CapAtPowLimit(
                  (CompactToBig(Bits(c, n - 1))
                     * Clamp(v, MinRetargetTimespan, MaxRetargetTimespan))
                    \div TargetTimespan))
      BY <1>4, LegacyRetargetBits
    <2>2. CompactToBig(Bits(c, n - 1)) \in 0..PowLimit
      BY <1>1
    <2> QED BY <2>1, <2>2, RetargetWithinLimit DEF RoundCompact
  <1> QED BY <1>2, <1>3, <1>4

(***************************************************************************)
(* LWMA and LWMAv2 store a target within the limit when every block up to *)
(* lastNode has one: below a window of three they copy lastNode's bits;   *)
(* otherwise the loop runs at least once (blocks >= 3 needs h >= 2) and   *)
(* the reference block, lastNode or the start of the window, is in the    *)
(* chain.                                                                 *)
(***************************************************************************)
LEMMA LwmaWithinLimit ==
  ASSUME RoundsDown, NEW c, NEW n \in Nat \ {0},
         \A i \in 1..n : c[i].timestamp \in Int,
         \A j \in 0..(n - 1) : CompactToBig(Bits(c, j)) \in 0..PowLimit
  PROVE  /\ CompactToBig(CalcLWMA(c, n - 1).bits) \in 0..PowLimit
         /\ CompactToBig(CalcLWMAv2(c, n - 1).bits) \in 0..PowLimit
  <1>1. PICK h \in Nat : h = n - 1
    OBVIOUS
  <1>2. PICK blocks \in Int : blocks = LwmaBlocks(h)
    BY ParamsAssumption DEF LwmaBlocks, MinOf
  <1>3. CASE blocks < 3
    BY <1>1, <1>2, <1>3 DEF CalcLWMA, CalcLWMAv2, Ok
  <1>4. CASE blocks >= 3
    <2>1. blocks \in Nat /\ h >= 2 /\ MinOf(blocks, h) >= 1
      BY <1>2, <1>4, ParamsAssumption DEF LwmaBlocks, MinOf
    <2>2. \A j \in 0..h : Timestamp(c, j) \in Int
      BY <1>1 DEF Timestamp
    <2>3. WindowStart(h, blocks) \in 0..h
      BY <2>1 DEF WindowStart, MinOf
    <2>4. CompactToBig(Bits(c, h)) \in 0..PowLimit
          /\ CompactToBig(Bits(c, WindowStart(h, blocks))) \in 0..PowLimit
      BY <1>1, <2>3
    <2>5. CompactToBig(LwmaNext(c, h, blocks, CompactToBig(Bits(c, h)), 10).bits)
            \in 0..PowLimit
      BY <2>1, <2>2, <2>4, LwmaNextWithinLimit
    <2>6. CompactToBig(LwmaNext(c, h, blocks,
                         CompactToBig(Bits(c, WindowStart(h, blocks))), 3).bits)
            \in 0..PowLimit
      BY <2>1, <2>2, <2>4, LwmaNextWithinLimit
    <2> QED BY <1>1, <1>2, <1>4, <2>5, <2>6 DEF CalcLWMA, CalcLWMAv2
  <1> QED BY <1>2, <1>3, <1>4

(***************************************************************************)
(* calcNextRequiredDifficulty for a new block at height n that is not an  *)
(* ASERT block stores a target within the limit when every block below it *)
(* has one.                                                               *)
(***************************************************************************)
LEMMA NewBlockWithinLimit ==
  ASSUME RoundsDown, PowLimitBitsWithinLimit,
         NEW c, NEW n \in Nat \ {0}, NEW t, ~IsAsertBlock(n),
         \A i \in 1..n : c[i].timestamp \in Int,
         \A j \in 0..(n - 1) : CompactToBig(Bits(c, j)) \in 0..PowLimit
  PROVE  CompactToBig(CalcNextRequiredDifficulty(c, n - 1, t).bits) \in 0..PowLimit
  <1>1. (n - 1) + 1 = n /\ ~(n - 1 < 0)
    OBVIOUS
  <1>2. CASE PoWNoRetargeting
    BY <1>2 DEF CalcNextRequiredDifficulty, Ok, PowLimitBitsWithinLimit
  <1>3. CASE ~PoWNoRetargeting
    <2>1. ~(ASERTHeight > 0 /\ n > ASERTHeight)
      BY DEF IsAsertBlock
    <2>2. CompactToBig(CalcLWMA(c, n - 1).bits) \in 0..PowLimit
          /\ CompactToBig(CalcLWMAv2(c, n - 1).bits) \in 0..PowLimit
      BY LwmaWithinLimit
    <2>3. CompactToBig(CalcLegacy(c, n - 1, t).bits) \in 0..PowLimit
      BY LegacyWithinLimit
    <2> QED BY <1>1, <1>3, <2>1, <2>2, <2>3 DEF CalcNextRequiredDifficulty
  <1> QED BY <1>2, <1>3

(***************************************************************************)
(* A new LWMA or LWMAv2 block whose window of solve times all took T gets *)
(* the target of its reference block (lastNode for v1, the block at the  *)
(* start of the window for v2), capped and stored.                        *)
(***************************************************************************)
LEMMA LwmaSteadyBlock ==
  ASSUME ~PoWNoRetargeting, NEW c, NEW n \in Nat \ {0}, NEW t,
         \A i \in 1..n : c[i].timestamp \in Int,
         NEW blocks \in Int, blocks = LwmaBlocks(n - 1), blocks >= 3, n - 1 >= blocks,
         IsLwmaV1Block(n) \/ IsLwmaV2Block(n),
         NEW r \in Int, r = IF IsLwmaV2Block(n) THEN n - 1 - blocks ELSE n - 1,
         \A j \in (n - blocks)..(n - 1) :
            Timestamp(c, j) - Timestamp(c, j - 1) = TargetTimePerBlock,
         CompactToBig(Bits(c, r)) \in Int
  PROVE  CalcNextRequiredDifficulty(c, n - 1, t).bits
           = BigToCompact(Limited(CompactToBig(Bits(c, r))))
  <1>1. PICK h \in Nat : h = n - 1
    OBVIOUS
  <1>2. blocks \in Nat /\ MinOf(blocks, h) = blocks /\ MinOf(blocks, h) >= 1
    BY <1>1 DEF MinOf
  <1>3. SteadyWindow(c, h, MinOf(blocks, h))
    BY <1>1, <1>2 DEF SteadyWindow
  <1>4. \A j \in 0..h : Timestamp(c, j) \in Int
    BY <1>1 DEF Timestamp
  <1>5. LwmaNext(c, h, blocks, CompactToBig(Bits(c, r)), 3).bits
          = BigToCompact(Limited(CompactToBig(Bits(c, r))))
        /\ LwmaNext(c, h, blocks, CompactToBig(Bits(c, r)), 10).bits
          = BigToCompact(Limited(CompactToBig(Bits(c, r))))
    BY <1>2, <1>3, <1>4, LwmaNextSteady
  <1>6. h + 1 = n /\ ~(h < 0) /\ ~(ASERTHeight > 0 /\ n > ASERTHeight)
    BY <1>1 DEF IsLwmaV1Block, IsLwmaV2Block, IsAsertBlock
  <1>7. CASE IsLwmaV2Block(n)
    <2>1. CalcNextRequiredDifficulty(c, h, t) = CalcLWMAv2(c, h)
      BY <1>6, <1>7 DEF CalcNextRequiredDifficulty, IsLwmaV2Block
    <2>2. r = WindowStart(h, blocks)
      BY <1>1, <1>2, <1>7 DEF WindowStart
    <2>3. CalcLWMAv2(c, h) = LwmaNext(c, h, blocks, CompactToBig(Bits(c, r)), 3)
      BY <1>1, <2>2 DEF CalcLWMAv2
    <2> QED BY <1>1, <1>5, <2>1, <2>3
  <1>8. CASE ~IsLwmaV2Block(n)
    <2>1. IsLwmaV1Block(n) /\ r = h
      BY <1>1, <1>8
    <2>2. CalcNextRequiredDifficulty(c, h, t) = CalcLWMA(c, h)
      BY <1>6, <1>8, <2>1, ParamsAssumption DEF CalcNextRequiredDifficulty, IsLwmaV2Block, IsLwmaV1Block
    <2>3. CalcLWMA(c, h) = LwmaNext(c, h, blocks, CompactToBig(Bits(c, r)), 10)
      BY <1>1, <2>1 DEF CalcLWMA
    <2> QED BY <1>1, <1>5, <2>2, <2>3
  <1> QED BY <1>7, <1>8

(***************************************************************************)
(* Every block below the ASERT era has a target within the limit, on every *)
(* network and with every mix of the legacy retarget, the testnet rule,   *)
(* LWMA and LWMAv2: each copies or scales the target of a block below it, *)
(* caps it, and the codec does not round it up.  ASERT blocks are left    *)
(* out: their target is 2^k times the anchor's, which the prover cannot   *)
(* evaluate for a symbolic k.                                             *)
(***************************************************************************)
THEOREM PreAsertTargetBounded ==
  ASSUME RoundsDown, GenesisWithinLimit, PowLimitBitsWithinLimit
  PROVE  Spec => []PreAsertBounded
  <1>1. Init => PreAsertBounded
    BY DEF Init, PreAsertBounded, Heights, TipHeight, Bits, GenesisWithinLimit
  <1>2. ChainWellFormed /\ PreAsertBounded /\ [Next]_vars => PreAsertBounded'
    <2> SUFFICES ASSUME ChainWellFormed, PreAsertBounded, [Next]_vars
                 PROVE  PreAsertBounded'
      OBVIOUS
    <2>1. CASE UNCHANGED vars
      BY <2>1 DEF vars, PreAsertBounded, Heights, TipHeight, Bits
    <2>2. CASE Next
      <3>1. PICK n \in 1..MaxHeight, t \in Int :
              /\ DOMAIN chain = 1..n /\ DOMAIN chain' = 1..(n + 1)
              /\ \A i \in 1..n : chain'[i] = chain[i]
              /\ chain'[n + 1].bits = CalcNextRequiredDifficulty(chain, n - 1, t).bits
        BY <2>2, MineStep
      <3>2. TipHeight = n - 1 /\ TipHeight' = n
        <4>1. n \in Nat /\ n + 1 \in Nat
          BY ParamsAssumption
        <4>2. Len(chain) = n
          BY <3>1, <4>1, AppendFacts
        <4>3. Len(chain') = n + 1
          BY <3>1, <4>1, AppendFacts
        <4> QED BY <4>2, <4>3 DEF TipHeight
      <3>3. \A H \in 0..(n - 1) : Bits(chain', H) = Bits(chain, H)
        <4> SUFFICES ASSUME NEW H \in 0..(n - 1)
                     PROVE  Bits(chain', H) = Bits(chain, H)
          OBVIOUS
        <4>1. H + 1 \in 1..n
          BY <3>1, ParamsAssumption
        <4> QED BY <3>1, <4>1 DEF Bits
      <3>4. ~IsAsertBlock(n) => CompactToBig(Bits(chain', n)) \in 0..PowLimit
        <4> SUFFICES ASSUME ~IsAsertBlock(n)
                     PROVE  CompactToBig(Bits(chain', n)) \in 0..PowLimit
          OBVIOUS
        <4>0. ~IsAsertBlock(n)
          OBVIOUS
        <4>1. \A i \in 1..n : chain[i].timestamp \in Int
          BY <3>1 DEF ChainWellFormed
        <4>2. \A j \in 0..(n - 1) : CompactToBig(Bits(chain, j)) \in 0..PowLimit
          BY <3>2, <4>0, ParamsAssumption DEF PreAsertBounded, Heights, IsAsertBlock
        <4>3. CompactToBig(CalcNextRequiredDifficulty(chain, n - 1, t).bits) \in 0..PowLimit
          <5>1. n \in Nat \ {0}
            BY ParamsAssumption
          <5> QED BY <4>0, <4>1, <4>2, <5>1, NewBlockWithinLimit
        <4> QED BY <3>1, <4>3 DEF Bits
      <3> QED BY <3>2, <3>3, <3>4, ParamsAssumption DEF PreAsertBounded, Heights
    <2> QED BY <2>1, <2>2
  <1> QED BY <1>1, <1>2, ChainWellFormedInvariant, PTL DEF Spec

(***************************************************************************)
(* On every network without ASERT, every block's target is within the     *)
(* limit (TargetBounded, which the testnet run checks with the testnet    *)
(* rule on).                                                              *)
(***************************************************************************)
COROLLARY TargetBoundedWithoutAsert ==
  ASSUME RoundsDown, GenesisWithinLimit, PowLimitBitsWithinLimit, ASERTHeight = 0
  PROVE  Spec => []TargetBounded
  <1>1. PreAsertBounded => TargetBounded
    BY DEF PreAsertBounded, TargetBounded, IsAsertBlock
  <1> QED BY <1>1, PreAsertTargetBounded, PTL

(***************************************************************************)
(* LWMA and LWMAv2 keep the target of their reference block (capped, up   *)
(* to the compact rounding) when every block of the window took exactly  *)
(* TargetTimePerBlock (LwmaSteadyState, which the eras run checks), on   *)
(* every network that retargets: the weighted solve time is then T times *)
(* the weights, which the clamp leaves alone, and the division undoes the *)
(* multiplication.  The reference target must be a number, which         *)
(* PreAsertBounded gives; the headers below the tip never change, so the *)
(* property is inductive with it and the chain's shape.  Regtest is left *)
(* out: it returns PowLimitBits before the dispatch reaches LWMA.        *)
(***************************************************************************)
THEOREM LwmaSteadyStateHolds ==
  ASSUME ~PoWNoRetargeting, RoundsDown, GenesisWithinLimit, PowLimitBitsWithinLimit
  PROVE  Spec => []LwmaSteadyState
  <1>1. Init => LwmaSteadyState
    <2>1. LwmaBlocks(0 - 1) \in Int
      BY ParamsAssumption DEF LwmaBlocks, MinOf
    <2> QED BY <2>1 DEF Init, LwmaSteadyState, Heights, TipHeight
  <1>2. ChainWellFormed /\ PreAsertBounded /\ LwmaSteadyState /\ [Next]_vars
          => LwmaSteadyState'
    <2> SUFFICES ASSUME ChainWellFormed, PreAsertBounded, LwmaSteadyState, [Next]_vars
                 PROVE  LwmaSteadyState'
      OBVIOUS
    <2>1. CASE UNCHANGED vars
      BY <2>1 DEF vars, LwmaSteadyState, Heights, TipHeight, Bits, OnSchedule, Timestamp
    <2>2. CASE Next
      <3>1. PICK n \in 1..MaxHeight, t \in Int :
              /\ DOMAIN chain = 1..n /\ DOMAIN chain' = 1..(n + 1)
              /\ \A i \in 1..n : chain'[i] = chain[i]
              /\ chain'[n + 1].bits = CalcNextRequiredDifficulty(chain, n - 1, t).bits
        BY <2>2, MineStep
      <3>2. TipHeight = n - 1 /\ TipHeight' = n
        <4>1. n \in Nat /\ n + 1 \in Nat
          BY ParamsAssumption
        <4>2. Len(chain) = n
          BY <3>1, <4>1, AppendFacts
        <4>3. Len(chain') = n + 1
          BY <3>1, <4>1, AppendFacts
        <4> QED BY <4>2, <4>3 DEF TipHeight
      <3>0. n \in Nat \ {0}
        BY ParamsAssumption
      <3> SUFFICES ASSUME NEW H \in 0..n, NEW blocks \in Int, blocks = LwmaBlocks(H - 1),
                          NEW r \in Int,
                          r = IF IsLwmaV2Block(H) THEN H - 1 - blocks ELSE H - 1,
                          IsLwmaV1Block(H) \/ IsLwmaV2Block(H),
                          blocks >= 3, H - 1 >= blocks,
                          \A j \in (H - blocks)..(H - 1) : OnSchedule(j)'
                   PROVE  Bits(chain', H) = BigToCompact(Limited(CompactToBig(Bits(chain', r))))
        <4>1. \A H \in 0..n : LwmaBlocks(H - 1) \in Int
          BY ParamsAssumption DEF LwmaBlocks, MinOf
        <4> QED BY <3>2, <4>1 DEF LwmaSteadyState, Heights
      <3>3. r \in 0..(H - 1) /\ H - 1 \in 0..(n - 1)
        BY <3>0, <3>2
      <3>4. \A j \in (H - blocks)..(H - 1) : OnSchedule(j)
        <4> SUFFICES ASSUME NEW j \in (H - blocks)..(H - 1)
                     PROVE  OnSchedule(j)
          OBVIOUS
        <4>1. j \in 1..(n - 1)
          BY <3>0, <3>2
        <4>2. chain'[j + 1] = chain[j + 1] /\ chain'[(j - 1) + 1] = chain[(j - 1) + 1]
          BY <3>1, <4>1
        <4> QED BY <4>2 DEF OnSchedule, Timestamp
      <3>5. Bits(chain', r) = Bits(chain, r)
        <4>1. r + 1 \in 1..n
          BY <3>0, <3>3
        <4> QED BY <3>1, <4>1 DEF Bits
      <3>6. CASE H < n
        <4>1. Bits(chain', H) = Bits(chain, H)
          BY <3>1, <3>6 DEF Bits
        <4>2. H \in Heights
          BY <3>2, <3>6 DEF Heights
        <4> QED BY <3>4, <3>5, <4>1, <4>2 DEF LwmaSteadyState
      <3>7. CASE H = n
        <4>1. \A i \in 1..n : chain[i].timestamp \in Int
          BY <3>1 DEF ChainWellFormed
        <4>2. ~IsAsertBlock(r) /\ r \in Heights
          BY <3>0, <3>2, <3>3, <3>7, ParamsAssumption
          DEF IsLwmaV1Block, IsLwmaV2Block, IsAsertBlock, Heights
        <4>3. CompactToBig(Bits(chain, r)) \in Int
          BY <4>2, ParamsAssumption DEF PreAsertBounded
        <4>4. \A j \in (n - blocks)..(n - 1) :
                 Timestamp(chain, j) - Timestamp(chain, j - 1) = TargetTimePerBlock
          BY <3>4, <3>7 DEF OnSchedule
        <4>5. CalcNextRequiredDifficulty(chain, n - 1, t).bits
                = BigToCompact(Limited(CompactToBig(Bits(chain, r))))
          BY <3>0, <3>7, <4>1, <4>3, <4>4, LwmaSteadyBlock
        <4> QED BY <3>1, <3>5, <3>7, <4>5 DEF Bits
      <3> QED BY <3>6, <3>7
    <2> QED BY <2>1, <2>2
  <1>3. Spec => []PreAsertBounded
    BY PreAsertTargetBounded
  <1> QED BY <1>1, <1>2, <1>3, ChainWellFormedInvariant, PTL DEF Spec
=============================================================================
