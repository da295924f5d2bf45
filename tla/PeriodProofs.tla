---------------------------- MODULE PeriodProofs ----------------------------
(***************************************************************************)
(* The testnet minimum-difficulty rule restores the period's difficulty:   *)
(* PeriodDifficultyRestored, which the testnet run checks, holds on every  *)
(* network that retargets.  The argument: every legacy block off a         *)
(* retarget boundary carries either PowLimitBits or the bits of the        *)
(* boundary block that opened its period (PeriodInv), so                   *)
(* findPrevTestNetDifficulty, walking down from lastNode, stops at that    *)
(* boundary or at a block with its bits.                                   *)
(***************************************************************************)
EXTENDS DifficultyProofs, WellFoundedInduction

\* The boundary block that opened the period of height H.
PeriodStart(H) == H - (H % BlocksPerRetarget)

\* A legacy block off a boundary keeps its period's bits or the minimum.
PeriodInv ==
    \A H \in Heights :
        (ReduceMinDifficulty /\ IsLegacyBlock(H) /\ H % BlocksPerRetarget # 0)
        => Bits(chain, H) \in {PowLimitBits, Bits(chain, PeriodStart(H))}

\* The inductive strengthening of PeriodDifficultyRestored.
IInv == PeriodInv /\ PeriodDifficultyRestored

\* A non-empty set of integers bounded above has a largest element.
LEMMA LargestElement ==
  \A S \in SUBSET Int, hi \in Int :
     S # {} /\ (\A x \in S : x <= hi) => \E j \in S : \A k \in S : k <= j
  <1> SUFFICES ASSUME NEW S \in SUBSET Int, NEW hi \in Int, S # {},
                      \A x \in S : x <= hi
               PROVE  \E j \in S : \A k \in S : k <= j
    OBVIOUS
  <1>1. {hi - x : x \in S} \subseteq Nat
    <2> SUFFICES ASSUME NEW x \in S PROVE hi - x \in Nat
      OBVIOUS
    <2> QED OBVIOUS
  <1>2. {hi - x : x \in S} # {}
    OBVIOUS
  <1>3. PICK d \in {hi - x : x \in S} :
               \A y \in {hi - x : x \in S} : ~(<<y, d>> \in OpToRel(<, Nat))
    BY <1>1, <1>2, NatLessThanWellFounded, WFMin
  <1>4. PICK j \in S : d = hi - j
    OBVIOUS
  <1>5. \A k \in S : ~(hi - k < hi - j)
    <2> SUFFICES ASSUME NEW k \in S, hi - k < hi - j PROVE FALSE
      OBVIOUS
    <2>1. hi - k \in {hi - x : x \in S} /\ hi - k \in Nat /\ d \in Nat
      BY <1>1
    <2>2. <<hi - k, d>> \in OpToRel(<, Nat)
      BY <2>1, <1>4 DEF OpToRel
    <2> QED BY <1>3, <2>1, <2>2
  <1> QED BY <1>5

\* Division by a positive B: quotient and remainder, and their uniqueness.
LEMMA DivMod ==
  ASSUME NEW B \in Nat \ {0}, NEW n \in Nat
  PROVE  n = (n \div B) * B + (n % B) /\ n % B \in 0..(B - 1) /\ n \div B \in Nat
  BY Z3
LEMMA DivModUnique ==
  ASSUME NEW B \in Nat \ {0}, NEW q \in Int, NEW r \in 0..(B - 1)
  PROVE  (q * B + r) % B = r /\ (q * B + r) \div B = q
  BY Z3

\* The arithmetic of a period of B blocks: its start, and the heights in it.
LEMMA PeriodArithOf ==
  ASSUME NEW B \in Nat \ {0}, NEW n \in Nat, n % B # 0
  PROVE  /\ n - (n % B) \in 0..(n - 1)
         /\ (n - (n % B)) % B = 0
         /\ \A j \in (n - (n % B) + 1)..(n - 1) :
               j % B # 0 /\ j - (j % B) = n - (n % B)
  <1>1. n = (n \div B) * B + (n % B) /\ n % B \in 0..(B - 1) /\ n \div B \in Nat
    BY DivMod
  <1>2. PICK q \in Nat : q = n \div B
    BY <1>1
  <1>3. n = q * B + (n % B) /\ n % B \in 1..(B - 1)
    BY <1>1, <1>2
  <1>4. n - (n % B) = q * B
    BY <1>3
  <1>5. n - (n % B) \in 0..(n - 1)
    BY <1>3, <1>4
  <1>6. (n - (n % B)) % B = 0
    <2>1. (q * B + 0) % B = 0
      BY DivModUnique
    <2> QED BY <1>4, <2>1
  <1>7. ASSUME NEW j \in (n - (n % B) + 1)..(n - 1)
        PROVE  j % B # 0 /\ j - (j % B) = n - (n % B)
    <2>1. PICK r \in 1..(B - 1) : j = q * B + r
      BY <1>3, <1>4
    <2>2. (q * B + r) % B = r
      BY DivModUnique
    <2>3. j % B = r
      BY <2>1, <2>2
    <2> QED BY <1>4, <2>1, <2>3
  <1> QED BY <1>5, <1>6, <1>7

LEMMA PeriodArith ==
  ASSUME NEW n \in Nat, n % BlocksPerRetarget # 0
  PROVE  /\ PeriodStart(n) \in 0..(n - 1)
         /\ PeriodStart(n) % BlocksPerRetarget = 0
         /\ \A j \in (PeriodStart(n) + 1)..(n - 1) :
               j % BlocksPerRetarget # 0 /\ PeriodStart(j) = PeriodStart(n)
  BY BlocksPerRetargetPositive, PeriodArithOf DEF PeriodStart

\* The eras follow the height: below a legacy block every block is legacy.
LEMMA LegacyBelow ==
  ASSUME NEW n \in Nat, NEW j \in 1..n, IsLegacyBlock(n)
  PROVE  IsLegacyBlock(j)
  BY ParamsAssumption DEF IsLegacyBlock, IsAsertBlock, IsLwmaV2Block, IsLwmaV1Block
\* The heights at which findPrevTestNetDifficulty's walk down from h may stop,
\* and the one where it does.
StopSet(c, h) == {j \in 0..h : WalkStopsAt(c, j)}
WalkEnd(c, h) ==
    CHOOSE j \in 0..h : WalkStopsAt(c, j) /\ \A k \in (j + 1)..h : ~WalkStopsAt(c, k)

(***************************************************************************)
(* findPrevTestNetDifficulty from lastNode at height h, off a boundary,    *)
(* returns the bits of the period's boundary block when every block in     *)
(* between carries those bits or PowLimitBits: the walk stops at the       *)
(* highest block that is a boundary or has other bits, which is the        *)
(* boundary or a block with the boundary's bits.                           *)
(***************************************************************************)
LEMMA WalkReachesPeriodStart ==
  ASSUME NEW c, NEW h \in Nat, (h + 1) % BlocksPerRetarget # 0,
         \A j \in (PeriodStart(h + 1) + 1)..h :
            Bits(c, j) \in {PowLimitBits, Bits(c, PeriodStart(h + 1))}
  PROVE  FindPrevTestNetDifficulty(c, h) = Bits(c, PeriodStart(h + 1))
  <1>1. /\ PeriodStart(h + 1) \in 0..h
        /\ PeriodStart(h + 1) % BlocksPerRetarget = 0
        /\ \A j \in (PeriodStart(h + 1) + 1)..h : j % BlocksPerRetarget # 0
    BY PeriodArith
  <1>2. WalkStopsAt(c, PeriodStart(h + 1))
    BY <1>1 DEF WalkStopsAt
  <1>3. \E j \in 0..h : WalkStopsAt(c, j) /\ \A k \in (j + 1)..h : ~WalkStopsAt(c, k)
    <2>1. PICK m \in StopSet(c, h) :
                 \A k \in StopSet(c, h) : k <= m
      <3>1. StopSet(c, h) # {}
        BY <1>1, <1>2 DEF StopSet
      <3>2. /\ StopSet(c, h) \in SUBSET Int
            /\ \A x \in StopSet(c, h) : x <= h /\ h \in Int
        BY DEF StopSet
      <3> QED BY <3>1, <3>2, LargestElement, Zenon
    <2>2. \A k \in (m + 1)..h : ~WalkStopsAt(c, k)
      BY <2>1 DEF StopSet
    <2> QED BY <2>1, <2>2 DEF StopSet
  <1>4. /\ WalkEnd(c, h) \in 0..h
        /\ WalkStopsAt(c, WalkEnd(c, h))
        /\ \A k \in (WalkEnd(c, h) + 1)..h : ~WalkStopsAt(c, k)
    BY <1>3 DEF WalkEnd
  <1>5. FindPrevTestNetDifficulty(c, h) = Bits(c, WalkEnd(c, h))
    BY <1>3 DEF FindPrevTestNetDifficulty, WalkEnd
  <1>6. WalkEnd(c, h) >= PeriodStart(h + 1)
    BY <1>1, <1>2, <1>4
  <1>7. CASE WalkEnd(c, h) = PeriodStart(h + 1)
    BY <1>5, <1>7
  <1>8. CASE WalkEnd(c, h) # PeriodStart(h + 1)
    <2>1. WalkEnd(c, h) \in (PeriodStart(h + 1) + 1)..h
      BY <1>1, <1>4, <1>6, <1>8
    <2>2. Bits(c, WalkEnd(c, h)) # PowLimitBits
      BY <1>1, <1>4, <2>1 DEF WalkStopsAt
    <2> QED BY <1>5, <2>1, <2>2
  <1> QED BY <1>7, <1>8
\* The time and the bits of the block MineBlock appends with solve time st.
NewTime(st) == Timestamp(chain, TipHeight) + st
MinedBits(st) == CalcNextRequiredDifficulty(chain, TipHeight, NewTime(st)).bits

(***************************************************************************)
(* The bits calcNextRequiredDifficulty gives a legacy block at height n    *)
(* off a boundary on a retargeting testnet: the minimum, or the period's   *)
(* bits, and the period's bits when the block is not later than            *)
(* MinDiffReductionTime after its parent.                                  *)
(***************************************************************************)
LEMMA NewBlockBits ==
  ASSUME NEW n \in Nat \ {0}, DOMAIN chain = 1..n, NEW st \in SolveTimes,
         ChainWellFormed, PeriodInv, ~PoWNoRetargeting,
         ReduceMinDifficulty, IsLegacyBlock(n), n % BlocksPerRetarget # 0
  PROVE  /\ MinedBits(st) \in {PowLimitBits, Bits(chain, PeriodStart(n))}
         /\ NewTime(st) <= Timestamp(chain, n - 1) + MinDiffReductionTime
            => MinedBits(st) = Bits(chain, PeriodStart(n))
  <1>1. TipHeight = n - 1 /\ n - 1 \in Nat
    BY AppendFacts DEF TipHeight
  <1>2. PeriodStart(n) \in 0..(n - 1)
    BY PeriodArith
  <1>4. CASE ~PoWNoRetargeting
    <2>1. MinedBits(st) = CalcLegacy(chain, n - 1, NewTime(st)).bits
      BY <1>1, <1>4, ParamsAssumption
      DEF MinedBits, CalcNextRequiredDifficulty, IsLegacyBlock, IsAsertBlock,
          IsLwmaV2Block, IsLwmaV1Block
    <2>2. \A j \in (PeriodStart(n) + 1)..(n - 1) :
             Bits(chain, j) \in {PowLimitBits, Bits(chain, PeriodStart(n))}
      <3> SUFFICES ASSUME NEW j \in (PeriodStart(n) + 1)..(n - 1)
                   PROVE  Bits(chain, j) \in {PowLimitBits, Bits(chain, PeriodStart(n))}
        OBVIOUS
      <3>1. j % BlocksPerRetarget # 0 /\ PeriodStart(j) = PeriodStart(n)
        BY PeriodArith
      <3>2. j \in 1..n /\ j \in Heights
        BY <1>1, <1>2 DEF Heights
      <3>3. IsLegacyBlock(j)
        BY <3>2, LegacyBelow
      <3> QED BY <3>1, <3>2, <3>3 DEF PeriodInv
    <2>3. FindPrevTestNetDifficulty(chain, n - 1) = Bits(chain, PeriodStart(n))
      BY <1>1, <2>2, WalkReachesPeriodStart
    <2>4. CalcLegacy(chain, n - 1, NewTime(st)).bits
            = IF NewTime(st) > Timestamp(chain, n - 1) + MinDiffReductionTime
              THEN PowLimitBits ELSE FindPrevTestNetDifficulty(chain, n - 1)
      BY <1>1 DEF CalcLegacy, Ok
    <2>5. NewTime(st) \in Int /\ Timestamp(chain, n - 1) \in Int
      <3>1. Timestamp(chain, n - 1) \in Int
        BY <1>1 DEF ChainWellFormed, Timestamp
      <3> QED BY <1>1, <3>1, ParamsAssumption DEF NewTime
    <2> QED BY <2>1, <2>3, <2>4, <2>5, ParamsAssumption
  <1> QED BY <1>4
(***************************************************************************)
(* On testnet, a legacy block off a boundary that comes no later than      *)
(* MinDiffReductionTime after its parent carries the bits of the boundary  *)
(* block that opened its period (PeriodDifficultyRestored, checked by the  *)
(* testnet run), on every network that retargets: the walk of              *)
(* findPrevTestNetDifficulty over minimum-difficulty blocks always lands   *)
(* on the period's difficulty.  A network with PoWNoRetargeting is left    *)
(* out: there calcNextRequiredDifficulty returns PowLimitBits for every    *)
(* block, and regtest's genesis carries 0x1e0ffff0, not its PowLimitBits   *)
(* 0x207fffff, so the property fails there at block 1.                     *)
(***************************************************************************)
THEOREM PeriodDifficultyRestoredHolds ==
  ASSUME ~PoWNoRetargeting
  PROVE  Spec => []PeriodDifficultyRestored
  <1>1. Init => IInv
    <2> SUFFICES ASSUME Init PROVE IInv
      OBVIOUS
    <2>1. Heights = {0} /\ Bits(chain, 0) = GenesisBits
      BY DEF Init, Heights, TipHeight, Bits
    <2>2. ~IsLegacyBlock(0)
      BY DEF IsLegacyBlock
    <2> QED BY <2>1, <2>2 DEF IInv, PeriodInv, PeriodDifficultyRestored
  <1>2. ChainWellFormed /\ IInv /\ [Next]_vars => IInv'
    <2> SUFFICES ASSUME ChainWellFormed, IInv, [Next]_vars PROVE IInv'
      OBVIOUS
    <2>1. CASE UNCHANGED vars
      BY <2>1 DEF vars, IInv, PeriodInv, PeriodDifficultyRestored,
                  Heights, TipHeight
    <2>2. CASE Next
      <3>1. PICK n \in 1..(MaxHeight + 1) : DOMAIN chain = 1..n
        BY DEF ChainWellFormed
      <3>2. TipHeight = n - 1 /\ Heights = 0..(n - 1)
        BY <3>1, AppendFacts DEF TipHeight, Heights
      <3>3. PICK st \in SolveTimes :
                 chain' = Append(chain, [timestamp |-> NewTime(st), bits |-> MinedBits(st)])
        BY <2>2 DEF Next, MineBlock, NewTime, MinedBits
      <3>4. /\ Heights' = 0..n
            /\ \A H \in 0..(n - 1) : /\ Bits(chain', H) = Bits(chain, H)
                                      /\ Timestamp(chain', H) = Timestamp(chain, H)
            /\ Bits(chain', n) = MinedBits(st)
            /\ Timestamp(chain', n) = NewTime(st)
        BY <3>1, <3>3, AppendFacts DEF Heights, TipHeight, Bits, Timestamp
      <3>6. PeriodInv'
        <4> SUFFICES ASSUME NEW H \in 0..n, ReduceMinDifficulty, IsLegacyBlock(H),
                            H % BlocksPerRetarget # 0
                     PROVE  Bits(chain', H) \in {PowLimitBits, Bits(chain', PeriodStart(H))}
          BY <3>4 DEF PeriodInv
        <4>1. PeriodStart(H) \in 0..(H - 1)
          BY PeriodArith
        <4>2. CASE H < n
          BY <3>2, <3>4, <4>1, <4>2 DEF IInv, PeriodInv
        <4>3. CASE H = n
          <5>1. MinedBits(st) \in {PowLimitBits, Bits(chain, PeriodStart(n))}
            BY <3>1, <4>3, NewBlockBits DEF IInv, IsLegacyBlock
          <5> QED BY <3>4, <4>1, <4>3, <5>1
        <4> QED BY <4>2, <4>3
      <3>7. PeriodDifficultyRestored'
        <4> SUFFICES ASSUME NEW H \in 0..n, ReduceMinDifficulty, IsLegacyBlock(H),
                            H % BlocksPerRetarget # 0,
                            Timestamp(chain', H)
                              <= Timestamp(chain', H - 1) + MinDiffReductionTime
                     PROVE  Bits(chain', H) = Bits(chain', PeriodStart(H))
          BY <3>4 DEF PeriodDifficultyRestored, PeriodStart
        <4>1. PeriodStart(H) \in 0..(H - 1) /\ H >= 1
          BY PeriodArith DEF IsLegacyBlock
        <4>2. CASE H < n
          BY <3>2, <3>4, <4>1, <4>2 DEF IInv, PeriodDifficultyRestored, PeriodStart
        <4>3. CASE H = n
          <5>1. NewTime(st) <= Timestamp(chain, n - 1) + MinDiffReductionTime
            BY <3>4, <4>1, <4>3
          <5>2. MinedBits(st) = Bits(chain, PeriodStart(n))
            BY <3>1, <4>3, <5>1, NewBlockBits DEF IInv, IsLegacyBlock
          <5> QED BY <3>4, <4>1, <4>3, <5>2
        <4> QED BY <4>2, <4>3
      <3> QED BY <3>6, <3>7 DEF IInv
    <2> QED BY <2>1, <2>2
  <1> QED BY <1>1, <1>2, ChainWellFormedInvariant, PTL DEF Spec, IInv
=============================================================================
