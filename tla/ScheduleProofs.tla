--------------------------- MODULE ScheduleProofs ---------------------------
(***************************************************************************)
(* The original retarget implements RetargetSchedule, for every network    *)
(* that uses it alone (no testnet rule, no LWMA, no ASERT, retargeting on) *)
(* and every value of the other constants.  The codec is not reasoned      *)
(* about (the prover cannot evaluate 256^k for a symbolic k): the three    *)
(* facts about it that the argument needs are hypotheses, and the codec    *)
(* run checks each of them on targets clustered at every byte boundary.   *)
(* The largest-element lemma of PeriodProofs gives the telescoping of     *)
(* timestamps that the steady-state theorem needs.                        *)
(***************************************************************************)
EXTENDS PeriodProofs

\* The configuration of the legacy run: calcNextRequiredDifficulty always
\* dispatches to the original retarget, without the minimum-difficulty rule.
LegacyOnly ==
    /\ ~PoWNoRetargeting /\ ~ReduceMinDifficulty
    /\ LWMAHeight = 0 /\ LWMAFixHeight = 0 /\ ASERTHeight = 0

\* Facts about the codec: storing a target below PowLimit never rounds it
\* up nor below zero (EncodeRoundsDown), never reorders two targets
\* (RoundMonotone), and the genesis target is within the limit.
RoundsDown == \A t \in 0..PowLimit : RoundCompact(t) \in 0..t
RoundMonotoneBelowLimit ==
    \A s, t \in 0..PowLimit : s <= t => RoundCompact(s) <= RoundCompact(t)
GenesisWithinLimit == CompactToBig(GenesisBits) \in 0..PowLimit

\* The targets the refinement mapping gives RetargetSchedule.
MappedTargets == [i \in DOMAIN chain |-> CompactToBig(chain[i].bits)]

(* Clamping to the legacy bounds yields a timespan between them, and both
   are naturals: TargetTimespan \div F <= TargetTimespan * F for F >= 1. *)
LEMMA ClampInBounds ==
  ASSUME NEW v \in Int
  PROVE  /\ MinRetargetTimespan \in Nat /\ MaxRetargetTimespan \in Nat
         /\ MinRetargetTimespan <= Clamp(v, MinRetargetTimespan, MaxRetargetTimespan)
         /\ Clamp(v, MinRetargetTimespan, MaxRetargetTimespan) <= MaxRetargetTimespan
  <1>1. MinRetargetTimespan \in Nat /\ MaxRetargetTimespan \in Nat
        /\ MinRetargetTimespan <= MaxRetargetTimespan
    BY ParamsAssumption, SMT DEF MinRetargetTimespan, MaxRetargetTimespan
  <1> QED BY <1>1 DEF Clamp

\* TargetTimespan is positive: BlocksPerRetarget >= 1 is its quotient.
LEMMA TimespanPositive == TargetTimespan \in Nat \ {0}
  <1>1. TargetTimespan \div TargetTimePerBlock \in Nat \ {0}
    BY BlocksPerRetargetPositive DEF BlocksPerRetarget
  <1> QED BY <1>1, ParamsAssumption, SMT

(* Scaling a target in 0..PowLimit by two timespans lo <= a, then capping,
   keeps the order and stays in 0..PowLimit. *)
LEMMA ScaleCapOrdered ==
  ASSUME NEW prev \in 0..PowLimit, NEW lo \in Nat, NEW a \in Nat, lo <= a
  PROVE  /\ CapAtPowLimit((prev * lo) \div TargetTimespan) \in 0..PowLimit
         /\ CapAtPowLimit((prev * a) \div TargetTimespan) \in 0..PowLimit
         /\ CapAtPowLimit((prev * lo) \div TargetTimespan)
              <= CapAtPowLimit((prev * a) \div TargetTimespan)
  <1>1. TargetTimespan \in Nat \ {0} /\ PowLimit \in Nat
    BY TimespanPositive, ParamsAssumption
  <1>2. prev * lo <= prev * a /\ 0 <= prev * lo
    BY <1>1, SMT
  <1>3. 0 <= (prev * lo) \div TargetTimespan
        /\ (prev * lo) \div TargetTimespan <= (prev * a) \div TargetTimespan
    BY <1>1, <1>2, SMT
  <1> QED BY <1>1, <1>3 DEF CapAtPowLimit

(***************************************************************************)
(* The retarget at a boundary: from a previous target in 0..PowLimit and   *)
(* any measured timespan, the stored target is in 0..PowLimit and between  *)
(* the schedule's hardest and easiest targets.                             *)
(***************************************************************************)
LEMMA RetargetWithinBounds ==
  ASSUME RoundsDown, RoundMonotoneBelowLimit,
         NEW prev \in 0..PowLimit, NEW v \in Int
  PROVE  LET new == RoundCompact(CapAtPowLimit(
                      (prev * Clamp(v, MinRetargetTimespan, MaxRetargetTimespan))
                        \div TargetTimespan))
         IN  /\ new \in 0..PowLimit
             /\ Schedule!Hardest(prev) <= new
             /\ new <= Schedule!Easiest(prev)
  <1>1. /\ MinRetargetTimespan \in Nat /\ MaxRetargetTimespan \in Nat
        /\ MinRetargetTimespan <= Clamp(v, MinRetargetTimespan, MaxRetargetTimespan)
        /\ Clamp(v, MinRetargetTimespan, MaxRetargetTimespan) <= MaxRetargetTimespan
    BY ClampInBounds
  <1>2. PICK a \in Nat : /\ a = Clamp(v, MinRetargetTimespan, MaxRetargetTimespan)
                         /\ MinRetargetTimespan <= a /\ a <= MaxRetargetTimespan
    BY <1>1, SMT DEF Clamp
  <1>3. PICK lo \in 0..PowLimit :
          lo = CapAtPowLimit((prev * MinRetargetTimespan) \div TargetTimespan)
    BY <1>1, <1>2, ScaleCapOrdered
  <1>4. PICK mid \in 0..PowLimit : mid = CapAtPowLimit((prev * a) \div TargetTimespan)
    BY <1>2, ScaleCapOrdered
  <1>5. PICK hi \in 0..PowLimit :
          hi = CapAtPowLimit((prev * MaxRetargetTimespan) \div TargetTimespan)
    BY <1>1, <1>2, ScaleCapOrdered
  <1>6. lo <= mid /\ mid <= hi
    BY <1>1, <1>2, <1>3, <1>4, <1>5, ScaleCapOrdered
  <1>7. RoundCompact(mid) \in 0..mid
    BY <1>4 DEF RoundsDown
  <1>8. RoundCompact(lo) <= RoundCompact(mid) /\ RoundCompact(mid) <= RoundCompact(hi)
    BY <1>3, <1>4, <1>5, <1>6 DEF RoundMonotoneBelowLimit
  <1>9. Schedule!Hardest(prev) = RoundCompact(lo)
        /\ Schedule!Easiest(prev) = RoundCompact(hi)
    BY <1>3, <1>5 DEF Schedule!Hardest, Schedule!Easiest, Schedule!CapAt, CapAtPowLimit
  <1>10. RoundCompact(mid) \in 0..PowLimit
    BY <1>4, <1>7, ParamsAssumption, SMT
  <1> QED BY <1>2, <1>4, <1>8, <1>9, <1>10
(* CalcLegacy at a boundary: the stored form of lastNode's target scaled by
   a clamped timespan and capped; the window never reaches below genesis, so
   there is no AssertError. *)
LEMMA LegacyRetargetBits ==
  ASSUME NEW c, NEW n \in Nat \ {0}, NEW t, n % BlocksPerRetarget = 0,
         \A i \in 1..n : c[i].timestamp \in Int
  PROVE  \E v \in Int :
           CalcLegacy(c, n - 1, t).bits
             = BigToCompact(CapAtPowLimit(
                 (CompactToBig(Bits(c, n - 1))
                    * Clamp(v, MinRetargetTimespan, MaxRetargetTimespan))
                   \div TargetTimespan))
  <1>1. (n - 1) + 1 = n
    OBVIOUS
  <1>2. RetargetWalk(n - 1) \in 0..BlocksPerRetarget
    BY BlocksPerRetargetPositive, SMT DEF RetargetWalk
  <1>3. PICK first \in Int : first = (n - 1) - RetargetWalk(n - 1)
    BY <1>2, SMT
  <1>4. first >= 0
    <2>1. n - 1 \in Nat /\ ((n - 1) + 1) % BlocksPerRetarget = 0
      BY <1>1
    <2> QED BY <1>3, <2>1, RetargetWindowInChain
  <1>5. first <= n - 1
    BY <1>2, <1>3, BlocksPerRetargetPositive, SMT
  <1>6. Timestamp(c, n - 1) - Timestamp(c, first) \in Int
    BY <1>4, <1>5 DEF Timestamp
  <1>7. CalcLegacy(c, n - 1, t).bits
          = BigToCompact(CapAtPowLimit(
              (CompactToBig(Bits(c, n - 1))
                 * Clamp(Timestamp(c, n - 1) - Timestamp(c, first),
                         MinRetargetTimespan, MaxRetargetTimespan))
                \div TargetTimespan))
    BY <1>1, <1>3, <1>4 DEF CalcLegacy, Ok
  <1> QED BY <1>6, <1>7

(***************************************************************************)
(* What calcNextRequiredDifficulty stores on a legacy-only network, as a   *)
(* target: off a boundary lastNode's target; at a boundary the stored form *)
(* of lastNode's target scaled by a clamped timespan and capped.           *)
(***************************************************************************)
LEMMA LegacyNewTarget ==
  ASSUME LegacyOnly, NEW c, NEW n \in Nat \ {0}, NEW t,
         \A i \in 1..n : c[i].timestamp \in Int
  PROVE  LET new == CompactToBig(CalcNextRequiredDifficulty(c, n - 1, t).bits)
             prev == CompactToBig(Bits(c, n - 1))
         IN  /\ n % BlocksPerRetarget # 0 => new = prev
             /\ n % BlocksPerRetarget = 0 =>
                  \E v \in Int :
                    new = RoundCompact(CapAtPowLimit(
                            (prev * Clamp(v, MinRetargetTimespan, MaxRetargetTimespan))
                              \div TargetTimespan))
  <1>1. CalcNextRequiredDifficulty(c, n - 1, t) = CalcLegacy(c, n - 1, t)
    BY DEF LegacyOnly, CalcNextRequiredDifficulty
  <1>2. (n - 1) + 1 = n
    OBVIOUS
  <1>3. ASSUME n % BlocksPerRetarget # 0
        PROVE  CalcLegacy(c, n - 1, t).bits = Bits(c, n - 1)
    BY <1>2, <1>3 DEF LegacyOnly, CalcLegacy, Ok
  <1>4. ASSUME n % BlocksPerRetarget = 0
        PROVE  \E v \in Int :
                 CalcLegacy(c, n - 1, t).bits
                   = BigToCompact(CapAtPowLimit(
                       (CompactToBig(Bits(c, n - 1))
                          * Clamp(v, MinRetargetTimespan, MaxRetargetTimespan))
                         \div TargetTimespan))
    BY <1>4, LegacyRetargetBits
  <1> QED BY <1>1, <1>3, <1>4 DEF RoundCompact
\* Storing the retarget's new target keeps it in 0..PowLimit.
LEMMA RetargetWithinLimit ==
  ASSUME RoundsDown, NEW prev \in 0..PowLimit, NEW v \in Int
  PROVE  RoundCompact(CapAtPowLimit(
           (prev * Clamp(v, MinRetargetTimespan, MaxRetargetTimespan))
             \div TargetTimespan)) \in 0..PowLimit
  <1>1. PICK a \in Nat : /\ a = Clamp(v, MinRetargetTimespan, MaxRetargetTimespan)
                         /\ MinRetargetTimespan <= a /\ MinRetargetTimespan \in Nat
    BY ClampInBounds, SMT DEF Clamp
  <1>2. PICK mid \in 0..PowLimit : mid = CapAtPowLimit((prev * a) \div TargetTimespan)
    BY <1>1, ScaleCapOrdered
  <1>3. RoundCompact(mid) \in 0..mid
    BY <1>2 DEF RoundsDown
  <1> QED BY <1>1, <1>2, <1>3, ParamsAssumption, SMT

(***************************************************************************)
(* A step of the miner appends one header, whose bits are what            *)
(* calcNextRequiredDifficulty returned for lastNode at the old tip and    *)
(* some integer timestamp, and leaves every earlier header alone.         *)
(***************************************************************************)
LEMMA MineStep ==
  ASSUME ChainWellFormed, Next
  PROVE  \E n \in 1..MaxHeight, t \in Int :
           /\ DOMAIN chain = 1..n /\ DOMAIN chain' = 1..(n + 1)
           /\ \A i \in 1..n : chain'[i] = chain[i]
           /\ chain'[n + 1].bits = CalcNextRequiredDifficulty(chain, n - 1, t).bits
  <1>1. PICK n \in 1..(MaxHeight + 1) : DOMAIN chain = 1..n
    BY DEF ChainWellFormed
  <1>2. TipHeight = n - 1
    BY <1>1, AppendFacts DEF TipHeight
  <1>3. PICK st \in SolveTimes :
             LET t == Timestamp(chain, TipHeight) + st
                 r == CalcNextRequiredDifficulty(chain, TipHeight, t)
             IN  /\ ~r.err
                 /\ chain' = Append(chain, [timestamp |-> t, bits |-> r.bits])
    BY DEF Next, MineBlock
  <1> DEFINE t == Timestamp(chain, n - 1) + st
             hdr == [timestamp |-> t,
                     bits |-> CalcNextRequiredDifficulty(chain, n - 1, t).bits]
  <1>4. chain' = Append(chain, hdr)
    BY <1>2, <1>3
  <1>5. n <= MaxHeight
    BY <1>1, <1>2, ParamsAssumption DEF Next, MineBlock
  <1>6. t \in Int
    BY <1>1, ParamsAssumption DEF ChainWellFormed, Timestamp
  <1>7. /\ DOMAIN chain' = 1..(n + 1)
        /\ \A i \in 1..n : chain'[i] = chain[i]
        /\ chain'[n + 1] = hdr
    BY <1>1, <1>4, AppendFacts
  <1> QED BY <1>1, <1>5, <1>6, <1>7
(***************************************************************************)
(* On a network that uses the original retarget alone, every block's      *)
(* target is in 0..PowLimit (TargetBounded, which the legacy run checks): *)
(* a block off a boundary copies lastNode's bits, and one at a boundary   *)
(* stores a capped target, which the codec does not round up.  The        *)
(* invariant is inductive together with the chain's shape.                *)
(***************************************************************************)
THEOREM TargetBoundedOnLegacy ==
  ASSUME LegacyOnly, RoundsDown, GenesisWithinLimit
  PROVE  Spec => []TargetBounded
  <1>1. Init => TargetBounded
    BY DEF Init, TargetBounded, Heights, TipHeight, Bits, GenesisWithinLimit
  <1>2. ChainWellFormed /\ TargetBounded /\ [Next]_vars => TargetBounded'
    <2> SUFFICES ASSUME ChainWellFormed, TargetBounded, [Next]_vars
                 PROVE  TargetBounded'
      OBVIOUS
    <2>1. CASE UNCHANGED vars
      BY <2>1 DEF vars, TargetBounded, Heights, TipHeight, Bits
    <2>2. CASE Next
      <3>1. PICK n \in 1..MaxHeight, t \in Int :
              /\ DOMAIN chain = 1..n /\ DOMAIN chain' = 1..(n + 1)
              /\ \A i \in 1..n : chain'[i] = chain[i]
              /\ chain'[n + 1].bits = CalcNextRequiredDifficulty(chain, n - 1, t).bits
        BY <2>2, MineStep
      <3>2. TipHeight = n - 1 /\ TipHeight' = n
        BY <3>1, AppendFacts, ParamsAssumption DEF TipHeight
      <3>3. CompactToBig(Bits(chain, n - 1)) \in 0..PowLimit
        BY <3>1, <3>2, ParamsAssumption DEF TargetBounded, Heights
      <3>4. CompactToBig(Bits(chain', n)) \in 0..PowLimit
        <4>1. \A i \in 1..n : chain[i].timestamp \in Int
          BY <3>1 DEF ChainWellFormed
        <4>2. /\ n % BlocksPerRetarget # 0 =>
                   CompactToBig(CalcNextRequiredDifficulty(chain, n - 1, t).bits)
                     = CompactToBig(Bits(chain, n - 1))
              /\ n % BlocksPerRetarget = 0 =>
                   \E v \in Int :
                     CompactToBig(CalcNextRequiredDifficulty(chain, n - 1, t).bits)
                       = RoundCompact(CapAtPowLimit(
                           (CompactToBig(Bits(chain, n - 1))
                              * Clamp(v, MinRetargetTimespan, MaxRetargetTimespan))
                             \div TargetTimespan))
          BY <4>1, LegacyNewTarget
        <4>3. CompactToBig(Bits(chain', n))
                = CompactToBig(CalcNextRequiredDifficulty(chain, n - 1, t).bits)
          BY <3>1 DEF Bits
        <4>4. CASE n % BlocksPerRetarget # 0
          BY <3>3, <4>2, <4>3, <4>4
        <4>5. CASE n % BlocksPerRetarget = 0
          BY <3>3, <4>2, <4>3, <4>5, RetargetWithinLimit
        <4> QED BY <4>4, <4>5
      <3>5. \A H \in 0..(n - 1) : Bits(chain', H) = Bits(chain, H)
        <4> SUFFICES ASSUME NEW H \in 0..(n - 1)
                     PROVE  Bits(chain', H) = Bits(chain, H)
          OBVIOUS
        <4>1. H + 1 \in 1..n
          BY <3>1, ParamsAssumption
        <4> QED BY <3>1, <4>1 DEF Bits
      <3> QED BY <3>2, <3>4, <3>5, ParamsAssumption DEF TargetBounded, Heights
    <2> QED BY <2>1, <2>2
  <1> QED BY <1>1, <1>2, ChainWellFormedInvariant, PTL DEF Spec
(***************************************************************************)
(* The original retarget implements RetargetSchedule under the mapping of  *)
(* each header to its target (LegacyFollowsSchedule, which the legacy run *)
(* checks): genesis maps to a one-target schedule within the limit, and   *)
(* every mined block to an Extend step (a block off a boundary keeps      *)
(* lastNode's target; one at a boundary lies between the hardest and the  *)
(* easiest target the clamp allows, and within PowLimit).  TargetBounded  *)
(* is the invariant the boundary case needs: lastNode's target is in      *)
(* 0..PowLimit, so scaling it by the clamped timespan keeps the order.    *)
(***************************************************************************)
THEOREM LegacyImplementsSchedule ==
  ASSUME LegacyOnly, RoundsDown, RoundMonotoneBelowLimit, GenesisWithinLimit
  PROVE  Spec => LegacyFollowsSchedule
  <1>1. Init => Schedule!SchedInit
    <2> SUFFICES ASSUME Init PROVE Schedule!SchedInit
      OBVIOUS
    <2>1. DOMAIN MappedTargets = 1..1 /\ MappedTargets[1] = CompactToBig(GenesisBits)
      BY DEF Init, MappedTargets
    <2>2. Len(MappedTargets) = 1
      BY <2>1, AppendFacts
    <2> QED BY <2>1, <2>2 DEF Schedule!SchedInit, MappedTargets, GenesisWithinLimit
  <1>2. ChainWellFormed /\ TargetBounded /\ [Next]_vars
          => [Schedule!Extend]_MappedTargets
    <2> SUFFICES ASSUME ChainWellFormed, TargetBounded, [Next]_vars
                 PROVE  [Schedule!Extend]_MappedTargets
      OBVIOUS
    <2>1. CASE UNCHANGED vars
      BY <2>1 DEF vars, MappedTargets
    <2>2. CASE Next
      <3>1. PICK n \in 1..MaxHeight, t \in Int :
              /\ DOMAIN chain = 1..n /\ DOMAIN chain' = 1..(n + 1)
              /\ \A i \in 1..n : chain'[i] = chain[i]
              /\ chain'[n + 1].bits = CalcNextRequiredDifficulty(chain, n - 1, t).bits
        BY <2>2, MineStep
      <3>2. /\ DOMAIN MappedTargets = 1..n /\ DOMAIN MappedTargets' = 1..(n + 1)
            /\ \A i \in 1..n : MappedTargets'[i] = MappedTargets[i]
            /\ MappedTargets[n] = CompactToBig(Bits(chain, n - 1))
            /\ MappedTargets'[n + 1]
                 = CompactToBig(CalcNextRequiredDifficulty(chain, n - 1, t).bits)
        BY <3>1 DEF MappedTargets, Bits
      <3>3. Len(MappedTargets) = n /\ Len(MappedTargets') = n + 1
        BY <3>1, <3>2, AppendFacts, ParamsAssumption
      <3>4. CompactToBig(Bits(chain, n - 1)) \in 0..PowLimit
        <4>1. TipHeight = n - 1
          BY <3>1, AppendFacts, ParamsAssumption DEF TipHeight
        <4> QED BY <4>1, ParamsAssumption DEF TargetBounded, Heights
      <3>5. /\ n % BlocksPerRetarget # 0 =>
                 CompactToBig(CalcNextRequiredDifficulty(chain, n - 1, t).bits)
                   = CompactToBig(Bits(chain, n - 1))
            /\ n % BlocksPerRetarget = 0 =>
                 \E v \in Int :
                   CompactToBig(CalcNextRequiredDifficulty(chain, n - 1, t).bits)
                     = RoundCompact(CapAtPowLimit(
                         (CompactToBig(Bits(chain, n - 1))
                            * Clamp(v, MinRetargetTimespan, MaxRetargetTimespan))
                           \div TargetTimespan))
        <4>1. \A i \in 1..n : chain[i].timestamp \in Int
          BY <3>1 DEF ChainWellFormed
        <4> QED BY <4>1, LegacyNewTarget
      <3>6. n % BlocksPerRetarget = 0 =>
              /\ Schedule!Hardest(MappedTargets[n]) <= MappedTargets'[n + 1]
              /\ MappedTargets'[n + 1] <= Schedule!Easiest(MappedTargets[n])
              /\ MappedTargets'[n + 1] <= PowLimit
        BY <3>2, <3>4, <3>5, RetargetWithinBounds
      <3>7. n % BlocksPerRetarget # 0 => MappedTargets'[n + 1] = MappedTargets[n]
        BY <3>2, <3>5
      <3>8. Schedule!Extend
        BY <3>2, <3>3, <3>6, <3>7 DEF Schedule!Extend, MappedTargets
      <3> QED BY <3>8
    <2> QED BY <2>1, <2>2
  <1>3. Spec => []TargetBounded
    BY TargetBoundedOnLegacy
  <1>4. Spec => [][Schedule!Extend]_MappedTargets
    BY <1>2, <1>3, ChainWellFormedInvariant, PTL DEF Spec
  <1>5. Spec => Schedule!SchedInit /\ [][Schedule!Extend]_MappedTargets
    BY <1>1, <1>4, PTL DEF Spec
  <1> QED BY <1>5, PTL DEF LegacyFollowsSchedule, Schedule!SchedSpec, MappedTargets
\* The timestamps of the blocks a..a+i are each T after the previous one.
EvenlySpaced(c, a, T, i) ==
    \A m \in 0..i : Timestamp(c, a + m) - Timestamp(c, a) = m * T

SpacedSet(c, a, T, k) == {i \in 0..k : EvenlySpaced(c, a, T, i)}

(* Telescoping: k blocks that each took T seconds span k * T seconds. *)
LEMMA Telescope ==
  ASSUME NEW c, NEW a \in Nat, NEW k \in Nat, NEW T \in Int,
         \A j \in a..(a + k) : Timestamp(c, j) \in Int,
         \A j \in (a + 1)..(a + k) : Timestamp(c, j) - Timestamp(c, j - 1) = T
  PROVE  Timestamp(c, a + k) - Timestamp(c, a) = k * T
  <1>1. SpacedSet(c, a, T, k) # {}
    <2>1. 0 \in SpacedSet(c, a, T, k)
      BY DEF SpacedSet, EvenlySpaced
    <2> QED BY <2>1
  <1>2. /\ SpacedSet(c, a, T, k) \in SUBSET Int
        /\ \A x \in SpacedSet(c, a, T, k) : x <= k /\ k \in Int
    BY DEF SpacedSet
  <1>3. PICK j \in SpacedSet(c, a, T, k) : \A m \in SpacedSet(c, a, T, k) : m <= j
    BY <1>1, <1>2, LargestElement, Zenon
  <1>9. j \in 0..k /\ EvenlySpaced(c, a, T, j)
    BY <1>3 DEF SpacedSet
  <1>4. j = k
    <2> SUFFICES ASSUME j < k PROVE FALSE
      BY <1>9
    <2>0. a + (j + 1) \in (a + 1)..(a + k) /\ (a + (j + 1)) - 1 = a + j
      BY <1>9
    <2>1. Timestamp(c, a + (j + 1)) - Timestamp(c, a + j) = T
      BY <2>0, Zenon
    <2>2. Timestamp(c, a + j) - Timestamp(c, a) = j * T
      BY <1>9 DEF EvenlySpaced
    <2>3. Timestamp(c, a + (j + 1)) \in Int /\ Timestamp(c, a + j) \in Int
          /\ Timestamp(c, a) \in Int
      BY <1>9
    <2>4. Timestamp(c, a + (j + 1)) - Timestamp(c, a) = (j + 1) * T
      BY <1>9, <2>1, <2>2, <2>3, SMT
    <2>5. EvenlySpaced(c, a, T, j + 1)
      <3> SUFFICES ASSUME NEW m \in 0..(j + 1)
                   PROVE  Timestamp(c, a + m) - Timestamp(c, a) = m * T
        BY DEF EvenlySpaced
      <3>1. CASE m <= j
        BY <1>9, <3>1 DEF EvenlySpaced
      <3>2. CASE m = j + 1
        BY <2>4, <3>2
      <3> QED BY <3>1, <3>2, <1>9
    <2>6. j + 1 \in SpacedSet(c, a, T, k)
      BY <1>9, <2>5 DEF SpacedSet
    <2> QED BY <1>3, <2>6, <1>9
  <1> QED BY <1>9, <1>4 DEF EvenlySpaced
(***************************************************************************)
(* A retarget after a period in which every block took TargetTimePerBlock *)
(* keeps lastNode's target: the window spans BlocksPerRetarget solve      *)
(* times, that is TargetTimespan when the block time divides it, which    *)
(* the clamp leaves alone, and the target is already within PowLimit.     *)
(***************************************************************************)
LEMMA SteadyRetarget ==
  ASSUME LegacyOnly, TargetTimespan % TargetTimePerBlock = 0,
         NEW c, NEW n \in Nat, NEW t,
         n % BlocksPerRetarget = 0, n > BlocksPerRetarget,
         \A i \in 1..n : c[i].timestamp \in Int,
         CompactToBig(Bits(c, n - 1)) \in 0..PowLimit,
         \A j \in (n - BlocksPerRetarget)..(n - 1) :
            Timestamp(c, j) - Timestamp(c, j - 1) = TargetTimePerBlock
  PROVE  CalcNextRequiredDifficulty(c, n - 1, t).bits
           = BigToCompact(CompactToBig(Bits(c, n - 1)))
  <1> USE ParamsAssumption
  <1>1. BlocksPerRetarget \in Nat \ {0} /\ TargetTimespan \in Nat \ {0}
    BY BlocksPerRetargetPositive, TimespanPositive
  <1>2. CalcNextRequiredDifficulty(c, n - 1, t) = CalcLegacy(c, n - 1, t)
    BY <1>1 DEF LegacyOnly, CalcNextRequiredDifficulty
  <1>3. RetargetWalk(n - 1) = BlocksPerRetarget
    BY <1>1 DEF RetargetWalk
  <1>4. PICK a \in Nat : a = (n - 1) - BlocksPerRetarget
    BY <1>1
  <1>5. Timestamp(c, a + BlocksPerRetarget) - Timestamp(c, a)
          = BlocksPerRetarget * TargetTimePerBlock
    <2>1. \A j \in a..(a + BlocksPerRetarget) : Timestamp(c, j) \in Int
      BY <1>1, <1>4 DEF Timestamp
    <2>2. \A j \in (a + 1)..(a + BlocksPerRetarget) :
             Timestamp(c, j) - Timestamp(c, j - 1) = TargetTimePerBlock
      BY <1>1, <1>4
    <2> QED BY <1>1, <2>1, <2>2, Telescope
  <1>6. BlocksPerRetarget * TargetTimePerBlock = TargetTimespan
    BY <1>1, SMT DEF BlocksPerRetarget
  <1>7. Clamp(TargetTimespan, MinRetargetTimespan, MaxRetargetTimespan) = TargetTimespan
    BY <1>1, SMT DEF Clamp, MinRetargetTimespan, MaxRetargetTimespan
  <1>8. (CompactToBig(Bits(c, n - 1)) * TargetTimespan) \div TargetTimespan
          = CompactToBig(Bits(c, n - 1))
    BY <1>1, SMT
  <1>9. CapAtPowLimit(CompactToBig(Bits(c, n - 1))) = CompactToBig(Bits(c, n - 1))
    BY DEF CapAtPowLimit
  <1>10. ((n - 1) + 1) % BlocksPerRetarget = 0 /\ a + BlocksPerRetarget = n - 1
         /\ ~((n - 1) - RetargetWalk(n - 1) < 0)
    BY <1>1, <1>3, <1>4
  <1> QED BY <1>2, <1>3, <1>4, <1>5, <1>6, <1>7, <1>8, <1>9, <1>10 DEF CalcLegacy, Ok
(***************************************************************************)
(* On a network that uses the original retarget alone, with a block time  *)
(* that divides the retarget timespan (3.5 days and 2.5 minutes on every  *)
(* network of the source), a retarget after a period in which every block *)
(* took exactly TargetTimePerBlock keeps lastNode's target, up to the     *)
(* compact rounding (LegacySteadyState, which the legacy run checks).     *)
(* The headers below the tip never change, so the property is inductive   *)
(* with the chain's shape and TargetBounded, which the new block needs.   *)
(***************************************************************************)
THEOREM LegacySteadyStateOnLegacy ==
  ASSUME LegacyOnly, RoundsDown, GenesisWithinLimit,
         TargetTimespan % TargetTimePerBlock = 0
  PROVE  Spec => []LegacySteadyState
  <1>0. BlocksPerRetarget \in Nat \ {0}
    BY BlocksPerRetargetPositive
  <1>1. Init => LegacySteadyState
    BY <1>0 DEF Init, LegacySteadyState, Heights, TipHeight
  <1>2. ChainWellFormed /\ TargetBounded /\ LegacySteadyState /\ [Next]_vars
          => LegacySteadyState'
    <2> SUFFICES ASSUME ChainWellFormed, TargetBounded, LegacySteadyState, [Next]_vars
                 PROVE  LegacySteadyState'
      OBVIOUS
    <2>1. CASE UNCHANGED vars
      BY <2>1 DEF vars, LegacySteadyState, Heights, TipHeight, Bits, OnSchedule, Timestamp
    <2>2. CASE Next
      <3>1. PICK n \in 1..MaxHeight, t \in Int :
              /\ DOMAIN chain = 1..n /\ DOMAIN chain' = 1..(n + 1)
              /\ \A i \in 1..n : chain'[i] = chain[i]
              /\ chain'[n + 1].bits = CalcNextRequiredDifficulty(chain, n - 1, t).bits
        BY <2>2, MineStep
      <3>2. TipHeight = n - 1 /\ TipHeight' = n
        BY <3>1, AppendFacts, ParamsAssumption DEF TipHeight
      <3> SUFFICES ASSUME NEW H \in 0..n, IsLegacyBlock(H), H % BlocksPerRetarget = 0,
                          H > BlocksPerRetarget,
                          \A j \in (H - BlocksPerRetarget)..(H - 1) : OnSchedule(j)'
                   PROVE  Bits(chain', H) = BigToCompact(CompactToBig(Bits(chain', H - 1)))
        BY <3>2 DEF LegacySteadyState, Heights
      <3>3. \A j \in (H - BlocksPerRetarget)..(H - 1) : OnSchedule(j)
        <4> SUFFICES ASSUME NEW j \in (H - BlocksPerRetarget)..(H - 1)
                     PROVE  OnSchedule(j)
          OBVIOUS
        <4>1. j \in 1..(n - 1)
          BY <1>0
        <4>2. chain'[j + 1] = chain[j + 1] /\ chain'[(j - 1) + 1] = chain[(j - 1) + 1]
          BY <3>1, <4>1
        <4> QED BY <4>2 DEF OnSchedule, Timestamp
      <3>4. Bits(chain', H - 1) = Bits(chain, H - 1)
        BY <3>1, <1>0 DEF Bits
      <3>5. CASE H < n
        <4>1. Bits(chain', H) = Bits(chain, H)
          BY <3>1, <3>5 DEF Bits
        <4>2. H \in Heights
          BY <3>2, <3>5 DEF Heights
        <4> QED BY <3>3, <3>4, <4>1, <4>2 DEF LegacySteadyState
      <3>6. CASE H = n
        <4>1. \A i \in 1..n : chain[i].timestamp \in Int
          BY <3>1 DEF ChainWellFormed
        <4>2. CompactToBig(Bits(chain, n - 1)) \in 0..PowLimit
          BY <3>2, ParamsAssumption DEF TargetBounded, Heights
        <4>3. \A j \in (n - BlocksPerRetarget)..(n - 1) :
                 Timestamp(chain, j) - Timestamp(chain, j - 1) = TargetTimePerBlock
          BY <3>3, <3>6 DEF OnSchedule
        <4>4. CalcNextRequiredDifficulty(chain, n - 1, t).bits
                = BigToCompact(CompactToBig(Bits(chain, n - 1)))
          BY <3>1, <3>6, <4>1, <4>2, <4>3, ParamsAssumption, SteadyRetarget
        <4> QED BY <3>1, <3>4, <3>6, <4>4 DEF Bits
      <3> QED BY <3>5, <3>6
    <2> QED BY <2>1, <2>2
  <1>3. Spec => []TargetBounded
    BY TargetBoundedOnLegacy
  <1> QED BY <1>1, <1>2, <1>3, ChainWellFormedInvariant, PTL DEF Spec
=============================================================================
