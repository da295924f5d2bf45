-------------------------- MODULE DifficultyProofs --------------------------
(***************************************************************************)
(* Proofs about the retarget core, for every value of the constants that   *)
(* satisfies ParamsAssumption.  The compact codec is not reasoned about:   *)
(* the prover cannot evaluate 256^k for a symbolic k, so what the codec    *)
(* computes is left to the TLC runs, and the theorems here are about the   *)
(* chain's shape and the heights the algorithms walk to.                   *)
(***************************************************************************)
EXTENDS Difficulty, TLAPS

\* Facts about the parameters that the proofs use.
LEMMA BlocksPerRetargetPositive == BlocksPerRetarget \in Nat \ {0}
  <1>1. TargetTimespan \div TargetTimePerBlock \in Int
    BY ParamsAssumption
  <1> QED BY <1>1, ParamsAssumption DEF BlocksPerRetarget

(***************************************************************************)
(* The legacy retarget's window starts at or above genesis: at a boundary  *)
(* height h + 1 = q * BlocksPerRetarget, the first retarget (q = 1) walks  *)
(* back BlocksPerRetarget - 1 blocks to genesis, and every later one       *)
(* (q >= 2) has at least 2 * BlocksPerRetarget - 1 blocks below lastNode.  *)
(***************************************************************************)
LEMMA RetargetWindowInChain ==
  ASSUME NEW h \in Nat, (h + 1) % BlocksPerRetarget = 0
  PROVE  h - RetargetWalk(h) >= 0
  <1> DEFINE B == BlocksPerRetarget
             q == (h + 1) \div B
  <1>1. B \in Nat \ {0}
    BY BlocksPerRetargetPositive
  <1>2. CASE h + 1 = B
    BY <1>1, <1>2 DEF RetargetWalk
  <1>3. CASE h + 1 # B
    <2>1. q \in Nat /\ h + 1 = q * B
      BY <1>1, SMT
    <2>2. q >= 2
      <3>1. q # 0 /\ q # 1
        BY <1>1, <1>3, <2>1
      <3> QED BY <2>1, <3>1
    <2>3. h + 1 >= 2 * B
      BY <1>1, <2>1, <2>2, SMT
    <2> QED BY <1>1, <1>3, <2>3 DEF RetargetWalk
  <1> QED BY <1>2, <1>3

(***************************************************************************)
(* calcNextRequiredDifficulty returns an AssertError for no chain and no   *)
(* height of lastNode at or above genesis: only the legacy window and the  *)
(* ASERT anchor's parent can be missing, and neither is (the dispatcher    *)
(* sends to ASERT only heights at or above ASERTHeight > 0).  The lemma    *)
(* holds whatever the headers hold, so it is not about the codec.          *)
(***************************************************************************)
LEMMA NoAssertErrorAtHeight ==
  ASSUME NEW c, NEW h \in Nat, NEW t
  PROVE  ~CalcNextRequiredDifficulty(c, h, t).err
  <1> USE ParamsAssumption
  <1>1. CASE PoWNoRetargeting
    BY <1>1 DEF CalcNextRequiredDifficulty, Ok
  <1>2. CASE ~PoWNoRetargeting /\ ASERTHeight > 0 /\ h + 1 > ASERTHeight
    <2>1. AsertAnchor(h) - 1 >= 0
      BY <1>2 DEF AsertAnchor
    <2>2. ~CalcASERT(c, h).err
      BY <2>1 DEF CalcASERT, AsertAnchor, Ok
    <2>3. CalcNextRequiredDifficulty(c, h, t) = CalcASERT(c, h)
      BY <1>2 DEF CalcNextRequiredDifficulty
    <2> QED BY <2>2, <2>3
  <1>3. CASE ~PoWNoRetargeting /\ ~(ASERTHeight > 0 /\ h + 1 > ASERTHeight)
             /\ LWMAFixHeight > 0 /\ h + 1 >= LWMAFixHeight
    <2>1. ~CalcLWMAv2(c, h).err
      BY DEF CalcLWMAv2, LwmaNext, Ok
    <2>2. CalcNextRequiredDifficulty(c, h, t) = CalcLWMAv2(c, h)
      BY <1>3 DEF CalcNextRequiredDifficulty
    <2> QED BY <2>1, <2>2
  <1>4. CASE ~PoWNoRetargeting /\ ~(ASERTHeight > 0 /\ h + 1 > ASERTHeight)
             /\ ~(LWMAFixHeight > 0 /\ h + 1 >= LWMAFixHeight)
             /\ LWMAHeight > 0 /\ h + 1 >= LWMAHeight
    <2>1. ~CalcLWMA(c, h).err
      BY DEF CalcLWMA, LwmaNext, Ok
    <2>2. CalcNextRequiredDifficulty(c, h, t) = CalcLWMA(c, h)
      BY <1>4 DEF CalcNextRequiredDifficulty
    <2> QED BY <2>1, <2>2
  <1>5. CASE ~PoWNoRetargeting /\ ~(ASERTHeight > 0 /\ h + 1 > ASERTHeight)
             /\ ~(LWMAFixHeight > 0 /\ h + 1 >= LWMAFixHeight)
             /\ ~(LWMAHeight > 0 /\ h + 1 >= LWMAHeight)
    <2> SUFFICES ~CalcLegacy(c, h, t).err
      BY <1>5 DEF CalcNextRequiredDifficulty
    <2>2. CASE (h + 1) % BlocksPerRetarget # 0
      BY <2>2 DEF CalcLegacy, Ok
    <2>3. CASE (h + 1) % BlocksPerRetarget = 0
      <3>1. h - RetargetWalk(h) >= 0
        BY <2>3, RetargetWindowInChain
      <3>2. RetargetWalk(h) \in Int
        BY BlocksPerRetargetPositive DEF RetargetWalk
      <3>3. ~(h - RetargetWalk(h) < 0)
        BY <3>1, <3>2
      <3> QED BY <2>3, <3>3 DEF CalcLegacy, Ok
    <2> QED BY <2>2, <2>3
  <1> QED BY <1>1, <1>2, <1>3, <1>4, <1>5

\* What Append does to a function on 1..n, whether or not it is typed.
LEMMA AppendFacts ==
  ASSUME NEW s, NEW n \in Nat, DOMAIN s = 1..n, NEW e
  PROVE  /\ Len(s) = n
         /\ DOMAIN Append(s, e) = 1..(n + 1)
         /\ Append(s, e)[n + 1] = e
         /\ \A i \in 1..n : Append(s, e)[i] = s[i]
  BY SMT

(***************************************************************************)
(* The chain keeps its shape: the miner only appends a header with an      *)
(* integer timestamp, below the height bound.                              *)
(***************************************************************************)
LEMMA ChainWellFormedInvariant == Spec => []ChainWellFormed
  <1>1. Init => ChainWellFormed
    <2> SUFFICES ASSUME Init PROVE ChainWellFormed
      OBVIOUS
    <2>1. DOMAIN chain = 1..1 /\ 1 \in 1..(MaxHeight + 1)
      BY ParamsAssumption DEF Init
    <2>2. \A i \in DOMAIN chain : chain[i] = [timestamp |-> chain[i].timestamp,
                                             bits |-> chain[i].bits]
                                 /\ chain[i].timestamp \in Int
      BY ParamsAssumption DEF Init
    <2> QED BY <2>1, <2>2 DEF ChainWellFormed
  <1>2. ChainWellFormed /\ [Next]_vars => ChainWellFormed'
    <2> SUFFICES ASSUME ChainWellFormed, [Next]_vars PROVE ChainWellFormed'
      OBVIOUS
    <2>1. PICK n \in 1..(MaxHeight + 1) : DOMAIN chain = 1..n
      BY DEF ChainWellFormed
    <2>2. TipHeight = n - 1
      BY <2>1, AppendFacts DEF TipHeight
    <2>3. CASE Next
      <3>1. PICK st \in SolveTimes :
                 LET t == Timestamp(chain, TipHeight) + st
                     r == CalcNextRequiredDifficulty(chain, TipHeight, t)
                 IN  /\ ~r.err
                     /\ chain' = Append(chain, [timestamp |-> t, bits |-> r.bits])
        BY <2>3 DEF Next, MineBlock
      <3> DEFINE t == Timestamp(chain, TipHeight) + st
                 hdr == [timestamp |-> t,
                         bits |-> CalcNextRequiredDifficulty(chain, TipHeight, t).bits]
      <3>2. chain' = Append(chain, hdr)
        BY <3>1
      <3>3. n < MaxHeight + 1
        BY <2>3, <2>2, ParamsAssumption DEF Next, MineBlock
      <3>4. t \in Int
        BY <2>1, <2>2, ParamsAssumption DEF ChainWellFormed, Timestamp
      <3>5. DOMAIN chain' = 1..(n + 1) /\ n + 1 \in 1..(MaxHeight + 1)
        BY <2>1, <3>2, <3>3, AppendFacts, ParamsAssumption
      <3>6. \A i \in DOMAIN chain' : chain'[i] = [timestamp |-> chain'[i].timestamp,
                                                 bits |-> chain'[i].bits]
                                     /\ chain'[i].timestamp \in Int
        BY <2>1, <3>2, <3>4, <3>5, AppendFacts, ParamsAssumption DEF ChainWellFormed
      <3> QED BY <3>5, <3>6 DEF ChainWellFormed
    <2>4. CASE UNCHANGED vars
      BY <2>4 DEF ChainWellFormed, vars
    <2> QED BY <2>3, <2>4
  <1> QED BY <1>1, <1>2, PTL DEF Spec

(***************************************************************************)
(* The miner is never refused with an AssertError (NeverAssertError, which *)
(* the legacy and testnet runs check): the chain always holds genesis, so  *)
(* lastNode's height is a natural and NoAssertErrorAtHeight applies.       *)
(***************************************************************************)
THEOREM NeverAssertErrorInvariant == Spec => []NeverAssertError
  <1>1. ChainWellFormed => NeverAssertError
    <2> SUFFICES ASSUME ChainWellFormed PROVE NeverAssertError
      OBVIOUS
    <2>1. PICK n \in 1..(MaxHeight + 1) : DOMAIN chain = 1..n
      BY DEF ChainWellFormed
    <2>2. TipHeight \in Nat
      BY <2>1, AppendFacts, ParamsAssumption DEF TipHeight
    <2> QED BY <2>2, NoAssertErrorAtHeight DEF NeverAssertError
  <1> QED BY <1>1, ChainWellFormedInvariant, PTL
=============================================================================
